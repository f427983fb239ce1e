---------------------------- MODULE SessionsProofs ----------------------------
(***************************************************************************)
(* What holds of Sessions for any windows, connections, terminals and      *)
(* bounds.  Whatever happens, what a session prints goes to a socket that  *)
(* is attached to it, or about to leave it.  And where a window waits for  *)
(* the answer to a switch or a close, and a request is served when nothing *)
(* is queued, every panel has been fed what its terminal printed, from the *)
(* start, each chunk once and in order.  If there is one window, and the   *)
(* daemon notices that a connection has ended before the next is made, the *)
(* window has the panels of the terminals of its session and no others,    *)
(* each with all that was printed, whenever nothing is on its way.         *)
(*                                                                         *)
(* The second takes three facts about a window and its socket, and keeps   *)
(* them through every step (FInv): what is on its way to a panel goes on   *)
(* where the panel ends (Flow), one move of the window is under way at a   *)
(* time and the socket has the session of the workspace the window shows   *)
(* or is about to show (Controlled), and terminals have one session and    *)
(* have printed nothing before they are issued (Issued).                   *)
(*                                                                         *)
(* The third takes besides (UInv) that at most one connection is open      *)
(* (Sole), that each workspace of the list has its session (Lasting), that *)
(* the socket is the subscriber of its session (Attended), and that its    *)
(* window is on the way to the right place with the right panels (View):   *)
(* the panels it has, those it is about to be told of and the ends it has  *)
(* yet to hear of or has asked for make up the terminals that live, and it *)
(* waits for as many shells as are asked for or reported (Dock).           *)
(***************************************************************************)
EXTENDS SessionsInvariants, FiniteSetTheorems, SequenceTheorems, NaturalsInduction,
        WellFoundedInduction, TLAPS

-----------------------------------------------------------------------------

\* The socket keeps its session, and what it may have to do about sessions.
Keeps(k) ==
    /\ socket'[k].session = socket[k].session
    /\ \/ socket'[k].doing = socket[k].doing
       \/ socket[k].doing.step # "detach" /\ socket'[k].doing.step \notin {"attach", "detach"}

\* No session gets a subscriber.
NoneSubscribed == \A s \in DOMAIN sessions' :
    /\ s \in DOMAIN sessions /\ DOMAIN sessions'[s] = DOMAIN sessions[s]
    /\ sessions'[s].subscriber \in {sessions[s].subscriber, None}

LEMMA AttachedStays ==
    ASSUME AInv, SocketsShaped', NoneSubscribed, \A k \in Sockets : Keeps(k)
    PROVE  AInv'
<1>1. SubscribersTyped'
  BY DEF AInv, SubscribersTyped, NoneSubscribed
<1>2. AttachesFree'
  BY DEF AInv, AttachesFree, Keeps, Bound
<1>3. SubscriberAttached'
  BY DEF AInv, SubscribersTyped, SubscriberAttached, NoneSubscribed, Keeps
<1>. QED BY <1>1, <1>2, <1>3 DEF AInv

-----------------------------------------------------------------------------
(* What the actions are made of.                                           *)

LEMMA UnsubscribedShape ==
    ASSUME SubscribersTyped, NEW s
    PROVE  LET u == Unsubscribed(s)
           IN  /\ DOMAIN u = DOMAIN sessions
               /\ \A x \in DOMAIN u : /\ DOMAIN u[x] = DOMAIN sessions[x]
                                      /\ u[x].subscriber = IF x = s THEN None ELSE sessions[x].subscriber
  BY DEF Unsubscribed, SubscribersTyped

\* What is queued changes nothing of what a socket does.
LEMMA EmittedShape ==
    ASSUME NEW sockets, NEW s, NEW m, DOMAIN sockets = Sockets,
           \A k \in Sockets : DOMAIN sockets[k] = SocketFields
    PROVE  LET e == Emitted(sockets, s, m)
           IN  /\ DOMAIN e = Sockets
               /\ \A k \in Sockets : /\ DOMAIN e[k] = SocketFields /\ e[k].session = sockets[k].session
                                     /\ e[k].doing = sockets[k].doing
  BY DEF Emitted, SocketFields

\* A socket that only goes on.
LEMMA GoesKeeps ==
    ASSUME SocketsShaped, NEW k \in Sockets, NEW to, Goes(k, to), socket[k].doing.step # "detach",
           to.step \notin {"attach", "detach"}
    PROVE  SocketsShaped' /\ \A j \in Sockets : Keeps(j)
  BY DEF SocketsShaped, SocketFields, Goes, Keeps

LEMMA DoneKeeps ==
    ASSUME SocketsShaped, NEW k \in Sockets, socket' = [socket EXCEPT ![k].doing = Idle],
           socket[k].doing.step # "detach"
    PROVE  SocketsShaped' /\ \A j \in Sockets : Keeps(j)
  BY DEF SocketsShaped, SocketFields, Keeps, Idle

LEMMA BecomesKeeps ==
    ASSUME SocketsShaped, NEW c, NEW g, NEW requests, Becomes(c, g, requests)
    PROVE  SocketsShaped' /\ \A j \in Sockets : Keeps(j)
  BY DEF SocketsShaped, SocketFields, Becomes, Keeps

LEMMA SameSessions ==
    ASSUME AInv, UNCHANGED sessions
    PROVE  NoneSubscribed
  BY DEF NoneSubscribed

-----------------------------------------------------------------------------
(* The steps.                                                              *)

LEMMA InitAttached == Init => AInv
<1>. SUFFICES ASSUME Init PROVE AInv
  OBVIOUS
<1>1. ASSUME NEW s \in DOMAIN sessions
      PROVE  s # None /\ sessions[s] = [terminals |-> {}, subscriber |-> None]
  <2>. PICK w \in DOMAIN Start.byId : s = Start.byId[w].session
    BY DEF Init
  <2>1. s \in Sessions
    BY SessionsAssumption DEF IsList, Records
  <2>. QED BY <2>1, ListAssumption DEF Init, NewSession
<1>2. SubscribersTyped /\ SubscriberAttached
  BY <1>1 DEF SubscribersTyped, SubscriberAttached
<1>3. SocketsShaped /\ AttachesFree
  BY DEF Init, SocketsShaped, SocketFields, AttachesFree, Bound, NewSocket, Idle
<1>. QED BY <1>2, <1>3 DEF AInv

LEMMA TerminalSteps ==
    ASSUME AInv, NEW p \in Terminals, Prints(p) \/ Ends(p)
    PROVE  AInv'
<1>1. CASE Prints(p)
  <2>. PICK s \in DOMAIN sessions :
          socket' = Emitted(socket, s, Printed(p, <<printed[p] + 1>>)) /\ UNCHANGED sessions
    BY <1>1 DEF Prints
  <2>1. SocketsShaped' /\ \A k \in Sockets : Keeps(k)
    BY EmittedShape DEF AInv, SocketsShaped, Keeps
  <2>. QED BY <2>1, SameSessions, AttachedStays
<1>2. CASE Ends(p)
  <2>. PICK s \in DOMAIN sessions :
          /\ sessions' = [sessions EXCEPT ![s].terminals = @ \ {p}]
          /\ socket' = Emitted(socket, s, [type |-> "closed", terminal |-> p])
    BY <1>2 DEF Ends
  <2>1. SocketsShaped' /\ \A k \in Sockets : Keeps(k)
    BY EmittedShape DEF AInv, SocketsShaped, Keeps
  <2>2. NoneSubscribed
    BY DEF AInv, SubscribersTyped, NoneSubscribed
  <2>. QED BY <2>1, <2>2, AttachedStays
<1>. QED BY <1>1, <1>2

LEMMA SwitchStep ==
    ASSUME AInv, NEW k \in Sockets, Switch(k)
    PROVE  AInv'
<1>1. socket[k].doing = Idle /\ UNCHANGED sessions
  BY DEF Switch, Serving
<1>2. CASE Refuse(k, "switch")
  <2>1. SocketsShaped' /\ \A j \in Sockets : Keeps(j)
    BY <1>1, <1>2, GoesKeeps DEF Refuse, AInv, Idle
  <2>. QED BY <1>1, <2>1, SameSessions, AttachedStays
<1>3. CASE ~Refuse(k, "switch")
  <2>. PICK w, s, tabs : socket' = [socket EXCEPT
                            ![k].requests = Tail(@), ![k].session = None,
                            ![k].doing = Leaving(socket[k].session, Attaching(w, s, tabs))]
    BY <1>3 DEF Switch
  <2>. DEFINE prev == socket[k].session
              to == Attaching(w, s, tabs)
  <2>1. SocketsShaped' /\ socket'[k].session = None /\ socket'[k].doing = Leaving(prev, to)
        /\ \A j \in Sockets : j # k => socket'[j] = socket[j]
    BY DEF AInv, SocketsShaped, SocketFields
  <2>2. AttachesFree'
    <3>1. to.step = "attach"
      BY DEF Attaching
    <3>2. Leaving(prev, to).step = "detach" => Leaving(prev, to).next.step # "detach"
      BY <3>1 DEF Leaving, Detaching
    <3>. QED BY <2>1, <3>2 DEF AInv, AttachesFree
  <2>3. ASSUME NEW x \in DOMAIN sessions, sessions[x].subscriber = k
        PROVE  socket'[k].doing.step = "detach" /\ socket'[k].doing.session = x
    <3>0. k # None /\ x # None
      BY SessionsAssumption, <2>3 DEF AInv, SubscribersTyped
    <3>1. prev = x
      BY <1>1, <2>3, <3>0 DEF AInv, SubscriberAttached, Idle
    <3>. QED BY <2>1, <3>0, <3>1 DEF Leaving, Detaching
  <2>4. SubscriberAttached'
    <3>. SUFFICES ASSUME NEW x \in DOMAIN sessions, sessions[x].subscriber # None
                  PROVE  LET j == sessions[x].subscriber
                         IN  \/ socket'[j].session = x
                             \/ socket'[j].doing.step = "detach" /\ socket'[j].doing.session = x
      BY <1>1 DEF SubscriberAttached
    <3>1. CASE sessions[x].subscriber = k
      BY <2>3, <3>1
    <3>2. CASE sessions[x].subscriber # k
      BY <2>1, <3>2 DEF AInv, SubscriberAttached, SubscribersTyped
    <3>. QED BY <3>1, <3>2
  <2>. QED BY <1>1, <2>1, <2>2, <2>4 DEF AInv, SubscribersTyped
<1>. QED BY <1>2, <1>3

LEMMA DetachStep ==
    ASSUME AInv, NEW k \in Sockets, Detach(k)
    PROVE  AInv'
<1>. DEFINE do == socket[k].doing
<1>1. /\ do.step = "detach" /\ sessions' = Unsubscribed(do.session)
      /\ socket' = [socket EXCEPT ![k].doing = do.next]
  BY DEF Detach, At
<1>2. SocketsShaped' /\ socket'[k].session = socket[k].session /\ socket'[k].doing = do.next
      /\ \A j \in Sockets : j # k => socket'[j] = socket[j]
  BY <1>1 DEF AInv, SocketsShaped, SocketFields
<1>3. /\ DOMAIN sessions' = DOMAIN sessions
      /\ \A x \in DOMAIN sessions :
            /\ DOMAIN sessions'[x] = DOMAIN sessions[x]
            /\ sessions'[x].subscriber = IF x = do.session THEN None ELSE sessions[x].subscriber
  BY <1>1, UnsubscribedShape DEF AInv
<1>4. SubscribersTyped'
  BY <1>3 DEF AInv, SubscribersTyped
<1>5. AttachesFree'
  <2>1. (Bound(do.next) => socket[k].session = None) /\ do.next.step # "detach"
    BY <1>1 DEF AInv, AttachesFree, Bound
  <2>. QED BY <1>2, <2>1 DEF AInv, AttachesFree
<1>6. SubscriberAttached'
  <2>. SUFFICES ASSUME NEW x \in DOMAIN sessions, x # do.session, sessions[x].subscriber # None
                PROVE  LET j == sessions[x].subscriber
                       IN  \/ socket'[j].session = x
                           \/ socket'[j].doing.step = "detach" /\ socket'[j].doing.session = x
    BY <1>3 DEF SubscriberAttached
  <2>. QED BY <1>1, <1>2 DEF AInv, SubscriberAttached, SubscribersTyped
<1>. QED BY <1>2, <1>4, <1>5, <1>6 DEF AInv

LEMMA AttachStep ==
    ASSUME AInv, NEW k \in Sockets, Attach(k)
    PROVE  AInv'
<1>. DEFINE do == socket[k].doing
            s == do.session
<1>1. do.step = "attach" /\ socket[k].session = None
  BY DEF Attach, At, AInv, AttachesFree, Bound
<1>2. CASE socket' = [socket EXCEPT ![k].doing = Idle] /\ UNCHANGED sessions
  <2>1. SocketsShaped' /\ \A j \in Sockets : Keeps(j)
    BY <1>1, <1>2, DoneKeeps DEF AInv
  <2>. QED BY <1>2, <2>1, SameSessions, AttachedStays
<1>3. CASE /\ s \in DOMAIN sessions /\ sessions' = [sessions EXCEPT ![s].subscriber = k]
           /\ socket' = [socket EXCEPT ![k].session = s, ![k].doing = Idle]
  <2>1. SocketsShaped' /\ socket'[k].session = s /\ socket'[k].doing = Idle
        /\ \A j \in Sockets : j # k => socket'[j] = socket[j]
    BY <1>3 DEF AInv, SocketsShaped, SocketFields
  <2>2. /\ DOMAIN sessions' = DOMAIN sessions
        /\ \A x \in DOMAIN sessions :
              /\ DOMAIN sessions'[x] = DOMAIN sessions[x]
              /\ sessions'[x].subscriber = IF x = s THEN k ELSE sessions[x].subscriber
    BY <1>3 DEF AInv, SubscribersTyped
  <2>3. SubscribersTyped'
    BY <2>2 DEF AInv, SubscribersTyped
  <2>4. AttachesFree'
    BY <2>1 DEF AInv, AttachesFree, Bound, Idle
  \* It was subscribed to nothing else.
  <2>5. ASSUME NEW x \in DOMAIN sessions PROVE sessions[x].subscriber # k
    BY <1>1, <2>5, SessionsAssumption DEF AInv, SubscriberAttached, SubscribersTyped
  <2>6. SubscriberAttached'
    <3>. SUFFICES ASSUME NEW x \in DOMAIN sessions, x # s, sessions[x].subscriber # None
                  PROVE  LET j == sessions[x].subscriber
                         IN  \/ socket'[j].session = x
                             \/ socket'[j].doing.step = "detach" /\ socket'[j].doing.session = x
      BY <2>1, <2>2 DEF SubscriberAttached
    <3>. QED BY <2>1, <2>5 DEF AInv, SubscriberAttached, SubscribersTyped
  <2>. QED BY <2>1, <2>3, <2>4, <2>6 DEF AInv
<1>. QED BY <1>2, <1>3 DEF Attach

LEMMA CloseWorkspaceStep ==
    ASSUME AInv, NEW k \in Sockets, CloseWorkspace(k)
    PROVE  AInv'
<1>1. socket[k].doing = Idle /\ UNCHANGED sessions
  BY DEF CloseWorkspace, Serving
<1>2. CASE Refuse(k, "close")
  <2>1. SocketsShaped' /\ \A j \in Sockets : Keeps(j)
    BY <1>1, <1>2, GoesKeeps DEF Refuse, AInv, Idle
  <2>. QED BY <1>1, <2>1, SameSessions, AttachedStays
<1>3. CASE ~Refuse(k, "close")
  <2>. PICK s, w, to : socket' = [socket EXCEPT
                          ![k].requests = Tail(@),
                          ![k].session = IF @ = s THEN None ELSE @,
                          ![k].doing = Detaching(s, Destroying(w, s, to))]
    BY <1>3 DEF CloseWorkspace
  <2>1. SocketsShaped' /\ socket'[k].doing = Detaching(s, Destroying(w, s, to))
        /\ socket'[k].session = (IF socket[k].session = s THEN None ELSE socket[k].session)
        /\ \A j \in Sockets : j # k => socket'[j] = socket[j]
    BY DEF AInv, SocketsShaped, SocketFields
  <2>2. AttachesFree'
    <3>1. socket'[k].doing.step = "detach" /\ socket'[k].doing.next.step = "destroy"
      BY <2>1 DEF Detaching, Destroying
    <3>. QED BY <2>1, <3>1 DEF AInv, AttachesFree, Bound
  <2>3. SubscriberAttached'
    <3>. SUFFICES ASSUME NEW x \in DOMAIN sessions, sessions[x].subscriber # None
                  PROVE  LET j == sessions[x].subscriber
                         IN  \/ socket'[j].session = x
                             \/ socket'[j].doing.step = "detach" /\ socket'[j].doing.session = x
      BY <1>1 DEF SubscriberAttached
    <3>1. CASE sessions[x].subscriber = k
      <4>1. socket[k].session = x
        BY <1>1, <3>1 DEF AInv, SubscriberAttached, Idle
      <4>2. CASE x = s
        <5>1. socket'[k].doing.step = "detach" /\ socket'[k].doing.session = s
          BY <2>1 DEF Detaching
        <5>. QED BY <3>1, <4>2, <5>1
      <4>3. CASE x # s
        <5>1. socket'[k].session = x
          BY <2>1, <4>1, <4>3
        <5>. QED BY <3>1, <5>1
      <4>. QED BY <4>2, <4>3
    <3>2. CASE sessions[x].subscriber # k
      <4>. DEFINE j == sessions[x].subscriber
      <4>1. j \in Sockets
        BY DEF AInv, SubscribersTyped
      <4>2. socket'[j] = socket[j]
        BY <2>1, <3>2, <4>1
      <4>3. \/ socket[j].session = x
            \/ socket[j].doing.step = "detach" /\ socket[j].doing.session = x
        BY DEF AInv, SubscriberAttached
      <4>. HIDE DEF j
      <4>4. \/ socket'[j].session = x
            \/ socket'[j].doing.step = "detach" /\ socket'[j].doing.session = x
        BY <4>2, <4>3
      <4>. QED BY <4>4 DEF j
    <3>. QED BY <3>1, <3>2
  <2>. QED BY <1>1, <2>1, <2>2, <2>3 DEF AInv, SubscribersTyped
<1>. QED BY <1>2, <1>3

LEMMA DestroyStep ==
    ASSUME AInv, NEW k \in Sockets, Destroy(k)
    PROVE  AInv'
<1>1. socket[k].doing.step = "destroy" /\ socket' = [socket EXCEPT ![k].doing = Idle]
      /\ sessions' = Destroyed(socket[k].doing.session)
  BY DEF Destroy, At
<1>2. SocketsShaped' /\ \A j \in Sockets : Keeps(j)
  BY <1>1, DoneKeeps DEF AInv
<1>3. NoneSubscribed
  BY <1>1 DEF Destroyed, Restrict, NoneSubscribed
<1>. QED BY <1>2, <1>3, AttachedStays

\* A socket without a session is made the subscriber of a new one.
LEMMA OpenTerminalStep ==
    ASSUME AInv, NEW k \in Sockets, OpenTerminal(k)
    PROVE  AInv'
<1>. DEFINE fresh == socket[k].session = None
<1>0. PICK s \in IF socket[k].session # None THEN {socket[k].session} ELSE Sessions \ issued :
        LET had == WithSession(k, s)
        IN  \/ /\ sessions' = had
               /\ socket' = [socket EXCEPT ![k].requests = Tail(@), ![k].session = s]
            \/ \E p \in Terminals \ issued :
                  /\ s \in DOMAIN had
                  /\ sessions' = [had EXCEPT ![s].terminals = @ \cup {p}]
                  /\ \E to \in {Noting(s, p)} \cup IF socket[k].peer THEN {} ELSE {Idle} :
                        socket' = [socket EXCEPT ![k].requests = Tail(@), ![k].session = s,
                                                 ![k].doing = to]
  <2>1. \E s \in IF socket[k].session # None THEN {socket[k].session} ELSE Sessions \ issued :
          \/ /\ sessions' = WithSession(k, s)
             /\ socket' = [socket EXCEPT ![k].requests = Tail(@), ![k].session = s]
          \/ \E p \in Terminals \ issued :
                /\ s \in DOMAIN WithSession(k, s)
                /\ sessions' = [WithSession(k, s) EXCEPT ![s].terminals = @ \cup {p}]
                /\ \E to \in {Noting(s, p)} \cup IF socket[k].peer THEN {} ELSE {Idle} :
                      socket' = [socket EXCEPT ![k].requests = Tail(@), ![k].session = s,
                                               ![k].doing = to]
    BY ZenonT(60) DEF OpenTerminal
  <2>. QED BY <2>1
<1>. DEFINE had == WithSession(k, s)
<1>1. socket[k].doing = Idle
  BY DEF OpenTerminal, Serving
<1>2. s # None /\ (fresh \/ s = socket[k].session)
  BY <1>0, ListAssumption
<1>3. /\ SocketsShaped' /\ socket'[k].session = s
      /\ socket'[k].doing.step \notin {"attach", "detach"}
      /\ \A j \in Sockets : j # k => socket'[j] = socket[j]
  <2>1. CASE socket' = [socket EXCEPT ![k].requests = Tail(@), ![k].session = s]
    <3>1. Idle.step = "idle"
      BY DEF Idle
    <3>. QED BY <1>1, <2>1, <3>1 DEF AInv, SocketsShaped, SocketFields
  <2>2. CASE \E to : /\ to.step \in {"note", "idle"}
                     /\ socket' = [socket EXCEPT ![k].requests = Tail(@), ![k].session = s,
                                                 ![k].doing = to]
    BY <2>2 DEF AInv, SocketsShaped, SocketFields
  <2>3. Idle.step = "idle" /\ \A p : Noting(s, p).step = "note"
    BY DEF Idle, Noting
  <2>4. ASSUME NEW p, NEW to \in {Noting(s, p)} \cup IF socket[k].peer THEN {} ELSE {Idle}
        PROVE  to.step \in {"note", "idle"}
    BY <2>3
  <2>. DEFINE New(to) == [socket EXCEPT ![k].requests = Tail(@), ![k].session = s, ![k].doing = to]
              Old == [socket EXCEPT ![k].requests = Tail(@), ![k].session = s]
  <2>5. socket' = Old \/ \E p : \E to \in {Noting(s, p)} \cup IF socket[k].peer THEN {} ELSE {Idle} :
                               socket' = New(to)
    BY <1>0, Zenon
  <2>6. (socket' = Old) \/ \E to : to.step \in {"note", "idle"} /\ socket' = New(to)
    <3>. HIDE DEF New, Old
    <3>. QED BY <2>4, <2>5
  <2>. QED BY <2>1, <2>2, <2>6
<1>4. /\ DOMAIN sessions' \subseteq DOMAIN sessions \cup {s}
      /\ s \in DOMAIN sessions' /\ fresh =>
            DOMAIN sessions'[s] = {"terminals", "subscriber"} /\ sessions'[s].subscriber = k
      /\ \A x \in DOMAIN sessions' : x # s \/ ~fresh =>
            /\ x \in DOMAIN sessions /\ DOMAIN sessions'[x] = DOMAIN sessions[x]
            /\ sessions'[x].subscriber = sessions[x].subscriber
  <2>1. sessions' = had \/ (s \in DOMAIN had /\ \E p \in Terminals : sessions' = [had EXCEPT ![s].terminals = @ \cup {p}])
    BY <1>0
  <2>2. CASE fresh
    <3>1. had = [x \in DOMAIN sessions \cup {s} |->
                    IF x = s THEN [terminals |-> {}, subscriber |-> k] ELSE sessions[x]]
      BY <2>2 DEF WithSession, NewSession
    <3>2. /\ DOMAIN had = DOMAIN sessions \cup {s}
          /\ DOMAIN had[s] = {"terminals", "subscriber"} /\ had[s].subscriber = k
          /\ \A x \in DOMAIN sessions : x # s => had[x] = sessions[x]
      BY <3>1
    <3>. HIDE DEF had
    <3>. QED BY <2>1, <2>2, <3>2
  <2>3. CASE ~fresh
    <3>1. had = sessions
      BY <2>3 DEF WithSession
    <3>. HIDE DEF had
    <3>. QED BY <2>1, <2>3, <3>1 DEF AInv, SubscribersTyped
  <2>. QED BY <2>2, <2>3
<1>5. SubscribersTyped'
  BY <1>2, <1>4 DEF AInv, SubscribersTyped
<1>6. AttachesFree'
  BY <1>3 DEF AInv, AttachesFree, Bound
<1>7. SubscriberAttached'
  <2>. SUFFICES ASSUME NEW x \in DOMAIN sessions', sessions'[x].subscriber # None,
                       x # s \/ ~fresh
                PROVE  LET j == sessions'[x].subscriber
                       IN  \/ socket'[j].session = x
                           \/ socket'[j].doing.step = "detach" /\ socket'[j].doing.session = x
    BY <1>3, <1>4 DEF SubscriberAttached
  <2>1. x \in DOMAIN sessions /\ sessions'[x].subscriber = sessions[x].subscriber
    BY <1>4
  <2>2. CASE sessions[x].subscriber = k
    <3>1. socket[k].session = x
      BY <1>1, <2>1, <2>2 DEF AInv, SubscriberAttached, Idle
    <3>. QED BY <1>2, <1>3, <2>1, <2>2, <3>1 DEF AInv, SubscribersTyped
  <2>3. CASE sessions[x].subscriber # k
    BY <1>3, <2>1, <2>3 DEF AInv, SubscriberAttached, SubscribersTyped
  <2>. QED BY <2>2, <2>3
<1>. QED BY <1>3, <1>5, <1>6, <1>7 DEF AInv

LEMMA OtherRequests ==
    ASSUME AInv, NEW k \in Sockets, Note(k) \/ Unnote(k) \/ SetLayout(k) \/ Drain(k)
    PROVE  AInv'
<1>1. CASE Note(k) \/ Unnote(k)
  <2>1. socket' = [socket EXCEPT ![k].doing = Idle] /\ UNCHANGED sessions
        /\ socket[k].doing.step # "detach"
    BY <1>1 DEF Note, Unnote, At
  <2>2. SocketsShaped' /\ \A j \in Sockets : Keeps(j)
    BY <2>1, DoneKeeps DEF AInv
  <2>. QED BY <2>1, <2>2, SameSessions, AttachedStays
<1>2. CASE SetLayout(k)
  <2>1. Goes(k, Idle) /\ UNCHANGED sessions /\ socket[k].doing = Idle
    BY <1>2 DEF SetLayout, Serving, Refuse
  <2>2. SocketsShaped' /\ \A j \in Sockets : Keeps(j)
    BY <2>1, GoesKeeps DEF AInv, Idle
  <2>. QED BY <2>1, <2>2, SameSessions, AttachedStays
<1>3. CASE Drain(k)
  <2>1. socket' = [socket EXCEPT ![k].queue = Tail(@)] /\ UNCHANGED sessions
    BY <1>3 DEF Drain
  <2>2. SocketsShaped' /\ \A j \in Sockets : Keeps(j)
    BY <2>1 DEF AInv, SocketsShaped, SocketFields, Keeps
  <2>. QED BY <2>1, <2>2, SameSessions, AttachedStays
<1>. QED BY <1>1, <1>2, <1>3

LEMMA KillTerminalStep ==
    ASSUME AInv, NEW k \in Sockets, KillTerminal(k)
    PROVE  AInv'
<1>1. socket[k].doing = Idle
  BY DEF KillTerminal, Serving
<1>2. CASE Refuse(k, "kill") /\ UNCHANGED sessions
  <2>1. SocketsShaped' /\ \A j \in Sockets : Keeps(j)
    BY <1>1, <1>2, GoesKeeps DEF Refuse, AInv, Idle
  <2>. QED BY <1>2, <2>1, SameSessions, AttachedStays
<1>3. CASE ~(Refuse(k, "kill") /\ UNCHANGED sessions)
  <2>0. PICK s, p : /\ sessions' = [sessions EXCEPT ![s].terminals = @ \ {p}]
                    /\ socket' = Emitted([socket EXCEPT ![k].requests = Tail(@),
                                                        ![k].doing = Unnoting(s, p)],
                                         s, [type |-> "closed", terminal |-> p])
    BY <1>3 DEF KillTerminal
  <2>. DEFINE sockets == [socket EXCEPT ![k].requests = Tail(@), ![k].doing = Unnoting(s, p)]
  <2>1. /\ DOMAIN sockets = Sockets /\ \A j \in Sockets : DOMAIN sockets[j] = SocketFields
        /\ sockets[k].session = socket[k].session /\ sockets[k].doing = Unnoting(s, p)
        /\ \A j \in Sockets : j # k => sockets[j] = socket[j]
    BY DEF AInv, SocketsShaped, SocketFields
  <2>. DEFINE m == [type |-> "closed", terminal |-> p]
  <2>2. socket' = Emitted(sockets, s, m)
    BY <2>0
  <2>. HIDE DEF sockets, m
  <2>3. /\ DOMAIN socket' = Sockets /\ \A j \in Sockets : DOMAIN socket'[j] = SocketFields
        /\ \A j \in Sockets : socket'[j].session = sockets[j].session
                              /\ socket'[j].doing = sockets[j].doing
    BY <2>1, <2>2, EmittedShape
  <2>4. SocketsShaped' /\ \A j \in Sockets : Keeps(j)
    <3>1. Idle.step = "idle" /\ Unnoting(s, p).step = "unnote"
      BY DEF Idle, Unnoting
    <3>. QED BY <1>1, <2>1, <2>3, <3>1 DEF Keeps, SocketsShaped
  <2>5. NoneSubscribed
    BY <2>0 DEF AInv, SubscribersTyped, NoneSubscribed
  <2>. QED BY <2>4, <2>5, AttachedStays
<1>. QED BY <1>2, <1>3

LEMMA DisconnectedStep ==
    ASSUME AInv, NEW k \in Sockets, Disconnected(k)
    PROVE  AInv'
<1>. DEFINE s == socket[k].session
<1>1. socket[k].doing = Idle /\ sessions' = IF s = None THEN sessions ELSE Unsubscribed(s)
  BY DEF Disconnected
<1>2. SocketsShaped' /\ socket'[k].session = None /\ socket'[k].doing = Idle
      /\ \A j \in Sockets : j # k => socket'[j] = socket[j]
  BY DEF Disconnected, AInv, SocketsShaped, SocketFields, NewSocket
<1>3. /\ DOMAIN sessions' = DOMAIN sessions
      /\ \A x \in DOMAIN sessions :
            /\ DOMAIN sessions'[x] = DOMAIN sessions[x]
            /\ sessions'[x].subscriber = IF x = s THEN None ELSE sessions[x].subscriber
  BY <1>1, UnsubscribedShape DEF AInv, SubscribersTyped
<1>4. SubscribersTyped'
  BY <1>3 DEF AInv, SubscribersTyped
<1>5. AttachesFree'
  BY <1>2 DEF AInv, AttachesFree, Bound, Idle
<1>6. SubscriberAttached'
  <2>. SUFFICES ASSUME NEW x \in DOMAIN sessions, x # s, sessions[x].subscriber # None
                PROVE  LET j == sessions[x].subscriber
                       IN  \/ socket'[j].session = x
                           \/ socket'[j].doing.step = "detach" /\ socket'[j].doing.session = x
    BY <1>3 DEF SubscriberAttached
  <2>. QED BY <1>1, <1>2 DEF AInv, SubscriberAttached, SubscribersTyped, Idle
<1>. QED BY <1>2, <1>4, <1>5, <1>6 DEF AInv

\* Windows only ask, come and leave.
LEMMA WindowSteps ==
    ASSUME AInv, NEW c \in Clients, Receives(c) \/ User(c)
    PROVE  AInv'
<1>1. UNCHANGED sessions
  BY DEF Receives, User, OnSwitched, OnOpened, OnData, OnClosed, OnGone, OnError, Hears, Connect,
         Leave, AskTerminal, AskSwitch, AskClose, AskKill, Asks, daemonVars
<1>2. \/ \E g, requests : Becomes(c, g, requests)
      \/ UNCHANGED socket
      \/ \E k \in Sockets : \E requests :
            socket' = [socket EXCEPT ![k].phase = "open", ![k].requests = requests]
      \/ \E k, last : socket' = [socket EXCEPT ![k].peer = FALSE, ![k].requests = @ \o last]
      \/ \E k : socket' = [socket EXCEPT ![k].peer = FALSE]
  <2>1. CASE Receives(c)
    BY <2>1 DEF Receives, OnSwitched, OnOpened, OnData, OnClosed, OnGone, OnError
  <2>2. CASE User(c)
    BY <2>2 DEF User, Connect, Leave, AskTerminal, AskSwitch, AskClose, AskKill, Asks
  <2>. QED BY <2>1, <2>2
<1>3. SocketsShaped' /\ \A j \in Sockets : Keeps(j)
  <2>1. CASE \E g, requests : Becomes(c, g, requests)
    BY <2>1, BecomesKeeps DEF AInv
  <2>2. CASE ~\E g, requests : Becomes(c, g, requests)
    <3>1. CASE UNCHANGED socket
      BY <3>1 DEF AInv, SocketsShaped, Keeps
    <3>2. CASE \E k \in Sockets : \E requests :
                  socket' = [socket EXCEPT ![k].phase = "open", ![k].requests = requests]
      BY <3>2 DEF AInv, SocketsShaped, SocketFields, Keeps
    <3>3. CASE \E k, last :
                  socket' = [socket EXCEPT ![k].peer = FALSE, ![k].requests = @ \o last]
      BY <3>3 DEF AInv, SocketsShaped, SocketFields, Keeps
    <3>4. CASE \E k : socket' = [socket EXCEPT ![k].peer = FALSE]
      BY <3>4 DEF AInv, SocketsShaped, SocketFields, Keeps
    <3>. QED BY <1>2, <2>2, <3>1, <3>2, <3>3, <3>4
  <2>. QED BY <2>1, <2>2
<1>. QED BY <1>1, <1>3, SameSessions, AttachedStays

LEMMA NextAttached ==
    ASSUME AInv, [Next]_vars
    PROVE  AInv'
<1>1. CASE \E k \in Sockets : Serves(k)
  BY <1>1, SwitchStep, DetachStep, AttachStep, CloseWorkspaceStep, DestroyStep, OpenTerminalStep,
     OtherRequests, KillTerminalStep, DisconnectedStep DEF Serves
<1>2. CASE \E c \in Clients : Receives(c) \/ User(c)
  BY <1>2, WindowSteps
<1>3. CASE \E p \in Terminals : Prints(p) \/ Ends(p)
  BY <1>3, TerminalSteps
<1>4. CASE UNCHANGED vars
  BY <1>4 DEF vars, AInv, SocketsShaped, SubscribersTyped, AttachesFree, Bound, SubscriberAttached
<1>. QED BY <1>1, <1>2, <1>3, <1>4 DEF Next

\* Whatever windows ask for, however their connections end and whatever order the locks are
\* taken in, what a session prints goes to a socket that is attached to it or about to leave
\* it (handle_socket takes session_id before it detaches, attach makes one subscriber).
THEOREM PrintsGoToTheAttached == Spec => []SubscriberAttached
<1>1. AInv => SubscriberAttached
  BY DEF AInv
<1>. QED BY InitAttached, NextAttached, <1>1, PTL DEF Spec

-----------------------------------------------------------------------------
(* Sequences.                                                              *)

LEMMA SeqShape ==
    ASSUME NEW x, IsSeq(x)
    PROVE  Len(x) \in Nat /\ DOMAIN x = 1..Len(x)
  BY DEF IsSeq

LEMMA ShortSeqs == /\ IsSeq(<<>>) /\ Len(<<>>) = 0
                   /\ \A e : IsSeq(<<e>>) /\ Len(<<e>>) = 1 /\ <<e>>[1] = e
<1>1. <<>> \in Seq({}) /\ Len(<<>>) = 0
  OBVIOUS
<1>2. ASSUME NEW e PROVE <<e>> \in Seq({e}) /\ Len(<<e>>) = 1 /\ <<e>>[1] = e
  OBVIOUS
<1>. QED BY <1>1, <1>2 DEF IsSeq

LEMMA SeqTail ==
    ASSUME NEW x, IsSeq(x), x # <<>>
    PROVE  /\ Len(x) \in Nat \ {0} /\ Head(x) = x[1]
           /\ IsSeq(Tail(x)) /\ Len(Tail(x)) = Len(x) - 1
           /\ \A i \in 1..(Len(x) - 1) : Tail(x)[i] = x[i + 1]
<1>. PICK S : x \in Seq(S)
  BY DEF IsSeq
<1>1. Tail(x) \in Seq(S) /\ Len(x) \in Nat \ {0} /\ Head(x) = x[1] /\ Len(Tail(x)) = Len(x) - 1
  OBVIOUS
<1>2. \A i \in 1..(Len(x) - 1) : Tail(x)[i] = x[i + 1]
  OBVIOUS
<1>. QED BY <1>1, <1>2 DEF IsSeq

LEMMA SeqCat ==
    ASSUME NEW x, NEW y, IsSeq(x), IsSeq(y)
    PROVE  /\ IsSeq(x \o y) /\ Len(x \o y) = Len(x) + Len(y)
           /\ \A i \in 1..Len(x) : (x \o y)[i] = x[i]
           /\ \A i \in 1..Len(y) : (x \o y)[Len(x) + i] = y[i]
<1>. PICK S : x \in Seq(S)
  BY DEF IsSeq
<1>. PICK T : y \in Seq(T)
  BY DEF IsSeq
<1>1. x \in Seq(S \cup T) /\ y \in Seq(S \cup T)
  OBVIOUS
<1>. DEFINE U == S \cup T
<1>. HIDE DEF U
<1>2. x \in Seq(U) /\ y \in Seq(U)
  BY <1>1 DEF U
<1>3. x \o y \in Seq(U) /\ Len(x \o y) = Len(x) + Len(y)
  BY <1>2
<1>4. \A i \in 1..Len(x) : (x \o y)[i] = x[i]
  BY <1>2
<1>5. \A i \in 1..Len(y) : (x \o y)[Len(x) + i] = y[i]
  BY <1>2
<1>. QED BY <1>3, <1>4, <1>5 DEF IsSeq

LEMMA SeqCatOne ==
    ASSUME NEW x, NEW e, IsSeq(x)
    PROVE  /\ IsSeq(x \o <<e>>) /\ Len(x \o <<e>>) = Len(x) + 1
           /\ \A i \in 1..Len(x) : (x \o <<e>>)[i] = x[i]
           /\ (x \o <<e>>)[Len(x) + 1] = e
<1>. DEFINE y == <<e>>
<1>1. IsSeq(y) /\ Len(y) = 1 /\ y[1] = e /\ 1 \in 1..Len(y)
  BY ShortSeqs
<1>. HIDE DEF y
<1>2. /\ IsSeq(x \o y) /\ Len(x \o y) = Len(x) + Len(y)
      /\ \A i \in 1..Len(x) : (x \o y)[i] = x[i]
      /\ \A i \in 1..Len(y) : (x \o y)[Len(x) + i] = y[i]
  <2>1. IsSeq(y)
    BY <1>1
  <2>. QED BY <2>1, SeqCat
<1>3. (x \o y)[Len(x) + 1] = y[1]
  <2>1. 1 \in 1..Len(y)
    BY <1>1
  <2>2. \A i \in 1..Len(y) : (x \o y)[Len(x) + i] = y[i]
    BY <1>2
  <2>. QED BY ONLY <2>1, <2>2
<1>. QED BY <1>1, <1>2, <1>3 DEF y

LEMMA SeqCons ==
    ASSUME NEW e, NEW x, IsSeq(x)
    PROVE  /\ IsSeq(<<e>> \o x) /\ Len(<<e>> \o x) = Len(x) + 1 /\ (<<e>> \o x)[1] = e
           /\ \A i \in 1..Len(x) : (<<e>> \o x)[1 + i] = x[i]
<1>. DEFINE y == <<e>>
<1>1. IsSeq(y) /\ Len(y) = 1 /\ y[1] = e /\ 1 \in 1..Len(y)
  BY ShortSeqs
<1>. HIDE DEF y
<1>2. /\ IsSeq(y \o x) /\ Len(y \o x) = Len(y) + Len(x)
      /\ \A i \in 1..Len(y) : (y \o x)[i] = y[i]
      /\ \A i \in 1..Len(x) : (y \o x)[Len(y) + i] = x[i]
  <2>1. IsSeq(y)
    BY <1>1
  <2>. QED BY <2>1, SeqCat
<1>3. (y \o x)[1] = y[1] /\ \A i \in 1..Len(x) : (y \o x)[1 + i] = x[i]
  BY <1>1, <1>2
<1>4. Len(x) \in Nat
  BY SeqShape
<1>. QED BY <1>1, <1>2, <1>3, <1>4 DEF y

LEMMA SeqAppend ==
    ASSUME NEW x, NEW e, IsSeq(x)
    PROVE  /\ IsSeq(Append(x, e)) /\ Len(Append(x, e)) = Len(x) + 1
           /\ \A i \in 1..Len(x) : Append(x, e)[i] = x[i]
           /\ Append(x, e)[Len(x) + 1] = e
<1>. PICK S : x \in Seq(S)
  BY DEF IsSeq
<1>. DEFINE U == S \cup {e}
<1>1. x \in Seq(U) /\ e \in U
  OBVIOUS
<1>. HIDE DEF U
<1>2. Append(x, e) \in Seq(U) /\ Len(Append(x, e)) = Len(x) + 1
      /\ Append(x, e)[Len(x) + 1] = e
  BY <1>1
<1>3. \A i \in 1..Len(x) : Append(x, e)[i] = x[i]
  BY <1>1
<1>. QED BY <1>2, <1>3 DEF IsSeq

\* What SetToSeq makes of a finite set names each of its elements once.
LEMMA SetToSeqShape ==
    ASSUME NEW S, IsFiniteSet(S)
    PROVE  LET q == SetToSeq(S)
           IN  /\ q \in Seq(S)
               /\ \A e \in S : \E i \in 1..Len(q) : q[i] = e
               /\ \A i, j \in 1..Len(q) : q[i] = q[j] => i = j
<1>. DEFINE q == SetToSeq(S)
            n == Cardinality(S)
<1>1. n \in Nat /\ ExistsBijection(1..n, S)
  BY FS_CardinalityType
<1>2. PICK f \in Bijection(1..n, S) : TRUE
  BY <1>1 DEF ExistsBijection
<1>3. f \in [1..n -> S] /\ IsInjective(f)
  BY <1>2 DEF Bijection, Injection, IsInjective
<1>4. q \in [1..n -> S] /\ IsInjective(q)
  <2>1. \E g \in [1..n -> S] : IsInjective(g)
    BY <1>3
  <2>2. q = CHOOSE g \in [1..n -> S] : IsInjective(g)
    BY DEF SetToSeq
  <2>. HIDE DEF q
  <2>. QED BY <2>1, <2>2
<1>5. Len(q) = n /\ q \in Seq(S)
  BY <1>1, <1>4
<1>6. q \in Injection(1..n, S)
  BY <1>4 DEF Injection, IsInjective
<1>7. IsFiniteSet(1..n) /\ Cardinality(1..n) = n
  BY <1>1, FS_Interval
<1>8. q \in Surjection(1..n, S)
  <2>1. Cardinality(1..n) = Cardinality(S) <=> q \in Surjection(1..n, S)
    BY <1>6, FS_Injection
  <2>. QED BY <1>7, <2>1
<1>. HIDE DEF q, n
<1>. QED BY <1>4, <1>5, <1>8 DEF Surjection, IsInjective, q

-----------------------------------------------------------------------------
(* What is on its way to a window: a function V on 0..n, of which V[0] is  *)
(* what its panels have been fed, and the rest what it has yet to receive. *)

\* W is V with what does not touch p put in between: f says where V has gone.
Embeds(f, V, n, W, m, p) ==
    /\ f \in [0..n -> 0..m] /\ f[0] = 0
    /\ \A i, j \in 0..n : i < j => f[i] < f[j]
    /\ \A i \in 0..n : W[f[i]] = V[i]
    /\ \A l \in 0..m : (\E i \in 0..n : f[i] = l) \/ (~Touches(W[l], p) /\ ~Shows(W[l], p))

LEMMA SpreadSound ==
    ASSUME NEW V, NEW W, NEW n \in Nat, NEW m \in Nat, NEW p, NEW f, Embeds(f, V, n, W, m, p)
    PROVE  /\ Sound(V, n, p) => Sound(W, m, p)
           /\ \A t : Joined(V, p, n + 1, t) => Joined(W, p, m + 1, t)
<1>0. /\ f \in [0..n -> 0..m] /\ f[0] = 0
      /\ \A i, j \in 0..n : i < j => f[i] < f[j]
      /\ \A i \in 0..n : W[f[i]] = V[i]
      /\ \A l \in 0..m : (\E i \in 0..n : f[i] = l) \/ (~Touches(W[l], p) /\ ~Shows(W[l], p))
  BY DEF Embeds
<1>. HIDE DEF Touches, Shows, Level
\* What is shown before b in W is shown before a in V.
<1>1. ASSUME NEW a \in 0..(n + 1), NEW b \in 0..(m + 1), NEW t,
             IF a <= n THEN b = f[a] ELSE b = m + 1,
             Joined(V, p, a, t)
      PROVE  Joined(W, p, b, t)
  <2>. SUFFICES ASSUME NEW i \in 0..(b - 1), Shows(W[i], p),
                       \A l \in (i + 1)..(b - 1) : ~Touches(W[l], p)
                PROVE  Level(W[i], p) + 1 = t
    BY DEF Joined
  <2>1. PICK x \in 0..n : f[x] = i
    BY <1>0, <1>1
  <2>2. x < a
    <3>1. CASE a <= n
      <4>1. a \in 0..n /\ f[x] \in Nat /\ f[a] \in Nat /\ f[x] < f[a]
        BY <1>0, <1>1, <2>1, <3>1
      <4>2. a < x => f[a] < f[x]
        BY <1>0, <4>1
      <4>3. ~(a < x) /\ a # x
        BY <4>1, <4>2
      <4>. QED BY <4>1, <4>3
    <3>. QED BY <3>1
  <2>3. ASSUME NEW l \in (x + 1)..(a - 1) PROVE ~Touches(V[l], p)
    <3>1. l \in 0..n /\ x < l /\ l < a
      BY <1>1, <2>2
    <3>2. f[l] \in 0..m /\ f[x] < f[l]
      BY <1>0, <3>1
    <3>3. f[l] < b
      <4>1. CASE a <= n
        BY <1>0, <1>1, <3>1, <4>1
      <4>2. CASE ~(a <= n)
        BY <1>0, <1>1, <3>2, <4>2
      <4>. QED BY <4>1, <4>2
    <3>4. f[l] \in (i + 1)..(b - 1)
      BY <1>1, <2>1, <3>2, <3>3
    <3>. QED BY <1>0, <3>1, <3>4
  <2>4. x \in 0..(a - 1) /\ V[x] = W[i]
    BY <1>0, <1>1, <2>1, <2>2
  <2>. QED BY <1>1, <2>3, <2>4 DEF Joined
<1>2. ASSUME Sound(V, n, p), NEW b \in 1..m PROVE SoundAt(W, p, b)
  <2>1. CASE \E a \in 0..n : f[a] = b
    <3>1. PICK a \in 0..n : f[a] = b
      BY <2>1
    <3>2. a \in 1..n /\ W[b] = V[a]
      BY <1>0, <1>2, <3>1
    <3>3. SoundAt(V, p, a)
      BY <1>2, <3>2 DEF Sound
    <3>4. ASSUME Feeds(W[b], p) PROVE Joined(W, p, b, W[b].chunks[1])
      BY <1>1, <3>1, <3>2, <3>3, <3>4 DEF SoundAt
    <3>5. ASSUME Adds(W[b], p), NEW i \in 0..(b - 1), Shows(W[i], p) PROVE FALSE
      <4>1. PICK x \in 0..n : f[x] = i
        BY <1>0, <3>5
      <4>2. f[x] \in Nat /\ f[a] \in Nat /\ f[x] < f[a]
        BY <1>0, <3>1, <3>5, <4>1
      <4>3. ~(a < x) /\ a # x
        BY <1>0, <4>2
      <4>4. x \in 0..(a - 1) /\ V[x] = W[i]
        BY <1>0, <4>1, <4>3
      <4>. QED BY <3>2, <3>3, <3>5, <4>4 DEF SoundAt
    <3>. QED BY <3>4, <3>5 DEF SoundAt
  <2>2. CASE ~\E a \in 0..n : f[a] = b
    BY <1>0, <2>2 DEF SoundAt, Touches
  <2>. QED BY <2>1, <2>2
<1>3. ASSUME NEW t, Joined(V, p, n + 1, t) PROVE Joined(W, p, m + 1, t)
  BY <1>1, <1>3
<1>. QED BY <1>2, <1>3 DEF Sound

\* m comes last.
LEMMA AppendSound ==
    ASSUME NEW V, NEW W, NEW n \in Nat, NEW p, Sound(V, n, p),
           \A i \in 0..n : W[i] = V[i], SoundAt(W, p, n + 1)
    PROVE  Sound(W, n + 1, p)
<1>. SUFFICES ASSUME NEW j \in 1..n PROVE SoundAt(W, p, j)
  BY DEF Sound
<1>1. W[j] = V[j] /\ \A i \in 0..(j - 1) : i \in 0..n /\ W[i] = V[i]
  OBVIOUS
<1>2. \A i \in 0..(j - 1) : \A l \in (i + 1)..(j - 1) : W[l] = V[l]
  OBVIOUS
<1>. QED BY <1>1, <1>2 DEF Sound, SoundAt, Joined

\* What comes last is joined to what went before as it is to what goes before it.
LEMMA JoinedSame ==
    ASSUME NEW V, NEW W, NEW j \in Nat, NEW p, NEW t, Joined(V, p, j, t),
           \A i \in 0..(j - 1) : W[i] = V[i]
    PROVE  Joined(W, p, j, t)
<1>1. \A i \in 0..(j - 1) : \A l \in (i + 1)..(j - 1) : W[l] = V[l]
  OBVIOUS
<1>. QED BY <1>1 DEF Joined

\* What touches p hides all that was shown of it before.
LEMMA JoinedLast ==
    ASSUME NEW W, NEW n \in Nat, NEW p, NEW t, Touches(W[n], p),
           Shows(W[n], p) => Level(W[n], p) + 1 = t
    PROVE  Joined(W, p, n + 1, t)
<1>. SUFFICES ASSUME NEW i \in 0..n, Shows(W[i], p), \A l \in (i + 1)..n : ~Touches(W[l], p)
              PROVE  Level(W[i], p) + 1 = t
  BY DEF Joined
<1>1. i = n
  OBVIOUS
<1>. QED BY <1>1

\* The first of what is on its way is received, and the panels are W[0] then.
LEMMA PopSound ==
    ASSUME NEW V, NEW W, NEW n \in Nat \ {0}, NEW p,
           \A i \in 1..(n - 1) : W[i] = V[i + 1],
           Shows(W[0], p) => IF Touches(V[1], p)
                             THEN Shows(V[1], p) /\ Level(W[0], p) = Level(V[1], p)
                             ELSE Shows(V[0], p) /\ Level(W[0], p) = Level(V[0], p)
    PROVE  /\ Sound(V, n, p) => Sound(W, n - 1, p)
           /\ \A t : Joined(V, p, n + 1, t) => Joined(W, p, n, t)
<1>1. ASSUME NEW b \in 1..n, NEW t, Joined(V, p, b + 1, t)
      PROVE  Joined(W, p, b, t)
  <2>. SUFFICES ASSUME NEW i \in 0..(b - 1), Shows(W[i], p),
                       \A l \in (i + 1)..(b - 1) : ~Touches(W[l], p)
                PROVE  Level(W[i], p) + 1 = t
    BY DEF Joined
  <2>1. ASSUME NEW l \in (i + 2)..b PROVE ~Touches(V[l], p)
    <3>1. l - 1 \in (i + 1)..(b - 1) /\ l - 1 \in 1..(n - 1) /\ (l - 1) + 1 = l
      OBVIOUS
    <3>. QED BY <3>1
  <2>2. CASE i = 0 /\ ~Touches(V[1], p)
    <3>1. \A l \in 1..b : ~Touches(V[l], p)
      <4>. TAKE l \in 1..b
      <4>1. l = 1 \/ l \in 2..b
        OBVIOUS
      <4>. QED BY <2>1, <2>2, <4>1
    <3>2. 0 \in 0..b /\ b + 1 - 1 = b /\ 0 + 1 = 1
      OBVIOUS
    <3>3. Shows(V[0], p) => Level(V[0], p) + 1 = t
      BY <1>1, <3>1, <3>2 DEF Joined
    <3>. QED BY <2>2, <3>3
  <2>3. CASE i = 0 /\ Touches(V[1], p)
    <3>1. 1 \in 0..(b + 1 - 1) /\ \A l \in (1 + 1)..(b + 1 - 1) : l \in (i + 2)..b
      BY <2>3
    <3>2. Shows(V[1], p) => Level(V[1], p) + 1 = t
      BY <1>1, <2>1, <3>1 DEF Joined
    <3>. QED BY <2>3, <3>2
  <2>4. CASE i # 0
    <3>1. i + 1 \in 0..(b + 1 - 1) /\ W[i] = V[i + 1]
          /\ \A l \in (i + 1 + 1)..(b + 1 - 1) : l \in (i + 2)..b
      BY <2>4
    <3>. QED BY <1>1, <2>1, <3>1 DEF Joined
  <2>. QED BY <2>2, <2>3, <2>4
<1>2. ASSUME Sound(V, n, p), NEW b \in 1..(n - 1) PROVE SoundAt(W, p, b)
  <2>1. b + 1 \in 1..n /\ b \in 1..n /\ W[b] = V[b + 1]
    OBVIOUS
  <2>2. SoundAt(V, p, b + 1)
    BY <1>2, <2>1 DEF Sound
  <2>3. ASSUME Feeds(W[b], p) PROVE Joined(W, p, b, W[b].chunks[1])
    BY <1>1, <2>1, <2>2, <2>3 DEF SoundAt
  <2>4. ASSUME Adds(W[b], p), NEW i \in 0..(b - 1), Shows(W[i], p) PROVE FALSE
    <3>1. \A x \in 0..b : ~Shows(V[x], p)
      BY <2>1, <2>2, <2>4 DEF SoundAt
    <3>2. CASE i = 0
      BY <2>4, <3>1, <3>2
    <3>3. CASE i # 0
      <4>1. i + 1 \in 0..b /\ W[i] = V[i + 1]
        BY <3>3
      <4>. QED BY <2>4, <3>1, <4>1
    <3>. QED BY <3>2, <3>3
  <2>. QED BY <2>3, <2>4 DEF SoundAt
<1>3. ASSUME NEW t, Joined(V, p, n + 1, t) PROVE Joined(W, p, n, t)
  BY <1>1, <1>3
<1>. QED BY <1>2, <1>3 DEF Sound

\* Panels go.
LEMMA FewerSound ==
    ASSUME NEW V, NEW W, NEW n \in Nat, NEW p, \A i \in 1..n : W[i] = V[i],
           Shows(W[0], p) => Shows(V[0], p) /\ Level(W[0], p) = Level(V[0], p)
    PROVE  /\ Sound(V, n, p) => Sound(W, n, p)
           /\ \A t : Joined(V, p, n + 1, t) => Joined(W, p, n + 1, t)
<1>1. ASSUME NEW b \in 1..(n + 1), NEW t, Joined(V, p, b, t)
      PROVE  Joined(W, p, b, t)
  <2>1. \A i \in 0..(b - 1) : \A l \in (i + 1)..(b - 1) : W[l] = V[l]
    OBVIOUS
  <2>2. \A i \in 0..(b - 1) : Shows(W[i], p) => Shows(V[i], p) /\ Level(W[i], p) = Level(V[i], p)
    <3>. TAKE i \in 0..(b - 1)
    <3>1. i = 0 \/ W[i] = V[i]
      OBVIOUS
    <3>. QED BY <3>1
  <2>. QED BY <1>1, <2>1, <2>2 DEF Joined
<1>2. ASSUME Sound(V, n, p), NEW b \in 1..n PROVE SoundAt(W, p, b)
  <2>1. SoundAt(V, p, b) /\ W[b] = V[b]
    BY <1>2 DEF Sound
  <2>2. \A i \in 0..(b - 1) : Shows(W[i], p) => Shows(V[i], p)
    <3>. TAKE i \in 0..(b - 1)
    <3>1. i = 0 \/ W[i] = V[i]
      OBVIOUS
    <3>. QED BY <3>1
  <2>. QED BY <1>1, <2>1, <2>2 DEF SoundAt
<1>. QED BY <1>1, <1>2 DEF Sound

\* A switch and its replay, x of them, come after c.
Replays(V, W, n, c, x, p) ==
    /\ \A i \in 0..c : W[i] = V[i]
    /\ \A i \in (c + 1)..n : W[i + x] = V[i]
    /\ W[c + 1].type = "switched" /\ \A l \in (c + 2)..(c + x) : W[l].type = "data"
    /\ \/ p \notin W[c + 1].terminals /\ \A l \in (c + 2)..(c + x) : ~Feeds(W[l], p)
       \/ /\ \A i \in (c + 1)..n : ~Touches(V[i], p)
          /\ \A l \in (c + 2)..(c + x) : Feeds(W[l], p) =>
                W[l].chunks[1] = 1 /\ \A h \in (c + 2)..(c + x) : Feeds(W[h], p) => h = l

LEMMA ReplaySound ==
    ASSUME NEW V, NEW W, NEW n \in Nat, NEW c \in 0..n, NEW x \in Nat \ {0}, NEW p,
           Sound(V, n, p), Replays(V, W, n, c, x, p)
    PROVE  Sound(W, n + x, p)
<1>. SUFFICES ASSUME NEW j \in 1..(n + x) PROVE SoundAt(W, p, j)
  BY DEF Sound
<1>0. W[c + 1].type = "switched" /\ \A l \in (c + 2)..(c + x) : W[l].type = "data"
  BY DEF Replays
<1>1. CASE j <= c
  <2>1. SoundAt(V, p, j)
    BY <1>1 DEF Sound
  <2>2. W[j] = V[j] /\ \A i \in 0..(j - 1) : W[i] = V[i]
    BY <1>1 DEF Replays
  <2>3. \A i \in 0..(j - 1) : \A l \in (i + 1)..(j - 1) : W[l] = V[l]
    BY <2>2
  <2>. QED BY <2>1, <2>2, <2>3 DEF SoundAt, Joined
<1>2. CASE j = c + 1
  BY <1>0, <1>2 DEF SoundAt, Feeds, Adds
<1>3. CASE j \in (c + 2)..(c + x)
  <2>1. ~Adds(W[j], p)
    BY <1>0, <1>3 DEF Adds
  <2>2. SUFFICES ASSUME Feeds(W[j], p) PROVE Joined(W, p, j, W[j].chunks[1])
    BY <2>1 DEF SoundAt
  <2>3. W[j].chunks[1] = 1 /\ \A h \in (c + 2)..(c + x) : Feeds(W[h], p) => h = j
    BY <1>3, <2>2 DEF Replays
  <2>4. SUFFICES ASSUME NEW i \in 0..(j - 1), Shows(W[i], p),
                        \A l \in (i + 1)..(j - 1) : ~Touches(W[l], p)
                 PROVE  Level(W[i], p) + 1 = 1
    BY <2>3 DEF Joined
  <2>5. i > c
    <3>1. Touches(W[c + 1], p)
      BY <1>0 DEF Touches
    <3>. QED BY <1>3, <2>4, <3>1
  <2>6. i = c + 1
    <3>1. CASE i \in (c + 2)..(c + x)
      <4>1. Feeds(W[i], p)
        BY <1>0, <2>4, <3>1 DEF Shows, Adds
      <4>. QED BY <2>3, <3>1, <4>1
    <3>. QED BY <1>3, <2>5, <3>1
  <2>. QED BY <1>0, <2>6 DEF Level
<1>4. CASE j > c + x
  <2>. DEFINE y == j - x
  <2>1. y \in (c + 1)..n /\ y \in 1..n /\ y + x = j
    BY <1>4
  <2>2. W[j] = V[y] /\ SoundAt(V, p, y)
    BY <2>1 DEF Replays, Sound
  <2>3. SUFFICES ASSUME Touches(W[j], p) PROVE SoundAt(W, p, j)
    BY DEF SoundAt, Touches
  <2>4. p \notin W[c + 1].terminals /\ \A l \in (c + 2)..(c + x) : ~Feeds(W[l], p)
    BY <2>1, <2>2, <2>3 DEF Replays
  <2>5. ASSUME NEW i \in (c + 1)..(c + x) PROVE ~Shows(W[i], p)
    <3>1. CASE i = c + 1
      BY <1>0, <2>4, <3>1 DEF Shows, Adds, Feeds
    <3>2. CASE i # c + 1
      BY <1>0, <2>4, <2>5, <3>2 DEF Shows, Adds, Feeds
    <3>. QED BY <3>1, <3>2
  <2>6. ASSUME NEW i \in 0..(j - 1), i > c + x
        PROVE  i - x \in 0..(y - 1) /\ i - x \in (c + 1)..n /\ W[i] = V[i - x]
    <3>1. i - x \in 0..(y - 1) /\ i - x \in (c + 1)..n /\ (i - x) + x = i
      BY <2>1, <2>6
    <3>. QED BY <3>1 DEF Replays
  <2>7. ASSUME Feeds(W[j], p) PROVE Joined(W, p, j, W[j].chunks[1])
    <3>. SUFFICES ASSUME NEW i \in 0..(j - 1), Shows(W[i], p),
                         \A l \in (i + 1)..(j - 1) : ~Touches(W[l], p)
                  PROVE  Level(W[i], p) + 1 = W[j].chunks[1]
      BY DEF Joined
    <3>1. i > c
      <4>1. Touches(W[c + 1], p)
        BY <1>0 DEF Touches
      <4>. QED BY <1>4, <4>1
    <3>2. i > c + x
      BY <2>5, <3>1
    <3>3. ASSUME NEW l \in (i - x + 1)..(y - 1) PROVE ~Touches(V[l], p)
      <4>1. l + x \in (i + 1)..(j - 1) /\ l \in (c + 1)..n
        BY <2>1, <3>2
      <4>. QED BY <4>1 DEF Replays
    <3>4. Joined(V, p, y, V[y].chunks[1])
      BY <2>2, <2>7 DEF SoundAt
    <3>5. i - x \in 0..(y - 1) /\ Shows(V[i - x], p)
      BY <2>6, <3>2
    <3>6. Level(V[i - x], p) + 1 = V[y].chunks[1]
      <4>. HIDE DEF y
      <4>. QED BY <3>3, <3>4, <3>5 DEF Joined
    <3>. QED BY <2>2, <2>6, <3>2, <3>6
  <2>8. ASSUME Adds(W[j], p), NEW i \in 0..(j - 1), Shows(W[i], p) PROVE FALSE
    <3>1. \A h \in 0..(y - 1) : ~Shows(V[h], p)
      BY <2>2, <2>8 DEF SoundAt
    <3>2. CASE i <= c
      <4>1. i \in 0..(y - 1) /\ W[i] = V[i]
        BY <2>1, <3>2 DEF Replays
      <4>. QED BY <2>8, <3>1, <4>1
    <3>3. CASE i > c + x
      BY <2>6, <2>8, <3>1, <3>3
    <3>. QED BY <2>5, <2>8, <3>2, <3>3
  <2>. QED BY <2>7, <2>8 DEF SoundAt
<1>. QED BY <1>1, <1>2, <1>3, <1>4

\* The replay has all that p has printed, t of it.
LEMMA ReplayJoined ==
    ASSUME NEW V, NEW W, NEW n \in Nat, NEW c \in 0..n, NEW x \in Nat \ {0}, NEW p, NEW t \in Nat,
           Replays(V, W, n, c, x, p), p \in W[c + 1].terminals,
           \A i \in (c + 1)..n : ~Shows(V[i], p),
           \A l \in (c + 2)..(c + x) : Feeds(W[l], p) => Level(W[l], p) = t,
           t # 0 => \E l \in (c + 2)..(c + x) : Feeds(W[l], p)
    PROVE  Joined(W, p, n + x + 1, t + 1)
<1>0. W[c + 1].type = "switched" /\ \A l \in (c + 2)..(c + x) : W[l].type = "data"
  BY DEF Replays
<1>. SUFFICES ASSUME NEW i \in 0..(n + x), Shows(W[i], p),
                     \A l \in (i + 1)..(n + x) : ~Touches(W[l], p)
              PROVE  Level(W[i], p) = t
  BY DEF Joined
<1>1. i > c
  <2>1. Touches(W[c + 1], p)
    BY <1>0 DEF Touches
  <2>. QED BY <2>1
<1>2. i <= c + x
  <2>1. SUFFICES ASSUME i > c + x PROVE FALSE
    OBVIOUS
  <2>2. i - x \in (c + 1)..n /\ (i - x) + x = i
    BY <2>1
  <2>. QED BY <2>2 DEF Replays
<1>3. CASE i = c + 1
  <2>1. ~\E l \in (c + 2)..(c + x) : Feeds(W[l], p)
    BY <1>3 DEF Touches
  <2>. QED BY <1>0, <1>3, <2>1 DEF Level
<1>4. CASE i \in (c + 2)..(c + x)
  BY <1>0, <1>4 DEF Shows, Adds
<1>. QED BY <1>1, <1>2, <1>3, <1>4

-----------------------------------------------------------------------------
(* The stream to a window with panels b, with x on the wire and y in the   *)
(* queue of its socket.                                                    *)

LEMMA StreamShape ==
    ASSUME NEW b, NEW x, NEW y, IsSeq(x), IsSeq(y)
    PROVE  /\ Size(x, y) \in Nat /\ Stream(b, x, y)[0] = Base(b)
           /\ \A i \in 1..Len(x) : Stream(b, x, y)[i] = x[i]
           /\ \A i \in 1..Len(y) : Stream(b, x, y)[Len(x) + i] = y[i]
           /\ \A i \in 1..Size(x, y) : \/ i \in 1..Len(x)
                                       \/ i - Len(x) \in 1..Len(y)
                                          /\ Stream(b, x, y)[i] = y[i - Len(x)]
<1>1. Len(x) \in Nat /\ Len(y) \in Nat
  BY SeqShape
<1>. QED BY <1>1 DEF Stream, Size

\* Nothing is shown that was not, and what was joined is.
Follows(b, x, y, c, u, v) ==
    LET V == Stream(b, x, y)
        W == Stream(c, u, v)
    IN  \A p : /\ Sound(V, Size(x, y), p) => Sound(W, Size(u, v), p)
               /\ \A t : Joined(V, p, Size(x, y) + 1, t) => Joined(W, p, Size(u, v) + 1, t)
               /\ \A i \in 0..Size(u, v) : Shows(W[i], p) => \E j \in 0..Size(x, y) : Shows(V[j], p)

\* What is neither data nor makes a panel may come at the end of both; with p in the way
\* nothing else may.
Aside(z, p) == \A i \in 1..Len(z) : ~Touches(z[i], p) /\ ~Shows(z[i], p)

LEMMA SpreadFollows ==
    ASSUME NEW b, NEW x, NEW y, NEW g, NEW h, NEW p, IsSeq(x), IsSeq(y), IsSeq(g), IsSeq(h),
           Aside(g, p), Aside(h, p)
    PROVE  LET V == Stream(b, x, y)
               W == Stream(b, x \o g, y \o h)
               n == Size(x, y)
               m == Size(x \o g, y \o h)
           IN  /\ Sound(V, n, p) => Sound(W, m, p)
               /\ \A t : Joined(V, p, n + 1, t) => Joined(W, p, m + 1, t)
               /\ \A i \in 0..m : Shows(W[i], p) => \E j \in 0..n : Shows(V[j], p)
<1>. DEFINE V == Stream(b, x, y)
            W == Stream(b, x \o g, y \o h)
            n == Size(x, y)
            m == Size(x \o g, y \o h)
            f == [i \in 0..n |-> IF i <= Len(x) THEN i ELSE i + Len(g)]
<1>1. /\ Len(x) \in Nat /\ Len(y) \in Nat /\ Len(g) \in Nat /\ Len(h) \in Nat
      /\ n = Len(x) + Len(y) /\ m = Len(x) + Len(g) + Len(y) + Len(h)
  BY SeqShape, SeqCat DEF Size
<1>2. /\ W[0] = Base(b) /\ V[0] = Base(b)
      /\ \A i \in 1..Len(x) : V[i] = x[i] /\ W[i] = x[i]
      /\ \A i \in 1..Len(g) : W[Len(x) + i] = g[i]
      /\ \A i \in 1..Len(y) : V[Len(x) + i] = y[i] /\ W[Len(x) + Len(g) + i] = y[i]
      /\ \A i \in 1..Len(h) : W[Len(x) + Len(g) + Len(y) + i] = h[i]
  <2>1. /\ IsSeq(x \o g) /\ Len(x \o g) = Len(x) + Len(g)
        /\ \A i \in 1..Len(x) : (x \o g)[i] = x[i]
        /\ \A i \in 1..Len(g) : (x \o g)[Len(x) + i] = g[i]
    BY SeqCat
  <2>2. /\ IsSeq(y \o h) /\ Len(y \o h) = Len(y) + Len(h)
        /\ \A i \in 1..Len(y) : (y \o h)[i] = y[i]
        /\ \A i \in 1..Len(h) : (y \o h)[Len(y) + i] = h[i]
    BY SeqCat
  <2>3. /\ W[0] = Base(b)
        /\ \A i \in 1..Len(x \o g) : W[i] = (x \o g)[i]
        /\ \A i \in 1..Len(y \o h) : W[Len(x \o g) + i] = (y \o h)[i]
    <3>. DEFINE u == x \o g
                v == y \o h
    <3>1. IsSeq(u) /\ IsSeq(v)
      BY <2>1, <2>2
    <3>. HIDE DEF u, v
    <3>2. LET S == Stream(b, u, v)
          IN  /\ S[0] = Base(b) /\ \A i \in 1..Len(u) : S[i] = u[i]
              /\ \A i \in 1..Len(v) : S[Len(u) + i] = v[i]
      BY <3>1, StreamShape
    <3>. QED BY <3>2 DEF u, v
  <2>4. /\ V[0] = Base(b)
        /\ \A i \in 1..Len(x) : V[i] = x[i]
        /\ \A i \in 1..Len(y) : V[Len(x) + i] = y[i]
    BY StreamShape
  <2>. HIDE DEF V, W
  <2>5. \A i \in 1..Len(x) : V[i] = x[i] /\ W[i] = x[i]
    BY <1>1, <2>1, <2>3, <2>4
  <2>6. \A i \in 1..Len(g) : W[Len(x) + i] = g[i]
    <3>. TAKE i \in 1..Len(g)
    <3>1. Len(x) + i \in 1..Len(x \o g) /\ (x \o g)[Len(x) + i] = g[i]
      BY <1>1, <2>1
    <3>. QED BY <2>3, <3>1
  <2>7. \A i \in 1..Len(y) : V[Len(x) + i] = y[i] /\ W[Len(x) + Len(g) + i] = y[i]
    BY <1>1, <2>1, <2>2, <2>3, <2>4
  <2>8. \A i \in 1..Len(h) : W[Len(x) + Len(g) + Len(y) + i] = h[i]
    <3>. TAKE i \in 1..Len(h)
    <3>1. Len(y) + i \in 1..Len(y \o h) /\ (y \o h)[Len(y) + i] = h[i]
      BY <1>1, <2>2
    <3>2. W[Len(x) + Len(g) + (Len(y) + i)] = h[i]
      BY <2>1, <2>3, <3>1
    <3>3. Len(x) + Len(g) + (Len(y) + i) = Len(x) + Len(g) + Len(y) + i
      BY <1>1
    <3>. QED BY <3>2, <3>3
  <2>. QED BY <2>3, <2>4, <2>5, <2>6, <2>7, <2>8
<1>. HIDE DEF V, W, n, m
<1>3. /\ f \in [0..n -> 0..m] /\ f[0] = 0
      /\ \A i, j \in 0..n : i < j => f[i] < f[j]
  BY <1>1
<1>4. \A i \in 0..n : W[f[i]] = V[i]
  <2>. TAKE i \in 0..n
  <2>1. CASE i = 0
    BY <1>1, <1>2, <2>1
  <2>2. CASE i \in 1..Len(x)
    BY <1>1, <1>2, <2>2
  <2>3. CASE i > Len(x)
    <3>. DEFINE d == i - Len(x)
    <3>1. d \in 1..Len(y) /\ i = Len(x) + d /\ f[i] = Len(x) + Len(g) + d
      BY <1>1, <2>3
    <3>. HIDE DEF d
    <3>. QED BY <1>2, <3>1
  <2>. QED BY <1>1, <2>1, <2>2, <2>3
<1>5. \A l \in 0..m : (\E i \in 0..n : f[i] = l) \/ (~Touches(W[l], p) /\ ~Shows(W[l], p))
  <2>. TAKE l \in 0..m
  <2>1. CASE l <= Len(x)
    BY <1>1, <2>1
  <2>2. CASE l > Len(x) /\ l <= Len(x) + Len(g)
    <3>1. l - Len(x) \in 1..Len(g) /\ l = Len(x) + (l - Len(x))
      BY <1>1, <2>2
    <3>. QED BY <1>2, <3>1 DEF Aside
  <2>3. CASE l > Len(x) + Len(g) /\ l <= Len(x) + Len(g) + Len(y)
    <3>1. l - Len(g) \in 0..n /\ f[l - Len(g)] = l
      BY <1>1, <2>3
    <3>. QED BY <3>1
  <2>4. CASE l > Len(x) + Len(g) + Len(y)
    <3>. DEFINE d == l - (Len(x) + Len(g) + Len(y))
    <3>1. d \in 1..Len(h) /\ l = Len(x) + Len(g) + Len(y) + d
      BY <1>1, <2>4
    <3>. HIDE DEF d
    <3>. QED BY <1>2, <3>1 DEF Aside
  <2>. QED BY <1>1, <2>1, <2>2, <2>3, <2>4
<1>. HIDE DEF f
<1>6. Embeds(f, V, n, W, m, p)
  BY <1>3, <1>4, <1>5 DEF Embeds
<1>7. n \in Nat /\ m \in Nat
  BY <1>1
<1>8. \A i \in 0..m : Shows(W[i], p) => \E j \in 0..n : Shows(V[j], p)
  BY <1>4, <1>5
<1>9. /\ Sound(V, n, p) => Sound(W, m, p)
      /\ \A t : Joined(V, p, n + 1, t) => Joined(W, p, m + 1, t)
  BY <1>6, <1>7, SpreadSound
<1>. QED BY <1>8, <1>9 DEF V, W, n, m

\* What a panel shows of p once x[1] is received.
Takes(b, c, m, p) ==
    Shows(Base(c), p) => IF Touches(m, p) THEN Shows(m, p) /\ Level(Base(c), p) = Level(m, p)
                         ELSE Shows(Base(b), p) /\ Level(Base(c), p) = Level(Base(b), p)

LEMMA PopFollows ==
    ASSUME NEW b, NEW x, NEW y, NEW c, IsSeq(x), IsSeq(y), x # <<>>,
           \A p : Takes(b, c, Head(x), p)
    PROVE  Follows(b, x, y, c, Tail(x), y)
<1>. DEFINE u == Tail(x)
            V == Stream(b, x, y)
            W == Stream(c, u, y)
            n == Size(x, y)
<1>1. /\ Len(x) \in Nat \ {0} /\ Len(y) \in Nat /\ Head(x) = x[1] /\ IsSeq(u)
      /\ Len(u) = Len(x) - 1 /\ \A i \in 1..(Len(x) - 1) : u[i] = x[i + 1]
  BY SeqTail, SeqShape
<1>. HIDE DEF u
<1>2. n \in Nat \ {0} /\ n = Len(x) + Len(y) /\ Size(u, y) = n - 1
  BY <1>1 DEF Size
<1>3. /\ V[0] = Base(b) /\ \A i \in 1..Len(x) : V[i] = x[i]
      /\ \A i \in 1..Len(y) : V[Len(x) + i] = y[i]
  BY StreamShape
<1>4. /\ W[0] = Base(c) /\ \A i \in 1..Len(u) : W[i] = u[i]
      /\ \A i \in 1..Len(y) : W[Len(u) + i] = y[i]
  <2>1. IsSeq(u)
    BY <1>1
  <2>. QED BY <2>1, StreamShape
<1>. HIDE DEF V, W, n
<1>5. \A i \in 1..(n - 1) : W[i] = V[i + 1]
  <2>. TAKE i \in 1..(n - 1)
  <2>1. CASE i <= Len(u)
    <3>1. i \in 1..Len(u) /\ i \in 1..(Len(x) - 1) /\ i + 1 \in 1..Len(x)
      BY <1>1, <2>1
    <3>2. W[i] = u[i] /\ V[i + 1] = x[i + 1] /\ u[i] = x[i + 1]
      BY <1>1, <1>3, <1>4, <3>1
    <3>. QED BY <3>2
  <2>2. CASE i > Len(u)
    <3>. DEFINE d == i - Len(u)
    <3>1. d \in 1..Len(y) /\ i = Len(u) + d /\ i + 1 = Len(x) + d
      BY <1>1, <1>2, <2>2
    <3>. HIDE DEF d
    <3>. QED BY <1>3, <1>4, <3>1
  <2>. QED BY <1>1, <2>1, <2>2
<1>6. V[1] = Head(x)
  BY <1>1, <1>3
<1>. SUFFICES ASSUME NEW p
              PROVE  /\ Sound(V, n, p) => Sound(W, n - 1, p)
                     /\ \A t : Joined(V, p, n + 1, t) => Joined(W, p, n, t)
                     /\ \A i \in 0..(n - 1) : Shows(W[i], p) => \E j \in 0..n : Shows(V[j], p)
  <2>1. Size(u, y) + 1 = n /\ (n - 1) + 1 = n
    BY <1>2
  <2>. QED BY <1>2, <2>1, SMTT(30) DEF Follows, V, W, n, u
<1>7. Shows(W[0], p) => IF Touches(V[1], p)
                        THEN Shows(V[1], p) /\ Level(W[0], p) = Level(V[1], p)
                        ELSE Shows(V[0], p) /\ Level(W[0], p) = Level(V[0], p)
  BY <1>3, <1>4, <1>6 DEF Takes
<1>8. /\ Sound(V, n, p) => Sound(W, n - 1, p)
      /\ \A t : Joined(V, p, n + 1, t) => Joined(W, p, n, t)
  BY <1>2, <1>5, <1>7, PopSound
<1>9. ASSUME NEW i \in 0..(n - 1), Shows(W[i], p) PROVE \E j \in 0..n : Shows(V[j], p)
  <2>1. CASE i = 0
    <3>1. 0 \in 0..n /\ 1 \in 0..n
      BY <1>2
    <3>. QED BY <1>7, <1>9, <2>1, <3>1
  <2>2. CASE i # 0
    <3>1. i + 1 \in 0..n /\ W[i] = V[i + 1]
      BY <1>2, <1>5, <2>2
    <3>. QED BY <1>9, <3>1
  <2>. QED BY <2>1, <2>2
<1>. QED BY <1>8, <1>9

LEMMA FewerFollows ==
    ASSUME NEW b, NEW x, NEW y, NEW c, IsSeq(x), IsSeq(y), DOMAIN c \subseteq DOMAIN b,
           \A p \in DOMAIN c : c[p] = b[p]
    PROVE  Follows(b, x, y, c, x, y)
<1>. DEFINE V == Stream(b, x, y)
            W == Stream(c, x, y)
            n == Size(x, y)
<1>1. n \in Nat /\ V[0] = Base(b) /\ W[0] = Base(c)
  BY StreamShape
<1>2. \A i \in 1..n : W[i] = V[i]
  BY DEF Stream, Size
<1>3. \A p : Shows(Base(c), p) => Shows(Base(b), p) /\ Level(Base(c), p) = Level(Base(b), p)
  BY DEF Shows, Level, Base, Adds, Feeds
<1>. HIDE DEF V, W, n
<1>. SUFFICES ASSUME NEW p
              PROVE  /\ Sound(V, n, p) => Sound(W, n, p)
                     /\ \A t : Joined(V, p, n + 1, t) => Joined(W, p, n + 1, t)
                     /\ \A i \in 0..n : Shows(W[i], p) => \E j \in 0..n : Shows(V[j], p)
  BY DEF Follows, V, W, n
<1>4. /\ Sound(V, n, p) => Sound(W, n, p)
      /\ \A t : Joined(V, p, n + 1, t) => Joined(W, p, n + 1, t)
  BY <1>1, <1>2, <1>3, FewerSound
<1>5. ASSUME NEW i \in 0..n, Shows(W[i], p) PROVE \E j \in 0..n : Shows(V[j], p)
  BY <1>1, <1>2, <1>3, <1>5
<1>. QED BY <1>4, <1>5

\* What is queued goes to the wire: the stream is the same.
LEMMA DrainFollows ==
    ASSUME NEW b, NEW x, NEW y, IsSeq(x), IsSeq(y), y # <<>>
    PROVE  Follows(b, x, y, b, x \o <<Head(y)>>, Tail(y))
<1>. DEFINE u == x \o <<Head(y)>>
            v == Tail(y)
<1>1. /\ Len(x) \in Nat /\ Len(y) \in Nat \ {0} /\ Head(y) = y[1] /\ IsSeq(v)
      /\ Len(v) = Len(y) - 1 /\ \A i \in 1..(Len(y) - 1) : v[i] = y[i + 1]
  BY SeqTail, SeqShape
<1>2. /\ IsSeq(u) /\ Len(u) = Len(x) + 1 /\ u[Len(x) + 1] = Head(y)
      /\ \A i \in 1..Len(x) : u[i] = x[i]
  BY SeqCatOne
<1>. HIDE DEF u, v
<1>3. Size(u, v) = Size(x, y) /\ Size(x, y) = Len(x) + Len(y)
  BY <1>1, <1>2 DEF Size
<1>4. \A i \in 0..Size(x, y) : Stream(b, u, v)[i] = Stream(b, x, y)[i]
  <2>. TAKE i \in 0..Size(x, y)
  <2>1. /\ Stream(b, u, v)[i] = IF i = 0 THEN Base(b) ELSE IF i <= Len(u) THEN u[i] ELSE v[i - Len(u)]
        /\ Stream(b, x, y)[i] = IF i = 0 THEN Base(b) ELSE IF i <= Len(x) THEN x[i] ELSE y[i - Len(x)]
    BY <1>3 DEF Stream, Size
  <2>2. CASE i <= Len(x)
    BY <1>1, <1>2, <2>1, <2>2
  <2>3. CASE i = Len(x) + 1
    BY <1>1, <1>2, <2>1, <2>3
  <2>4. CASE i > Len(x) + 1
    <3>1. i - Len(u) \in 1..(Len(y) - 1) /\ (i - Len(u)) + 1 = i - Len(x)
      BY <1>1, <1>2, <1>3, <2>4
    <3>. QED BY <1>1, <1>2, <2>1, <2>4, <3>1
  <2>. QED BY <1>1, <1>3, <2>2, <2>3, <2>4
<1>5. Stream(b, u, v) = Stream(b, x, y)
  <2>1. Stream(b, u, v) = [i \in 0..Size(x, y) |-> Stream(b, u, v)[i]]
    BY <1>3 DEF Stream, Size
  <2>2. Stream(b, x, y) = [i \in 0..Size(x, y) |-> Stream(b, x, y)[i]]
    BY DEF Stream, Size
  <2>. QED BY <1>4, <2>1, <2>2
<1>. QED BY <1>3, <1>5 DEF Follows, u, v

\* Chunk t + 1 of p comes last.
LEMMA PrintFollows ==
    ASSUME NEW b, NEW x, NEW y, NEW p, NEW t \in Nat, IsSeq(x), IsSeq(y),
           LET V == Stream(b, x, y)
           IN  Sound(V, Size(x, y), p) /\ Joined(V, p, Size(x, y) + 1, t + 1)
    PROVE  LET v == Append(y, Printed(p, <<t + 1>>))
               W == Stream(b, x, v)
           IN  Sound(W, Size(x, v), p) /\ Joined(W, p, Size(x, v) + 1, t + 2)
<1>. DEFINE m == Printed(p, <<t + 1>>)
            v == Append(y, m)
            V == Stream(b, x, y)
            W == Stream(b, x, v)
            n == Size(x, y)
<1>1. m.type = "data" /\ m.terminal = p /\ m.chunks[1] = t + 1 /\ m.chunks[Len(m.chunks)] = t + 1
  BY DEF Printed
<1>2. Feeds(m, p) /\ Level(m, p) = t + 1 /\ Touches(m, p) /\ ~Adds(m, p)
  BY <1>1 DEF Feeds, Level, Touches, Adds
<1>. HIDE DEF m
<1>3. /\ Len(x) \in Nat /\ Len(y) \in Nat /\ IsSeq(v) /\ Len(v) = Len(y) + 1
      /\ v[Len(y) + 1] = m /\ \A i \in 1..Len(y) : v[i] = y[i]
  BY SeqAppend, SeqShape
<1>. HIDE DEF v
<1>4. n \in Nat /\ Size(x, v) = n + 1 /\ n = Len(x) + Len(y)
  BY <1>3 DEF Size
<1>5. \A i \in 0..n : W[i] = V[i]
  <2>. TAKE i \in 0..n
  <2>1. /\ W[i] = IF i = 0 THEN Base(b) ELSE IF i <= Len(x) THEN x[i] ELSE v[i - Len(x)]
        /\ V[i] = IF i = 0 THEN Base(b) ELSE IF i <= Len(x) THEN x[i] ELSE y[i - Len(x)]
    BY <1>3, <1>4 DEF Stream
  <2>2. i > Len(x) => i - Len(x) \in 1..Len(y)
    BY <1>3, <1>4
  <2>. QED BY <1>3, <2>1, <2>2
<1>6. W[n + 1] = m
  <2>1. n + 1 = Len(x) + (Len(y) + 1) /\ Len(y) + 1 \in 1..Len(v)
    BY <1>3, <1>4
  <2>2. IsSeq(v) /\ v[Len(y) + 1] = m
    BY <1>3
  <2>3. \A i \in 1..Len(v) : W[Len(x) + i] = v[i]
    BY <2>2, StreamShape
  <2>. HIDE DEF W
  <2>. QED BY <2>1, <2>2, <2>3
<1>. HIDE DEF V, W, n
<1>7. Sound(V, n, p) /\ Joined(V, p, n + 1, t + 1)
  BY DEF V, n
<1>8. SoundAt(W, p, n + 1)
  <2>1. \A i \in 0..(n + 1 - 1) : W[i] = V[i]
    BY <1>4, <1>5
  <2>2. Joined(W, p, n + 1, t + 1)
    BY <1>4, <1>7, <2>1, JoinedSame
  <2>. QED BY <1>1, <1>2, <1>6, <2>2 DEF SoundAt
<1>9. Sound(W, n + 1, p)
  BY <1>4, <1>5, <1>7, <1>8, AppendSound
<1>10. Joined(W, p, n + 1 + 1, t + 2)
  <2>1. Level(W[n + 1], p) + 1 = t + 2 /\ Touches(W[n + 1], p) /\ n + 1 \in Nat
    BY <1>2, <1>4, <1>6
  <2>. QED BY <2>1, JoinedLast
<1>. QED BY <1>4, <1>9, <1>10 DEF W, v, m

\* A panel for p, which nothing has shown yet, comes last.
LEMMA OpenedFollows ==
    ASSUME NEW b, NEW x, NEW p, NEW m, IsSeq(x), m.type = "opened", m.terminal = p,
           LET V == Stream(b, x, <<>>)
           IN  Sound(V, Size(x, <<>>), p) /\ \A i \in 0..Size(x, <<>>) : ~Shows(V[i], p)
    PROVE  LET u == x \o <<m>>
               W == Stream(b, u, <<>>)
           IN  Sound(W, Size(u, <<>>), p) /\ Joined(W, p, Size(u, <<>>) + 1, 1)
<1>. DEFINE u == x \o <<m>>
            V == Stream(b, x, <<>>)
            W == Stream(b, u, <<>>)
            n == Size(x, <<>>)
<1>2. Adds(m, p) /\ ~Feeds(m, p) /\ Touches(m, p) /\ Level(m, p) = 0
  BY DEF Feeds, Level, Touches, Adds
<1>3. /\ Len(x) \in Nat /\ IsSeq(u) /\ Len(u) = Len(x) + 1 /\ u[Len(x) + 1] = m
      /\ \A i \in 1..Len(x) : u[i] = x[i]
  BY SeqCatOne, SeqShape
<1>. HIDE DEF u
<1>4. n \in Nat /\ Size(u, <<>>) = n + 1 /\ n = Len(x)
  BY <1>3, ShortSeqs DEF Size
<1>5. \A i \in 0..n : W[i] = V[i]
  BY <1>3, <1>4, ShortSeqs DEF Stream
<1>6. W[n + 1] = m
  BY <1>3, <1>4, ShortSeqs DEF Stream
<1>. HIDE DEF V, W, n
<1>7. Sound(V, n, p) /\ \A i \in 0..n : ~Shows(V[i], p)
  BY DEF V, n
<1>8. SoundAt(W, p, n + 1)
  BY <1>2, <1>4, <1>5, <1>6, <1>7 DEF SoundAt
<1>9. Sound(W, n + 1, p)
  BY <1>4, <1>5, <1>7, <1>8, AppendSound
<1>10. Joined(W, p, n + 1 + 1, 1)
  <2>1. Level(W[n + 1], p) + 1 = 1 /\ Touches(W[n + 1], p) /\ n + 1 \in Nat
    BY <1>2, <1>4, <1>6
  <2>. QED BY <2>1, JoinedLast
<1>. QED BY <1>4, <1>9, <1>10 DEF W, u

\* r has all that the terminals of m have printed, once.
Whole(q, n)        == Printed(q, [i \in 1..n |-> i])
Repeats(m, r, prn) ==
    /\ \A l \in 1..Len(r) : \E q \in m.terminals : prn[q] # 0 /\ r[l] = Whole(q, prn[q])
    /\ \A q \in m.terminals : prn[q] # 0 => \E l \in 1..Len(r) : r[l] = Whole(q, prn[q])
    /\ \A l, h \in 1..Len(r) : r[l] = r[h] => l = h

LEMMA WholeFeeds ==
    ASSUME NEW q, NEW n \in Nat \ {0}
    PROVE  LET w == Whole(q, n)
           IN  /\ w.type = "data" /\ w.terminal = q /\ w.chunks[1] = 1 /\ Run(w.chunks)
               /\ \A p : (Feeds(w, p) <=> p = q) /\ Level(w, p) = n
<1>. DEFINE s == [i \in 1..n |-> i]
<1>1. s \in Seq(Nat) /\ Len(s) = n /\ s[1] = 1 /\ s[n] = n
  OBVIOUS
<1>2. s = [i \in 1..n |-> 0 + i]
  OBVIOUS
<1>. HIDE DEF s
<1>3. Run(s)
  BY <1>2 DEF Run
<1>4. Whole(q, n) = [type |-> "data", terminal |-> q, chunks |-> s]
  BY DEF Whole, Printed, s
<1>. QED BY <1>1, <1>3, <1>4 DEF Feeds, Level

LEMMA AttachFollows ==
    ASSUME NEW b, NEW x, NEW y, NEW m, NEW r, NEW prn, NEW p, IsSeq(x), IsSeq(y), IsSeq(r),
           m.type = "switched", Repeats(m, r, prn), \A q \in m.terminals : prn[q] \in Nat,
           \A i \in 1..Len(y) : y[i].type \in {"data", "closed"},
           p \in m.terminals => \A i \in 1..Len(y) : ~Feeds(y[i], p),
           Sound(Stream(b, x, y), Size(x, y), p)
    PROVE  LET u == x \o (<<m>> \o r)
               V == Stream(b, x, y)
               W == Stream(b, u, y)
           IN  /\ Sound(W, Size(u, y), p)
               /\ p \in m.terminals => Joined(W, p, Size(u, y) + 1, prn[p] + 1)
               /\ \A i \in 0..Size(u, y) : Shows(W[i], p) =>
                     p \in m.terminals \/ \E j \in 0..Size(x, y) : Shows(V[j], p)
<1>. DEFINE z == <<m>> \o r
            u == x \o z
            V == Stream(b, x, y)
            W == Stream(b, u, y)
            n == Size(x, y)
            c == Len(x)
            k == Len(r) + 1
<1>1. /\ IsSeq(z) /\ Len(z) = k /\ z[1] = m /\ \A l \in 1..Len(r) : z[1 + l] = r[l]
  BY SeqCons
<1>. HIDE DEF z
<1>2. /\ c \in Nat /\ Len(y) \in Nat /\ k \in Nat \ {0} /\ IsSeq(u) /\ Len(u) = c + k
      /\ \A i \in 1..c : u[i] = x[i]
      /\ \A i \in 1..k : u[c + i] = z[i]
  <2>1. Len(x) \in Nat /\ Len(y) \in Nat /\ Len(r) \in Nat
    BY SeqShape
  <2>2. /\ IsSeq(x \o z) /\ Len(x \o z) = Len(x) + Len(z)
        /\ \A i \in 1..Len(x) : (x \o z)[i] = x[i]
        /\ \A i \in 1..Len(z) : (x \o z)[Len(x) + i] = z[i]
    <3>1. IsSeq(z)
      BY <1>1
    <3>. QED BY <3>1, SeqCat
  <2>. QED BY <1>1, <2>1, <2>2
<1>. HIDE DEF u
<1>3. n \in Nat /\ n = c + Len(y) /\ Size(u, y) = n + k /\ c \in 0..n
  BY <1>2 DEF Size
<1>4. /\ V[0] = Base(b) /\ \A i \in 1..c : V[i] = x[i]
      /\ \A i \in 1..Len(y) : V[c + i] = y[i]
  BY StreamShape
<1>5. /\ W[0] = Base(b) /\ \A i \in 1..Len(u) : W[i] = u[i]
      /\ \A i \in 1..Len(y) : W[Len(u) + i] = y[i]
  <2>1. IsSeq(u)
    BY <1>2
  <2>. QED BY <2>1, StreamShape
<1>. HIDE DEF V, W, n, c, k
<1>6. \A i \in 0..c : W[i] = V[i]
  BY <1>2, <1>4, <1>5
<1>7. \A i \in (c + 1)..n : W[i + k] = V[i] /\ V[i] = y[i - c] /\ i - c \in 1..Len(y)
  <2>. TAKE i \in (c + 1)..n
  <2>. DEFINE d == i - c
  <2>1. d \in 1..Len(y) /\ i = c + d /\ i + k = Len(u) + d
    BY <1>2, <1>3
  <2>. HIDE DEF d
  <2>2. W[i + k] = y[d] /\ V[i] = y[d]
    BY <1>4, <1>5, <2>1
  <2>. QED BY <2>1, <2>2 DEF d
<1>8. W[c + 1] = m
  <2>1. 1 \in 1..k /\ c + 1 \in 1..Len(u)
    BY <1>2
  <2>. QED BY <1>1, <1>2, <1>5, <2>1
<1>9. \A l \in (c + 2)..(c + k) : l - c - 1 \in 1..Len(r) /\ W[l] = r[l - c - 1]
  <2>. TAKE l \in (c + 2)..(c + k)
  <2>. DEFINE d == l - c - 1
  <2>1. d \in 1..Len(r) /\ 1 + d \in 1..k /\ l = c + (1 + d) /\ l \in 1..Len(u)
    BY <1>1, <1>2 DEF k
  <2>. HIDE DEF d
  <2>2. W[l] = r[d]
    BY <1>1, <1>2, <1>5, <2>1
  <2>. QED BY <2>1, <2>2 DEF d
<1>10. \A l \in (c + 2)..(c + k) : \E q \in m.terminals : /\ prn[q] \in Nat \ {0} /\ W[l] = Whole(q, prn[q])
  BY <1>9 DEF Repeats
<1>11. ASSUME NEW l \in (c + 2)..(c + k)
       PROVE  /\ W[l].type = "data"
              /\ Feeds(W[l], p) => /\ p \in m.terminals /\ prn[p] \in Nat \ {0} /\ W[l] = Whole(p, prn[p])
                                   /\ W[l].chunks[1] = 1 /\ Level(W[l], p) = prn[p]
  <2>. PICK q \in m.terminals : prn[q] \in Nat \ {0} /\ W[l] = Whole(q, prn[q])
    BY <1>10
  <2>1. /\ W[l].type = "data" /\ W[l].chunks[1] = 1 /\ (Feeds(W[l], p) <=> p = q)
        /\ Level(W[l], p) = prn[q]
    BY WholeFeeds
  <2>. QED BY <2>1
<1>12. ASSUME p \in m.terminals PROVE \A i \in (c + 1)..n : ~Touches(V[i], p) /\ ~Shows(V[i], p)
  BY <1>7, <1>12 DEF Touches, Shows, Adds, Feeds
<1>13. ASSUME NEW l \in (c + 2)..(c + k), NEW h \in (c + 2)..(c + k),
              Feeds(W[l], p), Feeds(W[h], p)
       PROVE  h = l
  <2>1. r[l - c - 1] = r[h - c - 1]
    BY <1>9, <1>11, <1>13
  <2>2. l - c - 1 = h - c - 1
    BY <1>9, <2>1 DEF Repeats
  <2>. QED BY <1>2, <2>2
<1>14. Replays(V, W, n, c, k, p)
  <2>1. \/ p \notin W[c + 1].terminals /\ \A l \in (c + 2)..(c + k) : ~Feeds(W[l], p)
        \/ /\ \A i \in (c + 1)..n : ~Touches(V[i], p)
           /\ \A l \in (c + 2)..(c + k) : Feeds(W[l], p) =>
                W[l].chunks[1] = 1 /\ \A h \in (c + 2)..(c + k) : Feeds(W[h], p) => h = l
    <3>1. CASE p \in m.terminals
      BY <1>11, <1>12, <1>13, <3>1
    <3>2. CASE p \notin m.terminals
      BY <1>8, <1>11, <3>2
    <3>. QED BY <3>1, <3>2
  <2>2. \A l \in (c + 2)..(c + k) : W[l].type = "data"
    BY <1>11
  <2>3. \A i \in (c + 1)..n : W[i + k] = V[i]
    BY <1>7
  <2>. QED BY <1>6, <1>8, <2>1, <2>2, <2>3 DEF Replays
<1>15. Sound(V, n, p)
  BY DEF V, n
<1>16. Sound(W, n + k, p)
  BY <1>2, <1>3, <1>14, <1>15, ReplaySound
<1>17. ASSUME p \in m.terminals PROVE Joined(W, p, n + k + 1, prn[p] + 1)
  <2>1. prn[p] # 0 => \E l \in (c + 2)..(c + k) : Feeds(W[l], p)
    <3>. SUFFICES ASSUME prn[p] # 0 PROVE \E l \in (c + 2)..(c + k) : Feeds(W[l], p)
      OBVIOUS
    <3>1. PICK d \in 1..Len(r) : r[d] = Whole(p, prn[p])
      BY <1>17 DEF Repeats
    <3>2. c + 1 + d \in (c + 2)..(c + k) /\ (c + 1 + d) - c - 1 = d
      BY <1>1, <1>2 DEF k
    <3>3. W[c + 1 + d] = Whole(p, prn[p])
      BY <1>9, <3>1, <3>2
    <3>4. prn[p] \in Nat \ {0}
      BY <1>17
    <3>5. Feeds(Whole(p, prn[p]), p)
      BY <3>4, WholeFeeds
    <3>. QED BY <3>2, <3>3, <3>5
  <2>2. \A l \in (c + 2)..(c + k) : Feeds(W[l], p) => Level(W[l], p) = prn[p]
    BY <1>11
  <2>3. \A i \in (c + 1)..n : ~Shows(V[i], p)
    BY <1>12, <1>17
  <2>4. prn[p] \in Nat /\ p \in W[c + 1].terminals
    BY <1>8, <1>17
  <2>. QED BY <1>2, <1>3, <1>14, <2>1, <2>2, <2>3, <2>4, ReplayJoined
<1>18. ASSUME NEW i \in 0..(n + k), Shows(W[i], p), p \notin m.terminals
       PROVE  \E j \in 0..n : Shows(V[j], p)
  <2>1. CASE i <= c
    BY <1>2, <1>3, <1>6, <1>18, <2>1
  <2>2. CASE i = c + 1
    BY <1>8, <1>18, <2>2 DEF Shows, Adds, Feeds
  <2>3. CASE i \in (c + 2)..(c + k)
    <3>1. W[i].type = "data" /\ ~Feeds(W[i], p)
      BY <1>11, <1>18, <2>3
    <3>. QED BY <1>18, <3>1 DEF Shows, Adds
  <2>4. CASE i > c + k
    <3>1. i - k \in (c + 1)..n /\ (i - k) + k = i /\ i - k \in 0..n
      BY <1>2, <1>3, <2>4
    <3>. QED BY <1>7, <1>18, <3>1
  <2>. QED BY <1>2, <1>3, <2>1, <2>2, <2>3, <2>4
<1>. QED BY <1>3, <1>16, <1>17, <1>18 DEF u, z, V, W, n

-----------------------------------------------------------------------------
(* Without "hasty" a window waits for the answer to a switch or a close:   *)
(* requests q, what the handler does and the wire x have one between them. *)

\* Each workspace has a session of its own.
LEMMA OwnSessions ==
    /\ \A w \in Held : SessionAt(w) \in Sessions /\ SessionAt(w) # None
    /\ \A v, w \in Held : SessionAt(v) = SessionAt(w) => v = w
<1>1. \A w \in Held : Start.byId[w] \in Records /\ Start.bySession[Start.byId[w].session] = w
  BY SessionsAssumption DEF IsList, Consistent, Held
<1>. QED BY <1>1, ListAssumption DEF Records, SessionAt

\* The moves of r are among those of q; the tells of x and of u are the same.
FewerMoves(q, r) == /\ OneMove(q) => OneMove(r)
                    /\ \A i \in 1..Len(r) : Move(r[i]) => \E j \in 1..Len(q) : q[j] = r[i]
SameTells(x, u) ==  /\ OneTell(x) => OneTell(u)
                    /\ \A i \in 1..Len(u) : Tell(u[i]) => \E j \in 1..Len(x) : x[j] = u[i]
                    /\ \A i \in 1..Len(x) : Tell(x[i]) => \E j \in 1..Len(u) : u[j] = x[i]

LEMMA MovesSame ==
    ASSUME NEW q, IsSeq(q)
    PROVE  FewerMoves(q, q) /\ SameTells(q, q)
  BY SeqShape DEF FewerMoves, SameTells

LEMMA MovesTail ==
    ASSUME NEW q, IsSeq(q), q # <<>>
    PROVE  /\ FewerMoves(q, Tail(q))
           /\ OneMove(q) /\ Move(Head(q)) => NoMove(Tail(q))
<1>. DEFINE r == Tail(q)
<1>1. Len(q) \in Nat \ {0} /\ Head(q) = q[1] /\ Len(r) = Len(q) - 1
      /\ \A i \in 1..(Len(q) - 1) : r[i] = q[i + 1]
  BY SeqTail
<1>. HIDE DEF r
<1>2. \A i \in 1..Len(r) : i + 1 \in 1..Len(q) /\ r[i] = q[i + 1] /\ i + 1 # 1
  BY <1>1
<1>3. 1 \in 1..Len(q)
  BY <1>1
<1>4. OneMove(q) => OneMove(r)
  <2>. SUFFICES ASSUME OneMove(q), NEW i \in 1..Len(r), NEW j \in 1..Len(r), Move(r[i]), Move(r[j])
                PROVE  i = j
    BY DEF OneMove
  <2>1. i + 1 = j + 1
    BY <1>2 DEF OneMove
  <2>. QED BY <2>1
<1>5. OneMove(q) /\ Move(Head(q)) => NoMove(r)
  BY <1>1, <1>2, <1>3 DEF OneMove, NoMove
<1>6. \A i \in 1..Len(r) : Move(r[i]) => \E j \in 1..Len(q) : q[j] = r[i]
  BY <1>2
<1>. QED BY <1>4, <1>5, <1>6 DEF r, FewerMoves

LEMMA MovesCat ==
    ASSUME NEW q, NEW r, IsSeq(q), IsSeq(r), NoMove(r)
    PROVE  FewerMoves(q, q \o r)
<1>. DEFINE z == q \o r
<1>1. Len(q) \in Nat /\ Len(r) \in Nat
  BY SeqShape
<1>2. Len(z) = Len(q) + Len(r) /\ (\A i \in 1..Len(q) : z[i] = q[i])
      /\ \A i \in 1..Len(r) : z[Len(q) + i] = r[i]
  BY SeqCat
<1>. HIDE DEF z
<1>3. \A i \in 1..Len(z) : Move(z[i]) => i \in 1..Len(q) /\ z[i] = q[i]
  <2>. TAKE i \in 1..Len(z)
  <2>. DEFINE d == i - Len(q)
  <2>1. CASE i > Len(q)
    <3>1. d \in 1..Len(r) /\ i = Len(q) + d
      BY <1>1, <1>2, <2>1
    <3>. HIDE DEF d
    <3>. QED BY <1>2, <3>1 DEF NoMove
  <2>. QED BY <1>1, <1>2, <2>1
<1>4. OneMove(q) => OneMove(z)
  BY <1>3 DEF OneMove
<1>5. \A i \in 1..Len(z) : Move(z[i]) => \E j \in 1..Len(q) : q[j] = z[i]
  BY <1>3
<1>. QED BY <1>4, <1>5 DEF z, FewerMoves

\* One more, where there was none.
OnlyMove(z, e) == OneMove(z) /\ \A i \in 1..Len(z) : Move(z[i]) => z[i] = e

LEMMA MovesOne ==
    ASSUME NEW q, NEW r, NEW e, IsSeq(q), IsSeq(r), NoMove(q), NoMove(r)
    PROVE  OnlyMove(q \o (r \o <<e>>), e)
<1>. DEFINE s == r \o <<e>>
            z == q \o s
<1>1. Len(q) \in Nat /\ Len(r) \in Nat
  BY SeqShape
<1>2. /\ IsSeq(s) /\ Len(s) = Len(r) + 1 /\ s[Len(r) + 1] = e
      /\ \A i \in 1..Len(r) : s[i] = r[i]
  BY SeqCatOne
<1>. HIDE DEF s
<1>3. Len(z) = Len(q) + Len(s) /\ (\A i \in 1..Len(q) : z[i] = q[i])
      /\ \A i \in 1..Len(s) : z[Len(q) + i] = s[i]
  <2>1. IsSeq(s)
    BY <1>2
  <2>. QED BY <2>1, SeqCat
<1>. HIDE DEF z
<1>4. \A i \in 1..Len(z) : Move(z[i]) => i = Len(q) + Len(r) + 1 /\ z[i] = e
  <2>. TAKE i \in 1..Len(z)
  <2>1. CASE i <= Len(q)
    BY <1>1, <1>3, <2>1 DEF NoMove
  <2>2. CASE i > Len(q)
    <3>. DEFINE d == i - Len(q)
    <3>1. d \in 1..Len(s) /\ i = Len(q) + d
      BY <1>1, <1>2, <1>3, <2>2
    <3>. HIDE DEF d
    <3>2. z[i] = s[d]
      BY <1>3, <3>1
    <3>3. d \in 1..Len(r) \/ d = Len(r) + 1
      BY <1>1, <1>2, <3>1
    <3>4. CASE d \in 1..Len(r)
      <4>1. z[i] = r[d]
        BY <1>2, <3>2, <3>4
      <4>. QED BY <3>4, <4>1 DEF NoMove
    <3>5. CASE d = Len(r) + 1
      BY <1>1, <1>2, <3>1, <3>2, <3>5
    <3>. QED BY <3>3, <3>4, <3>5
  <2>. QED BY <1>1, <2>1, <2>2
<1>5. OnlyMove(z, e)
  BY <1>4 DEF OneMove, OnlyMove
<1>. QED BY <1>5 DEF z, s

LEMMA TellsTail ==
    ASSUME NEW x, IsSeq(x), x # <<>>
    PROVE  /\ ~Tell(Head(x)) => SameTells(x, Tail(x))
           /\ OneTell(x) /\ Tell(Head(x)) => NoTell(Tail(x))
<1>. DEFINE r == Tail(x)
<1>1. Len(x) \in Nat \ {0} /\ Head(x) = x[1] /\ Len(r) = Len(x) - 1
      /\ \A i \in 1..(Len(x) - 1) : r[i] = x[i + 1]
  BY SeqTail
<1>. HIDE DEF r
<1>2. \A i \in 1..Len(r) : i + 1 \in 1..Len(x) /\ r[i] = x[i + 1] /\ i + 1 # 1
  BY <1>1
<1>3. 1 \in 1..Len(x) /\ \A i \in 1..Len(x) : i = 1 \/ (i - 1 \in 1..Len(r) /\ r[i - 1] = x[i])
  <2>1. \A i \in 1..Len(x) : i # 1 => i - 1 \in 1..(Len(x) - 1) /\ (i - 1) + 1 = i
    BY <1>1
  <2>. QED BY <1>1, <2>1
<1>4. OneTell(x) => OneTell(r)
  <2>. SUFFICES ASSUME OneTell(x), NEW i \in 1..Len(r), NEW j \in 1..Len(r), Tell(r[i]), Tell(r[j])
                PROVE  i = j
    BY DEF OneTell
  <2>1. i + 1 = j + 1
    BY <1>2 DEF OneTell
  <2>. QED BY <2>1
<1>5. OneTell(x) /\ Tell(Head(x)) => NoTell(r)
  BY <1>1, <1>2, <1>3 DEF OneTell, NoTell
<1>6. \A i \in 1..Len(r) : Tell(r[i]) => \E j \in 1..Len(x) : x[j] = r[i]
  BY <1>2
<1>7. ~Tell(Head(x)) => \A i \in 1..Len(x) : Tell(x[i]) => \E j \in 1..Len(r) : r[j] = x[i]
  BY <1>1, <1>3
<1>. QED BY <1>4, <1>5, <1>6, <1>7 DEF r, SameTells

LEMMA TellsCat ==
    ASSUME NEW x, NEW r, IsSeq(x), IsSeq(r), NoTell(r)
    PROVE  SameTells(x, x \o r)
<1>. DEFINE z == x \o r
<1>1. Len(x) \in Nat /\ Len(r) \in Nat
  BY SeqShape
<1>2. Len(z) = Len(x) + Len(r) /\ (\A i \in 1..Len(x) : z[i] = x[i])
      /\ \A i \in 1..Len(r) : z[Len(x) + i] = r[i]
  BY SeqCat
<1>. HIDE DEF z
<1>3. \A i \in 1..Len(z) : Tell(z[i]) => i \in 1..Len(x) /\ z[i] = x[i]
  <2>. TAKE i \in 1..Len(z)
  <2>. DEFINE d == i - Len(x)
  <2>1. CASE i > Len(x)
    <3>1. d \in 1..Len(r) /\ i = Len(x) + d
      BY <1>1, <1>2, <2>1
    <3>. HIDE DEF d
    <3>. QED BY <1>2, <3>1 DEF NoTell
  <2>. QED BY <1>1, <1>2, <2>1
<1>4. OneTell(x) => OneTell(z)
  BY <1>3 DEF OneTell
<1>5. \A i \in 1..Len(z) : Tell(z[i]) => \E j \in 1..Len(x) : x[j] = z[i]
  BY <1>3
<1>6. \A i \in 1..Len(x) : i \in 1..Len(z) /\ z[i] = x[i]
  BY <1>1, <1>2
<1>. QED BY <1>4, <1>5, <1>6 DEF z, SameTells

LEMMA TellsOne ==
    ASSUME NEW x, NEW r, NEW e, IsSeq(x), IsSeq(r), NoTell(x), NoTell(r)
    PROVE  LET z == x \o (<<e>> \o r)
           IN  /\ OneTell(z) /\ \A i \in 1..Len(z) : Tell(z[i]) => z[i] = e
               /\ \E i \in 1..Len(z) : z[i] = e
<1>. DEFINE s == <<e>> \o r
            z == x \o s
<1>1. Len(x) \in Nat /\ Len(r) \in Nat
  BY SeqShape
<1>2. /\ IsSeq(s) /\ Len(s) = Len(r) + 1 /\ s[1] = e
      /\ \A i \in 1..Len(r) : s[1 + i] = r[i]
  BY SeqCons
<1>. HIDE DEF s
<1>3. Len(z) = Len(x) + Len(s) /\ (\A i \in 1..Len(x) : z[i] = x[i])
      /\ \A i \in 1..Len(s) : z[Len(x) + i] = s[i]
  <2>1. IsSeq(s)
    BY <1>2
  <2>. QED BY <2>1, SeqCat
<1>. HIDE DEF z
<1>4. \A i \in 1..Len(z) : Tell(z[i]) => i = Len(x) + 1 /\ z[i] = e
  <2>. TAKE i \in 1..Len(z)
  <2>1. CASE i <= Len(x)
    BY <1>1, <1>3, <2>1 DEF NoTell
  <2>2. CASE i > Len(x) + 1
    <3>. DEFINE d == i - Len(x) - 1
    <3>1. d \in 1..Len(r) /\ i = Len(x) + (1 + d) /\ 1 + d \in 1..Len(s)
      BY <1>1, <1>2, <1>3, <2>2
    <3>. HIDE DEF d
    <3>2. z[i] = r[d]
      BY <1>2, <1>3, <3>1
    <3>. QED BY <3>1, <3>2 DEF NoTell
  <2>3. CASE i = Len(x) + 1
    <3>1. 1 \in 1..Len(s)
      BY <1>1, <1>2
    <3>. QED BY <1>2, <1>3, <2>3, <3>1
  <2>. QED BY <1>1, <2>1, <2>2, <2>3
<1>5. Len(x) + 1 \in 1..Len(z) /\ z[Len(x) + 1] = e
  <2>1. 1 \in 1..Len(s)
    BY <1>1, <1>2
  <2>. QED BY <1>1, <1>2, <1>3, <2>1
<1>6. OneTell(z)
  BY <1>4 DEF OneTell
<1>. QED BY <1>4, <1>5, <1>6 DEF z, s

-----------------------------------------------------------------------------
(* What each kind of step makes of it.                                     *)

LEMMA PlainControlled ==
    ASSUME NEW q, NEW do, NEW x, NEW ses, NEW ws, Controlled(q, do, x, ses, ws),
           NEW r, FewerMoves(q, r), NEW u, SameTells(x, u),
           NEW to, to = do \/ to.step \in {"idle", "note", "unnote"},
           NEW s, s = ses \/ \A w \in Held : s # SessionAt(w)
    PROVE  Controlled(r, to, u, s, ws)
<1>1. OneAtATime(q, do, x) /\ Settled(q, do, x, ses, ws) /\ Sane(do)
  BY DEF Controlled
<1>2. (NoMove(q) => NoMove(r)) /\ (NoTell(x) => NoTell(u)) /\ (Moving(to) => Moving(do))
  BY DEF FewerMoves, SameTells, NoMove, NoTell, Moving
<1>3. OneAtATime(r, to, u)
  BY <1>1, <1>2 DEF OneAtATime, FewerMoves, SameTells
<1>4. ASSUME NEW w \in Held, s = SessionAt(w)
      PROVE  Placed(w, ws, u) /\ ~Closing(w, to, u) /\ ~Wanted(w, r)
  <2>1. Placed(w, ws, x) /\ ~Closing(w, do, x) /\ ~Wanted(w, q)
    BY <1>1, <1>4 DEF Settled
  <2>2. Placed(w, ws, u)
    BY <2>1 DEF Placed, SameTells, Tell
  <2>3. ~Closing(w, to, u)
    BY <2>1 DEF Closing, SameTells, Tell
  <2>4. ~Wanted(w, r)
    BY <2>1 DEF Wanted, FewerMoves, Move
  <2>. QED BY <2>2, <2>3, <2>4
<1>5. Sane(to)
  BY <1>1 DEF Sane
<1>. QED BY <1>3, <1>4, <1>5 DEF Controlled, Settled

\* The handler is busy with no move, and takes up one.
LEMMA TakenUp ==
    ASSUME NEW q, NEW do, NEW x, NEW ses, NEW ws, Controlled(q, do, x, ses, ws),
           IsSeq(q), q # <<>>, Move(Head(q))
    PROVE  ~Moving(do) /\ NoTell(x) /\ OneTell(x) /\ NoMove(Tail(q)) /\ OneMove(Tail(q))
<1>1. OneMove(q) /\ OneTell(x) /\ (NoMove(q) \/ (~Moving(do) /\ NoTell(x)))
  BY DEF Controlled, OneAtATime
<1>2. 1 \in 1..Len(q) /\ Head(q) = q[1]
  BY SeqTail
<1>3. ~NoMove(q)
  BY <1>2 DEF NoMove
<1>4. NoMove(Tail(q)) /\ (OneMove(q) => OneMove(Tail(q)))
  BY <1>1, MovesTail DEF FewerMoves
<1>. QED BY <1>1, <1>3, <1>4

LEMMA SwitchControlled ==
    ASSUME NEW q, NEW do, NEW x, NEW ses, NEW ws, Controlled(q, do, x, ses, ws),
           IsSeq(q), q # <<>>, Head(q).op = "switch", NEW w \in Held, w = Head(q).workspace,
           NEW tabs
    PROVE  Controlled(Tail(q), Leaving(ses, Attaching(w, SessionAt(w), tabs)), x, None, ws)
<1>. DEFINE a == Attaching(w, SessionAt(w), tabs)
            to == Leaving(ses, a)
<1>1. ~Moving(do) /\ NoTell(x) /\ OneTell(x) /\ NoMove(Tail(q)) /\ OneMove(Tail(q))
  BY TakenUp DEF Move
<1>2. OneAtATime(Tail(q), to, x)
  BY <1>1 DEF OneAtATime
<1>3. Settled(Tail(q), to, x, None, ws)
  BY OwnSessions DEF Settled
<1>4. a.step = "attach" /\ Destined(a) /\ a.session = SessionAt(w)
  BY DEF Attaching, Destined
<1>5. /\ ses = None => to = a
      /\ ses # None => to.step = "detach" /\ to.session = ses /\ to.next = a
  BY DEF Leaving, Detaching
<1>. HIDE DEF a, to
<1>6. CASE ses = None
  <2>1. Sane(to)
    BY <1>4, <1>5, <1>6 DEF Sane
  <2>. QED BY <1>2, <1>3, <2>1 DEF Controlled, to, a
<1>7. CASE ses # None
  <2>1. to.step = "detach" /\ to.session = ses /\ to.next = a
    BY <1>5, <1>7
  <2>2. ses # SessionAt(w)
    <3>1. 1 \in 1..Len(q) /\ Head(q) = q[1]
      BY SeqTail
    <3>. QED BY <3>1 DEF Controlled, Settled, Wanted
  <2>3. Sane(to)
    BY <1>4, <2>1, <2>2 DEF Sane
  <2>. QED BY <1>2, <1>3, <2>3 DEF Controlled, to, a
<1>. QED BY <1>6, <1>7

LEMMA DetachControlled ==
    ASSUME NEW q, NEW do, NEW x, NEW ses, NEW ws, Controlled(q, do, x, ses, ws),
           do.step = "detach"
    PROVE  Controlled(q, do.next, x, ses, ws)
<1>1. OneAtATime(q, do, x) /\ Settled(q, do, x, ses, ws) /\ Sane(do)
  BY DEF Controlled
<1>2. OneAtATime(q, do.next, x)
  BY <1>1 DEF OneAtATime, Moving
<1>3. Settled(q, do.next, x, ses, ws)
  BY <1>1 DEF Settled, Closing, Sane
<1>4. Sane(do.next)
  BY <1>1 DEF Sane
<1>. QED BY <1>2, <1>3, <1>4 DEF Controlled

LEMMA AttachControlled ==
    ASSUME NEW q, NEW do, NEW x, NEW ses, NEW ws, Controlled(q, do, x, ses, ws),
           do.step = "attach", NEW m, m.type = "switched", m.workspace = do.workspace,
           NEW r, IsSeq(x), IsSeq(r), NoTell(r)
    PROVE  Controlled(q, Idle, x \o (<<m>> \o r), do.session, ws)
<1>. DEFINE u == x \o (<<m>> \o r)
<1>1. NoTell(x) /\ NoMove(q) /\ OneMove(q) /\ Destined(do)
  BY DEF Controlled, OneAtATime, Sane, Moving
<1>2. /\ OneTell(u) /\ \A i \in 1..Len(u) : Tell(u[i]) => u[i] = m
      /\ \E i \in 1..Len(u) : u[i] = m
  BY <1>1, TellsOne
<1>. HIDE DEF u
<1>3. ~Moving(Idle) /\ Idle.step = "idle"
  BY DEF Moving, Idle
<1>4. OneAtATime(q, Idle, u)
  BY <1>1, <1>2, <1>3 DEF OneAtATime
<1>5. ASSUME NEW w \in Held, do.session = SessionAt(w)
      PROVE  Placed(w, ws, u) /\ ~Closing(w, Idle, u) /\ ~Wanted(w, q)
  <2>1. w = m.workspace
    BY <1>1, <1>5, OwnSessions DEF Destined
  <2>2. Placed(w, ws, u)
    BY <1>2, <2>1 DEF Placed, Tell
  <2>3. ~Closing(w, Idle, u)
    BY <1>2, <1>3 DEF Closing, Tell
  <2>4. ~Wanted(w, q)
    BY <1>1 DEF Wanted, NoMove, Move
  <2>. QED BY <2>2, <2>3, <2>4
<1>6. Sane(Idle)
  BY <1>3 DEF Sane
<1>. QED BY <1>4, <1>5, <1>6 DEF Controlled, Settled, u

LEMMA CloseControlled ==
    ASSUME NEW q, NEW do, NEW x, NEW ses, NEW ws, Controlled(q, do, x, ses, ws),
           IsSeq(q), q # <<>>, Head(q).op = "close", NEW w \in Held, NEW focus
    PROVE  Controlled(Tail(q), Detaching(SessionAt(w), Destroying(w, SessionAt(w), focus)), x,
                      IF ses = SessionAt(w) THEN None ELSE ses, ws)
<1>. DEFINE to == Detaching(SessionAt(w), Destroying(w, SessionAt(w), focus))
            s == IF ses = SessionAt(w) THEN None ELSE ses
<1>1. ~Moving(do) /\ NoTell(x) /\ OneTell(x) /\ NoMove(Tail(q)) /\ OneMove(Tail(q))
  BY TakenUp DEF Move
<1>2. to.step = "detach" /\ to.next.step = "destroy" /\ to.next.workspace = w
  BY DEF Detaching, Destroying
<1>. HIDE DEF to
<1>3. OneAtATime(Tail(q), to, x) /\ Sane(to)
  BY <1>1, <1>2 DEF OneAtATime, Sane
<1>4. ASSUME NEW v \in Held, s = SessionAt(v)
      PROVE  Placed(v, ws, x) /\ ~Closing(v, to, x) /\ ~Wanted(v, Tail(q))
  <2>1. s = ses /\ v # w
    BY <1>4, OwnSessions
  <2>2. Placed(v, ws, x)
    BY <1>4, <2>1 DEF Controlled, Settled
  <2>3. ~Closing(v, to, x)
    BY <1>1, <1>2, <2>1 DEF Closing, NoTell, Tell
  <2>4. ~Wanted(v, Tail(q))
    BY <1>1 DEF Wanted, NoMove, Move
  <2>. QED BY <2>2, <2>3, <2>4
<1>. QED BY <1>3, <1>4 DEF Controlled, Settled, to

LEMMA DestroyControlled ==
    ASSUME NEW q, NEW do, NEW x, NEW ses, NEW ws, Controlled(q, do, x, ses, ws), IsSeq(x),
           do.step = "destroy", NEW m, m.type = "gone" => m.workspace = do.workspace,
           m.type # "switched"
    PROVE  Controlled(q, Idle, x \o <<m>>, ses, ws)
<1>. DEFINE u == x \o <<m>>
<1>1. NoTell(x) /\ NoMove(q) /\ OneMove(q) /\ Settled(q, do, x, ses, ws)
  BY DEF Controlled, OneAtATime, Sane, Moving
<1>2. /\ Len(u) = Len(x) + 1 /\ u[Len(x) + 1] = m /\ Len(x) \in Nat
      /\ \A i \in 1..Len(x) : u[i] = x[i]
  BY SeqCatOne, SeqShape
<1>. HIDE DEF u
<1>3. \A i \in 1..Len(u) : Tell(u[i]) => i = Len(x) + 1 /\ u[i] = m
  BY <1>1, <1>2 DEF NoTell
<1>4. ~Moving(Idle) /\ Idle.step = "idle"
  BY DEF Moving, Idle
<1>5. OneAtATime(q, Idle, u) /\ Sane(Idle)
  BY <1>1, <1>3, <1>4 DEF OneAtATime, OneTell, Sane
<1>6. ASSUME NEW w \in Held, ses = SessionAt(w)
      PROVE  Placed(w, ws, u) /\ ~Closing(w, Idle, u) /\ ~Wanted(w, q)
  <2>1. Placed(w, ws, x) /\ ~Closing(w, do, x) /\ ~Wanted(w, q)
    BY <1>1, <1>6 DEF Settled
  <2>2. Placed(w, ws, u)
    BY <1>1, <1>3, <2>1 DEF Placed, Tell, NoTell
  <2>3. ~Closing(w, Idle, u)
    BY <1>3, <1>4, <2>1 DEF Closing, Tell
  <2>. QED BY <2>1, <2>2, <2>3
<1>. QED BY <1>5, <1>6 DEF Controlled, Settled, u

\* The window shows the workspace that m tells of.
LEMMA SwitchedControlled ==
    ASSUME NEW q, NEW do, NEW x, NEW ses, NEW ws, Controlled(q, do, x, ses, ws),
           IsSeq(x), x # <<>>, Head(x).type = "switched", NEW r, IsSeq(q), IsSeq(r), NoMove(r)
    PROVE  Controlled(q \o r, do, Tail(x), ses, Head(x).workspace)
<1>. DEFINE m == Head(x)
            u == Tail(x)
            p == q \o r
<1>1. 1 \in 1..Len(x) /\ m = x[1]
  BY SeqTail
<1>2. Tell(m) /\ ~NoTell(x)
  BY <1>1 DEF Tell, NoTell
<1>3. OneMove(q) /\ OneTell(x) /\ NoMove(q) /\ ~Moving(do) /\ Settled(q, do, x, ses, ws) /\ Sane(do)
  BY <1>2 DEF Controlled, OneAtATime
<1>4. NoTell(u)
  BY <1>2, <1>3, TellsTail
<1>5. OneMove(p) /\ NoMove(p)
  <2>1. FewerMoves(q, p)
    BY MovesCat
  <2>. QED BY <1>3, <2>1 DEF FewerMoves, NoMove
<1>. HIDE DEF m, u, p
<1>6. OneAtATime(p, do, u)
  BY <1>3, <1>4, <1>5 DEF OneAtATime, OneTell, NoTell
<1>7. ASSUME NEW w \in Held, ses = SessionAt(w)
      PROVE  Placed(w, m.workspace, u) /\ ~Closing(w, do, u) /\ ~Wanted(w, p)
  <2>1. Placed(w, ws, x)
    BY <1>3, <1>7 DEF Settled
  <2>2. m.workspace = w
    BY <1>1, <2>1 DEF Placed, m
  <2>3. Placed(w, m.workspace, u)
    BY <1>4, <2>2 DEF Placed, NoTell, Tell
  <2>4. ~Closing(w, do, u)
    BY <1>3, <1>4 DEF Closing, NoTell, Tell, Moving
  <2>5. ~Wanted(w, p)
    BY <1>5 DEF Wanted, NoMove, Move
  <2>. QED BY <2>3, <2>4, <2>5
<1>. QED BY <1>3, <1>6, <1>7 DEF Controlled, Settled, m, u, p

\* Its own workspace has gone: it shows none, and may ask for any.
LEMMA GoneControlled ==
    ASSUME NEW q, NEW do, NEW x, NEW ses, NEW ws, Controlled(q, do, x, ses, ws),
           IsSeq(q), IsSeq(x), x # <<>>, Head(x).type = "gone", Head(x).workspace = ws,
           NEW r, NEW e, NEW to, IsSeq(r), NoMove(r)
    PROVE  Controlled(q \o (r \o <<e>>), do, Tail(x), ses, to)
<1>. DEFINE m == Head(x)
            u == Tail(x)
            p == q \o (r \o <<e>>)
<1>1. 1 \in 1..Len(x) /\ m = x[1]
  BY SeqTail
<1>2. Tell(m) /\ ~NoTell(x)
  BY <1>1 DEF Tell, NoTell
<1>3. OneMove(q) /\ OneTell(x) /\ NoMove(q) /\ ~Moving(do) /\ Settled(q, do, x, ses, ws) /\ Sane(do)
  BY <1>2 DEF Controlled, OneAtATime
<1>4. NoTell(u)
  BY <1>2, <1>3, TellsTail
<1>5. OneMove(p)
  BY <1>3, MovesOne DEF OnlyMove
<1>. HIDE DEF m, u, p
<1>6. OneAtATime(p, do, u)
  BY <1>3, <1>4, <1>5 DEF OneAtATime, OneTell, NoTell
<1>7. ASSUME NEW w \in Held, ses = SessionAt(w) PROVE FALSE
  <2>1. Placed(w, ws, x) /\ ~Closing(w, do, x)
    BY <1>3, <1>7 DEF Settled
  <2>2. \A i \in 1..Len(x) : x[i].type # "switched"
    BY <1>1, <1>2, <1>3 DEF OneTell, Tell, m
  <2>3. w = ws
    BY <2>1, <2>2 DEF Placed
  <2>. QED BY <1>1, <2>1, <2>3 DEF Closing, m
<1>. QED BY <1>3, <1>6, <1>7 DEF Controlled, Settled, u, p

\* The user asks for a move, when none is under way.
LEMMA AskControlled ==
    ASSUME NEW q, NEW do, NEW x, NEW ses, NEW ws, Controlled(q, do, x, ses, ws),
           NoMove(q), ~Moving(do), NoTell(x), IsSeq(q),
           NEW r, NEW e, IsSeq(r), NoMove(r), e.op = "switch" => e.workspace # ws
    PROVE  Controlled(q \o (r \o <<e>>), do, x, ses, ws)
<1>. DEFINE p == q \o (r \o <<e>>)
<1>0. OnlyMove(p, e)
  BY MovesOne
<1>. HIDE DEF p
<1>1. OneMove(p) /\ \A i \in 1..Len(p) : Move(p[i]) => p[i] = e
  BY <1>0 DEF OnlyMove
<1>2. OneTell(x) /\ Settled(q, do, x, ses, ws) /\ Sane(do)
  BY DEF Controlled, OneAtATime
<1>3. OneAtATime(p, do, x)
  BY <1>1, <1>2 DEF OneAtATime
<1>4. ASSUME NEW w \in Held, ses = SessionAt(w)
      PROVE  Placed(w, ws, x) /\ ~Closing(w, do, x) /\ ~Wanted(w, p)
  <2>1. Placed(w, ws, x) /\ ~Closing(w, do, x)
    BY <1>2, <1>4 DEF Settled
  <2>2. w = ws
    BY <2>1 DEF Placed, NoTell, Tell
  <2>3. ~Wanted(w, p)
    BY <1>1, <2>2 DEF Wanted, Move
  <2>. QED BY <2>1, <2>3
<1>. QED BY <1>2, <1>3, <1>4 DEF Controlled, Settled, p

-----------------------------------------------------------------------------
(* The stream to a window with panels b, when its socket is k, S are the   *)
(* sessions, P says what has been printed and I what has been issued.      *)

\* To k it is all the same: terminals come and go, and nobody else makes k a subscriber.
Benign(k, S, P, I, T, Q, J) ==
    /\ I \subseteq J
    /\ \A s \in DOMAIN T : \A p \in T[s].terminals :
          \/ p \notin I
          \/ /\ s \in DOMAIN S /\ p \in S[s].terminals
             /\ T[s].subscriber = k => S[s].subscriber = k /\ Q[p] = P[p]

\* The queue has no data that was not there.
QueueKept(y, v) == \A i \in 1..Len(v) : v[i].type = "data" => \E j \in 1..Len(y) : y[j] = v[i]

LEMMA QueueShown ==
    ASSUME NEW b, NEW x, NEW y, NEW I, IsSeq(x), IsSeq(y), ShownIssued(b, x, y, I),
           NEW i \in 1..Len(y), NEW p, Feeds(y[i], p)
    PROVE  p \in I
<1>1. Stream(b, x, y)[Len(x) + i] = y[i]
  BY StreamShape
<1>2. Len(x) + i \in 0..Size(x, y)
  BY SeqShape DEF Size
<1>. QED BY <1>1, <1>2 DEF ShownIssued, Shows

LEMMA FlowOn ==
    ASSUME NEW b, NEW x, NEW y, NEW k, NEW do, NEW S, NEW P, NEW I, IsSeq(x), IsSeq(y),
           Flow(b, x, y, k, do, S, P, I),
           NEW c, NEW u, NEW v, NEW to, NEW T, NEW Q, NEW J, IsSeq(u), IsSeq(v),
           Follows(b, x, y, c, u, v), Clean(c, u, v), Benign(k, S, P, I, T, Q, J),
           QueueKept(y, v), \A s : Heading(to, s) => Heading(do, s)
    PROVE  Flow(c, u, v, k, to, T, Q, J)
<1>. DEFINE V == Stream(b, x, y)
            W == Stream(c, u, v)
            n == Size(x, y)
            m == Size(u, v)
<1>1. /\ \A p : Sound(V, n, p) => Sound(W, m, p)
      /\ \A p, t : Joined(V, p, n + 1, t) => Joined(W, p, m + 1, t)
      /\ \A p : \A i \in 0..m : Shows(W[i], p) => \E j \in 0..n : Shows(V[j], p)
  BY DEF Follows
<1>2. /\ \A p : Sound(V, n, p)
      /\ \A i \in 0..n : \A p : Shows(V[i], p) => p \in I \cap Terminals
      /\ \A s \in DOMAIN S : S[s].subscriber = k =>
            \A p \in S[s].terminals : Joined(V, p, n + 1, P[p] + 1)
  BY DEF Flow, ShownIssued, Reached
<1>3. \A p : Sound(W, m, p)
  BY <1>1, <1>2
<1>4. \A i \in 0..m : \A p : Shows(W[i], p) => p \in I \cap Terminals
  BY <1>1, <1>2
<1>5. ASSUME NEW s \in DOMAIN T, T[s].subscriber = k, NEW p \in T[s].terminals
      PROVE  Joined(W, p, m + 1, Q[p] + 1)
  <2>1. CASE p \notin I
    <3>1. m \in Nat
      BY SeqShape DEF Size
    <3>2. \A i \in 0..m : ~Shows(W[i], p)
      BY <1>4, <2>1
    <3>. HIDE DEF m, W
    <3>. QED BY <3>1, <3>2 DEF Joined
  <2>2. CASE p \in I
    <3>1. s \in DOMAIN S /\ p \in S[s].terminals /\ S[s].subscriber = k /\ Q[p] = P[p]
      BY <1>5, <2>2 DEF Benign
    <3>2. Joined(V, p, n + 1, Q[p] + 1)
      BY <1>2, <3>1
    <3>. QED BY <1>1, <3>2
  <2>. QED BY <2>1, <2>2
<1>6. ASSUME NEW s \in DOMAIN T, Heading(to, s), NEW p \in T[s].terminals,
             NEW i \in 1..Len(v), Feeds(v[i], p)
      PROVE  FALSE
  <2>1. PICK j \in 1..Len(y) : y[j] = v[i]
    BY <1>6 DEF QueueKept, Feeds
  <2>2. p \in I
    BY <1>6, <2>1, QueueShown DEF Flow
  <2>3. s \in DOMAIN S /\ p \in S[s].terminals
    BY <1>6, <2>2 DEF Benign
  <2>. QED BY <1>6, <2>1, <2>3 DEF Flow, Unmixed
<1>7. I \subseteq J
  BY DEF Benign
<1>8. Reached(c, u, v, k, T, Q) /\ ShownIssued(c, u, v, J) /\ Unmixed(to, v, T)
  BY <1>4, <1>5, <1>6, <1>7 DEF Reached, ShownIssued, Unmixed
<1>. QED BY <1>3, <1>8 DEF Flow

LEMMA SameFollows ==
    ASSUME NEW b, NEW x, NEW y
    PROVE  Follows(b, x, y, b, x, y)
  BY DEF Follows

LEMMA EmptyCat ==
    ASSUME NEW x, IsSeq(x)
    PROVE  x \o <<>> = x
  BY DEF IsSeq

\* What is said at the end of the wire, and of the queue, is about no panel.
LEMMA FlowReply ==
    ASSUME NEW b, NEW x, NEW y, NEW k, NEW do, NEW S, NEW P, NEW I, IsSeq(x), IsSeq(y),
           Flow(b, x, y, k, do, S, P, I),
           NEW g, NEW h, NEW to, NEW T, NEW Q, NEW J, IsSeq(g), IsSeq(h),
           \A i \in 1..Len(g) : g[i].type \in {"error", "gone"},
           \A i \in 1..Len(h) : h[i].type = "closed",
           Benign(k, S, P, I, T, Q, J), \A s : Heading(to, s) => Heading(do, s)
    PROVE  Flow(b, x \o g, y \o h, k, to, T, Q, J)
<1>. DEFINE u == x \o g
            v == y \o h
<1>1. /\ IsSeq(u) /\ Len(u) = Len(x) + Len(g) /\ Len(x) \in Nat /\ Len(g) \in Nat
      /\ \A i \in 1..Len(x) : u[i] = x[i]
      /\ \A i \in 1..Len(g) : u[Len(x) + i] = g[i]
  BY SeqCat, SeqShape
<1>2. /\ IsSeq(v) /\ Len(v) = Len(y) + Len(h) /\ Len(y) \in Nat /\ Len(h) \in Nat
      /\ \A i \in 1..Len(y) : v[i] = y[i]
      /\ \A i \in 1..Len(h) : v[Len(y) + i] = h[i]
  BY SeqCat, SeqShape
<1>3. Follows(b, x, y, b, u, v)
  <2>1. \A p : Aside(g, p) /\ Aside(h, p)
    BY DEF Aside, Touches, Shows, Adds, Feeds
  <2>. QED BY <2>1, SpreadFollows DEF Follows
<1>. HIDE DEF u, v
<1>4. \A i \in 1..Len(u) : i \in 1..Len(x) \/ (i - Len(x) \in 1..Len(g) /\ u[i] = g[i - Len(x)])
  <2>. TAKE i \in 1..Len(u)
  <2>. DEFINE d == i - Len(x)
  <2>1. CASE i > Len(x)
    <3>1. d \in 1..Len(g) /\ i = Len(x) + d
      BY <1>1, <2>1
    <3>. HIDE DEF d
    <3>2. u[i] = g[d]
      BY <1>1, <3>1
    <3>. QED BY <3>1, <3>2 DEF d
  <2>. QED BY <1>1, <2>1
<1>5. \A i \in 1..Len(v) : i \in 1..Len(y) \/ (i - Len(y) \in 1..Len(h) /\ v[i] = h[i - Len(y)])
  <2>. TAKE i \in 1..Len(v)
  <2>. DEFINE d == i - Len(y)
  <2>1. CASE i > Len(y)
    <3>1. d \in 1..Len(h) /\ i = Len(y) + d
      BY <1>2, <2>1
    <3>. HIDE DEF d
    <3>2. v[i] = h[d]
      BY <1>2, <3>1
    <3>. QED BY <3>1, <3>2 DEF d
  <2>. QED BY <1>2, <2>1
<1>6. Clean(b, u, v)
  <2>0. Clean(b, x, y)
    BY DEF Flow
  <2>1. \A i \in 1..Len(u) : Fine(u[i])
    BY <1>1, <1>4, <2>0 DEF Clean, Fine
  <2>2. \A i \in 1..Len(v) : Fine(v[i]) /\ v[i].type \in {"data", "closed"}
    BY <1>2, <1>5, <2>0 DEF Clean, Fine
  <2>. QED BY <2>0, <2>1, <2>2 DEF Clean
<1>7. QueueKept(y, v)
  BY <1>2, <1>5 DEF QueueKept
<1>8. Flow(b, u, v, k, to, T, Q, J)
  BY <1>1, <1>2, <1>3, <1>6, <1>7, FlowOn
<1>. QED BY <1>8 DEF u, v

\* The window receives what is first on the wire, and has panels c then.
LEMMA FlowPop ==
    ASSUME NEW b, NEW x, NEW y, NEW k, NEW do, NEW S, NEW P, NEW I, IsSeq(x), IsSeq(y),
           Flow(b, x, y, k, do, S, P, I), x # <<>>,
           NEW c, \A p : Takes(b, c, Head(x), p),
           \A p \in DOMAIN c : Len(c[p]) \in Nat /\ c[p] = [i \in 1..Len(c[p]) |-> i]
    PROVE  Flow(c, Tail(x), y, k, do, S, P, I)
<1>1. /\ IsSeq(Tail(x)) /\ Len(Tail(x)) = Len(x) - 1 /\ Len(x) \in Nat \ {0}
      /\ \A i \in 1..(Len(x) - 1) : Tail(x)[i] = x[i + 1]
  BY SeqTail
<1>2. Follows(b, x, y, c, Tail(x), y)
  BY PopFollows
<1>3. Clean(c, Tail(x), y)
  BY <1>1 DEF Flow, Clean
<1>4. Benign(k, S, P, I, S, P, I) /\ QueueKept(y, y)
  BY DEF Benign, QueueKept
<1>. QED BY <1>1, <1>2, <1>3, <1>4, FlowOn

LEMMA FlowFewer ==
    ASSUME NEW b, NEW x, NEW y, NEW k, NEW do, NEW S, NEW P, NEW I, IsSeq(x), IsSeq(y),
           Flow(b, x, y, k, do, S, P, I),
           NEW c, DOMAIN c \subseteq DOMAIN b, \A p \in DOMAIN c : c[p] = b[p]
    PROVE  Flow(c, x, y, k, do, S, P, I)
<1>1. Follows(b, x, y, c, x, y)
  BY FewerFollows
<1>2. Clean(c, x, y)
  BY DEF Flow, Clean
<1>3. Benign(k, S, P, I, S, P, I) /\ QueueKept(y, y)
  BY DEF Benign, QueueKept
<1>. QED BY <1>1, <1>2, <1>3, FlowOn

LEMMA FlowDrain ==
    ASSUME NEW b, NEW x, NEW y, NEW k, NEW do, NEW S, NEW P, NEW I, IsSeq(x), IsSeq(y),
           Flow(b, x, y, k, do, S, P, I), y # <<>>
    PROVE  Flow(b, x \o <<Head(y)>>, Tail(y), k, do, S, P, I)
<1>. DEFINE u == x \o <<Head(y)>>
            v == Tail(y)
<1>1. /\ IsSeq(v) /\ Len(v) = Len(y) - 1 /\ Len(y) \in Nat \ {0} /\ Head(y) = y[1]
      /\ \A i \in 1..(Len(y) - 1) : v[i] = y[i + 1]
  BY SeqTail
<1>2. /\ IsSeq(u) /\ Len(u) = Len(x) + 1 /\ Len(x) \in Nat /\ u[Len(x) + 1] = Head(y)
      /\ \A i \in 1..Len(x) : u[i] = x[i]
  BY SeqCatOne, SeqShape
<1>3. Follows(b, x, y, b, u, v)
  BY DrainFollows
<1>. HIDE DEF u, v
<1>4. \A i \in 1..Len(v) : i + 1 \in 1..Len(y) /\ v[i] = y[i + 1]
  BY <1>1
<1>5. \A i \in 1..Len(u) : i \in 1..Len(x) \/ u[i] = y[1]
  BY <1>1, <1>2
<1>6. Clean(b, u, v)
  <2>0. Clean(b, x, y) /\ 1 \in 1..Len(y)
    BY <1>1 DEF Flow
  <2>1. \A i \in 1..Len(u) : Fine(u[i])
    BY <1>2, <1>5, <2>0 DEF Clean
  <2>2. \A i \in 1..Len(v) : Fine(v[i]) /\ v[i].type \in {"data", "closed"}
    BY <1>4, <2>0 DEF Clean
  <2>. QED BY <2>0, <2>1, <2>2 DEF Clean
<1>7. QueueKept(y, v) /\ Benign(k, S, P, I, S, P, I)
  BY <1>4 DEF QueueKept, Benign
<1>8. Flow(b, u, v, k, do, S, P, I)
  BY <1>1, <1>2, <1>3, <1>6, <1>7, FlowOn
<1>. QED BY <1>8 DEF u, v

LEMMA AppendIsCat ==
    ASSUME NEW x, NEW e, IsSeq(x)
    PROVE  Append(x, e) = x \o <<e>>
<1>. PICK S : x \in Seq(S)
  BY DEF IsSeq
<1>. DEFINE U == S \cup {e}
<1>1. x \in Seq(U) /\ e \in U
  OBVIOUS
<1>. HIDE DEF U
<1>2. Append(x, e) \in Seq(U) /\ x \o <<e>> \in Seq(U)
      /\ Len(Append(x, e)) = Len(x) + 1 /\ Len(x \o <<e>>) = Len(x) + 1
  BY <1>1
<1>3. \A i \in 1..(Len(x) + 1) : Append(x, e)[i] = (x \o <<e>>)[i]
  BY <1>1
<1>. QED BY <1>2, <1>3, SeqEqual

\* Terminal p of the session that k subscribes to prints.
LEMMA FlowPrint ==
    ASSUME NEW b, NEW x, NEW y, NEW k, NEW do, NEW S, NEW P, NEW I, IsSeq(x), IsSeq(y),
           Flow(b, x, y, k, do, S, P, I),
           NEW s0 \in DOMAIN S, NEW p \in S[s0].terminals, S[s0].subscriber = k,
           \A s \in DOMAIN S : p \in S[s].terminals => s = s0, ~Heading(do, s0),
           p \in DOMAIN P, P[p] \in Nat, p \in I \cap Terminals
    PROVE  Flow(b, x, Append(y, Printed(p, <<P[p] + 1>>)), k, do, S, [P EXCEPT ![p] = @ + 1], I)
<1>. DEFINE t == P[p]
            m == Printed(p, <<t + 1>>)
            v == Append(y, m)
            Q == [P EXCEPT ![p] = @ + 1]
            V == Stream(b, x, y)
            W == Stream(b, x, v)
            n == Size(x, y)
            l == Size(x, v)
<1>1. /\ m.type = "data" /\ m.terminal = p /\ Run(m.chunks)
  <2>1. <<t + 1>> = [i \in 1..1 |-> t + i] /\ 1 \in Nat \ {0}
    OBVIOUS
  <2>2. Run(<<t + 1>>)
    BY <2>1 DEF Run
  <2>. QED BY <2>2 DEF Printed
<1>2. \A q : Feeds(m, q) <=> q = p
  BY <1>1 DEF Feeds
<1>3. Q[p] = t + 1 /\ \A q : q # p => Q[q] = P[q]
  OBVIOUS
<1>4. Sound(W, l, p) /\ Joined(W, p, l + 1, t + 2)
  <2>1. Sound(V, n, p) /\ Joined(V, p, n + 1, t + 1)
    BY DEF Flow, Reached
  <2>. QED BY <2>1, PrintFollows
<1>. HIDE DEF t, m, Q
<1>5. ASSUME NEW q, q # p
      PROVE  /\ Sound(V, n, q) => Sound(W, l, q)
             /\ \A a : Joined(V, q, n + 1, a) => Joined(W, q, l + 1, a)
             /\ \A i \in 0..l : Shows(W[i], q) => \E j \in 0..n : Shows(V[j], q)
  <2>. DEFINE g == <<>>
              h == <<m>>
  <2>1. IsSeq(g) /\ IsSeq(h) /\ Aside(g, q) /\ Aside(h, q)
    <3>1. ~Touches(m, q) /\ ~Shows(m, q)
      BY <1>1, <1>2, <1>5 DEF Touches, Shows, Adds
    <3>. QED BY <3>1, ShortSeqs DEF Aside
  <2>2. x \o g = x /\ y \o h = v
    BY EmptyCat, AppendIsCat
  <2>. HIDE DEF g, h, v
  <2>3. LET A == Stream(b, x \o g, y \o h)
            d == Size(x \o g, y \o h)
        IN  /\ Sound(V, n, q) => Sound(A, d, q)
            /\ \A a : Joined(V, q, n + 1, a) => Joined(A, q, d + 1, a)
            /\ \A i \in 0..d : Shows(A[i], q) => \E j \in 0..n : Shows(V[j], q)
    BY <2>1, SpreadFollows
  <2>. HIDE DEF V, n
  <2>. QED BY <2>2, <2>3
<1>6. /\ IsSeq(v) /\ Len(v) = Len(y) + 1 /\ Len(y) \in Nat
      /\ v[Len(y) + 1] = m /\ \A i \in 1..Len(y) : v[i] = y[i]
  BY SeqAppend, SeqShape
<1>. HIDE DEF v
<1>7. Clean(b, x, v)
  <2>1. \A i \in 1..Len(v) : i \in 1..Len(y) \/ v[i] = m
    BY <1>6
  <2>. QED BY <1>1, <1>6, <2>1 DEF Flow, Clean, Fine
<1>8. \A q : Sound(W, l, q)
  BY <1>4, <1>5 DEF Flow
<1>9. Reached(b, x, v, k, S, Q)
  <2>. SUFFICES ASSUME NEW s \in DOMAIN S, S[s].subscriber = k, NEW q \in S[s].terminals
                PROVE  Joined(W, q, l + 1, Q[q] + 1)
    BY DEF Reached
  <2>1. CASE q = p
    <3>1. t + 2 = Q[p] + 1
      BY <1>3 DEF t
    <3>. QED BY <1>4, <2>1, <3>1
  <2>2. CASE q # p
    <3>1. Joined(V, q, n + 1, Q[q] + 1)
      BY <1>3, <2>2 DEF Flow, Reached
    <3>. QED BY <1>5, <2>2, <3>1
  <2>. QED BY <2>1, <2>2
<1>10. ShownIssued(b, x, v, I)
  <2>. SUFFICES ASSUME NEW i \in 0..l, NEW q, Shows(W[i], q) PROVE q \in I \cap Terminals
    BY DEF ShownIssued
  <2>. QED BY <1>5 DEF Flow, ShownIssued
<1>11. Unmixed(do, v, S)
  <2>. SUFFICES ASSUME NEW s \in DOMAIN S, Heading(do, s), NEW q \in S[s].terminals,
                       NEW i \in 1..Len(v), Feeds(v[i], q)
                PROVE  FALSE
    BY DEF Unmixed
  <2>1. i \in 1..Len(y) \/ v[i] = m
    BY <1>6
  <2>. QED BY <1>2, <1>6, <2>1 DEF Flow, Unmixed
<1>12. Flow(b, x, v, k, do, S, Q, I)
  BY <1>7, <1>8, <1>9, <1>10, <1>11 DEF Flow
<1>. QED BY <1>12 DEF v, m, t, Q

\* A terminal is opened for k, when the queue is empty.
LEMMA FlowOpened ==
    ASSUME NEW b, NEW x, NEW k, NEW do, NEW S, NEW P, NEW I, IsSeq(x),
           Flow(b, x, <<>>, k, do, S, P, I),
           NEW m, NEW p \in Terminals, m.type = "opened", m.terminal = p, p \notin I, P[p] = 0,
           NEW to, NEW T, NEW J, Benign(k, S, P, I, T, P, J), p \in J
    PROVE  Flow(b, x \o <<m>>, <<>>, k, to, T, P, J)
<1>. DEFINE y == <<>>
            u == x \o <<m>>
            V == Stream(b, x, y)
            W == Stream(b, u, y)
            n == Size(x, y)
            l == Size(u, y)
<1>1. IsSeq(y) /\ Len(y) = 0
  BY ShortSeqs
<1>2. /\ Clean(b, x, y) /\ \A q : Sound(V, n, q)
      /\ Reached(b, x, y, k, S, P) /\ ShownIssued(b, x, y, I)
  BY DEF Flow
<1>3. Sound(W, l, p) /\ Joined(W, p, l + 1, 1)
  <2>1. Sound(V, n, p) /\ \A i \in 0..n : ~Shows(V[i], p)
    BY <1>2 DEF ShownIssued
  <2>. QED BY <2>1, OpenedFollows
<1>. HIDE DEF y
<1>4. ASSUME NEW q, q # p
      PROVE  /\ Sound(V, n, q) => Sound(W, l, q)
             /\ \A a : Joined(V, q, n + 1, a) => Joined(W, q, l + 1, a)
             /\ \A i \in 0..l : Shows(W[i], q) => \E j \in 0..n : Shows(V[j], q)
  <2>. DEFINE g == <<m>>
              h == <<>>
  <2>1. IsSeq(g) /\ IsSeq(h) /\ Aside(g, q) /\ Aside(h, q)
    <3>1. ~Touches(m, q) /\ ~Shows(m, q)
      BY <1>4 DEF Touches, Shows, Adds, Feeds
    <3>. QED BY <3>1, ShortSeqs DEF Aside
  <2>2. x \o g = u /\ y \o h = y
    BY <1>1, EmptyCat
  <2>. HIDE DEF g, h, u
  <2>3. LET A == Stream(b, x \o g, y \o h)
            d == Size(x \o g, y \o h)
        IN  /\ Sound(V, n, q) => Sound(A, d, q)
            /\ \A a : Joined(V, q, n + 1, a) => Joined(A, q, d + 1, a)
            /\ \A i \in 0..d : Shows(A[i], q) => \E j \in 0..n : Shows(V[j], q)
    BY <1>1, <2>1, SpreadFollows
  <2>. HIDE DEF V, n
  <2>. QED BY <2>2, <2>3
<1>5. /\ IsSeq(u) /\ Len(u) = Len(x) + 1 /\ Len(x) \in Nat
      /\ u[Len(x) + 1] = m /\ \A i \in 1..Len(x) : u[i] = x[i]
  BY SeqCatOne, SeqShape
<1>. HIDE DEF u
<1>6. Clean(b, u, y)
  <2>1. \A i \in 1..Len(u) : i \in 1..Len(x) \/ u[i] = m
    BY <1>5
  <2>. QED BY <1>1, <1>2, <1>5, <2>1 DEF Clean, Fine
<1>7. \A q : Sound(W, l, q)
  BY <1>2, <1>3, <1>4
<1>8. Reached(b, u, y, k, T, P)
  <2>. SUFFICES ASSUME NEW s \in DOMAIN T, T[s].subscriber = k, NEW q \in T[s].terminals
                PROVE  Joined(W, q, l + 1, P[q] + 1)
    BY DEF Reached
  <2>1. CASE q = p
    BY <1>3, <2>1
  <2>2. CASE q # p /\ q \notin I
    <3>1. \A i \in 0..l : ~Shows(W[i], q)
      BY <1>2, <1>4, <2>2 DEF ShownIssued
    <3>2. l \in Nat
      BY <1>1, <1>5 DEF Size
    <3>. HIDE DEF l, W
    <3>. QED BY <3>1, <3>2 DEF Joined
  <2>3. CASE q # p /\ q \in I
    <3>1. s \in DOMAIN S /\ q \in S[s].terminals /\ S[s].subscriber = k
      BY <2>3 DEF Benign
    <3>2. Joined(V, q, n + 1, P[q] + 1)
      BY <1>2, <3>1 DEF Reached
    <3>. QED BY <1>4, <2>3, <3>2
  <2>. QED BY <2>1, <2>2, <2>3
<1>9. ShownIssued(b, u, y, J)
  <2>. SUFFICES ASSUME NEW i \in 0..l, NEW q, Shows(W[i], q) PROVE q \in J \cap Terminals
    BY DEF ShownIssued
  <2>. QED BY <1>2, <1>4 DEF ShownIssued, Benign
<1>10. Unmixed(to, y, T)
  BY <1>1 DEF Unmixed
<1>11. Flow(b, u, y, k, to, T, P, J)
  BY <1>6, <1>7, <1>8, <1>9, <1>10 DEF Flow
<1>. QED BY <1>11 DEF u, y

\* k attaches to s, and is told what its terminals have printed.
LEMMA FlowAttach ==
    ASSUME NEW b, NEW x, NEW y, NEW k, NEW do, NEW S, NEW P, NEW I, IsSeq(x), IsSeq(y),
           Flow(b, x, y, k, do, S, P, I),
           NEW s0 \in DOMAIN S, Heading(do, s0), NEW m, m.type = "switched",
           m.terminals = S[s0].terminals, S[s0].terminals \subseteq I \cap Terminals,
           \A p \in S[s0].terminals : P[p] \in Nat,
           NEW r, IsSeq(r), Repeats(m, r, P),
           NEW to, \A s : ~Heading(to, s), NEW T, DOMAIN T = DOMAIN S,
           T[s0].terminals = S[s0].terminals, \A s \in DOMAIN T : T[s].subscriber = k => s = s0
    PROVE  Flow(b, x \o (<<m>> \o r), y, k, to, T, P, I)
<1>. DEFINE z == <<m>> \o r
            u == x \o z
            V == Stream(b, x, y)
            W == Stream(b, u, y)
            n == Size(x, y)
            l == Size(u, y)
<1>2. /\ Clean(b, x, y) /\ (\A q : Sound(V, n, q)) /\ ShownIssued(b, x, y, I)
      /\ \A p \in m.terminals : \A i \in 1..Len(y) : ~Feeds(y[i], p)
  BY DEF Flow, Unmixed
<1>3. ASSUME NEW p
      PROVE  /\ Sound(W, l, p)
             /\ p \in m.terminals => Joined(W, p, l + 1, P[p] + 1)
             /\ \A i \in 0..l : Shows(W[i], p) =>
                   p \in m.terminals \/ \E j \in 0..n : Shows(V[j], p)
  <2>1. /\ \A q \in m.terminals : P[q] \in Nat
        /\ \A i \in 1..Len(y) : y[i].type \in {"data", "closed"}
        /\ p \in m.terminals => \A i \in 1..Len(y) : ~Feeds(y[i], p)
        /\ Sound(V, n, p)
    BY <1>2 DEF Clean
  <2>. QED BY <2>1, AttachFollows
<1>4. /\ IsSeq(z) /\ Len(z) = Len(r) + 1 /\ z[1] = m /\ Len(r) \in Nat
      /\ \A i \in 1..Len(r) : z[1 + i] = r[i]
  BY SeqCons, SeqShape
<1>. HIDE DEF z
<1>5. /\ IsSeq(u) /\ Len(u) = Len(x) + Len(z) /\ Len(x) \in Nat
      /\ \A i \in 1..Len(x) : u[i] = x[i]
      /\ \A i \in 1..Len(z) : u[Len(x) + i] = z[i]
  <2>1. IsSeq(z)
    BY <1>4
  <2>. QED BY <2>1, SeqCat, SeqShape
<1>. HIDE DEF u
<1>6. Clean(b, u, y)
  <2>1. Fine(m)
    BY DEF Fine
  <2>2. \A i \in 1..Len(r) : Fine(r[i])
    <3>. TAKE i \in 1..Len(r)
    <3>1. PICK q \in m.terminals : P[q] \in Nat \ {0} /\ r[i] = Whole(q, P[q])
      BY DEF Repeats
    <3>. QED BY <3>1, WholeFeeds DEF Fine
  <2>3. \A i \in 1..Len(z) : Fine(z[i])
    <3>. TAKE i \in 1..Len(z)
    <3>. DEFINE d == i - 1
    <3>1. i = 1 \/ (d \in 1..Len(r) /\ i = 1 + d)
      BY <1>4
    <3>. HIDE DEF d
    <3>. QED BY <1>4, <2>1, <2>2, <3>1
  <2>4. \A i \in 1..Len(u) : Fine(u[i])
    <3>. TAKE i \in 1..Len(u)
    <3>. DEFINE d == i - Len(x)
    <3>1. i \in 1..Len(x) \/ (d \in 1..Len(z) /\ i = Len(x) + d)
      BY <1>4, <1>5
    <3>. HIDE DEF d
    <3>2. CASE i \in 1..Len(x)
      BY <1>2, <1>5, <3>2 DEF Clean
    <3>3. CASE i \notin 1..Len(x)
      BY <1>5, <2>3, <3>1, <3>3
    <3>. QED BY <3>2, <3>3
  <2>. QED BY <1>2, <2>4 DEF Clean
<1>7. Reached(b, u, y, k, T, P)
  BY <1>3 DEF Reached
<1>8. ShownIssued(b, u, y, I)
  <2>. SUFFICES ASSUME NEW i \in 0..l, NEW q, Shows(W[i], q) PROVE q \in I \cap Terminals
    BY DEF ShownIssued
  <2>. QED BY <1>2, <1>3 DEF ShownIssued
<1>9. Unmixed(to, y, T)
  BY DEF Unmixed
<1>10. Flow(b, u, y, k, to, T, P, I)
  BY <1>3, <1>6, <1>7, <1>8, <1>9 DEF Flow
<1>. QED BY <1>10 DEF u, z

\* A window that has just come.
LEMMA FlowStart ==
    ASSUME NEW b, DOMAIN b = {}, NEW k, NEW do, NEW S, NEW P, NEW I
    PROVE  Flow(b, <<>>, <<>>, k, do, S, P, I)
<1>. DEFINE e == <<>>
            V == Stream(b, e, e)
            n == Size(e, e)
<1>1. IsSeq(e) /\ Len(e) = 0
  BY ShortSeqs
<1>. HIDE DEF e
<1>2. n = 0 /\ V[0] = Base(b)
  BY <1>1, StreamShape DEF Size
<1>. HIDE DEF V, n
<1>3. \A p : ~Shows(V[0], p)
  BY <1>2 DEF Shows, Base, Adds, Feeds
<1>4. \A p : Sound(V, n, p)
  BY <1>2 DEF Sound
<1>5. \A p, t : Joined(V, p, n + 1, t)
  BY <1>2, <1>3 DEF Joined
<1>6. Reached(b, e, e, k, S, P) /\ ShownIssued(b, e, e, I)
  BY <1>2, <1>3, <1>5 DEF Reached, ShownIssued, V, n
<1>7. Clean(b, e, e) /\ Unmixed(do, e, S)
  BY <1>1 DEF Clean, Unmixed
<1>8. Flow(b, e, e, k, do, S, P, I)
  BY <1>4, <1>6, <1>7 DEF Flow, V, n
<1>. QED BY <1>8 DEF e

-----------------------------------------------------------------------------
(* A socket so with x on its wire, and a window g that owns it.            *)

LEMMA MessagesCat ==
    ASSUME NEW x, NEW r, Messages(x), Messages(r)
    PROVE  Messages(x \o r)
<1>. DEFINE z == x \o r
<1>1. /\ IsSeq(z) /\ Len(z) = Len(x) + Len(r) /\ Len(x) \in Nat /\ Len(r) \in Nat
      /\ \A i \in 1..Len(x) : z[i] = x[i]
      /\ \A i \in 1..Len(r) : z[Len(x) + i] = r[i]
  BY SeqCat, SeqShape DEF Messages
<1>. HIDE DEF z
<1>2. ASSUME NEW i \in 1..Len(z) PROVE TypedMessage(z[i])
  <2>. DEFINE d == i - Len(x)
  <2>1. i \in 1..Len(x) \/ (d \in 1..Len(r) /\ i = Len(x) + d)
    BY <1>1
  <2>. HIDE DEF d
  <2>. QED BY <1>1, <2>1 DEF Messages
<1>. QED BY <1>1, <1>2 DEF z, Messages

LEMMA MessagesTail ==
    ASSUME NEW x, Messages(x), x # <<>>
    PROVE  Messages(Tail(x)) /\ TypedMessage(Head(x))
<1>. DEFINE z == Tail(x)
<1>1. /\ IsSeq(z) /\ Len(z) = Len(x) - 1 /\ Len(x) \in Nat \ {0} /\ Head(x) = x[1]
      /\ \A i \in 1..(Len(x) - 1) : z[i] = x[i + 1]
  BY SeqTail DEF Messages
<1>. HIDE DEF z
<1>2. 1 \in 1..Len(x) /\ \A i \in 1..Len(z) : i + 1 \in 1..Len(x) /\ z[i] = x[i + 1]
  BY <1>1
<1>. QED BY <1>1, <1>2 DEF z, Messages

LEMMA MessagesOne ==
    ASSUME NEW m, TypedMessage(m)
    PROVE  Messages(<<m>>)
<1>1. IsSeq(<<m>>) /\ Len(<<m>>) = 1 /\ <<m>>[1] = m
  BY ShortSeqs
<1>. QED BY <1>1 DEF Messages

LEMMA WantingCat ==
    ASSUME NEW x, NEW r, Wanting(x), Wanting(r)
    PROVE  Wanting(x \o r)
<1>. DEFINE z == x \o r
<1>1. /\ IsSeq(z) /\ Len(z) = Len(x) + Len(r) /\ Len(x) \in Nat /\ Len(r) \in Nat
      /\ \A i \in 1..Len(x) : z[i] = x[i]
      /\ \A i \in 1..Len(r) : z[Len(x) + i] = r[i]
  BY SeqCat, SeqShape DEF Wanting
<1>. HIDE DEF z
<1>2. ASSUME NEW i \in 1..Len(z) PROVE TypedRequest(z[i])
  <2>. DEFINE d == i - Len(x)
  <2>1. i \in 1..Len(x) \/ (d \in 1..Len(r) /\ i = Len(x) + d)
    BY <1>1
  <2>. HIDE DEF d
  <2>. QED BY <1>1, <2>1 DEF Wanting
<1>. QED BY <1>1, <1>2 DEF z, Wanting

LEMMA WantingTail ==
    ASSUME NEW x, Wanting(x), x # <<>>
    PROVE  Wanting(Tail(x)) /\ TypedRequest(Head(x))
<1>. DEFINE z == Tail(x)
<1>1. /\ IsSeq(z) /\ Len(z) = Len(x) - 1 /\ Len(x) \in Nat \ {0} /\ Head(x) = x[1]
      /\ \A i \in 1..(Len(x) - 1) : z[i] = x[i + 1]
  BY SeqTail DEF Wanting
<1>. HIDE DEF z
<1>2. 1 \in 1..Len(x) /\ \A i \in 1..Len(z) : i + 1 \in 1..Len(x) /\ z[i] = x[i + 1]
  BY <1>1
<1>. QED BY <1>1, <1>2 DEF z, Wanting

LEMMA WantingOne ==
    ASSUME NEW r, TypedRequest(r)
    PROVE  Wanting(<<r>>) /\ (Move(r) \/ NoMove(<<r>>))
<1>1. IsSeq(<<r>>) /\ Len(<<r>>) = 1 /\ <<r>>[1] = r
  BY ShortSeqs
<1>2. \A i \in 1..Len(<<r>>) : i = 1
  BY <1>1
<1>. QED BY <1>1, <1>2 DEF Wanting, NoMove

LEMMA NoMoveCat ==
    ASSUME NEW q, NEW r, IsSeq(q), IsSeq(r), NoMove(q), NoMove(r)
    PROVE  NoMove(q \o r)
<1>1. FewerMoves(q, q \o r)
  BY MovesCat
<1>. QED BY <1>1 DEF FewerMoves, NoMove

LEMMA QueuedTail ==
    ASSUME NEW y, Queued(y), y # <<>>
    PROVE  Queued(Tail(y)) /\ Head(y).type \in {"data", "closed"}
<1>. DEFINE z == Tail(y)
<1>1. /\ IsSeq(z) /\ Len(z) = Len(y) - 1 /\ Len(y) \in Nat \ {0} /\ Head(y) = y[1]
      /\ \A i \in 1..(Len(y) - 1) : z[i] = y[i + 1]
  BY SeqTail DEF Queued
<1>. HIDE DEF z
<1>2. 1 \in 1..Len(y) /\ \A i \in 1..Len(z) : i + 1 \in 1..Len(y) /\ z[i] = y[i + 1]
  BY <1>1
<1>. QED BY <1>1, <1>2 DEF z, Queued

LEMMA QueuedAppend ==
    ASSUME NEW y, Queued(y), NEW m, m.type \in {"data", "closed"}
    PROVE  Queued(Append(y, m))
<1>. DEFINE z == Append(y, m)
<1>1. /\ IsSeq(z) /\ Len(z) = Len(y) + 1 /\ Len(y) \in Nat /\ z[Len(y) + 1] = m
      /\ \A i \in 1..Len(y) : z[i] = y[i]
  BY SeqAppend, SeqShape DEF Queued
<1>. HIDE DEF z
<1>2. \A i \in 1..Len(z) : i \in 1..Len(y) \/ z[i] = m
  BY <1>1
<1>. QED BY <1>1, <1>2 DEF z, Queued

LEMMA ShortShapes ==
    /\ Messages(<<>>) /\ Wanting(<<>>) /\ Queued(<<>>) /\ NoMove(<<>>) /\ NoTell(<<>>)
    /\ OneMove(<<>>) /\ OneTell(<<>>)
<1>1. IsSeq(<<>>) /\ Len(<<>>) = 0
  BY ShortSeqs
<1>2. \A i \in 1..Len(<<>>) : FALSE
  BY <1>1
<1>. QED BY <1>1, <1>2 DEF Messages, Wanting, Queued, NoMove, NoTell, OneMove, OneTell

-----------------------------------------------------------------------------
(* What each kind of step leaves of it.                                    *)

LEMMA BenignSame ==
    ASSUME NEW k, NEW S, NEW P, NEW I
    PROVE  Benign(k, S, P, I, S, P, I)
  BY DEF Benign

LEMMA FlowSame ==
    ASSUME NEW b, NEW x, NEW y, NEW k, NEW do, NEW S, NEW P, NEW I, IsSeq(x), IsSeq(y),
           Flow(b, x, y, k, do, S, P, I),
           NEW to, NEW T, NEW Q, NEW J, Benign(k, S, P, I, T, Q, J),
           \A s : Heading(to, s) => Heading(do, s)
    PROVE  Flow(b, x, y, k, to, T, Q, J)
<1>1. Clean(b, x, y) /\ QueueKept(y, y)
  BY DEF Flow, QueueKept
<1>. QED BY <1>1, SameFollows, FlowOn

\* With nothing in the queue the socket may head for any session.
LEMMA FlowHeads ==
    ASSUME NEW b, NEW x, NEW k, NEW do, NEW S, NEW P, NEW I,
           Flow(b, x, <<>>, k, do, S, P, I), NEW to
    PROVE  Flow(b, x, <<>>, k, to, S, P, I)
<1>. DEFINE y == <<>>
<1>1. Len(y) = 0
  BY ShortSeqs
<1>. HIDE DEF y
<1>2. Flow(b, x, y, k, do, S, P, I)
  BY DEF y
<1>3. Unmixed(to, y, S)
  BY <1>1 DEF Unmixed
<1>4. Flow(b, x, y, k, to, S, P, I)
  BY <1>2, <1>3 DEF Flow
<1>. QED BY <1>4 DEF y

Quiets(to) == to.step \in {"idle", "note", "unnote"}

LEMMA QuietSteps ==
    /\ Quiets(Idle) /\ \A s, p : Quiets(Noting(s, p)) /\ Quiets(Unnoting(s, p))
    /\ \A to : Quiets(to) => TypedDoing(to) /\ \A s : ~Heading(to, s)
  BY DEF Quiets, Idle, Noting, Unnoting, TypedDoing, TypedStep, Heading

\* Nothing to do with a move: requests are taken, what is said is about no panel.
LEMMA GoodPlain ==
    ASSUME NEW g, NEW so, NEW x, NEW k, NEW S, NEW P, NEW I, Good(g, so, x, k, S, P, I),
           Neat(so, x), NEW to, FewerMoves(so.requests, to.requests),
           to.doing = so.doing \/ Quiets(to.doing),
           to.session = so.session \/ \A w \in Held : to.session # SessionAt(w),
           NEW r, IsSeq(r), \A i \in 1..Len(r) : r[i].type = "error",
           NEW h, IsSeq(h), \A i \in 1..Len(h) : h[i].type = "closed",
           to.queue = so.queue \o h,
           NEW T, NEW Q, NEW J, Benign(k, S, P, I, T, Q, J)
    PROVE  Good(g, to, x \o r, k, T, Q, J)
<1>1. IsSeq(x) /\ IsSeq(so.queue)
  BY DEF Neat, Messages, Queued
<1>2. Flow(g.panels, x \o r, so.queue \o h, k, to.doing, T, Q, J)
  <2>1. \A s : Heading(to.doing, s) => Heading(so.doing, s)
    BY QuietSteps
  <2>2. Flow(g.panels, x, so.queue, k, so.doing, S, P, I)
    BY DEF Good
  <2>3. \A i \in 1..Len(r) : r[i].type \in {"error", "gone"}
    OBVIOUS
  <2>. QED BY <1>1, <2>1, <2>2, <2>3, FlowReply
<1>3. Controlled(to.requests, to.doing, x \o r, to.session, g.workspace)
  <2>1. SameTells(x, x \o r)
    <3>1. NoTell(r)
      BY DEF NoTell, Tell
    <3>. QED BY <1>1, <3>1, TellsCat
  <2>2. Controlled(so.requests, so.doing, x, so.session, g.workspace)
    BY DEF Good
  <2>3. to.doing = so.doing \/ to.doing.step \in {"idle", "note", "unnote"}
    BY DEF Quiets
  <2>. QED BY <2>1, <2>2, <2>3, PlainControlled
<1>. QED BY <1>2, <1>3 DEF Good

\* What happens elsewhere.
LEMMA GoodElsewhere ==
    ASSUME NEW g, NEW so, NEW x, NEW k, NEW S, NEW P, NEW I, Good(g, so, x, k, S, P, I),
           Neat(so, x), NEW T, NEW Q, NEW J, Benign(k, S, P, I, T, Q, J)
    PROVE  Good(g, so, x, k, T, Q, J)
<1>1. IsSeq(x) /\ IsSeq(so.queue)
  BY DEF Neat, Messages, Queued
<1>. QED BY <1>1, FlowSame DEF Good

LEMMA GoodSwitch ==
    ASSUME NEW g, NEW so, NEW x, NEW k, NEW S, NEW P, NEW I, Good(g, so, x, k, S, P, I),
           Neat(so, x), so.queue = <<>>, so.requests # <<>>, Head(so.requests).op = "switch",
           NEW w \in Held, w = Head(so.requests).workspace, NEW tabs,
           NEW to, to.requests = Tail(so.requests), to.session = None, to.queue = so.queue,
           to.doing = Leaving(so.session, Attaching(w, SessionAt(w), tabs))
    PROVE  Good(g, to, x, k, S, P, I)
<1>1. Flow(g.panels, x, <<>>, k, to.doing, S, P, I)
  <2>1. Flow(g.panels, x, <<>>, k, so.doing, S, P, I)
    BY DEF Good
  <2>. QED BY <2>1, FlowHeads
<1>2. Controlled(to.requests, to.doing, x, None, g.workspace)
  <2>1. Controlled(so.requests, so.doing, x, so.session, g.workspace) /\ IsSeq(so.requests)
    BY DEF Good, Neat, Wanting
  <2>. QED BY <2>1, SwitchControlled
<1>. QED BY <1>1, <1>2 DEF Good

LEMMA GoodDetach ==
    ASSUME NEW g, NEW so, NEW x, NEW k, NEW S, NEW P, NEW I, Good(g, so, x, k, S, P, I),
           Neat(so, x), so.doing.step = "detach",
           NEW to, to.requests = so.requests, to.session = so.session, to.queue = so.queue,
           to.doing = so.doing.next,
           NEW T, NEW Q, NEW J, Benign(k, S, P, I, T, Q, J)
    PROVE  Good(g, to, x, k, T, Q, J)
<1>1. IsSeq(x) /\ IsSeq(so.queue)
  BY DEF Neat, Messages, Queued
<1>2. Controlled(so.requests, so.doing, x, so.session, g.workspace)
  BY DEF Good
<1>3. Controlled(so.requests, so.doing.next, x, so.session, g.workspace)
  BY <1>2, DetachControlled
<1>4. \A s : Heading(so.doing.next, s) => Heading(so.doing, s)
  BY <1>2 DEF Heading, Controlled, Sane
<1>5. Flow(g.panels, x, so.queue, k, so.doing.next, T, Q, J)
  <2>1. Flow(g.panels, x, so.queue, k, so.doing, S, P, I)
    BY DEF Good
  <2>. QED BY <1>1, <1>4, <2>1, FlowSame
<1>. QED BY <1>3, <1>5 DEF Good

LEMMA GoodAttach ==
    ASSUME NEW g, NEW so, NEW x, NEW k, NEW S, NEW P, NEW I, Good(g, so, x, k, S, P, I),
           Neat(so, x), so.doing.step = "attach", NEW s0 \in DOMAIN S, s0 = so.doing.session,
           NEW m, m.type = "switched", m.workspace = so.doing.workspace,
           m.terminals = S[s0].terminals, S[s0].terminals \subseteq I \cap Terminals,
           \A p \in S[s0].terminals : P[p] \in Nat,
           NEW r, IsSeq(r), Repeats(m, r, P),
           NEW to, to.requests = so.requests, to.session = s0, to.queue = so.queue,
           to.doing = Idle, NEW T, DOMAIN T = DOMAIN S, T[s0].terminals = S[s0].terminals,
           \A s \in DOMAIN T : T[s].subscriber = k => s = s0
    PROVE  Good(g, to, x \o (<<m>> \o r), k, T, P, I)
<1>1. IsSeq(x) /\ IsSeq(so.queue)
  BY DEF Neat, Messages, Queued
<1>2. NoTell(r)
  <2>. SUFFICES ASSUME NEW i \in 1..Len(r) PROVE r[i].type = "data"
    BY DEF NoTell, Tell
  <2>1. PICK q \in m.terminals : r[i] = Whole(q, P[q])
    BY DEF Repeats
  <2>. QED BY <2>1 DEF Whole, Printed
<1>3. Controlled(so.requests, so.doing, x, so.session, g.workspace)
      /\ Flow(g.panels, x, so.queue, k, so.doing, S, P, I)
  BY DEF Good
<1>4. Controlled(so.requests, Idle, x \o (<<m>> \o r), so.doing.session, g.workspace)
  BY <1>1, <1>2, <1>3, AttachControlled
<1>5. Flow(g.panels, x \o (<<m>> \o r), so.queue, k, Idle, T, P, I)
  <2>1. Heading(so.doing, s0) /\ \A s : ~Heading(Idle, s)
    BY QuietSteps DEF Heading
  <2>. QED BY <1>1, <1>3, <2>1, FlowAttach
<1>. QED BY <1>4, <1>5 DEF Good

LEMMA GoodClose ==
    ASSUME NEW g, NEW so, NEW x, NEW k, NEW S, NEW P, NEW I, Good(g, so, x, k, S, P, I),
           Neat(so, x), so.requests # <<>>, Head(so.requests).op = "close",
           NEW w \in Held, NEW focus,
           NEW to, to.requests = Tail(so.requests), to.queue = so.queue,
           to.session = IF so.session = SessionAt(w) THEN None ELSE so.session,
           to.doing = Detaching(SessionAt(w), Destroying(w, SessionAt(w), focus))
    PROVE  Good(g, to, x, k, S, P, I)
<1>1. IsSeq(x) /\ IsSeq(so.queue)
  BY DEF Neat, Messages, Queued
<1>2. Controlled(to.requests, to.doing, x, to.session, g.workspace)
  <2>1. Controlled(so.requests, so.doing, x, so.session, g.workspace) /\ IsSeq(so.requests)
    BY DEF Good, Neat, Wanting
  <2>. QED BY <2>1, CloseControlled
<1>3. \A s : ~Heading(to.doing, s)
  BY DEF Heading, Detaching, Destroying
<1>4. Flow(g.panels, x, so.queue, k, to.doing, S, P, I)
  <2>1. Flow(g.panels, x, so.queue, k, so.doing, S, P, I)
    BY DEF Good
  <2>. QED BY <1>1, <1>3, <2>1, BenignSame, FlowSame
<1>. QED BY <1>2, <1>4 DEF Good

LEMMA GoodDestroy ==
    ASSUME NEW g, NEW so, NEW x, NEW k, NEW S, NEW P, NEW I, Good(g, so, x, k, S, P, I),
           Neat(so, x), so.doing.step = "destroy",
           NEW m, m.type \in {"gone", "error"}, m.type = "gone" => m.workspace = so.doing.workspace,
           NEW to, to.requests = so.requests, to.session = so.session, to.queue = so.queue,
           to.doing = Idle, NEW T, NEW Q, NEW J, Benign(k, S, P, I, T, Q, J)
    PROVE  Good(g, to, x \o <<m>>, k, T, Q, J)
<1>1. IsSeq(x) /\ IsSeq(so.queue)
  BY DEF Neat, Messages, Queued
<1>2. Controlled(so.requests, so.doing, x, so.session, g.workspace)
      /\ Flow(g.panels, x, so.queue, k, so.doing, S, P, I)
  BY DEF Good
<1>3. Controlled(so.requests, Idle, x \o <<m>>, so.session, g.workspace)
  BY <1>1, <1>2, DestroyControlled
<1>4. Flow(g.panels, x \o <<m>>, so.queue \o <<>>, k, Idle, T, Q, J)
  <2>. DEFINE r == <<m>>
              h == <<>>
  <2>1. IsSeq(r) /\ IsSeq(h) /\ Len(r) = 1 /\ r[1] = m /\ Len(h) = 0
    BY ShortSeqs
  <2>. HIDE DEF r, h
  <2>2. /\ \A i \in 1..Len(r) : r[i].type \in {"error", "gone"}
        /\ \A i \in 1..Len(h) : h[i].type = "closed"
        /\ \A s : Heading(Idle, s) => Heading(so.doing, s)
    BY <2>1, QuietSteps
  <2>3. Flow(g.panels, x \o r, so.queue \o h, k, Idle, T, Q, J)
    BY <1>1, <1>2, <2>1, <2>2, FlowReply
  <2>. QED BY <2>3 DEF r, h
<1>5. so.queue \o <<>> = so.queue
  BY <1>1, EmptyCat
<1>. QED BY <1>3, <1>4, <1>5 DEF Good

LEMMA GoodOpened ==
    ASSUME NEW g, NEW so, NEW x, NEW k, NEW S, NEW P, NEW I, Good(g, so, x, k, S, P, I),
           Neat(so, x), so.queue = <<>>, so.requests # <<>>,
           NEW m, NEW p \in Terminals, m.type = "opened", m.terminal = p, p \notin I, P[p] = 0,
           NEW to, to.requests = Tail(so.requests), to.queue = so.queue, Quiets(to.doing),
           to.session = so.session \/ \A w \in Held : to.session # SessionAt(w),
           NEW T, NEW J, Benign(k, S, P, I, T, P, J), p \in J
    PROVE  Good(g, to, x \o <<m>>, k, T, P, J)
<1>1. IsSeq(x) /\ IsSeq(so.requests) /\ IsSeq(<<m>>)
  BY ShortSeqs DEF Neat, Messages, Wanting
<1>2. Controlled(so.requests, so.doing, x, so.session, g.workspace)
      /\ Flow(g.panels, x, <<>>, k, so.doing, S, P, I)
  BY DEF Good
<1>3. Controlled(to.requests, to.doing, x \o <<m>>, to.session, g.workspace)
  <2>1. NoTell(<<m>>)
    <3>1. Len(<<m>>) = 1 /\ <<m>>[1] = m
      BY ShortSeqs
    <3>. QED BY <3>1 DEF NoTell, Tell
  <2>2. SameTells(x, x \o <<m>>) /\ FewerMoves(so.requests, to.requests)
    BY <1>1, <2>1, TellsCat, MovesTail
  <2>3. to.doing.step \in {"idle", "note", "unnote"}
    BY DEF Quiets
  <2>. QED BY <1>2, <2>2, <2>3, PlainControlled
<1>4. Flow(g.panels, x \o <<m>>, <<>>, k, to.doing, T, P, J)
  BY <1>1, <1>2, FlowOpened
<1>. QED BY <1>3, <1>4 DEF Good

LEMMA GoodDrain ==
    ASSUME NEW g, NEW so, NEW x, NEW k, NEW S, NEW P, NEW I, Good(g, so, x, k, S, P, I),
           Neat(so, x), so.queue # <<>>,
           NEW to, to.requests = so.requests, to.session = so.session, to.doing = so.doing,
           to.queue = Tail(so.queue)
    PROVE  Good(g, to, x \o <<Head(so.queue)>>, k, S, P, I)
<1>. DEFINE m == Head(so.queue)
<1>1. IsSeq(x) /\ IsSeq(so.queue) /\ IsSeq(so.requests) /\ IsSeq(<<m>>)
  BY ShortSeqs DEF Neat, Messages, Queued, Wanting
<1>2. Controlled(so.requests, so.doing, x, so.session, g.workspace)
      /\ Flow(g.panels, x, so.queue, k, so.doing, S, P, I)
  BY DEF Good
<1>3. Flow(g.panels, x \o <<m>>, Tail(so.queue), k, so.doing, S, P, I)
  BY <1>1, <1>2, FlowDrain
<1>4. m.type \in {"data", "closed"}
  BY QueuedTail DEF Neat
<1>. HIDE DEF m
<1>5. NoTell(<<m>>)
  <2>1. Len(<<m>>) = 1 /\ <<m>>[1] = m
    BY ShortSeqs
  <2>. QED BY <1>4, <2>1 DEF NoTell, Tell
<1>6. SameTells(x, x \o <<m>>) /\ FewerMoves(so.requests, so.requests)
  BY <1>1, <1>5, TellsCat, MovesSame
<1>7. Controlled(so.requests, so.doing, x \o <<m>>, so.session, g.workspace)
  BY <1>2, <1>6, PlainControlled
<1>. QED BY <1>3, <1>7 DEF Good, m

LEMMA GoodPrint ==
    ASSUME NEW g, NEW so, NEW x, NEW k, NEW S, NEW P, NEW I, Good(g, so, x, k, S, P, I),
           Neat(so, x), NEW s0 \in DOMAIN S, NEW p \in S[s0].terminals, S[s0].subscriber = k,
           \A s \in DOMAIN S : p \in S[s].terminals => s = s0, ~Heading(so.doing, s0),
           p \in DOMAIN P, P[p] \in Nat, p \in I \cap Terminals,
           NEW to, to.requests = so.requests, to.session = so.session, to.doing = so.doing,
           to.queue = Append(so.queue, Printed(p, <<P[p] + 1>>))
    PROVE  Good(g, to, x, k, S, [P EXCEPT ![p] = @ + 1], I)
<1>1. IsSeq(x) /\ IsSeq(so.queue)
  BY DEF Neat, Messages, Queued
<1>2. Flow(g.panels, x, so.queue, k, so.doing, S, P, I)
  BY DEF Good
<1>3. Flow(g.panels, x, to.queue, k, so.doing, S, [P EXCEPT ![p] = @ + 1], I)
  BY <1>1, <1>2, FlowPrint
<1>. QED BY <1>3 DEF Good

-----------------------------------------------------------------------------
(* The window receives what is first on its wire.                          *)

Filled(b) == \A p \in DOMAIN b : Len(b[p]) \in Nat /\ b[p] = [i \in 1..Len(b[p]) |-> i]

LEMMA FirstSound ==
    ASSUME NEW b, NEW x, NEW y, NEW k, NEW do, NEW S, NEW P, NEW I, IsSeq(x), IsSeq(y),
           Flow(b, x, y, k, do, S, P, I), x # <<>>
    PROVE  /\ \A p \in DOMAIN b : /\ Feeds(Head(x), p) => Len(b[p]) + 1 = Head(x).chunks[1]
                                  /\ ~Adds(Head(x), p)
           /\ Filled(b) /\ Fine(Head(x))
           /\ \A p : Shows(Head(x), p) => p \in I \cap Terminals
<1>. DEFINE V == Stream(b, x, y)
            n == Size(x, y)
<1>1. Len(x) \in Nat \ {0} /\ Len(y) \in Nat /\ Head(x) = x[1] /\ 1 \in 1..Len(x)
  BY SeqTail, SeqShape
<1>2. V[0] = Base(b) /\ V[1] = Head(x) /\ 1 \in 1..n
  <2>1. V[0] = Base(b) /\ \A i \in 1..Len(x) : V[i] = x[i]
    BY StreamShape
  <2>2. 1 \in 1..n
    BY <1>1 DEF Size
  <2>. HIDE DEF V, n
  <2>. QED BY <1>1, <2>1, <2>2
<1>3. Clean(b, x, y) /\ (\A p : Sound(V, n, p)) /\ \A i \in 0..n : \A p : Shows(V[i], p) => p \in I \cap Terminals
  BY DEF Flow, ShownIssued
<1>. HIDE DEF V, n
<1>4. \A p : SoundAt(V, p, 1)
  BY <1>2, <1>3 DEF Sound
<1>5. ASSUME NEW p \in DOMAIN b
      PROVE  /\ Feeds(Head(x), p) => Len(b[p]) + 1 = Head(x).chunks[1]
             /\ ~Adds(Head(x), p)
  <2>1. Shows(V[0], p) /\ Level(V[0], p) = Len(b[p])
    BY <1>2 DEF Shows, Base, Level
  <2>2. 0 \in 0..(1 - 1) /\ \A l \in (0 + 1)..(1 - 1) : FALSE
    OBVIOUS
  <2>3. \A t : Joined(V, p, 1, t) => Level(V[0], p) + 1 = t
    BY <2>1, <2>2 DEF Joined
  <2>. QED BY <1>2, <1>4, <2>1, <2>2, <2>3 DEF SoundAt
<1>6. Filled(b) /\ Fine(Head(x))
  BY <1>1, <1>3 DEF Clean, Filled
<1>7. \A p : Shows(Head(x), p) => p \in I \cap Terminals
  <2>1. 1 \in 0..n
    BY <1>2
  <2>. QED BY <1>2, <1>3, <2>1
<1>. QED BY <1>5, <1>6, <1>7

\* Chunks that go on where the panel ends.
LEMMA CatRun ==
    ASSUME NEW a \in Nat, NEW n \in Nat \ {0}, NEW z, z = [i \in 1..a |-> i],
           NEW h, h = [i \in 1..n |-> a + i]
    PROVE  /\ Len(z \o h) = a + n /\ z \o h = [i \in 1..(a + n) |-> i]
           /\ Len(h) = n /\ h[n] = a + n
<1>1. z \in Seq(Nat) /\ Len(z) = a /\ h \in Seq(Nat) /\ Len(h) = n
  OBVIOUS
<1>. DEFINE u == z \o h
<1>2. u \in Seq(Nat) /\ Len(u) = a + n
  BY <1>1
<1>3. ASSUME NEW i \in 1..(a + n) PROVE u[i] = i
  <2>1. CASE i <= a
    BY <1>1, <2>1
  <2>2. CASE i > a
    <3>1. i - a \in 1..n /\ a + (i - a) = i
      BY <2>2
    <3>2. h[i - a] = i
      BY <3>1
    <3>. QED BY <1>1, <2>2, <3>1, <3>2
  <2>. QED BY <2>1, <2>2
<1>. HIDE DEF u
<1>4. DOMAIN u = 1..(a + n) /\ u = [i \in 1..Len(u) |-> u[i]]
  BY <1>2
<1>5. u = [i \in 1..(a + n) |-> i]
  BY <1>2, <1>3, <1>4
<1>. QED BY <1>1, <1>2, <1>5 DEF u

\* The panels c that are there once m is received.
Taken(b, c, m) == (\A p : Takes(b, c, m, p)) /\ Filled(c)

LEMMA TakenOthers ==
    ASSUME NEW b, Filled(b), NEW m, NEW c, DOMAIN c \subseteq DOMAIN b, \A p \in DOMAIN c : c[p] = b[p],
           \A p \in DOMAIN c : ~Touches(m, p)
    PROVE  Taken(b, c, m)
<1>1. Filled(c)
  BY DEF Filled
<1>2. \A p : Takes(b, c, m, p)
  BY DEF Takes, Shows, Base, Level, Adds, Feeds
<1>. QED BY <1>1, <1>2 DEF Taken

LEMMA TakenSwitched ==
    ASSUME NEW b, NEW m, m.type = "switched", NEW c, c = [p \in m.terminals |-> <<>>]
    PROVE  Taken(b, c, m)
<1>1. Filled(c)
  <2>. SUFFICES ASSUME NEW p \in DOMAIN c PROVE Len(c[p]) \in Nat /\ c[p] = [i \in 1..Len(c[p]) |-> i]
    BY DEF Filled
  <2>1. c[p] = <<>> /\ Len(<<>>) = 0 /\ 1..0 = {}
    OBVIOUS
  <2>2. <<>> = [i \in 1..0 |-> i]
    BY <2>1
  <2>. QED BY <2>1, <2>2
<1>2. \A p : Takes(b, c, m, p)
  <2>. TAKE p
  <2>1. Shows(Base(c), p) => p \in m.terminals /\ Level(Base(c), p) = 0
    BY DEF Shows, Base, Level, Adds, Feeds
  <2>2. Touches(m, p) /\ Level(m, p) = 0
    BY DEF Touches, Level
  <2>. QED BY <2>1, <2>2 DEF Takes, Shows
<1>. QED BY <1>1, <1>2 DEF Taken

LEMMA TakenOpened ==
    ASSUME NEW b, Filled(b), NEW m, NEW p, m.type = "opened", m.terminal = p, NEW c,
           c = [q \in DOMAIN b \cup {p} |-> IF q = p THEN <<>> ELSE b[q]]
    PROVE  Taken(b, c, m)
<1>1. c[p] = <<>> /\ Len(<<>>) = 0 /\ <<>> = [i \in 1..0 |-> i]
  OBVIOUS
<1>2. Filled(c)
  <2>1. \A q \in DOMAIN c : q = p \/ (q \in DOMAIN b /\ c[q] = b[q])
    OBVIOUS
  <2>. QED BY <1>1, <2>1 DEF Filled
<1>3. \A q : Takes(b, c, m, q)
  <2>. TAKE q
  <2>1. CASE q = p
    <3>1. Shows(m, q) /\ Touches(m, q) /\ Level(m, q) = 0
      BY <2>1 DEF Shows, Touches, Level, Adds
    <3>2. Level(Base(c), q) = 0
      BY <1>1, <2>1 DEF Base, Level
    <3>. QED BY <3>1, <3>2 DEF Takes
  <2>2. CASE q # p
    <3>1. ~Touches(m, q)
      BY <2>2 DEF Touches, Adds, Feeds
    <3>2. Shows(Base(c), q) => q \in DOMAIN b /\ c[q] = b[q]
      BY <2>2 DEF Shows, Base, Adds, Feeds
    <3>. QED BY <3>1, <3>2 DEF Takes, Shows, Base, Level
  <2>. QED BY <2>1, <2>2
<1>. QED BY <1>2, <1>3 DEF Taken

LEMMA TakenData ==
    ASSUME NEW b, Filled(b), NEW m, NEW p \in DOMAIN b, Feeds(m, p), Fine(m),
           Len(b[p]) + 1 = m.chunks[1], NEW c, c = [b EXCEPT ![p] = @ \o m.chunks]
    PROVE  Taken(b, c, m)
<1>1. PICK a \in Nat, n \in Nat \ {0} : m.chunks = [i \in 1..n |-> a + i]
  BY DEF Feeds, Fine, Run
<1>. DEFINE z == b[p]
            h == m.chunks
<1>2. Len(z) = a /\ z = [i \in 1..a |-> i]
  <2>1. m.chunks[1] = a + 1
    BY <1>1
  <2>2. Len(z) \in Nat /\ z = [i \in 1..Len(z) |-> i]
    BY DEF Filled
  <2>. QED BY <2>1, <2>2
<1>3. /\ Len(z \o h) = a + n /\ z \o h = [i \in 1..(a + n) |-> i]
      /\ Len(h) = n /\ h[n] = a + n
  BY <1>1, <1>2, CatRun
<1>4. c[p] = z \o h /\ DOMAIN c = DOMAIN b /\ \A q \in DOMAIN b : q # p => c[q] = b[q]
  OBVIOUS
<1>. HIDE DEF z, h
<1>5. Filled(c)
  <2>. SUFFICES ASSUME NEW q \in DOMAIN c PROVE Len(c[q]) \in Nat /\ c[q] = [i \in 1..Len(c[q]) |-> i]
    BY DEF Filled
  <2>1. CASE q = p
    <3>. DEFINE w == c[q]
    <3>0. w = z \o h
      BY <1>4, <2>1
    <3>. HIDE DEF w
    <3>1. w = [i \in 1..(a + n) |-> i] /\ Len(w) = a + n
      BY <1>3, <3>0
    <3>3. a + n \in Nat
      OBVIOUS
    <3>2. Len(w) \in Nat /\ w = [i \in 1..Len(w) |-> i]
      BY <3>1, <3>3
    <3>. QED BY <3>2 DEF w
  <2>2. CASE q # p
    BY <1>4, <2>2 DEF Filled
  <2>. QED BY <2>1, <2>2
<1>6. \A q : Takes(b, c, m, q)
  <2>. TAKE q
  <2>1. CASE q = p
    <3>1. Shows(m, q) /\ Touches(m, q)
      BY <2>1 DEF Shows, Touches
    <3>2. Level(m, q) = a + n
      BY <1>3 DEF Level, Feeds, h
    <3>3. Level(Base(c), q) = a + n
      BY <1>3, <1>4, <2>1 DEF Base, Level
    <3>. QED BY <3>1, <3>2, <3>3 DEF Takes
  <2>2. CASE q # p
    <3>1. ~Touches(m, q)
      BY <2>2 DEF Touches, Adds, Feeds
    <3>2. Shows(Base(c), q) => q \in DOMAIN b /\ c[q] = b[q]
      BY <1>4, <2>2 DEF Shows, Base, Adds, Feeds
    <3>. QED BY <3>1, <3>2 DEF Takes, Shows, Base, Level
  <2>. QED BY <2>1, <2>2
<1>. QED BY <1>5, <1>6 DEF Taken

LEMMA FlowTaken ==
    ASSUME NEW b, NEW x, NEW y, NEW k, NEW do, NEW S, NEW P, NEW I, IsSeq(x), IsSeq(y),
           Flow(b, x, y, k, do, S, P, I), x # <<>>, NEW c, Taken(b, c, Head(x))
    PROVE  Flow(c, Tail(x), y, k, do, S, P, I)
  BY FlowPop DEF Taken, Filled

\* Another workspace has gone.
LEMMA ElsewhereControlled ==
    ASSUME NEW q, NEW do, NEW x, NEW ses, NEW ws, Controlled(q, do, x, ses, ws),
           IsSeq(x), x # <<>>, Head(x).type = "gone", Head(x).workspace # ws
    PROVE  Controlled(q, do, Tail(x), ses, ws)
<1>. DEFINE m == Head(x)
            u == Tail(x)
<1>1. 1 \in 1..Len(x) /\ m = x[1]
  BY SeqTail
<1>2. Tell(m) /\ ~NoTell(x)
  BY <1>1 DEF Tell, NoTell
<1>3. OneMove(q) /\ OneTell(x) /\ NoMove(q) /\ ~Moving(do) /\ Settled(q, do, x, ses, ws) /\ Sane(do)
  BY <1>2 DEF Controlled, OneAtATime
<1>4. NoTell(u)
  BY <1>2, <1>3, TellsTail
<1>. HIDE DEF m, u
<1>5. OneAtATime(q, do, u)
  BY <1>3, <1>4 DEF OneAtATime, OneTell, NoTell
<1>6. ASSUME NEW w \in Held, ses = SessionAt(w)
      PROVE  Placed(w, ws, u) /\ ~Closing(w, do, u) /\ ~Wanted(w, q)
  <2>1. Placed(w, ws, x) /\ ~Closing(w, do, x) /\ ~Wanted(w, q)
    BY <1>3, <1>6 DEF Settled
  <2>2. \A i \in 1..Len(x) : x[i].type # "switched"
    BY <1>1, <1>2, <1>3 DEF OneTell, Tell, m
  <2>3. Placed(w, ws, u) /\ ~Closing(w, do, u)
    BY <1>4, <2>1, <2>2 DEF Placed, Closing, NoTell, Tell
  <2>. QED BY <2>1, <2>3
<1>. QED BY <1>3, <1>5, <1>6 DEF Controlled, Settled, u

\* What is heard is about no move.
LEMMA GoodHeard ==
    ASSUME NEW g, NEW so, NEW x, NEW k, NEW S, NEW P, NEW I, Good(g, so, x, k, S, P, I),
           Neat(so, x), x # <<>>, ~Tell(Head(x)),
           NEW h, h.workspace = g.workspace, IsFiniteSet(DOMAIN h.panels),
           Taken(g.panels, h.panels, Head(x)),
           NEW r, IsSeq(r), NoMove(r), NEW to, to.doing = so.doing, to.session = so.session,
           to.queue = so.queue, to.requests = so.requests \o r
    PROVE  Good(h, to, Tail(x), k, S, P, I)
<1>1. IsSeq(x) /\ IsSeq(so.queue) /\ IsSeq(so.requests)
  BY DEF Neat, Messages, Queued, Wanting
<1>2. Controlled(so.requests, so.doing, x, so.session, g.workspace)
      /\ Flow(g.panels, x, so.queue, k, so.doing, S, P, I)
  BY DEF Good
<1>3. SameTells(x, Tail(x)) /\ FewerMoves(so.requests, so.requests \o r)
  BY <1>1, TellsTail, MovesCat
<1>4. Controlled(so.requests \o r, so.doing, Tail(x), so.session, g.workspace)
  BY <1>2, <1>3, PlainControlled
<1>5. Flow(h.panels, Tail(x), so.queue, k, so.doing, S, P, I)
  BY <1>1, <1>2, FlowTaken
<1>. QED BY <1>4, <1>5 DEF Good

LEMMA GoodSwitched ==
    ASSUME NEW g, NEW so, NEW x, NEW k, NEW S, NEW P, NEW I, Good(g, so, x, k, S, P, I),
           Neat(so, x), x # <<>>, Head(x).type = "switched",
           NEW h, h.workspace = Head(x).workspace, IsFiniteSet(DOMAIN h.panels),
           Taken(g.panels, h.panels, Head(x)),
           NEW r, IsSeq(r), NoMove(r), NEW to, to.doing = so.doing, to.session = so.session,
           to.queue = so.queue, to.requests = so.requests \o r
    PROVE  Good(h, to, Tail(x), k, S, P, I)
<1>1. IsSeq(x) /\ IsSeq(so.queue) /\ IsSeq(so.requests)
  BY DEF Neat, Messages, Queued, Wanting
<1>2. Controlled(so.requests, so.doing, x, so.session, g.workspace)
      /\ Flow(g.panels, x, so.queue, k, so.doing, S, P, I)
  BY DEF Good
<1>3. Controlled(so.requests \o r, so.doing, Tail(x), so.session, Head(x).workspace)
  BY <1>1, <1>2, SwitchedControlled
<1>4. Flow(h.panels, Tail(x), so.queue, k, so.doing, S, P, I)
  BY <1>1, <1>2, FlowTaken
<1>. QED BY <1>3, <1>4 DEF Good

LEMMA GoodGone ==
    ASSUME NEW g, NEW so, NEW x, NEW k, NEW S, NEW P, NEW I, Good(g, so, x, k, S, P, I),
           Neat(so, x), x # <<>>, Head(x).type = "gone",
           NEW h, IsFiniteSet(DOMAIN h.panels), Taken(g.panels, h.panels, Head(x)),
           NEW to, to.doing = so.doing, to.session = so.session, to.queue = so.queue,
           \/ Head(x).workspace # g.workspace /\ h.workspace = g.workspace
              /\ to.requests = so.requests
           \/ Head(x).workspace = g.workspace
              /\ \E r, e : IsSeq(r) /\ NoMove(r) /\ to.requests = so.requests \o (r \o <<e>>)
    PROVE  Good(h, to, Tail(x), k, S, P, I)
<1>1. IsSeq(x) /\ IsSeq(so.queue) /\ IsSeq(so.requests)
  BY DEF Neat, Messages, Queued, Wanting
<1>2. Controlled(so.requests, so.doing, x, so.session, g.workspace)
      /\ Flow(g.panels, x, so.queue, k, so.doing, S, P, I)
  BY DEF Good
<1>3. Controlled(to.requests, so.doing, Tail(x), so.session, h.workspace)
  <2>1. CASE Head(x).workspace # g.workspace /\ h.workspace = g.workspace
             /\ to.requests = so.requests
    BY <1>1, <1>2, <2>1, ElsewhereControlled
  <2>2. CASE Head(x).workspace = g.workspace
             /\ \E r, e : IsSeq(r) /\ NoMove(r) /\ to.requests = so.requests \o (r \o <<e>>)
    <3>1. PICK r, e : IsSeq(r) /\ NoMove(r) /\ to.requests = so.requests \o (r \o <<e>>)
      BY <2>2
    <3>2. Controlled(so.requests \o (r \o <<e>>), so.doing, Tail(x), so.session, h.workspace)
      BY <1>1, <1>2, <2>2, <3>1, GoneControlled
    <3>. QED BY <3>1, <3>2
  <2>. QED BY <2>1, <2>2
<1>4. Flow(h.panels, Tail(x), so.queue, k, so.doing, S, P, I)
  BY <1>1, <1>2, FlowTaken
<1>. QED BY <1>3, <1>4 DEF Good

\* The user asks for what is no move, and may take panels away.
LEMMA GoodAsked ==
    ASSUME NEW g, NEW so, NEW x, NEW k, NEW S, NEW P, NEW I, Good(g, so, x, k, S, P, I),
           Neat(so, x), NEW h, h.workspace = g.workspace,
           DOMAIN h.panels \subseteq DOMAIN g.panels,
           \A p \in DOMAIN h.panels : h.panels[p] = g.panels[p],
           NEW r, IsSeq(r), NoMove(r), NEW to, to.doing = so.doing, to.session = so.session,
           to.queue = so.queue, to.requests = so.requests \o r
    PROVE  Good(h, to, x, k, S, P, I)
<1>1. IsSeq(x) /\ IsSeq(so.queue) /\ IsSeq(so.requests)
  BY DEF Neat, Messages, Queued, Wanting
<1>2. Controlled(so.requests, so.doing, x, so.session, g.workspace)
      /\ Flow(g.panels, x, so.queue, k, so.doing, S, P, I) /\ IsFiniteSet(DOMAIN g.panels)
  BY DEF Good
<1>3. SameTells(x, x) /\ FewerMoves(so.requests, so.requests \o r)
  BY <1>1, MovesSame, MovesCat
<1>4. Controlled(so.requests \o r, so.doing, x, so.session, g.workspace)
  BY <1>2, <1>3, PlainControlled
<1>5. Flow(h.panels, x, so.queue, k, so.doing, S, P, I)
  BY <1>1, <1>2, FlowFewer
<1>6. IsFiniteSet(DOMAIN h.panels)
  BY <1>2, FS_Subset
<1>. QED BY <1>4, <1>5, <1>6 DEF Good

\* The user asks for a move.
LEMMA GoodMoves ==
    ASSUME NEW g, NEW so, NEW x, NEW k, NEW S, NEW P, NEW I, Good(g, so, x, k, S, P, I),
           Neat(so, x), NoMove(so.requests), ~Moving(so.doing), NoTell(x),
           NEW h, h.workspace = g.workspace, h.panels = g.panels,
           NEW r, NEW e, IsSeq(r), NoMove(r), e.op = "switch" => e.workspace # g.workspace,
           NEW to, to.doing = so.doing, to.session = so.session, to.queue = so.queue,
           to.requests = so.requests \o (r \o <<e>>)
    PROVE  Good(h, to, x, k, S, P, I)
<1>1. IsSeq(so.requests)
  BY DEF Neat, Wanting
<1>2. Controlled(so.requests, so.doing, x, so.session, g.workspace)
  BY DEF Good
<1>3. Controlled(so.requests \o (r \o <<e>>), so.doing, x, so.session, g.workspace)
  BY <1>1, <1>2, AskControlled
<1>. QED BY <1>3 DEF Good

\* A window comes, with a socket of its own.
LEMMA GoodStart ==
    ASSUME NEW g, DOMAIN g.panels = {}, NEW to, to.queue = <<>>, to.doing = Idle,
           to.session = None, NEW w, to.requests = <<[op |-> "switch", workspace |-> w]>>,
           NEW k, NEW S, NEW P, NEW I
    PROVE  Good(g, to, <<>>, k, S, P, I)
<1>1. Flow(g.panels, <<>>, to.queue, k, to.doing, S, P, I)
  BY FlowStart
<1>2. Controlled(to.requests, Idle, <<>>, None, g.workspace)
  <2>1. OneMove(to.requests)
    <3>. DEFINE e == [op |-> "switch", workspace |-> w]
    <3>1. Len(<<e>>) = 1
      BY ShortSeqs
    <3>2. \A i \in 1..Len(<<e>>) : i = 1
      BY <3>1
    <3>. QED BY <3>2 DEF OneMove
  <2>2. OneTell(<<>>) /\ NoTell(<<>>) /\ ~Moving(Idle)
    BY ShortShapes DEF Moving, Idle
  <2>3. Settled(to.requests, Idle, <<>>, None, g.workspace)
    BY OwnSessions DEF Settled
  <2>4. Sane(Idle)
    BY DEF Sane, Idle
  <2>. QED BY <2>1, <2>2, <2>3, <2>4 DEF Controlled, OneAtATime
<1>3. IsFiniteSet(DOMAIN g.panels)
  BY FS_EmptySet
<1>. QED BY <1>1, <1>2, <1>3 DEF Good

-----------------------------------------------------------------------------
(* The list: its workspaces are some of those it had, each with the        *)
(* session it had, and with a sequence of tabs.                            *)

Less == {pair \in Nat \X Nat : pair[1] < pair[2]}

LEMMA LessWellFounded == IsWellFoundedOn(Less, Nat)
<1>1. Less = OpToRel(<, Nat)
  BY DEF Less, OpToRel
<1>. QED BY <1>1, NatLessThanWellFounded

\* The least number outside a set has a predecessor inside.
LEMMA NatSetInduction ==
    ASSUME NEW S \in SUBSET Nat, 0 \in S, \A n \in S : n + 1 \in S
    PROVE  S = Nat
<1>. SUFFICES ASSUME S # Nat PROVE FALSE
  OBVIOUS
<1>1. PICK n \in Nat \ S : \A m \in Nat \ S : <<m, n>> \notin Less
  <2>1. Nat \ S \subseteq Nat /\ Nat \ S # {}
    OBVIOUS
  <2>. QED BY <2>1, LessWellFounded, WFMin
<1>2. n # 0 /\ n - 1 \in Nat /\ n - 1 < n /\ (n - 1) + 1 = n
  OBVIOUS
<1>3. <<n - 1, n>> \in Less
  BY <1>2 DEF Less
<1>4. n - 1 \in S
  BY <1>1, <1>2, <1>3
<1>. QED BY <1>2, <1>4

\* retain, one tab after the other.
StillKept(tabs, p, before, n) == IF tabs[n] = p THEN before ELSE Append(before, tabs[n])

Retains(g, tabs, p, n) ==
    g = [i \in 0..n |-> IF i = 0 THEN <<>> ELSE StillKept(tabs, p, g[i - 1], i)]

LEMMA SomeRetains ==
    ASSUME NEW tabs, NEW p
    PROVE  \A n \in Nat : \E g : Retains(g, tabs, p, n)
<1>. DEFINE S == {n \in Nat : \E g : Retains(g, tabs, p, n)}
<1>1. 0 \in S
  <2>. DEFINE g == [i \in 0..0 |-> <<>>]
  <2>1. Retains(g, tabs, p, 0)
    BY DEF Retains
  <2>. QED BY <2>1
<1>2. ASSUME NEW n \in S PROVE n + 1 \in S
  <2>1. PICK g : Retains(g, tabs, p, n)
    OBVIOUS
  <2>. DEFINE h == [i \in 0..(n + 1) |-> IF i = n + 1 THEN StillKept(tabs, p, g[n], n + 1) ELSE g[i]]
  <2>2. \A i \in 0..n : g[i] = IF i = 0 THEN <<>> ELSE StillKept(tabs, p, g[i - 1], i)
    BY <2>1 DEF Retains
  <2>3. \A i \in 0..(n + 1) : h[i] = IF i = 0 THEN <<>> ELSE StillKept(tabs, p, h[i - 1], i)
    <3>. SUFFICES ASSUME NEW i \in 0..(n + 1)
                  PROVE  h[i] = IF i = 0 THEN <<>> ELSE StillKept(tabs, p, h[i - 1], i)
      OBVIOUS
    <3>1. CASE i = n + 1
      BY <3>1
    <3>2. CASE i \in 0..n
      BY <2>2, <3>2
    <3>. QED BY <3>1, <3>2
  <2>4. Retains(h, tabs, p, n + 1)
    BY <2>3 DEF Retains
  <2>. QED BY <2>4
<1>. HIDE DEF S
<1>3. S \in SUBSET Nat
  BY DEF S
<1>4. S = Nat
  BY <1>1, <1>2, <1>3, NatSetInduction
<1>. QED BY <1>4 DEF S

LEMMA RetainedSeq ==
    ASSUME NEW tabs, NEW p, IsSeq(tabs)
    PROVE  IsSeq(Retained(tabs, p))
<1>. DEFINE g == CHOOSE g : Retains(g, tabs, p, Len(tabs))
<1>0. PICK Z : tabs \in Seq(Z)
  BY DEF IsSeq
<1>1. Len(tabs) \in Nat /\ \A n \in 1..Len(tabs) : tabs[n] \in Z
  <2>. HIDE DEF g
  <2>1. Len(tabs) \in Nat
    OBVIOUS
  <2>2. \A T, q : q \in Seq(T) => \A n \in 1..Len(q) : q[n] \in T
    OBVIOUS
  <2>. QED BY <1>0, <2>1, <2>2
<1>2. Retains(g, tabs, p, Len(tabs))
  BY <1>1, SomeRetains
<1>3. Retained(tabs, p) = g[Len(tabs)]
  BY DEF Retained, Retains, StillKept
<1>. HIDE DEF g
<1>4. \A i \in 0..Len(tabs) : g[i] = IF i = 0 THEN <<>> ELSE StillKept(tabs, p, g[i - 1], i)
  BY <1>2 DEF Retains
<1>. DEFINE S == {n \in Nat : n <= Len(tabs) => g[n] \in Seq(Z)}
<1>5. 0 \in S
  <2>1. g[0] = <<>> /\ <<>> \in Seq(Z)
    BY <1>1, <1>4
  <2>. QED BY <2>1
<1>6. ASSUME NEW n \in S PROVE n + 1 \in S
  <2>. SUFFICES ASSUME n + 1 <= Len(tabs) PROVE g[n + 1] \in Seq(Z)
    OBVIOUS
  <2>1. n \in Nat /\ g[n] \in Seq(Z) /\ tabs[n + 1] \in Z
    BY <1>1
  <2>2. g[n + 1] \in {g[n], Append(g[n], tabs[n + 1])}
    <3>1. n + 1 \in 0..Len(tabs) /\ n + 1 # 0 /\ (n + 1) - 1 = n
      BY <1>1, <2>1
    <3>2. g[n + 1] = StillKept(tabs, p, g[n], n + 1)
      BY <1>4, <3>1
    <3>. QED BY <3>2 DEF StillKept
  <2>3. Append(g[n], tabs[n + 1]) \in Seq(Z)
    BY <2>1
  <2>. HIDE DEF S
  <2>. QED BY <2>1, <2>2, <2>3
<1>. HIDE DEF S
<1>7. S \in SUBSET Nat
  BY DEF S
<1>8. S = Nat
  BY <1>5, <1>6, <1>7, NatSetInduction
<1>. QED BY <1>1, <1>3, <1>8 DEF S, IsSeq

\* The entry of one workspace is another one.
LEMMA ListedAt ==
    ASSUME NEW l, Listed(l), NEW m, NEW w, NEW r, "byId" \in DOMAIN m,
           m.byId = [l.byId EXCEPT ![w] = r], w \in DOMAIN l.byId => Entry(r, w)
    PROVE  Listed(m)
  BY DEF Listed

LEMMA FocusedListed ==
    ASSUME NEW l, Listed(l), NEW w
    PROVE  Listed(Focused(l, w))
  BY DEF Listed, Focused

LEMMA ClosedListed ==
    ASSUME NEW l, Listed(l), NEW w
    PROVE  Listed(Closed(l, w))
<1>1. Closed(l, w).byId = Restrict(l.byId, DOMAIN l.byId \ {w}) /\ "byId" \in DOMAIN Closed(l, w)
  BY DEF Closed
<1>. QED BY <1>1 DEF Listed, Restrict

LEMMA LaidOutListed ==
    ASSUME NEW l, Listed(l), NEW w, NEW tabs, IsSeq(tabs), NEW a, NEW f
    PROVE  Listed(LaidOut(l, w, tabs, a, f))
<1>. DEFINE kept == Sanitized(tabs)
            m == LaidOut(l, w, tabs, a, f)
            r == [l.byId[w] EXCEPT !.tabs = kept, !.active = Clamp(a, Len(kept)), !.folders = f]
<1>1. IsSeq(kept)
  <2>1. PICK Z : tabs \in Seq(Z)
    BY DEF IsSeq
  <2>. DEFINE n == IF Len(tabs) < MaxTabs THEN Len(tabs) ELSE MaxTabs
  <2>2. n \in 0..Len(tabs)
    BY <2>1, ListAssumption
  <2>3. SubSeq(tabs, 1, n) \in Seq(Z)
    BY <2>1, <2>2
  <2>. QED BY <2>3 DEF IsSeq, Sanitized
<1>. HIDE DEF kept
<1>2. w \in DOMAIN l.byId => Entry(r, w)
  BY <1>1 DEF Listed, Entry
<1>3. "byId" \in DOMAIN m /\ m.byId = [l.byId EXCEPT ![w] = r]
  BY DEF Listed, LaidOut, kept
<1>. HIDE DEF m, r
<1>4. Listed(m)
  BY <1>2, <1>3, ListedAt
<1>. QED BY <1>4 DEF m

LEMMA WithTerminalListed ==
    ASSUME NEW l, Listed(l), NEW s, NEW p
    PROVE  Listed(WithTerminal(l, s, p))
<1>. DEFINE w    == l.bySession[s]
            tabs == Append(l.byId[w].tabs, p)
            kept == IF Len(tabs) > MaxTabs THEN Tail(tabs) ELSE tabs
            a    == IF kept = tabs THEN l.byId[w].active ELSE Clamp(l.byId[w].active, Len(kept))
            r    == [l.byId[w] EXCEPT !.tabs = kept, !.active = a]
            m    == WithTerminal(l, s, p)
<1>1. w \in DOMAIN l.byId => IsSeq(kept)
  <2>. SUFFICES ASSUME w \in DOMAIN l.byId PROVE IsSeq(kept)
    OBVIOUS
  <2>1. IsSeq(l.byId[w].tabs)
    BY DEF Listed, Entry
  <2>. HIDE DEF w
  <2>2. IsSeq(tabs) /\ Len(tabs) \in Nat
    BY <2>1, SeqAppend, SeqShape
  <2>. HIDE DEF tabs
  <2>3. Len(tabs) > MaxTabs => tabs # <<>>
    BY <2>2, ListAssumption, ShortSeqs
  <2>4. Len(tabs) > MaxTabs => IsSeq(Tail(tabs))
    BY <2>2, <2>3, SeqTail
  <2>. QED BY <2>2, <2>4
<1>2. m = l \/ ("byId" \in DOMAIN m /\ m.byId = [l.byId EXCEPT ![w] = r])
  BY DEF Listed, WithTerminal
<1>. HIDE DEF kept, a, m
<1>3. w \in DOMAIN l.byId => Entry(r, w)
  BY <1>1 DEF Listed, Entry
<1>. HIDE DEF r, w
<1>4. Listed(m)
  BY <1>2, <1>3, ListedAt
<1>. QED BY <1>4 DEF m

LEMMA WithoutTerminalListed ==
    ASSUME NEW l, Listed(l), NEW s, NEW p
    PROVE  Listed(WithoutTerminal(l, s, p))
<1>. DEFINE w    == l.bySession[s]
            kept == Retained(l.byId[w].tabs, p)
            r    == [l.byId[w] EXCEPT !.tabs = kept, !.active = Clamp(@, Len(kept))]
            m    == WithoutTerminal(l, s, p)
<1>1. w \in DOMAIN l.byId => IsSeq(kept)
  BY RetainedSeq DEF Listed, Entry
<1>2. m = l \/ ("byId" \in DOMAIN m /\ m.byId = [l.byId EXCEPT ![w] = r])
  BY DEF Listed, WithoutTerminal
<1>. HIDE DEF kept, m
<1>3. w \in DOMAIN l.byId => Entry(r, w)
  BY <1>1 DEF Listed, Entry
<1>. HIDE DEF r, w
<1>4. Listed(m)
  BY <1>2, <1>3, ListedAt
<1>. QED BY <1>4 DEF m

-----------------------------------------------------------------------------
(* The inductive invariant.                                                *)

LEMMA FedIsInOrder ==
    ASSUME FInv
    PROVE  InOrder
<1>. SUFFICES ASSUME NEW c \in Clients, NEW p \in DOMAIN gui[c].panels
              PROVE  gui[c].panels[p] = [i \in 1..Len(gui[c].panels[p]) |-> i]
  BY DEF InOrder
<1>. DEFINE k == gui[c].socket
<1>1. Owns(c, k)
  BY DEF FInv, Owned
<1>. HIDE DEF k
<1>2. Good(gui[c], socket[k], wire[k], k, sessions, printed, issued)
  BY <1>1 DEF Owns
<1>3. Flow(gui[c].panels, wire[k], socket[k].queue, k, socket[k].doing, sessions, printed, issued)
  BY <1>2 DEF Good
<1>4. Clean(gui[c].panels, wire[k], socket[k].queue)
  BY <1>3 DEF Flow
<1>. QED BY <1>4 DEF Clean

LEMMA InitFed == Init => FInv
<1>. SUFFICES ASSUME Init PROVE FInv
  OBVIOUS
<1>1. AInv
  BY InitAttached
<1>2. Shaped
  BY DEF Init, Shaped, Offline, GuiFields
<1>3. AllNeat
  <2>. SUFFICES ASSUME NEW k \in Sockets PROVE Neat(socket[k], wire[k])
    BY DEF AllNeat
  <2>1. socket[k] = NewSocket /\ wire[k] = <<>>
    BY DEF Init
  <2>2. NewSocket.queue = <<>> /\ NewSocket.requests = <<>> /\ NewSocket.doing = Idle
    BY DEF NewSocket
  <2>. QED BY <2>1, <2>2, ShortShapes, QuietSteps DEF Neat
<1>4. Owned
  BY DEF Init, Owned, Offline
<1>5. /\ \A s \in DOMAIN sessions : sessions[s].terminals = {}
      /\ DOMAIN sessions = {SessionAt(w) : w \in Held}
  BY DEF Init, NewSession, Held, SessionAt
<1>6. Issued(sessions, printed, issued)
  <2>1. issued = DOMAIN sessions /\ printed = [p \in Terminals |-> 0]
    BY DEF Init
  <2>. QED BY <1>5, <2>1, FS_EmptySet DEF Issued
<1>7. Listed(list)
  <2>1. list = Start /\ "byId" \in DOMAIN Start
    BY SessionsAssumption DEF Init, EmptyList
  <2>2. ASSUME NEW w \in DOMAIN Start.byId PROVE Entry(Start.byId[w], w)
    <3>1. Start.byId[w] \in Records
      BY SessionsAssumption DEF IsList
    <3>2. Start.byId[w].tabs \in Seq(Tabs) /\ {"session", "tabs"} \subseteq DOMAIN Start.byId[w]
      BY <3>1 DEF Records
    <3>. QED BY <3>2 DEF Entry, SessionAt, IsSeq
  <2>. QED BY <2>1, <2>2 DEF Listed, Held
<1>. QED BY <1>1, <1>2, <1>3, <1>4, <1>6, <1>7 DEF FInv

-----------------------------------------------------------------------------
(* A step of the daemon.                                                   *)

LEMMA DaemonStep ==
    ASSUME FInv, AInv', UNCHANGED gui, DOMAIN wire' = Sockets,
           Issued(sessions', printed', issued'), Listed(list'),
           \A j \in Sockets : Neat(socket'[j], wire'[j]),
           \A j \in Sockets : socket[j].phase = "open" /\ socket[j].peer =>
                                 socket'[j].phase = "open" /\ socket'[j].peer,
           \A c \in Clients : \A j \in Sockets : gui[c].socket = j /\ Owns(c, j) =>
                Good(gui[c], socket'[j], wire'[j], j, sessions', printed', issued')
    PROVE  FInv'
<1>1. Shaped' /\ AllNeat'
  BY DEF FInv, Shaped, AllNeat
<1>2. Owned'
  <2>. SUFFICES ASSUME NEW c \in Clients, gui[c].socket # None
                PROVE  Owns(c, gui[c].socket)'
    BY DEF Owned, FInv
  <2>. DEFINE k == gui[c].socket
  <2>1. k \in Sockets /\ Owns(c, k)
    BY DEF FInv, Shaped, Owned
  <2>2. Good(gui[c], socket'[k], wire'[k], k, sessions', printed', issued')
    BY <2>1
  <2>3. socket'[k].phase = "open" /\ socket'[k].peer /\ \A d \in Clients : gui[d].socket = k => d = c
    BY <2>1 DEF Owns
  <2>. QED BY <2>2, <2>3 DEF Owns
<1>. QED BY <1>1, <1>2 DEF FInv

\* One of its sockets, k; to the others it is all the same.
LEMMA SocketStep ==
    ASSUME FInv, AInv', UNCHANGED gui, DOMAIN wire' = Sockets,
           Issued(sessions', printed', issued'), Listed(list'), NEW k \in Sockets,
           \A j \in Sockets : j # k => socket'[j] = socket[j] /\ wire'[j] = wire[j],
           \A j \in Sockets : j # k => Benign(j, sessions, printed, issued, sessions', printed', issued'),
           Neat(socket'[k], wire'[k]),
           socket[k].peer => socket'[k].phase = socket[k].phase /\ socket'[k].peer,
           \A g : socket[k].peer /\ Good(g, socket[k], wire[k], k, sessions, printed, issued) =>
                Good(g, socket'[k], wire'[k], k, sessions', printed', issued')
    PROVE  FInv'
<1>1. \A j \in Sockets : Neat(socket[j], wire[j])
  BY DEF FInv, AllNeat
<1>2. ASSUME NEW c \in Clients, NEW j \in Sockets, gui[c].socket = j, Owns(c, j)
      PROVE  Good(gui[c], socket'[j], wire'[j], j, sessions', printed', issued')
  <2>1. socket[j].peer /\ Good(gui[c], socket[j], wire[j], j, sessions, printed, issued)
    BY <1>2 DEF Owns
  <2>2. CASE j = k
    BY <2>1, <2>2
  <2>3. CASE j # k
    <3>1. Good(gui[c], socket[j], wire[j], j, sessions', printed', issued')
      BY <1>1, <2>1, <2>3, GoodElsewhere
    <3>. QED BY <2>3, <3>1
  <2>. QED BY <2>2, <2>3
<1>3. \A j \in Sockets : Neat(socket'[j], wire'[j])
  BY <1>1
<1>4. \A j \in Sockets : socket[j].phase = "open" /\ socket[j].peer =>
                           socket'[j].phase = "open" /\ socket'[j].peer
  OBVIOUS
<1>. QED BY <1>2, <1>3, <1>4, DaemonStep

LEMMA ReplyShape ==
    ASSUME FInv, NEW k \in Sockets, NEW r, Reply(k, r)
    PROVE  /\ DOMAIN wire' = Sockets /\ \A j \in Sockets : j # k => wire'[j] = wire[j]
           /\ wire'[k] = IF socket[k].peer THEN wire[k] \o r ELSE wire[k]
  BY DEF FInv, Shaped, Reply

\* Terminals and subscribers go.
NoMore(S, T) == \A s \in DOMAIN T :
    /\ s \in DOMAIN S /\ T[s].terminals \subseteq S[s].terminals
    /\ T[s].subscriber \in {S[s].subscriber, None}

LEMMA NoMoreBenign ==
    ASSUME NEW S, NEW T, NEW P, NEW I, NoMore(S, T), NEW k \in Sockets
    PROVE  Benign(k, S, P, I, T, P, I)
<1>1. k # None
  BY SessionsAssumption
<1>. QED BY <1>1 DEF Benign, NoMore

LEMMA NoMoreIssued ==
    ASSUME NEW S, NEW T, NEW P, NEW I, NoMore(S, T), Issued(S, P, I)
    PROVE  Issued(T, P, I)
<1>1. \A s \in DOMAIN T : IsFiniteSet(T[s].terminals)
  BY FS_Subset DEF Issued, NoMore
<1>. QED BY <1>1 DEF Issued, NoMore

LEMMA NoMoreSame ==
    ASSUME NEW S
    PROVE  NoMore(S, S)
  BY DEF NoMore

LEMMA ErrorShape ==
    ASSUME NEW of
    PROVE  LET r == <<Error(of)>>
           IN  IsSeq(r) /\ Messages(r) /\ \A i \in 1..Len(r) : r[i].type = "error"
<1>. DEFINE e == Error(of)
<1>1. e.type = "error" /\ TypedMessage(e)
  BY DEF Error, TypedMessage
<1>. HIDE DEF e
<1>2. IsSeq(<<e>>) /\ Len(<<e>>) = 1 /\ <<e>>[1] = e
  BY ShortSeqs
<1>3. Messages(<<e>>)
  BY <1>1, MessagesOne
<1>4. \A i \in 1..Len(<<e>>) : i = 1
  BY <1>2
<1>. QED BY <1>1, <1>2, <1>3, <1>4 DEF e

\* A socket only takes requests, and perhaps refuses one.
LEMMA PlainStep ==
    ASSUME FInv, AInv', UNCHANGED <<gui, printed, issued>>, NoMore(sessions, sessions'),
           Listed(list'), NEW k \in Sockets,
           \A j \in Sockets : j # k => socket'[j] = socket[j],
           UNCHANGED wire \/ \E of : Reply(k, <<Error(of)>>),
           LET so == socket[k]
               to == socket'[k]
           IN  /\ to.phase = so.phase /\ to.phase # "new" /\ to.peer = so.peer
               /\ to.session = so.session /\ to.queue = so.queue
               /\ to.doing = so.doing \/ Quiets(to.doing)
               /\ to.requests = so.requests
                  \/ (so.requests # <<>> /\ to.requests = Tail(so.requests))
    PROVE  FInv'
<1>. DEFINE so == socket[k]
            to == socket'[k]
            x  == wire[k]
<1>1. Neat(so, x) /\ IsSeq(so.queue) /\ IsSeq(so.requests) /\ IsSeq(x)
  BY DEF FInv, AllNeat, Neat, Queued, Wanting, Messages
<1>2. PICK r : /\ IsSeq(r) /\ Messages(r) /\ \A i \in 1..Len(r) : r[i].type = "error"
               /\ DOMAIN wire' = Sockets /\ \A j \in Sockets : j # k => wire'[j] = wire[j]
               /\ wire'[k] = IF so.peer THEN x \o r ELSE x
  <2>1. CASE UNCHANGED wire
    <3>. DEFINE e == <<>>
    <3>1. IsSeq(e) /\ Messages(e) /\ Len(e) = 0
      BY ShortSeqs, ShortShapes
    <3>2. x \o e = x
      BY <1>1, EmptyCat
    <3>. HIDE DEF e
    <3>3. \A i \in 1..Len(e) : e[i].type = "error"
      BY <3>1
    <3>4. DOMAIN wire' = Sockets /\ \A j \in Sockets : wire'[j] = wire[j]
      BY <2>1 DEF FInv, Shaped
    <3>5. wire'[k] = IF so.peer THEN x \o e ELSE x
      BY <3>2, <3>4
    <3>. HIDE DEF x, so
    <3>. QED BY <3>1, <3>3, <3>4, <3>5
  <2>2. CASE \E of : Reply(k, <<Error(of)>>)
    <3>1. PICK of : Reply(k, <<Error(of)>>)
      BY <2>2
    <3>. DEFINE e == <<Error(of)>>
    <3>2. IsSeq(e) /\ Messages(e) /\ \A i \in 1..Len(e) : e[i].type = "error"
      BY ErrorShape
    <3>. HIDE DEF e
    <3>3. Reply(k, e)
      BY <3>1 DEF e
    <3>. QED BY <3>2, <3>3, ReplyShape
  <2>. QED BY <2>1, <2>2
<1>3. FewerMoves(so.requests, to.requests) /\ Wanting(to.requests) /\ TypedDoing(to.doing)
  BY <1>1, MovesSame, MovesTail, WantingTail, QuietSteps DEF Neat
<1>4. Neat(to, wire'[k])
  BY <1>1, <1>2, <1>3, MessagesCat DEF Neat
<1>5. \A j \in Sockets : Benign(j, sessions, printed, issued, sessions', printed', issued')
  BY NoMoreBenign
<1>6. Issued(sessions', printed', issued')
  BY NoMoreIssued DEF FInv
<1>7. ASSUME NEW g, so.peer, Good(g, so, x, k, sessions, printed, issued)
      PROVE  Good(g, to, wire'[k], k, sessions', printed', issued')
  <2>. DEFINE h == <<>>
  <2>1. IsSeq(h) /\ Len(h) = 0 /\ so.queue \o h = so.queue
    BY <1>1, ShortSeqs, EmptyCat
  <2>. HIDE DEF h, so, to, x
  <2>2. wire'[k] = x \o r /\ to.queue = so.queue \o h
    BY <1>2, <1>7, <2>1 DEF so, to
  <2>3. \A i \in 1..Len(h) : h[i].type = "closed"
    BY <2>1
  <2>4. (to.doing = so.doing \/ Quiets(to.doing)) /\ to.session = so.session
    BY DEF so, to
  <2>5. Good(g, to, x \o r, k, sessions', printed', issued')
    BY <1>1, <1>2, <1>3, <1>5, <1>7, <2>1, <2>2, <2>3, <2>4, GoodPlain
  <2>. QED BY <2>2, <2>5
<1>8. so.peer => to.phase = so.phase /\ to.peer
  OBVIOUS
<1>. HIDE DEF so, to, x
<1>. QED BY <1>2, <1>4, <1>5, <1>6, <1>7, <1>8, SocketStep DEF so, to, x

-----------------------------------------------------------------------------
(* The requests.                                                           *)

LEMMA ServingShape ==
    ASSUME "backlog" \notin Ops, NEW k, NEW op, Serving(k, op)
    PROVE  /\ socket[k].phase = "open" /\ socket[k].doing = Idle
           /\ socket[k].requests # <<>> /\ Head(socket[k].requests).op = op
           /\ Request(k) = Head(socket[k].requests)
           /\ socket[k].queue = <<>>
  BY DEF Serving, Request

\* Field by field.
LEMMA GoesShape ==
    ASSUME FInv, NEW k \in Sockets, NEW to, Goes(k, to)
    PROVE  /\ \A j \in Sockets : j # k => socket'[j] = socket[j]
           /\ socket'[k].phase = socket[k].phase /\ socket'[k].peer = socket[k].peer
           /\ socket'[k].session = socket[k].session /\ socket'[k].queue = socket[k].queue
           /\ socket'[k].doing = to /\ socket'[k].requests = Tail(socket[k].requests)
  BY DEF FInv, AInv, SocketsShaped, SocketFields, Goes

LEMMA DoneShape ==
    ASSUME FInv, NEW k \in Sockets, NEW to, socket' = [socket EXCEPT ![k].doing = to]
    PROVE  /\ \A j \in Sockets : j # k => socket'[j] = socket[j]
           /\ socket'[k].phase = socket[k].phase /\ socket'[k].peer = socket[k].peer
           /\ socket'[k].session = socket[k].session /\ socket'[k].queue = socket[k].queue
           /\ socket'[k].doing = to /\ socket'[k].requests = socket[k].requests
  BY DEF FInv, AInv, SocketsShaped, SocketFields

LEMMA RefuseFed ==
    ASSUME "backlog" \notin Ops, FInv, AInv', NEW k \in Sockets, NEW op, Serving(k, op), NEW of,
           Refuse(k, of), UNCHANGED <<gui, printed, issued, sessions, list>>
    PROVE  FInv'
<1>1. Goes(k, Idle) /\ Reply(k, <<Error(of)>>)
  BY DEF Refuse
<1>2. NoMore(sessions, sessions')
  BY NoMoreSame
<1>3. Listed(list')
  BY DEF FInv
<1>. QED BY <1>1, <1>2, <1>3, ServingShape, GoesShape, QuietSteps, PlainStep

LEMMA SwitchFed ==
    ASSUME "backlog" \notin Ops, FInv, AInv', NEW k \in Sockets, Switch(k)
    PROVE  FInv'
<1>. DEFINE w    == Request(k).workspace
            so   == socket[k]
            to   == socket'[k]
            tabs == list.byId[w].tabs
            go   == Leaving(so.session, Attaching(w, SessionAt(w), tabs))
<1>0. Serving(k, "switch") /\ UNCHANGED <<gui, printed, issued, sessions>>
  BY DEF Switch
<1>1. CASE ~Known(list, w)
  <2>1. Refuse(k, "switch") /\ UNCHANGED list
    BY <1>1 DEF Switch
  <2>. QED BY <1>0, <2>1, RefuseFed
<1>2. CASE Known(list, w)
  <2>1. w \in Held /\ list.byId[w].session = SessionAt(w) /\ IsSeq(tabs)
    BY <1>2 DEF FInv, Listed, Entry, Known
  <2>2. /\ list' = Focused(list, w) /\ UNCHANGED wire
        /\ socket' = [socket EXCEPT ![k].requests = Tail(@), ![k].session = None,
                                    ![k].doing = Leaving(so.session, Attaching(w, list.byId[w].session, tabs))]
    BY <1>2 DEF Switch
  <2>3. /\ \A j \in Sockets : j # k => socket'[j] = socket[j]
        /\ to.phase = so.phase /\ to.peer = so.peer /\ to.session = None /\ to.queue = so.queue
        /\ to.doing = go /\ to.requests = Tail(so.requests)
    BY <2>1, <2>2 DEF FInv, AInv, SocketsShaped, SocketFields
  <2>4. Neat(so, wire[k]) /\ so.phase = "open" /\ so.requests # <<>> /\ so.queue = <<>>
        /\ Head(so.requests).op = "switch" /\ w = Head(so.requests).workspace
    BY <1>0, ServingShape DEF FInv, AllNeat
  <2>5. TypedDoing(go)
    BY <2>1 DEF TypedDoing, TypedStep, Leaving, Detaching, Attaching
  <2>6. Listed(list')
    BY <2>2, FocusedListed DEF FInv
  <2>. HIDE DEF go, to, so, w, tabs
  <2>7. Neat(to, wire'[k])
    BY <2>2, <2>3, <2>4, <2>5, WantingTail DEF Neat
  <2>8. ASSUME NEW g, Good(g, so, wire[k], k, sessions, printed, issued)
        PROVE  Good(g, to, wire'[k], k, sessions', printed', issued')
    <3>1. Good(g, to, wire[k], k, sessions, printed, issued)
      BY <2>1, <2>3, <2>4, <2>8, GoodSwitch DEF go
    <3>. QED BY <1>0, <2>2, <3>1
  <2>9. /\ DOMAIN wire' = Sockets /\ Issued(sessions', printed', issued')
        /\ \A j \in Sockets : Benign(j, sessions, printed, issued, sessions', printed', issued')
    BY <1>0, <2>2, BenignSame DEF FInv, Shaped
  <2>. QED BY <1>0, <2>2, <2>3, <2>6, <2>7, <2>8, <2>9, SocketStep DEF so, to
<1>. QED BY <1>1, <1>2

LEMMA DetachFed ==
    ASSUME FInv, AInv', NEW k \in Sockets, Detach(k)
    PROVE  FInv'
<1>. DEFINE so == socket[k]
            to == socket'[k]
            s  == so.doing.session
<1>1. /\ so.phase = "open" /\ so.doing.step = "detach" /\ sessions' = Unsubscribed(s)
      /\ socket' = [socket EXCEPT ![k].doing = so.doing.next]
      /\ UNCHANGED <<list, issued, printed, wire, gui>>
  BY DEF Detach, At
<1>2. /\ \A j \in Sockets : j # k => socket'[j] = socket[j]
      /\ to.phase = so.phase /\ to.peer = so.peer /\ to.session = so.session /\ to.queue = so.queue
      /\ to.doing = so.doing.next /\ to.requests = so.requests
  BY <1>1, DoneShape
<1>3. NoMore(sessions, sessions')
  BY <1>1 DEF NoMore, Unsubscribed, FInv, AInv, SubscribersTyped
<1>4. Neat(so, wire[k])
  BY DEF FInv, AllNeat
<1>5. so.doing.next.step # "detach"
  BY <1>1 DEF FInv, AInv, AttachesFree
<1>. HIDE DEF so, to, s
<1>6. Neat(to, wire'[k])
  BY <1>1, <1>2, <1>4, <1>5 DEF Neat, TypedDoing
<1>7. /\ DOMAIN wire' = Sockets /\ Issued(sessions', printed', issued') /\ Listed(list')
      /\ \A j \in Sockets : Benign(j, sessions, printed, issued, sessions', printed', issued')
  BY <1>1, <1>3, NoMoreIssued, NoMoreBenign DEF FInv, Shaped
<1>8. ASSUME NEW g, Good(g, so, wire[k], k, sessions, printed, issued)
      PROVE  Good(g, to, wire'[k], k, sessions', printed', issued')
  <2>1. Good(g, to, wire[k], k, sessions', printed', issued')
    BY <1>1, <1>2, <1>4, <1>7, <1>8, GoodDetach
  <2>. QED BY <1>1, <2>1
<1>. QED BY <1>1, <1>2, <1>6, <1>7, <1>8, SocketStep DEF so, to

LEMMA ReplayShape ==
    ASSUME FInv, NEW s \in DOMAIN sessions, NEW m, m.terminals = sessions[s].terminals
    PROVE  LET r == SetToSeq(Replay(s))
           IN  IsSeq(r) /\ Repeats(m, r, printed) /\ Messages(r)
<1>. DEFINE R == Replay(s)
            T == {q \in sessions[s].terminals : printed[q] > 0}
            f == [q \in T |-> Whole(q, printed[q])]
            r == SetToSeq(R)
<1>1. /\ IsFiniteSet(sessions[s].terminals) /\ \A q \in sessions[s].terminals : printed[q] \in Nat
  BY DEF FInv, Issued
<1>2. IsFiniteSet(T)
  <2>1. T \subseteq sessions[s].terminals
    OBVIOUS
  <2>. QED BY <1>1, <2>1, FS_Subset
<1>3. R = {f[q] : q \in T} /\ f \in Surjection(T, R)
  BY DEF Replay, Whole, Surjection
<1>4. IsFiniteSet(R)
  <2>. HIDE DEF f, T, R
  <2>. QED BY <1>2, <1>3, FS_Surjection
<1>5. /\ r \in Seq(R) /\ (\A e \in R : \E i \in 1..Len(r) : r[i] = e)
      /\ \A i, j \in 1..Len(r) : r[i] = r[j] => i = j
  BY <1>4, SetToSeqShape
<1>6. \A e \in R : \E q \in m.terminals : printed[q] # 0 /\ e = Whole(q, printed[q])
  BY <1>1, <1>3
<1>7. \A q \in m.terminals : printed[q] # 0 => Whole(q, printed[q]) \in R
  BY <1>1, <1>3
<1>. HIDE DEF R, r, T, f
<1>8. \A i \in 1..Len(r) : r[i] \in R
  BY <1>5
<1>9. IsSeq(r) /\ Repeats(m, r, printed)
  BY <1>5, <1>6, <1>7, <1>8 DEF IsSeq, Repeats
<1>10. \A i \in 1..Len(r) : TypedMessage(r[i])
  BY <1>6, <1>8 DEF TypedMessage, Whole, Printed
<1>. QED BY <1>9, <1>10 DEF r, R, Messages

LEMMA AttachFed ==
    ASSUME FInv, AInv', NEW k \in Sockets, Attach(k)
    PROVE  FInv'
<1>. DEFINE so == socket[k]
            to == socket'[k]
            do == so.doing
            s  == do.session
            x  == wire[k]
<1>1. so.phase = "open" /\ do.step = "attach" /\ UNCHANGED <<list, issued, printed, gui>>
  BY DEF Attach, At
<1>2. CASE s \notin DOMAIN sessions
  <2>1. /\ Reply(k, <<Error("switch")>>) /\ socket' = [socket EXCEPT ![k].doing = Idle]
        /\ UNCHANGED sessions
    BY <1>2 DEF Attach
  <2>2. NoMore(sessions, sessions') /\ Listed(list')
    BY <1>1, <2>1, NoMoreSame DEF FInv
  <2>. QED BY <1>1, <2>1, <2>2, DoneShape, QuietSteps, PlainStep
<1>3. CASE s \in DOMAIN sessions
  <2>. DEFINE m == Switched(do)
              r == SetToSeq(Replay(s))
  <2>1. /\ sessions' = [sessions EXCEPT ![s].subscriber = k] /\ Reply(k, <<m>> \o r)
        /\ socket' = [socket EXCEPT ![k].session = s, ![k].doing = Idle]
    BY <1>3 DEF Attach, Answer
  <2>2. /\ \A j \in Sockets : j # k => socket'[j] = socket[j]
        /\ to.phase = so.phase /\ to.peer = so.peer /\ to.session = s /\ to.queue = so.queue
        /\ to.doing = Idle /\ to.requests = so.requests
    BY <2>1 DEF FInv, AInv, SocketsShaped, SocketFields
  <2>3. /\ m.type = "switched" /\ m.workspace = do.workspace
        /\ m.terminals = sessions[s].terminals /\ m.tabs = do.tabs
    BY DEF Switched
  <2>4. Neat(so, x) /\ Issued(sessions, printed, issued)
    BY DEF FInv, AllNeat
  <2>5. TypedMessage(m)
    BY <1>1, <1>3, <2>3, <2>4 DEF TypedMessage, Neat, TypedDoing, TypedStep, Issued
  <2>. HIDE DEF m
  <2>6. IsSeq(r) /\ Repeats(m, r, printed) /\ Messages(r)
    BY <1>3, <2>3, ReplayShape
  <2>. HIDE DEF r
  <2>. DEFINE z == <<m>> \o r
  <2>7. Messages(z)
    BY <2>5, <2>6, MessagesOne, MessagesCat
  <2>8. /\ DOMAIN sessions' = DOMAIN sessions
        /\ \A t \in DOMAIN sessions :
              /\ sessions'[t].terminals = sessions[t].terminals
              /\ sessions'[t].subscriber = IF t = s THEN k ELSE sessions[t].subscriber
    BY <2>1 DEF FInv, AInv, SubscribersTyped
  \* It was subscribed to nothing else.
  <2>9. \A t \in DOMAIN sessions : sessions[t].subscriber # k
    <3>1. so.session = None /\ k # None
      BY <1>1, SessionsAssumption DEF FInv, AInv, AttachesFree, Bound
    <3>. QED BY <1>1, <3>1 DEF FInv, AInv, SubscriberAttached, SubscribersTyped
  <2>10. \A j \in Sockets : j # k =>
            Benign(j, sessions, printed, issued, sessions', printed', issued')
    BY <1>1, <2>8 DEF Benign
  <2>11. Issued(sessions', printed', issued') /\ Listed(list')
    BY <1>1, <2>4, <2>8 DEF Issued, FInv
  <2>12. /\ DOMAIN wire' = Sockets /\ \A j \in Sockets : j # k => wire'[j] = wire[j]
         /\ wire'[k] = IF so.peer THEN x \o z ELSE x
    BY <2>1, ReplyShape
  <2>13. sessions[s].terminals \subseteq issued \cap Terminals
         /\ \A p \in sessions[s].terminals : printed[p] \in Nat
    BY <1>3, <2>4 DEF Issued
  <2>14. sessions'[s].terminals = sessions[s].terminals
         /\ \A t \in DOMAIN sessions' : sessions'[t].subscriber = k => t = s
    BY <1>3, <2>8, <2>9
  <2>. HIDE DEF so, to, x, z
  <2>15. Neat(to, wire'[k])
    <3>1. Messages(x) /\ Messages(wire'[k])
      BY <2>4, <2>7, <2>12, MessagesCat DEF Neat
    <3>. QED BY <1>1, <2>2, <2>4, <3>1, QuietSteps DEF Neat
  <2>. HIDE DEF s, do
  <2>16. ASSUME NEW g, so.peer, Good(g, so, x, k, sessions, printed, issued)
         PROVE  Good(g, to, wire'[k], k, sessions', printed', issued')
    <3>1. Good(g, to, x \o (<<m>> \o r), k, sessions', printed, issued)
      <4>1. s = so.doing.session /\ m.workspace = so.doing.workspace /\ so.doing.step = "attach"
        BY <1>1, <2>3 DEF s, do
      <4>. QED BY <1>3, <2>2, <2>3, <2>4, <2>6, <2>8, <2>13, <2>14, <2>16, <4>1, GoodAttach
    <3>2. wire'[k] = x \o (<<m>> \o r)
      BY <2>12, <2>16 DEF z
    <3>. QED BY <1>1, <3>1, <3>2
  <2>. QED BY <1>1, <2>2, <2>10, <2>11, <2>12, <2>15, <2>16, SocketStep DEF so, to, x
<1>. QED BY <1>2, <1>3

LEMMA CloseWorkspaceFed ==
    ASSUME "backlog" \notin Ops, FInv, AInv', NEW k \in Sockets, CloseWorkspace(k)
    PROVE  FInv'
<1>. DEFINE w     == Request(k).workspace
            so    == socket[k]
            to    == socket'[k]
            focus == Closed(list, w).focused
            go    == Detaching(SessionAt(w), Destroying(w, SessionAt(w), focus))
<1>0. Serving(k, "close") /\ UNCHANGED <<gui, printed, issued, sessions>>
  BY DEF CloseWorkspace
<1>1. CASE ~Known(list, w) \/ Len(list.order) <= 1
  <2>1. Refuse(k, "close") /\ UNCHANGED list
    BY <1>1 DEF CloseWorkspace
  <2>. QED BY <1>0, <2>1, RefuseFed
<1>2. CASE ~(~Known(list, w) \/ Len(list.order) <= 1)
  <2>1. w \in Held /\ list.byId[w].session = SessionAt(w)
    BY <1>2 DEF FInv, Listed, Entry, Known
  <2>2. /\ list' = Closed(list, w) /\ UNCHANGED wire
        /\ socket' = [socket EXCEPT
              ![k].requests = Tail(@),
              ![k].session = IF @ = list.byId[w].session THEN None ELSE @,
              ![k].doing = Detaching(list.byId[w].session,
                                     Destroying(w, list.byId[w].session, focus))]
    BY <1>2 DEF CloseWorkspace
  <2>3. /\ \A j \in Sockets : j # k => socket'[j] = socket[j]
        /\ to.phase = so.phase /\ to.peer = so.peer /\ to.queue = so.queue
        /\ to.session = (IF so.session = SessionAt(w) THEN None ELSE so.session)
        /\ to.doing = go /\ to.requests = Tail(so.requests)
    BY <2>1, <2>2 DEF FInv, AInv, SocketsShaped, SocketFields
  <2>4. Neat(so, wire[k]) /\ so.phase = "open" /\ so.requests # <<>>
        /\ Head(so.requests).op = "close"
    BY <1>0, ServingShape DEF FInv, AllNeat
  <2>5. TypedDoing(go)
    BY DEF TypedDoing, TypedStep, Detaching, Destroying
  <2>6. Listed(list')
    BY <2>2, ClosedListed DEF FInv
  <2>. HIDE DEF go, to, so, w, focus
  <2>7. Neat(to, wire'[k])
    BY <2>2, <2>3, <2>4, <2>5, WantingTail DEF Neat
  <2>8. ASSUME NEW g, Good(g, so, wire[k], k, sessions, printed, issued)
        PROVE  Good(g, to, wire'[k], k, sessions', printed', issued')
    <3>1. Good(g, to, wire[k], k, sessions, printed, issued)
      BY <2>1, <2>3, <2>4, <2>8, GoodClose DEF go
    <3>. QED BY <1>0, <2>2, <3>1
  <2>9. /\ DOMAIN wire' = Sockets /\ Issued(sessions', printed', issued')
        /\ \A j \in Sockets : Benign(j, sessions, printed, issued, sessions', printed', issued')
    BY <1>0, <2>2, BenignSame DEF FInv, Shaped
  <2>. QED BY <1>0, <2>2, <2>3, <2>6, <2>7, <2>8, <2>9, SocketStep DEF so, to
<1>. QED BY <1>1, <1>2

LEMMA DestroyFed ==
    ASSUME FInv, AInv', NEW k \in Sockets, Destroy(k)
    PROVE  FInv'
<1>. DEFINE so == socket[k]
            to == socket'[k]
            do == so.doing
            x  == wire[k]
            m  == IF do.session \in DOMAIN sessions
                  THEN [type |-> "gone", workspace |-> do.workspace, focus |-> do.focus]
                  ELSE Error("close")
<1>1. /\ so.phase = "open" /\ do.step = "destroy" /\ sessions' = Destroyed(do.session)
      /\ socket' = [socket EXCEPT ![k].doing = Idle] /\ Reply(k, <<m>>)
      /\ UNCHANGED <<list, issued, printed, gui>>
  BY DEF Destroy, At
<1>2. /\ \A j \in Sockets : j # k => socket'[j] = socket[j]
      /\ to.phase = so.phase /\ to.peer = so.peer /\ to.session = so.session /\ to.queue = so.queue
      /\ to.doing = Idle /\ to.requests = so.requests
  BY <1>1, DoneShape
<1>3. NoMore(sessions, sessions')
  BY <1>1 DEF NoMore, Destroyed, Restrict
<1>4. m.type \in {"gone", "error"} /\ (m.type = "gone" => m.workspace = do.workspace)
  BY DEF Error
<1>5. Neat(so, x)
  BY DEF FInv, AllNeat
<1>. HIDE DEF m
<1>6. Messages(<<m>>)
  BY <1>4, MessagesOne DEF TypedMessage
<1>7. /\ DOMAIN wire' = Sockets /\ \A j \in Sockets : j # k => wire'[j] = wire[j]
      /\ wire'[k] = IF so.peer THEN x \o <<m>> ELSE x
  BY <1>1, ReplyShape
<1>8. /\ Issued(sessions', printed', issued') /\ Listed(list')
      /\ \A j \in Sockets : Benign(j, sessions, printed, issued, sessions', printed', issued')
  BY <1>1, <1>3, NoMoreIssued, NoMoreBenign DEF FInv
<1>. HIDE DEF so, to, x
<1>9. Neat(to, wire'[k])
  <2>1. Messages(x) /\ Messages(wire'[k])
    BY <1>5, <1>6, <1>7, MessagesCat DEF Neat
  <2>. QED BY <1>1, <1>2, <1>5, <2>1, QuietSteps DEF Neat
<1>10. ASSUME NEW g, so.peer, Good(g, so, x, k, sessions, printed, issued)
       PROVE  Good(g, to, wire'[k], k, sessions', printed', issued')
  <2>1. Good(g, to, x \o <<m>>, k, sessions', printed', issued')
    BY <1>1, <1>2, <1>4, <1>5, <1>8, <1>10, GoodDestroy
  <2>. QED BY <1>7, <1>10, <2>1
<1>. QED BY <1>1, <1>2, <1>7, <1>8, <1>9, <1>10, SocketStep DEF so, to, x

LEMMA NotesFed ==
    ASSUME FInv, AInv', NEW k \in Sockets, Note(k) \/ Unnote(k)
    PROVE  FInv'
<1>1. /\ socket[k].phase = "open" /\ socket' = [socket EXCEPT ![k].doing = Idle]
      /\ UNCHANGED <<sessions, issued, printed, wire, gui>>
      /\ \E s, p : list' = WithTerminal(list, s, p) \/ list' = WithoutTerminal(list, s, p)
  BY DEF Note, Unnote, At
<1>2. Listed(list')
  BY <1>1, WithTerminalListed, WithoutTerminalListed DEF FInv
<1>3. NoMore(sessions, sessions')
  BY <1>1, NoMoreSame
<1>. QED BY <1>1, <1>2, <1>3, DoneShape, QuietSteps, PlainStep

LEMMA SetLayoutFed ==
    ASSUME "backlog" \notin Ops, FInv, AInv', NEW k \in Sockets, SetLayout(k)
    PROVE  FInv'
<1>. DEFINE r == Request(k)
<1>0. Serving(k, "layout") /\ UNCHANGED <<gui, printed, issued, sessions>>
  BY DEF SetLayout
<1>1. CASE ~Known(list, r.workspace)
  <2>1. Refuse(k, "layout") /\ UNCHANGED list
    BY <1>1 DEF SetLayout
  <2>. QED BY <1>0, <2>1, RefuseFed
<1>2. CASE Known(list, r.workspace)
  <2>1. list' = LaidOut(list, r.workspace, r.tabs, 0, None) /\ Goes(k, Idle) /\ UNCHANGED wire
    BY <1>2 DEF SetLayout
  <2>2. IsSeq(r.tabs)
    <3>1. r = Head(socket[k].requests) /\ r.op = "layout" /\ socket[k].requests # <<>>
      BY <1>0, ServingShape
    <3>2. Wanting(socket[k].requests)
      BY DEF FInv, AllNeat, Neat
    <3>. QED BY <3>1, <3>2, WantingTail DEF TypedRequest
  <2>3. Listed(list')
    BY <2>1, <2>2, LaidOutListed DEF FInv
  <2>4. NoMore(sessions, sessions')
    BY <1>0, NoMoreSame
  <2>. QED BY <1>0, <2>1, <2>3, <2>4, ServingShape, GoesShape, QuietSteps, PlainStep
<1>. QED BY <1>1, <1>2

LEMMA DrainFed ==
    ASSUME FInv, AInv', NEW k \in Sockets, Drain(k)
    PROVE  FInv'
<1>. DEFINE so == socket[k]
            to == socket'[k]
            x  == wire[k]
            m  == Head(so.queue)
<1>1. /\ so.phase = "open" /\ so.queue # <<>> /\ Reply(k, <<m>>)
      /\ socket' = [socket EXCEPT ![k].queue = Tail(@)]
      /\ UNCHANGED <<list, sessions, issued, printed, gui>>
  BY DEF Drain
<1>2. /\ \A j \in Sockets : j # k => socket'[j] = socket[j]
      /\ to.phase = so.phase /\ to.peer = so.peer /\ to.session = so.session
      /\ to.queue = Tail(so.queue) /\ to.doing = so.doing /\ to.requests = so.requests
  BY <1>1 DEF FInv, AInv, SocketsShaped, SocketFields
<1>3. Neat(so, x)
  BY DEF FInv, AllNeat
<1>4. Queued(Tail(so.queue)) /\ m.type \in {"data", "closed"}
  BY <1>1, <1>3, QueuedTail DEF Neat
<1>5. /\ DOMAIN wire' = Sockets /\ \A j \in Sockets : j # k => wire'[j] = wire[j]
      /\ wire'[k] = IF so.peer THEN x \o <<m>> ELSE x
  BY <1>1, ReplyShape
<1>6. /\ Issued(sessions', printed', issued') /\ Listed(list')
      /\ \A j \in Sockets : Benign(j, sessions, printed, issued, sessions', printed', issued')
  BY <1>1, BenignSame DEF FInv
<1>. HIDE DEF so, to, x
<1>7. Messages(<<m>>)
  BY <1>4, MessagesOne DEF TypedMessage
<1>8. Neat(to, wire'[k])
  <2>1. Messages(x) /\ Messages(wire'[k])
    BY <1>3, <1>5, <1>7, MessagesCat DEF Neat
  <2>. QED BY <1>1, <1>2, <1>3, <1>4, <2>1 DEF Neat
<1>9. ASSUME NEW g, so.peer, Good(g, so, x, k, sessions, printed, issued)
      PROVE  Good(g, to, wire'[k], k, sessions', printed', issued')
  <2>1. Good(g, to, x \o <<m>>, k, sessions, printed, issued)
    BY <1>1, <1>2, <1>3, <1>9, GoodDrain
  <2>. QED BY <1>1, <1>5, <1>9, <2>1
<1>. QED BY <1>1, <1>2, <1>5, <1>6, <1>8, <1>9, SocketStep DEF so, to, x

LEMMA DisconnectedFed ==
    ASSUME FInv, AInv', NEW k \in Sockets, Disconnected(k)
    PROVE  FInv'
<1>. DEFINE gone == [NewSocket EXCEPT !.phase = "closed", !.peer = FALSE]
<1>1. /\ ~socket[k].peer /\ socket' = [socket EXCEPT ![k] = gone]
      /\ (sessions' = sessions \/ \E s : sessions' = Unsubscribed(s))
      /\ UNCHANGED <<list, issued, printed, wire, gui>>
  BY DEF Disconnected
<1>2. socket'[k] = gone /\ \A j \in Sockets : j # k => socket'[j] = socket[j]
  BY <1>1 DEF FInv, AInv, SocketsShaped
<1>3. gone.phase = "closed" /\ gone.queue = <<>> /\ gone.requests = <<>> /\ gone.doing = Idle
  BY DEF NewSocket
<1>. HIDE DEF gone
<1>4. Neat(socket'[k], wire'[k])
  <2>1. Messages(wire'[k])
    BY <1>1 DEF FInv, AllNeat, Neat
  <2>. QED BY <1>2, <1>3, <2>1, ShortShapes, QuietSteps DEF Neat
<1>5. NoMore(sessions, sessions')
  BY <1>1 DEF NoMore, Unsubscribed, FInv, AInv, SubscribersTyped
<1>6. /\ DOMAIN wire' = Sockets /\ Issued(sessions', printed', issued') /\ Listed(list')
      /\ \A j \in Sockets : Benign(j, sessions, printed, issued, sessions', printed', issued')
  BY <1>1, <1>5, NoMoreIssued, NoMoreBenign DEF FInv, Shaped
<1>. QED BY <1>1, <1>2, <1>4, <1>6, SocketStep

-----------------------------------------------------------------------------
(* Terminals are opened, print, and end.                                   *)

\* What is queued, and for whom.
LEMMA EmittedQueues ==
    ASSUME NEW sockets, NEW s, NEW m, DOMAIN sockets = Sockets,
           \A k \in Sockets : DOMAIN sockets[k] = SocketFields,
           NEW j \in Sockets
    PROVE  LET e == Emitted(sockets, s, m)
           IN  /\ e[j].phase = sockets[j].phase /\ e[j].peer = sockets[j].peer
               /\ e[j].session = sockets[j].session /\ e[j].doing = sockets[j].doing
               /\ e[j].requests = sockets[j].requests
               /\ IF j = sessions[s].subscriber /\ j # None /\ sockets[j].phase = "open"
                  THEN e[j].queue = Append(sockets[j].queue, m)
                  ELSE e[j] = sockets[j]
  BY DEF Emitted, SocketFields

LEMMA PrintsFed ==
    ASSUME FInv, AInv', NEW p \in Terminals, Prints(p)
    PROVE  FInv'
<1>. DEFINE m == Printed(p, <<printed[p] + 1>>)
<1>1. PICK s \in DOMAIN sessions :
        /\ p \in sessions[s].terminals /\ printed' = [printed EXCEPT ![p] = @ + 1]
        /\ socket' = Emitted(socket, s, m)
        /\ UNCHANGED <<list, sessions, issued, wire, gui>>
  BY DEF Prints
<1>2. m.type = "data"
  BY DEF Printed
<1>3. /\ Issued(sessions, printed, issued) /\ p \in DOMAIN printed /\ printed[p] \in Nat
      /\ p \in issued \cap Terminals
      /\ \A t \in DOMAIN sessions : p \in sessions[t].terminals => t = s
  BY <1>1 DEF FInv, Issued
<1>4. /\ \A q : q # p => printed'[q] = printed[q]
      /\ DOMAIN printed' = Terminals /\ \A q \in Terminals : printed'[q] \in Nat
  BY <1>1, <1>3 DEF Issued
<1>5. Issued(sessions', printed', issued') /\ Listed(list') /\ DOMAIN wire' = Sockets
  BY <1>1, <1>3, <1>4 DEF Issued, FInv, Shaped
<1>6. ASSUME NEW j \in Sockets, j # sessions[s].subscriber
      PROVE  Benign(j, sessions, printed, issued, sessions', printed', issued')
  BY <1>1, <1>3, <1>4, <1>6 DEF Benign
<1>7. ASSUME NEW j \in Sockets
      PROVE  /\ socket'[j].phase = socket[j].phase /\ socket'[j].peer = socket[j].peer
             /\ socket'[j].session = socket[j].session /\ socket'[j].doing = socket[j].doing
             /\ socket'[j].requests = socket[j].requests
             /\ IF j = sessions[s].subscriber /\ j # None /\ socket[j].phase = "open"
                THEN socket'[j].queue = Append(socket[j].queue, m)
                ELSE socket'[j] = socket[j]
  <2>1. DOMAIN socket = Sockets /\ \A k \in Sockets : DOMAIN socket[k] = SocketFields
    BY DEF FInv, AInv, SocketsShaped
  <2>. HIDE DEF m
  <2>. QED BY <1>1, <2>1, EmittedQueues
<1>. HIDE DEF m
<1>8. ASSUME NEW j \in Sockets PROVE Neat(socket'[j], wire'[j])
  <2>1. Neat(socket[j], wire[j])
    BY DEF FInv, AllNeat
  <2>2. CASE socket'[j] = socket[j]
    BY <1>1, <2>1, <2>2
  <2>3. CASE socket'[j].queue = Append(socket[j].queue, m) /\ socket[j].phase = "open"
    <3>1. Queued(socket'[j].queue)
      BY <1>2, <2>1, <2>3, QueuedAppend DEF Neat
    <3>. QED BY <1>1, <1>7, <2>1, <2>3, <3>1 DEF Neat
  <2>. QED BY <1>7, <2>2, <2>3
<1>9. ASSUME NEW c \in Clients, NEW j \in Sockets, gui[c].socket = j, Owns(c, j)
      PROVE  Good(gui[c], socket'[j], wire'[j], j, sessions', printed', issued')
  <2>. DEFINE g  == gui[c]
              so == socket[j]
              to == socket'[j]
              x  == wire[j]
  <2>1. Good(g, so, x, j, sessions, printed, issued) /\ Neat(so, x) /\ so.phase = "open"
    BY <1>9 DEF Owns, FInv, AllNeat
  <2>2. CASE j = sessions[s].subscriber
    <3>1. ~Heading(so.doing, s)
      <4>1. j # None
        BY SessionsAssumption
      <4>2. so.session = s \/ (so.doing.step = "detach" /\ so.doing.session = s)
        BY <2>2, <4>1 DEF FInv, AInv, SubscriberAttached
      <4>3. Bound(so.doing) => so.session = None
        BY DEF FInv, AInv, AttachesFree
      <4>4. Sane(so.doing)
        BY <2>1 DEF Good, Controlled
      <4>5. s # None
        BY DEF FInv, AInv, SubscribersTyped
      <4>. QED BY <4>2, <4>3, <4>4, <4>5 DEF Heading, Bound, Sane
    <3>2. /\ to.requests = so.requests /\ to.session = so.session /\ to.doing = so.doing
          /\ to.queue = Append(so.queue, m)
      <4>1. j # None
        BY SessionsAssumption
      <4>. QED BY <1>7, <2>1, <2>2, <4>1
    <3>. HIDE DEF so, to, g, x
    <3>3. Good(g, to, x, j, sessions, [printed EXCEPT ![p] = @ + 1], issued)
      BY <1>1, <1>3, <2>1, <2>2, <3>1, <3>2, GoodPrint DEF m
    <3>. QED BY <1>1, <3>3 DEF g, to, x
  <2>3. CASE j # sessions[s].subscriber
    <3>1. to = so /\ wire'[j] = x
      BY <1>1, <1>7, <2>3
    <3>2. Good(g, so, x, j, sessions', printed', issued')
      BY <1>6, <2>1, <2>3, GoodElsewhere
    <3>. QED BY <3>1, <3>2
  <2>. QED BY <2>2, <2>3
<1>. QED BY <1>1, <1>5, <1>7, <1>8, <1>9, DaemonStep

\* A terminal ends, and its subscriber is told; socket k may have gone on meanwhile.
\* The sockets mid are those of socket, but for one which served a request.
Served(mid) ==
    /\ DOMAIN mid = Sockets /\ \A k \in Sockets : DOMAIN mid[k] = SocketFields
    /\ \A j \in Sockets :
          LET so == socket[j]
              to == mid[j]
          IN  to = so \/ ( /\ to.phase = so.phase /\ so.phase = "open" /\ to.peer = so.peer
                           /\ to.session = so.session /\ to.queue = so.queue
                           /\ Quiets(to.doing)
                           /\ so.requests # <<>> /\ to.requests = Tail(so.requests))

\* Terminal p of session s ends, S and so being what the sessions and the sockets become.
Ended(s, p, mid, S, so) ==
    /\ S = [sessions EXCEPT ![s].terminals = @ \ {p}]
    /\ so = Emitted(mid, s, [type |-> "closed", terminal |-> p])

LEMMA EndedFed ==
    ASSUME FInv, AInv', NEW s, NEW p, NEW sockets, Served(sockets),
           Ended(s, p, sockets, sessions', socket'),
           UNCHANGED <<list, issued, printed, wire, gui>>
    PROVE  FInv'
<1>. USE DEF Served, Ended
<1>. DEFINE m == [type |-> "closed", terminal |-> p]
<1>1. NoMore(sessions, sessions')
  BY DEF NoMore, FInv, AInv, SubscribersTyped
<1>2. /\ DOMAIN wire' = Sockets /\ Issued(sessions', printed', issued') /\ Listed(list')
      /\ \A j \in Sockets : Benign(j, sessions, printed, issued, sessions', printed', issued')
  BY <1>1, NoMoreIssued, NoMoreBenign DEF FInv, Shaped
<1>3. m.type = "closed"
  OBVIOUS
<1>. HIDE DEF m
<1>4. ASSUME NEW j \in Sockets
      PROVE  LET so == socket[j]
                 to == socket'[j]
             IN  /\ to.phase = so.phase /\ to.peer = so.peer /\ to.session = so.session
                 /\ Neat(to, wire[j])
                 /\ FewerMoves(so.requests, to.requests)
                 /\ to.doing = so.doing \/ Quiets(to.doing)
                 /\ to.queue = so.queue \/ to.queue = Append(so.queue, m)
  <2>. DEFINE so == socket[j]
              mi == sockets[j]
              to == socket'[j]
  <2>1. /\ to.phase = mi.phase /\ to.peer = mi.peer
        /\ to.session = mi.session /\ to.doing = mi.doing
        /\ to.requests = mi.requests
        /\ \/ to.queue = Append(mi.queue, m) /\ mi.phase = "open"
           \/ to = mi
    BY EmittedQueues DEF m
  <2>2. \/ mi = so
        \/ /\ mi.phase = so.phase /\ so.phase = "open" /\ mi.peer = so.peer
           /\ mi.session = so.session /\ mi.queue = so.queue
           /\ Quiets(mi.doing)
           /\ so.requests # <<>> /\ mi.requests = Tail(so.requests)
    OBVIOUS
  <2>3. Neat(so, wire[j])
    BY DEF FInv, AllNeat
  <2>. HIDE DEF so, mi, to
  <2>4. IsSeq(so.requests)
    BY <2>3 DEF Neat, Wanting
  <2>5. FewerMoves(so.requests, mi.requests) /\ Neat(mi, wire[j])
    <3>1. CASE mi = so
      BY <2>3, <2>4, <3>1, MovesSame
    <3>2. CASE mi # so
      <4>1. FewerMoves(so.requests, mi.requests)
        BY <2>2, <2>4, <3>2, MovesTail
      <4>2. Wanting(mi.requests) /\ TypedDoing(mi.doing)
        BY <2>2, <2>3, <3>2, WantingTail, QuietSteps DEF Neat
      <4>. QED BY <2>2, <2>3, <3>2, <4>1, <4>2 DEF Neat
    <3>. QED BY <3>1, <3>2
  <2>6. Neat(to, wire[j])
    <3>1. CASE to = mi
      BY <2>5, <3>1
    <3>2. CASE to.queue = Append(mi.queue, m) /\ mi.phase = "open"
      <4>1. Queued(to.queue)
        BY <1>3, <2>5, <3>2, QueuedAppend DEF Neat
      <4>. QED BY <2>1, <2>5, <3>2, <4>1 DEF Neat
    <3>. QED BY <2>1, <3>1, <3>2
  <2>7. to.queue = so.queue \/ to.queue = Append(so.queue, m)
    BY <2>1, <2>2
  <2>8. to.phase = so.phase /\ to.peer = so.peer /\ to.session = so.session
        /\ (to.doing = so.doing \/ Quiets(to.doing))
    BY <2>1, <2>2
  <2>9. FewerMoves(so.requests, to.requests)
    BY <2>1, <2>5
  <2>. QED BY <2>6, <2>7, <2>8, <2>9 DEF so, to
<1>5. ASSUME NEW c \in Clients, NEW j \in Sockets, gui[c].socket = j, Owns(c, j)
      PROVE  Good(gui[c], socket'[j], wire'[j], j, sessions', printed', issued')
  <2>. DEFINE g  == gui[c]
              so == socket[j]
              to == socket'[j]
              x  == wire[j]
  <2>1. Good(g, so, x, j, sessions, printed, issued) /\ Neat(so, x)
    BY <1>5 DEF Owns, FInv, AllNeat
  <2>2. /\ to.session = so.session /\ FewerMoves(so.requests, to.requests)
        /\ to.doing = so.doing \/ Quiets(to.doing)
        /\ to.queue = so.queue \/ to.queue = Append(so.queue, m)
    BY <1>4
  <2>. HIDE DEF g, so, to, x
  <2>3. IsSeq(so.queue) /\ IsSeq(x)
    BY <2>1 DEF Neat, Queued, Messages
  <2>. DEFINE e == <<>>
  <2>4. IsSeq(e) /\ Len(e) = 0 /\ x \o e = x /\ so.queue \o e = so.queue
    BY <2>3, ShortSeqs, EmptyCat
  <2>5. IsSeq(<<m>>) /\ Len(<<m>>) = 1 /\ <<m>>[1] = m
    BY ShortSeqs
  <2>. HIDE DEF e
  <2>6. PICK h : IsSeq(h) /\ to.queue = so.queue \o h /\ \A i \in 1..Len(h) : h[i].type = "closed"
    <3>1. CASE to.queue = so.queue
      <4>1. \A i \in 1..Len(e) : e[i].type = "closed"
        BY <2>4
      <4>. QED BY <2>4, <3>1, <4>1
    <3>2. CASE to.queue = Append(so.queue, m)
      <4>. DEFINE h == <<m>>
      <4>1. to.queue = so.queue \o h
        BY <2>3, <3>2, AppendIsCat
      <4>2. IsSeq(h) /\ \A i \in 1..Len(h) : h[i].type = "closed"
        <5>1. \A i \in 1..Len(h) : i = 1
          BY <2>5
        <5>. QED BY <1>3, <2>5, <5>1
      <4>. HIDE DEF h
      <4>. QED BY <4>1, <4>2
    <3>. QED BY <2>2, <3>1, <3>2
  <2>7. \A i \in 1..Len(e) : e[i].type = "error"
    BY <2>4
  <2>8. Benign(j, sessions, printed, issued, sessions', printed', issued')
    BY <1>2
  <2>9. Good(g, to, x \o e, j, sessions', printed', issued')
    <3>1. IsSeq(h) /\ to.queue = so.queue \o h /\ \A i \in 1..Len(h) : h[i].type = "closed"
      BY <2>6
    <3>2. FewerMoves(so.requests, to.requests) /\ (to.doing = so.doing \/ Quiets(to.doing))
      BY <2>2
    <3>3. to.session = so.session \/ \A w \in Held : to.session # SessionAt(w)
      BY <2>2
    <3>4. IsSeq(e)
      BY <2>4
    <3>. QED BY ONLY <2>1, <2>7, <2>8, <3>1, <3>2, <3>3, <3>4, GoodPlain
  <2>10. wire'[j] = x \o e
    BY <2>4 DEF x
  <2>. QED BY <2>9, <2>10 DEF g, to
<1>6. \A j \in Sockets : Neat(socket'[j], wire'[j])
  BY <1>4
<1>7. \A j \in Sockets : socket[j].phase = "open" /\ socket[j].peer =>
                                 socket'[j].phase = "open" /\ socket'[j].peer
  BY <1>4
<1>. QED BY <1>2, <1>5, <1>6, <1>7, DaemonStep

LEMMA EndsFed ==
    ASSUME FInv, AInv', NEW p \in Terminals, Ends(p)
    PROVE  FInv'
<1>1. PICK s \in DOMAIN sessions :
        /\ sessions' = [sessions EXCEPT ![s].terminals = @ \ {p}]
        /\ socket' = Emitted(socket, s, [type |-> "closed", terminal |-> p])
        /\ UNCHANGED <<list, issued, printed, wire, gui>>
  BY DEF Ends
<1>2. DOMAIN socket = Sockets /\ \A k \in Sockets : DOMAIN socket[k] = SocketFields
  BY DEF FInv, AInv, SocketsShaped
<1>3. Served(socket)
  BY <1>2 DEF Served
<1>4. Ended(s, p, socket, sessions', socket')
  BY <1>1 DEF Ended
<1>. QED BY <1>1, <1>3, <1>4, EndedFed

LEMMA KillTerminalFed ==
    ASSUME "backlog" \notin Ops, FInv, AInv', NEW k \in Sockets, KillTerminal(k)
    PROVE  FInv'
<1>. DEFINE p == Request(k).terminal
            s == socket[k].session
            sockets == [socket EXCEPT ![k].requests = Tail(@), ![k].doing = Unnoting(s, p)]
<1>0. Serving(k, "kill") /\ UNCHANGED <<list, issued, printed, gui>>
  BY DEF KillTerminal
<1>1. CASE p \notin Live(s)
  <2>1. Refuse(k, "kill") /\ UNCHANGED sessions
    BY <1>1 DEF KillTerminal
  <2>. QED BY <1>0, <2>1, RefuseFed
<1>2. CASE p \in Live(s)
  <2>1. /\ sessions' = [sessions EXCEPT ![s].terminals = @ \ {p}] /\ UNCHANGED wire
        /\ socket' = Emitted(sockets, s, [type |-> "closed", terminal |-> p])
    BY <1>2 DEF KillTerminal
  <2>2. /\ DOMAIN sockets = Sockets /\ \A j \in Sockets : DOMAIN sockets[j] = SocketFields
        /\ sockets[k].phase = socket[k].phase /\ sockets[k].peer = socket[k].peer
        /\ sockets[k].session = socket[k].session /\ sockets[k].queue = socket[k].queue
        /\ sockets[k].doing = Unnoting(s, p) /\ sockets[k].requests = Tail(socket[k].requests)
        /\ \A j \in Sockets : j # k => sockets[j] = socket[j]
    BY DEF FInv, AInv, SocketsShaped, SocketFields
  <2>3. socket[k].phase = "open" /\ socket[k].requests # <<>>
    BY <1>0, ServingShape
  <2>4. Quiets(sockets[k].doing)
    BY <2>2, QuietSteps
  <2>. HIDE DEF sockets, s, p
  <2>5. \A j \in Sockets :
           LET so == socket[j]
               to == sockets[j]
           IN  to = so \/ ( /\ to.phase = so.phase /\ so.phase = "open" /\ to.peer = so.peer
                            /\ to.session = so.session /\ to.queue = so.queue
                            /\ Quiets(to.doing)
                            /\ so.requests # <<>> /\ to.requests = Tail(so.requests))
    BY <2>2, <2>3, <2>4
  <2>6. DOMAIN sockets = Sockets /\ \A j \in Sockets : DOMAIN sockets[j] = SocketFields
    BY <2>2
  <2>7. UNCHANGED <<list, issued, printed, wire, gui>>
    BY <1>0, <2>1
  <2>8. Ended(s, p, sockets, sessions', socket')
    BY <2>1 DEF Ended
  <2>9. Served(sockets)
    BY <2>5, <2>6 DEF Served
  <2>. QED BY <2>7, <2>8, <2>9, EndedFed
<1>. QED BY <1>1, <1>2

-----------------------------------------------------------------------------
(* A terminal is opened.                                                   *)

\* Session s gets the terminals N, which nobody has been given.
LEMMA Grown ==
    ASSUME NEW S, NEW P, NEW I, Issued(S, P, I), NEW N, IsFiniteSet(N), N \subseteq Terminals,
           \A p \in N : p \notin I,
           NEW J, I \cup N \subseteq J, NEW s, NEW T, DOMAIN T \subseteq J,
           \A t \in DOMAIN T :
              /\ T[t].terminals = (IF t \in DOMAIN S THEN S[t].terminals ELSE {})
                                  \cup (IF t = s THEN N ELSE {})
              /\ t \in DOMAIN S => T[t].subscriber = S[t].subscriber
    PROVE  Issued(T, P, J) /\ \A j : Benign(j, S, P, I, T, P, J)
<1>1. \A t \in DOMAIN T : \A p \in T[t].terminals :
         \/ p \in I /\ t \in DOMAIN S /\ p \in S[t].terminals
         \/ p \notin I /\ p \in N /\ t = s
  BY DEF Issued
<1>2. \A t \in DOMAIN T : IsFiniteSet(T[t].terminals)
  <2>. SUFFICES ASSUME NEW t \in DOMAIN T PROVE IsFiniteSet(T[t].terminals)
    OBVIOUS
  <2>. DEFINE A == IF t \in DOMAIN S THEN S[t].terminals ELSE {}
              B == IF t = s THEN N ELSE {}
  <2>1. IsFiniteSet(A) /\ IsFiniteSet(B) /\ T[t].terminals = A \cup B
    BY FS_EmptySet DEF Issued
  <2>. HIDE DEF A, B
  <2>2. IsFiniteSet(A \cup B)
    BY ONLY <2>1, FS_Union
  <2>. QED BY <2>1, <2>2
<1>3. \A t \in DOMAIN T : T[t].terminals \subseteq J \cap Terminals
  BY <1>1 DEF Issued
<1>4. \A t, u \in DOMAIN T : \A p \in T[t].terminals : p \in T[u].terminals => t = u
  BY <1>1 DEF Issued
<1>5. Issued(T, P, J)
  BY <1>2, <1>3, <1>4 DEF Issued
<1>6. ASSUME NEW j PROVE Benign(j, S, P, I, T, P, J)
  BY <1>1 DEF Benign
<1>. QED BY <1>5, <1>6

LEMMA HadShape ==
    ASSUME FInv, NEW k \in Sockets,
           NEW s \in IF socket[k].session # None THEN {socket[k].session} ELSE Sessions \ issued
    PROVE  LET had == WithSession(k, s)
           IN  /\ DOMAIN had \subseteq DOMAIN sessions \cup {s}
               /\ \A t \in DOMAIN had :
                    /\ DOMAIN had[t] = {"terminals", "subscriber"}
                    /\ had[t].terminals = IF t \in DOMAIN sessions THEN sessions[t].terminals ELSE {}
                    /\ t \in DOMAIN sessions => had[t].subscriber = sessions[t].subscriber
<1>1. CASE socket[k].session # None
  <2>1. WithSession(k, s) = sessions
    BY <1>1 DEF WithSession
  <2>. QED BY <2>1 DEF FInv, AInv, SubscribersTyped
<1>2. CASE socket[k].session = None
  <2>. DEFINE had == WithSession(k, s)
  <2>1. had = [x \in DOMAIN sessions \cup {s} |->
                  IF x = s THEN [terminals |-> {}, subscriber |-> k] ELSE sessions[x]]
    BY <1>2 DEF WithSession, NewSession
  <2>2. s \notin DOMAIN sessions
    BY <1>2 DEF FInv, Issued
  <2>. HIDE DEF had
  <2>3. DOMAIN had = DOMAIN sessions \cup {s}
    BY <2>1
  <2>4. ASSUME NEW t \in DOMAIN had, t # s
        PROVE  had[t] = sessions[t] /\ t \in DOMAIN sessions
               /\ DOMAIN had[t] = {"terminals", "subscriber"}
    BY <2>1, <2>3, <2>4 DEF FInv, AInv, SubscribersTyped
  <2>5. had[s] = [terminals |-> {}, subscriber |-> k]
    BY <2>1
  <2>6. ASSUME NEW t \in DOMAIN had
        PROVE  /\ DOMAIN had[t] = {"terminals", "subscriber"}
               /\ had[t].terminals = IF t \in DOMAIN sessions THEN sessions[t].terminals ELSE {}
               /\ t \in DOMAIN sessions => had[t].subscriber = sessions[t].subscriber
    <3>1. CASE t = s
      BY <2>2, <2>5, <3>1
    <3>2. CASE t # s
      BY <2>4, <3>2
    <3>. QED BY <3>1, <3>2
  <2>. QED BY <2>3, <2>6 DEF had
<1>. QED BY <1>1, <1>2

LEMMA OpenTerminalFed ==
    ASSUME "backlog" \notin Ops, FInv, AInv', NEW k \in Sockets, OpenTerminal(k)
    PROVE  FInv'
<1>. DEFINE so == socket[k]
            to == socket'[k]
            x  == wire[k]
            Fail(s) == /\ sessions' = WithSession(k, s) /\ issued' = issued \cup {s}
                       /\ socket' = [socket EXCEPT ![k].requests = Tail(@), ![k].session = s]
                       /\ Reply(k, <<Error("open")>>)
            Open(s, p) ==
                /\ s \in DOMAIN WithSession(k, s)
                /\ sessions' = [WithSession(k, s) EXCEPT ![s].terminals = @ \cup {p}]
                /\ issued' = issued \cup {s, p}
                /\ \E do \in {Noting(s, p)} \cup IF socket[k].peer THEN {} ELSE {Idle} :
                      socket' = [socket EXCEPT ![k].requests = Tail(@), ![k].session = s,
                                               ![k].doing = do]
                /\ Reply(k, <<[type |-> "opened", terminal |-> p]>>)
<1>0. Serving(k, "open") /\ UNCHANGED <<list, printed, gui>>
  BY DEF OpenTerminal
<1>1. PICK s \in IF socket[k].session # None THEN {socket[k].session} ELSE Sessions \ issued :
        Fail(s) \/ \E p \in Terminals \ issued : Open(s, p)
  BY ZenonT(60) DEF OpenTerminal
<1>2. /\ Neat(so, x) /\ Issued(sessions, printed, issued) /\ Listed(list') /\ DOMAIN wire = Sockets
      /\ DOMAIN socket = Sockets /\ DOMAIN so = SocketFields
  BY <1>0 DEF FInv, AllNeat, AInv, SocketsShaped, Shaped
<1>3. so.phase = "open" /\ so.doing = Idle /\ so.requests # <<>> /\ so.queue = <<>>
  BY <1>0, ServingShape
<1>4. s = so.session \/ \A w \in Held : s # SessionAt(w)
  BY <1>1, <1>2 DEF Issued
<1>. DEFINE had == WithSession(k, s)
<1>5. /\ DOMAIN had \subseteq DOMAIN sessions \cup {s}
      /\ \A t \in DOMAIN had :
           /\ DOMAIN had[t] = {"terminals", "subscriber"}
           /\ had[t].terminals = IF t \in DOMAIN sessions THEN sessions[t].terminals ELSE {}
           /\ t \in DOMAIN sessions => had[t].subscriber = sessions[t].subscriber
  BY HadShape
<1>6. Wanting(so.requests) /\ Wanting(Tail(so.requests)) /\ IsSeq(so.requests)
  BY <1>2, <1>3, WantingTail DEF Neat, Wanting
<1>7. CASE Fail(s)
  <2>1. /\ \A j \in Sockets : j # k => socket'[j] = socket[j]
        /\ to.phase = so.phase /\ to.peer = so.peer /\ to.queue = so.queue
        /\ to.session = s /\ to.doing = so.doing /\ to.requests = Tail(so.requests)
    BY <1>2, <1>7 DEF SocketFields
  <2>2. Issued(sessions', printed', issued')
        /\ \A j : Benign(j, sessions, printed, issued, sessions', printed', issued')
    <3>. DEFINE N == {}
    <3>1. IsFiniteSet(N) /\ N \subseteq Terminals /\ (\A p \in N : p \notin issued)
          /\ issued \cup N \subseteq issued'
      BY <1>7, FS_EmptySet
    <3>2. DOMAIN sessions' \subseteq issued'
      BY <1>2, <1>5, <1>7 DEF Issued
    <3>3. \A t \in DOMAIN sessions' :
             /\ sessions'[t].terminals = (IF t \in DOMAIN sessions THEN sessions[t].terminals ELSE {})
                                         \cup (IF t = s THEN N ELSE {})
             /\ t \in DOMAIN sessions => sessions'[t].subscriber = sessions[t].subscriber
      BY <1>5, <1>7
    <3>. HIDE DEF N
    <3>4. Issued(sessions', printed, issued')
          /\ \A j : Benign(j, sessions, printed, issued, sessions', printed, issued')
      BY <1>2, <3>1, <3>2, <3>3, Grown
    <3>. QED BY <1>0, <3>4
  <2>. DEFINE r == <<Error("open")>>
  <2>3. IsSeq(r) /\ Messages(r) /\ \A i \in 1..Len(r) : r[i].type = "error"
    BY ErrorShape
  <2>4. Reply(k, r)
    BY <1>7
  <2>. HIDE DEF r
  <2>5. /\ DOMAIN wire' = Sockets /\ \A j \in Sockets : j # k => wire'[j] = wire[j]
        /\ wire'[k] = IF so.peer THEN x \o r ELSE x
    BY <2>4, ReplyShape
  <2>. HIDE DEF so, to, x, had, Fail, Open
  <2>6. Neat(to, wire'[k])
    <3>1. Messages(x) /\ Messages(wire'[k])
      BY <1>2, <2>3, <2>5, MessagesCat DEF Neat
    <3>. QED BY <1>2, <1>3, <1>6, <2>1, <3>1 DEF Neat
  <2>7. ASSUME NEW g, so.peer, Good(g, so, x, k, sessions, printed, issued)
        PROVE  Good(g, to, wire'[k], k, sessions', printed', issued')
    <3>1. FewerMoves(so.requests, to.requests)
      BY <1>3, <1>6, <2>1, MovesTail
    <3>. DEFINE h == <<>>
    <3>2. IsSeq(h) /\ Len(h) = 0
      BY ShortSeqs
    <3>3. so.queue \o h = so.queue
      BY <1>2, EmptyCat DEF Neat, Queued
    <3>. HIDE DEF h
    <3>4. IsSeq(h) /\ to.queue = so.queue \o h /\ \A i \in 1..Len(h) : h[i].type = "closed"
      BY <2>1, <3>2, <3>3
    <3>5. to.session = so.session \/ \A w \in Held : to.session # SessionAt(w)
      BY <1>4, <2>1
    <3>6. to.doing = so.doing \/ Quiets(to.doing)
      BY <2>1
    <3>7. Benign(k, sessions, printed, issued, sessions', printed', issued')
      BY <2>2
    <3>8. Good(g, to, x \o r, k, sessions', printed', issued')
      BY ONLY <1>2, <2>3, <2>7, <3>1, <3>4, <3>5, <3>6, <3>7, GoodPlain
    <3>. QED BY <2>5, <2>7, <3>8
  <2>. QED BY <1>0, <1>2, <2>1, <2>2, <2>5, <2>6, <2>7, SocketStep DEF so, to, x
<1>8. CASE \E p \in Terminals \ issued : Open(s, p)
  <2>0. PICK p \in Terminals \ issued : Open(s, p)
    BY <1>8
  <2>. DEFINE m == [type |-> "opened", terminal |-> p]
  <2>1. PICK do \in {Noting(s, p)} \cup IF socket[k].peer THEN {} ELSE {Idle} :
            socket' = [socket EXCEPT ![k].requests = Tail(@), ![k].session = s, ![k].doing = do]
    BY <2>0
  <2>2. Quiets(do)
    BY QuietSteps
  <2>3. /\ \A j \in Sockets : j # k => socket'[j] = socket[j]
        /\ to.phase = so.phase /\ to.peer = so.peer /\ to.queue = so.queue
        /\ to.session = s /\ to.doing = do /\ to.requests = Tail(so.requests)
    BY <1>2, <2>1 DEF SocketFields
  <2>4. p \notin issued /\ p \in Terminals /\ printed[p] = 0 /\ p \in issued'
    BY <1>2, <2>0 DEF Issued
  <2>5. Issued(sessions', printed', issued')
        /\ \A j : Benign(j, sessions, printed, issued, sessions', printed', issued')
    <3>. DEFINE N == {p}
    <3>1. IsFiniteSet(N) /\ N \subseteq Terminals /\ (\A q \in N : q \notin issued)
          /\ issued \cup N \subseteq issued'
      BY <2>0, FS_Singleton
    <3>2. DOMAIN sessions' \subseteq issued'
      BY <1>2, <1>5, <2>0 DEF Issued
    <3>3. \A t \in DOMAIN sessions' :
             /\ sessions'[t].terminals = (IF t \in DOMAIN sessions THEN sessions[t].terminals ELSE {})
                                         \cup (IF t = s THEN N ELSE {})
             /\ t \in DOMAIN sessions => sessions'[t].subscriber = sessions[t].subscriber
      <4>. SUFFICES ASSUME NEW t \in DOMAIN sessions'
                    PROVE  /\ sessions'[t].terminals =
                                (IF t \in DOMAIN sessions THEN sessions[t].terminals ELSE {})
                                         \cup (IF t = s THEN N ELSE {})
                           /\ t \in DOMAIN sessions => sessions'[t].subscriber = sessions[t].subscriber
        OBVIOUS
      <4>1. sessions' = [had EXCEPT ![s].terminals = @ \cup {p}]
        BY <2>0
      <4>. HIDE DEF had, Open, Fail
      <4>2. t \in DOMAIN had /\ sessions'[t].subscriber = had[t].subscriber
            /\ sessions'[t].terminals = had[t].terminals \cup (IF t = s THEN N ELSE {})
        BY <1>5, <4>1
      <4>. QED BY <1>5, <4>2
    <3>. HIDE DEF N
    <3>4. Issued(sessions', printed, issued')
          /\ \A j : Benign(j, sessions, printed, issued, sessions', printed, issued')
      BY <1>2, <3>1, <3>2, <3>3, Grown
    <3>. QED BY <1>0, <3>4
  <2>6. m.type = "opened" /\ m.terminal = p /\ Reply(k, <<m>>)
    BY <2>0
  <2>. HIDE DEF m, so, to, x, had, Fail, Open
  <2>7. Messages(<<m>>)
    BY <2>6, MessagesOne DEF TypedMessage
  <2>8. /\ DOMAIN wire' = Sockets /\ \A j \in Sockets : j # k => wire'[j] = wire[j]
        /\ wire'[k] = IF so.peer THEN x \o <<m>> ELSE x
    BY <2>6, ReplyShape DEF so, x
  <2>9. Neat(to, wire'[k])
    <3>1. Messages(x) /\ Messages(wire'[k])
      BY <1>2, <2>7, <2>8, MessagesCat DEF Neat
    <3>. QED BY <1>2, <1>3, <1>6, <2>2, <2>3, <3>1, QuietSteps DEF Neat
  <2>10. ASSUME NEW g, so.peer, Good(g, so, x, k, sessions, printed, issued)
         PROVE  Good(g, to, wire'[k], k, sessions', printed', issued')
    <3>1. Quiets(to.doing) /\ (to.session = so.session \/ \A w \in Held : to.session # SessionAt(w))
      BY <1>4, <2>2, <2>3
    <3>2. Benign(k, sessions, printed, issued, sessions', printed, issued')
      BY <1>0, <2>5
    <3>3. to.requests = Tail(so.requests) /\ to.queue = so.queue
      BY <2>3
    <3>4. Good(g, to, x \o <<m>>, k, sessions', printed, issued')
      BY ONLY <1>2, <1>3, <2>4, <2>6, <2>10, <3>1, <3>2, <3>3, GoodOpened
    <3>. QED BY <1>0, <2>8, <2>10, <3>4
  <2>. QED BY <1>0, <1>2, <2>3, <2>5, <2>8, <2>9, <2>10, SocketStep DEF so, to, x
<1>. QED BY <1>1, <1>7, <1>8

-----------------------------------------------------------------------------
(* A step of a window.                                                     *)

LEMMA WindowStep ==
    ASSUME FInv, AInv', UNCHANGED <<list, sessions, issued, printed>>,
           NEW c \in Clients, NEW k \in Sockets, gui[c].socket = k \/ socket[k].phase = "new",
           DOMAIN gui' = Clients, \A d \in Clients : d # c => gui'[d] = gui[d],
           DOMAIN wire' = Sockets,
           \A j \in Sockets : j # k => socket'[j] = socket[j] /\ wire'[j] = wire[j],
           DOMAIN gui'[c] = GuiFields, Neat(socket'[k], wire'[k]),
           \/ gui'[c] = Offline
           \/ /\ gui'[c].socket = k /\ socket'[k].phase = "open" /\ socket'[k].peer
              /\ Good(gui'[c], socket'[k], wire'[k], k, sessions, printed, issued)
    PROVE  FInv'
<1>1. None \notin Sockets /\ Offline.socket = None /\ DOMAIN Offline.panels = {}
  BY SessionsAssumption DEF Offline
<1>2. gui'[c].socket \in {k, None}
  BY <1>1
<1>3. Shaped'
  BY <1>2 DEF FInv, Shaped
<1>4. AllNeat'
  BY DEF FInv, AllNeat
<1>5. ASSUME NEW d \in Clients, d # c, gui[d].socket # None
      PROVE  gui[d].socket \in Sockets /\ gui[d].socket # k /\ Owns(d, gui[d].socket)
  BY <1>5 DEF FInv, Shaped, Owned, Owns
<1>6. ASSUME NEW d \in Clients
      PROVE  (IF gui[d].socket = None THEN DOMAIN gui[d].panels = {} ELSE Owns(d, gui[d].socket))'
  <2>1. CASE d # c
    <3>1. CASE gui[d].socket = None
      BY <2>1, <3>1 DEF FInv, Owned
    <3>2. CASE gui[d].socket # None
      <4>1. PICK j \in Sockets : j = gui[d].socket /\ j # k /\ j # None /\ Owns(d, j)
        BY <1>5, <2>1, <3>2
      <4>2. socket'[j] = socket[j] /\ wire'[j] = wire[j] /\ gui'[d] = gui[d]
        BY <2>1, <4>1
      <4>3. ASSUME NEW e \in Clients, gui'[e].socket = j PROVE e = d
        <5>1. CASE e = c
          BY <1>2, <4>1, <4>3, <5>1
        <5>2. CASE e # c
          BY <4>1, <4>3, <5>2 DEF Owns
        <5>. QED BY <5>1, <5>2
      <4>4. Owns(d, j)'
        BY <4>1, <4>2, <4>3 DEF Owns
      <4>. QED BY <4>1, <4>2, <4>4
    <3>. QED BY <3>1, <3>2
  <2>2. CASE d = c /\ gui'[c] = Offline
    BY <1>1, <2>2
  <2>3. CASE d = c /\ gui'[c] # Offline
    <3>1. \A e \in Clients : gui'[e].socket = k => e = c
      <4>. SUFFICES ASSUME NEW e \in Clients, e # c, gui'[e].socket = k PROVE FALSE
        OBVIOUS
      <4>. QED BY <1>1, <1>5
    <3>2. k # None /\ gui'[c].socket = k
      BY <1>1, <2>3
    <3>3. Owns(c, k)'
      BY <2>3, <3>1, <3>2 DEF Owns
    <3>. QED BY <2>3, <3>2, <3>3
  <2>. QED BY <2>1, <2>2, <2>3
<1>7. Owned'
  BY <1>6 DEF Owned
<1>. QED BY <1>3, <1>4, <1>7 DEF FInv

\* Window c becomes g, and asks for r.
LEMMA BecomesFed ==
    ASSUME FInv, AInv', UNCHANGED <<list, sessions, issued, printed>>,
           NEW c \in Clients, NEW k \in Sockets, gui[c].socket = k,
           NEW g, DOMAIN g = GuiFields, g.socket = k, NEW r, Wanting(r), Becomes(c, g, r),
           DOMAIN wire' = Sockets, \A j \in Sockets : j # k => wire'[j] = wire[j],
           Messages(wire'[k]),
           \A to : /\ to.doing = socket[k].doing /\ to.session = socket[k].session
                   /\ to.queue = socket[k].queue /\ to.requests = socket[k].requests \o r
                   => Good(g, to, wire'[k], k, sessions, printed, issued)
    PROVE  FInv'
<1>. DEFINE so == socket[k]
            to == socket'[k]
<1>1. /\ DOMAIN gui' = Clients /\ gui'[c] = g /\ \A d \in Clients : d # c => gui'[d] = gui[d]
      /\ \A j \in Sockets : j # k => socket'[j] = socket[j]
      /\ to.phase = so.phase /\ to.peer = so.peer /\ to.session = so.session
      /\ to.queue = so.queue /\ to.doing = so.doing /\ to.requests = so.requests \o r
  BY DEF Becomes, FInv, Shaped, AInv, SocketsShaped, SocketFields
<1>2. so.phase = "open" /\ so.peer
  BY SessionsAssumption DEF FInv, Owned, Owns
<1>3. Neat(so, wire[k])
  BY DEF FInv, AllNeat
<1>. HIDE DEF so, to
<1>4. Wanting(to.requests)
  BY <1>1, <1>3, WantingCat DEF Neat
<1>5. Neat(to, wire'[k])
  BY <1>1, <1>2, <1>3, <1>4 DEF Neat
<1>6. Good(g, to, wire'[k], k, sessions, printed, issued)
  BY <1>1 DEF so
<1>7. /\ DOMAIN gui'[c] = GuiFields /\ gui'[c].socket = k
      /\ socket'[k].phase = "open" /\ socket'[k].peer
      /\ Neat(socket'[k], wire'[k])
      /\ Good(gui'[c], socket'[k], wire'[k], k, sessions, printed, issued)
  BY <1>1, <1>2, <1>5, <1>6 DEF so, to
<1>8. /\ DOMAIN gui' = Clients /\ \A d \in Clients : d # c => gui'[d] = gui[d]
      /\ \A j \in Sockets : j # k => socket'[j] = socket[j] /\ wire'[j] = wire[j]
  BY <1>1
<1>. QED BY <1>7, <1>8, WindowStep

\* What a window sends.
LEMMA PublishShape ==
    ASSUME NEW g, IsFiniteSet(DOMAIN g.panels)
    PROVE  Wanting(Publish(g)) /\ NoMove(Publish(g)) /\ IsSeq(Publish(g))
<1>. DEFINE q == SetToSeq(DOMAIN g.panels)
            l == Layout(g)
<1>1. IsSeq(q)
  BY SetToSeqShape DEF IsSeq
<1>2. l.op = "layout" /\ l.tabs = q
  BY DEF Layout
<1>. HIDE DEF q, l
<1>3. Wanting(<<l>>) /\ NoMove(<<l>>)
  BY <1>1, <1>2, WantingOne DEF TypedRequest, Move
<1>4. Publish(g) \in {<<>>, <<l>>}
  BY DEF Publish, l
<1>. QED BY <1>3, <1>4, ShortShapes DEF Wanting

LEMMA ForgetShape ==
    ASSUME NEW g, IsFiniteSet(DOMAIN g.panels), NEW p
    PROVE  Wanting(Forget(g, p)) /\ NoMove(Forget(g, p)) /\ IsSeq(Forget(g, p))
<1>. DEFINE e == Kill(p)
            z == Publish(g)
<1>1. e.op = "kill"
  BY DEF Kill
<1>. HIDE DEF e
<1>2. Wanting(<<e>>) /\ NoMove(<<e>>) /\ IsSeq(<<e>>)
  BY <1>1, WantingOne, ShortSeqs DEF TypedRequest, Move
<1>3. Wanting(z) /\ NoMove(z) /\ IsSeq(z)
  BY PublishShape
<1>. HIDE DEF z
<1>4. Wanting(<<e>> \o z) /\ NoMove(<<e>> \o z)
  BY <1>2, <1>3, WantingCat, NoMoveCat
<1>. QED BY <1>4 DEF Forget, e, z, Wanting

LEMMA OpensShape ==
    ASSUME NEW n \in Nat
    PROVE  Wanting(Opens(n)) /\ NoMove(Opens(n)) /\ IsSeq(Opens(n))
<1>. DEFINE q == Opens(n)
            e == [op |-> "open"]
<1>1. q \in Seq({e}) /\ Len(q) = n /\ \A i \in 1..n : q[i] = e
  BY DEF Opens
<1>2. e.op = "open"
  OBVIOUS
<1>. HIDE DEF q, e
<1>. QED BY <1>1, <1>2 DEF Wanting, NoMove, TypedRequest, Move, IsSeq, q

\* What a window hears.
LEMMA HearsShape ==
    ASSUME FInv, NEW c \in Clients, NEW type, Hears(c, type)
    PROVE  LET k == gui[c].socket
           IN  /\ k \in Sockets /\ k # None /\ Owns(c, k) /\ DOMAIN gui[c] = GuiFields
               /\ wire[k] # <<>> /\ Event(c) = Head(wire[k]) /\ Event(c).type = type
               /\ TypedMessage(Event(c)) /\ Neat(socket[k], wire[k])
               /\ wire'[k] = Tail(wire[k]) /\ Messages(wire'[k])
               /\ DOMAIN wire' = Sockets /\ \A j \in Sockets : j # k => wire'[j] = wire[j]
               /\ UNCHANGED <<list, sessions, issued, printed>>
<1>. DEFINE k == gui[c].socket
            x == wire[k]
<1>1. k \in Sockets /\ k # None /\ Owns(c, k) /\ DOMAIN gui[c] = GuiFields
  BY DEF Hears, FInv, Shaped, Owned
<1>2. x # <<>> /\ Event(c) = Head(x) /\ Event(c).type = type /\ Neat(socket[k], x)
  BY <1>1 DEF Hears, Event, FInv, AllNeat
<1>3. /\ wire'[k] = Tail(x) /\ DOMAIN wire' = Sockets /\ \A j \in Sockets : j # k => wire'[j] = wire[j]
      /\ UNCHANGED <<list, sessions, issued, printed>>
  BY <1>1 DEF Hears, FInv, Shaped, daemonVars
<1>. HIDE DEF k, x
<1>4. Messages(Tail(x)) /\ TypedMessage(Head(x))
  BY <1>2, MessagesTail DEF Neat
<1>. QED BY <1>1, <1>2, <1>3, <1>4 DEF k, x

\* Of what is first on the wire of a window: it goes on where its panel ends.
LEMMA HeardSound ==
    ASSUME FInv, NEW c \in Clients, NEW type, Hears(c, type)
    PROVE  LET b == gui[c].panels
               m == Event(c)
           IN  /\ \A p \in DOMAIN b : /\ Feeds(m, p) => Len(b[p]) + 1 = m.chunks[1]
                                      /\ ~Adds(m, p)
               /\ Filled(b) /\ Fine(m) /\ IsFiniteSet(DOMAIN b)
<1>. DEFINE k  == gui[c].socket
            so == socket[k]
            x  == wire[k]
            b  == gui[c].panels
<1>1. Good(gui[c], so, x, k, sessions, printed, issued) /\ Neat(so, x) /\ x # <<>>
      /\ Event(c) = Head(x)
  BY HearsShape DEF Owns
<1>. HIDE DEF so, x, k
<1>2. /\ Flow(b, x, so.queue, k, so.doing, sessions, printed, issued)
      /\ IsSeq(x) /\ IsSeq(so.queue) /\ IsFiniteSet(DOMAIN b)
  BY <1>1 DEF Good, Neat, Messages, Queued
<1>. HIDE DEF b
<1>3. /\ \A p \in DOMAIN b : /\ Feeds(Head(x), p) => Len(b[p]) + 1 = Head(x).chunks[1]
                             /\ ~Adds(Head(x), p)
      /\ Filled(b) /\ Fine(Head(x))
  BY <1>1, <1>2, FirstSound
<1>. QED BY <1>1, <1>2, <1>3 DEF b

-----------------------------------------------------------------------------
(* The events of a window.                                                 *)

\* It hears of no move, and becomes g.
LEMMA HeardBecomes ==
    ASSUME FInv, AInv', NEW c \in Clients, NEW type, type \notin {"switched", "gone"}, Hears(c, type),
           NEW g, DOMAIN g = GuiFields, g.socket = gui[c].socket, g.workspace = gui[c].workspace,
           IsFiniteSet(DOMAIN g.panels), Taken(gui[c].panels, g.panels, Event(c)),
           NEW r, Wanting(r), NoMove(r), IsSeq(r), Becomes(c, g, r)
    PROVE  FInv'
<1>. DEFINE k  == gui[c].socket
            so == socket[k]
            x  == wire[k]
            b  == gui[c]
            m  == Event(c)
<1>1. /\ k \in Sockets /\ Owns(c, k) /\ x # <<>> /\ m = Head(x) /\ m.type = type /\ Neat(so, x)
      /\ wire'[k] = Tail(x) /\ Messages(wire'[k])
      /\ DOMAIN wire' = Sockets /\ \A j \in Sockets : j # k => wire'[j] = wire[j]
      /\ UNCHANGED <<list, sessions, issued, printed>>
  BY HearsShape
<1>2. Good(b, so, x, k, sessions, printed, issued)
  BY <1>1 DEF Owns
<1>3. ~Tell(Head(x))
  BY <1>1 DEF Tell
<1>4. g.socket = k /\ g.workspace = b.workspace /\ Taken(b.panels, g.panels, Head(x))
  BY <1>1
<1>. HIDE DEF so, x, b, m
<1>5. ASSUME NEW to, to.doing = so.doing, to.session = so.session, to.queue = so.queue,
             to.requests = so.requests \o r
      PROVE  Good(g, to, Tail(x), k, sessions, printed, issued)
  BY <1>1, <1>2, <1>3, <1>4, <1>5, GoodHeard
<1>6. \A to : /\ to.doing = so.doing /\ to.session = so.session
              /\ to.queue = so.queue /\ to.requests = so.requests \o r
              => Good(g, to, wire'[k], k, sessions, printed, issued)
  BY <1>1, <1>5
<1>. HIDE DEF k
<1>. QED BY <1>1, <1>4, <1>6, BecomesFed DEF so, k

\* ... and asks for nothing.
LEMMA HeardStays ==
    ASSUME FInv, AInv', NEW c \in Clients, NEW type, type \notin {"switched", "gone"}, Hears(c, type),
           UNCHANGED socket, DOMAIN gui' = Clients, \A d \in Clients : d # c => gui'[d] = gui[d],
           DOMAIN gui'[c] = GuiFields, gui'[c].socket = gui[c].socket,
           gui'[c].workspace = gui[c].workspace,
           IsFiniteSet(DOMAIN gui'[c].panels), Taken(gui[c].panels, gui'[c].panels, Event(c))
    PROVE  FInv'
<1>. DEFINE k  == gui[c].socket
            so == socket[k]
            x  == wire[k]
            b  == gui[c]
            g  == gui'[c]
            e  == <<>>
<1>1. /\ k \in Sockets /\ Owns(c, k) /\ x # <<>> /\ Event(c) = Head(x) /\ Event(c).type = type
      /\ Neat(so, x) /\ wire'[k] = Tail(x) /\ Messages(wire'[k])
      /\ DOMAIN wire' = Sockets /\ \A j \in Sockets : j # k => wire'[j] = wire[j]
      /\ UNCHANGED <<list, sessions, issued, printed>>
  BY HearsShape
<1>2. Good(b, so, x, k, sessions, printed, issued) /\ so.phase = "open" /\ so.peer
  BY <1>1 DEF Owns
<1>3. ~Tell(Head(x))
  BY <1>1 DEF Tell
<1>4. g.socket = k /\ g.workspace = b.workspace /\ Taken(b.panels, g.panels, Head(x))
      /\ IsFiniteSet(DOMAIN g.panels)
  BY <1>1
<1>5. NoMove(e) /\ IsSeq(e) /\ so.requests \o e = so.requests
  BY <1>1, ShortSeqs, ShortShapes, EmptyCat DEF Neat, Wanting
<1>. HIDE DEF so, x, b, g, e
<1>6. Good(g, so, Tail(x), k, sessions, printed, issued)
  BY <1>1, <1>2, <1>3, <1>4, <1>5, GoodHeard
<1>7. socket'[k] = so
  BY DEF so
<1>8. Neat(socket'[k], wire'[k])
  BY <1>1, <1>2, <1>7 DEF Neat
<1>9. Good(gui'[c], socket'[k], wire'[k], k, sessions, printed, issued)
  BY <1>1, <1>6, <1>7 DEF g
<1>10. gui[c].socket = k /\ socket'[k].phase = "open" /\ socket'[k].peer /\ gui'[c].socket = k
  BY <1>2, <1>4, <1>7 DEF g
<1>. HIDE DEF k
<1>. QED BY <1>1, <1>8, <1>9, <1>10, WindowStep

LEMMA OnDataFed ==
    ASSUME FInv, AInv', NEW c \in Clients, OnData(c)
    PROVE  FInv'
<1>. DEFINE m == Event(c)
            p == m.terminal
            b == gui[c].panels
<1>1. Hears(c, "data") /\ UNCHANGED socket
  BY DEF OnData
<1>2. m.type = "data" /\ DOMAIN gui[c] = GuiFields /\ DOMAIN gui = Clients
  BY <1>1, HearsShape DEF FInv, Shaped
<1>3. /\ \A q \in DOMAIN b : Feeds(m, q) => Len(b[q]) + 1 = m.chunks[1]
      /\ Filled(b) /\ Fine(m) /\ IsFiniteSet(DOMAIN b)
  BY <1>1, HeardSound
<1>4. CASE p \notin DOMAIN b
  <2>1. gui' = gui
    BY <1>4 DEF OnData
  <2>2. \A q \in DOMAIN b : ~Touches(m, q)
    BY <1>2, <1>4 DEF Touches, Adds, Feeds
  <2>. HIDE DEF m
  <2>3. Taken(b, b, m)
    BY <1>3, <2>2, TakenOthers
  <2>. QED BY <1>1, <1>2, <1>3, <2>1, <2>3, HeardStays DEF m
<1>5. CASE p \in DOMAIN b
  <2>. DEFINE z == [b EXCEPT ![p] = @ \o m.chunks]
  <2>1. gui' = [gui EXCEPT ![c].panels[p] = @ \o m.chunks]
    BY <1>5 DEF OnData
  <2>2. /\ DOMAIN gui' = Clients /\ \A d \in Clients : d # c => gui'[d] = gui[d]
        /\ DOMAIN gui'[c] = GuiFields /\ gui'[c].socket = gui[c].socket
        /\ gui'[c].workspace = gui[c].workspace /\ gui'[c].panels = z
    BY <1>2, <2>1 DEF GuiFields
  <2>3. Feeds(m, p)
    BY <1>2 DEF Feeds
  <2>. HIDE DEF m, p, b
  <2>4. Taken(b, z, m)
    BY <1>3, <1>5, <2>3, TakenData
  <2>5. IsFiniteSet(DOMAIN z)
    BY <1>3
  <2>. HIDE DEF z
  <2>. QED BY <1>1, <2>2, <2>4, <2>5, HeardStays DEF m, b
<1>. QED BY <1>4, <1>5

LEMMA OnOpenedFed ==
    ASSUME FInv, AInv', NEW c \in Clients, OnOpened(c)
    PROVE  FInv'
<1>. DEFINE m == Event(c)
            p == m.terminal
            b == gui[c].panels
            z == [q \in DOMAIN b \cup {p} |-> IF q = p THEN <<>> ELSE b[q]]
            g == [gui[c] EXCEPT !.opening = @ - 1, !.panels = z]
<1>1. Hears(c, "opened")
  BY DEF OnOpened
<1>2. m.type = "opened" /\ DOMAIN gui[c] = GuiFields /\ DOMAIN gui = Clients
  BY <1>1, HearsShape DEF FInv, Shaped
<1>3. (\A q \in DOMAIN b : ~Adds(m, q)) /\ Filled(b) /\ IsFiniteSet(DOMAIN b)
  BY <1>1, HeardSound
<1>4. CASE ~Awaited(gui[c])
  <2>1. UNCHANGED <<gui, socket>>
    BY <1>4 DEF OnOpened
  <2>2. \A q \in DOMAIN b : ~Touches(m, q)
    BY <1>2, <1>3 DEF Touches, Feeds
  <2>. HIDE DEF m
  <2>3. Taken(b, b, m)
    BY <1>3, <2>2, TakenOthers
  <2>. QED BY <1>1, <1>2, <1>3, <2>1, <2>3, HeardStays DEF m
<1>5. CASE Awaited(gui[c])
  <2>1. Becomes(c, g, Publish(g))
    BY <1>5 DEF OnOpened
  <2>2. /\ DOMAIN g = GuiFields /\ g.socket = gui[c].socket
        /\ g.workspace = gui[c].workspace /\ g.panels = z
    BY <1>2 DEF GuiFields
  <2>. HIDE DEF m, p, b, g
  <2>3. Taken(b, z, m)
    <3>1. m.terminal = p
      BY DEF p
    <3>. QED BY <1>2, <1>3, <3>1, TakenOpened
  <2>4. IsFiniteSet(DOMAIN z)
    <3>1. DOMAIN z = DOMAIN b \cup {p}
      OBVIOUS
    <3>. HIDE DEF z
    <3>. QED BY <1>3, <3>1, FS_AddElement
  <2>. HIDE DEF z
  <2>5. Wanting(Publish(g)) /\ NoMove(Publish(g)) /\ IsSeq(Publish(g))
    BY <2>2, <2>4, PublishShape
  <2>. QED BY <1>1, <2>1, <2>2, <2>3, <2>4, <2>5, HeardBecomes DEF m, b
<1>. QED BY <1>4, <1>5

LEMMA ShutShape ==
    ASSUME NEW g, DOMAIN g = GuiFields, IsFiniteSet(DOMAIN g.panels), NEW p
    PROVE  LET h == Shut(g, p)
           IN  /\ DOMAIN h = GuiFields /\ h.socket = g.socket /\ h.workspace = g.workspace
               /\ DOMAIN h.panels = DOMAIN g.panels \ {p} /\ IsFiniteSet(DOMAIN h.panels)
               /\ \A q \in DOMAIN h.panels : h.panels[q] = g.panels[q]
<1>. DEFINE h == Shut(g, p)
<1>1. /\ DOMAIN h = GuiFields /\ h.socket = g.socket /\ h.workspace = g.workspace
      /\ h.panels = [q \in DOMAIN g.panels \ {p} |-> g.panels[q]]
  BY DEF Shut, Restrict, GuiFields
<1>2. DOMAIN h.panels = DOMAIN g.panels \ {p}
      /\ \A q \in DOMAIN h.panels : h.panels[q] = g.panels[q]
  BY <1>1
<1>3. IsFiniteSet(DOMAIN h.panels)
  BY <1>2, FS_RemoveElement
<1>. QED BY <1>1, <1>2, <1>3

LEMMA OnClosedFed ==
    ASSUME FInv, AInv', NEW c \in Clients, OnClosed(c)
    PROVE  FInv'
<1>. DEFINE m == Event(c)
            p == m.terminal
            b == gui[c].panels
            g == Shut(gui[c], p)
<1>1. Hears(c, "closed")
  BY DEF OnClosed
<1>2. m.type = "closed" /\ DOMAIN gui[c] = GuiFields /\ DOMAIN gui = Clients
  BY <1>1, HearsShape DEF FInv, Shaped
<1>3. Filled(b) /\ IsFiniteSet(DOMAIN b)
  BY <1>1, HeardSound
<1>4. \A q : ~Touches(m, q)
  BY <1>2 DEF Touches, Adds, Feeds
<1>5. CASE p \notin DOMAIN b
  <2>1. UNCHANGED <<gui, socket>>
    BY <1>5 DEF OnClosed
  <2>. HIDE DEF m
  <2>2. Taken(b, b, m)
    BY <1>3, <1>4, TakenOthers
  <2>. QED BY <1>1, <1>2, <1>3, <2>1, <2>2, HeardStays DEF m
<1>6. CASE p \in DOMAIN b
  <2>1. Becomes(c, g, Forget(g, p))
    BY <1>6 DEF OnClosed
  <2>2. /\ DOMAIN g = GuiFields /\ g.socket = gui[c].socket /\ g.workspace = gui[c].workspace
        /\ DOMAIN g.panels \subseteq DOMAIN b /\ IsFiniteSet(DOMAIN g.panels)
        /\ \A q \in DOMAIN g.panels : g.panels[q] = b[q]
    BY <1>2, <1>3, ShutShape
  <2>. HIDE DEF m, p, b, g
  <2>3. Taken(b, g.panels, m)
    BY <1>3, <1>4, <2>2, TakenOthers
  <2>4. Wanting(Forget(g, p)) /\ NoMove(Forget(g, p)) /\ IsSeq(Forget(g, p))
    BY <2>2, ForgetShape
  <2>. QED BY <1>1, <2>1, <2>2, <2>3, <2>4, HeardBecomes DEF m, b
<1>. QED BY <1>5, <1>6

LEMMA OnSwitchedFed ==
    ASSUME FInv, AInv', NEW c \in Clients, OnSwitched(c)
    PROVE  FInv'
<1>. DEFINE k    == gui[c].socket
            so   == socket[k]
            x    == wire[k]
            b    == gui[c]
            m    == Event(c)
            dead == Cardinality({i \in DOMAIN m.tabs : m.tabs[i] \notin m.terminals})
            n    == IF m.terminals = {} /\ dead = 0 THEN 1 ELSE dead
            z    == [p \in m.terminals |-> <<>>]
            g    == [b EXCEPT !.booted = TRUE, !.workspace = m.workspace, !.panels = z,
                              !.opening = n, !.switching = FALSE]
            told == IF m.terminals = {} THEN <<>> ELSE Publish(g)
            r    == Opens(n) \o told
<1>1. Hears(c, "switched") /\ Becomes(c, g, r)
  BY DEF OnSwitched, Shown
<1>2. /\ k \in Sockets /\ Owns(c, k) /\ DOMAIN b = GuiFields
      /\ x # <<>> /\ m = Head(x) /\ m.type = "switched" /\ TypedMessage(m) /\ Neat(so, x)
      /\ wire'[k] = Tail(x) /\ Messages(wire'[k])
      /\ DOMAIN wire' = Sockets /\ \A j \in Sockets : j # k => wire'[j] = wire[j]
      /\ UNCHANGED <<list, sessions, issued, printed>>
  BY <1>1, HearsShape
<1>3. Good(b, so, x, k, sessions, printed, issued)
  BY <1>2 DEF Owns
<1>4. IsFiniteSet(m.terminals) /\ IsSeq(m.tabs)
  BY <1>2 DEF TypedMessage
<1>5. n \in Nat
  <2>. DEFINE D == {i \in DOMAIN m.tabs : m.tabs[i] \notin m.terminals}
  <2>1. DOMAIN m.tabs = 1..Len(m.tabs) /\ Len(m.tabs) \in Nat
    BY <1>4, SeqShape
  <2>2. IsFiniteSet(1..Len(m.tabs)) /\ D \subseteq 1..Len(m.tabs)
    BY <2>1, FS_Interval
  <2>. HIDE DEF D
  <2>3. IsFiniteSet(D)
    BY <2>2, FS_Subset
  <2>4. Cardinality(D) \in Nat
    BY <2>3, FS_CardinalityType
  <2>. QED BY <2>4 DEF D
<1>6. /\ DOMAIN g = GuiFields /\ g.socket = k /\ g.workspace = m.workspace /\ g.panels = z
      /\ DOMAIN z = m.terminals
  BY <1>2 DEF GuiFields
<1>. HIDE DEF n, g, dead
<1>7. Taken(b.panels, z, m)
  BY <1>2, TakenSwitched
<1>8. IsFiniteSet(DOMAIN g.panels)
  BY <1>4, <1>6
<1>9. Wanting(told) /\ NoMove(told) /\ IsSeq(told)
  BY <1>8, PublishShape, ShortShapes, ShortSeqs
<1>. HIDE DEF told
<1>10. Wanting(r) /\ NoMove(r) /\ IsSeq(r)
  <2>. DEFINE o == Opens(n)
  <2>1. Wanting(o) /\ NoMove(o) /\ IsSeq(o)
    BY <1>5, OpensShape
  <2>. HIDE DEF o
  <2>2. Wanting(o \o told) /\ NoMove(o \o told)
    BY <1>9, <2>1, WantingCat, NoMoveCat
  <2>. QED BY <2>2 DEF o, Wanting
<1>. HIDE DEF r, z, so, x, b, m
<1>11. ASSUME NEW to, to.doing = so.doing, to.session = so.session, to.queue = so.queue,
              to.requests = so.requests \o r
       PROVE  Good(g, to, Tail(x), k, sessions, printed, issued)
  <2>1. g.workspace = Head(x).workspace /\ Taken(b.panels, g.panels, Head(x))
        /\ Head(x).type = "switched"
    BY <1>2, <1>6, <1>7
  <2>. QED BY <1>2, <1>3, <1>8, <1>10, <1>11, <2>1, GoodSwitched
<1>12. \A to : /\ to.doing = so.doing /\ to.session = so.session
               /\ to.queue = so.queue /\ to.requests = so.requests \o r
               => Good(g, to, wire'[k], k, sessions, printed, issued)
  BY <1>2, <1>11
<1>. HIDE DEF k
<1>13. gui[c].socket = k
  BY DEF k
<1>. QED BY <1>1, <1>2, <1>6, <1>10, <1>12, <1>13, BecomesFed DEF so

LEMMA OnGoneFed ==
    ASSUME FInv, AInv', NEW c \in Clients, OnGone(c)
    PROVE  FInv'
<1>. DEFINE k    == gui[c].socket
            so   == socket[k]
            x    == wire[k]
            b    == gui[c]
            m    == Event(c)
            h    == [b EXCEPT !.known = @ \ {m.workspace}]
            bare == [h EXCEPT !.workspace = None, !.panels = [p \in {} |-> <<>>],
                              !.opening = 0, !.switching = FALSE]
            go   == [bare EXCEPT !.switching = TRUE, !.opening = 0]
            e    == [op |-> "switch", workspace |-> m.focus]
            none == <<>>
<1>1. Hears(c, "gone")
      /\ IF b.workspace # m.workspace THEN Becomes(c, h, none)
         ELSE Becomes(c, go, Publish(bare) \o <<e>>)
  BY DEF OnGone, SwitchTo
<1>2. /\ k \in Sockets /\ Owns(c, k) /\ DOMAIN b = GuiFields
      /\ x # <<>> /\ m = Head(x) /\ m.type = "gone" /\ Neat(so, x)
      /\ wire'[k] = Tail(x) /\ Messages(wire'[k])
      /\ DOMAIN wire' = Sockets /\ \A j \in Sockets : j # k => wire'[j] = wire[j]
      /\ UNCHANGED <<list, sessions, issued, printed>>
  BY <1>1, HearsShape
<1>3. Good(b, so, x, k, sessions, printed, issued)
  BY <1>2 DEF Owns
<1>4. Filled(b.panels) /\ IsFiniteSet(DOMAIN b.panels)
  BY <1>1, HeardSound
<1>5. \A q : ~Touches(m, q)
  BY <1>2 DEF Touches, Adds, Feeds
<1>6. /\ DOMAIN h = GuiFields /\ h.socket = k /\ h.workspace = b.workspace /\ h.panels = b.panels
      /\ DOMAIN go = GuiFields /\ go.socket = k /\ DOMAIN go.panels = {}
      /\ DOMAIN bare.panels = {}
  BY <1>2 DEF GuiFields
<1>. HIDE DEF h, go, bare
<1>7. IsSeq(so.requests) /\ so.requests \o none = so.requests
  BY <1>2, EmptyCat DEF Neat, Wanting
<1>8. Wanting(none)
  BY ShortShapes
<1>. HIDE DEF none
<1>9. gui[c].socket = k
  OBVIOUS
<1>10. CASE b.workspace # m.workspace
  <2>1. Becomes(c, h, none)
    BY <1>1, <1>10
  <2>. HIDE DEF so, x, b, m, k
  <2>2. Taken(b.panels, h.panels, m)
    BY <1>4, <1>5, <1>6, TakenOthers
  <2>3. ASSUME NEW to, to.doing = so.doing, to.session = so.session, to.queue = so.queue,
               to.requests = so.requests \o none
        PROVE  Good(h, to, Tail(x), k, sessions, printed, issued)
    <3>1. Head(x).workspace # b.workspace /\ h.workspace = b.workspace
          /\ to.requests = so.requests
      BY <1>2, <1>6, <1>7, <1>10, <2>3
    <3>2. Taken(b.panels, h.panels, Head(x)) /\ IsFiniteSet(DOMAIN h.panels) /\ Head(x).type = "gone"
      BY <1>2, <1>4, <1>6, <2>2
    <3>. QED BY <1>2, <1>3, <2>3, <3>1, <3>2, GoodGone
  <2>4. \A to : /\ to.doing = so.doing /\ to.session = so.session
                /\ to.queue = so.queue /\ to.requests = so.requests \o none
                => Good(h, to, wire'[k], k, sessions, printed, issued)
    BY <1>2, <2>3
  <2>. QED BY <1>2, <1>6, <1>8, <1>9, <2>1, <2>4, BecomesFed DEF so
<1>11. CASE b.workspace = m.workspace
  <2>. DEFINE r == Publish(bare)
  <2>1. Becomes(c, go, r \o <<e>>)
    BY <1>1, <1>11
  <2>2. Wanting(r) /\ NoMove(r) /\ IsSeq(r)
    BY <1>6, FS_EmptySet, PublishShape
  <2>. HIDE DEF so, x, b, m, k, r
  <2>3. Taken(b.panels, go.panels, m)
    BY <1>4, <1>5, <1>6, TakenOthers
  <2>4. Wanting(r \o <<e>>)
    <3>1. TypedRequest(e)
      BY DEF TypedRequest
    <3>. HIDE DEF e
    <3>2. Wanting(<<e>>)
      BY <3>1, WantingOne
    <3>. QED BY <2>2, <3>2, WantingCat
  <2>. HIDE DEF e
  <2>5. ASSUME NEW to, to.doing = so.doing, to.session = so.session, to.queue = so.queue,
               to.requests = so.requests \o (r \o <<e>>)
        PROVE  Good(go, to, Tail(x), k, sessions, printed, issued)
    <3>1. Head(x).workspace = b.workspace
          /\ \E s, f : IsSeq(s) /\ NoMove(s) /\ to.requests = so.requests \o (s \o <<f>>)
      BY <1>2, <1>11, <2>2, <2>5
    <3>2. Taken(b.panels, go.panels, Head(x)) /\ IsFiniteSet(DOMAIN go.panels) /\ Head(x).type = "gone"
      BY <1>2, <1>6, <2>3, FS_EmptySet
    <3>. QED BY <1>2, <1>3, <2>5, <3>1, <3>2, GoodGone
  <2>6. \A to : /\ to.doing = so.doing /\ to.session = so.session
                /\ to.queue = so.queue /\ to.requests = so.requests \o (r \o <<e>>)
                => Good(go, to, wire'[k], k, sessions, printed, issued)
    BY <1>2, <2>5
  <2>. QED BY <1>2, <1>6, <1>9, <2>1, <2>4, <2>6, BecomesFed DEF so
<1>. QED BY <1>10, <1>11

LEMMA OnErrorFed ==
    ASSUME FInv, AInv', NEW c \in Clients, OnError(c)
    PROVE  FInv'
<1>. DEFINE k == gui[c].socket
            b == gui[c]
            m == Event(c)
            g == Failed(b, m.of)
            e == <<>>
<1>1. Hears(c, "error")
  BY DEF OnError
<1>2. /\ k \in Sockets /\ Owns(c, k) /\ DOMAIN b = GuiFields
      /\ m.type = "error" /\ Neat(socket[k], wire[k]) /\ Messages(wire'[k])
      /\ DOMAIN wire' = Sockets /\ \A j \in Sockets : j # k => wire'[j] = wire[j]
      /\ UNCHANGED <<list, sessions, issued, printed>>
  BY <1>1, HearsShape
<1>3. CASE b.booted
  <2>1. Becomes(c, g, e)
    BY <1>3 DEF OnError
  <2>2. /\ DOMAIN g = GuiFields /\ g.socket = b.socket /\ g.workspace = b.workspace
        /\ g.panels = b.panels
    BY <1>2 DEF GuiFields, Failed
  <2>3. Filled(b.panels) /\ IsFiniteSet(DOMAIN b.panels)
    BY <1>1, HeardSound
  <2>4. \A q : ~Touches(m, q)
    BY <1>2 DEF Touches, Adds, Feeds
  <2>5. Wanting(e) /\ NoMove(e) /\ IsSeq(e)
    BY ShortShapes, ShortSeqs
  <2>. HIDE DEF m, g, e, b
  <2>6. Taken(b.panels, g.panels, m)
    BY <2>2, <2>3, <2>4, TakenOthers
  <2>. QED BY <1>1, <2>1, <2>2, <2>3, <2>5, <2>6, HeardBecomes DEF b, m
<1>4. CASE ~b.booted
  <2>1. gui' = [gui EXCEPT ![c] = Offline] /\ socket' = [socket EXCEPT ![k].peer = FALSE]
    BY <1>4 DEF OnError
  <2>2. /\ DOMAIN gui' = Clients /\ gui'[c] = Offline /\ \A d \in Clients : d # c => gui'[d] = gui[d]
        /\ \A j \in Sockets : j # k => socket'[j] = socket[j]
        /\ socket'[k].phase = socket[k].phase /\ socket'[k].queue = socket[k].queue
        /\ socket'[k].requests = socket[k].requests /\ socket'[k].doing = socket[k].doing
    BY <1>2, <2>1 DEF FInv, Shaped, AInv, SocketsShaped, SocketFields
  <2>3. DOMAIN gui'[c] = GuiFields
    BY <2>2 DEF Offline, GuiFields
  <2>4. Neat(socket'[k], wire'[k])
    BY <1>2, <2>2 DEF Neat, Owns
  <2>5. gui[c].socket = k
    OBVIOUS
  <2>. HIDE DEF k
  <2>. QED BY <1>2, <2>2, <2>3, <2>4, <2>5, WindowStep
<1>. QED BY <1>3, <1>4

-----------------------------------------------------------------------------
(* The users.                                                              *)

LEMMA ConnectFed ==
    ASSUME FInv, AInv', NEW c \in Clients, NEW k \in Sockets, Connect(c, k)
    PROVE  FInv'
<1>. DEFINE G == [Offline EXCEPT !.socket = k, !.switching = TRUE, !.known = DOMAIN list.byId]
<1>1. PICK w \in DOMAIN list.byId :
         /\ socket[k].phase = "new"
         /\ socket' = [socket EXCEPT ![k].phase = "open",
                                     ![k].requests = <<[op |-> "switch", workspace |-> w]>>]
         /\ gui' = [gui EXCEPT ![c] = G]
         /\ UNCHANGED <<list, sessions, issued, printed, wire>>
  BY DEF Connect, daemonVars
<1>2. socket[k] = NewSocket /\ wire[k] = <<>>
  BY <1>1 DEF FInv, AllNeat, Neat
<1>. DEFINE e == [op |-> "switch", workspace |-> w]
<1>3. /\ \A j \in Sockets : j # k => socket'[j] = socket[j]
      /\ socket'[k].phase = "open" /\ socket'[k].requests = <<e>>
      /\ socket'[k].peer /\ socket'[k].session = None /\ socket'[k].doing = Idle
      /\ socket'[k].queue = <<>>
  BY <1>1, <1>2 DEF FInv, AInv, SocketsShaped, NewSocket
<1>4. DOMAIN G = GuiFields /\ DOMAIN G.panels = {} /\ G.socket = k
  BY DEF Offline, GuiFields
<1>5. /\ DOMAIN gui' = Clients /\ gui'[c] = G /\ \A d \in Clients : d # c => gui'[d] = gui[d]
      /\ DOMAIN wire' = Sockets /\ wire' = wire
  BY <1>1 DEF FInv, Shaped
<1>. HIDE DEF G
<1>6. Neat(socket'[k], wire'[k])
  <2>1. TypedRequest(e)
    BY DEF TypedRequest
  <2>. HIDE DEF e
  <2>2. Wanting(<<e>>)
    BY <2>1, WantingOne
  <2>. QED BY <1>2, <1>3, <1>5, <2>2, ShortShapes, QuietSteps DEF Neat
<1>7. Good(G, socket'[k], <<>>, k, sessions, printed, issued)
  BY <1>3, <1>4, GoodStart
<1>8. Good(gui'[c], socket'[k], wire'[k], k, sessions, printed, issued)
  BY <1>2, <1>5, <1>7
<1>9. UNCHANGED <<list, sessions, issued, printed>> /\ socket[k].phase = "new"
  BY <1>1
<1>10. gui'[c].socket = k /\ DOMAIN gui'[c] = GuiFields
  BY <1>4, <1>5
<1>11. socket'[k].phase = "open" /\ socket'[k].peer
  BY <1>3
<1>12. \A j \in Sockets : j # k => socket'[j] = socket[j] /\ wire'[j] = wire[j]
  BY <1>3, <1>5
<1>13. /\ DOMAIN gui' = Clients /\ \A d \in Clients : d # c => gui'[d] = gui[d]
       /\ DOMAIN wire' = Sockets
  BY <1>5
<1>. QED BY <1>6, <1>8, <1>9, <1>10, <1>11, <1>12, <1>13, WindowStep

LEMMA LeaveFed ==
    ASSUME FInv, AInv', NEW c \in Clients, Leave(c)
    PROVE  FInv'
<1>. DEFINE k == gui[c].socket
<1>1. PICK last \in {<<>>, Publish(gui[c])} :
         /\ k # None /\ gui' = [gui EXCEPT ![c] = Offline]
         /\ socket' = [socket EXCEPT ![k].peer = FALSE, ![k].requests = @ \o last]
         /\ wire' = [wire EXCEPT ![k] = <<>>]
         /\ UNCHANGED <<list, sessions, issued, printed>>
  BY DEF Leave, daemonVars
<1>2. k \in Sockets /\ Owns(c, k) /\ Neat(socket[k], wire[k])
  BY <1>1 DEF FInv, Shaped, Owned, AllNeat
<1>3. Wanting(last)
  <2>1. IsFiniteSet(DOMAIN gui[c].panels)
    BY <1>2 DEF Owns, Good
  <2>. QED BY <2>1, PublishShape, ShortShapes
<1>4. /\ DOMAIN gui' = Clients /\ gui'[c] = Offline /\ \A d \in Clients : d # c => gui'[d] = gui[d]
      /\ \A j \in Sockets : j # k => socket'[j] = socket[j] /\ wire'[j] = wire[j]
      /\ DOMAIN wire' = Sockets /\ wire'[k] = <<>>
      /\ socket'[k].phase = socket[k].phase /\ socket'[k].queue = socket[k].queue
      /\ socket'[k].requests = socket[k].requests \o last /\ socket'[k].doing = socket[k].doing
  <2>. HIDE DEF k
  <2>1. /\ DOMAIN gui = Clients /\ DOMAIN wire = Sockets
        /\ DOMAIN socket = Sockets /\ DOMAIN socket[k] = SocketFields
    BY <1>2 DEF FInv, Shaped, AInv, SocketsShaped
  <2>2. DOMAIN gui' = Clients /\ gui'[c] = Offline /\ \A d \in Clients : d # c => gui'[d] = gui[d]
    BY <1>1, <2>1
  <2>3. DOMAIN wire' = Sockets /\ wire'[k] = <<>> /\ \A j \in Sockets : j # k => wire'[j] = wire[j]
    BY <1>1, <1>2, <2>1
  <2>4. \A j \in Sockets : j # k => socket'[j] = socket[j]
    BY <1>1, <2>1
  <2>5. socket'[k].phase = socket[k].phase /\ socket'[k].queue = socket[k].queue
    BY <1>1, <1>2, <2>1 DEF SocketFields
  <2>6. socket'[k].requests = socket[k].requests \o last
    BY <1>1, <1>2, <2>1 DEF SocketFields
  <2>7. socket'[k].doing = socket[k].doing
    BY <1>1, <1>2, <2>1 DEF SocketFields
  <2>. QED BY <2>2, <2>3, <2>4, <2>5, <2>6, <2>7
<1>5. Wanting(socket'[k].requests)
  <2>. HIDE DEF k
  <2>1. Wanting(socket[k].requests)
    BY <1>2 DEF Neat
  <2>2. Wanting(socket[k].requests \o last)
    BY <1>3, <2>1, WantingCat
  <2>. QED BY <1>4, <2>2
<1>6. Neat(socket'[k], wire'[k])
  <2>. HIDE DEF k
  <2>1. Messages(wire'[k])
    BY <1>4, ShortShapes
  <2>2. Messages(wire[k]) /\ Queued(socket[k].queue) /\ TypedDoing(socket[k].doing)
    BY <1>2 DEF Neat
  <2>3. socket[k].phase = "open"
    BY <1>2 DEF Owns
  <2>4. Queued(socket'[k].queue) /\ TypedDoing(socket'[k].doing) /\ socket'[k].phase = "open"
    BY <1>4, <2>2, <2>3
  <2>. QED BY <1>5, <2>1, <2>4 DEF Neat
<1>7. DOMAIN gui'[c] = GuiFields
  BY <1>4 DEF Offline, GuiFields
<1>8. gui[c].socket = k
  OBVIOUS
<1>9. UNCHANGED <<list, sessions, issued, printed>> /\ k \in Sockets
  BY <1>1, <1>2
<1>. HIDE DEF k
<1>. QED BY <1>4, <1>6, <1>7, <1>8, <1>9, WindowStep

LEMMA AsksShape ==
    ASSUME FInv, NEW c \in Clients, NEW g, NEW r, Asks(c, g, r)
    PROVE  LET k == gui[c].socket
           IN  /\ k \in Sockets /\ Owns(c, k) /\ DOMAIN gui[c] = GuiFields
               /\ Becomes(c, g, r) /\ Neat(socket[k], wire[k])
               /\ DOMAIN wire' = Sockets /\ wire' = wire /\ Messages(wire[k])
               /\ UNCHANGED <<list, sessions, issued, printed>>
               /\ "hasty" \notin Ops => /\ NoMove(socket[k].requests) /\ ~Moving(socket[k].doing)
                                        /\ NoTell(wire[k])
<1>. DEFINE k == gui[c].socket
<1>1. /\ k # None /\ Becomes(c, g, r) /\ wire' = wire
      /\ UNCHANGED <<list, sessions, issued, printed>>
      /\ "hasty" \in Ops \/ ~UnderWay(c)
  BY DEF Asks, Online, daemonVars
<1>2. k \in Sockets /\ Owns(c, k) /\ DOMAIN gui[c] = GuiFields /\ DOMAIN wire = Sockets
  BY <1>1 DEF FInv, Shaped, Owned
<1>3. Neat(socket[k], wire[k]) /\ Messages(wire[k])
  BY <1>2 DEF FInv, AllNeat, Neat
<1>4. ASSUME ~UnderWay(c)
      PROVE  NoMove(socket[k].requests) /\ ~Moving(socket[k].doing) /\ NoTell(wire[k])
  <2>1. /\ DOMAIN socket[k].requests = 1..Len(socket[k].requests)
        /\ DOMAIN wire[k] = 1..Len(wire[k])
    BY <1>3, SeqShape DEF Neat, Wanting, Messages
  <2>. QED BY <1>4, <2>1 DEF UnderWay, NoMove, Move, Moving, NoTell, Tell
<1>. QED BY <1>1, <1>2, <1>3, <1>4

\* Window c becomes g, which may lack a panel, and asks for what is no move.
LEMMA AsksFed ==
    ASSUME FInv, AInv', NEW c \in Clients, NEW g, NEW r, Asks(c, g, r), DOMAIN g = GuiFields,
           g.socket = gui[c].socket, g.workspace = gui[c].workspace,
           DOMAIN g.panels \subseteq DOMAIN gui[c].panels,
           \A p \in DOMAIN g.panels : g.panels[p] = gui[c].panels[p],
           Wanting(r), NoMove(r), IsSeq(r)
    PROVE  FInv'
<1>. DEFINE k  == gui[c].socket
            so == socket[k]
            x  == wire[k]
            b  == gui[c]
<1>1. /\ k \in Sockets /\ Becomes(c, g, r) /\ Neat(so, x)
      /\ DOMAIN wire' = Sockets /\ wire' = wire /\ Messages(x)
      /\ UNCHANGED <<list, sessions, issued, printed>>
      /\ Good(b, so, x, k, sessions, printed, issued)
  BY AsksShape DEF Owns
<1>2. g.socket = k /\ gui[c].socket = k /\ wire'[k] = x
  BY <1>1
<1>3. g.workspace = b.workspace /\ DOMAIN g.panels \subseteq DOMAIN b.panels
      /\ \A p \in DOMAIN g.panels : g.panels[p] = b.panels[p]
  OBVIOUS
<1>. HIDE DEF so, x, b, k
<1>4. \A to : /\ to.doing = so.doing /\ to.session = so.session
              /\ to.queue = so.queue /\ to.requests = so.requests \o r
              => Good(g, to, x, k, sessions, printed, issued)
  BY <1>1, <1>3, GoodAsked
<1>. QED BY <1>1, <1>2, <1>4, BecomesFed DEF so

\* ... and asks for a move.
LEMMA MovesFed ==
    ASSUME "hasty" \notin Ops, FInv, AInv', NEW c \in Clients, NEW g, NEW r, NEW e,
           Asks(c, g, r \o <<e>>), DOMAIN g = GuiFields,
           g.socket = gui[c].socket, g.workspace = gui[c].workspace, g.panels = gui[c].panels,
           Wanting(r), NoMove(r), IsSeq(r), TypedRequest(e),
           e.op = "switch" => e.workspace # gui[c].workspace
    PROVE  FInv'
<1>. DEFINE k  == gui[c].socket
            so == socket[k]
            x  == wire[k]
            b  == gui[c]
            z  == r \o <<e>>
<1>1. /\ k \in Sockets /\ Becomes(c, g, z) /\ Neat(so, x)
      /\ DOMAIN wire' = Sockets /\ wire' = wire /\ Messages(x)
      /\ UNCHANGED <<list, sessions, issued, printed>>
      /\ Good(b, so, x, k, sessions, printed, issued)
      /\ NoMove(so.requests) /\ ~Moving(so.doing) /\ NoTell(x)
  BY AsksShape DEF Owns
<1>2. g.socket = k /\ gui[c].socket = k /\ wire'[k] = x
  BY <1>1
<1>3. g.workspace = b.workspace /\ g.panels = b.panels
      /\ (e.op = "switch" => e.workspace # b.workspace)
  OBVIOUS
<1>4. Wanting(z)
  BY WantingOne, WantingCat
<1>. HIDE DEF so, x, b, k
<1>5. \A to : /\ to.doing = so.doing /\ to.session = so.session
              /\ to.queue = so.queue /\ to.requests = so.requests \o z
              => Good(g, to, x, k, sessions, printed, issued)
  BY <1>1, <1>3, GoodMoves
<1>. HIDE DEF z
<1>. QED BY <1>1, <1>2, <1>4, <1>5, BecomesFed DEF so

LEMMA UserFed ==
    ASSUME "hasty" \notin Ops, FInv, AInv', NEW c \in Clients, User(c)
    PROVE  FInv'
<1>. DEFINE b == gui[c]
<1>0. (\E g, r : Asks(c, g, r)) => DOMAIN b = GuiFields /\ IsFiniteSet(DOMAIN b.panels)
  BY AsksShape DEF Owns, Good
<1>1. CASE \E k \in Sockets : Connect(c, k)
  BY <1>1, ConnectFed
<1>2. CASE Leave(c)
  BY <1>2, LeaveFed
<1>3. CASE AskTerminal(c)
  <2>. DEFINE g == [b EXCEPT !.opening = @ + 1]
  <2>1. Asks(c, g, Opens(1))
    BY <1>3 DEF AskTerminal
  <2>2. /\ DOMAIN g = GuiFields /\ g.socket = b.socket /\ g.workspace = b.workspace
        /\ g.panels = b.panels
    BY <1>0, <2>1 DEF GuiFields
  <2>3. Wanting(Opens(1)) /\ NoMove(Opens(1)) /\ IsSeq(Opens(1))
    BY OpensShape
  <2>. HIDE DEF g
  <2>. QED BY <2>1, <2>2, <2>3, AsksFed
<1>4. CASE \E w \in Workspaces : AskSwitch(c, w)
  <2>1. PICK w : AskSwitch(c, w)
    BY <1>4
  <2>. DEFINE g == [b EXCEPT !.switching = TRUE, !.opening = 0]
              r == Publish(b)
              e == [op |-> "switch", workspace |-> w]
  <2>2. Asks(c, g, r \o <<e>>) /\ w # b.workspace
    BY <2>1 DEF AskSwitch, SwitchTo
  <2>3. /\ DOMAIN g = GuiFields /\ g.socket = b.socket /\ g.workspace = b.workspace
        /\ g.panels = b.panels /\ IsFiniteSet(DOMAIN b.panels)
    BY <1>0, <2>2 DEF GuiFields
  <2>4. Wanting(r) /\ NoMove(r) /\ IsSeq(r)
    BY <2>3, PublishShape
  <2>5. TypedRequest(e) /\ (e.op = "switch" => e.workspace # b.workspace)
    BY <2>2 DEF TypedRequest
  <2>. HIDE DEF g, r, e
  <2>. QED BY <2>2, <2>3, <2>4, <2>5, MovesFed
<1>5. CASE \E w \in Workspaces : AskClose(c, w)
  <2>1. PICK w : AskClose(c, w)
    BY <1>5
  <2>. DEFINE r == <<>>
              e == [op |-> "close", workspace |-> w]
  <2>2. Asks(c, b, <<e>>) /\ e.op = "close" /\ TypedRequest(e)
    BY <2>1 DEF AskClose, TypedRequest
  <2>. HIDE DEF e
  <2>3. r \o <<e>> = <<e>>
    OBVIOUS
  <2>4. Wanting(r) /\ NoMove(r) /\ IsSeq(r)
    BY ShortShapes, ShortSeqs
  <2>. HIDE DEF r
  <2>5. Asks(c, b, r \o <<e>>) /\ DOMAIN b = GuiFields
    BY <1>0, <2>2, <2>3
  <2>. QED BY <2>2, <2>4, <2>5, MovesFed
<1>6. CASE \E p \in Terminals : AskKill(c, p)
  <2>1. PICK p : AskKill(c, p)
    BY <1>6
  <2>. DEFINE g == Shut(b, p)
  <2>2. Asks(c, g, Forget(g, p))
    BY <2>1 DEF AskKill
  <2>3. /\ DOMAIN g = GuiFields /\ g.socket = b.socket /\ g.workspace = b.workspace
        /\ DOMAIN g.panels = DOMAIN b.panels \ {p} /\ IsFiniteSet(DOMAIN g.panels)
        /\ \A q \in DOMAIN g.panels : g.panels[q] = b.panels[q]
    BY <1>0, <2>2, ShutShape
  <2>. HIDE DEF g
  <2>4. Wanting(Forget(g, p)) /\ NoMove(Forget(g, p)) /\ IsSeq(Forget(g, p))
    BY <2>3, ForgetShape
  <2>. QED BY <2>2, <2>3, <2>4, AsksFed
<1>. QED BY <1>1, <1>2, <1>3, <1>4, <1>5, <1>6 DEF User

-----------------------------------------------------------------------------
LEMMA SameFed ==
    ASSUME FInv, UNCHANGED vars
    PROVE  FInv'
<1>1. AInv'
  BY DEF vars, FInv, AInv, SocketsShaped, SubscribersTyped, AttachesFree, Bound, SubscriberAttached
<1>2. Shaped' /\ AllNeat' /\ Owned'
  BY DEF vars, FInv, Shaped, AllNeat, Owned, Owns
<1>3. Issued(sessions, printed, issued)' /\ Listed(list)'
  BY DEF vars, FInv
<1>. QED BY <1>1, <1>2, <1>3 DEF FInv

LEMMA NextFed ==
    ASSUME "backlog" \notin Ops, "hasty" \notin Ops, FInv, [Next]_vars
    PROVE  FInv'
<1>0. AInv'
  BY NextAttached DEF FInv
<1>1. CASE \E k \in Sockets : Serves(k)
  <2>. PICK k \in Sockets : Serves(k)
    BY <1>1
  <2>. QED BY <1>0, SwitchFed, DetachFed, AttachFed, CloseWorkspaceFed, DestroyFed,
              OpenTerminalFed, NotesFed, KillTerminalFed, SetLayoutFed, DrainFed,
              DisconnectedFed DEF Serves
<1>2. CASE \E c \in Clients : Receives(c) \/ User(c)
  <2>. PICK c \in Clients : Receives(c) \/ User(c)
    BY <1>2
  <2>. QED BY <1>0, OnSwitchedFed, OnOpenedFed, OnDataFed, OnClosedFed, OnGoneFed, OnErrorFed,
              UserFed DEF Receives
<1>3. CASE \E p \in Terminals : Prints(p) \/ Ends(p)
  BY <1>0, <1>3, PrintsFed, EndsFed
<1>4. CASE UNCHANGED vars
  BY <1>4, SameFed
<1>. QED BY <1>1, <1>2, <1>3, <1>4 DEF Next

\* As long as windows wait for the answer to a switch or a close, and a request is served
\* when nothing is queued, what a panel has been fed is what its terminal printed, from the
\* start, each chunk once and in order, whoever attaches, closes, kills, opens, prints, ends
\* or is lost meanwhile (attach replays under the lock that makes the subscriber, and
\* handle_socket detaches the session it leaves before it attaches to another).
THEOREM FedInOrder == "backlog" \notin Ops /\ "hasty" \notin Ops => (Spec => []InOrder)
<1>. SUFFICES ASSUME "backlog" \notin Ops, "hasty" \notin Ops PROVE Spec => []InOrder
  OBVIOUS
<1>1. FInv /\ [Next]_vars => FInv'
  BY NextFed
<1>2. FInv => InOrder
  BY FedIsInOrder
<1>. QED BY InitFed, <1>1, <1>2, PTL DEF Spec

-----------------------------------------------------------------------------
(* What is in a sequence, and how many.                                    *)

LEMMA Within ==
    ASSUME NEW x, IsSeq(x)
    PROVE  /\ ToSet(x) = {x[i] : i \in 1..Len(x)}
           /\ x # <<>> => ToSet(x) = {Head(x)} \cup ToSet(Tail(x)) /\ IsSeq(Tail(x))
           /\ \A e : ToSet(Append(x, e)) = ToSet(x) \cup {e} /\ IsSeq(Append(x, e))
           /\ \A e : ToSet(<<e>>) = {e} /\ IsSeq(<<e>>)
           /\ ToSet(<<>>) = {}
<1>1. \A z : IsSeq(z) => ToSet(z) = {z[i] : i \in 1..Len(z)}
  BY SeqShape DEF ToSet
<1>2. x # <<>> => ToSet(x) = {Head(x)} \cup ToSet(Tail(x)) /\ IsSeq(Tail(x))
  <2>. SUFFICES ASSUME x # <<>> PROVE ToSet(x) = {Head(x)} \cup ToSet(Tail(x)) /\ IsSeq(Tail(x))
    OBVIOUS
  <2>. DEFINE t == Tail(x)
  <2>1. /\ Len(x) \in Nat \ {0} /\ Head(x) = x[1] /\ IsSeq(t) /\ Len(t) = Len(x) - 1
        /\ \A i \in 1..(Len(x) - 1) : t[i] = x[i + 1]
    BY SeqTail
  <2>2. ToSet(x) = {x[i] : i \in 1..Len(x)} /\ ToSet(t) = {t[i] : i \in 1..Len(t)}
    BY <1>1, <2>1
  <2>. HIDE DEF t
  <2>3. ASSUME NEW i \in 1..Len(x), i # 1 PROVE i - 1 \in 1..Len(t) /\ t[i - 1] = x[i]
    BY <2>1, <2>3
  <2>4. \A i \in 1..Len(t) : i + 1 \in 1..Len(x) /\ x[i + 1] = t[i]
    BY <2>1
  <2>5. 1 \in 1..Len(x)
    BY <2>1
  <2>6. ToSet(x) \subseteq {x[1]} \cup ToSet(t)
    BY <2>2, <2>3
  <2>7. {x[1]} \cup ToSet(t) \subseteq ToSet(x)
    BY <2>2, <2>4, <2>5
  <2>8. ToSet(x) = {Head(x)} \cup ToSet(t)
    BY <2>1, <2>6, <2>7
  <2>. QED BY <2>1, <2>8 DEF t
<1>3. ASSUME NEW e PROVE ToSet(Append(x, e)) = ToSet(x) \cup {e} /\ IsSeq(Append(x, e))
  <2>. DEFINE t == Append(x, e)
  <2>1. /\ Len(x) \in Nat /\ IsSeq(t) /\ Len(t) = Len(x) + 1 /\ t[Len(x) + 1] = e
        /\ \A i \in 1..Len(x) : t[i] = x[i]
    BY SeqAppend, SeqShape
  <2>2. ToSet(x) = {x[i] : i \in 1..Len(x)} /\ ToSet(t) = {t[i] : i \in 1..Len(t)}
    BY <1>1, <2>1
  <2>. HIDE DEF t
  <2>3. ToSet(t) \subseteq ToSet(x) \cup {e}
    BY <2>1, <2>2
  <2>4. ToSet(x) \cup {e} \subseteq ToSet(t)
    <3>1. \A i \in 1..Len(x) : i \in 1..Len(t)
      BY <2>1
    <3>2. Len(x) + 1 \in 1..Len(t)
      BY <2>1
    <3>. QED BY <2>1, <2>2, <3>1, <3>2
  <2>5. ToSet(t) = ToSet(x) \cup {e}
    BY <2>3, <2>4
  <2>. QED BY <2>1, <2>5 DEF t
<1>4. ASSUME NEW e PROVE ToSet(<<e>>) = {e} /\ IsSeq(<<e>>)
  <2>. DEFINE t == <<e>>
  <2>1. IsSeq(t) /\ Len(t) = 1 /\ t[1] = e
    BY ShortSeqs
  <2>2. ToSet(t) = {t[i] : i \in 1..Len(t)}
    BY <1>1, <2>1
  <2>. HIDE DEF t
  <2>3. ToSet(t) = {e}
    BY <2>1, <2>2
  <2>. QED BY <2>1, <2>3 DEF t
<1>5. ToSet(<<>>) = {}
  <2>1. ToSet(<<>>) = {<<>>[i] : i \in 1..Len(<<>>)} /\ Len(<<>>) = 0
    BY <1>1, ShortSeqs
  <2>. QED BY <2>1
<1>. QED BY <1>1, <1>2, <1>3, <1>4, <1>5

LEMMA WithinCat ==
    ASSUME NEW x, NEW r, IsSeq(x), IsSeq(r)
    PROVE  ToSet(x \o r) = ToSet(x) \cup ToSet(r) /\ IsSeq(x \o r)
<1>. DEFINE t == x \o r
<1>1. /\ IsSeq(t) /\ Len(t) = Len(x) + Len(r) /\ Len(x) \in Nat /\ Len(r) \in Nat
      /\ \A i \in 1..Len(x) : t[i] = x[i]
      /\ \A i \in 1..Len(r) : t[Len(x) + i] = r[i]
  BY SeqCat, SeqShape
<1>2. /\ ToSet(x) = {x[i] : i \in 1..Len(x)} /\ ToSet(t) = {t[i] : i \in 1..Len(t)}
      /\ ToSet(r) = {r[i] : i \in 1..Len(r)}
  BY <1>1, Within
<1>. HIDE DEF t
<1>3. ASSUME NEW i \in 1..Len(t) PROVE t[i] \in ToSet(x) \cup ToSet(r)
  <2>1. CASE i \in 1..Len(x)
    BY <1>1, <1>2, <2>1
  <2>2. CASE i \notin 1..Len(x)
    <3>. DEFINE d == i - Len(x)
    <3>1. d \in 1..Len(r) /\ i = Len(x) + d
      BY <1>1, <2>2
    <3>. HIDE DEF d
    <3>. QED BY <1>1, <1>2, <3>1
  <2>. QED BY <2>1, <2>2
<1>4. \A i \in 1..Len(x) : x[i] \in ToSet(t)
  <2>1. \A i \in 1..Len(x) : i \in 1..Len(t)
    BY <1>1
  <2>. QED BY <1>1, <1>2, <2>1
<1>5. \A i \in 1..Len(r) : r[i] \in ToSet(t)
  <2>1. \A i \in 1..Len(r) : Len(x) + i \in 1..Len(t)
    BY <1>1
  <2>. QED BY <1>1, <1>2, <2>1
<1>6. ToSet(t) = ToSet(x) \cup ToSet(r)
  BY <1>2, <1>3, <1>4, <1>5
<1>. QED BY <1>1, <1>6 DEF t

\* The places K of two sequences one after the other, of n and m elements, are I and J.
Parts(n, m, I, J, K) ==
    /\ n \in Nat /\ m \in Nat /\ I \subseteq 1..n /\ J \subseteq 1..m /\ K \subseteq 1..(n + m)
    /\ \A i \in 1..n : i \in K <=> i \in I
    /\ \A i \in 1..m : n + i \in K <=> i \in J

LEMMA PlacesCount ==
    ASSUME NEW n, NEW m, NEW I, NEW J, NEW K, Parts(n, m, I, J, K)
    PROVE  /\ Cardinality(I) \in Nat /\ Cardinality(J) \in Nat
           /\ Cardinality(K) = Cardinality(I) + Cardinality(J)
<1>. USE DEF Parts
<1>1. IsFiniteSet(1..n) /\ IsFiniteSet(1..m)
  BY FS_Interval
<1>2. IsFiniteSet(I) /\ IsFiniteSet(J)
  BY <1>1, FS_Subset
<1>. DEFINE M == {n + i : i \in J}
            f == [i \in J |-> n + i]
<1>3. f \in Bijection(J, M)
  BY DEF Bijection, Injection, Surjection, IsInjective
<1>4. ExistsBijection(J, M)
  BY <1>3 DEF ExistsBijection
<1>5. IsFiniteSet(M) /\ Cardinality(M) = Cardinality(J)
  BY <1>2, <1>4, FS_Bijection
<1>6. I \cap M = {}
  OBVIOUS
<1>7. K = I \cup M
  <2>1. ASSUME NEW i \in K PROVE i \in I \cup M
    <3>1. CASE i \in 1..n
      BY <3>1
    <3>2. CASE i \notin 1..n
      <4>. DEFINE d == i - n
      <4>1. d \in 1..m /\ i = n + d
        BY <3>2
      <4>. HIDE DEF d
      <4>. QED BY <4>1
    <3>. QED BY <3>1, <3>2
  <2>2. \A i \in I : i \in K
    OBVIOUS
  <2>3. \A i \in M : i \in K
    OBVIOUS
  <2>. QED BY <2>1, <2>2, <2>3
<1>. HIDE DEF M, f
<1>8. Cardinality(I \cup M) = Cardinality(I) + Cardinality(M) - Cardinality(I \cap M)
  BY <1>2, <1>5, FS_Union
<1>9. Cardinality(I \cap M) = 0 /\ Cardinality(I) \in Nat /\ Cardinality(J) \in Nat
  BY <1>2, <1>6, FS_EmptySet, FS_CardinalityType
<1>. QED BY <1>5, <1>7, <1>8, <1>9

LEMMA AskedCat ==
    ASSUME NEW q, NEW r, IsSeq(q), IsSeq(r)
    PROVE  /\ Cardinality(Asked(q)) \in Nat /\ Cardinality(Asked(r)) \in Nat
           /\ Cardinality(Asked(q \o r)) = Cardinality(Asked(q)) + Cardinality(Asked(r))
<1>. DEFINE t == q \o r
<1>1. /\ Len(t) = Len(q) + Len(r) /\ Len(q) \in Nat /\ Len(r) \in Nat
      /\ \A i \in 1..Len(q) : t[i] = q[i]
      /\ \A i \in 1..Len(r) : t[Len(q) + i] = r[i]
  BY SeqCat, SeqShape
<1>. HIDE DEF t
<1>. DEFINE n == Len(q)
            m == Len(r)
            I == Asked(q)
            J == Asked(r)
            K == Asked(t)
<1>2. n \in Nat /\ m \in Nat
  BY <1>1
<1>3. I \subseteq 1..n /\ J \subseteq 1..m /\ K \subseteq 1..(n + m)
  BY <1>1 DEF Asked
<1>4. \A i \in 1..n : i \in K <=> i \in I
  BY <1>1 DEF Asked
<1>5. \A i \in 1..m : n + i \in K <=> i \in J
  BY <1>1 DEF Asked
<1>. HIDE DEF n, m, I, J, K
<1>6. /\ Cardinality(I) \in Nat /\ Cardinality(J) \in Nat
      /\ Cardinality(K) = Cardinality(I) + Cardinality(J)
  <2>1. Parts(n, m, I, J, K)
    BY <1>2, <1>3, <1>4, <1>5 DEF Parts
  <2>. QED BY <2>1, PlacesCount
<1>. QED BY <1>6 DEF t, I, J, K

LEMMA ToldCat ==
    ASSUME NEW x, NEW r, IsSeq(x), IsSeq(r)
    PROVE  /\ Cardinality(Told(x)) \in Nat /\ Cardinality(Told(r)) \in Nat
           /\ Cardinality(Told(x \o r)) = Cardinality(Told(x)) + Cardinality(Told(r))
<1>. DEFINE t == x \o r
<1>1. /\ Len(t) = Len(x) + Len(r) /\ Len(x) \in Nat /\ Len(r) \in Nat
      /\ \A i \in 1..Len(x) : t[i] = x[i]
      /\ \A i \in 1..Len(r) : t[Len(x) + i] = r[i]
  BY SeqCat, SeqShape
<1>. HIDE DEF t
<1>. DEFINE n == Len(x)
            m == Len(r)
            I == Told(x)
            J == Told(r)
            K == Told(t)
<1>2. n \in Nat /\ m \in Nat
  BY <1>1
<1>3. I \subseteq 1..n /\ J \subseteq 1..m /\ K \subseteq 1..(n + m)
  BY <1>1 DEF Told
<1>4. \A i \in 1..n : i \in K <=> i \in I
  BY <1>1 DEF Told
<1>5. \A i \in 1..m : n + i \in K <=> i \in J
  BY <1>1 DEF Told
<1>. HIDE DEF n, m, I, J, K
<1>6. /\ Cardinality(I) \in Nat /\ Cardinality(J) \in Nat
      /\ Cardinality(K) = Cardinality(I) + Cardinality(J)
  <2>1. Parts(n, m, I, J, K)
    BY <1>2, <1>3, <1>4, <1>5 DEF Parts
  <2>. QED BY <2>1, PlacesCount
<1>. QED BY <1>6 DEF t, I, J, K

LEMMA HeadFirst ==
    ASSUME NEW x, IsSeq(x), x # <<>>
    PROVE  x = <<Head(x)>> \o Tail(x)
  BY HeadTailProperties DEF IsSeq

-----------------------------------------------------------------------------
(* Which panels a window is left with, and which shells it waits for.      *)

LEMMA VanishesCat ==
    ASSUME NEW b, NEW x, NEW y, NEW L, NEW r, NEW v, NEW M, IsSeq(x), IsSeq(r),
           Vanishes(b, x, y, L),
           \A p \in L : p \in M \/ Shut1(r, p) \/ Shut1(v, p),
           \A p : Shut1(y, p) => Shut1(r, p) \/ Shut1(v, p),
           \A m \in ToSet(r) : \A p : Makes(m, p) => p \in M
    PROVE  Vanishes(b, x \o r, v, M)
<1>. DEFINE t == x \o r
<1>1. /\ IsSeq(t) /\ Len(t) = Len(x) + Len(r) /\ Len(x) \in Nat /\ Len(r) \in Nat
      /\ \A i \in 1..Len(x) : t[i] = x[i]
      /\ \A i \in 1..Len(r) : t[Len(x) + i] = r[i]
      /\ ToSet(t) = ToSet(x) \cup ToSet(r) /\ ToSet(r) = {r[i] : i \in 1..Len(r)}
  BY SeqCat, SeqShape, Within, WithinCat
<1>. HIDE DEF t
<1>2. ASSUME NEW p, p \in L \/ Shut1(y, p), NEW i \in 0..Len(x)
      PROVE  p \in M \/ (\E j \in 1..Len(t) : i < j /\ Drops(t[j], p)) \/ Shut1(v, p)
  <2>1. CASE Shut1(r, p)
    <3>. PICK n \in 1..Len(r) : Closes(r[n], p)
      BY <1>1, <2>1 DEF Shut1
    <3>1. Len(x) + n \in 1..Len(t) /\ i < Len(x) + n /\ Drops(t[Len(x) + n], p)
      BY <1>1 DEF Drops
    <3>. QED BY <3>1
  <2>. QED BY <1>2, <2>1
<1>3. ASSUME NEW p \in DOMAIN b
      PROVE  p \in M \/ (\E m \in ToSet(t) : Drops(m, p)) \/ Shut1(v, p)
  <2>1. CASE \E m \in ToSet(x) : Drops(m, p)
    BY <1>1, <2>1
  <2>2. CASE p \in L \/ Shut1(y, p)
    <3>1. p \in M \/ Shut1(r, p) \/ Shut1(v, p)
      BY <2>2
    <3>. QED BY <1>1, <3>1 DEF Shut1, Drops
  <2>. QED BY <2>1, <2>2 DEF Vanishes
<1>4. ASSUME NEW i \in 1..Len(t), NEW p, Makes(t[i], p)
      PROVE  p \in M \/ (\E j \in 1..Len(t) : i < j /\ Drops(t[j], p)) \/ Shut1(v, p)
  <2>1. CASE i \in 1..Len(x)
    <3>1. Makes(x[i], p)
      BY <1>1, <1>4, <2>1
    <3>2. CASE \E j \in 1..Len(x) : i < j /\ Drops(x[j], p)
      <4>. PICK j \in 1..Len(x) : i < j /\ Drops(x[j], p)
        BY <3>2
      <4>1. j \in 1..Len(t) /\ t[j] = x[j]
        BY <1>1
      <4>. QED BY <4>1
    <3>3. CASE p \in L \/ Shut1(y, p)
      <4>1. i \in 0..Len(x)
        BY <1>1, <2>1
      <4>. QED BY <1>2, <3>3, <4>1
    <3>. QED BY <2>1, <3>1, <3>2, <3>3 DEF Vanishes
  <2>2. CASE i \notin 1..Len(x)
    <3>. DEFINE d == i - Len(x)
    <3>1. d \in 1..Len(r) /\ i = Len(x) + d
      BY <1>1, <2>2
    <3>. HIDE DEF d
    <3>2. t[i] \in ToSet(r)
      BY <1>1, <3>1
    <3>. QED BY <1>4, <3>2
  <2>. QED BY <2>1, <2>2
<1>5. Vanishes(b, t, v, M)
  BY <1>3, <1>4 DEF Vanishes
<1>. QED BY <1>5 DEF t

LEMMA VanishesPop ==
    ASSUME NEW b, NEW x, NEW y, NEW L, NEW c, IsSeq(x), x # <<>>, Vanishes(b, x, y, L),
           \A p \in DOMAIN c : (p \in DOMAIN b /\ ~Drops(Head(x), p)) \/ Makes(Head(x), p)
    PROVE  Vanishes(c, Tail(x), y, L)
<1>. DEFINE t == Tail(x)
            h == Head(x)
<1>1. /\ Len(x) \in Nat \ {0} /\ h = x[1] /\ Len(t) = Len(x) - 1
      /\ \A i \in 1..(Len(x) - 1) : t[i] = x[i + 1]
      /\ ToSet(x) = {h} \cup ToSet(t) /\ ToSet(t) = {t[i] : i \in 1..Len(t)}
  BY SeqTail, Within
<1>. HIDE DEF t, h
<1>2. ASSUME NEW i \in 1..Len(x), NEW p, \E j \in 1..Len(x) : i < j /\ Drops(x[j], p)
      PROVE  \E j \in 1..Len(t) : i - 1 < j /\ Drops(t[j], p)
  <2>. PICK j \in 1..Len(x) : i < j /\ Drops(x[j], p)
    BY <1>2
  <2>. DEFINE n == j - 1
  <2>1. n \in 1..Len(t) /\ i - 1 < n /\ n \in 1..(Len(x) - 1) /\ n + 1 = j
    BY <1>1
  <2>. HIDE DEF n
  <2>2. t[n] = x[j]
    BY <1>1, <2>1
  <2>. QED BY <2>1, <2>2
<1>3. ASSUME NEW p \in DOMAIN c
      PROVE  p \in L \/ (\E m \in ToSet(t) : Drops(m, p)) \/ Shut1(y, p)
  <2>1. CASE p \in DOMAIN b /\ ~Drops(h, p)
    BY <1>1, <2>1 DEF Vanishes
  <2>2. CASE Makes(h, p)
    <3>1. 1 \in 1..Len(x) /\ Makes(x[1], p)
      BY <1>1, <2>2
    <3>2. CASE \E j \in 1..Len(x) : 1 < j /\ Drops(x[j], p)
      BY <1>1, <1>2, <3>1, <3>2
    <3>. QED BY <3>1, <3>2 DEF Vanishes
  <2>. QED BY <2>1, <2>2 DEF h
<1>4. ASSUME NEW i \in 1..Len(t), NEW p, Makes(t[i], p)
      PROVE  p \in L \/ (\E j \in 1..Len(t) : i < j /\ Drops(t[j], p)) \/ Shut1(y, p)
  <2>. DEFINE n == i + 1
  <2>1. n \in 1..Len(x) /\ n - 1 = i /\ Makes(x[n], p)
    BY <1>1, <1>4
  <2>. HIDE DEF n
  <2>2. CASE \E j \in 1..Len(x) : n < j /\ Drops(x[j], p)
    BY <1>2, <2>1, <2>2
  <2>. QED BY <2>1, <2>2 DEF Vanishes
<1>5. Vanishes(c, t, y, L)
  BY <1>3, <1>4 DEF Vanishes
<1>. QED BY <1>5 DEF t

LEMMA VanishesAnew ==
    ASSUME NEW b, NEW x, NEW y, NEW m, NEW r, NEW L, IsSeq(x), IsSeq(r), m.type = "switched",
           m.terminals = L, \A e \in ToSet(r) : e.type = "data"
    PROVE  Vanishes(b, x \o (<<m>> \o r), y, L)
<1>. DEFINE z == <<m>> \o r
            t == x \o z
<1>1. /\ IsSeq(z) /\ Len(z) = 1 + Len(r) /\ Len(r) \in Nat /\ z[1] = m
      /\ ToSet(z) = {m} \cup ToSet(r) /\ ToSet(z) = {z[i] : i \in 1..Len(z)}
  <2>1. /\ IsSeq(z) /\ Len(z) = Len(r) + 1 /\ z[1] = m
    BY SeqCons
  <2>2. ToSet(z) = ToSet(<<m>>) \cup ToSet(r) /\ ToSet(<<m>>) = {m}
    <3>1. IsSeq(<<m>>)
      BY ShortSeqs
    <3>. QED BY <3>1, WithinCat, Within
  <2>. HIDE DEF z
  <2>. QED BY <2>1, <2>2, SeqShape, Within
<1>. HIDE DEF z
<1>2. /\ IsSeq(t) /\ Len(t) = Len(x) + Len(z) /\ Len(x) \in Nat /\ Len(z) \in Nat \ {0}
      /\ \A i \in 1..Len(x) : t[i] = x[i]
      /\ \A i \in 1..Len(z) : t[Len(x) + i] = z[i]
      /\ ToSet(t) = ToSet(x) \cup ToSet(z)
  BY <1>1, SeqCat, SeqShape, WithinCat
<1>. HIDE DEF t
<1>3. Len(x) + 1 \in 1..Len(t) /\ t[Len(x) + 1] = m
  BY <1>1, <1>2
<1>4. ASSUME NEW i \in 1..Len(t), NEW p, Makes(t[i], p)
      PROVE  p \in L \/ \E j \in 1..Len(t) : i < j /\ Drops(t[j], p)
  <2>1. CASE i \in 1..Len(x)
    BY <1>2, <1>3, <2>1 DEF Drops
  <2>2. CASE i \notin 1..Len(x)
    <3>. DEFINE d == i - Len(x)
    <3>1. d \in 1..Len(z) /\ i = Len(x) + d
      BY <1>2, <2>2
    <3>. HIDE DEF d
    <3>2. t[i] \in ToSet(z)
      BY <1>1, <1>2, <3>1
    <3>. QED BY <1>1, <1>4, <3>2 DEF Makes, Adds
  <2>. QED BY <2>1, <2>2
<1>5. m \in ToSet(t)
  BY <1>1, <1>2
<1>6. Vanishes(b, t, y, L)
  BY <1>4, <1>5 DEF Vanishes, Drops
<1>. QED BY <1>6 DEF t, z

LEMMA VanishesFewer ==
    ASSUME NEW b, NEW x, NEW y, NEW L, NEW c, Vanishes(b, x, y, L), DOMAIN c \subseteq DOMAIN b
    PROVE  Vanishes(c, x, y, L)
  BY DEF Vanishes

LEMMA AppearsCat ==
    ASSUME NEW b, NEW q, NEW x, NEW L, NEW r, NEW u, NEW M, IsSeq(x), IsSeq(r),
           Appears(b, q, x, L), ~Sends(r),
           \A p \in M : p \in L \/ \E m \in ToSet(r) : Makes(m, p),
           \A p \in M : (\E e \in ToSet(q) : Kills(e, p)) => \E e \in ToSet(u) : Kills(e, p)
    PROVE  Appears(b, u, x \o r, M)
<1>. DEFINE t == x \o r
<1>1. /\ IsSeq(t) /\ Len(t) = Len(x) + Len(r) /\ Len(x) \in Nat /\ Len(r) \in Nat
      /\ \A i \in 1..Len(x) : t[i] = x[i]
      /\ \A i \in 1..Len(r) : t[Len(x) + i] = r[i]
      /\ ToSet(t) = ToSet(x) \cup ToSet(r) /\ ToSet(r) = {r[i] : i \in 1..Len(r)}
  BY SeqCat, SeqShape, Within, WithinCat
<1>. HIDE DEF t
<1>2. ASSUME NEW j \in 1..Len(t), j > Len(x) PROVE t[j].type # "switched"
  <2>. DEFINE d == j - Len(x)
  <2>1. d \in 1..Len(r) /\ j = Len(x) + d
    BY <1>1, <1>2
  <2>. HIDE DEF d
  <2>2. t[j] \in ToSet(r)
    BY <1>1, <2>1
  <2>. QED BY <2>2 DEF Sends
<1>3. ASSUME NEW p \in M
      PROVE  \/ \E e \in ToSet(u) : Kills(e, p)
             \/ p \in DOMAIN b /\ ~Sends(t)
             \/ \E i \in 1..Len(t) : Makes(t[i], p) /\ \A j \in 1..Len(t) : i < j => t[j].type # "switched"
  <2>1. CASE \E e \in ToSet(q) : Kills(e, p)
    BY <2>1
  <2>2. CASE p \in DOMAIN b /\ ~Sends(x)
    BY <1>1, <2>2 DEF Sends
  <2>3. ASSUME NEW i \in 1..Len(x), Makes(x[i], p),
               \A j \in 1..Len(x) : i < j => x[j].type # "switched"
        PROVE  \E n \in 1..Len(t) : Makes(t[n], p) /\ \A j \in 1..Len(t) : n < j => t[j].type # "switched"
    <3>1. i \in 1..Len(t) /\ Makes(t[i], p)
      BY <1>1, <2>3
    <3>2. ASSUME NEW j \in 1..Len(t), i < j PROVE t[j].type # "switched"
      <4>1. CASE j > Len(x)
        BY <1>2, <4>1
      <4>2. CASE ~(j > Len(x))
        <5>1. j \in 1..Len(x)
          BY <1>1, <4>2
        <5>. QED BY <1>1, <2>3, <3>2, <5>1
      <4>. QED BY <4>1, <4>2
    <3>. QED BY <3>1, <3>2
  <2>4. ASSUME NEW m \in ToSet(r), Makes(m, p)
        PROVE  \E n \in 1..Len(t) : Makes(t[n], p) /\ \A j \in 1..Len(t) : n < j => t[j].type # "switched"
    <3>. PICK n \in 1..Len(r) : r[n] = m
      BY <1>1
    <3>1. Len(x) + n \in 1..Len(t) /\ Makes(t[Len(x) + n], p)
      BY <1>1, <2>4
    <3>2. \A j \in 1..Len(t) : Len(x) + n < j => j > Len(x)
      BY <1>1
    <3>. QED BY <1>2, <3>1, <3>2
  <2>. QED BY <2>1, <2>2, <2>3, <2>4 DEF Appears
<1>4. Appears(b, u, t, M)
  BY <1>3 DEF Appears
<1>. QED BY <1>4 DEF t

LEMMA AppearsPop ==
    ASSUME NEW b, NEW q, NEW x, NEW L, NEW c, NEW u, IsSeq(x), x # <<>>, Appears(b, q, x, L),
           ToSet(q) \subseteq ToSet(u),
           ~Sends(Tail(x)) =>
               \A p \in L : (p \in DOMAIN b /\ Head(x).type # "switched") \/ Makes(Head(x), p) =>
                            p \in DOMAIN c \/ \E e \in ToSet(u) : Kills(e, p)
    PROVE  Appears(c, u, Tail(x), L)
<1>. DEFINE t == Tail(x)
            h == Head(x)
<1>1. /\ Len(x) \in Nat \ {0} /\ h = x[1] /\ Len(t) = Len(x) - 1
      /\ \A i \in 1..(Len(x) - 1) : t[i] = x[i + 1]
      /\ ToSet(x) = {h} \cup ToSet(t) /\ ToSet(t) = {t[i] : i \in 1..Len(t)}
  <2>1. /\ Len(x) \in Nat \ {0} /\ h = x[1] /\ Len(t) = Len(x) - 1 /\ IsSeq(t)
        /\ \A i \in 1..(Len(x) - 1) : t[i] = x[i + 1]
    BY SeqTail
  <2>2. ToSet(x) = {h} \cup ToSet(t)
    BY Within
  <2>. HIDE DEF t
  <2>3. ToSet(t) = {t[i] : i \in 1..Len(t)}
    BY <2>1, Within
  <2>. QED BY <2>1, <2>2, <2>3
<1>0. ~Sends(t) => \A p \in L : (p \in DOMAIN b /\ h.type # "switched") \/ Makes(h, p) =>
                                  p \in DOMAIN c \/ \E e \in ToSet(u) : Kills(e, p)
  OBVIOUS
<1>. HIDE DEF t, h
<1>2. ASSUME NEW p \in L
      PROVE  \/ \E e \in ToSet(u) : Kills(e, p)
             \/ p \in DOMAIN c /\ ~Sends(t)
             \/ \E i \in 1..Len(t) : Makes(t[i], p) /\ \A j \in 1..Len(t) : i < j => t[j].type # "switched"
  <2>1. CASE \E e \in ToSet(q) : Kills(e, p)
    BY <2>1
  <2>2. CASE p \in DOMAIN b /\ ~Sends(x)
    BY <1>0, <1>1, <2>2 DEF Sends
  <2>3. ASSUME NEW i \in 1..Len(x), Makes(x[i], p),
               \A j \in 1..Len(x) : i < j => x[j].type # "switched"
        PROVE  \/ \E e \in ToSet(u) : Kills(e, p)
               \/ p \in DOMAIN c /\ ~Sends(t)
               \/ \E n \in 1..Len(t) : Makes(t[n], p) /\ \A j \in 1..Len(t) : n < j => t[j].type # "switched"
    <3>0. \A j \in 1..Len(t) : j + 1 \in 1..Len(x) /\ t[j] = x[j + 1]
      BY <1>1
    <3>1. CASE i = 1
      <4>1. Makes(h, p)
        BY <1>1, <2>3, <3>1
      <4>2. ~Sends(t)
        <5>1. \A j \in 1..Len(t) : t[j].type # "switched"
          BY <2>3, <3>0, <3>1
        <5>. QED BY <1>1, <5>1 DEF Sends
      <4>. QED BY <1>0, <4>1, <4>2
    <3>2. CASE i # 1
      <4>. DEFINE n == i - 1
      <4>1. n \in 1..Len(t) /\ n + 1 = i
        BY <1>1, <3>2
      <4>. HIDE DEF n
      <4>2. Makes(t[n], p)
        BY <2>3, <3>0, <4>1
      <4>3. \A j \in 1..Len(t) : n < j => t[j].type # "switched"
        BY <2>3, <3>0, <4>1
      <4>. QED BY <4>1, <4>2, <4>3
    <3>. QED BY <3>1, <3>2
  <2>. QED BY <2>1, <2>2, <2>3 DEF Appears
<1>3. Appears(c, u, t, L)
  BY <1>2 DEF Appears
<1>. QED BY <1>3 DEF t

LEMMA AppearsAnew ==
    ASSUME NEW b, NEW q, NEW x, NEW m, NEW r, NEW L, IsSeq(x), IsSeq(r), m.type = "switched",
           m.terminals = L, \A e \in ToSet(r) : e.type = "data"
    PROVE  Appears(b, q, x \o (<<m>> \o r), L)
<1>. DEFINE y == x \o <<m>>
<1>0. IsSeq(<<m>>) /\ ToSet(<<m>>) = {m}
  BY ShortSeqs, Within
<1>1. IsSeq(y) /\ Len(y) = Len(x) + 1 /\ Len(x) \in Nat /\ y[Len(x) + 1] = m
  BY SeqCatOne, SeqShape
<1>2. x \o (<<m>> \o r) = y \o r
  BY <1>0 DEF IsSeq
<1>. HIDE DEF y
<1>3. Appears(b, q, y, L)
  <2>1. Len(x) + 1 \in 1..Len(y) /\ \A j \in 1..Len(y) : ~(Len(x) + 1 < j)
    BY <1>1
  <2>. QED BY <1>1, <2>1 DEF Appears, Makes
<1>4. ~Sends(r)
  BY DEF Sends
<1>5. Appears(b, q, y \o r, L)
  BY <1>1, <1>3, <1>4, AppearsCat
<1>. QED BY <1>2, <1>5

LEMMA AppearsFewer ==
    ASSUME NEW b, NEW q, NEW x, NEW L, NEW c, NEW u, Appears(b, q, x, L),
           ToSet(q) \subseteq ToSet(u),
           \A p \in DOMAIN b : p \in DOMAIN c \/ \E e \in ToSet(u) : Kills(e, p)
    PROVE  Appears(c, u, x, L)
  BY DEF Appears

-----------------------------------------------------------------------------
(* One window, and the socket behind it.  B are the workspaces of the list.*)

LEMMA OpensFirstCat ==
    ASSUME NEW q, NEW r, IsSeq(q), IsSeq(r), OpensFirst(q), OpensFirst(r), Wants(q) => ~Opening(r)
    PROVE  OpensFirst(q \o r)
<1>. DEFINE t == q \o r
<1>1. /\ Len(t) = Len(q) + Len(r) /\ Len(q) \in Nat /\ Len(r) \in Nat
      /\ \A i \in 1..Len(q) : t[i] = q[i]
      /\ \A i \in 1..Len(r) : t[Len(q) + i] = r[i]
      /\ ToSet(q) = {q[i] : i \in 1..Len(q)} /\ ToSet(r) = {r[i] : i \in 1..Len(r)}
  BY SeqCat, SeqShape, Within
<1>. HIDE DEF t
<1>2. ASSUME NEW i \in 1..Len(t), i \notin 1..Len(q)
      PROVE  \E d \in 1..Len(r) : i = Len(q) + d /\ t[i] = r[d]
  <2>. DEFINE d == i - Len(q)
  <2>1. d \in 1..Len(r) /\ i = Len(q) + d
    BY <1>1, <1>2
  <2>. HIDE DEF d
  <2>. QED BY <1>1, <2>1
<1>3. ASSUME NEW i \in 1..Len(t), NEW j \in 1..Len(t), i < j, t[i].op = "switch"
      PROVE  t[j].op # "open"
  <2>1. CASE j \in 1..Len(q)
    <3>1. i \in 1..Len(q)
      BY <1>1, <1>3, <2>1
    <3>. QED BY <1>1, <1>3, <2>1, <3>1 DEF OpensFirst
  <2>2. CASE j \notin 1..Len(q)
    <3>1. PICK d \in 1..Len(r) : j = Len(q) + d /\ t[j] = r[d]
      BY <1>2, <2>2
    <3>2. CASE i \in 1..Len(q)
      <4>1. Wants(q)
        BY <1>1, <1>3, <3>2 DEF Wants
      <4>. QED BY <1>1, <3>1, <4>1 DEF Opening
    <3>3. CASE i \notin 1..Len(q)
      <4>1. PICK e \in 1..Len(r) : i = Len(q) + e /\ t[i] = r[e]
        BY <1>2, <3>3
      <4>2. e < d
        BY <1>1, <1>3, <3>1, <4>1
      <4>. QED BY <1>3, <3>1, <4>1, <4>2 DEF OpensFirst
    <3>. QED BY <3>2, <3>3
  <2>. QED BY <2>1, <2>2
<1>4. OpensFirst(t)
  BY <1>3 DEF OpensFirst
<1>. QED BY <1>4 DEF t

LEMMA OpensFirstTail ==
    ASSUME NEW q, IsSeq(q), q # <<>>, OpensFirst(q)
    PROVE  OpensFirst(Tail(q)) /\ (Head(q).op = "switch" => ~Opening(Tail(q)))
<1>. DEFINE t == Tail(q)
<1>1. /\ Len(q) \in Nat \ {0} /\ Head(q) = q[1] /\ Len(t) = Len(q) - 1 /\ IsSeq(t)
      /\ \A i \in 1..(Len(q) - 1) : t[i] = q[i + 1]
  BY SeqTail
<1>. HIDE DEF t
<1>2. \A i \in 1..Len(t) : i + 1 \in 1..Len(q) /\ t[i] = q[i + 1]
  BY <1>1
<1>3. OpensFirst(t)
  <2>1. ASSUME NEW i \in 1..Len(t), NEW j \in 1..Len(t), i < j, t[i].op = "switch"
        PROVE  t[j].op # "open"
    <3>1. i + 1 < j + 1
      BY <1>1, <2>1
    <3>. QED BY <1>2, <2>1, <3>1 DEF OpensFirst
  <2>. QED BY <2>1 DEF OpensFirst
<1>4. ASSUME Head(q).op = "switch", NEW j \in 1..Len(t) PROVE t[j].op # "open"
  <2>1. 1 \in 1..Len(q) /\ 1 < j + 1
    BY <1>1
  <2>. QED BY <1>1, <1>2, <1>4, <2>1 DEF OpensFirst
<1>5. ToSet(t) = {t[i] : i \in 1..Len(t)}
  BY <1>1, Within
<1>6. Head(q).op = "switch" => ~Opening(t)
  BY <1>4, <1>5 DEF Opening
<1>. QED BY <1>3, <1>6 DEF t

LEMMA TellsFirstCat ==
    ASSUME NEW q, NEW r, IsSeq(q), IsSeq(r), TellsFirst(q), TellsFirst(r), Sends(q) => ~Telling(r)
    PROVE  TellsFirst(q \o r)
<1>. DEFINE t == q \o r
<1>1. /\ Len(t) = Len(q) + Len(r) /\ Len(q) \in Nat /\ Len(r) \in Nat
      /\ \A i \in 1..Len(q) : t[i] = q[i]
      /\ \A i \in 1..Len(r) : t[Len(q) + i] = r[i]
      /\ ToSet(q) = {q[i] : i \in 1..Len(q)} /\ ToSet(r) = {r[i] : i \in 1..Len(r)}
  BY SeqCat, SeqShape, Within
<1>. HIDE DEF t
<1>2. ASSUME NEW i \in 1..Len(t), i \notin 1..Len(q)
      PROVE  \E d \in 1..Len(r) : i = Len(q) + d /\ t[i] = r[d]
  <2>. DEFINE d == i - Len(q)
  <2>1. d \in 1..Len(r) /\ i = Len(q) + d
    BY <1>1, <1>2
  <2>. HIDE DEF d
  <2>. QED BY <1>1, <2>1
<1>3. ASSUME NEW i \in 1..Len(t), NEW j \in 1..Len(t), i < j, t[i].type = "switched"
      PROVE  ~Tells(t[j])
  <2>1. CASE j \in 1..Len(q)
    <3>1. i \in 1..Len(q)
      BY <1>1, <1>3, <2>1
    <3>. QED BY <1>1, <1>3, <2>1, <3>1 DEF TellsFirst
  <2>2. CASE j \notin 1..Len(q)
    <3>1. PICK d \in 1..Len(r) : j = Len(q) + d /\ t[j] = r[d]
      BY <1>2, <2>2
    <3>2. CASE i \in 1..Len(q)
      <4>1. Sends(q)
        BY <1>1, <1>3, <3>2 DEF Sends
      <4>. QED BY <1>1, <3>1, <4>1 DEF Telling
    <3>3. CASE i \notin 1..Len(q)
      <4>1. PICK e \in 1..Len(r) : i = Len(q) + e /\ t[i] = r[e]
        BY <1>2, <3>3
      <4>2. e < d
        BY <1>1, <1>3, <3>1, <4>1
      <4>. QED BY <1>3, <3>1, <4>1, <4>2 DEF TellsFirst
    <3>. QED BY <3>2, <3>3
  <2>. QED BY <2>1, <2>2
<1>4. TellsFirst(t)
  BY <1>3 DEF TellsFirst
<1>. QED BY <1>4 DEF t

LEMMA TellsFirstTail ==
    ASSUME NEW x, IsSeq(x), x # <<>>, TellsFirst(x)
    PROVE  TellsFirst(Tail(x)) /\ (Head(x).type = "switched" => ~Telling(Tail(x)))
<1>. DEFINE t == Tail(x)
<1>1. /\ Len(x) \in Nat \ {0} /\ Head(x) = x[1] /\ Len(t) = Len(x) - 1 /\ IsSeq(t)
      /\ \A i \in 1..(Len(x) - 1) : t[i] = x[i + 1]
  BY SeqTail
<1>. HIDE DEF t
<1>2. \A i \in 1..Len(t) : i + 1 \in 1..Len(x) /\ t[i] = x[i + 1]
  BY <1>1
<1>3. TellsFirst(t)
  <2>1. ASSUME NEW i \in 1..Len(t), NEW j \in 1..Len(t), i < j, t[i].type = "switched"
        PROVE  ~Tells(t[j])
    <3>1. i + 1 < j + 1
      BY <1>1, <2>1
    <3>. QED BY <1>2, <2>1, <3>1 DEF TellsFirst
  <2>. QED BY <2>1 DEF TellsFirst
<1>4. ASSUME Head(x).type = "switched", NEW j \in 1..Len(t) PROVE ~Tells(t[j])
  <2>1. 1 \in 1..Len(x) /\ 1 < j + 1
    BY <1>1
  <2>. QED BY <1>1, <1>2, <1>4, <2>1 DEF TellsFirst
<1>5. ToSet(t) = {t[i] : i \in 1..Len(t)}
  BY <1>1, Within
<1>6. Head(x).type = "switched" => ~Telling(t)
  BY <1>4, <1>5 DEF Telling
<1>. QED BY <1>3, <1>6 DEF t

\* Sequences without any, and of one.
LEMMA NothingFirst ==
    ASSUME NEW z, IsSeq(z)
    PROVE  /\ ~Opening(z) => OpensFirst(z) /\ Cardinality(Asked(z)) = 0
           /\ ~Telling(z) => TellsFirst(z) /\ Cardinality(Told(z)) = 0
<1>1. ToSet(z) = {z[i] : i \in 1..Len(z)}
  BY Within
<1>2. ~Opening(z) => OpensFirst(z) /\ Asked(z) = {}
  BY <1>1 DEF Opening, OpensFirst, Asked
<1>3. ~Telling(z) => TellsFirst(z) /\ Told(z) = {}
  BY <1>1 DEF Telling, TellsFirst, Told
<1>. QED BY <1>2, <1>3, FS_EmptySet

LEMMA OneFirst ==
    ASSUME NEW e
    PROVE  /\ OpensFirst(<<e>>) /\ TellsFirst(<<e>>) /\ IsSeq(<<e>>) /\ ToSet(<<e>>) = {e}
           /\ Cardinality(Asked(<<e>>)) = IF e.op = "open" THEN 1 ELSE 0
           /\ Cardinality(Told(<<e>>)) = IF Tells(e) THEN 1 ELSE 0
<1>. DEFINE z == <<e>>
<1>1. IsSeq(z) /\ Len(z) = 1 /\ z[1] = e
  BY ShortSeqs
<1>2. ToSet(z) = {e}
  BY Within, ShortSeqs
<1>. HIDE DEF z
<1>3. OpensFirst(z) /\ TellsFirst(z)
  BY <1>1 DEF OpensFirst, TellsFirst
<1>4. /\ Asked(z) = IF e.op = "open" THEN {1} ELSE {}
      /\ Told(z) = IF Tells(e) THEN {1} ELSE {}
  BY <1>1 DEF Asked, Told
<1>5. Cardinality({1}) = 1 /\ Cardinality({}) = 0
  BY FS_Singleton, FS_EmptySet
<1>6. Cardinality(Asked(z)) = (IF e.op = "open" THEN 1 ELSE 0)
      /\ Cardinality(Told(z)) = (IF Tells(e) THEN 1 ELSE 0)
  BY <1>4, <1>5
<1>. QED BY <1>1, <1>2, <1>3, <1>6 DEF z

\* What is left when the first is gone.
LEMMA AskedTail ==
    ASSUME NEW q, IsSeq(q), q # <<>>
    PROVE  /\ Cardinality(Asked(q)) \in Nat /\ Cardinality(Asked(Tail(q))) \in Nat
           /\ Cardinality(Asked(q)) =
                 (IF Head(q).op = "open" THEN 1 ELSE 0) + Cardinality(Asked(Tail(q)))
<1>. DEFINE e == Head(q)
            t == Tail(q)
            o == <<e>>
<1>1. IsSeq(t) /\ q = o \o t
  BY HeadFirst, SeqTail
<1>2. IsSeq(o) /\ Cardinality(Asked(o)) = IF e.op = "open" THEN 1 ELSE 0
  BY OneFirst
<1>. HIDE DEF o, t, e
<1>3. /\ Cardinality(Asked(o)) \in Nat /\ Cardinality(Asked(t)) \in Nat
      /\ Cardinality(Asked(o \o t)) = Cardinality(Asked(o)) + Cardinality(Asked(t))
  BY <1>1, <1>2, AskedCat
<1>4. Cardinality(Asked(q)) = Cardinality(Asked(o)) + Cardinality(Asked(t))
  BY <1>1, <1>3
<1>. QED BY <1>2, <1>3, <1>4 DEF e, t

LEMMA ToldTail ==
    ASSUME NEW x, IsSeq(x), x # <<>>
    PROVE  /\ Cardinality(Told(x)) \in Nat /\ Cardinality(Told(Tail(x))) \in Nat
           /\ Cardinality(Told(x)) =
                 (IF Tells(Head(x)) THEN 1 ELSE 0) + Cardinality(Told(Tail(x)))
<1>. DEFINE e == Head(x)
            t == Tail(x)
            o == <<e>>
<1>1. IsSeq(t) /\ x = o \o t
  BY HeadFirst, SeqTail
<1>2. IsSeq(o) /\ Cardinality(Told(o)) = IF Tells(e) THEN 1 ELSE 0
  BY OneFirst
<1>. HIDE DEF o, t, e
<1>3. /\ Cardinality(Told(o)) \in Nat /\ Cardinality(Told(t)) \in Nat
      /\ Cardinality(Told(o \o t)) = Cardinality(Told(o)) + Cardinality(Told(t))
  BY <1>1, <1>2, ToldCat
<1>4. Cardinality(Told(x)) = Cardinality(Told(o)) + Cardinality(Told(t))
  BY <1>1, <1>3
<1>. QED BY <1>2, <1>3, <1>4 DEF e, t

-----------------------------------------------------------------------------
(* The steps of the socket, as the window will see them.                   *)

\* Workspace w is being closed; the window is told of it.
Undoes(do, w) == \/ do.step = "destroy" /\ do.workspace = w
                 \/ do.step = "detach" /\ do.next.step = "destroy" /\ do.next.workspace = w
Loses(x, w)   == \E m \in ToSet(x) : m.type = "gone" /\ m.workspace = w

LEMMA ClosingWithin ==
    ASSUME NEW w, NEW do, NEW x, IsSeq(x)
    PROVE  Closing(w, do, x) <=> Undoes(do, w) \/ Loses(x, w)
<1>1. ToSet(x) = {x[i] : i \in 1..Len(x)}
  BY Within
<1>. QED BY <1>1 DEF Closing, Undoes, Loses

\* With requests q, the terminals L and y in the queue, the socket replies r and is left
\* with u, M and v.
Renews(q, y, L, r, u, v, M) ==
    /\ Wants(q) => Wants(u)
    /\ Cardinality(Asked(u)) + Cardinality(Told(r)) <= Cardinality(Asked(q))
    /\ \A p \in L : p \in M \/ Shut1(r, p) \/ Shut1(v, p)
    /\ \A p : Shut1(y, p) => Shut1(r, p) \/ Shut1(v, p)
    /\ \A m \in ToSet(r) : \A p : Makes(m, p) => p \in M
    /\ \A p \in M : p \in L \/ \E m \in ToSet(r) : Makes(m, p)
    /\ \A p \in M : (\E e \in ToSet(q) : Kills(e, p)) => \E e \in ToSet(u) : Kills(e, p)

LEMMA DockRenewed ==
    ASSUME NEW b, NEW n \in Nat, NEW q, NEW x, NEW y, NEW L, Dock(b, n, q, x, y, L),
           IsSeq(q), IsSeq(x), NEW r, IsSeq(r), ~Sends(r), NEW u, IsSeq(u), NEW v, NEW M,
           Renews(q, y, L, r, u, v, M)
    PROVE  Dock(b, n, u, x \o r, v, M)
<1>1. Vanishes(b, x \o r, v, M)
  BY VanishesCat DEF Dock, Renews
<1>2. ASSUME ~Wants(u) PROVE Appears(b, u, x \o r, M)
  <2>1. Appears(b, q, x, L)
    BY <1>2 DEF Dock, Renews
  <2>. QED BY <2>1, AppearsCat DEF Renews
<1>3. ASSUME ~Wants(u), ~Sends(x \o r)
      PROVE  Cardinality(Asked(u)) + Cardinality(Told(x \o r)) <= n
  <2>1. ToSet(x \o r) = ToSet(x) \cup ToSet(r)
    BY WithinCat
  <2>2. ~Sends(x)
    BY <1>3, <2>1 DEF Sends
  <2>3. Cardinality(Asked(q)) + Cardinality(Told(x)) <= n
    BY <1>3, <2>2 DEF Dock, Renews
  <2>4. /\ Cardinality(Told(x)) \in Nat /\ Cardinality(Told(r)) \in Nat
        /\ Cardinality(Told(x \o r)) = Cardinality(Told(x)) + Cardinality(Told(r))
    BY ToldCat
  <2>5. /\ Cardinality(Asked(u)) \in Nat /\ Cardinality(Asked(q)) \in Nat
        /\ Cardinality(Asked(u)) + Cardinality(Told(r)) <= Cardinality(Asked(q))
    BY AskedCat DEF Renews
  <2>. HIDE DEF Asked, Told
  <2>. QED BY <2>3, <2>4, <2>5
<1>. QED BY <1>1, <1>2, <1>3 DEF Dock

\* The socket goes nowhere: it replies r, and the sessions become T.
Calm(so, to, r, S, T) ==
    /\ Bound(to.doing) <=> Bound(so.doing)
    /\ \A w : Undoes(so.doing, w) => Undoes(to.doing, w) \/ Loses(r, w)
    /\ \/ to.session = so.session
       \/ \A w \in Held : so.session # SessionAt(w) /\ to.session # SessionAt(w)
    /\ to.requests = so.requests \/ (so.requests # <<>> /\ to.requests = Tail(so.requests))
    /\ \A m \in ToSet(r) : m.type # "switched"
    /\ TellsFirst(r) /\ (Telling(r) => Opening(so.requests))
    /\ \A w \in Held : so.session = SessionAt(w) =>
          Renews(so.requests, so.queue, S[so.session].terminals,
                 r, to.requests, to.queue, T[so.session].terminals)

LEMMA ViewCalm ==
    ASSUME NEW g, NEW so, NEW x, NEW S, NEW B, View(g, so, x, S, B), IsSeq(x), IsSeq(so.requests),
           NEW to, NEW r, IsSeq(r), NEW T, Calm(so, to, r, S, T)
    PROVE  View(g, to, x \o r, T, B)
<1>. DEFINE q  == so.requests
            do == so.doing
            z  == x \o r
<1>1. /\ IsSeq(z) /\ ToSet(z) = ToSet(x) \cup ToSet(r)
      /\ \A m \in ToSet(r) : m.type # "switched"
  BY WithinCat DEF Calm
<1>2. Sends(z) <=> Sends(x)
  BY <1>1 DEF Sends
<1>3. IsSeq(to.requests) /\ ToSet(to.requests) \subseteq ToSet(q)
  BY SeqTail, Within DEF Calm
<1>4. (Bound(to.doing) <=> Bound(do)) /\ \A w : Closing(w, do, x) => Closing(w, to.doing, z)
  <2>1. \A w : Undoes(do, w) => Undoes(to.doing, w) \/ Loses(r, w)
    BY DEF Calm
  <2>2. \A w : Loses(x, w) \/ Loses(r, w) => Loses(z, w)
    BY <1>1 DEF Loses
  <2>3. \A w : Closing(w, do, x) => Undoes(do, w) \/ Loses(x, w)
    BY ClosingWithin
  <2>4. \A w : Undoes(to.doing, w) \/ Loses(z, w) => Closing(w, to.doing, z)
    BY <1>1, ClosingWithin
  <2>. HIDE DEF do, z
  <2>5. \A w : Closing(w, do, x) => Closing(w, to.doing, z)
    BY <2>1, <2>2, <2>3, <2>4
  <2>. QED BY <2>5 DEF Calm, do
<1>. HIDE DEF z
<1>5. Spot(g.workspace, g.known, to.requests, to.doing, z, to.session, B)
  <2>1. /\ \/ g.workspace = None \/ (g.workspace \in Held /\ so.session = SessionAt(g.workspace))
           \/ Bound(do) \/ Sends(x) \/ Closing(g.workspace, do, x)
        /\ \A m \in ToSet(x) : m.type = "switched" => m.workspace \in Held /\ so.session = SessionAt(m.workspace)
        /\ \A w \in g.known : w \in B \/ Closing(w, do, x)
        /\ (\E w \in Held : so.session = SessionAt(w)) =>
              \A e \in ToSet(q) : e.op = "switch" => e.workspace \in B
    BY DEF View, Spot
  <2>2. to.session = so.session \/ \A w \in Held : so.session # SessionAt(w) /\ to.session # SessionAt(w)
    BY DEF Calm
  <2>. HIDE DEF do, q
  <2>3. \/ g.workspace = None \/ (g.workspace \in Held /\ to.session = SessionAt(g.workspace))
        \/ Bound(to.doing) \/ Sends(z) \/ Closing(g.workspace, to.doing, z)
    BY <1>2, <1>4, <2>1, <2>2
  <2>4. \A m \in ToSet(z) : m.type = "switched" => m.workspace \in Held /\ to.session = SessionAt(m.workspace)
    BY <1>1, <2>1, <2>2
  <2>5. \A w \in g.known : w \in B \/ Closing(w, to.doing, z)
    BY <1>4, <2>1
  <2>6. (\E w \in Held : to.session = SessionAt(w)) =>
              \A e \in ToSet(to.requests) : e.op = "switch" => e.workspace \in B
    BY <1>3, <2>1, <2>2
  <2>. QED BY <2>3, <2>4, <2>5, <2>6 DEF Spot
<1>6. Tidy(to.requests, to.doing, z)
  <2>1. OpensFirst(q) /\ TellsFirst(x) /\ (Bound(do) \/ Sends(x) => ~Opening(q))
    BY DEF View, Tidy
  <2>2. OpensFirst(to.requests)
    BY <2>1, OpensFirstTail DEF Calm
  <2>3. TellsFirst(z)
    BY <2>1, TellsFirstCat DEF Calm, z
  <2>4. Opening(to.requests) => Opening(q)
    BY <1>3 DEF Opening
  <2>. HIDE DEF do, q
  <2>. QED BY <1>2, <1>4, <2>1, <2>2, <2>3, <2>4 DEF Tidy
<1>7. ASSUME NEW w \in Held, to.session = SessionAt(w)
      PROVE  Dock(g.panels, g.opening, to.requests, z, to.queue, T[to.session].terminals)
  <2>1. so.session = SessionAt(w) /\ to.session = so.session
    BY <1>7 DEF Calm
  <2>2. /\ Dock(g.panels, g.opening, q, x, so.queue, S[so.session].terminals)
        /\ g.opening \in Nat
    BY <2>1 DEF View
  <2>3. Renews(q, so.queue, S[so.session].terminals, r, to.requests, to.queue, T[so.session].terminals)
    BY <2>1 DEF Calm
  <2>4. ~Sends(r)
    BY <1>1 DEF Sends
  <2>. HIDE DEF q
  <2>5. Dock(g.panels, g.opening, to.requests, x \o r, to.queue, T[so.session].terminals)
    BY <1>3, <2>2, <2>3, <2>4, DockRenewed DEF q
  <2>. QED BY <2>1, <2>5 DEF z
<1>8. g.opening \in Nat
  BY DEF View
<1>. HIDE DEF q, do
<1>9. View(g, to, z, T, B)
  BY <1>5, <1>6, <1>7, <1>8 DEF View
<1>. QED BY <1>9 DEF z

LEMMA MovesWithin ==
    ASSUME NEW z, IsSeq(z)
    PROVE  /\ NoMove(z) <=> \A e \in ToSet(z) : ~Move(e)
           /\ NoTell(z) <=> \A m \in ToSet(z) : ~Tell(m)
<1>1. ToSet(z) = {z[i] : i \in 1..Len(z)}
  BY Within
<1>. QED BY <1>1 DEF NoMove, NoTell

\* The first request is a move: nothing else is under way.
LEMMA MoveFirst ==
    ASSUME NEW q, NEW do, NEW x, NEW ses, NEW ws, Controlled(q, do, x, ses, ws),
           IsSeq(q), IsSeq(x), q # <<>>, Move(Head(q))
    PROVE  /\ \A m \in ToSet(x) : ~Tell(m)
           /\ \A e \in ToSet(Tail(q)) : ~Move(e)
           /\ ~Sends(x) /\ \A w : ~Loses(x, w)
<1>1. ~NoMove(q) /\ OneMove(q)
  <2>1. Head(q) \in ToSet(q)
    BY Within
  <2>. QED BY <2>1, MovesWithin DEF Controlled, OneAtATime
<1>2. NoTell(x) /\ NoMove(Tail(q)) /\ IsSeq(Tail(q))
  BY <1>1, MovesTail, SeqTail DEF Controlled, OneAtATime
<1>3. (\A m \in ToSet(x) : ~Tell(m)) /\ \A e \in ToSet(Tail(q)) : ~Move(e)
  BY <1>2, MovesWithin
<1>. QED BY <1>3 DEF Tell, Sends, Loses

LEMMA ViewSwitch ==
    ASSUME NEW g, NEW so, NEW x, NEW S, NEW B, View(g, so, x, S, B), IsSeq(x), IsSeq(so.requests),
           Controlled(so.requests, so.doing, x, so.session, g.workspace), so.doing = Idle,
           so.requests # <<>>, Head(so.requests).op = "switch",
           NEW to, to.requests = Tail(so.requests), to.session = None, Bound(to.doing), NEW T
    PROVE  View(g, to, x, T, B)
<1>1. /\ \A m \in ToSet(x) : m.type # "switched"
      /\ ~Sends(x) /\ \A w : ~Loses(x, w)
  <2>1. Move(Head(so.requests))
    BY DEF Move
  <2>. QED BY <2>1, MoveFirst DEF Tell
<1>2. \A w : ~Closing(w, so.doing, x)
  BY <1>1, ClosingWithin DEF Undoes, Idle
<1>3. \A w \in Held : to.session # SessionAt(w)
  BY OwnSessions
<1>4. Spot(g.workspace, g.known, to.requests, to.doing, x, to.session, B)
  BY <1>1, <1>2, <1>3 DEF View, Spot
<1>5. Tidy(to.requests, to.doing, x)
  BY OpensFirstTail DEF View, Tidy
<1>. QED BY <1>3, <1>4, <1>5 DEF View

LEMMA ViewClose ==
    ASSUME NEW g, NEW so, NEW x, NEW S, NEW B, View(g, so, x, S, B), IsSeq(x), IsSeq(so.requests),
           Controlled(so.requests, so.doing, x, so.session, g.workspace), so.doing = Idle,
           so.requests # <<>>, Head(so.requests).op = "close",
           NEW to, NEW v \in Held, to.requests = Tail(so.requests), to.queue = so.queue,
           to.session = (IF so.session = SessionAt(v) THEN None ELSE so.session),
           ~Bound(to.doing), Undoes(to.doing, v)
    PROVE  View(g, to, x, S, B \ {v})
<1>. DEFINE q == so.requests
            u == Tail(q)
<1>1. /\ \A m \in ToSet(x) : m.type # "switched"
      /\ \A e \in ToSet(u) : e.op # "switch"
      /\ ~Sends(x) /\ \A w : ~Loses(x, w)
  <2>1. Move(Head(so.requests))
    BY DEF Move
  <2>. QED BY <2>1, MoveFirst DEF Tell, Move
<1>2. \A w : ~Closing(w, so.doing, x)
  BY <1>1, ClosingWithin DEF Undoes, Idle
<1>3. Closing(v, to.doing, x)
  BY ClosingWithin
<1>4. ~Bound(so.doing)
  BY DEF Bound, Idle
<1>5. ASSUME NEW w \in Held, to.session = SessionAt(w) PROVE so.session = SessionAt(w)
  BY <1>5, OwnSessions
<1>6. Spot(g.workspace, g.known, u, to.doing, x, to.session, B \ {v})
  <2>1. /\ g.workspace = None \/ (g.workspace \in Held /\ so.session = SessionAt(g.workspace))
        /\ \A w \in g.known : w \in B
    BY <1>1, <1>2, <1>4 DEF View, Spot
  <2>2. \/ g.workspace = None \/ (g.workspace \in Held /\ to.session = SessionAt(g.workspace))
        \/ Closing(g.workspace, to.doing, x)
    BY <1>3, <2>1, OwnSessions
  <2>3. \A w \in g.known : w \in B \ {v} \/ Closing(w, to.doing, x)
    BY <1>3, <2>1
  <2>. HIDE DEF u
  <2>. QED BY <1>1, <2>2, <2>3 DEF Spot
<1>7. Tidy(u, to.doing, x)
  BY <1>1, OpensFirstTail DEF View, Tidy
<1>8. ASSUME NEW w \in Held, to.session = SessionAt(w)
      PROVE  Dock(g.panels, g.opening, u, x, to.queue, S[to.session].terminals)
  <2>. DEFINE L == S[so.session].terminals
              r == <<>>
  <2>1. Dock(g.panels, g.opening, q, x, so.queue, L) /\ g.opening \in Nat
    BY <1>5, <1>8 DEF View
  <2>2. IsSeq(r) /\ x \o r = x /\ ToSet(r) = {}
    BY ShortSeqs, EmptyCat, Within
  <2>. HIDE DEF r, L
  <2>3. ~Sends(r) /\ ~Telling(r)
    BY <2>2 DEF Sends, Telling
  <2>4. /\ Cardinality(Asked(u)) \in Nat /\ Cardinality(Asked(q)) = Cardinality(Asked(u))
        /\ Cardinality(Told(r)) = 0
    BY <2>2, <2>3, AskedTail, NothingFirst
  <2>5. ToSet(q) = {Head(q)} \cup ToSet(u) /\ IsSeq(u)
    BY Within
  <2>6. \A p : ~Kills(Head(q), p)
    BY DEF Kills
  <2>. HIDE DEF u
  <2>7. Renews(q, so.queue, L, r, u, so.queue, L)
    <3>1. Wants(q) => Wants(u)
      BY <2>5 DEF Wants
    <3>2. Cardinality(Asked(u)) + Cardinality(Told(r)) <= Cardinality(Asked(q))
      BY <2>4
    <3>3. \A p : (\E e \in ToSet(q) : Kills(e, p)) => \E e \in ToSet(u) : Kills(e, p)
      BY <2>5, <2>6
    <3>. HIDE DEF q
    <3>. QED BY <2>2, <3>1, <3>2, <3>3 DEF Renews
  <2>. HIDE DEF q
  <2>8. IsSeq(q)
    BY DEF q
  <2>9. Dock(g.panels, g.opening, u, x \o r, so.queue, L)
    BY <2>1, <2>2, <2>3, <2>5, <2>7, <2>8, DockRenewed
  <2>. QED BY <1>5, <1>8, <2>2, <2>9 DEF L
<1>9. g.opening \in Nat /\ u = to.requests
  BY DEF View
<1>. HIDE DEF u, q
<1>. QED BY <1>6, <1>7, <1>8, <1>9 DEF View

LEMMA ViewAttach ==
    ASSUME NEW g, NEW so, NEW x, NEW S, NEW B, View(g, so, x, S, B), IsSeq(x), IsSeq(so.requests),
           Controlled(so.requests, so.doing, x, so.session, g.workspace),
           so.doing.step = "attach",
           NEW m, NEW r, m.type = "switched", m.workspace \in Held,
           IsSeq(r), \A e \in ToSet(r) : e.type = "data",
           NEW to, NEW T, to.requests = so.requests, to.queue = so.queue, to.doing = Idle,
           to.session = SessionAt(m.workspace), m.terminals = T[to.session].terminals
    PROVE  View(g, to, x \o (<<m>> \o r), T, B)
<1>. DEFINE q == so.requests
            s == <<m>> \o r
            z == x \o s
            L == T[to.session].terminals
<1>1. /\ IsSeq(s) /\ ToSet(s) = {m} \cup ToSet(r)
      /\ IsSeq(z) /\ ToSet(z) = ToSet(x) \cup ToSet(s)
  <2>1. IsSeq(s) /\ ToSet(s) = {m} \cup ToSet(r)
    BY OneFirst, WithinCat
  <2>. HIDE DEF s
  <2>. QED BY <2>1, WithinCat
<1>2. /\ \A e \in ToSet(x) : ~Tell(e)
      /\ \A e \in ToSet(q) : ~Move(e)
  <2>1. Moving(so.doing)
    BY DEF Moving
  <2>2. NoTell(x) /\ NoMove(q)
    BY <2>1 DEF Controlled, OneAtATime
  <2>. QED BY <2>2, MovesWithin
<1>3. Dock(g.panels, g.opening, q, z, so.queue, L)
  <2>. HIDE DEF L, q, s, z
  <2>1. Vanishes(g.panels, z, so.queue, L)
    BY VanishesAnew DEF z, s, L
  <2>2. Appears(g.panels, q, z, L)
    BY AppearsAnew DEF z, s, L
  <2>3. Sends(z)
    BY <1>1 DEF Sends
  <2>. QED BY <2>1, <2>2, <2>3 DEF Dock
<1>. HIDE DEF z
<1>4. Sends(z) /\ (\A e \in ToSet(z) : e.type = "switched" => e = m)
  BY <1>1, <1>2 DEF Sends, Tell
<1>5. \A w \in g.known : w \in B
  <2>1. \A w : ~Closing(w, so.doing, x)
    BY <1>2, ClosingWithin DEF Undoes, Loses, Tell
  <2>. QED BY <2>1 DEF View, Spot
<1>6. Spot(g.workspace, g.known, q, to.doing, z, to.session, B)
  BY <1>2, <1>4, <1>5 DEF Spot, Move
<1>7. Tidy(q, to.doing, z)
  <2>1. OpensFirst(q) /\ TellsFirst(x) /\ ~Opening(q)
    BY DEF View, Tidy, Bound
  <2>2. ~Sends(x) /\ ~Telling(s)
    BY <1>1, <1>2 DEF Sends, Telling, Tells, Tell
  <2>. HIDE DEF s
  <2>3. TellsFirst(z)
    BY <1>1, <2>1, <2>2, NothingFirst, TellsFirstCat DEF z
  <2>. QED BY <2>1, <2>3 DEF Tidy
<1>8. g.opening \in Nat
  BY DEF View
<1>. HIDE DEF s
<1>9. View(g, to, z, T, B)
  BY <1>3, <1>6, <1>7, <1>8 DEF View
<1>. QED BY <1>9 DEF z, s

-----------------------------------------------------------------------------
(* The steps of the window.                                                *)

\* The window g hears m, which is no switch, becomes h and asks for r.
Heeds(g, h, m, r) ==
    /\ m.type # "switched" /\ (m.type = "gone" => m.workspace \notin h.known \cup {h.workspace})
    /\ h.workspace = g.workspace /\ h.known \subseteq g.known
    /\ h.opening \in Nat /\ g.opening <= h.opening + (IF Tells(m) THEN 1 ELSE 0)
    /\ ~Wants(r) /\ ~Opening(r)
    /\ \A p \in DOMAIN h.panels : (p \in DOMAIN g.panels /\ ~Drops(m, p)) \/ Makes(m, p)
    /\ \A p : p \in DOMAIN g.panels \/ Makes(m, p) =>
          p \in DOMAIN h.panels \/ (\E e \in ToSet(r) : Kills(e, p)) \/ (Tells(m) /\ g.opening = 0)

LEMMA DockHeeded ==
    ASSUME NEW g, NEW q, NEW x, NEW y, NEW L, Dock(g.panels, g.opening, q, x, y, L), g.opening \in Nat,
           IsSeq(q), IsSeq(x), x # <<>>, NEW h, NEW r, IsSeq(r), Heeds(g, h, Head(x), r)
    PROVE  Dock(h.panels, h.opening, q \o r, Tail(x), y, L)
<1>. DEFINE b == g.panels
            c == h.panels
            u == q \o r
            t == Tail(x)
            m == Head(x)
<1>1. ToSet(u) = ToSet(q) \cup ToSet(r) /\ ToSet(x) = {m} \cup ToSet(t) /\ IsSeq(t)
  BY WithinCat, Within
<1>2. (Wants(q) => Wants(u)) /\ (Sends(x) <=> Sends(t)) /\ m.type # "switched"
  BY <1>1 DEF Wants, Sends, Heeds
<1>3. Vanishes(c, t, y, L)
  <2>1. Vanishes(b, x, y, L)
    BY DEF Dock
  <2>2. \A p \in DOMAIN c : (p \in DOMAIN b /\ ~Drops(Head(x), p)) \/ Makes(Head(x), p)
    BY DEF Heeds
  <2>. HIDE DEF b, c
  <2>. QED BY <2>1, <2>2, VanishesPop
<1>4. /\ Cardinality(Told(x)) \in Nat /\ Cardinality(Told(t)) \in Nat
      /\ Cardinality(Told(x)) = (IF Tells(m) THEN 1 ELSE 0) + Cardinality(Told(t))
  BY ToldTail
<1>5. /\ Cardinality(Asked(q)) \in Nat
      /\ Cardinality(Asked(u)) = Cardinality(Asked(q))
  <2>1. Cardinality(Asked(r)) = 0
    BY NothingFirst DEF Heeds
  <2>2. Cardinality(Asked(q)) \in Nat /\ Cardinality(Asked(u)) = Cardinality(Asked(q)) + Cardinality(Asked(r))
    BY AskedCat
  <2>. HIDE DEF u
  <2>. QED BY <2>1, <2>2
<1>6. ASSUME ~Wants(u), ~Sends(t)
      PROVE  /\ Cardinality(Asked(u)) + Cardinality(Told(t)) <= h.opening
             /\ ~(Tells(m) /\ g.opening = 0)
  <2>1. Cardinality(Asked(q)) + Cardinality(Told(x)) <= g.opening
    BY <1>2, <1>6 DEF Dock
  <2>2. h.opening \in Nat /\ g.opening <= h.opening + (IF Tells(m) THEN 1 ELSE 0)
    BY DEF Heeds
  <2>. HIDE DEF u, t, m, Asked, Told
  <2>. QED BY <1>4, <1>5, <2>1, <2>2
<1>7. ASSUME ~Wants(u) PROVE Appears(c, u, t, L)
  <2>1. Appears(b, q, x, L)
    BY <1>2, <1>7 DEF Dock
  <2>2. ToSet(q) \subseteq ToSet(u)
    BY <1>1
  <2>3. ~Sends(t) =>
          \A p \in L : (p \in DOMAIN b /\ m.type # "switched") \/ Makes(m, p) =>
                       p \in DOMAIN c \/ \E e \in ToSet(u) : Kills(e, p)
    BY <1>1, <1>6, <1>7 DEF Heeds
  <2>. HIDE DEF b, c, u
  <2>. QED BY <2>1, <2>2, <2>3, AppearsPop
<1>. HIDE DEF b, c, u, t, m
<1>8. Dock(c, h.opening, u, t, y, L)
  BY <1>3, <1>6, <1>7 DEF Dock
<1>. QED BY <1>8 DEF c, u, t

LEMMA ViewHeeded ==
    ASSUME NEW g, NEW so, NEW x, NEW S, NEW B, View(g, so, x, S, B), IsSeq(x), IsSeq(so.requests),
           x # <<>>, NEW h, NEW r, IsSeq(r), Heeds(g, h, Head(x), r),
           NEW to, to.doing = so.doing, to.session = so.session, to.queue = so.queue,
           to.requests = so.requests \o r
    PROVE  View(h, to, Tail(x), S, B)
<1>. DEFINE q  == so.requests
            do == so.doing
            u  == q \o r
            t  == Tail(x)
            m  == Head(x)
<1>1. ToSet(u) = ToSet(q) \cup ToSet(r) /\ ToSet(x) = {m} \cup ToSet(t) /\ IsSeq(t)
  BY WithinCat, Within
<1>2. (Sends(x) <=> Sends(t)) /\ m.type # "switched"
  BY <1>1 DEF Sends, Heeds
<1>3. \A w \in h.known \cup {h.workspace} : Closing(w, do, x) => Closing(w, do, t)
  <2>1. \A w \in h.known \cup {h.workspace} : Loses(x, w) => Loses(t, w)
    BY <1>1 DEF Loses, Heeds
  <2>. HIDE DEF t
  <2>. QED BY <1>1, <2>1, ClosingWithin
<1>4. Spot(h.workspace, h.known, u, do, t, so.session, B)
  <2>1. Spot(g.workspace, g.known, q, do, x, so.session, B)
    BY DEF View
  <2>2. h.workspace = g.workspace /\ h.known \subseteq g.known /\ ~Wants(r)
    BY DEF Heeds
  <2>. HIDE DEF u, t, m, q, do
  <2>. QED BY <1>1, <1>2, <1>3, <2>1, <2>2 DEF Spot, Wants
<1>5. Tidy(u, do, t)
  <2>1. OpensFirst(q) /\ TellsFirst(x) /\ (Bound(do) \/ Sends(x) => ~Opening(q))
    BY DEF View, Tidy
  <2>2. ~Opening(r)
    BY DEF Heeds
  <2>3. OpensFirst(u)
    BY <2>1, <2>2, NothingFirst, OpensFirstCat
  <2>4. TellsFirst(t)
    BY <2>1, TellsFirstTail
  <2>. HIDE DEF u, t, q, do
  <2>. QED BY <1>1, <1>2, <2>1, <2>2, <2>3, <2>4 DEF Tidy, Opening
<1>6. ASSUME NEW w \in Held, so.session = SessionAt(w)
      PROVE  Dock(h.panels, h.opening, u, t, so.queue, S[so.session].terminals)
  <2>1. Dock(g.panels, g.opening, q, x, so.queue, S[so.session].terminals) /\ g.opening \in Nat
    BY <1>6 DEF View
  <2>. HIDE DEF q
  <2>. QED BY <2>1, DockHeeded DEF q
<1>7. h.opening \in Nat
  BY DEF Heeds
<1>. HIDE DEF u, t, q
<1>. QED BY <1>4, <1>5, <1>6, <1>7 DEF View, u, t, q

\* It hears of a move: there is no other.
LEMMA TellFirst ==
    ASSUME NEW q, NEW do, NEW x, NEW ses, NEW ws, Controlled(q, do, x, ses, ws),
           IsSeq(q), IsSeq(x), x # <<>>, Tell(Head(x))
    PROVE  /\ \A m \in ToSet(Tail(x)) : ~Tell(m)
           /\ \A e \in ToSet(q) : ~Move(e)
           /\ ~Moving(do) /\ ~Sends(Tail(x)) /\ ~Wants(q) /\ ~Bound(do)
<1>1. ~NoTell(x) /\ OneTell(x)
  <2>1. Head(x) \in ToSet(x)
    BY Within
  <2>. QED BY <2>1, MovesWithin DEF Controlled, OneAtATime
<1>2. NoMove(q) /\ NoTell(Tail(x)) /\ IsSeq(Tail(x)) /\ ~Moving(do)
  BY <1>1, TellsTail, SeqTail DEF Controlled, OneAtATime
<1>3. (\A m \in ToSet(Tail(x)) : ~Tell(m)) /\ \A e \in ToSet(q) : ~Move(e)
  BY <1>2, MovesWithin
<1>. QED BY <1>2, <1>3 DEF Tell, Move, Sends, Wants, Moving, Bound

LEMMA ViewSwitched ==
    ASSUME NEW g, NEW so, NEW x, NEW S, NEW B, View(g, so, x, S, B), IsSeq(x), IsSeq(so.requests),
           Controlled(so.requests, so.doing, x, so.session, g.workspace),
           x # <<>>, Head(x).type = "switched", NEW h, NEW r, IsSeq(r),
           h.workspace = Head(x).workspace, h.known = g.known, h.opening \in Nat,
           DOMAIN h.panels = Head(x).terminals, ~Wants(r), Cardinality(Asked(r)) = h.opening,
           NEW to, to.doing = so.doing, to.session = so.session, to.queue = so.queue,
           to.requests = so.requests \o r
    PROVE  View(h, to, Tail(x), S, B)
<1>. DEFINE q  == so.requests
            do == so.doing
            u  == q \o r
            t  == Tail(x)
            m  == Head(x)
<1>1. ToSet(u) = ToSet(q) \cup ToSet(r) /\ ToSet(x) = {m} \cup ToSet(t) /\ IsSeq(t)
  BY WithinCat, Within
<1>2. ~Sends(t) /\ ~Wants(u) /\ ~Bound(do)
  <2>1. Tell(Head(x))
    BY DEF Tell
  <2>2. ~Sends(t) /\ ~Wants(q) /\ ~Bound(do)
    BY <2>1, TellFirst
  <2>. HIDE DEF u
  <2>. QED BY <1>1, <2>2 DEF Wants
<1>3. Sends(x) /\ m.type = "switched"
  BY <1>1 DEF Sends
<1>4. \A w : Closing(w, do, x) => Closing(w, do, t)
  <2>1. \A w : Loses(x, w) => Loses(t, w)
    BY <1>1, <1>3 DEF Loses
  <2>. HIDE DEF t
  <2>. QED BY <1>1, <2>1, ClosingWithin
<1>5. Spot(h.workspace, h.known, u, do, t, so.session, B)
  <2>1. Spot(g.workspace, g.known, q, do, x, so.session, B)
    BY DEF View
  <2>2. h.workspace = m.workspace /\ h.known = g.known /\ m \in ToSet(x)
    BY <1>1
  <2>. HIDE DEF u, t, m, q, do
  <2>. QED BY <1>1, <1>2, <1>3, <1>4, <2>1, <2>2 DEF Spot, Wants, Sends
<1>6. /\ OpensFirst(u) /\ TellsFirst(t) /\ ~Opening(q) /\ ~Telling(t)
  <2>1. TellsFirst(x) /\ ~Opening(q)
    BY <1>3 DEF View, Tidy
  <2>2. \A i \in 1..Len(u) : u[i].op # "switch"
    <3>1. IsSeq(u)
      BY WithinCat
    <3>. HIDE DEF u
    <3>2. ToSet(u) = {u[i] : i \in 1..Len(u)}
      BY <3>1, Within
    <3>. QED BY <1>2, <3>2 DEF Wants
  <2>. HIDE DEF u
  <2>. QED BY <2>1, <2>2, TellsFirstTail DEF OpensFirst
<1>7. ASSUME NEW w \in Held, so.session = SessionAt(w)
      PROVE  Dock(h.panels, h.opening, u, t, so.queue, S[so.session].terminals)
  <2>. DEFINE L == S[so.session].terminals
              c == h.panels
  <2>1. Dock(g.panels, g.opening, q, x, so.queue, L)
    BY <1>7 DEF View
  <2>2. \A p \in DOMAIN c : Makes(m, p)
    BY DEF Makes
  <2>3. \A p : Makes(m, p) => p \in DOMAIN c
    BY DEF Makes, Adds
  <2>4. ~Wants(q) /\ ToSet(q) \subseteq ToSet(u)
    BY <1>1, <1>2 DEF Wants
  <2>5. Cardinality(Asked(u)) + Cardinality(Told(t)) <= h.opening
    <3>1. Cardinality(Asked(q)) = 0 /\ Cardinality(Told(t)) = 0
      BY <1>1, <1>6, NothingFirst
    <3>2. Cardinality(Asked(u)) = Cardinality(Asked(q)) + Cardinality(Asked(r))
      BY AskedCat
    <3>. HIDE DEF u, t, q, Asked, Told
    <3>. QED BY <3>1, <3>2
  <2>. HIDE DEF L, c, u, q
  <2>6. Vanishes(c, t, so.queue, L)
    BY <2>1, <2>2, VanishesPop DEF Dock
  <2>7. Appears(c, u, t, L)
    BY <1>3, <2>1, <2>3, <2>4, AppearsPop DEF Dock
  <2>8. Dock(c, h.opening, u, t, so.queue, L)
    BY <2>5, <2>6, <2>7 DEF Dock
  <2>. QED BY <2>8 DEF L, c
<1>8. Tidy(u, do, t)
  BY <1>2, <1>6 DEF Tidy
<1>. HIDE DEF u, t, q
<1>. QED BY <1>5, <1>7, <1>8 DEF View, u, t, q

LEMMA ViewGone ==
    ASSUME NEW g, NEW so, NEW x, NEW S, NEW B, View(g, so, x, S, B), IsSeq(x), IsSeq(so.requests),
           Controlled(so.requests, so.doing, x, so.session, g.workspace),
           x # <<>>, Head(x).type = "gone", Head(x).workspace = g.workspace,
           NEW h, NEW r, IsSeq(r), h.workspace = None, h.known = g.known \ {g.workspace},
           h.opening \in Nat, ~Opening(r),
           NEW to, to.doing = so.doing, to.session = so.session, to.queue = so.queue,
           to.requests = so.requests \o r
    PROVE  View(h, to, Tail(x), S, B)
<1>. DEFINE q  == so.requests
            do == so.doing
            u  == q \o r
            t  == Tail(x)
            m  == Head(x)
<1>1. ToSet(u) = ToSet(q) \cup ToSet(r) /\ ToSet(x) = {m} \cup ToSet(t) /\ IsSeq(t)
  BY WithinCat, Within
<1>2. ~Sends(t) /\ ~Bound(do) /\ \A e \in ToSet(t) : ~Tell(e)
  <2>1. Tell(Head(x))
    BY DEF Tell
  <2>. QED BY <2>1, TellFirst
\* The session was that of the workspace that is gone.
<1>3. \A w \in Held : so.session # SessionAt(w)
  <2>. SUFFICES ASSUME NEW w \in Held, so.session = SessionAt(w) PROVE FALSE
    OBVIOUS
  <2>1. Placed(w, g.workspace, x) /\ ~Closing(w, do, x)
    BY DEF Controlled, Settled
  <2>2. ~Sends(x)
    BY <1>1, <1>2 DEF Sends
  <2>3. ~\E i \in 1..Len(x) : x[i].type = "switched"
    <3>1. ToSet(x) = {x[i] : i \in 1..Len(x)}
      BY Within
    <3>. QED BY <2>2, <3>1 DEF Sends
  <2>4. w = g.workspace
    BY <2>1, <2>3 DEF Placed
  <2>5. Loses(x, w)
    BY <1>1, <2>4 DEF Loses
  <2>. QED BY <2>1, <2>5, ClosingWithin
<1>4. \A w \in h.known : Closing(w, do, x) => Closing(w, do, t)
  <2>1. \A w \in h.known : Loses(x, w) => Loses(t, w)
    BY <1>1 DEF Loses
  <2>. HIDE DEF t
  <2>. QED BY <1>1, <2>1, ClosingWithin
<1>5. Spot(h.workspace, h.known, u, do, t, so.session, B)
  <2>1. Spot(g.workspace, g.known, q, do, x, so.session, B)
    BY DEF View
  <2>. HIDE DEF u, t, m, q, do
  <2>. QED BY <1>1, <1>2, <1>3, <1>4, <2>1 DEF Spot, Tell
<1>6. Tidy(u, do, t)
  <2>1. OpensFirst(q) /\ TellsFirst(x)
    BY DEF View, Tidy
  <2>2. OpensFirst(u) /\ TellsFirst(t)
    BY <2>1, NothingFirst, OpensFirstCat, TellsFirstTail
  <2>. HIDE DEF u, t, q, do
  <2>. QED BY <1>2, <2>2 DEF Tidy
<1>. HIDE DEF u, t, q
<1>. QED BY <1>3, <1>5, <1>6 DEF View, u, t, q

LEMMA ViewAsked ==
    ASSUME NEW g, NEW so, NEW x, NEW S, NEW B, View(g, so, x, S, B), IsSeq(x), IsSeq(so.requests),
           NoMove(so.requests), ~Moving(so.doing), NoTell(x),
           NEW h, NEW r, IsSeq(r), h.workspace = g.workspace, h.known = g.known, h.opening \in Nat,
           OpensFirst(r), \A e \in ToSet(r) : e.op = "switch" => e.workspace \in g.known,
           Wants(r) \/ g.opening + Cardinality(Asked(r)) <= h.opening,
           DOMAIN h.panels \subseteq DOMAIN g.panels,
           \A p \in DOMAIN g.panels : p \in DOMAIN h.panels \/ \E e \in ToSet(r) : Kills(e, p),
           NEW to, to.doing = so.doing, to.session = so.session, to.queue = so.queue,
           to.requests = so.requests \o r
    PROVE  View(h, to, x, S, B)
<1>. DEFINE q  == so.requests
            do == so.doing
            u  == q \o r
<1>1. ToSet(u) = ToSet(q) \cup ToSet(r)
  BY WithinCat
<1>2. /\ \A e \in ToSet(q) : ~Move(e)
      /\ \A m \in ToSet(x) : ~Tell(m)
  BY MovesWithin
<1>3. ~Bound(do) /\ ~Sends(x) /\ ~Wants(q) /\ \A w : ~Closing(w, do, x)
  <2>1. \A w : ~Undoes(do, w) /\ ~Loses(x, w)
    BY <1>2 DEF Undoes, Loses, Moving, Tell
  <2>. QED BY <1>2, <2>1, ClosingWithin DEF Bound, Moving, Sends, Wants, Tell, Move
<1>4. Spot(h.workspace, h.known, u, do, x, so.session, B)
  <2>1. Spot(g.workspace, g.known, q, do, x, so.session, B)
    BY DEF View
  <2>. HIDE DEF u, q, do
  <2>. QED BY <1>1, <1>3, <2>1 DEF Spot, Wants
<1>5. Tidy(u, do, x)
  <2>1. OpensFirst(q) /\ TellsFirst(x)
    BY DEF View, Tidy
  <2>2. OpensFirst(u)
    BY <1>3, <2>1, OpensFirstCat
  <2>. HIDE DEF u, q, do
  <2>. QED BY <1>3, <2>1, <2>2 DEF Tidy
<1>6. ASSUME NEW w \in Held, so.session = SessionAt(w)
      PROVE  Dock(h.panels, h.opening, u, x, so.queue, S[so.session].terminals)
  <2>. DEFINE L == S[so.session].terminals
              b == g.panels
              c == h.panels
  <2>1. Dock(b, g.opening, q, x, so.queue, L) /\ g.opening \in Nat
    BY <1>6 DEF View
  <2>2. ASSUME ~Wants(u)
        PROVE  Cardinality(Asked(u)) + Cardinality(Told(x)) <= h.opening
    <3>1. g.opening + Cardinality(Asked(r)) <= h.opening
      BY <1>1, <2>2 DEF Wants
    <3>2. /\ Cardinality(Asked(q)) \in Nat /\ Cardinality(Asked(r)) \in Nat
          /\ Cardinality(Asked(u)) = Cardinality(Asked(q)) + Cardinality(Asked(r))
          /\ Cardinality(Told(x)) \in Nat
      BY AskedCat, ToldCat
    <3>3. Cardinality(Asked(q)) + Cardinality(Told(x)) <= g.opening
      BY <1>3, <2>1 DEF Dock
    <3>. HIDE DEF u, q, Asked, Told, b, L
    <3>. QED BY <2>1, <3>1, <3>2, <3>3
  <2>3. /\ \A p \in DOMAIN b : p \in DOMAIN c \/ \E e \in ToSet(u) : Kills(e, p)
        /\ DOMAIN c \subseteq DOMAIN b /\ ToSet(q) \subseteq ToSet(u)
    BY <1>1
  <2>. HIDE DEF L, b, c, u, q
  <2>4. Vanishes(c, x, so.queue, L)
    BY <2>1, <2>3, VanishesFewer DEF Dock
  <2>5. Appears(c, u, x, L)
    BY <1>3, <2>1, <2>3, AppearsFewer DEF Dock
  <2>6. Dock(c, h.opening, u, x, so.queue, L)
    BY <2>2, <2>4, <2>5 DEF Dock
  <2>. QED BY <2>6 DEF L, c
<1>. HIDE DEF u, q
<1>. QED BY <1>4, <1>5, <1>6 DEF View, u, q

LEMMA ViewStart ==
    ASSUME NEW g, g.workspace = None, g.opening \in Nat, NEW B, g.known \subseteq B,
           NEW so, NEW e, so.requests = <<e>>, so.doing = Idle, so.session = None, NEW S
    PROVE  View(g, so, <<>>, S, B)
<1>. DEFINE x == <<>>
<1>1. IsSeq(x) /\ ToSet(x) = {}
  BY ShortSeqs, Within
<1>. HIDE DEF x
<1>2. \A w \in Held : so.session # SessionAt(w)
  BY OwnSessions
<1>3. ~Bound(so.doing) /\ ~Sends(x) /\ ~Telling(x)
  BY <1>1 DEF Bound, Idle, Sends, Telling
<1>4. Spot(g.workspace, g.known, so.requests, so.doing, x, so.session, B)
  BY <1>1, <1>2 DEF Spot
<1>5. Tidy(so.requests, so.doing, x)
  BY <1>1, <1>3, OneFirst, NothingFirst DEF Tidy
<1>6. View(g, so, x, S, B)
  BY <1>2, <1>4, <1>5 DEF View
<1>. QED BY <1>6 DEF x

-----------------------------------------------------------------------------
(* What the inductive invariant says, and how a step keeps it.             *)

\* The workspaces of the list stay the same, unless one is closed.
LEMMA SameWorkspaces ==
    ASSUME NEW l, Listed(l)
    PROVE  /\ \A w : DOMAIN Focused(l, w).byId = DOMAIN l.byId
           /\ \A w, tabs, a, f : DOMAIN LaidOut(l, w, tabs, a, f).byId = DOMAIN l.byId
           /\ \A s, p : DOMAIN WithTerminal(l, s, p).byId = DOMAIN l.byId
           /\ \A s, p : DOMAIN WithoutTerminal(l, s, p).byId = DOMAIN l.byId
           /\ \A w : DOMAIN Closed(l, w).byId = DOMAIN l.byId \ {w}
<1>1. ASSUME NEW w PROVE DOMAIN Focused(l, w).byId = DOMAIN l.byId
  BY DEF Focused, Listed
<1>2. ASSUME NEW w, NEW tabs, NEW a, NEW f PROVE DOMAIN LaidOut(l, w, tabs, a, f).byId = DOMAIN l.byId
  BY DEF LaidOut, Listed
<1>3. ASSUME NEW s, NEW p PROVE DOMAIN WithTerminal(l, s, p).byId = DOMAIN l.byId
  BY DEF WithTerminal, Listed
<1>4. ASSUME NEW s, NEW p PROVE DOMAIN WithoutTerminal(l, s, p).byId = DOMAIN l.byId
  BY DEF WithoutTerminal, Listed
<1>5. ASSUME NEW w PROVE DOMAIN Closed(l, w).byId = DOMAIN l.byId \ {w}
  BY DEF Closed, Restrict
<1>. QED BY <1>1, <1>2, <1>3, <1>4, <1>5

\* Of the window behind an open socket.
LEMMA ViewFacts ==
    ASSUME UInv, FInv, NEW k \in Sockets, Opened(k), NEW c \in Clients, gui[c].socket = k
    PROVE  /\ socket[k].peer /\ View(gui[c], socket[k], wire[k], sessions, DOMAIN list.byId)
           /\ IsSeq(wire[k]) /\ IsSeq(socket[k].requests) /\ IsSeq(socket[k].queue)
           /\ Controlled(socket[k].requests, socket[k].doing, wire[k], socket[k].session,
                         gui[c].workspace)
<1>1. Owns(c, k) /\ Neat(socket[k], wire[k])
  BY SessionsAssumption DEF FInv, Owned, AllNeat
<1>2. View(gui[c], socket[k], wire[k], sessions, DOMAIN list.byId)
  BY DEF UInv, Tended
<1>. QED BY <1>1, <1>2 DEF Owns, Good, Neat, Messages, Wanting, Queued

LEMMA AttendedFacts ==
    ASSUME UInv, NEW k \in Sockets, Opened(k)
    PROVE  /\ Attended(socket[k], k, sessions, DOMAIN list.byId)
           /\ \A j \in Sockets : j # k => ~Opened(j)
           /\ Lasting
           /\ socket[k].peer => \A c \in Clients : gui[c].socket = k
  BY DEF UInv, Sole, Tended

\* Every socket is closed, or new.
LEMMA NoneOpened ==
    ASSUME Lasting', \A k \in Sockets : socket'[k].phase # "open"
    PROVE  UInv'
  BY DEF UInv, Sole, Opened

\* The open one goes on, and its window stays as it was.
LEMMA OpenedStep ==
    ASSUME UInv, UNCHANGED gui, NEW k \in Sockets, Opened(k),
           \A j \in Sockets : j # k => socket'[j] = socket[j],
           socket'[k].peer = socket[k].peer, Lasting',
           Attended(socket'[k], k, sessions', DOMAIN list'.byId),
           \A c \in Clients : gui[c].socket = k =>
                View(gui[c], socket'[k], wire'[k], sessions', DOMAIN list'.byId)
    PROVE  UInv'
<1>1. \A j \in Sockets : Opened(j)' => j = k
  BY AttendedFacts DEF Opened
<1>2. Sole'
  BY <1>1, AttendedFacts DEF Sole
<1>3. Tended(k)'
  BY DEF Tended
<1>. QED BY <1>1, <1>2, <1>3 DEF UInv

\* ... and only replies r.
LEMMA CalmStep ==
    ASSUME UInv, FInv, UNCHANGED gui, NEW k \in Sockets, Opened(k),
           \A j \in Sockets : j # k => socket'[j] = socket[j],
           socket'[k].peer = socket[k].peer, Lasting', DOMAIN list'.byId = DOMAIN list.byId,
           Attended(socket'[k], k, sessions', DOMAIN list.byId),
           NEW r, IsSeq(r), socket[k].peer => wire'[k] = wire[k] \o r,
           \A c \in Clients : gui[c].socket = k => Calm(socket[k], socket'[k], r, sessions, sessions')
    PROVE  UInv'
<1>1. ASSUME NEW c \in Clients, gui[c].socket = k
      PROVE  View(gui[c], socket'[k], wire'[k], sessions', DOMAIN list'.byId)
  <2>1. /\ socket[k].peer /\ View(gui[c], socket[k], wire[k], sessions, DOMAIN list.byId)
        /\ IsSeq(wire[k]) /\ IsSeq(socket[k].requests)
    BY <1>1, ViewFacts
  <2>2. View(gui[c], socket'[k], wire[k] \o r, sessions', DOMAIN list.byId)
    BY <1>1, <2>1, ViewCalm
  <2>. QED BY <2>1, <2>2
<1>. QED BY <1>1, OpenedStep

\* It keeps its session and goes nowhere.
LEMMA AttendedSame ==
    ASSUME NEW so, NEW k, NEW S, NEW B, Attended(so, k, S, B),
           NEW to, to.session = so.session, to.doing = so.doing \/ Quiets(to.doing),
           NEW T, DOMAIN T = DOMAIN S, \A s \in DOMAIN T : T[s].subscriber = S[s].subscriber
    PROVE  Attended(to, k, T, B)
<1>1. Doable(to.doing, B, DOMAIN T)
  BY DEF Attended, Doable, Ending, Entering, Quiets
<1>. QED BY <1>1 DEF Attended, Quiets

\* A request is served that asks for no switch.
LEMMA RenewsServed ==
    ASSUME NEW q, IsSeq(q), q # <<>>, Head(q).op # "switch", NEW y, NEW L, NEW r, IsSeq(r),
           NEW v, NEW M, Head(q).op = "kill" => Head(q).terminal \notin M,
           Cardinality(Told(r)) <= IF Head(q).op = "open" THEN 1 ELSE 0,
           \A p \in L : p \in M \/ Shut1(r, p) \/ Shut1(v, p),
           \A p : Shut1(y, p) => Shut1(r, p) \/ Shut1(v, p),
           \A m \in ToSet(r) : \A p : Makes(m, p) => p \in M,
           \A p \in M : p \in L \/ \E m \in ToSet(r) : Makes(m, p)
    PROVE  Renews(q, y, L, r, Tail(q), v, M)
<1>. DEFINE u == Tail(q)
<1>1. ToSet(q) = {Head(q)} \cup ToSet(u)
  BY Within
<1>2. Wants(q) => Wants(u)
  BY <1>1 DEF Wants
<1>3. Cardinality(Asked(u)) + Cardinality(Told(r)) <= Cardinality(Asked(q))
  <2>1. /\ Cardinality(Asked(q)) \in Nat /\ Cardinality(Asked(u)) \in Nat
        /\ Cardinality(Asked(q)) = (IF Head(q).op = "open" THEN 1 ELSE 0) + Cardinality(Asked(u))
    BY AskedTail
  <2>2. Cardinality(Told(r)) \in Nat
    BY ToldCat
  <2>. QED BY <2>1, <2>2
<1>4. \A p \in M : (\E e \in ToSet(q) : Kills(e, p)) => \E e \in ToSet(u) : Kills(e, p)
  BY <1>1 DEF Kills
<1>. QED BY <1>2, <1>3, <1>4 DEF Renews

\* None is served.
LEMMA RenewsWaiting ==
    ASSUME NEW q, IsSeq(q), NEW y, NEW L, NEW r, IsSeq(r), ~Telling(r), NEW v, NEW M,
           \A p \in L : p \in M \/ Shut1(r, p) \/ Shut1(v, p),
           \A p : Shut1(y, p) => Shut1(r, p) \/ Shut1(v, p),
           \A m \in ToSet(r) : \A p : Makes(m, p) => p \in M,
           M \subseteq L
    PROVE  Renews(q, y, L, r, q, v, M)
<1>1. Cardinality(Told(r)) = 0 /\ Cardinality(Asked(q)) \in Nat
  BY NothingFirst, AskedCat
<1>. QED BY <1>1 DEF Renews

\* Where there is no reply.
LEMMA NoReply ==
    /\ IsSeq(<<>>) /\ ToSet(<<>>) = {} /\ TellsFirst(<<>>) /\ ~Telling(<<>>)
    /\ Cardinality(Told(<<>>)) = 0 /\ \A p : ~Shut1(<<>>, p)
    /\ ~Wants(<<>>) /\ ~Opening(<<>>) /\ ~Sends(<<>>) /\ OpensFirst(<<>>)
    /\ Cardinality(Asked(<<>>)) = 0 /\ \A w : ~Loses(<<>>, w)
<1>1. IsSeq(<<>>) /\ ToSet(<<>>) = {}
  BY ShortSeqs, Within
<1>2. ~Telling(<<>>) /\ ~Opening(<<>>) /\ ~Wants(<<>>) /\ ~Sends(<<>>)
      /\ (\A p : ~Shut1(<<>>, p)) /\ \A w : ~Loses(<<>>, w)
  BY <1>1 DEF Telling, Opening, Wants, Sends, Shut1, Loses
<1>. QED BY <1>1, <1>2, NothingFirst

\* A reply that is about no panel.
LEMMA PlainReply ==
    ASSUME NEW m, m.type \in {"error", "gone", "data", "closed"}
    PROVE  /\ IsSeq(<<m>>) /\ ToSet(<<m>>) = {m} /\ TellsFirst(<<m>>)
           /\ Cardinality(Told(<<m>>)) = IF Tells(m) THEN 1 ELSE 0
           /\ \A p : ~Makes(m, p) /\ (Shut1(<<m>>, p) <=> Closes(m, p))
           /\ Telling(<<m>>) <=> Tells(m)
<1>1. IsSeq(<<m>>) /\ ToSet(<<m>>) = {m}
  BY OneFirst
<1>2. \A p : ~Makes(m, p) /\ (Shut1(<<m>>, p) <=> Closes(m, p))
  BY <1>1 DEF Makes, Adds, Shut1
<1>3. Telling(<<m>>) <=> Tells(m)
  BY <1>1 DEF Telling
<1>. QED BY <1>1, <1>2, <1>3, OneFirst

-----------------------------------------------------------------------------
LEMMA TendedIsUpToDate ==
    ASSUME UInv, FInv
    PROVE  UpToDate
<1>. SUFFICES ASSUME NEW c \in Clients, Quiet(c), Holds(c)
              PROVE  /\ DOMAIN gui[c].panels = Live(SessionOf(c))
                     /\ \A p \in DOMAIN gui[c].panels : Len(gui[c].panels[p]) = printed[p]
  BY DEF UpToDate
<1>. DEFINE k  == gui[c].socket
            so == socket[k]
            g  == gui[c]
            w  == g.workspace
            b  == g.panels
            s  == so.session
            L  == sessions[s].terminals
            z  == <<>>
<1>1. k \in Sockets /\ Owns(c, k) /\ Opened(k)
  BY DEF Quiet, Online, FInv, Shaped, Owned, Owns, Opened
<1>2. wire[k] = z /\ so.queue = z /\ so.requests = z /\ so.doing = Idle
  BY DEF Quiet
<1>3. /\ View(g, so, wire[k], sessions, DOMAIN list.byId)
      /\ Attended(so, k, sessions, DOMAIN list.byId) /\ Lasting
  BY <1>1, ViewFacts, AttendedFacts
<1>4. w \in DOMAIN list.byId /\ w \in Held /\ SessionOf(c) = SessionAt(w)
  BY DEF Holds, SessionOf, Known, FInv, Listed, Entry
<1>5. w # None
  BY <1>4, SessionsAssumption, ListAssumption DEF Held, IsList
<1>6. s = SessionAt(w)
  <2>1. ~Bound(so.doing) /\ ~Undoes(so.doing, w)
    BY <1>2 DEF Bound, Undoes, Idle
  <2>2. ~Sends(z) /\ IsSeq(z) /\ ~Loses(z, w)
    BY NoReply
  <2>. HIDE DEF z
  <2>3. ~Closing(w, so.doing, z)
    BY <2>1, <2>2, ClosingWithin
  <2>. QED BY <1>2, <1>3, <1>5, <2>1, <2>2, <2>3 DEF View, Spot
<1>7. s \in DOMAIN sessions /\ sessions[s].subscriber = k /\ Live(SessionOf(c)) = L
  BY <1>3, <1>4, <1>6 DEF Lasting, Attended, Live
<1>8. Dock(b, g.opening, z, z, z, L)
  BY <1>2, <1>3, <1>4, <1>6 DEF View
<1>9. Flow(b, z, z, k, so.doing, sessions, printed, issued)
  BY <1>1, <1>2 DEF Owns, Good
<1>10. /\ IsSeq(z) /\ ToSet(z) = {} /\ Len(z) = 0 /\ (\A p : ~Shut1(z, p)) /\ ~Wants(z) /\ ~Sends(z)
  BY NoReply, ShortSeqs
<1>11. \A p \in L : printed[p] \in Nat
  BY <1>7 DEF FInv, Issued
<1>. HIDE DEF z, so, b, s, L, w
<1>12. \A p \in DOMAIN b : p \in L
  BY <1>8, <1>10 DEF Dock, Vanishes
<1>13. \A p \in L : p \in DOMAIN b
  BY <1>8, <1>10 DEF Dock, Appears
<1>14. ASSUME NEW p \in DOMAIN b PROVE Len(b[p]) = printed[p]
  <2>. DEFINE V == Stream(b, z, z)
  <2>1. Size(z, z) = 0
    BY <1>10 DEF Size
  <2>2. Joined(V, p, 1, printed[p] + 1)
    <3>1. Joined(V, p, Size(z, z) + 1, printed[p] + 1)
      BY <1>7, <1>9, <1>12 DEF Flow, Reached, L
    <3>2. Size(z, z) + 1 = 1
      BY <2>1
    <3>. HIDE DEF V
    <3>. QED BY <3>1, <3>2
  <2>3. V[0] = Base(b)
    BY <1>10, StreamShape
  <2>4. Shows(Base(b), p) /\ Level(Base(b), p) = Len(b[p])
    BY DEF Base, Shows, Level
  <2>. HIDE DEF V
  <2>5. Level(V[0], p) + 1 = printed[p] + 1
    <3>1. 0 \in 0..(1 - 1) /\ \A l \in (0 + 1)..(1 - 1) : FALSE
      OBVIOUS
    <3>2. Shows(V[0], p)
      BY <2>3, <2>4
    <3>. QED BY <2>2, <3>1, <3>2 DEF Joined
  <2>6. Len(b[p]) \in Nat
    BY <1>9 DEF Flow, Clean
  <2>7. printed[p] \in Nat
    BY <1>11, <1>12
  <2>. QED BY <2>3, <2>4, <2>5, <2>6, <2>7
<1>. QED BY <1>7, <1>12, <1>13, <1>14 DEF b

LEMMA InitTended == Init => UInv
<1>. SUFFICES ASSUME Init PROVE UInv
  OBVIOUS
<1>1. \A k \in Sockets : ~Opened(k)
  BY DEF Init, Opened, NewSocket
<1>2. Lasting
  BY DEF Init, Lasting, SessionAt
<1>. QED BY <1>1, <1>2 DEF UInv, Sole

-----------------------------------------------------------------------------
(* The requests, again.                                                    *)

\* A socket that has not said that it replies is one that replies nothing.
LEMMA Silent ==
    ASSUME FInv, UNCHANGED wire, NEW k \in Sockets
    PROVE  wire'[k] = wire[k] \o <<>>
<1>1. IsSeq(wire[k])
  BY DEF FInv, AllNeat, Neat, Messages
<1>. QED BY <1>1, EmptyCat

\* The sessions stay as they are, and so do the workspaces; perhaps a request is served.
LEMMA PlainUp ==
    ASSUME UInv, FInv, UNCHANGED <<gui, sessions>>, NEW k \in Sockets, Opened(k),
           \A j \in Sockets : j # k => socket'[j] = socket[j],
           DOMAIN list'.byId = DOMAIN list.byId,
           socket'[k].peer = socket[k].peer, socket'[k].session = socket[k].session,
           Quiets(socket[k].doing), Quiets(socket'[k].doing), socket'[k].queue = socket[k].queue,
           UNCHANGED wire \/ \E of : of # "open" /\ Reply(k, <<Error(of)>>),
           LET q == socket[k].requests
           IN  \/ socket'[k].requests = q
               \/ /\ q # <<>> /\ socket'[k].requests = Tail(q)
                  /\ Head(q).op = "kill" => Head(q).terminal \notin Live(socket[k].session)
                  /\ Head(q).op = "switch" => Head(q).workspace \notin DOMAIN list.byId
    PROVE  UInv'
<1>. DEFINE so == socket[k]
            to == socket'[k]
            q  == so.requests
            x  == wire[k]
            B  == DOMAIN list.byId
<1>1. Attended(so, k, sessions, B) /\ Lasting
  BY AttendedFacts
<1>2. Lasting' /\ Attended(to, k, sessions', B)
  BY <1>1, AttendedSame DEF Lasting
<1>3. IsSeq(q) /\ IsSeq(x)
  BY DEF FInv, AllNeat, Neat, Wanting, Messages
<1>4. PICK r : /\ IsSeq(r) /\ (so.peer => wire'[k] = x \o r) /\ TellsFirst(r) /\ ~Telling(r)
               /\ Cardinality(Told(r)) = 0 /\ \A m \in ToSet(r) : m.type = "error"
  <2>1. CASE UNCHANGED wire
    <3>. DEFINE e == <<>>
    <3>1. wire'[k] = x \o e
      BY <2>1, Silent
    <3>2. /\ IsSeq(e) /\ ToSet(e) = {} /\ TellsFirst(e) /\ ~Telling(e) /\ Cardinality(Told(e)) = 0
      BY NoReply
    <3>. HIDE DEF e, x, so
    <3>. QED BY <3>1, <3>2
  <2>2. CASE \E of : of # "open" /\ Reply(k, <<Error(of)>>)
    <3>. PICK of : of # "open" /\ Reply(k, <<Error(of)>>)
      BY <2>2
    <3>. DEFINE m == Error(of)
                e == <<m>>
    <3>1. m.type = "error" /\ ~Tells(m)
      BY DEF Error, Tells
    <3>2. wire'[k] = IF so.peer THEN x \o e ELSE x
      BY ReplyShape
    <3>. HIDE DEF m
    <3>3. /\ IsSeq(e) /\ ToSet(e) = {m} /\ TellsFirst(e) /\ ~Telling(e) /\ Cardinality(Told(e)) = 0
      BY <3>1, PlainReply
    <3>. HIDE DEF e, x, so
    <3>. QED BY <3>1, <3>2, <3>3
  <2>. QED BY <2>1, <2>2
<1>5. ASSUME NEW c \in Clients, gui[c].socket = k
      PROVE  Calm(so, to, r, sessions, sessions')
  <2>1. View(gui[c], so, x, sessions, B)
    BY <1>5, ViewFacts
  <2>2. ASSUME NEW w \in Held, so.session = SessionAt(w)
        PROVE  Renews(q, so.queue, sessions[so.session].terminals,
                      r, to.requests, to.queue, sessions'[so.session].terminals)
    <3>. DEFINE L == sessions[so.session].terminals
    <3>1. sessions'[so.session].terminals = L /\ to.queue = so.queue
      OBVIOUS
    <3>2. Live(so.session) = L
      BY <1>1, <2>2 DEF Lasting, Attended, Live
    <3>3. \A m \in ToSet(r) : \A p : ~Makes(m, p)
      BY <1>4 DEF Makes, Adds
    <3>4. q # <<>> => Head(q) \in ToSet(q)
      BY <1>3, Within
    <3>5. \/ to.requests = q
          \/ /\ q # <<>> /\ to.requests = Tail(q)
             /\ Head(q).op = "kill" => Head(q).terminal \notin L
             /\ Head(q).op # "switch"
      BY <2>1, <2>2, <3>2, <3>4 DEF View, Spot
    <3>. HIDE DEF L, so, to, q
    <3>6. Renews(q, so.queue, L, r, to.requests, so.queue, L)
      <4>1. CASE to.requests = q
        BY <1>3, <1>4, <3>3, <4>1, RenewsWaiting
      <4>2. CASE to.requests # q
        <5>1. Cardinality(Told(r)) <= IF Head(q).op = "open" THEN 1 ELSE 0
          BY <1>4
        <5>2. (\A p \in L : p \in L \/ Shut1(r, p) \/ Shut1(so.queue, p))
              /\ (\A p : Shut1(so.queue, p) => Shut1(r, p) \/ Shut1(so.queue, p))
              /\ \A p \in L : p \in L \/ \E m \in ToSet(r) : Makes(m, p)
          OBVIOUS
        <5>. QED BY ONLY <1>3, <1>4, <3>3, <3>5, <4>2, <5>1, <5>2, RenewsServed
      <4>. QED BY <4>1, <4>2
    <3>. QED BY <3>1, <3>6 DEF L
  <2>3. /\ ~Bound(so.doing) /\ ~Bound(to.doing) /\ \A w : ~Undoes(so.doing, w)
    BY DEF Quiets, Bound, Undoes
  <2>4. to.requests = q \/ (q # <<>> /\ to.requests = Tail(q))
    OBVIOUS
  <2>5. \A m \in ToSet(r) : m.type # "switched"
    BY <1>4
  <2>6. to.session = so.session
    OBVIOUS
  <2>. HIDE DEF so, to
  <2>. QED BY <1>4, <2>2, <2>3, <2>4, <2>5, <2>6 DEF Calm
<1>. QED BY <1>2, <1>4, <1>5, CalmStep

LEMMA RefuseUp ==
    ASSUME "backlog" \notin Ops, UInv, FInv, NEW k \in Sockets, NEW op, Serving(k, op),
           NEW of, of # "open", Refuse(k, of), UNCHANGED <<gui, sessions, list>>,
           op = "kill" => Request(k).terminal \notin Live(socket[k].session),
           op = "switch" => ~Known(list, Request(k).workspace)
    PROVE  UInv'
<1>1. Goes(k, Idle) /\ Reply(k, <<Error(of)>>)
  BY DEF Refuse
<1>2. Opened(k) /\ Quiets(socket[k].doing) /\ Quiets(Idle)
  BY ServingShape, QuietSteps DEF Opened
<1>. QED BY <1>1, <1>2, ServingShape, GoesShape, PlainUp DEF Known

LEMMA NotesUp ==
    ASSUME UInv, FInv, NEW k \in Sockets, Note(k) \/ Unnote(k)
    PROVE  UInv'
<1>1. /\ Opened(k) /\ Quiets(socket[k].doing) /\ socket' = [socket EXCEPT ![k].doing = Idle]
      /\ UNCHANGED <<sessions, wire, gui>>
      /\ \E s, p : list' = WithTerminal(list, s, p) \/ list' = WithoutTerminal(list, s, p)
  BY DEF Note, Unnote, At, Opened, Quiets
<1>2. DOMAIN list'.byId = DOMAIN list.byId
  BY <1>1, SameWorkspaces DEF FInv
<1>. QED BY <1>1, <1>2, DoneShape, QuietSteps, PlainUp

LEMMA SetLayoutUp ==
    ASSUME "backlog" \notin Ops, UInv, FInv, NEW k \in Sockets, SetLayout(k)
    PROVE  UInv'
<1>. DEFINE r == Request(k)
<1>0. Serving(k, "layout") /\ UNCHANGED <<gui, sessions>>
  BY DEF SetLayout
<1>1. CASE ~Known(list, r.workspace)
  <2>1. Refuse(k, "layout") /\ UNCHANGED list
    BY <1>1 DEF SetLayout
  <2>. QED BY <1>0, <2>1, RefuseUp
<1>2. CASE Known(list, r.workspace)
  <2>1. list' = LaidOut(list, r.workspace, r.tabs, 0, None) /\ Goes(k, Idle) /\ UNCHANGED wire
    BY <1>2 DEF SetLayout
  <2>2. DOMAIN list'.byId = DOMAIN list.byId
    BY <2>1, SameWorkspaces DEF FInv
  <2>3. Opened(k) /\ Quiets(socket[k].doing) /\ Quiets(Idle)
    BY <1>0, ServingShape, QuietSteps DEF Opened
  <2>. QED BY <1>0, <2>1, <2>2, <2>3, ServingShape, GoesShape, PlainUp
<1>. QED BY <1>1, <1>2

LEMMA SwitchUp ==
    ASSUME "backlog" \notin Ops, UInv, FInv, NEW k \in Sockets, Switch(k)
    PROVE  UInv'
<1>. DEFINE w    == Request(k).workspace
            so   == socket[k]
            to   == socket'[k]
            B    == DOMAIN list.byId
            go   == Leaving(so.session, Attaching(w, SessionAt(w), list.byId[w].tabs))
<1>0. Serving(k, "switch") /\ UNCHANGED <<gui, sessions>>
  BY DEF Switch
<1>1. CASE ~Known(list, w)
  <2>1. Refuse(k, "switch") /\ UNCHANGED list
    BY <1>1 DEF Switch
  <2>. QED BY <1>0, <1>1, <2>1, RefuseUp
<1>2. CASE Known(list, w)
  <2>1. w \in B /\ w \in Held /\ list.byId[w].session = SessionAt(w)
    BY <1>2 DEF FInv, Listed, Entry, Known
  <2>2. /\ list' = Focused(list, w) /\ UNCHANGED wire
        /\ socket' = [socket EXCEPT ![k].requests = Tail(@), ![k].session = None, ![k].doing = go]
    BY <1>2, <2>1 DEF Switch
  <2>3. /\ \A j \in Sockets : j # k => socket'[j] = socket[j]
        /\ to.peer = so.peer /\ to.session = None /\ to.queue = so.queue
        /\ to.doing = go /\ to.requests = Tail(so.requests)
    BY <2>2 DEF FInv, AInv, SocketsShaped, SocketFields
  <2>4. DOMAIN list'.byId = B
    BY <2>2, SameWorkspaces DEF FInv
  <2>5. /\ Bound(go) /\ go.step \in {"attach", "detach"}
        /\ go.step = "attach" => go.workspace = w /\ go.session = SessionAt(w)
        /\ go.step = "detach" => /\ go.next.step = "attach" /\ go.next.workspace = w
                                 /\ go.next.session = SessionAt(w)
    BY DEF Leaving, Detaching, Attaching, Bound
  <2>6. Opened(k) /\ so.doing = Idle /\ so.requests # <<>> /\ Head(so.requests).op = "switch"
    BY <1>0, ServingShape DEF Opened
  <2>7. Lasting'
    BY <1>0, <2>4, <2>6, AttendedFacts DEF Lasting
  <2>. HIDE DEF go
  <2>8. Attended(to, k, sessions', B)
    <3>1. None \notin DOMAIN sessions' /\ \A v \in Held : None # SessionAt(v)
      BY <1>0, OwnSessions DEF FInv, AInv, SubscribersTyped
    <3>2. Doable(go, B, DOMAIN sessions')
          /\ (go.step = "detach" => Doable(go.next, B, DOMAIN sessions'))
      BY <2>1, <2>5 DEF Doable, Ending, Entering
    <3>. HIDE DEF to, B
    <3>. QED BY <2>3, <2>5, <3>1, <3>2 DEF Attended
  <2>9. ASSUME NEW c \in Clients, gui[c].socket = k
        PROVE  View(gui[c], to, wire'[k], sessions', B)
    <3>1. /\ View(gui[c], so, wire[k], sessions, B) /\ IsSeq(wire[k]) /\ IsSeq(so.requests)
          /\ Controlled(so.requests, so.doing, wire[k], so.session, gui[c].workspace)
      BY <2>6, <2>9, ViewFacts
    <3>2. Bound(to.doing)
      BY <2>3, <2>5
    <3>. HIDE DEF so, to, B
    <3>3. View(gui[c], to, wire[k], sessions', B)
      BY <2>3, <2>6, <3>1, <3>2, ViewSwitch
    <3>. QED BY <2>2, <3>3
  <2>. QED BY <1>0, <2>3, <2>4, <2>6, <2>7, <2>8, <2>9, OpenedStep
<1>. QED BY <1>1, <1>2

LEMMA DetachUp ==
    ASSUME UInv, FInv, NEW k \in Sockets, Detach(k)
    PROVE  UInv'
<1>. DEFINE so == socket[k]
            to == socket'[k]
            s  == so.doing.session
            B  == DOMAIN list.byId
            T  == sessions'
            r  == <<>>
<1>1. /\ Opened(k) /\ so.doing.step = "detach" /\ sessions' = Unsubscribed(s)
      /\ socket' = [socket EXCEPT ![k].doing = so.doing.next]
      /\ UNCHANGED <<list, wire, gui>>
  BY DEF Detach, At, Opened
<1>2. /\ \A j \in Sockets : j # k => socket'[j] = socket[j]
      /\ to.peer = so.peer /\ to.session = so.session /\ to.queue = so.queue
      /\ to.doing = so.doing.next /\ to.requests = so.requests
  BY <1>1, DoneShape
<1>3. Attended(so, k, sessions, B) /\ Lasting
  BY <1>1, AttendedFacts
<1>4. /\ DOMAIN T = DOMAIN sessions
      /\ \A t \in DOMAIN T : /\ T[t].terminals = sessions[t].terminals
                             /\ t # s => T[t].subscriber = sessions[t].subscriber
  BY <1>1 DEF Unsubscribed, FInv, AInv, SubscribersTyped
<1>5. so.doing.next.step \in {"attach", "destroy"}
  BY <1>1, <1>3 DEF Attended
<1>6. so.session \in DOMAIN sessions => so.session # s
  <2>1. CASE so.doing.next.step = "attach"
    BY <1>1, <2>1 DEF FInv, AInv, AttachesFree, Bound, SubscribersTyped
  <2>2. CASE so.doing.next.step = "destroy"
    <3>1. /\ so.doing.next.workspace \in Held \ B /\ s = SessionAt(so.doing.next.workspace)
      BY <1>1, <1>3, <2>2 DEF Attended, Doable, Ending
    <3>. QED BY <1>3, <3>1 DEF Attended
  <2>. QED BY <1>5, <2>1, <2>2
<1>7. Lasting' /\ DOMAIN list'.byId = B
  BY <1>1, <1>3, <1>4 DEF Lasting
<1>8. Attended(to, k, T, B)
  BY <1>1, <1>2, <1>3, <1>4, <1>5, <1>6 DEF Attended
<1>9. IsSeq(so.requests)
  BY DEF FInv, AllNeat, Neat, Wanting
<1>10. wire'[k] = wire[k] \o r
  BY <1>1, Silent
<1>11. /\ IsSeq(r) /\ ToSet(r) = {} /\ TellsFirst(r) /\ ~Telling(r)
  BY NoReply
<1>. HIDE DEF r, s, T, so, to
<1>12. Calm(so, to, r, sessions, T)
  <2>1. (Bound(to.doing) <=> Bound(so.doing)) /\ \A w : Undoes(so.doing, w) => Undoes(to.doing, w)
    BY <1>1, <1>2, <1>5 DEF Bound, Undoes
  <2>2. ASSUME NEW w \in Held, so.session = SessionAt(w)
        PROVE  Renews(so.requests, so.queue, sessions[so.session].terminals,
                      r, to.requests, to.queue, T[so.session].terminals)
    <3>1. T[so.session].terminals = sessions[so.session].terminals
      BY <1>3, <1>4, <2>2 DEF Attended, Lasting
    <3>2. Renews(so.requests, so.queue, sessions[so.session].terminals,
                 r, so.requests, so.queue, sessions[so.session].terminals)
      BY <1>9, <1>11, RenewsWaiting
    <3>. QED BY <1>2, <3>1, <3>2
  <2>. QED BY <1>2, <1>11, <2>1, <2>2 DEF Calm
<1>13. \A c \in Clients : gui[c].socket = k => Calm(socket[k], socket'[k], r, sessions, sessions')
  BY <1>12 DEF so, to, T
<1>. QED BY <1>1, <1>2, <1>7, <1>8, <1>10, <1>11, <1>13, CalmStep DEF so, to, T

LEMMA AttachUp ==
    ASSUME UInv, FInv, NEW k \in Sockets, Attach(k)
    PROVE  UInv'
<1>. DEFINE so == socket[k]
            to == socket'[k]
            do == so.doing
            s  == do.session
            x  == wire[k]
            B  == DOMAIN list.byId
            T  == sessions'
            m  == Switched(do)
            r  == SetToSeq(Replay(s))
<1>1. Opened(k) /\ do.step = "attach" /\ UNCHANGED <<list, gui>>
  BY DEF Attach, At, Opened
<1>2. Attended(so, k, sessions, B) /\ Lasting
  BY <1>1, AttendedFacts
<1>3. do.workspace \in B /\ s = SessionAt(do.workspace) /\ s \in DOMAIN sessions
  BY <1>1, <1>2 DEF Attended, Doable, Entering, Lasting
<1>4. do.workspace \in Held
  BY <1>3 DEF FInv, Listed
<1>5. /\ sessions' = [sessions EXCEPT ![s].subscriber = k] /\ Reply(k, <<m>> \o r)
      /\ socket' = [socket EXCEPT ![k].session = s, ![k].doing = Idle]
  BY <1>3 DEF Attach, Answer
<1>6. /\ \A j \in Sockets : j # k => socket'[j] = socket[j]
      /\ to.peer = so.peer /\ to.session = s /\ to.queue = so.queue
      /\ to.doing = Idle /\ to.requests = so.requests
  BY <1>5 DEF FInv, AInv, SocketsShaped, SocketFields
<1>7. /\ m.type = "switched" /\ m.workspace = do.workspace /\ m.terminals = sessions[s].terminals
  BY DEF Switched
<1>8. /\ DOMAIN T = DOMAIN sessions
      /\ \A t \in DOMAIN T : T[t].terminals = sessions[t].terminals
      /\ T[s].subscriber = k
  BY <1>3, <1>5 DEF FInv, AInv, SubscribersTyped
<1>. HIDE DEF m
<1>9. IsSeq(r) /\ Repeats(m, r, printed)
  BY <1>3, <1>7, ReplayShape
<1>10. \A e \in ToSet(r) : e.type = "data"
  <2>1. \A i \in 1..Len(r) : r[i].type = "data"
    <3>1. \A q, n : Whole(q, n).type = "data"
      BY DEF Whole, Printed
    <3>. HIDE DEF r
    <3>. QED BY <1>9, <3>1 DEF Repeats
  <2>. HIDE DEF r
  <2>. QED BY <1>9, <2>1, Within
<1>. HIDE DEF r
<1>. DEFINE z == <<m>> \o r
<1>11. wire'[k] = IF so.peer THEN x \o z ELSE x
  BY <1>5, ReplyShape
<1>12. Lasting' /\ DOMAIN list'.byId = B
  BY <1>1, <1>2, <1>8 DEF Lasting
<1>. HIDE DEF T, B, z
<1>13. Attended(to, k, T, B)
  <2>1. \A w \in Held : s = SessionAt(w) => w \in B
    BY <1>3, <1>4, OwnSessions
  <2>2. Doable(Idle, B, DOMAIN T) /\ Idle.step # "detach"
    BY DEF Doable, Ending, Entering, Idle
  <2>. HIDE DEF to, s
  <2>. QED BY <1>6, <1>8, <2>1, <2>2 DEF Attended
<1>14. ASSUME NEW c \in Clients, gui[c].socket = k
       PROVE  View(gui[c], to, wire'[k], T, B)
  <2>1. /\ so.peer /\ View(gui[c], so, x, sessions, B) /\ IsSeq(x) /\ IsSeq(so.requests)
        /\ Controlled(so.requests, so.doing, x, so.session, gui[c].workspace)
    BY <1>1, <1>14, ViewFacts DEF B
  <2>2. /\ m.workspace \in Held /\ to.session = SessionAt(m.workspace)
        /\ m.terminals = T[to.session].terminals
    BY <1>3, <1>4, <1>6, <1>7, <1>8
  <2>3. so.doing.step = "attach"
    BY <1>1
  <2>. HIDE DEF so, to, x, do, s
  <2>4. View(gui[c], to, x \o (<<m>> \o r), T, B)
    BY <1>6, <1>7, <1>9, <1>10, <2>1, <2>2, <2>3, ViewAttach
  <2>. QED BY <1>11, <2>1, <2>4 DEF z
<1>. QED BY <1>1, <1>6, <1>12, <1>13, <1>14, OpenedStep DEF T, B

LEMMA CloseWorkspaceUp ==
    ASSUME "backlog" \notin Ops, UInv, FInv, NEW k \in Sockets, CloseWorkspace(k)
    PROVE  UInv'
<1>. DEFINE w     == Request(k).workspace
            so    == socket[k]
            to    == socket'[k]
            B     == DOMAIN list.byId
            focus == Closed(list, w).focused
            last  == Destroying(w, SessionAt(w), focus)
            go    == Detaching(SessionAt(w), last)
<1>0. Serving(k, "close") /\ UNCHANGED <<gui, sessions>>
  BY DEF CloseWorkspace
<1>1. CASE ~Known(list, w) \/ Len(list.order) <= 1
  <2>1. Refuse(k, "close") /\ UNCHANGED list
    BY <1>1 DEF CloseWorkspace
  <2>. QED BY <1>0, <2>1, RefuseUp
<1>2. CASE ~(~Known(list, w) \/ Len(list.order) <= 1)
  <2>1. w \in B /\ w \in Held /\ list.byId[w].session = SessionAt(w)
    BY <1>2 DEF FInv, Listed, Entry, Known
  <2>2. /\ list' = Closed(list, w) /\ UNCHANGED wire
        /\ socket' = [socket EXCEPT
              ![k].requests = Tail(@),
              ![k].session = IF @ = SessionAt(w) THEN None ELSE @,
              ![k].doing = go]
    BY <1>2, <2>1 DEF CloseWorkspace
  <2>3. /\ \A j \in Sockets : j # k => socket'[j] = socket[j]
        /\ to.peer = so.peer /\ to.queue = so.queue
        /\ to.session = (IF so.session = SessionAt(w) THEN None ELSE so.session)
        /\ to.doing = go /\ to.requests = Tail(so.requests)
    BY <2>2 DEF FInv, AInv, SocketsShaped, SocketFields
  <2>4. DOMAIN list'.byId = B \ {w}
    BY <2>2, SameWorkspaces DEF FInv
  <2>5. /\ go.step = "detach" /\ go.session = SessionAt(w) /\ go.next = last
        /\ last.step = "destroy" /\ last.workspace = w /\ last.session = SessionAt(w)
    BY DEF Detaching, Destroying
  <2>6. Opened(k) /\ so.doing = Idle /\ so.requests # <<>> /\ Head(so.requests).op = "close"
    BY <1>0, ServingShape DEF Opened
  <2>7. Attended(so, k, sessions, B) /\ Lasting
    BY <2>6, AttendedFacts
  <2>8. Lasting' /\ SessionAt(w) \in DOMAIN sessions
    BY <1>0, <2>1, <2>4, <2>7 DEF Lasting
  <2>. HIDE DEF go, last
  <2>9. Attended(to, k, sessions', DOMAIN list'.byId)
    <3>1. /\ to.session = None \/ (to.session = so.session /\ so.session # SessionAt(w))
          /\ None \notin DOMAIN sessions /\ \A v \in Held : None # SessionAt(v)
      BY <2>3, OwnSessions DEF FInv, AInv, SubscribersTyped
    <3>2. /\ to.session \in DOMAIN sessions => sessions[to.session].subscriber = k
          /\ \A v \in Held : to.session = SessionAt(v) => v \in B \ {w}
      BY <2>7, <3>1 DEF Attended
    <3>3. Doable(go, B \ {w}, DOMAIN sessions) /\ Doable(go.next, B \ {w}, DOMAIN sessions)
      BY <2>1, <2>5, <2>8 DEF Doable, Ending, Entering
    <3>. HIDE DEF to, B
    <3>. QED BY <1>0, <2>3, <2>4, <2>5, <3>2, <3>3 DEF Attended
  <2>10. ASSUME NEW c \in Clients, gui[c].socket = k
         PROVE  View(gui[c], to, wire'[k], sessions', DOMAIN list'.byId)
    <3>1. /\ View(gui[c], so, wire[k], sessions, B) /\ IsSeq(wire[k]) /\ IsSeq(so.requests)
          /\ Controlled(so.requests, so.doing, wire[k], so.session, gui[c].workspace)
      BY <2>6, <2>10, ViewFacts
    <3>2. ~Bound(to.doing) /\ Undoes(to.doing, w)
      BY <2>3, <2>5 DEF Bound, Undoes
    <3>. HIDE DEF so, to, B, w
    <3>3. View(gui[c], to, wire[k], sessions, B \ {w})
      BY <2>1, <2>3, <2>6, <3>1, <3>2, ViewClose
    <3>. QED BY <1>0, <2>2, <2>4, <3>3
  <2>. QED BY <1>0, <2>3, <2>6, <2>8, <2>9, <2>10, OpenedStep
<1>. QED BY <1>1, <1>2

LEMMA DestroyUp ==
    ASSUME UInv, FInv, NEW k \in Sockets, Destroy(k)
    PROVE  UInv'
<1>. DEFINE so == socket[k]
            to == socket'[k]
            do == so.doing
            x  == wire[k]
            B  == DOMAIN list.byId
            T  == sessions'
            m  == [type |-> "gone", workspace |-> do.workspace, focus |-> do.focus]
            r  == <<m>>
<1>1. /\ Opened(k) /\ do.step = "destroy" /\ sessions' = Destroyed(do.session)
      /\ socket' = [socket EXCEPT ![k].doing = Idle]
      /\ UNCHANGED <<list, gui>>
  BY DEF Destroy, At, Opened
<1>2. Attended(so, k, sessions, B) /\ Lasting
  BY <1>1, AttendedFacts
<1>3. do.workspace \in Held \ B /\ do.session = SessionAt(do.workspace) /\ do.session \in DOMAIN sessions
  BY <1>1, <1>2 DEF Attended, Doable, Ending
<1>4. Reply(k, r)
  BY <1>3 DEF Destroy
<1>5. /\ \A j \in Sockets : j # k => socket'[j] = socket[j]
      /\ to.peer = so.peer /\ to.session = so.session /\ to.queue = so.queue
      /\ to.doing = Idle /\ to.requests = so.requests
  BY <1>1, DoneShape
<1>6. m.type = "gone" /\ m.workspace = do.workspace /\ ~Tells(m) /\ \A p : ~Closes(m, p)
  BY DEF Tells, Closes
<1>7. /\ DOMAIN T = DOMAIN sessions \ {do.session}
      /\ \A t \in DOMAIN T : T[t] = sessions[t]
  BY <1>1 DEF Destroyed, Restrict
<1>8. Lasting' /\ DOMAIN list'.byId = B
  <2>1. \A w \in B : w \in Held /\ SessionAt(w) # do.session
    BY <1>3, OwnSessions DEF FInv, Listed
  <2>. QED BY <1>1, <1>2, <1>7, <2>1 DEF Lasting
<1>9. wire'[k] = IF so.peer THEN x \o r ELSE x
  BY <1>4, ReplyShape
<1>10. IsSeq(so.requests)
  BY DEF FInv, AllNeat, Neat, Wanting
<1>. HIDE DEF m, T, B
<1>11. /\ IsSeq(r) /\ ToSet(r) = {m} /\ TellsFirst(r) /\ ~Telling(r) /\ \A p : ~Makes(m, p)
  BY <1>6, PlainReply
<1>. HIDE DEF r, so, to, x
<1>12. Attended(to, k, T, B)
  <2>1. Doable(Idle, B, DOMAIN T) /\ Idle.step # "detach"
    BY DEF Doable, Ending, Entering, Idle
  <2>. QED BY <1>2, <1>5, <1>7, <2>1 DEF Attended
<1>13. Calm(so, to, r, sessions, T)
  <2>1. ~Bound(to.doing) /\ ~Bound(so.doing)
    BY <1>1, <1>5 DEF Bound, Idle
  <2>2. \A w : Undoes(so.doing, w) => Loses(r, w)
    BY <1>1, <1>6, <1>11 DEF Undoes, Loses
  <2>3. ASSUME NEW w \in Held, so.session = SessionAt(w)
        PROVE  Renews(so.requests, so.queue, sessions[so.session].terminals,
                      r, to.requests, to.queue, T[so.session].terminals)
    <3>1. so.session \in DOMAIN T
      <4>1. w \in B
        BY <1>2, <2>3 DEF Attended
      <4>2. w # do.workspace /\ so.session \in DOMAIN sessions
        BY <1>2, <1>3, <2>3, <4>1 DEF Lasting, B
      <4>. QED BY <1>3, <1>7, <2>3, <4>2, OwnSessions
    <3>2. T[so.session].terminals = sessions[so.session].terminals
      BY <1>7, <3>1
    <3>3. Renews(so.requests, so.queue, sessions[so.session].terminals,
                 r, so.requests, so.queue, sessions[so.session].terminals)
      BY <1>10, <1>11, RenewsWaiting
    <3>. QED BY <1>5, <3>2, <3>3
  <2>4. \A e \in ToSet(r) : e.type # "switched"
    BY <1>6, <1>11
  <2>. QED BY <1>5, <1>11, <2>1, <2>2, <2>3, <2>4 DEF Calm
<1>14. \A c \in Clients : gui[c].socket = k => Calm(socket[k], socket'[k], r, sessions, sessions')
  BY <1>13 DEF so, to, T
<1>15. socket[k].peer => wire'[k] = wire[k] \o r
  BY <1>9 DEF so, x
<1>16. Attended(socket'[k], k, sessions', DOMAIN list.byId) /\ DOMAIN list'.byId = DOMAIN list.byId
  BY <1>8, <1>12 DEF B, T, to
<1>. QED BY <1>1, <1>5, <1>8, <1>11, <1>14, <1>15, <1>16, CalmStep DEF so, to

LEMMA DrainUp ==
    ASSUME UInv, FInv, NEW k \in Sockets, Drain(k)
    PROVE  UInv'
<1>. DEFINE so == socket[k]
            to == socket'[k]
            x  == wire[k]
            y  == so.queue
            m  == Head(y)
            r  == <<m>>
            B  == DOMAIN list.byId
            L  == sessions[so.session].terminals
<1>1. /\ Opened(k) /\ y # <<>> /\ Reply(k, r) /\ so.doing = Idle
      /\ socket' = [socket EXCEPT ![k].queue = Tail(@)]
      /\ UNCHANGED <<list, sessions, gui>>
  BY DEF Drain, Opened
<1>2. /\ \A j \in Sockets : j # k => socket'[j] = socket[j]
      /\ to.peer = so.peer /\ to.session = so.session
      /\ to.queue = Tail(y) /\ to.doing = so.doing /\ to.requests = so.requests
  BY <1>1 DEF FInv, AInv, SocketsShaped, SocketFields
<1>3. Queued(y) /\ IsSeq(y) /\ IsSeq(so.requests)
  BY DEF FInv, AllNeat, Neat, Queued, Wanting
<1>4. m.type \in {"data", "closed"} /\ ToSet(y) = {m} \cup ToSet(Tail(y))
  BY <1>1, <1>3, QueuedTail, Within
<1>5. wire'[k] = IF so.peer THEN x \o r ELSE x
  BY <1>1, ReplyShape
<1>6. Attended(so, k, sessions, B) /\ Lasting
  BY <1>1, AttendedFacts
<1>7. Lasting' /\ Attended(to, k, sessions', B)
  BY <1>1, <1>2, <1>6, AttendedSame DEF Lasting
<1>. HIDE DEF m
<1>8. /\ IsSeq(r) /\ ToSet(r) = {m} /\ TellsFirst(r) /\ ~Telling(r)
      /\ \A p : ~Makes(m, p) /\ (Shut1(r, p) <=> Closes(m, p))
  BY <1>4, PlainReply DEF Tells
<1>9. \A p : Shut1(y, p) => Shut1(r, p) \/ Shut1(Tail(y), p)
  BY <1>4, <1>8 DEF Shut1
<1>. HIDE DEF r, so, to, x, y, L
<1>10. Renews(so.requests, y, L, r, so.requests, Tail(y), L)
  BY <1>3, <1>8, <1>9, RenewsWaiting
<1>11. Calm(so, to, r, sessions, sessions)
  <2>1. \A e \in ToSet(r) : e.type # "switched"
    BY <1>4, <1>8
  <2>2. Renews(so.requests, so.queue, sessions[so.session].terminals, r,
               to.requests, to.queue, sessions[so.session].terminals)
    BY <1>2, <1>10 DEF y, L
  <2>. QED BY <1>2, <1>8, <2>1, <2>2 DEF Calm
<1>12. \A c \in Clients : gui[c].socket = k => Calm(socket[k], socket'[k], r, sessions, sessions')
  BY <1>1, <1>11 DEF so, to
<1>13. socket[k].peer => wire'[k] = wire[k] \o r
  BY <1>5 DEF so, x
<1>. QED BY <1>1, <1>2, <1>7, <1>8, <1>12, <1>13, CalmStep DEF so, to

LEMMA DisconnectedUp ==
    ASSUME UInv, FInv, NEW k \in Sockets, Disconnected(k)
    PROVE  UInv'
<1>. DEFINE gone == [NewSocket EXCEPT !.phase = "closed", !.peer = FALSE]
<1>1. /\ Opened(k) /\ socket' = [socket EXCEPT ![k] = gone]
      /\ (sessions' = sessions \/ \E s : sessions' = Unsubscribed(s))
      /\ UNCHANGED list
  BY DEF Disconnected, Opened
<1>2. socket'[k] = gone /\ \A j \in Sockets : j # k => socket'[j] = socket[j]
  BY <1>1 DEF FInv, AInv, SocketsShaped
<1>3. gone.phase # "open"
  BY DEF NewSocket
<1>. HIDE DEF gone
<1>4. \A j \in Sockets : socket'[j].phase # "open"
  BY <1>1, <1>2, <1>3, AttendedFacts DEF Opened
<1>5. DOMAIN sessions' = DOMAIN sessions
  BY <1>1 DEF Unsubscribed
<1>6. Lasting'
  BY <1>1, <1>5, AttendedFacts DEF Lasting
<1>. QED BY <1>4, <1>6, NoneOpened

-----------------------------------------------------------------------------
(* Terminals, again.                                                       *)

\* What is queued at the end.
LEMMA QueuedLast ==
    ASSUME NEW y, IsSeq(y), NEW m
    PROVE  \A p : Shut1(Append(y, m), p) <=> Shut1(y, p) \/ Closes(m, p)
<1>1. ToSet(Append(y, m)) = ToSet(y) \cup {m}
  BY Within
<1>. QED BY <1>1 DEF Shut1

\* A session prints m, or loses terminal p and tells of it in m; the open socket k does not
\* serve anything.
LEMMA EmittedUp ==
    ASSUME UInv, FInv, UNCHANGED <<list, wire, gui>>, NEW s \in DOMAIN sessions, NEW m, NEW P,
           DOMAIN sessions' = DOMAIN sessions,
           \A t \in DOMAIN sessions :
              /\ sessions'[t].subscriber = sessions[t].subscriber
              /\ sessions'[t].terminals = sessions[t].terminals \ (IF t = s THEN P ELSE {}),
           \A p \in P : Closes(m, p),
           socket' = Emitted(socket, s, m)
    PROVE  UInv'
<1>1. DOMAIN socket = Sockets /\ \A j \in Sockets : DOMAIN socket[j] = SocketFields
  BY DEF FInv, AInv, SocketsShaped
<1>2. Lasting'
  BY DEF UInv, Lasting
<1>3. ASSUME NEW j \in Sockets
      PROVE  /\ socket'[j].phase = socket[j].phase /\ socket'[j].peer = socket[j].peer
             /\ socket'[j].session = socket[j].session /\ socket'[j].doing = socket[j].doing
             /\ socket'[j].requests = socket[j].requests
             /\ IF j = sessions[s].subscriber /\ j # None /\ socket[j].phase = "open"
                THEN socket'[j].queue = Append(socket[j].queue, m)
                ELSE socket'[j] = socket[j]
  BY <1>1, EmittedQueues
<1>4. CASE \A k \in Sockets : ~Opened(k)
  BY <1>2, <1>3, <1>4, NoneOpened DEF Opened
<1>5. ASSUME NEW k \in Sockets, Opened(k) PROVE UInv'
  <2>. DEFINE so == socket[k]
              to == socket'[k]
              T  == sessions'
              q  == so.requests
              y  == so.queue
              v  == to.queue
              r  == <<>>
              B  == DOMAIN list.byId
  <2>1. Attended(so, k, sessions, B) /\ Lasting
    BY <1>5, AttendedFacts
  <2>2. \A j \in Sockets : j # k => socket'[j] = socket[j]
    BY <1>3, <1>5, AttendedFacts DEF Opened
  <2>3. /\ to.peer = so.peer /\ to.session = so.session /\ to.doing = so.doing /\ to.requests = q
        /\ v = y \/ v = Append(y, m)
        /\ sessions[s].subscriber = k => v = Append(y, m)
    BY <1>3, <1>5, SessionsAssumption DEF Opened
  <2>4. Attended(to, k, T, B)
    BY <2>1, <2>3, AttendedSame
  <2>5. IsSeq(q) /\ IsSeq(y)
    BY DEF FInv, AllNeat, Neat, Queued, Wanting
  <2>6. (\A p : Shut1(y, p) => Shut1(v, p))
        /\ (sessions[s].subscriber = k => \A p \in P : Shut1(v, p))
    <3>1. \A p : Shut1(Append(y, m), p) <=> Shut1(y, p) \/ Closes(m, p)
      BY <2>5, QueuedLast
    <3>. HIDE DEF y, v
    <3>. QED BY <2>3, <3>1
  <2>7. IsSeq(r) /\ ToSet(r) = {} /\ TellsFirst(r) /\ ~Telling(r)
    BY NoReply
  <2>8. wire'[k] = wire[k] \o r
    BY Silent
  <2>. HIDE DEF r, T, so, to, q, y, v
  <2>9. ASSUME NEW w \in Held, so.session = SessionAt(w)
        PROVE  Renews(so.requests, so.queue, sessions[so.session].terminals,
                      r, to.requests, to.queue, T[so.session].terminals)
    <3>. DEFINE L == sessions[so.session].terminals
                M == T[so.session].terminals
    <3>1. so.session \in DOMAIN sessions /\ sessions[so.session].subscriber = k
      BY <2>1, <2>9 DEF Attended, Lasting
    <3>2. M \subseteq L /\ \A p \in L : p \in M \/ (so.session = s /\ p \in P)
      BY <3>1 DEF T
    <3>. HIDE DEF L, M
    <3>3. \A p \in L : p \in M \/ Shut1(v, p)
      BY <2>6, <3>1, <3>2
    <3>4. Renews(q, y, L, r, q, v, M)
      BY <2>5, <2>6, <2>7, <3>2, <3>3, RenewsWaiting
    <3>. QED BY <2>3, <3>4 DEF L, M, q, y, v
  <2>10. Calm(so, to, r, sessions, T)
    BY <2>3, <2>7, <2>9 DEF Calm, q
  <2>11. \A c \in Clients : gui[c].socket = k => Calm(socket[k], socket'[k], r, sessions, sessions')
    BY <2>10 DEF so, to, T
  <2>12. Attended(socket'[k], k, sessions', DOMAIN list.byId) /\ socket'[k].peer = socket[k].peer
    BY <2>3, <2>4 DEF to, T, so
  <2>. QED BY <1>2, <1>5, <2>2, <2>7, <2>8, <2>11, <2>12, CalmStep
<1>. QED BY <1>4, <1>5

LEMMA PrintsUp ==
    ASSUME UInv, FInv, NEW p \in Terminals, Prints(p)
    PROVE  UInv'
<1>. DEFINE m == Printed(p, <<printed[p] + 1>>)
            P == {}
<1>1. PICK s \in DOMAIN sessions :
        socket' = Emitted(socket, s, m) /\ UNCHANGED <<list, sessions, wire, gui>>
  BY DEF Prints
<1>2. /\ DOMAIN sessions' = DOMAIN sessions
      /\ \A t \in DOMAIN sessions :
            /\ sessions'[t].subscriber = sessions[t].subscriber
            /\ sessions'[t].terminals = sessions[t].terminals \ (IF t = s THEN P ELSE {})
      /\ \A q \in P : Closes(m, q)
  BY <1>1
<1>. HIDE DEF m, P
<1>. QED BY <1>1, <1>2, EmittedUp

LEMMA EndsUp ==
    ASSUME UInv, FInv, NEW p \in Terminals, Ends(p)
    PROVE  UInv'
<1>. DEFINE m == [type |-> "closed", terminal |-> p]
            P == {p}
<1>1. PICK s \in DOMAIN sessions :
        /\ sessions' = [sessions EXCEPT ![s].terminals = @ \ {p}]
        /\ socket' = Emitted(socket, s, m)
        /\ UNCHANGED <<list, wire, gui>>
  BY DEF Ends
<1>2. /\ DOMAIN sessions' = DOMAIN sessions
      /\ \A t \in DOMAIN sessions :
            /\ sessions'[t].subscriber = sessions[t].subscriber
            /\ sessions'[t].terminals = sessions[t].terminals \ (IF t = s THEN P ELSE {})
  BY <1>1 DEF FInv, AInv, SubscribersTyped
<1>3. \A q \in P : Closes(m, q)
  BY DEF Closes
<1>. HIDE DEF m, P
<1>. QED BY <1>1, <1>2, <1>3, EmittedUp

LEMMA KillTerminalUp ==
    ASSUME "backlog" \notin Ops, UInv, FInv, NEW k \in Sockets, KillTerminal(k)
    PROVE  UInv'
<1>. DEFINE p   == Request(k).terminal
            so  == socket[k]
            to  == socket'[k]
            s   == so.session
            mid == [socket EXCEPT ![k].requests = Tail(@), ![k].doing = Unnoting(s, p)]
            m   == [type |-> "closed", terminal |-> p]
            q   == so.requests
            B   == DOMAIN list.byId
            T   == sessions'
            r   == <<>>
<1>0. Serving(k, "kill") /\ UNCHANGED <<list, gui>>
  BY DEF KillTerminal
<1>1. CASE p \notin Live(s)
  <2>1. Refuse(k, "kill") /\ UNCHANGED sessions
    BY <1>1 DEF KillTerminal
  <2>. QED BY <1>0, <1>1, <2>1, RefuseUp
<1>2. CASE p \in Live(s)
  <2>1. /\ sessions' = [sessions EXCEPT ![s].terminals = @ \ {p}] /\ UNCHANGED wire
        /\ socket' = Emitted(mid, s, m)
    BY <1>2 DEF KillTerminal
  <2>2. s \in DOMAIN sessions
    BY <1>2 DEF Live
  <2>3. /\ Opened(k) /\ so.doing = Idle /\ q # <<>> /\ Head(q).op = "kill" /\ p = Head(q).terminal
    BY <1>0, ServingShape DEF Opened
  <2>4. Attended(so, k, sessions, B) /\ Lasting
    BY <2>3, AttendedFacts
  <2>5. sessions[s].subscriber = k /\ k # None
    BY <2>2, <2>4, SessionsAssumption DEF Attended
  <2>6. /\ DOMAIN mid = Sockets /\ \A j \in Sockets : DOMAIN mid[j] = SocketFields
        /\ mid[k].phase = so.phase /\ mid[k].peer = so.peer
        /\ mid[k].session = s /\ mid[k].queue = so.queue
        /\ mid[k].doing = Unnoting(s, p) /\ mid[k].requests = Tail(q)
        /\ \A j \in Sockets : j # k => mid[j] = socket[j]
    BY DEF FInv, AInv, SocketsShaped, SocketFields
  <2>. HIDE DEF mid, m, p
  <2>7. /\ \A j \in Sockets : j # k => socket'[j] = socket[j]
        /\ to.peer = so.peer /\ to.session = s /\ to.doing = Unnoting(s, p)
        /\ to.requests = Tail(q) /\ to.queue = Append(so.queue, m)
    BY <2>1, <2>3, <2>5, <2>6, EmittedQueues DEF Opened
  <2>8. /\ DOMAIN T = DOMAIN sessions
        /\ \A t \in DOMAIN T :
              /\ T[t].subscriber = sessions[t].subscriber
              /\ T[t].terminals = sessions[t].terminals \ (IF t = s THEN {p} ELSE {})
    BY <2>1 DEF FInv, AInv, SubscribersTyped
  <2>9. Lasting'
    BY <1>0, <2>4, <2>8 DEF Lasting
  <2>10. Quiets(to.doing)
    BY <2>7, QuietSteps
  <2>11. Attended(to, k, T, B)
    BY <2>4, <2>7, <2>8, <2>10, AttendedSame
  <2>12. IsSeq(q) /\ IsSeq(so.queue)
    BY DEF FInv, AllNeat, Neat, Wanting, Queued
  <2>13. IsSeq(r) /\ ToSet(r) = {} /\ TellsFirst(r) /\ ~Telling(r) /\ Cardinality(Told(r)) = 0
    BY NoReply
  <2>14. wire'[k] = wire[k] \o r
    BY <2>1, Silent
  <2>15. Closes(m, p)
    BY DEF Closes, m
  <2>. HIDE DEF r, T, so, to, q, s
  <2>. DEFINE y == so.queue
              v == to.queue
              L == sessions[s].terminals
              M == T[s].terminals
  <2>16. /\ \A h : Shut1(y, h) => Shut1(v, h)
         /\ Shut1(v, p)
    BY <2>7, <2>12, <2>15, QueuedLast
  <2>17. M = L \ {p}
    BY <2>2, <2>8
  <2>. HIDE DEF y, v, L, M
  <2>18. Renews(q, y, L, r, Tail(q), v, M)
    <3>1. Cardinality(Told(r)) <= IF Head(q).op = "open" THEN 1 ELSE 0
      BY <2>13
    <3>2. /\ (\A h \in L : h \in M \/ Shut1(r, h) \/ Shut1(v, h))
          /\ (\A h : Shut1(y, h) => Shut1(r, h) \/ Shut1(v, h))
          /\ (\A e \in ToSet(r) : \A h : Makes(e, h) => h \in M)
          /\ (\A h \in M : h \in L \/ \E e \in ToSet(r) : Makes(e, h))
      BY <2>13, <2>16, <2>17
    <3>3. Head(q).op # "switch" /\ (Head(q).op = "kill" => Head(q).terminal \notin M)
      BY <2>3, <2>17
    <3>. QED BY ONLY <2>3, <2>12, <2>13, <3>1, <3>2, <3>3, RenewsServed
  <2>19. Calm(so, to, r, sessions, T)
    <3>1. /\ ~Bound(to.doing) /\ ~Bound(so.doing) /\ \A w : ~Undoes(so.doing, w)
      BY <2>3, <2>10 DEF Bound, Quiets, Idle, Undoes
    <3>2. Renews(so.requests, so.queue, sessions[so.session].terminals,
                 r, to.requests, to.queue, T[so.session].terminals)
      BY <2>7, <2>18 DEF q, y, v, L, M, s
    <3>3. to.session = so.session /\ to.requests = Tail(so.requests) /\ so.requests # <<>>
      BY <2>3, <2>7 DEF q, s
    <3>. QED BY <2>13, <3>1, <3>2, <3>3 DEF Calm
  <2>20. \A c \in Clients : gui[c].socket = k => Calm(socket[k], socket'[k], r, sessions, sessions')
    BY <2>19 DEF so, to, T
  <2>21. Attended(socket'[k], k, sessions', DOMAIN list.byId) /\ socket'[k].peer = socket[k].peer
    BY <2>7, <2>11 DEF to, T, so
  <2>. QED BY <1>0, <2>3, <2>7, <2>9, <2>13, <2>14, <2>20, <2>21, CalmStep
<1>. QED BY <1>1, <1>2

\* A shell is asked for, and m tells of it; session s, which the socket has or is given,
\* gets the terminals N.
LEMMA GrownUp ==
    ASSUME "backlog" \notin Ops, UInv, FInv, UNCHANGED <<list, gui>>, NEW k \in Sockets,
           Serving(k, "open"),
           NEW s, s = socket[k].session \/ (socket[k].session = None /\ s \notin issued),
           DOMAIN sessions \subseteq DOMAIN sessions',
           s \in DOMAIN sessions' => sessions'[s].subscriber = k,
           NEW N, \A t \in DOMAIN sessions :
              sessions'[t].terminals = sessions[t].terminals \cup (IF t = s THEN N ELSE {}),
           NEW m, m.type # "switched", Tells(m), \A p : Makes(m, p) <=> p \in N, Reply(k, <<m>>),
           \A j \in Sockets : j # k => socket'[j] = socket[j],
           socket'[k].peer = socket[k].peer, socket'[k].session = s,
           socket'[k].queue = socket[k].queue, Quiets(socket'[k].doing),
           socket'[k].requests = Tail(socket[k].requests)
    PROVE  UInv'
<1>. DEFINE so  == socket[k]
            to  == socket'[k]
            x   == wire[k]
            q   == so.requests
            B   == DOMAIN list.byId
            T   == sessions'
            r   == <<m>>
<1>1. Opened(k) /\ so.doing = Idle /\ q # <<>> /\ Head(q).op = "open"
  BY ServingShape DEF Opened
<1>2. Attended(so, k, sessions, B) /\ Lasting
  BY <1>1, AttendedFacts
<1>3. Lasting'
  BY <1>2 DEF Lasting
<1>4. s = so.session \/ \A w \in Held : so.session # SessionAt(w) /\ s # SessionAt(w)
  BY OwnSessions DEF FInv, Issued
<1>5. Attended(to, k, T, B)
  <2>1. Doable(to.doing, B, DOMAIN T) /\ to.doing.step # "detach"
    BY DEF Quiets, Doable, Ending, Entering
  <2>2. \A w \in Held : s = SessionAt(w) => w \in B
    BY <1>2, <1>4 DEF Attended
  <2>. HIDE DEF to, T, B
  <2>3. to.session = s /\ (s \in DOMAIN T => T[s].subscriber = k)
    BY DEF to, T
  <2>. QED BY <2>1, <2>2, <2>3 DEF Attended
<1>6. IsSeq(q)
  BY DEF FInv, AllNeat, Neat, Wanting
<1>7. /\ IsSeq(r) /\ ToSet(r) = {m} /\ TellsFirst(r) /\ Cardinality(Told(r)) = 1
  BY OneFirst
<1>8. wire'[k] = IF so.peer THEN x \o r ELSE x
  BY ReplyShape
<1>9. to.session = s /\ to.queue = so.queue /\ to.requests = Tail(q) /\ Quiets(to.doing)
  OBVIOUS
<1>10. ASSUME NEW w \in Held, so.session = SessionAt(w)
       PROVE  Renews(so.requests, so.queue, sessions[so.session].terminals,
                     r, to.requests, to.queue, T[so.session].terminals)
  <2>. DEFINE y == so.queue
              L == sessions[so.session].terminals
              M == T[so.session].terminals
  <2>1. so.session = s /\ s \in DOMAIN sessions
    BY <1>2, <1>4, <1>10 DEF Attended, Lasting
  <2>2. M = L \cup N
    BY <2>1
  <2>. HIDE DEF r, T, to, q, so, y, L, M
  <2>3. Renews(q, y, L, r, Tail(q), y, M)
    <3>1. Cardinality(Told(r)) <= IF Head(q).op = "open" THEN 1 ELSE 0
      BY <1>1, <1>7
    <3>2. /\ (\A h \in L : h \in M \/ Shut1(r, h) \/ Shut1(y, h))
          /\ (\A h : Shut1(y, h) => Shut1(r, h) \/ Shut1(y, h))
          /\ (\A e \in ToSet(r) : \A h : Makes(e, h) => h \in M)
          /\ (\A h \in M : h \in L \/ \E e \in ToSet(r) : Makes(e, h))
      BY <1>7, <2>2
    <3>3. Head(q).op # "switch" /\ (Head(q).op = "kill" => Head(q).terminal \notin M)
      BY <1>1
    <3>. QED BY ONLY <1>1, <1>6, <1>7, <3>1, <3>2, <3>3, RenewsServed
  <2>. QED BY <1>9, <2>3 DEF y, q, L, M
<1>. HIDE DEF r, T, to, so, x
<1>11. Calm(so, to, r, sessions, T)
  <2>1. /\ ~Bound(to.doing) /\ ~Bound(so.doing) /\ \A w : ~Undoes(so.doing, w)
    BY <1>1, <1>9 DEF Bound, Quiets, Idle, Undoes
  <2>2. Opening(so.requests)
    <3>1. Head(q) \in ToSet(q)
      BY <1>1, <1>6, Within
    <3>. QED BY <1>1, <3>1 DEF Opening
  <2>3. \A e \in ToSet(r) : e.type # "switched"
    BY <1>7
  <2>. QED BY <1>1, <1>4, <1>7, <1>9, <1>10, <2>1, <2>2, <2>3 DEF Calm
<1>12. \A c \in Clients : gui[c].socket = k => Calm(socket[k], socket'[k], r, sessions, sessions')
  BY <1>11 DEF so, to, T
<1>13. socket[k].peer => wire'[k] = wire[k] \o r
  BY <1>8 DEF so, x
<1>14. Attended(socket'[k], k, sessions', DOMAIN list.byId)
  BY <1>5 DEF to, T
<1>. QED BY <1>1, <1>3, <1>7, <1>12, <1>13, <1>14, CalmStep

LEMMA OpenTerminalUp ==
    ASSUME "backlog" \notin Ops, UInv, FInv, NEW k \in Sockets, OpenTerminal(k)
    PROVE  UInv'
<1>. DEFINE so == socket[k]
            to == socket'[k]
            Fail(s) == /\ sessions' = WithSession(k, s)
                       /\ socket' = [socket EXCEPT ![k].requests = Tail(@), ![k].session = s]
                       /\ Reply(k, <<Error("open")>>)
            Open(s, p) ==
                /\ s \in DOMAIN WithSession(k, s)
                /\ sessions' = [WithSession(k, s) EXCEPT ![s].terminals = @ \cup {p}]
                /\ \E do \in {Noting(s, p)} \cup IF socket[k].peer THEN {} ELSE {Idle} :
                      socket' = [socket EXCEPT ![k].requests = Tail(@), ![k].session = s,
                                               ![k].doing = do]
                /\ Reply(k, <<[type |-> "opened", terminal |-> p]>>)
<1>0. Serving(k, "open") /\ UNCHANGED <<list, gui>>
  BY DEF OpenTerminal
<1>1. PICK s \in IF socket[k].session # None THEN {socket[k].session} ELSE Sessions \ issued :
        Fail(s) \/ \E p \in Terminals \ issued : Open(s, p)
  BY ZenonT(60) DEF OpenTerminal
<1>2. DOMAIN socket = Sockets /\ DOMAIN so = SocketFields
  BY DEF FInv, AInv, SocketsShaped
<1>3. Opened(k) /\ so.doing = Idle
  BY <1>0, ServingShape DEF Opened
<1>4. s = so.session \/ (so.session = None /\ s \notin issued)
  BY <1>1
<1>. DEFINE had == WithSession(k, s)
<1>5. /\ \A t \in DOMAIN had : DOMAIN had[t] = {"terminals", "subscriber"}
      /\ \A t \in DOMAIN had : t \in DOMAIN sessions => had[t].terminals = sessions[t].terminals
  BY HadShape
<1>6. DOMAIN sessions \subseteq DOMAIN had /\ (s \in DOMAIN had => had[s].subscriber = k)
  <2>1. CASE so.session # None
    <3>1. had = sessions /\ s = so.session
      BY <1>1, <2>1 DEF WithSession
    <3>. QED BY <1>3, <3>1, AttendedFacts DEF Attended
  <2>2. CASE so.session = None
    <3>1. had = [t \in DOMAIN sessions \cup {s} |-> IF t = s THEN NewSession(k) ELSE sessions[t]]
      BY <2>2 DEF WithSession
    <3>. HIDE DEF had
    <3>. QED BY <3>1 DEF NewSession
  <2>. QED BY <2>1, <2>2
<1>7. CASE Fail(s)
  <2>. DEFINE m == Error("open")
              N == {}
  <2>1. /\ \A j \in Sockets : j # k => socket'[j] = socket[j]
        /\ to.peer = so.peer /\ to.queue = so.queue
        /\ to.session = s /\ to.doing = so.doing /\ to.requests = Tail(so.requests)
    BY <1>2, <1>7 DEF SocketFields
  <2>2. m.type # "switched" /\ Tells(m) /\ (\A p : Makes(m, p) <=> p \in N) /\ Reply(k, <<m>>)
    BY <1>7 DEF Error, Tells, Makes, Adds
  <2>3. Quiets(to.doing)
    BY <1>3, <2>1, QuietSteps
  <2>4. /\ DOMAIN sessions \subseteq DOMAIN sessions'
        /\ s \in DOMAIN sessions' => sessions'[s].subscriber = k
        /\ \A t \in DOMAIN sessions :
              sessions'[t].terminals = sessions[t].terminals \cup (IF t = s THEN N ELSE {})
    BY <1>5, <1>6, <1>7
  <2>. HIDE DEF m, N, had, Fail, Open
  <2>. QED BY <1>0, <1>4, <2>1, <2>2, <2>3, <2>4, GrownUp
<1>8. CASE \E p \in Terminals \ issued : Open(s, p)
  <2>0. PICK p \in Terminals \ issued : Open(s, p)
    BY <1>8
  <2>. DEFINE m == [type |-> "opened", terminal |-> p]
              N == {p}
  <2>1. PICK do \in {Noting(s, p)} \cup IF socket[k].peer THEN {} ELSE {Idle} :
            socket' = [socket EXCEPT ![k].requests = Tail(@), ![k].session = s, ![k].doing = do]
    BY <2>0
  <2>2. /\ \A j \in Sockets : j # k => socket'[j] = socket[j]
        /\ to.peer = so.peer /\ to.queue = so.queue
        /\ to.session = s /\ to.doing = do /\ to.requests = Tail(so.requests)
    BY <1>2, <2>1 DEF SocketFields
  <2>3. m.type # "switched" /\ Tells(m) /\ (\A h : Makes(m, h) <=> h \in N) /\ Reply(k, <<m>>)
    BY <2>0 DEF Tells, Makes, Adds
  <2>4. Quiets(to.doing)
    BY <2>2, QuietSteps
  <2>5. /\ DOMAIN sessions \subseteq DOMAIN sessions'
        /\ s \in DOMAIN sessions' => sessions'[s].subscriber = k
        /\ \A t \in DOMAIN sessions :
              sessions'[t].terminals = sessions[t].terminals \cup (IF t = s THEN N ELSE {})
    <3>1. sessions' = [had EXCEPT ![s].terminals = @ \cup {p}] /\ s \in DOMAIN had
      BY <2>0
    <3>. HIDE DEF had, Open, Fail
    <3>2. DOMAIN sessions' = DOMAIN had /\ sessions'[s].subscriber = had[s].subscriber
          /\ \A t \in DOMAIN had :
                sessions'[t].terminals = had[t].terminals \cup (IF t = s THEN N ELSE {})
      BY <1>5, <3>1
    <3>. QED BY <1>5, <1>6, <3>1, <3>2
  <2>. HIDE DEF m, N, had, Fail, Open
  <2>. QED BY <1>0, <1>4, <2>2, <2>3, <2>4, <2>5, GrownUp
<1>. QED BY <1>1, <1>7, <1>8

-----------------------------------------------------------------------------
(* The one window.                                                         *)

\* It goes on with its socket, or loses it.
LEMMA WindowUp ==
    ASSUME UInv, UNCHANGED <<list, sessions>>,
           NEW c \in Clients, \A d \in Clients : d = c, NEW k \in Sockets, Opened(k),
           \A j \in Sockets : j # k => socket'[j] = socket[j],
           socket'[k].session = socket[k].session, socket'[k].doing = socket[k].doing,
           \/ gui'[c] = Offline /\ ~socket'[k].peer
           \/ /\ gui'[c].socket = k
              /\ View(gui'[c], socket'[k], wire'[k], sessions, DOMAIN list.byId)
    PROVE  UInv'
<1>1. Attended(socket[k], k, sessions, DOMAIN list.byId) /\ Lasting
      /\ \A j \in Sockets : j # k => ~Opened(j)
  BY AttendedFacts
<1>2. \A j \in Sockets : Opened(j)' => j = k
  BY <1>1 DEF Opened
<1>3. Attended(socket'[k], k, sessions', DOMAIN list'.byId)
  BY <1>1, AttendedSame
<1>4. Offline.socket # k
  BY SessionsAssumption DEF Offline
<1>5. Sole'
  BY <1>2 DEF Sole
<1>6. Tended(k)'
  BY <1>3, <1>4 DEF Tended
<1>7. Lasting'
  BY <1>1 DEF Lasting
<1>. QED BY <1>2, <1>5, <1>6, <1>7 DEF UInv

\* It becomes g, and asks for r.
LEMMA BecomesUp ==
    ASSUME UInv, FInv, UNCHANGED <<list, sessions>>,
           NEW c \in Clients, \A d \in Clients : d = c, NEW k \in Sockets, gui[c].socket = k, Opened(k),
           NEW g, g.socket = k, NEW r, Becomes(c, g, r),
           \A to : /\ to.doing = socket[k].doing /\ to.session = socket[k].session
                   /\ to.queue = socket[k].queue /\ to.requests = socket[k].requests \o r
                   => View(g, to, wire'[k], sessions, DOMAIN list.byId)
    PROVE  UInv'
<1>. DEFINE so == socket[k]
            to == socket'[k]
<1>1. /\ gui'[c] = g /\ \A j \in Sockets : j # k => socket'[j] = socket[j]
      /\ to.session = so.session /\ to.queue = so.queue /\ to.doing = so.doing
      /\ to.requests = so.requests \o r
  BY DEF Becomes, FInv, Shaped, AInv, SocketsShaped, SocketFields
<1>2. View(g, to, wire'[k], sessions, DOMAIN list.byId)
  BY <1>1
<1>. QED BY <1>1, <1>2, WindowUp

\* What it hears.
LEMMA HeardUp ==
    ASSUME UInv, FInv, NEW c \in Clients, NEW type, Hears(c, type)
    PROVE  LET k == gui[c].socket
           IN  /\ k \in Sockets /\ Opened(k) /\ DOMAIN gui[c] = GuiFields
               /\ gui[c].opening \in Nat /\ IsFiniteSet(DOMAIN gui[c].panels)
               /\ View(gui[c], socket[k], wire[k], sessions, DOMAIN list.byId)
               /\ IsSeq(wire[k]) /\ IsSeq(socket[k].requests) /\ wire[k] # <<>>
               /\ Event(c) = Head(wire[k]) /\ Event(c).type = type /\ wire'[k] = Tail(wire[k])
               /\ Controlled(socket[k].requests, socket[k].doing, wire[k], socket[k].session,
                             gui[c].workspace)
               /\ UNCHANGED <<list, sessions>>
<1>. DEFINE k == gui[c].socket
<1>1. /\ k \in Sockets /\ Owns(c, k) /\ DOMAIN gui[c] = GuiFields /\ wire[k] # <<>>
      /\ Event(c) = Head(wire[k]) /\ Event(c).type = type /\ wire'[k] = Tail(wire[k])
      /\ UNCHANGED <<list, sessions>>
  BY HearsShape
<1>2. Opened(k) /\ gui[c].socket = k /\ IsFiniteSet(DOMAIN gui[c].panels)
  BY <1>1 DEF Owns, Opened, Good
<1>. HIDE DEF k
<1>3. /\ View(gui[c], socket[k], wire[k], sessions, DOMAIN list.byId)
      /\ IsSeq(wire[k]) /\ IsSeq(socket[k].requests)
      /\ Controlled(socket[k].requests, socket[k].doing, wire[k], socket[k].session,
                    gui[c].workspace)
  BY <1>1, <1>2, ViewFacts
<1>4. gui[c].opening \in Nat
  BY <1>3 DEF View
<1>. QED BY <1>1, <1>2, <1>3, <1>4 DEF k

\* ... is no move, and it becomes g,
LEMMA HeedsUp ==
    ASSUME UInv, FInv, NEW c \in Clients, \A d \in Clients : d = c, NEW type, Hears(c, type),
           NEW g, g.socket = gui[c].socket, NEW r, IsSeq(r), Heeds(gui[c], g, Event(c), r),
           Becomes(c, g, r)
    PROVE  UInv'
<1>. DEFINE k == gui[c].socket
<1>1. /\ k \in Sockets /\ Opened(k) /\ wire[k] # <<>>
      /\ View(gui[c], socket[k], wire[k], sessions, DOMAIN list.byId)
      /\ IsSeq(wire[k]) /\ IsSeq(socket[k].requests)
      /\ Event(c) = Head(wire[k]) /\ wire'[k] = Tail(wire[k])
      /\ UNCHANGED <<list, sessions>>
  BY HeardUp
<1>2. g.socket = k /\ gui[c].socket = k /\ Heeds(gui[c], g, Head(wire[k]), r)
  BY <1>1
<1>. HIDE DEF k
<1>3. \A to : /\ to.doing = socket[k].doing /\ to.session = socket[k].session
              /\ to.queue = socket[k].queue /\ to.requests = socket[k].requests \o r
              => View(g, to, wire'[k], sessions, DOMAIN list.byId)
  BY <1>1, <1>2, ViewHeeded
<1>. QED BY <1>1, <1>2, <1>3, BecomesUp

\* ... or asks for nothing.
LEMMA HeedsStays ==
    ASSUME UInv, FInv, NEW c \in Clients, \A d \in Clients : d = c, NEW type, Hears(c, type),
           UNCHANGED socket, gui'[c].socket = gui[c].socket, Heeds(gui[c], gui'[c], Event(c), <<>>)
    PROVE  UInv'
<1>. DEFINE k == gui[c].socket
            e == <<>>
<1>1. /\ k \in Sockets /\ Opened(k) /\ wire[k] # <<>>
      /\ View(gui[c], socket[k], wire[k], sessions, DOMAIN list.byId)
      /\ IsSeq(wire[k]) /\ IsSeq(socket[k].requests)
      /\ Event(c) = Head(wire[k]) /\ wire'[k] = Tail(wire[k])
      /\ UNCHANGED <<list, sessions>>
  BY HeardUp
<1>2. gui'[c].socket = k /\ gui[c].socket = k /\ Heeds(gui[c], gui'[c], Head(wire[k]), e)
  BY <1>1
<1>3. IsSeq(e) /\ socket[k].requests \o e = socket[k].requests
  BY <1>1, NoReply, EmptyCat
<1>. HIDE DEF k, e
<1>4. View(gui'[c], socket'[k], wire'[k], sessions, DOMAIN list.byId)
  <2>. DEFINE h  == gui'[c]
              to == socket'[k]
  <2>1. /\ to.doing = socket[k].doing /\ to.session = socket[k].session
        /\ to.queue = socket[k].queue /\ to.requests = socket[k].requests \o e
        /\ Heeds(gui[c], h, Head(wire[k]), e)
    BY <1>2, <1>3
  <2>. HIDE DEF h, to
  <2>2. View(h, to, Tail(wire[k]), sessions, DOMAIN list.byId)
    BY <1>1, <1>3, <2>1, ViewHeeded
  <2>. QED BY <1>1, <2>2 DEF h, to
<1>. QED BY <1>1, <1>2, <1>4, WindowUp

\* What it sends.
LEMMA PublishAsks ==
    ASSUME NEW g, IsFiniteSet(DOMAIN g.panels)
    PROVE  /\ IsSeq(Publish(g)) /\ \A e \in ToSet(Publish(g)) : e.op = "layout"
           /\ ~Wants(Publish(g)) /\ ~Opening(Publish(g))
<1>. DEFINE l == Layout(g)
<1>1. l.op = "layout"
  BY DEF Layout
<1>. HIDE DEF l
<1>2. ToSet(<<l>>) = {l} /\ ToSet(<<>>) = {}
  BY OneFirst, NoReply
<1>3. Publish(g) \in {<<>>, <<l>>}
  BY DEF Publish, l
<1>4. \A e \in ToSet(Publish(g)) : e.op = "layout"
  BY <1>1, <1>2, <1>3
<1>5. IsSeq(Publish(g))
  BY PublishShape
<1>. QED BY <1>4, <1>5 DEF Wants, Opening

LEMMA ForgetAsks ==
    ASSUME NEW g, IsFiniteSet(DOMAIN g.panels), NEW p
    PROVE  /\ IsSeq(Forget(g, p)) /\ ~Wants(Forget(g, p)) /\ ~Opening(Forget(g, p))
           /\ \E e \in ToSet(Forget(g, p)) : Kills(e, p)
<1>. DEFINE e == Kill(p)
            z == Publish(g)
<1>1. e.op = "kill" /\ Kills(e, p)
  BY DEF Kill, Kills
<1>. HIDE DEF e
<1>2. ToSet(<<e>>) = {e} /\ IsSeq(<<e>>)
  BY OneFirst
<1>3. IsSeq(z) /\ \A d \in ToSet(z) : d.op = "layout"
  BY PublishAsks
<1>. HIDE DEF z
<1>4. ToSet(<<e>> \o z) = {e} \cup ToSet(z) /\ IsSeq(<<e>> \o z)
  BY <1>2, <1>3, WithinCat
<1>5. Forget(g, p) = <<e>> \o z
  BY DEF Forget, e, z
<1>. QED BY <1>1, <1>3, <1>4, <1>5 DEF Wants, Opening

LEMMA OpensAsks ==
    ASSUME NEW n \in Nat
    PROVE  /\ IsSeq(Opens(n)) /\ (\A e \in ToSet(Opens(n)) : e.op = "open") /\ ~Wants(Opens(n))
           /\ OpensFirst(Opens(n)) /\ Cardinality(Asked(Opens(n))) = n
<1>. DEFINE q == Opens(n)
            e == [op |-> "open"]
<1>1. Len(q) = n /\ \A i \in 1..n : q[i] = e
  BY DEF Opens
<1>2. e.op = "open"
  OBVIOUS
<1>3. IsSeq(q)
  BY OpensShape
<1>. HIDE DEF q, e
<1>4. ToSet(q) = {q[i] : i \in 1..Len(q)}
  BY <1>3, Within
<1>5. Asked(q) = 1..n
  BY <1>1, <1>2 DEF Asked
<1>6. Cardinality(Asked(q)) = n
  <2>1. Cardinality(1..n) = n
    BY FS_Interval
  <2>. QED BY <1>5, <2>1
<1>7. \A d \in ToSet(q) : d.op = "open"
  BY <1>1, <1>2, <1>4
<1>8. OpensFirst(q) /\ ~Wants(q)
  BY <1>1, <1>2, <1>7 DEF OpensFirst, Wants
<1>. QED BY <1>3, <1>6, <1>7, <1>8 DEF q

LEMMA OnDataUp ==
    ASSUME UInv, FInv, NEW c \in Clients, \A d \in Clients : d = c, OnData(c)
    PROVE  UInv'
<1>. DEFINE m == Event(c)
            b == gui[c]
            h == gui'[c]
            r == <<>>
<1>1. Hears(c, "data") /\ UNCHANGED socket
  BY DEF OnData
<1>2. m.type = "data" /\ DOMAIN b = GuiFields /\ b.opening \in Nat
  BY <1>1, HeardUp
<1>3. \/ gui' = gui
      \/ \E p \in DOMAIN b.panels : gui' = [gui EXCEPT ![c].panels[p] = @ \o m.chunks]
  BY DEF OnData
<1>4. /\ h.socket = b.socket /\ h.workspace = b.workspace /\ h.known = b.known
      /\ h.opening = b.opening /\ DOMAIN h.panels = DOMAIN b.panels
  <2>1. CASE gui' = gui
    BY <2>1
  <2>2. ASSUME NEW p \in DOMAIN b.panels, gui' = [gui EXCEPT ![c].panels[p] = @ \o m.chunks]
        PROVE  /\ h.socket = b.socket /\ h.workspace = b.workspace /\ h.known = b.known
               /\ h.opening = b.opening /\ DOMAIN h.panels = DOMAIN b.panels
    <3>. DEFINE y == b.panels
                z == [y EXCEPT ![p] = @ \o m.chunks]
    <3>1. DOMAIN gui = Clients
      BY DEF FInv, Shaped
    <3>2. /\ h.socket = b.socket /\ h.workspace = b.workspace /\ h.known = b.known
          /\ h.opening = b.opening /\ h.panels = z
      BY <1>2, <2>2, <3>1 DEF GuiFields
    <3>3. DOMAIN z = DOMAIN y
      OBVIOUS
    <3>. HIDE DEF z
    <3>. QED BY <3>2, <3>3
  <2>. QED BY <1>3, <2>1, <2>2
<1>5. ~Wants(r) /\ ~Opening(r)
  BY NoReply
<1>6. \A p : ~Drops(m, p) /\ ~Makes(m, p) /\ ~Tells(m)
  BY <1>2 DEF Drops, Closes, Makes, Adds, Tells
<1>. HIDE DEF m, b, h, r
<1>7. m.type \notin {"switched", "gone"}
  BY <1>2
<1>8. Heeds(b, h, m, r)
  BY <1>2, <1>4, <1>5, <1>6, <1>7 DEF Heeds
<1>. QED BY <1>1, <1>4, <1>8, HeedsStays DEF m, b, h, r

LEMMA OnOpenedUp ==
    ASSUME UInv, FInv, NEW c \in Clients, \A d \in Clients : d = c, OnOpened(c)
    PROVE  UInv'
<1>. DEFINE m == Event(c)
            p == m.terminal
            b == gui[c]
            z == [q \in DOMAIN b.panels \cup {p} |-> IF q = p THEN <<>> ELSE b.panels[q]]
            g == [b EXCEPT !.opening = @ - 1, !.panels = z]
<1>1. Hears(c, "opened")
  BY DEF OnOpened
<1>2. /\ m.type = "opened" /\ DOMAIN b = GuiFields /\ b.opening \in Nat
      /\ IsFiniteSet(DOMAIN b.panels)
  BY <1>1, HeardUp
<1>3. /\ \A q : ~Drops(m, q) /\ (Makes(m, q) <=> q = p)
      /\ Tells(m) /\ m.type \notin {"switched", "gone"}
  BY <1>2 DEF Drops, Closes, Makes, Adds, Tells
<1>4. CASE ~Awaited(b)
  <2>. DEFINE r == <<>>
  <2>1. UNCHANGED <<gui, socket>>
    BY <1>4 DEF OnOpened
  <2>2. b.opening = 0
    BY <1>2, <1>4 DEF Awaited
  <2>3. ~Wants(r) /\ ~Opening(r)
    BY NoReply
  <2>. HIDE DEF m, b, r
  <2>4. Heeds(b, b, m, r)
    BY <1>3, <2>2, <2>3 DEF Heeds
  <2>5. gui'[c] = b
    BY <2>1 DEF b
  <2>. QED BY <1>1, <2>1, <2>4, <2>5, HeedsStays DEF m, b, r
<1>5. CASE Awaited(b)
  <2>. DEFINE r == Publish(g)
  <2>1. Becomes(c, g, r)
    BY <1>5 DEF OnOpened
  <2>2. /\ g.socket = b.socket /\ g.workspace = b.workspace /\ g.known = b.known
        /\ g.opening = b.opening - 1 /\ DOMAIN g.panels = DOMAIN b.panels \cup {p}
    BY <1>2 DEF GuiFields
  <2>. HIDE DEF g, b, m, p
  <2>3. IsFiniteSet(DOMAIN g.panels)
    BY <1>2, <2>2, FS_AddElement
  <2>4. IsSeq(r) /\ ~Wants(r) /\ ~Opening(r)
    BY <2>3, PublishAsks
  <2>5. g.opening \in Nat /\ b.opening <= g.opening + 1
    BY <1>2, <1>5, <2>2 DEF Awaited
  <2>. HIDE DEF r
  <2>6. Heeds(b, g, m, r)
    BY <1>3, <2>2, <2>4, <2>5 DEF Heeds
  <2>7. g.socket = gui[c].socket /\ Heeds(gui[c], g, Event(c), r)
    BY <2>2, <2>6 DEF m, b
  <2>. QED BY <1>1, <2>1, <2>4, <2>7, HeedsUp
<1>. QED BY <1>4, <1>5

LEMMA OnClosedUp ==
    ASSUME UInv, FInv, NEW c \in Clients, \A d \in Clients : d = c, OnClosed(c)
    PROVE  UInv'
<1>. DEFINE m == Event(c)
            p == m.terminal
            b == gui[c]
            g == Shut(b, p)
<1>1. Hears(c, "closed")
  BY DEF OnClosed
<1>2. /\ m.type = "closed" /\ DOMAIN b = GuiFields /\ b.opening \in Nat
      /\ IsFiniteSet(DOMAIN b.panels)
  BY <1>1, HeardUp
<1>3. /\ \A q : ~Makes(m, q) /\ (Drops(m, q) <=> q = p)
      /\ ~Tells(m) /\ m.type \notin {"switched", "gone"}
  BY <1>2 DEF Drops, Closes, Makes, Adds, Tells
<1>4. CASE p \notin DOMAIN b.panels
  <2>. DEFINE r == <<>>
  <2>1. UNCHANGED <<gui, socket>>
    BY <1>4 DEF OnClosed
  <2>2. ~Wants(r) /\ ~Opening(r)
    BY NoReply
  <2>. HIDE DEF m, b, r, p
  <2>3. Heeds(b, b, m, r)
    BY <1>2, <1>3, <1>4, <2>2 DEF Heeds
  <2>4. gui'[c] = b
    BY <2>1 DEF b
  <2>. QED BY <1>1, <2>1, <2>3, <2>4, HeedsStays DEF m, b, r
<1>5. CASE p \in DOMAIN b.panels
  <2>. DEFINE r == Forget(g, p)
  <2>1. Becomes(c, g, r)
    BY <1>5 DEF OnClosed
  <2>2. /\ g.socket = b.socket /\ g.workspace = b.workspace
        /\ DOMAIN g.panels = DOMAIN b.panels \ {p} /\ IsFiniteSet(DOMAIN g.panels)
    BY <1>2, ShutShape
  <2>3. g.known = b.known /\ g.opening = b.opening
    BY <1>2 DEF Shut, GuiFields
  <2>. HIDE DEF g, b, m, p
  <2>4. IsSeq(r) /\ ~Wants(r) /\ ~Opening(r) /\ \E e \in ToSet(r) : Kills(e, p)
    BY <2>2, ForgetAsks
  <2>. HIDE DEF r
  <2>5. Heeds(b, g, m, r)
    BY <1>2, <1>3, <2>2, <2>3, <2>4 DEF Heeds
  <2>6. g.socket = gui[c].socket /\ Heeds(gui[c], g, Event(c), r)
    BY <2>2, <2>5 DEF m, b
  <2>. QED BY <1>1, <2>1, <2>4, <2>6, HeedsUp
<1>. QED BY <1>4, <1>5

LEMMA OnErrorUp ==
    ASSUME UInv, FInv, NEW c \in Clients, \A d \in Clients : d = c, OnError(c)
    PROVE  UInv'
<1>. DEFINE m == Event(c)
            b == gui[c]
            k == b.socket
            g == Failed(b, m.of)
            r == <<>>
<1>1. Hears(c, "error")
  BY DEF OnError
<1>2. /\ m.type = "error" /\ DOMAIN b = GuiFields /\ b.opening \in Nat
      /\ k \in Sockets /\ Opened(k) /\ UNCHANGED <<list, sessions>>
  BY <1>1, HeardUp
<1>3. CASE b.booted
  <2>1. Becomes(c, g, r)
    BY <1>3 DEF OnError
  <2>2. /\ g.socket = b.socket /\ g.workspace = b.workspace /\ g.known = b.known
        /\ g.opening = (IF m.of = "open" /\ b.opening > 0 THEN b.opening - 1 ELSE b.opening)
        /\ g.panels = b.panels
    BY <1>2 DEF Failed, GuiFields
  <2>3. /\ \A q : ~Makes(m, q) /\ ~Drops(m, q)
        /\ (Tells(m) <=> m.of = "open") /\ m.type \notin {"switched", "gone"}
    BY <1>2 DEF Drops, Closes, Makes, Adds, Tells
  <2>4. ~Wants(r) /\ ~Opening(r) /\ IsSeq(r)
    BY NoReply
  <2>. HIDE DEF g, b, m, r
  <2>5. g.opening \in Nat /\ b.opening <= g.opening + (IF Tells(m) THEN 1 ELSE 0)
    BY <1>2, <2>2, <2>3
  <2>6. Heeds(b, g, m, r)
    BY <2>2, <2>3, <2>4, <2>5 DEF Heeds
  <2>7. g.socket = gui[c].socket /\ Heeds(gui[c], g, Event(c), r)
    BY <2>2, <2>6 DEF m, b
  <2>. QED BY <1>1, <2>1, <2>4, <2>7, HeedsUp
<1>4. CASE ~b.booted
  <2>1. gui' = [gui EXCEPT ![c] = Offline] /\ socket' = [socket EXCEPT ![k].peer = FALSE]
    BY <1>4 DEF OnError
  <2>2. /\ gui'[c] = Offline /\ ~socket'[k].peer
        /\ \A j \in Sockets : j # k => socket'[j] = socket[j]
        /\ socket'[k].session = socket[k].session /\ socket'[k].doing = socket[k].doing
    BY <1>2, <2>1 DEF FInv, Shaped, AInv, SocketsShaped, SocketFields
  <2>. HIDE DEF k
  <2>. QED BY <1>2, <2>2, WindowUp
<1>. QED BY <1>3, <1>4

LEMMA OnSwitchedUp ==
    ASSUME UInv, FInv, NEW c \in Clients, \A d \in Clients : d = c, OnSwitched(c)
    PROVE  UInv'
<1>. DEFINE k    == gui[c].socket
            so   == socket[k]
            x    == wire[k]
            b    == gui[c]
            m    == Event(c)
            D    == {i \in DOMAIN m.tabs : m.tabs[i] \notin m.terminals}
            dead == Cardinality(D)
            n    == IF m.terminals = {} /\ dead = 0 THEN 1 ELSE dead
            g    == [b EXCEPT !.booted = TRUE, !.workspace = m.workspace,
                              !.panels = [p \in m.terminals |-> <<>>],
                              !.opening = n, !.switching = FALSE]
            o    == Opens(n)
            told == IF m.terminals = {} THEN <<>> ELSE Publish(g)
            r    == o \o told
            B    == DOMAIN list.byId
<1>1. Hears(c, "switched") /\ Becomes(c, g, r)
  BY DEF OnSwitched, Shown
<1>2. TypedMessage(m)
  BY <1>1, HearsShape
<1>3. /\ k \in Sockets /\ Opened(k) /\ DOMAIN b = GuiFields /\ View(b, so, x, sessions, B)
      /\ IsSeq(x) /\ IsSeq(so.requests) /\ x # <<>> /\ m = Head(x) /\ m.type = "switched"
      /\ wire'[k] = Tail(x) /\ Controlled(so.requests, so.doing, x, so.session, b.workspace)
      /\ UNCHANGED <<list, sessions>>
  BY <1>1, HeardUp
<1>4. n \in Nat
  <2>1. DOMAIN m.tabs = 1..Len(m.tabs) /\ Len(m.tabs) \in Nat
    BY <1>2, <1>3, SeqShape DEF TypedMessage
  <2>2. IsFiniteSet(1..Len(m.tabs)) /\ D \subseteq 1..Len(m.tabs)
    BY <2>1, FS_Interval
  <2>. HIDE DEF D
  <2>3. dead \in Nat
    BY <2>2, FS_Subset, FS_CardinalityType
  <2>. QED BY <2>3
<1>5. /\ g.socket = k /\ g.workspace = m.workspace /\ g.known = b.known /\ g.opening = n
      /\ DOMAIN g.panels = m.terminals /\ IsFiniteSet(m.terminals)
  BY <1>2, <1>3 DEF GuiFields, TypedMessage
<1>. HIDE DEF n, g, dead, D
<1>6. IsSeq(told) /\ ~Wants(told) /\ ~Opening(told)
  BY <1>5, PublishAsks, NoReply
<1>7. IsSeq(o) /\ ~Wants(o) /\ Cardinality(Asked(o)) = n
  BY <1>4, OpensAsks
<1>. HIDE DEF told, o
<1>8. IsSeq(r) /\ ~Wants(r)
  <2>1. ToSet(r) = ToSet(o) \cup ToSet(told) /\ IsSeq(r)
    BY <1>6, <1>7, WithinCat
  <2>. QED BY <1>6, <1>7, <2>1 DEF Wants
<1>9. Cardinality(Asked(r)) = n
  <2>1. Cardinality(Asked(told)) = 0
    BY <1>6, NothingFirst
  <2>2. Cardinality(Asked(r)) = Cardinality(Asked(o)) + Cardinality(Asked(told))
    BY <1>6, <1>7, AskedCat
  <2>. HIDE DEF r
  <2>. QED BY <1>4, <1>7, <2>1, <2>2
<1>. HIDE DEF r, so, x, b, m, B
<1>10. ASSUME NEW to, to.doing = so.doing, to.session = so.session, to.queue = so.queue,
              to.requests = so.requests \o r
       PROVE  View(g, to, Tail(x), sessions, B)
  <2>1. /\ Head(x).type = "switched" /\ g.workspace = Head(x).workspace /\ g.opening \in Nat
        /\ DOMAIN g.panels = Head(x).terminals /\ Cardinality(Asked(r)) = g.opening
    BY <1>3, <1>4, <1>5, <1>9
  <2>. QED BY <1>3, <1>5, <1>8, <1>10, <2>1, ViewSwitched
<1>11. \A to : /\ to.doing = socket[k].doing /\ to.session = socket[k].session
               /\ to.queue = socket[k].queue /\ to.requests = socket[k].requests \o r
               => View(g, to, wire'[k], sessions, DOMAIN list.byId)
  BY <1>3, <1>10 DEF so, B
<1>12. gui[c].socket = k
  OBVIOUS
<1>. HIDE DEF k
<1>. QED BY <1>1, <1>3, <1>5, <1>11, <1>12, BecomesUp

LEMMA OnGoneUp ==
    ASSUME UInv, FInv, NEW c \in Clients, \A d \in Clients : d = c, OnGone(c)
    PROVE  UInv'
<1>. DEFINE k    == gui[c].socket
            so   == socket[k]
            x    == wire[k]
            b    == gui[c]
            m    == Event(c)
            h    == [b EXCEPT !.known = @ \ {m.workspace}]
            bare == [h EXCEPT !.workspace = None, !.panels = [p \in {} |-> <<>>],
                              !.opening = 0, !.switching = FALSE]
            go   == [bare EXCEPT !.switching = TRUE, !.opening = 0]
            e    == [op |-> "switch", workspace |-> m.focus]
            r    == Publish(bare)
            none == <<>>
            B    == DOMAIN list.byId
<1>1. Hears(c, "gone")
      /\ IF b.workspace # m.workspace THEN Becomes(c, h, none) ELSE Becomes(c, go, r \o <<e>>)
  BY DEF OnGone, SwitchTo
<1>2. /\ k \in Sockets /\ Opened(k) /\ DOMAIN b = GuiFields /\ View(b, so, x, sessions, B)
      /\ IsSeq(x) /\ IsSeq(so.requests) /\ x # <<>> /\ m = Head(x) /\ m.type = "gone"
      /\ wire'[k] = Tail(x) /\ Controlled(so.requests, so.doing, x, so.session, b.workspace)
      /\ b.opening \in Nat /\ UNCHANGED <<list, sessions>>
  BY <1>1, HeardUp
<1>3. /\ h.socket = k /\ h.workspace = b.workspace /\ h.known = b.known \ {m.workspace}
      /\ h.opening = b.opening /\ h.panels = b.panels
      /\ go.socket = k /\ go.workspace = None /\ go.known = b.known \ {m.workspace}
      /\ go.opening = 0 /\ DOMAIN bare.panels = {}
  <2>1. /\ DOMAIN h = GuiFields /\ h.socket = k /\ h.workspace = b.workspace
        /\ h.known = b.known \ {m.workspace} /\ h.opening = b.opening /\ h.panels = b.panels
    BY <1>2 DEF GuiFields
  <2>. HIDE DEF h
  <2>2. /\ DOMAIN bare = GuiFields /\ bare.socket = h.socket /\ bare.workspace = None
        /\ bare.known = h.known /\ DOMAIN bare.panels = {}
    BY <2>1 DEF GuiFields
  <2>. HIDE DEF bare
  <2>3. /\ go.socket = bare.socket /\ go.workspace = bare.workspace /\ go.known = bare.known
        /\ go.opening = 0
    BY <2>2 DEF GuiFields
  <2>. HIDE DEF go
  <2>. QED BY <2>1, <2>2, <2>3
<1>4. e.op = "switch"
  OBVIOUS
<1>. HIDE DEF h, bare, go, e
<1>5. CASE b.workspace # m.workspace
  <2>1. ~Wants(none) /\ ~Opening(none) /\ IsSeq(none)
    BY NoReply
  <2>2. Becomes(c, h, none)
    BY <1>1, <1>5
  <2>. HIDE DEF b, m, none
  <2>3. \A p : ~Makes(m, p) /\ ~Drops(m, p) /\ ~Tells(m) /\ m.type # "switched"
    BY <1>2 DEF Drops, Closes, Makes, Adds, Tells
  <2>4. Heeds(b, h, m, none)
    <3>1. /\ m.workspace \notin h.known \cup {h.workspace}
          /\ h.workspace = b.workspace /\ h.known \subseteq b.known /\ h.panels = b.panels
      BY <1>3, <1>5 DEF b, m
    <3>2. h.opening \in Nat /\ b.opening <= h.opening + (IF Tells(m) THEN 1 ELSE 0)
      <4>1. h.opening = b.opening /\ b.opening \in Nat /\ ~Tells(m)
        BY <1>2, <1>3, <2>3
      <4>. QED BY ONLY <4>1
    <3>. QED BY ONLY <2>1, <2>3, <3>1, <3>2 DEF Heeds
  <2>5. h.socket = gui[c].socket /\ Heeds(gui[c], h, Event(c), none)
    BY <1>3, <2>4 DEF b, m
  <2>. QED BY <1>1, <2>1, <2>2, <2>5, HeedsUp
<1>6. CASE b.workspace = m.workspace
  <2>1. IsSeq(r) /\ ~Opening(r)
    BY <1>3, FS_EmptySet, PublishAsks
  <2>2. IsSeq(<<e>>) /\ ToSet(<<e>>) = {e}
    BY OneFirst
  <2>3. Becomes(c, go, r \o <<e>>)
    BY <1>1, <1>6
  <2>. HIDE DEF so, x, b, m, B, r
  <2>. DEFINE z == r \o <<e>>
  <2>4. IsSeq(z) /\ ~Opening(z)
    <3>1. ToSet(z) = ToSet(r) \cup {e} /\ IsSeq(z)
      BY <2>1, <2>2, WithinCat
    <3>. QED BY <1>4, <2>1, <3>1 DEF Opening
  <2>. HIDE DEF z
  <2>5. ASSUME NEW to, to.doing = so.doing, to.session = so.session, to.queue = so.queue,
               to.requests = so.requests \o z
        PROVE  View(go, to, Tail(x), sessions, B)
    <3>1. /\ Head(x).type = "gone" /\ Head(x).workspace = b.workspace
          /\ go.known = b.known \ {b.workspace} /\ go.opening \in Nat
      BY <1>2, <1>3, <1>6
    <3>. QED BY <1>2, <1>3, <2>4, <2>5, <3>1, ViewGone
  <2>6. \A to : /\ to.doing = socket[k].doing /\ to.session = socket[k].session
                /\ to.queue = socket[k].queue /\ to.requests = socket[k].requests \o z
                => View(go, to, wire'[k], sessions, DOMAIN list.byId)
    BY <1>2, <2>5 DEF so, B
  <2>7. gui[c].socket = k /\ Becomes(c, go, z)
    BY <2>3 DEF z
  <2>. HIDE DEF k
  <2>. QED BY <1>2, <1>3, <2>6, <2>7, BecomesUp
<1>. QED BY <1>5, <1>6

-----------------------------------------------------------------------------
(* What its user does.                                                     *)

LEMMA AsksFacts ==
    ASSUME UInv, FInv, NEW c \in Clients, NEW g, NEW r, Asks(c, g, r)
    PROVE  LET k == gui[c].socket
           IN  /\ k \in Sockets /\ Opened(k) /\ DOMAIN gui[c] = GuiFields
               /\ gui[c].opening \in Nat /\ IsFiniteSet(DOMAIN gui[c].panels)
               /\ View(gui[c], socket[k], wire[k], sessions, DOMAIN list.byId)
               /\ IsSeq(wire[k]) /\ IsSeq(socket[k].requests) /\ wire'[k] = wire[k]
               /\ Becomes(c, g, r) /\ UNCHANGED <<list, sessions>>
               /\ "hasty" \notin Ops => /\ NoMove(socket[k].requests) /\ ~Moving(socket[k].doing)
                                        /\ NoTell(wire[k])
<1>. DEFINE k == gui[c].socket
<1>1. /\ k \in Sockets /\ Owns(c, k) /\ DOMAIN gui[c] = GuiFields /\ wire' = wire
      /\ Becomes(c, g, r) /\ UNCHANGED <<list, sessions>>
      /\ "hasty" \notin Ops => /\ NoMove(socket[k].requests) /\ ~Moving(socket[k].doing)
                               /\ NoTell(wire[k])
  BY AsksShape
<1>2. Opened(k) /\ gui[c].socket = k /\ IsFiniteSet(DOMAIN gui[c].panels)
  BY <1>1 DEF Owns, Opened, Good
<1>. HIDE DEF k
<1>3. /\ View(gui[c], socket[k], wire[k], sessions, DOMAIN list.byId)
      /\ IsSeq(wire[k]) /\ IsSeq(socket[k].requests)
  BY <1>1, <1>2, ViewFacts
<1>4. gui[c].opening \in Nat
  BY <1>3 DEF View
<1>. QED BY <1>1, <1>2, <1>3, <1>4 DEF k

LEMMA AsksUp ==
    ASSUME "hasty" \notin Ops, UInv, FInv, NEW c \in Clients, \A d \in Clients : d = c,
           NEW g, NEW r, Asks(c, g, r), g.socket = gui[c].socket, IsSeq(r),
           g.workspace = gui[c].workspace, g.known = gui[c].known, g.opening \in Nat,
           OpensFirst(r), \A e \in ToSet(r) : e.op = "switch" => e.workspace \in gui[c].known,
           Wants(r) \/ gui[c].opening + Cardinality(Asked(r)) <= g.opening,
           DOMAIN g.panels \subseteq DOMAIN gui[c].panels,
           \A p \in DOMAIN gui[c].panels : p \in DOMAIN g.panels \/ \E e \in ToSet(r) : Kills(e, p)
    PROVE  UInv'
<1>. DEFINE k == gui[c].socket
            b == gui[c]
<1>1. /\ k \in Sockets /\ Opened(k) /\ View(b, socket[k], wire[k], sessions, DOMAIN list.byId)
      /\ IsSeq(wire[k]) /\ IsSeq(socket[k].requests) /\ wire'[k] = wire[k]
      /\ Becomes(c, g, r) /\ UNCHANGED <<list, sessions>>
      /\ NoMove(socket[k].requests) /\ ~Moving(socket[k].doing) /\ NoTell(wire[k])
  BY AsksFacts
<1>2. g.socket = k /\ gui[c].socket = k
  OBVIOUS
<1>3. /\ g.workspace = b.workspace /\ g.known = b.known
      /\ \A e \in ToSet(r) : e.op = "switch" => e.workspace \in b.known
      /\ Wants(r) \/ b.opening + Cardinality(Asked(r)) <= g.opening
      /\ DOMAIN g.panels \subseteq DOMAIN b.panels
      /\ \A p \in DOMAIN b.panels : p \in DOMAIN g.panels \/ \E e \in ToSet(r) : Kills(e, p)
  OBVIOUS
<1>. HIDE DEF k, b
<1>4. ASSUME NEW to, to.doing = socket[k].doing, to.session = socket[k].session,
             to.queue = socket[k].queue, to.requests = socket[k].requests \o r
      PROVE  View(g, to, wire[k], sessions, DOMAIN list.byId)
  BY <1>1, <1>3, <1>4, ViewAsked
<1>5. \A to : /\ to.doing = socket[k].doing /\ to.session = socket[k].session
              /\ to.queue = socket[k].queue /\ to.requests = socket[k].requests \o r
              => View(g, to, wire'[k], sessions, DOMAIN list.byId)
  BY <1>1, <1>4
<1>. QED BY <1>1, <1>2, <1>5, BecomesUp

LEMMA AskTerminalUp ==
    ASSUME "hasty" \notin Ops, UInv, FInv, NEW c \in Clients, \A d \in Clients : d = c,
           AskTerminal(c)
    PROVE  UInv'
<1>. DEFINE b == gui[c]
            g == [b EXCEPT !.opening = @ + 1]
            r == Opens(1)
<1>1. Asks(c, g, r)
  BY DEF AskTerminal
<1>2. DOMAIN b = GuiFields /\ b.opening \in Nat
  BY <1>1, AsksFacts
<1>3. /\ g.socket = b.socket /\ g.workspace = b.workspace /\ g.known = b.known
      /\ g.panels = b.panels /\ g.opening = b.opening + 1
  BY <1>2 DEF GuiFields
<1>4. /\ IsSeq(r) /\ OpensFirst(r) /\ Cardinality(Asked(r)) = 1
      /\ \A e \in ToSet(r) : e.op = "open"
  BY OpensAsks
<1>. HIDE DEF g, r, b
<1>5. /\ g.opening \in Nat /\ b.opening + Cardinality(Asked(r)) <= g.opening
      /\ DOMAIN g.panels = DOMAIN b.panels
      /\ \A e \in ToSet(r) : e.op = "switch" => e.workspace \in b.known
  BY <1>2, <1>3, <1>4
<1>. QED BY <1>1, <1>3, <1>4, <1>5, AsksUp DEF b

LEMMA AskKillUp ==
    ASSUME "hasty" \notin Ops, UInv, FInv, NEW c \in Clients, \A d \in Clients : d = c,
           NEW p, AskKill(c, p)
    PROVE  UInv'
<1>. DEFINE b == gui[c]
            g == Shut(b, p)
            r == Forget(g, p)
<1>1. Asks(c, g, r)
  BY DEF AskKill
<1>2. DOMAIN b = GuiFields /\ b.opening \in Nat /\ IsFiniteSet(DOMAIN b.panels)
  BY <1>1, AsksFacts
<1>3. /\ g.socket = b.socket /\ g.workspace = b.workspace
      /\ DOMAIN g.panels = DOMAIN b.panels \ {p} /\ IsFiniteSet(DOMAIN g.panels)
  BY <1>2, ShutShape
<1>4. g.known = b.known /\ g.opening = b.opening
  BY <1>2 DEF Shut, GuiFields
<1>. HIDE DEF g, b
<1>5. IsSeq(r) /\ ~Wants(r) /\ ~Opening(r) /\ \E e \in ToSet(r) : Kills(e, p)
  BY <1>3, ForgetAsks
<1>. HIDE DEF r
<1>6. OpensFirst(r) /\ Cardinality(Asked(r)) = 0
  BY <1>5, NothingFirst
<1>7. /\ g.opening \in Nat /\ b.opening + Cardinality(Asked(r)) <= g.opening
      /\ DOMAIN g.panels \subseteq DOMAIN b.panels
      /\ \A e \in ToSet(r) : e.op = "switch" => e.workspace \in b.known
      /\ \A q \in DOMAIN b.panels : q \in DOMAIN g.panels \/ \E e \in ToSet(r) : Kills(e, q)
  BY <1>2, <1>3, <1>4, <1>5, <1>6 DEF Wants
<1>. QED BY <1>1, <1>3, <1>4, <1>5, <1>6, <1>7, AsksUp DEF b

LEMMA AskCloseUp ==
    ASSUME "hasty" \notin Ops, UInv, FInv, NEW c \in Clients, \A d \in Clients : d = c,
           NEW w, AskClose(c, w)
    PROVE  UInv'
<1>. DEFINE b == gui[c]
            e == [op |-> "close", workspace |-> w]
            r == <<e>>
<1>1. Asks(c, b, r) /\ e.op = "close"
  BY DEF AskClose
<1>2. b.opening \in Nat
  BY <1>1, AsksFacts
<1>3. b.socket = gui[c].socket
  OBVIOUS
<1>. HIDE DEF e
<1>4. /\ IsSeq(r) /\ OpensFirst(r) /\ Cardinality(Asked(r)) = 0 /\ ToSet(r) = {e}
  BY <1>1, OneFirst
<1>. HIDE DEF r, b
<1>5. /\ b.opening + Cardinality(Asked(r)) <= b.opening
      /\ \A d \in ToSet(r) : d.op = "switch" => d.workspace \in b.known
  BY <1>1, <1>2, <1>4
<1>. QED BY <1>1, <1>2, <1>3, <1>4, <1>5, AsksUp DEF b

LEMMA AskSwitchUp ==
    ASSUME "hasty" \notin Ops, UInv, FInv, NEW c \in Clients, \A d \in Clients : d = c,
           NEW w, AskSwitch(c, w)
    PROVE  UInv'
<1>. DEFINE b == gui[c]
            g == [b EXCEPT !.switching = TRUE, !.opening = 0]
            z == Publish(b)
            e == [op |-> "switch", workspace |-> w]
            r == z \o <<e>>
<1>1. Asks(c, g, r) /\ w \in b.known /\ e.op = "switch" /\ e.workspace = w
  BY DEF AskSwitch, SwitchTo
<1>2. DOMAIN b = GuiFields /\ IsFiniteSet(DOMAIN b.panels)
  BY <1>1, AsksFacts
<1>3. /\ g.socket = b.socket /\ g.workspace = b.workspace /\ g.known = b.known
      /\ g.panels = b.panels /\ g.opening = 0
  BY <1>2 DEF GuiFields
<1>. HIDE DEF e, g
<1>4. IsSeq(z) /\ (\A d \in ToSet(z) : d.op = "layout") /\ ~Wants(z) /\ ~Opening(z)
  BY <1>2, PublishAsks
<1>5. IsSeq(<<e>>) /\ ToSet(<<e>>) = {e} /\ OpensFirst(<<e>>)
  BY OneFirst
<1>6. OpensFirst(z)
  BY <1>4, NothingFirst
<1>. HIDE DEF z
<1>7. IsSeq(r) /\ ToSet(r) = ToSet(z) \cup {e} /\ OpensFirst(r)
  BY <1>4, <1>5, <1>6, WithinCat, OpensFirstCat
<1>. HIDE DEF r, b
<1>8. /\ Wants(r) /\ g.opening \in Nat
      /\ \A d \in ToSet(r) : d.op = "switch" => d.workspace \in b.known
  BY <1>1, <1>3, <1>4, <1>7 DEF Wants
<1>9. DOMAIN g.panels = DOMAIN b.panels
  BY <1>3
<1>. QED BY <1>1, <1>3, <1>7, <1>8, <1>9, AsksUp DEF b

LEMMA LeaveUp ==
    ASSUME UInv, FInv, NEW c \in Clients, \A d \in Clients : d = c, Leave(c)
    PROVE  UInv'
<1>. DEFINE k == gui[c].socket
<1>1. PICK last : /\ k # None /\ gui' = [gui EXCEPT ![c] = Offline]
                  /\ socket' = [socket EXCEPT ![k].peer = FALSE, ![k].requests = @ \o last]
                  /\ UNCHANGED <<list, sessions>>
  BY DEF Leave, daemonVars
<1>2. k \in Sockets /\ Opened(k)
  BY <1>1 DEF FInv, Shaped, Owned, Owns, Opened
<1>. HIDE DEF k
<1>3. /\ gui'[c] = Offline /\ ~socket'[k].peer
      /\ \A j \in Sockets : j # k => socket'[j] = socket[j]
      /\ socket'[k].session = socket[k].session /\ socket'[k].doing = socket[k].doing
  <2>1. DOMAIN gui = Clients /\ DOMAIN socket = Sockets /\ DOMAIN socket[k] = SocketFields
    BY <1>2 DEF FInv, Shaped, AInv, SocketsShaped
  <2>2. gui'[c] = Offline /\ \A j \in Sockets : j # k => socket'[j] = socket[j]
    BY <1>1, <2>1
  <2>3. ~socket'[k].peer
    BY <1>1, <1>2, <2>1 DEF SocketFields
  <2>4. socket'[k].session = socket[k].session /\ socket'[k].doing = socket[k].doing
    BY <1>1, <1>2, <2>1 DEF SocketFields
  <2>. QED BY <2>2, <2>3, <2>4
<1>. QED BY <1>1, <1>2, <1>3, WindowUp

LEMMA ConnectUp ==
    ASSUME "linger" \notin Ops, UInv, FInv, NEW c \in Clients, \A d \in Clients : d = c,
           NEW k \in Sockets, Connect(c, k)
    PROVE  UInv'
<1>. DEFINE G == [Offline EXCEPT !.socket = k, !.switching = TRUE, !.known = DOMAIN list.byId]
<1>1. PICK w \in DOMAIN list.byId :
         /\ socket[k].phase = "new" /\ gui[c].socket = None
         /\ \A j \in Sockets : Opened(j) => socket[j].peer
         /\ socket' = [socket EXCEPT ![k].phase = "open",
                                     ![k].requests = <<[op |-> "switch", workspace |-> w]>>]
         /\ gui' = [gui EXCEPT ![c] = G]
         /\ UNCHANGED <<list, sessions, wire>>
  BY DEF Connect, daemonVars, Opened
<1>2. socket[k] = NewSocket /\ wire[k] = <<>>
  BY <1>1 DEF FInv, AllNeat, Neat
<1>. DEFINE e == [op |-> "switch", workspace |-> w]
            so == socket'[k]
<1>3. /\ \A j \in Sockets : j # k => socket'[j] = socket[j]
      /\ so.requests = <<e>> /\ so.session = None /\ so.doing = Idle
  BY <1>1, <1>2 DEF FInv, AInv, SocketsShaped, NewSocket
\* No other is open: its window would be this one.
<1>4. \A j \in Sockets : ~Opened(j)
  <2>. SUFFICES ASSUME NEW j \in Sockets, Opened(j) PROVE FALSE
    OBVIOUS
  <2>1. gui[c].socket = j
    BY <1>1, AttendedFacts
  <2>. QED BY <1>1, <2>1, SessionsAssumption
<1>5. \A j \in Sockets : Opened(j)' => j = k
  BY <1>3, <1>4 DEF Opened
<1>6. gui'[c] = G /\ G.socket = k /\ G.workspace = None /\ G.opening = 0 /\ G.known = DOMAIN list.byId
  BY <1>1 DEF FInv, Shaped, Offline
<1>. HIDE DEF G, e, so
<1>7. Attended(so, k, sessions, DOMAIN list.byId)
  <2>1. None \notin DOMAIN sessions /\ \A v \in Held : None # SessionAt(v)
    BY OwnSessions DEF FInv, AInv, SubscribersTyped
  <2>2. Doable(so.doing, DOMAIN list.byId, DOMAIN sessions) /\ so.doing.step = "idle"
    BY <1>3 DEF Doable, Ending, Entering, Idle
  <2>. QED BY <1>3, <2>1, <2>2 DEF Attended
<1>8. View(G, so, <<>>, sessions, DOMAIN list.byId)
  BY <1>3, <1>6, ViewStart
<1>9. Sole'
  BY <1>5, <1>6 DEF Sole
<1>10. View(gui'[c], socket'[k], wire'[k], sessions', DOMAIN list'.byId)
  BY <1>1, <1>2, <1>6, <1>8 DEF so
<1>11. Tended(k)'
  <2>1. Attended(socket'[k], k, sessions', DOMAIN list'.byId)
    BY <1>1, <1>7 DEF so
  <2>. QED BY <1>10, <2>1 DEF Tended
<1>12. Lasting'
  BY <1>1 DEF UInv, Lasting
<1>. QED BY <1>5, <1>9, <1>11, <1>12 DEF UInv

LEMMA UserUp ==
    ASSUME "linger" \notin Ops, "hasty" \notin Ops, UInv, FInv, NEW c \in Clients,
           \A d \in Clients : d = c, User(c)
    PROVE  UInv'
<1>1. CASE \E k \in Sockets : Connect(c, k)
  BY <1>1, ConnectUp
<1>2. CASE Leave(c)
  BY <1>2, LeaveUp
<1>3. CASE AskTerminal(c)
  BY <1>3, AskTerminalUp
<1>4. CASE \E w \in Workspaces : AskSwitch(c, w) \/ AskClose(c, w)
  BY <1>4, AskSwitchUp, AskCloseUp
<1>5. CASE \E p \in Terminals : AskKill(c, p)
  BY <1>5, AskKillUp
<1>. QED BY <1>1, <1>2, <1>3, <1>4, <1>5 DEF User

LEMMA SameUp ==
    ASSUME UInv, UNCHANGED vars
    PROVE  UInv'
  BY DEF vars, UInv, Sole, Opened, Lasting, Tended

LEMMA NextUp ==
    ASSUME Ops \cap {"backlog", "hasty", "linger"} = {}, \E c : Clients = {c},
           UInv, FInv, [Next]_vars
    PROVE  UInv'
<1>0. "backlog" \notin Ops /\ "hasty" \notin Ops /\ "linger" \notin Ops
  OBVIOUS
<1>1. CASE \E k \in Sockets : Serves(k)
  <2>. PICK k \in Sockets : Serves(k)
    BY <1>1
  <2>. QED BY <1>0, SwitchUp, DetachUp, AttachUp, CloseWorkspaceUp, DestroyUp,
              OpenTerminalUp, NotesUp, KillTerminalUp, SetLayoutUp, DrainUp,
              DisconnectedUp DEF Serves
<1>2. CASE \E c \in Clients : Receives(c) \/ User(c)
  <2>. PICK c \in Clients : Receives(c) \/ User(c)
    BY <1>2
  <2>1. \A d \in Clients : d = c
    OBVIOUS
  <2>. QED BY <1>0, <2>1, OnSwitchedUp, OnOpenedUp, OnDataUp, OnClosedUp, OnGoneUp, OnErrorUp,
              UserUp DEF Receives
<1>3. CASE \E p \in Terminals : Prints(p) \/ Ends(p)
  BY <1>3, PrintsUp, EndsUp
<1>4. CASE UNCHANGED vars
  BY <1>4, SameUp
<1>. QED BY <1>1, <1>2, <1>3, <1>4 DEF Next

\* Output reaches the window, as long as there is one, which waits for the answer to a
\* switch or a close, the daemon notices the end of its connection before the next, and a
\* request is served when nothing is queued: once nothing is on its way the window has a
\* panel for every terminal of the session it shows, and for no other, with all that it
\* printed, whatever it has opened, killed, closed and lost meanwhile, and whichever shells
\* have ended or have not started (session.rs: "PTYs survive WebSocket disconnect").
THEOREM FedUpToDate ==
    (\E c : Clients = {c}) /\ Ops \cap {"backlog", "hasty", "linger"} = {} => (Spec => []UpToDate)
<1>. SUFFICES ASSUME \E c : Clients = {c}, Ops \cap {"backlog", "hasty", "linger"} = {}
              PROVE  Spec => []UpToDate
  OBVIOUS
<1>1. Init => FInv /\ UInv
  BY InitFed, InitTended
<1>2. FInv /\ UInv /\ [Next]_vars => FInv' /\ UInv'
  BY NextFed, NextUp
<1>3. FInv /\ UInv => UpToDate
  BY TendedIsUpToDate
<1>. QED BY <1>1, <1>2, <1>3, PTL DEF Spec
=============================================================================
