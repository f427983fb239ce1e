-------------------------- MODULE SessionsInvariants --------------------------
(***************************************************************************)
(* The inductive invariants of Sessions, from which SessionsProofs derives *)
(* what the windows are shown: AInv, of sessions and their subscribers;    *)
(* FInv, of what is on its way to a panel; UInv, of the panels a window    *)
(* has, gets and loses.                                                    *)
(***************************************************************************)
EXTENDS Sessions

-----------------------------------------------------------------------------
(* What is subscribed to what (AInv).                                      *)

\* The shape of the sockets and of the sessions.
SocketFields == {"phase", "peer", "session", "doing", "queue", "requests"}

SocketsShaped == DOMAIN socket = Sockets /\ \A k \in Sockets : DOMAIN socket[k] = SocketFields

SubscribersTyped == \A s \in DOMAIN sessions :
    /\ s # None /\ DOMAIN sessions[s] = {"terminals", "subscriber"}
    /\ sessions[s].subscriber \in Sockets \cup {None}

\* A socket about to attach has no session.
Bound(step) == step.step = "attach" \/ (step.step = "detach" /\ step.next.step = "attach")
AttachesFree == \A k \in Sockets :
    /\ Bound(socket[k].doing) => socket[k].session = None
    /\ socket[k].doing.step = "detach" => socket[k].doing.next.step # "detach"

AInv == SocketsShaped /\ SubscribersTyped /\ AttachesFree /\ SubscriberAttached

-----------------------------------------------------------------------------
(* The panels, the wire and the queue as one stream (Flow).                *)

IsSeq(x) == \E S : x \in Seq(S)

Feeds(m, p)   == m.type = "data" /\ m.terminal = p
Adds(m, p)    == m.type = "opened" /\ m.terminal = p
Shows(m, p)   == \/ m.type = "base" /\ p \in DOMAIN m.panels
                 \/ m.type = "switched" /\ p \in m.terminals
                 \/ Adds(m, p) \/ Feeds(m, p)
Touches(m, p) == m.type = "switched" \/ Adds(m, p) \/ Feeds(m, p)

\* How much of terminal p a panel has that m shows.
Level(m, p) == IF m.type = "base" THEN Len(m.panels[p])
               ELSE IF m.type = "data" THEN m.chunks[Len(m.chunks)] ELSE 0

\* What comes for p at j, and starts with chunk n, goes on where what is shown then ends.
Joined(V, p, j, n) ==
    \A i \in 0..(j - 1) :
        Shows(V[i], p) /\ (\A l \in (i + 1)..(j - 1) : ~Touches(V[l], p)) => Level(V[i], p) + 1 = n

SoundAt(V, p, j) ==
    /\ Feeds(V[j], p) => Joined(V, p, j, V[j].chunks[1])
    /\ Adds(V[j], p) => \A i \in 0..(j - 1) : ~Shows(V[i], p)

Sound(V, n, p) == \A j \in 1..n : SoundAt(V, p, j)

Base(b) == [type |-> "base", panels |-> b]

Stream(b, x, y) ==
    [i \in 0..(Len(x) + Len(y)) |->
        IF i = 0 THEN Base(b) ELSE IF i <= Len(x) THEN x[i] ELSE y[i - Len(x)]]

Size(x, y) == Len(x) + Len(y)

\* Chunks one after the other.
Run(chunks) == \E a \in Nat : \E n \in Nat \ {0} : chunks = [i \in 1..n |-> a + i]
Fine(m)     == m.type # "base" /\ (m.type = "data" => Run(m.chunks))

Clean(b, x, y) ==
    /\ \A p \in DOMAIN b : Len(b[p]) \in Nat /\ b[p] = [i \in 1..Len(b[p]) |-> i]
    /\ \A i \in 1..Len(x) : Fine(x[i])
    /\ \A i \in 1..Len(y) : Fine(y[i]) /\ y[i].type \in {"data", "closed"}

Heading(do, s) ==
    \/ do.step = "attach" /\ do.session = s
    \/ do.step = "detach" /\ do.next.step = "attach" /\ do.next.session = s

\* What the session prints that k subscribes to comes next.
Reached(b, x, y, k, S, P) ==
    \A s \in DOMAIN S : S[s].subscriber = k =>
        \A p \in S[s].terminals : Joined(Stream(b, x, y), p, Size(x, y) + 1, P[p] + 1)

ShownIssued(b, x, y, I) ==
    \A i \in 0..Size(x, y) : \A p : Shows(Stream(b, x, y)[i], p) => p \in I \cap Terminals

\* Nothing waits in the queue of the session that k is about to attach to.
Unmixed(do, y, S) ==
    \A s \in DOMAIN S : Heading(do, s) =>
        \A p \in S[s].terminals : \A i \in 1..Len(y) : ~Feeds(y[i], p)

Flow(b, x, y, k, do, S, P, I) ==
    /\ Clean(b, x, y)
    /\ \A p : Sound(Stream(b, x, y), Size(x, y), p)
    /\ Reached(b, x, y, k, S, P)
    /\ ShownIssued(b, x, y, I)
    /\ Unmixed(do, y, S)

-----------------------------------------------------------------------------
(* One move at a time, and where the socket is (Controlled).               *)

Move(r)    == r.op \in {"switch", "close"}
Tell(m)    == m.type \in {"switched", "gone"}
Moving(do) == do.step \in {"detach", "attach", "destroy"}
NoMove(q)  == \A i \in 1..Len(q) : ~Move(q[i])
NoTell(x)  == \A i \in 1..Len(x) : ~Tell(x[i])
OneMove(q) == \A i, j \in 1..Len(q) : Move(q[i]) /\ Move(q[j]) => i = j
OneTell(x) == \A i, j \in 1..Len(x) : Tell(x[i]) /\ Tell(x[j]) => i = j

OneAtATime(q, do, x) ==
    /\ OneMove(q) /\ OneTell(x)
    /\ NoMove(q) \/ (~Moving(do) /\ NoTell(x))
    /\ Moving(do) => NoTell(x)

SessionAt(w) == Start.byId[w].session
Held         == DOMAIN Start.byId

\* The socket is attached to the workspace the window shows, or is about to; it is not
\* closed, and the window does not ask for it again.
Placed(w, ws, x) ==
    /\ \A i \in 1..Len(x) : x[i].type = "switched" => x[i].workspace = w
    /\ w = ws \/ \E i \in 1..Len(x) : x[i].type = "switched"
Closing(w, do, x) ==
    \/ do.step = "destroy" /\ do.workspace = w
    \/ do.step = "detach" /\ do.next.step = "destroy" /\ do.next.workspace = w
    \/ \E i \in 1..Len(x) : x[i].type = "gone" /\ x[i].workspace = w
Wanted(w, q) == \E i \in 1..Len(q) : q[i].op = "switch" /\ q[i].workspace = w

Settled(q, do, x, ses, ws) ==
    \A w \in Held : ses = SessionAt(w) =>
        Placed(w, ws, x) /\ ~Closing(w, do, x) /\ ~Wanted(w, q)

Destined(do) == do.workspace \in Held /\ do.session = SessionAt(do.workspace)
Sane(do) ==
    /\ do.step = "attach" => Destined(do)
    /\ do.step = "detach" =>
          \/ do.next.step = "destroy"
          \/ do.next.step = "attach" /\ Destined(do.next) /\ do.session # do.next.session

Controlled(q, do, x, ses, ws) == OneAtATime(q, do, x) /\ Settled(q, do, x, ses, ws) /\ Sane(do)

-----------------------------------------------------------------------------
(* A socket, the window that owns it, and the list (FInv).                 *)

TypedMessage(m) == m.type = "switched" => IsSeq(m.tabs) /\ IsFiniteSet(m.terminals)
TypedRequest(r) == r.op = "layout" => IsSeq(r.tabs)
TypedStep(do)   == do.step = "attach" => IsSeq(do.tabs)
TypedDoing(do)  == TypedStep(do) /\ (do.step = "detach" => TypedStep(do.next))

Messages(x) == IsSeq(x) /\ \A i \in 1..Len(x) : TypedMessage(x[i])
Wanting(q)  == IsSeq(q) /\ \A i \in 1..Len(q) : TypedRequest(q[i])
Queued(y)   == IsSeq(y) /\ \A i \in 1..Len(y) : y[i].type \in {"data", "closed"}

Neat(so, x) ==
    /\ Messages(x) /\ Queued(so.queue) /\ Wanting(so.requests) /\ TypedDoing(so.doing)
    /\ so.phase = "new" => so = NewSocket /\ x = <<>>

Good(g, so, x, k, S, P, I) ==
    /\ IsFiniteSet(DOMAIN g.panels)
    /\ Controlled(so.requests, so.doing, x, so.session, g.workspace)
    /\ Flow(g.panels, x, so.queue, k, so.doing, S, P, I)

Entry(r, w) == {"session", "tabs"} \subseteq DOMAIN r /\ r.session = SessionAt(w) /\ IsSeq(r.tabs)
Listed(l)   == /\ "byId" \in DOMAIN l /\ DOMAIN l.byId \subseteq Held
               /\ \A w \in DOMAIN l.byId : Entry(l.byId[w], w)

Issued(S, P, I) ==
    /\ DOMAIN P = Terminals /\ \A p \in Terminals : P[p] \in Nat /\ (p \notin I => P[p] = 0)
    /\ DOMAIN S \subseteq I /\ \A w \in Held : SessionAt(w) \in I
    /\ \A s \in DOMAIN S : S[s].terminals \subseteq I \cap Terminals /\ IsFiniteSet(S[s].terminals)
    /\ \A s, t \in DOMAIN S : \A p \in S[s].terminals : p \in S[t].terminals => s = t

GuiFields == {"socket", "booted", "workspace", "known", "panels", "opening", "switching"}

Shaped ==
    /\ DOMAIN wire = Sockets /\ DOMAIN gui = Clients
    /\ \A c \in Clients : DOMAIN gui[c] = GuiFields /\ gui[c].socket \in Sockets \cup {None}

AllNeat == \A k \in Sockets : Neat(socket[k], wire[k])

Owns(c, k) ==
    /\ socket[k].phase = "open" /\ socket[k].peer
    /\ \A d \in Clients : gui[d].socket = k => d = c
    /\ Good(gui[c], socket[k], wire[k], k, sessions, printed, issued)

Owned == \A c \in Clients : LET k == gui[c].socket
                            IN  IF k = None THEN DOMAIN gui[c].panels = {} ELSE Owns(c, k)

FInv == /\ AInv /\ Shaped /\ AllNeat /\ Owned
        /\ Issued(sessions, printed, issued) /\ Listed(list)

-----------------------------------------------------------------------------
(* The panels of the one window, and the shells it waits for (UInv).       *)

Asked(q) == {i \in 1..Len(q) : q[i].op = "open"}
Tells(m) == m.type = "opened" \/ (m.type = "error" /\ m.of = "open")
Told(x)  == {i \in 1..Len(x) : Tells(x[i])}

Closes(m, p) == m.type = "closed" /\ m.terminal = p
Makes(m, p)  == Adds(m, p) \/ (m.type = "switched" /\ p \in m.terminals)
Drops(m, p)  == Closes(m, p) \/ m.type = "switched"
Kills(r, p)  == r.op = "kill" /\ r.terminal = p

Sends(x) == \E m \in ToSet(x) : m.type = "switched"
Wants(q) == \E r \in ToSet(q) : r.op = "switch"
Opening(q)  == \E r \in ToSet(q) : r.op = "open"
Telling(x)  == \E m \in ToSet(x) : Tells(m)
Shut1(z, p) == \E m \in ToSet(z) : Closes(m, p)

\* With panels b, x on the wire and y in the queue, no panel stays whose terminal is not in L.
Vanishes(b, x, y, L) ==
    /\ \A p \in DOMAIN b : p \in L \/ (\E m \in ToSet(x) : Drops(m, p)) \/ Shut1(y, p)
    /\ \A i \in 1..Len(x) : \A p : Makes(x[i], p) =>
          p \in L \/ (\E j \in 1..Len(x) : i < j /\ Drops(x[j], p)) \/ Shut1(y, p)

\* Every terminal of L gets a panel and keeps it, or its end is asked for in q.
Appears(b, q, x, L) == \A p \in L :
    \/ \E r \in ToSet(q) : Kills(r, p)
    \/ p \in DOMAIN b /\ ~Sends(x)
    \/ \E i \in 1..Len(x) : Makes(x[i], p) /\ \A j \in 1..Len(x) : i < j => x[j].type # "switched"

\* A workspace that is closed is out of the list, and its session still there; one that
\* is attached to is in the list.
Ending(do, B, D) == do.step = "destroy" => /\ do.workspace \in Held \ B
                                           /\ do.session = SessionAt(do.workspace)
                                           /\ do.session \in D
Entering(do, B)  == do.step = "attach" => do.workspace \in B /\ do.session = SessionAt(do.workspace)
Doable(do, B, D) == Ending(do, B, D) /\ Entering(do, B)

\* The socket is the subscriber of its session, of which the workspace is not closed.
Attended(so, k, S, B) ==
    /\ so.session \in DOMAIN S => S[so.session].subscriber = k
    /\ \A w \in Held : so.session = SessionAt(w) => w \in B
    /\ Doable(so.doing, B, DOMAIN S)
    /\ so.doing.step = "detach" => /\ so.doing.next.step \in {"attach", "destroy"}
                                   /\ Doable(so.doing.next, B, DOMAIN S)
                                   /\ so.doing.next.step = "destroy" =>
                                          so.doing.session = so.doing.next.session

\* The socket has the session of the workspace the window shows, unless something is
\* under way; what the window knows of is in the list or about to go, and so is what it
\* switches to.
Spot(ws, known, q, do, x, ses, B) ==
    /\ \/ ws = None \/ (ws \in Held /\ ses = SessionAt(ws)) \/ Bound(do) \/ Sends(x)
       \/ Closing(ws, do, x)
    /\ \A m \in ToSet(x) : m.type = "switched" => m.workspace \in Held /\ ses = SessionAt(m.workspace)
    /\ \A w \in known : w \in B \/ Closing(w, do, x)
    /\ (\E w \in Held : ses = SessionAt(w)) =>
          \A r \in ToSet(q) : r.op = "switch" => r.workspace \in B

\* No shell is asked for, and none is reported, once a switch is under way.
OpensFirst(q) == \A i, j \in 1..Len(q) : i < j /\ q[i].op = "switch" => q[j].op # "open"
TellsFirst(x) == \A i, j \in 1..Len(x) : i < j /\ x[i].type = "switched" => ~Tells(x[j])
Tidy(q, do, x) == OpensFirst(q) /\ TellsFirst(x) /\ (Bound(do) \/ Sends(x) => ~Opening(q))

\* The panels come to be those of the terminals L; the window waits for n shells.
Dock(b, n, q, x, y, L) ==
    /\ Vanishes(b, x, y, L)
    /\ ~Wants(q) => /\ Appears(b, q, x, L)
                    /\ ~Sends(x) => Cardinality(Asked(q)) + Cardinality(Told(x)) <= n

View(g, so, x, S, B) ==
    /\ g.opening \in Nat
    /\ Spot(g.workspace, g.known, so.requests, so.doing, x, so.session, B)
    /\ Tidy(so.requests, so.doing, x)
    /\ \A w \in Held : so.session = SessionAt(w) =>
          Dock(g.panels, g.opening, so.requests, x, so.queue, S[so.session].terminals)

Opened(k) == socket[k].phase = "open"

\* One connection at a time.
Sole == \A k \in Sockets : Opened(k) =>
    /\ \A j \in Sockets : Opened(j) => j = k
    /\ socket[k].peer => \A c \in Clients : gui[c].socket = k

\* Each workspace of the list has its session.
Lasting == \A w \in DOMAIN list.byId : SessionAt(w) \in DOMAIN sessions

Tended(k) ==
    /\ Attended(socket[k], k, sessions, DOMAIN list.byId)
    /\ \A c \in Clients : gui[c].socket = k =>
          View(gui[c], socket[k], wire[k], sessions, DOMAIN list.byId)

UInv == Sole /\ Lasting /\ \A k \in Sockets : Opened(k) => Tended(k)
===============================================================================
