------------------------------ MODULE Sessions ------------------------------
(***************************************************************************)
(* The sessions of one daemon (session.rs), the sockets that attach to     *)
(* them (handle_socket of server.rs) and the windows behind the sockets    *)
(* (gui/workspace.rs): terminals that print and end, requests that switch, *)
(* close, open and kill, connections that are lost.                        *)
(*                                                                         *)
(* A socket serves its requests one by one, but a request takes the lock   *)
(* of the workspace list and the lock of the sessions one after the other, *)
(* and other sockets and terminals run in between.  Replies and the replay *)
(* go to the wire at once; what a terminal prints goes through the queue   *)
(* of the subscriber, which is drained between requests.                   *)
(*                                                                         *)
(* The n-th chunk a terminal prints is the number n, and scrollback keeps  *)
(* them all.  Left out: the copy of the layout that a session keeps for     *)
(* SessionAttach, which no window asks for, and editors: a restore is over *)
(* when its terminals are attached.                                        *)
(***************************************************************************)
EXTENDS WorkspaceList

CONSTANTS
    Clients,     \* windows
    Sockets,     \* connections; each is made once
    Start,       \* the list the daemon has loaded
    Ops,         \* what happens in this instance, see OpNames
    MaxAsked,    \* bound: what users ask for
    MaxPrinted   \* bound: chunks that terminals print

\* What users ask for; shells that end or do not start; connections that are lost,
\* noticed late by the daemon ("linger"); output that waits in a queue while the
\* next request is served ("backlog"); users who do not wait for the answer to a
\* switch or a close ("hasty").
OpNames == {"switch", "close", "open", "kill", "eof", "fail", "leave", "linger",
            "backlog", "hasty"}

ASSUME SessionsAssumption ==
    /\ Ops \subseteq OpNames /\ MaxAsked \in Nat /\ MaxPrinted \in Nat
    /\ IsList(Start) /\ DOMAIN Start = DOMAIN EmptyList /\ Consistent(Start)
    /\ Start.order # <<>>
    /\ None \notin Sockets \cup Terminals

VARIABLES
    list,      \* Inner of WorkspaceStore
    sessions,  \* Inner of SessionStore: the terminals and the subscriber of each
    issued,    \* ids given to terminals and sessions, never given again
    printed,   \* how much each terminal has printed
    socket,    \* handle_socket of each connection
    wire,      \* what the window of each connection has yet to receive
    gui,       \* the windows
    asked,     \* history: what users have asked for
    holder     \* history: the socket that attached to each session last

vars == <<list, sessions, issued, printed, socket, wire, gui, asked, holder>>

daemonVars == <<list, sessions, issued, printed, holder>>

\* What a handler has yet to do, at the next lock it takes.
Idle             == [step |-> "idle"]
Detaching(s, to) == [step |-> "detach", session |-> s, next |-> to]
Attaching(w, s, tabs) == [step |-> "attach", workspace |-> w, session |-> s, tabs |-> tabs]
Destroying(w, s, to)  == [step |-> "destroy", workspace |-> w, session |-> s, focus |-> to]
Noting(s, p)     == [step |-> "note", session |-> s, terminal |-> p]
Unnoting(s, p)   == [step |-> "unnote", session |-> s, terminal |-> p]

Error(of) == [type |-> "error", of |-> of]
Printed(p, chunks) == [type |-> "data", terminal |-> p, chunks |-> chunks]

\* Session::new.
NewSession(k) == [terminals |-> {}, subscriber |-> k]

\* peer: whether the window still has its end of the connection.
NewSocket == [phase |-> "new", peer |-> TRUE, session |-> None, doing |-> Idle,
              queue |-> <<>>, requests |-> <<>>]

\* panels: the terminals in the dock and what each has been fed.
Offline == [socket |-> None, booted |-> FALSE, workspace |-> None, known |-> {},
            panels |-> [p \in {} |-> <<>>], opening |-> 0, switching |-> FALSE]

TypeOK ==
    /\ IsList(list)
    /\ DOMAIN sessions \subseteq Sessions
    /\ \A s \in DOMAIN sessions : /\ sessions[s].terminals \subseteq Terminals
                                  /\ sessions[s].subscriber \in Sockets \cup {None}
    /\ issued \subseteq Sessions \cup Terminals
    /\ printed \in [Terminals -> 0..MaxPrinted]
    /\ \A k \in Sockets : /\ socket[k].phase \in {"new", "open", "closed"}
                          /\ socket[k].session \in Sessions \cup {None}
    /\ \A c \in Clients : /\ gui[c].socket \in Sockets \cup {None}
                          /\ gui[c].workspace \in Workspaces \cup {None}
                          /\ DOMAIN gui[c].panels \subseteq Terminals
                          /\ gui[c].opening \in Nat

Init ==
    /\ list = Start
    /\ sessions = [s \in {Start.byId[w].session : w \in DOMAIN Start.byId} |-> NewSession(None)]
    /\ issued = DOMAIN sessions
    /\ printed = [p \in Terminals |-> 0]
    /\ socket = [k \in Sockets |-> NewSocket]
    /\ wire = [k \in Sockets |-> <<>>]
    /\ gui = [c \in Clients |-> Offline]
    /\ asked = 0
    /\ holder = [s \in Sessions |-> None]

-----------------------------------------------------------------------------
\* SessionStore.
Live(s) == IF s \in DOMAIN sessions THEN sessions[s].terminals ELSE {}

\* emit: to the subscriber, if it still listens.
Emitted(sockets, s, message) ==
    LET k == sessions[s].subscriber
    IN  IF k = None \/ sockets[k].phase # "open" THEN sockets
        ELSE [sockets EXCEPT ![k].queue = Append(@, message)]

Unsubscribed(s) ==
    IF s \in DOMAIN sessions THEN [sessions EXCEPT ![s].subscriber = None] ELSE sessions

Replay(s) == {Printed(p, [i \in 1..printed[p] |-> i]) :
                 p \in {q \in sessions[s].terminals : printed[q] > 0}}

Switched(do) == [type |-> "switched", workspace |-> do.workspace, tabs |-> do.tabs,
                 terminals |-> sessions[do.session].terminals]

\* Mutant: the replay ahead of the reply that makes the panels.
AnswerLast(do) == SetToSeq(Replay(do.session)) \o <<Switched(do)>>

\* The replay follows the reply, so that the window has its panels.
Answer(do) == <<Switched(do)>> \o SetToSeq(Replay(do.session))

\* Mutant: the session is left without a subscriber, and stays.
Kept(s) == Unsubscribed(s)

\* destroy.
Destroyed(s) == Restrict(sessions, DOMAIN sessions \ {s})

\* A terminal prints ...
Prints(p) ==
    \E s \in DOMAIN sessions :
        /\ p \in sessions[s].terminals
        /\ SumFunction(printed) < MaxPrinted
        /\ printed' = [printed EXCEPT ![p] = @ + 1]
        /\ socket' = Emitted(socket, s, Printed(p, <<printed[p] + 1>>))
        /\ UNCHANGED <<list, sessions, issued, holder, wire, gui, asked>>

\* ... and ends, of which the workspace list hears nothing.
Ends(p) ==
    \E s \in DOMAIN sessions :
        /\ "eof" \in Ops /\ p \in sessions[s].terminals
        /\ sessions' = [sessions EXCEPT ![s].terminals = @ \ {p}]
        /\ socket' = Emitted(socket, s, [type |-> "closed", terminal |-> p])
        /\ UNCHANGED <<list, issued, printed, holder, wire, gui, asked>>

-----------------------------------------------------------------------------
\* handle_socket: a request is served when the one before it is done.
Request(k)     == Head(socket[k].requests)
Serving(k, op) == /\ socket[k].phase = "open" /\ socket[k].doing = Idle
                  /\ socket[k].requests # <<>> /\ Request(k).op = op
                  /\ socket[k].queue = <<>> \/ "backlog" \in Ops
At(k, step)    == socket[k].phase = "open" /\ socket[k].doing.step = step

\* The handler of k goes on to do something; what it replies is on the wire.
Goes(k, to)       == socket' = [socket EXCEPT ![k].requests = Tail(@), ![k].doing = to]
Reply(k, replies) == wire' = IF socket[k].peer THEN [wire EXCEPT ![k] = @ \o replies] ELSE wire
Refuse(k, of)     == Goes(k, Idle) /\ Reply(k, <<Error(of)>>)

\* Mutant: the session that is left keeps its subscriber.
Stay(prev, to) == to

\* session_id.take(): the session that is left loses its subscriber first.
Leaving(prev, to) == IF prev = None THEN to ELSE Detaching(prev, to)

\* WorkspaceSwitch: focus, leave the session the socket has, attach.
Switch(k) ==
    /\ Serving(k, "switch")
    /\ LET w    == Request(k).workspace
           prev == socket[k].session
       IN  IF ~Known(list, w) THEN Refuse(k, "switch") /\ UNCHANGED list
           ELSE LET attach == Attaching(w, list.byId[w].session, list.byId[w].tabs)
                IN  /\ list' = Focused(list, w)
                    /\ socket' = [socket EXCEPT
                          ![k].requests = Tail(@), ![k].session = None,
                          ![k].doing = Leaving(prev, attach)]
                    /\ UNCHANGED wire
    /\ UNCHANGED <<sessions, issued, printed, gui, asked, holder>>

\* detach_subscriber, whoever the subscriber is.
Detach(k) ==
    /\ At(k, "detach")
    /\ sessions' = Unsubscribed(socket[k].doing.session)
    /\ socket' = [socket EXCEPT ![k].doing = @.next]
    /\ UNCHANGED <<list, issued, printed, wire, gui, asked, holder>>

\* attach, under one lock with the scrollback that is replayed.
Attach(k) ==
    /\ At(k, "attach")
    /\ LET do == socket[k].doing
           s  == do.session
       IN  IF s \notin DOMAIN sessions
           THEN /\ Reply(k, <<Error("switch")>>)
                /\ socket' = [socket EXCEPT ![k].doing = Idle]
                /\ UNCHANGED <<sessions, holder>>
           ELSE /\ sessions' = [sessions EXCEPT ![s].subscriber = k]
                /\ holder' = [holder EXCEPT ![s] = k]
                /\ Reply(k, Answer(do))
                /\ socket' = [socket EXCEPT ![k].session = s, ![k].doing = Idle]
    /\ UNCHANGED <<list, issued, printed, gui, asked>>

\* WorkspaceClose: out of the list, then the session and its terminals.
CloseWorkspace(k) ==
    /\ Serving(k, "close")
    /\ LET w == Request(k).workspace
       IN  IF ~Known(list, w) \/ Len(list.order) <= 1 THEN Refuse(k, "close") /\ UNCHANGED list
           ELSE LET s == list.byId[w].session
                IN  /\ list' = Closed(list, w)
                    /\ socket' = [socket EXCEPT
                          ![k].requests = Tail(@),
                          ![k].session = IF @ = s THEN None ELSE @,
                          ![k].doing = Detaching(s, Destroying(w, s, Closed(list, w).focused))]
                    /\ UNCHANGED wire
    /\ UNCHANGED <<sessions, issued, printed, gui, asked, holder>>

Destroy(k) ==
    /\ At(k, "destroy")
    /\ LET do == socket[k].doing
       IN  /\ sessions' = Destroyed(do.session)
           /\ Reply(k, <<IF do.session \in DOMAIN sessions
                         THEN [type |-> "gone", workspace |-> do.workspace, focus |-> do.focus]
                         ELSE Error("close")>>)
    /\ socket' = [socket EXCEPT ![k].doing = Idle]
    /\ UNCHANGED <<list, issued, printed, gui, asked, holder>>

\* The sessions once socket k has one: s, which is new and whose subscriber it is, unless
\* it had one.
WithSession(k, s) ==
    IF socket[k].session # None THEN sessions
    ELSE [x \in DOMAIN sessions \cup {s} |->
             IF x = s THEN NewSession(k) ELSE sessions[x]]

\* PtyOpen: a socket without a session gets one of its own first.  The session
\* may be destroyed, the shell may not start, and the reply may not get out: then
\* no tab is noted.
OpenTerminal(k) ==
    /\ Serving(k, "open")
    /\ \E s \in IF socket[k].session # None THEN {socket[k].session} ELSE Sessions \ issued :
        LET fresh == socket[k].session = None
            had   == WithSession(k, s)
        IN  /\ holder' = IF fresh THEN [holder EXCEPT ![s] = k] ELSE holder
            /\ \/ /\ sessions' = had /\ issued' = issued \cup {s}
                  /\ s \notin DOMAIN had \/ "fail" \in Ops
                  /\ socket' = [socket EXCEPT ![k].requests = Tail(@), ![k].session = s]
                  /\ Reply(k, <<Error("open")>>)
               \/ \E p \in Terminals \ issued :
                  /\ s \in DOMAIN had
                  /\ sessions' = [had EXCEPT ![s].terminals = @ \cup {p}]
                  /\ issued' = issued \cup {s, p}
                  /\ \E to \in {Noting(s, p)} \cup IF socket[k].peer THEN {} ELSE {Idle} :
                        socket' = [socket EXCEPT ![k].requests = Tail(@), ![k].session = s,
                                                 ![k].doing = to]
                  /\ Reply(k, <<[type |-> "opened", terminal |-> p]>>)
    /\ UNCHANGED <<list, printed, gui, asked>>

\* note_terminal.
Note(k) ==
    /\ At(k, "note")
    /\ list' = WithTerminal(list, socket[k].doing.session, socket[k].doing.terminal)
    /\ socket' = [socket EXCEPT ![k].doing = Idle]
    /\ UNCHANGED <<sessions, issued, printed, wire, gui, asked, holder>>

\* PtyClose: the terminal is killed and its end told to the subscriber.
KillTerminal(k) ==
    /\ Serving(k, "kill")
    /\ LET p == Request(k).terminal
           s == socket[k].session
       IN  IF p \notin Live(s) THEN Refuse(k, "kill") /\ UNCHANGED sessions
           ELSE /\ sessions' = [sessions EXCEPT ![s].terminals = @ \ {p}]
                /\ socket' = Emitted([socket EXCEPT ![k].requests = Tail(@),
                                                    ![k].doing = Unnoting(s, p)],
                                     s, [type |-> "closed", terminal |-> p])
                /\ UNCHANGED wire
    /\ UNCHANGED <<list, issued, printed, gui, asked, holder>>

\* note_terminal_closed.
Unnote(k) ==
    /\ At(k, "unnote")
    /\ list' = WithoutTerminal(list, socket[k].doing.session, socket[k].doing.terminal)
    /\ socket' = [socket EXCEPT ![k].doing = Idle]
    /\ UNCHANGED <<sessions, issued, printed, wire, gui, asked, holder>>

\* WorkspaceLayoutSet.
SetLayout(k) ==
    /\ Serving(k, "layout")
    /\ LET r == Request(k)
       IN  IF Known(list, r.workspace)
           THEN /\ list' = LaidOut(list, r.workspace, r.tabs, 0, None)
                /\ Goes(k, Idle) /\ UNCHANGED wire
           ELSE Refuse(k, "layout") /\ UNCHANGED list
    /\ UNCHANGED <<sessions, issued, printed, gui, asked, holder>>

\* The select loop forwards what the subscription has queued.
Drain(k) ==
    /\ socket[k].phase = "open" /\ socket[k].doing = Idle /\ socket[k].queue # <<>>
    /\ socket' = [socket EXCEPT ![k].queue = Tail(@)]
    /\ Reply(k, <<Head(socket[k].queue)>>)
    /\ UNCHANGED <<list, sessions, issued, printed, gui, asked, holder>>

\* The stream has ended, or a send has failed: the socket detaches its session.
Disconnected(k) ==
    /\ socket[k].phase = "open" /\ socket[k].doing = Idle /\ ~socket[k].peer
    /\ sessions' = IF socket[k].session = None THEN sessions ELSE Unsubscribed(socket[k].session)
    /\ socket' = [socket EXCEPT ![k] = [NewSocket EXCEPT !.phase = "closed", !.peer = FALSE]]
    /\ UNCHANGED <<list, issued, printed, wire, gui, asked, holder>>

-----------------------------------------------------------------------------
\* A window.
Online(c) == gui[c].socket # None /\ gui[c].booted

\* publish_layout, not in the middle of a switch.
Layout(g)  == [op |-> "layout", workspace |-> g.workspace, tabs |-> SetToSeq(DOMAIN g.panels)]
Publish(g) == IF g.switching \/ g.workspace = None THEN <<>> ELSE <<Layout(g)>>

Opens(n)   == [i \in 1..n |-> [op |-> "open"]]

\* The window becomes g and sends its requests.
Becomes(c, g, requests) ==
    /\ gui' = [gui EXCEPT ![c] = g]
    /\ socket' = [socket EXCEPT ![g.socket].requests = @ \o requests]

\* A switch or a close is not answered yet.
UnderWay(c) ==
    LET k == gui[c].socket
    IN  \/ \E i \in DOMAIN socket[k].requests : socket[k].requests[i].op \in {"switch", "close"}
        \/ socket[k].doing.step \in {"detach", "attach", "destroy"}
        \/ \E i \in DOMAIN wire[k] : wire[k][i].type \in {"switched", "gone"}

Asks(c, g, requests) ==
    /\ Online(c) /\ asked < MaxAsked
    /\ "hasty" \in Ops \/ ~UnderWay(c)
    /\ asked' = asked + 1
    /\ Becomes(c, g, requests)
    /\ UNCHANGED <<daemonVars, wire>>

\* bootstrap_workspaces: the list, and a switch to one of it.  Without "linger"
\* the daemon has noticed the end of every connection before it.
Connect(c, k) ==
    /\ gui[c].socket = None /\ socket[k].phase = "new"
    /\ "linger" \in Ops \/ \A j \in Sockets : socket[j].phase = "open" => socket[j].peer
    /\ \E w \in DOMAIN list.byId :
          /\ socket' = [socket EXCEPT ![k].phase = "open",
                                      ![k].requests = <<[op |-> "switch", workspace |-> w]>>]
          /\ gui' = [gui EXCEPT ![c] = [Offline EXCEPT !.socket = k, !.switching = TRUE,
                                                       !.known = DOMAIN list.byId]]
    /\ UNCHANGED <<daemonVars, wire, asked>>

\* The connection is lost, or given up for another (reconnect).
Leave(c) ==
    /\ "leave" \in Ops /\ gui[c].socket # None /\ asked < MaxAsked
    /\ asked' = asked + 1
    /\ gui' = [gui EXCEPT ![c] = Offline]
    /\ \E last \in {<<>>, Publish(gui[c])} :
          socket' = [socket EXCEPT ![gui[c].socket].peer = FALSE,
                                   ![gui[c].socket].requests = @ \o last]
    /\ wire' = [wire EXCEPT ![gui[c].socket] = <<>>]
    /\ UNCHANGED daemonVars

\* switch_to: the layout that is left goes ahead of the switch.
SwitchTo(g, w) ==
    [g |-> [g EXCEPT !.switching = TRUE, !.opening = 0],
     requests |-> Publish(g) \o <<[op |-> "switch", workspace |-> w]>>]

AskSwitch(c, w) ==
    /\ "switch" \in Ops /\ w \in gui[c].known \ {gui[c].workspace}
    /\ LET to == SwitchTo(gui[c], w) IN Asks(c, to.g, to.requests)

AskClose(c, w) ==
    /\ "close" \in Ops /\ w \in gui[c].known /\ Cardinality(gui[c].known) > 1
    /\ Asks(c, gui[c], <<[op |-> "close", workspace |-> w]>>)

AskTerminal(c) ==
    /\ "open" \in Ops
    /\ Asks(c, [gui[c] EXCEPT !.opening = @ + 1], Opens(1))

Shut(g, p) == [g EXCEPT !.panels = Restrict(@, DOMAIN @ \ {p})]
Kill(p)    == [op |-> "kill", terminal |-> p]

\* Mutant: the layout without the panel is not published.
ForgetQuietly(g, p) == <<Kill(p)>>

\* Panel p of g has gone: it asks for the terminal's end, whatever took it away.
Forget(g, p) == <<Kill(p)>> \o Publish(g)

AskKill(c, p) ==
    /\ "kill" \in Ops /\ p \in DOMAIN gui[c].panels
    /\ LET g == Shut(gui[c], p) IN Asks(c, g, Forget(g, p))

\* The next event of the window.
Event(c)        == Head(wire[gui[c].socket])
Hears(c, type)  == /\ gui[c].socket # None /\ wire[gui[c].socket] # <<>>
                   /\ Event(c).type = type
                   /\ wire' = [wire EXCEPT ![gui[c].socket] = Tail(@)]
                   /\ UNCHANGED <<daemonVars, asked>>

\* Mutant: only the terminals the tabs name.
ShownTabs(m) == m.terminals \cap ToSet(m.tabs)

\* restore_plan: the terminals the tabs name, and the orphans.
Shown(m) == m.terminals

\* restore_workspace: a panel for every terminal that lives, named by a tab or
\* not, a new shell for every tab whose terminal is gone, one if there is none.
OnSwitched(c) ==
    /\ Hears(c, "switched")
    /\ LET m    == Event(c)
           dead == Cardinality({i \in DOMAIN m.tabs : m.tabs[i] \notin m.terminals})
           n    == IF m.terminals = {} /\ dead = 0 THEN 1 ELSE dead
           g    == [gui[c] EXCEPT !.booted = TRUE, !.workspace = m.workspace,
                                  !.panels = [p \in Shown(m) |-> <<>>],
                                  !.opening = n, !.switching = FALSE]
       IN  Becomes(c, g, Opens(n) \o IF m.terminals = {} THEN <<>> ELSE Publish(g))

\* Mutant: whether it waits for one or not.
Unawaited(g) == TRUE

Awaited(g) == g.opening > 0

\* Only a terminal that the window waits for gets a panel.
OnOpened(c) ==
    /\ Hears(c, "opened")
    /\ LET p == Event(c).terminal
           g == [gui[c] EXCEPT !.opening = @ - 1,
                    !.panels = [q \in DOMAIN @ \cup {p} |-> IF q = p THEN <<>> ELSE @[q]]]
       IN  IF Awaited(gui[c]) THEN Becomes(c, g, Publish(g))
           ELSE UNCHANGED <<gui, socket>>

OnData(c) ==
    /\ Hears(c, "data")
    /\ LET p == Event(c).terminal
       IN  gui' = IF p \notin DOMAIN gui[c].panels THEN gui
                  ELSE [gui EXCEPT ![c].panels[p] = @ \o Event(c).chunks]
    /\ UNCHANGED socket

\* The panel goes, and like every panel that goes it asks for the terminal's end.
OnClosed(c) ==
    /\ Hears(c, "closed")
    /\ LET p == Event(c).terminal
           g == Shut(gui[c], p)
       IN  IF p \notin DOMAIN gui[c].panels THEN UNCHANGED <<gui, socket>>
           ELSE Becomes(c, g, Forget(g, p))

\* A window that closed its own workspace switches to the one in focus.
OnGone(c) ==
    /\ Hears(c, "gone")
    /\ LET m    == Event(c)
           g    == [gui[c] EXCEPT !.known = @ \ {m.workspace}]
           bare == [g EXCEPT !.workspace = None, !.panels = [p \in {} |-> <<>>],
                             !.opening = 0, !.switching = FALSE]
           to   == SwitchTo(bare, m.focus)
       IN  IF gui[c].workspace # m.workspace THEN Becomes(c, g, <<>>)
           ELSE Becomes(c, to.g, to.requests)

\* Mutant: the switch that failed is still waited for.
FailedWaiting(g, of) == IF of = "open" /\ g.opening > 0 THEN [g EXCEPT !.opening = @ - 1] ELSE g

Failed(g, of) == [g EXCEPT !.switching = FALSE,
                           !.opening = IF of = "open" /\ @ > 0 THEN @ - 1 ELSE @]

\* Whatever has failed, a switch is no longer waited for.  A window whose first
\* switch fails gives up.
OnError(c) ==
    /\ Hears(c, "error")
    /\ IF gui[c].booted THEN Becomes(c, Failed(gui[c], Event(c).of), <<>>)
       ELSE /\ gui' = [gui EXCEPT ![c] = Offline]
            /\ socket' = [socket EXCEPT ![gui[c].socket].peer = FALSE]

-----------------------------------------------------------------------------
Serves(k) ==
    \/ Switch(k) \/ Detach(k) \/ Attach(k) \/ CloseWorkspace(k) \/ Destroy(k)
    \/ OpenTerminal(k) \/ Note(k) \/ KillTerminal(k) \/ Unnote(k) \/ SetLayout(k)
    \/ Drain(k) \/ Disconnected(k)

Receives(c) == \/ OnSwitched(c) \/ OnOpened(c) \/ OnData(c) \/ OnClosed(c) \/ OnGone(c)
               \/ OnError(c)

User(c) ==
    \/ \E k \in Sockets : Connect(c, k)
    \/ Leave(c) \/ AskTerminal(c)
    \/ \E w \in Workspaces : AskSwitch(c, w) \/ AskClose(c, w)
    \/ \E p \in Terminals : AskKill(c, p)

Next ==
    \/ \E k \in Sockets : Serves(k)
    \/ \E c \in Clients : Receives(c) \/ User(c)
    \/ \E p \in Terminals : Prints(p) \/ Ends(p)

Spec == Init /\ [][Next]_vars

\* The tasks of the sockets run, and so do the windows.
Fairness == /\ \A k \in Sockets : WF_vars(Serves(k))
            /\ \A c \in Clients : WF_vars(Receives(c))

FairSpec == Spec /\ Fairness

-----------------------------------------------------------------------------
\* Nothing is on its way between the window and its session.
Quiet(c) ==
    /\ Online(c)
    /\ LET k == gui[c].socket
       IN  /\ wire[k] = <<>> /\ socket[k].queue = <<>> /\ socket[k].requests = <<>>
           /\ socket[k].doing = Idle

SessionOf(c) == IF Known(list, gui[c].workspace) THEN list.byId[gui[c].workspace].session
                ELSE None

\* The window was the last to attach to the session of the workspace it shows.
Holds(c) == SessionOf(c) # None /\ holder[SessionOf(c)] = gui[c].socket

\* What a panel has been fed is what its terminal printed, from the start, each
\* chunk once and in order: replay and live output join without a seam.
InOrder ==
    \A c \in Clients : \A p \in DOMAIN gui[c].panels :
        gui[c].panels[p] = [i \in 1..Len(gui[c].panels[p]) |-> i]

\* Output reaches the last window to attach: once nothing is on its way, it has
\* a panel for every terminal of its session, with all that it printed
\* (session.rs: "PTYs survive WebSocket disconnect").
UpToDate ==
    \A c \in Clients : Quiet(c) /\ Holds(c) =>
        /\ DOMAIN gui[c].panels = Live(SessionOf(c))
        /\ \A p \in DOMAIN gui[c].panels : Len(gui[c].panels[p]) = printed[p]

\* When the windows are quiet the tabs of a workspace name its terminals and no
\* others, whether they were killed, ended or opened meanwhile.
TabsNameTerminals ==
    \A c \in Clients : Quiet(c) /\ Holds(c) =>
        ToSet(list.byId[gui[c].workspace].tabs) = Live(SessionOf(c))

\* The socket of a session's subscriber is attached to it or about to leave it:
\* no window is sent what a session it does not show prints.
SubscriberAttached ==
    \A s \in DOMAIN sessions :
        LET k == sessions[s].subscriber
        IN  k # None => \/ socket[k].session = s
                        \/ socket[k].doing.step = "detach" /\ socket[k].doing.session = s

\* Every terminal belongs to a workspace of the list, or to one that is being
\* closed: no shell is left where no window can show or end it
\* (workspace.rs: "Each workspace owns an ADE session: PTYs").
NoStrayTerminal ==
    \A s \in DOMAIN sessions : sessions[s].terminals # {} =>
        \/ list.bySession[s] # None
        \/ \E k \in Sockets : LET do == socket[k].doing
                              IN  \/ do.step = "destroy" /\ do.session = s
                                  \/ do.step = "detach" /\ do.next = Idle
                                  \/ do.step = "detach" /\ do.next.step = "destroy"
                                     /\ do.session = s

\* A window that switches comes to show a workspace or to be told why not.
SwitchAnswered == \A c \in Clients : gui[c].switching ~> ~gui[c].switching

\* Terminals and the tabs that name them agree, and none is left without a workspace.
TerminalsNamed == TypeOK /\ TabsNameTerminals /\ NoStrayTerminal
=============================================================================
