------------------------------ MODULE Connection ------------------------------
(***************************************************************************)
(* A window and its way to the daemon (gui/workspace.rs, gui/ade.rs): the  *)
(* client threads it starts, one after the other, of which each connects,  *)
(* attaches to a workspace and reports what becomes of it; the commands    *)
(* that reconnect, disconnect, restart and stop; and the jobs of the last  *)
(* two, which end long after the window has gone on.                       *)
(*                                                                         *)
(* A daemon is a number; an endpoint leads to it while the daemon runs, and *)
(* for a remote one while the tunnel does.  What a connection carries is    *)
(* left out, and the drafts a command waits for (TabClosing).              *)
(***************************************************************************)
EXTENDS Naturals, Sequences

CONSTANTS
    Kinds,       \* of "local", "remote" and "external", what the window may be on
    None,        \* no daemon
    Ops,         \* what happens in this instance, see OpNames
    MaxCommands, \* bound: commands of the user
    MaxFaults    \* bound: what goes wrong

\* Commands; daemons that die, jobs and attachments that fail, tunnels that die; commands
\* while the window is connecting ("early") or while a job is under way ("overlap"); a
\* host that accepts and says nothing ("silent").
OpNames == {"reconnect", "disconnect", "restart", "stop", "crash", "fail", "drop",
            "early", "overlap", "silent"}

VARIABLES
    kind,      \* what the window is on
    daemon,    \* the daemon of that host, or None
    tunnel,    \* whether the endpoint still leads to the host
    target,    \* the daemon whose address and token the window has
    conn,      \* connection: "connecting", "online" or "offline"
    wanted,    \* history: whether the user has last asked for a connection
    threads,   \* the client threads: how far, told to end, and the events to come
    jobs,      \* restarts and stops that are under way
    born, commands, faults   \* how much has happened

world == <<daemon, tunnel, born>>
vars == <<kind, daemon, tunnel, target, conn, wanted, threads, jobs, born, commands, faults>>

Current == Len(threads)

\* No command starts more than one.
MaxThreads == MaxCommands + 1

\* spawn: a thread with the target of the window.
Thread(t) == [at |-> "start", target |-> t, quit |-> FALSE, events |-> <<>>]

Init ==
    /\ kind \in Kinds
    /\ daemon = 1 /\ tunnel = TRUE /\ target = 1 /\ born = 1
    /\ conn = "connecting" /\ wanted = TRUE
    /\ threads = <<Thread(1)>> /\ jobs = <<>> /\ commands = 0 /\ faults = 0

Fault(op) == op \in Ops /\ faults < MaxFaults /\ faults' = faults + 1

-----------------------------------------------------------------------------
\* The client thread.
Becomes(g, at, events) ==
    threads' = [threads EXCEPT ![g].at = at, ![g].events = @ \o events]

Window == <<kind, target, conn, wanted, jobs, commands>>

Leads(t) == tunnel /\ daemon = t

StartThread(g) ==
    /\ threads[g].at = "start"
    /\ Becomes(g, "dial", <<"connecting">>)
    /\ UNCHANGED <<world, Window, faults>>

\* Client::connect: the greeting and the token.
Dial(g) ==
    /\ threads[g].at = "dial"
    /\ \/ Leads(threads[g].target) /\ Becomes(g, "boot", <<>>)
       \/ ~Leads(threads[g].target) /\ Becomes(g, "gone", <<"disconnected">>)
    /\ UNCHANGED <<world, Window, faults>>

\* A host that accepts the connection, and no more.
Hang(g) ==
    /\ threads[g].at = "dial" /\ Fault("silent")
    /\ Becomes(g, "hung", <<>>)
    /\ UNCHANGED <<world, Window>>

\* bootstrap_workspaces: list, perhaps create, switch; any of them may be refused.
Boot(g) ==
    /\ threads[g].at = "boot"
    /\ \/ Leads(threads[g].target) /\ Becomes(g, "open", <<"connected">>) /\ UNCHANGED faults
       \/ ~Leads(threads[g].target) /\ Becomes(g, "gone", <<"disconnected">>) /\ UNCHANGED faults
       \/ Fault("fail") /\ Becomes(g, "gone", <<"disconnected">>)
    /\ UNCHANGED <<world, Window>>

\* The loop ends without a word when it is told to, with one when the socket ends.
Quit(g) ==
    /\ threads[g].at = "open" /\ threads[g].quit
    /\ Becomes(g, "gone", <<>>)
    /\ UNCHANGED <<world, Window, faults>>

\* Mutant: the end of the socket is not reported.
LoseSilently(g) ==
    /\ threads[g].at = "open" /\ ~Leads(threads[g].target)
    /\ Becomes(g, "gone", <<>>)
    /\ UNCHANGED <<world, Window, faults>>

Lose(g) ==
    /\ threads[g].at = "open" /\ ~Leads(threads[g].target)
    /\ Becomes(g, "gone", <<"disconnected">>)
    /\ UNCHANGED <<world, Window, faults>>

-----------------------------------------------------------------------------
\* The window.

\* handle_event, of the last thread only: the receivers of the others are gone.
HandleEvent ==
    /\ threads[Current].events # <<>>
    /\ threads' = [threads EXCEPT ![Current].events = Tail(@)]
    /\ conn' = CASE Head(threads[Current].events) = "connecting" -> "connecting"
                 [] Head(threads[Current].events) = "connected" -> "online"
                 [] Head(threads[Current].events) = "disconnected" -> "offline"
    /\ UNCHANGED <<world, kind, target, wanted, jobs, commands, faults>>

\* AdeCmd::Disconnect.
Told == [threads EXCEPT ![Current].quit = TRUE]

\* reconnect.
Reconnected(t) ==
    /\ threads' = Append(Told, Thread(t)) /\ conn' = "connecting"

Asks(op) ==
    /\ op \in Ops /\ commands < MaxCommands /\ commands' = commands + 1
    /\ "early" \in Ops \/ threads[Current].at \in {"open", "gone", "hung"}
    /\ "early" \in Ops \/ threads[Current].events = <<>>
    /\ "overlap" \in Ops \/ jobs = <<>>

OnReconnect ==
    /\ Asks("reconnect") /\ wanted' = TRUE
    /\ Reconnected(target)
    /\ UNCHANGED <<world, kind, target, jobs, faults>>

\* Mutant: the thread is not told.
OnDisconnectOnly ==
    /\ Asks("disconnect") /\ wanted' = FALSE
    /\ conn' = "offline"
    /\ UNCHANGED <<world, kind, target, threads, jobs, faults>>

OnDisconnect ==
    /\ Asks("disconnect") /\ wanted' = FALSE
    /\ threads' = Told /\ conn' = "offline"
    /\ UNCHANGED <<world, kind, target, jobs, faults>>

Job(what, at) == [what |-> what, at |-> at, result |-> None]

\* on_restart_server: an endpoint of somebody else is only connected to again.
OnRestartServer ==
    /\ Asks("restart") /\ wanted' = TRUE
    /\ IF kind = "external"
       THEN Reconnected(target) /\ UNCHANGED jobs
       ELSE /\ threads' = Told /\ conn' = "offline"
            /\ jobs' = Append(jobs, Job("restart", IF kind = "remote" THEN "cut" ELSE "close"))
    /\ UNCHANGED <<world, kind, target, faults>>

\* on_stop_server: the remote daemon is left alone, the local one closed.  On an endpoint
\* of somebody else that is the local daemon too, which is none of this window's.
OnStopServer ==
    /\ Asks("stop") /\ wanted' = FALSE
    /\ threads' = Told /\ conn' = "offline"
    /\ jobs' = IF kind = "remote" THEN jobs
               ELSE Append(jobs, Job("stop", "close"))
    /\ UNCHANGED <<world, kind, target, faults>>

-----------------------------------------------------------------------------
\* The jobs.
Step(j, at, result) == jobs' = [jobs EXCEPT ![j].at = at, ![j].result = result]

\* RemoteControlHandle::restart lets the old tunnel go, and its probe may fail after that.
CutTunnel(j) ==
    /\ jobs[j].at = "cut"
    /\ tunnel' = FALSE
    /\ \/ Step(j, "close", None) /\ UNCHANGED faults
       \/ Step(j, "done", None) /\ Fault("fail")
    /\ UNCHANGED <<kind, daemon, target, conn, wanted, threads, born, commands>>

\* close_local_daemon, or `close` over ssh.
Close(j) ==
    /\ jobs[j].at = "close"
    /\ \/ /\ daemon' = IF kind = "external" THEN daemon ELSE None
          /\ Step(j, IF jobs[j].what = "stop" THEN "done" ELSE "start", None)
          /\ UNCHANGED faults
       \/ Step(j, "done", None) /\ Fault("fail") /\ UNCHANGED daemon
    /\ UNCHANGED <<kind, tunnel, target, conn, wanted, threads, born, commands>>

\* ensure_local_session, or bootstrap: the daemon that runs, or a new one.
Start(j) ==
    /\ jobs[j].at = "start"
    /\ \/ /\ daemon' = IF daemon # None THEN daemon ELSE born + 1
          /\ born' = IF daemon # None THEN born ELSE born + 1
          /\ tunnel' = TRUE
          /\ Step(j, "done", daemon') /\ UNCHANGED faults
       \/ Step(j, "done", None) /\ Fault("fail") /\ UNCHANGED <<daemon, born, tunnel>>
    /\ UNCHANGED <<kind, target, conn, wanted, threads, commands>>

Ended(j) == SubSeq(jobs, 1, j - 1) \o SubSeq(jobs, j + 1, Len(jobs))

\* Mutant: the window connects to the address it had.
JobEndsOld(j) ==
    /\ jobs[j].at = "done" /\ jobs' = Ended(j)
    /\ IF jobs[j].what = "restart" /\ jobs[j].result # None
       THEN Reconnected(target) /\ UNCHANGED target
       ELSE conn' = "offline" /\ UNCHANGED <<target, threads>>
    /\ UNCHANGED <<world, kind, wanted, commands, faults>>

\* The result, whatever the window has done since.
JobEnds(j) ==
    /\ jobs[j].at = "done" /\ jobs' = Ended(j)
    /\ IF jobs[j].what = "restart" /\ jobs[j].result # None
       THEN target' = jobs[j].result /\ Reconnected(jobs[j].result)
       ELSE conn' = "offline" /\ UNCHANGED <<target, threads>>
    /\ UNCHANGED <<world, kind, wanted, commands, faults>>

-----------------------------------------------------------------------------
Crash ==
    /\ daemon # None /\ Fault("crash") /\ daemon' = None
    /\ UNCHANGED <<tunnel, born, Window, threads>>

\* The ssh -N of the window ends, with the network or by itself; nothing starts it again.
Drop ==
    /\ kind = "remote" /\ tunnel /\ Fault("drop") /\ tunnel' = FALSE
    /\ UNCHANGED <<daemon, born, Window, threads>>

ThreadSteps == \E g \in DOMAIN threads :
    StartThread(g) \/ Dial(g) \/ Boot(g) \/ Quit(g) \/ Lose(g)
JobSteps == \E j \in DOMAIN jobs : CutTunnel(j) \/ Close(j) \/ Start(j) \/ JobEnds(j)

Next ==
    \/ ThreadSteps \/ HandleEvent \/ JobSteps
    \/ OnReconnect \/ OnDisconnect \/ OnRestartServer \/ OnStopServer
    \/ Crash \/ Drop \/ \E g \in DOMAIN threads : Hang(g)

Spec == Init /\ [][Next]_vars

\* Threads and jobs run on, the window handles what it gets; nobody has to ask anything.
Fairness ==
    /\ \A g \in 1..MaxThreads : WF_vars(g \in DOMAIN threads /\
            (StartThread(g) \/ Dial(g) \/ Boot(g) \/ Quit(g) \/ Lose(g)))
    /\ WF_vars(HandleEvent) /\ WF_vars(JobSteps)

FairSpec == Spec /\ Fairness

-----------------------------------------------------------------------------
\* A window that says it is online is: its thread serves the connection, or has already
\* sent word of its end (ade_loop, which ends in silence when it is told to).
OnlineIsServed ==
    conn = "online" =>
        \/ threads[Current].at = "open" /\ ~threads[Current].quit
        \/ \E i \in DOMAIN threads[Current].events :
              threads[Current].events[i] = "disconnected"

\* As long as nothing goes wrong, a user who wants a connection to a daemon that runs
\* has one in the end, also to the new daemon after a restart, whose address and token
\* are others (on_restart_server).
RestartArrives ==
    [](faults = 0) =>
        (wanted /\ daemon # None ~> conn = "online" \/ ~wanted \/ daemon = None)

\* A window that was disconnected, or whose server was stopped, leaves in the end: none
\* of its threads stays connected, until the user wants it to.
Leaves == ~wanted ~> wanted \/ \A g \in DOMAIN threads : threads[g].at = "gone"

\* The window comes to be connected, or not, as the user last asked for.
Liveness == RestartArrives /\ Leaves
=============================================================================
