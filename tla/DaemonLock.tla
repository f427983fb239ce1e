------------------------------ MODULE DaemonLock ------------------------------
(***************************************************************************)
(* The daemon of a user as its commands see it (daemon/mod.rs, unix.rs,    *)
(* main.rs, and launch.rs of the client): one process that holds the lock  *)
(* file and names itself in session.json, and commands that look there,    *)
(* spawn it, wait for it and stop it.  The lock goes with its process, the *)
(* file has to be removed, by the daemon that stops or by the next command *)
(* that finds nobody behind it.                                            *)
(*                                                                         *)
(* Process ids are not used twice, except by strangers.  Ports, tokens and *)
(* what the daemon does once it serves are left out (Sessions has that).   *)
(***************************************************************************)
EXTENDS Naturals

CONSTANTS
    Commands,   \* the shells and windows a user runs commands in
    None,       \* no session.json
    Ops,        \* what happens in this instance, see OpNames
    MaxPids,    \* bound: processes, the first being that of an earlier daemon
    MaxRuns     \* bound: commands

\* Commands of the user; a daemon that dies, or fails to start; a stop or a start that
\* takes longer than it is waited for; the process id of a dead daemon given to another
\* process; a start or status while a close is under way, and the other way around
\* ("overlap"); other commands between the look at a process and the removal of its
\* file ("race").
OpNames == {"start", "ensure", "status", "close", "crash", "fail", "slow", "reuse",
            "overlap", "race"}

Pids == 1..MaxPids

Kinds == {"start", "ensure", "status", "close"}

LockAssumption ==
    /\ None \notin Pids /\ None \notin Kinds /\ Ops \subseteq OpNames
    /\ MaxPids \in Nat \ {0} /\ MaxRuns \in Nat

VARIABLES
    proc,      \* what each process has come to
    meta,      \* session.json: the process it names
    asked,     \* the processes that a close has signalled
    cmd,       \* the command of each shell: how far it is, and the process it is about
    runs,      \* how many commands there have been
    trouble    \* whether a daemon died or failed, or somebody gave up

vars == <<proc, meta, asked, cmd, runs, trouble>>

\* A daemon: spawned, has the lock, its editor and list loaded, its file written, serves,
\* shuts down, its list saved, its file removed.  A process of another program.
Running == {"spawned", "locked", "loaded", "published", "serving", "stopping", "saved",
            "removed", "stranger"}
Holding == Running \ {"spawned", "stranger"}

Idle == [kind |-> None, at |-> "idle", pid |-> None]

Init ==
    /\ proc = [p \in Pids |-> IF p = 1 THEN "gone" ELSE "unborn"]
    /\ meta \in {None, 1}
    /\ asked = {} /\ cmd = [c \in Commands |-> Idle] /\ runs = 0 /\ trouble = FALSE

\* is_process_running.
Alive(p) == proc[p] \in Running

\* Nobody is between a look at the process and the removal of the file.
Settled == "race" \in Ops \/ \A c \in Commands : cmd[c].at # "stale"

-----------------------------------------------------------------------------
\* The commands.
Become(c, kind, at, pid) == cmd' = [cmd EXCEPT ![c] = [kind |-> kind, at |-> at, pid |-> pid]]
Ends(c)                  == cmd' = [cmd EXCEPT ![c] = Idle]

\* Closes and starts keep apart, down to the last process spawned.
Apart(kind) == \/ "overlap" \in Ops
               \/ /\ \A c \in Commands : cmd[c].kind # None =>
                        (cmd[c].kind = "close") = (kind = "close")
                  /\ kind = "close" => \A p \in Pids : proc[p] # "spawned"

Run(c, kind) ==
    /\ kind \in Ops /\ runs < MaxRuns /\ runs' = runs + 1
    /\ cmd[c] = Idle /\ Settled /\ Apart(kind)
    /\ Become(c, kind, "look", None)
    /\ UNCHANGED <<proc, meta, asked, trouble>>

\* The parent of a daemon waits for it; a window asks for the status and then for a start.
SpawnDaemon(c) ==
    \E p \in Pids :
        /\ proc[p] = "unborn" /\ \A q \in 1..(p - 1) : proc[q] # "unborn"
        /\ proc' = [proc EXCEPT ![p] = "spawned"]
        /\ Become(c, "start", "waiting", p)

NoSession(c) ==
    \/ cmd[c].kind = "start" /\ cmd[c].at # "waiting" /\ SpawnDaemon(c)
    \/ cmd[c].kind = "ensure" /\ Become(c, "start", "look", None) /\ UNCHANGED proc
    \/ cmd[c].kind \in {"status", "close"} /\ Ends(c) /\ UNCHANGED proc

\* SIGTERM: before the server has its handler it ends the process, and any other one.
Signalled(p) == IF proc[p] \in {"serving", "stopping", "saved", "removed"} THEN proc[p] ELSE "gone"

\* read_meta, and what the command does if it names a process that runs.
Look(c) ==
    /\ cmd[c].at = "look" /\ Settled
    /\ \/ meta = None /\ NoSession(c) /\ UNCHANGED asked
       \/ /\ meta # None /\ ~Alive(meta)
          /\ Become(c, cmd[c].kind, "stale", meta) /\ UNCHANGED <<proc, asked>>
       \/ /\ meta # None /\ Alive(meta) /\ cmd[c].kind # "close"
          /\ Ends(c) /\ UNCHANGED <<proc, asked>>
       \/ /\ meta # None /\ Alive(meta) /\ cmd[c].kind = "close"
          /\ Become(c, "close", "closing", meta)
          /\ asked' = asked \cup {meta} /\ proc' = [proc EXCEPT ![meta] = Signalled(meta)]
    /\ UNCHANGED <<meta, runs, trouble>>

\* remove_session_files: whatever the file names by now.
RemoveStale(c) ==
    /\ cmd[c].at = "stale"
    /\ meta' = None
    /\ NoSession(c)
    /\ UNCHANGED <<asked, runs, trouble>>

\* Mutant: it waits for its own child.
WaitOwn(c) ==
    /\ cmd[c].at = "waiting" /\ Settled
    /\ \/ meta = cmd[c].pid /\ proc[meta] = "serving" /\ Ends(c) /\ UNCHANGED meta
       \/ meta # None /\ ~Alive(meta) /\ meta' = None /\ UNCHANGED cmd
    /\ UNCHANGED <<proc, asked, runs, trouble>>

\* wait_until_ready: for any daemon that is named and answers.
Wait(c) ==
    /\ cmd[c].at = "waiting" /\ Settled
    /\ \/ meta # None /\ Alive(meta) /\ proc[meta] = "serving" /\ Ends(c) /\ UNCHANGED meta
       \/ meta # None /\ ~Alive(meta) /\ meta' = None /\ UNCHANGED cmd
    /\ UNCHANGED <<proc, asked, runs, trouble>>

WaitGivenUp(c) ==
    /\ "slow" \in Ops /\ cmd[c].at = "waiting" /\ Settled /\ Ends(c) /\ trouble' = TRUE
    /\ UNCHANGED <<proc, meta, asked, runs>>

\* close_session polls until the process is gone; then it removes the file.
Closed(c) ==
    /\ cmd[c].at = "closing" /\ Settled /\ ~Alive(cmd[c].pid)
    /\ meta' = None /\ Ends(c)
    /\ UNCHANGED <<proc, asked, runs, trouble>>

\* ... or kills it.
ForceKill(c) ==
    /\ "slow" \in Ops /\ cmd[c].at = "closing" /\ Settled /\ Alive(cmd[c].pid)
    /\ proc' = [proc EXCEPT ![cmd[c].pid] = "gone"]
    /\ UNCHANGED <<meta, asked, cmd, runs, trouble>>

-----------------------------------------------------------------------------
\* The daemon.
Goes(p, from, to) == /\ Settled /\ proc[p] = from /\ proc' = [proc EXCEPT ![p] = to]
                     /\ UNCHANGED <<asked, cmd, runs>>

\* Mutant: the lock is only tried when the server is there.
TryAcquireLate(p) == Goes(p, "spawned", "locked") /\ UNCHANGED <<meta, trouble>>

\* try_acquire: one process has the lock until it ends.
TryAcquire(p) ==
    /\ Goes(p, "spawned", IF \E q \in Pids : proc[q] \in Holding THEN "gone" ELSE "locked")
    /\ UNCHANGED <<meta, trouble>>

Load(p) == Goes(p, "locked", "loaded") /\ UNCHANGED <<meta, trouble>>

Fail(p) == "fail" \in Ops /\ Goes(p, "locked", "gone") /\ trouble' = TRUE /\ UNCHANGED meta

WriteMeta(p) == Goes(p, "loaded", "published") /\ meta' = p /\ UNCHANGED trouble

Serve(p) == Goes(p, "published", "serving") /\ UNCHANGED <<meta, trouble>>

Stop(p)  == p \in asked /\ Goes(p, "serving", "stopping") /\ UNCHANGED <<meta, trouble>>

SaveNow(p) == Goes(p, "stopping", "saved") /\ UNCHANGED <<meta, trouble>>

RemoveMeta(p) == Goes(p, "saved", "removed") /\ meta' = None /\ UNCHANGED trouble

Exit(p)  == Goes(p, "removed", "gone") /\ UNCHANGED <<meta, trouble>>

Crash(p) == /\ "crash" \in Ops /\ proc[p] \in Holding /\ trouble' = TRUE
            /\ Goes(p, proc[p], "gone") /\ UNCHANGED meta

\* The system gives the number to another program.
Reuse(p) == "reuse" \in Ops /\ Goes(p, "gone", "stranger") /\ UNCHANGED <<meta, trouble>>

Command(c) == Look(c) \/ RemoveStale(c) \/ Wait(c) \/ Closed(c)

Daemon(p) == TryAcquire(p) \/ Load(p) \/ WriteMeta(p) \/ Serve(p) \/ Stop(p) \/ SaveNow(p)
             \/ RemoveMeta(p) \/ Exit(p)

Next ==
    \/ \E c \in Commands : \/ \E kind \in Kinds : Run(c, kind)
                           \/ Command(c) \/ WaitGivenUp(c) \/ ForceKill(c)
    \/ \E p \in Pids : Daemon(p) \/ Fail(p) \/ Crash(p) \/ Reuse(p)

Spec == Init /\ [][Next]_vars

\* Processes run.
Fairness == /\ \A c \in Commands : WF_vars(Command(c))
            /\ \A p \in Pids : WF_vars(Daemon(p))

FairSpec == Spec /\ Fairness

-----------------------------------------------------------------------------
\* A daemon that serves, and that nobody has asked to stop, is found by the next command:
\* nobody has removed or replaced its session.json (live_session, close_session and the
\* daemon itself remove the file by name, whosever it is).
Reachable ==
    \A p \in Pids : proc[p] \in {"published", "serving"} /\ p \notin asked => meta = p

\* Whoever starts finds a daemon, also the one whose own child has lost the race for the
\* lock: it waits for the file of the other (wait_until_ready), unless something failed.
StartAnswered ==
    \A c \in Commands : cmd[c].at = "waiting" ~> (cmd[c].at # "waiting" \/ trouble)

\* A close signals nothing but daemons.
StrangersSpared == [][\A p \in Pids : proc[p] = "stranger" => proc'[p] = "stranger"]_vars
=============================================================================
