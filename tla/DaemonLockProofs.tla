---------------------------- MODULE DaemonLockProofs ----------------------------
(***************************************************************************)
(* What holds of DaemonLock for any number of shells, processes and        *)
(* commands, wherever daemons die or fail: a daemon that serves is found.  *)
(*                                                                         *)
(* One process holds the lock (OneHolder), so what a command removes while *)
(* it has found nobody behind the file is nobody's (Unused), and a close   *)
(* that waits has nobody left but the daemon it waits for (Waited), since  *)
(* whatever would start another one waits for the close (KeptApart).       *)
(***************************************************************************)
EXTENDS DaemonLock, TLAPS

Typed ==
    /\ proc \in [Pids -> Running \cup {"unborn", "gone"}]
    /\ meta \in Pids \cup {None} /\ asked \subseteq Pids
    /\ cmd \in [Commands -> [kind : Kinds \cup {None}, pid : Pids \cup {None},
                             at : {"idle", "look", "stale", "waiting", "closing"}]]
    /\ \A p \in Pids : proc[p] # "stranger"
    /\ \A c \in Commands : /\ cmd[c].at = "closing" => cmd[c].kind = "close"
                           /\ cmd[c].at = "waiting" => cmd[c].kind = "start"
                           /\ cmd[c].kind = None => cmd[c].at = "idle"

OneHolder == \A p, q \in Pids : proc[p] \in Holding /\ proc[q] \in Holding => p = q

Unused == \A c \in Commands : cmd[c].at = "stale" => meta = None \/ ~Alive(meta)

KeptApart ==
    \A c \in Commands : cmd[c].kind = "close" =>
        /\ \A d \in Commands : cmd[d].kind \in {None, "close"}
        /\ \A p \in Pids : proc[p] # "spawned"

Waited ==
    \A c \in Commands : cmd[c].at = "closing" =>
        cmd[c].pid \in Pids /\ \A p \in Pids : Alive(p) => p = cmd[c].pid

IInv == Typed /\ OneHolder /\ Unused /\ KeptApart /\ Waited /\ Reachable

Sparing == {"race", "overlap", "reuse"} \cap Ops = {}

-----------------------------------------------------------------------------
(* The commands.                                                           *)

LEMMA NobodyStale ==
    ASSUME Sparing, Settled
    PROVE  \A c \in Commands : cmd[c].at # "stale"
  BY DEF Sparing, Settled

LEMMA RunInv ==
    ASSUME LockAssumption, Sparing, IInv, NEW c \in Commands, NEW kind \in Kinds, Run(c, kind)
    PROVE  IInv'
<1>1. cmd' = [cmd EXCEPT ![c] = [kind |-> kind, at |-> "look", pid |-> None]]
  BY DEF Run, Become
<1>2. UNCHANGED <<proc, meta, asked>> /\ Apart(kind) /\ "overlap" \notin Ops
  BY DEF Run, Sparing
<1>3. Typed'
  BY <1>1, <1>2 DEF IInv, Typed, LockAssumption
<1>4. KeptApart'
  <2>. SUFFICES ASSUME NEW e \in Commands, cmd'[e].kind = "close"
                PROVE  /\ \A d \in Commands : cmd'[d].kind \in {None, "close"}
                       /\ \A p \in Pids : proc'[p] # "spawned"
    BY DEF KeptApart
  <2>1. CASE kind = "close"
    BY <1>1, <1>2, <2>1 DEF Apart, IInv, Typed
  <2>2. CASE kind # "close"
    <3>1. cmd[e].kind = "close"
      BY <1>1, <2>2 DEF IInv, Typed
    <3>. QED BY <1>2, <2>2, <3>1 DEF Apart, LockAssumption, Kinds
  <2>. QED BY <2>1, <2>2
<1>5. \A d \in Commands : cmd'[d].at \in {"stale", "closing"} => cmd'[d] = cmd[d]
  BY <1>1 DEF IInv, Typed
<1>. QED BY <1>2, <1>3, <1>4, <1>5
     DEF IInv, OneHolder, Unused, Waited, Reachable, Alive

\* A command that goes on, or ends, without a new process.
LEMMA GoesOn ==
    ASSUME LockAssumption, Typed, KeptApart, NEW c \in Commands, UNCHANGED proc,
           meta' \in Pids \cup {None}, asked' \subseteq Pids,
           Ends(c) \/ \/ Become(c, cmd[c].kind, "stale", meta) /\ cmd[c].kind # None
                      \/ cmd[c].kind = "ensure" /\ Become(c, "start", "look", None)
                      \/ cmd[c].kind = "close" /\ Become(c, "close", "closing", meta)
    PROVE  Typed' /\ KeptApart'
<1>1. \E r \in [kind : Kinds \cup {None}, pid : Pids \cup {None},
                at : {"idle", "look", "stale", "waiting", "closing"}] :
         /\ cmd' = [cmd EXCEPT ![c] = r]
         /\ r.at = "closing" => r.kind = "close"
         /\ r.at = "waiting" => r.kind = "start"
         /\ r.kind = None => r.at = "idle"
         /\ r.kind = "close" => cmd[c].kind = "close"
         /\ r.kind \in {None, cmd[c].kind} \/ (r.kind = "start" /\ cmd[c].kind = "ensure")
  <2>. DEFINE R == [kind : Kinds \cup {None}, pid : Pids \cup {None},
                    at : {"idle", "look", "stale", "waiting", "closing"}]
  <2>1. cmd[c] \in R
    BY DEF Typed
  <2>2. CASE Ends(c)
    <3>1. Idle \in R /\ Idle.kind = None /\ Idle.at = "idle"
      BY DEF Idle
    <3>2. None # "close"
      BY DEF LockAssumption, Kinds
    <3>. QED BY <2>2, <3>1, <3>2 DEF Ends
  <2>3. CASE Become(c, cmd[c].kind, "stale", meta) /\ cmd[c].kind # None
    <3>. DEFINE r == [kind |-> cmd[c].kind, at |-> "stale", pid |-> meta]
    <3>1. r \in R
      BY <2>1 DEF Typed
    <3>. QED BY <2>3, <3>1 DEF Become
  <2>4. CASE cmd[c].kind = "ensure" /\ Become(c, "start", "look", None)
    <3>. DEFINE r == [kind |-> "start", at |-> "look", pid |-> None]
    <3>1. r \in R /\ r.kind # None
      BY DEF Kinds, LockAssumption
    <3>. QED BY <2>4, <3>1 DEF Become
  <2>5. CASE cmd[c].kind = "close" /\ Become(c, "close", "closing", meta)
    <3>. DEFINE r == [kind |-> "close", at |-> "closing", pid |-> meta]
    <3>1. r \in R /\ r.kind # None
      BY DEF Kinds, LockAssumption, Typed
    <3>. QED BY <2>5, <3>1 DEF Become
  <2>. QED BY <2>2, <2>3, <2>4, <2>5
<1>2. Typed'
  BY <1>1 DEF Typed
<1>3. KeptApart'
  <2>. SUFFICES ASSUME NEW e \in Commands, cmd'[e].kind = "close"
                PROVE  /\ \A d \in Commands : cmd'[d].kind \in {None, "close"}
                       /\ \A p \in Pids : proc'[p] # "spawned"
    BY DEF KeptApart
  <2>1. cmd[e].kind = "close"
    BY <1>1 DEF Typed
  <2>2. /\ \A d \in Commands : cmd[d].kind \in {None, "close"}
        /\ \A p \in Pids : proc[p] # "spawned"
    BY <2>1 DEF KeptApart
  <2>3. cmd'[c].kind \in {None, "close"}
    BY <1>1, <2>2 DEF Typed, LockAssumption, Kinds
  <2>4. \A d \in Commands : d # c => cmd'[d] = cmd[d]
    BY <1>1 DEF Typed
  <2>. QED BY <2>2, <2>3, <2>4
<1>. QED BY <1>2, <1>3

\* A daemon is spawned when nobody serves under the file, and nobody waits for an end.
LEMMA SpawnInv ==
    ASSUME LockAssumption, IInv, NEW c \in Commands, cmd[c].kind = "start", SpawnDaemon(c),
           meta = None \/ ~Alive(meta), meta' = None, UNCHANGED asked
    PROVE  IInv'
<1>1. PICK p \in Pids :
         /\ proc[p] = "unborn" /\ proc' = [proc EXCEPT ![p] = "spawned"]
         /\ cmd' = [cmd EXCEPT ![c] = [kind |-> "start", at |-> "waiting", pid |-> p]]
  BY DEF SpawnDaemon, Become
<1>2. \A d \in Commands : cmd[d].kind # "close"
  BY DEF IInv, KeptApart, LockAssumption, Kinds
<1>3. Typed'
  BY <1>1 DEF IInv, Typed, Running, Kinds, LockAssumption
<1>4. \A d \in Commands : cmd'[d].kind # "close"
  BY <1>1, <1>2 DEF IInv, Typed
<1>5. KeptApart' /\ Waited'
  BY <1>3, <1>4 DEF KeptApart, Waited, Typed
<1>6. \A q \in Pids : proc'[q] \in Holding => proc'[q] = proc[q]
  BY <1>1 DEF IInv, Typed, Holding
<1>7. OneHolder'
  BY <1>6 DEF IInv, OneHolder
<1>8. Reachable'
  <2>. SUFFICES ASSUME NEW q \in Pids, proc'[q] \in {"published", "serving"}, q \notin asked
                PROVE  FALSE
    BY DEF Reachable
  <2>1. proc[q] = proc'[q] /\ Alive(q) /\ meta = q
    BY <1>6 DEF Holding, Running, Alive, IInv, Reachable
  <2>. QED BY <2>1 DEF LockAssumption
<1>. QED BY <1>3, <1>5, <1>7, <1>8 DEF IInv, Unused

\* Nobody behind the file: NoSession, with the file as it was or removed.
LEMMA NoSessionInv ==
    ASSUME LockAssumption, IInv, NEW c \in Commands, NoSession(c),
           meta = None \/ ~Alive(meta), meta' = None, UNCHANGED asked
    PROVE  IInv'
<1>1. CASE cmd[c].kind = "start" /\ SpawnDaemon(c)
  BY <1>1, SpawnInv
<1>2. CASE UNCHANGED proc /\ (Ends(c) \/ (cmd[c].kind = "ensure" /\ Become(c, "start", "look", None)))
  <2>1. Typed' /\ KeptApart'
    BY <1>2, GoesOn DEF IInv, Typed
  <2>2. \A d \in Commands : cmd'[d].at = "closing" => cmd'[d] = cmd[d]
    BY <1>2 DEF IInv, Typed, Ends, Become, Idle
  <2>3. \A q \in Pids : Alive(q) => meta # q
    BY DEF LockAssumption
  <2>4. Reachable'
    BY <1>2, <2>3 DEF IInv, Reachable, Alive, Running
  <2>. QED BY <1>2, <2>1, <2>2, <2>4 DEF IInv, OneHolder, Unused, Waited, Alive
<1>. QED BY <1>1, <1>2 DEF NoSession

\* SIGTERM, an end, a kill: of a process that ran, nothing new comes to hold or to serve.
LEMMA EndsInv ==
    ASSUME LockAssumption, IInv, NEW p \in Pids, NEW to \in {"gone", "stopping", "saved", "removed"},
           Alive(p), proc[p] \in Holding \/ to = "gone",
           proc' = [proc EXCEPT ![p] = to], UNCHANGED meta, asked \subseteq asked'
    PROVE  /\ OneHolder' /\ Reachable' /\ \A q \in Pids : Alive(q)' => Alive(q)
           /\ proc' \in [Pids -> Running \cup {"unborn", "gone"}]
           /\ \A q \in Pids : proc'[q] # "stranger" /\ (proc'[q] = "spawned" => proc[q] = "spawned")
<1>1. /\ \A q \in Pids : proc'[q] = IF q = p THEN to ELSE proc[q]
      /\ proc' \in [Pids -> Running \cup {"unborn", "gone"}]
  BY DEF IInv, Typed, Running
<1>2. OneHolder'
  BY <1>1 DEF IInv, OneHolder, Holding, Running
<1>3. Reachable'
  BY <1>1 DEF IInv, Reachable
<1>4. \A q \in Pids : proc'[q] # "stranger" /\ (proc'[q] = "spawned" => proc[q] = "spawned")
  BY <1>1 DEF IInv, Typed
<1>. QED BY <1>1, <1>2, <1>3, <1>4 DEF Alive

LEMMA LookInv ==
    ASSUME LockAssumption, Sparing, IInv, NEW c \in Commands, Look(c)
    PROVE  IInv'
<1>1. cmd[c].at = "look" /\ cmd[c].kind \in Kinds /\ UNCHANGED meta
  BY DEF Look, IInv, Typed
<1>2. \A d \in Commands : cmd[d].at # "stale"
  BY NobodyStale DEF Look
<1>3. CASE meta = None /\ NoSession(c) /\ UNCHANGED asked
  BY <1>1, <1>3, NoSessionInv
<1>4. CASE ~Alive(meta) /\ Become(c, cmd[c].kind, "stale", meta) /\ UNCHANGED <<proc, asked>>
  <2>1. Typed' /\ KeptApart'
    BY <1>1, <1>4, GoesOn DEF IInv, Typed, LockAssumption
  <2>2. \A d \in Commands : cmd'[d].at = "closing" => cmd'[d] = cmd[d]
    BY <1>4 DEF IInv, Typed, Become
  <2>. QED BY <1>1, <1>4, <2>1, <2>2 DEF IInv, OneHolder, Unused, Waited, Reachable, Alive
<1>5. CASE Ends(c) /\ UNCHANGED <<proc, asked>>
  <2>1. Typed' /\ KeptApart'
    BY <1>1, <1>5, GoesOn DEF IInv, Typed
  <2>2. \A d \in Commands : cmd'[d].at \in {"closing", "stale"} => cmd'[d] = cmd[d]
    BY <1>5 DEF IInv, Typed, Ends, Idle
  <2>. QED BY <1>1, <1>5, <2>1, <2>2 DEF IInv, OneHolder, Unused, Waited, Reachable, Alive
<1>6. CASE /\ meta # None /\ Alive(meta) /\ cmd[c].kind = "close"
           /\ Become(c, "close", "closing", meta)
           /\ asked' = asked \cup {meta} /\ proc' = [proc EXCEPT ![meta] = Signalled(meta)]
  <2>1. meta \in Pids /\ proc[meta] \in Holding
    BY <1>6 DEF IInv, Typed, KeptApart, Alive, Holding
  <2>2. \A p \in Pids : Alive(p) => p = meta
    BY <1>6, <2>1 DEF IInv, Typed, KeptApart, OneHolder, Alive, Holding
  <2>3. /\ OneHolder' /\ Reachable' /\ \A q \in Pids : Alive(q)' => Alive(q)
        /\ proc' \in [Pids -> Running \cup {"unborn", "gone"}]
        /\ \A q \in Pids : proc'[q] # "stranger" /\ (proc'[q] = "spawned" => proc[q] = "spawned")
    <3>1. CASE Signalled(meta) = proc[meta]
      <4>1. proc' = proc
        BY <1>6, <3>1 DEF IInv, Typed
      <4>. QED BY <1>1, <1>6, <4>1 DEF IInv, Typed, OneHolder, Reachable, Alive
    <3>2. CASE Signalled(meta) = "gone"
      BY <1>1, <1>6, <2>1, <3>2, EndsInv
    <3>. QED BY <3>1, <3>2 DEF Signalled
  <2>4. cmd' = [cmd EXCEPT ![c] = [kind |-> "close", at |-> "closing", pid |-> meta]]
    BY <1>6 DEF Become
  <2>5. Typed'
    BY <1>1, <1>6, <2>1, <2>3, <2>4 DEF IInv, Typed, Kinds, LockAssumption
  <2>6. KeptApart'
    BY <1>6, <2>3, <2>4 DEF IInv, Typed, KeptApart
  <2>7. Waited'
    BY <2>1, <2>2, <2>3, <2>4 DEF IInv, Typed, Waited
  <2>8. Unused'
    BY <1>2, <2>4 DEF IInv, Typed, Unused
  <2>. QED BY <2>3, <2>5, <2>6, <2>7, <2>8 DEF IInv
<1>. QED BY <1>3, <1>4, <1>5, <1>6 DEF Look

LEMMA RemoveStaleInv ==
    ASSUME LockAssumption, IInv, NEW c \in Commands, RemoveStale(c)
    PROVE  IInv'
  BY NoSessionInv DEF RemoveStale, IInv, Unused

\* A command that ends, or removes the file of a process that has gone.
LEMMA AnswerInv ==
    ASSUME LockAssumption, Sparing, IInv, NEW c \in Commands, Wait(c) \/ WaitGivenUp(c)
    PROVE  IInv'
<1>1. UNCHANGED <<proc, asked>> /\ cmd[c].at = "waiting"
  BY DEF Wait, WaitGivenUp
<1>2. \A d \in Commands : cmd[d].at # "stale"
  BY NobodyStale DEF Wait, WaitGivenUp
<1>3. CASE Ends(c) /\ UNCHANGED meta
  <2>1. Typed' /\ KeptApart'
    BY <1>1, <1>3, GoesOn DEF IInv, Typed
  <2>2. \A d \in Commands : cmd'[d].at \in {"closing", "stale"} => cmd'[d] = cmd[d]
    BY <1>3 DEF IInv, Typed, Ends, Idle
  <2>. QED BY <1>1, <1>3, <2>1, <2>2 DEF IInv, OneHolder, Unused, Waited, Reachable, Alive
<1>4. CASE meta # None /\ ~Alive(meta) /\ meta' = None /\ UNCHANGED cmd
  <2>1. Reachable'
    BY <1>1, <1>4 DEF IInv, Reachable, Alive, Running
  <2>. QED BY <1>1, <1>4, <2>1 DEF IInv, Typed, KeptApart, OneHolder, Unused, Waited, Alive
<1>. QED BY <1>3, <1>4 DEF Wait, WaitGivenUp

\* When the daemon has gone that a close waits for, no file is left but its own.
LEMMA ClosedInv ==
    ASSUME LockAssumption, Sparing, IInv, NEW c \in Commands, Closed(c)
    PROVE  IInv'
<1>1. cmd[c].at = "closing" /\ UNCHANGED <<proc, asked>> /\ meta' = None /\ Ends(c)
  BY DEF Closed
<1>2. \A p \in Pids : ~Alive(p)
  BY <1>1 DEF Closed, IInv, Waited
<1>3. Typed' /\ KeptApart'
  BY <1>1, GoesOn DEF IInv, Typed
<1>4. \A d \in Commands : cmd'[d].at = "closing" => cmd'[d] = cmd[d]
  BY <1>1 DEF IInv, Typed, Ends, Idle
<1>5. Reachable'
  BY <1>1, <1>2 DEF Reachable, Alive, Running
<1>. QED BY <1>1, <1>3, <1>4, <1>5 DEF IInv, OneHolder, Unused, Waited, Alive

LEMMA ForceKillInv ==
    ASSUME LockAssumption, Sparing, IInv, NEW c \in Commands, ForceKill(c)
    PROVE  IInv'
<1>1. /\ cmd[c].pid \in Pids /\ Alive(cmd[c].pid) /\ UNCHANGED <<meta, asked, cmd>>
      /\ proc' = [proc EXCEPT ![cmd[c].pid] = "gone"]
  BY DEF ForceKill, IInv, Waited
<1>2. /\ OneHolder' /\ Reachable' /\ \A q \in Pids : Alive(q)' => Alive(q)
      /\ proc' \in [Pids -> Running \cup {"unborn", "gone"}]
      /\ \A q \in Pids : proc'[q] # "stranger" /\ (proc'[q] = "spawned" => proc[q] = "spawned")
  BY <1>1, EndsInv
<1>3. \A d \in Commands : cmd[d].at # "stale"
  BY NobodyStale DEF ForceKill
<1>. QED BY <1>1, <1>2, <1>3 DEF IInv, Typed, Unused, KeptApart, Waited

-----------------------------------------------------------------------------
(* The daemon.                                                             *)

LEMMA GoesInv ==
    ASSUME LockAssumption, Sparing, IInv, NEW p \in Pids, NEW from \in Running,
           NEW to \in (Holding \cup {"gone"}),
           Goes(p, from, to), meta' \in {meta, p, None},
           from \in Holding \/ to \notin Holding \/ \A q \in Pids : proc[q] \notin Holding,
           Reachable'
    PROVE  IInv'
<1>1. \A q \in Pids : proc'[q] = IF q = p THEN to ELSE proc[q]
  BY DEF Goes, IInv, Typed
<1>2. proc[p] = from /\ UNCHANGED <<asked, cmd>>
  BY DEF Goes
<1>3. to \notin {"stranger", "spawned"} /\ to \in Running \cup {"gone"}
  BY DEF Holding, Running
<1>4. Typed'
  BY <1>1, <1>2, <1>3 DEF Goes, IInv, Typed
<1>5. OneHolder'
  BY <1>1, <1>2 DEF IInv, OneHolder, Holding
<1>6. Unused'
  BY <1>2, NobodyStale DEF Goes, Unused
<1>7. KeptApart'
  BY <1>1, <1>2, <1>3 DEF IInv, KeptApart
<1>8. Waited'
  BY <1>1, <1>2, <1>3 DEF IInv, Waited, Alive
<1>. QED BY <1>4, <1>5, <1>6, <1>7, <1>8 DEF IInv

LEMMA DaemonInv ==
    ASSUME LockAssumption, Sparing, IInv, NEW p \in Pids, Daemon(p) \/ Fail(p) \/ Crash(p)
    PROVE  IInv'
<1>1. \A from, to : Goes(p, from, to) =>
        /\ UNCHANGED asked /\ proc[p] = from
        /\ \A q \in Pids : proc'[q] = IF q = p THEN to ELSE proc[q]
  BY DEF Goes, IInv, Typed
<1>2. \A q \in Pids : proc[p] \in Holding /\ q # p => proc[q] \notin {"published", "serving"}
  BY DEF IInv, OneHolder, Holding, Running
<1>3. CASE TryAcquire(p)
  <2>1. CASE Goes(p, "spawned", "gone")
    <3>1. Reachable'
      BY <1>1, <1>3, <2>1 DEF TryAcquire, IInv, Reachable
    <3>. QED BY <1>3, <2>1, <3>1, GoesInv DEF TryAcquire, Running, Holding
  <2>2. CASE Goes(p, "spawned", "locked") /\ \A q \in Pids : proc[q] \notin Holding
    <3>1. Reachable'
      BY <1>1, <1>3, <2>2 DEF TryAcquire, IInv, Reachable
    <3>. QED BY <1>3, <2>2, <3>1, GoesInv DEF TryAcquire, Running, Holding
  <2>. QED BY <1>3, <2>1, <2>2 DEF TryAcquire
<1>4. CASE WriteMeta(p)
  <2>1. Reachable'
    BY <1>1, <1>2, <1>4 DEF WriteMeta, Reachable, Holding, Running
  <2>. QED BY <1>4, <2>1, GoesInv DEF WriteMeta, Running, Holding
<1>5. CASE RemoveMeta(p)
  <2>1. Reachable'
    BY <1>1, <1>2, <1>5 DEF RemoveMeta, Reachable, Holding, Running
  <2>. QED BY <1>5, <2>1, GoesInv DEF RemoveMeta, Running, Holding
<1>6. CASE \E from \in Holding, to \in Holding \cup {"gone"} :
             /\ Goes(p, from, to) /\ UNCHANGED meta
             /\ to = "published" => from = "published"
             /\ to = "serving" => from \in {"published", "serving"}
  <2>. PICK from \in Holding, to \in Holding \cup {"gone"} :
             /\ Goes(p, from, to) /\ UNCHANGED meta
             /\ to = "published" => from = "published"
             /\ to = "serving" => from \in {"published", "serving"}
    BY <1>6
  <2>1. Reachable'
    BY <1>1 DEF IInv, Reachable
  <2>. QED BY <2>1, GoesInv DEF Holding
<1>7. Load(p) \/ Serve(p) \/ Stop(p) \/ SaveNow(p) \/ Exit(p) \/ Fail(p) \/ Crash(p)
        => \E from \in Holding, to \in Holding \cup {"gone"} :
             /\ Goes(p, from, to) /\ UNCHANGED meta
             /\ to = "published" => from = "published"
             /\ to = "serving" => from \in {"published", "serving"}
  <2>1. {"locked", "loaded", "published", "serving", "stopping", "saved", "removed"} \subseteq Holding
    BY DEF Holding, Running
  <2>. QED BY <2>1 DEF Load, Serve, Stop, SaveNow, Exit, Fail, Crash
<1>. QED BY <1>3, <1>4, <1>5, <1>6, <1>7 DEF Daemon

-----------------------------------------------------------------------------
LEMMA InitInv ==
    ASSUME LockAssumption
    PROVE  Init => IInv
<1>. SUFFICES ASSUME Init PROVE IInv
  OBVIOUS
<1>1. \A p \in Pids : proc[p] \in {"gone", "unborn"}
  BY DEF Init
<1>2. 1 \in Pids
  BY DEF Pids, LockAssumption
<1>3. Typed
  BY <1>1, <1>2 DEF Init, Idle, Typed, LockAssumption, Kinds
<1>4. OneHolder /\ Reachable
  BY <1>1 DEF OneHolder, Reachable, Holding, Running
<1>5. Unused /\ KeptApart /\ Waited
  BY DEF Init, Idle, Unused, KeptApart, Waited, LockAssumption, Kinds
<1>. QED BY <1>3, <1>4, <1>5 DEF IInv

LEMMA NextInv ==
    ASSUME LockAssumption, Sparing, IInv, [Next]_vars
    PROVE  IInv'
<1>1. CASE UNCHANGED vars
  BY <1>1 DEF vars, IInv, Typed, OneHolder, Unused, KeptApart, Waited, Reachable, Alive
<1>2. \A p \in Pids : ~Reuse(p)
  BY DEF Sparing, Reuse
<1>3. CASE Next
  BY <1>2, <1>3, RunInv, LookInv, RemoveStaleInv, AnswerInv, ClosedInv, ForceKillInv, DaemonInv
     DEF Next, Command
<1>. QED BY <1>1, <1>3

\* A daemon that serves, and that nobody has asked to stop, is found by the next command:
\* for any number of shells, starts that cross, daemons that die or fail and waits that are
\* given up; as long as closes and starts keep apart, nobody comes between a look and the
\* removal it leads to, and the system gives no process id away again (daemon/mod.rs,
\* daemon/unix.rs, launch.rs).
THEOREM DaemonIsFound ==
    ASSUME LockAssumption, {"race", "overlap", "reuse"} \cap Ops = {}
    PROVE  Spec => []Reachable
<1>1. Sparing
  BY DEF Sparing
<1>2. IInv => Reachable
  BY DEF IInv
<1>. QED BY <1>1, <1>2, InitInv, NextInv, PTL DEF Spec
====
