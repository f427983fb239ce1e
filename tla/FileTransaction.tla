--------------------------- MODULE FileTransaction ---------------------------
(***************************************************************************)
(* One multi-file transaction of the daemon (workspace_transaction.rs):    *)
(* the staging of every file, the publication of one after the other over  *)
(* a link to the original, and then the removal of these links, or a       *)
(* rollback.  The owner is WorkspaceEdits::apply, which rolls back when a  *)
(* later part of the edit fails.                                           *)
(*                                                                         *)
(* A step is one file system call, or calls on names nobody else knows.    *)
(* Other programs write, replace, create and delete the files meanwhile,   *)
(* calls fail, and the process may end at any moment.                      *)
(*                                                                         *)
(* A file is a number, 0 for none: i the original of change i, N + i the   *)
(* file staged for it, the larger ones those of other programs.            *)
(***************************************************************************)
EXTENDS Naturals, Sequences, Functions

CONSTANTS
    Changes,      \* the kind of each change, in order
    Ops,          \* what happens in this instance, see OpNames
    MaxOutside,   \* bound: what other programs do
    MaxFaults     \* bound: calls that fail

\* Other programs act; calls fail; the process ends; the owner rolls back.
OpNames == {"outside", "fault", "crash", "rollback"}

TransactionAssumption ==
    /\ Changes \in Seq({"create", "edit", "delete"}) /\ Changes # <<>>
    /\ Ops \subseteq OpNames /\ MaxOutside \in Nat /\ MaxFaults \in Nat

N       == Len(Changes)
Entries == 1..N
Files   == 0..(2 * N + MaxOutside)

VARIABLES
    path, backup, stage,   \* the file at each of the names of a change
    version,               \* how often each file has been written in place
    entry,                 \* Entry: backed_up, published_state and published
    pc,                    \* the next step
    cur,                   \* the change it is about
    failed,                \* whether the rollback has had a failure
    again,                 \* whether Drop rolls back, a rollback having failed
    outcome,               \* what the owner is told
    outside, faults,       \* how much has happened
    touched,               \* history: the changes whose path others have changed
    unseen                 \* history: others acted where the code cannot tell

names   == <<path, backup, stage, version>>
control == <<pc, cur, failed, again, outcome>>
vars    == <<path, backup, stage, version, entry, pc, cur, failed, again, outcome,
             outside, faults, touched, unseen>>

-----------------------------------------------------------------------------
\* DiskGeneration: which file, and its contents.
Generation(f) == <<f, version[f]>>
Missing       == <<0, 0>>
Unknown       == <<0, 1>>   \* published is None

Original(i) == IF Changes[i] = "create" THEN 0 ELSE i
Wanted(i)   == IF Changes[i] = "delete" THEN 0 ELSE N + i
Expected(i) == <<Original(i), 0>>

NewEntry == [backedUp |-> FALSE, state |-> FALSE, published |-> Unknown]

Steps == {"stage", "recheck", "link", "verify", "remove", "publish", "inspect",
          "committed", "finish", "look", "unback", "restore", "unpublish", "relink",
          "ended", "crashed"}

TypeOK ==
    /\ {path, backup, stage} \subseteq [Entries -> Files]
    /\ version \in [Files -> Nat]
    /\ entry \in [Entries -> [backedUp : BOOLEAN, state : BOOLEAN, published : Files \X Nat]]
    /\ pc \in Steps /\ cur \in Entries /\ failed \in BOOLEAN /\ again \in BOOLEAN
    /\ outcome \in {"none", "refused", "finished", "restored", "incomplete"}
    /\ outside \in 0..MaxOutside /\ faults \in 0..MaxFaults /\ touched \subseteq Entries

Init ==
    /\ path = [i \in Entries |-> Original(i)]
    /\ backup = [i \in Entries |-> 0] /\ stage = [i \in Entries |-> 0]
    /\ version = [f \in Files |-> 0]
    /\ entry = [i \in Entries |-> NewEntry]
    /\ pc = "stage" /\ cur = 1 /\ failed = FALSE /\ again = FALSE /\ outcome = "none"
    /\ outside = 0 /\ faults = 0 /\ touched = {} /\ unseen = FALSE

-----------------------------------------------------------------------------
\* A step of the transaction: it succeeds, or its call fails.
At(step) == pc = step /\ UNCHANGED <<version, outside, touched, unseen>>
Succeeds == UNCHANGED faults
Fails    == "fault" \in Ops /\ faults < MaxFaults /\ faults' = faults + 1

\* An error: a call fails, or a file is not what it has to be.
Breaks(bad) == Fails \/ (Succeeds /\ bad)

Goto(step, i) == pc' = step /\ cur' = i
Stays         == UNCHANGED <<failed, again, outcome>>

\* cleanup_stages; what cannot be removed stays.
Unstaged(s) == {[i \in Entries |-> 0]} \cup (IF "fault" \in Ops THEN {s} ELSE {})

\* Setup fails, before anything is published.
Refuse ==
    /\ stage' \in Unstaged(stage)
    /\ pc' = "ended" /\ outcome' = "refused"
    /\ UNCHANGED <<path, backup, entry, cur, failed, again>>

\* The setup of one change: the file is the one expected, the new text is staged.
Stage ==
    /\ At("stage")
    /\ \/ Breaks(Generation(path[cur]) # Expected(cur)) /\ Refuse
       \/ /\ Succeeds /\ Generation(path[cur]) = Expected(cur)
          /\ stage' = [stage EXCEPT ![cur] = Wanted(cur)]
          /\ IF cur < N THEN Goto("stage", cur + 1) ELSE Goto("recheck", 1)
          /\ Stays /\ UNCHANGED <<path, backup, entry>>

\* Publication fails: stages are removed and the rollback begins, at its last entry.
Abort ==
    /\ stage' \in Unstaged(stage)
    /\ Goto("look", N) /\ Stays

Recheck ==
    /\ At("recheck")
    /\ \/ Breaks(Generation(path[cur]) # Expected(cur)) /\ Abort
       \/ /\ Succeeds /\ Generation(path[cur]) = Expected(cur)
          /\ Goto(IF Changes[cur] = "create" THEN "publish" ELSE "link", cur)
          /\ Stays /\ UNCHANGED stage
    /\ UNCHANGED <<path, backup, entry>>

\* The original is linked to the backup's name ...
Link ==
    /\ At("link")
    /\ \/ /\ Breaks(path[cur] = 0)
          /\ Abort /\ UNCHANGED <<backup, entry>>
       \/ /\ Succeeds /\ path[cur] # 0
          /\ backup' = [backup EXCEPT ![cur] = path[cur]]
          /\ entry' = [entry EXCEPT ![cur].backedUp = TRUE]
          /\ Goto("verify", cur) /\ Stays /\ UNCHANGED stage
    /\ UNCHANGED path

\* ... both are what they should be ...
Preserved(i) == Generation(backup[i]) = Expected(i) /\ Generation(path[i]) = Expected(i)

Verify ==
    /\ At("verify")
    /\ \/ Breaks(~Preserved(cur)) /\ Abort
       \/ Succeeds /\ Preserved(cur) /\ Goto("remove", cur) /\ Stays /\ UNCHANGED stage
    /\ UNCHANGED <<path, backup, entry>>

\* ... and the path is cleared.
Remove ==
    /\ At("remove")
    /\ \/ /\ Breaks(path[cur] = 0)
          /\ Abort /\ UNCHANGED <<path, entry>>
       \/ /\ Succeeds /\ path[cur] # 0
          /\ path' = [path EXCEPT ![cur] = 0]
          /\ entry' = [entry EXCEPT ![cur].state = TRUE]
          /\ Goto(IF Changes[cur] = "delete" THEN "inspect" ELSE "publish", cur)
          /\ Stays /\ UNCHANGED stage
    /\ UNCHANGED backup

\* The staged file is linked to the path, if nothing is there, and no longer staged.
Publish ==
    /\ At("publish")
    /\ \/ /\ Breaks(path[cur] # 0)
          /\ Abort /\ UNCHANGED <<path, entry>>
       \/ /\ Succeeds /\ path[cur] = 0
          /\ path' = [path EXCEPT ![cur] = stage[cur]]
          /\ stage' \in {[stage EXCEPT ![cur] = f] :
                           f \in {0} \cup IF "fault" \in Ops THEN {stage[cur]} ELSE {}}
          /\ entry' = [entry EXCEPT ![cur].state = TRUE]
          /\ Goto("inspect", cur) /\ Stays
    /\ UNCHANGED backup

\* What is at the path now is taken for what was published.
Inspect ==
    /\ At("inspect")
    /\ \/ Fails /\ Abort /\ UNCHANGED entry
       \/ /\ Succeeds
          /\ entry' = [entry EXCEPT ![cur].published = Generation(path[cur])]
          /\ IF cur < N THEN Goto("recheck", cur + 1) ELSE Goto("committed", 1)
          /\ Stays /\ UNCHANGED stage
    /\ UNCHANGED <<path, backup>>

-----------------------------------------------------------------------------
\* The owner, when the buffers have taken their part of the edit, or have not.
Owner ==
    /\ At("committed") /\ Succeeds
    /\ Goto("finish", 1) \/ ("rollback" \in Ops /\ Goto("look", N))
    /\ Stays /\ UNCHANGED <<path, backup, stage, entry>>

\* finish, for one backup; one that cannot be removed stays.
Finish ==
    /\ At("finish")
    /\ \/ Fails /\ UNCHANGED backup
       \/ Succeeds /\ backup' = IF entry[cur].backedUp THEN [backup EXCEPT ![cur] = 0] ELSE backup
    /\ IF cur < N THEN Goto("finish", cur + 1) /\ Stays
       ELSE /\ pc' = "ended" /\ outcome' = "finished"
            /\ UNCHANGED <<cur, failed, again>>
    /\ UNCHANGED <<path, stage, entry>>

-----------------------------------------------------------------------------
\* Mutant: the rollback goes on past its first entry.
ProceedPast(ok) ==
    /\ Goto("look", cur - 1)
    /\ failed' = (failed \/ ~ok) /\ UNCHANGED <<again, outcome>>

\* Mutant: a rollback ends at its first failure.
ProceedStops(ok) ==
    IF ok /\ cur > 1 THEN Goto("look", cur - 1) /\ Stays
    ELSE /\ pc' = "ended"
         /\ outcome' = IF ok THEN "restored" ELSE "incomplete"
         /\ UNCHANGED <<cur, failed, again>>

\* Mutant: nobody rolls back a second time.
ProceedOnce(ok) ==
    LET bad == failed \/ ~ok
    IN  IF cur > 1 THEN Goto("look", cur - 1) /\ failed' = bad /\ UNCHANGED <<again, outcome>>
        ELSE /\ pc' = "ended"
             /\ outcome' = IF bad THEN "incomplete" ELSE "restored"
             /\ UNCHANGED <<cur, failed, again>>

\* rollback goes on to the entry before, whether or not this one is restored.  A
\* rollback with failures is repeated once, by Drop, after it has been reported.
Proceed(ok) ==
    LET bad == failed \/ ~ok
    IN  IF cur > 1 THEN Goto("look", cur - 1) /\ failed' = bad /\ UNCHANGED <<again, outcome>>
        ELSE IF bad /\ ~again
        THEN /\ Goto("look", N)
             /\ failed' = FALSE /\ again' = TRUE /\ outcome' = "incomplete"
        ELSE /\ pc' = "ended"
             /\ outcome' = IF again THEN "incomplete" ELSE "restored"
             /\ UNCHANGED <<cur, failed, again>>

\* Mutant: what is at the path is removed, published or not.
RemedyForced(i) ==
    LET e == entry[i]
    IN  IF ~e.state /\ ~e.backedUp THEN "right"
        ELSE IF Changes[i] = "create" THEN "unpublish"
        ELSE IF ~e.backedUp THEN "right"
        ELSE IF ~e.state THEN "unback"
        ELSE IF path[i] = 0 THEN "restore"
        ELSE "unpublish"

\* What is to be done about entry i: nothing, which is right or a failure, or one
\* of the steps below.
Remedy(i) ==
    LET now == Generation(path[i])
        e   == entry[i]
    IN  IF ~e.state /\ ~e.backedUp THEN "right"
        ELSE IF Changes[i] = "create"
        THEN IF e.published = now THEN "unpublish" ELSE "failure"
        ELSE IF ~e.backedUp THEN "right"
        ELSE IF Generation(backup[i]) # Expected(i) THEN "failure"
        ELSE IF ~e.state /\ now = Expected(i) THEN "unback"
        ELSE IF now = Missing THEN "restore"
        ELSE IF e.published = now THEN "unpublish"
        ELSE "failure"

\* rollback of one entry: a look at the path and the backup ...
Look ==
    /\ At("look")
    /\ \/ (entry[cur].state \/ entry[cur].backedUp) /\ Fails /\ Proceed(FALSE)
       \/ /\ Succeeds
          /\ LET todo == Remedy(cur)
             IN  IF todo \in {"right", "failure"} THEN Proceed(todo = "right")
                 ELSE Goto(todo, cur) /\ Stays
    /\ UNCHANGED <<path, backup, stage, entry>>

\* ... the published file is removed ...
Unpublish ==
    /\ At("unpublish")
    /\ \/ /\ Breaks(path[cur] = 0)
          /\ Proceed(FALSE) /\ UNCHANGED <<path, entry>>
       \/ /\ Succeeds /\ path[cur] # 0
          /\ path' = [path EXCEPT ![cur] = 0]
          /\ IF Changes[cur] = "create"
             THEN Proceed(TRUE) /\ entry' = [entry EXCEPT ![cur].state = FALSE]
             ELSE Goto("relink", cur) /\ Stays /\ UNCHANGED entry
    /\ UNCHANGED <<backup, stage>>

\* Mutant: the backup is removed also when the original could not be linked back.
RelinkUnnoticed ==
    /\ At("relink") \/ At("restore")
    /\ \/ Breaks(path[cur] # 0) /\ UNCHANGED path
       \/ Succeeds /\ path[cur] = 0 /\ path' = [path EXCEPT ![cur] = backup[cur]]
    /\ entry' = [entry EXCEPT ![cur].state = FALSE]
    /\ Goto("unback", cur) /\ Stays
    /\ UNCHANGED <<backup, stage>>

\* ... the original is linked back, if nothing is there ...
Relink ==
    /\ At("relink") \/ At("restore")
    /\ \/ /\ Breaks(path[cur] # 0)
          /\ Proceed(FALSE) /\ UNCHANGED <<path, entry>>
       \/ /\ Succeeds /\ path[cur] = 0
          /\ path' = [path EXCEPT ![cur] = backup[cur]]
          /\ entry' = [entry EXCEPT ![cur].state = FALSE,
                         ![cur].published = IF pc = "relink" THEN Unknown ELSE @]
          /\ Goto("unback", cur) /\ Stays
    /\ UNCHANGED <<backup, stage>>

\* ... and the backup removed.
Unback ==
    /\ At("unback")
    /\ \/ Fails /\ Proceed(FALSE) /\ UNCHANGED <<backup, entry>>
       \/ /\ Succeeds
          /\ backup' = [backup EXCEPT ![cur] = 0]
          /\ entry' = [entry EXCEPT ![cur].backedUp = FALSE]
          /\ Proceed(TRUE)
    /\ UNCHANGED <<path, stage>>

-----------------------------------------------------------------------------
\* Other programs, at the paths.  The names of backups and stages are random.

\* A file is removed that was checked before, or taken for the one just published.
Blind == {"remove", "unpublish", "unback", "inspect"}

Outsider(i) ==
    /\ "outside" \in Ops /\ outside < MaxOutside
    /\ outside' = outside + 1
    /\ touched' = touched \cup {i}
    /\ unseen' = (unseen \/ pc \in Blind)
    /\ UNCHANGED <<backup, stage, entry, control, faults>>

OutsideWrites(i) ==
    /\ path[i] # 0 /\ Outsider(i)
    /\ version' = [version EXCEPT ![path[i]] = @ + 1]
    /\ UNCHANGED path

OutsideReplaces(i) ==
    /\ Outsider(i)
    /\ path' = [path EXCEPT ![i] = 2 * N + outside']
    /\ UNCHANGED version

OutsideDeletes(i) ==
    /\ path[i] # 0 /\ Outsider(i)
    /\ path' = [path EXCEPT ![i] = 0]
    /\ UNCHANGED version

Crash ==
    /\ "crash" \in Ops /\ pc \notin {"ended", "crashed"}
    /\ pc' = "crashed"
    /\ UNCHANGED <<names, entry, cur, failed, again, outcome, outside, faults, touched, unseen>>

Commit   == Stage \/ Recheck \/ Link \/ Verify \/ Remove \/ Publish \/ Inspect
Rollback == Look \/ Unpublish \/ Relink \/ Unback
Outside  == \E i \in Entries : OutsideWrites(i) \/ OutsideReplaces(i) \/ OutsideDeletes(i)

Next == Commit \/ Owner \/ Finish \/ Rollback \/ Outside \/ Crash

Spec == Init /\ [][Next]_vars

-----------------------------------------------------------------------------
Untouched == Entries \ touched
Ended     == pc = "ended"

\* What the owner is told holds of every file nobody else has changed: all are new
\* once it has committed, all are the originals after a refusal or a rollback, and
\* also after an incomplete one if other programs, not failing calls, made it so.
AllOrNothing ==
    /\ pc \in {"committed", "finish"} \/ (Ended /\ outcome = "finished") =>
          \A i \in Untouched : path[i] = Wanted(i)
    /\ Ended /\ outcome \in {"refused", "restored"} =>
          \A i \in Untouched : path[i] = Original(i)
    /\ Ended /\ outcome = "incomplete" =>
          /\ outside > 0 \/ faults > 0
          /\ faults = 0 => \A i \in Untouched : path[i] = Original(i)

\* One failing call does not leave a file half replaced: a rollback that it stops is
\* completed by Drop, except of a file whose publication could not be looked at,
\* which keeps its backup ("Leave its backup intact and report the recovery path").
OneFaultRepaired ==
    Ended /\ outcome = "incomplete" /\ faults = 1 =>
        \A i \in Untouched :
            \/ path[i] = Original(i)
            \/ entry[i].state /\ entry[i].published = Unknown /\ backup[i] = Original(i)

\* Every original can be found at its path or at its backup, until all of the edit
\* is published: also after a crash, and whatever calls have failed.
OriginalKept ==
    \/ \A i \in Untouched : Original(i) \in {path[i], backup[i]}
    \/ \A i \in Untouched : path[i] = Wanted(i)

\* No step of the transaction takes away the last name of contents it has not
\* written itself, but for the originals of an edit that is being finished, unless
\* another program acts between a check and the removal it is for, or before the file
\* just published has been looked at.
Named     == Range(path) \cup Range(backup)
Others(f) == f # 0 /\ (f \notin {N + i : i \in Entries} \/ version[f] > 0)

OthersKept ==
    [][\A f \in Named : Others(f) /\ f \notin Named' =>
          outside' # outside \/ unseen \/ (pc = "finish" /\ f \in Entries /\ version[f] = 0)]_vars

\* A transaction changes all files or none and destroys nothing that it did not write, as
\* far as what fails and who comes between leaves it the choice.
Safety == [](TypeOK /\ AllOrNothing /\ OneFaultRepaired /\ OriginalKept) /\ OthersKept
=============================================================================
