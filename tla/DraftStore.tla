------------------------------ MODULE DraftStore ------------------------------
(***************************************************************************)
(* The recovery copies of one workspace (drafts.rs): a file for small       *)
(* drafts and one for paged ones, each replaced as a whole, and the backup  *)
(* an earlier version of the program left of either.  A draft may change    *)
(* between small and paged; it is then written to one file and removed from *)
(* the other.  The worker runs one request at a time; the daemon may end    *)
(* between any two calls, and most calls may fail.                          *)
(*                                                                         *)
(* The text of a draft is its version.  A temporary file has a fresh name   *)
(* that nothing reads, so writing and renaming it is one step.  A backup   *)
(* stands alone at first: the earlier version was stopped while replacing. *)
(***************************************************************************)
EXTENDS Naturals, Sequences

CONSTANTS
    Drafts,       \* draft ids
    Absent,       \* no file, no draft, no request
    Ops,          \* what happens in this instance, see OpNames
    MaxRequests   \* bound: checkpoints and discards

\* A call that fails; the end of the daemon; backups of an earlier version.
OpNames == {"fail", "crash", "backup"}

Parts == {"small", "paged"}
Other(p) == CHOOSE q \in Parts : q # p

\* What a request does one by one.
Calls == [call : {"put", "unback", "sync", "drop"}, part : Parts]

\* Absent is nothing that it stands in for.
StoreAssumption ==
    /\ Absent \notin Drafts \cup Nat \cup [Drafts -> Nat \cup {Absent}]
                           \cup [id : Drafts, to : Nat \cup {Absent}]
                           \cup [id : Drafts, to : Nat \cup {Absent}, calls : Seq(Calls)]
    /\ Ops \subseteq OpNames /\ MaxRequests \in Nat

VARIABLES
    file,      \* {id}.json and {id}.paged.json: the version of each draft, or no file
    backup,    \* the same with the extension .json.bak
    request,   \* the request of the worker with the calls it still has to make
    version    \* how many requests there have been, and the last text

vars == <<file, backup, request, version>>

Nothing == [d \in Drafts |-> Absent]
Contents == [Drafts -> {Absent, 0}]

Init ==
    /\ file \in [Parts -> {Absent} \cup (Contents \ {Nothing})]
    /\ backup \in [Parts -> {Absent} \cup (Contents \ {Nothing})]
    /\ \A p \in Parts : backup[p] # Absent => "backup" \in Ops /\ file[p] = Absent
    /\ request = Absent /\ version = 0

\* read_partition.
Read(p) == IF file[p] # Absent THEN file[p]
           ELSE IF backup[p] # Absent THEN backup[p] ELSE Nothing

\* read: a paged draft goes before a small one of the same id.
Visible == [d \in Drafts |-> IF Read("paged")[d] # Absent THEN Read("paged")[d]
                             ELSE Read("small")[d]]

-----------------------------------------------------------------------------
\* Mutant: the old copy goes first.
CheckpointCallsDropFirst(p) ==
    <<[call |-> "drop", part |-> Other(p)], [call |-> "put", part |-> p],
      [call |-> "unback", part |-> p], [call |-> "sync", part |-> p]>>

\* The calls of a checkpoint: the new record first, then the other file.
CheckpointCalls(p) == <<[call |-> "put", part |-> p], [call |-> "unback", part |-> p],
                        [call |-> "sync", part |-> p], [call |-> "drop", part |-> Other(p)]>>

Idle == request = Absent /\ version < MaxRequests

Checkpoint(d, p) ==
    /\ Idle
    /\ version' = version + 1
    /\ request' = [id |-> d, to |-> version + 1, calls |-> CheckpointCalls(p)]
    /\ UNCHANGED <<file, backup>>

Discard(d) ==
    /\ Idle
    /\ version' = version + 1
    /\ request' = [id |-> d, to |-> Absent,
                   calls |-> <<[call |-> "drop", part |-> "small"],
                               [call |-> "drop", part |-> "paged"]>>]
    /\ UNCHANGED <<file, backup>>

Does(call) == request # Absent /\ request.calls # <<>> /\ Head(request.calls).call = call
Part       == Head(request.calls).part
Goes(more) == request' = [request EXCEPT !.calls = more \o Tail(@)]

\* write_partition: the whole file is replaced.
Put ==
    /\ Does("put")
    /\ file' = [file EXCEPT ![Part] = [Read(Part) EXCEPT ![request.id] = request.to]]
    /\ Goes(<<>>) /\ UNCHANGED <<backup, version>>

\* The result of removing the backup is ignored.
Unback ==
    /\ Does("unback")
    /\ \/ backup' = [backup EXCEPT ![Part] = Absent]
       \/ "fail" \in Ops /\ UNCHANGED backup
    /\ Goes(<<>>) /\ UNCHANGED <<file, version>>

\* The directory is synced; that it fails is reported after the fact.
Sync == /\ Does("sync") /\ Goes(<<>>) /\ UNCHANGED <<file, backup, version>>

\* remove_from_partition: an empty file is removed, another one is replaced.
Drop ==
    /\ Does("drop")
    /\ LET left  == [Read(Part) EXCEPT ![request.id] = Absent]
           clear == [call |-> "unback", part |-> Part]
           sync  == [call |-> "sync", part |-> Part]
       IN  \/ /\ left = Read(Part)
              /\ Goes(<<>>) /\ UNCHANGED file
           \/ /\ left # Read(Part) /\ left = Nothing
              /\ Goes(<<clear>>) /\ file' = [file EXCEPT ![Part] = Absent]
           \/ /\ left # Read(Part) /\ left # Nothing
              /\ Goes(<<clear, sync>>) /\ file' = [file EXCEPT ![Part] = left]
    /\ UNCHANGED <<backup, version>>

Ends == request' = Absent /\ UNCHANGED <<file, backup, version>>

Succeed == request # Absent /\ request.calls = <<>> /\ Ends

\* Reading, writing, renaming, removing and syncing may fail; what was done stays.
Fail == /\ "fail" \in Ops
        /\ \E call \in {"put", "sync", "drop"} : Does(call)
        /\ Ends

Crash == "crash" \in Ops /\ request # Absent /\ Ends

Next ==
    \/ \E d \in Drafts : Discard(d) \/ \E p \in Parts : Checkpoint(d, p)
    \/ Put \/ Unback \/ Sync \/ Drop \/ Succeed \/ Fail \/ Crash

Spec == Init /\ [][Next]_vars

-----------------------------------------------------------------------------
Register == INSTANCE DraftRegister WITH
    value <- Visible,
    request <- IF request = Absent THEN Absent ELSE [id |-> request.id, to |-> request.to]

\* The two files of a workspace are one durable register for each draft, whatever call
\* fails and wherever the daemon ends (checkpoint, discard, list): a draft that moves
\* between them is at every instant what it was or what it becomes, the other drafts of the
\* file are untouched, and an answer of success is final.
OneCopy == Register!Spec
=============================================================================
