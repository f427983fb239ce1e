---------------------------- MODULE DraftRegister ----------------------------
(***************************************************************************)
(* What the draft store promises: one durable value for each draft, changed *)
(* at one instant between the request and its answer, kept by an answer of  *)
(* success, and left either old or new by a failure or the end of the       *)
(* daemon.  DraftStore shows that the two files of a workspace keep it.     *)
(***************************************************************************)
EXTENDS Naturals

CONSTANTS
    Drafts,    \* draft ids of one workspace
    Absent     \* the value of a draft that is not stored

DraftsAssumption == Absent \notin Drafts \cup Nat

VARIABLES
    value,     \* what list and get would return, by draft
    request    \* the checkpoint or discard under way: [id, to], or Absent

vars == <<value, request>>

Versions == Nat \cup {Absent}

TypeOK ==
    /\ value \in [Drafts -> Versions]
    /\ request \in [id : Drafts, to : Versions] \cup {Absent}

Init == value \in [Drafts -> Versions] /\ request = Absent

Ask == /\ request = Absent
       /\ request' \in [id : Drafts, to : Versions]
       /\ UNCHANGED value

Apply == /\ request # Absent
         /\ value' = [value EXCEPT ![request.id] = request.to]
         /\ UNCHANGED request

Succeed == /\ request # Absent /\ value[request.id] = request.to
           /\ request' = Absent /\ UNCHANGED value

\* An error, or the end of the daemon: the value is the old one or the new one.
GiveUp == /\ request # Absent /\ request' = Absent /\ UNCHANGED value

Next == Ask \/ Apply \/ Succeed \/ GiveUp

Spec == Init /\ [][Next]_vars
=============================================================================
