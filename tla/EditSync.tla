------------------------------ MODULE EditSync ------------------------------
(***************************************************************************)
(* The host-side revision state machine of crates/fresh-gui-client/src/    *)
(* edit_sync.rs.  A text is an opaque value: the byte-range diff the code  *)
(* computes is represented by the pair of texts it leads from and to, and  *)
(* what is kept of a conflict is the server version it offers (the base of *)
(* a ConflictSnapshot is only displayed).                                  *)
(***************************************************************************)
EXTENDS Naturals

CONSTANTS
    Text,       \* the texts a buffer can hold
    EmptyText,  \* String::new()
    None        \* the absent value of every Option

ASSUME TextAssumption == EmptyText \in Text /\ None \notin Text

Version == [rev : Nat, text : Text]

\* struct EditSync: acknowledged_text, revision, sent_text, conflict.
Sync == [ack : Text, rev : Nat, sent : Text \cup {None},
         conf : Version \cup {None}]

ASSUME NoneAssumption == None \notin Version /\ None \notin Sync

NewSync(text, rev) == [ack |-> text, rev |-> rev, sent |-> None, conf |-> None]

-----------------------------------------------------------------------------
\* begin_edit: one request outstanding, none while a conflict is unresolved,
\* none for an empty diff.
CanBegin(s, draft) == s.sent = None /\ s.conf = None /\ s.ack # draft

BeginEdit(s, draft) == [s EXCEPT !.sent = draft]

Finish(s, accepted, rev, text) ==
    IF accepted THEN NewSync(text, rev)
                ELSE [s EXCEPT !.sent = None,
                               !.conf = [rev |-> rev, text |-> text]]

\* resolve_conflict, when there is a conflict to take.
ResolveConflict(s) == NewSync(s.conf.text, s.conf.rev)

-----------------------------------------------------------------------------
\* Mutant: a draft counts as untouched when the server has not seen it arrive.
ReconciliationOfSent(s, text, draft) ==
    IF draft \in {s.ack, s.sent, text} THEN "Adopted"
    ELSE IF text = s.ack THEN "KeepDraft"
    ELSE "Conflict"

\* reconcile_snapshot: what becomes of a draft when a server text arrives.
Reconciliation(s, text, draft) ==
    IF draft \in {s.ack, text} THEN "Adopted"
    ELSE IF text \in {s.ack, s.sent} THEN "KeepDraft"
    ELSE "Conflict"

Divergent(s, rev, text) ==
    [s EXCEPT !.sent = None, !.conf = [rev |-> rev, text |-> text]]

\* Mutant: the base stays behind when the text sent is recognized.
ReconcileWithoutAdvance(s, rev, text, draft) ==
    LET outcome == Reconciliation(s, text, draft)
    IN  [outcome |-> outcome,
         sync    |-> CASE outcome = "Conflict"  -> Divergent(s, rev, text)
                       [] outcome = "KeepDraft" -> NewSync(s.ack, rev)
                       [] OTHER -> NewSync(text, rev)]

\* Mutant: the request stays in flight (sent_text is not taken).
ReconcileStillInFlight(s, rev, text, draft) ==
    LET outcome == Reconciliation(s, text, draft)
    IN  [outcome |-> outcome,
         sync    |-> IF outcome = "Conflict" THEN Divergent(s, rev, text)
                     ELSE [NewSync(text, rev) EXCEPT !.sent = s.sent]]

ReconcileSnapshot(s, rev, text, draft) ==
    LET outcome == Reconciliation(s, text, draft)
    IN  [outcome |-> outcome,
         sync    |-> IF outcome = "Conflict" THEN Divergent(s, rev, text)
                                             ELSE NewSync(text, rev)]

\* reconcile_protected_snapshot: a dirty buffer is not replaced by a third text.
ReconcileProtectedSnapshot(s, rev, text, draft, dirty) ==
    IF dirty /\ text \notin {draft, s.ack, s.sent}
    THEN [outcome |-> "Conflict", sync |-> Divergent(s, rev, text)]
    ELSE ReconcileSnapshot(s, rev, text, draft)

\* from_initial_snapshot: typing before the first server text has no base.
FromInitialSnapshot(text, rev, draft, changed) ==
    IF changed /\ draft # text
    THEN [outcome |-> "Conflict",
          sync    |-> Finish(NewSync(EmptyText, 0), FALSE, rev, text)]
    ELSE [outcome |-> "Adopted", sync |-> NewSync(text, rev)]
=============================================================================
