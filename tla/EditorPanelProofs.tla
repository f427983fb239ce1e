-------------------------- MODULE EditorPanelProofs --------------------------
(***************************************************************************)
(* For all texts, ids and inputs.  In every behaviour of the environment   *)
(* but a restart of the daemon: the types, and that an edit the daemon     *)
(* accepts was computed against the text it is applied to.  In every one   *)
(* in which no open file is opened again: nothing the panel has begun is   *)
(* held back, and no answer replaces a draft the daemon has not seen.      *)
(*                                                                         *)
(* The argument: whatever version a panel, an answer or an edit refers to  *)
(* is one the buffer had (HeardInv), so that it is the buffer's text if it *)
(* has the buffer's revision.  A handler keeps that for its panel because  *)
(* it rests its base on nothing but answers; the buffer keeps it because   *)
(* its text never changes without a new revision.                          *)
(***************************************************************************)
EXTENDS EditorPanel, TLAPS

-----------------------------------------------------------------------------
(* EditSync: a base is typed, and rests on a version that was heard of.    *)

\* A new base is one that was heard of.
LEMMA NewSyncGrounded ==
    ASSUME NEW rev \in Nat, NEW text \in Text, Heard(rev, text)
    PROVE  /\ NewSync(text, rev) \in Sync /\ Grounded(NewSync(text, rev))
           /\ NewSync(text, rev).conf = None /\ NewSync(text, rev).sent = None
           /\ NewSync(text, rev).rev = rev /\ NewSync(text, rev).ack = text
BY DEF NewSync, Sync, Grounded

\* A conflict keeps the base and offers a version that was heard of.
LEMMA DivergentGrounded ==
    ASSUME NEW s \in Sync, NEW rev \in Nat, NEW text \in Text, Heard(rev, text)
    PROVE  /\ Divergent(s, rev, text) \in Sync /\ Grounded(Divergent(s, rev, text))
           /\ Divergent(s, rev, text).conf # None
           /\ Divergent(s, rev, text).rev = s.rev /\ Divergent(s, rev, text).ack = s.ack
<1>1. [rev |-> rev, text |-> text] \in Version
  BY DEF Version
<1>2. [rev |-> rev, text |-> text] # None
  BY <1>1, NoneAssumption
<1> QED
  BY <1>1, <1>2 DEF Divergent, Sync, Grounded

\* The three ways a server text is reconciled: the base moves to the text, or
\* stays where it is while a conflict offers the text.
Reconciled(r, s, rev, text) ==
    \/ r.outcome \in {"Adopted", "KeepDraft"} /\ r.sync = NewSync(text, rev)
    \/ r.outcome = "Conflict" /\ r.sync = Divergent(s, rev, text)

LEMMA SnapshotReconciled ==
    ASSUME NEW s, NEW rev, NEW text, NEW draft
    PROVE  Reconciled(ReconcileSnapshot(s, rev, text, draft), s, rev, text)
BY DEF Reconciled, ReconcileSnapshot, Reconciliation

LEMMA ProtectedReconciled ==
    ASSUME NEW s, NEW rev, NEW text, NEW draft, NEW dirty
    PROVE  Reconciled(ReconcileProtectedSnapshot(s, rev, text, draft, dirty), s, rev, text)
BY SnapshotReconciled DEF Reconciled, ReconcileProtectedSnapshot

LEMMA InitialReconciled ==
    ASSUME NEW rev, NEW text, NEW draft, NEW changed
    PROVE  Reconciled(FromInitialSnapshot(text, rev, draft, changed),
                      NewSync(EmptyText, 0), rev, text)
BY DEF Reconciled, FromInitialSnapshot, Finish, Divergent

-----------------------------------------------------------------------------
(* Panels.                                                                 *)

PanelOK(p) == p \in Panel /\ PanelHeard(p)

\* What a reconciliation leaves in a panel: a typed base, in conflict or not, and
\* the earlier base if there was one and it is in conflict.
LEMMA PanelReconciled ==
    ASSUME NEW p, PanelOK(p), NEW rev \in Nat, NEW text \in Text, Heard(rev, text)
    PROVE  LET r == Reconcile(p, rev, text) IN
           /\ r.outcome \in {"Adopted", "KeepDraft", "Conflict"}
           /\ r.sync \in Sync /\ Grounded(r.sync)
           /\ r.outcome # "Conflict" => r.sync.conf = None
           /\ p.editReq # None => Heard(r.sync.rev, r.sync.ack)
<1> DEFINE r == Reconcile(p, rev, text)
<1>1. CASE p.sync = None
  <2>1. Reconciled(r, NewSync(EmptyText, 0), rev, text)
    BY <1>1, InitialReconciled DEF Reconcile
  <2>2. NewSync(EmptyText, 0) \in Sync
    BY TextAssumption DEF NewSync, Sync
  <2>3. p.editReq = None
    BY <1>1 DEF PanelOK, PanelHeard
  <2> QED
    BY <2>1, <2>2, <2>3, NewSyncGrounded, DivergentGrounded DEF Reconciled
<1>2. CASE p.sync # None
  <2>1. Reconciled(r, p.sync, rev, text)
    BY <1>2, ProtectedReconciled DEF Reconcile
  <2>2. p.sync \in Sync
    BY <1>2 DEF PanelOK, Panel
  <2>3. p.editReq # None => Heard(p.sync.rev, p.sync.ack)
    BY DEF PanelOK, PanelHeard
  <2> QED
    BY <2>1, <2>2, <2>3, NewSyncGrounded, DivergentGrounded DEF Reconciled
<1> QED
  BY <1>1, <1>2

-----------------------------------------------------------------------------
(* Sending.                                                                *)

LEMMA RequestSent ==
    ASSUME NEW out \in Seq(Requests), EditsHeard(out), NEW m \in Requests,
           m.type = "edit" => Heard(m.base, m.from)
    PROVE  Append(out, m) \in Seq(Requests) /\ EditsHeard(Append(out, m))
BY DEF EditsHeard

LEMMA SendSyncOK ==
    ASSUME NEW p, PanelOK(p), NEW i \in Ids
    PROVE  PanelOK(SendSync(p, i))
<1> DEFINE m == [type |-> "sync", id |-> i]
<1>1. m \in Requests /\ m.type # "edit"
  BY DEF Requests
<1>2. p.out \in Seq(Requests) /\ EditsHeard(p.out)
  BY DEF PanelOK, Panel, PanelHeard
<1>3. Append(p.out, m) \in Seq(Requests) /\ EditsHeard(Append(p.out, m))
  BY <1>1, <1>2, RequestSent
<1>4. SendSync(p, i) \in Panel
  BY <1>3 DEF SendSync, PanelOK, Panel
<1>5. PanelHeard(SendSync(p, i))
  BY <1>3 DEF SendSync, PanelOK, Panel, PanelHeard
<1> QED
  BY <1>4, <1>5 DEF PanelOK

\* What a panel rests on is in five of its fields, of which two may be forgotten.
LEMMA SameGround ==
    ASSUME NEW p, PanelHeard(p), NEW q,
           q.sync = p.sync, q.conflict = p.conflict, q.out = p.out,
           q.editReq \in {p.editReq, None}, q.saveText \in {p.saveText, None}
    PROVE  PanelHeard(q)
BY DEF PanelHeard

LEMMA ScheduleOK ==
    ASSUME NEW p, PanelOK(p)
    PROVE  PanelOK(ScheduleEditFlush(p))
<1> DEFINE q == [p EXCEPT !.timer = TRUE]
<1>1. q \in Panel
  BY DEF PanelOK, Panel
<1>2. /\ q.sync = p.sync /\ q.conflict = p.conflict /\ q.out = p.out
      /\ q.editReq = p.editReq /\ q.saveText = p.saveText
  BY DEF PanelOK, Panel
<1> HIDE DEF q
<1>3. PanelOK(q)
  BY <1>1, <1>2, SameGround DEF PanelOK
<1> QED
  BY <1>3 DEF q, ScheduleEditFlush

LEMMA SetTextOK ==
    ASSUME NEW p, PanelOK(p), NEW text \in Text
    PROVE  LET q == SetText(p, text) IN
           /\ PanelOK(q)
           /\ q.sync = p.sync /\ q.conflict = p.conflict /\ q.editReq = p.editReq
<1> DEFINE q == SetText(p, text)
<1>1. q \in Panel
  BY DEF SetText, PanelOK, Panel
<1>2. /\ q.sync = p.sync /\ q.conflict = p.conflict /\ q.out = p.out
      /\ q.editReq = p.editReq /\ q.saveText = p.saveText
  BY DEF SetText, PanelOK, Panel
<1> HIDE DEF q
<1>3. PanelOK(q)
  BY <1>1, <1>2, SameGround DEF PanelOK
<1> QED
  BY <1>2, <1>3 DEF q

\* The panel that has sent an action or a save rests on the base it names.
LEMMA DrainOK ==
    ASSUME NEW p, PanelOK(p), NEW i \in Ids, ~Blocked(p), p.sync # None
    PROVE  PanelOK(DrainPending(p, i))
<1>1. p.sync \in Sync /\ p.sync.rev \in Nat /\ p.sync.conf = None
      /\ Heard(p.sync.rev, p.sync.ack)
  BY DEF PanelOK, Panel, PanelHeard, Blocked, Sync, Grounded
<1>2. p.out \in Seq(Requests) /\ EditsHeard(p.out)
  BY DEF PanelOK, Panel, PanelHeard
<1>3. CASE p.actions > 0
  <2> DEFINE m == [type |-> "action", id |-> i, base |-> p.sync.rev]
  <2>1. m \in Requests /\ m.type # "edit"
    BY <1>1 DEF Requests
  <2>2. Append(p.out, m) \in Seq(Requests) /\ EditsHeard(Append(p.out, m))
    BY <1>2, <2>1, RequestSent
  <2>3. p.actions \in Nat /\ p.actions - 1 \in Nat /\ p.draft \in Text
    BY <1>3 DEF PanelOK, Panel
  <2> DEFINE n == p.actions - 1
             out == Append(p.out, m)
             q == [p EXCEPT !.actions = n, !.editReq = i, !.action = TRUE,
                            !.actionText = p.draft, !.out = out]
  <2>4. DrainPending(p, i) = q
    BY <1>3 DEF DrainPending
  <2> HIDE DEF n, out
  <2>5. n \in Nat /\ out \in Seq(Requests) /\ EditsHeard(out)
    BY <2>2, <2>3 DEF n, out
  <2>6. q \in Panel
    BY <2>3, <2>5 DEF PanelOK, Panel
  <2>7. PanelHeard(q)
    BY <1>1, <2>5 DEF PanelOK, Panel, PanelHeard
  <2> QED
    BY <2>4, <2>6, <2>7 DEF PanelOK
<1>4. CASE ~(p.actions > 0) /\ p.pendingSave
  <2> DEFINE m == [type |-> "save", id |-> i, base |-> p.sync.rev]
  <2>1. m \in Requests /\ m.type # "edit"
    BY <1>1 DEF Requests
  <2>2. Append(p.out, m) \in Seq(Requests) /\ EditsHeard(Append(p.out, m))
    BY <1>2, <2>1, RequestSent
  <2>3. DrainPending(p, i) \in Panel
    BY <1>4, <2>2 DEF DrainPending, PanelOK, Panel
  <2>4. PanelHeard(DrainPending(p, i))
    BY <1>1, <1>4, <2>2 DEF DrainPending, PanelOK, Panel, PanelHeard
  <2> QED
    BY <2>3, <2>4 DEF PanelOK
<1>5. CASE ~(p.actions > 0) /\ ~p.pendingSave
  BY <1>5 DEF DrainPending
<1> QED
  BY <1>3, <1>4, <1>5

\* What flush_pending sends is an edit of a text that was heard of.
LEMMA FlushOK ==
    ASSUME NEW p, PanelOK(p), NEW i \in Ids
    PROVE  PanelOK(FlushPending(p, i))
<1>1. CASE Blocked(p)
  BY <1>1 DEF FlushPending
<1>2. CASE ~Blocked(p) /\ p.sync = None
  BY <1>2, SendSyncOK DEF FlushPending
<1>3. CASE ~Blocked(p) /\ p.sync # None /\ CanBegin(p.sync, p.draft)
  <2> DEFINE m == [type |-> "edit", id |-> i, base |-> p.sync.rev,
                   from |-> p.sync.ack, text |-> p.draft]
             s == BeginEdit(p.sync, p.draft)
             q == FlushPending(p, i)
  <2>1. p.sync \in Sync /\ p.sync.conf = None /\ p.draft \in Text
    BY <1>3 DEF PanelOK, Panel, CanBegin
  <2>2. p.sync.rev \in Nat /\ p.sync.ack \in Text /\ Heard(p.sync.rev, p.sync.ack)
    BY <1>3, <2>1 DEF PanelOK, PanelHeard, Grounded, Sync
  <2>3. s \in Sync /\ s.conf = None /\ s.rev = p.sync.rev /\ s.ack = p.sync.ack
    BY <2>1 DEF BeginEdit, Sync
  <2>4. m \in Requests
    BY <2>1, <2>2 DEF Requests
  <2>5. p.out \in Seq(Requests) /\ EditsHeard(p.out)
    BY DEF PanelOK, Panel, PanelHeard
  <2>6. Append(p.out, m) \in Seq(Requests) /\ EditsHeard(Append(p.out, m))
    BY <2>2, <2>4, <2>5, RequestSent
  <2>7. q = [p EXCEPT !.sync = s, !.editReq = i, !.out = Append(p.out, m)]
    BY <1>3 DEF FlushPending
  <2>8. q \in Panel
    BY <2>3, <2>6, <2>7 DEF PanelOK, Panel
  <2>9. PanelHeard(q)
    <3>1. q.sync = s /\ q.editReq = i /\ q.out = Append(p.out, m)
      BY <2>7 DEF PanelOK, Panel
    <3>2. s # None
      BY <2>3, NoneAssumption
    <3> HIDE DEF q, s, m
    <3> QED
      BY <2>2, <2>3, <2>6, <3>1, <3>2 DEF PanelHeard, Grounded
  <2> QED
    BY <2>8, <2>9 DEF PanelOK
<1>4. CASE ~Blocked(p) /\ p.sync # None /\ ~CanBegin(p.sync, p.draft)
  <2>1. CASE p.sync.ack # p.draft
    BY <1>4, <2>1 DEF FlushPending, PanelOK, Panel, PanelHeard
  <2>2. CASE p.sync.ack = p.draft
    BY <1>4, <2>2, DrainOK DEF FlushPending
  <2> QED
    BY <2>1, <2>2
<1> QED
  BY <1>1, <1>2, <1>3, <1>4
-----------------------------------------------------------------------------
(* The handlers of the panel.                                              *)

LEMMA DirtyOK ==
    ASSUME NEW p, PanelOK(p), NEW d \in BOOLEAN
    PROVE  PanelOK([p EXCEPT !.dirty = d])
<1> DEFINE q == [p EXCEPT !.dirty = d]
<1>1. q \in Panel
  BY DEF PanelOK, Panel
<1>2. /\ q.sync = p.sync /\ q.conflict = p.conflict /\ q.out = p.out
      /\ q.editReq = p.editReq /\ q.saveText = p.saveText
  BY DEF PanelOK, Panel
<1> HIDE DEF q
<1>3. PanelOK(q)
  BY <1>1, <1>2, SameGround DEF PanelOK
<1> QED
  BY <1>3 DEF q

\* A panel with a new base.
LEMMA RebasedOK ==
    ASSUME NEW p, PanelOK(p), NEW q \in Panel, q.out = p.out,
           q.sync \in Sync, Grounded(q.sync), q.sync.conf # None => q.conflict,
           q.editReq # None => Heard(q.sync.rev, q.sync.ack)
    PROVE  PanelOK(q)
<1>1. q.sync # None
  BY NoneAssumption
<1> QED
  BY <1>1 DEF PanelOK, PanelHeard

LEMMA OnOpenedOK ==
    ASSUME NEW p, PanelOK(p), NEW i \in Ids
    PROVE  PanelOK(OnOpened(p, i))
<1> DEFINE q == [p EXCEPT !.jump = TRUE, !.connected = TRUE, !.paused = FALSE,
                          !.editReq = None, !.saveReq = None, !.saveText = None]
<1>1. q \in Panel
  BY DEF PanelOK, Panel
<1>2. /\ q.sync = p.sync /\ q.conflict = p.conflict /\ q.out = p.out
      /\ q.editReq = None /\ q.saveText = None
  BY DEF PanelOK, Panel
<1> HIDE DEF q
<1>3. PanelOK(q)
  BY <1>1, <1>2, SameGround DEF PanelOK
<1>4. PanelOK(SendSync(q, i))
  BY <1>3, SendSyncOK
<1> QED
  BY <1>4 DEF q, OnOpened

LEMMA DetachOK ==
    ASSUME NEW p, PanelOK(p)
    PROVE  PanelOK(Detach(p))
<1> DEFINE q == Detach(p)
<1>1. q \in Panel
  BY DEF Detach, PanelOK, Panel
<1>2. /\ q.sync = p.sync /\ q.conflict = p.conflict /\ q.out = p.out
      /\ q.editReq = None /\ q.saveText = None
  BY DEF Detach, PanelOK, Panel
<1> HIDE DEF q
<1>3. PanelOK(q)
  BY <1>1, <1>2, SameGround DEF PanelOK
<1> QED
  BY <1>3 DEF q

\* What reconciling leaves of a panel, before it is shown or flushed.
LEMMA ReconciledOK ==
    ASSUME NEW p, PanelOK(p), NEW rev \in Nat, NEW text \in Text, Heard(rev, text),
           NEW syncReq \in {p.syncReq, None}
    PROVE  LET r == Reconcile(p, rev, text) IN
           PanelOK([p EXCEPT !.syncReq = syncReq, !.sync = r.sync, !.rev = rev,
                             !.conflict = r.outcome = "Conflict"])
<1> DEFINE r == Reconcile(p, rev, text)
           s == r.sync
           c == r.outcome = "Conflict"
           q == [p EXCEPT !.syncReq = syncReq, !.sync = s, !.rev = rev, !.conflict = c]
<1>1. /\ s \in Sync /\ Grounded(s) /\ (s.conf # None => c) /\ c \in BOOLEAN
      /\ p.editReq # None => Heard(s.rev, s.ack)
  BY PanelReconciled
<1> HIDE DEF s, c, r
<1>2. q \in Panel
  BY <1>1 DEF PanelOK, Panel
<1>3. q.sync = s /\ q.conflict = c /\ q.out = p.out /\ q.editReq = p.editReq
  BY <1>1 DEF PanelOK, Panel
<1> HIDE DEF q
<1>4. PanelOK(q)
  BY <1>1, <1>2, <1>3, RebasedOK
<1> QED
  BY <1>4 DEF q, s, c, r

LEMMA OnSnapshotOK ==
    ASSUME NEW p, PanelOK(p), NEW i \in Ids, NEW m,
           m.rev \in Nat, m.text \in Text, Heard(m.rev, m.text)
    PROVE  PanelOK(OnSnapshot(p, m, i))
<1> DEFINE r == Reconcile(p, m.rev, m.text)
           q == [p EXCEPT !.sync = r.sync, !.rev = m.rev,
                          !.conflict = r.outcome = "Conflict"]
           t == TakeSnapshot(p, m.rev, m.text)
<1>1. PanelOK(q)
  <2>1. p.syncReq \in {p.syncReq, None} /\ p \in Panel
    BY DEF PanelOK
  <2>2. q = [p EXCEPT !.syncReq = p.syncReq, !.sync = r.sync, !.rev = m.rev,
                      !.conflict = r.outcome = "Conflict"]
    <3> HIDE DEF r
    <3> QED
      BY <2>1 DEF Panel
  <2> QED
    BY <2>1, <2>2, ReconciledOK
<1>2. PanelOK(t)
  <2>1. PanelOK(ScheduleEditFlush(q))
    BY <1>1, ScheduleOK
  <2>2. PanelOK([SetText(q, m.text) EXCEPT !.dirty = FALSE])
    BY <1>1, SetTextOK, DirtyOK
  <2>3. t \in {q, ScheduleEditFlush(q), [SetText(q, m.text) EXCEPT !.dirty = FALSE]}
    BY PanelReconciled DEF TakeSnapshot
  <2> HIDE DEF q, r, t
  <2> QED
    BY <1>1, <2>1, <2>2, <2>3
<1>3. PanelOK(SendSync(t, i))
  BY <1>2, SendSyncOK
<1>4. OnSnapshot(p, m, i) \in {p, t, SendSync(t, i)}
  BY DEF OnSnapshot
<1> HIDE DEF t
<1> QED
  BY <1>2, <1>3, <1>4

LEMMA OnSyncResultOK ==
    ASSUME NEW p, PanelOK(p), NEW i \in Ids, NEW m, m.rev \in Nat, m.text \in Text,
           m.dirty \in BOOLEAN, Heard(m.rev, m.text)
    PROVE  PanelOK(OnSyncResult(p, m, i))
<1> DEFINE r == Reconcile(p, m.rev, m.text)
           q == [p EXCEPT !.syncReq = None, !.sync = r.sync, !.rev = m.rev,
                          !.conflict = r.outcome = "Conflict"]
           s == CASE r.outcome = "Adopted" /\ (p.draft # m.text \/ p.jump) ->
                        SetText(q, m.text)
                  [] r.outcome = "KeepDraft" -> ScheduleEditFlush(q)
                  [] OTHER -> q
           d == m.dirty \/ s.draft # m.text \/ s.conflict
           t == [s EXCEPT !.dirty = d]
<1>1. PanelOK(q)
  BY ReconciledOK
<1>2. PanelOK(s)
  <2>1. s \in {SetText(q, m.text), ScheduleEditFlush(q), q}
    OBVIOUS
  <2> HIDE DEF q, r, s
  <2> QED
    BY <1>1, <2>1, SetTextOK, ScheduleOK
<1>3. d \in BOOLEAN
  <2> HIDE DEF s
  <2>1. s.conflict \in BOOLEAN
    BY <1>2 DEF PanelOK, Panel
  <2> QED
    BY <2>1
<1>4. PanelOK(t)
  <2> HIDE DEF s, d
  <2> QED
    BY <1>2, <1>3, DirtyOK
<1>5. PanelOK(FlushPending(t, i))
  <2> HIDE DEF t
  <2> QED
    BY <1>4, FlushOK
<1> QED
  BY <1>5 DEF OnSyncResult

LEMMA OnRejectedOK ==
    ASSUME NEW p, PanelOK(p), p.editReq # None,
           NEW m, m.rev \in Nat, m.text \in Text, Heard(m.rev, m.text)
    PROVE  PanelOK(OnRejected(p, m))
<1> DEFINE s == Finish(p.sync, FALSE, m.rev, m.text)
           q == OnRejected(p, m)
<1>1. p.sync \in Sync
  BY DEF PanelOK, PanelHeard, Panel
<1>2. s \in Sync /\ Grounded(s)
  BY <1>1, DivergentGrounded DEF Finish, Divergent
<1>3. q \in Panel
  BY <1>2 DEF OnRejected, PanelOK, Panel
<1>4. q.sync = s /\ q.conflict = TRUE /\ q.out = p.out /\ q.editReq = None
  BY DEF OnRejected, PanelOK, Panel
<1> HIDE DEF q, s
<1> QED
  BY <1>2, <1>3, <1>4, RebasedOK DEF q

LEMMA OnAcceptedOK ==
    ASSUME NEW p, PanelOK(p), p.editReq # None, NEW i \in Ids, NEW m, m.rev \in Nat,
           m.text \in Text, m.dirty \in BOOLEAN, Heard(m.rev, m.text)
    PROVE  PanelOK(OnAccepted(p, m, i))
<1> DEFINE same == p.actionText = p.draft
           sync == IF ~p.action THEN Finish(p.sync, TRUE, m.rev, m.text)
                   ELSE IF same THEN ReconcileSnapshot(p.sync, m.rev, m.text, p.draft).sync
                   ELSE Finish(p.sync, FALSE, m.rev, m.text)
           c == sync.conf # None
           q == [p EXCEPT !.editReq = None, !.rev = m.rev, !.action = FALSE,
                          !.actionText = None, !.sync = sync, !.conflict = c]
           s == IF p.action /\ same THEN SetText(q, m.text) ELSE q
           e == m.dirty \/ s.draft # m.text \/ s.conflict
           d == [s EXCEPT !.dirty = e]
<1>1. p.sync \in Sync
  BY DEF PanelOK, PanelHeard, Panel
<1>2. sync \in Sync /\ Grounded(sync)
  <2>1. sync \in {NewSync(m.text, m.rev), Divergent(p.sync, m.rev, m.text)}
    <3>1. Reconciled(ReconcileSnapshot(p.sync, m.rev, m.text, p.draft),
                     p.sync, m.rev, m.text)
      BY SnapshotReconciled
    <3> QED
      BY <3>1 DEF Reconciled, Finish, Divergent
  <2>2. /\ NewSync(m.text, m.rev) \in Sync /\ Grounded(NewSync(m.text, m.rev))
        /\ Divergent(p.sync, m.rev, m.text) \in Sync
        /\ Grounded(Divergent(p.sync, m.rev, m.text))
    BY <1>1, NewSyncGrounded, DivergentGrounded
  <2> HIDE DEF sync
  <2> QED
    BY <2>1, <2>2
<1> HIDE DEF sync
<1>3. PanelOK(q)
  <2> c \in BOOLEAN
    OBVIOUS
  <2> HIDE DEF c
  <2>1. q \in Panel
    BY <1>2 DEF PanelOK, Panel
  <2>2. q.sync = sync /\ q.conflict = c /\ q.out = p.out /\ q.editReq = None
    BY DEF PanelOK, Panel
  <2> HIDE DEF q
  <2> QED
    BY <1>2, <2>1, <2>2, RebasedOK DEF c
<1>4. PanelOK(s)
  <2> HIDE DEF q
  <2> QED
    BY <1>3, SetTextOK
<1>5. e \in BOOLEAN
  <2> HIDE DEF s
  <2>1. s.conflict \in BOOLEAN
    BY <1>4 DEF PanelOK, Panel
  <2> QED
    BY <2>1
<1>6. PanelOK(d)
  <2> HIDE DEF s, e
  <2> QED
    BY <1>4, <1>5, DirtyOK
<1>7. PanelOK([d EXCEPT !.pendingSave = FALSE])
  <2> DEFINE t == [d EXCEPT !.pendingSave = FALSE]
  <2> HIDE DEF d
  <2>1. t \in Panel
    BY <1>6 DEF PanelOK, Panel
  <2>2. /\ t.sync = d.sync /\ t.conflict = d.conflict /\ t.out = d.out
        /\ t.editReq = d.editReq /\ t.saveText = d.saveText
    BY <1>6 DEF PanelOK, Panel
  <2> HIDE DEF t
  <2>3. PanelOK(t)
    BY <1>6, <2>1, <2>2, SameGround DEF PanelOK
  <2> QED
    BY <2>3 DEF t
<1>8. PanelOK(FlushPending(d, i))
  <2> HIDE DEF d
  <2> QED
    BY <1>6, FlushOK
<1>9. OnAccepted(p, m, i) = IF d.conflict THEN [d EXCEPT !.pendingSave = FALSE]
                                          ELSE FlushPending(d, i)
  BY DEF OnAccepted, sync
<1> HIDE DEF d
<1> QED
  BY <1>7, <1>8, <1>9

LEMMA OnResultOK ==
    ASSUME NEW p, PanelOK(p), NEW i \in Ids, NEW m, m.id \in Ids, m.rev \in Nat,
           m.text \in Text, m.dirty \in BOOLEAN, Heard(m.rev, m.text)
    PROVE  PanelOK(OnResult(p, m, i))
<1>1. p.editReq = m.id => p.editReq # None
  BY PanelAssumption
<1> QED
  BY <1>1, OnSyncResultOK, OnAcceptedOK, OnRejectedOK DEF OnResult

\* What the panel takes for the text written is what the daemon says was written.
LEMMA TakeWrittenOK ==
    ASSUME NEW p, PanelOK(p), NEW m, m.rev \in Nat, m.text \in Text, Heard(m.rev, m.text)
    PROVE  LET q == TakeWritten(p, m) IN PanelOK(q) /\ q.saveText \in {None, m.text}
<1>1. CASE p.saveText = p.draft
  <2> DEFINE t == SetText(p, m.text)
             q == [t EXCEPT !.saveText = m.text]
  <2>1. PanelOK(t) /\ t.sync = p.sync
    BY SetTextOK
  <2>2. p.draft # None
    BY TextAssumption DEF PanelOK, Panel
  <2>3. p.sync # None
    BY <1>1, <2>2 DEF PanelOK, PanelHeard
  <2> HIDE DEF t
  <2>4. q \in Panel
    BY <2>1 DEF PanelOK, Panel
  <2>5. /\ q.sync = t.sync /\ q.conflict = t.conflict /\ q.out = t.out
        /\ q.editReq = t.editReq /\ q.saveText = m.text
    BY <2>1 DEF PanelOK, Panel
  <2> HIDE DEF q
  <2>6. PanelHeard(q)
    BY <2>1, <2>3, <2>5 DEF PanelOK, PanelHeard
  <2> QED
    BY <1>1, <2>4, <2>5, <2>6 DEF PanelOK, TakeWritten, q, t
<1>2. CASE p.saveText # p.draft /\ p.saveText \in {None, m.text}
  BY <1>2 DEF TakeWritten
<1>3. CASE p.saveText # p.draft /\ p.saveText \notin {None, m.text}
  <2> DEFINE r == ReconcileSnapshot(p.sync, m.rev, m.text, p.draft)
             s == r.sync
             c == p.conflict \/ r.outcome = "Conflict"
             q == [p EXCEPT !.sync = s, !.saveText = m.text, !.conflict = c]
  <2>1. p.sync \in Sync
    BY <1>3 DEF PanelOK, PanelHeard, Panel
  <2>2. Reconciled(r, p.sync, m.rev, m.text)
    BY SnapshotReconciled
  <2>3. /\ s \in Sync /\ Grounded(s) /\ (s.conf # None => r.outcome = "Conflict")
        /\ p.editReq # None => Heard(s.rev, s.ack)
    <3>1. p.editReq # None => Heard(p.sync.rev, p.sync.ack)
      BY DEF PanelOK, PanelHeard
    <3> HIDE DEF r
    <3> QED
      BY <2>1, <2>2, <3>1, NewSyncGrounded, DivergentGrounded DEF Reconciled
  <2> c \in BOOLEAN
    BY DEF PanelOK, Panel
  <2>4. s.conf # None => c
    BY <2>3
  <2> HIDE DEF s, c
  <2>5. q \in Panel
    BY <2>3 DEF PanelOK, Panel
  <2>6. /\ q.sync = s /\ q.conflict = c /\ q.out = p.out
        /\ q.editReq = p.editReq /\ q.saveText = m.text
    BY DEF PanelOK, Panel
  <2>7. TakeWritten(p, m) = q
    BY <1>3 DEF TakeWritten, s, c
  <2> HIDE DEF q
  <2>8. PanelOK(q)
    BY <2>3, <2>4, <2>5, <2>6, RebasedOK
  <2> QED
    BY <2>6, <2>7, <2>8
<1> QED
  BY <1>1, <1>2, <1>3

LEMMA MarkSavedOK ==
    ASSUME NEW p, PanelOK(p), NEW i \in Ids, NEW m, m.rev \in Nat, m.text \in Text,
           m.dirty \in BOOLEAN, Heard(m.rev, m.text), p.saveText \in {None, m.text}
    PROVE  PanelOK(MarkSaved(p, m, i))
<1> DEFINE sync == IF p.saveText = None THEN p.sync
                   ELSE Finish(p.sync, TRUE, m.rev, p.saveText)
           c == p.saveText \notin {None, p.draft}
           q == [p EXCEPT !.rev = m.rev, !.saveReq = None, !.saveText = None,
                          !.sync = sync, !.dirty = c]
           s == IF q.dirty THEN FlushPending(q, i) ELSE q
           d == s.dirty \/ m.dirty
<1>1. PanelOK(q)
  <2> c \in BOOLEAN
    OBVIOUS
  <2> HIDE DEF c
  <2>1. CASE p.saveText = None
    <3>1. sync = p.sync
      BY <2>1
    <3> HIDE DEF sync
    <3>2. q \in Panel
      BY <3>1 DEF PanelOK, Panel
    <3>3. /\ q.sync = p.sync /\ q.conflict = p.conflict /\ q.out = p.out
          /\ q.editReq = p.editReq /\ q.saveText = None
      BY <3>1 DEF PanelOK, Panel
    <3> HIDE DEF q
    <3> QED
      BY <3>2, <3>3, SameGround DEF PanelOK
  <2>2. CASE p.saveText # None
    <3>1. sync = NewSync(m.text, m.rev)
      BY <2>2 DEF Finish
    <3> HIDE DEF sync
    <3>2. /\ sync \in Sync /\ Grounded(sync) /\ sync.conf = None
          /\ Heard(sync.rev, sync.ack)
      BY <3>1, NewSyncGrounded
    <3>3. q \in Panel
      <4>1. p \in Panel /\ sync \in Sync \cup {None}
        BY <3>2 DEF PanelOK
      <4> QED
        BY <4>1 DEF Panel
    <3>4. q.sync = sync /\ q.out = p.out
      BY DEF PanelOK, Panel
    <3> HIDE DEF q
    <3> QED
      BY <3>2, <3>3, <3>4, RebasedOK
  <2> QED
    BY <2>1, <2>2
<1>2. PanelOK(s)
  <2> HIDE DEF q
  <2> QED
    BY <1>1, FlushOK
<1>3. d \in BOOLEAN
  <2> HIDE DEF s
  <2> QED
    BY <1>2 DEF PanelOK, Panel
<1>4. PanelOK([s EXCEPT !.dirty = d])
  <2> HIDE DEF s, d
  <2> QED
    BY <1>2, <1>3, DirtyOK
<1> QED
  BY <1>4 DEF MarkSaved

LEMMA OnSavedOK ==
    ASSUME NEW p, PanelOK(p), NEW i \in Ids, NEW m, m.rev \in Nat, m.text \in Text,
           m.dirty \in BOOLEAN, Heard(m.rev, m.text)
    PROVE  PanelOK(OnSaved(p, m, i))
BY TakeWrittenOK, MarkSavedOK DEF OnSaved

LEMMA OnStateOK ==
    ASSUME NEW p, PanelOK(p), NEW m, m.rev \in Nat, m.text \in Text \cup {None},
           m.text # None => Heard(m.rev, m.text)
    PROVE  PanelOK(OnState(p, m))
<1>1. CASE ~TakesState(p, m)
  BY <1>1 DEF OnState
<1>2. CASE TakesState(p, m)
  <2> DEFINE r == Reconcile(p, m.rev, m.text)
             s == r.sync
             q == [p EXCEPT !.sync = s, !.rev = m.rev]
             Shown(c) == [q EXCEPT !.conflict = c]
             e == [SetText(q, m.text) EXCEPT !.dirty = TRUE, !.conflict = FALSE]
  <2>1. m.text \in Text /\ Heard(m.rev, m.text) /\ p.editReq = None
    BY <1>2 DEF TakesState, Idle
  <2>2. /\ r.outcome \in {"Adopted", "KeepDraft", "Conflict"}
        /\ s \in Sync /\ Grounded(s) /\ (r.outcome # "Conflict" => s.conf = None)
    BY <2>1, PanelReconciled
  <2> HIDE DEF r, s
  <2>3. /\ q \in Panel
        /\ q.sync = s /\ q.out = p.out /\ q.editReq = None /\ q.conflict = p.conflict
    BY <2>1, <2>2 DEF PanelOK, Panel
  <2> HIDE DEF q
  <2>4. \A c \in BOOLEAN : (s.conf # None => c) => PanelOK(Shown(c))
    <3> SUFFICES ASSUME NEW c \in BOOLEAN, s.conf # None => c
                 PROVE  PanelOK(Shown(c))
      OBVIOUS
    <3>1. /\ Shown(c) \in Panel /\ Shown(c).conflict = c
          /\ Shown(c).sync = s /\ Shown(c).out = p.out /\ Shown(c).editReq = None
      BY <2>3 DEF Panel
    <3> HIDE DEF Shown
    <3> QED
      BY <2>2, <3>1, RebasedOK
  <2>5. r.outcome # "Conflict" => PanelOK(q)
    BY <2>1, <2>2, <2>3, RebasedOK
  <2>6. r.outcome # "Conflict" => PanelOK(e)
    <3> SUFFICES ASSUME r.outcome # "Conflict" PROVE PanelOK(e)
      OBVIOUS
    <3> DEFINE t == SetText(q, m.text)
    <3>1. PanelOK(t) /\ t.sync = s
      BY <2>1, <2>3, <2>5, SetTextOK
    <3> HIDE DEF t
    <3> DEFINE u == [t EXCEPT !.dirty = TRUE, !.conflict = FALSE]
    <3>2. u \in Panel
      BY <3>1 DEF PanelOK, Panel
    <3>3. u.sync = t.sync /\ u.out = t.out /\ u.editReq = t.editReq
      BY <3>1 DEF PanelOK, Panel
    <3> HIDE DEF u
    <3>4. t.editReq # None => Heard(s.rev, s.ack)
      BY <3>1 DEF PanelOK, PanelHeard
    <3>5. PanelOK(u)
      BY <2>2, <3>1, <3>2, <3>3, <3>4, RebasedOK
    <3> QED
      BY <3>5 DEF t, u
  <2>7. \/ OnState(p, m) = Shown(TRUE)
        \/ r.outcome # "Conflict" /\ OnState(p, m) \in {ScheduleEditFlush(q), e, Shown(FALSE)}
    <3> HIDE DEF e
    <3> QED
      BY <1>2, <2>2 DEF OnState, q, r, s, e
  <2> HIDE DEF Shown, e
  <2> QED
    BY <2>2, <2>4, <2>5, <2>6, <2>7, ScheduleOK
<1> QED
  BY <1>1, <1>2

LEMMA OnErrorOK ==
    ASSUME NEW p, PanelOK(p), NEW i \in Ids, NEW m, m.id \in Ids
    PROVE  PanelOK(OnError(p, m, i))
<1>1. CASE p.editReq = m.id
  <2> DEFINE s == ReconcileSnapshot(p.sync, p.sync.rev, p.sync.ack, p.draft).sync
             q == OnError(p, m, i)
  <2>1. p.editReq # None
    BY <1>1, PanelAssumption
  <2>2. p.sync \in Sync /\ Heard(p.sync.rev, p.sync.ack)
    BY <2>1 DEF PanelOK, PanelHeard, Panel
  <2>3. s = NewSync(p.sync.ack, p.sync.rev)
    BY DEF ReconcileSnapshot, Reconciliation
  <2>4. s \in Sync /\ Grounded(s) /\ s.conf = None
    BY <2>2, <2>3, NewSyncGrounded DEF Sync
  <2> HIDE DEF s
  <2>5. q = [p EXCEPT !.editReq = None, !.action = FALSE, !.actionText = None,
                      !.sync = s, !.paused = TRUE, !.pendingSave = FALSE, !.actions = 0]
    BY <1>1 DEF OnError, s
  <2> HIDE DEF q
  <2>6. q \in Panel
    <3>1. p \in Panel /\ s \in Sync \cup {None}
      BY <2>4 DEF PanelOK
    <3> QED
      BY <2>5, <3>1 DEF Panel
  <2>7. q.sync = s /\ q.out = p.out /\ q.editReq = None
    BY <2>5 DEF PanelOK, Panel
  <2>8. PanelOK(q)
    BY <2>4, <2>6, <2>7, RebasedOK
  <2> QED
    BY <2>8 DEF q
<1>2. CASE p.editReq # m.id /\ p.saveReq = m.id
  <2> DEFINE q == [p EXCEPT !.saveReq = None, !.saveText = None]
  <2>1. /\ q \in Panel /\ q.sync = p.sync /\ q.conflict = p.conflict
        /\ q.out = p.out /\ q.editReq = p.editReq /\ q.saveText = None
    BY DEF PanelOK, Panel
  <2> HIDE DEF q
  <2>2. PanelOK(FlushPending(q, i))
    BY <2>1, SameGround, FlushOK DEF PanelOK
  <2> QED
    BY <1>2, <2>2 DEF OnError, q
<1>3. CASE p.editReq # m.id /\ p.saveReq # m.id /\ p.syncReq = m.id
  <2> DEFINE q == [p EXCEPT !.syncReq = None, !.paused = TRUE]
  <2>1. /\ q \in Panel /\ q.sync = p.sync /\ q.conflict = p.conflict
        /\ q.out = p.out /\ q.editReq = p.editReq /\ q.saveText = p.saveText
    BY DEF PanelOK, Panel
  <2> HIDE DEF q
  <2>2. PanelOK(q)
    BY <2>1, SameGround DEF PanelOK
  <2> QED
    BY <1>3, <2>2 DEF OnError, q
<1>4. CASE m.id \notin {p.editReq, p.saveReq, p.syncReq}
  BY <1>4 DEF OnError
<1> QED
  BY <1>1, <1>2, <1>3, <1>4

\* A panel stays grounded whatever answer it handles.
LEMMA HandleOK ==
    ASSUME NEW p, PanelOK(p), NEW i \in Ids, NEW m \in Replies, ReplyHeard(m)
    PROVE  PanelOK(Handle(p, m, i))
<1>1. CASE m.type = "opened"
  BY <1>1, OnOpenedOK DEF Handle
<1>2. CASE m.type = "snapshot"
  <2>1. m.rev \in Nat /\ m.text \in Text /\ Heard(m.rev, m.text)
    BY <1>2 DEF Replies, ReplyHeard
  <2> QED
    BY <1>2, <2>1, OnSnapshotOK DEF Handle
<1>3. CASE m.type = "result"
  <2>1. /\ m.id \in Ids /\ m.rev \in Nat /\ m.text \in Text /\ m.dirty \in BOOLEAN
        /\ Heard(m.rev, m.text)
    BY <1>3 DEF Replies, ReplyHeard
  <2> QED
    BY <1>3, <2>1, OnResultOK DEF Handle
<1>4. CASE m.type = "saved"
  <2>1. /\ m.rev \in Nat /\ m.text \in Text /\ m.dirty \in BOOLEAN
        /\ Heard(m.rev, m.text)
    BY <1>4 DEF Replies, ReplyHeard
  <2> QED
    BY <1>4, <2>1, OnSavedOK DEF Handle
<1>5. CASE m.type = "state"
  <2>1. /\ m.rev \in Nat /\ m.text \in Text \cup {None}
        /\ m.text # None => Heard(m.rev, m.text)
    BY <1>5 DEF Replies, ReplyHeard
  <2> QED
    BY <1>5, <2>1, OnStateOK DEF Handle
<1>6. CASE m.type = "error"
  <2>1. m.id \in Ids
    BY <1>6 DEF Replies
  <2> QED
    BY <1>6, <2>1, OnErrorOK DEF Handle
<1> QED
  BY <1>1, <1>2, <1>3, <1>4, <1>5, <1>6 DEF Replies
-----------------------------------------------------------------------------
(* The daemon.                                                             *)

\* The buffer goes from b to c: the text stays, or the revision grows.
Advances(b, c) == c \in Buffer /\ (c.rev > b.rev \/ (c.rev = b.rev /\ c.text = b.text))

\* An answer tells the version b, if it tells one.
Tells(b, m) ==
    (m.type \in {"snapshot", "result", "saved"} \/ (m.type = "state" /\ m.text # None))
    => m.rev = b.rev /\ m.text = b.text

LEMMA ChangedOK ==
    ASSUME buf \in Buffer, NEW t \in Text, NEW d \in BOOLEAN
    PROVE  Advances(buf, Changed(t, d))
BY DEF Advances, Changed, Buffer

AnswerOK(a) ==
    /\ Advances(buf, a.buf)
    /\ a.replies \in Seq(Replies)
    /\ \A k \in DOMAIN a.replies : Tells(a.buf, a.replies[k])

LEMMA SingleAnswer ==
    ASSUME NEW b, Advances(buf, b), NEW r \in Replies, Tells(b, r)
    PROVE  AnswerOK(Answer(b, <<r>>))
BY DEF AnswerOK, Answer

LEMMA FailureOK ==
    ASSUME NEW b, Advances(buf, b), NEW m, m.id \in Ids
    PROVE  AnswerOK(Answer(b, <<Failure(m)>>))
<1>1. Failure(m) \in Replies /\ Tells(b, Failure(m))
  BY DEF Failure, Replies, Tells
<1> QED
  BY <1>1, SingleAnswer

LEMMA CheckpointedOK ==
    ASSUME NEW b, Advances(buf, b), NEW m, m.id \in Ids, NEW accepted \in BOOLEAN,
           NEW a \in Checkpointed(m, b, accepted)
    PROVE  AnswerOK(a)
<1>1. Result(m, b, accepted) \in Replies /\ Tells(b, Result(m, b, accepted))
  BY DEF Result, Replies, Tells, Advances, Buffer
<1>2. AnswerOK(Answer(b, <<Result(m, b, accepted)>>))
  BY <1>1, SingleAnswer
<1>3. AnswerOK(Answer(b, <<Failure(m)>>))
  BY FailureOK
<1> QED
  BY <1>2, <1>3 DEF Checkpointed

\* Whatever the daemon answers, its buffer advances, and that is what it tells.
LEMMA AnswersOK ==
    ASSUME buf \in Buffer, NEW m \in Requests, NEW a \in Answers(m)
    PROVE  AnswerOK(a)
<1>1. Advances(buf, buf)
  BY DEF Advances, Buffer
<1>2. CASE m.type = "open"
  <2> DEFINE o == [type |-> "opened"]
             n == [type |-> "snapshot", rev |-> buf.rev, text |-> buf.text]
  <2>1. o \in Replies /\ n \in Replies /\ Tells(buf, o) /\ Tells(buf, n)
    BY DEF Replies, Buffer, Tells
  <2>2. a = Answer(buf, <<o, n>>)
    BY <1>2 DEF Answers, OpenAnswers
  <2> HIDE DEF o, n
  <2> QED
    BY <1>1, <2>1, <2>2 DEF AnswerOK, Answer
<1>3. CASE m.type = "sync"
  <2>1. m.id \in Ids
    BY <1>3 DEF Requests
  <2>2. a \in Checkpointed(m, buf, TRUE)
    BY <1>3 DEF Answers, SyncAnswers
  <2> QED
    BY <1>1, <2>1, <2>2, CheckpointedOK
<1>4. CASE m.type = "edit"
  <2>1. m.id \in Ids /\ m.text \in Text
    BY <1>4 DEF Requests
  <2>2. a \in EditAnswers(m)
    BY <1>4 DEF Answers
  <2>3. CASE m.base # buf.rev
    BY <1>1, <2>1, <2>2, <2>3, CheckpointedOK DEF EditAnswers
  <2>4. CASE m.base = buf.rev
    <3>1. PICK t \in Text :
             a \in Checkpointed(m, Changed(t, buf.dirty \/ t # buf.text), TRUE)
      BY <2>1, <2>2, <2>4 DEF EditAnswers
    <3> DEFINE d == buf.dirty \/ t # buf.text
    <3>2. d \in BOOLEAN
      BY DEF Buffer
    <3>3. a \in Checkpointed(m, Changed(t, d), TRUE)
      BY <3>1
    <3> HIDE DEF d
    <3>4. Advances(buf, Changed(t, d))
      BY <3>2, ChangedOK
    <3> QED
      BY <2>1, <3>3, <3>4, CheckpointedOK
  <2> QED
    BY <2>3, <2>4
<1>5. CASE m.type = "action"
  <2>1. m.id \in Ids
    BY <1>5 DEF Requests
  <2>2. a \in ActionAnswers(m)
    BY <1>5 DEF Answers
  <2>3. CASE m.base # buf.rev
    BY <1>1, <2>1, <2>2, <2>3, CheckpointedOK DEF ActionAnswers
  <2>4. CASE m.base = buf.rev
    <3>1. PICK t \in Text, d \in BOOLEAN : a \in Checkpointed(m, Changed(t, d), TRUE)
      BY <2>2, <2>4 DEF ActionAnswers
    <3>2. Advances(buf, Changed(t, d))
      BY ChangedOK
    <3> QED
      BY <2>1, <3>1, <3>2, CheckpointedOK
  <2> QED
    BY <2>3, <2>4
<1>6. CASE m.type = "save"
  <2> DEFINE Written(t) == [text |-> t, rev |-> buf.rev + 1, dirty |-> FALSE]
             Reply(b) == [type |-> "saved", id |-> m.id, rev |-> b.rev, text |-> b.text,
                          dirty |-> b.dirty]
  <2>1. m.id \in Ids
    BY <1>6 DEF Requests
  <2>2. \A t \in Text : Advances(buf, Written(t))
    BY DEF Advances, Buffer
  <2>3. \A t \in Text : Reply(Written(t)) \in Replies /\ Tells(Written(t), Reply(Written(t)))
    BY <2>1 DEF Replies, Buffer, Tells
  <2>4. buf.text \in Text
    BY DEF Buffer
  <2>5. a \in SaveAnswers(m)
    BY <1>6 DEF Answers
  <2>6. \/ a = Answer(buf, <<Failure(m)>>)
        \/ \E t \in Text : a = Answer(Written(t), <<Reply(Written(t))>>)
        \/ a = Answer(Written(buf.text), <<Failure(m)>>)
    BY <2>4, <2>5 DEF SaveAnswers
  <2> HIDE DEF Written, Reply
  <2> QED
    BY <1>1, <2>1, <2>2, <2>3, <2>4, <2>6, FailureOK, SingleAnswer
<1>7. CASE m.type = "poll"
  <2> DEFINE r == [type |-> "state", rev |-> buf.rev,
                   text |-> IF m.known = buf.rev THEN None ELSE buf.text]
  <2>1. r \in Replies /\ Tells(buf, r)
    BY DEF Replies, Buffer, Tells
  <2>2. a = Answer(buf, <<r>>)
    BY <1>7 DEF Answers, PollAnswers
  <2> HIDE DEF r
  <2> QED
    BY <1>1, <2>1, <2>2, SingleAnswer
<1> QED
  BY <1>2, <1>3, <1>4, <1>5, <1>6, <1>7 DEF Requests
-----------------------------------------------------------------------------
(* The steps.                                                              *)

LEMMA FreshIdOK == \A i \in FreshId : i \in Ids
BY DEF FreshId

LEMMA ConcatHeard ==
    ASSUME NEW f \in Seq(Requests), NEW g \in Seq(Requests), EditsHeard(f), EditsHeard(g)
    PROVE  f \o g \in Seq(Requests) /\ EditsHeard(f \o g)
<1>1. f \o g \in Seq(Requests)
  OBVIOUS
<1>2. \A k \in DOMAIN (f \o g) :
         \/ k \in DOMAIN f /\ (f \o g)[k] = f[k]
         \/ k - Len(f) \in DOMAIN g /\ (f \o g)[k] = g[k - Len(f)]
  OBVIOUS
<1> QED
  BY <1>1, <1>2 DEF EditsHeard

\* A handler that leaves the panel p, the buffer being what it was.
LEMMA StepOK ==
    ASSUME HeardInv, NEW p, PanelOK(p), Step(p), buf' = buf
    PROVE  /\ panel' \in Panel /\ PanelHeard(panel)'
           /\ toDaemon' \in Seq(Requests) /\ EditsHeard(toDaemon)'
<1> DEFINE q == [p EXCEPT !.out = <<>>]
<1>1. q \in Panel
  <2>1. p \in Panel /\ <<>> \in Seq(Requests)
    BY DEF PanelOK
  <2> QED
    BY <2>1 DEF Panel
<1>2. /\ q.sync = p.sync /\ q.conflict = p.conflict /\ q.out = <<>>
      /\ q.editReq = p.editReq /\ q.saveText = p.saveText
  BY DEF PanelOK, Panel
<1>3. panel' = q
  BY DEF Step
<1> HIDE DEF q
<1>4. PanelHeard(panel)'
  BY <1>2, <1>3 DEF PanelOK, PanelHeard, Grounded, Heard, EditsHeard
<1>5. toDaemon' \in Seq(Requests) /\ EditsHeard(toDaemon')
  <2>1. p.out \in Seq(Requests) /\ EditsHeard(p.out)
    BY DEF PanelOK, PanelHeard, Panel
  <2>2. toDaemon \in Seq(Requests) /\ EditsHeard(toDaemon)
    BY DEF HeardInv, TypeOK
  <2> QED
    BY <2>1, <2>2, ConcatHeard DEF Step
<1>6. EditsHeard(toDaemon)'
  BY <1>5 DEF EditsHeard, Heard
<1> QED
  BY <1>1, <1>3, <1>4, <1>5, <1>6

\* Frames and answers stay heard when the buffer advances.
LEMMA EditsStayHeard ==
    ASSUME buf \in Buffer, Advances(buf, buf'), NEW f \in Seq(Requests), EditsHeard(f)
    PROVE  \A k \in DOMAIN f : f[k].type = "edit" =>
              f[k].base <= buf'.rev /\ (f[k].base = buf'.rev => f[k].from = buf'.text)
<1> SUFFICES ASSUME NEW k \in DOMAIN f, f[k].type = "edit"
             PROVE  f[k].base <= buf'.rev /\ (f[k].base = buf'.rev => f[k].from = buf'.text)
  OBVIOUS
<1>1. Heard(f[k].base, f[k].from) /\ f[k] \in Requests
  BY DEF EditsHeard
<1>2. f[k].base \in Nat
  BY <1>1 DEF Requests
<1> QED
  BY <1>1, <1>2 DEF Heard, Advances, Buffer

\* ReplyHeard, of the buffer b.
HeardOf(b, m) ==
    (m.type \in {"snapshot", "result", "saved"} \/ (m.type = "state" /\ m.text # None))
    => m.rev <= b.rev /\ (m.rev = b.rev => m.text = b.text)

LEMMA RepliesStayHeard ==
    ASSUME buf \in Buffer, Advances(buf, buf'), NEW m \in Replies, ReplyHeard(m)
    PROVE  HeardOf(buf', m)
<1>1. m.type \in {"snapshot", "result", "saved", "state"} => m.rev \in Nat
  BY DEF Replies
<1> QED
  BY <1>1 DEF HeardOf, ReplyHeard, Heard, Advances, Buffer

LEMMA PanelStaysHeard ==
    ASSUME HeardInv, Advances(buf, buf'), panel' = panel
    PROVE  PanelHeard(panel)'
<1>1. buf \in Buffer /\ panel \in Panel /\ PanelHeard(panel)
  BY DEF HeardInv, TypeOK
<1>2. panel.sync # None =>
        /\ panel.sync.rev \in Nat
        /\ panel.sync.conf # None => panel.sync.conf.rev \in Nat
  BY <1>1 DEF Panel, Sync, Version
<1>3. EditsHeard(panel.out)'
  BY <1>1, EditsStayHeard DEF Panel, PanelHeard, EditsHeard, Heard
<1>4. panel.sync # None => Grounded(panel.sync)'
  BY <1>1, <1>2 DEF PanelHeard, Grounded, Heard, Advances, Buffer
<1>5. panel.editReq # None => Heard(panel.sync.rev, panel.sync.ack)'
  BY <1>1, <1>2 DEF PanelHeard, Heard, Advances, Buffer
<1> QED
  BY <1>1, <1>3, <1>4, <1>5 DEF PanelHeard

\* The buffer advances; frames are taken off the queues, and answers that tell the
\* new version are added.
LEMMA DaemonStepOK ==
    ASSUME HeardInv, Advances(buf, buf'), panel' = panel,
           toDaemon' \in {toDaemon, Tail(toDaemon)}, toDaemon # <<>> \/ toDaemon' = toDaemon,
           orphan' \in {orphan, Tail(orphan)}, orphan # <<>> \/ orphan' = orphan,
           NEW r \in Seq(Replies), \A k \in DOMAIN r : Tells(buf', r[k]),
           toPanel' = toPanel \o r, known' = known, inputs' \in Nat
    PROVE  HeardInv'
<1>1. /\ buf \in Buffer /\ buf' \in Buffer /\ panel \in Panel
      /\ toDaemon \in Seq(Requests) /\ EditsHeard(toDaemon)
      /\ orphan \in Seq(Requests) /\ EditsHeard(orphan)
      /\ toPanel \in Seq(Replies) /\ \A k \in DOMAIN toPanel : ReplyHeard(toPanel[k])
      /\ known \in Nat \cup {None}
  BY DEF HeardInv, TypeOK, Advances
<1>2. \A f : f \in Seq(Requests) /\ EditsHeard(f) /\ f # <<>> =>
            Tail(f) \in Seq(Requests) /\ EditsHeard(Tail(f))
  <2> SUFFICES ASSUME NEW f \in Seq(Requests), EditsHeard(f), f # <<>>
               PROVE  Tail(f) \in Seq(Requests) /\ EditsHeard(Tail(f))
    OBVIOUS
  <2>1. \A k \in DOMAIN Tail(f) : k + 1 \in DOMAIN f /\ Tail(f)[k] = f[k + 1]
    OBVIOUS
  <2> QED
    BY <2>1 DEF EditsHeard
<1>3. toDaemon' \in Seq(Requests) /\ EditsHeard(toDaemon)'
  <2>1. toDaemon' \in Seq(Requests) /\ EditsHeard(toDaemon')
    BY <1>1, <1>2
  <2> QED
    BY <1>1, <2>1, EditsStayHeard DEF EditsHeard, Heard
<1>4. orphan' \in Seq(Requests) /\ EditsHeard(orphan)'
  <2>1. orphan' \in Seq(Requests) /\ EditsHeard(orphan')
    BY <1>1, <1>2
  <2> QED
    BY <1>1, <2>1, EditsStayHeard DEF EditsHeard, Heard
<1>5. toPanel' \in Seq(Replies)
  BY <1>1
<1>6. \A k \in DOMAIN toPanel' : HeardOf(buf', toPanel'[k])
  <2> SUFFICES ASSUME NEW k \in DOMAIN toPanel'
               PROVE  HeardOf(buf', toPanel'[k])
    OBVIOUS
  <2>1. \/ k \in DOMAIN toPanel /\ toPanel'[k] = toPanel[k]
        \/ k - Len(toPanel) \in DOMAIN r /\ toPanel'[k] = r[k - Len(toPanel)]
    BY <1>1
  <2>2. CASE k \in DOMAIN toPanel /\ toPanel'[k] = toPanel[k]
    <3>1. toPanel[k] \in Replies /\ ReplyHeard(toPanel[k])
      BY <1>1, <2>2
    <3> QED
      BY <1>1, <2>2, <3>1, RepliesStayHeard
  <2>3. CASE k - Len(toPanel) \in DOMAIN r /\ toPanel'[k] = r[k - Len(toPanel)]
    BY <1>1, <2>3 DEF Tells, HeardOf, Buffer
  <2> QED
    BY <2>1, <2>2, <2>3
<1>7. (\A k \in DOMAIN toPanel : ReplyHeard(toPanel[k]))'
  BY <1>6 DEF HeardOf, ReplyHeard, Heard
<1>8. PanelHeard(panel)'
  BY PanelStaysHeard
<1>9. TypeOK'
  BY <1>1, <1>3, <1>4, <1>5 DEF TypeOK
<1> QED
  BY <1>3, <1>4, <1>7, <1>8, <1>9 DEF HeardInv

-----------------------------------------------------------------------------
(* The invariant.                                                          *)

LEMMA HeardInit == Init => HeardInv
<1> SUFFICES ASSUME Init PROVE HeardInv
  OBVIOUS
<1>1. NewPanel \in Panel
  <2>1. <<>> \in Seq(Requests)
    OBVIOUS
  <2> QED
    BY <2>1, TextAssumption DEF NewPanel, Panel
<1>2. PanelHeard(NewPanel)
  BY DEF NewPanel, PanelHeard, EditsHeard
<1>3. PICK t \in Text : buf = [text |-> t, rev |-> 0, dirty |-> FALSE]
  BY DEF Init
<1> DEFINE m == [type |-> "snapshot", rev |-> 0, text |-> buf.text]
<1>4. buf \in Buffer /\ m \in Replies /\ ReplyHeard(m)
  BY <1>3 DEF Buffer, Replies, ReplyHeard, Heard
<1>5. toPanel = <<m>>
  BY DEF Init
<1> HIDE DEF m
<1>6. TypeOK
  BY <1>1, <1>4, <1>5 DEF Init, TypeOK
<1>7. \A k \in DOMAIN toPanel : ReplyHeard(toPanel[k])
  BY <1>4, <1>5
<1>8. PanelHeard(panel) /\ EditsHeard(toDaemon) /\ EditsHeard(orphan)
  BY <1>2 DEF Init, EditsHeard
<1> QED
  BY <1>6, <1>7, <1>8 DEF HeardInv

\* The steps that leave the panel p and touch no other queue.
LEMMA PanelStepOK ==
    ASSUME HeardInv, NEW p, PanelOK(p), Step(p), inputs' \in Nat,
           UNCHANGED <<buf, toPanel, known, orphan>>
    PROVE  HeardInv'
<1>1. /\ panel' \in Panel /\ PanelHeard(panel)'
      /\ toDaemon' \in Seq(Requests) /\ EditsHeard(toDaemon)'
  BY StepOK
<1>2. EditsHeard(orphan)'
  BY DEF HeardInv, EditsHeard, Heard
<1>3. (\A k \in DOMAIN toPanel : ReplyHeard(toPanel[k]))'
  BY DEF HeardInv, ReplyHeard, Heard
<1>4. TypeOK'
  BY <1>1 DEF HeardInv, TypeOK
<1> QED
  BY <1>1, <1>2, <1>3, <1>4 DEF HeardInv

\* The steps that only put a request on the socket.
LEMMA RequestStepOK ==
    ASSUME HeardInv, NEW m \in Requests, m.type # "edit", NEW f \in Seq(Requests),
           EditsHeard(f), toDaemon' = Append(f, m), inputs' \in Nat,
           UNCHANGED <<panel, buf, toPanel, known, orphan>>
    PROVE  HeardInv'
<1>1. toDaemon' \in Seq(Requests) /\ EditsHeard(toDaemon')
  BY RequestSent
<1>2. EditsHeard(toDaemon)' /\ EditsHeard(orphan)'
  BY <1>1 DEF HeardInv, EditsHeard, Heard
<1>3. (\A k \in DOMAIN toPanel : ReplyHeard(toPanel[k]))'
  BY DEF HeardInv, ReplyHeard, Heard
<1>4. PanelHeard(panel)'
  BY DEF HeardInv, PanelHeard, Grounded, EditsHeard, Heard
<1>5. TypeOK'
  BY <1>1 DEF HeardInv, TypeOK
<1> QED
  BY <1>2, <1>3, <1>4, <1>5 DEF HeardInv

LEMMA InputNat ==
    ASSUME HeardInv, NEW op, Input(op)
    PROVE  inputs' \in Nat
BY DEF HeardInv, TypeOK, Input

LEMMA ResolvedOK ==
    ASSUME NEW p, PanelOK(p), HasConflict(p)
    PROVE  PanelOK(Resolved(p)) /\ p.sync.conf.text \in Text
<1> DEFINE s == ResolveConflict(p.sync)
           q == Resolved(p)
<1>1. p.sync \in Sync /\ p.sync.conf \in Version /\ Grounded(p.sync)
  BY DEF PanelOK, PanelHeard, Panel, HasConflict, Sync
<1>2. /\ p.sync.conf.rev \in Nat /\ p.sync.conf.text \in Text
      /\ Heard(p.sync.conf.rev, p.sync.conf.text)
  BY <1>1 DEF Version, Grounded, HasConflict
<1>3. /\ s \in Sync /\ Grounded(s) /\ s.conf = None /\ Heard(s.rev, s.ack)
  BY <1>2, NewSyncGrounded DEF ResolveConflict
<1> HIDE DEF s
<1>4. q = [p EXCEPT !.rev = p.sync.conf.rev, !.sync = s, !.conflict = FALSE,
                    !.paused = FALSE]
  BY DEF Resolved, s
<1> HIDE DEF q
<1>5. q \in Panel
  <2>1. p \in Panel /\ p.sync.conf.rev \in Nat /\ s \in Sync \cup {None}
    BY <1>2, <1>3 DEF PanelOK
  <2> QED
    BY <1>4, <2>1 DEF Panel
<1>6. q.sync = s /\ q.out = p.out
  BY <1>4 DEF PanelOK, Panel
<1>7. PanelOK(q)
  BY <1>3, <1>5, <1>6, RebasedOK
<1> QED
  BY <1>2, <1>7 DEF q

\* Every step but a restart keeps the invariant.
LEMMA HeardStep ==
    ASSUME "restart" \notin Ops
    PROVE  HeardInv /\ [Next]_vars => HeardInv'
<1> SUFFICES ASSUME HeardInv, [Next]_vars PROVE HeardInv'
  OBVIOUS
<1>p. PanelOK(panel) /\ inputs \in Nat /\ buf \in Buffer
  BY DEF HeardInv, TypeOK, PanelOK
<1>1. CASE Type
  <2>1. PICK t \in Text :
           Step(ScheduleEditFlush([panel EXCEPT !.draft = t, !.dirty = TRUE]))
    BY <1>1 DEF Type
  <2> DEFINE q == [panel EXCEPT !.draft = t, !.dirty = TRUE]
  <2>2. q \in Panel
    BY <1>p DEF PanelOK, Panel
  <2>3. /\ q.sync = panel.sync /\ q.conflict = panel.conflict /\ q.out = panel.out
        /\ q.editReq = panel.editReq /\ q.saveText = panel.saveText
    BY <1>p DEF PanelOK, Panel
  <2>4. Step(ScheduleEditFlush(q))
    BY <2>1
  <2> HIDE DEF q
  <2>5. PanelOK(ScheduleEditFlush(q))
    BY <1>p, <2>2, <2>3, SameGround, ScheduleOK DEF PanelOK
  <2> QED
    BY <1>1, <2>4, <2>5, InputNat, PanelStepOK DEF Type
<1>2. CASE FlushTimer
  <2>1. PICK i \in FreshId : Step(FlushPending([panel EXCEPT !.timer = FALSE], i))
    BY <1>2 DEF FlushTimer
  <2> DEFINE q == [panel EXCEPT !.timer = FALSE]
  <2>2. /\ q \in Panel /\ q.sync = panel.sync /\ q.conflict = panel.conflict
        /\ q.out = panel.out /\ q.editReq = panel.editReq /\ q.saveText = panel.saveText
    BY <1>p DEF PanelOK, Panel
  <2>3. Step(FlushPending(q, i))
    BY <2>1
  <2> HIDE DEF q
  <2>4. PanelOK(FlushPending(q, i))
    BY <1>p, <2>2, FreshIdOK, SameGround, FlushOK DEF PanelOK
  <2> QED
    BY <1>p, <1>2, <2>3, <2>4, PanelStepOK DEF FlushTimer
<1>3. CASE RequestEditorAction
  <2>1. PICK i \in FreshId : Step(FlushPending([panel EXCEPT !.actions = @ + 1], i))
    BY <1>3 DEF RequestEditorAction
  <2> DEFINE n == panel.actions + 1
             q == [panel EXCEPT !.actions = n]
  <2>2. n \in Nat /\ Step(FlushPending(q, i))
    BY <1>p, <2>1 DEF PanelOK, Panel
  <2> HIDE DEF n
  <2>3. /\ q \in Panel /\ q.sync = panel.sync /\ q.conflict = panel.conflict
        /\ q.out = panel.out /\ q.editReq = panel.editReq /\ q.saveText = panel.saveText
    BY <1>p, <2>2 DEF PanelOK, Panel
  <2> HIDE DEF q
  <2>4. PanelOK(FlushPending(q, i))
    BY <1>p, <2>3, FreshIdOK, SameGround, FlushOK DEF PanelOK
  <2> QED
    BY <1>3, <2>2, <2>4, InputNat, PanelStepOK DEF RequestEditorAction
<1>4. CASE RequestSave
  <2>1. PICK i \in FreshId : Step(FlushPending([panel EXCEPT !.pendingSave = TRUE], i))
    BY <1>4 DEF RequestSave
  <2> DEFINE q == [panel EXCEPT !.pendingSave = TRUE]
  <2>2. /\ q \in Panel /\ q.sync = panel.sync /\ q.conflict = panel.conflict
        /\ q.out = panel.out /\ q.editReq = panel.editReq /\ q.saveText = panel.saveText
    BY <1>p DEF PanelOK, Panel
  <2>3. Step(FlushPending(q, i))
    BY <2>1
  <2> HIDE DEF q
  <2>4. PanelOK(FlushPending(q, i))
    BY <1>p, <2>2, FreshIdOK, SameGround, FlushOK DEF PanelOK
  <2> QED
    BY <1>4, <2>3, <2>4, InputNat, PanelStepOK DEF RequestSave
<1>5. CASE ResolveKeepLocal
  <2>1. PICK i \in FreshId : Step(FlushPending(Resolved(panel), i))
    BY <1>5 DEF ResolveKeepLocal
  <2>2. PanelOK(FlushPending(Resolved(panel), i))
    BY <1>p, <1>5, FreshIdOK, ResolvedOK, FlushOK DEF ResolveKeepLocal
  <2> QED
    BY <1>5, <2>1, <2>2, InputNat, PanelStepOK DEF ResolveKeepLocal
<1>6. CASE ResolveUseServer
  <2> DEFINE t == SetText(Resolved(panel), panel.sync.conf.text)
  <2>1. PanelOK(t)
    BY <1>p, <1>6, ResolvedOK, SetTextOK DEF ResolveUseServer
  <2>2. Step([t EXCEPT !.dirty = TRUE])
    BY <1>6 DEF ResolveUseServer
  <2> HIDE DEF t
  <2>3. PanelOK([t EXCEPT !.dirty = TRUE])
    BY <2>1, DirtyOK
  <2> QED
    BY <1>6, <2>2, <2>3, InputNat, PanelStepOK DEF ResolveUseServer
<1>7. CASE Reopen
  <2>1. [type |-> "open"] \in Requests
    BY DEF Requests
  <2>2. toDaemon \in Seq(Requests) /\ EditsHeard(toDaemon)
    BY DEF HeardInv, TypeOK
  <2> QED
    BY <1>7, <2>1, <2>2, InputNat, RequestStepOK DEF Reopen
<1>8. CASE Deliver
  <2> DEFINE m == Head(toPanel)
  <2>1. toPanel \in Seq(Replies) /\ toPanel # <<>>
    BY <1>8 DEF Deliver, HeardInv, TypeOK
  <2>2. m \in Replies /\ m = toPanel[1] /\ 1 \in DOMAIN toPanel
    BY <2>1
  <2>3. ReplyHeard(m)
    BY <2>2 DEF HeardInv
  <2>4. PICK i \in FreshId : Step(Handle(panel, m, i))
    BY <1>8 DEF Deliver
  <2>5. known' = KnownAfter(m)
    BY <1>8 DEF Deliver
  <2>6. toPanel' = Tail(toPanel) /\ UNCHANGED <<buf, orphan, inputs>>
    BY <1>8 DEF Deliver
  <2>7. known' \in Nat \cup {None}
    <3> HIDE DEF m
    <3>1. known \in Nat \cup {None}
      BY DEF HeardInv, TypeOK
    <3>2. m.type \in {"snapshot", "result", "saved", "state"} => m.rev \in Nat
      BY <2>2 DEF Replies
    <3> QED
      BY <2>5, <3>1, <3>2 DEF KnownAfter
  <2>8. PanelOK(Handle(panel, m, i))
    BY <1>p, <2>2, <2>3, FreshIdOK, HandleOK
  <2>9. /\ panel' \in Panel /\ PanelHeard(panel)'
        /\ toDaemon' \in Seq(Requests) /\ EditsHeard(toDaemon)'
    BY <2>4, <2>6, <2>8, StepOK
  <2>10. EditsHeard(orphan)'
    BY <2>6 DEF HeardInv, EditsHeard, Heard
  <2>11. (\A k \in DOMAIN toPanel : ReplyHeard(toPanel[k]))'
    <3>1. \A k \in DOMAIN Tail(toPanel) :
             k + 1 \in DOMAIN toPanel /\ Tail(toPanel)[k] = toPanel[k + 1]
      BY <2>1
    <3> QED
      BY <2>6, <3>1 DEF HeardInv, ReplyHeard, Heard
  <2>12. TypeOK'
    BY <1>p, <2>1, <2>6, <2>7, <2>9 DEF HeardInv, TypeOK
  <2> QED
    BY <2>9, <2>10, <2>11, <2>12 DEF HeardInv
<1>9. CASE Poll
  <2>1. [type |-> "poll", known |-> known] \in Requests
    BY <1>9 DEF Poll, Requests, HeardInv, TypeOK
  <2>2. toDaemon \in Seq(Requests) /\ EditsHeard(toDaemon)
    BY DEF HeardInv, TypeOK
  <2> QED
    BY <1>p, <1>9, <2>1, <2>2, RequestStepOK DEF Poll
<1>10. CASE DaemonHandle
  <2>1. toDaemon # <<>> /\ Head(toDaemon) \in Requests
    BY <1>10 DEF DaemonHandle, HeardInv, TypeOK
  <2>2. PICK a \in Answers(Head(toDaemon)) : buf' = a.buf /\ toPanel' = toPanel \o a.replies
    BY <1>10 DEF DaemonHandle
  <2>3. /\ Advances(buf, buf') /\ a.replies \in Seq(Replies)
        /\ \A k \in DOMAIN a.replies : Tells(buf', a.replies[k])
    BY <1>p, <2>1, <2>2, AnswersOK DEF AnswerOK
  <2> QED
    BY <1>p, <1>10, <2>1, <2>2, <2>3, DaemonStepOK DEF DaemonHandle
<1>11. CASE DaemonHandleOrphan
  <2>1. orphan # <<>> /\ Head(orphan) \in Requests
    BY <1>11 DEF DaemonHandleOrphan, HeardInv, TypeOK
  <2>2. PICK a \in Answers(Head(orphan)) : buf' = a.buf
    BY <1>11 DEF DaemonHandleOrphan
  <2>3. Advances(buf, buf')
    BY <1>p, <2>1, <2>2, AnswersOK DEF AnswerOK
  <2> DEFINE r == <<>>
  <2>4. /\ r \in Seq(Replies) /\ toPanel' = toPanel \o r
        /\ \A k \in DOMAIN r : Tells(buf', r[k])
    BY <1>11 DEF DaemonHandleOrphan, HeardInv, TypeOK
  <2> HIDE DEF r
  <2> QED
    BY <1>p, <1>11, <2>1, <2>3, <2>4, DaemonStepOK DEF DaemonHandleOrphan
<1>12. CASE DaemonRewrites
  <2>1. PICK t \in Text, d \in BOOLEAN : buf' = Changed(t, d)
    BY <1>12 DEF DaemonRewrites
  <2>2. Advances(buf, buf')
    BY <1>p, <2>1, ChangedOK
  <2> DEFINE r == <<>>
  <2>3. /\ r \in Seq(Replies) /\ toPanel' = toPanel \o r
        /\ \A k \in DOMAIN r : Tells(buf', r[k])
    BY <1>12 DEF DaemonRewrites, HeardInv, TypeOK
  <2> HIDE DEF r
  <2>4. inputs' \in Nat
    BY <1>12, InputNat DEF DaemonRewrites
  <2> QED
    BY <1>12, <2>2, <2>3, <2>4, DaemonStepOK DEF DaemonRewrites
<1>13. CASE Drop
  <2>1. /\ panel' = Detach(panel) /\ buf' = buf
        /\ toDaemon' = <<>> /\ toPanel' = <<>> /\ known' = None
        /\ orphan' \in {orphan, toDaemon}
    BY <1>13 DEF Drop, Disconnect
  <2>2. PanelOK(Detach(panel))
    BY <1>p, DetachOK
  <2>3. panel' \in Panel /\ PanelHeard(panel)'
    BY <2>1, <2>2 DEF PanelOK, PanelHeard, Grounded, EditsHeard, Heard
  <2>4. orphan' \in Seq(Requests) /\ EditsHeard(orphan)'
    BY <2>1 DEF HeardInv, TypeOK, EditsHeard, Heard
  <2>5. <<>> \in Seq(Requests) /\ <<>> \in Seq(Replies)
    OBVIOUS
  <2>6. EditsHeard(toDaemon)' /\ (\A k \in DOMAIN toPanel : ReplyHeard(toPanel[k]))'
    BY <2>1 DEF EditsHeard
  <2>7. inputs' \in Nat
    BY <1>13, InputNat DEF Drop
  <2>8. TypeOK'
    BY <1>p, <2>1, <2>3, <2>4, <2>5, <2>7 DEF TypeOK
  <2> QED
    BY <2>3, <2>4, <2>6, <2>8 DEF HeardInv
<1>14. CASE Restart
  BY <1>14 DEF Restart, Input
<1>15. CASE Reconnect
  <2>1. [type |-> "open"] \in Requests
    BY DEF Requests
  <2>2. <<>> \in Seq(Requests) /\ EditsHeard(<<>>)
    BY DEF EditsHeard
  <2>3. toDaemon' = Append(<<>>, [type |-> "open"])
    BY <1>15 DEF Reconnect
  <2> QED
    BY <1>p, <1>15, <2>1, <2>2, <2>3, RequestStepOK DEF Reconnect
<1>16. CASE UNCHANGED vars
  <2>1. PanelHeard(panel)' /\ EditsHeard(toDaemon)' /\ EditsHeard(orphan)'
    BY <1>16 DEF vars, HeardInv, PanelHeard, Grounded, EditsHeard, Heard
  <2>2. (\A k \in DOMAIN toPanel : ReplyHeard(toPanel[k]))'
    BY <1>16 DEF vars, HeardInv, ReplyHeard, Heard
  <2> QED
    BY <1>16, <2>1, <2>2 DEF vars, HeardInv, TypeOK
<1> QED
  BY <1>1, <1>2, <1>3, <1>4, <1>5, <1>6, <1>7, <1>8, <1>9, <1>10, <1>11, <1>12, <1>13,
     <1>14, <1>15, <1>16 DEF Next, UserNext, DaemonNext, LinkNext

LEMMA HeardEdits == HeardInv => EditsMatchBase
<1> SUFFICES ASSUME HeardInv, NEW m \in Range(toDaemon) \cup Range(orphan),
                    m.type = "edit", m.base = buf.rev
             PROVE  m.from = buf.text
  BY DEF EditsMatchBase
<1>1. \/ \E k \in DOMAIN toDaemon : m = toDaemon[k]
      \/ \E k \in DOMAIN orphan : m = orphan[k]
  BY DEF Range
<1> QED
  BY <1>1 DEF HeardInv, EditsHeard, Heard

-----------------------------------------------------------------------------
(* The theorems.                                                           *)

\* As long as the daemon is not started again, whatever the user, the other views
\* and the socket do, an edit that the daemon will accept was computed against the
\* text the daemon applies it to (pane.rs flush_pending, edit_sync.rs, and
\* range_edit_buffer of editor_worker.rs).
THEOREM EditsMatch ==
    ASSUME "restart" \notin Ops
    PROVE  Spec => []EditsMatchBase
<1> QED
  BY HeardInit, HeardStep, HeardEdits, PTL DEF Spec

-----------------------------------------------------------------------------
(* What the panel has begun goes on.  Without "reopen" a panel waits for    *)
(* one answer at a time, and exactly one frame on the socket is the request *)
(* or that answer; what an answer may replace is settled by what the panel  *)
(* has asked for, so the snapshot of an opening has to come first.          *)

\* One request at a time, made from a base without conflict; a conflict is shown, and what
\* was sent from it is awaited, or the panel will ask for another base before it sends.
Core(p) ==
    /\ p \in Panel /\ ~p.looping
    /\ p.editReq = None \/ (p.syncReq = None /\ p.saveReq = None)
    /\ p.syncReq = None \/ p.saveReq = None
    /\ p.editReq # None \/ p.saveReq # None => p.sync # None /\ p.sync.conf = None
    /\ p.action => p.editReq # None /\ p.actionText = p.sync.ack
    /\ p.saveReq = None <=> p.saveText = None
    /\ p.saveReq # None => p.saveText = p.sync.ack
    /\ ~p.connected => Idle(p)
    /\ p.sync # None /\ p.sync.conf # None => p.conflict
    /\ p.sync # None /\ p.sync.sent # None =>
          p.editReq # None \/ p.syncReq # None \/ ~p.connected \/ p.paused

\* DraftScheduled of any panel.
Scheduled(p) ==
    \/ ~p.connected \/ p.conflict \/ p.paused
    \/ p.sync # None /\ p.draft = p.sync.ack
    \/ p.sync = None /\ ~p.dirty
    \/ p.timer \/ ~Idle(p)

\* A request and an answer with an id, and that it is the panel's.
Asking(f) == f.type \in {"sync", "edit", "action", "save"}
Ending(f) == f.type \in {"result", "saved", "error"}

AskedBy(p, f) ==
    \/ f.type = "sync" /\ f.id = p.syncReq
    \/ f.type \in {"edit", "action"} /\ f.id = p.editReq
    \/ f.type = "save" /\ f.id = p.saveReq

ToldTo(p, f) ==
    \/ f.type = "result" /\ f.id \in {p.editReq, p.syncReq}
    \/ f.type = "saved" /\ f.id = p.saveReq
    \/ f.type = "error" /\ f.id \in {p.editReq, p.syncReq, p.saveReq}

\* One frame for the request that is awaited, none otherwise.
Flying(p, sent, told) ==
    /\ \A j \in DOMAIN sent : Asking(sent[j]) => p.connected /\ AskedBy(p, sent[j])
    /\ \A j \in DOMAIN told : Ending(told[j]) => p.connected /\ ToldTo(p, told[j])
    /\ \A j, k \in DOMAIN sent : Asking(sent[j]) /\ Asking(sent[k]) => j = k
    /\ \A j, k \in DOMAIN told : Ending(told[j]) /\ Ending(told[k]) => j = k
    /\ \A j \in DOMAIN sent, k \in DOMAIN told : ~(Asking(sent[j]) /\ Ending(told[k]))
    /\ ~Idle(p) => \/ \E j \in DOMAIN sent : Asking(sent[j])
                   \/ \E j \in DOMAIN told : Ending(told[j])

\* The stages of opening a file on a connection: none, asked for, answered, or only its
\* snapshot to come, before which the panel only asks for a base.
NoOpen(sent) == \A j \in DOMAIN sent : sent[j].type # "open"
NoSnapshot(told, from) ==
    \A j \in DOMAIN told : j >= from => told[j].type \notin {"opened", "snapshot"}

Settled(sent, told) == NoOpen(sent) /\ NoSnapshot(told, 1)

Begun(p, sent, told, at) ==
    /\ ~p.connected /\ at = None
    /\ \/ Len(sent) = 1 /\ sent[1].type = "open" /\ told = <<>>
       \/ sent = <<>> /\ Len(told) = 2 /\ told[1].type = "opened" /\ told[2].type = "snapshot"

First(p, sent, told) ==
    /\ NoOpen(sent) /\ told # <<>> /\ told[1].type = "snapshot" /\ NoSnapshot(told, 2)
    /\ p.connected /\ p.editReq = None /\ p.saveReq = None
    /\ p.sync = None \/ p.syncReq # None

Opening(p, sent, told, at) ==
    Settled(sent, told) \/ Begun(p, sent, told, at) \/ First(p, sent, told)

KInv == /\ TypeOK /\ Core(panel) /\ Scheduled(panel) /\ panel.out = <<>>
        /\ Flying(panel, toDaemon, toPanel)
        /\ Opening(panel, toDaemon, toPanel, known)

-----------------------------------------------------------------------------
(* A base reconciled with a text, without what was heard of.               *)

LEMMA NewSyncTyped ==
    ASSUME NEW rev \in Nat, NEW text \in Text
    PROVE  /\ NewSync(text, rev) \in Sync /\ NewSync(text, rev) # None
           /\ NewSync(text, rev).conf = None /\ NewSync(text, rev).sent = None
           /\ NewSync(text, rev).ack = text
<1>1. NewSync(text, rev) \in Sync
  BY DEF NewSync, Sync
<1>. QED BY <1>1, NoneAssumption DEF NewSync

LEMMA DivergentTyped ==
    ASSUME NEW s \in Sync, NEW rev \in Nat, NEW text \in Text
    PROVE  /\ Divergent(s, rev, text) \in Sync /\ Divergent(s, rev, text) # None
           /\ Divergent(s, rev, text).sent = None
<1>1. [rev |-> rev, text |-> text] \in Version
  BY DEF Version
<1>2. Divergent(s, rev, text) \in Sync
  BY <1>1 DEF Divergent, Sync
<1>. QED BY <1>2, NoneAssumption DEF Divergent, Sync

\* A draft is only replaced if the base says that the daemon has it, or if there is none
\* and nothing was typed.
Reconciles(p, r, text) ==
    /\ r.outcome \in {"Adopted", "KeepDraft", "Conflict"}
    /\ r.sync \in Sync /\ r.sync # None /\ r.sync.sent = None
    /\ r.outcome # "Conflict" => r.sync.conf = None /\ r.sync.ack = text
    /\ r.outcome = "Adopted" =>
          IF p.sync = None THEN ~p.dirty \/ p.draft = text
          ELSE p.draft \in {p.sync.ack, text}

LEMMA ReconcileFacts ==
    ASSUME NEW p \in Panel, NEW rev \in Nat, NEW text \in Text
    PROVE  Reconciles(p, Reconcile(p, rev, text), text)
<1>. DEFINE r == Reconcile(p, rev, text)
<1>. SUFFICES Reconciles(p, r, text)
  OBVIOUS
<1>1. CASE p.sync = None
  <2>1. r = IF p.dirty /\ p.draft # text
            THEN [outcome |-> "Conflict", sync |-> Finish(NewSync(EmptyText, 0), FALSE, rev, text)]
            ELSE [outcome |-> "Adopted", sync |-> NewSync(text, rev)]
    BY <1>1 DEF Reconcile, FromInitialSnapshot
  <2>2. NewSync(EmptyText, 0) \in Sync
    BY TextAssumption, NewSyncTyped
  <2>3. Finish(NewSync(EmptyText, 0), FALSE, rev, text)
          = Divergent(NewSync(EmptyText, 0), rev, text)
    BY DEF Finish, Divergent
  <2>. HIDE DEF r
  <2>4. CASE p.dirty /\ p.draft # text
    <3>1. r.outcome = "Conflict" /\ r.sync = Divergent(NewSync(EmptyText, 0), rev, text)
      BY <2>1, <2>3, <2>4
    <3>. QED BY <1>1, <2>2, <3>1, DivergentTyped DEF Reconciles
  <2>5. CASE ~(p.dirty /\ p.draft # text)
    <3>1. r.outcome = "Adopted" /\ r.sync = NewSync(text, rev)
      BY <2>1, <2>5
    <3>. QED BY <1>1, <2>5, <3>1, NewSyncTyped DEF Reconciles
  <2>. QED BY <2>4, <2>5
<1>2. CASE p.sync # None
  <2>1. p.sync \in Sync
    BY <1>2 DEF Panel
  <2>2. Reconciled(r, p.sync, rev, text)
    BY <1>2, ProtectedReconciled DEF Reconcile
  <2>3. r.outcome = "Adopted" => p.draft \in {p.sync.ack, text}
    BY <1>2 DEF Reconcile, ReconcileProtectedSnapshot, ReconcileSnapshot, Reconciliation
  <2>. HIDE DEF r
  <2>4. CASE r.outcome = "Conflict" /\ r.sync = Divergent(p.sync, rev, text)
    <3>1. r.sync \in Sync /\ r.sync # None /\ r.sync.sent = None
      BY <2>1, <2>4, DivergentTyped
    <3>. QED BY <2>4, <3>1 DEF Reconciles
  <2>5. CASE r.outcome \in {"Adopted", "KeepDraft"} /\ r.sync = NewSync(text, rev)
    <3>1. /\ r.sync \in Sync /\ r.sync # None /\ r.sync.sent = None
          /\ r.sync.conf = None /\ r.sync.ack = text
      BY <2>5, NewSyncTyped
    <3>. QED BY <1>2, <2>3, <2>5, <3>1 DEF Reconciles
  <2>. QED BY <2>2, <2>4, <2>5 DEF Reconciled
<1>. QED BY <1>1, <1>2

\* A text that is the base already brings no conflict, nor does one for an unchanged draft.
LEMMA NoDivergence ==
    ASSUME NEW s, NEW rev, NEW text, NEW draft, draft = s.ack \/ text = s.ack
    PROVE  ReconcileSnapshot(s, rev, text, draft).sync = NewSync(text, rev)
  BY DEF ReconcileSnapshot, Reconciliation

-----------------------------------------------------------------------------
(* Sending.                                                                *)

SameRequests(p, q) ==
    /\ q.out = <<>> /\ q.connected = p.connected
    /\ q.editReq = p.editReq /\ q.syncReq = p.syncReq /\ q.saveReq = p.saveReq

Sends(q) == q.connected /\ \E f \in Requests : Asking(f) /\ AskedBy(q, f) /\ q.out = <<f>>

Rests(q) == q.out = <<>> /\ Idle(q)

LEMMA SendSyncSends ==
    ASSUME NEW p \in Panel, p.out = <<>>, NEW i \in Ids, Idle(p), p.connected,
           ~p.action, ~p.looping, p.saveText = None,
           p.sync # None /\ p.sync.conf # None => p.conflict
    PROVE  LET q == SendSync(p, i) IN
           /\ Core(q) /\ Scheduled(q) /\ Sends(q)
           /\ q.draft = p.draft /\ q.sync = p.sync /\ q.editReq = None /\ q.saveReq = None
<1>. DEFINE f == [type |-> "sync", id |-> i]
            q == SendSync(p, i)
<1>1. f \in Requests /\ f.type = "sync" /\ f.id = i
  BY DEF Requests
<1>2. i # None
  BY PanelAssumption
<1>. DEFINE out == <<f>>
<1>3. q = [p EXCEPT !.syncReq = i, !.out = out] /\ out \in Seq(Requests)
  BY <1>1 DEF SendSync
<1>. HIDE DEF q, out, f
<1>4. q \in Panel
  BY <1>3 DEF Panel
<1>5. /\ q.syncReq = i /\ q.out = out /\ q.editReq = None /\ q.saveReq = None
      /\ q.sync = p.sync /\ q.action = p.action /\ q.saveText = p.saveText
      /\ q.connected = p.connected /\ q.looping = p.looping /\ q.conflict = p.conflict
      /\ q.draft = p.draft
  BY <1>3 DEF Panel, Idle
<1>6. Core(q)
  BY <1>2, <1>4, <1>5 DEF Core, Idle
<1>7. Sends(q)
  BY <1>1, <1>5 DEF out, Sends, Asking, AskedBy
<1>. QED BY <1>2, <1>5, <1>6, <1>7 DEF q, Scheduled, Idle

\* flush_pending sends at most one request, of a panel that awaits none, and leaves
\* nothing to be flushed that it could send.
Flushed(p, q) ==
    /\ Core(q) /\ Scheduled(q) /\ q.draft = p.draft
    /\ SameRequests(p, q) \/ (Idle(p) /\ Sends(q))
    /\ q.connected = p.connected
    /\ q.sync = None <=> p.sync = None

LEMMA FlushSends ==
    ASSUME NEW p, Core(p), p.out = <<>>, NEW i \in Ids
    PROVE  Flushed(p, FlushPending(p, i))
<1>. DEFINE q == FlushPending(p, i)
<1>. SUFFICES Flushed(p, q)
  OBVIOUS
<1>0. i # None
  BY PanelAssumption
<1>1. CASE Blocked(p)
  <2>1. q = p
    BY <1>1 DEF FlushPending
  <2>2. Scheduled(p)
    BY <1>1 DEF Blocked, Core, Scheduled, Idle
  <2>. QED BY <2>1, <2>2 DEF Flushed, SameRequests
<1>2. CASE ~Blocked(p) /\ p.sync = None
  <2>1. /\ q = SendSync(p, i) /\ Idle(p) /\ p.connected /\ ~p.action
        /\ p \in Panel /\ ~p.looping /\ p.saveText = None
    BY <1>2 DEF FlushPending, Blocked, Idle, Core
  <2>. HIDE DEF q
  <2>. QED BY <1>2, <2>1, SendSyncSends DEF Flushed, Sends
<1>3. CASE ~Blocked(p) /\ p.sync # None
  <2>1. /\ p \in Panel /\ p.sync \in Sync /\ p.sync.conf = None /\ p.sync.sent = None
        /\ Idle(p) /\ p.connected /\ ~p.conflict /\ ~p.paused /\ ~p.action /\ ~p.looping
        /\ p.saveText = None /\ p.draft \in Text /\ p.sync.ack \in Text /\ p.sync.rev \in Nat
    BY <1>3 DEF Blocked, Core, Panel, Idle, Sync
  <2>2. CASE p.sync.ack # p.draft
    <3>. DEFINE f == [type |-> "edit", id |-> i, base |-> p.sync.rev,
                      from |-> p.sync.ack, text |-> p.draft]
                s == BeginEdit(p.sync, p.draft)
    <3>2. f \in Requests /\ f.type = "edit" /\ f.id = i
      BY <2>1 DEF Requests
    <3>. DEFINE out == <<f>>
    <3>1. q = [p EXCEPT !.sync = s, !.editReq = i, !.out = out] /\ out \in Seq(Requests)
      BY <1>3, <2>1, <2>2, <3>2 DEF FlushPending, CanBegin
    <3>3. s \in Sync /\ s.conf = None /\ s # None
      <4>1. s \in Sync /\ s.conf = None
        BY <2>1 DEF BeginEdit, Sync
      <4>. QED BY <4>1, NoneAssumption
    <3>. HIDE DEF f, s, out
    <3>4. q \in Panel
      BY <2>1, <3>1, <3>3 DEF Panel
    <3>5. /\ q.editReq = i /\ q.syncReq = None /\ q.saveReq = None /\ q.out = out
          /\ q.sync = s /\ ~q.action /\ q.saveText = None /\ q.connected /\ ~q.looping
          /\ q.draft = p.draft
      BY <2>1, <3>1 DEF Panel, Idle
    <3>. HIDE DEF q
    <3>6. Core(q)
      BY <1>0, <3>3, <3>4, <3>5 DEF Core, Idle
    <3>7. Sends(q)
      BY <3>2, <3>5 DEF out, Sends, Asking, AskedBy
    <3>8. Scheduled(q)
      BY <1>0, <3>5 DEF Scheduled, Idle
    <3>. QED BY <1>3, <2>1, <3>3, <3>5, <3>6, <3>7, <3>8 DEF Flushed
  <2>3. CASE p.sync.ack = p.draft /\ p.actions > 0
    <3>. DEFINE f == [type |-> "action", id |-> i, base |-> p.sync.rev]
                n == p.actions - 1
    <3>2. f \in Requests /\ f.type = "action" /\ f.id = i
      BY <2>1 DEF Requests
    <3>. DEFINE out == <<f>>
    <3>1. /\ q = [p EXCEPT !.actions = n, !.editReq = i, !.action = TRUE,
                           !.actionText = p.draft, !.out = out]
          /\ out \in Seq(Requests)
      BY <1>3, <2>1, <2>3, <3>2 DEF FlushPending, CanBegin, DrainPending
    <3>3. n \in Nat
      BY <2>1, <2>3 DEF Panel
    <3>. HIDE DEF f, n, out
    <3>4. q \in Panel
      BY <2>1, <3>1, <3>3 DEF Panel
    <3>5. /\ q.editReq = i /\ q.syncReq = None /\ q.saveReq = None /\ q.out = out
          /\ q.sync = p.sync /\ q.actionText = p.draft /\ q.saveText = None /\ q.connected
          /\ ~q.looping /\ q.draft = p.draft
      BY <2>1, <3>1 DEF Panel, Idle
    <3>. HIDE DEF q
    <3>6. Core(q)
      BY <1>0, <1>3, <2>1, <2>3, <3>4, <3>5 DEF Core, Idle
    <3>7. Sends(q)
      BY <3>2, <3>5 DEF out, Sends, Asking, AskedBy
    <3>8. Scheduled(q)
      BY <1>0, <3>5 DEF Scheduled, Idle
    <3>. QED BY <1>3, <2>1, <3>5, <3>6, <3>7, <3>8 DEF Flushed
  <2>4. CASE p.sync.ack = p.draft /\ ~(p.actions > 0) /\ p.pendingSave
    <3>. DEFINE f == [type |-> "save", id |-> i, base |-> p.sync.rev]
    <3>2. f \in Requests /\ f.type = "save" /\ f.id = i
      BY <2>1 DEF Requests
    <3>. DEFINE out == <<f>>
    <3>1. /\ q = [p EXCEPT !.pendingSave = FALSE, !.saveReq = i, !.saveText = p.draft,
                           !.out = out]
          /\ out \in Seq(Requests)
      BY <1>3, <2>1, <2>4, <3>2 DEF FlushPending, CanBegin, DrainPending
    <3>. HIDE DEF f, out
    <3>4. q \in Panel
      BY <2>1, <3>1 DEF Panel
    <3>5. /\ q.saveReq = i /\ q.syncReq = None /\ q.editReq = None /\ q.out = out
          /\ q.sync = p.sync /\ q.saveText = p.draft /\ ~q.action /\ q.connected
          /\ ~q.looping /\ q.draft = p.draft
      BY <2>1, <3>1 DEF Panel, Idle
    <3>. HIDE DEF q
    <3>6. Core(q)
      BY <1>0, <1>3, <2>1, <2>4, <3>4, <3>5, TextAssumption DEF Core, Idle
    <3>7. Sends(q)
      BY <3>2, <3>5 DEF out, Sends, Asking, AskedBy
    <3>8. Scheduled(q)
      BY <1>0, <3>5 DEF Scheduled, Idle
    <3>. QED BY <1>3, <2>1, <3>5, <3>6, <3>7, <3>8 DEF Flushed
  <2>5. CASE p.sync.ack = p.draft /\ ~(p.actions > 0) /\ ~p.pendingSave
    <3>1. q = p
      BY <1>3, <2>1, <2>5 DEF FlushPending, CanBegin, DrainPending
    <3>. QED BY <1>3, <2>5, <3>1 DEF Flushed, Scheduled, SameRequests
  <2>. QED BY <2>2, <2>3, <2>4, <2>5
<1>. QED BY <1>1, <1>2, <1>3

-----------------------------------------------------------------------------
(* What a handler leaves.                                                  *)

\* The draft is one that the daemon has, or it is untouched.
Seen(p) == IF p.sync = None THEN ~p.dirty ELSE p.draft = p.sync.ack

Goes(p, q) == Core(q) /\ Scheduled(q) /\ (q.draft = p.draft \/ Seen(p))

\* A panel that awaits nothing need only show its conflict.
LEMMA IdleCore ==
    ASSUME NEW q \in Panel, ~q.looping, Idle(q), ~q.action, q.saveText = None,
           q.sync # None => q.sync.sent = None /\ (q.sync.conf # None => q.conflict)
    PROVE  Core(q)
BY DEF Core, Idle

\* An answer ends the one request there is.
LEMMA OneAwaited ==
    ASSUME NEW p, Core(p)
    PROVE  /\ p.editReq # None => /\ p.syncReq = None /\ p.saveReq = None /\ p.saveText = None
                                  /\ p.sync \in Sync
           /\ p.saveReq # None => /\ p.syncReq = None /\ p.editReq = None /\ ~p.action
                                  /\ p.sync \in Sync /\ p.saveText = p.sync.ack
                                  /\ p.saveText # None
           /\ p.syncReq # None => /\ p.editReq = None /\ p.saveReq = None /\ ~p.action
                                  /\ p.saveText = None
BY DEF Core, Panel

\* What flush_pending does for a panel whose answer has come.
LEMMA FlushGoes ==
    ASSUME NEW p, NEW d, Core(d), Idle(d), d.out = <<>>, NEW i \in Ids,
           d.draft = p.draft \/ Seen(p)
    PROVE  LET q == FlushPending(d, i) IN
           Goes(p, q) /\ (Rests(q) \/ Sends(q)) /\ (q.sync = None <=> d.sync = None)
<1>. DEFINE q == FlushPending(d, i)
<1>1. Flushed(d, q)
  BY FlushSends
<1>. HIDE DEF q
<1>2. Goes(p, q) /\ (Rests(q) \/ Sends(q)) /\ (q.sync = None <=> d.sync = None)
  BY <1>1 DEF Flushed, Goes, Rests, SameRequests, Idle
<1>. QED BY <1>2 DEF q

LEMMA OnOpenedGoes ==
    ASSUME NEW p, Core(p), p.out = <<>>, ~p.connected, NEW i \in Ids
    PROVE  LET q == OnOpened(p, i) IN
           /\ Goes(p, q) /\ Sends(q)
           /\ q.editReq = None /\ q.saveReq = None /\ q.syncReq # None
<1>. DEFINE d == [p EXCEPT !.jump = TRUE, !.connected = TRUE, !.paused = FALSE,
                           !.editReq = None, !.saveReq = None, !.saveText = None]
            q == SendSync(d, i)
<1>1. /\ d \in Panel /\ d.editReq = None /\ d.saveReq = None /\ d.saveText = None
      /\ d.connected /\ ~d.paused /\ d.sync = p.sync /\ d.out = <<>>
      /\ d.syncReq = p.syncReq /\ d.action = p.action /\ d.looping = p.looping
      /\ d.conflict = p.conflict /\ d.draft = p.draft
  BY DEF Core, Panel
<1>2. p.syncReq = None /\ ~p.action /\ ~p.looping
  BY DEF Core, Idle
<1>3. q.syncReq = i
  BY <1>1 DEF SendSync, Panel
<1>. HIDE DEF d
<1>4. d.sync # None /\ d.sync.conf # None => d.conflict
  BY <1>1 DEF Core
<1>5. /\ Core(q) /\ Scheduled(q) /\ Sends(q) /\ q.draft = d.draft
      /\ q.editReq = None /\ q.saveReq = None
  BY <1>1, <1>2, <1>4, SendSyncSends DEF Idle
<1>6. q = OnOpened(p, i)
  BY DEF d, OnOpened
<1>. HIDE DEF q
<1>. QED BY <1>1, <1>3, <1>5, <1>6, PanelAssumption DEF Goes

\* In First, so that the panel has sent nothing but a request for a base.
LEMMA OnSnapshotGoes ==
    ASSUME NEW p, Core(p), Scheduled(p), p.out = <<>>, NEW i \in Ids,
           p.connected, p.editReq = None, p.saveReq = None, p.sync = None \/ p.syncReq # None,
           NEW m, m.rev \in Nat, m.text \in Text
    PROVE  LET q == OnSnapshot(p, m, i) IN
           Goes(p, q) /\ (SameRequests(p, q) \/ (Idle(p) /\ Sends(q)))
<1>. DEFINE r == Reconcile(p, m.rev, m.text)
            s == r.sync
            c == r.outcome = "Conflict"
            d == [p EXCEPT !.sync = s, !.rev = m.rev, !.conflict = c]
            t == TakeSnapshot(p, m.rev, m.text)
            q == OnSnapshot(p, m, i)
<1>. SUFFICES Goes(p, q) /\ (SameRequests(p, q) \/ (Idle(p) /\ Sends(q)))
  OBVIOUS
<1>1. Reconciles(p, r, m.text)
  BY ReconcileFacts DEF Core
<1>2. /\ s \in Sync /\ s # None /\ s.sent = None /\ (s.conf # None => c) /\ c \in BOOLEAN
  BY <1>1 DEF Reconciles
<1>3. p \in Panel /\ ~p.looping /\ ~p.action /\ p.saveText = None
  BY DEF Core
<1>4. \/ t = d
      \/ t = ScheduleEditFlush(d)
      \/ t = [SetText(d, m.text) EXCEPT !.dirty = FALSE] /\ (p.draft = m.text \/ Seen(p))
  BY <1>1, ZenonT(60) DEF TakeSnapshot, Reconciles, Seen
<1>5. /\ t \in Panel /\ t.sync = s /\ t.conflict = c /\ t.out = <<>>
      /\ t.connected /\ ~t.looping /\ ~t.action /\ t.saveText = None
      /\ t.editReq = None /\ t.saveReq = None /\ t.syncReq = p.syncReq
      /\ t.draft = p.draft \/ Seen(p)
  <2>. HIDE DEF s, c, t, r
  <2>1. /\ d \in Panel /\ d.sync = s /\ d.conflict = c /\ d.out = <<>>
        /\ d.connected /\ ~d.looping /\ ~d.action /\ d.saveText = None
        /\ d.editReq = None /\ d.saveReq = None /\ d.syncReq = p.syncReq
        /\ d.draft = p.draft
    BY <1>2, <1>3 DEF Panel
  <2>. HIDE DEF d
  <2>2. CASE t = d
    BY <2>1, <2>2
  <2>3. CASE t = ScheduleEditFlush(d)
    BY <2>1, <2>3 DEF ScheduleEditFlush, Panel
  <2>4. CASE /\ t = [SetText(d, m.text) EXCEPT !.dirty = FALSE]
             /\ p.draft = m.text \/ Seen(p)
    BY <2>1, <2>4 DEF SetText, Panel
  <2>. QED BY <1>4, <2>2, <2>3, <2>4
<1>6. CASE m.rev < p.rev
  <2>1. q = p
    BY <1>6 DEF OnSnapshot
  <2>. QED BY <2>1 DEF Goes, SameRequests
<1>7. CASE ~(m.rev < p.rev) /\ p.syncReq = None
  <2>1. q = SendSync(t, i)
    BY <1>5, <1>7 DEF OnSnapshot
  <2>. HIDE DEF t, q, s, c
  <2>. QED BY <1>2, <1>5, <1>7, <2>1, SendSyncSends DEF Goes, Idle
<1>8. CASE ~(m.rev < p.rev) /\ p.syncReq # None
  <2>1. q = t
    BY <1>5, <1>8 DEF OnSnapshot
  <2>. HIDE DEF t, q, s, c
  <2>2. Core(t) /\ Scheduled(t)
    BY <1>2, <1>5, <1>8 DEF Core, Scheduled, Idle
  <2>. QED BY <1>5, <2>1, <2>2 DEF Goes, SameRequests
<1>. QED BY <1>6, <1>7, <1>8

LEMMA OnSyncResultGoes ==
    ASSUME NEW p, Core(p), p.out = <<>>, p.syncReq # None, NEW i \in Ids,
           NEW m, m.rev \in Nat, m.text \in Text, m.dirty \in BOOLEAN
    PROVE  LET q == OnSyncResult(p, m, i) IN Goes(p, q) /\ (Rests(q) \/ Sends(q))
<1>. DEFINE r == Reconcile(p, m.rev, m.text)
            b == r.sync
            c == r.outcome = "Conflict"
            q == [p EXCEPT !.syncReq = None, !.sync = b, !.rev = m.rev, !.conflict = c]
            s == CASE r.outcome = "Adopted" /\ (p.draft # m.text \/ p.jump) -> SetText(q, m.text)
                   [] r.outcome = "KeepDraft" -> ScheduleEditFlush(q)
                   [] OTHER -> q
            e == m.dirty \/ s.draft # m.text \/ s.conflict
            d == [s EXCEPT !.dirty = e]
<1>1. Reconciles(p, r, m.text)
  BY ReconcileFacts DEF Core
<1>2. /\ b \in Sync /\ b # None /\ b.sent = None /\ (b.conf # None => c) /\ c \in BOOLEAN
  BY <1>1 DEF Reconciles
<1>3. /\ p \in Panel /\ ~p.looping
      /\ p.editReq = None /\ p.saveReq = None /\ ~p.action /\ p.saveText = None
  BY OneAwaited DEF Core
<1>4. \/ s \in {q, ScheduleEditFlush(q)}
      \/ s = SetText(q, m.text) /\ (p.draft = m.text \/ Seen(p))
  BY <1>1, ZenonT(60) DEF Reconciles, Seen
<1>5. /\ s \in Panel /\ s.sync = b /\ s.conflict = c /\ s.out = <<>>
      /\ ~s.looping /\ ~s.action /\ s.saveText = None /\ Idle(s)
      /\ s.draft = p.draft \/ Seen(p)
  <2>. HIDE DEF b, c, s, r
  <2>1. /\ q \in Panel /\ q.sync = b /\ q.conflict = c /\ q.out = <<>>
        /\ ~q.looping /\ ~q.action /\ q.saveText = None /\ Idle(q)
        /\ q.draft = p.draft
    BY <1>2, <1>3 DEF Panel, Idle
  <2>. HIDE DEF q
  <2>2. CASE s \in {q, ScheduleEditFlush(q)}
    BY <2>1, <2>2 DEF ScheduleEditFlush, Panel, Idle
  <2>3. CASE s = SetText(q, m.text) /\ (p.draft = m.text \/ Seen(p))
    BY <2>1, <2>3 DEF SetText, Panel, Idle
  <2>. QED BY <1>4, <2>2, <2>3
<1>6. /\ Core(d) /\ Idle(d) /\ d.out = <<>> /\ (d.draft = p.draft \/ Seen(p))
  <2>. HIDE DEF b, c, s
  <2>1. e \in BOOLEAN
    BY <1>5 DEF Panel
  <2>. HIDE DEF e
  <2>2. /\ d \in Panel /\ d.sync = b /\ d.conflict = c /\ d.out = <<>>
        /\ ~d.looping /\ ~d.action /\ d.saveText = None /\ Idle(d) /\ d.draft = s.draft
    BY <1>5, <2>1 DEF Panel, Idle
  <2>. HIDE DEF d
  <2>. QED BY <1>2, <1>5, <2>2, IdleCore
<1>7. OnSyncResult(p, m, i) = FlushPending(d, i)
  BY DEF OnSyncResult
<1>. HIDE DEF d
<1>. QED BY <1>6, <1>7, FlushGoes

LEMMA OnRejectedGoes ==
    ASSUME NEW p, Core(p), p.out = <<>>, p.editReq # None,
           NEW m, m.rev \in Nat, m.text \in Text
    PROVE  LET q == OnRejected(p, m) IN Goes(p, q) /\ Rests(q)
<1>. DEFINE s == Finish(p.sync, FALSE, m.rev, m.text)
            q == OnRejected(p, m)
<1>1. p \in Panel /\ p.sync \in Sync /\ p.syncReq = None /\ p.saveReq = None
      /\ p.saveText = None /\ ~p.looping
  BY OneAwaited DEF Core
<1>2. s \in Sync /\ s # None /\ s.sent = None
  BY <1>1, DivergentTyped DEF Finish, Divergent
<1>3. q = [p EXCEPT !.editReq = None, !.rev = m.rev, !.conflict = TRUE, !.sync = s,
                    !.pendingSave = FALSE, !.actions = 0, !.action = FALSE,
                    !.actionText = None]
  BY DEF OnRejected
<1>. HIDE DEF q, s
<1>4. /\ q \in Panel /\ Idle(q) /\ ~q.looping /\ ~q.action /\ q.saveText = None
      /\ q.sync = s /\ q.conflict /\ q.out = <<>> /\ q.draft = p.draft
  BY <1>1, <1>2, <1>3 DEF Panel, Idle
<1>5. Core(q)
  BY <1>2, <1>4, IdleCore
<1>6. Goes(p, q) /\ Rests(q)
  BY <1>4, <1>5 DEF Goes, Rests, Scheduled
<1>. QED BY <1>6 DEF q

LEMMA OnAcceptedGoes ==
    ASSUME NEW p, Core(p), p.out = <<>>, p.editReq # None, NEW i \in Ids,
           NEW m, m.rev \in Nat, m.text \in Text, m.dirty \in BOOLEAN
    PROVE  LET q == OnAccepted(p, m, i) IN Goes(p, q) /\ (Rests(q) \/ Sends(q))
<1>. DEFINE same == p.actionText = p.draft
            sync == IF ~p.action THEN Finish(p.sync, TRUE, m.rev, m.text)
                    ELSE IF same THEN ReconcileSnapshot(p.sync, m.rev, m.text, p.draft).sync
                    ELSE Finish(p.sync, FALSE, m.rev, m.text)
            c == sync.conf # None
            q == [p EXCEPT !.editReq = None, !.rev = m.rev, !.action = FALSE,
                           !.actionText = None, !.sync = sync, !.conflict = c]
            s == IF p.action /\ same THEN SetText(q, m.text) ELSE q
            e == m.dirty \/ s.draft # m.text \/ s.conflict
            d == [s EXCEPT !.dirty = e]
            u == [d EXCEPT !.pendingSave = FALSE]
<1>1. /\ p \in Panel /\ p.sync \in Sync /\ p.sync # None /\ ~p.looping
      /\ p.syncReq = None /\ p.saveReq = None /\ p.saveText = None
      /\ p.action => p.actionText = p.sync.ack
  BY OneAwaited DEF Core
<1>2. sync \in Sync /\ sync.sent = None
  <2>1. sync \in {NewSync(m.text, m.rev), Divergent(p.sync, m.rev, m.text)}
    <3>1. Reconciled(ReconcileSnapshot(p.sync, m.rev, m.text, p.draft),
                     p.sync, m.rev, m.text)
      BY SnapshotReconciled
    <3>. QED BY <3>1 DEF Reconciled, Finish, Divergent
  <2>. HIDE DEF sync
  <2>. QED BY <1>1, <2>1, NewSyncTyped, DivergentTyped
<1>3. p.action /\ same => Seen(p)
  BY <1>1 DEF Seen
<1>4. c \in BOOLEAN /\ (sync.conf # None => c)
  OBVIOUS
<1>. HIDE DEF sync
<1>5. /\ s \in Panel /\ s.sync = sync /\ s.conflict = c /\ s.out = <<>> /\ Idle(s)
      /\ ~s.looping /\ ~s.action /\ s.saveText = None
      /\ s.draft = p.draft \/ Seen(p)
  <2>. HIDE DEF c
  <2>1. /\ q \in Panel /\ q.sync = sync /\ q.conflict = c /\ q.out = <<>> /\ Idle(q)
        /\ ~q.looping /\ ~q.action /\ q.saveText = None /\ q.draft = p.draft
    BY <1>1, <1>2, <1>4 DEF Panel, Idle
  <2>. HIDE DEF q
  <2>2. CASE p.action /\ same
    <3>1. s = SetText(q, m.text) /\ Seen(p)
      BY <1>3, <2>2
    <3>. QED BY <2>1, <3>1 DEF SetText, Panel, Idle
  <2>3. CASE ~(p.action /\ same)
    BY <2>1, <2>3
  <2>. QED BY <2>2, <2>3
<1>6. /\ Core(d) /\ Idle(d) /\ d.out = <<>> /\ (d.draft = p.draft \/ Seen(p))
      /\ d \in Panel /\ d.sync = sync /\ ~d.looping /\ ~d.action /\ d.saveText = None
  <2>. HIDE DEF c, s
  <2>1. e \in BOOLEAN
    BY <1>5 DEF Panel
  <2>. HIDE DEF e
  <2>2. /\ d \in Panel /\ d.sync = sync /\ d.conflict = c /\ d.out = <<>> /\ Idle(d)
        /\ ~d.looping /\ ~d.action /\ d.saveText = None /\ d.draft = s.draft
    BY <1>5, <2>1 DEF Panel, Idle
  <2>. HIDE DEF d
  <2>. QED BY <1>2, <1>4, <1>5, <2>2, IdleCore
<1>7. OnAccepted(p, m, i) = IF d.conflict THEN u ELSE FlushPending(d, i)
  BY DEF OnAccepted, sync
<1>8. CASE d.conflict
  <2>. HIDE DEF d
  <2>1. /\ u \in Panel /\ u.sync = sync /\ u.conflict /\ u.out = <<>> /\ Idle(u)
        /\ ~u.looping /\ ~u.action /\ u.saveText = None /\ u.draft = d.draft
    BY <1>6, <1>8 DEF Panel, Idle
  <2>. HIDE DEF u
  <2>2. Core(u)
    BY <1>2, <2>1, IdleCore
  <2>. QED BY <1>6, <1>7, <1>8, <2>1, <2>2 DEF Goes, Rests, Scheduled
<1>9. CASE ~d.conflict
  <2>. HIDE DEF d
  <2>. QED BY <1>6, <1>7, <1>9, FlushGoes
<1>. QED BY <1>8, <1>9

\* finish_save: the text that was written is the base, whatever became of the draft.
LEMMA OnSavedGoes ==
    ASSUME NEW p, Core(p), p.out = <<>>, p.saveReq # None, NEW i \in Ids,
           NEW m, m.id = p.saveReq, m.rev \in Nat, m.text \in Text, m.dirty \in BOOLEAN
    PROVE  LET q == OnSaved(p, m, i) IN Goes(p, q) /\ (Rests(q) \/ Sends(q))
<1>. DEFINE t == TakeWritten(p, m)
            sync == IF t.saveText = None THEN t.sync
                    ELSE Finish(t.sync, TRUE, m.rev, t.saveText)
            c == t.saveText \notin {None, t.draft}
            d == [t EXCEPT !.rev = m.rev, !.saveReq = None, !.saveText = None,
                           !.sync = sync, !.dirty = c]
            s == IF d.dirty THEN FlushPending(d, i) ELSE d
            e == s.dirty \/ m.dirty
            q == [s EXCEPT !.dirty = e]
<1>1. /\ p \in Panel /\ p.sync \in Sync /\ ~p.looping /\ ~p.action
      /\ p.syncReq = None /\ p.editReq = None
      /\ p.saveText = p.sync.ack /\ p.saveText # None
  BY OneAwaited DEF Core
<1>2. /\ t \in Panel /\ t.saveText = m.text /\ t.out = <<>> /\ ~t.looping /\ ~t.action
      /\ t.syncReq = None /\ t.editReq = None
      /\ t.draft = p.draft \/ Seen(p)
  <2>1. CASE p.saveText = p.draft
    <3>1. t = [SetText(p, m.text) EXCEPT !.saveText = m.text]
      BY <2>1 DEF TakeWritten
    <3>2. Seen(p)
      BY <1>1, <2>1, NoneAssumption DEF Seen
    <3>. HIDE DEF t
    <3>. QED BY <1>1, <3>1, <3>2 DEF SetText, Panel
  <2>2. CASE p.saveText # p.draft /\ p.saveText = m.text
    <3>1. t = p
      BY <2>2 DEF TakeWritten
    <3>. HIDE DEF t
    <3>. QED BY <1>1, <2>2, <3>1
  <2>3. CASE p.saveText # p.draft /\ p.saveText # m.text
    <3>. DEFINE r == ReconcileSnapshot(p.sync, m.rev, m.text, p.draft)
                b == r.sync
                k == p.conflict \/ r.outcome = "Conflict"
    <3>1. t = [p EXCEPT !.sync = b, !.saveText = m.text, !.conflict = k]
      BY <1>1, <2>3 DEF TakeWritten
    <3>2. b \in Sync /\ k \in BOOLEAN
      <4>1. Reconciled(r, p.sync, m.rev, m.text)
        BY SnapshotReconciled
      <4>2. p.conflict \in BOOLEAN
        BY <1>1 DEF Panel
      <4>. HIDE DEF r
      <4>. QED BY <1>1, <4>1, <4>2, NewSyncTyped, DivergentTyped DEF Reconciled
    <3>. HIDE DEF t, b, k
    <3>. QED BY <1>1, <3>1, <3>2 DEF Panel
  <2>. QED BY <2>1, <2>2, <2>3
<1>3. OnSaved(p, m, i) = q
  BY DEF OnSaved, MarkSaved
<1>. HIDE DEF t
<1>4. /\ sync \in Sync /\ sync # None /\ sync.sent = None /\ sync.conf = None
      /\ sync.ack = m.text /\ c = (m.text # t.draft)
  <2>1. m.text # None
    BY TextAssumption
  <2>2. sync = NewSync(m.text, m.rev)
    BY <1>2, <2>1 DEF Finish
  <2>. HIDE DEF sync
  <2>. QED BY <1>2, <2>1, <2>2, NewSyncTyped
<1>. HIDE DEF sync, c
<1>5. /\ d \in Panel /\ d.sync = sync /\ d.dirty = c /\ d.out = <<>> /\ ~d.looping
      /\ ~d.action /\ d.saveText = None /\ Idle(d) /\ d.draft = t.draft
  BY <1>2, <1>4 DEF Panel, Idle
<1>. HIDE DEF d
<1>6. Core(d)
  BY <1>4, <1>5, IdleCore
<1>7. Goes(p, s) /\ (Rests(s) \/ Sends(s)) /\ s.sync # None
  <2>1. CASE d.dirty
    BY <1>2, <1>4, <1>5, <1>6, <2>1, FlushGoes
  <2>2. CASE ~d.dirty
    <3>1. d.draft = d.sync.ack
      BY <1>4, <1>5, <2>2
    <3>2. s = d
      BY <2>2
    <3>. HIDE DEF s
    <3>. QED BY <1>2, <1>4, <1>5, <1>6, <3>1, <3>2 DEF Goes, Rests, Scheduled
  <2>. QED BY <2>1, <2>2
<1>. HIDE DEF s
<1>8. s \in Panel /\ s.dirty \in BOOLEAN
  BY <1>7 DEF Goes, Core, Panel
<1>9. e \in BOOLEAN
  BY <1>8
<1>. HIDE DEF e
<1>10. /\ q \in Panel /\ q.sync = s.sync /\ q.conflict = s.conflict /\ q.out = s.out
       /\ q.connected = s.connected /\ q.paused = s.paused /\ q.timer = s.timer
       /\ q.editReq = s.editReq /\ q.syncReq = s.syncReq /\ q.saveReq = s.saveReq
       /\ q.saveText = s.saveText /\ q.action = s.action /\ q.actionText = s.actionText
       /\ q.looping = s.looping /\ q.draft = s.draft
  BY <1>8, <1>9 DEF Panel
<1>. HIDE DEF q
<1>11. Core(q)
  BY <1>7, <1>10 DEF Goes, Core, Idle
<1>12. Scheduled(q) /\ (q.draft = p.draft \/ Seen(p))
  BY <1>7, <1>10 DEF Goes, Scheduled, Idle
<1>13. Rests(q) \/ Sends(q)
  BY <1>7, <1>10 DEF Rests, Sends, AskedBy, Idle
<1>. QED BY <1>3, <1>11, <1>12, <1>13 DEF Goes

\* A state that the panel takes reaches it between two requests.
LEMMA OnStateGoes ==
    ASSUME NEW p, Core(p), Scheduled(p), p.out = <<>>,
           NEW m, m.rev \in Nat, m.text \in Text \cup {None}
    PROVE  LET q == OnState(p, m) IN Goes(p, q) /\ SameRequests(p, q)
<1>. DEFINE q == OnState(p, m)
<1>. SUFFICES Goes(p, q) /\ SameRequests(p, q)
  OBVIOUS
<1>1. CASE ~TakesState(p, m)
  <2>1. q = p
    BY <1>1 DEF OnState
  <2>. QED BY <2>1 DEF Goes, SameRequests
<1>2. CASE TakesState(p, m)
  <2>. DEFINE r == Reconcile(p, m.rev, m.text)
              s == r.sync
              d == [p EXCEPT !.sync = s, !.rev = m.rev]
              e == [SetText(d, m.text) EXCEPT !.dirty = TRUE, !.conflict = FALSE]
  <2>1. /\ p \in Panel /\ Idle(p) /\ ~p.looping /\ ~p.action /\ p.saveText = None
        /\ m.text \in Text
    BY <1>2 DEF Core, TakesState, Idle
  <2>2. Reconciles(p, r, m.text)
    BY <2>1, ReconcileFacts
  <2>3. \/ r.outcome = "Conflict" /\ q = [d EXCEPT !.conflict = TRUE]
        \/ r.outcome = "KeepDraft" /\ q = ScheduleEditFlush(d)
        \/ r.outcome = "Adopted" /\ Seen(p) /\ q = e
        \/ r.outcome = "Adopted" /\ p.draft = m.text /\ q = [d EXCEPT !.conflict = FALSE]
    <3>. HIDE DEF d, e
    <3>. QED BY <1>2, <2>2, ZenonT(60) DEF OnState, Reconciles, Seen, d, e
  <2>4. /\ s \in Sync /\ s # None /\ s.sent = None
        /\ r.outcome # "Conflict" => s.conf = None /\ s.ack = m.text
    BY <2>2 DEF Reconciles
  <2>. HIDE DEF r, s, q
  <2>5. /\ d \in Panel /\ d.sync = s /\ d.conflict = p.conflict /\ d.out = <<>> /\ Idle(d)
        /\ ~d.looping /\ ~d.action /\ d.saveText = None /\ d.connected = p.connected
        /\ d.draft = p.draft
    BY <2>1, <2>4 DEF Panel, Idle
  <2>. HIDE DEF d
  <2>6. /\ q \in Panel /\ q.sync = s /\ q.out = <<>> /\ Idle(q)
        /\ ~q.looping /\ ~q.action /\ q.saveText = None /\ q.connected = p.connected
        /\ q.draft = p.draft \/ Seen(p)
        /\ s.conf # None => q.conflict
        /\ q.conflict \/ q.timer \/ q.draft = s.ack
    <3>1. CASE r.outcome = "Conflict" /\ q = [d EXCEPT !.conflict = TRUE]
      BY <2>5, <3>1 DEF Panel, Idle
    <3>2. CASE r.outcome = "KeepDraft" /\ q = ScheduleEditFlush(d)
      BY <2>4, <2>5, <3>2 DEF ScheduleEditFlush, Panel, Idle
    <3>3. CASE r.outcome = "Adopted" /\ Seen(p) /\ q = e
      BY <2>1, <2>4, <2>5, <3>3 DEF SetText, Panel, Idle
    <3>4. CASE r.outcome = "Adopted" /\ p.draft = m.text /\ q = [d EXCEPT !.conflict = FALSE]
      BY <2>4, <2>5, <3>4 DEF Panel, Idle
    <3>. QED BY <2>3, <3>1, <3>2, <3>3, <3>4
  <2>7. Core(q)
    BY <2>4, <2>6, IdleCore
  <2>. QED BY <2>1, <2>4, <2>6, <2>7 DEF Goes, SameRequests, Scheduled, Idle
<1>. QED BY <1>1, <1>2

LEMMA OnErrorGoes ==
    ASSUME NEW p, Core(p), p.out = <<>>, NEW i \in Ids,
           NEW m, m.id \in Ids, m.id \in {p.editReq, p.syncReq, p.saveReq}
    PROVE  LET q == OnError(p, m, i) IN Goes(p, q) /\ (Rests(q) \/ Sends(q))
<1>0. p \in Panel /\ ~p.looping /\ m.id # None
  BY PanelAssumption DEF Core
<1>1. CASE p.editReq = m.id
  <2>. DEFINE s == ReconcileSnapshot(p.sync, p.sync.rev, p.sync.ack, p.draft).sync
              q == OnError(p, m, i)
  <2>1. p.sync \in Sync /\ p.syncReq = None /\ p.saveReq = None /\ p.saveText = None
    BY <1>0, <1>1, OneAwaited
  <2>2. s = NewSync(p.sync.ack, p.sync.rev)
    BY NoDivergence
  <2>3. s \in Sync /\ s # None /\ s.conf = None /\ s.sent = None
    BY <2>1, <2>2, NewSyncTyped DEF Sync
  <2>. HIDE DEF s
  <2>4. q = [p EXCEPT !.editReq = None, !.action = FALSE, !.actionText = None,
                      !.sync = s, !.paused = TRUE, !.pendingSave = FALSE, !.actions = 0]
    BY <1>1 DEF OnError, s
  <2>. HIDE DEF q
  <2>5. /\ q \in Panel /\ Idle(q) /\ ~q.looping /\ ~q.action /\ q.saveText = None
        /\ q.sync = s /\ q.paused /\ q.out = <<>> /\ q.draft = p.draft
    BY <1>0, <2>1, <2>3, <2>4 DEF Panel, Idle
  <2>6. Core(q)
    BY <2>3, <2>5, IdleCore
  <2>7. Goes(p, q) /\ Rests(q)
    BY <2>5, <2>6 DEF Goes, Rests, Scheduled
  <2>. QED BY <2>7 DEF q
<1>2. CASE p.editReq # m.id /\ p.saveReq = m.id
  <2>. DEFINE d == [p EXCEPT !.saveReq = None, !.saveText = None]
  <2>1. p.sync \in Sync /\ p.syncReq = None /\ p.editReq = None /\ ~p.action
    BY <1>0, <1>2, OneAwaited
  <2>2. /\ d \in Panel /\ Idle(d) /\ d.sync = p.sync /\ d.out = <<>> /\ ~d.looping /\ ~d.action
        /\ d.saveText = None /\ d.conflict = p.conflict /\ d.draft = p.draft
        /\ d.connected = p.connected /\ d.paused = p.paused
    BY <1>0, <2>1 DEF Panel, Idle
  <2>. HIDE DEF d
  <2>3. Core(d)
    BY <2>1, <2>2 DEF Core, Idle
  <2>4. OnError(p, m, i) = FlushPending(d, i)
    BY <1>2 DEF OnError, d
  <2>. QED BY <2>2, <2>3, <2>4, FlushGoes
<1>3. CASE p.editReq # m.id /\ p.saveReq # m.id /\ p.syncReq = m.id
  <2>. DEFINE q == [p EXCEPT !.syncReq = None, !.paused = TRUE]
  <2>1. p.editReq = None /\ p.saveReq = None /\ ~p.action /\ p.saveText = None
    BY <1>0, <1>3, OneAwaited
  <2>2. /\ q \in Panel /\ Idle(q) /\ q.sync = p.sync /\ q.out = <<>> /\ ~q.looping /\ ~q.action
        /\ q.saveText = None /\ q.conflict = p.conflict /\ q.draft = p.draft /\ q.paused
    BY <1>0, <2>1 DEF Panel, Idle
  <2>. HIDE DEF q
  <2>3. Core(q)
    BY <2>2 DEF Core, Idle
  <2>4. OnError(p, m, i) = q
    BY <1>3 DEF OnError, q
  <2>. QED BY <2>2, <2>3, <2>4 DEF Goes, Rests, Scheduled
<1>. QED BY <1>1, <1>2, <1>3

\* The answers with an id are for the request the panel awaits; the first snapshot of an
\* opening comes while nothing but a base is asked for.
LEMMA HandleGoes ==
    ASSUME NEW p, Core(p), Scheduled(p), p.out = <<>>, NEW i \in Ids, NEW m \in Replies,
           m.type # "opened",
           m.type = "snapshot" => /\ p.connected /\ p.editReq = None /\ p.saveReq = None
                                  /\ p.sync = None \/ p.syncReq # None,
           Ending(m) => ToldTo(p, m)
    PROVE  LET q == Handle(p, m, i) IN
           /\ Goes(p, q)
           /\ IF Ending(m) THEN Rests(q) \/ Sends(q)
              ELSE SameRequests(p, q) \/ (Idle(p) /\ Sends(q))
<1>1. CASE m.type = "snapshot"
  <2>1. m.rev \in Nat /\ m.text \in Text /\ ~Ending(m)
    BY <1>1 DEF Replies, Ending
  <2>2. Handle(p, m, i) = OnSnapshot(p, m, i)
    BY <1>1 DEF Handle
  <2>. QED BY <1>1, <2>1, <2>2, OnSnapshotGoes
<1>2. CASE m.type = "result"
  <2>1. m.id \in Ids /\ m.id # None /\ m.rev \in Nat /\ m.text \in Text /\ m.dirty \in BOOLEAN
        /\ m.accepted \in BOOLEAN
    BY <1>2, PanelAssumption DEF Replies
  <2>2. Ending(m) /\ m.id \in {p.editReq, p.syncReq}
    BY <1>2 DEF Ending, ToldTo
  <2>3. Handle(p, m, i) = OnResult(p, m, i)
    BY <1>2 DEF Handle
  <2>4. CASE p.syncReq = m.id
    <3>1. Handle(p, m, i) = OnSyncResult(p, m, i)
      BY <2>3, <2>4 DEF OnResult
    <3>. QED BY <2>1, <2>2, <2>4, <3>1, OnSyncResultGoes
  <2>5. CASE p.syncReq # m.id /\ m.accepted
    <3>1. Handle(p, m, i) = OnAccepted(p, m, i)
      BY <2>2, <2>3, <2>5 DEF OnResult
    <3>. QED BY <2>1, <2>2, <2>5, <3>1, OnAcceptedGoes
  <2>6. CASE p.syncReq # m.id /\ ~m.accepted
    <3>1. Handle(p, m, i) = OnRejected(p, m)
      BY <2>2, <2>3, <2>6 DEF OnResult
    <3>. QED BY <2>1, <2>2, <2>6, <3>1, OnRejectedGoes
  <2>. QED BY <2>1, <2>4, <2>5, <2>6
<1>3. CASE m.type = "saved"
  <2>1. m.id \in Ids /\ m.id # None /\ m.rev \in Nat /\ m.text \in Text /\ m.dirty \in BOOLEAN
    BY <1>3, PanelAssumption DEF Replies
  <2>2. Ending(m) /\ m.id = p.saveReq
    BY <1>3 DEF Ending, ToldTo
  <2>3. Handle(p, m, i) = OnSaved(p, m, i)
    BY <1>3 DEF Handle
  <2>. QED BY <2>1, <2>2, <2>3, OnSavedGoes
<1>4. CASE m.type = "state"
  <2>1. m.rev \in Nat /\ m.text \in Text \cup {None} /\ ~Ending(m)
    BY <1>4 DEF Replies, Ending
  <2>2. Handle(p, m, i) = OnState(p, m)
    BY <1>4 DEF Handle
  <2>. QED BY <2>1, <2>2, OnStateGoes
<1>5. CASE m.type = "error"
  <2>1. m.id \in Ids
    BY <1>5 DEF Replies
  <2>2. Ending(m) /\ m.id \in {p.editReq, p.syncReq, p.saveReq}
    BY <1>5 DEF Ending, ToldTo
  <2>3. Handle(p, m, i) = OnError(p, m, i)
    BY <1>5 DEF Handle
  <2>. QED BY <2>1, <2>2, <2>3, OnErrorGoes
<1>. QED BY <1>1, <1>2, <1>3, <1>4, <1>5 DEF Replies

-----------------------------------------------------------------------------
(* The frames on the socket.                                               *)

\* The daemon answers a request with an id once, under that id, an opening with a
\* snapshot, and a poll with a state.
AnswersTo(m, r) ==
    \/ /\ Asking(m) /\ Len(r) = 1 /\ Ending(r[1]) /\ r[1].id = m.id
       /\ m.type = "save" => r[1].type # "result"
       /\ m.type # "save" => r[1].type # "saved"
    \/ m.type = "open" /\ Len(r) = 2 /\ r[1].type = "opened" /\ r[2].type = "snapshot"
    \/ m.type = "poll" /\ Len(r) = 1 /\ r[1].type = "state"

LEMMA CheckpointAnswers ==
    ASSUME NEW b, NEW m, m.type \in {"sync", "edit", "action"}, NEW accepted,
           NEW a \in Checkpointed(m, b, accepted)
    PROVE  AnswersTo(m, a.replies)
<1>1. CASE a = Answer(b, <<Result(m, b, accepted)>>)
  <2>1. /\ Result(m, b, accepted).type = "result" /\ Result(m, b, accepted).id = m.id
    BY DEF Result
  <2>2. a.replies = <<Result(m, b, accepted)>>
    BY <1>1 DEF Answer
  <2>. QED BY <2>1, <2>2 DEF AnswersTo, Asking, Ending
<1>2. CASE a = Answer(b, <<Failure(m)>>)
  <2>1. Failure(m).type = "error" /\ Failure(m).id = m.id
    BY DEF Failure
  <2>2. a.replies = <<Failure(m)>>
    BY <1>2 DEF Answer
  <2>. QED BY <2>1, <2>2 DEF AnswersTo, Asking, Ending
<1>. QED BY <1>1, <1>2 DEF Checkpointed

LEMMA AnswersMatch ==
    ASSUME NEW m \in Requests, NEW a \in Answers(m)
    PROVE  AnswersTo(m, a.replies)
<1>1. CASE m.type = "open"
  <2>. DEFINE o == [type |-> "opened"]
              n == [type |-> "snapshot", rev |-> buf.rev, text |-> buf.text]
  <2>1. a.replies = <<o, n>> /\ o.type = "opened" /\ n.type = "snapshot"
    BY <1>1 DEF Answers, OpenAnswers, Answer
  <2>. HIDE DEF o, n
  <2>. QED BY <1>1, <2>1 DEF AnswersTo
<1>2. CASE m.type = "sync"
  <2>1. a \in SyncAnswers(m)
    BY <1>2 DEF Answers
  <2>2. \E b, accepted : a \in Checkpointed(m, b, accepted)
    BY <2>1 DEF SyncAnswers
  <2>. QED BY <1>2, <2>2, CheckpointAnswers
<1>3. CASE m.type = "edit"
  <2>1. a \in EditAnswers(m)
    BY <1>3 DEF Answers
  <2>2. \E b, accepted : a \in Checkpointed(m, b, accepted)
    BY <2>1 DEF EditAnswers
  <2>. QED BY <1>3, <2>2, CheckpointAnswers
<1>4. CASE m.type = "action"
  <2>1. a \in ActionAnswers(m)
    BY <1>4 DEF Answers
  <2>2. \/ a \in Checkpointed(m, buf, FALSE)
        \/ \E t \in Text, d \in BOOLEAN : a \in Checkpointed(m, Changed(t, d), TRUE)
    BY <2>1 DEF ActionAnswers
  <2>3. \E b, accepted : a \in Checkpointed(m, b, accepted)
    BY <2>2
  <2>. QED BY <1>4, <2>3, CheckpointAnswers
<1>5. CASE m.type = "save"
  <2>. DEFINE Written(t) == [text |-> t, rev |-> buf.rev + 1, dirty |-> FALSE]
              Reply(b) == [type |-> "saved", id |-> m.id, rev |-> b.rev, text |-> b.text,
                           dirty |-> b.dirty]
  <2>1. a \in SaveAnswers(m)
    BY <1>5 DEF Answers
  <2>2. \E b : a \in {Answer(b, <<Failure(m)>>), Answer(b, <<Reply(b)>>)}
    BY <2>1 DEF SaveAnswers
  <2>3. \A b : Reply(b).type = "saved" /\ Reply(b).id = m.id
    OBVIOUS
  <2>4. Failure(m).type = "error" /\ Failure(m).id = m.id
    BY DEF Failure
  <2>. HIDE DEF Reply
  <2>5. \E r : a.replies = <<r>> /\ r.type \in {"saved", "error"} /\ r.id = m.id
    BY <2>2, <2>3, <2>4 DEF Answer
  <2>. QED BY <1>5, <2>5 DEF AnswersTo, Asking, Ending
<1>6. CASE m.type = "poll"
  <2>. DEFINE r == [type |-> "state", rev |-> buf.rev,
                    text |-> IF m.known = buf.rev THEN None ELSE buf.text]
  <2>1. a.replies = <<r>> /\ r.type = "state"
    BY <1>6 DEF Answers, PollAnswers, Answer
  <2>. HIDE DEF r
  <2>. QED BY <1>6, <2>1 DEF AnswersTo
<1>. QED BY <1>1, <1>2, <1>3, <1>4, <1>5, <1>6 DEF Requests

\* Nothing on the socket asks for the panel, or answers it.
NoneFlying(sent, told) ==
    /\ \A j \in DOMAIN sent : ~Asking(sent[j])
    /\ \A j \in DOMAIN told : ~Ending(told[j])

LEMMA IdleFlying ==
    ASSUME NEW p, NEW sent \in Seq(Requests), NEW told \in Seq(Replies)
    PROVE  /\ Flying(p, sent, told) /\ Idle(p) => NoneFlying(sent, told)
           /\ NoneFlying(sent, told) /\ Idle(p) => Flying(p, sent, told)
<1>1. ASSUME Flying(p, sent, told), Idle(p)
      PROVE  NoneFlying(sent, told)
  <2>1. ASSUME NEW j \in DOMAIN sent, Asking(sent[j]) PROVE FALSE
    <3>1. sent[j] \in Requests /\ AskedBy(p, sent[j])
      BY <1>1, <2>1 DEF Flying
    <3>2. sent[j].id \in Ids
      BY <2>1, <3>1 DEF Requests, Asking
    <3>. QED BY <1>1, <3>1, <3>2, PanelAssumption DEF AskedBy, Idle
  <2>2. ASSUME NEW j \in DOMAIN told, Ending(told[j]) PROVE FALSE
    <3>1. told[j] \in Replies /\ ToldTo(p, told[j])
      BY <1>1, <2>2 DEF Flying
    <3>2. told[j].id \in Ids
      BY <2>2, <3>1 DEF Replies, Ending
    <3>. QED BY <1>1, <3>1, <3>2, PanelAssumption DEF ToldTo, Idle
  <2>. QED BY <2>1, <2>2 DEF NoneFlying
<1>2. NoneFlying(sent, told) /\ Idle(p) => Flying(p, sent, told)
  BY DEF NoneFlying, Flying
<1>. QED BY <1>1, <1>2

\* The elements of a concatenation, and of a tail.
LEMMA Joined ==
    ASSUME NEW S, NEW f \in Seq(S), NEW g \in Seq(S)
    PROVE  /\ f \o g \in Seq(S) /\ Len(f \o g) = Len(f) + Len(g)
           /\ \A k \in DOMAIN f : k \in DOMAIN (f \o g) /\ (f \o g)[k] = f[k]
           /\ \A k \in DOMAIN g : Len(f) + k \in DOMAIN (f \o g) /\ (f \o g)[Len(f) + k] = g[k]
           /\ \A k \in DOMAIN (f \o g) :
                 \/ k \in DOMAIN f /\ (f \o g)[k] = f[k]
                 \/ \E j \in DOMAIN g : k = Len(f) + j /\ (f \o g)[k] = g[j]
<1>1. \A k \in DOMAIN (f \o g) :
         \/ k \in DOMAIN f /\ (f \o g)[k] = f[k]
         \/ k - Len(f) \in DOMAIN g /\ k = Len(f) + (k - Len(f)) /\ (f \o g)[k] = g[k - Len(f)]
  OBVIOUS
<1>2. \A k \in DOMAIN (f \o g) :
         \/ k \in DOMAIN f /\ (f \o g)[k] = f[k]
         \/ \E j \in DOMAIN g : k = Len(f) + j /\ (f \o g)[k] = g[j]
  BY <1>1
<1>3. /\ f \o g \in Seq(S) /\ Len(f \o g) = Len(f) + Len(g)
      /\ \A k \in DOMAIN f : k \in DOMAIN (f \o g) /\ (f \o g)[k] = f[k]
      /\ \A k \in DOMAIN g : Len(f) + k \in DOMAIN (f \o g) /\ (f \o g)[Len(f) + k] = g[k]
  OBVIOUS
<1>. QED BY <1>2, <1>3

LEMMA TailOf ==
    ASSUME NEW S, NEW f \in Seq(S), f # <<>>
    PROVE  /\ Tail(f) \in Seq(S) /\ Head(f) = f[1] /\ Head(f) \in S /\ 1 \in DOMAIN f
           /\ Len(Tail(f)) = Len(f) - 1
           /\ \A k \in DOMAIN Tail(f) :
                 k \in Nat /\ k + 1 \in DOMAIN f /\ k + 1 # 1 /\ Tail(f)[k] = f[k + 1]
           /\ \A k \in DOMAIN f : k = 1 \/ (k - 1 \in DOMAIN Tail(f) /\ Tail(f)[k - 1] = f[k])
OBVIOUS

\* The panel sends what its handler left, or nothing.
Put(p, sent) == IF p.connected THEN sent \o p.out ELSE sent

LEMMA FlyingSent ==
    ASSUME NEW p, NEW q, NEW sent \in Seq(Requests), NEW told \in Seq(Replies),
           Flying(p, sent, told), SameRequests(p, q) \/ (Idle(p) /\ Sends(q))
    PROVE  Flying(q, Put(q, sent), told)
<1>1. CASE SameRequests(p, q)
  <2>1. Put(q, sent) = sent
    BY <1>1 DEF SameRequests, Put
  <2>. QED BY <1>1, <2>1 DEF SameRequests, Flying, AskedBy, ToldTo, Idle
<1>2. CASE Idle(p) /\ Sends(q)
  <2>1. NoneFlying(sent, told)
    BY <1>2, IdleFlying
  <2>2. PICK f \in Requests : Asking(f) /\ AskedBy(q, f) /\ q.out = <<f>>
    BY <1>2 DEF Sends
  <2>. DEFINE s == sent \o <<f>>
  <2>3. q.connected /\ Put(q, sent) = s
    BY <1>2, <2>2 DEF Sends, Put
  <2>4. /\ \A k \in DOMAIN s : k = Len(sent) + 1 \/ (k \in DOMAIN sent /\ s[k] = sent[k])
        /\ Len(sent) + 1 \in DOMAIN s /\ s[Len(sent) + 1] = f
    OBVIOUS
  <2>. HIDE DEF s
  <2>5. \A k \in DOMAIN s : Asking(s[k]) => k = Len(sent) + 1
    BY <2>1, <2>4 DEF NoneFlying
  <2>6. Flying(q, s, told)
    BY <2>1, <2>2, <2>3, <2>4, <2>5 DEF Flying, NoneFlying
  <2>. QED BY <2>3, <2>6
<1>. QED BY <1>1, <1>2

LEMMA FlyingAgain ==
    ASSUME NEW q, NEW sent \in Seq(Requests), NEW told \in Seq(Replies),
           NoneFlying(sent, told), Rests(q) \/ Sends(q)
    PROVE  Flying(q, Put(q, sent), told)
<1>. DEFINE p == [editReq |-> None, syncReq |-> None, saveReq |-> None, connected |-> q.connected]
<1>1. Idle(p) /\ Flying(p, sent, told)
  BY IdleFlying DEF Idle
<1>2. SameRequests(p, q) \/ (Idle(p) /\ Sends(q))
  BY <1>1 DEF Rests, SameRequests, Idle
<1>. HIDE DEF p
<1>. QED BY <1>1, <1>2, FlyingSent

\* A frame that asks nothing is sent, or an answer to nothing is taken.
LEMMA FlyingBeside ==
    ASSUME NEW p, NEW sent \in Seq(Requests), NEW told \in Seq(Replies),
           Flying(p, sent, told), NEW f \in Requests, ~Asking(f)
    PROVE  Flying(p, Append(sent, f), told)
<1>. DEFINE s == Append(sent, f)
<1>1. /\ \A k \in DOMAIN s : (k \in DOMAIN sent /\ s[k] = sent[k]) \/ s[k] = f
      /\ \A k \in DOMAIN sent : k \in DOMAIN s /\ s[k] = sent[k]
  OBVIOUS
<1>. HIDE DEF s
<1>2. /\ \A k \in DOMAIN s : Asking(s[k]) => k \in DOMAIN sent /\ s[k] = sent[k]
      /\ \A k \in DOMAIN sent : k \in DOMAIN s /\ s[k] = sent[k]
  BY <1>1
<1>3. Flying(p, s, told)
  BY <1>2 DEF Flying
<1>. QED BY <1>3 DEF s

\* The first answer is taken.
LEMMA FlyingTaken ==
    ASSUME NEW p, NEW sent \in Seq(Requests), NEW told \in Seq(Replies),
           Flying(p, sent, told), told # <<>>
    PROVE  /\ Ending(Head(told)) => ToldTo(p, Head(told)) /\ NoneFlying(sent, Tail(told))
           /\ ~Ending(Head(told)) => Flying(p, sent, Tail(told))
<1>. DEFINE t == Tail(told)
<1>1. /\ Head(told) = told[1] /\ 1 \in DOMAIN told
      /\ \A k \in DOMAIN t : k \in Nat /\ k + 1 \in DOMAIN told /\ k + 1 # 1 /\ t[k] = told[k + 1]
      /\ \A k \in DOMAIN told : k = 1 \/ (k - 1 \in DOMAIN t /\ t[k - 1] = told[k])
  BY TailOf
<1>t. t = Tail(told)
  OBVIOUS
<1>. HIDE DEF t
<1>2. ASSUME Ending(told[1])
      PROVE  ToldTo(p, told[1]) /\ NoneFlying(sent, t)
  BY <1>1, <1>2 DEF Flying, NoneFlying
<1>3. ASSUME ~Ending(told[1])
      PROVE  Flying(p, sent, t)
  <2>1. \A j \in DOMAIN t : Ending(t[j]) => p.connected /\ ToldTo(p, t[j])
    BY <1>1 DEF Flying
  <2>2. \A j, k \in DOMAIN t : Ending(t[j]) /\ Ending(t[k]) => j = k
    <3>. SUFFICES ASSUME NEW j \in DOMAIN t, NEW k \in DOMAIN t, Ending(t[j]), Ending(t[k])
                  PROVE  j = k
      OBVIOUS
    <3>1. j + 1 = k + 1
      BY <1>1 DEF Flying
    <3>. QED BY <1>1, <3>1
  <2>3. \A j \in DOMAIN sent, k \in DOMAIN t : ~(Asking(sent[j]) /\ Ending(t[k]))
    BY <1>1 DEF Flying
  <2>4. (\E j \in DOMAIN told : Ending(told[j])) => \E j \in DOMAIN t : Ending(t[j])
    BY <1>1, <1>3
  <2>. QED BY <2>1, <2>2, <2>3, <2>4 DEF Flying
<1>. QED BY <1>1, <1>2, <1>3, <1>t

\* The daemon answers the first frame.
LEMMA FlyingAnswered ==
    ASSUME NEW p, NEW sent \in Seq(Requests), NEW told \in Seq(Replies),
           Flying(p, sent, told), sent # <<>>,
           NEW r \in Seq(Replies), AnswersTo(Head(sent), r)
    PROVE  Flying(p, Tail(sent), told \o r)
<1>. DEFINE s == Tail(sent)
            t == told \o r
            m == Head(sent)
<1>1. /\ m = sent[1] /\ 1 \in DOMAIN sent
      /\ \A k \in DOMAIN s : k \in Nat /\ k + 1 \in DOMAIN sent /\ k + 1 # 1 /\ s[k] = sent[k + 1]
      /\ \A k \in DOMAIN sent : k = 1 \/ (k - 1 \in DOMAIN s /\ s[k - 1] = sent[k])
  BY TailOf
<1>2. /\ \A k \in DOMAIN told : k \in DOMAIN t /\ t[k] = told[k]
      /\ \A k \in DOMAIN r : Len(told) + k \in DOMAIN t /\ t[Len(told) + k] = r[k]
      /\ \A k \in DOMAIN t : \/ k \in DOMAIN told /\ t[k] = told[k]
                             \/ \E j \in DOMAIN r : k = Len(told) + j /\ t[k] = r[j]
  BY Joined
<1>m. AnswersTo(m, r)
  OBVIOUS
<1>3. Flying(p, s, t)
  <2>. HIDE DEF s, t, m
  <2>1. CASE Asking(m)
    <3>1. /\ NoneFlying(s, told) /\ p.connected /\ AskedBy(p, m)
      BY <1>1, <2>1 DEF Flying, NoneFlying
    <3>2. DOMAIN r = {1} /\ Ending(r[1]) /\ ToldTo(p, r[1])
      <4>1. /\ Len(r) = 1 /\ Ending(r[1]) /\ r[1].id = m.id
            /\ m.type = "save" => r[1].type # "result"
            /\ m.type # "save" => r[1].type # "saved"
        BY <1>m, <2>1 DEF AnswersTo, Asking
      <4>2. ToldTo(p, r[1])
        BY <3>1, <4>1 DEF AskedBy, ToldTo, Ending
      <4>3. DOMAIN r = {1}
        BY <4>1
      <4>. QED BY <4>1, <4>2, <4>3
    <3>. DEFINE last == Len(told) + 1
    <3>3. /\ last \in DOMAIN t /\ t[last] = r[1]
          /\ \A k \in DOMAIN t : Ending(t[k]) => k = last
      BY <1>2, <3>1, <3>2 DEF NoneFlying
    <3>. HIDE DEF last
    <3>. QED BY <3>1, <3>2, <3>3 DEF Flying, NoneFlying
  <2>2. CASE ~Asking(m)
    <3>1. \A k \in DOMAIN r : ~Ending(r[k])
      <4>1. \/ Len(r) = 2 /\ r[1].type = "opened" /\ r[2].type = "snapshot"
            \/ Len(r) = 1 /\ r[1].type = "state"
        BY <1>m, <2>2 DEF AnswersTo, Asking
      <4>2. \A k \in DOMAIN r : r[k].type \in {"opened", "snapshot", "state"}
        BY <4>1
      <4>. QED BY <4>2 DEF Ending
    <3>2. \A k \in DOMAIN t : Ending(t[k]) => k \in DOMAIN told /\ t[k] = told[k]
      BY <1>2, <3>1
    <3>3. \A j \in DOMAIN s : Asking(s[j]) => p.connected /\ AskedBy(p, s[j])
      BY <1>1 DEF Flying
    <3>4. \A j, k \in DOMAIN s : Asking(s[j]) /\ Asking(s[k]) => j = k
      <4>. SUFFICES ASSUME NEW j \in DOMAIN s, NEW k \in DOMAIN s, Asking(s[j]), Asking(s[k])
                    PROVE  j = k
        OBVIOUS
      <4>1. j + 1 = k + 1
        BY <1>1 DEF Flying
      <4>. QED BY <1>1, <4>1
    <3>5. \A j \in DOMAIN s, k \in DOMAIN t : ~(Asking(s[j]) /\ Ending(t[k]))
      BY <1>1, <3>2 DEF Flying
    <3>6. (\E j \in DOMAIN sent : Asking(sent[j])) => \E j \in DOMAIN s : Asking(s[j])
      BY <1>1, <2>2
    <3>7. (\E j \in DOMAIN told : Ending(told[j])) => \E j \in DOMAIN t : Ending(t[j])
      BY <1>2
    <3>8. /\ \A j \in DOMAIN t : Ending(t[j]) => p.connected /\ ToldTo(p, t[j])
          /\ \A j, k \in DOMAIN t : Ending(t[j]) /\ Ending(t[k]) => j = k
      BY <3>2 DEF Flying
    <3>. QED BY <3>3, <3>4, <3>5, <3>6, <3>7, <3>8 DEF Flying
  <2>. QED BY <2>1, <2>2
<1>. QED BY <1>3

-----------------------------------------------------------------------------
(* The stages of an opening.                                               *)

LEMMA PutFrames ==
    ASSUME NEW p, NEW q, NEW sent \in Seq(Requests),
           SameRequests(p, q) \/ (Idle(p) /\ Sends(q)) \/ Rests(q)
    PROVE  /\ Put(q, sent) \in Seq(Requests)
           /\ NoOpen(sent) => NoOpen(Put(q, sent))
           /\ ~q.connected => Put(q, sent) = sent
<1>1. CASE SameRequests(p, q) \/ Rests(q)
  <2>1. q.out = <<>> /\ sent \o <<>> = sent
    BY <1>1 DEF SameRequests, Rests
  <2>. QED BY <2>1 DEF Put
<1>2. CASE Idle(p) /\ Sends(q)
  <2>1. PICK f \in Requests : Asking(f) /\ AskedBy(q, f) /\ q.out = <<f>>
    BY <1>2 DEF Sends
  <2>. DEFINE s == sent \o <<f>>
  <2>2. q.connected /\ Put(q, sent) = s
    BY <1>2, <2>1 DEF Sends, Put
  <2>3. s \in Seq(Requests) /\ \A k \in DOMAIN s : s[k] = f \/ (k \in DOMAIN sent /\ s[k] = sent[k])
    OBVIOUS
  <2>4. f.type # "open"
    BY <2>1 DEF Asking
  <2>. HIDE DEF s
  <2>. QED BY <2>2, <2>3, <2>4 DEF NoOpen
<1>. QED BY <1>1, <1>2

LEMMA OpeningSent ==
    ASSUME NEW p, NEW q, Core(q), NEW sent \in Seq(Requests), NEW told \in Seq(Replies), NEW at,
           Opening(p, sent, told, at), SameRequests(p, q) \/ (Idle(p) /\ Sends(q)),
           q.connected = p.connected, q.sync = None <=> p.sync = None
    PROVE  Opening(q, Put(q, sent), told, at)
<1>1. CASE Settled(sent, told)
  BY <1>1, PutFrames DEF Settled, Opening
<1>2. CASE Begun(p, sent, told, at)
  <2>1. ~q.connected /\ Put(q, sent) = sent
    BY <1>2, PutFrames DEF Begun
  <2>. QED BY <1>2, <2>1 DEF Begun, Opening
<1>3. CASE First(p, sent, told)
  <2>1. CASE SameRequests(p, q)
    BY <1>3, <2>1, PutFrames DEF First, Opening, SameRequests
  <2>2. CASE Idle(p) /\ Sends(q)
    <3>1. q.sync = None
      BY <1>3, <2>2 DEF First, Idle
    <3>2. q.editReq = None /\ q.saveReq = None
      BY <3>1 DEF Core
    <3>. QED BY <1>3, <2>2, <3>1, <3>2, PutFrames DEF First, Opening
  <2>. QED BY <2>1, <2>2
<1>. QED BY <1>1, <1>2, <1>3 DEF Opening

LEMMA OpeningPolled ==
    ASSUME NEW p, NEW sent \in Seq(Requests), NEW told, NEW at, at # None,
           Opening(p, sent, told, at), NEW f \in Requests, f.type # "open"
    PROVE  Opening(p, Append(sent, f), told, at)
<1>. DEFINE s == Append(sent, f)
<1>1. \A k \in DOMAIN s : (k \in DOMAIN sent /\ s[k] = sent[k]) \/ s[k] = f
  OBVIOUS
<1>. HIDE DEF s
<1>2. NoOpen(sent) => NoOpen(s)
  BY <1>1 DEF NoOpen
<1>3. Opening(p, s, told, at)
  BY <1>2 DEF Opening, Settled, Begun, First
<1>. QED BY <1>3 DEF s

LEMMA OpeningAnswered ==
    ASSUME NEW p, NEW sent \in Seq(Requests), NEW told \in Seq(Replies), NEW at,
           Opening(p, sent, told, at), sent # <<>>,
           NEW r \in Seq(Replies), AnswersTo(Head(sent), r)
    PROVE  Opening(p, Tail(sent), told \o r, at)
<1>. DEFINE s == Tail(sent)
            t == told \o r
            m == Head(sent)
<1>1. /\ m = sent[1] /\ 1 \in DOMAIN sent /\ s \in Seq(Requests) /\ Len(s) = Len(sent) - 1
      /\ \A k \in DOMAIN s : k \in Nat /\ k + 1 \in DOMAIN sent /\ s[k] = sent[k + 1]
  BY TailOf
<1>2. /\ t \in Seq(Replies) /\ Len(t) = Len(told) + Len(r)
      /\ \A k \in DOMAIN told : k \in DOMAIN t /\ t[k] = told[k]
      /\ \A k \in DOMAIN t : \/ k \in DOMAIN told /\ t[k] = told[k]
                             \/ \E j \in DOMAIN r : k = Len(told) + j /\ t[k] = r[j]
  BY Joined
<1>m. AnswersTo(m, r)
  OBVIOUS
<1>3. CASE Begun(p, sent, told, at)
  <2>1. Len(sent) = 1 /\ m.type = "open" /\ told = <<>>
    BY <1>1, <1>3 DEF Begun
  <2>2. s = <<>> /\ t = r
    <3>1. Len(s) = 0 /\ <<>> \o r = r
      BY <1>1, <2>1
    <3>. HIDE DEF s
    <3>2. s = <<>>
      BY <1>1, <3>1
    <3>. QED BY <2>1, <3>1, <3>2
  <2>3. Len(r) = 2 /\ r[1].type = "opened" /\ r[2].type = "snapshot"
    <3>. HIDE DEF m
    <3>. QED BY <1>m, <2>1 DEF AnswersTo, Asking
  <2>. HIDE DEF s, t, m
  <2>. QED BY <1>3, <2>2, <2>3 DEF Begun, Opening, s, t
<1>4. CASE Settled(sent, told) \/ First(p, sent, told)
  <2>. HIDE DEF s, t, m
  <2>1. m.type # "open" /\ NoOpen(s)
    BY <1>1, <1>4 DEF Settled, First, NoOpen
  <2>2. \A k \in DOMAIN r : r[k].type \notin {"opened", "snapshot"}
    <3>1. Len(r) = 1 /\ (Ending(r[1]) \/ r[1].type = "state")
      BY <1>m, <2>1 DEF AnswersTo
    <3>2. \A k \in DOMAIN r : k = 1
      BY <3>1
    <3>. QED BY <3>1, <3>2 DEF Ending
  <2>3. \A n \in {1, 2} : NoSnapshot(told, n) => NoSnapshot(t, n)
    BY <1>2, <2>2 DEF NoSnapshot
  <2>4. CASE Settled(sent, told)
    <3>1. Opening(p, s, t, at)
      BY <2>1, <2>3, <2>4 DEF Settled, Opening
    <3>. QED BY <3>1 DEF s, t
  <2>5. CASE First(p, sent, told)
    <3>1. 1 \in DOMAIN told
      BY <2>5 DEF First
    <3>2. t # <<>> /\ t[1] = told[1]
      BY <1>2, <3>1
    <3>3. Opening(p, s, t, at)
      BY <2>1, <2>3, <2>5, <3>2 DEF First, Opening
    <3>. QED BY <3>3 DEF s, t
  <2>. QED BY <1>4, <2>4, <2>5
<1>. QED BY <1>3, <1>4 DEF Opening

\* The first answer is "opened", and the snapshot is behind it; or it is the awaited
\* snapshot, or there is none.
LEMMA OpeningTaken ==
    ASSUME NEW p, NEW sent \in Seq(Requests), NEW told \in Seq(Replies), NEW at,
           Opening(p, sent, told, at), told # <<>>
    PROVE  IF Head(told).type = "opened"
           THEN /\ ~p.connected /\ sent = <<>> /\ Len(Tail(told)) = 1
                /\ Tail(told)[1].type = "snapshot"
           ELSE /\ Settled(sent, Tail(told))
                /\ Head(told).type = "snapshot" =>
                      /\ p.connected /\ p.editReq = None /\ p.saveReq = None
                      /\ p.sync = None \/ p.syncReq # None
<1>. DEFINE t == Tail(told)
<1>1. /\ Head(told) = told[1] /\ 1 \in DOMAIN told /\ Len(t) = Len(told) - 1
      /\ \A k \in DOMAIN t : k \in Nat /\ k + 1 \in DOMAIN told /\ k + 1 # 1 /\ t[k] = told[k + 1]
  BY TailOf
<1>2. CASE Begun(p, sent, told, at)
  <2>1. sent = <<>> /\ Len(told) = 2 /\ told[1].type = "opened" /\ told[2].type = "snapshot"
    BY <1>2 DEF Begun
  <2>2. Len(t) = 1 /\ t[1] = told[2]
    <3>1. Len(t) = 1 /\ 1 \in DOMAIN t
      BY <1>1, <2>1
    <3>. HIDE DEF t
    <3>2. t[1] = told[1 + 1]
      BY <1>1, <3>1
    <3>. QED BY <3>1, <3>2
  <2>. QED BY <1>1, <1>2, <2>1, <2>2 DEF Begun
<1>3. CASE Settled(sent, told)
  <2>1. told[1].type \notin {"opened", "snapshot"}
    BY <1>1, <1>3 DEF Settled, NoSnapshot
  <2>2. NoSnapshot(t, 1)
    <3>. HIDE DEF t
    <3>. QED BY <1>1, <1>3 DEF Settled, NoSnapshot
  <2>. QED BY <1>1, <1>3, <2>1, <2>2 DEF Settled
<1>4. CASE First(p, sent, told)
  <2>1. told[1].type = "snapshot"
    BY <1>4 DEF First
  <2>2. NoSnapshot(t, 1)
    <3>1. \A k \in DOMAIN t : k + 1 >= 2
      BY <1>1
    <3>. HIDE DEF t
    <3>. QED BY <1>1, <1>4, <3>1 DEF First, NoSnapshot
  <2>. QED BY <1>1, <1>4, <2>1, <2>2 DEF First, Settled
<1>. QED BY <1>2, <1>3, <1>4 DEF Opening

-----------------------------------------------------------------------------
(* The steps.                                                              *)

\* Core is about eleven fields of a panel.
LEMMA SameCore ==
    ASSUME NEW p, Core(p), NEW q \in Panel,
           q.sync = p.sync, q.conflict = p.conflict, q.paused = p.paused,
           q.connected = p.connected, q.looping = p.looping,
           q.editReq = p.editReq, q.syncReq = p.syncReq, q.saveReq = p.saveReq,
           q.saveText = p.saveText, q.action = p.action, q.actionText = p.actionText
    PROVE  Core(q)
BY DEF Core, Idle

\* Only out changes when a panel's requests are put on the socket.
LEMMA Cleared ==
    ASSUME NEW q, Core(q), Scheduled(q)
    PROVE  LET p == [q EXCEPT !.out = <<>>] IN
           /\ Core(p) /\ Scheduled(p) /\ p.out = <<>> /\ p.draft = q.draft
           /\ \A sent, told : Flying(q, sent, told) => Flying(p, sent, told)
           /\ \A sent, told, at : Opening(q, sent, told, at) => Opening(p, sent, told, at)
<1>. DEFINE p == [q EXCEPT !.out = <<>>]
<1>1. q \in Panel /\ <<>> \in Seq(Requests)
  BY DEF Core
<1>2. /\ p \in Panel /\ p.out = <<>> /\ p.draft = q.draft /\ p.dirty = q.dirty
      /\ p.sync = q.sync /\ p.conflict = q.conflict /\ p.paused = q.paused
      /\ p.connected = q.connected /\ p.looping = q.looping /\ p.timer = q.timer
      /\ p.editReq = q.editReq /\ p.syncReq = q.syncReq /\ p.saveReq = q.saveReq
      /\ p.saveText = q.saveText /\ p.action = q.action /\ p.actionText = q.actionText
  BY <1>1 DEF Panel
<1>. HIDE DEF p
<1>3. Core(p)
  BY <1>2, SameCore
<1>4. Scheduled(p)
  BY <1>2 DEF Scheduled, Idle
<1>5. \A sent, told : Flying(q, sent, told) => Flying(p, sent, told)
  BY <1>2 DEF Flying, AskedBy, ToldTo, Idle
<1>6. \A sent, told, at : Opening(q, sent, told, at) => Opening(p, sent, told, at)
  BY <1>2 DEF Opening, Settled, Begun, First
<1>7. p.out = <<>> /\ p.draft = q.draft
  BY <1>2
<1>. QED BY <1>3, <1>4, <1>5, <1>6, <1>7 DEF p

\* Whatever else has its type, and the panel becomes q.
LEMMA KeptBy ==
    ASSUME NEW q, Core(q), Scheduled(q), panel' = [q EXCEPT !.out = <<>>],
           Flying(q, toDaemon', toPanel'), Opening(q, toDaemon', toPanel', known'),
           buf' \in Buffer, toDaemon' \in Seq(Requests), toPanel' \in Seq(Replies),
           orphan' \in Seq(Requests), known' \in Nat \cup {None}, inputs' \in Nat
    PROVE  KInv'
<1>1. /\ Core(panel') /\ Scheduled(panel') /\ panel'.out = <<>>
      /\ Flying(panel', toDaemon', toPanel') /\ Opening(panel', toDaemon', toPanel', known')
  BY Cleared
<1>2. TypeOK'
  BY <1>1 DEF TypeOK, Core
<1>. QED BY <1>1, <1>2 DEF KInv

\* The panel stays as it is.
LEMMA KeptBeside ==
    ASSUME KInv, panel' = panel,
           Flying(panel, toDaemon', toPanel'), Opening(panel, toDaemon', toPanel', known'),
           buf' \in Buffer, toDaemon' \in Seq(Requests), toPanel' \in Seq(Replies),
           orphan' \in Seq(Requests), known' \in Nat \cup {None}, inputs' \in Nat
    PROVE  KInv'
BY DEF KInv, TypeOK

\* The panel becomes q, without an answer.
LEMMA MoveStep ==
    ASSUME KInv, NEW q, Core(q), Scheduled(q), Step(q),
           SameRequests(panel, q) \/ (Idle(panel) /\ Sends(q)),
           q.connected = panel.connected, q.sync = None <=> panel.sync = None,
           UNCHANGED <<buf, toPanel, known, orphan>>, inputs' \in Nat
    PROVE  KInv'
<1>1. toDaemon' = Put(q, toDaemon) /\ panel' = [q EXCEPT !.out = <<>>]
  BY DEF Step, Put
<1>2. /\ Flying(q, Put(q, toDaemon), toPanel)
      /\ Opening(q, Put(q, toDaemon), toPanel, known)
      /\ Put(q, toDaemon) \in Seq(Requests)
  BY FlyingSent, OpeningSent, PutFrames DEF KInv, TypeOK
<1>. QED BY <1>1, <1>2, KeptBy DEF KInv, TypeOK

\* The panel becomes p and is flushed.
LEMMA FlushStep ==
    ASSUME KInv, NEW p, Core(p), SameRequests(panel, p),
           p.sync = None <=> panel.sync = None,
           NEW i \in FreshId, Step(FlushPending(p, i)),
           UNCHANGED <<buf, toPanel, known, orphan>>, inputs' \in Nat
    PROVE  KInv'
<1>. DEFINE q == FlushPending(p, i)
<1>1. Flushed(p, q)
  BY FreshIdOK, FlushSends DEF SameRequests
<1>2. Step(q)
  OBVIOUS
<1>. HIDE DEF q
<1>3. /\ Core(q) /\ Scheduled(q) /\ q.connected = panel.connected
      /\ q.sync = None <=> panel.sync = None
      /\ SameRequests(panel, q) \/ (Idle(panel) /\ Sends(q))
  BY <1>1 DEF Flushed, SameRequests, Idle
<1>. QED BY <1>2, <1>3, MoveStep

LEMMA KInput ==
    ASSUME KInv, NEW op, Input(op)
    PROVE  inputs' \in Nat
BY DEF KInv, TypeOK, Input

LEMMA ResolvedCore ==
    ASSUME NEW p, Core(p), p.out = <<>>, HasConflict(p)
    PROVE  LET q == Resolved(p) IN
           /\ Core(q) /\ SameRequests(p, q) /\ q.sync # None /\ p.sync # None
           /\ q.sync.ack = p.sync.conf.text /\ p.sync.conf.text \in Text
<1>. DEFINE s == ResolveConflict(p.sync)
            q == Resolved(p)
<1>1. p \in Panel /\ p.sync \in Sync /\ p.sync.conf \in Version /\ p.sync # None
  BY DEF Core, Panel, HasConflict, Sync
<1>2. p.sync.conf.rev \in Nat /\ p.sync.conf.text \in Text
  BY <1>1 DEF Version
<1>3. /\ s \in Sync /\ s # None /\ s.conf = None /\ s.sent = None /\ s.ack = p.sync.conf.text
  BY <1>2, NewSyncTyped DEF ResolveConflict
<1>4. /\ p.editReq = None /\ p.saveReq = None /\ ~p.action /\ p.saveText = None /\ ~p.looping
      /\ ~p.connected => p.syncReq = None
  BY DEF Core, HasConflict, Idle
<1>5. q = [p EXCEPT !.rev = p.sync.conf.rev, !.sync = s, !.conflict = FALSE, !.paused = FALSE]
  BY DEF Resolved
<1>. HIDE DEF s, q
<1>6. /\ q \in Panel /\ q.sync = s /\ q.out = <<>> /\ q.connected = p.connected
      /\ q.editReq = None /\ q.syncReq = p.syncReq /\ q.saveReq = None /\ ~q.action
      /\ q.saveText = None /\ ~q.looping
  BY <1>1, <1>2, <1>3, <1>4, <1>5 DEF Panel
<1>7. Core(q)
  BY <1>3, <1>4, <1>6 DEF Core, Idle
<1>8. SameRequests(p, q)
  BY <1>4, <1>6 DEF SameRequests
<1>. QED BY <1>1, <1>2, <1>3, <1>6, <1>7, <1>8 DEF q

\* What the panel makes of the first answer.
LEMMA DeliverGoes ==
    ASSUME KInv, Deliver
    PROVE  /\ panel'.draft = panel.draft \/ Seen(panel)
           /\ KInv'
<1>. DEFINE m == Head(toPanel)
            t == Tail(toPanel)
<1>1. /\ toPanel \in Seq(Replies) /\ toPanel # <<>> /\ toDaemon \in Seq(Requests)
      /\ m \in Replies /\ t \in Seq(Replies) /\ known \in Nat \cup {None}
      /\ buf' \in Buffer /\ orphan' \in Seq(Requests) /\ inputs' \in Nat
      /\ toPanel' = t /\ known' = KnownAfter(m)
  BY DEF Deliver, KInv, TypeOK
<1>2. /\ Core(panel) /\ Scheduled(panel) /\ panel.out = <<>>
      /\ Flying(panel, toDaemon, toPanel) /\ Opening(panel, toDaemon, toPanel, known)
  BY DEF KInv
<1>3. PICK i \in FreshId : Step(Handle(panel, m, i))
  BY DEF Deliver
<1>4. i \in Ids
  BY FreshIdOK
<1>. DEFINE q == Handle(panel, m, i)
<1>5. panel' = [q EXCEPT !.out = <<>>] /\ toDaemon' = Put(q, toDaemon)
  BY <1>3 DEF Step, Put
<1>6. known' \in Nat \cup {None}
  <2>. HIDE DEF m
  <2>1. m.type \in {"snapshot", "result", "saved", "state"} => m.rev \in Nat
    BY <1>1 DEF Replies
  <2>. QED BY <1>1, <2>1 DEF KnownAfter
<1>7. /\ Ending(m) => ToldTo(panel, m) /\ NoneFlying(toDaemon, t)
      /\ ~Ending(m) => Flying(panel, toDaemon, t)
  BY <1>1, <1>2, FlyingTaken
<1>8. IF m.type = "opened"
      THEN /\ ~panel.connected /\ toDaemon = <<>> /\ Len(t) = 1 /\ t[1].type = "snapshot"
      ELSE /\ Settled(toDaemon, t)
           /\ m.type = "snapshot" =>
                 /\ panel.connected /\ panel.editReq = None /\ panel.saveReq = None
                 /\ panel.sync = None \/ panel.syncReq # None
  BY <1>1, <1>2, OpeningTaken
<1>9. SUFFICES /\ Goes(panel, q) /\ Put(q, toDaemon) \in Seq(Requests)
               /\ Flying(q, Put(q, toDaemon), t) /\ Opening(q, Put(q, toDaemon), t, known')
  <2>. HIDE DEF q, m, t
  <2>1. Core(q) /\ Scheduled(q) /\ (q.draft = panel.draft \/ Seen(panel))
    BY <1>9 DEF Goes
  <2>2. panel'.draft = q.draft
    BY <1>5, <2>1, Cleared
  <2>. QED BY <1>1, <1>5, <1>6, <1>9, <2>1, <2>2, KeptBy
<1>10. CASE m.type = "opened"
  <2>1. q = OnOpened(panel, i)
    BY <1>10 DEF Handle
  <2>2. /\ Goes(panel, q) /\ Sends(q)
        /\ q.editReq = None /\ q.saveReq = None /\ q.syncReq # None
    BY <1>2, <1>4, <1>8, <1>10, <2>1, OnOpenedGoes
  <2>3. ~Ending(m) /\ Idle(panel)
    BY <1>2, <1>8, <1>10 DEF Ending, Core
  <2>. HIDE DEF q, m, t
  <2>4. Put(q, toDaemon) \in Seq(Requests) /\ Flying(q, Put(q, toDaemon), t)
    BY <1>1, <1>7, <2>2, <2>3, FlyingSent, PutFrames
  <2>5. NoOpen(Put(q, toDaemon))
    <3>1. NoOpen(toDaemon)
      BY <1>8, <1>10 DEF NoOpen
    <3>. QED BY <1>1, <2>2, <2>3, <3>1, PutFrames
  <2>6. t # <<>> /\ NoSnapshot(t, 2)
    <3>1. Len(t) = 1 /\ t \in Seq(Replies)
      BY <1>1, <1>8, <1>10
    <3>2. t # <<>> /\ \A j \in DOMAIN t : ~(j >= 2)
      BY <3>1
    <3>. QED BY <3>2 DEF NoSnapshot
  <2>7. First(q, Put(q, toDaemon), t)
    BY <1>8, <1>10, <2>2, <2>5, <2>6 DEF First, Sends
  <2>. QED BY <2>2, <2>4, <2>7 DEF Opening
<1>11. CASE m.type # "opened"
  <2>1. /\ Goes(panel, q)
        /\ IF Ending(m) THEN Rests(q) \/ Sends(q)
           ELSE SameRequests(panel, q) \/ (Idle(panel) /\ Sends(q))
    BY <1>1, <1>2, <1>4, <1>7, <1>8, <1>11, HandleGoes
  <2>. HIDE DEF q, m, t
  <2>2. /\ Flying(q, Put(q, toDaemon), t) /\ Put(q, toDaemon) \in Seq(Requests)
        /\ NoOpen(toDaemon) => NoOpen(Put(q, toDaemon))
    <3>1. CASE Ending(m)
      <4>. DEFINE o == [editReq |-> None, syncReq |-> None, saveReq |-> None,
                        connected |-> q.connected]
      <4>1. Idle(o)
        BY DEF Idle
      <4>2. (Idle(o) /\ Sends(q)) \/ Rests(q)
        BY <2>1, <3>1, <4>1
      <4>. HIDE DEF o
      <4>. QED BY <1>1, <1>7, <2>1, <3>1, <4>2, FlyingAgain, PutFrames
    <3>2. CASE ~Ending(m)
      BY <1>1, <1>7, <2>1, <3>2, FlyingSent, PutFrames
    <3>. QED BY <3>1, <3>2
  <2>3. Settled(Put(q, toDaemon), t)
    BY <1>8, <1>11, <2>2 DEF Settled
  <2>. QED BY <2>1, <2>2, <2>3 DEF Opening
<1>. QED BY <1>10, <1>11

-----------------------------------------------------------------------------
(* The invariant.                                                          *)

LEMMA KInit == Init => KInv
<1>. SUFFICES ASSUME Init PROVE KInv
  OBVIOUS
<1>1. TypeOK
  BY HeardInit DEF HeardInv
<1>2. panel = NewPanel /\ toDaemon = <<>> /\ known = 0
  BY DEF Init
<1>. DEFINE m == [type |-> "snapshot", rev |-> 0, text |-> buf.text]
<1>3. toPanel = <<m>> /\ m.type = "snapshot"
  BY DEF Init
<1>. HIDE DEF m
<1>4. panel \in Panel
  BY <1>1 DEF TypeOK
<1>5. Core(panel)
  BY <1>2, <1>4 DEF NewPanel, Core, Idle
<1>6. Scheduled(panel) /\ panel.out = <<>>
  BY <1>2 DEF NewPanel, Scheduled
<1>7. Flying(panel, toDaemon, toPanel)
  <2>1. NoneFlying(toDaemon, toPanel) /\ Idle(panel)
    BY <1>2, <1>3 DEF NewPanel, NoneFlying, Ending, Idle
  <2>. QED BY <1>1, <2>1, IdleFlying DEF TypeOK
<1>8. First(panel, toDaemon, toPanel)
  BY <1>2, <1>3 DEF NewPanel, First, NoOpen, NoSnapshot
<1>. QED BY <1>1, <1>5, <1>6, <1>7, <1>8 DEF KInv, Opening

\* Every step keeps it, a restart of the daemon among them.
LEMMA KStep ==
    ASSUME "reopen" \notin Ops
    PROVE  KInv /\ [Next]_vars => KInv'
<1>. SUFFICES ASSUME KInv, [Next]_vars PROVE KInv'
  OBVIOUS
<1>p. /\ panel \in Panel /\ Core(panel) /\ Scheduled(panel) /\ panel.out = <<>>
      /\ toDaemon \in Seq(Requests) /\ toPanel \in Seq(Replies) /\ orphan \in Seq(Requests)
      /\ buf \in Buffer /\ inputs \in Nat /\ known \in Nat \cup {None}
      /\ Flying(panel, toDaemon, toPanel) /\ Opening(panel, toDaemon, toPanel, known)
  BY DEF KInv, TypeOK
<1>1. CASE Type
  <2>1. PICK t \in Text :
           Step(ScheduleEditFlush([panel EXCEPT !.draft = t, !.dirty = TRUE]))
    BY <1>1 DEF Type
  <2>. DEFINE d == [panel EXCEPT !.draft = t, !.dirty = TRUE]
              q == ScheduleEditFlush(d)
  <2>2. /\ d \in Panel /\ d.sync = panel.sync /\ d.conflict = panel.conflict
        /\ d.paused = panel.paused /\ d.connected = panel.connected
        /\ d.looping = panel.looping /\ d.editReq = panel.editReq
        /\ d.syncReq = panel.syncReq /\ d.saveReq = panel.saveReq
        /\ d.saveText = panel.saveText /\ d.action = panel.action
        /\ d.actionText = panel.actionText /\ d.out = <<>>
    BY <1>p DEF Panel
  <2>3. Step(q)
    BY <2>1
  <2>. HIDE DEF d
  <2>4. /\ q \in Panel /\ q.sync = panel.sync /\ q.conflict = panel.conflict
        /\ q.paused = panel.paused /\ q.connected = panel.connected
        /\ q.looping = panel.looping /\ q.editReq = panel.editReq
        /\ q.syncReq = panel.syncReq /\ q.saveReq = panel.saveReq
        /\ q.saveText = panel.saveText /\ q.action = panel.action
        /\ q.actionText = panel.actionText /\ q.out = <<>>
        /\ q.conflict \/ q.timer
    <3>1. CASE d.conflict
      <4>1. q = d
        BY <3>1 DEF ScheduleEditFlush
      <4>. QED BY <2>2, <3>1, <4>1
    <3>2. CASE ~d.conflict
      <4>1. q = [d EXCEPT !.timer = TRUE]
        BY <3>2 DEF ScheduleEditFlush
      <4>. HIDE DEF q
      <4>. QED BY <2>2, <4>1 DEF Panel
    <3>. QED BY <3>1, <3>2
  <2>. HIDE DEF q
  <2>5. Core(q) /\ Scheduled(q) /\ SameRequests(panel, q)
    BY <1>p, <2>4, SameCore DEF Scheduled, SameRequests
  <2>6. inputs' \in Nat /\ UNCHANGED <<buf, toPanel, known, orphan>>
    BY <1>1, KInput DEF Type
  <2>. QED BY <2>3, <2>4, <2>5, <2>6, MoveStep
<1>2. CASE FlushTimer
  <2>1. PICK i \in FreshId : Step(FlushPending([panel EXCEPT !.timer = FALSE], i))
    BY <1>2 DEF FlushTimer
  <2>. DEFINE d == [panel EXCEPT !.timer = FALSE]
  <2>2. /\ d \in Panel /\ d.sync = panel.sync /\ d.conflict = panel.conflict
        /\ d.paused = panel.paused /\ d.connected = panel.connected
        /\ d.looping = panel.looping /\ d.editReq = panel.editReq
        /\ d.syncReq = panel.syncReq /\ d.saveReq = panel.saveReq
        /\ d.saveText = panel.saveText /\ d.action = panel.action
        /\ d.actionText = panel.actionText /\ d.out = <<>>
    BY <1>p DEF Panel
  <2>3. Step(FlushPending(d, i))
    BY <2>1
  <2>. HIDE DEF d
  <2>4. Core(d) /\ SameRequests(panel, d)
    BY <1>p, <2>2, SameCore DEF SameRequests
  <2>. QED BY <1>p, <1>2, <2>2, <2>3, <2>4, FlushStep DEF FlushTimer
<1>3. CASE RequestEditorAction
  <2>1. PICK i \in FreshId : Step(FlushPending([panel EXCEPT !.actions = @ + 1], i))
    BY <1>3 DEF RequestEditorAction
  <2>. DEFINE n == panel.actions + 1
              d == [panel EXCEPT !.actions = n]
  <2>2. n \in Nat /\ Step(FlushPending(d, i))
    BY <1>p, <2>1 DEF Panel
  <2>. HIDE DEF n
  <2>3. /\ d \in Panel /\ d.sync = panel.sync /\ d.conflict = panel.conflict
        /\ d.paused = panel.paused /\ d.connected = panel.connected
        /\ d.looping = panel.looping /\ d.editReq = panel.editReq
        /\ d.syncReq = panel.syncReq /\ d.saveReq = panel.saveReq
        /\ d.saveText = panel.saveText /\ d.action = panel.action
        /\ d.actionText = panel.actionText /\ d.out = <<>>
    BY <1>p, <2>2 DEF Panel
  <2>. HIDE DEF d
  <2>4. Core(d) /\ SameRequests(panel, d)
    BY <1>p, <2>3, SameCore DEF SameRequests
  <2>5. inputs' \in Nat /\ UNCHANGED <<buf, toPanel, known, orphan>>
    BY <1>3, KInput DEF RequestEditorAction
  <2>. QED BY <2>2, <2>3, <2>4, <2>5, FlushStep
<1>4. CASE RequestSave
  <2>1. PICK i \in FreshId : Step(FlushPending([panel EXCEPT !.pendingSave = TRUE], i))
    BY <1>4 DEF RequestSave
  <2>. DEFINE d == [panel EXCEPT !.pendingSave = TRUE]
  <2>2. /\ d \in Panel /\ d.sync = panel.sync /\ d.conflict = panel.conflict
        /\ d.paused = panel.paused /\ d.connected = panel.connected
        /\ d.looping = panel.looping /\ d.editReq = panel.editReq
        /\ d.syncReq = panel.syncReq /\ d.saveReq = panel.saveReq
        /\ d.saveText = panel.saveText /\ d.action = panel.action
        /\ d.actionText = panel.actionText /\ d.out = <<>>
    BY <1>p DEF Panel
  <2>3. Step(FlushPending(d, i))
    BY <2>1
  <2>. HIDE DEF d
  <2>4. Core(d) /\ SameRequests(panel, d)
    BY <1>p, <2>2, SameCore DEF SameRequests
  <2>5. inputs' \in Nat /\ UNCHANGED <<buf, toPanel, known, orphan>>
    BY <1>4, KInput DEF RequestSave
  <2>. QED BY <2>2, <2>3, <2>4, <2>5, FlushStep
<1>5. CASE ResolveKeepLocal
  <2>1. PICK i \in FreshId : Step(FlushPending(Resolved(panel), i))
    BY <1>5 DEF ResolveKeepLocal
  <2>. DEFINE d == Resolved(panel)
  <2>2. Core(d) /\ SameRequests(panel, d) /\ d.sync # None /\ panel.sync # None
    BY <1>p, <1>5, ResolvedCore DEF ResolveKeepLocal
  <2>3. inputs' \in Nat /\ UNCHANGED <<buf, toPanel, known, orphan>>
    BY <1>5, KInput DEF ResolveKeepLocal
  <2>4. Step(FlushPending(d, i))
    BY <2>1
  <2>. HIDE DEF d
  <2>. QED BY <2>2, <2>3, <2>4, FlushStep
<1>6. CASE ResolveUseServer
  <2>. DEFINE d == Resolved(panel)
              x == panel.sync.conf.text
              q == [SetText(d, x) EXCEPT !.dirty = TRUE]
  <2>1. /\ Core(d) /\ SameRequests(panel, d) /\ d.sync # None /\ panel.sync # None
        /\ d.sync.ack = x /\ x \in Text
    BY <1>p, <1>6, ResolvedCore DEF ResolveUseServer
  <2>2. Step(q) /\ inputs' \in Nat /\ UNCHANGED <<buf, toPanel, known, orphan>>
    BY <1>6, KInput DEF ResolveUseServer
  <2>. HIDE DEF d, x
  <2>3. /\ q \in Panel /\ q.sync = d.sync /\ q.conflict = d.conflict
        /\ q.paused = d.paused /\ q.connected = d.connected
        /\ q.looping = d.looping /\ q.editReq = d.editReq
        /\ q.syncReq = d.syncReq /\ q.saveReq = d.saveReq
        /\ q.saveText = d.saveText /\ q.action = d.action
        /\ q.actionText = d.actionText /\ q.out = d.out /\ q.draft = x
    BY <2>1 DEF Core, SetText, Panel
  <2>. HIDE DEF q
  <2>4. Core(q) /\ Scheduled(q) /\ SameRequests(panel, q)
    BY <2>1, <2>3, SameCore DEF Scheduled, SameRequests
  <2>5. q.connected = panel.connected /\ q.sync # None
    BY <2>1, <2>3 DEF SameRequests
  <2>. QED BY <2>1, <2>2, <2>4, <2>5, MoveStep
<1>7. CASE Reopen
  BY <1>7 DEF Reopen, Input
<1>8. CASE Deliver
  BY <1>8, DeliverGoes
<1>9. CASE Poll
  <2>. DEFINE f == [type |-> "poll", known |-> known]
  <2>1. known # None /\ toDaemon' = Append(toDaemon, f)
        /\ UNCHANGED <<panel, buf, toPanel, known, orphan, inputs>>
    BY <1>9 DEF Poll
  <2>2. f \in Requests /\ f.type = "poll"
    BY <1>p, <2>1 DEF Requests
  <2>. HIDE DEF f
  <2>3. ~Asking(f) /\ f.type # "open" /\ toDaemon' \in Seq(Requests)
    BY <1>p, <2>1, <2>2 DEF Asking
  <2>4. Flying(panel, toDaemon', toPanel)
    BY <1>p, <2>1, <2>2, <2>3, FlyingBeside
  <2>5. Opening(panel, toDaemon', toPanel, known)
    BY <1>p, <2>1, <2>2, <2>3, OpeningPolled
  <2>. QED BY <1>p, <2>1, <2>3, <2>4, <2>5, KeptBeside
<1>10. CASE DaemonHandle
  <2>1. toDaemon # <<>> /\ Head(toDaemon) \in Requests /\ Tail(toDaemon) \in Seq(Requests)
    BY <1>p, <1>10 DEF DaemonHandle
  <2>2. PICK a \in Answers(Head(toDaemon)) : buf' = a.buf /\ toPanel' = toPanel \o a.replies
    BY <1>10 DEF DaemonHandle
  <2>3. buf' \in Buffer /\ a.replies \in Seq(Replies) /\ AnswersTo(Head(toDaemon), a.replies)
    BY <1>p, <2>1, <2>2, AnswersOK, AnswersMatch DEF AnswerOK, Advances
  <2>4. toDaemon' = Tail(toDaemon) /\ UNCHANGED <<panel, known, orphan, inputs>>
    BY <1>10 DEF DaemonHandle
  <2>5. /\ Flying(panel, toDaemon', toPanel') /\ Opening(panel, toDaemon', toPanel', known)
        /\ toPanel' \in Seq(Replies)
    BY <1>p, <2>1, <2>2, <2>3, <2>4, FlyingAnswered, OpeningAnswered
  <2>. QED BY <1>p, <2>1, <2>3, <2>4, <2>5, KeptBeside
<1>11. CASE DaemonHandleOrphan
  <2>1. orphan # <<>> /\ Head(orphan) \in Requests /\ orphan' = Tail(orphan)
        /\ orphan' \in Seq(Requests)
    BY <1>p, <1>11 DEF DaemonHandleOrphan
  <2>2. PICK a \in Answers(Head(orphan)) : buf' = a.buf
    BY <1>11 DEF DaemonHandleOrphan
  <2>3. buf' \in Buffer
    BY <1>p, <2>1, <2>2, AnswersOK DEF AnswerOK, Advances
  <2>4. UNCHANGED <<panel, toDaemon, toPanel, known, inputs>>
    BY <1>11 DEF DaemonHandleOrphan
  <2>. QED BY <1>p, <2>1, <2>3, <2>4, KeptBeside
<1>12. CASE DaemonRewrites
  <2>1. PICK t \in Text, d \in BOOLEAN : buf' = Changed(t, d)
    BY <1>12 DEF DaemonRewrites
  <2>2. buf' \in Buffer
    BY <1>p, <2>1, ChangedOK DEF Advances
  <2>3. inputs' \in Nat /\ UNCHANGED <<panel, toDaemon, toPanel, known, orphan>>
    BY <1>12, KInput DEF DaemonRewrites
  <2>. QED BY <1>p, <2>2, <2>3, KeptBeside
<1>13. CASE Disconnect /\ buf' \in Buffer /\ orphan' \in Seq(Requests) /\ inputs' \in Nat
  <2>1. /\ panel' = Detach(panel) /\ toDaemon' = <<>> /\ toPanel' = <<>> /\ known' = None
    BY <1>13 DEF Disconnect
  <2>. DEFINE q == Detach(panel)
  <2>2. /\ q \in Panel /\ Idle(q) /\ ~q.connected /\ q.sync = panel.sync /\ q.out = <<>>
        /\ ~q.action /\ q.saveText = None /\ q.looping = panel.looping
        /\ q.conflict = panel.conflict
    BY <1>p DEF Detach, Panel, Idle
  <2>3. [q EXCEPT !.out = <<>>] = q
    <3>1. \A x \in Panel : x.out = <<>> => [x EXCEPT !.out = <<>>] = x
      BY DEF Panel
    <3>. HIDE DEF q
    <3>. QED BY <2>2, <3>1
  <2>. HIDE DEF q
  <2>4. Core(q) /\ Scheduled(q)
    BY <1>p, <2>2 DEF Core, Scheduled, Idle
  <2>5. /\ Flying(q, <<>>, <<>>) /\ Opening(q, <<>>, <<>>, None)
        /\ <<>> \in Seq(Requests) /\ <<>> \in Seq(Replies)
    BY <2>2 DEF Flying, Opening, Settled, NoOpen, NoSnapshot
  <2>6. panel' = [q EXCEPT !.out = <<>>]
    BY <2>1, <2>3 DEF q
  <2>. QED BY <1>13, <2>1, <2>4, <2>5, <2>6, KeptBy
<1>14. CASE Drop
  BY <1>p, <1>13, <1>14, KInput DEF Drop
<1>15. CASE Restart
  <2>1. Disconnect /\ orphan' = <<>> /\ inputs' \in Nat
    BY <1>15, KInput DEF Restart
  <2>2. PICK t \in Text : buf' = [text |-> t, rev |-> 0, dirty |-> FALSE]
    BY <1>15 DEF Restart
  <2>3. buf' \in Buffer /\ orphan' \in Seq(Requests)
    BY <2>1, <2>2 DEF Buffer
  <2>. QED BY <1>13, <2>1, <2>3
<1>16. CASE Reconnect
  <2>. DEFINE f == [type |-> "open"]
              s == <<f>>
  <2>1. /\ ~panel.connected /\ known = None /\ toPanel = <<>> /\ toDaemon = <<>>
        /\ toDaemon' = s /\ UNCHANGED <<panel, buf, toPanel, known, orphan, inputs>>
    BY <1>16 DEF Reconnect
  <2>2. f \in Requests /\ f.type = "open"
    BY DEF Requests
  <2>. HIDE DEF f
  <2>3. s \in Seq(Requests) /\ Len(s) = 1 /\ s[1] = f /\ \A j \in DOMAIN s : s[j] = f
    BY <2>2
  <2>. HIDE DEF s
  <2>4. NoneFlying(s, toPanel) /\ Idle(panel)
    BY <1>p, <2>1, <2>2, <2>3 DEF NoneFlying, Asking, Core
  <2>5. Flying(panel, s, toPanel)
    BY <1>p, <2>3, <2>4, IdleFlying
  <2>6. Begun(panel, s, toPanel, known)
    BY <2>1, <2>2, <2>3 DEF Begun
  <2>. QED BY <1>p, <2>1, <2>3, <2>5, <2>6, KeptBeside DEF Opening
<1>17. CASE UNCHANGED vars
  BY <1>p, <1>17, KeptBeside DEF vars
<1>. QED
  BY <1>1, <1>2, <1>3, <1>4, <1>5, <1>6, <1>7, <1>8, <1>9, <1>10, <1>11, <1>12, <1>14,
     <1>15, <1>16, <1>17 DEF Next, UserNext, DaemonNext, LinkNext

\* The frame that asks, or answers, bears the id the panel awaits.
LEMMA KAnswered == KInv => NothingHeldBack
<1>. SUFFICES ASSUME KInv PROVE NothingHeldBack
  OBVIOUS
<1>1. /\ panel \in Panel /\ Core(panel) /\ Scheduled(panel)
      /\ toDaemon \in Seq(Requests) /\ toPanel \in Seq(Replies)
      /\ Flying(panel, toDaemon, toPanel)
  BY DEF KInv, TypeOK
<1>2. \A j \in DOMAIN toDaemon : Asking(toDaemon[j]) => toDaemon[j].id \in IdsOf(toDaemon)
  <2>. SUFFICES ASSUME NEW j \in DOMAIN toDaemon, Asking(toDaemon[j])
                PROVE  toDaemon[j].id \in IdsOf(toDaemon)
    OBVIOUS
  <2>1. toDaemon[j] \in Requests /\ toDaemon[j] \in Range(toDaemon)
    BY <1>1 DEF Range
  <2>2. "id" \in DOMAIN toDaemon[j]
    BY <2>1 DEF Requests, Asking
  <2>. QED BY <2>1, <2>2 DEF IdsOf
<1>3. \A j \in DOMAIN toPanel : Ending(toPanel[j]) => toPanel[j].id \in IdsOf(toPanel)
  <2>. SUFFICES ASSUME NEW j \in DOMAIN toPanel, Ending(toPanel[j])
                PROVE  toPanel[j].id \in IdsOf(toPanel)
    OBVIOUS
  <2>1. toPanel[j] \in Replies /\ toPanel[j] \in Range(toPanel)
    BY <1>1 DEF Range
  <2>2. "id" \in DOMAIN toPanel[j]
    BY <2>1 DEF Replies, Ending
  <2>. QED BY <2>1, <2>2 DEF IdsOf
<1>4. RequestsAnswered
  <2>. DEFINE ids == IdsOf(toDaemon) \cup IdsOf(toPanel)
              awaited == {panel.editReq, panel.syncReq, panel.saveReq}
  <2>1. panel.action => panel.editReq # None
    BY <1>1 DEF Core
  <2>2. ASSUME NEW x \in awaited, x # None PROVE x \in ids
    <3>1. \A y \in awaited : y # None => y = x
      BY <1>1, <2>2 DEF Core
    <3>2. ~Idle(panel)
      BY <2>2 DEF Idle
    <3>3. \/ \E j \in DOMAIN toDaemon : Asking(toDaemon[j]) /\ AskedBy(panel, toDaemon[j])
          \/ \E j \in DOMAIN toPanel : Ending(toPanel[j]) /\ ToldTo(panel, toPanel[j])
      BY <1>1, <3>2 DEF Flying
    <3>4. CASE \E j \in DOMAIN toDaemon : Asking(toDaemon[j]) /\ AskedBy(panel, toDaemon[j])
      <4>1. PICK j \in DOMAIN toDaemon : Asking(toDaemon[j]) /\ AskedBy(panel, toDaemon[j])
        BY <3>4
      <4>2. toDaemon[j].id \in awaited
        BY <4>1 DEF AskedBy
      <4>3. toDaemon[j].id # None
        <5>1. toDaemon[j] \in Requests
          BY <1>1
        <5>2. toDaemon[j].id \in Ids
          BY <4>1, <5>1 DEF Requests, Asking
        <5>. QED BY <5>2, PanelAssumption
      <4>. QED BY <1>2, <3>1, <4>1, <4>2, <4>3
    <3>5. CASE \E j \in DOMAIN toPanel : Ending(toPanel[j]) /\ ToldTo(panel, toPanel[j])
      <4>1. PICK j \in DOMAIN toPanel : Ending(toPanel[j]) /\ ToldTo(panel, toPanel[j])
        BY <3>5
      <4>2. toPanel[j].id \in awaited
        BY <4>1 DEF ToldTo
      <4>3. toPanel[j].id # None
        <5>1. toPanel[j] \in Replies
          BY <1>1
        <5>2. toPanel[j].id \in Ids
          BY <4>1, <5>1 DEF Replies, Ending
        <5>. QED BY <5>2, PanelAssumption
      <4>. QED BY <1>3, <3>1, <4>1, <4>2, <4>3
    <3>. QED BY <3>3, <3>4, <3>5
  <2>. QED BY <2>1, <2>2 DEF RequestsAnswered
<1>5. DraftScheduled
  BY <1>1 DEF Scheduled, DraftScheduled
<1>6. FlushReturns
  BY <1>1 DEF Core, FlushReturns
<1>. QED BY <1>4, <1>5, <1>6 DEF NothingHeldBack

\* Without an input, only an answer to the panel replaces the draft.
LEMMA DraftKept ==
    KInv /\ [Next]_vars =>
        (panel'.draft # panel.draft /\ inputs' = inputs => Seen(panel))
<1>. SUFFICES ASSUME KInv, [Next]_vars, panel'.draft # panel.draft, inputs' = inputs
              PROVE  Seen(panel)
  OBVIOUS
<1>1. \A op : ~Input(op)
  BY DEF KInv, TypeOK, Input
<1>2. CASE FlushTimer
  <2>1. PICK i \in FreshId : Step(FlushPending([panel EXCEPT !.timer = FALSE], i))
    BY <1>2 DEF FlushTimer
  <2>. DEFINE d == [panel EXCEPT !.timer = FALSE]
              q == FlushPending(d, i)
  <2>2. /\ d \in Panel /\ d.sync = panel.sync /\ d.conflict = panel.conflict
        /\ d.paused = panel.paused /\ d.connected = panel.connected
        /\ d.looping = panel.looping /\ d.editReq = panel.editReq
        /\ d.syncReq = panel.syncReq /\ d.saveReq = panel.saveReq
        /\ d.saveText = panel.saveText /\ d.action = panel.action
        /\ d.actionText = panel.actionText /\ d.out = <<>> /\ d.draft = panel.draft
    BY DEF KInv, TypeOK, Panel
  <2>. HIDE DEF d
  <2>3. Core(d)
    BY <2>2, SameCore DEF KInv
  <2>4. Flushed(d, q)
    BY <2>2, <2>3, FreshIdOK, FlushSends
  <2>5. panel' = [q EXCEPT !.out = <<>>]
    BY <2>1 DEF Step, d
  <2>. HIDE DEF q
  <2>6. panel'.draft = q.draft
    BY <2>4, <2>5, Cleared DEF Flushed
  <2>. QED BY <2>2, <2>4, <2>6 DEF Flushed
<1>3. CASE Deliver
  BY <1>3, DeliverGoes
<1>4. CASE Poll \/ DaemonHandle \/ DaemonHandleOrphan \/ Reconnect
  BY <1>4 DEF Poll, DaemonHandle, DaemonHandleOrphan, Reconnect
<1>5. CASE UNCHANGED vars
  BY <1>5 DEF vars
<1>. QED
  BY <1>1, <1>2, <1>3, <1>4, <1>5
     DEF Next, UserNext, DaemonNext, LinkNext, Type, RequestEditorAction, RequestSave,
         ResolveKeepLocal, ResolveUseServer, Reopen, DaemonRewrites, Drop, Restart

\* The state has its type, in particular whatever waits for an answer or for a base holds
\* what the code unwraps there: as long as the daemon is not started again, or no open
\* file is opened again.
THEOREM TypeCorrect ==
    ASSUME "restart" \notin Ops \/ "reopen" \notin Ops
    PROVE  Spec => []TypeOK
<1>1. CASE "restart" \notin Ops
  <2>1. HeardInv => TypeOK
    BY DEF HeardInv
  <2>2. HeardInv /\ [Next]_vars => HeardInv'
    BY <1>1, HeardStep
  <2>. QED BY <2>1, <2>2, HeardInit, PTL DEF Spec
<1>2. CASE "reopen" \notin Ops
  <2>1. KInv => TypeOK
    BY DEF KInv
  <2>2. KInv /\ [Next]_vars => KInv'
    BY <1>2, KStep
  <2>. QED BY <2>1, <2>2, KInit, PTL DEF Spec
<1>. QED BY <1>1, <1>2

\* As long as no open file is opened again, whatever else the user, the other views, the
\* socket and a daemon that is started again do: a request is answered, a draft is
\* flushed, and no handler of the panel runs for ever (pane.rs flush_pending,
\* drain_pending and the handlers of the answers).
THEOREM HeldBackNever ==
    ASSUME "reopen" \notin Ops
    PROVE  Spec => []NothingHeldBack
<1>. QED BY KInit, KStep, KAnswered, PTL DEF Spec

\* Under the same assumption no answer, state or timer replaces a draft that the daemon
\* has not acknowledged (the callers of set_editor_text in pane.rs).
THEOREM DraftsKept ==
    ASSUME "reopen" \notin Ops
    PROVE  Spec => TypingKept
<1>1. KInv /\ [Next]_vars =>
         [panel'.draft # panel.draft /\ inputs' = inputs =>
             \/ panel.sync = None /\ ~panel.dirty
             \/ panel.sync # None /\ panel.draft = panel.sync.ack]_vars
  BY DraftKept DEF Seen
<1>. QED BY <1>1, KInit, KStep, PTL DEF Spec, TypingKept
=============================================================================
