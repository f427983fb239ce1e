---------------------------- MODULE EditorPanel ----------------------------
(***************************************************************************)
(* One editor tab of the native client (EditorPanel in gui/pane.rs, with   *)
(* its EditSync), the connection task that polls for it (gui/ade.rs), the  *)
(* two FIFO directions of the daemon socket, and the daemon's side of one  *)
(* buffer as the editor worker answers requests about it                   *)
(* (editor_worker.rs).                                                     *)
(*                                                                         *)
(* The client thread handles one event at a time, so a handler is an       *)
(* operator from panel to panel; the messages it sends collect in "out".   *)
(* A handler makes at most one request that is answered by id, which is    *)
(* why each takes one fresh id i.                                          *)
(*                                                                         *)
(* Not in this module: paged documents, format requests, file controls and *)
(* the notices about external disk changes.                                *)
(***************************************************************************)
EXTENDS EditSync, Sequences, Functions

CONSTANTS
    Ids,        \* request ids; a fresh one is one that nothing refers to
    Ops,        \* what the environment does in this instance, see OpNames
    MaxInputs   \* bound: inputs of the user and the environment

OpNames == {"type", "resolve", "action", "save", "formatter", "reopen", "drop",
            "linger", "rewrite", "fault", "restart"}

ASSUME PanelAssumption == None \notin Ids /\ Ops \subseteq OpNames /\ MaxInputs \in Nat

VARIABLES
    panel,      \* the EditorPanel
    buf,        \* the daemon's TrackedBuffer: text, rev, dirty
    toDaemon,   \* frames on their way to the daemon
    toPanel,    \* frames on their way to the client
    known,      \* open_buffers[buffer] of the connection task, None: not open
    orphan,     \* frames of a lost connection the daemon still works through
    inputs      \* how many inputs there have been

vars == <<panel, buf, toDaemon, toPanel, known, orphan, inputs>>

-----------------------------------------------------------------------------
\* The frames.  An edit is the diff from one text to another.
Requests ==
    [type : {"open"}] \cup [type : {"sync"}, id : Ids] \cup
    [type : {"edit"}, id : Ids, base : Nat, from : Text, text : Text] \cup
    [type : {"action", "save"}, id : Ids, base : Nat] \cup
    [type : {"poll"}, known : Nat]

Replies ==
    [type : {"opened"}] \cup
    [type : {"snapshot"}, rev : Nat, text : Text] \cup
    [type : {"result"}, id : Ids, rev : Nat, text : Text,
     accepted : BOOLEAN, dirty : BOOLEAN] \cup
    [type : {"saved"}, id : Ids, rev : Nat, text : Text, dirty : BOOLEAN] \cup
    [type : {"state"}, rev : Nat, text : Text \cup {None}] \cup
    [type : {"error"}, id : Ids]

Panel == [
    draft : Text,                   \* what the user sees
    sync : Sync \cup {None},        \* edit_sync
    rev : Nat,
    dirty : BOOLEAN,
    conflict : BOOLEAN,
    paused : BOOLEAN,               \* sync_paused
    connected : BOOLEAN,            \* transport_connected
    timer : BOOLEAN,                \* edit_flush_scheduled
    jump : BOOLEAN,                 \* pending: a position to reveal
    editReq : Ids \cup {None},      \* edit_request_id
    syncReq : Ids \cup {None},      \* sync_request_id
    saveReq : Ids \cup {None},      \* save_request_id
    saveText : Text \cup {None},    \* save_sent_text
    action : BOOLEAN,               \* action_inflight
    actionText : Text \cup {None},  \* action_sent_text
    actions : Nat,                  \* how many pending_actions
    pendingSave : BOOLEAN,          \* pending_save
    looping : BOOLEAN,              \* flush and drain call each other forever
    out : Seq(Requests)]

Buffer == [text : Text, rev : Nat, dirty : BOOLEAN]

TypeOK ==
    /\ panel \in Panel
    /\ buf \in Buffer
    /\ toDaemon \in Seq(Requests) /\ orphan \in Seq(Requests)
    /\ toPanel \in Seq(Replies)
    /\ known \in Nat \cup {None}
    /\ inputs \in Nat

-----------------------------------------------------------------------------
\* An id not in use: next_edit_request counts, and never repeats one.
IdsOf(frames) == {m.id : m \in {f \in Range(frames) : "id" \in DOMAIN f}}

IdsInUse ==
    {panel.editReq, panel.syncReq, panel.saveReq} \cup
    IdsOf(toDaemon) \cup IdsOf(toPanel) \cup IdsOf(orphan)

FreshId == IF Ids \subseteq IdsInUse THEN {} ELSE {CHOOSE i \in Ids : i \notin IdsInUse}

-----------------------------------------------------------------------------
\* Sending.
SendSync(p, i) == [p EXCEPT !.syncReq = i,
                            !.out = Append(@, [type |-> "sync", id |-> i])]

\* schedule_edit_flush: one 75 ms timer at a time, none during a conflict.
ScheduleEditFlush(p) == IF p.conflict THEN p ELSE [p EXCEPT !.timer = TRUE]

Blocked(p) == \/ ~p.connected \/ p.conflict \/ p.paused \/ p.action
              \/ p.editReq # None \/ p.saveReq # None \/ p.syncReq # None

\* Mutant: an empty queue of actions is popped.
DrainEmptyQueue(p, i) ==
    IF p.actions >= 0
    THEN [p EXCEPT !.actions = @ - 1, !.editReq = i, !.action = TRUE,
                   !.actionText = p.draft,
                   !.out = Append(@, [type |-> "action", id |-> i, base |-> p.sync.rev])]
    ELSE p

\* drain_pending, the draft being acknowledged: the oldest action, or else the save.
DrainPending(p, i) ==
    IF p.actions > 0
    THEN [p EXCEPT !.actions = @ - 1, !.editReq = i, !.action = TRUE,
                   !.actionText = p.draft,
                   !.out = Append(@, [type |-> "action", id |-> i, base |-> p.sync.rev])]
    ELSE IF p.pendingSave
    THEN [p EXCEPT !.pendingSave = FALSE, !.saveReq = i, !.saveText = p.draft,
                   !.out = Append(@, [type |-> "save", id |-> i, base |-> p.sync.rev])]
    ELSE p

\* flush_pending: fetch a base, or send the edit, or go on to drain_pending; that
\* one calls back while the draft is not acknowledged, and if begin_edit refused,
\* nothing has changed.
FlushPending(p, i) ==
    IF Blocked(p) THEN p
    ELSE IF p.sync = None THEN SendSync(p, i)
    ELSE IF CanBegin(p.sync, p.draft)
    THEN [p EXCEPT !.sync = BeginEdit(@, p.draft), !.editReq = i,
                   !.out = Append(@, [type |-> "edit", id |-> i, base |-> p.sync.rev,
                                      from |-> p.sync.ack, text |-> p.draft])]
    ELSE IF p.sync.ack # p.draft THEN [p EXCEPT !.looping = TRUE]
    ELSE DrainPending(p, i)

-----------------------------------------------------------------------------
\* set_editor_text_and_selection: takes the pending position.  Setting the text
\* of the input widget raises no Change event.
SetText(p, text) == [p EXCEPT !.draft = text, !.jump = FALSE]

\* reconnect, after note_reopen: forgets the requests of the earlier connection.
OnOpened(p, i) ==
    SendSync([p EXCEPT !.jump = TRUE, !.connected = TRUE, !.paused = FALSE,
                       !.editReq = None, !.saveReq = None, !.saveText = None], i)

\* Mutant: losing the connection forgets which text was sent.
DetachForgetsSent(p) ==
    [p EXCEPT !.connected = FALSE, !.editReq = None, !.syncReq = None,
              !.saveReq = None, !.saveText = None, !.actions = 0,
              !.action = FALSE, !.pendingSave = FALSE,
              !.sync = IF @ = None THEN None ELSE [@ EXCEPT !.sent = None]]

\* detach_transport.
Detach(p) == [p EXCEPT !.connected = FALSE, !.editReq = None, !.syncReq = None,
                       !.saveReq = None, !.saveText = None, !.actions = 0,
                       !.action = FALSE, !.pendingSave = FALSE]

\* What a panel makes of a server text, with a base or without one yet.
Reconcile(p, rev, text) ==
    IF p.sync = None
    THEN FromInitialSnapshot(text, rev, p.draft, p.dirty)
    ELSE ReconcileProtectedSnapshot(p.sync, rev, text, p.draft, p.dirty)

\* Mutant: a conflict over the first snapshot is not shown.
TakeSnapshotUnflagged(p, rev, text) ==
    LET r == Reconcile(p, rev, text)
    IN  [p EXCEPT !.sync = r.sync, !.rev = rev,
                  !.draft = IF r.outcome = "Adopted" THEN text ELSE @]

\* apply_snapshot.
TakeSnapshot(p, rev, text) ==
    LET r == Reconcile(p, rev, text)
        q == [p EXCEPT !.sync = r.sync, !.rev = rev, !.conflict = r.outcome = "Conflict"]
    IN  CASE r.outcome = "Conflict"  -> q
          [] r.outcome = "KeepDraft" -> ScheduleEditFlush(q)
          [] r.outcome = "Adopted" /\ (p.sync = None \/ p.draft # text \/ p.jump) ->
                [SetText(q, text) EXCEPT !.dirty = FALSE]
          [] OTHER -> q

OnSnapshot(p, m, i) ==
    IF m.rev < p.rev THEN p
    ELSE LET q == TakeSnapshot(p, m.rev, m.text)
         IN  IF q.syncReq = None THEN SendSync(q, i) ELSE q

\* apply_edit_result, the answer to a sync request.
OnSyncResult(p, m, i) ==
    LET r == Reconcile(p, m.rev, m.text)
        q == [p EXCEPT !.syncReq = None, !.sync = r.sync, !.rev = m.rev,
                       !.conflict = r.outcome = "Conflict"]
        s == CASE r.outcome = "Adopted" /\ (p.draft # m.text \/ p.jump) -> SetText(q, m.text)
               [] r.outcome = "KeepDraft" -> ScheduleEditFlush(q)
               [] OTHER -> q
    IN  FlushPending([s EXCEPT !.dirty = m.dirty \/ s.draft # m.text \/ s.conflict], i)

\* apply_edit_result, the answer to an edit or an action that was refused.
OnRejected(p, m) ==
    [p EXCEPT !.editReq = None, !.rev = m.rev, !.conflict = TRUE,
              !.sync = Finish(@, FALSE, m.rev, m.text),
              !.pendingSave = FALSE, !.actions = 0, !.action = FALSE, !.actionText = None]

\* Mutant: the result of an action replaces whatever has been typed since.
OnAcceptedReplacing(p, m, i) ==
    LET q == [p EXCEPT !.editReq = None, !.rev = m.rev, !.action = FALSE, !.actionText = None,
                       !.sync = Finish(@, TRUE, m.rev, m.text)]
        s == IF p.action THEN SetText(q, m.text) ELSE q
    IN  FlushPending([s EXCEPT !.dirty = m.dirty \/ s.draft # m.text], i)

\* apply_edit_result, accepted: an action replaces the text it was sent for only.
OnAccepted(p, m, i) ==
    LET same == p.actionText = p.draft
        sync == IF ~p.action THEN Finish(p.sync, TRUE, m.rev, m.text)
                ELSE IF same THEN ReconcileSnapshot(p.sync, m.rev, m.text, p.draft).sync
                ELSE Finish(p.sync, FALSE, m.rev, m.text)
        q == [p EXCEPT !.editReq = None, !.rev = m.rev, !.action = FALSE, !.actionText = None,
                       !.sync = sync, !.conflict = sync.conf # None]
        s == IF p.action /\ same THEN SetText(q, m.text) ELSE q
        d == [s EXCEPT !.dirty = m.dirty \/ s.draft # m.text \/ s.conflict]
    IN  IF d.conflict THEN [d EXCEPT !.pendingSave = FALSE] ELSE FlushPending(d, i)

OnResult(p, m, i) ==
    IF p.syncReq = m.id THEN OnSyncResult(p, m, i)
    ELSE IF p.editReq # m.id THEN p
    ELSE IF m.accepted THEN OnAccepted(p, m, i)
    ELSE OnRejected(p, m)

\* finish_save up to its call of mark_saved: the text written may be a formatter's.
TakeWritten(p, m) ==
    IF p.saveText = p.draft
    THEN [SetText(p, m.text) EXCEPT !.saveText = m.text]
    ELSE IF p.saveText \in {None, m.text} THEN p
    ELSE LET r == ReconcileSnapshot(p.sync, m.rev, m.text, p.draft)
         IN  [p EXCEPT !.sync = r.sync, !.saveText = m.text,
                       !.conflict = @ \/ r.outcome = "Conflict"]

\* Mutant: a draft typed during the save is not flushed after it.
MarkSavedNoFlush(p, m, i) ==
    [p EXCEPT !.rev = m.rev, !.saveReq = None, !.saveText = None,
              !.sync = IF p.saveText = None THEN @
                       ELSE Finish(@, TRUE, m.rev, p.saveText),
              !.dirty = p.saveText \notin {None, p.draft} \/ m.dirty]

\* mark_saved, and the end of finish_save.
MarkSaved(p, m, i) ==
    LET q == [p EXCEPT !.rev = m.rev, !.saveReq = None, !.saveText = None,
                       !.sync = IF p.saveText = None THEN @
                                ELSE Finish(@, TRUE, m.rev, p.saveText),
                       !.dirty = p.saveText \notin {None, p.draft}]
        s == IF q.dirty THEN FlushPending(q, i) ELSE q
    IN  [s EXCEPT !.dirty = @ \/ m.dirty]

OnSaved(p, m, i) ==
    IF p.saveReq # m.id THEN p ELSE MarkSaved(TakeWritten(p, m), m, i)

\* set_lsp_state, for a reply that carries a text the panel has not seen.
Idle(p) == p.editReq = None /\ p.syncReq = None /\ p.saveReq = None

TakesState(p, m) == m.text # None /\ Idle(p) /\ (m.rev > p.rev \/ p.sync = None)

OnState(p, m) ==
    IF ~TakesState(p, m) THEN p
    ELSE LET r == Reconcile(p, m.rev, m.text)
             q == [p EXCEPT !.sync = r.sync, !.rev = m.rev]
         IN  CASE r.outcome = "Conflict"  -> [q EXCEPT !.conflict = TRUE]
               [] r.outcome = "KeepDraft" -> ScheduleEditFlush(q)
               [] r.outcome = "Adopted" /\ p.draft # m.text ->
                     [SetText(q, m.text) EXCEPT !.dirty = TRUE, !.conflict = FALSE]
               [] OTHER -> [q EXCEPT !.conflict = FALSE]

\* Mutant: a failed save stays in flight.
OnErrorSaveKept(p, m, i) ==
    IF p.editReq = m.id
    THEN [p EXCEPT !.editReq = None, !.action = FALSE, !.actionText = None,
                   !.sync = ReconcileSnapshot(@, @.rev, @.ack, p.draft).sync,
                   !.paused = TRUE, !.pendingSave = FALSE, !.actions = 0]
    ELSE IF p.syncReq = m.id
    THEN [p EXCEPT !.syncReq = None, !.paused = TRUE]
    ELSE p

\* handle_request_error.
OnError(p, m, i) ==
    IF p.editReq = m.id
    THEN [p EXCEPT !.editReq = None, !.action = FALSE, !.actionText = None,
                   !.sync = ReconcileSnapshot(@, @.rev, @.ack, p.draft).sync,
                   !.paused = TRUE, !.pendingSave = FALSE, !.actions = 0]
    ELSE IF p.saveReq = m.id
    THEN FlushPending([p EXCEPT !.saveReq = None, !.saveText = None], i)
    ELSE IF p.syncReq = m.id
    THEN [p EXCEPT !.syncReq = None, !.paused = TRUE]
    ELSE p

Handle(p, m, i) ==
    CASE m.type = "opened"   -> OnOpened(p, i)
      [] m.type = "snapshot" -> OnSnapshot(p, m, i)
      [] m.type = "result"   -> OnResult(p, m, i)
      [] m.type = "saved"    -> OnSaved(p, m, i)
      [] m.type = "state"    -> OnState(p, m)
      [] m.type = "error"    -> OnError(p, m, i)

-----------------------------------------------------------------------------
\* The daemon's answers.  Every arm first adopts what Fresh did on its own
\* (sync_fresh_text), which DaemonRewrites has then already done.
Changed(text, dirty) ==
    [text |-> text, rev |-> IF text = buf.text THEN buf.rev ELSE buf.rev + 1, dirty |-> dirty]

Result(m, b, accepted) ==
    [type |-> "result", id |-> m.id, rev |-> b.rev, text |-> b.text,
     accepted |-> accepted, dirty |-> b.dirty]

Failure(m) == [type |-> "error", id |-> m.id]

Answer(b, replies) == [buf |-> b, replies |-> replies]

\* Cmd::Open: EditorOpened and then the snapshot.
OpenAnswers ==
    {Answer(buf, <<[type |-> "opened"],
                   [type |-> "snapshot", rev |-> buf.rev, text |-> buf.text]>>)}

\* A transaction whose checkpoint fails has been applied, and is answered with
\* an error.
Checkpointed(m, b, accepted) ==
    {Answer(b, <<Result(m, b, accepted)>>)} \cup
    (IF "fault" \in Ops /\ accepted /\ b.dirty THEN {Answer(b, <<Failure(m)>>)} ELSE {})

\* Cmd::Sync.
SyncAnswers(m) == Checkpointed(m, buf, TRUE)

\* Cmd::RangeEdit.  Ranges computed for another text than the one here would
\* produce anything.
EditAnswers(m) ==
    IF m.base # buf.rev THEN Checkpointed(m, buf, FALSE)
    ELSE UNION {Checkpointed(m, Changed(t, buf.dirty \/ t # buf.text), TRUE) :
                   t \in IF m.from = buf.text THEN {m.text} ELSE Text}

\* Cmd::Action: undo, redo and the smart edits produce some text, and undo may
\* get back to the saved one.
ActionAnswers(m) ==
    IF m.base # buf.rev THEN Checkpointed(m, buf, FALSE)
    ELSE UNION {UNION {Checkpointed(m, Changed(t, d), TRUE) : d \in BOOLEAN} : t \in Text}

\* Cmd::Save: a stale or failed save is an error; a written one has a new
\* revision, and the text the on-save actions left.  The error may also come from
\* the draft store, once the file is written.
SaveAnswers(m) ==
    LET Written(t) == [text |-> t, rev |-> buf.rev + 1, dirty |-> FALSE]
        Reply(b) == [type |-> "saved", id |-> m.id, rev |-> b.rev, text |-> b.text,
                     dirty |-> b.dirty]
    IN  IF m.base # buf.rev THEN {Answer(buf, <<Failure(m)>>)}
        ELSE {Answer(Written(t), <<Reply(Written(t))>>) :
                 t \in IF "formatter" \in Ops THEN Text ELSE {buf.text}} \cup
             (IF "fault" \in Ops
              THEN {Answer(buf, <<Failure(m)>>), Answer(Written(buf.text), <<Failure(m)>>)}
              ELSE {})

\* Cmd::LspGet: the text only for a client that does not know the revision.
PollAnswers(m) ==
    {Answer(buf, <<[type |-> "state", rev |-> buf.rev,
                    text |-> IF m.known = buf.rev THEN None ELSE buf.text]>>)}

Answers(m) ==
    CASE m.type = "open"   -> OpenAnswers
      [] m.type = "sync"   -> SyncAnswers(m)
      [] m.type = "edit"   -> EditAnswers(m)
      [] m.type = "action" -> ActionAnswers(m)
      [] m.type = "save"   -> SaveAnswers(m)
      [] m.type = "poll"   -> PollAnswers(m)

-----------------------------------------------------------------------------
\* EditorPanel::new for a tab that EditorOpened has just made, the snapshot behind.
NewPanel ==
    [draft |-> EmptyText, sync |-> None, rev |-> 0, dirty |-> FALSE, conflict |-> FALSE,
     paused |-> FALSE, connected |-> TRUE, timer |-> FALSE, jump |-> TRUE,
     editReq |-> None, syncReq |-> None, saveReq |-> None, saveText |-> None,
     action |-> FALSE, actionText |-> None, actions |-> 0, pendingSave |-> FALSE,
     looping |-> FALSE, out |-> <<>>]

Init ==
    /\ panel = NewPanel
    /\ \E t \in Text : buf = [text |-> t, rev |-> 0, dirty |-> FALSE]
    /\ toDaemon = <<>> /\ orphan = <<>>
    /\ toPanel = <<[type |-> "snapshot", rev |-> 0, text |-> buf.text]>>
    /\ known = 0
    /\ inputs = 0

\* The panel becomes p, and what its handler sent leaves on the socket.
Step(p) ==
    /\ panel' = [p EXCEPT !.out = <<>>]
    /\ toDaemon' = IF p.connected THEN toDaemon \o p.out ELSE toDaemon

Input(op) == op \in Ops /\ inputs < MaxInputs /\ inputs' = inputs + 1

\* The Change event of the input widget.
Type ==
    /\ Input("type")
    /\ \E t \in Text \ {panel.draft} :
          Step(ScheduleEditFlush([panel EXCEPT !.draft = t, !.dirty = TRUE]))
    /\ UNCHANGED <<buf, toPanel, known, orphan>>

FlushTimer ==
    /\ panel.timer
    /\ \E i \in FreshId : Step(FlushPending([panel EXCEPT !.timer = FALSE], i))
    /\ UNCHANGED <<buf, toPanel, known, orphan, inputs>>

RequestEditorAction ==
    /\ Input("action")
    /\ ~panel.conflict /\ panel.connected /\ ~panel.paused
    /\ \E i \in FreshId : Step(FlushPending([panel EXCEPT !.actions = @ + 1], i))
    /\ UNCHANGED <<buf, toPanel, known, orphan>>

RequestSave ==
    /\ Input("save")
    /\ ~panel.conflict
    /\ \E i \in FreshId : Step(FlushPending([panel EXCEPT !.pendingSave = TRUE], i))
    /\ UNCHANGED <<buf, toPanel, known, orphan>>

\* The two buttons of the conflict bar; both end a pause.
Resolved(p) == [p EXCEPT !.rev = p.sync.conf.rev, !.sync = ResolveConflict(@),
                         !.conflict = FALSE, !.paused = FALSE]

HasConflict(p) == p.sync # None /\ p.sync.conf # None

ResolveKeepLocal ==
    /\ Input("resolve")
    /\ HasConflict(panel)
    /\ \E i \in FreshId : Step(FlushPending(Resolved(panel), i))
    /\ UNCHANGED <<buf, toPanel, known, orphan>>

ResolveUseServer ==
    /\ Input("resolve")
    /\ HasConflict(panel)
    /\ Step([SetText(Resolved(panel), panel.sync.conf.text) EXCEPT !.dirty = TRUE])
    /\ UNCHANGED <<buf, toPanel, known, orphan>>

\* open_editor always asks the daemon, also for a file that has a tab.
Reopen ==
    /\ Input("reopen")
    /\ known # None
    /\ toDaemon' = Append(toDaemon, [type |-> "open"])
    /\ UNCHANGED <<panel, buf, toPanel, known, orphan>>

\* A frame reaches the client: the connection task notes the revision, the
\* panel handles it.
KnownThoughIgnored(m) ==   \* Mutant: also a state the panel had no use for.
    CASE m.type = "opened" -> 0
      [] m.type \in {"snapshot", "result", "saved", "state"} ->
            IF known = None THEN None ELSE m.rev
      [] OTHER -> known

KnownAfter(m) ==
    CASE m.type = "opened" -> 0
      [] m.type \in {"snapshot", "result", "saved"} -> IF known = None THEN None ELSE m.rev
      [] m.type = "state" /\ TakesState(panel, m) /\ known # None /\ known < m.rev -> m.rev
      [] OTHER -> known

Deliver ==
    /\ toPanel # <<>>
    /\ \E i \in FreshId : Step(Handle(panel, Head(toPanel), i))
    /\ known' = KnownAfter(Head(toPanel))
    /\ toPanel' = Tail(toPanel)
    /\ UNCHANGED <<buf, orphan, inputs>>

\* The 750 ms tick of the connection task.  Bound: one poll on its way at a time.
Poll ==
    /\ known # None
    /\ \A m \in Range(toDaemon) : m.type # "poll"
    /\ \A m \in Range(toPanel) : m.type # "state"
    /\ toDaemon' = Append(toDaemon, [type |-> "poll", known |-> known])
    /\ UNCHANGED <<panel, buf, toPanel, known, orphan, inputs>>

\* The daemon handles one frame of the socket.
DaemonHandle ==
    /\ toDaemon # <<>>
    /\ \E a \in Answers(Head(toDaemon)) :
          buf' = a.buf /\ toPanel' = toPanel \o a.replies
    /\ toDaemon' = Tail(toDaemon)
    /\ UNCHANGED <<panel, known, orphan, inputs>>

\* The daemon handles a frame of a lost socket: the answer has nowhere to go.
DaemonHandleOrphan ==
    /\ orphan # <<>>
    /\ \E a \in Answers(Head(orphan)) : buf' = a.buf
    /\ orphan' = Tail(orphan)
    /\ UNCHANGED <<panel, toDaemon, toPanel, known, inputs>>

\* Fresh changes the buffer on its own, or another view of it does.
DaemonRewrites ==
    /\ Input("rewrite")
    /\ \E t \in Text \ {buf.text}, d \in BOOLEAN : buf' = Changed(t, d)
    /\ UNCHANGED <<panel, toDaemon, toPanel, known, orphan>>

\* The socket is lost (AdeEvent::Disconnected).
Disconnect ==
    /\ known # None \/ toDaemon # <<>> \/ toPanel # <<>>
    /\ panel' = Detach(panel)
    /\ toDaemon' = <<>> /\ toPanel' = <<>> /\ known' = None

\* With "linger" the daemon goes on with the frames it has received.
Drop ==
    /\ Input("drop")
    /\ Disconnect
    /\ \/ UNCHANGED orphan
       \/ "linger" \in Ops /\ orphan = <<>> /\ orphan' = toDaemon
    /\ UNCHANGED buf

\* The daemon is started again: revisions begin at 0, with the text on disk.
Restart ==
    /\ Input("restart")
    /\ Disconnect
    /\ orphan' = <<>>
    /\ \E t \in Text : buf' = [text |-> t, rev |-> 0, dirty |-> FALSE]

\* A new connection asks for the open file again.
Reconnect ==
    /\ ~panel.connected /\ known = None
    /\ toDaemon = <<>> /\ toPanel = <<>>
    /\ toDaemon' = <<[type |-> "open"]>>
    /\ UNCHANGED <<panel, buf, toPanel, known, orphan, inputs>>

UserNext == \/ Type \/ RequestEditorAction \/ RequestSave
            \/ ResolveKeepLocal \/ ResolveUseServer \/ Reopen

DaemonNext == DaemonHandle \/ DaemonHandleOrphan \/ DaemonRewrites

LinkNext == Drop \/ Restart \/ Reconnect

Next == UserNext \/ FlushTimer \/ Deliver \/ Poll \/ DaemonNext \/ LinkNext

Spec == Init /\ [][Next]_vars

\* The timers fire, events are handled in order, the daemon answers.  Nothing
\* makes the user or the environment act.
Fairness == /\ WF_vars(FlushTimer) /\ WF_vars(Deliver) /\ WF_vars(Poll)
            /\ WF_vars(DaemonHandle)

FairSpec == Spec /\ Fairness

-----------------------------------------------------------------------------
(* Properties.                                                             *)

\* A version of the buffer somebody heard of: no newer than the buffer, and the
\* buffer's own text if it has the buffer's revision.
Heard(rev, text) == rev <= buf.rev /\ (rev = buf.rev => text = buf.text)

\* EditsMatchBase: an edit the daemon will accept, because its base_rev is the
\* buffer's revision, was computed against the very text the buffer holds, so its
\* byte ranges mean what the client meant (range_edit_buffer applies ranges on the
\* strength of the revision alone).
EditsMatchBase ==
    \A m \in Range(toDaemon) \cup Range(orphan) :
        m.type = "edit" /\ m.base = buf.rev => m.from = buf.text

\* Why EditsMatchBase holds: every version a panel, an answer or an edit rests on is
\* one the buffer had (the inductive invariant of the proof; a restart, which
\* begins a new count of revisions, is outside it: the version of a conflict that
\* is shown outlives the restart, and its number may come to be another text's).
Grounded(s) == IF s.conf = None THEN Heard(s.rev, s.ack)
                                ELSE Heard(s.conf.rev, s.conf.text)

EditsHeard(frames) ==
    \A k \in DOMAIN frames :
        frames[k].type = "edit" => Heard(frames[k].base, frames[k].from)

PanelHeard(p) ==
    /\ (p.editReq # None \/ p.saveText # None) => p.sync # None
    /\ p.sync # None => Grounded(p.sync)
    /\ p.sync # None /\ p.sync.conf # None => p.conflict
    /\ p.editReq # None => Heard(p.sync.rev, p.sync.ack)
    /\ EditsHeard(p.out)

ReplyHeard(m) ==
    (m.type \in {"snapshot", "result", "saved"} \/ (m.type = "state" /\ m.text # None))
    => Heard(m.rev, m.text)

HeardInv ==
    /\ TypeOK
    /\ PanelHeard(panel)
    /\ EditsHeard(toDaemon) /\ EditsHeard(orphan)
    /\ \A k \in DOMAIN toPanel : ReplyHeard(toPanel[k])

\* RequestsAnswered: whatever request the panel waits for is on its way or its
\* answer is (flush_pending sends nothing while one is pending, so a request
\* without an answer would end synchronization for good).
RequestsAnswered ==
    panel.connected =>
    /\ {panel.editReq, panel.syncReq, panel.saveReq} \ {None}
          \subseteq IdsOf(toDaemon) \cup IdsOf(toPanel)
    /\ panel.action => panel.editReq # None

\* DraftScheduled: a draft the daemon has not seen is never forgotten: some timer
\* or some awaited answer will flush it, unless the user has to decide first
\* (mark_saved, apply_edit_result and the others flush only on some of their paths).
DraftScheduled ==
    \/ ~panel.connected \/ panel.conflict \/ panel.paused
    \/ panel.sync # None /\ panel.draft = panel.sync.ack
    \/ panel.sync = None /\ ~panel.dirty
    \/ panel.timer \/ ~Idle(panel)

\* ConflictResolvable: the conflict bar is shown exactly when there is a version
\* to keep or to use (its buttons do nothing when EditSync holds none).
ConflictResolvable == panel.conflict <=> HasConflict(panel)

\* FlushReturns: flush_pending and drain_pending never call each other forever
\* (drain calls flush while the draft is unacknowledged, and flush calls drain when
\* begin_edit refuses).
FlushReturns == ~panel.looping

\* TypingKept: no answer of the daemon replaces a draft it has not acknowledged;
\* only the user's own inputs do (set_editor_text is called from six handlers).
TypingKept ==
    [][panel'.draft # panel.draft /\ inputs' = inputs =>
          \/ panel.sync = None /\ ~panel.dirty
          \/ panel.sync # None /\ panel.draft = panel.sync.ack]_vars

\* OwnWorkNeverConflicts: a view that has its base never runs into a conflict over
\* what it wrote itself, though acknowledgements get lost with a connection
\* (the text sent is remembered to recognize it).
OwnWorkNeverConflicts ==
    [][panel.sync # None /\ ~panel.conflict => ~panel'.conflict]_vars

\* Converges: when the inputs end, the view and the daemon's buffer come to agree,
\* unless the user has a conflict to decide, or an error paused the view.
Converges ==
    <>[](\/ panel.conflict \/ panel.paused \/ ~panel.connected
         \/ panel.draft = buf.text /\ panel.sync # None /\ panel.sync.ack = buf.text)

\* What the panel has begun goes on: requests are answered, drafts are flushed, and
\* no handler runs for ever (flush_pending, drain_pending).
NothingHeldBack == RequestsAnswered /\ DraftScheduled /\ FlushReturns
=============================================================================
