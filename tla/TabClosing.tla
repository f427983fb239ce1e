------------------------------ MODULE TabClosing ------------------------------
(***************************************************************************)
(* How tabs with unsaved text leave a window (gui/workspace.rs): the guard *)
(* before a close, its prompt, the save that closes when it is done, the   *)
(* dialog that names an untitled file, and the checkpoint before the       *)
(* window switches workspaces or leaves the daemon.                        *)
(*                                                                         *)
(* A text is its version: each key typed makes the next.  A panel knows    *)
(* the text the daemon has acknowledged, which is the text of its recovery *)
(* copy (EditorPanel and EditorBuffer have the protocol and the copy).     *)
(* Conflicts, formatters and paged files are left out.                     *)
(***************************************************************************)
EXTENDS Naturals, FiniteSets

CONSTANTS
    Editors, Diffs,   \* the tabs of the window, by kind
    Untitled,         \* editors without a file
    None,             \* the absent value of every Option
    Ops,              \* what happens in this instance, see OpNames
    MaxInputs         \* bound: what the user does

\* Keys, saves, tabs and windows closed, workspaces switched, daemons left; saves that
\* fail; a file that changes on disk under unsaved text; a user who types on while a
\* close or a switch is under way ("hasty"), or saves what is being saved ("again").
OpNames == {"type", "save", "close", "window", "switch", "leave", "fail", "disk", "hasty",
            "again"}

Panels == Editors \cup Diffs

ClosingAssumption ==
    /\ Untitled \subseteq Editors /\ Editors \cap Diffs = {}
    /\ None \notin Panels \cup Nat /\ Ops \subseteq OpNames /\ MaxInputs \in Nat

VARIABLES
    panel,      \* EditorPanel and DiffPanel of each tab
    waiting,    \* diff_save_snapshots: the text of each diff whose save is on its way
    pending,    \* pending_save_close
    prompt,     \* the "Unsaved changes" dialog
    dialog,     \* save_open: the untitled editor whose path is asked for
    switching,  \* pending_switch_target, and then restoring
    window,     \* "online", "offline" after the user left the daemon, "closed"
    retains,    \* whether the daemon keeps drafts (CAP_EDITOR_DRAFT_RECOVERY)
    inputs      \* how much the user has done

vars == <<panel, waiting, pending, prompt, dialog, switching, window, retains, inputs>>

\* acked: edit_sync.acknowledged; edit, save: the text of edit_request_id and of
\* save_request_id; wants: pending_save; review: external.
NewPanel(p) ==
    [open |-> TRUE, text |-> 0, acked |-> 0, dirty |-> FALSE, unsaved |-> p \in Untitled,
     edit |-> None, save |-> None, wants |-> FALSE, timer |-> FALSE, review |-> FALSE]

Init ==
    /\ panel = [p \in Panels |-> NewPanel(p)]
    /\ waiting = [d \in Diffs |-> None]
    /\ pending = None /\ prompt = None /\ dialog = None
    /\ switching = "no" /\ window = "online" /\ retains \in BOOLEAN /\ inputs = 0

-----------------------------------------------------------------------------
\* EditorPanel, as far as closing goes.
InProgress(e) == e.wants \/ e.save # None \/ e.edit # None

\* Mutant: any daemon that has acknowledged something will do.
GuaranteedOnce(e) == retains /\ e.edit = None /\ e.save = None

\* recovery_guaranteed: acknowledged for exactly the visible text.
Guaranteed(e) == retains /\ e.edit = None /\ e.save = None /\ e.acked = e.text

\* flush_pending, and drain_pending when the text is acknowledged: a save does not go
\* over a change on disk that the user has yet to review.
Flushed(e) ==
    IF window # "online" \/ e.edit # None \/ e.save # None THEN e
    ELSE IF e.text # e.acked THEN [e EXCEPT !.edit = e.text]
    ELSE IF e.wants THEN [e EXCEPT !.wants = FALSE, !.save = IF e.review THEN None ELSE e.text]
    ELSE e

\* request_save.
SaveAsked(e) == IF e.review THEN e ELSE Flushed([e EXCEPT !.wants = TRUE])

\* close_requires_prompt.
Unretained(p, e) == e.dirty /\ (p \in Diffs \/ ~Guaranteed(e))

\* flush_for_recovery of the editors among ids that need it.
Checkpointed(ids) ==
    [p \in Panels |-> IF p \in ids \cap Editors /\ panel[p].open THEN Flushed(panel[p])
                      ELSE panel[p]]

Tabs     == {p \in Panels : panel[p].open}
Dirty(S) == {p \in S : panel[p].dirty}

\* remove_dock_ids.
Removed(ps, ids) == [p \in Panels |-> IF p \in ids THEN [ps[p] EXCEPT !.open = FALSE] ELSE ps[p]]

Modal    == prompt # None \/ dialog # None
UnderWay == pending # None \/ switching = "sent"

\* Nobody saves while a save is on its way.
Unhurried == \/ "again" \in Ops
             \/ \A e \in Editors : panel[e].open => panel[e].save = None

\* The user does something, in a window that is there.
Does(op) == /\ op \in Ops /\ inputs < MaxInputs /\ inputs' = inputs + 1
            /\ window # "closed" /\ ~Modal /\ UNCHANGED retains

-----------------------------------------------------------------------------
Type(p) ==
    /\ Does("type") /\ panel[p].open
    /\ UnderWay => "hasty" \in Ops
    /\ panel' = [panel EXCEPT ![p].text = @ + 1, ![p].dirty = TRUE,
                              ![p].timer = p \in Editors]
    /\ UNCHANGED <<waiting, pending, prompt, dialog, switching, window>>

\* Another program writes the file: the worker asks for a review of dirty text.
ReviewAsked(p) ==
    /\ "disk" \in Ops /\ window = "online"
    /\ p \in Editors \ Untitled /\ panel[p].open /\ panel[p].dirty /\ ~panel[p].review
    /\ panel' = [panel EXCEPT ![p].review = TRUE]
    /\ UNCHANGED <<waiting, pending, prompt, dialog, switching, window, retains, inputs>>

\* The debounce timer of an editor.
FlushTimer(p) ==
    /\ panel[p].timer
    /\ panel' = [panel EXCEPT ![p] = IF @.open THEN Flushed([@ EXCEPT !.timer = FALSE])
                                     ELSE [@ EXCEPT !.timer = FALSE]]
    /\ UNCHANGED <<waiting, pending, prompt, dialog, switching, window, retains, inputs>>

\* apply_edit_result: the edit is acknowledged, what waited for it goes on.
Acknowledge(p) ==
    /\ window = "online" /\ panel[p].edit # None /\ panel[p].open
    /\ panel' = [panel EXCEPT ![p] = Flushed([@ EXCEPT !.acked = panel[p].edit, !.edit = None])]
    /\ UNCHANGED <<waiting, pending, prompt, dialog, switching, window, retains, inputs>>

-----------------------------------------------------------------------------
\* The tabs go, or the window with all of them.
Close(ps, ids, closesWindow) ==
    /\ panel' = Removed(ps, IF closesWindow THEN Panels ELSE ids)
    /\ window' = IF closesWindow THEN "closed" ELSE window

\* Mutant: only the saves that are on their way are waited for.
SavedNothingOnTheWay(ps, want, sent) ==
    /\ sent = {}
    /\ \A p \in want : ps[p].open => ~InProgress(ps[p])

\* All that had to be saved is saved.
Saved(ps, want, sent) ==
    /\ sent = {}
    /\ \A p \in want : ps[p].open =>
          /\ ~ps[p].dirty
          /\ p \in Editors => ~ps[p].unsaved /\ ~InProgress(ps[p])

\* resume_pending_save_close, with the panels ps, the request todo, its diff saves on
\* their way sent, and the save dialog at dlg.
Resume(ps, todo, sent, dlg) ==
    LET nameless == {p \in todo.required \cap Editors :
                        ps[p].open /\ ps[p].unsaved /\ ps[p].dirty /\ ~InProgress(ps[p])}
        busy == sent # {} \/ \E p \in todo.required \cap Editors : ps[p].open /\ InProgress(ps[p])
    IN  IF Saved(ps, todo.required, sent)
        THEN Close(ps, todo.ids, todo.window) /\ pending' = None /\ dialog' = dlg
        ELSE /\ panel' = ps /\ UNCHANGED window
             /\ IF nameless # {} THEN /\ dialog' \in IF dlg = None THEN nameless ELSE {dlg}
                                      /\ pending' = [todo EXCEPT !.sent = sent]
                ELSE /\ dialog' = dlg
                     /\ pending' = IF busy THEN [todo EXCEPT !.sent = sent] ELSE None

\* Without a close that waits nothing more happens.
ResumeAny(ps, sent, dlg) ==
    IF pending = None THEN panel' = ps /\ dialog' = dlg /\ UNCHANGED <<pending, window>>
    ELSE Resume(ps, pending, sent, dlg)

\* write_buffer: one save of a diff at a time.
Written(ds) == [d \in Diffs |-> IF d \in ds /\ waiting[d] = None THEN panel[d].text
                                ELSE waiting[d]]

\* save_before_close: every dirty editor with a path and every dirty diff is saved;
\* an untitled editor asks for its path first.
SaveBeforeClose(ids, required, closesWindow) ==
    LET diffs == {d \in required \cap Diffs : panel[d].open /\ panel[d].dirty}
        ps    == [p \in Panels |-> IF p \in required \cap Editors /\ panel[p].open
                                      /\ panel[p].dirty /\ ~panel[p].unsaved
                                   THEN SaveAsked(panel[p]) ELSE panel[p]]
        named == {p \in required \cap Untitled : panel[p].open /\ panel[p].unsaved /\ panel[p].dirty}
        todo  == [ids |-> ids, required |-> required, sent |-> diffs, window |-> closesWindow]
    IN  /\ waiting' = Written(diffs)
        /\ IF named # {} THEN /\ pending' = todo /\ panel' = ps /\ dialog' \in named
                              /\ UNCHANGED window
           ELSE Resume(ps, todo, diffs, None)

\* guard_close_ids and request_window_close: what is not retained yet is flushed, and
\* what is not retained then needs the prompt.
GuardedClose(ids, closesWindow) ==
    LET ps == Checkpointed({p \in ids : Unretained(p, panel[p])})
    IN  IF \E p \in ids : panel[p].open /\ Unretained(p, ps[p])
        THEN /\ prompt' = [ids |-> ids, dirty |-> Dirty(ids \cap Tabs), window |-> closesWindow]
             /\ panel' = ps /\ UNCHANGED window
        ELSE Close(ps, ids, closesWindow) /\ UNCHANGED prompt

CloseTabs ==
    /\ Does("close")
    /\ \E ids \in SUBSET Tabs \ {{}} : GuardedClose(ids, FALSE)
    /\ UNCHANGED <<waiting, pending, dialog, switching>>

CloseWindow ==
    /\ Does("window") /\ GuardedClose(Tabs, TRUE)
    /\ UNCHANGED <<waiting, pending, dialog, switching>>

\* The buttons of the prompt.  It is about the workspace it was shown for, and a
\* switch that was waiting may have gone through meanwhile.
Stale == switching = "done"

ChooseSave ==
    /\ prompt # None /\ prompt' = None
    /\ Unhurried
    /\ IF Stale THEN UNCHANGED <<panel, waiting, pending, dialog, window>>
       ELSE SaveBeforeClose(prompt.ids, prompt.dirty, prompt.window)
    /\ UNCHANGED <<switching, retains, inputs>>

\* discard_and_close.
ChooseDiscard ==
    /\ prompt # None /\ prompt' = None
    /\ IF Stale THEN UNCHANGED <<panel, window>>
       ELSE Close(panel, prompt.ids, prompt.window)
    /\ UNCHANGED <<waiting, pending, dialog, switching, retains, inputs>>

ChooseCancel ==
    /\ prompt # None /\ prompt' = None
    /\ UNCHANGED <<panel, waiting, pending, dialog, switching, window, retains, inputs>>

-----------------------------------------------------------------------------
\* save_active.
SaveActive(p) ==
    /\ Does("save") /\ panel[p].open
    /\ Unhurried
    /\ IF p \in Diffs THEN /\ waiting' = IF panel[p].dirty THEN Written({p}) ELSE waiting
                           /\ UNCHANGED <<panel, dialog>>
       ELSE IF panel[p].unsaved THEN dialog' = p /\ UNCHANGED <<panel, waiting>>
       ELSE /\ panel' = IF panel[p].dirty THEN [panel EXCEPT ![p] = SaveAsked(@)] ELSE panel
            /\ UNCHANGED <<waiting, dialog>>
    /\ UNCHANGED <<pending, prompt, switching, window>>

\* on_save_all.
SaveAll ==
    /\ Does("save") /\ pending = None
    /\ Unhurried
    /\ SaveBeforeClose({}, Dirty(Tabs), FALSE)
    /\ UNCHANGED <<prompt, switching>>

\* confirm_save, with a path.
ConfirmSave ==
    /\ dialog # None /\ dialog' = None
    /\ Unhurried
    /\ panel' = [panel EXCEPT ![dialog] = IF @.open THEN SaveAsked(@) ELSE @]
    /\ UNCHANGED <<waiting, pending, prompt, switching, window, retains, inputs>>

CancelSave ==
    /\ dialog # None /\ dialog' = None /\ pending' = None
    /\ UNCHANGED <<panel, waiting, prompt, switching, window, retains, inputs>>

\* finish_save and mark_saved: text typed since is still dirty, and sent.
SavedAs(e) ==
    LET s == [e EXCEPT !.acked = e.save, !.save = None, !.unsaved = FALSE, !.review = FALSE,
                       !.dirty = e.text # e.save]
    IN  IF s.dirty THEN Flushed(s) ELSE s

\* on_buffer_saved, for an editor ...
OnSaved(p) ==
    /\ window = "online" /\ panel[p].open /\ panel[p].save # None
    /\ ResumeAny([panel EXCEPT ![p] = SavedAs(@)],
                 IF pending = None THEN {} ELSE pending.sent, dialog)
    /\ UNCHANGED <<waiting, prompt, switching, retains, inputs>>

\* ... and for a diff.
OnDiffSaved(d) ==
    /\ window = "online" /\ panel[d].open /\ waiting[d] # None
    /\ waiting' = [waiting EXCEPT ![d] = None]
    /\ ResumeAny([panel EXCEPT ![d].dirty = panel[d].text # waiting[d]],
                 IF pending = None THEN {} ELSE pending.sent \ {d}, dialog)
    /\ UNCHANGED <<prompt, switching, retains, inputs>>

\* A save fails: an error that names a buffer ends the close that waits.
OnError ==
    /\ "fail" \in Ops /\ window = "online"
    /\ \/ \E p \in Editors : /\ panel[p].open /\ panel[p].save # None
                             /\ panel' = [panel EXCEPT ![p].save = None]
       \/ \E d \in Diffs : waiting[d] # None /\ UNCHANGED panel
    /\ pending' = None /\ waiting' = [d \in Diffs |-> None]
    /\ UNCHANGED <<prompt, dialog, switching, window, retains, inputs>>

-----------------------------------------------------------------------------
\* editors_recovery_ready, once checkpoint_editors has flushed them.
Ready(ps) == \A p \in Tabs : ~ps[p].dirty \/ (p \in Editors /\ Guaranteed(ps[p]))

\* switch_to: at once, when the drafts are acknowledged, or not at all.
SwitchTo ==
    /\ Does("switch") /\ window = "online" /\ switching = "no"
    /\ LET ps == Checkpointed(Panels)
       IN  /\ panel' = ps
           /\ switching' = IF Ready(ps) THEN "sent"
                           ELSE IF Dirty(Tabs \cap Diffs) = {} /\ retains THEN "waiting" ELSE "no"
    /\ pending' = IF switching' = "sent" THEN None ELSE pending
    /\ UNCHANGED <<waiting, prompt, dialog, window>>

\* Every 100 ms, 50 times.
SwitchTick ==
    /\ switching = "waiting" /\ window = "online"
    /\ LET ps == Checkpointed(Panels)
       IN  /\ panel' = ps
           /\ IF Ready(ps) THEN switching' = "sent" /\ pending' = None
              ELSE UNCHANGED <<switching, pending>>
    /\ UNCHANGED <<waiting, prompt, dialog, window, retains, inputs>>

\* The fifty ticks are over, or the user has left the daemon.
SwitchGivenUp ==
    /\ switching = "waiting" /\ switching' = "no"
    /\ UNCHANGED <<panel, waiting, pending, prompt, dialog, window, retains, inputs>>

\* restore_workspace: release_dock takes every panel away.
OnSwitched ==
    /\ switching = "sent" /\ window = "online" /\ switching' = "done"
    /\ panel' = Removed(panel, Panels)
    /\ UNCHANGED <<waiting, pending, prompt, dialog, window, retains, inputs>>

\* on_disconnect, on_stop_server and on_restart_server: the daemon is left, and may be
\* ended, when all it has to keep is acknowledged.
LeaveDaemon ==
    /\ Does("leave") /\ window = "online"
    /\ LET ps == Checkpointed(Panels)
       IN  /\ panel' = ps
           /\ IF Ready(ps) THEN window' = "offline" /\ pending' = None
              ELSE UNCHANGED <<window, pending>>
    /\ UNCHANGED <<waiting, prompt, dialog, switching>>

\* on_quit_client.
Quit ==
    /\ window # "closed" /\ ~Modal /\ Close(panel, Panels, TRUE)
    /\ UNCHANGED <<waiting, pending, prompt, dialog, switching, retains, inputs>>

-----------------------------------------------------------------------------
User == \/ \E p \in Panels : Type(p) \/ SaveActive(p)
        \/ CloseTabs \/ CloseWindow \/ SaveAll \/ SwitchTo \/ LeaveDaemon

Answers == ChooseSave \/ ChooseDiscard \/ ChooseCancel \/ ConfirmSave \/ CancelSave

Daemon(p) == Acknowledge(p) \/ (p \in Editors /\ OnSaved(p)) \/ (p \in Diffs /\ OnDiffSaved(p))

Next ==
    \/ User \/ Answers
    \/ \E p \in Panels : FlushTimer(p) \/ ReviewAsked(p) \/ Daemon(p)
    \/ OnError \/ SwitchTick \/ SwitchGivenUp \/ OnSwitched

Spec == Init /\ [][Next]_vars

\* The timers fire and the daemon answers; the user need not.
Fairness == /\ \A p \in Panels : WF_vars(FlushTimer(p)) /\ WF_vars(Daemon(p))
            /\ WF_vars(SwitchTick) /\ WF_vars(SwitchGivenUp) /\ WF_vars(OnSwitched)

FairSpec == Spec /\ Fairness

\* With Quit Client, which neither asks nor flushes.
QuitSpec == Init /\ [][Next \/ Quit]_vars

-----------------------------------------------------------------------------
\* The text of a panel survives it: it is on disk, or the daemon's recovery copy has
\* it, or will have, the edit being sent ahead of whatever takes the panel.
Kept(p) == \/ ~panel[p].dirty
           \/ p \in Editors /\ retains /\ panel[p].text \in {panel[p].acked, panel[p].edit}

Discarded(p) == prompt # None /\ prompt' = None /\ p \in prompt.dirty

\* No tab goes with text that is neither saved nor recoverable, unless its user was
\* asked and chose to discard it: not with its tab, not with the window, not with the
\* workspace; and no daemon is left with text it has not acknowledged
\* (workspace.rs: "Save is a safe decision for a bulk close only when every selected
\* buffer has completed its save").
NothingLost ==
    [][/\ \A p \in Tabs : ~panel'[p].open => Kept(p)' \/ Discarded(p)
       /\ window = "online" /\ window' = "offline" => \A p \in Tabs : Kept(p)']_vars

\* A close that waits for its saves comes to its end while its user waits: it closes,
\* or gives up and says so, or asks for a path or for a review of the disk
\* (resume_pending_save_close).  The answer that would go on with it is for a tab: one
\* that was closed over its head is excepted.
CloseEnds ==
    pending # None ~> \/ pending = None \/ dialog # None \/ window # "online"
                      \/ \E p \in pending.required : ~panel[p].open \/ panel[p].review
=============================================================================
