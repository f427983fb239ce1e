---------------------------- MODULE EditorBuffer ----------------------------
(***************************************************************************)
(* The editor worker of the daemon (editor_worker.rs) and one file: the    *)
(* buffers it tracks for the path, the file as other programs change it,   *)
(* the recovery copy in the draft store, and the client's tab, which works *)
(* on the buffer it was last given and decides about changes on disk.      *)
(*                                                                         *)
(* The worker is one thread.  A save is two steps, the write and the look  *)
(* at the result, because other programs run between them while the        *)
(* formatter does.  A request that is refused without a change is left     *)
(* out, as are revisions (EditorPanel has them) and paged buffers.         *)
(***************************************************************************)
EXTENDS Naturals, FiniteSets

CONSTANTS
    Text,        \* contents of the buffers and of the file
    EmptyText,   \* the text of a new buffer
    Buffers,     \* ids of tracked buffers
    None,        \* the absent value of every Option
    Ops,         \* what the environment does in this instance, see OpNames
    MaxInputs,   \* bound: inputs of the user and of other programs
    MaxFiles     \* bound: how many files are written at the path

OpNames == {"edit", "undo", "save", "saveas", "format", "close", "resolve", "write", "delete",
            "binary", "aside", "unreadable", "crash", "overtake"}

ASSUME BufferAssumption ==
    /\ EmptyText \in Text /\ None \notin Text \cup Buffers
    /\ Ops \subseteq OpNames /\ MaxInputs \in Nat /\ MaxFiles \in Nat

VARIABLES
    file,      \* what is at the path
    aside,     \* the file moved away from the path or made unreadable, None: none
    written,   \* how many files have been written
    entries,   \* tracked: the TrackedBuffer of each buffer id, None: no such buffer
    draft,     \* the recovery copy of the path
    saving,    \* the buffer whose save has written, but not looked at the result
    view,      \* the buffer the client's tab is bound to
    notice,    \* the generation the tab asks the user about
    recover,   \* whether the client has yet to restore the drafts it listed
    basis,     \* history: the generation each buffer's text is based on
    inputs     \* how many inputs there have been

disk  == <<file, aside, written>>
tab   == <<view, notice, recover>>
vars  == <<file, aside, written, entries, draft, saving, view, notice, recover, basis, inputs>>

-----------------------------------------------------------------------------
\* What disk_generation tells apart: every file written differs from the earlier
\* ones in length, time, inode or hash, and one moved away and back does not.
\* None stands for contents that are not UTF-8.
Files == [n : Nat, text : Text \cup {None}]

Missing    == [n |-> 0, text |-> None]
Unreadable == [n |-> 0, text |-> EmptyText]   \* disk_generation returns an error

NewFile(text) == [n |-> written + 1, text |-> text]

Notices == [gen : Files, dirty : BOOLEAN]

Entry == [
    text : Text,
    dirty : BOOLEAN,
    saved : Text,                   \* Fresh's text at its savepoint
    path : BOOLEAN,                 \* FALSE: restored without its file
    base : Text \cup {None},        \* base_text
    disk : Files \cup {None},
    ext : Notices \cup {None},      \* external
    over : Files \cup {None}]       \* overwrite_generation

Draft == [text : Text, base : Text \cup {None}]

ASSUME NoneAssumption == None \notin Files \cup Notices \cup Entry \cup Draft

TypeOK ==
    /\ file \in Files
    /\ aside \in Files \cup {None}
    /\ written \in Nat
    /\ entries \in [Buffers -> Entry \cup {None}]
    /\ draft \in Draft \cup {None}
    /\ saving \in Buffers \cup {None} /\ view \in Buffers \cup {None}
    /\ notice \in Files \cup {None} /\ recover \in BOOLEAN
    /\ basis \in [Buffers -> Files \cup {None}]
    /\ inputs \in Nat

Open(b) == entries[b] # None

\* open_file returns the buffer Fresh has for the path, or a new one.
AtPath == {b \in Buffers : Open(b) /\ entries[b].path}
Unused == {b \in Buffers : ~Open(b)}

\* Mutant: a copy that exists is not written again.
CheckpointOnce(e) ==
    IF e.dirty /\ draft = None THEN [text |-> e.text, base |-> e.base] ELSE draft

\* checkpoint: only a dirty buffer has something to recover.
Checkpoint(e) == IF e.dirty THEN [text |-> e.text, base |-> e.base] ELSE draft

\* What every accepted change of a buffer ends with: checkpoint, or else discard.
Recovery(e) == IF e.dirty THEN Checkpoint(e) ELSE None

-----------------------------------------------------------------------------
\* Mutant: any pending notice keeps further ones back.
NoticeableOnce(e) ==
    file # Unreadable /\ e.disk # None /\ e.disk # file /\ e.ext = None

\* poll_external_changes, for a buffer e.
Noticeable(e) ==
    /\ file # Unreadable
    /\ e.disk # None /\ e.disk # file
    /\ e.ext # None => e.ext.gen # file

\* Mutant: every clean buffer takes what is on disk.
ReloadsMissing(e) == ~e.dirty

Reloads(e) == ~e.dirty /\ file.text # None

\* Mutant: Fresh's mtime check misses the change, and nothing makes up for it.
PolledUnread(e) ==
    IF Reloads(e)
    THEN [e EXCEPT !.disk = file, !.ext = [gen |-> file, dirty |-> FALSE], !.over = None]
    ELSE [e EXCEPT !.dirty = TRUE, !.ext = [gen |-> file, dirty |-> TRUE]]

\* A clean buffer takes the contents; a dirty one, or one whose file is gone, is kept.
Polled(e) ==
    IF Reloads(e)
    THEN [e EXCEPT !.text = file.text, !.saved = file.text, !.base = file.text,
                   !.disk = file, !.ext = [gen |-> file, dirty |-> FALSE], !.over = None]
    ELSE [e EXCEPT !.dirty = TRUE, !.ext = [gen |-> file, dirty |-> TRUE]]

\* apply_external_change: the user is asked, unless the tab takes the reloaded text.
Asked(gen, dirty) == IF dirty \/ gen.text = None THEN gen ELSE None

\* What polling buffer b does, to it, the draft and the tab.
PollOf(b) ==
    LET e == entries[b]
        p == Polled(e)
    IN  /\ entries' = [entries EXCEPT ![b] = p]
        /\ draft' = Checkpoint(p)
        /\ basis' = IF Reloads(e) THEN [basis EXCEPT ![b] = file] ELSE basis
        /\ notice' = IF view = b THEN Asked(file, p.dirty) ELSE notice

-----------------------------------------------------------------------------
Init ==
    /\ \E t \in Text : file = [n |-> 1, text |-> t]
    /\ written = 1
    /\ aside = None
    /\ entries = [b \in Buffers |-> None]
    /\ draft = None
    /\ saving = None /\ view = None /\ notice = None /\ recover = FALSE
    /\ basis = [b \in Buffers |-> None]
    /\ inputs = 0

Input(op) == op \in Ops /\ inputs < MaxInputs /\ inputs' = inputs + 1

\* The worker takes one command at a time.
Idle == saving = None

Viewed == view # None /\ Open(view)

\* Cmd::Open of a file that is not open; of an open one it changes nothing here.
OpenedFrom(f) == [text |-> f.text, dirty |-> FALSE, saved |-> f.text, path |-> TRUE,
                  base |-> f.text, disk |-> f, ext |-> None, over |-> None]

\* create_untitled.
Untitled == [text |-> EmptyText, dirty |-> FALSE, saved |-> EmptyText, path |-> FALSE,
             base |-> None, disk |-> None, ext |-> None, over |-> None]

\* is_file and is_binary_file.
Openable == file # Unreadable /\ file.text # None

\* open_buffer: to buffer b, which is the one at the path or a new one.
OpensAt(b) == IF AtPath = {} THEN b \in Unused ELSE b \in AtPath
Opened(b)  == IF AtPath = {} THEN OpenedFrom(file) ELSE entries[b]

OpenFile ==
    /\ Idle /\ view = None
    /\ Openable
    /\ \E b \in Buffers :
          /\ OpensAt(b)
          /\ entries' = [entries EXCEPT ![b] = Opened(b)]
          /\ basis' = IF AtPath = {} THEN [basis EXCEPT ![b] = file] ELSE basis
          /\ view' = b
    /\ UNCHANGED <<disk, draft, saving, notice, recover, inputs>>

\* The tab's buffer becomes e, and its recovery copy d.
Becomes(e, d) ==
    /\ entries' = [entries EXCEPT ![view] = e]
    /\ draft' = d
    /\ UNCHANGED <<disk, saving, view, recover>>

\* Cmd::RangeEdit and Cmd::Edit.
EditBuffer ==
    /\ Idle /\ Viewed
    /\ Input("edit")
    /\ \E t \in Text \ {entries[view].text} :
          LET e == [entries[view] EXCEPT !.text = t, !.dirty = TRUE]
          IN  Becomes(e, Recovery(e))
    /\ UNCHANGED <<notice, basis>>

\* Cmd::Action, an undo: any text, and clean only at Fresh's savepoint.
ActionBuffer ==
    /\ Idle /\ Viewed
    /\ Input("undo")
    /\ \E t \in Text, d \in BOOLEAN :
          /\ d \/ t = entries[view].saved
          /\ LET e == [entries[view] EXCEPT !.text = t, !.dirty = d]
             IN  Becomes(e, Recovery(e))
    /\ UNCHANGED <<notice, basis>>

\* Cmd::Close of a clean tab, and Cmd::DraftDiscard, which the user is asked for
\* when the tab is not.
CloseBuffer ==
    /\ Idle /\ Viewed
    /\ Input("close")
    /\ entries' = [entries EXCEPT ![view] = None]
    /\ draft' = IF entries[view].dirty THEN None ELSE draft
    /\ view' = None /\ notice' = None
    /\ UNCHANGED <<disk, saving, recover, basis>>

-----------------------------------------------------------------------------
\* The tick of poll_external_changes, one buffer at a time.
Poll ==
    /\ Idle
    /\ \E b \in Buffers : Open(b) /\ Noticeable(entries[b]) /\ PollOf(b)
    /\ UNCHANGED <<disk, saving, view, recover, inputs>>

\* Cmd::CheckExternal, whose own poll is Poll: the tab is told what is pending.  A
\* generation whose reload or overwriting it asked for it does not ask about again.
Pending(e) == e.ext # None /\ e.ext.dirty /\ e.ext.gen # e.over

CheckExternal ==
    /\ Idle /\ Viewed
    /\ \A b \in Buffers : Open(b) => ~Noticeable(entries[b])
    /\ Pending(entries[view])
    /\ notice' = entries[view].ext.gen
    /\ UNCHANGED <<disk, entries, draft, saving, view, recover, basis, inputs>>

\* resolve_external acts only on the generation the tab was told of.
Resolvable ==
    /\ file = notice /\ file # Unreadable
    /\ entries[view].ext # None => entries[view].ext.gen = notice

ResolveExternal ==
    /\ Idle /\ Viewed /\ notice # None
    /\ Input("resolve")
    /\ Resolvable
    /\ LET e == entries[view]
           kept == [e EXCEPT !.ext = [gen |-> notice, dirty |-> TRUE], !.over = None]
       IN  \/ Becomes(kept, draft) /\ UNCHANGED <<notice, basis>>             \* Keep
           \/ /\ Becomes([kept EXCEPT !.over = notice], draft)                \* Overwrite
              /\ notice' = None /\ UNCHANGED basis
           \/ /\ notice.text # None                                           \* Reload
              /\ Becomes(OpenedFrom(notice), None)
              /\ notice' = None /\ basis' = [basis EXCEPT ![view] = notice]

-----------------------------------------------------------------------------
\* Mutant: only the generation is compared.
ConflictsByGeneration(e) == IF e.path THEN e.disk # None /\ e.disk # file ELSE file # Missing

\* What save_buffer refuses to write over.
Conflicts(e) ==
    IF e.path
    THEN e.disk \notin {None, file} \/ (e.ext # None /\ e.ext.dirty)
    ELSE file # Missing

Authorized(e) == e.over = file /\ e.ext # None

\* Cmd::Save up to Editor::save.  The tab saves what is dirty, Save As anything, and
\* neither while it asks about the file.
SaveWrite ==
    /\ Idle /\ Viewed /\ notice = None
    /\ IF entries[view].dirty THEN Input("save") ELSE Input("saveas")
    /\ file # Unreadable /\ written < MaxFiles
    /\ LET e == entries[view]
       IN  IF Conflicts(e) /\ ~Authorized(e)
           THEN /\ entries' = [entries EXCEPT ![view].ext = [gen |-> file, dirty |-> e.dirty]]
                /\ notice' = Asked(file, e.dirty)    \* the server's check_external
                /\ UNCHANGED <<disk, saving, basis>>
           ELSE /\ file' = NewFile(e.text) /\ written' = written + 1
                /\ entries' = [entries EXCEPT ![view].path = TRUE]
                /\ basis' = [basis EXCEPT ![view] = NewFile(e.text)]
                /\ saving' = view
                /\ UNCHANGED <<aside, notice>>
    /\ UNCHANGED <<draft, view, recover>>

\* Mutant: a disk without the text counts as saved.
AfterSaveClean(e, f, text, modified) ==
    [e EXCEPT !.text = text, !.saved = text, !.base = f.text, !.disk = f,
              !.ext = None, !.over = None, !.dirty = FALSE]

\* What save_buffer leaves in the buffer, with the file f at the path.
AfterSave(e, f, text, modified) ==
    [e EXCEPT !.text = text, !.saved = IF modified THEN e.text ELSE text, !.base = f.text, !.disk = f,
              !.ext = None, !.over = None,
              !.dirty = modified \/ (f.text # None /\ f.text # text)]

\* The on-save actions and the rest of save_buffer: the formatter leaves the text,
\* writes another, or fails with another in the buffer.
SaveFinish ==
    /\ saving # None
    /\ \E text \in Text, fails \in BOOLEAN :
          LET e == entries[saving]
              formats == text # e.text
              writes == formats /\ ~fails
              f == IF writes THEN NewFile(text) ELSE file
              s == AfterSave(e, f, text, fails)
          IN  /\ formats => "format" \in Ops /\ written < MaxFiles
              /\ fails => formats
              /\ file' = f
              /\ written' = IF writes THEN written + 1 ELSE written
              /\ basis' = IF writes THEN [basis EXCEPT ![saving] = f] ELSE basis
              /\ entries' = [entries EXCEPT ![saving] = s]
              /\ draft' = Recovery(s)
    /\ saving' = None /\ notice' = None
    /\ UNCHANGED <<aside, view, recover, inputs>>

-----------------------------------------------------------------------------
\* Other programs.  Only with "overtake" do they come between the steps of a save.
Outside(op) ==
    /\ Idle \/ "overtake" \in Ops
    /\ Input(op)
    /\ UNCHANGED <<entries, draft, saving, tab, basis>>

WriteFile ==
    /\ file # Unreadable /\ written < MaxFiles
    /\ \/ Outside("write") /\ \E t \in Text : file' = NewFile(t)
       \/ Outside("binary") /\ file' = NewFile(None)
    /\ written' = written + 1 /\ UNCHANGED aside

DeleteFile ==
    /\ file # Unreadable /\ file # Missing
    /\ Outside("delete")
    /\ file' = Missing
    /\ UNCHANGED <<aside, written>>

MoveAway ==
    /\ aside = None /\ file # Missing
    /\ \/ Outside("aside") /\ file' = Missing
       \/ Outside("unreadable") /\ file' = Unreadable
    /\ aside' = file /\ UNCHANGED written

MoveBack ==
    /\ aside # None /\ file \in {Missing, Unreadable}
    /\ IF file = Missing THEN Outside("aside") ELSE Outside("unreadable")
    /\ file' = aside /\ aside' = None
    /\ UNCHANGED written

-----------------------------------------------------------------------------
\* The daemon ends and is started again; what the save had written stays.  The client
\* comes back, opens the files of its layout and lists the drafts.
Crash ==
    /\ Input("crash")
    /\ entries' = [b \in Buffers |-> None]
    /\ basis' = [b \in Buffers |-> None]
    /\ saving' = None
    /\ view' = None /\ notice' = None /\ recover' = TRUE
    /\ UNCHANGED <<disk, draft>>

\* DraftStore::source_changed.
SourceChanged ==
    draft.base # None /\ (file = Unreadable \/ file.text = None \/ file.text # draft.base)

\* The entry as restore_draft leaves it.
RestoredFrom(e) ==
    LET r == [e EXCEPT !.text = draft.text, !.dirty = TRUE, !.base = draft.base]
    IN  IF SourceChanged
        THEN [r EXCEPT !.ext = [gen |-> file, dirty |-> TRUE], !.disk = file]
        ELSE r

\* Cmd::DraftRestore: into the file's buffer, or a new one if it cannot be opened.
RestoreDraft ==
    /\ Idle /\ recover
    /\ recover' = FALSE
    /\ IF draft = None   \* draft not found
       THEN UNCHANGED <<entries, basis, view, notice>>
       ELSE \E b \in Buffers :
               /\ IF Openable THEN OpensAt(b) ELSE b \in Unused
               /\ entries' = [entries EXCEPT ![b] =
                                 RestoredFrom(IF Openable THEN Opened(b) ELSE Untitled)]
               /\ basis' = [basis EXCEPT ![b] = IF SourceChanged THEN None ELSE file]
               /\ view' = b /\ notice' = None
    /\ UNCHANGED <<disk, draft, saving, inputs>>

-----------------------------------------------------------------------------
Next ==
    \/ OpenFile \/ EditBuffer \/ ActionBuffer \/ CloseBuffer
    \/ Poll \/ CheckExternal \/ ResolveExternal \/ SaveWrite \/ SaveFinish
    \/ WriteFile \/ DeleteFile \/ MoveAway \/ MoveBack
    \/ Crash \/ RestoreDraft

Spec == Init /\ [][Next]_vars

\* The worker's ticks come, a save ends, and every open and every refused request
\* of a tab is followed by a check.
FairSpec == Spec /\ WF_vars(Poll) /\ WF_vars(SaveFinish) /\ WF_vars(CheckExternal)

-----------------------------------------------------------------------------
\* What the user sees as unsaved can be recovered if the daemon ends now.
Recoverable ==
    Idle /\ Viewed /\ entries[view].dirty =>
        draft # None /\ draft.text = entries[view].text

\* A buffer shown as clean, with nothing to review, is the file as the worker knows
\* it: no reload, save, undo or restore leaves the mark off a text that differs.
CleanShowsDisk ==
    \A b \in Buffers : Open(b) /\ ~entries[b].dirty /\ ~Pending(entries[b]) /\ saving # b =>
        entries[b].over # None \/ (entries[b].disk # None /\ entries[b].text = entries[b].disk.text)

\* A clean buffer follows the file, or the poll will still see to it.
CleanFollowsDisk ==
    \A b \in Buffers :
        (Open(b) /\ ~entries[b].dirty /\ saving # b /\ file # Unreadable) =>
            \/ entries[b].text = file.text
            \/ Noticeable(entries[b])
            \/ Pending(entries[b]) \/ entries[b].over # None

\* A save replaces only the file the text is based on, or one the user said to overwrite.
SaveSparesUnseen ==
    [][saving = None /\ saving' # None =>
          file \in {basis[saving'], Missing} \/ entries[saving'].over = file]_vars

\* What the tab asks the user to review is the file as it is, or the poll has more to
\* tell: it never asks for a decision the worker would refuse.
ReviewIsCurrent ==
    Viewed /\ notice # None /\ file # Unreadable =>
        notice = file \/ Noticeable(entries[view])

\* Unsaved text whose file another program replaced comes to be reviewed.
Diverged == Viewed /\ entries[view].dirty /\ file \notin {basis[view], Unreadable}
ConflictTold == Diverged ~> (notice = file \/ ~Diverged \/ entries[view].over = file)

\* What the tab is shown is true: no mark means the file's text, and what it is to
\* review is the file as it is (poll_external, save_buffer, restore_draft).
ViewIsTrue == TypeOK /\ CleanShowsDisk /\ ReviewIsCurrent
=============================================================================
