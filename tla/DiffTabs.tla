------------------------------ MODULE DiffTabs ------------------------------
(* DiffTabs: the tabs of Source Control that show a file beside its version  *)
(* at HEAD and let the user edit it (gui/diff_view.rs, and their handlers in  *)
(* gui/workspace.rs), with the requests of the daemon they use.              *)
(*                                                                           *)
(* A text is a sequence of lines. A diff tab does not send what is typed; a   *)
(* save sends the whole text as an edit of the buffer, and then the save.    *)
EXTENDS Naturals, Sequences, SequencesExt, FiniteSets

CONSTANTS
  Paths,       \* changed files of the repository
  Lines,       \* what the lines of a file can be
  MaxLines,    \* bound: lines of a file
  HeadLine,    \* the line that the files held at HEAD, over and over
  MaxInputs,   \* bound: what users and other programs do
  Ops,         \* which of the optional events happen, see OpNames
  None

\* Saves with a formatter, requests that fail, changes of the buffer by another window
\* ("others"), an open file's diff asked for again ("again"), a tab discarded with its edits
\* ("discard").
OpNames == {"format", "fail", "others", "again", "discard"}

AtHead == [n \in 1..MaxLines |-> HeadLine]
Texts == UNION {[1..n -> Lines] : n \in 0..MaxLines}

VARIABLES
  disk,       \* the files
  buffer,     \* buffers of the daemon: text and revision
  tabs,       \* diffs: the diff tab of a path, or None
  preview,    \* diff_preview: the path of the tab that the next preview replaces, or None
  saving,     \* diff_save_snapshots: the text and id of the save that was sent
  known,      \* revisions that the connection task polls with
  wire,       \* requests on their way to the daemon
  replies,    \* answers on their way to the window
  inputs

vars == <<disk, buffer, tabs, preview, saving, known, wire, replies, inputs>>

-----------------------------------------------------------------------------
(* The split of two texts into rows.                                         *)

\* The table of diff_ops: the length of the longest common subsequence of what is left of two texts.
Larger(a, b) == IF a >= b THEN a ELSE b
Common(old, new) ==
  LET dp[i \in 1..(Len(old) + 1), j \in 1..(Len(new) + 1)] ==
        IF i > Len(old) \/ j > Len(new) THEN 0
        ELSE IF old[i] = new[j] THEN 1 + dp[i + 1, j + 1]
        ELSE Larger(dp[i + 1, j], dp[i, j + 1])
  IN dp

\* diff_ops: the steps from one text to the other; a deletion comes before an insertion.
DiffOps(old, new) ==
  LET dp == Common(old, new)
      ops[i \in 1..(Len(old) + 1), j \in 1..(Len(new) + 1)] ==
        IF i > Len(old) THEN [k \in 1..(Len(new) - j + 1) |-> [kind |-> "insert", line |-> new[j + k - 1]]]
        ELSE IF j > Len(new) THEN [k \in 1..(Len(old) - i + 1) |-> [kind |-> "delete", line |-> old[i + k - 1]]]
        ELSE IF old[i] = new[j] THEN <<[kind |-> "equal", line |-> old[i]]>> \o ops[i + 1, j + 1]
        ELSE IF dp[i + 1, j] >= dp[i, j + 1] THEN <<[kind |-> "delete", line |-> old[i]]>> \o ops[i + 1, j]
        ELSE <<[kind |-> "insert", line |-> new[j]]>> \o ops[i, j + 1]
  IN ops[1, 1]

\* The rows of one run of deletions and insertions: the two sides beside each other.
Least(a, b) == IF a <= b THEN a ELSE b
PairedShort(dels, ins) ==   \* Mutant: only as many rows as both sides have
  [n \in 1..Least(Len(dels), Len(ins)) |->
    [left |-> dels[n], right |-> ins[n], kind |-> "changed"]]

Paired(dels, ins) ==
  [n \in 1..Larger(Len(dels), Len(ins)) |->
    [left |-> IF n <= Len(dels) THEN dels[n] ELSE None,
     right |-> IF n <= Len(ins) THEN ins[n] ELSE None,
     kind |-> IF n > Len(ins) THEN "removed" ELSE IF n > Len(dels) THEN "added" ELSE "changed"]]

\* split_diff_lines.
SplitRows(old, new) ==
  LET step(acc, op) ==
        IF op.kind = "equal"
        THEN [rows |-> Append(acc.rows \o Paired(acc.dels, acc.ins),
                              [left |-> op.line, right |-> op.line, kind |-> "same"]),
              dels |-> <<>>, ins |-> <<>>]
        ELSE IF op.kind = "delete" THEN [acc EXCEPT !.dels = Append(@, op.line)]
        ELSE [acc EXCEPT !.ins = Append(@, op.line)]
      end == FoldLeft(step, [rows |-> <<>>, dels |-> <<>>, ins |-> <<>>], DiffOps(old, new))
  IN end.rows \o Paired(end.dels, end.ins)

-----------------------------------------------------------------------------
(* DiffPanel.                                                                *)

NewTab(pin) ==
  [pinned |-> pin, buffer |-> FALSE, rev |-> 0, text |-> <<>>, dirty |-> FALSE, ready |-> FALSE,
   original |-> <<>>, rows |-> <<>>, seen |-> None]   \* seen: the buffer's text the user last saw

\* show_sides: the rows of HEAD and the file on the disk.
ShowSides(t, old, new) == [t EXCEPT !.original = old, !.rows = SplitRows(old, new)]

\* apply_snapshot: a draft is kept, and the rows are those of what the editor shows.
Shown(t, text) == [t EXCEPT !.text = text, !.seen = text]
Snapshot(t, rev, text) ==
  LET s == [(IF t.dirty THEN t ELSE Shown(t, text)) EXCEPT !.rev = rev, !.ready = TRUE]
  IN [s EXCEPT !.rows = SplitRows(s.original, s.text)]

\* The editor's change event.
Edited(t, text) == [t EXCEPT !.text = text, !.dirty = TRUE, !.rows = SplitRows(t.original, text)]

\* mark_saved: the formatter's text is shown unless the user went on typing; the rows are not made again.
MarkSavedClean(t, sent, m) ==   \* Mutant: what was typed since counts as saved
  [t EXCEPT !.rev = m.rev, !.dirty = FALSE, !.seen = m.text]

MarkSaved(t, sent, m) ==
  LET s == IF m.formatted /\ sent = t.text THEN Shown(t, m.text) ELSE t
      saved == IF m.formatted THEN m.text ELSE sent
  IN [s EXCEPT !.rev = m.rev, !.dirty = IF saved = None THEN t.dirty ELSE s.text # saved,
               !.seen = IF s.text = m.text THEN m.text ELSE @]

-----------------------------------------------------------------------------
(* What the user does.                                                       *)

Init ==
  /\ disk = [p \in Paths |-> AtHead] /\ buffer = [p \in Paths |-> [text |-> AtHead, rev |-> 0]]
  /\ tabs = [p \in Paths |-> None] /\ preview = None
  /\ saving = [p \in Paths |-> None] /\ known = [p \in Paths |-> 0]
  /\ wire = <<>> /\ replies = <<>> /\ inputs = 0

Input == inputs < MaxInputs /\ inputs' = inputs + 1
Send(ms) == wire' = wire \o ms

\* close_diff: a tab with edits is kept, and is no longer a preview.
Replaced(ts, p) ==
  IF ts[p] # None /\ ts[p].dirty THEN [ts EXCEPT ![p].pinned = TRUE] ELSE [ts EXCEPT ![p] = None]

\* open_diff of a file without a tab: a preview takes the place of the last one.
OpenDiff(p, pin) ==
  LET others == IF ~pin /\ preview # None THEN Replaced(tabs, preview) ELSE tabs IN
  /\ Input /\ tabs[p] = None
  /\ tabs' = [others EXCEPT ![p] = NewTab(pin)]
  /\ preview' = IF pin THEN preview ELSE p
  /\ Send(<<[kind |-> "diff", path |-> p], [kind |-> "open", path |-> p]>>)
  /\ UNCHANGED <<disk, buffer, saving, known, replies>>

\* open_diff of a file with one: its sides are asked for again.
ShowDiff(p, pin) ==
  /\ Input /\ "again" \in Ops /\ tabs[p] # None
  /\ tabs' = IF pin THEN [tabs EXCEPT ![p].pinned = TRUE] ELSE tabs
  /\ preview' = IF pin /\ preview = p THEN None ELSE preview
  /\ Send(<<[kind |-> "diff", path |-> p]>>)
  /\ UNCHANGED <<disk, buffer, saving, known, replies>>

\* pin_diff.
PinDiff(p) ==
  /\ tabs[p] # None /\ ~tabs[p].pinned
  /\ tabs' = [tabs EXCEPT ![p].pinned = TRUE] /\ preview' = IF preview = p THEN None ELSE preview
  /\ UNCHANGED <<disk, buffer, saving, known, wire, replies, inputs>>

Type(p) ==
  /\ Input /\ tabs[p] # None /\ tabs[p].ready
  /\ \E t \in Texts \ {tabs[p].text} : tabs' = [tabs EXCEPT ![p] = Edited(@, t)]
  /\ UNCHANGED <<disk, buffer, preview, saving, known, wire, replies>>

\* save_active and write_buffer: one save of a buffer at a time.
Save(p) ==
  LET id == inputs + 1 IN
  /\ Input /\ tabs[p] # None /\ tabs[p].buffer /\ tabs[p].ready /\ tabs[p].dirty /\ saving[p] = None
  /\ saving' = [saving EXCEPT ![p] = [text |-> tabs[p].text, id |-> id]]
  /\ Send(<<[kind |-> "edit", path |-> p, base |-> tabs[p].rev, text |-> tabs[p].text,
             over |-> tabs[p].seen],
            [kind |-> "save", path |-> p, base |-> tabs[p].rev + 1, id |-> id]>>)
  /\ UNCHANGED <<disk, buffer, tabs, preview, known, replies>>

\* The close button of a tab, or its discarding, and forget_diff.
CloseTab(p) ==
  /\ tabs[p] # None /\ (tabs[p].dirty => "discard" \in Ops)
  /\ tabs' = [tabs EXCEPT ![p] = None] /\ preview' = IF preview = p THEN None ELSE preview
  /\ UNCHANGED <<disk, buffer, saving, known, wire, replies, inputs>>

-----------------------------------------------------------------------------
(* The daemon.                                                               *)

Refused(m) == [kind |-> "error", of |-> m.kind]

\* edit_buffer: the whole text, if the revision is the buffer's.
Edit(m) ==
  /\ m.kind = "edit" /\ m.base = buffer[m.path].rev
  /\ buffer' = [buffer EXCEPT ![m.path] = [text |-> m.text, rev |-> @.rev + 1]]
  /\ replies' = Append(replies, [kind |-> "changed", path |-> m.path, rev |-> m.base + 1, text |-> m.text])
  /\ UNCHANGED disk

\* save_buffer, which may format the text first.
SaveBuffer(m) ==
  /\ m.kind = "save" /\ m.base = buffer[m.path].rev
  /\ \E formatted \in {FALSE} \cup IF "format" \in Ops THEN {TRUE} ELSE {} :
       LET text == IF formatted THEN AtHead ELSE buffer[m.path].text
           rev == IF formatted THEN m.base + 1 ELSE m.base IN
       /\ disk' = [disk EXCEPT ![m.path] = text]
       /\ buffer' = [buffer EXCEPT ![m.path] = [text |-> text, rev |-> rev]]
       /\ replies' = Append(replies, [kind |-> "saved", path |-> m.path, id |-> m.id, rev |-> rev,
                                      text |-> text, formatted |-> formatted])

\* A revision conflict, or a save that fails: the error carries the request.
Refuse(m) ==
  /\ m.kind \in {"edit", "save"}
  /\ m.base # buffer[m.path].rev \/ (m.kind = "save" /\ "fail" \in Ops)
  /\ replies' = Append(replies, Refused(m)) /\ UNCHANGED <<disk, buffer>>

\* git::diff with combine_sides, open_buffer, and the poll of a revision; git may fail.
SidesOf(m) == [kind |-> "sides", path |-> m.path, old |-> AtHead, new |-> disk[m.path]]
SnapshotOf(p) == [kind |-> "snapshot", path |-> p, rev |-> buffer[p].rev, text |-> buffer[p].text]
Answer(m) ==
  /\ replies' = replies \o
       CASE m.kind = "diff" -> <<SidesOf(m)>>
         [] m.kind = "open" -> <<[kind |-> "opened", path |-> m.path], SnapshotOf(m.path)>>
         [] m.kind = "poll" -> IF m.rev = buffer[m.path].rev THEN <<>> ELSE <<SnapshotOf(m.path)>>
  /\ UNCHANGED <<disk, buffer>>
GitFails(m) ==
  /\ m.kind = "diff" /\ "fail" \in Ops
  /\ replies' = Append(replies, Refused(m)) /\ UNCHANGED <<disk, buffer>>

\* The daemon serves the requests of a socket in order.
Serve ==
  /\ wire # <<>> /\ wire' = Tail(wire)
  /\ LET m == Head(wire) IN
     \/ Edit(m) \/ SaveBuffer(m) \/ Refuse(m) \/ GitFails(m)
     \/ m.kind \in {"diff", "open", "poll"} /\ Answer(m)
  /\ UNCHANGED <<tabs, preview, saving, known, inputs>>

\* Another window, or the reload of a clean buffer from the disk.
Changes(p) ==
  /\ Input /\ "others" \in Ops
  /\ \E t \in Texts \ {buffer[p].text} : buffer' = [buffer EXCEPT ![p] = [text |-> t, rev |-> @.rev + 1]]
  /\ UNCHANGED <<disk, tabs, preview, saving, known, wire, replies>>

-----------------------------------------------------------------------------
(* The window receives.                                                      *)

\* The connection task notes the revision of each answer.
Noted(m) ==
  IF m.kind = "opened" THEN [known EXCEPT ![m.path] = 0]
  ELSE IF m.kind \in {"snapshot", "changed", "saved"} THEN [known EXCEPT ![m.path] = m.rev]
  ELSE known

\* The tick of the connection task, one poll at a time.
Poll(p) ==
  /\ tabs[p] # None /\ tabs[p].buffer /\ known[p] # buffer[p].rev
  /\ wire = <<>> /\ replies = <<>>
  /\ Send(<<[kind |-> "poll", path |-> p, rev |-> known[p]]>>)
  /\ UNCHANGED <<disk, buffer, tabs, preview, saving, known, replies, inputs>>

\* The handlers of GitDiff, EditorOpened, BufferSnapshot, BufferChanged and BufferSaved for a diff tab.
InTab(t, m) ==
  CASE m.kind = "sides" -> ShowSides(t, m.old, m.new)
    [] m.kind = "opened" -> [t EXCEPT !.buffer = TRUE]
    [] m.kind = "snapshot" -> Snapshot(t, m.rev, m.text)
    [] m.kind = "changed" -> [t EXCEPT !.rev = m.rev, !.seen = m.text]
    [] m.kind = "saved" ->
         MarkSaved(t, IF saving[m.path] # None /\ saving[m.path].id = m.id
                      THEN saving[m.path].text ELSE None, m)

\* A tab is told from its buffer, by its path until it has one.
Concerns(m) ==
  /\ m.kind # "error" /\ tabs[m.path] # None
  /\ m.kind \in {"sides", "opened"} \/ tabs[m.path].buffer

\* An error of a buffer gives up all saves; one of git none.
GiveUpNone(m) == saving   \* Mutant
GiveUp(m) == IF m.of \in {"edit", "save"} THEN [p \in Paths |-> None] ELSE saving

\* diff_save_snapshots: the entry goes with its answer, if there is a tab to take it.
StillSaving(m) ==
  IF m.kind = "error" THEN GiveUp(m)
  ELSE IF m.kind = "saved" /\ Concerns(m) /\ saving[m.path] # None /\ saving[m.path].id = m.id
  THEN [saving EXCEPT ![m.path] = None] ELSE saving

Receive ==
  LET m == Head(replies) IN
  /\ replies # <<>> /\ replies' = Tail(replies)
  /\ known' = Noted(m)
  /\ tabs' = IF Concerns(m) THEN [tabs EXCEPT ![m.path] = InTab(@, m)] ELSE tabs
  /\ saving' = StillSaving(m)
  /\ UNCHANGED <<disk, buffer, preview, wire, inputs>>

Next ==
  \/ \E p \in Paths, pin \in BOOLEAN : OpenDiff(p, pin) \/ ShowDiff(p, pin)
  \/ \E p \in Paths : PinDiff(p) \/ Type(p) \/ Save(p) \/ CloseTab(p) \/ Changes(p) \/ Poll(p)
  \/ Serve \/ Receive

Spec == Init /\ [][Next]_vars

\* The connection is served and read; the tick comes.
Fairness == WF_vars(Serve) /\ WF_vars(Receive) /\ \A p \in Paths : WF_vars(Poll(p))
FairSpec == Spec /\ Fairness

-----------------------------------------------------------------------------
(* Properties.                                                               *)

\* The two columns of a tab, and how many of its rows are alike.
Column(rows, side) == SelectSeq([n \in DOMAIN rows |-> rows[n][side]], LAMBDA l : l # None)
Alike(rows) == Cardinality({n \in DOMAIN rows : rows[n].kind = "same"})
\* Reference: the length of the longest sequence that is in both texts.
Subsequences(s) ==
  {[n \in 1..Cardinality(K) |-> s[CHOOSE k \in K : Cardinality({l \in K : l <= k}) = n]] : K \in SUBSET DOMAIN s}
LongestCommon(s, t) ==
  CHOOSE n \in {Len(c) : c \in Subsequences(s) \cap Subsequences(t)} :
    \A c \in Subsequences(s) \cap Subsequences(t) : Len(c) <= n

\* A tab shows all lines of HEAD on its left and all lines of its editor on its right, with
\* as many of them beside each other as can be, once all is delivered: through typing,
\* snapshots and refused saves (split_diff_lines and everybody who calls it).
RowsShowBoth ==
  \A p \in Paths : tabs[p] # None /\ tabs[p].ready /\ wire = <<>> /\ replies = <<>> =>
    LET t == tabs[p] IN
    /\ Column(t.rows, "left") = t.original /\ Column(t.rows, "right") = t.text
    /\ Alike(t.rows) = LongestCommon(t.original, t.text)

\* A tab that is not marked as edited shows what the daemon has, once all is delivered:
\* whatever was typed, saved, formatted, refused or changed elsewhere on the way (mark_saved).
CleanIsCurrent ==
  \A p \in Paths :
    tabs[p] # None /\ tabs[p].ready /\ ~tabs[p].dirty /\ wire = <<>> /\ replies = <<>> /\ known[p] = buffer[p].rev
      => tabs[p].text = buffer[p].text

\* A save ends, and the next can be sent (diff_save_snapshots).
SavesEnd == \A p \in Paths : saving[p] # None ~> saving[p] = None

\* A save replaces nothing but the text that the tab has shown (edit_buffer, apply_snapshot).
NothingUnseenReplaced ==
  [][\A p \in Paths : wire # <<>> /\ Head(wire).kind = "edit" /\ Head(wire).path = p
       /\ buffer'[p] # buffer[p] /\ wire' = Tail(wire) => Head(wire).over = buffer[p].text]_vars

\* A diff tab tells the truth: of both texts, and of what is saved.
ShowsTheTruth == RowsShowBoth /\ CleanIsCurrent
=============================================================================
