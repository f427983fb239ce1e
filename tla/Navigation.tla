----------------------------- MODULE Navigation -----------------------------
(* Jumps of a window between the places of its editors (gui/navigation.rs,  *)
(* gui/finder.rs): to a file, to a symbol, along the history of             *)
(* navigation.rs in the client crate, and the line preview of the finder.   *)
(*                                                                          *)
(* A place is a file and an offset.  The tab, its view and its buffer are   *)
(* named by the file, so a tab opened anew is the same view; the workspace  *)
(* is one, since what is pending is dropped on a switch.  The daemon answers *)
(* in the order it is asked, so the answers are on the wire at once.        *)
EXTENDS Naturals, Sequences, SequencesExt

CONSTANTS
  Files,      \* the files that can be opened
  Offsets,    \* the places in each of them; 0 is where a new tab begins
  Capacity,   \* entries that a history keeps
  MaxSteps,   \* bound: what the user does
  Ops,        \* which of the optional events happen, see OpNames
  None

\* Opens that fail; commands before the last jump has arrived.
OpNames == {"fail", "late"}

VARIABLES
  caret,     \* of each tab, None without a tab
  aim,       \* navigation_offset or the pending line of a tab
  loaded,    \* the tabs that have had their first snapshot
  active,    \* the selected tab, or None
  history,   \* entries and index, 0 before the first
  pending,   \* navigation.pending: origin and offset of what was asked
  opened,    \* navigation.opened: the origin of a jump whose tab has no text yet
  wire,      \* events on their way to the window
  picker,    \* the symbol picker: its origin, and whether its targets are there
  finder,    \* the finder in line mode
  heading,   \* history: where the last navigation leads, and from where
  steps

tabs == <<caret, aim, loaded, active>>
jumps == <<pending, opened, wire>>
vars == <<tabs, history, jumps, picker, finder, heading, steps>>

NoHistory == [entries |-> <<>>, index |-> 0]
Place(f, o) == [path |-> f, at |-> o]
Closed == [f \in Files |-> None]
Going(to, from) == [to |-> to, from |-> from, symbol |-> FALSE]
Nowhere == Going(None, None)

Init ==
  /\ \E f \in Files : caret = [Closed EXCEPT ![f] = 0] /\ loaded = {f} /\ active = f
  /\ aim = Closed /\ opened = Closed
  /\ history = NoHistory /\ pending = {} /\ wire = <<>>
  /\ picker = None /\ finder = None /\ heading = Nowhere /\ steps = 0

Location == IF active = None THEN None ELSE Place(active, caret[active])

\* An act of the user.  Without "late" the user waits for what was asked before.
User == steps < MaxSteps /\ steps' = steps + 1
Patiently == "late" \in Ops \/ wire = <<>>

-----------------------------------------------------------------------------
(* NavigationHistory.                                                        *)
EnforceCapacity(s) == IF Len(s) > Capacity THEN SubSeq(s, Len(s) - Capacity + 1, Len(s)) ELSE s

RecordJump(h, origin, dest) ==
  LET upTo == Append(SubSeq(h.entries, 1, IF h.index = 0 THEN 0 ELSE h.index - 1), origin)
      all == EnforceCapacity(IF origin = dest THEN upTo ELSE Append(upTo, dest))
  IN  [entries |-> all, index |-> Len(all)]

\* Back and forward: the place that is left is saved, where it leads is not known yet.
CanMove(h, i) == h.index # 0 /\ i \in DOMAIN h.entries
MoveTo(h, i, current) == [entries |-> [h.entries EXCEPT ![h.index] = current], index |-> i]

-----------------------------------------------------------------------------
(* The window: tabs.                                                         *)

\* reveal_byte: at once, or with the first snapshot of the tab.
Reveal(f, o) ==
  IF f \in loaded
  THEN caret' = [caret EXCEPT ![f] = o] /\ aim' = [aim EXCEPT ![f] = None]
  ELSE aim' = [aim EXCEPT ![f] = o] /\ UNCHANGED caret

\* Mutant: a tab that is there already does not hear of the line.
BeginEditorTabAsIs(f, line) ==
  /\ caret' = [caret EXCEPT ![f] = IF @ = None THEN 0 ELSE @]
  /\ aim' = [aim EXCEPT ![f] = IF caret[f] = None THEN line ELSE @]

\* begin_editor_tab with note_reopen.
BeginEditorTab(f, line) ==
  /\ caret' = [caret EXCEPT ![f] = IF @ = None THEN 0 ELSE @]
  /\ aim' = [aim EXCEPT ![f] = line]

SelectTab(f) ==
  /\ User /\ finder = None /\ caret[f] # None /\ active # f /\ Patiently
  /\ active' = f /\ heading' = Nowhere
  /\ UNCHANGED <<caret, aim, loaded, history, jumps, picker, finder>>

MoveCaret(o) ==
  /\ User /\ finder = None /\ active \in loaded /\ caret[active] # o /\ Patiently
  /\ caret' = [caret EXCEPT ![active] = o] /\ heading' = Nowhere
  /\ UNCHANGED <<aim, loaded, active, history, jumps, picker, finder>>

CloseTab(f) ==
  /\ User /\ finder = None /\ caret[f] # None /\ Patiently
  /\ caret' = [caret EXCEPT ![f] = None] /\ aim' = [aim EXCEPT ![f] = None]
  /\ loaded' = loaded \ {f}
  /\ IF active # f THEN UNCHANGED active
     ELSE \E g \in {x \in Files : caret'[x] # None} \cup {None} :
            /\ g = None => \A x \in Files : caret'[x] = None
            /\ active' = g
  /\ heading' = Nowhere
  /\ UNCHANGED <<history, jumps, picker, finder>>

-----------------------------------------------------------------------------
(* What is asked of the daemon, and what comes of it.                        *)
Asked(going, offset, events) ==
  /\ pending' = pending \cup {[id |-> steps, origin |-> going.from, offset |-> offset]}
  /\ \/ wire' = wire \o events /\ heading' = going
     \/ /\ "fail" \in Ops /\ heading' = Nowhere
        /\ wire' = Append(wire, [type |-> "error", id |-> steps])
  /\ UNCHANGED opened

Opened(f, line) ==
  <<[type |-> "opened", id |-> steps, path |-> f, line |-> line], [type |-> "snapshot", path |-> f]>>

Located(f, o) == <<[type |-> "located", id |-> steps, path |-> f, offset |-> o]>>

\* open_file_location from the finder or a search result: by line, or by offset.
OpenFileLocation(f, line, offset) ==
  LET there == IF offset # None THEN offset ELSE line
  IN  Asked(Going(Place(f, there), Location), offset, Opened(f, line))

OpenMatch(f, o) ==
  /\ User /\ finder = None
  /\ OpenFileLocation(f, None, o)
  /\ UNCHANGED <<tabs, history, picker, finder>>

\* Mutant: the origin of the jump is where the window is when the file is there.
HistoryEditorOpenedHere(e, p) ==
  opened' = IF p.origin # None THEN [opened EXCEPT ![e.path] = Location] ELSE opened

\* history_editor_opened: whose jump the coming text completes.
HistoryEditorOpened(e, p) ==
  opened' = IF p.origin # None THEN [opened EXCEPT ![e.path] = p.origin] ELSE opened

\* EditorOpened: the tab, selected, and the offset if the jump has one.
ReceiveOpened(e) ==
  /\ e.type = "opened"
  /\ \E p \in pending :
       /\ p.id = e.id /\ pending' = pending \ {p}
       /\ IF p.offset # None
          THEN IF e.path \in loaded
               THEN caret' = [caret EXCEPT ![e.path] = p.offset] /\ aim' = [aim EXCEPT ![e.path] = None]
               ELSE BeginEditorTab(e.path, p.offset)
          ELSE BeginEditorTab(e.path, e.line)
       /\ HistoryEditorOpened(e, p)
  /\ active' = e.path
  /\ UNCHANGED <<loaded, history>>

\* BufferSnapshot: apply_snapshot, then record_opened_location; a closed tab takes none.
ReceiveSnapshot(e) ==
  /\ e.type = "snapshot"
  /\ IF caret[e.path] = None THEN UNCHANGED <<tabs, history, opened>>
     ELSE LET there == IF aim[e.path] = None THEN caret[e.path] ELSE aim[e.path]
          IN  /\ caret' = [caret EXCEPT ![e.path] = there]
              /\ aim' = [aim EXCEPT ![e.path] = None]
              /\ loaded' = loaded \cup {e.path} /\ active' = e.path
              /\ opened' = [opened EXCEPT ![e.path] = None]
              /\ history' = IF opened[e.path] = None THEN history
                            ELSE RecordJump(history, opened[e.path], Place(e.path, there))
  /\ UNCHANGED pending

\* LocationOpened: what was asked is no longer pending when EditorOpened came before.
ReceiveLocated(e) ==
  /\ e.type = "located"
  /\ IF \E p \in pending : p.id = e.id
     THEN \E p \in pending :
            /\ p.id = e.id /\ pending' = pending \ {p}
            /\ IF caret[e.path] = None THEN UNCHANGED <<caret, aim, history>>
               ELSE /\ Reveal(e.path, e.offset)
                    /\ history' = IF p.origin = None THEN history
                                  ELSE RecordJump(history, p.origin, Place(e.path, e.offset))
     ELSE UNCHANGED <<caret, aim, history, pending>>
  /\ UNCHANGED <<loaded, active, opened>>

\* navigation_open_error.
ReceiveError(e) ==
  /\ e.type = "error"
  /\ pending' = {p \in pending : p.id # e.id}
  /\ UNCHANGED <<tabs, history, opened>>

HandleEvent ==
  /\ wire # <<>> /\ wire' = Tail(wire)
  /\ \/ ReceiveOpened(Head(wire))
     \/ ReceiveSnapshot(Head(wire))
     \/ ReceiveLocated(Head(wire))
     \/ ReceiveError(Head(wire))
  /\ UNCHANGED <<picker, finder, heading, steps>>

-----------------------------------------------------------------------------
(* The symbol picker; its requests to the language servers are LspRequests'. *)
StartNavigation ==
  /\ User /\ finder = None /\ active \in loaded /\ Patiently
  /\ picker' = [origin |-> Location, listed |-> FALSE]
  /\ UNCHANGED <<tabs, history, jumps, finder, heading>>

\* The reply is taken when the editor is still selected, with its text and caret.
ReceiveTargets ==
  /\ picker # None /\ ~picker.listed
  /\ picker' = IF picker.origin = Location THEN [picker EXCEPT !.listed = TRUE] ELSE None
  /\ UNCHANGED <<tabs, history, jumps, finder, heading, steps>>

\* open_navigation_target, of one of the targets.
OpenNavigationTarget(f, o) ==
  /\ User /\ picker # None /\ picker.listed
  /\ IF picker.origin = Location
     THEN Asked([Going(Place(f, o), picker.origin) EXCEPT !.symbol = TRUE], None,
                Opened(f, None) \o Located(f, o))
     ELSE UNCHANGED <<jumps, heading>>
  /\ picker' = None
  /\ UNCHANGED <<tabs, history, finder>>

-----------------------------------------------------------------------------
(* Back and forward.                                                         *)

\* navigate_history: a tab is revealed at once, a file opened again.
NavigateHistory(i) ==
  LET to == history.entries[i]
  IN  /\ User /\ finder = None /\ active # None /\ Patiently /\ CanMove(history, i)
      /\ history' = MoveTo(history, i, Location)
      /\ picker' = None /\ UNCHANGED <<finder, loaded>>
      /\ IF caret[to.path] # None
         THEN /\ Reveal(to.path, to.at) /\ active' = to.path
              /\ heading' = Going(to, None) /\ UNCHANGED jumps
         ELSE Asked(Going(to, None), to.at, Opened(to.path, None)) /\ UNCHANGED <<caret, aim, active>>

Back == NavigateHistory(history.index - 1)
Forward == NavigateHistory(history.index + 1)

-----------------------------------------------------------------------------
(* The finder, of which only the line preview touches an editor.             *)
StartFinder ==
  /\ User /\ finder = None /\ Patiently
  /\ finder' = [origin |-> Location, preview |-> FALSE, valid |-> FALSE, before |-> caret]
  /\ picker' = None
  /\ UNCHANGED <<tabs, history, jumps, heading>>

\* finder_changed with ":line": the caret of the origin moves; a wrong line leaves it.
PreviewLine(o) ==
  /\ User /\ finder # None
  /\ IF finder.origin # None /\ finder.origin.path \in loaded /\ o # None
     THEN /\ caret' = [caret EXCEPT ![finder.origin.path] = o]
          /\ finder' = [finder EXCEPT !.preview = TRUE, !.valid = TRUE]
     ELSE finder' = [finder EXCEPT !.valid = FALSE] /\ UNCHANGED caret
  /\ UNCHANGED <<aim, loaded, active, history, jumps, picker, heading>>

Restored ==
  IF finder.preview /\ caret[finder.origin.path] # None
  THEN Reveal(finder.origin.path, finder.origin.at)
  ELSE UNCHANGED <<caret, aim>>

\* finder_changed with another mode: the origin is restored first.
LeaveLine ==
  /\ User /\ finder # None /\ finder.preview
  /\ Restored
  /\ finder' = [finder EXCEPT !.preview = FALSE, !.valid = FALSE]
  /\ UNCHANGED <<loaded, active, history, jumps, picker, heading>>

\* Mutant: a wrong line at the end keeps what was previewed.
CancelFinderValid ==
  /\ finder # None /\ finder' = None
  /\ IF finder.valid THEN Restored ELSE UNCHANGED <<caret, aim>>
  /\ UNCHANGED <<loaded, active, history, jumps, picker, heading, steps>>

\* cancel_finder.
CancelFinder ==
  /\ finder # None /\ finder' = None
  /\ Restored
  /\ UNCHANGED <<loaded, active, history, jumps, picker, heading, steps>>

\* confirm_finder of a line: the jump ends in the selected tab.
ConfirmLine ==
  /\ finder # None /\ finder.valid /\ Location # None /\ finder' = None
  /\ history' = RecordJump(history, finder.origin, Location)
  /\ heading' = Going(Location, finder.origin)
  /\ UNCHANGED <<tabs, jumps, picker, steps>>

\* confirm_finder of an open buffer, and of a file with a line or without.
ConfirmBuffer(f) ==
  /\ finder # None /\ ~finder.preview /\ caret[f] # None /\ finder' = None
  /\ active' = f
  /\ history' = IF finder.origin = None THEN history
                ELSE RecordJump(history, finder.origin, Place(f, caret[f]))
  /\ heading' = Going(Place(f, caret[f]), finder.origin)
  /\ UNCHANGED <<caret, aim, loaded, jumps, picker, steps>>

ConfirmFile(f, line) ==
  /\ User /\ finder # None /\ ~finder.preview /\ finder' = None
  /\ OpenFileLocation(f, line, None)
  /\ UNCHANGED <<tabs, history, picker>>

-----------------------------------------------------------------------------
Next ==
  \/ HandleEvent \/ StartNavigation \/ ReceiveTargets \/ Back \/ Forward
  \/ StartFinder \/ LeaveLine \/ CancelFinder \/ ConfirmLine
  \/ \E f \in Files : SelectTab(f) \/ CloseTab(f) \/ ConfirmBuffer(f)
  \/ \E o \in Offsets : MoveCaret(o)
  \/ \E o \in Offsets \cup {None} : PreviewLine(o)
  \/ \E f \in Files, o \in Offsets :
       OpenMatch(f, o) \/ OpenNavigationTarget(f, o) \/ ConfirmFile(f, o)

Spec == Init /\ [][Next]_vars

-----------------------------------------------------------------------------
(* Properties.                                                               *)
Arrived == wire = <<>> /\ finder = None /\ heading.to # None

\* When everything asked for has come, the window is where the last navigation led, tabs
\* closed, opened anew or crossed by other jumps in between (navigation.rs:391).
ArrivesAsAsked == Arrived /\ ~heading.symbol => Location = heading.to

\* The same of the jumps to a symbol (navigation.rs:361).
SymbolRevealed == Arrived /\ heading.symbol => Location = heading.to

\* The history ends with where the jump came to, after the place it was asked from: Back
\* returns to where the user was, however late the answer (navigation.rs:121, PendingLocation).
BackLeadsToOrigin ==
  Arrived /\ heading.from # None =>
    LET h == history
    IN  /\ h.index = Len(h.entries) /\ h.entries[h.index] = Location
        /\ heading.from # Location => h.entries[h.index - 1] = heading.from

\* A preview that is not confirmed leaves no trace, in whatever mode the finder ends
\* (finder.rs:52, 104).
Unpreviewed ==
  /\ finder # None /\ finder.preview
  /\ finder' = None \/ ~finder'.preview
  /\ <<wire, heading, history>>' = <<wire, heading, history>>
PreviewUndone == [][Unpreviewed => caret'[finder.origin.path] = finder.before[finder.origin.path]]_vars

\* Jumps arrive, lead back, and leave no trace when they are called off.
Safety == [](ArrivesAsAsked /\ BackLeadsToOrigin) /\ PreviewUndone
=============================================================================
