--------------------------- MODULE ProjectSearch ---------------------------
(* Search in Workspace: the panel of a window (gui/project_search.rs), the   *)
(* task that waits for the editors before it sends (gui/workspace.rs), the   *)
(* session of the socket with its generations (project_session.rs), the scan *)
(* (project_search.rs) and the replacement in the editor worker, call by     *)
(* call while other programs write.                                          *)
(*                                                                           *)
(* A text is a number: Edited(t) is t with the selected matches replaced,    *)
(* all others come from a counter.  Every text matches, with what a scan     *)
(* leaves out (globs, sizes, limits) covered by a scan that ends early.      *)
(* Request ids are numbers; as the client never repeats one, an id also      *)
(* stands for the generation that travels with its frames.                   *)
EXTENDS Integers, Sequences, FiniteSets, SequencesExt

CONSTANTS
  Files,        \* the files of the workspace
  Criteria,     \* what query, replacement, globs and options can be
  Tabs,         \* the files that may have a tab at first
  Recovered,    \* the files of which an earlier daemon left a draft
  Channel,      \* capacity of the channel between a scan and its socket
  MaxTexts,     \* bound: texts typed or written by others
  MaxRequests,  \* bound: searches and replacements asked for
  MaxFields,    \* bound: changes of the criteria, panels opened, leaves
  Ops,          \* which of the optional events happen
  None

VARIABLES
  gui,          \* panel, send task, tabs and their unflushed typing, counters
  toDaemon, toGui,   \* the two directions of the socket
  current,      \* ProjectSession.current
  cancelled,    \* the generations whose flag is set
  tasks,        \* the spawned searches that have not ended
  out,          \* the channel of the socket: project_rx
  disk, buffer, \* the text of each file, and its tracked buffer
  work,         \* the replacement the socket's loop is in
  clock         \* the last new text

vars == <<gui, toDaemon, toGui, current, cancelled, tasks, out, disk, buffer, work, clock>>
host == <<current, cancelled, tasks, out, work>>
files == <<disk, buffer, clock>>

Edited(t) == t + 100
IsEdited(t) == t >= 100
Text(t) == [text |-> t, rev |-> 0, dirty |-> FALSE]
ChangedTo(b, t) == [text |-> t, rev |-> b.rev + 1, dirty |-> TRUE]

NewPanel(c) == [fields |-> c, request |-> None, replace |-> None, running |-> FALSE,
                complete |-> FALSE, results |-> {}]

Init ==
  /\ \E open \in SUBSET Tabs :
       gui = [panel |-> NewPanel(CHOOSE c \in Criteria : TRUE), send |-> None, tabs |-> open, typed |-> {}, next |-> 1, turns |-> 0]
  /\ toDaemon = <<>> /\ toGui = <<>>
  /\ current = None /\ cancelled = {} /\ tasks = <<>> /\ out = <<>> /\ work = None
  /\ clock = 1
  /\ disk = [f \in Files |-> 0]
  /\ buffer = [f \in Files |-> IF f \in gui.tabs THEN Text(0) ELSE None]

-----------------------------------------------------------------------------
(* The panel and its window.                                                 *)

panel == gui.panel
CanApply == panel.complete /\ panel.replace = None
Found == {r.file : r \in panel.results}
Frame(t, i) == [type |-> t, id |-> i]
Failed(p) == [p EXCEPT !.running = FALSE, !.complete = FALSE, !.request = None, !.replace = None]

\* send_project_after_flush: a new task replaces the one that waits; dirty
\* diff views refuse it at once.
Asked(p, frame) ==
  {[gui EXCEPT !.panel = p, !.send = frame, !.next = @ + 1]}
    \cup IF "diff" \in Ops THEN {[gui EXCEPT !.panel = Failed(p), !.next = @ + 1]} ELSE {}

Ahead == Len(toDaemon) < 2     \* bound: how far the user is ahead of the daemon

BeginSearch ==
  /\ Ahead /\ panel # None /\ ~panel.running /\ gui.next <= MaxRequests
  /\ "hasty" \in Ops \/ gui.send = None
  /\ gui' \in Asked([panel EXCEPT !.request = gui.next, !.results = {}, !.running = TRUE,
                                  !.complete = FALSE],
                    Frame("search", gui.next) @@ [for |-> panel.fields])
  /\ UNCHANGED <<toDaemon, toGui, host, files>>

\* The user selects among what is shown (toggle_match, toggle_file) and applies.
Apply ==
  /\ Ahead /\ panel # None /\ CanApply /\ panel.request # None /\ gui.next <= MaxRequests
  /\ \E selected \in SUBSET Found \ {{}} :
       gui' \in Asked([panel EXCEPT !.replace = gui.next],
                     Frame("replace", gui.next)
                       @@ [search |-> panel.request, files |-> selected, shown |-> panel.results])
  /\ UNCHANGED <<toDaemon, toGui, host, files>>

Stopped(p) == [p EXCEPT !.running = FALSE, !.complete = FALSE]
SendCancel(p) ==
  toDaemon' = IF p # None /\ p.request # None THEN Append(toDaemon, Frame("cancel", p.request))
              ELSE toDaemon

Cancel ==
  /\ Ahead /\ panel # None /\ panel.running /\ panel.request # None
  /\ SendCancel(panel)
  /\ gui' = [gui EXCEPT !.panel = Stopped(panel), !.send = None]
  /\ UNCHANGED <<toGui, host, files>>

Turn == gui.turns < MaxFields /\ Ahead

\* invalidate_preview, before a field or an option changes.
Change(c) ==
  /\ panel # None /\ Turn /\ c # panel.fields
  /\ IF panel.request = None
     THEN gui' = [gui EXCEPT !.panel.fields = c, !.turns = @ + 1]
     ELSE gui' = [gui EXCEPT !.panel = NewPanel(c), !.send = None, !.turns = @ + 1]
  /\ SendCancel(panel)
  /\ UNCHANGED <<toGui, host, files>>

\* on_search_project cancels the search of the panel it replaces.
OpenPanel(c) ==
  /\ Turn /\ SendCancel(panel)
  /\ gui' = [gui EXCEPT !.panel = NewPanel(c), !.send = None, !.turns = @ + 1]
  /\ UNCHANGED <<toGui, host, files>>

ClosePanel ==
  /\ Ahead /\ panel # None /\ SendCancel(panel)
  /\ gui' = [gui EXCEPT !.panel = None, !.send = None]
  /\ UNCHANGED <<toGui, host, files>>

\* A match is opened: the panel goes, the waiting task stays and finds no panel.
OpenMatch ==
  /\ panel # None /\ panel.results # {}
  /\ gui' = [gui EXCEPT !.panel = None]
  /\ UNCHANGED <<toDaemon, toGui, host, files>>

\* Another workspace, or another folder for this one.
Leave ==
  /\ Turn /\ gui' = [gui EXCEPT !.turns = @ + 1]
  /\ toDaemon' = Append(toDaemon, Frame("leave", 0))
  /\ UNCHANGED <<toGui, host, files>>

Send ==
  /\ gui.send # None /\ (panel # None => gui.typed = {})
  /\ gui' = [gui EXCEPT !.send = None]
  /\ toDaemon' = IF panel = None THEN toDaemon ELSE Append(toDaemon, gui.send)
  /\ UNCHANGED <<toGui, host, files>>

\* After fifty rounds of 100 ms some editor still is not flushed.
SendGivenUp ==
  /\ gui.send # None /\ panel # None /\ gui.typed # {}
  /\ gui' = [gui EXCEPT !.send = None, !.panel = Failed(panel)]
  /\ UNCHANGED <<toDaemon, toGui, host, files>>

\* Mutant: frames are taken whatever request they answer.
HandleMessageOfAny(p, m) ==
  CASE p = None -> p
    [] m.type = "file" -> [p EXCEPT !.results = @ \cup {m.result}]
    [] m.type = "done" -> [p EXCEPT !.running = FALSE, !.complete = m.ok]
    [] m.type = "replaced" -> [p EXCEPT !.replace = None, !.complete = FALSE]
    [] OTHER -> p

HandleMessage(p, m) ==
  CASE p = None -> p
    [] m.type = "file" /\ m.id = p.request -> [p EXCEPT !.results = @ \cup {m.result}]
    [] m.type = "done" /\ m.id = p.request -> [p EXCEPT !.running = FALSE, !.complete = m.ok]
    [] m.type = "replaced" /\ m.id = p.replace ->
         [p EXCEPT !.replace = None, !.complete = FALSE]
    [] OTHER -> p

Take ==
  /\ toGui # <<>> /\ toGui' = Tail(toGui)
  /\ gui' = IF Head(toGui).type = "left" THEN [gui EXCEPT !.panel = None, !.send = None]
            ELSE [gui EXCEPT !.panel = HandleMessage(panel, Head(toGui))]
  /\ UNCHANGED <<toDaemon, host, files>>

-----------------------------------------------------------------------------
(* Tabs, the worker's other work, and other programs.                        *)

WorkerFree == work # None => work.step = "next"
NewText == clock + Cardinality(gui.typed) < MaxTexts

Type(f) ==
  /\ f \in gui.tabs \ gui.typed /\ NewText
  /\ gui' = [gui EXCEPT !.typed = @ \cup {f}]
  /\ UNCHANGED <<toDaemon, toGui, host, files>>

Flush(f) ==
  /\ f \in gui.typed /\ WorkerFree
  /\ gui' = [gui EXCEPT !.typed = @ \ {f}]
  /\ clock' = clock + 1
  /\ buffer' = [buffer EXCEPT ![f] = ChangedTo(@, clock + 1)]
  /\ UNCHANGED <<toDaemon, toGui, host, disk>>

OpenTab(f) ==
  /\ f \notin gui.tabs /\ WorkerFree /\ "open" \in Ops
  /\ gui' = [gui EXCEPT !.tabs = @ \cup {f}]
  /\ buffer' = [buffer EXCEPT ![f] = IF @ = None THEN Text(disk[f]) ELSE @]
  /\ UNCHANGED <<toDaemon, toGui, host, disk, clock>>

\* The poll reloads a clean buffer.
Poll(f) ==
  /\ WorkerFree /\ buffer[f] # None /\ ~buffer[f].dirty /\ buffer[f].text # disk[f]
  /\ buffer' = [buffer EXCEPT ![f] = [@ EXCEPT !.text = disk[f], !.rev = @ + 1]]
  /\ UNCHANGED <<gui, toDaemon, toGui, host, disk, clock>>

Writing(f) == work # None /\ work.step = "write" /\ work.file = f

OutsideWrites(f) ==
  /\ "write" \in Ops /\ NewText /\ (Writing(f) => "overtake" \in Ops)
  /\ clock' = clock + 1
  /\ disk' = [disk EXCEPT ![f] = clock + 1]
  /\ UNCHANGED <<gui, toDaemon, toGui, host, buffer>>

-----------------------------------------------------------------------------
(* The session of the socket and the spawned searches.                       *)

Clear ==
  /\ current' = None
  /\ cancelled' = IF current = None THEN cancelled ELSE cancelled \cup {current.id}

Start(m) ==
  \/ /\ current' = [id |-> m.id, result |-> None]
     /\ cancelled' = IF current = None THEN cancelled ELSE cancelled \cup {current.id}
     /\ tasks' = (m.id :> [for |-> m.for, step |-> "snapshots", seen |-> <<>>, left |-> Files,
                           found |-> {}, ok |-> FALSE]) @@ tasks
     /\ UNCHANGED <<toGui, work>>
  \/ /\ "rootless" \in Ops          \* project_root refuses: an error without the id
     /\ toGui' = Append(toGui, Frame("error", 0))
     /\ UNCHANGED <<current, cancelled, tasks, work>>

CancelSearch(m) ==
  /\ IF current # None /\ current.id = m.id THEN Clear ELSE UNCHANGED <<current, cancelled>>
  /\ toGui' = Append(toGui, Frame("done", m.id) @@ [ok |-> FALSE])
  /\ UNCHANGED <<tasks, work>>

\* Mutant: a replacement whose search has expired is not answered.
StartReplaceOrDrop(m) ==
  /\ IF current # None /\ current.id = m.search /\ current.result # None
     THEN /\ work' = [id |-> m.id, left |-> m.files, result |-> current.result, shown |-> m.shown,
                      file |-> None, step |-> "next"]
          /\ Clear
     ELSE UNCHANGED <<work, current, cancelled>>
  /\ UNCHANGED <<toGui, tasks>>

\* replace takes the reviewed snapshot once and sets its flag.
StartReplace(m) ==
  /\ IF current # None /\ current.id = m.search /\ current.result # None
     THEN /\ work' = [id |-> m.id, left |-> m.files, result |-> current.result, shown |-> m.shown,
                      file |-> None, step |-> "next"]
          /\ UNCHANGED toGui /\ Clear
     ELSE /\ toGui' = Append(toGui, Frame("replaced", m.id))
          /\ UNCHANGED <<work, current, cancelled>>
  /\ UNCHANGED tasks

StartLeave ==
  /\ Clear
  /\ \E answer \in {"left"} \cup (Ops \cap {"error"}) : toGui' = Append(toGui, Frame(answer, 0))
  /\ UNCHANGED <<tasks, work>>

Receive ==
  /\ toDaemon # <<>> /\ work = None
  /\ toDaemon' = Tail(toDaemon)
  /\ LET m == Head(toDaemon) IN
       \/ m.type = "search" /\ Start(m)
       \/ m.type = "cancel" /\ CancelSearch(m)
       \/ m.type = "replace" /\ StartReplace(m)
       \/ m.type = "leave" /\ StartLeave
  /\ UNCHANGED <<gui, out, files>>

\* Frames of a cancelled generation, or of a search that is not the current one.
Dropped(m) == m.id \in cancelled \/ current = None \/ current.id # m.id

Forward ==
  /\ out # <<>> /\ work = None
  /\ out' = Tail(out)
  /\ toGui' = IF Dropped(Head(out)) THEN toGui ELSE Append(toGui, Head(out))
  /\ UNCHANGED <<gui, toDaemon, current, cancelled, tasks, work, files>>

\* project_snapshots: drafts are restored first, unless their source is open.
Snapshots(i) ==
  /\ tasks[i].step = "snapshots" /\ WorkerFree
  /\ buffer' = [f \in Files |-> IF buffer[f] = None /\ f \in Recovered
                                THEN ChangedTo(Text(0), 1) ELSE buffer[f]]
  /\ tasks' = [tasks EXCEPT ![i].step = "scan", ![i].seen = buffer']
  /\ UNCHANGED <<gui, toDaemon, toGui, current, cancelled, out, work, disk, clock>>

Match(i, f) ==
  LET open == tasks[i].seen[f]
  IN [file |-> f, for |-> tasks[i].for,
      rev |-> IF open = None THEN None ELSE open.rev,
      text |-> IF open = None THEN disk[f] ELSE open.text]

\* cache_and_emit: the snapshot is kept, its frame sent.
Scan(i, f) ==
  /\ tasks[i].step = "scan" /\ f \in tasks[i].left /\ i \notin cancelled
  /\ Len(out) < Channel
  /\ out' = Append(out, Frame("file", i) @@ [result |-> Match(i, f)])
  /\ tasks' = [tasks EXCEPT ![i].left = @ \ {f}, ![i].found = @ \cup {Match(i, f)}]
  /\ UNCHANGED <<gui, toDaemon, toGui, current, cancelled, work, files>>

\* The scan ends, at its end or at a limit.
EndScan(i) ==
  /\ tasks[i].step = "scan" /\ i \notin cancelled
  /\ tasks' = [tasks EXCEPT ![i].step = "done", ![i].ok = TRUE]
  /\ current' = IF current # None /\ current.id = i
                THEN [current EXCEPT !.result = tasks[i].found] ELSE current
  /\ UNCHANGED <<gui, toDaemon, toGui, cancelled, out, work, files>>

\* The editor worker does not answer, or the scan finds no root or no valid query.
SnapshotsFail(i) ==
  /\ "fail" \in Ops /\ tasks[i].step = "snapshots"
  /\ tasks' = [tasks EXCEPT ![i].step = "done"]
  /\ UNCHANGED <<gui, toDaemon, toGui, current, cancelled, out, work, files>>

ScanFails(i) ==
  /\ "fail" \in Ops /\ tasks[i].step = "scan"
  /\ tasks' = [tasks EXCEPT ![i].step = "done"]
  /\ UNCHANGED <<gui, toDaemon, toGui, current, cancelled, out, work, files>>

Without(i) == [j \in DOMAIN tasks \ {i} |-> tasks[j]]

\* A cancelled scan stops at the next entry; its last frame is never sent on.
Stop(i) ==
  /\ i \in cancelled
  /\ tasks' = Without(i)
  /\ UNCHANGED <<gui, toDaemon, toGui, current, cancelled, out, work, files>>

EndTask(i) ==
  /\ tasks[i].step = "done" /\ Len(out) < Channel
  /\ out' = Append(out, Frame("done", i) @@ [ok |-> tasks[i].ok])
  /\ tasks' = Without(i)
  /\ UNCHANGED <<gui, toDaemon, toGui, current, cancelled, work, files>>

-----------------------------------------------------------------------------
(* The replacement, one file after the other.                                *)

Snapshot(f) == CHOOSE s \in work.result : s.file = f
Next_(w) == [w EXCEPT !.left = @ \ {w.file}, !.file = None, !.step = "next"]
Step(s) == work' = [work EXCEPT !.step = s]
Skip == work' = Next_(work) /\ UNCHANGED files

\* Mutant: the revision of the searched buffer is not compared.
BufferStillOpen(s) == buffer[s.file] # None /\ s.rev # None

\* An open buffer must be the one that was searched, at the same revision.
BufferAsReviewed(s) == buffer[s.file] # None /\ s.rev # None /\ buffer[s.file].rev = s.rev
                         /\ buffer[s.file].text = s.text
\* A file that was not open must still not be, with the text on disk.
FileAsReviewed(s) == buffer[s.file] = None /\ s.rev = None /\ disk[s.file] = s.text

Replace(f) ==
  /\ work # None /\ work.step = "next" /\ f \in work.left
  /\ LET s == Snapshot(f)
         here == [work EXCEPT !.file = f]
     IN \/ /\ \E q \in work.result : q.file = f
           /\ BufferAsReviewed(s)
           /\ buffer' = [buffer EXCEPT ![f] = ChangedTo(@, Edited(s.text))]
           /\ work' = Next_(here)
           /\ UNCHANGED <<disk, clock>>
        \/ /\ \E q \in work.result : q.file = f
           /\ FileAsReviewed(s)
           /\ work' = [here EXCEPT !.step = "open"]
           /\ UNCHANGED files
        \/ /\ ~(\E q \in work.result : q.file = f /\ (BufferAsReviewed(q) \/ FileAsReviewed(q)))
           /\ work' = Next_(here)
           /\ UNCHANGED files
  /\ UNCHANGED <<gui, toDaemon, toGui, current, cancelled, tasks, out>>

\* open_buffer reads the file again; a buffer opened for nothing stays open.
OpenFile ==
  LET f == work.file IN
  /\ work # None /\ work.step = "open"
  /\ buffer' = [buffer EXCEPT ![f] = Text(disk[f])]
  /\ IF disk[f] = Snapshot(f).text THEN Step("edit") ELSE work' = Next_(work)
  /\ UNCHANGED <<gui, toDaemon, toGui, current, cancelled, tasks, out, disk, clock>>

EditFile ==
  LET f == work.file IN
  /\ work # None /\ work.step = "edit"
  /\ IF disk[f] = Snapshot(f).text
     THEN /\ buffer' = [buffer EXCEPT ![f] = ChangedTo(@, Edited(@.text))]
          /\ Step("save") /\ UNCHANGED <<disk, clock>>
     ELSE Skip
  /\ UNCHANGED <<gui, toDaemon, toGui, current, cancelled, tasks, out>>

\* save_buffer refuses when the file is not the one that was opened.
SaveFile ==
  /\ work # None /\ work.step = "save"
  /\ IF disk[work.file] = Snapshot(work.file).text THEN Step("write") /\ UNCHANGED files ELSE Skip
  /\ UNCHANGED <<gui, toDaemon, toGui, current, cancelled, tasks, out>>

WriteFile ==
  LET f == work.file IN
  /\ work # None /\ work.step = "write"
  /\ disk' = [disk EXCEPT ![f] = buffer[f].text]
  /\ buffer' = [buffer EXCEPT ![f] = None]
  /\ work' = Next_(work)
  /\ UNCHANGED <<gui, toDaemon, toGui, current, cancelled, tasks, out, clock>>

EndReplace ==
  /\ work # None /\ work.step = "next" /\ work.left = {}
  /\ toGui' = Append(toGui, Frame("replaced", work.id))
  /\ work' = None
  /\ UNCHANGED <<gui, toDaemon, current, cancelled, tasks, out, files>>

-----------------------------------------------------------------------------
Sender == Send \/ SendGivenUp
Search(i) == Snapshots(i) \/ (\E f \in Files : Scan(i, f)) \/ EndScan(i) \/ SnapshotsFail(i) \/ ScanFails(i)
               \/ Stop(i) \/ EndTask(i)
Searching == \E i \in DOMAIN tasks : Search(i)
Replacing == (\E f \in Files : Replace(f)) \/ OpenFile \/ EditFile \/ SaveFile \/ WriteFile \/ EndReplace

Next ==
  \/ BeginSearch \/ Apply \/ Cancel \/ ClosePanel \/ OpenMatch \/ Leave
  \/ \E c \in Criteria : Change(c) \/ OpenPanel(c)
  \/ \E f \in Files : Type(f) \/ Flush(f) \/ OpenTab(f) \/ Poll(f) \/ OutsideWrites(f)
  \/ Sender \/ Take \/ Receive \/ Forward \/ Searching \/ Replacing

Spec == Init /\ [][Next]_vars
Fairness == WF_vars(Sender) /\ WF_vars(Take) /\ WF_vars(Receive) /\ WF_vars(Forward)
              /\ WF_vars(Searching) /\ WF_vars(Replacing)
FairSpec == Spec /\ Fairness

-----------------------------------------------------------------------------
\* What can be applied was found with the criteria the fields show: results of
\* a search that was cancelled, replaced or invalidated never come into a review.
ReviewIsCurrent ==
  panel # None => (CanApply => \A r \in panel.results : r.for = panel.fields)

\* Whatever a replacement rewrites, a file on disk or a buffer, held the very
\* text that was shown for it when the user applied: not one typed, reloaded or
\* written by another program since.
Shown(f, t) == \E r \in work.shown : r.file = f /\ r.text = t
ReplacedAsReviewed ==
  [][\A f \in Files :
       /\ IsEdited(disk'[f]) /\ disk'[f] # disk[f] =>
            work # None /\ disk'[f] = Edited(disk[f]) /\ Shown(f, disk[f])
       /\ buffer[f] # None /\ buffer'[f] # None /\ buffer'[f].text # buffer[f].text
            /\ IsEdited(buffer'[f].text) /\ ~(buffer'[f].text = disk[f]) =>
            work # None /\ buffer'[f].text = Edited(buffer[f].text) /\ Shown(f, buffer[f].text)]_vars

\* A panel never searches, nor replaces, for ever: an answer, a refusal or the
\* end of the panel comes.
SearchEnds == (panel # None /\ panel.running) ~> (panel = None \/ ~panel.running)
ReplaceEnds == (panel # None /\ panel.replace # None) ~> (panel = None \/ panel.replace = None)
AnswersCome == SearchEnds /\ ReplaceEnds

\* What is offered is what the fields ask for, and what is replaced is what was offered.
Safety == []ReviewIsCurrent /\ ReplacedAsReviewed
=============================================================================
