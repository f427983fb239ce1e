------------------------------ MODULE GitPanel ------------------------------
(* GitPanel: Source Control of a window (gui/workspace.rs), and the git       *)
(* requests of the daemon (server.rs, git.rs), which run one git command or a  *)
(* few of them in the directory that the request names.                      *)
(*                                                                           *)
(* One file of each repository: its text at HEAD, in the index and in the     *)
(* work tree, 0 where there is none. The git commands are those of git.       *)
EXTENDS Naturals, Sequences

CONSTANTS
  Repos,       \* directories that are repositories
  MaxTexts,    \* bound: texts of a file
  MaxInputs,   \* bound: what the user and others do
  Ops,         \* which of the optional events happen, see OpNames
  None

\* Git commands that fail ("fail"), or are stopped when they have done part of their work
\* ("partial"); changes by other programs ("outside"); a connection that is lost ("drop");
\* panels that follow the directory of a terminal ("follow"); a workspace that is closed
\* ("close").
OpNames == {"fail", "partial", "outside", "drop", "follow", "close"}

Texts == 0..MaxTexts
Tree == [head : Texts, index : Texts, work : Texts]

VARIABLES
  tree,      \* the repositories
  context,   \* git_context_dir: the directory the panel is about, or None
  online,    \* whether there is a connection
  shown,     \* what the panel shows: of which repository, with its letters, or None
  asked,     \* git_status_req: the status awaited, or None
  busy,      \* git_busy: an operation is under way
  wire,      \* requests on their way to the daemon
  replies,   \* answers on their way to the window
  noticed,   \* history: whether nothing has changed the repositories behind the panel's back
  inputs

vars == <<tree, context, online, shown, asked, busy, wire, replies, noticed, inputs>>
here == <<context, online, shown, asked, busy>>

-----------------------------------------------------------------------------
(* git status.                                                               *)

\* The two letters of a line of porcelain: the index against HEAD, the work tree against the index.
Letter(from, to) ==
  IF from = to THEN " " ELSE IF from = 0 THEN "A" ELSE IF to = 0 THEN "D" ELSE "M"
Untracked(t) == t.head = 0 /\ t.index = 0 /\ t.work # 0
Xy(t) ==
  IF Untracked(t) THEN [x |-> "?", y |-> "?"]
  ELSE [x |-> Letter(t.head, t.index), y |-> Letter(t.index, t.work)]

\* status and parse_porcelain_z: the file, if it is changed; a directory that is no repository has none.
Clean == [x |-> " ", y |-> " "]
StatusOf(dir) ==
  IF dir = None THEN [repo |-> None, xy |-> Clean] ELSE [repo |-> dir, xy |-> Xy(tree[dir])]

-----------------------------------------------------------------------------
(* The panel.                                                                *)

Init ==
  /\ \E text \in {0, 1} :
       tree = [r \in Repos |-> [head |-> text, index |-> text, work |-> 1]]
  /\ context = CHOOSE r \in Repos : TRUE
  /\ online = TRUE /\ shown = None /\ asked = None /\ busy = FALSE
  /\ wire = <<>> /\ replies = <<>> /\ noticed = TRUE /\ inputs = 0

Input == inputs < MaxInputs /\ inputs' = inputs + 1

\* refresh_git: the request id of the last one is the one that counts.
Status(dir, id) == [kind |-> "status", dir |-> dir, id |-> id]
NewId == CHOOSE n \in 1..(Len(wire) + Len(replies) + 2) :
  /\ n # asked
  /\ \A i \in DOMAIN wire : wire[i].kind = "status" => wire[i].id # n
  /\ \A i \in DOMAIN replies : replies[i].kind = "status" => replies[i].id # n
RefreshGit(dir) ==
  IF online THEN asked' = NewId /\ wire' = Append(wire, Status(dir, NewId))
  ELSE UNCHANGED <<asked, wire>>

\* The button of the panel, and other actions of the user that end with it.
Refresh ==
  /\ Input /\ RefreshGit(context)
  /\ UNCHANGED <<tree, context, online, shown, busy, replies, noticed>>

\* git_file_row: in which sections the file is listed, with which buttons.
Staged(xy) == xy.x \notin {" ", "?"}
Unstaged(xy) == xy.y # " " \/ xy.x = "?"

\* git_restore and git_stage of the file that is listed; git_commit, git_pull and git_push of a repository.
Commands == {"restore", "stage", "unstage", "commit", "pull", "push"}
MayAsk(c) ==
  /\ shown # None /\ shown.repo # None
  /\ c = "unstage" => Staged(shown.xy)
  /\ c \in {"restore", "stage"} => Unstaged(shown.xy)
Ask(c) ==
  /\ Input /\ online /\ ~busy /\ MayAsk(c)
  /\ busy' = TRUE
  /\ wire' = Append(wire, [kind |-> c, dir |-> context, listed |-> shown.repo])
  /\ UNCHANGED <<tree, context, online, shown, asked, replies, noticed>>

\* clear_git_view.
ClearedNot == shown   \* Mutant
Cleared == None

\* The location of the workspace is changed, or another one is attached: the view is cleared.
Move(dir) ==
  /\ Input /\ dir # context /\ online
  /\ context' = dir /\ shown' = Cleared /\ RefreshGit(dir)
  /\ UNCHANGED <<tree, online, busy, replies, noticed>>

\* follow_directory and set_panel_directory: the view stays until the answer.
Follow(dir) ==
  /\ Input /\ "follow" \in Ops /\ dir # context
  /\ context' = dir /\ RefreshGit(dir)
  /\ UNCHANGED <<tree, online, shown, busy, replies, noticed>>

\* The workspace shown is closed, and there is no other: release_dock, clear_git_view.
CloseWorkspace ==
  /\ Input /\ "close" \in Ops /\ context # None
  /\ context' = None /\ shown' = Cleared
  /\ UNCHANGED <<tree, online, asked, busy, wire, replies, noticed>>

\* The connection is lost, with what was on its way.
Drop ==
  /\ Input /\ "drop" \in Ops /\ online
  /\ online' = FALSE /\ wire' = <<>> /\ replies' = <<>>
  /\ UNCHANGED <<tree, context, shown, asked, busy, noticed>>

\* reconnect, and the attachment of a workspace.
Reconnect ==
  /\ ~online /\ online' = TRUE
  /\ busy' = FALSE /\ shown' = Cleared
  /\ \E dir \in Repos : context' = dir /\ asked' = 1 /\ wire' = <<Status(dir, 1)>>
  /\ UNCHANGED <<tree, replies, noticed, inputs>>

-----------------------------------------------------------------------------
(* The daemon.                                                               *)

\* restore, by the status of that moment: restore to HEAD, rm -f of what is added, clean -f of
\* what is untracked.
Restored(t) ==
  IF Untracked(t) THEN [t EXCEPT !.work = 0]
  ELSE IF Xy(t).x = "A" THEN [t EXCEPT !.index = 0, !.work = 0]
  ELSE [t EXCEPT !.index = t.head, !.work = t.head]

\* What a command leaves. A pull gets a text somebody else committed, if nothing is in its way.
After(c, t) ==
  CASE c = "restore" -> {Restored(t)}
    [] c = "stage" -> {[t EXCEPT !.index = t.work]}
    [] c = "unstage" -> {[t EXCEPT !.index = t.head]}
    [] c = "commit" -> IF t.index = t.head THEN {} ELSE {[t EXCEPT !.head = t.index]}
    [] c = "pull" -> IF Xy(t) = Clean THEN {[head |-> u, index |-> u, work |-> u] : u \in Texts} ELSE {}
    [] c = "push" -> {t}

\* git_status: a directory without a repository is an answer, too.
AnswerStatus(m) ==
  /\ m.kind = "status"
  /\ replies' = Append(replies, [kind |-> "status", id |-> m.id, status |-> StatusOf(m.dir)])
  /\ noticed' = IF m.dir = context THEN TRUE ELSE noticed
  /\ UNCHANGED tree

\* git_op: the commands run to their end.
Done(ok) == replies' = Append(replies, [kind |-> "done", ok |-> ok])
Run(m) ==
  /\ m.kind \in Commands /\ m.dir # None
  /\ \E t \in After(m.kind, tree[m.dir]) : tree' = [tree EXCEPT ![m.dir] = t]
  /\ Done(TRUE) /\ UNCHANGED noticed

\* A command that git refuses, or that cannot be run (git_err, git_dir).
Fail(m) ==
  /\ m.kind \in Commands
  /\ IF m.dir = None THEN TRUE ELSE "fail" \in Ops \/ After(m.kind, tree[m.dir]) = {}
  /\ Done(FALSE) \/ replies' = Append(replies, [kind |-> "error"])
  /\ UNCHANGED <<tree, noticed>>

\* One that is stopped by its timeout, or one of several that fails.
RunPartly(m) ==
  /\ m.kind \in Commands /\ "partial" \in Ops /\ m.dir # None
  /\ \E t \in After(m.kind, tree[m.dir]) : tree' = [tree EXCEPT ![m.dir] = t]
  /\ replies' = Append(replies, [kind |-> "error"]) /\ UNCHANGED noticed

Serve ==
  /\ wire # <<>> /\ wire' = Tail(wire)
  /\ AnswerStatus(Head(wire)) \/ Run(Head(wire)) \/ Fail(Head(wire)) \/ RunPartly(Head(wire))
  /\ UNCHANGED <<context, online, shown, asked, busy, inputs>>

\* Editors and other programs write the file, and the panel is not told.
Outside(r) ==
  /\ Input /\ "outside" \in Ops
  /\ \E u \in Texts \ {tree[r].work} : tree' = [tree EXCEPT ![r].work = u]
  /\ noticed' = IF r = context THEN FALSE ELSE noticed
  /\ UNCHANGED <<here, wire, replies>>

-----------------------------------------------------------------------------
(* The answers.                                                              *)

OnStatus(m) ==
  /\ m.kind = "status"
  /\ IF asked = m.id THEN asked' = None /\ shown' = m.status ELSE UNCHANGED <<asked, shown>>
  /\ UNCHANGED <<busy, wire>>

\* GitOp: an operation that succeeded is followed by a refresh.
OnDoneQuietly(m) ==   \* Mutant: without the refresh
  m.kind = "done" /\ busy' = FALSE /\ UNCHANGED <<asked, shown, wire>>

OnDone(m) ==
  /\ m.kind = "done" /\ busy' = FALSE
  /\ IF m.ok THEN RefreshGit(context) ELSE UNCHANGED <<asked, wire>>
  /\ UNCHANGED shown

\* git_failed, of whichever request.
OnErrorStill(m) ==   \* Mutant: only the status line tells
  m.kind = "error" /\ UNCHANGED <<busy, asked, shown, wire>>

OnError(m) == m.kind = "error" /\ busy' = FALSE /\ UNCHANGED <<asked, shown, wire>>

Receive ==
  /\ replies # <<>> /\ replies' = Tail(replies)
  /\ OnStatus(Head(replies)) \/ OnDone(Head(replies)) \/ OnError(Head(replies))
  /\ UNCHANGED <<tree, context, online, noticed, inputs>>

Next ==
  \/ Refresh \/ \E c \in Commands : Ask(c)
  \/ \E dir \in Repos : Move(dir) \/ Follow(dir) \/ Outside(dir)
  \/ CloseWorkspace \/ Drop \/ Reconnect \/ Serve \/ Receive

Spec == Init /\ [][Next]_vars

\* The connection is served and read.
Fairness == WF_vars(Serve) /\ WF_vars(Receive)
FairSpec == Spec /\ Fairness

-----------------------------------------------------------------------------
(* Properties.                                                               *)

\* Once all is delivered, the panel shows what git says of the directory it is about, but for
\* what other programs did since it asked (refresh_git after every operation, git_status_req).
ShownIsCurrent ==
  online /\ wire = <<>> /\ replies = <<>> /\ shown # None /\ noticed => shown = StatusOf(context)

\* An operation is carried out in the repository whose changes the user was looking at when
\* they asked for it: a file reverted is the file that was listed.
RunsWhereListed ==
  \A i \in DOMAIN wire : wire[i].kind \in Commands => wire[i].dir = wire[i].listed

\* An operation that was asked for ends, and another can be asked for (git_busy).
BusyEnds == busy ~> (~busy \/ ~online)

\* What is listed is what git says, and what is done is done to what was listed.
ListedIsMeant == ShownIsCurrent /\ RunsWhereListed
=============================================================================
