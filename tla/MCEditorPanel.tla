--------------------------- MODULE MCEditorPanel ---------------------------
(***************************************************************************)
(* EditorPanel for TLC.  The runs differ in what the environment does; the *)
(* bounds (texts, inputs, ids) are in the .cfg files.                      *)
(***************************************************************************)
EXTENDS EditorPanel, TLC

\* Texts other than the empty one are alike.
Alike == Permutations(Text \ {EmptyText})

\* Other views and Fresh itself change the buffer; what can fail does:
\* checkpoints, saves, the socket, the daemon.
FaultyOps == OpNames \ {"reopen"}

\* The file is opened again while its tab is in use.
ReopenOps == {"type", "save", "formatter", "reopen", "rewrite", "resolve"}

\* For the disagreement with the documentation.
FormatterOps == {"type", "save", "formatter"}
=============================================================================
