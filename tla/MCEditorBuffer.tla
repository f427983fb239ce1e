--------------------------- MODULE MCEditorBuffer ---------------------------
(***************************************************************************)
(* EditorBuffer for TLC.  The runs differ in what the environment does.    *)
(***************************************************************************)
EXTENDS EditorBuffer

\* Other programs do everything to the file while the tab is used.
DiskOps == {"edit", "undo", "save", "resolve", "write", "delete", "binary", "aside", "unreadable"}

\* The daemon ends and comes back; files are replaced, never removed.
CrashOps == {"edit", "save", "format", "close", "resolve", "write", "crash"}
=============================================================================
