------------------------------ MODULE FsWatch -------------------------------
(* FsWatch: the watch a socket asks the daemon for (fs_watch.rs, server.rs).  *)
(* A blocking task walks the tree, watches each folder on its own and hands   *)
(* the watcher to the callback, which follows folders that appear later and   *)
(* tells the socket what changed.  Programs make and remove folders at any    *)
(* time.  A folder is its path; what is in it are the folders below it.       *)
EXTENDS Naturals, Sequences

CONSTANTS
  Paths,      \* the folders there may be, the watched root among them
  Root,       \* FsWatch.path
  Ignored,    \* WATCH_IGNORE_DIRS
  Recursive,  \* FsWatch.recursive
  MaxInputs,  \* bound: what programs and the socket do
  None

WatchAssumption ==
  /\ Paths \subseteq Seq(STRING) /\ Root \in Paths
  /\ \A p \in Paths \ {Root} : p # <<>>

VARIABLES
  disk,     \* the folders that exist
  task,     \* the blocking task: what it has yet to read and to watch
  watches,  \* the folders the kernel watches
  shared,   \* whether the callback finds the watcher
  entries,  \* FsWatchStore: whether the watch is registered
  events,   \* what the kernel reports
  heard,    \* the event the callback is at
  out,      \* messages on their way to the socket
  view,     \* what the socket's client saw in each folder when it last looked
  inputs

vars == <<disk, task, watches, shared, entries, events, heard, out, view, inputs>>

-----------------------------------------------------------------------------
(* Paths.                                                                    *)

Above(p) == SubSeq(p, 1, Len(p) - 1)
Name(p) == p[Len(p)]

IsIgnored(name) == name \in Ignored

\* path_is_noisy: the whole path counts, that of the root too.
Noisy(p) == \E i \in DOMAIN p : IsIgnored(p[i])

Below(p, folders) == {q \in folders : q # Root /\ Above(q) = p}

\* What a client sees in a folder, apart from what it is never told about.
Listing(p, folders) == {q \in Below(p, folders) : ~Noisy(q)}

Idle == [step |-> "idle", stack |-> {}, dirs |-> {}]

Init ==
  /\ disk \in SUBSET Paths /\ Root \in disk /\ \A p \in disk \ {Root} : Above(p) \in disk
  /\ task = Idle /\ watches = {} /\ shared = FALSE /\ entries = FALSE
  /\ events = <<>> /\ heard = None /\ out = <<>> /\ view = None /\ inputs = 0

Input == inputs < MaxInputs /\ inputs' = inputs + 1

Started == [type |-> "started"]
Changed(p) == [type |-> "changed", path |-> p]

-----------------------------------------------------------------------------
(* Other programs.                                                           *)

\* The kernel reports what changes in a folder it watches.
Reports(p, made) ==
  events' = IF Above(p) \in watches THEN Append(events, [path |-> p, made |-> made]) ELSE events

MakeDir(p) ==
  /\ Input /\ p \notin disk /\ Above(p) \in disk
  /\ disk' = disk \cup {p} /\ Reports(p, TRUE)
  /\ UNCHANGED <<task, watches, shared, entries, heard, out, view>>

\* The watch goes with the folder.
RemoveDir(p) ==
  /\ Input /\ p \in disk /\ p # Root /\ Below(p, disk) = {}
  /\ disk' = disk \ {p} /\ watches' = watches \ {p} /\ Reports(p, FALSE)
  /\ UNCHANGED <<task, shared, entries, heard, out, view>>

-----------------------------------------------------------------------------
(* FsWatchStore::watch, in the blocking task.                                *)

\* FsWatch: the request is answered by the task.
Request ==
  /\ Input /\ task.step = "idle"
  /\ task' = IF Recursive THEN [step |-> "walk", stack |-> {Root}, dirs |-> {}]
             ELSE [step |-> "watch", stack |-> {}, dirs |-> {Root}]
  /\ UNCHANGED <<disk, watches, shared, entries, events, heard, out, view>>

\* collect_watch_dirs: one folder is read, or has gone; those with an ignored name are skipped.
Walk(p) ==
  /\ task.step = "walk" /\ p \in task.stack
  /\ LET below == {q \in Below(p, disk) : ~IsIgnored(Name(q))}
         stack == (task.stack \ {p}) \cup below
     IN task' = [step |-> IF stack = {} THEN "watch" ELSE "walk", stack |-> stack,
                 dirs |-> task.dirs \cup {p}]
  /\ UNCHANGED <<disk, watches, shared, entries, events, heard, out, view, inputs>>

\* watcher.watch of one folder, which is skipped when it has gone.
Install(p) ==
  /\ task.step = "watch" /\ p \in task.dirs
  /\ task' = [task EXCEPT !.dirs = @ \ {p}]
  /\ watches' = IF p \in disk THEN watches \cup {p} ELSE watches
  /\ UNCHANGED <<disk, shared, entries, events, heard, out, view, inputs>>

\* The callback gets the watcher, and then the socket its answer.
Start ==
  /\ task.step = "watch" /\ task.dirs = {}
  /\ task' = [task EXCEPT !.step = "done"]
  /\ shared' = TRUE /\ entries' = TRUE /\ out' = Append(out, Started)
  /\ UNCHANGED <<disk, watches, events, heard, view, inputs>>

\* unwatch: the entry goes.  The callback owns the watcher it is called by, which therefore
\* stays, and so do its messages.
Unwatch ==
  /\ Input /\ entries /\ entries' = FALSE
  /\ UNCHANGED <<disk, task, watches, shared, events, heard, out, view>>

-----------------------------------------------------------------------------
(* The callback.                                                             *)

\* maybe_watch_new_dirs: a folder that was made is watched first, if it is still there.
Follow ==
  /\ heard = None /\ events # <<>>
  /\ heard' = Head(events) /\ events' = Tail(events)
  /\ LET p == Head(events).path IN
     watches' = IF Recursive /\ shared /\ Head(events).made /\ ~Noisy(p) /\ p \in disk
                THEN watches \cup {p} ELSE watches
  /\ UNCHANGED <<disk, task, shared, entries, out, view, inputs>>

\* Then the socket is told, unless the path is noisy.
Tell ==
  /\ heard # None /\ heard' = None
  /\ out' = IF Noisy(heard.path) THEN out
            ELSE Append(out, Changed(heard.path))
  /\ UNCHANGED <<disk, task, watches, shared, entries, events, view, inputs>>

-----------------------------------------------------------------------------
(* The client: it looks at everything when the watch has started, and again  *)
(* at what it is told has changed and at the folder that is in.              *)

Look ==
  /\ out # <<>> /\ out' = Tail(out)
  /\ LET m == Head(out) IN
     view' = IF m.type = "started" THEN [p \in Paths |-> Listing(p, disk)]
             ELSE IF view = None THEN None
             ELSE [p \in Paths |-> IF p = m.path \/ p = Above(m.path) THEN Listing(p, disk)
                                   ELSE view[p]]
  /\ UNCHANGED <<disk, task, watches, shared, entries, events, heard, inputs>>

Next ==
  \/ \E p \in Paths \ {Root} : MakeDir(p) \/ RemoveDir(p)
  \/ Request \/ Unwatch \/ Start \/ Follow \/ Tell \/ Look
  \/ \E p \in Paths : Walk(p) \/ Install(p)

Spec == Init /\ [][Next]_vars

-----------------------------------------------------------------------------
(* Properties.                                                               *)

\* A change in a folder, or the making of that folder, that the client is still to be told of.
Concerns(path, p) == ~Noisy(path) /\ (p = path \/ p = Above(path))
OnItsWay(p) ==
  \/ \E i \in DOMAIN events : Concerns(events[i].path, p)
  \/ heard # None /\ Concerns(heard.path, p)
  \/ \E i \in DOMAIN out : out[i].type = "started" \/ Concerns(out[i].path, p)

\* Once the watch has started, a client that looks again whenever it is told to has seen what
\* is in a watched folder, or is about to be told: a folder that appears later is watched
\* before it is announced, so that what is made in it before that is seen when the client
\* looks, and what is made after that is announced (maybe_watch_new_dirs, the callback).
WatchedIsKnown ==
  view # None =>
    \A p \in watches : ~Noisy(p) => view[p] = Listing(p, disk) \/ OnItsWay(p)
=============================================================================
