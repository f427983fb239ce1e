------------------------------ MODULE Explorer ------------------------------
(* The file browser of a window (gui/explorer.rs, gui/workspace.rs) and the  *)
(* file operations of the daemon (fs.rs, server.rs): the tree of listings a  *)
(* window keeps, what it asks for, and when it asks again.                   *)
(*                                                                           *)
(* Root holds the folders Subs; both stay.  A file is its identity; where it *)
(* is, and under which name, is the disk.  Requests are numbered by `asked`, *)
(* and the daemon answers one at a time, in order.                           *)
EXTENDS Naturals, Sequences, FiniteSets, SequencesExt, FiniteSetsExt

CONSTANTS
  Root, Subs,   \* the folders
  Files, Names, \* files, there or not yet, and what they can be called
  MaxAsked,     \* bound: requests of the window
  MaxInputs,    \* bound: what the user does
  Ops,          \* which of the optional events happen, see OpNames
  None

\* Operations and listings that fail; several under way when one of them does
\* ("crossed"); operations that fail after their first source ("partial"); another
\* window that uses the same folder ("race"); symbolic links among the files ("links").
OpNames == {"fail", "crossed", "partial", "race", "links"}

Dirs == {Root} \cup Subs

VARIABLES
  disk,      \* where each file is, None for one that does not exist
  link,      \* what a file that is a symbolic link points to, None for any other
  root, expanded, selection,   \* explorer_root, expanded_dirs
  cache,     \* explorer_cache: the names that are listed of each folder
  lists,     \* pending_lists: request and folder
  moves,     \* pending_fs: request, sources and destination
  renames,   \* pending_renames
  wire,      \* requests on their way to the daemon
  replies,   \* answers on their way back
  work,      \* the source the daemon is about to move, with the name it found
  deleted,   \* history: what has been deleted
  asked, inputs

tree == <<root, expanded, selection, cache, lists>>
ops == <<moves, renames>>
vars == <<disk, link, tree, ops, wire, replies, work, deleted, asked, inputs>>

In(d) == {f \in Files : disk[f] # None /\ disk[f].dir = d}
NamesIn(d) == {disk[f].name : f \in In(d)}
Under(d) == IF d = Root THEN Dirs ELSE {d}
At(p) == CHOOSE f \in Files : disk[f] = p
There(p) == \E f \in Files : disk[f] = p
Places == [dir : Dirs, name : Names]

\* resolve: the path a link leads to; of a link to nothing there is none.
Resolve(p) == IF There(p) /\ link[At(p)] # None THEN link[At(p)] ELSE p

User == inputs < MaxInputs /\ inputs' = inputs + 1

-----------------------------------------------------------------------------
(* Listings.                                                                 *)

\* What remains to be asked when the folders of a set are to be listed: send_dir_listing
\* does not ask twice.
Wanted(dirs, pending) == SetToSeq(dirs \ {l.dir : l \in pending})

Ask(dirs, pending) ==
  LET todo == Wanted(dirs, pending)
      new == [i \in DOMAIN todo |-> [id |-> asked + i, op |-> "list", arg |-> todo[i]]]
  IN  /\ lists' = pending \cup {[id |-> r.id, dir |-> r.arg] : r \in ToSet(new)}
      /\ wire' = wire \o new /\ asked' = asked + Len(todo)

\* relist: a folder and all that was listed under it is dropped, the folder asked for anew.
Relist(dirs) ==
  /\ cache' = [d \in Dirs |-> IF \E r \in dirs : d \in Under(r) THEN None ELSE cache[d]]
  /\ Ask(dirs, {l \in lists : l.dir \notin dirs})

\* switch to a workspace, or the start: the root and what was open the last time.
Init ==
  /\ \E d \in [Files -> [dir : Dirs, name : Names] \cup {None}] :
       /\ \A f, g \in Files : f # g /\ d[f] = d[g] => d[f] = None
       /\ disk = d
  /\ link \in [Files -> Places \cup {None}]
  /\ \A f \in Files : link[f] # None =>
       "links" \in Ops /\ \E g \in Files \ {f} : disk[g] = link[f] /\ link[g] = None
  /\ root = Root /\ selection = {}
  /\ expanded \in SUBSET Subs
  /\ cache = [d \in Dirs |-> None]
  /\ LET first == <<Root>> \o SetToSeq(expanded)
     IN  /\ lists = {[id |-> i, dir |-> first[i]] : i \in DOMAIN first}
         /\ wire = [i \in DOMAIN first |-> [id |-> i, op |-> "list", arg |-> first[i]]]
         /\ asked = Len(first)
  /\ moves = {} /\ renames = {} /\ replies = <<>> /\ work = None
  /\ deleted = {} /\ inputs = 0

\* A folder is opened, or clicked: it is listed when it is not known.
Expand(d) ==
  /\ User /\ root = Root /\ d \in Subs \ expanded
  /\ expanded' = expanded \cup {d}
  /\ IF cache[d] = None THEN Ask({d}, lists) ELSE UNCHANGED <<lists, wire, asked>>
  /\ UNCHANGED <<disk, link, root, selection, cache, ops, replies, work, deleted>>

Collapse(d) ==
  /\ User /\ d \in expanded
  /\ expanded' = expanded \ {d}
  /\ UNCHANGED <<disk, link, root, selection, cache, lists, ops, wire, replies, work, deleted, asked>>

Select(places) ==
  /\ User /\ selection # places
  /\ \A p \in places : cache[p.dir] # None /\ p.name \in cache[p.dir]
  /\ selection' = places
  /\ UNCHANGED <<disk, link, root, expanded, cache, lists, ops, wire, replies, work, deleted, asked>>

\* set_panel_directory: the terminal's folder is followed.
SetPanelDirectory(d) ==
  /\ User /\ d # root /\ asked < MaxAsked
  /\ root' = d /\ expanded' = {} /\ cache' = [x \in Dirs |-> None]
  /\ Ask({d}, {})
  /\ UNCHANGED <<disk, link, selection, ops, replies, work, deleted>>

\* refresh_explorer.
Refresh ==
  /\ User /\ asked < MaxAsked
  /\ Relist({root} \cup expanded)
  /\ UNCHANGED <<disk, link, root, expanded, selection, ops, replies, work, deleted>>

-----------------------------------------------------------------------------
(* What the user asks of the files.                                          *)
Sends(op, arg) ==
  /\ User /\ asked < MaxAsked /\ asked' = asked + 1
  /\ wire' = Append(wire, [id |-> asked', op |-> op, arg |-> arg])
  /\ UNCHANGED <<disk, link, tree, replies, work, deleted>>

\* movable_sources and copyable_sources: into another folder, or for a copy any.
SendFs(op, d) ==
  /\ selection # {} /\ ("crossed" \in Ops \/ (moves = {} /\ ~\E r \in ToSet(replies) : r.op = "error"))
  /\ op = "move" => \A p \in selection : p.dir # d
  /\ Sends(op, [sources |-> SetToSeq(selection), to |-> d])
  /\ moves' = moves \cup {[id |-> asked', dirs |-> {p.dir : p \in selection} \cup {d}]}
  /\ UNCHANGED renames

\* confirm_file_rename: one at a time of a path.
ConfirmFileRename(p, n) ==
  /\ selection = {p} /\ ~\E r \in renames : r.path = p
  /\ Sends("rename", [path |-> p, name |-> n])
  /\ renames' = renames \cup {[id |-> asked', path |-> p]}
  /\ UNCHANGED moves

DeleteSelection ==
  /\ selection # {} /\ Sends("delete", [sources |-> SetToSeq(selection)])
  /\ UNCHANGED ops

-----------------------------------------------------------------------------
(* The daemon, a request at a time, a source at a time.                      *)
Lone == "crossed" \in Ops \/ (Len(wire) = 1 /\ replies = <<>>)

Answer(r) ==
  /\ wire' = Tail(wire) /\ work' = None
  /\ replies' = Append(replies, r)

Failed(id, op) == [id |-> id, op |-> "error", arg |-> op]

\* list of a folder.
List(r) ==
  /\ r.op = "list"
  /\ \/ Answer([r EXCEPT !.arg = [dir |-> r.arg, names |-> NamesIn(r.arg)]])
     \/ "fail" \in Ops /\ Lone /\ Answer(Failed(r.id, "list"))
  /\ UNCHANGED <<disk, deleted>>

\* Mutant: the name of the source is taken as it is.
UniqueDestPathAny(d, n) == {n}

\* unique_dest_path: the name, or the name with a suffix, none of them in use.
UniqueDestPath(d, n) == IF n \in NamesIn(d) THEN Names \ NamesIn(d) ELSE {n}

\* move_into and copy_into: the free name is looked for first, and then used.
Begin(r) ==
  /\ r.op \in {"move", "copy"} /\ work = None
  /\ work' = [left |-> r.arg.sources, name |-> None, made |-> <<>>]
  /\ UNCHANGED <<disk, wire, replies, deleted>>

FindName(r) ==
  /\ r.op \in {"move", "copy"} /\ work # None /\ work.left # <<>> /\ work.name = None
  /\ LET p == Resolve(Head(work.left))
         bad == ~There(p) \/ UniqueDestPath(r.arg.to, p.name) = {}
     IN  IF bad
         THEN /\ Lone /\ ("partial" \in Ops \/ work.made = <<>>)
              /\ Answer(Failed(r.id, r.op))
         ELSE \E n \in UniqueDestPath(r.arg.to, p.name) :
                work' = [work EXCEPT !.name = n] /\ UNCHANGED <<wire, replies>>
  /\ UNCHANGED <<disk, deleted>>

\* copy_path_recursive writes over what has that name.
CopyTo(to) ==
  \E f \in Files :
    /\ disk[f] = None
    /\ disk' = [g \in Files |-> IF g = f THEN to ELSE IF disk[g] = to THEN None ELSE disk[g]]

\* So does rename(2).
MoveTo(from, to) ==
  disk' = [g \in Files |-> IF disk[g] = from THEN to ELSE IF disk[g] = to THEN None ELSE disk[g]]

Put(r) ==
  /\ work # None /\ work.name # None
  /\ LET to == [dir |-> r.arg.to, name |-> work.name]
     IN  /\ IF r.op = "move" THEN MoveTo(Resolve(Head(work.left)), to) ELSE CopyTo(to)
         /\ work' = [left |-> Tail(work.left), name |-> None, made |-> Append(work.made, to)]
  /\ UNCHANGED <<wire, replies, deleted>>

Done(r) ==
  /\ r.op \in {"move", "copy"} /\ work # None /\ work.left = <<>>
  /\ Answer([r EXCEPT !.arg = work.made])
  /\ UNCHANGED <<disk, deleted>>

\* rename: the link itself, and refused when the name is in use.
Rename(r) ==
  LET p == r.arg.path   to == [p EXCEPT !.name = r.arg.name]
  IN  /\ r.op = "rename"
      /\ IF There(p) /\ ~There(to)
         THEN disk' = [disk EXCEPT ![At(p)] = to] /\ Answer([r EXCEPT !.arg = to])
         ELSE Lone /\ Answer(Failed(r.id, "rename")) /\ UNCHANGED disk
      /\ UNCHANGED deleted

\* delete_paths resolves every path first, links included; what is gone by then fails the request.
Delete(r) ==
  LET gone == {Resolve(p) : p \in ToSet(r.arg.sources)}
  IN  /\ r.op = "delete"
      /\ IF \A p \in gone : There(p)
         THEN /\ disk' = [f \in Files |-> IF disk[f] \in gone THEN None ELSE disk[f]]
              /\ deleted' = deleted \cup gone
              /\ Answer([r EXCEPT !.arg = gone])
         ELSE Lone /\ Answer(Failed(r.id, "delete")) /\ UNCHANGED <<disk, deleted>>

Serve ==
  /\ wire # <<>>
  /\ LET r == Head(wire)
     IN  List(r) \/ Begin(r) \/ FindName(r) \/ Put(r) \/ Done(r) \/ Rename(r) \/ Delete(r)
  /\ UNCHANGED <<link, tree, ops, asked, inputs>>

\* Another window moves a file there.
OtherMoves(f, p) ==
  /\ User /\ "race" \in Ops /\ disk[f] # None /\ ~There(p)
  /\ work # None => disk[f] \notin ToSet(work.left)
  /\ disk' = [disk EXCEPT ![f] = p]
  /\ UNCHANGED <<link, tree, ops, wire, replies, work, deleted, asked>>

-----------------------------------------------------------------------------
(* Answers.                                                                  *)

Pending(requests, r) == {x \in requests : x.id = r.id}

\* FsListed: kept, under its own path when nothing waits for it any more.
ReceiveListed(r) ==
  /\ r.op = "list"
  /\ cache' = [cache EXCEPT ![r.arg.dir] = r.arg.names]
  /\ lists' = {l \in lists : l.id # r.id}
  /\ UNCHANGED <<selection, ops, wire, asked, deleted>>

\* Mutant: only the folder things were put into is listed again.
FinishFsInto(r) ==
  /\ r.op \in {"move", "copy"}
  /\ moves' = {m \in moves : m.id # r.id}
  /\ Relist({p.dir : p \in ToSet(r.arg)})
  /\ selection' = ToSet(r.arg)
  /\ UNCHANGED <<renames, deleted>>

\* finish_fs: the folders of the sources, as far as they are remembered, and of the results.
FinishFs(r) ==
  /\ r.op \in {"move", "copy"}
  /\ moves' = {m \in moves : m.id # r.id}
  /\ Relist(UNION {m.dirs : m \in Pending(moves, r)} \cup {p.dir : p \in ToSet(r.arg)})
  /\ selection' = ToSet(r.arg)
  /\ UNCHANGED <<renames, deleted>>

ReceiveRenamed(r) ==
  /\ r.op = "rename"
  /\ renames' = {x \in renames : x.id # r.id}
  /\ Relist({x.path.dir : x \in Pending(renames, r)})
  /\ selection' = {r.arg}
  /\ UNCHANGED <<moves, deleted>>

\* FsDeleted has no event: nothing is done.
ReceiveDeleted(r) ==
  /\ r.op = "delete"
  /\ UNCHANGED <<cache, lists, wire, asked, selection, ops, deleted>>

\* Error: every move and copy is forgotten, a listing or a rename when it is the one.
ReceiveError(r) ==
  /\ r.op = "error"
  /\ moves' = {}
  /\ lists' = IF r.arg = "list" THEN {l \in lists : l.id # r.id} ELSE lists
  /\ renames' = IF r.arg = "rename" THEN {x \in renames : x.id # r.id} ELSE renames
  /\ UNCHANGED <<cache, wire, asked, selection, deleted>>

HandleEvent ==
  /\ replies # <<>> /\ replies' = Tail(replies)
  /\ LET r == Head(replies)
     IN  \/ ReceiveListed(r) \/ FinishFs(r) \/ ReceiveRenamed(r)
         \/ ReceiveDeleted(r) \/ ReceiveError(r)
  /\ UNCHANGED <<disk, link, root, expanded, work, inputs>>

-----------------------------------------------------------------------------
Next ==
  \/ Refresh \/ DeleteSelection \/ Serve \/ HandleEvent
  \/ \E d \in Dirs : Expand(d) \/ Collapse(d) \/ SetPanelDirectory(d)
  \/ \E d \in Dirs, op \in {"move", "copy"} : SendFs(op, d)
  \/ \E ps \in SUBSET Places : Select(ps)
  \/ \E p \in Places, n \in Names : ConfirmFileRename(p, n)
  \/ \E f \in Files, p \in Places : OtherMoves(f, p)

Spec == Init /\ [][Next]_vars

-----------------------------------------------------------------------------
(* Properties.                                                               *)
Rows(d) == IF cache[d] = None THEN {} ELSE cache[d]   \* build_tree_layer
Quiet == wire = <<>> /\ replies = <<>>

\* When all is answered, a folder that is listed shows what it holds after the moves, copies
\* and renames of the window; only what was deleted stays (workspace.rs:4884, ade.rs:1655).
OwnChangesShown ==
  Quiet => \A d \in Dirs : cache[d] # None =>
             /\ NamesIn(d) \subseteq Rows(d)
             /\ [dir : {d}, name : Rows(d) \ NamesIn(d)] \subseteq deleted

\* A file only goes by a deletion that names it: none is replaced by another that is moved,
\* copied or renamed, and a link that is deleted is all that goes (fs.rs:304, 388, 505).
Named(p) == wire # <<>> /\ Head(wire).op = "delete" /\ p \in ToSet(Head(wire).arg.sources)
OnlyNamedGo == [][\A f \in Files : disk[f] # None /\ disk'[f] = None => Named(disk[f])]_vars

\* The tree shows what the window did, and what it did destroys nothing unasked.
Safety == []OwnChangesShown /\ OnlyNamedGo
=============================================================================
