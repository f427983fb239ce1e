--------------------------- MODULE WorkspaceStore ---------------------------
(***************************************************************************)
(* The workspace list of one daemon and the file that keeps it             *)
(* (workspace.rs): the changes requests make under the lock, the           *)
(* background writer that Notify wakes, the last save of a daemon that     *)
(* stops, crashes, and the load of the next daemon.                        *)
(*                                                                         *)
(* A save is a snapshot taken under the lock and then, in a blocking task, *)
(* the opening of the temporary file, the write and the rename.  Both      *)
(* writers use one temporary name, so files are kept apart from the names  *)
(* that lead to them.                                                      *)
(***************************************************************************)
EXTENDS WorkspaceList

CONSTANTS
    Layouts,     \* what a client reports: [tabs, active, folders]
    Files,       \* files: what the two names and the writers' handles refer to
    Ops,         \* what happens in this instance, see OpNames
    MaxChanges   \* bound: changes of the list

OpNames == {"rename", "root", "layout", "focus", "close", "terminal",
            "crash", "fail", "stop", "overlap"}

ASSUME StoreAssumption ==
    /\ Ops \subseteq OpNames
    /\ MaxChanges \in Nat /\ None \notin Files
    /\ \A layout \in Layouts : /\ layout.tabs \in Seq(Tabs) /\ layout.active \in Nat
                                /\ layout.folders \in Roots \cup {None}

VARIABLES
    up,       \* the daemon: "up", "stopping" after its last request, "down"
    list,     \* Inner
    permit,   \* whether dirty, the Notify, holds a permit
    writer,   \* the save each writer is in the middle of
    named,    \* the file at the path and the file at its temporary name
    content,  \* what each file holds
    changes   \* history: how often the list has changed

vars == <<up, list, permit, writer, named, content, changes>>

Writers == {"saver", "main"}
PathNames  == {"path", "tmp"}

\* Not what a save writes: emptied by its opening, cut short or overwritten.
Torn == [of |-> 0, list |-> None]

\* of counts the changes the snapshot has seen.
IsContent(c) == c = Torn \/ (c.of \in 0..MaxChanges /\ IsSnapshot(c.list))

Steps == {"waiting", "settling", "taken", "opened", "written", "done"}

Idle == [at |-> "waiting", save |-> Torn, file |-> None]

TypeOK ==
    /\ up \in {"up", "stopping", "down"}
    /\ IsList(list) /\ changes \in 0..MaxChanges /\ permit \in BOOLEAN
    /\ \A v \in Writers : /\ writer[v].at \in Steps /\ writer[v].file \in Files \cup {None}
                           /\ IsContent(writer[v].save)
    /\ named \in [PathNames -> Files \cup {None}]
    /\ \A f \in Files : IsContent(content[f])

Init ==
    /\ up = "up" /\ list = EmptyList /\ permit = FALSE /\ changes = 0
    /\ writer = [v \in Writers |-> Idle]
    /\ named = [name \in PathNames |-> None]
    /\ content = [f \in Files |-> Torn]

-----------------------------------------------------------------------------
\* Mutant: notify_waiters, which a saver at work does not hear.
ChangeUnheard(newList) ==
    /\ up # "down" /\ changes < MaxChanges
    /\ list' = newList
    /\ permit' = (permit \/ writer["saver"].at = "waiting")
    /\ changes' = changes + 1
    /\ UNCHANGED <<up, writer, named, content>>

\* A change of the list: made under the lock, then mark_dirty.  Requests are
\* served until the process is gone.
Change(newList) ==
    /\ up # "down" /\ changes < MaxChanges
    /\ list' = newList
    /\ permit' = TRUE
    /\ changes' = changes + 1
    /\ UNCHANGED <<up, writer, named, content>>

Create(w, s, name, root) ==
    /\ ~Known(list, w) /\ s \in Unused(list)
    /\ Change(Created(list, w, s, name, root))

Rename(w, name) ==
    /\ "rename" \in Ops /\ Known(list, w)
    /\ Change(Renamed(list, w, name))

SetRoot(w, root) ==
    /\ "root" \in Ops /\ Known(list, w)
    /\ Change(Rooted(list, w, root))

SetLayout(w, layout) ==
    /\ "layout" \in Ops /\ Known(list, w)
    /\ Change(LaidOut(list, w, layout.tabs, layout.active, layout.folders))

\* A switch to the workspace that has the focus is no change.
Focus(w) ==
    /\ "focus" \in Ops /\ Known(list, w) /\ list.focused # w
    /\ Change(Focused(list, w))

\* Mutant: the last workspace can be closed.
CloseAny(w) ==
    /\ "close" \in Ops /\ Known(list, w)
    /\ Change(Closed(list, w))

Close(w) ==
    /\ "close" \in Ops /\ Known(list, w)
    /\ Len(list.order) > 1
    /\ Change(Closed(list, w))

NoteTerminal(s, p) ==
    /\ "terminal" \in Ops /\ WithTerminal(list, s, p) # list
    /\ Change(WithTerminal(list, s, p))

NoteTerminalClosed(s, p) ==
    /\ "terminal" \in Ops /\ WithoutTerminal(list, s, p) # list
    /\ Change(WithoutTerminal(list, s, p))

-----------------------------------------------------------------------------
\* The loop of spawn_saver: wait for the permit, let the burst settle, save.
\* Without "overlap" it does nothing once the daemon stops.
SaverWakes ==
    /\ up \in IF "overlap" \in Ops THEN {"up", "stopping"} ELSE {"up"}
    /\ writer["saver"].at = "waiting" /\ permit
    /\ permit' = FALSE
    /\ writer' = [writer EXCEPT !["saver"].at = "settling"]
    /\ UNCHANGED <<up, list, named, content, changes>>

\* save_now: the snapshot under the lock.
Take(v) ==
    /\ up # "down" /\ writer[v].at = "settling"
    /\ writer' = [writer EXCEPT ![v] = [at |-> "taken", file |-> None,
                                        save |-> [of |-> changes, list |-> Snapshot(list)]]]
    /\ UNCHANGED <<up, list, permit, named, content, changes>>

\* write_state: create or truncate the temporary file ...
OpenTemp(v) ==
    /\ up # "down" /\ writer[v].at = "taken"
    /\ \E f \in Files :
        /\ IF named["tmp"] # None THEN f = named["tmp"]
           ELSE f \notin {named["path"]} \cup {writer[u].file : u \in Writers}
        /\ named' = [named EXCEPT !["tmp"] = f]
        /\ content' = [content EXCEPT ![f] = Torn]
        /\ writer' = [writer EXCEPT ![v].at = "opened", ![v].file = f]
    /\ UNCHANGED <<up, list, permit, changes>>

\* ... write it from its start: over a longer text that another writer has
\* put there since, the end of that text remains ...
WriteTemp(v) ==
    /\ up # "down" /\ writer[v].at = "opened"
    /\ LET f == writer[v].file
       IN  \E after \in IF content[f] \in {Torn, writer[v].save} THEN {writer[v].save}
                        ELSE {writer[v].save, Torn} :
               content' = [content EXCEPT ![f] = after]
    /\ writer' = [writer EXCEPT ![v].at = "written"]
    /\ UNCHANGED <<up, list, permit, named, changes>>

Finished(v) == IF v = "saver" THEN Idle ELSE [Idle EXCEPT !.at = "done"]

\* Mutant: a write that did not happen is not noticed.
RenameUnwritten(v) ==
    /\ up # "down" /\ writer[v].at \in {"opened", "written"}
    /\ named' = IF named["tmp"] = None THEN named
                ELSE [path |-> named["tmp"], tmp |-> None]
    /\ writer' = [writer EXCEPT ![v] = Finished(v)]
    /\ UNCHANGED <<up, list, permit, content, changes>>

\* Mutant: the end of a save takes the permit of the changes made meanwhile.
RenameQuiets(v) ==
    /\ up # "down" /\ writer[v].at = "written"
    /\ named' = IF named["tmp"] = None THEN named
                ELSE [path |-> named["tmp"], tmp |-> None]
    /\ writer' = [writer EXCEPT ![v] = Finished(v)]
    /\ permit' = FALSE
    /\ UNCHANGED <<up, list, content, changes>>

\* ... and rename what is at the temporary name, if there is anything.
RenameTemp(v) ==
    /\ up # "down" /\ writer[v].at = "written"
    /\ named' = IF named["tmp"] = None THEN named
                ELSE [path |-> named["tmp"], tmp |-> None]
    /\ writer' = [writer EXCEPT ![v] = Finished(v)]
    /\ UNCHANGED <<up, list, permit, content, changes>>

\* A save that fails is logged; the temporary file stays as it is.  What it was to
\* write stays in the record of the writer as a history, to tell it from a change
\* that was forgotten.
SaveFails(v) ==
    /\ "fail" \in Ops /\ up # "down" /\ writer[v].at \in {"taken", "opened", "written"}
    /\ writer' = [writer EXCEPT ![v] = [Finished(v) EXCEPT !.save = writer[v].save]]
    /\ UNCHANGED <<up, list, permit, named, content, changes>>

-----------------------------------------------------------------------------
\* The server has ended: main begins its last save, whatever the saver does.
Stop ==
    /\ "stop" \in Ops /\ up = "up"
    /\ "overlap" \in Ops \/ writer["saver"].at = "waiting"
    /\ up' = "stopping"
    /\ writer' = [writer EXCEPT !["main"].at = "settling"]
    /\ UNCHANGED <<list, permit, named, content, changes>>

\* Mutant: the lock of the daemon is free before its saves have ended.
GoneWhileSaving ==
    /\ up' = "down" /\ list' = EmptyList /\ permit' = FALSE
    /\ UNCHANGED <<writer, named, content, changes>>

\* The process ends and with it list, permit and saves.
Gone ==
    /\ up' = "down" /\ list' = EmptyList /\ permit' = FALSE
    /\ writer' = [v \in Writers |-> Idle]
    /\ UNCHANGED <<named, content, changes>>

\* The runtime drops the saver where it waits, but lets a blocking task finish.
Exit ==
    /\ up = "stopping" /\ writer["main"].at = "done"
    /\ writer["saver"].at \in {"waiting", "settling"}
    /\ Gone

Crash == "crash" \in Ops /\ up # "down" /\ Gone

\* read_state parses it.
Readable(f) == content[f] # Torn

\* load: every workspace gets a session of its own; an unreadable file is moved
\* aside and the daemon starts empty.
Load(session) ==
    /\ up = "down"
    /\ LET f == named["path"]
       IN  IF f = None THEN UNCHANGED <<list, named>>
           ELSE IF ~Readable(f)
           THEN named' = [named EXCEPT !["path"] = None] /\ UNCHANGED list
           ELSE list' = Restored(content[f].list, session) /\ UNCHANGED named
    /\ up' = "up"
    /\ UNCHANGED <<permit, writer, content, changes>>

-----------------------------------------------------------------------------
Requests ==
    \/ \E w \in Workspaces, s \in Sessions, name \in Names, root \in Roots :
           Create(w, s, name, root)
    \/ \E w \in Workspaces :
          \/ Focus(w) \/ Close(w)
          \/ \E name \in Names : Rename(w, name)
          \/ \E root \in Roots : SetRoot(w, root)
          \/ \E layout \in Layouts : SetLayout(w, layout)
    \/ \E s \in Sessions, p \in Terminals : NoteTerminal(s, p) \/ NoteTerminalClosed(s, p)

Saving(v) == Take(v) \/ OpenTemp(v) \/ WriteTemp(v) \/ RenameTemp(v)

\* New sessions differ.
NewSessions == {f \in [Workspaces -> Sessions] :
                  \A w, x \in Workspaces : f[w] = f[x] => w = x}

Next ==
    \/ Requests
    \/ SaverWakes
    \/ \E v \in Writers : Saving(v) \/ SaveFails(v)
    \/ Stop \/ Exit \/ Crash
    \/ \E session \in NewSessions : Load(session)

Spec == Init /\ [][Next]_vars

\* The saver is a task of its own, its timer fires and its writes return.
Fairness == WF_vars(SaverWakes) /\ WF_vars(Saving("saver"))

FairSpec == Spec /\ Fairness

-----------------------------------------------------------------------------
\* What the next daemon would load: no file is the empty list.
OnDisk == IF named["path"] = None THEN [of |-> 0, list |-> Snapshot(EmptyList)]
          ELSE content[named["path"]]

\* Every request leaves the order, the ids, the sessions and the focus of the
\* list in agreement, and so does every load of what any daemon saved.
ListConsistent == Consistent(list)

\* The active tab stays one of the tabs, and tabs stay within their limit,
\* through layouts, terminals that open and terminals that close.
ActiveInRange == TabsInRange(list)

\* The file never holds half a save, so a crash at any moment leaves a list that
\* loads (write_state: "a crash mid-write leaves the previous list intact").
FileIntact == OnDisk # Torn

\* The file never goes back to an older list than it has held.
NeverOlder == [][OnDisk' # Torn => OnDisk'.of >= OnDisk.of]_vars

\* No change is forgotten: while the file differs from the list, the saver has a
\* permit to see, is about to take its snapshot, is writing this very list, or has
\* failed to write it.
NothingForgotten ==
    (up = "up" /\ OnDisk.list # Snapshot(list)) =>
        \/ permit
        \/ writer["saver"].at = "settling"
        \/ writer["saver"].save.list = Snapshot(list)

\* A list that stays as it is reaches the file, or the save that could not write it
\* has said so (workspace.rs: "is written after each change").
FailedToSave == writer["saver"].at = "waiting" /\ writer["saver"].save.list = Snapshot(list)

EventuallySaved == (up = "up") ~> (up # "up" \/ OnDisk.list = Snapshot(list) \/ FailedToSave)

HoldsOne(saved) == saved # Torn /\ saved.list.order # <<>>

\* Once the file has a workspace it always has one, over restarts too: no save
\* ever follows a load that lost the list or a request that emptied it
\* (docs/WORKSPACES.md: "The last workspace cannot be closed").
NeverEmptied == [][HoldsOne(OnDisk) => HoldsOne(OnDisk')]_vars

\* The list is one the program can work with, its file can be loaded, and what the file
\* lacks will be written (WorkspaceService, write_state).
SavedWhole == TypeOK /\ ActiveInRange /\ FileIntact /\ NothingForgotten

\* The file never loses: neither a newer list to an older one, nor the last workspace.
NeverLess == NeverOlder /\ NeverEmptied
=============================================================================
