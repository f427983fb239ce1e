---------------------------- MODULE WorkspaceList ----------------------------
(***************************************************************************)
(* The workspace list of the daemon (Inner and Record of workspace.rs) as  *)
(* a value, and what each method of WorkspaceStore makes of it while it    *)
(* holds the lock.  No variables: WorkspaceStore keeps one such value and  *)
(* saves it, Sessions keeps one beside the sessions it names.              *)
(*                                                                         *)
(* A tab is a terminal, named by its PTY, or a file, named by its path;    *)
(* titles are wording.  extra and the clamped lengths of names and titles  *)
(* are left out.                                                           *)
(***************************************************************************)
EXTENDS Naturals, SequencesExt

CONSTANTS
    Workspaces,  \* workspace ids
    Sessions,    \* session ids
    Names,       \* names of workspaces
    Roots,       \* project roots
    Terminals,   \* PTY ids
    Paths,       \* files open in an editor
    None,        \* the absent value of every Option
    MaxTabs      \* MAX_TABS

ASSUME ListAssumption ==
    /\ None \notin Workspaces \cup Sessions \cup Roots
    /\ Terminals \cap Paths = {}
    /\ MaxTabs \in Nat \ {0}

Tabs == Terminals \cup Paths

\* folders is the root whose folders are open in the explorer.
Records == [name : Names, root : Roots, session : Sessions, tabs : Seq(Tabs),
            active : Nat, folders : Roots \cup {None}]

IsList(l) ==
    /\ l.order \in Seq(Workspaces) /\ l.focused \in Workspaces \cup {None}
    /\ DOMAIN l.byId \subseteq Workspaces
    /\ \A w \in DOMAIN l.byId : l.byId[w] \in Records
    /\ l.bySession \in [Sessions -> Workspaces \cup {None}]

EmptyList == [order |-> <<>>, byId |-> [w \in {} |-> None],
              bySession |-> [s \in Sessions |-> None], focused |-> None]

Known(l, w)    == w \in DOMAIN l.byId
Unused(l)      == {s \in Sessions : l.bySession[s] = None}
FirstOf(seq)   == IF seq = <<>> THEN None ELSE seq[1]

\* Mutant: the last index of an empty list.
ClampNonempty(i, n) == IF i < n THEN i ELSE n - 1

Clamp(i, n)    == IF n = 0 THEN 0 ELSE IF i < n THEN i ELSE n - 1

\* retain with the one entry that is w left out.
Without(order, w) ==
    LET at == CHOOSE i \in DOMAIN order : order[i] = w
    IN  [i \in 1..(Len(order) - 1) |-> IF i < at THEN order[i] ELSE order[i + 1]]

\* retain: the tabs that are not p, in their order.
Retained(tabs, p) ==
    LET kept[n \in 0..Len(tabs)] ==
            IF n = 0 THEN <<>>
            ELSE IF tabs[n] = p THEN kept[n - 1] ELSE Append(kept[n - 1], tabs[n])
    IN  kept[Len(tabs)]

-----------------------------------------------------------------------------
\* A new workspace takes the focus only when nothing has it.
Created(l, w, s, name, root) ==
    [order     |-> Append(l.order, w),
     byId      |-> [x \in DOMAIN l.byId \cup {w} |->
                      IF x # w THEN l.byId[x]
                      ELSE [name |-> name, root |-> root, session |-> s, tabs |-> <<>>,
                            active |-> 0, folders |-> None]],
     bySession |-> [l.bySession EXCEPT ![s] = w],
     focused   |-> IF l.focused = None THEN w ELSE l.focused]

Renamed(l, w, name) == [l EXCEPT !.byId[w].name = name]

\* Expanded folders belonged to the previous tree.
Rooted(l, w, root) == [l EXCEPT !.byId[w].root = root, !.byId[w].folders = None]

\* sanitize_tabs: the first of them.
Sanitized(tabs) == SubSeq(tabs, 1, IF Len(tabs) < MaxTabs THEN Len(tabs) ELSE MaxTabs)

LaidOut(l, w, tabs, active, folders) ==
    LET kept == Sanitized(tabs)
    IN  [l EXCEPT !.byId[w].tabs    = kept,
                  !.byId[w].active  = Clamp(active, Len(kept)),
                  !.byId[w].folders = folders]

Focused(l, w) == [l EXCEPT !.focused = w]

\* Mutant: the focus stays on the workspace that goes.
ClosedInFocus(l, w) ==
    [order     |-> Without(l.order, w),
     byId      |-> Restrict(l.byId, DOMAIN l.byId \ {w}),
     bySession |-> [l.bySession EXCEPT ![l.byId[w].session] = None],
     focused   |-> l.focused]

Closed(l, w) ==
    LET order == Without(l.order, w)
    IN  [order     |-> order,
         byId      |-> Restrict(l.byId, DOMAIN l.byId \ {w}),
         bySession |-> [l.bySession EXCEPT ![l.byId[w].session] = None],
         focused   |-> IF l.focused = w THEN FirstOf(order) ELSE l.focused]

\* A session that belongs to no workspace is not noted.
WithTerminal(l, s, p) ==
    LET w    == l.bySession[s]
        tabs == Append(l.byId[w].tabs, p)
        kept == IF Len(tabs) > MaxTabs THEN Tail(tabs) ELSE tabs
    IN  IF w = None THEN l
        ELSE IF p \in ToSet(l.byId[w].tabs) THEN l
        ELSE [l EXCEPT !.byId[w].tabs   = kept,
                       !.byId[w].active = IF kept = tabs THEN @ ELSE Clamp(@, Len(kept))]

\* Mutant: the active tab is left as it was.
WithoutTerminalOnly(l, s, p) ==
    LET w == l.bySession[s]
    IN  IF w = None THEN l
        ELSE [l EXCEPT !.byId[w].tabs = Retained(@, p)]

\* Every tab of the terminal goes; active keeps its index, not its tab.
WithoutTerminal(l, s, p) ==
    LET w    == l.bySession[s]
        kept == Retained(l.byId[w].tabs, p)
    IN  IF w = None THEN l
        ELSE IF p \notin ToSet(l.byId[w].tabs) THEN l
        ELSE [l EXCEPT !.byId[w].tabs   = kept,
                       !.byId[w].active = Clamp(@, Len(kept))]

-----------------------------------------------------------------------------
\* What snapshot writes to the file: everything but the sessions.
Saved == [name : Names, root : Roots, tabs : Seq(Tabs), active : Nat,
          folders : Roots \cup {None}]

IsSnapshot(snapshot) ==
    \E held \in SUBSET Workspaces :
       snapshot \in [order : Seq(Workspaces), focused : Workspaces \cup {None},
                     saved : [held -> Saved]]

ASSUME SnapshotAssumption == ~IsSnapshot(None)

Snapshot(l) ==
    [order   |-> l.order,
     focused |-> l.focused,
     saved   |-> [w \in DOMAIN l.byId |->
                    LET rec == l.byId[w]
                    IN  [name |-> rec.name, root |-> rec.root, tabs |-> rec.tabs,
                         active |-> rec.active, folders |-> rec.folders]]]

\* load: every saved workspace comes back under its id with a session of its
\* own, here session[w].
Restored(snapshot, session) ==
    LET Held == ToSet(snapshot.order)
    IN  [order     |-> snapshot.order,
         byId      |-> [w \in Held |->
                          LET saved == snapshot.saved[w]
                          IN  [name |-> saved.name, root |-> saved.root,
                               session |-> session[w], tabs |-> saved.tabs,
                               active |-> saved.active, folders |-> saved.folders]],
         bySession |-> [s \in Sessions |->
                          IF \E w \in Held : session[w] = s
                          THEN CHOOSE w \in Held : session[w] = s ELSE None],
         focused   |-> IF snapshot.focused \in Held THEN snapshot.focused
                       ELSE FirstOf(snapshot.order)]

-----------------------------------------------------------------------------
\* The three indexes of the list tell one story, and the focus is in it.
Consistent(l) ==
    /\ ToSet(l.order) = DOMAIN l.byId
    /\ \A i, j \in DOMAIN l.order : l.order[i] = l.order[j] => i = j
    /\ \A w \in DOMAIN l.byId : l.bySession[l.byId[w].session] = w
    /\ \A s \in Sessions : l.bySession[s] # None =>
          Known(l, l.bySession[s]) /\ l.byId[l.bySession[s]].session = s
    /\ l.focused = None <=> l.order = <<>>
    /\ l.focused # None => Known(l, l.focused)

\* The active tab of every workspace is one of its tabs.
TabsInRange(l) ==
    \A w \in DOMAIN l.byId :
        LET rec == l.byId[w]
        IN  /\ Len(rec.tabs) <= MaxTabs
            /\ rec.active < Len(rec.tabs) \/ rec.active = 0
=============================================================================
