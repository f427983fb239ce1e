-------------------------- MODULE EditorBufferProofs --------------------------
(***************************************************************************)
(* What holds of EditorBuffer for any texts, buffers and bounds, in four   *)
(* parts: the types; that unsaved text can be recovered; that a clean      *)
(* buffer is, or will be told of, the file, and that a review is current;  *)
(* and that a save replaces no file unseen.  Each part has its invariant   *)
(* and says which things the environment may not do for it to hold.        *)
(***************************************************************************)
EXTENDS EditorBuffer, TLAPS

\* A save is that of the tab's buffer, which the write has given the path.
SavingOK == saving # None => saving = view /\ Open(saving) /\ entries[saving].path

Typed == TypeOK /\ SavingOK /\ (view # None => Open(view))

-----------------------------------------------------------------------------
(* Entries.                                                                *)

LEMMA FilesTyped ==
    /\ Missing \in Files /\ Unreadable \in Files /\ Missing # Unreadable
    /\ Missing.n = 0 /\ Unreadable.n = 0 /\ Missing.text = None /\ Unreadable.text = EmptyText
    /\ \A f \in Files : f.n \in Nat /\ f.text \in Text \cup {None} /\ f # None
  BY BufferAssumption, NoneAssumption DEF Files, Missing, Unreadable

LEMMA NewFileTyped ==
    ASSUME written \in Nat, NEW t \in Text \cup {None}
    PROVE  /\ NewFile(t) \in Files /\ NewFile(t).n = written + 1 /\ NewFile(t).text = t
           /\ NewFile(t) # Missing /\ NewFile(t) # Unreadable
<1>1. NewFile(t) \in Files /\ NewFile(t).n = written + 1 /\ NewFile(t).text = t
  BY DEF Files, NewFile
<1>2. written + 1 # 0
  OBVIOUS
<1>. QED BY <1>1, <1>2, FilesTyped

LEMMA OpenedTyped ==
    ASSUME NEW f \in Files, f.text # None
    PROVE  OpenedFrom(f) \in Entry
  BY BufferAssumption DEF OpenedFrom, Entry, Files

LEMMA UntitledTyped == Untitled \in Entry
  BY BufferAssumption DEF Untitled, Entry

\* The fields of an entry, and entries that differ from it in some of them.
LEMMA FieldsTyped ==
    ASSUME NEW e \in Entry
    PROVE  /\ e.text \in Text /\ e.saved \in Text /\ e.dirty \in BOOLEAN /\ e.path \in BOOLEAN
           /\ e.base \in Text \cup {None} /\ e.disk \in Files \cup {None}
           /\ e.ext \in Notices \cup {None} /\ e.over \in Files \cup {None}
           /\ e # None
           /\ e.ext # None => e.ext.gen \in Files /\ e.ext.dirty \in BOOLEAN
  BY NoneAssumption DEF Entry, Notices

LEMMA EditedTyped ==
    ASSUME NEW e \in Entry, NEW t \in Text, NEW d \in BOOLEAN
    PROVE  LET r == [e EXCEPT !.text = t, !.dirty = d]
           IN  /\ r \in Entry /\ r.text = t /\ r.dirty = d
               /\ r.saved = e.saved /\ r.path = e.path /\ r.base = e.base /\ r.disk = e.disk
               /\ r.ext = e.ext /\ r.over = e.over
  BY DEF Entry

LEMMA NoticedTyped ==
    ASSUME NEW e \in Entry, NEW x \in Notices \cup {None}, NEW o \in Files \cup {None}
    PROVE  LET r == [e EXCEPT !.ext = x, !.over = o]
           IN  /\ r \in Entry /\ r.ext = x /\ r.over = o
               /\ r.text = e.text /\ r.dirty = e.dirty /\ r.saved = e.saved /\ r.path = e.path
               /\ r.base = e.base /\ r.disk = e.disk
  BY DEF Entry

LEMMA NamedTyped ==
    ASSUME NEW e \in Entry
    PROVE  LET r == [e EXCEPT !.path = TRUE]
           IN  /\ r \in Entry /\ r.path /\ r.ext = e.ext /\ r.over = e.over
               /\ r.text = e.text /\ r.dirty = e.dirty /\ r.saved = e.saved
               /\ r.base = e.base /\ r.disk = e.disk
  BY DEF Entry

LEMMA PolledTyped ==
    ASSUME NEW e \in Entry, file \in Files
    PROVE  LET p == Polled(e)
           IN  /\ p \in Entry /\ p.path = e.path
               /\ p.ext \in Notices /\ p.ext # None /\ p.ext.gen = file
               /\ p.ext.dirty <=> ~Reloads(e)
               /\ Reloads(e) => /\ p.text = file.text /\ p.saved = file.text /\ p.base = file.text
                                /\ p.disk = file /\ p.dirty = FALSE /\ p.over = None
               /\ ~Reloads(e) => /\ p.text = e.text /\ p.saved = e.saved /\ p.base = e.base
                                 /\ p.disk = e.disk /\ p.dirty = TRUE /\ p.over = e.over
<1>1. CASE Reloads(e)
  <2>1. Polled(e) = [e EXCEPT !.text = file.text, !.saved = file.text, !.base = file.text,
                   !.disk = file, !.ext = [gen |-> file, dirty |-> FALSE], !.over = None]
    BY <1>1 DEF Polled
  <2>2. file.text \in Text /\ [gen |-> file, dirty |-> FALSE] \in Notices /\ e.dirty = FALSE
    BY <1>1, FilesTyped, FieldsTyped DEF Reloads, Notices
  <2>3. /\ Polled(e) \in Entry /\ Polled(e).path = e.path
        /\ Polled(e).ext = [gen |-> file, dirty |-> FALSE]
        /\ Polled(e).text = file.text /\ Polled(e).saved = file.text
        /\ Polled(e).base = file.text /\ Polled(e).disk = file /\ Polled(e).dirty = FALSE
        /\ Polled(e).over = None
    BY <2>1, <2>2 DEF Entry
  <2>. DEFINE p == Polled(e)
  <2>4. p.ext \in Notices /\ p.ext.gen = file /\ p.ext.dirty = FALSE
    BY <2>2, <2>3
  <2>5. p.ext # None
    BY <2>4, NoneAssumption
  <2>. HIDE DEF p
  <2>6. p.ext.dirty <=> ~Reloads(e)
    BY <1>1, <2>4
  <2>. QED BY <1>1, <2>3, <2>4, <2>5, <2>6 DEF p
<1>2. CASE ~Reloads(e)
  <2>1. Polled(e) = [e EXCEPT !.dirty = TRUE, !.ext = [gen |-> file, dirty |-> TRUE]]
    BY <1>2 DEF Polled
  <2>2. [gen |-> file, dirty |-> TRUE] \in Notices
    BY DEF Notices
  <2>3. /\ Polled(e) \in Entry /\ Polled(e).path = e.path
        /\ Polled(e).ext = [gen |-> file, dirty |-> TRUE]
        /\ Polled(e).text = e.text /\ Polled(e).saved = e.saved /\ Polled(e).base = e.base
        /\ Polled(e).disk = e.disk /\ Polled(e).dirty = TRUE /\ Polled(e).over = e.over
    BY <2>1, <2>2 DEF Entry
  <2>. DEFINE p == Polled(e)
  <2>4. p.ext \in Notices /\ p.ext.gen = file /\ p.ext.dirty = TRUE
    BY <2>2, <2>3
  <2>5. p.ext # None
    BY <2>4, NoneAssumption
  <2>. HIDE DEF p
  <2>6. p.ext.dirty <=> ~Reloads(e)
    BY <1>2, <2>4
  <2>. QED BY <1>2, <2>3, <2>4, <2>5, <2>6 DEF p
<1>. QED BY <1>1, <1>2

LEMMA SavedTyped ==
    ASSUME NEW e \in Entry, NEW f \in Files, NEW t \in Text, NEW m \in BOOLEAN
    PROVE  LET s == AfterSave(e, f, t, m)
           IN  /\ s \in Entry /\ s.path = e.path /\ s.text = t /\ s.base = f.text /\ s.disk = f
               /\ s.ext = None /\ s.over = None /\ s.saved = (IF m THEN e.text ELSE t)
               /\ s.dirty = (m \/ (f.text # None /\ f.text # t))
<1>1. f.text \in Text \cup {None} /\ e.text \in Text
  BY FilesTyped, FieldsTyped
<1>2. (m \/ (f.text # None /\ f.text # t)) \in BOOLEAN
  OBVIOUS
<1>. QED BY <1>1, <1>2 DEF AfterSave, Entry

LEMMA RestoredTyped ==
    ASSUME NEW e \in Entry, draft \in Draft, file \in Files
    PROVE  LET r == RestoredFrom(e)
           IN  /\ r \in Entry /\ r.path = e.path /\ r.text = draft.text /\ r.dirty = TRUE
               /\ r.base = draft.base /\ r.saved = e.saved /\ r.over = e.over
               /\ SourceChanged => r.ext = [gen |-> file, dirty |-> TRUE] /\ r.disk = file
               /\ ~SourceChanged => r.ext = e.ext /\ r.disk = e.disk
<1>1. draft.text \in Text /\ draft.base \in Text \cup {None}
  BY DEF Draft
<1>2. [gen |-> file, dirty |-> TRUE] \in Notices
  BY DEF Notices
<1>3. CASE SourceChanged
  <2>1. RestoredFrom(e) = [e EXCEPT !.text = draft.text, !.dirty = TRUE, !.base = draft.base,
                                    !.ext = [gen |-> file, dirty |-> TRUE], !.disk = file]
    BY <1>3 DEF RestoredFrom
  <2>. QED BY <1>1, <1>2, <1>3, <2>1 DEF Entry
<1>4. CASE ~SourceChanged
  <2>1. RestoredFrom(e) = [e EXCEPT !.text = draft.text, !.dirty = TRUE, !.base = draft.base]
    BY <1>4 DEF RestoredFrom
  <2>. QED BY <1>1, <1>4, <2>1 DEF Entry
<1>. QED BY <1>3, <1>4

LEMMA RefusedTyped ==
    ASSUME NEW e \in Entry, NEW x \in Notices
    PROVE  LET r == [e EXCEPT !.ext = x]
           IN  /\ r \in Entry /\ r.ext = x /\ r.over = e.over
               /\ r.text = e.text /\ r.dirty = e.dirty /\ r.saved = e.saved /\ r.path = e.path
               /\ r.base = e.base /\ r.disk = e.disk
  BY DEF Entry

LEMMA Put ==
    ASSUME TypeOK, NEW b \in Buffers, NEW r \in Entry \cup {None},
           entries' = [entries EXCEPT ![b] = r]
    PROVE  /\ entries' \in [Buffers -> Entry \cup {None}] /\ entries'[b] = r
           /\ \A c \in Buffers : c # b => entries'[c] = entries[c]
  BY DEF TypeOK

LEMMA OpenTyped ==
    ASSUME TypeOK, NEW b \in Buffers
    PROVE  Open(b) <=> entries[b] \in Entry
  BY NoneAssumption DEF TypeOK, Open

LEMMA CheckpointTyped ==
    ASSUME NEW e \in Entry, draft \in Draft \cup {None}
    PROVE  /\ e.dirty => Checkpoint(e) = [text |-> e.text, base |-> e.base] /\ Checkpoint(e) \in Draft
           /\ ~e.dirty => Checkpoint(e) = draft
           /\ Checkpoint(e) \in Draft \cup {None} /\ Recovery(e) \in Draft \cup {None}
           /\ e.dirty => Recovery(e) = Checkpoint(e)
           /\ ~e.dirty => Recovery(e) = None
  BY FieldsTyped DEF Checkpoint, Recovery, Draft

-----------------------------------------------------------------------------
(* What each step makes of the buffers.                                    *)

LEMMA OpenStep ==
    ASSUME Typed, OpenFile
    PROVE  \E b \in Buffers :
              /\ saving = None /\ view = None /\ view' = b
              /\ entries' \in [Buffers -> Entry \cup {None}] /\ entries'[b] # None
              /\ \A c \in Buffers : c # b => entries'[c] = entries[c] /\ basis'[c] = basis[c]
              /\ basis' \in [Buffers -> Files \cup {None}]
              /\ \/ /\ Open(b) /\ entries'[b] = entries[b] /\ basis'[b] = basis[b]
                 \/ /\ \A c \in Buffers : ~(Open(c) /\ entries[c].path)
                    /\ ~Open(b) /\ Openable /\ entries'[b] = OpenedFrom(file) /\ basis'[b] = file
              /\ UNCHANGED <<disk, draft, saving, notice, recover, inputs>>
<1>. PICK b \in Buffers :
        /\ OpensAt(b)
        /\ entries' = [entries EXCEPT ![b] = Opened(b)]
        /\ basis' = IF AtPath = {} THEN [basis EXCEPT ![b] = file] ELSE basis
        /\ view' = b
  BY DEF OpenFile
<1>1. saving = None /\ view = None /\ Openable
      /\ UNCHANGED <<disk, draft, saving, notice, recover, inputs>>
  BY DEF OpenFile, Idle
<1>2. OpenedFrom(file) \in Entry
  BY <1>1, OpenedTyped DEF Openable, Typed, TypeOK
<1>3. CASE AtPath = {}
  <2>1. ~Open(b) /\ \A c \in Buffers : ~(Open(c) /\ entries[c].path)
    BY <1>3 DEF OpensAt, Unused, AtPath
  <2>2. /\ entries' \in [Buffers -> Entry \cup {None}] /\ entries'[b] = OpenedFrom(file)
        /\ \A c \in Buffers : c # b => entries'[c] = entries[c]
    BY <1>2, <1>3, Put DEF Opened, Typed
  <2>3. /\ basis' \in [Buffers -> Files \cup {None}] /\ basis'[b] = file
        /\ \A c \in Buffers : c # b => basis'[c] = basis[c]
    BY <1>3 DEF Typed, TypeOK
  <2>. QED BY <1>1, <1>2, <2>1, <2>2, <2>3, NoneAssumption
<1>4. CASE AtPath # {}
  <2>1. Open(b)
    BY <1>4 DEF OpensAt, AtPath
  <2>2. entries' = entries
    BY <1>4 DEF Opened, Typed, TypeOK
  <2>. QED BY <1>1, <1>4, <2>1, <2>2 DEF Typed, TypeOK, Open
<1>. QED BY <1>3, <1>4

\* An edit, or an undo, which is clean only at the savepoint.
LEMMA EditStep ==
    ASSUME Typed, EditBuffer \/ ActionBuffer
    PROVE  \E t \in Text, d \in BOOLEAN :
              LET e == entries[view]
                  r == [e EXCEPT !.text = t, !.dirty = d]
              IN  /\ saving = None /\ view \in Buffers /\ e \in Entry /\ r \in Entry
                  /\ d \/ t = e.saved
                  /\ entries' = [entries EXCEPT ![view] = r]
                  /\ draft' = Recovery(r) /\ draft' \in Draft \cup {None} /\ inputs' \in Nat
                  /\ UNCHANGED <<disk, saving, view, recover, notice, basis>>
<1>1. saving = None /\ view \in Buffers /\ entries[view] \in Entry
  BY OpenTyped DEF EditBuffer, ActionBuffer, Idle, Viewed, Typed, TypeOK
<1>2. PICK t \in Text, d \in BOOLEAN :
        LET r == [entries[view] EXCEPT !.text = t, !.dirty = d]
        IN  (d \/ t = entries[view].saved) /\ Becomes(r, Recovery(r))
  BY DEF EditBuffer, ActionBuffer
<1>3. [entries[view] EXCEPT !.text = t, !.dirty = d] \in Entry
  BY <1>1, EditedTyped
<1>4. Recovery([entries[view] EXCEPT !.text = t, !.dirty = d]) \in Draft \cup {None}
  BY <1>3, CheckpointTyped DEF Typed, TypeOK
<1>5. inputs' \in Nat /\ UNCHANGED <<notice, basis>>
  <2>1. inputs' = inputs + 1 /\ UNCHANGED <<notice, basis>>
    BY DEF EditBuffer, ActionBuffer, Input
  <2>. QED BY <2>1 DEF Typed, TypeOK
<1>. QED BY <1>1, <1>2, <1>3, <1>4, <1>5 DEF Becomes

LEMMA PollStep ==
    ASSUME Typed, Poll
    PROVE  \E b \in Buffers :
              LET e == entries[b]
                  p == Polled(e)
              IN  /\ saving = None /\ e \in Entry /\ p \in Entry
                  /\ file # Unreadable /\ e.disk # None /\ e.disk # file
                  /\ entries' = [entries EXCEPT ![b] = p]
                  /\ draft' = Checkpoint(p)
                  /\ basis' = IF Reloads(e) THEN [basis EXCEPT ![b] = file] ELSE basis
                  /\ notice' = IF view = b THEN Asked(file, p.dirty) ELSE notice
                  /\ UNCHANGED <<disk, saving, view, recover, inputs>>
<1>. PICK b \in Buffers : Open(b) /\ Noticeable(entries[b]) /\ PollOf(b)
  BY DEF Poll
<1>1. entries[b] \in Entry
  BY OpenTyped DEF Typed
<1>2. Polled(entries[b]) \in Entry
  BY <1>1, PolledTyped DEF Typed, TypeOK
<1>. QED BY <1>1, <1>2 DEF Poll, Idle, PollOf, Noticeable

\* Keep, Overwrite and Reload.
LEMMA ResolveStep ==
    ASSUME Typed, ResolveExternal
    PROVE  LET e == entries[view]
               x == [gen |-> notice, dirty |-> TRUE]
           IN  /\ saving = None /\ view \in Buffers /\ e \in Entry /\ x \in Notices
               /\ notice # None /\ file = notice /\ file # Unreadable /\ inputs' = inputs + 1
               /\ UNCHANGED <<disk, saving, view, recover>>
               /\ \/ \E o \in {None, notice} :
                        /\ entries' = [entries EXCEPT ![view] = [e EXCEPT !.ext = x, !.over = o]]
                        /\ UNCHANGED <<draft, basis>>
                        /\ notice' = IF o = None THEN notice ELSE None
                  \/ /\ notice.text # None /\ entries' = [entries EXCEPT ![view] = OpenedFrom(notice)]
                     /\ draft' = None /\ notice' = None /\ basis' = [basis EXCEPT ![view] = notice]
<1>. DEFINE e == entries[view]
            x == [gen |-> notice, dirty |-> TRUE]
            kept == [e EXCEPT !.ext = x, !.over = None]
<1>1. saving = None /\ view \in Buffers /\ e \in Entry
  BY OpenTyped DEF ResolveExternal, Idle, Viewed, Typed, TypeOK
<1>2. notice # None /\ file = notice /\ file # Unreadable /\ inputs' = inputs + 1
  BY DEF ResolveExternal, Resolvable, Input
<1>3. x \in Notices
  BY <1>2 DEF Notices, Typed, TypeOK
<1>4. [kept EXCEPT !.over = notice] = [e EXCEPT !.ext = x, !.over = notice]
  BY <1>1 DEF Entry
<1>5. \/ Becomes(kept, draft) /\ UNCHANGED <<notice, basis>>
      \/ Becomes([kept EXCEPT !.over = notice], draft) /\ notice' = None /\ UNCHANGED basis
      \/ /\ notice.text # None /\ Becomes(OpenedFrom(notice), None)
         /\ notice' = None /\ basis' = [basis EXCEPT ![view] = notice]
  BY DEF ResolveExternal
<1>6. CASE Becomes(kept, draft) /\ UNCHANGED <<notice, basis>>
  BY <1>1, <1>2, <1>3, <1>6 DEF Becomes
<1>7. CASE Becomes([kept EXCEPT !.over = notice], draft) /\ notice' = None /\ UNCHANGED basis
  BY <1>1, <1>2, <1>3, <1>4, <1>7 DEF Becomes
<1>8. CASE /\ notice.text # None /\ Becomes(OpenedFrom(notice), None)
           /\ notice' = None /\ basis' = [basis EXCEPT ![view] = notice]
  BY <1>1, <1>2, <1>3, <1>8 DEF Becomes
<1>. QED BY <1>5, <1>6, <1>7, <1>8

LEMMA SaveWriteStep ==
    ASSUME Typed, SaveWrite
    PROVE  LET e == entries[view]
               x == [gen |-> file, dirty |-> e.dirty]
           IN  /\ saving = None /\ view \in Buffers /\ e \in Entry /\ x \in Notices
               /\ notice = None /\ file # Unreadable /\ inputs' = inputs + 1
               /\ e.dirty \/ "saveas" \in Ops
               /\ UNCHANGED <<draft, view, recover, aside>>
               /\ \/ /\ Conflicts(e)
                     /\ entries' = [entries EXCEPT ![view] = [e EXCEPT !.ext = x]]
                     /\ notice' = Asked(file, e.dirty) /\ UNCHANGED <<disk, saving, basis>>
                  \/ /\ ~Conflicts(e) \/ Authorized(e)
                     /\ entries' = [entries EXCEPT ![view] = [e EXCEPT !.path = TRUE]]
                     /\ file' = NewFile(e.text) /\ written' = written + 1
                     /\ basis' = [basis EXCEPT ![view] = NewFile(e.text)]
                     /\ saving' = view /\ UNCHANGED notice
<1>. DEFINE e == entries[view]
            x == [gen |-> file, dirty |-> e.dirty]
<1>1. saving = None /\ view \in Buffers /\ e \in Entry
  BY OpenTyped DEF SaveWrite, Idle, Viewed, Typed, TypeOK
<1>2. x \in Notices
  BY <1>1, FieldsTyped DEF Notices, Typed, TypeOK
<1>3. /\ notice = None /\ file # Unreadable /\ inputs' = inputs + 1 /\ UNCHANGED <<draft, view, recover>>
      /\ e.dirty \/ "saveas" \in Ops
  BY DEF SaveWrite, Input
<1>4. CASE Conflicts(e) /\ ~Authorized(e)
  <2>1. /\ entries' = [entries EXCEPT ![view].ext = x]
        /\ notice' = Asked(file, e.dirty) /\ UNCHANGED <<disk, saving, basis>>
    BY <1>4 DEF SaveWrite
  <2>. QED BY <1>1, <1>2, <1>3, <1>4, <2>1 DEF disk
<1>5. CASE ~(Conflicts(e) /\ ~Authorized(e))
  <2>1. /\ file' = NewFile(e.text) /\ written' = written + 1
        /\ entries' = [entries EXCEPT ![view].path = TRUE]
        /\ basis' = [basis EXCEPT ![view] = NewFile(e.text)]
        /\ saving' = view
        /\ UNCHANGED <<aside, notice>>
    BY <1>5 DEF SaveWrite
  <2>. QED BY <1>1, <1>2, <1>3, <1>5, <2>1
<1>. QED BY <1>4, <1>5

LEMMA SaveFinishStep ==
    ASSUME Typed, SaveFinish
    PROVE  \E t \in Text, fails \in BOOLEAN, f \in Files :
              LET e == entries[saving]
                  s == AfterSave(e, f, t, fails)
              IN  /\ saving \in Buffers /\ saving = view /\ e \in Entry /\ e.path /\ s \in Entry
                  /\ fails => t # e.text
                  /\ \/ /\ t # e.text /\ ~fails /\ f = NewFile(t) /\ f.text = t
                        /\ written' = written + 1 /\ basis' = [basis EXCEPT ![saving] = f]
                     \/ /\ t = e.text \/ fails
                        /\ f = file /\ UNCHANGED <<written, basis>>
                  /\ file' = f
                  /\ entries' = [entries EXCEPT ![saving] = s]
                  /\ draft' = Recovery(s) /\ saving' = None /\ notice' = None
                  /\ UNCHANGED <<aside, view, recover, inputs>>
<1>1. saving \in Buffers /\ saving = view /\ entries[saving] \in Entry /\ entries[saving].path
  BY OpenTyped DEF SaveFinish, Typed, TypeOK, SavingOK
<1>. PICK t \in Text, fails \in BOOLEAN :
        LET e == entries[saving]
            formats == t # e.text
            writes == formats /\ ~fails
            f == IF writes THEN NewFile(t) ELSE file
            s == AfterSave(e, f, t, fails)
        IN  /\ fails => formats
            /\ file' = f
            /\ written' = IF writes THEN written + 1 ELSE written
            /\ basis' = IF writes THEN [basis EXCEPT ![saving] = f] ELSE basis
            /\ entries' = [entries EXCEPT ![saving] = s]
            /\ draft' = Recovery(s)
  BY DEF SaveFinish
<1>2. NewFile(t) \in Files /\ NewFile(t).text = t /\ file \in Files
  BY NewFileTyped DEF Typed, TypeOK
<1>3. \A f \in Files : AfterSave(entries[saving], f, t, fails) \in Entry
  BY <1>1, SavedTyped
<1>4. saving' = None /\ notice' = None /\ UNCHANGED <<aside, view, recover, inputs>>
  BY DEF SaveFinish
<1>5. CASE t # entries[saving].text /\ ~fails
  <2>. NewFile(t) \in Files
    BY <1>2
  <2>. WITNESS t \in Text, fails \in BOOLEAN, NewFile(t) \in Files
  <2>. QED BY <1>1, <1>2, <1>3, <1>4, <1>5
<1>6. CASE ~(t # entries[saving].text /\ ~fails)
  <2>. file \in Files
    BY <1>2
  <2>. WITNESS t \in Text, fails \in BOOLEAN, file \in Files
  <2>. QED BY <1>1, <1>2, <1>3, <1>4, <1>6
<1>. QED BY <1>5, <1>6

\* Into the buffer of the path, a new one of the file, or one without it.
LEMMA RestoreStep ==
    ASSUME Typed, RestoreDraft, draft # None
    PROVE  \E b \in Buffers, e \in Entry :
              LET r == RestoredFrom(e)
              IN  /\ saving = None /\ r \in Entry /\ draft \in Draft
                  /\ \/ /\ Openable /\ e = entries[b] /\ e.path /\ e \in Entry
                     \/ /\ Openable /\ e = OpenedFrom(file) /\ ~Open(b)
                        /\ \A c \in Buffers : ~(Open(c) /\ entries[c].path)
                     \/ ~Openable /\ e = Untitled /\ ~Open(b)
                  /\ entries' = [entries EXCEPT ![b] = r]
                  /\ basis' = [basis EXCEPT ![b] = IF SourceChanged THEN None ELSE file]
                  /\ view' = b /\ notice' = None /\ recover' = FALSE
                  /\ UNCHANGED <<disk, draft, saving, inputs>>
<1>. PICK b \in Buffers :
        /\ IF Openable THEN OpensAt(b) ELSE b \in Unused
        /\ entries' = [entries EXCEPT ![b] = RestoredFrom(IF Openable THEN Opened(b) ELSE Untitled)]
        /\ basis' = [basis EXCEPT ![b] = IF SourceChanged THEN None ELSE file]
        /\ view' = b /\ notice' = None
  BY DEF RestoreDraft
<1>1. saving = None /\ recover' = FALSE /\ UNCHANGED <<disk, draft, saving, inputs>>
  BY DEF RestoreDraft, Idle
<1>2. draft \in Draft /\ file \in Files
  BY DEF Typed, TypeOK
<1>3. \A e \in Entry : RestoredFrom(e) \in Entry
  BY <1>2, RestoredTyped
<1>4. CASE Openable /\ AtPath # {}
  <2>1. Open(b) /\ entries[b].path /\ entries[b] \in Entry /\ Opened(b) = entries[b]
    BY <1>4, OpenTyped DEF OpensAt, AtPath, Opened, Typed
  <2>. entries[b] \in Entry
    BY <2>1
  <2>. WITNESS b \in Buffers, entries[b] \in Entry
  <2>. QED BY <1>1, <1>2, <1>3, <1>4, <2>1
<1>5. CASE Openable /\ AtPath = {}
  <2>1. ~Open(b) /\ Opened(b) = OpenedFrom(file) /\ \A c \in Buffers : ~(Open(c) /\ entries[c].path)
    BY <1>5 DEF OpensAt, Unused, AtPath, Opened
  <2>. OpenedFrom(file) \in Entry
    BY <1>2, <1>5, OpenedTyped DEF Openable
  <2>. WITNESS b \in Buffers, OpenedFrom(file) \in Entry
  <2>. QED BY <1>1, <1>2, <1>3, <1>5, <2>1
<1>6. CASE ~Openable
  <2>1. ~Open(b)
    BY <1>6 DEF Unused
  <2>. Untitled \in Entry
    BY UntitledTyped
  <2>. WITNESS b \in Buffers, Untitled \in Entry
  <2>. QED BY <1>1, <1>2, <1>3, <1>6, <2>1
<1>. QED BY <1>4, <1>5, <1>6

LEMMA OutsideStep ==
    ASSUME Typed, WriteFile \/ DeleteFile \/ MoveAway \/ MoveBack
    PROVE  /\ saving = None \/ "overtake" \in Ops
           /\ UNCHANGED <<entries, draft, saving, view, notice, recover, basis>>
           /\ inputs' = inputs + 1 /\ file' \in Files /\ aside' \in Files \cup {None}
           /\ \/ \E t \in Text \cup {None} :
                    /\ file # Unreadable /\ file' = NewFile(t) /\ written' = written + 1
                    /\ UNCHANGED aside /\ (t = None => "binary" \in Ops)
              \/ /\ "delete" \in Ops /\ file # Unreadable /\ file' = Missing
                 /\ UNCHANGED <<aside, written>>
              \/ /\ aside = None /\ file # Missing /\ aside' = file /\ UNCHANGED written
                 /\ \/ "aside" \in Ops /\ file' = Missing
                    \/ "unreadable" \in Ops /\ file' = Unreadable
              \/ /\ aside # None /\ file' = aside /\ aside' = None /\ UNCHANGED written
                 /\ \/ "aside" \in Ops /\ file = Missing
                    \/ "unreadable" \in Ops /\ file = Unreadable
<1>1. /\ saving = None \/ "overtake" \in Ops
      /\ UNCHANGED <<entries, draft, saving, view, notice, recover, basis>>
      /\ inputs' = inputs + 1
  BY DEF WriteFile, DeleteFile, MoveAway, MoveBack, Outside, Idle, Input, tab
<1>2. CASE WriteFile
  <2>1. PICK t \in Text \cup {None} : file' = NewFile(t) /\ (t = None => "binary" \in Ops)
    BY <1>2, BufferAssumption DEF WriteFile, Outside, Input
  <2>2. file # Unreadable /\ written' = written + 1 /\ UNCHANGED aside
    BY <1>2 DEF WriteFile
  <2>3. file' \in Files /\ aside' \in Files \cup {None}
    BY <2>1, <2>2, NewFileTyped DEF Typed, TypeOK
  <2>. QED BY <1>1, <2>1, <2>2, <2>3
<1>3. CASE DeleteFile
  BY <1>1, <1>3, FilesTyped DEF DeleteFile, Outside, Input, Typed, TypeOK
<1>4. CASE MoveAway
  BY <1>1, <1>4, FilesTyped DEF MoveAway, Outside, Input, Typed, TypeOK
<1>5. CASE MoveBack
  <2>1. file' \in Files /\ aside' \in Files \cup {None}
    BY <1>5 DEF MoveBack, Typed, TypeOK
  <2>. QED BY <1>1, <1>5, <2>1 DEF MoveBack, Outside, Input
<1>. QED BY <1>2, <1>3, <1>4, <1>5

-----------------------------------------------------------------------------
(* The types.                                                              *)

\* The other two steps.
LEMMA CloseStep ==
    ASSUME Typed, CloseBuffer
    PROVE  /\ saving = None /\ view \in Buffers /\ entries[view] \in Entry
           /\ entries' = [entries EXCEPT ![view] = None]
           /\ draft' = (IF entries[view].dirty THEN None ELSE draft)
           /\ view' = None /\ notice' = None /\ inputs' = inputs + 1
           /\ UNCHANGED <<disk, saving, recover, basis>>
  BY OpenTyped DEF CloseBuffer, Idle, Viewed, Input, Typed, TypeOK

LEMMA CheckStep ==
    ASSUME Typed, CheckExternal
    PROVE  /\ saving = None /\ view \in Buffers /\ entries[view] \in Entry
           /\ Pending(entries[view]) /\ notice' = entries[view].ext.gen
           /\ ~Noticeable(entries[view])
           /\ UNCHANGED <<disk, entries, draft, saving, view, recover, basis, inputs>>
  BY OpenTyped DEF CheckExternal, Idle, Viewed, Typed, TypeOK

\* The tab's buffer becomes e.
LEMMA TypedPut ==
    ASSUME Typed, NEW b \in Buffers, NEW e \in Entry, entries' = [entries EXCEPT ![b] = e]
    PROVE  /\ entries' \in [Buffers -> Entry \cup {None}] /\ entries'[b] = e /\ Open(b)'
           /\ \A c \in Buffers : c # b => entries'[c] = entries[c] /\ (Open(c)' <=> Open(c))
           /\ \A c \in Buffers : Open(c) => Open(c)'
<1>1. /\ entries' \in [Buffers -> Entry \cup {None}] /\ entries'[b] = e
      /\ \A c \in Buffers : c # b => entries'[c] = entries[c]
  BY Put DEF Typed
<1>. QED BY <1>1, FieldsTyped DEF Open

LEMMA InitTyped == Init => Typed
<1>. SUFFICES ASSUME Init PROVE Typed
  OBVIOUS
<1>1. file \in Files
  BY DEF Init, Files
<1>. QED BY <1>1 DEF Init, Typed, TypeOK, SavingOK

LEMMA NextTyped ==
    ASSUME Typed, [Next]_vars
    PROVE  Typed'
<1>. USE DEF Typed, TypeOK, SavingOK
<1>1. CASE OpenFile
  <2>. PICK b \in Buffers :
          /\ saving = None /\ view' = b
          /\ entries' \in [Buffers -> Entry \cup {None}] /\ entries'[b] # None
          /\ basis' \in [Buffers -> Files \cup {None}]
          /\ UNCHANGED <<disk, draft, saving, notice, recover, inputs>>
    BY <1>1, OpenStep
  <2>. QED BY DEF disk, Open
<1>2. CASE EditBuffer \/ ActionBuffer
  <2>. PICK t \in Text, d \in BOOLEAN :
          LET r == [entries[view] EXCEPT !.text = t, !.dirty = d]
          IN  /\ saving = None /\ view \in Buffers /\ r \in Entry
              /\ entries' = [entries EXCEPT ![view] = r]
              /\ draft' \in Draft \cup {None} /\ inputs' \in Nat
              /\ UNCHANGED <<disk, saving, view, recover, notice, basis>>
    BY <1>2, EditStep
  <2>1. entries' \in [Buffers -> Entry \cup {None}] /\ Open(view)'
    BY TypedPut
  <2>. QED BY <2>1 DEF disk, Open
<1>3. CASE CloseBuffer
  <2>1. /\ saving = None /\ view \in Buffers
        /\ entries' = [entries EXCEPT ![view] = None]
        /\ draft' = (IF entries[view].dirty THEN None ELSE draft)
        /\ view' = None /\ notice' = None /\ inputs' = inputs + 1
        /\ UNCHANGED <<disk, saving, recover, basis>>
    BY <1>3, CloseStep
  <2>. QED BY <2>1 DEF disk
<1>4. CASE Poll
  <2>. PICK b \in Buffers :
          LET p == Polled(entries[b])
          IN  /\ saving = None /\ p \in Entry
              /\ entries' = [entries EXCEPT ![b] = p]
              /\ draft' = Checkpoint(p)
              /\ basis' = IF Reloads(entries[b]) THEN [basis EXCEPT ![b] = file] ELSE basis
              /\ notice' = IF view = b THEN Asked(file, p.dirty) ELSE notice
              /\ UNCHANGED <<disk, saving, view, recover, inputs>>
    BY <1>4, PollStep
  <2>1. /\ entries' \in [Buffers -> Entry \cup {None}]
        /\ \A c \in Buffers : Open(c) => Open(c)'
    BY TypedPut
  <2>2. draft' \in Draft \cup {None}
    BY CheckpointTyped
  <2>3. basis' \in [Buffers -> Files \cup {None}] /\ notice' \in Files \cup {None}
    BY DEF Asked
  <2>. QED BY <2>1, <2>2, <2>3 DEF disk
<1>5. CASE CheckExternal
  <2>1. entries[view].ext.gen \in Files
    BY <1>5, CheckStep, FieldsTyped DEF Pending
  <2>. QED BY <1>5, <2>1, CheckStep DEF disk, Open
<1>6. CASE ResolveExternal
  <2>. DEFINE e == entries[view]
              x == [gen |-> notice, dirty |-> TRUE]
  <2>1. /\ saving = None /\ view \in Buffers /\ e \in Entry /\ x \in Notices
        /\ notice # None /\ inputs' = inputs + 1
        /\ UNCHANGED <<disk, saving, view, recover>>
    BY <1>6, ResolveStep
  <2>2. CASE \E o \in {None, notice} :
               /\ entries' = [entries EXCEPT ![view] = [e EXCEPT !.ext = x, !.over = o]]
               /\ UNCHANGED <<draft, basis>>
               /\ notice' = IF o = None THEN notice ELSE None
    <3>. PICK o \in {None, notice} :
               /\ entries' = [entries EXCEPT ![view] = [e EXCEPT !.ext = x, !.over = o]]
               /\ UNCHANGED <<draft, basis>>
               /\ notice' = IF o = None THEN notice ELSE None
      BY <2>2
    <3>0. e \in Entry /\ x \in Notices \cup {None} /\ o \in Files \cup {None}
      BY <2>1
    <3>. HIDE DEF e, x
    <3>1. [e EXCEPT !.ext = x, !.over = o] \in Entry
      BY <3>0, NoticedTyped
    <3>2. entries' \in [Buffers -> Entry \cup {None}] /\ Open(view)'
      BY <2>1, <3>1, TypedPut
    <3>. QED BY <2>1, <3>2 DEF disk, Open
  <2>3. CASE /\ notice.text # None /\ entries' = [entries EXCEPT ![view] = OpenedFrom(notice)]
             /\ draft' = None /\ notice' = None /\ basis' = [basis EXCEPT ![view] = notice]
    <3>1. OpenedFrom(notice) \in Entry
      BY <2>1, <2>3, OpenedTyped
    <3>2. entries' \in [Buffers -> Entry \cup {None}] /\ Open(view)'
      BY <2>1, <2>3, <3>1, TypedPut
    <3>. QED BY <2>1, <2>3, <3>2 DEF disk, Open
  <2>. QED BY <1>6, <2>2, <2>3, ResolveStep
<1>7. CASE SaveWrite
  <2>. DEFINE e == entries[view]
              x == [gen |-> file, dirty |-> e.dirty]
  <2>1. /\ saving = None /\ view \in Buffers /\ e \in Entry /\ x \in Notices
        /\ inputs' = inputs + 1 /\ UNCHANGED <<draft, view, recover, aside>>
    BY <1>7, SaveWriteStep
  <2>2. CASE /\ entries' = [entries EXCEPT ![view] = [e EXCEPT !.ext = x]]
             /\ notice' = Asked(file, e.dirty) /\ UNCHANGED <<disk, saving, basis>>
    <3>1. [e EXCEPT !.ext = x] \in Entry
      BY <2>1, RefusedTyped
    <3>2. entries' \in [Buffers -> Entry \cup {None}] /\ Open(view)'
      BY <2>1, <2>2, <3>1, TypedPut
    <3>. QED BY <2>1, <2>2, <3>2 DEF disk, Open, Asked
  <2>3. CASE /\ entries' = [entries EXCEPT ![view] = [e EXCEPT !.path = TRUE]]
             /\ file' = NewFile(e.text) /\ written' = written + 1
             /\ basis' = [basis EXCEPT ![view] = NewFile(e.text)]
             /\ saving' = view /\ UNCHANGED notice
    <3>1. /\ [e EXCEPT !.path = TRUE] \in Entry /\ [e EXCEPT !.path = TRUE].path
          /\ NewFile(e.text) \in Files
      BY <2>1, NamedTyped, NewFileTyped, FieldsTyped
    <3>2. /\ entries' \in [Buffers -> Entry \cup {None}] /\ Open(view)'
          /\ entries'[view].path
      BY <2>1, <2>3, <3>1, TypedPut
    <3>. QED BY <2>1, <2>3, <3>1, <3>2 DEF Open
  <2>. QED BY <1>7, <2>2, <2>3, SaveWriteStep
<1>8. CASE SaveFinish
  <2>. PICK t \in Text, fails \in BOOLEAN, f \in Files :
          LET s == AfterSave(entries[saving], f, t, fails)
          IN  /\ saving \in Buffers /\ saving = view /\ s \in Entry
              /\ \/ /\ f = NewFile(t) /\ written' = written + 1
                    /\ basis' = [basis EXCEPT ![saving] = f]
                 \/ f = file /\ UNCHANGED <<written, basis>>
              /\ file' = f
              /\ entries' = [entries EXCEPT ![saving] = s]
              /\ draft' = Recovery(s) /\ saving' = None /\ notice' = None
              /\ UNCHANGED <<aside, view, recover, inputs>>
    BY <1>8, SaveFinishStep
  <2>1. entries' \in [Buffers -> Entry \cup {None}] /\ Open(view)'
    BY TypedPut
  <2>2. draft' \in Draft \cup {None}
    BY CheckpointTyped
  <2>. QED BY <2>1, <2>2 DEF Open
<1>9. CASE WriteFile \/ DeleteFile \/ MoveAway \/ MoveBack
  <2>1. /\ UNCHANGED <<entries, draft, saving, view, notice, recover, basis>>
        /\ inputs' = inputs + 1 /\ file' \in Files /\ aside' \in Files \cup {None}
        /\ written' \in {written, written + 1}
    BY <1>9, OutsideStep
  <2>. QED BY <2>1 DEF Open
<1>10. CASE Crash
  BY <1>10 DEF Crash, Input, disk
<1>11. CASE RestoreDraft
  <2>1. CASE draft = None
    BY <1>11, <2>1 DEF RestoreDraft, disk, Open
  <2>2. CASE draft # None
    <3>. PICK b \in Buffers, e \in Entry :
            LET r == RestoredFrom(e)
            IN  /\ saving = None /\ r \in Entry
                /\ entries' = [entries EXCEPT ![b] = r]
                /\ basis' = [basis EXCEPT ![b] = IF SourceChanged THEN None ELSE file]
                /\ view' = b /\ notice' = None /\ recover' = FALSE
                /\ UNCHANGED <<disk, draft, saving, inputs>>
      BY <1>11, <2>2, RestoreStep
    <3>1. entries' \in [Buffers -> Entry \cup {None}] /\ Open(b)'
      BY TypedPut
    <3>. QED BY <3>1 DEF disk, Open
  <2>. QED BY <2>1, <2>2
<1>12. CASE UNCHANGED vars
  BY <1>12 DEF vars, Open
<1>. QED BY <1>1, <1>2, <1>3, <1>4, <1>5, <1>6, <1>7, <1>8, <1>9, <1>10, <1>11, <1>12 DEF Next

\* The entries, the copy and the tab keep their types, and a save is always that of the
\* tab's buffer, which has the path.
THEOREM BuffersTyped == Spec => []TypeOK
<1>1. Typed => TypeOK
  BY DEF Typed
<1>. QED BY InitTyped, NextTyped, <1>1, PTL DEF Spec

-----------------------------------------------------------------------------
(* Unsaved text can be recovered.                                          *)

\* The tab's buffer is the only one, and the one at the path.
Sole == \A b \in Buffers : Open(b) => b = view /\ entries[b].path

\* Drafts are restored into the buffer of the file, or never.
Restorable == IF "crash" \in Ops THEN Openable ELSE ~recover

RInv == Typed /\ Sole /\ Restorable /\ Recoverable

\* Where the daemon may end, other programs only write text.
Calm == "crash" \notin Ops \/ {"delete", "binary", "aside", "unreadable"} \cap Ops = {}

\* A tab has its text in the copy, if this is what the step left there.
LEMMA Copied ==
    ASSUME NEW e \in Entry, NEW b \in Buffers,
           entries'[b] = e, view' = b, draft' \in Draft \cup {None},
           e.dirty => draft' = [text |-> e.text, base |-> e.base] /\ draft' # None
    PROVE  Recoverable'
<1>. SUFFICES ASSUME e.dirty PROVE draft' # None /\ draft'.text = e.text
  BY DEF Recoverable, Viewed
<1>. QED OBVIOUS

LEMMA InitRecoverable == Init => RInv
<1>. SUFFICES ASSUME Init PROVE RInv
  OBVIOUS
<1>1. Sole /\ Recoverable
  BY DEF Init, Sole, Recoverable, Open, Viewed
<1>2. Restorable
  <2>. PICK t \in Text : file = [n |-> 1, text |-> t]
    BY DEF Init
  <2>1. file # Unreadable /\ file.text # None
    BY BufferAssumption DEF Unreadable
  <2>. QED BY <2>1 DEF Init, Restorable, Openable
<1>. QED BY <1>1, <1>2, InitTyped DEF RInv

LEMMA NextRecoverable ==
    ASSUME Calm, RInv, [Next]_vars
    PROVE  RInv'
<1>1. Typed /\ Sole /\ Restorable /\ Recoverable
  BY DEF RInv
<1>2. Typed'
  BY <1>1, NextTyped
\* A step that leaves the file and the promise of a restore.
<1>3. ASSUME UNCHANGED recover, UNCHANGED file \/ ("crash" \in Ops => Openable')
      PROVE  Restorable'
  BY <1>1, <1>3 DEF Restorable, Openable
\* A step that changes the tab's buffer only.
<1>4. ASSUME NEW e \in Entry, entries' = [entries EXCEPT ![view] = e], view \in Buffers,
             view' = view, e.path
      PROVE  Sole' /\ entries'[view] = e
  BY <1>1, <1>4, TypedPut DEF Sole
<1>5. \A b \in Buffers : Open(b) => b = view /\ entries[b].path
  BY <1>1 DEF Sole
<1>6. CASE OpenFile
  <2>. PICK b \in Buffers :
          /\ view = None /\ view' = b
          /\ \A c \in Buffers : c # b => entries'[c] = entries[c] /\ basis'[c] = basis[c]
          /\ \/ Open(b)
             \/ ~Open(b) /\ Openable /\ entries'[b] = OpenedFrom(file)
          /\ UNCHANGED <<disk, draft, saving, notice, recover, inputs>>
    BY <1>1, <1>6, OpenStep
  <2>1. \A c \in Buffers : ~Open(c)
    BY <1>5, BufferAssumption
  <2>2. entries'[b] = OpenedFrom(file) /\ ~entries'[b].dirty /\ entries'[b].path
    BY <2>1 DEF OpenedFrom
  <2>3. Recoverable' /\ Sole'
    BY <2>1, <2>2 DEF Recoverable, Sole, Open, Viewed
  <2>. QED BY <1>2, <1>3, <2>3 DEF RInv, disk
<1>7. CASE EditBuffer \/ ActionBuffer
  <2>. PICK t \in Text, d \in BOOLEAN :
          LET e == entries[view]
              r == [e EXCEPT !.text = t, !.dirty = d]
          IN  /\ view \in Buffers /\ e \in Entry /\ r \in Entry
              /\ entries' = [entries EXCEPT ![view] = r]
              /\ draft' = Recovery(r) /\ draft' \in Draft \cup {None}
              /\ UNCHANGED <<disk, saving, view, recover, notice, basis>>
    BY <1>1, <1>7, EditStep
  <2>. DEFINE r == [entries[view] EXCEPT !.text = t, !.dirty = d]
  <2>1. entries[view].path
    BY <1>1, <1>5, OpenTyped DEF Typed
  <2>2. r \in Entry /\ r.path
    BY <2>1 DEF Entry
  <2>3. /\ draft' = Recovery(r) /\ draft' \in Draft \cup {None} /\ view' = view /\ view \in Buffers
        /\ entries' = [entries EXCEPT ![view] = r]
    OBVIOUS
  <2>. HIDE DEF r
  <2>4. Sole' /\ entries'[view] = r
    BY <1>4, <2>2, <2>3
  <2>5. r.dirty => draft' = [text |-> r.text, base |-> r.base] /\ draft' # None
    BY <1>1, <2>2, <2>3, CheckpointTyped, NoneAssumption DEF Typed, TypeOK
  <2>6. Recoverable'
    BY <2>2, <2>3, <2>4, <2>5, Copied
  <2>. QED BY <1>2, <1>3, <2>4, <2>6 DEF RInv, disk
<1>8. CASE CloseBuffer
  <2>1. /\ entries' = [entries EXCEPT ![view] = None] /\ view' = None
        /\ UNCHANGED <<disk, saving, recover, basis>>
    BY <1>1, <1>8, CloseStep
  <2>2. Recoverable'
    BY <2>1 DEF Recoverable, Viewed
  <2>3. \A c \in Buffers : ~Open(c)'
    BY <1>1, <1>5, <2>1 DEF Open, Typed, TypeOK
  <2>. QED BY <1>2, <1>3, <2>1, <2>2, <2>3 DEF RInv, disk, Sole
<1>9. CASE Poll
  <2>. PICK b \in Buffers :
          LET p == Polled(entries[b])
          IN  /\ entries[b] \in Entry /\ p \in Entry
              /\ entries' = [entries EXCEPT ![b] = p]
              /\ draft' = Checkpoint(p)
              /\ UNCHANGED <<disk, saving, view, recover, inputs>>
    BY <1>1, <1>9, PollStep
  <2>. DEFINE p == Polled(entries[b])
  <2>1. b = view /\ entries[b].path
    BY <1>1, <1>5, OpenTyped DEF Typed
  <2>2. p \in Entry /\ p.path
    BY <1>1, <2>1, PolledTyped DEF Typed, TypeOK
  <2>3. draft' = Checkpoint(p) /\ view' = view /\ entries' = [entries EXCEPT ![b] = p]
    OBVIOUS
  <2>. HIDE DEF p
  <2>4. Sole' /\ entries'[view] = p
    BY <1>4, <2>1, <2>2, <2>3
  <2>5. /\ draft' \in Draft \cup {None}
        /\ p.dirty => draft' = [text |-> p.text, base |-> p.base] /\ draft' # None
    BY <1>1, <2>2, <2>3, CheckpointTyped, NoneAssumption DEF Typed, TypeOK
  <2>6. Recoverable'
    BY <2>1, <2>2, <2>3, <2>4, <2>5, Copied
  <2>. QED BY <1>2, <1>3, <2>4, <2>6 DEF RInv, disk
<1>10. CASE CheckExternal
  <2>1. UNCHANGED <<disk, entries, draft, saving, view, recover>>
    BY <1>1, <1>10, CheckStep
  <2>. QED BY <1>1, <1>2, <1>3, <2>1 DEF RInv, disk, Sole, Recoverable, Open, Viewed, Idle
<1>11. CASE ResolveExternal
  <2>. DEFINE e == entries[view]
              x == [gen |-> notice, dirty |-> TRUE]
  <2>1. /\ saving = None /\ view \in Buffers /\ e \in Entry /\ x \in Notices /\ notice # None
        /\ notice \in Files /\ e.path /\ Open(view)
        /\ UNCHANGED <<disk, saving, view, recover>>
    BY <1>1, <1>5, <1>11, ResolveStep, OpenTyped DEF Typed, TypeOK
  <2>2. CASE \E o \in {None, notice} :
               /\ entries' = [entries EXCEPT ![view] = [e EXCEPT !.ext = x, !.over = o]]
               /\ UNCHANGED <<draft, basis>>
    <3>. PICK o \in {None, notice} :
               /\ entries' = [entries EXCEPT ![view] = [e EXCEPT !.ext = x, !.over = o]]
               /\ UNCHANGED <<draft, basis>>
      BY <2>2
    <3>. DEFINE r == [e EXCEPT !.ext = x, !.over = o]
    <3>1. e \in Entry /\ x \in Notices \cup {None} /\ o \in Files \cup {None}
      BY <2>1
    <3>2. entries' = [entries EXCEPT ![view] = r] /\ UNCHANGED draft
      OBVIOUS
    <3>. HIDE DEF e, x
    <3>3. r \in Entry /\ r.text = e.text /\ r.dirty = e.dirty /\ r.path = e.path
      BY <3>1 DEF Entry
    <3>. HIDE DEF r
    <3>4. Sole' /\ entries'[view] = r
      BY <1>4, <2>1, <3>2, <3>3
    <3>5. Recoverable'
      <4>1. e = entries[view]
        BY DEF e
      <4>. QED BY <1>1, <2>1, <3>2, <3>3, <3>4, <4>1 DEF Recoverable, Viewed, Idle
    <3>. QED BY <1>2, <1>3, <2>1, <3>4, <3>5 DEF RInv, disk
  <2>3. CASE notice.text # None /\ entries' = [entries EXCEPT ![view] = OpenedFrom(notice)]
    <3>1. OpenedFrom(notice) \in Entry /\ OpenedFrom(notice).path /\ ~OpenedFrom(notice).dirty
      BY <2>1, <2>3, OpenedTyped DEF OpenedFrom
    <3>2. Sole' /\ entries'[view] = OpenedFrom(notice)
      BY <1>4, <2>1, <2>3, <3>1
    <3>3. Recoverable'
      BY <2>1, <3>1, <3>2 DEF Recoverable
    <3>. QED BY <1>2, <1>3, <2>1, <3>2, <3>3 DEF RInv, disk
  <2>. QED BY <1>1, <1>11, <2>2, <2>3, ResolveStep
<1>12. CASE SaveWrite
  <2>. DEFINE e == entries[view]
              x == [gen |-> file, dirty |-> e.dirty]
  <2>1. /\ saving = None /\ view \in Buffers /\ e \in Entry /\ x \in Notices /\ e.path
        /\ Open(view) /\ UNCHANGED <<draft, view, recover, aside>>
    BY <1>1, <1>5, <1>12, SaveWriteStep, OpenTyped DEF Typed
  <2>2. CASE /\ entries' = [entries EXCEPT ![view] = [e EXCEPT !.ext = x]]
             /\ UNCHANGED <<disk, saving, basis>>
    <3>. DEFINE r == [e EXCEPT !.ext = x]
    <3>1. r \in Entry /\ r.text = e.text /\ r.dirty = e.dirty /\ r.path = e.path
      BY <2>1, RefusedTyped
    <3>2. Sole' /\ entries'[view] = r
      BY <1>4, <2>1, <2>2, <3>1
    <3>3. Recoverable'
      BY <1>1, <2>1, <2>2, <3>1, <3>2 DEF Recoverable, Viewed, Idle
    <3>. QED BY <1>2, <1>3, <2>1, <2>2, <3>2, <3>3 DEF RInv, disk
  <2>3. CASE /\ entries' = [entries EXCEPT ![view] = [e EXCEPT !.path = TRUE]]
             /\ file' = NewFile(e.text) /\ saving' = view
    <3>1. /\ [e EXCEPT !.path = TRUE] \in Entry /\ [e EXCEPT !.path = TRUE].path
      BY <2>1, NamedTyped
    <3>2. Sole'
      BY <1>4, <2>1, <2>3, <3>1
    <3>3. Recoverable'
      BY <2>1, <2>3, BufferAssumption DEF Recoverable, Idle
    <3>4. e.text \in Text
      BY <2>1, FieldsTyped
    <3>5. Openable'
      BY <1>1, <2>3, <3>4, NewFileTyped, BufferAssumption DEF Openable, Typed, TypeOK, Unreadable, NewFile
    <3>6. Restorable'
      BY <1>3, <2>1, <3>5
    <3>. QED BY <1>2, <3>2, <3>3, <3>6 DEF RInv
  <2>. QED BY <1>1, <1>12, <2>2, <2>3, SaveWriteStep
<1>13. CASE SaveFinish
  <2>. PICK t \in Text, fails \in BOOLEAN, f \in Files :
          LET s == AfterSave(entries[saving], f, t, fails)
          IN  /\ saving \in Buffers /\ saving = view /\ entries[saving] \in Entry
              /\ entries[saving].path /\ s \in Entry
              /\ \/ f = NewFile(t) /\ f.text = t
                 \/ f = file
              /\ file' = f
              /\ entries' = [entries EXCEPT ![saving] = s]
              /\ draft' = Recovery(s) /\ saving' = None /\ notice' = None
              /\ UNCHANGED <<aside, view, recover, inputs>>
    BY <1>1, <1>13, SaveFinishStep
  <2>. DEFINE s == AfterSave(entries[saving], f, t, fails)
  <2>1. s \in Entry /\ s.path /\ view \in Buffers /\ view' = view /\ entries' = [entries EXCEPT ![view] = s]
        /\ draft' = Recovery(s) /\ UNCHANGED recover
    BY SavedTyped
  <2>2. Restorable'
    <3>1. CASE f = NewFile(t) /\ f.text = t
      <4>1. Openable'
        BY <1>1, <3>1, NewFileTyped, BufferAssumption DEF Openable, Typed, TypeOK, Unreadable, NewFile
      <4>. QED BY <1>3, <2>1, <4>1
    <3>2. CASE f = file
      BY <1>3, <2>1, <3>2
    <3>. QED BY <3>1, <3>2
  <2>. HIDE DEF s
  <2>3. Sole' /\ entries'[view] = s
    BY <1>4, <2>1
  <2>4. /\ draft' \in Draft \cup {None}
        /\ s.dirty => draft' = [text |-> s.text, base |-> s.base] /\ draft' # None
    BY <1>1, <2>1, CheckpointTyped, NoneAssumption DEF Typed, TypeOK
  <2>5. Recoverable'
    BY <2>1, <2>3, <2>4, Copied
  <2>. QED BY <1>2, <2>2, <2>3, <2>5 DEF RInv
<1>14. CASE WriteFile \/ DeleteFile \/ MoveAway \/ MoveBack
  <2>1. UNCHANGED <<entries, draft, saving, view, notice, recover, basis>>
    BY <1>1, <1>14, OutsideStep
  <2>2. Sole' /\ Recoverable'
    BY <1>1, <2>1 DEF Sole, Recoverable, Open, Viewed, Idle
  <2>3. ASSUME "crash" \in Ops PROVE Openable'
    <3>. PICK t \in Text \cup {None} : file' = NewFile(t) /\ (t = None => "binary" \in Ops)
      BY <1>1, <1>14, <2>3, OutsideStep DEF Calm
    <3>1. "binary" \notin Ops
      BY <2>3 DEF Calm
    <3>. QED BY <1>1, <3>1, NewFileTyped DEF Openable, Typed, TypeOK, Unreadable, NewFile
  <2>. QED BY <1>2, <1>3, <2>1, <2>2, <2>3 DEF RInv
<1>15. CASE Crash
  <2>1. "crash" \in Ops /\ Openable /\ UNCHANGED file
    BY <1>1, <1>15 DEF Crash, Input, disk, Restorable
  <2>2. Sole' /\ Recoverable'
    BY <1>15 DEF Crash, Sole, Recoverable, Open, Viewed
  <2>. QED BY <1>2, <2>1, <2>2 DEF RInv, Restorable, Openable
<1>16. CASE RestoreDraft
  <2>1. CASE draft = None
    <3>1. UNCHANGED <<entries, draft, saving, view, file>> /\ ~recover'
      BY <1>16, <2>1 DEF RestoreDraft, disk
    <3>. QED BY <1>1, <1>2, <3>1 DEF RInv, Sole, Recoverable, Restorable, Openable, Open, Viewed, Idle
  <2>2. CASE draft # None
    <3>. PICK b \in Buffers, e \in Entry :
            LET r == RestoredFrom(e)
            IN  /\ r \in Entry /\ draft \in Draft
                /\ \/ /\ Openable /\ e = entries[b] /\ e.path /\ e \in Entry
                   \/ /\ Openable /\ e = OpenedFrom(file) /\ ~Open(b)
                      /\ \A c \in Buffers : ~(Open(c) /\ entries[c].path)
                   \/ ~Openable /\ e = Untitled /\ ~Open(b)
                /\ entries' = [entries EXCEPT ![b] = r]
                /\ view' = b /\ notice' = None /\ recover' = FALSE
                /\ UNCHANGED <<disk, draft, saving, inputs>>
      BY <1>1, <1>16, <2>2, RestoreStep
    <3>. DEFINE r == RestoredFrom(e)
    <3>1. Openable /\ "crash" \in Ops
      BY <1>1, <1>16 DEF Restorable, RestoreDraft
    <3>0. e.path
      BY <3>1 DEF OpenedFrom
    <3>2. r.path /\ r.text = draft.text /\ r \in Entry
      BY <1>1, <3>0, RestoredTyped DEF Typed, TypeOK
    <3>3. \A c \in Buffers : Open(c) => c = b
      <4>1. CASE e = entries[b] /\ e \in Entry
        BY <1>1, <1>5, <4>1, OpenTyped DEF Typed
      <4>2. CASE \A c \in Buffers : ~(Open(c) /\ entries[c].path)
        BY <1>5, <4>2
      <4>. QED BY <3>1, <4>1, <4>2
    <3>4. entries' = [entries EXCEPT ![b] = r] /\ view' = b /\ UNCHANGED <<draft, file>> /\ ~recover'
      BY DEF disk
    <3>. HIDE DEF r
    <3>5. entries'[b] = r /\ \A c \in Buffers : c # b => ~Open(c)'
      BY <1>1, <3>2, <3>3, <3>4, TypedPut
    <3>6. Sole' /\ Recoverable'
      BY <2>2, <3>2, <3>4, <3>5 DEF Sole, Recoverable
    <3>. QED BY <1>2, <3>1, <3>4, <3>6 DEF RInv, Restorable, Openable
  <2>. QED BY <2>1, <2>2
<1>17. CASE UNCHANGED vars
  BY <1>1, <1>2, <1>17 DEF vars, RInv, Sole, Recoverable, Restorable, Openable, Open, Viewed, Idle
<1>. QED BY <1>6, <1>7, <1>8, <1>9, <1>10, <1>11, <1>12, <1>13, <1>14, <1>15, <1>16, <1>17
         DEF Next

\* What a tab shows as unsaved is in the recovery copy, whatever was edited, undone,
\* polled, resolved, saved or restored (checkpoint_or_discard, and checkpoint in the poll).
\* Where the daemon may end, the file has to stay a text: a second buffer for the path is
\* made when a draft is restored that cannot be opened.
THEOREM UnsavedIsCopied ==
    ASSUME Calm
    PROVE  Spec => []Recoverable
<1>1. RInv => Recoverable
  BY DEF RInv
<1>. QED BY InitRecoverable, NextRecoverable, <1>1, PTL DEF Spec

-----------------------------------------------------------------------------
(* A clean buffer is the file, or will be told of it.                      *)

Marked(e) == e.ext # None /\ e.ext.dirty

\* The savepoint stands for the file as the worker knows it, unless there is something
\* to review.
Faithful(e) ==
    /\ e.disk # None /\ e.base # None
    /\ Marked(e) \/ (e.saved = e.disk.text /\ (~e.dirty => e.text = e.saved))

\* A clean reload has taken the file it tells of.
Reloaded(e) == e.ext # None /\ ~e.ext.dirty => e.ext.gen = e.disk

AllFaithful == \A b \in Buffers : Open(b) /\ saving # b => Faithful(entries[b]) /\ Reloaded(entries[b])

\* Between the write and the look at it.
Written == saving # None =>
    /\ file = basis[saving] /\ file.text = entries[saving].text /\ entries[saving].base # None

CopyBased == draft # None => draft.base # None

FInv == Typed /\ Written /\ CopyBased /\ AllFaithful

LEMMA OpenedFaithful ==
    ASSUME NEW f \in Files, f.text # None
    PROVE  Faithful(OpenedFrom(f)) /\ Reloaded(OpenedFrom(f))
  BY FilesTyped DEF Faithful, Reloaded, Marked, OpenedFrom

\* A step that changes one buffer, which is not being saved after it, nor another then.
LEMMA FaithfulPut ==
    ASSUME Typed, AllFaithful, NEW b \in Buffers, NEW e \in Entry,
           entries' = [entries EXCEPT ![b] = e], Faithful(e), Reloaded(e),
           saving' = None, saving \in {None, b}
    PROVE  AllFaithful' /\ Written' /\ entries'[b] = e
<1>1. /\ entries'[b] = e
      /\ \A c \in Buffers : c # b => entries'[c] = entries[c] /\ (Open(c)' <=> Open(c))
  BY TypedPut
<1>2. ASSUME NEW c \in Buffers, Open(c)'
      PROVE  Faithful(entries'[c]) /\ Reloaded(entries'[c])
  BY <1>1, <1>2, BufferAssumption DEF AllFaithful
<1>. QED BY <1>1, <1>2 DEF AllFaithful, Written

\* A copy of a faithful entry has a base.
LEMMA FaithfulCopy ==
    ASSUME CopyBased, draft \in Draft \cup {None}, NEW e \in Entry, Faithful(e),
           draft' \in {None, draft, Checkpoint(e), Recovery(e)}
    PROVE  CopyBased'
  BY NoneAssumption DEF CopyBased, Faithful, Checkpoint, Recovery

LEMMA InitFaithful == Init => FInv
  BY InitTyped DEF Init, FInv, Written, CopyBased, AllFaithful, Open

LEMMA NextFaithful ==
    ASSUME {"saveas", "overtake"} \cap Ops = {}, FInv, [Next]_vars
    PROVE  FInv'
<1>1. Typed /\ Written /\ CopyBased /\ AllFaithful
  BY DEF FInv
<1>2. Typed' /\ draft \in Draft \cup {None} /\ None \notin Buffers /\ file \in Files
  BY <1>1, NextTyped, BufferAssumption DEF Typed, TypeOK
<1>3. ASSUME saving = None, NEW b \in Buffers, Open(b)
      PROVE  entries[b] \in Entry /\ Faithful(entries[b]) /\ Reloaded(entries[b])
  BY <1>1, <1>2, <1>3, OpenTyped DEF AllFaithful, Typed
<1>4. CASE OpenFile
  <2>. PICK b \in Buffers :
          /\ saving = None /\ view' = b /\ entries'[b] # None
          /\ \A c \in Buffers : c # b => entries'[c] = entries[c] /\ basis'[c] = basis[c]
          /\ \/ Open(b) /\ entries'[b] = entries[b]
             \/ Openable /\ entries'[b] = OpenedFrom(file)
          /\ UNCHANGED <<disk, draft, saving, notice, recover, inputs>>
    BY <1>1, <1>4, OpenStep
  <2>1. Faithful(entries'[b]) /\ Reloaded(entries'[b])
    BY <1>2, <1>3, OpenedFaithful DEF Openable
  <2>. QED BY <1>1, <1>2, <2>1 DEF FInv, AllFaithful, Written, CopyBased, Open
<1>5. CASE EditBuffer \/ ActionBuffer
  <2>. PICK t \in Text, d \in BOOLEAN :
          LET e == entries[view]
              r == [e EXCEPT !.text = t, !.dirty = d]
          IN  /\ saving = None /\ view \in Buffers /\ e \in Entry
              /\ d \/ t = e.saved
              /\ entries' = [entries EXCEPT ![view] = r]
              /\ draft' = Recovery(r)
              /\ UNCHANGED <<disk, saving, view, recover, notice, basis>>
    BY <1>1, <1>5, EditStep
  <2>. DEFINE e == entries[view]
              r == [e EXCEPT !.text = t, !.dirty = d]
  <2>1. e \in Entry /\ Faithful(e) /\ Reloaded(e)
    BY <1>1, <1>3, OpenTyped DEF Typed
  <2>2. (d \/ t = e.saved) /\ entries' = [entries EXCEPT ![view] = r] /\ draft' = Recovery(r)
        /\ saving = None /\ saving' = None /\ view \in Buffers
    OBVIOUS
  <2>. HIDE DEF e
  <2>3. r \in Entry /\ Faithful(r) /\ Reloaded(r)
    BY <2>1, <2>2 DEF Faithful, Reloaded, Marked, Entry
  <2>. HIDE DEF r
  <2>. QED BY <1>1, <1>2, <2>2, <2>3, FaithfulPut, FaithfulCopy DEF FInv
<1>6. CASE CloseBuffer
  <2>1. /\ saving = None /\ saving' = None /\ draft' \in {None, draft}
        /\ entries' = [entries EXCEPT ![view] = None]
    BY <1>1, <1>6, CloseStep
  <2>. QED BY <1>1, <1>2, <2>1 DEF FInv, AllFaithful, Written, CopyBased, Open, Typed, TypeOK
<1>7. CASE Poll
  <2>. PICK b \in Buffers :
          LET e == entries[b]
              p == Polled(e)
          IN  /\ saving = None /\ e \in Entry
              /\ entries' = [entries EXCEPT ![b] = p]
              /\ draft' = Checkpoint(p)
              /\ UNCHANGED <<disk, saving, view, recover, inputs>>
    BY <1>1, <1>7, PollStep
  <2>. DEFINE e == entries[b]
              p == Polled(e)
  <2>1. e \in Entry /\ Faithful(e)
    BY <1>1, <1>3, OpenTyped DEF Typed
  <2>2. /\ entries' = [entries EXCEPT ![b] = p] /\ draft' = Checkpoint(p)
        /\ saving = None /\ saving' = None
    OBVIOUS
  <2>. HIDE DEF e
  <2>3. /\ p \in Entry /\ p.ext # None /\ p.ext.gen = file /\ (p.ext.dirty <=> ~Reloads(e))
        /\ Reloads(e) => /\ p.text = file.text /\ p.saved = file.text /\ p.base = file.text
                         /\ p.disk = file
        /\ ~Reloads(e) => p.base = e.base /\ p.disk = e.disk
    BY <1>2, <2>1, PolledTyped
  <2>. HIDE DEF p
  <2>4. CASE Reloads(e)
    <3>1. Faithful(p) /\ Reloaded(p)
      BY <1>2, <2>3, <2>4, FilesTyped DEF Faithful, Reloaded, Marked, Reloads
    <3>. QED BY <1>1, <1>2, <2>2, <2>3, <3>1, FaithfulPut, FaithfulCopy DEF FInv
  <2>5. CASE ~Reloads(e)
    <3>1. Faithful(p) /\ Reloaded(p)
      BY <2>1, <2>3, <2>5, NoneAssumption DEF Faithful, Reloaded, Marked
    <3>. QED BY <1>1, <1>2, <2>2, <2>3, <3>1, FaithfulPut, FaithfulCopy DEF FInv
  <2>. QED BY <2>4, <2>5
<1>8. CASE CheckExternal
  <2>1. UNCHANGED <<disk, entries, draft, saving, view, recover, basis>>
    BY <1>1, <1>8, CheckStep
  <2>. QED BY <1>1, <1>2, <2>1 DEF FInv, AllFaithful, Written, CopyBased, Open, disk
<1>9. CASE ResolveExternal
  <2>. DEFINE e == entries[view]
              x == [gen |-> notice, dirty |-> TRUE]
  <2>1. /\ saving = None /\ saving' = None /\ view \in Buffers /\ e \in Entry /\ x \in Notices
        /\ notice # None /\ notice \in Files /\ Faithful(e)
    BY <1>1, <1>3, <1>9, ResolveStep, OpenTyped DEF Typed, TypeOK
  <2>2. CASE \E o \in {None, notice} :
               /\ entries' = [entries EXCEPT ![view] = [e EXCEPT !.ext = x, !.over = o]]
               /\ UNCHANGED <<draft, basis>>
    <3>. PICK o \in {None, notice} :
               /\ entries' = [entries EXCEPT ![view] = [e EXCEPT !.ext = x, !.over = o]]
               /\ UNCHANGED <<draft, basis>>
      BY <2>2
    <3>. DEFINE r == [e EXCEPT !.ext = x, !.over = o]
    <3>1. /\ entries' = [entries EXCEPT ![view] = r] /\ draft' = draft
          /\ x.dirty /\ x # None /\ o \in Files \cup {None}
      BY <2>1, NoneAssumption
    <3>. HIDE DEF e, x
    <3>2. r \in Entry /\ r.ext = x /\ r.disk = e.disk /\ r.base = e.base
      BY <2>1, <3>1 DEF Entry
    <3>. HIDE DEF r
    <3>3. Faithful(r) /\ Reloaded(r)
      BY <2>1, <3>1, <3>2 DEF Faithful, Reloaded, Marked
    <3>. QED BY <1>1, <1>2, <2>1, <3>1, <3>2, <3>3, FaithfulPut, FaithfulCopy DEF FInv
  <2>3. CASE /\ notice.text # None /\ entries' = [entries EXCEPT ![view] = OpenedFrom(notice)]
             /\ draft' = None
    <3>1. OpenedFrom(notice) \in Entry
      BY <2>1, <2>3, OpenedTyped
    <3>2. Faithful(OpenedFrom(notice)) /\ Reloaded(OpenedFrom(notice))
      BY <2>1, <2>3, OpenedFaithful
    <3>. QED BY <1>1, <1>2, <2>1, <2>3, <3>1, <3>2, FaithfulPut, FaithfulCopy DEF FInv
  <2>. QED BY <1>1, <1>9, <2>2, <2>3, ResolveStep
<1>10. CASE SaveWrite
  <2>. DEFINE e == entries[view]
              x == [gen |-> file, dirty |-> e.dirty]
  <2>1. /\ saving = None /\ view \in Buffers /\ e \in Entry /\ x \in Notices /\ Faithful(e)
        /\ x.dirty /\ x # None /\ UNCHANGED <<draft, view, recover, aside>>
    BY <1>1, <1>3, <1>10, SaveWriteStep, OpenTyped, NoneAssumption DEF Typed
  <2>2. CASE /\ entries' = [entries EXCEPT ![view] = [e EXCEPT !.ext = x]]
             /\ UNCHANGED <<disk, saving, basis>>
    <3>. DEFINE r == [e EXCEPT !.ext = x]
    <3>1. entries' = [entries EXCEPT ![view] = r] /\ saving' = None
      BY <2>1, <2>2
    <3>. HIDE DEF e, x
    <3>2. r \in Entry /\ r.ext = x /\ r.disk = e.disk /\ r.base = e.base
      BY <2>1 DEF Entry
    <3>. HIDE DEF r
    <3>3. Faithful(r) /\ Reloaded(r)
      BY <2>1, <3>2 DEF Faithful, Reloaded, Marked
    <3>. QED BY <1>1, <1>2, <2>1, <3>1, <3>2, <3>3, FaithfulPut, FaithfulCopy DEF FInv
  <2>3. CASE /\ entries' = [entries EXCEPT ![view] = [e EXCEPT !.path = TRUE]]
             /\ file' = NewFile(e.text) /\ basis' = [basis EXCEPT ![view] = NewFile(e.text)]
             /\ saving' = view
    <3>. DEFINE r == [e EXCEPT !.path = TRUE]
    <3>1. r \in Entry /\ r.text = e.text /\ r.base = e.base
      BY <2>1, NamedTyped
    <3>2. /\ entries'[view] = r
          /\ \A c \in Buffers : c # view => entries'[c] = entries[c] /\ (Open(c)' <=> Open(c))
      BY <1>1, <2>1, <2>3, <3>1, TypedPut
    <3>3. basis'[view] = NewFile(e.text)
      BY <1>1, <2>1, <2>3 DEF Typed, TypeOK
    <3>4. Written'
      BY <2>1, <2>3, <3>1, <3>2, <3>3 DEF Written, Faithful, NewFile
    <3>5. AllFaithful'
      BY <1>1, <1>2, <2>1, <2>3, <3>2 DEF AllFaithful
    <3>. QED BY <1>1, <1>2, <2>1, <3>4, <3>5 DEF FInv, CopyBased
  <2>. QED BY <1>1, <1>10, <2>2, <2>3, SaveWriteStep
<1>11. CASE SaveFinish
  <2>. PICK t \in Text, fails \in BOOLEAN, f \in Files :
          LET e == entries[saving]
              s == AfterSave(e, f, t, fails)
          IN  /\ saving \in Buffers /\ e \in Entry
              /\ fails => t # e.text
              /\ \/ t # e.text /\ ~fails /\ f.text = t
                 \/ (t = e.text \/ fails) /\ f = file
              /\ entries' = [entries EXCEPT ![saving] = s]
              /\ draft' = Recovery(s) /\ saving' = None
    BY <1>1, <1>11, SaveFinishStep
  <2>. DEFINE e == entries[saving]
              s == AfterSave(e, f, t, fails)
  <2>1. /\ saving \in Buffers /\ e \in Entry /\ e.text \in Text /\ file.text = e.text
        /\ \/ ~fails /\ f.text = t
           \/ fails /\ f.text = e.text
        /\ entries' = [entries EXCEPT ![saving] = s]
        /\ draft' = Recovery(s) /\ saving' = None
    BY <1>1, <1>2, FieldsTyped DEF Written
  <2>. HIDE DEF e
  <2>2. /\ s \in Entry /\ s.text = t /\ s.base = f.text /\ s.disk = f /\ s.ext = None
        /\ s.saved = (IF fails THEN e.text ELSE t)
        /\ s.dirty = (fails \/ (f.text # None /\ f.text # t))
    BY <2>1, SavedTyped
  <2>. HIDE DEF s
  <2>3. Faithful(s) /\ Reloaded(s)
    BY <2>1, <2>2, FilesTyped, BufferAssumption DEF Faithful, Reloaded, Marked
  <2>. QED BY <1>1, <1>2, <2>1, <2>2, <2>3, FaithfulPut, FaithfulCopy DEF FInv
<1>12. CASE WriteFile \/ DeleteFile \/ MoveAway \/ MoveBack
  <2>1. saving = None /\ UNCHANGED <<entries, draft, saving, view, notice, recover, basis>>
    BY <1>1, <1>12, OutsideStep
  <2>. QED BY <1>1, <1>2, <2>1 DEF FInv, AllFaithful, Written, CopyBased, Open
<1>13. CASE Crash
  BY <1>1, <1>2, <1>13 DEF Crash, FInv, AllFaithful, Written, CopyBased, Open
<1>14. CASE RestoreDraft
  <2>1. CASE draft = None
    <3>1. saving = None /\ UNCHANGED <<entries, draft, saving>>
      BY <1>14, <2>1 DEF RestoreDraft, Idle
    <3>. QED BY <1>1, <1>2, <3>1 DEF FInv, AllFaithful, Written, CopyBased, Open
  <2>2. CASE draft # None
    <3>. PICK b \in Buffers, e \in Entry :
            LET r == RestoredFrom(e)
            IN  /\ saving = None /\ r \in Entry /\ draft \in Draft
                /\ \/ Openable /\ e = entries[b] /\ e \in Entry
                   \/ Openable /\ e = OpenedFrom(file)
                   \/ ~Openable /\ e = Untitled
                /\ entries' = [entries EXCEPT ![b] = r]
                /\ UNCHANGED <<disk, draft, saving, inputs>>
      BY <1>1, <1>14, <2>2, RestoreStep
    <3>. DEFINE r == RestoredFrom(e)
    <3>1. /\ r \in Entry /\ r.dirty /\ r.base = draft.base /\ r.saved = e.saved
          /\ SourceChanged => r.ext = [gen |-> file, dirty |-> TRUE] /\ r.disk = file
          /\ ~SourceChanged => r.ext = e.ext /\ r.disk = e.disk
      BY <1>2, RestoredTyped
    <3>2. /\ saving = None /\ saving' = None /\ entries' = [entries EXCEPT ![b] = r]
          /\ draft' = draft
      OBVIOUS
    <3>. HIDE DEF r
    <3>3. draft.base # None
      BY <1>1, <2>2 DEF CopyBased
    <3>4. Faithful(r) /\ Reloaded(r)
      <4>1. CASE SourceChanged
        <5>0. [gen |-> file, dirty |-> TRUE] \in Notices
          BY <1>2 DEF Notices
        <5>1. r.ext # None /\ r.ext.dirty
          BY <3>1, <4>1, <5>0, NoneAssumption
        <5>. QED BY <1>2, <3>1, <3>3, <4>1, <5>1, FilesTyped DEF Faithful, Reloaded, Marked
      <4>2. CASE ~SourceChanged
        <5>1. Openable
          BY <3>3, <4>2 DEF SourceChanged, Openable
        <5>2. Faithful(e) /\ Reloaded(e)
          BY <1>1, <1>2, <1>3, <5>1, OpenedFaithful, OpenTyped DEF Openable, Typed
        <5>. QED BY <3>1, <3>3, <4>2, <5>2 DEF Faithful, Reloaded, Marked
      <4>. QED BY <4>1, <4>2
    <3>. QED BY <1>1, <1>2, <3>1, <3>2, <3>4, FaithfulPut, FaithfulCopy DEF FInv
  <2>. QED BY <2>1, <2>2
<1>15. CASE UNCHANGED vars
  BY <1>1, <1>2, <1>15 DEF vars, FInv, AllFaithful, Written, CopyBased, Open
<1>. QED BY <1>4, <1>5, <1>6, <1>7, <1>8, <1>9, <1>10, <1>11, <1>12, <1>13, <1>14, <1>15 DEF Next

LEMMA FaithfulShown ==
    ASSUME FInv
    PROVE  CleanFollowsDisk /\ CleanShowsDisk
<1>. SUFFICES ASSUME NEW b \in Buffers, Open(b), ~entries[b].dirty, saving # b,
                     entries[b].over = None, ~Pending(entries[b])
              PROVE  /\ entries[b].disk # None /\ entries[b].text = entries[b].disk.text
                     /\ file # Unreadable =>
                            entries[b].text = file.text \/ Noticeable(entries[b])
  BY DEF CleanFollowsDisk, CleanShowsDisk
<1>. DEFINE e == entries[b]
<1>1. e \in Entry /\ Faithful(e) /\ Reloaded(e)
  BY OpenTyped DEF FInv, Typed, AllFaithful
<1>2. e.over = None /\ ~e.dirty /\ ~Pending(e)
  OBVIOUS
<1>. HIDE DEF e
<1>3. ~Marked(e)
  BY <1>1, <1>2, FieldsTyped, FilesTyped DEF Pending, Marked
<1>4. e.disk # None /\ e.text = e.disk.text
  BY <1>1, <1>2, <1>3 DEF Faithful
<1>5. ASSUME file # Unreadable PROVE e.text = file.text \/ Noticeable(e)
  BY <1>1, <1>3, <1>4, <1>5 DEF Noticeable, Reloaded, Marked
<1>. QED BY <1>4, <1>5 DEF e

\* A clean buffer follows the file, or the poll or a review still brings it (the poll of
\* external changes, save_buffer, restore_draft).  A refused Save As of a clean buffer, or
\* a write between the steps of a save, would make the worker take a file for known.
THEOREM CleanIsFollowed ==
    ASSUME {"saveas", "overtake"} \cap Ops = {}
    PROVE  Spec => []CleanFollowsDisk
<1>. QED BY InitFaithful, NextFaithful, FaithfulShown, PTL DEF Spec

-----------------------------------------------------------------------------
(* A review is of the file as it is.                                       *)

\* The newest file written, also while it cannot be read.
Latest == IF file = Unreadable THEN aside ELSE file

\* While nothing removes the file, it is the newest.
Placed ==
    /\ written # 0 /\ file # Missing
    /\ IF file = Unreadable THEN aside # None /\ aside.n = written ELSE file.n = written

\* With n files written, l the newest: a generation of the past, or the newest.
Known(g, n, l) == g.n <= n /\ (g.n = n => g = l)

\* An entry tells of nothing older than it has.
Ordered(e, n, l) ==
    /\ Known(e.disk, n, l)
    /\ e.ext # None => Known(e.ext.gen, n, l) /\ e.disk.n <= e.ext.gen.n

AllOrdered == \A b \in Buffers : Open(b) /\ saving # b => Ordered(entries[b], written, Latest)

\* The tab asks about what the worker has told of its buffer, and not during a save.
Told == notice # None =>
    saving = None /\ view # None /\ entries[view].ext # None /\ entries[view].ext.gen = notice

OInv == FInv /\ Placed /\ AllOrdered /\ Told

LEMMA FileKnown ==
    ASSUME Typed, Placed
    PROVE  /\ Known(file, written, Latest) /\ file \in Files /\ written \in Nat
           /\ file # Unreadable => file.n = written /\ Latest = file
<1>1. file \in Files /\ written \in Nat /\ written # 0 /\ (file # Unreadable => file.n = written)
  BY DEF Typed, TypeOK, Placed
<1>. QED BY <1>1, FilesTyped DEF Known, Latest

\* Entries as the steps make them.
LEMMA OpenedOrdered ==
    ASSUME NEW f \in Files, NEW n \in Nat, NEW l, Known(f, n, l)
    PROVE  Ordered(OpenedFrom(f), n, l)
  BY DEF Ordered, OpenedFrom

LEMMA TellingOrdered ==
    ASSUME Typed, Placed, NEW e \in Entry, e.disk # None, e.ext # None, e.ext.gen = file,
           file # Unreadable, Known(e.disk, written, Latest)
    PROVE  Ordered(e, written, Latest)
<1>1. e.disk \in Files /\ e.disk.n \in Nat
  BY FieldsTyped, FilesTyped
<1>. QED BY <1>1, FileKnown DEF Ordered, Known

LEMMA OrderedStays ==
    ASSUME NEW e \in Entry, e.disk # None, NEW n \in Nat, NEW l, NEW m \in Nat, NEW k,
           Ordered(e, n, l), (m = n /\ k = l) \/ m = n + 1
    PROVE  Ordered(e, m, k)
<1>1. e.disk.n \in Nat /\ (e.ext # None => e.ext.gen.n \in Nat)
  BY FieldsTyped, FilesTyped
<1>. QED BY <1>1 DEF Ordered, Known

\* A step that changes one buffer, which is not being saved after it, nor another then,
\* and writes at most one file.
LEMMA OrderedPut ==
    ASSUME FInv, AllOrdered, NEW b \in Buffers, NEW e \in Entry,
           entries' = [entries EXCEPT ![b] = e], Ordered(e, written', Latest'),
           saving \in {None, b}, written' \in Nat,
           (written' = written /\ Latest' = Latest) \/ written' = written + 1
    PROVE  AllOrdered'
<1>1. /\ entries'[b] = e
      /\ \A c \in Buffers : c # b => entries'[c] = entries[c] /\ (Open(c)' <=> Open(c))
  BY TypedPut DEF FInv
<1>2. ASSUME NEW c \in Buffers, c # b, Open(c)'
      PROVE  Ordered(entries'[c], written', Latest')
  <2>1. entries[c] \in Entry /\ entries[c].disk # None /\ Ordered(entries[c], written, Latest)
        /\ written \in Nat
    BY <1>1, <1>2, OpenTyped, BufferAssumption
       DEF AllOrdered, FInv, AllFaithful, Faithful, Typed, TypeOK
  <2>. QED BY <1>1, <1>2, <2>1, OrderedStays
<1>. QED BY <1>1, <1>2 DEF AllOrdered

LEMMA InitOrdered == Init => OInv
<1>. SUFFICES ASSUME Init PROVE OInv
  OBVIOUS
<1>1. FInv
  BY InitFaithful
<1>2. written = 1 /\ file.n = 1
  BY DEF Init
<1>3. Placed
  BY <1>2 DEF Placed, Missing, Unreadable
<1>. QED BY <1>1, <1>3 DEF Init, OInv, AllOrdered, Told, Open

LEMMA NextOrdered ==
    ASSUME {"saveas", "overtake", "aside", "delete"} \cap Ops = {}, OInv, [Next]_vars
    PROVE  OInv'
<1>1. FInv /\ Typed /\ Placed /\ AllOrdered /\ Told
  BY DEF OInv, FInv
<1>2. FInv' /\ None \notin Buffers /\ file \in Files /\ written \in Nat
  BY <1>1, NextFaithful, BufferAssumption DEF Typed, TypeOK
<1>3. ASSUME saving = None, NEW b \in Buffers, Open(b)
      PROVE  /\ entries[b] \in Entry /\ entries[b].disk # None
             /\ Ordered(entries[b], written, Latest)
  BY <1>1, <1>2, <1>3, OpenTyped DEF AllOrdered, FInv, AllFaithful, Faithful, Typed
<1>4. Known(file, written, Latest) /\ (file # Unreadable => file.n = written /\ Latest = file)
  BY <1>1, FileKnown
\* A step that leaves the disk.
<1>5. ASSUME UNCHANGED disk
      PROVE  Placed' /\ Latest' = Latest /\ written' = written
  BY <1>1, <1>5 DEF disk, Placed, Latest
<1>6. CASE OpenFile
  <2>. PICK b \in Buffers :
          /\ saving = None /\ view = None /\ entries'[b] # None
          /\ \A c \in Buffers : c # b => entries'[c] = entries[c] /\ basis'[c] = basis[c]
          /\ \/ Open(b) /\ entries'[b] = entries[b]
             \/ Openable /\ entries'[b] = OpenedFrom(file)
          /\ UNCHANGED <<disk, draft, saving, notice, recover, inputs>>
    BY <1>1, <1>6, OpenStep
  <2>1. Ordered(entries'[b], written, Latest)
    BY <1>2, <1>3, <1>4, OpenedOrdered
  <2>2. notice' = None
    BY <1>1 DEF Told
  <2>3. AllOrdered'
    BY <1>1, <1>5, <2>1 DEF AllOrdered, Open
  <2>. QED BY <1>2, <1>5, <2>2, <2>3 DEF OInv, Told
<1>7. CASE EditBuffer \/ ActionBuffer
  <2>. PICK t \in Text, d \in BOOLEAN :
          LET e == entries[view]
              r == [e EXCEPT !.text = t, !.dirty = d]
          IN  /\ saving = None /\ view \in Buffers /\ e \in Entry
              /\ entries' = [entries EXCEPT ![view] = r]
              /\ UNCHANGED <<disk, saving, view, recover, notice, basis>>
    BY <1>1, <1>7, EditStep
  <2>. DEFINE e == entries[view]
              r == [e EXCEPT !.text = t, !.dirty = d]
  <2>1. e \in Entry /\ Ordered(e, written, Latest)
    BY <1>1, <1>3, OpenTyped DEF Typed
  <2>2. entries' = [entries EXCEPT ![view] = r]
        /\ saving = None /\ saving' = None /\ view \in Buffers
    OBVIOUS
  <2>3. e = entries[view]
    OBVIOUS
  <2>. HIDE DEF e
  <2>4. r \in Entry /\ r.ext = e.ext /\ r.disk = e.disk
    BY <2>1 DEF Entry
  <2>. HIDE DEF r
  <2>5. Ordered(r, written', Latest')
    BY <1>5, <2>1, <2>4 DEF Ordered
  <2>6. AllOrdered'
    BY <1>1, <1>2, <1>5, <2>2, <2>4, <2>5, OrderedPut
  <2>7. entries'[view] = r
    BY <1>1, <2>2 DEF Typed, TypeOK
  <2>8. Told'
    BY <1>1, <2>2, <2>3, <2>4, <2>7 DEF Told
  <2>. QED BY <1>2, <1>5, <2>6, <2>8 DEF OInv
<1>8. CASE CloseBuffer
  <2>1. /\ entries' = [entries EXCEPT ![view] = None] /\ notice' = None
        /\ UNCHANGED <<disk, saving>>
    BY <1>1, <1>8, CloseStep
  <2>. QED BY <1>1, <1>2, <1>5, <2>1 DEF OInv, AllOrdered, Told, Open, Typed, TypeOK
<1>9. CASE Poll
  <2>. PICK b \in Buffers :
          LET e == entries[b]
              p == Polled(e)
          IN  /\ saving = None /\ e \in Entry /\ file # Unreadable
              /\ entries' = [entries EXCEPT ![b] = p]
              /\ notice' = IF view = b THEN Asked(file, p.dirty) ELSE notice
              /\ UNCHANGED <<disk, saving, view, recover, inputs>>
    BY <1>1, <1>9, PollStep
  <2>. DEFINE e == entries[b]
              p == Polled(e)
  <2>1. e \in Entry /\ e.disk # None /\ Known(e.disk, written, Latest)
    BY <1>1, <1>3, OpenTyped DEF Typed, Ordered
  <2>2. /\ entries' = [entries EXCEPT ![b] = p] /\ saving = None /\ saving' = None
        /\ view = b => notice' \in {file, None}
        /\ view # b => notice' = notice
    BY DEF Asked
  <2>. HIDE DEF e
  <2>3. p \in Entry /\ p.ext # None /\ p.ext.gen = file /\ p.disk \in {file, e.disk}
    BY <1>2, <2>1, PolledTyped
  <2>. HIDE DEF p
  <2>4. Ordered(p, written', Latest')
    BY <1>1, <1>2, <1>4, <1>5, <2>1, <2>3, TellingOrdered, FilesTyped
  <2>5. AllOrdered'
    BY <1>1, <1>2, <1>5, <2>2, <2>3, <2>4, OrderedPut
  <2>6. entries'[b] = p /\ (view # b /\ view # None => entries'[view] = entries[view])
    BY <1>1, <2>2 DEF Typed, TypeOK
  <2>7. Told'
    BY <1>1, <1>2, <2>2, <2>3, <2>6 DEF Told
  <2>. QED BY <1>2, <1>5, <2>5, <2>7 DEF OInv
<1>10. CASE CheckExternal
  <2>1. /\ saving = None /\ view \in Buffers
        /\ Pending(entries[view]) /\ notice' = entries[view].ext.gen
        /\ UNCHANGED <<disk, entries, draft, saving, view>>
    BY <1>1, <1>10, CheckStep
  <2>. QED BY <1>1, <1>2, <1>5, <2>1 DEF OInv, AllOrdered, Told, Open, Pending
<1>11. CASE ResolveExternal
  <2>. DEFINE e == entries[view]
              x == [gen |-> notice, dirty |-> TRUE]
  <2>1. /\ saving = None /\ saving' = None /\ view \in Buffers /\ e \in Entry /\ x \in Notices
        /\ notice # None /\ notice = file /\ file # Unreadable /\ e.disk # None
        /\ Known(e.disk, written, Latest) /\ UNCHANGED <<disk, saving, view>>
    BY <1>1, <1>3, <1>11, ResolveStep, OpenTyped DEF Typed, Ordered
  <2>2. CASE \E o \in {None, notice} :
               /\ entries' = [entries EXCEPT ![view] = [e EXCEPT !.ext = x, !.over = o]]
               /\ notice' = IF o = None THEN notice ELSE None
    <3>. PICK o \in {None, notice} :
               /\ entries' = [entries EXCEPT ![view] = [e EXCEPT !.ext = x, !.over = o]]
               /\ notice' = IF o = None THEN notice ELSE None
      BY <2>2
    <3>. DEFINE r == [e EXCEPT !.ext = x, !.over = o]
    <3>1. /\ entries' = [entries EXCEPT ![view] = r] /\ notice' \in {notice, None}
          /\ x.gen = file /\ x # None /\ o \in Files \cup {None}
      BY <1>2, <2>1, NoneAssumption
    <3>. HIDE DEF e, x
    <3>2. r \in Entry /\ r.ext = x /\ r.disk = e.disk
      BY <2>1, <3>1 DEF Entry
    <3>. HIDE DEF r
    <3>3. Ordered(r, written', Latest')
      BY <1>1, <1>5, <2>1, <3>1, <3>2, TellingOrdered
    <3>4. AllOrdered'
      BY <1>1, <1>2, <1>5, <2>1, <3>1, <3>2, <3>3, OrderedPut
    <3>5. entries'[view] = r
      BY <1>1, <2>1, <3>1 DEF Typed, TypeOK
    <3>6. Told'
      BY <1>2, <2>1, <3>1, <3>2, <3>5 DEF Told
    <3>. QED BY <1>2, <1>5, <2>1, <3>4, <3>6 DEF OInv
  <2>3. CASE /\ notice.text # None /\ entries' = [entries EXCEPT ![view] = OpenedFrom(notice)]
             /\ notice' = None
    <3>1. OpenedFrom(notice) \in Entry /\ Ordered(OpenedFrom(notice), written', Latest')
      BY <1>2, <1>4, <1>5, <2>1, <2>3, OpenedTyped, OpenedOrdered
    <3>2. AllOrdered'
      BY <1>1, <1>2, <1>5, <2>1, <2>3, <3>1, OrderedPut
    <3>. QED BY <1>2, <1>5, <2>1, <2>3, <3>2 DEF OInv, Told
  <2>. QED BY <1>1, <1>11, <2>2, <2>3, ResolveStep
<1>12. CASE SaveWrite
  <2>. DEFINE e == entries[view]
              x == [gen |-> file, dirty |-> e.dirty]
  <2>1. /\ saving = None /\ view \in Buffers /\ e \in Entry /\ x \in Notices
        /\ e.disk # None /\ Known(e.disk, written, Latest)
        /\ x.gen = file /\ x # None /\ file # Unreadable /\ notice = None /\ view' = view
    BY <1>1, <1>3, <1>12, SaveWriteStep, OpenTyped, NoneAssumption DEF Typed, Ordered
  <2>2. CASE /\ entries' = [entries EXCEPT ![view] = [e EXCEPT !.ext = x]]
             /\ notice' = Asked(file, e.dirty) /\ UNCHANGED <<disk, saving, basis>>
    <3>. DEFINE r == [e EXCEPT !.ext = x]
    <3>1. entries' = [entries EXCEPT ![view] = r] /\ notice' \in {file, None}
      BY <2>2 DEF Asked
    <3>. HIDE DEF e, x
    <3>2. r \in Entry /\ r.ext = x /\ r.disk = e.disk
      BY <2>1 DEF Entry
    <3>. HIDE DEF r
    <3>3. Ordered(r, written', Latest')
      BY <1>1, <1>5, <2>1, <2>2, <3>2, TellingOrdered
    <3>4. AllOrdered'
      BY <1>1, <1>2, <1>5, <2>1, <2>2, <3>1, <3>2, <3>3, OrderedPut
    <3>5. entries'[view] = r
      BY <1>1, <2>1, <3>1 DEF Typed, TypeOK
    <3>6. Told'
      BY <1>2, <2>1, <2>2, <3>1, <3>2, <3>5 DEF Told
    <3>. QED BY <1>2, <1>5, <2>2, <3>4, <3>6 DEF OInv
  <2>3. CASE /\ entries' = [entries EXCEPT ![view] = [e EXCEPT !.path = TRUE]]
             /\ file' = NewFile(e.text) /\ written' = written + 1
             /\ saving' = view /\ UNCHANGED notice
    <3>. DEFINE r == [e EXCEPT !.path = TRUE]
    <3>1. r \in Entry /\ r.ext = e.ext /\ r.disk = e.disk
      BY <2>1, NamedTyped
    <3>2. Ordered(e, written, Latest) /\ written' \in Nat
      BY <1>1, <1>2, <1>3, <2>1, <2>3, OpenTyped DEF Typed
    <3>3. Ordered(r, written', Latest')
      BY <1>2, <2>1, <2>3, <3>1, <3>2, OrderedStays DEF Ordered
    <3>4. AllOrdered'
      BY <1>1, <1>2, <2>1, <2>3, <3>1, <3>2, <3>3, OrderedPut
    <3>5. Placed'
      BY <1>2, <2>1, <2>3, FieldsTyped, NewFileTyped DEF Placed
    <3>. QED BY <1>2, <2>1, <2>3, <3>4, <3>5 DEF OInv, Told
  <2>. QED BY <1>1, <1>12, <2>2, <2>3, SaveWriteStep
<1>13. CASE SaveFinish
  <2>. PICK t \in Text, fails \in BOOLEAN, f \in Files :
          LET s == AfterSave(entries[saving], f, t, fails)
          IN  /\ saving \in Buffers /\ entries[saving] \in Entry
              /\ \/ f = NewFile(t) /\ written' = written + 1
                 \/ f = file /\ UNCHANGED written
              /\ file' = f
              /\ entries' = [entries EXCEPT ![saving] = s]
              /\ saving' = None /\ notice' = None /\ UNCHANGED aside
    BY <1>1, <1>13, SaveFinishStep
  <2>. DEFINE s == AfterSave(entries[saving], f, t, fails)
  <2>1. s \in Entry /\ s.disk = f /\ s.ext = None
    BY SavedTyped
  <2>2. entries' = [entries EXCEPT ![saving] = s] /\ saving \in Buffers /\ saving' = None
    OBVIOUS
  <2>. HIDE DEF s
  <2>3. /\ Placed' /\ Known(file', written', Latest') /\ written' \in Nat
        /\ (written' = written /\ Latest' = Latest) \/ written' = written + 1
    <3>1. CASE f = NewFile(t) /\ written' = written + 1
      BY <1>2, <3>1, NewFileTyped DEF Placed, Known, Latest
    <3>2. CASE f = file /\ UNCHANGED written
      BY <1>1, <1>2, <1>4, <3>2 DEF Placed, Known, Latest
    <3>. QED BY <3>1, <3>2
  <2>4. Ordered(s, written', Latest')
    BY <2>1, <2>3 DEF Ordered
  <2>5. AllOrdered'
    BY <1>1, <2>1, <2>2, <2>3, <2>4, OrderedPut
  <2>. QED BY <1>2, <2>3, <2>5 DEF OInv, Told
<1>14. CASE WriteFile \/ DeleteFile \/ MoveAway \/ MoveBack
  <2>1. saving = None /\ UNCHANGED <<entries, draft, saving, view, notice, recover, basis>>
    BY <1>1, <1>14, OutsideStep
  <2>2. /\ Placed' /\ written' \in Nat
        /\ (written' = written /\ Latest' = Latest) \/ written' = written + 1
    <3>1. CASE \E t \in Text \cup {None} :
                 file # Unreadable /\ file' = NewFile(t) /\ written' = written + 1
      BY <1>2, <3>1, NewFileTyped DEF Placed
    <3>2. CASE aside = None /\ file' = Unreadable /\ aside' = file /\ UNCHANGED written
      <4>1. file # Unreadable
        BY <1>1, <3>2 DEF Placed
      <4>. QED BY <1>1, <1>2, <1>4, <3>2, <4>1, FilesTyped DEF Placed, Latest
    <3>3. CASE /\ aside # None /\ file' = aside /\ aside' = None /\ file = Unreadable
               /\ UNCHANGED written
      <4>1. file'.n = written /\ written # 0
        BY <1>1, <3>3 DEF Placed
      <4>2. file' # Missing /\ file' # Unreadable
        BY <4>1, FilesTyped
      <4>. QED BY <1>2, <3>3, <4>1, <4>2 DEF Placed, Latest
    <3>. QED BY <1>1, <1>14, <3>1, <3>2, <3>3, OutsideStep DEF Placed
  <2>3. ASSUME NEW c \in Buffers, Open(c)
        PROVE  Ordered(entries[c], written', Latest')
    BY <1>2, <1>3, <2>1, <2>2, <2>3, OrderedStays
  <2>. QED BY <1>1, <1>2, <2>1, <2>2, <2>3 DEF OInv, AllOrdered, Told, Open
<1>15. CASE Crash
  BY <1>2, <1>5, <1>15 DEF Crash, OInv, AllOrdered, Told, Open
<1>16. CASE RestoreDraft
  <2>1. CASE draft = None
    <3>1. UNCHANGED <<entries, saving, view, notice, disk>>
      BY <1>16, <2>1 DEF RestoreDraft
    <3>. QED BY <1>1, <1>2, <1>5, <3>1 DEF OInv, AllOrdered, Told, Open
  <2>2. CASE draft # None
    <3>. PICK b \in Buffers, e \in Entry :
            LET r == RestoredFrom(e)
            IN  /\ saving = None /\ draft \in Draft
                /\ \/ Openable /\ e = entries[b] /\ e \in Entry
                   \/ Openable /\ e = OpenedFrom(file)
                   \/ ~Openable /\ e = Untitled
                /\ entries' = [entries EXCEPT ![b] = r]
                /\ notice' = None
                /\ UNCHANGED <<disk, draft, saving, inputs>>
      BY <1>1, <1>16, <2>2, RestoreStep
    <3>. DEFINE r == RestoredFrom(e)
    <3>1. /\ r \in Entry
          /\ SourceChanged => r.ext = [gen |-> file, dirty |-> TRUE] /\ r.disk = file
          /\ ~SourceChanged => r.ext = e.ext /\ r.disk = e.disk
      BY <1>2, RestoredTyped
    <3>2. entries' = [entries EXCEPT ![b] = r] /\ saving = None
      OBVIOUS
    <3>. HIDE DEF r
    <3>3. Ordered(r, written', Latest')
      <4>1. CASE SourceChanged
        <5>1. r.ext.gen = file /\ r.disk = file /\ file.n \in Nat
          BY <1>2, <3>1, <4>1, FilesTyped
        <5>. QED BY <1>4, <1>5, <5>1 DEF Ordered
      <4>2. CASE ~SourceChanged
        <5>1. draft.base # None
          BY <1>1, <2>2 DEF FInv, CopyBased
        <5>2. Openable
          BY <4>2, <5>1 DEF SourceChanged, Openable
        <5>3. Ordered(e, written, Latest)
          BY <1>1, <1>2, <1>3, <1>4, <5>2, OpenedOrdered, OpenTyped DEF Typed
        <5>. QED BY <1>5, <3>1, <4>2, <5>3 DEF Ordered
      <4>. QED BY <4>1, <4>2
    <3>4. AllOrdered'
      BY <1>1, <1>2, <1>5, <3>1, <3>2, <3>3, OrderedPut
    <3>. QED BY <1>2, <1>5, <3>4 DEF OInv, Told
  <2>. QED BY <2>1, <2>2
<1>17. CASE UNCHANGED vars
  BY <1>1, <1>2, <1>5, <1>17 DEF vars, disk, OInv, AllOrdered, Told, Open
<1>. QED BY <1>6, <1>7, <1>8, <1>9, <1>10, <1>11, <1>12, <1>13, <1>14, <1>15, <1>16, <1>17
         DEF Next

LEMMA OrderedReview ==
    ASSUME OInv
    PROVE  ReviewIsCurrent
<1>. SUFFICES ASSUME Viewed, notice # None, file # Unreadable, notice # file
              PROVE  Noticeable(entries[view])
  BY DEF ReviewIsCurrent
<1>. DEFINE e == entries[view]
<1>1. saving = None /\ view \in Buffers /\ Open(view) /\ e.ext # None /\ e.ext.gen = notice
  BY DEF OInv, Told, Viewed, FInv, Typed, TypeOK
<1>2. e \in Entry /\ e.disk # None /\ Ordered(e, written, Latest)
  BY <1>1, OpenTyped, BufferAssumption DEF OInv, FInv, Typed, AllOrdered, AllFaithful, Faithful
<1>. HIDE DEF e
<1>3. file.n = written /\ Latest = file /\ written \in Nat
  BY FileKnown DEF OInv, FInv
<1>4. e.disk.n \in Nat /\ e.ext.gen.n \in Nat
  BY <1>1, <1>2, FieldsTyped, FilesTyped
<1>5. e.disk # file
  BY <1>1, <1>2, <1>3, <1>4 DEF Ordered, Known
<1>6. Noticeable(e)
  BY <1>1, <1>2, <1>5 DEF Noticeable
<1>. QED BY <1>6 DEF e

\* What a tab is shown is true: its types, a buffer without a mark is the file as the
\* worker knows it, and the generation it is to review is the file, or the poll has more to
\* tell (poll_external, check_external, save_buffer, restore_draft).  A file that comes
\* back from where it was moved, or is deleted twice, is one the worker takes for known.
THEOREM ViewStaysTrue ==
    ASSUME {"saveas", "overtake", "aside", "delete"} \cap Ops = {}
    PROVE  Spec => []ViewIsTrue
<1>1. OInv => ViewIsTrue
  BY FaithfulShown, OrderedReview DEF ViewIsTrue, OInv, FInv, Typed
<1>. QED BY InitOrdered, NextOrdered, <1>1, PTL DEF Spec

-----------------------------------------------------------------------------
(* A save replaces no file unseen.                                         *)

\* What is numbered is one of the files written; what cannot be read is aside.
Numbered ==
    /\ file # Missing /\ file # Unreadable => file.n # 0 /\ file.n <= written
    /\ aside # None => aside.n # 0 /\ aside.n <= written
    /\ file = Unreadable => aside # None

\* Where drafts are restored no file is moved away and back, and only there.
Undisturbed ==
    /\ "crash" \in Ops => aside = None \/ file = Unreadable
    /\ recover => "crash" \in Ops

Writing == saving # None => file = basis[saving] /\ file # Missing /\ file # Unreadable

\* With d the file the text is based on, f at the path, a aside and n written: the entry
\* has its text from the file it tells of, unless a draft was restored into it.  Then there
\* is something to review, or the file it tells of is gone for good.
Based(e, d, f, a, n) ==
    /\ e.path \/ "crash" \in Ops
    /\ e.path =>
         /\ e.disk # None /\ e.disk.n # 0 /\ e.disk.n <= n
         /\ e.disk = d \/ ("crash" \in Ops /\ (Marked(e) \/ (e.disk # f /\ e.disk # a)))

AllBased == \A b \in Buffers :
    Open(b) /\ saving # b => Based(entries[b], basis[b], file, aside, written)

SInv == Typed /\ Numbered /\ Undisturbed /\ Writing /\ AllBased

\* The environments for which saves are safe.
Guarded ==
    /\ "overtake" \notin Ops
    /\ "crash" \notin Ops \/ {"saveas", "aside"} \cap Ops = {}

LEMMA OpenedBased ==
    ASSUME Typed, Numbered, NEW f \in Files, f = file, f.text # None, f # Unreadable
    PROVE  \A d : d = file => Based(OpenedFrom(f), d, file, aside, written)
  BY FilesTyped DEF Based, OpenedFrom, Numbered

\* What happens to the disk leaves the other entries as they are.
DiskMoves ==
    \/ UNCHANGED disk
    \/ /\ written' = written + 1 /\ UNCHANGED aside
       /\ \E t \in Text \cup {None} : file' = NewFile(t)
    \/ file' = Missing /\ UNCHANGED <<aside, written>>
    \/ aside' = file /\ file' \in {Missing, Unreadable} /\ UNCHANGED written
    \/ aside # None /\ file' = aside /\ aside' = None /\ UNCHANGED written

LEMMA BasedStays ==
    ASSUME Typed, DiskMoves, NEW e \in Entry, NEW d, Based(e, d, file, aside, written)
    PROVE  Based(e, d, file', aside', written')
<1>. SUFFICES ASSUME e.path, e.disk # d, ~Marked(e)
              PROVE  e.disk # file' /\ e.disk # aside'
  <2>1. written \in Nat /\ written' \in {written, written + 1}
    BY DEF Typed, TypeOK, DiskMoves, disk
  <2>2. e.disk # None => e.disk.n \in Nat
    BY FieldsTyped, FilesTyped
  <2>. QED BY <2>1, <2>2 DEF Based
<1>1. e.disk # None /\ e.disk.n # 0 /\ e.disk.n <= written /\ e.disk # file /\ e.disk # aside
  BY DEF Based
<1>2. e.disk.n \in Nat /\ written \in Nat
  BY <1>1, FieldsTyped, FilesTyped DEF Typed, TypeOK
<1>3. e.disk # Missing /\ e.disk # Unreadable
  BY <1>1, FilesTyped
<1>4. \A t \in Text \cup {None} : e.disk # NewFile(t)
  BY <1>1, <1>2, NewFileTyped
<1>. QED BY <1>1, <1>3, <1>4 DEF DiskMoves, disk

\* A step that changes one buffer, which is not being saved after it, nor another then.
LEMMA BasedPut ==
    ASSUME Typed, AllBased, DiskMoves, NEW b \in Buffers, NEW e \in Entry,
           entries' = [entries EXCEPT ![b] = e],
           Based(e, basis'[b], file', aside', written') \/ saving' = b,
           \A c \in Buffers : c # b => basis'[c] = basis[c],
           saving \in {None, b}
    PROVE  AllBased'
<1>1. /\ entries'[b] = e
      /\ \A c \in Buffers : c # b => entries'[c] = entries[c] /\ (Open(c)' <=> Open(c))
  BY TypedPut
<1>2. ASSUME NEW c \in Buffers, c # b, Open(c)'
      PROVE  Based(entries'[c], basis'[c], file', aside', written')
  <2>1. entries[c] \in Entry /\ Based(entries[c], basis[c], file, aside, written)
    BY <1>1, <1>2, OpenTyped, BufferAssumption DEF AllBased, Typed
  <2>. QED BY <1>1, <1>2, <2>1, BasedStays
<1>. QED BY <1>1, <1>2 DEF AllBased

LEMMA InitBased == Init => SInv
<1>. SUFFICES ASSUME Init PROVE SInv
  OBVIOUS
<1>1. Typed
  BY InitTyped
<1>2. written = 1 /\ file.n = 1 /\ aside = None /\ ~recover /\ saving = None
      /\ \A b \in Buffers : ~Open(b)
  BY DEF Init, Open
<1>3. file # Unreadable
  BY <1>2 DEF Unreadable
<1>. QED BY <1>1, <1>2, <1>3 DEF SInv, Numbered, Undisturbed, Writing, AllBased

LEMMA NextBased ==
    ASSUME Guarded, SInv, [Next]_vars
    PROVE  SInv'
<1>1. Typed /\ Numbered /\ Undisturbed /\ Writing /\ AllBased
  BY DEF SInv
<1>2. /\ Typed' /\ None \notin Buffers /\ file \in Files /\ written \in Nat
      /\ basis \in [Buffers -> Files \cup {None}]
  BY <1>1, NextTyped, BufferAssumption DEF Typed, TypeOK
<1>3. ASSUME saving = None, NEW b \in Buffers, Open(b)
      PROVE  entries[b] \in Entry /\ Based(entries[b], basis[b], file, aside, written)
  BY <1>1, <1>2, <1>3, OpenTyped DEF AllBased, Typed
\* A step that leaves the disk.
<1>4. ASSUME UNCHANGED disk
      PROVE  Numbered' /\ DiskMoves /\ UNCHANGED <<file, aside, written>>
  BY <1>1, <1>4 DEF disk, Numbered, DiskMoves
<1>5. ASSUME UNCHANGED disk, recover' => recover
      PROVE  Undisturbed'
  BY <1>1, <1>5 DEF disk, Undisturbed
<1>6. CASE OpenFile
  <2>. PICK b \in Buffers :
          /\ saving = None /\ view = None /\ entries'[b] # None
          /\ \A c \in Buffers : c # b => entries'[c] = entries[c] /\ basis'[c] = basis[c]
          /\ \/ Open(b) /\ entries'[b] = entries[b] /\ basis'[b] = basis[b]
             \/ Openable /\ entries'[b] = OpenedFrom(file) /\ basis'[b] = file
          /\ UNCHANGED <<disk, draft, saving, notice, recover, inputs>>
    BY <1>1, <1>6, OpenStep
  <2>1. Based(entries'[b], basis'[b], file, aside, written)
    BY <1>1, <1>2, <1>3, OpenedBased DEF Openable
  <2>2. AllBased'
    BY <1>1, <1>4, <2>1 DEF AllBased, Open
  <2>. QED BY <1>2, <1>4, <1>5, <2>2 DEF SInv, Writing
<1>7. CASE EditBuffer \/ ActionBuffer
  <2>. PICK t \in Text, d \in BOOLEAN :
          LET e == entries[view]
              r == [e EXCEPT !.text = t, !.dirty = d]
          IN  /\ saving = None /\ view \in Buffers /\ e \in Entry
              /\ entries' = [entries EXCEPT ![view] = r]
              /\ UNCHANGED <<disk, saving, view, recover, notice, basis>>
    BY <1>1, <1>7, EditStep
  <2>. DEFINE e == entries[view]
              r == [e EXCEPT !.text = t, !.dirty = d]
  <2>1. e \in Entry /\ Based(e, basis[view], file, aside, written)
    BY <1>1, <1>3, OpenTyped DEF Typed
  <2>2. entries' = [entries EXCEPT ![view] = r]
        /\ saving = None /\ saving' = None /\ view \in Buffers /\ basis' = basis
    OBVIOUS
  <2>. HIDE DEF e
  <2>3. r \in Entry /\ r.ext = e.ext /\ r.disk = e.disk /\ r.path = e.path
    BY <2>1 DEF Entry
  <2>. HIDE DEF r
  <2>4. Based(r, basis'[view], file', aside', written')
    BY <1>4, <2>1, <2>2, <2>3 DEF Based, Marked
  <2>5. AllBased'
    BY <1>1, <1>4, <2>2, <2>3, <2>4, BasedPut
  <2>. QED BY <1>2, <1>4, <1>5, <2>2, <2>5 DEF SInv, Writing
<1>8. CASE CloseBuffer
  <2>1. /\ entries' = [entries EXCEPT ![view] = None] /\ saving = None
        /\ UNCHANGED <<disk, saving, recover, basis>>
    BY <1>1, <1>8, CloseStep
  <2>. QED BY <1>1, <1>2, <1>4, <1>5, <2>1 DEF SInv, AllBased, Writing, Open, Typed, TypeOK
<1>9. CASE Poll
  <2>. PICK b \in Buffers :
          LET e == entries[b]
              p == Polled(e)
          IN  /\ saving = None /\ e \in Entry /\ file # Unreadable
              /\ entries' = [entries EXCEPT ![b] = p]
              /\ basis' = IF Reloads(e) THEN [basis EXCEPT ![b] = file] ELSE basis
              /\ UNCHANGED <<disk, saving, view, recover, inputs>>
    BY <1>1, <1>9, PollStep
  <2>. DEFINE e == entries[b]
              p == Polled(e)
  <2>1. e \in Entry /\ Based(e, basis[b], file, aside, written)
    BY <1>1, <1>3, OpenTyped DEF Typed
  <2>2. /\ entries' = [entries EXCEPT ![b] = p] /\ saving = None /\ saving' = None
        /\ Reloads(e) => basis'[b] = file
        /\ ~Reloads(e) => basis' = basis
        /\ \A c \in Buffers : c # b => basis'[c] = basis[c]
    BY <1>2
  <2>. HIDE DEF e
  <2>3. /\ p \in Entry /\ p.ext # None /\ (p.ext.dirty <=> ~Reloads(e)) /\ p.path = e.path
        /\ Reloads(e) => p.disk = file
        /\ ~Reloads(e) => p.disk = e.disk
    BY <1>2, <2>1, PolledTyped
  <2>. HIDE DEF p
  <2>4. Based(p, basis'[b], file', aside', written')
    <3>1. CASE Reloads(e)
      <4>1. file # Missing /\ file # None
        BY <3>1, FilesTyped, <1>2 DEF Reloads
      <4>. QED BY <1>1, <1>4, <2>1, <2>2, <2>3, <3>1, <4>1 DEF Based, Numbered
    <3>2. CASE ~Reloads(e)
      BY <1>4, <2>1, <2>2, <2>3, <3>2 DEF Based, Marked
    <3>. QED BY <3>1, <3>2
  <2>5. AllBased'
    BY <1>1, <1>4, <2>2, <2>3, <2>4, BasedPut
  <2>. QED BY <1>2, <1>4, <1>5, <2>2, <2>5 DEF SInv, Writing
<1>10. CASE CheckExternal
  <2>1. saving = None /\ UNCHANGED <<disk, entries, draft, saving, view, recover, basis>>
    BY <1>1, <1>10, CheckStep
  <2>. QED BY <1>1, <1>2, <1>4, <1>5, <2>1 DEF SInv, AllBased, Writing, Open
<1>11. CASE ResolveExternal
  <2>. DEFINE e == entries[view]
              x == [gen |-> notice, dirty |-> TRUE]
  <2>1. /\ saving = None /\ saving' = None /\ view \in Buffers /\ e \in Entry /\ x \in Notices
        /\ notice # None /\ notice = file /\ file # Unreadable
        /\ Based(e, basis[view], file, aside, written)
        /\ UNCHANGED <<disk, saving, view, recover>>
    BY <1>1, <1>3, <1>11, ResolveStep, OpenTyped DEF Typed
  <2>2. CASE \E o \in {None, notice} :
               /\ entries' = [entries EXCEPT ![view] = [e EXCEPT !.ext = x, !.over = o]]
               /\ UNCHANGED <<draft, basis>>
    <3>. PICK o \in {None, notice} :
               /\ entries' = [entries EXCEPT ![view] = [e EXCEPT !.ext = x, !.over = o]]
               /\ UNCHANGED <<draft, basis>>
      BY <2>2
    <3>. DEFINE r == [e EXCEPT !.ext = x, !.over = o]
    <3>1. /\ entries' = [entries EXCEPT ![view] = r] /\ basis' = basis
          /\ x.dirty /\ x # None /\ o \in Files \cup {None}
      BY <1>2, <2>1, NoneAssumption
    <3>. HIDE DEF e, x
    <3>2. r \in Entry /\ r.ext = x /\ r.disk = e.disk /\ r.path = e.path
      BY <2>1, <3>1 DEF Entry
    <3>. HIDE DEF r
    <3>3. Based(r, basis'[view], file', aside', written')
      BY <1>4, <2>1, <3>1, <3>2 DEF Based, Marked
    <3>4. AllBased'
      BY <1>1, <1>4, <2>1, <3>1, <3>2, <3>3, BasedPut
    <3>. QED BY <1>2, <1>4, <1>5, <2>1, <3>4 DEF SInv, Writing
  <2>3. CASE /\ notice.text # None /\ entries' = [entries EXCEPT ![view] = OpenedFrom(notice)]
             /\ basis' = [basis EXCEPT ![view] = notice]
    <3>1. OpenedFrom(notice) \in Entry
      BY <1>2, <2>1, <2>3, OpenedTyped
    <3>2. basis'[view] = file /\ \A c \in Buffers : c # view => basis'[c] = basis[c]
      BY <1>2, <2>1, <2>3
    <3>3. Based(OpenedFrom(notice), basis'[view], file', aside', written')
      BY <1>1, <1>2, <1>4, <2>1, <2>3, <3>2, OpenedBased
    <3>4. AllBased'
      BY <1>1, <1>4, <2>1, <2>3, <3>1, <3>2, <3>3, BasedPut
    <3>. QED BY <1>2, <1>4, <1>5, <2>1, <3>4 DEF SInv, Writing
  <2>. QED BY <1>1, <1>11, <2>2, <2>3, ResolveStep
<1>12. CASE SaveWrite
  <2>. DEFINE e == entries[view]
              x == [gen |-> file, dirty |-> e.dirty]
  <2>1. /\ saving = None /\ view \in Buffers /\ e \in Entry /\ x \in Notices
        /\ Based(e, basis[view], file, aside, written)
        /\ x.dirty = e.dirty /\ x # None /\ file # Unreadable
        /\ e.dirty \/ "saveas" \in Ops
        /\ UNCHANGED <<draft, view, recover, aside>>
    BY <1>1, <1>3, <1>12, SaveWriteStep, OpenTyped, NoneAssumption DEF Typed
  <2>2. CASE /\ entries' = [entries EXCEPT ![view] = [e EXCEPT !.ext = x]]
             /\ UNCHANGED <<disk, saving, basis>>
    <3>. DEFINE r == [e EXCEPT !.ext = x]
    <3>1. entries' = [entries EXCEPT ![view] = r] /\ basis' = basis /\ saving' = None
      BY <2>1, <2>2
    <3>. HIDE DEF e, x
    <3>2. r \in Entry /\ r.ext = x /\ r.disk = e.disk /\ r.path = e.path
      BY <2>1 DEF Entry
    <3>. HIDE DEF r
    <3>3. Based(r, basis'[view], file', aside', written')
      BY <1>4, <2>1, <2>2, <3>1, <3>2 DEF Based, Marked, Guarded
    <3>4. AllBased'
      BY <1>1, <1>4, <2>1, <2>2, <3>1, <3>2, <3>3, BasedPut
    <3>. QED BY <1>2, <1>4, <1>5, <2>1, <2>2, <3>1, <3>4 DEF SInv, Writing
  <2>3. CASE /\ entries' = [entries EXCEPT ![view] = [e EXCEPT !.path = TRUE]]
             /\ file' = NewFile(e.text) /\ written' = written + 1
             /\ basis' = [basis EXCEPT ![view] = NewFile(e.text)]
             /\ saving' = view
    <3>1. [e EXCEPT !.path = TRUE] \in Entry
      BY <2>1, NamedTyped
    <3>2. /\ e.text \in Text \cup {None} /\ basis'[view] = NewFile(e.text)
          /\ \A c \in Buffers : c # view => basis'[c] = basis[c]
      BY <1>2, <2>1, <2>3, FieldsTyped
    <3>3. DiskMoves
      BY <2>1, <2>3, <3>2 DEF DiskMoves
    <3>4. AllBased'
      BY <1>1, <2>1, <2>3, <3>1, <3>2, <3>3, BasedPut
    <3>5. file'.n = written + 1 /\ file' # Missing /\ file' # Unreadable
      BY <1>2, <2>3, <3>2, NewFileTyped
    <3>6. aside # None => aside.n \in Nat
      BY <1>1, FilesTyped DEF Typed, TypeOK
    <3>7. Numbered' /\ Undisturbed' /\ Writing'
      BY <1>1, <1>2, <2>1, <2>3, <3>2, <3>5, <3>6 DEF Numbered, Undisturbed, Writing
    <3>. QED BY <1>2, <3>4, <3>7 DEF SInv
  <2>. QED BY <1>1, <1>12, <2>2, <2>3, SaveWriteStep
<1>13. CASE SaveFinish
  <2>. PICK t \in Text, fails \in BOOLEAN, f \in Files :
          LET s == AfterSave(entries[saving], f, t, fails)
          IN  /\ saving \in Buffers /\ entries[saving] \in Entry /\ entries[saving].path
              /\ \/ /\ f = NewFile(t) /\ written' = written + 1
                    /\ basis' = [basis EXCEPT ![saving] = f]
                 \/ f = file /\ UNCHANGED <<written, basis>>
              /\ file' = f
              /\ entries' = [entries EXCEPT ![saving] = s]
              /\ saving' = None /\ UNCHANGED <<aside, recover>>
    BY <1>1, <1>13, SaveFinishStep
  <2>. DEFINE s == AfterSave(entries[saving], f, t, fails)
  <2>1. s \in Entry /\ s.disk = f /\ s.path
    BY SavedTyped
  <2>2. entries' = [entries EXCEPT ![saving] = s] /\ saving \in Buffers /\ saving' = None
    OBVIOUS
  <2>. HIDE DEF s
  <2>3. /\ file = basis[saving] /\ file # Missing /\ file # Unreadable
    BY <1>2 DEF SInv, Writing
  <2>4. /\ DiskMoves /\ Numbered' /\ Undisturbed' /\ file'.n # 0 /\ file'.n <= written'
        /\ basis'[saving] = f /\ \A c \in Buffers : c # saving => basis'[c] = basis[c]
    <3>1. CASE f = NewFile(t) /\ written' = written + 1 /\ basis' = [basis EXCEPT ![saving] = f]
      <4>1. file'.n = written + 1 /\ file' # Missing /\ file' # Unreadable
        BY <1>2, <3>1, NewFileTyped
      <4>2. aside # None => aside.n \in Nat
        BY <1>1, FilesTyped DEF Typed, TypeOK
      <4>3. DiskMoves
        BY <3>1 DEF DiskMoves
      <4>. QED BY <1>1, <1>2, <2>3, <3>1, <4>1, <4>2, <4>3 DEF Numbered, Undisturbed
    <3>2. CASE f = file /\ UNCHANGED <<written, basis>>
      BY <1>1, <2>3, <3>2 DEF Numbered, Undisturbed, DiskMoves, disk
    <3>. QED BY <3>1, <3>2
  <2>5. Based(s, basis'[saving], file', aside', written')
    BY <2>1, <2>4, FilesTyped DEF Based
  <2>6. AllBased'
    BY <1>1, <2>1, <2>2, <2>4, <2>5, BasedPut
  <2>. QED BY <1>2, <2>2, <2>4, <2>6 DEF SInv, Writing
<1>14. CASE WriteFile \/ DeleteFile \/ MoveAway \/ MoveBack
  <2>1. saving = None /\ UNCHANGED <<entries, draft, saving, view, notice, recover, basis>>
    BY <1>1, <1>14, OutsideStep DEF Guarded
  <2>2. file.n \in Nat /\ (aside # None => aside.n \in Nat)
    BY <1>1, <1>2, FilesTyped DEF Typed, TypeOK
  <2>3. DiskMoves /\ Numbered' /\ Undisturbed'
    <3>1. CASE \E t \in Text \cup {None} :
                 file # Unreadable /\ file' = NewFile(t) /\ written' = written + 1 /\ UNCHANGED aside
      <4>1. DiskMoves
        BY <3>1 DEF DiskMoves
      <4>2. file'.n = written + 1 /\ file' # Missing /\ file' # Unreadable
        BY <1>2, <3>1, NewFileTyped
      <4>. QED BY <1>1, <1>2, <2>1, <2>2, <3>1, <4>1, <4>2 DEF Numbered, Undisturbed
    <3>2. CASE file # Unreadable /\ file' = Missing /\ UNCHANGED <<aside, written>>
      <4>1. DiskMoves
        BY <3>2 DEF DiskMoves
      <4>. QED BY <1>1, <2>1, <3>2, <4>1, FilesTyped DEF Numbered, Undisturbed
    <3>3. CASE /\ aside = None /\ file # Missing /\ aside' = file /\ UNCHANGED written
               /\ \/ "aside" \in Ops /\ file' = Missing
                  \/ "unreadable" \in Ops /\ file' = Unreadable
      <4>1. DiskMoves
        BY <3>3 DEF DiskMoves
      <4>2. file # Unreadable /\ file # None
        BY <1>1, <1>2, <3>3, FilesTyped DEF Numbered
      <4>. QED BY <1>1, <2>1, <3>3, <4>1, <4>2, FilesTyped DEF Numbered, Undisturbed, Guarded
    <3>4. CASE aside # None /\ file' = aside /\ aside' = None /\ UNCHANGED written
      <4>1. DiskMoves
        BY <3>4 DEF DiskMoves
      <4>2. file'.n # 0 /\ file'.n <= written
        BY <1>1, <3>4 DEF Numbered
      <4>3. file' # Unreadable
        BY <4>2, FilesTyped
      <4>. QED BY <1>1, <2>1, <3>4, <4>1, <4>2, <4>3 DEF Numbered, Undisturbed
    <3>. QED BY <1>1, <1>14, <3>1, <3>2, <3>3, <3>4, OutsideStep
  <2>4. ASSUME NEW c \in Buffers, Open(c)
        PROVE  Based(entries[c], basis[c], file', aside', written')
    BY <1>1, <1>3, <2>1, <2>3, <2>4, BasedStays
  <2>. QED BY <1>2, <2>1, <2>3, <2>4 DEF SInv, AllBased, Writing, Open
<1>15. CASE Crash
  <2>1. "crash" \in Ops /\ UNCHANGED disk /\ saving' = None /\ \A b \in Buffers : ~Open(b)'
    BY <1>15 DEF Crash, Input, Open
  <2>. QED BY <1>1, <1>2, <1>4, <2>1 DEF SInv, AllBased, Writing, Undisturbed
<1>16. CASE RestoreDraft
  <2>1. CASE draft = None
    <3>1. saving = None /\ UNCHANGED <<entries, saving, basis, disk>> /\ (recover' => recover)
      BY <1>16, <2>1 DEF RestoreDraft, Idle
    <3>. QED BY <1>1, <1>2, <1>4, <1>5, <3>1 DEF SInv, AllBased, Writing, Open
  <2>2. CASE draft # None
    <3>. PICK b \in Buffers, e \in Entry :
            LET r == RestoredFrom(e)
            IN  /\ saving = None
                /\ \/ Openable /\ e = entries[b] /\ e \in Entry
                   \/ Openable /\ e = OpenedFrom(file)
                   \/ ~Openable /\ e = Untitled
                /\ entries' = [entries EXCEPT ![b] = r]
                /\ basis' = [basis EXCEPT ![b] = IF SourceChanged THEN None ELSE file]
                /\ recover' = FALSE
                /\ UNCHANGED <<disk, draft, saving, inputs>>
      BY <1>1, <1>16, <2>2, RestoreStep
    <3>. DEFINE r == RestoredFrom(e)
    <3>1. /\ r \in Entry /\ r.path = e.path
          /\ SourceChanged => r.ext = [gen |-> file, dirty |-> TRUE] /\ r.disk = file
          /\ ~SourceChanged => r.ext = e.ext /\ r.disk = e.disk
      BY <1>1, <1>2, <2>2, RestoredTyped DEF Typed, TypeOK
    <3>2. /\ entries' = [entries EXCEPT ![b] = r] /\ saving = None /\ saving' = None /\ ~recover'
          /\ ~SourceChanged => basis'[b] = file
          /\ \A c \in Buffers : c # b => basis'[c] = basis[c]
      BY <1>2
    <3>. HIDE DEF r
    <3>3. "crash" \in Ops
      BY <1>1, <1>16 DEF RestoreDraft, Undisturbed
    <3>4. Based(r, basis'[b], file', aside', written')
      <4>1. CASE ~Openable
        BY <3>1, <3>3, <4>1 DEF Based, Untitled
      <4>2. CASE Openable
        <5>1. file # Missing /\ file # Unreadable /\ file # None /\ file.n # 0 /\ file.n <= written
          BY <1>1, <1>2, <4>2, FilesTyped DEF Openable, Numbered
        <5>2. aside = None
          BY <1>1, <3>3, <5>1 DEF Undisturbed
        <5>3. CASE SourceChanged
          <6>1. [gen |-> file, dirty |-> TRUE] \in Notices
            BY <1>2 DEF Notices
          <6>2. Marked(r)
            BY <3>1, <5>3, <6>1, NoneAssumption DEF Marked
          <6>. QED BY <1>4, <3>1, <3>3, <5>1, <5>3, <6>2 DEF Based
        <5>4. CASE ~SourceChanged
          <6>1. e.path => e.disk # None /\ e.disk.n # 0 /\ e.disk.n <= written
            BY <1>1, <1>3, <4>2, <5>1, OpenTyped DEF Based, OpenedFrom, Typed
          <6>. QED BY <1>4, <3>1, <3>2, <3>3, <5>1, <5>2, <5>4, <6>1 DEF Based
        <5>. QED BY <5>3, <5>4
      <4>. QED BY <4>1, <4>2
    <3>5. AllBased'
      BY <1>1, <1>4, <3>1, <3>2, <3>4, BasedPut
    <3>. QED BY <1>2, <1>4, <1>5, <3>2, <3>5 DEF SInv, Writing
  <2>. QED BY <2>1, <2>2
<1>17. CASE UNCHANGED vars
  BY <1>1, <1>2, <1>4, <1>5, <1>17 DEF vars, disk, SInv, AllBased, Writing, Open
<1>. QED BY <1>6, <1>7, <1>8, <1>9, <1>10, <1>11, <1>12, <1>13, <1>14, <1>15, <1>16, <1>17
         DEF Next

\* What a write replaces is what the text is based on, nothing, or what the user said.
SparesUnseen ==
    saving = None /\ saving' # None =>
        file \in {basis[saving'], Missing} \/ entries[saving'].over = file

LEMMA WriteSpares ==
    ASSUME SInv, [Next]_vars
    PROVE  SparesUnseen
<1>. SUFFICES ASSUME saving = None, saving' # None
              PROVE  file \in {basis[saving'], Missing} \/ entries[saving'].over = file
  BY DEF SparesUnseen
<1>1. Typed /\ AllBased
  BY DEF SInv
<1>2. SaveWrite
  <2>1. ~OpenFile /\ ~(EditBuffer \/ ActionBuffer) /\ ~CloseBuffer /\ ~Poll /\ ~CheckExternal
        /\ ~ResolveExternal
    BY <1>1, OpenStep, EditStep, CloseStep, PollStep, CheckStep, ResolveStep
  <2>2. ~SaveFinish /\ ~(WriteFile \/ DeleteFile \/ MoveAway \/ MoveBack) /\ ~Crash /\ ~RestoreDraft
    BY <1>1, OutsideStep DEF SaveFinish, Crash, RestoreDraft
  <2>3. ~UNCHANGED vars
    BY DEF vars
  <2>. QED BY <2>1, <2>2, <2>3 DEF Next
<1>3. view \in Buffers /\ entries[view] \in Entry /\ Open(view)
      /\ Based(entries[view], basis[view], file, aside, written)
  BY <1>1, <1>2, SaveWriteStep, OpenTyped, BufferAssumption DEF AllBased, Typed
<1>4. saving' = view /\ (~Conflicts(entries[view]) \/ Authorized(entries[view]))
  BY <1>1, <1>2, SaveWriteStep
<1>. QED BY <1>3, <1>4 DEF Based, Conflicts, Authorized, Marked

\* A save writes over the file the buffer's text is based on, over nothing, or over what
\* the user said to overwrite (save_buffer, poll_external, restore_draft).  A draft restored
\* into a buffer has a basis the entry does not record: a clean Save As that was refused, or
\* a file that comes back from where it was moved, is then taken for it.
THEOREM SavesSpareUnseen ==
    ASSUME Guarded
    PROVE  Spec => SaveSparesUnseen
<1>1. Spec => [][SparesUnseen]_vars
  BY InitBased, NextBased, WriteSpares, PTL DEF Spec
<1>. QED BY <1>1 DEF SaveSparesUnseen, SparesUnseen
====
