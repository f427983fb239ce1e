--------------------------- MODULE DraftStoreProofs ---------------------------
(***************************************************************************)
(* Without the backups of an earlier version, the two files of a workspace *)
(* are one register for each draft (DraftRegister): whichever step the     *)
(* worker is at, whatever fails and wherever the daemon ends.              *)
(*                                                                         *)
(* The argument: a request has a first file p, which gets the new text (or *)
(* loses the draft), and a second one, which loses the draft afterwards.   *)
(* Progress says how far it is; the order of the two keeps what the reader *)
(* sees of the draft either the old text or the new one.                   *)
(***************************************************************************)
EXTENDS DraftStore, SequenceTheorems, TLAPS

Versions == Nat \cup {Absent}
Texts    == [Drafts -> Versions]
Requests == [id : Drafts, to : Versions, calls : Seq(Calls)]

StoreOK ==
    /\ backup = [p \in Parts |-> Absent]
    /\ file \in [Parts -> Texts \cup {Absent}]
    /\ version \in Nat
    /\ request \in Requests \cup {Absent}

Step(call, p) == [call |-> call, part |-> p]

\* What is left to do before the first call, between the change of p and that of the
\* other file, and after both.
Begins(p)  == IF request.to = Absent
              THEN p = "small" /\ request.calls = <<Step("drop", "small"), Step("drop", "paged")>>
              ELSE request.calls = CheckpointCalls(p)
Between(p) == LET q == Other(p) IN
              {<<Step("unback", p), Step("sync", p), Step("drop", q)>>,
               <<Step("unback", p), Step("drop", q)>>,
               <<Step("sync", p), Step("drop", q)>>,
               <<Step("drop", q)>>}
After(q)   == {<<Step("unback", q), Step("sync", q)>>, <<Step("unback", q)>>,
               <<Step("sync", q)>>, <<>>}

Progress(p) ==
    \/ Begins(p)
    \/ /\ request.calls \in Between(p) /\ Read(p)[request.id] = request.to
       /\ request.to = Absent => p = "small"
    \/ /\ request.calls \in After(Other(p)) /\ Read(p)[request.id] = request.to
       /\ Read(Other(p))[request.id] = Absent

Inv == StoreOK /\ (request # Absent => \E p \in Parts : Progress(p))

-----------------------------------------------------------------------------
(* The two files and what a reader sees.                                   *)

LEMMA PartFacts ==
    /\ Other("small") = "paged" /\ Other("paged") = "small"
    /\ \A p \in Parts : Other(p) \in Parts /\ Other(p) # p /\ Parts = {p, Other(p)}
<1>1. \A p \in Parts : Other(p) \in Parts /\ Other(p) # p
  BY DEF Other, Parts
<1> QED
  BY <1>1 DEF Parts

LEMMA ReadTyped ==
    ASSUME StoreOK, NEW p \in Parts
    PROVE  /\ Read(p) \in Texts
           /\ Read(p) = IF file[p] # Absent THEN file[p] ELSE Nothing
BY DEF StoreOK, Read, Nothing, Texts, Versions

\* What the other file holds counts when the paged one has nothing.
Merged(paged, small) == [d \in Drafts |-> IF paged[d] # Absent THEN paged[d] ELSE small[d]]

LEMMA VisibleMerged ==
    /\ Visible = Merged(Read("paged"), Read("small"))
    /\ Visible' = Merged(Read("paged")', Read("small")')
BY DEF Visible, Merged

LEMMA MergedTyped ==
    ASSUME NEW paged \in Texts, NEW small \in Texts
    PROVE  Merged(paged, small) \in Texts
BY DEF Merged, Texts

\* A step that changes nothing of the files.
LEMMA ReadKept ==
    ASSUME UNCHANGED <<file, backup>>
    PROVE  (\A p \in Parts : Read(p)' = Read(p)) /\ Visible' = Visible
BY DEF Read, Visible, Nothing

\* A file that is replaced by another one, or removed when nothing is left in it.
LEMMA ReadReplaced ==
    ASSUME StoreAssumption, StoreOK, NEW p \in Parts, NEW text \in Texts, UNCHANGED backup,
           \/ file' = [file EXCEPT ![p] = text]
           \/ text = Nothing /\ file' = [file EXCEPT ![p] = Absent]
    PROVE  /\ Read(p)' = text /\ Read(Other(p))' = Read(Other(p))
           /\ file' \in [Parts -> Texts \cup {Absent}]
<1>1. text # Absent
  BY DEF StoreAssumption, Texts, Versions
<1>2. backup[p] = Absent /\ Other(p) \in Parts /\ Other(p) # p
  BY PartFacts DEF StoreOK
<1>3. /\ file'[p] = text \/ (text = Nothing /\ file'[p] = Absent)
      /\ file'[Other(p)] = file[Other(p)]
  BY <1>2 DEF StoreOK
<1>4. file' \in [Parts -> Texts \cup {Absent}]
  BY DEF StoreOK
<1> QED
  BY <1>1, <1>2, <1>3, <1>4 DEF Read, Nothing

-----------------------------------------------------------------------------
(* The calls that are left.                                                *)

LEMMA CallsTyped ==
    ASSUME NEW p \in Parts
    PROVE  /\ CheckpointCalls(p) \in Seq(Calls)
           /\ <<Step("drop", "small"), Step("drop", "paged")>> \in Seq(Calls)
           /\ \A c \in Between(p) \cup After(Other(p)) : c \in Seq(Calls)
<1>1. \A q \in Parts : /\ Step("unback", q) \in Calls /\ Step("sync", q) \in Calls
                       /\ Step("drop", q) \in Calls /\ Step("put", q) \in Calls
  BY DEF Calls, Step
<1>2. Other(p) \in Parts /\ "small" \in Parts /\ "paged" \in Parts
  BY PartFacts DEF Parts
<1>3. \A a, b, c, d \in Calls : /\ <<a, b, c, d>> \in Seq(Calls) /\ <<a, b, c>> \in Seq(Calls)
                                /\ <<a, b>> \in Seq(Calls) /\ <<a>> \in Seq(Calls)
                                /\ <<>> \in Seq(Calls)
  OBVIOUS
<1>4. CheckpointCalls(p) = <<Step("put", p), Step("unback", p), Step("sync", p),
                             Step("drop", Other(p))>>
  BY DEF CheckpointCalls, Step
<1> QED
  BY <1>1, <1>2, <1>3, <1>4 DEF Between, After

\* What is left when the first call is done.
LEMMA CallsLeft ==
    ASSUME NEW p \in Parts
    PROVE  /\ Head(CheckpointCalls(p)) = Step("put", p)
           /\ Tail(CheckpointCalls(p)) \in Between(p)
           /\ \A c \in Between(p) : c # <<>> /\ 
                 \/ Head(c) = Step("drop", Other(p)) /\ Tail(c) = <<>>
                 \/ Head(c).call \in {"unback", "sync"} /\ Tail(c) \in Between(p)
           /\ \A c \in After(Other(p)) : c # <<>> =>
                 Head(c).call \in {"unback", "sync"} /\ Tail(c) \in After(Other(p))
  BY DEF CheckpointCalls, Between, After, Step

LEMMA BetweenNotAfter ==
    ASSUME NEW p \in Parts
    PROVE  Between(p) \cap After(Other(p)) = {}
BY DEF Between, After, Step

\* A removal that changes the file has more to do before the request goes on.
LEMMA CallsAdded ==
    ASSUME NEW p \in Parts, NEW q \in Parts,
           NEW more \in {<<>>, <<Step("unback", p)>>, <<Step("unback", p), Step("sync", p)>>}
    PROVE  more \o <<>> = more /\ more \o <<Step("drop", q)>> \in
              {<<Step("drop", q)>>, <<Step("unback", p), Step("drop", q)>>,
               <<Step("unback", p), Step("sync", p), Step("drop", q)>>}
<1> DEFINE u == Step("unback", p)
           s == Step("sync", p)
           d == Step("drop", q)
<1>1. u \in Calls /\ s \in Calls /\ d \in Calls
  BY DEF Step, Calls
<1> HIDE DEF u, s, d
<1>2. /\ <<u>> \in Seq(Calls) /\ <<d>> \in Seq(Calls) /\ <<u, d>> \in Seq(Calls)
      /\ <<u, s>> \in Seq(Calls) /\ <<u, s, d>> \in Seq(Calls)
      /\ <<u>> \o <<d>> \in Seq(Calls) /\ <<u, s>> \o <<d>> \in Seq(Calls)
      /\ <<>> \in Seq(Calls)
  BY <1>1
<1>3. <<u>> \o <<d>> = <<u, d>>
  <2>1. Len(<<u>> \o <<d>>) = Len(<<u, d>>)
    OBVIOUS
  <2>2. \A i \in 1..Len(<<u>> \o <<d>>) : (<<u>> \o <<d>>)[i] = <<u, d>>[i]
    OBVIOUS
  <2> QED
    BY ONLY <1>2, <2>1, <2>2, SeqEqual, Zenon
<1>4. <<u, s>> \o <<d>> = <<u, s, d>>
  <2>1. Len(<<u, s>> \o <<d>>) = Len(<<u, s, d>>)
    OBVIOUS
  <2>2. \A i \in 1..Len(<<u, s>> \o <<d>>) : (<<u, s>> \o <<d>>)[i] = <<u, s, d>>[i]
    OBVIOUS
  <2> QED
    BY ONLY <1>2, <2>1, <2>2, SeqEqual, Zenon
<1>5. more \in {<<>>, <<u>>, <<u, s>>}
  BY DEF u, s
<1>6. more \o <<>> = more /\ <<>> \o <<d>> = <<d>>
  <2>1. more \in Seq(Calls)
    BY <1>2, <1>5
  <2> QED
    BY <1>2, <2>1, ConcatEmptySeq
<1> QED
  BY <1>3, <1>4, <1>5, <1>6 DEF u, s, d

-----------------------------------------------------------------------------
(* The steps, each a step of the register or none.                         *)

LEMMA StartStep ==
    ASSUME StoreAssumption, Inv, NEW d \in Drafts,
           Discard(d) \/ \E p \in Parts : Checkpoint(d, p)
    PROVE  Inv' /\ Register!Ask
<1> DEFINE r == request'
<1>1. request = Absent /\ UNCHANGED <<file, backup>> /\ version \in Nat /\ version' \in Nat
  BY DEF Discard, Checkpoint, Idle, Inv, StoreOK
<1>2. \E p \in Parts : /\ r \in Requests /\ r.id = d
                       /\ IF r.to = Absent
                          THEN p = "small" /\ r.calls = <<Step("drop", "small"), Step("drop", "paged")>>
                          ELSE r.calls = CheckpointCalls(p)
  <2>1. CASE Discard(d)
    <3>1. r = [id |-> d, to |-> Absent, calls |-> <<Step("drop", "small"), Step("drop", "paged")>>]
      BY <2>1 DEF Discard, Step
    <3>2. "small" \in Parts
      BY DEF Parts
    <3> QED
      BY <3>1, <3>2, CallsTyped DEF Requests, Versions
  <2>2. ASSUME NEW p \in Parts, Checkpoint(d, p)
        PROVE  /\ r \in Requests /\ r.id = d /\ r.to # Absent /\ r.calls = CheckpointCalls(p)
    <3>1. r = [id |-> d, to |-> version + 1, calls |-> CheckpointCalls(p)]
      BY <2>2 DEF Checkpoint
    <3>2. version + 1 \in Nat /\ version + 1 # Absent
      BY <1>1 DEF StoreAssumption
    <3> QED
      BY <3>1, <3>2, CallsTyped DEF Requests, Versions
  <2> QED
    BY <2>1, <2>2
<1>3. r # Absent
  BY <1>2 DEF StoreAssumption, Requests, Versions
<1>4. Inv'
  BY <1>1, <1>2 DEF Inv, StoreOK, Progress, Begins
<1>5. Visible' = Visible
  BY <1>1, ReadKept
<1>6. [id |-> r.id, to |-> r.to] \in [id : Drafts, to : Versions]
  BY <1>2 DEF Requests
<1> QED
  BY <1>1, <1>3, <1>4, <1>5, <1>6 DEF Register!Ask, Register!Versions, Versions

\* The request stays, and the reader sees what was there or what is to be.
LEMMA MappedStep ==
    ASSUME StoreAssumption, request \in Requests, request # Absent, request' # Absent,
           request'.id = request.id, request'.to = request.to,
           Visible' \in {Visible, [Visible EXCEPT ![request.id] = request.to]}
    PROVE  Register!Apply \/ UNCHANGED Register!vars
<1> DEFINE asked == [id |-> request.id, to |-> request.to]
<1>1. asked # Absent /\ asked.id = request.id /\ asked.to = request.to
  BY DEF StoreAssumption, Requests, Versions
<1>2. [id |-> request'.id, to |-> request'.to] = asked
  OBVIOUS
<1> HIDE DEF asked
<1> QED
  BY <1>1, <1>2 DEF Register!Apply, Register!vars, asked

\* The first call is done, and more calls come in its place.
LEMMA GoesOn ==
    ASSUME StoreAssumption, request \in Requests, NEW more, Goes(more),
           more \o Tail(request.calls) \in Seq(Calls)
    PROVE  /\ request' \in Requests /\ request' # Absent
           /\ request'.id = request.id /\ request'.to = request.to
           /\ request'.calls = more \o Tail(request.calls)
<1>1. /\ request' \in Requests
      /\ request'.id = request.id /\ request'.to = request.to
      /\ request'.calls = more \o Tail(request.calls)
  BY DEF Goes, Requests
<1> QED
  BY <1>1 DEF StoreAssumption, Requests, Versions

\* Removing the backup and syncing leave the texts as they are.
LEMMA QuietStep ==
    ASSUME StoreAssumption, Inv, Unback \/ Sync
    PROVE  Inv' /\ (Register!Apply \/ UNCHANGED Register!vars)
<1> PICK p \in Parts : Progress(p)
  BY DEF Unback, Sync, Does, Inv
<1>1. /\ request \in Requests /\ request # Absent /\ request.calls # <<>>
      /\ Head(request.calls).call \in {"unback", "sync"}
      /\ Goes(<<>>) /\ file' = file /\ version' = version
  BY DEF Unback, Sync, Does, Inv, StoreOK
<1>2. backup' = backup /\ Part \in Parts
  <2>1. request.calls[1] \in Calls
    BY <1>1 DEF Requests
  <2>2. Part \in Parts
    BY <1>1, <2>1 DEF Part, Calls, Requests
  <2> QED
    BY <2>2 DEF Unback, Sync, Inv, StoreOK
<1>3. ~Begins(p)
  BY <1>1, CallsLeft DEF Begins, Step
<1>4. Tail(request.calls) \in IF request.calls \in Between(p) THEN Between(p) ELSE After(Other(p))
  BY <1>1, <1>3, CallsLeft DEF Progress, Step
<1>5. <<>> \o Tail(request.calls) = Tail(request.calls) /\ Tail(request.calls) \in Seq(Calls)
  BY <1>4, CallsTyped, ConcatEmptySeq
<1>6. /\ request' \in Requests /\ request' # Absent
      /\ request'.id = request.id /\ request'.to = request.to
      /\ request'.calls = Tail(request.calls)
  BY <1>1, <1>5, GoesOn
<1>7. (\A q \in Parts : Read(q)' = Read(q)) /\ Visible' = Visible
  BY <1>1, <1>2, ReadKept
<1>8. Progress(p)'
  <2>1. Other(p) \in Parts
    BY PartFacts
  <2>2. Read(p)' = Read(p) /\ Read(Other(p))' = Read(Other(p))
    BY <1>7, <2>1
  <2>3. \/ request.calls \in Between(p) /\ request'.calls \in Between(p)
        \/ request.calls \in After(Other(p)) /\ request'.calls \in After(Other(p))
    BY <1>3, <1>4, <1>6 DEF Progress
  <2>4. CASE request.calls \in Between(p) /\ request'.calls \in Between(p)
    BY <1>3, <1>6, <2>2, <2>4, BetweenNotAfter DEF Progress
  <2>5. CASE request.calls \in After(Other(p)) /\ request'.calls \in After(Other(p))
    BY <1>3, <1>6, <2>2, <2>5, BetweenNotAfter DEF Progress
  <2> QED
    BY <2>3, <2>4, <2>5
<1>9. StoreOK'
  BY <1>1, <1>2, <1>6 DEF Inv, StoreOK
<1> QED
  BY <1>1, <1>6, <1>7, <1>8, <1>9, MappedStep DEF Inv

\* The new text is written first.  A small one is seen at once unless a paged one still
\* stands before it.
LEMMA PutStep ==
    ASSUME StoreAssumption, Inv, Put
    PROVE  Inv' /\ (Register!Apply \/ UNCHANGED Register!vars)
<1> PICK p \in Parts : Progress(p)
  BY DEF Put, Does, Inv
<1> DEFINE text == [Read(p) EXCEPT ![request.id] = request.to]
<1>1. /\ request \in Requests /\ request # Absent /\ request.calls # <<>>
      /\ Head(request.calls).call = "put" /\ Goes(<<>>)
      /\ UNCHANGED <<backup, version>> /\ StoreOK
      /\ request.id \in Drafts /\ request.to \in Versions
  BY DEF Put, Does, Inv, StoreOK, Requests
<1>2. Begins(p) /\ request.to # Absent
  <2>1. request.calls \notin Between(p) \cup After(Other(p))
    BY <1>1, CallsLeft DEF Step
  <2>2. request.calls # <<Step("drop", "small"), Step("drop", "paged")>>
    BY <1>1 DEF Step
  <2> QED
    BY <2>1, <2>2 DEF Progress, Begins
<1>3. request.calls = CheckpointCalls(p) /\ Part = p
  BY <1>2, CallsLeft DEF Begins, Part, Step
<1>4. Read(p) \in Texts /\ Read(Other(p)) \in Texts /\ text \in Texts
  BY <1>1, ReadTyped, PartFacts DEF Texts
<1>5. file' = [file EXCEPT ![p] = text]
  BY <1>3 DEF Put
<1> HIDE DEF text
<1>6. /\ Read(p)' = text /\ Read(Other(p))' = Read(Other(p))
      /\ file' \in [Parts -> Texts \cup {Absent}]
  BY <1>1, <1>4, <1>5, ReadReplaced
<1>7. Tail(request.calls) \in Between(p) /\ Tail(request.calls) \in Seq(Calls)
      /\ <<>> \o Tail(request.calls) = Tail(request.calls)
  BY <1>3, CallsLeft, CallsTyped, ConcatEmptySeq
<1>8. /\ request' \in Requests /\ request' # Absent
      /\ request'.id = request.id /\ request'.to = request.to
      /\ request'.calls = Tail(request.calls)
  BY <1>1, <1>7, GoesOn
<1>9. StoreOK'
  BY <1>1, <1>6, <1>8 DEF StoreOK
<1>10. text[request.id] = request.to
  BY <1>1, <1>4 DEF text, Texts
<1>11. Progress(p)'
  BY <1>2, <1>6, <1>7, <1>8, <1>10 DEF Progress
<1>12. Visible' \in {Visible, [Visible EXCEPT ![request.id] = request.to]}
  <2>1. /\ Visible = Merged(Read("paged"), Read("small")) /\ Visible \in Texts
        /\ Visible' = Merged(Read("paged")', Read("small")') /\ Visible' \in Texts
    <3>1. {Read("paged"), Read("small"), Read("paged")', Read("small")'} \subseteq Texts
      BY <1>4, <1>6, PartFacts DEF Parts
    <3> QED
      BY <3>1, VisibleMerged, MergedTyped
  <2>2. \A d \in Drafts : text[d] = IF d = request.id THEN request.to ELSE Read(p)[d]
    BY <1>1, <1>4 DEF text, Texts
  <2>3. CASE p = "paged"
    <3>1. \A d \in Drafts : Visible'[d] = IF d = request.id THEN request.to ELSE Visible[d]
      BY <1>2, <1>6, <2>1, <2>2, <2>3, PartFacts DEF Merged
    <3> QED
      BY <1>1, <2>1, <3>1 DEF Texts
  <2>4. CASE p = "small" /\ Read("paged")[request.id] # Absent
    <3>1. \A d \in Drafts : Visible'[d] = Visible[d]
      BY <1>6, <2>1, <2>2, <2>4, PartFacts DEF Merged
    <3> QED
      BY <2>1, <3>1 DEF Texts
  <2>5. CASE p = "small" /\ Read("paged")[request.id] = Absent
    <3>1. \A d \in Drafts : Visible'[d] = IF d = request.id THEN request.to ELSE Visible[d]
      BY <1>6, <2>1, <2>2, <2>5, PartFacts DEF Merged
    <3> QED
      BY <1>1, <2>1, <3>1 DEF Texts
  <2> QED
    BY <2>3, <2>4, <2>5 DEF Parts
<1> QED
  BY <1>1, <1>8, <1>9, <1>11, <1>12, MappedStep DEF Inv

\* One file loses the draft; what more there is to do is about that file.
LEMMA Dropped ==
    ASSUME StoreAssumption, Inv, Drop, NEW p, p = Part
    PROVE  /\ p \in Parts
           /\ Read(p)' = [Read(p) EXCEPT ![request.id] = Absent]
           /\ Read(Other(p))' = Read(Other(p))
           /\ file' \in [Parts -> Texts \cup {Absent}]
           /\ UNCHANGED <<backup, version>>
           /\ \E more \in {<<>>, <<Step("unback", p)>>,
                           <<Step("unback", p), Step("sync", p)>>} : Goes(more)
<1> DEFINE left == [Read(p) EXCEPT ![request.id] = Absent]
<1>1. /\ StoreOK /\ request \in Requests /\ request.calls # <<>>
      /\ UNCHANGED <<backup, version>>
  BY DEF Drop, Does, Inv, StoreOK
<1>2. p \in Parts
  <2>1. request.calls[1] \in Calls
    BY <1>1 DEF Requests
  <2> QED
    BY <1>1, <2>1 DEF Part, Calls, Requests
<1>3. \/ left = Read(p) /\ Goes(<<>>) /\ UNCHANGED file
      \/ left = Nothing /\ Goes(<<Step("unback", p)>>) /\ file' = [file EXCEPT ![p] = Absent]
      \/ /\ Goes(<<Step("unback", p), Step("sync", p)>>)
         /\ file' = [file EXCEPT ![p] = left]
  BY DEF Drop, Step
<1>4. Read(p) \in Texts
  BY <1>1, <1>2, ReadTyped
<1>5. left \in Texts
  BY <1>4 DEF Texts, Versions
<1> HIDE DEF left
<1>6. CASE left = Read(p) /\ Goes(<<>>) /\ UNCHANGED file
  <2>1. Read(p)' = Read(p) /\ Read(Other(p))' = Read(Other(p))
    <3>1. Other(p) \in Parts
      BY <1>2, PartFacts
    <3> QED
      BY <1>1, <1>2, <1>6, <3>1, ReadKept
  <2> QED
    BY <1>1, <1>2, <1>6, <2>1 DEF StoreOK, left
<1>7. CASE ~(left = Read(p) /\ Goes(<<>>) /\ UNCHANGED file)
  <2>1. \/ file' = [file EXCEPT ![p] = left]
        \/ left = Nothing /\ file' = [file EXCEPT ![p] = Absent]
    BY <1>3, <1>7
  <2>2. /\ Read(p)' = left /\ Read(Other(p))' = Read(Other(p))
        /\ file' \in [Parts -> Texts \cup {Absent}]
    BY <1>1, <1>2, <1>5, <2>1, ReadReplaced
  <2>3. Goes(<<Step("unback", p)>>) \/ Goes(<<Step("unback", p), Step("sync", p)>>)
    BY <1>3, <1>7
  <2> QED
    BY <1>1, <1>2, <2>2, <2>3 DEF left
<1> QED
  BY <1>6, <1>7

\* The draft leaves the file it is no longer in.  Of a discard, the paged file is the
\* last; of a checkpoint, the file that got the new text stays.
LEMMA DropStep ==
    ASSUME StoreAssumption, Inv, Drop
    PROVE  Inv' /\ (Register!Apply \/ UNCHANGED Register!vars)
<1> PICK p \in Parts : Progress(p)
  BY DEF Drop, Does, Inv
<1> PICK d : d = Part
  OBVIOUS
<1> DEFINE id == request.id
           q  == Other(p)
<1>1. /\ request \in Requests /\ request # Absent /\ StoreOK
      /\ request.calls # <<>> /\ Head(request.calls) = Step("drop", d)
      /\ id \in Drafts /\ request.to \in Versions
  <2>1. /\ request \in Requests /\ request # Absent /\ StoreOK
        /\ request.calls # <<>> /\ Head(request.calls).call = "drop"
    BY DEF Drop, Does, Inv, StoreOK
  <2>2. request.calls[1] \in Calls
    BY <2>1 DEF Requests
  <2> QED
    BY <2>1, <2>2 DEF Requests, Calls, Step, Part
<1>2. q \in Parts /\ q # p /\ Parts = {p, q} /\ Other(q) = p
  BY PartFacts DEF Parts
<1>3. /\ Read(p) \in Texts /\ Read(q) \in Texts /\ Read("paged") \in Texts /\ Read("small") \in Texts
      /\ Visible = Merged(Read("paged"), Read("small")) /\ Visible \in Texts
  BY <1>1, <1>2, ReadTyped, VisibleMerged, MergedTyped DEF Parts
<1>4. PICK more \in {<<>>, <<Step("unback", d)>>, <<Step("unback", d), Step("sync", d)>>} :
         Goes(more)
  BY Dropped
<1>5. /\ d \in Parts /\ UNCHANGED <<backup, version>>
      /\ Read(d)' = [Read(d) EXCEPT ![id] = Absent]
      /\ Read(Other(d))' = Read(Other(d))
      /\ file' \in [Parts -> Texts \cup {Absent}]
  BY Dropped
<1>6. \A x \in Drafts : Read(d)'[x] = IF x = id THEN Absent ELSE Read(d)[x]
  BY <1>1, <1>3, <1>5 DEF Texts, Parts
<1>7. Read(d)' \in Texts /\ Read(Other(d))' \in Texts /\ Visible' \in Texts
      /\ Visible' = Merged(Read("paged")', Read("small")')
  <2>1. Read(d)' \in Texts /\ Read(Other(d))' \in Texts
    BY <1>1, <1>3, <1>5, PartFacts DEF Texts, Versions, Parts
  <2>2. Read("paged")' \in Texts /\ Read("small")' \in Texts
    BY <1>5, <2>1, PartFacts DEF Parts
  <2> QED
    BY <2>1, <2>2, VisibleMerged, MergedTyped
<1>8. ASSUME more \o Tail(request.calls) \in Seq(Calls), NEW r \in Parts,
             request'.to = request.to /\ request'.id = id
                /\ request'.calls = more \o Tail(request.calls) => Progress(r)',
             Visible' \in {Visible, [Visible EXCEPT ![id] = request.to]}
      PROVE  Inv' /\ (Register!Apply \/ UNCHANGED Register!vars)
  <2>1. /\ request' \in Requests /\ request' # Absent
        /\ request'.id = id /\ request'.to = request.to
        /\ request'.calls = more \o Tail(request.calls)
    BY <1>1, <1>4, <1>8, GoesOn
  <2>2. StoreOK'
    BY <1>1, <1>5, <2>1 DEF StoreOK
  <2> QED
    BY <1>1, <1>8, <2>1, <2>2, MappedStep DEF Inv
<1>9. CASE Begins(p)
  <2>1. /\ request.to = Absent /\ p = "small" /\ q = "paged" /\ d = "small"
        /\ Tail(request.calls) = <<Step("drop", q)>>
    <3>1. request.to = Absent
      BY <1>1, <1>9, CallsLeft DEF Begins, Step
    <3>2. p = "small" /\ q = "paged"
      BY <1>9, <3>1, PartFacts DEF Begins
    <3>3. request.calls = <<Step("drop", "small"), Step("drop", "paged")>>
      BY <1>9, <3>1 DEF Begins
    <3>4. Step("drop", d) = Step("drop", "small") /\ Tail(request.calls) = <<Step("drop", "paged")>>
      BY <1>1, <3>3
    <3> QED
      BY <3>1, <3>2, <3>4 DEF Step
  <2>2. more \o Tail(request.calls) \in Between(p)
    <3>1. more \in {<<>>, <<Step("unback", p)>>, <<Step("unback", p), Step("sync", p)>>}
      BY <1>4, <2>1
    <3>2. more \o <<Step("drop", q)>> \in
              {<<Step("drop", q)>>, <<Step("unback", p), Step("drop", q)>>,
               <<Step("unback", p), Step("sync", p), Step("drop", q)>>}
      BY <1>2, <3>1, CallsAdded
    <3> QED
      BY <2>1, <3>2 DEF Between
  <2>3. more \o Tail(request.calls) \in Seq(Calls)
    BY <2>2, CallsTyped
  <2>4. Read(p)'[id] = Absent
    BY <1>1, <1>6, <2>1
  <2>5. request'.to = request.to /\ request'.id = id
                /\ request'.calls = more \o Tail(request.calls) => Progress(p)'
    BY <2>1, <2>2, <2>4 DEF Progress
  <2>6. Visible' \in {Visible, [Visible EXCEPT ![id] = request.to]}
    <3>1. Read("small")' = Read(d)' /\ Read("paged")' = Read("paged")
      BY <1>2, <1>5, <2>1, PartFacts
    <3>2. CASE Read("paged")[id] = Absent
      <4>1. \A x \in Drafts : Visible'[x] = IF x = id THEN request.to ELSE Visible[x]
        BY <1>3, <1>6, <1>7, <2>1, <3>1, <3>2 DEF Merged
      <4> QED
        BY <1>1, <1>3, <1>7, <4>1 DEF Texts
    <3>3. CASE Read("paged")[id] # Absent
      <4>1. \A x \in Drafts : Visible'[x] = Visible[x]
        BY <1>3, <1>6, <1>7, <2>1, <3>1, <3>3 DEF Merged
      <4> QED
        BY <1>3, <1>7, <4>1 DEF Texts
    <3> QED
      BY <3>2, <3>3
  <2> QED
    BY <1>8, <2>3, <2>5, <2>6
<1>10. CASE request.calls \in Between(p) /\ Read(p)[id] = request.to
            /\ (request.to = Absent => p = "small")
  <2>1. d = q /\ Tail(request.calls) = <<>>
    BY <1>1, <1>10, CallsLeft DEF Step
  <2>2. more \o Tail(request.calls) \in After(q)
    BY <1>2, <2>1, CallsAdded DEF After
  <2>3. more \o Tail(request.calls) \in Seq(Calls)
    BY <2>2, CallsTyped
  <2>4. Read(q)'[id] = Absent /\ Read(p)' = Read(p)
    BY <1>1, <1>2, <1>5, <1>6, <2>1
  <2>5. request'.to = request.to /\ request'.id = id
                /\ request'.calls = more \o Tail(request.calls) => Progress(p)'
    BY <1>10, <2>2, <2>4 DEF Progress
  <2>6. Visible' \in {Visible, [Visible EXCEPT ![id] = request.to]}
    <3>1. CASE p = "small"
      <4>1. Read("paged")' = Read(d)' /\ Read("small")' = Read("small") /\ d = "paged"
        BY <2>1, <2>4, <3>1, PartFacts
      <4>2. \A x \in Drafts : Visible'[x] = IF x = id THEN request.to ELSE Visible[x]
        BY <1>3, <1>6, <1>7, <1>10, <3>1, <4>1 DEF Merged
      <4> QED
        BY <1>1, <1>3, <1>7, <4>2 DEF Texts
    <3>2. CASE p = "paged"
      <4>1. Read("small")' = Read(d)' /\ Read("paged")' = Read("paged") /\ d = "small"
        BY <2>1, <2>4, <3>2, PartFacts
      <4>2. \A x \in Drafts : Visible'[x] = Visible[x]
        BY <1>3, <1>6, <1>7, <1>10, <3>2, <4>1 DEF Merged
      <4> QED
        BY <1>3, <1>7, <4>2 DEF Texts
    <3> QED
      BY <3>1, <3>2 DEF Parts
  <2> QED
    BY <1>8, <2>3, <2>5, <2>6
<1>11. request.calls \notin After(q)
  BY <1>1, CallsLeft DEF Step
<1> QED
  BY <1>9, <1>10, <1>11 DEF Progress

\* An answer of success comes when both files are as the request wants them; a failure
\* or the end of the daemon leaves them as they are.
LEMMA EndStep ==
    ASSUME StoreAssumption, Inv, Succeed \/ Fail \/ Crash
    PROVE  Inv' /\ (Register!Succeed \/ Register!GiveUp)
<1>1. /\ request # Absent /\ request' = Absent /\ UNCHANGED <<file, backup, version>>
      /\ request \in Requests /\ request.id \in Drafts /\ StoreOK
  BY DEF Succeed, Fail, Crash, Does, Ends, Inv, StoreOK, Requests
<1>2. Inv'
  BY <1>1 DEF Inv, StoreOK
<1>3. Visible' = Visible
  BY <1>1, ReadKept
<1>4. [id |-> request.id, to |-> request.to] # Absent
  BY <1>1 DEF StoreAssumption, Requests, Versions
<1>5. CASE Succeed
  <2>1. PICK p \in Parts : Progress(p)
    BY <1>1 DEF Inv
  <2>2. Read(p)[request.id] = request.to /\ Read(Other(p))[request.id] = Absent
    <3>1. request.calls = <<>>
      BY <1>5 DEF Succeed
    <3>2. <<>> \notin Between(p) /\ CheckpointCalls(p) # <<>>
      BY CallsLeft DEF CheckpointCalls
    <3> QED
      BY <2>1, <3>1, <3>2 DEF Progress, Begins
  <2>3. Visible[request.id] = request.to
    BY <1>1, <2>2, VisibleMerged, PartFacts DEF Merged, Parts
  <2> QED
    BY <1>1, <1>2, <1>3, <1>4, <2>3 DEF Register!Succeed
<1>6. CASE Fail \/ Crash
  BY <1>1, <1>2, <1>3, <1>4 DEF Register!GiveUp
<1> QED
  BY <1>5, <1>6

-----------------------------------------------------------------------------
LEMMA InitOK ==
    ASSUME StoreAssumption, "backup" \notin Ops, Init
    PROVE  Inv /\ Register!Init
<1>1. StoreOK
  BY DEF Init, StoreOK, Contents, Texts, Versions
<1>2. Visible \in Texts
  BY <1>1, ReadTyped, VisibleMerged, MergedTyped DEF Parts
<1> QED
  BY <1>1, <1>2 DEF Init, Inv, Register!Init, Register!Versions, Texts, Versions

LEMMA NextOK ==
    ASSUME StoreAssumption, Inv, [Next]_vars
    PROVE  Inv' /\ [Register!Next]_(Register!vars)
<1>1. CASE UNCHANGED vars
  <2>1. (\A p \in Parts : Read(p)' = Read(p)) /\ Visible' = Visible
    BY <1>1, ReadKept DEF vars
  <2>2. \A p \in Parts : Progress(p) => Progress(p)'
    BY <1>1, <2>1, PartFacts DEF vars, Progress, Begins
  <2> QED
    BY <1>1, <2>1, <2>2 DEF vars, Inv, StoreOK, Register!vars
<1>2. CASE Next
  BY <1>2, StartStep, QuietStep, PutStep, DropStep, EndStep DEF Next, Register!Next
<1> QED
  BY <1>1, <1>2

\* Whatever call fails and wherever the daemon ends, what list returns of a draft is
\* what it was or what it becomes, at one instant, the other drafts stay, and success is
\* final (drafts.rs checkpoint, discard, list): the store implements DraftRegister.
THEOREM OneCopyKept ==
    ASSUME StoreAssumption, "backup" \notin Ops
    PROVE  Spec => OneCopy
<1> QED
  BY InitOK, NextOK, PTL DEF Spec, OneCopy, Register!Spec
=============================================================================
