------------------------ MODULE WorkspaceStoreProofs ------------------------
(***************************************************************************)
(* What holds of WorkspaceStore whatever its constants: the list agrees    *)
(* with itself, over every request, crash and load; and while a save at    *)
(* exit does not overlap the saver's, a save is whole or absent, and the   *)
(* file never loses what it has.                                           *)
(*                                                                         *)
(* The invariant Agreeing says of a list what its methods rely on, and of  *)
(* every text that a save has taken or written that it can be loaded: a    *)
(* load makes a list of what a daemon before it has left in the file.      *)
(* Sound adds where each save stands: what it holds is no older than the   *)
(* file it will replace, and no newer than the list.                       *)
(***************************************************************************)
EXTENDS WorkspaceStore, SequenceTheorems, WellFoundedInduction, TLAPS

\* All that the agreement needs of a record is its session.
IsRecord(r) == "session" \in DOMAIN r /\ r.session \in Sessions

Shaped(l) ==
    /\ l = [order |-> l.order, byId |-> l.byId, bySession |-> l.bySession,
            focused |-> l.focused]
    /\ l.order \in Seq(Workspaces)
    /\ l.byId = [w \in DOMAIN l.byId |-> l.byId[w]]
    /\ DOMAIN l.byId \subseteq Workspaces
    /\ \A w \in DOMAIN l.byId : IsRecord(l.byId[w])
    /\ l.bySession \in [Sessions -> Workspaces \cup {None}]
    /\ l.focused \in Workspaces \cup {None}

Agrees(l) == Shaped(l) /\ Consistent(l)

\* What a snapshot of such a list keeps of it.
Loadable(saved) ==
    /\ saved.order \in Seq(Workspaces)
    /\ \A i, j \in DOMAIN saved.order : saved.order[i] = saved.order[j] => i = j

Agreeing ==
    /\ Agrees(list)
    /\ content = [f \in Files |-> content[f]]
    /\ \A f \in Files : content[f] # Torn => Loadable(content[f].list)
    /\ named \in [PathNames -> Files \cup {None}]
    /\ writer = [v \in Writers |-> writer[v]]
    /\ \A v \in Writers :
          /\ writer[v] = [at |-> writer[v].at, save |-> writer[v].save, file |-> writer[v].file]
          /\ writer[v].save # Torn => Loadable(writer[v].save.list)

-----------------------------------------------------------------------------
(* Induction over numbers, and what retain leaves of a list.               *)

Less == {pair \in Nat \X Nat : pair[1] < pair[2]}

LEMMA LessWellFounded == IsWellFoundedOn(Less, Nat)
<1>1. Less = OpToRel(<, Nat)
  BY DEF Less, OpToRel
<1> QED
  BY <1>1, NatLessThanWellFounded

\* The principle for a set instead of a predicate: the least number outside it has a
\* predecessor inside.
LEMMA NatSetInduction ==
    ASSUME NEW S \in SUBSET Nat, 0 \in S, \A n \in S : n + 1 \in S
    PROVE  S = Nat
<1>. SUFFICES ASSUME S # Nat PROVE FALSE
  OBVIOUS
<1>1. PICK n \in Nat \ S : \A m \in Nat \ S : <<m, n>> \notin Less
  <2>1. Nat \ S \subseteq Nat /\ Nat \ S # {}
    OBVIOUS
  <2>. QED BY <2>1, LessWellFounded, WFMin
<1>2. n # 0 /\ n - 1 \in Nat /\ n - 1 < n /\ (n - 1) + 1 = n
  OBVIOUS
<1>3. <<n - 1, n>> \in Less
  BY <1>2 DEF Less
<1>4. n - 1 \in S
  BY <1>1, <1>2, <1>3
<1>. QED BY <1>2, <1>4

\* One more tab after those kept of the first ones.
Kept(tabs, p, before, n) == IF tabs[n] = p THEN before ELSE Append(before, tabs[n])

Keeps(g, tabs, p, n) ==
    g = [i \in 0..n |-> IF i = 0 THEN <<>> ELSE Kept(tabs, p, g[i - 1], i)]

LEMMA SomeKeeps ==
    ASSUME NEW tabs \in Seq(Tabs), NEW p
    PROVE  \A n \in Nat : \E g : Keeps(g, tabs, p, n)
<1>. DEFINE S == {n \in Nat : \E g : Keeps(g, tabs, p, n)}
<1>1. 0 \in S
  <2>. DEFINE g == [i \in 0..0 |-> <<>>]
  <2>1. Keeps(g, tabs, p, 0)
    BY DEF Keeps
  <2>. QED BY <2>1
<1>2. ASSUME NEW n \in S PROVE n + 1 \in S
  <2>1. PICK g : Keeps(g, tabs, p, n)
    OBVIOUS
  <2>. DEFINE h == [i \in 0..(n + 1) |-> IF i = n + 1 THEN Kept(tabs, p, g[n], n + 1) ELSE g[i]]
  <2>2. \A i \in 0..n : g[i] = IF i = 0 THEN <<>> ELSE Kept(tabs, p, g[i - 1], i)
    BY <2>1 DEF Keeps
  <2>3. \A i \in 0..(n + 1) : h[i] = IF i = 0 THEN <<>> ELSE Kept(tabs, p, h[i - 1], i)
    <3>. SUFFICES ASSUME NEW i \in 0..(n + 1)
                  PROVE  h[i] = IF i = 0 THEN <<>> ELSE Kept(tabs, p, h[i - 1], i)
      OBVIOUS
    <3>1. CASE i = n + 1
      BY <3>1
    <3>2. CASE i \in 0..n
      BY <2>2, <3>2
    <3>. QED BY <3>1, <3>2
  <2>4. Keeps(h, tabs, p, n + 1)
    BY <2>3 DEF Keeps
  <2>. QED BY <2>4
<1>. HIDE DEF S
<1>3. S \in SUBSET Nat
  BY DEF S
<1>4. S = Nat
  BY <1>1, <1>2, <1>3, NatSetInduction
<1>. QED BY <1>4 DEF S

LEMMA KeepsTyped ==
    ASSUME NEW tabs \in Seq(Tabs), NEW p, NEW g, Keeps(g, tabs, p, Len(tabs))
    PROVE  g[Len(tabs)] \in Seq(Tabs) /\ Len(g[Len(tabs)]) <= Len(tabs)
<1>. DEFINE S == {n \in Nat : n <= Len(tabs) => g[n] \in Seq(Tabs) /\ Len(g[n]) <= n}
<1>1. \A i \in 0..Len(tabs) : g[i] = IF i = 0 THEN <<>> ELSE Kept(tabs, p, g[i - 1], i)
  BY DEF Keeps
<1>2. 0 \in S
  <2>1. g[0] = <<>>
    BY <1>1
  <2>2. <<>> \in Seq(Tabs) /\ Len(<<>>) = 0
    OBVIOUS
  <2>3. g[0] \in Seq(Tabs) /\ Len(g[0]) <= 0
    BY <2>1, <2>2
  <2>. QED BY <2>3
<1>3. ASSUME NEW n \in S PROVE n + 1 \in S
  <2>. SUFFICES ASSUME n + 1 <= Len(tabs)
                PROVE  g[n + 1] \in Seq(Tabs) /\ Len(g[n + 1]) <= n + 1
    OBVIOUS
  <2>1. n \in Nat /\ g[n] \in Seq(Tabs) /\ Len(g[n]) <= n /\ tabs[n + 1] \in Tabs
    OBVIOUS
  <2>2. g[n + 1] = Kept(tabs, p, g[n], n + 1)
    BY <1>1
  <2>3. g[n + 1] \in {g[n], Append(g[n], tabs[n + 1])}
    BY <2>2 DEF Kept
  <2>4. /\ Append(g[n], tabs[n + 1]) \in Seq(Tabs)
        /\ Len(Append(g[n], tabs[n + 1])) = Len(g[n]) + 1 /\ Len(g[n]) \in Nat
    BY <2>1
  <2>. HIDE DEF S
  <2>5. CASE g[n + 1] = g[n]
    BY <2>1, <2>4, <2>5
  <2>6. CASE g[n + 1] = Append(g[n], tabs[n + 1])
    BY <2>1, <2>4, <2>6
  <2>. QED BY <2>3, <2>5, <2>6
<1>. HIDE DEF S
<1>4. S \in SUBSET Nat
  BY DEF S
<1>5. S = Nat
  BY <1>2, <1>3, <1>4, NatSetInduction
<1>. QED BY <1>5 DEF S

LEMMA RetainedTyped ==
    ASSUME NEW tabs \in Seq(Tabs), NEW p
    PROVE  Retained(tabs, p) \in Seq(Tabs) /\ Len(Retained(tabs, p)) <= Len(tabs)
<1>. DEFINE g == CHOOSE g : Keeps(g, tabs, p, Len(tabs))
<1>1. Len(tabs) \in Nat
  OBVIOUS
<1>2. Keeps(g, tabs, p, Len(tabs))
  BY <1>1, SomeKeeps
<1>3. Retained(tabs, p) = g[Len(tabs)]
  BY DEF Retained, Keeps, Kept
<1>. HIDE DEF g
<1>. QED BY <1>2, <1>3, KeepsTyped

-----------------------------------------------------------------------------
(* The list.                                                               *)

LEMMA EmptyAgrees == Agrees(EmptyList)
  BY ListAssumption
  DEF Agrees, Shaped, Consistent, EmptyList, Known, ToSet

LEMMA CreatedAgrees ==
  ASSUME NEW l, Agrees(l), NEW w \in Workspaces, NEW s \in Sessions,
         NEW name, NEW root, ~Known(l, w), s \in Unused(l)
  PROVE  Agrees(Created(l, w, s, name, root))
<1> DEFINE new == Created(l, w, s, name, root)
           rec == [name |-> name, root |-> root, session |-> s,
                   tabs |-> <<>>, active |-> 0, folders |-> None]
<1>1. /\ new.order = Append(l.order, w)
      /\ new.byId = [x \in DOMAIN l.byId \cup {w} |-> IF x # w THEN l.byId[x] ELSE rec]
      /\ new.bySession = [l.bySession EXCEPT ![s] = w]
      /\ new.focused = IF l.focused = None THEN w ELSE l.focused
      /\ new = [order |-> new.order, byId |-> new.byId, bySession |-> new.bySession,
                focused |-> new.focused]
  BY DEF Created
<1>2. l.bySession[s] = None /\ w # None /\ s # None /\ IsRecord(rec)
  BY ListAssumption DEF Unused, IsRecord
<1>3. /\ DOMAIN new.byId = DOMAIN l.byId \cup {w} /\ w \notin DOMAIN l.byId
      /\ new.byId[w] = rec /\ rec.session = s
      /\ \A x \in DOMAIN l.byId : new.byId[x] = l.byId[x]
  BY <1>1 DEF Known
<1> HIDE DEF new, rec
<1>4. Shaped(new)
  BY <1>1, <1>2, <1>3 DEF Agrees, Shaped
<1>5. /\ Len(new.order) = Len(l.order) + 1 /\ new.order[Len(l.order) + 1] = w
      /\ \A i \in 1..Len(l.order) : new.order[i] = l.order[i]
      /\ DOMAIN new.order = 1..(Len(l.order) + 1) /\ DOMAIN l.order = 1..Len(l.order)
      /\ Len(l.order) \in Nat
  BY <1>1 DEF Agrees, Shaped
<1>6. ToSet(new.order) = DOMAIN new.byId
  <2>1. ToSet(new.order) = ToSet(l.order) \cup {w}
    BY <1>5 DEF ToSet
  <2>. QED BY <2>1, <1>3 DEF Agrees, Consistent
<1>7. \A i, j \in DOMAIN new.order : new.order[i] = new.order[j] => i = j
  <2>1. \A i \in DOMAIN l.order : l.order[i] # w
    BY <1>3 DEF Agrees, Consistent, ToSet
  <2>2. \A i, j \in DOMAIN l.order : l.order[i] = l.order[j] => i = j
    BY DEF Agrees, Consistent
  <2>. QED BY <1>5, <2>1, <2>2
<1>8. \A x \in DOMAIN new.byId : new.bySession[new.byId[x].session] = x
  <2>1. \A x \in DOMAIN l.byId : l.byId[x].session \in Sessions \ {s}
    BY <1>2, ListAssumption DEF Agrees, Shaped, IsRecord, Consistent
  <2>. QED BY <1>1, <1>3, <2>1 DEF Agrees, Shaped, Consistent
<1>9. \A t \in Sessions : new.bySession[t] # None =>
         Known(new, new.bySession[t]) /\ new.byId[new.bySession[t]].session = t
  BY <1>1, <1>2, <1>3 DEF Agrees, Shaped, Consistent, Known
<1>10. new.order # <<>> /\ new.focused # None /\ Known(new, new.focused)
  <2>1. new.order # <<>>
    BY <1>5
  <2>. QED BY <1>1, <1>2, <1>3, <2>1 DEF Agrees, Consistent, Known
<1>11. Consistent(new)
  BY <1>6, <1>7, <1>8, <1>9, <1>10 DEF Consistent
<1>. QED BY <1>4, <1>11 DEF Agrees, new

\* A record that changes and keeps its session.
LEMMA RecordAgrees ==
  ASSUME NEW l, Agrees(l), NEW w, Known(l, w),
         NEW r, IsRecord(r), r.session = l.byId[w].session
  PROVE  Agrees([l EXCEPT !.byId = [l.byId EXCEPT ![w] = r]])
<1> DEFINE new == [l EXCEPT !.byId = [l.byId EXCEPT ![w] = r]]
<1>1. /\ new.order = l.order /\ new.bySession = l.bySession /\ new.focused = l.focused
      /\ new.byId = [l.byId EXCEPT ![w] = r]
      /\ new = [order |-> new.order, byId |-> new.byId, bySession |-> new.bySession,
                focused |-> new.focused]
  BY DEF Agrees, Shaped
<1>2. /\ DOMAIN new.byId = DOMAIN l.byId
      /\ \A x \in DOMAIN l.byId : new.byId[x] = IF x = w THEN r ELSE l.byId[x]
  BY <1>1 DEF Agrees, Shaped
<1>3. /\ \A x \in DOMAIN l.byId : new.byId[x].session = l.byId[x].session
      /\ \A x \in DOMAIN l.byId : IsRecord(new.byId[x])
      /\ new.byId = [x \in DOMAIN new.byId |-> new.byId[x]]
  BY <1>1, <1>2 DEF Agrees, Shaped
<1> HIDE DEF new
<1>4. Shaped(new)
  BY <1>1, <1>2, <1>3 DEF Agrees, Shaped
<1>5. Consistent(new)
  BY <1>1, <1>2, <1>3 DEF Agrees, Shaped, Consistent, Known
<1>. QED BY <1>4, <1>5 DEF Agrees, new

LEMMA FocusedAgrees ==
  ASSUME NEW l, Agrees(l), NEW w \in Workspaces, Known(l, w)
  PROVE  Agrees(Focused(l, w))
<1> DEFINE new == Focused(l, w)
<1>1. /\ new.order = l.order /\ new.bySession = l.bySession /\ new.byId = l.byId
      /\ new.focused = w
      /\ new = [order |-> new.order, byId |-> new.byId, bySession |-> new.bySession,
                focused |-> new.focused]
  BY DEF Focused, Agrees, Shaped
<1> HIDE DEF new
<1>2. l.order # <<>> /\ w # None
  BY ListAssumption DEF Agrees, Consistent, ToSet, Known
<1>3. Shaped(new)
  BY <1>1 DEF Agrees, Shaped
<1>4. Consistent(new)
  BY <1>1, <1>2 DEF Agrees, Consistent, Known
<1>. QED BY <1>3, <1>4 DEF Agrees, new

\* The order without one of its entries.
LEMMA WithoutOne ==
  ASSUME NEW order \in Seq(Workspaces), NEW w \in ToSet(order),
         \A i, j \in DOMAIN order : order[i] = order[j] => i = j
  PROVE  /\ Without(order, w) \in Seq(Workspaces)
         /\ Len(Without(order, w)) = Len(order) - 1
         /\ ToSet(Without(order, w)) = ToSet(order) \ {w}
         /\ \A i, j \in DOMAIN Without(order, w) :
               Without(order, w)[i] = Without(order, w)[j] => i = j
<1> DEFINE at == CHOOSE i \in DOMAIN order : order[i] = w
           new == Without(order, w)
<1>1. at \in DOMAIN order /\ order[at] = w
  BY DEF ToSet
<1>2. new = [i \in 1..(Len(order) - 1) |-> IF i < at THEN order[i] ELSE order[i + 1]]
  BY DEF Without
<1>3. DOMAIN order = 1..Len(order) /\ Len(order) \in Nat /\ Len(order) # 0
      /\ at \in 1..Len(order)
  BY <1>1
<1> HIDE DEF at, new
<1>4. new \in Seq(Workspaces) /\ Len(new) = Len(order) - 1 /\ DOMAIN new = 1..(Len(order) - 1)
  <2>1. \A i \in 1..(Len(order) - 1) : (IF i < at THEN order[i] ELSE order[i + 1]) \in Workspaces
    BY <1>3
  <2>2. new \in [1..(Len(order) - 1) -> Workspaces]
    BY <1>2, <2>1
  <2>3. Len(order) - 1 \in Nat
    BY <1>3
  <2>4. new \in Seq(Workspaces)
    BY <2>2, <2>3, SeqDef
  <2>5. DOMAIN new = 1..(Len(order) - 1)
    BY <1>2
  <2>. QED BY <2>3, <2>4, <2>5, LenProperties
<1>5. \A i \in 1..(Len(order) - 1) : new[i] = order[IF i < at THEN i ELSE i + 1]
  BY <1>2
<1>6. \A i, j \in DOMAIN new : new[i] = new[j] => i = j
  <2>. SUFFICES ASSUME NEW i \in DOMAIN new, NEW j \in DOMAIN new, new[i] = new[j] PROVE i = j
    OBVIOUS
  <2>. DEFINE a == IF i < at THEN i ELSE i + 1
              b == IF j < at THEN j ELSE j + 1
  <2>1. a \in DOMAIN order /\ b \in DOMAIN order /\ order[a] = order[b]
    BY <1>3, <1>4, <1>5
  <2>2. a = b
    BY <2>1
  <2>. QED BY <2>2, <1>3, <1>4
<1>7. ToSet(new) = ToSet(order) \ {w}
  <2>1. ASSUME NEW x \in ToSet(new) PROVE x \in ToSet(order) \ {w}
    <3>1. PICK i \in DOMAIN new : x = new[i]
      BY DEF ToSet
    <3>. DEFINE a == IF i < at THEN i ELSE i + 1
    <3>2. a \in DOMAIN order /\ a # at /\ x = order[a]
      BY <3>1, <1>3, <1>4, <1>5
    <3>. QED BY <3>2, <1>1 DEF ToSet
  <2>2. ASSUME NEW x \in ToSet(order) \ {w} PROVE x \in ToSet(new)
    <3>1. PICK a \in DOMAIN order : x = order[a]
      BY DEF ToSet
    <3>2. a # at
      BY <3>1, <1>1
    <3>. DEFINE i == IF a < at THEN a ELSE a - 1
    <3>3. i \in DOMAIN new /\ new[i] = x
      BY <3>1, <3>2, <1>3, <1>4, <1>5
    <3>. QED BY <3>3 DEF ToSet
  <2>. QED BY <2>1, <2>2
<1>. QED BY <1>4, <1>6, <1>7 DEF new

LEMMA ClosedAgrees ==
  ASSUME NEW l, Agrees(l), NEW w \in Workspaces, Known(l, w), Len(l.order) > 1
  PROVE  Agrees(Closed(l, w))
<1> DEFINE new == Closed(l, w)
           s == l.byId[w].session
<1>1. /\ new.order = Without(l.order, w)
      /\ new.byId = [x \in DOMAIN l.byId \ {w} |-> l.byId[x]]
      /\ new.bySession = [l.bySession EXCEPT ![s] = None]
      /\ new.focused = IF l.focused = w THEN FirstOf(new.order) ELSE l.focused
      /\ new = [order |-> new.order, byId |-> new.byId, bySession |-> new.bySession,
                focused |-> new.focused]
  BY DEF Closed, Restrict
<1>2. s \in Sessions /\ l.bySession[s] = w /\ w \in ToSet(l.order)
  BY DEF Agrees, Shaped, Consistent, IsRecord, Known
<1>3. /\ new.order \in Seq(Workspaces) /\ Len(new.order) = Len(l.order) - 1
      /\ ToSet(new.order) = ToSet(l.order) \ {w}
      /\ \A i, j \in DOMAIN new.order : new.order[i] = new.order[j] => i = j
  <2>1. l.order \in Seq(Workspaces)
        /\ \A i, j \in DOMAIN l.order : l.order[i] = l.order[j] => i = j
    BY DEF Agrees, Shaped, Consistent
  <2>. QED BY <1>1, <1>2, <2>1, WithoutOne
<1> HIDE DEF new
<1>4. new.order # <<>> /\ 1 \in DOMAIN new.order
  BY <1>3 DEF Agrees, Shaped
<1>5. FirstOf(new.order) \in ToSet(new.order) /\ FirstOf(new.order) \in Workspaces
  BY <1>3, <1>4 DEF FirstOf, ToSet
<1>6. /\ DOMAIN new.byId = DOMAIN l.byId \ {w}
      /\ \A x \in DOMAIN new.byId : new.byId[x] = l.byId[x]
  BY <1>1
<1>7. ToSet(new.order) = DOMAIN new.byId
  BY <1>3, <1>6 DEF Agrees, Consistent
<1>8. new.focused \in DOMAIN new.byId /\ new.focused # None
  <2>1. l.order # <<>>
    BY <1>2 DEF ToSet
  <2>2. l.focused \in DOMAIN l.byId /\ l.focused # None
    BY <2>1 DEF Agrees, Consistent, Known
  <2>. QED BY <1>1, <1>5, <1>6, <1>7, <2>2, ListAssumption
<1>9. Shaped(new)
  <2>1. new.byId = [x \in DOMAIN new.byId |-> new.byId[x]]
    BY <1>1
  <2>2. /\ DOMAIN new.byId \subseteq Workspaces
        /\ \A x \in DOMAIN new.byId : IsRecord(new.byId[x])
    BY <1>6 DEF Agrees, Shaped
  <2>3. new.bySession \in [Sessions -> Workspaces \cup {None}]
    BY <1>1 DEF Agrees, Shaped
  <2>4. new.focused \in Workspaces
    BY <1>8, <2>2
  <2>. QED BY <1>1, <1>3, <2>1, <2>2, <2>3, <2>4 DEF Shaped
<1>10. \A x \in DOMAIN new.byId : new.bySession[new.byId[x].session] = x
  <2>. SUFFICES ASSUME NEW x \in DOMAIN new.byId
                PROVE  new.bySession[new.byId[x].session] = x
    OBVIOUS
  <2>1. x # w /\ x \in DOMAIN l.byId /\ new.byId[x] = l.byId[x]
    BY <1>6
  <2>2. l.bySession[l.byId[x].session] = x /\ l.byId[x].session \in Sessions
    BY <2>1 DEF Agrees, Shaped, Consistent, IsRecord
  <2>3. l.byId[x].session # s
    BY <2>1, <2>2, <1>2
  <2>. QED BY <1>1, <2>1, <2>2, <2>3 DEF Agrees, Shaped
<1>11. \A t \in Sessions : new.bySession[t] # None =>
         Known(new, new.bySession[t]) /\ new.byId[new.bySession[t]].session = t
  <2>. SUFFICES ASSUME NEW t \in Sessions, new.bySession[t] # None
                PROVE  Known(new, new.bySession[t]) /\ new.byId[new.bySession[t]].session = t
    OBVIOUS
  <2>1. t # s /\ new.bySession[t] = l.bySession[t]
    BY <1>1 DEF Agrees, Shaped
  <2>2. l.bySession[t] \in DOMAIN l.byId /\ l.byId[l.bySession[t]].session = t
    BY <2>1 DEF Agrees, Consistent, Known
  <2>. QED BY <2>1, <2>2, <1>6 DEF Known
<1>12. Consistent(new)
  BY <1>3, <1>4, <1>7, <1>8, <1>10, <1>11 DEF Consistent, Known
<1>. QED BY <1>9, <1>12 DEF Agrees, new

LEMMA RestoredAgrees ==
  ASSUME NEW saved, Loadable(saved), NEW session \in NewSessions
  PROVE  Agrees(Restored(saved, session))
<1> DEFINE new == Restored(saved, session)
           Held == ToSet(saved.order)
<1>1. /\ new.order = saved.order
      /\ DOMAIN new.byId = Held
      /\ new.byId = [w \in DOMAIN new.byId |-> new.byId[w]]
      /\ \A w \in Held : /\ new.byId[w].session = session[w]
                          /\ new.byId[w] = [name |-> saved.saved[w].name,
                                            root |-> saved.saved[w].root,
                                            session |-> session[w],
                                            tabs |-> saved.saved[w].tabs,
                                            active |-> saved.saved[w].active,
                                            folders |-> saved.saved[w].folders]
      /\ new.bySession = [s \in Sessions |->
                            IF \E w \in Held : session[w] = s
                            THEN CHOOSE w \in Held : session[w] = s ELSE None]
      /\ new.focused = IF saved.focused \in Held THEN saved.focused ELSE FirstOf(saved.order)
      /\ new = [order |-> new.order, byId |-> new.byId, bySession |-> new.bySession,
                focused |-> new.focused]
  BY DEF Restored
<1> HIDE DEF new
<1>2. /\ saved.order \in Seq(Workspaces) /\ Held \subseteq Workspaces
      /\ session \in [Workspaces -> Sessions]
      /\ \A w, x \in Workspaces : session[w] = session[x] => w = x
  BY DEF Loadable, ToSet, NewSessions
<1>3. \A w \in Held : session[w] \in Sessions /\ new.bySession[session[w]] = w
  BY <1>1, <1>2
<1>4. \A s \in Sessions : new.bySession[s] # None =>
         new.bySession[s] \in Held /\ session[new.bySession[s]] = s
  BY <1>1
<1>5. saved.order # <<>> =>
         1 \in DOMAIN saved.order /\ FirstOf(saved.order) \in Held
  BY <1>2 DEF FirstOf, ToSet
<1>6. saved.order = <<>> => Held = {} /\ FirstOf(saved.order) = None
  BY DEF FirstOf, ToSet
<1>7. /\ new.focused = None <=> saved.order = <<>>
      /\ new.focused # None => new.focused \in Held
  BY <1>1, <1>2, <1>5, <1>6, ListAssumption
<1>8. Shaped(new)
  <2>1. \A w \in DOMAIN new.byId : IsRecord(new.byId[w])
    <3>. SUFFICES ASSUME NEW w \in Held PROVE IsRecord(new.byId[w])
      BY <1>1
    <3>1. session[w] \in Sessions
      BY <1>3
    <3>2. "session" \in DOMAIN [name |-> saved.saved[w].name, root |-> saved.saved[w].root,
                                session |-> session[w], tabs |-> saved.saved[w].tabs,
                                active |-> saved.saved[w].active,
                                folders |-> saved.saved[w].folders]
      OBVIOUS
    <3>3. "session" \in DOMAIN new.byId[w] /\ new.byId[w].session = session[w]
      BY <1>1, <3>2
    <3>. QED BY <3>1, <3>3 DEF IsRecord
  <2>2. new.bySession \in [Sessions -> Workspaces \cup {None}]
    <3>1. \A s \in Sessions : new.bySession[s] \in Workspaces \cup {None}
      BY <1>2, <1>4
    <3>. QED BY <1>1, <3>1
  <2>3. new.focused \in Workspaces \cup {None}
    BY <1>2, <1>7
  <2>. QED BY <1>1, <1>2, <2>1, <2>2, <2>3 DEF Shaped
<1>9. Consistent(new)
  <2>1. \A i, j \in DOMAIN new.order : new.order[i] = new.order[j] => i = j
    BY <1>1 DEF Loadable
  <2>2. \A w \in DOMAIN new.byId : new.bySession[new.byId[w].session] = w
    BY <1>1, <1>3
  <2>3. \A s \in Sessions : new.bySession[s] # None =>
          Known(new, new.bySession[s]) /\ new.byId[new.bySession[s]].session = s
    BY <1>1, <1>4 DEF Known
  <2>. QED BY <1>1, <1>7, <2>1, <2>2, <2>3 DEF Consistent, Known
<1>. QED BY <1>8, <1>9 DEF Agrees, new

-----------------------------------------------------------------------------
\* The changes of one record.
LEMMA RenamedAgrees ==
  ASSUME NEW l, Agrees(l), NEW w, Known(l, w), NEW name
  PROVE  Agrees(Renamed(l, w, name))
<1> DEFINE r == [l.byId[w] EXCEPT !.name = name]
<1>1. IsRecord(l.byId[w])
  BY DEF Agrees, Shaped, Known
<1>2. IsRecord(r) /\ r.session = l.byId[w].session
  BY <1>1 DEF IsRecord
<1>3. Renamed(l, w, name) = [l EXCEPT !.byId = [l.byId EXCEPT ![w] = r]]
  BY DEF Renamed
<1> HIDE DEF r
<1>4. Agrees([l EXCEPT !.byId = [l.byId EXCEPT ![w] = r]])
  BY <1>2, RecordAgrees
<1>. QED BY <1>3, <1>4

LEMMA RootedAgrees ==
  ASSUME NEW l, Agrees(l), NEW w, Known(l, w), NEW root
  PROVE  Agrees(Rooted(l, w, root))
<1> DEFINE r == [l.byId[w] EXCEPT !.root = root]
           q == [r EXCEPT !.folders = None]
<1>1. IsRecord(l.byId[w])
  BY DEF Agrees, Shaped, Known
<1>2. IsRecord(r) /\ r.session = l.byId[w].session
  BY <1>1 DEF IsRecord
<1>. HIDE DEF r
<1>3. IsRecord(q) /\ q.session = l.byId[w].session
  BY <1>2 DEF IsRecord
<1>4. Rooted(l, w, root) = [l EXCEPT !.byId = [l.byId EXCEPT ![w] = q]]
  BY DEF Rooted, Agrees, Shaped, Known, r
<1> HIDE DEF q
<1>5. Agrees([l EXCEPT !.byId = [l.byId EXCEPT ![w] = q]])
  BY <1>3, RecordAgrees
<1>. QED BY <1>4, <1>5

\* Whatever the tabs become.
LEMMA TabsAgree ==
  ASSUME NEW l, Agrees(l), NEW w, Known(l, w), NEW tabs, NEW active
  PROVE  Agrees([l EXCEPT !.byId[w].tabs = tabs, !.byId[w].active = active])
<1> DEFINE r == [l.byId[w] EXCEPT !.tabs = tabs, !.active = active]
<1>1. IsRecord(l.byId[w])
  BY DEF Agrees, Shaped, Known
<1>2. IsRecord(r) /\ r.session = l.byId[w].session
  BY <1>1 DEF IsRecord
<1>3. [l EXCEPT !.byId[w].tabs = tabs, !.byId[w].active = active]
        = [l EXCEPT !.byId = [l.byId EXCEPT ![w] = r]]
  BY DEF Agrees, Shaped, Known
<1> HIDE DEF r
<1>4. Agrees([l EXCEPT !.byId = [l.byId EXCEPT ![w] = r]])
  BY <1>2, RecordAgrees
<1>. QED BY <1>3, <1>4

LEMMA LaidOutAgrees ==
  ASSUME NEW l, Agrees(l), NEW w, Known(l, w), NEW tabs, NEW active, NEW folders
  PROVE  Agrees(LaidOut(l, w, tabs, active, folders))
<1> DEFINE kept == Sanitized(tabs)
           a    == Clamp(active, Len(kept))
           mid  == [l EXCEPT !.byId[w].tabs = kept, !.byId[w].active = a]
           r    == [mid.byId[w] EXCEPT !.folders = folders]
<1>1. LaidOut(l, w, tabs, active, folders) = [mid EXCEPT !.byId[w].folders = folders]
  BY DEF LaidOut
<1>. HIDE DEF kept, a
<1>2. Agrees(mid)
  BY TabsAgree
<1>3. Known(mid, w)
  BY DEF Known, Agrees, Shaped
<1> HIDE DEF mid
<1>4. IsRecord(r) /\ r.session = mid.byId[w].session
  BY <1>2, <1>3 DEF IsRecord, Agrees, Shaped, Known
<1>5. [mid EXCEPT !.byId[w].folders = folders] = [mid EXCEPT !.byId = [mid.byId EXCEPT ![w] = r]]
  OBVIOUS
<1> HIDE DEF r
<1>6. Agrees([mid EXCEPT !.byId = [mid.byId EXCEPT ![w] = r]])
  BY <1>2, <1>3, <1>4, RecordAgrees
<1>. QED BY <1>1, <1>5, <1>6

LEMMA WithTerminalAgrees ==
  ASSUME NEW l, Agrees(l), NEW s \in Sessions, NEW p
  PROVE  Agrees(WithTerminal(l, s, p))
<1> DEFINE w    == l.bySession[s]
           tabs == Append(l.byId[w].tabs, p)
           kept == IF Len(tabs) > MaxTabs THEN Tail(tabs) ELSE tabs
           a    == IF kept = tabs THEN l.byId[w].active ELSE Clamp(l.byId[w].active, Len(kept))
<1>1. CASE WithTerminal(l, s, p) = l
  BY <1>1
<1>2. CASE WithTerminal(l, s, p) # l
  <2>1. w # None /\ WithTerminal(l, s, p)
                       = [l EXCEPT !.byId[w].tabs = kept, !.byId[w].active = a]
    BY <1>2 DEF WithTerminal
  <2>2. Known(l, w)
    BY <2>1 DEF Agrees, Consistent
  <2> HIDE DEF a, kept
  <2>3. Agrees([l EXCEPT !.byId[w].tabs = kept, !.byId[w].active = a])
    BY <2>2, TabsAgree
  <2>. QED BY <2>1, <2>3
<1>. QED BY <1>1, <1>2

LEMMA WithoutTerminalAgrees ==
  ASSUME NEW l, Agrees(l), NEW s \in Sessions, NEW p
  PROVE  Agrees(WithoutTerminal(l, s, p))
<1> DEFINE w    == l.bySession[s]
           kept == Retained(l.byId[w].tabs, p)
           a    == Clamp(l.byId[w].active, Len(kept))
<1>1. CASE WithoutTerminal(l, s, p) = l
  BY <1>1
<1>2. CASE WithoutTerminal(l, s, p) # l
  <2>1. w # None /\ WithoutTerminal(l, s, p)
                       = [l EXCEPT !.byId[w].tabs = kept, !.byId[w].active = a]
    BY <1>2 DEF WithoutTerminal
  <2>2. Known(l, w)
    BY <2>1 DEF Agrees, Consistent
  <2> HIDE DEF a, kept
  <2>3. Agrees([l EXCEPT !.byId[w].tabs = kept, !.byId[w].active = a])
    BY <2>2, TabsAgree
  <2>. QED BY <2>1, <2>3
<1>. QED BY <1>1, <1>2

-----------------------------------------------------------------------------
LEMMA InitAgreeing == Init => Agreeing
  BY EmptyAgrees, ListAssumption DEF Init, Agreeing, Idle, Torn, Writers, PathNames

\* A request leaves a list that agrees, whichever it is.
LEMMA RequestAgreeing ==
  ASSUME Agreeing, Requests
  PROVE  Agreeing'
<1>1. Agrees(list)
  BY DEF Agreeing
<1> DEFINE DiskStays == UNCHANGED <<named, writer, content>>
<1>2. Agrees(list') /\ DiskStays
  <2>1. ASSUME NEW w \in Workspaces, NEW s \in Sessions, NEW name \in Names,
               NEW root \in Roots, Create(w, s, name, root)
        PROVE  Agrees(list') /\ DiskStays
    BY <1>1, <2>1, CreatedAgrees DEF Create, Change
  <2>2. ASSUME NEW w \in Workspaces, Focus(w)
        PROVE  Agrees(list') /\ DiskStays
    BY <1>1, <2>2, FocusedAgrees DEF Focus, Change
  <2>3. ASSUME NEW w \in Workspaces, Close(w)
        PROVE  Agrees(list') /\ DiskStays
    BY <1>1, <2>3, ClosedAgrees DEF Close, Change
  <2>4. ASSUME NEW w \in Workspaces, NEW name \in Names, Rename(w, name)
        PROVE  Agrees(list') /\ DiskStays
    BY <1>1, <2>4, RenamedAgrees DEF Rename, Change
  <2>5. ASSUME NEW w \in Workspaces, NEW root \in Roots, SetRoot(w, root)
        PROVE  Agrees(list') /\ DiskStays
    BY <1>1, <2>5, RootedAgrees DEF SetRoot, Change
  <2>6. ASSUME NEW w \in Workspaces, NEW layout \in Layouts, SetLayout(w, layout)
        PROVE  Agrees(list') /\ DiskStays
    BY <1>1, <2>6, LaidOutAgrees DEF SetLayout, Change
  <2>7. ASSUME NEW s \in Sessions, NEW p \in Terminals, NoteTerminal(s, p)
        PROVE  Agrees(list') /\ DiskStays
    BY <1>1, <2>7, WithTerminalAgrees DEF NoteTerminal, Change
  <2>8. ASSUME NEW s \in Sessions, NEW p \in Terminals, NoteTerminalClosed(s, p)
        PROVE  Agrees(list') /\ DiskStays
    BY <1>1, <2>8, WithoutTerminalAgrees DEF NoteTerminalClosed, Change
  <2>. QED
    BY <2>1, <2>2, <2>3, <2>4, <2>5, <2>6, <2>7, <2>8 DEF Requests
<1>. QED BY <1>2 DEF Agreeing

\* A save takes what can be loaded, and writes what it has taken.
LEMMA SavingAgreeing ==
  ASSUME Agreeing, NEW v \in Writers, Saving(v) \/ SaveFails(v)
  PROVE  Agreeing'
<1>1. CASE Take(v)
  <2> DEFINE saved == [of |-> changes, list |-> Snapshot(list)]
             new == [at |-> "taken", file |-> None, save |-> saved]
  <2>1. Loadable(saved.list)
    BY DEF Agreeing, Agrees, Shaped, Consistent, Snapshot, Loadable
  <2>2. writer' = [writer EXCEPT ![v] = new]
    BY <1>1 DEF Take
  <2>3. new = [at |-> new.at, save |-> new.save, file |-> new.file] /\ new.save = saved
    OBVIOUS
  <2> HIDE DEF new, saved
  <2>4. /\ writer' = [u \in Writers |-> writer'[u]]
        /\ \A u \in Writers : writer'[u] = IF u = v THEN new ELSE writer[u]
    BY <2>2 DEF Agreeing
  <2>. QED BY <1>1, <2>1, <2>3, <2>4 DEF Agreeing, Take
<1>2. CASE OpenTemp(v)
  <2>1. PICK f \in Files : /\ named' = [named EXCEPT !["tmp"] = f]
                           /\ content' = [content EXCEPT ![f] = Torn]
                           /\ writer' = [writer EXCEPT ![v].at = "opened", ![v].file = f]
    BY <1>2 DEF OpenTemp
  <2>2. list' = list
    BY <1>2 DEF OpenTemp
  <2>3. named' \in [PathNames -> Files \cup {None}]
    BY <2>1 DEF Agreeing
  <2>4. /\ content' = [g \in Files |-> content'[g]]
        /\ \A g \in Files : content'[g] # Torn => Loadable(content'[g].list)
    BY <2>1 DEF Agreeing
  <2> DEFINE mid == [writer EXCEPT ![v].at = "opened"]
  <2>5. /\ mid = [u \in Writers |-> mid[u]]
        /\ \A u \in Writers : u # v => mid[u] = writer[u]
        /\ mid[v] = [at |-> "opened", save |-> writer[v].save, file |-> writer[v].file]
    BY DEF Agreeing
  <2>6. writer' = [mid EXCEPT ![v].file = f]
    BY <2>1
  <2> HIDE DEF mid
  <2>7. /\ writer' = [u \in Writers |-> writer'[u]]
        /\ \A u \in Writers : u # v => writer'[u] = writer[u]
        /\ writer'[v] = [at |-> "opened", save |-> writer[v].save, file |-> f]
    BY <2>5, <2>6
  <2>. QED BY <2>2, <2>3, <2>4, <2>7 DEF Agreeing
<1>3. CASE WriteTemp(v)
  <2>1. PICK after \in {writer[v].save, Torn} :
               content' = [content EXCEPT ![writer[v].file] = after]
    BY <1>3 DEF WriteTemp
  <2>2. list' = list /\ named' = named /\ writer' = [writer EXCEPT ![v].at = "written"]
    BY <1>3 DEF WriteTemp
  <2>3. /\ content' = [g \in Files |-> content'[g]]
        /\ \A g \in Files : content'[g] # Torn => Loadable(content'[g].list)
    BY <2>1 DEF Agreeing
  <2>4. /\ writer' = [u \in Writers |-> writer'[u]]
        /\ \A u \in Writers : u # v => writer'[u] = writer[u]
        /\ writer'[v] = [at |-> "written", save |-> writer[v].save, file |-> writer[v].file]
    BY <2>2 DEF Agreeing
  <2>. QED BY <2>2, <2>3, <2>4 DEF Agreeing
<1>4. ASSUME NEW ended, ended = [at |-> ended.at, save |-> ended.save, file |-> ended.file],
             ended.save \in {Torn, writer[v].save},
             UNCHANGED <<list, content>>, named' \in [PathNames -> Files \cup {None}],
             writer' = [writer EXCEPT ![v] = ended]
      PROVE  Agreeing'
  <2>1. /\ writer' = [u \in Writers |-> writer'[u]]
        /\ \A u \in Writers : writer'[u] = IF u = v THEN ended ELSE writer[u]
    BY <1>4 DEF Agreeing
  <2>. QED BY <1>4, <2>1 DEF Agreeing
<1>5. CASE RenameTemp(v)
  <2>1. named' \in [PathNames -> Files \cup {None}]
    BY <1>5 DEF RenameTemp, Agreeing, PathNames
  <2>2. Finished(v) = [at |-> Finished(v).at, save |-> Torn, file |-> None]
    BY DEF Finished, Idle
  <2>. QED BY <1>4, <1>5, <2>1, <2>2 DEF RenameTemp
<1>6. CASE SaveFails(v)
  <2> DEFINE ended == [Finished(v) EXCEPT !.save = writer[v].save]
  <2>1. ended = [at |-> ended.at, save |-> writer[v].save, file |-> None]
    BY DEF Finished, Idle
  <2>2. writer' = [writer EXCEPT ![v] = ended] /\ UNCHANGED <<list, named, content>>
    BY <1>6 DEF SaveFails
  <2> HIDE DEF ended
  <2>. QED BY <1>4, <2>1, <2>2 DEF Agreeing
<1>. QED BY <1>1, <1>2, <1>3, <1>5, <1>6 DEF Saving

\* The process that ends leaves its files; the next one loads what they hold.
LEMMA LifeAgreeing ==
  ASSUME Agreeing,
         SaverWakes \/ Stop \/ Exit \/ Crash \/ \E session \in NewSessions : Load(session)
  PROVE  Agreeing'
<1>1. ASSUME NEW v \in Writers, UNCHANGED <<list, content, named>>,
             writer' = [writer EXCEPT ![v].at = "settling"]
      PROVE  Agreeing'
  <2>1. /\ writer' = [u \in Writers |-> writer'[u]]
        /\ \A u \in Writers : u # v => writer'[u] = writer[u]
        /\ writer'[v] = [at |-> "settling", save |-> writer[v].save, file |-> writer[v].file]
    BY <1>1 DEF Agreeing
  <2>. QED BY <1>1, <2>1 DEF Agreeing
<1>2. CASE SaverWakes
  BY <1>1, <1>2 DEF SaverWakes, Writers
<1>3. CASE Stop
  BY <1>1, <1>3 DEF Stop, Writers
<1>4. CASE Gone
  <2>1. list' = EmptyList /\ writer' = [v \in Writers |-> Idle]
        /\ UNCHANGED <<named, content>>
    BY <1>4 DEF Gone
  <2>2. Idle = [at |-> Idle.at, save |-> Torn, file |-> None]
    BY DEF Idle
  <2>. QED BY <2>1, <2>2, EmptyAgrees DEF Agreeing
<1>5. ASSUME NEW session \in NewSessions, Load(session)
      PROVE  Agreeing'
  <2> DEFINE f == named["path"]
  <2>1. UNCHANGED <<content, writer>>
    BY <1>5 DEF Load, Readable
  <2>2. CASE f = None
    BY <1>5, <2>1, <2>2 DEF Load, Readable, Agreeing
  <2>3. CASE f # None /\ content[f] = Torn
    <3>1. list' = list /\ named' = [named EXCEPT !["path"] = None]
      BY <1>5, <2>3 DEF Load, Readable
    <3>2. named' \in [PathNames -> Files \cup {None}]
      BY <3>1 DEF Agreeing
    <3>. QED BY <2>1, <3>1, <3>2 DEF Agreeing
  <2>4. CASE f # None /\ content[f] # Torn
    <3>1. list' = Restored(content[f].list, session) /\ named' = named
      BY <1>5, <2>4 DEF Load, Readable
    <3>2. Loadable(content[f].list)
      BY <2>4 DEF Agreeing, PathNames
    <3>3. Agrees(list')
      BY <3>1, <3>2, RestoredAgrees
    <3>. QED BY <2>1, <3>1, <3>3 DEF Agreeing
  <2>. QED BY <2>2, <2>3, <2>4
<1>. QED BY <1>2, <1>3, <1>4, <1>5 DEF Exit, Crash

LEMMA NextAgreeing == Agreeing /\ [Next]_vars => Agreeing'
<1>. SUFFICES ASSUME Agreeing, [Next]_vars PROVE Agreeing'
  OBVIOUS
<1>1. CASE UNCHANGED vars
  BY <1>1 DEF vars, Agreeing
<1>2. CASE Next
  BY <1>2, RequestAgreeing, SavingAgreeing, LifeAgreeing DEF Next
<1>. QED BY <1>1, <1>2

\* The order, the ids, the sessions and the focus of the list agree, whatever
\* requests come (workspace.rs), wherever a crash falls and whatever the next
\* daemon then loads.
THEOREM ListAgrees == Spec => []ListConsistent
<1>1. Agreeing => ListConsistent
  BY DEF Agreeing, Agrees, ListConsistent
<1>. QED BY InitAgreeing, NextAgreeing, <1>1, PTL DEF Spec

-----------------------------------------------------------------------------
(* The tabs of a list, and what its snapshot says of it.                   *)

InRange(rec) == Len(rec.tabs) <= MaxTabs /\ (rec.active < Len(rec.tabs) \/ rec.active = 0)

Ranged(l) == \A w \in DOMAIN l.byId : l.byId[w] \in Records /\ InRange(l.byId[w])

\* A snapshot of such a list: it can be loaded, and gives the list again.
Faithful(saved) ==
    /\ saved = [order |-> saved.order, focused |-> saved.focused, saved |-> saved.saved]
    /\ Loadable(saved)
    /\ saved.focused \in Workspaces \cup {None}
    /\ saved.saved \in [ToSet(saved.order) -> {rec \in Saved : InRange(rec)}]
    /\ saved.focused = None <=> saved.order = <<>>
    /\ saved.focused # None => saved.focused \in ToSet(saved.order)

LEMMA FaithfulSnapshot ==
    ASSUME NEW saved, Faithful(saved)
    PROVE  IsSnapshot(saved) /\ saved # None
<1>1. ToSet(saved.order) \in SUBSET Workspaces
  BY DEF Faithful, Loadable, ToSet
<1>2. saved.saved \in [ToSet(saved.order) -> Saved]
  BY DEF Faithful
<1>3. saved \in [order : Seq(Workspaces), focused : Workspaces \cup {None},
                 saved : [ToSet(saved.order) -> Saved]]
  BY <1>2 DEF Faithful, Loadable
<1>4. IsSnapshot(saved)
  BY <1>1, <1>3 DEF IsSnapshot
<1>. QED BY <1>4, SnapshotAssumption

LEMMA SnapshotFaithful ==
    ASSUME NEW l, Agrees(l), Ranged(l)
    PROVE  Faithful(Snapshot(l))
<1> DEFINE saved == Snapshot(l)
           kept(w) == [name |-> l.byId[w].name, root |-> l.byId[w].root, tabs |-> l.byId[w].tabs,
                       active |-> l.byId[w].active, folders |-> l.byId[w].folders]
<1>1. /\ saved.order = l.order /\ saved.focused = l.focused
      /\ saved.saved = [w \in DOMAIN l.byId |-> kept(w)]
      /\ saved = [order |-> saved.order, focused |-> saved.focused, saved |-> saved.saved]
  BY DEF Snapshot
<1>2. DOMAIN l.byId = ToSet(l.order)
  BY DEF Agrees, Consistent
<1>3. \A w \in DOMAIN l.byId : kept(w) \in Saved /\ InRange(kept(w))
  <2>. SUFFICES ASSUME NEW w \in DOMAIN l.byId PROVE kept(w) \in Saved /\ InRange(kept(w))
    OBVIOUS
  <2>1. l.byId[w] \in Records /\ InRange(l.byId[w])
    BY DEF Ranged
  <2>2. kept(w) \in Saved
    BY <2>1 DEF Records, Saved
  <2>3. InRange(kept(w))
    BY <2>1 DEF InRange
  <2>. QED BY <2>2, <2>3
<1> HIDE DEF kept, saved
<1>4. saved.saved \in [ToSet(l.order) -> {rec \in Saved : InRange(rec)}]
  BY <1>1, <1>2, <1>3
<1>5. Loadable(saved)
  BY <1>1 DEF Loadable, Agrees, Shaped, Consistent
<1>6. Faithful(saved)
  BY <1>1, <1>2, <1>4, <1>5 DEF Faithful, Agrees, Shaped, Consistent, Known
<1>. QED BY <1>6 DEF saved

LEMMA RestoredFaithful ==
    ASSUME NEW saved, Faithful(saved), NEW session \in NewSessions
    PROVE  /\ Ranged(Restored(saved, session))
           /\ Snapshot(Restored(saved, session)) = saved
           /\ Restored(saved, session).order = saved.order
<1> DEFINE new == Restored(saved, session)
           Held == ToSet(saved.order)
<1>1. /\ new.order = saved.order
      /\ new.focused = IF saved.focused \in Held THEN saved.focused ELSE FirstOf(saved.order)
      /\ DOMAIN new.byId = Held
      /\ \A w \in Held : new.byId[w] = [name |-> saved.saved[w].name,
                                        root |-> saved.saved[w].root,
                                        session |-> session[w],
                                        tabs |-> saved.saved[w].tabs,
                                        active |-> saved.saved[w].active,
                                        folders |-> saved.saved[w].folders]
  BY DEF Restored
<1> HIDE DEF new
<1>2. Held \subseteq Workspaces /\ session \in [Workspaces -> Sessions]
  BY DEF Faithful, Loadable, ToSet, NewSessions
<1>3. \A w \in Held : saved.saved[w] \in Saved /\ InRange(saved.saved[w])
  BY DEF Faithful
<1>4. Ranged(new)
  <2>. SUFFICES ASSUME NEW w \in Held PROVE new.byId[w] \in Records /\ InRange(new.byId[w])
    BY <1>1 DEF Ranged
  <2>1. session[w] \in Sessions
    BY <1>2
  <2> DEFINE rec == saved.saved[w]
             back == [name |-> rec.name, root |-> rec.root, session |-> session[w],
                      tabs |-> rec.tabs, active |-> rec.active, folders |-> rec.folders]
  <2>2. new.byId[w] = back
    BY <1>1
  <2>3. rec \in Saved /\ InRange(rec)
    BY <1>3
  <2> HIDE DEF rec
  <2>4. back \in Records
    BY <2>1, <2>3 DEF Records, Saved
  <2>5. InRange(back)
    BY <2>3 DEF InRange
  <2> HIDE DEF back
  <2>. QED BY <2>2, <2>4, <2>5
<1>5. new.focused = saved.focused
  <2>1. CASE saved.focused = None
    <3>1. saved.order = <<>>
      BY <2>1 DEF Faithful
    <3>2. None \notin Held
      BY <1>2, ListAssumption
    <3>. QED BY <1>1, <2>1, <3>1, <3>2 DEF FirstOf
  <2>2. CASE saved.focused # None
    BY <1>1, <2>2 DEF Faithful
  <2>. QED BY <2>1, <2>2
<1>6. Snapshot(new).saved = saved.saved
  <2> DEFINE kept == [w \in Held |-> [name |-> new.byId[w].name, root |-> new.byId[w].root,
                                      tabs |-> new.byId[w].tabs,
                                      active |-> new.byId[w].active,
                                      folders |-> new.byId[w].folders]]
  <2>1. Snapshot(new).saved = kept
    BY <1>1 DEF Snapshot
  <2>2. \A w \in Held : kept[w] = saved.saved[w]
    <3>. SUFFICES ASSUME NEW w \in Held PROVE kept[w] = saved.saved[w]
      OBVIOUS
    <3> DEFINE rec == saved.saved[w]
               back == [name |-> rec.name, root |-> rec.root, session |-> session[w],
                        tabs |-> rec.tabs, active |-> rec.active, folders |-> rec.folders]
    <3>1. new.byId[w] = back
      BY <1>1
    <3>2. kept[w] = [name |-> new.byId[w].name, root |-> new.byId[w].root,
                     tabs |-> new.byId[w].tabs, active |-> new.byId[w].active,
                     folders |-> new.byId[w].folders]
      OBVIOUS
    <3>3. rec \in Saved
      BY <1>3
    <3> HIDE DEF rec, kept
    <3>4. kept[w] = [name |-> rec.name, root |-> rec.root, tabs |-> rec.tabs,
                     active |-> rec.active, folders |-> rec.folders]
      BY <3>1, <3>2
    <3>5. kept[w] = rec
      BY <3>3, <3>4 DEF Saved
    <3>. QED BY <3>5 DEF rec
  <2>3. kept = [w \in Held |-> saved.saved[w]]
    BY <2>2
  <2>4. saved.saved = [w \in Held |-> saved.saved[w]]
    BY DEF Faithful
  <2>. QED BY <2>1, <2>3, <2>4
<1>7. Snapshot(new) = saved
  <2>1. /\ Snapshot(new) = [order |-> new.order, focused |-> new.focused,
                            saved |-> Snapshot(new).saved]
    BY DEF Snapshot
  <2>. QED BY <1>1, <1>5, <1>6, <2>1 DEF Faithful
<1>. QED BY <1>1, <1>4, <1>7 DEF new

-----------------------------------------------------------------------------
(* Every change of the list keeps the tabs in range, and its last          *)
(* workspace.                                                              *)

\* l is what a request makes of the list before.
Follows(before, l) == Ranged(l) /\ (before.order # <<>> => l.order # <<>>)

LEMMA RecordFollows ==
  ASSUME NEW l, Agrees(l), Ranged(l), NEW w, Known(l, w), NEW r \in Records, InRange(r)
  PROVE  Follows(l, [l EXCEPT !.byId = [l.byId EXCEPT ![w] = r]])
<1> DEFINE new == [l EXCEPT !.byId = [l.byId EXCEPT ![w] = r]]
<1>1. new.order = l.order /\ new.byId = [l.byId EXCEPT ![w] = r]
  BY DEF Agrees, Shaped
<1>2. /\ DOMAIN new.byId = DOMAIN l.byId
      /\ \A x \in DOMAIN l.byId : new.byId[x] = IF x = w THEN r ELSE l.byId[x]
  BY <1>1 DEF Agrees, Shaped
<1> HIDE DEF new
<1>3. Ranged(new)
  BY <1>2 DEF Ranged
<1>. QED BY <1>1, <1>3 DEF Follows, new

LEMMA CreatedFollows ==
  ASSUME NEW l, Agrees(l), Ranged(l), NEW w \in Workspaces, NEW s \in Sessions,
         NEW name \in Names, NEW root \in Roots, ~Known(l, w)
  PROVE  Follows(l, Created(l, w, s, name, root))
<1> DEFINE new == Created(l, w, s, name, root)
           rec == [name |-> name, root |-> root, session |-> s,
                   tabs |-> <<>>, active |-> 0, folders |-> None]
<1>1. /\ new.order = Append(l.order, w)
      /\ new.byId = [x \in DOMAIN l.byId \cup {w} |-> IF x # w THEN l.byId[x] ELSE rec]
  BY DEF Created
<1>2. rec \in Records /\ InRange(rec)
  <2>1. <<>> \in Seq(Tabs) /\ Len(<<>>) = 0
    OBVIOUS
  <2>. QED BY <2>1, ListAssumption DEF Records, InRange
<1> HIDE DEF new, rec
<1>3. Ranged(new)
  BY <1>1, <1>2 DEF Ranged
<1>4. new.order # <<>>
  <2>1. l.order \in Seq(Workspaces)
    BY DEF Agrees, Shaped
  <2>. QED BY <1>1, <2>1
<1>. QED BY <1>3, <1>4 DEF Follows, new

LEMMA ClosedFollows ==
  ASSUME NEW l, Agrees(l), Ranged(l), NEW w \in Workspaces, Known(l, w), Len(l.order) > 1
  PROVE  Follows(l, Closed(l, w))
<1> DEFINE new == Closed(l, w)
<1>1. /\ new.order = Without(l.order, w)
      /\ new.byId = [x \in DOMAIN l.byId \ {w} |-> l.byId[x]]
  BY DEF Closed, Restrict
<1>2. Len(new.order) = Len(l.order) - 1 /\ Len(l.order) \in Nat
  <2>1. /\ l.order \in Seq(Workspaces) /\ w \in ToSet(l.order)
        /\ \A i, j \in DOMAIN l.order : l.order[i] = l.order[j] => i = j
    BY DEF Agrees, Shaped, Consistent, Known
  <2>. QED BY <1>1, <2>1, WithoutOne
<1> HIDE DEF new
<1>3. new.order # <<>>
  <2>1. Len(<<>>) = 0
    OBVIOUS
  <2>. QED BY <1>2, <2>1
<1>4. Ranged(new)
  BY <1>1 DEF Ranged
<1>. QED BY <1>3, <1>4 DEF Follows, new

LEMMA FocusedFollows ==
  ASSUME NEW l, Agrees(l), Ranged(l), NEW w
  PROVE  Follows(l, Focused(l, w))
<1>1. Focused(l, w).byId = l.byId /\ Focused(l, w).order = l.order
  BY DEF Focused, Agrees, Shaped
<1>. QED BY <1>1 DEF Follows, Ranged

LEMMA RenamedFollows ==
  ASSUME NEW l, Agrees(l), Ranged(l), NEW w, Known(l, w), NEW name \in Names
  PROVE  Follows(l, Renamed(l, w, name))
<1> DEFINE r == [l.byId[w] EXCEPT !.name = name]
<1>1. l.byId[w] \in Records /\ InRange(l.byId[w])
  BY DEF Ranged, Known
<1>2. r \in Records /\ InRange(r)
  BY <1>1 DEF Records, InRange
<1>3. Renamed(l, w, name) = [l EXCEPT !.byId = [l.byId EXCEPT ![w] = r]]
  BY DEF Renamed
<1> HIDE DEF r
<1>4. Follows(l, [l EXCEPT !.byId = [l.byId EXCEPT ![w] = r]])
  BY <1>2, RecordFollows
<1>. QED BY <1>3, <1>4

LEMMA RootedFollows ==
  ASSUME NEW l, Agrees(l), Ranged(l), NEW w, Known(l, w), NEW root \in Roots
  PROVE  Follows(l, Rooted(l, w, root))
<1> DEFINE r == [l.byId[w] EXCEPT !.root = root]
           q == [r EXCEPT !.folders = None]
<1>1. l.byId[w] \in Records /\ InRange(l.byId[w])
  BY DEF Ranged, Known
<1>2. r \in Records /\ InRange(r)
  BY <1>1 DEF Records, InRange
<1>3. Rooted(l, w, root) = [l EXCEPT !.byId = [l.byId EXCEPT ![w] = q]]
  BY DEF Rooted, Agrees, Shaped, Known
<1> HIDE DEF r
<1>4. q \in Records /\ InRange(q)
  BY <1>2 DEF Records, InRange
<1> HIDE DEF q
<1>5. Follows(l, [l EXCEPT !.byId = [l.byId EXCEPT ![w] = q]])
  BY <1>4, RecordFollows
<1>. QED BY <1>3, <1>5

LEMMA TabsFollow ==
  ASSUME NEW l, Agrees(l), Ranged(l), NEW w, Known(l, w), NEW tabs \in Seq(Tabs),
         NEW active \in Nat, Len(tabs) <= MaxTabs, active < Len(tabs) \/ active = 0
  PROVE  Follows(l, [l EXCEPT !.byId[w].tabs = tabs, !.byId[w].active = active])
<1> DEFINE r == [l.byId[w] EXCEPT !.tabs = tabs, !.active = active]
<1>1. l.byId[w] \in Records
  BY DEF Ranged, Known
<1>2. r \in Records /\ InRange(r)
  BY <1>1 DEF Records, InRange
<1>3. [l EXCEPT !.byId[w].tabs = tabs, !.byId[w].active = active]
        = [l EXCEPT !.byId = [l.byId EXCEPT ![w] = r]]
  BY DEF Agrees, Shaped, Known
<1> HIDE DEF r
<1>4. Follows(l, [l EXCEPT !.byId = [l.byId EXCEPT ![w] = r]])
  BY <1>2, RecordFollows
<1>. QED BY <1>3, <1>4

LEMMA ClampInRange ==
  ASSUME NEW i \in Nat, NEW n \in Nat
  PROVE  Clamp(i, n) \in Nat /\ (Clamp(i, n) < n \/ Clamp(i, n) = 0)
BY DEF Clamp

LEMMA LaidOutFollows ==
  ASSUME NEW l, Agrees(l), Ranged(l), NEW w, Known(l, w), NEW tabs \in Seq(Tabs),
         NEW active \in Nat, NEW folders \in Roots \cup {None}
  PROVE  Follows(l, LaidOut(l, w, tabs, active, folders))
<1> DEFINE n    == IF Len(tabs) < MaxTabs THEN Len(tabs) ELSE MaxTabs
           kept == Sanitized(tabs)
           a    == Clamp(active, Len(kept))
           mid  == [l EXCEPT !.byId[w].tabs = kept, !.byId[w].active = a]
           r    == [mid.byId[w] EXCEPT !.folders = folders]
<1>1. LaidOut(l, w, tabs, active, folders) = [mid EXCEPT !.byId[w].folders = folders]
  BY DEF LaidOut
<1>2. kept \in Seq(Tabs) /\ Len(kept) <= MaxTabs /\ Len(kept) \in Nat
  <2>1. n \in 0..Len(tabs) /\ n <= MaxTabs
    BY ListAssumption
  <2>2. kept = SubSeq(tabs, 1, n)
    BY DEF Sanitized
  <2>. HIDE DEF n, kept
  <2>. QED BY <2>1, <2>2, ListAssumption
<1>. HIDE DEF kept
<1>3. a \in Nat /\ (a < Len(kept) \/ a = 0)
  BY <1>2, ClampInRange
<1>. HIDE DEF a
<1>4. Follows(l, mid) /\ Agrees(mid)
  BY <1>2, <1>3, TabsFollow, TabsAgree
<1>5. Known(mid, w) /\ mid.order = l.order
  BY DEF Known, Agrees, Shaped
<1> HIDE DEF mid
<1>6. r \in Records /\ InRange(r)
  <2>1. mid.byId[w] \in Records /\ InRange(mid.byId[w])
    BY <1>4, <1>5 DEF Follows, Ranged, Known
  <2>. QED BY <2>1 DEF Records, InRange
<1>7. [mid EXCEPT !.byId[w].folders = folders] = [mid EXCEPT !.byId = [mid.byId EXCEPT ![w] = r]]
  OBVIOUS
<1> HIDE DEF r
<1>8. Follows(mid, [mid EXCEPT !.byId = [mid.byId EXCEPT ![w] = r]])
  BY <1>4, <1>5, <1>6, RecordFollows DEF Follows
<1>. QED BY <1>1, <1>5, <1>7, <1>8 DEF Follows

LEMMA WithTerminalFollows ==
  ASSUME NEW l, Agrees(l), Ranged(l), NEW s \in Sessions, NEW p \in Terminals
  PROVE  Follows(l, WithTerminal(l, s, p))
<1> DEFINE w    == l.bySession[s]
           had  == l.byId[w].tabs
           tabs == Append(had, p)
           kept == IF Len(tabs) > MaxTabs THEN Tail(tabs) ELSE tabs
           a    == IF kept = tabs THEN l.byId[w].active ELSE Clamp(l.byId[w].active, Len(kept))
<1>1. CASE WithTerminal(l, s, p) = l
  BY <1>1 DEF Follows
<1>2. CASE WithTerminal(l, s, p) # l
  <2>1. w # None /\ WithTerminal(l, s, p)
                       = [l EXCEPT !.byId[w].tabs = kept, !.byId[w].active = a]
    BY <1>2 DEF WithTerminal
  <2>2. Known(l, w)
    BY <2>1 DEF Agrees, Consistent
  <2>3. /\ had \in Seq(Tabs) /\ Len(had) <= MaxTabs /\ l.byId[w].active \in Nat
        /\ l.byId[w].active < Len(had) \/ l.byId[w].active = 0
    BY <2>2 DEF Ranged, Known, Records, InRange
  <2> HIDE DEF had
  <2>4. tabs \in Seq(Tabs) /\ Len(tabs) = Len(had) + 1
    BY <2>3 DEF Tabs
  <2> HIDE DEF tabs
  <2>5. /\ kept \in Seq(Tabs) /\ Len(kept) <= MaxTabs /\ Len(kept) \in Nat
        /\ kept = tabs \/ Len(kept) = Len(had)
    <3>1. tabs # <<>>
      BY <2>3, <2>4
    <3>2. Tail(tabs) \in Seq(Tabs) /\ Len(Tail(tabs)) = Len(tabs) - 1
      BY <2>4, <3>1
    <3>. QED BY <2>3, <2>4, <3>2, ListAssumption
  <2> HIDE DEF kept
  <2>6. a \in Nat /\ (a < Len(kept) \/ a = 0)
    <3>1. CASE kept = tabs
      BY <2>3, <2>4, <3>1
    <3>2. CASE kept # tabs
      BY <2>3, <2>5, <3>2, ClampInRange
    <3>. QED BY <3>1, <3>2
  <2> HIDE DEF a
  <2>7. Follows(l, [l EXCEPT !.byId[w].tabs = kept, !.byId[w].active = a])
    BY <2>2, <2>5, <2>6, TabsFollow
  <2>. QED BY <2>1, <2>7
<1>. QED BY <1>1, <1>2

LEMMA WithoutTerminalFollows ==
  ASSUME NEW l, Agrees(l), Ranged(l), NEW s \in Sessions, NEW p
  PROVE  Follows(l, WithoutTerminal(l, s, p))
<1> DEFINE w    == l.bySession[s]
           kept == Retained(l.byId[w].tabs, p)
           a    == Clamp(l.byId[w].active, Len(kept))
<1>1. CASE WithoutTerminal(l, s, p) = l
  BY <1>1 DEF Follows
<1>2. CASE WithoutTerminal(l, s, p) # l
  <2>1. w # None /\ WithoutTerminal(l, s, p)
                       = [l EXCEPT !.byId[w].tabs = kept, !.byId[w].active = a]
    BY <1>2 DEF WithoutTerminal
  <2>2. Known(l, w)
    BY <2>1 DEF Agrees, Consistent
  <2>3. l.byId[w].tabs \in Seq(Tabs) /\ Len(l.byId[w].tabs) <= MaxTabs
        /\ l.byId[w].active \in Nat
    BY <2>2 DEF Ranged, Known, Records, InRange
  <2>4. kept \in Seq(Tabs) /\ Len(kept) <= Len(l.byId[w].tabs)
    BY <2>3, RetainedTyped
  <2> HIDE DEF kept
  <2>5. Len(kept) <= MaxTabs /\ Len(kept) \in Nat
    BY <2>3, <2>4, ListAssumption
  <2>6. a \in Nat /\ (a < Len(kept) \/ a = 0)
    BY <2>3, <2>5, ClampInRange
  <2> HIDE DEF a
  <2>7. Follows(l, [l EXCEPT !.byId[w].tabs = kept, !.byId[w].active = a])
    BY <2>2, <2>4, <2>5, <2>6, TabsFollow
  <2>. QED BY <2>1, <2>7
<1>. QED BY <1>1, <1>2

-----------------------------------------------------------------------------
(* Saves.  Without "overlap" one writer is at work at a time, and the       *)
(* temporary file is its own until it is renamed.                          *)

Busy(v) == writer[v].at \in {"taken", "opened", "written"}

\* A daemon that is gone has nothing in memory; the saver works while it is up, main
\* when it stops.
Lifecycle ==
    /\ up \in {"up", "stopping", "down"} /\ permit \in BOOLEAN /\ changes \in 0..MaxChanges
    /\ \A v \in Writers : writer[v].at \in Steps /\ writer[v].file \in Files \cup {None}
    /\ writer["saver"].at # "done"
    /\ writer["saver"].at # "waiting" => up = "up"
    /\ writer["main"].at # "waiting" => up = "stopping"
    /\ up = "down" => list = EmptyList

\* What a save has taken or written.
IsSave(c) == c # Torn => Faithful(c.list) /\ c.of \in 0..changes

DiskOK ==
    /\ named["tmp"] # None => named["tmp"] # named["path"]
    /\ named["path"] # None => content[named["path"]] # Torn
    /\ \A f \in Files : IsSave(content[f])

\* A save is no older than the file, and loses the last workspace no more than the list
\* has; what is at the temporary name is its own.
WriterOK(v) ==
    /\ IsSave(writer[v].save)
    /\ Busy(v) =>
          /\ writer[v].save # Torn /\ OnDisk.of <= writer[v].save.of
          /\ OnDisk.list.order # <<>> => writer[v].save.list.order # <<>>
          /\ writer[v].save.list.order # <<>> => list.order # <<>>
    /\ writer[v].at \in {"opened", "written"} =>
          writer[v].file \in Files /\ named["tmp"] = writer[v].file
    /\ writer[v].at = "opened" => content[writer[v].file] = Torn
    /\ writer[v].at = "written" => content[writer[v].file] = writer[v].save

\* NothingForgotten, step by step: a save under way is of this very list, or there is a
\* permit for another.
Fresh ==
    up = "up" =>
        \/ permit
        \/ writer["saver"].at = "settling"
        \/ writer["saver"].save.list = Snapshot(list)
        \/ writer["saver"].at = "waiting" /\ OnDisk.list = Snapshot(list)

LastKept == OnDisk.list.order # <<>> /\ up # "down" => list.order # <<>>

Rest == Ranged(list) /\ Lifecycle /\ DiskOK /\ (\A v \in Writers : WriterOK(v)) /\ Fresh /\ LastKept

Sound == Agreeing /\ Rest

\* What no step does to the file.
NoLoss == /\ OnDisk' # Torn /\ OnDisk'.of >= OnDisk.of
          /\ OnDisk.list.order # <<>> => OnDisk'.list.order # <<>>

LEMMA EmptyFaithful == Ranged(EmptyList) /\ Faithful(Snapshot(EmptyList)) /\ EmptyList.order = <<>>
<1>1. Ranged(EmptyList) /\ EmptyList.order = <<>>
  BY DEF Ranged, EmptyList
<1>. QED BY <1>1, EmptyAgrees, SnapshotFaithful

LEMMA OnDiskFacts ==
    ASSUME Sound
    PROVE  OnDisk # Torn /\ Faithful(OnDisk.list) /\ OnDisk.of \in 0..changes
<1>1. changes \in Nat
  BY StoreAssumption DEF Sound, Rest, Lifecycle
<1>2. CASE named["path"] = None
  <2>1. OnDisk = [of |-> 0, list |-> Snapshot(EmptyList)]
    BY <1>2 DEF OnDisk
  <2>2. Faithful(Snapshot(EmptyList)) /\ Snapshot(EmptyList) # None
    BY EmptyFaithful, FaithfulSnapshot
  <2>. QED BY <1>1, <2>1, <2>2 DEF Torn
<1>3. CASE named["path"] # None
  <2>1. named["path"] \in Files
    BY <1>3 DEF Sound, Agreeing, PathNames
  <2>. QED BY <1>3, <2>1 DEF OnDisk, Sound, Rest, DiskOK, IsSave
<1>. QED BY <1>2, <1>3

LEMMA OnDiskSame ==
    ASSUME named'["path"] = named["path"],
           named["path"] # None => content'[named["path"]] = content[named["path"]]
    PROVE  OnDisk' = OnDisk
BY DEF OnDisk

LEMMA SameIsNoLoss ==
    ASSUME Sound, OnDisk' = OnDisk
    PROVE  NoLoss
<1>1. OnDisk.of \in Nat /\ OnDisk # Torn
  BY OnDiskFacts, StoreAssumption DEF Sound, Rest, Lifecycle
<1>. QED BY <1>1 DEF NoLoss

\* While one writer is at work the other waits.
LEMMA OneWriter ==
    ASSUME Sound, NEW v \in Writers, NEW u \in Writers, u # v, writer[v].at # "waiting"
    PROVE  writer[u].at = "waiting"
BY DEF Sound, Rest, Lifecycle, Writers

\* A writer that is not at work owes nothing but what its record holds.
LEMMA AtRest ==
    ASSUME NEW v \in Writers, IsSave(writer[v].save)', writer'[v].at \in {"waiting", "settling", "done"}
    PROVE  WriterOK(v)'
BY DEF WriterOK, Busy

LEMMA RequestRest ==
    ASSUME Sound, Requests
    PROVE  Rest' /\ NoLoss
<1>1. Agrees(list) /\ Ranged(list)
  BY DEF Sound, Rest, Agreeing
<1> DEFINE Changed == Change(list') /\ Follows(list, list')
<1>2. Changed
  <2>1. ASSUME NEW w \in Workspaces, NEW s \in Sessions, NEW name \in Names,
               NEW root \in Roots, Create(w, s, name, root)
        PROVE  Changed
    BY <1>1, <2>1, CreatedFollows DEF Create, Change
  <2>2. ASSUME NEW w \in Workspaces, Focus(w)
        PROVE  Changed
    BY <1>1, <2>2, FocusedFollows DEF Focus, Change
  <2>3. ASSUME NEW w \in Workspaces, Close(w)
        PROVE  Changed
    BY <1>1, <2>3, ClosedFollows DEF Close, Change
  <2>4. ASSUME NEW w \in Workspaces, NEW name \in Names, Rename(w, name)
        PROVE  Changed
    BY <1>1, <2>4, RenamedFollows DEF Rename, Change
  <2>5. ASSUME NEW w \in Workspaces, NEW root \in Roots, SetRoot(w, root)
        PROVE  Changed
    BY <1>1, <2>5, RootedFollows DEF SetRoot, Change
  <2>6. ASSUME NEW w \in Workspaces, NEW layout \in Layouts, SetLayout(w, layout)
        PROVE  Changed
    BY <1>1, <2>6, LaidOutFollows, StoreAssumption DEF SetLayout, Change
  <2>7. ASSUME NEW s \in Sessions, NEW p \in Terminals, NoteTerminal(s, p)
        PROVE  Changed
    BY <1>1, <2>7, WithTerminalFollows DEF NoteTerminal, Change
  <2>8. ASSUME NEW s \in Sessions, NEW p \in Terminals, NoteTerminalClosed(s, p)
        PROVE  Changed
    BY <1>1, <2>8, WithoutTerminalFollows DEF NoteTerminalClosed, Change
  <2>. QED BY <2>1, <2>2, <2>3, <2>4, <2>5, <2>6, <2>7, <2>8 DEF Requests
<1>3. /\ up # "down" /\ changes < MaxChanges /\ permit' = TRUE /\ changes' = changes + 1
      /\ UNCHANGED <<up, writer, named, content>>
      /\ Ranged(list)' /\ (list.order # <<>> => list'.order # <<>>)
  BY <1>2 DEF Change, Follows, Ranged
<1>4. changes \in Nat /\ changes' \in 0..MaxChanges
  BY <1>3, StoreAssumption DEF Sound, Rest, Lifecycle
<1>5. OnDisk' = OnDisk
  BY <1>3 DEF OnDisk
<1>6. \A c : IsSave(c) => IsSave(c)'
  BY <1>3, <1>4 DEF IsSave
<1>7. Lifecycle'
  BY <1>3, <1>4 DEF Sound, Rest, Lifecycle
<1>8. DiskOK'
  BY <1>3, <1>6 DEF Sound, Rest, DiskOK
<1>9. \A v \in Writers : WriterOK(v)'
  <2>. SUFFICES ASSUME NEW v \in Writers PROVE WriterOK(v)'
    OBVIOUS
  <2>1. IsSave(writer[v].save)'
    BY <1>3, <1>6 DEF Sound, Rest, WriterOK, IsSave
  <2>. QED BY <1>3, <1>5, <2>1 DEF Sound, Rest, WriterOK, Busy
<1>10. Fresh' /\ LastKept'
  BY <1>3, <1>5 DEF Fresh, LastKept, Sound, Rest
<1>. QED BY <1>3, <1>5, <1>7, <1>8, <1>9, <1>10, SameIsNoLoss DEF Rest

\* Only the record of one writer changes.
LEMMA WriterSet ==
    ASSUME Agreeing, NEW v \in Writers, NEW r, writer' = [writer EXCEPT ![v] = r]
    PROVE  \A u \in Writers : writer'[u] = IF u = v THEN r ELSE writer[u]
BY DEF Agreeing

\* What the other writer, which waits, owes is what it owed.
LEMMA OtherRest ==
    ASSUME Sound, NEW v \in Writers, NEW u \in Writers, u # v, writer[v].at # "waiting",
           writer'[u] = writer[u], changes' = changes
    PROVE  WriterOK(u)'
<1>1. writer[u].at = "waiting"
  BY OneWriter
<1>2. IsSave(writer[u].save)'
  BY DEF Sound, Rest, WriterOK, IsSave
<1>. QED BY <1>1, <1>2, AtRest

LEMMA WakeRest ==
    ASSUME "overlap" \notin Ops, Sound, SaverWakes \/ Stop
    PROVE  Rest' /\ NoLoss
<1> PICK v \in Writers :
       /\ writer' = [writer EXCEPT ![v].at = "settling"]
       /\ v = IF up' = "up" THEN "saver" ELSE "main"
       /\ up' = IF v = "saver" THEN "up" ELSE "stopping"
  BY DEF SaverWakes, Stop, Writers
<1>1. /\ up = "up" /\ writer["saver"].at = "waiting"
      /\ UNCHANGED <<list, named, content, changes>> /\ permit' \in BOOLEAN
      /\ v = "main" => permit' = permit
  BY DEF SaverWakes, Stop, Sound, Rest, Lifecycle
<1> DEFINE r == [writer[v] EXCEPT !.at = "settling"]
<1>2. /\ \A u \in Writers : writer'[u] = IF u = v THEN r ELSE writer[u]
      /\ r = [at |-> "settling", save |-> writer[v].save, file |-> writer[v].file]
  BY DEF Sound, Agreeing
<1> HIDE DEF r
<1>3. OnDisk' = OnDisk
  BY <1>1 DEF OnDisk
<1>4. Lifecycle'
  BY <1>1, <1>2 DEF Sound, Rest, Lifecycle, Writers, Steps
<1>5. DiskOK' /\ Ranged(list)'
  BY <1>1 DEF Sound, Rest, DiskOK, IsSave, Ranged
<1>6. \A u \in Writers : WriterOK(u)'
  <2>. SUFFICES ASSUME NEW u \in Writers PROVE WriterOK(u)'
    OBVIOUS
  <2>1. IsSave(writer[u].save)'
    BY <1>1, <1>2 DEF Sound, Rest, WriterOK, IsSave
  <2>2. writer'[u].at \in {"waiting", "settling", "done"}
    BY <1>1, <1>2 DEF Sound, Rest, Lifecycle, Writers
  <2>. QED BY <2>1, <2>2, AtRest
<1>7. Fresh'
  BY <1>1, <1>2, <1>3 DEF Fresh, Sound, Rest, Writers
<1>8. LastKept'
  BY <1>1, <1>3 DEF LastKept, Sound, Rest
<1>. QED BY <1>3, <1>4, <1>5, <1>6, <1>7, <1>8, SameIsNoLoss DEF Rest

LEMMA TakeRest ==
    ASSUME Sound, NEW v \in Writers, Take(v)
    PROVE  Rest' /\ NoLoss
<1> DEFINE saved == [of |-> changes, list |-> Snapshot(list)]
           r     == [at |-> "taken", file |-> None, save |-> saved]
<1>1. /\ up # "down" /\ writer[v].at = "settling" /\ writer' = [writer EXCEPT ![v] = r]
      /\ UNCHANGED <<up, list, permit, named, content, changes>>
  BY DEF Take
<1>2. /\ \A u \in Writers : writer'[u] = IF u = v THEN r ELSE writer[u]
      /\ r.at = "taken" /\ r.file = None /\ r.save = saved
  BY <1>1, WriterSet DEF Sound
<1>3. /\ Faithful(saved.list) /\ saved # Torn /\ saved.of = changes
      /\ saved.list.order = list.order /\ saved.list = Snapshot(list)
  <2>1. Faithful(Snapshot(list)) /\ Snapshot(list) # None
    BY SnapshotFaithful, FaithfulSnapshot DEF Sound, Rest, Agreeing
  <2>2. Snapshot(list).order = list.order
    BY DEF Snapshot
  <2>. QED BY <2>1, <2>2 DEF Torn
<1> HIDE DEF r, saved
<1>4. OnDisk' = OnDisk /\ OnDisk.of \in 0..changes /\ changes \in Nat
  BY <1>1, OnDiskFacts, StoreAssumption DEF OnDisk, Sound, Rest, Lifecycle
<1>5. Lifecycle'
  BY <1>1, <1>2 DEF Sound, Rest, Lifecycle, Writers, Steps
<1>6. DiskOK' /\ Ranged(list)'
  BY <1>1 DEF Sound, Rest, DiskOK, IsSave, Ranged
<1>7. \A u \in Writers : WriterOK(u)'
  <2>1. WriterOK(v)'
    BY <1>1, <1>2, <1>3, <1>4 DEF WriterOK, Busy, IsSave, Sound, Rest, LastKept
  <2>. QED BY <1>1, <1>2, <2>1, OtherRest
<1>8. Fresh'
  BY <1>1, <1>2, <1>3 DEF Fresh, Sound, Rest, Lifecycle, Writers
<1>9. LastKept'
  BY <1>1, <1>4 DEF LastKept, Sound, Rest
<1>. QED BY <1>4, <1>5, <1>6, <1>7, <1>8, <1>9, SameIsNoLoss DEF Rest

LEMMA OpenRest ==
    ASSUME Sound, NEW v \in Writers, OpenTemp(v)
    PROVE  Rest' /\ NoLoss
<1>1. PICK f \in Files : /\ IF named["tmp"] # None THEN f = named["tmp"]
                            ELSE f \notin {named["path"]} \cup {writer[u].file : u \in Writers}
                         /\ named' = [named EXCEPT !["tmp"] = f]
                         /\ content' = [content EXCEPT ![f] = Torn]
                         /\ writer' = [writer EXCEPT ![v].at = "opened", ![v].file = f]
  BY DEF OpenTemp
<1>2. /\ up # "down" /\ writer[v].at = "taken" /\ UNCHANGED <<up, list, permit, changes>>
  BY DEF OpenTemp
<1> DEFINE r == [at |-> "opened", save |-> writer[v].save, file |-> f]
<1>3. \A u \in Writers : writer'[u] = IF u = v THEN r ELSE writer[u]
  <2> DEFINE mid == [writer EXCEPT ![v].at = "opened"]
  <2>1. /\ mid = [u \in Writers |-> mid[u]]
        /\ \A u \in Writers : u # v => mid[u] = writer[u]
        /\ mid[v] = [at |-> "opened", save |-> writer[v].save, file |-> writer[v].file]
    BY DEF Sound, Agreeing
  <2>2. writer' = [mid EXCEPT ![v].file = f]
    BY <1>1
  <2> HIDE DEF mid
  <2>. QED BY <2>1, <2>2
<1>4. r.at = "opened" /\ r.save = writer[v].save /\ r.file = f
  OBVIOUS
<1> HIDE DEF r
<1>5. /\ named'["path"] = named["path"] /\ named'["tmp"] = f /\ f # named["path"]
      /\ named' \in [PathNames -> Files \cup {None}]
      /\ content'[f] = Torn /\ \A g \in Files : g # f => content'[g] = content[g]
  BY <1>1 DEF Sound, Rest, DiskOK, Agreeing, PathNames
<1>6. named["path"] # None => named["path"] \in Files
  BY DEF Sound, Agreeing, PathNames
<1>7. OnDisk' = OnDisk
  BY <1>5, <1>6, OnDiskSame
<1>8. Lifecycle'
  BY <1>2, <1>3, <1>4 DEF Sound, Rest, Lifecycle, Writers, Steps
<1>9. DiskOK'
  BY <1>2, <1>5, <1>6, StoreAssumption DEF Sound, Rest, DiskOK, IsSave
<1>10. \A u \in Writers : WriterOK(u)'
  <2>1. WriterOK(v)'
    BY <1>2, <1>3, <1>4, <1>5, <1>7 DEF WriterOK, Busy, IsSave, Sound, Rest
  <2>. QED BY <1>2, <1>3, <2>1, OtherRest
<1>11. Fresh'
  BY <1>2, <1>3, <1>4, <1>7 DEF Fresh, Sound, Rest, Lifecycle, Writers
<1>12. LastKept' /\ Ranged(list)'
  BY <1>2, <1>7 DEF LastKept, Sound, Rest, Ranged
<1>. QED BY <1>7, <1>8, <1>9, <1>10, <1>11, <1>12, SameIsNoLoss DEF Rest

LEMMA WriteRest ==
    ASSUME Sound, NEW v \in Writers, WriteTemp(v)
    PROVE  Rest' /\ NoLoss
<1> DEFINE f == writer[v].file
           r == [at |-> "written", save |-> writer[v].save, file |-> f]
<1>1. /\ up # "down" /\ writer[v].at = "opened" /\ UNCHANGED <<up, list, permit, named, changes>>
  BY DEF WriteTemp
<1>2. /\ f \in Files /\ named["tmp"] = f /\ content[f] = Torn /\ f # named["path"]
      /\ writer[v].save # Torn /\ f # None
  BY <1>1, StoreAssumption DEF Sound, Rest, WriterOK, DiskOK, Busy
<1>3. content' = [content EXCEPT ![f] = writer[v].save]
  BY <1>2 DEF WriteTemp
<1>4. \A u \in Writers : writer'[u] = IF u = v THEN r ELSE writer[u]
  BY DEF WriteTemp, Sound, Agreeing
<1>5. r.at = "written" /\ r.save = writer[v].save /\ r.file = f
  OBVIOUS
<1> HIDE DEF r, f
<1>6. /\ content'[f] = writer[v].save /\ \A g \in Files : g # f => content'[g] = content[g]
  BY <1>2, <1>3 DEF Sound, Agreeing
<1>7. named["path"] # None => named["path"] \in Files
  BY DEF Sound, Agreeing, PathNames
<1>8. OnDisk' = OnDisk
  BY <1>1, <1>2, <1>6, <1>7, OnDiskSame
<1>9. Lifecycle'
  BY <1>1, <1>2, <1>4, <1>5 DEF Sound, Rest, Lifecycle, Writers, Steps
<1>10. DiskOK'
  BY <1>1, <1>2, <1>6, <1>7 DEF Sound, Rest, DiskOK, IsSave, WriterOK
<1>11. \A u \in Writers : WriterOK(u)'
  <2>1. WriterOK(v)'
    BY <1>1, <1>2, <1>4, <1>5, <1>6, <1>8 DEF WriterOK, Busy, IsSave, Sound, Rest
  <2>. QED BY <1>1, <1>4, <2>1, OtherRest
<1>12. Fresh'
  BY <1>1, <1>4, <1>5, <1>8 DEF Fresh, Sound, Rest, Lifecycle, Writers
<1>13. LastKept' /\ Ranged(list)'
  BY <1>1, <1>8 DEF LastKept, Sound, Rest, Ranged
<1>. QED BY <1>8, <1>9, <1>10, <1>11, <1>12, <1>13, SameIsNoLoss DEF Rest

\* The one step that changes what the file holds.
LEMMA RenameRest ==
    ASSUME Sound, NEW v \in Writers, RenameTemp(v)
    PROVE  Rest' /\ NoLoss
<1> DEFINE f == writer[v].file
           r == Finished(v)
<1>1. /\ up # "down" /\ writer[v].at = "written"
      /\ UNCHANGED <<up, list, permit, content, changes>>
      /\ writer' = [writer EXCEPT ![v] = r]
  BY DEF RenameTemp
<1>2. /\ f \in Files /\ named["tmp"] = f /\ content[f] = writer[v].save
      /\ writer[v].save # Torn /\ f # None
      /\ OnDisk.of <= writer[v].save.of
      /\ OnDisk.list.order # <<>> => writer[v].save.list.order # <<>>
      /\ writer[v].save.list.order # <<>> => list.order # <<>>
  BY <1>1, StoreAssumption DEF Sound, Rest, WriterOK, Busy
<1>3. named' = [path |-> f, tmp |-> None]
  BY <1>2 DEF RenameTemp
<1>r. /\ r.at = IF v = "saver" THEN "waiting" ELSE "done"
      /\ r.save = Torn /\ r.file = None
  BY DEF Finished, Idle
<1> HIDE DEF r, f
<1>4. \A u \in Writers : writer'[u] = IF u = v THEN r ELSE writer[u]
  BY <1>1, WriterSet DEF Sound
<1>5. OnDisk' = writer[v].save
  BY <1>1, <1>2, <1>3 DEF OnDisk
<1>6. NoLoss
  BY <1>2, <1>5 DEF NoLoss
<1>7. Lifecycle'
  BY <1>1, <1>4, <1>r DEF Sound, Rest, Lifecycle, Writers, Steps
<1>8. DiskOK'
  BY <1>1, <1>2, <1>3 DEF Sound, Rest, DiskOK, IsSave
<1>9. \A u \in Writers : WriterOK(u)'
  <2>1. WriterOK(v)'
    BY <1>4, <1>r, AtRest DEF IsSave
  <2>. QED BY <1>1, <1>4, <2>1, OtherRest
<1>10. Fresh'
  <2>1. CASE v = "saver"
    BY <1>1, <1>4, <1>r, <1>5, <2>1 DEF Fresh, Sound, Rest
  <2>2. CASE v = "main"
    <3>1. up # "up"
      BY <1>1, <2>2 DEF Sound, Rest, Lifecycle
    <3>. QED BY <1>1, <3>1 DEF Fresh
  <2>. QED BY <2>1, <2>2 DEF Writers
<1>11. LastKept' /\ Ranged(list)'
  BY <1>1, <1>2, <1>5 DEF LastKept, Sound, Rest, Ranged
<1>. QED BY <1>6, <1>7, <1>8, <1>9, <1>10, <1>11 DEF Rest

LEMMA FailRest ==
    ASSUME Sound, NEW v \in Writers, SaveFails(v)
    PROVE  Rest' /\ NoLoss
<1> DEFINE r == [Finished(v) EXCEPT !.save = writer[v].save]
<1>1. /\ up # "down" /\ writer[v].at \in {"taken", "opened", "written"}
      /\ UNCHANGED <<up, list, permit, named, content, changes>>
      /\ writer' = [writer EXCEPT ![v] = r]
  BY DEF SaveFails
<1>r. /\ r.at = IF v = "saver" THEN "waiting" ELSE "done"
      /\ r.save = writer[v].save /\ r.file = None
  BY DEF Finished, Idle
<1> HIDE DEF r
<1>2. \A u \in Writers : writer'[u] = IF u = v THEN r ELSE writer[u]
  BY <1>1, WriterSet DEF Sound
<1>3. OnDisk' = OnDisk
  BY <1>1 DEF OnDisk
<1>4. Lifecycle'
  BY <1>1, <1>2, <1>r DEF Sound, Rest, Lifecycle, Writers, Steps
<1>5. DiskOK' /\ Ranged(list)'
  BY <1>1 DEF Sound, Rest, DiskOK, IsSave, Ranged
<1>6. \A u \in Writers : WriterOK(u)'
  <2>1. IsSave(writer[v].save)'
    BY <1>1, <1>2, <1>r DEF Sound, Rest, WriterOK, IsSave
  <2>2. WriterOK(v)'
    BY <1>2, <1>r, <2>1, AtRest
  <2>. QED BY <1>1, <1>2, <2>2, OtherRest
<1>7. Fresh'
  <2>1. CASE v = "saver"
    BY <1>1, <1>2, <1>r, <1>3, <2>1 DEF Fresh, Sound, Rest
  <2>2. CASE v = "main"
    <3>1. up # "up"
      BY <1>1, <2>2 DEF Sound, Rest, Lifecycle
    <3>. QED BY <1>1, <3>1 DEF Fresh
  <2>. QED BY <2>1, <2>2 DEF Writers
<1>8. LastKept'
  BY <1>1, <1>3 DEF LastKept, Sound, Rest
<1>. QED BY <1>3, <1>4, <1>5, <1>6, <1>7, <1>8, SameIsNoLoss DEF Rest

LEMMA GoneRest ==
    ASSUME Sound, Exit \/ Crash
    PROVE  Rest' /\ NoLoss
<1>1. /\ up' = "down" /\ list' = EmptyList /\ permit' = FALSE
      /\ writer' = [v \in Writers |-> Idle] /\ UNCHANGED <<named, content, changes>>
  BY DEF Exit, Crash, Gone
<1>2. OnDisk' = OnDisk
  BY <1>1 DEF OnDisk
<1>3. \A v \in Writers : writer'[v].at = "waiting" /\ writer'[v].save = Torn /\ writer'[v].file = None
  BY <1>1 DEF Idle
<1>4. Lifecycle'
  BY <1>1, <1>3 DEF Sound, Rest, Lifecycle, Writers, Steps
<1>5. DiskOK'
  BY <1>1 DEF Sound, Rest, DiskOK, IsSave
<1>6. \A v \in Writers : WriterOK(v)'
  BY <1>3, AtRest DEF IsSave
<1>7. Fresh' /\ LastKept' /\ Ranged(list)'
  BY <1>1, EmptyFaithful DEF Fresh, LastKept, Ranged
<1>. QED BY <1>2, <1>4, <1>5, <1>6, <1>7, SameIsNoLoss DEF Rest

LEMMA LoadRest ==
    ASSUME Sound, NEW session \in NewSessions, Load(session)
    PROVE  Rest' /\ NoLoss
<1>1. /\ up = "down" /\ up' = "up" /\ UNCHANGED <<permit, writer, content, changes>>
      /\ list = EmptyList /\ \A v \in Writers : writer[v].at = "waiting"
  BY DEF Load, Readable, Sound, Rest, Lifecycle, Writers
<1>2. /\ named' = named
      /\ Ranged(list') /\ OnDisk.list = Snapshot(list')
      /\ OnDisk.list.order # <<>> => list'.order # <<>>
  <2>1. CASE named["path"] = None
    <3>1. UNCHANGED <<list, named>> /\ OnDisk.list = Snapshot(EmptyList)
      BY <2>1 DEF Load, Readable, OnDisk
    <3>2. Snapshot(EmptyList).order = <<>>
      BY EmptyFaithful DEF Snapshot
    <3>. QED BY <1>1, <3>1, <3>2, EmptyFaithful
  <2>2. CASE named["path"] # None
    <3>1. OnDisk = content[named["path"]] /\ OnDisk # Torn /\ Faithful(OnDisk.list)
      BY <2>2, OnDiskFacts DEF OnDisk
    <3>2. list' = Restored(OnDisk.list, session) /\ UNCHANGED named
      BY <2>2, <3>1 DEF Load, Readable
    <3>. QED BY <3>1, <3>2, RestoredFaithful
  <2>. QED BY <2>1, <2>2
<1>3. OnDisk' = OnDisk
  BY <1>1, <1>2 DEF OnDisk
<1>4. Lifecycle'
  BY <1>1 DEF Sound, Rest, Lifecycle, Writers
<1>5. DiskOK' /\ Ranged(list)'
  BY <1>1, <1>2 DEF Sound, Rest, DiskOK, IsSave, Ranged
<1>6. \A v \in Writers : WriterOK(v)'
  <2>1. \A v \in Writers : IsSave(writer[v].save)'
    BY <1>1 DEF Sound, Rest, WriterOK, IsSave
  <2>. QED BY <1>1, <2>1, AtRest
<1>7. Fresh' /\ LastKept'
  BY <1>1, <1>2, <1>3 DEF Fresh, LastKept, Writers
<1>. QED BY <1>3, <1>4, <1>5, <1>6, <1>7, SameIsNoLoss DEF Rest

LEMMA InitSound == Init => Sound
<1>. SUFFICES ASSUME Init PROVE Sound
  OBVIOUS
<1>1. \A v \in Writers : writer[v].at = "waiting" /\ writer[v].save = Torn /\ writer[v].file = None
  BY DEF Init, Idle
<1>2. Lifecycle
  <2>1. changes \in 0..MaxChanges
    BY StoreAssumption DEF Init
  <2>2. \A v \in Writers : writer[v].at \in Steps /\ writer[v].file \in Files \cup {None}
    BY <1>1 DEF Steps
  <2>3. writer["saver"].at = "waiting" /\ writer["main"].at = "waiting"
    BY <1>1 DEF Writers
  <2>. QED BY <2>1, <2>2, <2>3 DEF Init, Lifecycle
<1>3. DiskOK
  BY DEF Init, DiskOK, IsSave, PathNames
<1>4. \A v \in Writers : WriterOK(v)
  BY <1>1 DEF WriterOK, Busy, IsSave
<1>5. Ranged(list) /\ Fresh /\ LastKept
  <2>1. OnDisk.list = Snapshot(EmptyList)
    BY DEF Init, OnDisk, PathNames
  <2>2. Snapshot(EmptyList).order = <<>>
    BY EmptyFaithful DEF Snapshot
  <2>. QED BY <1>1, <2>1, <2>2, EmptyFaithful DEF Init, Fresh, LastKept, Writers
<1>. QED BY <1>2, <1>3, <1>4, <1>5, InitAgreeing DEF Sound, Rest

LEMMA NextSound ==
    ASSUME "overlap" \notin Ops, Sound, [Next]_vars
    PROVE  Sound' /\ NoLoss
<1>1. Agreeing'
  BY NextAgreeing DEF Sound
<1>2. CASE UNCHANGED vars
  <2>1. OnDisk' = OnDisk
    BY <1>2 DEF vars, OnDisk
  <2>2. Lifecycle' /\ DiskOK' /\ Ranged(list)'
    BY <1>2 DEF vars, Sound, Rest, Lifecycle, DiskOK, Ranged, IsSave
  <2>3. \A v \in Writers : WriterOK(v)'
    BY <1>2, <2>1 DEF vars, Sound, Rest, WriterOK, Busy, IsSave
  <2>4. Fresh' /\ LastKept'
    BY <1>2, <2>1 DEF vars, Sound, Rest, Fresh, LastKept
  <2>. QED BY <1>1, <2>1, <2>2, <2>3, <2>4, SameIsNoLoss DEF Sound, Rest
<1>3. CASE Next
  <2>1. Rest' /\ NoLoss
    BY <1>3, RequestRest, WakeRest, TakeRest, OpenRest, WriteRest, RenameRest, FailRest,
       GoneRest, LoadRest DEF Next, Saving
  <2>. QED BY <1>1, <2>1 DEF Sound
<1>. QED BY <1>2, <1>3

LEMMA SoundSaved == Sound => SavedWhole
<1>. SUFFICES ASSUME Sound PROVE SavedWhole
  OBVIOUS
<1>1. IsList(list) /\ ActiveInRange
  <2>1. Agrees(list) /\ Ranged(list)
    BY DEF Sound, Rest, Agreeing
  <2>. QED BY <2>1 DEF Agrees, Shaped, Ranged, InRange, IsList, ActiveInRange, TabsInRange
<1>2. \A c : IsSave(c) => IsContent(c)
  <2>. SUFFICES ASSUME NEW c, IsSave(c), c # Torn PROVE IsContent(c)
    BY DEF IsContent
  <2>1. IsSnapshot(c.list) /\ c.of \in 0..changes /\ changes \in 0..MaxChanges
    BY FaithfulSnapshot DEF IsSave, Sound, Rest, Lifecycle
  <2>. QED BY <2>1, StoreAssumption DEF IsContent
<1>3. TypeOK
  BY <1>1, <1>2 DEF TypeOK, Sound, Rest, Agreeing, Lifecycle, DiskOK, WriterOK
<1>4. FileIntact
  BY OnDiskFacts DEF FileIntact
<1>5. NothingForgotten
  BY DEF NothingForgotten, Sound, Rest, Fresh
<1>. QED BY <1>1, <1>3, <1>4, <1>5 DEF SavedWhole

-----------------------------------------------------------------------------
\* Of a daemon whose saver and last save do not overlap: the list is one the program can
\* work with, the file holds no half of a save at any moment, a crash included, and what
\* it lacks of the list will be written, is being written or has failed to be
\* (WorkspaceService, save_now, write_state, load).
THEOREM SavesAreWhole ==
    ASSUME "overlap" \notin Ops
    PROVE  Spec => []SavedWhole
<1>. QED BY InitSound, NextSound, SoundSaved, PTL DEF Spec

\* Of such a daemon: the file never goes back to an older list, nor from one that has a
\* workspace to one that has none, over saves, failures, crashes and loads
\* (write_state, close).
THEOREM FileNeverLoses ==
    ASSUME "overlap" \notin Ops
    PROVE  Spec => NeverLess
<1>1. ASSUME Sound, [Next]_vars
      PROVE  /\ [OnDisk' # Torn => OnDisk'.of >= OnDisk.of]_vars
             /\ [HoldsOne(OnDisk) => HoldsOne(OnDisk')]_vars
  <2>1. NoLoss
    BY <1>1, NextSound
  <2>. QED BY <2>1 DEF NoLoss, HoldsOne
<1>. QED BY InitSound, NextSound, <1>1, PTL DEF Spec, NeverLess, NeverOlder, NeverEmptied
=============================================================================
