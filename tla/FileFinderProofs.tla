---------------------------- MODULE FileFinderProofs ----------------------------
(* What holds of FileFinder whatever is typed, for any number of timers,     *)
(* scans and results that cross: the paths listed are those of the text in   *)
(* the dialog.                                                               *)
(*                                                                           *)
(* A generation stands for one text.  The invariant says so of everything    *)
(* that carries one: what is numbered by the present generation is about the *)
(* present text, and nothing is numbered by a generation to come.            *)
EXTENDS FileFinder, SequenceTheorems, TLAPS

\* A text is no result of its own, and a number no missing one.
FinderAssumption == Queries \cap {None, "error", "cancelled"} = {} /\ None \notin Nat

Found    == Queries \cup {"error", "cancelled"}
Answers  == [id : Nat, found : Found]
Requests == [type : {"find"}, id : Nat, query : Queries] \cup [type : {"cancel"}, id : Nat]
Scans    == [id : Nat, query : Queries, result : Found \cup {None}]

Typed ==
  /\ generation \in Nat /\ request \in {None, generation}
  /\ timers \subseteq [of : Nat, query : Queries]
  /\ toDaemon \in Seq(Requests) /\ scans \subseteq Scans
  /\ out \in Seq(Answers) /\ toGui \in Seq(Answers)

\* What carries the number id was found for, or asks for, query: by generation g, at text q.
About(id, query, g, q) == id <= g /\ (id = g => query = q)

AskedFor(m, g, q)   == m.type = "find" => About(m.id, m.query, g, q)
ScannedFor(s, g, q) == About(s.id, s.query, g, q)
                       /\ s.result \in {None, s.query, "error", "cancelled"}
FoundFor(r, g, q)   == r.found \in Queries => About(r.id, r.found, g, q)

Numbered ==
  /\ \A t \in timers : About(t.of, t.query, generation, input)
  /\ \A i \in DOMAIN toDaemon : AskedFor(toDaemon[i], generation, input)
  /\ \A s \in scans : ScannedFor(s, generation, input)
  /\ \A i \in DOMAIN out : FoundFor(out[i], generation, input)
  /\ \A i \in DOMAIN toGui : FoundFor(toGui[i], generation, input)

IInv == Typed /\ Numbered /\ PathsOfQuery

\* What joins a channel, and what leaves it.
LEMMA Appended ==
  ASSUME NEW S, NEW s \in Seq(S), NEW e \in S
  PROVE  /\ Append(s, e) \in Seq(S)
         /\ \A i \in DOMAIN Append(s, e) :
              Append(s, e)[i] = e \/ (i \in DOMAIN s /\ Append(s, e)[i] = s[i])
  OBVIOUS

LEMMA Taken ==
  ASSUME NEW S, NEW s \in Seq(S), s # <<>>
  PROVE  /\ Head(s) = s[1] /\ 1 \in DOMAIN s /\ Head(s) \in S /\ Tail(s) \in Seq(S)
         /\ \A i \in DOMAIN Tail(s) : i + 1 \in DOMAIN s /\ Tail(s)[i] = s[i + 1]
  OBVIOUS

-----------------------------------------------------------------------------
(* The dialog.                                                               *)

\* What was about a generation so far is not about the next, whatever its text.
LEMMA Past ==
  ASSUME NEW g \in Nat, NEW q, NEW r
  PROVE  /\ \A t \in [of : Nat, query : Queries] :
              About(t.of, t.query, g, q) => About(t.of, t.query, g + 1, r)
         /\ \A m \in Requests : AskedFor(m, g, q) => AskedFor(m, g + 1, r)
         /\ \A s \in Scans : ScannedFor(s, g, q) => ScannedFor(s, g + 1, r)
         /\ \A a \in Answers : FoundFor(a, g, q) => FoundFor(a, g + 1, r)
<1>1. \A id \in Nat : \A query : About(id, query, g, q) => About(id, query, g + 1, r)
  BY DEF About
<1>2. \A m \in Requests : m.type = "find" => m.id \in Nat
  BY DEF Requests
<1>3. \A s \in Scans : s.id \in Nat
  BY DEF Scans
<1>4. \A a \in Answers : a.id \in Nat
  BY DEF Answers
<1>. QED BY <1>1, <1>2, <1>3, <1>4 DEF AskedFor, ScannedFor, FoundFor

LEMMA StopInv ==
  ASSUME Typed, Numbered, StopFinderRequest
  PROVE  /\ generation' = generation + 1 /\ request' = None
         /\ toDaemon' \in Seq(Requests)
         /\ \A i \in DOMAIN toDaemon' : AskedFor(toDaemon'[i], generation', input')
<1>1. generation' = generation + 1 /\ request' = None
  BY DEF StopFinderRequest
<1>. DEFINE m == [type |-> "cancel", id |-> request]
<1>2. \A i \in DOMAIN toDaemon :
        toDaemon[i] \in Requests /\ AskedFor(toDaemon[i], generation', input')
  <2>. SUFFICES ASSUME NEW i \in DOMAIN toDaemon
                PROVE  toDaemon[i] \in Requests /\ AskedFor(toDaemon[i], generation', input')
    OBVIOUS
  <2>1. toDaemon[i] \in Requests /\ AskedFor(toDaemon[i], generation, input)
    BY DEF Typed, Numbered
  <2>. QED BY <1>1, <2>1, Past DEF Typed
<1>3. CASE toDaemon' = toDaemon
  BY <1>1, <1>2, <1>3 DEF Typed
<1>4. CASE request # None /\ toDaemon' = Append(toDaemon, m)
  <2>1. m \in Requests /\ AskedFor(m, generation', input')
    BY <1>4 DEF Requests, Typed, AskedFor
  <2>. HIDE DEF m
  <2>2. /\ toDaemon' \in Seq(Requests)
        /\ \A i \in DOMAIN toDaemon' :
             toDaemon'[i] = m \/ (i \in DOMAIN toDaemon /\ toDaemon'[i] = toDaemon[i])
    BY <1>4, <2>1, Appended DEF Typed
  <2>. QED BY <1>1, <1>2, <2>1, <2>2
<1>. QED BY <1>1, <1>3, <1>4 DEF StopFinderRequest

\* A new text, or none: nothing that is on its way is about it.
LEMMA RestPast ==
  ASSUME Typed, Numbered, generation' = generation + 1, UNCHANGED <<toGui, daemon>>
  PROVE  /\ \A t \in timers : About(t.of, t.query, generation', input')
         /\ \A s \in scans' : ScannedFor(s, generation', input')
         /\ \A i \in DOMAIN out' : FoundFor(out'[i], generation', input')
         /\ \A i \in DOMAIN toGui' : FoundFor(toGui'[i], generation', input')
<1>1. \A t \in timers : About(t.of, t.query, generation + 1, input')
  BY Past DEF Typed, Numbered
<1>2. \A s \in scans : ScannedFor(s, generation + 1, input')
  BY Past DEF Typed, Numbered
<1>3. \A i \in DOMAIN out : FoundFor(out[i], generation + 1, input')
  <2>1. \A i \in DOMAIN out : out[i] \in Answers
    BY DEF Typed
  <2>. QED BY <2>1, Past DEF Typed, Numbered
<1>4. \A i \in DOMAIN toGui : FoundFor(toGui[i], generation + 1, input')
  <2>1. \A i \in DOMAIN toGui : toGui[i] \in Answers
    BY DEF Typed
  <2>. QED BY <2>1, Past DEF Typed, Numbered
<1>. QED BY <1>1, <1>2, <1>3, <1>4 DEF daemon

LEMMA ChangedInv ==
  ASSUME FinderAssumption, IInv, NEW q \in Queries \cup Elsewhere, FinderChanged(q)
  PROVE  IInv'
<1>1. /\ generation' = generation + 1 /\ request' = None /\ toDaemon' \in Seq(Requests)
      /\ \A i \in DOMAIN toDaemon' : AskedFor(toDaemon'[i], generation', input')
  BY StopInv DEF FinderChanged, IInv
<1>2. /\ \A t \in timers : About(t.of, t.query, generation', input')
      /\ \A s \in scans' : ScannedFor(s, generation', input')
      /\ \A i \in DOMAIN out' : FoundFor(out'[i], generation', input')
      /\ \A i \in DOMAIN toGui' : FoundFor(toGui'[i], generation', input')
  BY <1>1, RestPast DEF FinderChanged, IInv
<1>3. /\ timers' \subseteq [of : Nat, query : Queries]
      /\ \A t \in timers' : About(t.of, t.query, generation', input')
  BY <1>1, <1>2 DEF FinderChanged, IInv, Typed, About
<1>4. Typed'
  BY <1>1, <1>3 DEF FinderChanged, IInv, Typed, daemon
<1>. QED BY <1>1, <1>2, <1>3, <1>4 DEF FinderChanged, FinderAssumption, IInv, Numbered, PathsOfQuery

LEMMA AbandonInv ==
  ASSUME FinderAssumption, IInv, AbandonFinder
  PROVE  IInv'
<1>1. /\ generation' = generation + 1 /\ request' = None /\ toDaemon' \in Seq(Requests)
      /\ \A i \in DOMAIN toDaemon' : AskedFor(toDaemon'[i], generation', input')
  BY StopInv DEF AbandonFinder, IInv
<1>2. /\ \A t \in timers : About(t.of, t.query, generation', input')
      /\ \A s \in scans' : ScannedFor(s, generation', input')
      /\ \A i \in DOMAIN out' : FoundFor(out'[i], generation', input')
      /\ \A i \in DOMAIN toGui' : FoundFor(toGui'[i], generation', input')
  BY <1>1, RestPast DEF AbandonFinder, IInv
<1>3. Typed'
  BY <1>1 DEF AbandonFinder, IInv, Typed, daemon
<1>. QED BY <1>1, <1>2, <1>3 DEF AbandonFinder, FinderAssumption, IInv, Numbered, PathsOfQuery

\* The timer that asks is that of the present text.
LEMMA TimerInv ==
  ASSUME FinderAssumption, IInv, NEW t \in timers, TimerEnds(t)
  PROVE  IInv'
<1>. DEFINE m == [type |-> "find", id |-> t.of, query |-> t.query]
<1>1. UNCHANGED <<input, generation, paths, toGui, daemon>> /\ timers' \subseteq timers
  BY DEF TimerEnds
<1>2. m \in Requests /\ AskedFor(m, generation, input)
  BY DEF IInv, Typed, Numbered, Requests, AskedFor
<1>. HIDE DEF m
<1>3. \/ request' = generation /\ toDaemon' = Append(toDaemon, m)
      \/ UNCHANGED <<request, toDaemon>>
  BY DEF TimerEnds, m
<1>4. /\ toDaemon' \in Seq(Requests)
      /\ \A i \in DOMAIN toDaemon' : AskedFor(toDaemon'[i], generation, input)
  <2>1. CASE toDaemon' = Append(toDaemon, m)
    <3>1. /\ toDaemon' \in Seq(Requests)
          /\ \A i \in DOMAIN toDaemon' :
               toDaemon'[i] = m \/ (i \in DOMAIN toDaemon /\ toDaemon'[i] = toDaemon[i])
      BY <1>2, <2>1, Appended DEF IInv, Typed
    <3>. QED BY <1>2, <3>1 DEF IInv, Numbered
  <2>. QED BY <1>3, <2>1 DEF IInv, Typed, Numbered
<1>. QED BY <1>1, <1>3, <1>4 DEF IInv, Typed, Numbered, PathsOfQuery, daemon

\* A result that is shown is of the present generation.
LEMMA HandleInv ==
  ASSUME FinderAssumption, IInv, HandleFinderMessage
  PROVE  IInv'
<1>. DEFINE r == Head(toGui)
<1>1. /\ r = toGui[1] /\ 1 \in DOMAIN toGui /\ r \in Answers /\ Tail(toGui) \in Seq(Answers)
      /\ \A i \in DOMAIN Tail(toGui) : i + 1 \in DOMAIN toGui /\ Tail(toGui)[i] = toGui[i + 1]
  BY Taken DEF HandleFinderMessage, IInv, Typed
<1>2. r.id \in Nat /\ FoundFor(r, generation, input)
  BY <1>1 DEF Answers, IInv, Numbered
<1>. HIDE DEF r
<1>3. PathsOfQuery'
  <2>1. CASE request = r.id /\ paths' = r.found
    <3>1. r.id = generation
      BY <1>2, <2>1 DEF FinderAssumption, IInv, Typed
    <3>. QED BY <1>2, <2>1, <3>1 DEF HandleFinderMessage, PathsOfQuery, FoundFor, About
  <2>2. CASE UNCHANGED paths
    BY <2>2 DEF HandleFinderMessage, IInv, PathsOfQuery
  <2>. QED BY <2>1, <2>2 DEF HandleFinderMessage, r
<1>4. UNCHANGED <<input, generation, request, timers, toDaemon, daemon>> /\ toGui' = Tail(toGui)
  BY DEF HandleFinderMessage
<1>. QED BY <1>1, <1>3, <1>4 DEF IInv, Typed, Numbered, daemon

-----------------------------------------------------------------------------
(* The daemon.                                                               *)

LEMMA StartInv ==
  ASSUME FinderAssumption, IInv, ReceiveFileFinder
  PROVE  IInv'
<1>. DEFINE m == Head(toDaemon)  s == [id |-> m.id, query |-> m.query, result |-> None]
<1>1. /\ m = toDaemon[1] /\ 1 \in DOMAIN toDaemon /\ m \in Requests
      /\ Tail(toDaemon) \in Seq(Requests)
      /\ \A i \in DOMAIN Tail(toDaemon) :
           i + 1 \in DOMAIN toDaemon /\ Tail(toDaemon)[i] = toDaemon[i + 1]
  BY Taken DEF ReceiveFileFinder, IInv, Typed
<1>2. m.type = "find" /\ AskedFor(m, generation, input)
  BY <1>1 DEF ReceiveFileFinder, IInv, Numbered
<1>3. s \in Scans /\ ScannedFor(s, generation, input)
  BY <1>1, <1>2 DEF Requests, Scans, AskedFor, ScannedFor
<1>4. /\ UNCHANGED <<dialog, toGui, out>> /\ toDaemon' = Tail(toDaemon)
      /\ scans' = scans \cup {s}
  BY DEF ReceiveFileFinder
<1>. HIDE DEF m, s
<1>5. Typed'
  BY <1>1, <1>3, <1>4 DEF IInv, Typed, dialog
<1>6. Numbered'
  BY <1>1, <1>3, <1>4 DEF IInv, Numbered, dialog
<1>. QED BY <1>4, <1>5, <1>6 DEF IInv, PathsOfQuery, dialog

\* That a request was withdrawn is no path.
LEMMA CancelInv ==
  ASSUME FinderAssumption, IInv, ReceiveFileFinderCancel
  PROVE  IInv'
<1>. DEFINE m == Head(toDaemon)  r == Results(m.id, "cancelled")
<1>1. /\ m = toDaemon[1] /\ 1 \in DOMAIN toDaemon /\ m \in Requests
      /\ Tail(toDaemon) \in Seq(Requests)
      /\ \A i \in DOMAIN Tail(toDaemon) :
           i + 1 \in DOMAIN toDaemon /\ Tail(toDaemon)[i] = toDaemon[i + 1]
  BY Taken DEF ReceiveFileFinderCancel, IInv, Typed
<1>2. r \in Answers /\ FoundFor(r, generation, input)
  BY <1>1 DEF Requests, Answers, Results, Found, FoundFor, FinderAssumption
<1>3. /\ UNCHANGED <<dialog, scans, out>> /\ toDaemon' = Tail(toDaemon)
      /\ toGui' = Append(toGui, r)
  BY DEF ReceiveFileFinderCancel
<1>. HIDE DEF m, r
<1>4. /\ toGui' \in Seq(Answers)
      /\ \A i \in DOMAIN toGui' : toGui'[i] = r \/ (i \in DOMAIN toGui /\ toGui'[i] = toGui[i])
  BY <1>2, <1>3, Appended DEF IInv, Typed
<1>5. Typed'
  BY <1>1, <1>3, <1>4 DEF IInv, Typed, dialog
<1>6. Numbered'
  BY <1>1, <1>2, <1>3, <1>4 DEF IInv, Numbered, dialog
<1>. QED BY <1>3, <1>5, <1>6 DEF IInv, PathsOfQuery, dialog

LEMMA ScanInv ==
  ASSUME FinderAssumption, IInv, NEW s \in scans, Scan(s)
  PROVE  IInv'
<1>1. s \in Scans /\ ScannedFor(s, generation, input)
  BY DEF IInv, Typed, Numbered
<1>2. PICK found \in {s.query, "error", "cancelled"} :
         scans' = (scans \ {s}) \cup {[s EXCEPT !.result = found]}
  BY DEF Scan
<1>3. [s EXCEPT !.result = found] \in Scans
  BY <1>1 DEF Scans, Found
<1>4. ScannedFor([s EXCEPT !.result = found], generation, input)
  BY <1>1 DEF Scans, ScannedFor
<1>5. UNCHANGED <<dialog, toDaemon, toGui, out>>
  BY DEF Scan
<1>6. Typed'
  BY <1>2, <1>3, <1>5 DEF IInv, Typed, dialog
<1>7. Numbered'
  BY <1>2, <1>4, <1>5 DEF IInv, Numbered, dialog
<1>. QED BY <1>5, <1>6, <1>7 DEF IInv, PathsOfQuery, dialog

LEMMA SendInv ==
  ASSUME FinderAssumption, IInv, NEW s \in scans, SendResult(s)
  PROVE  IInv'
<1>. DEFINE r == Results(s.id, s.result)
<1>1. s \in Scans /\ ScannedFor(s, generation, input) /\ s.result # None
  BY DEF IInv, Typed, Numbered, SendResult
<1>2. r \in Answers /\ FoundFor(r, generation, input)
  BY <1>1 DEF Scans, Answers, Results, ScannedFor, FoundFor, FinderAssumption
<1>3. /\ UNCHANGED <<dialog, toDaemon, toGui>> /\ scans' = scans \ {s} /\ out' = Append(out, r)
  BY DEF SendResult
<1>. HIDE DEF r
<1>4. /\ out' \in Seq(Answers)
      /\ \A i \in DOMAIN out' : out'[i] = r \/ (i \in DOMAIN out /\ out'[i] = out[i])
  BY <1>2, <1>3, Appended DEF IInv, Typed
<1>5. Typed'
  BY <1>3, <1>4 DEF IInv, Typed, dialog
<1>6. Numbered'
  BY <1>2, <1>3, <1>4 DEF IInv, Numbered, dialog
<1>. QED BY <1>3, <1>5, <1>6 DEF IInv, PathsOfQuery, dialog

LEMMA ForwardInv ==
  ASSUME FinderAssumption, IInv, Forward
  PROVE  IInv'
<1>. DEFINE r == Head(out)
<1>1. /\ r = out[1] /\ 1 \in DOMAIN out /\ r \in Answers /\ Tail(out) \in Seq(Answers)
      /\ \A i \in DOMAIN Tail(out) : i + 1 \in DOMAIN out /\ Tail(out)[i] = out[i + 1]
  BY Taken DEF Forward, IInv, Typed
<1>2. FoundFor(r, generation, input)
  BY <1>1 DEF IInv, Numbered
<1>3. /\ UNCHANGED <<dialog, toDaemon, scans>> /\ out' = Tail(out)
      /\ toGui' = Append(toGui, r) \/ toGui' = toGui
  BY DEF Forward
<1>. HIDE DEF r
<1>4. /\ toGui' \in Seq(Answers)
      /\ \A i \in DOMAIN toGui' : toGui'[i] = r \/ (i \in DOMAIN toGui /\ toGui'[i] = toGui[i])
  <2>1. CASE toGui' = Append(toGui, r)
    BY <1>1, <2>1, Appended DEF IInv, Typed
  <2>2. CASE toGui' = toGui
    BY <2>2 DEF IInv, Typed
  <2>. QED BY <1>3, <2>1, <2>2
<1>5. Typed'
  BY <1>1, <1>3, <1>4 DEF IInv, Typed, dialog
<1>6. Numbered'
  BY <1>1, <1>2, <1>3, <1>4 DEF IInv, Numbered, dialog
<1>. QED BY <1>3, <1>5, <1>6 DEF IInv, PathsOfQuery, dialog

-----------------------------------------------------------------------------
LEMMA InitInv == ASSUME FinderAssumption PROVE Init => IInv
  BY DEF Init, IInv, Typed, Numbered, PathsOfQuery, FinderAssumption

LEMMA NextInv ==
  ASSUME FinderAssumption, IInv, [Next]_vars
  PROVE  IInv'
<1>1. CASE UNCHANGED vars
  BY <1>1 DEF vars, dialog, daemon, IInv, Typed, Numbered, PathsOfQuery
<1>2. CASE Next
  BY <1>2, ChangedInv, AbandonInv, TimerInv, HandleInv, StartInv, CancelInv, ForwardInv,
     ScanInv, SendInv DEF Next, Daemon
<1>. QED BY <1>1, <1>2

\* What is listed was found for the text in the dialog, over any texts, however many timers,
\* scans, withdrawn requests and late results cross (finder.rs, server.rs, file_finder.rs).
THEOREM PathsAreOfQuery ==
  ASSUME FinderAssumption
  PROVE  Spec => []PathsOfQuery
<1>1. IInv => PathsOfQuery
  BY DEF IInv
<1>. QED BY <1>1, InitInv, NextInv, PTL DEF Spec
====
