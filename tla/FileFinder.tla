----------------------------- MODULE FileFinder -----------------------------
(* The file search of the quick finder: the dialog of a window with its      *)
(* debounce timers (gui/finder.rs), the loop of the socket (server.rs) and   *)
(* the scans on their own threads (file_finder.rs).                          *)
(*                                                                           *)
(* The generation of the dialog also numbers its requests, as each           *)
(* generation asks once at most; the daemon's cancel flag of a scan is       *)
(* named by the request that set it up.  Paths stand for the query they      *)
(* were found for.                                                           *)
EXTENDS Naturals, Sequences, FiniteSets

CONSTANTS
  Queries,     \* what can be typed that is searched for
  Elsewhere,   \* what is typed for another mode of the dialog
  MaxInputs,   \* bound: what the user does
  Channel,     \* capacity of finder_tx
  None

VARIABLES
  input,       \* the text of the dialog, None when it is closed
  generation, request,
  paths,       \* the query whose paths are shown, None before
  timers,      \* debounce timers that run
  toDaemon, toGui,
  current,     \* FileFinderSession.current
  cancelled,   \* the scans whose flag is set
  scans,       \* the scans that have not sent their result
  out          \* finder_rx

dialog == <<input, generation, request, paths, timers>>
daemon == <<current, cancelled, scans, out>>
vars == <<dialog, toDaemon, toGui, daemon>>

Init ==
  /\ input = None /\ generation = 0 /\ request = None /\ paths = None /\ timers = {}
  /\ toDaemon = <<>> /\ toGui = <<>>
  /\ current = None /\ cancelled = {} /\ scans = {} /\ out = <<>>

Results(id, found) == [id |-> id, found |-> found]

-----------------------------------------------------------------------------
(* The dialog.                                                               *)

\* stop_finder_request: a new generation, and the request of the last one withdrawn.
StopFinderRequest ==
  /\ generation' = generation + 1 /\ request' = None
  /\ toDaemon' = IF request = None THEN toDaemon
                 ELSE Append(toDaemon, [type |-> "cancel", id |-> request])

\* start_finder and finder_changed: a search starts a timer, another mode does not.
FinderChanged(q) ==
  /\ generation < MaxInputs /\ q # input
  /\ StopFinderRequest
  /\ input' = q /\ paths' = None
  /\ timers' = IF q \in Queries THEN timers \cup {[of |-> generation', query |-> q]} ELSE timers
  /\ UNCHANGED <<toGui, daemon>>

\* abandon_finder: cancelled or confirmed.
AbandonFinder ==
  /\ generation < MaxInputs /\ input # None
  /\ StopFinderRequest
  /\ input' = None /\ paths' = None
  /\ UNCHANGED <<timers, toGui, daemon>>

\* Mutant: the timer of an earlier text asks as well.
TimerEndsLate(t) ==
  /\ t \in timers /\ timers' = timers \ {t}
  /\ IF input # None
     THEN /\ request' = t.of
          /\ toDaemon' = Append(toDaemon, [type |-> "find", id |-> t.of, query |-> t.query])
     ELSE UNCHANGED <<request, toDaemon>>
  /\ UNCHANGED <<input, generation, paths, toGui, daemon>>

\* The timer asks for the text it was started with, unless that has changed.
TimerEnds(t) ==
  /\ t \in timers /\ timers' = timers \ {t}
  /\ IF input # None /\ t.of = generation
     THEN /\ request' = t.of
          /\ toDaemon' = Append(toDaemon, [type |-> "find", id |-> t.of, query |-> t.query])
     ELSE UNCHANGED <<request, toDaemon>>
  /\ UNCHANGED <<input, generation, paths, toGui, daemon>>

\* handle_finder_message: results of the request under way, found or not.
HandleFinderMessage ==
  /\ toGui # <<>> /\ toGui' = Tail(toGui)
  /\ paths' = IF input # None /\ request = Head(toGui).id THEN Head(toGui).found ELSE paths
  /\ UNCHANGED <<input, generation, request, timers, toDaemon, daemon>>

-----------------------------------------------------------------------------
(* The daemon.                                                               *)

\* FileFinderSession::clear and cancel set the flag of the scan they drop.
Flagged == cancelled \cup ({current} \ {None})

\* FileFinder: start replaces the scan before.
ReceiveFileFinder ==
  /\ toDaemon # <<>> /\ Head(toDaemon).type = "find" /\ toDaemon' = Tail(toDaemon)
  /\ cancelled' = Flagged
  /\ current' = Head(toDaemon).id
  /\ scans' = scans \cup {[id |-> Head(toDaemon).id, query |-> Head(toDaemon).query, result |-> None]}
  /\ UNCHANGED <<dialog, toGui, out>>

\* FileFinderCancel is answered at once, whether or not there was such a scan.
ReceiveFileFinderCancel ==
  LET id == Head(toDaemon).id
  IN  /\ toDaemon # <<>> /\ Head(toDaemon).type = "cancel" /\ toDaemon' = Tail(toDaemon)
      /\ IF current = id THEN cancelled' = Flagged /\ current' = None
         ELSE UNCHANGED <<cancelled, current>>
      /\ toGui' = Append(toGui, Results(id, "cancelled"))
      /\ UNCHANGED <<dialog, scans, out>>

\* scan: to the end, to an error, or to the check of the flag between two entries.
Scan(s) ==
  /\ s.result = None
  /\ \E found \in {s.query, "error"} \cup (IF s.id \in cancelled THEN {"cancelled"} ELSE {}) :
       scans' = (scans \ {s}) \cup {[s EXCEPT !.result = found]}
  /\ UNCHANGED <<dialog, toDaemon, toGui, current, cancelled, out>>

SendResult(s) ==
  /\ s.result # None /\ Len(out) < Channel
  /\ scans' = scans \ {s} /\ out' = Append(out, Results(s.id, s.result))
  /\ UNCHANGED <<dialog, toDaemon, toGui, current, cancelled>>

\* Mutant: what a scan was told to stop for stops the next as well.
ForwardIfNone ==
  /\ out # <<>> /\ out' = Tail(out)
  /\ toGui' = IF cancelled = {} THEN Append(toGui, Head(out)) ELSE toGui
  /\ UNCHANGED <<dialog, toDaemon, current, cancelled, scans>>

\* The loop of the socket forwards the result of the scan that is current.
Forward ==
  /\ out # <<>> /\ out' = Tail(out)
  /\ toGui' = IF Head(out).id \notin cancelled /\ current = Head(out).id
              THEN Append(toGui, Head(out)) ELSE toGui
  /\ UNCHANGED <<dialog, toDaemon, current, cancelled, scans>>

-----------------------------------------------------------------------------
Daemon == ReceiveFileFinder \/ ReceiveFileFinderCancel \/ Forward

Next ==
  \/ \E q \in Queries \cup Elsewhere : FinderChanged(q)
  \/ AbandonFinder \/ HandleFinderMessage \/ Daemon
  \/ \E t \in timers : TimerEnds(t)
  \/ \E s \in scans : Scan(s) \/ SendResult(s)

Spec == Init /\ [][Next]_vars

\* Timers end, the window takes its messages, the daemon its own, and scans go on: each
\* has an executor that never waits for the user.
Fairness ==
  /\ WF_vars(\E t \in timers : TimerEnds(t))
  /\ WF_vars(HandleFinderMessage) /\ WF_vars(Daemon)
  /\ WF_vars(\E s \in scans : Scan(s)) /\ WF_vars(\E s \in scans : SendResult(s))

FairSpec == Spec /\ Fairness

-----------------------------------------------------------------------------
(* Properties.                                                               *)

\* What is listed was found for the text in the dialog, however timers, cancelled scans and
\* late results cross (finder.rs:140, 183; server.rs:203; file_finder.rs:120).
PathsOfQuery == paths \in Queries => paths = input

\* A text that is left alone gets its paths, or an error (server.rs:203).
ResultsCome == \A q \in Queries : (input = q) ~> (paths # None \/ input # q)
=============================================================================
