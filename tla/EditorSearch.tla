---------------------------- MODULE EditorSearch ----------------------------
(* EditorSearch: find and replace in an editor tab (gui/editor_search.rs),    *)
(* the review of replacements (client/search.rs), and the daemon's preview    *)
(* (search.rs), which looks for the query in the text that the request        *)
(* carries. The sending of edits is that of EditorPanel; here an edit is      *)
(* under way until it is acknowledged.                                        *)
EXTENDS Naturals, Sequences, SequencesExt, FiniteSets

CONSTANTS
  MaxLen,        \* MAX_SNAPSHOT_BYTES or MAX_PAGE_BYTES: the longest text that can be edited
  Limit,         \* MAX_SEARCH_MATCHES
  Replacements,  \* lengths of what a match is replaced with
  MaxInputs,     \* bound: what users do
  Ops,           \* which of the optional events happen, see OpNames
  None

\* The text is changed by the daemon ("others"); the options are changed in another tab
\* ("options"); the connection is lost ("drop").
OpNames == {"others", "options", "drop"}

\* The query is a letter, that is to be told from its capital or not; "-" is a line break.
Letters == {"a", "A", "-"}
Texts == UNION {[1..n -> Letters] : n \in 0..MaxLen}

VARIABLES
  text,     \* current_text: what the editor holds
  synced,   \* whether the daemon has acknowledged it, and no request is under way
  online,   \* transport_connected
  search,   \* SearchUi
  wire,     \* searches on their way to the daemon
  replies,  \* previews on their way to the window
  inputs

vars == <<text, synced, online, search, wire, replies, inputs>>

-----------------------------------------------------------------------------
(* The preview of the daemon.                                                *)

IsMatch(letter, sensitive) == letter = "a" \/ (letter = "A" /\ ~sensitive)

\* preview: the matches in the scope, in order, and whether there are more than the limit.
Matched(t, sensitive, scope, with) ==
  LET from == IF scope = None THEN 1 ELSE scope.start + 1
      to == IF scope = None THEN Len(t) ELSE scope.start + scope.len
      step(found, n) ==
        IF n >= from /\ n <= to /\ IsMatch(t[n], sensitive)
        THEN Append(found, [start |-> n - 1, end |-> n, with |-> with]) ELSE found
  IN FoldLeft(step, <<>>, [n \in 1..Len(t) |-> n])
Preview(m) ==
  LET invalid == m.scope # None /\ m.scope.start + m.scope.len > Len(m.text)
      all == IF invalid THEN <<>> ELSE Matched(m.text, m.sensitive, m.scope, m.with)
  IN [id |-> m.id, error |-> invalid, capped |-> Len(all) > Limit,
      matches |-> IF Len(all) > Limit THEN SubSeq(all, 1, Limit) ELSE all]

-----------------------------------------------------------------------------
(* The review of replacements.                                               *)

\* The text with one match replaced.
With(n) == [k \in 1..n |-> "a"]
ReplaceRange(t, m) == SubSeq(t, 1, m.start) \o With(m.with) \o SubSeq(t, m.end + 1, Len(t))

\* apply_matches: from the end, so that the offsets of the others stay valid.
ApplyFromStart(t, ms) ==   \* Mutant: from the start
  FoldLeft(ReplaceRange, t, ms)

ApplyMatches(t, ms) == FoldLeft(ReplaceRange, t, Reverse(ms))

\* new_at: from the current match on, once around.
NewReview(t, ms, at) ==
  [text |-> t, matches |-> ms, accepted |-> {}, position |-> 1,
   order |-> [n \in 1..Len(ms) |-> ((at + n - 2) % Len(ms)) + 1]]

\* accept, skip, accept_all.
Accept(r) == [r EXCEPT !.accepted = @ \cup {r.order[r.position]}, !.position = @ + 1]
Skip(r) == [r EXCEPT !.position = @ + 1]
AcceptAll(r) ==
  [r EXCEPT !.accepted = @ \cup {r.order[n] : n \in r.position..Len(r.order)},
            !.position = Len(r.order) + 1]
IsDone(r) == r.position > Len(r.order)

\* replacements: those accepted.
AcceptedOf(r) ==
  FoldLeft(LAMBDA ms, n : IF n \in r.accepted THEN Append(ms, r.matches[n]) ELSE ms,
           <<>>, [n \in DOMAIN r.matches |-> n])

-----------------------------------------------------------------------------
(* The search of a tab.                                                      *)

\* SearchUi::new.
NewSearch ==
  [asked |-> FALSE, sensitive |-> FALSE, with |-> 0, scope |-> None, scopeText |-> <<>>,
   candidate |-> None, matches |-> <<>>, current |-> 0, of |-> <<>>, pending |-> None,
   error |-> FALSE, capped |-> FALSE, review |-> None, timer |-> FALSE]

Init ==
  /\ text = [n \in 1..MaxLen |-> IF n % 2 = 1 THEN "a" ELSE "A"] /\ synced = TRUE /\ online = TRUE
  /\ search = NewSearch /\ wire = <<>> /\ replies = <<>> /\ inputs = 0

Input == inputs < MaxInputs /\ inputs' = inputs + 1

\* contiguous_diff: what two texts have in common at the start and at the end.
Smaller(a, b) == IF a <= b THEN a ELSE b
CommonStart(s, t) ==
  LET most == Smaller(Len(s), Len(t)) IN
  CHOOSE n \in 0..most : /\ SubSeq(s, 1, n) = SubSeq(t, 1, n)
                         /\ n = most \/ s[n + 1] # t[n + 1]
CommonEnd(s, t, start) ==
  LET most == Smaller(Len(s), Len(t)) - start IN
  CHOOSE n \in 0..most : /\ \A k \in 0..(n - 1) : s[Len(s) - k] = t[Len(t) - k]
                         /\ n = most \/ s[Len(s) - n] # t[Len(t) - n]

\* map_selection_through_edits.
Mapped(old, new, offset) ==
  LET start == CommonStart(old, new)
      tail == CommonEnd(old, new, start)
      end == Len(old) - tail
      grown == Len(new) - tail
  IN IF offset <= start THEN offset ELSE IF offset >= end THEN offset - end + grown ELSE grown
MappedScope(s, t) ==
  IF s.scope = None \/ s.scopeText = t THEN s.scope
  ELSE LET from == Mapped(s.scopeText, t, s.scope.start)
           to == Mapped(s.scopeText, t, s.scope.start + s.scope.len)
       IN [start |-> from, len |-> IF to >= from THEN to - from ELSE 0]

\* refresh_search: what was found is forgotten at once, a review is given up, and a search is due.
RefreshLater(s, t) ==   \* Mutant: what is awaited is still taken
  [s EXCEPT !.scope = MappedScope(s, t), !.scopeText = t, !.matches = <<>>, !.current = 0,
            !.error = s.review # None, !.review = None, !.timer = s.asked]

Refresh(s, t) ==
  [s EXCEPT !.scope = MappedScope(s, t), !.scopeText = t, !.matches = <<>>, !.current = 0,
            !.pending = None, !.error = s.review # None, !.review = None, !.timer = s.asked]

\* search_can_replace.
CanReplace ==
  /\ online /\ synced
  /\ search.pending = None /\ ~search.error /\ ~search.capped
  /\ search.matches # <<>> /\ search.of = text

\* What a tab is left with.
Stays(s) == [search |-> s, text |-> text, synced |-> synced]
Becomes(tab) == search' = tab.search /\ text' = tab.text /\ synced' = tab.synced

\* commit_search_text: a text that is too long is refused.
Commit(s, t) ==
  IF t = text THEN Stays(s)
  ELSE IF Len(t) > MaxLen THEN Stays([s EXCEPT !.error = TRUE])
  ELSE [search |-> Refresh(s, t), text |-> t, synced |-> FALSE]

\* review_decision "q", and the end of a review: what was accepted is committed.
EndForgetful(s) ==   \* Mutant: what was accepted is dropped
  Stays([s EXCEPT !.review = None])

EndReview(s) ==
  IF s.review = None THEN Stays(s)
  ELSE IF s.review.text = text
  THEN Commit([s EXCEPT !.review = None], ApplyMatches(s.review.text, AcceptedOf(s.review)))
  ELSE Stays([s EXCEPT !.review = None, !.error = TRUE])

-----------------------------------------------------------------------------
(* What the user does.                                                       *)

Quiet == search.review = None
Changes(s) == search' = Refresh(s, text) /\ UNCHANGED <<text, synced, online, wire, replies>>

\* open_search: a review ends; the selection of that moment is what a search can be narrowed
\* to, and, unless it spans lines, what is searched for if nothing is yet (here it can only be
\* the letter).
OpenSearch(start, len) ==
  LET tab == EndReview(search)
      selected == SubSeq(tab.text, start + 1, start + len)
      taken == selected # <<>> /\ "-" \notin ToSet(selected)
      s == [tab.search EXCEPT !.candidate = IF len = 0 THEN None ELSE [start |-> start, len |-> len],
                              !.asked = @ \/ taken]
  IN
  /\ Input /\ start + len <= Len(tab.text)
  /\ search.asked \/ ~taken \/ selected = <<"a">>
  /\ Becomes([tab EXCEPT !.search = Refresh(s, tab.text)])
  /\ UNCHANGED <<online, wire, replies>>

\* The two fields, and the options of the toolbar: the query is typed, or deleted.
Ask == Input /\ Quiet /\ Changes([search EXCEPT !.asked = ~@])
ReplaceWith(n) == Input /\ Quiet /\ search.with # n /\ Changes([search EXCEPT !.with = n])
ToggleCase == Input /\ Quiet /\ Changes([search EXCEPT !.sensitive = ~@])
ResetOptions == Input /\ Quiet /\ Changes([search EXCEPT !.sensitive = FALSE])
ToggleSelection ==
  /\ Input /\ Quiet
  /\ IF search.scope = None /\ search.candidate = None
     THEN search' = [search EXCEPT !.error = TRUE] /\ UNCHANGED <<text, synced, online, wire, replies>>
     ELSE Changes(IF search.scope # None THEN [search EXCEPT !.scope = None]
                  ELSE [search EXCEPT !.scope = search.candidate, !.scopeText = text])

\* reset_search_scope: another page of the file arrives, and a review is given up.  What was
\* typed since the last edit that was accepted stays, in conflict with the page.
ResetScope ==
  /\ Input /\ "others" \in Ops /\ online
  /\ \E page \in Texts :
       LET conflict == ~synced /\ page # text
           t == IF conflict THEN text ELSE page
       IN
       /\ text' = t /\ synced' = ~conflict
       /\ search' = Refresh([search EXCEPT !.scope = None, !.candidate = None, !.review = None], t)
  /\ UNCHANGED <<online, wire, replies>>

\* set_search_options in another tab, and configure_search in this one.
ConfigureSearch ==
  /\ Input /\ "options" \in Ops
  /\ LET s == [search EXCEPT !.sensitive = ~@] IN
     search' = IF Quiet THEN Refresh(s, text) ELSE s
  /\ UNCHANGED <<text, synced, online, wire, replies>>

\* Typing; the editor is disabled during a review.
Type ==
  /\ Input /\ Quiet
  /\ \E t \in Texts \ {text} : text' = t /\ search' = Refresh(search, t)
  /\ synced' = FALSE /\ UNCHANGED <<online, wire, replies>>

\* set_editor_text_and_selection: a text that comes from the daemon.
SetText ==
  /\ Input /\ "others" \in Ops /\ online
  /\ \E t \in Texts \ {text} : text' = t /\ search' = Refresh(search, t)
  /\ synced' = TRUE /\ UNCHANGED <<online, wire, replies>>

\* navigate_search.
Navigate(back) ==
  LET n == Len(search.matches) IN
  /\ Input /\ Quiet /\ search.of = text /\ n > 1
  /\ search' = [search EXCEPT !.current = IF back THEN ((@ + n - 2) % n) + 1 ELSE (@ % n) + 1]
  /\ UNCHANGED <<text, synced, online, wire, replies>>

\* replace_search.
Replace(all) ==
  /\ Input /\ Quiet /\ CanReplace
  /\ Becomes(Commit(search, ApplyMatches(search.of, IF all THEN search.matches
                                               ELSE <<search.matches[search.current]>>)))
  /\ UNCHANGED <<online, wire, replies>>

\* start_search_review and review_decision.
StartReview ==
  /\ Input /\ Quiet /\ CanReplace
  /\ search' = [search EXCEPT !.review = NewReview(search.of, search.matches, search.current)]
  /\ UNCHANGED <<text, synced, online, wire, replies>>

Decide(review) ==
  /\ ~Quiet
  /\ LET s == [search EXCEPT !.review = review] IN
     Becomes(IF IsDone(s.review) THEN EndReview(s) ELSE Stays(s))
  /\ UNCHANGED <<online, wire, replies, inputs>>

\* q, saving, closing the toolbar, the tab or the window, leaving the workspace.
Finish == ~Quiet /\ Becomes(EndReview(search)) /\ UNCHANGED <<online, wire, replies, inputs>>

\* clear_search: a review ends, the query is emptied, and nothing is awaited any more.
Cleared(s) ==
  [s EXCEPT !.asked = FALSE, !.pending = None, !.timer = FALSE, !.matches = <<>>, !.current = 0,
            !.error = FALSE]
ClearSearch ==
  /\ Input
  /\ LET tab == EndReview(search) IN Becomes([tab EXCEPT !.search = Cleared(@)])
  /\ UNCHANGED <<online, wire, replies>>

-----------------------------------------------------------------------------
(* Requests and answers.                                                     *)

\* The edit is accepted.
Acknowledge == online /\ ~synced /\ synced' = TRUE /\ UNCHANGED <<text, online, search, wire, replies, inputs>>

\* send_search, when the timer ends.
NewId == CHOOSE n \in 1..(Len(wire) + Len(replies) + 1) :
  (\A i \in DOMAIN wire : wire[i].id # n) /\ \A i \in DOMAIN replies : replies[i].id # n
BufferSearch ==
  [id |-> NewId, text |-> text, sensitive |-> search.sensitive, with |-> search.with,
   scope |-> search.scope]
SendSearch ==
  /\ search.timer
  /\ IF online
     THEN /\ search' = [search EXCEPT !.timer = FALSE, !.error = FALSE,
                                      !.pending = [id |-> NewId, text |-> text]]
          /\ wire' = Append(wire, BufferSearch)
     ELSE search' = [search EXCEPT !.timer = FALSE, !.error = TRUE] /\ UNCHANGED wire
  /\ UNCHANGED <<text, synced, online, replies, inputs>>

Serve ==
  /\ wire # <<>> /\ wire' = Tail(wire) /\ replies' = Append(replies, Preview(Head(wire)))
  /\ UNCHANGED <<text, synced, online, search, inputs>>

\* apply_search_result: the answer awaited, if the text is still the one that was sent.
Awaited(m) == search.pending # None /\ search.pending.id = m.id

ApplyResult(m) ==
  IF search.pending.text # text THEN search' = Refresh(search, text)
  ELSE \E n \in IF m.matches = <<>> THEN {0} ELSE DOMAIN m.matches :
    search' = [search EXCEPT !.pending = None, !.of = text, !.error = m.error, !.capped = m.capped,
                             !.matches = m.matches, !.current = n]

Receive ==
  LET m == Head(replies) IN
  /\ replies # <<>> /\ replies' = Tail(replies)
  /\ IF Awaited(m) THEN ApplyResult(m) ELSE UNCHANGED search
  /\ UNCHANGED <<text, synced, online, wire, inputs>>

\* detach_transport, and reconnect: the search is left as it is.
Drop ==
  /\ Input /\ "drop" \in Ops /\ online
  /\ online' = FALSE /\ synced' = FALSE /\ wire' = <<>> /\ replies' = <<>> /\ UNCHANGED <<text, search>>
Reconnect == ~online /\ online' = TRUE /\ UNCHANGED <<text, synced, search, wire, replies, inputs>>

Next ==
  \/ \E start \in 0..MaxLen, len \in 0..MaxLen : OpenSearch(start, len)
  \/ Ask \/ ToggleCase \/ ResetOptions \/ ToggleSelection \/ ResetScope \/ ConfigureSearch
  \/ \E n \in Replacements : ReplaceWith(n)
  \/ Type \/ SetText \/ \E back \in BOOLEAN : Navigate(back)
  \/ \E all \in BOOLEAN : Replace(all)
  \/ StartReview \/ Decide(Accept(search.review)) \/ Decide(Skip(search.review))
  \/ Decide(AcceptAll(search.review)) \/ Finish \/ ClearSearch
  \/ Acknowledge \/ SendSearch \/ Serve \/ Receive \/ Drop \/ Reconnect

Spec == Init /\ [][Next]_vars

-----------------------------------------------------------------------------
(* Properties.                                                               *)

\* Reference: a text in which the letters at some places are replaced, put together letter by letter.
Rebuilt(t, places, with) ==
  FoldLeft(LAMBDA out, n : out \o IF n \in places THEN With(with) ELSE <<t[n]>>,
           <<>>, [n \in 1..Len(t) |-> n])
Places(ms) == {ms[n].end : n \in DOMAIN ms}
InScope(n) ==
  search.scope = None \/ (n > search.scope.start /\ n <= search.scope.start + search.scope.len)

\* Replacing is offered only for what the fields, options and scope of that moment find in the
\* text of that moment, all of it, and replaces that (search_can_replace, apply_search_result).
OfferIsCurrent ==
  CanReplace /\ Quiet =>
    /\ Places(search.matches) =
         {n \in 1..Len(text) : InScope(n) /\ IsMatch(text[n], search.sensitive)}
    /\ ApplyMatches(text, search.matches) = Rebuilt(text, Places(search.matches), search.with)

\* When a review ends, what the user accepted in it is replaced and nothing else is, unless
\* an error is shown, the text would grow too long, or another page is shown (review_decision,
\* checkpoint_search_review, open_search, clear_search).
ReviewEnds ==
  search.review # None /\ search'.review = None /\ ~search'.error /\ ~ResetScope =>
    \E accepted \in SUBSET DOMAIN search.review.matches :
      LET t == Rebuilt(text, Places([n \in accepted |-> search.review.matches[n]]), search.with) IN
      /\ search.review.accepted \subseteq accepted
      /\ text' = IF Len(t) <= MaxLen THEN t ELSE text
AcceptedIsReplaced == [][ReviewEnds]_vars

\* What is offered is what the text holds, and what was accepted is what is replaced.
Safety == []OfferIsCurrent /\ AcceptedIsReplaced
=============================================================================
