------------------------------ MODULE LspRequests ------------------------------
(***************************************************************************)
(* Completion, hover, signature help and navigation: the requests an       *)
(* editor tab makes (gui/pane.rs, gui/lsp.rs), the socket that numbers     *)
(* them (server.rs), and the editor worker that asks the language servers, *)
(* collects their answers and sends one result (editor_worker.rs).  Every  *)
(* party may find the answer out of date.                                  *)
(*                                                                         *)
(* A text is a member of a small set, so that typing can bring an earlier  *)
(* text back; an answer carries the text the server saw ("about").         *)
(***************************************************************************)
EXTENDS Naturals, FiniteSets, Sequences, SequencesExt

CONSTANTS
    Features,    \* of which "hover" is asked for any place, the others for the caret
    Servers,     \* the language servers of the buffer
    Texts, Carets,
    None,        \* the absent value of every Option
    Ops,         \* what happens in this instance, see OpNames
    Limit,       \* requests a socket may have on their way (64)
    MaxRequests, \* bound: requests
    MaxInputs    \* bound: changes of the text and moves of the caret

\* Typing, moves of the caret, other windows and programs that change the buffer; servers
\* that answer late, providers that give up, a socket that misses results.
OpNames == {"type", "move", "others", "late", "giveup", "lag"}

VARIABLES
    gui,        \* the tab: text, caret, what the daemon acknowledged, the edit in flight
    pending,    \* pending_lsp
    desired,    \* LspRequestTracker: the request of each feature that counts
    got,        \* answers received by a provider that has not gone on yet
    shown,      \* history: the last answer presented, with what the tab showed
    toDaemon, toGui, toWorker,   \* frames of the socket, commands of the worker
    map,        \* lsp_request_map of the socket
    buffer,     \* revision and text of the daemon's buffer
    groups,     \* aggregates: the answers of each request still waited for
    waiting,    \* pending of the worker: what the servers have to answer
    results,    \* the broadcast channel of results
    asked, inputs   \* how much has happened

vars == <<gui, pending, desired, got, shown, toDaemon, toGui, toWorker, map, buffer,
          groups, waiting, results, asked, inputs>>
client == <<gui, pending, desired, got, shown, asked, inputs>>
worker == <<buffer, groups, waiting, results>>

Init ==
    \E t \in Texts, c \in Carets :
    /\ gui = [text |-> t, caret |-> c, base |-> t, rev |-> 1, flight |-> None, stuck |-> FALSE]
    /\ buffer = [rev |-> 1, text |-> t]
    /\ pending = {} /\ desired = [f \in Features |-> None]
    /\ got = {} /\ shown = None
    /\ toDaemon = <<>> /\ toGui = <<>> /\ toWorker = <<>> /\ map = {}
    /\ groups = <<>> /\ waiting = {} /\ results = <<>>
    /\ asked = 0 /\ inputs = 0

Does(op) == op \in Ops /\ inputs < MaxInputs /\ inputs' = inputs + 1

ById(S) == SetToSortSeq(S, LAMBDA a, b : a.id < b.id)

-----------------------------------------------------------------------------
\* The tab.

CancelFrames(S) == LET sent == ById({p \in S : p.sent})
                   IN  [i \in DOMAIN sent |-> [op |-> "cancel", id |-> sent[i].id]]

\* The caret moves with the text except for hovering.
AtCaret(p, caret) == p.feature = "hover" \/ p.offset = caret

\* flush_pending and send_pending_lsp: the draft goes first, and the requests that are
\* about what the daemon has acknowledged.
Flushed(g, ps) ==
    IF g.stuck \/ g.flight # None
    THEN [gui |-> g, pending |-> ps, frames |-> <<>>]
    ELSE IF g.text # g.base
    THEN [gui |-> [g EXCEPT !.flight = g.text], pending |-> ps,
          frames |-> <<[op |-> "edit", rev |-> g.rev, text |-> g.text]>>]
    ELSE LET kept  == {p \in ps : p.text = g.text /\ p.heard}
             fresh == ById({p \in kept : ~p.sent})
         IN  [gui |-> g,
              pending |-> {IF p.sent THEN p ELSE [p EXCEPT !.sent = TRUE, !.rev = g.rev] : p \in kept},
              frames |-> [i \in DOMAIN fresh |-> [op |-> "ask", id |-> fresh[i].id, rev |-> g.rev,
                                                  feature |-> fresh[i].feature]]]

Flushes(g, ps, before) ==
    LET f == Flushed(g, ps)
    IN  gui' = f.gui /\ pending' = f.pending /\ toDaemon' = toDaemon \o before \o f.frames

\* queue_lsp_target: an earlier request of the feature is cancelled.
Ask(f, offset) ==
    LET same == {p \in pending : p.feature = f}
        new  == [id |-> asked + 1, feature |-> f, text |-> gui.text, offset |-> offset,
                 rev |-> gui.rev, sent |-> FALSE, heard |-> TRUE]
    IN  /\ asked < MaxRequests /\ ~gui.stuck /\ AtCaret(new, gui.caret)
        /\ asked' = asked + 1
        /\ desired' = [desired EXCEPT ![f] = asked + 1]
        /\ Flushes(gui, (pending \ same) \cup {new}, CancelFrames(same))
        /\ UNCHANGED <<got, shown, toGui, toWorker, map, worker, inputs>>

\* on_lsp_text_change, and the observer of the caret.
Typed(text, caret) ==
    LET kept == {p \in pending : p.text = text /\ AtCaret(p, caret)}
    IN  /\ gui' = [gui EXCEPT !.text = text, !.caret = caret]
        /\ pending' = kept
        /\ desired' = [f \in Features |->
              IF \E p \in kept : p.feature = f THEN (CHOOSE p \in kept : p.feature = f).id ELSE None]
        /\ toDaemon' = toDaemon \o CancelFrames(pending \ kept)

Type(text, caret) ==
    /\ Does("type") /\ text # gui.text
    /\ Typed(text, caret)
    /\ UNCHANGED <<got, shown, toGui, toWorker, map, worker, asked>>

Move(caret) ==
    LET kept == {p \in pending : AtCaret(p, caret)}
    IN  /\ Does("move") /\ caret # gui.caret
        /\ gui' = [gui EXCEPT !.caret = caret]
        /\ pending' = kept
        /\ desired' = [f \in Features |->
              IF \E p \in pending \ kept : p.feature = f THEN None ELSE desired[f]]
        /\ toDaemon' = toDaemon \o CancelFrames(pending \ kept)
        /\ UNCHANGED <<got, shown, toGui, toWorker, map, worker, asked>>

\* The timer of schedule_edit_flush.
Flush ==
    /\ gui.text # gui.base /\ gui.flight = None /\ ~gui.stuck
    /\ Flushes(gui, pending, <<>>)
    /\ UNCHANGED <<desired, got, shown, toGui, toWorker, map, worker, asked, inputs>>

\* The timer of seven seconds.
TimeOut(p) ==
    /\ "late" \in Ops
    /\ pending' = pending \ {p}
    /\ toDaemon' = toDaemon \o CancelFrames({p})
    /\ UNCHANGED <<gui, desired, got, shown, toGui, toWorker, map, worker, asked, inputs>>

\* REQUEST_TIMEOUT: the provider goes on without an answer.
GiveUp(p) ==
    /\ "giveup" \in Ops /\ p.heard
    /\ pending' = (pending \ {p}) \cup {[p EXCEPT !.heard = FALSE]}
    /\ UNCHANGED <<gui, desired, got, shown, toDaemon, toGui, toWorker, map, worker, asked, inputs>>

\* apply_lsp_result: what makes an answer out of date.
Stale(p, m) == \/ m.stale \/ m.rev # gui.rev \/ p.rev # m.rev
               \/ p.text # gui.text \/ ~AtCaret(p, gui.caret)

OnResult ==
    /\ toGui # <<>> /\ Head(toGui).op = "result" /\ toGui' = Tail(toGui)
    /\ LET m  == Head(toGui)
           me == {p \in pending : p.id = m.id}
       IN  /\ pending' = pending \ me
           /\ got' = got \cup {[id |-> p.id, feature |-> p.feature, text |-> p.text, rev |-> m.rev,
                                offset |-> p.offset, about |-> m.about, stale |-> Stale(p, m)] :
                                  p \in {q \in me : q.heard}}
    /\ UNCHANGED <<gui, desired, shown, toDaemon, toWorker, map, worker, asked, inputs>>

\* Mutant: the provider presents what it got, if the revision has not moved.
MatchesRevision(r) == ~r.stale /\ r.rev = gui.rev

\* lsp_result_matches.
Matches(r) == /\ ~r.stale /\ r.rev = gui.rev /\ desired[r.feature] = r.id
              /\ ~gui.stuck /\ r.text = gui.text /\ AtCaret(r, gui.caret)

\* The provider goes on; the popup shows what it returns.
Present(r) ==
    /\ got' = got \ {r}
    /\ shown' = IF Matches(r) /\ r.about # None THEN r ELSE shown
    /\ UNCHANGED <<gui, pending, desired, toDaemon, toGui, toWorker, map, worker, asked, inputs>>

\* apply_edit_result: the next draft, or the requests, follow; EditorPanel has the rest.
OnEdited ==
    /\ toGui # <<>> /\ Head(toGui).op = "edited" /\ toGui' = Tail(toGui)
    /\ LET m == Head(toGui)
       IN  IF m.ok \/ m.text = gui.text
           THEN Flushes([gui EXCEPT !.flight = None, !.base = m.text, !.rev = m.rev], pending, <<>>)
           ELSE /\ gui' = [gui EXCEPT !.flight = None, !.rev = m.rev, !.stuck = TRUE]
                /\ UNCHANGED <<pending, toDaemon>>
    /\ UNCHANGED <<desired, got, shown, toWorker, map, worker, asked, inputs>>

\* The tick of 750 ms.
Poll ==
    /\ buffer.rev > gui.rev /\ toDaemon = <<>> /\ toGui = <<>> /\ gui.flight = None
    /\ toDaemon' = <<[op |-> "poll"]>>
    /\ UNCHANGED <<client, toGui, toWorker, map, worker>>

\* set_lsp_state.  The widget does not report a text that is set.
OnState ==
    /\ toGui # <<>> /\ Head(toGui).op = "state" /\ toGui' = Tail(toGui)
    /\ LET m == Head(toGui)
       IN  gui' = IF gui.flight # None \/ m.rev <= gui.rev THEN gui
                  ELSE IF gui.text \in {gui.base, m.text}
                  THEN [gui EXCEPT !.text = m.text, !.base = m.text, !.rev = m.rev]
                  ELSE IF m.text = gui.base THEN [gui EXCEPT !.rev = m.rev]
                  ELSE [gui EXCEPT !.rev = m.rev, !.stuck = TRUE]
    /\ UNCHANGED <<pending, desired, got, shown, toDaemon, toWorker, map, worker, asked, inputs>>

-----------------------------------------------------------------------------
\* The socket.  It waits for the worker with an edit and a poll, not with a request.

Socket ==
    /\ toDaemon # <<>>
    /\ toDaemon' = Tail(toDaemon)
    /\ LET m == Head(toDaemon)
       IN  \/ /\ m.op = "ask"
              /\ IF Cardinality(map) < Limit
                 THEN map' = map \cup {m.id} /\ toWorker' = Append(toWorker, m)
                 ELSE UNCHANGED <<map, toWorker>>
              /\ UNCHANGED <<toGui, buffer>>
           \/ /\ m.op = "cancel"
              /\ map' = map \ {m.id}
              /\ toWorker' = IF m.id \in map THEN Append(toWorker, m) ELSE toWorker
              /\ UNCHANGED <<toGui, buffer>>
           \/ /\ m.op = "edit" /\ toWorker = <<>>
              /\ buffer' = IF m.rev = buffer.rev THEN [rev |-> buffer.rev + 1, text |-> m.text] ELSE buffer
              /\ toGui' = Append(toGui, [op |-> "edited", ok |-> m.rev = buffer.rev] @@ buffer')
              /\ UNCHANGED <<map, toWorker>>
           \/ /\ m.op = "poll" /\ toWorker = <<>>
              /\ toGui' = Append(toGui, [op |-> "state"] @@ buffer)
              /\ UNCHANGED <<map, toWorker, buffer>>
    /\ UNCHANGED <<client, groups, waiting, results>>

\* A result is sent on if its request has not been cancelled.
Forward ==
    /\ results # <<>>
    /\ results' = Tail(results)
    /\ LET m == Head(results)
       IN  /\ map' = map \ {m.id}
           /\ toGui' = IF m.id \in map THEN Append(toGui, m) ELSE toGui
    /\ UNCHANGED <<client, toDaemon, toWorker, buffer, groups, waiting>>

\* RecvError::Lagged: cancel_socket_lsp.
Lag ==
    /\ "lag" \in Ops /\ results # <<>>
    /\ results' = Tail(results)
    /\ map' = {}
    /\ toWorker' = toWorker \o [i \in 1..Cardinality(map) |->
                                  [op |-> "cancel", id |-> SetToSortSeq(map, <)[i]]]
    /\ UNCHANGED <<client, toDaemon, toGui, buffer, groups, waiting>>

-----------------------------------------------------------------------------
\* The worker.

Result(id, about, stale) ==
    [op |-> "result", id |-> id, rev |-> buffer.rev, about |-> about, stale |-> stale]

Dropped(ids) == [id \in DOMAIN groups \ ids |-> groups[id]]
Current(id)  == groups[id].rev = buffer.rev

\* cancel_lsp_request: its servers are told, and not waited for.
CancelRequest(id) ==
    /\ groups' = Dropped({id})
    /\ waiting' = IF id \in DOMAIN groups THEN {w \in waiting : w.id # id} ELSE waiting

\* A request about a revision that is gone.
Refuse(m) ==
    /\ m.rev # buffer.rev
    /\ results' = Append(results, [Result(m.id, None, TRUE) EXCEPT !.rev = m.rev])
    /\ UNCHANGED <<groups, waiting>>

\* No server is eligible: the words of the buffer, at once.
Words(m) ==
    /\ m.rev = buffer.rev
    /\ results' = Append(results, Result(m.id, buffer.text, FALSE))
    /\ UNCHANGED <<groups, waiting>>

ToServers(m, eligible) ==
    /\ m.rev = buffer.rev /\ eligible # {}
    /\ groups' = (m.id :> [rev |-> m.rev, about |-> buffer.text, left |-> Cardinality(eligible)]) @@ groups
    /\ waiting' = waiting \cup [id : {m.id}, server : eligible]
    /\ UNCHANGED results

\* begin_lsp_request.  Which servers are eligible depends on what they have announced.
Begin(m) == Refuse(m) \/ Words(m) \/ \E eligible \in SUBSET Servers : ToServers(m, eligible)

Work ==
    /\ toWorker # <<>>
    /\ toWorker' = Tail(toWorker)
    /\ LET m == Head(toWorker)
       IN  IF m.op = "ask" THEN Begin(m) ELSE CancelRequest(m.id) /\ UNCHANGED results
    /\ UNCHANGED <<client, toDaemon, toGui, map, buffer>>

\* finish_lsp_aggregate.
Finished(id) == Result(id, IF Current(id) THEN groups[id].about ELSE None, ~Current(id))

\* Mutant: requests that the buffer has left behind are cancelled without a result.
SweepSilently(gs, ws, rs) ==
    LET old == {id \in DOMAIN gs : gs[id].rev # buffer.rev}
    IN  /\ groups' = [id \in DOMAIN gs \ old |-> gs[id]]
        /\ waiting' = {w \in ws : w.id \notin old}
        /\ results' = rs

\* cancel_stale_lsp_requests ends every tick of the worker.
Sweep(gs, ws, rs) ==
    LET old == {id \in DOMAIN gs : gs[id].rev # buffer.rev}
        seq == SetToSortSeq(old, <)
    IN  /\ groups' = [id \in DOMAIN gs \ old |-> gs[id]]
        /\ waiting' = {w \in ws : w.id \notin old}
        /\ results' = rs \o [i \in DOMAIN seq |-> Result(seq[i], None, TRUE)]

\* poll_lsp_bridge: the answer of a server.  With a revision that has moved nothing more is
\* waited for, though the other servers stay in pending until they answer.
Answer(w) ==
    /\ LET ends == w.id \in DOMAIN groups /\ (~Current(w.id) \/ groups[w.id].left = 1)
       IN  IF w.id \in DOMAIN groups
           THEN Sweep(IF ends THEN Dropped({w.id}) ELSE [groups EXCEPT ![w.id].left = @ - 1],
                      waiting \ {w}, IF ends THEN Append(results, Finished(w.id)) ELSE results)
           ELSE Sweep(groups, waiting \ {w}, results)
    /\ UNCHANGED <<client, toDaemon, toGui, toWorker, map, buffer>>

\* A tick without an answer.
Tick ==
    /\ \E id \in DOMAIN groups : ~Current(id)
    /\ Sweep(groups, waiting, results)
    /\ UNCHANGED <<client, toDaemon, toGui, toWorker, map, buffer>>

\* Mutant: the deadline frees the answers and forgets the result.
ExpireSilently(id) ==
    /\ Sweep(Dropped({id}), {w \in waiting : w.id # id}, results)
    /\ UNCHANGED <<client, toDaemon, toGui, toWorker, map, buffer>>

\* expire_lsp_aggregates: after five seconds, with the answers there are.
Expire(id) ==
    /\ Sweep(Dropped({id}), {w \in waiting : w.id # id}, Append(results, Finished(id)))
    /\ UNCHANGED <<client, toDaemon, toGui, toWorker, map, buffer>>

\* Another window, Fresh itself or another program changes the buffer.
Others(text) ==
    /\ Does("others") /\ text # buffer.text
    /\ buffer' = [rev |-> buffer.rev + 1, text |-> text]
    /\ UNCHANGED <<gui, pending, desired, got, shown, asked, toDaemon, toGui, toWorker, map,
                   groups, waiting, results>>

-----------------------------------------------------------------------------
Ends == \E id \in DOMAIN groups : Expire(id)

Next ==
    \/ \E f \in Features, c \in Carets : Ask(f, c)
    \/ \E t \in Texts, c \in Carets : Type(t, c)
    \/ \E c \in Carets : Move(c)
    \/ Flush \/ OnResult \/ OnEdited \/ OnState \/ Poll
    \/ \E p \in pending : TimeOut(p) \/ GiveUp(p)
    \/ \E r \in got : Present(r)
    \/ Socket \/ Forward \/ Lag \/ Work \/ Ends \/ Tick
    \/ \E w \in waiting : Answer(w)
    \/ \E t \in Texts : Others(t)

Spec == Init /\ [][Next]_vars

\* The loops of the client task, the socket and the worker, and the worker's clock.
Fairness == /\ WF_vars(OnResult) /\ WF_vars(OnEdited) /\ WF_vars(OnState) /\ WF_vars(Socket)
            /\ WF_vars(Forward) /\ WF_vars(Work) /\ WF_vars(Ends)
FairSpec == Spec /\ Fairness

-----------------------------------------------------------------------------
\* Popups are about what is on the screen: the answer that is presented was given for the
\* text the tab shows and, unless it is that of hovering, for its caret, and no newer
\* request of its feature is on its way, whatever was typed, moved or changed elsewhere
\* while the answer went through server, worker, socket, queue and provider.
PresentedIsCurrent ==
    [][shown' # shown => /\ shown'.about = gui.text
                         /\ AtCaret(shown', gui.caret)
                         /\ \A p \in pending : p.feature = shown'.feature => p.id < shown'.id]_vars

Worked(id) == \/ id \in DOMAIN groups
              \/ \E i \in DOMAIN toWorker : toWorker[i].op = "ask" /\ toWorker[i].id = id
              \/ \E i \in DOMAIN results : results[i].id = id

\* No request of the socket is forgotten: each one that counts against its limit is still
\* with the worker or has its result on the way, so the limit is never used up for good.
NoneForgotten == \A id \in map : Worked(id)

\* Every request leaves the socket again, answered or given up, whatever the servers do.
RequestsEnd == \A id \in 1..MaxRequests : id \in map ~> id \notin map

\* Answers are about what is on the screen, and none is forgotten on the way.
Safety == []NoneForgotten /\ PresentedIsCurrent
=============================================================================
