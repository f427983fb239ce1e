---------------------------- MODULE WorkspaceEdits ----------------------------
(***************************************************************************)
(* Edits of a language server that change several files: how the worker    *)
(* offers one, hands it out for review and applies it                      *)
(* (editor_worker/workspace_edits.rs), and the windows that ask, review,   *)
(* apply or dismiss (gui/workspace_edits.rs).                              *)
(*                                                                         *)
(* A text is the number of the input that made it; the text an edit makes  *)
(* of its targets has the number of the edit.  The files are changed in    *)
(* one step: FileTransaction has the calls.  Typing reaches the daemon at  *)
(* once: EditorPanel has the way.                                          *)
(***************************************************************************)
EXTENDS Naturals, FiniteSets, Sequences

CONSTANTS
    Windows,     \* the sockets, each a window
    Open, Shut,  \* the files of the edits, with a buffer and without
    Spans,       \* which files an edit may change
    None,        \* the absent value of every Option
    Ops,         \* what happens in this instance, see OpNames
    MaxOffers,   \* previews the worker keeps (32)
    MaxInputs    \* bound: what users, servers and other programs do

\* Server edits nobody asked for, typing, other programs' writes, previews that expire
\* or are dismissed, drafts, files and buffers that cannot be changed, a daemon that ends.
OpNames == {"serve", "type", "write", "expire", "dismiss", "fail", "crash"}

Files == Open \cup Shut

EditsAssumption ==
    /\ Open \cap Shut = {} /\ Spans \subseteq SUBSET Files \ {{}}
    /\ None \notin Windows \cup Nat /\ Ops \subseteq OpNames
    /\ MaxOffers \in Nat \ {0} /\ MaxInputs \in Nat

VARIABLES
    disk,       \* the text of every file
    buffer,     \* TrackedBuffer of the open ones
    draft,      \* the recovery copies
    asked,      \* LSP requests without their answer
    offers,     \* WorkspaceEdits.proposals
    job,        \* the apply the worker is at
    gui,        \* WorkspaceEdits of every window
    view,       \* revision and text its panels show
    toDaemon, toWindow,   \* the frames of every socket
    inputs      \* what has been done, also the number of the next text

vars == <<disk, buffer, draft, asked, offers, job, gui, view, toDaemon, toWindow, inputs>>
daemon == <<disk, buffer, draft, asked, offers, job>>

Opened(text) == [rev |-> 0, text |-> text]

\* request: the LSP or prepare request that counts; applying: the apply that does.
NewGui == [mode |-> "closed", source |-> None, rev |-> 0, text |-> 0, request |-> None,
           preview |-> None, applying |-> None]

Init ==
    /\ disk = [f \in Files |-> 0]
    /\ buffer = [f \in Open |-> Opened(0)]
    /\ draft = [f \in Open |-> None]
    /\ asked = {} /\ offers = {} /\ job = None
    /\ gui = [w \in Windows |-> NewGui]
    /\ view = [w \in Windows |-> buffer]
    /\ toDaemon = [w \in Windows |-> <<>>]
    /\ toWindow = [w \in Windows |-> <<>>]
    /\ inputs = 0

Does(op) == op \in Ops /\ inputs < MaxInputs /\ inputs' = inputs + 1

Sent(w, m)     == [toDaemon EXCEPT ![w] = Append(@, m)]
Answered(w, m) == [toWindow EXCEPT ![w] = Append(@, m)]
Told(m)        == [w \in Windows |-> Append(toWindow[w], m)]

-----------------------------------------------------------------------------
\* Windows.

CancelFrame(preview) == [op |-> "cancel", token |-> preview.token, source |-> preview.source]

\* dismiss: the frames it sends.
Dismissal(w) == IF gui[w].preview = None THEN <<>> ELSE <<CancelFrame(gui[w].preview)>>

\* start and send_rename: what was open is dismissed, and the server is asked.
Ask(w, f) ==
    /\ inputs < MaxInputs /\ inputs' = inputs + 1
    /\ gui' = [gui EXCEPT ![w] = [NewGui EXCEPT !.mode = "asking", !.source = f,
                  !.rev = view[w][f].rev, !.text = view[w][f].text, !.request = inputs + 1]]
    /\ toDaemon' = [toDaemon EXCEPT ![w] = @ \o Dismissal(w) \o
          <<[op |-> "ask", id |-> inputs + 1, source |-> f, rev |-> view[w][f].rev]>>]
    /\ UNCHANGED <<daemon, view, toWindow>>

\* cancel: Escape, another tab, a switch of workspaces.
Dismiss(w) ==
    /\ Does("dismiss") /\ gui[w].mode # "closed"
    /\ gui' = [gui EXCEPT ![w] = NewGui]
    /\ toDaemon' = [toDaemon EXCEPT ![w] = @ \o Dismissal(w)]
    /\ UNCHANGED <<daemon, view, toWindow>>

Shows(w, f, rev, text) == view[w][f] = [rev |-> rev, text |-> text]

\* validate_preview.
Valid(w, preview) ==
    /\ \A f \in DOMAIN preview.targets \cap Open :
          Shows(w, f, preview.targets[f].rev, preview.targets[f].before)
    /\ Shows(w, gui[w].source, gui[w].rev, gui[w].text)

\* apply.
Apply(w) ==
    /\ inputs < MaxInputs /\ inputs' = inputs + 1
    /\ gui[w].preview # None /\ gui[w].applying = None /\ Valid(w, gui[w].preview)
    /\ gui' = [gui EXCEPT ![w].applying = inputs + 1]
    /\ toDaemon' = Sent(w, [op |-> "apply", id |-> inputs + 1, token |-> gui[w].preview.token,
                            source |-> gui[w].preview.source])
    /\ UNCHANGED <<daemon, view, toWindow>>

Take(w, op) == /\ toWindow[w] # <<>> /\ Head(toWindow[w]).op = op
               /\ toWindow' = [toWindow EXCEPT ![w] = Tail(@)]

\* handle_lsp_result and prepare: the edit of a reply is claimed, unless the text has changed.
OnResult(w) ==
    /\ Take(w, "result")
    /\ LET m == Head(toWindow[w])
       IN  IF gui[w].mode = "asking" /\ gui[w].request = m.id /\ ~m.stale
              /\ Shows(w, gui[w].source, m.rev, gui[w].text)
           THEN /\ gui' = [gui EXCEPT ![w].mode = "preview", ![w].rev = m.rev]
                /\ toDaemon' = Sent(w, [op |-> "claim", id |-> m.id, edit |-> m.edit,
                                        source |-> gui[w].source, rev |-> m.rev])
           ELSE UNCHANGED <<gui, toDaemon>>
    /\ UNCHANGED <<daemon, view, inputs>>

\* preview.  A server's own edit has no request (None): it is shown when no other is.
OnPreview(w) ==
    /\ Take(w, "preview")
    /\ LET m  == Head(toWindow[w])
           me == gui[w]
           pushed == m.id = None
           refused == IF pushed THEN me.applying # None \/ me.preview # None
                                     \/ (me.mode = "preview" /\ me.request # None)
                      ELSE me.mode # "preview" \/ me.request # m.id \/ me.source # m.preview.source
       IN  IF refused
           THEN toDaemon' = Sent(w, CancelFrame(m.preview)) /\ UNCHANGED gui
           ELSE /\ gui' = [gui EXCEPT ![w] =
                     IF pushed
                     THEN [NewGui EXCEPT !.mode = "preview", !.source = m.preview.source,
                              !.rev = view[w][m.preview.source].rev,
                              !.text = view[w][m.preview.source].text,
                              !.preview = m.preview]
                     ELSE [me EXCEPT !.preview = m.preview]]
                /\ UNCHANGED toDaemon
    /\ UNCHANGED <<daemon, view, inputs>>

\* Panels take the text of an applied edit, unless they have a later one.
Refreshed(w, updates) ==
    [f \in Open |-> IF f \in DOMAIN updates /\ updates[f].rev > view[w][f].rev THEN updates[f]
                    ELSE view[w][f]]

\* applied: to whoever asked, and to all (None).
OnApplied(w) ==
    /\ Take(w, "applied")
    /\ LET m == Head(toWindow[w])
       IN  /\ view' = [view EXCEPT ![w] = Refreshed(w, m.updates)]
           /\ gui' = IF gui[w].applying # None /\ gui[w].applying = m.id
                     THEN [gui EXCEPT ![w] = NewGui] ELSE gui
    /\ UNCHANGED <<daemon, toDaemon, inputs>>

\* Mutant: an error is shown, and the button stays.
FailedStill(w) ==
    /\ Take(w, "error")
    /\ UNCHANGED <<daemon, gui, toDaemon, view, inputs>>

\* failed: an error that names a request of this window, or any about workspace edits.
Failed(w) ==
    /\ Take(w, "error")
    /\ IF gui[w].mode = "preview"
       THEN /\ gui' = [gui EXCEPT ![w].preview = None, ![w].applying = None]
            /\ toDaemon' = [toDaemon EXCEPT ![w] = @ \o Dismissal(w)]
       ELSE UNCHANGED <<gui, toDaemon>>
    /\ UNCHANGED <<daemon, view, inputs>>

\* Panels are told of what others typed.
Poll(w, f) ==
    /\ view[w][f].rev < buffer[f].rev /\ job = None
    /\ view' = [view EXCEPT ![w][f] = buffer[f]]
    /\ UNCHANGED <<daemon, gui, toDaemon, toWindow, inputs>>

-----------------------------------------------------------------------------
\* The worker takes one command at a time.
Idle == job = None

Receive(w, op) == /\ Idle /\ toDaemon[w] # <<>> /\ Head(toDaemon[w]).op = op
                  /\ toDaemon' = [toDaemon EXCEPT ![w] = Tail(@)]

\* begin_lsp_request, with cancel_source_owner.
OnAsk(w) ==
    /\ Receive(w, "ask")
    /\ LET m == Head(toDaemon[w])
       IN  /\ offers' = {p \in offers : p.source # m.source \/ p.owner # w}
           /\ asked' = asked \cup {[id |-> m.id, owner |-> w, source |-> m.source, rev |-> m.rev,
                                    revisions |-> [f \in Open |-> buffer[f].rev]]}
    /\ UNCHANGED <<disk, buffer, draft, job, gui, view, toWindow, inputs>>

\* offer: nothing is kept of an edit whose source or targets have moved on.
Offerable(source, rev, revisions, span) ==
    /\ Cardinality(offers) < MaxOffers
    /\ buffer[source].rev = rev
    /\ \A f \in span \cap Open : revisions[f] = buffer[f].rev

Offer(token, owner, source, rev, span) ==
    [token |-> token, owner |-> owner, source |-> source, rev |-> rev,
     targets |-> [f \in span |-> [disk |-> disk[f],
                                  before |-> IF f \in Open THEN buffer[f].text ELSE disk[f],
                                  rev |-> IF f \in Open THEN buffer[f].rev ELSE None]]]

\* The language server answers.
Reply(a, span) ==
    /\ Idle /\ a \in asked /\ asked' = asked \ {a}
    /\ inputs < MaxInputs /\ inputs' = inputs + 1
    /\ offers' = IF Offerable(a.source, a.rev, a.revisions, span)
                 THEN offers \cup {Offer(inputs + 1, a.owner, a.source, a.rev, span)} ELSE offers
    /\ toWindow' = Answered(a.owner, [op |-> "result", id |-> a.id, rev |-> a.rev,
                                      edit |-> inputs + 1, stale |-> buffer[a.source].rev # a.rev])
    /\ UNCHANGED <<disk, buffer, draft, job, gui, view, toDaemon>>

\* LspApplyEdit: the server wants an edit nobody asked for; every window is told.
Serve(span) ==
    /\ Does("serve") /\ Idle
    /\ \E source \in span \cap Open :
          LET now == [f \in Open |-> buffer[f].rev]
              p   == Offer(inputs + 1, None, source, buffer[source].rev, span)
          IN  IF Offerable(source, buffer[source].rev, now, span)
              THEN /\ offers' = offers \cup {p}
                   /\ toWindow' = Told([op |-> "preview", id |-> None, preview |-> p])
              ELSE toWindow' = Told([op |-> "error", id |-> None]) /\ UNCHANGED offers
    /\ UNCHANGED <<disk, buffer, draft, asked, job, gui, view, toDaemon>>

Expire(p) ==
    /\ "expire" \in Ops /\ Idle /\ p \in offers /\ offers' = offers \ {p}
    /\ UNCHANGED <<disk, buffer, draft, asked, job, gui, view, toDaemon, toWindow, inputs>>

\* claim: only what this connection was offered for this very text.
OnClaim(w) ==
    /\ Receive(w, "claim")
    /\ LET m == Head(toDaemon[w])
           found == {p \in offers : /\ p.token = m.edit /\ p.owner = w
                                    /\ p.source = m.source /\ p.rev = m.rev}
       IN  IF found = {} THEN toWindow' = Answered(w, [op |-> "error", id |-> m.id])
           ELSE \E p \in found :
                   toWindow' = Answered(w, [op |-> "preview", id |-> m.id, preview |-> p])
    /\ UNCHANGED <<daemon, gui, view, inputs>>

\* cancel.
OnCancel(w) ==
    /\ Receive(w, "cancel")
    /\ LET m == Head(toDaemon[w])
       IN  offers' = {p \in offers : ~(p.token = m.token /\ p.source = m.source
                                       /\ p.owner \in {None, w})}
    /\ UNCHANGED <<disk, buffer, draft, asked, job, gui, view, toWindow, inputs>>

-----------------------------------------------------------------------------
\* apply.

\* Nothing has changed since the preview.
Fresh(p) ==
    /\ buffer[p.source].rev = p.rev
    /\ \A f \in DOMAIN p.targets :
          /\ disk[f] = p.targets[f].disk
          /\ f \in Open => buffer[f] = [rev |-> p.targets[f].rev, text |-> p.targets[f].before]

\* The token is used up before anything is looked at.
OnApply(w) ==
    /\ Receive(w, "apply")
    /\ LET m == Head(toDaemon[w])
           found == {p \in offers : p.token = m.token /\ p.source = m.source
                                    /\ p.owner \in {None, w}}
       IN  /\ offers' = offers \ found
           /\ IF \E p \in found : Fresh(p)
              THEN /\ job' = [window |-> w, id |-> m.id, offer |-> CHOOSE p \in found : TRUE,
                              at |-> "drafts", saved |-> <<>>, edited |-> {}]
                   /\ UNCHANGED toWindow
              ELSE /\ toWindow' = Answered(w, [op |-> "error", id |-> m.id])
                   /\ UNCHANGED job
    /\ UNCHANGED <<disk, buffer, draft, asked, gui, view, inputs>>

Targets(kind) == DOMAIN job.offer.targets \cap kind
After         == job.offer.token
Before(f)     == job.offer.targets[f].before
Goes(stage)   == [job EXCEPT !.at = stage]
Drafted       == {job.saved[i].file : i \in DOMAIN job.saved}

\* Mutant: the files first.
SaveDraftLate ==
    /\ job.at = "drafts" /\ UNCHANGED <<disk, buffer, draft>> /\ job' = Goes("files")

\* One after the other the open targets' drafts are replaced, the old ones remembered;
\* of the one that fails too.
SaveDraft ==
    /\ job.at = "drafts"
    /\ IF Targets(Open) \subseteq Drafted THEN job' = Goes("files") /\ UNCHANGED draft
       ELSE \E f \in Targets(Open) \ Drafted :
               LET old == [job EXCEPT !.saved = Append(@, [file |-> f, text |-> draft[f]])]
               IN  \/ job' = old /\ draft' = [draft EXCEPT ![f] = After]
                   \/ /\ "fail" \in Ops
                      /\ job' = [old EXCEPT !.at = "undo"] /\ UNCHANGED draft
    /\ UNCHANGED <<disk, buffer>>

\* workspace_transaction::commit, and the look at the open targets' files.
Publish ==
    /\ job.at = "files"
    /\ IF \A f \in Targets(Shut) : disk[f] = job.offer.targets[f].disk
       THEN /\ disk' = [f \in Files |-> IF f \in Targets(Shut) THEN After ELSE disk[f]]
            /\ job' = Goes(IF \A f \in Targets(Open) : disk[f] = job.offer.targets[f].disk
                           THEN "buffers" ELSE "undo")
       ELSE job' = Goes("undo") /\ UNCHANGED disk
    /\ UNCHANGED <<buffer, draft>>

PublishFails ==
    /\ "fail" \in Ops /\ job.at = "files" /\ job' = Goes("undo")
    /\ UNCHANGED <<disk, buffer, draft>>

\* range_edit_buffer of every open target.
EditBuffer ==
    /\ job.at = "buffers"
    /\ \E f \in Targets(Open) \ job.edited :
          \/ /\ buffer' = [buffer EXCEPT ![f] = [rev |-> @.rev + 1, text |-> After]]
             /\ job' = [job EXCEPT !.edited = @ \cup {f}]
          \/ "fail" \in Ops /\ job' = Goes("undo") /\ UNCHANGED buffer
    /\ UNCHANGED <<disk, draft>>

\* The rollback: the buffers are undone ...
Undo ==
    /\ job.at = "undo" /\ job' = Goes("restore")
    /\ buffer' = [f \in Open |-> IF f \in job.edited
                                 THEN [rev |-> buffer[f].rev + 1, text |-> Before(f)] ELSE buffer[f]]
    /\ UNCHANGED <<disk, draft>>

\* ... the files restored, unless others have written them since ...
Restore ==
    /\ job.at = "restore" /\ job' = Goes("redraft")
    /\ disk' = [f \in Files |-> IF f \in Targets(Shut) /\ disk[f] = After THEN Before(f) ELSE disk[f]]
    /\ UNCHANGED <<buffer, draft>>

\* Mutant: the drafts of a rolled back edit stay.
RedraftNot == job.at = "redraft" /\ job' = None /\ UNCHANGED <<disk, buffer, draft>>
              /\ toWindow' = Answered(job.window, [op |-> "error", id |-> job.id])

\* ... and then the drafts.
Redraft ==
    /\ job.at = "redraft"
    /\ draft' = [f \in Open |-> IF f \in Drafted
                                THEN (CHOOSE r \in {job.saved[i] : i \in DOMAIN job.saved} :
                                         r.file = f).text
                                ELSE draft[f]]
    /\ job' = None
    /\ toWindow' = Answered(job.window, [op |-> "error", id |-> job.id])
    /\ UNCHANGED <<disk, buffer>>

\* The answer, and the notice to every window, in this order.
Finish ==
    /\ job.at = "buffers" /\ Targets(Open) \subseteq job.edited /\ job' = None
    /\ LET done(id) == [op |-> "applied", id |-> id,
                        updates |-> [f \in Targets(Open) |-> buffer[f]]]
       IN  toWindow' = [w \in Windows |-> toWindow[w] \o
              (IF w = job.window THEN <<done(job.id)>> ELSE <<>>) \o <<done(None)>>]
    /\ UNCHANGED <<disk, buffer, draft>>

Work ==
    /\ job # None
    /\ \/ (SaveDraft \/ Publish \/ PublishFails \/ EditBuffer \/ Undo \/ Restore)
          /\ UNCHANGED toWindow
       \/ Redraft \/ Finish
    /\ UNCHANGED <<asked, offers, gui, view, toDaemon, inputs>>

-----------------------------------------------------------------------------
\* Typing, of a window that is up to date, is checkpointed.
Type(w, f) ==
    /\ Does("type") /\ Idle /\ view[w][f] = buffer[f] /\ toDaemon[w] = <<>>
    /\ LET typed == [rev |-> buffer[f].rev + 1, text |-> inputs + 1]
       IN  buffer' = [buffer EXCEPT ![f] = typed] /\ view' = [view EXCEPT ![w][f] = typed]
    /\ draft' = [draft EXCEPT ![f] = inputs + 1]
    /\ UNCHANGED <<disk, asked, offers, job, gui, toDaemon, toWindow>>

\* Other programs write whenever they like.
Write(f) ==
    /\ Does("write") /\ disk' = [disk EXCEPT ![f] = inputs + 1]
    /\ UNCHANGED <<buffer, draft, asked, offers, job, gui, view, toDaemon, toWindow>>

\* The daemon ends and comes back: buffers are restored, windows connect again.
Crash ==
    /\ Does("crash")
    /\ buffer' = [f \in Open |-> Opened(IF draft[f] = None THEN disk[f] ELSE draft[f])]
    /\ asked' = {} /\ offers' = {} /\ job' = None
    /\ gui' = [w \in Windows |-> NewGui] /\ view' = [w \in Windows |-> buffer']
    /\ toDaemon' = [w \in Windows |-> <<>>] /\ toWindow' = [w \in Windows |-> <<>>]
    /\ UNCHANGED <<disk, draft>>

Daemon(w) == OnAsk(w) \/ OnClaim(w) \/ OnCancel(w) \/ OnApply(w)

Window(w) == OnResult(w) \/ OnPreview(w) \/ OnApplied(w) \/ Failed(w)

Next ==
    \/ \E w \in Windows : \/ Apply(w) \/ Dismiss(w) \/ Daemon(w) \/ Window(w)
                          \/ \E f \in Open : Ask(w, f) \/ Type(w, f) \/ Poll(w, f)
    \/ \E span \in Spans : Serve(span) \/ \E a \in asked : Reply(a, span)
    \/ \E p \in offers : Expire(p)
    \/ Work
    \/ \E f \in Files : Write(f)
    \/ Crash

Spec == Init /\ [][Next]_vars

\* Both ends read their frames, and the worker does its work.
Fairness == /\ \A w \in Windows : WF_vars(Daemon(w)) /\ WF_vars(Window(w))
            /\ WF_vars(Work)

FairSpec == Spec /\ Fairness

-----------------------------------------------------------------------------
\* Were the daemon to end now, no file would have been changed by an edit that the
\* restored buffers of its other targets lack: the drafts come first, and go last in the
\* rollback ("Persist prospective open-buffer drafts first", workspace_edits.rs:667).
DraftsFirst ==
    job # None /\ (\E f \in Targets(Shut) : disk[f] = After)
        => \A f \in Targets(Open) : draft[f] = After

\* An apply ends with every target changed, or with none, not even a draft, whatever
\* fails on the way: but for files others have written meanwhile.
AllOrNone ==
    [][job # None /\ job' = None /\ inputs' = inputs =>
          \/ /\ \A f \in Targets(Open) : buffer'[f].text = After /\ draft'[f] = After
             /\ \A f \in Targets(Shut) : disk'[f] = After \/ disk'[f] > After
          \/ /\ \A f \in Targets(Open) : buffer'[f].text = Before(f)
             /\ \A f \in Targets(Shut) : disk'[f] # After
             /\ \A i \in DOMAIN job.saved : draft'[job.saved[i].file] = job.saved[i].text]_vars

\* A window that applies an edit learns how it ended (gui applied, failed, dismiss).
ApplyEnds == \A w \in Windows : gui[w].applying # None ~> gui[w].applying = None

\* An edit is applied whole or not at all, and a crash in its middle loses no target.
Safety == []DraftsFirst /\ AllOrNone
=============================================================================
