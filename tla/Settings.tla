------------------------------ MODULE Settings ------------------------------
(* Settings: the settings page of a window (gui/settings.rs), the local      *)
(* preferences file (gui/client_config.rs), and the settings and config      *)
(* handlers of the daemon (settings.rs, config.rs, server.rs).               *)
(*                                                                           *)
(* A document gives each key a value, 0 for a key it does not hold; a value  *)
(* is written once, so that values tell the changes apart.                   *)
EXTENDS Naturals, Sequences, FiniteSets

CONSTANTS
  Windows,
  Local,        \* whether the windows run on the daemon's host, and share its file
  MaxChanges,   \* bound: values written
  MaxInputs,    \* bound: what the users do
  Ops,          \* which of the optional events happen, see OpNames
  None

\* A connection that breaks ("cut"), with word of a local change on its way ("lost"); two
\* handlers that reload at once ("overlap"); a local change that reads the file, and writes it
\* later ("race").
OpNames == {"cut", "lost", "overlap", "race"}

Keys == {"ui", "lsp", "shortkeys"}
Scopes == {"client", "user", "workspace"}
Files == Scopes
Empty == [k \in Keys |-> 0]

VARIABLES
  files,      \* config.json of the daemon, of the workspace and of the client
  config,     \* state.config of the daemon
  services,   \* the servers the editor worker was configured with, by the user and the project
  page,       \* per window, SettingsEditor
  wire,       \* per window, requests on their way to the daemon
  replies,    \* per window, what the daemon sent
  job,        \* per window, the configuration its handler is about to install
  held,       \* per window, a local change that is not written yet
  changes, inputs

vars == <<files, config, services, page, wire, replies, job, held, changes, inputs>>
daemon == <<config, services, job>>

FileOf(s) == IF s = "client" /\ Local THEN "user" ELSE s

\* The catalog: which settings a page of a scope lets the user change.
KeysOf(s) ==
  CASE s = "client" -> {"ui"} [] s = "user" -> {"lsp", "shortkeys"} [] s = "workspace" -> {"lsp"}

\* patch_jsonc: one key set, or its override removed; the rest is as it was.
Patch(doc, k, v) == [doc EXCEPT ![k] = v]

\* load_from_path, parse and normalize.
Loaded == files["user"]

\* apply_fresh_services and apply_fresh_project: the user's servers, less what the project disables.
Disabled == files["workspace"]["lsp"]
Services(doc) == [user |-> doc["lsp"], project |-> Disabled]

\* merge_missing_json: what the template has is added where the document has nothing.
Missing(doc) == {k \in Keys : doc[k] = 0}
Hydrated(doc, v) == [k \in Keys |-> IF k \in Missing(doc) THEN v ELSE doc[k]]

\* Each window has the daemon's settings open; it can close them.
Page == [open |-> TRUE, scope |-> "user", shown |-> [of |-> "user", doc |-> Empty],
         pending |-> 0, ready |-> TRUE, id |-> 0]

Init ==
  /\ files = [f \in Files |-> Empty] /\ config = Loaded
  /\ services = [user |-> 0, project |-> 0]
  /\ page = [w \in Windows |-> Page]
  /\ wire = [w \in Windows |-> <<>>] /\ replies = [w \in Windows |-> <<>>]
  /\ job = [w \in Windows |-> None] /\ held = [w \in Windows |-> None]
  /\ changes = 0 /\ inputs = 0

User == inputs < MaxInputs /\ inputs' = inputs + 1
Request(w, m) == wire' = [wire EXCEPT ![w] = Append(@, m)]

-----------------------------------------------------------------------------
(* The page.                                                                 *)

\* load: the client's document is read at once, another is asked for; what is awaited is given up.
Load(w, s) ==
  /\ User
  /\ LET p == [page[w] EXCEPT !.open = TRUE, !.scope = s, !.ready = FALSE, !.pending = 0]
     IN  IF s = "client"
         THEN /\ page' = [page EXCEPT ![w] = [p EXCEPT !.ready = TRUE,
                            !.shown = [of |-> s, doc |-> files[FileOf(s)]]]]
              /\ UNCHANGED wire
         ELSE /\ page' = [page EXCEPT ![w] = [p EXCEPT !.id = @ + 1, !.pending = p.id + 1]]
              /\ Request(w, [op |-> "read", id |-> p.id + 1, scope |-> s])
  /\ UNCHANGED <<files, daemon, replies, held, changes>>

\* open shows the client's scope; the tabs and Reload load again.
Open(w) == ~page[w].open /\ Load(w, "client")
Show(w, s) == page[w].open /\ Load(w, s)

\* deactivate.
Close(w) ==
  /\ User /\ page[w].open
  /\ page' = [page EXCEPT ![w].open = FALSE, ![w].pending = 0]
  /\ UNCHANGED <<files, daemon, wire, replies, held, changes>>

CanApply(w) == page[w].open /\ page[w].ready /\ page[w].pending = 0

\* apply and Restore default bindings: a value, or its override removed.
Apply(w, k, v) ==
  /\ User /\ CanApply(w) /\ page[w].scope # "client" /\ k \in KeysOf(page[w].scope)
  /\ page' = [page EXCEPT ![w].ready = FALSE, ![w].id = @ + 1, ![w].pending = page[w].id + 1]
  /\ Request(w, [op |-> "patch", id |-> page[w].id + 1, scope |-> page[w].scope,
                 base |-> page[w].shown.doc, key |-> k, value |-> v])
  /\ changes' = IF v = 0 THEN changes ELSE v
  /\ UNCHANGED <<files, daemon, replies, held>>

\* LocalApplied: on the daemon's host, the daemon is told to read its file again.
Written(w, doc) ==
  /\ files' = [files EXCEPT ![FileOf("client")] = doc]
  /\ page' = [page EXCEPT ![w].shown = [of |-> "client", doc |-> doc]]
  /\ IF Local THEN Request(w, [op |-> "reload"]) ELSE UNCHANGED wire

\* patch_document and write_document: refused when the file is not what is shown.
ApplyLocal(w, k, v) ==
  /\ User /\ CanApply(w) /\ page[w].scope = "client" /\ k \in KeysOf("client")
  /\ page[w].shown.doc = files[FileOf("client")] /\ held[w] = None
  /\ changes' = IF v = 0 THEN changes ELSE v
  /\ IF "race" \in Ops
     THEN held' = [held EXCEPT ![w] = Patch(page[w].shown.doc, k, v)] /\ UNCHANGED <<files, page, wire>>
     ELSE Written(w, Patch(page[w].shown.doc, k, v)) /\ UNCHANGED held
  /\ UNCHANGED <<daemon, replies>>

WriteHeld(w) ==
  /\ held[w] # None /\ Written(w, held[w])
  /\ held' = [held EXCEPT ![w] = None]
  /\ UNCHANGED <<daemon, replies, changes, inputs>>

\* Mutant: any snapshot is taken.
AwaitedAny(w, m) == TRUE

\* snapshot and failure: only of the request that is awaited.
Awaited(w, m) == m.id = page[w].pending

Snapshot(w, m) ==
  /\ m.op = "snapshot"
  /\ page' = IF Awaited(w, m)
             THEN [page EXCEPT ![w].pending = 0, ![w].ready = TRUE,
                               ![w].shown = [of |-> m.scope, doc |-> m.doc]]
             ELSE page

\* Mutant: a failure is only shown.
FailureShown(w, m) == m.op = "failed" /\ UNCHANGED page

Failure(w, m) ==
  /\ m.op = "failed"
  /\ page' = IF Awaited(w, m) THEN [page EXCEPT ![w].pending = 0, ![w].ready = FALSE] ELSE page

Receive(w) ==
  /\ replies[w] # <<>>
  /\ replies' = [replies EXCEPT ![w] = Tail(@)]
  /\ Snapshot(w, Head(replies[w])) \/ Failure(w, Head(replies[w]))
  /\ UNCHANGED <<files, daemon, wire, held, changes, inputs>>

\* on_reload_config.
ReloadConfig(w) ==
  /\ User /\ Request(w, [op |-> "reload"])
  /\ UNCHANGED <<files, daemon, page, replies, held, changes>>

\* Disconnected: the page closes, and the window connects again.
Cut(w) ==
  /\ User /\ "cut" \in Ops /\ job[w] = None
  /\ "lost" \in Ops \/ \A i \in DOMAIN wire[w] : wire[w][i].op # "reload"
  /\ page' = [page EXCEPT ![w].open = FALSE, ![w].pending = 0]
  /\ wire' = [wire EXCEPT ![w] = <<>>] /\ replies' = [replies EXCEPT ![w] = <<>>]
  /\ UNCHANGED <<files, daemon, held, changes>>

-----------------------------------------------------------------------------
(* The daemon.                                                               *)
Answer(w, m) == replies' = [replies EXCEPT ![w] = Append(@, m)]
Snap(m, doc) == [op |-> "snapshot", id |-> m.id, scope |-> m.scope, doc |-> doc]
Fetched(w) == wire' = [wire EXCEPT ![w] = Tail(@)]
Calm(w) == "overlap" \in Ops \/ \A x \in Windows : job[x] = None

\* SettingsRead.
Read(w, m) ==
  /\ m.op = "read"
  /\ Answer(w, Snap(m, files[m.scope]))
  /\ UNCHANGED <<files, config, services, job>>

\* Mutants: the file is not compared with the base; only the servers are told of a change.
AcceptsAny(m) == TRUE
InstallServices(w, m, doc) ==
  job' = [job EXCEPT ![w] = [doc |-> config, reply |-> Snap(m, doc), told |-> FALSE]]
    /\ UNCHANGED <<config, services, replies>>

\* apply_patch, under its lock.
Accepts(m) == files[m.scope] = m.base

\* The handler loads the file; a change of servers is first given to the editor worker.
Install(w, m, doc) ==
  IF m.key = "lsp"
  THEN /\ job' = [job EXCEPT ![w] = [doc |-> doc, reply |-> Snap(m, doc), told |-> FALSE]]
       /\ UNCHANGED <<config, services, replies>>
  ELSE config' = doc /\ Answer(w, Snap(m, doc)) /\ UNCHANGED <<services, job>>

\* SettingsPatch.
PatchSettings(w, m) ==
  LET doc == Patch(files[m.scope], m.key, m.value)
  IN  /\ m.op = "patch"
      /\ IF Accepts(m)
         THEN /\ files' = [files EXCEPT ![m.scope] = doc]
              /\ IF m.scope = "user" THEN Install(w, m, doc)
                 ELSE Answer(w, Snap(m, doc)) /\ UNCHANGED daemon
         ELSE Answer(w, [op |-> "failed", id |-> m.id]) /\ UNCHANGED <<files, daemon>>

\* ConfigReload.
Reload(w, m) ==
  /\ m.op = "reload"
  /\ job' = [job EXCEPT ![w] = [doc |-> Loaded, reply |-> None, told |-> FALSE]]
  /\ UNCHANGED <<files, config, services, replies>>

Serve(w) ==
  /\ wire[w] # <<>> /\ job[w] = None /\ Calm(w)
  /\ Fetched(w)
  /\ LET m == Head(wire[w]) IN Read(w, m) \/ PatchSettings(w, m) \/ Reload(w, m)
  /\ UNCHANGED <<page, held, changes, inputs>>

\* The worker's Reconfigure.
Reconfigure(w) ==
  /\ job[w] # None /\ ~job[w].told
  /\ services' = Services(job[w].doc)
  /\ job' = [job EXCEPT ![w].told = TRUE]
  /\ UNCHANGED <<files, config, page, wire, replies, held, changes, inputs>>

\* The handler goes on: what it loaded becomes the configuration.
Installed(w) ==
  /\ job[w] # None /\ job[w].told
  /\ config' = job[w].doc
  /\ job' = [job EXCEPT ![w] = None]
  /\ IF job[w].reply = None THEN UNCHANGED replies ELSE Answer(w, job[w].reply)
  /\ UNCHANGED <<files, services, page, wire, held, changes, inputs>>

\* ensure_file: config.json is opened in a tab; what the template has and it lacks is added.
Hydrate(w) ==
  /\ User /\ changes < MaxChanges /\ Calm(w)
  /\ Missing(Loaded) # {}
  /\ config' = Hydrated(Loaded, changes + 1)
  /\ files' = [files EXCEPT !["user"] = config']
  /\ changes' = changes + 1
  /\ UNCHANGED <<services, page, wire, replies, job, held>>

-----------------------------------------------------------------------------
NewValues == {0} \cup {n \in {changes + 1} : n <= MaxChanges}

Next ==
  \/ \E w \in Windows :
       Open(w) \/ Close(w) \/ ReloadConfig(w) \/ WriteHeld(w) \/ Receive(w) \/ Cut(w) \/ Serve(w)
         \/ Reconfigure(w) \/ Installed(w) \/ Hydrate(w)
  \/ \E w \in Windows, s \in Scopes : Show(w, s)
  \/ \E w \in Windows, k \in Keys, v \in NewValues : Apply(w, k, v) \/ ApplyLocal(w, k, v)

Spec == Init /\ [][Next]_vars

\* The sockets are read, the worker serves its queue, the window's events are handled.
Fairness ==
  \A w \in Windows : WF_vars(Receive(w)) /\ WF_vars(Serve(w)) /\ WF_vars(Reconfigure(w)) /\ WF_vars(Installed(w))

FairSpec == Spec /\ Fairness

-----------------------------------------------------------------------------
(* Properties.                                                               *)

\* A value is only replaced by a window that had that value before it (settings.rs:63,
\* client_config.rs:64).
Saw(w, f, k) ==
  \/ wire[w] # <<>> /\ Head(wire[w]).op = "patch" /\ Head(wire[w]).base[k] = files[f][k]
  \/ page[w].open /\ page[w].scope = "client" /\ page[w].shown.doc[k] = files[f][k]
SeenBeforeReplaced ==
  [][\A f \in Files, k \in Keys :
       files[f][k] # 0 /\ files'[f][k] # files[f][k] => \E w \in Windows : Saw(w, f, k)]_vars

\* When nothing is under way, the daemon goes by what its file says, and so do the user's
\* servers, except those that were only added with the template (server.rs:487, 581).
Quiet == \A w \in Windows : wire[w] = <<>> /\ job[w] = None /\ held[w] = None
DaemonGoesByFile ==
  Quiet => config = files["user"] /\ services.user \in {0, files["user"]["lsp"]}

\* A page that can be changed shows the document of its own scope (settings.rs:190).
ShowsItsScope == \A w \in Windows : CanApply(w) => page[w].shown.of = page[w].scope

\* What is awaited arrives, fails or is given up (settings.rs:214).
PageSettles == \A w \in Windows : []<>(page[w].pending = 0)

\* Nobody's setting is overwritten unseen, and what is shown, written and in force agree.
Safety == [](DaemonGoesByFile /\ ShowsItsScope) /\ SeenBeforeReplaced
=============================================================================
