---------------------------- MODULE MCComponents ----------------------------
(***************************************************************************)
(* The smaller components for TLC.  They share no state here, so a run     *)
(* explores one after the other: part says which one moves, the others     *)
(* stay as they began.  Each has its own instance and its own variables,   *)
(* named after it.  Moving selects the components of a run, and Live the    *)
(* smaller instances that liveness is checked on.                          *)
(***************************************************************************)
EXTENDS Naturals, Sequences

CONSTANTS None,    \* the absent value of every component
          Moving,   \* the components of this run
          Live     \* whether it is for liveness

Size(safe, live) == IF Live THEN live ELSE safe

VARIABLE part

VARIABLES
    panel_panel, panel_buf, panel_toDaemon, panel_toPanel, panel_known, panel_orphan,
    panel_inputs,
    files_path, files_backup, files_stage, files_version, files_entry, files_pc,
    files_cur, files_failed, files_again, files_outcome, files_outside, files_faults,
    files_touched, files_unseen,
    closing_panel, closing_waiting, closing_pending, closing_prompt, closing_dialog,
    closing_switching, closing_window, closing_retains, closing_inputs,
    edits_disk, edits_buffer, edits_draft, edits_asked, edits_offers, edits_job,
    edits_gui, edits_view, edits_toDaemon, edits_toWindow, edits_inputs,
    drafts_file, drafts_backup, drafts_request, drafts_version,
    lock_proc, lock_meta, lock_asked, lock_cmd, lock_runs, lock_trouble,
    search_gui, search_toDaemon, search_toGui, search_current, search_cancelled,
    search_tasks, search_out, search_disk, search_buffer, search_work, search_clock,
    lsp_gui, lsp_pending, lsp_desired, lsp_got, lsp_shown, lsp_toDaemon, lsp_toGui,
    lsp_toWorker, lsp_map, lsp_buffer, lsp_groups, lsp_waiting, lsp_results, lsp_asked,
    lsp_inputs,
    remote_installed, remote_system, remote_partial, remote_daemon, remote_born,
    remote_boot, remote_tunnel, remote_session, remote_faults, remote_restarts,
    connection_kind, connection_daemon, connection_tunnel, connection_target,
    connection_conn, connection_wanted, connection_threads, connection_jobs,
    connection_born, connection_commands, connection_faults,
    navigation_caret, navigation_aim, navigation_loaded, navigation_active,
    navigation_history, navigation_pending, navigation_opened, navigation_wire,
    navigation_picker, navigation_finder, navigation_heading, navigation_steps,
    finder_input, finder_generation, finder_request, finder_paths, finder_timers,
    finder_toDaemon, finder_toGui, finder_current, finder_cancelled, finder_scans,
    finder_out,
    explorer_disk, explorer_link, explorer_root, explorer_expanded, explorer_selection,
    explorer_cache, explorer_lists, explorer_moves, explorer_renames, explorer_wire,
    explorer_replies, explorer_work, explorer_deleted, explorer_asked, explorer_inputs,
    settings_files, settings_config, settings_services, settings_page, settings_wire,
    settings_replies, settings_job, settings_held, settings_changes, settings_inputs,
    terminal_program, terminal_out, terminal_slot, terminal_wire, terminal_back,
    terminal_panel, terminal_mouse, terminal_outputs, terminal_inputs,
    diffs_disk, diffs_buffer, diffs_tabs, diffs_preview, diffs_saving, diffs_known,
    diffs_wire, diffs_replies, diffs_inputs,
    git_tree, git_context, git_online, git_shown, git_asked, git_busy, git_wire,
    git_replies, git_noticed, git_inputs,
    find_text, find_synced, find_online, find_search, find_wire, find_replies,
    find_inputs,
    watch_disk, watch_task, watch_watches, watch_shared, watch_entries, watch_events,
    watch_heard, watch_out, watch_view, watch_inputs

panelVars == <<panel_panel, panel_buf, panel_toDaemon, panel_toPanel, panel_known,
    panel_orphan, panel_inputs>>
filesVars == <<files_path, files_backup, files_stage, files_version, files_entry,
    files_pc, files_cur, files_failed, files_again, files_outcome, files_outside,
    files_faults, files_touched, files_unseen>>
closingVars == <<closing_panel, closing_waiting, closing_pending, closing_prompt,
    closing_dialog, closing_switching, closing_window, closing_retains,
    closing_inputs>>
editsVars == <<edits_disk, edits_buffer, edits_draft, edits_asked, edits_offers,
    edits_job, edits_gui, edits_view, edits_toDaemon, edits_toWindow, edits_inputs>>
draftsVars == <<drafts_file, drafts_backup, drafts_request, drafts_version>>
lockVars == <<lock_proc, lock_meta, lock_asked, lock_cmd, lock_runs, lock_trouble>>
searchVars == <<search_gui, search_toDaemon, search_toGui, search_current,
    search_cancelled, search_tasks, search_out, search_disk, search_buffer,
    search_work, search_clock>>
lspVars == <<lsp_gui, lsp_pending, lsp_desired, lsp_got, lsp_shown, lsp_toDaemon,
    lsp_toGui, lsp_toWorker, lsp_map, lsp_buffer, lsp_groups, lsp_waiting, lsp_results,
    lsp_asked, lsp_inputs>>
remoteVars == <<remote_installed, remote_system, remote_partial, remote_daemon,
    remote_born, remote_boot, remote_tunnel, remote_session, remote_faults,
    remote_restarts>>
connectionVars == <<connection_kind, connection_daemon, connection_tunnel,
    connection_target, connection_conn, connection_wanted, connection_threads,
    connection_jobs, connection_born, connection_commands, connection_faults>>
navigationVars == <<navigation_caret, navigation_aim, navigation_loaded,
    navigation_active, navigation_history, navigation_pending, navigation_opened,
    navigation_wire, navigation_picker, navigation_finder, navigation_heading,
    navigation_steps>>
finderVars == <<finder_input, finder_generation, finder_request, finder_paths,
    finder_timers, finder_toDaemon, finder_toGui, finder_current, finder_cancelled,
    finder_scans, finder_out>>
explorerVars == <<explorer_disk, explorer_link, explorer_root, explorer_expanded,
    explorer_selection, explorer_cache, explorer_lists, explorer_moves,
    explorer_renames, explorer_wire, explorer_replies, explorer_work, explorer_deleted,
    explorer_asked, explorer_inputs>>
settingsVars == <<settings_files, settings_config, settings_services,
    settings_page, settings_wire, settings_replies, settings_job, settings_held,
    settings_changes, settings_inputs>>
terminalVars == <<terminal_program, terminal_out, terminal_slot, terminal_wire,
    terminal_back, terminal_panel, terminal_mouse, terminal_outputs, terminal_inputs>>
diffsVars == <<diffs_disk, diffs_buffer, diffs_tabs, diffs_preview, diffs_saving,
    diffs_known, diffs_wire, diffs_replies, diffs_inputs>>
gitVars == <<git_tree, git_context, git_online, git_shown, git_asked, git_busy,
    git_wire, git_replies, git_noticed, git_inputs>>
findVars == <<find_text, find_synced, find_online, find_search, find_wire,
    find_replies, find_inputs>>
watchVars == <<watch_disk, watch_task, watch_watches, watch_shared, watch_entries,
    watch_events, watch_heard, watch_out, watch_view, watch_inputs>>

-----------------------------------------------------------------------------
\* One user who types, saves and loses the connection.
panel_Text == {"a", "b", "c"}
panel_EmptyText == "a"
panel_Ids == {"1", "2", "3", "4", "5"}
panel_Ops == {"type", "save", "drop", "resolve"}
panel_MaxInputs == 4
Panel == INSTANCE EditorPanel WITH
    Text <- panel_Text, EmptyText <- panel_EmptyText, Ids <- panel_Ids,
    Ops <- panel_Ops, MaxInputs <- panel_MaxInputs, panel <- panel_panel,
    buf <- panel_buf, toDaemon <- panel_toDaemon, toPanel <- panel_toPanel,
    known <- panel_known, orphan <- panel_orphan, inputs <- panel_inputs

\* Three files, one of each kind of change.
files_Changes == <<"edit", "create", "delete">>
files_Ops == {"outside", "fault", "crash", "rollback"}
files_MaxOutside == 1
files_MaxFaults == 2
Transaction == INSTANCE FileTransaction WITH
    Changes <- files_Changes, Ops <- files_Ops, MaxOutside <- files_MaxOutside,
    MaxFaults <- files_MaxFaults, path <- files_path, backup <- files_backup,
    stage <- files_stage, version <- files_version, entry <- files_entry,
    pc <- files_pc, cur <- files_cur, failed <- files_failed, again <- files_again,
    outcome <- files_outcome, outside <- files_outside, faults <- files_faults,
    touched <- files_touched, unseen <- files_unseen

\* Two files, one of them untitled, and a diff.
closing_Editors == {"e1", "e2"}
closing_Diffs == {"d1"}
closing_Untitled == {"e2"}
closing_Ops == {"type", "save", "close", "window", "switch", "leave", "fail", "disk"}
closing_MaxInputs == Size(4, 3)
Closing == INSTANCE TabClosing WITH
    Editors <- closing_Editors, Diffs <- closing_Diffs, Untitled <- closing_Untitled,
    Ops <- closing_Ops, MaxInputs <- closing_MaxInputs, panel <- closing_panel,
    waiting <- closing_waiting, pending <- closing_pending, prompt <- closing_prompt,
    dialog <- closing_dialog, switching <- closing_switching, window <- closing_window,
    retains <- closing_retains, inputs <- closing_inputs

\* An edit of two open files and a closed one.
edits_Windows == Size({"w1", "w2"}, {"w1"})
edits_Open == {"f1", "f2"}
edits_Shut == {"f3"}
edits_Spans == {{"f1", "f2", "f3"}}
edits_Ops == {"serve", "type", "write", "expire", "dismiss", "fail", "crash"}
edits_MaxOffers == 1
edits_MaxInputs == 3
Edits == INSTANCE WorkspaceEdits WITH
    Windows <- edits_Windows, Open <- edits_Open, Shut <- edits_Shut,
    Spans <- edits_Spans, Ops <- edits_Ops, MaxOffers <- edits_MaxOffers,
    MaxInputs <- edits_MaxInputs, disk <- edits_disk, buffer <- edits_buffer,
    draft <- edits_draft, asked <- edits_asked, offers <- edits_offers,
    job <- edits_job, gui <- edits_gui, view <- edits_view, toDaemon <- edits_toDaemon,
    toWindow <- edits_toWindow, inputs <- edits_inputs

\* Two drafts.
drafts_Drafts == {"d1", "d2"}
drafts_Ops == {"fail", "crash"}
drafts_MaxRequests == 3
Store == INSTANCE DraftStore WITH
    Drafts <- drafts_Drafts, Absent <- None, Ops <- drafts_Ops,
    MaxRequests <- drafts_MaxRequests, file <- drafts_file, backup <- drafts_backup,
    request <- drafts_request, version <- drafts_version

\* Two shells, an earlier daemon and three more.
lock_Commands == {"c1", "c2"}
lock_Ops == {"start", "ensure", "status", "close", "crash", "fail", "slow"}
lock_MaxPids == 4
lock_MaxRuns == Size(4, 3)
Lock == INSTANCE DaemonLock WITH
    Commands <- lock_Commands, Ops <- lock_Ops, MaxPids <- lock_MaxPids,
    MaxRuns <- lock_MaxRuns, proc <- lock_proc, meta <- lock_meta, asked <- lock_asked,
    cmd <- lock_cmd, runs <- lock_runs, trouble <- lock_trouble

\* One file, two sets of criteria.
search_Files == {"f1"}
search_Criteria == {"c1", "c2"}
search_Tabs == {"f1"}
search_Recovered == {}
search_Channel == 1
search_MaxTexts == 2
search_MaxRequests == 2
search_MaxFields == Size(1, 0)
search_Ops == Size({"write"}, {})
Search == INSTANCE ProjectSearch WITH
    Files <- search_Files, Criteria <- search_Criteria, Tabs <- search_Tabs,
    Recovered <- search_Recovered, Channel <- search_Channel,
    MaxTexts <- search_MaxTexts, MaxRequests <- search_MaxRequests,
    MaxFields <- search_MaxFields, Ops <- search_Ops, gui <- search_gui,
    toDaemon <- search_toDaemon, toGui <- search_toGui, current <- search_current,
    cancelled <- search_cancelled, tasks <- search_tasks, out <- search_out,
    disk <- search_disk, buffer <- search_buffer, work <- search_work,
    clock <- search_clock

\* One server, two features.
lsp_Features == {"completion", "hover"}
lsp_Servers == {"s1"}
lsp_Texts == {"a", "b"}
lsp_Carets == 0..1
lsp_Ops == Size({"type", "move", "others", "late", "lag"}, {"type", "move", "others", "late", "lag", "giveup"})
lsp_Limit == 1
lsp_MaxRequests == Size(2, 1)
lsp_MaxInputs == 1
Lsp == INSTANCE LspRequests WITH
    Features <- lsp_Features, Servers <- lsp_Servers, Texts <- lsp_Texts,
    Carets <- lsp_Carets, Ops <- lsp_Ops, Limit <- lsp_Limit,
    MaxRequests <- lsp_MaxRequests, MaxInputs <- lsp_MaxInputs, gui <- lsp_gui,
    pending <- lsp_pending, desired <- lsp_desired, got <- lsp_got, shown <- lsp_shown,
    toDaemon <- lsp_toDaemon, toGui <- lsp_toGui, toWorker <- lsp_toWorker,
    map <- lsp_map, buffer <- lsp_buffer, groups <- lsp_groups, waiting <- lsp_waiting,
    results <- lsp_results, asked <- lsp_asked, inputs <- lsp_inputs

\* Two clients of one host.
remote_Clients == {"c1", "c2"}
remote_Ops == {"cut", "crash", "drop", "decline", "host"}
remote_MaxFaults == 2
remote_MaxRestarts == 1
Remote == INSTANCE RemoteDaemon WITH
    Clients <- remote_Clients, Ops <- remote_Ops, MaxFaults <- remote_MaxFaults,
    MaxRestarts <- remote_MaxRestarts, installed <- remote_installed,
    system <- remote_system, partial <- remote_partial, daemon <- remote_daemon,
    born <- remote_born, boot <- remote_boot, tunnel <- remote_tunnel,
    session <- remote_session, faults <- remote_faults, restarts <- remote_restarts

\* A window on each kind of daemon.
connection_Kinds == {"local", "remote", "external"}
connection_Ops == {"reconnect", "disconnect", "restart", "stop", "crash", "fail", "drop"}
connection_MaxCommands == Size(3, 2)
connection_MaxFaults == Size(2, 1)
Link == INSTANCE Connection WITH
    Kinds <- connection_Kinds, Ops <- connection_Ops,
    MaxCommands <- connection_MaxCommands, MaxFaults <- connection_MaxFaults,
    kind <- connection_kind, daemon <- connection_daemon, tunnel <- connection_tunnel,
    target <- connection_target, conn <- connection_conn, wanted <- connection_wanted,
    threads <- connection_threads, jobs <- connection_jobs, born <- connection_born,
    commands <- connection_commands, faults <- connection_faults

\* Two files with two places each.
navigation_Files == {"f", "g"}
navigation_Offsets == 0..1
navigation_Capacity == 3
navigation_MaxSteps == 4
navigation_Ops == {"fail"}
Nav == INSTANCE Navigation WITH
    Files <- navigation_Files, Offsets <- navigation_Offsets,
    Capacity <- navigation_Capacity, MaxSteps <- navigation_MaxSteps,
    Ops <- navigation_Ops, caret <- navigation_caret, aim <- navigation_aim,
    loaded <- navigation_loaded, active <- navigation_active,
    history <- navigation_history, pending <- navigation_pending,
    opened <- navigation_opened, wire <- navigation_wire, picker <- navigation_picker,
    finder <- navigation_finder, heading <- navigation_heading,
    steps <- navigation_steps

\* Two queries.
finder_Queries == {"a", "b"}
finder_Elsewhere == {":"}
finder_MaxInputs == 3
finder_Channel == 1
Finder == INSTANCE FileFinder WITH
    Queries <- finder_Queries, Elsewhere <- finder_Elsewhere,
    MaxInputs <- finder_MaxInputs, Channel <- finder_Channel, input <- finder_input,
    generation <- finder_generation, request <- finder_request, paths <- finder_paths,
    timers <- finder_timers, toDaemon <- finder_toDaemon, toGui <- finder_toGui,
    current <- finder_current, cancelled <- finder_cancelled, scans <- finder_scans,
    out <- finder_out

\* Two folders, two files and two names.
explorer_Root == "r"
explorer_Subs == {"s"}
explorer_Files == {"a", "b"}
explorer_Names == {"x", "y"}
explorer_MaxAsked == 3
explorer_MaxInputs == 3
explorer_Ops == {"fail"}
Tree == INSTANCE Explorer WITH
    Root <- explorer_Root, Subs <- explorer_Subs, Files <- explorer_Files,
    Names <- explorer_Names, MaxAsked <- explorer_MaxAsked,
    MaxInputs <- explorer_MaxInputs, Ops <- explorer_Ops, disk <- explorer_disk,
    link <- explorer_link, root <- explorer_root, expanded <- explorer_expanded,
    selection <- explorer_selection, cache <- explorer_cache, lists <- explorer_lists,
    moves <- explorer_moves, renames <- explorer_renames, wire <- explorer_wire,
    replies <- explorer_replies, work <- explorer_work, deleted <- explorer_deleted,
    asked <- explorer_asked, inputs <- explorer_inputs

\* Two windows on the daemon's host.
settings_Windows == Size({"w1", "w2"}, {"w1"})
settings_Local == TRUE
settings_MaxChanges == 2
settings_MaxInputs == 3
settings_Ops == {"cut"} \cup Size({}, {"race"})
Config == INSTANCE Settings WITH
    Windows <- settings_Windows, Local <- settings_Local,
    MaxChanges <- settings_MaxChanges, MaxInputs <- settings_MaxInputs,
    Ops <- settings_Ops, files <- settings_files, config <- settings_config,
    services <- settings_services, page <- settings_page, wire <- settings_wire,
    replies <- settings_replies, job <- settings_job, held <- settings_held,
    changes <- settings_changes, inputs <- settings_inputs

\* Screen and mouse modes; the synchronized update in the live run.
terminal_Modes == Size({47, 1049, 1002}, {1049, 2026})
terminal_Sizes == Size({100, 120}, {100})
terminal_Default == 80
terminal_Buttons == Size({"left", "middle"}, {"left"})
terminal_Kept == 2
terminal_MaxOutput == 2
terminal_MaxInputs == 2
Term == INSTANCE Terminal WITH
    Modes <- terminal_Modes, Sizes <- terminal_Sizes, Default <- terminal_Default,
    Buttons <- terminal_Buttons, Kept <- terminal_Kept,
    MaxOutput <- terminal_MaxOutput, MaxInputs <- terminal_MaxInputs,
    program <- terminal_program, out <- terminal_out, slot <- terminal_slot,
    wire <- terminal_wire, back <- terminal_back, panel <- terminal_panel,
    mouse <- terminal_mouse, outputs <- terminal_outputs, inputs <- terminal_inputs

\* One file of up to two lines, two of one line in the live run.
diffs_Paths == Size({"p"}, {"p", "q"})
diffs_Lines == 1..2
diffs_MaxLines == Size(2, 1)
diffs_HeadLine == 1
diffs_MaxInputs == Size(4, 3)
diffs_Ops == {"others"} \cup Size({"fail"}, {"again", "format"})
Diff == INSTANCE DiffTabs WITH
    Paths <- diffs_Paths, Lines <- diffs_Lines, MaxLines <- diffs_MaxLines,
    HeadLine <- diffs_HeadLine, MaxInputs <- diffs_MaxInputs, Ops <- diffs_Ops,
    disk <- diffs_disk, buffer <- diffs_buffer, tabs <- diffs_tabs,
    preview <- diffs_preview, saving <- diffs_saving, known <- diffs_known,
    wire <- diffs_wire, replies <- diffs_replies, inputs <- diffs_inputs

\* Two repositories.
git_Repos == {"r1", "r2"}
git_MaxTexts == 2
git_MaxInputs == Size(4, 3)
git_Ops == {"fail", "outside", "drop"} \cup Size({}, {"follow", "close", "partial"})
Git == INSTANCE GitPanel WITH
    Repos <- git_Repos, MaxTexts <- git_MaxTexts, MaxInputs <- git_MaxInputs,
    Ops <- git_Ops, tree <- git_tree, context <- git_context, online <- git_online,
    shown <- git_shown, asked <- git_asked, busy <- git_busy, wire <- git_wire,
    replies <- git_replies, noticed <- git_noticed, inputs <- git_inputs

\* Texts of up to three letters.
find_MaxLen == 3
find_Limit == 2
find_Replacements == {0, 2}
find_MaxInputs == 3
find_Ops == {"others", "drop"}
Find == INSTANCE EditorSearch WITH
    MaxLen <- find_MaxLen, Limit <- find_Limit, Replacements <- find_Replacements,
    MaxInputs <- find_MaxInputs, Ops <- find_Ops, text <- find_text,
    synced <- find_synced, online <- find_online, search <- find_search,
    wire <- find_wire, replies <- find_replies, inputs <- find_inputs

\* A folder in a folder, and one that is ignored.
watch_Paths == {<<"r">>, <<"r", "a">>, <<"r", "a", "b">>, <<"r", "n">>}
watch_Root == <<"r">>
watch_Ignored == {"n"}
watch_Recursive == TRUE
watch_MaxInputs == 5
Watch == INSTANCE FsWatch WITH
    Paths <- watch_Paths, Root <- watch_Root, Ignored <- watch_Ignored,
    Recursive <- watch_Recursive, MaxInputs <- watch_MaxInputs, disk <- watch_disk,
    task <- watch_task, watches <- watch_watches, shared <- watch_shared,
    entries <- watch_entries, events <- watch_events, heard <- watch_heard,
    out <- watch_out, view <- watch_view, inputs <- watch_inputs

-----------------------------------------------------------------------------
\* A component that does not move begins in one state only.
Still(p, pinned) == IF part = p THEN TRUE ELSE pinned

Init ==
    /\ part \in Moving
    /\ Panel!Init /\ Still("panel", panel_buf.text = "a")
    /\ Transaction!Init
    /\ Closing!Init /\ Still("closing", ~closing_retains)
    /\ Edits!Init
    /\ Store!Init /\ Still("drafts", \A p \in DOMAIN drafts_file : drafts_file[p] = None)
    /\ Lock!Init /\ Still("lock", lock_meta = None)
    /\ Search!Init /\ Still("search", search_gui.tabs = {})
    /\ Lsp!Init /\ Still("lsp", lsp_gui.text = "a" /\ lsp_gui.caret = 0)
    /\ Remote!Init /\ Still("remote", remote_installed = None /\ remote_system = None)
    /\ Link!Init /\ Still("connection", connection_kind = "local")
    /\ Nav!Init /\ Still("navigation", navigation_active = "f")
    /\ Finder!Init
    /\ Tree!Init
        /\ Still("explorer", explorer_expanded = {} /\ explorer_disk["a"] = explorer_disk["b"])
    /\ Config!Init
    /\ Term!Init
    /\ Diff!Init
    /\ Git!Init /\ Still("git", git_tree["r1"].head = 0)
    /\ Find!Init
    /\ Watch!Init /\ Still("watch", watch_disk = {<<"r">>})

\* All but the one that moves.
Others ==
    /\ UNCHANGED part
    /\ IF part = "panel" THEN TRUE ELSE UNCHANGED panelVars
    /\ IF part = "files" THEN TRUE ELSE UNCHANGED filesVars
    /\ IF part = "closing" THEN TRUE ELSE UNCHANGED closingVars
    /\ IF part = "edits" THEN TRUE ELSE UNCHANGED editsVars
    /\ IF part = "drafts" THEN TRUE ELSE UNCHANGED draftsVars
    /\ IF part = "lock" THEN TRUE ELSE UNCHANGED lockVars
    /\ IF part = "search" THEN TRUE ELSE UNCHANGED searchVars
    /\ IF part = "lsp" THEN TRUE ELSE UNCHANGED lspVars
    /\ IF part = "remote" THEN TRUE ELSE UNCHANGED remoteVars
    /\ IF part = "connection" THEN TRUE ELSE UNCHANGED connectionVars
    /\ IF part = "navigation" THEN TRUE ELSE UNCHANGED navigationVars
    /\ IF part = "finder" THEN TRUE ELSE UNCHANGED finderVars
    /\ IF part = "explorer" THEN TRUE ELSE UNCHANGED explorerVars
    /\ IF part = "settings" THEN TRUE ELSE UNCHANGED settingsVars
    /\ IF part = "terminal" THEN TRUE ELSE UNCHANGED terminalVars
    /\ IF part = "diffs" THEN TRUE ELSE UNCHANGED diffsVars
    /\ IF part = "git" THEN TRUE ELSE UNCHANGED gitVars
    /\ IF part = "find" THEN TRUE ELSE UNCHANGED findVars
    /\ IF part = "watch" THEN TRUE ELSE UNCHANGED watchVars

Next ==
    \/ part = "panel" /\ Panel!Next /\ Others
    \/ part = "files" /\ Transaction!Next /\ Others
    \/ part = "closing" /\ Closing!Next /\ Others
    \/ part = "edits" /\ Edits!Next /\ Others
    \/ part = "drafts" /\ Store!Next /\ Others
    \/ part = "lock" /\ Lock!Next /\ Others
    \/ part = "search" /\ Search!Next /\ Others
    \/ part = "lsp" /\ Lsp!Next /\ Others
    \/ part = "remote" /\ Remote!Next /\ Others
    \/ part = "connection" /\ Link!Next /\ Others
    \/ part = "navigation" /\ Nav!Next /\ Others
    \/ part = "finder" /\ Finder!Next /\ Others
    \/ part = "explorer" /\ Tree!Next /\ Others
    \/ part = "settings" /\ Config!Next /\ Others
    \/ part = "terminal" /\ Term!Next /\ Others
    \/ part = "diffs" /\ Diff!Next /\ Others
    \/ part = "git" /\ Git!Next /\ Others
    \/ part = "find" /\ Find!Next /\ Others
    \/ part = "watch" /\ Watch!Next /\ Others

vars ==
    <<part, panelVars, filesVars, closingVars, editsVars, draftsVars, lockVars,
    searchVars, lspVars, remoteVars, connectionVars, navigationVars, finderVars,
    explorerVars, settingsVars, terminalVars, diffsVars, gitVars, findVars, watchVars>>

Spec == Init /\ [][Next]_vars

-----------------------------------------------------------------------------
(* The windows: what a user sees and asks for.                               *)

\* The user's own edits never turn into a conflict, and a conflict that is shown can be
\* resolved (EditSync, gui/pane.rs).
OwnWork == []Panel!ConflictResolvable /\ Panel!OwnWorkNeverConflicts

\* No tab goes with text that is neither saved nor recoverable, nor chosen to be discarded
\* (gui/workspace.rs, close_tab, request_close_window, leave_server).
NothingLost == Closing!NothingLost

\* Jumps arrive where they were to lead, Back leads to where they were asked for, and a
\* preview that is called off leaves no trace (gui/navigation.rs, gui/finder.rs).
JumpsLeadThereAndBack == Nav!Safety

\* The tree shows the window's own moves, copies, renames and deletions, and none of them
\* destroys a file it does not name; who watches a folder hears what changes in it
\* (gui/workspace.rs, daemon/fs.rs, daemon/fs_watch.rs).
TreeIsTrue == Tree!Safety /\ []Watch!WatchedIsKnown

\* No window replaces a setting it has not seen; the page shows its scope, and the daemon
\* goes by the file (gui/settings.rs, daemon/settings.rs).
SettingsAgree == Config!Safety

\* A panel that has been shown everything has the modes and the size of its terminal, and
\* reports no release without its press (gui/terminal.rs, daemon/session.rs).
TerminalInStep == Term!InStep

\* A diff tab shows all of both texts, side by side as far as they agree, and one without
\* its mark shows what the daemon has (gui/diff_view.rs).
DiffIsTrue == Diff!ShowsTheTruth

\* The git panel lists what git says, and what it is told to do is done in the repository
\* it listed (gui/workspace.rs, daemon/git.rs).
ListedIsMeant == Git!ListedIsMeant

\* Replacing is offered for what the text of this moment holds, and replaces what was
\* accepted (gui/editor_search.rs, client/search.rs).
ReplacedIsAccepted == Find!Safety

\* A window that says it is online has a connection (gui/ade.rs).
OnlineIsServed == Link!OnlineIsServed

\* The paths in the dialog are those of the text in it (gui/file_finder.rs,
\* daemon/server.rs).
PathsOfQuery == Finder!PathsOfQuery

-----------------------------------------------------------------------------
(* The daemon.                                                               *)

\* Of several files, all are changed or none, no original is lost whatever call fails, and
\* nothing another program wrote is destroyed (daemon/workspace_transaction.rs).
AllFilesOrNone == Transaction!Safety

\* An edit of a language server is applied whole or not at all, and its drafts are written
\* before its files (daemon/editor_worker/workspace_edits.rs).
AppliedWhole == Edits!Safety

\* A daemon that serves and was not asked to stop is found (daemon/daemon.rs, unix.rs).
Reachable == Lock!Reachable

\* What may be replaced was found for what the fields say, and a file is only rewritten if
\* it holds what the user saw (gui/workspace_search.rs, daemon/project_session.rs).
ReplacedAsReviewed == Search!Safety

\* An answer that is presented is about the text and the caret of that moment, and each
\* request is with somebody who will answer it (gui/lsp.rs, daemon/server.rs).
PresentedIsCurrent == Lsp!Safety

-----------------------------------------------------------------------------
(* What survives being cut off.                                             *)

\* The two files of the draft store are one register: DraftStore implements DraftRegister
\* (daemon/drafts.rs).
OneCopy == Store!OneCopy

\* What can be started stays startable through cut-off installs, and only the daemon that
\* is meant is stopped (app/bootstrap.rs).
RunnableKept == Remote!Safety

-----------------------------------------------------------------------------
(* What comes in the end, each component being scheduled as its code is.     *)

\* What a user has begun ends: closing tabs that wait for their saves, applying an edit,
\* saving a diff, a command of git.
BegunEnds ==
    /\ part = "closing" => (Closing!Fairness => Closing!CloseEnds)
    /\ part = "edits" => (Edits!Fairness => Edits!ApplyEnds)
    /\ part = "diffs" => (Diff!Fairness => Diff!SavesEnd)
    /\ part = "git" => (Git!Fairness => Git!BusyEnds)

\* What was asked is answered: by searches and replacements, by language servers, in the
\* finder, on the page of settings, by the panel of a terminal.
AskedIsAnswered ==
    /\ part = "search" => (Search!Fairness => Search!AnswersCome)
    /\ part = "lsp" => (Lsp!Fairness => Lsp!RequestsEnd)
    /\ part = "finder" => (Finder!Fairness => Finder!ResultsCome)
    /\ part = "settings" => (Config!Fairness => Config!PageSettles)
    /\ part = "terminal" => (Term!Fairness => Term!Answered)

\* Daemons and connections come to be as was asked for: a start finds a daemon, a remote
\* one is reached after whatever was cut off, a window is on or off in the end.
ConnectedAsWanted ==
    /\ part = "lock" => (Lock!Fairness => Lock!StartAnswered)
    /\ part = "remote" => (Remote!Fairness => Remote!ConnectedInTheEnd)
    /\ part = "connection" => (Link!Fairness => Link!Liveness)
=============================================================================
