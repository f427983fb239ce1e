----------------------------- MODULE Terminal ------------------------------
(* Terminal: one pseudo terminal of the daemon, its scrollback                *)
(* (session.rs), and the panel that shows it (gui/terminal.rs, gui/pane.rs). *)
(*                                                                           *)
(* A byte is text, a question of the program, or half of a sequence that     *)
(* sets or resets a mode, which may be cut anywhere: its head ESC [ ?, and   *)
(* the rest of it.                                                           *)
EXTENDS Naturals, Sequences, SequencesExt, FiniteSets

CONSTANTS
  Modes,        \* the DEC private modes the program uses
  Sizes,        \* the sizes a panel is laid out with
  Default,      \* 80 x 24
  Buttons,      \* of the mouse; "left" selects text
  Kept,         \* SCROLLBACK_MAX
  MaxOutput,    \* bound: what the program writes
  MaxInputs,    \* bound: what the user does
  None

SyncUpdate == 2026
Alt == {47, 1047, 1049}
Mouse == {1000, 1002, 1003}

Byte(k, m, on) == [kind |-> k, mode |-> m, on |-> on]
Text == Byte("text", 0, FALSE)
Ask == Byte("ask", 0, FALSE)
Escape == Byte("head", 0, FALSE)
Rest(m, on) == Byte("rest", m, on)
Sequence(m, on) == <<Escape, Rest(m, on)>>

VARIABLES
  program,    \* modes it has set, whether it waits for an answer, the buttons it knows to be pressed
  out,        \* bytes the pseudo terminal holds
  slot,       \* PtySlot of the daemon
  wire,       \* PtyData on its way to the window
  back,       \* WritePty and ResizePty on their way to the daemon
  panel,      \* TerminalPanel and its TermScreen, None when the window is not attached
  mouse,      \* the buttons the user holds down
  outputs, inputs

vars == <<program, out, slot, wire, back, panel, mouse, outputs, inputs>>

-----------------------------------------------------------------------------
(* The daemon's scrollback.                                                  *)

\* One bit stands for all aliases of the alternate screen.
Tracks(modes, m, on) ==
  IF m \in Alt THEN (modes \ Alt) \cup {a \in {1049} : on} ELSE (modes \ {m}) \cup {x \in {m} : on}

\* track_dec_modes: a sequence that is not complete is carried on.
Tracked(t, b) ==
  IF b = Escape THEN [t EXCEPT !.carry = <<Escape>>]
  ELSE IF b.kind = "rest" /\ t.carry # <<>>
       THEN [carry |-> <<>>, modes |-> Tracks(t.modes, b.mode, b.on)]
       ELSE [t EXCEPT !.carry = <<>>]

\* push_scrollback: the oldest byte is evicted, and the modes it set are kept.
PushScrollback(s, b) ==
  LET t == Tracked([modes |-> s.before, carry |-> s.carry], Head(s.scroll))
  IN  IF Len(s.scroll) < Kept THEN [s EXCEPT !.scroll = Append(@, b)]
      ELSE [s EXCEPT !.scroll = Append(Tail(@), b), !.before = t.modes, !.carry = t.carry]

\* Mutant: what was carried is not put back.
ReplayRetained(s) ==
  FlattenSeq([i \in 1..Cardinality(s.before) |-> Sequence(SetToSortSeq(s.before, <)[i], TRUE)]) \o s.scroll

\* attach: the modes at the boundary, what was cut off a sequence, and what is retained.
Replay(s) ==
  FlattenSeq([i \in 1..Cardinality(s.before) |-> Sequence(SetToSortSeq(s.before, <)[i], TRUE)])
    \o s.carry \o s.scroll

-----------------------------------------------------------------------------
(* The screen of the panel: the terminal emulator is modelled from how it is *)
(* used.                                                                     *)

\* The mouse modes exclude each other; the aliases of the alternate screen are normalized.
SetMode(modes, m, on) ==
  LET gone == IF m \in Alt THEN Alt ELSE IF m \in Mouse /\ on THEN Mouse ELSE {m}
      kept == IF m \in Alt THEN 1049 ELSE m
  IN  (modes \ gone) \cup {x \in {kept} : on}

NewScreen == [modes |-> {}, carry |-> <<>>, held |-> FALSE, buffer |-> <<>>, replies |-> 0, size |-> Default]

Show(s, b) ==
  CASE b = Escape -> [s EXCEPT !.carry = <<Escape>>]
    [] b = Ask -> [s EXCEPT !.carry = <<>>, !.replies = @ + 1]
    [] b.kind = "rest" /\ s.carry # <<>> /\ b.mode # SyncUpdate ->
         [s EXCEPT !.carry = <<>>, !.modes = SetMode(@, b.mode, b.on)]
    [] OTHER -> [s EXCEPT !.carry = <<>>]

\* stop_sync: what was held back is shown.
StopSync(s) ==
  LET ShowIn(S, b) == {Show(x, b) : x \in S}
  IN  CHOOSE x \in FoldLeft(ShowIn, {[s EXCEPT !.held = FALSE, !.buffer = <<>>]}, s.buffer) : TRUE

EndsUpdate(bytes) == IsSuffix(Sequence(SyncUpdate, FALSE), bytes)

\* feed: in a synchronized update the bytes are held back until its end.
Feed(s, b) ==
  IF s.held
  THEN LET h == [s EXCEPT !.buffer = Append(@, b)]
       IN  IF EndsUpdate(h.buffer) THEN StopSync(h) ELSE h
  ELSE IF s.carry # <<>> /\ b = Rest(SyncUpdate, TRUE) THEN [s EXCEPT !.carry = <<>>, !.held = TRUE]
       ELSE Show(s, b)

Tracking == panel.screen.modes \cap Mouse # {}

-----------------------------------------------------------------------------
NewPanel == [screen |-> NewScreen, armed |-> FALSE, grid |-> None, selecting |-> FALSE, pressed |-> None]

Init ==
  /\ program = [modes |-> {}, waits |-> FALSE, pressed |-> {}]
  /\ out = <<>> /\ wire = <<>> /\ back = <<>>
  /\ slot = [scroll |-> <<>>, before |-> {}, carry |-> <<>>, size |-> Default]
  /\ panel = NewPanel /\ mouse = {}
  /\ outputs = 0 /\ inputs = 0

Attached == panel # None
User == inputs < MaxInputs /\ inputs' = inputs + 1
Writes == ~program.waits /\ outputs < MaxOutput /\ outputs' = outputs + 1

(* The program.                                                              *)
Prints ==
  /\ Writes /\ out' = Append(out, Text)
  /\ UNCHANGED <<program, slot, wire, back, panel, mouse, inputs>>

SetsMode(m, on) ==
  /\ Writes /\ out' = out \o Sequence(m, on)
  /\ program' = [program EXCEPT !.modes = IF m = SyncUpdate THEN @ ELSE SetMode(@, m, on)]
  /\ UNCHANGED <<slot, wire, back, panel, mouse, inputs>>

\* A question of the program (device attributes, the cursor's position), which it waits for.
Asks ==
  /\ Writes /\ out' = Append(out, Ask)
  /\ program' = [program EXCEPT !.waits = TRUE]
  /\ UNCHANGED <<slot, wire, back, panel, mouse, inputs>>

(* The daemon.                                                               *)

\* The reader thread and on_pty_output. A chunk is a byte here: what is read may end anywhere, and
\* a longer chunk does what its bytes do.
OnPtyOutput ==
  /\ out # <<>> /\ out' = Tail(out)
  /\ slot' = PushScrollback(slot, Head(out))
  /\ wire' = IF Attached THEN Append(wire, Head(out)) ELSE wire
  /\ UNCHANGED <<program, back, panel, mouse, outputs, inputs>>

\* resize_pty.
ResizePty(m) ==
  /\ m.op = "resize"
  /\ slot' = [slot EXCEPT !.size = m.size] /\ UNCHANGED program

\* write_pty: an answer, or a report of the mouse.
WritePty(m) ==
  /\ m.op # "resize" /\ UNCHANGED slot
  /\ program' = CASE m.op = "answer" -> [program EXCEPT !.waits = FALSE]
                  [] m.op = "down" -> [program EXCEPT !.pressed = @ \cup {m.button}]
                  [] m.op = "drag" -> program
                  [] m.op = "up" -> [program EXCEPT !.pressed = @ \ {m.button}]

Handle ==
  /\ back # <<>> /\ back' = Tail(back)
  /\ ResizePty(Head(back)) \/ WritePty(Head(back))
  /\ UNCHANGED <<out, wire, panel, mouse, outputs, inputs>>

(* The panel.                                                                *)
Answers(s) == IF s.replies = 0 THEN <<>> ELSE <<[op |-> "answer"]>>

\* Mutant: nobody watches the deadline.
ArmOnce(p, s) == [p EXCEPT !.screen = [s EXCEPT !.replies = 0]]

\* arm_sync_timeout.
Arm(p, s) == [p EXCEPT !.screen = [s EXCEPT !.replies = 0], !.armed = s.held]

\* push_bytes; events of one terminal are joined before.
PushBytes ==
  /\ Attached /\ wire # <<>> /\ wire' = Tail(wire)
  /\ \E s \in {Feed(panel.screen, Head(wire))} :
       panel' = Arm(panel, s) /\ back' = back \o Answers(s)
  /\ UNCHANGED <<program, out, slot, mouse, outputs, inputs>>

\* The deadline of a synchronized update passes.
StopSyncIfExpired ==
  /\ Attached /\ panel.armed
  /\ \E s \in {StopSync(panel.screen)} :
       panel' = Arm(panel, s) /\ back' = back \o Answers(s)
  /\ UNCHANGED <<program, out, slot, wire, mouse, outputs, inputs>>

\* The panel is laid out with another size.
Layout(g) ==
  /\ User /\ Attached
  /\ panel' = [panel EXCEPT !.grid = g]
  /\ UNCHANGED <<program, out, slot, wire, back, mouse, outputs>>

\* Mutant: a size that is on its way is not followed by another.
Told(g) ==
  IF \E i \in DOMAIN back : back[i].op = "resize" THEN back ELSE Append(back, [op |-> "resize", size |-> g])
ResizeTold ==
  /\ Attached /\ panel.grid \notin {None, panel.screen.size}
  /\ panel' = [panel EXCEPT !.screen.size = panel.grid]
  /\ back' = Told(panel.grid)
  /\ UNCHANGED <<program, out, slot, wire, mouse, outputs, inputs>>

\* render, when the size has settled.
Resize ==
  /\ Attached /\ panel.grid \notin {None, panel.screen.size}
  /\ panel' = [panel EXCEPT !.screen.size = panel.grid]
  /\ back' = Append(back, [op |-> "resize", size |-> panel.grid])
  /\ UNCHANGED <<program, out, slot, wire, mouse, outputs, inputs>>

Report(op, b) == back' = Append(back, [op |-> op, button |-> b])

\* on_mouse_button: a report, or the start of a selection.
MouseDown(b, shift) ==
  /\ User /\ Attached /\ b \notin mouse
  /\ mouse' = mouse \cup {b}
  /\ LET selects == b = "left" /\ (shift \/ ~Tracking)
     IN  /\ panel' = IF selects THEN [panel EXCEPT !.pressed = None, !.selecting = TRUE]
                     ELSE IF Tracking THEN [panel EXCEPT !.pressed = b, !.selecting = FALSE] ELSE panel
         /\ IF Tracking /\ ~selects THEN Report("down", b) ELSE UNCHANGED back
  /\ UNCHANGED <<program, out, slot, wire, outputs>>

\* Mutant: any button that goes up is reported.
ReleaseAny(b) ==
  /\ panel' = [panel EXCEPT !.pressed = None]
  /\ IF Tracking THEN Report("up", b) ELSE UNCHANGED back

\* release_mouse, of the button that was reported.
Release(b) ==
  /\ panel' = IF panel.pressed = b THEN [panel EXCEPT !.pressed = None] ELSE panel
  /\ IF panel.pressed = b /\ Tracking THEN Report("up", b) ELSE UNCHANGED back

MouseUp(b) ==
  /\ b \in mouse /\ mouse' = mouse \ {b}
  /\ IF ~Attached THEN UNCHANGED <<panel, back>>
     ELSE IF panel.selecting /\ b = "left"
          THEN panel' = [panel EXCEPT !.selecting = FALSE] /\ UNCHANGED back
          ELSE Release(b)
  /\ UNCHANGED <<program, out, slot, wire, outputs, inputs>>

\* on_pointer_move: a drag is reported of the button that was.
PointerMove ==
  /\ User /\ Attached /\ ~panel.selecting
  /\ panel.pressed # None /\ panel.screen.modes \cap {1002, 1003} # {}
  /\ Report("drag", panel.pressed)
  /\ UNCHANGED <<program, out, slot, wire, panel, mouse, outputs>>

\* The window leaves the workspace, or its connection breaks.
DetachSubscriber ==
  /\ User /\ Attached
  /\ panel' = None /\ wire' = <<>> /\ back' = <<>>
  /\ UNCHANGED <<program, out, slot, mouse, outputs>>

\* A window attaches, and makes a panel: what is retained comes first.
Attach ==
  /\ ~Attached
  /\ panel' = NewPanel
  /\ wire' = IF slot.scroll = <<>> /\ slot.before = {} THEN <<>> ELSE Replay(slot)
  /\ UNCHANGED <<program, out, slot, back, mouse, outputs, inputs>>

-----------------------------------------------------------------------------
Next ==
  \/ Prints \/ Asks \/ OnPtyOutput \/ Handle \/ PushBytes \/ StopSyncIfExpired \/ Resize \/ PointerMove \/ DetachSubscriber \/ Attach
  \/ \E m \in Modes, on \in BOOLEAN : SetsMode(m, on)
  \/ \E g \in Sizes : Layout(g)
  \/ \E b \in Buttons, shift \in BOOLEAN : MouseDown(b, shift)
  \/ \E b \in Buttons : MouseUp(b)

Spec == Init /\ [][Next]_vars

\* Sockets and the reader thread go on, timers fire, and a window draws its panels.
Fairness ==
  /\ WF_vars(Handle) /\ WF_vars(StopSyncIfExpired) /\ WF_vars(Resize)
  /\ WF_vars(OnPtyOutput) /\ WF_vars(PushBytes)

FairSpec == Spec /\ Fairness

-----------------------------------------------------------------------------
(* Properties.                                                               *)

\* A panel that was shown everything has the modes of one that was never away (session.rs:68).
ModesFollow ==
  Attached /\ wire = <<>> /\ out = <<>> /\ ~panel.screen.held => panel.screen.modes = program.modes

\* A size that has settled is the one the pseudo terminal has (pane.rs:735).
SizesAgree ==
  Attached /\ back = <<>> /\ panel.grid = panel.screen.size => slot.size = panel.grid

\* A release, or a drag, is reported of a button whose press was (pane.rs:379).
ReleasesPaired ==
  \A i \in DOMAIN back : back[i].op \in {"up", "drag"} =>
    back[i].button \in program.pressed
      \/ \E j \in 1..(i - 1) : back[j].op = "down" /\ back[j].button = back[i].button

\* A program that waits for an answer of a panel gets it (pane.rs:243).
Answered == program.waits /\ Attached ~> ~program.waits \/ ~Attached

\* Program, pseudo terminal and panel are in step.
InStep == ModesFollow /\ SizesAgree /\ ReleasesPaired
=============================================================================
