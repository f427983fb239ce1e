----------------------------- MODULE RemoteDaemon -----------------------------
(***************************************************************************)
(* The way from a client to the daemon of a remote account (ssh/bootstrap.rs, *)
(* ssh/probe.rs, main.rs): look at the host over ssh, install or upgrade    *)
(* the daemon, start it, open a tunnel; and the restart of a window that has *)
(* one.  Every look is a command of its own, and every command may be cut    *)
(* off, before or after it did what it was sent for.                       *)
(*                                                                         *)
(* A version is "old" or "new", the client's own.  Ports and tokens are     *)
(* the number of the daemon that has them.                                 *)
(***************************************************************************)
EXTENDS Naturals, FiniteSets

CONSTANTS
    Clients,    \* the clients of the account, each with its RemoteControlHandle
    None,       \* nothing there
    Ops,        \* what happens in this instance, see OpNames
    MaxFaults,  \* bound: what goes wrong, and refusals of the user
    MaxRestarts \* bound: restarts

\* A command cut off, a daemon that dies, a tunnel that dies, a user who declines, a
\* user on the host who starts the daemon; a program that takes the local port first
\* ("squat"), two clients at once ("crowd").
OpNames == {"cut", "crash", "drop", "decline", "host", "squat", "crowd"}

Versions == {"old", "new"}

VARIABLES
    installed,  \* ~/.local/bin/fresh-gui: None, a version, or "torn"
    system,     \* the daemon found on PATH otherwise
    partial,    \* ~/.local/bin/fresh-gui.partial
    daemon,     \* the running daemon: None, or its number and version
    born,       \* how many daemons there have been
    boot,       \* how far each client is: step, last probe, binary at hand
    tunnel,     \* the ssh -N of each client: None, or the daemon it leads to
    session,    \* RemoteSession: None, or the daemon the window is sent to
    faults, restarts   \* how much has happened

host == <<installed, system, partial, daemon, born>>
vars == <<installed, system, partial, daemon, born, boot, tunnel, session, faults, restarts>>

Idle == [at |-> "idle", saw |-> None, has |-> None]

Init ==
    /\ installed \in {None, "old"} /\ system \in {None, "old"}
    /\ partial = None /\ daemon = None /\ born = 0
    /\ boot = [c \in Clients |-> Idle]
    /\ tunnel = [c \in Clients |-> None] /\ session = [c \in Clients |-> None]
    /\ faults = 0 /\ restarts = 0

Fault(op) == op \in Ops /\ faults < MaxFaults /\ faults' = faults + 1

Alone(c) == "crowd" \in Ops \/ \A d \in Clients \ {c} : boot[d].at = "idle"

-----------------------------------------------------------------------------
\* The host.

\* The probe's choice: the daemon installed by a client, then the one on PATH.
Binary   == IF installed # None THEN installed ELSE system
Runnable == Binary \in Versions

\* PROBE_SCRIPT and parse_probe.  A torn file does not tell a version, nor the status.
Probe == [binary  |-> Binary,
          running |-> IF Binary = "torn" THEN None ELSE daemon]

\* `fresh-gui --no-ui --json`: the daemon that runs, or a new one.
Started == IF daemon # None THEN daemon ELSE [id |-> born + 1, version |-> Binary]

-----------------------------------------------------------------------------
\* Steps of a client.
At(c, step) == boot[c].at = step
Goes(c, step) == boot' = [boot EXCEPT ![c].at = step]
Sees(c, step) == boot' = [boot EXCEPT ![c].at = step, ![c].saw = Probe]
Fails(c) == boot' = [boot EXCEPT ![c] = Idle]

\* A command over ssh: it is answered, or cut off.
Answered(ok, failed) ==
    \/ ok /\ UNCHANGED faults
    \/ failed /\ Fault("cut")

\* The tunnel of a client leads to the daemon it was told of.
Leads(c) == session[c] # None /\ tunnel[c] # None /\ daemon # None /\ session[c] = daemon.id

Local == UNCHANGED <<tunnel, session, restarts>>

\* A client that starts, or starts again: open_bootstrapped.
Connect(c) ==
    /\ At(c, "idle") /\ session[c] = None /\ Alone(c)
    /\ Goes(c, "probe")
    /\ Local /\ UNCHANGED <<host, faults>>

\* Mutant: the old tunnel is left alone.
RestartOver(c) ==
    /\ At(c, "idle") /\ session[c] # None /\ Alone(c)
    /\ restarts < MaxRestarts /\ restarts' = restarts + 1
    /\ session' = [session EXCEPT ![c] = None] /\ Goes(c, "look")
    /\ UNCHANGED <<host, tunnel, faults>>

\* RemoteControlHandle::restart: the session is taken out and its tunnel killed first.
Restart(c) ==
    /\ At(c, "idle") /\ session[c] # None /\ Alone(c)
    /\ restarts < MaxRestarts /\ restarts' = restarts + 1
    /\ session' = [session EXCEPT ![c] = None] /\ tunnel' = [tunnel EXCEPT ![c] = None]
    /\ Goes(c, "look")
    /\ UNCHANGED <<host, faults>>

Look(c) ==
    /\ At(c, "look")
    /\ Answered(IF Probe.running # None THEN Sees(c, "halt") ELSE Goes(c, "probe"), Fails(c))
    /\ Local /\ UNCHANGED host

\* `close` with the binary that was seen, whatever runs by now, and the look after it.
Closes(c, step, next) ==
    /\ At(c, step)
    /\ Answered(daemon' = None /\ Goes(c, next), daemon' \in {daemon, None} /\ Fails(c))
    /\ Local /\ UNCHANGED <<installed, system, partial, born>>

Halt(c) == Closes(c, "halt", "halted")

Gone(c, step, next) ==
    /\ At(c, step)
    /\ Answered(IF Probe.running # None THEN Fails(c) ELSE Goes(c, next), Fails(c))
    /\ Local /\ UNCHANGED host

Halted(c) == Gone(c, "halted", "probe")

\* The first look of bootstrap and what follows from it.
Next1(p) ==
    IF p.binary = None THEN "fetch"
    ELSE IF p.binary = "old" THEN "consent"
    ELSE IF p.running = None THEN "start" ELSE "dig"

LookFirst(c) ==
    /\ At(c, "probe")
    /\ Answered(IF Probe.binary = "torn" THEN Fails(c) ELSE Sees(c, Next1(Probe)), Fails(c))
    /\ Local /\ UNCHANGED host

\* consent_to_upgrade.
Consent(c) ==
    /\ At(c, "consent")
    /\ \/ Goes(c, "fetch") /\ UNCHANGED faults
       \/ Fails(c) /\ Fault("decline")
    /\ Local /\ UNCHANGED host

\* Mutant: it stops the session before it has the binary.
FetchAfterClose(c) ==
    /\ At(c, "fetch")
    /\ IF boot[c].saw.running # None /\ daemon # None
       THEN daemon' = None /\ UNCHANGED <<boot, faults>>
       ELSE /\ Answered(boot' = [boot EXCEPT ![c].has = "new", ![c].at = "copy"], Fails(c))
            /\ UNCHANGED daemon
    /\ Local /\ UNCHANGED <<installed, system, partial, born>>

\* materialize_daemon: what the user or the latest release provides; for an upgrade the
\* release of the client's own version and the libc of the host.
Provided(c) == IF boot[c].saw.binary = None THEN Versions ELSE {"new"}

Fetch(c) ==
    /\ At(c, "fetch")
    /\ \E v \in Provided(c) :
          Answered(boot' = [boot EXCEPT ![c].has = v,
                              ![c].at = IF boot[c].saw.running # None THEN "close" ELSE "copy"],
                   Fails(c))
    /\ Local /\ UNCHANGED host

Close(c)  == Closes(c, "close", "closed")
Closed(c) == Gone(c, "closed", "copy")

\* Mutant: the copy goes to the place of the daemon.
CopyInPlace(c) ==
    /\ At(c, "copy")
    /\ installed' = "torn" /\ Goes(c, "copying")
    /\ Local /\ UNCHANGED <<system, partial, daemon, born, faults>>

\* scp truncates the partial file, and fills it.
Copy(c) ==
    /\ At(c, "copy")
    /\ partial' = "torn" /\ Goes(c, "copying")
    /\ Local /\ UNCHANGED <<installed, system, daemon, born, faults>>

Copied(c) ==
    /\ At(c, "copying")
    /\ Answered(partial' = boot[c].has /\ Goes(c, "finish"), UNCHANGED partial /\ Fails(c))
    /\ Local /\ UNCHANGED <<installed, system, daemon, born>>

\* FINISH_INSTALL: one rename.
Rename == IF partial = None THEN UNCHANGED <<installed, partial>>
          ELSE installed' = partial /\ partial' = None

Finish(c) ==
    /\ At(c, "finish")
    /\ Answered(/\ Rename
                /\ IF partial = None THEN Fails(c)
                   ELSE IF boot[c].saw.binary = None THEN Goes(c, "start") ELSE Goes(c, "verify"),
                /\ Rename \/ UNCHANGED <<installed, partial>>
                /\ Fails(c))
    /\ Local /\ UNCHANGED <<system, daemon, born>>

\* The look after an upgrade.
Verify(c) ==
    /\ At(c, "verify")
    /\ Answered(IF Probe.binary # "new" \/ Probe.running # None THEN Fails(c)
                ELSE Sees(c, "start"), Fails(c))
    /\ Local /\ UNCHANGED host

\* ssh_start: a torn file does not run.
Start(c) ==
    /\ At(c, "start")
    /\ IF ~Runnable
       THEN Fails(c) /\ UNCHANGED <<daemon, born, faults>>
       ELSE /\ Answered(daemon' = Started /\ Goes(c, "check"),
                        daemon' \in {daemon, Started} /\ Fails(c))
            /\ born' = IF daemon' = None THEN born ELSE daemon'.id
    /\ Local /\ UNCHANGED <<installed, system, partial>>

\* probe_after_start.
Check(c) ==
    /\ At(c, "check")
    /\ Answered(IF Probe.running = None THEN Fails(c) ELSE Sees(c, "dig"), Fails(c))
    /\ Local /\ UNCHANGED host

\* pick_local_port, and the spawn of ssh -N.
Dig(c) ==
    /\ At(c, "dig")
    /\ tunnel' = [tunnel EXCEPT ![c] = boot[c].saw.running.id]
    /\ Goes(c, "wait")
    /\ UNCHANGED <<host, session, restarts, faults>>

\* wait_local_port: the port accepts, ssh ended, or twenty seconds went by.  A program
\* that took the port accepts as well, if it is asked before ssh is seen to have ended.
Wait(c) ==
    /\ At(c, "wait")
    /\ \/ /\ tunnel[c] # None
          /\ session' = [session EXCEPT ![c] = boot[c].saw.running.id]
          /\ Fails(c) /\ UNCHANGED <<tunnel, faults>>
       \/ tunnel[c] = None /\ Fails(c) /\ UNCHANGED <<session, tunnel, faults>>
       \/ /\ Fault("cut") /\ tunnel' = [tunnel EXCEPT ![c] = None]
          /\ Fails(c) /\ UNCHANGED session
       \/ /\ Fault("squat")
          /\ session' = [session EXCEPT ![c] = boot[c].saw.running.id]
          /\ tunnel' = [tunnel EXCEPT ![c] = None]
          /\ Fails(c)
    /\ UNCHANGED <<host, restarts>>

-----------------------------------------------------------------------------
\* What goes on elsewhere.
Crash ==
    /\ daemon # None /\ Fault("crash") /\ daemon' = None
    /\ UNCHANGED <<installed, system, partial, born, boot, tunnel, session, restarts>>

Drop(c) ==
    /\ tunnel[c] # None /\ Fault("drop") /\ tunnel' = [tunnel EXCEPT ![c] = None]
    /\ UNCHANGED <<host, boot, session, restarts>>

\* Somebody on the host runs `fresh-gui`.
HostStart ==
    /\ Runnable /\ daemon = None /\ Fault("host")
    /\ daemon' = Started /\ born' = daemon'.id
    /\ UNCHANGED <<installed, system, partial, boot, tunnel, session, restarts>>

\* A window that has lost its daemon, or was closed, drops its session; the next
\* command line connects again.
Leave(c) ==
    /\ At(c, "idle") /\ session[c] # None /\ ~Leads(c)
    /\ session' = [session EXCEPT ![c] = None] /\ tunnel' = [tunnel EXCEPT ![c] = None]
    /\ UNCHANGED <<host, boot, faults, restarts>>

Steps(c) ==
    \/ Look(c) \/ Halt(c) \/ Halted(c) \/ LookFirst(c) \/ Consent(c) \/ Fetch(c)
    \/ Close(c) \/ Closed(c) \/ Copy(c) \/ Copied(c) \/ Finish(c) \/ Verify(c)
    \/ Start(c) \/ Check(c) \/ Dig(c) \/ Wait(c)

Next ==
    \/ \E c \in Clients : Connect(c) \/ Restart(c) \/ Steps(c) \/ Drop(c) \/ Leave(c)
    \/ Crash \/ HostStart

Spec == Init /\ [][Next]_vars

\* Commands end, by themselves or by ssh's ServerAliveInterval; users answer, notice that
\* their window is lost, and try again.
Fairness ==
    \A c \in Clients :
        /\ WF_vars(Steps(c)) /\ SF_vars(Connect(c)) /\ WF_vars(Leave(c))

FairSpec == Spec /\ Fairness

-----------------------------------------------------------------------------
\* Once there is a daemon to run on the host there always is one: no install or upgrade,
\* cut off wherever, leaves a file that does not start (FINISH_INSTALL).
RunnableKept ==
    [][Runnable => Runnable']_vars

\* A running session is stopped by a restart that was asked for, or by an upgrade that
\* has the new daemon at hand, and then only if it is the old one that is stopped
\* (bootstrap: "before stopping the remote session").
StopsAgreed ==
    [][daemon # None /\ daemon' = None =>
        \/ Crash
        \/ \E c \in Clients :
              /\ boot'[c] # boot[c]
              /\ At(c, "halt") \/ (boot[c].has = "new" /\ daemon.version = "old")]_vars

\* No ssh -N is left behind: a tunnel is that of a session, or is being opened.
OneTunnel ==
    \A c \in Clients : tunnel[c] # None => session[c] # None \/ At(c, "wait")

\* Whatever was cut off, declined or crashed on the way, trying again gets there in
\* the end: no state of the host is beyond a new attempt.
ConnectedInTheEnd ==
    <>[](\A c \in Clients : Leads(c))

\* Bootstraps of two clients, cut off anywhere, leave the host fit for the next.
Safety == []OneTunnel /\ RunnableKept /\ StopsAgreed
=============================================================================
