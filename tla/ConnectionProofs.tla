---------------------------- MODULE ConnectionProofs ----------------------------
(***************************************************************************)
(* What holds of Connection whatever its constants: a window that says it  *)
(* is online is, however often it has been told to reconnect, to restart   *)
(* its daemon or to stop it, whatever becomes of the threads it has left   *)
(* behind and whenever a job of its ends.                                  *)
(*                                                                         *)
(* The invariant follows the word "connected" on its way from the thread   *)
(* to the window: as long as it is there, the thread serves or has sent    *)
(* word of its end after it.                                               *)
(***************************************************************************)
EXTENDS Connection, SequenceTheorems, TLAPS

Words   == {"connecting", "connected", "disconnected"}
Targets == Nat \cup {None}

Threads == [at : {"start", "dial", "hung", "boot", "open", "gone"}, target : Targets,
            quit : BOOLEAN, events : Seq(Words)]
Jobs    == [what : {"restart", "stop"}, at : {"cut", "close", "start", "done"}, result : Targets]

Typed ==
    /\ daemon \in Targets /\ target \in Targets /\ born \in Nat
    /\ threads \in Seq(Threads) /\ threads # <<>> /\ jobs \in Seq(Jobs)

Serving(t) == t.at = "open" /\ ~t.quit

EndToldAfter(t, i) == \E k \in DOMAIN t.events : k > i /\ t.events[k] = "disconnected"

\* What the window shows, and what it has yet to be told, of its thread.
Tells(t, shown) ==
    /\ shown = "online" => Serving(t) \/ EndToldAfter(t, 0)
    /\ \A i \in DOMAIN t.events : t.events[i] = "connected" => Serving(t) \/ EndToldAfter(t, i)
    /\ t.quit => /\ t.at \in {"hung", "open", "gone"} /\ shown # "online"
                 /\ \A i \in DOMAIN t.events : t.events[i] # "connected"

IInv == Typed /\ Tells(threads[Current], conn)

-----------------------------------------------------------------------------
(* Steps of a thread.                                                      *)

LEMMA SeqGrows ==
    ASSUME NEW S, NEW s \in Seq(S), NEW u \in Seq(S)
    PROVE  /\ s \o u \in Seq(S) /\ Len(s \o u) = Len(s) + Len(u)
           /\ \A i \in 1..Len(s) : (s \o u)[i] = s[i]
           /\ \A i \in 1..Len(u) : (s \o u)[Len(s) + i] = u[i]
  OBVIOUS

LEMMA OneWord ==
    /\ <<>> \in Seq(Words)
    /\ \A w \in Words : <<w>> \in Seq(Words)
  OBVIOUS

LEMMA BecomesIs ==
    ASSUME Typed, NEW g \in DOMAIN threads, NEW at, NEW words \in Seq(Words),
           at \in {"start", "dial", "hung", "boot", "open", "gone"}, Becomes(g, at, words)
    PROVE  /\ threads' \in Seq(Threads) /\ Len(threads') = Len(threads)
           /\ \A h \in DOMAIN threads : h # g => threads'[h] = threads[h]
           /\ threads'[g] = [threads[g] EXCEPT !.at = at, !.events = @ \o words]
<1>1. threads[g] \in Threads
  BY DEF Typed
<1>2. threads[g].events \o words \in Seq(Words)
  BY <1>1, SeqGrows DEF Threads
<1>. DEFINE t == [threads[g] EXCEPT !.at = at, !.events = @ \o words]
<1>3. t \in Threads
  BY <1>1, <1>2 DEF Threads
<1>4. threads' = [threads EXCEPT ![g] = t]
  BY <1>1 DEF Becomes, Threads
<1>. HIDE DEF t
<1>5. threads' \in Seq(Threads) /\ Len(threads') = Len(threads)
  BY <1>3, <1>4 DEF Typed
<1>6. threads'[g] = t /\ \A h \in DOMAIN threads : h # g => threads'[h] = threads[h]
  BY <1>4 DEF Typed
<1>. QED BY <1>5, <1>6 DEF t

\* A thread that goes on, of which the window is told nothing or that it has ended.
LEMMA TellsOn ==
    ASSUME NEW t \in Threads, NEW shown, Tells(t, shown), NEW at, NEW words,
           words \in {<<>>, <<"connecting">>, <<"disconnected">>},
           at \in {"start", "dial", "hung", "boot", "open", "gone"},
           t.quit => at \in {"hung", "open", "gone"},
           Serving(t) => words = <<"disconnected">> \/ at = "open"
    PROVE  Tells([t EXCEPT !.at = at, !.events = @ \o words], shown)
<1>. DEFINE u == [t EXCEPT !.at = at, !.events = @ \o words]
<1>1. words \in Seq(Words) /\ t.events \in Seq(Words)
  <2>1. <<"connecting">> \in Seq(Words) /\ <<"disconnected">> \in Seq(Words)
    BY OneWord DEF Words
  <2>2. t.events \in Seq(Words)
    BY DEF Threads
  <2>. QED BY <2>1, <2>2, OneWord
<1>2. u.at = at /\ u.quit = t.quit /\ u.events = t.events \o words
  BY DEF Threads
<1>. HIDE DEF u
<1>3. /\ DOMAIN u.events = 1..(Len(t.events) + Len(words)) /\ DOMAIN t.events = 1..Len(t.events)
      /\ \A i \in 1..Len(t.events) : u.events[i] = t.events[i]
      /\ \A i \in 1..Len(words) : u.events[Len(t.events) + i] = words[i]
  BY <1>1, <1>2, SeqGrows
<1>4. Len(words) \in {0, 1} /\ \A i \in 1..Len(words) : words[i] # "connected"
  OBVIOUS
<1>5. \A i \in DOMAIN u.events : u.events[i] = "connected" => i \in DOMAIN t.events
  <2>. SUFFICES ASSUME NEW i \in DOMAIN u.events, i \notin DOMAIN t.events
                PROVE  u.events[i] # "connected"
    OBVIOUS
  <2>1. i - Len(t.events) \in 1..Len(words) /\ i = Len(t.events) + (i - Len(t.events))
    BY <1>1, <1>3, <1>4
  <2>. QED BY <2>1, <1>3, <1>4
<1>6. \A i \in Nat : EndToldAfter(t, i) => EndToldAfter(u, i)
  BY <1>1, <1>3, <1>4 DEF EndToldAfter
<1>7. \A i \in Nat : (i = 0 \/ i \in DOMAIN t.events) /\ Serving(t) => Serving(u) \/ EndToldAfter(u, i)
  <2>. SUFFICES ASSUME NEW i \in Nat, i = 0 \/ i \in DOMAIN t.events, Serving(t), ~Serving(u)
                PROVE  EndToldAfter(u, i)
    OBVIOUS
  <2>1. words = <<"disconnected">>
    BY <1>2 DEF Serving
  <2>2. Len(t.events) + 1 \in DOMAIN u.events /\ u.events[Len(t.events) + 1] = "disconnected"
    BY <2>1, <1>1, <1>3
  <2>3. Len(t.events) + 1 > i
    BY <1>1
  <2>. QED BY <2>2, <2>3 DEF EndToldAfter
<1>. QED BY <1>1, <1>2, <1>3, <1>5, <1>6, <1>7 DEF Tells, u

\* A thread that is connected, for the first time and not told to end.
LEMMA TellsConnected ==
    ASSUME NEW t \in Threads, NEW shown, Tells(t, shown), t.at = "boot"
    PROVE  Tells([t EXCEPT !.at = "open", !.events = @ \o <<"connected">>], shown)
<1>. DEFINE u == [t EXCEPT !.at = "open", !.events = @ \o <<"connected">>]
<1>1. u.at = "open" /\ u.quit = t.quit
  BY DEF Threads
<1>2. ~t.quit
  BY DEF Tells
<1>. QED BY <1>1, <1>2 DEF Tells, Serving

\* A step of a thread leaves the window, and hence what it is told, to that thread.
LEMMA BecomesTells ==
    ASSUME IInv, NEW g \in DOMAIN threads, NEW at, NEW words \in Seq(Words),
           at \in {"start", "dial", "hung", "boot", "open", "gone"}, Becomes(g, at, words),
           UNCHANGED conn,
           g = Current =>
              Tells([threads[g] EXCEPT !.at = at, !.events = @ \o words], conn)
    PROVE  threads' \in Seq(Threads) /\ threads' # <<>> /\ Tells(threads[Current], conn)'
<1>1. /\ threads' \in Seq(Threads) /\ Len(threads') = Len(threads)
      /\ \A h \in DOMAIN threads : h # g => threads'[h] = threads[h]
      /\ threads'[g] = [threads[g] EXCEPT !.at = at, !.events = @ \o words]
  BY BecomesIs DEF IInv
<1>2. Current' = Current /\ Current \in DOMAIN threads
  BY <1>1 DEF Current, IInv, Typed
<1>3. threads' # <<>>
  BY <1>1 DEF IInv, Typed
<1>4. threads[Current]' = threads'[Current]
  BY <1>2
<1>5. CASE g = Current
  BY <1>1, <1>3, <1>4, <1>5
<1>6. CASE g # Current
  BY <1>1, <1>2, <1>3, <1>4, <1>6 DEF IInv
<1>. QED BY <1>5, <1>6

LEMMA ThreadInv ==
    ASSUME IInv, NEW g \in DOMAIN threads,
           StartThread(g) \/ Dial(g) \/ Boot(g) \/ Hang(g) \/ Quit(g) \/ Lose(g)
    PROVE  IInv'
<1>. DEFINE t == threads[g]
<1>1. t \in Threads
  BY DEF IInv, Typed
<1>2. g = Current => Tells(t, conn)
  BY DEF IInv
<1>3. /\ UNCHANGED <<daemon, target, born, jobs, conn>>
  BY DEF StartThread, Dial, Boot, Hang, Quit, Lose, world, Window
<1>4. \E at, words :
         /\ words \in Seq(Words) /\ at \in {"start", "dial", "hung", "boot", "open", "gone"}
         /\ Becomes(g, at, words)
         /\ g = Current => Tells([t EXCEPT !.at = at, !.events = @ \o words], conn)
  <2>1. CASE StartThread(g)
    <3>1. t.at = "start" /\ Becomes(g, "dial", <<"connecting">>)
      BY <2>1 DEF StartThread
    <3>2. g = Current => Tells([t EXCEPT !.at = "dial", !.events = @ \o <<"connecting">>], conn)
      <4>1. g = Current => ~t.quit
        BY <1>2, <3>1 DEF Tells
      <4>. QED BY <1>1, <1>2, <3>1, <4>1, TellsOn DEF Serving
    <3>. QED BY <3>1, <3>2, OneWord DEF Words
  <2>2. CASE Dial(g)
    <3>1. t.at = "dial"
      BY <2>2 DEF Dial
    <3>2. g = Current => ~t.quit
      BY <1>2, <3>1 DEF Tells
    <3>3. CASE Becomes(g, "boot", <<>>)
      <4>1. g = Current => Tells([t EXCEPT !.at = "boot", !.events = @ \o <<>>], conn)
        BY <1>1, <1>2, <3>1, <3>2, TellsOn DEF Serving
      <4>. QED BY <3>3, <4>1, OneWord
    <3>4. CASE Becomes(g, "gone", <<"disconnected">>)
      <4>1. g = Current => Tells([t EXCEPT !.at = "gone", !.events = @ \o <<"disconnected">>], conn)
        BY <1>1, <1>2, <3>1, <3>2, TellsOn DEF Serving
      <4>. QED BY <3>4, <4>1, OneWord DEF Words
    <3>. QED BY <2>2, <3>3, <3>4 DEF Dial
  <2>3. CASE Boot(g)
    <3>1. t.at = "boot"
      BY <2>3 DEF Boot
    <3>2. g = Current => ~t.quit
      BY <1>2, <3>1 DEF Tells
    <3>3. CASE Becomes(g, "open", <<"connected">>)
      <4>1. g = Current => Tells([t EXCEPT !.at = "open", !.events = @ \o <<"connected">>], conn)
        BY <1>1, <1>2, <3>1, TellsConnected
      <4>. QED BY <3>3, <4>1, OneWord DEF Words
    <3>4. CASE Becomes(g, "gone", <<"disconnected">>)
      <4>1. g = Current => Tells([t EXCEPT !.at = "gone", !.events = @ \o <<"disconnected">>], conn)
        BY <1>1, <1>2, <3>1, <3>2, TellsOn DEF Serving
      <4>. QED BY <3>4, <4>1, OneWord DEF Words
    <3>. QED BY <2>3, <3>3, <3>4 DEF Boot
  <2>4. CASE Hang(g)
    <3>1. t.at = "dial" /\ Becomes(g, "hung", <<>>)
      BY <2>4 DEF Hang
    <3>2. g = Current => Tells([t EXCEPT !.at = "hung", !.events = @ \o <<>>], conn)
      BY <1>1, <1>2, <3>1, TellsOn DEF Serving
    <3>. QED BY <3>1, <3>2, OneWord
  <2>5. CASE Quit(g)
    <3>1. t.at = "open" /\ t.quit /\ Becomes(g, "gone", <<>>)
      BY <2>5 DEF Quit
    <3>2. g = Current => Tells([t EXCEPT !.at = "gone", !.events = @ \o <<>>], conn)
      BY <1>1, <1>2, <3>1, TellsOn DEF Serving
    <3>. QED BY <3>1, <3>2, OneWord
  <2>6. CASE Lose(g)
    <3>1. t.at = "open" /\ Becomes(g, "gone", <<"disconnected">>)
      BY <2>6 DEF Lose
    <3>2. g = Current => Tells([t EXCEPT !.at = "gone", !.events = @ \o <<"disconnected">>], conn)
      BY <1>1, <1>2, <3>1, TellsOn DEF Serving
    <3>. QED BY <3>1, <3>2, OneWord DEF Words
  <2>. QED BY <2>1, <2>2, <2>3, <2>4, <2>5, <2>6
<1>. QED BY <1>3, <1>4, BecomesTells DEF IInv, Typed

-----------------------------------------------------------------------------
(* Steps of the window.                                                    *)

LEMMA HandleInv ==
    ASSUME IInv, HandleEvent
    PROVE  IInv'
<1>. DEFINE t == threads[Current]  u == [t EXCEPT !.events = Tail(@)]
<1>1. Current \in DOMAIN threads /\ t \in Threads /\ t.events # <<>> /\ t.events \in Seq(Words)
  <2>1. Current \in DOMAIN threads
    BY DEF IInv, Typed, Current
  <2>2. t \in Threads
    BY <2>1 DEF IInv, Typed
  <2>. QED BY <2>1, <2>2 DEF HandleEvent, Threads
<1>2. u \in Threads /\ u.events = Tail(t.events) /\ u.at = t.at /\ u.quit = t.quit
  BY <1>1 DEF Threads
<1>3. threads' = [threads EXCEPT ![Current] = u]
  BY DEF HandleEvent
<1>. HIDE DEF u
<1>4. threads' \in Seq(Threads) /\ threads' # <<>> /\ Current' = Current
  BY <1>1, <1>2, <1>3 DEF IInv, Typed, Current
<1>5. threads'[Current] = u
  BY <1>1, <1>3 DEF IInv, Typed
<1>6. /\ Len(u.events) = Len(t.events) - 1 /\ DOMAIN u.events = 1..Len(u.events)
      /\ DOMAIN t.events = 1..Len(t.events) /\ Len(t.events) \in Nat \ {0}
      /\ \A i \in 1..Len(u.events) : u.events[i] = t.events[i + 1]
  BY <1>1, <1>2
<1>7. \A i \in Nat : EndToldAfter(t, i + 1) => EndToldAfter(u, i)
  <2>. SUFFICES ASSUME NEW i \in Nat, NEW k \in DOMAIN t.events, k > i + 1,
                       t.events[k] = "disconnected"
                PROVE  k - 1 \in DOMAIN u.events /\ k - 1 > i /\ u.events[k - 1] = "disconnected"
    BY DEF EndToldAfter
  <2>. QED BY <1>6
<1>8. conn' = "online" => Head(t.events) = "connected"
  BY <1>1 DEF HandleEvent, Words
<1>9. Head(t.events) = t.events[1] /\ 1 \in DOMAIN t.events
  BY <1>1, <1>6
<1>10. Tells(u, conn')
  <2>1. ASSUME conn' = "online" PROVE Serving(u) \/ EndToldAfter(u, 0)
    <3>1. Serving(t) \/ EndToldAfter(t, 1)
      BY <1>8, <1>9, <2>1 DEF IInv, Tells
    <3>. QED BY <3>1, <1>2, <1>7 DEF Serving
  <2>2. ASSUME NEW i \in DOMAIN u.events, u.events[i] = "connected"
        PROVE  Serving(u) \/ EndToldAfter(u, i)
    <3>1. i + 1 \in DOMAIN t.events /\ t.events[i + 1] = "connected" /\ i \in Nat
      BY <1>6, <2>2
    <3>2. Serving(t) \/ EndToldAfter(t, i + 1)
      BY <3>1 DEF IInv, Tells
    <3>. QED BY <3>1, <3>2, <1>2, <1>7 DEF Serving
  <2>3. ASSUME u.quit
        PROVE  /\ u.at \in {"hung", "open", "gone"} /\ conn' # "online"
               /\ \A i \in DOMAIN u.events : u.events[i] # "connected"
    BY <1>2, <1>6, <1>8, <1>9, <2>3 DEF IInv, Tells
  <2>. QED BY <2>1, <2>2, <2>3 DEF Tells
<1>. QED BY <1>4, <1>5, <1>10 DEF IInv, Typed, HandleEvent, world

LEMMA ToldIs ==
    ASSUME Typed
    PROVE  /\ Told \in Seq(Threads) /\ Told # <<>> /\ Len(Told) = Len(threads)
           /\ Told[Current] = [threads[Current] EXCEPT !.quit = TRUE]
<1>1. Current \in DOMAIN threads
  BY DEF Typed, Current
<1>2. threads[Current] \in Threads
  BY <1>1 DEF Typed
<1>3. [threads[Current] EXCEPT !.quit = TRUE] \in Threads
  BY <1>2 DEF Threads
<1>. QED BY <1>1, <1>3 DEF Typed, Told

\* A new thread, of which the window has not been told a thing.
LEMMA ReconnectedTells ==
    ASSUME Typed, NEW t \in Targets, Reconnected(t)
    PROVE  threads' \in Seq(Threads) /\ threads' # <<>> /\ Tells(threads[Current], conn)'
<1>1. Thread(t) \in Threads
  BY OneWord DEF Thread, Threads
<1>2. threads' = Append(Told, Thread(t)) /\ conn' = "connecting"
  BY DEF Reconnected
<1>. HIDE DEF Told
<1>3. threads' \in Seq(Threads) /\ threads' # <<>> /\ threads'[Len(threads')] = Thread(t)
  BY <1>1, <1>2, ToldIs
<1>4. Tells(Thread(t), "connecting")
  BY DEF Tells, Thread
<1>. QED BY <1>2, <1>3, <1>4 DEF Current

\* A thread that is told to end, when it has nothing more to say.
LEMMA ToldTells ==
    ASSUME Typed, threads[Current].at \in {"open", "gone", "hung"},
           threads[Current].events = <<>>, threads' = Told, conn' = "offline"
    PROVE  threads' \in Seq(Threads) /\ threads' # <<>> /\ Tells(threads[Current], conn)'
<1>. DEFINE u == [threads[Current] EXCEPT !.quit = TRUE]
<1>1. threads' \in Seq(Threads) /\ threads' # <<>> /\ Current' = Current /\ threads'[Current] = u
  BY ToldIs DEF Current
<1>2. threads[Current] \in Threads
  BY DEF Typed, Current
<1>3. u.at \in {"open", "gone", "hung"} /\ u.events = <<>>
  BY <1>2 DEF Threads
<1>4. Tells(u, "offline")
  BY <1>3 DEF Tells
<1>. QED BY <1>1, <1>4

LEMMA CommandInv ==
    ASSUME "early" \notin Ops, IInv,
           OnReconnect \/ OnDisconnect \/ OnRestartServer \/ OnStopServer
    PROVE  IInv'
<1>1. threads[Current].at \in {"open", "gone", "hung"} /\ threads[Current].events = <<>>
  BY DEF OnReconnect, OnDisconnect, OnRestartServer, OnStopServer, Asks
<1>2. Reconnected(target) \/ (threads' = Told /\ conn' = "offline")
  BY DEF OnReconnect, OnDisconnect, OnRestartServer, OnStopServer
<1>3. threads' \in Seq(Threads) /\ threads' # <<>> /\ Tells(threads[Current], conn)'
  BY <1>1, <1>2, ReconnectedTells, ToldTells DEF IInv, Typed
<1>4. \A what \in {"restart", "stop"}, at \in {"cut", "close"} : Job(what, at) \in Jobs
  BY DEF Job, Jobs, Targets
<1>5. UNCHANGED <<daemon, target, born>> /\ jobs' \in Seq(Jobs)
  BY <1>4 DEF OnReconnect, OnDisconnect, OnRestartServer, OnStopServer, world, IInv, Typed
<1>. QED BY <1>3, <1>5 DEF IInv, Typed

-----------------------------------------------------------------------------
(* Steps of the jobs and of the world.                                     *)

LEMMA StepIs ==
    ASSUME Typed, NEW j \in DOMAIN jobs, NEW at \in {"close", "start", "done"},
           NEW result \in Targets, Step(j, at, result)
    PROVE  jobs' \in Seq(Jobs)
<1>. DEFINE job == [jobs[j] EXCEPT !.at = at, !.result = result]
<1>1. jobs[j] \in Jobs
  BY DEF Typed
<1>2. job \in Jobs
  BY <1>1 DEF Jobs
<1>3. jobs' = [jobs EXCEPT ![j] = job]
  BY <1>1 DEF Step, Jobs
<1>. QED BY <1>2, <1>3 DEF Typed

LEMMA WorkInv ==
    ASSUME IInv, NEW j \in DOMAIN jobs, CutTunnel(j) \/ Close(j) \/ Start(j)
    PROVE  IInv'
<1>1. UNCHANGED <<threads, conn, target>>
  BY DEF CutTunnel, Close, Start
<1>2. daemon' \in Targets /\ born' \in Nat
  BY DEF CutTunnel, Close, Start, IInv, Typed, Targets
<1>3. \E at \in {"close", "start", "done"}, result \in Targets : Step(j, at, result)
  <2>1. CASE CutTunnel(j)
    BY <2>1 DEF CutTunnel, Targets
  <2>2. CASE Close(j)
    BY <2>2 DEF Close, Targets
  <2>3. CASE Start(j)
    BY <2>3, <1>2 DEF Start, Targets
  <2>. QED BY <2>1, <2>2, <2>3
<1>4. jobs' \in Seq(Jobs)
  BY <1>3, StepIs DEF IInv
<1>. QED BY <1>1, <1>2, <1>4 DEF IInv, Typed, Current

\* A result that comes at any time: the window goes to the new daemon, or offline.
LEMMA JobEndsInv ==
    ASSUME IInv, NEW j \in DOMAIN jobs, JobEnds(j)
    PROVE  IInv'
<1>1. jobs' \in Seq(Jobs)
  <2>1. /\ SubSeq(jobs, 1, j - 1) \in Seq(Jobs)
        /\ SubSeq(jobs, j + 1, Len(jobs)) \in Seq(Jobs)
    BY DEF IInv, Typed
  <2>. QED BY <2>1, SeqGrows DEF JobEnds, Ended
<1>2. jobs[j].result \in Targets
  <2>1. jobs[j] \in Jobs
    BY DEF IInv, Typed
  <2>. QED BY <2>1 DEF Jobs
<1>3. UNCHANGED <<daemon, born>>
  BY DEF JobEnds, world
<1>4. CASE target' = jobs[j].result /\ Reconnected(jobs[j].result)
  BY <1>1, <1>2, <1>3, <1>4, ReconnectedTells DEF IInv, Typed
<1>5. CASE conn' = "offline" /\ UNCHANGED <<target, threads>>
  BY <1>1, <1>3, <1>5 DEF IInv, Typed, Tells, Current
<1>. QED BY <1>4, <1>5 DEF JobEnds

LEMMA InitInv == Init => IInv
<1>. SUFFICES ASSUME Init PROVE IInv
  OBVIOUS
<1>1. Thread(1) \in Threads
  BY OneWord DEF Thread, Threads, Targets
<1>2. threads \in Seq(Threads) /\ Len(threads) = 1 /\ threads[1] = Thread(1) /\ jobs \in Seq(Jobs)
  BY <1>1 DEF Init
<1>3. Tells(Thread(1), conn)
  BY DEF Tells, Thread, Init
<1>. QED BY <1>2, <1>3 DEF IInv, Typed, Current, Init, Targets

LEMMA NextInv ==
    ASSUME "early" \notin Ops, IInv, [Next]_vars
    PROVE  IInv'
<1>1. CASE UNCHANGED vars
  BY <1>1 DEF IInv, Typed, Current, vars
<1>2. CASE ThreadSteps \/ \E g \in DOMAIN threads : Hang(g)
  BY <1>2, ThreadInv DEF ThreadSteps
<1>3. CASE HandleEvent
  BY <1>3, HandleInv
<1>4. CASE JobSteps
  BY <1>4, WorkInv, JobEndsInv DEF JobSteps
<1>5. CASE OnReconnect \/ OnDisconnect \/ OnRestartServer \/ OnStopServer
  BY <1>5, CommandInv
<1>6. CASE Crash \/ Drop
  BY <1>6 DEF Crash, Drop, Window, IInv, Typed, Current, Targets
<1>. QED BY <1>1, <1>2, <1>3, <1>4, <1>5, <1>6 DEF Next

\* As long as the user gives no command while the window is still connecting, a window
\* that says it is online is: its thread serves, or word of its end is on its way
\* (ade_loop, handle_event, reconnect, on_restart_server, on_stop_server).
THEOREM OnlineServed ==
    ASSUME "early" \notin Ops
    PROVE  Spec => []OnlineIsServed
<1>1. IInv => OnlineIsServed
  BY DEF IInv, Tells, Serving, EndToldAfter, OnlineIsServed
<1>. QED BY <1>1, InitInv, NextInv, PTL DEF Spec
====
