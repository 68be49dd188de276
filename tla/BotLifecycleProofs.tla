------------------------- MODULE BotLifecycleProofs -------------------------
(***************************************************************************)
(* Proofs about BotLifecycle, for any number of users, requests and bots.  *)
(*                                                                         *)
(* The properties rest on LifecycleInv.  Its heart is Orderly(u): as long  *)
(* as the requests for u have not overlapped, a goroutine that is going to *)
(* register a bot for u (it is past its check, or asleep in a restart)     *)
(* meets nothing that could delete the new bot: whoever is about to swap   *)
(* the stopped flag holds a bot that is stopped already, and whoever is    *)
(* about to delete fell asleep first, so it wakes first.                   *)
(***************************************************************************)
EXTENDS BotLifecycle, FiniteSetTheorems, SequenceTheorems, TLAPS

Works(g, u, places) == task[g].user = u /\ task[g].at \in places

Building == {"load", "create", "init", "set"}
Committed == Building \cup {"pause"}

\* Which places go with which goroutine.
Shape ==
  \A g \in Goroutines :
    /\ At(g, "idle") => task[g] = Idle
    /\ ~At(g, "idle") => task[g].user \in Users
    /\ g \in Listeners => task[g] = Idle \/ task[g].op = "stop"
    /\ task[g].op = "stop" => task[g].at \in {"lookup", "swap", "grace"}
    /\ g = StartBots => task[g].at \in Building \cup {"idle"}

\* What a bot's number says of it.
Names ==
  /\ \A b \in Bots : b > created => client[b] = "none" /\ owner[b] = None /\ b \notin stopped
  /\ \A b \in Bots : b <= created => client[b] # "none" /\ owner[b] \in Users
  /\ \A u \in Users : bot[u] # NoBot => bot[u] <= created /\ owner[bot[u]] = u
  /\ \A g \in Goroutines : task[g].bot # NoBot =>
        task[g].bot <= created /\ owner[task[g].bot] = task[g].user
  /\ \A g \in Goroutines : task[g].at \in {"set", "swap", "grace"} => task[g].bot # NoBot

\* A bot that is about to be registered is known to nobody else.
Unseen ==
  \A g \in Goroutines : At(g, "set") =>
    /\ \A u \in Users : bot[u] # task[g].bot
    /\ task[g].bot \notin stopped
    /\ \A h \in Goroutines \ {g} : task[h].bot # task[g].bot

\* StartBots works for a user before anybody else does.
Booting ==
  /\ ~WebServerUp => \A g \in Clients : task[g] = Idle
  /\ \A u \in unbooted : bot[u] = NoBot /\ \A g \in Goroutines : task[g].user # u
  /\ \A u \in unbooted, b \in Bots : owner[b] # u
  /\ \A u \in Users : task[StartBots].user = u =>
        bot[u] = NoBot /\ \A g \in Goroutines \ {StartBots} : task[g].user # u

\* sleepers lists the goroutines that sleep, each once.
Queue ==
  /\ \A i \in DOMAIN sleepers : task[sleepers[i]].at \in {"grace", "pause"}
  /\ \A i, j \in DOMAIN sleepers : sleepers[i] = sleepers[j] => i = j
  /\ \A g \in Goroutines : task[g].at \in {"grace", "pause"} =>
        \E i \in DOMAIN sleepers : sleepers[i] = g

Gone(u) == bot[u] = NoBot \/ bot[u] \in stopped

\* Requests for u do not overlap.
OneClient(u) ==
  \A g, h \in Clients : task[g].user = u /\ task[h].user = u => g = h

\* Whoever is about to delete the bot of u has stopped the bot that is registered,
\* and is alone in that.
OneGrace(u) ==
  /\ \A g \in Goroutines : Works(g, u, {"grace"}) =>
        bot[u] = task[g].bot /\ bot[u] \in stopped /\ bot[u] \in cancelled
  /\ \A g, h \in Goroutines : Works(g, u, {"grace"}) /\ Works(h, u, {"grace"}) => g = h

\* A bot that StopUserBot looked up, and that is not registered any more, is stopped.
StaleStopped(u) ==
  \A g \in Goroutines : Works(g, u, {"swap"}) =>
    task[g].bot = bot[u] \/ task[g].bot \in stopped

\* Nobody registers a bot for u while a request is about to swap the flag.
OwnSwap(u) ==
  \A g \in Clients : Works(g, u, {"swap"}) => bot[u] \in {NoBot, task[g].bot}

\* A goroutine that is going to register a bot for u meets nothing that can still be
\* stopped, and once it is past its sleeps nobody that is about to delete.
CommittedClear(u) ==
  \A g \in Goroutines : Works(g, u, Committed) =>
    Gone(u) /\ \A h \in Goroutines : Works(h, u, {"swap"}) => task[h].bot \in stopped

BuildingAlone(u) ==
  \A g, h \in Goroutines : Works(g, u, Building) => ~Works(h, u, {"grace"})

\* The bot that is about to be replaced is cancelled.
Replaced(u) ==
  \A g \in Goroutines : Works(g, u, {"init", "set"}) => bot[u] = NoBot \/ bot[u] \in cancelled

\* Whoever is about to delete the bot of u fell asleep before a restart's second sleep.
WakesInTurn(u) ==
  \A i \in DOMAIN sleepers : Works(sleepers[i], u, {"pause"}) =>
    \A h \in Goroutines : Works(h, u, {"grace"}) => \E j \in 1..(i - 1) : sleepers[j] = h

\* A bot of u is registered, or cancelled, or about to be registered.
NoneLost(u) ==
  \A b \in Bots : owner[b] = u =>
    bot[u] = b \/ b \in cancelled \/ \E g \in Goroutines : At(g, "set") /\ task[g].bot = b

Orderly(u) == /\ OneClient(u) /\ OneGrace(u) /\ StaleStopped(u) /\ OwnSwap(u)
              /\ CommittedClear(u) /\ BuildingAlone(u) /\ Replaced(u)
              /\ WakesInTurn(u) /\ NoneLost(u)

LifecycleInv == /\ TypeOK /\ Shape /\ Names /\ Unseen /\ Booting /\ Queue /\ StoppedLeaves
                /\ \A u \in Users \ overlapped : Orderly(u)

-----------------------------------------------------------------------------
(* Sequences, as the queue of sleepers uses them.                          *)

LEMMA AppendFacts ==
  ASSUME NEW S, NEW q \in Seq(S), NEW x \in S
  PROVE  /\ Append(q, x) \in Seq(S)
         /\ DOMAIN q = 1..Len(q) /\ Len(q) \in Nat
         /\ DOMAIN Append(q, x) = 1..(Len(q) + 1)
         /\ \A i \in 1..Len(q) : Append(q, x)[i] = q[i]
         /\ Append(q, x)[Len(q) + 1] = x
  OBVIOUS

LEMMA TailFacts ==
  ASSUME NEW S, NEW q \in Seq(S), q # <<>>
  PROVE  /\ Tail(q) \in Seq(S)
         /\ Head(q) = q[1]
         /\ DOMAIN q = 1..Len(q) /\ Len(q) \in Nat \ {0}
         /\ Len(Tail(q)) = Len(q) - 1
         /\ DOMAIN Tail(q) = 1..(Len(q) - 1)
         /\ \A i \in 1..(Len(q) - 1) : Tail(q)[i] = q[i + 1]
  OBVIOUS

-----------------------------------------------------------------------------
(* What a step does to task and to sleepers, without EXCEPT.               *)

Others(g) == \A h \in Goroutines \ {g} : task'[h] = task[h]

Becomes(g, place) == /\ Others(g)
                     /\ task'[g].op = task[g].op
                     /\ task'[g].user = task[g].user
                     /\ task'[g].bot = task[g].bot
                     /\ task'[g].at = place

Rests(g) == Others(g) /\ task'[g] = Idle

LEMMA GotoBecomes ==
  ASSUME TypeOK, NEW g \in Goroutines, NEW place \in Places, Goto(g, place)
  PROVE  Becomes(g, place) /\ task' \in [Goroutines -> Task]
  BY DEF TypeOK, Goto, Becomes, Others, Task

LEMMA IdleIsTask == Idle \in Task
  BY DEF Idle, Task, Ops, Places

LEMMA FinishRests ==
  ASSUME TypeOK, NEW g \in Goroutines, Finish(g)
  PROVE  Rests(g) /\ task' \in [Goroutines -> Task]
  BY IdleIsTask DEF TypeOK, Finish, Rests, Others

Sleeps(t) == t.at \in {"grace", "pause"}

LEMMA QueueStays ==
  ASSUME Queue, NEW g \in Goroutines, Others(g), UNCHANGED sleepers,
         ~Sleeps(task[g]), ~Sleeps(task'[g]), sleepers \in Seq(Goroutines)
  PROVE  Queue'
  BY DEF Queue, Others, Sleeps

LEMMA QueueGrows ==
  ASSUME Queue, NEW g \in Goroutines, Others(g), sleepers' = Append(sleepers, g),
         ~Sleeps(task[g]), Sleeps(task'[g]), sleepers \in Seq(Goroutines)
  PROVE  Queue'
<1>1. /\ DOMAIN sleepers = 1..Len(sleepers) /\ Len(sleepers) \in Nat
      /\ DOMAIN sleepers' = 1..(Len(sleepers) + 1)
      /\ \A i \in 1..Len(sleepers) : sleepers'[i] = sleepers[i]
      /\ sleepers'[Len(sleepers) + 1] = g
  BY AppendFacts
<1>2. \A i \in 1..Len(sleepers) : sleepers[i] # g /\ sleepers[i] \in Goroutines
  BY <1>1 DEF Queue, Sleeps
<1>3. \A i \in DOMAIN sleepers' : task'[sleepers'[i]].at \in {"grace", "pause"}
  BY <1>1, <1>2 DEF Queue, Others, Sleeps
<1>4. \A i, j \in DOMAIN sleepers' : sleepers'[i] = sleepers'[j] => i = j
  BY <1>1, <1>2 DEF Queue
<1>5. ASSUME NEW h \in Goroutines, task'[h].at \in {"grace", "pause"}
      PROVE  \E i \in DOMAIN sleepers' : sleepers'[i] = h
  <2>1. CASE h = g
    BY <1>1, <2>1
  <2>2. CASE h # g
    <3>1. PICK i \in DOMAIN sleepers : sleepers[i] = h
      BY <2>2, <1>5 DEF Queue, Others
    <3>2. i \in DOMAIN sleepers' /\ sleepers'[i] = h
      BY <1>1, <3>1
    <3>3. QED BY <3>2
  <2>3. QED BY <2>1, <2>2
<1>6. QED BY <1>3, <1>4, <1>5 DEF Queue

LEMMA QueueShrinks ==
  ASSUME Queue, NEW g \in Goroutines, Others(g), sleepers # <<>>, Head(sleepers) = g,
         sleepers' = Tail(sleepers), ~Sleeps(task'[g]), sleepers \in Seq(Goroutines)
  PROVE  Queue'
<1>1. /\ DOMAIN sleepers = 1..Len(sleepers) /\ Len(sleepers) \in Nat \ {0}
      /\ DOMAIN sleepers' = 1..(Len(sleepers) - 1)
      /\ \A i \in 1..(Len(sleepers) - 1) : sleepers'[i] = sleepers[i + 1]
      /\ sleepers[1] = g
  BY TailFacts
<1>2. \A i \in 1..Len(sleepers) : sleepers[i] \in Goroutines /\ (sleepers[i] = g => i = 1)
  BY <1>1 DEF Queue
<1>3. \A i \in DOMAIN sleepers' : task'[sleepers'[i]].at \in {"grace", "pause"}
  <2> SUFFICES ASSUME NEW i \in 1..(Len(sleepers) - 1)
               PROVE  task'[sleepers[i + 1]].at \in {"grace", "pause"}
    BY <1>1
  <2>1. i + 1 \in 1..Len(sleepers) /\ i + 1 # 1
    BY <1>1
  <2>2. sleepers[i + 1] # g /\ sleepers[i + 1] \in Goroutines
    BY <2>1, <1>2
  <2>3. QED BY <1>1, <2>1, <2>2 DEF Queue, Others
<1>4. \A i, j \in DOMAIN sleepers' : sleepers'[i] = sleepers'[j] => i = j
  <2> SUFFICES ASSUME NEW i \in 1..(Len(sleepers) - 1), NEW j \in 1..(Len(sleepers) - 1),
                      sleepers[i + 1] = sleepers[j + 1]
               PROVE  i = j
    BY <1>1
  <2>1. i + 1 \in DOMAIN sleepers /\ j + 1 \in DOMAIN sleepers
    BY <1>1
  <2>2. i + 1 = j + 1
    BY <2>1 DEF Queue
  <2>3. QED BY <2>2
<1>5. ASSUME NEW h \in Goroutines, task'[h].at \in {"grace", "pause"}
      PROVE  \E i \in DOMAIN sleepers' : sleepers'[i] = h
  <2>1. h # g
    BY <1>5 DEF Sleeps
  <2>2. PICK i \in DOMAIN sleepers : sleepers[i] = h
    BY <2>1, <1>5 DEF Queue, Others
  <2>3. i - 1 \in DOMAIN sleepers' /\ sleepers'[i - 1] = h
    BY <1>1, <2>1, <2>2
  <2>4. QED BY <2>3
<1>6. QED BY <1>3, <1>4, <1>5 DEF Queue

LEMMA QueueTurns ==
  ASSUME Queue, NEW g \in Goroutines, Others(g), sleepers # <<>>, Head(sleepers) = g,
         sleepers' = Append(Tail(sleepers), g), Sleeps(task'[g]), sleepers \in Seq(Goroutines)
  PROVE  Queue'
<1>0. PICK n \in Nat : n = Len(sleepers)
  OBVIOUS
<1>1. /\ DOMAIN sleepers = 1..n /\ n \in Nat \ {0}
      /\ Tail(sleepers) \in Seq(Goroutines) /\ Len(Tail(sleepers)) = n - 1
      /\ \A i \in 1..(n - 1) : Tail(sleepers)[i] = sleepers[i + 1]
      /\ sleepers[1] = g
  BY <1>0, TailFacts
<1>2. /\ DOMAIN sleepers' = 1..n
      /\ \A i \in 1..(n - 1) : sleepers'[i] = sleepers[i + 1]
      /\ sleepers'[n] = g
  BY <1>1, AppendFacts
<1>3. \A i \in 1..(n - 1) : sleepers[i + 1] \in Goroutines \ {g}
  <2> TAKE i \in 1..(n - 1)
  <2>1. i + 1 \in DOMAIN sleepers /\ 1 \in DOMAIN sleepers /\ i + 1 # 1
    BY <1>1
  <2>2. QED BY <2>1, <1>1 DEF Queue
<1>4. \A i \in DOMAIN sleepers' : task'[sleepers'[i]].at \in {"grace", "pause"}
  <2> SUFFICES ASSUME NEW i \in 1..n PROVE task'[sleepers'[i]].at \in {"grace", "pause"}
    BY <1>2
  <2>1. CASE i = n
    BY <2>1, <1>2 DEF Sleeps
  <2>2. CASE i # n
    <3>1. i \in 1..(n - 1) /\ i + 1 \in DOMAIN sleepers
      BY <2>2, <1>1
    <3>2. QED BY <3>1, <1>2, <1>3 DEF Queue, Others
  <2>3. QED BY <2>1, <2>2
<1>5. \A i, j \in DOMAIN sleepers' : sleepers'[i] = sleepers'[j] => i = j
  <2> SUFFICES ASSUME NEW i \in 1..n, NEW j \in 1..n, sleepers'[i] = sleepers'[j]
               PROVE  i = j
    BY <1>2
  <2>1. CASE i = n \/ j = n
    BY <2>1, <1>1, <1>2, <1>3
  <2>2. CASE i # n /\ j # n
    <3>1. i \in 1..(n - 1) /\ j \in 1..(n - 1) /\ i + 1 \in 1..n /\ j + 1 \in 1..n
      BY <2>2, <1>1
    <3>2. sleepers[i + 1] = sleepers[j + 1]
      BY <3>1, <1>2
    <3>3. i + 1 = j + 1
      BY <3>1, <3>2, <1>1 DEF Queue
    <3>4. QED BY <3>3
  <2>3. QED BY <2>1, <2>2
<1>6. ASSUME NEW h \in Goroutines, task'[h].at \in {"grace", "pause"}
      PROVE  \E i \in DOMAIN sleepers' : sleepers'[i] = h
  <2>1. CASE h = g
    BY <2>1, <1>1, <1>2
  <2>2. CASE h # g
    <3>1. PICK i \in DOMAIN sleepers : sleepers[i] = h
      BY <2>2, <1>6 DEF Queue, Others
    <3>2. i \in 1..n /\ i # 1
      BY <3>1, <2>2, <1>1
    <3>3. i - 1 \in 1..(n - 1) /\ (i - 1) + 1 = i
      BY <3>2, <1>1
    <3>4. i - 1 \in DOMAIN sleepers' /\ sleepers'[i - 1] = h
      BY <3>1, <3>3, <1>1, <1>2
    <3>5. QED BY <3>4
  <2>3. QED BY <2>1, <2>2
<1>7. QED BY <1>4, <1>5, <1>6 DEF Queue

LEMMA TurnStays ==
  ASSUME TypeOK, NEW u \in Users, WakesInTurn(u), NEW g \in Goroutines, Others(g),
         ~Sleeps(task[g]), ~Sleeps(task'[g]), UNCHANGED sleepers
  PROVE  WakesInTurn(u)'
<1>1. \A i \in DOMAIN sleepers : sleepers[i] \in Goroutines
  BY DEF TypeOK
<1>2. \A h \in Goroutines : task'[h].at \in {"grace", "pause"} => task'[h] = task[h]
  BY DEF Others, Sleeps
<1>3. QED BY <1>1, <1>2 DEF WakesInTurn, Works

LEMMA TurnGrows ==
  ASSUME TypeOK, Queue, NEW u \in Users, WakesInTurn(u), NEW g \in Goroutines, Others(g),
         ~Sleeps(task[g]), sleepers' = Append(sleepers, g),
         \/ task'[g].at = "pause" \/ task'[g].user # u
         \/ \A h \in Goroutines : ~Works(h, u, {"pause"})
  PROVE  WakesInTurn(u)'
<1>0. sleepers \in Seq(Goroutines)
  BY DEF TypeOK
<1>1. /\ DOMAIN sleepers = 1..Len(sleepers) /\ Len(sleepers) \in Nat
      /\ DOMAIN sleepers' = 1..(Len(sleepers) + 1)
      /\ \A i \in 1..Len(sleepers) : sleepers'[i] = sleepers[i]
      /\ sleepers'[Len(sleepers) + 1] = g
  BY <1>0, AppendFacts
<1>2. \A i \in 1..Len(sleepers) : sleepers[i] \in Goroutines \ {g}
  BY <1>0, <1>1 DEF Queue, Sleeps
<1> SUFFICES ASSUME NEW i \in DOMAIN sleepers', NEW h \in Goroutines,
                    task'[sleepers'[i]].user = u, task'[sleepers'[i]].at = "pause",
                    Works(h, u, {"grace"})'
             PROVE  \E j \in 1..(i - 1) : sleepers'[j] = h
  BY DEF WakesInTurn, Works
<1>3. CASE i \in 1..Len(sleepers)
  <2>1. Works(sleepers[i], u, {"pause"})
    BY <1>1, <1>2, <1>3 DEF Works, Others
  <2>2. h # g
    BY <2>1, <1>2, <1>3 DEF Works
  <2>3. Works(h, u, {"grace"})
    BY <2>2 DEF Works, Others
  <2>4. PICK j \in 1..(i - 1) : sleepers[j] = h
    BY <2>1, <2>3, <1>1, <1>3 DEF WakesInTurn
  <2>5. sleepers'[j] = h
    BY <1>1, <1>3, <2>4
  <2>6. QED BY <2>5
<1>4. CASE i = Len(sleepers) + 1
  <2>1. h # g
    BY <1>1, <1>4 DEF Works
  <2>2. PICK j \in DOMAIN sleepers : sleepers[j] = h
    BY <2>1 DEF Queue, Works, Others
  <2>3. j \in 1..(i - 1) /\ sleepers'[j] = h
    BY <1>1, <1>4, <2>2
  <2>4. QED BY <2>3
<1>5. QED BY <1>1, <1>3, <1>4

LEMMA TurnShifts ==
  ASSUME TypeOK, Queue, NEW u \in Users, WakesInTurn(u), NEW g \in Goroutines, Others(g),
         sleepers # <<>>, Head(sleepers) = g, ~Works(g, u, {"grace"})',
         \/ sleepers' = Tail(sleepers)
         \/ /\ sleepers' = Append(Tail(sleepers), g)
            /\ task'[g].user = u => \A h \in Goroutines \ {g} : ~Works(h, u, {"grace"})
  PROVE  WakesInTurn(u)'
<1>0. PICK n \in Nat : n = Len(sleepers)
  BY DEF TypeOK
<1>1. /\ DOMAIN sleepers = 1..n /\ n \in Nat \ {0} /\ sleepers \in Seq(Goroutines)
      /\ Tail(sleepers) \in Seq(Goroutines) /\ Len(Tail(sleepers)) = n - 1
      /\ DOMAIN Tail(sleepers) = 1..(n - 1)
      /\ \A i \in 1..(n - 1) : Tail(sleepers)[i] = sleepers[i + 1]
      /\ sleepers[1] = g
  BY <1>0, TailFacts DEF TypeOK
<1>2. /\ \A i \in 1..(n - 1) : i \in DOMAIN sleepers' /\ sleepers'[i] = sleepers[i + 1]
      /\ \A i \in DOMAIN sleepers' : \/ i \in 1..(n - 1)
                                     \/ /\ i = n /\ sleepers'[i] = g
                                        /\ sleepers' = Append(Tail(sleepers), g)
  <2>1. CASE sleepers' = Tail(sleepers)
    BY <2>1, <1>1
  <2>2. CASE sleepers' = Append(Tail(sleepers), g)
    BY <2>2, <1>1, AppendFacts
  <2>3. QED BY <2>1, <2>2
<1>3. \A i \in 1..(n - 1) : sleepers[i + 1] \in Goroutines \ {g}
  <2> TAKE i \in 1..(n - 1)
  <2>1. i + 1 \in DOMAIN sleepers /\ 1 \in DOMAIN sleepers /\ i + 1 # 1
    BY <1>1
  <2>2. QED BY <2>1, <1>1 DEF Queue
<1> SUFFICES ASSUME NEW i \in DOMAIN sleepers', NEW h \in Goroutines,
                    task'[sleepers'[i]].user = u, task'[sleepers'[i]].at = "pause",
                    Works(h, u, {"grace"})'
             PROVE  \E j \in 1..(i - 1) : sleepers'[j] = h
  BY DEF WakesInTurn, Works
<1>4. h # g /\ Works(h, u, {"grace"})
  BY DEF Works, Others
<1>5. CASE i \in 1..(n - 1)
  <2>1. Works(sleepers[i + 1], u, {"pause"})
    BY <1>2, <1>3, <1>5 DEF Works, Others
  <2>2. i + 1 \in DOMAIN sleepers /\ (i + 1) - 1 = i
    BY <1>1, <1>5
  <2>3. PICK j \in 1..i : sleepers[j] = h
    BY <2>1, <2>2, <1>4 DEF WakesInTurn
  <2>4. j # 1
    BY <2>3, <1>1, <1>4
  <2>5. j - 1 \in 1..(i - 1) /\ j - 1 \in 1..(n - 1) /\ (j - 1) + 1 = j
    BY <2>3, <2>4, <1>1, <1>5
  <2>6. sleepers'[j - 1] = h
    BY <2>3, <2>5, <1>2
  <2>7. QED BY <2>5, <2>6
<1>6. CASE i \notin 1..(n - 1)
  BY <1>2, <1>4, <1>6 DEF Works
<1>7. QED BY <1>5, <1>6

LEMMA WorkerHasUser ==
  ASSUME Shape, NEW g \in Goroutines, task[g] # Idle
  PROVE  task[g].user \in Users /\ task[g].at # "idle"
  BY DEF Shape, At

LEMMA BootingKeeps ==
  ASSUME TypeOK, Booting, NEW g \in Goroutines, task[g] # Idle, task[g].user \in Users,
         Others(g), task'[g].user \in {None, task[g].user}, UNCHANGED unbooted,
         \A u \in Users : bot'[u] \notin {NoBot, bot[u]} => u = task[g].user /\ task'[g] = Idle,
         \A b \in Bots : owner'[b] # owner[b] => owner'[b] = task[g].user
  PROVE  Booting'
<1> USE LifecycleAssumption
<1>1. \A h \in Goroutines : task'[h].user \in {None, task[h].user}
  BY DEF Others
<1>2. WebServerUp => WebServerUp'
  BY DEF WebServerUp, Others, Goroutines
<1>3. ~WebServerUp => \A h \in Clients : task'[h] = Idle
  BY DEF Booting, Others, Goroutines
<1>4. ~WebServerUp' => \A h \in Clients : task'[h] = Idle
  BY <1>2, <1>3
<1>5. \A u \in Users, h \in Goroutines : task'[h].user = u => task[h].user = u
  BY <1>1
<1>6. StartBots \in Goroutines /\ Idle.user = None
  BY DEF Goroutines, Idle
<1>7. \A u \in unbooted : u \in Users /\ u # task[g].user
  BY DEF TypeOK, Booting
<1>8. ASSUME NEW u \in Users, task'[StartBots].user = u
      PROVE  bot'[u] = NoBot /\ \A h \in Goroutines \ {StartBots} : task'[h].user # u
  BY <1>5, <1>6, <1>8 DEF Booting
<1>9. QED
  BY <1>4, <1>5, <1>6, <1>7, <1>8 DEF Booting

-----------------------------------------------------------------------------
(* Steps that only move one goroutine on, and perhaps cancel a bot.        *)

\* Where a step that touches neither registry nor queue may take g.
Onward(g) ==
  \/ /\ task'[g] = Idle
     /\ task[g].at \notin {"set", "grace", "pause"}
  \/ /\ task'[g].user = task[g].user
     /\ task'[g].bot = task[g].bot
     /\ \/ /\ task[g].at = "save"
           /\ task'[g].at = "choose"
           /\ task'[g].op = task[g].op
        \/ /\ task[g].at = "choose"
           /\ task'[g].at \in {"lookup", "check"}
           /\ task'[g].op \in {"restart", "start"}
        \/ /\ task[g].at = "check"
           /\ task'[g].at = "load"
           /\ task'[g].op = task[g].op
           /\ bot[task[g].user] = NoBot
        \/ /\ task[g].at = "load"
           /\ task'[g].at = "create"
           /\ task'[g].op = task[g].op
        \/ /\ task[g].at = "create"
           /\ task'[g].at = "init"
           /\ task'[g].op = task[g].op
           /\ bot[task[g].user] = NoBot \/ bot[task[g].user] \in cancelled'

LEMMA OnwardKeeps ==
  ASSUME LifecycleInv, NEW g \in Goroutines, task[g] # Idle, Others(g), Onward(g),
         task' \in [Goroutines -> Task], cancelled \subseteq cancelled', cancelled' \subseteq Bots,
         UNCHANGED <<bot, botVars, stopped, sleepers, rest>>
  PROVE  LifecycleInv'
<1> USE LifecycleAssumption DEF botVars, rest
<1>1. TypeOK'
  BY DEF LifecycleInv, TypeOK
<1>2. Shape'
  BY DEF LifecycleInv, TypeOK, Shape, Others, Onward, At, Idle, Building
<1>3. Names'
  BY DEF LifecycleInv, TypeOK, Names, Shape, Others, Onward, Idle
<1>4. Unseen'
  <2>1. task'[g].at # "set" /\ task'[g].bot \in {NoBot, task[g].bot}
    BY DEF Onward, Idle
  <2>2. \A h \in Goroutines : task'[h].at = "set" => task[h] = task'[h] /\ h # g
    BY <2>1 DEF Others
  <2>3. QED BY <2>1, <2>2 DEF LifecycleInv, TypeOK, Unseen, Names, Others, At, NoBot, Bots
<1>5. Booting'
  <2>1. task'[g].user \in {None, task[g].user}
    BY DEF Onward, Idle
  <2>2. task[g].user \in Users
    BY WorkerHasUser DEF LifecycleInv
  <2>3. QED BY <2>1, <2>2, BootingKeeps DEF LifecycleInv
<1>6. Queue'
  BY QueueStays DEF LifecycleInv, TypeOK, Sleeps, Onward, Idle
<1>7. StoppedLeaves'
  BY DEF LifecycleInv, TypeOK, StoppedLeaves, Others, Onward, At
<1>8. ASSUME NEW u \in Users \ overlapped PROVE Orderly(u)'
  <2>1. OneClient(u)'
    BY DEF LifecycleInv, TypeOK, Orderly, OneClient, Others, Onward, Idle, Goroutines
  <2>2. OneGrace(u)'
    BY DEF LifecycleInv, TypeOK, Orderly, OneGrace, Works, Others, Onward, Idle
  <2>3. StaleStopped(u)'
    <3>1. task'[g].at # "swap"
      BY DEF Onward, Idle
    <3>2. QED BY <3>1, <1>8 DEF LifecycleInv, Orderly, StaleStopped, Works, Others
  <2>4. OwnSwap(u)'
    BY DEF LifecycleInv, TypeOK, Orderly, OwnSwap, Works, Others, Onward, Idle, Goroutines
  <2>5. CommittedClear(u)'
    BY DEF LifecycleInv, TypeOK, Orderly, CommittedClear, StaleStopped, Names, Works, Gone,
           Committed, Building, Others, Onward, Idle
  <2>6. BuildingAlone(u)'
    BY DEF LifecycleInv, TypeOK, Orderly, BuildingAlone, OneGrace, Names, Works, Building,
           Others, Onward, Idle
  <2>7. Replaced(u)'
    BY DEF LifecycleInv, TypeOK, Orderly, Replaced, Works, Others, Onward, Idle
  <2>8. WakesInTurn(u)'
    BY DEF LifecycleInv, TypeOK, Orderly, WakesInTurn, Works, Others, Onward, Idle
  <2>9. NoneLost(u)'
    BY DEF LifecycleInv, TypeOK, Orderly, NoneLost, Others, Onward, At, Idle
  <2>10. QED BY <2>1, <2>2, <2>3, <2>4, <2>5, <2>6, <2>7, <2>8, <2>9 DEF Orderly
<1>9. QED BY <1>1, <1>2, <1>3, <1>4, <1>5, <1>6, <1>7, <1>8 DEF LifecycleInv

-----------------------------------------------------------------------------
(* StopUserBot looks the bot up, or the restart goes to sleep.             *)

LEMMA LookupKeeps ==
  ASSUME LifecycleInv, NEW g \in Goroutines, task[g].at = "lookup", Others(g),
         bot[task[g].user] # NoBot,
         task'[g].user = task[g].user, task'[g].op = task[g].op,
         task'[g].bot = bot[task[g].user], task'[g].at = "swap",
         task' \in [Goroutines -> Task],
         UNCHANGED <<bot, botVars, cancelled, stopped, sleepers, rest>>
  PROVE  LifecycleInv'
<1> USE LifecycleAssumption DEF botVars, rest
<1>0. task[g] # Idle /\ task[g].user \in Users
  BY WorkerHasUser DEF LifecycleInv, Idle
<1>1. TypeOK'
  BY DEF LifecycleInv, TypeOK
<1>2. Shape'
  BY DEF LifecycleInv, Shape, Others, At, Idle, Building
<1>3. Names'
  BY <1>0 DEF LifecycleInv, TypeOK, Names, Others
<1>4. Unseen'
  BY <1>0 DEF LifecycleInv, TypeOK, Unseen, Others, At
<1>5. Booting'
  BY <1>0, BootingKeeps DEF LifecycleInv
<1>6. Queue'
  BY QueueStays DEF LifecycleInv, TypeOK, Sleeps
<1>7. StoppedLeaves'
  BY DEF LifecycleInv, StoppedLeaves, Others, At
<1>8. ASSUME NEW u \in Users \ overlapped PROVE Orderly(u)'
  <2> USE DEF LifecycleInv, Orderly, Others
  <2>1. OneClient(u)'
    BY DEF OneClient, Goroutines
  <2>2. OneGrace(u)'
    BY DEF OneGrace, Works
  <2>3. StaleStopped(u)'
    BY DEF StaleStopped, Works
  <2>4. OwnSwap(u)'
    BY DEF OwnSwap, Works, Goroutines
  <2>5. CommittedClear(u)'
    BY DEF CommittedClear, Gone, Works, Committed, Building
  <2>6. BuildingAlone(u)'
    BY DEF BuildingAlone, Works, Building
  <2>7. Replaced(u)'
    BY DEF Replaced, Works
  <2>8. WakesInTurn(u)'
    BY TurnStays DEF Sleeps
  <2>9. NoneLost(u)'
    BY DEF NoneLost, At
  <2>10. QED BY <2>1, <2>2, <2>3, <2>4, <2>5, <2>6, <2>7, <2>8, <2>9
<1>9. QED BY <1>1, <1>2, <1>3, <1>4, <1>5, <1>6, <1>7, <1>8 DEF LifecycleInv

LEMMA PauseKeeps ==
  ASSUME LifecycleInv, NEW g \in Goroutines, Becomes(g, "pause"),
         task[g].at \in {"lookup", "swap"}, task[g].op = "restart",
         \/ bot[task[g].user] = NoBot
         \/ task[g].at = "swap" /\ task[g].bot \in stopped,
         task' \in [Goroutines -> Task], sleepers' = Append(sleepers, g),
         UNCHANGED <<bot, botVars, cancelled, stopped, rest>>
  PROVE  LifecycleInv'
<1> USE LifecycleAssumption DEF botVars, rest, Becomes
<1>0. task[g] # Idle /\ task[g].user \in Users /\ g \in Clients
  BY WorkerHasUser DEF LifecycleInv, Shape, Idle, Goroutines, Building
<1>1. TypeOK'
  BY AppendFacts DEF LifecycleInv, TypeOK
<1>2. Shape'
  BY <1>0 DEF LifecycleInv, Shape, Others, At, Idle, Building
<1>3. Names'
  BY DEF LifecycleInv, Names, Others
<1>4. Unseen'
  BY DEF LifecycleInv, Unseen, Others, At
<1>5. Booting'
  BY <1>0, BootingKeeps DEF LifecycleInv
<1>6. Queue'
  BY QueueGrows DEF LifecycleInv, TypeOK, Sleeps
<1>7. StoppedLeaves'
  BY DEF LifecycleInv, StoppedLeaves, Others, At
<1>8. ASSUME NEW u \in Users \ overlapped PROVE Orderly(u)'
  <2> USE DEF LifecycleInv, Orderly, Others
  <2>1. OneClient(u)'
    BY DEF OneClient, Goroutines
  <2>2. OneGrace(u)'
    BY DEF OneGrace, Works
  <2>3. StaleStopped(u)'
    BY DEF StaleStopped, Works
  <2>4. OwnSwap(u)'
    BY DEF OwnSwap, Works, Goroutines
  <2>5. CommittedClear(u)'
    <3>1. task[g].user = u => Gone(u)
      BY <1>0 DEF OwnSwap, Works, Gone
    <3>2. \A h \in Goroutines : task[g].user = u /\ Works(h, u, {"swap"})
                                  => task[h].bot \in stopped
      BY <3>1 DEF StaleStopped, Names, Works, Gone
    <3>3. QED BY <3>1, <3>2 DEF CommittedClear, Gone, Works, Committed
  <2>6. BuildingAlone(u)'
    BY DEF BuildingAlone, Works, Building
  <2>7. Replaced(u)'
    BY DEF Replaced, Works
  <2>8. WakesInTurn(u)'
    BY TurnGrows DEF Sleeps
  <2>9. NoneLost(u)'
    BY DEF NoneLost, At
  <2>10. QED BY <2>1, <2>2, <2>3, <2>4, <2>5, <2>6, <2>7, <2>8, <2>9
<1>9. QED BY <1>1, <1>2, <1>3, <1>4, <1>5, <1>6, <1>7, <1>8 DEF LifecycleInv

\* StopUserBot is the first to set the flag of its bot.
LEMMA SwapKeeps ==
  ASSUME LifecycleInv, NEW g \in Goroutines, Becomes(g, "grace"), task[g].at = "swap",
         task[g].bot \notin stopped,
         stopped' = stopped \cup {task[g].bot}, cancelled' = cancelled \cup {task[g].bot},
         task' \in [Goroutines -> Task], sleepers' = Append(sleepers, g),
         UNCHANGED <<bot, botVars, rest>>
  PROVE  LifecycleInv'
<1> USE LifecycleAssumption DEF botVars, rest, Becomes
<1>0. /\ task[g] # Idle /\ task[g].user \in Users
      /\ task[g].bot \in Bots /\ task[g].bot <= created /\ owner[task[g].bot] = task[g].user
  BY WorkerHasUser DEF LifecycleInv, TypeOK, Names, Idle, Task
<1>1. TypeOK'
  BY <1>0, AppendFacts DEF LifecycleInv, TypeOK
<1>2. Shape'
  BY <1>0 DEF LifecycleInv, Shape, Others, At, Idle, Building
<1>3. Names'
  <2>1. \A b \in Bots : b > created => b # task[g].bot
    BY <1>0 DEF LifecycleInv, TypeOK, Bots
  <2>2. \A h \in Goroutines : task'[h].bot = task[h].bot /\ task'[h].user = task[h].user
    BY DEF Others
  <2>3. \A h \in Goroutines : task'[h].at \in {"set", "swap", "grace"} =>
                                task[h].at \in {"set", "swap", "grace"}
    BY DEF Others
  <2>4. QED BY <2>1, <2>2, <2>3 DEF LifecycleInv, Names
<1>4. Unseen'
  BY DEF LifecycleInv, Unseen, Others, At
<1>5. Booting'
  BY <1>0, BootingKeeps DEF LifecycleInv
<1>6. Queue'
  BY QueueGrows DEF LifecycleInv, TypeOK, Sleeps
<1>7. StoppedLeaves'
  <2> SUFFICES ASSUME NEW u \in Users, bot[u] \in stopped \cup {task[g].bot}
               PROVE  \/ \E h \in Goroutines : At(h, "grace")' /\ task'[h].user = u
                      \/ \E b \in Bots : owner[b] = u /\ client[b] = "rejected"
    BY DEF StoppedLeaves
  <2>1. CASE bot[u] = task[g].bot
    <3>1. owner[bot[u]] = u
      BY <2>1, <1>0 DEF LifecycleInv, Names, NoBot, Bots
    <3>2. At(g, "grace")' /\ task'[g].user = u
      BY <2>1, <3>1, <1>0 DEF At
    <3>3. QED BY <3>2
  <2>2. CASE bot[u] \in stopped
    BY <2>2 DEF LifecycleInv, StoppedLeaves, Others, At
  <2>3. QED BY <2>1, <2>2
<1>8. ASSUME NEW u \in Users \ overlapped PROVE Orderly(u)'
  <2> USE DEF LifecycleInv, Orderly, Others
  <2>1. OneClient(u)'
    BY DEF OneClient, Goroutines
  <2>2. /\ task[g].user = u => \A h \in Goroutines : ~Works(h, u, {"grace"})
        /\ task[g].user = u => task[g].bot = bot[u]
        /\ task[g].user = u => \A h \in Goroutines : ~Works(h, u, Committed)
    BY DEF OneGrace, StaleStopped, CommittedClear, Works
  <2>3. OneGrace(u)'
    BY <2>2 DEF OneGrace, Works
  <2>4. StaleStopped(u)'
    BY DEF StaleStopped, Works
  <2>5. OwnSwap(u)'
    BY DEF OwnSwap, Works, Goroutines
  <2>6. CommittedClear(u)'
    BY <2>2 DEF CommittedClear, Gone, Works, Committed, Building
  <2>7. BuildingAlone(u)'
    BY <2>2 DEF BuildingAlone, Works, Building, Committed
  <2>8. Replaced(u)'
    BY DEF Replaced, Works
  <2>9. WakesInTurn(u)'
    <3>1. CASE task[g].user = u
      <4>1. \A h \in Goroutines : ~Works(h, u, {"pause"})
        BY <2>2, <3>1 DEF Works, Committed
      <4>2. QED BY <4>1, TurnGrows DEF Sleeps
    <3>2. CASE task[g].user # u
      BY <3>2, TurnGrows DEF Sleeps
    <3>3. QED BY <3>1, <3>2
  <2>10. NoneLost(u)'
    BY DEF NoneLost, At
  <2>11. QED BY <2>1, <2>3, <2>4, <2>5, <2>6, <2>7, <2>8, <2>9, <2>10
<1>9. QED BY <1>1, <1>2, <1>3, <1>4, <1>5, <1>6, <1>7, <1>8 DEF LifecycleInv

-----------------------------------------------------------------------------
(* A sleep of a stop or of a restart ends.                                 *)

LEMMA DeleteKeeps ==
  ASSUME LifecycleInv, NEW g \in Goroutines, Wakes(g, "grace"),
         bot' = [bot EXCEPT ![task[g].user] = NoBot],
         \/ Rests(g) /\ sleepers' = Tail(sleepers)
         \/ /\ Becomes(g, "pause")
            /\ task[g].op = "restart"
            /\ sleepers' = Append(Tail(sleepers), g),
         task' \in [Goroutines -> Task],
         UNCHANGED <<botVars, cancelled, stopped, rest>>
  PROVE  LifecycleInv'
<1> USE LifecycleAssumption DEF botVars, rest
<1>0. task[g] # Idle /\ task[g].user \in Users /\ task[g].at = "grace" /\ Others(g)
  BY WorkerHasUser DEF LifecycleInv, Idle, Wakes, At, Rests, Becomes
<1>a. \/ task'[g] = Idle
      \/ /\ task'[g].user = task[g].user /\ task'[g].bot = task[g].bot
         /\ task'[g].op = "restart" /\ task'[g].at = "pause"
  BY DEF Rests, Becomes
<1>b. \A u \in Users : bot'[u] = IF u = task[g].user THEN NoBot ELSE bot[u]
  BY DEF LifecycleInv, TypeOK
<1>c. sleepers \in Seq(Goroutines) /\ sleepers # <<>> /\ Head(sleepers) = g
  BY DEF LifecycleInv, TypeOK, Wakes
<1>1. TypeOK'
  <2>a. Tail(sleepers) \in Seq(Goroutines)
    BY <1>c, TailFacts
  <2>b. Append(Tail(sleepers), g) \in Seq(Goroutines)
    BY <2>a, AppendFacts
  <2>1. sleepers' \in Seq(Goroutines)
    BY <2>a, <2>b
  <2>2. bot' \in [Users -> Bots \cup {NoBot}]
    BY DEF LifecycleInv, TypeOK
  <2>3. QED BY <2>1, <2>2 DEF LifecycleInv, TypeOK
<1>2. Shape'
  <2>1. g \in Listeners \cup {StartBots} => task'[g] = Idle
    BY <1>0, <1>a DEF LifecycleInv, Shape, Rests, Becomes, Building
  <2>2. QED BY <1>0, <1>a, <2>1 DEF LifecycleInv, Shape, Others, At, Idle, Building
<1>3. Names'
  BY <1>0, <1>a, <1>b DEF LifecycleInv, Names, Others, Idle
<1>4. Unseen'
  <2>1. task'[g].at # "set" /\ task'[g].bot \in {NoBot, task[g].bot}
    BY <1>a DEF Idle
  <2>2. \A h \in Goroutines : task'[h].at = "set" => task[h] = task'[h] /\ h # g
    BY <1>0, <2>1 DEF Others
  <2>3. \A h \in Goroutines : task[h].at = "set" => task[h].bot # NoBot
    BY DEF LifecycleInv, Names
  <2>4. QED BY <1>0, <1>b, <2>1, <2>2, <2>3 DEF LifecycleInv, Unseen, Others, At
<1>5. Booting'
  <2>1. task'[g].user \in {None, task[g].user}
    BY <1>a DEF Idle
  <2>2. QED BY <1>0, <1>b, <2>1, BootingKeeps DEF LifecycleInv
<1>6. Queue'
  BY <1>0, <1>c, QueueShrinks, QueueTurns DEF LifecycleInv, Sleeps, Rests, Becomes, Idle
<1>7. StoppedLeaves'
  <2> SUFFICES ASSUME NEW u \in Users, bot'[u] \in stopped
               PROVE  \/ \E h \in Goroutines : At(h, "grace")' /\ task'[h].user = u
                      \/ \E b \in Bots : owner[b] = u /\ client[b] = "rejected"
    BY DEF StoppedLeaves
  <2>1. u # task[g].user /\ bot[u] \in stopped
    BY <1>b DEF LifecycleInv, TypeOK, NoBot, Bots
  <2>2. QED BY <2>1, <1>0 DEF LifecycleInv, StoppedLeaves, Others, At
<1>8. ASSUME NEW u \in Users \ overlapped PROVE Orderly(u)'
  <2> USE DEF LifecycleInv, Orderly, Others
  <2>0. task'[g].user \in {None, task[g].user} /\ u # None
    BY <1>a DEF Idle
  <2>1. OneClient(u)'
    BY <1>0, <2>0 DEF OneClient, Goroutines
  <2>2. task[g].user = u => /\ bot[u] \in stopped /\ bot[u] \in cancelled
                            /\ \A h \in Goroutines \ {g} : ~Works(h, u, {"grace"})
    BY <1>0 DEF OneGrace, Works
  <2>a. \A h \in Goroutines : Works(h, u, {"grace"})' => h # g /\ Works(h, u, {"grace"})
    BY <1>0, <1>a DEF Works, Idle
  <2>b. \A h \in Goroutines : Works(h, u, {"swap"})' => h # g /\ Works(h, u, {"swap"})
    BY <1>0, <1>a DEF Works, Idle
  <2>3. OneGrace(u)'
    BY <1>0, <1>b, <2>2, <2>a DEF OneGrace, Works
  <2>4. StaleStopped(u)'
    BY <1>0, <1>b, <2>2, <2>b DEF StaleStopped, Works
  <2>5. OwnSwap(u)'
    BY <1>0, <1>b, <2>b DEF OwnSwap, Works, Goroutines
  <2>6. CommittedClear(u)'
    <3>1. CASE task[g].user = u
      <4>1. Gone(u)' /\ \A h \in Goroutines : Works(h, u, {"swap"})' => task'[h].bot \in stopped'
        BY <3>1, <1>0, <1>b, <2>2, <2>b DEF Gone, StaleStopped, Works
      <4>2. QED BY <4>1 DEF CommittedClear
    <3>2. CASE task[g].user # u
      BY <3>2, <1>0, <1>b, <2>0, <2>b DEF CommittedClear, Works, Gone
    <3>3. QED BY <3>1, <3>2
  <2>7. BuildingAlone(u)'
    <3>1. \A h \in Goroutines : Works(h, u, Building)' => h # g /\ Works(h, u, Building)
      BY <1>0, <1>a DEF Works, Idle, Building
    <3>2. QED BY <3>1, <2>a DEF BuildingAlone
  <2>8. Replaced(u)'
    BY <1>0, <1>a, <1>b DEF Replaced, Works, Idle
  <2>9. WakesInTurn(u)'
    <3>1. task'[g].user = u => \A h \in Goroutines \ {g} : ~Works(h, u, {"grace"})
      BY <2>0, <2>2
    <3>2. ~Works(g, u, {"grace"})'
      BY <2>a
    <3>3. QED BY <1>0, <1>c, <3>1, <3>2, TurnShifts
  <2>10. NoneLost(u)'
    BY <1>0, <1>b, <2>2 DEF NoneLost, At
  <2>11. QED BY <2>1, <2>3, <2>4, <2>5, <2>6, <2>7, <2>8, <2>9, <2>10
<1>9. QED BY <1>1, <1>2, <1>3, <1>4, <1>5, <1>6, <1>7, <1>8 DEF LifecycleInv

LEMMA ReloadKeeps ==
  ASSUME LifecycleInv, NEW g \in Goroutines, Wakes(g, "pause"), Becomes(g, "load"),
         sleepers' = Tail(sleepers), task' \in [Goroutines -> Task],
         UNCHANGED <<bot, botVars, cancelled, stopped, rest>>
  PROVE  LifecycleInv'
<1> USE LifecycleAssumption DEF botVars, rest, Becomes
<1>0. /\ task[g] # Idle /\ task[g].user \in Users /\ task[g].at = "pause"
      /\ sleepers \in Seq(Goroutines) /\ sleepers # <<>> /\ Head(sleepers) = g
  BY WorkerHasUser DEF LifecycleInv, TypeOK, Idle, Wakes, At
<1>1. TypeOK'
  BY <1>0, TailFacts DEF LifecycleInv, TypeOK
<1>2. Shape'
  BY <1>0 DEF LifecycleInv, Shape, Others, At, Idle, Building
<1>3. Names'
  BY DEF LifecycleInv, Names, Others
<1>4. Unseen'
  BY DEF LifecycleInv, Unseen, Others, At
<1>5. Booting'
  BY <1>0, BootingKeeps DEF LifecycleInv
<1>6. Queue'
  BY <1>0, QueueShrinks DEF LifecycleInv, Sleeps
<1>7. StoppedLeaves'
  BY <1>0 DEF LifecycleInv, StoppedLeaves, Others, At
<1>8. ASSUME NEW u \in Users \ overlapped PROVE Orderly(u)'
  <2> USE DEF LifecycleInv, Orderly, Others
  <2>1. OneClient(u)'
    BY DEF OneClient, Goroutines
  <2>2. OneGrace(u)'
    BY DEF OneGrace, Works
  <2>3. StaleStopped(u)'
    BY DEF StaleStopped, Works
  <2>4. OwnSwap(u)'
    BY DEF OwnSwap, Works, Goroutines
  <2>5. CommittedClear(u)'
    BY <1>0 DEF CommittedClear, Gone, Works, Committed
  <2>6. BuildingAlone(u)'
    <3>1. task[g].user = u => \A h \in Goroutines : ~Works(h, u, {"grace"})
      <4>1. 1 \in DOMAIN sleepers /\ sleepers[1] = g
        BY <1>0, TailFacts
      <4>2. QED BY <1>0, <4>1 DEF WakesInTurn, Works
    <3>2. QED BY <3>1 DEF BuildingAlone, Works, Building
  <2>7. Replaced(u)'
    BY DEF Replaced, Works
  <2>8. WakesInTurn(u)'
    BY <1>0, TurnShifts DEF Works
  <2>9. NoneLost(u)'
    BY <1>0 DEF NoneLost, At
  <2>10. QED BY <2>1, <2>2, <2>3, <2>4, <2>5, <2>6, <2>7, <2>8, <2>9
<1>9. QED BY <1>1, <1>2, <1>3, <1>4, <1>5, <1>6, <1>7, <1>8 DEF LifecycleInv

-----------------------------------------------------------------------------
(* A bot is created and registered.                                        *)

LEMMA InitializeKeeps ==
  ASSUME LifecycleInv, NEW g \in Goroutines, task[g].at = "init", Others(g), created < MaxBots,
         created' = created + 1,
         owner' = [owner EXCEPT ![created + 1] = task[g].user],
         client' = [client EXCEPT ![created + 1] = "connecting"],
         task'[g].op = task[g].op, task'[g].user = task[g].user,
         task'[g].bot = created + 1, task'[g].at = "set",
         task' \in [Goroutines -> Task],
         UNCHANGED <<bot, cancelled, stopped, sleepers, rest>>
  PROVE  LifecycleInv'
<1> USE LifecycleAssumption DEF rest
<1>0. task[g] # Idle /\ task[g].user \in Users
  BY WorkerHasUser DEF LifecycleInv, Idle
<1>a. /\ created + 1 \in Bots /\ created' = created + 1 /\ created \in Nat
      /\ client[created + 1] = "none" /\ owner[created + 1] = None
      /\ created + 1 \notin stopped
  BY DEF LifecycleInv, TypeOK, Names, Bots
<1>b. /\ \A b \in Bots \ {created + 1} : owner'[b] = owner[b] /\ client'[b] = client[b]
      /\ owner'[created + 1] = task[g].user /\ client'[created + 1] = "connecting"
  BY <1>a DEF LifecycleInv, TypeOK
<1>c. /\ \A u \in Users : bot[u] # created + 1
      /\ \A h \in Goroutines : task[h].bot # created + 1
  <2>1. created + 1 # NoBot /\ ~(created + 1 <= created)
    BY <1>a DEF NoBot
  <2>2. QED BY <2>1 DEF LifecycleInv, Names
<1>1. TypeOK'
  BY <1>0, <1>a DEF LifecycleInv, TypeOK
<1>2. Shape'
  BY <1>0 DEF LifecycleInv, Shape, Others, At, Idle, Building
<1>3. Names'
  <2>1. \A b \in Bots : b > created' => client'[b] = "none" /\ owner'[b] = None /\ b \notin stopped
    BY <1>a, <1>b DEF LifecycleInv, TypeOK, Names, Bots
  <2>2. \A b \in Bots : b <= created' => client'[b] # "none" /\ owner'[b] \in Users
    BY <1>0, <1>a, <1>b DEF LifecycleInv, TypeOK, Names, Bots
  <2>3. \A u \in Users : bot[u] # NoBot => bot[u] <= created' /\ owner'[bot[u]] = u
    BY <1>a, <1>b, <1>c DEF LifecycleInv, TypeOK, Names, Bots
  <2>4. \A h \in Goroutines : task'[h].bot # NoBot =>
          task'[h].bot <= created' /\ owner'[task'[h].bot] = task'[h].user
    <3>1. ASSUME NEW h \in Goroutines \ {g}, task[h].bot # NoBot
          PROVE  /\ task[h].bot \in Bots \ {created + 1}
                 /\ task[h].bot <= created'
                 /\ owner[task[h].bot] = task[h].user
      <4>1. task[h].bot \in Bots /\ task[h].bot <= created /\ task[h].bot # created + 1
        BY <3>1, <1>c DEF LifecycleInv, TypeOK, Names, Task
      <4>2. QED BY <3>1, <4>1, <1>a DEF LifecycleInv, Names, Bots
    <3>2. QED BY <3>1, <1>a, <1>b DEF Others
  <2>5. \A h \in Goroutines : task'[h].at \in {"set", "swap", "grace"} => task'[h].bot # NoBot
    BY <1>a DEF LifecycleInv, Names, NoBot, Others
  <2>6. QED BY <2>1, <2>2, <2>3, <2>4, <2>5 DEF Names
<1>4. Unseen'
  BY <1>a, <1>c DEF LifecycleInv, Unseen, Others, At
<1>5. Booting'
  BY <1>0, <1>b, BootingKeeps DEF LifecycleInv
<1>6. Queue'
  BY QueueStays DEF LifecycleInv, TypeOK, Sleeps
<1>7. StoppedLeaves'
  <2>1. \A b \in Bots, u \in Users : owner[b] = u /\ client[b] = "rejected" =>
                                     owner'[b] = u /\ client'[b] = "rejected"
    BY <1>a, <1>b
  <2>2. QED BY <2>1 DEF LifecycleInv, StoppedLeaves, Others, At
<1>8. ASSUME NEW u \in Users \ overlapped PROVE Orderly(u)'
  <2> USE DEF LifecycleInv, Orderly, Others
  <2>1. OneClient(u)'
    BY DEF OneClient, Goroutines
  <2>2. OneGrace(u)'
    BY DEF OneGrace, Works
  <2>3. StaleStopped(u)'
    BY DEF StaleStopped, Works
  <2>4. OwnSwap(u)'
    BY DEF OwnSwap, Works, Goroutines
  <2>5. CommittedClear(u)'
    BY DEF CommittedClear, Gone, Works, Committed, Building
  <2>6. BuildingAlone(u)'
    BY DEF BuildingAlone, Works, Building
  <2>7. Replaced(u)'
    BY DEF Replaced, Works
  <2>8. WakesInTurn(u)'
    BY TurnStays DEF Sleeps
  <2>9. NoneLost(u)'
    BY <1>a, <1>b DEF NoneLost, At
  <2>10. QED BY <2>1, <2>2, <2>3, <2>4, <2>5, <2>6, <2>7, <2>8, <2>9
<1>9. QED BY <1>1, <1>2, <1>3, <1>4, <1>5, <1>6, <1>7, <1>8 DEF LifecycleInv

LEMMA SetKeeps ==
  ASSUME LifecycleInv, NEW g \in Goroutines, task[g].at = "set", Rests(g),
         bot' = [bot EXCEPT ![task[g].user] = task[g].bot],
         task' \in [Goroutines -> Task],
         UNCHANGED <<botVars, cancelled, stopped, sleepers, rest>>
  PROVE  LifecycleInv'
<1> USE LifecycleAssumption DEF botVars, rest, Rests
<1>0. /\ task[g] # Idle /\ task[g].user \in Users
      /\ task[g].bot \in Bots /\ task[g].bot <= created /\ owner[task[g].bot] = task[g].user
      /\ task[g].bot \notin stopped
  BY WorkerHasUser DEF LifecycleInv, TypeOK, Names, Unseen, At, Idle, Task
<1>a. \A u \in Users : bot'[u] = IF u = task[g].user THEN task[g].bot ELSE bot[u]
  BY DEF LifecycleInv, TypeOK
<1>b. \A h \in Goroutines : task'[h].at # "idle" => h # g /\ task'[h] = task[h]
  BY DEF Others, Idle
<1>1. TypeOK'
  BY <1>0 DEF LifecycleInv, TypeOK
<1>2. Shape'
  BY <1>0 DEF LifecycleInv, Shape, Others, At, Idle, Building
<1>3. Names'
  BY <1>0, <1>a DEF LifecycleInv, Names, Others, Idle
<1>4. Unseen'
  <2> SUFFICES ASSUME NEW h \in Goroutines, task'[h].at = "set"
               PROVE  /\ \A u \in Users : bot'[u] # task'[h].bot
                      /\ task'[h].bot \notin stopped
                      /\ \A i \in Goroutines \ {h} : task'[i].bot # task'[h].bot
    BY DEF Unseen, At
  <2>1. h # g /\ task'[h] = task[h] /\ task[h].at = "set" /\ task[h].bot # NoBot
    BY <1>b DEF LifecycleInv, Names
  <2>2. task[h].bot # task[g].bot /\ task[h].bot \notin stopped
    BY <2>1 DEF LifecycleInv, Unseen, At
  <2>3. \A i \in Goroutines \ {h} : task'[i].bot \in {NoBot, task[i].bot}
    BY DEF Others, Idle
  <2>4. QED BY <1>a, <2>1, <2>2, <2>3 DEF LifecycleInv, Unseen, At
<1>5. Booting'
  BY <1>0, <1>a, BootingKeeps DEF LifecycleInv, Idle
<1>6. Queue'
  BY QueueStays DEF LifecycleInv, TypeOK, Sleeps, Idle
<1>7. StoppedLeaves'
  BY <1>0, <1>a DEF LifecycleInv, StoppedLeaves, Others, At
<1>8. ASSUME NEW u \in Users \ overlapped PROVE Orderly(u)'
  <2> USE DEF LifecycleInv, Orderly
  <2>1. OneClient(u)'
    BY DEF OneClient, Goroutines, Others, Idle
  <2>2. ASSUME task[g].user = u
        PROVE  /\ \A h \in Clients \ {g} : task[h].user # u
               /\ \A h \in Goroutines \ {g} : ~Works(h, u, Committed)
    <3>1. g \in Clients \/ g = StartBots
      BY <1>0 DEF Shape, Goroutines
    <3>2. \A h \in Clients \ {g} : task[h].user # u
      BY <2>2, <3>1, <1>0 DEF OneClient, Booting, Goroutines
    <3>3. \A h \in Listeners : ~Works(h, u, Committed)
      BY DEF Shape, Works, Committed, Building, Idle, Goroutines
    <3>4. g # StartBots => task[StartBots].user # u
      BY <2>2, <1>0 DEF Booting, Goroutines
    <3>5. QED BY <3>2, <3>3, <3>4 DEF Works, Goroutines
  <2>3. task[g].user = u =>
          \A h \in Goroutines : /\ ~Works(h, u, {"grace"})
                                /\ Works(h, u, {"swap"}) => task[h].bot \in stopped
    BY DEF BuildingAlone, CommittedClear, Works, Building, Committed
  <2>4. OneGrace(u)'
    BY <1>a, <1>b, <2>3 DEF OneGrace, Works
  <2>5. StaleStopped(u)'
    BY <1>a, <1>b, <2>3 DEF StaleStopped, Works
  <2>6. OwnSwap(u)'
    BY <1>a, <1>b, <2>2 DEF OwnSwap, Works, Goroutines
  <2>7. CommittedClear(u)'
    <3>1. CASE task[g].user = u
      BY <3>1, <1>b, <2>2 DEF CommittedClear, Works, Committed, Building
    <3>2. CASE task[g].user # u
      BY <3>2, <1>a, <1>b DEF CommittedClear, Works, Gone, Committed, Building
    <3>3. QED BY <3>1, <3>2
  <2>8. BuildingAlone(u)'
    BY <1>b DEF BuildingAlone, Works, Building
  <2>9. Replaced(u)'
    <3>1. CASE task[g].user = u
      BY <3>1, <1>b, <2>2 DEF Replaced, Works, Committed, Building
    <3>2. CASE task[g].user # u
      BY <3>2, <1>a, <1>b DEF Replaced, Works
    <3>3. QED BY <3>1, <3>2
  <2>10. WakesInTurn(u)'
    BY TurnStays DEF Sleeps, Idle
  <2>11. NoneLost(u)'
    <3> SUFFICES ASSUME NEW b \in Bots, owner[b] = u
                 PROVE  \/ bot'[u] = b \/ b \in cancelled
                        \/ \E h \in Goroutines : At(h, "set")' /\ task'[h].bot = b
      BY DEF NoneLost
    <3>1. CASE bot[u] = b
      BY <3>1, <1>0, <1>a DEF Replaced, Works, NoBot, Bots
    <3>2. CASE b \in cancelled
      BY <3>2
    <3>3. ASSUME NEW h \in Goroutines, At(h, "set"), task[h].bot = b
          PROVE  bot'[u] = b \/ (At(h, "set")' /\ task'[h].bot = b)
      <4>1. CASE h = g
        BY <4>1, <3>3, <1>0, <1>a
      <4>2. CASE h # g
        BY <4>2, <3>3 DEF At, Others
      <4>3. QED BY <4>1, <4>2
    <3>4. QED BY <3>1, <3>2, <3>3 DEF NoneLost
  <2>12. QED BY <2>1, <2>4, <2>5, <2>6, <2>7, <2>8, <2>9, <2>10, <2>11
<1>9. QED BY <1>1, <1>2, <1>3, <1>4, <1>5, <1>6, <1>7, <1>8 DEF LifecycleInv

-----------------------------------------------------------------------------
(* A goroutine begins to work for a user.                                  *)

LEMMA BootKeeps ==
  ASSUME LifecycleInv, NEW u0 \in Users, Boot(u0)
  PROVE  LifecycleInv'
<1> USE LifecycleAssumption DEF botVars
<1> DEFINE new == [op |-> "boot", user |-> u0, bot |-> NoBot, at |-> "load"]
<1>0. /\ u0 \in unbooted /\ StartBots \in Goroutines /\ task[StartBots] = Idle
      /\ task'[StartBots] = new /\ Others(StartBots) /\ new \in Task
      /\ task' \in [Goroutines -> Task]
      /\ unbooted' = unbooted \ {u0}
      /\ UNCHANGED <<bot, created, owner, client, cancelled, stopped, sleepers, overlapped>>
  BY DEF LifecycleInv, TypeOK, Boot, Begin, Goroutines, Others, Task, Ops, Places
<1>a. bot[u0] = NoBot /\ \A g \in Goroutines : task[g].user # u0
  BY <1>0 DEF LifecycleInv, Booting
<1>b. \A b \in Bots : owner[b] # u0
  BY <1>0 DEF LifecycleInv, Booting
<1> HIDE DEF new
<1>c. /\ new.op = "boot" /\ new.user = u0 /\ new.bot = NoBot /\ new.at = "load"
      /\ Idle.user = None /\ Idle.at = "idle"
  BY DEF new, Idle
<1>1. TypeOK'
  BY <1>0 DEF LifecycleInv, TypeOK
<1>2. Shape'
  BY <1>0, <1>c DEF LifecycleInv, Shape, Others, At, Building
<1>3. Names'
  BY <1>0, <1>c DEF LifecycleInv, Names, Others
<1>4. Unseen'
  BY <1>0, <1>c DEF LifecycleInv, Unseen, Names, Others, At
<1>5. Booting'
  <2>1. \A g \in Clients : task'[g] = Idle
    BY <1>0 DEF LifecycleInv, Booting, WebServerUp, Others, Goroutines
  <2>2. \A u \in unbooted' : bot[u] = NoBot /\ \A g \in Goroutines : task'[g].user # u
    BY <1>0, <1>c DEF LifecycleInv, Booting, Others
  <2>3. \A u \in Users : task'[StartBots].user = u =>
          bot[u] = NoBot /\ \A g \in Goroutines \ {StartBots} : task'[g].user # u
    BY <1>0, <1>a, <1>c DEF Others
  <2>4. QED BY <1>0, <2>1, <2>2, <2>3 DEF LifecycleInv, Booting
<1>6. Queue'
  BY <1>0, <1>c, QueueStays DEF LifecycleInv, TypeOK, Sleeps
<1>7. StoppedLeaves'
  BY <1>0, <1>c DEF LifecycleInv, StoppedLeaves, Others, At
<1>8. ASSUME NEW u \in Users \ overlapped' PROVE Orderly(u)'
  <2>0. u \in Users \ overlapped /\ Orderly(u)
    BY <1>0 DEF LifecycleInv
  <2> USE <1>0 DEF Orderly, Others
  <2>1. OneClient(u)'
    BY <2>0 DEF OneClient, Goroutines
  <2>2. OneGrace(u)'
    BY <2>0, <1>c DEF OneGrace, Works
  <2>3. StaleStopped(u)'
    BY <2>0, <1>c DEF StaleStopped, Works
  <2>4. OwnSwap(u)'
    BY <2>0, <1>c DEF OwnSwap, Works, Goroutines
  <2>5. CommittedClear(u)'
    BY <2>0, <1>a, <1>c DEF CommittedClear, Gone, Works, Committed, Building
  <2>6. BuildingAlone(u)'
    BY <2>0, <1>a, <1>c DEF BuildingAlone, Works, Building
  <2>7. Replaced(u)'
    BY <2>0, <1>c DEF Replaced, Works
  <2>8. WakesInTurn(u)'
    BY <2>0, <1>c, TurnStays DEF LifecycleInv, Sleeps
  <2>9. NoneLost(u)'
    BY <2>0, <1>c DEF NoneLost, At
  <2>10. QED BY <2>1, <2>2, <2>3, <2>4, <2>5, <2>6, <2>7, <2>8, <2>9
<1>9. QED BY <1>1, <1>2, <1>3, <1>4, <1>5, <1>6, <1>7, <1>8 DEF LifecycleInv

\* A request, or a listener that stops a bot.
LEMMA BeginKeeps ==
  ASSUME LifecycleInv, NEW u0 \in Users, NEW g \in Goroutines \ {StartBots},
         NEW op \in Ops \ {"idle", "boot"}, NEW place \in {"save", "check", "lookup"},
         Begin(g, op, u0, place),
         op = "stop" => place = "lookup",
         g \in Listeners => op = "stop" /\ bot[u0] # NoBot,
         g \in Clients => WebServerUp,
         overlapped \subseteq overlapped', overlapped' \subseteq Users,
         g \in Clients => u0 \in overlapped' \/ \A h \in Clients : task[h].user # u0,
         UNCHANGED <<bot, botVars, cancelled, stopped, unbooted, sleepers>>
  PROVE  LifecycleInv'
<1> USE LifecycleAssumption DEF botVars
<1> DEFINE new == [op |-> op, user |-> u0, bot |-> NoBot, at |-> place]
<1>0. /\ task[g] = Idle /\ task'[g] = new /\ Others(g) /\ new \in Task
      /\ task' \in [Goroutines -> Task]
  BY DEF LifecycleInv, TypeOK, Begin, Others, Task, Ops, Places
<1> HIDE DEF new
<1>c. /\ new.op = op /\ new.user = u0 /\ new.bot = NoBot /\ new.at = place
      /\ Idle.user = None /\ Idle.at = "idle" /\ Idle.op = "idle"
  BY DEF new, Idle
<1>1. TypeOK'
  BY <1>0 DEF LifecycleInv, TypeOK
<1>2. Shape'
  BY <1>0, <1>c DEF LifecycleInv, Shape, Others, At, Ops
<1>3. Names'
  BY <1>0, <1>c DEF LifecycleInv, Names, Others
<1>4. Unseen'
  BY <1>0, <1>c DEF LifecycleInv, Unseen, Names, Others, At
<1>5. Booting'
  <2>1. ~WebServerUp' => \A h \in Clients : task'[h] = Idle
    <3>1. WebServerUp' = WebServerUp
      BY <1>0 DEF WebServerUp, Others, Goroutines
    <3>2. ~WebServerUp => \A h \in Clients : task'[h] = Idle
      BY <1>0 DEF LifecycleInv, Booting, Others, Goroutines
    <3>3. QED BY <3>1, <3>2
  <2>2. u0 \notin unbooted
    BY DEF LifecycleInv, Booting, WebServerUp, Goroutines
  <2>3. \A u \in unbooted : bot[u] = NoBot /\ \A h \in Goroutines : task'[h].user # u
    BY <1>0, <1>c, <2>2 DEF LifecycleInv, Booting, Others
  <2>4. task[StartBots].user # u0
    BY DEF LifecycleInv, Booting, WebServerUp, Goroutines, Idle
  <2>5. \A u \in Users : task'[StartBots].user = u =>
          bot[u] = NoBot /\ \A h \in Goroutines \ {StartBots} : task'[h].user # u
    BY <1>0, <1>c, <2>4 DEF LifecycleInv, Booting, Others, Goroutines
  <2>6. QED BY <1>0, <2>1, <2>3, <2>5 DEF LifecycleInv, Booting
<1>6. Queue'
  BY <1>0, <1>c, QueueStays DEF LifecycleInv, TypeOK, Sleeps
<1>7. StoppedLeaves'
  BY <1>0, <1>c DEF LifecycleInv, StoppedLeaves, Others, At
<1>8. ASSUME NEW u \in Users \ overlapped' PROVE Orderly(u)'
  <2>0. u \in Users \ overlapped /\ Orderly(u)
    BY DEF LifecycleInv
  <2> USE <1>0 DEF Orderly, Others
  <2>1. OneClient(u)'
    <3> SUFFICES ASSUME NEW h \in Clients, NEW i \in Clients, task'[h].user = u, task'[i].user = u
                 PROVE  h = i
      BY DEF OneClient
    <3>1. CASE h # g /\ i # g
      BY <3>1, <2>0 DEF OneClient, Goroutines
    <3>2. CASE h = g \/ i = g
      BY <3>2, <1>8, <1>c DEF Goroutines
    <3>3. QED BY <3>1, <3>2
  <2>2. OneGrace(u)'
    BY <2>0, <1>c DEF OneGrace, Works
  <2>3. StaleStopped(u)'
    BY <2>0, <1>c DEF StaleStopped, Works
  <2>4. OwnSwap(u)'
    BY <2>0, <1>c DEF OwnSwap, Works, Goroutines
  <2>5. CommittedClear(u)'
    BY <2>0, <1>c DEF CommittedClear, Gone, Works, Committed, Building
  <2>6. BuildingAlone(u)'
    BY <2>0, <1>c DEF BuildingAlone, Works, Building
  <2>7. Replaced(u)'
    BY <2>0, <1>c DEF Replaced, Works
  <2>8. WakesInTurn(u)'
    BY <2>0, <1>c, TurnStays DEF LifecycleInv, Sleeps
  <2>9. NoneLost(u)'
    BY <2>0, <1>c DEF NoneLost, At
  <2>10. QED BY <2>1, <2>2, <2>3, <2>4, <2>5, <2>6, <2>7, <2>8, <2>9
<1>9. QED BY <1>1, <1>2, <1>3, <1>4, <1>5, <1>6, <1>7, <1>8 DEF LifecycleInv

-----------------------------------------------------------------------------
(* The client goroutine of a bot.                                          *)

LEMMA ClientKeeps ==
  ASSUME LifecycleInv, NEW b0 \in Bots, client[b0] # "none",
         NEW s \in {"running", "disabling", "rejected", "ended"},
         client' = [client EXCEPT ![b0] = s], client[b0] # "rejected",
         \/ UNCHANGED stopped
         \/ /\ s = "rejected"
            /\ bot[owner[b0]] # NoBot
            /\ stopped' = stopped \cup {bot[owner[b0]]},
         UNCHANGED clientFrame
  PROVE  LifecycleInv'
<1> USE LifecycleAssumption DEF clientFrame, rest
<1>0. /\ created \in Nat /\ b0 <= created /\ owner[b0] \in Users
      /\ stopped' \subseteq Bots /\ stopped \subseteq stopped'
      /\ client'[b0] = s /\ \A b \in Bots \ {b0} : client'[b] = client[b]
  <2>1. created \in Nat /\ b0 <= created
    BY DEF LifecycleInv, TypeOK, Names, Bots
  <2>2. owner[b0] \in Users /\ bot[owner[b0]] \in Bots \cup {NoBot}
    BY <2>1 DEF LifecycleInv, TypeOK, Names
  <2>3. QED BY <2>1, <2>2 DEF LifecycleInv, TypeOK
<1>1. TypeOK'
  BY <1>0 DEF LifecycleInv, TypeOK
<1>2. Shape'
  BY DEF LifecycleInv, Shape, At
<1>3. Names'
  <2>1. \A b \in Bots : b > created => client'[b] = "none" /\ owner[b] = None /\ b \notin stopped'
    <3>1. \A u \in Users : bot[u] # NoBot => ~(bot[u] > created)
      BY <1>0 DEF LifecycleInv, TypeOK, Names, Bots
    <3>2. QED BY <3>1, <1>0 DEF LifecycleInv, Names, Bots
  <2>2. \A b \in Bots : b <= created => client'[b] # "none" /\ owner[b] \in Users
    BY <1>0 DEF LifecycleInv, Names
  <2>3. QED BY <2>1, <2>2 DEF LifecycleInv, Names
<1>4. Unseen'
  BY <1>0 DEF LifecycleInv, Unseen, At
<1>5. Booting'
  BY DEF LifecycleInv, Booting, WebServerUp
<1>6. Queue'
  BY DEF LifecycleInv, Queue
<1>7. StoppedLeaves'
  <2> SUFFICES ASSUME NEW u \in Users, bot[u] \in stopped'
               PROVE  \/ \E g \in Goroutines : At(g, "grace") /\ task[g].user = u
                      \/ \E b \in Bots : owner[b] = u /\ client'[b] = "rejected"
    BY DEF StoppedLeaves, At
  <2>1. CASE bot[u] \in stopped
    BY <2>1, <1>0 DEF LifecycleInv, StoppedLeaves
  <2>2. CASE bot[u] \notin stopped
    <3>1. s = "rejected" /\ bot[u] = bot[owner[b0]] /\ bot[u] # NoBot
      BY <2>2
    <3>2. owner[b0] = u
      BY <3>1, <1>0 DEF LifecycleInv, Names
    <3>3. QED BY <3>1, <3>2, <1>0
  <2>3. QED BY <2>1, <2>2
<1>8. ASSUME NEW u \in Users \ overlapped PROVE Orderly(u)'
  BY <1>0 DEF LifecycleInv, Orderly, OneClient, OneGrace, StaleStopped, OwnSwap, CommittedClear,
              BuildingAlone, Replaced, WakesInTurn, NoneLost, Works, Gone, At
<1>9. QED BY <1>1, <1>2, <1>3, <1>4, <1>5, <1>6, <1>7, <1>8 DEF LifecycleInv

-----------------------------------------------------------------------------
(* The steps of a goroutine, one after another.                            *)

LEMMA QuietSteps ==
  ASSUME LifecycleInv, NEW g \in Goroutines,
         SaveSession(g) \/ RestartOrStart(g) \/ CheckNotRunning(g) \/ Load(g) \/ CancelExisting(g)
  PROVE  LifecycleInv'
<1> USE DEF At, Registered
<1>0. TypeOK /\ task[g] \in Task
  BY DEF LifecycleInv, TypeOK
<1>1. CASE SaveSession(g)
  <2>1. task' \in [Goroutines -> Task] /\ Others(g) /\ (Becomes(g, "choose") \/ Rests(g))
    BY <1>0, <1>1, GotoBecomes, FinishRests DEF SaveSession, Places, Becomes, Rests
  <2>2. task[g] # Idle /\ Onward(g)
    BY <1>1, <2>1 DEF SaveSession, Becomes, Rests, Onward, Idle
  <2>3. QED BY <1>1, <2>1, <2>2, OnwardKeeps DEF SaveSession, LifecycleInv, TypeOK
<1>2. CASE RestartOrStart(g)
  <2>1. /\ task' \in [Goroutines -> Task] /\ Others(g)
        /\ task'[g].user = task[g].user /\ task'[g].bot = task[g].bot
        /\ task'[g].at \in {"lookup", "check"} /\ task'[g].op \in {"restart", "start"}
    BY <1>0, <1>2 DEF TypeOK, RestartOrStart, Others, Task, Ops, Places
  <2>2. task[g] # Idle /\ Onward(g)
    BY <1>2, <2>1 DEF RestartOrStart, Onward, Idle
  <2>3. QED BY <1>2, <2>1, <2>2, OnwardKeeps DEF RestartOrStart, LifecycleInv, TypeOK
<1>3. CASE CheckNotRunning(g)
  <2>1. /\ task' \in [Goroutines -> Task] /\ Others(g)
        /\ Rests(g) \/ (Becomes(g, "load") /\ bot[task[g].user] = NoBot)
    BY <1>0, <1>3, GotoBecomes, FinishRests DEF CheckNotRunning, Places, Becomes, Rests
  <2>2. task[g] # Idle /\ Onward(g)
    BY <1>3, <2>1 DEF CheckNotRunning, Becomes, Rests, Onward, Idle
  <2>3. QED BY <1>3, <2>1, <2>2, OnwardKeeps DEF CheckNotRunning, LifecycleInv, TypeOK
<1>4. CASE Load(g)
  <2>1. task' \in [Goroutines -> Task] /\ Others(g) /\ (Becomes(g, "create") \/ Rests(g))
    BY <1>0, <1>4, GotoBecomes, FinishRests DEF Load, Places, Becomes, Rests
  <2>2. task[g] # Idle /\ Onward(g)
    BY <1>4, <2>1 DEF Load, Becomes, Rests, Onward, Idle
  <2>3. QED BY <1>4, <2>1, <2>2, OnwardKeeps DEF Load, LifecycleInv, TypeOK
<1>5. CASE CancelExisting(g)
  <2>1. task' \in [Goroutines -> Task] /\ Others(g) /\ Becomes(g, "init")
    BY <1>0, <1>5, GotoBecomes DEF CancelExisting, Places, Becomes
  <2>2. task[g] # Idle /\ Onward(g)
    BY <1>5, <2>1 DEF CancelExisting, Becomes, Onward, Idle
  <2>3. task[g].user \in Users
    BY <2>2, WorkerHasUser DEF LifecycleInv
  <2>4. cancelled \subseteq cancelled' /\ cancelled' \subseteq Bots
    BY <1>5, <2>3 DEF CancelExisting, LifecycleInv, TypeOK
  <2>5. QED BY <1>5, <2>1, <2>2, <2>4, OnwardKeeps DEF CancelExisting
<1>6. QED BY <1>1, <1>2, <1>3, <1>4, <1>5

LEMMA StopSteps ==
  ASSUME LifecycleInv, NEW g \in Goroutines, Lookup(g) \/ SwapStopped(g)
  PROVE  LifecycleInv'
<1> USE DEF At, Registered
<1>0. TypeOK /\ task[g] \in Task
  BY DEF LifecycleInv, TypeOK
<1>a. ASSUME task[g].at \in {"lookup", "swap"}, StopReturns(g),
             bot[task[g].user] = NoBot \/ (task[g].at = "swap" /\ task[g].bot \in stopped),
             UNCHANGED <<bot, botVars, cancelled, stopped, rest>>
      PROVE  LifecycleInv'
  <2>1. CASE task[g].op = "restart"
    <3>1. /\ Becomes(g, "pause") /\ task' \in [Goroutines -> Task]
          /\ sleepers' = Append(sleepers, g)
      BY <1>0, <1>a, <2>1, GotoBecomes DEF StopReturns, Sleep, Places
    <3>2. QED BY <1>a, <2>1, <3>1, PauseKeeps
  <2>2. CASE task[g].op # "restart"
    <3>1. Rests(g) /\ Others(g) /\ task' \in [Goroutines -> Task] /\ UNCHANGED sleepers
      BY <1>0, <1>a, <2>2, FinishRests DEF StopReturns, Rests
    <3>2. task[g] # Idle /\ Onward(g)
      BY <1>a, <3>1 DEF Onward, Rests, Idle
    <3>3. QED BY <1>0, <1>a, <3>1, <3>2, OnwardKeeps DEF TypeOK
  <2>3. QED BY <2>1, <2>2
<1>1. CASE Lookup(g) /\ bot[task[g].user] = NoBot
  BY <1>1, <1>a DEF Lookup
<1>2. CASE Lookup(g) /\ bot[task[g].user] # NoBot
  <2>1. task[g].user \in Users
    BY <1>2, WorkerHasUser DEF LifecycleInv, Lookup, Idle
  <2>2. bot[task[g].user] \in Bots \cup {NoBot}
    BY <2>1, <1>0 DEF TypeOK
  <2>3. /\ task' \in [Goroutines -> Task] /\ Others(g)
        /\ task'[g].user = task[g].user /\ task'[g].op = task[g].op
        /\ task'[g].bot = bot[task[g].user] /\ task'[g].at = "swap"
    BY <1>0, <1>2, <2>2 DEF Lookup, TypeOK, Others, Task, Places
  <2>4. QED BY <1>2, <2>3, LookupKeeps DEF Lookup
<1>3. CASE SwapStopped(g) /\ task[g].bot \in stopped
  BY <1>3, <1>a DEF SwapStopped
<1>4. CASE SwapStopped(g) /\ task[g].bot \notin stopped
  <2>1. /\ Becomes(g, "grace") /\ task' \in [Goroutines -> Task]
        /\ sleepers' = Append(sleepers, g)
    BY <1>0, <1>4, GotoBecomes DEF SwapStopped, Sleep, Places
  <2>2. QED BY <1>4, <2>1, SwapKeeps DEF SwapStopped
<1>5. QED BY <1>1, <1>2, <1>3, <1>4

LEMMA SleepSteps ==
  ASSUME LifecycleInv, NEW g \in Goroutines, DeleteBot(g) \/ Reload(g)
  PROVE  LifecycleInv'
<1>0. TypeOK
  BY DEF LifecycleInv
<1>1. CASE DeleteBot(g)
  <2>1. /\ task' \in [Goroutines -> Task]
        /\ \/ Rests(g) /\ sleepers' = Tail(sleepers)
           \/ /\ Becomes(g, "pause")
              /\ task[g].op = "restart"
              /\ sleepers' = Append(Tail(sleepers), g)
    BY <1>0, <1>1, GotoBecomes, FinishRests DEF DeleteBot, StopSucceeds, Places
  <2>2. QED BY <1>1, <2>1, DeleteKeeps DEF DeleteBot
<1>2. CASE Reload(g)
  <2>1. task' \in [Goroutines -> Task] /\ Becomes(g, "load")
    BY <1>0, <1>2, GotoBecomes DEF Reload, Places
  <2>2. QED BY <1>2, <2>1, ReloadKeeps DEF Reload
<1>3. QED BY <1>1, <1>2

LEMMA CreateSteps ==
  ASSUME LifecycleInv, NEW g \in Goroutines, InitializeBot(g) \/ SetBot(g)
  PROVE  LifecycleInv'
<1> USE LifecycleAssumption DEF At
<1>0. TypeOK /\ task[g] \in Task
  BY DEF LifecycleInv, TypeOK
<1>1. CASE InitializeBot(g) /\ Finish(g) /\ UNCHANGED botVars
  <2>1. Rests(g) /\ Others(g) /\ task' \in [Goroutines -> Task]
    BY <1>0, <1>1, FinishRests DEF Rests
  <2>2. task[g] # Idle /\ Onward(g)
    BY <1>1, <2>1 DEF InitializeBot, Onward, Rests, Idle
  <2>3. QED BY <1>0, <1>1, <2>1, <2>2, OnwardKeeps DEF InitializeBot, TypeOK
<1>2. CASE /\ InitializeBot(g)
           /\ created < MaxBots
           /\ created' = created + 1
           /\ owner' = [owner EXCEPT ![created + 1] = task[g].user]
           /\ client' = [client EXCEPT ![created + 1] = "connecting"]
           /\ task' = [task EXCEPT ![g].bot = created + 1, ![g].at = "set"]
  <2>1. created + 1 \in Bots
    BY <1>0, <1>2 DEF TypeOK, Bots
  <2>2. /\ task' \in [Goroutines -> Task] /\ Others(g)
        /\ task'[g].op = task[g].op /\ task'[g].user = task[g].user
        /\ task'[g].bot = created + 1 /\ task'[g].at = "set"
    BY <1>0, <1>2, <2>1 DEF TypeOK, Others, Task, Places
  <2>3. QED BY <1>2, <2>2, InitializeKeeps DEF InitializeBot
<1>3. CASE SetBot(g)
  <2>1. Rests(g) /\ task' \in [Goroutines -> Task]
    BY <1>0, <1>3, FinishRests DEF SetBot
  <2>2. QED BY <1>3, <2>1, SetKeeps DEF SetBot
<1>4. QED BY <1>1, <1>2, <1>3 DEF InitializeBot

LEMMA BeginSteps ==
  ASSUME LifecycleInv, NEW u \in Users,
         \/ Boot(u)
         \/ \E g \in Listeners : MissingAccessHash(g, u)
         \/ \E g \in Clients, op \in {"start", "stop", "restart", "auth"} : Request(g, op, u)
  PROVE  LifecycleInv'
<1> USE LifecycleAssumption DEF rest
<1>0. overlapped \subseteq Users
  BY DEF LifecycleInv, TypeOK
<1>1. CASE Boot(u)
  BY <1>1, BootKeeps
<1>2. ASSUME NEW g \in Listeners, MissingAccessHash(g, u) PROVE LifecycleInv'
  <2>1. g \in Goroutines \ {StartBots} /\ g \notin Clients
    BY DEF Goroutines
  <2>2. "stop" \in Ops \ {"idle", "boot"} /\ "lookup" \in {"save", "check", "lookup"}
    BY DEF Ops
  <2>3. QED BY <1>0, <1>2, <2>1, <2>2, BeginKeeps DEF MissingAccessHash
<1>3. ASSUME NEW g \in Clients, NEW op \in {"start", "stop", "restart", "auth"}, Request(g, op, u)
      PROVE  LifecycleInv'
  <2>1. g \in Goroutines \ {StartBots} /\ g \notin Listeners
    BY DEF Goroutines
  <2>2. /\ op \in Ops \ {"idle", "boot"}
        /\ FirstStep(op) \in {"save", "check", "lookup"}
        /\ op = "stop" => FirstStep(op) = "lookup"
    BY DEF Ops, FirstStep
  <2>3. /\ Begin(g, op, u, FirstStep(op)) /\ WebServerUp
        /\ UNCHANGED <<bot, botVars, cancelled, stopped, unbooted, sleepers>>
        /\ overlapped \subseteq overlapped' /\ overlapped' \subseteq Users
        /\ u \in overlapped' \/ \A h \in Clients : task[h].user # u
    BY <1>0, <1>3 DEF Request
  <2>4. QED BY <2>1, <2>2, <2>3, BeginKeeps
<1>4. QED BY <1>1, <1>2, <1>3

LEMMA ClientSteps ==
  ASSUME LifecycleInv, NEW b \in Bots,
         Authorised(b) \/ Unauthorised(b) \/ MarkStopped(b) \/ Disconnects(b)
  PROVE  LifecycleInv'
<1>1. CASE Authorised(b)
  BY <1>1, ClientKeeps DEF Authorised
<1>2. CASE Unauthorised(b)
  BY <1>2, ClientKeeps DEF Unauthorised
<1>3. CASE MarkStopped(b)
  BY <1>3, ClientKeeps DEF MarkStopped
<1>4. CASE Disconnects(b)
  BY <1>4, ClientKeeps DEF Disconnects
<1>5. QED BY <1>1, <1>2, <1>3, <1>4

-----------------------------------------------------------------------------
LEMMA InitInv == Init => LifecycleInv
<1> USE LifecycleAssumption
<1> SUFFICES ASSUME Init PROVE LifecycleInv
  OBVIOUS
<1>1. /\ TypeOK
      /\ \A g \in Goroutines : task[g] = Idle
      /\ Idle.user = None /\ Idle.at = "idle" /\ Idle.op = "idle" /\ Idle.bot = NoBot
  BY IdleIsTask DEF Init, TypeOK, Idle
<1>2. Shape
  BY <1>1 DEF Shape, At
<1>3. Names
  BY <1>1 DEF Init, Names, Bots, NoBot
<1>4. Unseen
  BY <1>1 DEF Unseen, At
<1>5. Booting
  BY <1>1 DEF Init, Booting, Goroutines
<1>6. Queue
  BY <1>1 DEF Init, Queue
<1>7. StoppedLeaves
  BY DEF Init, StoppedLeaves
<1>8. ASSUME NEW u \in Users PROVE Orderly(u)
  BY <1>1 DEF Init, Orderly, OneClient, OneGrace, StaleStopped, OwnSwap, CommittedClear,
              BuildingAlone, Replaced, WakesInTurn, NoneLost, Works, Committed, Building, Goroutines
<1>9. QED BY <1>1, <1>2, <1>3, <1>4, <1>5, <1>6, <1>7, <1>8 DEF LifecycleInv

LEMMA NextInv == LifecycleInv /\ [Next]_vars => LifecycleInv'
<1> SUFFICES ASSUME LifecycleInv, [Next]_vars PROVE LifecycleInv'
  OBVIOUS
<1>1. ASSUME NEW g \in Goroutines, Step(g) PROVE LifecycleInv'
  BY <1>1, QuietSteps, StopSteps, SleepSteps, CreateSteps DEF Step
<1>2. CASE UNCHANGED vars
  BY <1>2 DEF vars, LifecycleInv, TypeOK, Shape, Names, Unseen, Booting, WebServerUp, Queue,
              StoppedLeaves, Orderly, OneClient, OneGrace, StaleStopped, OwnSwap, CommittedClear,
              BuildingAlone, Replaced, WakesInTurn, NoneLost, Works, Gone, At
<1>3. QED BY <1>1, <1>2, BeginSteps, ClientSteps DEF Next

LEMMA InvariantHolds == Spec => []LifecycleInv
BY InitInv, NextInv, PTL DEF Spec

\* Of two live bots of u, one would be registered and cancelled by the other's builder, or
\* both would be in the hands of the one goroutine that is about to register a bot for u.
LEMMA LiveBotsEqual ==
  ASSUME LifecycleInv, NEW u \in Users \ overlapped, NEW b \in LiveBots(u), NEW c \in LiveBots(u)
  PROVE  b = c
<1> USE LifecycleAssumption DEF LiveBots, Live
<1>1. ASSUME NEW a \in LiveBots(u), a # bot[u]
      PROVE  \E g \in Goroutines : /\ At(g, "set") /\ task[g].bot = a /\ task[g].user = u
                                   /\ g \in Clients \cup {StartBots}
                                   /\ bot[u] = NoBot \/ bot[u] \in cancelled
  <2>1. PICK g \in Goroutines : At(g, "set") /\ task[g].bot = a
    BY <1>1 DEF LifecycleInv, Orderly, NoneLost
  <2>2. task[g].user = u
    BY <2>1 DEF LifecycleInv, Names, NoBot, Bots
  <2>3. g \in Clients \cup {StartBots}
    BY <2>1 DEF LifecycleInv, Shape, At, Goroutines, Idle
  <2>4. bot[u] = NoBot \/ bot[u] \in cancelled
    BY <2>1, <2>2 DEF LifecycleInv, Orderly, Replaced, Works, At
  <2>5. QED BY <2>1, <2>2, <2>3, <2>4
<1>2. CASE b = bot[u] \/ c = bot[u]
  BY <1>1, <1>2 DEF NoBot, Bots
<1>3. CASE b # bot[u] /\ c # bot[u]
  <2>1. PICK g \in Clients \cup {StartBots} : task[g].bot = b /\ task[g].user = u
    BY <1>1, <1>3
  <2>2. PICK h \in Clients \cup {StartBots} : task[h].bot = c /\ task[h].user = u
    BY <1>1, <1>3
  <2>3. g = h
    BY <2>1, <2>2 DEF LifecycleInv, Booting, Orderly, OneClient, Goroutines
  <2>4. QED BY <2>1, <2>2, <2>3
<1>4. QED BY <1>2, <1>3

\* Whatever the handlers, listeners, clients and sleeps do, the state stays of its type.
THEOREM TypeCorrect == Spec => []TypeOK
<1>1. LifecycleInv => TypeOK
  BY DEF LifecycleInv
<1>2. QED BY <1>1, InvariantHolds, PTL

\* A user whose requests never overlap has at most one bot that answers his messages, for
\* any number of users, requests, listeners, restarts and bots.
THEOREM AtMostOneLive == Spec => []OneLiveBot
<1>1. ASSUME LifecycleInv, NEW u \in Users \ overlapped PROVE Cardinality(LiveBots(u)) <= 1
  <2>1. CASE LiveBots(u) = {}
    BY <2>1, FS_EmptySet
  <2>2. CASE LiveBots(u) # {}
    <3>1. PICK b : b \in LiveBots(u)
      BY <2>2
    <3>2. \A c \in LiveBots(u) : c = b
      BY <1>1, <3>1, LiveBotsEqual
    <3>3. LiveBots(u) = {b}
      BY <3>1, <3>2
    <3>4. Cardinality({b}) = 1
      BY FS_Singleton
    <3>5. QED BY <3>3, <3>4
  <2>3. QED BY <2>1, <2>2
<1>2. LifecycleInv => OneLiveBot
  BY <1>1 DEF OneLiveBot
<1>3. QED BY <1>2, InvariantHolds, PTL

\* No delayed deletion hits the bot that came after the one it was meant for: a live bot is
\* registered or about to be, so that it can still be stopped.
THEOREM LiveStaysReachable == Spec => []LiveIsReachable
<1>1. LifecycleInv => LiveIsReachable
  BY DEF LifecycleInv, Orderly, NoneLost, LiveIsReachable, LiveBots, Live
<1>2. QED BY <1>1, InvariantHolds, PTL

\* A registered bot whose stopped flag is set has a StopUserBot that will delete it, or was
\* flagged by a client whose session is not authorised; requests may overlap.
THEOREM FlaggedBotsLeave == Spec => []StoppedLeaves
<1>1. LifecycleInv => StoppedLeaves
  BY DEF LifecycleInv
<1>2. QED BY <1>1, InvariantHolds, PTL
=============================================================================
