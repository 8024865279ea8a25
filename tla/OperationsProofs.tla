-------------------------- MODULE OperationsProofs --------------------------
(***************************************************************************)
(* Proofs about Operations: that the save at shutdown is the last word on   *)
(* the traffic, that rotations keep the newest generations of the log, that *)
(* the users on file are those that were reported, and that a foreign       *)
(* client is sent where the most specific route says; for any number of     *)
(* connections, backups, commands and routes, and with any faults.          *)
(*                                                                          *)
(* None of the four is inductive as it stands; each part has its invariant, *)
(* LifeInv, LogInv, AdminInv and RoutesInv, kept by the part's own steps.   *)
(***************************************************************************)
EXTENDS Operations, ExpiryLemmas

-----------------------------------------------------------------------------
(* The life of the server.                                                 *)
\* SavedAtLast is not inductive.  Once the tasks were cancelled, every pipe
\* that still runs, and every handler that could start one, has its
\* cancellation before it, so that none of them counts a chunk; it takes a
\* task that went on past its cancellation to change that.

Types ==
    /\ main \in {"serving", "stopping", "saved", "leaving", "off"}
    /\ once \in BOOLEAN /\ flag \in BOOLEAN /\ done \in BOOLEAN
    /\ handler \in [Conns -> {"none", "timed", "untimed", "late", "relaying",
                              "closing", "flushing", "ended"}]
    /\ pipe \in [Conns -> [Directions -> {"none", "running", "ended"}]]
    /\ cancelled \subseteq Tasks /\ gathered \subseteq Tasks /\ lost \subseteq Tasks
    /\ counted \in 0..MaxChunks /\ saved \in 0..counted

\* Only tasks that run have a cancellation to receive.
CancelledRun ==
    \A c \in Conns :
        /\ <<c, "handler">> \in cancelled => handler[c] \notin {"none", "ended"}
        /\ \A d \in Directions : <<c, d>> \in cancelled => pipe[c][d] = "running"

Flushing ==
    \A c \in Conns : handler[c] = "flushing" =>
        \A d \in Directions : pipe[c][d] = "ended"

\* After Stop, and while no cancellation was lost, every task has one; but a
\* handler that begins so late that it finds its stream closed.
AllCancelled ==
    main # "serving" /\ lost = {} =>
        \A c \in Conns :
            /\ handler[c] \notin {"none", "late", "ended"} => <<c, "handler">> \in cancelled
            /\ \A d \in Directions : pipe[c][d] = "running" => <<c, d>> \in cancelled

LifeInv == Types /\ CancelledRun /\ Flushing /\ AllCancelled /\ SavedAtLast

-----------------------------------------------------------------------------
\* What Live says of a handler and of a pipe.
LEMMA LiveTasks ==
    ASSUME NEW c \in Conns
    PROVE  /\ <<c, "handler">> \in Tasks
           /\ Live(<<c, "handler">>) <=> handler[c] \notin {"none", "ended"}
           /\ \A d \in Directions :
                /\ <<c, d>> \in Tasks
                /\ Live(<<c, d>>) <=> pipe[c][d] = "running"
  BY DEF Tasks, Live, Directions

\* A task is a handler or a pipe.
LEMMA TaskCases ==
    ASSUME NEW t \in Tasks
    PROVE  \E c \in Conns : \/ t = <<c, "handler">>
                            \/ \E d \in Directions : t = <<c, d>>
  BY DEF Tasks, Directions

\* The first three parts of the invariant are the type invariant.
LEMMA LifeTypes ==
    Types /\ CancelledRun /\ Flushing => TypeOK
<1> SUFFICES ASSUME Types, CancelledRun, Flushing PROVE TypeOK
  OBVIOUS
<1>1. ASSUME NEW t \in cancelled PROVE Live(t)
  <2>1. t \in Tasks
    BY DEF Types
  <2>2. PICK c \in Conns : t = <<c, "handler">> \/ \E d \in Directions : t = <<c, d>>
    BY <2>1, TaskCases
  <2> QED BY <2>2, LiveTasks DEF CancelledRun
<1> QED BY <1>1 DEF Types, Flushing, TypeOK

\* The invariant holds in the beginning.
LEMMA LifeInit == Init => LifeInv
<1> SUFFICES ASSUME Init PROVE LifeInv
  OBVIOUS
<1>1. Types
  <2>1. done = FALSE /\ flag = FALSE /\ once \in BOOLEAN
    BY DEF Init
  <2>2. counted \in 0..MaxChunks /\ saved \in 0..counted
    BY ShutdownAssumption DEF Init
  <2> QED BY <2>1, <2>2 DEF Init, Types
<1>2. CancelledRun /\ Flushing /\ AllCancelled /\ SavedAtLast
  BY DEF Init, CancelledRun, Flushing, AllCancelled, SavedAtLast
<1> QED BY <1>1, <1>2 DEF LifeInv

-----------------------------------------------------------------------------
\* A handler that ends has no cancellation left.
LEMMA HandlerEnds ==
    ASSUME Types, CancelledRun, NEW c \in Conns,
           handler' = [handler EXCEPT ![c] = "ended"], pipe' = pipe,
           cancelled' \subseteq cancelled, <<c, "handler">> \notin cancelled'
    PROVE  CancelledRun'
<1> SUFFICES ASSUME NEW b \in Conns
             PROVE  /\ <<b, "handler">> \in cancelled' => handler'[b] \notin {"none", "ended"}
                    /\ \A d \in Directions : <<b, d>> \in cancelled' => pipe'[b][d] = "running"
  BY DEF CancelledRun
<1>1. handler'[b] = IF b = c THEN "ended" ELSE handler[b]
  BY DEF Types
<1>2. <<b, "handler">> \in cancelled' => b # c /\ handler[b] \notin {"none", "ended"}
  BY DEF CancelledRun
<1>3. \A d \in Directions : <<b, d>> \in cancelled' => pipe'[b][d] = "running"
  BY DEF CancelledRun
<1> QED BY <1>1, <1>2, <1>3

\* The steps of a handler keep it.
LEMMA LifeHandlers ==
    ASSUME LifeInv, NEW c \in Conns,
           \/ Accept(c) \/ AcceptBanned(c) \/ AcceptLate(c) \/ Handshakes(c)
           \/ StartsRelay(c) \/ Returns(c) \/ Flushed(c) \/ BothPipesEnded(c)
           \/ FirstPipeEnded(c) \/ HandlerCancelled(c)
           \/ HandlerLosesCancel(c) \/ HandlerSwallowsCancel(c)
    PROVE  LifeInv'
<1> USE LiveTasks DEF LifeInv, Types, CancelledRun, Flushing, AllCancelled, SavedAtLast, To
<1>1. CASE Accept(c) \/ AcceptBanned(c) \/ AcceptLate(c)
  BY <1>1 DEF Accept, AcceptBanned, AcceptLate, mainVars
<1>2. CASE Handshakes(c)
  BY <1>2 DEF Handshakes, Runs, mainVars
<1>3. CASE StartsRelay(c)
  BY <1>3 DEF StartsRelay, Runs, mainVars
<1>0. DoneAfter(c) \in BOOLEAN
  BY DEF DoneAfter
<1>4. CASE Returns(c) \/ Flushed(c)
  <2>1. done' \in BOOLEAN
    BY <1>0, <1>4 DEF Returns, Flushed
  <2>2. Types'
    BY <1>4, <2>1 DEF Returns, Flushed, mainVars
  <2>3. CancelledRun'
    <3>1. <<c, "handler">> \notin cancelled
      BY <1>4 DEF Returns, Flushed, Runs
    <3>2. /\ handler' = [handler EXCEPT ![c] = "ended"]
          /\ pipe' = pipe /\ cancelled' = cancelled
      BY <1>4 DEF Returns, Flushed
    <3>3. Types /\ CancelledRun
      OBVIOUS
    <3> HIDE DEF Types, CancelledRun
    <3> QED BY <3>1, <3>2, <3>3, HandlerEnds
  <2>4. Flushing'
    BY <1>4 DEF Returns, Flushed, mainVars
  <2>5. AllCancelled' /\ SavedAtLast'
    BY <1>4 DEF Returns, Flushed, Runs, mainVars
  <2> QED BY <2>2, <2>3, <2>4, <2>5
<1>5. CASE BothPipesEnded(c)
  BY <1>5 DEF BothPipesEnded, Runs, mainVars
<1>6. CASE FirstPipeEnded(c)
  BY <1>6 DEF FirstPipeEnded, Runs, mainVars
<1>7. CASE HandlerCancelled(c)
  <2>1. done' \in BOOLEAN
    BY <1>0, <1>7 DEF HandlerCancelled
  <2>2. Types'
    BY <1>7, <2>1 DEF HandlerCancelled, mainVars
  <2>3. CancelledRun'
    <3>1. /\ handler' = [handler EXCEPT ![c] = "ended"] /\ pipe' = pipe
          /\ cancelled' \subseteq cancelled /\ <<c, "handler">> \notin cancelled'
      BY <1>7 DEF HandlerCancelled
    <3>2. Types /\ CancelledRun
      OBVIOUS
    <3> HIDE DEF Types, CancelledRun
    <3> QED BY <3>1, <3>2, HandlerEnds
  <2>4. Flushing'
    BY <1>7 DEF HandlerCancelled, mainVars
  <2>5. AllCancelled'
    BY <1>7 DEF HandlerCancelled, mainVars, Directions
  <2>6. SavedAtLast'
    BY <1>7 DEF HandlerCancelled, mainVars
  <2> QED BY <2>2, <2>3, <2>4, <2>5, <2>6
<1>8. CASE HandlerLosesCancel(c)
  BY <1>8 DEF HandlerLosesCancel, Receives, mainVars
<1>9. CASE HandlerSwallowsCancel(c)
  BY <1>9 DEF HandlerSwallowsCancel, Receives, mainVars
<1> QED BY <1>1, <1>2, <1>3, <1>4, <1>5, <1>6, <1>7, <1>8, <1>9

\* The steps of a pipe keep it.
LEMMA LifePipes ==
    ASSUME LifeInv, NEW c \in Conns, NEW d \in Directions,
           Counts(c, d) \/ PipeEnds(c, d) \/ PipeCancelled(c, d) \/ PipeLosesCancel(c, d)
    PROVE  LifeInv'
<1> USE LiveTasks DEF LifeInv, Types, CancelledRun, Flushing, AllCancelled, SavedAtLast, PipeEnd
<1>1. CASE Counts(c, d)
  <2>1. counted' \in 0..MaxChunks /\ saved' \in 0..counted'
    BY <1>1, ShutdownAssumption DEF Counts, mainVars
  <2>2. Types'
    BY <1>1, <2>1 DEF Counts, mainVars
  <2>3. CancelledRun' /\ Flushing' /\ AllCancelled'
    BY <1>1 DEF Counts, mainVars
  <2>4. SavedAtLast'
    <3>1. pipe[c][d] = "running" /\ <<c, d>> \notin cancelled
      BY <1>1 DEF Counts, Runs
    <3>2. main' = main /\ lost' = lost
      BY <1>1 DEF Counts, mainVars
    <3>3. main = "serving" \/ lost # {}
      BY <3>1
    <3> QED BY <3>2, <3>3
  <2> QED BY <2>2, <2>3, <2>4
<1>2. CASE PipeEnds(c, d)
  <2>1. /\ <<c, d>> \notin cancelled /\ pipe[c][d] = "running"
        /\ pipe' = [pipe EXCEPT ![c] = [pipe[c] EXCEPT ![d] = "ended"]]
        /\ UNCHANGED <<handler, cancelled, lost, counted, done>>
    BY <1>2 DEF PipeEnds, Runs
  <2>2. UNCHANGED <<main, once, flag, saved, gathered>>
    BY <1>2 DEF PipeEnds, mainVars
  <2>3. Types'
    BY <2>1, <2>2
  <2>4. CancelledRun'
    <3>1. ASSUME NEW x \in Conns, NEW e \in Directions, <<x, e>> \in cancelled'
          PROVE  pipe'[x][e] = "running"
      <4>1. <<x, e>> \in cancelled /\ <<x, e>> # <<c, d>>
        BY <2>1, <3>1
      <4>2. pipe[x][e] = "running" /\ (x # c \/ e # d)
        BY <4>1
      <4> QED BY <2>1, <4>2
    <3> QED BY <2>1, <3>1
  <2>5. Flushing' /\ AllCancelled'
    BY <2>1, <2>2
  <2>6. SavedAtLast'
    BY <2>1, <2>2
  <2> QED BY <2>3, <2>4, <2>5, <2>6
<1>3. CASE PipeCancelled(c, d)
  <2>1. Types'
    BY <1>3 DEF PipeCancelled, mainVars
  <2>2. CancelledRun'
    <3>1. /\ handler' = handler /\ cancelled' = cancelled \ {<<c, d>>}
          /\ pipe' = [pipe EXCEPT ![c] = [pipe[c] EXCEPT ![d] = "ended"]]
      BY <1>3 DEF PipeCancelled
    <3>2. ASSUME NEW x \in Conns, NEW e \in Directions, <<x, e>> \in cancelled'
          PROVE  pipe'[x][e] = "running"
      <4>1. <<x, e>> \in cancelled /\ <<x, e>> # <<c, d>>
        BY <3>1, <3>2
      <4>2. pipe[x][e] = "running" /\ (x # c \/ e # d)
        BY <4>1
      <4> QED BY <3>1, <4>2
    <3>3. \A x \in Conns : <<x, "handler">> \in cancelled'
                              => handler'[x] \notin {"none", "ended"}
      BY <3>1
    <3> QED BY <3>2, <3>3
  <2>3. Flushing'
    BY <1>3 DEF PipeCancelled, mainVars
  <2>4. AllCancelled'
    BY <1>3 DEF PipeCancelled, mainVars, Directions
  <2>5. SavedAtLast'
    BY <1>3 DEF PipeCancelled, mainVars
  <2> QED BY <2>1, <2>2, <2>3, <2>4, <2>5
<1>4. CASE PipeLosesCancel(c, d)
  BY <1>4, ShutdownAssumption DEF PipeLosesCancel, Receives, mainVars
<1> QED BY <1>1, <1>2, <1>3, <1>4

\* The steps of run and asyncio.run, and a signal, keep it.
LEMMA LifeMain ==
    ASSUME LifeInv, MainSteps \/ Signal
    PROVE  LifeInv'
<1> USE DEF LifeInv, Types, CancelledRun, Flushing, AllCancelled, SavedAtLast
<1>0. /\ AllTasks \subseteq Tasks
      /\ \A c \in Conns :
           /\ <<c, "handler">> \in AllTasks <=> handler[c] \notin {"none", "ended"}
           /\ \A d \in Directions : <<c, d>> \in AllTasks <=> pipe[c][d] = "running"
  BY LiveTasks DEF AllTasks
<1>1. CASE Signal
  BY <1>1 DEF Signal, conn
<1>2. CASE Stop
  BY <1>0, <1>2 DEF Stop
<1>3. CASE FinalSave
  BY <1>3 DEF FinalSave, conn
<1>4. CASE RunReturns
  BY <1>0, <1>4 DEF RunReturns
<1>5. CASE Exit
  BY <1>5 DEF Exit, conn
<1> QED BY <1>1, <1>2, <1>3, <1>4, <1>5 DEF MainSteps

LEMMA LifeNext == LifeInv /\ Next => LifeInv'
<1> SUFFICES ASSUME LifeInv, Next PROVE LifeInv'
  OBVIOUS
<1>1. CASE MainSteps \/ Signal
  BY <1>1, LifeMain
<1>2. ASSUME NEW c \in Conns, Delivers(c) \/ Timed(c) \/ Others(c)
      PROVE  LifeInv'
  BY <1>2, LifeHandlers, LifePipes DEF Delivers, Timed, Others
<1> QED BY <1>1, <1>2 DEF Next

\* LifeInv speaks of nothing but the variables of Shutdown.
LEMMA LifeStands == LifeInv /\ UNCHANGED vars => LifeInv'
BY DEF vars, conn, mainVars, LifeInv, Types, CancelledRun, Flushing, AllCancelled, SavedAtLast

-----------------------------------------------------------------------------
(* The log file.                                                           *)

\* Where the log is, the loop of the rotation and the handle agree.
LogPhase ==
    /\ gens \in Nat /\ broken \in Nat
    /\ file = "open" => current = gens /\ gens # 0
    /\ pc \in {"shift", "current"} =>
         /\ current = gens /\ gens # 0
         /\ slot \in 0..BackupCount - 1
         /\ slot < BackupCount - 1 => backups[slot + 1] = 0
    /\ pc = "current" => slot = 0

\* What log.<j> may be younger than its number says: by one generation,
\* when it has been moved and the log has not begun anew.
Slack(j) ==
    IF current = 0 \/ (pc \in {"shift", "current"} /\ j > slot + 1) THEN 1 ELSE 0

\* The number of a backup is its age, less the rotations that broke off.
Aged ==
    \A j \in 1..BackupCount :
        backups[j] # 0 => backups[j] <= gens - j + broken + Slack(j)

\* The parts of NewestKept.
Everywhere == L!Kept \cup gone = 1..gens /\ L!Kept \cap gone = {}
OldGone == \A g \in gone : g <= gens - BackupCount + broken
GoneFirst == \A g \in gone, k \in L!Kept : g < k
InOrder ==
    \A i \in 1..BackupCount :
        /\ current # 0 => backups[i] < current
        /\ \A j \in i + 1..BackupCount : backups[i] # 0 => backups[i] > backups[j]

LogInv ==
    L!TypeOK /\ LogPhase /\ Aged /\ Everywhere /\ OldGone /\ GoneFirst /\ InOrder

LEMMA LogInvMeans == LogInv => L!TypeOK /\ NewestKept
BY DEF LogInv, Everywhere, OldGone, GoneFirst, InOrder, NewestKept, L!NewestKept, L!None, L!Slots

\* What is kept, told by its elements.
LEMMA KeptIs ==
    \A g : g \in L!Kept <=> g # 0 /\ (g = current \/ \E i \in 1..BackupCount : backups[i] = g)
BY DEF L!Kept, L!None, L!Slots

LEMMA LogInit == L!Init => LogInv
<1> SUFFICES ASSUME L!Init PROVE LogInv
    OBVIOUS
<1> USE BackupAssumption DEF L!Init, L!None, L!Slots
<1>1. L!Kept = {}
    BY DEF L!Kept
<1>2. L!TypeOK /\ LogPhase
    BY DEF L!TypeOK, LogPhase
<1>3. Aged /\ OldGone /\ InOrder
    BY DEF Aged, OldGone, InOrder
<1>4. Everywhere /\ GoneFirst
    BY <1>1 DEF Everywhere, GoneFirst
<1> QED BY <1>2, <1>3, <1>4 DEF LogInv

\* A step that moves no file keeps what is kept.
LEMMA LogStays ==
    ASSUME LogInv, UNCHANGED <<current, backups, gens, gone>>,
           broken' \in Nat, broken' >= broken,
           L!TypeOK', LogPhase', Aged'
    PROVE  LogInv'
<1>1. L!Kept' = L!Kept
    BY DEF L!Kept, L!Slots, L!None
<1>2. Everywhere' /\ GoneFirst' /\ InOrder'
    BY <1>1 DEF LogInv, Everywhere, GoneFirst, InOrder
<1>3. OldGone'
  <2>1. \A g \in gone : g \in Int
      BY DEF LogInv, L!TypeOK, LogPhase
  <2> QED BY <2>1, BackupAssumption DEF LogInv, OldGone, LogPhase
<1> QED BY <1>2, <1>3 DEF LogInv

\* Opening the log: a new generation, or the log that is there.
LEMMA LogOpens ==
    ASSUME LogInv, L!Opens, pc' = "idle", pc \in {"down", "open"},
           UNCHANGED <<backups, slot, gone, broken>>
    PROVE  LogInv'
<1> USE BackupAssumption DEF L!None, L!Slots
<1>1. CASE current # 0
  <2>1. UNCHANGED <<current, gens>> /\ file' = "open"
      BY <1>1 DEF L!Opens
  <2>2. L!TypeOK' /\ LogPhase' /\ Aged'
      BY <1>1, <2>1 DEF LogInv, L!TypeOK, LogPhase, Aged, Slack
  <2> QED BY <2>1, <2>2, LogStays DEF LogInv, LogPhase
<1>2. CASE current = 0
  <2>1. gens' = gens + 1 /\ current' = gens + 1 /\ file' = "open"
      BY <1>2 DEF L!Opens
  <2>2. gens \in Nat /\ backups \in [1..BackupCount -> 0..gens] /\ gone \subseteq 1..gens
      BY DEF LogInv, L!TypeOK, LogPhase
  <2>3. L!TypeOK' /\ LogPhase'
      BY <2>1, <2>2 DEF LogInv, L!TypeOK, LogPhase
  <2>4. Aged'
      BY <1>2, <2>1, <2>2 DEF LogInv, LogPhase, Aged, Slack
  <2>5. L!Kept' = L!Kept \cup {gens + 1}
      BY <1>2, <2>1, <2>2 DEF L!Kept
  <2>6. Everywhere'
      BY <2>1, <2>2, <2>5 DEF LogInv, Everywhere
  <2>7. OldGone' /\ InOrder'
      BY <2>1, <2>2 DEF LogInv, LogPhase, OldGone, InOrder
  <2>8. GoneFirst'
      BY <2>1, <2>2, <2>5 DEF LogInv, GoneFirst
  <2> QED BY <2>3, <2>4, <2>6, <2>7, <2>8 DEF LogInv
<1> QED BY <1>1, <1>2

\* Removing the oldest backup, which the next one is to replace.
LEMMA LogRemoves ==
    ASSUME LogInv, pc \in {"shift", "current"}, slot = BackupCount - 1,
           backups[BackupCount] # 0,
           gone' = gone \cup {backups[BackupCount]},
           backups' = [backups EXCEPT ![BackupCount] = 0],
           UNCHANGED <<file, current, pc, slot, gens, broken>>
    PROVE  LogInv'
<1> USE BackupAssumption DEF L!None, L!Slots
<1> DEFINE old == backups[BackupCount]
<1>1. /\ gens \in Nat /\ backups \in [1..BackupCount -> 0..gens] /\ gone \subseteq 1..gens
      /\ BackupCount \in 1..BackupCount /\ old \in 1..gens /\ broken \in Nat
      /\ current = gens /\ gens # 0
    BY DEF LogInv, L!TypeOK, LogPhase
<1>2. \A i \in 1..BackupCount : backups'[i] = IF i = BackupCount THEN 0 ELSE backups[i]
    BY <1>1
<1>3. backups' \in [1..BackupCount -> 0..gens]
    BY <1>1
<1>4. L!TypeOK' /\ LogPhase'
  <2>1. L!TypeOK'
      BY <1>1, <1>3 DEF LogInv, L!TypeOK
  <2>2. slot' < BackupCount - 1 => backups'[slot' + 1] = 0
      OBVIOUS
  <2>3. LogPhase'
      BY <2>2 DEF LogInv, LogPhase
  <2> QED BY <2>1, <2>3
<1>5. old <= gens - BackupCount + broken
  <2>1. Slack(BackupCount) = 0
      BY <1>1 DEF Slack
  <2> QED BY <1>1, <2>1 DEF LogInv, Aged
<1>6. Aged' /\ InOrder'
  <2>1. Aged'
      BY <1>1, <1>2 DEF LogInv, Aged, Slack
  <2>2. InOrder'
      BY <1>1, <1>2 DEF LogInv, InOrder
  <2> QED BY <2>1, <2>2
<1>7. OldGone'
    BY <1>1, <1>5 DEF LogInv, OldGone
<1>8. \A g : g \in L!Kept' <=> g \in L!Kept /\ g # old
  <2>1. \A i \in 1..BackupCount : i # BackupCount => backups[i] # old
      BY <1>1 DEF LogInv, InOrder
  <2>2. current # old
      BY <1>1 DEF LogInv, InOrder
  <2> QED BY <1>1, <1>2, <2>1, <2>2 DEF L!Kept
<1>9. old \in L!Kept
    BY <1>1 DEF L!Kept
<1>10. Everywhere'
    BY <1>1, <1>8, <1>9 DEF LogInv, Everywhere
<1>11. \A k \in L!Kept : k # old => old < k
    BY <1>1 DEF LogInv, InOrder, L!Kept
<1>12. GoneFirst'
    BY <1>1, <1>8, <1>11 DEF LogInv, GoneFirst
<1> QED BY <1>4, <1>6, <1>7, <1>10, <1>12 DEF LogInv

\* log.<i> becomes log.<i + 1>, which is not there.
LEMMA LogShifts ==
    ASSUME LogInv, L!ShiftRenames PROVE LogInv'
<1> USE BackupAssumption DEF L!None, L!Slots
<1>1. /\ gens \in Nat /\ backups \in [1..BackupCount -> 0..gens] /\ gone \subseteq 1..gens
      /\ broken \in Nat /\ current = gens /\ gens # 0
      /\ slot \in 1..BackupCount - 1 /\ slot + 1 \in 1..BackupCount
      /\ slot \in 1..BackupCount
    BY DEF LogInv, L!TypeOK, LogPhase, L!ShiftRenames
<1>2. UNCHANGED <<file, current, pc, gens, gone, broken>> /\ slot' = slot - 1 /\ pc = "shift"
    BY DEF L!ShiftRenames
<1>3. CASE backups[slot] = 0
  <2>1. backups' = backups
      BY <1>3 DEF L!ShiftRenames, L!Turn
  <2>2. L!TypeOK' /\ LogPhase'
      BY <1>1, <1>2, <1>3, <2>1 DEF LogInv, L!TypeOK, LogPhase
  <2>3. Aged'
      BY <1>1, <1>2, <1>3, <2>1 DEF LogInv, Aged, Slack
  <2> QED BY <1>1, <1>2, <2>1, <2>2, <2>3, LogStays
<1>4. CASE backups[slot] # 0
  <2>1. backups[slot + 1] = 0
      BY <1>4 DEF L!ShiftRenames, L!Turn
  <2>2. backups' = [backups EXCEPT ![slot + 1] = backups[slot], ![slot] = 0]
      BY <1>4 DEF L!ShiftRenames, L!Turn
  <2>3. /\ backups' \in [1..BackupCount -> 0..gens]
        /\ \A i \in 1..BackupCount :
             backups'[i] = IF i = slot THEN 0
                           ELSE IF i = slot + 1 THEN backups[slot] ELSE backups[i]
      BY <1>1, <2>2
  <2>4. L!TypeOK'
      BY <1>1, <1>2, <2>3 DEF LogInv, L!TypeOK
  <2>5. LogPhase'
      BY <1>1, <1>2, <2>3 DEF LogInv, LogPhase
  <2>6. Aged'
      BY <1>1, <1>2, <2>3 DEF LogInv, Aged, Slack
  <2>7. InOrder'
      BY <1>1, <1>2, <2>1, <2>3 DEF LogInv, InOrder
  <2>8. \A g : g \in L!Kept' <=> g \in L!Kept
    <3>1. \A g : (\E i \in 1..BackupCount : backups'[i] = g /\ g # 0)
                   <=> (\E i \in 1..BackupCount : backups[i] = g /\ g # 0)
        BY <1>1, <2>1, <2>3
    <3> QED BY <1>2, <3>1 DEF L!Kept
  <2>9. Everywhere' /\ OldGone' /\ GoneFirst'
      BY <1>2, <2>8 DEF LogInv, Everywhere, OldGone, GoneFirst
  <2> QED BY <2>4, <2>5, <2>6, <2>7, <2>9 DEF LogInv
<1> QED BY <1>3, <1>4

\* The log becomes log.1, which is not there.
LEMMA LogIsMoved ==
    ASSUME LogInv, L!CurrentRenames PROVE LogInv'
<1> USE BackupAssumption DEF L!None, L!Slots
<1>1. /\ gens \in Nat /\ backups \in [1..BackupCount -> 0..gens] /\ gone \subseteq 1..gens
      /\ broken \in Nat /\ current = gens /\ gens # 0 /\ 1 \in 1..BackupCount
      /\ backups[1] = 0 /\ pc = "current" /\ file = "closed"
    BY DEF LogInv, L!TypeOK, LogPhase, L!CurrentRenames
<1>2. /\ UNCHANGED <<file, slot, gens, gone, broken>> /\ pc' = "open" /\ current' = 0
      /\ backups' = [backups EXCEPT ![1] = gens]
    BY <1>1 DEF L!CurrentRenames
<1>3. /\ backups' \in [1..BackupCount -> 0..gens]
      /\ \A i \in 1..BackupCount : backups'[i] = IF i = 1 THEN gens ELSE backups[i]
    BY <1>1, <1>2
<1>4. L!TypeOK'
    BY <1>1, <1>2, <1>3 DEF LogInv, L!TypeOK
<1>5. LogPhase'
    BY <1>1, <1>2, <1>3 DEF LogInv, LogPhase
<1>6. Aged'
  <2> SUFFICES ASSUME NEW j \in 1..BackupCount, backups'[j] # 0
               PROVE  backups'[j] <= gens - j + broken + 1
      BY <1>2 DEF Aged, Slack
  <2>1. CASE j = 1
      BY <1>1, <1>3, <2>1
  <2>2. CASE j # 1
    <3>1. backups[j] <= gens - j + broken + Slack(j) /\ Slack(j) \in {0, 1}
        BY <1>3, <2>2 DEF LogInv, Aged, Slack
    <3> QED BY <1>1, <1>3, <2>2, <3>1
  <2> QED BY <2>1, <2>2
<1>7. InOrder'
    BY <1>1, <1>2, <1>3 DEF LogInv, InOrder
<1>8. \A g : g \in L!Kept' <=> g \in L!Kept
    BY <1>1, <1>2, <1>3 DEF L!Kept
<1>9. Everywhere' /\ OldGone' /\ GoneFirst'
    BY <1>2, <1>8 DEF LogInv, Everywhere, OldGone, GoneFirst
<1> QED BY <1>4, <1>5, <1>6, <1>7, <1>9 DEF LogInv

\* Every step of the log, of the rotation, of the faults keeps the invariant.
LEMMA LogNext == LogInv /\ L!Next => LogInv'
<1> USE BackupAssumption DEF L!None, L!Slots
<1> SUFFICES ASSUME LogInv, L!Next PROVE LogInv'
    OBVIOUS
<1>0. L!TypeOK /\ LogPhase /\ Aged /\ broken \in Nat /\ gens \in Nat
    BY DEF LogInv, LogPhase
<1>1. CASE L!Start
    BY <1>1, LogOpens DEF L!Start
<1>2. CASE L!StartFails \/ \E n \in LineSizes : L!Emit(n)
  <2>1. UNCHANGED <<current, backups, gens, gone, broken>>
      BY <1>2 DEF L!StartFails, L!Emit
  <2>2. L!TypeOK'
      BY <1>0, <1>2, <2>1 DEF L!TypeOK, L!StartFails, L!Emit, L!Handle, LogPhase
  <2>3. LogPhase'
      BY <1>0, <1>2, <2>1 DEF L!TypeOK, L!StartFails, L!Emit, L!Handle, LogPhase
  <2>4. Aged'
      BY <1>0, <1>2, <2>1 DEF L!TypeOK, L!StartFails, L!Emit, LogPhase, Aged, Slack
  <2> QED BY <1>0, <2>1, <2>2, <2>3, <2>4, LogStays
<1>3. CASE L!ShiftRemoves \/ L!CurrentRemoves
  <2>1. slot = BackupCount - 1 /\ pc \in {"shift", "current"}
    <3>1. pc \in {"shift", "current"} /\ backups[slot + 1] # 0
        BY <1>0, <1>3 DEF L!ShiftRemoves, L!CurrentRemoves, L!Turn, LogPhase
    <3> QED BY <1>0, <3>1 DEF LogPhase
  <2>2. CASE L!ShiftRemoves
    <3>1. slot + 1 = BackupCount
        BY <2>1
    <3>2. /\ backups[BackupCount] # 0
          /\ gone' = gone \cup {backups[BackupCount]}
          /\ backups' = [backups EXCEPT ![BackupCount] = 0]
          /\ UNCHANGED <<file, current, pc, slot, gens, broken>>
        BY <2>2, <3>1 DEF L!ShiftRemoves, L!Turn
    <3> QED BY <2>1, <3>2, LogRemoves
  <2>3. CASE L!CurrentRemoves
    <3>1. BackupCount = 1
        BY <1>0, <2>1, <2>3 DEF L!CurrentRemoves, LogPhase
    <3> QED BY <2>1, <2>3, <3>1, LogRemoves DEF L!CurrentRemoves
  <2> QED BY <1>3, <2>2, <2>3
<1>4. CASE L!ShiftRenames
    BY <1>4, LogShifts
<1>5. CASE L!ShiftEnds
  <2>1. UNCHANGED <<file, current, backups, slot, gens, gone, broken>>
      BY <1>5 DEF L!ShiftEnds
  <2>2. L!TypeOK' /\ LogPhase' /\ Aged'
      BY <1>0, <1>5, <2>1 DEF L!TypeOK, L!ShiftEnds, LogPhase, Aged, Slack
  <2> QED BY <1>0, <2>1, <2>2, LogStays
<1>6. CASE L!CurrentRenames
    BY <1>6, LogIsMoved
<1>7. CASE L!Reopens
    BY <1>7, LogOpens DEF L!Reopens
<1>8. CASE L!Fails \/ L!Crash
  <2>1. /\ UNCHANGED <<current, backups, slot, gens, gone>>
        /\ pc' \in {"idle", "down"} /\ file' \in {file, "none"}
        /\ broken' = broken + IF pc \in {"shift", "current"} THEN 1 ELSE 0
        /\ file' = "open" => file = "open"
      BY <1>8 DEF L!Fails, L!Crash, L!Breaks
  <2>2. broken' \in Nat /\ broken' >= broken
      BY <1>0, <2>1
  <2>3. L!TypeOK' /\ LogPhase'
      BY <1>0, <2>1, <2>2 DEF L!TypeOK, LogPhase
  <2>4. Aged'
      BY <1>0, <2>1, <2>2 DEF L!TypeOK, LogPhase, Aged, Slack
  <2> QED BY <2>1, <2>2, <2>3, <2>4, LogStays
<1> QED BY <1>1, <1>2, <1>3, <1>4, <1>5, <1>6, <1>7, <1>8 DEF L!Next, L!Rotates

-----------------------------------------------------------------------------
(* The users.                                                              *)

\* A command that runs, and what it is to write.
Command(r) ==
    /\ r.pc \in {"edited", "emptied"}
    /\ r.op \in {"add", "remove"} /\ r.uuid \in Uuids
    /\ r.data \in A!Configs

AdminTypes ==
    /\ files \in [{"cwd", "root"} -> A!Configs \cup {A!None, A!Torn}]
    /\ DOMAIN proc = Procs /\ \A p \in Procs : proc[p] = A!Idle \/ Command(proc[p])
    /\ server \in {"down", "generating", "writing", "up"} /\ launch \in Launches
    /\ asked \in BOOLEAN /\ (server = "up" <=> valid # {})
    /\ valid \subseteq Uuids \cup Owns /\ told \subseteq Uuids /\ runs \in 0..MaxRuns

Overwriting == server \in {"generating", "writing"}

\* One command at most holds users it has read, and they are those it was
\* told of with its own edit; a file that is not whole is so because a save
\* is under way or was broken off, and none is missing that holds a user.
Orderly ==
    /\ \A p \in A!Writing :
         /\ ~Overwriting /\ \A q \in A!Writing : q = p
         /\ proc[p].data.users = A!Edited(proc[p].op, told, proc[p].uuid)
         /\ proc[p].pc = "emptied" => files["cwd"] = A!Torn
    /\ files["cwd"] = A!None => told = {}
    /\ server = "writing" => files["cwd"] = A!Torn /\ told = {}
    /\ A!UsersAsTold

AdminInv == AdminTypes /\ (Alone /\ SameDir => Orderly)

LEMMA AdminInvMeans ==
    AdminInv => A!TypeOK /\ (Alone /\ SameDir => UsersAsTold)
BY DEF AdminInv, AdminTypes, Command, A!TypeOK, A!Cwd, Orderly, UsersAsTold

\* A configuration is whole, and told from the others by its own uuid.
LEMMA ConfigsAreWhole ==
    /\ \A f \in A!Configs : A!Whole(f) /\ f.own \in Owns /\ f.users \subseteq Uuids
    /\ \A f \in A!Configs \cup {A!None, A!Torn} : A!Whole(f) => f \in A!Configs
    /\ ~A!Whole(A!None) /\ ~A!Whole(A!Torn) /\ A!None # A!Torn
BY AdminAssumption DEF A!Configs, A!Whole, A!None, A!Torn

LEMMA EditedIs ==
    \A us \in SUBSET Uuids, u \in Uuids : \A op : A!Edited(op, us, u) \in SUBSET Uuids
BY DEF A!Edited

LEMMA DirIs == A!Cwd = "cwd" /\ A!Root \in {"cwd", "root"} /\ (SameDir => A!Root = "cwd")
BY DEF A!Cwd, A!Root

\* Only commands are at work.
LEMMA WritingIs ==
    ASSUME AdminTypes
    PROVE  \A p : p \in A!Writing <=> p \in Procs /\ proc[p] # A!Idle
BY DEF AdminTypes, Command, A!Writing, A!Idle

LEMMA AdminInit == A!Init => AdminInv
<1> SUFFICES ASSUME A!Init PROVE AdminInv
    OBVIOUS
<1> USE DirIs DEF A!Init
<1>1. files \in [{"cwd", "root"} -> A!Configs \cup {A!None, A!Torn}]
    BY DEF A!Configs
<1>2. runs \in 0..MaxRuns
    BY AdminAssumption
<1>3. AdminTypes
    BY <1>1, <1>2 DEF AdminTypes
<1>4. A!Writing = {}
    BY <1>3, WritingIs
<1>5. files["cwd"].users = {}
    BY DEF A!None
<1> QED BY <1>3, <1>4, <1>5 DEF AdminInv, Orderly, A!UsersAsTold

\* Steps of one process: what is left of it, and the others as they were.
LEMMA AdminProc ==
    ASSUME AdminTypes, NEW p \in Procs, NEW r, proc' = [proc EXCEPT ![p] = r]
    PROVE  DOMAIN proc' = Procs /\ \A q \in Procs : proc'[q] = IF q = p THEN r ELSE proc[q]
BY DEF AdminTypes

\* The types, action by action.
LEMMA AdminTypesNext == AdminTypes /\ A!Next => AdminTypes'
<1> SUFFICES ASSUME AdminTypes, A!Next PROVE AdminTypes'
    OBVIOUS
<1> USE DirIs DEF A!MayBegin
<1>0. /\ files["cwd"] \in A!Configs \cup {A!None, A!Torn}
      /\ files[A!Root] \in A!Configs \cup {A!None, A!Torn}
    BY DEF AdminTypes
<1>1. ASSUME NEW p \in Procs, NEW op \in {"add", "remove"}, NEW u \in Uuids, A!Loads(p, op, u)
      PROVE  AdminTypes'
  <2> DEFINE f == files[A!Root]
             us == A!Edited(op, f.users, u)
             r == IF A!Whole(f) /\ us # f.users
                  THEN [pc |-> "edited", op |-> op, uuid |-> u,
                        data |-> [f EXCEPT !.users = us]]
                  ELSE A!Idle
  <2>1. proc' = [proc EXCEPT ![p] = r]
      BY <1>1 DEF A!Loads
  <2>2. r = A!Idle \/ Command(r)
    <3>1. ASSUME A!Whole(f) PROVE [f EXCEPT !.users = us] \in A!Configs
      <4>1. f \in A!Configs /\ us \in SUBSET Uuids
          BY <1>0, <3>1, ConfigsAreWhole, EditedIs
      <4> QED BY <4>1 DEF A!Configs
    <3> QED BY <3>1 DEF Command
  <2>3. DOMAIN proc' = Procs /\ \A q \in Procs : proc'[q] = A!Idle \/ Command(proc'[q])
    <3> HIDE DEF r
    <3> QED BY <2>1, <2>2, AdminProc DEF AdminTypes
  <2>4. runs' \in 0..MaxRuns
      BY <1>1, AdminAssumption DEF A!Loads, AdminTypes
  <2> QED BY <1>1, <2>3, <2>4 DEF A!Loads, AdminTypes
<1>2. ASSUME NEW p \in Procs, A!Truncates(p) PROVE AdminTypes'
  <2>1. Command(proc[p])
      BY <1>2 DEF AdminTypes, A!Truncates, A!Idle
  <2>2. proc' = [proc EXCEPT ![p] = [proc[p] EXCEPT !.pc = "emptied"]]
      BY <1>2 DEF A!Truncates
  <2>3. Command([proc[p] EXCEPT !.pc = "emptied"])
      BY <2>1 DEF Command
  <2>4. DOMAIN proc' = Procs /\ \A q \in Procs : proc'[q] = A!Idle \/ Command(proc'[q])
      BY <2>2, <2>3, AdminProc DEF AdminTypes
  <2> QED BY <1>2, <2>4 DEF A!Truncates, AdminTypes
<1>3. ASSUME NEW p \in Procs, A!Writes(p) PROVE AdminTypes'
  <2>1. Command(proc[p])
      BY <1>3 DEF AdminTypes, A!Writes, A!Idle
  <2>2. A!WrittenBy(proc[p].data) \subseteq A!Configs \cup {A!None, A!Torn}
      BY <2>1 DEF A!WrittenBy, Command
  <2>3. files' \in [{"cwd", "root"} -> A!Configs \cup {A!None, A!Torn}]
      BY <1>3, <2>2 DEF A!Writes, AdminTypes
  <2>4. told' \subseteq Uuids
      BY <1>3, <2>1 DEF A!Writes, AdminTypes, Command
  <2>5. DOMAIN proc' = Procs /\ \A q \in Procs : proc'[q] = A!Idle \/ Command(proc'[q])
      BY <1>3, AdminProc DEF A!Writes, AdminTypes
  <2> QED BY <1>3, <2>3, <2>4, <2>5 DEF A!Writes, AdminTypes
<1>4. ASSUME NEW p \in Procs, A!Dies(p) PROVE AdminTypes'
  <2>1. DOMAIN proc' = Procs /\ \A q \in Procs : proc'[q] = A!Idle \/ Command(proc'[q])
      BY <1>4, AdminProc DEF A!Dies, AdminTypes
  <2> QED BY <1>4, <2>1 DEF A!Dies, AdminTypes
<1>5. ASSUME NEW how \in Launches, A!Starts(how) \/ A!StartsNew(how) PROVE AdminTypes'
  <2>1. runs' \in 0..MaxRuns
      BY <1>5, AdminAssumption DEF A!Starts, A!StartsNew, AdminTypes
  <2>2. CASE A!Generates
      BY <1>5, <2>1, <2>2 DEF A!Starts, A!StartsNew, A!Generates, AdminTypes
  <2>3. ASSUME NEW f \in A!Configs, A!Serves(f), A!Starts(how) PROVE AdminTypes'
    <3>1. f.own \in valid' /\ valid' \subseteq Uuids \cup Owns
        BY <2>3, ConfigsAreWhole DEF A!Serves, A!Accepted
    <3> QED BY <2>1, <2>3, <3>1 DEF A!Starts, A!Serves, AdminTypes
  <2> QED BY <1>0, <1>5, <2>2, <2>3, ConfigsAreWhole DEF A!Starts, A!StartsNew
<1>6. CASE A!GenTruncates
    BY <1>6 DEF A!GenTruncates, AdminTypes
<1>7. CASE A!GenWrites
  <2>1. PICK o \in Owns :
          /\ \E f \in A!WrittenBy([own |-> o, users |-> {}]) : files' = [files EXCEPT !["cwd"] = f]
          /\ valid' = A!Accepted([own |-> o, users |-> {}])
      BY <1>7 DEF A!GenWrites
  <2>2. A!WrittenBy([own |-> o, users |-> {}]) \subseteq A!Configs \cup {A!None, A!Torn}
      BY DEF A!WrittenBy, A!Configs
  <2>3. files' \in [{"cwd", "root"} -> A!Configs \cup {A!None, A!Torn}]
      BY <2>1, <2>2 DEF AdminTypes
  <2>4. valid' = {o}
      BY <2>1 DEF A!Accepted
  <2> QED BY <1>7, <2>3, <2>4 DEF A!GenWrites, AdminTypes
<1>8. CASE A!Ends
    BY <1>8 DEF A!Ends, AdminTypes
<1>9. CASE A!StopCommand
  <2>1. runs' \in 0..MaxRuns
      BY <1>9, AdminAssumption DEF A!StopCommand, AdminTypes
  <2> QED BY <1>9, <2>1 DEF A!StopCommand, AdminTypes
<1> QED BY <1>1, <1>2, <1>3, <1>4, <1>5, <1>6, <1>7, <1>8, <1>9 DEF A!Next

\* Where commands wait for each other, the order is kept.
LEMMA AdminOrderNext ==
    ASSUME AdminTypes, AdminTypes', Orderly, Alone, SameDir, A!Next PROVE Orderly'
<1> USE DirIs DEF A!UsersAsTold, Overwriting
<1>0. /\ files["cwd"] \in A!Configs \cup {A!None, A!Torn} /\ A!Root = "cwd"
      /\ \A p : p \in A!Writing <=> p \in Procs /\ proc[p] # A!Idle
      /\ \A p : p \in A!Writing' <=> p \in Procs /\ proc'[p] # A!Idle
      /\ \A p : p \in A!Writing <=> p \in Procs /\ proc[p].pc # "idle"
  <2>1. \A p : p \in A!Writing' <=> p \in Procs /\ proc'[p] # A!Idle
      BY DEF AdminTypes, Command, A!Writing, A!Idle
  <2> QED BY <2>1, WritingIs DEF AdminTypes, A!Writing
<1>1. ASSUME NEW p \in Procs, NEW op \in {"add", "remove"}, NEW u \in Uuids, A!Loads(p, op, u)
      PROVE  Orderly'
  <2>1. /\ A!Writing = {} /\ ~Overwriting
        /\ UNCHANGED <<files, server, asked, told>>
      BY <1>1 DEF A!Loads, A!MayBegin
  <2>2. CASE proc' = [proc EXCEPT ![p] = A!Idle]
    <3>1. A!Writing' = {}
        BY <1>0, <2>1, <2>2, AdminProc
    <3> QED BY <2>1, <3>1 DEF Orderly
  <2>3. CASE proc' # [proc EXCEPT ![p] = A!Idle]
    <3> DEFINE f == files["cwd"]
               r == [pc |-> "edited", op |-> op, uuid |-> u,
                     data |-> [f EXCEPT !.users = A!Edited(op, f.users, u)]]
    <3>1. proc' = [proc EXCEPT ![p] = r] /\ A!Whole(f)
        BY <1>0, <1>1, <2>3 DEF A!Loads
    <3>2. f.users = told /\ f \in A!Configs
        BY <1>0, <3>1, ConfigsAreWhole DEF Orderly
    <3>3. r.data.users = A!Edited(op, told, u)
        BY <3>2 DEF A!Configs
    <3>4. A!Writing' = {p} /\ proc'[p] = r
      <4> HIDE DEF r
      <4>1. r # A!Idle
          BY DEF r, A!Idle
      <4> QED BY <1>0, <2>1, <3>1, <4>1, AdminProc
    <3> QED BY <2>1, <3>3, <3>4 DEF Orderly
  <2> QED BY <2>2, <2>3
<1>2. ASSUME NEW p \in Procs, A!Truncates(p) PROVE Orderly'
  <2>1. p \in A!Writing /\ files' = [files EXCEPT !["cwd"] = A!Torn]
        /\ proc' = [proc EXCEPT ![p] = [proc[p] EXCEPT !.pc = "emptied"]]
        /\ UNCHANGED <<server, asked, told>>
      BY <1>0, <1>2 DEF A!Truncates, A!Idle
  <2>2. A!Writing = {p} /\ ~Overwriting
        /\ proc[p].data.users = A!Edited(proc[p].op, told, proc[p].uuid)
      BY <2>1 DEF Orderly
  <2>3. files'["cwd"] = A!Torn
      BY <2>1 DEF AdminTypes
  <2>4. Command(proc[p])
      BY <1>0, <2>1 DEF AdminTypes
  <2>5. A!Writing' = {p} /\ proc'[p] = [proc[p] EXCEPT !.pc = "emptied"]
    <3> DEFINE r == [proc[p] EXCEPT !.pc = "emptied"]
    <3>1. r # A!Idle
        BY <2>4 DEF Command, A!Idle
    <3>2. proc' = [proc EXCEPT ![p] = r]
        BY <2>1
    <3> HIDE DEF r
    <3>3. proc'[p] = r /\ \A q \in Procs : q # p => proc'[q] = proc[q]
        BY <3>2, AdminProc
    <3>4. A!Writing' = {p}
        BY <1>0, <2>2, <3>1, <3>3
    <3> QED BY <3>3, <3>4 DEF r
  <2>6. proc'[p].data.users = A!Edited(proc'[p].op, told, proc'[p].uuid)
      BY <2>2, <2>4, <2>5 DEF Command
  <2> QED BY <2>1, <2>2, <2>3, <2>5, <2>6, ConfigsAreWhole DEF Orderly
<1>3. ASSUME NEW p \in Procs, A!Writes(p) PROVE Orderly'
  <2>1. p \in A!Writing /\ proc[p].pc = "emptied" /\ Command(proc[p])
      BY <1>0, <1>3 DEF A!Writes, A!Idle, AdminTypes
  <2>2. A!Writing = {p} /\ ~Overwriting /\ files["cwd"] = A!Torn
        /\ proc[p].data.users = A!Edited(proc[p].op, told, proc[p].uuid)
      BY <2>1 DEF Orderly
  <2>3. A!WrittenBy(proc[p].data) = {proc[p].data}
      BY <2>2 DEF A!WrittenBy
  <2>4. files'["cwd"] = proc[p].data
      BY <1>3, <2>3 DEF A!Writes, AdminTypes
  <2>5. told' = A!Edited(proc[p].op, told, proc[p].uuid)
      BY <1>3, <2>1 DEF A!Writes, A!Edited, Command
  <2>6. A!Writing' = {}
      BY <1>0, <1>3, <2>2, AdminProc DEF A!Writes
  <2>7. files'["cwd"] # A!None
      BY <2>1, <2>4, ConfigsAreWhole DEF Command
  <2> QED BY <1>3, <2>2, <2>4, <2>5, <2>6, <2>7 DEF A!Writes, Orderly
<1>4. ASSUME NEW p \in Procs, A!Dies(p) PROVE Orderly'
  <2>1. p \in A!Writing
      BY <1>0, <1>4 DEF A!Dies, A!Idle
  <2>2. A!Writing = {p} /\ ~Overwriting
      BY <2>1 DEF Orderly
  <2>3. A!Writing' = {}
      BY <1>0, <1>4, <2>2, AdminProc DEF A!Dies
  <2> QED BY <1>4, <2>2, <2>3 DEF A!Dies, Orderly
<1>5. ASSUME NEW how \in Launches, A!Starts(how) \/ A!StartsNew(how) PROVE Orderly'
  <2>1. A!Writing = {} /\ A!Writing' = {} /\ UNCHANGED <<files, told>>
    <3>1. A!Writing = {} /\ UNCHANGED <<files, proc, told>>
        BY <1>5 DEF A!Starts, A!StartsNew, A!MayBegin, A!Serves, A!Generates
    <3> QED BY <1>0, <3>1
  <2>2. server' \in {"generating", "up"}
      BY <1>5 DEF A!Starts, A!StartsNew, A!Serves, A!Generates
  <2>3. server' = "generating" /\ ~asked' => told = {}
      BY <1>0, <1>5 DEF A!Starts, A!StartsNew, A!Serves, A!Generates, A!Missing, Orderly
  <2> QED BY <2>1, <2>2, <2>3 DEF Orderly
<1>6. CASE A!GenTruncates
  <2>1. A!Writing = {} /\ A!Writing' = {}
      BY <1>0, <1>6 DEF A!GenTruncates, Orderly
  <2>2. files'["cwd"] = A!Torn
      BY <1>6 DEF A!GenTruncates, AdminTypes
  <2> QED BY <1>6, <2>1, <2>2, ConfigsAreWhole DEF A!GenTruncates, Orderly
<1>7. CASE A!GenWrites
  <2>1. A!Writing = {} /\ A!Writing' = {} /\ files["cwd"] = A!Torn /\ told = {}
      BY <1>0, <1>7 DEF A!GenWrites, Orderly
  <2>2. \A f : A!WrittenBy(f) = {f}
      BY <2>1 DEF A!WrittenBy
  <2>3. PICK o \in Owns : files' = [files EXCEPT !["cwd"] = [own |-> o, users |-> {}]]
      BY <1>7, <2>2 DEF A!GenWrites
  <2>4. files'["cwd"].users = {}
      BY <2>3 DEF AdminTypes
  <2> QED BY <1>7, <2>1, <2>4 DEF A!GenWrites, Orderly
<1>8. CASE A!Ends \/ A!StopCommand
  <2>1. A!Writing' = A!Writing /\ UNCHANGED <<files, proc, asked, told>>
        /\ server' \in {server, "down"}
      BY <1>0, <1>8 DEF A!Ends, A!StopCommand
  <2> QED BY <2>1 DEF Orderly
<1> QED BY <1>1, <1>2, <1>3, <1>4, <1>5, <1>6, <1>7, <1>8 DEF A!Next

LEMMA AdminNext == AdminInv /\ A!Next => AdminInv'
BY AdminTypesNext, AdminOrderNext DEF AdminInv

\* A server that comes up when no command runs has read the users on file.
LEMMA AdminStep ==
    ASSUME AdminInv, Alone, SameDir, A!Next,
           server = "down", server' = "up"
    PROVE  told \subseteq valid'
<1> USE DirIs DEF A!UsersAsTold, Overwriting
<1>1. PICK how \in Launches : A!Starts(how)
    BY DEF A!Next, A!Loads, A!Truncates, A!Writes, A!Dies, A!StartsNew, A!Generates,
           A!GenTruncates, A!GenWrites, A!Ends, A!StopCommand
<1>2. A!Whole(files["cwd"]) /\ A!Serves(files["cwd"])
    BY <1>1 DEF A!Starts, A!Generates
<1> QED BY <1>2 DEF AdminInv, Orderly, A!Serves, A!Accepted

-----------------------------------------------------------------------------
(* Suffixes of sequences.                                                  *)

LEMMA ReverseIs ==
    ASSUME NEW S, NEW s \in Seq(S)
    PROVE  /\ R!Reverse(s) \in Seq(S) /\ Len(R!Reverse(s)) = Len(s)
           /\ \A i \in 1..Len(s) : R!Reverse(s)[i] = s[Len(s) - i + 1]
<1>1. R!Reverse(s) = [i \in 1..Len(s) |-> s[Len(s) - i + 1]]
    BY DEF R!Reverse
<1> QED BY <1>1

\* A suffix is what is left from some place on.
LEMMA SuffixIs ==
    ASSUME NEW S, NEW s \in Seq(S), NEW t \in Seq(S), Len(s) <= Len(t)
    PROVE  R!IsSuffix(s, t) <=> s = SubSeq(t, Len(t) - Len(s) + 1, Len(t))
<1> DEFINE rs == R!Reverse(s)
           rt == R!Reverse(t)
           n == Len(s)
           m == Len(t)
           u == SubSeq(t, m - n + 1, m)
<1>1. /\ n \in Nat /\ m \in Nat /\ n <= m
      /\ rs \in Seq(S) /\ Len(rs) = n /\ \A i \in 1..n : rs[i] = s[n - i + 1]
      /\ rt \in Seq(S) /\ Len(rt) = m /\ \A i \in 1..m : rt[i] = t[m - i + 1]
    BY ReverseIs, LenProperties
<1>2. u \in Seq(S) /\ Len(u) = n /\ \A i \in 1..n : u[i] = t[m - n + i]
  <2>1. \A i \in m - n + 1 .. m : t[i] \in S
      BY <1>1, ElementOfSeq
  <2>2. m - n + 1 \in Int /\ m \in Int /\ (m - n + 1 <= m <=> n # 0)
      BY <1>1
  <2>3. /\ u \in Seq(S)
        /\ Len(u) = IF m - n + 1 <= m THEN m - (m - n + 1) + 1 ELSE 0
        /\ \A i \in 1..m - (m - n + 1) + 1 : u[i] = t[m - n + 1 + i - 1]
      BY <2>1, <2>2, SubSeqProperties
  <2>4. m - (m - n + 1) + 1 = n /\ (m - n + 1 <= m \/ n = 0)
        /\ \A i \in 1..n : m - n + 1 + i - 1 = m - n + i
      BY <1>1
  <2> HIDE DEF m, n, u
  <2>5. Len(u) = n
      BY <2>3, <2>4
  <2>6. ASSUME NEW i \in 1..n PROVE u[i] = t[m - n + i]
      BY <2>3, <2>4
  <2> QED BY <2>3, <2>5, <2>6
<1>3. SubSeq(rs, 1, n) = rs
    BY <1>1, SubSeqFull
<1>4. /\ SubSeq(rt, 1, n) \in Seq(S) /\ Len(SubSeq(rt, 1, n)) = n
      /\ \A i \in 1..n : SubSeq(rt, 1, n)[i] = rt[i]
  <2>1. \A i \in 1..n : rt[i] \in S
      BY <1>1, ElementOfSeq
  <2>2. 1 \in Int /\ n \in Int
      BY <1>1
  <2> HIDE DEF rt, n
  <2>3. /\ SubSeq(rt, 1, n) \in Seq(S)
        /\ Len(SubSeq(rt, 1, n)) = IF 1 <= n THEN n - 1 + 1 ELSE 0
        /\ \A i \in 1..n - 1 + 1 : SubSeq(rt, 1, n)[i] = rt[1 + i - 1]
      BY <2>1, <2>2, SubSeqProperties
  <2> QED BY <1>1, <2>3 DEF n
<1>5. R!IsSuffix(s, t) <=> rs = SubSeq(rt, 1, n)
    BY <1>1, <1>3 DEF R!IsSuffix, R!IsPrefix
<1>6. rs = SubSeq(rt, 1, n) <=> \A i \in 1..n : rs[i] = rt[i]
  <2> HIDE DEF rs, rt, n
  <2> QED BY <1>1, <1>4, SeqEqual
<1>7. s = u <=> \A i \in 1..n : s[i] = u[i]
  <2> HIDE DEF u
  <2> QED BY <1>1, <1>2, SeqEqual
<1>8. (\A i \in 1..n : rs[i] = rt[i]) <=> (\A i \in 1..n : s[i] = u[i])
  <2> HIDE DEF rs, rt, u
  <2>1. \A i \in 1..n : n - i + 1 \in 1..n /\ n - (n - i + 1) + 1 = i
                        /\ i \in 1..m /\ m - i + 1 = m - n + (n - i + 1)
      BY <1>1
  <2>2. \A i \in 1..n : rs[i] = s[n - i + 1] /\ rt[i] = u[n - i + 1]
      BY <1>1, <1>2, <2>1
  <2>3. \A i \in 1..n : rs[n - i + 1] = s[i] /\ rt[n - i + 1] = u[i]
      BY <2>1, <2>2
  <2> QED BY <2>1, <2>2, <2>3
<1> QED BY <1>5, <1>6, <1>7, <1>8

-----------------------------------------------------------------------------
(* The choice of a route.                                                  *)

Labelled == [labels : Seq(STRING) \ {<<>>}, upper : BOOLEAN]

LEMMA Singleton ==
    ASSUME NEW S, NEW x \in S PROVE <<x>> \in Seq(S)
OBVIOUS

\* A wildcard is a star, and what the name has after its first labels.
LEMMA WildcardIs ==
    ASSUME NEW ls \in Seq(STRING), NEW i \in 1..Len(ls) - 1
    PROVE  LET w == R!Wildcard(ls, i) IN
           /\ w \in Labelled /\ ~w.upper
           /\ w.labels[1] = "*" /\ Len(w.labels) = Len(ls) - i + 1
           /\ Tail(w.labels) = SubSeq(ls, i + 1, Len(ls))
<1> DEFINE t == SubSeq(ls, i + 1, Len(ls))
           l == <<"*">> \o t
<1>1. Len(ls) \in Nat
    BY LenProperties
<1>2. t \in Seq(STRING) /\ Len(t) = Len(ls) - i
  <2>1. \A j \in i + 1..Len(ls) : ls[j] \in STRING
      BY <1>1, ElementOfSeq
  <2>2. i + 1 \in Int /\ Len(ls) \in Int /\ i + 1 <= Len(ls)
      BY <1>1
  <2>3. t \in Seq(STRING) /\ Len(t) = IF i + 1 <= Len(ls) THEN Len(ls) - (i + 1) + 1 ELSE 0
      BY <2>1, <2>2, SubSeqProperties
  <2> QED BY <1>1, <2>2, <2>3
<1> HIDE DEF t
<1>3. /\ l \in Seq(STRING) /\ Len(l) = 1 + Len(t)
      /\ \A j \in 1..1 + Len(t) : l[j] = IF j <= 1 THEN "*" ELSE t[j - 1]
  <2>1. <<"*">> \in Seq(STRING) /\ Len(<<"*">>) = 1 /\ <<"*">>[1] = "*"
    <3>1. <<"*">> \in Seq(STRING)
        BY Singleton, RoutesAssumption
    <3>2. Len(<<"*">>) = 1
        OBVIOUS
    <3>3. <<"*">>[1] = "*"
        OBVIOUS
    <3> QED BY <3>1, <3>2, <3>3
  <2>2. /\ l \in Seq(STRING) /\ Len(l) = Len(<<"*">>) + Len(t)
        /\ \A j \in 1..Len(<<"*">>) + Len(t) :
             l[j] = IF j <= Len(<<"*">>) THEN <<"*">>[j] ELSE t[j - Len(<<"*">>)]
      BY <1>2, <2>1, ConcatProperties
  <2> QED BY <1>2, <2>1, <2>2
<1>4. l # <<>> /\ l[1] = "*"
    BY <1>2, <1>3
<1>5. Tail(l) = t
  <2> HIDE DEF l
  <2>1. /\ Tail(l) \in Seq(STRING) /\ Len(Tail(l)) = Len(l) - 1
        /\ \A j \in 1..Len(Tail(l)) : Tail(l)[j] = l[j + 1]
      BY <1>3, <1>4, HeadTailProperties
  <2>2. Len(Tail(l)) = Len(t) /\ Len(t) \in Nat
    <3>1. Len(t) \in Nat
        BY <1>2, LenProperties
    <3> QED BY <1>3, <2>1, <3>1
  <2>3. \A j \in 1..Len(t) : Tail(l)[j] = t[j]
    <3> TAKE j \in 1..Len(t)
    <3>1. j + 1 \in 1..1 + Len(t) /\ ~(j + 1 <= 1) /\ j + 1 - 1 = j
        BY <2>2
    <3> QED BY <1>3, <2>1, <2>2, <3>1
  <2> QED BY <1>2, <2>1, <2>2, <2>3, SeqEqual
<1>6. R!Wildcard(ls, i) = [labels |-> l, upper |-> FALSE]
    BY DEF R!Wildcard, R!Lower, t
<1> HIDE DEF l
<1> QED BY <1>1, <1>2, <1>3, <1>4, <1>5, <1>6 DEF Labelled, t

\* The keys that stand for a name are the name and its wildcards.
LEMMA StandsIs ==
    ASSUME NEW name \in Labelled, NEW key \in Labelled, ~key.upper
    PROVE  R!Stands(key, name) <=>
             \/ key = R!Lower(name.labels)
             \/ \E i \in R!Cuts(name.labels) : key = R!Wildcard(name.labels, i)
<1> DEFINE ls == name.labels
           k == key.labels
<1>1. /\ ls \in Seq(STRING) /\ ls # <<>> /\ Len(ls) \in Nat
      /\ k \in Seq(STRING) /\ k # <<>> /\ Len(k) \in Nat
      /\ key = [labels |-> k, upper |-> FALSE]
  <2>1. ls \in Seq(STRING) /\ ls # <<>> /\ k \in Seq(STRING) /\ k # <<>>
        /\ key = [labels |-> k, upper |-> FALSE]
      BY DEF Labelled
  <2> QED BY <2>1, LenProperties
<1> HIDE DEF ls, k
<1>2. k = ls <=> key = R!Lower(ls)
    BY <1>1 DEF R!Lower
<1>3. ASSUME k[1] = "*", Len(k) \in 2..Len(ls), R!IsSuffix(Tail(k), ls)
      PROVE  \E i \in R!Cuts(ls) : key = R!Wildcard(ls, i)
  <2> DEFINE i == Len(ls) - Len(k) + 1
  <2>1. i \in 1..Len(ls) - 1 /\ i \in R!Cuts(ls)
      BY <1>1, <1>3 DEF R!Cuts
  <2>2. Tail(k) \in Seq(STRING) /\ Len(Tail(k)) = Len(k) - 1
        /\ \A j \in 1..Len(k) - 1 : Tail(k)[j] = k[j + 1]
      BY <1>1, HeadTailProperties
  <2>3. Tail(k) = SubSeq(ls, i + 1, Len(ls))
    <3>1. Len(Tail(k)) <= Len(ls) /\ Len(ls) - Len(Tail(k)) + 1 = i + 1
        BY <1>1, <1>3, <2>2
    <3> HIDE DEF i
    <3> QED BY <1>1, <1>3, <2>2, <3>1, SuffixIs
  <2> HIDE DEF i
  <2> DEFINE w == R!Wildcard(ls, i)
  <2>4. /\ w \in Labelled /\ ~w.upper
        /\ w.labels[1] = "*" /\ Len(w.labels) = Len(ls) - i + 1
        /\ Tail(w.labels) = SubSeq(ls, i + 1, Len(ls))
      BY <1>1, <2>1, WildcardIs
  <2> HIDE DEF w
  <2>5. w.labels \in Seq(STRING) /\ w.labels # <<>> /\ w = [labels |-> w.labels, upper |-> FALSE]
      BY <2>4 DEF Labelled
  <2>6. Len(w.labels) = Len(k)
      BY <1>1, <2>4 DEF i
  <2>7. \A j \in 1..Len(k) - 1 : Tail(w.labels)[j] = w.labels[j + 1]
    <3>1. Len(Tail(w.labels)) = Len(k) - 1
          /\ \A j \in 1..Len(Tail(w.labels)) : Tail(w.labels)[j] = w.labels[j + 1]
        BY <2>5, <2>6, HeadTailProperties
    <3> QED BY <3>1
  <2>8. \A j \in 1..Len(k) : k[j] = w.labels[j]
    <3> TAKE j \in 1..Len(k)
    <3>1. CASE j = 1
        BY <1>3, <2>4, <3>1
    <3>2. CASE j # 1
      <4>1. j - 1 \in 1..Len(k) - 1 /\ (j - 1) + 1 = j
          BY <1>1, <3>2
      <4>2. Tail(k)[j - 1] = k[j] /\ Tail(w.labels)[j - 1] = w.labels[j]
          BY <2>2, <2>7, <4>1
      <4> QED BY <2>3, <2>4, <4>2
    <3> QED BY <3>1, <3>2
  <2>9. k = w.labels
      BY <1>1, <2>5, <2>6, <2>8, SeqEqual
  <2>10. key = w
      BY <1>1, <2>5, <2>9
  <2> QED BY <2>1, <2>10 DEF w
<1>4. ASSUME NEW i \in R!Cuts(ls), key = R!Wildcard(ls, i)
      PROVE  k[1] = "*" /\ Len(k) \in 2..Len(ls) /\ R!IsSuffix(Tail(k), ls)
  <2>1. i \in 1..Len(ls) - 1
      BY DEF R!Cuts
  <2>2. k[1] = "*" /\ Len(k) = Len(ls) - i + 1 /\ Tail(k) = SubSeq(ls, i + 1, Len(ls))
      BY <1>1, <1>4, <2>1, WildcardIs DEF k
  <2>3. Len(k) \in 2..Len(ls)
      BY <1>1, <2>1, <2>2
  <2>4. Tail(k) \in Seq(STRING) /\ Len(Tail(k)) = Len(k) - 1
      BY <1>1, HeadTailProperties
  <2> DEFINE n == Len(Tail(k))
  <2>5. n = Len(ls) - i
      BY <1>1, <2>1, <2>2, <2>4
  <2> HIDE DEF n
  <2>6. n <= Len(ls) /\ Len(ls) - n + 1 = i + 1
      BY <1>1, <2>1, <2>5
  <2> QED BY <1>1, <2>2, <2>3, <2>4, <2>6, SuffixIs DEF n
<1> QED BY <1>2, <1>3, <1>4 DEF R!Stands, k, ls

\* The loop takes the least of its cuts.
LEMMA ChosenIs ==
    ASSUME NEW is \in SUBSET Nat, is # {}
    PROVE  R!Chosen(is) \in is /\ \A j \in is : R!Chosen(is) <= j
<1>1. \E i \in is : \A j \in is : i <= j
    BY LeastNat
<1> QED BY <1>1 DEF R!Chosen

\* What the loop answers is what the routes mean.
LEMMA ResolveMeant ==
    ASSUME sni \in Labelled, DOMAIN routes \subseteq Labelled,
           \A key \in DOMAIN routes : ~key.upper
    PROVE  R!Resolve(sni) \in R!Meant
<1> DEFINE ls == sni.labels
           exact == R!Lower(ls)
           wild == {i \in R!Cuts(ls) : R!Wildcard(ls, i) \in DOMAIN routes}
<1>1. ls \in Seq(STRING) /\ ls # <<>> /\ Len(ls) \in Nat
  <2>1. ls \in Seq(STRING) /\ ls # <<>>
      BY DEF Labelled
  <2> QED BY <2>1, LenProperties
<1>2. \A key : key \in R!Applying <=>
        /\ key \in DOMAIN routes
        /\ key = exact \/ \E i \in wild : key = R!Wildcard(ls, i)
    BY StandsIs DEF R!Applying
<1>3. wild \in SUBSET Nat
    BY <1>1 DEF R!Cuts
<1>4. R!Resolve(sni) = IF exact \in DOMAIN routes THEN routes[exact]
                       ELSE IF wild # {} THEN routes[R!Wildcard(ls, R!Chosen(wild))]
                       ELSE Default
    BY <1>1 DEF R!Resolve, R!NoName
<1> HIDE DEF wild
<1>5. CASE exact \in DOMAIN routes
  <2>1. exact \in R!Applying /\ exact.labels = ls
      BY <1>2, <1>5 DEF R!Lower
  <2>2. R!Best(exact)
      BY <2>1 DEF R!Best
  <2> QED BY <1>4, <1>5, <2>1, <2>2 DEF R!Meant
<1>6. CASE exact \notin DOMAIN routes /\ wild # {}
  <2> DEFINE i == R!Chosen(wild)
             key == R!Wildcard(ls, i)
  <2>1. i \in wild /\ \A j \in wild : i <= j
      BY <1>3, <1>6, ChosenIs
  <2>2. key \in R!Applying
      BY <1>2, <2>1 DEF wild
  <2>3. \A j \in wild : j \in 1..Len(ls) - 1
      BY DEF wild, R!Cuts
  <2>4. \A j \in wild : Len(R!Wildcard(ls, j).labels) = Len(ls) - j + 1
      BY <1>1, <2>3, WildcardIs
  <2>5. ASSUME NEW other \in R!Applying
        PROVE  other.labels # ls /\ Len(other.labels) <= Len(key.labels)
    <3>1. other \in DOMAIN routes /\ other # exact
        BY <1>2, <1>6
    <3>2. PICK j \in wild : other = R!Wildcard(ls, j)
        BY <1>2, <3>1
    <3>3. Len(other.labels) = Len(ls) - j + 1 /\ Len(key.labels) = Len(ls) - i + 1 /\ i <= j
        BY <2>1, <2>4, <3>2
    <3>4. other.labels # ls
      <4>1. other = [labels |-> other.labels, upper |-> FALSE]
          BY <3>1 DEF Labelled
      <4> QED BY <3>1, <4>1 DEF R!Lower
    <3> QED BY <1>1, <2>1, <2>3, <3>3, <3>4
  <2>6. R!Best(key)
      BY <2>5 DEF R!Best
  <2> QED BY <1>4, <1>6, <2>2, <2>6 DEF R!Meant
<1>7. CASE exact \notin DOMAIN routes /\ wild = {}
  <2>1. R!Applying = {}
      BY <1>2, <1>7
  <2> QED BY <1>4, <1>7, <2>1 DEF R!Meant
<1> QED BY <1>5, <1>6, <1>7

-----------------------------------------------------------------------------
(* The fallback.                                                           *)

\* A connection that was answered went where the name it gave resolves to.
RoutesInv ==
    /\ R!TypeOK
    /\ \A key \in DOMAIN routes : routes[key] \in Dests
    /\ R!Answered => dialed = {R!Resolve(sni)}

LEMMA RoutesInvMeans == RoutesInv => R!TypeOK /\ MostSpecific
<1> SUFFICES ASSUME RoutesInv, \A key \in DOMAIN routes : ~key.upper, R!Answered
             PROVE  dialed \subseteq R!Meant
    BY DEF RoutesInv, MostSpecific, R!MostSpecific
<1>1. sni \in Labelled /\ DOMAIN routes \subseteq Labelled
    BY RoutesAssumption DEF RoutesInv, R!TypeOK, R!Answered, Labelled
<1> QED BY <1>1, ResolveMeant DEF RoutesInv

\* Every answer is a destination.
LEMMA ResolveIsDest ==
    ASSUME \A key \in DOMAIN routes : routes[key] \in Dests
    PROVE  \A name : R!Resolve(name) \in Dests
<1> TAKE name
<1> DEFINE ls == name.labels
           wild == {i \in R!Cuts(ls) : R!Wildcard(ls, i) \in DOMAIN routes}
<1>1. wild # {} => R!Chosen(wild) \in wild
  <2>1. wild \in SUBSET Nat
      BY DEF R!Cuts
  <2> HIDE DEF wild
  <2> QED BY <2>1, ChosenIs
<1> QED BY <1>1, RoutesAssumption DEF R!Resolve

LEMMA RoutesInit == R!Init => RoutesInv
BY RoutesAssumption DEF R!Init, RoutesInv, R!TypeOK, R!Answered

LEMMA RoutesNext == RoutesInv /\ R!Next => RoutesInv'
<1> SUFFICES ASSUME RoutesInv, R!Next PROVE RoutesInv'
    OBVIOUS
<1>1. UNCHANGED routes /\ \A name : R!Resolve(name) \in Dests
    BY ResolveIsDest DEF RoutesInv, R!Next, R!Hello, R!NoTls
<1>2. sni' \in Names \cup {R!NoName} /\ dialed' = R!Dial(R!Resolve(sni'))
    BY DEF R!Next, R!Hello, R!NoTls, R!Resolve
<1>3. dialed' = {} \/ dialed' = {R!Resolve(sni')}
    BY <1>2 DEF R!Dial
<1>4. dialed' \subseteq Dests \ Portless
    BY <1>1, <1>2 DEF R!Dial
<1>5. R!Resolve(sni)' = R!Resolve(sni')
    BY <1>1 DEF R!Resolve
<1> QED BY <1>1, <1>2, <1>3, <1>4, <1>5 DEF RoutesInv, R!TypeOK, R!Answered

-----------------------------------------------------------------------------
(* The parts together: the steps of one leave the others as they are.      *)

LEMMA LogStandsStill == LogInv /\ LogStands => LogInv'
BY DEF LogStands, LogInv, L!TypeOK, LogPhase, Aged, Slack, Everywhere, OldGone,
       GoneFirst, InOrder, L!Kept

LEMMA AdminStands == AdminInv /\ UsersStand => AdminInv'
BY DEF UsersStand, AdminInv, AdminTypes, Orderly, A!UsersAsTold, A!Writing, Overwriting

LEMMA RoutesStands == RoutesInv /\ RoutesStand => RoutesInv'
BY DEF RoutesStand, RoutesInv, R!TypeOK, R!Answered, R!Resolve

AllInv == LifeInv /\ LogInv /\ AdminInv /\ RoutesInv

\* The inductive invariant of the four.
THEOREM InductiveInvariant == AllSpec => []AllInv
<1>1. AllInit => AllInv
  <2> SUFFICES ASSUME AllInit PROVE AllInv
    OBVIOUS
  <2>1. LifeInv /\ LogInv /\ AdminInv
    BY LifeInit, LogInit, AdminInit DEF AllInit
  <2>2. CASE part = "routes"
    BY <2>1, <2>2, RoutesInit DEF AllInit, AllInv
  <2>3. CASE part # "routes"
    <3>1. DOMAIN routes = {} /\ sni = R!NoName /\ dialed = {}
      BY <2>3 DEF AllInit
    <3> QED BY <2>1, <3>1 DEF AllInv, RoutesInv, R!TypeOK, R!Answered
  <2> QED BY <2>2, <2>3
<1>2. AllInv /\ [AllNext]_allVars => AllInv'
  <2> SUFFICES ASSUME AllInv, [AllNext]_allVars PROVE AllInv'
    OBVIOUS
  <2>1. LifeInv'
    <3>1. Next \/ UNCHANGED vars
      BY DEF AllNext, MoveLife, MoveLog, MoveUsers, MoveRoutes, allVars
    <3> QED BY <3>1, LifeNext, LifeStands DEF AllInv
  <2>2. LogInv'
    <3>1. L!Next \/ LogStands
      BY DEF AllNext, MoveLife, MoveLog, MoveUsers, MoveRoutes, allVars, LogStands
    <3> QED BY <3>1, LogNext, LogStandsStill DEF AllInv
  <2>3. AdminInv'
    <3>1. A!Next \/ UsersStand
      BY DEF AllNext, MoveLife, MoveLog, MoveUsers, MoveRoutes, allVars, UsersStand
    <3> QED BY <3>1, AdminNext, AdminStands DEF AllInv
  <2>4. RoutesInv'
    <3>1. R!Next \/ RoutesStand
      BY DEF AllNext, MoveLife, MoveLog, MoveUsers, MoveRoutes, allVars, RoutesStand
    <3> QED BY <3>1, RoutesNext, RoutesStands DEF AllInv
  <2> QED BY <2>1, <2>2, <2>3, <2>4 DEF AllInv
<1> QED BY <1>1, <1>2, PTL DEF AllSpec

\* Every variable holds what its code can put there; a cancellation is
\* pending only for a task that runs (asyncio.Task.cancel, server.py 167-170).
THEOREM TypeCorrect == AllSpec => []AllTypesOK
<1>1. AllInv => AllTypesOK
  <2>1. LifeInv => TypeOK
    BY LifeTypes DEF LifeInv
  <2> QED BY <2>1, LogInvMeans, AdminInvMeans, RoutesInvMeans DEF AllInv, AllTypesOK
<1> QED BY <1>1, InductiveInvariant, PTL

\* Nothing is counted after the save at shutdown (server.py:180), unless a
\* task went on past its cancellation.
THEOREM SaveIsLast == AllSpec => []SavedAtLast
<1>1. AllInv => SavedAtLast
  BY DEF AllInv, LifeInv
<1> QED BY <1>1, InductiveInvariant, PTL

\* _rotate_if_needed (utils/log.py) removes the oldest generations of the log
\* and no others, and keeps the rest in order, whatever call fails and
\* wherever the process ends; a rotation that broke off costs one backup.
THEOREM NewestAreKept == AllSpec => []NewestKept
<1>1. AllInv => NewestKept
  BY LogInvMeans DEF AllInv
<1> QED BY <1>1, InductiveInvariant, PTL

\* With one directory, and commands that wait for each other, the users on
\* file are those that users add and users remove (cli/commands.py) have
\* reported, through crashes in the middle of a save and starts of the server.
THEOREM UsersAreAsTold == ASSUME Alone, SameDir PROVE AllSpec => []UsersAsTold
<1>1. AllInv => UsersAsTold
  BY AdminInvMeans DEF AllInv
<1> QED BY <1>1, InductiveInvariant, PTL

\* Under the same conditions a server that starts (main, cli/main.py) accepts
\* every user who was added.
THEOREM AddedAreServed == ASSUME Alone, SameDir PROVE AllSpec => AddedIsServed
<1>1. AllInv /\ [AllNext]_allVars =>
        [server = "down" /\ server' = "up" /\ A!Writing = {} => told \subseteq valid']_A!vars
  <2> SUFFICES ASSUME AllInv, [AllNext]_allVars, server = "down", server' = "up"
               PROVE  told \subseteq valid'
    OBVIOUS
  <2>1. A!Next
    BY DEF AllNext, MoveLife, MoveLog, MoveUsers, MoveRoutes, allVars, UsersStand
  <2> QED BY <2>1, AdminStep DEF AllInv
<1> QED BY <1>1, InductiveInvariant, PTL DEF AllSpec, AddedIsServed, A!AddedIsServed

\* SniRouter.resolve (core/sni_routing.py): a foreign client goes where the
\* most specific route that applies to its name says, for every table of
\* routes whose keys have no capitals.
THEOREM MostSpecificIsTaken == AllSpec => []MostSpecific
<1>1. AllInv => MostSpecific
  BY RoutesInvMeans DEF AllInv
<1> QED BY <1>1, InductiveInvariant, PTL
=============================================================================
