------------------------- MODULE TrafficStatsProofs -------------------------
(***************************************************************************)
(* Theorems about TrafficStats, for every set of users, every limit and     *)
(* every interval: what the file said last is never ahead of the memory of  *)
(* a server that was not started while it was torn, and a clean flag means  *)
(* that file and memory are the same; so a used-up quota outlives crashes   *)
(* and torn files, until such a start.                                      *)
(***************************************************************************)
EXTENDS TrafficStats, TLAPS

\* The history variable says what the file says, when it can be read.
DurableIsFile ==
    /\ durable \in [Users -> Nat]
    /\ disk.ok => \A u \in Users : durable[u] = Used(disk.users, u)

\* Counters are numbers, of known users.
CountersInv ==
    /\ DOMAIN users \subseteq Users /\ \A u \in DOMAIN users : users[u] \in Nat
    /\ DOMAIN disk.users \subseteq Users
    /\ \A u \in DOMAIN disk.users : disk.users[u] \in Nat
    /\ disk.ok \in BOOLEAN

\* A process has in memory whatever the file said last, or more.
FileBehind ==
    server # "down" /\ ~wiped => \A u \in Users : durable[u] <= Used(users, u)

IInv == CountersInv /\ DurableIsFile /\ FileBehind /\ CleanMeansSaved

-----------------------------------------------------------------------------
\* Before the first start there is no file: the invariant holds.
LEMMA InitInv == Init => IInv
BY DEF Init, IInv, CountersInv, DurableIsFile, FileBehind, CleanMeansSaved,
       Torn, NoUsers, Used

\* Counters of users are numbers.
LEMMA UsedIsNat ==
    ASSUME NEW us, \A u \in DOMAIN us : us[u] \in Nat
    PROVE  \A u : Used(us, u) \in Nat
BY DEF Used

\* stats.load(): what is in memory is what the file says.
LEMMA StartInv == IInv /\ Start => IInv'
<1> SUFFICES ASSUME IInv, Start PROVE IInv'
    OBVIOUS
<1> USE DEF IInv, Start, Loaded, NoUsers
<1>1. CountersInv'
    BY DEF CountersInv
<1>2. DurableIsFile'
    BY DEF DurableIsFile, Used
<1>3. FileBehind'
  <2>1. CASE disk.ok
      BY <2>1 DEF FileBehind, DurableIsFile, Used
  <2>2. CASE ~disk.ok
    <3>1. ~wiped' => \A u \in Users : ~(durable[u] > 0)
        BY <2>2
    <3>2. \A u \in Users : Used(users', u) = 0 /\ durable[u] \in Nat
        BY <2>2 DEF Used, DurableIsFile
    <3> QED BY <3>1, <3>2 DEF FileBehind, Used
  <2> QED BY <2>1, <2>2
<1>4. CleanMeansSaved'
    BY DEF CleanMeansSaved
<1> QED BY <1>1, <1>2, <1>3, <1>4

\* AddTo creates or raises the counter of one user and keeps the others.
LEMMA AddToRaises ==
    ASSUME NEW us, NEW u \in Users, NEW n \in Nat,
           DOMAIN us \subseteq Users, \A v \in DOMAIN us : us[v] \in Nat
    PROVE  /\ DOMAIN AddTo(us, u, n) \subseteq Users
           /\ \A v \in DOMAIN AddTo(us, u, n) : AddTo(us, u, n)[v] \in Nat
           /\ \A v \in Users : Used(us, v) <= Used(AddTo(us, u, n), v)
<1>1. \A v : Used(us, v) \in Nat
    BY UsedIsNat
<1> QED BY <1>1 DEF AddTo, Used

\* Traffic raises the counters in memory, and lifts the dirty flag.
LEMMA TrafficInv == ASSUME NEW u \in Users, IInv, Connect(u) \/ Count(u) PROVE IInv'
<1>1. /\ \E n \in Nat : users' = AddTo(users, u, n)
      /\ dirty' = TRUE /\ UNCHANGED <<server, disk, durable, wiped>>
    BY DEF Connect, Count, Dirtied
<1>2. PICK n \in Nat : users' = AddTo(users, u, n)
    BY <1>1
<1>3. /\ DOMAIN users' \subseteq Users
      /\ \A v \in DOMAIN users' : users'[v] \in Nat
      /\ \A v \in Users : Used(users, v) <= Used(users', v)
    BY <1>2, AddToRaises DEF IInv, CountersInv
<1>4. CountersInv'
    BY <1>1, <1>3 DEF IInv, CountersInv
<1>5. DurableIsFile'
    BY <1>1 DEF IInv, DurableIsFile, Used
<1>6. FileBehind'
  <2>1. \A v \in Users : /\ durable[v] \in Nat /\ Used(users, v) \in Nat
                         /\ Used(users', v) \in Nat
      BY <1>3, UsedIsNat DEF IInv, CountersInv, DurableIsFile
  <2>2. SUFFICES ASSUME server # "down", ~wiped, NEW v \in Users
                 PROVE  durable[v] <= Used(users', v)
      BY <1>1 DEF FileBehind, Used
  <2> QED BY <1>3, <2>1, <2>2 DEF IInv, FileBehind
<1>7. CleanMeansSaved'
    BY <1>1 DEF CleanMeansSaved
<1> QED BY <1>4, <1>5, <1>6, <1>7 DEF IInv

\* A torn file reads as one without users.
LEMMA TornIsEmpty == Torn.ok = FALSE /\ DOMAIN Torn.users = {}
BY DEF Torn, NoUsers

\* A save writes the whole memory, or nothing and leaves the flag as it was.
\* It only clears the flag when it has written.
LEMMA SaveInv ==
    ASSUME NEW force \in BOOLEAN, IInv, Save(force), server # "down",
           (server' = server /\ ~force) \/ server' = "saved"
    PROVE  IInv'
<1>0. \A u : Used(users, u) \in Nat
    BY UsedIsNat DEF IInv, CountersInv
<1>1. CASE SaveSkips(force)
    BY <1>1 DEF SaveSkips, Skipped, history, IInv, CountersInv, DurableIsFile,
                FileBehind, CleanMeansSaved, Used, Loaded
<1>2. CASE SaveSucceeds(force)
  <2> USE <1>2 DEF SaveSucceeds, IInv
  <2>1. CountersInv'
      BY DEF CountersInv
  <2>2. DurableIsFile'
      BY <1>0 DEF DurableIsFile, Used
  <2>3. FileBehind'
      BY <1>0 DEF FileBehind, Used
  <2>4. CleanMeansSaved'
      BY DEF CleanMeansSaved, Loaded
  <2> QED BY <2>1, <2>2, <2>3, <2>4
<1>3. CASE SaveFails(force)
  <2> USE <1>3 DEF SaveFails, IInv
  <2>1. CountersInv' /\ DurableIsFile'
    <3>1. CASE disk' = Torn
        BY <3>1, TornIsEmpty DEF CountersInv, DurableIsFile
    <3>2. CASE disk' = disk
        BY <3>2 DEF CountersInv, DurableIsFile, Used
    <3> QED BY <3>1, <3>2
  <2>2. FileBehind'
      BY DEF FileBehind, Used
  <2>3. CleanMeansSaved'
    <3>1. CASE ~force
        BY <3>1 DEF CleanMeansSaved, Skipped
    <3>2. CASE server' = "saved" /\ disk' = Torn
        BY <3>2, TornIsEmpty DEF CleanMeansSaved
    <3>3. CASE server' = "saved" /\ disk' = disk
        BY <3>3 DEF CleanMeansSaved, Loaded
    <3> QED BY <3>1, <3>2, <3>3
  <2> QED BY <2>1, <2>2, <2>3
<1> QED BY <1>1, <1>2, <1>3 DEF Save

\* The steps that end a run of the server, or touch neither file nor memory.
LEMMA OtherInv ==
    ASSUME IInv,
           \/ Crash \/ CrashInSave \/ Stop \/ Exit \/ Tick \/ ClockSteps
           \/ \E u \in Users : Disconnect(u)
           \/ UNCHANGED vars
    PROVE  IInv'
<1>1. CASE CrashInSave
    BY <1>1 DEF CrashInSave, memory, history, IInv, CountersInv, DurableIsFile,
                FileBehind, CleanMeansSaved, Torn, NoUsers
<1>2. CASE ~CrashInSave
  <2>1. /\ UNCHANGED <<users, dirty, disk, durable, wiped>>
        /\ \/ server' = server \/ server' = "down"
           \/ server = "up" /\ server' = "stopping"
    <3>1. CASE Crash \/ Stop \/ Exit
        BY <3>1 DEF Crash, Stop, Exit, memory, history
    <3>2. CASE Tick \/ ClockSteps
        BY <3>2 DEF Tick, ClockSteps, memory, history
    <3>3. CASE \E u \in Users : Disconnect(u)
        BY <3>3 DEF Disconnect, memory, history
    <3>4. CASE UNCHANGED vars
        BY <3>4 DEF vars
    <3> QED BY <1>2, <3>1, <3>2, <3>3, <3>4
  <2> QED BY <2>1 DEF IInv, CountersInv, DurableIsFile, FileBehind,
                      CleanMeansSaved, Loaded, Used
<1> QED BY <1>1, <1>2

\* Every step preserves the invariant.
LEMMA NextInv == IInv /\ [Next]_vars => IInv'
<1> SUFFICES ASSUME IInv, [Next]_vars PROVE IInv'
    OBVIOUS
<1>1. CASE Start
    BY <1>1, StartInv
<1>2. CASE \E u \in Users : Connect(u) \/ Count(u)
    BY <1>2, TrafficInv
<1>3. CASE StatsLoop
    BY <1>3, SaveInv DEF StatsLoop, LoopWakes
<1>4. CASE FinalSave
    BY <1>4, SaveInv DEF FinalSave
<1> QED BY <1>1, <1>2, <1>3, <1>4, OtherInv DEF Next

-----------------------------------------------------------------------------
(* Types, and the two intervals.                                           *)

\* The counters that AddTo makes.
LEMMA AddToCounts ==
    ASSUME NEW us, NEW u \in Users, NEW n \in Nat, Counters(us), Used(us, u) + n \in 0..MaxTraffic
    PROVE  Counters(AddTo(us, u, n)) /\ DOMAIN AddTo(us, u, n) = DOMAIN us \cup {u}
BY DEF AddTo, Counters

LEMMA UsedCounts ==
    ASSUME NEW us, Counters(us)
    PROVE  \A u : Used(us, u) \in 0..MaxTraffic
BY StatsAssumption DEF Used, Counters

LEMMA TornCounts == Torn.ok \in BOOLEAN /\ Counters(Torn.users)
BY DEF Torn, NoUsers, Counters

\* Where the clocks are: the wall clock is never before the epoch.
LEMMA ClocksType ==
    ASSUME now \in SaveInterval + ClockSlip..MaxTime, slip \in -ClockSlip..ClockSlip
    PROVE  /\ now \in Nat /\ Wall \in Nat /\ Wall >= SaveInterval
           /\ Wall <= now + ClockSlip /\ now <= Wall + ClockSlip
<1>1. SaveInterval \in Nat /\ ClockSlip \in Nat /\ MaxTime \in Nat
    BY StatsAssumption
<1> QED BY <1>1 DEF Wall

LEMMA InitTypes == Init => TypeOK
<1> SUFFICES ASSUME Init PROVE TypeOK
    OBVIOUS
<1> USE StatsAssumption DEF Init
<1>1. Counters(users) /\ disk.ok \in BOOLEAN /\ Counters(disk.users)
    BY TornCounts DEF NoUsers, Counters
<1>2. open \in [Users -> 0..MaxOpen] /\ \A u \in Users : ~(open[u] > 0)
    BY DEF NoRelays
<1>3. durable \in [Users -> 0..MaxTraffic] /\ wiped \in BOOLEAN
  <2>1. 0 \in 0..MaxTraffic
      OBVIOUS
  <2>2. durable = [u \in Users |-> 0] /\ wiped = FALSE
      OBVIOUS
  <2> QED BY <2>1, <2>2
<1>4. /\ now \in SaveInterval + ClockSlip..MaxTime /\ slip \in -ClockSlip..ClockSlip
      /\ starts \in 0..MaxStarts
      /\ lastSave \in 0..now + ClockSlip /\ dirtySince \in 0..now
      /\ nextLoop \in 0..MaxTime + StatsInterval
    OBVIOUS
<1> QED BY <1>1, <1>2, <1>3, <1>4 DEF TypeOK

\* A save leaves the file whole, torn or as it was.
LEMMA SaveTypes ==
    ASSUME TypeOK, NEW force \in BOOLEAN, Save(force)
    PROVE  /\ UNCHANGED <<users, open>> /\ dirty' \in BOOLEAN /\ saveFailed' \in BOOLEAN
           /\ lastSave' \in {lastSave, Wall} /\ dirtySince' \in {dirtySince, 0}
           /\ disk'.ok \in BOOLEAN /\ Counters(disk'.users)
           /\ durable' \in [Users -> 0..MaxTraffic] /\ wiped' \in BOOLEAN
<1>1. CASE SaveSkips(force)
    BY <1>1 DEF SaveSkips, history, TypeOK
<1>2. CASE SaveSucceeds(force)
  <2>1. durable' \in [Users -> 0..MaxTraffic]
      BY <1>2, UsedCounts DEF SaveSucceeds, TypeOK
  <2> QED BY <1>2, <2>1 DEF SaveSucceeds, TypeOK
<1>3. CASE SaveFails(force)
  <2>1. disk'.ok \in BOOLEAN /\ Counters(disk'.users)
    <3>1. CASE disk' = Torn
        BY <3>1, TornCounts
    <3>2. CASE disk' = disk
        BY <3>2 DEF TypeOK
    <3> QED BY <1>3, <3>1, <3>2 DEF SaveFails
  <2> QED BY <1>3, <2>1 DEF SaveFails, TypeOK
<1> QED BY <1>1, <1>2, <1>3 DEF Save

\* Traffic keeps the types.
LEMMA TrafficTypes ==
    ASSUME TypeOK, NEW u \in Users, Connect(u) \/ Count(u) \/ Disconnect(u) PROVE TypeOK'
<1> USE StatsAssumption
<1>0. now \in Nat
    BY ClocksType DEF TypeOK
<1>1. CASE Connect(u) \/ Count(u)
  <2>1. PICK n \in {0, 1} : users' = AddTo(users, u, n) /\ Used(users, u) + n \in 0..MaxTraffic
    <3>1. Used(users, u) \in 0..MaxTraffic
        BY UsedCounts DEF TypeOK
    <3> QED BY <1>1, <3>1 DEF Connect, Count
  <2>2. Counters(users') /\ DOMAIN users' = DOMAIN users \cup {u}
    <3>1. Counters(users) /\ n \in Nat
        BY DEF TypeOK
    <3> QED BY <2>1, <3>1, AddToCounts
  <2>3. /\ open' \in [Users -> 0..MaxOpen]
        /\ \A v \in Users : open'[v] > 0 => open[v] > 0 \/ v = u
    <3>1. CASE open' = open
        BY <3>1 DEF TypeOK
    <3>2. CASE open[u] < MaxOpen /\ open' = [open EXCEPT ![u] = open[u] + 1]
      <4>1. open \in [Users -> 0..MaxOpen] /\ open[u] + 1 \in 0..MaxOpen
          BY <3>2 DEF TypeOK
      <4> QED BY <3>2, <4>1
    <3> QED BY <1>1, <3>1, <3>2 DEF Connect, Count
  <2>4. \A v \in Users : open'[v] > 0 => v \in DOMAIN users'
      BY <2>2, <2>3 DEF TypeOK
  <2>5. dirty' = TRUE /\ dirtySince' \in 0..now
      BY <1>0, <1>1 DEF Connect, Count, Dirtied, TypeOK
  <2>6. UNCHANGED <<now, slip, server, starts, lastSave, nextLoop, disk, saveFailed,
                    durable, wiped>>
      BY <1>1 DEF Connect, Count, Dirtied
  <2> QED BY <2>2, <2>3, <2>4, <2>5, <2>6 DEF TypeOK
<1>2. CASE Disconnect(u)
  <2>1. /\ open' \in [Users -> 0..MaxOpen]
        /\ \A v \in Users : open'[v] > 0 => open[v] > 0
    <3>1. open[u] > 0 /\ open' = [open EXCEPT ![u] = open[u] - 1]
        BY <1>2 DEF Disconnect
    <3> QED BY <3>1 DEF TypeOK
  <2> QED BY <1>2, <2>1 DEF Disconnect, memory, history, TypeOK
<1> QED BY <1>1, <1>2

LEMMA NextTypes == TypeOK /\ [Next]_vars => TypeOK'
<1> SUFFICES ASSUME TypeOK, [Next]_vars PROVE TypeOK'
    OBVIOUS
<1> USE StatsAssumption
<1>0. /\ NoRelays \in [Users -> 0..MaxOpen] /\ \A u \in Users : ~(NoRelays[u] > 0)
      /\ now \in Nat /\ Wall \in 0..now + ClockSlip
    BY ClocksType DEF NoRelays, TypeOK
<1>1. CASE Start
  <2>1. Counters(users') /\ wiped' \in BOOLEAN
      BY <1>1 DEF Start, Loaded, NoUsers, Counters, TypeOK
  <2>2. starts' \in 0..MaxStarts /\ nextLoop' \in 0..MaxTime + StatsInterval
      BY <1>0, <1>1 DEF Start, TypeOK
  <2>3. lastSave' \in 0..now + ClockSlip /\ dirtySince' \in 0..now
      BY <1>0, <1>1 DEF Start
  <2> QED BY <1>0, <1>1, <2>1, <2>2, <2>3 DEF Start, TypeOK
<1>2. CASE Crash \/ Exit
    BY <1>0, <1>2 DEF Crash, Exit, memory, history, TypeOK
<1>3. CASE CrashInSave
    BY <1>0, <1>3, TornCounts DEF CrashInSave, memory, history, TypeOK
<1>4. CASE Stop
  <2>1. \A u \in Users : open'[u] > 0 => open[u] > 0
      BY <1>4 DEF Stop, TypeOK
  <2> QED BY <1>4, <2>1 DEF Stop, memory, history, TypeOK
<1>5. CASE StatsLoop \/ FinalSave
  <2>1. PICK force \in BOOLEAN : Save(force)
      BY <1>5 DEF StatsLoop, FinalSave
  <2>2. /\ UNCHANGED <<users, open, now, slip, starts>>
        /\ server' \in {"up", "saved"} /\ nextLoop' \in {nextLoop, now + StatsInterval}
      BY <1>5, <2>1, SaveTypes DEF StatsLoop, LoopWakes, FinalSave
  <2>3. /\ lastSave' \in 0..now + ClockSlip /\ dirtySince' \in 0..now
        /\ nextLoop' \in 0..MaxTime + StatsInterval
      BY <1>0, <2>1, <2>2, SaveTypes DEF TypeOK
  <2> QED BY <2>1, <2>2, <2>3, SaveTypes DEF TypeOK
<1>6. CASE Tick
  <2>1. /\ now' \in SaveInterval + ClockSlip..MaxTime
        /\ lastSave' \in 0..now' + ClockSlip /\ dirtySince' \in 0..now'
      BY <1>0, <1>6 DEF Tick, memory, history, TypeOK
  <2> QED BY <1>6, <2>1 DEF Tick, memory, history, TypeOK
<1>7. CASE ClockSteps
    BY <1>7 DEF ClockSteps, memory, history, TypeOK
<1>8. CASE \E u \in Users : Connect(u) \/ Count(u) \/ Disconnect(u)
    BY <1>8, TrafficTypes
<1>9. CASE UNCHANGED vars
    BY <1>9 DEF vars, TypeOK
<1> QED BY <1>1, <1>2, <1>3, <1>4, <1>5, <1>6, <1>7, <1>8, <1>9 DEF Next

\* When the loop wakes next it finds nothing that has been unsaved for longer
\* than the two intervals and the clock's slip: what a save was skipped for is
\* younger than the save before it, but for that slip.
InTime ==
    server = "up" /\ StatsInterval > 0 =>
        /\ now <= nextLoop /\ nextLoop <= now + StatsInterval
        /\ dirty =>
             /\ lastSave <= dirtySince + ClockSlip
             /\ \/ saveFailed
                \/ nextLoop - dirtySince <= SaveInterval + StatsInterval + 2 * ClockSlip

LEMMA NextInTime == TypeOK /\ TypeOK' /\ InTime /\ [Next]_vars => InTime'
<1> SUFFICES ASSUME TypeOK, TypeOK', InTime, [Next]_vars, server' = "up",
                    StatsInterval > 0
             PROVE  InTime'
    BY DEF InTime
<1>0. /\ now \in Nat /\ nextLoop \in Nat /\ lastSave \in 0..now + ClockSlip
      /\ dirtySince \in Nat /\ StatsInterval \in Nat /\ SaveInterval \in Nat
      /\ ClockSlip \in Nat
      /\ Wall \in Nat /\ now <= Wall + ClockSlip /\ Wall <= now + ClockSlip
    BY StatsAssumption, ClocksType DEF TypeOK
<1>1. CASE Start
    BY <1>0, <1>1 DEF Start, InTime
<1>2. CASE \E u \in Users : Connect(u) \/ Count(u)
  <2>1. /\ UNCHANGED <<now, server, lastSave, nextLoop, saveFailed>>
        /\ dirtySince' = IF dirty THEN dirtySince ELSE now
      BY <1>2 DEF Connect, Count, Dirtied
  <2>2. CASE dirty
      BY <2>1, <2>2 DEF InTime
  <2>3. CASE ~dirty
      BY <1>0, <2>1, <2>3 DEF InTime
  <2> QED BY <2>2, <2>3
<1>3. CASE StatsLoop
  <2>1. /\ UNCHANGED <<now, server>> /\ now = nextLoop /\ nextLoop' = now + StatsInterval
        /\ Save(FALSE)
      BY <1>3 DEF StatsLoop, LoopWakes
  <2>2. CASE SaveSkips(FALSE)
    <3>1. UNCHANGED <<dirty, lastSave, dirtySince, saveFailed>>
          /\ (Wall - lastSave < SaveInterval \/ ~dirty)
        BY <2>2 DEF SaveSkips, Skipped, history
    <3> QED BY <1>0, <2>1, <3>1 DEF InTime
  <2>3. CASE SaveSucceeds(FALSE)
      BY <1>0, <2>1, <2>3 DEF SaveSucceeds, InTime
  <2>4. CASE SaveFails(FALSE)
    <3>1. saveFailed' /\ UNCHANGED <<dirty, lastSave, dirtySince>>
        BY <2>4 DEF SaveFails
    <3> QED BY <1>0, <2>1, <3>1 DEF InTime
  <2> QED BY <2>1, <2>2, <2>3, <2>4 DEF Save
<1>4. CASE Tick
    BY <1>0, <1>4 DEF Tick, memory, history, InTime
<1>5. CASE \/ ClockSteps
           \/ \E u \in Users : Disconnect(u)
           \/ UNCHANGED vars
  <2>1. UNCHANGED <<now, server, dirty, lastSave, nextLoop, dirtySince, saveFailed>>
      BY <1>5 DEF ClockSteps, Disconnect, memory, history, vars
  <2> QED BY <2>1 DEF InTime
<1> QED BY <1>1, <1>2, <1>3, <1>4, <1>5
        DEF Next, Crash, CrashInSave, Stop, FinalSave, Exit

-----------------------------------------------------------------------------
\* The invariant that the three theorems after it rest on: what the file said
\* last is not ahead of the counters in memory, but after a start from a torn one.
THEOREM InductiveInvariant == Spec => []IInv
BY InitInv, NextInv, PTL DEF Spec

\* While a process runs and the dirty flag is down, a restart would read what
\* is in memory, unless the last save of all has failed (stats.save, stats.load).
THEOREM CleanFlag == Spec => []CleanMeansSaved
<1>1. IInv => CleanMeansSaved
    BY DEF IInv
<1> QED BY <1>1, InductiveInvariant, PTL

\* limiter.check refuses a user whose quota was used up when the file was last
\* readable, whatever crashes and failed saves lie in between, unless the server
\* was started while the file was torn.
THEOREM QuotaUntilTornStart == Spec => QuotaDurable
<1>1. IInv /\ [Next]_vars =>
        [\A u \in Users : Connect(u) /\ Limit[u] > 0 => durable[u] < Limit[u] \/ wiped]_vars
  <2> SUFFICES ASSUME IInv, NEW u \in Users, Connect(u), Limit[u] > 0, ~wiped
               PROVE  durable[u] < Limit[u]
      OBVIOUS
  <2>1. Limit[u] \in Nat
      BY StatsAssumption
  <2>2. server # "down" /\ Used(users, u) < Limit[u]
      BY <2>1 DEF Connect, MayConnect
  <2>3. durable[u] <= Used(users, u) /\ durable[u] \in Nat /\ Used(users, u) \in Nat
      BY <2>2, UsedIsNat DEF IInv, CountersInv, DurableIsFile, FileBehind
  <2> QED BY <2>1, <2>2, <2>3
<1> QED BY <1>1, InductiveInvariant, PTL DEF Spec, QuotaDurable

\* What a readable file says of a user is never less than what the last readable
\* one said, however often it was torn in between, unless the server was started
\* while it was (stats.save).
THEOREM GrowsUntilTornStart == Spec => NeverRollsBack
<1> DEFINE Grows == \A u \in Users : durable'[u] >= durable[u] \/ wiped
<1>1. IInv /\ [Next]_vars => [Grows]_vars
  <2> SUFFICES ASSUME IInv, Next PROVE Grows
      OBVIOUS
  <2>1. \/ durable' = durable
        \/ server # "down" /\ durable' = [u \in Users |-> Used(users, u)]
    <3>1. CASE StatsLoop \/ FinalSave
        BY <3>1 DEF StatsLoop, LoopWakes, FinalSave, Save, SaveSkips, SaveSucceeds,
                    SaveFails, history
    <3>2. CASE \E u \in Users : Connect(u) \/ Count(u) \/ Disconnect(u)
        BY <3>2 DEF Connect, Count, Disconnect, Dirtied, history
    <3> QED BY <3>1, <3>2
            DEF Next, Start, Crash, CrashInSave, Stop, Exit, Tick, ClockSteps, history
  <2>2. \A u \in Users : durable[u] \in Nat /\ Used(users, u) \in Nat
      BY UsedIsNat DEF IInv, CountersInv, DurableIsFile
  <2>3. CASE durable' = durable
      BY <2>2, <2>3
  <2>4. CASE server # "down" /\ durable' = [u \in Users |-> Used(users, u)]
      BY <2>2, <2>4 DEF IInv, FileBehind
  <2> QED BY <2>1, <2>3, <2>4
<1> QED BY <1>1, InductiveInvariant, PTL DEF Spec, NeverRollsBack

\* The counters and the clocks stay what their code makes them, and an open
\* relay has counters (on_user_connect).
THEOREM TypeCorrect == Spec => []TypeOK
BY InitTypes, NextTypes, PTL DEF Spec

\* Where the loop runs and no save has failed, traffic is written after the
\* interval of the loop, that of save() and twice the wall clock's slip at the
\* latest (SAVE_INTERVAL, utils/stats.py).
THEOREM SavesInTime == Spec => []SavedInTime
<1>1. Init => InTime
    BY DEF Init, InTime
<1>2. TypeOK /\ InTime => SavedInTime
    BY StatsAssumption, ClocksType DEF TypeOK, InTime, SavedInTime
<1> QED BY <1>1, <1>2, NextInTime, TypeCorrect, PTL DEF Spec
=============================================================================
