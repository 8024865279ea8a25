---------------------------- MODULE TrafficStats ----------------------------
(***************************************************************************)
(* Per-user traffic: counted in memory (utils/stats.py), written to a file  *)
(* by the statistics loop and at shutdown (server/server.py), read back at  *)
(* start, and compared with the user's limit when he connects               *)
(* (utils/traffic.py).                                                      *)
(*                                                                          *)
(* Saving opens the file for writing, which empties it, and then writes: a  *)
(* crash or a full disk in between leaves a file that cannot be read.  A    *)
(* save is one action, since nothing else runs during it but a crash.       *)
(*                                                                          *)
(* The loop sleeps by the event loop's clock, which only goes forward;      *)
(* save() reads the wall clock, which may be set forward or back.           *)
(***************************************************************************)
EXTENDS Integers

CONSTANTS
    Users,         \* the uuids of the configuration
    Limit,         \* limit_bytes of each; 0 is no limit
    StatsInterval, \* cfg["stats_interval"]; without a loop, 0
    SaveInterval,  \* SAVE_INTERVAL
    ClockSlip,     \* how far the wall clock may be off
    MaxTraffic,    \* bound on the traffic of a user, for TLC
    MaxOpen,       \* bound on the relays of a user, for TLC
    MaxTime,       \* bound on the clock, for TLC
    MaxStarts      \* bound on the starts of the server, for TLC

ASSUME StatsAssumption ==
    /\ Limit \in [Users -> Nat]
    /\ StatsInterval \in Nat /\ SaveInterval \in Nat /\ ClockSlip \in Nat
    /\ MaxTraffic \in Nat /\ MaxOpen \in Nat /\ MaxStarts \in Nat
    /\ MaxTime \in Nat /\ MaxTime >= SaveInterval + ClockSlip

VARIABLES
    now,        \* the clock of the event loop
    slip,       \* how far time.time() is ahead of it
    server,     \* "down", "up", "stopping", "saved"
    starts,     \* how often it was started
    users,      \* stats.users: what each known user has used
    dirty,      \* stats._dirty
    lastSave,   \* stats._last_save
    nextLoop,   \* when the statistics loop wakes up next
    open,       \* how many relays of each user are open
    disk,       \* the file: [ok, users]
    dirtySince, \* history: when the unsaved traffic began; 0 when there is none
    saveFailed, \* history: a save of this run of the server has failed
    durable,    \* history: what the file said of each user when it was last readable
    wiped       \* history: the server started from a torn file that had said something

vars == <<now, slip, server, starts, users, dirty, lastSave, nextLoop, open, disk,
          dirtySince, saveFailed, durable, wiped>>
memory == <<users, dirty, lastSave, nextLoop>>
history == <<dirtySince, saveFailed, durable, wiped>>

\* time.time()
Wall == now + slip

NoRelays == [u \in Users |-> 0]
NoUsers == [u \in {} |-> 0]
Used(us, u) == IF u \in DOMAIN us THEN us[u] ELSE 0
AddTo(us, u, n) == [v \in DOMAIN us \cup {u} |->
                       IF v = u THEN Used(us, u) + n ELSE us[v]]

\* stats.load(): no file and an unreadable one both read as no users.
Loaded(d) == IF d.ok THEN d.users ELSE NoUsers

Torn == [ok |-> FALSE, users |-> NoUsers]

\* The epoch is longer ago than any interval.
Init ==
    /\ now = SaveInterval + ClockSlip
    /\ slip \in -ClockSlip..ClockSlip
    /\ server = "down" /\ starts = 0
    /\ users = NoUsers
    /\ dirty = FALSE /\ lastSave = 0 /\ nextLoop = 0
    /\ open = NoRelays
    /\ disk = Torn
    /\ dirtySince = 0 /\ saveFailed = FALSE
    /\ durable = [u \in Users |-> 0] /\ wiped = FALSE

-----------------------------------------------------------------------------
(* Starting, and crashing.                                                  *)

\* Mutant: the file is not loaded.
StartEmpty ==
    /\ server = "down" /\ starts < MaxStarts
    /\ server' = "up" /\ starts' = starts + 1
    /\ users' = NoUsers
    /\ dirty' = FALSE /\ lastSave' = 0
    /\ nextLoop' = now + StatsInterval
    /\ open' = NoRelays
    /\ dirtySince' = 0 /\ saveFailed' = FALSE
    /\ wiped' = (~disk.ok /\ \E u \in Users : durable[u] > 0)
    /\ UNCHANGED <<now, slip, disk, durable>>

\* A new process: stats is a new object, load() fills it from the file.
Start ==
    /\ server = "down" /\ starts < MaxStarts
    /\ server' = "up" /\ starts' = starts + 1
    /\ users' = Loaded(disk)
    /\ dirty' = FALSE /\ lastSave' = 0
    /\ nextLoop' = now + StatsInterval
    /\ open' = NoRelays
    /\ dirtySince' = 0 /\ saveFailed' = FALSE
    /\ wiped' = (~disk.ok /\ \E u \in Users : durable[u] > 0)
    /\ UNCHANGED <<now, slip, disk, durable>>

Crash ==
    /\ server # "down"
    /\ server' = "down" /\ open' = NoRelays
    /\ UNCHANGED <<now, slip, starts, memory, disk, history>>

-----------------------------------------------------------------------------
(* Connections of users.                                                    *)

\* Mutant: the limit itself is still allowed.
MayConnectAtLimit(u) == Limit[u] = 0 \/ Used(users, u) <= Limit[u]

\* limiter.check
MayConnect(u) == Limit[u] = 0 \/ Used(users, u) < Limit[u]

Dirtied ==
    /\ dirty' = TRUE /\ dirtySince' = IF dirty THEN dirtySince ELSE now
    /\ UNCHANGED <<saveFailed, durable, wiped>>

\* Mutant: the user's counters are not created.
ConnectUnseen(u) ==
    /\ server = "up" /\ open[u] < MaxOpen
    /\ MayConnect(u)
    /\ open' = [open EXCEPT ![u] = @ + 1]
    /\ Dirtied
    /\ UNCHANGED <<now, slip, server, starts, users, lastSave, nextLoop, disk>>

\* on_user_connect creates the user's counters.
Connect(u) ==
    /\ server = "up" /\ open[u] < MaxOpen
    /\ MayConnect(u)
    /\ users' = AddTo(users, u, 0)
    /\ open' = [open EXCEPT ![u] = @ + 1]
    /\ Dirtied
    /\ UNCHANGED <<now, slip, server, starts, lastSave, nextLoop, disk>>

\* add_user_up and add_user_down, by a pipe of an open relay.  There is no
\* check here: a relay goes on when the limit is passed.  A pipe that loses
\* its cancellation still counts while the server is stopping.
Count(u) ==
    /\ server # "down" /\ open[u] > 0
    /\ Used(users, u) < MaxTraffic
    /\ users' = AddTo(users, u, 1)
    /\ Dirtied
    /\ UNCHANGED <<now, slip, server, starts, lastSave, nextLoop, open, disk>>

Disconnect(u) ==
    /\ open[u] > 0
    /\ open' = [open EXCEPT ![u] = @ - 1]
    /\ UNCHANGED <<now, slip, server, starts, memory, disk, history>>

-----------------------------------------------------------------------------
(* Saving.                                                                  *)

\* The two early returns of save().
Skipped(force) ==
    \/ ~force /\ Wall - lastSave < SaveInterval
    \/ ~force /\ ~dirty

\* Mutant: a skipped save counts as the last one.
SaveSkipsLate(force) ==
    /\ Skipped(force)
    /\ lastSave' = Wall
    /\ UNCHANGED <<users, dirty, open, disk, history>>

SaveSkips(force) ==
    /\ Skipped(force)
    /\ UNCHANGED <<users, dirty, lastSave, open, disk, history>>

SaveSucceeds(force) ==
    /\ ~Skipped(force)
    /\ disk' = [ok |-> TRUE, users |-> users]
    /\ dirty' = FALSE /\ lastSave' = Wall
    /\ dirtySince' = 0
    /\ durable' = [u \in Users |-> Used(users, u)] /\ wiped' = FALSE
    /\ UNCHANGED <<users, open, saveFailed>>

\* Mutant: the flag is cleared before the file is written.
SaveFailsClean(force) ==
    /\ ~Skipped(force)
    /\ disk' = Torn
    /\ saveFailed' = TRUE
    /\ dirty' = FALSE /\ dirtySince' = 0
    /\ UNCHANGED <<users, lastSave, open, durable, wiped>>

\* An exception of open, which leaves the file as it was, or of json.dump,
\* when it has been emptied, is swallowed; what was unsaved stays so.
SaveFails(force) ==
    /\ ~Skipped(force)
    /\ disk' \in {disk, Torn}
    /\ saveFailed' = TRUE
    /\ UNCHANGED <<users, dirty, lastSave, open, dirtySince, durable, wiped>>

Save(force) == SaveSkips(force) \/ SaveSucceeds(force) \/ SaveFails(force)

\* run() starts the loop unless its interval is 0.
LoopWakes == server = "up" /\ StatsInterval > 0 /\ now = nextLoop

\* The statistics loop wakes up and goes back to sleep.
StatsLoop ==
    /\ LoopWakes
    /\ Save(FALSE)
    /\ nextLoop' = now + StatsInterval
    /\ UNCHANGED <<now, slip, server, starts>>

\* The process dies between the emptying of the file and its closing.
CrashInSave ==
    /\ \/ LoopWakes /\ ~Skipped(FALSE)
       \/ server = "stopping"
    /\ disk' = Torn
    /\ server' = "down" /\ open' = NoRelays
    /\ UNCHANGED <<now, slip, starts, memory, history>>

-----------------------------------------------------------------------------
(* Shutdown: stop accepting, cancel every task, save, exit.                 *)

Stop ==
    /\ server = "up"
    /\ server' = "stopping"
    /\ open' \in [Users -> 0..MaxOpen]
    /\ \A u \in Users : open'[u] <= open[u]
    /\ UNCHANGED <<now, slip, starts, memory, disk, history>>

FinalSave ==
    /\ server = "stopping"
    /\ Save(TRUE)
    /\ server' = "saved"
    /\ UNCHANGED <<now, slip, starts, nextLoop>>

Exit ==
    /\ server = "saved"
    /\ server' = "down" /\ open' = NoRelays
    /\ UNCHANGED <<now, slip, starts, memory, disk, history>>

\* The loop's timer fires before time goes on.
Tick ==
    /\ now < MaxTime
    /\ server = "up" /\ StatsInterval > 0 => now < nextLoop
    /\ server \in {"up", "down"}
    /\ now' = now + 1
    /\ UNCHANGED <<slip, server, starts, memory, open, disk, history>>

\* Somebody sets the wall clock.
ClockSteps ==
    /\ slip' \in -ClockSlip..ClockSlip
    /\ UNCHANGED <<now, server, starts, memory, open, disk, history>>

Next ==
    \/ Start \/ Crash \/ CrashInSave
    \/ \E u \in Users : Connect(u) \/ Count(u) \/ Disconnect(u)
    \/ StatsLoop \/ Stop \/ FinalSave \/ Exit
    \/ Tick \/ ClockSteps

Spec == Init /\ [][Next]_vars

-----------------------------------------------------------------------------
(* Properties.                                                              *)

Counters(us) == DOMAIN us \subseteq Users /\ \A u \in DOMAIN us : us[u] \in 0..MaxTraffic

TypeOK ==
    /\ now \in SaveInterval + ClockSlip..MaxTime
    /\ slip \in -ClockSlip..ClockSlip
    /\ server \in {"down", "up", "stopping", "saved"}
    /\ starts \in 0..MaxStarts
    /\ Counters(users)
    /\ dirty \in BOOLEAN /\ lastSave \in 0..now + ClockSlip
    /\ nextLoop \in 0..(MaxTime + StatsInterval)
    /\ open \in [Users -> 0..MaxOpen]
    /\ \A u \in Users : open[u] > 0 => u \in DOMAIN users
    /\ disk.ok \in BOOLEAN /\ Counters(disk.users)
    /\ dirtySince \in 0..now
    /\ saveFailed \in BOOLEAN
    /\ durable \in [Users -> 0..MaxTraffic] /\ wiped \in BOOLEAN

\* The dirty flag tells the truth: while a process runs and the flag is down,
\* what a restart would read is what is in memory - after any mixture of saves,
\* skipped saves, failed saves and crashes.  The one exception is the last save,
\* which is made whether there is anything to save or not, and may fail.
CleanMeansSaved ==
    server # "down" /\ ~dirty =>
        Loaded(disk) = users \/ (server = "saved" /\ ~disk.ok)

\* Where the loop runs and no save fails, traffic is written after the interval
\* of the loop and that of save() at the latest, and what the wall clock was set
\* back meanwhile: saves that are skipped do not put off the next one.
SavedInTime ==
    StatsInterval > 0 /\ server = "up" /\ dirty /\ ~saveFailed
        => now - dirtySince <= SaveInterval + StatsInterval + 2 * ClockSlip

\* The quota holds across crashes, restarts and torn files: a user who had used
\* up his limit when the file was last readable is let in again only by a server
\* that was started while it was torn.
QuotaDurable ==
    [][\A u \in Users :
         Connect(u) /\ Limit[u] > 0 => durable[u] < Limit[u] \/ wiped]_vars

\* What the file says of a user, whenever it can be read, is never less than it
\* said when it could last be read, unless the server was started from a torn
\* file in between.
NeverRollsBack == [][\A u \in Users : durable'[u] >= durable[u] \/ wiped]_vars
=============================================================================
