# TLA+ models of the REALITY VPN server

This directory holds TLA+ models of the server in `src/src/reality_vpn`, the
TLC configurations that check them on small instances, and proofs that TLAPS
checks. Paths below are relative to `src/src/reality_vpn` unless they start
with `src/`.

    tlc -workers 2 -config MCRelays.cfg MCRelays.tla   # one run
    tlapm RealityAuthProofs.tla                        # proofs, likewise every *Proofs.tla

`PROJECT.json` lists components, runs, mutants, the correspondence of every
definition with lines of the source, findings, hazards and theorems.

## 1. Inventory

| component | code | state it keeps | operations | model |
|---|---|---|---|---|
| REALITY authentication | `core/reality.py` | `_REPLAY_CACHE`, a process-wide ordered dict of session ids | `verify_reality_session_id`, `_check_replay` | `RealityAuth`, `Expiry` |
| rate limiter | `utils/guard.py` | `attempts`, `banned` | `is_banned`, `record_attempt`, `cleanup` | `RateLimiter`, `BanPolicy`, `Expiry` |
| connection handling | `server/server.py` 221-342, `core/tls13.py` 248-545 | one task per connection, its timers, its stream | accept, read hello, authenticate, forward, finish, read header, admit | `Connection` |
| TCP relay | `server/server.py` 303-342, 683-704 | two tasks and two sockets per admitted connection | `_pipe`, wait, cancel, close | `Relay` |
| UDP relays | `server/server.py` 344-484, 556-681 | UDP sockets per XUDP id; two tasks and a socket | first frame, reader loop; `c2u`, `u2c` | `XudpRelay`, `LegacyUdp` |
| TLS record streams | `core/tls13.py` 103-155, 550-621 | sequence numbers, reader buffer | encrypt, decrypt, `read`, `readexactly` | `SecureReader`, `VisionWriter`, `ByteStream` |
| XTLS-Vision | `server/vision.py` | padding state of each direction | enable, `read`, `write` | `VisionReader`, `VisionWriter` |
| statistics and limits | `utils/stats.py`, `utils/traffic.py`, `server/server.py` 94-197 | counters per user, dirty flag, `stats.json` | count, save, load, check the limit | `TrafficStats` |
| lifecycle | `server/server.py` 94-180, `cli/main.py` | stop flag, tasks | serve, signal, `--once`, stop, last save, `asyncio.run` | `Shutdown` |
| configuration | `cli/config.py`, `cli/commands.py`, `utils/genconf.py`, `cli/main.py` | `config.json` in two directories | load, generate, add and remove users, start, stop | `Admin` |
| log rotation | `utils/log.py` | open file, numbered backups | emit, rotate | `LogRotate` |
| SNI routing | `core/sni_routing.py` | none (a table built at start) | `resolve` | `SniRouting` |
| links, QR codes | `utils/linkgen.py` | none | formatting | no: pure output |

How they interact. `handle_client` asks the limiter, then `wrap_server` reads
the hello and hands it to `_do_handshake`, which asks `verify_reality_session_id`.
A hello that is refused is forwarded, bytes and all, to the mask site
(`_fallback_to_dest`). An accepted client finishes the TLS handshake and sends a
VLESS header; a bad header or an unknown user is reported to the limiter. An
admitted user is entered in the statistics and gets a relay, whose pipes count
his traffic; a UDP command gets an XUDP relay or a legacy one instead. What the client
sends comes through `_SecureReader`, and with Vision through `VisionReader` on top of
it; what is sent to him goes through `VisionWriter` and `_SecureWriter`. The statistics
loop saves the counters and, every fifth time, cleans up the limiter. At the end
`run` cancels every task and saves once more. All of it runs in one asyncio event
loop: two handlers interleave at `await` and nowhere else. The operator's commands are
processes of their own and share only `config.json` with the server.

What is hard to test here: the order in which handlers, timers, clean-up and
cancellation meet; a wall clock that is not monotonic; the edge of the replay
window; what closing and cancelling does to data in flight; what a crash in a
save leaves behind. `PROJECT.json` has each of these as a hazard at its line.

What makes each component correct:

* authentication: no session id is accepted twice within the window; no
  honest client is called a replay; the cache stays bounded and forgets in time;
* limiter: a ban starts after exactly the configured number of attempts, lasts
  as long as configured, and lazy cleaning cannot be observed;
* connections: only clients that have completed the handshake are counted against their
  address, every handshake ends, a ban is not renewed by newcomers;
* TCP relay: what is billed is delivered or its receiver is gone; the end of a
  stream arrives behind all its data; the relay ends and leaves nothing open;
* UDP relays: a datagram is the payload of one frame; the end of one direction ends
  the other; every relay that has begun comes to an end with its sockets closed;
* streams: what the client sends is what the pipe reads, in order and without the
  padding, and what is written the client can read, up to the sizes the code can
  frame; no 16-bit length overflows below them;
* statistics: what the flag calls clean is on disk; nothing stays unsaved for
  longer than the intervals and a step of the clock allow; a used-up limit survives
  crashes, as long as no server starts from a torn file;
* lifecycle: the process ends when it is told to, and nothing is counted after the
  last save;
* configuration: the users on file are those that commands reported;
* log: rotation keeps the newest generations, in order, through crashes;
* routing: the most specific route that applies is taken.

## 2. Modules

| module | stands for | extends or instantiates |
|---|---|---|
| `Expiry` | the loop "while the oldest is too old, pop it" | |
| `RealityAuth` | the checks of a session id and the anti-replay cache | `Expiry` |
| `BanPolicy` | abstract: what the limiter promises | |
| `RateLimiter` | the limiter; implements `BanPolicy` | `Expiry`, `BanPolicy` |
| `Connection` | life of a connection, several of them | `RateLimiter` |
| `Relay` | TCP relay of one connection | |
| `XudpRelay`, `LegacyUdp` | the two UDP relays | |
| `ByteStream` | abstract: bytes arrive in order until the end is told | |
| `SecureReader` | records of the client and the reader that opens them | |
| `VisionReader` | the upward stream with and without Vision; implements `ByteStream` | `SecureReader`, `ByteStream` |
| `VisionWriter` | the downward stream with and without Vision | |
| `TrafficStats` | counters, file, limit, crashes | |
| `Shutdown` | life of the process, its tasks and their cancellation | |
| `Admin` | `config.json`, the commands, starts of the server | |
| `LogRotate` | the log file and its backups | |
| `SniRouting` | the choice of a destination | |
| `Relays` | the relay that a connection starts | `Relay`, `XudpRelay`, `LegacyUdp` |
| `Streams` | both directions of a connection's stream | `VisionReader`, `VisionWriter` |
| `Operations` | what happens around the connections | `Shutdown`, `LogRotate`, `Admin`, `SniRouting` |
| `ExpiryLemmas`, `...Proofs` | theorems, section 4 | the module of the name |
| `MC...` | model values, symmetry sets, sizes, for one run or several | the module of the name |

Definitions whose comment begins with "Mutant" are not part of any
specification. Each is a plausible bug in one operation; put in the place of
that operation it makes a property fail, which shows that the property
depends on the code it is about.

### RealityAuth

One action per answer of `verify_reality_session_id`, in the order of its
checks: `RefuseUnsealed` (lengths, key derivation, AEAD), `RefuseShortId`,
`RefuseTimestamp`, then `RefuseReplay` or `Accept`, which are the two answers of
`_check_replay` with its purge. The call has no `await`, so it is one step.
`cache` is `_REPLAY_CACHE` in insertion order. A session id stands for its
sealed content (`hello`, chosen freely at the start), because the AEAD check
binds it to one hello.

The clock is a pair (second, fraction): the timestamp check reads `int(time.time())`
and the purge compares floats, and the boundary of the replay window depends on that
difference. `ClockMoves` sets the clock to any instant, but not by more than `ClockSlip` seconds
below its highest reading: an NTP correction. `accepted`, `usedAt`, `reused` and
`evicted` are history.

### RateLimiter and BanPolicy

`attempts` and `banned` are functions whose domain is the set of keys present in
the dictionary. Every method is one action, `record_attempt` three (private
address, counted, bans). `BanPolicy` states the promise without any laziness:
its clock forgets attempts and lifts bans. The refinement maps the attempts to
those still within the window and the ban to those still running. The answer of
each call is part of the state of both, so the refinement says that callers
cannot tell the two apart. The clock does not go back here.

### Connection

Every action is the code between two awaits. `phase` says what a handler waits
for:

    new -> hello -> finish -> header -> tcp | udp -> done
              \-> dial -> forward -> done             (under the handshake timer)
              \-> raw dial -> raw forward -> done     (no timer)

`deadline` is the timer of the `wait_for` it is in. `Leave` is a return that does
not close the writer, `Close` one that does; the code has both and the model
keeps them apart. The limiter's state is the variables of `RateLimiter`,
instantiated. Whether a session id verifies, and is still in the replay cache, is
`RealityAuth`'s business: here any hello may be accepted (`HelloAccepted`) or not. `finished`
is history: the connections whose client's Finished verified. Clients and hosts leave
whenever they like. The model assumes the configuration with TLS; `security = "none"`, which skips
`wrap_server`, is left out.

### Relay

`PipeForwards` reads, bills and writes one chunk, since there is no `await` between them;
`PipeDrains` is the following `drain`. The other pipe actions are the ways out of
the loop, each with the `finally` that closes the destination (`Finally`). In
`PipeWriteFails` the write itself raises, on a chunk that the client's writer cannot frame:
that chunk has been billed, and nobody catches the exception. The handler waits
for the first pipe, cancels the other, awaits it, closes both writers, and waits
until they are closed. Two details of asyncio matter and are modelled: on Python
3.10 and 3.11 `wait_for` may return the data and lose a cancellation that
arrives when the read has just completed; and `await t` re-raises what the pipe
raised, which skips the closing. The network (`PeerSends`, `PeerReads`,
`PeerHalfCloses`, `PeerGoes`, `SocketCloses`) is external code, modelled from how
the server uses the streams.

### XudpRelay

A frame is its kind, its payload's length, and what its first two bytes behind the
address read as: that is all `_parse_xudp_data` goes by when it guesses whether the
frame opens a session or continues one. `Parsed` is the guess, `Meant` the client's
intention. The phases are the awaits of `_handle_udp`: resolve, send, receive for at
most two seconds, drain. `LoopBreaks` is what the reader loop does with any further
frame: it calls `_read_xudp_from_reader`, which is defined nowhere, and ends.

### LegacyUdp

The stream is a sequence of tokens, the length and the payload of each frame; either
may be late, and a payload that is later than five seconds ends `c2u`. The handler
waits for the first task to set `stop`, cancels both, does not await them, and closes
the socket: `C2uCancelled` and `U2cCancelled` come later, or never, since `wait_for`
may lose a cancellation.

### SecureReader, VisionReader, VisionWriter and ByteStream

`SecureReader`: the client seals its bytes in records, cut anywhere, among records
that carry none of them (empty, handshake, change_cipher_spec, alert). A record opens if it was
sealed with the number the reader has come to. `HeaderTakesRecord` is
`readexactly`, which skips what is not application data; `ReadData`, `ReadNothing` and
`ReadEnds` are `read`, which takes it for the end, but a handshake record for data. `VisionReader` puts
`enable_vision_after_header` and `VisionReader.read` on top: a byte is a token, a
block is a head, content and padding. `Turn` is one turn of the loop over the buffer and
`Parse` the whole loop, a recursive function that takes as many turns as there are tokens:
each turn that does anything takes one. `Framed` is the grammar of what the client of a connection with Vision may
send: blocks behind the user's id, the last of them padded or not, or data without the id. It
may send records of every kind among them. `ByteStream` is the promise to the pipe; the
refinement maps the bytes sent to the content of the client's blocks, and to `spoiled`
(`Spoiled`) the three cases in which the code itself breaks the promise: the plaintext of a handshake
record is returned as data (`Noise`), the padding of the last block is passed on (`TailPad`),
and 16 bytes that are not the user's id are dropped in its place (`Lost`). After any of them
`ByteStream` promises nothing more. `VisionWriter` has the sizes of the code, since its lengths are
16 bits wide: `Writes` is one `write` down to the record, `Head5` the header of a
block, and a length that does not fit raises. `SaidDirect` is what a client that reads the
wire has been told of the switch to raw data, and `Reads` what such a client needs of a record,
the 2^14 bytes of TLS 1.3 included.

### TrafficStats

There are two clocks, as in the code: the loop sleeps by the event loop's (`now`), which does
not go back, and `save` reads the wall clock (`Wall`), which may at any time be set to anything within
`ClockSlip` of the first (`ClockSteps`). `stats_interval` may be 0, and then there is no
loop.

`disk` is `stats.json`: readable with counters, or not readable (missing,
empty, torn); `load` treats all of these alike. `SaveFails` is a
swallowed exception, of `open` (the file stays as it was) or after `open(..., "w")`
has emptied it; `CrashInSave` is the end of the process after that.
A save has no `await`, so only a crash comes in between. `Count` has no limit
check, as in the code: the limit is compared at `Connect` only. `durable` is history: what the
file said when it was last readable, a tear notwithstanding; and `wiped` tells that the present
server started from a torn file that had once said something.

### Shutdown

`main` is where `run` is, `handler` and `pipe` where each task is. A cancellation is
put into `cancelled` by `Stop`, by the end of a relay and by `asyncio.run` (`RunReturns`), and is
delivered by `HandlerCancelled`, `PipeCancelled`, swallowed by code that catches it
(`HandlerSwallowsCancel`), or lost by `wait_for` (`HandlerLosesCancel`, `PipeLosesCancel`).
`--once` sets `one_shot` (`cli/main.py:147`), and `DoneAfter` is the `finally` of
`handle_client`.

### Admin

A command is a process that reads the file under `PROJECT_ROOT`, changes what it has
read, empties the file in the working directory, and writes it: four steps with
anything in between, its death included. The server reads, or generates, its own at
start; what it `asked` (noconfig) and how it was launched decide which. `told` is
what commands have reported.

### LogRotate

One action for each call of the file system in `_rotate_if_needed`. `Fails` is an
exception in any of them, which the code swallows, with the file already closed;
`Crash` the end of the process. A file is the number of its generation.

### SniRouting

`Resolve` follows the loop of `resolve` over the wildcards; `Meant` is the
declarative reading, the most specific of the routes that apply. Names are sequences
of labels. `Tables` is the set of tables that a configuration may have; the run gives it
the small ones, the theorem holds for any.

## 3. Runs

Eight runs pass, four show a disagreement between the code and its documents
(section 5).

| run | instance | shows |
|---|---|---|
| `replay` | 3 session ids, cache of 2, tolerance 1, ttl 4, clock slip 1, 6 seconds | `TypeOK`, `NoReplay`, `NoFalseReplay`, `BoundedAge` |
| `short_ids` | the server's short id and another | finding: `OwnShortIdWorks` fails |
| `limiter` | 1 private and 2 public addresses, 2 attempts, window 2, ban 2, 6 ticks | `TypeOK`, `BanStands`, `ImplementsPolicy` |
| `handshake` | 2 connections, public or local, 4 ticks | `HandshakeBounded` |
| `connections` | 3 connections, each of a public or a local address, 1 attempt allowed, 4 ticks | `TypeOK`, `OnlyClientsAreCounted`, `BanQuenches` |
| `forward` | 1 connection | finding: `ForwardTransparent` fails |
| `relay` | TCP: 1 chunk up, 2 down, idle timer 1, buffer of 1 below the mark; XUDP: 2 frames of every kind, 2 replies, 2 ticks of waiting; legacy: 2 frames, 2 replies, payload timer 1, idle timer 2 | `AllTypesOK`, `BillingExact`, `DoneMeansStopped`, `EofDelivered`, `TcpEnds`, `SentAsMeant`, `RelayEnds`, `FramesIntact`, `StopsBoth` |
| `relay_idle` | as `relay` | finding: `IdleMeansIdle` fails |
| `xudp_frames` | as `relay`, one kind of frame | finding: `EveryFrameServed` fails |
| `streams` | up: scripts of up to two blocks and raw data, one block with a padded end, one script without the user's id, header of two reads, reads of at most 2 bytes; down: 2 chunks of 17 sizes | `BothTypeOK`, `SequenceHolds`, `EofMeansAll`, `NothingHeldBack`, `ImplementsByteStream`, `ClientReads`, `SafeChunks` |
| `operations` | 2 connections with 1 chunk; 3 backups, 7 generations, 2 faults, 3 starts; 3 users, 2 processes, 6 commands or starts; every table of up to 2 routes | `AllTypesOK`, `SavedAtLast`, `StopsCleanly`, `NewestKept`, `UsersAsTold`, `AddedIsServed`, `MostSpecific` |
| `traffic` | a user with limit 1 and one without, traffic up to 2, loop every tick, saves at least 2 ticks apart, wall clock off by up to 1, 7 ticks, 2 starts | `TypeOK`, `CleanMeansSaved`, `SavedInTime`, `QuotaDurable`, `NeverRollsBack` |

**Several parts in one run.** `Relays`, `Streams` and `Operations` put components
side by side that share no state. A variable (`kind`, `side`, `part`)
chooses at the start which of them moves, and the others keep their initial state. So
the states are the sum of the parts' states and not their product, and each property
is decided by the part it is about. What does interact is composed for good:
`Connection` with the limiter, the Vision reader with the record reader.

**Why the bounds are enough.**

* `replay`: the clock runs to `MaxSec` = 6, longer than the ttl, so entries do
  expire and every timestamp is tried on both sides of its window. A ttl
  of 4 = 2 * 1 + 1 + 1 is the smallest that satisfies `TtlCoversWindow`. A cache of 2 for
  3 ids evicts and purges. The run counts whole seconds (`MaxFrac` = 0); the theorems
  hold for every number of fractions.
* `limiter`: a ban starts, ends and starts again, and attempts fall out of the window
  one by one.
* `connections`: two connections can get their address banned while the third is in any
  phase, is accepted before the ban, or is turned away during it; and with fewer than two
  that completed the handshake there must be no ban.
* `relay`, TCP: `drain` blocks when the buffer is above the mark, so two chunks down
  with a mark of 1 give a pipe that is blocked, and a pipe that reads the end of the stream
  while a chunk is still in the buffer. XUDP: the guess of the parser turns
  on the length of an id, 8 (`GidLen`), so the payloads are 0, 1, 7, 8 and 30 bytes, and the
  heads are such that the length they are mistaken for is right, wrong or out of reach. Legacy: a
  payload that comes too late needs a second frame behind it to be taken for.
* `streams`: what matters upwards is where a record ends relative to heads, contents and
  paddings; records are cut anywhere, so blocks of up to 2 bytes have every such
  place. Downwards the sizes stand on both sides of every limit in the code: 899/900
  (the long padding), 16123/16124 and 16384/16385 (a record of TLS 1.3, with the
  largest padding and without Vision), 65257/65258 and 65513/65514 (a record's length with the
  largest and with no padding), 65518/65519 (the same without Vision), 65535/65536
  (the length of a block's content).
* `operations`: 7 generations over 3 backups fill every slot and rotate past
  them, with two broken rotations in between; three users and two processes let commands
  follow and interrupt each other; routes of up to three labels contain every way in which
  two routes can overlap.
* `traffic`: a save is skipped by each of its two early returns, or because the wall clock was
  set back since the last one, fails, is interrupted, and a second process reads what the first
  one left.

**What the properties leave out**, each because the code does otherwise there:

* `NoReplay` excepts ids that the full cache had dropped (`evicted`);
* `SavedAtLast` and `StopsCleanly` except a task that lost its cancellation
  (`lost`, `Stuck`);
* `SentAsMeant` excepts two kinds of frames (`Ambiguous`, `ShortKeep`);
* `BillingExact` except the one chunk of a write that raised (`Unwritten`);
* `EofDelivered` speaks of the end that `read` reports, which for the client's readers is also an
  alert, an empty record or a connection lost inside a record;
* `ImplementsByteStream` ends at what the code itself spoils (`Spoiled`): a
  handshake record among the data, a last block that is padded, a first block without the user's id;
* `EofMeansAll` is about connections without Vision and a client that ends with a FIN, and allows the
  plaintext of handshake records in between;
* `NothingHeldBack` is about reads: what was left over at the switch from header to Vision waits for
  the next one;
* `ClientReads` and `SafeChunks` end at the sizes beyond which the code cannot be read
  (`ReadableChunk`) or fails;
* `QuotaDurable` and `NeverRollsBack` except a server that started from a torn file (`wiped`);
* `SavedInTime` is about a positive `stats_interval` and saves that succeed, and allows for twice
  the slip of the wall clock;
* `CleanMeansSaved` except the last save, which is made also when nothing is dirty and may fail;
* `UsersAsTold` assumes commands that do not overlap (`Alone`) and are started in the project's
  directory (`SameDir`);
* `MostSpecific` assumes keys without capitals.

Section 5 says what happens in these cases.

**Deadlock.** Where `CHECK_DEADLOCK FALSE` is given, the system does stop: connections
end, a relay is over, a stream has been read, the server is down for good. The limiter and the
authentication can always be asked again, and deadlock is checked.

**Fairness.** Nothing makes a peer send or answer. What is assumed:

* `Connection`: timers fire (weak fairness of `TimesOut` and of time);
* `Relay`: the event loop runs a task that is ready (weak fairness of the steps of each pipe
  and of the handler), timers fire, a closing socket is closed when it is
  flushed, and a peer that is owed data reads it at last or its connection is lost. The last
  is an assumption about the network that the code does not enforce: a peer that
  stays connected and never reads stops `drain`, which has no timer;
* `XudpRelay`, `LegacyUdp`: the same, and that the resolver answers (it has a timeout of its
  own). The idle timer of the legacy relay is not assumed to fire: the end of one
  direction ends the other without it;
* `Shutdown`: the main task moves, a cancellation is delivered, handshake and pipe
  timers fire. No timer covers the VLESS header, hence no fairness there.

The details of asyncio (a cancellation that `wait_for` loses, what `asyncio.run`
cancels at the end) are those of Python 3.10 and 3.11; `src/deploy/Dockerfile` builds
on `python:3.11-slim`. The tests also run on 3.12 (`src/.github/workflows/test.yml:10`), where
`wait_for` does not lose a cancellation any more, so that the relays do less than the models allow.
But leaving `async with server` (`server/server.py:149`) also waits for the open connections
there, and one that nothing closes keeps `run` from getting to the last save: `Shutdown` and
`StopsCleanly` do not speak of 3.12.

## 4. Proofs

TLAPS checks these theorems for every value of the constants that satisfies the named
assumptions. The run of the same property checks it on its small instance. Each type
invariant and each safety property that a passing run checks has a theorem.

| module | theorems | assumptions |
|---|---|---|
| `ExpiryLemmas` | (lemmas on the queue) | |
| `RealityAuthProofs` | `TypeCorrect`, `ReplayNeedsEviction` (`NoReplay`), `ReplayAnswersAreTrue` (`NoFalseReplay`), `AgeIsBounded` (`BoundedAge`) | `ShortIdAssumption`, `CacheMaxAssumption`, `TimeAssumption` |
| `RateLimiterProofs` | `TypeCorrect`, `BansStand` (`BanStands`), `Refinement` (`ImplementsPolicy`) | `PrivateAssumption`, `LimiterAssumption` |
| `ConnectionProofs` | `TypeCorrect`, `ClientsCounted` (`OnlyClientsAreCounted`), `Quenched` (`BanQuenches`), `LimiterRuns` | `ConnectionAssumption` |
| `TrafficStatsProofs` | `TypeCorrect`, `CleanFlag` (`CleanMeansSaved`), `SavesInTime` (`SavedInTime`), `QuotaUntilTornStart` (`QuotaDurable`), `GrowsUntilTornStart` (`NeverRollsBack`) | `StatsAssumption` |
| `RelaysProofs` | `TypeCorrect` (`AllTypesOK`), `Billing` (`BillingExact`), `NothingLeftOpen` (`DoneMeansStopped`), `DatagramIsMeant` (`SentAsMeant`), `DatagramIsFrame` (`FramesIntact`) | `RelayAssumption`, `XudpAssumption`, `LegacyAssumption` |
| `StreamsProofs` | `TypeCorrect` (`BothTypeOK`), `CiphersInStep` (`SequenceHolds`), `NothingLost` (`EofMeansAll`), `PassedOnAtOnce` (`NothingHeldBack`), `BytesInOrder` (`ImplementsByteStream`), `Readable` (`ClientReads`), `Writes16Bits` (`SafeChunks`) | `ReaderAssumption`, `WriterAssumption` |
| `OperationsProofs` | `TypeCorrect` (`AllTypesOK`), `SaveIsLast` (`SavedAtLast`), `NewestAreKept` (`NewestKept`), `UsersAreAsTold` (`UsersAsTold`), `AddedAreServed` (`AddedIsServed`), `MostSpecificIsTaken` (`MostSpecific`) | `ShutdownAssumption`, `BackupAssumption`, `AdminAssumption`, `RoutesAssumption` |

Two theorems have hypotheses besides: `UsersAreAsTold` and `AddedAreServed` hold if commands wait
for each other (`Alone`) and use one directory (`SameDir`), which the run has as its values of
these constants. That a star is a string, which the provers do not know of themselves, is part
of `RoutesAssumption`. What is assumed of the client of Vision is in `ReaderAssumption`, `Framed` above
all: which tokens may follow which, for scripts of any length.

Where a module puts parts side by side, its invariant is the conjunction of theirs; the steps of
one part leave the variables of the others alone, and with them their invariants.

**RealityAuth.** `NoReplay` is not inductive. The inductive invariant `IInv` adds

* `ClockInv`: the clock is never ahead of its highest reading, nor further below
  it than the slip;
* `InTolerance`: an accepted session id was timely when it was last accepted;
* `Remembered`: an accepted session id that was never evicted is still in the
  cache, with the time of its acceptance, or by the highest reading of the clock
  that time is longer ago than the ttl;
* `CachedAccepted`: what is in the cache has been accepted.

The argument of the step `Accept`: suppose the id was accepted before, at time
`t`, and never evicted. Its timestamp was within `MaxTimeDiff` of `t` and is
within `MaxTimeDiff` of now, so now is at most `2 * MaxTimeDiff` seconds (and a
fraction) after `t`, and the highest reading at most `ClockSlip` further. That is
less than the ttl, so its entry is still in the cache, and the purge, which
measures by the present clock, does not reach it: the answer would have been
"replay". `ExpiryLemmas` supplies what the purge does to a queue, whatever its
length: a suffix is kept, its first entry is live, all that was dropped was
expired. With the defaults (`replay_ttl` 300, `maxTimeDiff` 120) the condition
`TtlCoversWindow` leaves room for clock steps of up to 59 seconds.

`BoundedAge` is about purging from the front alone, with a clock that may
go back, so that the queue is not in the order of its times. It is nearly:
an entry is younger than one behind it by the slip at most (`NearlyInOrder`). The first
entry kept is within the ttl, so all behind it are within the ttl and the slip.

**RateLimiter.** `TypeOK` is inductive as it stands: the popleft loop keeps a suffix of an
ordered window, and an attempt is appended with the present time. That a running ban is never
shortened rests on it: a new ban ends `ban_time` from now, and no ban on record
ends later than that.

The refinement of `BanPolicy` maps the strikes of an address to those of its recorded attempts that
are within the window, and its ban to the one on record while that runs. Since
the window is ordered, the old attempts are a prefix (`OldIsPrefix`), and to purge now and again
later is to purge later (`PurgedTwice`). So the clean-ups of the code map to
stutters, and a tick of the clock, which changes nothing in the code's dictionaries, maps to the
policy's forgetting.

**Connection.** The inductive invariant says that a handler that waits for a header has seen
a Finished that verifies (`PastHello`), and that a connection that is inside while its address
is banned was accepted before the ban began (`InBeforeBan`), which holds since a banned address is
turned away at accept and a new ban begins now (`Times`). `BanQuenches` follows.

`OnlyClientsAreCounted` compares the length of an address's deque with the number of its connections
that are over and had completed the handshake (`Ended`). Only `HeaderBad` and `UnknownUser` report
to the limiter; each adds one attempt at most, the purge only takes some away, and the
connection itself, which is over with that step, joins `Ended` (`RecordCounts`). All other steps leave
the deques as they are or shorten them, and `Ended` never shrinks (`OthersDoNotCount`, `EndedGrows`).

`LimiterRuns`: whatever the connections do, the limiter inside makes a step of `RateLimiter` or none,
so the limiter's type invariant need not be proved again. The other half of `TypeOK` is about the
timers (`TimersInv`): none is overdue, and when a hello's is set there is still time for that of
the handshake behind it.

**TrafficStats.** `FileBehind`: a server that was not started from a torn file has in memory
whatever the file said when it was last readable, or more. With `DurableIsFile` (the history
variable is the file, when that can be read) a counter read after a crash is the one last written,
so a limit that was used up stays so. A torn file does not change `durable`; only a start from one
lifts the promise, until the next save that succeeds (`wiped`). `SavedInTime` needs to
know when the next save will be tried: by the wall clock of that time, what is unsaved is younger
than the last save but for the slip, and at a wake-up that is skipped the wall clock is less than
an interval past the last save; so the next wake-up finds nothing that has waited for longer than both
intervals and the slip twice, once for the clock of the last save and once for that of the
skipped one (`InTime`).

**Relay** (`TcpInv`). `Account`: in each direction what was taken was billed, and until the connection to
the destination is lost it is delivered or in the buffer, but for the chunk whose write raised. There is one
such chunk at most, since the pipe ends with it. `Buffers` bounds the buffer by the mark. `Stopped`:
a pipe that has ended has closed its destination, and the handler past its wait has
waited for every pipe that had not ended.

**XudpRelay** (`XudpInv`). At most one datagram is sent, and it is the first frame as `Parsed` reads
it. That `Parsed` is `Meant`, but for the two kinds of frames that `SentAsMeant` names, is a
calculation over all lengths.

**LegacyUdp** (`LegacyInv`). What has been taken off the stream and what is still in it are
together the alternation of lengths and payloads that the client sent (`InputInOrder`), and where
`c2u` stands between them is told by the number of datagrams (`UpInOrder`): twice as many tokens, or one
more when it waits for a payload.

**The streams.** Downwards `WriterInv` is `ClientReads`, `SafeChunks` and the types, with the link
between `direct_copy` and what has been written: it is set if and only if a block that says so has been
written, unless that block did not fit, after which nothing is written. A chunk of at most
`ReadableChunk` bytes becomes a record of at most 2^14, with the head and the largest padding that
Vision adds to a long content (`RecordsInStep`), and always fits.

Upwards the invariant is `AllInv`, of four parts: the types (`UpTypes`); the numbers on the wire,
one after the other from the reader's to the client's own (`InStep`); the header is read up to the
end of one of its parts (`HeaderInv`); and where the bytes are (`DataInv`). There is a place `p` in the
client's script such that the records on the wire, cut anywhere and mixed with records without data,
carry the script from `p` on (`CutFrom`), and what was taken before, in the buffer or passed on, is the
script up to `p`, with the plaintext of handshake records in between (`Arrived`). With Vision the
parser has in turn taken the script up to a place `k`, has put out what it passes on of that (`Passed`), and
holds the rest up to `p` (`Stands`); the grammar says what follows at `k`: the
rest of a content, of a padding, a head or raw data (`Place`). Each kind of `Turn` moves `k` on
and keeps `Stands`. That holds until the parser is given a handshake record's plaintext
(`NoisePassed`), behind which nothing is known of where it stands; what is known then is that a parser
that passes data on has nothing in its buffer (`Still`). After as many turns as there are tokens
the loop can go no further, whatever the tokens are (`Settled`): that is `NothingHeldBack`. And since
nothing moves back, and what is passed on is the content of the script as long as the stream is
not `Spoiled`, every step maps to a step of `ByteStream`, the one that spoils it to `Spoil`.

`Without` and `Parse` are recursive functions. What they compute for every length is proved with the
lemma `Induction`, which is about a set of numbers and so needs no operator as a parameter. The
proof of the read from the record buffer failed at first because the model counted what `read(n)`
returns as `n` bytes also when there were fewer; `Taken` is the correction.

**Shutdown** (`LifeInv`). `AllCancelled`: after `Stop`, as long as no cancellation was lost, every pipe that runs
and every handler that could start one has its cancellation before it. So the chunk that
would be counted after the last save is never read.

**LogRotate** (`LogInv`). The backups are in the order of their ages at every step of a rotation
(`InOrder`), and behind the first turn of the loop the slot it renames
into is empty (`LogPhase`). `Aged` is what the bound on
lost generations rests on: a backup is at least as many generations old as its number says, less one for each
rotation that was broken off; what is removed from the last slot is therefore old enough, and it is
older than all that is kept (`OldGone`, `GoneFirst`).

**Admin** (`AdminInv`). `Orderly`: with commands one at a time in one directory, one of them at most holds
users it has read, and they are those that were reported, with its own change; the file is missing only
as long as no user was reported, and a start of the server that generates it does so with none.

**SniRouting** (`RoutesInv`). A connection that was answered went where `Resolve` sends its name. That
this is `Meant` is the argument about suffixes: the first cut of the loop at which a wildcard is found
leaves the longest suffix.

Only model-checked: what needs fairness (`HandshakeBounded`, `EofDelivered`, `TcpEnds`,
`RelayEnds`, `StopsBoth`, `StopsCleanly`), for which the prover has no rules. The four
properties of section 5 that have a run are false of the code, and TLC shows counterexamples.

## 5. Findings

With a run that shows it:

* The short ids of users are never compared (`core/reality.py:137` against
  `src/README.md:28`; run `short_ids`).
* The fallback of a TLS client is cut by the handshake timer (`core/tls13.py:336`
  against `src/README.md:139`; run `forward`).
* The idle timeout is one of each direction, not of the connection
  (`server/server.py:688` against `src/README.md:188`; run `relay_idle`).
* Only the first frame of an XUDP stream is served: the loop behind it calls a method that is
  defined nowhere (`server/server.py:418` against the docstring at 346-350; run `xudp_frames`).

Met while modelling, without a run of their own:

* A session id is not unique within the ttl once the cache is full
  (`core/reality.py:95` against the comment at line 151): `NoReplay` excepts it.
* The plaintext of a handshake record of the inner connection, a KeyUpdate for instance, is returned
  as data and goes to the remote host (`core/tls13.py:591-594`), and into the parser with Vision.
* The padding of the last block, which ends the blocks or switches to raw data, is handed on as data
  (`server/vision.py:95-99` against `src/README.md:147`), although the server's own writer pads such
  blocks. A first block without the user's id is taken for raw data, with its first 16
  bytes dropped (`vision.py:73-81`).
* What is left over in the record reader at the switch from header to
  Vision waits for the next read (`vision.py:48`), and is lost if the client ends before; a
  record of nothing but padding reads as the end of the stream (`vision.py:114`). The code that makes
  the first long block DIRECT at once (`vision.py:141`) is never reached: the two bytes of the
  answer's header have always gone out before.
* A chunk too long for a TLS record is not split (`core/tls13.py:602`), and a pipe reads up to 65536
  bytes: above 2^14 bytes the record is one that TLS 1.3 has its receiver refuse, and beyond
  the sizes in `SafeChunks` the length overflows and the pipe fails, with the chunk billed.
* When the wall clock is set back, `save` skips until it has caught up with the last save
  (`utils/stats.py:201-202`): traffic stays unsaved for as long as the step was.
* A server that starts from a torn `stats.json` starts with empty quotas (`utils/stats.py:196-198`,
  212).
* An XUDP frame that opens a session is taken for a keep frame, or a short keep frame refused,
  where their bytes look alike (`server/server.py:657`, 664).
* After a log rotation that fails the file stays closed, and nothing more is written to it
  until a restart (`utils/log.py:85`).
* The migration of a single-user configuration is never reached (`cli/commands.py:158`;
  `cli/config.py:26`, 42).
* Two commands that overlap lose an update, and commands read the file of `PROJECT_ROOT` but
  write that of the working directory (`cli/config.py:33`, `cli/commands.py:179`).
* `stop` looks for "main.py server" among the processes and so misses a server
  started otherwise (`cli/commands.py:108`).
* A route whose key has capitals never applies, since only the client's name is
  lowered (`core/sni_routing.py:32`).
* `link` cannot run: `cli/main.py:105` passes an argument that `cmd_link` does not take.

## 6. What is not modelled

Left out for good: the cryptography (key exchange, certificates, AEAD: a sealed
value is a name that only its owner can make), wording and layout of output, links and QR
codes, the example client and the deployment files, `security = "none"`, and what
nothing calls: the global counters (`utils/stats.py` 72-102),
`VisionReader.readexactly`, `split_dest`.

Known and modelled but not stated as a property, because no document promises
otherwise: handlers that return without closing their stream, the header phase
without a timer, a peer that stays and never reads and so holds its relay, the limit that is
checked at connect only, a half-close that ends the other direction.

What could be added: abstract specifications of the TCP relay (two bounded channels with an
account) and of the user file (a set that commands change one at a time) with refinements of
`Relay` and `Admin`; the reply of `_handle_udp` as frames of their own; `Shutdown` for the asyncio
of Python 3.12; and larger instances, such as fractions of a second in `replay`, where the run counts
whole seconds and the edge of the window rests on the theorem.
