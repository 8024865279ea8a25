---------------------------- MODULE RealityAuth ----------------------------
(***************************************************************************)
(* REALITY authentication of a ClientHello (core/reality.py): the checks    *)
(* of verify_reality_session_id in the order the code makes them, and the   *)
(* anti-replay cache of _check_replay behind them.                          *)
(*                                                                          *)
(* A session id is a name.  What its 16 sealed bytes say - the client's     *)
(* clock and the short_id - is fixed when the client seals it, so it is a   *)
(* function of the name, chosen in Init.  A hello that carries a session id *)
(* but is not the one it was sealed for fails the AEAD check, whose         *)
(* additional data is the whole hello.                                      *)
(*                                                                          *)
(* The wall clock is a pair: the whole second, which int(time.time())       *)
(* reads, and a fraction, which only the cache's float timestamps see.  It  *)
(* may be stepped back, never more than ClockSlip seconds below its highest *)
(* reading.                                                                 *)
(***************************************************************************)
EXTENDS Integers, Sequences, Expiry

CONSTANTS
    Sids,           \* session ids clients ever seal
    ShortIds,       \* short_id values they may seal in them
    ConfigShortId,  \* cfg["short_id"]
    MaxTimeDiff,    \* cfg["maxTimeDiff"], seconds
    ReplayTtl,      \* cfg["replay_ttl"], seconds
    CacheMax,       \* _REPLAY_CACHE_MAX
    ClockSlip,      \* how far the wall clock may be stepped back, seconds
    MaxSec,         \* bound on the clock, for TLC
    MaxFrac         \* fractions of a second are 0..MaxFrac

ASSUME ShortIdAssumption == ConfigShortId \in ShortIds
ASSUME CacheMaxAssumption == CacheMax \in Nat \ {0}
ASSUME TimeAssumption ==
    /\ MaxTimeDiff \in Nat /\ ReplayTtl \in Nat /\ ClockSlip \in Nat
    /\ MaxSec \in Nat /\ MaxFrac \in Nat

VARIABLES
    hello,    \* what each session id decrypts to: [ts, shortId]
    now,      \* the wall clock
    high,     \* the highest reading of the wall clock so far
    cache,    \* _REPLAY_CACHE, oldest insertion first
    verdict,  \* the last answer of verify_reality_session_id
    accepted, \* history: session ids accepted so far
    usedAt,   \* history: when each accepted session id was last accepted
    reused,   \* history: session ids accepted more than once
    evicted   \* history: session ids pushed out by the capacity limit

vars == <<hello, now, high, cache, verdict, accepted, usedAt, reused, evicted>>
history == <<accepted, usedAt, reused, evicted>>

Time == [sec : 0..MaxSec, frac : 0..MaxFrac]
Hello == [ts : 0..MaxSec, shortId : ShortIds]
Entry == [sid : Sids, at : Time]
Verdict == [sid : Sids, ok : BOOLEAN,
            why : {"unsealed", "short_id", "timestamp", "replay", "ok"}]

-----------------------------------------------------------------------------
\* now - t > age, for an age in whole seconds.
OlderThan(n, t, age) ==
    \/ n.sec - t.sec > age
    \/ n.sec - t.sec = age /\ n.frac > t.frac

\* abs(now - ts) with now = int(time.time())
Diff(s) == IF now.sec >= hello[s].ts THEN now.sec - hello[s].ts
                                     ELSE hello[s].ts - now.sec

\* Mutant: the smaller of the two.
TtlMin(s) == IF Diff(s) < ReplayTtl THEN Diff(s) ELSE ReplayTtl

\* ttl = max(diff, replay_ttl)
Ttl(s) == IF Diff(s) > ReplayTtl THEN Diff(s) ELSE ReplayTtl

\* The purge loop: pop the oldest insertion while now - t > ttl.
Expired(c, ttl) == {i \in 1..Len(c) : OlderThan(now, c[i].at, ttl)}
Purge(c, ttl) == DropExpired(c, Expired(c, ttl))

Cached(c) == {c[i].sid : i \in 1..Len(c)}

Insert(c, s) == Append(c, [sid |-> s, at |-> now])

\* Mutant: the limit is off by one.
TrimLate(c) == IF Len(c) > CacheMax + 1 THEN Tail(c) ELSE c

\* The capacity limit drops the oldest insertion.
Trim(c) == IF Len(c) > CacheMax THEN Tail(c) ELSE c

-----------------------------------------------------------------------------
Init ==
    /\ hello \in [Sids -> Hello]
    /\ now = [sec |-> 0, frac |-> 0]
    /\ high = now
    /\ cache = <<>>
    /\ verdict \in [sid : Sids, ok : {FALSE}, why : {"unsealed"}]
    /\ accepted = {} /\ reused = {} /\ evicted = {}
    /\ usedAt = [s \in Sids |-> now]

\* The wall clock moves on, or is stepped back within the slip.
ClockMoves ==
    \E t \in Time :
        /\ t # now
        /\ ~OlderThan(high, t, ClockSlip)
        /\ now' = t
        /\ high' = IF OlderThan(t, high, 0) THEN t ELSE high
        /\ UNCHANGED <<hello, cache, verdict, history>>

Answer(s, ok, why) == verdict' = [sid |-> s, ok |-> ok, why |-> why]

\* A malformed hello, or one the session id was not sealed for: the key
\* derivation or the AEAD check fails.
RefuseUnsealed(s) ==
    /\ Answer(s, FALSE, "unsealed")
    /\ UNCHANGED <<hello, now, high, cache, history>>

RefuseShortId(s) ==
    /\ hello[s].shortId # ConfigShortId
    /\ Answer(s, FALSE, "short_id")
    /\ UNCHANGED <<hello, now, high, cache, history>>

\* Mutant: the session id is registered before its clock is checked.
RefuseTimestampLate(s) ==
    /\ hello[s].shortId = ConfigShortId
    /\ Diff(s) > MaxTimeDiff
    /\ s \notin Cached(Purge(cache, Ttl(s)))
    /\ cache' = Trim(Insert(Purge(cache, Ttl(s)), s))
    /\ Answer(s, FALSE, "timestamp")
    /\ UNCHANGED <<hello, now, high, history>>

RefuseTimestamp(s) ==
    /\ hello[s].shortId = ConfigShortId
    /\ Diff(s) > MaxTimeDiff
    /\ Answer(s, FALSE, "timestamp")
    /\ UNCHANGED <<hello, now, high, cache, history>>

\* The checks before the cache is consulted.
Admissible(s) ==
    /\ hello[s].shortId = ConfigShortId
    /\ Diff(s) <= MaxTimeDiff

\* Mutant: a repeated session id has its time refreshed where it stands.
RefuseReplayTouching(s) ==
    LET purged == Purge(cache, Ttl(s))
    IN  /\ Admissible(s)
        /\ s \in Cached(purged)
        /\ cache' = [i \in 1..Len(purged) |->
                        IF purged[i].sid = s THEN [sid |-> s, at |-> now]
                                             ELSE purged[i]]
        /\ Answer(s, FALSE, "replay")
        /\ UNCHANGED <<hello, now, high, history>>

\* _check_replay answers True; its purge has been made all the same.
RefuseReplay(s) ==
    /\ Admissible(s)
    /\ s \in Cached(Purge(cache, Ttl(s)))
    /\ cache' = Purge(cache, Ttl(s))
    /\ Answer(s, FALSE, "replay")
    /\ UNCHANGED <<hello, now, high, history>>

\* _check_replay registers the session id, dropping the oldest when full.
Accept(s) ==
    LET purged == Purge(cache, Ttl(s))
        grown  == Insert(purged, s)
    IN  /\ Admissible(s)
        /\ s \notin Cached(purged)
        /\ cache' = Trim(grown)
        /\ Answer(s, TRUE, "ok")
        /\ accepted' = accepted \cup {s}
        /\ reused' = IF s \in accepted THEN reused \cup {s} ELSE reused
        /\ usedAt' = [usedAt EXCEPT ![s] = now]
        /\ evicted' = evicted \cup (Cached(grown) \ Cached(Trim(grown)))
        /\ UNCHANGED <<hello, now, high>>

Verify(s) ==
    \/ RefuseUnsealed(s)
    \/ RefuseShortId(s)
    \/ RefuseTimestamp(s)
    \/ RefuseReplay(s)
    \/ Accept(s)

Next == ClockMoves \/ \E s \in Sids : Verify(s)

Spec == Init /\ [][Next]_vars

-----------------------------------------------------------------------------
(* Properties.                                                              *)

\* Every variable keeps its type, the cache never outgrows its limit, and
\* no session id is in it twice.
TypeOK ==
    /\ hello \in [Sids -> Hello]
    /\ now \in Time /\ high \in Time
    /\ cache \in Seq(Entry)
    /\ Len(cache) <= CacheMax
    /\ \A i, j \in 1..Len(cache) : cache[i].sid = cache[j].sid => i = j
    /\ verdict \in Verdict
    /\ accepted \subseteq Sids /\ reused \subseteq Sids
    /\ evicted \subseteq Sids
    /\ usedAt \in [Sids -> Time]

\* The replay window covers every instant at which one and the same
\* timestamp can pass the clock check, whatever the clock was stepped back.
\* The defaults (300 and 120 seconds) leave a slip of 59 seconds.
TtlCoversWindow == ReplayTtl > 2 * MaxTimeDiff + ClockSlip

\* A session id is accepted a second time only if the capacity limit had
\* pushed it out of the cache: between the floor of the clock check, the
\* float age of the purge and clock steps there is no other gap.
NoReplay == TtlCoversWindow => reused \subseteq evicted

\* An answer "replay" is never given to a client that had not been accepted
\* before: only an accepted hello takes up a cache entry, so a hello refused
\* for its clock can be sent again once the clocks agree.
NoFalseReplay == verdict.why = "replay" => verdict.sid \in accepted

\* Purging only from the front is enough: after a call that got as far as
\* the cache no entry is older than the ttl by more than the clock slip.
BoundedAge ==
    [][\A s \in Sids :
         RefuseReplay(s) \/ Accept(s) =>
             \A i \in 1..Len(cache') :
                 ~OlderThan(now, cache'[i].at, Ttl(s) + ClockSlip)]_vars

\* README.md:28: multi-user means several uuids and several short_ids.  With
\* ShortIds the short_ids of the server and of its users, no hello that is
\* sealed with one of them is refused for its short_id.
OwnShortIdWorks == verdict.why # "short_id"
=============================================================================
