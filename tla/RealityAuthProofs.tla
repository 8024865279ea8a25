------------------------- MODULE RealityAuthProofs -------------------------
(***************************************************************************)
(* Proofs about RealityAuth: its types, and that the anti-replay cache has  *)
(* no gap but its capacity.                                                 *)
(***************************************************************************)
EXTENDS RealityAuth, ExpiryLemmas

\* The clock is never ahead of its highest reading, nor further behind it
\* than the slip.
ClockInv ==
    /\ ~OlderThan(now, high, 0)
    /\ ~OlderThan(high, now, ClockSlip)

\* An accepted hello was within the tolerance when it was accepted.
InTolerance ==
    \A s \in accepted :
        /\ usedAt[s].sec - hello[s].ts <= MaxTimeDiff
        /\ hello[s].ts - usedAt[s].sec <= MaxTimeDiff

\* An accepted session id that the capacity limit has not pushed out is in
\* the cache with the time of its acceptance, or has outlived the ttl.
Remembered ==
    \A s \in accepted \ evicted :
        \/ \E i \in 1..Len(cache) : cache[i] = [sid |-> s, at |-> usedAt[s]]
        \/ OlderThan(high, usedAt[s], ReplayTtl)

\* Only accepted session ids are cached.
CachedAccepted == Cached(cache) \subseteq accepted

IInv == TypeOK /\ ClockInv /\ InTolerance /\ Remembered /\ CachedAccepted

-----------------------------------------------------------------------------
\* The purge leaves a well-formed cache, made of entries it had, and an
\* entry it drops is older than the ttl.
LEMMA PurgeProperties ==
    ASSUME TypeOK, NEW ttl \in Nat
    PROVE  /\ Purge(cache, ttl) \in Seq(Entry)
           /\ Len(Purge(cache, ttl)) <= CacheMax
           /\ \A i, j \in 1..Len(Purge(cache, ttl)) :
                Purge(cache, ttl)[i].sid = Purge(cache, ttl)[j].sid => i = j
           /\ Cached(Purge(cache, ttl)) \subseteq Cached(cache)
           /\ \A i \in 1..Len(cache) :
                \/ \E j \in 1..Len(Purge(cache, ttl)) :
                      Purge(cache, ttl)[j] = cache[i]
                \/ OlderThan(now, cache[i].at, ttl)
<1> DEFINE p == Purge(cache, ttl)
<1>1. cache \in Seq(Entry) /\ Len(cache) \in Nat /\ Len(cache) <= CacheMax
  BY LenProperties DEF TypeOK
<1>2. Expired(cache, ttl) \in SUBSET (1..Len(cache))
  BY DEF Expired
<1>3. PICK d \in 0..Len(cache) :
          /\ p \in Seq(Entry)
          /\ Len(p) = Len(cache) - d
          /\ \A i \in 1..(Len(cache) - d) : p[i] = cache[i + d]
          /\ 1..d \subseteq Expired(cache, ttl)
          /\ d + 1 \notin Expired(cache, ttl)
  BY <1>1, <1>2, DropExpiredProperties DEF Purge
<1> HIDE DEF p
<1>4. Len(p) <= CacheMax
  BY <1>1, <1>3, CacheMaxAssumption
<1>5. \A i, j \in 1..Len(p) : p[i].sid = p[j].sid => i = j
  BY <1>1, <1>3 DEF TypeOK
<1>6. Cached(p) \subseteq Cached(cache)
  BY <1>1, <1>3 DEF Cached
<1>7. ASSUME NEW i \in 1..Len(cache)
      PROVE  \/ \E j \in 1..Len(p) : p[j] = cache[i]
             \/ OlderThan(now, cache[i].at, ttl)
  <2>1. CASE i <= d
    <3>1. i \in Expired(cache, ttl)
      BY <1>1, <1>3, <2>1
    <3> QED BY <3>1 DEF Expired
  <2>2. CASE i > d
    <3>1. i - d \in 1..Len(p) /\ p[i - d] = cache[i]
      BY <1>1, <1>3, <2>2
    <3> QED BY <3>1
  <2> QED BY <1>1, <2>1, <2>2
<1> QED BY <1>3, <1>4, <1>5, <1>6, <1>7 DEF p

\* Registering a session id the purged cache does not hold keeps the cache
\* well formed; what is lost on the way is reported as evicted.
LEMMA RegisterProperties ==
    ASSUME TypeOK, NEW s \in Sids, NEW p \in Seq(Entry),
           Len(p) <= CacheMax, s \notin Cached(p),
           \A i, j \in 1..Len(p) : p[i].sid = p[j].sid => i = j
    PROVE  /\ Trim(Insert(p, s)) \in Seq(Entry)
           /\ Len(Trim(Insert(p, s))) <= CacheMax
           /\ \A i, j \in 1..Len(Trim(Insert(p, s))) :
                Trim(Insert(p, s))[i].sid = Trim(Insert(p, s))[j].sid => i = j
           /\ Cached(Trim(Insert(p, s))) \subseteq Cached(p) \cup {s}
           /\ \E j \in 1..Len(Trim(Insert(p, s))) :
                Trim(Insert(p, s))[j] = [sid |-> s, at |-> now]
           /\ \A i \in 1..Len(p) :
                \/ \E j \in 1..Len(Trim(Insert(p, s))) : Trim(Insert(p, s))[j] = p[i]
                \/ p[i].sid \in Cached(Insert(p, s)) \ Cached(Trim(Insert(p, s)))
<1> DEFINE e == [sid |-> s, at |-> now]
           g == Insert(p, s)
           t == Trim(g)
<1>1. e \in Entry /\ Len(p) \in Nat
  BY LenProperties DEF TypeOK, Entry
<1>2. /\ g \in Seq(Entry) /\ Len(g) = Len(p) + 1
      /\ \A i \in 1..Len(p) : g[i] = p[i]
      /\ g[Len(p) + 1] = e
  BY <1>1, AppendProperties DEF Insert
<1> HIDE DEF g, e
<1>3. \A i, j \in 1..Len(g) : g[i].sid = g[j].sid => i = j
  <2>1. e.sid = s
    BY DEF e
  <2>2. \A i \in 1..Len(p) : p[i].sid # s
    BY DEF Cached
  <2> QED BY <1>1, <1>2, <2>1, <2>2
<1>4. Cached(g) \subseteq Cached(p) \cup {s}
  BY <1>1, <1>2 DEF Cached, e
<1>5. CASE Len(g) > CacheMax
  <2>1. t = Tail(g)
    BY <1>5 DEF Trim
  <2>2. g # <<>>
    BY <1>1, <1>2, EmptySeq
  <2>3. /\ t \in Seq(Entry) /\ Len(t) = Len(p)
        /\ \A i \in 1..Len(t) : t[i] = g[i + 1]
    BY <1>1, <1>2, <2>1, <2>2, HeadTailProperties
  <2> HIDE DEF t
  <2>4. \A i, j \in 1..Len(t) : t[i].sid = t[j].sid => i = j
    BY <1>1, <1>2, <1>3, <2>3
  <2>5. Cached(t) \subseteq Cached(g)
    BY <1>1, <1>2, <2>3 DEF Cached
  <2>6. Len(p) >= 1
    BY <1>1, <1>2, <1>5, CacheMaxAssumption
  <2>7. \E j \in 1..Len(t) : t[j] = e
    <3>1. Len(p) \in 1..Len(t) /\ t[Len(p)] = e
      BY <1>1, <1>2, <2>3, <2>6
    <3> QED BY <3>1
  <2>8. ASSUME NEW i \in 1..Len(p)
        PROVE  \/ \E j \in 1..Len(t) : t[j] = p[i]
               \/ p[i].sid \in Cached(g) \ Cached(t)
    <3>1. CASE i = 1
      <4>1. g[1] = p[1] /\ p[i].sid \in Cached(g)
        BY <1>1, <1>2, <3>1 DEF Cached
      <4>2. \A j \in 1..Len(t) : t[j].sid # g[1].sid
        BY <1>1, <1>2, <1>3, <2>3
      <4> QED BY <3>1, <4>1, <4>2 DEF Cached
    <3>2. CASE i > 1
      <4>1. i - 1 \in 1..Len(t) /\ t[i - 1] = p[i]
        BY <1>1, <1>2, <2>3, <3>2
      <4> QED BY <4>1
    <3> QED BY <1>1, <3>1, <3>2
  <2> QED BY <1>4, <2>3, <2>4, <2>5, <2>7, <2>8 DEF t, g, e
<1>6. CASE ~(Len(g) > CacheMax)
  <2>1. t = g
    BY <1>6 DEF Trim
  <2>2. \E j \in 1..Len(g) : g[j] = e
    BY <1>1, <1>2
  <2>3. \A i \in 1..Len(p) : \E j \in 1..Len(g) : g[j] = p[i]
    BY <1>1, <1>2
  <2>4. Len(g) <= CacheMax
    BY <1>1, <1>2, <1>6, CacheMaxAssumption
  <2> QED BY <1>2, <1>3, <1>4, <2>1, <2>2, <2>3, <2>4 DEF t, g, e
<1> QED BY <1>5, <1>6

\* The ttl of a call is a natural number, at least replay_ttl.
LEMMA TtlProperties ==
    ASSUME TypeOK, NEW s \in Sids
    PROVE  Ttl(s) \in Nat /\ Ttl(s) >= ReplayTtl /\ Diff(s) \in Nat
<1>1. now.sec \in Nat /\ hello[s].ts \in Nat
  BY DEF TypeOK, Time, Hello
<1>2. Diff(s) \in Nat
  BY <1>1 DEF Diff
<1> QED BY <1>2, TimeAssumption DEF Ttl

\* Ages only grow: from one instant to a later one, and with a smaller bound.
LEMMA OlderThanMonotonic ==
    ASSUME NEW m \in Time, NEW n \in Time, NEW t \in Time,
           NEW age \in Nat, NEW less \in Nat, less <= age,
           ~OlderThan(m, n, 0), OlderThan(m, t, age)
    PROVE  OlderThan(n, t, less)
BY DEF OlderThan, Time

\* A session id that was accepted, is not cached any more and was not
\* evicted fails the clock check, if the ttl covers the window.
LEMMA ReuseOutsideWindow ==
    ASSUME IInv, TtlCoversWindow, NEW s \in accepted,
           OlderThan(high, usedAt[s], ReplayTtl)
    PROVE  Diff(s) > MaxTimeDiff
<1>1. /\ now \in Time /\ high \in Time /\ usedAt[s] \in Time
      /\ hello[s].ts \in Int
  BY DEF IInv, TypeOK, Hello
<1>2. /\ now.sec \in Int /\ high.sec \in Int /\ usedAt[s].sec \in Int
      /\ now.frac \in Int /\ high.frac \in Int /\ usedAt[s].frac \in Int
  BY <1>1 DEF Time
<1>3. high.sec - usedAt[s].sec >= ReplayTtl
  BY <1>2, TimeAssumption DEF OlderThan
<1>4. high.sec - now.sec <= ClockSlip
  BY <1>2, TimeAssumption DEF IInv, ClockInv, OlderThan
<1>5. hello[s].ts - usedAt[s].sec <= MaxTimeDiff
  BY DEF IInv, InTolerance
<1>6. now.sec - hello[s].ts > MaxTimeDiff
  BY <1>1, <1>2, <1>3, <1>4, <1>5, TimeAssumption DEF TtlCoversWindow
<1> QED BY <1>1, <1>2, <1>6, TimeAssumption DEF Diff

-----------------------------------------------------------------------------
LEMMA InitEstablishesIInv == Init => IInv
<1> SUFFICES ASSUME Init PROVE IInv
  OBVIOUS
<1>1. now \in Time /\ now.sec = 0 /\ now.frac = 0 /\ high = now
  BY TimeAssumption DEF Init, Time
<1>2. cache \in Seq(Entry) /\ Len(cache) = 0
  BY EmptySeq DEF Init
<1>3. TypeOK
  <2>1. verdict \in Verdict
    BY DEF Init, Verdict
  <2>2. /\ hello \in [Sids -> Hello] /\ usedAt \in [Sids -> Time]
        /\ accepted \subseteq Sids /\ reused \subseteq Sids /\ evicted \subseteq Sids
    BY <1>1 DEF Init
  <2>3. Len(cache) <= CacheMax /\ \A i, j \in 1..Len(cache) : i = j
    BY <1>2, CacheMaxAssumption
  <2> QED BY <1>1, <1>2, <2>1, <2>2, <2>3 DEF TypeOK
<1>4. ClockInv
  BY <1>1, TimeAssumption DEF ClockInv, OlderThan
<1>5. InTolerance /\ Remembered /\ CachedAccepted
  BY <1>2 DEF Init, InTolerance, Remembered, CachedAccepted, Cached
<1> QED BY <1>3, <1>4, <1>5 DEF IInv

\* The clock never makes a remembered session id fresh again.
LEMMA ClockMovesPreservesIInv == IInv /\ ClockMoves => IInv'
<1> SUFFICES ASSUME IInv, ClockMoves PROVE IInv'
  OBVIOUS
<1> USE DEF IInv
<1>1. PICK t \in Time :
          /\ ~OlderThan(high, t, ClockSlip)
          /\ now' = t
          /\ high' = IF OlderThan(t, high, 0) THEN t ELSE high
          /\ UNCHANGED <<hello, cache, verdict, accepted, usedAt, reused, evicted>>
  BY DEF ClockMoves, history
<1>2. TypeOK'
  BY <1>1 DEF TypeOK
<1>3. ClockInv'
  BY <1>1, TimeAssumption DEF ClockInv, TypeOK, Time, OlderThan
<1>4. InTolerance'
  BY <1>1 DEF InTolerance
<1>5. ~OlderThan(high, high', 0)
  BY <1>1, TimeAssumption DEF TypeOK, Time, OlderThan
<1>6. Remembered'
  <2> SUFFICES ASSUME NEW s \in accepted' \ evicted'
               PROVE  \/ \E i \in 1..Len(cache') : cache'[i] = [sid |-> s, at |-> usedAt'[s]]
                      \/ OlderThan(high', usedAt'[s], ReplayTtl)
    BY DEF Remembered
  <2>1. CASE \E i \in 1..Len(cache) : cache[i] = [sid |-> s, at |-> usedAt[s]]
    BY <1>1, <2>1
  <2>2. CASE OlderThan(high, usedAt[s], ReplayTtl)
    <3>1. usedAt[s] \in Time /\ high \in Time /\ high' \in Time
      BY <1>1, <1>2 DEF TypeOK
    <3>2. OlderThan(high', usedAt[s], ReplayTtl)
      BY <1>5, <2>2, <3>1, OlderThanMonotonic, TimeAssumption DEF OlderThan
    <3> QED BY <1>1, <3>2
  <2> QED BY <1>1, <2>1, <2>2 DEF Remembered
<1>7. CachedAccepted'
  BY <1>1 DEF CachedAccepted, Cached
<1> QED BY <1>2, <1>3, <1>4, <1>6, <1>7

\* What the purge drops has outlived the ttl, measured at the highest
\* reading of the clock; what is left is still remembered.
LEMMA PurgeRemembers ==
    ASSUME IInv, NEW s \in Sids, NEW r \in accepted \ evicted
    PROVE  \/ \E j \in 1..Len(Purge(cache, Ttl(s))) :
                  Purge(cache, Ttl(s))[j] = [sid |-> r, at |-> usedAt[r]]
           \/ OlderThan(high, usedAt[r], ReplayTtl)
<1> USE DEF IInv
<1>1. CASE OlderThan(high, usedAt[r], ReplayTtl)
  BY <1>1
<1>2. ASSUME NEW i \in 1..Len(cache), cache[i] = [sid |-> r, at |-> usedAt[r]]
      PROVE  \/ \E j \in 1..Len(Purge(cache, Ttl(s))) :
                    Purge(cache, Ttl(s))[j] = [sid |-> r, at |-> usedAt[r]]
             \/ OlderThan(high, usedAt[r], ReplayTtl)
  <2>1. Ttl(s) \in Nat /\ Ttl(s) >= ReplayTtl
    BY TtlProperties
  <2>2. CASE OlderThan(now, cache[i].at, Ttl(s))
    <3>1. OlderThan(now, usedAt[r], Ttl(s))
      BY <1>2, <2>2
    <3>2. now \in Time /\ high \in Time /\ usedAt[r] \in Time
      BY DEF TypeOK
    <3>3. OlderThan(high, usedAt[r], ReplayTtl)
      BY <2>1, <3>1, <3>2, OlderThanMonotonic, TimeAssumption DEF ClockInv
    <3> QED BY <3>3
  <2> QED BY <1>2, <2>1, <2>2, PurgeProperties
<1> QED BY <1>1, <1>2 DEF Remembered

\* A refusal before the cache is consulted changes the answer only.
LEMMA RefusalPreservesIInv ==
    ASSUME IInv, verdict' \in Verdict,
           UNCHANGED <<hello, now, high, cache, history>>
    PROVE  IInv'
<1> USE DEF IInv, history
<1>1. TypeOK'
  BY DEF TypeOK
<1>2. ClockInv' /\ InTolerance'
  BY DEF ClockInv, InTolerance
<1>3. Remembered'
  BY DEF Remembered
<1>4. CachedAccepted'
  BY DEF CachedAccepted, Cached
<1> QED BY <1>1, <1>2, <1>3, <1>4

LEMMA RefuseReplayPreservesIInv ==
    ASSUME IInv, NEW s \in Sids, RefuseReplay(s)
    PROVE  IInv'
<1> USE DEF IInv
<1> DEFINE p == Purge(cache, Ttl(s))
<1>1. /\ cache' = p
      /\ verdict' = [sid |-> s, ok |-> FALSE, why |-> "replay"]
      /\ UNCHANGED <<hello, now, high, accepted, usedAt, reused, evicted>>
  BY DEF RefuseReplay, Answer, history
<1>2. /\ p \in Seq(Entry) /\ Len(p) <= CacheMax
      /\ \A i, j \in 1..Len(p) : p[i].sid = p[j].sid => i = j
      /\ Cached(p) \subseteq Cached(cache)
  BY TtlProperties, PurgeProperties
<1>3. \A r \in accepted \ evicted :
          \/ \E j \in 1..Len(p) : p[j] = [sid |-> r, at |-> usedAt[r]]
          \/ OlderThan(high, usedAt[r], ReplayTtl)
  BY PurgeRemembers
<1> HIDE DEF p
<1>4. TypeOK'
  <2>1. verdict' \in Verdict
    BY <1>1 DEF Verdict
  <2> QED BY <1>1, <1>2, <2>1 DEF TypeOK
<1>5. ClockInv' /\ InTolerance'
  BY <1>1 DEF ClockInv, InTolerance
<1>6. Remembered'
  BY <1>1, <1>3 DEF Remembered
<1>7. CachedAccepted'
  BY <1>1, <1>2 DEF CachedAccepted, Cached
<1> QED BY <1>4, <1>5, <1>6, <1>7

LEMMA AcceptPreservesIInv ==
    ASSUME IInv, NEW s \in Sids, Accept(s)
    PROVE  IInv'
<1> USE DEF IInv
<1> DEFINE p == Purge(cache, Ttl(s))
           g == Insert(p, s)
           t == Trim(g)
<1>1. /\ hello[s].shortId = ConfigShortId /\ Diff(s) <= MaxTimeDiff
      /\ s \notin Cached(p)
      /\ cache' = t
      /\ verdict' = [sid |-> s, ok |-> TRUE, why |-> "ok"]
      /\ accepted' = accepted \cup {s}
      /\ reused' = IF s \in accepted THEN reused \cup {s} ELSE reused
      /\ usedAt' = [usedAt EXCEPT ![s] = now]
      /\ evicted' = evicted \cup (Cached(g) \ Cached(t))
      /\ UNCHANGED <<hello, now, high>>
  BY DEF Accept, Admissible, Answer
<1>2. /\ p \in Seq(Entry) /\ Len(p) <= CacheMax
      /\ \A i, j \in 1..Len(p) : p[i].sid = p[j].sid => i = j
      /\ Cached(p) \subseteq Cached(cache)
  BY TtlProperties, PurgeProperties
<1>3. /\ t \in Seq(Entry) /\ Len(t) <= CacheMax
      /\ \A i, j \in 1..Len(t) : t[i].sid = t[j].sid => i = j
      /\ Cached(t) \subseteq Cached(p) \cup {s}
      /\ \E j \in 1..Len(t) : t[j] = [sid |-> s, at |-> now]
      /\ \A i \in 1..Len(p) :
           \/ \E j \in 1..Len(t) : t[j] = p[i]
           \/ p[i].sid \in Cached(g) \ Cached(t)
  BY <1>1, <1>2, RegisterProperties
<1>4. \A r \in accepted \ evicted :
          \/ \E j \in 1..Len(p) : p[j] = [sid |-> r, at |-> usedAt[r]]
          \/ OlderThan(high, usedAt[r], ReplayTtl)
  BY PurgeRemembers
<1>5. Cached(g) \subseteq Sids
  <2>1. [sid |-> s, at |-> now] \in Entry /\ Len(p) \in Nat
    BY <1>2, LenProperties DEF TypeOK, Entry
  <2>2. g \in Seq(Entry)
    BY <1>2, <2>1, AppendProperties DEF Insert
  <2> HIDE DEF g
  <2>3. \A i \in 1..Len(g) : g[i] \in Entry
    BY <2>2
  <2> QED BY <2>3 DEF Cached, Entry
<1> HIDE DEF p, g, t
<1>6. TypeOK'
  <2>1. verdict' \in Verdict
    BY <1>1 DEF Verdict
  <2>2. usedAt' \in [Sids -> Time]
    BY <1>1 DEF TypeOK
  <2> QED BY <1>1, <1>3, <1>5, <2>1, <2>2 DEF TypeOK
<1>7. ClockInv'
  BY <1>1 DEF ClockInv
<1>8. InTolerance'
  <2>1. /\ now.sec - hello[s].ts <= MaxTimeDiff
        /\ hello[s].ts - now.sec <= MaxTimeDiff
    BY <1>1, TimeAssumption DEF Diff, TypeOK, Time, Hello
  <2> QED BY <1>1, <2>1 DEF InTolerance, TypeOK
<1>9. Remembered'
  <2> SUFFICES ASSUME NEW r \in accepted' \ evicted'
               PROVE  \/ \E i \in 1..Len(t) : t[i] = [sid |-> r, at |-> usedAt'[r]]
                      \/ OlderThan(high, usedAt'[r], ReplayTtl)
    BY <1>1 DEF Remembered
  <2>1. CASE r = s
    BY <1>1, <1>3, <2>1 DEF TypeOK
  <2>2. CASE r # s
    <3>1. r \in accepted \ evicted /\ usedAt'[r] = usedAt[r]
      BY <1>1, <2>2 DEF TypeOK
    <3>2. ASSUME NEW j \in 1..Len(p), p[j] = [sid |-> r, at |-> usedAt[r]]
          PROVE  \E i \in 1..Len(t) : t[i] = [sid |-> r, at |-> usedAt[r]]
      <4>1. p[j].sid = r
        BY <3>2
      <4> QED BY <1>1, <1>3, <3>2, <4>1
    <3> QED BY <1>4, <3>1, <3>2
  <2> QED BY <2>1, <2>2
<1>10. CachedAccepted'
  BY <1>1, <1>2, <1>3 DEF CachedAccepted, Cached
<1> QED BY <1>6, <1>7, <1>8, <1>9, <1>10

LEMMA StepPreservesIInv == IInv /\ [Next]_vars => IInv'
<1> SUFFICES ASSUME IInv, [Next]_vars PROVE IInv'
  OBVIOUS
<1>1. CASE ClockMoves
  BY <1>1, ClockMovesPreservesIInv
<1>2. ASSUME NEW s \in Sids, RefuseUnsealed(s) PROVE IInv'
  <2>1. verdict' \in Verdict
    BY <1>2 DEF RefuseUnsealed, Answer, Verdict
  <2> QED BY <1>2, <2>1, RefusalPreservesIInv DEF RefuseUnsealed
<1>3. ASSUME NEW s \in Sids, RefuseShortId(s) PROVE IInv'
  <2>1. verdict' \in Verdict
    BY <1>3 DEF RefuseShortId, Answer, Verdict
  <2> QED BY <1>3, <2>1, RefusalPreservesIInv DEF RefuseShortId
<1>4. ASSUME NEW s \in Sids, RefuseTimestamp(s) PROVE IInv'
  <2>1. verdict' \in Verdict
    BY <1>4 DEF RefuseTimestamp, Answer, Verdict
  <2> QED BY <1>4, <2>1, RefusalPreservesIInv DEF RefuseTimestamp
<1>5. ASSUME NEW s \in Sids, RefuseReplay(s) PROVE IInv'
  BY <1>5, RefuseReplayPreservesIInv
<1>6. ASSUME NEW s \in Sids, Accept(s) PROVE IInv'
  BY <1>6, AcceptPreservesIInv
<1>7. CASE UNCHANGED vars
  <2>1. verdict' \in Verdict
    BY <1>7 DEF vars, IInv, TypeOK
  <2> QED BY <1>7, <2>1, RefusalPreservesIInv DEF vars, history
<1> QED BY <1>1, <1>2, <1>3, <1>4, <1>5, <1>6, <1>7 DEF Next, Verify

\* The inductive invariant holds of every behaviour, for any number of
\* session ids, any capacity, any tolerance, ttl and clock slip.
THEOREM InductiveInvariant == Spec => []IInv
BY InitEstablishesIInv, StepPreservesIInv, PTL DEF Spec

\* Types: in particular the cache is bounded and free of duplicates.
THEOREM TypeCorrect == Spec => []TypeOK
<1>1. IInv => TypeOK
  BY DEF IInv
<1> QED BY <1>1, InductiveInvariant, PTL

\* The step that NoReplay is about: whatever is accepted again had been
\* evicted.
LEMMA StepPreservesNoReplay == IInv /\ NoReplay /\ [Next]_vars => NoReplay'
<1> SUFFICES ASSUME IInv, NoReplay, [Next]_vars, TtlCoversWindow
             PROVE  reused' \subseteq evicted'
  BY DEF NoReplay, TtlCoversWindow
<1>1. reused \subseteq evicted
  BY DEF NoReplay
<1>2. ASSUME NEW s \in Sids, Accept(s) PROVE reused' \subseteq evicted'
  <2> DEFINE p == Purge(cache, Ttl(s))
  <2>1. ASSUME s \in accepted, s \notin evicted PROVE FALSE
    <3>1. \/ \E j \in 1..Len(p) : p[j] = [sid |-> s, at |-> usedAt[s]]
          \/ OlderThan(high, usedAt[s], ReplayTtl)
      BY <2>1, PurgeRemembers
    <3>2. CASE \E j \in 1..Len(p) : p[j] = [sid |-> s, at |-> usedAt[s]]
      <4> HIDE DEF p
      <4>1. s \in Cached(p)
        BY <3>2 DEF Cached
      <4> QED BY <1>2, <4>1 DEF Accept, p
    <3>3. CASE OlderThan(high, usedAt[s], ReplayTtl)
      <4>1. Diff(s) > MaxTimeDiff
        BY <2>1, <3>3, ReuseOutsideWindow
      <4>2. Diff(s) <= MaxTimeDiff
        BY <1>2 DEF Accept, Admissible
      <4> QED BY <4>1, <4>2, TtlProperties, TimeAssumption DEF IInv
    <3> QED BY <3>1, <3>2, <3>3
  <2>2. /\ reused' = IF s \in accepted THEN reused \cup {s} ELSE reused
        /\ evicted \subseteq evicted'
    BY <1>2 DEF Accept
  <2> QED BY <1>1, <2>1, <2>2
<1>3. CASE UNCHANGED <<reused, evicted>>
  BY <1>1, <1>3
<1> QED BY <1>2, <1>3 DEF Next, Verify, ClockMoves, RefuseUnsealed,
        RefuseShortId, RefuseTimestamp, RefuseReplay, history, vars

\* No replay but through the capacity limit: whenever the ttl is more than
\* twice the tolerance plus the clock slip, a session id that is accepted a
\* second time had been evicted for lack of room.
THEOREM ReplayNeedsEviction == Spec => []NoReplay
<1>1. Init => NoReplay
  BY DEF Init, NoReplay
<1> QED BY <1>1, InductiveInvariant, StepPreservesNoReplay, PTL DEF Spec

\* A client is told "replay" only after one of its hellos was accepted.
THEOREM ReplayAnswersAreTrue == Spec => []NoFalseReplay
<1>1. Init => NoFalseReplay
  BY DEF Init, NoFalseReplay
<1>2. ASSUME IInv, NoFalseReplay, [Next]_vars PROVE NoFalseReplay'
  <2>1. ASSUME NEW s \in Sids, RefuseReplay(s) PROVE NoFalseReplay'
    <3>1. s \in Cached(Purge(cache, Ttl(s)))
      BY <2>1 DEF RefuseReplay
    <3>2. s \in accepted
      BY <1>2, <3>1, TtlProperties, PurgeProperties DEF IInv, CachedAccepted
    <3> QED BY <2>1, <3>2 DEF RefuseReplay, Answer, history, NoFalseReplay
  <2>2. ASSUME NEW s \in Sids,
               RefuseUnsealed(s) \/ RefuseShortId(s) \/ RefuseTimestamp(s) \/ Accept(s)
        PROVE  NoFalseReplay'
    BY <2>2 DEF RefuseUnsealed, RefuseShortId, RefuseTimestamp, Accept, Answer,
                NoFalseReplay
  <2>3. CASE ClockMoves \/ UNCHANGED vars
    BY <1>2, <2>3 DEF ClockMoves, vars, history, NoFalseReplay
  <2> QED BY <1>2, <2>1, <2>2, <2>3 DEF Next, Verify
<1> QED BY <1>1, <1>2, InductiveInvariant, PTL DEF Spec

-----------------------------------------------------------------------------
\* The times of a queue of entries, in insertion order, go back by no more
\* than the clock does, and none is ahead of the clock's highest reading.
NearlyInOrder(c) ==
    /\ \A i \in 1..Len(c) : ~OlderThan(c[i].at, high, 0)
    /\ \A i, j \in 1..Len(c) : i <= j => ~OlderThan(c[i].at, c[j].at, ClockSlip)

\* Entries carry times.
LEMMA EntryTimes ==
    ASSUME NEW c \in Seq(Entry) PROVE \A i \in 1..Len(c) : c[i].at \in Time
<1>1. \A i \in 1..Len(c) : c[i] \in Entry
  BY ElementOfSeq
<1> QED BY <1>1 DEF Entry

\* Ages add up.
LEMMA AgesAdd ==
    ASSUME NEW a \in Time, NEW b \in Time, NEW c \in Time,
           NEW x \in Nat, NEW y \in Nat,
           ~OlderThan(a, b, x), ~OlderThan(b, c, y)
    PROVE  ~OlderThan(a, c, x + y)
BY DEF OlderThan, Time

\* The purge stops at an entry that is not too old, and those behind it are
\* older by no more than the slip.
LEMMA PurgeAges ==
    ASSUME TypeOK, NearlyInOrder(cache), NEW ttl \in Nat
    PROVE  /\ NearlyInOrder(Purge(cache, ttl))
           /\ \A i \in 1..Len(Purge(cache, ttl)) :
                ~OlderThan(now, Purge(cache, ttl)[i].at, ttl + ClockSlip)
<1> DEFINE p == Purge(cache, ttl)
<1>1. cache \in Seq(Entry) /\ Len(cache) \in Nat /\ now \in Time
  BY LenProperties DEF TypeOK
<1>2. Expired(cache, ttl) \in SUBSET (1..Len(cache))
  BY DEF Expired
<1>3. PICK d \in 0..Len(cache) :
          /\ p \in Seq(Entry)
          /\ Len(p) = Len(cache) - d
          /\ \A i \in 1..(Len(cache) - d) : p[i] = cache[i + d]
          /\ d + 1 \notin Expired(cache, ttl)
  BY <1>1, <1>2, DropExpiredProperties DEF Purge
<1> HIDE DEF p
<1>4. \A i \in 1..Len(p) : i + d \in 1..Len(cache) /\ p[i] = cache[i + d]
  BY <1>1, <1>3
<1>5. NearlyInOrder(p)
  <2>1. \A i \in 1..Len(p) : ~OlderThan(p[i].at, high, 0)
    BY <1>4 DEF NearlyInOrder
  <2>2. ASSUME NEW i \in 1..Len(p), NEW j \in 1..Len(p), i <= j
        PROVE  ~OlderThan(p[i].at, p[j].at, ClockSlip)
    <3>1. i + d <= j + d
      BY <1>1, <2>2
    <3> QED BY <1>4, <3>1 DEF NearlyInOrder
  <2> QED BY <2>1, <2>2 DEF NearlyInOrder
<1>6. ASSUME NEW i \in 1..Len(p) PROVE ~OlderThan(now, p[i].at, ttl + ClockSlip)
  <2>1. d + 1 \in 1..Len(cache) /\ i + d \in 1..Len(cache) /\ d + 1 <= i + d
    BY <1>1, <1>3, <1>6
  <2>2. ~OlderThan(now, cache[d + 1].at, ttl)
    BY <1>3, <2>1 DEF Expired
  <2>3. ~OlderThan(cache[d + 1].at, cache[i + d].at, ClockSlip)
    BY <2>1 DEF NearlyInOrder
  <2>4. cache[d + 1].at \in Time /\ cache[i + d].at \in Time
    BY <1>1, <2>1, EntryTimes
  <2>5. ~OlderThan(now, cache[i + d].at, ttl + ClockSlip)
    BY <1>1, <2>2, <2>3, <2>4, AgesAdd, TimeAssumption
  <2> QED BY <1>4, <2>5
<1> QED BY <1>5, <1>6 DEF p

\* A new entry is no earlier than the slip allows, and has no age.
LEMMA RegisterAges ==
    ASSUME TypeOK, ClockInv, NEW s \in Sids, NEW p \in Seq(Entry), NearlyInOrder(p)
    PROVE  /\ NearlyInOrder(Trim(Insert(p, s)))
           /\ \A i \in 1..Len(Trim(Insert(p, s))) :
                \/ Trim(Insert(p, s))[i].at = now
                \/ \E j \in 1..Len(p) : Trim(Insert(p, s))[i] = p[j]
<1> DEFINE e == [sid |-> s, at |-> now]
           g == Insert(p, s)
           t == Trim(g)
<1>1. e \in Entry /\ Len(p) \in Nat /\ now \in Time /\ high \in Time
  BY LenProperties DEF TypeOK, Entry
<1>2. /\ g \in Seq(Entry) /\ Len(g) = Len(p) + 1
      /\ \A i \in 1..Len(p) : g[i] = p[i]
      /\ g[Len(p) + 1].at = now
  BY <1>1, AppendProperties DEF Insert
<1> HIDE DEF g
<1>3. \A i \in 1..Len(p) : p[i].at \in Time
  BY EntryTimes
<1>4. ~OlderThan(now, now, ClockSlip)
  BY <1>1, TimeAssumption DEF OlderThan, Time
<1>5. \A i \in 1..Len(p) : ~OlderThan(p[i].at, now, ClockSlip)
  <2> TAKE i \in 1..Len(p)
  <2>1. ~OlderThan(p[i].at, high, 0) /\ ~OlderThan(high, now, ClockSlip)
    BY DEF NearlyInOrder, ClockInv
  <2>2. ~OlderThan(p[i].at, now, 0 + ClockSlip)
    BY <1>1, <1>3, <2>1, AgesAdd, TimeAssumption
  <2> QED BY <2>2, TimeAssumption
<1>6. NearlyInOrder(g)
  <2>1. \A i \in 1..Len(g) : i \in 1..Len(p) \/ i = Len(p) + 1
    BY <1>1, <1>2
  <2>2. \A i \in 1..Len(g) : ~OlderThan(g[i].at, high, 0)
    BY <1>2, <2>1 DEF NearlyInOrder, ClockInv
  <2>3. ASSUME NEW i \in 1..Len(g), NEW j \in 1..Len(g), i <= j
        PROVE  ~OlderThan(g[i].at, g[j].at, ClockSlip)
    <3>1. CASE j \in 1..Len(p)
      <4>1. i \in 1..Len(p)
        BY <1>1, <1>2, <2>3, <3>1
      <4> QED BY <1>2, <2>3, <3>1, <4>1 DEF NearlyInOrder
    <3>2. CASE j = Len(p) + 1
      BY <1>2, <1>4, <1>5, <2>1, <3>2
    <3> QED BY <2>1, <3>1, <3>2
  <2> QED BY <2>2, <2>3 DEF NearlyInOrder
<1>7. CASE Len(g) > CacheMax
  <2>1. t = Tail(g) /\ g # <<>>
    BY <1>1, <1>2, <1>7, EmptySeq DEF Trim
  <2>2. Len(t) = Len(p) /\ \A i \in 1..Len(t) : t[i] = g[i + 1]
    BY <1>1, <1>2, <2>1, HeadTailProperties
  <2> HIDE DEF t
  <2>3. \A i \in 1..Len(t) : i + 1 \in 1..Len(g) /\ t[i] = g[i + 1]
    BY <1>1, <1>2, <2>2
  <2>4. NearlyInOrder(t)
    <3>1. \A i \in 1..Len(t) : ~OlderThan(t[i].at, high, 0)
      BY <1>6, <2>3 DEF NearlyInOrder
    <3>2. ASSUME NEW i \in 1..Len(t), NEW j \in 1..Len(t), i <= j
          PROVE  ~OlderThan(t[i].at, t[j].at, ClockSlip)
      <4>1. i + 1 <= j + 1
        BY <1>1, <2>2, <3>2
      <4> QED BY <1>6, <2>3, <4>1 DEF NearlyInOrder
    <3> QED BY <3>1, <3>2 DEF NearlyInOrder
  <2>5. \A i \in 1..Len(t) : t[i].at = now \/ \E j \in 1..Len(p) : t[i] = p[j]
    BY <1>1, <1>2, <2>2, <2>3
  <2> QED BY <2>4, <2>5 DEF t, g
<1>8. CASE ~(Len(g) > CacheMax)
  <2>1. t = g
    BY <1>8 DEF Trim
  <2>2. \A i \in 1..Len(g) : g[i].at = now \/ \E j \in 1..Len(p) : g[i] = p[j]
    BY <1>1, <1>2
  <2> QED BY <1>6, <2>1, <2>2 DEF t, g
<1> QED BY <1>7, <1>8

\* The times in the cache stay nearly in order, whatever the clock does.
LEMMA StepKeepsOrder ==
    IInv /\ NearlyInOrder(cache) /\ [Next]_vars => NearlyInOrder(cache)'
<1> SUFFICES ASSUME IInv, NearlyInOrder(cache), [Next]_vars
             PROVE  NearlyInOrder(cache)'
  OBVIOUS
<1> USE DEF IInv
<1>1. CASE cache' = cache /\ high' = high
  BY <1>1 DEF NearlyInOrder
<1>2. CASE ClockMoves
  <2>1. cache' = cache /\ high \in Time /\ high' \in Time /\ ~OlderThan(high, high', 0)
    BY <1>2 DEF ClockMoves, TypeOK, OlderThan, Time
  <2>2. ASSUME NEW i \in 1..Len(cache) PROVE ~OlderThan(cache[i].at, high', 0)
    <3>1. cache[i].at \in Time
      BY EntryTimes DEF TypeOK
    <3>2. ~OlderThan(cache[i].at, high', 0 + 0)
      BY <2>1, <3>1, AgesAdd DEF NearlyInOrder
    <3> QED BY <3>2
  <2> QED BY <2>1, <2>2 DEF NearlyInOrder
<1>3. ASSUME NEW s \in Sids, RefuseReplay(s) PROVE NearlyInOrder(cache)'
  <2>1. NearlyInOrder(Purge(cache, Ttl(s)))
    BY TtlProperties, PurgeAges
  <2>2. cache' = Purge(cache, Ttl(s)) /\ high' = high
    BY <1>3 DEF RefuseReplay
  <2> QED BY <2>1, <2>2 DEF NearlyInOrder
<1>4. ASSUME NEW s \in Sids, Accept(s) PROVE NearlyInOrder(cache)'
  <2>1. Ttl(s) \in Nat
    BY TtlProperties
  <2>2. NearlyInOrder(Purge(cache, Ttl(s))) /\ Purge(cache, Ttl(s)) \in Seq(Entry)
    BY <2>1, PurgeAges, PurgeProperties
  <2>3. NearlyInOrder(Trim(Insert(Purge(cache, Ttl(s)), s)))
    BY <2>2, RegisterAges
  <2>4. cache' = Trim(Insert(Purge(cache, Ttl(s)), s)) /\ high' = high
    BY <1>4 DEF Accept
  <2> QED BY <2>3, <2>4 DEF NearlyInOrder
<1>5. ASSUME NEW s \in Sids, RefuseUnsealed(s) \/ RefuseShortId(s) \/ RefuseTimestamp(s)
      PROVE  NearlyInOrder(cache)'
  BY <1>1, <1>5 DEF RefuseUnsealed, RefuseShortId, RefuseTimestamp
<1>6. CASE UNCHANGED vars
  BY <1>1, <1>6 DEF vars
<1> QED BY <1>2, <1>3, <1>4, <1>5, <1>6 DEF Next, Verify

\* After a call that got as far as the cache nothing in it is older than the
\* ttl by more than the clock slip, although only the front is purged and the
\* clock may be stepped back (_check_replay).
THEOREM AgeIsBounded == Spec => BoundedAge
<1>1. Init => NearlyInOrder(cache)
  <2> SUFFICES ASSUME Init PROVE NearlyInOrder(cache)
    OBVIOUS
  <2>1. Len(cache) = 0
    BY EmptySeq DEF Init
  <2> QED BY <2>1 DEF NearlyInOrder
<1>2. IInv /\ NearlyInOrder(cache) /\ [Next]_vars =>
        [\A s \in Sids :
            RefuseReplay(s) \/ Accept(s) =>
                \A i \in 1..Len(cache') :
                    ~OlderThan(now, cache'[i].at, Ttl(s) + ClockSlip)]_vars
  <2> SUFFICES ASSUME IInv, NearlyInOrder(cache), NEW s \in Sids,
                      RefuseReplay(s) \/ Accept(s), NEW i \in 1..Len(cache')
               PROVE  ~OlderThan(now, cache'[i].at, Ttl(s) + ClockSlip)
    OBVIOUS
  <2> DEFINE p == Purge(cache, Ttl(s))
  <2>1. Ttl(s) \in Nat /\ now \in Time
    BY TtlProperties DEF IInv, TypeOK
  <2>2. /\ NearlyInOrder(p) /\ p \in Seq(Entry)
        /\ \A j \in 1..Len(p) : ~OlderThan(now, p[j].at, Ttl(s) + ClockSlip)
    BY <2>1, PurgeAges, PurgeProperties DEF IInv
  <2> HIDE DEF p
  <2>3. CASE RefuseReplay(s)
    BY <2>2, <2>3 DEF RefuseReplay, p
  <2>4. CASE Accept(s)
    <3>1. cache' = Trim(Insert(p, s))
      BY <2>4 DEF Accept, p
    <3>2. cache'[i].at = now \/ \E j \in 1..Len(p) : cache'[i] = p[j]
      BY <2>2, <3>1, RegisterAges DEF IInv
    <3>3. ~OlderThan(now, now, Ttl(s) + ClockSlip)
      BY <2>1, TimeAssumption DEF OlderThan, Time
    <3> QED BY <2>2, <3>2, <3>3
  <2> QED BY <2>3, <2>4
<1> QED BY <1>1, <1>2, StepKeepsOrder, InductiveInvariant, PTL DEF Spec, BoundedAge
=============================================================================
