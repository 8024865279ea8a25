------------------------- MODULE RateLimiterProofs --------------------------
(***************************************************************************)
(* Proofs about RateLimiter: its types, among them the bound of the attempt *)
(* windows, that no step cuts a ban short, and that it implements the       *)
(* policy BanPolicy, for every set of addresses, every limit, window and    *)
(* length of a ban.                                                         *)
(***************************************************************************)
EXTENDS RateLimiter, ExpiryLemmas

\* A well-formed attempt window.
Window_OK(dq) ==
    /\ dq \in Seq(1..now)
    /\ Len(dq) <= MaxAttempts
    /\ \A i, j \in 1..Len(dq) : i <= j => dq[i] <= dq[j]

-----------------------------------------------------------------------------
\* The popleft loop leaves a well-formed window.
LEMMA FreshProperties ==
    ASSUME now \in Nat, NEW dq, Window_OK(dq)
    PROVE  Window_OK(Fresh(dq))
<1>1. dq \in Seq(1..now) /\ Len(dq) \in Nat
  BY LenProperties DEF Window_OK
<1>2. TooOld(dq) \in SUBSET (1..Len(dq))
  BY DEF TooOld
<1>3. PICK d \in 0..Len(dq) :
          /\ Fresh(dq) \in Seq(1..now)
          /\ Len(Fresh(dq)) = Len(dq) - d
          /\ \A i \in 1..(Len(dq) - d) : Fresh(dq)[i] = dq[i + d]
  BY <1>1, <1>2, DropExpiredProperties DEF Fresh
<1>4. Len(Fresh(dq)) <= MaxAttempts
  BY <1>1, <1>3, LimiterAssumption DEF Window_OK
<1>5. ASSUME NEW i \in 1..Len(Fresh(dq)), NEW j \in 1..Len(Fresh(dq)), i <= j
      PROVE  Fresh(dq)[i] <= Fresh(dq)[j]
  <2>1. i + d \in 1..Len(dq) /\ j + d \in 1..Len(dq) /\ i + d <= j + d
    BY <1>1, <1>3, <1>5
  <2>2. dq[i + d] <= dq[j + d]
    BY <2>1 DEF Window_OK
  <2> QED BY <1>1, <1>3, <2>2
<1> QED BY <1>3, <1>4, <1>5 DEF Window_OK

\* The deque of an address, missing or not, is a well-formed window.
LEMMA DequeProperties ==
    ASSUME TypeOK, NEW ip \in Ips
    PROVE  Window_OK(Deque(ip))
<1>1. CASE ip \in DOMAIN attempts
  BY <1>1 DEF TypeOK, Deque, Window_OK
<1>2. CASE ip \notin DOMAIN attempts
  <2>1. Deque(ip) = <<>>
    BY <1>2 DEF Deque
  <2>2. <<>> \in Seq(1..now) /\ Len(<<>>) = 0
    BY EmptySeq
  <2> QED BY <2>1, <2>2, LimiterAssumption DEF Window_OK
<1> QED BY <1>1, <1>2

\* An attempt that stays below the limit leaves a well-formed window.
LEMMA CountedProperties ==
    ASSUME now \in Nat \ {0}, NEW dq, Window_OK(dq),
           Len(Append(dq, now)) <= MaxAttempts
    PROVE  Window_OK(Append(dq, now))
<1> DEFINE g == Append(dq, now)
<1>1. dq \in Seq(1..now) /\ Len(dq) \in Nat /\ now \in 1..now
  BY LenProperties DEF Window_OK
<1>2. /\ g \in Seq(1..now) /\ Len(g) = Len(dq) + 1
      /\ \A i \in 1..Len(dq) : g[i] = dq[i]
      /\ g[Len(dq) + 1] = now
  BY <1>1, AppendProperties
<1>3. \A i \in 1..Len(dq) : dq[i] \in 1..now
  BY <1>1, ElementOfSeq
<1> HIDE DEF g
<1>4. ASSUME NEW i \in 1..Len(g), NEW j \in 1..Len(g), i <= j
      PROVE  g[i] <= g[j]
  <2>1. CASE j \in 1..Len(dq)
    <3>1. i \in 1..Len(dq)
      BY <1>1, <1>4, <2>1
    <3>2. dq[i] <= dq[j]
      BY <1>4, <2>1, <3>1 DEF Window_OK
    <3> QED BY <1>2, <2>1, <3>1, <3>2
  <2>2. CASE j = Len(dq) + 1
    <3>1. g[j] = now
      BY <1>2, <2>2
    <3>2. g[i] \in 1..now
      BY <1>2, ElementOfSeq
    <3> QED BY <3>1, <3>2
  <2> QED BY <1>1, <1>2, <2>1, <2>2
<1> QED BY <1>2, <1>4 DEF Window_OK, g

-----------------------------------------------------------------------------
\* The types hold in the beginning.
LEMMA InitTypes == Init => TypeOK
<1> SUFFICES ASSUME Init PROVE TypeOK
  OBVIOUS
<1>1. now \in 1..MaxTime
  BY LimiterAssumption DEF Init
<1>2. DOMAIN attempts = {} /\ DOMAIN banned = {}
  BY DEF Init
<1>3. answer \in Answers
  BY DEF Init, Answers
<1> QED BY <1>1, <1>2, <1>3 DEF TypeOK

\* Every step keeps the types.
LEMMA NextTypes == TypeOK /\ [Next]_limiterVars => TypeOK'
<1> SUFFICES ASSUME TypeOK, [Next]_limiterVars PROVE TypeOK'
  OBVIOUS
<1>0. now \in Nat \ {0} /\ now \in 1..MaxTime /\ BanTime \in Nat \ {0}
      /\ MaxTime \in Nat \ {0} /\ MaxAttempts \in Nat
  BY LimiterAssumption DEF TypeOK
<1>1. CASE UNCHANGED limiterVars
  BY <1>1 DEF limiterVars, TypeOK
<1>2. CASE Tick
  <2>1. now' \in 1..MaxTime /\ now' > now
    BY <1>0, <1>2 DEF Tick
  <2>2. attempts' = attempts /\ banned' = banned /\ answer' = answer
    BY <1>2 DEF Tick
  <2>3. ASSUME NEW ip \in DOMAIN attempts PROVE attempts[ip] \in Seq(1..now')
    <3>1. attempts[ip] \in Seq(1..now)
      BY DEF TypeOK
    <3>2. 1..now \subseteq 1..now'
      BY <1>0, <2>1
    <3> QED BY <3>1, <3>2, SeqMonotonic
  <2>4. ASSUME NEW ip \in DOMAIN banned PROVE banned[ip] \in 1..(now' + BanTime)
    <3>1. banned[ip] \in 1..(now + BanTime)
      BY DEF TypeOK
    <3> QED BY <1>0, <2>1, <3>1
  <2> QED BY <2>1, <2>2, <2>3, <2>4 DEF TypeOK
<1>3. CASE Cleanup
  <2>1. now' = now /\ answer' = answer
    BY <1>3 DEF Cleanup
  <2>2. /\ DOMAIN banned' \subseteq DOMAIN banned
        /\ \A ip \in DOMAIN banned' : banned'[ip] = banned[ip]
    BY <1>3 DEF Cleanup, Only
  <2>3. /\ DOMAIN attempts' \subseteq DOMAIN attempts
        /\ \A ip \in DOMAIN attempts' : attempts'[ip] = Fresh(attempts[ip])
    BY <1>3 DEF Cleanup
  <2>4. \A ip \in DOMAIN attempts : Window_OK(attempts[ip])
    BY DEF TypeOK, Window_OK
  <2>5. \A ip \in DOMAIN attempts' : Window_OK(attempts'[ip])
    BY <1>0, <2>3, <2>4, FreshProperties
  <2>6. \A ip \in DOMAIN attempts' :
          /\ attempts'[ip] \in Seq(1..now)
          /\ Len(attempts'[ip]) <= MaxAttempts
          /\ \A i, j \in 1..Len(attempts'[ip]) :
               i <= j => attempts'[ip][i] <= attempts'[ip][j]
    BY <2>5 DEF Window_OK
  <2>7. DOMAIN attempts' \subseteq Ips \ PrivateIps
    BY <2>3 DEF TypeOK
  <2>8. /\ DOMAIN banned' \subseteq Ips \ PrivateIps
        /\ \A ip \in DOMAIN banned' : banned'[ip] \in 1..(now + BanTime)
    BY <2>2 DEF TypeOK
  <2> QED BY <2>1, <2>6, <2>7, <2>8 DEF TypeOK
<1>4. ASSUME NEW ip \in Ips, IsBanned(ip) PROVE TypeOK'
  <2>1. now' = now /\ attempts' = attempts
    BY <1>4 DEF IsBanned
  <2>2. answer' \in Answers
    BY <1>4 DEF IsBanned, Reply, Answers, BanLive
  <2>3. /\ DOMAIN banned' \subseteq DOMAIN banned
        /\ \A x \in DOMAIN banned' : banned'[x] = banned[x]
    BY <1>4 DEF IsBanned, Only
  <2> QED BY <2>1, <2>2, <2>3 DEF TypeOK
<1>5. ASSUME NEW ip \in Ips, RecordExempt(ip) PROVE TypeOK'
  BY <1>5 DEF RecordExempt, Reply, Answers, TypeOK
<1>6. ASSUME NEW ip \in Ips, RecordCounted(ip) PROVE TypeOK'
  <2> DEFINE dq == Append(Fresh(Deque(ip)), now)
  <2>1. /\ now' = now /\ banned' = banned /\ ip \notin PrivateIps
        /\ Len(dq) <= MaxAttempts
        /\ attempts' = Put(attempts, ip, dq)
    BY <1>6 DEF RecordCounted
  <2>2. answer' \in Answers
    BY <1>6 DEF RecordCounted, Reply, Answers
  <2>3. Window_OK(dq)
    BY <1>0, <2>1, DequeProperties, FreshProperties, CountedProperties
  <2> HIDE DEF dq
  <2>4. /\ DOMAIN attempts' = DOMAIN attempts \cup {ip}
        /\ attempts'[ip] = dq
        /\ \A x \in DOMAIN attempts \ {ip} : attempts'[x] = attempts[x]
    BY <2>1 DEF Put
  <2>5. \A x \in DOMAIN attempts' : Window_OK(attempts'[x])
    BY <2>3, <2>4 DEF TypeOK, Window_OK
  <2>6. \A x \in DOMAIN attempts' :
          /\ attempts'[x] \in Seq(1..now)
          /\ Len(attempts'[x]) <= MaxAttempts
          /\ \A i, j \in 1..Len(attempts'[x]) :
               i <= j => attempts'[x][i] <= attempts'[x][j]
    BY <2>5 DEF Window_OK
  <2>7. DOMAIN attempts' \subseteq Ips \ PrivateIps
    BY <2>1, <2>4 DEF TypeOK
  <2> QED BY <2>1, <2>2, <2>6, <2>7 DEF TypeOK
<1>7. ASSUME NEW ip \in Ips, RecordBans(ip) PROVE TypeOK'
  <2>1. /\ now' = now /\ ip \notin PrivateIps
        /\ attempts' = Put(attempts, ip, <<>>)
        /\ banned' = Put(banned, ip, now + BanTime)
    BY <1>7 DEF RecordBans
  <2>2. answer' \in Answers
    BY <1>7 DEF RecordBans, Reply, Answers
  <2>3. /\ DOMAIN attempts' = DOMAIN attempts \cup {ip}
        /\ attempts'[ip] = <<>>
        /\ \A x \in DOMAIN attempts \ {ip} : attempts'[x] = attempts[x]
    BY <2>1 DEF Put
  <2>4. <<>> \in Seq(1..now) /\ Len(<<>>) = 0
    BY EmptySeq
  <2>5. Window_OK(<<>>)
    BY <1>0, <2>4 DEF Window_OK
  <2>6. \A x \in DOMAIN attempts' : Window_OK(attempts'[x])
    BY <2>3, <2>5 DEF TypeOK, Window_OK
  <2>7. \A x \in DOMAIN attempts' :
          /\ attempts'[x] \in Seq(1..now)
          /\ Len(attempts'[x]) <= MaxAttempts
          /\ \A i, j \in 1..Len(attempts'[x]) :
               i <= j => attempts'[x][i] <= attempts'[x][j]
    BY <2>6 DEF Window_OK
  <2>8. DOMAIN attempts' \subseteq Ips \ PrivateIps
    BY <2>1, <2>3 DEF TypeOK
  <2>9. /\ DOMAIN banned' = DOMAIN banned \cup {ip}
        /\ banned'[ip] = now + BanTime
        /\ \A x \in DOMAIN banned \ {ip} : banned'[x] = banned[x]
    BY <2>1 DEF Put
  <2>10. \A x \in DOMAIN banned' : banned'[x] \in 1..(now + BanTime)
    BY <1>0, <2>9 DEF TypeOK
  <2>11. DOMAIN banned' \subseteq Ips \ PrivateIps
    BY <2>1, <2>9 DEF TypeOK
  <2> QED BY <2>1, <2>2, <2>7, <2>8, <2>10, <2>11 DEF TypeOK
<1> QED BY <1>1, <1>2, <1>3, <1>4, <1>5, <1>6, <1>7 DEF Next, RecordAttempt

\* Attempt windows stay in order and below the limit, bans end at most
\* ban_time from now, and private addresses are never entered.
THEOREM TypeCorrect == Spec => []TypeOK
<1> QED BY InitTypes, NextTypes, PTL DEF Spec

-----------------------------------------------------------------------------
\* One step of the limiter and the ban of an address that is still running.
LEMMA BanKept ==
    ASSUME TypeOK, [Next]_limiterVars, NEW ip \in DOMAIN banned, now' < banned[ip]
    PROVE  ip \in DOMAIN banned' /\ banned'[ip] >= banned[ip]
<1>0. /\ now \in Nat /\ BanTime \in Nat /\ ip \in Ips
      /\ banned[ip] \in 1..(now + BanTime)
  BY LimiterAssumption DEF TypeOK
<1>1. CASE banned' = banned
  BY <1>0, <1>1
<1>2. CASE Cleanup
  <2>1. banned[ip] > now
    BY <1>0, <1>2 DEF Cleanup
  <2> QED BY <1>0, <1>2, <2>1 DEF Cleanup, Only
<1>3. ASSUME NEW x \in Ips, IsBanned(x) PROVE ip \in DOMAIN banned' /\ banned'[ip] >= banned[ip]
  <2>1. CASE x \in PrivateIps \/ BanLive(x)
    BY <1>1, <1>3, <2>1 DEF IsBanned
  <2>2. CASE ~(x \in PrivateIps \/ BanLive(x))
    <3>1. x # ip
      BY <1>0, <1>3, <2>2 DEF IsBanned, BanLive
    <3>2. banned' = Only(banned, Ips \ {x})
      BY <1>3, <2>2 DEF IsBanned
    <3> QED BY <1>0, <3>1, <3>2 DEF Only
  <2> QED BY <2>1, <2>2
<1>4. ASSUME NEW x \in Ips, RecordBans(x) PROVE ip \in DOMAIN banned' /\ banned'[ip] >= banned[ip]
  <2>1. banned' = Put(banned, x, now + BanTime)
    BY <1>4 DEF RecordBans
  <2>2. ip \in DOMAIN banned' /\ banned'[ip] = IF ip = x THEN now + BanTime ELSE banned[ip]
    BY <2>1 DEF Put
  <2> QED BY <1>0, <2>2
<1> QED BY <1>1, <1>2, <1>3, <1>4
        DEF Next, RecordAttempt, RecordExempt, RecordCounted, Tick, limiterVars

\* A ban that is still running survives every question, attempt and clean-up
\* in guard.py, and is never shortened.
THEOREM BansStand == Spec => BanStands
<1> DEFINE Kept == \A ip \in DOMAIN banned :
                      now' < banned[ip] => /\ ip \in DOMAIN banned'
                                           /\ banned'[ip] >= banned[ip]
<1>1. TypeOK /\ [Next]_limiterVars => [Kept]_limiterVars
  BY BanKept
<1> QED BY <1>1, TypeCorrect, PTL DEF Spec, BanStands

-----------------------------------------------------------------------------
(* RateLimiter implements BanPolicy: the deques and bans that linger until  *)
(* someone cleans them up cannot be observed.                               *)

\* The entries of a window that no longer count at time t.
Old(dq, t) == {i \in 1..Len(dq) : t - dq[i] > Window}

\* In a well-formed window they are the first ones, and what the popleft loop
\* leaves is what lies behind them.
LEMMA OldIsPrefix ==
    ASSUME now \in Nat, NEW dq, Window_OK(dq), NEW t \in Nat
    PROVE  \E n \in 0..Len(dq) :
              /\ Old(dq, t) = 1..n
              /\ DropExpired(dq, Old(dq, t)) = SubSeq(dq, n + 1, Len(dq))
<1>1. dq \in Seq(1..now) /\ Len(dq) \in Nat
    BY LenProperties DEF Window_OK
<1>2. \A i \in 1..Len(dq) : dq[i] \in 1..now
    BY <1>1, ElementOfSeq
<1>3. Old(dq, t) \in SUBSET (1..Len(dq))
    BY DEF Old
<1> DEFINE k == FirstLive(dq, Old(dq, t))
<1>4. k \in 1..(Len(dq) + 1) /\ k \notin Old(dq, t) /\ \A j \in 1..(k - 1) : j \in Old(dq, t)
    BY <1>1, <1>3, FirstLiveProperties
<1>5. DropExpired(dq, Old(dq, t)) = SubSeq(dq, k, Len(dq))
    BY DEF DropExpired
<1> HIDE DEF k
<1>6. ASSUME NEW i \in Old(dq, t) PROVE i \in 1..(k - 1)
  <2>1. i \in 1..Len(dq) /\ t - dq[i] > Window
      BY DEF Old
  <2>2. CASE k <= i
    <3>1. k \in 1..Len(dq) /\ dq[k] <= dq[i]
        BY <1>1, <1>4, <2>1, <2>2 DEF Window_OK
    <3>2. t - dq[k] > Window
        BY <1>2, <2>1, <3>1, LimiterAssumption
    <3>3. k \in Old(dq, t)
        BY <3>1, <3>2 DEF Old
    <3> QED BY <1>4, <3>3
  <2> QED BY <1>1, <1>4, <2>1, <2>2
<1>7. Old(dq, t) = 1..(k - 1)
    BY <1>4, <1>6
<1>8. k - 1 \in 0..Len(dq) /\ (k - 1) + 1 = k
    BY <1>1, <1>4
<1> QED BY <1>5, <1>7, <1>8

\* A window without old entries stays as it is.
LEMMA YoungStays ==
    ASSUME now \in Nat, NEW dq, Window_OK(dq), NEW t \in Nat, Old(dq, t) = {}
    PROVE  DropExpired(dq, Old(dq, t)) = dq
<1>1. dq \in Seq(1..now) /\ Len(dq) \in Nat
    BY LenProperties DEF Window_OK
<1>2. PICK n \in 0..Len(dq) :
          /\ Old(dq, t) = 1..n
          /\ DropExpired(dq, Old(dq, t)) = SubSeq(dq, n + 1, Len(dq))
    BY OldIsPrefix
<1>3. n = 0
  <2>1. n # 0 => 1 \in 1..n
      BY <1>1
  <2> QED BY <1>2, <2>1
<1>4. SubSeq(dq, 1, Len(dq)) = dq
    BY <1>1, SubSeqFull
<1> QED BY <1>2, <1>3, <1>4

\* Purging now and again later is purging later: the second time drops the
\* entries that have become old since.
LEMMA PurgedTwice ==
    ASSUME now \in Nat, NEW dq, Window_OK(dq), NEW t \in Nat, now <= t
    PROVE  LET r == DropExpired(dq, Old(dq, now))
           IN  /\ Window_OK(r)
               /\ Old(r, now) = {}
               /\ \E n \in 0..Len(r) :
                     /\ Old(r, t) = 1..n
                     /\ DropExpired(dq, Old(dq, t)) = SubSeq(r, n + 1, Len(r))
<1> DEFINE r == DropExpired(dq, Old(dq, now))
<1>1. dq \in Seq(1..now) /\ Len(dq) \in Nat
    BY LenProperties DEF Window_OK
<1>2. \A i \in 1..Len(dq) : dq[i] \in 1..now
    BY <1>1, ElementOfSeq
<1>3. Window_OK(r)
    BY FreshProperties DEF Fresh, TooOld, Old
<1>4. r \in Seq(1..now) /\ Len(r) \in Nat
    BY <1>3, LenProperties DEF Window_OK
<1>5. PICK a \in 0..Len(dq) : Old(dq, now) = 1..a /\ r = SubSeq(dq, a + 1, Len(dq))
    BY OldIsPrefix
<1>6. PICK b \in 0..Len(dq) :
          /\ Old(dq, t) = 1..b
          /\ DropExpired(dq, Old(dq, t)) = SubSeq(dq, b + 1, Len(dq))
    BY OldIsPrefix
<1> HIDE DEF r
<1>7. /\ Len(r) = Len(dq) - a
      /\ \A i \in 1..(Len(dq) - a) : r[i] = dq[a + i]
  <2>1. \A i \in (a + 1)..Len(dq) : dq[i] \in 1..now
      BY <1>2
  <2>2. /\ Len(SubSeq(dq, a + 1, Len(dq))) =
              IF a + 1 <= Len(dq) THEN Len(dq) - (a + 1) + 1 ELSE 0
        /\ \A i \in 1..(Len(dq) - (a + 1) + 1) :
              SubSeq(dq, a + 1, Len(dq))[i] = dq[(a + 1) + i - 1]
      BY <1>1, <2>1, SubSeqProperties
  <2> QED BY <1>1, <1>5, <2>2
<1>8. a <= b
  <2>1. Old(dq, now) \subseteq Old(dq, t)
      BY <1>2, LimiterAssumption DEF Old
  <2>2. a # 0 => a \in 1..a
      BY <1>1
  <2>3. a # 0 => a \in 1..b
      BY <1>5, <1>6, <2>1, <2>2
  <2> QED BY <1>1, <2>3
<1>9. Old(r, now) = {}
  <2> SUFFICES ASSUME NEW i \in Old(r, now) PROVE FALSE
      OBVIOUS
  <2>1. i \in 1..(Len(dq) - a) /\ now - dq[a + i] > Window
      BY <1>7 DEF Old
  <2>2. a + i \in 1..Len(dq)
      BY <1>1, <2>1
  <2>3. a + i \in Old(dq, now)
      BY <2>1, <2>2 DEF Old
  <2> QED BY <1>1, <1>5, <2>1, <2>3
<1>10. Old(r, t) = 1..(b - a)
  <2>1. ASSUME NEW i \in 1..(Len(dq) - a)
        PROVE  i \in Old(r, t) <=> a + i \in 1..b
    <3>1. a + i \in 1..Len(dq) /\ r[i] = dq[a + i] /\ i \in 1..Len(r)
        BY <1>1, <1>7
    <3>2. i \in Old(r, t) <=> a + i \in Old(dq, t)
        BY <3>1 DEF Old
    <3> QED BY <1>6, <3>2
  <2>2. Old(r, t) \subseteq 1..(Len(dq) - a)
      BY <1>7 DEF Old
  <2>3. ASSUME NEW i \in Old(r, t) PROVE i \in 1..(b - a)
      BY <1>1, <2>1, <2>2
  <2>4. ASSUME NEW i \in 1..(b - a) PROVE i \in Old(r, t)
      BY <1>1, <1>8, <2>1
  <2> QED BY <2>3, <2>4
<1>11. SubSeq(dq, b + 1, Len(dq)) = SubSeq(r, (b - a) + 1, Len(r))
  <2> DEFINE u == SubSeq(dq, b + 1, Len(dq))
             v == SubSeq(r, (b - a) + 1, Len(r))
  <2>1. \A i \in (b + 1)..Len(dq) : dq[i] \in 1..now
      BY <1>2
  <2>2. \A i \in ((b - a) + 1)..Len(r) : r[i] \in 1..now
      BY <1>4, <1>8, ElementOfSeq
  <2>3. /\ u \in Seq(1..now)
        /\ Len(u) = IF b + 1 <= Len(dq) THEN Len(dq) - (b + 1) + 1 ELSE 0
        /\ \A i \in 1..(Len(dq) - (b + 1) + 1) : u[i] = dq[(b + 1) + i - 1]
      BY <1>1, <2>1, SubSeqProperties
  <2>4. /\ v \in Seq(1..now)
        /\ Len(v) = IF (b - a) + 1 <= Len(r) THEN Len(r) - ((b - a) + 1) + 1 ELSE 0
        /\ \A i \in 1..(Len(r) - ((b - a) + 1) + 1) : v[i] = r[((b - a) + 1) + i - 1]
      BY <1>4, <2>2, SubSeqProperties
  <2> HIDE DEF u, v
  <2>5. Len(u) = Len(dq) - b /\ Len(v) = Len(dq) - b
      BY <1>1, <1>7, <2>3, <2>4
  <2>6. ASSUME NEW i \in 1..Len(u) PROVE u[i] = v[i]
    <3>a. i \in Nat /\ b \in Nat /\ a \in Nat
          /\ i \in 1..(Len(dq) - (b + 1) + 1)
          /\ i \in 1..(Len(r) - ((b - a) + 1) + 1)
        BY <1>1, <1>7, <2>5
    <3>b. (b + 1) + i - 1 = b + i /\ ((b - a) + 1) + i - 1 = (b - a) + i
        BY <3>a
    <3>c. u[i] = dq[(b + 1) + i - 1]
        BY <2>3, <3>a
    <3>d. v[i] = r[((b - a) + 1) + i - 1]
        BY <2>4, <3>a
    <3>1. u[i] = dq[b + i]
        BY <3>b, <3>c
    <3>2. v[i] = r[(b - a) + i]
        BY <3>b, <3>d
    <3>3. (b - a) + i \in 1..(Len(dq) - a) /\ a + ((b - a) + i) = b + i
        BY <1>1, <1>8, <2>5
    <3>4. r[(b - a) + i] = dq[b + i]
        BY <1>7, <3>3
    <3> QED BY <3>1, <3>2, <3>4
  <2>7. u = v
      BY <2>3, <2>4, <2>5, <2>6, SeqEqual
  <2> QED BY <2>7 DEF u, v
<1>12. b - a \in 0..Len(r)
    BY <1>1, <1>7, <1>8
<1> QED BY <1>3, <1>6, <1>9, <1>10, <1>11, <1>12 DEF r

-----------------------------------------------------------------------------
\* What the policy sees of the limiter's dictionaries.
Strikes == [ip \in Ips |-> Fresh(Deque(ip))]
Until == [ip \in Ips |-> IF BanLive(ip) THEN banned[ip] ELSE 0]

\* Purging a window twice at the same moment is purging it once.
LEMMA FreshTwice ==
    ASSUME now \in Nat, NEW dq, Window_OK(dq)
    PROVE  Fresh(Fresh(dq)) = Fresh(dq)
<1>1. Window_OK(Fresh(dq)) /\ Old(Fresh(dq), now) = {}
    BY PurgedTwice DEF Fresh, TooOld, Old
<1>2. DropExpired(Fresh(dq), Old(Fresh(dq), now)) = Fresh(dq)
    BY <1>1, YoungStays
<1> QED BY <1>2 DEF Fresh, TooOld, Old

\* The empty window stays empty.
LEMMA FreshEmpty == now \in Nat => Fresh(<<>>) = <<>>
<1> SUFFICES ASSUME now \in Nat PROVE Fresh(<<>>) = <<>>
    OBVIOUS
<1>1. <<>> \in Seq(1..now) /\ Len(<<>>) = 0
    BY EmptySeq
<1>2. Window_OK(<<>>)
    BY <1>1, LimiterAssumption DEF Window_OK
<1>3. Old(<<>>, now) = {}
    BY <1>1 DEF Old
<1>4. DropExpired(<<>>, Old(<<>>, now)) = <<>>
    BY <1>2, <1>3, YoungStays
<1> QED BY <1>4 DEF Fresh, TooOld, Old

\* A window that has been purged and has grown needs no purging.
LEMMA FreshGrown ==
    ASSUME now \in Nat \ {0}, NEW dq, Window_OK(dq),
           Len(Append(Fresh(dq), now)) <= MaxAttempts
    PROVE  Fresh(Append(Fresh(dq), now)) = Append(Fresh(dq), now)
<1> DEFINE r == Fresh(dq)
           g == Append(r, now)
<1>1. Window_OK(r) /\ Old(r, now) = {}
    BY PurgedTwice DEF Fresh, TooOld, Old
<1>2. Window_OK(g)
    BY <1>1, CountedProperties
<1>3. r \in Seq(1..now) /\ Len(r) \in Nat /\ now \in 1..now
    BY <1>1, LenProperties DEF Window_OK
<1> HIDE DEF r
<1>4. /\ Len(g) = Len(r) + 1
      /\ \A i \in 1..Len(r) : g[i] = r[i]
      /\ g[Len(r) + 1] = now
    BY <1>3, AppendProperties
<1> HIDE DEF g
<1>5. Old(g, now) = {}
  <2> SUFFICES ASSUME NEW i \in Old(g, now) PROVE FALSE
      OBVIOUS
  <2>1. i \in 1..(Len(r) + 1) /\ now - g[i] > Window
      BY <1>4 DEF Old
  <2>2. CASE i = Len(r) + 1
      BY <1>4, <2>1, <2>2, LimiterAssumption
  <2>3. CASE i \in 1..Len(r)
      BY <1>1, <1>4, <2>1, <2>3 DEF Old
  <2> QED BY <1>3, <2>1, <2>2, <2>3
<1>6. DropExpired(g, Old(g, now)) = g
    BY <1>2, <1>5, YoungStays
<1> QED BY <1>6 DEF Fresh, TooOld, Old, g, r

-----------------------------------------------------------------------------
\* Time: what has become old is forgotten, what has run out is lifted.
LEMMA TickRefines == TypeOK /\ Tick => Policy!Tick
<1> SUFFICES ASSUME TypeOK, Tick PROVE Policy!Tick
    OBVIOUS
<1>1. /\ now \in Nat /\ now' \in (now + 1)..MaxTime /\ now' \in Nat /\ now <= now'
      /\ UNCHANGED <<attempts, banned, answer>>
    BY LimiterAssumption DEF TypeOK, Tick
<1>2. ASSUME NEW ip \in Ips
      PROVE  \E k \in 0..MaxAttempts :
                /\ Old(Strikes[ip], now') = 1..k
                /\ Strikes'[ip] = SubSeq(Strikes[ip], k + 1, Len(Strikes[ip]))
  <2> DEFINE dq == Deque(ip)
             r == DropExpired(dq, Old(dq, now))
  <2>1. Window_OK(dq)
      BY DequeProperties
  <2>2. Strikes[ip] = r
      BY DEF Strikes, Fresh, TooOld, Old
  <2>3. Deque(ip)' = dq
      BY <1>1 DEF Deque
  <2>4. Strikes'[ip] = DropExpired(dq, Old(dq, now'))
      BY <2>3 DEF Strikes, Fresh, TooOld, Old
  <2> HIDE DEF dq
  <2>5. /\ Window_OK(r)
        /\ \E n \in 0..Len(r) :
              /\ Old(r, now') = 1..n
              /\ DropExpired(dq, Old(dq, now')) = SubSeq(r, n + 1, Len(r))
      BY <1>1, <2>1, PurgedTwice
  <2> HIDE DEF r
  <2>6. Len(r) \in Nat /\ Len(r) <= MaxAttempts
      BY <2>5, LenProperties DEF Window_OK
  <2>7. 0..Len(r) \subseteq 0..MaxAttempts
      BY <2>6, LimiterAssumption
  <2> QED BY <2>2, <2>4, <2>5, <2>7
<1> DEFINE Forgets(ip, k) ==
              /\ Old(Strikes[ip], now') = 1..k
              /\ Strikes'[ip] = SubSeq(Strikes[ip], k + 1, Len(Strikes[ip]))
           n == [ip \in Ips |-> CHOOSE k \in 0..MaxAttempts : Forgets(ip, k)]
<1>3. \A ip \in Ips : n[ip] \in 0..MaxAttempts /\ Forgets(ip, n[ip])
  <2> HIDE DEF Forgets
  <2>1. \A ip \in Ips : \E k \in 0..MaxAttempts : Forgets(ip, k)
      BY <1>2 DEF Forgets
  <2> QED BY <2>1
<1>4. n \in [Ips -> 0..MaxAttempts]
    BY <1>3
<1> HIDE DEF n
<1>5. Strikes' = [ip \in Ips |->
                    SubSeq(Strikes[ip], n[ip] + 1, Len(Strikes[ip]))]
  <2>1. Strikes' = [ip \in Ips |-> Strikes'[ip]]
      BY DEF Strikes
  <2> QED BY <1>3, <2>1
<1>6. \A ip \in Ips : 1..n[ip] = Old(Strikes[ip], now')
    BY <1>3
<1>7. Until' = [ip \in Ips |-> IF now' < Until[ip] THEN Until[ip] ELSE 0]
  <2>1. ASSUME NEW ip \in Ips
        PROVE  Until'[ip] = IF now' < Until[ip] THEN Until[ip] ELSE 0
    <3>1. CASE ip \in DOMAIN banned
      <4>1. banned[ip] \in Nat
          BY <3>1, LimiterAssumption DEF TypeOK
      <4> QED BY <1>1, <3>1, <4>1 DEF Until, BanLive
    <3>2. CASE ip \notin DOMAIN banned
        BY <1>1, <3>2 DEF Until, BanLive
    <3> QED BY <3>1, <3>2
  <2>2. Until' = [ip \in Ips |-> Until'[ip]]
      BY DEF Until
  <2> QED BY <2>1, <2>2
<1>8. \E t \in (now + 1)..MaxTime, m \in [Ips -> 0..MaxAttempts] :
        /\ \A ip \in Ips : 1..m[ip] = {i \in 1..Len(Strikes[ip]) : t - Strikes[ip][i] > Window}
        /\ now' = t
        /\ Strikes' = [ip \in Ips |-> SubSeq(Strikes[ip], m[ip] + 1, Len(Strikes[ip]))]
        /\ Until' = [ip \in Ips |-> IF t < Until[ip] THEN Until[ip] ELSE 0]
        /\ UNCHANGED answer
    BY <1>1, <1>4, <1>5, <1>6, <1>7 DEF Old
<1> QED BY <1>8 DEF Policy!Tick, Policy!Outdated, Strikes, Until

\* Where neither the strikes nor the bans that the policy sees change.
LEMMA Unseen ==
    ASSUME TypeOK, now' = now,
           \A ip \in Ips : Fresh(Deque(ip))' = Fresh(Deque(ip)),
           \A ip \in Ips : BanLive(ip)' = BanLive(ip)
                           /\ (BanLive(ip) => banned'[ip] = banned[ip])
    PROVE  Strikes' = Strikes /\ Until' = Until
BY DEF Strikes, Until

\* is_banned deletes a ban only when it is over.
LEMMA AskRefines == ASSUME TypeOK, NEW ip \in Ips, IsBanned(ip) PROVE Policy!Ask(ip)
<1>1. now' = now /\ attempts' = attempts
    BY DEF IsBanned
<1>2. \A x \in Ips : BanLive(x)' = BanLive(x) /\ (BanLive(x) => banned'[x] = banned[x])
    BY <1>1 DEF IsBanned, Only, BanLive, TypeOK
<1>3. \A x \in Ips : Fresh(Deque(x))' = Fresh(Deque(x))
    BY <1>1 DEF Fresh, TooOld, Deque
<1>4. Strikes' = Strikes /\ Until' = Until
    BY <1>1, <1>2, <1>3, Unseen
<1>5. BanLive(ip) <=> Until[ip] # 0
    BY LimiterAssumption DEF BanLive, Until, TypeOK
<1>6. answer' = [op |-> "is_banned", ip |-> ip,
                 said |-> ip \notin PrivateIps /\ Until[ip] # 0]
    BY <1>5 DEF IsBanned, Reply
<1> QED BY <1>1, <1>4, <1>6 DEF Policy!Ask, Strikes, Until

\* cleanup drops what the policy has dropped before.
LEMMA CleanupRefines == TypeOK /\ Cleanup => UNCHANGED Policy!policyVars
<1> SUFFICES ASSUME TypeOK, Cleanup PROVE UNCHANGED Policy!policyVars
    OBVIOUS
<1>1. now' = now /\ answer' = answer /\ now \in Nat
    BY DEF Cleanup, TypeOK
<1>2. \A x \in Ips : BanLive(x)' = BanLive(x) /\ (BanLive(x) => banned'[x] = banned[x])
  <2>1. \A x \in DOMAIN banned : banned[x] > now <=> now < banned[x]
      BY <1>1, LimiterAssumption DEF TypeOK
  <2> QED BY <1>1, <2>1 DEF Cleanup, Only, BanLive
<1>3. ASSUME NEW x \in Ips PROVE Fresh(Deque(x))' = Fresh(Deque(x))
  <2>1. Window_OK(Deque(x))
      BY DequeProperties
  <2>2. Fresh(Fresh(Deque(x))) = Fresh(Deque(x)) /\ Fresh(<<>>) = <<>>
      BY <1>1, <2>1, FreshTwice, FreshEmpty
  <2>3. Deque(x)' = Fresh(Deque(x))
    <3>1. CASE x \in DOMAIN attempts /\ Fresh(attempts[x]) # <<>>
        BY <3>1 DEF Cleanup, Deque
    <3>2. CASE x \in DOMAIN attempts /\ Fresh(attempts[x]) = <<>>
        BY <3>2 DEF Cleanup, Deque
    <3>3. CASE x \notin DOMAIN attempts
        BY <2>2, <3>3 DEF Cleanup, Deque
    <3> QED BY <3>1, <3>2, <3>3
  <2>4. Fresh(Deque(x))' = Fresh(Deque(x)')
      BY <1>1 DEF Fresh, TooOld
  <2> QED BY <2>2, <2>3, <2>4
<1>4. Strikes' = Strikes /\ Until' = Until
    BY <1>1, <1>2, <1>3, Unseen
<1> QED BY <1>1, <1>4 DEF Policy!policyVars, Strikes, Until

\* record_attempt of a private address.
LEMMA ExemptRefines ==
    ASSUME TypeOK, NEW ip \in Ips, RecordExempt(ip) PROVE Policy!Exempt(ip)
<1>1. UNCHANGED <<now, attempts, banned>>
    BY DEF RecordExempt
<1>2. Strikes' = Strikes /\ Until' = Until
    BY <1>1 DEF Strikes, Until, Fresh, TooOld, Deque, BanLive
<1> QED BY <1>1, <1>2 DEF RecordExempt, Reply, Policy!Exempt, Strikes, Until

\* record_attempt of a public one: purged, grown, and emptied by a ban.
LEMMA StrikeRefines ==
    ASSUME TypeOK, NEW ip \in Ips, RecordCounted(ip) \/ RecordBans(ip)
    PROVE  Policy!Strike(ip)
<1> DEFINE dq == Append(Fresh(Deque(ip)), now)
           over == Len(dq) > MaxAttempts
<1>1. /\ now' = now /\ now \in Nat \ {0} /\ ip \notin PrivateIps
      /\ MaxAttempts \in Nat /\ BanTime \in Nat \ {0}
  <2>1. now' = now /\ ip \notin PrivateIps
      BY DEF RecordCounted, RecordBans
  <2>2. now \in Nat \ {0} /\ MaxAttempts \in Nat /\ BanTime \in Nat \ {0}
      BY LimiterAssumption DEF TypeOK
  <2> QED BY <2>1, <2>2
<1>2. Window_OK(Deque(ip)) /\ Window_OK(Fresh(Deque(ip)))
    BY <1>1, DequeProperties, FreshProperties
<1>3. Len(dq) \in Nat
  <2>1. Fresh(Deque(ip)) \in Seq(1..now) /\ now \in 1..now
      BY <1>1, <1>2 DEF Window_OK
  <2>2. dq \in Seq(1..now)
      BY <2>1, AppendProperties
  <2> QED BY <2>2, LenProperties
<1>4. ASSUME NEW x \in Ips, x # ip
      PROVE  /\ Fresh(Deque(x))' = Fresh(Deque(x))
             /\ BanLive(x)' = BanLive(x) /\ (BanLive(x) => banned'[x] = banned[x])
  <2>1. Deque(x)' = Deque(x)
      BY <1>4 DEF RecordCounted, RecordBans, Put, Deque
  <2>2. BanLive(x)' = BanLive(x) /\ (BanLive(x) => banned'[x] = banned[x])
      BY <1>1, <1>4 DEF RecordCounted, RecordBans, Put, BanLive
  <2> QED BY <1>1, <2>1, <2>2 DEF Fresh, TooOld
<1>5. Fresh(Deque(ip))' = Fresh(Deque(ip)')
    BY <1>1 DEF Fresh, TooOld
<1>6. CASE RecordCounted(ip)
  <2>1. /\ Len(dq) <= MaxAttempts /\ ~over
        /\ attempts' = Put(attempts, ip, dq) /\ banned' = banned
        /\ answer' = [op |-> "record_attempt", ip |-> ip, said |-> FALSE]
    <3>1. Len(dq) <= MaxAttempts
        BY <1>6 DEF RecordCounted
    <3>2. ~over
        BY <1>1, <1>3, <3>1
    <3> QED BY <1>6, <3>1, <3>2 DEF RecordCounted, Reply
  <2>2. Deque(ip)' = dq
      BY <2>1 DEF Put, Deque
  <2>3. Fresh(dq) = dq
      BY <1>1, <1>2, <1>3, <2>1, FreshGrown
  <2> HIDE DEF dq
  <2>4. Strikes' = [Strikes EXCEPT ![ip] = dq]
      BY <1>4, <1>5, <2>2, <2>3 DEF Strikes
  <2>5. Until' = Until
      BY <1>1, <2>1 DEF Until, BanLive
  <2>6. Append(Strikes[ip], now) = dq
      BY DEF Strikes, dq
  <2>7. (Len(Append(Strikes[ip], now)) > MaxAttempts) = FALSE
      BY <2>1, <2>6
  <2>8. [op |-> "record_attempt", ip |-> ip,
         said |-> Len(Append(Strikes[ip], now)) > MaxAttempts] = answer'
      BY <2>1, <2>7
  <2>9. LET struck == Append(Strikes[ip], now)
            late   == Len(struck) > MaxAttempts
        IN  /\ Strikes' = [Strikes EXCEPT ![ip] = IF late THEN <<>> ELSE struck]
            /\ Until' = IF late THEN [Until EXCEPT ![ip] = now + BanTime] ELSE Until
      BY <2>4, <2>5, <2>6, <2>7
  <2> QED BY <1>1, <2>8, <2>9 DEF Policy!Strike, Strikes, Until
<1>7. CASE RecordBans(ip)
  <2>1. /\ over /\ attempts' = Put(attempts, ip, <<>>)
        /\ banned' = Put(banned, ip, now + BanTime)
        /\ answer' = [op |-> "record_attempt", ip |-> ip, said |-> TRUE]
      BY <1>7 DEF RecordBans, Reply
  <2>2. Deque(ip)' = <<>>
      BY <2>1 DEF Put, Deque
  <2>3. Fresh(<<>>) = <<>>
      BY <1>1, FreshEmpty
  <2>4. BanLive(ip)' /\ banned'[ip] = now + BanTime
      BY <1>1, <2>1 DEF Put, BanLive
  <2> HIDE DEF dq
  <2>5. Strikes' = [Strikes EXCEPT ![ip] = <<>>]
      BY <1>4, <1>5, <2>2, <2>3 DEF Strikes
  <2>6. Until' = [Until EXCEPT ![ip] = now + BanTime]
      BY <1>4, <2>4 DEF Until
  <2> QED BY <1>1, <2>1, <2>5, <2>6 DEF Policy!Strike, Strikes, Until, dq
<1> QED BY <1>6, <1>7

\* Empty dictionaries are no strikes and no bans.
LEMMA InitRefines == Init => Policy!Init
<1> SUFFICES ASSUME Init PROVE Policy!Init
    OBVIOUS
<1>1. now = 1 /\ Fresh(<<>>) = <<>>
    BY FreshEmpty DEF Init
<1>2. \A ip \in Ips : Deque(ip) = <<>> /\ ~BanLive(ip)
    BY DEF Init, Deque, BanLive
<1>3. /\ Strikes = [ip \in Ips |-> <<>>]
      /\ Until = [ip \in Ips |-> 0]
    BY <1>1, <1>2 DEF Strikes, Until
<1> QED BY <1>1, <1>3 DEF Init, Policy!Init, Strikes, Until

\* Every step of the limiter is a step of the policy, or one it does not see.
LEMMA NextRefines ==
    TypeOK /\ [Next]_limiterVars => [Policy!Next]_(Policy!policyVars)
<1> SUFFICES ASSUME TypeOK, [Next]_limiterVars
             PROVE  [Policy!Next]_(Policy!policyVars)
    OBVIOUS
<1>1. CASE Tick
    BY <1>1, TickRefines DEF Policy!Next
<1>2. CASE Cleanup
    BY <1>2, CleanupRefines
<1>3. ASSUME NEW ip \in Ips, IsBanned(ip) PROVE Policy!Next
    BY <1>3, AskRefines DEF Policy!Next
<1>4. ASSUME NEW ip \in Ips, RecordAttempt(ip) PROVE Policy!Next
    BY <1>4, ExemptRefines, StrikeRefines DEF RecordAttempt, Policy!Next
<1>5. CASE UNCHANGED limiterVars
    BY <1>5 DEF limiterVars, Policy!policyVars, Fresh, TooOld, Deque, BanLive
<1> QED BY <1>1, <1>2, <1>3, <1>4, <1>5 DEF Next

\* No caller of is_banned and record_attempt can tell the lazily cleaned
\* limiter of utils/guard.py from a policy driven by the clock alone.
THEOREM Refinement == Spec => ImplementsPolicy
<1> QED BY InitRefines, NextRefines, TypeCorrect, PTL DEF Spec, ImplementsPolicy, Policy!Spec
=============================================================================
