-------------------------- MODULE ConnectionProofs --------------------------
(***************************************************************************)
(* Theorems about Connection, for any number of connections and addresses:  *)
(* newcomers do not renew a ban; the limiter inside runs as RateLimiter,    *)
(* whose theorems are cited; the types; and that only clients which had     *)
(* completed the handshake are counted against their address.               *)
(***************************************************************************)
EXTENDS Connection, ExpiryLemmas, FiniteSetTheorems, TLAPS

\* Who is asked for a header has completed the handshake.
PastHello ==
    /\ phase \in [Conns -> Phases] /\ finished \subseteq Conns
    /\ \A c \in Conns : phase[c] = "header" => c \in finished

\* Connections come from addresses and were accepted in the past; a ban has
\* an end, and private addresses are not banned.
Times ==
    /\ now \in Nat
    /\ ip \in [Conns -> Ips]
    /\ since \in [Conns -> Nat] /\ \A c \in Conns : since[c] <= now
    /\ DOMAIN banned \cap PrivateIps = {}
    /\ \A a \in DOMAIN banned : banned[a] \in Int

\* Who is inside while his address is banned was inside before.
InBeforeBan ==
    \A c \in Conns :
        phase[c] \notin {"new", "done"} /\ ip[c] \notin LocalIps /\ Guard!BanLive(ip[c])
            => since[c] <= banned[ip[c]] - BanTime

IInv == PastHello /\ Times /\ InBeforeBan

\* What a step does that moves one handler on and does not tell the limiter.
MovesOn(c) ==
    /\ finished' = finished \/ finished' = finished \cup {c}
    /\ \E p \in Phases \ {"new"} :
          /\ phase' = [phase EXCEPT ![c] = p]
          /\ p = "header" => c \in finished'
    /\ phase[c] \notin {"new", "done"}
    /\ UNCHANGED <<now, attempts, banned, ip, since>>

-----------------------------------------------------------------------------
\* Nobody has been accepted, nobody is banned: the invariant holds.
LEMMA InitInv == Init => IInv
<1> SUFFICES ASSUME Init PROVE IInv
    OBVIOUS
<1>1. PastHello
    BY DEF Init, PastHello, Phases
<1>2. Times
    BY DEF Init, Times, Guard!Init
<1>3. InBeforeBan
    BY DEF Init, InBeforeBan
<1> QED BY <1>1, <1>2, <1>3 DEF IInv

\* handle_client: an address the limiter calls banned is turned away; asking
\* deletes the ban at most.
LEMMA AcceptInv == ASSUME NEW c \in Conns, IInv, Accepts(c) PROVE IInv'
<1>1. /\ \E p \in {"hello", "done"} : phase' = [phase EXCEPT ![c] = p]
      /\ since' = [since EXCEPT ![c] = now]
      /\ UNCHANGED <<now, ip, finished>>
    BY DEF Accepts, AcceptLocal, AcceptAllowed, AcceptBanned, MayAccept,
           GoTimed, Close, guardVars
<1>2. /\ attempts' = attempts
      /\ DOMAIN banned' \subseteq DOMAIN banned
      /\ \A a \in DOMAIN banned' : banned'[a] = banned[a]
    BY DEF Accepts, AcceptLocal, AcceptAllowed, AcceptBanned, guardVars,
           Guard!IsBanned, Guard!Only
<1>3. PastHello'
    BY <1>1 DEF IInv, PastHello, Phases
<1>4. Times'
    BY <1>1, <1>2 DEF IInv, Times
<1>5. InBeforeBan'
  <2> SUFFICES ASSUME NEW d \in Conns, phase'[d] \notin {"new", "done"},
                      ip[d] \notin LocalIps, ip[d] \in DOMAIN banned',
                      now < banned'[ip[d]]
               PROVE  since'[d] <= banned'[ip[d]] - BanTime
      BY <1>1 DEF InBeforeBan, Guard!BanLive
  <2>1. Guard!BanLive(ip[d]) /\ banned'[ip[d]] = banned[ip[d]]
      BY <1>2 DEF Guard!BanLive
  <2>2. CASE d # c
      BY <1>1, <2>1, <2>2 DEF IInv, InBeforeBan, PastHello, Times
  <2>3. CASE d = c
    <3>1. phase'[c] # "done"
        BY <2>3
    <3>2. AcceptAllowed(c)
        BY <2>3, <3>1 DEF Accepts, AcceptLocal, AcceptBanned, Close, IInv, PastHello
    <3>3. ip[c] \notin PrivateIps
        BY <2>1, <2>3 DEF Guard!BanLive, IInv, Times
    <3>4. answer'.said = TRUE
        BY <2>1, <2>3, <3>2, <3>3 DEF AcceptAllowed, Guard!IsBanned, Guard!Reply
    <3> QED BY <3>2, <3>4 DEF AcceptAllowed
  <2> QED BY <2>2, <2>3
<1> QED BY <1>3, <1>4, <1>5 DEF IInv

\* The steps that move one handler on.
LEMMA MovesOnInv == ASSUME NEW c \in Conns, IInv, MovesOn(c) PROVE IInv'
<1>1. PICK p \in Phases \ {"new"} :
          /\ phase' = [phase EXCEPT ![c] = p]
          /\ p = "header" => c \in finished'
    BY DEF MovesOn
<1>2. /\ phase[c] \notin {"new", "done"}
      /\ finished' = finished \/ finished' = finished \cup {c}
      /\ UNCHANGED <<now, attempts, banned, ip, since>>
    BY DEF MovesOn
<1>3. PastHello'
    BY <1>1, <1>2 DEF IInv, PastHello
<1>4. InBeforeBan'
    BY <1>1, <1>2 DEF IInv, InBeforeBan, PastHello, Guard!BanLive
<1> QED BY <1>2, <1>3, <1>4 DEF IInv, Times

\* A bad header or an unknown user: the client's address gets an attempt or a ban of full length from now on.
LEMMA RecordInv ==
    ASSUME NEW c \in Conns, IInv, HeaderBad(c) \/ UnknownUser(c) PROVE IInv'
<1>1. /\ phase[c] = "header" /\ phase' = [phase EXCEPT ![c] = "done"]
      /\ Record(c)
      /\ UNCHANGED <<ip, since, finished>>
    BY DEF HeaderBad, UnknownUser, Leave, Go
<1>2. ip[c] \in Ips
    BY DEF IInv, Times
<1>3. CASE UNCHANGED <<now, attempts, banned>>
  <2>1. "done" \in Phases \ {"new"} /\ "done" # "header"
      BY DEF Phases
  <2>2. MovesOn(c)
      BY <1>1, <1>3, <2>1 DEF MovesOn
  <2> QED BY <2>2, MovesOnInv
<1>4. ASSUME /\ DOMAIN attempts' = DOMAIN attempts \cup {ip[c]} /\ now' = now
             /\ \/ banned' = banned
                \/ /\ ip[c] \notin PrivateIps
                   /\ banned' = Guard!Put(banned, ip[c], now + BanTime)
      PROVE  IInv'
  <2>1. /\ DOMAIN banned' \subseteq DOMAIN banned \cup {ip[c]}
        /\ DOMAIN banned' \cap PrivateIps = {}
        /\ \A a \in DOMAIN banned' : \/ a \in DOMAIN banned /\ banned'[a] = banned[a]
                                     \/ banned'[a] = now + BanTime
      BY <1>4 DEF Guard!Put, IInv, Times
  <2>2. PastHello'
      BY <1>1 DEF IInv, PastHello, Phases
  <2>3. Times'
      BY <1>1, <1>4, <2>1, ConnectionAssumption DEF IInv, Times
  <2>4. InBeforeBan'
    <3> SUFFICES ASSUME NEW d \in Conns, phase'[d] \notin {"new", "done"},
                        ip[d] \notin LocalIps, ip[d] \in DOMAIN banned',
                        now < banned'[ip[d]]
                 PROVE  since[d] <= banned'[ip[d]] - BanTime
        BY <1>1, <1>4 DEF InBeforeBan, Guard!BanLive
    <3>1. phase[d] \notin {"new", "done"}
        BY <1>1 DEF IInv, PastHello
    <3>2. since[d] <= now /\ since[d] \in Nat /\ now \in Nat
        BY DEF IInv, Times
    <3>3. CASE ip[d] \in DOMAIN banned /\ banned'[ip[d]] = banned[ip[d]]
        BY <3>1, <3>3 DEF IInv, InBeforeBan, Guard!BanLive
    <3>4. CASE banned'[ip[d]] = now + BanTime
        BY <3>2, <3>4, ConnectionAssumption
    <3> QED BY <2>1, <3>3, <3>4
  <2> QED BY <2>2, <2>3, <2>4 DEF IInv
<1>5. \/ UNCHANGED <<now, attempts, banned>>
      \/ /\ DOMAIN attempts' = DOMAIN attempts \cup {ip[c]} /\ now' = now
         /\ \/ banned' = banned
            \/ /\ ip[c] \notin PrivateIps
               /\ banned' = Guard!Put(banned, ip[c], now + BanTime)
    BY <1>1 DEF Record, guardVars, Guard!RecordAttempt, Guard!RecordExempt,
                Guard!RecordCounted, Guard!RecordBans, Guard!Put
<1> QED BY <1>3, <1>4, <1>5

\* Peers leave, time passes, the limiter is cleaned up.
LEMMA WorldInv ==
    ASSUME IInv,
           \/ \E c \in Conns : ClientLeaves(c) \/ DestLeaves(c)
           \/ Tick \/ Cleanup \/ UNCHANGED vars
    PROVE  IInv'
<1>1. /\ now' \in Nat /\ now <= now'
      /\ UNCHANGED <<ip, phase, since, finished>>
      /\ DOMAIN attempts' \subseteq DOMAIN attempts
      /\ DOMAIN banned' \subseteq DOMAIN banned
      /\ \A a \in DOMAIN banned' : banned'[a] = banned[a]
  <2>0. now \in Nat /\ now <= now
      BY DEF IInv, Times
  <2>1. CASE \E c \in Conns : ClientLeaves(c) \/ DestLeaves(c)
    <3>1. UNCHANGED <<now, attempts, banned, ip, phase, since, finished>>
        BY <2>1 DEF ClientLeaves, DestLeaves, guardVars, connVars
    <3> QED BY <2>0, <3>1
  <2>2. CASE Tick
      BY <2>2 DEF Tick, guardVars, connVars, IInv, Times
  <2>3. CASE Cleanup
      BY <2>3 DEF Cleanup, Guard!Cleanup, Guard!Only, connVars, IInv, Times
  <2>4. CASE UNCHANGED vars
      BY <2>4 DEF vars, guardVars, connVars, IInv, Times
  <2> QED BY <2>1, <2>2, <2>3, <2>4
<1>2. PastHello'
    BY <1>1 DEF IInv, PastHello
<1>3. Times'
    BY <1>1 DEF IInv, Times
<1>4. InBeforeBan'
    BY <1>1 DEF IInv, Times, InBeforeBan, Guard!BanLive
<1> QED BY <1>2, <1>3, <1>4 DEF IInv

\* The other steps of a handler move it on.
LEMMA HandlersMoveOn ==
    ASSUME NEW c \in Conns, IInv,
           \/ Hellos(c) \/ TimesOut(c) \/ Finishes(c) \/ Forwards(c) \/ HeaderFails(c)
           \/ OverLimit(c) \/ Admit(c) \/ Serves(c)
    PROVE  MovesOn(c)
<1> USE DEF MovesOn, Phases, Quiet, guardVars
<1>1. CASE Hellos(c)
    BY <1>1 DEF Hellos, NoHello, HelloNotTls, HelloBroken, HelloForeign, HelloAccepted,
                Go, GoTimed, Leave
<1>2. CASE TimesOut(c)
  <2>1. finished' = finished /\ phase' = [phase EXCEPT ![c] = "done"]
        /\ phase[c] \notin {"new", "done"} /\ UNCHANGED <<now, attempts, banned, ip, since>>
      BY <1>2 DEF TimesOut, Timed, Close
  <2>2. "done" \in Phases \ {"new"} /\ "done" # "header"
      OBVIOUS
  <2> QED BY <2>1, <2>2
<1>3. CASE Finishes(c)
    BY <1>3 DEF Finishes, FinishFails, FinishVerifies, Go, Leave
<1>4. CASE Forwards(c)
    BY <1>4 DEF Forwards, DialFails, DialSucceeds, ForwardEnds, Go, Close
<1>5. CASE HeaderFails(c) \/ OverLimit(c)
    BY <1>5 DEF HeaderFails, OverLimit, Go, Leave
<1>6. CASE Admit(c)
    BY <1>6 DEF Admit, Go, Leave
<1>7. CASE Serves(c)
    BY <1>7 DEF Serves, TcpEnds, UdpEnds, Go, Leave, Close
<1> QED BY <1>1, <1>2, <1>3, <1>4, <1>5, <1>6, <1>7

\* The four kinds of steps.
LEMMA Steps ==
    ASSUME IInv, [Next]_vars
    PROVE  \/ \E c \in Conns : \/ Accepts(c) \/ MovesOn(c)
                               \/ HeaderBad(c) \/ UnknownUser(c)
           \/ \E c \in Conns : ClientLeaves(c) \/ DestLeaves(c)
           \/ Tick \/ Cleanup \/ UNCHANGED vars
BY HandlersMoveOn DEF Next, Headers

\* Every step preserves the invariant.
LEMMA NextInv == IInv /\ [Next]_vars => IInv'
BY Steps, AcceptInv, MovesOnInv, RecordInv, WorldInv

-----------------------------------------------------------------------------
\* The invariant the theorems below rest on.
THEOREM InductiveInvariant == Spec => []IInv
BY InitInv, NextInv, PTL DEF Spec

\* While an address is banned nobody can have the ban renewed who was not
\* inside before it began (handle_client asks before anything else).
THEOREM Quenched == Spec => BanQuenches
<1>1. IInv /\ [Next]_vars =>
        [\A c \in Conns :
            (HeaderBad(c) \/ UnknownUser(c)) /\ Guard!BanLive(ip[c])
               /\ ip[c] \notin LocalIps
            => since[c] <= banned[ip[c]] - BanTime]_vars
    BY DEF IInv, InBeforeBan, HeaderBad, UnknownUser
<1> QED BY <1>1, InductiveInvariant, PTL DEF Spec, BanQuenches

-----------------------------------------------------------------------------
(* The limiter inside.                                                      *)

Limiter == INSTANCE RateLimiterProofs

\* The limiter that the handlers share is the one RateLimiterProofs is about.
LEMMA SameLimiter ==
    /\ Guard!TypeOK <=> Limiter!TypeOK
    /\ Guard!Init <=> Limiter!Init
    /\ Guard!Next <=> Limiter!Next
    /\ Guard!limiterVars = Limiter!limiterVars
<1>1. /\ \A op, a, said : Guard!Reply(op, a, said) <=> Limiter!Reply(op, a, said)
      /\ \A a : Guard!BanLive(a) <=> Limiter!BanLive(a)
      /\ \A d, k, v : Guard!Put(d, k, v) = Limiter!Put(d, k, v)
      /\ \A d, k : Guard!Only(d, k) = Limiter!Only(d, k)
    BY DEF Guard!Reply, Limiter!Reply, Guard!BanLive, Limiter!BanLive, Guard!Put,
           Limiter!Put, Guard!Only, Limiter!Only
<1>2. \A dq : Guard!Fresh(dq) = Limiter!Fresh(dq)
    BY DEF Guard!Fresh, Limiter!Fresh, Guard!TooOld, Limiter!TooOld,
           Guard!DropExpired, Limiter!DropExpired, Guard!FirstLive, Limiter!FirstLive
<1>3. \A a : Guard!Deque(a) = Limiter!Deque(a)
    BY DEF Guard!Deque, Limiter!Deque
<1>4. Guard!Cleanup <=> Limiter!Cleanup
    BY <1>1, <1>2 DEF Guard!Cleanup, Limiter!Cleanup
<1>5. \A a : Guard!IsBanned(a) <=> Limiter!IsBanned(a)
    BY <1>1 DEF Guard!IsBanned, Limiter!IsBanned
<1>6. \A a : Guard!RecordAttempt(a) <=> Limiter!RecordAttempt(a)
  <2>1. \A a : Guard!RecordExempt(a) <=> Limiter!RecordExempt(a)
      BY <1>1 DEF Guard!RecordExempt, Limiter!RecordExempt
  <2>2. \A a : Guard!RecordCounted(a) <=> Limiter!RecordCounted(a)
      BY <1>1, <1>2, <1>3 DEF Guard!RecordCounted, Limiter!RecordCounted
  <2>3. \A a : Guard!RecordBans(a) <=> Limiter!RecordBans(a)
      BY <1>1, <1>2, <1>3 DEF Guard!RecordBans, Limiter!RecordBans
  <2> QED BY <2>1, <2>2, <2>3 DEF Guard!RecordAttempt, Limiter!RecordAttempt
<1>7. Guard!Next <=> Limiter!Next
    BY <1>4, <1>5, <1>6 DEF Guard!Next, Limiter!Next, Guard!Tick, Limiter!Tick
<1>8. Guard!TypeOK <=> Limiter!TypeOK
    BY DEF Guard!TypeOK, Limiter!TypeOK, Guard!Answers, Limiter!Answers
<1> QED BY <1>7, <1>8 DEF Guard!Init, Limiter!Init, Guard!limiterVars, Limiter!limiterVars

\* The limiter's types, from the theorems about it.
LEMMA LimiterTypes ==
    /\ Guard!Init => Guard!TypeOK
    /\ Guard!TypeOK /\ [Guard!Next]_(Guard!limiterVars) => Guard!TypeOK'
<1>1. Limiter!Init => Limiter!TypeOK
    BY Limiter!InitTypes, ConnectionAssumption
       DEF Limiter!PrivateAssumption, Limiter!LimiterAssumption
<1>2. Limiter!TypeOK /\ [Limiter!Next]_(Limiter!limiterVars) => Limiter!TypeOK'
    BY Limiter!NextTypes, ConnectionAssumption
       DEF Limiter!PrivateAssumption, Limiter!LimiterAssumption
<1>3. Guard!TypeOK' <=> Limiter!TypeOK'
    BY DEF Guard!TypeOK, Limiter!TypeOK, Guard!Answers, Limiter!Answers
<1>4. UNCHANGED Guard!limiterVars <=> UNCHANGED Limiter!limiterVars
    BY DEF Guard!limiterVars, Limiter!limiterVars
<1> QED BY <1>1, <1>2, <1>3, <1>4, SameLimiter

\* What the limiter sees of a step of the server is a step of its own.
LEMMA LimiterSteps ==
    ASSUME now \in Nat, ip \in [Conns -> Ips], [Next]_vars
    PROVE  [Guard!Next]_(Guard!limiterVars)
<1> USE DEF Guard!limiterVars, Guard!Next
<1>1. CASE UNCHANGED <<now, guardVars>>
    BY <1>1 DEF guardVars
<1>2. CASE \E c \in Conns : Guard!IsBanned(ip[c]) \/ Guard!RecordAttempt(ip[c])
    BY <1>2
<1>3. CASE Tick
  <2>1. Guard!Tick
      BY <1>3, ConnectionAssumption DEF Tick, Guard!Tick, guardVars
  <2> QED BY <2>1
<1>4. CASE Cleanup
    BY <1>4 DEF Cleanup
<1>5. ASSUME NEW c \in Conns, Accepts(c)
      PROVE  UNCHANGED <<now, guardVars>> \/ Guard!IsBanned(ip[c])
    BY <1>5 DEF Accepts, AcceptLocal, AcceptAllowed, AcceptBanned, MayAccept
<1>6. ASSUME NEW c \in Conns, HeaderBad(c) \/ UnknownUser(c)
      PROVE  UNCHANGED <<now, guardVars>> \/ Guard!RecordAttempt(ip[c])
    BY <1>6 DEF HeaderBad, UnknownUser, Record
<1>7. ASSUME NEW c \in Conns,
             \/ Hellos(c) \/ TimesOut(c) \/ Finishes(c) \/ Forwards(c)
             \/ HeaderFails(c) \/ OverLimit(c) \/ Admit(c) \/ Serves(c)
             \/ ClientLeaves(c) \/ DestLeaves(c)
      PROVE  UNCHANGED <<now, guardVars>>
  <2> USE DEF Quiet
  <2>1. CASE Hellos(c) \/ TimesOut(c) \/ Finishes(c) \/ Forwards(c)
      BY <2>1 DEF Hellos, NoHello, HelloNotTls, HelloBroken, HelloForeign,
                  HelloAccepted, TimesOut, Finishes, FinishFails,
                  FinishVerifies, Forwards, DialFails, DialSucceeds, ForwardEnds
  <2>2. CASE HeaderFails(c) \/ OverLimit(c) \/ Admit(c) \/ Serves(c)
      BY <2>2 DEF HeaderFails, OverLimit, Admit, Serves, TcpEnds, UdpEnds
  <2>3. CASE ClientLeaves(c) \/ DestLeaves(c)
      BY <2>3 DEF ClientLeaves, DestLeaves
  <2> QED BY <1>7, <2>1, <2>2, <2>3
<1>8. CASE UNCHANGED vars
    BY <1>8, <1>1 DEF vars
<1> QED BY <1>1, <1>2, <1>3, <1>4, <1>5, <1>6, <1>7, <1>8 DEF Next, Headers

-----------------------------------------------------------------------------
(* Types.                                                                   *)

\* The types of what the handlers keep.
OwnTypes ==
    /\ ip \in [Conns -> Ips]
    /\ phase \in [Conns -> Phases]
    /\ deadline \in [Conns -> 0..MaxTime]
    /\ since \in [Conns -> 0..MaxTime]
    /\ sock \in [Conns -> {"open", "closed"}]
    /\ client \in [Conns -> {"here", "gone"}]
    /\ dest \in [Conns -> {"here", "gone"}]
    /\ conns \in Nat
    /\ finished \subseteq Conns

\* No timer is overdue, and the one of a hello leaves the time for another.
TimersInv ==
    \A c \in Conns :
        /\ phase[c] \in Timed => now <= deadline[c]
        /\ phase[c] = "hello" => deadline[c] + ShakeTimeout <= MaxTime

TypesInv == Guard!TypeOK /\ OwnTypes /\ TimersInv

\* What a step of one handler does to the timers.
HandlerTypes(c) ==
    /\ now' = now
    /\ \E p \in Phases \ {"hello"}, d \in 0..MaxTime :
          /\ phase' = [phase EXCEPT ![c] = p] /\ deadline' = [deadline EXCEPT ![c] = d]
          /\ p \in Timed => now <= d

LEMMA HandlerTimers ==
    ASSUME TypesInv, NEW c \in Conns, HandlerTypes(c)
    PROVE  /\ phase' \in [Conns -> Phases] /\ deadline' \in [Conns -> 0..MaxTime]
           /\ TimersInv'
<1>1. PICK p \in Phases \ {"hello"}, d \in 0..MaxTime :
          /\ phase' = [phase EXCEPT ![c] = p] /\ deadline' = [deadline EXCEPT ![c] = d]
          /\ p \in Timed => now <= d
    BY DEF HandlerTypes
<1>2. now' = now /\ phase \in [Conns -> Phases] /\ deadline \in [Conns -> 0..MaxTime]
    BY DEF HandlerTypes, TypesInv, OwnTypes
<1>3. phase' \in [Conns -> Phases] /\ deadline' \in [Conns -> 0..MaxTime]
    BY <1>1, <1>2
<1>4. ASSUME NEW b \in Conns
      PROVE  /\ phase'[b] = IF b = c THEN p ELSE phase[b]
             /\ deadline'[b] = IF b = c THEN d ELSE deadline[b]
    BY <1>1, <1>2
<1>5. TimersInv'
    BY <1>1, <1>2, <1>4 DEF TypesInv, TimersInv
<1> QED BY <1>3, <1>5

\* The steps of a handler that has been accepted, for its own types: the
\* phase it goes to and the timer it sets, the rest in its range.
LEMMA HandlerSteps ==
    ASSUME TypesInv, NEW c \in Conns,
           Hellos(c) \/ TimesOut(c) \/ Finishes(c) \/ Forwards(c) \/ Headers(c) \/ Serves(c)
    PROVE  HandlerTypes(c)
<1>1. /\ now \in Nat /\ now <= now /\ MaxTime \in Nat /\ ShakeTimeout \in Nat
      /\ deadline[c] \in 0..MaxTime /\ deadline = [deadline EXCEPT ![c] = deadline[c]]
  <2>1. Guard!TypeOK
      BY DEF TypesInv
  <2>2. now \in Nat /\ MaxTime \in Nat /\ ShakeTimeout \in Nat
      BY <2>1, ConnectionAssumption DEF Guard!TypeOK
  <2> QED BY <2>2 DEF TypesInv, OwnTypes
<1>2. ASSUME NEW p \in Phases \ Timed, phase' = [phase EXCEPT ![c] = p],
             UNCHANGED <<now, deadline>>
      PROVE  HandlerTypes(c)
    BY <1>1, <1>2 DEF HandlerTypes, Timed
<1>3. ASSUME NEW p \in Timed \ {"hello"}, GoTimed(c, p, ShakeTimeout), phase[c] = "hello",
             now' = now
      PROVE  HandlerTypes(c)
  <2>1. now <= deadline[c] /\ deadline[c] + ShakeTimeout <= MaxTime
      BY <1>3 DEF TypesInv, TimersInv, Timed
  <2>2. now + ShakeTimeout \in 0..MaxTime /\ now <= now + ShakeTimeout
      BY <1>1, <2>1
  <2>3. p \in Phases \ {"hello"}
      BY DEF Timed, Phases
  <2> QED BY <1>3, <2>2, <2>3 DEF HandlerTypes, GoTimed
<1>4. CASE phase[c] = "dial" /\ Go(c, "forward") /\ now' = now
  <2>1. now <= deadline[c]
      BY <1>4 DEF TypesInv, TimersInv, Timed
  <2>2. "forward" \in Phases \ {"hello"}
      BY DEF Phases
  <2> QED BY <1>1, <1>4, <2>1, <2>2 DEF HandlerTypes, Go
<1>5. \A p \in {"raw dial", "raw forward", "header", "tcp", "udp", "done"} :
          p \in Phases \ Timed
    BY DEF Phases, Timed
<1>6. CASE \/ NoHello(c) \/ HelloNotTls(c) \/ HelloBroken(c) \/ TimesOut(c) \/ Finishes(c)
           \/ HeaderFails(c) \/ OverLimit(c) \/ Admit(c) \/ Serves(c)
    BY <1>2, <1>5, <1>6 DEF NoHello, HelloNotTls, HelloBroken, TimesOut, Finishes,
       FinishFails, FinishVerifies, HeaderFails, OverLimit, Admit, Serves, TcpEnds, UdpEnds,
       Leave, Go, Close, Quiet
<1>7. CASE HeaderBad(c) \/ UnknownUser(c)
  <2>1. now' = now
      BY <1>7 DEF HeaderBad, UnknownUser, Record, Guard!RecordAttempt, Guard!RecordExempt,
                  Guard!RecordCounted, Guard!RecordBans
  <2> QED BY <1>2, <1>5, <1>7, <2>1 DEF HeaderBad, UnknownUser, Leave, Go
<1>8. CASE Forwards(c)
    BY <1>2, <1>4, <1>5, <1>8 DEF Forwards, DialFails, DialSucceeds, ForwardEnds, Close, Go, Quiet
<1>9. CASE HelloForeign(c) \/ HelloAccepted(c)
  <2>1. "dial" \in Timed \ {"hello"} /\ "finish" \in Timed \ {"hello"}
      BY DEF Timed
  <2> QED BY <1>2, <1>3, <1>5, <1>9, <2>1
            DEF HelloForeign, HelloAccepted, Leave, Go, Quiet
<1> QED BY <1>6, <1>7, <1>8, <1>9 DEF Hellos, Headers

\* Handlers share one limiter, and for it they are a client like any other:
\* whatever RateLimiterProofs shows of it is so in the server.
THEOREM LimiterRuns == Spec => Guard!Spec
<1>1. Init => Guard!Init
    BY DEF Init
<1>2. IInv /\ [Next]_vars => [Guard!Next]_(Guard!limiterVars)
    BY LimiterSteps DEF IInv, Times
<1> QED BY <1>1, <1>2, InductiveInvariant, PTL DEF Spec, Guard!Spec

\* The rest of what those steps leave in its range.
LEMMA HandlerRest ==
    ASSUME TypesInv, NEW c \in Conns,
           Hellos(c) \/ TimesOut(c) \/ Finishes(c) \/ Forwards(c) \/ Headers(c) \/ Serves(c)
    PROVE  /\ UNCHANGED <<ip, since, client, dest>>
           /\ sock' \in [Conns -> {"open", "closed"}]
           /\ conns' \in Nat
           /\ finished' \subseteq Conns
<1> USE DEF TypesInv, OwnTypes
<1>1. UNCHANGED <<ip, since, client, dest>>
    BY DEF Hellos, NoHello, HelloNotTls, HelloBroken, HelloForeign, HelloAccepted,
       TimesOut, Finishes, FinishFails, FinishVerifies, Forwards, DialFails,
       DialSucceeds, ForwardEnds, Headers, HeaderBad, HeaderFails, UnknownUser, OverLimit,
       Admit, Serves, TcpEnds, UdpEnds, Quiet, endVars
<1>2. sock' = sock \/ sock' = [sock EXCEPT ![c] = "closed"]
    BY DEF Hellos, NoHello, HelloNotTls, HelloBroken, HelloForeign, HelloAccepted,
       TimesOut, Finishes, FinishFails, FinishVerifies, Forwards, DialFails,
       DialSucceeds, ForwardEnds, Headers, HeaderBad, HeaderFails, UnknownUser, OverLimit,
       Admit, Serves, TcpEnds, UdpEnds, Go, GoTimed, Leave, Close
<1>3. finished' = finished \/ finished' = finished \cup {c}
    BY DEF Hellos, NoHello, HelloNotTls, HelloBroken, HelloForeign, HelloAccepted,
       TimesOut, Finishes, FinishFails, FinishVerifies, Forwards, DialFails,
       DialSucceeds, ForwardEnds, Headers, HeaderBad, HeaderFails, UnknownUser, OverLimit,
       Admit, Serves, TcpEnds, UdpEnds, Quiet
<1>4. conns' = conns \/ conns' = conns + 1
    BY DEF Hellos, NoHello, HelloNotTls, HelloBroken, HelloForeign, HelloAccepted,
       TimesOut, Finishes, FinishFails, FinishVerifies, Forwards, DialFails,
       DialSucceeds, ForwardEnds, Headers, HeaderBad, HeaderFails, UnknownUser, OverLimit,
       Admit, Serves, TcpEnds, UdpEnds, Quiet
<1>5. sock' \in [Conns -> {"open", "closed"}]
    BY <1>2
<1>6. finished' \subseteq Conns
    BY <1>3
<1>7. conns' \in Nat
    BY <1>4
<1> QED BY <1>1, <1>5, <1>6, <1>7

\* A connection is accepted while its two timers can still run out.
LEMMA AcceptTypes == ASSUME TypesInv, NEW c \in Conns, Accepts(c) PROVE OwnTypes' /\ TimersInv'
<1>1. now \in Nat /\ MaxTime \in Nat /\ HelloTimeout \in Nat /\ ShakeTimeout \in Nat
      /\ now <= MaxTime
    BY ConnectionAssumption DEF TypesInv, Guard!TypeOK
<1>2. /\ now' = now /\ now + HelloTimeout + ShakeTimeout <= MaxTime
      /\ since' = [since EXCEPT ![c] = now]
      /\ UNCHANGED <<ip, client, dest, conns, finished>>
      /\ \/ /\ phase' = [phase EXCEPT ![c] = "hello"] /\ sock' = sock
            /\ deadline' = [deadline EXCEPT ![c] = now + HelloTimeout]
         \/ /\ phase' = [phase EXCEPT ![c] = "done"] /\ sock' = [sock EXCEPT ![c] = "closed"]
            /\ deadline' = deadline
    BY DEF Accepts, AcceptLocal, AcceptAllowed, AcceptBanned, MayAccept, endVars, GoTimed, Close
<1>3. now + HelloTimeout \in 0..MaxTime /\ now \in 0..MaxTime
      /\ now <= now + HelloTimeout
    BY <1>1, <1>2
<1>4. /\ phase \in [Conns -> Phases] /\ deadline \in [Conns -> 0..MaxTime]
      /\ since \in [Conns -> 0..MaxTime] /\ sock \in [Conns -> {"open", "closed"}]
    BY DEF TypesInv, OwnTypes
<1>5. /\ phase' \in [Conns -> Phases] /\ sock' \in [Conns -> {"open", "closed"}]
      /\ since' \in [Conns -> 0..MaxTime]
    BY <1>2, <1>3, <1>4 DEF Phases
<1>6. deadline' \in [Conns -> 0..MaxTime]
    BY <1>2, <1>3, <1>4
<1>7. OwnTypes'
    BY <1>2, <1>5, <1>6 DEF TypesInv, OwnTypes
<1>8. ASSUME NEW b \in Conns
      PROVE  /\ phase'[b] \in Timed => now' <= deadline'[b]
             /\ phase'[b] = "hello" => deadline'[b] + ShakeTimeout <= MaxTime
  <2>1. CASE b # c
      BY <1>2, <1>4, <2>1 DEF TypesInv, TimersInv
  <2>2. CASE b = c
      BY <1>1, <1>2, <1>3, <1>4, <2>2 DEF Timed
  <2> QED BY <2>1, <2>2
<1> QED BY <1>7, <1>8 DEF TimersInv

LEMMA NextTypes == TypesInv /\ IInv /\ [Next]_vars => TypesInv'
<1> SUFFICES ASSUME TypesInv, IInv, [Next]_vars PROVE TypesInv'
    OBVIOUS
<1>1. Guard!TypeOK'
  <2>1. [Guard!Next]_(Guard!limiterVars)
      BY LimiterSteps DEF IInv, Times
  <2> QED BY <2>1, LimiterTypes DEF TypesInv
<1>2. ASSUME NEW c \in Conns,
             Hellos(c) \/ TimesOut(c) \/ Finishes(c) \/ Forwards(c) \/ Headers(c) \/ Serves(c)
      PROVE  OwnTypes' /\ TimersInv'
  <2>1. OwnTypes'
      BY <1>2, HandlerSteps, HandlerTimers, HandlerRest DEF TypesInv, OwnTypes
  <2> QED BY <1>2, <2>1, HandlerSteps, HandlerTimers
<1>3. ASSUME NEW c \in Conns, ClientLeaves(c) \/ DestLeaves(c)
      PROVE  OwnTypes' /\ TimersInv'
  <2>1. client' \in [Conns -> {"here", "gone"}] /\ dest' \in [Conns -> {"here", "gone"}]
      BY <1>3 DEF ClientLeaves, DestLeaves, TypesInv, OwnTypes
  <2>2. UNCHANGED <<now, ip, phase, deadline, sock, since, conns, finished>>
      BY <1>3 DEF ClientLeaves, DestLeaves, connVars
  <2> QED BY <2>1, <2>2 DEF TypesInv, OwnTypes, TimersInv
<1>4. CASE Tick
  <2>1. /\ now' = now + 1 /\ \A c \in Conns : phase[c] \in Timed => now < deadline[c]
        /\ UNCHANGED <<ip, phase, deadline, sock, client, dest, since, conns, finished>>
      BY <1>4 DEF Tick, connVars, endVars
  <2>2. OwnTypes'
      BY <2>1 DEF TypesInv, OwnTypes
  <2>3. now \in Nat /\ deadline \in [Conns -> 0..MaxTime] /\ MaxTime \in Nat
      BY ConnectionAssumption DEF TypesInv, OwnTypes, IInv, Times
  <2>4. \A c \in Conns : phase'[c] \in Timed => now' <= deadline'[c]
      BY <2>1, <2>3
  <2>5. TimersInv'
      BY <2>1, <2>4 DEF TypesInv, TimersInv
  <2> QED BY <1>1, <2>2, <2>5 DEF TypesInv
<1>5. CASE Cleanup \/ UNCHANGED vars
  <2>1. UNCHANGED <<now, ip, phase, deadline, sock, client, dest, since, conns, finished>>
      BY <1>5 DEF Cleanup, Guard!Cleanup, connVars, endVars, vars
  <2>2. OwnTypes'
      BY <2>1 DEF TypesInv, OwnTypes
  <2>3. TimersInv'
      BY <2>1 DEF TypesInv, TimersInv
  <2> QED BY <1>1, <2>2, <2>3 DEF TypesInv
<1>6. ASSUME NEW c \in Conns, Accepts(c) PROVE OwnTypes' /\ TimersInv'
    BY <1>6, AcceptTypes
<1> QED BY <1>1, <1>2, <1>3, <1>4, <1>5, <1>6 DEF Next, TypesInv

LEMMA InitTypes == Init => TypesInv
<1> SUFFICES ASSUME Init PROVE TypesInv
    OBVIOUS
<1> USE DEF Init
<1>1. Guard!TypeOK
    BY LimiterTypes
<1>2. OwnTypes
  <2>1. 0 \in 0..MaxTime
      BY ConnectionAssumption
  <2> QED BY <2>1 DEF OwnTypes, Phases
<1>3. TimersInv
    BY DEF TimersInv, Timed
<1> QED BY <1>1, <1>2, <1>3 DEF TypesInv

\* Phases, timers and the limiter's dictionaries stay what their code makes
\* them; no timer of wait_for is overdue.
THEOREM TypeCorrect == Spec => []TypeOK
<1>1. TypesInv => TypeOK
    BY DEF TypesInv, OwnTypes, TimersInv, TypeOK
<1> QED BY <1>1, InitTypes, NextTypes, InductiveInvariant, PTL DEF Spec

-----------------------------------------------------------------------------
(* Who is counted.                                                          *)

\* What is over stays over, so an address has more and more such connections.
LEMMA EndedGrows ==
    ASSUME IInv, [Next]_vars, NEW a \in Ips
    PROVE  /\ IsFiniteSet(Ended(a)) /\ IsFiniteSet(Ended(a)')
           /\ Cardinality(Ended(a)) \in Nat /\ Cardinality(Ended(a)') \in Nat
           /\ Cardinality(Ended(a)) <= Cardinality(Ended(a)')
<1>1. ip' = ip /\ finished \subseteq finished'
      /\ \A c \in Conns : phase[c] = "done" => phase'[c] = "done"
  <2>1. ASSUME NEW c \in Conns, Accepts(c)
        PROVE  /\ phase[c] = "new" /\ \E p \in {"hello", "done"} : phase' = [phase EXCEPT ![c] = p]
               /\ ip' = ip /\ finished' = finished
      BY <2>1 DEF Accepts, AcceptLocal, AcceptAllowed, AcceptBanned, MayAccept, GoTimed, Close
  <2>2. ASSUME NEW c \in Conns, MovesOn(c)
        PROVE  /\ phase[c] # "done" /\ \E p \in Phases : phase' = [phase EXCEPT ![c] = p]
               /\ ip' = ip /\ finished \subseteq finished'
      BY <2>2 DEF MovesOn
  <2>3. ASSUME NEW c \in Conns, HeaderBad(c) \/ UnknownUser(c)
        PROVE  phase' = [phase EXCEPT ![c] = "done"] /\ ip' = ip /\ finished' = finished
      BY <2>3 DEF HeaderBad, UnknownUser, Leave, Go
  <2>4. ASSUME \/ \E c \in Conns : ClientLeaves(c) \/ DestLeaves(c)
               \/ Tick \/ Cleanup \/ UNCHANGED vars
        PROVE  phase' = phase /\ ip' = ip /\ finished' = finished
      BY <2>4 DEF ClientLeaves, DestLeaves, Tick, Cleanup, vars, connVars
  <2>5. phase \in [Conns -> Phases]
      BY DEF IInv, PastHello
  <2> QED BY <2>1, <2>2, <2>3, <2>4, <2>5, Steps
<1>2. Ended(a) \subseteq Ended(a)' /\ Ended(a) \subseteq Conns /\ Ended(a)' \subseteq Conns
    BY <1>1 DEF Ended
<1>3. IsFiniteSet(Ended(a)) /\ IsFiniteSet(Ended(a)')
    BY <1>2, ConnectionAssumption, FS_Subset
<1> QED BY <1>2, <1>3, FS_Subset, FS_CardinalityType

\* A deque loses entries when it is purged, and gains none.
LEMMA PurgeShortens ==
    ASSUME NEW S, NEW dq \in Seq(S)
    PROVE  Len(Guard!Fresh(dq)) \in 0..Len(dq) /\ Guard!Fresh(dq) \in Seq(S)
<1>1. Guard!TooOld(dq) \in SUBSET (1..Len(dq))
    BY DEF Guard!TooOld
<1>2. PICK d \in 0..Len(dq) : /\ DropExpired(dq, Guard!TooOld(dq)) \in Seq(S)
                              /\ Len(DropExpired(dq, Guard!TooOld(dq))) = Len(dq) - d
    BY <1>1, DropExpiredProperties
<1>3. Guard!Fresh(dq) = DropExpired(dq, Guard!TooOld(dq))
    BY DEF Guard!Fresh, Guard!DropExpired, DropExpired, Guard!FirstLive, FirstLive
<1>4. Len(dq) \in Nat
    BY LenProperties
<1> QED BY <1>2, <1>3, <1>4

\* The deques of a limiter in its types.
LEMMA Deques ==
    ASSUME Guard!TypeOK, NEW a
    PROVE  now \in Nat /\ Guard!Deque(a) \in Seq(1..now) /\ Len(Guard!Deque(a)) \in Nat
<1>1. now \in Nat
    BY DEF Guard!TypeOK
<1>2. Guard!Deque(a) \in Seq(1..now)
    BY EmptySeq DEF Guard!TypeOK, Guard!Deque
<1> QED BY <1>1, <1>2, LenProperties

\* Counting a client that has just got past the handshake: its address gets
\* one more attempt, or a ban, and one more such connection that is over.
LEMMA RecordCounts ==
    ASSUME IInv, TypesInv, OnlyClientsAreCounted, [Next]_vars,
           NEW c \in Conns, HeaderBad(c) \/ UnknownUser(c)
    PROVE  OnlyClientsAreCounted'
<1> DEFINE old(a) == Cardinality(Ended(a))
           new(a) == Cardinality(Ended(a)')
<1>1. /\ phase[c] = "header" /\ phase' = [phase EXCEPT ![c] = "done"] /\ Record(c)
      /\ UNCHANGED <<ip, finished>>
    BY DEF HeaderBad, UnknownUser, Leave, Go
<1>2. c \in finished /\ ip \in [Conns -> Ips] /\ phase \in [Conns -> Phases]
    BY <1>1 DEF IInv, PastHello, Times
<1> PICK me \in Ips : me = ip[c]
    BY <1>2
<1>3. \A a \in Ips : old(a) \in Nat /\ new(a) \in Nat /\ old(a) <= new(a)
    BY EndedGrows
<1>4. new(me) = old(me) + 1
  <2>1. Ended(me)' = Ended(me) \cup {c} /\ c \notin Ended(me)
      BY <1>1, <1>2 DEF Ended
  <2> QED BY <2>1, EndedGrows, FS_AddElement
<1>5. \A a \in Ips : /\ Len(Guard!Deque(a)) <= old(a)
                     /\ a \in DOMAIN banned => old(a) > MaxAttempts
                     /\ a \in LocalIps => a \notin DOMAIN attempts \cup DOMAIN banned
    BY DEF OnlyClientsAreCounted
<1> DEFINE dq == Guard!Fresh(Guard!Deque(me))
<1>6. dq \in Seq(1..now) /\ Len(dq) \in Nat /\ Len(dq) <= old(me) /\ now \in Nat
      /\ Len(Append(dq, now)) = Len(dq) + 1
  <2>1. /\ now \in Nat /\ Guard!Deque(me) \in Seq(1..now)
        /\ Len(Guard!Deque(me)) \in Nat /\ Len(Guard!Deque(me)) <= old(me)
      BY <1>2, <1>5, Deques DEF TypesInv
  <2>2. dq \in Seq(1..now) /\ Len(dq) \in 0..Len(Guard!Deque(me))
      BY <2>1, PurgeShortens
  <2> QED BY <1>2, <1>3, <2>1, <2>2
<1> HIDE DEF dq
<1>7. \/ UNCHANGED <<attempts, banned>>
      \/ /\ me \notin LocalIps
         /\ \/ attempts' = Guard!Put(attempts, me, Append(dq, now)) /\ banned' = banned
            \/ /\ attempts' = Guard!Put(attempts, me, <<>>)
               /\ banned' = Guard!Put(banned, me, now + BanTime)
               /\ Len(Append(dq, now)) > MaxAttempts
    BY <1>1 DEF Record, guardVars, Guard!RecordAttempt, Guard!RecordExempt,
                Guard!RecordCounted, Guard!RecordBans, dq
<1>8. ASSUME NEW a \in Ips
      PROVE  /\ Len(Guard!Deque(a)') <= new(a)
             /\ a \in DOMAIN banned' => new(a) > MaxAttempts
             /\ a \in LocalIps => a \notin DOMAIN attempts' \cup DOMAIN banned'
  <2>0. Len(Guard!Deque(a)) \in Nat /\ MaxAttempts \in Nat
      BY Deques, ConnectionAssumption DEF TypesInv
  <2>1. CASE UNCHANGED <<attempts, banned>>
    <3>1. Guard!Deque(a)' = Guard!Deque(a)
        BY <2>1 DEF Guard!Deque
    <3> QED BY <1>3, <1>5, <2>0, <2>1, <3>1
  <2>2. CASE /\ me \notin LocalIps
             /\ attempts' = Guard!Put(attempts, me, Append(dq, now)) /\ banned' = banned
    <3>1. Guard!Deque(a)' = IF a = me THEN Append(dq, now) ELSE Guard!Deque(a)
        BY <2>2 DEF Guard!Deque, Guard!Put
    <3>2. Len(Guard!Deque(a)') <= new(a)
        BY <1>3, <1>4, <1>5, <1>6, <2>0, <3>1
    <3>3. DOMAIN attempts' = DOMAIN attempts \cup {me}
        BY <2>2 DEF Guard!Put
    <3> QED BY <1>3, <1>5, <2>0, <2>2, <3>2, <3>3
  <2>3. CASE /\ me \notin LocalIps
             /\ attempts' = Guard!Put(attempts, me, <<>>)
             /\ banned' = Guard!Put(banned, me, now + BanTime)
             /\ Len(Append(dq, now)) > MaxAttempts
    <3>1. Guard!Deque(a)' = IF a = me THEN <<>> ELSE Guard!Deque(a)
        BY <2>3 DEF Guard!Deque, Guard!Put
    <3>2. Len(Guard!Deque(a)') <= new(a)
        BY <1>3, <1>5, <2>0, <3>1
    <3>3. /\ DOMAIN attempts' = DOMAIN attempts \cup {me}
          /\ DOMAIN banned' = DOMAIN banned \cup {me}
        BY <2>3 DEF Guard!Put
    <3>4. a = me => new(a) > MaxAttempts
        BY <1>3, <1>4, <1>6, <2>0, <2>3
    <3> QED BY <1>3, <1>5, <2>0, <2>3, <3>2, <3>3, <3>4
  <2> QED BY <1>7, <2>1, <2>2, <2>3
<1> QED BY <1>8 DEF OnlyClientsAreCounted

\* Nobody else adds to the limiter's dictionaries.
LEMMA OthersDoNotCount ==
    ASSUME IInv, TypesInv, OnlyClientsAreCounted, [Next]_vars,
           \/ \E c \in Conns : Accepts(c) \/ MovesOn(c) \/ ClientLeaves(c) \/ DestLeaves(c)
           \/ Tick \/ Cleanup \/ UNCHANGED vars
    PROVE  OnlyClientsAreCounted'
<1>1. /\ DOMAIN attempts' \subseteq DOMAIN attempts
      /\ DOMAIN banned' \subseteq DOMAIN banned
      /\ \A a \in DOMAIN attempts' : \/ attempts'[a] = attempts[a]
                                     \/ attempts'[a] = Guard!Fresh(attempts[a])
  <2>1. CASE \E c \in Conns : Accepts(c)
      BY <2>1 DEF Accepts, AcceptLocal, AcceptAllowed, AcceptBanned, guardVars,
                  Guard!IsBanned, Guard!Only
  <2>2. CASE \E c \in Conns : MovesOn(c)
      BY <2>2 DEF MovesOn
  <2>3. CASE \E c \in Conns : ClientLeaves(c) \/ DestLeaves(c)
      BY <2>3 DEF ClientLeaves, DestLeaves, guardVars
  <2>4. CASE Tick \/ UNCHANGED vars
      BY <2>4 DEF Tick, vars, guardVars
  <2>5. CASE Cleanup
      BY <2>5 DEF Cleanup, Guard!Cleanup, Guard!Only
  <2> QED BY <2>1, <2>2, <2>3, <2>4, <2>5
<1>2. ASSUME NEW a \in Ips
      PROVE  /\ Len(Guard!Deque(a)') \in Nat
             /\ Len(Guard!Deque(a)') <= Len(Guard!Deque(a))
  <2>1. /\ now \in Nat /\ Guard!Deque(a) \in Seq(1..now)
        /\ Len(Guard!Deque(a)) \in Nat
      BY Deques DEF TypesInv
  <2>2. Len(Guard!Fresh(Guard!Deque(a))) \in 0..Len(Guard!Deque(a))
      BY <2>1, PurgeShortens
  <2>3. \/ Guard!Deque(a)' = Guard!Deque(a)
        \/ Guard!Deque(a)' = Guard!Fresh(Guard!Deque(a))
        \/ Guard!Deque(a)' = <<>>
      BY <1>1 DEF Guard!Deque
  <2> QED BY <2>1, <2>2, <2>3
<1>3. ASSUME NEW a \in Ips
      PROVE  /\ Len(Guard!Deque(a)') <= Cardinality(Ended(a)')
             /\ a \in DOMAIN banned' => Cardinality(Ended(a)') > MaxAttempts
             /\ a \in LocalIps => a \notin DOMAIN attempts' \cup DOMAIN banned'
  <2>1. /\ Cardinality(Ended(a)) \in Nat /\ Cardinality(Ended(a)') \in Nat
        /\ Cardinality(Ended(a)) <= Cardinality(Ended(a)')
      BY EndedGrows
  <2>2. /\ Len(Guard!Deque(a)) <= Cardinality(Ended(a))
        /\ a \in DOMAIN banned => Cardinality(Ended(a)) > MaxAttempts
        /\ a \in LocalIps => a \notin DOMAIN attempts \cup DOMAIN banned
      BY DEF OnlyClientsAreCounted
  <2>3. Len(Guard!Deque(a)) \in Nat /\ MaxAttempts \in Nat
      BY Deques, ConnectionAssumption DEF TypesInv
  <2> QED BY <1>1, <1>2, <2>1, <2>2, <2>3
<1> QED BY <1>3 DEF OnlyClientsAreCounted

\* At first there is nothing in the dictionaries.
LEMMA InitCounts == Init => OnlyClientsAreCounted
<1> SUFFICES ASSUME Init PROVE OnlyClientsAreCounted
    OBVIOUS
<1>1. DOMAIN attempts = {} /\ DOMAIN banned = {}
    BY DEF Init, Guard!Init
<1>2. ASSUME NEW a \in Ips PROVE Len(Guard!Deque(a)) <= Cardinality(Ended(a))
  <2>1. Ended(a) \subseteq Conns
      BY DEF Ended
  <2>2. Cardinality(Ended(a)) \in Nat
      BY <2>1, ConnectionAssumption, FS_Subset, FS_CardinalityType
  <2>3. Len(Guard!Deque(a)) = 0
      BY <1>1 DEF Guard!Deque
  <2> QED BY <2>2, <2>3
<1> QED BY <1>1, <1>2 DEF OnlyClientsAreCounted

\* Strangers, broken hellos and failed handshakes never count against an
\* address: each of its attempts and each step to a ban is a connection of its
\* own that had completed the handshake (_handle_client_inner).
THEOREM ClientsCounted == Spec => []OnlyClientsAreCounted
<1>1. IInv /\ TypesInv /\ OnlyClientsAreCounted /\ [Next]_vars => OnlyClientsAreCounted'
    BY Steps, RecordCounts, OthersDoNotCount
<1> QED BY <1>1, InitCounts, InitTypes, NextTypes, InductiveInvariant, PTL DEF Spec
=============================================================================
