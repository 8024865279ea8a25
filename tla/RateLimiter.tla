---------------------------- MODULE RateLimiter -----------------------------
(***************************************************************************)
(* The RateLimiter of utils/guard.py.  attempts and banned are the code's   *)
(* dictionaries: functions whose domain is the set of keys present.  Both   *)
(* are cleaned lazily - a ban is deleted when someone asks about it, an old *)
(* attempt when a new one is recorded - and once in a while by cleanup().   *)
(***************************************************************************)
EXTENDS Integers, Sequences, Expiry

CONSTANTS
    Ips,          \* client addresses
    PrivateIps,   \* those that _is_private_ip recognises
    MaxAttempts,  \* max_attempts
    Window,       \* window
    BanTime,      \* ban_time
    MaxTime       \* bound on the clock, for TLC

ASSUME PrivateAssumption == PrivateIps \subseteq Ips
ASSUME LimiterAssumption ==
    /\ MaxAttempts \in Nat
    /\ Window \in Nat /\ BanTime \in Nat \ {0} /\ MaxTime \in Nat \ {0}

VARIABLES
    now,       \* time.time(), which does not go back here
    attempts,  \* self.attempts
    banned,    \* self.banned: the time each ban ends
    answer     \* what the last call returned

limiterVars == <<now, attempts, banned, answer>>

Answers == [op : {"none", "is_banned", "record_attempt"}, ip : Ips, said : BOOLEAN]

-----------------------------------------------------------------------------
\* A dictionary with one entry set, or with the entries of some keys only.
Put(d, k, v) == [x \in DOMAIN d \cup {k} |-> IF x = k THEN v ELSE d[x]]
Only(d, keys) == [x \in DOMAIN d \cap keys |-> d[x]]

\* attempts is a defaultdict: a missing key reads as an empty deque.
Deque(ip) == IF ip \in DOMAIN attempts THEN attempts[ip] ELSE <<>>

\* Mutant: the popleft loop is missing.
FreshNever(dq) == dq

\* What the popleft loop leaves of a deque.
TooOld(dq) == {i \in 1..Len(dq) : now - dq[i] > Window}
Fresh(dq) == DropExpired(dq, TooOld(dq))

BanLive(ip) == ip \in DOMAIN banned /\ now < banned[ip]

Reply(op, ip, said) == answer' = [op |-> op, ip |-> ip, said |-> said]

-----------------------------------------------------------------------------
Init ==
    /\ now = 1
    /\ attempts = [ip \in {} |-> <<>>]
    /\ banned = [ip \in {} |-> 0]
    /\ answer \in [op : {"none"}, ip : Ips, said : {FALSE}]

Tick ==
    /\ now' \in (now + 1)..MaxTime
    /\ UNCHANGED <<attempts, banned, answer>>

\* is_banned: a private address never is; a ban that has run out is deleted
\* on the way to answering False.
IsBanned(ip) ==
    /\ Reply("is_banned", ip, ip \notin PrivateIps /\ BanLive(ip))
    /\ banned' = IF ip \in PrivateIps \/ BanLive(ip) THEN banned
                 ELSE Only(banned, Ips \ {ip})
    /\ UNCHANGED <<now, attempts>>

RecordExempt(ip) ==
    /\ ip \in PrivateIps
    /\ Reply("record_attempt", ip, FALSE)
    /\ UNCHANGED <<now, attempts, banned>>

\* record_attempt below the limit: the deque is purged, then grows.
RecordCounted(ip) ==
    LET dq == Append(Fresh(Deque(ip)), now)
    IN  /\ ip \notin PrivateIps
        /\ Len(dq) <= MaxAttempts
        /\ attempts' = Put(attempts, ip, dq)
        /\ Reply("record_attempt", ip, FALSE)
        /\ UNCHANGED <<now, banned>>

\* Mutant: the ban does not empty the deque.
RecordBansKeeping(ip) ==
    LET dq == Append(Fresh(Deque(ip)), now)
    IN  /\ ip \notin PrivateIps
        /\ Len(dq) > MaxAttempts
        /\ attempts' = Put(attempts, ip, dq)
        /\ banned' = Put(banned, ip, now + BanTime)
        /\ Reply("record_attempt", ip, TRUE)
        /\ UNCHANGED now

\* record_attempt above the limit: ban, and start counting from nothing.  The
\* address keeps its (empty) deque.
RecordBans(ip) ==
    LET dq == Append(Fresh(Deque(ip)), now)
    IN  /\ ip \notin PrivateIps
        /\ Len(dq) > MaxAttempts
        /\ attempts' = Put(attempts, ip, <<>>)
        /\ banned' = Put(banned, ip, now + BanTime)
        /\ Reply("record_attempt", ip, TRUE)
        /\ UNCHANGED now

RecordAttempt(ip) == RecordExempt(ip) \/ RecordCounted(ip) \/ RecordBans(ip)

\* Mutant: cleanup keeps the bans that are over.
CleanupSwapped ==
    /\ banned' = Only(banned, {ip \in DOMAIN banned : banned[ip] <= now})
    /\ attempts' = [ip \in {x \in DOMAIN attempts : Fresh(attempts[x]) # <<>>} |->
                      Fresh(attempts[ip])]
    /\ UNCHANGED <<now, answer>>

\* cleanup, called by the statistics loop: drop the bans that are over, purge
\* every deque, and drop the addresses left with an empty one.
Cleanup ==
    /\ banned' = Only(banned, {ip \in DOMAIN banned : banned[ip] > now})
    /\ attempts' = [ip \in {x \in DOMAIN attempts : Fresh(attempts[x]) # <<>>} |->
                      Fresh(attempts[ip])]
    /\ UNCHANGED <<now, answer>>

Next ==
    \/ Tick
    \/ Cleanup
    \/ \E ip \in Ips : IsBanned(ip) \/ RecordAttempt(ip)

Spec == Init /\ [][Next]_limiterVars

-----------------------------------------------------------------------------
(* Properties.                                                              *)

\* Types: deques hold past times in order, never more than max_attempts of
\* them between two calls, and a private address is in neither dictionary.
TypeOK ==
    /\ now \in 1..MaxTime
    /\ DOMAIN attempts \subseteq Ips \ PrivateIps
    /\ \A ip \in DOMAIN attempts :
         /\ attempts[ip] \in Seq(1..now)
         /\ Len(attempts[ip]) <= MaxAttempts
         /\ \A i, j \in 1..Len(attempts[ip]) :
              i <= j => attempts[ip][i] <= attempts[ip][j]
    /\ DOMAIN banned \subseteq Ips \ PrivateIps
    /\ \A ip \in DOMAIN banned : banned[ip] \in 1..(now + BanTime)
    /\ answer \in Answers

\* A ban is never cut short and never forgotten while it lasts: neither by
\* attempts of connections that were let in before it, nor by cleanup.
BanStands ==
    [][\A ip \in DOMAIN banned :
         now' < banned[ip] => /\ ip \in DOMAIN banned'
                              /\ banned'[ip] >= banned[ip]]_limiterVars

\* The lazy limiter answers every caller as the policy does: that old entries
\* linger, that a ban is deleted by a question and that cleanup runs at any
\* moment cannot be observed.
Policy == INSTANCE BanPolicy WITH
    strikes <- [ip \in Ips |-> Fresh(Deque(ip))],
    until   <- [ip \in Ips |-> IF BanLive(ip) THEN banned[ip] ELSE 0]

ImplementsPolicy == Policy!Spec
=============================================================================
