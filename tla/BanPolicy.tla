----------------------------- MODULE BanPolicy ------------------------------
(***************************************************************************)
(* What utils/guard.py promises: an address that makes more than            *)
(* MaxAttempts failed attempts within Window is banned for BanTime, its     *)
(* count starting again from nothing.  Nothing here is lazy: an attempt is  *)
(* forgotten, and a ban lifted, by the clock itself.                        *)
(***************************************************************************)
EXTENDS Integers, Sequences

CONSTANTS Ips, PrivateIps, MaxAttempts, Window, BanTime, MaxTime

VARIABLES
    now,      \* the clock
    strikes,  \* per address, the times of its attempts that still count
    until,    \* per address, when its ban ends; 0 when it has none
    answer    \* the last answer given to a caller

policyVars == <<now, strikes, until, answer>>

Init ==
    /\ now = 1
    /\ strikes = [ip \in Ips |-> <<>>]
    /\ until = [ip \in Ips |-> 0]
    /\ answer \in [op : {"none"}, ip : Ips, said : {FALSE}]

\* The first n attempts of ip are those that no longer count at time t.
Outdated(ip, t, n) ==
    1..n = {i \in 1..Len(strikes[ip]) : t - strikes[ip][i] > Window}

\* The clock alone forgets attempts and lifts bans.
Tick ==
    \E t \in (now + 1)..MaxTime, n \in [Ips -> 0..MaxAttempts] :
        /\ \A ip \in Ips : Outdated(ip, t, n[ip])
        /\ now' = t
        /\ strikes' = [ip \in Ips |->
                         SubSeq(strikes[ip], n[ip] + 1, Len(strikes[ip]))]
        /\ until' = [ip \in Ips |-> IF t < until[ip] THEN until[ip] ELSE 0]
        /\ UNCHANGED answer

\* A caller asks whether an address is banned.
Ask(ip) ==
    /\ answer' = [op |-> "is_banned", ip |-> ip,
                  said |-> ip \notin PrivateIps /\ until[ip] # 0]
    /\ UNCHANGED <<now, strikes, until>>

\* An attempt below the limit counts; the one above it starts a ban.
Strike(ip) ==
    LET struck == Append(strikes[ip], now)
        over   == Len(struck) > MaxAttempts
    IN  /\ ip \notin PrivateIps
        /\ answer' = [op |-> "record_attempt", ip |-> ip, said |-> over]
        /\ strikes' = [strikes EXCEPT ![ip] = IF over THEN <<>> ELSE struck]
        /\ until' = IF over THEN [until EXCEPT ![ip] = now + BanTime] ELSE until
        /\ UNCHANGED now

\* Private addresses have no record.
Exempt(ip) ==
    /\ ip \in PrivateIps
    /\ answer' = [op |-> "record_attempt", ip |-> ip, said |-> FALSE]
    /\ UNCHANGED <<now, strikes, until>>

Next == Tick \/ \E ip \in Ips : Ask(ip) \/ Strike(ip) \/ Exempt(ip)

Spec == Init /\ [][Next]_policyVars
=============================================================================
