----------------------------- MODULE Connection -----------------------------
(***************************************************************************)
(* The life of a server connection, from accept to the end of its handler:  *)
(* handle_client and _handle_client_inner (server/server.py), wrap_server,  *)
(* _do_handshake and _fallback_to_dest (core/tls13.py), with the rate       *)
(* limiter they consult and report to.                                      *)
(*                                                                          *)
(* Every handler is a task; between two awaits nothing else runs, so each   *)
(* action below is the code between two awaits, and the connections         *)
(* interleave at them.  The bytes of a hello are abstracted to what         *)
(* _do_handshake makes of them.  Whether a session id verifies, with the    *)
(* replay cache, is module RealityAuth: here a hello may be accepted or     *)
(* not.  The relay of an admitted connection is module Relays.              *)
(***************************************************************************)
EXTENDS Integers, Sequences, FiniteSets

CONSTANTS
    Conns,         \* connections
    Ips, PrivateIps, MaxAttempts, Window, BanTime, MaxTime,  \* RateLimiter
    LocalIps,      \* the addresses of is_local_ip
    HelloTimeout,  \* cfg["clienthello_timeout"]
    ShakeTimeout   \* cfg["handshake_timeout"]

ASSUME ConnectionAssumption ==
    /\ IsFiniteSet(Conns)
    /\ LocalIps \subseteq Ips /\ PrivateIps \subseteq Ips
    /\ MaxAttempts \in Nat /\ Window \in Nat
    /\ BanTime \in Nat \ {0} /\ MaxTime \in Nat \ {0}
    /\ HelloTimeout \in Nat \ {0} /\ ShakeTimeout \in Nat \ {0}

VARIABLES
    now, attempts, banned, answer,  \* the rate limiter's
    ip,        \* the address each connection comes from
    phase,     \* what its handler is waiting for
    deadline,  \* when the timer of its wait_for runs out
    since,     \* when it was accepted
    sock,      \* the server's end of it: "open" or "closed"
    client,    \* its client: "here" or "gone"
    dest,      \* the host it is forwarded to: "here" or "gone"
    conns,     \* stats: admitted connections
    finished   \* history: the connections whose client's Finished verified

guardVars == <<attempts, banned, answer>>
endVars == <<client, dest>>
connVars == <<phase, deadline, sock>>
vars == <<now, guardVars, ip, connVars, endVars, since, conns, finished>>

Guard == INSTANCE RateLimiter

\* "raw dial" and "raw forward" are the fallback of a client that does not
\* speak TLS, which no timer covers; "dial" and "forward" the fallback made
\* inside _do_handshake, under the handshake timer.
Phases == {"new", "hello", "raw dial", "raw forward", "dial", "forward",
           "finish", "header", "tcp", "udp", "done"}
Timed == {"hello", "dial", "forward", "finish"}

Init ==
    /\ Guard!Init
    /\ ip \in [Conns -> Ips]
    /\ phase = [c \in Conns |-> "new"]
    /\ deadline = [c \in Conns |-> 0]
    /\ since = [c \in Conns |-> 0]
    /\ sock = [c \in Conns |-> "open"]
    /\ client = [c \in Conns |-> "here"]
    /\ dest = [c \in Conns |-> "here"]
    /\ conns = 0
    /\ finished = {}

-----------------------------------------------------------------------------
Go(c, p) ==
    /\ phase' = [phase EXCEPT ![c] = p]
    /\ UNCHANGED <<deadline, sock>>

GoTimed(c, p, timeout) ==
    /\ phase' = [phase EXCEPT ![c] = p]
    /\ deadline' = [deadline EXCEPT ![c] = now + timeout]
    /\ UNCHANGED sock

\* The handler returns and leaves its writer as it is.
Leave(c) == Go(c, "done")

\* The handler closes its writer and returns.
Close(c) ==
    /\ phase' = [phase EXCEPT ![c] = "done"]
    /\ sock' = [sock EXCEPT ![c] = "closed"]
    /\ UNCHANGED deadline

\* What most steps leave alone.
Quiet == UNCHANGED <<now, guardVars, ip, endVars, since, conns, finished>>

-----------------------------------------------------------------------------
(* handle_client.                                                           *)

\* A bound: a connection is accepted while its timers can still run out.
MayAccept(c) ==
    /\ phase[c] = "new" /\ now + HelloTimeout + ShakeTimeout <= MaxTime
    /\ since' = [since EXCEPT ![c] = now]
    /\ UNCHANGED <<now, ip, endVars, conns, finished>>

AcceptLocal(c) ==
    /\ MayAccept(c)
    /\ ip[c] \in LocalIps
    /\ GoTimed(c, "hello", HelloTimeout)
    /\ UNCHANGED guardVars

\* Mutant: the limiter is not asked.
AcceptUnchecked(c) ==
    /\ MayAccept(c)
    /\ ip[c] \notin LocalIps
    /\ GoTimed(c, "hello", HelloTimeout)
    /\ UNCHANGED guardVars

AcceptAllowed(c) ==
    /\ MayAccept(c)
    /\ ip[c] \notin LocalIps
    /\ Guard!IsBanned(ip[c]) /\ ~answer'.said
    /\ GoTimed(c, "hello", HelloTimeout)

AcceptBanned(c) ==
    /\ MayAccept(c)
    /\ ip[c] \notin LocalIps
    /\ Guard!IsBanned(ip[c]) /\ answer'.said
    /\ Close(c)

-----------------------------------------------------------------------------
(* wrap_server and _do_handshake.                                           *)

\* Mutant: wait_for covers the reading of the hello only.
TimesOutHello(c) ==
    /\ phase[c] = "hello" /\ now = deadline[c]
    /\ Close(c)
    /\ Quiet

TimesOut(c) ==
    /\ phase[c] \in Timed /\ now = deadline[c]
    /\ Close(c)
    /\ Quiet

\* IncompleteReadError before the hello is complete.
NoHello(c) ==
    /\ phase[c] = "hello" /\ client[c] = "gone"
    /\ Leave(c)
    /\ Quiet

\* The first record is not a handshake record.
HelloNotTls(c) ==
    /\ phase[c] = "hello" /\ client[c] = "here"
    /\ Go(c, "raw dial")
    /\ Quiet

\* The hello cannot be parsed, or its key share is not a valid key: the
\* exception ends the handshake without a fallback.  So does, after the session
\* id has been registered, a hybrid key share alone: the certificate key cannot
\* be derived from the missing X25519 share.
HelloBroken(c) ==
    /\ phase[c] = "hello" /\ client[c] = "here"
    /\ Leave(c)
    /\ Quiet

\* No key share the server knows, or a session id that does not verify: one
\* that is not sealed for this server, or has been seen before.
HelloForeign(c) ==
    /\ phase[c] = "hello" /\ client[c] = "here"
    /\ GoTimed(c, "dial", ShakeTimeout)
    /\ Quiet

\* The session id verifies; the server's flight is sent.
HelloAccepted(c) ==
    /\ phase[c] = "hello" /\ client[c] = "here"
    /\ GoTimed(c, "finish", ShakeTimeout)
    /\ Quiet

\* Mutant: a handshake that fails counts against the address.
FinishFailsCounted(c) ==
    /\ phase[c] = "finish"
    /\ Guard!RecordAttempt(ip[c])
    /\ Leave(c)
    /\ UNCHANGED <<ip, endVars, since, conns, finished>>

\* An alert, a wrong record, a Finished that does not verify, or the client
\* gone.
FinishFails(c) ==
    /\ phase[c] = "finish"
    /\ Leave(c)
    /\ Quiet

FinishVerifies(c) ==
    /\ phase[c] = "finish" /\ client[c] = "here"
    /\ finished' = finished \cup {c}
    /\ Go(c, "header")
    /\ UNCHANGED <<now, guardVars, ip, endVars, since, conns>>

-----------------------------------------------------------------------------
(* _fallback_to_dest.                                                       *)

DialFails(c) ==
    /\ phase[c] \in {"raw dial", "dial"}
    /\ Close(c)
    /\ Quiet

DialSucceeds(c) ==
    /\ \/ phase[c] = "raw dial" /\ Go(c, "raw forward")
       \/ phase[c] = "dial" /\ Go(c, "forward")
    /\ Quiet

\* Either side closes: each pipe closes the other's destination, so both end.
ForwardEnds(c) ==
    /\ phase[c] \in {"raw forward", "forward"}
    /\ client[c] = "gone" \/ dest[c] = "gone"
    /\ Close(c)
    /\ Quiet

-----------------------------------------------------------------------------
(* _handle_client_inner, after wrap_server.                                 *)

\* guard.record_attempt, unless the peer is local.
Record(c) ==
    IF ip[c] \in LocalIps THEN UNCHANGED <<now, guardVars>>
                          ELSE Guard!RecordAttempt(ip[c])

\* _read_vless_header gives up: wrong version or address type, or the
\* stream ends.
HeaderBad(c) ==
    /\ phase[c] = "header"
    /\ Record(c)
    /\ Leave(c)
    /\ UNCHANGED <<ip, endVars, since, conns, finished>>

\* A TLS alert or a record that does not decrypt is an exception, logged by
\* handle_client and not counted.
HeaderFails(c) ==
    /\ phase[c] = "header"
    /\ Leave(c)
    /\ Quiet

UnknownUser(c) ==
    /\ phase[c] = "header" /\ client[c] = "here"
    /\ Record(c)
    /\ Leave(c)
    /\ UNCHANGED <<ip, endVars, since, conns, finished>>

\* limiter.check says no (module TrafficStats says when).
OverLimit(c) ==
    /\ phase[c] = "header" /\ client[c] = "here"
    /\ Leave(c)
    /\ Quiet

\* on_user_connect, and the command: a TCP relay, UDP, or one the server
\* does not know, which is counted all the same.
Admit(c) ==
    /\ phase[c] = "header" /\ client[c] = "here"
    /\ conns' = conns + 1
    /\ \/ Go(c, "tcp") \/ Go(c, "udp") \/ Leave(c)
    /\ UNCHANGED <<now, guardVars, ip, endVars, since, finished>>

\* The relay is over, or the remote host could not be reached; or an
\* exception, which handle_client logs, skips the closing.
TcpEnds(c) ==
    /\ phase[c] = "tcp"
    /\ Close(c) \/ Leave(c)
    /\ Quiet

\* _handle_udp closes its UDP sockets only.
UdpEnds(c) ==
    /\ phase[c] = "udp"
    /\ Leave(c)
    /\ Quiet

-----------------------------------------------------------------------------
(* The environment: clients and hosts leave, time passes, cleanup runs.     *)

ClientLeaves(c) ==
    /\ phase[c] \notin {"new", "done"} /\ client[c] = "here"
    /\ client' = [client EXCEPT ![c] = "gone"]
    /\ UNCHANGED <<now, guardVars, ip, connVars, dest, since, conns, finished>>

DestLeaves(c) ==
    /\ phase[c] \in {"raw forward", "forward"} /\ dest[c] = "here"
    /\ dest' = [dest EXCEPT ![c] = "gone"]
    /\ UNCHANGED <<now, guardVars, ip, connVars, client, since, conns, finished>>

\* A timer that is due fires before time goes on.
Tick ==
    /\ now < MaxTime
    /\ \A c \in Conns : phase[c] \in Timed => now < deadline[c]
    /\ now' = now + 1
    /\ UNCHANGED <<guardVars, ip, connVars, endVars, since, conns, finished>>

Cleanup ==
    /\ Guard!Cleanup
    /\ UNCHANGED <<ip, connVars, endVars, since, conns, finished>>

-----------------------------------------------------------------------------
Accepts(c) == AcceptLocal(c) \/ AcceptAllowed(c) \/ AcceptBanned(c)

Hellos(c) ==
    \/ NoHello(c) \/ HelloNotTls(c) \/ HelloBroken(c) \/ HelloForeign(c)
    \/ HelloAccepted(c)

Finishes(c) == FinishFails(c) \/ FinishVerifies(c)

Forwards(c) == DialFails(c) \/ DialSucceeds(c) \/ ForwardEnds(c)

Headers(c) ==
    HeaderBad(c) \/ HeaderFails(c) \/ UnknownUser(c) \/ OverLimit(c) \/ Admit(c)

Serves(c) == TcpEnds(c) \/ UdpEnds(c)

Next ==
    \/ \E c \in Conns :
         \/ Accepts(c) \/ Hellos(c) \/ TimesOut(c) \/ Finishes(c)
         \/ Forwards(c) \/ Headers(c) \/ Serves(c)
         \/ ClientLeaves(c) \/ DestLeaves(c)
    \/ Tick
    \/ Cleanup

\* Timers fire.  Nothing obliges a client or a host to answer, to finish, to
\* read or to leave.
Fairness == WF_vars(Tick) /\ \A c \in Conns : WF_vars(TimesOut(c))

Spec == Init /\ [][Next]_vars /\ Fairness

-----------------------------------------------------------------------------
(* Properties.                                                              *)

TypeOK ==
    /\ Guard!TypeOK
    /\ ip \in [Conns -> Ips]
    /\ phase \in [Conns -> Phases]
    /\ deadline \in [Conns -> 0..MaxTime]
    /\ \A c \in Conns : phase[c] \in Timed => now <= deadline[c]
    /\ since \in [Conns -> 0..MaxTime]
    /\ sock \in [Conns -> {"open", "closed"}]
    /\ client \in [Conns -> {"here", "gone"}]
    /\ dest \in [Conns -> {"here", "gone"}]
    /\ conns \in Nat
    /\ finished \subseteq Conns

\* The connections of an address that are over and had completed the handshake.
Ended(a) == {c \in Conns : ip[c] = a /\ c \in finished /\ phase[c] = "done"}

\* Each strike against an address stands for a connection of its own from
\* there that completed the handshake: however strangers, broken hellos, failed
\* handshakes and timers interleave, an address has no more attempts than such
\* connections, and is not banned before there were more than max_attempts; a
\* local address has neither attempts nor ban.
OnlyClientsAreCounted ==
    \A a \in Ips :
        /\ Len(Guard!Deque(a)) <= Cardinality(Ended(a))
        /\ a \in DOMAIN banned => Cardinality(Ended(a)) > MaxAttempts
        /\ a \in LocalIps => a \notin DOMAIN attempts \cup DOMAIN banned

\* A ban quenches itself: while an address is banned only connections that
\* had been accepted before can still be counted against it.
BanQuenches ==
    [][\A c \in Conns :
         (HeaderBad(c) \/ UnknownUser(c)) /\ Guard!BanLive(ip[c])
            /\ ip[c] \notin LocalIps
         => since[c] <= banned[ip[c]] - BanTime]_vars

\* The two timers bound the handshake: whatever the client sends or does not
\* send, it gets past it, is forwarded without TLS, or the handler ends.
HandshakeBounded ==
    \A c \in Conns :
        phase[c] \in Timed ~>
            phase[c] \in {"raw dial", "raw forward", "header", "tcp", "udp", "done"}

\* README.md:139: the server transparently proxies the TCP stream of a
\* foreign client to dest.  It is not the server that ends it.
ForwardTransparent ==
    [][\A c \in Conns :
         phase[c] = "forward" /\ phase'[c] = "done"
         => client[c] = "gone" \/ dest[c] = "gone"]_vars
=============================================================================
