------------------------------ MODULE LegacyUdp ------------------------------
(***************************************************************************)
(* The UDP relay without XUDP, _handle_udp_legacy of server/server.py: the  *)
(* client's stream carries frames, two bytes of length and a payload; the   *)
(* task c2u sends each payload as a datagram, u2c frames the datagrams that *)
(* come back.  The handler waits for the first of the tasks to end, cancels *)
(* both, does not wait for them, and closes the UDP socket.                 *)
(*                                                                          *)
(* The stream is a sequence of tokens, <<"len", i>> and <<"pay", i>> of     *)
(* frame i; either may be late.  As in Relay, wait_for may return its       *)
(* result and lose a cancellation (Python 3.10 and 3.11).                   *)
(***************************************************************************)
EXTENDS Integers, SequencesExt

CONSTANTS
    MaxFrames,     \* frames of the client, for TLC
    MaxReplies,    \* datagrams that come back, for TLC
    Idle,          \* cfg["idle_timeout"], in ticks
    PayloadLimit   \* the 5 seconds for a payload, in ticks

VARIABLES
    sent,       \* tokens the client has sent
    line,       \* its connection: "open", "eof", "gone"
    input,      \* tokens in the stream reader
    sock,       \* the UDP socket: "open", "closed"
    up,         \* frames sent as datagrams, by number
    inbox,      \* datagrams waiting at the socket
    replies,    \* datagrams that have come so far
    down,       \* datagrams written to the client
    c2u,        \* "len", "pay", "ended"
    frame,      \* what c2u took for a length
    u2c,        \* "recv", "drain", "ended"
    stop,       \* the event of that name
    cancelled,  \* tasks with a cancellation they have not seen
    quiet,      \* ticks each task has waited
    handler     \* "wait", "done"

net == <<sent, line, replies>>
vars == <<net, input, sock, up, inbox, down, c2u, frame, u2c, stop,
          cancelled, quiet, handler>>

Tasks == {"c2u", "u2c"}
Token(k) == IF k % 2 = 1 THEN <<"len", (k + 1) \div 2>>
                         ELSE <<"pay", k \div 2>>

Init ==
    /\ sent = 0 /\ line = "open" /\ input = <<>>
    /\ sock = "open" /\ up = <<>>
    /\ inbox = 0 /\ replies = 0 /\ down = 0
    /\ c2u = "len" /\ frame = <<"len", 0>> /\ u2c = "recv"
    /\ stop = FALSE /\ cancelled = {}
    /\ quiet = [t \in Tasks |-> 0]
    /\ handler = "wait"

-----------------------------------------------------------------------------
(* The client and the host.                                                 *)

ClientSends ==
    /\ line = "open" /\ sent < 2 * MaxFrames
    /\ sent' = sent + 1
    /\ input' = Append(input, Token(sent + 1))
    /\ UNCHANGED <<line, replies, sock, up, inbox, down, c2u, frame, u2c,
                   stop, cancelled, quiet, handler>>

ClientCloses ==
    /\ line # "gone"
    /\ line' \in {"eof", "gone"} \ {line}
    /\ UNCHANGED <<sent, replies, input, sock, up, inbox, down, c2u, frame,
                   u2c, stop, cancelled, quiet, handler>>

HostReplies ==
    /\ replies < MaxReplies /\ sock = "open"
    /\ replies' = replies + 1 /\ inbox' = inbox + 1
    /\ UNCHANGED <<sent, line, input, sock, up, down, c2u, frame, u2c, stop,
                   cancelled, quiet, handler>>

-----------------------------------------------------------------------------
(* c2u.                                                                     *)

c2uOnly == <<net, sock, inbox, down, u2c, handler>>

Waits(t) == quiet' = [quiet EXCEPT ![t] = 0]
Seen(t) == cancelled' = cancelled \ {t}

\* Mutant: the event is set and the loop goes on.
C2uOnlyStops == c2u' = "len" /\ stop' = TRUE

\* "break", and the event.
C2uBreaks == c2u' = "ended" /\ stop' = TRUE

C2uReadsLength ==
    /\ c2u = "len" /\ input # <<>> /\ line # "gone"
    /\ frame' = Head(input) /\ input' = Tail(input)
    /\ c2u' = "pay"
    /\ Waits("c2u") /\ Seen("c2u")
    /\ UNCHANGED <<c2uOnly, up, stop>>

\* The payload is sent as soon as it is there; sendto on a closed socket, or
\* one that an ICMP error has come to, raises.
C2uReadsPayload ==
    /\ c2u = "pay" /\ input # <<>> /\ line # "gone"
    /\ input' = Tail(input)
    /\ \/ /\ sock = "open"
          /\ up' = Append(up, <<frame, Head(input)>>)
          /\ IF stop THEN C2uBreaks ELSE c2u' = "len" /\ UNCHANGED stop
       \/ /\ C2uBreaks
          /\ UNCHANGED up
    /\ Waits("c2u") /\ Seen("c2u")
    /\ UNCHANGED <<c2uOnly, frame>>

C2uIdles ==
    /\ c2u = "len" /\ quiet["c2u"] >= Idle
    /\ C2uBreaks
    /\ UNCHANGED <<c2uOnly, input, up, frame, cancelled, quiet>>

\* Mutant: a payload that is late is given up, the relay goes on.
C2uGoesOn ==
    /\ c2u = "pay" /\ quiet["c2u"] >= PayloadLimit
    /\ c2u' = "len" /\ UNCHANGED stop
    /\ Waits("c2u")
    /\ UNCHANGED <<c2uOnly, input, up, frame, cancelled>>

C2uPayloadLate ==
    /\ c2u = "pay" /\ quiet["c2u"] >= PayloadLimit
    /\ C2uBreaks
    /\ Waits("c2u")
    /\ UNCHANGED <<c2uOnly, input, up, frame, cancelled>>

C2uEnds ==
    /\ c2u # "ended"
    /\ line = "gone" \/ (line = "eof" /\ input = <<>>)
    /\ C2uBreaks
    /\ UNCHANGED <<c2uOnly, input, up, frame, cancelled, quiet>>

\* CancelledError is no Exception: the event is not set.
C2uCancelled ==
    /\ c2u # "ended" /\ "c2u" \in cancelled
    /\ c2u' = "ended"
    /\ Seen("c2u")
    /\ UNCHANGED <<c2uOnly, input, up, frame, stop, quiet>>

-----------------------------------------------------------------------------
(* u2c.                                                                     *)

u2cOnly == <<net, input, sock, up, c2u, frame, handler>>

U2cBreaks == u2c' = "ended" /\ stop' = TRUE

U2cReceives ==
    /\ u2c = "recv" /\ inbox > 0
    /\ inbox' = inbox - 1 /\ down' = down + 1
    /\ u2c' = "drain"
    /\ Waits("u2c") /\ Seen("u2c")
    /\ UNCHANGED <<u2cOnly, stop>>

U2cDrains ==
    /\ u2c = "drain"
    /\ IF stop \/ line = "gone" THEN U2cBreaks
                                ELSE u2c' = "recv" /\ UNCHANGED stop
    /\ Waits("u2c")
    /\ UNCHANGED <<u2cOnly, inbox, down, cancelled>>

\* An ICMP error, or an empty turn of the timer.
U2cFails ==
    /\ u2c = "recv"
    /\ sock = "open" \/ quiet["u2c"] >= Idle
    /\ U2cBreaks
    /\ UNCHANGED <<u2cOnly, inbox, down, cancelled, quiet>>

U2cCancelled ==
    /\ u2c # "ended" /\ "u2c" \in cancelled
    /\ u2c' = "ended"
    /\ Seen("u2c")
    /\ UNCHANGED <<u2cOnly, inbox, down, stop, quiet>>

-----------------------------------------------------------------------------
(* The handler; there is no await from its waking to its end.               *)

\* Mutant: the tasks are left to the event.
CancelsNone == {}

Cancels == { t \in Tasks : (IF t = "c2u" THEN c2u ELSE u2c) # "ended" }

HandlerEnds ==
    /\ handler = "wait" /\ (c2u = "ended" \/ u2c = "ended")
    /\ cancelled' = Cancels
    /\ sock' = "closed" /\ inbox' = 0
    /\ handler' = "done"
    /\ UNCHANGED <<net, input, up, down, c2u, frame, u2c, stop, quiet>>

\* Time passes for those that wait.
Limit(t) == IF t = "c2u" /\ c2u = "pay" THEN PayloadLimit ELSE Idle
Tick ==
    /\ \E t \in Tasks : quiet[t] < Limit(t)
    /\ quiet' = [t \in Tasks |->
                     IF quiet[t] < Limit(t) THEN quiet[t] + 1 ELSE quiet[t]]
    /\ UNCHANGED <<net, input, sock, up, inbox, down, c2u, frame, u2c, stop,
                   cancelled, handler>>

-----------------------------------------------------------------------------
World == ClientSends \/ ClientCloses \/ HostReplies \/ Tick
C2uSteps == C2uReadsLength \/ C2uReadsPayload \/ C2uIdles
            \/ C2uPayloadLate \/ C2uEnds \/ C2uCancelled
U2cSteps == U2cReceives \/ U2cDrains \/ U2cFails \/ U2cCancelled
Next == World \/ C2uSteps \/ U2cSteps \/ HandlerEnds

Spec == Init /\ [][Next]_vars

\* The event loop runs what is ready; a client that is owed data reads at
\* last or is gone.  The idle timer is not needed, so it is not fair; the one
\* of the payload is, for a c2u that has lost its cancellation.
FairTasks ==
    /\ WF_vars(HandlerEnds)
    /\ WF_vars(U2cDrains) /\ WF_vars(U2cCancelled)
    /\ WF_vars(C2uPayloadLate \/ C2uReadsPayload \/ C2uEnds \/ C2uCancelled)

Fairness == FairTasks /\ WF_vars(Tick)

FairSpec == Spec /\ Fairness

-----------------------------------------------------------------------------
TypeOK ==
    /\ sent \in 0..2 * MaxFrames /\ line \in {"open", "eof", "gone"}
    /\ sock \in {"open", "closed"} /\ inbox \in 0..MaxReplies
    /\ c2u \in {"len", "pay", "ended"} /\ u2c \in {"recv", "drain", "ended"}
    /\ cancelled \subseteq Tasks /\ stop \in BOOLEAN
    /\ stop => c2u = "ended" \/ u2c = "ended"

\* A datagram is the payload of one frame and they go out in order: the task
\* that gave up waiting for a payload does not take the rest of the stream
\* for frames (server.py:461).
FramesIntact ==
    \A i \in DOMAIN up : up[i] = << <<"len", i>>, <<"pay", i>> >>

\* The end of one direction ends the other, without the help of the idle
\* timer, and closes the socket (CHANGELOG.md:60).
StopsBoth ==
    (c2u = "ended" \/ u2c = "ended")
        ~> (c2u = "ended" /\ u2c = "ended" /\ sock = "closed")
=============================================================================
