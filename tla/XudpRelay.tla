------------------------------ MODULE XudpRelay ------------------------------
(***************************************************************************)
(* The XUDP relay of server/server.py: _read_xudp_frame and                 *)
(* _parse_xudp_data take a frame out of the client's stream, _handle_udp    *)
(* sends its payload as a datagram and frames the answer.  The frame that   *)
(* came with the VLESS header is processed first; the loop after it calls   *)
(* _read_xudp_from_reader, which does not exist, catches the exception and  *)
(* ends.                                                                    *)
(*                                                                          *)
(* After its address a frame of kind "new" has an id of 8 bytes, a length   *)
(* of 2 and a payload, one of kind "keep" only the last two.  The kind is   *)
(* not in the frame: the parser guesses it from the first two bytes, the    *)
(* ninth and tenth, and the number of bytes that remain.                    *)
(***************************************************************************)
EXTENDS Integers, Sequences

CONSTANTS
    Frames,      \* frames the client may begin with
    MaxFrames,   \* frames of a client, for TLC
    GidLen,      \* 8 in the code
    Wait,        \* the 2 seconds for an answer, in ticks
    MaxReplies   \* datagrams that come back, for TLC

-----------------------------------------------------------------------------
(* _parse_xudp_data, from the end of the address on.  "head" is what the    *)
(* first two bytes read as: the length of a keep frame, any two bytes of    *)
(* the id of a new one.                                                     *)

Left(f) == IF f.kind = "new" THEN GidLen + 2 + f.n ELSE 2 + f.n
Head2(f) == IF f.kind = "new" THEN f.head ELSE f.n

NoFrame == [skip |-> 0, len |-> -1]

\* Mutant: the length of a new frame is looked at first.
GuessesNew(f) ==
    IF Left(f) < GidLen + 2 THEN NoFrame
    ELSE [skip |-> GidLen + 2, len |-> f.n]

\* Where the payload begins and how long it is.
Parsed(f) ==
    IF Left(f) >= GidLen + 2 /\ Head2(f) = Left(f) - 2
    THEN [skip |-> 2, len |-> Head2(f)]
    ELSE IF Left(f) < GidLen + 2 THEN NoFrame
    ELSE [skip |-> GidLen + 2, len |-> Left(f) - GidLen - 2]

\* What the frame means.
Meant(f) == [skip |-> Left(f) - f.n, len |-> f.n]

-----------------------------------------------------------------------------
VARIABLES
    frames,    \* frames the client has sent, in its stream
    taken,     \* how many of them the server has read
    phase,     \* of _handle_udp
    sessions,  \* the ids that have a socket
    sentUdp,   \* payloads sent as datagrams, by frame number
    inbox,     \* datagrams that came back and wait at the socket
    came,      \* datagrams that came back so far
    answers,   \* frames written to the client, by frame number
    waited     \* ticks since the wait for the answer began

vars == <<frames, taken, phase, sessions, sentUdp, inbox, came, answers, waited>>
done == {"over", "refused"}

Init ==
    /\ frames = <<>> /\ taken = 0
    /\ phase = "header"
    /\ sessions = {}
    /\ sentUdp = <<>> /\ inbox = 0 /\ came = 0 /\ answers = <<>>
    /\ waited = 0

Current == frames[taken]

ClientSends ==
    /\ Len(frames) < MaxFrames
    /\ \E f \in Frames : frames' = Append(frames, f)
    /\ UNCHANGED <<taken, phase, sessions, sentUdp, inbox, came, answers, waited>>

\* _read_xudp_frame: the frame that comes with the header.  None ends the
\* handler, which reports the client to the limiter.
ReadsFrame ==
    /\ phase = "header" /\ frames # <<>>
    /\ taken' = 1
    /\ phase' = IF Parsed(frames[1]) = NoFrame THEN "refused" ELSE "resolve"
    /\ UNCHANGED <<frames, sessions, sentUdp, inbox, came, answers, waited>>

\* send_udp: a socket for the id.
Resolves ==
    /\ phase = "resolve"
    /\ sessions' = sessions \cup {Current.id}
    /\ phase' = "send"
    /\ UNCHANGED <<frames, taken, sentUdp, inbox, came, answers, waited>>

\* getaddrinfo, socket or connect fails; an IPv6 address always does.  Then
\* recv_and_reply finds no session.
ResolveFails ==
    /\ phase = "resolve"
    /\ phase' = "loop"
    /\ UNCHANGED <<frames, taken, sessions, sentUdp, inbox, came, answers, waited>>

\* An exception of sock_sendall is logged; the wait for an answer begins
\* all the same.
Sends ==
    /\ phase = "send"
    /\ \/ sentUdp' = Append(sentUdp, [frame |-> taken, parsed |-> Parsed(Current)])
       \/ UNCHANGED sentUdp
    /\ phase' = "recv"
    /\ waited' = 0
    /\ UNCHANGED <<frames, taken, sessions, inbox, came, answers>>

HostReplies ==
    /\ sentUdp # <<>> /\ sessions # {} /\ came < MaxReplies
    /\ inbox' = inbox + 1 /\ came' = came + 1
    /\ UNCHANGED <<frames, taken, phase, sessions, sentUdp, answers, waited>>

\* recv_and_reply.
Replies ==
    /\ phase = "recv" /\ inbox > 0
    /\ inbox' = inbox - 1
    /\ answers' = Append(answers, taken)
    /\ phase' = "drain"
    /\ UNCHANGED <<frames, taken, sessions, sentUdp, came, waited>>

\* drain returns, or raises as the client is gone.
Drains ==
    /\ phase = "drain"
    /\ phase' = "loop"
    /\ UNCHANGED <<frames, taken, sessions, sentUdp, inbox, came, answers, waited>>

\* An ICMP error or an empty datagram.
RecvFails ==
    /\ phase = "recv"
    /\ phase' = "loop"
    /\ UNCHANGED <<frames, taken, sessions, sentUdp, inbox, came, answers, waited>>

\* Mutant: no wait_for around the receive.
NoTimer == FALSE /\ UNCHANGED vars

RecvTimesOut ==
    /\ phase = "recv" /\ waited >= Wait
    /\ phase' = "loop"
    /\ UNCHANGED <<frames, taken, sessions, sentUdp, inbox, came, answers, waited>>

Tick ==
    /\ phase = "recv" /\ waited < Wait
    /\ waited' = waited + 1
    /\ UNCHANGED <<frames, taken, phase, sessions, sentUdp, inbox, came, answers>>

Remaining == {}

\* The loop: AttributeError, break; then the sockets are closed.
LoopBreaks ==
    /\ phase = "loop"
    /\ phase' = "over"
    /\ sessions' = Remaining
    /\ inbox' = 0
    /\ UNCHANGED <<frames, taken, sentUdp, came, answers, waited>>

-----------------------------------------------------------------------------
Server == ReadsFrame \/ Resolves \/ ResolveFails \/ Sends \/ Replies
          \/ Drains \/ RecvTimesOut \/ LoopBreaks
World == ClientSends \/ HostReplies \/ RecvFails \/ Tick
Next == Server \/ World

Spec == Init /\ [][Next]_vars

\* The event loop runs what is ready, the resolver answers, the client reads
\* at last or is gone, and the timer fires.
Fairness == WF_vars(Server) /\ WF_vars(Tick)

FairSpec == Spec /\ Fairness

-----------------------------------------------------------------------------
TypeOK ==
    /\ taken \in 0..1 /\ taken <= Len(frames) /\ Len(frames) <= MaxFrames
    /\ phase \in {"header", "resolve", "send", "recv", "drain", "loop"} \cup done
    /\ \A i \in DOMAIN sentUdp : sentUdp[i].parsed.len \in Nat
    /\ inbox \in 0..came /\ came \in 0..MaxReplies /\ waited \in 0..Wait

\* The guess of the parser errs in two cases only: a new frame whose id begins
\* with what a keep frame of its size has for a length, and a keep frame with
\* less payload than an id has bytes, which is refused (server.py 660-672).
\* In every other case the datagram is the client's payload, to the byte.
Ambiguous(f) == f.kind = "new" /\ f.head = GidLen + f.n
ShortKeep(f) == f.kind = "keep" /\ f.n < GidLen
SentAsMeant ==
    /\ \A i \in DOMAIN sentUdp :
         ~Ambiguous(frames[1]) => sentUdp[i].parsed = Meant(frames[1])
    /\ phase = "refused" <=> taken = 1 /\ ShortKeep(frames[1])

\* A frame that was read is dealt with and the relay is over, with an answer
\* or without, and its sockets are closed.
RelayEnds == (taken = 1) ~> (phase \in done /\ sessions = {})

\* Each frame is one datagram and its answer (server.py 346-350).
EveryFrameServed ==
    \A i \in 1..MaxFrames :
        (Len(frames) >= i) ~> (taken >= i \/ phase = "refused")
=============================================================================
