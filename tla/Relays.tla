------------------------------- MODULE Relays -------------------------------
(***************************************************************************)
(* The three relays of an admitted connection.  handle_client starts one of *)
(* them, by the command of the VLESS header and, for UDP, its destination;  *)
(* a behaviour is one connection, and the state of the other two relays     *)
(* stays as it was at first.                                                *)
(***************************************************************************)
EXTENDS Relay, Sequences

CONSTANTS
    MaxFrames, MaxReplies,
    Frames, GidLen, Wait,
    Idle, PayloadLimit

\* The constants of XudpRelay and LegacyUdp are lengths, times and bounds.
ASSUME XudpAssumption ==
    /\ \A f \in Frames : f.kind \in {"new", "keep"} /\ f.n \in Nat /\ f.head \in Nat
    /\ GidLen \in Nat /\ Wait \in Nat
ASSUME LegacyAssumption ==
    MaxFrames \in Nat /\ MaxReplies \in Nat /\ Idle \in Nat /\ PayloadLimit \in Nat

VARIABLES
    kind,    \* the relay that was started
    frames, xTaken, phase, sessions, sentUdp, xInbox, came, answers, waited,
    gSent, line, gInput, gSock, up, gInbox, replies, down, c2u, frame, u2c,
    stop, gCancelled, gQuiet, gHandler

X == INSTANCE XudpRelay WITH taken <- xTaken, inbox <- xInbox

G == INSTANCE LegacyUdp WITH
    sent <- gSent, input <- gInput, sock <- gSock, inbox <- gInbox,
    cancelled <- gCancelled, quiet <- gQuiet, handler <- gHandler

xudp == <<frames, xTaken, phase, sessions, sentUdp, xInbox, came, answers, waited>>
legacy == <<gSent, line, gInput, gSock, up, gInbox, replies, down, c2u, frame,
            u2c, stop, gCancelled, gQuiet, gHandler>>
relays == <<kind, vars, xudp, legacy>>

RelaysInit ==
    /\ kind \in {"tcp", "xudp", "legacy"}
    /\ Init /\ X!Init /\ G!Init

MoveTcp == kind = "tcp" /\ Next /\ UNCHANGED <<kind, xudp, legacy>>
MoveXudp == kind = "xudp" /\ X!Next /\ UNCHANGED <<kind, vars, legacy>>
MoveLegacy == kind = "legacy" /\ G!Next /\ UNCHANGED <<kind, vars, xudp>>

RelaysNext == MoveTcp \/ MoveXudp \/ MoveLegacy

\* The fairness of each module.  Nothing but time could move a relay that
\* was not started, so the guard is on the ticks.
RelaysFairness ==
    /\ FairTasks /\ WF_vars(kind = "tcp" /\ Tick)
    /\ X!Fairness
    /\ G!FairTasks /\ WF_legacy(kind = "legacy" /\ G!Tick)

RelaysSpec == RelaysInit /\ [][RelaysNext]_relays /\ RelaysFairness

\* Each relay's variables hold what its code can put there.
AllTypesOK == TypeOK /\ X!TypeOK /\ G!TypeOK

\* Once the peers of a TCP relay have no more to say, the idle timers end it,
\* and the handler finishes with both sockets closed.
TcpEnds == kind = "tcp" => EndsAndCloses

\* A datagram is what the client meant it to be, but for two kinds of frames.
SentAsMeant == X!SentAsMeant

\* A frame that was read is dealt with, and its socket closed.
RelayEnds == X!RelayEnds

\* Each frame is one datagram and its answer (server.py 346-350).
EveryFrameServed == X!EveryFrameServed

\* A datagram is the payload of one frame, and they go out in order.
FramesIntact == G!FramesIntact

\* The end of one direction of a UDP relay ends the other.
StopsBoth == G!StopsBoth
=============================================================================
