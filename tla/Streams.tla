------------------------------ MODULE Streams ------------------------------
(***************************************************************************)
(* Both directions of the byte stream of one connection.  They share        *)
(* nothing (each has its own cipher, and VisionReader and VisionWriter look *)
(* at different fields of VisionState), so a behaviour moves one of them.   *)
(***************************************************************************)
EXTENDS VisionReader

CONSTANTS Sizes, MaxChunks

\* The n of _pipe's read(n), in bytes.
LargestChunk == 65536

ASSUME WriterAssumption == Sizes \subseteq 1..LargestChunk /\ MaxChunks \in Nat

VARIABLES side, first, direct, downSeq, downWire, chunks, pipe

D == INSTANCE VisionWriter WITH
    vision <- useVision, seq <- downSeq, wire <- downWire

InitUp == Init /\ D!InitWith(useVision)

InitDown ==
    /\ S!InitWith(<<>>) /\ vr = Off /\ vend = FALSE
    /\ useVision \in BOOLEAN /\ D!InitWith(useVision)

BothInit ==
    \/ side = "up" /\ InitUp
    \/ side = "down" /\ InitDown

MoveUp ==
    /\ side = "up" /\ Next
    /\ UNCHANGED <<side, first, direct, downSeq, downWire, chunks, pipe>>

MoveDown ==
    /\ side = "down" /\ D!Next
    /\ UNCHANGED <<side, script, sent, extra, sealSeq, wire, line,
                   seq, buf, todo, got, end, vr, vend>>

BothNext == MoveUp \/ MoveDown

BothSpec == BothInit /\ [][BothNext]_<<vars, side, first, direct, downSeq,
                                      downWire, chunks, pipe>>

\* Each direction's variables hold what its code can put there.
BothTypeOK == TypeOK /\ D!TypeOK

\* Up to the first chunk that is too long for a record of TLS 1.3 (2^14 bytes;
\* _SecureWriter.write does not split), a conforming client can read all that
\* was written: every chunk is there, in step, framed, switched to raw data.
ClientReads == D!ClientReads

\* Neither of the 16-bit lengths overflows for a chunk of up to 65257 bytes,
\* whatever the padding; up to 65518 without Vision.
SafeChunks == D!SafeChunks
=============================================================================
