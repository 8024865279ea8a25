---------------------------- MODULE VisionWriter ----------------------------
(***************************************************************************)
(* The downward direction of a connection: what the server writes to an     *)
(* admitted TCP client, through VisionWriter (server/vision.py) if Vision   *)
(* is on, and _SecureWriter (core/tls13.py).  The handler writes the two    *)
(* bytes of the VLESS answer, then _pipe writes the chunks it has read from *)
(* the remote host, up to 65536 bytes each; a chunk is one record.          *)
(*                                                                          *)
(* Sizes are those of the code, since its lengths are 16 bits wide.  What a *)
(* chunk holds is its number; of its bytes, the code looks at the first     *)
(* three only: an application data record of the inner TLS (app).           *)
(***************************************************************************)
EXTENDS Integers, SequencesExt

CONSTANTS
    Sizes,      \* sizes of the chunks
    MaxChunks   \* chunks, for TLC

VARIABLES
    vision,   \* the stream is wrapped in a VisionWriter
    first,    \* VisionState.first_packet
    direct,   \* VisionState.direct_copy
    seq,      \* cipher.seq of the server
    wire,     \* the records written, each [seq, size, head, plen, chunk]
    chunks,   \* the chunks passed to write, the answer first
    pipe      \* "run", or "failed" by an exception that _pipe does not catch

vars == <<vision, first, direct, seq, wire, chunks, pipe>>

\* A write is the answer's, of 2 bytes, or a chunk's.
Answer == [len |-> 2, app |-> FALSE]
Chunk == { c \in [len : Sizes, app : BOOLEAN] : c.app => c.len >= 3 }
Raw == "raw"
Continue == "continue"
Direct == "direct"

InitWith(wrapped) ==
    /\ vision = wrapped
    /\ first = TRUE /\ direct = FALSE
    /\ seq = 0
    /\ wire = <<>> /\ chunks = <<>>
    /\ pipe = "run"

Init == \E wrapped \in BOOLEAN : InitWith(wrapped)

-----------------------------------------------------------------------------
(* VisionWriter.write: command and padding.                                 *)

GoesDirect(c) == (first /\ c.len > 2) \/ c.app

\* Mutant: the block that says DIRECT is sent without its head.
DirectAtOnce(c) ==
    IF ~vision \/ direct \/ GoesDirect(c) THEN Raw ELSE Continue

Head5(c) ==
    IF ~vision \/ direct THEN Raw
    ELSE IF GoesDirect(c) THEN Direct ELSE Continue

\* Mutant: the random part is drawn up to LONG_RAND for long content too.
LongPaddings(n) ==
    IF n < 900 THEN (900 - n)..(1400 - n) ELSE {0, 500}

\* The least and the largest padding for a content of n bytes.
Paddings(n) == IF n < 900 THEN {900 - n, 1400 - n} ELSE {0, 256}

-----------------------------------------------------------------------------
(* _SecureWriter.write and _RecordCipher.encrypt.                           *)

SeqAfter == seq + 1

\* The 16-bit lengths: of the content in Vision's head, of the ciphertext,
\* which is a byte and a tag longer, in the record's.
Fits(head, n, size) ==
    /\ head # Raw => n <= 65535
    /\ size + 17 <= 65535

\* One write, all the way down.  struct.pack raises after VisionWriter has
\* changed its state.
Writes(c) ==
    LET head == Head5(c) IN
    /\ pipe = "run"
    /\ chunks' = Append(chunks, c)
    /\ direct' = (direct \/ (vision /\ GoesDirect(c)))
    /\ first' = (first /\ head = Raw)
    /\ \E plen \in IF head = Raw THEN {0} ELSE Paddings(c.len) :
         LET size == IF head = Raw THEN c.len ELSE 5 + c.len + plen IN
         IF Fits(head, c.len, size)
         THEN /\ wire' = Append(wire, [seq |-> seq, size |-> size,
                                       head |-> head, plen |-> plen,
                                       chunk |-> Len(chunks')])
              /\ seq' = SeqAfter
              /\ UNCHANGED pipe
         ELSE /\ pipe' = "failed"
              /\ UNCHANGED <<wire, seq>>
    /\ UNCHANGED vision

WriteAnswer == chunks = <<>> /\ Writes(Answer)

WriteChunk ==
    /\ chunks # <<>> /\ Len(chunks) <= MaxChunks
    /\ \E c \in Chunk : Writes(c)

Next == WriteAnswer \/ WriteChunk

Spec == Init /\ [][Next]_vars

-----------------------------------------------------------------------------
TypeOK ==
    /\ seq \in 0..(MaxChunks + 1) /\ seq = Len(wire)
    /\ {vision, first, direct} \subseteq BOOLEAN
    /\ \A i \in DOMAIN chunks : chunks[i] \in Chunk \cup {Answer}
    /\ pipe \in {"run", "failed"}

\* A conforming client opens the records in sequence, refuses one with more
\* than 2^14 bytes of plaintext, and takes head and padding off every block up
\* to the one that says DIRECT.
MaxPlaintext == 16384
SaidDirect(i) == \E j \in 1..(i - 1) : wire[j].head = Direct

Reads(i) ==
    /\ wire[i].seq = i - 1 /\ wire[i].chunk = i
    /\ wire[i].size <= MaxPlaintext
    /\ wire[i].head = Raw <=> ~vision \/ SaidDirect(i)

\* The longest chunk that is readable whatever the padding.
ReadableChunk == IF vision THEN MaxPlaintext - 5 - 256 ELSE MaxPlaintext

\* Up to the first chunk that is too long for a record of TLS 1.3, the client
\* can read all that was written: every chunk is there, and sequence numbers,
\* size, framing and the switch to raw data are what the client expects.
\* write does not split a longer chunk, and _pipe reads up to 65536 bytes:
\* such a record a conforming client refuses.
ClientReads ==
    \A i \in DOMAIN chunks :
        (\A j \in 1..i : chunks[j].len <= ReadableChunk)
            => i \in DOMAIN wire /\ Reads(i)

\* Neither of the 16-bit lengths overflows for a chunk of up to 65257 bytes,
\* whatever the padding; up to 65518 without Vision (tls13.py:147, vision.py:165).
SafeChunks ==
    pipe = "failed" => Last(chunks).len > (IF vision THEN 65257 ELSE 65518)
=============================================================================
