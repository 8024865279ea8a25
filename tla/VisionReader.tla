---------------------------- MODULE VisionReader ----------------------------
(***************************************************************************)
(* The upward direction of a TCP connection.  After the VLESS header _pipe  *)
(* reads the record stream itself or, with Vision (server/vision.py),       *)
(* enable_vision_after_header moves what is left in _SecureReader.buf to a  *)
(* VisionReader, which takes the padding out of the client's blocks until a *)
(* block says that raw data follow.                                         *)
(*                                                                          *)
(* A byte is a token <<kind, a, b, c>>.  A block is a head, <<"head", cmd,  *)
(* clen, plen>>, and the rest of the head, which stands for the four bytes  *)
(* after the command, then clen bytes of content and plen of padding; the   *)
(* user's id, one token here for its 16 bytes, precedes the first.  Records *)
(* cut this at any token.                                                   *)
(***************************************************************************)
EXTENDS Integers, Sequences

CONSTANTS
    HeaderParts, ReadSize, BufLimit, MaxRecord, MaxExtra, Kinds, Noise,
    Script,       \* what a client without Vision sends
    Scripts       \* what a client with Vision may send

VARIABLES
    script, sent, extra, sealSeq, wire, line, seq, buf, todo, got, end,
    useVision,  \* Vision is on for this connection
    vr,      \* the VisionReader and its VisionState, once it is enabled
    vend     \* the pipe was given b"" by it

S == INSTANCE SecureReader
vision == <<useVision, vr, vend>>
vars == <<S!vars, vision>>

CMD_CONTINUE == 0
CMD_END == 1
CMD_DIRECT == 2

Data(i) == <<"data", i, 0, 0>>
Lost == <<"lost", 0, 0, 0>>     \* data, 16 bytes where the user's id belongs
Uuid == <<"uuid", 0, 0, 0>>
HeadRest == <<"rest", 0, 0, 0>>
Pad == <<"pad", 0, 0, 0>>
TailPad == <<"tail", 0, 0, 0>>  \* padding of a block that others do not follow
VlessByte == <<"vless", 0, 0, 0>>

IsHead(b) == b[1] = "head"
IsData(b) == b[1] = "data"

\* What the client's own protocol adds to what it has to send.
NoContent == {"head", "rest", "uuid", "vless", "pad"} \X Nat \X Nat \X Nat
             \cup {TailPad}
Tokens == NoContent \cup {Lost} \cup {"data"} \X Nat \X Nat \X Nat
Content(s) == S!Without(s, NoContent)

\* What a client may send: the header, and the user's id before blocks, or
\* data only, without the id.  A block goes on to the next, or says that data
\* follow it.
HeaderLen == HeaderParts[Len(HeaderParts)]
Spans(s, from, to, Is(_)) == \A j \in from..to : j <= Len(s) => Is(s[j])
Framed(s) ==
    /\ \A i \in 1..Len(s) :
         /\ i <= HeaderLen => s[i] = VlessByte
         /\ s[i] = Lost => i = HeaderLen + 1
    /\ LET i == HeaderLen + 1 IN
       i <= Len(s) =>
         \/ s[i] = Uuid /\ Spans(s, i + 1, i + 1, IsHead)
         \/ s[i] = Lost /\ Spans(s, i + 1, Len(s), IsData)
    /\ \A i \in (HeaderLen + 2)..Len(s) : IsHead(s[i]) =>
         LET b == i + 1
             c == b + s[i][3]
             d == c + s[i][4]
         IN  /\ s[i][2] \in {CMD_CONTINUE, CMD_END, CMD_DIRECT}
             /\ Spans(s, b, b, LAMBDA t : t = HeadRest)
             /\ Spans(s, b + 1, c, IsData)
             /\ IF s[i][2] = CMD_CONTINUE
                THEN /\ Spans(s, c + 1, d, LAMBDA t : t = Pad)
                     /\ Spans(s, d + 1, d + 1, IsHead)
                ELSE /\ Spans(s, c + 1, d, LAMBDA t : t = TailPad)
                     /\ Spans(s, d + 1, Len(s), IsData)

ASSUME ReaderAssumption ==
    /\ HeaderParts \in Seq(Nat) /\ HeaderParts # <<>>
    /\ \A i, j \in DOMAIN HeaderParts : i <= j => HeaderParts[i] <= HeaderParts[j]
    /\ ReadSize \in Nat \ {0} /\ BufLimit \in Nat /\ MaxRecord \in Nat /\ MaxExtra \in Nat
    /\ Kinds \subseteq {"app", "empty", "handshake", "ccs", "alert"}
    /\ Noise \in {"noise"} \X Nat \X Nat \X Nat
    /\ Script \in Seq(Tokens)
    /\ \A s \in Scripts : s \in Seq(Tokens) /\ Framed(s)

Off == [on |-> FALSE, buf |-> <<>>, first |-> TRUE, direct |-> FALSE,
        content |-> 0, padding |-> 0, out |-> <<>>]

Init ==
    /\ \/ useVision = TRUE /\ \E s \in Scripts : S!InitWith(s)
       \/ useVision = FALSE /\ S!Init
    /\ vr = Off
    /\ vend = FALSE

-----------------------------------------------------------------------------
(* enable_vision_after_header and wrap_vision.                              *)

\* Mutant: the left-over bytes stay with the record stream as well.
EnableKeeps ==
    /\ useVision /\ end = "no" /\ todo = <<>> /\ ~vr.on
    /\ vr' = [vr EXCEPT !.on = TRUE, !.buf = buf]
    /\ UNCHANGED <<script, sent, extra, sealSeq, line, buf,
                   wire, seq, todo, got, end, useVision, vend>>

Enable ==
    /\ useVision /\ end = "no" /\ todo = <<>> /\ ~vr.on
    /\ vr' = [vr EXCEPT !.on = TRUE, !.buf = buf]
    /\ buf' = <<>>
    /\ UNCHANGED <<script, sent, extra, sealSeq, line,
                   wire, seq, todo, got, end, useVision, vend>>

-----------------------------------------------------------------------------
(* VisionReader.read.                                                       *)

Need(v) == IF v.first THEN 3 ELSE 2

\* The head of a block, the user's id before the first one.
TakeHead(v) ==
    LET b == IF v.first THEN Tail(v.buf) ELSE v.buf
        h == b[1]
        rest == SubSeq(b, 3, Len(b))
        w == [v EXCEPT !.first = FALSE]
    IN  IF v.first /\ v.buf[1] # Uuid
        THEN [w EXCEPT !.direct = TRUE, !.out = @ \o b, !.buf = <<>>]
        ELSE IF h[2] \in {CMD_DIRECT, CMD_END}
        THEN [w EXCEPT !.direct = TRUE, !.out = @ \o rest, !.buf = <<>>,
                       !.content = h[3], !.padding = h[4]]
        ELSE [w EXCEPT !.buf = rest, !.content = h[3], !.padding = h[4]]

TakeContent(v) ==
    LET take == IF v.content < Len(v.buf) THEN v.content ELSE Len(v.buf)
    IN  [v EXCEPT !.out = @ \o SubSeq(v.buf, 1, take),
                  !.buf = SubSeq(v.buf, take + 1, Len(v.buf)),
                  !.content = @ - take]

TakePadding(v) ==
    LET take == IF v.padding < Len(v.buf) THEN v.padding ELSE Len(v.buf)
    IN  [v EXCEPT !.buf = SubSeq(v.buf, take + 1, Len(v.buf)),
                  !.padding = @ - take]

\* A turn of the while loop; where the loop ends, nothing changes.
Turn(v) ==
    IF v.buf = <<>> THEN v
    ELSE IF v.content > 0 THEN TakeContent(v)
    ELSE IF v.padding > 0 THEN TakePadding(v)
    ELSE IF Len(v.buf) < Need(v) THEN v
    ELSE TakeHead(v)

\* Mutant: an if instead of the while.
ParseOnce(v) == Turn(v)

\* The while loop: a turn that changes anything takes a token at least.
Parse(v) ==
    LET turns[n \in 0..Len(v.buf)] == IF n = 0 THEN v ELSE Turn(turns[n - 1])
    IN  turns[Len(v.buf)]

\* A read of the record stream returned data; without any content to return
\* the result is b"", which the pipe takes for the end.
Read ==
    /\ vr.on /\ ~vend
    /\ S!ReadData
    /\ LET new == SubSeq(got', Len(got) + 1, Len(got')) IN
       vr' = IF vr.direct THEN [vr EXCEPT !.out = @ \o new]
                          ELSE Parse([vr EXCEPT !.buf = @ \o new])
    /\ vend' = (vr'.out = vr.out)
    /\ UNCHANGED useVision

\* The record stream returned b"", or raised, which is the same here.
ReadEnds ==
    /\ vr.on /\ ~vend
    /\ S!ReadEnds \/ S!ReadNothing
    /\ vend' = TRUE
    /\ UNCHANGED <<useVision, vr>>

-----------------------------------------------------------------------------
Client == S!ClientSteps /\ UNCHANGED vision
Header == S!HeaderSteps /\ UNCHANGED vision
Plain == ~useVision /\ S!ReadSteps /\ UNCHANGED vision
Server == Header \/ Plain \/ Enable \/ Read \/ ReadEnds

Next == Client \/ Server

Spec == Init /\ [][Next]_vars

-----------------------------------------------------------------------------
TypeOK ==
    /\ S!TypeOK
    /\ vr.content >= 0 /\ vr.padding >= 0
    /\ vr.on => buf = <<>>
    /\ vend \in BOOLEAN

\* The sequence numbers of the two ciphers stay in step.
SequenceHolds == S!SequenceHolds

\* The end of a client's stream, without Vision, loses none of it.
EofMeansAll == useVision \/ S!EofMeansAll

\* The three ways in which the code itself spoils the stream: a handshake
\* record's plaintext is returned as data (tls13.py:591-594); the padding of
\* the last block is passed on (vision.py:95-99); and 16 bytes are taken for
\* the user's id and dropped when they are something else (vision.py:73-81).
NoisePassed == \E i \in 1..Len(got) : got[i] = Noise
PaddingPassed == \E i \in 1..Len(vr.out) : vr.out[i] = TailPad
DataDropped == vr.on /\ ~vr.first /\ script[HeaderLen + 1] = Lost
Spoiled == NoisePassed \/ PaddingPassed \/ DataDropped

\* Until then the pipe sees a byte stream, across the header's left-over bytes
\* and wherever the records cut: without Vision every byte the client sent,
\* with Vision the content of its blocks and the data that follow them.
Stream == INSTANCE ByteStream WITH
    sent <- IF useVision THEN Content(SubSeq(script, 1, sent))
                         ELSE SubSeq(script, 1, sent),
    got <- IF useVision THEN vr.out ELSE got,
    ended <- IF useVision THEN vend ELSE end # "no",
    spoiled <- Spoiled
ImplementsByteStream == Stream!Spec

\* Whatever a read of the stream has made complete, the remote host is given
\* in that read: no whole head and no content stays behind.  (What Enable
\* moves is not read: it waits for the next record, vision.py:47.)
Complete == Len(vr.buf) >= Need(vr) \/ (vr.buf # <<>> /\ vr.content > 0)
NothingHeldBack == [][vr.on /\ got' # got => ~Complete']_vars
=============================================================================
