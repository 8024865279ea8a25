---------------------------- MODULE SecureReader ----------------------------
(***************************************************************************)
(* The upward half of the TLS record stream of an accepted client           *)
(* (core/tls13.py): the client protects its bytes in records, and           *)
(* _SecureReader opens them with _RecordCipher.  The VLESS header is read   *)
(* with readexactly, what follows with read, by _pipe.  The two differ:     *)
(* readexactly skips records that carry no application data, read takes     *)
(* them for data or for the end.                                            *)
(*                                                                          *)
(* A byte is a member of any set; the client sends the bytes of "script".   *)
(* A record is whole or not there: _read_tls_record waits for all of it.    *)
(* The AEAD is modelled by its key's sequence number: a record opens if and *)
(* only if it was sealed with the number the reader has come to.            *)
(***************************************************************************)
EXTENDS Integers, Sequences

CONSTANTS
    HeaderParts,  \* where the parts of the header end, which are read one by one
    ReadSize,     \* the n of _pipe's read(n)
    BufLimit,     \* 1 MB in the code
    MaxRecord,    \* bytes in a record of the client
    MaxExtra,     \* records of the client without application data, for TLC
    Kinds,        \* the records the client may send
    Noise         \* a byte of a handshake message

VARIABLES
    script,  \* the bytes the client has to send
    sent,    \* how many of them it has sent
    extra,   \* records it sent besides
    sealSeq, \* the sequence number of its cipher
    wire,    \* records on their way
    line,    \* the connection: "open", "eof" (the client's FIN), "reset"
    seq,     \* cipher.seq of the reader
    buf,     \* _SecureReader.buf
    todo,    \* the parts of the header that are still to be read
    got,     \* bytes the reader's caller was given
    end      \* "no", or why the caller was told that there is no more

client == <<script, sent, extra, sealSeq, line>>
reader == <<seq, buf, todo, got, end>>
vars == <<client, wire, reader>>

Protected(kind) == kind # "ccs"

InitWith(bytes) ==
    /\ script = bytes
    /\ sent = 0 /\ extra = 0 /\ sealSeq = 0
    /\ wire = <<>> /\ line = "open"
    /\ seq = 0 /\ buf = <<>> /\ got = <<>>
    /\ todo = HeaderParts
    /\ end = "no"

-----------------------------------------------------------------------------
(* The client.                                                              *)

Puts(kind, data) ==
    /\ line = "open" /\ kind \in Kinds
    /\ wire' = Append(wire, [kind |-> kind, data |-> data, seq |-> sealSeq])
    /\ sealSeq' = IF Protected(kind) THEN sealSeq + 1 ELSE sealSeq

ClientSendsData ==
    /\ \E k \in 1..MaxRecord :
         /\ sent + k <= Len(script)
         /\ Puts("app", SubSeq(script, sent + 1, sent + k))
         /\ sent' = sent + k
    /\ UNCHANGED <<script, extra, line, reader>>

ClientSendsOther ==
    /\ extra < MaxExtra
    /\ \E kind \in Kinds \ {"app"} :
         Puts(kind, IF kind = "handshake" THEN <<Noise>> ELSE <<>>)
    /\ extra' = extra + 1
    /\ UNCHANGED <<script, sent, line, reader>>

ClientCloses ==
    /\ line = "open"
    /\ line' \in {"eof", "reset"}
    /\ UNCHANGED <<script, sent, extra, sealSeq, wire, reader>>

-----------------------------------------------------------------------------
(* _RecordCipher.decrypt and _read_tls_record.                              *)

Opens(r) == ~Protected(r.kind) \/ r.seq = seq

\* Mutant: the number advances with every record, the change_cipher_spec of
\* middlebox compatibility included.
CountsAll(r) == seq + 1

NextSeq(r) == IF Protected(r.kind) THEN seq + 1 ELSE seq

\* The first record is taken off the stream and opened.
Takes(r) ==
    /\ end = "no" /\ line # "reset"
    /\ wire' = Tail(wire)
    /\ seq' = NextSeq(r)

Ends(why) == end' = why

NoMore == IF line = "reset" THEN "reset" ELSE "eof"

\* The stream ends where a record should begin, or within it.
LineEnds ==
    /\ end = "no"
    /\ line = "reset" \/ (line = "eof" /\ wire = <<>>)
    /\ Ends(NoMore)
    /\ UNCHANGED <<client, wire, seq, buf, todo, got>>

-----------------------------------------------------------------------------
(* readexactly, called once for each part of the header.                    *)

\* The n of readexactly(n).
Wanted == Head(todo) - Len(got)

Reading == todo # <<>> /\ Len(buf) < Wanted

HeaderTakesRecord ==
    /\ Reading /\ wire # <<>>
    /\ LET r == Head(wire) IN
         /\ Takes(r)
         /\ buf' = IF Opens(r) /\ r.kind \in {"app", "empty"}
                   THEN buf \o r.data ELSE buf
         /\ Ends(IF ~Opens(r) THEN "broken"
                 ELSE IF r.kind = "alert" THEN "alert" ELSE "no")
    /\ UNCHANGED <<client, todo, got>>

\* Mutant: what readexactly leaves over is dropped with the buffer.
LeftOverLost(n) == <<>>

LeftOver(n) == SubSeq(buf, n + 1, Len(buf))

HeaderGets ==
    /\ end = "no" /\ todo # <<>> /\ Len(buf) >= Wanted
    /\ got' = got \o SubSeq(buf, 1, Wanted)
    /\ buf' = LeftOver(Wanted)
    /\ todo' = Tail(todo)
    /\ UNCHANGED <<client, wire, seq, end>>

HeaderEnds == Reading /\ LineEnds

-----------------------------------------------------------------------------
(* read, called by _pipe, which takes b"" for the end.                      *)

\* read(n) returns no more than there is.
Taken == IF ReadSize < Len(buf) THEN ReadSize ELSE Len(buf)

\* Mutant: the buffer is kept after it was returned.
KeepsBuf(n) == buf

AfterRead(n) == SubSeq(buf, n + 1, Len(buf))

ReadBuffered ==
    /\ end = "no" /\ todo = <<>> /\ buf # <<>>
    /\ IF Len(buf) > BufLimit
       THEN /\ Ends("limit")
            /\ UNCHANGED <<buf, got>>
       ELSE /\ got' = got \o SubSeq(buf, 1, Taken)
            /\ buf' = AfterRead(Taken)
            /\ UNCHANGED end
    /\ UNCHANGED <<client, wire, seq, todo>>

Carries(r) == Opens(r) /\ r.kind \in {"app", "handshake"}

ReadData ==
    /\ todo = <<>> /\ buf = <<>> /\ wire # <<>>
    /\ LET r == Head(wire) IN
         /\ Takes(r) /\ Carries(r)
         /\ got' = got \o r.data
    /\ UNCHANGED <<client, buf, todo, end>>

\* An alert, a change_cipher_spec and a record without data are all b"".
ReadNothing ==
    /\ todo = <<>> /\ buf = <<>> /\ wire # <<>>
    /\ LET r == Head(wire) IN
         /\ Takes(r) /\ ~Carries(r)
         /\ Ends(IF ~Opens(r) THEN "broken"
                 ELSE IF r.kind = "alert" THEN "alert" ELSE "nodata")
    /\ UNCHANGED <<client, buf, todo, got>>

ReadEnds ==
    /\ todo = <<>> /\ buf = <<>>
    /\ LineEnds

-----------------------------------------------------------------------------
ClientSteps == ClientSendsData \/ ClientSendsOther \/ ClientCloses
HeaderSteps == HeaderTakesRecord \/ HeaderGets \/ HeaderEnds
ReadSteps == ReadBuffered \/ ReadData \/ ReadNothing \/ ReadEnds
ReaderSteps == HeaderSteps \/ ReadSteps

Next == ClientSteps \/ ReaderSteps

CONSTANT Script
Init == InitWith(Script)
Spec == Init /\ [][Next]_vars

-----------------------------------------------------------------------------
Ended == {"eof", "reset", "alert", "nodata", "broken", "limit"}

TypeOK ==
    /\ sent \in 0..Len(script) /\ extra \in 0..MaxExtra
    /\ \A i \in DOMAIN wire : wire[i].kind \in Kinds
    /\ line \in {"open", "eof", "reset"}
    /\ seq \in 0..sealSeq
    /\ \E i \in 0..Len(HeaderParts) : todo = SubSeq(HeaderParts, i + 1, Len(HeaderParts))
    /\ end \in Ended \cup {"no"}

\* The number that follows a record, and the one that stands at place i of
\* the wire, the client's own at its end.
After(r) == IF Protected(r.kind) THEN r.seq + 1 ELSE r.seq
NumberAt(i) == IF i \in DOMAIN wire THEN wire[i].seq ELSE sealSeq

\* Every record is opened with the number it was sealed with: neither the
\* records that are skipped nor those that are not protected put the two
\* ciphers out of step (_RecordCipher.seq).
SequenceHolds ==
    /\ end # "broken"
    /\ end = "no" =>
         \A i \in 1..(Len(wire) + 1) :
             NumberAt(i) = IF i = 1 THEN seq ELSE After(wire[i - 1])

\* s without the members of drop.
Without(s, drop) ==
    LET kept[n \in 0..Len(s)] ==
            IF n = 0 THEN <<>>
            ELSE IF s[n] \in drop THEN kept[n - 1] ELSE Append(kept[n - 1], s[n])
    IN  kept[Len(s)]

\* Handshake messages that read lets through (the Noise) come in between.
Data(s) == Without(s, {Noise})

\* When the client ends its stream in order, the relay has been given all it
\* sent; only a reset, an alert or a record without data loses the rest.
EofMeansAll ==
    end = "eof" /\ todo = <<>> => Data(got) = SubSeq(script, 1, sent)
=============================================================================
