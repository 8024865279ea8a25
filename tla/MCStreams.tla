----------------------------- MODULE MCStreams -----------------------------
(* Small instances of Streams. *)
EXTENDS Streams

TwoParts == <<1, 2>>
NoiseToken == <<"noise", 0, 0, 0>>
Bytes == <<VlessByte, VlessByte>> \o [i \in 1..4 |-> Data(i)]

Block(cmd, from, clen, plen) ==
    << <<"head", cmd, clen, plen>>, HeadRest >>
    \o [i \in 1..clen |-> Data(from + i)]
    \o [i \in 1..plen |-> IF cmd = CMD_CONTINUE THEN Pad ELSE TailPad]

Sent(c1, p1, cmd, c2, p2, raw) ==
    <<VlessByte, VlessByte, Uuid>> \o Block(CMD_CONTINUE, 0, c1, p1)
        \o Block(cmd, c1, c2, p2)
        \o [i \in 1..raw |-> Data(c1 + c2 + i)]

\* Up to two blocks and raw data; the last block before these is padded in one
\* script.  The last script has no user id.
Blocks ==
    { Sent(b[1], b[2], CMD_CONTINUE, b[3], b[4], 0) :
          b \in {<<0, 0, 1, 0>>, <<1, 2, 0, 1>>, <<2, 0, 0, 0>>, <<0, 1, 1, 1>>} }
    \cup { Sent(c1, 1, cmd, 1, 0, 1) :
          c1 \in {0, 1}, cmd \in {CMD_END, CMD_DIRECT} }
    \cup { Sent(0, 0, CMD_DIRECT, 1, 1, 1) }
    \cup { <<VlessByte, VlessByte, Lost, Data(1), Data(2), Data(3)>> }

\* Both sides of every boundary of VisionWriter and _SecureWriter.
Boundaries == {1, 2, 3, 899, 900, 16123, 16124, 16384, 16385, 65257, 65258,
               65513, 65514, 65518, 65519, 65535, 65536}
=============================================================================
