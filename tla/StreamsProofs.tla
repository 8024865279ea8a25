--------------------------- MODULE StreamsProofs ---------------------------
(***************************************************************************)
(* Proofs about both directions of a connection's byte stream.  Downwards,  *)
(* that the client can read what is written and which chunks are safe to    *)
(* write.  Upwards, that the two ciphers stay in step, that nothing is lost *)
(* before the end, that Vision holds nothing back, and that _SecureReader   *)
(* and VisionReader implement ByteStream until one of its three exceptions  *)
(* spoils the stream; for every script that follows the grammar, cut into   *)
(* records anywhere, with any others among them, and any number of chunks.  *)
(*                                                                          *)
(* The invariant of the upward direction says where the bytes are: at every *)
(* moment the client's script up to some place has been taken off the wire, *)
(* the records on the wire carry it from there on (CutFrom), and of what    *)
(* was taken the parser has put out what it passes on and holds the rest    *)
(* back (Stands), unless it was given a Noise.  A turn of its loop keeps    *)
(* that and takes a token at least, so that after as many turns as there    *)
(* are tokens it is Settled.                                                *)
(***************************************************************************)
EXTENDS Streams, ExpiryLemmas

-----------------------------------------------------------------------------
(* Recursive functions over the places of a sequence.                      *)

\* Induction up to a bound, for a set of numbers.
LEMMA Induction ==
    ASSUME NEW len \in Nat, NEW good,
           0 \in good, \A k \in 1..len : k - 1 \in good => k \in good
    PROVE  0..len \subseteq good /\ len \in good
<1> DEFINE bad == (0..len) \ good
<1>1. SUFFICES ASSUME bad # {} PROVE FALSE
    OBVIOUS
<1>2. PICK k \in bad : \A i \in bad : k <= i
  <2>1. bad \in SUBSET Nat
      OBVIOUS
  <2> HIDE DEF bad
  <2> QED BY <1>1, <2>1, LeastNat
<1>3. k \in 1..len /\ k - 1 \in 0..len /\ ~(k <= k - 1)
    BY <1>2
<1> QED BY <1>2, <1>3

\* f is the recursive function of Without, as far as m.
IsKept(f, s, drop, m) ==
    f = [n \in 0..m |-> IF n = 0 THEN <<>>
                        ELSE IF s[n] \in drop THEN f[n - 1] ELSE Append(f[n - 1], s[n])]

LEMMA KeptExists ==
    ASSUME NEW s, NEW drop, NEW len \in Nat
    PROVE  \E f : IsKept(f, s, drop, len)
<1> DEFINE good == {m \in Nat : \E f : IsKept(f, s, drop, m)}
<1>1. 0 \in good
  <2>1. IsKept([n \in 0..0 |-> <<>>], s, drop, 0)
      BY DEF IsKept
  <2> QED BY <2>1
<1>2. ASSUME NEW m \in 1..len, m - 1 \in good PROVE m \in good
  <2>1. PICK g : IsKept(g, s, drop, m - 1)
      BY <1>2
  <2> DEFINE last == IF s[m] \in drop THEN g[m - 1] ELSE Append(g[m - 1], s[m])
             h == [n \in 0..m |-> IF n = m THEN last ELSE g[n]]
  <2>2. ASSUME NEW n \in 0..m
        PROVE  h[n] = IF n = 0 THEN <<>>
                      ELSE IF s[n] \in drop THEN h[n - 1] ELSE Append(h[n - 1], s[n])
    <3>1. CASE n = m
      <4>1. n - 1 \in 0..m /\ n - 1 # m /\ n # 0
          BY <3>1
      <4> QED BY <3>1, <4>1
    <3>2. CASE n # m /\ n # 0
      <4>1. n - 1 \in 0..(m - 1) /\ n \in 0..(m - 1) /\ n - 1 # m /\ n - 1 \in 0..m
          BY <3>2
      <4>2. g[n] = IF s[n] \in drop THEN g[n - 1] ELSE Append(g[n - 1], s[n])
          BY <2>1, <3>2, <4>1 DEF IsKept
      <4> QED BY <3>2, <4>1, <4>2
    <3>3. CASE n # m /\ n = 0
      <4>1. 0 \in 0..(m - 1)
          OBVIOUS
      <4>2. g[0] = <<>>
          BY <2>1, <4>1 DEF IsKept
      <4> QED BY <3>3, <4>2
    <3> QED BY <3>1, <3>2, <3>3
  <2>3. h = [n \in 0..m |-> h[n]]
      OBVIOUS
  <2>4. IsKept(h, s, drop, m)
    <3> HIDE DEF h
    <3> QED BY <2>2, <2>3 DEF IsKept
  <2> HIDE DEF h
  <2> QED BY <2>4
<1> HIDE DEF good
<1>3. len \in good
    BY <1>1, <1>2, Induction
<1> QED BY <1>3 DEF good

LEMMA WithoutIsKept ==
    ASSUME NEW s, NEW drop, Len(s) \in Nat
    PROVE  \E f : IsKept(f, s, drop, Len(s)) /\ S!Without(s, drop) = f[Len(s)]
<1> DEFINE K == CHOOSE f : IsKept(f, s, drop, Len(s))
<1>1. IsKept(K, s, drop, Len(s))
    BY KeptExists
<1>2. S!Without(s, drop) = K[Len(s)]
    BY DEF S!Without, IsKept
<1> HIDE DEF K
<1> QED BY <1>1, <1>2

\* Sequences with the same beginning have the same kept beginning.
LEMMA KeptAgrees ==
    ASSUME NEW s, NEW t, NEW drop, NEW m \in Nat, NEW n \in Nat, NEW f, NEW g,
           IsKept(f, s, drop, m), IsKept(g, t, drop, n),
           NEW len \in Nat, len <= m, len <= n, \A i \in 1..len : s[i] = t[i]
    PROVE  f[len] = g[len]
<1> DEFINE good == {k \in 0..len : f[k] = g[k]}
<1>1. 0 \in good
    BY DEF IsKept
<1>2. ASSUME NEW k \in 1..len, k - 1 \in good PROVE k \in good
  <2>1. k \in 0..m /\ k \in 0..n /\ k # 0 /\ s[k] = t[k] /\ k \in 0..len
      OBVIOUS
  <2>2. f[k] = IF s[k] \in drop THEN f[k - 1] ELSE Append(f[k - 1], s[k])
      BY <2>1 DEF IsKept
  <2>3. g[k] = IF t[k] \in drop THEN g[k - 1] ELSE Append(g[k - 1], t[k])
      BY <2>1 DEF IsKept
  <2> QED BY <1>2, <2>1, <2>2, <2>3
<1> HIDE DEF good
<1>3. len \in good
    BY <1>1, <1>2, Induction
<1> QED BY <1>3 DEF good

\* The value of the recursive function, by what came before.
LEMMA KeptFirst ==
    ASSUME NEW s, NEW drop, NEW m \in Nat, NEW f, IsKept(f, s, drop, m)
    PROVE  f[0] = <<>>
BY DEF IsKept

LEMMA KeptNext ==
    ASSUME NEW s, NEW drop, NEW m \in Nat, NEW f, IsKept(f, s, drop, m), NEW k \in 1..m
    PROVE  f[k] = IF s[k] \in drop THEN f[k - 1] ELSE Append(f[k - 1], s[k])
<1>1. k \in 0..m /\ k # 0
    OBVIOUS
<1> QED BY <1>1 DEF IsKept

\* An element appended to two parts is appended to the second.
AppendsBehind(A) ==
    \A a, b \in Seq(A), x \in A :
        /\ Append(a \o b, x) = a \o Append(b, x)
        /\ Append(b, x) \in Seq(A)

LEMMA AppendToConcat == ASSUME NEW A PROVE AppendsBehind(A)
<1> SUFFICES ASSUME NEW a \in Seq(A), NEW b \in Seq(A), NEW x \in A
             PROVE  /\ Append(a \o b, x) = a \o Append(b, x)
                    /\ Append(b, x) \in Seq(A)
    BY DEF AppendsBehind
<1> DEFINE y == <<x>>
<1>1. y \in Seq(A) /\ a \o b \in Seq(A)
    OBVIOUS
<1>2. Append(a \o b, x) = (a \o b) \o y /\ Append(b, x) = b \o y
    BY <1>1, AppendIsConcat
<1>3. (a \o b) \o y = a \o (b \o y)
  <2>1. y \in Seq(A)
      BY <1>1
  <2> HIDE DEF y
  <2> QED BY <2>1, ConcatAssociative
<1>4. Append(b, x) \in Seq(A)
    BY AppendProperties
<1> QED BY <1>2, <1>3, <1>4

\* What Without keeps of a sequence: a sequence of the same bytes,
LEMMA WithoutType ==
    ASSUME NEW A, NEW s \in Seq(A), NEW drop
    PROVE  S!Without(s, drop) \in Seq(A)
<1>1. Len(s) \in Nat
    OBVIOUS
<1>2. PICK f : IsKept(f, s, drop, Len(s)) /\ S!Without(s, drop) = f[Len(s)]
    BY <1>1, WithoutIsKept
<1> DEFINE good == {k \in 0..Len(s) : f[k] \in Seq(A)}
<1>3. 0 \in good
  <2>1. f[0] \in Seq(A)
      BY <1>1, <1>2, KeptFirst, EmptySeq
  <2> QED BY <1>1, <2>1
<1>4. ASSUME NEW k \in 1..Len(s), k - 1 \in good PROVE k \in good
  <2>1. s[k] \in A /\ f[k - 1] \in Seq(A)
      BY <1>4
  <2>2. Append(f[k - 1], s[k]) \in Seq(A)
      BY <2>1, AppendProperties
  <2>3. f[k] = IF s[k] \in drop THEN f[k - 1] ELSE Append(f[k - 1], s[k])
      BY <1>1, <1>2, KeptNext
  <2>4. f[k] \in Seq(A)
      BY <2>1, <2>2, <2>3
  <2> QED BY <2>4
<1> HIDE DEF good
<1>5. 0..Len(s) \subseteq good
    BY <1>1, <1>3, <1>4, Induction
<1> QED BY <1>1, <1>2, <1>5 DEF good

\* of two parts, what it keeps of each,
LEMMA WithoutConcat ==
    ASSUME NEW A, NEW s \in Seq(A), NEW t \in Seq(A), NEW drop
    PROVE  S!Without(s \o t, drop) = S!Without(s, drop) \o S!Without(t, drop)
<1> DEFINE u == s \o t
           p == Len(s)
           q == Len(t)
<1>1. p \in Nat /\ q \in Nat /\ Len(u) = p + q
    OBVIOUS
<1>2. \A i \in 1..p : u[i] = s[i]
    OBVIOUS
<1>3. \A i \in 1..q : u[p + i] = t[i]
    OBVIOUS
<1>4. \A i \in 1..q : t[i] \in A
    OBVIOUS
<1>5. PICK f : IsKept(f, s, drop, p) /\ S!Without(s, drop) = f[p]
    BY <1>1, WithoutIsKept
<1>6. PICK g : IsKept(g, t, drop, q) /\ S!Without(t, drop) = g[q]
    BY <1>1, WithoutIsKept
<1>7. PICK h : IsKept(h, u, drop, p + q) /\ S!Without(u, drop) = h[p + q]
  <2>1. Len(u) \in Nat
      BY <1>1
  <2> HIDE DEF u
  <2>2. PICK h : IsKept(h, u, drop, Len(u)) /\ S!Without(u, drop) = h[Len(u)]
      BY <2>1, WithoutIsKept
  <2>3. Len(u) = p + q
      BY <1>1
  <2> HIDE DEF p, q
  <2> QED BY <2>2, <2>3
<1>8. f[p] \in Seq(A)
    BY <1>5, WithoutType
<1> HIDE DEF u, p, q
<1>9. IsKept(g, t, drop, q)
    BY <1>6
<1>10. IsKept(h, u, drop, p + q)
    BY <1>7
<1>11. IsKept(f, s, drop, p) /\ \A i \in 1..p : u[i] = s[i]
    BY <1>2, <1>5
<1> DEFINE good == {k \in 0..q : g[k] \in Seq(A) /\ h[p + k] = f[p] \o g[k]}
<1>12. 0 \in good
  <2>1. h[p] = f[p]
    <3> DEFINE n == p + q
    <3>1. p \in Nat /\ n \in Nat /\ p <= n /\ p <= p
        BY <1>1
    <3>2. IsKept(h, u, drop, n) /\ IsKept(f, s, drop, p) /\ \A i \in 1..p : u[i] = s[i]
        BY <1>10, <1>11
    <3> HIDE DEF n, good
    <3> QED BY <3>1, <3>2, KeptAgrees
  <2>2. g[0] = <<>>
      BY <1>1, <1>9, KeptFirst
  <2>3. f[p] \o <<>> = f[p]
      BY <1>8, ConcatEmptySeq
  <2>4. g[0] \in Seq(A)
      BY <2>2, EmptySeq
  <2>5. p + 0 = p /\ 0 \in 0..q
      BY <1>1
  <2> QED BY <2>1, <2>2, <2>3, <2>4, <2>5
<1> HIDE DEF good
<1>13. ASSUME NEW k \in 1..q, k - 1 \in good PROVE k \in good
  <2>1. p + k \in 1..(p + q) /\ p + q \in Nat
      BY <1>1
  <2>2. g[k] = IF t[k] \in drop THEN g[k - 1] ELSE Append(g[k - 1], t[k])
      BY <1>1, <1>9, KeptNext
  <2>3. h[p + k] = IF u[p + k] \in drop THEN h[(p + k) - 1]
                   ELSE Append(h[(p + k) - 1], u[p + k])
    <3> DEFINE n == p + q
               j == p + k
    <3>1. n \in Nat /\ j \in 1..n /\ IsKept(h, u, drop, n)
        BY <1>10, <2>1
    <3> HIDE DEF n, j, good
    <3>2. h[j] = IF u[j] \in drop THEN h[j - 1] ELSE Append(h[j - 1], u[j])
        BY <3>1, KeptNext
    <3> QED BY <3>2 DEF j
  <2>4. (p + k) - 1 = p + (k - 1) /\ k \in 0..q
      BY <1>1
  <2>5. g[k - 1] \in Seq(A) /\ h[p + (k - 1)] = f[p] \o g[k - 1]
      BY <1>13 DEF good
  <2>6. t[k] \in A /\ u[p + k] = t[k]
      BY <1>3, <1>4
  <2>7. f[p] \in Seq(A) /\ g[k - 1] \in Seq(A) /\ t[k] \in A
      BY <1>8, <2>5, <2>6
  <2>8. /\ Append(f[p] \o g[k - 1], t[k]) = f[p] \o Append(g[k - 1], t[k])
        /\ Append(g[k - 1], t[k]) \in Seq(A)
    <3>1. AppendsBehind(A)
        BY AppendToConcat
    <3> QED BY <2>7, <3>1, Zenon DEF AppendsBehind
  <2>9. g[k] \in Seq(A)
      BY <2>2, <2>5, <2>8
  <2>10. h[p + k] = IF t[k] \in drop THEN f[p] \o g[k - 1] ELSE f[p] \o Append(g[k - 1], t[k])
      BY <2>3, <2>4, <2>5, <2>6, <2>8
  <2>11. h[p + k] = f[p] \o g[k]
      BY <2>2, <2>10
  <2> QED BY <2>4, <2>9, <2>11 DEF good
<1>14. q \in good
  <2>1. 0..q \subseteq good
      BY <1>1, <1>12, <1>13, Induction
  <2> QED BY <1>1, <2>1
<1>15. h[p + q] = f[p] \o g[q]
    BY <1>14 DEF good
<1>16. S!Without(u, drop) = S!Without(s, drop) \o S!Without(t, drop)
    BY <1>5, <1>6, <1>7, <1>15
<1> QED BY <1>16 DEF u

\* everything,
LEMMA WithoutNone ==
    ASSUME NEW A, NEW s \in Seq(A), NEW drop
    PROVE  (\A i \in 1..Len(s) : s[i] \notin drop) => S!Without(s, drop) = s
<1>0. SUFFICES ASSUME \A i \in 1..Len(s) : s[i] \notin drop PROVE S!Without(s, drop) = s
    OBVIOUS
<1>1. Len(s) \in Nat
    OBVIOUS
<1>2. PICK f : IsKept(f, s, drop, Len(s)) /\ S!Without(s, drop) = f[Len(s)]
    BY <1>1, WithoutIsKept
<1>3. IsKept(f, s, drop, Len(s))
    BY <1>2
<1> DEFINE good == {k \in 0..Len(s) : f[k] = SubSeq(s, 1, k)}
<1>4. 0 \in good
  <2>1. f[0] = <<>>
      BY <1>1, <1>3, KeptFirst
  <2>2. SubSeq(s, 1, 0) = <<>>
      OBVIOUS
  <2>3. 0 \in 0..Len(s)
      BY <1>1
  <2> QED BY <2>1, <2>2, <2>3
<1>5. ASSUME NEW k \in 1..Len(s), k - 1 \in good PROVE k \in good
  <2>1. s[k] \in A /\ SubSeq(s, 1, k - 1) \in Seq(A)
      OBVIOUS
  <2>2. SubSeq(s, 1, k) = Append(SubSeq(s, 1, k - 1), s[k])
      OBVIOUS
  <2>3. f[k] = IF s[k] \in drop THEN f[k - 1] ELSE Append(f[k - 1], s[k])
      BY <1>1, <1>3, KeptNext
  <2>4. f[k - 1] = SubSeq(s, 1, k - 1)
      BY <1>5
  <2>5. f[k] = SubSeq(s, 1, k)
      BY <1>0, <2>2, <2>3, <2>4
  <2>6. k \in 0..Len(s)
      BY <1>1
  <2> QED BY <2>5, <2>6
<1> HIDE DEF good
<1>6. Len(s) \in good
  <2> DEFINE n == Len(s)
  <2>1. n \in Nat /\ 0 \in good /\ \A k \in 1..n : k - 1 \in good => k \in good
      BY <1>1, <1>4, <1>5
  <2> HIDE DEF n
  <2>2. n \in good
      BY <2>1, Induction
  <2> QED BY <2>2 DEF n
<1>7. f[Len(s)] = SubSeq(s, 1, Len(s))
    BY <1>6 DEF good
<1>8. SubSeq(s, 1, Len(s)) = s
    OBVIOUS
<1> QED BY <1>2, <1>7, <1>8

\* or nothing.
LEMMA WithoutAll ==
    ASSUME NEW A, NEW s \in Seq(A), NEW drop
    PROVE  (\A i \in 1..Len(s) : s[i] \in drop) => S!Without(s, drop) = <<>>
<1>0. SUFFICES ASSUME \A i \in 1..Len(s) : s[i] \in drop PROVE S!Without(s, drop) = <<>>
    OBVIOUS
<1>1. Len(s) \in Nat
    OBVIOUS
<1>2. PICK f : IsKept(f, s, drop, Len(s)) /\ S!Without(s, drop) = f[Len(s)]
    BY <1>1, WithoutIsKept
<1>3. IsKept(f, s, drop, Len(s))
    BY <1>2
<1> DEFINE good == {k \in 0..Len(s) : f[k] = <<>>}
<1>4. 0 \in good
  <2>1. f[0] = <<>>
      BY <1>1, <1>3, KeptFirst
  <2>2. 0 \in 0..Len(s)
      BY <1>1
  <2> QED BY <2>1, <2>2
<1>5. ASSUME NEW k \in 1..Len(s), k - 1 \in good PROVE k \in good
  <2>1. f[k] = IF s[k] \in drop THEN f[k - 1] ELSE Append(f[k - 1], s[k])
      BY <1>1, <1>3, KeptNext
  <2>2. k \in 0..Len(s)
      BY <1>1
  <2> QED BY <1>0, <1>5, <2>1, <2>2
<1> HIDE DEF good
<1>6. Len(s) \in good
  <2> DEFINE n == Len(s)
  <2>1. n \in Nat /\ 0 \in good /\ \A k \in 1..n : k - 1 \in good => k \in good
      BY <1>1, <1>4, <1>5
  <2> HIDE DEF n
  <2>2. n \in good
      BY <2>1, Induction
  <2> QED BY <2>2 DEF n
<1> QED BY <1>2, <1>6 DEF good

-----------------------------------------------------------------------------
(* Downward: VisionWriter.                                                 *)

Writable == D!Chunk \cup {D!Answer}
Records == [seq : Nat, size : Int, head : {D!Raw, D!Continue, D!Direct}, plen : Int,
            chunk : Nat]

Failed == IF pipe = "failed" THEN 1 ELSE 0

\* What the client finds in every record, and what a chunk that fits makes of
\* its record's size.
RecordsInStep ==
    \A i \in 1..Len(downWire) :
        /\ downWire[i].seq = i - 1 /\ downWire[i].chunk = i
        /\ downWire[i].head = D!Raw <=> ~useVision \/ D!SaidDirect(i)
        /\ chunks[i].len <= D!ReadableChunk => downWire[i].size <= D!MaxPlaintext

\* VisionState.direct_copy is what the client has been told.
WriterInv ==
    /\ {useVision, first, direct} \subseteq BOOLEAN
    /\ pipe \in {"run", "failed"}
    /\ chunks \in Seq(Writable) /\ Len(chunks) <= MaxChunks + 1
    /\ downWire \in Seq(Records) /\ downSeq = Len(downWire)
    /\ Len(downWire) = Len(chunks) - Failed
    /\ pipe = "run" =>
         (direct <=> \E i \in 1..Len(downWire) : downWire[i].head = D!Direct)
    /\ ~useVision => \A i \in 1..Len(downWire) : downWire[i].head = D!Raw
    /\ RecordsInStep
    /\ D!SafeChunks

LEMMA WritableLength ==
    ASSUME NEW c \in Writable
    PROVE  c.len \in Nat
<1>1. Sizes \subseteq Nat
  <2>1. LargestChunk \in Nat
      BY DEF LargestChunk
  <2>2. 1..LargestChunk \subseteq Nat
      BY <2>1
  <2> QED BY <2>2, WriterAssumption
<1>2. ASSUME c \in D!Chunk PROVE c.len \in Nat
  <2>1. c.len \in Sizes
      BY <1>2 DEF D!Chunk
  <2> QED BY <1>1, <2>1
<1>3. ASSUME c = D!Answer PROVE c.len \in Nat
    BY <1>3 DEF D!Answer
<1> QED BY <1>2, <1>3 DEF Writable

LEMMA LastAppended ==
    ASSUME NEW A, NEW s \in Seq(A), NEW x \in A
    PROVE  D!Last(Append(s, x)) = x
BY DEF D!Last

LEMMA WritesKeeps ==
    ASSUME WriterInv, NEW c \in Writable, Len(chunks) <= MaxChunks, D!Writes(c)
    PROVE  WriterInv'
<1> DEFINE head == D!Head5(c)
<1>1. PICK plen \in IF head = D!Raw THEN {0} ELSE D!Paddings(c.len) :
        LET size == IF head = D!Raw THEN c.len ELSE 5 + c.len + plen IN
        IF D!Fits(head, c.len, size)
        THEN /\ downWire' = Append(downWire, [seq |-> downSeq, size |-> size,
                                       head |-> head, plen |-> plen,
                                       chunk |-> Len(chunks')])
             /\ downSeq' = D!SeqAfter
             /\ UNCHANGED pipe
        ELSE /\ pipe' = "failed"
             /\ UNCHANGED <<downWire, downSeq>>
    BY DEF D!Writes
<1> DEFINE size == IF head = D!Raw THEN c.len ELSE 5 + c.len + plen
           r == [seq |-> downSeq, size |-> size, head |-> head, plen |-> plen,
                 chunk |-> Len(chunks')]
<1>2. /\ pipe = "run" /\ chunks' = Append(chunks, c) /\ useVision' = useVision
      /\ direct' = (direct \/ (useVision /\ D!GoesDirect(c)))
      /\ first' = (first /\ head = D!Raw)
    BY DEF D!Writes
<1> DEFINE n == c.len
<1>3. n \in Nat
    BY WritableLength
<1>4. /\ head \in {D!Raw, D!Continue, D!Direct}
      /\ head = D!Raw <=> ~useVision \/ direct
      /\ head = D!Direct => useVision /\ ~direct /\ D!GoesDirect(c)
      /\ D!GoesDirect(c) /\ useVision /\ ~direct => head = D!Direct
    BY DEF D!Head5, D!Raw, D!Continue, D!Direct
<1> HIDE DEF head
<1>5. /\ plen \in Int
      /\ head = D!Raw => size = n
      /\ head # D!Raw => size = 5 + n + plen
      /\ head # D!Raw => size + 17 <= (IF n < 900 THEN 1422 ELSE n + 278)
  <2> HIDE DEF n
  <2>1. CASE head = D!Raw
    <3>1. plen = 0 /\ size = n
        BY <1>1, <2>1 DEF n
    <3> QED BY <2>1, <3>1
  <2>2. CASE head # D!Raw
    <3>1. plen \in D!Paddings(n) /\ size = 5 + n + plen
        BY <1>1, <2>2 DEF n
    <3>2. plen \in Int /\ 5 + n + plen + 17 <= (IF n < 900 THEN 1422 ELSE n + 278)
      <4> HIDE DEF size
      <4>1. CASE n < 900
        <5>1. plen \in {900 - n, 1400 - n}
            BY <3>1, <4>1 DEF D!Paddings
        <5> QED BY <1>3, <4>1, <5>1
      <4>2. CASE ~(n < 900)
        <5>1. plen \in {0, 256}
            BY <3>1, <4>2 DEF D!Paddings
        <5> QED BY <1>3, <4>2, <5>1
      <4> QED BY <4>1, <4>2
    <3> QED BY <1>3, <2>2, <3>1, <3>2
  <2> QED BY <2>1, <2>2
<1>6. size \in Int
  <2> HIDE DEF n, size
  <2> QED BY <1>3, <1>5
<1>7. /\ chunks \in Seq(Writable) /\ downWire \in Seq(Records) /\ Len(chunks) \in Nat
      /\ Len(downWire) = Len(chunks) /\ downSeq = Len(downWire)
    BY <1>2 DEF WriterInv, Failed
<1>8. /\ chunks' \in Seq(Writable) /\ Len(chunks') = Len(chunks) + 1
      /\ D!Last(chunks') = c /\ chunks'[Len(chunks) + 1] = c
      /\ \A i \in 1..Len(chunks) : chunks'[i] = chunks[i]
    BY <1>2, <1>7, LastAppended
<1>9. {useVision, first, direct}' \subseteq BOOLEAN
    BY <1>2 DEF WriterInv
<1>10. Len(chunks') <= MaxChunks + 1
  <2>1. MaxChunks \in Nat
      BY WriterAssumption
  <2> QED BY <1>7, <1>8, <2>1
<1>11. CASE D!Fits(head, c.len, size)
  <2>1. downWire' = Append(downWire, r) /\ downSeq' = downSeq + 1 /\ pipe' = "run"
      BY <1>1, <1>2, <1>11 DEF D!SeqAfter
  <2>2. r \in Records /\ r.seq = Len(downWire) /\ r.head = head /\ r.chunk = Len(downWire) + 1
      BY <1>4, <1>5, <1>6, <1>7, <1>8 DEF Records
  <2> HIDE DEF r
  <2>3. /\ downWire' \in Seq(Records) /\ Len(downWire') = Len(downWire) + 1
        /\ downWire'[Len(downWire) + 1] = r
        /\ \A i \in 1..Len(downWire) : downWire'[i] = downWire[i]
      BY <1>7, <2>1, <2>2
  <2>4. Failed' = 0
      BY <2>1 DEF Failed
  <2>5. direct' <=> \E i \in 1..Len(downWire') : downWire'[i].head = D!Direct
    <3>1. direct <=> \E i \in 1..Len(downWire) : downWire[i].head = D!Direct
        BY <1>2 DEF WriterInv
    <3>2. direct' <=> direct \/ head = D!Direct
        BY <1>2, <1>4 DEF D!Raw, D!Direct
    <3>3. 1..Len(downWire') = 1..Len(downWire) \cup {Len(downWire) + 1}
        BY <1>7, <2>3
    <3>4. r.head = head
        BY <2>2
    <3>5. (\E i \in 1..Len(downWire') : downWire'[i].head = D!Direct)
              <=> (\E i \in 1..Len(downWire) : downWire[i].head = D!Direct) \/ head = D!Direct
        BY <2>3, <3>3, <3>4
    <3> QED BY <3>1, <3>2, <3>5
  <2>6. ~useVision' => \A i \in 1..Len(downWire') : downWire'[i].head = D!Raw
      BY <1>2, <1>4, <1>7, <2>2, <2>3 DEF WriterInv
  <2>7. RecordsInStep'
    <3> PICK last \in Nat : last = Len(downWire) + 1
        BY <1>7
    <3>1. 1..Len(downWire') = 1..Len(downWire) \cup {last}
        BY <1>7, <2>3
    <3>2. \A i \in 1..Len(downWire) : D!SaidDirect(i)' <=> D!SaidDirect(i)
        BY <1>7, <2>3 DEF D!SaidDirect
    <3>3. D!SaidDirect(last)' <=> \E i \in 1..Len(downWire) : downWire[i].head = D!Direct
        BY <1>7, <2>3 DEF D!SaidDirect
    <3>4. direct <=> \E i \in 1..Len(downWire) : downWire[i].head = D!Direct
        BY <1>2 DEF WriterInv
    <3>5. D!ReadableChunk' = D!ReadableChunk /\ D!MaxPlaintext' = D!MaxPlaintext
        BY <1>2 DEF D!ReadableChunk, D!MaxPlaintext
    <3>6. r.size = size /\ (n <= D!ReadableChunk => size <= D!MaxPlaintext)
      <4>1. r.size = size
          BY DEF r
      <4>2. ~useVision => head = D!Raw
          BY <1>4
      <4>3. n <= D!ReadableChunk => size <= D!MaxPlaintext
        <5> HIDE DEF n, size
        <5> QED BY <1>3, <1>5, <1>6, <4>2 DEF D!ReadableChunk, D!MaxPlaintext
      <4> QED BY <4>1, <4>3
    <3>7. ASSUME NEW i \in 1..Len(downWire)
          PROVE  /\ downWire'[i].seq = i - 1 /\ downWire'[i].chunk = i
                 /\ downWire'[i].head = D!Raw <=> ~useVision \/ D!SaidDirect(i)'
                 /\ chunks'[i].len <= D!ReadableChunk => downWire'[i].size <= D!MaxPlaintext
      <4>1. /\ downWire[i].seq = i - 1 /\ downWire[i].chunk = i
            /\ downWire[i].head = D!Raw <=> ~useVision \/ D!SaidDirect(i)
            /\ chunks[i].len <= D!ReadableChunk => downWire[i].size <= D!MaxPlaintext
          BY DEF WriterInv, RecordsInStep
      <4>2. downWire'[i] = downWire[i] /\ chunks'[i] = chunks[i]
          BY <1>7, <1>8, <2>3
      <4> QED BY <3>2, <4>1, <4>2
    <3>8. /\ r.seq = last - 1 /\ r.chunk = last
          /\ r.head = D!Raw <=> ~useVision \/ D!SaidDirect(last)'
          /\ chunks'[last].len <= D!ReadableChunk => r.size <= D!MaxPlaintext
        BY <1>4, <1>7, <1>8, <2>2, <3>3, <3>4, <3>6
    <3> QED BY <1>2, <1>7, <2>3, <3>1, <3>5, <3>7, <3>8 DEF RecordsInStep
  <2>8. D!SafeChunks'
      BY <2>1 DEF D!SafeChunks
  <2>9. pipe' \in {"run", "failed"} /\ Len(chunks') <= MaxChunks + 1
      BY <1>8, <1>10, <2>1
  <2>10. downSeq' = Len(downWire') /\ Len(downWire') = Len(chunks') - Failed'
      BY <1>7, <1>8, <2>1, <2>3, <2>4
  <2> QED BY <1>8, <1>9, <2>3, <2>5, <2>6, <2>7, <2>8, <2>9, <2>10 DEF WriterInv
<1>12. CASE ~D!Fits(head, c.len, size)
  <2>1. downWire' = downWire /\ downSeq' = downSeq /\ pipe' = "failed"
      BY <1>1, <1>12
  <2>2. Failed' = 1
      BY <2>1 DEF Failed
  <2>3. RecordsInStep'
    <3>1. \A i \in 1..Len(downWire) : D!SaidDirect(i)' <=> D!SaidDirect(i)
        BY <2>1 DEF D!SaidDirect
    <3>2. D!ReadableChunk' = D!ReadableChunk /\ D!MaxPlaintext' = D!MaxPlaintext
        BY <1>2 DEF D!ReadableChunk, D!MaxPlaintext
    <3>3. ASSUME NEW i \in 1..Len(downWire)
          PROVE  /\ downWire[i].seq = i - 1 /\ downWire[i].chunk = i
                 /\ downWire[i].head = D!Raw <=> ~useVision \/ D!SaidDirect(i)'
                 /\ chunks'[i].len <= D!ReadableChunk => downWire[i].size <= D!MaxPlaintext
      <4>1. /\ downWire[i].seq = i - 1 /\ downWire[i].chunk = i
            /\ downWire[i].head = D!Raw <=> ~useVision \/ D!SaidDirect(i)
            /\ chunks[i].len <= D!ReadableChunk => downWire[i].size <= D!MaxPlaintext
          BY DEF WriterInv, RecordsInStep
      <4>2. chunks'[i] = chunks[i]
          BY <1>7, <1>8
      <4> QED BY <3>1, <4>1, <4>2
    <3> QED BY <1>2, <2>1, <3>2, <3>3 DEF RecordsInStep
  <2>4. c.len > (IF useVision THEN 65257 ELSE 65518)
    <3>1. ~D!Fits(head, n, size)
        BY <1>12
    <3>2. (head # D!Raw /\ n > 65535) \/ size + 17 > 65535
      <4> HIDE DEF n, size
      <4> QED BY <1>3, <1>6, <3>1 DEF D!Fits
    <3>3. head = D!Raw => n > 65518
      <4> HIDE DEF n, size
      <4> QED BY <1>3, <1>5, <3>2
    <3>4. head # D!Raw => n > 65257
      <4> HIDE DEF n, size
      <4> QED BY <1>3, <1>5, <1>6, <3>2
    <3>5. ~useVision => head = D!Raw
        BY <1>4
    <3>6. n > 65257 /\ (~useVision => n > 65518)
      <4> HIDE DEF n, size
      <4> QED BY <1>3, <3>3, <3>4, <3>5
    <3>7. CASE useVision
        BY <3>6, <3>7
    <3>8. CASE ~useVision
        BY <3>6, <3>8
    <3> QED BY <3>7, <3>8
  <2>5. D!SafeChunks'
      BY <1>2, <1>8, <2>4 DEF D!SafeChunks
  <2>6. (~useVision => \A i \in 1..Len(downWire) : downWire[i].head = D!Raw)'
    <3>1. ~useVision => \A i \in 1..Len(downWire) : downWire[i].head = D!Raw
        BY DEF WriterInv
    <3> QED BY <1>2, <2>1, <3>1
  <2>7. /\ pipe' \in {"run", "failed"} /\ pipe' # "run" /\ Len(chunks') <= MaxChunks + 1
        /\ Len(downWire') = Len(chunks') - Failed'
      BY <1>7, <1>8, <1>10, <2>1, <2>2
  <2>8. downWire' \in Seq(Records) /\ downSeq' = Len(downWire')
      BY <1>7, <2>1
  <2> QED BY <1>8, <1>9, <2>3, <2>5, <2>6, <2>7, <2>8 DEF WriterInv
<1> QED BY <1>11, <1>12

LEMMA WriterInitially ==
    ASSUME D!InitWith(useVision), useVision \in BOOLEAN
    PROVE  WriterInv
<1>1. /\ first = TRUE /\ direct = FALSE /\ downSeq = 0 /\ downWire = <<>> /\ chunks = <<>>
      /\ pipe = "run"
    BY DEF D!InitWith
<1>2. /\ chunks \in Seq(Writable) /\ Len(chunks) = 0
      /\ downWire \in Seq(Records) /\ Len(downWire) = 0
    BY <1>1
<1>3. Failed = 0
    BY <1>1 DEF Failed
<1>4. RecordsInStep
    BY <1>1, <1>2 DEF RecordsInStep
<1>5. D!SafeChunks
    BY <1>1 DEF D!SafeChunks
<1>6. {useVision, first, direct} \subseteq BOOLEAN
    BY <1>1
<1>7. downSeq = Len(downWire) /\ Len(downWire) = Len(chunks) - Failed
    BY <1>1, <1>2, <1>3
<1>9. Len(chunks) <= MaxChunks + 1
  <2>1. MaxChunks \in Nat
      BY WriterAssumption
  <2> QED BY <1>2, <2>1
<1>8. /\ direct <=> \E i \in 1..Len(downWire) : downWire[i].head = D!Direct
      /\ \A i \in 1..Len(downWire) : downWire[i].head = D!Raw
    BY <1>1, <1>2
<1> QED BY <1>1, <1>2, <1>4, <1>5, <1>6, <1>7, <1>8, <1>9 DEF WriterInv

LEMMA WriterSteps ==
    ASSUME WriterInv, [BothNext]_<<vars, side, first, direct, downSeq, downWire, chunks, pipe>>
    PROVE  WriterInv'
<1>1. CASE MoveDown
  <2>1. CASE D!WriteAnswer
    <3>1. D!Answer \in Writable /\ Len(chunks) <= MaxChunks
        BY <2>1, WriterAssumption DEF D!WriteAnswer, Writable
    <3> QED BY <2>1, <3>1, WritesKeeps DEF D!WriteAnswer
  <2>2. CASE D!WriteChunk
    <3>1. PICK c \in D!Chunk : D!Writes(c)
        BY <2>2 DEF D!WriteChunk
    <3>2. c \in Writable /\ Len(chunks) <= MaxChunks
        BY <2>2 DEF D!WriteChunk, Writable
    <3> QED BY <3>1, <3>2, WritesKeeps
  <2> QED BY <1>1, <2>1, <2>2 DEF MoveDown, D!Next
<1>2. CASE UNCHANGED <<useVision, first, direct, downSeq, downWire, chunks, pipe>>
    BY <1>2 DEF WriterInv, Failed, RecordsInStep, D!ReadableChunk, D!MaxPlaintext,
                D!SafeChunks, D!SaidDirect
<1>3. MoveUp => useVision' = useVision
    BY DEF MoveUp, Next, Client, Server, Header, Plain, Enable, Read, ReadEnds, vision
<1>4. MoveUp => UNCHANGED <<useVision, first, direct, downSeq, downWire, chunks, pipe>>
    BY <1>3 DEF MoveUp
<1> QED BY <1>1, <1>2, <1>4 DEF BothNext, vars, vision

-----------------------------------------------------------------------------
(* Upward: the types, and the two ciphers.                                 *)

Byte == Tokens \cup {Noise}
Sealed == [kind : Kinds, data : Seq(Byte), seq : Nat]

UpTypes ==
    /\ script \in Seq(Tokens) /\ sent \in 0..Len(script) /\ extra \in 0..MaxExtra
    /\ sealSeq \in Nat /\ wire \in Seq(Sealed) /\ line \in {"open", "eof", "reset"}
    /\ seq \in Nat /\ buf \in Seq(Byte) /\ got \in Seq(Byte)
    /\ end \in S!Ended \cup {"no"}

\* No record is numbered beyond the client's next.
InStep ==
    /\ S!SequenceHolds
    /\ seq <= sealSeq
    /\ \A i \in 1..Len(wire) : S!After(wire[i]) <= sealSeq

\* Cuts of sequences.
LEMMA CutOff ==
    ASSUME NEW A, NEW s \in Seq(A), NEW n \in 0..Len(s)
    PROVE  SubSeq(s, 1, n) \in Seq(A) /\ SubSeq(s, n + 1, Len(s)) \in Seq(A)
OBVIOUS

LEMMA CutJoin ==
    ASSUME NEW A, NEW s \in Seq(A), NEW n \in 0..Len(s)
    PROVE  SubSeq(s, 1, n) \o SubSeq(s, n + 1, Len(s)) = s
<1>1. 1 \in 1..(Len(s) + 1) /\ n \in (1 - 1)..Len(s) /\ Len(s) \in n..Len(s)
    OBVIOUS
<1>2. SubSeq(s, 1, n) \o SubSeq(s, n + 1, Len(s)) = SubSeq(s, 1, Len(s))
    BY <1>1, ConcatAdjacentSubSeq
<1> QED BY <1>2, SubSeqFull

LEMMA SealedFields ==
    ASSUME NEW r \in Sealed
    PROVE  r.kind \in Kinds /\ r.data \in Seq(Byte) /\ r.seq \in Nat
BY DEF Sealed

LEMMA WireHead ==
    ASSUME NEW w \in Seq(Sealed), w # <<>>
    PROVE  /\ Head(w) \in Sealed /\ Head(w) = w[1] /\ 1 \in 1..Len(w)
           /\ Tail(w) \in Seq(Sealed) /\ Len(Tail(w)) = Len(w) - 1
           /\ \A i \in 1..Len(Tail(w)) : Tail(w)[i] = w[i + 1]
BY HeadTailProperties

\* The client puts a record.
LEMMA PutsKeeps ==
    ASSUME UpTypes, InStep, NEW kind, NEW data \in Seq(Byte), S!Puts(kind, data),
           end' = end, seq' = seq
    PROVE  InStep' /\ wire' \in Seq(Sealed) /\ sealSeq' \in Nat
<1> DEFINE r == [kind |-> kind, data |-> data, seq |-> sealSeq]
<1>1. /\ wire \in Seq(Sealed) /\ sealSeq \in Nat /\ seq \in Nat /\ kind \in Kinds
      /\ wire' = Append(wire, r)
      /\ sealSeq' = IF S!Protected(kind) THEN sealSeq + 1 ELSE sealSeq
    BY DEF UpTypes, S!Puts
<1>2. r \in Sealed /\ r.seq = sealSeq /\ r.kind = kind
    BY <1>1 DEF Sealed
<1> HIDE DEF r
<1>3. /\ wire' \in Seq(Sealed) /\ Len(wire') = Len(wire) + 1
      /\ wire'[Len(wire) + 1] = r /\ \A i \in 1..Len(wire) : wire'[i] = wire[i]
    BY <1>1, <1>2
<1>4. sealSeq' \in Nat /\ sealSeq <= sealSeq' /\ S!After(r) = sealSeq'
    BY <1>1, <1>2 DEF S!After
<1>5. end' # "broken"
    BY DEF InStep, S!SequenceHolds
<1>6. ASSUME end' = "no", NEW i \in 1..(Len(wire') + 1)
      PROVE  S!NumberAt(i)' = IF i = 1 THEN seq' ELSE S!After(wire'[i - 1])
  <2>1. \A j \in 1..(Len(wire) + 1) : S!NumberAt(j) = IF j = 1 THEN seq ELSE S!After(wire[j - 1])
      BY <1>6 DEF InStep, S!SequenceHolds
  <2>2. Len(wire) \in Nat /\ DOMAIN wire = 1..Len(wire) /\ DOMAIN wire' = 1..(Len(wire) + 1)
      BY <1>1, <1>3
  <2>3. CASE i <= Len(wire)
    <3>1. i \in 1..Len(wire) /\ i \in 1..(Len(wire) + 1) /\ i \in DOMAIN wire /\ i \in DOMAIN wire'
        BY <2>2, <2>3
    <3>2. S!NumberAt(i)' = S!NumberAt(i)
        BY <1>3, <3>1 DEF S!NumberAt
    <3>3. i # 1 => i - 1 \in 1..Len(wire)
        BY <2>2, <3>1
    <3> QED BY <1>3, <2>1, <3>1, <3>2, <3>3
  <2>4. CASE i = Len(wire) + 1
    <3>1. i \in 1..(Len(wire) + 1) /\ i \notin DOMAIN wire /\ i \in DOMAIN wire'
        BY <2>2, <2>4
    <3>2. S!NumberAt(i)' = sealSeq /\ S!NumberAt(i) = sealSeq
        BY <1>2, <1>3, <2>4, <3>1 DEF S!NumberAt
    <3>3. i # 1 => i - 1 \in 1..Len(wire)
        BY <2>2, <2>4
    <3> QED BY <1>3, <2>1, <3>1, <3>2, <3>3
  <2>5. CASE i = Len(wire) + 2
    <3>1. i # 1 /\ i - 1 = Len(wire) + 1 /\ i \notin DOMAIN wire'
        BY <2>2, <2>5
    <3>2. S!NumberAt(i)' = sealSeq'
        BY <3>1 DEF S!NumberAt
    <3> QED BY <1>3, <1>4, <3>1, <3>2
  <2> QED BY <1>3, <2>2, <2>3, <2>4, <2>5
<1>7. ASSUME NEW i \in 1..Len(wire') PROVE S!After(wire'[i]) <= sealSeq'
  <2>1. CASE i \in 1..Len(wire)
    <3>1. S!After(wire[i]) <= sealSeq /\ S!After(wire[i]) \in Int
        BY <1>1, <2>1, SealedFields DEF InStep, S!After
    <3> QED BY <1>1, <1>3, <1>4, <2>1, <3>1
  <2>2. CASE i = Len(wire) + 1
      BY <1>3, <1>4, <2>2
  <2> QED BY <1>1, <1>3, <2>1, <2>2
<1>8. seq' <= sealSeq'
    BY <1>1, <1>4 DEF InStep
<1>9. S!SequenceHolds'
    BY <1>5, <1>6 DEF S!SequenceHolds
<1> QED BY <1>3, <1>4, <1>7, <1>8, <1>9 DEF InStep

\* The reader takes one.
LEMMA TakesKeeps ==
    ASSUME UpTypes, InStep, wire # <<>>, S!Takes(Head(wire)), sealSeq' = sealSeq
    PROVE  /\ S!Opens(Head(wire))
           /\ end' # "broken" => InStep'
           /\ wire' \in Seq(Sealed) /\ seq' \in Nat
<1> DEFINE r == Head(wire)
<1>1. /\ wire \in Seq(Sealed) /\ sealSeq \in Nat /\ seq \in Nat /\ end = "no"
      /\ wire' = Tail(wire) /\ seq' = S!NextSeq(r)
    BY DEF UpTypes, S!Takes
<1>2. /\ r \in Sealed /\ r = wire[1] /\ 1 \in 1..Len(wire) /\ wire' \in Seq(Sealed)
      /\ Len(wire') = Len(wire) - 1 /\ \A i \in 1..Len(wire') : wire'[i] = wire[i + 1]
    BY <1>1, WireHead
<1> HIDE DEF r
<1>3. \A j \in 1..(Len(wire) + 1) : S!NumberAt(j) = IF j = 1 THEN seq ELSE S!After(wire[j - 1])
    BY <1>1 DEF InStep, S!SequenceHolds
<1>4. /\ Len(wire) \in Nat /\ DOMAIN wire = 1..Len(wire) /\ DOMAIN wire' = 1..(Len(wire) - 1)
    BY <1>1, <1>2
<1>5. r.seq = seq
  <2>1. S!NumberAt(1) = seq
      BY <1>3, <1>4
  <2> QED BY <1>2, <1>4, <2>1 DEF S!NumberAt
<1>6. seq' = S!After(r) /\ seq' \in Nat
    BY <1>1, <1>5 DEF S!NextSeq, S!After
<1>7. S!Opens(r)
    BY <1>5 DEF S!Opens
<1>8. ASSUME NEW i \in 1..(Len(wire') + 1)
      PROVE  S!NumberAt(i)' = IF i = 1 THEN seq' ELSE S!After(wire'[i - 1])
  <2>1. i + 1 \in 1..(Len(wire) + 1) /\ i + 1 # 1 /\ (i + 1) - 1 = i
      BY <1>2, <1>4
  <2>2. S!NumberAt(i + 1) = S!After(wire[i])
      BY <1>3, <2>1
  <2>3. S!NumberAt(i)' = S!NumberAt(i + 1)
    <3>1. i \in DOMAIN wire' <=> i + 1 \in DOMAIN wire
        BY <1>2, <1>4
    <3> QED BY <1>2, <1>4, <3>1 DEF S!NumberAt
  <2>4. i # 1 => i - 1 \in 1..Len(wire') /\ (i - 1) + 1 = i
      BY <1>2, <1>4
  <2>5. CASE i = 1
      BY <1>2, <1>6, <2>2, <2>3, <2>5
  <2>6. CASE i # 1
    <3>1. wire'[i - 1] = wire[i]
        BY <1>2, <2>4, <2>6
    <3> QED BY <2>2, <2>3, <2>6, <3>1
  <2> QED BY <2>5, <2>6
<1>9. ASSUME NEW i \in 1..Len(wire') PROVE S!After(wire'[i]) <= sealSeq'
  <2>1. i + 1 \in 1..Len(wire) /\ wire'[i] = wire[i + 1]
      BY <1>2, <1>4
  <2> QED BY <2>1 DEF InStep
<1>10. seq' <= sealSeq'
    BY <1>2, <1>6 DEF InStep
<1>11. end' # "broken" => S!SequenceHolds'
    BY <1>8 DEF S!SequenceHolds
<1> QED BY <1>2, <1>6, <1>7, <1>9, <1>10, <1>11 DEF InStep, r

\* The header is read up to the end of one of its parts.
PartEnd(i) == IF i = 0 THEN 0 ELSE HeaderParts[i]
ReadUpTo(i) ==
    /\ todo = SubSeq(HeaderParts, i + 1, Len(HeaderParts))
    /\ todo # <<>> \/ (useVision /\ ~vr.on) => Len(got) = PartEnd(i)

HeaderInv ==
    /\ \E i \in 0..Len(HeaderParts) : ReadUpTo(i)
    /\ {useVision, vr.on, vend} \subseteq BOOLEAN
    /\ vr.on => useVision /\ todo = <<>> /\ buf = <<>>

UpInv == UpTypes /\ InStep /\ HeaderInv

LEMMA Parts ==
    /\ HeaderParts \in Seq(Nat) /\ Len(HeaderParts) \in Nat /\ Len(HeaderParts) # 0
    /\ HeaderLen = PartEnd(Len(HeaderParts)) /\ HeaderLen \in Nat
    /\ \A i \in 0..Len(HeaderParts) : PartEnd(i) \in Nat
    /\ \A i \in 1..Len(HeaderParts) : PartEnd(i - 1) <= PartEnd(i)
<1>1. HeaderParts \in Seq(Nat) /\ HeaderParts # <<>>
    BY ReaderAssumption
<1>2. Len(HeaderParts) \in Nat /\ Len(HeaderParts) # 0
    BY <1>1
<1>3. \A i \in 1..Len(HeaderParts) : HeaderParts[i] \in Nat
    BY <1>1
<1>4. \A i \in 0..Len(HeaderParts) : PartEnd(i) \in Nat
    BY <1>2, <1>3 DEF PartEnd
<1>5. HeaderLen = PartEnd(Len(HeaderParts)) /\ HeaderLen \in Nat
    BY <1>2, <1>3 DEF PartEnd, HeaderLen
<1>6. ASSUME NEW i \in 1..Len(HeaderParts) PROVE PartEnd(i - 1) <= PartEnd(i)
  <2>1. CASE i = 1
      BY <1>3, <2>1 DEF PartEnd
  <2>2. CASE i # 1
    <3>1. i - 1 \in DOMAIN HeaderParts /\ i \in DOMAIN HeaderParts /\ i - 1 <= i /\ i - 1 # 0
        BY <1>1, <2>2
    <3>2. HeaderParts[i - 1] <= HeaderParts[i]
        BY <3>1, ReaderAssumption
    <3> QED BY <1>2, <3>1, <3>2 DEF PartEnd
  <2> QED BY <2>1, <2>2
<1> QED BY <1>1, <1>2, <1>4, <1>5, <1>6

LEMMA NoiseIsNoToken == Noise \notin Tokens
<1>1. Noise[1] = "noise"
    BY ReaderAssumption
<1>2. \A b \in Tokens : b[1] # "noise"
    BY DEF Tokens, NoContent, TailPad, Lost
<1> QED BY <1>1, <1>2

LEMMA TokenBytes == Seq(Tokens) \subseteq Seq(Byte) /\ <<Noise>> \in Seq(Byte) /\ <<>> \in Seq(Byte)
<1>1. Tokens \subseteq Byte /\ Noise \in Byte
    BY DEF Byte
<1>2. ASSUME NEW s \in Seq(Tokens) PROVE s \in Seq(Byte)
    BY <1>1
<1> HIDE DEF Byte
<1> QED BY <1>1, <1>2

LEMMA ClientKeeps ==
    ASSUME UpTypes, InStep, S!ClientSteps
    PROVE  UpTypes' /\ InStep'
<1>1. CASE S!ClientSendsData
  <2>1. PICK k \in 1..MaxRecord :
          /\ sent + k <= Len(script)
          /\ S!Puts("app", SubSeq(script, sent + 1, sent + k))
          /\ sent' = sent + k
      BY <1>1 DEF S!ClientSendsData
  <2>2. script \in Seq(Tokens) /\ sent \in 0..Len(script) /\ MaxRecord \in Nat
      BY ReaderAssumption DEF UpTypes
  <2>3. SubSeq(script, sent + 1, sent + k) \in Seq(Byte)
    <3>1. SubSeq(script, sent + 1, sent + k) \in Seq(Tokens)
      <4>1. \A i \in (sent + 1)..(sent + k) : script[i] \in Tokens
          BY <2>1, <2>2
      <4>2. sent + 1 \in Int /\ sent + k \in Int
          BY <2>2
      <4> QED BY <4>1, <4>2, SubSeqProperties
    <3> QED BY <3>1, TokenBytes
  <2>4. UNCHANGED <<script, extra, line, seq, buf, todo, got, end>>
      BY <1>1 DEF S!ClientSendsData, S!reader
  <2>5. InStep' /\ wire' \in Seq(Sealed) /\ sealSeq' \in Nat
      BY <2>1, <2>3, <2>4, PutsKeeps
  <2>6. sent' \in 0..Len(script')
      BY <2>1, <2>2, <2>4
  <2> QED BY <2>4, <2>5, <2>6 DEF UpTypes
<1>2. CASE S!ClientSendsOther
  <2>1. PICK kind \in Kinds \ {"app"} :
          S!Puts(kind, IF kind = "handshake" THEN <<Noise>> ELSE <<>>)
      BY <1>2 DEF S!ClientSendsOther
  <2>2. (IF kind = "handshake" THEN <<Noise>> ELSE <<>>) \in Seq(Byte)
      BY TokenBytes
  <2>3. /\ UNCHANGED <<script, sent, line, seq, buf, todo, got, end>>
        /\ extra' = extra + 1 /\ extra < MaxExtra
      BY <1>2 DEF S!ClientSendsOther, S!reader
  <2>4. InStep' /\ wire' \in Seq(Sealed) /\ sealSeq' \in Nat
      BY <2>1, <2>2, <2>3, PutsKeeps
  <2>5. extra' \in 0..MaxExtra
      BY <2>3, ReaderAssumption DEF UpTypes
  <2> QED BY <2>3, <2>4, <2>5 DEF UpTypes
<1>3. CASE S!ClientCloses
  <2>1. /\ UNCHANGED <<script, sent, extra, sealSeq, wire, seq, buf, todo, got, end>>
        /\ line' \in {"eof", "reset"}
      BY <1>3 DEF S!ClientCloses, S!reader
  <2>2. UpTypes'
      BY <2>1 DEF UpTypes
  <2>3. InStep'
      BY <2>1 DEF InStep, S!SequenceHolds, S!NumberAt, S!After
  <2> QED BY <2>2, <2>3
<1> QED BY <1>1, <1>2, <1>3 DEF S!ClientSteps

\* What a reader's step leaves alone.
LEMMA SameWire ==
    ASSUME UpTypes, InStep, UNCHANGED <<script, sent, extra, sealSeq, line, wire, seq>>,
           end' = end \/ (end' \in S!Ended /\ end' # "broken"),
           buf' \in Seq(Byte), got' \in Seq(Byte)
    PROVE  UpTypes' /\ InStep'
<1>1. UpTypes'
    BY DEF UpTypes
<1>2. InStep'
  <2>1. end' # "broken" /\ (end' = "no" => end = "no")
      BY DEF InStep, S!SequenceHolds, S!Ended
  <2> QED BY <2>1 DEF InStep, S!SequenceHolds, S!NumberAt, S!After
<1> QED BY <1>1, <1>2

LEMMA LineEndsKeeps ==
    ASSUME UpTypes, InStep, S!LineEnds
    PROVE  UpTypes' /\ InStep' /\ UNCHANGED <<buf, got, todo>>
<1>1. /\ UNCHANGED <<script, sent, extra, sealSeq, line, wire, seq, buf, todo, got>>
      /\ end' \in {"reset", "eof"}
    BY DEF S!LineEnds, S!Ends, S!NoMore, S!client
<1>2. end' \in S!Ended /\ end' # "broken"
    BY <1>1 DEF S!Ended
<1>3. buf' \in Seq(Byte) /\ got' \in Seq(Byte)
    BY <1>1 DEF UpTypes
<1> QED BY <1>1, <1>2, <1>3, SameWire

LEMMA HeaderTakesKeeps ==
    ASSUME UpTypes, InStep, S!HeaderTakesRecord
    PROVE  UpTypes' /\ InStep'
<1> DEFINE r == Head(wire)
<1>1. /\ wire # <<>> /\ S!Takes(r) /\ UNCHANGED <<script, sent, extra, sealSeq, line, todo, got>>
      /\ buf' = IF S!Opens(r) /\ r.kind \in {"app", "empty"} THEN buf \o r.data ELSE buf
      /\ end' = IF ~S!Opens(r) THEN "broken" ELSE IF r.kind = "alert" THEN "alert" ELSE "no"
    BY DEF S!HeaderTakesRecord, S!client, S!Ends
<1>2. S!Opens(r) /\ (end' # "broken" => InStep') /\ wire' \in Seq(Sealed) /\ seq' \in Nat
    BY <1>1, TakesKeeps
<1>3. r.data \in Seq(Byte)
    BY <1>1, WireHead, SealedFields DEF UpTypes
<1> HIDE DEF r
<1>4. end' \in {"alert", "no"}
    BY <1>1, <1>2
<1>5. buf' \in Seq(Byte)
    BY <1>1, <1>3 DEF UpTypes
<1> QED BY <1>1, <1>2, <1>4, <1>5 DEF UpTypes, S!Ended

LEMMA WantedPart ==
    ASSUME HeaderInv, got \in Seq(Byte), todo # <<>>,
           NEW i \in 0..Len(HeaderParts), ReadUpTo(i)
    PROVE  /\ i + 1 \in 1..Len(HeaderParts)
           /\ S!Wanted \in Nat /\ Len(got) + S!Wanted = PartEnd(i + 1)
           /\ Tail(todo) = SubSeq(HeaderParts, i + 2, Len(HeaderParts))
<1>1. /\ todo = SubSeq(HeaderParts, i + 1, Len(HeaderParts)) /\ Len(got) = PartEnd(i)
      /\ HeaderParts \in Seq(Nat) /\ Len(HeaderParts) \in Nat
    BY Parts DEF ReadUpTo
<1>2. i + 1 \in 1..Len(HeaderParts)
  <2>1. CASE i = Len(HeaderParts)
    <3>1. SubSeq(HeaderParts, i + 1, Len(HeaderParts)) = <<>>
        BY <1>1, <2>1
    <3> QED BY <1>1, <3>1
  <2> QED BY <1>1, <2>1
<1>3. Head(todo) = HeaderParts[i + 1] /\ Tail(todo) = SubSeq(HeaderParts, i + 2, Len(HeaderParts))
  <2>1. Len(HeaderParts) \in (i + 1)..Len(HeaderParts)
      BY <1>1, <1>2
  <2>2. (i + 1) + 1 = i + 2
      OBVIOUS
  <2> DEFINE m == i + 1
  <2>3. m \in 1..Len(HeaderParts) /\ Len(HeaderParts) \in m..Len(HeaderParts) /\ m + 1 = i + 2
        /\ todo = SubSeq(HeaderParts, m, Len(HeaderParts))
      BY <1>1, <1>2, <2>1
  <2> HIDE DEF m
  <2>4. Head(todo) = HeaderParts[m] /\ Tail(todo) = SubSeq(HeaderParts, m + 1, Len(HeaderParts))
      BY <1>1, <2>3, HeadTailOfSubSeq
  <2> QED BY <2>3, <2>4 DEF m
<1>4. HeaderParts[i + 1] = PartEnd(i + 1)
    BY <1>2 DEF PartEnd
<1>5. PartEnd(i) \in Nat /\ PartEnd(i + 1) \in Nat /\ PartEnd(i) <= PartEnd(i + 1)
  <2>1. (i + 1) - 1 = i /\ i + 1 \in 0..Len(HeaderParts)
      BY <1>1, <1>2
  <2>2. PartEnd(i) \in Nat /\ PartEnd(i + 1) \in Nat
      BY <2>1, Parts
  <2>3. PartEnd((i + 1) - 1) <= PartEnd(i + 1)
      BY <1>2, Parts
  <2> QED BY <2>1, <2>2, <2>3
<1>6. S!Wanted \in Nat /\ Len(got) + S!Wanted = PartEnd(i + 1)
  <2> DEFINE m == PartEnd(i)
             n == PartEnd(i + 1)
  <2>1. S!Wanted = n - m /\ Len(got) = m
      BY <1>1, <1>3, <1>4 DEF S!Wanted
  <2>2. m \in Nat /\ n \in Nat /\ m <= n
      BY <1>5
  <2> HIDE DEF m, n
  <2>3. n - m \in Nat /\ m + (n - m) = n
      BY <2>2
  <2> QED BY <2>1, <2>3 DEF m, n
<1> QED BY <1>2, <1>3, <1>6

LEMMA HeaderGetsKeeps ==
    ASSUME UpInv, S!HeaderGets, UNCHANGED vision
    PROVE  UpInv' /\ got' \o buf' = got \o buf
<1> DEFINE n == S!Wanted
<1>1. /\ end = "no" /\ todo # <<>> /\ Len(buf) >= n
      /\ got' = got \o SubSeq(buf, 1, n) /\ buf' = SubSeq(buf, n + 1, Len(buf))
      /\ todo' = Tail(todo)
      /\ UNCHANGED <<script, sent, extra, sealSeq, line, wire, seq, end>>
    BY DEF S!HeaderGets, S!LeftOver, S!client
<1>2. buf \in Seq(Byte) /\ got \in Seq(Byte)
    BY DEF UpInv, UpTypes
<1>3. PICK i \in 0..Len(HeaderParts) : ReadUpTo(i)
    BY DEF UpInv, HeaderInv
<1>4. /\ i + 1 \in 1..Len(HeaderParts) /\ n \in Nat /\ Len(got) + n = PartEnd(i + 1)
      /\ Tail(todo) = SubSeq(HeaderParts, i + 2, Len(HeaderParts))
    BY <1>1, <1>2, <1>3, WantedPart DEF UpInv
<1> HIDE DEF n
<1>5. n \in 0..Len(buf)
    BY <1>1, <1>2, <1>4
<1>6. SubSeq(buf, 1, n) \in Seq(Byte) /\ SubSeq(buf, n + 1, Len(buf)) \in Seq(Byte)
    BY <1>2, <1>5, CutOff
<1>7. SubSeq(buf, 1, n) \o SubSeq(buf, n + 1, Len(buf)) = buf
    BY <1>2, <1>5, CutJoin
<1>8. got' \in Seq(Byte) /\ buf' \in Seq(Byte) /\ got' \o buf' = got \o buf
  <2> DEFINE x == SubSeq(buf, 1, n)
             y == SubSeq(buf, n + 1, Len(buf))
  <2>1. x \in Seq(Byte) /\ y \in Seq(Byte)
      BY <1>6
  <2>2. x \o y = buf /\ got' = got \o x /\ buf' = y
      BY <1>1, <1>7
  <2> HIDE DEF x, y
  <2>3. (got \o x) \o y = got \o (x \o y)
    <3>1. got \in Seq(Byte)
        BY <1>2
    <3> QED BY <2>1, <3>1, ConcatAssociative
  <2>4. got \o x \in Seq(Byte)
      BY <1>2, <2>1
  <2> QED BY <2>1, <2>2, <2>3, <2>4
<1>9. UpTypes' /\ InStep'
    BY <1>1, <1>8, SameWire DEF UpInv
<1>10. ReadUpTo(i + 1)'
  <2>1. Len(got') = PartEnd(i + 1)
    <3>1. Len(SubSeq(buf, 1, n)) = n
        BY <1>2, <1>5
    <3>2. Len(got') = Len(got) + Len(SubSeq(buf, 1, n))
        BY <1>1, <1>2, <1>6
    <3> QED BY <1>4, <3>1, <3>2
  <2>2. (i + 1) + 1 = i + 2
      OBVIOUS
  <2> QED BY <1>1, <1>4, <2>1, <2>2 DEF ReadUpTo, PartEnd
<1>11. HeaderInv'
  <2>1. i + 1 \in 0..Len(HeaderParts)
      BY <1>4
  <2>2. ~vr.on /\ UNCHANGED <<vr, useVision, vend>>
      BY <1>1 DEF UpInv, HeaderInv, vision
  <2>3. {useVision, vr.on, vend} \subseteq BOOLEAN
      BY DEF UpInv, HeaderInv
  <2> QED BY <1>10, <2>1, <2>2, <2>3 DEF HeaderInv
<1> QED BY <1>8, <1>9, <1>11 DEF UpInv

-----------------------------------------------------------------------------
(* Upward: where in the client's bytes the records on the wire lie.        *)

\* Record r carries the bytes of t from p to q, which are none if it is not
\* one of application data.
Carried(t, r, p, q) ==
    /\ p <= q
    /\ r.kind = "app" => r.data = SubSeq(t, p + 1, q)
    /\ r.kind # "app" => q = p /\ r.data = IF r.kind = "handshake" THEN <<Noise>> ELSE <<>>

\* The records of w carry the bytes of t from p to n.
CutBy(pos, t, w, n) ==
    /\ pos \in [1..(Len(w) + 1) -> 0..n]
    /\ pos[Len(w) + 1] = n
    /\ \A i \in 1..Len(w) : Carried(t, w[i], pos[i], pos[i + 1])
CutFrom(p, t, w, n) == \E pos : CutBy(pos, t, w, n) /\ pos[1] = p

LEMMA CutEmpty ==
    ASSUME NEW t, NEW n \in Nat
    PROVE  CutFrom(n, t, <<>>, n)
<1> DEFINE pos == [i \in 1..1 |-> n]
<1>1. pos \in [1..(0 + 1) -> 0..n] /\ pos[0 + 1] = n /\ pos[1] = n
    OBVIOUS
<1>2. Len(<<>>) = 0
    OBVIOUS
<1> HIDE DEF pos
<1>3. CutBy(pos, t, <<>>, n)
    BY <1>1, <1>2 DEF CutBy
<1> QED BY <1>1, <1>3 DEF CutFrom

LEMMA CutAtEnd ==
    ASSUME NEW p, NEW t, NEW w, NEW n \in Nat, CutFrom(p, t, w, n), w = <<>>
    PROVE  p = n
<1>1. PICK pos : CutBy(pos, t, w, n) /\ pos[1] = p
    BY DEF CutFrom
<1>2. Len(w) = 0
    OBVIOUS
<1>3. Len(w) + 1 = 1
    BY <1>2
<1>4. pos[1] = n
    BY <1>1, <1>3 DEF CutBy
<1> QED BY <1>1, <1>4

LEMMA CutRange ==
    ASSUME NEW p, NEW t, NEW w \in Seq(Sealed), NEW n \in Nat, CutFrom(p, t, w, n)
    PROVE  p \in 0..n
<1>1. PICK pos : CutBy(pos, t, w, n) /\ pos[1] = p
    BY DEF CutFrom
<1>2. 1 \in 1..(Len(w) + 1)
    OBVIOUS
<1>3. pos \in [1..(Len(w) + 1) -> 0..n]
    BY <1>1 DEF CutBy
<1> QED BY <1>1, <1>2, <1>3

LEMMA CutAppend ==
    ASSUME NEW p, NEW t, NEW w \in Seq(Sealed), NEW n \in Nat, NEW m \in Nat, n <= m,
           CutFrom(p, t, w, n), NEW r \in Sealed, Carried(t, r, n, m)
    PROVE  CutFrom(p, t, Append(w, r), m)
<1>1. PICK pos : CutBy(pos, t, w, n) /\ pos[1] = p
    BY DEF CutFrom
<1> DEFINE v == Append(w, r)
           new == [i \in 1..(Len(w) + 2) |-> IF i <= Len(w) + 1 THEN pos[i] ELSE m]
<1>2. /\ Len(w) \in Nat /\ Len(v) = Len(w) + 1 /\ v[Len(w) + 1] = r
      /\ \A i \in 1..Len(w) : v[i] = w[i]
    OBVIOUS
<1>3. /\ pos \in [1..(Len(w) + 1) -> 0..n] /\ pos[Len(w) + 1] = n
      /\ \A i \in 1..Len(w) : Carried(t, w[i], pos[i], pos[i + 1])
    BY <1>1 DEF CutBy
<1>4. ASSUME NEW i \in 1..(Len(w) + 1) PROVE new[i] = pos[i] /\ pos[i] \in 0..m
  <2>1. pos[i] \in 0..n
      BY <1>3
  <2>2. i \in 1..(Len(w) + 2) /\ i <= Len(w) + 1
      BY <1>2
  <2> QED BY <2>1, <2>2
<1>5. new[Len(w) + 2] = m
    BY <1>2
<1>6. new \in [1..(Len(w) + 2) -> 0..m]
  <2>1. ASSUME NEW i \in 1..(Len(w) + 2)
        PROVE  (IF i <= Len(w) + 1 THEN pos[i] ELSE m) \in 0..m
    <3>1. CASE i <= Len(w) + 1
      <4>1. i \in 1..(Len(w) + 1)
          BY <1>2, <3>1
      <4> QED BY <1>4, <3>1, <4>1
    <3> QED BY <3>1
  <2> QED BY <2>1
<1> HIDE DEF new, v
<1>7. ASSUME NEW i \in 1..Len(v) PROVE Carried(t, v[i], new[i], new[i + 1])
  <2>1. CASE i \in 1..Len(w)
    <3>1. i \in 1..(Len(w) + 1) /\ i + 1 \in 1..(Len(w) + 1)
        BY <1>2, <2>1
    <3>2. new[i] = pos[i] /\ new[i + 1] = pos[i + 1] /\ v[i] = w[i]
        BY <1>2, <1>4, <2>1, <3>1
    <3>3. Carried(t, w[i], pos[i], pos[i + 1])
        BY <1>3, <2>1
    <3> QED BY <3>2, <3>3
  <2>2. CASE i = Len(w) + 1
    <3>1. i \in 1..(Len(w) + 1) /\ i + 1 = Len(w) + 2
        BY <1>2, <2>2
    <3>2. new[i] = n /\ new[i + 1] = m /\ v[i] = r
        BY <1>2, <1>3, <1>4, <1>5, <2>2, <3>1
    <3> QED BY <3>2
  <2> QED BY <1>2, <2>1, <2>2
<1>8. CutBy(new, t, v, m)
  <2>1. Len(v) + 1 = Len(w) + 2
      BY <1>2
  <2> QED BY <1>5, <1>6, <1>7, <2>1 DEF CutBy
<1>9. new[1] = p
    BY <1>1, <1>2, <1>4
<1> QED BY <1>8, <1>9 DEF CutFrom, v

LEMMA CutTail ==
    ASSUME NEW p, NEW t, NEW w \in Seq(Sealed), NEW n \in Nat,
           CutFrom(p, t, w, n), w # <<>>
    PROVE  \E q \in 0..n : p \in 0..n /\ Carried(t, Head(w), p, q) /\ CutFrom(q, t, Tail(w), n)
<1>1. PICK pos : CutBy(pos, t, w, n) /\ pos[1] = p
    BY DEF CutFrom
<1> DEFINE v == Tail(w)
           new == [i \in 1..Len(w) |-> pos[i + 1]]
<1>2. /\ Head(w) = w[1] /\ 1 \in 1..Len(w) /\ Len(v) = Len(w) - 1
      /\ \A i \in 1..Len(v) : v[i] = w[i + 1]
    BY WireHead
<1>3. /\ pos \in [1..(Len(w) + 1) -> 0..n] /\ pos[Len(w) + 1] = n
      /\ \A i \in 1..Len(w) : Carried(t, w[i], pos[i], pos[i + 1])
    BY <1>1 DEF CutBy
<1>4. Len(w) \in Nat /\ Len(v) + 1 = Len(w)
    BY <1>2
<1>5. \A i \in 1..Len(w) : i + 1 \in 1..(Len(w) + 1) /\ pos[i + 1] \in 0..n
    BY <1>3, <1>4
<1>6. \A i \in 1..Len(w) : new[i] = pos[i + 1]
    OBVIOUS
<1>7. new \in [1..Len(w) -> 0..n]
    BY <1>5
<1> HIDE DEF new, v
<1>8. ASSUME NEW i \in 1..Len(v) PROVE Carried(t, v[i], new[i], new[i + 1])
  <2>1. i \in 1..Len(w) /\ i + 1 \in 1..Len(w)
      BY <1>4
  <2>2. new[i] = pos[i + 1] /\ new[i + 1] = pos[(i + 1) + 1] /\ v[i] = w[i + 1]
      BY <1>2, <1>6, <2>1
  <2>3. Carried(t, w[i + 1], pos[i + 1], pos[(i + 1) + 1])
      BY <1>3, <2>1
  <2> QED BY <2>2, <2>3
<1>9. CutBy(new, t, v, n)
  <2>1. new[Len(w)] = n
    <3>1. Len(w) \in 1..Len(w)
        BY <1>2, <1>4
    <3> QED BY <1>3, <1>6, <3>1
  <2> QED BY <1>4, <1>7, <1>8, <2>1 DEF CutBy
<1>10. new[1] = pos[1 + 1] /\ pos[1 + 1] \in 0..n
    BY <1>2, <1>5, <1>6
<1>11. Carried(t, w[1], pos[1], pos[1 + 1])
    BY <1>2, <1>3
<1>12. pos[1] \in 0..n
  <2>1. 1 \in 1..(Len(w) + 1)
      BY <1>4
  <2> QED BY <1>3, <2>1
<1>13. CutFrom(pos[1 + 1], t, v, n)
    BY <1>9, <1>10 DEF CutFrom
<1> QED BY <1>1, <1>2, <1>10, <1>11, <1>12, <1>13 DEF v

-----------------------------------------------------------------------------
(* Parts of a sequence.                                                    *)

LEMMA SubSeqIn ==
    ASSUME NEW A, NEW s \in Seq(A), NEW p \in 0..Len(s), NEW q \in 0..Len(s)
    PROVE  SubSeq(s, p + 1, q) \in Seq(A)
<1>1. \A i \in (p + 1)..q : s[i] \in A
    OBVIOUS
<1>2. p + 1 \in Int /\ q \in Int
    OBVIOUS
<1> QED BY <1>1, <1>2, SubSeqProperties

LEMMA SubSeqJoin ==
    ASSUME NEW A, NEW s \in Seq(A), NEW k \in 0..Len(s), NEW p \in 0..Len(s), NEW q \in 0..Len(s),
           k <= p, p <= q
    PROVE  SubSeq(s, k + 1, p) \o SubSeq(s, p + 1, q) = SubSeq(s, k + 1, q)
<1> DEFINE m == k + 1
<1>1. m \in 1..(Len(s) + 1) /\ p \in (m - 1)..Len(s) /\ q \in p..Len(s)
    OBVIOUS
<1> HIDE DEF m
<1>2. SubSeq(s, m, p) \o SubSeq(s, p + 1, q) = SubSeq(s, m, q)
    BY <1>1, ConcatAdjacentSubSeq
<1> QED BY <1>2 DEF m

LEMMA SubSeqFirst ==
    ASSUME NEW A, NEW s \in Seq(A), NEW p \in 0..Len(s), NEW q \in 0..Len(s), p <= q
    PROVE  SubSeq(s, 1, p) \o SubSeq(s, p + 1, q) = SubSeq(s, 1, q)
<1>1. 1 \in 1..(Len(s) + 1) /\ p \in (1 - 1)..Len(s) /\ q \in p..Len(s)
    OBVIOUS
<1> QED BY <1>1, ConcatAdjacentSubSeq

LEMMA SubSeqNone ==
    ASSUME NEW s, NEW p \in Nat
    PROVE  SubSeq(s, p + 1, p) = <<>>
<1>1. p + 1 \in Int /\ p \in Int /\ p < p + 1
    OBVIOUS
<1> QED BY <1>1, SubSeqEmpty

\* The client's own bytes are no Noise.
LEMMA DataOfTokens ==
    ASSUME NEW s \in Seq(Tokens)
    PROVE  S!Data(s) = s
<1>1. Noise \notin Tokens
    BY NoiseIsNoToken
<1>2. \A i \in 1..Len(s) : s[i] \in Tokens
    OBVIOUS
<1>3. \A i \in 1..Len(s) : s[i] \notin {Noise}
    BY <1>1, <1>2
<1> QED BY <1>3, WithoutNone DEF S!Data

LEMMA DataOfNoise ==
    S!Data(<<Noise>>) = <<>>
<1>1. <<Noise>> \in Seq(Byte) /\ \A i \in 1..Len(<<Noise>>) : <<Noise>>[i] \in {Noise}
    BY TokenBytes
<1> QED BY <1>1, WithoutAll DEF S!Data

LEMMA DataConcat ==
    ASSUME NEW s \in Seq(Byte), NEW t \in Seq(Byte)
    PROVE  S!Data(s \o t) = S!Data(s) \o S!Data(t)
BY WithoutConcat DEF S!Data

-----------------------------------------------------------------------------
(* Upward: what a client that speaks Vision sends.                         *)

\* What VisionReader passes on of a client's bytes.
Passes(b) == b[1] \in {"data", "tail"}
Dropped == {"head", "rest", "uuid", "vless", "pad"} \X Nat \X Nat \X Nat \cup {Lost}
Passed(s) == S!Without(s, Dropped)

DataFrom(t, a, b) == \A j \in a..b : j <= Len(t) => Passes(t[j])
PadFrom(t, a, b) == \A j \in a..b : j <= Len(t) => t[j] = Pad
HeadAt(t, j) == j <= Len(t) => IsHead(t[j])

LEMMA TokenShape ==
    ASSUME NEW b \in Tokens
    PROVE  /\ b[2] \in Nat /\ b[3] \in Nat /\ b[4] \in Nat
           /\ Passes(b) => b \notin Dropped
           /\ ~Passes(b) => b \in Dropped
           /\ IsHead(b) => ~Passes(b)
           /\ IsData(b) => Passes(b)
<1>1. b \in ({"head", "rest", "uuid", "vless", "pad", "data"} \X Nat \X Nat \X Nat)
             \cup {TailPad, Lost}
    BY DEF Tokens, NoContent
<1>2. CASE b = TailPad \/ b = Lost
    BY <1>2 DEF Dropped, TailPad, Lost, Passes, IsHead, IsData
<1>3. CASE b \in {"head", "rest", "uuid", "vless", "pad", "data"} \X Nat \X Nat \X Nat
  <2>1. /\ b[1] \in {"head", "rest", "uuid", "vless", "pad", "data"}
        /\ b[2] \in Nat /\ b[3] \in Nat /\ b[4] \in Nat /\ b = <<b[1], b[2], b[3], b[4]>>
      BY <1>3
  <2>2. b \in Dropped <=> b[1] \in {"head", "rest", "uuid", "vless", "pad"}
      BY <2>1 DEF Dropped, Lost
  <2> QED BY <2>1, <2>2 DEF Passes, IsHead, IsData
<1> QED BY <1>1, <1>2, <1>3

LEMMA ByteShape ==
    ASSUME NEW b \in Byte
    PROVE  b[2] \in Nat /\ b[3] \in Nat /\ b[4] \in Nat
<1>1. CASE b \in Tokens
    BY <1>1, TokenShape
<1>2. CASE b = Noise
    BY <1>2, ReaderAssumption
<1> QED BY <1>1, <1>2 DEF Byte

LEMMA NotPassed ==
    ~Passes(Uuid) /\ ~Passes(Pad) /\ ~Passes(HeadRest) /\ ~Passes(VlessByte) /\ ~Passes(Lost)
BY DEF Passes, Uuid, Pad, HeadRest, VlessByte, Lost

LEMMA TailPasses == Passes(TailPad)
BY DEF Passes, TailPad

\* The grammar, place by place.
LEMMA HeaderFrame ==
    ASSUME NEW t, Framed(t), NEW i \in 1..Len(t), i <= HeaderLen
    PROVE  t[i] = VlessByte
BY DEF Framed

LEMMA FirstFrame ==
    ASSUME NEW t \in Seq(Tokens), Framed(t), HeaderLen + 1 <= Len(t)
    PROVE  /\ t[HeaderLen + 1] = Uuid => HeadAt(t, HeaderLen + 2)
           /\ t[HeaderLen + 1] # Uuid =>
                ~Passes(t[HeaderLen + 1]) /\ DataFrom(t, HeaderLen + 2, Len(t))
<1> DEFINE i == HeaderLen + 1
<1>1. \/ t[i] = Uuid /\ Spans(t, i + 1, i + 1, IsHead)
      \/ t[i] = Lost /\ Spans(t, i + 1, Len(t), IsData)
    BY DEF Framed
<1>2. HeaderLen \in Nat
    BY Parts
<1>3. i + 1 = HeaderLen + 2
    BY <1>2
<1>4. Uuid # Lost
    BY DEF Uuid, Lost
<1> HIDE DEF i
<1>5. ASSUME t[i] = Uuid PROVE HeadAt(t, i + 1)
  <2>1. Spans(t, i + 1, i + 1, IsHead)
      BY <1>1, <1>4, <1>5
  <2>2. i + 1 \in (i + 1)..(i + 1)
      BY <1>2, <1>3
  <2> QED BY <2>1, <2>2 DEF Spans, HeadAt
<1>6. ASSUME t[i] # Uuid PROVE ~Passes(t[i]) /\ DataFrom(t, i + 1, Len(t))
  <2>1. t[i] = Lost /\ Spans(t, i + 1, Len(t), IsData)
      BY <1>1, <1>6
  <2>2. ASSUME NEW j \in (i + 1)..Len(t) PROVE Passes(t[j])
    <3>1. IsData(t[j]) /\ t[j] \in Tokens
        BY <1>2, <1>3, <2>1 DEF Spans
    <3> QED BY <3>1, TokenShape
  <2> QED BY <2>1, <2>2, NotPassed DEF DataFrom
<1> QED BY <1>3, <1>5, <1>6 DEF i

LEMMA BlockFrame ==
    ASSUME NEW t \in Seq(Tokens), Framed(t), NEW i \in 1..Len(t), i >= HeaderLen + 2, IsHead(t[i])
    PROVE  /\ t[i][2] \in {CMD_CONTINUE, CMD_END, CMD_DIRECT}
           /\ i + 1 <= Len(t) => t[i + 1] = HeadRest
           /\ t[i][2] # CMD_CONTINUE => DataFrom(t, i + 2, Len(t))
           /\ t[i][2] = CMD_CONTINUE =>
                /\ DataFrom(t, i + 2, i + 1 + t[i][3])
                /\ PadFrom(t, i + 1 + t[i][3] + 1, i + 1 + t[i][3] + t[i][4])
                /\ HeadAt(t, i + 1 + t[i][3] + t[i][4] + 1)
<1> DEFINE b == i + 1
           c == b + t[i][3]
           d == c + t[i][4]
<1>1. HeaderLen \in Nat /\ t[i][3] \in Nat /\ t[i][4] \in Nat /\ b \in Nat /\ c \in Nat /\ d \in Nat
  <2>1. t[i] \in Tokens
      OBVIOUS
  <2>2. t[i][3] \in Nat /\ t[i][4] \in Nat
      BY <2>1, TokenShape
  <2>3. HeaderLen \in Nat
      BY Parts
  <2> DEFINE x == t[i][3]
             y == t[i][4]
  <2>4. x \in Nat /\ y \in Nat
      BY <2>2
  <2> HIDE DEF x, y
  <2>5. i + 1 \in Nat /\ (i + 1) + x \in Nat /\ ((i + 1) + x) + y \in Nat
      BY <2>4
  <2> QED BY <2>3, <2>4, <2>5 DEF x, y
<1>2. i \in (HeaderLen + 2)..Len(t)
    BY <1>1
<1>3. /\ t[i][2] \in {CMD_CONTINUE, CMD_END, CMD_DIRECT}
      /\ Spans(t, b, b, LAMBDA x : x = HeadRest)
      /\ Spans(t, b + 1, c, IsData)
      /\ IF t[i][2] = CMD_CONTINUE
         THEN /\ Spans(t, c + 1, d, LAMBDA x : x = Pad)
              /\ Spans(t, d + 1, d + 1, IsHead)
         ELSE /\ Spans(t, c + 1, d, LAMBDA x : x = TailPad)
              /\ Spans(t, d + 1, Len(t), IsData)
    BY <1>2 DEF Framed
<1>4. b + 1 = i + 2 /\ b <= c /\ c <= d
    BY <1>1
<1> HIDE DEF b, c, d
<1>5. b <= Len(t) => t[b] = HeadRest
  <2>1. b \in b..b
      BY <1>1
  <2> QED BY <1>3, <2>1 DEF Spans
<1>6. ASSUME NEW j \in (b + 1)..c, j <= Len(t) PROVE Passes(t[j])
  <2>1. IsData(t[j]) /\ t[j] \in Tokens
      BY <1>1, <1>3, <1>6 DEF Spans
  <2> QED BY <2>1, TokenShape
<1>7. ASSUME t[i][2] # CMD_CONTINUE PROVE DataFrom(t, b + 1, Len(t))
  <2> SUFFICES ASSUME NEW j \in (b + 1)..Len(t) PROVE Passes(t[j])
      BY DEF DataFrom
  <2>1. /\ Spans(t, c + 1, d, LAMBDA x : x = TailPad)
        /\ Spans(t, d + 1, Len(t), IsData)
      BY <1>3, <1>7
  <2>2. j <= Len(t) /\ j \in Nat /\ t[j] \in Tokens
      BY <1>1
  <2>3. CASE j <= c
    <3>1. j \in (b + 1)..c
        BY <1>1, <2>2, <2>3
    <3> QED BY <1>6, <2>2, <3>1
  <2>4. CASE j > c /\ j <= d
    <3>1. j \in (c + 1)..d
        BY <1>1, <2>2, <2>4
    <3>2. t[j] = TailPad
        BY <2>1, <2>2, <3>1 DEF Spans
    <3> QED BY <3>2, TailPasses
  <2>5. CASE j > d
    <3>1. j \in (d + 1)..Len(t)
        BY <1>1, <2>2, <2>5
    <3>2. IsData(t[j])
        BY <2>1, <2>2, <3>1 DEF Spans
    <3> QED BY <2>2, <3>2, TokenShape
  <2> QED BY <1>1, <2>2, <2>3, <2>4, <2>5
<1>8. ASSUME t[i][2] = CMD_CONTINUE
      PROVE  DataFrom(t, b + 1, c) /\ PadFrom(t, c + 1, d) /\ HeadAt(t, d + 1)
  <2>1. d + 1 \in (d + 1)..(d + 1)
      BY <1>1
  <2>2. DataFrom(t, b + 1, c)
      BY <1>6 DEF DataFrom
  <2>3. PadFrom(t, c + 1, d) /\ HeadAt(t, d + 1)
      BY <1>3, <1>8, <2>1 DEF Spans, PadFrom, HeadAt
  <2> QED BY <2>2, <2>3
<1> QED BY <1>3, <1>4, <1>5, <1>7, <1>8 DEF b, c, d

\* What is passed on, by where it stands.
LEMMA PassedOfParts ==
    ASSUME NEW t \in Seq(Tokens), NEW k \in 0..Len(t), NEW m \in 0..Len(t), k <= m
    PROVE  Passed(SubSeq(t, 1, m)) = Passed(SubSeq(t, 1, k)) \o Passed(SubSeq(t, k + 1, m))
<1> DEFINE x == SubSeq(t, 1, k)
           y == SubSeq(t, k + 1, m)
<1>1. x \in Seq(Tokens) /\ y \in Seq(Tokens)
    BY CutOff, SubSeqIn
<1>2. x \o y = SubSeq(t, 1, m)
    BY SubSeqFirst
<1> HIDE DEF x, y
<1>3. S!Without(x \o y, Dropped) = S!Without(x, Dropped) \o S!Without(y, Dropped)
    BY <1>1, WithoutConcat
<1>4. Passed(x \o y) = Passed(x) \o Passed(y)
    BY <1>3 DEF Passed
<1> QED BY <1>2, <1>4 DEF x, y

LEMMA SubSeqAt ==
    ASSUME NEW A, NEW s \in Seq(A), NEW p \in 0..Len(s), NEW q \in 0..Len(s), p <= q
    PROVE  /\ Len(SubSeq(s, p + 1, q)) = q - p
           /\ \A i \in 1..(q - p) : SubSeq(s, p + 1, q)[i] = s[p + i]
OBVIOUS

LEMMA PassedOfData ==
    ASSUME NEW t \in Seq(Tokens), NEW k \in 0..Len(t), NEW m \in 0..Len(t), k <= m,
           DataFrom(t, k + 1, m)
    PROVE  Passed(SubSeq(t, k + 1, m)) = SubSeq(t, k + 1, m)
<1> DEFINE y == SubSeq(t, k + 1, m)
<1>1. y \in Seq(Tokens)
    BY SubSeqIn
<1>2. Len(y) = m - k /\ \A i \in 1..(m - k) : y[i] = t[k + i]
    BY SubSeqAt
<1> HIDE DEF y
<1>3. ASSUME NEW i \in 1..Len(y) PROVE y[i] \notin Dropped
  <2>1. k + i \in (k + 1)..m /\ k + i <= Len(t) /\ i \in 1..(m - k) /\ y[i] \in Tokens
      BY <1>1, <1>2
  <2>2. Passes(t[k + i])
      BY <2>1 DEF DataFrom
  <2>3. Passes(y[i])
      BY <1>2, <2>1, <2>2
  <2> QED BY <2>1, <2>3, TokenShape
<1>4. S!Without(y, Dropped) = y
    BY <1>1, <1>3, WithoutNone
<1> QED BY <1>4 DEF Passed, y

LEMMA PassedOfNone ==
    ASSUME NEW t \in Seq(Tokens), NEW k \in 0..Len(t), NEW m \in 0..Len(t), k <= m,
           \A j \in (k + 1)..m : ~Passes(t[j])
    PROVE  Passed(SubSeq(t, k + 1, m)) = <<>>
<1> DEFINE y == SubSeq(t, k + 1, m)
<1>1. y \in Seq(Tokens)
    BY SubSeqIn
<1>2. Len(y) = m - k /\ \A i \in 1..(m - k) : y[i] = t[k + i]
    BY SubSeqAt
<1> HIDE DEF y
<1>3. ASSUME NEW i \in 1..Len(y) PROVE y[i] \in Dropped
  <2>1. k + i \in (k + 1)..m /\ i \in 1..(m - k) /\ y[i] \in Tokens
      BY <1>1, <1>2
  <2>2. ~Passes(t[k + i])
      BY <2>1
  <2>3. ~Passes(y[i])
      BY <1>2, <2>1, <2>2
  <2> QED BY <2>1, <2>3, TokenShape
<1>4. S!Without(y, Dropped) = <<>>
    BY <1>1, <1>3, WithoutAll
<1> QED BY <1>4 DEF Passed, y

\* A part of what is left over, as a part of what was sent.
LEMMA SubSeqOfPart ==
    ASSUME NEW t \in Seq(Tokens), NEW k \in 0..Len(t), NEW p \in 0..Len(t), k <= p,
           NEW n \in 0..(p - k)
    PROVE  /\ SubSeq(SubSeq(t, k + 1, p), 1, n) = SubSeq(t, k + 1, k + n)
           /\ SubSeq(SubSeq(t, k + 1, p), n + 1, p - k) = SubSeq(t, (k + n) + 1, p)
OBVIOUS

-----------------------------------------------------------------------------
(* Upward: VisionReader.                                                   *)

Parser == [on : {TRUE}, buf : Seq(Byte), first : BOOLEAN, direct : BOOLEAN,
           content : Nat, padding : Nat, out : Seq(Byte)]
Still(v) == v \in Parser /\ (v.direct => v.buf = <<>>)

\* Where reader v stands when it has taken k of the tokens of t.
Place(t, v, k) ==
    /\ v.first => k = HeaderLen /\ v.content = 0 /\ v.padding = 0 /\ ~v.direct
    /\ ~v.first => k > HeaderLen
    /\ v.direct => v.buf = <<>> /\ DataFrom(t, k + 1, Len(t))
    /\ ~v.first /\ ~v.direct =>
         /\ DataFrom(t, k + 1, k + v.content)
         /\ PadFrom(t, k + v.content + 1, k + v.content + v.padding)
         /\ HeadAt(t, k + v.content + v.padding + 1)

\* It was given p tokens, holds back what it has not taken, and has put out
\* the content of what it has.
Stands(t, v, k, p) ==
    /\ v \in Parser /\ k \in HeaderLen..p /\ p \in 0..Len(t)
    /\ v.buf = SubSeq(t, k + 1, p)
    /\ v.out = Passed(SubSeq(t, 1, k))
    /\ Place(t, v, k)

ParserAt(t, v, p) == \E k \in HeaderLen..p : Stands(t, v, k, p)

LEMMA ParserFields ==
    ASSUME NEW v \in Parser
    PROVE  /\ v.on \in BOOLEAN /\ v.buf \in Seq(Byte) /\ v.first \in BOOLEAN
           /\ v.direct \in BOOLEAN /\ v.content \in Nat /\ v.padding \in Nat
           /\ v.out \in Seq(Byte)
BY DEF Parser

LEMMA ParserBuf ==
    ASSUME NEW v \in Parser
    PROVE  v.buf \in Seq(Byte) /\ v.out \in Seq(Byte) /\ v.content \in Nat /\ v.padding \in Nat
BY DEF Parser

\* What a turn takes of the buffer.
LEMMA TakesSome ==
    ASSUME NEW s \in Seq(Byte), s # <<>>, NEW n \in Nat, n > 0,
           NEW take, take = IF n < Len(s) THEN n ELSE Len(s)
    PROVE  /\ take \in 1..Len(s) /\ take <= n
           /\ SubSeq(s, 1, take) \in Seq(Byte) /\ SubSeq(s, take + 1, Len(s)) \in Seq(Byte)
           /\ Len(SubSeq(s, take + 1, Len(s))) < Len(s)
<1>1. Len(s) \in Nat /\ Len(s) # 0
    OBVIOUS
<1>2. take \in 1..Len(s) /\ take <= n
  <2> DEFINE l == Len(s)
  <2>1. l \in Nat /\ l # 0 /\ take = IF n < l THEN n ELSE l
      BY <1>1
  <2> HIDE DEF l
  <2>2. take \in 1..l /\ take <= n
      BY <2>1
  <2> QED BY <2>2 DEF l
<1>3. SubSeq(s, 1, take) \in Seq(Byte) /\ SubSeq(s, take + 1, Len(s)) \in Seq(Byte)
  <2>1. take \in 0..Len(s)
      BY <1>1, <1>2
  <2> QED BY <2>1, CutOff
<1>4. Len(SubSeq(s, take + 1, Len(s))) < Len(s)
  <2>1. take \in 0..Len(s) /\ Len(s) \in 0..Len(s) /\ take <= Len(s) /\ take > 0
      BY <1>1, <1>2
  <2>2. ASSUME NEW m \in 0..Len(s), m > 0 PROVE Len(SubSeq(s, m + 1, Len(s))) < Len(s)
    <3>1. Len(SubSeq(s, m + 1, Len(s))) = Len(s) - m
        BY <1>1, <2>2, SubSeqAt
    <3> QED BY <1>1, <2>2, <3>1
  <2> QED BY <2>1, <2>2
<1> QED BY <1>2, <1>3, <1>4

LEMMA TakeContentFields ==
    ASSUME NEW v, Still(v), v.buf # <<>>, v.content > 0
    PROVE  Still(TakeContent(v)) /\ Len(TakeContent(v).buf) < Len(v.buf)
<1> DEFINE take == IF v.content < Len(v.buf) THEN v.content ELSE Len(v.buf)
           w == TakeContent(v)
<1>1. v \in Parser /\ v.buf \in Seq(Byte) /\ v.out \in Seq(Byte) /\ v.content \in Nat
    BY ParserBuf DEF Still
<1>2. w = [v EXCEPT !.out = v.out \o SubSeq(v.buf, 1, take),
                    !.buf = SubSeq(v.buf, take + 1, Len(v.buf)),
                    !.content = v.content - take]
    BY DEF TakeContent
<1>3. take = IF v.content < Len(v.buf) THEN v.content ELSE Len(v.buf)
    OBVIOUS
<1> HIDE DEF take, w
<1>4. /\ take \in 1..Len(v.buf) /\ take <= v.content
      /\ SubSeq(v.buf, 1, take) \in Seq(Byte) /\ SubSeq(v.buf, take + 1, Len(v.buf)) \in Seq(Byte)
      /\ Len(SubSeq(v.buf, take + 1, Len(v.buf))) < Len(v.buf)
    BY <1>1, <1>3, TakesSome
<1>5. v.out \o SubSeq(v.buf, 1, take) \in Seq(Byte) /\ v.content - take \in Nat
    BY <1>1, <1>4
<1>6. w \in Parser /\ w.buf = SubSeq(v.buf, take + 1, Len(v.buf)) /\ w.direct = v.direct
    BY <1>1, <1>2, <1>4, <1>5 DEF Parser
<1>7. ~w.direct
    BY <1>6 DEF Still
<1> QED BY <1>4, <1>6, <1>7 DEF Still, w

LEMMA TakePaddingFields ==
    ASSUME NEW v, Still(v), v.buf # <<>>, v.padding > 0
    PROVE  Still(TakePadding(v)) /\ Len(TakePadding(v).buf) < Len(v.buf)
<1> DEFINE take == IF v.padding < Len(v.buf) THEN v.padding ELSE Len(v.buf)
           w == TakePadding(v)
<1>1. v \in Parser /\ v.buf \in Seq(Byte) /\ v.padding \in Nat
    BY ParserBuf DEF Still
<1>2. w = [v EXCEPT !.buf = SubSeq(v.buf, take + 1, Len(v.buf)),
                    !.padding = v.padding - take]
    BY DEF TakePadding
<1>3. take = IF v.padding < Len(v.buf) THEN v.padding ELSE Len(v.buf)
    OBVIOUS
<1> HIDE DEF take, w
<1>4. /\ take \in 1..Len(v.buf) /\ take <= v.padding
      /\ SubSeq(v.buf, take + 1, Len(v.buf)) \in Seq(Byte)
      /\ Len(SubSeq(v.buf, take + 1, Len(v.buf))) < Len(v.buf)
    BY <1>1, <1>3, TakesSome
<1>5. v.padding - take \in Nat
    BY <1>1, <1>4
<1>6. w \in Parser /\ w.buf = SubSeq(v.buf, take + 1, Len(v.buf)) /\ w.direct = v.direct
    BY <1>1, <1>2, <1>4, <1>5 DEF Parser
<1>7. ~w.direct
    BY <1>6 DEF Still
<1> QED BY <1>4, <1>6, <1>7 DEF Still, w

LEMMA StandsStill ==
    ASSUME NEW t, NEW v, NEW k, NEW p, Stands(t, v, k, p)
    PROVE  Still(v)
BY DEF Stands, Place, Still

LEMMA TakeContentStands ==
    ASSUME NEW t \in Seq(Tokens), NEW v, NEW p, NEW k, Stands(t, v, k, p),
           v.buf # <<>>, v.content > 0
    PROVE  \E n \in k..p : Stands(t, TakeContent(v), n, p)
<1> DEFINE take == IF v.content < Len(v.buf) THEN v.content ELSE Len(v.buf)
           w == TakeContent(v)
           n == k + take
<1>1. /\ v \in Parser /\ k \in HeaderLen..p /\ p \in 0..Len(t)
      /\ v.buf = SubSeq(t, k + 1, p) /\ v.out = Passed(SubSeq(t, 1, k)) /\ Place(t, v, k)
    BY DEF Stands
<1>2. HeaderLen \in Nat /\ k \in 0..Len(t) /\ k <= p
    BY <1>1, Parts
<1>3. v.buf \in Seq(Byte) /\ v.out \in Seq(Byte) /\ v.content \in Nat /\ v.padding \in Nat
    BY <1>1, ParserBuf
<1>4. Len(v.buf) = p - k
    BY <1>1, <1>2, SubSeqAt
<1>5. Len(v.buf) # 0
    BY <1>3
<1>6. take \in 1..(p - k) /\ take <= v.content
    BY <1>3, <1>4, <1>5
<1>7. ~v.first /\ ~v.direct
  <2>1. v.content # 0
      OBVIOUS
  <2>2. (v.first => v.content = 0) /\ (v.direct => v.buf = <<>>)
      BY <1>1 DEF Place
  <2> QED BY <2>1, <2>2
<1>8. /\ w.buf = SubSeq(v.buf, take + 1, Len(v.buf)) /\ w.content = v.content - take
      /\ w.out = v.out \o SubSeq(v.buf, 1, take)
      /\ w.padding = v.padding /\ w.first = v.first /\ w.direct = v.direct
    BY <1>1 DEF TakeContent, Parser
<1>9. w = [v EXCEPT !.out = w.out, !.buf = w.buf, !.content = w.content]
    BY <1>1, <1>8 DEF TakeContent
<1> HIDE DEF take, w, n
<1>10. n \in k..p /\ n \in HeaderLen..p /\ n \in 0..Len(t) /\ n > k
    BY <1>1, <1>2, <1>6 DEF n
<1>11. /\ SubSeq(v.buf, 1, take) = SubSeq(t, k + 1, n)
       /\ w.buf = SubSeq(t, n + 1, p)
  <2>1. take \in 0..(p - k)
      BY <1>2, <1>4, <1>6
  <2>2. /\ SubSeq(SubSeq(t, k + 1, p), 1, take) = SubSeq(t, k + 1, k + take)
        /\ SubSeq(SubSeq(t, k + 1, p), take + 1, p - k) = SubSeq(t, (k + take) + 1, p)
      BY <1>1, <1>2, <2>1, SubSeqOfPart
  <2> QED BY <1>1, <1>4, <1>8, <2>2 DEF n
<1>14. DataFrom(t, k + 1, k + v.content) /\ DataFrom(t, k + 1, n)
  <2>1. DataFrom(t, k + 1, k + v.content)
      BY <1>1, <1>7 DEF Place
  <2>2. \A j \in (k + 1)..n : j \in (k + 1)..(k + v.content)
      BY <1>2, <1>3, <1>6, <1>10 DEF n
  <2> QED BY <2>1, <2>2 DEF DataFrom
<1>15. w.out = Passed(SubSeq(t, 1, n))
  <2>1. k <= n
      BY <1>2, <1>10
  <2>2. Passed(SubSeq(t, 1, n)) = Passed(SubSeq(t, 1, k)) \o Passed(SubSeq(t, k + 1, n))
      BY <1>2, <1>10, <2>1, PassedOfParts
  <2>3. Passed(SubSeq(t, k + 1, n)) = SubSeq(t, k + 1, n)
      BY <1>2, <1>10, <1>14, <2>1, PassedOfData
  <2> QED BY <1>1, <1>8, <1>11, <2>2, <2>3
<1>17. w \in Parser
    BY StandsStill, TakeContentFields DEF Still, w
<1>18. Place(t, w, n)
  <2>1. n + w.content = k + v.content
      BY <1>2, <1>3, <1>6, <1>8 DEF n
  <2>2. DataFrom(t, n + 1, n + w.content)
    <3>1. \A j \in (n + 1)..(k + v.content) : j \in (k + 1)..(k + v.content)
        BY <1>2, <1>3, <1>10
    <3> QED BY <1>14, <2>1, <3>1 DEF DataFrom
  <2>3. /\ PadFrom(t, k + v.content + 1, k + v.content + v.padding)
        /\ HeadAt(t, k + v.content + v.padding + 1)
      BY <1>1, <1>7 DEF Place
  <2>4. /\ PadFrom(t, n + w.content + 1, n + w.content + w.padding)
        /\ HeadAt(t, n + w.content + w.padding + 1)
      BY <1>8, <2>1, <2>3
  <2>5. n > HeaderLen
      BY <1>1, <1>2, <1>10
  <2> QED BY <1>7, <1>8, <2>2, <2>4, <2>5 DEF Place
<1>19. Stands(t, w, n, p)
    BY <1>1, <1>10, <1>11, <1>15, <1>17, <1>18 DEF Stands
<1> QED BY <1>10, <1>19 DEF w

LEMMA TakePaddingStands ==
    ASSUME NEW t \in Seq(Tokens), NEW v, NEW p, NEW k, Stands(t, v, k, p),
           v.buf # <<>>, v.content = 0, v.padding > 0
    PROVE  \E n \in k..p : Stands(t, TakePadding(v), n, p)
<1> DEFINE take == IF v.padding < Len(v.buf) THEN v.padding ELSE Len(v.buf)
           w == TakePadding(v)
           n == k + take
<1>1. /\ v \in Parser /\ k \in HeaderLen..p /\ p \in 0..Len(t)
      /\ v.buf = SubSeq(t, k + 1, p) /\ v.out = Passed(SubSeq(t, 1, k)) /\ Place(t, v, k)
    BY DEF Stands
<1>2. HeaderLen \in Nat /\ k \in 0..Len(t) /\ k <= p
    BY <1>1, Parts
<1>3. v.buf \in Seq(Byte) /\ v.out \in Seq(Byte) /\ v.content \in Nat /\ v.padding \in Nat
    BY <1>1, ParserBuf
<1>4. Len(v.buf) = p - k
    BY <1>1, <1>2, SubSeqAt
<1>5. Len(v.buf) # 0
    BY <1>3
<1>6. take \in 1..(p - k) /\ take <= v.padding
    BY <1>3, <1>4, <1>5
<1>7. ~v.first /\ ~v.direct
    BY <1>1 DEF Place
<1>8. /\ w.buf = SubSeq(v.buf, take + 1, Len(v.buf)) /\ w.padding = v.padding - take
      /\ w.out = v.out /\ w.content = 0 /\ w.first = v.first /\ w.direct = v.direct
    BY <1>1 DEF TakePadding, Parser
<1>9. w = [v EXCEPT !.buf = w.buf, !.padding = w.padding]
    BY <1>1, <1>8 DEF TakePadding
<1> HIDE DEF take, w, n
<1>10. n \in k..p /\ n \in HeaderLen..p /\ n \in 0..Len(t) /\ n > k
    BY <1>1, <1>2, <1>6 DEF n
<1>11. w.buf = SubSeq(t, n + 1, p)
  <2>1. take \in 0..(p - k)
      BY <1>2, <1>4, <1>6
  <2>2. SubSeq(SubSeq(t, k + 1, p), take + 1, p - k) = SubSeq(t, (k + take) + 1, p)
      BY <1>1, <1>2, <2>1, SubSeqOfPart
  <2> QED BY <1>1, <1>4, <1>8, <2>2 DEF n
<1>14. /\ PadFrom(t, k + 1, k + v.padding) /\ HeadAt(t, k + v.padding + 1)
  <2>1. /\ PadFrom(t, k + v.content + 1, k + v.content + v.padding)
        /\ HeadAt(t, k + v.content + v.padding + 1)
      BY <1>1, <1>7 DEF Place
  <2>2. k + v.content = k
      BY <1>2
  <2> QED BY <2>1, <2>2
<1>15. w.out = Passed(SubSeq(t, 1, n))
  <2>1. k <= n
      BY <1>2, <1>10
  <2>2. Passed(SubSeq(t, 1, n)) = Passed(SubSeq(t, 1, k)) \o Passed(SubSeq(t, k + 1, n))
      BY <1>2, <1>10, <2>1, PassedOfParts
  <2>3. \A j \in (k + 1)..n : ~Passes(t[j])
    <3>1. ASSUME NEW j \in (k + 1)..n PROVE j \in (k + 1)..(k + v.padding) /\ j <= Len(t)
        BY <1>2, <1>3, <1>6, <1>10 DEF n
    <3>2. \A j \in (k + 1)..n : t[j] = Pad
        BY <1>14, <3>1 DEF PadFrom
    <3> QED BY <3>2, NotPassed
  <2>4. Passed(SubSeq(t, k + 1, n)) = <<>>
      BY <1>2, <1>10, <2>1, <2>3, PassedOfNone
  <2>5. v.out \o <<>> = v.out
      BY <1>3, ConcatEmptySeq
  <2> QED BY <1>1, <1>8, <2>2, <2>4, <2>5
<1>16. w \in Parser
    BY StandsStill, TakePaddingFields DEF Still, w
<1>17. Place(t, w, n)
  <2>1. n + w.padding = k + v.padding
      BY <1>2, <1>3, <1>6, <1>8 DEF n
  <2>2. n + w.content = n
      BY <1>8, <1>10
  <2>3. PadFrom(t, n + 1, n + w.padding) /\ HeadAt(t, n + w.padding + 1)
    <3>1. \A j \in (n + 1)..(k + v.padding) : j \in (k + 1)..(k + v.padding)
        BY <1>2, <1>3, <1>10
    <3> QED BY <1>14, <2>1, <3>1 DEF PadFrom
  <2>4. DataFrom(t, n + 1, n)
      BY <1>10 DEF DataFrom
  <2>5. n > HeaderLen
      BY <1>1, <1>2, <1>10
  <2> QED BY <1>7, <1>8, <2>2, <2>3, <2>4, <2>5 DEF Place
<1>18. Stands(t, w, n, p)
    BY <1>1, <1>10, <1>11, <1>15, <1>16, <1>17 DEF Stands
<1> QED BY <1>10, <1>18 DEF w

\* A head at place i, which the reader takes with what follows it.
LEMMA HeadTaken ==
    ASSUME NEW t \in Seq(Tokens), Framed(t), NEW v, NEW p, NEW k, Stands(t, v, k, p),
           NEW i \in (HeaderLen + 2)..(p - 1), i > k, IsHead(t[i]),
           \A j \in (k + 1)..i : ~Passes(t[j]),
           NEW w, w \in Parser, ~w.first,
           NEW rest, rest = SubSeq(t, i + 2, p),
           t[i][2] \in {CMD_DIRECT, CMD_END} =>
               w.direct /\ w.out = v.out \o rest /\ w.buf = <<>>,
           t[i][2] \notin {CMD_DIRECT, CMD_END} =>
               /\ ~w.direct /\ w.out = v.out /\ w.buf = rest
               /\ w.content = t[i][3] /\ w.padding = t[i][4]
    PROVE  \E n \in (k + 1)..p : Stands(t, w, n, p)
<1> DEFINE m == i + 1
           x == t[i][3]
           y == t[i][4]
<1>1. /\ k \in HeaderLen..p /\ p \in 0..Len(t) /\ v.out = Passed(SubSeq(t, 1, k)) /\ v \in Parser
    BY DEF Stands
<1>2. HeaderLen \in Nat /\ i \in 1..Len(t) /\ i >= HeaderLen + 2 /\ k \in 0..Len(t)
    BY <1>1, Parts
<1>3. /\ t[i][2] \in {CMD_CONTINUE, CMD_END, CMD_DIRECT}
      /\ i + 1 <= Len(t) => t[i + 1] = HeadRest
      /\ t[i][2] # CMD_CONTINUE => DataFrom(t, i + 2, Len(t))
      /\ t[i][2] = CMD_CONTINUE =>
           /\ DataFrom(t, i + 2, i + 1 + t[i][3])
           /\ PadFrom(t, i + 1 + t[i][3] + 1, i + 1 + t[i][3] + t[i][4])
           /\ HeadAt(t, i + 1 + t[i][3] + t[i][4] + 1)
    BY <1>2, BlockFrame
<1>4. x \in Nat /\ y \in Nat
  <2>1. t[i] \in Tokens
      BY <1>2
  <2> QED BY <2>1, TokenShape
<1>5. /\ m \in 0..Len(t) /\ m <= p /\ m > k /\ m > HeaderLen /\ m + 1 = i + 2 /\ k <= m
      /\ m \in HeaderLen..p /\ m \in (k + 1)..p
    BY <1>1, <1>2
<1>6. Passed(SubSeq(t, 1, m)) = v.out
  <2>1. \A j \in (k + 1)..m : ~Passes(t[j])
    <3>1. m <= Len(t)
        BY <1>1, <1>5
    <3>2. ~Passes(t[m])
        BY <1>3, <3>1, NotPassed
    <3>3. ASSUME NEW j \in (k + 1)..m PROVE j = m \/ j \in (k + 1)..i
        BY <1>1, <1>2
    <3> QED BY <3>2, <3>3
  <2>2. Passed(SubSeq(t, k + 1, m)) = <<>>
      BY <1>2, <1>5, <2>1, PassedOfNone
  <2>3. Passed(SubSeq(t, 1, m)) = Passed(SubSeq(t, 1, k)) \o Passed(SubSeq(t, k + 1, m))
      BY <1>2, <1>5, PassedOfParts
  <2>4. v.out \in Seq(Byte)
      BY <1>1, ParserBuf
  <2>5. v.out \o <<>> = v.out
      BY <2>4, ConcatEmptySeq
  <2> QED BY <1>1, <2>2, <2>3, <2>5
<1>7. rest = SubSeq(t, m + 1, p)
    BY <1>5
<1>8. CMD_CONTINUE \notin {CMD_DIRECT, CMD_END}
    BY DEF CMD_CONTINUE, CMD_DIRECT, CMD_END
<1>9. CASE t[i][2] \in {CMD_DIRECT, CMD_END}
  <2>1. w.direct /\ w.out = v.out \o rest /\ w.buf = <<>>
      BY <1>9
  <2>2. DataFrom(t, m + 1, Len(t))
      BY <1>3, <1>5, <1>8, <1>9
  <2> HIDE DEF m
  <2>3. DataFrom(t, m + 1, p) /\ DataFrom(t, p + 1, Len(t))
      BY <1>1, <1>5, <2>2 DEF DataFrom
  <2>4. Passed(SubSeq(t, m + 1, p)) = SubSeq(t, m + 1, p)
      BY <1>1, <1>5, <2>3, PassedOfData
  <2>5. Passed(SubSeq(t, 1, p)) = Passed(SubSeq(t, 1, m)) \o Passed(SubSeq(t, m + 1, p))
      BY <1>1, <1>5, PassedOfParts
  <2>6. w.out = Passed(SubSeq(t, 1, p))
      BY <1>6, <1>7, <2>1, <2>4, <2>5
  <2>7. w.buf = SubSeq(t, p + 1, p)
      BY <1>1, <2>1, SubSeqNone
  <2>8. p > HeaderLen /\ p \in HeaderLen..p /\ p \in (k + 1)..p
      BY <1>1, <1>2, <1>5
  <2>9. Place(t, w, p)
      BY <2>1, <2>3, <2>8 DEF Place
  <2> QED BY <1>1, <2>6, <2>7, <2>8, <2>9 DEF Stands
<1>10. CASE t[i][2] \notin {CMD_DIRECT, CMD_END}
  <2>1. ~w.direct /\ w.out = v.out /\ w.buf = rest /\ w.content = x /\ w.padding = y
      BY <1>10
  <2>2. t[i][2] = CMD_CONTINUE
      BY <1>3, <1>10
  <2>3. DataFrom(t, m + 1, m + x) /\ PadFrom(t, m + x + 1, m + x + y) /\ HeadAt(t, m + x + y + 1)
      BY <1>3, <1>5, <2>2
  <2> HIDE DEF m, x, y
  <2>4. Place(t, w, m)
      BY <1>5, <2>1, <2>3 DEF Place
  <2> QED BY <1>1, <1>5, <1>6, <1>7, <2>1, <2>4 DEF Stands
<1> QED BY <1>9, <1>10

LEMMA FewerLeft ==
    ASSUME NEW t \in Seq(Tokens), NEW v, NEW w, NEW p, NEW k, NEW n \in (k + 1)..p,
           Stands(t, v, k, p), Stands(t, w, n, p)
    PROVE  Len(w.buf) < Len(v.buf)
<1>1. /\ k \in HeaderLen..p /\ p \in 0..Len(t) /\ HeaderLen \in Nat
      /\ v.buf = SubSeq(t, k + 1, p) /\ w.buf = SubSeq(t, n + 1, p)
    BY Parts DEF Stands
<1>2. k \in 0..Len(t) /\ n \in 0..Len(t) /\ k <= p /\ n <= p
    BY <1>1
<1>3. Len(v.buf) = p - k /\ Len(w.buf) = p - n
    BY <1>1, <1>2, SubSeqAt
<1> QED BY <1>1, <1>2, <1>3

\* The user's id is not there: all that follows is passed on.
LEMMA NoIdStands ==
    ASSUME NEW t \in Seq(Tokens), Framed(t), NEW v, NEW p, NEW k, Stands(t, v, k, p),
           v.buf # <<>>, v.first, v.buf[1] # Uuid,
           NEW w, w \in Parser, ~w.first, w.direct, w.buf = <<>>,
           w.out = v.out \o Tail(v.buf)
    PROVE  \E n \in (k + 1)..p : Stands(t, w, n, p)
<1>1. /\ k \in HeaderLen..p /\ p \in 0..Len(t) /\ v.out = Passed(SubSeq(t, 1, k)) /\ v \in Parser
      /\ v.buf = SubSeq(t, k + 1, p) /\ Place(t, v, k)
    BY DEF Stands
<1>2. HeaderLen \in Nat /\ k \in 0..Len(t) /\ k <= p /\ k = HeaderLen
    BY <1>1, Parts DEF Place
<1>3. Len(v.buf) = p - k
  <2>1. Len(SubSeq(t, k + 1, p)) = p - k
      BY <1>1, <1>2, SubSeqAt
  <2> QED BY <1>1, <2>1
<1>4. v.buf \in Seq(Byte) /\ v.out \in Seq(Byte)
    BY <1>1, ParserBuf
<1>5. Len(v.buf) # 0
    BY <1>4
<1>6. k + 1 <= p /\ k + 1 \in 1..Len(t) /\ 1 \in 1..(p - k)
  <2>1. p - k # 0
      BY <1>3, <1>5
  <2>2. k \in Nat /\ p \in Nat /\ Len(t) \in Nat /\ k <= p /\ p <= Len(t)
      BY <1>1, <1>2
  <2> QED BY <2>1, <2>2
<1>7. t[k + 1] # Uuid
  <2>1. SubSeq(t, k + 1, p)[1] = t[k + 1]
      BY <1>1, <1>2, <1>6, SubSeqAt
  <2> QED BY <1>1, <2>1
<1>8. ~Passes(t[k + 1]) /\ DataFrom(t, k + 2, Len(t))
    BY <1>2, <1>6, <1>7, FirstFrame
<1> DEFINE m == k + 1
<1>9. m \in 0..Len(t) /\ m <= p /\ k <= m /\ m + 1 = k + 2
    BY <1>1, <1>2, <1>6
<1>10. Tail(v.buf) = SubSeq(t, m + 1, p)
  <2>1. m \in 1..Len(t) /\ p \in m..Len(t)
      BY <1>1, <1>6
  <2> HIDE DEF m
  <2>2. Tail(SubSeq(t, m, p)) = SubSeq(t, m + 1, p)
      BY <2>1, HeadTailOfSubSeq
  <2> QED BY <1>1, <2>2 DEF m
<1>11. Passed(SubSeq(t, 1, m)) = v.out
  <2>1. Passed(SubSeq(t, k + 1, m)) = <<>>
    <3>1. \A j \in (k + 1)..m : ~Passes(t[j])
      <4>1. ASSUME NEW j \in (k + 1)..m PROVE j = k + 1
          BY <1>2
      <4> QED BY <1>8, <4>1
    <3> HIDE DEF m
    <3> QED BY <1>2, <1>9, <3>1, PassedOfNone
  <2> HIDE DEF m
  <2>2. Passed(SubSeq(t, 1, m)) = Passed(SubSeq(t, 1, k)) \o Passed(SubSeq(t, k + 1, m))
      BY <1>2, <1>9, PassedOfParts
  <2>3. v.out \o <<>> = v.out
      BY <1>4, ConcatEmptySeq
  <2> QED BY <1>1, <2>1, <2>2, <2>3
<1>12. DataFrom(t, m + 1, Len(t))
    BY <1>8, <1>9
<1> HIDE DEF m
<1>13. DataFrom(t, m + 1, p) /\ DataFrom(t, p + 1, Len(t))
    BY <1>1, <1>9, <1>12 DEF DataFrom
<1>14. w.out = Passed(SubSeq(t, 1, p))
  <2>1. Passed(SubSeq(t, m + 1, p)) = SubSeq(t, m + 1, p)
      BY <1>1, <1>9, <1>13, PassedOfData
  <2>2. Passed(SubSeq(t, 1, p)) = Passed(SubSeq(t, 1, m)) \o Passed(SubSeq(t, m + 1, p))
      BY <1>1, <1>9, PassedOfParts
  <2> QED BY <1>10, <1>11, <2>1, <2>2
<1>15. w.buf = SubSeq(t, p + 1, p)
    BY <1>1, SubSeqNone
<1>16. p > HeaderLen /\ p \in HeaderLen..p /\ p \in (k + 1)..p
    BY <1>1, <1>2, <1>6
<1>17. Place(t, w, p)
    BY <1>13, <1>16 DEF Place
<1> QED BY <1>1, <1>14, <1>15, <1>16, <1>17 DEF Stands

LEMMA TakeHeadFields ==
    ASSUME NEW v \in Parser, v.buf # <<>>, Len(v.buf) >= Need(v)
    PROVE  LET b == IF v.first THEN Tail(v.buf) ELSE v.buf
               h == b[1]
               rest == SubSeq(b, 3, Len(b))
               w == TakeHead(v)
           IN  /\ w \in Parser /\ ~w.first
               /\ v.first /\ v.buf[1] # Uuid => w.direct /\ w.buf = <<>> /\ w.out = v.out \o b
               /\ ~(v.first /\ v.buf[1] # Uuid) =>
                    /\ h[2] \in {CMD_DIRECT, CMD_END} =>
                         w.direct /\ w.out = v.out \o rest /\ w.buf = <<>>
                    /\ h[2] \notin {CMD_DIRECT, CMD_END} =>
                         /\ w.direct = v.direct /\ w.out = v.out /\ w.buf = rest
                         /\ w.content = h[3] /\ w.padding = h[4]
<1> DEFINE b == IF v.first THEN Tail(v.buf) ELSE v.buf
           h == b[1]
           rest == SubSeq(b, 3, Len(b))
           u == [v EXCEPT !.first = FALSE]
           w == TakeHead(v)
<1>1. /\ v.buf \in Seq(Byte) /\ v.out \in Seq(Byte) /\ v.first \in BOOLEAN
    BY ParserFields
<1>2. b \in Seq(Byte) /\ Len(b) >= 2
  <2>1. CASE v.first
    <3>1. Tail(v.buf) \in Seq(Byte) /\ Len(Tail(v.buf)) = Len(v.buf) - 1
        BY <1>1, HeadTailProperties
    <3>2. Len(v.buf) >= 3
        BY <2>1 DEF Need
    <3> QED BY <1>1, <2>1, <3>1, <3>2
  <2>2. CASE ~v.first
    <3>1. Len(v.buf) >= 2
        BY <2>2 DEF Need
    <3> QED BY <1>1, <2>2, <3>1
  <2> QED BY <2>1, <2>2
<1>3. w = IF v.first /\ v.buf[1] # Uuid
          THEN [u EXCEPT !.direct = TRUE, !.out = u.out \o b, !.buf = <<>>]
          ELSE IF h[2] \in {CMD_DIRECT, CMD_END}
          THEN [u EXCEPT !.direct = TRUE, !.out = u.out \o rest, !.buf = <<>>,
                         !.content = h[3], !.padding = h[4]]
          ELSE [u EXCEPT !.buf = rest, !.content = h[3], !.padding = h[4]]
    BY DEF TakeHead
<1>4. /\ u \in Parser /\ u.first = FALSE /\ u.out = v.out /\ u.direct = v.direct
    BY DEF Parser
<1> HIDE DEF b, u, w
<1>5. rest \in Seq(Byte) /\ h[3] \in Nat /\ h[4] \in Nat
  <2>1. h \in Byte
      BY <1>2
  <2>2. 2 \in 0..Len(b) /\ Len(b) \in 0..Len(b) /\ 2 + 1 = 3
      BY <1>2
  <2>3. SubSeq(b, 2 + 1, Len(b)) \in Seq(Byte)
      BY <1>2, <2>2, SubSeqIn
  <2> QED BY <2>1, <2>2, <2>3, ByteShape
<1> HIDE DEF h, rest
<1>6. CASE v.first /\ v.buf[1] # Uuid
  <2>1. w = [u EXCEPT !.direct = TRUE, !.out = u.out \o b, !.buf = <<>>]
      BY <1>3, <1>6
  <2>2. u.out \o b \in Seq(Byte) /\ <<>> \in Seq(Byte)
      BY <1>1, <1>2, <1>4
  <2>3. w \in Parser /\ ~w.first /\ w.direct /\ w.buf = <<>> /\ w.out = v.out \o b
      BY <1>4, <2>1, <2>2 DEF Parser
  <2> QED BY <1>6, <2>3 DEF w, b, h, rest
<1>7. CASE ~(v.first /\ v.buf[1] # Uuid) /\ h[2] \in {CMD_DIRECT, CMD_END}
  <2>1. w = [u EXCEPT !.direct = TRUE, !.out = u.out \o rest, !.buf = <<>>,
                      !.content = h[3], !.padding = h[4]]
      BY <1>3, <1>7
  <2>2. u.out \o rest \in Seq(Byte) /\ <<>> \in Seq(Byte)
      BY <1>1, <1>4, <1>5
  <2>3. w \in Parser /\ ~w.first /\ w.direct /\ w.out = v.out \o rest /\ w.buf = <<>>
      BY <1>4, <1>5, <2>1, <2>2 DEF Parser
  <2> QED BY <1>7, <2>3 DEF w, b, h, rest
<1>8. CASE ~(v.first /\ v.buf[1] # Uuid) /\ h[2] \notin {CMD_DIRECT, CMD_END}
  <2>1. w = [u EXCEPT !.buf = rest, !.content = h[3], !.padding = h[4]]
      BY <1>3, <1>8
  <2>2. /\ w \in Parser /\ ~w.first /\ w.direct = v.direct /\ w.out = v.out /\ w.buf = rest
        /\ w.content = h[3] /\ w.padding = h[4]
      BY <1>4, <1>5, <2>1 DEF Parser
  <2> QED BY <1>8, <2>2 DEF w, b, h, rest
<1> QED BY <1>6, <1>7, <1>8 DEF h, b

LEMMA TakeHeadShrinks ==
    ASSUME NEW v, Still(v), v.buf # <<>>, Len(v.buf) >= Need(v)
    PROVE  Still(TakeHead(v)) /\ Len(TakeHead(v).buf) < Len(v.buf)
<1> DEFINE b == IF v.first THEN Tail(v.buf) ELSE v.buf
           h == b[1]
           rest == SubSeq(b, 3, Len(b))
           w == TakeHead(v)
<1>1. v \in Parser /\ v.buf \in Seq(Byte) /\ v.first \in BOOLEAN /\ ~v.direct
    BY ParserFields DEF Still
<1>2. /\ w \in Parser /\ ~w.first
      /\ v.first /\ v.buf[1] # Uuid => w.direct /\ w.buf = <<>> /\ w.out = v.out \o b
      /\ ~(v.first /\ v.buf[1] # Uuid) =>
           /\ h[2] \in {CMD_DIRECT, CMD_END} =>
                w.direct /\ w.out = v.out \o rest /\ w.buf = <<>>
           /\ h[2] \notin {CMD_DIRECT, CMD_END} =>
                /\ w.direct = v.direct /\ w.out = v.out /\ w.buf = rest
                /\ w.content = h[3] /\ w.padding = h[4]
    BY <1>1, TakeHeadFields
<1>3. Len(v.buf) \in Nat /\ Len(v.buf) # 0 /\ Len(<<>>) = 0
    BY <1>1
<1>4. b \in Seq(Byte) /\ Len(b) >= 2 /\ Len(b) <= Len(v.buf)
  <2>1. CASE v.first
    <3>1. Tail(v.buf) \in Seq(Byte) /\ Len(Tail(v.buf)) = Len(v.buf) - 1
        BY <1>1, HeadTailProperties
    <3>2. Len(v.buf) >= 3
        BY <2>1 DEF Need
    <3> QED BY <1>3, <2>1, <3>1, <3>2
  <2>2. CASE ~v.first
    <3>1. Len(v.buf) >= 2
        BY <2>2 DEF Need
    <3> QED BY <1>1, <1>3, <2>2, <3>1
  <2> QED BY <2>1, <2>2
<1> HIDE DEF b, w
<1>5. Len(rest) < Len(v.buf)
  <2>1. 2 \in 0..Len(b) /\ Len(b) \in 0..Len(b) /\ 2 <= Len(b) /\ 2 + 1 = 3
      BY <1>4
  <2>2. Len(SubSeq(b, 2 + 1, Len(b))) = Len(b) - 2
      BY <1>4, <2>1, SubSeqAt
  <2> QED BY <1>3, <1>4, <2>1, <2>2
<1> HIDE DEF h, rest
<1>6. Len(w.buf) < Len(v.buf) /\ (w.direct => w.buf = <<>>)
    BY <1>1, <1>2, <1>3, <1>5
<1> QED BY <1>2, <1>6 DEF Still, w

LEMMA TakeHeadStands ==
    ASSUME NEW t \in Seq(Tokens), Framed(t), NEW v, NEW p, NEW k, Stands(t, v, k, p),
           v.buf # <<>>, v.content = 0, v.padding = 0, Len(v.buf) >= Need(v)
    PROVE  \E n \in (k + 1)..p : Stands(t, TakeHead(v), n, p)
<1> DEFINE b == IF v.first THEN Tail(v.buf) ELSE v.buf
           h == b[1]
           rest == SubSeq(b, 3, Len(b))
           w == TakeHead(v)
<1>1. /\ k \in HeaderLen..p /\ p \in 0..Len(t) /\ v \in Parser
      /\ v.buf = SubSeq(t, k + 1, p) /\ Place(t, v, k)
    BY DEF Stands
<1>2. /\ w \in Parser /\ ~w.first
      /\ v.first /\ v.buf[1] # Uuid => w.direct /\ w.buf = <<>> /\ w.out = v.out \o b
      /\ ~(v.first /\ v.buf[1] # Uuid) =>
           /\ h[2] \in {CMD_DIRECT, CMD_END} =>
                w.direct /\ w.out = v.out \o rest /\ w.buf = <<>>
           /\ h[2] \notin {CMD_DIRECT, CMD_END} =>
                /\ w.direct = v.direct /\ w.out = v.out /\ w.buf = rest
                /\ w.content = h[3] /\ w.padding = h[4]
    BY <1>1, TakeHeadFields
<1>3. HeaderLen \in Nat /\ k \in 0..Len(t) /\ k <= p
    BY <1>1, Parts
<1>4. Len(v.buf) = p - k
  <2>1. Len(SubSeq(t, k + 1, p)) = p - k
      BY <1>1, <1>3, SubSeqAt
  <2> QED BY <1>1, <2>1
<1>5. \A i \in 1..(p - k) : v.buf[i] = t[k + i]
  <2>1. \A i \in 1..(p - k) : SubSeq(t, k + 1, p)[i] = t[k + i]
      BY <1>1, <1>3, SubSeqAt
  <2> QED BY <1>1, <2>1
<1>6. v.buf \in Seq(Byte)
    BY <1>1, ParserBuf
<1>7. ~v.direct
    BY <1>1 DEF Place
<1> HIDE DEF w
<1>8. CASE v.first /\ v.buf[1] # Uuid
  <2>1. w.direct /\ w.buf = <<>> /\ w.out = v.out \o Tail(v.buf)
      BY <1>2, <1>8
  <2>2. \E n \in (k + 1)..p : Stands(t, w, n, p)
      BY <1>2, <1>8, <2>1, NoIdStands
  <2> QED BY <2>2 DEF w
<1>9. CASE v.first /\ v.buf[1] = Uuid
  <2> DEFINE i == HeaderLen + 2
  <2>1. k = HeaderLen
      BY <1>1, <1>9 DEF Place
  <2>2. p - k >= 3
      BY <1>4, <1>9 DEF Need
  <2>3. /\ i \in (HeaderLen + 2)..(p - 1) /\ i > k /\ i <= Len(t) /\ i = k + 2
        /\ HeaderLen + 1 <= Len(t)
      BY <1>1, <1>3, <2>1, <2>2
  <2>4. t[HeaderLen + 1] = Uuid
    <3>1. 1 \in 1..(p - k)
        BY <1>1, <1>3, <2>2
    <3>2. v.buf[1] = t[k + 1]
        BY <1>5, <3>1
    <3> QED BY <1>9, <2>1, <3>2
  <2>5. IsHead(t[i])
    <3>1. HeadAt(t, i)
        BY <2>3, <2>4, FirstFrame
    <3> QED BY <2>3, <3>1 DEF HeadAt
  <2>6. \A j \in (k + 1)..i : ~Passes(t[j])
    <3>1. ~Passes(t[i])
      <4>1. t[i] \in Tokens
          BY <1>3, <2>3
      <4> QED BY <2>5, <4>1, TokenShape
    <3>2. ASSUME NEW j \in (k + 1)..i PROVE j = HeaderLen + 1 \/ j = i
        BY <1>3, <2>1
    <3> QED BY <2>4, <3>1, <3>2, NotPassed
  <2>7. b = Tail(v.buf) /\ Len(b) = p - k - 1 /\ b[1] = v.buf[2]
    <3>1. Len(Tail(v.buf)) = p - k - 1
        BY <1>4, <1>6, HeadTailProperties
    <3>2. Tail(v.buf)[1] = v.buf[2]
        BY <1>4, <1>6, <2>2
    <3> QED BY <1>9, <3>1, <3>2
  <2>8. h = t[i]
    <3>1. v.buf[2] = t[k + 2]
      <4>1. 2 \in 1..(p - k)
          BY <1>1, <1>3, <2>2
      <4> QED BY <1>5, <4>1
    <3> QED BY <2>3, <2>7, <3>1
  <2>9. rest = SubSeq(t, i + 2, p)
    <3>1. Tail(v.buf) = SubSeq(t, (k + 1) + 1, p)
      <4> DEFINE m == k + 1
      <4>1. m \in 1..Len(t) /\ p \in m..Len(t)
          BY <1>1, <1>3, <2>2
      <4> HIDE DEF m
      <4>2. Tail(SubSeq(t, m, p)) = SubSeq(t, m + 1, p)
          BY <4>1, HeadTailOfSubSeq
      <4> QED BY <1>1, <4>2 DEF m
    <3> DEFINE m == k + 1
    <3>2. m \in 0..Len(t) /\ m <= p /\ 2 \in 0..(p - m) /\ p - k - 1 = p - m /\ (m + 2) + 1 = i + 2
        BY <1>1, <1>3, <2>1, <2>2
    <3> HIDE DEF i, m
    <3>3. SubSeq(SubSeq(t, m + 1, p), 2 + 1, p - m) = SubSeq(t, (m + 2) + 1, p)
        BY <1>1, <3>2, SubSeqOfPart
    <3>4. Tail(v.buf) = SubSeq(t, m + 1, p)
        BY <3>1 DEF m
    <3>5. rest = SubSeq(SubSeq(t, m + 1, p), 2 + 1, p - m)
      <4>1. Len(b) = p - m /\ 2 + 1 = 3
          BY <2>7, <3>2
      <4> HIDE DEF b
      <4> QED BY <2>7, <3>4, <4>1
    <3>6. rest = SubSeq(t, (m + 2) + 1, p)
      <4> HIDE DEF rest
      <4> QED BY <3>3, <3>5
    <3> HIDE DEF rest
    <3> QED BY <3>2, <3>6
  <2>10. /\ t[i][2] \in {CMD_DIRECT, CMD_END} =>
              w.direct /\ w.out = v.out \o rest /\ w.buf = <<>>
         /\ t[i][2] \notin {CMD_DIRECT, CMD_END} =>
              /\ ~w.direct /\ w.out = v.out /\ w.buf = rest
              /\ w.content = t[i][3] /\ w.padding = t[i][4]
    <3> HIDE DEF i, h, rest
    <3> QED BY <1>2, <1>7, <1>9, <2>8
  <2> HIDE DEF i, h, rest, b
  <2>11. \E n \in (k + 1)..p : Stands(t, w, n, p)
      BY <1>2, <2>3, <2>5, <2>6, <2>9, <2>10, HeadTaken
  <2> QED BY <2>11 DEF w
<1>10. CASE ~v.first
  <2> DEFINE i == k + 1
  <2>1. k > HeaderLen /\ HeadAt(t, k + 1)
    <3>1. k > HeaderLen /\ HeadAt(t, k + v.content + v.padding + 1)
        BY <1>1, <1>7, <1>10 DEF Place
    <3>2. k + v.content + v.padding + 1 = k + 1
        BY <1>3
    <3> QED BY <3>1, <3>2
  <2>2. p - k >= 2
      BY <1>4, <1>10 DEF Need
  <2>3. i \in (HeaderLen + 2)..(p - 1) /\ i > k /\ i <= Len(t)
      BY <1>1, <1>3, <2>1, <2>2
  <2>4. IsHead(t[i])
      BY <2>1, <2>3 DEF HeadAt
  <2>5. \A j \in (k + 1)..i : ~Passes(t[j])
    <3>1. ~Passes(t[i])
      <4>1. t[i] \in Tokens
          BY <1>3, <2>3
      <4> QED BY <2>4, <4>1, TokenShape
    <3>2. ASSUME NEW j \in (k + 1)..i PROVE j = i
        BY <1>3
    <3> QED BY <3>1, <3>2
  <2>6. b = v.buf /\ Len(b) = p - k /\ b[1] = t[i]
    <3>1. v.buf[1] = t[k + 1]
      <4>1. 1 \in 1..(p - k)
          BY <1>1, <1>3, <2>2
      <4> QED BY <1>5, <4>1
    <3> QED BY <1>4, <1>10, <3>1
  <2>7. rest = SubSeq(t, i + 2, p)
    <3>1. 2 \in 0..(p - k) /\ (k + 2) + 1 = i + 2
        BY <1>1, <1>3, <2>2
    <3> HIDE DEF i
    <3>2. SubSeq(SubSeq(t, k + 1, p), 2 + 1, p - k) = SubSeq(t, (k + 2) + 1, p)
        BY <1>1, <1>3, <3>1, SubSeqOfPart
    <3>3. rest = SubSeq(SubSeq(t, k + 1, p), 2 + 1, p - k)
      <4>1. b = SubSeq(t, k + 1, p) /\ Len(b) = p - k /\ 2 + 1 = 3
          BY <1>1, <2>6
      <4> HIDE DEF b
      <4> QED BY <4>1
    <3>4. rest = SubSeq(t, (k + 2) + 1, p)
      <4> HIDE DEF rest
      <4> QED BY <3>2, <3>3
    <3> HIDE DEF rest
    <3> QED BY <3>1, <3>4
  <2>8. /\ t[i][2] \in {CMD_DIRECT, CMD_END} =>
             w.direct /\ w.out = v.out \o rest /\ w.buf = <<>>
        /\ t[i][2] \notin {CMD_DIRECT, CMD_END} =>
             /\ ~w.direct /\ w.out = v.out /\ w.buf = rest
             /\ w.content = t[i][3] /\ w.padding = t[i][4]
    <3>1. h = t[i]
        BY <2>6
    <3> HIDE DEF i, h, rest
    <3> QED BY <1>2, <1>7, <1>10, <3>1
  <2> HIDE DEF i, h, rest, b
  <2>9. \E n \in (k + 1)..p : Stands(t, w, n, p)
      BY <1>2, <2>3, <2>4, <2>5, <2>7, <2>8, HeadTaken
  <2> QED BY <2>9 DEF w
<1>11. v.first \in BOOLEAN
    BY <1>1, ParserFields
<1> QED BY <1>8, <1>9, <1>10

\* Nothing more can be taken of what is left over.
Settled(v) == v.buf = <<>> \/ (v.content = 0 /\ v.padding = 0 /\ Len(v.buf) < Need(v))

LEMMA TurnShrinks ==
    ASSUME NEW v, Still(v)
    PROVE  /\ Still(Turn(v))
           /\ Settled(v) => Turn(v) = v
           /\ ~Settled(v) => Len(Turn(v).buf) < Len(v.buf)
<1>1. v.content \in Nat /\ v.padding \in Nat /\ v.buf \in Seq(Byte)
    BY ParserBuf DEF Still
<1>2. Need(v) \in {2, 3} /\ Len(v.buf) \in Nat
    BY <1>1 DEF Need
<1>3. CASE Settled(v)
  <2>1. Turn(v) = v
      BY <1>1, <1>2, <1>3 DEF Turn, Settled
  <2> QED BY <1>3, <2>1
<1>4. CASE ~Settled(v) /\ v.content > 0
  <2>1. v.buf # <<>> /\ Turn(v) = TakeContent(v)
      BY <1>4 DEF Turn, Settled
  <2> QED BY <1>4, <2>1, TakeContentFields
<1>5. CASE ~Settled(v) /\ ~(v.content > 0) /\ v.padding > 0
  <2>1. v.buf # <<>> /\ Turn(v) = TakePadding(v)
      BY <1>1, <1>5 DEF Turn, Settled
  <2> QED BY <1>5, <2>1, TakePaddingFields
<1>6. CASE ~Settled(v) /\ ~(v.content > 0) /\ ~(v.padding > 0)
  <2>1. v.buf # <<>> /\ v.content = 0 /\ v.padding = 0 /\ Len(v.buf) >= Need(v)
      BY <1>1, <1>2, <1>6 DEF Settled
  <2>2. Turn(v) = TakeHead(v)
      BY <1>1, <1>2, <1>6, <2>1 DEF Turn
  <2> QED BY <1>6, <2>1, <2>2, TakeHeadShrinks
<1> QED BY <1>3, <1>4, <1>5, <1>6

LEMMA TurnStands ==
    ASSUME NEW t \in Seq(Tokens), Framed(t), NEW v, NEW p, NEW k, Stands(t, v, k, p)
    PROVE  \E n \in k..p : Stands(t, Turn(v), n, p)
<1>1. v \in Parser /\ k \in HeaderLen..p /\ HeaderLen \in Nat /\ p \in 0..Len(t)
    BY Parts DEF Stands
<1>2. v.content \in Nat /\ v.padding \in Nat /\ v.buf \in Seq(Byte)
    BY <1>1, ParserBuf
<1>3. k \in k..p
    BY <1>1
<1>4. Need(v) \in {2, 3} /\ Len(v.buf) \in Nat
    BY <1>2 DEF Need
<1>5. CASE Settled(v)
  <2>1. Turn(v) = v
      BY <1>5, StandsStill, TurnShrinks
  <2> QED BY <1>3, <2>1
<1>6. CASE ~Settled(v) /\ v.content > 0
  <2>1. v.buf # <<>> /\ Turn(v) = TakeContent(v)
      BY <1>6 DEF Turn, Settled
  <2> QED BY <1>6, <2>1, TakeContentStands
<1>7. CASE ~Settled(v) /\ ~(v.content > 0) /\ v.padding > 0
  <2>1. v.buf # <<>> /\ Turn(v) = TakePadding(v) /\ v.content = 0
      BY <1>2, <1>7 DEF Turn, Settled
  <2> QED BY <1>7, <2>1, TakePaddingStands
<1>8. CASE ~Settled(v) /\ ~(v.content > 0) /\ ~(v.padding > 0)
  <2>1. v.buf # <<>> /\ v.content = 0 /\ v.padding = 0 /\ Len(v.buf) >= Need(v)
      BY <1>2, <1>4, <1>8 DEF Settled
  <2>2. Turn(v) = TakeHead(v)
      BY <1>2, <1>4, <1>8, <2>1 DEF Turn
  <2>3. PICK n \in (k + 1)..p : Stands(t, TakeHead(v), n, p)
      BY <2>1, TakeHeadStands
  <2>4. n \in k..p
      BY <1>1
  <2> QED BY <2>2, <2>3, <2>4
<1> QED BY <1>5, <1>6, <1>7, <1>8

\* f is the recursive function of Parse, as far as m.
IsTurns(f, v, m) == f = [n \in 0..m |-> IF n = 0 THEN v ELSE Turn(f[n - 1])]

LEMMA TurnsExist ==
    ASSUME NEW v, NEW len \in Nat
    PROVE  \E f : IsTurns(f, v, len)
<1> DEFINE good == {m \in Nat : \E f : IsTurns(f, v, m)}
<1>1. 0 \in good
  <2>1. IsTurns([n \in 0..0 |-> v], v, 0)
      BY DEF IsTurns
  <2> QED BY <2>1
<1>2. ASSUME NEW m \in 1..len, m - 1 \in good PROVE m \in good
  <2>1. PICK g : IsTurns(g, v, m - 1)
      BY <1>2
  <2> DEFINE h == [n \in 0..m |-> IF n = m THEN Turn(g[m - 1]) ELSE g[n]]
  <2>2. ASSUME NEW n \in 0..m
        PROVE  h[n] = IF n = 0 THEN v ELSE Turn(h[n - 1])
    <3>1. CASE n = m
      <4>1. n - 1 \in 0..m /\ n - 1 # m /\ n # 0
          BY <3>1
      <4> QED BY <3>1, <4>1
    <3>2. CASE n # m /\ n # 0
      <4>1. n - 1 \in 0..(m - 1) /\ n \in 0..(m - 1) /\ n - 1 # m /\ n - 1 \in 0..m
          BY <3>2
      <4>2. g[n] = Turn(g[n - 1])
          BY <2>1, <3>2, <4>1 DEF IsTurns
      <4> QED BY <3>2, <4>1, <4>2
    <3>3. CASE n # m /\ n = 0
      <4>1. 0 \in 0..(m - 1)
          OBVIOUS
      <4>2. g[0] = v
          BY <2>1, <4>1 DEF IsTurns
      <4> QED BY <3>3, <4>2
    <3> QED BY <3>1, <3>2, <3>3
  <2>3. h = [n \in 0..m |-> h[n]]
      OBVIOUS
  <2>4. IsTurns(h, v, m)
    <3> HIDE DEF h
    <3> QED BY <2>2, <2>3 DEF IsTurns
  <2> HIDE DEF h
  <2> QED BY <2>4
<1> HIDE DEF good
<1>3. len \in good
    BY <1>1, <1>2, Induction
<1> QED BY <1>3 DEF good

LEMMA ParseIsTurns ==
    ASSUME NEW v, Len(v.buf) \in Nat
    PROVE  \E f : IsTurns(f, v, Len(v.buf)) /\ Parse(v) = f[Len(v.buf)]
<1> DEFINE K == CHOOSE f : IsTurns(f, v, Len(v.buf))
<1>1. IsTurns(K, v, Len(v.buf))
    BY TurnsExist
<1>2. Parse(v) = K[Len(v.buf)]
    BY DEF Parse, IsTurns
<1> HIDE DEF K
<1> QED BY <1>1, <1>2

LEMMA TurnsFirst ==
    ASSUME NEW v, NEW m \in Nat, NEW f, IsTurns(f, v, m)
    PROVE  f[0] = v
BY DEF IsTurns

LEMMA TurnsNext ==
    ASSUME NEW v, NEW m \in Nat, NEW f, IsTurns(f, v, m), NEW k \in 1..m
    PROVE  f[k] = Turn(f[k - 1])
<1>1. k \in 0..m /\ k # 0
    OBVIOUS
<1> QED BY <1>1 DEF IsTurns

\* What every turn keeps, the loop keeps.
LEMMA ParseStays ==
    ASSUME NEW G, NEW v \in G, Len(v.buf) \in Nat, \A u \in G : Turn(u) \in G
    PROVE  Parse(v) \in G
<1> DEFINE m == Len(v.buf)
<1>1. PICK f : IsTurns(f, v, m) /\ Parse(v) = f[m]
    BY ParseIsTurns
<1>2. m \in Nat
    OBVIOUS
<1> HIDE DEF m
<1>3. IsTurns(f, v, m)
    BY <1>1
<1> DEFINE good == {j \in Nat : f[j] \in G}
<1>4. 0 \in good
    BY <1>2, <1>3, TurnsFirst
<1>5. ASSUME NEW j \in 1..m, j - 1 \in good PROVE j \in good
  <2>1. f[j] = Turn(f[j - 1])
      BY <1>2, <1>3, TurnsNext
  <2> QED BY <1>5, <2>1
<1> HIDE DEF good
<1>6. m \in good
    BY <1>2, <1>4, <1>5, Induction
<1> QED BY <1>1, <1>6 DEF good

\* Every turn of an unsettled reader takes a token at least.
LEMMA ParseSettles ==
    ASSUME NEW v, Still(v)
    PROVE  Still(Parse(v)) /\ Settled(Parse(v))
<1> DEFINE m == Len(v.buf)
<1>1. v.buf \in Seq(Byte)
    BY ParserBuf DEF Still
<1>2. m \in Nat
    BY <1>1
<1>3. PICK f : IsTurns(f, v, m) /\ Parse(v) = f[m]
    BY <1>2, ParseIsTurns
<1>4. Len(v.buf) <= m - 0
    BY <1>2
<1> HIDE DEF m
<1>5. IsTurns(f, v, m)
    BY <1>3
<1> DEFINE good == {j \in 0..m : Still(f[j]) /\ (Settled(f[j]) \/ Len(f[j].buf) <= m - j)}
<1>6. 0 \in good
  <2>1. f[0] = v
      BY <1>2, <1>5, TurnsFirst
  <2> QED BY <1>2, <1>4, <2>1
<1>7. ASSUME NEW j \in 1..m, j - 1 \in good PROVE j \in good
  <2> DEFINE u == f[j - 1]
  <2>1. f[j] = Turn(u)
      BY <1>2, <1>5, TurnsNext
  <2>2. Still(u) /\ (Settled(u) \/ Len(u.buf) <= m - (j - 1))
      BY <1>7
  <2> HIDE DEF u
  <2>3. /\ Still(Turn(u))
        /\ Settled(u) => Turn(u) = u
        /\ ~Settled(u) => Len(Turn(u).buf) < Len(u.buf)
      BY <2>2, TurnShrinks
  <2>4. Settled(Turn(u)) \/ Len(Turn(u).buf) <= m - j
    <3>1. CASE Settled(u)
        BY <2>3, <3>1
    <3>2. CASE ~Settled(u)
      <4>1. Len(u.buf) <= m - (j - 1) /\ Len(Turn(u).buf) < Len(u.buf)
          BY <2>2, <2>3, <3>2
      <4>2. u.buf \in Seq(Byte) /\ Turn(u).buf \in Seq(Byte)
          BY <2>2, <2>3, ParserBuf DEF Still
      <4>3. Len(u.buf) \in Nat /\ Len(Turn(u).buf) \in Nat
          BY <4>2
      <4>4. Len(Turn(u).buf) <= m - j
          BY <1>2, <4>1, <4>3
      <4> QED BY <4>4
    <3> QED BY <3>1, <3>2
  <2>5. j \in 0..m
      BY <1>2
  <2> QED BY <2>1, <2>3, <2>4, <2>5
<1> HIDE DEF good
<1>8. m \in good
    BY <1>2, <1>6, <1>7, Induction
<1>9. Still(f[m]) /\ (Settled(f[m]) \/ Len(f[m].buf) <= m - m)
    BY <1>8 DEF good
<1>10. ASSUME Len(f[m].buf) <= m - m PROVE Settled(f[m])
  <2>1. f[m].buf \in Seq(Byte)
      BY <1>9, ParserBuf DEF Still
  <2>2. f[m].buf = <<>>
      BY <1>2, <1>10, <2>1
  <2> QED BY <2>2 DEF Settled
<1> QED BY <1>3, <1>9, <1>10

LEMMA ParseStands ==
    ASSUME NEW t \in Seq(Tokens), Framed(t), NEW v, NEW p, NEW k, Stands(t, v, k, p)
    PROVE  \E n \in k..p : Stands(t, Parse(v), n, p)
<1> DEFINE G == {u \in Parser : \E n \in k..p : Stands(t, u, n, p)}
<1>1. v \in Parser /\ k \in HeaderLen..p /\ HeaderLen \in Nat /\ p \in 0..Len(t)
    BY Parts DEF Stands
<1>2. v \in G
  <2>1. k \in k..p
      BY <1>1
  <2> QED BY <1>1, <2>1
<1>3. ASSUME NEW u \in G PROVE Turn(u) \in G
  <2>1. PICK n \in k..p : Stands(t, u, n, p)
      OBVIOUS
  <2>2. PICK l \in n..p : Stands(t, Turn(u), l, p)
      BY <2>1, TurnStands
  <2>3. l \in k..p
      BY <1>1
  <2>4. Turn(u) \in Parser
      BY <2>2 DEF Stands
  <2> QED BY <2>2, <2>3, <2>4
<1>4. Len(v.buf) \in Nat
  <2>1. v.buf \in Seq(Byte)
      BY <1>1, ParserBuf
  <2> QED BY <2>1
<1> HIDE DEF G
<1>5. Parse(v) \in G
    BY <1>2, <1>3, <1>4, ParseStays
<1> QED BY <1>5 DEF G

LEMMA EnabledParser ==
    ASSUME NEW x \in Seq(Byte)
    PROVE  [on |-> TRUE, buf |-> x, first |-> TRUE, direct |-> FALSE,
            content |-> 0, padding |-> 0, out |-> <<>>] \in Parser
<1>1. <<>> \in Seq(Byte)
    OBVIOUS
<1> QED BY <1>1 DEF Parser

\* A reader that is enabled with what the header left over stands at its end.
LEMMA EnabledStands ==
    ASSUME NEW t \in Seq(Tokens), Framed(t), NEW p \in HeaderLen..Len(t),
           NEW w, w = [Off EXCEPT !.on = TRUE, !.buf = SubSeq(t, HeaderLen + 1, p)]
    PROVE  Stands(t, w, HeaderLen, p)
<1>1. HeaderLen \in Nat /\ HeaderLen \in 0..Len(t) /\ p \in 0..Len(t) /\ HeaderLen <= p
    BY Parts
<1>2. SubSeq(t, HeaderLen + 1, p) \in Seq(Byte)
    BY <1>1, SubSeqIn, TokenBytes
<1>3. /\ w.on = TRUE /\ w.buf = SubSeq(t, HeaderLen + 1, p) /\ w.first = TRUE /\ w.direct = FALSE
      /\ w.content = 0 /\ w.padding = 0 /\ w.out = <<>>
    BY DEF Off
<1>4. w \in Parser
  <2>1. w = [on |-> TRUE, buf |-> SubSeq(t, HeaderLen + 1, p), first |-> TRUE, direct |-> FALSE,
             content |-> 0, padding |-> 0, out |-> <<>>]
      BY DEF Off
  <2> QED BY <1>2, <2>1, EnabledParser
<1>5. Passed(SubSeq(t, 1, HeaderLen)) = <<>>
  <2>1. \A j \in (0 + 1)..HeaderLen : ~Passes(t[j])
    <3>1. ASSUME NEW j \in (0 + 1)..HeaderLen PROVE j \in 1..Len(t) /\ j <= HeaderLen
        BY <1>1
    <3>2. \A j \in (0 + 1)..HeaderLen : t[j] = VlessByte
        BY <3>1, HeaderFrame
    <3> QED BY <3>2, NotPassed
  <2>2. 0 \in 0..Len(t) /\ 0 <= HeaderLen
      BY <1>1
  <2>3. Passed(SubSeq(t, 0 + 1, HeaderLen)) = <<>>
      BY <1>1, <2>1, <2>2, PassedOfNone
  <2>4. 0 + 1 = 1
      OBVIOUS
  <2> QED BY <2>3, <2>4
<1>6. HeaderLen \in HeaderLen..p
    BY <1>1
<1>7. Place(t, w, HeaderLen)
    BY <1>3 DEF Place
<1> QED BY <1>1, <1>3, <1>4, <1>5, <1>6, <1>7 DEF Stands

\* More tokens arrive.
LEMMA MoreStands ==
    ASSUME NEW t \in Seq(Tokens), NEW v, NEW p, NEW k, Stands(t, v, k, p),
           NEW q \in p..Len(t), ~v.direct
    PROVE  Stands(t, [v EXCEPT !.buf = @ \o SubSeq(t, p + 1, q)], k, q)
<1> DEFINE w == [v EXCEPT !.buf = @ \o SubSeq(t, p + 1, q)]
<1>1. /\ v \in Parser /\ k \in HeaderLen..p /\ p \in 0..Len(t)
      /\ v.buf = SubSeq(t, k + 1, p) /\ v.out = Passed(SubSeq(t, 1, k)) /\ Place(t, v, k)
    BY DEF Stands
<1>2. HeaderLen \in Nat /\ k \in 0..Len(t) /\ k <= p /\ q \in 0..Len(t) /\ p <= q
    BY <1>1, Parts
<1>3. SubSeq(t, k + 1, p) \o SubSeq(t, p + 1, q) = SubSeq(t, k + 1, q)
    BY <1>1, <1>2, SubSeqJoin
<1>4. SubSeq(t, k + 1, q) \in Seq(Byte)
    BY <1>2, SubSeqIn, TokenBytes
<1>5. w = [v EXCEPT !.buf = SubSeq(t, k + 1, q)]
  <2>1. w = [v EXCEPT !.buf = v.buf \o SubSeq(t, p + 1, q)]
      OBVIOUS
  <2>2. v.buf \o SubSeq(t, p + 1, q) = SubSeq(t, k + 1, q)
      BY <1>1, <1>3
  <2> HIDE DEF w
  <2> QED BY <2>1, <2>2
<1> HIDE DEF w
<1>6. w \in Parser
    BY <1>1, <1>4, <1>5 DEF Parser
<1>7. /\ w.buf = SubSeq(t, k + 1, q) /\ w.out = v.out /\ w.first = v.first /\ w.direct = v.direct
      /\ w.content = v.content /\ w.padding = v.padding
    BY <1>1, <1>5 DEF Parser
<1>8. Place(t, w, k)
    BY <1>1, <1>7 DEF Place
<1>9. k \in HeaderLen..q
    BY <1>1, <1>2
<1>10. Stands(t, w, k, q)
    BY <1>1, <1>2, <1>6, <1>7, <1>8, <1>9 DEF Stands
<1> QED BY <1>10 DEF w

LEMMA DirectStands ==
    ASSUME NEW t \in Seq(Tokens), NEW v, NEW p, NEW k, Stands(t, v, k, p),
           NEW q \in p..Len(t), v.direct
    PROVE  Stands(t, [v EXCEPT !.out = @ \o SubSeq(t, p + 1, q)], q, q)
<1> DEFINE w == [v EXCEPT !.out = @ \o SubSeq(t, p + 1, q)]
           new == SubSeq(t, p + 1, q)
<1>1. /\ v \in Parser /\ k \in HeaderLen..p /\ p \in 0..Len(t)
      /\ v.buf = SubSeq(t, k + 1, p) /\ v.out = Passed(SubSeq(t, 1, k)) /\ Place(t, v, k)
    BY DEF Stands
<1>2. /\ HeaderLen \in Nat /\ k \in 0..Len(t) /\ k <= p /\ q \in 0..Len(t) /\ p <= q
    BY <1>1, Parts
<1>3. new \in Seq(Byte)
    BY <1>1, <1>2, SubSeqIn, TokenBytes
<1>4. v.buf = <<>> /\ DataFrom(t, k + 1, Len(t)) /\ ~v.first
    BY <1>1 DEF Place
<1>5. k = p
  <2>1. Len(SubSeq(t, k + 1, p)) = p - k
      BY <1>1, <1>2, SubSeqAt
  <2>2. Len(v.buf) = 0
      BY <1>4
  <2>3. p - k = 0
      BY <1>1, <2>1, <2>2
  <2> QED BY <1>1, <1>2, <2>3
<1> HIDE DEF new
<1>6. v.out \in Seq(Byte)
    BY <1>1, ParserBuf
<1>7. /\ w.out = v.out \o new /\ w.buf = v.buf /\ w.first = v.first /\ w.direct = v.direct
    BY <1>1 DEF Parser, new
<1>8. w \in Parser
  <2>1. v.out \o new \in Seq(Byte)
      BY <1>3, <1>6
  <2>2. w = [v EXCEPT !.out = v.out \o new]
      BY DEF new
  <2> QED BY <1>1, <2>1, <2>2 DEF Parser
<1> HIDE DEF w
<1>9. DataFrom(t, p + 1, q) /\ DataFrom(t, q + 1, Len(t))
    BY <1>1, <1>2, <1>4, <1>5 DEF DataFrom
<1>10. w.out = Passed(SubSeq(t, 1, q))
  <2>1. Passed(SubSeq(t, 1, q)) = Passed(SubSeq(t, 1, p)) \o Passed(SubSeq(t, p + 1, q))
      BY <1>1, <1>2, PassedOfParts
  <2>2. Passed(SubSeq(t, p + 1, q)) = SubSeq(t, p + 1, q)
      BY <1>1, <1>2, <1>9, PassedOfData
  <2>3. v.out = Passed(SubSeq(t, 1, p))
      BY <1>1, <1>5
  <2> QED BY <1>7, <2>1, <2>2, <2>3 DEF new
<1>11. w.buf = SubSeq(t, q + 1, q)
    BY <1>2, <1>4, <1>7, SubSeqNone
<1>12. q > HeaderLen
  <2>1. k > HeaderLen
      BY <1>1, <1>4 DEF Place
  <2> QED BY <1>1, <1>2, <2>1
<1>13. Place(t, w, q)
    BY <1>4, <1>7, <1>9, <1>12 DEF Place
<1>14. q \in HeaderLen..q
    BY <1>1, <1>2
<1>15. Stands(t, w, q, q)
    BY <1>2, <1>8, <1>10, <1>11, <1>13, <1>14 DEF Stands
<1> QED BY <1>15 DEF w

-----------------------------------------------------------------------------
(* Upward: the invariant.                                                  *)

\* What was taken off the wire ends at place p of the client's bytes.  Once a
\* Noise was given to the parser, nothing is known of the place it stands at.
Stood(p) ==
    IF vr.on THEN ~NoisePassed => ParserAt(script, vr, p)
    ELSE /\ S!Data(got \o buf) = SubSeq(script, 1, p)
         /\ useVision => got \o buf = SubSeq(script, 1, p)
Arrived(p) == CutFrom(p, script, wire, sent) /\ Stood(p)

\* A client that speaks Vision sends what the grammar allows.
Conforming == useVision => Framed(script)

Reader == IF vr.on THEN Still(vr) ELSE vr = Off

DataInv ==
    /\ Conforming
    /\ Reader
    /\ end = "no" => \E p \in 0..sent : Arrived(p)
    /\ end = "eof" =>
         /\ line = "eof"
         /\ ~useVision /\ todo = <<>> => S!Data(got) = SubSeq(script, 1, sent)

LEMMA PutsCut ==
    ASSUME UpTypes, DataInv, NEW kind, NEW data \in Seq(Byte), S!Puts(kind, data),
           NEW m \in Nat, sent <= m, sent' = m,
           Carried(script, [kind |-> kind, data |-> data, seq |-> sealSeq], sent, m),
           UNCHANGED <<script, line, seq, buf, todo, got, end, vision>>,
           wire' \in Seq(Sealed)
    PROVE  DataInv'
<1> DEFINE r == [kind |-> kind, data |-> data, seq |-> sealSeq]
<1>1. wire \in Seq(Sealed) /\ sent \in Nat /\ sealSeq \in Nat /\ kind \in Kinds
      /\ wire' = Append(wire, r) /\ line = "open"
    BY DEF UpTypes, S!Puts
<1>2. r \in Sealed
    BY <1>1 DEF Sealed
<1>3. Carried(script, r, sent, m)
    OBVIOUS
<1> HIDE DEF r
<1>4. UNCHANGED <<script, line, buf, todo, got, end, useVision, vr>>
    BY DEF vision
<1>5. ASSUME NEW p \in 0..sent, Arrived(p) PROVE p \in 0..sent' /\ Arrived(p)'
  <2>1. CutFrom(p, script, wire, sent)
      BY <1>5 DEF Arrived
  <2>2. CutFrom(p, script, Append(wire, r), m)
      BY <1>1, <1>2, <1>3, <2>1, CutAppend
  <2>3. CutFrom(p, script, wire, sent)'
      BY <1>1, <1>4, <2>2
  <2>4. p \in 0..sent'
      BY <1>1
  <2>5. Stood(p)'
      BY <1>4, <1>5 DEF Arrived, Stood, NoisePassed
  <2> QED BY <2>3, <2>4, <2>5 DEF Arrived
<1>6. end' # "eof"
    BY <1>1, <1>4 DEF DataInv
<1>7. Conforming'
    BY <1>4 DEF DataInv, Conforming
<1>8. Reader'
    BY <1>4 DEF DataInv, Reader
<1>9. end' = "no" => \E p \in 0..sent' : Arrived(p)'
    BY <1>4, <1>5 DEF DataInv
<1> QED BY <1>6, <1>7, <1>8, <1>9 DEF DataInv

LEMMA ClientKeepsData ==
    ASSUME UpTypes, InStep, DataInv, Client
    PROVE  UpTypes' /\ InStep' /\ DataInv'
<1>1. UpTypes' /\ InStep'
    BY ClientKeeps DEF Client
<1>2. wire' \in Seq(Sealed)
    BY <1>1 DEF UpTypes
<1>4. UNCHANGED vision
    BY DEF Client
<1>5. CASE S!ClientSendsData
  <2>1. PICK k \in 1..MaxRecord :
          /\ sent + k <= Len(script)
          /\ S!Puts("app", SubSeq(script, sent + 1, sent + k))
          /\ sent' = sent + k
      BY <1>5 DEF S!ClientSendsData
  <2>2. script \in Seq(Tokens) /\ sent \in 0..Len(script) /\ MaxRecord \in Nat
      BY ReaderAssumption DEF UpTypes
  <2>3. SubSeq(script, sent + 1, sent + k) \in Seq(Byte)
    <3>1. sent + k \in 0..Len(script)
        BY <2>1, <2>2
    <3>2. SubSeq(script, sent + 1, sent + k) \in Seq(Tokens)
        BY <2>2, <3>1, SubSeqIn
    <3> QED BY <3>2, TokenBytes
  <2>4. UNCHANGED <<script, line, seq, buf, todo, got, end>>
      BY <1>5 DEF S!ClientSendsData, S!reader
  <2>5. sent + k \in Nat /\ sent <= sent + k
      BY <2>2
  <2>6. Carried(script, [kind |-> "app", data |-> SubSeq(script, sent + 1, sent + k),
                         seq |-> sealSeq], sent, sent + k)
      BY <2>5 DEF Carried
  <2>7. DataInv'
    <3> DEFINE d == SubSeq(script, sent + 1, sent + k)
               m == sent + k
    <3>1. /\ d \in Seq(Byte) /\ S!Puts("app", d) /\ m \in Nat /\ sent <= m /\ sent' = m
          /\ Carried(script, [kind |-> "app", data |-> d, seq |-> sealSeq], sent, m)
        BY <2>1, <2>3, <2>5, <2>6
    <3> HIDE DEF d, m
    <3> QED BY <1>2, <1>4, <2>4, <3>1, PutsCut
  <2> QED BY <1>1, <2>7
<1>6. CASE S!ClientSendsOther
  <2> DEFINE data(kind) == IF kind = "handshake" THEN <<Noise>> ELSE <<>>
  <2>1. PICK kind \in Kinds \ {"app"} : S!Puts(kind, data(kind))
      BY <1>6 DEF S!ClientSendsOther
  <2>2. data(kind) \in Seq(Byte)
      BY TokenBytes
  <2>3. UNCHANGED <<script, sent, line, seq, buf, todo, got, end>>
      BY <1>6 DEF S!ClientSendsOther, S!reader
  <2>4. sent \in Nat /\ sent <= sent
      BY DEF UpTypes
  <2>5. Carried(script, [kind |-> kind, data |-> data(kind), seq |-> sealSeq], sent, sent)
      BY <2>4 DEF Carried
  <2> HIDE DEF data
  <2>6. DataInv'
      BY <1>2, <1>4, <2>1, <2>2, <2>3, <2>4, <2>5, PutsCut
  <2> QED BY <1>1, <2>6
<1>7. CASE S!ClientCloses
  <2>1. UNCHANGED <<script, sent, wire, buf, todo, got, end, useVision, vr>> /\ line = "open"
      BY <1>4, <1>7 DEF S!ClientCloses, S!reader, vision
  <2>2. end' # "eof"
      BY <2>1 DEF DataInv
  <2>3. Conforming'
      BY <2>1 DEF DataInv, Conforming
  <2>4. Reader'
      BY <2>1 DEF DataInv, Reader
  <2>5. end' = "no" => \E p \in 0..sent' : Arrived(p)'
      BY <2>1 DEF DataInv, Arrived, Stood, NoisePassed
  <2>6. DataInv'
      BY <2>2, <2>3, <2>4, <2>5 DEF DataInv
  <2> QED BY <1>1, <2>6
<1> QED BY <1>5, <1>6, <1>7 DEF Client, S!ClientSteps

\* The invariant of the upward direction.
AllInv == UpTypes /\ InStep /\ HeaderInv /\ DataInv

\* The record that is taken carries what comes next.
LEMMA TakesCut ==
    ASSUME UpTypes, InStep, DataInv, wire # <<>>, S!Takes(Head(wire))
    PROVE  \E p \in 0..sent : \E q \in p..sent :
             Arrived(p) /\ Carried(script, Head(wire), p, q) /\ CutFrom(q, script, wire', sent)
<1>1. end = "no" /\ wire' = Tail(wire)
    BY DEF S!Takes
<1>2. wire \in Seq(Sealed) /\ sent \in Nat
    BY DEF UpTypes
<1>3. PICK p \in 0..sent : Arrived(p)
    BY <1>1 DEF DataInv
<1>4. CutFrom(p, script, wire, sent)
    BY <1>3 DEF Arrived
<1>5. PICK q \in 0..sent : Carried(script, Head(wire), p, q) /\ CutFrom(q, script, Tail(wire), sent)
    BY <1>2, <1>4, CutTail
<1>6. p <= q
    BY <1>5 DEF Carried
<1>7. q \in p..sent
    BY <1>2, <1>6
<1> QED BY <1>1, <1>3, <1>5, <1>7

\* What a record's data adds.
LEMMA ChunkAdds ==
    ASSUME NEW t \in Seq(Tokens), NEW p \in 0..Len(t), NEW q \in p..Len(t),
           NEW r \in Sealed, Carried(t, r, p, q), NEW s \in Seq(Byte)
    PROVE  /\ r.kind = "app" => r.data \in Seq(Tokens)
           /\ S!Data(s) = SubSeq(t, 1, p) => S!Data(s \o r.data) = SubSeq(t, 1, q)
           /\ s = SubSeq(t, 1, p) /\ r.kind # "handshake" => s \o r.data = SubSeq(t, 1, q)
           /\ r.kind # "app" => q = p
<1>1. q \in 0..Len(t) /\ p <= q
    OBVIOUS
<1>2. r.data \in Seq(Byte)
    BY SealedFields
<1>3. SubSeq(t, 1, p) \o SubSeq(t, p + 1, q) = SubSeq(t, 1, q)
    BY <1>1, SubSeqFirst
<1>4. SubSeq(t, p + 1, q) \in Seq(Tokens) /\ SubSeq(t, 1, p) \in Seq(Tokens)
    BY <1>1, SubSeqIn, CutOff
<1>5. S!Data(s \o r.data) = S!Data(s) \o S!Data(r.data)
    BY <1>2, DataConcat
<1>6. CASE r.kind = "app"
  <2>1. r.data = SubSeq(t, p + 1, q)
      BY <1>6 DEF Carried
  <2>2. S!Data(r.data) = SubSeq(t, p + 1, q)
      BY <1>4, <2>1, DataOfTokens
  <2>3. S!Data(s) = SubSeq(t, 1, p) => S!Data(s \o r.data) = SubSeq(t, 1, q)
      BY <1>3, <1>5, <2>2
  <2>4. s = SubSeq(t, 1, p) => s \o r.data = SubSeq(t, 1, q)
      BY <1>3, <2>1
  <2>5. r.data \in Seq(Tokens)
      BY <1>4, <2>1
  <2> QED BY <1>6, <2>3, <2>4, <2>5
<1>7. CASE r.kind # "app"
  <2>1. q = p /\ r.data = IF r.kind = "handshake" THEN <<Noise>> ELSE <<>>
      BY <1>7 DEF Carried
  <2>2. S!Data(r.data) = <<>>
    <3>1. CASE r.kind = "handshake"
        BY <2>1, <3>1, DataOfNoise
    <3>2. CASE r.kind # "handshake"
      <4>1. r.data = <<>> /\ <<>> \in Seq(Tokens)
          BY <2>1, <3>2
      <4> QED BY <4>1, DataOfTokens
    <3> QED BY <3>1, <3>2
  <2>3. S!Data(s) = SubSeq(t, 1, p) => S!Data(s \o r.data) = SubSeq(t, 1, q)
    <3>1. SubSeq(t, 1, p) \o <<>> = SubSeq(t, 1, p)
        BY <1>4, ConcatEmptySeq
    <3> QED BY <1>5, <2>1, <2>2, <3>1
  <2>4. s = SubSeq(t, 1, p) /\ r.kind # "handshake" => s \o r.data = SubSeq(t, 1, q)
    <3>1. s \o <<>> = s
        BY ConcatEmptySeq
    <3> QED BY <2>1, <3>1
  <2> QED BY <1>7, <2>1, <2>3, <2>4
<1> QED BY <1>6, <1>7

LEMMA HeaderTakesData ==
    ASSUME AllInv, S!HeaderTakesRecord, UNCHANGED vision
    PROVE  AllInv'
<1> DEFINE r == Head(wire)
<1>1. UpTypes /\ InStep /\ HeaderInv /\ DataInv
    BY DEF AllInv
<1>2. UpTypes' /\ InStep'
    BY <1>1, HeaderTakesKeeps
<1>3. /\ wire # <<>> /\ todo # <<>> /\ S!Takes(r)
      /\ UNCHANGED <<script, sent, extra, sealSeq, line, todo, got>>
      /\ buf' = IF S!Opens(r) /\ r.kind \in {"app", "empty"} THEN buf \o r.data ELSE buf
      /\ end' = IF ~S!Opens(r) THEN "broken" ELSE IF r.kind = "alert" THEN "alert" ELSE "no"
    BY DEF S!HeaderTakesRecord, S!client, S!Ends, S!Reading
<1>4. S!Opens(r) /\ wire' = Tail(wire) /\ end = "no"
  <2>1. S!Opens(r)
      BY <1>1, <1>3, TakesKeeps
  <2> QED BY <1>3, <2>1 DEF S!Takes
<1>5. UNCHANGED <<useVision, vr, vend>>
    BY DEF vision
<1>6. ~vr.on
    BY <1>1, <1>3 DEF HeaderInv
<1>7. /\ script \in Seq(Tokens) /\ sent \in 0..Len(script) /\ wire \in Seq(Sealed)
      /\ buf \in Seq(Byte) /\ got \in Seq(Byte)
    BY <1>1 DEF UpTypes
<1>8. r \in Sealed /\ r = wire[1] /\ 1 \in 1..Len(wire) /\ r.data \in Seq(Byte)
    BY <1>3, <1>7, WireHead, SealedFields
<1>9. PICK p \in 0..sent : \E q \in p..sent :
        Arrived(p) /\ Carried(script, r, p, q) /\ CutFrom(q, script, wire', sent)
    BY <1>1, <1>3, TakesCut
<1>10. PICK q \in p..sent :
        Arrived(p) /\ Carried(script, r, p, q) /\ CutFrom(q, script, wire', sent)
    BY <1>9
<1> HIDE DEF r
<1>12. /\ S!Data(got \o buf) = SubSeq(script, 1, p)
       /\ useVision => got \o buf = SubSeq(script, 1, p)
    BY <1>6, <1>10 DEF Arrived, Stood
<1>13. /\ S!Data((got \o buf) \o r.data) = SubSeq(script, 1, q)
       /\ useVision /\ r.kind # "handshake" => (got \o buf) \o r.data = SubSeq(script, 1, q)
       /\ r.kind # "app" => q = p
  <2> DEFINE s == got \o buf
  <2>1. s \in Seq(Byte) /\ p \in 0..Len(script) /\ q \in p..Len(script)
      BY <1>7
  <2>2. S!Data(s) = SubSeq(script, 1, p) /\ (useVision => s = SubSeq(script, 1, p))
      BY <1>12
  <2>3. Carried(script, r, p, q)
      BY <1>10
  <2> HIDE DEF s
  <2>4. /\ S!Data(s) = SubSeq(script, 1, p) => S!Data(s \o r.data) = SubSeq(script, 1, q)
        /\ s = SubSeq(script, 1, p) /\ r.kind # "handshake" => s \o r.data = SubSeq(script, 1, q)
        /\ r.kind # "app" => q = p
      BY <1>7, <1>8, <2>1, <2>3, ChunkAdds
  <2>5. useVision /\ r.kind # "handshake" => s \o r.data = SubSeq(script, 1, q)
      BY <2>2, <2>4
  <2> QED BY <2>2, <2>4, <2>5 DEF s
<1>14. end' = "no" => Arrived(q)'
  <2>1. CASE r.kind \in {"app", "empty"}
    <3>1. buf' = buf \o r.data
        BY <1>3, <1>4, <2>1
    <3>2. got' \o buf' = (got \o buf) \o r.data
      <4> DEFINE x == r.data
      <4>1. got \in Seq(Byte) /\ buf \in Seq(Byte)
          BY <1>7
      <4>2. x \in Seq(Byte)
          BY <1>8
      <4> HIDE DEF x
      <4>3. (got \o buf) \o x = got \o (buf \o x)
          BY <4>1, <4>2, ConcatAssociative
      <4> QED BY <1>3, <3>1, <4>3 DEF x
    <3>3. S!Data(got' \o buf') = SubSeq(script, 1, q)
        BY <1>13, <3>2
    <3>4. useVision => got' \o buf' = SubSeq(script, 1, q)
        BY <1>13, <2>1, <3>2
    <3> QED BY <1>3, <1>5, <1>6, <1>10, <3>3, <3>4 DEF Arrived, Stood
  <2>2. CASE r.kind \notin {"app", "empty"}
    <3>1. buf' = buf /\ q = p
        BY <1>3, <1>13, <2>2
    <3> QED BY <1>3, <1>5, <1>6, <1>10, <1>12, <3>1 DEF Arrived, Stood
  <2> QED BY <2>1, <2>2
<1>15. end' # "eof"
    BY <1>3, <1>4
<1>16. HeaderInv'
    BY <1>1, <1>3, <1>5, <1>6 DEF HeaderInv, ReadUpTo
<1>17. DataInv'
  <2>1. Conforming'
      BY <1>1, <1>3, <1>5 DEF DataInv, Conforming
  <2>2. Reader'
      BY <1>1, <1>5 DEF DataInv, Reader
  <2>3. q \in 0..sent'
      BY <1>3, <1>7
  <2> QED BY <1>14, <1>15, <2>1, <2>2, <2>3 DEF DataInv
<1> QED BY <1>2, <1>16, <1>17 DEF AllInv

LEMMA HeaderGetsData ==
    ASSUME AllInv, S!HeaderGets, UNCHANGED vision
    PROVE  AllInv'
<1>1. UpTypes /\ InStep /\ HeaderInv /\ DataInv /\ UpInv
    BY DEF AllInv, UpInv
<1>2. UpInv' /\ got' \o buf' = got \o buf
    BY <1>1, HeaderGetsKeeps
<1>3. /\ todo # <<>> /\ end = "no"
      /\ UNCHANGED <<script, sent, wire, end, useVision, vr>>
    BY DEF S!HeaderGets, S!client, vision
<1>4. ~vr.on
    BY <1>1, <1>3 DEF HeaderInv
<1>5. PICK p \in 0..sent : Arrived(p)
    BY <1>1, <1>3 DEF DataInv
<1>6. Arrived(p)'
    BY <1>2, <1>3, <1>4, <1>5 DEF Arrived, Stood
<1>7. DataInv'
  <2>1. Conforming'
      BY <1>1, <1>3 DEF DataInv, Conforming
  <2>2. Reader'
      BY <1>1, <1>3 DEF DataInv, Reader
  <2> QED BY <1>3, <1>5, <1>6, <2>1, <2>2 DEF DataInv
<1> QED BY <1>2, <1>7 DEF AllInv, UpInv

\* The stream ends, with nothing left in the buffer once the header is read.
LEMMA LineEndsData ==
    ASSUME AllInv, S!LineEnds, UNCHANGED <<useVision, vr>>, vend' \in BOOLEAN,
           todo = <<>> => buf = <<>>
    PROVE  AllInv'
<1>1. UpTypes /\ InStep /\ HeaderInv /\ DataInv
    BY DEF AllInv
<1>2. UpTypes' /\ InStep' /\ UNCHANGED <<buf, got, todo>>
    BY <1>1, LineEndsKeeps
<1>3. /\ end = "no" /\ UNCHANGED <<script, sent, wire, line>>
      /\ end' = IF line = "reset" THEN "reset" ELSE "eof"
      /\ line = "reset" \/ (line = "eof" /\ wire = <<>>)
    BY DEF S!LineEnds, S!Ends, S!NoMore, S!client
<1>4. HeaderInv'
  <2>1. PICK i \in 0..Len(HeaderParts) : ReadUpTo(i)
      BY <1>1 DEF HeaderInv
  <2>2. ReadUpTo(i)'
      BY <1>2, <2>1 DEF ReadUpTo
  <2>3. ({useVision, vr.on, vend} \subseteq BOOLEAN)'
      BY <1>1 DEF HeaderInv
  <2> QED BY <1>1, <1>2, <2>2, <2>3 DEF HeaderInv
<1>5. PICK p \in 0..sent : Arrived(p)
    BY <1>1, <1>3 DEF DataInv
<1>6. ASSUME end' = "eof", ~useVision, todo = <<>>
      PROVE  S!Data(got) = SubSeq(script, 1, sent)
  <2>1. wire = <<>> /\ buf = <<>>
      BY <1>3, <1>6
  <2>2. sent \in Nat /\ got \in Seq(Byte)
      BY <1>1 DEF UpTypes
  <2>3. p = sent
      BY <1>5, <2>1, <2>2, CutAtEnd DEF Arrived
  <2>4. ~vr.on
      BY <1>1, <1>6 DEF HeaderInv
  <2>5. S!Data(got \o buf) = SubSeq(script, 1, p)
      BY <1>5, <2>4 DEF Arrived, Stood
  <2>6. got \o buf = got
      BY <2>1, <2>2, ConcatEmptySeq
  <2> QED BY <2>3, <2>5, <2>6
<1>7. DataInv'
  <2>1. Conforming'
      BY <1>1, <1>3 DEF DataInv, Conforming
  <2>2. Reader'
      BY <1>1 DEF DataInv, Reader
  <2>3. end' = "eof" => line' = "eof"
      BY <1>3
  <2>4. end' # "no"
      BY <1>3
  <2>5. end' = "eof" /\ ~useVision' /\ todo' = <<>> => S!Data(got') = SubSeq(script', 1, sent')
      BY <1>2, <1>3, <1>6
  <2> QED BY <2>1, <2>2, <2>3, <2>4, <2>5 DEF DataInv
<1> QED BY <1>2, <1>4, <1>7 DEF AllInv

LEMMA HeaderKeepsAll ==
    ASSUME AllInv, Header
    PROVE  AllInv'
<1>1. UNCHANGED vision /\ S!HeaderSteps
    BY DEF Header
<1>2. CASE S!HeaderTakesRecord
    BY <1>1, <1>2, HeaderTakesData
<1>3. CASE S!HeaderGets
    BY <1>1, <1>3, HeaderGetsData
<1>4. CASE S!HeaderEnds
  <2>1. S!LineEnds /\ todo # <<>>
      BY <1>4 DEF S!HeaderEnds, S!Reading
  <2>2. UNCHANGED <<useVision, vr, vend>>
      BY <1>1 DEF vision
  <2>3. vend' \in BOOLEAN
      BY <2>2 DEF AllInv, HeaderInv
  <2> QED BY <2>1, <2>2, <2>3, LineEndsData
<1> QED BY <1>1, <1>2, <1>3, <1>4 DEF S!HeaderSteps

-----------------------------------------------------------------------------
(* Upward: read.                                                           *)

\* A record is read, and what is known of it and of what follows.
LEMMA ReadTakes ==
    ASSUME AllInv, todo = <<>>, buf = <<>>, wire # <<>>, S!Takes(Head(wire)),
           UNCHANGED <<S!client, buf, todo, useVision>>,
           end' \in S!Ended \cup {"no"}, end' # "broken", got' \in Seq(Byte),
           vend' \in BOOLEAN, ~useVision \/ vr.on, vr' = vr \/ (vr.on /\ vr'.on = TRUE)
    PROVE  UpTypes' /\ InStep' /\ HeaderInv' /\ Conforming'
<1>1. UpTypes /\ InStep /\ HeaderInv /\ DataInv
    BY DEF AllInv
<1>2. UNCHANGED <<script, sent, extra, sealSeq, line, buf, todo, useVision>>
    BY DEF S!client
<1>3. InStep' /\ wire' \in Seq(Sealed) /\ seq' \in Nat
    BY <1>1, <1>2, TakesKeeps
<1>4. UpTypes'
    BY <1>1, <1>2, <1>3 DEF UpTypes
<1>5. wire' = Tail(wire)
    BY DEF S!Takes
<1>6. Conforming'
    BY <1>1, <1>2 DEF DataInv, Conforming
<1>7. HeaderInv'
  <2>1. PICK i \in 0..Len(HeaderParts) : ReadUpTo(i)
      BY <1>1 DEF HeaderInv
  <2>2. ReadUpTo(i)'
    <3>1. ~(useVision /\ ~vr.on)'
        BY <1>2
    <3> QED BY <1>2, <2>1, <3>1 DEF ReadUpTo
  <2>3. {useVision, vr.on, vend} \subseteq BOOLEAN
      BY <1>1 DEF HeaderInv
  <2>4. vr'.on \in BOOLEAN /\ (vr'.on => vr.on)
      BY <2>3
  <2>5. ({useVision, vr.on, vend} \subseteq BOOLEAN)'
      BY <1>2, <2>3, <2>4
  <2>6. (vr.on => useVision /\ todo = <<>> /\ buf = <<>>)'
      BY <1>1, <1>2, <2>4 DEF HeaderInv
  <2> QED BY <2>1, <2>2, <2>5, <2>6 DEF HeaderInv
<1> QED BY <1>3, <1>4, <1>6, <1>7

LEMMA ReadNothingData ==
    ASSUME AllInv, S!ReadNothing, UNCHANGED <<useVision, vr>>, vend' \in BOOLEAN,
           ~useVision \/ vr.on
    PROVE  AllInv'
<1> DEFINE r == Head(wire)
<1>1. /\ todo = <<>> /\ buf = <<>> /\ wire # <<>> /\ S!Takes(r)
      /\ UNCHANGED <<S!client, buf, todo, got, sealSeq>>
      /\ end' = IF ~S!Opens(r) THEN "broken" ELSE IF r.kind = "alert" THEN "alert" ELSE "nodata"
    BY DEF S!ReadNothing, S!Ends, S!client
<1>2. S!Opens(r)
    BY <1>1, TakesKeeps DEF AllInv
<1> HIDE DEF r
<1>3. end' \in {"alert", "nodata"}
    BY <1>1, <1>2
<1>4. end' \in S!Ended \cup {"no"} /\ end' # "broken"
    BY <1>3 DEF S!Ended
<1>5. got' \in Seq(Byte)
    BY <1>1 DEF AllInv, UpTypes
<1>6. /\ UpTypes' /\ InStep' /\ HeaderInv'
      /\ Conforming'
    BY <1>1, <1>4, <1>5, ReadTakes DEF r
<1>7. DataInv'
  <2>1. Reader'
      BY DEF AllInv, DataInv, Reader
  <2> QED BY <1>3, <1>6, <2>1 DEF DataInv
<1> QED BY <1>6, <1>7 DEF AllInv

\* A record with data is read: it opens, and is passed on as it is.
LEMMA ReadDataTakes ==
    ASSUME AllInv, S!ReadData, useVision' = useVision, vend' \in BOOLEAN,
           ~useVision \/ vr.on, vr' = vr \/ (vr.on /\ vr'.on = TRUE)
    PROVE  /\ UpTypes' /\ InStep' /\ HeaderInv'
           /\ Conforming'
           /\ Head(wire) \in Sealed /\ got' = got \o Head(wire).data /\ end = "no" /\ end' = "no"
           /\ buf = <<>> /\ todo = <<>> /\ UNCHANGED <<script, sent, buf, todo>>
           /\ \E p \in 0..sent : \E q \in p..sent :
                Arrived(p) /\ Carried(script, Head(wire), p, q) /\ CutFrom(q, script, wire', sent)
<1> DEFINE r == Head(wire)
<1>1. /\ todo = <<>> /\ buf = <<>> /\ wire # <<>> /\ S!Takes(r) /\ S!Carries(r)
      /\ UNCHANGED <<S!client, buf, todo, end, script, sent>> /\ got' = got \o r.data
    BY DEF S!ReadData, S!client
<1>2. UpTypes /\ InStep /\ HeaderInv /\ DataInv
    BY DEF AllInv
<1>3. end = "no" /\ end' = "no"
    BY <1>1 DEF S!Takes
<1>4. wire \in Seq(Sealed) /\ got \in Seq(Byte)
    BY <1>2 DEF UpTypes
<1>5. r \in Sealed /\ r = wire[1] /\ 1 \in 1..Len(wire) /\ r.data \in Seq(Byte)
    BY <1>1, <1>4, WireHead, SealedFields
<1>6. \E p \in 0..sent : \E q \in p..sent :
          Arrived(p) /\ Carried(script, r, p, q) /\ CutFrom(q, script, wire', sent)
    BY <1>1, <1>2, TakesCut
<1>8. got' \in Seq(Byte)
    BY <1>1, <1>4, <1>5
<1>9. end' \in S!Ended \cup {"no"} /\ end' # "broken"
    BY <1>3
<1>10. /\ UpTypes' /\ InStep' /\ HeaderInv'
       /\ Conforming'
  <2>1. S!Takes(Head(wire)) /\ wire # <<>>
      BY <1>1
  <2> HIDE DEF r
  <2> QED BY <1>1, <1>8, <1>9, <2>1, ReadTakes
<1> QED BY <1>1, <1>3, <1>5, <1>6, <1>10

LEMMA ReadDataPlain ==
    ASSUME AllInv, S!ReadData, UNCHANGED vision, ~useVision
    PROVE  AllInv'
<1> DEFINE r == Head(wire)
<1>1. UNCHANGED <<useVision, vr, vend>>
    BY DEF vision
<1>2. vend' \in BOOLEAN
    BY <1>1 DEF AllInv, HeaderInv
<1>3. /\ UpTypes' /\ InStep' /\ HeaderInv'
      /\ Conforming'
      /\ r \in Sealed /\ got' = got \o r.data /\ end' = "no"
      /\ buf = <<>> /\ UNCHANGED <<script, sent, buf>>
      /\ \E p \in 0..sent : \E q \in p..sent :
           Arrived(p) /\ Carried(script, r, p, q) /\ CutFrom(q, script, wire', sent)
    BY <1>1, <1>2, ReadDataTakes
<1> HIDE DEF r
<1>4. PICK p \in 0..sent : \E q \in p..sent :
        Arrived(p) /\ Carried(script, r, p, q) /\ CutFrom(q, script, wire', sent)
    BY <1>3
<1>5. PICK q \in p..sent :
        Arrived(p) /\ Carried(script, r, p, q) /\ CutFrom(q, script, wire', sent)
    BY <1>4
<1>6. script \in Seq(Tokens) /\ sent \in 0..Len(script) /\ got \in Seq(Byte) /\ got' \in Seq(Byte)
    BY <1>3 DEF AllInv, UpTypes
<1>7. ~vr.on
    BY DEF AllInv, HeaderInv
<1>8. S!Data(got) = SubSeq(script, 1, p)
  <2>1. S!Data(got \o buf) = SubSeq(script, 1, p)
      BY <1>5, <1>7 DEF Arrived, Stood
  <2>2. got \o buf = got
      BY <1>3, <1>6, ConcatEmptySeq
  <2> QED BY <2>1, <2>2
<1>9. S!Data(got') = SubSeq(script, 1, q)
  <2>1. p \in 0..Len(script) /\ q \in p..Len(script)
      BY <1>6
  <2>2. Carried(script, r, p, q)
      BY <1>5
  <2>3. S!Data(got) = SubSeq(script, 1, p) => S!Data(got \o r.data) = SubSeq(script, 1, q)
      BY <1>3, <1>6, <2>1, <2>2, ChunkAdds
  <2> QED BY <1>3, <1>8, <2>3
<1>10. got' \o buf' = got'
    BY <1>3, <1>6, ConcatEmptySeq
<1>11. Arrived(q)'
    BY <1>1, <1>3, <1>5, <1>7, <1>9, <1>10 DEF Arrived, Stood
<1>12. q \in 0..sent'
    BY <1>3, <1>6
<1>13. Reader'
    BY <1>1 DEF AllInv, DataInv, Reader
<1>14. DataInv'
    BY <1>3, <1>11, <1>12, <1>13 DEF DataInv
<1> QED BY <1>3, <1>14 DEF AllInv

LEMMA ReadBufferedData ==
    ASSUME AllInv, S!ReadBuffered, UNCHANGED vision, ~useVision
    PROVE  AllInv'
<1> DEFINE n == S!Taken
<1>1. UNCHANGED <<useVision, vr, vend>>
    BY DEF vision
<1>2. /\ end = "no" /\ todo = <<>>
      /\ UNCHANGED <<script, sent, extra, sealSeq, line, wire, seq, todo>>
      /\ IF Len(buf) > BufLimit
         THEN end' = "limit" /\ UNCHANGED <<buf, got>>
         ELSE /\ got' = got \o SubSeq(buf, 1, n)
              /\ buf' = SubSeq(buf, n + 1, Len(buf))
              /\ end' = end
    BY DEF S!ReadBuffered, S!Ends, S!AfterRead, S!client
<1>3. buf \in Seq(Byte) /\ got \in Seq(Byte) /\ UpTypes /\ InStep
    BY DEF AllInv, UpTypes
<1>4. n \in 0..Len(buf)
    BY <1>3, ReaderAssumption DEF S!Taken
<1> HIDE DEF n
<1>5. SubSeq(buf, 1, n) \in Seq(Byte) /\ SubSeq(buf, n + 1, Len(buf)) \in Seq(Byte)
    BY <1>3, <1>4, CutOff
<1>6. SubSeq(buf, 1, n) \o SubSeq(buf, n + 1, Len(buf)) = buf
    BY <1>3, <1>4, CutJoin
<1>7. got' \in Seq(Byte) /\ buf' \in Seq(Byte) /\ got' \o buf' = got \o buf
  <2>1. CASE Len(buf) > BufLimit
      BY <1>2, <1>3, <2>1
  <2>2. CASE ~(Len(buf) > BufLimit)
    <3> DEFINE x == SubSeq(buf, 1, n)
               y == SubSeq(buf, n + 1, Len(buf))
    <3>1. x \in Seq(Byte) /\ y \in Seq(Byte)
        BY <1>5
    <3>2. x \o y = buf /\ got' = got \o x /\ buf' = y
        BY <1>2, <1>6, <2>2
    <3> HIDE DEF x, y
    <3>3. (got \o x) \o y = got \o (x \o y)
      <4>1. got \in Seq(Byte)
          BY <1>3
      <4> QED BY <3>1, <4>1, ConcatAssociative
    <3>4. got \o x \in Seq(Byte)
        BY <1>3, <3>1
    <3> QED BY <3>1, <3>2, <3>3, <3>4
  <2> QED BY <2>1, <2>2
<1>8. end' = end \/ (end' \in S!Ended /\ end' # "broken")
    BY <1>2 DEF S!Ended
<1>9. UpTypes' /\ InStep'
    BY <1>2, <1>3, <1>7, <1>8, SameWire
<1>10. ~vr.on
    BY DEF AllInv, HeaderInv
<1>11. HeaderInv'
  <2>1. PICK i \in 0..Len(HeaderParts) : ReadUpTo(i)
      BY DEF AllInv, HeaderInv
  <2>2. ReadUpTo(i)'
      BY <1>1, <1>2, <2>1 DEF ReadUpTo
  <2>3. {useVision, vr.on, vend} \subseteq BOOLEAN
      BY DEF AllInv, HeaderInv
  <2> QED BY <1>1, <1>10, <2>2, <2>3 DEF HeaderInv
<1>12. PICK p \in 0..sent : Arrived(p)
    BY <1>2 DEF AllInv, DataInv
<1>13. Arrived(p)'
    BY <1>1, <1>2, <1>7, <1>10, <1>12 DEF Arrived, Stood
<1>14. DataInv'
  <2>1. Conforming'
      BY <1>1, <1>2 DEF AllInv, DataInv, Conforming
  <2>2. Reader'
      BY <1>1 DEF AllInv, DataInv, Reader
  <2>3. end' # "eof"
      BY <1>2
  <2> QED BY <1>2, <1>12, <1>13, <2>1, <2>2, <2>3 DEF DataInv
<1> QED BY <1>9, <1>11, <1>14 DEF AllInv

LEMMA PlainKeepsAll ==
    ASSUME AllInv, Plain
    PROVE  AllInv'
<1>1. ~useVision /\ UNCHANGED vision /\ S!ReadSteps
    BY DEF Plain
<1>2. UNCHANGED <<useVision, vr, vend>> /\ vend' \in BOOLEAN
    BY <1>1 DEF vision, AllInv, HeaderInv
<1>3. CASE S!ReadBuffered
    BY <1>1, <1>3, ReadBufferedData
<1>4. CASE S!ReadData
    BY <1>1, <1>4, ReadDataPlain
<1>5. CASE S!ReadNothing
    BY <1>1, <1>2, <1>5, ReadNothingData
<1>6. CASE S!ReadEnds
  <2>1. S!LineEnds /\ buf = <<>>
      BY <1>6 DEF S!ReadEnds
  <2> QED BY <1>2, <2>1, LineEndsData
<1> QED BY <1>1, <1>3, <1>4, <1>5, <1>6 DEF S!ReadSteps

-----------------------------------------------------------------------------
(* Upward: Vision.                                                         *)

LEMMA RestOf ==
    ASSUME NEW A, NEW t \in Seq(A), NEW p \in 0..Len(t), NEW x, NEW y, NEW B,
           x \in Seq(B), y \in Seq(B), x \o y = SubSeq(t, 1, p)
    PROVE  Len(x) <= p /\ y = SubSeq(t, Len(x) + 1, p)
<1> DEFINE h == Len(x)
<1>1. h \in Nat /\ Len(y) \in Nat /\ p \in Nat /\ Len(t) \in Nat /\ p <= Len(t)
    OBVIOUS
<1>2. Len(SubSeq(t, 1, p)) = p /\ \A i \in 1..p : SubSeq(t, 1, p)[i] = t[i]
    OBVIOUS
<1>3. Len(x \o y) = h + Len(y) /\ \A i \in 1..Len(y) : (x \o y)[h + i] = y[i]
    OBVIOUS
<1> HIDE DEF h
<1>4. h + Len(y) = p
    BY <1>2, <1>3
<1>5. h \in 0..Len(t) /\ h <= p /\ Len(y) = p - h
    BY <1>1, <1>4
<1>6. Len(SubSeq(t, h + 1, p)) = p - h /\ \A i \in 1..(p - h) : SubSeq(t, h + 1, p)[i] = t[h + i]
    BY <1>5, SubSeqAt
<1>7. ASSUME NEW i \in 1..Len(y) PROVE y[i] = SubSeq(t, h + 1, p)[i]
  <2>1. h + i \in 1..p /\ i \in 1..(p - h)
      BY <1>1, <1>4
  <2> QED BY <1>2, <1>3, <1>6, <2>1
<1>8. SubSeq(t, h + 1, p) \in Seq(A)
    BY <1>5, SubSeqIn
<1>9. y = SubSeq(t, h + 1, p)
  <2> DEFINE z == SubSeq(t, h + 1, p)
  <2>1. z \in Seq(A) /\ Len(z) = Len(y) /\ \A i \in 1..Len(y) : y[i] = z[i]
      BY <1>5, <1>6, <1>7, <1>8
  <2> HIDE DEF z
  <2>2. y = z
    <3>1. DOMAIN y = 1..Len(y) /\ y = [i \in DOMAIN y |-> y[i]]
        OBVIOUS
    <3>2. DOMAIN z = 1..Len(z) /\ z = [i \in DOMAIN z |-> z[i]]
        BY <2>1
    <3> QED BY <2>1, <3>1, <3>2
  <2> QED BY <2>2 DEF z
<1> QED BY <1>5, <1>9 DEF h

LEMMA EnableKeepsAll ==
    ASSUME AllInv, Enable
    PROVE  AllInv'
<1>1. /\ useVision /\ end = "no" /\ todo = <<>> /\ ~vr.on
      /\ vr' = [vr EXCEPT !.on = TRUE, !.buf = buf] /\ buf' = <<>>
      /\ UNCHANGED <<script, sent, extra, sealSeq, line, wire, seq, todo, got, end>>
      /\ UNCHANGED <<useVision, vend>>
    BY DEF Enable
<1>2. UpTypes /\ InStep /\ HeaderInv /\ DataInv
    BY DEF AllInv
<1>3. /\ script \in Seq(Tokens) /\ sent \in 0..Len(script)
      /\ got \in Seq(Byte) /\ buf \in Seq(Byte)
    BY <1>2 DEF UpTypes
<1>4. PICK p \in 0..sent : Arrived(p)
    BY <1>1, <1>2 DEF DataInv
<1>5. got \o buf = SubSeq(script, 1, p) /\ CutFrom(p, script, wire, sent)
    BY <1>1, <1>4 DEF Arrived, Stood
<1>6. PICK i \in 0..Len(HeaderParts) : ReadUpTo(i)
    BY <1>2 DEF HeaderInv
<1>7. Len(got) = HeaderLen
  <2>1. Len(got) = PartEnd(i) /\ SubSeq(HeaderParts, i + 1, Len(HeaderParts)) = <<>>
      BY <1>1, <1>6 DEF ReadUpTo
  <2>2. HeaderParts \in Seq(Nat) /\ Len(HeaderParts) \in Nat
      BY Parts
  <2>3. Len(SubSeq(HeaderParts, i + 1, Len(HeaderParts))) = Len(HeaderParts) - i
    <3>1. /\ i \in 0..Len(HeaderParts) /\ i <= Len(HeaderParts)
          /\ Len(HeaderParts) \in 0..Len(HeaderParts)
        BY <2>2
    <3> QED BY <2>2, <3>1, SubSeqAt
  <2>4. Len(HeaderParts) - i = 0
      BY <2>1, <2>3
  <2>5. i = Len(HeaderParts)
      BY <2>2, <2>4
  <2> QED BY <2>1, <2>5, Parts
<1>8. HeaderLen <= p /\ buf = SubSeq(script, HeaderLen + 1, p)
  <2>1. p \in 0..Len(script)
      BY <1>3
  <2>2. Len(got) <= p /\ buf = SubSeq(script, Len(got) + 1, p)
      BY <1>3, <1>5, <2>1, RestOf
  <2> QED BY <1>7, <2>2
<1>9. Stands(script, vr', HeaderLen, p)
  <2>1. vr = Off /\ Framed(script)
      BY <1>1, <1>2 DEF DataInv, Conforming, Reader
  <2>2. vr' = [Off EXCEPT !.on = TRUE, !.buf = SubSeq(script, HeaderLen + 1, p)]
      BY <1>1, <1>8, <2>1
  <2>3. p \in HeaderLen..Len(script)
      BY <1>3, <1>8, Parts
  <2> QED BY <1>3, <2>1, <2>2, <2>3, EnabledStands
<1>10. Still(vr') /\ vr'.on = TRUE /\ ParserAt(script, vr', p)
  <2> DEFINE w == vr'
  <2>1. Stands(script, w, HeaderLen, p)
      BY <1>9
  <2> HIDE DEF w
  <2>2. w \in Parser /\ HeaderLen \in HeaderLen..p
      BY <2>1 DEF Stands
  <2>3. w.on = TRUE
      BY <2>2 DEF Parser
  <2>4. Still(w)
      BY <2>1, StandsStill
  <2> QED BY <2>1, <2>2, <2>3, <2>4 DEF ParserAt, w
<1>11. UpTypes' /\ InStep'
  <2>1. buf' \in Seq(Byte) /\ got' \in Seq(Byte)
      BY <1>1, <1>3
  <2> QED BY <1>1, <1>2, <2>1, SameWire
<1>12. HeaderInv'
  <2>1. ReadUpTo(i)'
      BY <1>1, <1>6, <1>10 DEF ReadUpTo
  <2>2. ({useVision, vr.on, vend} \subseteq BOOLEAN)'
    <3>1. {useVision, vr.on, vend} \subseteq BOOLEAN
        BY <1>2 DEF HeaderInv
    <3> QED BY <1>1, <1>10, <3>1
  <2>3. (vr.on => useVision /\ todo = <<>> /\ buf = <<>>)'
      BY <1>1
  <2> QED BY <2>1, <2>2, <2>3 DEF HeaderInv
<1>13. DataInv'
  <2>1. Arrived(p)'
      BY <1>1, <1>5, <1>10 DEF Arrived, Stood
  <2>2. p \in 0..sent'
      BY <1>1
  <2>3. Conforming'
      BY <1>1, <1>2 DEF DataInv, Conforming
  <2>4. Reader'
      BY <1>10 DEF Reader
  <2> QED BY <1>1, <2>1, <2>2, <2>3, <2>4 DEF DataInv
<1> QED BY <1>11, <1>12, <1>13 DEF AllInv

\* What a read adds to what was given.
LEMMA NewOf ==
    ASSUME NEW s \in Seq(Byte), NEW x \in Seq(Byte)
    PROVE  SubSeq(s \o x, Len(s) + 1, Len(s \o x)) = x
<1> DEFINE z == s \o x
<1>1. /\ Len(s) \in 0..Len(z) /\ Len(z) \in 0..Len(z) /\ Len(s) <= Len(z) /\ z \in Seq(Byte)
      /\ Len(z) - Len(s) = Len(x) /\ \A i \in 1..Len(x) : z[Len(s) + i] = x[i]
    OBVIOUS
<1> HIDE DEF z
<1> DEFINE y == SubSeq(z, Len(s) + 1, Len(z))
<1>2. /\ Len(y) = Len(z) - Len(s)
      /\ \A i \in 1..(Len(z) - Len(s)) : y[i] = z[Len(s) + i]
    BY <1>1, SubSeqAt
<1>3. y \in Seq(Byte)
    BY <1>1, SubSeqIn
<1> HIDE DEF y
<1>4. Len(y) = Len(x) /\ \A i \in 1..Len(x) : y[i] = x[i]
    BY <1>1, <1>2
<1>5. y = x
    BY <1>3, <1>4, SeqEqual
<1> QED BY <1>5 DEF y, z

\* A Noise that was given stays given.
LEMMA NoiseStays ==
    ASSUME got \in Seq(Byte), NEW x \in Seq(Byte), got' = got \o x, ~NoisePassed'
    PROVE  ~NoisePassed /\ x # <<Noise>>
<1>1. Len(got) \in Nat /\ Len(x) \in Nat /\ Len(got') = Len(got) + Len(x)
    OBVIOUS
<1>2. /\ \A i \in 1..Len(got) : got'[i] = got[i]
      /\ \A i \in 1..Len(x) : got'[Len(got) + i] = x[i]
    OBVIOUS
<1>3. \A i \in 1..Len(got') : got'[i] # Noise
    BY DEF NoisePassed
<1>4. ASSUME NEW i \in 1..Len(got) PROVE got[i] # Noise
  <2>1. i \in 1..Len(got')
      BY <1>1
  <2> QED BY <1>2, <1>3, <2>1
<1>5. x # <<Noise>>
  <2> SUFFICES ASSUME x = <<Noise>> PROVE FALSE
      OBVIOUS
  <2>1. Len(x) = 1 /\ x[1] = Noise
      OBVIOUS
  <2>2. Len(got) + 1 \in 1..Len(got') /\ 1 \in 1..Len(x)
      BY <1>1, <2>1
  <2> QED BY <1>2, <1>3, <2>1, <2>2
<1> QED BY <1>4, <1>5 DEF NoisePassed

\* What a read of the stream gives to the parser.
LEMMA ReadNew ==
    ASSUME AllInv, Read
    PROVE  /\ Head(wire) \in Sealed /\ Head(wire).data \in Seq(Byte) /\ wire # <<>>
           /\ S!Takes(Head(wire)) /\ Head(wire).kind \in {"app", "handshake"}
           /\ got \in Seq(Byte) /\ got' = got \o Head(wire).data
           /\ UNCHANGED <<script, sent, useVision>> /\ vr.on /\ useVision /\ Still(vr)
           /\ vr' = IF vr.direct THEN [vr EXCEPT !.out = vr.out \o Head(wire).data]
                     ELSE Parse([vr EXCEPT !.buf = vr.buf \o Head(wire).data])
<1> DEFINE r == Head(wire)
           x == r.data
<1>1. /\ vr.on /\ S!ReadData /\ useVision' = useVision
      /\ vr' = IF vr.direct
               THEN [vr EXCEPT !.out = @ \o SubSeq(got', Len(got) + 1, Len(got'))]
               ELSE Parse([vr EXCEPT !.buf = @ \o SubSeq(got', Len(got) + 1, Len(got'))])
    BY DEF Read
<1>2. useVision /\ Still(vr)
    BY <1>1 DEF AllInv, HeaderInv, DataInv, Reader
<1>3. /\ wire # <<>> /\ S!Takes(r) /\ got' = got \o x /\ S!Carries(r)
      /\ UNCHANGED <<script, sent>>
    BY <1>1 DEF S!ReadData, S!client
<1>4. wire \in Seq(Sealed) /\ got \in Seq(Byte)
    BY DEF AllInv, UpTypes
<1>5. r \in Sealed /\ x \in Seq(Byte)
    BY <1>3, <1>4, WireHead, SealedFields
<1>6. r.kind \in {"app", "handshake"}
    BY <1>3 DEF S!Carries
<1>7. SubSeq(got', Len(got) + 1, Len(got')) = x
  <2> HIDE DEF x
  <2>1. SubSeq(got \o x, Len(got) + 1, Len(got \o x)) = x
      BY <1>4, <1>5, NewOf
  <2> QED BY <1>3, <2>1
<1> HIDE DEF r, x
<1>8. vr' = IF vr.direct THEN [vr EXCEPT !.out = vr.out \o x]
            ELSE Parse([vr EXCEPT !.buf = vr.buf \o x])
    BY <1>1, <1>7
<1> QED BY <1>1, <1>2, <1>3, <1>4, <1>5, <1>6, <1>8 DEF r, x

\* Whatever it was given, a read leaves the parser nothing it could go on with.
LEMMA ReadSettles ==
    ASSUME AllInv, Read
    PROVE  Still(vr') /\ vr'.on = TRUE /\ ~Complete'
<1> DEFINE x == Head(wire).data
           w == [vr EXCEPT !.buf = vr.buf \o x]
           v == vr'
<1>1. /\ x \in Seq(Byte) /\ Still(vr)
      /\ v = IF vr.direct THEN [vr EXCEPT !.out = vr.out \o x] ELSE Parse(w)
    BY ReadNew
<1> HIDE DEF x, v
<1>2. vr \in Parser /\ vr.buf \in Seq(Byte) /\ vr.out \in Seq(Byte) /\ (vr.direct => vr.buf = <<>>)
    BY <1>1, ParserBuf DEF Still
<1>3. Still(v) /\ Settled(v)
  <2>1. CASE vr.direct
    <3>1. v = [vr EXCEPT !.out = vr.out \o x] /\ vr.out \o x \in Seq(Byte)
        BY <1>1, <1>2, <2>1
    <3>2. v \in Parser /\ v.buf = vr.buf
        BY <1>2, <3>1 DEF Parser
    <3> QED BY <1>2, <2>1, <3>2 DEF Still, Settled
  <2>2. CASE ~vr.direct
    <3>1. vr.buf \o x \in Seq(Byte)
        BY <1>1, <1>2
    <3>2. w \in Parser /\ w.direct = vr.direct
        BY <1>2, <3>1 DEF Parser
    <3>3. Still(w)
        BY <2>2, <3>2 DEF Still
    <3> HIDE DEF w
    <3>4. Still(Parse(w)) /\ Settled(Parse(w))
        BY <3>3, ParseSettles
    <3> QED BY <1>1, <2>2, <3>4
  <2> QED BY <2>1, <2>2
<1>4. v.on = TRUE /\ v.buf \in Seq(Byte)
    BY <1>3 DEF Still, Parser
<1>5. Len(v.buf) \in Nat /\ Need(v) \in {2, 3} /\ (v.buf = <<>> => Len(v.buf) = 0)
    BY <1>4 DEF Need
<1>6. ~(Len(v.buf) >= Need(v))
    BY <1>3, <1>5 DEF Settled
<1>7. ~(v.buf # <<>> /\ v.content > 0)
    BY <1>3 DEF Settled
<1>8. ~(Len(v.buf) >= Need(v) \/ (v.buf # <<>> /\ v.content > 0))
    BY <1>6, <1>7
<1>9. ~Complete'
    BY <1>8 DEF Complete, v
<1> QED BY <1>3, <1>4, <1>9 DEF v

\* A read moves the reader on, as long as it was given no Noise.
LEMMA ReadMoves ==
    ASSUME AllInv, Read
    PROVE  \E p \in 0..sent : \E q \in p..sent :
              /\ CutFrom(q, script, wire', sent)
              /\ ~NoisePassed' => \E k \in HeaderLen..p : \E n \in k..q :
                    Stands(script, vr, k, p) /\ Stands(script, vr', n, q)
<1> DEFINE r == Head(wire)
<1>1. /\ r \in Sealed /\ r.data \in Seq(Byte) /\ wire # <<>>
      /\ S!Takes(r) /\ r.kind \in {"app", "handshake"}
      /\ got \in Seq(Byte) /\ got' = got \o r.data
      /\ UNCHANGED <<script, sent, useVision>> /\ vr.on /\ useVision /\ Still(vr)
      /\ vr' = IF vr.direct THEN [vr EXCEPT !.out = vr.out \o r.data]
                ELSE Parse([vr EXCEPT !.buf = vr.buf \o r.data])
    BY ReadNew
<1>2. UpTypes /\ InStep /\ HeaderInv /\ DataInv
    BY DEF AllInv
<1>3. script \in Seq(Tokens) /\ sent \in 0..Len(script) /\ Framed(script)
    BY <1>1, <1>2 DEF UpTypes, DataInv, Conforming
<1>4. PICK p \in 0..sent : \E q \in p..sent :
        Arrived(p) /\ Carried(script, r, p, q) /\ CutFrom(q, script, wire', sent)
    BY <1>1, <1>2, TakesCut
<1>5. PICK q \in p..sent :
        Arrived(p) /\ Carried(script, r, p, q) /\ CutFrom(q, script, wire', sent)
    BY <1>4
<1>6. p \in 0..Len(script) /\ q \in p..Len(script) /\ q \in 0..Len(script)
    BY <1>3
<1> HIDE DEF r
<1>7. ASSUME ~NoisePassed'
      PROVE  \E k \in HeaderLen..p : \E n \in k..q :
                Stands(script, vr, k, p) /\ Stands(script, vr', n, q)
  <2> DEFINE x == r.data
             v == vr'
  <2>1. x \in Seq(Byte) /\ got' = got \o x
      BY <1>1
  <2>2. v = IF vr.direct THEN [vr EXCEPT !.out = vr.out \o x]
            ELSE Parse([vr EXCEPT !.buf = vr.buf \o x])
      BY <1>1
  <2>3. r.kind = "handshake" => x = <<Noise>>
      BY <1>5 DEF Carried
  <2>4. r.kind = "app" => x = SubSeq(script, p + 1, q)
      BY <1>5 DEF Carried
  <2> HIDE DEF x, v
  <2>5. ~NoisePassed /\ x # <<Noise>>
      BY <1>1, <1>7, <2>1, NoiseStays
  <2>6. x = SubSeq(script, p + 1, q)
      BY <1>1, <2>3, <2>4, <2>5
  <2>7. PICK k \in HeaderLen..p : Stands(script, vr, k, p)
      BY <1>1, <1>5, <2>5 DEF Arrived, Stood, ParserAt
  <2>8. CASE vr.direct
    <3>1. v = [vr EXCEPT !.out = @ \o SubSeq(script, p + 1, q)]
        BY <2>2, <2>6, <2>8
    <3>2. Stands(script, v, q, q)
        BY <1>3, <1>6, <2>7, <2>8, <3>1, DirectStands
    <3>3. q \in k..q
        BY <1>3, <1>6, <2>7, Parts
    <3> QED BY <2>7, <3>2, <3>3 DEF v
  <2>9. CASE ~vr.direct
    <3> DEFINE w == [vr EXCEPT !.buf = vr.buf \o x]
    <3>1. w = [vr EXCEPT !.buf = @ \o SubSeq(script, p + 1, q)]
        BY <2>6
    <3>2. Stands(script, w, k, q)
        BY <1>3, <1>6, <2>7, <2>9, <3>1, MoreStands
    <3>3. v = Parse(w)
        BY <2>2, <2>9
    <3> HIDE DEF w
    <3>4. PICK n \in k..q : Stands(script, Parse(w), n, q)
        BY <1>3, <3>2, ParseStands
    <3> QED BY <2>7, <3>3, <3>4 DEF v
  <2> QED BY <2>8, <2>9
<1> QED BY <1>5, <1>7

LEMMA ReadKeepsAll ==
    ASSUME AllInv, Read
    PROVE  AllInv'
<1>1. /\ vr.on /\ S!ReadData /\ useVision' = useVision /\ vend' = (vr'.out = vr.out)
    BY DEF Read
<1>2. Still(vr') /\ vr'.on = TRUE
    BY ReadSettles
<1>3. PICK p \in 0..sent : \E q \in p..sent :
          /\ CutFrom(q, script, wire', sent)
          /\ ~NoisePassed' => \E k \in HeaderLen..p : \E n \in k..q :
                Stands(script, vr, k, p) /\ Stands(script, vr', n, q)
    BY ReadMoves
<1>4. PICK q \in p..sent :
          /\ CutFrom(q, script, wire', sent)
          /\ ~NoisePassed' => \E k \in HeaderLen..p : \E n \in k..q :
                Stands(script, vr, k, p) /\ Stands(script, vr', n, q)
    BY <1>3
<1>5. ASSUME ~NoisePassed' PROVE ParserAt(script, vr', q)
  <2>1. PICK k \in HeaderLen..p : \E n \in k..q : Stands(script, vr', n, q)
      BY <1>4, <1>5
  <2>2. PICK n \in k..q : Stands(script, vr', n, q)
      BY <2>1
  <2>3. n \in HeaderLen..q
      BY <2>2 DEF Stands
  <2> QED BY <2>2, <2>3 DEF ParserAt
<1>7. /\ UpTypes' /\ InStep' /\ HeaderInv'
      /\ Conforming'
      /\ end' = "no" /\ UNCHANGED <<script, sent>>
  <2>1. vend' \in BOOLEAN
      BY <1>1
  <2> QED BY <1>1, <1>2, <2>1, ReadDataTakes
<1>8. Arrived(q)'
    BY <1>2, <1>4, <1>5, <1>7 DEF Arrived, Stood
<1>9. q \in 0..sent'
  <2>1. sent \in Nat
      BY DEF AllInv, UpTypes
  <2> QED BY <1>7, <2>1
<1>10. DataInv'
    BY <1>2, <1>7, <1>8, <1>9 DEF DataInv, Reader
<1> QED BY <1>7, <1>10 DEF AllInv

LEMMA ReadEndsKeepsAll ==
    ASSUME AllInv, ReadEnds
    PROVE  AllInv'
<1>1. vr.on /\ vend' \in BOOLEAN /\ UNCHANGED <<useVision, vr>> /\ (S!ReadEnds \/ S!ReadNothing)
    BY DEF ReadEnds
<1>2. CASE S!ReadEnds
  <2>1. S!LineEnds /\ buf = <<>>
      BY <1>2 DEF S!ReadEnds
  <2> QED BY <1>1, <2>1, LineEndsData
<1>3. CASE S!ReadNothing
    BY <1>1, <1>3, ReadNothingData
<1> QED BY <1>1, <1>2, <1>3

LEMMA ClientKeepsAll ==
    ASSUME AllInv, Client
    PROVE  AllInv'
<1>1. UpTypes' /\ InStep' /\ DataInv'
    BY ClientKeepsData DEF AllInv
<1>2. UNCHANGED <<todo, got, buf, useVision, vr, vend>>
    BY DEF Client, vision, S!ClientSteps, S!ClientSendsData, S!ClientSendsOther, S!ClientCloses,
           S!reader
<1>3. HeaderInv'
  <2>1. PICK i \in 0..Len(HeaderParts) : ReadUpTo(i)
      BY DEF AllInv, HeaderInv
  <2>2. ReadUpTo(i)'
      BY <1>2, <2>1 DEF ReadUpTo
  <2> QED BY <1>2, <2>2 DEF AllInv, HeaderInv
<1> QED BY <1>1, <1>3 DEF AllInv

LEMMA UpSteps ==
    ASSUME AllInv, [BothNext]_<<vars, side, first, direct, downSeq, downWire, chunks, pipe>>
    PROVE  AllInv'
<1>1. CASE MoveUp
  <2>1. Next
      BY <1>1 DEF MoveUp
  <2>2. CASE Client
      BY <2>2, ClientKeepsAll
  <2>3. CASE Header
      BY <2>3, HeaderKeepsAll
  <2>4. CASE Plain
      BY <2>4, PlainKeepsAll
  <2>5. CASE Enable
      BY <2>5, EnableKeepsAll
  <2>6. CASE Read
      BY <2>6, ReadKeepsAll
  <2>7. CASE ReadEnds
      BY <2>7, ReadEndsKeepsAll
  <2> QED BY <2>1, <2>2, <2>3, <2>4, <2>5, <2>6, <2>7 DEF Next, Server
<1>2. CASE /\ UNCHANGED <<script, sent, extra, sealSeq, wire, line, seq, buf, todo, got, end>>
           /\ UNCHANGED <<useVision, vr, vend>>
  <2>1. UpTypes' /\ InStep'
      BY <1>2 DEF AllInv, UpTypes, InStep, S!SequenceHolds, S!NumberAt, S!After
  <2>2. HeaderInv'
      BY <1>2 DEF AllInv, HeaderInv, ReadUpTo
  <2>3. DataInv'
    <3>1. DataInv
        BY DEF AllInv
    <3> QED BY <1>2, <3>1 DEF DataInv, Arrived, Stood, NoisePassed, Conforming, Reader
  <2> QED BY <2>1, <2>2, <2>3 DEF AllInv
<1>3. MoveDown => UNCHANGED useVision
    BY DEF MoveDown, D!Next, D!WriteAnswer, D!WriteChunk, D!Writes
<1> QED BY <1>1, <1>2, <1>3 DEF BothNext, MoveDown, vars, vision, S!vars, S!client, S!reader

LEMMA StartsAt ==
    ASSUME NEW t \in Seq(Tokens), useVision \in BOOLEAN, useVision => Framed(t),
           S!InitWith(t), vr = Off, vend = FALSE
    PROVE  AllInv
<1>1. /\ script = t /\ sent = 0 /\ extra = 0 /\ sealSeq = 0 /\ wire = <<>> /\ line = "open"
      /\ seq = 0 /\ buf = <<>> /\ got = <<>> /\ todo = HeaderParts /\ end = "no"
    BY DEF S!InitWith
<1>2. <<>> \in Seq(Sealed) /\ Len(<<>>) = 0 /\ <<>> \in Seq(Byte) /\ Len(t) \in Nat
    BY TokenBytes
<1>3. UpTypes
    BY <1>1, <1>2, ReaderAssumption DEF UpTypes
<1>4. InStep
  <2>1. S!SequenceHolds
    <3>1. S!NumberAt(1) = 0
        BY <1>1 DEF S!NumberAt
    <3>2. 1..(Len(wire) + 1) = {1}
        BY <1>1
    <3> QED BY <1>1, <3>1, <3>2 DEF S!SequenceHolds
  <2>2. 1..Len(wire) = {}
      BY <1>1
  <2> QED BY <1>1, <2>1, <2>2 DEF InStep
<1>5. HeaderInv
  <2>1. SubSeq(HeaderParts, 0 + 1, Len(HeaderParts)) = HeaderParts /\ 0 \in 0..Len(HeaderParts)
      BY Parts, SubSeqFull
  <2>2. ReadUpTo(0)
      BY <1>1, <1>2, <2>1 DEF ReadUpTo, PartEnd
  <2>3. vr.on = FALSE
      BY DEF Off
  <2> QED BY <2>1, <2>2, <2>3 DEF HeaderInv
<1>6. DataInv
  <2>1. CutFrom(0, script, wire, sent)
      BY <1>1, CutEmpty
  <2>2. SubSeq(script, 1, 0) = <<>>
      BY <1>1
  <2>3. S!Data(<<>>) = <<>>
    <3>1. <<>> \in Seq(Tokens)
        OBVIOUS
    <3> QED BY <3>1, DataOfTokens
  <2>4. got \o buf = <<>>
      BY <1>1
  <2>5. vr.on = FALSE
      BY DEF Off
  <2>6. Arrived(0)
      BY <2>1, <2>2, <2>3, <2>4, <2>5 DEF Arrived, Stood
  <2>8. 0 \in 0..sent
      BY <1>1
  <2> QED BY <1>1, <2>5, <2>6, <2>8 DEF DataInv, Conforming, Reader
<1> QED BY <1>3, <1>4, <1>5, <1>6 DEF AllInv

LEMMA NothingIsFramed == Framed(<<>>)
<1>1. Len(<<>>) = 0 /\ HeaderLen \in Nat
    BY Parts
<1>2. 1..Len(<<>>) = {} /\ (HeaderLen + 2)..Len(<<>>) = {} /\ ~(HeaderLen + 1 <= Len(<<>>))
    BY <1>1
<1> HIDE DEF HeaderLen
<1> QED BY <1>2 DEF Framed

LEMMA StartsRight ==
    ASSUME BothInit
    PROVE  AllInv /\ WriterInv
<1>1. CASE InitUp
  <2>1. Init /\ D!InitWith(useVision)
      BY <1>1 DEF InitUp
  <2>2. vr = Off /\ vend = FALSE
      BY <2>1 DEF Init
  <2>3. CASE useVision = TRUE /\ \E s \in Scripts : S!InitWith(s)
    <3>1. PICK s \in Scripts : S!InitWith(s)
        BY <2>3
    <3>2. s \in Seq(Tokens) /\ Framed(s)
        BY ReaderAssumption
    <3> QED BY <2>1, <2>2, <2>3, <3>1, <3>2, StartsAt, WriterInitially
  <2>4. CASE useVision = FALSE /\ S!Init
    <3>1. S!InitWith(Script) /\ Script \in Seq(Tokens)
        BY <2>4, ReaderAssumption DEF S!Init
    <3> QED BY <2>1, <2>2, <2>4, <3>1, StartsAt, WriterInitially
  <2> QED BY <2>1, <2>3, <2>4 DEF Init
<1>2. CASE InitDown
  <2>1. /\ S!InitWith(<<>>) /\ vr = Off /\ vend = FALSE
        /\ useVision \in BOOLEAN /\ D!InitWith(useVision)
      BY <1>2 DEF InitDown
  <2>2. <<>> \in Seq(Tokens)
      OBVIOUS
  <2> QED BY <2>1, <2>2, NothingIsFramed, StartsAt, WriterInitially
<1> QED BY <1>1, <1>2 DEF BothInit

-----------------------------------------------------------------------------
(* The theorems.                                                           *)

bothVars == <<vars, side, first, direct, downSeq, downWire, chunks, pipe>>

\* Whatever the client sends, wherever its records cut it and whatever is
\* written to it, both directions keep their invariants.
THEOREM InductiveInvariant == BothSpec => [](AllInv /\ WriterInv)
<1>1. BothInit => AllInv /\ WriterInv
    BY StartsRight
<1>2. (AllInv /\ WriterInv) /\ [BothNext]_bothVars => (AllInv /\ WriterInv)'
    BY UpSteps, WriterSteps DEF bothVars
<1> QED BY <1>1, <1>2, PTL DEF BothSpec, bothVars

\* The variables of both directions hold what their code can put there; once
\* Vision is on, nothing is left in the buffer of the record stream.
THEOREM TypeCorrect == BothSpec => []BothTypeOK
<1>1. AllInv /\ WriterInv => BothTypeOK
  <2> SUFFICES ASSUME AllInv, WriterInv PROVE BothTypeOK
      OBVIOUS
  <2>1. UpTypes /\ InStep /\ HeaderInv /\ DataInv
      BY DEF AllInv
  <2>2. S!TypeOK
    <3>1. \A i \in DOMAIN wire : wire[i].kind \in Kinds
      <4>1. \A i \in DOMAIN wire : wire[i] \in Sealed
          BY <2>1 DEF UpTypes
      <4> QED BY <4>1, SealedFields
    <3>2. seq \in 0..sealSeq
        BY <2>1 DEF UpTypes, InStep
    <3>3. \E i \in 0..Len(HeaderParts) : todo = SubSeq(HeaderParts, i + 1, Len(HeaderParts))
        BY <2>1 DEF HeaderInv, ReadUpTo
    <3>4. sent \in 0..Len(script) /\ extra \in 0..MaxExtra /\ line \in {"open", "eof", "reset"}
          /\ end \in S!Ended \cup {"no"}
        BY <2>1 DEF UpTypes
    <3> QED BY <3>1, <3>2, <3>3, <3>4 DEF S!TypeOK
  <2>3. vr.content >= 0 /\ vr.padding >= 0
    <3>1. CASE vr.on
      <4>1. vr \in Parser
          BY <2>1, <3>1 DEF DataInv, Reader, Still
      <4>2. vr.content \in Nat /\ vr.padding \in Nat
          BY <4>1, ParserBuf
      <4> QED BY <4>2
    <3>2. CASE ~vr.on
      <4>1. vr = Off
          BY <2>1, <3>2 DEF DataInv, Reader
      <4> QED BY <4>1 DEF Off
    <3> QED BY <3>1, <3>2
  <2>4. (vr.on => buf = <<>>) /\ vend \in BOOLEAN
      BY <2>1 DEF HeaderInv
  <2>5. D!TypeOK
    <3>1. /\ {useVision, first, direct} \subseteq BOOLEAN /\ pipe \in {"run", "failed"}
          /\ chunks \in Seq(Writable) /\ Len(chunks) <= MaxChunks + 1
          /\ downWire \in Seq(Records) /\ downSeq = Len(downWire)
          /\ Len(downWire) = Len(chunks) - Failed
        BY DEF WriterInv
    <3>2. \A i \in DOMAIN chunks : chunks[i] \in D!Chunk \cup {D!Answer}
        BY <3>1 DEF Writable
    <3>3. downSeq \in 0..(MaxChunks + 1)
      <4>1. Len(downWire) \in Nat
          BY <3>1
      <4>2. Len(chunks) \in Nat
          BY <3>1
      <4>3. Failed \in {0, 1}
          BY DEF Failed
      <4>4. MaxChunks \in Nat
          BY WriterAssumption
      <4>5. /\ Len(chunks) <= MaxChunks + 1 /\ downSeq = Len(downWire)
            /\ Len(downWire) = Len(chunks) - Failed
          BY <3>1
      <4> HIDE DEF Failed
      <4> QED BY <4>1, <4>2, <4>3, <4>4, <4>5
    <3> QED BY <3>1, <3>2, <3>3 DEF D!TypeOK
  <2> QED BY <2>2, <2>3, <2>4, <2>5 DEF BothTypeOK, TypeOK
<1> QED BY <1>1, InductiveInvariant, PTL

\* No record fails to open: the reader's number is that of the next record
\* on the wire, whatever was skipped (_RecordCipher.seq).
THEOREM CiphersInStep == BothSpec => []SequenceHolds
<1>1. AllInv => SequenceHolds
    BY DEF AllInv, InStep, SequenceHolds
<1> QED BY <1>1, InductiveInvariant, PTL

\* Without Vision, a stream that the client ends with FIN is passed on whole:
\* what readexactly left over and read returned is all that was sent, with the
\* plaintext of handshake records in between.
THEOREM NothingLost == BothSpec => []EofMeansAll
<1>1. AllInv => EofMeansAll
    BY DEF AllInv, DataInv, EofMeansAll, S!EofMeansAll
<1> QED BY <1>1, InductiveInvariant, PTL

\* A client that refuses records beyond the limit of TLS 1.3 can open and
\* unframe all that VisionWriter and _SecureWriter wrote to it up to the first
\* chunk of more than 16123 bytes (16384 without Vision).
THEOREM Readable == BothSpec => []ClientReads
<1>1. WriterInv => ClientReads
  <2> SUFFICES ASSUME WriterInv, NEW i \in DOMAIN chunks,
                      \A j \in 1..i : chunks[j].len <= D!ReadableChunk
               PROVE  i \in DOMAIN downWire /\ D!Reads(i)
      BY DEF ClientReads, D!ClientReads
  <2>1. /\ chunks \in Seq(Writable) /\ downWire \in Seq(Records) /\ i \in 1..Len(chunks)
        /\ Len(chunks) \in Nat /\ Len(downWire) = Len(chunks) - Failed
      BY DEF WriterInv
  <2>2. i \in 1..Len(downWire)
    <3>1. CASE pipe # "failed"
        BY <2>1, <3>1 DEF Failed
    <3>2. CASE pipe = "failed" /\ i # Len(chunks)
        BY <2>1, <3>2 DEF Failed
    <3>3. CASE pipe = "failed" /\ i = Len(chunks)
      <4>1. D!Last(chunks) = chunks[i]
          BY <2>1, <3>3 DEF D!Last
      <4>2. chunks[i].len > (IF useVision THEN 65257 ELSE 65518)
          BY <3>3, <4>1 DEF WriterInv, D!SafeChunks
      <4>3. chunks[i].len \in Nat /\ chunks[i].len <= D!ReadableChunk
          BY <2>1, WritableLength
      <4> QED BY <4>2, <4>3 DEF D!ReadableChunk, D!MaxPlaintext
    <3> QED BY <3>1, <3>2, <3>3
  <2>3. chunks[i].len <= D!ReadableChunk
      BY <2>1
  <2> QED BY <2>1, <2>2, <2>3 DEF WriterInv, RecordsInStep, D!Reads
<1> QED BY <1>1, InductiveInvariant, PTL

\* A write fails only for chunks beyond what the 16-bit lengths and the
\* largest padding leave room for.
THEOREM Writes16Bits == BothSpec => []SafeChunks
<1>1. WriterInv => SafeChunks
    BY DEF WriterInv, SafeChunks
<1> QED BY <1>1, InductiveInvariant, PTL

\* VisionReader keeps no content and no whole head back after a read.
THEOREM PassedOnAtOnce == BothSpec => NothingHeldBack
<1>1. AllInv /\ [BothNext]_bothVars => [vr.on /\ got' # got => ~Complete']_vars
  <2> SUFFICES ASSUME AllInv, [BothNext]_bothVars, vr.on, got' # got PROVE ~Complete'
      OBVIOUS
  <2>1. useVision /\ todo = <<>>
      BY DEF AllInv, HeaderInv
  <2>2. Next
    <3>1. ~UNCHANGED bothVars
        BY DEF bothVars, vars, S!vars, S!reader
    <3>2. ~MoveDown
        BY DEF MoveDown
    <3> QED BY <3>1, <3>2 DEF BothNext, MoveUp
  <2>3. ~Client
      BY DEF Client, S!ClientSteps, S!ClientSendsData, S!ClientSendsOther, S!ClientCloses, S!reader
  <2>4. ~Header
      BY <2>1 DEF Header, S!HeaderSteps, S!HeaderTakesRecord, S!HeaderGets, S!HeaderEnds, S!Reading
  <2>5. ~Plain /\ ~Enable
      BY <2>1 DEF Plain, Enable
  <2>6. ~ReadEnds
      BY DEF ReadEnds, S!ReadEnds, S!LineEnds, S!ReadNothing
  <2>7. Read
      BY <2>2, <2>3, <2>4, <2>5, <2>6 DEF Next, Server
  <2> QED BY <2>7, ReadSettles
<1> QED BY <1>1, InductiveInvariant, PTL DEF BothSpec, bothVars, NothingHeldBack

-----------------------------------------------------------------------------
(* The refinement of ByteStream.                                           *)

\* What VisionReader's instance of ByteStream takes for its variables.
Given == IF useVision THEN Content(SubSeq(script, 1, sent)) ELSE SubSeq(script, 1, sent)
Returned == IF useVision THEN vr.out ELSE got
Over == IF useVision THEN vend ELSE end # "no"

LEMMA PrefixOfJoin ==
    ASSUME NEW A, NEW s \in Seq(A), NEW t \in Seq(A)
    PROVE  Stream!IsPrefix(s, s \o t)
<1>1. Len(s) \in Nat /\ Len(t) \in Nat /\ Len(s \o t) = Len(s) + Len(t) /\ s \o t \in Seq(A)
    OBVIOUS
<1>2. Len(s) <= Len(s \o t)
    BY <1>1
<1>3. SubSeq(s, 1, Len(s)) = SubSeq(s \o t, 1, Len(s))
  <2>1. \A i \in 1..Len(s) : (s \o t)[i] = s[i]
      OBVIOUS
  <2> DEFINE z == s \o t
  <2>2. z \in Seq(A) /\ Len(s) <= Len(z) /\ \A i \in 1..Len(s) : z[i] = s[i]
      BY <1>1, <1>2, <2>1
  <2> HIDE DEF z
  <2>3. SubSeq(s, 1, Len(s)) = [i \in 1..Len(s) |-> s[i]]
      BY <1>1
  <2>4. SubSeq(z, 1, Len(s)) = [i \in 1..Len(s) |-> z[i]]
      BY <1>1, <2>2
  <2>5. [i \in 1..Len(s) |-> s[i]] = [i \in 1..Len(s) |-> z[i]]
      BY <2>2
  <2> QED BY <2>3, <2>4, <2>5 DEF z
<1> QED BY <1>2, <1>3 DEF Stream!IsPrefix

LEMMA PrefixOfThree ==
    ASSUME NEW A, NEW a \in Seq(A), NEW b \in Seq(A), NEW c \in Seq(A)
    PROVE  Stream!IsPrefix(a, (a \o b) \o c)
<1>1. (a \o b) \o c = a \o (b \o c)
    BY ConcatAssociative
<1>2. b \o c \in Seq(A)
    OBVIOUS
<1>3. Stream!IsPrefix(a, a \o (b \o c))
    BY <1>2, PrefixOfJoin
<1> QED BY <1>1, <1>3

\* The client's bytes up to a place, and their content, go on from there.
LEMMA PrefixUpTo ==
    ASSUME NEW t \in Seq(Tokens), NEW k \in 0..Len(t), NEW m \in 0..Len(t), k <= m
    PROVE  /\ Stream!IsPrefix(SubSeq(t, 1, k), SubSeq(t, 1, m))
           /\ Stream!IsPrefix(Content(SubSeq(t, 1, k)), Content(SubSeq(t, 1, m)))
<1>1. SubSeq(t, 1, k) \in Seq(Tokens) /\ SubSeq(t, k + 1, m) \in Seq(Tokens)
    BY CutOff, SubSeqIn
<1>2. SubSeq(t, 1, m) = SubSeq(t, 1, k) \o SubSeq(t, k + 1, m)
    BY SubSeqFirst
<1>3. Content(SubSeq(t, 1, m)) = Content(SubSeq(t, 1, k)) \o Content(SubSeq(t, k + 1, m))
  <2> DEFINE x == SubSeq(t, 1, k)
             y == SubSeq(t, k + 1, m)
  <2>1. x \in Seq(Tokens) /\ y \in Seq(Tokens)
      BY <1>1
  <2>2. x \o y = SubSeq(t, 1, m)
      BY <1>2
  <2> HIDE DEF x, y
  <2>3. S!Without(x \o y, NoContent) = S!Without(x, NoContent) \o S!Without(y, NoContent)
      BY <2>1, WithoutConcat
  <2>4. Content(x \o y) = Content(x) \o Content(y)
      BY <2>3 DEF Content
  <2> QED BY <2>2, <2>4 DEF x, y
<1>4. Content(SubSeq(t, 1, k)) \in Seq(Tokens) /\ Content(SubSeq(t, k + 1, m)) \in Seq(Tokens)
  <2> DEFINE x == SubSeq(t, 1, k)
             y == SubSeq(t, k + 1, m)
  <2>1. x \in Seq(Tokens) /\ y \in Seq(Tokens)
      BY <1>1
  <2> HIDE DEF x, y
  <2>2. S!Without(x, NoContent) \in Seq(Tokens)
      BY <2>1, WithoutType
  <2>3. S!Without(y, NoContent) \in Seq(Tokens)
      BY <2>1, WithoutType
  <2> QED BY <2>2, <2>3 DEF Content, x, y
<1>5. Stream!IsPrefix(SubSeq(t, 1, k), SubSeq(t, 1, k) \o SubSeq(t, k + 1, m))
    BY <1>1, PrefixOfJoin
<1>6. Stream!IsPrefix(Content(SubSeq(t, 1, k)),
                      Content(SubSeq(t, 1, k)) \o Content(SubSeq(t, k + 1, m)))
    BY <1>4, PrefixOfJoin
<1> QED BY <1>2, <1>3, <1>5, <1>6

LEMMA StreamSends ==
    ASSUME Stream!IsPrefix(Given, Given'), UNCHANGED <<Returned, Over, Spoiled>>
    PROVE  [Stream!Next]_Stream!vars
BY DEF Stream!Next, Stream!Send, Given, Returned, Over

LEMMA StreamReceives ==
    ASSUME ~Over, Stream!IsPrefix(Returned, Returned'), Stream!IsPrefix(Returned', Given),
           UNCHANGED <<Given, Over, Spoiled>>
    PROVE  [Stream!Next]_Stream!vars
BY DEF Stream!Next, Stream!Receive, Given, Returned, Over

LEMMA StreamEnds ==
    ASSUME ~Over, Over', UNCHANGED <<Given, Returned, Spoiled>>
    PROVE  [Stream!Next]_Stream!vars
BY DEF Stream!Next, Stream!End, Given, Returned, Over

LEMMA StreamStutters ==
    ASSUME UNCHANGED <<Given, Returned, Over, Spoiled>>
    PROVE  [Stream!Next]_Stream!vars
BY DEF Stream!vars, Given, Returned, Over

\* Once it is spoiled, any step is one of the stream.
LEMMA StreamSpoils ==
    ASSUME Spoiled'
    PROVE  [Stream!Next]_Stream!vars
BY DEF Stream!Next, Stream!Spoil

LEMMA NotSpoiled ==
    ASSUME ~Spoiled, ~Spoiled'
    PROVE  UNCHANGED Spoiled
BY DEF Spoiled

LEMMA SpoiledSame ==
    ASSUME UNCHANGED <<script, got, vr>>
    PROVE  UNCHANGED Spoiled
BY DEF Spoiled, NoisePassed, PaddingPassed, DataDropped

\* Before VisionReader is on, only a handshake record can spoil the stream.
LEMMA SpoiledOff ==
    ASSUME AllInv, ~vr.on
    PROVE  Spoiled <=> NoisePassed
<1>1. vr = Off
    BY DEF AllInv, DataInv, Reader
<1>2. 1..Len(vr.out) = {}
    BY <1>1 DEF Off
<1> QED BY <1>2 DEF Spoiled, PaddingPassed, DataDropped

\* What is kept of a sequence has every member that is not dropped,
LEMMA WithoutMember ==
    ASSUME NEW A, NEW s \in Seq(A), NEW drop, NEW i \in 1..Len(s), s[i] \notin drop
    PROVE  \E j \in 1..Len(S!Without(s, drop)) : S!Without(s, drop)[j] = s[i]
<1> DEFINE x == SubSeq(s, 1, i - 1)
           b == <<s[i]>>
           y == SubSeq(s, i + 1, Len(s))
<1>1. x \in Seq(A) /\ b \in Seq(A) /\ y \in Seq(A) /\ s = (x \o b) \o y
  <2>1. i - 1 \in 0..Len(s) /\ i \in 0..Len(s) /\ s[i] \in A
      OBVIOUS
  <2>2. x \in Seq(A) /\ y \in Seq(A)
      BY <2>1, CutOff
  <2>3. SubSeq(s, 1, i) = Append(x, s[i])
      OBVIOUS
  <2>4. s = SubSeq(s, 1, i) \o y
      BY <2>1, CutJoin
  <2> HIDE DEF x, y
  <2>5. Append(x, s[i]) = x \o b /\ b \in Seq(A)
      BY <2>1, <2>2, AppendIsConcat
  <2> QED BY <2>2, <2>3, <2>4, <2>5
<1>2. Len(b) = 1 /\ b[1] = s[i] /\ \A k \in 1..Len(b) : b[k] \notin drop
    OBVIOUS
<1> HIDE DEF x, b, y
<1> DEFINE u == S!Without(x, drop)
           v == S!Without(y, drop)
           z == x \o b
<1>3. S!Without(b, drop) = b
    BY <1>1, <1>2, WithoutNone
<1>4. z \in Seq(A) /\ S!Without(z, drop) = u \o b
  <2>1. S!Without(x \o b, drop) = S!Without(x, drop) \o S!Without(b, drop)
    <3>1. x \in Seq(A) /\ b \in Seq(A)
        BY <1>1
    <3> QED BY <3>1, WithoutConcat
  <2>2. x \o b \in Seq(A)
      BY <1>1
  <2> QED BY <1>3, <2>1, <2>2
<1>5. s = z \o y
    BY <1>1
<1> HIDE DEF z
<1>6. S!Without(z \o y, drop) = S!Without(z, drop) \o v
  <2>1. z \in Seq(A) /\ y \in Seq(A)
      BY <1>1, <1>4
  <2> QED BY <2>1, WithoutConcat
<1>7. u \in Seq(A) /\ v \in Seq(A)
    BY <1>1, WithoutType
<1> HIDE DEF u, v
<1>8. S!Without(s, drop) = (u \o b) \o v
    BY <1>4, <1>5, <1>6
<1>9. u \o b \in Seq(A) /\ Len(u \o b) = Len(u) + 1 /\ (u \o b)[Len(u) + 1] = b[1]
  <2>1. u \in Seq(A) /\ b \in Seq(A) /\ Len(u) \in Nat
      BY <1>1, <1>7
  <2>2. u \o b \in Seq(A) /\ Len(u \o b) = Len(u) + Len(b)
      BY <2>1
  <2>3. \A k \in 1..Len(b) : (u \o b)[Len(u) + k] = b[k]
      BY <2>1
  <2>4. 1 \in 1..Len(b)
      BY <1>2
  <2> QED BY <1>2, <2>2, <2>3, <2>4
<1> DEFINE w == u \o b
<1>10. w \in Seq(A) /\ Len(w) = Len(u) + 1 /\ Len(u) \in Nat
    BY <1>7, <1>9
<1> HIDE DEF w
<1>11. (w \o v)[Len(w)] = w[Len(w)] /\ Len(w) \in 1..Len(w \o v)
    BY <1>7, <1>10
<1>12. S!Without(s, drop) = w \o v /\ w[Len(w)] = s[i]
    BY <1>2, <1>8, <1>9, <1>10 DEF w
<1> QED BY <1>11, <1>12

\* and depends on which are dropped only.
LEMMA WithoutSame ==
    ASSUME NEW A, NEW s \in Seq(A), NEW drop, NEW other,
           \A i \in 1..Len(s) : s[i] \in drop <=> s[i] \in other
    PROVE  S!Without(s, drop) = S!Without(s, other)
<1> DEFINE m == Len(s)
<1>1. m \in Nat
    OBVIOUS
<1>2. PICK f : IsKept(f, s, drop, m) /\ S!Without(s, drop) = f[m]
    BY <1>1, WithoutIsKept
<1>3. PICK g : IsKept(g, s, other, m) /\ S!Without(s, other) = g[m]
    BY <1>1, WithoutIsKept
<1> HIDE DEF m
<1>4. IsKept(f, s, drop, m) /\ IsKept(g, s, other, m)
    BY <1>2, <1>3
<1> DEFINE good == {k \in 0..m : f[k] = g[k]}
<1>5. 0 \in good
  <2>1. f[0] = <<>> /\ g[0] = <<>>
      BY <1>1, <1>4, KeptFirst
  <2> QED BY <1>1, <2>1
<1>6. ASSUME NEW k \in 1..m, k - 1 \in good PROVE k \in good
  <2>1. f[k] = IF s[k] \in drop THEN f[k - 1] ELSE Append(f[k - 1], s[k])
      BY <1>1, <1>4, KeptNext
  <2>2. g[k] = IF s[k] \in other THEN g[k - 1] ELSE Append(g[k - 1], s[k])
      BY <1>1, <1>4, KeptNext
  <2>3. s[k] \in drop <=> s[k] \in other
      BY DEF m
  <2>4. k \in 0..m /\ f[k - 1] = g[k - 1]
      BY <1>1, <1>6
  <2> QED BY <2>1, <2>2, <2>3, <2>4
<1> HIDE DEF good
<1>7. m \in good
    BY <1>1, <1>5, <1>6, Induction
<1> QED BY <1>2, <1>3, <1>7 DEF good

\* What was passed on is content, unless padding was among it or the client's
\* first bytes were dropped.
LEMMA PassedIsContent ==
    ASSUME NEW t \in Seq(Tokens), NEW k \in 0..Len(t),
           \A j \in 1..Len(Passed(SubSeq(t, 1, k))) : Passed(SubSeq(t, 1, k))[j] # TailPad,
           \A i \in 1..k : t[i] # Lost, NEW m \in 0..k
    PROVE  /\ Passed(SubSeq(t, 1, m)) = Content(SubSeq(t, 1, m))
           /\ \A j \in 1..Len(Passed(SubSeq(t, 1, m))) : Passed(SubSeq(t, 1, m))[j] # TailPad
<1> DEFINE A == Tokens \ {TailPad, Lost}
           x == SubSeq(t, 1, k)
           y == SubSeq(t, 1, m)
<1>1. x \in Seq(Tokens) /\ Len(x) = k /\ \A i \in 1..k : x[i] = t[i]
    OBVIOUS
<1>2. /\ Len(y) = m /\ \A i \in 1..m : y[i] = t[i] /\ t[i] \in Tokens /\ i \in 1..k
    OBVIOUS
<1>3. \A j \in 1..Len(Passed(x)) : Passed(x)[j] # TailPad
    OBVIOUS
<1>4. y \in Seq(Tokens)
    OBVIOUS
<1> HIDE DEF x, y, A
<1>5. TailPad \notin Dropped
    BY DEF TailPad, Dropped, Lost
<1>6. ASSUME NEW i \in 1..k PROVE t[i] # TailPad
  <2> SUFFICES ASSUME t[i] = TailPad PROVE FALSE
      OBVIOUS
  <2>1. i \in 1..Len(x) /\ x[i] = TailPad
      BY <1>1
  <2>2. PICK j \in 1..Len(S!Without(x, Dropped)) : S!Without(x, Dropped)[j] = x[i]
      BY <1>1, <1>5, <2>1, WithoutMember
  <2> QED BY <1>3, <2>1, <2>2 DEF Passed
<1>7. \A i \in 1..Len(y) : y[i] \in A
    BY <1>2, <1>6 DEF A
<1>8. y \in Seq(A)
    BY <1>4, <1>7
<1>9. \A b \in A : b \in Dropped <=> b \in NoContent
    BY DEF A, Tokens, NoContent, Dropped
<1>10. S!Without(y, Dropped) = S!Without(y, NoContent)
    BY <1>7, <1>8, <1>9, WithoutSame
<1>11. S!Without(y, Dropped) \in Seq(A)
    BY <1>8, WithoutType
<1>12. \A j \in 1..Len(Passed(y)) : Passed(y)[j] # TailPad
  <2>1. TailPad \notin A
      BY DEF A
  <2>2. \A j \in 1..Len(Passed(y)) : Passed(y)[j] \in A
      BY <1>11 DEF Passed
  <2> QED BY <2>1, <2>2
<1> QED BY <1>10, <1>12 DEF Passed, Content, y

\* Without Vision, a step of the reader passes some more on, or ends.
LEMMA PlainReturns ==
    ASSUME AllInv, AllInv', ~useVision, UNCHANGED <<useVision, script, sent, vr>>,
           end = "no", NEW x \in Seq(Byte), got' = got \o x,
           end' = "no" \/ got' = got
    PROVE  [Stream!Next]_Stream!vars
<1>1. /\ script \in Seq(Tokens) /\ sent \in 0..Len(script)
      /\ got \in Seq(Byte) /\ got' \in Seq(Byte) /\ buf' \in Seq(Byte)
    BY DEF AllInv, UpTypes
<1>2. /\ Given' = Given /\ Returned = got /\ Returned' = got'
      /\ ~Over /\ (Over' <=> end' # "no")
    BY DEF Given, Returned, Over
<1> SUFFICES ASSUME ~Spoiled' PROVE [Stream!Next]_Stream!vars
    BY StreamSpoils
<1>5. ~NoisePassed' /\ ~NoisePassed /\ UNCHANGED Spoiled
  <2>1. ~vr.on
      BY DEF AllInv, HeaderInv
  <2>2. ~NoisePassed'
      BY DEF Spoiled
  <2>3. ~NoisePassed
      BY <1>1, <2>2, NoiseStays
  <2>4. ~Spoiled
      BY <2>1, <2>3, SpoiledOff
  <2> QED BY <2>2, <2>3, <2>4, NotSpoiled
<1>6. S!Data(got) = got /\ S!Data(got') = got'
  <2>1. S!Without(got, {Noise}) = got
      BY <1>1, <1>5, WithoutNone DEF NoisePassed
  <2>2. S!Without(got', {Noise}) = got'
    <3> DEFINE g == got'
    <3>1. g \in Seq(Byte) /\ \A i \in 1..Len(g) : g[i] \notin {Noise}
        BY <1>1, <1>5 DEF NoisePassed
    <3> HIDE DEF g
    <3>2. S!Without(g, {Noise}) = g
        BY <3>1, WithoutNone
    <3> QED BY <3>2 DEF g
  <2> QED BY <2>1, <2>2 DEF S!Data
<1>3. CASE end' = "no"
  <2>1. ~vr'.on
      BY DEF AllInv, HeaderInv
  <2>2. PICK p \in 0..sent : Arrived(p)'
      BY <1>3 DEF AllInv, DataInv
  <2>3. S!Data(got' \o buf') = SubSeq(script, 1, p)
      BY <2>1, <2>2 DEF Arrived, Stood
  <2>4. S!Data(got') = S!Data(got) \o S!Data(x)
      BY <1>1, DataConcat
  <2>5. S!Data(got' \o buf') = S!Data(got') \o S!Data(buf')
      BY <1>1, DataConcat
  <2>6. \A s \in Seq(Byte) : S!Data(s) \in Seq(Byte)
    <3> SUFFICES ASSUME NEW s \in Seq(Byte) PROVE S!Data(s) \in Seq(Byte)
        OBVIOUS
    <3>1. S!Without(s, {Noise}) \in Seq(Byte)
        BY WithoutType
    <3> QED BY <3>1 DEF S!Data
  <2>7. Stream!IsPrefix(S!Data(got), S!Data(got) \o S!Data(x))
      BY <1>1, <2>6, PrefixOfJoin
  <2>8. Stream!IsPrefix(S!Data(got'), Given)
    <3> DEFINE a == S!Data(got')
               b == S!Data(buf')
               c == SubSeq(script, p + 1, sent)
    <3>1. p \in 0..Len(script) /\ p <= sent
        BY <1>1
    <3>2. SubSeq(script, 1, p) \o c = Given
        BY <1>1, <3>1, SubSeqFirst DEF Given
    <3>3. c \in Seq(Byte)
      <4>1. SubSeq(script, p + 1, sent) \in Seq(Tokens)
          BY <1>1, <3>1, SubSeqIn
      <4> QED BY <4>1, TokenBytes
    <3>4. a \in Seq(Byte) /\ b \in Seq(Byte) /\ a \o b = SubSeq(script, 1, p)
        BY <1>1, <2>3, <2>5, <2>6
    <3> HIDE DEF a, b, c
    <3>5. Stream!IsPrefix(a, (a \o b) \o c)
        BY <3>3, <3>4, PrefixOfThree
    <3>6. Stream!IsPrefix(a, Given)
        BY <3>2, <3>4, <3>5
    <3> QED BY <3>6 DEF a
  <2>9. ~Over' /\ (Over' <=> Over)
      BY <1>2, <1>3
  <2>10. Over' = Over
      BY <1>3 DEF Over
  <2> QED BY <1>2, <1>5, <1>6, <2>4, <2>7, <2>8, <2>10, StreamReceives
<1>4. CASE end' # "no"
    BY <1>2, <1>4, <1>5, StreamEnds
<1> QED BY <1>3, <1>4

LEMMA ClientMapped ==
    ASSUME AllInv, AllInv', Client
    PROVE  [Stream!Next]_Stream!vars
<1>1. UNCHANGED <<script, got, end, useVision, vr, vend>>
    BY DEF Client, vision, S!ClientSteps, S!ClientSendsData, S!ClientSendsOther, S!ClientCloses,
           S!reader
<1>2. script \in Seq(Tokens) /\ sent \in 0..Len(script) /\ sent' \in 0..Len(script)
    BY <1>1 DEF AllInv, UpTypes
<1>3. sent <= sent'
  <2>1. CASE S!ClientSendsData
    <3>1. PICK k \in 1..MaxRecord : sent' = sent + k
        BY <2>1 DEF S!ClientSendsData
    <3> QED BY <1>2, <3>1
  <2>2. CASE ~S!ClientSendsData
    <3>1. sent' = sent
        BY <2>2 DEF Client, S!ClientSteps, S!ClientSendsOther, S!ClientCloses
    <3> QED BY <1>2, <3>1
  <2> QED BY <2>1, <2>2
<1>4. /\ Stream!IsPrefix(SubSeq(script, 1, sent), SubSeq(script, 1, sent'))
      /\ Stream!IsPrefix(Content(SubSeq(script, 1, sent)), Content(SubSeq(script, 1, sent')))
    BY <1>2, <1>3, PrefixUpTo
<1>5. Stream!IsPrefix(Given, Given')
    BY <1>1, <1>4 DEF Given
<1>6. UNCHANGED <<Returned, Over, Spoiled>>
    BY <1>1, SpoiledSame DEF Returned, Over
<1> QED BY <1>5, <1>6, StreamSends

LEMMA HeaderMapped ==
    ASSUME AllInv, AllInv', Header
    PROVE  [Stream!Next]_Stream!vars
<1>1. S!HeaderSteps /\ UNCHANGED <<useVision, vr, vend>>
    BY DEF Header, vision
<1>2. UNCHANGED <<script, sent>>
    BY <1>1 DEF S!HeaderSteps, S!HeaderTakesRecord, S!HeaderGets, S!HeaderEnds, S!LineEnds, S!client
<1>3. \E x \in Seq(Byte) : got' = got \o x /\ (end' = "no" \/ got' = got)
  <2>1. got \in Seq(Byte) /\ buf \in Seq(Byte) /\ <<>> \in Seq(Byte) /\ got \o <<>> = got
    <3>1. got \in Seq(Byte) /\ buf \in Seq(Byte)
        BY DEF AllInv, UpTypes
    <3> QED BY <3>1, TokenBytes, ConcatEmptySeq
  <2>2. CASE S!HeaderGets
    <3>1. /\ end = "no" /\ end' = "no" /\ todo # <<>>
          /\ got' = got \o SubSeq(buf, 1, S!Wanted) /\ Len(buf) >= S!Wanted
        BY <2>2 DEF S!HeaderGets
    <3>2. S!Wanted \in Nat
      <4>1. PICK i \in 0..Len(HeaderParts) : ReadUpTo(i)
          BY DEF AllInv, HeaderInv
      <4> QED BY <2>1, <3>1, <4>1, WantedPart DEF AllInv
    <3>3. S!Wanted \in 0..Len(buf)
        BY <2>1, <3>1, <3>2
    <3>4. SubSeq(buf, 1, S!Wanted) \in Seq(Byte)
        BY <2>1, <3>3, CutOff
    <3> QED BY <3>1, <3>4
  <2>3. CASE S!HeaderTakesRecord \/ S!HeaderEnds
    <3>1. got' = got
        BY <2>3 DEF S!HeaderTakesRecord, S!HeaderEnds, S!LineEnds
    <3> QED BY <2>1, <3>1
  <2> QED BY <1>1, <2>2, <2>3 DEF S!HeaderSteps
<1>4. end = "no" /\ todo # <<>>
    BY <1>1 DEF S!HeaderSteps, S!HeaderTakesRecord, S!HeaderGets, S!HeaderEnds, S!LineEnds,
                S!Takes, S!Reading
<1>5. PICK x \in Seq(Byte) : got' = got \o x /\ (end' = "no" \/ got' = got)
    BY <1>3
<1>6. CASE useVision
  <2> SUFFICES ASSUME ~Spoiled' PROVE [Stream!Next]_Stream!vars
      BY StreamSpoils
  <2>1. ~vr.on /\ got \in Seq(Byte)
      BY <1>4 DEF AllInv, HeaderInv, UpTypes
  <2>2. ~NoisePassed
    <3>1. ~NoisePassed'
        BY DEF Spoiled
    <3> QED BY <1>5, <2>1, <3>1, NoiseStays
  <2>3. UNCHANGED Spoiled
      BY <2>1, <2>2, SpoiledOff, NotSpoiled
  <2> QED BY <1>1, <1>2, <1>6, <2>3, StreamStutters DEF Given, Returned, Over
<1>7. CASE ~useVision
    BY <1>1, <1>2, <1>4, <1>5, <1>7, PlainReturns
<1>8. useVision \in BOOLEAN
    BY DEF AllInv, HeaderInv
<1> QED BY <1>6, <1>7, <1>8

LEMMA PlainMapped ==
    ASSUME AllInv, AllInv', Plain
    PROVE  [Stream!Next]_Stream!vars
<1>1. ~useVision /\ S!ReadSteps /\ UNCHANGED <<useVision, vr, vend>>
    BY DEF Plain, vision
<1>2. UNCHANGED <<script, sent>>
    BY <1>1 DEF S!ReadSteps, S!ReadBuffered, S!ReadData, S!ReadNothing, S!ReadEnds, S!LineEnds,
                S!client
<1>3. got \in Seq(Byte) /\ buf \in Seq(Byte) /\ <<>> \in Seq(Byte) /\ got \o <<>> = got
  <2>1. got \in Seq(Byte) /\ buf \in Seq(Byte)
      BY DEF AllInv, UpTypes
  <2> QED BY <2>1, TokenBytes, ConcatEmptySeq
<1>4. CASE S!ReadBuffered
  <2>1. CASE Len(buf) > BufLimit
    <3>1. got' = got /\ end = "no"
        BY <1>4, <2>1 DEF S!ReadBuffered
    <3> QED BY <1>1, <1>2, <1>3, <3>1, PlainReturns
  <2>2. CASE ~(Len(buf) > BufLimit)
    <3>1. got' = got \o SubSeq(buf, 1, S!Taken) /\ end = "no" /\ end' = "no"
        BY <1>4, <2>2 DEF S!ReadBuffered
    <3>2. S!Taken \in 0..Len(buf)
        BY <1>3, ReaderAssumption DEF S!Taken
    <3>3. SubSeq(buf, 1, S!Taken) \in Seq(Byte)
        BY <1>3, <3>2, CutOff
    <3> QED BY <1>1, <1>2, <3>1, <3>3, PlainReturns
  <2> QED BY <2>1, <2>2
<1>5. CASE S!ReadData
  <2>1. /\ wire # <<>> /\ got' = got \o Head(wire).data /\ end = "no" /\ end' = "no"
      BY <1>5 DEF S!ReadData, S!Takes
  <2>2. Head(wire).data \in Seq(Byte)
    <3>1. wire \in Seq(Sealed)
        BY DEF AllInv, UpTypes
    <3>2. Head(wire) \in Sealed
        BY <2>1, <3>1, WireHead
    <3> QED BY <3>2, SealedFields
  <2> QED BY <1>1, <1>2, <2>1, <2>2, PlainReturns
<1>6. CASE S!ReadNothing \/ S!ReadEnds
  <2>1. got' = got /\ end = "no"
      BY <1>6 DEF S!ReadNothing, S!ReadEnds, S!LineEnds, S!Takes
  <2> QED BY <1>1, <1>2, <1>3, <2>1, PlainReturns
<1> QED BY <1>1, <1>4, <1>5, <1>6 DEF S!ReadSteps

\* A read that leaves the stream unspoiled found it so, and moved the parser
\* between two places where what was passed on is content.
LEMMA ReadUnspoiled ==
    ASSUME AllInv, Read, ~Spoiled'
    PROVE  /\ ~Spoiled
           /\ \E k \in 0..sent : \E n \in k..sent :
                /\ vr.out = Content(SubSeq(script, 1, k))
                /\ vr'.out = Content(SubSeq(script, 1, n))
<1> DEFINE v == vr'
<1>1. /\ ~NoisePassed'
      /\ \A i \in 1..Len(v.out) : v.out[i] # TailPad
      /\ ~(v.on /\ ~v.first /\ script'[HeaderLen + 1] = Lost)
    BY DEF Spoiled, PaddingPassed, DataDropped
<1>2. /\ got \in Seq(Byte) /\ Head(wire).data \in Seq(Byte) /\ got' = got \o Head(wire).data
      /\ UNCHANGED <<script, sent>> /\ useVision /\ vr.on
    BY ReadNew
<1>3. /\ script \in Seq(Tokens) /\ sent \in 0..Len(script) /\ Framed(script)
      /\ v.on = TRUE
    BY <1>2, ReadSettles DEF AllInv, UpTypes, DataInv, Conforming
<1>4. ~NoisePassed
    BY <1>1, <1>2, NoiseStays
<1>5. PICK p \in 0..sent : \E q \in p..sent : \E k \in HeaderLen..p : \E n \in k..q :
          Stands(script, vr, k, p) /\ Stands(script, v, n, q)
    BY <1>1, ReadMoves
<1>6. PICK q \in p..sent : \E k \in HeaderLen..p : \E n \in k..q :
          Stands(script, vr, k, p) /\ Stands(script, v, n, q)
    BY <1>5
<1>7. PICK k \in HeaderLen..p : \E n \in k..q :
          Stands(script, vr, k, p) /\ Stands(script, v, n, q)
    BY <1>6
<1>8. PICK n \in k..q : Stands(script, vr, k, p) /\ Stands(script, v, n, q)
    BY <1>7
<1> HIDE DEF v
<1>9. /\ HeaderLen \in Nat /\ k \in 0..sent /\ n \in k..sent /\ HeaderLen <= k
      /\ n \in 0..Len(script) /\ k \in 0..n /\ n \in 0..n
  <2>1. HeaderLen \in Nat /\ Len(script) \in Nat
      BY <1>3, Parts
  <2> QED BY <1>3, <2>1
<1>10. /\ vr.out = Passed(SubSeq(script, 1, k)) /\ v.out = Passed(SubSeq(script, 1, n))
       /\ Place(script, vr, k) /\ Place(script, v, n)
    BY <1>8 DEF Stands
<1>11. ASSUME NEW i \in 1..n PROVE script[i] # Lost
  <2> SUFFICES ASSUME script[i] = Lost PROVE FALSE
      OBVIOUS
  <2>1. i \in 1..Len(script)
      BY <1>9
  <2>2. i = HeaderLen + 1
      BY <2>1, <1>3 DEF Framed
  <2>3. n # HeaderLen
      BY <1>9, <2>2
  <2>4. ~v.first
      BY <1>10, <2>3 DEF Place
  <2> QED BY <1>1, <1>2, <1>3, <2>2, <2>4
<1>12. \A i \in 1..Len(Passed(SubSeq(script, 1, n))) : Passed(SubSeq(script, 1, n))[i] # TailPad
    BY <1>1, <1>10
<1>13. v.out = Content(SubSeq(script, 1, n))
    BY <1>3, <1>9, <1>10, <1>11, <1>12, PassedIsContent
<1>14. vr.out = Content(SubSeq(script, 1, k)) /\ ~PaddingPassed
  <2>1. /\ Passed(SubSeq(script, 1, k)) = Content(SubSeq(script, 1, k))
        /\ \A j \in 1..Len(Passed(SubSeq(script, 1, k))) : Passed(SubSeq(script, 1, k))[j] # TailPad
      BY <1>3, <1>9, <1>11, <1>12, PassedIsContent
  <2> QED BY <1>10, <2>1 DEF PaddingPassed
<1>15. ~DataDropped
  <2> SUFFICES ASSUME ~vr.first, script[HeaderLen + 1] = Lost PROVE FALSE
      BY DEF DataDropped
  <2>1. k > HeaderLen
      BY <1>10 DEF Place
  <2>2. HeaderLen + 1 \in 1..n
      BY <1>9, <2>1
  <2> QED BY <1>11, <2>2
<1> QED BY <1>4, <1>9, <1>13, <1>14, <1>15 DEF Spoiled, v

LEMMA ReadMapped ==
    ASSUME AllInv, AllInv', Read
    PROVE  [Stream!Next]_Stream!vars
<1> SUFFICES ASSUME ~Spoiled' PROVE [Stream!Next]_Stream!vars
    BY StreamSpoils
<1>1. /\ vr.on /\ ~vend /\ useVision' = useVision /\ S!ReadData
      /\ vend' = (vr'.out = vr.out)
    BY DEF Read
<1>2. useVision /\ script \in Seq(Tokens) /\ sent \in 0..Len(script)
    BY <1>1 DEF AllInv, HeaderInv, UpTypes
<1>3. UNCHANGED <<script, sent>>
    BY <1>1 DEF S!ReadData, S!client
<1>4. UNCHANGED Spoiled
    BY ReadUnspoiled, NotSpoiled
<1>5. PICK k \in 0..sent : \E n \in k..sent :
          /\ vr.out = Content(SubSeq(script, 1, k))
          /\ vr'.out = Content(SubSeq(script, 1, n))
    BY ReadUnspoiled
<1>6. PICK n \in k..sent :
          /\ vr.out = Content(SubSeq(script, 1, k))
          /\ vr'.out = Content(SubSeq(script, 1, n))
    BY <1>5
<1>9. /\ k \in 0..Len(script) /\ n \in 0..Len(script) /\ k <= n /\ n <= sent
    BY <1>2
<1>10. Stream!IsPrefix(vr.out, vr'.out)
    BY <1>2, <1>6, <1>9, PrefixUpTo
<1>11. Stream!IsPrefix(vr'.out, Content(SubSeq(script, 1, sent)))
    BY <1>2, <1>6, <1>9, PrefixUpTo
<1>12. /\ Given = Content(SubSeq(script, 1, sent)) /\ Given' = Given
       /\ Returned = vr.out /\ Returned' = vr'.out /\ Over = vend /\ Over' = vend'
    BY <1>1, <1>2, <1>3 DEF Given, Returned, Over
<1>13. CASE vr'.out = vr.out
    BY <1>1, <1>4, <1>12, <1>13, StreamEnds
<1>14. CASE vr'.out # vr.out
  <2>1. vend' = FALSE /\ vend = FALSE
      BY <1>1, <1>14 DEF AllInv, HeaderInv
  <2> QED BY <1>4, <1>10, <1>11, <1>12, <2>1, StreamReceives
<1> QED BY <1>13, <1>14

LEMMA OtherMapped ==
    ASSUME AllInv, Enable \/ ReadEnds
    PROVE  [Stream!Next]_Stream!vars
<1>1. CASE Enable
  <2>1. /\ useVision /\ ~vr.on /\ vr' = [vr EXCEPT !.on = TRUE, !.buf = buf]
        /\ UNCHANGED <<script, sent, got, useVision, vend>>
      BY <1>1 DEF Enable
  <2>2. vr = Off
      BY <2>1 DEF AllInv, DataInv, Reader
  <2>3. vr'.out = vr.out /\ vr'.first = TRUE
      BY <2>1, <2>2 DEF Off
  <2>4. UNCHANGED Spoiled
      BY <2>1, <2>3 DEF Spoiled, NoisePassed, PaddingPassed, DataDropped
  <2> QED BY <2>1, <2>3, <2>4, StreamStutters DEF Given, Returned, Over
<1>2. CASE ReadEnds
  <2>1. /\ vr.on /\ ~vend /\ vend' = TRUE /\ UNCHANGED <<useVision, vr>>
        /\ (S!ReadEnds \/ S!ReadNothing)
      BY <1>2 DEF ReadEnds
  <2>2. UNCHANGED <<script, sent, got>>
      BY <2>1 DEF S!ReadEnds, S!LineEnds, S!ReadNothing, S!client
  <2>3. useVision
      BY <2>1 DEF AllInv, HeaderInv
  <2>4. UNCHANGED <<Given, Returned, Spoiled>> /\ ~Over /\ Over'
      BY <2>1, <2>2, <2>3, SpoiledSame DEF Given, Returned, Over
  <2> QED BY <2>4, StreamEnds
<1> QED BY <1>1, <1>2

\* The pipe sees a byte stream: the client's bytes, or with Vision the
\* content of its blocks and the data behind them, in their order, each once,
\* until the end is told or one of three things spoils it (Spoiled): a
\* handshake record's plaintext or the padding of the last block was passed
\* on, or 16 bytes were dropped where the user's id was looked for.
THEOREM BytesInOrder == BothSpec => ImplementsByteStream
<1>1. BothInit => Stream!Init
  <2> SUFFICES ASSUME BothInit PROVE Stream!Init
      OBVIOUS
  <2>1. sent = 0 /\ got = <<>> /\ end = "no" /\ vr = Off /\ vend = FALSE
    <3>1. CASE InitUp
        BY <3>1 DEF InitUp, Init, S!Init, S!InitWith
    <3>2. CASE InitDown
        BY <3>2 DEF InitDown, S!InitWith
    <3> QED BY <3>1, <3>2 DEF BothInit
  <2>2. vr.out = <<>>
      BY <2>1 DEF Off
  <2>3. SubSeq(script, 1, sent) = <<>>
      BY <2>1
  <2>4. <<>> \in Seq(Tokens) /\ Len(<<>>) = 0
      OBVIOUS
  <2>5. Spoiled = FALSE
    <3>1. 1..Len(got) = {} /\ 1..Len(vr.out) = {} /\ vr.on = FALSE
        BY <2>1, <2>2 DEF Off
    <3> QED BY <3>1 DEF Spoiled, NoisePassed, PaddingPassed, DataDropped
  <2>6. Content(SubSeq(script, 1, sent)) = <<>>
    <3>1. \A i \in 1..Len(<<>>) : <<>>[i] \in NoContent
        OBVIOUS
    <3>2. S!Without(<<>>, NoContent) = <<>>
        BY <2>4, <3>1, WithoutAll
    <3> QED BY <2>3, <3>2 DEF Content
  <2> QED BY <2>1, <2>2, <2>3, <2>5, <2>6 DEF Stream!Init
<1>2. AllInv /\ AllInv' /\ [BothNext]_bothVars => [Stream!Next]_Stream!vars
  <2> SUFFICES ASSUME AllInv, AllInv', [BothNext]_bothVars PROVE [Stream!Next]_Stream!vars
      OBVIOUS
  <2>1. CASE MoveUp
    <3>1. Client \/ Header \/ Plain \/ Read \/ Enable \/ ReadEnds
        BY <2>1 DEF MoveUp, Next, Server
    <3> QED BY <3>1, ClientMapped, HeaderMapped, PlainMapped, ReadMapped, OtherMapped
  <2>2. CASE UNCHANGED <<script, sent, got, end, useVision, vr, vend>>
      BY <2>2, SpoiledSame, StreamStutters DEF Given, Returned, Over
  <2>3. MoveDown => UNCHANGED <<script, sent, got, end, useVision, vr, vend>>
      BY DEF MoveDown, D!Next, D!WriteAnswer, D!WriteChunk, D!Writes
  <2> QED BY <2>1, <2>2, <2>3 DEF BothNext, bothVars, vars, vision, S!vars, S!client, S!reader
<1> QED BY <1>1, <1>2, InductiveInvariant, PTL
        DEF BothSpec, bothVars, ImplementsByteStream, Stream!Spec
=============================================================================
