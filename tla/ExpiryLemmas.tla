---------------------------- MODULE ExpiryLemmas ----------------------------
(* What the front-expiry loop of module Expiry does, for every queue. *)
EXTENDS Expiry, WellFoundedInduction, SequenceTheorems, TLAPS

\* A non-empty set of naturals has a least element.
LEMMA LeastNat ==
    ASSUME NEW T \in SUBSET Nat, T # {}
    PROVE  \E x \in T : \A y \in T : x <= y
<1> DEFINE R == OpToRel(<, Nat)
<1>1. IsWellFoundedOn(R, Nat)
  BY NatLessThanWellFounded
<1> HIDE DEF R
<1>2. PICK x \in T : \A y \in T : ~(<<y, x>> \in R)
  BY <1>1, WFMin
<1>3. ASSUME NEW y \in T PROVE x <= y
  <2>1. ~(<<y, x>> \in R)
    BY <1>2
  <2>2. <<y, x>> \in Nat \X Nat
    OBVIOUS
  <2>3. ~(y < x)
    BY <2>1, <2>2 DEF R, OpToRel
  <2> QED BY <2>3
<1> QED BY <1>3

\* The loop stops: everything before its stopping point is expired, and
\* what it stops at, if anything, is not.
LEMMA FirstLiveProperties ==
    ASSUME NEW S, NEW q \in Seq(S), NEW expired \in SUBSET (1..Len(q))
    PROVE  /\ FirstLive(q, expired) \in 1..(Len(q) + 1)
           /\ FirstLive(q, expired) \notin expired
           /\ \A j \in 1..(FirstLive(q, expired) - 1) : j \in expired
<1> DEFINE T == (1..(Len(q) + 1)) \ expired
<1>1. Len(q) \in Nat
  BY LenProperties
<1>2. T \in SUBSET Nat /\ Len(q) + 1 \in T
  BY <1>1
<1>3. \E x \in T : \A y \in T : x <= y
  <2> HIDE DEF T
  <2> QED BY <1>2, LeastNat
<1>4. /\ FirstLive(q, expired) \in T
      /\ \A y \in T : FirstLive(q, expired) <= y
  BY <1>3 DEF FirstLive
<1> QED BY <1>1, <1>4

\* The loop leaves a suffix: it drops only expired entries, keeps the order
\* of the others, and the new front, if there is one, is not expired.
LEMMA DropExpiredProperties ==
    ASSUME NEW S, NEW q \in Seq(S), NEW expired \in SUBSET (1..Len(q))
    PROVE  \E d \in 0..Len(q) :
             /\ DropExpired(q, expired) \in Seq(S)
             /\ Len(DropExpired(q, expired)) = Len(q) - d
             /\ \A i \in 1..(Len(q) - d) :
                    DropExpired(q, expired)[i] = q[i + d]
             /\ 1..d \subseteq expired
             /\ d + 1 \notin expired
<1> DEFINE k == FirstLive(q, expired)
<1>1. Len(q) \in Nat
  BY LenProperties
<1>2. /\ k \in 1..(Len(q) + 1)
      /\ k \notin expired
      /\ \A j \in 1..(k - 1) : j \in expired
  BY FirstLiveProperties
<1> HIDE DEF k
<1>3. DropExpired(q, expired) = SubSeq(q, k, Len(q))
  BY DEF DropExpired, k
<1>4. /\ SubSeq(q, k, Len(q)) \in Seq(S)
      /\ Len(SubSeq(q, k, Len(q))) = Len(q) - (k - 1)
      /\ \A i \in 1..(Len(q) - (k - 1)) : SubSeq(q, k, Len(q))[i] = q[i + (k - 1)]
  BY <1>1, <1>2, SubSeqProperties
<1>5. k - 1 \in 0..Len(q) /\ 1..(k - 1) \subseteq expired /\ (k - 1) + 1 \notin expired
  BY <1>1, <1>2
<1> USE <1>5
<1> WITNESS k - 1 \in 0..Len(q)
<1> QED BY <1>3, <1>4
=============================================================================
