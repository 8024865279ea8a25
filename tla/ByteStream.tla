----------------------------- MODULE ByteStream -----------------------------
(***************************************************************************)
(* What a one-way byte stream promises, whatever carries it: the receiver   *)
(* gets the bytes that were sent, in their order, each once and no others,  *)
(* until it is told that the stream is over or something spoils the stream. *)
(* VisionReader, over SecureReader, is shown to implement it, and says what *)
(* spoils it there.                                                         *)
(***************************************************************************)
EXTENDS SequencesExt

VARIABLES
    sent,   \* the bytes sent so far
    got,    \* the bytes received so far
    ended,  \* the receiver was told that there is no more
    spoiled \* the receiver got a byte that was not sent, or missed one

vars == <<sent, got, ended, spoiled>>

Init == sent = <<>> /\ got = <<>> /\ ended = FALSE /\ spoiled = FALSE

Send ==
    /\ IsPrefix(sent, sent')
    /\ UNCHANGED <<got, ended, spoiled>>

Receive ==
    /\ ~ended
    /\ IsPrefix(got, got') /\ IsPrefix(got', sent)
    /\ UNCHANGED <<sent, ended, spoiled>>

\* The end is told once; nothing is received after it.
End ==
    /\ ~ended /\ ended'
    /\ UNCHANGED <<sent, got, spoiled>>

\* From here on nothing is promised.
Spoil == spoiled'

Next == Send \/ Receive \/ End \/ Spoil

Spec == Init /\ [][Next]_vars
=============================================================================
