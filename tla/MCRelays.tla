------------------------------ MODULE MCRelays ------------------------------
(* Small instances of Relays: sizes and frames. *)
EXTENDS Relays

\* A request of one chunk and an answer of two.
Chunks == [up |-> 1, down |-> 2]

\* Both kinds of frames on both sides of the sizes at which the guess turns.
AllFrames ==
    [kind : {"new"}, n : {0, 1, 30}, head : {5, 9, 38}, id : {0}]
    \cup [kind : {"keep"}, n : {0, 7, 8, 30}, head : {0}, id : {0}]
OneFrame == [kind : {"new"}, n : {30}, head : {5}, id : {0}]
=============================================================================
