------------------------------ MODULE Expiry -------------------------------
(***************************************************************************)
(* Queues whose entries are appended in time order and expire from the      *)
(* front: "while the oldest is too old, pop it".  The anti-replay cache     *)
(* (core/reality.py) and the attempt windows of the rate limiter            *)
(* (utils/guard.py) are both kept this way.                                 *)
(***************************************************************************)
EXTENDS Integers, Sequences

\* The loop stops at the first entry that is not expired, or past the end.
FirstLive(q, expired) ==
    CHOOSE i \in (1..(Len(q) + 1)) \ expired :
        \A j \in (1..(Len(q) + 1)) \ expired : i <= j

\* What the loop leaves of q when the entries at the indices in expired are
\* too old: an expired entry behind a live one stays.
DropExpired(q, expired) == SubSeq(q, FirstLive(q, expired), Len(q))
=============================================================================
