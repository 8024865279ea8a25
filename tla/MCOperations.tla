---------------------------- MODULE MCOperations ----------------------------
(* Small instances of Operations: connections, users, tables of routes. *)
EXTENDS Operations, FiniteSetsExt

Pair == {1, 2}
Short == {1, 2}

AllLaunches == {"main.py", "module", "script"}
Twins == {"p", "q"}
Three == {"a", "b", "c"}
TwoOwns == {"s", "t"}

Labels == {"a", "b"}
Dotted == UNION {[1..n -> Labels] : n \in 1..3}
Starred == {<<"*">> \o s : s \in UNION {[1..n -> Labels] : n \in 1..2}}
AllNames == {[labels |-> s, upper |-> u] : s \in Dotted, u \in BOOLEAN}
SomeKeys ==
    {[labels |-> s, upper |-> FALSE] : s \in Dotted \cup Starred}
    \cup {[labels |-> <<"a">>, upper |-> TRUE], [labels |-> <<"*">>, upper |-> FALSE]}
ManyDests == {"mask", "one", "two"}
\* All tables of up to two routes.
SmallTables ==
    UNION {[ks -> ManyDests] : ks \in UNION {kSubset(k, SomeKeys) : k \in 0..2}}
Bare == {"two"}
=============================================================================
