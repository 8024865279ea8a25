------------------------------ MODULE SniRouting ------------------------------
(***************************************************************************)
(* SniRouter.resolve (core/sni_routing.py) and what the fallback does with  *)
(* its answer (core/tls13.py): the destination that stands in for the       *)
(* server, chosen by the name a foreign client asks for.                    *)
(*                                                                          *)
(* A name is the sequence of its labels; "upper" says that it has a capital *)
(* letter.  In the keys of the routes a "*" before other labels is a wildcard. *)
(***************************************************************************)
EXTENDS Integers, Sequences, SequencesExt

CONSTANTS
    Keys,     \* keys that routes may have
    Tables,   \* the sni_routes that a configuration may have, over these keys
    Names,    \* names that clients may ask for
    Dests,    \* destinations
    Portless, \* those written without a port
    Default   \* cfg["dest"]

NoName == [labels |-> <<>>, upper |-> FALSE]

VARIABLES
    routes,  \* sni_routes
    sni,     \* the name of the last hello, NoName without one
    dialed   \* {} before it and when the connection was closed

vars == <<routes, sni, dialed>>

-----------------------------------------------------------------------------
Lower(labels) == [labels |-> labels, upper |-> FALSE]
Wildcard(labels, i) == Lower(<<"*">> \o SubSeq(labels, i + 1, Len(labels)))

\* Mutant: the widest wildcard first.
Widest(is) == CHOOSE i \in is : \A j \in is : i >= j

\* The loop takes the first one.
Chosen(is) == CHOOSE i \in is : \A j \in is : i <= j

\* parts[i:], for i from 1.
Cuts(labels) == 1..Len(labels) - 1

Resolve(name) ==
    LET labels == name.labels
        exact == Lower(labels)
        wild == {i \in Cuts(labels) : Wildcard(labels, i) \in DOMAIN routes}
    IN IF name = NoName THEN Default
       ELSE IF exact \in DOMAIN routes THEN routes[exact]
       ELSE IF wild # {} THEN routes[Wildcard(labels, Chosen(wild))]
       ELSE Default

\* host, port = dest.rsplit(":", 1); the connection is closed if that fails.
Dial(dest) == IF dest \in Portless THEN {} ELSE {dest}

-----------------------------------------------------------------------------
Init ==
    /\ routes \in Tables
    /\ sni = NoName /\ dialed = {}

\* A hello of a client that is not let in, with or without a name.
Hello ==
    /\ sni' \in Names \cup {NoName}
    /\ dialed' = Dial(Resolve(sni'))
    /\ UNCHANGED routes

\* What is not a TLS hello goes to the default.
NoTls ==
    /\ sni' = NoName
    /\ dialed' = Dial(Default)
    /\ UNCHANGED routes

Next == Hello \/ NoTls
Spec == Init /\ [][Next]_vars

-----------------------------------------------------------------------------
(* What routes mean.                                                       *)

Stands(key, name) ==
    \/ key.labels = name.labels
    \/ /\ key.labels[1] = "*" /\ Len(key.labels) \in 2..Len(name.labels)
       /\ IsSuffix(Tail(key.labels), name.labels)

Applying == {key \in DOMAIN routes : Stands(key, sni)}

\* An exact key, or else the longest wildcard.
Best(key) ==
    \A other \in Applying :
        \/ key.labels = sni.labels
        \/ other.labels # sni.labels /\ Len(other.labels) <= Len(key.labels)

Meant ==
    IF Applying = {} THEN {Default}
    ELSE {routes[key] : key \in {key \in Applying : Best(key)}}

Answered == sni # NoName /\ dialed # {}

TypeOK ==
    /\ DOMAIN routes \subseteq Keys /\ sni \in Names \cup {NoName}
    /\ dialed \subseteq Dests \ Portless

\* Where the keys have no capitals, a client is sent where the most specific
\* route that applies to its name says, in whatever case it asks, and to the
\* default if none applies; a wildcard stands for one label or more.
MostSpecific ==
    (\A key \in DOMAIN routes : ~key.upper) /\ Answered => dialed \subseteq Meant
=============================================================================
