----------------------------- MODULE Operations -----------------------------
(***************************************************************************)
(* What happens around the connections: the life of the server, the log     *)
(* file, the operator's commands, and the choice of a destination for       *)
(* foreign clients.  The four share no state, so a behaviour moves one of   *)
(* them, and the others stay at a fixed initial state.                      *)
(***************************************************************************)
EXTENDS Shutdown, Sequences

CONSTANTS
    BackupCount, MaxBytes, Every, LineSizes, MaxGens, MaxStarts, MaxFaults,
    Uuids, Owns, Procs, SameDir, Alone, Launches, MaxRuns,
    Keys, Tables, Names, Dests, Portless, Default

\* There are backups (3 in the code).
ASSUME BackupAssumption == BackupCount \in Nat \ {0}
\* The words that stand for no file and for one that is not JSON are no uuids.
ASSUME AdminAssumption ==
    /\ Owns \cap {"none", "torn"} = {}
    /\ SameDir \in BOOLEAN /\ Alone \in BOOLEAN
    /\ MaxRuns \in Nat
\* A name that was split at its dots has a label; a table may be any function
\* from keys to destinations.  The provers have to be told that a star is a
\* string; TLC checks it like the rest.
ASSUME RoutesAssumption ==
    /\ Keys \cup Names \subseteq [labels : Seq(STRING) \ {<<>>}, upper : BOOLEAN]
    /\ "*" \in STRING
    /\ Default \in Dests
    /\ \A t \in Tables : DOMAIN t \subseteq Keys /\ t \in [DOMAIN t -> Dests]

VARIABLES
    part,
    file, lines, current, size, backups, pc, slot, gens, gone, starts, faults,
    broken,
    files, proc, server, launch, asked, valid, told, runs,
    routes, sni, dialed

L == INSTANCE LogRotate
A == INSTANCE Admin
R == INSTANCE SniRouting

-----------------------------------------------------------------------------
Moves(p) == part = p /\ UNCHANGED part
LogStands ==
    UNCHANGED <<file, lines, current, size, backups, pc, slot, gens, gone,
                starts, faults, broken>>
UsersStand == UNCHANGED <<files, proc, server, launch, asked, valid, told, runs>>
RoutesStand == UNCHANGED <<routes, sni, dialed>>

AllInit ==
    /\ part \in {"life", "log", "users", "routes"}
    /\ Init /\ (part # "life" => ~once)
    /\ L!Init
    /\ A!Init /\ (part # "users" =>
            /\ files = [d \in {"cwd", "root"} |-> A!None]
            /\ launch = "module")
    /\ IF part = "routes" THEN R!Init
       ELSE routes = <<>> /\ sni = R!NoName /\ dialed = {}

MoveLife == Moves("life") /\ Next /\ LogStands /\ UsersStand /\ RoutesStand
MoveLog == Moves("log") /\ L!Next /\ UNCHANGED vars /\ UsersStand /\ RoutesStand
MoveUsers == Moves("users") /\ A!Next /\ UNCHANGED vars /\ LogStands /\ RoutesStand
MoveRoutes == Moves("routes") /\ R!Next /\ UNCHANGED vars /\ LogStands /\ UsersStand

AllNext == MoveLife \/ MoveLog \/ MoveUsers \/ MoveRoutes

allVars == <<vars, part, file, lines, current, size, backups, pc, slot, gens,
             gone, starts, faults, broken, files, proc, server, launch, asked,
             valid, told, runs, routes, sni, dialed>>

\* The fairness of Shutdown; where another part moves it asks for nothing,
\* since none of its actions is enabled at Shutdown's initial state.
AllSpec == AllInit /\ [][AllNext]_allVars /\ Fairness

\* Each part's variables hold what its code can put there.
AllTypesOK == TypeOK /\ L!TypeOK /\ A!TypeOK /\ R!TypeOK

\* Rotations keep the newest generations of the log, in order.
NewestKept == L!NewestKept

\* The users on file are those that commands have reported.
UsersAsTold == A!UsersAsTold

\* A server that starts accepts the users that were added.
AddedIsServed == A!AddedIsServed

\* The most specific route that applies is taken.
MostSpecific == R!MostSpecific
=============================================================================
