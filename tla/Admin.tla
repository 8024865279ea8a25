--------------------------------- MODULE Admin ---------------------------------
(***************************************************************************)
(* The operator's side: config.json as the server and the commands of       *)
(* cli/commands.py read and write it, and the start and stop of the server. *)
(* Every command is a process of its own.  All read the file beside the     *)
(* package (PROJECT_ROOT, cli/config.py); commands, and the generator of    *)
(* utils/genconf.py, write the one in the working directory, which may or   *)
(* may not be the same, by emptying it first.                               *)
(*                                                                          *)
(* A user is a uuid.  Keys and the other fields go with the server's own.   *)
(***************************************************************************)
EXTENDS FiniteSets, Naturals

CONSTANTS
    Uuids,     \* uuids of users
    Owns,      \* uuids a generated configuration may have for its own
    Procs,     \* processes of commands at the same time
    SameDir,   \* the working directory is PROJECT_ROOT
    Alone,     \* no two processes write at the same time
    Launches,  \* how the server may be started
    MaxRuns    \* commands and starts, for TLC

Configs == [own : Owns, users : SUBSET Uuids]
None == [own |-> "none", users |-> {}]  \* no file
Torn == [own |-> "torn", users |-> {}]  \* not JSON: emptied, or mixed up
Cwd == "cwd"
Root == IF SameDir THEN Cwd ELSE "root"

VARIABLES
    files,   \* config.json in each directory
    proc,    \* the command each process runs
    server,  \* "down", "generating", "writing" or "up"
    launch,  \* how the server was started
    asked,   \* whether with noconfig
    valid,   \* uuids the server accepts
    told,    \* users that commands have reported added and not removed
    runs     \* commands and starts so far

vars == <<files, proc, server, launch, asked, valid, told, runs>>

Idle == [pc |-> "idle"]

Init ==
    /\ files \in [{Cwd, "root"} -> {None} \cup {[own |-> o, users |-> {}] : o \in Owns}]
    /\ proc = [p \in Procs |-> Idle]
    /\ server = "down" /\ launch \in Launches /\ asked = FALSE
    /\ valid = {} /\ told = {} /\ runs = 0

Whole(f) == f \notin {None, Torn}
Writing == {p \in Procs : proc[p].pc # "idle"}
MayBegin ==
    /\ runs < MaxRuns /\ runs' = runs + 1
    /\ Alone => Writing = {} /\ server \notin {"generating", "writing"}

-----------------------------------------------------------------------------
(* users add and users remove.                                             *)

\* What the command makes of the list it has read.  The default for a
\* missing list is the empty one, so the migration of a single user into the
\* list (commands.py 157-163) is never reached.
Edited(op, us, u) == IF op = "add" THEN us \cup {u} ELSE us \ {u}

\* Config.load and the edit.  A missing or torn file ends the command, and
\* so does a user who is there already, or not there.
Loads(p, op, u) ==
    /\ proc[p] = Idle /\ MayBegin
    /\ LET f == files[Root] IN
       proc' = [proc EXCEPT ![p] =
         IF Whole(f) /\ Edited(op, f.users, u) # f.users
         THEN [pc |-> "edited", op |-> op, uuid |-> u,
               data |-> [f EXCEPT !.users = Edited(op, @, u)]]
         ELSE Idle]
    /\ UNCHANGED <<files, server, launch, asked, valid, told>>

\* open(..., "w").
Truncates(p) ==
    /\ proc[p].pc = "edited"
    /\ files' = [files EXCEPT ![Cwd] = Torn]
    /\ proc' = [proc EXCEPT ![p].pc = "emptied"]
    /\ UNCHANGED <<server, launch, asked, valid, told, runs>>

\* Written over what another process wrote since the file was emptied, and
\* left torn if that was longer.
WrittenBy(cfg) ==
    {cfg} \cup IF files[Cwd] # Torn /\ files[Cwd] # cfg THEN {Torn} ELSE {}

Writes(p) ==
    /\ proc[p].pc = "emptied"
    /\ \E f \in WrittenBy(proc[p].data) : files' = [files EXCEPT ![Cwd] = f]
    /\ told' = IF proc[p].op = "add" THEN told \cup {proc[p].uuid}
                                     ELSE told \ {proc[p].uuid}
    /\ proc' = [proc EXCEPT ![p] = Idle]
    /\ UNCHANGED <<server, launch, asked, valid, runs>>

Dies(p) ==
    /\ proc[p].pc # "idle"
    /\ proc' = [proc EXCEPT ![p] = Idle]
    /\ UNCHANGED <<files, server, launch, asked, valid, told, runs>>

-----------------------------------------------------------------------------
(* The server.                                                             *)

\* Mutant: any trouble with the file is taken for its absence.
AnyTrouble(f) == ~Whole(f)

Missing(f) == f = None

\* Mutant: the list is not looked at.
OwnOnly(f) == {f.own}

\* valid_uuids: the own uuid and those of the list.
Accepted(f) == {f.own} \cup f.users

Serves(f) ==
    /\ server' = "up" /\ valid' = Accepted(f)
    /\ UNCHANGED told

Generates == server' = "generating" /\ UNCHANGED <<valid, told>>

\* main: the file of PROJECT_ROOT or, if there is none, that of the working
\* directory, which is generated when missing.  A torn file ends the process.
Starts(how) ==
    /\ server = "down" /\ MayBegin
    /\ launch' = how /\ asked' = FALSE
    /\ IF Missing(files[Root])
       THEN IF Missing(files[Cwd]) THEN Generates
            ELSE Whole(files[Cwd]) /\ Serves(files[Cwd])
       ELSE Whole(files[Root]) /\ Serves(files[Root])
    /\ UNCHANGED <<files, proc>>

\* server noconfig: a new configuration, whatever there is.
StartsNew(how) ==
    /\ server = "down" /\ MayBegin
    /\ launch' = how /\ asked' = TRUE
    /\ Generates
    /\ UNCHANGED <<files, proc>>

GenTruncates ==
    /\ server = "generating"
    /\ server' = "writing"
    /\ files' = [files EXCEPT ![Cwd] = Torn]
    /\ told' = {}
    /\ UNCHANGED <<proc, launch, asked, valid, runs>>

GenWrites ==
    /\ server = "writing"
    /\ \E o \in Owns :
         LET new == [own |-> o, users |-> {}] IN
         /\ \E f \in WrittenBy(new) : files' = [files EXCEPT ![Cwd] = f]
         /\ valid' = Accepted(new)
    /\ server' = "up"
    /\ UNCHANGED <<proc, launch, asked, told, runs>>

\* A signal, or the end of the process.
Ends ==
    /\ server # "down"
    /\ server' = "down" /\ valid' = {}
    /\ UNCHANGED <<files, proc, launch, asked, told, runs>>

\* The command that ps shows must contain "main.py server".
Found == server # "down" /\ launch = "main.py"

StopCommand ==
    /\ runs < MaxRuns /\ runs' = runs + 1
    /\ IF Found THEN server' = "down" /\ valid' = {}
                ELSE UNCHANGED <<server, valid>>
    /\ UNCHANGED <<files, proc, launch, asked, told>>

-----------------------------------------------------------------------------
Next ==
    \/ \E p \in Procs :
         \/ \E op \in {"add", "remove"}, u \in Uuids : Loads(p, op, u)
         \/ Truncates(p) \/ Writes(p) \/ Dies(p)
    \/ \E how \in Launches : Starts(how) \/ StartsNew(how)
    \/ GenTruncates \/ GenWrites \/ Ends \/ StopCommand

Spec == Init /\ [][Next]_vars

-----------------------------------------------------------------------------
TypeOK ==
    /\ files \in [{Cwd, "root"} -> Configs \cup {None, Torn}]
    /\ \A p \in Procs :
         \/ proc[p] = Idle
         \/ /\ proc[p].pc \in {"edited", "emptied"}
            /\ proc[p].op \in {"add", "remove"} /\ proc[p].uuid \in Uuids
            /\ proc[p].data \in Configs
    /\ server \in {"down", "generating", "writing", "up"} /\ launch \in Launches
    /\ asked \in BOOLEAN /\ (server = "up" <=> valid # {})
    /\ valid \subseteq Uuids \cup Owns /\ told \subseteq Uuids /\ runs \in 0..MaxRuns

\* Commands that do not overlap, and the server that starts after them, agree
\* on the users: a configuration that can be read at all holds exactly those
\* who were reported added and not removed, through crashes in the middle of
\* a save and starts of the server; and only noconfig does away with users, a
\* file that cannot be read is not taken for a missing one and replaced.
UsersAsTold ==
    /\ Whole(files[Cwd]) => files[Cwd].users = told
    /\ server = "generating" /\ ~asked => told = {}

\* users add adds a user (README_ENG.md:76): a server that starts when no
\* command runs accepts the users that were added.
AddedIsServed ==
    [][server = "down" /\ server' = "up" /\ Writing = {} => told \subseteq valid']_vars
=============================================================================
