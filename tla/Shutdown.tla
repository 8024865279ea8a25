------------------------------- MODULE Shutdown -------------------------------
(***************************************************************************)
(* The life of the server in VlessServer.run (server/server.py) under       *)
(* asyncio.run (cli/main.py): it serves until a signal sets the flag or,    *)
(* with --once, until a handler has ended; then it closes the listener,     *)
(* cancels every task, waits for the serving task, saves the statistics and *)
(* returns, and asyncio.run cancels and awaits what is left.                *)
(*                                                                          *)
(* Tasks are the handlers and the two pipes of a relay.  A cancellation is  *)
(* delivered at the next turn of the event loop.  asyncio is that of Python *)
(* 3.11 (deploy/Dockerfile): wait_closed does not wait once the listener is *)
(* closed, and wait_for may return what just arrived instead of raising,    *)
(* so that a task under it may lose its cancellation.                       *)
(***************************************************************************)
EXTENDS Integers

CONSTANTS
    Conns,      \* connections
    MaxChunks   \* chunks that all relays carry, for TLC

ASSUME ShutdownAssumption == MaxChunks \in Nat

Directions == {"up", "down"}
Tasks == Conns \X ({"handler"} \cup Directions)

VARIABLES
    main,       \* where run() is
    once,       \* one_shot: --once was given
    flag,       \* _stop_flag
    done,       \* _done
    handler,    \* state of the handler of a connection
    pipe,       \* state of the pipes of a connection
    cancelled,  \* tasks that have a cancellation to receive
    gathered,   \* tasks that asyncio.run waits for
    lost,       \* tasks that went on past a cancellation
    counted,    \* chunks the statistics have counted
    saved       \* chunks in the statistics when they were last saved

vars == <<main, once, flag, done, handler, pipe, cancelled, gathered, lost,
          counted, saved>>
conn == <<handler, pipe, cancelled, lost, counted>>
mainVars == <<main, once, flag, gathered, saved>>

Init ==
    /\ main = "serving" /\ once \in BOOLEAN /\ flag = FALSE /\ done = FALSE
    /\ handler = [c \in Conns |-> "none"]
    /\ pipe = [c \in Conns |-> [d \in Directions |-> "none"]]
    /\ cancelled = {} /\ gathered = {} /\ lost = {}
    /\ counted = 0 /\ saved = 0

Other(d) == IF d = "up" THEN "down" ELSE "up"
Live(t) == IF t[2] = "handler" THEN handler[t[1]] \notin {"none", "ended"}
                               ELSE pipe[t[1]][t[2]] = "running"
Runs(t) == main # "off" /\ Live(t) /\ t \notin cancelled
Receives(t) == main # "off" /\ Live(t) /\ t \in cancelled

-----------------------------------------------------------------------------
(* Handlers.                                                               *)

To(c, state) == handler' = [handler EXCEPT ![c] = state]

\* The finally clause of handle_client.
DoneAfter(c) == done \/ once

Accept(c) ==
    /\ main = "serving" /\ handler[c] = "none"
    /\ To(c, "timed")
    /\ UNCHANGED <<pipe, cancelled, lost, counted, done, mainVars>>

\* A banned address: the handler returns before the try.
AcceptBanned(c) ==
    /\ main = "serving" /\ handler[c] = "none"
    /\ To(c, "ended")
    /\ UNCHANGED <<pipe, cancelled, lost, counted, done, mainVars>>

\* A connection accepted just before the listener closed; its handler starts
\* after the tasks were cancelled and finds its stream closed.
AcceptLate(c) ==
    /\ main \in {"stopping", "saved"} /\ handler[c] = "none"
    /\ To(c, "late")
    /\ UNCHANGED <<pipe, cancelled, lost, counted, done, mainVars>>

\* wrap_server ends well: the VLESS header is awaited without a timer.
Handshakes(c) ==
    /\ Runs(<<c, "handler">>) /\ handler[c] = "timed"
    /\ To(c, "untimed")
    /\ UNCHANGED <<pipe, cancelled, lost, counted, done, mainVars>>

StartsRelay(c) ==
    /\ Runs(<<c, "handler">>) /\ handler[c] = "untimed"
    /\ To(c, "relaying")
    /\ pipe' = [pipe EXCEPT ![c] = [d \in Directions |-> "running"]]
    /\ UNCHANGED <<cancelled, lost, counted, done, mainVars>>

\* Any return or exception before the relay.
Returns(c) ==
    /\ Runs(<<c, "handler">>) /\ handler[c] \in {"timed", "untimed", "late"}
    /\ To(c, "ended")
    /\ done' = DoneAfter(c)
    /\ UNCHANGED <<pipe, cancelled, lost, counted, mainVars>>

\* The first pipe has ended: the other one is cancelled and awaited.
FirstPipeEnded(c) ==
    /\ Runs(<<c, "handler">>) /\ handler[c] = "relaying"
    /\ \E d \in Directions : pipe[c][d] = "ended"
    /\ To(c, "closing")
    /\ cancelled' = cancelled \cup
         {<<c, d>> : d \in {d \in Directions : pipe[c][d] = "running"}}
    /\ UNCHANGED <<pipe, lost, counted, done, mainVars>>

\* Mutant: the cancelled pipe is not awaited.
PipeNotAwaited(c) ==
    /\ Runs(<<c, "handler">>) /\ handler[c] = "closing"
    /\ To(c, "flushing")
    /\ UNCHANGED <<pipe, cancelled, lost, counted, done, mainVars>>

BothPipesEnded(c) ==
    /\ Runs(<<c, "handler">>) /\ handler[c] = "closing"
    /\ \A d \in Directions : pipe[c][d] = "ended"
    /\ To(c, "flushing")
    /\ UNCHANGED <<pipe, cancelled, lost, counted, done, mainVars>>

\* wait_closed of both writers.
Flushed(c) ==
    /\ Runs(<<c, "handler">>) /\ handler[c] = "flushing"
    /\ To(c, "ended")
    /\ done' = DoneAfter(c)
    /\ UNCHANGED <<pipe, cancelled, lost, counted, mainVars>>

\* The handler is cancelled where it waits.
HandlerCancelled(c) ==
    /\ Receives(<<c, "handler">>) /\ handler[c] # "closing"
    /\ To(c, "ended")
    /\ done' = DoneAfter(c)
    /\ cancelled' = cancelled \ {<<c, "handler">>}
    /\ UNCHANGED <<pipe, lost, counted, mainVars>>

\* In the timed part wait_for may lose it.
HandlerLosesCancel(c) ==
    /\ Receives(<<c, "handler">>) /\ handler[c] = "timed"
    /\ cancelled' = cancelled \ {<<c, "handler">>}
    /\ lost' = lost \cup {<<c, "handler">>}
    /\ UNCHANGED <<handler, pipe, counted, done, mainVars>>

\* While it awaits the other pipe, the handler passes the cancellation on to
\* it and takes its own for the pipe's.
HandlerSwallowsCancel(c) ==
    /\ Receives(<<c, "handler">>) /\ handler[c] = "closing"
    /\ cancelled' = (cancelled \ {<<c, "handler">>}) \cup
         {<<c, d>> : d \in {d \in Directions : pipe[c][d] = "running"}}
    /\ lost' = lost \cup {<<c, "handler">>}
    /\ UNCHANGED <<handler, pipe, counted, done, mainVars>>

-----------------------------------------------------------------------------
(* Pipes.                                                                  *)

PipeEnd(c, d) == pipe' = [pipe EXCEPT ![c][d] = "ended"]

\* A chunk is read, counted and written.
Counts(c, d) ==
    /\ Runs(<<c, d>>) /\ counted < MaxChunks
    /\ counted' = counted + 1
    /\ UNCHANGED <<handler, pipe, cancelled, lost, done, mainVars>>

\* End of stream, reset, or idle_timeout.
PipeEnds(c, d) ==
    /\ Runs(<<c, d>>)
    /\ PipeEnd(c, d)
    /\ UNCHANGED <<handler, cancelled, lost, counted, done, mainVars>>

PipeCancelled(c, d) ==
    /\ Receives(<<c, d>>)
    /\ PipeEnd(c, d)
    /\ cancelled' = cancelled \ {<<c, d>>}
    /\ UNCHANGED <<handler, lost, counted, done, mainVars>>

\* wait_for returns the chunk that was just read.
PipeLosesCancel(c, d) ==
    /\ Receives(<<c, d>>) /\ counted < MaxChunks
    /\ cancelled' = cancelled \ {<<c, d>>}
    /\ lost' = lost \cup {<<c, d>>}
    /\ counted' = counted + 1
    /\ UNCHANGED <<handler, pipe, done, mainVars>>

-----------------------------------------------------------------------------
(* run() and asyncio.run.                                                  *)

Signal ==
    /\ main # "off" /\ ~flag
    /\ flag' = TRUE
    /\ UNCHANGED <<main, once, done, gathered, saved, conn>>

\* Mutant: the pipes are not cancelled with the handlers.
HandlersOnly == {t \in Tasks : Live(t) /\ t[2] = "handler"}

\* asyncio.all_tasks.
AllTasks == {t \in Tasks : Live(t)}

\* Mutant: the loop looks at the flag only.
StopOnSignal ==
    /\ main = "serving" /\ flag
    /\ main' = "stopping"
    /\ cancelled' = cancelled \cup AllTasks
    /\ UNCHANGED <<once, flag, done, gathered, saved, handler, pipe, lost, counted>>

\* The loop of 0.3 seconds sees the flag or, with --once, the event.  The
\* rest is done without a pause.
Stop ==
    /\ main = "serving" /\ (flag \/ (once /\ done))
    /\ main' = "stopping"
    /\ cancelled' = cancelled \cup AllTasks
    /\ UNCHANGED <<once, flag, done, gathered, saved, handler, pipe, lost, counted>>

\* The serving task has ended, or its second is over.
FinalSave ==
    /\ main = "stopping"
    /\ main' = "saved"
    /\ saved' = counted
    /\ UNCHANGED <<once, flag, done, gathered, conn>>

\* asyncio.run cancels the tasks that are left and gathers them.
RunReturns ==
    /\ main = "saved"
    /\ main' = "leaving"
    /\ cancelled' = cancelled \cup AllTasks
    /\ gathered' = AllTasks
    /\ UNCHANGED <<once, flag, done, saved, handler, pipe, lost, counted>>

Exit ==
    /\ main = "leaving"
    /\ \A t \in gathered : ~Live(t)
    /\ main' = "off"
    /\ UNCHANGED <<once, flag, done, gathered, saved, conn>>

-----------------------------------------------------------------------------
MainSteps == Stop \/ FinalSave \/ RunReturns \/ Exit
Delivers(c) ==
    \/ HandlerCancelled(c) \/ HandlerSwallowsCancel(c)
    \/ \E d \in Directions : PipeCancelled(c, d)
\* What a timer ends, or the loop does next.
Timed(c) ==
    \/ handler[c] \in {"timed", "late"} /\ Returns(c)
    \/ FirstPipeEnded(c) \/ BothPipesEnded(c) \/ Flushed(c)
    \/ \E d \in Directions : PipeEnds(c, d)
Others(c) ==
    \/ Accept(c) \/ AcceptBanned(c) \/ AcceptLate(c)
    \/ Handshakes(c) \/ StartsRelay(c) \/ Returns(c)
    \/ HandlerLosesCancel(c)
    \/ \E d \in Directions : Counts(c, d) \/ PipeLosesCancel(c, d)

Next ==
    \/ MainSteps \/ Signal
    \/ \E c \in Conns : Delivers(c) \/ Timed(c) \/ Others(c)

Spec == Init /\ [][Next]_vars

\* The event loop runs what is ready and delivers what was cancelled, the
\* timers of handshakes and pipes fire, and a peer reads at last or goes.  No
\* timer covers the VLESS header.
Fairness ==
    /\ WF_vars(MainSteps)
    /\ \A c \in Conns : WF_vars(Delivers(c)) /\ WF_vars(Timed(c))

FairSpec == Spec /\ Fairness

-----------------------------------------------------------------------------
TypeOK ==
    /\ main \in {"serving", "stopping", "saved", "leaving", "off"}
    /\ {once, flag, done} \subseteq BOOLEAN
    /\ handler \in [Conns -> {"none", "timed", "untimed", "late", "relaying",
                              "closing", "flushing", "ended"}]
    /\ pipe \in [Conns -> [Directions -> {"none", "running", "ended"}]]
    /\ cancelled \subseteq Tasks /\ gathered \subseteq Tasks /\ lost \subseteq Tasks
    /\ counted \in 0..MaxChunks /\ saved \in 0..counted
    /\ \A t \in cancelled : Live(t)
    /\ \A c \in Conns : handler[c] = "flushing" => \A d \in Directions : pipe[c][d] = "ended"

\* The save at shutdown (server.py:180) is the last word on the traffic:
\* nothing is counted after it, unless a task went on past its cancellation.
SavedAtLast ==
    main \in {"saved", "leaving", "off"} /\ counted # saved => lost # {}

\* A header awaited by a handler that lost the cancellation of asyncio.run.
Stuck ==
    \E c \in Conns :
        handler[c] = "untimed" /\ <<c, "handler">> \in lost \cap gathered

\* After a signal, or with --once after any connection has been dealt with,
\* the process ends, whatever its connections were doing; only a handler that
\* lost its cancellation in the handshake can hold it up.
StopsCleanly == (flag \/ (once /\ done)) ~> (main = "off" \/ Stuck)
=============================================================================
