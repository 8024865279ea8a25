------------------------------- MODULE Relay --------------------------------
(***************************************************************************)
(* The TCP relay of an admitted VLESS connection (server/server.py): the    *)
(* two _pipe tasks between the client and the remote host, and the handler  *)
(* that waits for the first of them to end, cancels the other and closes    *)
(* both streams.                                                            *)
(*                                                                          *)
(* A direction carries chunks, one per read; they are numbered, so a count  *)
(* says which.  A socket of the server has a write buffer that the peer's   *)
(* reading drains.  asyncio's streams are modelled from how the code uses   *)
(* them: close() stops reading at once and closes when the buffer has been  *)
(* flushed; after that the reader sees the end of the stream.               *)
(***************************************************************************)
EXTENDS Integers

CONSTANTS
    MaxChunks,    \* chunks each direction carries at most, for TLC
    IdleTimeout,  \* cfg["idle_timeout"], in ticks
    HighWater     \* chunks in a write buffer before drain() blocks

Ends == {"client", "remote"}
Dirs == {"up", "down"}

ASSUME RelayAssumption ==
    /\ MaxChunks \in [Dirs -> Nat]
    /\ IdleTimeout \in Nat \ {0} /\ HighWater \in Nat

\* The two pipes: "up" from the client, "down" from the remote host.
Src(d) == IF d = "up" THEN "client" ELSE "remote"
Dst(d) == IF d = "up" THEN "remote" ELSE "client"
Other(d) == IF d = "up" THEN "down" ELSE "up"
Into(e) == IF e = "remote" THEN "up" ELSE "down"
From(e) == IF e = "client" THEN "up" ELSE "down"

VARIABLES
    peer,       \* what each peer does: "open", "half" (has sent FIN), "gone"
    sock,       \* the server's socket to it: "open", "closing", "closed"
    input,      \* its StreamReader: "live", "eof", "reset"
    sent,       \* chunks of a direction that reached the StreamReader
    taken,      \* chunks its pipe has read
    billed,     \* chunks added to the user's counters
    unsent,     \* chunks in the destination's write buffer
    delivered,  \* chunks the destination has received
    pipe,       \* each pipe: "read", "drain", "ended"
    why,        \* how it ended
    cancelled,  \* a cancellation it has not seen yet
    quiet,      \* ticks since its wait_for began
    pending,    \* the pipes asyncio.wait returned as pending
    handler     \* "wait", "cancel", "close", "done"

vars == <<peer, sock, input, sent, taken, billed, unsent, delivered,
          pipe, why, cancelled, quiet, pending, handler>>
net == <<peer, sock, input, sent, unsent, delivered>>
pipes == <<taken, billed, pipe, why, cancelled, quiet>>
task == <<pending, handler>>

Init ==
    /\ peer = [e \in Ends |-> "open"]
    /\ sock = [e \in Ends |-> "open"]
    /\ input = [e \in Ends |-> "live"]
    /\ sent = [d \in Dirs |-> 0] /\ taken = sent /\ billed = sent
    /\ unsent = sent /\ delivered = sent
    /\ pipe = [d \in Dirs |-> "read"]
    /\ why = [d \in Dirs |-> "none"]
    /\ cancelled = [d \in Dirs |-> FALSE]
    /\ quiet = [d \in Dirs |-> 0]
    /\ pending = {}
    /\ handler = "wait"

-----------------------------------------------------------------------------
(* The peers and their connections.                                         *)

PeerSends(e) ==
    /\ peer[e] = "open" /\ sock[e] = "open" /\ input[e] = "live"
    /\ sent[From(e)] < MaxChunks[From(e)]
    /\ sent' = [sent EXCEPT ![From(e)] = @ + 1]
    /\ UNCHANGED <<peer, sock, input, unsent, delivered, pipes, task>>

\* The peer reads: the write buffer of its socket gets shorter.
PeerReads(e) ==
    /\ peer[e] # "gone" /\ sock[e] # "closed"
    /\ unsent[Into(e)] > 0
    /\ unsent' = [unsent EXCEPT ![Into(e)] = @ - 1]
    /\ delivered' = [delivered EXCEPT ![Into(e)] = @ + 1]
    /\ UNCHANGED <<peer, sock, input, sent, pipes, task>>

\* The peer is done sending and goes on reading.
PeerHalfCloses(e) ==
    /\ peer[e] = "open"
    /\ peer' = [peer EXCEPT ![e] = "half"]
    /\ input' = [input EXCEPT ![e] = IF @ = "live" /\ sock[e] = "open"
                                     THEN "eof" ELSE @]
    /\ UNCHANGED <<sock, sent, unsent, delivered, pipes, task>>

\* The connection to the peer is lost, in order or by a reset; what was
\* still in the write buffer goes with it.
PeerGoes(e) ==
    /\ peer[e] # "gone"
    /\ peer' = [peer EXCEPT ![e] = "gone"]
    /\ sock' = [sock EXCEPT ![e] = "closed"]
    /\ \E how \in {"eof", "reset"} :
         input' = [input EXCEPT ![e] = IF sock[e] # "closed" THEN how ELSE @]
    /\ unsent' = [unsent EXCEPT ![Into(e)] = 0]
    /\ UNCHANGED <<sent, delivered, pipes, task>>

\* A socket that is closing has flushed its buffer.
SocketCloses(e) ==
    /\ sock[e] = "closing" /\ unsent[Into(e)] = 0
    /\ sock' = [sock EXCEPT ![e] = "closed"]
    /\ input' = [input EXCEPT ![e] = IF @ = "live" THEN "eof" ELSE @]
    /\ UNCHANGED <<peer, sent, unsent, delivered, pipes, task>>

-----------------------------------------------------------------------------
(* _pipe.                                                                   *)

\* Mutant: abort() instead of close().
Aborted(s, e) == [s EXCEPT ![e] = "closed"]

\* writer.close()
Closed(s, e) == [s EXCEPT ![e] = IF @ = "open" THEN "closing" ELSE @]

\* Leaving the loop, whatever the reason: the finally clause closes the
\* destination.
Finally(d, reason) ==
    /\ pipe' = [pipe EXCEPT ![d] = "ended"]
    /\ why' = [why EXCEPT ![d] = reason]
    /\ sock' = Closed(sock, Dst(d))
    /\ UNCHANGED <<peer, input, sent, unsent, delivered, quiet, task>>

\* Leaving it outside of a write.
End(d, reason) == Finally(d, reason) /\ UNCHANGED <<taken, billed, cancelled>>

\* read() has something to return.
Readable(d) == pipe[d] = "read" /\ taken[d] < sent[d] /\ input[Src(d)] # "reset"

\* Mutant: the chunk is not billed.
PipeForwardsFree(d) ==
    /\ Readable(d)
    /\ taken' = [taken EXCEPT ![d] = @ + 1]
    /\ unsent' = [unsent EXCEPT ![d] = IF sock[Dst(d)] = "open" THEN @ + 1 ELSE @]
    /\ cancelled' = [cancelled EXCEPT ![d] = FALSE]
    /\ pipe' = [pipe EXCEPT ![d] = "drain"]
    /\ UNCHANGED <<peer, sock, input, sent, delivered, billed, why, quiet, task>>

\* A chunk is read, billed and written, with no suspension in between.  A
\* write to a socket that is no longer open is dropped.  If a cancellation
\* arrives when the read has already completed, wait_for returns the data
\* and the cancellation is lost (Python 3.10 and 3.11).
PipeForwards(d) ==
    /\ Readable(d)
    /\ taken' = [taken EXCEPT ![d] = @ + 1]
    /\ billed' = [billed EXCEPT ![d] = @ + 1]
    /\ unsent' = [unsent EXCEPT ![d] = IF sock[Dst(d)] = "open" THEN @ + 1 ELSE @]
    /\ cancelled' = [cancelled EXCEPT ![d] = FALSE]
    /\ pipe' = [pipe EXCEPT ![d] = "drain"]
    /\ UNCHANGED <<peer, sock, input, sent, delivered, why, quiet, task>>

\* A chunk of the remote host is longer than the client's writer can frame:
\* struct.error, raised after the chunk was billed and not caught.
PipeWriteFails(d) ==
    /\ d = "down" /\ Readable(d)
    /\ taken' = [taken EXCEPT ![d] = @ + 1]
    /\ billed' = [billed EXCEPT ![d] = @ + 1]
    /\ cancelled' = [cancelled EXCEPT ![d] = FALSE]
    /\ Finally(d, "unwritten")

\* drain() returns and the next wait_for starts its timer.
PipeDrains(d) ==
    /\ pipe[d] = "drain" /\ ~cancelled[d]
    /\ sock[Dst(d)] # "closed" /\ unsent[d] <= HighWater
    /\ pipe' = [pipe EXCEPT ![d] = "read"]
    /\ quiet' = [quiet EXCEPT ![d] = 0]
    /\ UNCHANGED <<net, taken, billed, why, cancelled, task>>

\* read() returns b"" at the end of the stream.
PipeEof(d) ==
    /\ pipe[d] = "read" /\ input[Src(d)] = "eof" /\ taken[d] = sent[d]
    /\ End(d, "eof")

\* Reading the source or drain() raises the error of a lost connection.
Lost(d) ==
    \/ pipe[d] = "read" /\ input[Src(d)] = "reset"
    \/ pipe[d] = "drain" /\ sock[Dst(d)] = "closed"

\* ConnectionResetError or BrokenPipeError is caught.
PipeReset(d) == Lost(d) /\ End(d, "reset")

\* Mutant: read() without a timeout.
PipeNeverIdle(d) == FALSE /\ End(d, "idle")

\* The timer of wait_for runs out, possibly just after data has arrived.
PipeIdle(d) ==
    /\ pipe[d] = "read" /\ quiet[d] = IdleTimeout
    /\ End(d, "idle")

\* Any other exception of read() or drain() is not caught and ends the task: a
\* record of the client that does not decrypt, or another OSError.
PipeFails(d) ==
    /\ \/ d = "up" /\ Readable(d)
       \/ Lost(d)
    /\ End(d, "error")

PipeCancelled(d) ==
    /\ pipe[d] # "ended" /\ cancelled[d]
    /\ End(d, "cancelled")

\* Time passes for the pipes that wait; a timer that is due stops it.
Tick ==
    /\ \E d \in Dirs : pipe[d] = "read"
    /\ \A d \in Dirs : pipe[d] = "read" => quiet[d] < IdleTimeout
    /\ quiet' = [d \in Dirs |-> IF pipe[d] = "read" THEN quiet[d] + 1 ELSE quiet[d]]
    /\ UNCHANGED <<net, taken, billed, pipe, why, cancelled, task>>

-----------------------------------------------------------------------------
(* The handler.                                                             *)

\* asyncio.wait returns: the pipe that is still pending is cancelled.
HandlerWakes ==
    /\ handler = "wait"
    /\ \E d \in Dirs : pipe[d] = "ended"
    /\ pending' = {d \in Dirs : pipe[d] # "ended"}
    /\ cancelled' = [d \in Dirs |-> d \in pending']
    /\ handler' = "cancel"
    /\ UNCHANGED <<net, taken, billed, pipe, why, quiet>>

\* Mutant: the cancelled pipe is not awaited.
HandlerHurries ==
    /\ handler = "cancel"
    /\ sock' = Closed(Closed(sock, "remote"), "client")
    /\ handler' = "close"
    /\ UNCHANGED <<peer, input, sent, unsent, delivered, pipes, pending>>

\* How a pipe ends that raises an exception.
Raising == {"error", "unwritten"}

\* The pending pipe has ended, cancelled or in its own way: both writers are
\* closed.
HandlerCloses ==
    /\ handler = "cancel"
    /\ \A d \in pending : pipe[d] = "ended" /\ why[d] \notin Raising
    /\ sock' = Closed(Closed(sock, "remote"), "client")
    /\ handler' = "close"
    /\ UNCHANGED <<peer, input, sent, unsent, delivered, pipes, pending>>

\* The pending pipe lost its cancellation and then failed: "await t" raises
\* what it raised, past the closing of the writers.
HandlerFails ==
    /\ handler = "cancel"
    /\ \E d \in pending : pipe[d] = "ended" /\ why[d] \in Raising
    /\ handler' = "done"
    /\ UNCHANGED <<net, pipes, pending>>

\* wait_closed() of both.
HandlerDone ==
    /\ handler = "close"
    /\ \A e \in Ends : sock[e] = "closed"
    /\ handler' = "done"
    /\ UNCHANGED <<net, pipes, pending>>

-----------------------------------------------------------------------------
PipeSteps(d) ==
    \/ PipeForwards(d) \/ PipeWriteFails(d) \/ PipeDrains(d) \/ PipeEof(d)
    \/ PipeReset(d) \/ PipeIdle(d) \/ PipeFails(d) \/ PipeCancelled(d)

HandlerSteps == HandlerWakes \/ HandlerCloses \/ HandlerFails \/ HandlerDone

Next ==
    \/ \E e \in Ends : \/ PeerSends(e) \/ PeerReads(e) \/ PeerHalfCloses(e)
                       \/ PeerGoes(e) \/ SocketCloses(e)
    \/ \E d \in Dirs : PipeSteps(d)
    \/ HandlerSteps
    \/ Tick

\* The event loop runs every task and timer that is ready.  A peer that is
\* owed data reads it sooner or later, or its connection is lost: of the code
\* this is an assumption, for drain() and wait_closed() have no timer.  Nothing
\* makes a peer send or close.
FairTasks ==
    /\ \A d \in Dirs : WF_vars(PipeSteps(d))
    /\ WF_vars(HandlerSteps)
    /\ \A e \in Ends : WF_vars(PeerReads(e)) /\ WF_vars(SocketCloses(e))

Fairness == FairTasks /\ WF_vars(Tick)

Spec == Init /\ [][Next]_vars /\ Fairness

-----------------------------------------------------------------------------
(* Properties.                                                              *)

TypeOK ==
    /\ peer \in [Ends -> {"open", "half", "gone"}]
    /\ sock \in [Ends -> {"open", "closing", "closed"}]
    /\ input \in [Ends -> {"live", "eof", "reset"}]
    /\ {sent, taken, billed, delivered, unsent} \subseteq [Dirs -> Nat]
    /\ \A d \in Dirs :
         /\ sent[d] <= MaxChunks[d] /\ taken[d] <= sent[d]
         /\ delivered[d] + unsent[d] <= taken[d]
         /\ unsent[d] <= HighWater + 1
    /\ pipe \in [Dirs -> {"read", "drain", "ended"}]
    /\ why \in [Dirs -> {"none", "eof", "reset", "idle", "error", "unwritten",
                     "cancelled"}]
    /\ cancelled \in [Dirs -> BOOLEAN]
    /\ quiet \in [Dirs -> 0..IdleTimeout]
    /\ handler \in {"wait", "cancel", "close", "done"}
    /\ pending \subseteq Dirs

\* The chunk of a write that raised.
Unwritten(d) == IF why[d] = "unwritten" THEN 1 ELSE 0

\* What reaches a peer has been billed, and until its connection is lost all
\* that has been billed is delivered or waits in the write buffer, however the
\* relay ends, but for the one chunk whose write raised.
BillingExact ==
    \A d \in Dirs :
        /\ delivered[d] + unsent[d] <= billed[d]
        /\ peer[Dst(d)] # "gone" =>
             delivered[d] + unsent[d] + Unwritten(d) = billed[d]

\* When the handler is past its wait both pipes are over and neither socket
\* is left open, although it may end by an exception before it closes them.
DoneMeansStopped ==
    handler \in {"close", "done"} =>
        /\ \A d \in Dirs : pipe[d] = "ended"
        /\ \A e \in Ends : sock[e] # "open"

\* A stream whose end the pipe has seen is delivered whole, unless its
\* receiver goes away: cancelling the other pipe and closing both sockets
\* does not cut off its tail.  It speaks of the end that read() reports: the
\* client's readers also report one for a connection lost inside a record
\* (tls13.py 583-586) or while Vision reads (vision.py 47-54), for an alert and
\* for an empty record (tls13.py 587-594).
EofDelivered ==
    \A d \in Dirs :
        why[d] = "eof" ~> (delivered[d] = sent[d] \/ peer[Dst(d)] = "gone")

\* Once the peers have no more to say, the idle timers end the relay; and
\* however it ends, the handler finishes with both sockets closed.
EndsAndCloses == <>[](handler = "done" /\ \A e \in Ends : sock[e] = "closed")

\* README.md:188: idle_timeout is the idle time of the connection.  A relay
\* that still carries traffic one way is not idle.
IdleMeansIdle ==
    [][\A d \in Dirs :
         PipeIdle(d) => \/ quiet[Other(d)] = IdleTimeout
                       \/ pipe[Other(d)] = "ended"]_vars
=============================================================================
