---------------------------- MODULE RelaysProofs ----------------------------
(***************************************************************************)
(* Proofs about the three relays: for TCP, types, the account of what is    *)
(* billed and delivered, and that nothing is left running or open behind    *)
(* the handler's wait; for XUDP, that a datagram is what its frame means    *)
(* but for the two kinds the parser gets wrong; for UDP without XUDP, that  *)
(* every datagram is one frame's payload.  For any number of chunks and     *)
(* frames, any sizes, buffers and timeouts.                                 *)
(*                                                                          *)
(* BillingExact needs to know that a chunk is billed when it is taken, and   *)
(* that a pipe that runs writes to an open socket or to a lost connection;  *)
(* DoneMeansStopped that a pipe closes its destination when it ends and     *)
(* that the handler has waited for all that was not over when it woke;      *)
(* FramesIntact where in the client's stream each task reads.               *)
(***************************************************************************)
EXTENDS Relays, TLAPS

-----------------------------------------------------------------------------
(* The TCP relay.                                                          *)

TcpTypes ==
    /\ peer \in [Ends -> {"open", "half", "gone"}]
    /\ sock \in [Ends -> {"open", "closing", "closed"}]
    /\ input \in [Ends -> {"live", "eof", "reset"}]
    /\ sent \in [Dirs -> Nat] /\ taken \in [Dirs -> Nat]
    /\ billed \in [Dirs -> Nat] /\ delivered \in [Dirs -> Nat]
    /\ unsent \in [Dirs -> Nat]
    /\ pipe \in [Dirs -> {"read", "drain", "ended"}]
    /\ why \in [Dirs -> {"none", "eof", "reset", "idle", "error", "unwritten",
                     "cancelled"}]
    /\ cancelled \in [Dirs -> BOOLEAN]
    /\ quiet \in [Dirs -> 0..IdleTimeout]
    /\ handler \in {"wait", "cancel", "close", "done"}
    /\ pending \subseteq Dirs

\* The account of a direction.
Account ==
    \A d \in Dirs :
        /\ sent[d] <= MaxChunks[d] /\ taken[d] <= sent[d]
        /\ billed[d] = taken[d]
        /\ delivered[d] + unsent[d] <= billed[d]
        /\ pipe[d] # "ended" =>
             why[d] = "none" /\ (sock[Dst(d)] = "open" \/ peer[Dst(d)] = "gone")
        /\ peer[Dst(d)] # "gone" =>
             delivered[d] + unsent[d] + Unwritten(d) = billed[d]

\* drain() returns when the buffer is below the mark, and a read adds one.
Buffers ==
    \A d \in Dirs :
        /\ unsent[d] <= HighWater + 1
        /\ pipe[d] = "read" => unsent[d] <= HighWater

\* What has ended stays behind the handler.
Stopped ==
    /\ \A d \in Dirs : pipe[d] = "ended" => sock[Dst(d)] # "open"
    /\ handler # "wait" => /\ pending # Dirs
                           /\ \A d \in Dirs \ pending : pipe[d] = "ended"
    /\ handler \in {"close", "done"} => \A d \in Dirs : pipe[d] = "ended"

TcpInv == TcpTypes /\ Account /\ Buffers /\ Stopped

-----------------------------------------------------------------------------
\* Each direction has a destination of its own.
LEMMA DirEnds ==
    /\ \A d \in Dirs : Src(d) \in Ends /\ Dst(d) \in Ends
    /\ \A e \in Ends : Into(e) \in Dirs /\ From(e) \in Dirs /\ Dst(Into(e)) = e
    /\ \A d \in Dirs : Into(Dst(d)) = d
    /\ \A e \in Ends : \E d \in Dirs : Dst(d) = e
  BY DEF Dirs, Ends, Src, Dst, Into, From

\* The invariant holds in the beginning.
LEMMA TcpInit == Init => TcpInv
<1> SUFFICES ASSUME Init PROVE TcpInv
  OBVIOUS
<1>1. TcpTypes
  BY RelayAssumption DEF Init, TcpTypes
<1>2. Account /\ Buffers
  BY DirEnds, RelayAssumption DEF Init, Account, Buffers, Unwritten
<1>3. Stopped
  BY DEF Init, Stopped
<1> QED BY <1>1, <1>2, <1>3 DEF TcpInv

-----------------------------------------------------------------------------
\* The steps of a peer and of its connection keep it.
LEMMA TcpPeers ==
    ASSUME TcpInv, NEW e \in Ends,
           \/ PeerSends(e) \/ PeerReads(e) \/ PeerHalfCloses(e)
           \/ PeerGoes(e) \/ SocketCloses(e)
    PROVE  TcpInv'
<1> USE DirEnds, RelayAssumption DEF TcpInv, pipes, task
<1>1. CASE PeerSends(e)
  <2>1. TcpTypes'
    BY <1>1 DEF PeerSends, TcpTypes
  <2>2. Account'
    BY <1>1 DEF PeerSends, TcpTypes, Account, Unwritten
  <2>3. Buffers' /\ Stopped'
    BY <1>1 DEF PeerSends, Buffers, Stopped
  <2> QED BY <2>1, <2>2, <2>3
<1>2. CASE PeerReads(e)
  <2>1. TcpTypes'
    BY <1>2 DEF PeerReads, TcpTypes
  <2>2. Account'
    BY <1>2 DEF PeerReads, TcpTypes, Account, Unwritten
  <2>3. Buffers' /\ Stopped'
    BY <1>2 DEF PeerReads, TcpTypes, Buffers, Stopped
  <2> QED BY <2>1, <2>2, <2>3
<1>3. CASE PeerHalfCloses(e)
  <2>1. TcpTypes'
    BY <1>3 DEF PeerHalfCloses, TcpTypes
  <2>2. Account' /\ Buffers' /\ Stopped'
    BY <1>3 DEF PeerHalfCloses, Account, Unwritten, Buffers, Stopped
  <2> QED BY <2>1, <2>2
<1>4. CASE PeerGoes(e)
  <2>1. TcpTypes'
    BY <1>4 DEF PeerGoes, TcpTypes
  <2>2. Account'
    BY <1>4 DEF PeerGoes, TcpTypes, Account, Unwritten
  <2>3. Buffers' /\ Stopped'
    BY <1>4 DEF PeerGoes, TcpTypes, Buffers, Stopped
  <2> QED BY <2>1, <2>2, <2>3
<1>5. CASE SocketCloses(e)
  <2>1. TcpTypes'
    BY <1>5 DEF SocketCloses, TcpTypes
  <2>2. Account'
    BY <1>5 DEF SocketCloses, TcpTypes, Account, Unwritten
  <2>3. Buffers' /\ Stopped'
    BY <1>5 DEF SocketCloses, TcpTypes, Buffers, Stopped
  <2> QED BY <2>1, <2>2, <2>3
<1> QED BY <1>1, <1>2, <1>3, <1>4, <1>5

-----------------------------------------------------------------------------
\* A pipe that ends closes its destination, in a write that raises or not, and
\* keeps the invariant.
LEMMA TcpEndKeeps ==
    ASSUME TcpInv, NEW d \in Dirs, pipe[d] # "ended",
           \/ \E reason \in {"eof", "reset", "idle", "error", "cancelled"} :
                End(d, reason)
           \/ PipeWriteFails(d)
    PROVE  TcpInv'
<1> USE DirEnds DEF TcpInv
<1>1. PICK reason \in {"eof", "reset", "idle", "error", "unwritten", "cancelled"} :
        /\ Finally(d, reason)
        /\ \/ reason # "unwritten" /\ UNCHANGED <<taken, billed, cancelled>>
           \/ reason = "unwritten" /\ PipeWriteFails(d)
  BY DEF End, PipeWriteFails
<1>2. /\ sock' \in [Ends -> {"open", "closing", "closed"}]
      /\ sock'[Dst(d)] # "open"
      /\ \A e \in Ends \ {Dst(d)} : sock'[e] = sock[e]
      /\ \A e \in Ends : sock'[e] = "open" => sock[e] = "open"
  BY <1>1 DEF Finally, Closed, TcpTypes
<1>3. /\ taken' \in [Dirs -> Nat] /\ billed' \in [Dirs -> Nat]
      /\ cancelled' \in [Dirs -> BOOLEAN]
      /\ \A c \in Dirs \ {d} : taken'[c] = taken[c] /\ billed'[c] = billed[c]
  <2>1. CASE UNCHANGED <<taken, billed, cancelled>>
      BY <2>1 DEF TcpTypes
  <2>2. CASE PipeWriteFails(d)
    <3>1. /\ taken' = [taken EXCEPT ![d] = taken[d] + 1]
          /\ billed' = [billed EXCEPT ![d] = billed[d] + 1]
          /\ cancelled' = [cancelled EXCEPT ![d] = FALSE]
        BY <2>2 DEF PipeWriteFails
    <3>2. \A n \in Nat : n + 1 \in Nat
        OBVIOUS
    <3> QED BY <3>1, <3>2 DEF TcpTypes
  <2> QED BY <1>1, <2>1, <2>2
<1>4. /\ taken'[d] <= sent[d] /\ billed'[d] = taken'[d]
      /\ billed'[d] = billed[d] + (IF reason = "unwritten" THEN 1 ELSE 0)
  <2>1. taken[d] \in Nat /\ sent[d] \in Nat /\ taken[d] <= sent[d] /\ billed[d] = taken[d]
      BY DEF TcpTypes, Account
  <2>2. CASE reason # "unwritten"
      BY <2>1, <2>2, <1>1
  <2>3. CASE reason = "unwritten"
    <3>1. taken[d] < sent[d] /\ taken'[d] = taken[d] + 1 /\ billed'[d] = billed[d] + 1
        BY <2>3, <1>1 DEF PipeWriteFails, Readable, TcpTypes
    <3> QED BY <2>1, <2>3, <3>1
  <2> QED BY <2>2, <2>3
<1>5. /\ pipe' = [pipe EXCEPT ![d] = "ended"] /\ why' = [why EXCEPT ![d] = reason]
      /\ UNCHANGED <<peer, input, sent, unsent, delivered, quiet, task>>
  BY <1>1 DEF Finally
<1>6. TcpTypes'
  BY <1>2, <1>3, <1>5 DEF TcpTypes, task
<1>7. Account'
  <2> SUFFICES ASSUME NEW c \in Dirs
               PROVE  /\ sent'[c] <= MaxChunks[c] /\ taken'[c] <= sent'[c]
                      /\ billed'[c] = taken'[c]
                      /\ delivered'[c] + unsent'[c] <= billed'[c]
                      /\ pipe'[c] # "ended" =>
                           /\ why'[c] = "none"
                           /\ sock'[Dst(c)] = "open" \/ peer'[Dst(c)] = "gone"
                      /\ peer'[Dst(c)] # "gone" =>
                           delivered'[c] + unsent'[c] + Unwritten(c)' = billed'[c]
      BY DEF Account
  <2>1. CASE c = d
      BY <2>1, <1>3, <1>4, <1>5 DEF Account, TcpTypes, Unwritten
  <2>2. CASE c # d
    <3>1. Dst(c) # Dst(d)
        BY <2>2
    <3> QED BY <2>2, <3>1, <1>2, <1>3, <1>5 DEF Account, TcpTypes, Unwritten
  <2> QED BY <2>1, <2>2
<1>8. Buffers'
  BY <1>5 DEF TcpTypes, Buffers
<1>9. Stopped'
  BY <1>2, <1>5 DEF TcpTypes, Stopped, task
<1> QED BY <1>6, <1>7, <1>8, <1>9

\* The steps of a pipe keep it.
LEMMA TcpPipes ==
    ASSUME TcpInv, NEW d \in Dirs, PipeSteps(d)
    PROVE  TcpInv'
<1>1. CASE PipeForwards(d)
  <2> USE DirEnds, RelayAssumption DEF TcpInv
  <2>1. TcpTypes'
    BY <1>1 DEF PipeForwards, Readable, TcpTypes, task
  <2>2. Account'
    BY <1>1 DEF PipeForwards, Readable, TcpTypes, Account, Unwritten
  <2>3. Buffers'
    BY <1>1 DEF PipeForwards, Readable, TcpTypes, Buffers
  <2>4. Stopped'
    BY <1>1 DEF PipeForwards, Readable, TcpTypes, Stopped, task
  <2> QED BY <2>1, <2>2, <2>3, <2>4
<1>2. CASE PipeDrains(d)
  <2> USE DirEnds, RelayAssumption DEF TcpInv
  <2>1. TcpTypes'
    BY <1>2 DEF PipeDrains, TcpTypes, net, task
  <2>2. Account' /\ Buffers'
    BY <1>2 DEF PipeDrains, TcpTypes, Account, Unwritten, Buffers, net
  <2>3. Stopped'
    BY <1>2 DEF PipeDrains, TcpTypes, Stopped, net, task
  <2> QED BY <2>1, <2>2, <2>3
<1>3. CASE PipeWriteFails(d)
  BY <1>3, TcpEndKeeps DEF PipeWriteFails, Readable
<1>4. CASE PipeEof(d) \/ PipeReset(d) \/ PipeIdle(d) \/ PipeFails(d) \/ PipeCancelled(d)
  <2>1. \E reason \in {"eof", "reset", "idle", "error", "cancelled"} : End(d, reason)
      BY <1>4 DEF PipeEof, PipeReset, PipeIdle, PipeFails, PipeCancelled
  <2>2. pipe[d] # "ended"
      BY <1>4 DEF PipeEof, PipeReset, PipeIdle, PipeFails, PipeCancelled, Lost, Readable
  <2> QED BY <2>1, <2>2, TcpEndKeeps
<1> QED BY <1>1, <1>2, <1>3, <1>4 DEF PipeSteps

\* The steps of the handler, and time, keep it.
LEMMA TcpHandler ==
    ASSUME TcpInv, HandlerSteps \/ Tick
    PROVE  TcpInv'
<1> USE DirEnds, RelayAssumption DEF TcpInv
<1>1. CASE HandlerWakes
  <2>1. TcpTypes'
    BY <1>1 DEF HandlerWakes, TcpTypes, net
  <2>2. Account' /\ Buffers'
    BY <1>1 DEF HandlerWakes, Account, Unwritten, Buffers, net
  <2>3. Stopped'
    BY <1>1 DEF HandlerWakes, Stopped, net
  <2> QED BY <2>1, <2>2, <2>3
<1>2. CASE HandlerCloses
  <2>1. /\ sock' \in [Ends -> {"open", "closing", "closed"}]
        /\ \A e \in Ends : sock'[e] # "open"
    BY <1>2 DEF HandlerCloses, Closed, TcpTypes, Ends
  <2>2. TcpTypes'
    BY <1>2, <2>1 DEF HandlerCloses, TcpTypes, pipes
  <2>3. Account' /\ Buffers'
    BY <1>2, <2>1 DEF HandlerCloses, Stopped, Account, Unwritten, Buffers, pipes
  <2>4. Stopped'
    BY <1>2, <2>1 DEF HandlerCloses, Stopped, pipes
  <2> QED BY <2>2, <2>3, <2>4
<1>3. CASE HandlerFails
  <2>1. TcpTypes' /\ Account' /\ Buffers'
    BY <1>3 DEF HandlerFails, TcpTypes, Account, Unwritten, Buffers, net, pipes
  <2>2. \A d \in Dirs : pipe[d] = "ended"
    <3>1. PICK d \in pending : pipe[d] = "ended"
      BY <1>3 DEF HandlerFails
    <3>2. PICK e \in Dirs : e \notin pending
      BY <1>3 DEF HandlerFails, Stopped, TcpTypes
    <3>3. pipe[e] = "ended" /\ d \in Dirs /\ d # e
      BY <1>3, <3>1, <3>2 DEF HandlerFails, Stopped, TcpTypes
    <3> QED BY <3>1, <3>3 DEF Dirs
  <2>3. Stopped'
    BY <1>3, <2>2 DEF HandlerFails, Stopped, net, pipes
  <2> QED BY <2>1, <2>3
<1>4. CASE HandlerDone
  BY <1>4 DEF HandlerDone, TcpTypes, Account, Unwritten, Buffers, Stopped, net, pipes
<1>5. CASE Tick
  <2>1. quiet' \in [Dirs -> 0..IdleTimeout]
    BY <1>5 DEF Tick, TcpTypes
  <2>2. TcpTypes'
    BY <1>5, <2>1 DEF Tick, TcpTypes, net, task
  <2>3. Account' /\ Buffers' /\ Stopped'
    BY <1>5 DEF Tick, Account, Unwritten, Buffers, Stopped, net, task
  <2> QED BY <2>2, <2>3
<1> QED BY <1>1, <1>2, <1>3, <1>4, <1>5 DEF HandlerSteps

\* Every step of the TCP relay keeps it.
LEMMA TcpNext == TcpInv /\ Next => TcpInv'
BY TcpPeers, TcpPipes, TcpHandler DEF Next

LEMMA TcpStands == TcpInv /\ UNCHANGED vars => TcpInv'
BY DEF vars, TcpInv, TcpTypes, Account, Unwritten, Buffers, Stopped

-----------------------------------------------------------------------------
(* The XUDP relay.                                                         *)

\* What the parser makes of a frame, in the terms of SentAsMeant.
LEMMA ParsedIs ==
    ASSUME NEW f \in Frames
    PROVE  /\ X!Parsed(f) = X!NoFrame <=> X!ShortKeep(f)
           /\ X!Parsed(f) # X!NoFrame => X!Parsed(f).len \in Nat
           /\ ~X!ShortKeep(f) /\ ~X!Ambiguous(f) => X!Parsed(f) = X!Meant(f)
<1>1. f.kind \in {"new", "keep"} /\ f.n \in Nat /\ f.head \in Nat /\ GidLen \in Nat
    BY XudpAssumption
<1> DEFINE p == X!Parsed(f)
<1>2. CASE f.kind = "new"
  <2>1. X!Left(f) = GidLen + 2 + f.n /\ X!Head2(f) = f.head
      BY <1>2 DEF X!Left, X!Head2
  <2>2. p = IF f.head = GidLen + f.n THEN [skip |-> 2, len |-> f.head]
            ELSE [skip |-> GidLen + 2, len |-> f.n]
      BY <1>1, <2>1 DEF X!Parsed
  <2>3. p.len \in Nat /\ p # X!NoFrame
      BY <1>1, <2>2 DEF X!NoFrame
  <2>4. X!Meant(f) = [skip |-> GidLen + 2, len |-> f.n]
      BY <1>1, <2>1 DEF X!Meant
  <2> QED BY <1>2, <2>2, <2>3, <2>4 DEF X!ShortKeep, X!Ambiguous
<1>3. CASE f.kind = "keep"
  <2>1. X!Left(f) = 2 + f.n /\ X!Head2(f) = f.n
      BY <1>3 DEF X!Left, X!Head2
  <2>2. p = IF f.n >= GidLen THEN [skip |-> 2, len |-> f.n] ELSE X!NoFrame
      BY <1>1, <2>1 DEF X!Parsed
  <2>3. f.n >= GidLen => p.len \in Nat /\ p # X!NoFrame
      BY <1>1, <2>2 DEF X!NoFrame
  <2>4. X!Meant(f) = [skip |-> 2, len |-> f.n]
      BY <1>1, <2>1 DEF X!Meant
  <2> QED BY <1>1, <1>3, <2>2, <2>3, <2>4 DEF X!ShortKeep
<1> QED BY <1>1, <1>2, <1>3

\* One frame is read, parsed once, and sent at most once.
XudpInv ==
    /\ frames \in Seq(Frames) /\ Len(frames) <= MaxFrames
    /\ xTaken \in {0, 1} /\ (xTaken = 1 => frames # <<>>)
    /\ phase \in {"header", "resolve", "send", "recv", "drain", "loop", "over", "refused"}
    /\ phase = "header" <=> xTaken = 0
    /\ phase = "refused" <=> xTaken = 1 /\ X!Parsed(frames[1]) = X!NoFrame
    /\ \/ sentUdp = <<>>
       \/ /\ phase \in {"recv", "drain", "loop", "over"}
          /\ sentUdp = <<[frame |-> 1, parsed |-> X!Parsed(frames[1])]>>
    /\ xInbox \in 0..came /\ came \in 0..MaxReplies /\ waited \in 0..Wait

LEMMA XudpInvMeans == XudpInv => X!TypeOK /\ SentAsMeant
<1> SUFFICES ASSUME XudpInv PROVE X!TypeOK /\ SentAsMeant
    OBVIOUS
<1>1. frames # <<>> => Len(frames) \in Nat \ {0} /\ frames[1] \in Frames
    BY DEF XudpInv
<1>2. frames = <<>> => Len(frames) = 0
    OBVIOUS
<1>3. \A i \in DOMAIN sentUdp :
        /\ sentUdp[i].parsed = X!Parsed(frames[1])
        /\ xTaken = 1 /\ frames[1] \in Frames /\ X!Parsed(frames[1]) # X!NoFrame
    BY <1>1 DEF XudpInv
<1>4. X!TypeOK
  <2>1. xTaken \in 0..1 /\ xTaken <= Len(frames)
      BY <1>1, <1>2 DEF XudpInv
  <2>2. \A i \in DOMAIN sentUdp : sentUdp[i].parsed.len \in Nat
      BY <1>3, ParsedIs
  <2> QED BY <2>1, <2>2 DEF XudpInv, X!TypeOK, X!done
<1>5. SentAsMeant
  <2>1. \A i \in DOMAIN sentUdp :
          ~X!Ambiguous(frames[1]) => sentUdp[i].parsed = X!Meant(frames[1])
      BY <1>3, ParsedIs
  <2>2. phase = "refused" <=> xTaken = 1 /\ X!ShortKeep(frames[1])
      BY <1>1, ParsedIs DEF XudpInv
  <2> QED BY <2>1, <2>2 DEF SentAsMeant, X!SentAsMeant
<1> QED BY <1>4, <1>5

LEMMA XudpInit == X!Init => XudpInv
<1> SUFFICES ASSUME X!Init PROVE XudpInv
    OBVIOUS
<1>1. frames \in Seq(Frames) /\ Len(frames) = 0
    BY DEF X!Init
<1> QED BY <1>1, XudpAssumption, LegacyAssumption DEF X!Init, XudpInv

\* A step of the client, of the server, of the host or of time.
LEMMA XudpNext == XudpInv /\ X!Next => XudpInv'
<1> SUFFICES ASSUME XudpInv, X!Next PROVE XudpInv'
    OBVIOUS
<1> USE XudpAssumption, LegacyAssumption DEF XudpInv
<1>1. CASE X!ClientSends
  <2>1. PICK f \in Frames : frames' = Append(frames, f)
      BY <1>1 DEF X!ClientSends
  <2>2. /\ frames' \in Seq(Frames) /\ frames' # <<>> /\ Len(frames') = Len(frames) + 1
        /\ frames # <<>> => frames'[1] = frames[1]
      BY <2>1
  <2>3. Len(frames') <= MaxFrames
      BY <1>1, <2>2 DEF X!ClientSends
  <2>4. UNCHANGED <<xTaken, phase, sentUdp, xInbox, came, waited>>
      BY <1>1 DEF X!ClientSends
  <2>5. X!Parsed(frames[1])' = X!Parsed(frames'[1])
      OBVIOUS
  <2>6. xTaken = 1 => frames'[1] = frames[1]
      BY <2>2
  <2>7. phase' = "refused" <=> xTaken' = 1 /\ X!Parsed(frames[1])' = X!NoFrame
      BY <2>4, <2>6
  <2>8. \/ sentUdp' = <<>>
        \/ /\ phase' \in {"recv", "drain", "loop", "over"}
           /\ sentUdp' = <<[frame |-> 1, parsed |-> X!Parsed(frames[1])']>>
      BY <2>4, <2>6
  <2> QED BY <2>2, <2>3, <2>4, <2>7, <2>8
<1>2. CASE X!ReadsFrame
    BY <1>2 DEF X!ReadsFrame
<1>3. CASE X!Resolves
    BY <1>3 DEF X!Resolves
<1>4. CASE X!ResolveFails
    BY <1>4 DEF X!ResolveFails
<1>5. CASE X!Sends
  <2>1. xTaken = 1 /\ sentUdp = <<>>
      BY <1>5 DEF X!Sends
  <2>2. sentUdp' = <<>> \/ sentUdp' = <<[frame |-> 1, parsed |-> X!Parsed(frames[1])]>>
      BY <1>5, <2>1 DEF X!Sends, X!Current
  <2>3. waited' \in 0..Wait
      BY <1>5 DEF X!Sends
  <2> QED BY <1>5, <2>2, <2>3 DEF X!Sends
<1>6. CASE X!HostReplies
    BY <1>6 DEF X!HostReplies
<1>7. CASE X!Replies \/ X!Drains \/ X!RecvFails \/ X!RecvTimesOut
    BY <1>7 DEF X!Replies, X!Drains, X!RecvFails, X!RecvTimesOut
<1>8. CASE X!Tick
    BY <1>8 DEF X!Tick
<1>9. CASE X!LoopBreaks
    BY <1>9 DEF X!LoopBreaks
<1> QED BY <1>1, <1>2, <1>3, <1>4, <1>5, <1>6, <1>7, <1>8, <1>9 DEF X!Next, X!Server, X!World

-----------------------------------------------------------------------------
(* The relay without XUDP.                                                 *)

AnyToken == {"len", "pay"} \X Nat

LEMMA TokenIs ==
    /\ \A k \in Nat : G!Token(k + 1) \in AnyToken
    /\ \A m \in Nat : /\ G!Token(2 * m + 1) = <<"len", m + 1>>
                      /\ G!Token(2 * m + 2) = <<"pay", m + 1>>
<1>1. ASSUME NEW m \in Nat
      PROVE  /\ (2 * m + 1) % 2 = 1 /\ (2 * m + 1 + 1) \div 2 = m + 1
             /\ (2 * m + 2) % 2 = 0 /\ (2 * m + 2) \div 2 = m + 1
    OBVIOUS
<1>2. ASSUME NEW k \in Nat
      PROVE  (k + 1 + 1) \div 2 \in Nat /\ (k + 1) \div 2 \in Nat
    OBVIOUS
<1>3. \A k \in Nat : G!Token(k + 1) \in AnyToken
    BY <1>2 DEF G!Token, AnyToken
<1>4. ASSUME NEW m \in Nat
      PROVE  G!Token(2 * m + 1) = <<"len", m + 1>> /\ G!Token(2 * m + 2) = <<"pay", m + 1>>
    BY <1>1 DEF G!Token
<1> QED BY <1>3, <1>4

\* Tokens that c2u has taken from the stream.
Consumed == gSent - Len(gInput)

LegacyTypes ==
    /\ gSent \in 0..2 * MaxFrames /\ line \in {"open", "eof", "gone"}
    /\ gSock \in {"open", "closed"}
    /\ gInbox \in 0..replies /\ replies \in 0..MaxReplies
    /\ c2u \in {"len", "pay", "ended"} /\ u2c \in {"recv", "drain", "ended"}
    /\ gCancelled \subseteq G!Tasks /\ stop \in BOOLEAN
    /\ stop => c2u = "ended" \/ u2c = "ended"

\* What waits in the stream reader is what was sent last.
InputInOrder ==
    /\ gInput \in Seq(AnyToken) /\ Len(gInput) <= gSent
    /\ \A j \in 1..Len(gInput) : gInput[j] = G!Token(Consumed + j)

\* While c2u runs, the datagrams it has sent are what it has taken.
UpInOrder ==
    /\ up \in Seq(AnyToken \X AnyToken)
    /\ \A i \in 1..Len(up) : up[i] = << <<"len", i>>, <<"pay", i>> >>
    /\ c2u = "len" => Consumed = 2 * Len(up)
    /\ c2u = "pay" => Consumed = 2 * Len(up) + 1 /\ frame = <<"len", Len(up) + 1>>

LegacyInv == LegacyTypes /\ InputInOrder /\ UpInOrder

LEMMA LegacyInvMeans == LegacyInv => G!TypeOK /\ FramesIntact
<1> SUFFICES ASSUME LegacyInv PROVE G!TypeOK /\ FramesIntact
    OBVIOUS
<1>1. gInbox \in 0..MaxReplies
    BY LegacyAssumption DEF LegacyInv, LegacyTypes
<1>2. DOMAIN up = 1..Len(up)
    BY DEF LegacyInv, UpInOrder
<1> QED BY <1>1, <1>2 DEF LegacyInv, LegacyTypes, UpInOrder, G!TypeOK, FramesIntact, G!FramesIntact

LEMMA LegacyInit == G!Init => LegacyInv
<1> SUFFICES ASSUME G!Init PROVE LegacyInv
    OBVIOUS
<1>0. /\ gSent = 0 /\ line = "open" /\ gSock = "open" /\ gInbox = 0 /\ replies = 0
      /\ c2u = "len" /\ u2c = "recv" /\ gCancelled = {} /\ ~stop /\ stop \in BOOLEAN
    BY DEF G!Init
<1>1. gInput = <<>> /\ up = <<>>
    BY DEF G!Init
<1>2. Len(gInput) = 0 /\ Len(up) = 0
  <2>1. Len(<<>>) = 0
      OBVIOUS
  <2> QED BY <1>1, <2>1
<1>3. Consumed = 0
    BY <1>0, <1>2 DEF Consumed
<1>4. LegacyTypes
    BY <1>0, LegacyAssumption DEF LegacyTypes
<1>5. InputInOrder
    BY <1>0, <1>1, <1>2, <1>3 DEF InputInOrder
<1>6. UpInOrder
    BY <1>0, <1>1, <1>2, <1>3 DEF UpInOrder
<1> QED BY <1>4, <1>5, <1>6 DEF LegacyInv

\* A token that the client sends comes last.
LEMMA LegacySends == LegacyInv /\ G!ClientSends => LegacyInv'
<1> SUFFICES ASSUME LegacyInv, G!ClientSends PROVE LegacyInv'
    OBVIOUS
<1> DEFINE t == G!Token(gSent + 1)
<1>1. gSent \in Nat /\ t \in AnyToken /\ gInput \in Seq(AnyToken) /\ Len(gInput) \in Nat
    BY TokenIs, LegacyAssumption DEF LegacyInv, LegacyTypes, InputInOrder
<1>2. /\ gSent' = gSent + 1 /\ gInput' = Append(gInput, t)
      /\ UNCHANGED <<line, replies, gSock, up, gInbox, down, c2u, frame, u2c, stop, gCancelled>>
    BY DEF G!ClientSends
<1>3. LegacyTypes'
    BY <1>2, LegacyAssumption DEF LegacyInv, LegacyTypes, G!ClientSends
<1> HIDE DEF t
<1>4. /\ gInput' \in Seq(AnyToken) /\ Len(gInput') = Len(gInput) + 1
      /\ \A j \in 1..Len(gInput) + 1 : gInput'[j] = IF j <= Len(gInput) THEN gInput[j] ELSE t
    BY <1>1, <1>2
<1>5. Consumed' = Consumed /\ Consumed + (Len(gInput) + 1) = gSent + 1
    BY <1>1, <1>2, <1>4 DEF Consumed
<1>6. InputInOrder'
    BY <1>1, <1>2, <1>4, <1>5 DEF LegacyInv, InputInOrder, t
<1>7. UpInOrder'
    BY <1>2, <1>5 DEF LegacyInv, UpInOrder
<1> QED BY <1>3, <1>6, <1>7 DEF LegacyInv

\* What c2u takes is the next token, and what is left is still in order.
LEMMA LegacyTakes ==
    ASSUME LegacyInv, gInput # <<>>, gInput' = Tail(gInput), gSent' = gSent
    PROVE  /\ InputInOrder' /\ Consumed' = Consumed + 1 /\ Consumed \in Nat
           /\ Head(gInput) = G!Token(Consumed + 1) /\ Head(gInput) \in AnyToken
<1>1. gSent \in Nat /\ gInput \in Seq(AnyToken) /\ Len(gInput) \in Nat \ {0}
      /\ Len(gInput) <= gSent
    BY LegacyAssumption DEF LegacyInv, LegacyTypes, InputInOrder
<1>2. /\ Head(gInput) = gInput[1] /\ Head(gInput) \in AnyToken
      /\ gInput' \in Seq(AnyToken) /\ Len(gInput') = Len(gInput) - 1
      /\ \A j \in 1..Len(gInput) - 1 : gInput'[j] = gInput[j + 1]
    BY <1>1
<1>3. Consumed' = Consumed + 1 /\ Consumed \in Nat
    BY <1>1, <1>2 DEF Consumed
<1>4. Head(gInput) = G!Token(Consumed + 1)
    BY <1>1, <1>2 DEF LegacyInv, InputInOrder
<1>5. \A j \in 1..Len(gInput) - 1 : gInput'[j] = G!Token(Consumed' + j)
  <2> TAKE j \in 1..Len(gInput) - 1
  <2>1. j + 1 \in 1..Len(gInput) /\ Consumed + (j + 1) = Consumed' + j
      BY <1>1, <1>3
  <2> QED BY <1>2, <2>1 DEF LegacyInv, InputInOrder
<1>6. Len(gInput') <= gSent'
    BY <1>1, <1>2
<1> QED BY <1>2, <1>3, <1>4, <1>5, <1>6 DEF InputInOrder

LEMMA LegacyReadsLength == LegacyInv /\ G!C2uReadsLength => LegacyInv'
<1> SUFFICES ASSUME LegacyInv, G!C2uReadsLength PROVE LegacyInv'
    OBVIOUS
<1>1. /\ gInput # <<>> /\ gInput' = Tail(gInput) /\ c2u = "len" /\ c2u' = "pay"
      /\ frame' = Head(gInput) /\ gCancelled' = gCancelled \ {"c2u"}
      /\ UNCHANGED <<gSent, line, replies, gSock, gInbox, u2c, up, stop>>
    BY DEF G!C2uReadsLength, G!c2uOnly, G!net, G!Seen
<1>2. LegacyTypes'
    BY <1>1 DEF LegacyInv, LegacyTypes
<1>3. InputInOrder' /\ Consumed' = Consumed + 1 /\ Head(gInput) = G!Token(Consumed + 1)
    BY <1>1, LegacyTakes
<1>4. Len(up) \in Nat /\ Consumed = 2 * Len(up)
    BY <1>1 DEF LegacyInv, UpInOrder
<1>5. frame' = <<"len", Len(up) + 1>> /\ Consumed' = 2 * Len(up) + 1
    BY <1>1, <1>3, <1>4, TokenIs
<1>6. UpInOrder'
    BY <1>1, <1>5 DEF LegacyInv, UpInOrder
<1> QED BY <1>2, <1>3, <1>6 DEF LegacyInv

LEMMA LegacyReadsPayload == LegacyInv /\ G!C2uReadsPayload => LegacyInv'
<1> SUFFICES ASSUME LegacyInv, G!C2uReadsPayload PROVE LegacyInv'
    OBVIOUS
<1>1. /\ gInput # <<>> /\ gInput' = Tail(gInput) /\ c2u = "pay" /\ c2u' \in {"len", "ended"}
      /\ gCancelled' = gCancelled \ {"c2u"}
      /\ UNCHANGED <<gSent, line, replies, gSock, gInbox, u2c, frame>>
    BY DEF G!C2uReadsPayload, G!C2uBreaks, G!c2uOnly, G!net, G!Seen
<1>2. \/ c2u' = "ended" /\ stop' = TRUE
      \/ c2u' = "len" /\ stop' = stop /\ ~stop
  <2>1. CASE stop
      BY <2>1 DEF G!C2uReadsPayload, G!C2uBreaks
  <2>2. CASE ~stop
      BY <2>2 DEF G!C2uReadsPayload, G!C2uBreaks
  <2> QED BY <2>1, <2>2
<1>3. LegacyTypes'
  <2>1. stop' \in BOOLEAN
      BY <1>2 DEF LegacyInv, LegacyTypes
  <2>2. stop' => c2u' = "ended" \/ u2c' = "ended"
      BY <1>1, <1>2
  <2> QED BY <1>1, <2>1, <2>2 DEF LegacyInv, LegacyTypes
<1>4. /\ InputInOrder' /\ Consumed' = Consumed + 1
      /\ Head(gInput) = G!Token(Consumed + 1) /\ Head(gInput) \in AnyToken
    BY <1>1, LegacyTakes
<1>5. /\ Len(up) \in Nat /\ Consumed = 2 * Len(up) + 1 /\ frame = <<"len", Len(up) + 1>>
      /\ up \in Seq(AnyToken \X AnyToken)
      /\ \A i \in 1..Len(up) : up[i] = << <<"len", i>>, <<"pay", i>> >>
    BY <1>1 DEF LegacyInv, UpInOrder
<1>6. Head(gInput) = <<"pay", Len(up) + 1>> /\ Consumed' = 2 * (Len(up) + 1)
  <2>1. Consumed + 1 = 2 * Len(up) + 2
      BY <1>5
  <2> QED BY <1>4, <1>5, <2>1, TokenIs
<1>7. CASE up' = Append(up, <<frame, Head(gInput)>>)
  <2> DEFINE e == <<frame, Head(gInput)>>
  <2>1. e = << <<"len", Len(up) + 1>>, <<"pay", Len(up) + 1>> >> /\ e \in AnyToken \X AnyToken
      BY <1>5, <1>6 DEF AnyToken
  <2> HIDE DEF e
  <2>2. /\ up' \in Seq(AnyToken \X AnyToken) /\ Len(up') = Len(up) + 1
        /\ \A i \in 1..Len(up) + 1 : up'[i] = IF i <= Len(up) THEN up[i] ELSE e
      BY <1>5, <1>7, <2>1 DEF e
  <2>3. \A i \in 1..Len(up') : up'[i] = << <<"len", i>>, <<"pay", i>> >>
      BY <1>5, <2>1, <2>2
  <2>4. UpInOrder'
      BY <1>1, <1>6, <2>2, <2>3 DEF UpInOrder
  <2> QED BY <1>3, <1>4, <2>4 DEF LegacyInv
<1>8. CASE up' = up /\ c2u' = "ended"
  <2>1. UpInOrder'
      BY <1>5, <1>8 DEF UpInOrder
  <2> QED BY <1>3, <1>4, <2>1 DEF LegacyInv
<1>9. \/ up' = Append(up, <<frame, Head(gInput)>>)
      \/ up' = up /\ c2u' = "ended"
    BY DEF G!C2uReadsPayload, G!C2uBreaks
<1> QED BY <1>7, <1>8, <1>9

\* What takes nothing from the stream keeps the order, if c2u does not go back.
LEMMA LegacyRest ==
    ASSUME LegacyInv, UNCHANGED <<gSent, gInput, up, frame>>, c2u' \in {c2u, "ended"},
           LegacyTypes'
    PROVE  LegacyInv'
BY DEF LegacyInv, InputInOrder, UpInOrder, Consumed

LEMMA LegacyNext == LegacyInv /\ G!Next => LegacyInv'
<1> SUFFICES ASSUME LegacyInv, G!Next PROVE LegacyInv'
    OBVIOUS
<1>0. LegacyTypes /\ MaxReplies \in Nat
    BY LegacyAssumption DEF LegacyInv
<1>1. CASE G!ClientSends \/ G!C2uReadsLength \/ G!C2uReadsPayload
    BY <1>1, LegacySends, LegacyReadsLength, LegacyReadsPayload
<1>2. CASE G!ClientCloses \/ G!HostReplies \/ G!Tick
  <2>1. UNCHANGED <<gSent, gInput, up, frame, c2u>>
      BY <1>2 DEF G!ClientCloses, G!HostReplies, G!Tick, G!net
  <2>2. LegacyTypes'
      BY <1>0, <1>2 DEF G!ClientCloses, G!HostReplies, G!Tick, G!net, LegacyTypes
  <2> QED BY <2>1, <2>2, LegacyRest
<1>3. CASE G!C2uIdles \/ G!C2uPayloadLate \/ G!C2uEnds \/ G!C2uCancelled
  <2>1. UNCHANGED <<gSent, gInput, up, frame>> /\ c2u' = "ended"
      BY <1>3 DEF G!C2uIdles, G!C2uPayloadLate, G!C2uEnds, G!C2uCancelled, G!C2uBreaks,
                  G!c2uOnly, G!net
  <2>2. LegacyTypes'
      BY <1>0, <1>3 DEF G!C2uIdles, G!C2uPayloadLate, G!C2uEnds, G!C2uCancelled, G!C2uBreaks,
                        G!c2uOnly, G!net, G!Seen, LegacyTypes
  <2> QED BY <2>1, <2>2, LegacyRest
<1>4. CASE G!U2cReceives \/ G!U2cDrains \/ G!U2cFails \/ G!U2cCancelled
  <2>1. UNCHANGED <<gSent, gInput, up, frame, c2u>>
      BY <1>4 DEF G!U2cReceives, G!U2cDrains, G!U2cFails, G!U2cCancelled, G!u2cOnly, G!net
  <2>2. /\ UNCHANGED <<line, gSock, replies>> /\ gCancelled' \subseteq gCancelled
        /\ gInbox' \in 0..replies
      BY <1>0, <1>4 DEF G!U2cReceives, G!U2cDrains, G!U2cFails, G!U2cCancelled,
                        G!u2cOnly, G!net, G!Seen, LegacyTypes
  <2>3. \/ u2c' = "ended" /\ stop' \in {stop, TRUE}
        \/ u2c' \in {"recv", "drain"} /\ u2c # "ended" /\ stop' = stop
    <3>1. CASE G!U2cDrains
      <4>1. CASE stop \/ line = "gone"
          BY <3>1, <4>1 DEF G!U2cDrains, G!U2cBreaks
      <4>2. CASE ~(stop \/ line = "gone")
          BY <3>1, <4>2 DEF G!U2cDrains, G!U2cBreaks
      <4> QED BY <4>1, <4>2
    <3>2. CASE ~G!U2cDrains
        BY <1>4, <3>2 DEF G!U2cReceives, G!U2cFails, G!U2cCancelled, G!U2cBreaks
    <3> QED BY <3>1, <3>2
  <2>4. stop' \in BOOLEAN
      BY <1>0, <2>3 DEF LegacyTypes
  <2>5. stop' => c2u' = "ended" \/ u2c' = "ended"
      BY <1>0, <2>1, <2>3 DEF LegacyTypes
  <2>6. LegacyTypes'
      BY <1>0, <2>1, <2>2, <2>3, <2>4, <2>5 DEF LegacyTypes
  <2> QED BY <2>1, <2>6, LegacyRest
<1>5. CASE G!HandlerEnds
  <2>1. UNCHANGED <<gSent, gInput, up, frame, c2u>>
      BY <1>5 DEF G!HandlerEnds, G!net
  <2>2. LegacyTypes'
      BY <1>0, <1>5 DEF G!HandlerEnds, G!Cancels, G!net, LegacyTypes
  <2> QED BY <2>1, <2>2, LegacyRest
<1> QED BY <1>1, <1>2, <1>3, <1>4, <1>5 DEF G!Next, G!World, G!C2uSteps, G!U2cSteps

-----------------------------------------------------------------------------
(* The relays together: one of them moves, the others stand still.         *)

LEMMA XudpStands == XudpInv /\ UNCHANGED xudp => XudpInv'
BY DEF xudp, XudpInv

LEMMA LegacyStands == LegacyInv /\ UNCHANGED legacy => LegacyInv'
BY DEF legacy, LegacyInv, LegacyTypes, InputInOrder, UpInOrder, Consumed

RelaysInv == TcpInv /\ XudpInv /\ LegacyInv

\* The inductive invariant of the three.
THEOREM InductiveInvariant == RelaysSpec => []RelaysInv
<1>1. RelaysInit => RelaysInv
  BY TcpInit, XudpInit, LegacyInit DEF RelaysInit, RelaysInv
<1>2. RelaysInv /\ [RelaysNext]_relays => RelaysInv'
  <2> SUFFICES ASSUME RelaysInv, [RelaysNext]_relays PROVE RelaysInv'
    OBVIOUS
  <2>1. TcpInv'
    <3>1. Next \/ UNCHANGED vars
      BY DEF RelaysNext, MoveTcp, MoveXudp, MoveLegacy, relays
    <3> QED BY <3>1, TcpNext, TcpStands DEF RelaysInv
  <2>2. XudpInv'
    <3>1. X!Next \/ UNCHANGED xudp
      BY DEF RelaysNext, MoveTcp, MoveXudp, MoveLegacy, relays
    <3> QED BY <3>1, XudpNext, XudpStands DEF RelaysInv
  <2>3. LegacyInv'
    <3>1. G!Next \/ UNCHANGED legacy
      BY DEF RelaysNext, MoveTcp, MoveXudp, MoveLegacy, relays
    <3> QED BY <3>1, LegacyNext, LegacyStands DEF RelaysInv
  <2> QED BY <2>1, <2>2, <2>3 DEF RelaysInv
<1> QED BY <1>1, <1>2, PTL DEF RelaysSpec

\* Every variable of the relays holds what its code can put there, and the
\* write buffer of a pipe at most one chunk above its mark (server.py:700).
THEOREM TypeCorrect == RelaysSpec => []AllTypesOK
<1>1. RelaysInv => AllTypesOK
  <2>1. TcpInv => TypeOK
    BY DEF TcpInv, TcpTypes, Account, Buffers, TypeOK
  <2> QED BY <2>1, XudpInvMeans, LegacyInvMeans DEF RelaysInv, AllTypesOK
<1> QED BY <1>1, InductiveInvariant, PTL

\* What reaches a peer was billed (server.py:694-699), and all that is billed
\* is delivered or buffered as long as the destination is open.
THEOREM Billing == RelaysSpec => []BillingExact
<1>1. RelaysInv => BillingExact
  BY DEF RelaysInv, TcpInv, Account, BillingExact
<1> QED BY <1>1, InductiveInvariant, PTL

\* Behind its wait (server.py 329-342) the handler leaves no pipe running and
\* no socket open, also when it ends by an exception before it closes them.
THEOREM NothingLeftOpen == RelaysSpec => []DoneMeansStopped
<1>1. RelaysInv => DoneMeansStopped
  BY DirEnds DEF RelaysInv, TcpInv, Stopped, DoneMeansStopped
<1> QED BY <1>1, InductiveInvariant, PTL

\* Whatever its sizes, a frame of XUDP goes out as the payload that the client
\* meant, or is refused if it is a short keep frame (server.py 626-680); only
\* a new frame whose id looks like a length is taken for another.
THEOREM DatagramIsMeant == RelaysSpec => []SentAsMeant
<1>1. RelaysInv => SentAsMeant
  BY XudpInvMeans DEF RelaysInv
<1> QED BY <1>1, InductiveInvariant, PTL

\* The datagrams of a client without XUDP are the payloads of its frames, one
\* each and in order, however lengths and payloads are delayed, and when the
\* relay gives up (c2u of _handle_udp_legacy, server.py 456-485).
THEOREM DatagramIsFrame == RelaysSpec => []FramesIntact
<1>1. RelaysInv => FramesIntact
  BY LegacyInvMeans DEF RelaysInv
<1> QED BY <1>1, InductiveInvariant, PTL
=============================================================================
