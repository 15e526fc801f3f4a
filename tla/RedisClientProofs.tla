--------------------------- MODULE RedisClientProofs ---------------------------
(* Theorems about RedisClient, for any commands, any number of dispatchers    *)
(* and sockets, and all faults unless a theorem says which.                   *)
EXTENDS RedisClient, DataLemmas, SequenceTheorems, TLAPS

\* Sockets are numbered from one, and an attempt to connect has one.
Basic ==
    /\ opened \in Nat /\ DOMAIN dpc = Dispatcher
    /\ state = "connecting" => so # 0

\* The inductive invariant.
IInv == Basic /\ PendingMeansConnecting

\* Whoever calls OnConnected() has not flushed yet.
Flushing == \E d \in Dispatcher : dpc[d] = "flush"

-----------------------------------------------------------------------------
\* A step that leaves the queue to send, the connection and the dispatchers that
\* are about to flush alone keeps the invariant.
LEMMA Untouched ==
    ASSUME IInv, UNCHANGED <<toSend, so, state, opened>>,
           DOMAIN dpc' = Dispatcher, Flushing => Flushing'
    PROVE  IInv'
BY DEF IInv, Basic, PendingMeansConnecting, Flushing

\* With nothing left to be sent there is nothing to promise: cancelling,
\* OnError() and the taking of the queue by OnConnected().
LEMMA EmptyIsFine ==
    ASSUME IInv, toSend' = <<>>, opened' = opened, DOMAIN dpc' = Dispatcher,
           state' = "connecting" => so' # 0
    PROVE  IInv'
BY DEF IInv, Basic, PendingMeansConnecting

\* Commands are added to the queue only behind others or behind an attempt.
LEMMA AddedBehind ==
    ASSUME IInv, MustPend, UNCHANGED <<so, state, opened>>,
           DOMAIN dpc' = Dispatcher, Flushing => Flushing'
    PROVE  IInv'
BY DEF IInv, Basic, PendingMeansConnecting, MustPend, Flushing

\* connect() in progress: the watchdog will say how it ends.
LEMMA Connecting ==
    ASSUME IInv, ConnectInProgress, DOMAIN dpc' = Dispatcher
    PROVE  IInv'
BY DEF IInv, Basic, PendingMeansConnecting, ConnectInProgress

\* The part of sendCommand() that sends leaves the queue alone or drops it with
\* the connection.
LEMMA SendPart ==
    ASSUME IInv, NEW c, dpc' = dpc,
           SendSucceeds(c) \/ SendFails(c) \/ SendsPart(c) \/ ExpiredUnsent(c)
    PROVE  IInv'
<1>0. DOMAIN dpc' = Dispatcher /\ (Flushing => Flushing')
  BY DEF IInv, Basic, Flushing
<1>1. CASE SendSucceeds(c) \/ SendsPart(c) \/ ExpiredUnsent(c)
  BY <1>0, <1>1, Untouched DEF SendSucceeds, SendsPart, ExpiredUnsent, sockVars, queueVars
<1>2. CASE SendFails(c)
  BY <1>0, <1>2, Untouched, EmptyIsFine DEF SendFails, Disconnect, sockVars, queueVars
<1> QED  BY <1>1, <1>2

\* The first critical section of sendCommand().
LEMMA SendCommandStep ==
    ASSUME IInv, NEW c \in Cmd, SendCommand(c)
    PROVE  IInv'
<1>0. /\ DOMAIN dpc' = Dispatcher /\ (Flushing => Flushing')
      /\ MustPend => so # 0
  BY DEF IInv, Basic, Flushing, SendCommand, dispVars, MustPend, PendingMeansConnecting
<1>1. CASE MustPend /\ UNCHANGED <<sockVars, wireVars>>
  BY <1>0, <1>1, AddedBehind DEF sockVars
<1>2. CASE ConnectInProgress
  BY <1>0, <1>2, Connecting
<1>3. CASE ConnectUnreachable /\ ~MustPend /\ UNCHANGED toSend
  BY <1>0, <1>3 DEF ConnectUnreachable, MustPend, IInv, Basic, PendingMeansConnecting
<1>4. CASE UNCHANGED <<sockVars, wireVars, toSend>>
  BY <1>0, <1>4, Untouched DEF sockVars
<1> QED  BY <1>1, <1>2, <1>3, <1>4 DEF SendCommand

\* The flushing of the queue, a command at a time.
LEMMA FlushNextStep ==
    ASSUME IInv, NEW d \in Dispatcher, FlushNext(d)
    PROVE  IInv'
<1>0. /\ DOMAIN dpc' = Dispatcher /\ (Flushing => Flushing') /\ dpc' = dpc
  BY DEF IInv, Basic, Flushing, FlushNext
<1> DEFINE c == Head(work[d])
<1>1. CASE SendSucceeds(c) \/ SendFails(c) \/ SendsPart(c) \/ ExpiredUnsent(c)
  BY <1>0, <1>1, SendPart
<1>2. CASE MustPend /\ UNCHANGED <<sockVars, wireVars>>
  BY <1>0, <1>2, AddedBehind DEF sockVars
<1>3. CASE ConnectInProgress
  BY <1>0, <1>3, Connecting
<1>4. CASE ConnectUnreachable /\ ~MustPend /\ UNCHANGED toSend
  BY <1>0, <1>4 DEF ConnectUnreachable, MustPend, IInv, Basic, PendingMeansConnecting
<1>5. CASE UNCHANGED <<sockVars, wireVars, toSend>>
  BY <1>0, <1>5, Untouched DEF sockVars
<1> QED  BY <1>1, <1>2, <1>3, <1>4, <1>5 DEF FlushNext

\* The other steps of callers, of the server and of the network.
LEMMA OutsideStep ==
    ASSUME IInv,
           \/ \E c \in Cmd : SendLine(c) \/ RunErr(c) \/ Wait(c)
           \/ DisconnectCalled \/ ServerAnswers \/ Network
    PROVE  IInv'
<1> USE DEF dispVars
<1>1. ASSUME UNCHANGED dispVars PROVE DOMAIN dpc' = Dispatcher /\ (Flushing => Flushing')
  BY <1>1 DEF IInv, Basic, Flushing
<1>2. ASSUME NEW c \in Cmd, SendLine(c) PROVE IInv'
  BY <1>2, SendPart DEF SendLine
<1>3. ASSUME NEW c \in Cmd, RunErr(c) \/ Wait(c) PROVE IInv'
  BY <1>1, <1>3, Untouched DEF RunErr, Wait, sockVars, queueVars
<1>4. CASE DisconnectCalled
  BY <1>1, <1>4, EmptyIsFine DEF DisconnectCalled, Disconnect
<1>5. CASE ServerAnswers \/ Network
  BY <1>1, <1>5, Untouched DEF ServerAnswers, Network, sockVars, queueVars
<1> QED  BY <1>2, <1>3, <1>4, <1>5

\* The steps of a dispatcher, with FlushNext in a lemma of its own.
LEMMA DispatcherStep ==
    ASSUME IInv, NEW d \in Dispatcher, Dispatch(d) \/ DispatcherRuns(d)
    PROVE  IInv'
<1> USE DEF DGoto, sockVars, queueVars
<1>0. DOMAIN dpc' = Dispatcher
  BY DEF IInv, Basic, Dispatch, DispatcherRuns, Connected, SetConnected, Flush, FlushNext,
     Flushed, OnError, OnDataArrived, DataArrives, NoData, ReadFails, OnReply
<1>1. ASSUME SetConnected(d), UNCHANGED <<so, opened, toSend>> PROVE IInv'
  BY <1>0, <1>1 DEF SetConnected, IInv, Basic, PendingMeansConnecting
<1>2. ASSUME dpc[d] # "flush" \/ dpc'[d] = "flush", \A e \in Dispatcher \ {d} : dpc'[e] = dpc[e]
      PROVE  Flushing => Flushing'
  BY <1>2 DEF Flushing
<1>3. ASSUME dpc[d] # "flush",
             dpc' = dpc \/ \E label \in DispatcherPc : DGoto(d, label)
      PROVE  Flushing => Flushing'
  BY <1>2, <1>3 DEF IInv, Basic
<1>4. CASE Dispatch(d)
  <2>1. CASE SetConnected(d)
    BY <1>1, <1>4, <2>1 DEF Dispatch
  <2>2. CASE /\ \E label \in DispatcherPc : DGoto(d, label)
             /\ UNCHANGED <<so, opened, toSend, state>>
    <3>1. dpc[d] # "flush"
      BY <1>4 DEF Dispatch
    <3> QED  BY <1>0, <1>3, <2>2, <3>1, Untouched
  <2> QED  BY <1>4, <2>1, <2>2 DEF Dispatch, DispatcherPc
<1>5. CASE Connected(d)
  BY <1>1, <1>5 DEF Connected
<1>6. CASE Flush(d)
  BY <1>0, <1>6, EmptyIsFine DEF Flush, IInv, Basic
<1>7. CASE FlushNext(d)
  BY <1>7, FlushNextStep
<1>8. CASE Flushed(d)
  BY <1>0, <1>3, <1>8, Untouched DEF Flushed, DispatcherPc
<1>9. CASE OnError(d)
  BY <1>0, <1>9, EmptyIsFine DEF OnError, Disconnect
<1>10. CASE OnDataArrived(d)
  <2>1. CASE DataArrives(d)
    BY <1>0, <1>3, <1>10, <2>1, Untouched DEF OnDataArrived, DataArrives, DispatcherPc
  <2>2. CASE NoData(d)
    BY <1>0, <1>3, <1>10, <2>2, Untouched DEF OnDataArrived, NoData, DispatcherPc
  <2>3. CASE ReadFails(d)
    BY <1>0, <2>3, EmptyIsFine DEF ReadFails, Disconnect
  <2> QED  BY <1>10, <2>1, <2>2, <2>3 DEF OnDataArrived
<1>11. CASE OnReply(d)
  BY <1>0, <1>3, <1>11, Untouched DEF OnReply, DispatcherPc
<1> QED  BY <1>4, <1>5, <1>6, <1>7, <1>8, <1>9, <1>10, <1>11 DEF DispatcherRuns

\* The inductive invariant holds of a client just constructed ...
LEMMA InitIInv == Init => IInv
BY DEF Init, IInv, Basic, PendingMeansConnecting

\* ... and is kept by every step.
LEMMA StepIInv == IInv /\ [Next]_vars => IInv'
<1>1. ASSUME IInv, UNCHANGED vars PROVE IInv'
  BY <1>1 DEF vars, sockVars, queueVars, dispVars, IInv, Basic, PendingMeansConnecting
<1> QED  BY <1>1, SendCommandStep, OutsideStep, DispatcherStep DEF Next, Caller

\* No command is left in _commandQueueToSend with nobody to send it: over
\* refused, failed and dropped connections, disconnect() by any thread, and
\* events that come late, commands are queued only while a connection is on its
\* way or about to be flushed.  sendCommand() relies on it: it opens no
\* connection while the queue is not empty.
THEOREM PendingHasConnection == Spec => []PendingMeansConnecting
<1>1. IInv => PendingMeansConnecting
  BY DEF IInv
<1> QED  BY <1>1, InitIInv, StepIInv, PTL DEF Spec

-----------------------------------------------------------------------------
(* What OnDataArrived() makes of the buffer. *)

ParserType ==
    [rest : Seq(Unit), q : Seq(Cmd), half : BOOLEAN, reply : [Cmd -> Seq(Unit)],
     done : Seq(Cmd), stop : BOOLEAN, over : BOOLEAN]

\* The completed commands and those left are the ones that waited, in order.
InOrder == {p \in ParserType : p.done \o p.q = toReceive}

LEMMA HeadMoves ==
    ASSUME NEW s \in Seq(Cmd), NEW t \in Seq(Cmd), t # <<>>
    PROVE  Append(s, Head(t)) \o Tail(t) = s \o t
OBVIOUS

\* One line completes at most the first of the commands.
LEMMA LineInOrder ==
    ASSUME NEW p \in InOrder, NEW text \in Seq(Unit)
    PROVE  Line(p, text) \in InOrder
<1>1. p \in ParserType /\ p.done \o p.q = toReceive
  BY DEF InOrder
<1>2. CASE text = <<>>
  BY <1>2 DEF Line
<1>3. CASE text # <<>> /\ p.q = <<>>
  BY <1>1, <1>3 DEF Line, InOrder, ParserType
<1>4. CASE text # <<>> /\ p.q # <<>>
  <2> DEFINE c == Head(p.q)
             got == [p EXCEPT !.reply[c] = @ \o text]
  <2>1. c \in Cmd /\ p.reply[c] \o text \in Seq(Unit)
    BY <1>1, <1>4 DEF ParserType
  <2>2. got \in ParserType /\ got.q = p.q /\ got.done = p.done
    BY <1>1, <2>1 DEF ParserType
  <2>3. got \in InOrder
    BY <1>1, <2>2 DEF InOrder
  <2> HIDE DEF got
  <2>4. Complete(got) \in InOrder
    <3>1. Tail(got.q) \in Seq(Cmd) /\ Append(got.done, Head(got.q)) \in Seq(Cmd)
      BY <1>4, <2>2 DEF ParserType
    <3>2. Complete(got) \in ParserType
      BY <2>2, <3>1 DEF Complete, ParserType
    <3>3. Append(got.done, Head(got.q)) \o Tail(got.q) = got.done \o got.q
      BY <1>4, <2>2, HeadMoves DEF ParserType
    <3> QED  BY <2>2, <2>3, <3>2, <3>3 DEF Complete, ParserType, InOrder
  <2>5. [Complete(got) EXCEPT !.stop = TRUE] \in InOrder
    BY <2>4 DEF InOrder, ParserType
  <2>6. [got EXCEPT !.half = TRUE, !.stop = c \in Dels] \in InOrder
    <3>1. \A v \in BOOLEAN : [got EXCEPT !.half = TRUE, !.stop = v] \in InOrder
      BY <2>3 DEF InOrder, ParserType
    <3>2. (c \in Dels) \in BOOLEAN
      OBVIOUS
    <3> QED  BY <3>1, <3>2
  <2> QED  BY <1>4, <2>4, <2>5, <2>6 DEF Line, got
<1> QED  BY <1>2, <1>3, <1>4

LEMMA TakeInOrder ==
    ASSUME NEW p \in InOrder, NEW u \in Unit
    PROVE  Take(p, u) \in InOrder
<1>1. p \in ParserType
  BY DEF InOrder
<1>2. <<>> \in Seq(Unit) /\ p.rest \in Seq(Unit) /\ Append(p.rest, u) \in Seq(Unit)
  BY <1>1 DEF ParserType
<1>3. [p EXCEPT !.rest = <<>>] \in InOrder
  BY <1>2 DEF InOrder, ParserType
<1>4. Line([p EXCEPT !.rest = <<>>], p.rest) \in InOrder /\ Line(p, p.rest) \in InOrder
  BY <1>2, <1>3, LineInOrder
<1>5. [Line(p, p.rest) EXCEPT !.rest = <<>>, !.over = TRUE] \in InOrder
  BY <1>2, <1>4 DEF InOrder, ParserType
<1>6. [p EXCEPT !.rest = Append(@, u)] \in InOrder
  BY <1>2 DEF InOrder, ParserType
<1> QED  BY <1>4, <1>5, <1>6 DEF Take

\* The scan of a buffer takes its units one after the other, and keeps the order.
LEMMA ScanSteps ==
    ASSUME QueueTypes, CommandTypes, NEW b \in Seq(Unit)
    PROVE  \E g \in [0..Len(b) -> InOrder] :
              /\ g[0] = Parser /\ Scan(b) = g[Len(b)]
              /\ \A n \in 1..Len(b) : g[n] = Take(g[n - 1], b[n])
<1> DEFINE N == Len(b)
           Is(g) == g = [n \in 0..N |-> IF n = 0 THEN Parser ELSE Take(g[n - 1], b[n])]
           g == CHOOSE g : Is(g)
           step == [z \in InOrder \X (1..N) |-> Take(z[1], b[z[2]])]
<1>1. N \in Nat /\ \A n \in 1..N : b[n] \in Unit
  OBVIOUS
<1>2. Parser \in InOrder
  <2>1. <<>> \in Seq(Unit) /\ <<>> \in Seq(Cmd) /\ <<>> \o toReceive = toReceive
    BY DEF QueueTypes
  <2> QED  BY <2>1 DEF Parser, InOrder, ParserType, QueueTypes, CommandTypes
<1>3. step \in [InOrder \X (1..N) -> InOrder]
  <2>1. \A z \in InOrder \X (1..N) : Take(z[1], b[z[2]]) \in InOrder
    BY <1>1, TakeInOrder
  <2> QED  BY <2>1
<1>4. PICK f : Recurs(f, InOrder, Parser, N, step)
  <2> HIDE DEF step, N, Is, g
  <2> QED  BY <1>1, <1>2, <1>3, RecursionExists
<1>5. /\ f \in [0..N -> InOrder] /\ f[0] = Parser
      /\ \A n \in 1..N : f[n] = Take(f[n - 1], b[n])
  BY <1>4 DEF Recurs
<1>6. Is(f)
  BY <1>5
<1>7. Scan(b) = g[N]
  BY DEF Scan
<1>8. Is(g)
  <2> HIDE DEF Is
  <2> QED  BY <1>6
<1> DEFINE T == {n \in 0..N : g[n] \in InOrder}
<1> HIDE DEF g, N, step
<1>9. 0 \in T
  BY <1>1, <1>2, <1>8
<1>10. ASSUME NEW n \in 1..N, n - 1 \in T PROVE n \in T
  <2>1. n \in 0..N /\ n # 0
    BY <1>1
  <2>2. g[n] = Take(g[n - 1], b[n])
    BY <1>8, <2>1
  <2> QED  BY <1>1, <1>10, <2>1, <2>2, TakeInOrder
<1>11. 0..N \subseteq T
  <2> HIDE DEF T
  <2> QED  BY <1>1, <1>9, <1>10, AllNumbers
<1>12. g \in [0..N -> InOrder]
  BY <1>8, <1>11
<1>13. g[0] = Parser /\ \A n \in 1..N : g[n] = Take(g[n - 1], b[n])
  BY <1>1, <1>8
<1>14. Scan(b) = g[N]
  BY <1>7
<1> QED  BY <1>12, <1>13, <1>14 DEF N

LEMMA ScanInOrder ==
    ASSUME QueueTypes, CommandTypes, NEW b \in Seq(Unit)
    PROVE  Scan(b) \in InOrder
BY ScanSteps

-----------------------------------------------------------------------------
(* Type correctness. *)

\* What the parts of sendCommand() leave with its type.
Moved ==
    /\ SocketTypes'
    /\ toSend' \in Seq(Cmd) /\ toReceive' \in Seq(Cmd) /\ half' \in BOOLEAN
    /\ errs' \subseteq Cmd /\ reported' \in [Cmd -> Nat]

LEMMA FailTypes ==
    ASSUME CommandTypes, NEW cmds \in Seq(Cmd), Fail(cmds)
    PROVE  errs' \subseteq Cmd /\ reported' \in [Cmd -> Nat]
<1>1. \A c \in Cmd : Cardinality({i \in DOMAIN cmds : cmds[i] = c}) \in Nat
  <2> TAKE c \in Cmd
  <2>1. DOMAIN cmds = 1..Len(cmds) /\ IsFiniteSet(1..Len(cmds))
    BY FS_Interval
  <2> QED  BY <2>1, FS_Subset, FS_CardinalityType
<1>2. ToSet(cmds) \subseteq Cmd
  BY ElementsOf
<1> QED  BY <1>1, <1>2 DEF Fail, CommandTypes

LEMMA PendTypes ==
    ASSUME TypeOK, NEW c \in Cmd, Pend(c, toSend)
    PROVE  toSend' \in Seq(Cmd) /\ errs' \subseteq Cmd /\ reported' \in [Cmd -> Nat]
<1> DEFINE long == Append(toSend, c)
<1>1. long \in Seq(Cmd)
  BY DEF TypeOK, QueueTypes
<1>2. PICK n \in 0..Len(long) : toSend' = SubSeq(long, n + 1, Len(long)) /\ Fail(SubSeq(long, 1, n))
  BY DEF Pend
<1> HIDE DEF long
<1>3. SubSeq(long, n + 1, Len(long)) \in Seq(Cmd) /\ SubSeq(long, 1, n) \in Seq(Cmd)
  BY <1>1, <1>2
<1> QED  BY <1>2, <1>3, FailTypes DEF TypeOK

LEMMA DisconnectTypes ==
    ASSUME TypeOK, NEW extra \in Seq(Cmd), Disconnect(extra)
    PROVE  Moved
<1>1. toSend \o toReceive \o extra \in Seq(Cmd) /\ <<>> \in Seq(Cmd) /\ <<>> \in Seq(Unit)
  BY DEF TypeOK, QueueTypes
<1>2. errs' \subseteq Cmd /\ reported' \in [Cmd -> Nat]
  BY <1>1, FailTypes DEF Disconnect, TypeOK
<1>3. SocketTypes'
  <2>1. opened \in 0..MaxConn /\ 0 \in 0..opened
    BY BoundAssumption DEF TypeOK, SocketTypes
  <2>2. /\ opened' = opened /\ state' = "initial" /\ so' = 0 /\ link' = "none" /\ watched' = FALSE
        /\ up' = <<>> /\ down' = <<>>
    BY DEF Disconnect
  <2> QED  BY <1>1, <2>1, <2>2 DEF SocketTypes
<1> QED  BY <1>1, <1>2, <1>3 DEF Disconnect, Moved

LEMMA ConnectTypes ==
    ASSUME TypeOK, ConnectInProgress \/ ConnectUnreachable
    PROVE  SocketTypes'
<1>1. <<>> \in Seq(Cmd) /\ <<>> \in Seq(Unit)
  OBVIOUS
<1>2. /\ opened' = opened + 1 /\ so' = opened + 1 /\ opened < MaxConn
      /\ state' \in {"connecting", "connected"} /\ link' \in {"syn", "failed"}
      /\ watched' = TRUE \/ watched' = watched
      /\ up' = <<>> /\ down' = <<>>
  BY DEF ConnectInProgress, ConnectUnreachable
<1>3. opened + 1 \in 0..MaxConn /\ opened + 1 \in 0..(opened + 1) /\ opened + 1 # 0
  BY <1>2, BoundAssumption DEF TypeOK, SocketTypes
<1> QED  BY <1>1, <1>2, <1>3 DEF TypeOK, SocketTypes

LEMMA SendTypes ==
    ASSUME TypeOK, NEW c \in Cmd,
           SendSucceeds(c) \/ SendFails(c) \/ SendsPart(c) \/ ExpiredUnsent(c)
    PROVE  Moved /\ sendErrors' \in Nat
<1> USE DEF sockVars, wireVars, queueVars, errVars
<1>1. <<c>> \in Seq(Cmd) /\ Append(up, c) \in Seq(Cmd) /\ Append(toReceive, c) \in Seq(Cmd)
  BY DEF TypeOK, SocketTypes, QueueTypes
<1>2. ASSUME Fail(<<c>>) PROVE errs' \subseteq Cmd /\ reported' \in [Cmd -> Nat]
  BY <1>1, <1>2, FailTypes DEF TypeOK
<1>3. CASE SendSucceeds(c)
  BY <1>1, <1>3 DEF SendSucceeds, Moved, TypeOK, SocketTypes, QueueTypes, CommandTypes
<1>4. CASE SendFails(c)
  <2>1. CASE Disconnect(<<c>>)
    <3>1. Moved
      BY <1>1, <2>1, DisconnectTypes
    <3> QED  BY <1>4, <3>1 DEF SendFails, TypeOK, QueueTypes
  <2>2. CASE Fail(<<c>>) /\ UNCHANGED <<sockVars, wireVars, queueVars>>
    <3>1. sendErrors' = sendErrors + 1
      BY <1>4 DEF SendFails
    <3>2. UNCHANGED <<state, so, opened, link, watched, up, down, toSend, toReceive, half>>
      BY <2>2
    <3>3. SocketTypes'
      BY <3>2 DEF TypeOK, SocketTypes
    <3> QED  BY <1>2, <2>2, <3>1, <3>2, <3>3 DEF Moved, TypeOK, QueueTypes
  <2> QED  BY <1>4, <2>1, <2>2 DEF SendFails
<1>5. CASE SendsPart(c)
  BY <1>1, <1>2, <1>5 DEF SendsPart, Moved, TypeOK, SocketTypes, QueueTypes
<1>6. CASE ExpiredUnsent(c)
  BY <1>2, <1>6 DEF ExpiredUnsent, Moved, TypeOK, SocketTypes, QueueTypes
<1> QED  BY <1>3, <1>4, <1>5, <1>6

LEMMA AnswerType == ASSUME NEW c \in Cmd PROVE Answer(c) \in Seq(Unit)
<1>1. CR \in Unit /\ LF \in Unit /\ \A k \in {"int", "head", "body"} : Text(c, k) \in Unit
  BY DEF CR, LF, Text, Unit
<1> QED  BY <1>1 DEF Answer

LEMMA CallerTypes ==
    ASSUME TypeOK, NEW c \in Cmd, Caller(c)
    PROVE  TypeOK'
<1> USE DEF dispVars
<1>1. ASSUME NEW label \in CmdPc, Goto(c, label) PROVE pc' \in [Cmd -> CmdPc]
  BY <1>1 DEF Goto, TypeOK, CommandTypes
<1>2. ASSUME UNCHANGED <<lock, dispVars>> PROVE DispatcherTypes'
  BY <1>2 DEF TypeOK, DispatcherTypes
<1>3. ASSUME Moved, sendErrors' \in Nat, UNCHANGED <<buf, reply, replied, failed>>, pc' \in [Cmd -> CmdPc]
      PROVE  SocketTypes' /\ QueueTypes' /\ CommandTypes'
  BY <1>3 DEF Moved, TypeOK, QueueTypes, CommandTypes
<1>4. CASE SendCommand(c)
  <2>1. UNCHANGED <<toReceive, half, sendErrors, buf, lock, reply, replied, failed, dispVars>>
    BY <1>4 DEF SendCommand
  <2>2. pc' \in [Cmd -> CmdPc]
    <3>1. Goto(c, "wait") \/ Goto(c, "line") \/ Goto(c, "rdeClientError")
      BY <1>4 DEF SendCommand
    <3> QED  BY <1>1, <3>1 DEF CmdPc
  <2>3. toSend' \in Seq(Cmd) /\ errs' \subseteq Cmd /\ reported' \in [Cmd -> Nat]
    <3>1. CASE Pend(c, toSend)
      BY <3>1, PendTypes
    <3>2. CASE Fail(<<c>>) /\ UNCHANGED toSend
      <4>1. <<c>> \in Seq(Cmd)
        OBVIOUS
      <4> QED  BY <3>2, <4>1, FailTypes DEF TypeOK, QueueTypes
    <3>3. CASE UNCHANGED <<toSend, errVars>>
      BY <3>3 DEF errVars, TypeOK, QueueTypes, CommandTypes
    <3> QED  BY <1>4, <3>1, <3>2, <3>3 DEF SendCommand
  <2>4. SocketTypes'
    <3>1. CASE UNCHANGED <<sockVars, wireVars>>
      BY <3>1 DEF sockVars, wireVars, TypeOK, SocketTypes
    <3> QED  BY <1>4, <3>1, ConnectTypes DEF SendCommand
  <2>5. Moved /\ sendErrors' \in Nat
    BY <2>1, <2>3, <2>4 DEF Moved, TypeOK, QueueTypes
  <2> QED  BY <1>2, <1>3, <2>1, <2>2, <2>5 DEF TypeOK
<1>5. CASE SendLine(c)
  <2>1. pc' \in [Cmd -> CmdPc]
    <3>1. Goto(c, "wait") \/ Goto(c, "rdeClientError")
      BY <1>5 DEF SendLine
    <3> QED  BY <1>1, <3>1 DEF CmdPc
  <2>2. UNCHANGED <<buf, lock, reply, replied, failed, dispVars>>
    BY <1>5 DEF SendLine
  <2>3. Moved /\ sendErrors' \in Nat
    BY <1>5, SendTypes DEF SendLine
  <2> QED  BY <1>2, <1>3, <2>1, <2>2, <2>3 DEF TypeOK
<1>6. CASE RunErr(c)
  BY <1>2, <1>6 DEF RunErr, TypeOK, SocketTypes, QueueTypes, CommandTypes, sockVars, wireVars, queueVars
<1>7. CASE Wait(c)
  <2>1. pc' \in [Cmd -> CmdPc]
    <3>1. Goto(c, "rdeRequestTimeout") \/ Goto(c, "rdeOK") \/ Goto(c, "rdeNil")
      BY <1>7 DEF Wait
    <3> QED  BY <1>1, <3>1 DEF CmdPc
  <2>2. UNCHANGED <<sockVars, wireVars, queueVars, sendErrors, buf, lock, reply, replied,
                    errVars, failed, dispVars>>
    BY <1>7 DEF Wait
  <2> QED  BY <1>2, <2>1, <2>2 DEF TypeOK, SocketTypes, QueueTypes, CommandTypes, sockVars, wireVars, queueVars, errVars
<1> QED  BY <1>4, <1>5, <1>6, <1>7 DEF Caller

LEMMA OutsideTypes ==
    ASSUME TypeOK, DisconnectCalled \/ ServerAnswers \/ Network
    PROVE  TypeOK'
<1> USE DEF TypeOK, dispVars
<1>1. CASE DisconnectCalled
  <2>1. <<>> \in Seq(Cmd)
    OBVIOUS
  <2>2. Moved
    BY <1>1, <2>1, DisconnectTypes DEF DisconnectCalled
  <2> QED  BY <1>1, <2>2 DEF DisconnectCalled, Moved, QueueTypes, CommandTypes, DispatcherTypes
<1>2. CASE ServerAnswers
  <2>1. Tail(up) \in Seq(Cmd) /\ Head(up) \in Cmd
    BY <1>2 DEF ServerAnswers, SocketTypes
  <2>2. down \o Answer(Head(up)) \in Seq(Unit)
    BY <2>1, AnswerType DEF SocketTypes
  <2> QED  BY <1>2, <2>1, <2>2 DEF ServerAnswers, SocketTypes, QueueTypes, CommandTypes,
       DispatcherTypes, sockVars, queueVars, errVars
<1>3. CASE Network
  <2>1. <<>> \in Seq(Cmd)
    OBVIOUS
  <2> QED  BY <1>3, <2>1 DEF Network, SocketTypes, QueueTypes, CommandTypes,
       DispatcherTypes, queueVars, errVars
<1> QED  BY <1>1, <1>2, <1>3

\* The lock goes with the dispatcher that flushes the queue.
LEMMA DispatcherGoes ==
    ASSUME TypeOK, NEW d \in Dispatcher, NEW label \in DispatcherPc, DGoto(d, label),
           work' \in [Dispatcher -> Seq(Cmd)],
           \/ lock' = lock /\ dpc[d] # "flushing" /\ label # "flushing"
           \/ lock = NoDispatcher /\ lock' = d /\ label = "flushing"
           \/ dpc[d] = "flushing" /\ lock' = NoDispatcher /\ label # "flushing"
    PROVE  DispatcherTypes'
<1>1. dpc' \in [Dispatcher -> DispatcherPc] /\ dpc'[d] = label /\ \A e \in Dispatcher \ {d} : dpc'[e] = dpc[e]
  BY DEF TypeOK, DispatcherTypes, DGoto
<1>2. lock' \in Dispatcher \cup {NoDispatcher}
  BY DEF TypeOK, DispatcherTypes
<1>3. \A e \in Dispatcher : lock' = e <=> dpc'[e] = "flushing"
  BY <1>1, DispatcherAssumption DEF TypeOK, DispatcherTypes
<1> QED  BY <1>1, <1>2, <1>3 DEF DispatcherTypes

LEMMA DispatcherRunsTypes ==
    ASSUME TypeOK, NEW d \in Dispatcher, Dispatch(d) \/ DispatcherRuns(d)
    PROVE  TypeOK'
<1> USE DEF sockVars, wireVars, queueVars, errVars
<1>0. /\ work \in [Dispatcher -> Seq(Cmd)] /\ <<>> \in Seq(Unit) /\ <<>> \in Seq(Cmd)
      /\ {"idle", "connected", "flush", "flushing", "read", "reply", "error"} = DispatcherPc
  BY DEF TypeOK, DispatcherTypes, DispatcherPc
<1>1. ASSUME UNCHANGED <<sockVars, wireVars>> PROVE SocketTypes'
  BY <1>1 DEF TypeOK, SocketTypes
<1>2. ASSUME UNCHANGED <<queueVars, sendErrors, buf>> PROVE QueueTypes'
  BY <1>2 DEF TypeOK, QueueTypes
<1>3. ASSUME UNCHANGED <<pc, reply, replied, errVars, failed>> PROVE CommandTypes'
  BY <1>3 DEF TypeOK, CommandTypes
<1>4. CASE Dispatch(d)
  <2>1. /\ UNCHANGED <<so, opened, link, watched, wireVars, queueVars, sendErrors, lock, pc,
                       reply, replied, errVars, failed, work>>
        /\ dpc[d] = "idle" /\ state' \in {state, "connected"} /\ buf' \in {buf, <<>>}
        /\ \E label \in DispatcherPc \ {"flushing"} : DGoto(d, label)
    BY <1>0, <1>4 DEF Dispatch, SetConnected
  <2>2. DispatcherTypes'
    BY <1>0, <2>1, DispatcherGoes
  <2>3. SocketTypes' /\ QueueTypes'
    BY <1>0, <2>1 DEF TypeOK, SocketTypes, QueueTypes
  <2> QED  BY <1>3, <2>1, <2>2, <2>3 DEF TypeOK
<1>5. CASE Connected(d)
  <2>1. /\ UNCHANGED <<so, opened, link, watched, wireVars, queueVars, sendErrors, lock, pc,
                       reply, replied, errVars, failed, work>>
        /\ dpc[d] = "connected" /\ state' = "connected" /\ buf' = <<>> /\ DGoto(d, "flush")
    BY <1>5 DEF Connected, SetConnected
  <2>2. DispatcherTypes'
    BY <1>0, <2>1, DispatcherGoes
  <2>3. SocketTypes' /\ QueueTypes'
    BY <1>0, <2>1 DEF TypeOK, SocketTypes, QueueTypes
  <2> QED  BY <1>3, <2>1, <2>2, <2>3 DEF TypeOK
<1>6. CASE Flush(d)
  <2>1. /\ dpc[d] = "flush" /\ lock = NoDispatcher /\ lock' = d /\ DGoto(d, "flushing")
        /\ work' = [work EXCEPT ![d] = toSend] /\ toSend' = <<>>
        /\ UNCHANGED <<sockVars, wireVars, toReceive, half, sendErrors, buf, pc, reply,
                       replied, errVars, failed>>
    BY <1>6 DEF Flush
  <2>2. work' \in [Dispatcher -> Seq(Cmd)]
    BY <1>0, <2>1 DEF TypeOK, QueueTypes
  <2>3. DispatcherTypes'
    BY <1>0, <2>1, <2>2, DispatcherGoes
  <2>4. QueueTypes'
    BY <1>0, <2>1 DEF TypeOK, QueueTypes
  <2> QED  BY <1>1, <1>3, <2>1, <2>3, <2>4 DEF TypeOK
<1>7. CASE FlushNext(d)
  <2> DEFINE c == Head(work[d])
  <2>1. /\ work[d] \in Seq(Cmd) /\ work[d] # <<>> /\ dpc[d] = "flushing"
        /\ UNCHANGED <<buf, lock, pc, reply, replied, failed, dpc>>
    BY <1>0, <1>7 DEF FlushNext
  <2>2. c \in Cmd /\ Tail(work[d]) \in Seq(Cmd)
    BY <2>1
  <2> HIDE DEF c
  <2>3. work' \in [Dispatcher -> Seq(Cmd)]
    <3>1. work' = work \/ work' = [work EXCEPT ![d] = Tail(@)]
      BY <1>7 DEF FlushNext
    <3> QED  BY <1>0, <2>2, <3>1
  <2>4. Moved /\ sendErrors' \in Nat
    <3>1. CASE SendSucceeds(c) \/ SendFails(c) \/ SendsPart(c) \/ ExpiredUnsent(c)
      BY <2>2, <3>1, SendTypes
    <3>2. CASE /\ UNCHANGED <<toReceive, half, sendErrors>>
               /\ UNCHANGED <<sockVars, wireVars>> \/ ConnectInProgress \/ ConnectUnreachable
               /\ Pend(c, toSend) \/ (Fail(<<c>>) /\ UNCHANGED toSend) \/ UNCHANGED <<toSend, errVars>>
      <4>1. <<c>> \in Seq(Cmd)
        BY <2>2
      <4>2. toSend' \in Seq(Cmd) /\ errs' \subseteq Cmd /\ reported' \in [Cmd -> Nat]
        <5>1. CASE Pend(c, toSend)
          BY <2>2, <5>1, PendTypes
        <5>2. CASE Fail(<<c>>) /\ UNCHANGED toSend
          BY <4>1, <5>2, FailTypes DEF TypeOK, QueueTypes
        <5>3. CASE UNCHANGED <<toSend, errVars>>
          BY <5>3 DEF TypeOK, QueueTypes, CommandTypes
        <5> QED  BY <3>2, <5>1, <5>2, <5>3
      <4>3. SocketTypes'
        BY <1>1, <3>2, ConnectTypes
      <4> QED  BY <3>2, <4>2, <4>3 DEF Moved, TypeOK, QueueTypes
    <3> QED  BY <1>7, <3>1, <3>2 DEF FlushNext, c
  <2> QED  BY <2>1, <2>3, <2>4 DEF Moved, TypeOK, QueueTypes, CommandTypes, DispatcherTypes
<1>8. CASE Flushed(d)
  <2>1. /\ dpc[d] = "flushing" /\ lock' = NoDispatcher /\ DGoto(d, "idle") /\ work' = work
    BY <1>8 DEF Flushed
  <2>2. DispatcherTypes'
    BY <1>0, <2>1, DispatcherGoes
  <2> QED  BY <1>1, <1>2, <1>3, <1>8, <2>2 DEF Flushed, TypeOK
<1>9. CASE OnError(d)
  <2>1. /\ dpc[d] = "error" /\ Disconnect(<<>>) /\ DGoto(d, "idle")
        /\ UNCHANGED <<sendErrors, buf, lock, pc, reply, replied, failed, work>>
    BY <1>9 DEF OnError
  <2>2. DispatcherTypes'
    BY <1>0, <2>1, DispatcherGoes
  <2>3. Moved
    BY <1>0, <2>1, DisconnectTypes
  <2> QED  BY <2>1, <2>2, <2>3 DEF Moved, TypeOK, QueueTypes, CommandTypes
<1>10. CASE OnDataArrived(d)
  <2>0. dpc[d] = "read" /\ UNCHANGED <<lock, pc, replied, failed>>
    BY <1>10 DEF OnDataArrived
  <2>1. CASE DataArrives(d)
    <3>1. PICK k \in Chunk :
            /\ down' = SubSeq(down, k + 1, Len(down))
            /\ \/ DGoto(d, "idle") /\ UNCHANGED <<buf, toReceive, half, reply, work>>
               \/ LET b == buf \o SubSeq(down, 1, k)
                      p == Scan(b)
                  IN  /\ buf' = Unhandled(p, b)
                      /\ toReceive' = p.q /\ half' = p.half /\ reply' = p.reply
                      /\ work' = [work EXCEPT ![d] = p.done]
                      /\ DGoto(d, "reply")
      BY <2>1 DEF DataArrives
    <3> DEFINE b == buf \o SubSeq(down, 1, k)
               p == Scan(b)
    <3>2. k \in 1..Len(down) /\ down \in Seq(Unit) /\ buf \in Seq(Unit)
      BY DEF Chunk, TypeOK, SocketTypes, QueueTypes
    <3>3. b \in Seq(Unit) /\ SubSeq(down, k + 1, Len(down)) \in Seq(Unit)
      BY <3>2
    <3>4. p \in ParserType
      BY <3>3, ScanInOrder DEF TypeOK, InOrder
    <3>5. Unhandled(p, b) \in Seq(Unit)
      BY <3>2, <3>4 DEF Unhandled, ParserType
    <3>6. /\ buf' \in Seq(Unit) /\ toReceive' \in Seq(Cmd) /\ half' \in BOOLEAN
          /\ reply' \in [Cmd -> Seq(Unit)] /\ work' \in [Dispatcher -> Seq(Cmd)]
          /\ DGoto(d, "idle") \/ DGoto(d, "reply")
      <4>1. CASE DGoto(d, "idle") /\ UNCHANGED <<buf, toReceive, half, reply, work>>
        BY <1>0, <4>1 DEF TypeOK, QueueTypes, CommandTypes
      <4>2. CASE /\ buf' = Unhandled(p, b)
                 /\ toReceive' = p.q /\ half' = p.half /\ reply' = p.reply
                 /\ work' = [work EXCEPT ![d] = p.done]
                 /\ DGoto(d, "reply")
        <5> HIDE DEF p, b
        <5> QED  BY <1>0, <3>4, <3>5, <4>2 DEF ParserType
      <4> QED  BY <3>1, <4>1, <4>2
    <3>7. DispatcherTypes'
      BY <1>0, <2>0, <3>6, DispatcherGoes
    <3>8. down' \in Seq(Unit)
      BY <3>1, <3>3
    <3>9. UNCHANGED <<sockVars, up, toSend, errVars>> /\ sendErrors' = 0
      BY <2>1 DEF DataArrives
    <3>10. SocketTypes'
      BY <3>8, <3>9 DEF TypeOK, SocketTypes
    <3>11. QueueTypes' /\ CommandTypes'
      BY <2>0, <3>6, <3>9 DEF TypeOK, QueueTypes, CommandTypes
    <3> QED  BY <3>7, <3>10, <3>11 DEF TypeOK
  <2>2. CASE NoData(d)
    <3>1. DispatcherTypes'
      BY <1>0, <2>0, <2>2, DispatcherGoes DEF NoData
    <3> QED  BY <1>1, <1>2, <1>3, <2>0, <2>2, <3>1 DEF NoData, TypeOK
  <2>3. CASE ReadFails(d)
    <3>1. DispatcherTypes'
      BY <1>0, <2>0, <2>3, DispatcherGoes DEF ReadFails
    <3>2. Moved
      BY <1>0, <2>3, DisconnectTypes DEF ReadFails
    <3> QED  BY <2>0, <2>3, <3>1, <3>2 DEF ReadFails, Moved, TypeOK, QueueTypes, CommandTypes
  <2> QED  BY <1>10, <2>1, <2>2, <2>3 DEF OnDataArrived
<1>11. CASE OnReply(d)
  <2>1. /\ dpc[d] = "reply"
        /\ UNCHANGED <<sockVars, wireVars, queueVars, sendErrors, buf, lock, pc, reply, errs, failed>>
    BY <1>11 DEF OnReply
  <2>2. CASE work[d] = <<>>
    <3>1. DGoto(d, "idle") /\ UNCHANGED <<work, replied, reported>>
      BY <1>11, <2>2 DEF OnReply
    <3>2. DispatcherTypes'
      BY <1>0, <2>1, <3>1, DispatcherGoes
    <3> QED  BY <1>1, <1>2, <1>3, <2>1, <3>1, <3>2 DEF TypeOK
  <2>3. CASE work[d] # <<>>
    <3>1. /\ work' = [work EXCEPT ![d] = Tail(@)] /\ replied' = replied \cup {Head(work[d])}
          /\ reported' = [reported EXCEPT ![Head(work[d])] = @ + 1] /\ dpc' = dpc
      BY <1>11, <2>3 DEF OnReply
    <3>2. work[d] \in Seq(Cmd) /\ Head(work[d]) \in Cmd /\ Tail(work[d]) \in Seq(Cmd)
      BY <1>0, <2>3
    <3>3. DispatcherTypes'
      BY <1>0, <2>1, <3>1, <3>2 DEF TypeOK, DispatcherTypes
    <3>4. CommandTypes'
      BY <2>1, <3>1, <3>2 DEF TypeOK, CommandTypes
    <3> QED  BY <1>1, <1>2, <2>1, <3>3, <3>4 DEF TypeOK
  <2> QED  BY <2>2, <2>3
<1> QED  BY <1>4, <1>5, <1>6, <1>7, <1>8, <1>9, <1>10, <1>11 DEF DispatcherRuns

\* Queues, buffer, commands and dispatchers keep their types, whatever the
\* server answers and wherever it is cut; _lockCommandQueue is kept over several
\* steps only by the dispatcher that flushes the queue.
THEOREM TypeCorrect == Spec => []TypeOK
<1>1. ASSUME Init PROVE TypeOK
  <2>1. <<>> \in Seq(Cmd) /\ <<>> \in Seq(Unit) /\ 0 \in 0..MaxConn
    BY BoundAssumption
  <2>2. SocketTypes
    <3>1. /\ state = "initial" /\ so = 0 /\ opened = 0 /\ link = "none" /\ watched = FALSE
          /\ up = <<>> /\ down = <<>>
      BY <1>1 DEF Init
    <3>2. opened \in 0..MaxConn /\ so \in 0..opened
      BY <2>1, <3>1
    <3> QED  BY <2>1, <3>1, <3>2 DEF SocketTypes
  <2>3. QueueTypes
    BY <1>1, <2>1 DEF Init, QueueTypes
  <2>4. CommandTypes
    BY <1>1, <2>1 DEF Init, CommandTypes, CmdPc
  <2>5. DispatcherTypes
    BY <1>1, <2>1, DispatcherAssumption DEF Init, DispatcherTypes, DispatcherPc
  <2> QED  BY <2>2, <2>3, <2>4, <2>5 DEF TypeOK
<1>2. ASSUME TypeOK, [Next]_vars PROVE TypeOK'
  <2>1. CASE UNCHANGED vars
    BY <1>2, <2>1 DEF vars, sockVars, wireVars, queueVars, errVars, dispVars, TypeOK,
       SocketTypes, QueueTypes, CommandTypes, DispatcherTypes
  <2> QED  BY <1>2, <2>1, CallerTypes, OutsideTypes, DispatcherRunsTypes DEF Next
<1> QED  BY <1>1, <1>2, PTL DEF Spec

-----------------------------------------------------------------------------
(* A command is told its end once. *)

\* The commands that somebody is still going to report.
Waiting == ToSet(toSend) \cup ToSet(toReceive) \cup UNION {ToSet(work[d]) : d \in Dispatcher}

\* Each is in one place, once.
OnePlace ==
    /\ IsInjective(toSend) /\ IsInjective(toReceive)
    /\ ToSet(toSend) \cap ToSet(toReceive) = {}
    /\ \A d \in Dispatcher :
          /\ IsInjective(work[d])
          /\ ToSet(work[d]) \cap (ToSet(toSend) \cup ToSet(toReceive)) = {}
          /\ \A e \in Dispatcher \ {d} : ToSet(work[d]) \cap ToSet(work[e]) = {}

\* Being in a place, or not having been queued yet, is what gives the right to
\* be reported.
Owed ==
    /\ \A c \in Waiting : reported[c] = 0 /\ pc[c] \notin {"idle", "line"}
    /\ \A c \in Cmd : pc[c] \in {"idle", "line"} => reported[c] = 0

\* The inductive invariant.
OnceInv == OnePlace /\ Owed /\ ReportedOnce

\* What a step reports: RedisErrCmds of the commands in T.
Told(T) == reported' = [c \in Cmd |-> IF c \in T THEN reported[c] + 1 ELSE reported[c]]

LEMMA FailTells ==
    ASSUME CommandTypes, NEW cmds \in Seq(Cmd), IsInjective(cmds), Fail(cmds)
    PROVE  Told(ToSet(cmds))
<1>1. \A c \in Cmd : Cardinality({i \in DOMAIN cmds : cmds[i] = c}) = IF c \in ToSet(cmds) THEN 1 ELSE 0
  BY OccursOnce
<1> QED  BY <1>1 DEF Fail, Told, CommandTypes

\* What the parts of sendCommand() and of a closing do to the queues and to the
\* commands of C, of which there is one or none: some are told, and those stay
\* in no queue.
Disposed(C) ==
    /\ IsInjective(toSend') /\ IsInjective(toReceive')
    /\ ToSet(toSend') \cap ToSet(toReceive') = {}
    /\ ToSet(toSend') \cup ToSet(toReceive') \subseteq ToSet(toSend) \cup ToSet(toReceive) \cup C
    /\ \E T \in SUBSET (ToSet(toSend) \cup ToSet(toReceive) \cup C) :
          Told(T) /\ T \cap (ToSet(toSend') \cup ToSet(toReceive')) = {}

LEMMA Settle ==
    ASSUME TypeOK, OnceInv, NEW C \in SUBSET Cmd, Disposed(C),
           C \cap (ToSet(toSend) \cup ToSet(toReceive)) = {},
           \A c \in C : reported[c] = 0 /\ pc'[c] \notin {"idle", "line"},
           \A c \in Cmd : pc'[c] \in {"idle", "line"} => pc[c] \in {"idle", "line"},
           \A d \in Dispatcher : /\ IsInjective(work'[d]) /\ ToSet(work'[d]) \subseteq ToSet(work[d])
                                 /\ ToSet(work'[d]) \cap C = {}
    PROVE  OnceInv'
<1>1. PICK T \in SUBSET (ToSet(toSend) \cup ToSet(toReceive) \cup C) :
        Told(T) /\ T \cap (ToSet(toSend') \cup ToSet(toReceive')) = {}
  BY DEF Disposed
<1>2. /\ ToSet(toSend) \subseteq Cmd /\ ToSet(toReceive) \subseteq Cmd
      /\ \A d \in Dispatcher : ToSet(work[d]) \subseteq Cmd
      /\ reported \in [Cmd -> Nat]
  BY ElementsOf DEF TypeOK, QueueTypes, DispatcherTypes, CommandTypes
<1>3. OnePlace'
  <2>1. /\ IsInjective(toSend') /\ IsInjective(toReceive')
        /\ ToSet(toSend') \cap ToSet(toReceive') = {}
        /\ ToSet(toSend') \cup ToSet(toReceive') \subseteq ToSet(toSend) \cup ToSet(toReceive) \cup C
    BY DEF Disposed
  <2>2. ASSUME NEW d \in Dispatcher
        PROVE  /\ IsInjective(work'[d])
               /\ ToSet(work'[d]) \cap (ToSet(toSend') \cup ToSet(toReceive')) = {}
               /\ \A e \in Dispatcher \ {d} : ToSet(work'[d]) \cap ToSet(work'[e]) = {}
    BY <2>1 DEF OnceInv, OnePlace
  <2> QED  BY <2>1, <2>2 DEF OnePlace
<1>4. \A c \in T : reported[c] = 0
  BY DEF OnceInv, Owed, Waiting
<1>5. Waiting' \subseteq Waiting \cup C
  BY DEF Disposed, Waiting
<1>6. T \cap Waiting' = {}
  <2>1. \A d \in Dispatcher : T \cap ToSet(work'[d]) = {}
    BY DEF OnceInv, OnePlace
  <2> QED  BY <1>1, <2>1 DEF Waiting
<1>7. \A c \in T : pc'[c] \notin {"idle", "line"}
  BY <1>2 DEF OnceInv, Owed, Waiting
<1>8. Waiting \subseteq Cmd
  BY <1>2 DEF Waiting
<1>9. \A c \in Waiting' : reported'[c] = 0 /\ pc'[c] \notin {"idle", "line"}
  BY <1>1, <1>5, <1>6, <1>8 DEF OnceInv, Owed, Told
<1>10. \A c \in Cmd : pc'[c] \in {"idle", "line"} => reported'[c] = 0
  BY <1>1, <1>7 DEF OnceInv, Owed, Told
<1>11. ReportedOnce'
  BY <1>1, <1>2, <1>4 DEF OnceInv, ReportedOnce, Told
<1> QED  BY <1>3, <1>9, <1>10, <1>11 DEF OnceInv, Owed

\* Commands that change the place are still in one.
LEMMA Shifted ==
    ASSUME TypeOK, OnceInv, UNCHANGED <<reported, pc>>, NEW d \in Dispatcher, NEW w \in Seq(Cmd),
           work' = [work EXCEPT ![d] = w], IsInjective(w),
           IsInjective(toSend'), IsInjective(toReceive'),
           ToSet(toSend') \subseteq ToSet(toSend), ToSet(toReceive') \subseteq ToSet(toReceive),
           ToSet(w) \subseteq ToSet(toSend) \cup ToSet(toReceive),
           ToSet(w) \cap (ToSet(toSend') \cup ToSet(toReceive')) = {}
    PROVE  OnceInv'
<1>1. work'[d] = w /\ \A e \in Dispatcher \ {d} : work'[e] = work[e]
  BY DEF TypeOK, DispatcherTypes
<1>2. ASSUME NEW e \in Dispatcher
      PROVE  /\ IsInjective(work'[e])
             /\ ToSet(work'[e]) \cap (ToSet(toSend') \cup ToSet(toReceive')) = {}
             /\ \A f \in Dispatcher \ {e} : ToSet(work'[e]) \cap ToSet(work'[f]) = {}
  <2>1. CASE e = d
    BY <1>1, <2>1 DEF OnceInv, OnePlace
  <2>2. CASE e # d
    BY <1>1, <2>2 DEF OnceInv, OnePlace
  <2> QED  BY <2>1, <2>2
<1>3. OnePlace'
  BY <1>2 DEF OnceInv, OnePlace
<1>4. Waiting' \subseteq Waiting
  BY <1>1 DEF Waiting
<1> QED  BY <1>3, <1>4 DEF OnceInv, Owed, ReportedOnce

\* A step that has nothing to do with all this.
LEMMA OnceUntouched ==
    ASSUME OnceInv, UNCHANGED <<toSend, toReceive, work, reported>>,
           \A c \in Cmd : pc'[c] \in {"idle", "line"} <=> pc[c] \in {"idle", "line"}, Waiting \subseteq Cmd
    PROVE  OnceInv'
<1>1. Waiting' = Waiting
  BY DEF Waiting
<1> QED  BY <1>1 DEF OnceInv, OnePlace, Owed, ReportedOnce

-----------------------------------------------------------------------------
LEMMA NothingOnce ==
    IsInjective(<<>>) /\ \A c : IsInjective(<<c>>) /\ ToSet(<<c>>) = {c}
BY DEF IsInjective, ToSet

LEMMA FailDisposes ==
    ASSUME TypeOK, OnePlace, NEW c \in Cmd, c \notin ToSet(toSend) \cup ToSet(toReceive),
           Fail(<<c>>), UNCHANGED <<toSend, toReceive>>
    PROVE  Disposed({c})
<1>1. <<c>> \in Seq(Cmd) /\ IsInjective(<<c>>) /\ ToSet(<<c>>) = {c}
  BY NothingOnce
<1>2. Told({c})
  BY <1>1, FailTells DEF TypeOK
<1> QED  BY <1>2 DEF Disposed, OnePlace

LEMMA PendDisposes ==
    ASSUME TypeOK, OnePlace, NEW c \in Cmd, c \notin ToSet(toSend) \cup ToSet(toReceive),
           Pend(c, toSend), UNCHANGED toReceive
    PROVE  Disposed({c})
<1> DEFINE long == Append(toSend, c)
<1>1. long \in Seq(Cmd) /\ IsInjective(long) /\ ToSet(long) = ToSet(toSend) \cup {c}
  BY ElementsOfAppend, OnceAppend DEF TypeOK, QueueTypes, OnePlace
<1>2. PICK n \in 0..Len(long) : toSend' = SubSeq(long, n + 1, Len(long)) /\ Fail(SubSeq(long, 1, n))
  BY DEF Pend
<1> HIDE DEF long
<1> DEFINE front == SubSeq(long, 1, n)
           back  == SubSeq(long, n + 1, Len(long))
<1>3. /\ front \in Seq(Cmd) /\ IsInjective(front) /\ IsInjective(back)
      /\ ToSet(front) \cap ToSet(back) = {} /\ ToSet(front) \cup ToSet(back) = ToSet(long)
  BY <1>1, OnceParts
<1> HIDE DEF front, back
<1>4. toSend' = back /\ Fail(front)
  BY <1>2 DEF front, back
<1>5. Told(ToSet(front))
  BY <1>3, <1>4, FailTells DEF TypeOK
<1>6. /\ IsInjective(toSend') /\ IsInjective(toReceive')
      /\ ToSet(toSend') \cap ToSet(toReceive') = {}
      /\ ToSet(toSend') \subseteq ToSet(toSend) \cup {c}
      /\ ToSet(front) \subseteq ToSet(toSend) \cup {c}
      /\ ToSet(front) \cap (ToSet(toSend') \cup ToSet(toReceive')) = {}
  BY <1>1, <1>3, <1>4 DEF OnePlace
<1> QED  BY <1>5, <1>6 DEF Disposed

\* A closing tells all, and one command more.
LEMMA DisconnectTells ==
    ASSUME TypeOK, OnePlace, NEW extra \in Seq(Cmd), IsInjective(extra),
           ToSet(extra) \cap (ToSet(toSend) \cup ToSet(toReceive)) = {}, Disconnect(extra)
    PROVE  Told(ToSet(toSend) \cup ToSet(toReceive) \cup ToSet(extra))
<1>1. /\ toSend \in Seq(Cmd) /\ toReceive \in Seq(Cmd)
      /\ IsInjective(toSend) /\ IsInjective(toReceive) /\ ToSet(toSend) \cap ToSet(toReceive) = {}
  BY DEF TypeOK, QueueTypes, OnePlace
<1> DEFINE both == toSend \o toReceive
<1>2. both \in Seq(Cmd) /\ IsInjective(both) /\ ToSet(both) = ToSet(toSend) \cup ToSet(toReceive)
  BY <1>1, ElementsOfConcat, OnceConcat
<1> HIDE DEF both
<1>3. /\ both \o extra \in Seq(Cmd) /\ IsInjective(both \o extra)
      /\ ToSet(both \o extra) = ToSet(both) \cup ToSet(extra)
  BY <1>2, ElementsOfConcat, OnceConcat
<1>4. Fail(both \o extra)
  BY DEF Disconnect, both
<1>5. Told(ToSet(both \o extra))
  BY <1>3, <1>4, FailTells DEF TypeOK
<1> QED  BY <1>2, <1>3, <1>5

LEMMA DisconnectDisposes ==
    ASSUME TypeOK, OnePlace, NEW extra \in Seq(Cmd), IsInjective(extra),
           ToSet(extra) \cap (ToSet(toSend) \cup ToSet(toReceive)) = {}, Disconnect(extra)
    PROVE  Disposed(ToSet(extra))
<1>1. toSend' = <<>> /\ toReceive' = <<>>
  BY DEF Disconnect
<1> QED  BY <1>1, DisconnectTells, NothingOnce, ElementsOfEmpty DEF Disposed

LEMMA SendDisposes ==
    ASSUME TypeOK, OnePlace, NEW c \in Cmd, c \notin ToSet(toSend) \cup ToSet(toReceive),
           SendSucceeds(c) \/ SendFails(c) \/ SendsPart(c) \/ ExpiredUnsent(c)
    PROVE  Disposed({c})
<1> USE DEF queueVars
<1>1. CASE SendSucceeds(c)
  <2>1. /\ IsInjective(Append(toReceive, c)) /\ ToSet(Append(toReceive, c)) = ToSet(toReceive) \cup {c}
    BY ElementsOfAppend, OnceAppend DEF TypeOK, QueueTypes, OnePlace
  <2>2. toReceive' = Append(toReceive, c) /\ toSend' = toSend /\ reported' = reported
    BY <1>1 DEF SendSucceeds, errVars
  <2>3. Told({})
    BY <2>2 DEF Told, TypeOK, CommandTypes
  <2>4. /\ IsInjective(toSend') /\ IsInjective(toReceive')
        /\ ToSet(toSend') \cap ToSet(toReceive') = {}
        /\ ToSet(toSend') \cup ToSet(toReceive') \subseteq ToSet(toSend) \cup ToSet(toReceive) \cup {c}
    BY <2>1, <2>2 DEF OnePlace
  <2> QED  BY <2>3, <2>4 DEF Disposed
<1>2. CASE SendFails(c)
  <2>1. CASE Disconnect(<<c>>)
    <3>1. <<c>> \in Seq(Cmd) /\ IsInjective(<<c>>) /\ ToSet(<<c>>) = {c}
      BY NothingOnce
    <3> QED  BY <2>1, <3>1, DisconnectDisposes
  <2> QED  BY <1>2, <2>1, FailDisposes DEF SendFails
<1>3. CASE SendsPart(c) \/ ExpiredUnsent(c)
  BY <1>3, FailDisposes DEF SendsPart, ExpiredUnsent
<1> QED  BY <1>1, <1>2, <1>3

-----------------------------------------------------------------------------
LEMMA CallerOnce ==
    ASSUME TypeOK, OnceInv, NEW c \in Cmd, Caller(c)
    PROVE  OnceInv'
<1> USE DEF dispVars, queueVars, errVars
<1>1. /\ OnePlace /\ pc \in [Cmd -> CmdPc] /\ work \in [Dispatcher -> Seq(Cmd)]
      /\ \A d \in Dispatcher : IsInjective(work[d])
  BY DEF OnceInv, OnePlace, TypeOK, CommandTypes, DispatcherTypes
<1>2. Waiting \subseteq Cmd
  BY <1>1, ElementsOf DEF Waiting, TypeOK, QueueTypes
\* A call disposes of its command.
<1>3. ASSUME pc[c] \in {"idle", "line"}, NEW label \in CmdPc \ {"idle", "line"}, Goto(c, label),
             work' = work, Disposed({c})
      PROVE  OnceInv'
  <2>1. c \notin Waiting /\ reported[c] = 0
    BY <1>3 DEF OnceInv, Owed
  <2>2. \A d \in Dispatcher : c \notin ToSet(work[d])
    BY <2>1 DEF Waiting
  <2>3. {c} \cap (ToSet(toSend) \cup ToSet(toReceive)) = {}
    BY <2>1 DEF Waiting
  <2>4. pc'[c] = label /\ \A e \in Cmd \ {c} : pc'[e] = pc[e]
    BY <1>1, <1>3 DEF Goto
  <2>5. \A e \in Cmd : pc'[e] \in {"idle", "line"} => pc[e] \in {"idle", "line"}
    BY <2>4
  <2>6. \A d \in Dispatcher : /\ IsInjective(work'[d]) /\ ToSet(work'[d]) \subseteq ToSet(work[d])
                              /\ ToSet(work'[d]) \cap {c} = {}
    BY <1>1, <1>3, <2>2
  <2>7. \A e \in {c} : reported[e] = 0 /\ pc'[e] \notin {"idle", "line"}
    BY <2>1, <2>4
  <2> QED  BY <1>3, <2>3, <2>5, <2>6, <2>7, Settle
<1>4. ASSUME pc[c] \in {"idle", "line"} PROVE c \notin ToSet(toSend) \cup ToSet(toReceive)
  BY <1>4 DEF OnceInv, Owed, Waiting
<1>5. CASE SendCommand(c)
  <2>1. pc[c] = "idle" /\ work' = work /\ toReceive' = toReceive
    BY <1>5 DEF SendCommand
  <2>2. CASE Pend(c, toSend) /\ Goto(c, "wait")
    BY <1>1, <1>3, <1>4, <2>1, <2>2, PendDisposes DEF CmdPc
  <2>3. CASE Fail(<<c>>) /\ Goto(c, "rdeClientError") /\ toSend' = toSend
    BY <1>1, <1>3, <1>4, <2>1, <2>3, FailDisposes DEF CmdPc
  <2>4. CASE Goto(c, "line") /\ UNCHANGED <<toSend, errVars>>
    <3>1. \A e \in Cmd : pc'[e] \in {"idle", "line"} <=> pc[e] \in {"idle", "line"}
      BY <1>1, <2>1, <2>4 DEF Goto
    <3> QED  BY <1>2, <2>1, <2>4, <3>1, OnceUntouched
  <2> QED  BY <1>5, <2>2, <2>3, <2>4 DEF SendCommand
<1>6. CASE SendLine(c)
  <2>1. pc[c] = "line" /\ work' = work /\ (Goto(c, "wait") \/ Goto(c, "rdeClientError"))
    BY <1>6 DEF SendLine
  <2>2. Disposed({c})
    BY <1>1, <1>4, <1>6, <2>1, SendDisposes DEF SendLine
  <2> QED  BY <1>3, <2>1, <2>2 DEF CmdPc
<1>7. CASE RunErr(c)
  BY <1>2, <1>7, OnceUntouched DEF RunErr
<1>8. CASE Wait(c)
  <2>1. \A e \in Cmd : pc'[e] \in {"idle", "line"} <=> pc[e] \in {"idle", "line"}
    BY <1>1, <1>8 DEF Wait, Goto
  <2> QED  BY <1>2, <1>8, <2>1, OnceUntouched DEF Wait
<1> QED  BY <1>5, <1>6, <1>7, <1>8 DEF Caller

\* disconnect() and OnError() dispose of all the commands in the queues.
LEMMA ClosingOnce ==
    ASSUME TypeOK, OnceInv, Disconnect(<<>>), UNCHANGED <<pc, work>>
    PROVE  OnceInv'
<1>1. OnePlace /\ \A d \in Dispatcher : IsInjective(work[d])
  BY DEF OnceInv, OnePlace
<1>2. <<>> \in Seq(Cmd) /\ IsInjective(<<>>) /\ ToSet(<<>>) = {}
  BY NothingOnce, ElementsOfEmpty
<1>3. Disposed({})
  BY <1>1, <1>2, DisconnectDisposes
<1> QED  BY <1>1, <1>3, Settle

LEMMA OutsideOnce ==
    ASSUME TypeOK, OnceInv, DisconnectCalled \/ ServerAnswers \/ Network
    PROVE  OnceInv'
<1>1. Waiting \subseteq Cmd
  BY ElementsOf DEF Waiting, TypeOK, QueueTypes, DispatcherTypes
<1>2. CASE DisconnectCalled
  BY <1>2, ClosingOnce DEF DisconnectCalled, dispVars
<1>3. CASE ServerAnswers \/ Network
  BY <1>1, <1>3, OnceUntouched DEF ServerAnswers, Network, dispVars, queueVars, errVars
<1> QED  BY <1>2, <1>3

LEMMA DispatcherOnce ==
    ASSUME TypeOK, OnceInv, NEW d \in Dispatcher, Dispatch(d) \/ DispatcherRuns(d)
    PROVE  OnceInv'
<1> USE DEF queueVars, errVars
<1>1. /\ OnePlace /\ pc \in [Cmd -> CmdPc] /\ work \in [Dispatcher -> Seq(Cmd)]
      /\ toSend \in Seq(Cmd) /\ toReceive \in Seq(Cmd) /\ reported \in [Cmd -> Nat]
      /\ \A e \in Dispatcher : IsInjective(work[e])
  BY DEF OnceInv, OnePlace, TypeOK, CommandTypes, QueueTypes, DispatcherTypes
<1>2. Waiting \subseteq Cmd
  BY <1>1, ElementsOf DEF Waiting
\* The head of what a dispatcher has taken is disposed of.
<1>3. ASSUME work[d] # <<>>, Disposed({Head(work[d])}), work' = [work EXCEPT ![d] = Tail(@)], pc' = pc
      PROVE  OnceInv'
  <2> DEFINE c == Head(work[d])
  <2>1. /\ c \in Cmd /\ c \in ToSet(work[d]) /\ IsInjective(Tail(work[d])) /\ c \notin ToSet(Tail(work[d]))
        /\ ToSet(Tail(work[d])) \subseteq ToSet(work[d])
    BY <1>1, <1>3, OnceTail
  <2> HIDE DEF c
  <2>2. c \in Waiting /\ reported[c] = 0 /\ pc[c] \notin {"idle", "line"}
    BY <2>1 DEF OnceInv, Owed, Waiting
  <2>3. c \notin ToSet(toSend) \cup ToSet(toReceive)
    BY <1>1, <2>1 DEF OnePlace
  <2>4. ASSUME NEW e \in Dispatcher
        PROVE  /\ IsInjective(work'[e]) /\ ToSet(work'[e]) \subseteq ToSet(work[e])
               /\ c \notin ToSet(work'[e])
    <3>1. CASE e = d
      BY <1>1, <1>3, <2>1, <3>1
    <3>2. CASE e # d
      <4>1. work'[e] = work[e] /\ ToSet(work[e]) \cap ToSet(work[d]) = {}
        BY <1>1, <1>3, <3>2 DEF OnePlace
      <4> QED  BY <1>1, <2>1, <4>1
    <3> QED  BY <3>1, <3>2
  <2>5. Disposed({c})
    BY <1>3 DEF c
  <2>6. {c} \in SUBSET Cmd /\ {c} \cap (ToSet(toSend) \cup ToSet(toReceive)) = {}
    BY <2>1, <2>3
  <2>7. \A e \in {c} : reported[e] = 0 /\ pc'[e] \notin {"idle", "line"}
    BY <1>3, <2>2
  <2> QED  BY <1>3, <2>4, <2>5, <2>6, <2>7, Settle
<1>4. CASE Dispatch(d) \/ Connected(d) \/ Flushed(d)
  BY <1>2, <1>4, OnceUntouched DEF Dispatch, Connected, Flushed
<1>5. CASE Flush(d)
  <2>1. /\ work' = [work EXCEPT ![d] = toSend] /\ toSend' = <<>>
        /\ UNCHANGED <<toReceive, reported, pc>>
    BY <1>5 DEF Flush
  <2>2. IsInjective(toSend) /\ IsInjective(toReceive) /\ ToSet(toSend) \cap ToSet(toReceive) = {}
    BY <1>1 DEF OnePlace
  <2>3. IsInjective(toSend') /\ ToSet(toSend') = {}
    BY <2>1, NothingOnce, ElementsOfEmpty
  <2> QED  BY <1>1, <2>1, <2>2, <2>3, Shifted
<1>6. CASE FlushNext(d)
  <2> DEFINE c == Head(work[d])
  <2>1. work[d] # <<>> /\ pc' = pc
    BY <1>6 DEF FlushNext
  <2>2. c \in Cmd /\ c \notin ToSet(toSend) \cup ToSet(toReceive)
    BY <1>1, <2>1, OnceTail DEF OnePlace
  <2>3. CASE UNCHANGED <<toSend, toReceive, errVars, work>>
    BY <1>2, <2>1, <2>3, OnceUntouched
  <2>4. CASE /\ work' = [work EXCEPT ![d] = Tail(@)]
             /\ \/ SendSucceeds(c) \/ SendFails(c) \/ SendsPart(c) \/ ExpiredUnsent(c)
                \/ Pend(c, toSend) /\ UNCHANGED toReceive
                \/ Fail(<<c>>) /\ UNCHANGED <<toSend, toReceive>>
    <3>1. Disposed({c})
      <4> HIDE DEF c
      <4> QED  BY <1>1, <2>2, <2>4, SendDisposes, PendDisposes, FailDisposes
    <3> QED  BY <1>3, <2>1, <2>4, <3>1
  <2> QED  BY <1>6, <2>3, <2>4 DEF FlushNext
<1>7. CASE OnError(d)
  BY <1>7, ClosingOnce DEF OnError
<1>8. CASE OnDataArrived(d)
  <2>1. CASE DataArrives(d)
    <3>1. PICK k \in Chunk :
            \/ UNCHANGED <<toReceive, work>>
            \/ LET p == Scan(buf \o SubSeq(down, 1, k))
               IN  toReceive' = p.q /\ work' = [work EXCEPT ![d] = p.done]
      BY <2>1 DEF DataArrives
    <3>2. UNCHANGED <<toSend, errVars, pc>>
      BY <1>8, <2>1 DEF OnDataArrived, DataArrives
    <3>3. CASE UNCHANGED <<toReceive, work>>
      BY <1>2, <3>2, <3>3, OnceUntouched
    <3>4. CASE ~UNCHANGED <<toReceive, work>>
      <4> DEFINE b == buf \o SubSeq(down, 1, k)
                 p == Scan(b)
      <4>1. k \in 1..Len(down) /\ down \in Seq(Unit) /\ buf \in Seq(Unit)
        BY DEF Chunk, TypeOK, SocketTypes, QueueTypes
      <4>2. b \in Seq(Unit)
        BY <4>1
      <4>3. p \in InOrder
        BY <4>2, ScanInOrder DEF TypeOK
      <4>4. toReceive' = p.q /\ work' = [work EXCEPT ![d] = p.done]
        BY <3>1, <3>4
      <4> HIDE DEF p, b
      <4>5. p.done \in Seq(Cmd) /\ p.q \in Seq(Cmd) /\ p.done \o p.q = toReceive
        BY <4>3 DEF InOrder, ParserType
      <4>6. IsInjective(toSend) /\ IsInjective(toReceive) /\ ToSet(toSend) \cap ToSet(toReceive) = {}
        BY <1>1 DEF OnePlace
      <4>7. /\ IsInjective(p.done) /\ IsInjective(p.q) /\ ToSet(p.done) \cap ToSet(p.q) = {}
            /\ ToSet(p.done) \cup ToSet(p.q) = ToSet(toReceive)
        BY <4>5, <4>6, OnceOfConcat
      <4> QED  BY <3>2, <4>4, <4>5, <4>6, <4>7, Shifted
    <3> QED  BY <3>3, <3>4
  <2>2. CASE NoData(d)
    BY <1>2, <1>8, <2>2, OnceUntouched DEF OnDataArrived, NoData
  <2>3. CASE ReadFails(d)
    BY <1>8, <2>3, ClosingOnce DEF OnDataArrived, ReadFails
  <2> QED  BY <1>8, <2>1, <2>2, <2>3 DEF OnDataArrived
<1>9. CASE OnReply(d)
  <2>1. UNCHANGED <<toSend, toReceive, pc>>
    BY <1>9 DEF OnReply
  <2>2. CASE work[d] = <<>>
    BY <1>2, <1>9, <2>1, <2>2, OnceUntouched DEF OnReply
  <2>3. CASE work[d] # <<>>
    <3>1. /\ work' = [work EXCEPT ![d] = Tail(@)]
          /\ reported' = [reported EXCEPT ![Head(work[d])] = @ + 1]
      BY <1>9, <2>3 DEF OnReply
    <3>2. Told({Head(work[d])})
      BY <1>1, <3>1 DEF Told
    <3>3. Head(work[d]) \notin ToSet(toSend) \cup ToSet(toReceive)
      BY <1>1, <2>3, OnceTail DEF OnePlace
    <3>4. Disposed({Head(work[d])})
      BY <1>1, <2>1, <3>2, <3>3 DEF Disposed, OnePlace
    <3> QED  BY <1>3, <2>1, <2>3, <3>1, <3>4
  <2> QED  BY <2>2, <2>3
<1> QED  BY <1>4, <1>5, <1>6, <1>7, <1>8, <1>9 DEF DispatcherRuns

LEMMA OneEnd == Spec => []OnceInv
<1>1. ASSUME Init PROVE OnceInv
  <2>1. /\ toSend = <<>> /\ toReceive = <<>> /\ \A d \in Dispatcher : work[d] = <<>>
        /\ \A c \in Cmd : reported[c] = 0
    BY <1>1 DEF Init
  <2>2. OnePlace
    BY <2>1, NothingOnce, ElementsOfEmpty DEF OnePlace
  <2>3. Waiting = {}
    BY <2>1, ElementsOfEmpty DEF Waiting
  <2> QED  BY <2>1, <2>2, <2>3 DEF OnceInv, Owed, ReportedOnce
<1>2. ASSUME TypeOK, OnceInv, [Next]_vars PROVE OnceInv'
  <2>1. CASE UNCHANGED vars
    <3>1. Waiting \subseteq Cmd
      BY <1>2, ElementsOf DEF Waiting, TypeOK, QueueTypes, DispatcherTypes
    <3> QED  BY <1>2, <2>1, <3>1, OnceUntouched DEF vars, queueVars, errVars, dispVars
  <2> QED  BY <1>2, <2>1, CallerOnce, OutsideOnce, DispatcherOnce DEF Next
<1> QED  BY <1>1, <1>2, TypeCorrect, PTL DEF Spec

\* A command is told its end at most once, by OnReply() or OnRequestError():
\* over queues that overflow or expire, sockets that fail at any moment,
\* disconnect() by any thread, events that come late, and any replies, because
\* it is always in one queue or with one dispatcher, and leaves it when told.
THEOREM CommandReportedOnce == Spec => []ReportedOnce
<1>1. OnceInv => ReportedOnce
  BY DEF OnceInv
<1> QED  BY <1>1, OneEnd, PTL

-----------------------------------------------------------------------------
(* The reply that OnReply() comes with is the command's own. *)

\* No command is sent in part, no read ends between a '\r' and its '\n', no event
\* overtakes OnConnected(): after any of the three the answers may be taken for
\* other commands than their own.
Lucky == Faults \cap {"partial", "crlf", "overtaken"} = {}

\* t is cut into the answers to the commands of q, in their order: the n-th ends
\* at e[n].
Cuts(e, q, t) ==
    /\ e \in [0..Len(q) -> 0..Len(t)] /\ e[0] = 0 /\ e[Len(q)] = Len(t)
    /\ \A m, n \in 0..Len(q) : m <= n => e[m] <= e[n]
    /\ \A n \in 1..Len(q) :
          /\ e[n] = e[n - 1] + Len(Answer(q[n]))
          /\ \A k \in 1..Len(Answer(q[n])) : t[e[n - 1] + k] = Answer(q[n])[k]

Answers(q, t) == \E e \in [0..Len(q) -> 0..Len(t)] : Cuts(e, q, t)

\* What is still to be read of the answers to q, with or without the first line.
FirstLine(c) == <<Text(c, "head"), CR, LF>>

Coming(q, h, t) ==
    IF h THEN q # <<>> /\ Head(q) \notin Dels /\ Answers(q, FirstLine(Head(q)) \o t)
         ELSE Answers(q, t)

\* The buffer and the replies on their way are those to the first of the commands
\* that wait, in their order, and the server has the others.
InStep == state = "connected" /\ link \in {"up", "eof"} =>
    \E a, z \in Seq(Cmd) : /\ toReceive = a \o z /\ Coming(a, half, buf \o down)
                           /\ link = "up" => up = z

\* A connection begins with nothing on its way.
BeginsClean ==
    /\ so = 0 <=> state = "initial"
    /\ so = 0 => toReceive = <<>> /\ ~half
    /\ state = "connecting" => up = <<>> /\ down = <<>> /\ ~half
    /\ state = "connecting" /\ link \in {"syn", "up"} => toReceive = <<>>
    /\ link \in {"none", "syn", "failed"} => up = <<>> /\ down = <<>>
    /\ link = "syn" => state = "connecting"
    /\ half => toReceive # <<>>
    /\ \A d \in Dispatcher : dpc[d] # "connected"

\* The commands that OnReply() is yet to be called for.
Completed == UNION {ToSet(work[d]) : d \in {d \in Dispatcher : dpc[d] = "reply"}}

\* What has been read for a command: all of its lines once it is completed, until
\* then nothing, but for the first line of the one whose bulk is to come.
ReadSoFar(c, q, h) == IF h /\ c = Head(q) THEN <<Text(c, "head")>> ELSE <<>>

LinesRead ==
    /\ \A c \in replied : reported[c] > 0
    /\ \A c \in Completed : reply[c] = LinesOf(c)
    /\ \A c \in Cmd \ Completed : reported[c] = 0 => reply[c] = ReadSoFar(c, toReceive, half)

\* The connection with what is on its way on it, and what is made of it.
OnWire == InStep /\ BeginsClean
OnRecord == LinesRead /\ ReplyIsOwn

\* The inductive invariant.
OwnInv == OnWire /\ OnRecord

-----------------------------------------------------------------------------
(* Answers, one after the other. *)

LEMMA AnswerShape ==
    ASSUME NEW c \in Cmd
    PROVE  /\ Answer(c) \in Seq(Unit) /\ FirstLine(c) \in Seq(Unit)
           /\ c \in Dels => /\ Len(Answer(c)) = 3 /\ Answer(c)[1] = Text(c, "int")
                            /\ Answer(c)[2] = CR /\ Answer(c)[3] = LF
           /\ c \notin Dels => /\ Len(Answer(c)) = 6
                               /\ Answer(c)[1] = Text(c, "head") /\ Answer(c)[2] = CR /\ Answer(c)[3] = LF
                               /\ Answer(c)[4] = Text(c, "body") /\ Answer(c)[5] = CR /\ Answer(c)[6] = LF
           /\ CR # LF /\ \A k \in {"int", "head", "body"} : Text(c, k) # CR /\ Text(c, k) # LF
<1>1. CR \in Unit /\ LF \in Unit /\ \A k \in {"int", "head", "body"} : Text(c, k) \in Unit
  BY DEF CR, LF, Text, Unit
<1>2. CR # LF /\ \A k \in {"int", "head", "body"} : Text(c, k) # CR /\ Text(c, k) # LF
  BY DEF CR, LF, Text
<1> QED  BY <1>1, <1>2 DEF Answer, FirstLine

LEMMA NoAnswers ==
    ASSUME NEW t \in Seq(Unit)
    PROVE  Answers(<<>>, t) <=> t = <<>>
<1>1. ASSUME Answers(<<>>, t) PROVE t = <<>>
  <2>1. PICK e : Cuts(e, <<>>, t)
    BY <1>1 DEF Answers
  <2>2. Len(t) = 0
    BY <2>1 DEF Cuts
  <2> QED  BY <2>2
<1>2. ASSUME t = <<>> PROVE Answers(<<>>, t)
  <2> DEFINE e == [n \in 0..0 |-> 0]
  <2>1. e \in [0..Len(<<>>) -> 0..Len(t)]
    BY <1>2
  <2>2. Cuts(e, <<>>, t)
    BY <1>2, <2>1 DEF Cuts
  <2> HIDE DEF e
  <2> QED  BY <2>1, <2>2 DEF Answers
<1> QED  BY <1>1, <1>2

LEMMA FirstAnswer ==
    ASSUME NEW q \in Seq(Cmd), q # <<>>, NEW t \in Seq(Unit), Answers(q, t)
    PROVE  LET a == Answer(Head(q)) IN
           /\ Len(a) <= Len(t) /\ \A k \in 1..Len(a) : t[k] = a[k]
           /\ Answers(Tail(q), SubSeq(t, Len(a) + 1, Len(t)))
<1> DEFINE a == Answer(Head(q))
           u == SubSeq(t, Len(a) + 1, Len(t))
<1>1. PICK e \in [0..Len(q) -> 0..Len(t)] : Cuts(e, q, t)
  BY DEF Answers
<1>2. /\ Head(q) = q[1] /\ Head(q) \in Cmd /\ Len(q) \in Nat /\ Len(q) >= 1
      /\ Tail(q) \in Seq(Cmd) /\ Len(Tail(q)) = Len(q) - 1
      /\ \A n \in 1..(Len(q) - 1) : Tail(q)[n] = q[n + 1]
  OBVIOUS
<1>3. Len(a) \in Nat
  BY <1>2, AnswerShape
<1> HIDE DEF a
<1>4. e[1] = Len(a) /\ \A k \in 1..Len(a) : t[k] = a[k]
  <2>1. e[1] = e[1 - 1] + Len(a) /\ \A k \in 1..Len(a) : t[e[1 - 1] + k] = a[k]
    BY <1>1, <1>2 DEF Cuts, a
  <2>2. e[1 - 1] = 0
    BY <1>1 DEF Cuts
  <2> QED  BY <1>3, <2>1, <2>2
<1>5. Len(a) <= Len(t)
  BY <1>1, <1>2, <1>4
<1>6. /\ u \in Seq(Unit) /\ Len(u) = Len(t) - Len(a)
      /\ \A k \in 1..Len(u) : u[k] = t[Len(a) + k]
  BY <1>3, <1>5
<1> DEFINE f == [n \in 0..(Len(q) - 1) |-> e[n + 1] - Len(a)]
<1> HIDE DEF u
<1>7. \A n \in 0..(Len(q) - 1) : f[n] = e[n + 1] - Len(a) /\ f[n] \in 0..Len(u)
  <2> TAKE n \in 0..(Len(q) - 1)
  <2>1. e[1] <= e[n + 1] /\ e[n + 1] \in 0..Len(t)
    BY <1>1, <1>2 DEF Cuts
  <2> QED  BY <1>3, <1>4, <1>6, <2>1
<1>8. f \in [0..Len(Tail(q)) -> 0..Len(u)]
  BY <1>2, <1>7
<1> HIDE DEF f
<1>9. f[0] = 0 /\ f[Len(Tail(q))] = Len(u)
  <2>1. PICK l \in Nat : l = Len(q) - 1
    <3>1. Len(q) - 1 \in Nat
      BY <1>2
    <3> QED  BY <3>1
  <2>2. l + 1 = Len(q) /\ l = Len(Tail(q)) /\ 0 \in 0..l /\ l \in 0..l
    BY <1>2, <2>1
  <2>3. f[0] = e[0 + 1] - Len(a) /\ f[l] = e[l + 1] - Len(a)
    BY <1>7, <2>1, <2>2
  <2>4. f[0] = 0
    BY <1>3, <1>4, <2>3
  <2>5. f[l] = Len(t) - Len(a)
    BY <1>1, <2>2, <2>3 DEF Cuts
  <2> QED  BY <1>6, <2>2, <2>4, <2>5
<1>10. \A m, n \in 0..Len(Tail(q)) : m <= n => f[m] <= f[n]
  <2> TAKE m, n \in 0..Len(Tail(q))
  <2>1. m <= n => e[m + 1] <= e[n + 1]
    BY <1>1, <1>2 DEF Cuts
  <2>2. e[m + 1] \in 0..Len(t) /\ e[n + 1] \in 0..Len(t)
    BY <1>1, <1>2
  <2> QED  BY <1>2, <1>3, <1>7, <2>1, <2>2
<1>11. ASSUME NEW n \in 1..Len(Tail(q))
       PROVE  /\ f[n] = f[n - 1] + Len(Answer(Tail(q)[n]))
              /\ \A k \in 1..Len(Answer(Tail(q)[n])) : u[f[n - 1] + k] = Answer(Tail(q)[n])[k]
  <2>1. /\ n + 1 \in 1..Len(q) /\ Tail(q)[n] = q[n + 1] /\ q[n + 1] \in Cmd
        /\ (n + 1) - 1 = n /\ (n - 1) + 1 = n /\ n \in 0..(Len(q) - 1) /\ n - 1 \in 0..(Len(q) - 1)
    BY <1>2
  <2> DEFINE b == Answer(q[n + 1])
  <2>2. Len(b) \in Nat
    BY <2>1, AnswerShape
  <2>3. e[n + 1] = e[n] + Len(b) /\ \A k \in 1..Len(b) : t[e[n] + k] = b[k]
    BY <1>1, <2>1 DEF Cuts
  <2> HIDE DEF b
  <2>4. f[n] = e[n + 1] - Len(a) /\ f[n - 1] = e[n] - Len(a) /\ f[n] \in 0..Len(u) /\ f[n - 1] \in 0..Len(u)
    BY <1>7, <2>1
  <2>5. e[n] \in Nat
    BY <1>1, <2>1
  <2>6. f[n] = f[n - 1] + Len(b)
    BY <1>3, <2>2, <2>3, <2>4, <2>5
  <2>7. ASSUME NEW k \in 1..Len(b) PROVE u[f[n - 1] + k] = b[k]
    <3>1. f[n - 1] + k \in 1..Len(u)
      BY <2>2, <2>4, <2>6
    <3>2. u[f[n - 1] + k] = t[Len(a) + (f[n - 1] + k)]
      BY <1>6, <3>1
    <3>3. Len(a) + (f[n - 1] + k) = e[n] + k
      BY <1>3, <2>2, <2>4, <2>5
    <3> QED  BY <2>3, <3>2, <3>3
  <2> QED  BY <2>1, <2>6, <2>7 DEF b
<1>12. Cuts(f, Tail(q), u)
  BY <1>8, <1>9, <1>10, <1>11 DEF Cuts
<1>13. Answers(Tail(q), u)
  BY <1>8, <1>12 DEF Answers
<1> QED  BY <1>4, <1>5, <1>13 DEF a, u

LEMMA LastAnswer ==
    ASSUME NEW q \in Seq(Cmd), NEW t \in Seq(Unit), Answers(q, t), NEW c \in Cmd
    PROVE  Answers(Append(q, c), t \o Answer(c))
<1> DEFINE a == Answer(c)
           u == t \o a
           qq == Append(q, c)
<1>1. PICK e \in [0..Len(q) -> 0..Len(t)] : Cuts(e, q, t)
  BY DEF Answers
<1>2. a \in Seq(Unit) /\ Len(a) \in Nat /\ Len(t) \in Nat /\ Len(q) \in Nat
  BY AnswerShape
<1> HIDE DEF a
<1>3. /\ Len(u) = Len(t) + Len(a)
      /\ \A k \in 1..Len(t) : u[k] = t[k]
      /\ \A k \in 1..Len(a) : u[Len(t) + k] = a[k]
  BY <1>2
<1>4. qq \in Seq(Cmd) /\ Len(qq) = Len(q) + 1 /\ qq[Len(q) + 1] = c /\ \A n \in 1..Len(q) : qq[n] = q[n]
  OBVIOUS
<1> HIDE DEF u, qq
<1> DEFINE f == [n \in 0..(Len(q) + 1) |-> IF n = Len(q) + 1 THEN Len(u) ELSE e[n]]
<1>5. /\ f[Len(q) + 1] = Len(u)
      /\ \A n \in 0..Len(q) : f[n] = e[n] /\ e[n] \in 0..Len(t)
  BY <1>1, <1>2
<1>6. f \in [0..Len(qq) -> 0..Len(u)]
  BY <1>1, <1>2, <1>3, <1>4
<1> HIDE DEF f
<1>7. f[0] = 0 /\ f[Len(qq)] = Len(u) /\ f[Len(q)] = Len(t)
  BY <1>1, <1>2, <1>4, <1>5 DEF Cuts
<1>8. \A m, n \in 0..Len(qq) : m <= n => f[m] <= f[n]
  <2> TAKE m, n \in 0..Len(qq)
  <2>1. CASE n = Len(q) + 1
    <3>1. f[n] = Len(t) + Len(a)
      BY <1>3, <1>5, <2>1
    <3>2. m = Len(q) + 1 \/ m \in 0..Len(q)
      BY <1>2, <1>4
    <3>3. m \in 0..Len(q) => f[m] \in 0..Len(t)
      BY <1>5
    <3>4. m = Len(q) + 1 => f[m] = f[n]
      BY <2>1
    <3> QED  BY <1>2, <3>1, <3>2, <3>3, <3>4
  <2>2. CASE m \in 0..Len(q) /\ n \in 0..Len(q)
    <3>1. m <= n => e[m] <= e[n]
      BY <1>1, <2>2 DEF Cuts
    <3> QED  BY <1>5, <2>2, <3>1
  <2>3. CASE m = Len(q) + 1 /\ n \in 0..Len(q)
    BY <1>2, <2>3
  <2> QED  BY <1>2, <1>4, <2>1, <2>2, <2>3
<1>9. ASSUME NEW n \in 1..Len(qq)
      PROVE  /\ f[n] = f[n - 1] + Len(Answer(qq[n]))
             /\ \A k \in 1..Len(Answer(qq[n])) : u[f[n - 1] + k] = Answer(qq[n])[k]
  <2>1. CASE n = Len(q) + 1
    <3>1. n - 1 = Len(q) /\ qq[n] = c
      BY <1>2, <1>4, <2>1
    <3> QED  BY <1>2, <1>3, <1>5, <1>7, <2>1, <3>1 DEF a
  <2>2. CASE n \in 1..Len(q)
    <3>1. qq[n] = q[n] /\ q[n] \in Cmd /\ f[n] = e[n] /\ f[n - 1] = e[n - 1] /\ e[n] \in 0..Len(t) /\ e[n - 1] \in 0..Len(t)
      BY <1>4, <1>5, <2>2
    <3>2. PICK b : b = Answer(q[n])
      OBVIOUS
    <3>3. Len(b) \in Nat
      BY <3>1, <3>2, AnswerShape
    <3>4. e[n] = e[n - 1] + Len(b) /\ \A k \in 1..Len(b) : t[e[n - 1] + k] = b[k]
      BY <1>1, <2>2, <3>2 DEF Cuts
    <3>5. \A k \in 1..Len(b) : u[e[n - 1] + k] = t[e[n - 1] + k]
      <4> TAKE k \in 1..Len(b)
      <4>1. e[n - 1] + k \in 1..Len(t)
        BY <3>1, <3>3, <3>4
      <4> QED  BY <1>3, <4>1
    <3> QED  BY <3>1, <3>2, <3>4, <3>5
  <2> QED  BY <1>2, <1>4, <2>1, <2>2
<1>10. Cuts(f, qq, u)
  BY <1>6, <1>7, <1>8, <1>9 DEF Cuts
<1> QED  BY <1>6, <1>10 DEF Answers, a, u, qq

LEMMA NextAnswer ==
    ASSUME NEW q \in Seq(Cmd), NEW h \in BOOLEAN, NEW t \in Seq(Unit), Coming(q, h, t), NEW c \in Cmd
    PROVE  Coming(Append(q, c), h, t \o Answer(c))
<1>1. Answer(c) \in Seq(Unit) /\ t \o Answer(c) \in Seq(Unit)
  BY AnswerShape
<1>2. CASE h
  <2>1. q # <<>> /\ Head(q) \notin Dels /\ Answers(q, FirstLine(Head(q)) \o t)
    BY <1>2 DEF Coming
  <2>2. Head(q) \in Cmd /\ Append(q, c) # <<>> /\ Head(Append(q, c)) = Head(q)
    BY <2>1
  <2>3. FirstLine(Head(q)) \in Seq(Unit) /\ FirstLine(Head(q)) \o t \in Seq(Unit)
    BY <2>2, AnswerShape
  <2>4. Answers(Append(q, c), (FirstLine(Head(q)) \o t) \o Answer(c))
    BY <2>1, <2>3, LastAnswer
  <2>5. (FirstLine(Head(q)) \o t) \o Answer(c) = FirstLine(Head(q)) \o (t \o Answer(c))
    BY <1>1, <2>3, ConcatAssociative
  <2> QED  BY <1>2, <2>1, <2>2, <2>4, <2>5 DEF Coming
<1>3. CASE ~h
  BY <1>3, LastAnswer DEF Coming
<1> QED  BY <1>2, <1>3

\* What is behind the first n units, and what two sequences make.
LEMMA RestOf ==
    ASSUME NEW S, NEW s \in Seq(S), NEW n \in 0..Len(s)
    PROVE  LET u == SubSeq(s, n + 1, Len(s)) IN
           u \in Seq(S) /\ Len(u) = Len(s) - n /\ \A k \in 1..(Len(s) - n) : u[k] = s[n + k]
OBVIOUS

LEMMA Joined ==
    ASSUME NEW S, NEW s \in Seq(S), NEW t \in Seq(S)
    PROVE  /\ s \o t \in Seq(S) /\ Len(s \o t) = Len(s) + Len(t)
           /\ \A k \in 1..Len(s) : (s \o t)[k] = s[k]
           /\ \A k \in 1..Len(t) : (s \o t)[Len(s) + k] = t[k]
OBVIOUS

\* The next line of what is coming, and what comes behind it.
LEMMA NextLine ==
    ASSUME NEW q \in Seq(Cmd), NEW h \in BOOLEAN, NEW t \in Seq(Unit), t # <<>>, Coming(q, h, t)
    PROVE  LET c == Head(q)
               u == SubSeq(t, 4, Len(t))
           IN  /\ q # <<>> /\ Len(t) >= 3 /\ t[2] = CR /\ t[3] = LF /\ u \in Seq(Unit)
               /\ h => c \notin Dels /\ t[1] = Text(c, "body") /\ Coming(Tail(q), FALSE, u)
               /\ ~h /\ c \in Dels => t[1] = Text(c, "int") /\ Coming(Tail(q), FALSE, u)
               /\ ~h /\ c \notin Dels => t[1] = Text(c, "head") /\ Coming(q, TRUE, u)
<1> DEFINE c == Head(q)
           u == SubSeq(t, 4, Len(t))
<1>1. q # <<>>
  BY NoAnswers DEF Coming
<1>2. c \in Cmd
  BY <1>1
<1>3. CASE h
  <2> DEFINE w == FirstLine(c) \o t
  <2>1. c \notin Dels /\ Answers(q, w)
    BY <1>3 DEF Coming
  <2>2. /\ w \in Seq(Unit) /\ Len(w) = 3 + Len(t) /\ \A k \in 1..Len(t) : w[3 + k] = t[k]
    <3>1. FirstLine(c) \in Seq(Unit) /\ Len(FirstLine(c)) = 3
      BY <1>2, AnswerShape DEF FirstLine
    <3>2. PICK f \in Seq(Unit) : f = FirstLine(c)
      BY <3>1
    <3>3. /\ f \o t \in Seq(Unit) /\ Len(f \o t) = Len(f) + Len(t)
          /\ \A k \in 1..Len(t) : (f \o t)[Len(f) + k] = t[k]
      BY Joined
    <3>4. w = f \o t /\ Len(f) = 3
      BY <3>1, <3>2
    <3> HIDE DEF w
    <3> QED  BY <3>3, <3>4
  <2> HIDE DEF w, c
  <2>3. /\ Len(Answer(c)) = 6 /\ 6 <= Len(w) /\ \A k \in 1..6 : w[k] = Answer(c)[k]
        /\ Answers(Tail(q), SubSeq(w, 7, Len(w)))
    <3>1. Len(Answer(c)) = 6
      BY <1>2, <2>1, AnswerShape
    <3>2. /\ Len(Answer(c)) <= Len(w) /\ \A k \in 1..Len(Answer(c)) : w[k] = Answer(c)[k]
          /\ Answers(Tail(q), SubSeq(w, Len(Answer(c)) + 1, Len(w)))
      BY <1>1, <2>1, <2>2, FirstAnswer DEF c
    <3>3. 6 + 1 = 7
      OBVIOUS
    <3> QED  BY <3>1, <3>2, <3>3
  <2>4. Len(t) >= 3
    BY <2>2, <2>3
  <2>5. t[1] = w[4] /\ t[2] = w[5] /\ t[3] = w[6]
    <3>1. 1 \in 1..Len(t) /\ 2 \in 1..Len(t) /\ 3 \in 1..Len(t)
      BY <2>4
    <3>2. t[1] = w[3 + 1] /\ t[2] = w[3 + 2] /\ t[3] = w[3 + 3]
      BY <2>2, <3>1
    <3> QED  BY <3>2
  <2>6. t[1] = Text(c, "body") /\ t[2] = CR /\ t[3] = LF
    <3>1. w[4] = Answer(c)[4] /\ w[5] = Answer(c)[5] /\ w[6] = Answer(c)[6]
      BY <2>3
    <3> QED  BY <1>2, <2>1, <2>5, <3>1, AnswerShape
  <2>7. SubSeq(w, 7, Len(w)) = u /\ u \in Seq(Unit)
    <3>0. 3 \in 0..Len(t) /\ 3 + 1 = 4 /\ 6 \in 0..Len(w) /\ 6 + 1 = 7 /\ Len(w) - 6 = Len(t) - 3
      BY <2>2, <2>4
    <3>1. /\ Len(u) = Len(t) - 3 /\ \A k \in 1..(Len(t) - 3) : u[k] = t[3 + k]
          /\ u \in Seq(Unit)
      BY <3>0, RestOf
    <3>2. /\ Len(SubSeq(w, 7, Len(w))) = Len(t) - 3 /\ SubSeq(w, 7, Len(w)) \in Seq(Unit)
          /\ \A k \in 1..(Len(t) - 3) : SubSeq(w, 7, Len(w))[k] = w[6 + k]
      BY <2>2, <3>0, RestOf
    <3> HIDE DEF u
    <3>3. \A k \in 1..(Len(t) - 3) : w[6 + k] = t[3 + k]
      <4> TAKE k \in 1..(Len(t) - 3)
      <4>1. 3 + k \in 1..Len(t) /\ 3 + (3 + k) = 6 + k
        BY <2>4
      <4> QED  BY <2>2, <4>1
    <3>4. \A k \in 1..Len(u) : u[k] = SubSeq(w, 7, Len(w))[k]
      BY <3>1, <3>2, <3>3
    <3> QED  BY <3>1, <3>2, <3>4, SeqEqual
  <2> QED  BY <1>1, <1>3, <2>1, <2>3, <2>4, <2>6, <2>7 DEF Coming, c
<1>4. CASE ~h
  <2>1. Answers(q, t)
    BY <1>4 DEF Coming
  <2> HIDE DEF c
  <2>2. /\ Len(Answer(c)) <= Len(t) /\ \A k \in 1..Len(Answer(c)) : t[k] = Answer(c)[k]
        /\ Answers(Tail(q), SubSeq(t, Len(Answer(c)) + 1, Len(t)))
    BY <1>1, <2>1, FirstAnswer DEF c
  <2>3. CASE c \in Dels
    <3>1. Len(Answer(c)) = 3 /\ 3 + 1 = 4
      BY <1>2, <2>3, AnswerShape
    <3>2. Len(t) >= 3 /\ t[1] = Answer(c)[1] /\ t[2] = Answer(c)[2] /\ t[3] = Answer(c)[3]
      BY <2>2, <3>1
    <3>3. t[1] = Text(c, "int") /\ t[2] = CR /\ t[3] = LF
      BY <1>2, <2>3, <3>2, AnswerShape
    <3>4. u \in Seq(Unit) /\ Answers(Tail(q), u)
      BY <2>2, <3>1, <3>2
    <3>5. Coming(Tail(q), FALSE, u)
      BY <3>4 DEF Coming
    <3> HIDE DEF u
    <3>6. /\ q # <<>> /\ Len(t) >= 3 /\ t[2] = CR /\ t[3] = LF /\ u \in Seq(Unit)
          /\ ~h /\ c \in Dels => t[1] = Text(c, "int") /\ Coming(Tail(q), FALSE, u)
      BY <1>1, <3>2, <3>3, <3>4, <3>5
    <3> QED  BY <1>4, <2>3, <3>6 DEF c, u
  <2>4. CASE c \notin Dels
    <3>1. Len(Answer(c)) = 6
      BY <1>2, <2>4, AnswerShape
    <3>2. Len(t) >= 6 /\ t[1] = Answer(c)[1] /\ t[2] = Answer(c)[2] /\ t[3] = Answer(c)[3]
      BY <2>2, <3>1
    <3>3. t[1] = Text(c, "head") /\ t[2] = CR /\ t[3] = LF
      BY <1>2, <2>4, <3>2, AnswerShape
    <3>4. u \in Seq(Unit) /\ FirstLine(c) \o u = t
      <4>1. /\ u \in Seq(Unit) /\ Len(u) = Len(t) - 3 /\ \A k \in 1..(Len(t) - 3) : u[k] = t[3 + k]
        <5>1. 3 \in 0..Len(t) /\ 3 + 1 = 4
          BY <3>2
        <5> QED  BY <5>1, RestOf
      <4>2. /\ FirstLine(c) \in Seq(Unit) /\ Len(FirstLine(c)) = 3
            /\ FirstLine(c)[1] = t[1] /\ FirstLine(c)[2] = t[2] /\ FirstLine(c)[3] = t[3]
        BY <1>2, <3>3, AnswerShape DEF FirstLine
      <4> HIDE DEF u
      <4> DEFINE v == FirstLine(c) \o u
      <4>3. /\ v \in Seq(Unit) /\ Len(v) = Len(t)
            /\ \A k \in 1..3 : v[k] = FirstLine(c)[k]
            /\ \A k \in 1..Len(u) : v[3 + k] = u[k]
        <5>1. 3 + Len(u) = Len(t)
          BY <3>2, <4>1
        <5>2. PICK f \in Seq(Unit) : f = FirstLine(c)
          BY <4>2
        <5>3. /\ f \o u \in Seq(Unit) /\ Len(f \o u) = Len(f) + Len(u)
              /\ \A k \in 1..Len(f) : (f \o u)[k] = f[k]
              /\ \A k \in 1..Len(u) : (f \o u)[Len(f) + k] = u[k]
          <6>1. u \in Seq(Unit)
            BY <4>1
          <6> QED  BY <6>1, Joined
        <5>4. v = f \o u /\ Len(f) = 3
          BY <4>2, <5>2
        <5> HIDE DEF v
        <5> QED  BY <5>1, <5>2, <5>3, <5>4
      <4> HIDE DEF v
      <4>4. \A k \in 1..Len(t) : v[k] = t[k]
        <5> TAKE k \in 1..Len(t)
        <5>1. CASE k = 1 \/ k = 2 \/ k = 3
          BY <4>2, <4>3, <5>1
        <5>2. CASE k > 3
          <6>1. k - 3 \in 1..(Len(t) - 3) /\ 3 + (k - 3) = k
            BY <5>2
          <6> QED  BY <4>1, <4>3, <6>1
        <5> QED  BY <5>1, <5>2
      <4>5. v = t
        BY <4>3, <4>4, SeqEqual
      <4> QED  BY <4>1, <4>5 DEF v
    <3>5. Coming(q, TRUE, u)
      BY <1>1, <2>1, <2>4, <3>4 DEF Coming, c
    <3> HIDE DEF u
    <3>6. /\ q # <<>> /\ Len(t) >= 3 /\ t[2] = CR /\ t[3] = LF /\ u \in Seq(Unit)
          /\ ~h /\ c \notin Dels => t[1] = Text(c, "head") /\ Coming(q, TRUE, u)
      <4>1. Len(t) >= 3
        <5>1. Len(t) >= 6 /\ Len(t) \in Nat
          BY <3>2
        <5> QED  BY <5>1
      <4> QED  BY <1>1, <3>3, <3>4, <3>5, <4>1
    <3> QED  BY <1>4, <2>4, <3>6 DEF c, u
  <2> QED  BY <2>3, <2>4
<1> QED  BY <1>3, <1>4


\* What is behind the first n units.
From(w, n) == SubSeq(w, n + 1, Len(w))

LEMMA FromIs ==
    ASSUME NEW w \in Seq(Unit), NEW n \in 0..Len(w)
    PROVE  From(w, n) \in Seq(Unit) /\ Len(From(w, n)) = Len(w) - n
           /\ \A k \in 1..(Len(w) - n) : From(w, n)[k] = w[n + k]
BY RestOf DEF From

LEMMA FromStart ==
    ASSUME NEW w \in Seq(Unit)
    PROVE  From(w, 0) = w
<1>1. PICK u \in Seq(Unit) : u = From(w, 0)
  BY FromIs
<1>2. Len(u) = Len(w) /\ \A k \in 1..Len(w) : u[k] = w[k]
  BY <1>1, FromIs
<1>3. u = w
  BY <1>2, SeqEqual
<1> QED  BY <1>1, <1>3

LEMMA OneJoined ==
    ASSUME NEW r \in Seq(Unit), NEW u \in Seq(Unit)
    PROVE  Len(r) = 1 => /\ Len(r \o u) = 1 + Len(u) /\ (r \o u)[1] = r[1]
                         /\ \A k \in 1..Len(u) : (r \o u)[1 + k] = u[k]
<1>1. /\ Len(r \o u) = Len(r) + Len(u)
      /\ \A k \in 1..Len(r) : (r \o u)[k] = r[k]
      /\ \A k \in 1..Len(u) : (r \o u)[Len(r) + k] = u[k]
  BY Joined
<1> QED  BY <1>1

LEMMA Regrouped ==
    \A r \in Seq(Unit) : \A u \in Seq(Unit) : \A v \in Seq(Unit) :
        (r \o u) \o v = r \o (u \o v)
BY ConcatAssociative

\* The next unit goes from what is behind it to what is kept.
LEMMA Moves ==
    ASSUME NEW w \in Seq(Unit), NEW n \in 0..Len(w), n # Len(w), NEW r \in Seq(Unit)
    PROVE  Append(r, w[n + 1]) \o From(w, n + 1) = r \o From(w, n)
<1>1. n + 1 \in 0..Len(w) /\ w[n + 1] \in Unit
  OBVIOUS
<1>2. PICK u \in Seq(Unit) : u = From(w, n)
  BY FromIs
<1>3. PICK v \in Seq(Unit) : v = From(w, n + 1)
  BY <1>1, FromIs
<1>4. Len(u) = Len(w) - n /\ \A k \in 1..(Len(w) - n) : u[k] = w[n + k]
  BY <1>2, FromIs
<1>5. Len(v) = Len(w) - (n + 1) /\ \A k \in 1..(Len(w) - (n + 1)) : v[k] = w[(n + 1) + k]
  BY <1>1, <1>3, FromIs
<1>6. PICK x \in Unit : x = w[n + 1]
  BY <1>1
<1>7. u[1] = x /\ Len(u) = Len(v) + 1 /\ \A k \in 1..Len(v) : u[k + 1] = v[k]
  BY <1>4, <1>5, <1>6
<1>8. Append(r, x) = r \o <<x>> /\ <<x>> \in Seq(Unit)
  OBVIOUS
<1>9. PICK y \in Seq(Unit) : y = <<x>> /\ Len(y) = 1 /\ y[1] = x
  BY <1>8
<1>10. y \o v = u
  <2>1. PICK z \in Seq(Unit) : z = y \o v
    BY Joined
  <2>2. /\ Len(z) = Len(y) + Len(v) /\ \A k \in 1..Len(y) : z[k] = y[k]
        /\ \A k \in 1..Len(v) : z[Len(y) + k] = v[k]
    BY <2>1, Joined
  <2>3. PICK m \in Nat : m = Len(v)
    OBVIOUS
  <2>4. Len(z) = m + 1 /\ Len(u) = m + 1
    BY <1>7, <1>9, <2>2, <2>3
  <2>5. ASSUME NEW k \in 1..(m + 1) PROVE z[k] = u[k]
    <3>1. CASE k = 1
      BY <1>7, <1>9, <2>2, <3>1
    <3>2. CASE k # 1
      <4>1. PICK j \in 1..m : k = 1 + j
        <5>1. k - 1 \in 1..m /\ k = 1 + (k - 1)
          BY <3>2
        <5> QED  BY <5>1
      <4>2. z[1 + j] = v[j]
        BY <1>9, <2>2, <2>3, <4>1
      <4>3. u[j + 1] = v[j] /\ j + 1 = 1 + j
        BY <1>7, <2>3, <4>1
      <4> QED  BY <4>1, <4>2, <4>3
    <3> QED  BY <3>1, <3>2
  <2>6. z = u
    BY <2>4, <2>5, SeqEqual
  <2> QED  BY <2>1, <2>6
<1>11. (r \o y) \o v = r \o (y \o v)
  BY Regrouped
<1> QED  BY <1>2, <1>3, <1>6, <1>8, <1>9, <1>10, <1>11

\* A line of one unit whose end is to come: it, the '\r' and the '\n' behind it.
LEMMA LineEnd ==
    ASSUME NEW w \in Seq(Unit), NEW n \in 0..Len(w), NEW r \in Seq(Unit), Len(r) = 1,
           Len(r \o From(w, n)) >= 3
    PROVE  LET t == r \o From(w, n) IN
           /\ n + 2 \in 0..Len(w) /\ t[1] = r[1] /\ t[2] = w[n + 1] /\ t[3] = w[n + 2]
           /\ SubSeq(t, 4, Len(t)) = From(w, n + 2)
<1>1. PICK u \in Seq(Unit) : u = From(w, n)
  BY FromIs
<1>2. Len(u) = Len(w) - n /\ \A k \in 1..(Len(w) - n) : u[k] = w[n + k]
  BY <1>1, FromIs
<1>3. PICK t \in Seq(Unit) : t = r \o u
  BY Joined
<1>4. Len(t) = 1 + Len(u) /\ t[1] = r[1] /\ \A k \in 1..Len(u) : t[1 + k] = u[k]
  <2>1. /\ Len(r \o u) = 1 + Len(u) /\ (r \o u)[1] = r[1]
        /\ \A k \in 1..Len(u) : (r \o u)[1 + k] = u[k]
    BY OneJoined
  <2> QED  BY <1>3, <2>1
<1>5. Len(t) >= 3
  BY <1>1, <1>3
<1>6. n + 2 \in 0..Len(w) /\ Len(u) >= 2
  BY <1>2, <1>4, <1>5
<1>7. t[2] = w[n + 1] /\ t[3] = w[n + 2]
  <2>1. 1 \in 1..Len(u) /\ 2 \in 1..Len(u) /\ 1 + 1 = 2 /\ 1 + 2 = 3
    BY <1>6
  <2>2. t[1 + 1] = u[1] /\ t[1 + 2] = u[2]
    BY <1>4, <2>1
  <2> QED  BY <1>2, <2>1, <2>2
<1>8. PICK v \in Seq(Unit) : v = From(w, n + 2)
  BY <1>6, FromIs
<1>9. Len(v) = Len(w) - (n + 2) /\ \A k \in 1..(Len(w) - (n + 2)) : v[k] = w[(n + 2) + k]
  BY <1>6, <1>8, FromIs
<1>10. 3 \in 0..Len(t) /\ 3 + 1 = 4
  BY <1>5
<1>11. PICK x \in Seq(Unit) : x = SubSeq(t, 4, Len(t))
  BY <1>10, RestOf
<1>12. Len(x) = Len(t) - 3 /\ \A k \in 1..(Len(t) - 3) : x[k] = t[3 + k]
  BY <1>10, <1>11, RestOf
<1>13. Len(x) = Len(v)
  BY <1>2, <1>4, <1>9, <1>12
<1>14. ASSUME NEW k \in 1..Len(x) PROVE x[k] = v[k]
  <2>1. 2 + k \in 1..Len(u) /\ 1 + (2 + k) = 3 + k /\ n + (2 + k) = (n + 2) + k
    BY <1>4, <1>12
  <2>2. x[k] = u[2 + k]
    BY <1>4, <1>12, <2>1
  <2>3. u[2 + k] = w[n + (2 + k)]
    BY <1>2, <2>1
  <2>4. v[k] = w[(n + 2) + k]
    BY <1>9, <1>13
  <2> QED  BY <2>1, <2>2, <2>3, <2>4
<1>15. x = v
  BY <1>13, <1>14, SeqEqual
<1> QED  BY <1>1, <1>3, <1>4, <1>6, <1>7, <1>8, <1>11, <1>15

-----------------------------------------------------------------------------
(* The scan takes the lines of each command's answer for its reply. *)

\* What has been read for the commands of toReceive; the other replies stay.
ReadRight(p) ==
    /\ \A c \in ToSet(p.done) : p.reply[c] = LinesOf(c)
    /\ \A c \in ToSet(p.q) : p.reply[c] = ReadSoFar(c, p.q, p.half)
    /\ \A c \in Cmd \ ToSet(toReceive) : p.reply[c] = reply[c]

LEMMA FirstOf ==
    ASSUME NEW a \in Seq(Cmd), NEW z \in Seq(Cmd), a # <<>>
    PROVE  /\ a \o z # <<>> /\ Head(a \o z) = Head(a) /\ Tail(a \o z) = Tail(a) \o z
           /\ Head(a) \in Cmd /\ Tail(a) \in Seq(Cmd)
OBVIOUS

\* A line of one unit, whatever it says.
LEMMA LineFields ==
    ASSUME NEW p \in InOrder, p.q # <<>>, NEW x \in Unit
    PROVE  LET c == Head(p.q)
               r == Line(p, <<x>>)
           IN  /\ r \in InOrder /\ r.over = p.over /\ r.rest = p.rest
               /\ r.reply = [p.reply EXCEPT ![c] = @ \o <<x>>]
               /\ p.half \/ x.is # "head" =>
                     r.q = Tail(p.q) /\ r.done = Append(p.done, c) /\ r.half = FALSE
               /\ ~p.half /\ x.is = "head" =>
                     r.q = p.q /\ r.done = p.done /\ r.half = TRUE
               /\ p.half => r.stop = p.stop
               /\ ~p.half /\ x.is = "head" => r.stop = (c \in Dels)
<1> DEFINE c == Head(p.q)
           got == [p EXCEPT !.reply[c] = @ \o <<x>>]
<1>1. p \in ParserType /\ <<x>> \in Seq(Unit) /\ <<x>> # <<>> /\ <<x>>[1] = x
  BY DEF InOrder
<1>2. Line(p, <<x>>) \in InOrder
  BY <1>1, LineInOrder
<1>3. c \in Cmd /\ p.reply[c] \o <<x>> \in Seq(Unit)
  BY <1>1 DEF ParserType
<1>4. /\ got \in ParserType /\ got.over = p.over /\ got.rest = p.rest /\ got.q = p.q /\ got.done = p.done
      /\ got.half = p.half /\ got.stop = p.stop
      /\ got.reply = [p.reply EXCEPT ![c] = @ \o <<x>>]
  BY <1>1, <1>3 DEF ParserType
<1>5. Line(p, <<x>>) =
        IF p.half THEN Complete(got)
        ELSE IF x.is = "head" THEN [got EXCEPT !.half = TRUE, !.stop = c \in Dels]
        ELSE [Complete(got) EXCEPT !.stop = TRUE]
  BY <1>1 DEF Line
<1> HIDE DEF got, c
<1>6. Complete(got) = [got EXCEPT !.q = Tail(p.q), !.done = Append(p.done, c), !.half = FALSE]
  BY <1>4 DEF Complete, c
<1>7. \A v \in BOOLEAN :
        LET r == [got EXCEPT !.half = TRUE, !.stop = v]
        IN  /\ r.over = got.over /\ r.rest = got.rest /\ r.reply = got.reply /\ r.q = got.q
            /\ r.done = got.done /\ r.half = TRUE /\ r.stop = v
  BY <1>4 DEF ParserType
<1>8. LET r == Complete(got)
      IN  /\ r.over = got.over /\ r.rest = got.rest /\ r.reply = got.reply /\ r.q = Tail(p.q)
          /\ r.done = Append(p.done, c) /\ r.half = FALSE /\ r.stop = got.stop
  BY <1>4, <1>6 DEF ParserType
<1>9. LET r == [Complete(got) EXCEPT !.stop = TRUE]
      IN  /\ r.over = got.over /\ r.rest = got.rest /\ r.reply = got.reply /\ r.q = Tail(p.q)
          /\ r.done = Append(p.done, c) /\ r.half = FALSE
  BY <1>4, <1>6 DEF ParserType
<1>10. (c \in Dels) \in BOOLEAN
  OBVIOUS
<1>11. CASE p.half
  BY <1>2, <1>4, <1>5, <1>8, <1>11 DEF c
<1>12. CASE ~p.half /\ x.is = "head"
  <2>1. Line(p, <<x>>) = [got EXCEPT !.half = TRUE, !.stop = c \in Dels]
    BY <1>5, <1>12
  <2> QED  BY <1>2, <1>4, <1>7, <1>10, <1>12, <2>1 DEF c
<1>13. CASE ~p.half /\ x.is # "head"
  <2>1. Line(p, <<x>>) = [Complete(got) EXCEPT !.stop = TRUE]
    BY <1>5, <1>13
  <2> QED  BY <1>2, <1>4, <1>9, <1>13, <2>1 DEF c
<1> QED  BY <1>11, <1>12, <1>13

\* The line that the first of the commands waits for is taken for it.
LEMMA LineReads ==
    ASSUME QueueTypes, IsInjective(toReceive), NEW p \in InOrder, ReadRight(p), p.q # <<>>,
           NEW x \in Unit, LET c == Head(p.q) IN
                           \/ p.half /\ c \notin Dels /\ x = Text(c, "body")
                           \/ ~p.half /\ c \in Dels /\ x = Text(c, "int")
                           \/ ~p.half /\ c \notin Dels /\ x = Text(c, "head")
    PROVE  ReadRight(Line(p, <<x>>))
<1> DEFINE c == Head(p.q)
           r == Line(p, <<x>>)
<1>1. /\ p.q \in Seq(Cmd) /\ p.done \in Seq(Cmd) /\ p.done \o p.q = toReceive
      /\ p.reply \in [Cmd -> Seq(Unit)] /\ p.half \in BOOLEAN
  BY DEF InOrder, ParserType
<1>2. /\ IsInjective(p.q) /\ ToSet(p.done) \cap ToSet(p.q) = {}
      /\ ToSet(p.done) \cup ToSet(p.q) = ToSet(toReceive)
  BY <1>1, OnceOfConcat
<1>3. /\ c \in Cmd /\ c \notin ToSet(Tail(p.q)) /\ ToSet(p.q) = ToSet(Tail(p.q)) \cup {c}
      /\ Tail(p.q) \in Seq(Cmd)
  BY <1>1, <1>2, OnceTail
<1>4. ToSet(Append(p.done, c)) = ToSet(p.done) \cup {c} /\ ToSet(p.done) \subseteq Cmd /\ ToSet(p.q) \subseteq Cmd
  BY <1>1, <1>3, ElementsOfAppend, ElementsOf
<1>5. p.reply[c] = IF p.half THEN <<Text(c, "head")>> ELSE <<>>
  BY <1>3 DEF ReadRight, ReadSoFar
<1>6. \A e \in ToSet(Tail(p.q)) : p.reply[e] = <<>>
  BY <1>3 DEF ReadRight, ReadSoFar
<1>7. /\ r.reply = [p.reply EXCEPT ![c] = @ \o <<x>>]
      /\ p.half \/ x.is # "head" => r.q = Tail(p.q) /\ r.done = Append(p.done, c) /\ r.half = FALSE
      /\ ~p.half /\ x.is = "head" => r.q = p.q /\ r.done = p.done /\ r.half = TRUE
  BY LineFields
<1>8. /\ r.reply[c] = p.reply[c] \o <<x>>
      /\ \A e \in Cmd \ {c} : r.reply[e] = p.reply[e]
  BY <1>1, <1>3, <1>7
<1>9. \A e \in Cmd \ ToSet(toReceive) : r.reply[e] = reply[e]
  BY <1>2, <1>3, <1>8 DEF ReadRight
<1>10. \A e \in ToSet(p.done) : r.reply[e] = LinesOf(e)
  BY <1>2, <1>3, <1>4, <1>8 DEF ReadRight
<1>11. \A e \in ToSet(Tail(p.q)) : r.reply[e] = <<>>
  BY <1>3, <1>4, <1>6, <1>8
<1> HIDE DEF r, c
<1>12. CASE ~p.half /\ c \notin Dels /\ x = Text(c, "head")
  <2>1. r.q = p.q /\ r.done = p.done /\ r.half = TRUE
    BY <1>7, <1>12 DEF Text
  <2>2. r.reply[c] = <<Text(c, "head")>>
    BY <1>5, <1>8, <1>12
  <2>3. \A e \in ToSet(r.q) : r.reply[e] = ReadSoFar(e, r.q, r.half)
    BY <1>3, <1>11, <2>1, <2>2 DEF ReadSoFar, c
  <2> QED  BY <1>9, <1>10, <2>1, <2>3 DEF ReadRight, r
<1>13. CASE (p.half /\ c \notin Dels /\ x = Text(c, "body")) \/ (~p.half /\ c \in Dels /\ x = Text(c, "int"))
  <2>1. r.q = Tail(p.q) /\ r.done = Append(p.done, c) /\ r.half = FALSE
    BY <1>7, <1>13 DEF Text
  <2>2. r.reply[c] = LinesOf(c)
    BY <1>5, <1>8, <1>13 DEF LinesOf
  <2>3. \A e \in ToSet(r.done) : r.reply[e] = LinesOf(e)
    BY <1>4, <1>10, <2>1, <2>2
  <2>4. \A e \in ToSet(r.q) : r.reply[e] = ReadSoFar(e, r.q, r.half)
    BY <1>11, <2>1 DEF ReadSoFar
  <2> QED  BY <1>9, <2>3, <2>4 DEF ReadRight, r
<1> QED  BY <1>12, <1>13 DEF c

\* What is kept and what is behind it, z apart, are the answers that are to come;
\* or the '\n' that ends the last line comes before them.
Left(p, z, w, n) ==
    \E a \in Seq(Cmd) :
        /\ p.q = a \o z
        /\ \/ /\ Coming(a, p.half, p.rest \o From(w, n))
              /\ p.stop \/ Len(p.rest) <= 1
           \/ /\ p.rest = <<>> /\ n # 0 /\ w[n] = CR /\ n # Len(w) /\ w[n + 1] = LF
              /\ Coming(a, p.half, From(w, n + 1))

Reading(p, z, w, n) == p \in InOrder /\ ~p.over /\ ReadRight(p) /\ Left(p, z, w, n)

\* A unit is kept as long as its line has not ended.
LEMMA KeepReads ==
    ASSUME NEW p \in InOrder, ReadRight(p), ~p.over, NEW z \in Seq(Cmd), NEW w \in Seq(Unit),
           NEW n \in 0..Len(w), n # Len(w), NEW a \in Seq(Cmd), p.q = a \o z,
           Coming(a, p.half, p.rest \o From(w, n)), p.stop \/ p.rest = <<>>
    PROVE  Reading([p EXCEPT !.rest = Append(@, w[n + 1])], z, w, n + 1)
<1> DEFINE r == [p EXCEPT !.rest = Append(@, w[n + 1])]
<1>1. p \in ParserType /\ p.rest \in Seq(Unit) /\ w[n + 1] \in Unit
  BY DEF InOrder, ParserType
<1>2. Append(p.rest, w[n + 1]) \in Seq(Unit)
  BY <1>1
<1>3. /\ r \in InOrder /\ r.rest = Append(p.rest, w[n + 1]) /\ r.over = p.over /\ r.q = p.q
      /\ r.done = p.done /\ r.half = p.half /\ r.stop = p.stop /\ r.reply = p.reply
  BY <1>1, <1>2 DEF InOrder, ParserType
<1> HIDE DEF r
<1>4. ReadRight(r)
  BY <1>3 DEF ReadRight
<1>5. r.rest \o From(w, n + 1) = p.rest \o From(w, n)
  BY <1>1, <1>3, Moves
<1>6. r.stop \/ Len(r.rest) <= 1
  BY <1>3
<1>7. Left(r, z, w, n + 1)
  BY <1>3, <1>5, <1>6 DEF Left
<1> QED  BY <1>3, <1>4, <1>7 DEF Reading, r

\* A line has ended: the next is a '\n', then comes the rest.
LEMMA EndReads ==
    ASSUME QueueTypes, IsInjective(toReceive),
           NEW p \in InOrder, ReadRight(p), ~p.over, NEW z \in Seq(Cmd), NEW w \in Seq(Unit),
           NEW n \in 0..Len(w), n # Len(w), NEW a \in Seq(Cmd), p.q = a \o z,
           Coming(a, p.half, p.rest \o From(w, n)), ~p.stop, Len(p.rest) = 1
    PROVE  w[n + 1] = CR /\ Reading(Line([p EXCEPT !.rest = <<>>], p.rest), z, w, n + 1)
<1>1. /\ p \in ParserType /\ p.rest \in Seq(Unit) /\ p.half \in BOOLEAN /\ p.q \in Seq(Cmd)
      /\ From(w, n) \in Seq(Unit)
  BY FromIs DEF InOrder, ParserType
<1>2. PICK t \in Seq(Unit) : t = p.rest \o From(w, n)
  BY <1>1, Joined
<1>3. t # <<>> /\ Coming(a, p.half, t)
  <2>1. Len(t) = 1 + Len(From(w, n)) /\ Len(From(w, n)) \in Nat
    BY <1>1, <1>2, OneJoined
  <2> QED  BY <1>2, <2>1
<1> DEFINE c == Head(a)
           u == SubSeq(t, 4, Len(t))
<1>4. /\ a # <<>> /\ Len(t) >= 3 /\ t[2] = CR /\ t[3] = LF /\ u \in Seq(Unit)
      /\ p.half => c \notin Dels /\ t[1] = Text(c, "body") /\ Coming(Tail(a), FALSE, u)
      /\ ~p.half /\ c \in Dels => t[1] = Text(c, "int") /\ Coming(Tail(a), FALSE, u)
      /\ ~p.half /\ c \notin Dels => t[1] = Text(c, "head") /\ Coming(a, TRUE, u)
  BY <1>1, <1>3, NextLine
<1> HIDE DEF u
<1>5. n + 2 \in 0..Len(w) /\ t[1] = p.rest[1] /\ t[2] = w[n + 1] /\ t[3] = w[n + 2] /\ u = From(w, n + 2)
  <2>1. PICK e \in Seq(Unit) : e = p.rest
    BY <1>1
  <2>2. Len(e) = 1 /\ t = e \o From(w, n) /\ Len(e \o From(w, n)) >= 3
    BY <1>2, <1>4, <2>1
  <2>3. /\ n + 2 \in 0..Len(w) /\ t[1] = e[1] /\ t[2] = w[n + 1] /\ t[3] = w[n + 2]
        /\ SubSeq(t, 4, Len(t)) = From(w, n + 2)
    BY <2>2, LineEnd
  <2> QED  BY <2>1, <2>3 DEF u
<1>6. PICK x \in Unit : x = p.rest[1] /\ p.rest = <<x>>
  <2>1. p.rest[1] \in Unit /\ p.rest = <<p.rest[1]>>
    BY <1>1
  <2> QED  BY <2>1
<1>7. PICK m \in InOrder : m = [p EXCEPT !.rest = <<>>]
  <2>1. <<>> \in Seq(Unit)
    OBVIOUS
  <2> QED  BY <1>1, <2>1 DEF InOrder, ParserType
<1>8. /\ m.rest = <<>> /\ m.over = p.over /\ m.q = p.q /\ m.done = p.done /\ m.half = p.half
      /\ m.stop = p.stop /\ m.reply = p.reply
  BY <1>1, <1>7 DEF ParserType
<1>9. ReadRight(m)
  BY <1>8 DEF ReadRight
<1>10. /\ m.q # <<>> /\ Head(m.q) = c /\ Tail(m.q) = Tail(a) \o z /\ Tail(a) \in Seq(Cmd)
  BY <1>4, <1>8, FirstOf
<1> HIDE DEF c
<1> DEFINE r == Line(m, <<x>>)
<1>11. ReadRight(r)
  BY <1>1, <1>4, <1>5, <1>6, <1>8, <1>9, <1>10, LineReads
<1>12. /\ r \in InOrder /\ r.over = m.over /\ r.rest = m.rest
       /\ m.half \/ x.is # "head" => r.q = Tail(m.q) /\ r.half = FALSE
       /\ ~m.half /\ x.is = "head" => r.q = m.q /\ r.half = TRUE
  BY <1>10, LineFields
<1> HIDE DEF r
<1>13. \E b \in Seq(Cmd) : r.q = b \o z /\ Coming(b, r.half, u)
  <2>1. CASE p.half \/ c \in Dels
    <3>1. Coming(Tail(a), FALSE, u)
      BY <1>1, <1>4, <2>1
    <3>2. m.half \/ x.is # "head"
      <4>1. CASE p.half
        BY <1>8, <4>1
      <4>2. CASE ~p.half
        <5>1. x = Text(c, "int")
          BY <1>4, <1>5, <1>6, <2>1, <4>2
        <5> QED  BY <5>1 DEF Text
      <4> QED  BY <4>1, <4>2
    <3> QED  BY <1>10, <1>12, <3>1, <3>2
  <2>2. CASE ~p.half /\ c \notin Dels
    <3>1. Coming(a, TRUE, u) /\ x = Text(c, "head")
      BY <1>4, <1>5, <1>6, <2>2
    <3>2. ~m.half /\ x.is = "head"
      BY <1>8, <2>2, <3>1 DEF Text
    <3> QED  BY <1>8, <1>12, <3>1, <3>2
  <2> QED  BY <2>1, <2>2
<1>14. (n + 1) + 1 = n + 2 /\ n + 1 # 0 /\ n + 1 # Len(w)
  BY <1>5
<1>15. Left(r, z, w, n + 1)
  BY <1>4, <1>5, <1>8, <1>12, <1>13, <1>14 DEF Left
<1>16. Reading(r, z, w, n + 1)
  BY <1>8, <1>11, <1>12, <1>15 DEF Reading
<1> QED  BY <1>4, <1>5, <1>6, <1>7, <1>16 DEF r

LEMMA OneLong ==
    \A e \in Seq(Unit) : e # <<>> /\ Len(e) <= 1 => Len(e) = 1
<1> TAKE e \in Seq(Unit)
<1>1. Len(e) \in Nat /\ (Len(e) = 0 => e = <<>>)
  BY EmptySeq
<1> QED  BY <1>1

LEMMA TakeReads ==
    ASSUME QueueTypes, IsInjective(toReceive), NEW p, NEW z \in Seq(Cmd), NEW w \in Seq(Unit),
           NEW n \in 0..Len(w), n # Len(w), Reading(p, z, w, n)
    PROVE  Reading(Take(p, w[n + 1]), z, w, n + 1)
<1>0. p \in InOrder /\ ~p.over /\ ReadRight(p)
  BY DEF Reading
<1>1. p.rest \in Seq(Unit) /\ p.half \in BOOLEAN /\ p.stop \in BOOLEAN
  BY <1>0 DEF InOrder, ParserType
<1>2. PICK a \in Seq(Cmd) :
        /\ p.q = a \o z
        /\ \/ /\ Coming(a, p.half, p.rest \o From(w, n))
              /\ p.stop \/ Len(p.rest) <= 1
           \/ /\ p.rest = <<>> /\ n # 0 /\ w[n] = CR /\ n # Len(w) /\ w[n + 1] = LF
              /\ Coming(a, p.half, From(w, n + 1))
  BY DEF Reading, Left
<1>3. CR # LF
  BY DEF CR, LF
<1>4. CASE p.rest = <<>> /\ w[n + 1] = LF /\ Coming(a, p.half, From(w, n + 1))
  <2>1. Take(p, w[n + 1]) = p
    BY <1>0, <1>4 DEF Take
  <2>2. n + 1 \in 0..Len(w)
    OBVIOUS
  <2>3. <<>> \o From(w, n + 1) = From(w, n + 1)
    BY <2>2, FromIs
  <2>4. Coming(a, p.half, p.rest \o From(w, n + 1)) /\ Len(p.rest) <= 1
    BY <1>4, <2>3
  <2>5. Left(p, z, w, n + 1)
    BY <1>2, <2>4 DEF Left
  <2> QED  BY <1>0, <2>1, <2>5 DEF Reading
<1>5. CASE Coming(a, p.half, p.rest \o From(w, n)) /\ (p.stop \/ Len(p.rest) <= 1)
  <2>1. CASE p.rest = <<>>
    <3>1. From(w, n) \in Seq(Unit) /\ Len(From(w, n)) = Len(w) - n /\ From(w, n)[1] = w[n + 1]
      BY FromIs
    <3>2. PICK t \in Seq(Unit) : t = From(w, n)
      BY <3>1
    <3>3. t # <<>> /\ p.rest \o From(w, n) = t /\ Coming(a, p.half, t)
      BY <1>5, <2>1, <3>1, <3>2
    <3>4. \E k \in {"int", "head", "body"} : t[1] = Text(Head(a), k)
      BY <1>1, <3>3, NextLine
    <3>5. w[n + 1] # CR /\ w[n + 1] # LF
      BY <3>1, <3>2, <3>4 DEF Text, CR, LF
    <3>6. Take(p, w[n + 1]) = [p EXCEPT !.rest = Append(@, w[n + 1])]
      BY <1>0, <3>5 DEF Take
    <3> QED  BY <1>0, <1>2, <1>5, <2>1, <3>6, KeepReads
  <2>2. CASE p.rest # <<>> /\ p.stop
    <3>1. Take(p, w[n + 1]) = [p EXCEPT !.rest = Append(@, w[n + 1])]
      BY <1>0, <2>2 DEF Take
    <3> QED  BY <1>0, <1>2, <1>5, <2>2, <3>1, KeepReads
  <2>3. CASE p.rest # <<>> /\ ~p.stop
    <3>1. Len(p.rest) = 1
      <4>1. PICK e \in Seq(Unit) : e = p.rest
        BY <1>1
      <4>2. e # <<>> /\ Len(e) <= 1
        BY <1>5, <2>3, <4>1
      <4>3. Len(e) = 1
        BY <4>2, OneLong
      <4> QED  BY <4>1, <4>3
    <3>2. w[n + 1] = CR /\ Reading(Line([p EXCEPT !.rest = <<>>], p.rest), z, w, n + 1)
      BY <1>0, <1>2, <1>5, <2>3, <3>1, EndReads
    <3>3. Take(p, w[n + 1]) = Line([p EXCEPT !.rest = <<>>], p.rest)
      BY <1>0, <1>3, <2>3, <3>2 DEF Take
    <3> QED  BY <3>2, <3>3
  <2> QED  BY <2>1, <2>2, <2>3
<1> QED  BY <1>2, <1>4, <1>5

\* A read: the first k units of t behind those of s.
LEMMA ReadSplits ==
    ASSUME NEW s \in Seq(Unit), NEW t \in Seq(Unit), NEW k \in 1..Len(t)
    PROVE  LET w == s \o t
               b == s \o SubSeq(t, 1, k)
           IN  /\ w \in Seq(Unit) /\ b \in Seq(Unit) /\ Len(b) \in 1..Len(w)
               /\ \A n \in 1..Len(b) : b[n] = w[n]
               /\ b[Len(b)] = t[k] /\ From(w, Len(b)) = SubSeq(t, k + 1, Len(t))
<1>1. PICK w \in Seq(Unit) : w = s \o t
  BY Joined
<1>2. /\ Len(w) = Len(s) + Len(t) /\ \A n \in 1..Len(s) : w[n] = s[n]
      /\ \A n \in 1..Len(t) : w[Len(s) + n] = t[n]
  BY <1>1, Joined
<1>3. PICK f \in Seq(Unit) : f = SubSeq(t, 1, k)
  <2>1. 1 \in 1..Len(t) + 1 /\ k \in 0..Len(t)
    OBVIOUS
  <2> QED  BY <2>1, ElementsOfPart
<1>4. Len(f) = k /\ \A n \in 1..k : f[n] = t[n]
  BY <1>3
<1>5. PICK b \in Seq(Unit) : b = s \o f
  BY Joined
<1>6. /\ Len(b) = Len(s) + Len(f) /\ \A n \in 1..Len(s) : b[n] = s[n]
      /\ \A n \in 1..Len(f) : b[Len(s) + n] = f[n]
  BY <1>5, Joined
<1>7. PICK l \in Nat : l = Len(s)
  OBVIOUS
<1>8. Len(b) = l + k /\ Len(w) = l + Len(t) /\ Len(b) \in 1..Len(w)
  BY <1>2, <1>4, <1>6, <1>7
<1>9. ASSUME NEW n \in 1..Len(b) PROVE b[n] = w[n]
  <2>1. CASE n \in 1..l
    BY <1>2, <1>6, <1>7, <2>1
  <2>2. CASE n \notin 1..l
    <3>1. PICK j \in 1..k : n = l + j
      <4>1. n - l \in 1..k /\ n = l + (n - l)
        BY <1>8, <2>2
      <4> QED  BY <4>1
    <3>2. b[l + j] = f[j] /\ f[j] = t[j] /\ w[l + j] = t[j]
      BY <1>2, <1>4, <1>6, <1>7
    <3> QED  BY <3>1, <3>2
  <2> QED  BY <2>1, <2>2
<1>10. b[Len(b)] = t[k]
  <2>1. b[l + k] = f[k] /\ f[k] = t[k]
    BY <1>4, <1>6, <1>7
  <2> QED  BY <1>8, <2>1
<1>11. PICK u \in Seq(Unit) : u = From(w, Len(b))
  BY <1>8, FromIs
<1>12. Len(u) = Len(w) - Len(b) /\ \A n \in 1..(Len(w) - Len(b)) : u[n] = w[Len(b) + n]
  <2>1. PICK m \in 0..Len(w) : m = Len(b)
    BY <1>8
  <2>2. Len(From(w, m)) = Len(w) - m /\ \A n \in 1..(Len(w) - m) : From(w, m)[n] = w[m + n]
    BY FromIs
  <2> QED  BY <1>11, <2>1, <2>2
<1>13. PICK v \in Seq(Unit) : v = From(t, k)
  <2>1. k \in 0..Len(t)
    OBVIOUS
  <2> QED  BY <2>1, FromIs
<1>14. /\ v = SubSeq(t, k + 1, Len(t)) /\ Len(v) = Len(t) - k
       /\ \A n \in 1..(Len(t) - k) : v[n] = t[k + n]
  <2>1. k \in 0..Len(t)
    OBVIOUS
  <2> QED  BY <1>13, <2>1, FromIs DEF From
<1>15. Len(u) = Len(v)
  BY <1>8, <1>12, <1>14
<1>16. ASSUME NEW n \in 1..Len(u) PROVE u[n] = v[n]
  <2>1. k + n \in 1..Len(t) /\ l + (k + n) = Len(b) + n
    BY <1>8, <1>14, <1>15
  <2>2. u[n] = w[Len(b) + n] /\ v[n] = t[k + n]
    BY <1>12, <1>14, <1>15
  <2>3. w[l + (k + n)] = t[k + n]
    BY <1>2, <1>7, <2>1
  <2> QED  BY <2>1, <2>2, <2>3
<1>17. u = v
  BY <1>15, <1>16, SeqEqual
<1> QED  BY <1>1, <1>3, <1>5, <1>8, <1>9, <1>10, <1>11, <1>14, <1>17

\* The scan of what was kept and what came, up to any end of a read that is not
\* between a '\r' and its '\n'.
LEMMA ScanReads ==
    ASSUME QueueTypes, CommandTypes, IsInjective(toReceive), down \in Seq(Unit),
           NEW k \in 1..Len(down), down[k] # CR,
           NEW a \in Seq(Cmd), NEW z \in Seq(Cmd), toReceive = a \o z, Coming(a, half, buf \o down),
           \A c \in ToSet(toReceive) : reply[c] = ReadSoFar(c, toReceive, half)
    PROVE  LET b == buf \o SubSeq(down, 1, k)
               p == Scan(b)
           IN  /\ p \in InOrder /\ ReadRight(p) /\ Unhandled(p, b) = p.rest
               /\ \E e \in Seq(Cmd) : /\ p.q = e \o z
                                       /\ Coming(e, p.half, p.rest \o SubSeq(down, k + 1, Len(down)))
<1>0. buf \in Seq(Unit)
  BY DEF QueueTypes
<1>1. PICK w : w = buf \o down
  OBVIOUS
<1>2. PICK b : b = buf \o SubSeq(down, 1, k)
  OBVIOUS
<1>3. /\ w \in Seq(Unit) /\ b \in Seq(Unit) /\ Len(b) \in 1..Len(w) /\ \A n \in 1..Len(b) : b[n] = w[n]
      /\ b[Len(b)] = down[k] /\ From(w, Len(b)) = SubSeq(down, k + 1, Len(down))
  BY <1>0, <1>1, <1>2, ReadSplits
<1>4. PICK g \in [0..Len(b) -> InOrder] :
        /\ g[0] = Parser /\ Scan(b) = g[Len(b)]
        /\ \A n \in 1..Len(b) : g[n] = Take(g[n - 1], b[n])
  BY <1>3, ScanSteps
<1>5. PICK N \in Nat : N = Len(b)
  BY <1>3
<1> DEFINE T == {n \in 0..N : Reading(g[n], z, w, n)}
<1>6. 0 \in T
  <2>0. 0 \in 0..N /\ 0 \in 0..Len(b)
    BY <1>5
  <2>1. g[0] = Parser /\ Parser \in InOrder
    BY <1>4, <2>0
  <2>2. /\ ~Parser.over /\ Parser.q = toReceive /\ Parser.done = <<>> /\ Parser.reply = reply
        /\ Parser.half = half /\ Parser.rest = <<>>
    BY DEF Parser
  <2>3. ReadRight(Parser)
    BY <2>2, ElementsOfEmpty DEF ReadRight
  <2>4. <<>> \o From(w, 0) = w /\ Len(<<>>) <= 1
    BY <1>3, FromStart
  <2>5. Coming(a, Parser.half, Parser.rest \o From(w, 0)) /\ Len(Parser.rest) <= 1
    BY <1>1, <2>2, <2>4
  <2>6. Left(Parser, z, w, 0)
    BY <2>2, <2>5 DEF Left
  <2> QED  BY <2>0, <2>1, <2>2, <2>3, <2>6 DEF Reading
<1>7. ASSUME NEW n \in 1..N, n - 1 \in T PROVE n \in T
  <2>1. PICK m \in Nat : m = n - 1
    OBVIOUS
  <2>2. m \in 0..Len(w) /\ m # Len(w) /\ m + 1 = n /\ n \in 1..Len(b) /\ n \in 0..N
    BY <1>3, <1>5, <2>1
  <2>3. Reading(g[m], z, w, m)
    BY <1>7, <2>1
  <2>4. Reading(Take(g[m], w[m + 1]), z, w, m + 1)
    BY <1>3, <2>2, <2>3, TakeReads
  <2>5. g[n] = Take(g[m], w[n])
    BY <1>3, <1>4, <2>1, <2>2
  <2> QED  BY <2>2, <2>4, <2>5
<1>8. 0..N \subseteq T
  <2> HIDE DEF T
  <2> QED  BY <1>6, <1>7, AllNumbers
<1>9. Reading(g[N], z, w, N)
  BY <1>8
<1> HIDE DEF T
<1>10. PICK p : p = Scan(b)
  OBVIOUS
<1>11. p \in InOrder /\ ~p.over /\ ReadRight(p) /\ Left(p, z, w, N)
  BY <1>4, <1>5, <1>9, <1>10 DEF Reading
<1>12. w[N] # CR /\ Last(b) # CR
  <2>1. N \in 1..Len(b) /\ b[N] # CR
    BY <1>3, <1>5
  <2> QED  BY <1>3, <1>5, <2>1 DEF Last
<1>13. Unhandled(p, b) = p.rest
  BY <1>11, <1>12 DEF Unhandled
<1>14. \E e \in Seq(Cmd) : p.q = e \o z /\ Coming(e, p.half, p.rest \o From(w, N))
  BY <1>11, <1>12 DEF Left
<1> QED  BY <1>2, <1>3, <1>5, <1>10, <1>11, <1>13, <1>14

-----------------------------------------------------------------------------
(* What the steps do to it. *)

Unconnected == \A d \in Dispatcher : dpc[d] # "connected"

LEMMA WireKept ==
    ASSUME OnWire, UNCHANGED <<state, so, link, toReceive, half, buf, up, down>>, Unconnected'
    PROVE  OnWire'
BY DEF OnWire, InStep, BeginsClean, Unconnected

\* connect() begins with the queues that a closing has left.
LEMMA ConnectOwn ==
    ASSUME TypeOK, OnWire, so = 0, ConnectInProgress \/ ConnectUnreachable,
           UNCHANGED <<toReceive, half>>, Unconnected'
    PROVE  OnWire'
<1>1. toReceive = <<>> /\ ~half
  BY DEF OnWire, BeginsClean
<1>2. so' = opened + 1 /\ opened \in Nat
  BY DEF ConnectInProgress, ConnectUnreachable, TypeOK, SocketTypes
<1>3. so' # 0
  BY <1>2
<1> QED  BY <1>1, <1>3 DEF OnWire, InStep, BeginsClean, Unconnected, ConnectInProgress, ConnectUnreachable

LEMMA ClosedOwn ==
    ASSUME NEW extra, Disconnect(extra), Unconnected'
    PROVE  OnWire'
BY DEF OnWire, InStep, BeginsClean, Unconnected, Disconnect

LEMMA LastOf ==
    ASSUME NEW a \in Seq(Cmd), NEW z \in Seq(Cmd), NEW c \in Cmd
    PROVE  Append(a \o z, c) = a \o Append(z, c) /\ Append(z, c) \in Seq(Cmd) /\ Append(z, c) # <<>>
OBVIOUS

\* A command that is sent goes behind those that wait.
LEMMA SendOwn ==
    ASSUME TypeOK, OnWire, NEW c \in Cmd, SendSucceeds(c), ~(state = "connecting" /\ link = "up"),
           UNCHANGED <<buf, dpc>>
    PROVE  OnWire' /\ (half => Head(toReceive') = Head(toReceive))
<1>1. /\ link \in {"up", "eof"} /\ toReceive' = Append(toReceive, c)
      /\ up' = IF link = "up" THEN Append(up, c) ELSE up
      /\ UNCHANGED <<state, so, link, down, half>>
  BY DEF SendSucceeds, sockVars
<1>2. toReceive \in Seq(Cmd) /\ Append(toReceive, c) # <<>>
  BY LastOf DEF TypeOK, QueueTypes
<1>3. half => toReceive # <<>>
  BY DEF OnWire, BeginsClean
<1>4. half => Head(toReceive') = Head(toReceive)
  BY <1>1, <1>2, <1>3
<1>5. so # 0
  BY <1>1 DEF TypeOK, SocketTypes
<1>6. BeginsClean'
  BY <1>1, <1>2, <1>5 DEF OnWire, BeginsClean
<1>7. ASSUME state = "connected" PROVE InStep'
  <2>1. PICK a, z \in Seq(Cmd) : /\ toReceive = a \o z /\ Coming(a, half, buf \o down)
                                 /\ link = "up" => up = z
    BY <1>1, <1>7 DEF OnWire, InStep
  <2>2. Append(toReceive, c) = a \o Append(z, c) /\ Append(z, c) \in Seq(Cmd)
    BY <2>1, LastOf
  <2>3. toReceive' = a \o Append(z, c) /\ Coming(a, half', buf' \o down') /\ (link' = "up" => up' = Append(z, c))
    BY <1>1, <2>1, <2>2
  <2> QED  BY <2>2, <2>3 DEF InStep
<1>8. ASSUME state # "connected" PROVE InStep'
  BY <1>1, <1>8 DEF InStep
<1> QED  BY <1>4, <1>6, <1>7, <1>8 DEF OnWire

\* The server answers in the order of the commands.
LEMMA ServerOwn ==
    ASSUME TypeOK, OnWire, ServerAnswers
    PROVE  OnWire'
<1>1. /\ link = "up" /\ up # <<>> /\ up' = Tail(up) /\ down' = down \o Answer(Head(up))
      /\ UNCHANGED <<state, so, link, toReceive, half, buf, dpc>>
  BY DEF ServerAnswers, sockVars, queueVars, dispVars
<1>2. /\ up \in Seq(Cmd) /\ down \in Seq(Unit) /\ buf \in Seq(Unit) /\ half \in BOOLEAN
      /\ so # 0 /\ state \in {"initial", "connecting", "connected"}
  BY <1>1 DEF TypeOK, SocketTypes, QueueTypes
<1>3. state = "connected"
  BY <1>1, <1>2 DEF OnWire, BeginsClean
<1>4. BeginsClean'
  BY <1>1, <1>3 DEF OnWire, BeginsClean
<1>5. PICK a, z \in Seq(Cmd) : toReceive = a \o z /\ Coming(a, half, buf \o down) /\ up = z
  BY <1>1, <1>3 DEF OnWire, InStep
<1>6. PICK c \in Cmd : c = Head(up)
  BY <1>1, <1>2
<1>7. Append(a, c) \in Seq(Cmd) /\ Tail(z) \in Seq(Cmd) /\ toReceive = Append(a, c) \o Tail(z)
  <2>1. Append(a, Head(z)) \o Tail(z) = a \o z
    BY <1>1, <1>5, HeadMoves
  <2>2. Tail(z) \in Seq(Cmd) /\ c = Head(z) /\ Append(a, c) \in Seq(Cmd)
    BY <1>1, <1>5, <1>6
  <2> QED  BY <1>5, <2>1, <2>2
<1>8. Coming(Append(a, c), half, (buf \o down) \o Answer(c))
  <2>1. buf \o down \in Seq(Unit)
    BY <1>2, Joined
  <2> QED  BY <1>2, <1>5, <2>1, NextAnswer
<1>9. (buf \o down) \o Answer(c) = buf \o (down \o Answer(c))
  BY <1>2, AnswerShape, Regrouped
<1>10. Coming(Append(a, c), half', buf' \o down') /\ toReceive' = Append(a, c) \o Tail(z) /\ up' = Tail(z)
  BY <1>1, <1>5, <1>6, <1>7, <1>8, <1>9
<1>11. InStep'
  BY <1>7, <1>10 DEF InStep
<1> QED  BY <1>4, <1>11 DEF OnWire

LEMMA NetworkOwn ==
    ASSUME TypeOK, OnWire, Network
    PROVE  OnWire'
<1>1. UNCHANGED <<state, so, down, toReceive, half, buf, dpc>>
  BY DEF Network, queueVars, dispVars
<1>2. CASE link = "syn" /\ link' \in {"up", "failed"} /\ up' = up
  BY <1>1, <1>2 DEF OnWire, InStep, BeginsClean
<1>3. CASE link = "up" /\ link' = "eof" /\ up' = <<>>
  <2>1. BeginsClean'
    BY <1>1, <1>3 DEF OnWire, BeginsClean
  <2>2. InStep'
    BY <1>1, <1>3 DEF OnWire, InStep
  <2> QED  BY <2>1, <2>2 DEF OnWire
<1> QED  BY <1>2, <1>3 DEF Network

\* OnConnected() empties the buffer before anything comes.
LEMMA SetConnectedOwn ==
    ASSUME TypeOK, OnWire, NEW d \in Dispatcher, state = "connecting",
           link \in {"up", "eof", "failed"}, SetConnected(d), UNCHANGED <<so, link, toReceive, half, up, down>>
    PROVE  OnWire'
<1>1. /\ state' = "connected" /\ buf' = <<>> /\ DGoto(d, "flush")
  BY DEF SetConnected
<1>2. Unconnected'
  <2>1. dpc' = [dpc EXCEPT ![d] = "flush"] /\ DOMAIN dpc = Dispatcher
    BY <1>1 DEF DGoto, TypeOK, DispatcherTypes
  <2> QED  BY <2>1 DEF OnWire, BeginsClean, Unconnected
<1>3. /\ up = <<>> /\ down = <<>> /\ ~half /\ so # 0 /\ (link = "up" => toReceive = <<>>)
      /\ toReceive \in Seq(Cmd)
  BY DEF OnWire, BeginsClean, TypeOK, QueueTypes
<1>4. BeginsClean'
  BY <1>1, <1>2, <1>3 DEF OnWire, BeginsClean, Unconnected
<1>5. Coming(<<>>, half', buf' \o down')
  <2>1. <<>> \in Seq(Unit) /\ <<>> \o <<>> = <<>>
    OBVIOUS
  <2>2. Answers(<<>>, <<>>)
    BY <2>1, NoAnswers
  <2> QED  BY <1>1, <1>3, <2>1, <2>2 DEF Coming
<1>6. <<>> \in Seq(Cmd) /\ toReceive' = <<>> \o toReceive
  BY <1>3
<1>7. InStep'
  BY <1>3, <1>5, <1>6 DEF InStep
<1> QED  BY <1>4, <1>7 DEF OnWire

-----------------------------------------------------------------------------
(* And to the replies. *)

LEMMA ToldMore ==
    ASSUME TypeOK, NEW T, Told(T)
    PROVE  \A c \in Cmd : /\ reported[c] > 0 => reported'[c] > 0
                          /\ c \in T => reported'[c] > 0
BY DEF Told, TypeOK, CommandTypes

\* A step that reads nothing and completes nothing.
LEMMA RecordKept ==
    ASSUME TypeOK, OnRecord, UNCHANGED <<reply, replied>>, Completed' = Completed,
           \A c \in Cmd : reported[c] > 0 => reported'[c] > 0,
           \A c \in Cmd : reported'[c] = 0 =>
               ReadSoFar(c, toReceive', half') = ReadSoFar(c, toReceive, half)
    PROVE  OnRecord'
<1>1. \A c \in Cmd : reported'[c] = 0 => reported[c] = 0
  <2> TAKE c \in Cmd
  <2>1. reported[c] \in Nat /\ (reported[c] > 0 => reported'[c] > 0)
    BY DEF TypeOK, CommandTypes
  <2> QED  BY <2>1
<1>2. replied \subseteq Cmd
  BY DEF TypeOK, CommandTypes
<1>3. ReplyIsOwn'
  BY DEF OnRecord, ReplyIsOwn
<1>4. /\ \A c \in replied' : reported'[c] > 0
      /\ \A c \in Completed' : reply'[c] = LinesOf(c)
  BY <1>2 DEF OnRecord, LinesRead
<1>5. ASSUME NEW c \in Cmd \ Completed', reported'[c] = 0
      PROVE  reply'[c] = ReadSoFar(c, toReceive', half')
  BY <1>1, <1>5 DEF OnRecord, LinesRead
<1> QED  BY <1>3, <1>4, <1>5 DEF OnRecord, LinesRead

\* A dispatcher that does not call OnReply() before the step nor after it.
LEMMA CompletedKept ==
    ASSUME TypeOK, NEW d \in Dispatcher, dpc[d] # "reply", dpc'[d] # "reply",
           \A e \in Dispatcher \ {d} : dpc'[e] = dpc[e] /\ work'[e] = work[e]
    PROVE  Completed' = Completed
<1>1. {e \in Dispatcher : dpc'[e] = "reply"} = {e \in Dispatcher : dpc[e] = "reply"}
  OBVIOUS
<1>2. \A e \in {e \in Dispatcher : dpc[e] = "reply"} : work'[e] = work[e]
  OBVIOUS
<1> QED  BY <1>1, <1>2 DEF Completed

LEMMA CompletedIs == \A c : c \in Completed <=> \E d \in Dispatcher : dpc[d] = "reply" /\ c \in ToSet(work[d])
BY DEF Completed

\* A closing tells the command whose bulk was still to come.
LEMMA ClosedRecord ==
    ASSUME TypeOK, OnePlace, OnWire, OnRecord, NEW extra \in Seq(Cmd), IsInjective(extra),
           ToSet(extra) \cap (ToSet(toSend) \cup ToSet(toReceive)) = {}, Disconnect(extra),
           UNCHANGED <<reply, replied>>, Completed' = Completed
    PROVE  OnRecord'
<1>1. Told(ToSet(toSend) \cup ToSet(toReceive) \cup ToSet(extra))
  BY DisconnectTells
<1>2. \A c \in Cmd : /\ reported[c] > 0 => reported'[c] > 0
                     /\ c \in ToSet(toReceive) => reported'[c] > 0
  BY <1>1, ToldMore
<1>3. half' = FALSE
  BY DEF Disconnect
<1>4. half => Head(toReceive) \in ToSet(toReceive)
  <2>1. toReceive \in Seq(Cmd) /\ (half => toReceive # <<>>)
    BY DEF TypeOK, QueueTypes, OnWire, BeginsClean
  <2> QED  BY <2>1, ElementsOfTail
<1>5. ASSUME NEW c \in Cmd, reported'[c] = 0
      PROVE  ReadSoFar(c, toReceive', half') = ReadSoFar(c, toReceive, half)
  <2>1. c \notin ToSet(toReceive)
    BY <1>2, <1>5
  <2> QED  BY <1>3, <1>4, <2>1 DEF ReadSoFar
<1> QED  BY <1>2, <1>5, RecordKept

\* The sending of one command, whatever comes of it.
LEMMA SendingOwn ==
    ASSUME Lucky, TypeOK, OnePlace, OnWire, OnRecord,
           NEW c \in Cmd, c \notin ToSet(toSend) \cup ToSet(toReceive),
           SendSucceeds(c) \/ SendFails(c) \/ SendsPart(c) \/ ExpiredUnsent(c),
           ~(state = "connecting" /\ link = "up"),
           UNCHANGED <<buf, dpc, reply, replied>>, Completed' = Completed
    PROVE  OnWire' /\ OnRecord'
<1>1. Unconnected'
  BY DEF OnWire, BeginsClean, Unconnected
<1>2. \A e \in Cmd : reported[e] > 0 => reported'[e] > 0
  <2>1. Disposed({c})
    BY SendDisposes
  <2>2. PICK T : Told(T)
    BY <2>1 DEF Disposed
  <2> QED  BY <2>2, ToldMore
<1>3. CASE SendSucceeds(c)
  <2>1. OnWire' /\ (half => Head(toReceive') = Head(toReceive))
    BY <1>3, SendOwn
  <2>2. half' = half
    BY <1>3 DEF SendSucceeds
  <2>3. \A e \in Cmd : ReadSoFar(e, toReceive', half') = ReadSoFar(e, toReceive, half)
    BY <2>1, <2>2 DEF ReadSoFar
  <2> QED  BY <1>2, <2>1, <2>3, RecordKept
<1>4. CASE Disconnect(<<c>>)
  <2>1. <<c>> \in Seq(Cmd) /\ IsInjective(<<c>>) /\ ToSet(<<c>>) = {c}
    BY NothingOnce
  <2>2. OnRecord'
    BY <1>4, <2>1, ClosedRecord
  <2> QED  BY <1>1, <1>4, <2>2, ClosedOwn
<1>5. CASE UNCHANGED <<sockVars, wireVars, queueVars>>
  <2>1. OnWire'
    BY <1>1, <1>5, WireKept DEF sockVars, wireVars, queueVars
  <2>2. \A e \in Cmd : ReadSoFar(e, toReceive', half') = ReadSoFar(e, toReceive, half)
    BY <1>5 DEF queueVars
  <2> QED  BY <1>2, <2>1, <2>2, RecordKept
<1>6. ~SendsPart(c)
  BY DEF SendsPart, Lucky
<1>7. SendFails(c) => Disconnect(<<c>>) \/ UNCHANGED <<sockVars, wireVars, queueVars>>
  BY DEF SendFails
<1>8. ExpiredUnsent(c) => UNCHANGED <<sockVars, wireVars, queueVars>>
  BY DEF ExpiredUnsent
<1> QED  BY <1>3, <1>4, <1>5, <1>6, <1>7, <1>8

\* Connecting, pending, and failing without a send leave the replies alone.
LEMMA PendingOwn ==
    ASSUME TypeOK, OnePlace, OnWire, OnRecord,
           NEW c \in Cmd, c \notin ToSet(toSend) \cup ToSet(toReceive),
           \/ Pend(c, toSend) \/ (Fail(<<c>>) /\ UNCHANGED toSend) \/ UNCHANGED <<toSend, errVars>>,
           \/ UNCHANGED <<sockVars, wireVars>>
           \/ so = 0 /\ (ConnectInProgress \/ ConnectUnreachable),
           UNCHANGED <<toReceive, half, buf, dpc, reply, replied>>, Completed' = Completed
    PROVE  OnWire' /\ OnRecord'
<1>1. Unconnected'
  BY DEF OnWire, BeginsClean, Unconnected
<1>2. OnWire'
  <2>1. CASE UNCHANGED <<sockVars, wireVars>>
    BY <1>1, <2>1, WireKept DEF sockVars, wireVars
  <2>2. CASE so = 0 /\ (ConnectInProgress \/ ConnectUnreachable)
    BY <1>1, <2>2, ConnectOwn
  <2> QED  BY <2>1, <2>2
<1>3. \A e \in Cmd : reported[e] > 0 => reported'[e] > 0
  <2>1. CASE Pend(c, toSend) \/ (Fail(<<c>>) /\ UNCHANGED toSend)
    <3>1. Disposed({c})
      BY <2>1, PendDisposes, FailDisposes
    <3>2. PICK T : Told(T)
      BY <3>1 DEF Disposed
    <3> QED  BY <3>2, ToldMore
  <2>2. CASE UNCHANGED <<toSend, errVars>>
    BY <2>2 DEF errVars
  <2> QED  BY <2>1, <2>2
<1>4. \A e \in Cmd : ReadSoFar(e, toReceive', half') = ReadSoFar(e, toReceive, half)
  OBVIOUS
<1> QED  BY <1>2, <1>3, <1>4, RecordKept

-----------------------------------------------------------------------------
OwnState == TypeOK /\ OnceInv /\ OnWire /\ OnRecord

LEMMA CallerOwn ==
    ASSUME Lucky, OwnState, NEW c \in Cmd, Caller(c)
    PROVE  OnWire' /\ OnRecord'
<1>1. TypeOK /\ OnceInv /\ OnePlace /\ OnWire /\ OnRecord
  BY DEF OwnState, OnceInv
<1>2. ASSUME UNCHANGED dispVars PROVE Completed' = Completed /\ Unconnected'
  BY <1>1, <1>2 DEF Completed, dispVars, OnWire, BeginsClean, Unconnected
<1>3. pc[c] \in {"idle", "line"} => c \notin ToSet(toSend) \cup ToSet(toReceive)
  BY <1>1 DEF OnceInv, Owed, Waiting
<1>4. CASE SendCommand(c)
  <2>1. /\ UNCHANGED <<toReceive, half, buf, reply, replied, dispVars>> /\ pc[c] = "idle"
        /\ \/ Pend(c, toSend) \/ (Fail(<<c>>) /\ UNCHANGED toSend) \/ UNCHANGED <<toSend, errVars>>
        /\ \/ UNCHANGED <<sockVars, wireVars>>
           \/ so = 0 /\ (ConnectInProgress \/ ConnectUnreachable)
    BY <1>4 DEF SendCommand
  <2> QED  BY <1>1, <1>2, <1>3, <2>1, PendingOwn DEF dispVars
<1>5. CASE SendLine(c)
  <2>1. /\ UNCHANGED <<buf, reply, replied, dispVars>> /\ pc[c] = "line"
        /\ SendSucceeds(c) \/ SendFails(c) \/ SendsPart(c) \/ ExpiredUnsent(c)
        /\ ~(state = "connecting" /\ link = "up")
    BY <1>5 DEF SendLine, Lucky
  <2> QED  BY <1>1, <1>2, <1>3, <2>1, SendingOwn DEF dispVars
<1>6. CASE RunErr(c) \/ Wait(c)
  <2>1. UNCHANGED <<sockVars, wireVars, queueVars, buf, reply, replied, reported, dispVars>>
    BY <1>6 DEF RunErr, Wait, errVars
  <2>2. OnWire'
    BY <1>1, <1>2, <2>1, WireKept DEF sockVars, wireVars, queueVars
  <2>3. \A e \in Cmd : ReadSoFar(e, toReceive', half') = ReadSoFar(e, toReceive, half)
    BY <2>1 DEF queueVars
  <2> QED  BY <1>1, <1>2, <2>1, <2>2, <2>3, RecordKept
<1> QED  BY <1>4, <1>5, <1>6 DEF Caller

LEMMA OutsideOwn ==
    ASSUME OwnState, DisconnectCalled \/ ServerAnswers \/ Network
    PROVE  OnWire' /\ OnRecord'
<1>1. TypeOK /\ OnceInv /\ OnePlace /\ OnWire /\ OnRecord
  BY DEF OwnState, OnceInv
<1>2. UNCHANGED <<reply, replied, dispVars>>
  BY DEF DisconnectCalled, ServerAnswers, Network
<1>3. Completed' = Completed /\ Unconnected'
  BY <1>1, <1>2 DEF Completed, dispVars, OnWire, BeginsClean, Unconnected
<1>4. CASE DisconnectCalled
  <2>1. Disconnect(<<>>)
    BY <1>4 DEF DisconnectCalled
  <2>2. <<>> \in Seq(Cmd) /\ IsInjective(<<>>) /\ ToSet(<<>>) = {}
    BY NothingOnce, ElementsOfEmpty
  <2>3. OnRecord'
    BY <1>1, <1>2, <1>3, <2>1, <2>2, ClosedRecord
  <2> QED  BY <1>3, <2>1, <2>3, ClosedOwn
<1>5. CASE ServerAnswers \/ Network
  <2>1. UNCHANGED <<toReceive, half, reported>>
    BY <1>5 DEF ServerAnswers, Network, queueVars, errVars
  <2>2. OnRecord'
    BY <1>1, <1>2, <1>3, <2>1, RecordKept
  <2> QED  BY <1>1, <1>5, <2>2, ServerOwn, NetworkOwn
<1> QED  BY <1>4, <1>5

\* What has come is taken for the commands it answers.
LEMMA DataOwn ==
    ASSUME Lucky, OwnState, NEW d \in Dispatcher, dpc[d] = "read", DataArrives(d), replied' = replied
    PROVE  OnWire' /\ OnRecord'
<1>1. /\ TypeOK /\ OnceInv /\ OnePlace /\ OnWire /\ OnRecord /\ QueueTypes /\ CommandTypes
      /\ down \in Seq(Unit) /\ buf \in Seq(Unit) /\ toReceive \in Seq(Cmd) /\ half \in BOOLEAN
      /\ IsInjective(toReceive)
  BY DEF OwnState, OnceInv, OnePlace, TypeOK, SocketTypes, QueueTypes
<1>2. PICK k \in Chunk :
        LET b == buf \o SubSeq(down, 1, k)
            p == Scan(b)
        IN  /\ down' = SubSeq(down, k + 1, Len(down))
            /\ IF toReceive = <<>>
               THEN DGoto(d, "idle") /\ UNCHANGED <<buf, toReceive, half, reply, work>>
               ELSE /\ buf' = Unhandled(p, b)
                    /\ toReceive' = p.q /\ half' = p.half /\ reply' = p.reply
                    /\ work' = [work EXCEPT ![d] = p.done]
                    /\ DGoto(d, "reply")
  BY DEF DataArrives
<1>3. k \in 1..Len(down) /\ down[k] # CR
  BY DEF Chunk, Lucky
<1>4. UNCHANGED <<state, so, link, up, reported>>
  BY DEF DataArrives, sockVars, errVars
<1>5. state = "connected" /\ link \in {"up", "eof"}
  <2>1. down # <<>>
    BY <1>3
  <2> QED  BY <1>1, <2>1 DEF OnWire, BeginsClean, TypeOK, SocketTypes
<1>6. PICK a, z \in Seq(Cmd) : /\ toReceive = a \o z /\ Coming(a, half, buf \o down)
                               /\ link = "up" => up = z
  BY <1>1, <1>5 DEF OnWire, InStep
<1>7. toReceive # <<>>
  <2>1. PICK w \in Seq(Unit) : w = buf \o down
    BY <1>1, Joined
  <2>2. w # <<>>
    <3>1. Len(w) = Len(buf) + Len(down)
      BY <1>1, <2>1, Joined
    <3> QED  BY <1>1, <1>3, <3>1
  <2>3. a # <<>>
    BY <1>1, <1>6, <2>1, <2>2, NextLine
  <2> QED  BY <1>6, <2>3, FirstOf
\* No command that waits has been completed or reported.
<1>8. \A c \in ToSet(toReceive) : c \in Cmd /\ c \notin Completed /\ reported[c] = 0
  <2>1. ASSUME NEW c \in ToSet(toReceive) PROVE c \in Cmd /\ c \notin Completed /\ reported[c] = 0
    <3>1. c \in Cmd
      BY <1>1, ElementsOf
    <3>2. reported[c] = 0
      BY <1>1 DEF OnceInv, Owed, Waiting
    <3>3. c \notin Completed
      BY <1>1, CompletedIs DEF OnePlace
    <3> QED  BY <3>1, <3>2, <3>3
  <2> QED  BY <2>1
<1>9. \A c \in ToSet(toReceive) : reply[c] = ReadSoFar(c, toReceive, half)
  BY <1>1, <1>8 DEF OnRecord, LinesRead
<1>10. PICK p : p = Scan(buf \o SubSeq(down, 1, k))
  OBVIOUS
<1>11. /\ p \in InOrder /\ ReadRight(p) /\ Unhandled(p, buf \o SubSeq(down, 1, k)) = p.rest
       /\ \E e \in Seq(Cmd) : p.q = e \o z /\ Coming(e, p.half, p.rest \o SubSeq(down, k + 1, Len(down)))
  BY <1>1, <1>3, <1>6, <1>9, <1>10, ScanReads
<1>12. /\ down' = SubSeq(down, k + 1, Len(down)) /\ buf' = p.rest /\ toReceive' = p.q /\ half' = p.half
       /\ reply' = p.reply /\ work' = [work EXCEPT ![d] = p.done] /\ DGoto(d, "reply")
  BY <1>2, <1>7, <1>10, <1>11
<1>13. PICK e \in Seq(Cmd) : p.q = e \o z /\ Coming(e, half', buf' \o down')
  BY <1>11, <1>12
<1>14. InStep'
  BY <1>4, <1>6, <1>12, <1>13 DEF InStep
<1>15. half' => p.q # <<>>
  <2>1. half' => e # <<>>
    BY <1>13 DEF Coming
  <2> QED  BY <1>13, <2>1, FirstOf
<1>16. dpc' = [dpc EXCEPT ![d] = "reply"] /\ dpc \in [Dispatcher -> DispatcherPc] /\ work \in [Dispatcher -> Seq(Cmd)]
  BY <1>1, <1>12 DEF DGoto, TypeOK, DispatcherTypes
<1>17. BeginsClean'
  <2>1. Unconnected'
    BY <1>1, <1>16 DEF OnWire, BeginsClean, Unconnected
  <2> QED  BY <1>1, <1>4, <1>5, <1>12, <1>15, <2>1 DEF OnWire, BeginsClean, Unconnected
<1>18. /\ p.q \in Seq(Cmd) /\ p.done \in Seq(Cmd) /\ p.done \o p.q = toReceive
  BY <1>11 DEF InOrder, ParserType
<1>19. ToSet(p.done) \cup ToSet(p.q) = ToSet(toReceive)
  BY <1>1, <1>18, OnceOfConcat
<1>20. \A c : c \in Completed' <=> c \in Completed \/ c \in ToSet(p.done)
  <2>1. \A c : c \in Completed' <=> \E f \in Dispatcher : dpc'[f] = "reply" /\ c \in ToSet(work'[f])
    BY DEF Completed
  <2>2. /\ dpc'[d] = "reply" /\ work'[d] = p.done
        /\ \A f \in Dispatcher \ {d} : dpc'[f] = dpc[f] /\ work'[f] = work[f]
    BY <1>12, <1>16
  <2> QED  BY <2>1, <2>2, CompletedIs
<1>21. \A c \in Cmd \ ToSet(toReceive) : reply'[c] = reply[c]
  BY <1>11, <1>12 DEF ReadRight
<1>22. \A c \in replied : c \in Cmd /\ c \notin ToSet(toReceive)
  <2>1. \A c \in replied : c \in Cmd /\ reported[c] > 0
    BY <1>1 DEF OnRecord, LinesRead, CommandTypes
  <2> QED  BY <1>8, <2>1
<1>23. ReplyIsOwn'
  BY <1>1, <1>21, <1>22 DEF OnRecord, ReplyIsOwn
<1>24. \A c \in replied' : reported'[c] > 0
  BY <1>1, <1>4 DEF OnRecord, LinesRead
<1>25. ASSUME NEW c \in Completed' PROVE reply'[c] = LinesOf(c)
  <2>1. CASE c \in ToSet(p.done)
    BY <1>11, <1>12, <2>1 DEF ReadRight
  <2>2. CASE c \in Completed
    <3>1. c \notin ToSet(toReceive) /\ reply[c] = LinesOf(c)
      BY <1>1, <1>8, <2>2 DEF OnRecord, LinesRead
    <3>2. c \in Cmd
      BY <1>16, <2>2, CompletedIs, ElementsOf
    <3> QED  BY <1>21, <3>1, <3>2
  <2> QED  BY <1>20, <2>1, <2>2
<1>26. ASSUME NEW c \in Cmd \ Completed', reported'[c] = 0
       PROVE  reply'[c] = ReadSoFar(c, toReceive', half')
  <2>1. CASE c \in ToSet(p.q)
    BY <1>11, <1>12, <2>1 DEF ReadRight
  <2>2. CASE c \notin ToSet(p.q)
    <3>1. c \notin ToSet(toReceive) /\ c \notin Completed
      BY <1>19, <1>20, <1>26, <2>2
    <3>2. reply'[c] = ReadSoFar(c, toReceive, half)
      BY <1>1, <1>4, <1>21, <1>26, <3>1 DEF OnRecord, LinesRead
    <3>3. half => c # Head(toReceive)
      BY <1>1, <1>7, <3>1, ElementsOfTail
    <3>4. half' => c # Head(p.q)
      BY <1>15, <1>18, <2>2, ElementsOfTail
    <3> QED  BY <1>12, <3>2, <3>3, <3>4 DEF ReadSoFar
  <2> QED  BY <2>1, <2>2
<1>27. LinesRead'
  BY <1>24, <1>25, <1>26 DEF LinesRead
<1> QED  BY <1>14, <1>17, <1>23, <1>27 DEF OnWire, OnRecord

LEMMA OnReplyOwn ==
    ASSUME OwnState, NEW d \in Dispatcher, OnReply(d)
    PROVE  OnWire' /\ OnRecord'
<1>1. /\ TypeOK /\ OnWire /\ OnRecord /\ work \in [Dispatcher -> Seq(Cmd)]
      /\ dpc \in [Dispatcher -> DispatcherPc] /\ reported \in [Cmd -> Nat]
  BY DEF OwnState, TypeOK, DispatcherTypes, CommandTypes
<1>2. dpc[d] = "reply" /\ UNCHANGED <<sockVars, wireVars, queueVars, buf, reply>>
  BY DEF OnReply
<1>3. UNCHANGED <<state, so, link, toReceive, half, buf, up, down, reply>>
  BY <1>2 DEF sockVars, wireVars, queueVars
<1>4. CASE work[d] = <<>>
  <2>1. DGoto(d, "idle") /\ UNCHANGED <<work, replied, reported>>
    BY <1>4 DEF OnReply
  <2>2. dpc'[d] = "idle" /\ \A e \in Dispatcher \ {d} : dpc'[e] = dpc[e]
    BY <1>1, <2>1 DEF DGoto
  <2>3. Unconnected'
    BY <1>1, <2>2 DEF OnWire, BeginsClean, Unconnected
  <2>4. \A c : c \in Completed' <=> c \in Completed
    <3>1. \A c : c \in Completed' <=> \E e \in Dispatcher : dpc'[e] = "reply" /\ c \in ToSet(work'[e])
      BY DEF Completed
    <3> QED  BY <1>4, <2>1, <2>2, <3>1, CompletedIs, ElementsOfEmpty
  <2>5. Completed' = Completed
    BY <2>4
  <2>6. OnRecord'
    BY <1>1, <1>3, <2>1, <2>5, RecordKept
  <2> QED  BY <1>1, <1>3, <2>3, <2>6, WireKept
<1>5. CASE work[d] # <<>>
  <2>1. PICK c : c = Head(work[d])
    OBVIOUS
  <2>2. /\ work' = [work EXCEPT ![d] = Tail(@)] /\ replied' = replied \cup {c}
        /\ reported' = [reported EXCEPT ![c] = @ + 1] /\ dpc' = dpc
    BY <1>5, <2>1 DEF OnReply
  <2>3. c \in Cmd /\ c \in ToSet(work[d]) /\ ToSet(Tail(work[d])) \subseteq ToSet(work[d])
        /\ ToSet(work[d]) \subseteq ToSet(Tail(work[d])) \cup {c}
    <3>1. work[d] \in Seq(Cmd)
      BY <1>1
    <3>2. c \in Cmd /\ c \in ToSet(work[d]) /\ ToSet(Tail(work[d])) \subseteq ToSet(work[d])
      BY <1>5, <2>1, <3>1, ElementsOfTail
    <3>3. ToSet(work[d]) \subseteq ToSet(Tail(work[d])) \cup {c}
      <4>1. IsInjective(work[d])
        BY DEF OwnState, OnceInv, OnePlace
      <4> QED  BY <1>5, <2>1, <3>1, <4>1, OnceTail
    <3> QED  BY <3>2, <3>3
  <2>4. c \in Completed
    BY <1>2, <2>3, CompletedIs
  <2>5. \A e : e \in Completed' <=> \E f \in Dispatcher : dpc[f] = "reply" /\ e \in ToSet(work'[f])
    BY <2>2 DEF Completed
  <2>6. work'[d] = Tail(work[d]) /\ \A f \in Dispatcher \ {d} : work'[f] = work[f]
    BY <1>1, <2>2
  <2>7. \A e : e \in Completed' => e \in Completed
    BY <2>3, <2>5, <2>6, CompletedIs
  <2>8. \A e : e \in Completed => e \in Completed' \/ e = c
    BY <2>3, <2>5, <2>6, CompletedIs
  <2>9. reported'[c] > 0 /\ \A e \in Cmd \ {c} : reported'[e] = reported[e]
    BY <1>1, <2>2, <2>3
  <2>10. \A e \in Completed : reply[e] = LinesOf(e)
    BY <1>1 DEF OnRecord, LinesRead
  <2>11. ReplyIsOwn'
    BY <1>1, <1>3, <2>2, <2>4, <2>10 DEF OnRecord, ReplyIsOwn
  <2>12. \A e \in replied' : reported'[e] > 0
    <3>1. \A e \in replied : e \in Cmd /\ reported[e] > 0
      BY <1>1 DEF OnRecord, LinesRead, TypeOK, CommandTypes
    <3> QED  BY <2>2, <2>9, <3>1
  <2>13. \A e \in Completed' : reply'[e] = LinesOf(e)
    BY <1>3, <2>7, <2>10
  <2>14. ASSUME NEW e \in Cmd \ Completed', reported'[e] = 0
         PROVE  reply'[e] = ReadSoFar(e, toReceive', half')
    <3>1. e # c
      BY <2>9, <2>14
    <3>2. e \notin Completed /\ reported[e] = 0
      BY <2>8, <2>9, <2>14, <3>1
    <3>3. reply[e] = ReadSoFar(e, toReceive, half)
      BY <1>1, <3>2 DEF OnRecord, LinesRead
    <3> QED  BY <1>3, <3>3
  <2>15. OnWire'
    <3>1. Unconnected'
      BY <1>1, <2>2 DEF OnWire, BeginsClean, Unconnected
    <3> QED  BY <1>1, <1>3, <3>1, WireKept
  <2> QED  BY <2>11, <2>12, <2>13, <2>14, <2>15 DEF OnRecord, LinesRead
<1> QED  BY <1>4, <1>5

LEMMA DispatcherOwn ==
    ASSUME Lucky, OwnState, NEW d \in Dispatcher, Dispatch(d) \/ DispatcherRuns(d)
    PROVE  OnWire' /\ OnRecord'
<1>1. /\ TypeOK /\ OnceInv /\ OnePlace /\ OnWire /\ OnRecord /\ work \in [Dispatcher -> Seq(Cmd)]
      /\ dpc \in [Dispatcher -> DispatcherPc]
  BY DEF OwnState, OnceInv, TypeOK, DispatcherTypes
\* Most steps move on only the dispatcher's own program counter.
<1>2. ASSUME dpc[d] # "reply", NEW label, label # "reply", DGoto(d, label), work' = work
      PROVE  Completed' = Completed /\ (label # "connected" => Unconnected')
  <2>1. dpc'[d] = label /\ \A e \in Dispatcher \ {d} : dpc'[e] = dpc[e]
    BY <1>1, <1>2 DEF DGoto
  <2>2. Completed' = Completed
    BY <1>1, <1>2, <2>1, CompletedKept
  <2>3. label # "connected" => Unconnected'
    BY <1>1, <2>1 DEF OnWire, BeginsClean, Unconnected
  <2> QED  BY <2>2, <2>3
<1>3. ASSUME UNCHANGED <<toReceive, half, reported, reply, replied>>, Completed' = Completed
      PROVE  OnRecord'
  BY <1>1, <1>3, RecordKept
<1>4. CASE Dispatch(d)
  <2>1. /\ dpc[d] = "idle"
        /\ UNCHANGED <<so, link, up, down, toReceive, half, reply, replied, reported, work>>
    BY <1>4 DEF Dispatch, wireVars, queueVars, errVars
  <2>2. CASE state = "connecting" /\ LooksGood(d) /\ SetConnected(d)
    <3>0. state = "connecting" /\ link \in {"up", "eof", "failed"} /\ SetConnected(d)
      BY <2>2 DEF LooksGood
    <3>1. OnWire'
      BY <1>1, <2>1, <3>0, SetConnectedOwn
    <3>2. Completed' = Completed
      BY <1>2, <2>1, <2>2 DEF SetConnected
    <3> QED  BY <1>3, <2>1, <3>1, <3>2
  <2>3. CASE (DGoto(d, "error") \/ DGoto(d, "read")) /\ UNCHANGED <<state, buf>>
    <3>1. Completed' = Completed /\ Unconnected'
      BY <1>2, <2>1, <2>3
    <3> QED  BY <1>1, <1>3, <2>1, <2>3, <3>1, WireKept
  <2> QED  BY <1>4, <2>2, <2>3 DEF Dispatch, Lucky
<1>5. ~Connected(d)
  BY <1>1 DEF Connected, OnWire, BeginsClean
<1>6. CASE Flush(d)
  <2>1. /\ dpc[d] = "flush" /\ DGoto(d, "flushing") /\ work' = [work EXCEPT ![d] = toSend]
        /\ UNCHANGED <<state, so, link, up, down, toReceive, half, buf, reply, replied, reported>>
    BY <1>6 DEF Flush, sockVars, wireVars, errVars
  <2>2. dpc'[d] = "flushing" /\ \A e \in Dispatcher \ {d} : dpc'[e] = dpc[e] /\ work'[e] = work[e]
    BY <1>1, <2>1 DEF DGoto
  <2>3. Completed' = Completed
    BY <1>1, <2>1, <2>2, CompletedKept
  <2>4. Unconnected'
    BY <1>1, <2>2 DEF OnWire, BeginsClean, Unconnected
  <2> QED  BY <1>1, <1>3, <2>1, <2>3, <2>4, WireKept
<1>7. CASE FlushNext(d)
  <2> DEFINE c == Head(work[d])
  <2>1. /\ dpc[d] = "flushing" /\ work[d] # <<>> /\ UNCHANGED <<buf, reply, replied, dpc>>
        /\ work' = work \/ work' = [work EXCEPT ![d] = Tail(@)]
    BY <1>7 DEF FlushNext
  <2>2. c \in Cmd /\ c \notin ToSet(toSend) \cup ToSet(toReceive)
    BY <1>1, <2>1, OnceTail DEF OnePlace
  <2>3. Completed' = Completed
    <3>1. \A e \in Dispatcher \ {d} : dpc'[e] = dpc[e] /\ work'[e] = work[e]
      BY <1>1, <2>1
    <3> QED  BY <1>1, <2>1, <3>1, CompletedKept
  <2>4. CASE /\ SendSucceeds(c) \/ SendFails(c) \/ SendsPart(c)
             /\ ~MustPend
    <3>1. ~(state = "connecting" /\ link = "up")
      BY <2>4 DEF MustPend
    <3> HIDE DEF c
    <3> QED  BY <1>1, <2>1, <2>2, <2>3, <2>4, <3>1, SendingOwn
  <2>5. CASE /\ UNCHANGED <<toReceive, half>>
             /\ \/ UNCHANGED <<sockVars, wireVars>>
                \/ so = 0 /\ (ConnectInProgress \/ ConnectUnreachable)
             /\ Pend(c, toSend) \/ (Fail(<<c>>) /\ UNCHANGED toSend) \/ UNCHANGED <<toSend, errVars>>
    <3> HIDE DEF c
    <3> QED  BY <1>1, <2>1, <2>2, <2>3, <2>5, PendingOwn
  <2>6. ExpiredUnsent(c) => /\ UNCHANGED <<toReceive, half, toSend, sockVars, wireVars>>
                            /\ Fail(<<c>>)
    BY DEF ExpiredUnsent, queueVars
  <2> QED  BY <1>7, <2>4, <2>5, <2>6 DEF FlushNext
<1>8. CASE Flushed(d)
  <2>1. /\ dpc[d] = "flushing" /\ DGoto(d, "idle") /\ work' = work
        /\ UNCHANGED <<state, so, link, up, down, toReceive, half, buf, reply, replied, reported>>
    BY <1>8 DEF Flushed, sockVars, wireVars, queueVars, errVars
  <2>2. Completed' = Completed /\ Unconnected'
    BY <1>2, <2>1
  <2> QED  BY <1>1, <1>3, <2>1, <2>2, WireKept
\* A closing by a dispatcher.
<1>9. ASSUME dpc[d] # "reply", Disconnect(<<>>), DGoto(d, "idle"), UNCHANGED <<reply, replied, work>>
      PROVE  OnWire' /\ OnRecord'
  <2>1. Completed' = Completed /\ Unconnected'
    BY <1>2, <1>9
  <2>2. <<>> \in Seq(Cmd) /\ IsInjective(<<>>) /\ ToSet(<<>>) = {}
    BY NothingOnce, ElementsOfEmpty
  <2>3. OnRecord'
    BY <1>1, <1>9, <2>1, <2>2, ClosedRecord
  <2> QED  BY <1>9, <2>1, <2>3, ClosedOwn
<1>10. CASE OnError(d)
  BY <1>9, <1>10 DEF OnError
<1>11. CASE OnDataArrived(d)
  <2>1. dpc[d] = "read" /\ replied' = replied
    BY <1>11 DEF OnDataArrived
  <2>2. CASE DataArrives(d)
    BY <2>1, <2>2, DataOwn
  <2>3. CASE NoData(d)
    <3>1. /\ DGoto(d, "idle") /\ work' = work
          /\ UNCHANGED <<state, so, link, up, down, toReceive, half, buf, reply, reported>>
      BY <2>3 DEF NoData, sockVars, wireVars, queueVars, errVars
    <3>2. Completed' = Completed /\ Unconnected'
      BY <1>2, <2>1, <3>1
    <3> QED  BY <1>1, <1>3, <2>1, <3>1, <3>2, WireKept
  <2>4. CASE ReadFails(d)
    BY <1>9, <2>1, <2>4 DEF ReadFails
  <2> QED  BY <1>11, <2>2, <2>3, <2>4 DEF OnDataArrived
<1>12. CASE OnReply(d)
  BY <1>12, OnReplyOwn
<1> QED  BY <1>4, <1>5, <1>6, <1>7, <1>8, <1>10, <1>11, <1>12 DEF DispatcherRuns

\* OnReply() comes with the lines that the server answered its own command with,
\* and all of them: over replies cut anywhere but between a '\r' and its '\n',
\* lost and refused connections, failed sends, disconnect() by any thread and
\* events that come late to another connection, as long as no command is sent in
\* part and no event comes between the look at _state and OnConnected()'s reset
\* of the buffer.  The commands that wait, the buffer and the two directions of
\* the connection are in step: the first commands are those whose answers are
\* being read or on their way, in their order, the others those that the server
\* has yet to answer.
THEOREM RepliesAreOwn ==
    ASSUME Lucky PROVE Spec => []ReplyIsOwn
<1>1. ASSUME Init PROVE OwnInv
  <2>1. /\ state = "initial" /\ so = 0 /\ link = "none" /\ up = <<>> /\ down = <<>>
        /\ toReceive = <<>> /\ half = FALSE /\ replied = {}
        /\ \A c \in Cmd : reply[c] = <<>>
        /\ \A d \in Dispatcher : dpc[d] = "idle"
    BY <1>1 DEF Init
  <2>2. Completed = {}
    BY <2>1 DEF Completed
  <2>3. OnWire
    BY <2>1 DEF OnWire, InStep, BeginsClean
  <2>4. OnRecord
    BY <2>1, <2>2 DEF OnRecord, LinesRead, ReplyIsOwn, ReadSoFar
  <2> QED  BY <2>3, <2>4 DEF OwnInv
<1>2. ASSUME TypeOK, OnceInv, OwnInv, [Next]_vars PROVE OwnInv'
  <2>1. OwnState
    BY <1>2 DEF OwnState, OwnInv
  <2>2. CASE UNCHANGED vars
    <3>1. UNCHANGED <<state, so, link, toReceive, half, buf, up, down, reply, replied, reported, dpc, work>>
      BY <2>2 DEF vars, sockVars, wireVars, queueVars, errVars, dispVars
    <3>2. Unconnected' /\ Completed' = Completed
      BY <1>2, <3>1 DEF OwnInv, OnWire, BeginsClean, Unconnected, Completed
    <3> QED  BY <1>2, <3>1, <3>2, WireKept, RecordKept DEF OwnInv
  <2> QED  BY <1>2, <2>1, <2>2, CallerOwn, OutsideOwn, DispatcherOwn DEF OwnInv, Next
<1>3. OwnInv => ReplyIsOwn
  BY DEF OwnInv, OnRecord
<1> QED  BY <1>1, <1>2, <1>3, TypeCorrect, OneEnd, PTL DEF Spec
=============================================================================
