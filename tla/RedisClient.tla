------------------------------ MODULE RedisClient ------------------------------
(***************************************************************************)
(* RedisClient.cpp over TCPSocket.cpp: many threads send commands over one *)
(* connection that opens itself on demand; replies are matched to commands *)
(* by their order alone.  A command waits in _commandQueueToSend while the *)
(* connection is being made, then in _commandQueueToReceive for its reply. *)
(* The watchdog's dispatchers run OnConnected(), OnDataArrived() and       *)
(* OnError() in threads of a pool.  Commands are sync GETs of keys that    *)
(* have a value, and DELs.  How old a command is when its age is looked at *)
(* is left open.  Constants with a bound: MaxPending and MaxSendErrors (of *)
(* RedisClient.h: 1000 and 10); past MaxConn no socket can be created.     *)
(***************************************************************************)
EXTENDS Integers, Sequences, SequencesExt, FiniteSets

CONSTANTS
    Cmd, NoCmd,
    Dels,           \* the commands that are DELs; the others are GETs
    Dispatcher, NoDispatcher,
    MaxPending,     \* MAX_PENDING_REQUESTS
    MaxSendErrors,  \* MAX_SEND_ERROR_COUNT
    MaxConn,        \* bound: sockets opened
    Faults          \* what may go wrong, a subset of FaultNames

FaultNames == {"refuse", "unreachable", "drop", "send", "partial", "expire",
               "disconnect", "crlf", "overtaken", "errno"}

ASSUME CmdAssumption == NoCmd \notin Cmd /\ Dels \subseteq Cmd
ASSUME DispatcherAssumption == NoDispatcher \notin Dispatcher
ASSUME BoundAssumption == /\ MaxPending \in Nat \ {0} /\ MaxSendErrors \in Nat
                          /\ MaxConn \in Nat
ASSUME FaultsAssumption == Faults \subseteq FaultNames

VARIABLES
    (* the socket *)
    state,       \* _state: "initial", "connecting", "connected"
    so,          \* _so: 0 for INVALID_SOCKET, else the number of the connection
    opened,      \* the sockets created so far
    link,        \* what the kernel knows of it: "none", "syn", "up", "failed", "eof"
    watched,     \* it is in the watchdog's _socketMap
    up, down,    \* commands and replies on their way
    (* the client *)
    toSend, toReceive,
    sendErrors,  \* _sendErrorCount
    buf,         \* the first _inCommingByteSeen bytes of _inCommingBuffer
    half,        \* the head of toReceive waits for its bulk (nBulksLeft = 1)
    lock,        \* the dispatcher that keeps _lockCommandQueue over several steps
    (* the commands *)
    pc,          \* where the caller is; at the end, what the sync call returned
    reply,       \* _replyCtx.data: the lines taken for the reply
    replied,     \* _stampReceived > 0
    errs,        \* those whose RedisErrCmd waits in the thread pool
    failed,      \* those whose OnRequestError() was called
    reported,    \* how often each got a RedisErrCmd or an OnReply() (history)
    (* the dispatchers *)
    dpc,
    work         \* commands a dispatcher has taken: to flush, or to call OnReply() on

sockVars == <<state, so, opened, link, watched>>
wireVars == <<up, down>>
queueVars == <<toSend, toReceive, half>>
errVars == <<errs, reported>>
dispVars == <<dpc, work>>
vars == <<sockVars, wireVars, queueVars, sendErrors, buf, lock, pc, reply, replied,
          errVars, failed, dispVars>>

CmdPc == {"idle", "line", "wait", "rdeOK", "rdeNil", "rdeRequestTimeout", "rdeClientError"}
DispatcherPc == {"idle", "connected", "flush", "flushing", "read", "reply", "error"}

Init ==
    /\ state = "initial" /\ so = 0 /\ opened = 0 /\ link = "none" /\ watched = FALSE
    /\ up = <<>> /\ down = <<>>
    /\ toSend = <<>> /\ toReceive = <<>> /\ half = FALSE
    /\ sendErrors = 0 /\ buf = <<>> /\ lock = NoDispatcher
    /\ pc = [c \in Cmd |-> "idle"]
    /\ reply = [c \in Cmd |-> <<>>] /\ replied = {}
    /\ errs = {} /\ failed = {} /\ reported = [c \in Cmd |-> 0]
    /\ dpc = [d \in Dispatcher |-> "idle"]
    /\ work = [d \in Dispatcher |-> <<>>]

Goto(c, label) == pc' = [pc EXCEPT ![c] = label]
DGoto(d, label) == dpc' = [dpc EXCEPT ![d] = label]

\* One RedisErrCmd per element of the sequence is started.
Fail(cmds) ==
    /\ errs' = errs \cup ToSet(cmds)
    /\ reported' = [c \in Cmd |->
                      reported[c] + Cardinality({i \in DOMAIN cmds : cmds[i] = c})]

-----------------------------------------------------------------------------
(* The parts of sendCommand(), all under _lockCommandQueue *)

\* The command is queued behind q; expired commands leave from the front, and
\* any commands as long as the queue is not shorter than MaxPending.
Pend(c, q) ==
    LET long == Append(q, c) IN
    \E n \in 0 .. Len(long) :
        /\ Len(long) - n < MaxPending
        /\ "expire" \notin Faults => n = 0 \/ Len(long) - n = MaxPending - 1
        /\ toSend' = SubSeq(long, n + 1, Len(long))
        /\ Fail(SubSeq(long, 1, n))

\* TCPClient::connect(), if a socket can be created.
ConnectInProgress ==
    /\ opened < MaxConn
    /\ opened' = opened + 1 /\ so' = opened + 1
    /\ state' = "connecting" /\ link' = "syn" /\ watched' = TRUE
    /\ up' = <<>> /\ down' = <<>>

\* An error other than EINPROGRESS: the socket counts as connected, unwatched.
ConnectUnreachable ==
    /\ "unreachable" \in Faults /\ opened < MaxConn
    /\ opened' = opened + 1 /\ so' = opened + 1
    /\ state' = "connected" /\ link' = "failed"
    /\ UNCHANGED watched
    /\ up' = <<>> /\ down' = <<>>

\* Mutant of Disconnect: the commands that wait for a connection are kept.
DisconnectKeeps(extra) ==
    /\ Fail(toReceive \o extra)
    /\ toReceive' = <<>> /\ half' = FALSE
    /\ state' = "initial" /\ so' = 0 /\ link' = "none" /\ watched' = FALSE
    /\ up' = <<>> /\ down' = <<>>
    /\ UNCHANGED <<opened, toSend>>

\* Mutant of Disconnect: those that wait for a reply are forgotten.
DisconnectForgets(extra) ==
    /\ Fail(toSend \o extra)
    /\ toSend' = <<>> /\ toReceive' = <<>> /\ half' = FALSE
    /\ state' = "initial" /\ so' = 0 /\ link' = "none" /\ watched' = FALSE
    /\ up' = <<>> /\ down' = <<>>
    /\ UNCHANGED opened

\* disconnect(), and OnError(), which is the same: everything is cancelled,
\* with the commands of extra reported as well.  buf is not reset.
Disconnect(extra) ==
    /\ Fail(toSend \o toReceive \o extra)
    /\ toSend' = <<>> /\ toReceive' = <<>> /\ half' = FALSE
    /\ state' = "initial" /\ so' = 0 /\ link' = "none" /\ watched' = FALSE
    /\ up' = <<>> /\ down' = <<>>
    /\ UNCHANGED opened

\* _sendLine() succeeds, and the command waits for its reply.
SendSucceeds(c) ==
    /\ link \in {"up", "eof"}
    /\ up' = IF link = "up" THEN Append(up, c) ELSE up
    /\ toReceive' = Append(toReceive, c)
    /\ UNCHANGED <<sockVars, down, toSend, half, sendErrors, errVars>>

\* It fails (retries included); one failure too many drops the connection.
SendFails(c) ==
    /\ link \in {"up", "eof"} => "send" \in Faults
    /\ sendErrors' = sendErrors + 1
    /\ IF sendErrors + 1 > MaxSendErrors
       THEN Disconnect(<<c>>)
       ELSE Fail(<<c>>) /\ UNCHANGED <<sockVars, wireVars, queueVars>>

\* It sends a part: the command is given up, but the server gets to see it.
SendsPart(c) ==
    /\ "partial" \in Faults /\ link = "up"
    /\ up' = Append(up, c)
    /\ Fail(<<c>>)
    /\ UNCHANGED <<sockVars, down, queueVars, sendErrors>>

\* Over _messageTimeout before it was sent.
ExpiredUnsent(c) ==
    /\ "expire" \in Faults
    /\ Fail(<<c>>)
    /\ UNCHANGED <<sockVars, wireVars, queueVars, sendErrors>>

MustPend == toSend # <<>> \/ state = "connecting"

-----------------------------------------------------------------------------
(* The callers *)

\* The first critical section of sendCommand().
SendCommand(c) ==
    /\ pc[c] = "idle" /\ lock = NoDispatcher
    /\ \/ /\ MustPend
          /\ Pend(c, toSend)
          /\ Goto(c, "wait")
          /\ UNCHANGED <<sockVars, wireVars>>
       \/ /\ ~MustPend /\ so # 0
          /\ Goto(c, "line")
          /\ UNCHANGED <<sockVars, wireVars, toSend, errVars>>
       \/ /\ ~MustPend /\ so = 0
          /\ ConnectInProgress
          /\ Pend(c, toSend)
          /\ Goto(c, "wait")
       \/ /\ ~MustPend /\ so = 0
          /\ ConnectUnreachable
          /\ Goto(c, "line")
          /\ UNCHANGED <<toSend, errVars>>
       \/ /\ ~MustPend /\ so = 0 /\ opened = MaxConn
          /\ Fail(<<c>>)
          /\ Goto(c, "rdeClientError")
          /\ UNCHANGED <<sockVars, wireVars, toSend>>
    /\ UNCHANGED <<toReceive, half, sendErrors, buf, lock, reply, replied, failed, dispVars>>

\* The second one; meanwhile the connection may have gone, or be another: even
\* one on which OnConnected() is yet to come, with the fault "overtaken".
SendLine(c) ==
    /\ pc[c] = "line" /\ lock = NoDispatcher
    /\ "overtaken" \in Faults \/ ~(state = "connecting" /\ link = "up")
    /\ \/ SendSucceeds(c) /\ Goto(c, "wait")
       \/ (SendFails(c) \/ SendsPart(c) \/ ExpiredUnsent(c)) /\ Goto(c, "rdeClientError")
    /\ UNCHANGED <<buf, lock, reply, replied, failed, dispVars>>

\* RedisErrCmd in the thread pool: OnRequestError() signals the event.
RunErr(c) ==
    /\ c \in errs
    /\ errs' = errs \ {c} /\ failed' = failed \cup {c}
    /\ UNCHANGED <<sockVars, wireVars, queueVars, sendErrors, buf, lock, pc, reply,
                   replied, reported, dispVars>>

\* SYNC_WAIT_ASSERT_RET() and what GET() makes of the data: without a bulk it
\* is rdeNil.  Whoever signalled the event.
Signalled(c) == c \in replied \cup failed

Wait(c) ==
    /\ pc[c] = "wait"
    /\ Goto(c, IF ~Signalled(c) THEN "rdeRequestTimeout"
               ELSE IF c \in Dels \/ Len(reply[c]) > 1 THEN "rdeOK" ELSE "rdeNil")
    /\ UNCHANGED <<sockVars, wireVars, queueVars, sendErrors, buf, lock, reply,
                   replied, errVars, failed, dispVars>>

DisconnectCalled ==
    /\ "disconnect" \in Faults /\ so # 0 /\ lock = NoDispatcher
    /\ Disconnect(<<>>)
    /\ UNCHANGED <<sendErrors, buf, lock, pc, reply, replied, failed, dispVars>>

-----------------------------------------------------------------------------
(* What the server and the kernel do *)

CR == [of |-> NoCmd, is |-> "cr"]
LF == [of |-> NoCmd, is |-> "lf"]
Text(c, kind) == [of |-> c, is |-> kind]

\* ":1" for a DEL; "$n" and the value for a GET.
Answer(c) == IF c \in Dels THEN <<Text(c, "int"), CR, LF>>
             ELSE <<Text(c, "head"), CR, LF, Text(c, "body"), CR, LF>>
LinesOf(c) == IF c \in Dels THEN <<Text(c, "int")>> ELSE <<Text(c, "head"), Text(c, "body")>>

ServerAnswers ==
    /\ link = "up" /\ up # <<>>
    /\ up' = Tail(up) /\ down' = down \o Answer(Head(up))
    /\ UNCHANGED <<sockVars, queueVars, sendErrors, buf, lock, pc, reply, replied,
                   errVars, failed, dispVars>>

\* The connection is made, refused, or closed by the server.
Network ==
    /\ \/ link = "syn" /\ link' = "up" /\ UNCHANGED up
       \/ "refuse" \in Faults /\ link = "syn" /\ link' = "failed" /\ UNCHANGED up
       \/ "drop" \in Faults /\ link = "up" /\ link' = "eof" /\ up' = <<>>
    /\ UNCHANGED <<state, so, opened, watched, down, queueVars, sendErrors, buf, lock,
                   pc, reply, replied, errVars, failed, dispVars>>

-----------------------------------------------------------------------------
(* SocketEventDispatcher: what a dispatcher has found is done later, maybe *)
(* to another connection.                                                   *)


\* Mutant of SetConnected: what was left of the last connection stays.
SetConnectedStale(d) ==
    /\ state' = "connected"
    /\ DGoto(d, "flush")
    /\ UNCHANGED buf

\* The state and OnConnected()'s reset of _inCommingByteSeen, both unlocked.
SetConnected(d) ==
    /\ state' = "connected"
    /\ buf' = <<>>
    /\ DGoto(d, "flush")

\* checkSoErr() finds no error, or finds none any more: reading SO_ERROR clears
\* it, so a second dispatcher takes a refused connection for a good one, until
\* the first has come to its OnError(). (Of which connection that one read the
\* error is not told apart.)
LooksGood(d) ==
    \/ link \in {"up", "eof"}
    \/ link = "failed" /\ \E o \in Dispatcher \ {d} : dpc[o] = "error"

\* Without the fault "overtaken", nothing comes between the look at _state
\* and the reset.
Dispatch(d) ==
    /\ dpc[d] = "idle" /\ watched
    /\ \/ /\ state = "connecting" /\ LooksGood(d)
          /\ IF "overtaken" \in Faults
             THEN DGoto(d, "connected") /\ UNCHANGED <<state, buf>>
             ELSE SetConnected(d)
       \/ /\ state = "connecting" /\ link = "failed"
          /\ DGoto(d, "error") /\ UNCHANGED <<state, buf>>
       \/ /\ down # <<>> \/ link \in {"eof", "failed"}
          /\ DGoto(d, "read") /\ UNCHANGED <<state, buf>>
    /\ UNCHANGED <<so, opened, link, watched, wireVars, queueVars, sendErrors, lock, pc,
                   reply, replied, errVars, failed, work>>

Connected(d) ==
    /\ dpc[d] = "connected"
    /\ SetConnected(d)
    /\ UNCHANGED <<so, opened, link, watched, wireVars, queueVars, sendErrors, lock, pc,
                   reply, replied, errVars, failed, work>>

\* Mutant of Flush: the queue is copied and not cleared.
FlushCopy(d) ==
    /\ dpc[d] = "flush" /\ lock = NoDispatcher
    /\ work' = [work EXCEPT ![d] = toSend]
    /\ lock' = d /\ DGoto(d, "flushing")
    /\ UNCHANGED <<sockVars, wireVars, queueVars, sendErrors, buf, pc, reply,
                   replied, errVars, failed>>

\* OnConnected() takes all of the queue and holds the lock till the end.
Flush(d) ==
    /\ dpc[d] = "flush" /\ lock = NoDispatcher
    /\ work' = [work EXCEPT ![d] = toSend] /\ toSend' = <<>>
    /\ lock' = d /\ DGoto(d, "flushing")
    /\ UNCHANGED <<sockVars, wireVars, toReceive, half, sendErrors, buf, pc, reply,
                   replied, errVars, failed>>

\* sendCommand() for each of them, whose own lock is no obstacle.  (An attempt
\* that finds the server unreachable sends, and fails, in the next step.)
FlushNext(d) ==
    /\ dpc[d] = "flushing" /\ work[d] # <<>>
    /\ LET c == Head(work[d])
           next == work' = [work EXCEPT ![d] = Tail(@)]
       IN  \/ ExpiredUnsent(c) /\ next
           \/ /\ MustPend
              /\ Pend(c, toSend) /\ next
              /\ UNCHANGED <<sockVars, wireVars, toReceive, half, sendErrors>>
           \/ /\ ~MustPend /\ so = 0
              /\ \/ ConnectInProgress /\ Pend(c, toSend) /\ next
                 \/ ConnectUnreachable /\ UNCHANGED <<toSend, errVars, work>>
                 \/ /\ opened = MaxConn
                    /\ Fail(<<c>>) /\ next
                    /\ UNCHANGED <<sockVars, wireVars, toSend>>
              /\ UNCHANGED <<toReceive, half, sendErrors>>
           \/ /\ ~MustPend /\ so # 0
              /\ SendSucceeds(c) \/ SendFails(c) \/ SendsPart(c)
              /\ next
    /\ UNCHANGED <<buf, lock, pc, reply, replied, failed, dpc>>

\* Mutant of Flushed: the lock is left locked.
FlushedLocked(d) ==
    /\ dpc[d] = "flushing" /\ work[d] = <<>>
    /\ DGoto(d, "idle")
    /\ UNCHANGED <<sockVars, wireVars, queueVars, sendErrors, buf, lock, pc, reply, replied,
                   errVars, failed, work>>

Flushed(d) ==
    /\ dpc[d] = "flushing" /\ work[d] = <<>>
    /\ lock' = NoDispatcher /\ DGoto(d, "idle")
    /\ UNCHANGED <<sockVars, wireVars, queueVars, sendErrors, buf, pc, reply, replied,
                   errVars, failed, work>>

OnError(d) ==
    /\ dpc[d] = "error" /\ lock = NoDispatcher
    /\ Disconnect(<<>>)
    /\ DGoto(d, "idle")
    /\ UNCHANGED <<sendErrors, buf, lock, pc, reply, replied, failed, work>>

-----------------------------------------------------------------------------
(* OnDataArrived() *)

\* The loop over the buffer, a unit at a time: rest is what is not taken as a
\* line yet, q and half are the front of _commandQueueToReceive, done the
\* completedCmds; stop says that the loop has ended, over that pProcessed has
\* passed pEnd.
Complete(p) == [p EXCEPT !.q = Tail(@), !.done = Append(@, Head(p.q)), !.half = FALSE]

\* A line.  The first of a reply tells its type; one that the command does
\* not expect (a DEL expects "+OK"), or none at all, ends the loop.
Line(p, text) ==
    IF text = <<>> THEN p
    ELSE IF p.q = <<>> THEN [p EXCEPT !.stop = TRUE]
    ELSE LET c == Head(p.q)
             got == [p EXCEPT !.reply[c] = @ \o text]
         IN  IF p.half THEN Complete(got)
             ELSE IF text[1].is = "head" THEN [got EXCEPT !.half = TRUE, !.stop = c \in Dels]
             ELSE [Complete(got) EXCEPT !.stop = TRUE]

\* A line ends at its '\r'; the '\n' behind it is skipped.  A '\n' that ends a
\* line has no '\0' put in its place: the line extends over all that follows.
Take(p, u) ==
    IF p.over \/ (u = LF /\ p.rest = <<>>) THEN p
    ELSE IF p.stop \/ u \notin {CR, LF} THEN [p EXCEPT !.rest = Append(@, u)]
    ELSE IF u = CR
         THEN Line([p EXCEPT !.rest = <<>>], p.rest)
         ELSE [Line(p, p.rest) EXCEPT !.rest = <<>>, !.over = TRUE]

Parser == [rest |-> <<>>, q |-> toReceive, half |-> half, reply |-> reply,
           done |-> <<>>, stop |-> FALSE, over |-> FALSE]

Scan(b) ==
    LET after[n \in 0 .. Len(b)] == IF n = 0 THEN Parser ELSE Take(after[n - 1], b[n])
    IN  after[Len(b)]

\* pProcessed is past pEnd after a line whose '\n' is yet to come: then
\* _inCommingByteSeen stays what it was.
Unhandled(p, b) == IF p.over \/ (p.rest = <<>> /\ Last(b) = CR) THEN buf ELSE p.rest

\* What one recv() can bring.  Only with the fault "crlf" it ends between a
\* '\r' and its '\n'.
Chunk == {k \in 1 .. Len(down) : "crlf" \in Faults \/ down[k] # CR}

DataArrives(d) ==
    /\ \E k \in Chunk :
        LET b == buf \o SubSeq(down, 1, k)
            p == Scan(b)
        IN  /\ down' = SubSeq(down, k + 1, Len(down))
            /\ IF toReceive = <<>>
               THEN DGoto(d, "idle") /\ UNCHANGED <<buf, toReceive, half, reply, work>>
               ELSE /\ buf' = Unhandled(p, b)
                    /\ toReceive' = p.q /\ half' = p.half /\ reply' = p.reply
                    /\ work' = [work EXCEPT ![d] = p.done]
                    /\ DGoto(d, "reply")
    /\ sendErrors' = 0
    /\ UNCHANGED <<sockVars, up, toSend, errVars>>

\* Nothing to read yet; or, should errno say EAGAIN still, the end of the stream.
NoData(d) ==
    /\ so # 0 /\ down = <<>>
    /\ link \in {"syn", "up"} \/ ("errno" \in Faults /\ link = "eof")
    /\ DGoto(d, "idle")
    /\ UNCHANGED <<sockVars, wireVars, queueVars, sendErrors, buf, reply, errVars, work>>

ReadFails(d) ==
    /\ so = 0 \/ (down = <<>> /\ link \in {"eof", "failed"})
    /\ Disconnect(<<>>)
    /\ DGoto(d, "idle")
    /\ UNCHANGED <<sendErrors, buf, reply, work>>

OnDataArrived(d) ==
    /\ dpc[d] = "read" /\ lock = NoDispatcher
    /\ DataArrives(d) \/ NoData(d) \/ ReadFails(d)
    /\ UNCHANGED <<lock, pc, replied, failed>>

\* Unlocked again, OnReply() is called for the completed commands in turn.
OnReply(d) ==
    /\ dpc[d] = "reply"
    /\ IF work[d] = <<>>
       THEN DGoto(d, "idle") /\ UNCHANGED <<work, replied, reported>>
       ELSE LET c == Head(work[d]) IN
            /\ work' = [work EXCEPT ![d] = Tail(@)]
            /\ replied' = replied \cup {c}
            /\ reported' = [reported EXCEPT ![c] = @ + 1]
            /\ UNCHANGED dpc
    /\ UNCHANGED <<sockVars, wireVars, queueVars, sendErrors, buf, lock, pc, reply, errs,
                   failed>>

-----------------------------------------------------------------------------
Caller(c) == SendCommand(c) \/ SendLine(c) \/ RunErr(c) \/ Wait(c)

DispatcherRuns(d) ==
    \/ Connected(d) \/ Flush(d) \/ FlushNext(d) \/ Flushed(d)
    \/ OnError(d) \/ OnDataArrived(d) \/ OnReply(d)

Next ==
    \/ \E c \in Cmd : Caller(c)
    \/ DisconnectCalled
    \/ ServerAnswers \/ Network
    \/ \E d \in Dispatcher : Dispatch(d) \/ DispatcherRuns(d)

Spec == Init /\ [][Next]_vars

\* As long as a thread that sends, reports or dispatches can run, a connection
\* attempt can end or the server can answer, one of them does.  (Each of them
\* has finitely many steps to do, so none is left out for ever.)
Progress ==
    \/ \E c \in Cmd : SendLine(c) \/ RunErr(c)
    \/ \E d \in Dispatcher : Dispatch(d) \/ DispatcherRuns(d)
    \/ ServerAnswers
    \/ link = "syn" /\ Network

Fairness == WF_vars(Progress)

FairSpec == Spec /\ Fairness

-----------------------------------------------------------------------------
Unit == [of : Cmd \cup {NoCmd}, is : {"cr", "lf", "int", "head", "body"}]

SocketTypes ==
    /\ state \in {"initial", "connecting", "connected"}
    /\ opened \in 0 .. MaxConn /\ so \in 0 .. opened
    /\ link \in {"none", "syn", "up", "failed", "eof"} /\ watched \in BOOLEAN
    /\ up \in Seq(Cmd) /\ down \in Seq(Unit)
    /\ so = 0 <=> link = "none"

QueueTypes ==
    /\ toSend \in Seq(Cmd) /\ toReceive \in Seq(Cmd) /\ half \in BOOLEAN
    /\ sendErrors \in Nat /\ buf \in Seq(Unit)

CommandTypes ==
    /\ pc \in [Cmd -> CmdPc] /\ reply \in [Cmd -> Seq(Unit)] /\ replied \subseteq Cmd
    /\ errs \subseteq Cmd /\ failed \subseteq Cmd /\ reported \in [Cmd -> Nat]

DispatcherTypes ==
    /\ dpc \in [Dispatcher -> DispatcherPc] /\ work \in [Dispatcher -> Seq(Cmd)]
    /\ lock \in Dispatcher \cup {NoDispatcher}
    /\ \A d \in Dispatcher : lock = d <=> dpc[d] = "flushing"

\* The type invariant; only a dispatcher that flushes the queue keeps the lock.
TypeOK == SocketTypes /\ QueueTypes /\ CommandTypes /\ DispatcherTypes

\* A command is told its end once, by OnReply() or by OnRequestError(),
\* wherever it was when it failed, expired, was cancelled or answered.
ReportedOnce == \A c \in Cmd : reported[c] <= 1

\* OnReply() comes with the lines the server answered that command with, over
\* replies cut anywhere, lost connections and events that come late.
ReplyIsOwn == \A c \in replied : reply[c] = LinesOf(c)

\* Commands wait to be sent only while a connection is on its way or they are
\* about to be sent: sendCommand() connects no more while there are any.
PendingMeansConnecting ==
    toSend # <<>> => so # 0 /\ (state = "connecting" \/ \E d \in Dispatcher : dpc[d] = "flush")

\* In the end every command has been told its end, unless its reply was read
\* behind that of a DEL: then it lies in the buffer until more data come.
EventuallyReported ==
    <>[](\A c \in Cmd : pc[c] # "idle" =>
            reported[c] > 0 \/ \E i \in DOMAIN buf : buf[i].of = c)
===============================================================================
