--------------------------------- MODULE LIPC ---------------------------------
(***************************************************************************)
(* eloop/LIPC.cpp and eloop/UnixSocket.cpp: JSON-RPC over a unix pipe.     *)
(* LIPCClient numbers the requests, keeps the awaited ones in _awaits and  *)
(* reports each with OnRequestDone(); threads outside of the event loop    *)
(* call sendRequest() while the loop polls, reads, writes and reconnects.  *)
(* LIPCService answers over the connection a request came in on.  That a  *)
(* request expires is the action Expire; a Call is one sendRequest() that  *)
(* expects an answer.  The constants with a bound are MaxCSeq (0x0fffffff  *)
(* in the code), SendBurst (1000) and MaxConn, the attempts to connect.    *)
(***************************************************************************)
EXTENDS Integers, Sequences, SequencesExt, FiniteSets

CONSTANTS
    Call, NoCall,
    MaxCSeq,      \* MAX_CSEQ
    SendBurst,    \* messages OnWakedUp() sends at a time
    MaxConn,      \* bound: connections the client opens
    Faults        \* what may fail, a subset of FaultNames

FaultNames == {"refuse", "crash", "quit", "split", "send", "disconnect"}

ASSUME CallAssumption == NoCall \notin Call
ASSUME BoundAssumption == /\ MaxCSeq \in Nat /\ MaxCSeq > 2
                          /\ SendBurst \in Nat \ {0} /\ MaxConn \in Nat
ASSUME FaultsAssumption == Faults \subseteq FaultNames

\* There are more numbers (2^28 in the code) than requests at a time.
ASSUME FewCallsAssumption == IsFiniteSet(Call) /\ Cardinality(Call) + 1 < MaxCSeq

VARIABLES
    (* LIPCClient *)
    named,       \* _peerPipeName is not empty
    wanted,      \* connect() was called and disconnect() was not (history)
    conn,        \* _conn: 0 for NULL, else the number of the connection
    opened,      \* the connections opened so far
    connected,   \* _stampConnected > 0, and the handle reads
    lastNum,     \* _lastCSeq
    wrapLock,    \* the holder of the mutex in lastCSeq()
    awaits,      \* the calls in _awaits; num gives their keys
    due,         \* those whose expiration has passed
    (* the calls *)
    pc, num,     \* where each call is, its _cSeq
    target,      \* the connection it found in _conn
    done,        \* how often poll(), a closing or an answer reported it
    failed,      \* sendRequest() itself reported CLIENT_ERROR
    answers,     \* what OnResponse() got (history)
    (* the client's UnixSocket *)
    out, wake, writes, part,
    stalled,     \* OnWrote() lost a message, and no write is left (history)
    (* the wire and the service, per connection *)
    up,          \* requests on their way
    down,        \* answers on their way, over the connection of the client
    sconn, sout, swake,
    serving,     \* requests the application has not answered: <<conn, call>>
    quit         \* _bQuit

loopVars == <<named, wanted, conn, opened, connected>>
callVars == <<pc, num, target, lastNum, wrapLock>>
sockVars == <<out, wake, writes, part, stalled>>
serverVars == <<sconn, sout, swake, serving, quit>>
vars == <<loopVars, callVars, awaits, due, done, failed, answers, sockVars,
          up, down, serverVars>>

Conn == 1 .. MaxConn
CallPc == {"idle", "wrap", "reset", "restart", "insert", "check", "send",
           "error", "erase", "returned"}

Init ==
    /\ named = FALSE /\ wanted = FALSE
    /\ conn = 0 /\ opened = 0 /\ connected = FALSE
    /\ lastNum = 1 /\ wrapLock = NoCall
    /\ awaits = {} /\ due = {}
    /\ pc = [c \in Call |-> "idle"] /\ num = [c \in Call |-> 0]
    /\ target = [c \in Call |-> 0]
    /\ done = [c \in Call |-> 0] /\ failed = [c \in Call |-> FALSE]
    /\ answers = {}
    /\ out = <<>> /\ wake = FALSE /\ writes = 0 /\ part = FALSE /\ stalled = FALSE
    /\ up = [i \in Conn |-> <<>>] /\ down = <<>>
    /\ sconn = [i \in Conn |-> "none"] /\ sout = [i \in Conn |-> <<>>]
    /\ swake = [i \in Conn |-> FALSE]
    /\ serving = {} /\ quit = FALSE

Goto(c, label) == pc' = [pc EXCEPT ![c] = label]

-----------------------------------------------------------------------------
(* lastCSeq() *)

TakeNumber(c, v) ==
    /\ num' = [num EXCEPT ![c] = v]
    /\ Goto(c, "insert")

\* The first, lock-free try.
Number(c) ==
    /\ pc[c] = "idle"
    /\ lastNum' = lastNum + 1
    /\ IF lastNum + 1 < MaxCSeq
       THEN TakeNumber(c, lastNum + 1)
       ELSE Goto(c, "wrap") /\ UNCHANGED num
    /\ UNCHANGED <<loopVars, target, wrapLock, awaits, due, done, failed,
                   answers, sockVars, up, down, serverVars>>

\* The second try, with the mutex: another thread may have set the counter.
NumberLocked(c) ==
    /\ pc[c] = "wrap" /\ wrapLock = NoCall
    /\ lastNum' = lastNum + 1
    /\ IF lastNum + 1 < MaxCSeq
       THEN TakeNumber(c, lastNum + 1) /\ UNCHANGED wrapLock
       ELSE Goto(c, "reset") /\ wrapLock' = c /\ UNCHANGED num
    /\ UNCHANGED <<loopVars, target, awaits, due, done, failed,
                   answers, sockVars, up, down, serverVars>>

ResetNumber(c) ==
    /\ pc[c] = "reset"
    /\ lastNum' = 1
    /\ Goto(c, "restart")
    /\ UNCHANGED <<loopVars, num, target, wrapLock, awaits, due, done, failed,
                   answers, sockVars, up, down, serverVars>>

NumberRestarted(c) ==
    /\ pc[c] = "restart"
    /\ lastNum' = lastNum + 1
    /\ TakeNumber(c, lastNum + 1)
    /\ wrapLock' = NoCall
    /\ UNCHANGED <<loopVars, target, awaits, due, done, failed,
                   answers, sockVars, up, down, serverVars>>

\* Requests that came and went have driven the counter on, round and round.
\* Bound of the model: 2^28 of them do not fit between a call's taking its
\* number and its last trace on the present connection.
Busy(c) ==
    \/ pc[c] \in CallPc \ {"idle", "wrap", "returned"}
    \/ c \in awaits \cup ToSet(out) \cup ToSet(down)
    \/ <<conn, c>> \in serving
    \/ \E i \in Conn : i = conn /\ c \in ToSet(up[i]) \cup ToSet(sout[i])

OthersCall ==
    /\ \A c \in Call : ~Busy(c)
    /\ \E c \in Call : pc[c] = "idle"
    /\ lastNum' \in 1 .. MaxCSeq - 1
    /\ UNCHANGED <<loopVars, pc, num, target, wrapLock, awaits, due, done, failed,
                   answers, sockVars, up, down, serverVars>>

-----------------------------------------------------------------------------
(* sendRequest() *)

\* Under _lkAwaits; map::insert() keeps an entry that is there already.
Insert(c) ==
    /\ pc[c] = "insert"
    /\ awaits' = IF \E d \in awaits : num[d] = num[c] THEN awaits ELSE awaits \cup {c}
    /\ Goto(c, "check")
    /\ UNCHANGED <<loopVars, num, target, lastNum, wrapLock, due, done, failed,
                   answers, sockVars, up, down, serverVars>>

\* Without a connection the call returns -1 and its entry stays.
CheckConn(c) ==
    /\ pc[c] = "check"
    /\ Goto(c, IF conn = 0 THEN "returned" ELSE "send")
    /\ target' = [target EXCEPT ![c] = conn]
    /\ UNCHANGED <<loopVars, num, lastNum, wrapLock, awaits, due, done, failed,
                   answers, sockVars, up, down, serverVars>>

\* AsyncSend() on the connection found before: queued if it reads, -1 if it
\* does not.  If the loop has deleted it meanwhile, the thread works on freed
\* memory: it gets -1 or believes that the message is queued.
AsyncSend(c) ==
    /\ pc[c] = "send"
    /\ \/ /\ target[c] = conn /\ connected
          /\ out' = Append(out, c) /\ wake' = TRUE
          /\ Goto(c, "returned")
       \/ /\ ~(target[c] = conn /\ connected)
          /\ Goto(c, "error")
          /\ UNCHANGED <<out, wake>>
       \/ /\ target[c] # conn
          /\ Goto(c, "returned")
          /\ UNCHANGED <<out, wake>>
    /\ target' = [target EXCEPT ![c] = 0]
    /\ UNCHANGED <<loopVars, num, lastNum, wrapLock, awaits, due, done, failed,
                   answers, writes, part, stalled, up, down, serverVars>>

\* OnRequestDone(CLIENT_ERROR) comes first, the erase under _lkAwaits after.
SendFailed(c) ==
    /\ pc[c] = "error"
    /\ failed' = [failed EXCEPT ![c] = TRUE]
    /\ Goto(c, "erase")
    /\ UNCHANGED <<loopVars, num, target, lastNum, wrapLock, awaits, due, done,
                   answers, sockVars, up, down, serverVars>>

EraseFailed(c) ==
    /\ pc[c] = "erase"
    /\ awaits' = {d \in awaits : num[d] # num[c]}
    /\ due' = due \cap awaits'
    /\ Goto(c, "returned")
    /\ UNCHANGED <<loopVars, num, target, lastNum, wrapLock, done, failed,
                   answers, sockVars, up, down, serverVars>>

-----------------------------------------------------------------------------
(* The client's side of the event loop *)

Report(calls) == done' = [c \in Call |-> IF c \in calls THEN done[c] + 1 ELSE done[c]]

\* Mutant of OnConnectionClosed: the requests are erased without a word.
OnConnectionClosedSilent ==
    /\ Report({})
    /\ awaits' = {} /\ due' = {}

\* OnConnectionClosed(): every awaited request is erased and reported.
OnConnectionClosed ==
    /\ Report(awaits)
    /\ awaits' = {} /\ due' = {}

\* Mutant of DropSocket: writes that are under way are still counted.
DropSocketWriting ==
    /\ out' = <<>> /\ wake' = FALSE /\ part' = FALSE /\ stalled' = FALSE
    /\ down' = <<>>
    /\ connected' = FALSE
    /\ UNCHANGED writes

\* _doDisconnect(): the connection goes with what its socket had queued.
DropSocket ==
    /\ out' = <<>> /\ wake' = FALSE /\ writes' = 0 /\ part' = FALSE /\ stalled' = FALSE
    /\ down' = <<>>
    /\ connected' = FALSE

\* disconnect(), which is also what onError() does: the name is lost.
Disconnect ==
    /\ named' = FALSE
    /\ DropSocket /\ conn' = 0
    /\ OnConnectionClosed
    /\ UNCHANGED <<opened, callVars, failed>>

\* The application calls connect() once.
Connect ==
    /\ ~wanted
    /\ named' = TRUE /\ wanted' = TRUE
    /\ UNCHANGED <<conn, opened, connected, callVars, awaits, due, done, failed,
                   answers, sockVars, up, down, serverVars>>

\* The application calls disconnect() in the loop.
DisconnectCalled ==
    /\ "disconnect" \in Faults /\ wanted
    /\ Disconnect /\ wanted' = FALSE
    /\ UNCHANGED <<answers, up, serverVars>>

Expire(c) ==
    /\ c \in awaits \ due
    /\ due' = due \cup {c}
    /\ UNCHANGED <<loopVars, callVars, awaits, done, failed, answers, sockVars,
                   up, down, serverVars>>

\* poll(), five times a second: reports what expired, then, without a
\* connection, closes the old attempt and starts a new one: at once if there
\* is no attempt (disconnect() clears _stampLastConnect), else once five
\* seconds have passed, which may be any time.
MayConnect == ~connected /\ named /\ opened < MaxConn

PollExpires ==
    /\ due # {} /\ ~(MayConnect /\ conn = 0)
    /\ Report(due)
    /\ awaits' = awaits \ due /\ due' = {}
    /\ UNCHANGED <<loopVars, callVars, failed, answers, sockVars, up, down, serverVars>>

PollReconnects ==
    /\ MayConnect
    /\ OnConnectionClosed
    /\ DropSocket
    /\ opened' = opened + 1 /\ conn' = opened + 1
    /\ UNCHANGED <<named, wanted, callVars, failed, answers, up, serverVars>>

Poll == PollExpires \/ PollReconnects

OnConnected ==
    /\ conn # 0 /\ ~connected /\ ~quit
    /\ connected' = TRUE
    /\ UNCHANGED <<named, wanted, conn, opened, callVars, awaits, due, done, failed,
                   answers, sockVars, up, down, serverVars>>

\* OnConnected() with an error, which goes to onError().
ConnectFailed ==
    /\ "refuse" \in Faults \/ quit
    /\ conn # 0 /\ ~connected
    /\ Disconnect
    /\ UNCHANGED <<wanted, answers, up, serverVars>>

\* OnWakedUp(): one run of the waker sends up to SendBurst messages.
ClientWakedUp ==
    /\ wake
    /\ LET n == IF Len(out) < SendBurst THEN Len(out) ELSE SendBurst IN
       /\ up' = [up EXCEPT ![conn] = @ \o SubSeq(out, 1, n)]
       /\ out' = SubSeq(out, n + 1, Len(out))
       /\ writes' = writes + n
    /\ wake' = FALSE /\ stalled' = FALSE
    /\ UNCHANGED <<loopVars, callVars, awaits, due, done, failed, answers, part,
                   down, serverVars>>

\* send() fails within OnWakedUp(): onError(), and the socket is gone.
ClientSendFails ==
    /\ "send" \in Faults /\ wake /\ out # <<>>
    /\ Disconnect
    /\ UNCHANGED <<wanted, answers, up, serverVars>>

\* Mutant of ClientWrote: overridden as it is in PassiveConn.
ClientWroteOnly ==
    /\ writes > 0
    /\ writes' = writes - 1
    /\ UNCHANGED <<loopVars, callVars, awaits, due, done, failed, answers, out, wake, part,
                   stalled, up, down, serverVars>>

\* OnWrote() of UnixSocket: each write that ends sends one more message. What
\* send() returns is not looked at: the message of a failed one is lost, and as
\* no OnWrote() follows, what is left waits for the next wakeup.
ClientWrote ==
    /\ writes > 0
    /\ \/ /\ out = <<>>
          /\ writes' = writes - 1 /\ UNCHANGED <<out, up, stalled>>
       \/ /\ out # <<>>
          /\ up' = [up EXCEPT ![conn] = Append(@, Head(out))]
          /\ out' = Tail(out) /\ UNCHANGED <<writes, stalled>>
       \/ /\ "send" \in Faults /\ out # <<>>
          /\ out' = Tail(out) /\ writes' = writes - 1
          /\ stalled' = (writes = 1) /\ UNCHANGED up
    /\ UNCHANGED <<loopVars, callVars, awaits, due, done, failed, answers, wake, part,
                   down, serverVars>>

-----------------------------------------------------------------------------
(* processMessage() and OnIndividualMessage() *)

\* What one read can bring from a wire: k whole messages and, if more, the
\* head of the next.  held says that _buf holds the head of the first.
Chunk(wire, held) ==
    {x \in (0 .. Len(wire)) \X (IF "split" \in Faults THEN BOOLEAN ELSE {FALSE}) :
        /\ x[2] => x[1] < Len(wire)
        /\ x[1] > 0 \/ (x[2] /\ ~held)}

\* A held message is completed only by a read that has the start of another:
\* processMessage() looks for the next '~' to find where the held one ends.
Unparsed(held, x) == held /\ x = <<1, FALSE>>

\* The awaited call under a number, and the first message that answers it.
Answered(msgs) == {d \in awaits : \E c \in ToSet(msgs) : num[c] = num[d]}
AnswerOf(msgs, d) ==
    msgs[CHOOSE i \in DOMAIN msgs : /\ num[msgs[i]] = num[d]
                                    /\ \A j \in 1 .. i - 1 : num[msgs[j]] # num[d]]

\* Mutant of ClientRead: the answered request stays in _awaits.
ClientReadKept ==
    /\ connected
    /\ \E x \in Chunk(down, part) :
        LET msgs == SubSeq(down, 1, x[1])
            hit == Answered(msgs)
        IN  /\ ~Unparsed(part, x)
            /\ part' = x[2]
            /\ down' = SubSeq(down, x[1] + 1, Len(down))
            /\ answers' = answers \cup
                 {[to |-> d, of |-> AnswerOf(msgs, d), late |-> done[d] > 0] : d \in hit}
            /\ Report(hit)
    /\ UNCHANGED <<loopVars, callVars, awaits, due, failed, out, wake, writes, stalled,
                   up, serverVars>>

ClientRead ==
    /\ connected
    /\ \E x \in Chunk(down, part) :
        LET msgs == SubSeq(down, 1, x[1])
            hit == Answered(msgs)
        IN  /\ ~Unparsed(part, x)
            /\ part' = x[2]
            /\ down' = SubSeq(down, x[1] + 1, Len(down))
            /\ answers' = answers \cup
                 {[to |-> d, of |-> AnswerOf(msgs, d), late |-> done[d] > 0] : d \in hit}
            /\ Report(hit)
            /\ awaits' = awaits \ hit /\ due' = due \ hit
    /\ UNCHANGED <<loopVars, callVars, failed, out, wake, writes, stalled, up, serverVars>>

\* A read that cannot be parsed, or the end of the stream: onError().
ClientReadFails ==
    /\ connected
    /\ \/ \E x \in Chunk(down, part) : Unparsed(part, x)
       \/ sconn[conn] = "closed" /\ down = <<>>
    /\ Disconnect
    /\ UNCHANGED <<wanted, answers, up, serverVars>>

-----------------------------------------------------------------------------
(* LIPCService and its PassiveConns *)

\* doAccept() and start().  Nothing ever takes a connection out of _clients:
\* PassiveConn::OnClose() is called by nobody.  (Bound: a connection whose
\* client has left already is not accepted any more.)
Accept(i) ==
    /\ i = conn /\ connected /\ sconn[i] = "none" /\ ~quit
    /\ sconn' = [sconn EXCEPT ![i] = "open"]
    /\ UNCHANGED <<loopVars, callVars, awaits, due, done, failed, answers, sockVars,
                   up, down, sout, swake, serving, quit>>

\* execOrDispatch(): the application has the request and its connId.
ServerRead(i) ==
    /\ sconn[i] = "open" /\ up[i] # <<>>
    /\ serving' = serving \cup {<<i, Head(up[i])>>}
    /\ up' = [up EXCEPT ![i] = Tail(@)]
    /\ UNCHANGED <<loopVars, callVars, awaits, due, done, failed, answers, sockVars,
                   down, sconn, sout, swake, quit>>

\* Mutant of SendResp: the answer goes to whoever is connected.
SendRespAnyone(i, c) ==
    /\ <<i, c>> \in serving
    /\ serving' = serving \ {<<i, c>>}
    /\ \E j \in Conn : /\ ~quit /\ sconn[j] = "open"
                       /\ sout' = [sout EXCEPT ![j] = Append(@, c)]
                       /\ swake' = [swake EXCEPT ![j] = TRUE]
    /\ UNCHANGED <<loopVars, callVars, awaits, due, done, failed, answers, sockVars,
                   up, down, sconn, quit>>

\* sendResp(): to the connection of that connId, if it still reads.
SendResp(i, c) ==
    /\ <<i, c>> \in serving
    /\ serving' = serving \ {<<i, c>>}
    /\ IF ~quit /\ sconn[i] = "open"
       THEN /\ sout' = [sout EXCEPT ![i] = Append(@, c)]
            /\ swake' = [swake EXCEPT ![i] = TRUE]
       ELSE UNCHANGED <<sout, swake>>
    /\ UNCHANGED <<loopVars, callVars, awaits, due, done, failed, answers, sockVars,
                   up, down, sconn, quit>>

ServerWakedUp(i) ==
    /\ swake[i]
    /\ swake' = [swake EXCEPT ![i] = FALSE]
    /\ LET n == IF Len(sout[i]) < SendBurst THEN Len(sout[i]) ELSE SendBurst IN
       IF sconn[i] = "open"
       THEN /\ down' = IF i = conn THEN down \o SubSeq(sout[i], 1, n) ELSE down
            /\ sout' = [sout EXCEPT ![i] = SubSeq(@, n + 1, Len(@))]
       ELSE sout' = [sout EXCEPT ![i] = <<>>] /\ UNCHANGED down
    /\ UNCHANGED <<loopVars, callVars, awaits, due, done, failed, answers, sockVars,
                   up, sconn, serving, quit>>

Close(S) == sconn' = [i \in Conn |-> IF i \in S /\ sconn[i] = "open" THEN "closed" ELSE sconn[i]]

\* The client has gone: OnRead() or OnWrote() gets an error.  (Without one
\* OnWrote() of PassiveConn does nothing, in contrast to ClientWrote.)
ServerGetsError(i) ==
    /\ sconn[i] = "open" /\ i # conn
    /\ Close({i})
    /\ UNCHANGED <<loopVars, callVars, awaits, due, done, failed, answers, sockVars,
                   up, down, sout, swake, serving, quit>>

\* stopServing() and the OnWakedUp() of the service it leads to: no more
\* answers, and all clients are closed.
StopServing ==
    /\ "quit" \in Faults /\ ~quit
    /\ quit' = TRUE /\ Close(Conn)
    /\ UNCHANGED <<loopVars, callVars, awaits, due, done, failed, answers, sockVars,
                   up, down, sout, swake, serving>>

\* The service's process dies and is started again.
Crash ==
    /\ "crash" \in Faults /\ \E i \in Conn : sconn[i] = "open"
    /\ Close(Conn)
    /\ up' = [i \in Conn |-> <<>>] /\ sout' = [i \in Conn |-> <<>>]
    /\ swake' = [i \in Conn |-> FALSE]
    /\ serving' = {}
    /\ UNCHANGED <<loopVars, callVars, awaits, due, done, failed, answers, sockVars,
                   down, quit>>

-----------------------------------------------------------------------------
SendRequest(c) ==
    \/ Number(c) \/ NumberLocked(c) \/ ResetNumber(c) \/ NumberRestarted(c)
    \/ Insert(c) \/ CheckConn(c) \/ AsyncSend(c) \/ SendFailed(c) \/ EraseFailed(c)

ClientLoop ==
    \/ Connect \/ DisconnectCalled \/ Poll
    \/ OnConnected \/ ConnectFailed
    \/ ClientWakedUp \/ ClientSendFails \/ ClientWrote
    \/ ClientRead \/ ClientReadFails

Service ==
    \/ \E i \in Conn : \/ Accept(i) \/ ServerRead(i) \/ ServerWakedUp(i)
                       \/ ServerGetsError(i)
                       \/ \E c \in Call : SendResp(i, c)
    \/ StopServing \/ Crash

Next ==
    \/ \E c \in Call : SendRequest(c) \/ Expire(c)
    \/ OthersCall
    \/ ClientLoop
    \/ Service

Spec == Init /\ [][Next]_vars

\* The caller's thread and the loop run on, time passes and the timer of
\* poll() comes; writes end.  Nothing is asked of the service.
Fairness ==
    /\ \A c \in Call : WF_vars(SendRequest(c)) /\ WF_vars(Expire(c))
    /\ WF_vars(Poll)
    /\ WF_vars(ClientWakedUp) /\ WF_vars(ClientWrote)
    /\ SF_vars(OnConnected)

FairSpec == Spec /\ Fairness

-----------------------------------------------------------------------------
ClientTypes ==
    /\ named \in BOOLEAN /\ wanted \in BOOLEAN /\ connected \in BOOLEAN
    /\ opened \in 0 .. MaxConn /\ conn \in 0 .. opened
    /\ awaits \subseteq Call /\ due \subseteq awaits
    /\ conn = 0 => ~connected /\ ~wake /\ writes = 0

CallTypes ==
    /\ lastNum \in Nat /\ wrapLock \in Call \cup {NoCall}
    /\ pc \in [Call -> CallPc] /\ num \in [Call -> Nat] /\ target \in [Call -> 0 .. opened]
    /\ done \in [Call -> Nat] /\ failed \in [Call -> BOOLEAN]
    /\ answers \subseteq [to : Call, of : Call, late : BOOLEAN]

WireTypes ==
    /\ out \in Seq(Call) /\ wake \in BOOLEAN /\ writes \in Nat
    /\ part \in BOOLEAN /\ stalled \in BOOLEAN
    /\ up \in [Conn -> Seq(Call)] /\ down \in Seq(Call)

ServiceTypes ==
    /\ sconn \in [Conn -> {"none", "open", "closed"}]
    /\ sout \in [Conn -> Seq(Call)] /\ swake \in [Conn -> BOOLEAN]
    /\ serving \subseteq Conn \X Call /\ quit \in BOOLEAN

\* The type invariant; without a connection nothing is sent or read.
TypeOK == ClientTypes /\ CallTypes /\ WireTypes /\ ServiceTypes

\* poll(), a closed connection and an answer report a request once between
\* them, however they and the calling threads interleave.
ReportedOnce == \A c \in Call : done[c] <= 1

\* Over lost connections and the numbers' coming round, OnResponse() gets
\* an answer only for the request it answers, and before that was reported.
AnswerIsOwn == \A a \in answers : a.to = a.of /\ ~a.late

\* Every request that got its number is reported in the end, also one that
\* was never sent, or whose connection or service is lost.
EventuallyReported ==
    \A c \in Call : pc[c] = "insert" ~> done[c] > 0 \/ failed[c]

\* What is queued has a wakeup or the end of a write to come that takes it,
\* unless the last send under way failed within OnWrote().
OutgoingIsDriven == out # <<>> => wake \/ writes > 0 \/ stalled

\* More messages than one wakeup sends leave all the same, unless the send
\* that was to go on with them failed within OnWrote().
OutgoingLeaves == out # <<>> ~> out = <<>> \/ stalled
===============================================================================
