------------------------------- MODULE LIPCProofs -------------------------------
(* Theorems about LIPC, for any calls, any number of connections, any wrap of *)
(* the sequence number, any burst of the sender and all faults.               *)
EXTENDS LIPC, DataLemmas, FiniteSetTheorems, TLAPS

\* The states of a call before its entry is in _awaits.
Early == {"idle", "wrap", "reset", "restart", "insert"}

\* What is awaited was not reported, and neither is awaited nor reported what
\* did not get as far as _awaits.
Unreported ==
    /\ awaits \subseteq Call /\ due \subseteq awaits
    /\ pc \in [Call -> CallPc] /\ done \in [Call -> Nat]
    /\ \A c \in awaits : done[c] = 0 /\ pc[c] \notin Early
    /\ \A c \in Call : pc[c] \in Early => done[c] = 0

\* The inductive invariant: an entry of _awaits is what gives the right to report.
IInv == Unreported /\ ReportedOnce

-----------------------------------------------------------------------------
\* Reporting awaited calls, and erasing them, keeps the invariant.
LEMMA ReportErased ==
    ASSUME IInv, NEW S, S \subseteq awaits, Report(S),
           awaits' = awaits \ S, due' \subseteq awaits', pc' = pc
    PROVE  IInv'
BY DEF IInv, Unreported, ReportedOnce, Report, Early, CallPc

\* So does reporting all of them, as a closing does.
LEMMA ClosingReports ==
    ASSUME IInv, OnConnectionClosed, pc' = pc
    PROVE  IInv'
<1>1. awaits \subseteq awaits /\ awaits' = awaits \ awaits /\ due' \subseteq awaits' /\ Report(awaits)
  BY DEF OnConnectionClosed
<1> QED  BY <1>1, ReportErased

\* A step of sendRequest() adds an entry, erases one or touches none; it never
\* reports by done.
LEMMA SendRequestStep ==
    ASSUME IInv, NEW c \in Call, SendRequest(c)
    PROVE  IInv'
<1> USE DEF IInv, Unreported, ReportedOnce, Early, CallPc, Goto
<1>1. CASE Number(c)
  BY <1>1 DEF Number, TakeNumber
<1>2. CASE NumberLocked(c)
  BY <1>2 DEF NumberLocked, TakeNumber
<1>3. CASE ResetNumber(c)
  BY <1>3 DEF ResetNumber
<1>4. CASE NumberRestarted(c)
  BY <1>4 DEF NumberRestarted, TakeNumber
<1>5. CASE Insert(c)
  BY <1>5 DEF Insert
<1>6. CASE CheckConn(c)
  BY <1>6 DEF CheckConn
<1>7. CASE AsyncSend(c)
  BY <1>7 DEF AsyncSend
<1>8. CASE SendFailed(c)
  BY <1>8 DEF SendFailed
<1>9. CASE EraseFailed(c)
  BY <1>9 DEF EraseFailed
<1> QED  BY <1>1, <1>2, <1>3, <1>4, <1>5, <1>6, <1>7, <1>8, <1>9 DEF SendRequest

\* The loop reports calls only together with erasing them.
LEMMA ClientLoopStep ==
    ASSUME IInv, ClientLoop
    PROVE  IInv'
<1> USE DEF callVars
<1>1. ASSUME UNCHANGED <<awaits, due, done, pc>> PROVE IInv'
  BY <1>1 DEF IInv, Unreported, ReportedOnce
<1>2. CASE Connect \/ OnConnected \/ ClientWakedUp \/ ClientWrote
  BY <1>1, <1>2 DEF Connect, OnConnected, ClientWakedUp, ClientWrote
<1>3. CASE DisconnectCalled \/ ConnectFailed \/ ClientSendFails \/ ClientReadFails
  BY <1>3, ClosingReports DEF DisconnectCalled, ConnectFailed, ClientSendFails,
     ClientReadFails, Disconnect
<1>4. CASE PollExpires
  <2>1. due \subseteq awaits
    BY DEF IInv, Unreported
  <2> QED  BY <1>4, <2>1, ReportErased DEF PollExpires
<1>5. CASE PollReconnects
  BY <1>5, ClosingReports DEF PollReconnects
<1>6. CASE ClientRead
  <2>1. PICK x \in Chunk(down, part) :
          /\ Report(Answered(SubSeq(down, 1, x[1])))
          /\ awaits' = awaits \ Answered(SubSeq(down, 1, x[1]))
          /\ due' = due \ Answered(SubSeq(down, 1, x[1]))
    BY <1>6 DEF ClientRead
  <2>2. Answered(SubSeq(down, 1, x[1])) \subseteq awaits
    BY DEF Answered
  <2>3. due' \subseteq awaits' /\ pc' = pc
    BY <1>6, <2>1 DEF IInv, Unreported, ClientRead
  <2> QED  BY <2>1, <2>2, <2>3, ReportErased
<1> QED  BY <1>2, <1>3, <1>4, <1>5, <1>6 DEF ClientLoop, Poll

\* The inductive invariant holds of a client just constructed ...
LEMMA InitIInv == Init => IInv
BY DEF Init, IInv, Unreported, ReportedOnce, Early, CallPc

\* ... and is kept by every step of callers, loop and service.
LEMMA StepIInv == IInv /\ [Next]_vars => IInv'
<1> SUFFICES ASSUME IInv, [Next]_vars PROVE IInv'
  OBVIOUS
<1>1. ASSUME UNCHANGED <<awaits, due, done, pc>> PROVE IInv'
  BY <1>1 DEF IInv, Unreported, ReportedOnce
<1>2. ASSUME NEW c \in Call, Expire(c) PROVE IInv'
  BY <1>2 DEF Expire, IInv, Unreported, ReportedOnce, callVars
<1>3. CASE OthersCall
  BY <1>1, <1>3 DEF OthersCall
<1>4. CASE Service
  <2>1. CASE StopServing \/ Crash
    BY <1>1, <2>1 DEF StopServing, Crash, callVars
  <2>2. ASSUME NEW i \in Conn, \/ Accept(i) \/ ServerRead(i) \/ ServerWakedUp(i)
                               \/ ServerGetsError(i)
        PROVE  IInv'
    BY <1>1, <2>2 DEF Accept, ServerRead, ServerWakedUp, ServerGetsError, callVars
  <2>3. ASSUME NEW i \in Conn, NEW c \in Call, SendResp(i, c) PROVE IInv'
    BY <1>1, <2>3 DEF SendResp, callVars
  <2> QED  BY <1>4, <2>1, <2>2, <2>3 DEF Service
<1>5. CASE UNCHANGED vars
  BY <1>1, <1>5 DEF vars, callVars
<1> QED  BY <1>2, <1>3, <1>4, <1>5, SendRequestStep, ClientLoopStep DEF Next

\* poll(), a closed connection and an answer report a request at most once
\* between them, however the event loop and the calling threads interleave,
\* whatever numbers come round and whatever connections fail.
THEOREM RequestReportedOnce == Spec => []ReportedOnce
<1>1. IInv => ReportedOnce
  BY DEF IInv
<1> QED  BY <1>1, InitIInv, StepIInv, PTL DEF Spec

-----------------------------------------------------------------------------
(* Type correctness. *)

\* What ClientRead finds is an awaited call and a message that answers it.
LEMMA AnswerFound ==
    ASSUME TypeOK, NEW msgs \in Seq(Call), NEW d \in Answered(msgs)
    PROVE  /\ d \in awaits /\ AnswerOf(msgs, d) \in ToSet(msgs)
           /\ num[AnswerOf(msgs, d)] = num[d]
<1> DEFINE T == {i \in DOMAIN msgs : num[msgs[i]] = num[d]}
<1>1. PICK c \in ToSet(msgs) : d \in awaits /\ num[c] = num[d]
  BY DEF Answered, TypeOK, ClientTypes
<1>2. DOMAIN msgs = 1..Len(msgs) /\ ToSet(msgs) = {msgs[k] : k \in 1..Len(msgs)}
  BY ElementsOf
<1>3. T # {} /\ T \subseteq Nat
  BY <1>1, <1>2
<1>4. PICK i \in T : \A j \in T : i <= j
  BY <1>3, LeastNumber
<1>5. \A j \in 1 .. i - 1 : num[msgs[j]] # num[d]
  BY <1>2, <1>4
<1> DEFINE First(n) == num[msgs[n]] = num[d] /\ \A j \in 1 .. n - 1 : num[msgs[j]] # num[d]
<1>6. \E n \in DOMAIN msgs : First(n)
  BY <1>4, <1>5
<1>7. (CHOOSE n \in DOMAIN msgs : First(n)) \in DOMAIN msgs /\ First(CHOOSE n \in DOMAIN msgs : First(n))
  BY <1>6
<1> QED  BY <1>1, <1>2, <1>7 DEF AnswerOf

LEMMA ChunkType ==
    ASSUME NEW wire \in Seq(Call), NEW held \in BOOLEAN, NEW x \in Chunk(wire, held)
    PROVE  /\ x[1] \in 0..Len(wire) /\ x[2] \in BOOLEAN
           /\ SubSeq(wire, 1, x[1]) \in Seq(Call) /\ SubSeq(wire, x[1] + 1, Len(wire)) \in Seq(Call)
           /\ ToSet(SubSeq(wire, 1, x[1])) \subseteq ToSet(wire)
           /\ ToSet(SubSeq(wire, x[1] + 1, Len(wire))) \subseteq ToSet(wire)
<1>1. x[1] \in 0..Len(wire) /\ x[2] \in BOOLEAN
  BY DEF Chunk
<1>2. 1 \in 1..Len(wire) + 1 /\ x[1] + 1 \in 1..Len(wire) + 1 /\ Len(wire) \in 0..Len(wire)
  BY <1>1
<1> QED  BY <1>1, <1>2, ElementsOfPart

LEMMA NumberTaken ==
    ASSUME CallTypes, NEW c \in Call, NEW v \in Nat, TakeNumber(c, v)
    PROVE  num' \in [Call -> Nat] /\ pc' \in [Call -> CallPc]
BY DEF CallTypes, TakeNumber, Goto, CallPc

LEMMA CallsKeepTypes ==
    ASSUME TypeOK, NEW c \in Call, SendRequest(c)
    PROVE  TypeOK'
<1> USE BoundAssumption DEF TypeOK, ClientTypes, CallTypes, WireTypes, ServiceTypes, CallPc, Goto, loopVars, sockVars, serverVars, callVars
<1>1. CASE Number(c)
  <2>21. ClientTypes'
    BY <1>1 DEF Number, TakeNumber
  <2>1. lastNum + 1 \in Nat
    OBVIOUS
  <2>2. num' \in [Call -> Nat] /\ pc' \in [Call -> CallPc]
    BY <1>1, <2>1, NumberTaken DEF Number
  <2>22. CallTypes'
    BY <1>1, <2>1, <2>2 DEF Number
  <2>23. WireTypes'
    BY <1>1 DEF Number, TakeNumber
  <2>24. ServiceTypes'
    BY <1>1 DEF Number, TakeNumber
  <2> QED  BY <2>21, <2>22, <2>23, <2>24
<1>2. CASE NumberLocked(c)
  <2>21. ClientTypes'
    BY <1>2 DEF NumberLocked, TakeNumber
  <2>1. lastNum + 1 \in Nat
    OBVIOUS
  <2>2. num' \in [Call -> Nat] /\ pc' \in [Call -> CallPc]
    BY <1>2, <2>1, NumberTaken DEF NumberLocked
  <2>22. CallTypes'
    BY <1>2, <2>1, <2>2 DEF NumberLocked
  <2>23. WireTypes'
    BY <1>2 DEF NumberLocked, TakeNumber
  <2>24. ServiceTypes'
    BY <1>2 DEF NumberLocked, TakeNumber
  <2> QED  BY <2>21, <2>22, <2>23, <2>24
<1>3. CASE ResetNumber(c)
  BY <1>3 DEF ResetNumber
<1>4. CASE NumberRestarted(c)
  <2>1. lastNum + 1 \in Nat
    OBVIOUS
  <2>2. num' \in [Call -> Nat] /\ pc' \in [Call -> CallPc]
    BY <1>4, <2>1, NumberTaken DEF NumberRestarted
  <2>21. ClientTypes'
    BY <1>4 DEF NumberRestarted
  <2>22. CallTypes'
    BY <1>4, <2>1, <2>2 DEF NumberRestarted
  <2> QED  BY <1>4, <2>21, <2>22 DEF NumberRestarted
<1>5. CASE Insert(c)
  BY <1>5 DEF Insert
<1>6. CASE CheckConn(c)
  BY <1>6 DEF CheckConn
<1>7. CASE AsyncSend(c)
  <2>1. Append(out, c) \in Seq(Call)
    OBVIOUS
  <2>2. UNCHANGED <<named, wanted, conn, opened, connected, awaits, due, writes>>
    BY <1>7 DEF AsyncSend
  <2>3. wake' = wake \/ connected
    BY <1>7 DEF AsyncSend
  <2>21. ClientTypes'
    BY <2>2, <2>3
  <2>4. UNCHANGED <<lastNum, wrapLock, num, opened, done, failed, answers>>
    BY <1>7 DEF AsyncSend
  <2>5. /\ target' = [target EXCEPT ![c] = 0] /\ 0 \in 0..opened
        /\ Goto(c, "returned") \/ Goto(c, "error")
    BY <1>7 DEF AsyncSend
  <2>6. pc' \in [Call -> CallPc] /\ target' \in [Call -> 0..opened]
    BY <2>5
  <2>22. CallTypes'
    BY <2>4, <2>6
  <2>23. WireTypes'
    BY <1>7, <2>1 DEF AsyncSend
  <2>24. ServiceTypes'
    BY <1>7, <2>1 DEF AsyncSend
  <2> QED  BY <2>21, <2>22, <2>23, <2>24
<1>8. CASE SendFailed(c)
  BY <1>8 DEF SendFailed
<1>9. CASE EraseFailed(c)
  BY <1>9 DEF EraseFailed
<1> QED  BY <1>1, <1>2, <1>3, <1>4, <1>5, <1>6, <1>7, <1>8, <1>9 DEF SendRequest

LEMMA LoopKeepsTypes ==
    ASSUME TypeOK, ClientLoop
    PROVE  TypeOK'
<1> USE BoundAssumption DEF TypeOK, ClientTypes, CallTypes, WireTypes, ServiceTypes, callVars, loopVars, sockVars, serverVars
<1>1. <<>> \in Seq(Call)
  OBVIOUS
<1>2. ASSUME NEW calls, Report(calls) PROVE done' \in [Call -> Nat]
  BY <1>2 DEF Report
<1>3. ASSUME DropSocket, OnConnectionClosed
      PROVE  /\ out' \in Seq(Call) /\ down' \in Seq(Call) /\ wake' = FALSE /\ writes' = 0
             /\ part' = FALSE /\ stalled' = FALSE /\ connected' = FALSE
             /\ awaits' = {} /\ due' = {} /\ done' \in [Call -> Nat]
  BY <1>1, <1>2, <1>3 DEF DropSocket, OnConnectionClosed
<1>4. ASSUME Disconnect, wanted' \in BOOLEAN, UNCHANGED <<answers, up, serverVars>> PROVE TypeOK'
  <2>21. ClientTypes'
    <3>1. /\ named' = FALSE /\ wanted' \in BOOLEAN /\ conn' = 0 /\ opened' = opened
          /\ DropSocket /\ OnConnectionClosed
      BY <1>4 DEF Disconnect
    <3>2. /\ wake' = FALSE /\ writes' = 0 /\ connected' = FALSE /\ awaits' = {} /\ due' = {}
      BY <1>3, <3>1
    <3>3. 0 \in 0..opened' /\ opened' \in 0..MaxConn
      BY <3>1
    <3> HIDE DEF DropSocket, OnConnectionClosed, TypeOK
    <3> QED  BY <3>1, <3>2, <3>3
  <2>22. CallTypes'
    BY <1>3, <1>4 DEF Disconnect
  <2>23. WireTypes'
    BY <1>3, <1>4 DEF Disconnect
  <2>24. ServiceTypes'
    BY <1>3, <1>4 DEF Disconnect
  <2> QED  BY <2>21, <2>22, <2>23, <2>24
<1>5. CASE Connect
  BY <1>5 DEF Connect
<1>6. CASE DisconnectCalled
  BY <1>4, <1>6 DEF DisconnectCalled
<1>7. CASE PollExpires
  <2>1. done' \in [Call -> Nat]
    BY <1>2, <1>7 DEF PollExpires
  <2> QED  BY <1>7, <2>1 DEF PollExpires
<1>8. CASE PollReconnects
  <2>21. ClientTypes'
    BY <1>3, <1>8 DEF PollReconnects, MayConnect
  <2>1. 0..opened \subseteq 0..(opened + 1)
    OBVIOUS
  <2>2. target' \in [Call -> 0..opened']
    BY <1>8, <2>1 DEF PollReconnects
  <2>3. UNCHANGED <<lastNum, wrapLock, pc, num, failed, answers>> /\ done' \in [Call -> Nat]
    BY <1>3, <1>8 DEF PollReconnects
  <2>22. CallTypes'
    BY <2>2, <2>3
  <2>23. WireTypes'
    BY <1>3, <1>8 DEF PollReconnects, MayConnect
  <2>24. ServiceTypes'
    BY <1>3, <1>8 DEF PollReconnects, MayConnect
  <2> QED  BY <2>21, <2>22, <2>23, <2>24
<1>9. CASE OnConnected
  BY <1>9 DEF OnConnected
<1>10. CASE ConnectFailed \/ ClientSendFails \/ ClientReadFails
  BY <1>4, <1>10 DEF ConnectFailed, ClientSendFails, ClientReadFails
<1>11. CASE ClientWakedUp
  <2> DEFINE n == IF Len(out) < SendBurst THEN Len(out) ELSE SendBurst
  <2>1. n \in Nat /\ n <= Len(out)
    BY BoundAssumption
  <2>2. SubSeq(out, 1, n) \in Seq(Call) /\ SubSeq(out, n + 1, Len(out)) \in Seq(Call)
    BY SMTT(30), <2>1
  <2>3. conn # 0 /\ conn \in Conn
    BY <1>11, BoundAssumption DEF ClientWakedUp, Conn
  <2>4. up[conn] \o SubSeq(out, 1, n) \in Seq(Call)
    BY <2>2, <2>3
  <2> HIDE DEF n
  <2>5. up' \in [Conn -> Seq(Call)] /\ out' \in Seq(Call) /\ writes' \in Nat
    <3>1. /\ up' = [up EXCEPT ![conn] = @ \o SubSeq(out, 1, n)]
          /\ out' = SubSeq(out, n + 1, Len(out)) /\ writes' = writes + n
      BY <1>11 DEF ClientWakedUp, n
    <3> QED  BY SMTT(30), <3>1, <2>1, <2>2, <2>3, <2>4
  <2> QED  BY <1>11, <2>3, <2>5 DEF ClientWakedUp
<1>12. CASE ClientWrote
  <2>1. conn # 0 /\ conn \in Conn
    BY <1>12, BoundAssumption DEF ClientWrote, Conn
  <2>2. CASE out = <<>>
    <3>1. UNCHANGED <<named, wanted, connected, opened, conn, awaits, due, wake, out, up, part, stalled, down>>
      BY <1>12, <2>2 DEF ClientWrote
    <3>2. writes' \in Nat
      BY <1>12, <2>2 DEF ClientWrote
    <3>3. ClientTypes' /\ WireTypes'
      BY <2>1, <3>1, <3>2
    <3> QED  BY <1>12, <3>3 DEF ClientWrote
  <2>3. CASE out # <<>>
    <3>1. Tail(out) \in Seq(Call) /\ Head(out) \in Call
      BY <2>3
    <3>2. Append(up[conn], Head(out)) \in Seq(Call)
      BY <2>1, <3>1
    <3>3. UNCHANGED <<named, wanted, connected, opened, conn, awaits, due, wake, part, down>>
      BY <1>12 DEF ClientWrote
    <3>4. out' \in Seq(Call) /\ writes' \in Nat
      <4>1. /\ writes > 0 /\ out' = Tail(out)
            /\ writes' = writes \/ writes' = writes - 1
        BY <1>12, <2>3, Zenon DEF ClientWrote
      <4>2. writes' \in Nat
        BY <4>1
      <4> QED  BY <3>1, <4>1, <4>2
    <3>7. stalled' \in BOOLEAN
      <4>1. stalled' = stalled \/ stalled' = (writes = 1)
        BY <1>12, Zenon DEF ClientWrote
      <4>2. (writes = 1) \in BOOLEAN
        BY Zenon
      <4> QED  BY <4>1, <4>2
    <3>5. up' \in [Conn -> Seq(Call)]
      BY <1>12, <2>1, <2>3, <3>2 DEF ClientWrote
    <3>6. ClientTypes' /\ WireTypes'
      BY <2>1, <3>3, <3>4, <3>5, <3>7
    <3> QED  BY <1>12, <3>6 DEF ClientWrote
  <2> QED  BY <2>2, <2>3
<1>13. CASE ClientRead
  <2>1. PICK x \in Chunk(down, part) :
          LET msgs == SubSeq(down, 1, x[1])
              hit == Answered(msgs)
          IN  /\ part' = x[2] /\ down' = SubSeq(down, x[1] + 1, Len(down))
              /\ answers' = answers \cup
                   {[to |-> d, of |-> AnswerOf(msgs, d), late |-> done[d] > 0] : d \in hit}
              /\ Report(hit) /\ awaits' = awaits \ hit /\ due' = due \ hit
    BY <1>13 DEF ClientRead
  <2> DEFINE msgs == SubSeq(down, 1, x[1])
             hit == Answered(msgs)
  <2>2. msgs \in Seq(Call) /\ part' \in BOOLEAN /\ down' \in Seq(Call)
    BY <2>1, ChunkType
  <2>3. done' \in [Call -> Nat]
    BY <1>2, <2>1
  <2>4. \A d \in hit : d \in Call /\ AnswerOf(msgs, d) \in Call
    <3>1. \A d \in hit : d \in awaits /\ AnswerOf(msgs, d) \in ToSet(msgs)
      <4> HIDE DEF TypeOK, msgs
      <4> QED  BY <2>2, AnswerFound
    <3>2. ToSet(msgs) \subseteq Call
      BY ZenonT(60), <2>2, ElementsOf
    <3> QED  BY <3>1, <3>2
  <2> HIDE DEF msgs, hit
  <2>5. answers' \subseteq [to : Call, of : Call, late : BOOLEAN]
    <3>1. answers' = answers \cup
                 {[to |-> d, of |-> AnswerOf(msgs, d), late |-> done[d] > 0] : d \in hit}
      BY <2>1 DEF msgs, hit
    <3>2. \A d \in hit : [to |-> d, of |-> AnswerOf(msgs, d), late |-> done[d] > 0]
                           \in [to : Call, of : Call, late : BOOLEAN]
      BY <2>4
    <3> HIDE DEF hit, msgs
    <3>3. {[to |-> d, of |-> AnswerOf(msgs, d), late |-> done[d] > 0] : d \in hit}
             \subseteq [to : Call, of : Call, late : BOOLEAN]
      <4> DEFINE R(d) == [to |-> d, of |-> AnswerOf(msgs, d), late |-> done[d] > 0]
      <4>1. \A d \in hit : R(d) \in [to : Call, of : Call, late : BOOLEAN]
        BY <3>2
      <4> HIDE DEF R
      <4>2. {R(d) : d \in hit} \subseteq [to : Call, of : Call, late : BOOLEAN]
        BY <4>1
      <4> QED  BY <4>2 DEF R
    <3>4. answers \subseteq [to : Call, of : Call, late : BOOLEAN]
      OBVIOUS
    <3> QED  BY <3>1, <3>3, <3>4, Zenon
  <2> QED  BY <1>13, <2>1, <2>2, <2>3, <2>5 DEF ClientRead, msgs, hit
<1> QED  BY <1>5, <1>6, <1>7, <1>8, <1>9, <1>10, <1>11, <1>12, <1>13 DEF ClientLoop, Poll

LEMMA ServiceKeepsTypes ==
    ASSUME TypeOK, Service
    PROVE  TypeOK'
<1> USE BoundAssumption DEF TypeOK, ClientTypes, CallTypes, WireTypes, ServiceTypes, callVars, loopVars, sockVars
<1>1. ASSUME NEW i \in Conn, Accept(i) PROVE TypeOK'
  BY <1>1 DEF Accept
<1>2. ASSUME NEW i \in Conn, ServerRead(i) PROVE TypeOK'
  <2>1. Tail(up[i]) \in Seq(Call) /\ Head(up[i]) \in Call
    BY <1>2 DEF ServerRead
  <2>21. ClientTypes'
    BY <1>2, <2>1 DEF ServerRead
  <2>22. CallTypes'
    BY <1>2, <2>1 DEF ServerRead
  <2>23. WireTypes'
    BY <1>2, <2>1 DEF ServerRead
  <2>24. ServiceTypes'
    BY SMTT(30), <1>2, <2>1 DEF ServerRead
  <2> QED  BY <2>21, <2>22, <2>23, <2>24
<1>3. ASSUME NEW i \in Conn, ServerWakedUp(i) PROVE TypeOK'
  <2> DEFINE n == IF Len(sout[i]) < SendBurst THEN Len(sout[i]) ELSE SendBurst
  <2>1. n \in Nat /\ n <= Len(sout[i])
    BY BoundAssumption
  <2>2. /\ SubSeq(sout[i], 1, n) \in Seq(Call) /\ SubSeq(sout[i], n + 1, Len(sout[i])) \in Seq(Call)
        /\ <<>> \in Seq(Call)
    BY <2>1
  <2> HIDE DEF n
  <2>3. down \o SubSeq(sout[i], 1, n) \in Seq(Call)
    BY <2>2
  <2>4. down' \in Seq(Call) /\ sout' \in [Conn -> Seq(Call)]
    BY <1>3, <2>2, <2>3 DEF ServerWakedUp, n
  <2> QED  BY <1>3, <2>4 DEF ServerWakedUp
<1>4. ASSUME NEW S, Close(S) PROVE sconn' \in [Conn -> {"none", "open", "closed"}]
  BY <1>4 DEF Close
<1>5. ASSUME NEW i \in Conn, ServerGetsError(i) PROVE TypeOK'
  <2>1. sconn' \in [Conn -> {"none", "open", "closed"}]
    BY <1>4, <1>5 DEF ServerGetsError
  <2> QED  BY <1>5, <2>1 DEF ServerGetsError
<1>6. ASSUME NEW i \in Conn, NEW c \in Call, SendResp(i, c) PROVE TypeOK'
  <2>1. Append(sout[i], c) \in Seq(Call)
    OBVIOUS
  <2> QED  BY <1>6, <2>1 DEF SendResp
<1>7. CASE StopServing
  <2>1. sconn' \in [Conn -> {"none", "open", "closed"}]
    BY <1>4, <1>7 DEF StopServing
  <2> QED  BY <1>7, <2>1 DEF StopServing
<1>8. CASE Crash
  <2>1. sconn' \in [Conn -> {"none", "open", "closed"}]
    BY <1>4, <1>8 DEF Crash
  <2> QED  BY <1>8, <2>1 DEF Crash
<1> QED  BY <1>1, <1>2, <1>3, <1>5, <1>6, <1>7, <1>8 DEF Service

LEMMA TypePreserved == TypeOK /\ [Next]_vars => TypeOK'
<1> SUFFICES ASSUME TypeOK, [Next]_vars PROVE TypeOK'
  OBVIOUS
<1> USE BoundAssumption DEF ClientTypes, CallTypes, WireTypes, ServiceTypes, callVars, loopVars, sockVars, serverVars
<1>1. ASSUME NEW c \in Call, Expire(c) PROVE TypeOK'
  BY <1>1 DEF Expire, TypeOK
<1>2. CASE OthersCall
  <2>21. ClientTypes'
    BY <1>2 DEF OthersCall, TypeOK
  <2>22. CallTypes'
    BY <1>2 DEF OthersCall, TypeOK
  <2>23. WireTypes'
    BY <1>2 DEF OthersCall, TypeOK
  <2>24. ServiceTypes'
    BY <1>2 DEF OthersCall, TypeOK
  <2> QED  BY <2>21, <2>22, <2>23, <2>24 DEF TypeOK
<1>3. CASE UNCHANGED vars
  BY <1>3 DEF vars, TypeOK
<1> QED  BY <1>1, <1>2, <1>3, CallsKeepTypes, LoopKeepsTypes, ServiceKeepsTypes DEF Next

\* A client just constructed.
LEMMA InitTypeOK == ASSUME Init PROVE TypeOK
<1>1. <<>> \in Seq(Call) /\ {} \subseteq Call /\ Conn \subseteq Nat
  BY BoundAssumption DEF Conn
<1>2. /\ named = FALSE /\ wanted = FALSE /\ connected = FALSE /\ opened = 0 /\ conn = 0
      /\ awaits = {} /\ due = {} /\ wake = FALSE /\ writes = 0
  BY DEF Init
<1>3. ClientTypes
  <2>1. awaits \subseteq Call /\ due \subseteq awaits
    BY <1>2, Zenon
  <2>2. opened \in 0..MaxConn /\ conn \in 0..opened
    BY <1>2, BoundAssumption
  <2> QED  BY <1>2, <2>1, <2>2 DEF ClientTypes
<1>4. CallTypes
  BY <1>1, BoundAssumption DEF Init, CallTypes, CallPc
<1>5. WireTypes
  BY <1>1 DEF Init, WireTypes
<1>6. ServiceTypes
  BY <1>1 DEF Init, ServiceTypes
<1> QED  BY <1>3, <1>4, <1>5, <1>6 DEF TypeOK

\* The variables of client, calls, wire and service keep their types, over any
\* loss of a connection: a client without a connection neither reads nor writes.
THEOREM TypeCorrect == Spec => []TypeOK
BY InitTypeOK, TypePreserved, PTL DEF Spec

-----------------------------------------------------------------------------
(* No two requests that can still meet have the same number. *)

\* The calls that have no number yet.
Unnumbered == {c \in Call : pc[c] \in {"idle", "wrap", "reset", "restart"}}

\* Requests and answers on their way over a connection, or with the service.
AtConn(i) == ToSet(up[i]) \cup ToSet(sout[i]) \cup {c \in Call : <<i, c>> \in serving}

\* What the present connection carries, and what any does.
Here    == ToSet(out) \cup ToSet(down) \cup UNION {AtConn(i) : i \in Conn \cap {conn}}
Carried == ToSet(out) \cup ToSet(down) \cup UNION {AtConn(i) : i \in Conn}

\* What is on its way has been sent; connections to come are empty.
Traces ==
    /\ \A c \in Carried : pc[c] = "returned"
    /\ \A i \in Conn : i > opened => AtConn(i) = {}

\* The number of such a call must not be given to another one.
Uses(c) == c \notin Unnumbered /\ (pc[c] # "returned" \/ c \in awaits \cup Here)

Distinct == \A c, d \in Call : Uses(c) /\ Uses(d) /\ num[c] = num[d] => c = d

\* Until the counter is reset: the numbers in use are the last ones given.
FirstRound ==
    /\ \A c \in Call : pc[c] # "restart"
    /\ \A c \in Call : Uses(c) =>
          /\ num[c] <= lastNum
          /\ LET given == Cardinality(Call) - Cardinality(Unnumbered)
             IN  num[c] + given > lastNum \/ num[c] + given > MaxCSeq - 1

\* After that: there is room for all that have none below those given before.
SecondRound ==
    /\ \A c \in Call : pc[c] # "reset"
    /\ lastNum + Cardinality(Unnumbered) < MaxCSeq
    /\ \A c \in Call : Uses(c) =>
          num[c] <= lastNum \/ num[c] > lastNum + Cardinality(Unnumbered)

\* One call at a time resets the counter, once it is at its limit.
WrapLocked ==
    \A c \in Call : /\ pc[c] = "reset" => lastNum >= MaxCSeq
                    /\ pc[c] \in {"reset", "restart"} <=> wrapLock = c

Numbers == Distinct /\ (FirstRound \/ SecondRound) /\ WrapLocked

LEMMA UnnumberedFinite ==
    /\ IsFiniteSet(Unnumbered) /\ Cardinality(Unnumbered) \in Nat
    /\ Cardinality(Call) \in Nat /\ Cardinality(Unnumbered) <= Cardinality(Call)
<1>1. Unnumbered \subseteq Call
  BY DEF Unnumbered
<1> QED  BY <1>1, FewCallsAssumption, FS_Subset, FS_CardinalityType

\* Steps that give no number, and put nothing new on the wire.
LEMMA NumbersKept ==
    ASSUME Numbers, UNCHANGED <<lastNum, num, wrapLock>>, Unnumbered' = Unnumbered,
           \A c \in Call : pc'[c] = pc[c] \/ {pc[c], pc'[c]} \cap {"reset", "restart"} = {},
           \A c \in Call : Uses(c)' => Uses(c)
    PROVE  Numbers'
<1>1. Distinct'
  BY DEF Numbers, Distinct
<1>2. \A c \in Call : (pc'[c] = "reset" <=> pc[c] = "reset") /\ (pc'[c] = "restart" <=> pc[c] = "restart")
  OBVIOUS
<1>3. WrapLocked'
  BY <1>2 DEF Numbers, WrapLocked
<1>4. FirstRound => FirstRound'
  BY <1>2 DEF FirstRound
<1>5. SecondRound => SecondRound'
  BY <1>2 DEF SecondRound
<1> QED  BY <1>1, <1>3, <1>4, <1>5 DEF Numbers

\* A call takes the next number.
LEMMA NumberGiven ==
    ASSUME TypeOK, Numbers, NEW c \in Call, c \in Unnumbered,
           lastNum + 1 < MaxCSeq, lastNum' = lastNum + 1, TakeNumber(c, lastNum + 1),
           pc[c] # "reset",
           wrapLock' = IF pc[c] = "restart" THEN NoCall ELSE wrapLock,
           awaits' = awaits, Here' = Here
    PROVE  Numbers'
<1>1. /\ Unnumbered' = Unnumbered \ {c}
      /\ \A d \in Call \ {c} : pc'[d] = pc[d] /\ num'[d] = num[d]
      /\ pc'[c] = "insert" /\ num'[c] = lastNum + 1
  BY DEF TakeNumber, Goto, Unnumbered, TypeOK, CallTypes
<1>2. /\ Cardinality(Unnumbered') = Cardinality(Unnumbered) - 1
      /\ Cardinality(Unnumbered) \in Nat /\ Cardinality(Call) \in Nat
  BY <1>1, UnnumberedFinite, FS_RemoveElement
<1>3. Cardinality(Unnumbered) >= 1
  BY <1>1, <1>2, UnnumberedFinite, FS_RemoveElement, FS_CardinalityType, FS_Subset
<1>4. \A d \in Call \ {c} : Uses(d)' => Uses(d)
  BY <1>1 DEF Uses
<1>5. lastNum \in Nat /\ MaxCSeq \in Nat /\ \A d \in Call : num[d] \in Nat
  BY BoundAssumption DEF TypeOK, CallTypes
<1>6. WrapLocked'
  <2>1. c # NoCall
    BY CallAssumption
  <2> QED  BY <1>1, <1>5, <2>1, CallAssumption DEF Numbers, WrapLocked
<1>7. \A d \in Call \ {c} : Uses(d) => num[d] # lastNum + 1
  BY <1>2, <1>3, <1>5 DEF Numbers, FirstRound, SecondRound
<1>8. Distinct'
  BY <1>1, <1>4, <1>7 DEF Numbers, Distinct
<1>9. CASE FirstRound
  <2>1. pc[c] # "restart" /\ \A d \in Call : pc'[d] # "restart"
    BY <1>1, <1>9 DEF FirstRound
  <2>2. ASSUME NEW d \in Call, Uses(d)'
        PROVE  /\ num'[d] <= lastNum'
               /\ \/ num'[d] + (Cardinality(Call) - Cardinality(Unnumbered')) > lastNum'
                  \/ num'[d] + (Cardinality(Call) - Cardinality(Unnumbered')) > MaxCSeq - 1
    <3>1. CASE d = c
      <4>1. Cardinality(Unnumbered') < Cardinality(Call)
        BY <1>2, UnnumberedFinite
      <4> QED  BY <1>1, <1>2, <1>5, <3>1, <4>1
    <3>2. CASE d # c
      <4>1. Uses(d) /\ num'[d] = num[d]
        BY <1>1, <1>4, <2>2, <3>2
      <4> QED  BY <1>2, <1>5, <1>9, <4>1 DEF FirstRound
    <3> QED  BY <3>1, <3>2
  <2>3. FirstRound'
    BY <2>1, <2>2 DEF FirstRound
  <2> QED  BY <1>6, <1>8, <2>3 DEF Numbers
<1>10. CASE SecondRound
  <2>1. SecondRound'
    BY <1>1, <1>2, <1>4, <1>5, <1>10 DEF SecondRound
  <2> QED  BY <1>6, <1>8, <2>1 DEF Numbers
<1> QED  BY <1>9, <1>10 DEF Numbers

\* The counter is at its limit: that is in the first round only.
LEMMA NumberRefused ==
    ASSUME TypeOK, Numbers, NEW c \in Call, pc[c] \in {"idle", "wrap"},
           lastNum + 1 >= MaxCSeq, lastNum' = lastNum + 1, num' = num,
           awaits' = awaits, Here' = Here,
           \/ Goto(c, "wrap") /\ wrapLock' = wrapLock
           \/ Goto(c, "reset") /\ wrapLock = NoCall /\ wrapLock' = c
    PROVE  Numbers'
<1>1. /\ Unnumbered' = Unnumbered /\ c \in Unnumbered
      /\ \A d \in Call \ {c} : pc'[d] = pc[d]
      /\ pc'[c] = "wrap" \/ pc'[c] = "reset"
  BY DEF Goto, Unnumbered, TypeOK, CallTypes
<1>2. \A d \in Call : Uses(d)' => Uses(d)
  BY <1>1 DEF Uses, Unnumbered
<1>3. /\ lastNum \in Nat /\ MaxCSeq \in Nat /\ \A d \in Call : num[d] \in Nat
      /\ Cardinality(Unnumbered) \in Nat /\ Cardinality(Call) \in Nat
  BY BoundAssumption, UnnumberedFinite DEF TypeOK, CallTypes
<1>4. Cardinality(Unnumbered) >= 1
  BY <1>1, <1>3, UnnumberedFinite, FS_EmptySet
<1>5. FirstRound
  BY <1>3, <1>4 DEF Numbers, SecondRound
<1>6. FirstRound'
  BY <1>1, <1>2, <1>3, <1>5 DEF FirstRound
<1>7. Distinct'
  BY <1>2 DEF Numbers, Distinct
<1>8. WrapLocked'
  <2>1. \A d \in Call : pc'[d] = "reset" => lastNum' >= MaxCSeq
    BY <1>3
  <2>2. \A d \in Call : pc'[d] \in {"reset", "restart"} <=> wrapLock' = d
    BY <1>1, CallAssumption DEF Numbers, WrapLocked, Goto, TypeOK, CallTypes
  <2> QED  BY <2>1, <2>2 DEF WrapLocked
<1> QED  BY <1>6, <1>7, <1>8 DEF Numbers

\* Then the second round begins: the numbers in use are so few, and so high,
\* that all the others find one below.
LEMMA NumbersComeRound ==
    ASSUME TypeOK, Numbers, NEW c \in Call, pc[c] = "reset", lastNum' = 1, num' = num,
           Goto(c, "restart"), UNCHANGED <<wrapLock, awaits>>, Here' = Here
    PROVE  Numbers'
<1>1. /\ Unnumbered' = Unnumbered /\ c \in Unnumbered
      /\ \A d \in Call \ {c} : pc'[d] = pc[d]
      /\ pc'[c] = "restart"
  BY DEF Goto, Unnumbered, TypeOK, CallTypes
<1>2. \A d \in Call : Uses(d)' => Uses(d)
  BY <1>1 DEF Uses, Unnumbered
<1>3. /\ lastNum \in Nat /\ MaxCSeq \in Nat /\ \A d \in Call : num[d] \in Nat
      /\ Cardinality(Unnumbered) \in Nat /\ Cardinality(Call) \in Nat
      /\ Cardinality(Unnumbered) <= Cardinality(Call) /\ Cardinality(Call) + 1 < MaxCSeq
  BY BoundAssumption, UnnumberedFinite, FewCallsAssumption DEF TypeOK, CallTypes
<1>4. FirstRound /\ lastNum >= MaxCSeq
  BY DEF Numbers, SecondRound, WrapLocked
<1>5. \A d \in Call \ {c} : pc[d] \notin {"reset", "restart"}
  BY DEF Numbers, WrapLocked
<1>6. \A d \in Call : Uses(d) => num[d] > 1 + Cardinality(Unnumbered)
  BY <1>3, <1>4 DEF FirstRound
<1>7. SecondRound'
  BY <1>1, <1>2, <1>3, <1>5, <1>6 DEF SecondRound
<1>8. Distinct'
  BY <1>2 DEF Numbers, Distinct
<1>9. WrapLocked'
  BY <1>1, <1>5, <1>3 DEF Numbers, WrapLocked
<1> QED  BY <1>7, <1>8, <1>9 DEF Numbers

-----------------------------------------------------------------------------
(* What the connections carry gets less, except by AsyncSend(). *)

Less ==
    /\ Here' \subseteq Here /\ Carried' \subseteq Carried
    /\ \A i \in Conn : i > opened' => AtConn(i)' = {}

\* A step that moves messages along the present connection, or drops them.
LEMMA MovedAlong ==
    ASSUME TypeOK, Traces,
           ToSet(out') \cup ToSet(down') \subseteq Here,
           \A i \in Conn : AtConn(i)' \subseteq AtConn(i) \cup (IF i = conn THEN Here ELSE {}),
           \/ conn' = conn /\ opened' = opened
           \/ conn' = 0 /\ opened' = opened
           \/ conn' = opened + 1 /\ opened' = opened + 1
    PROVE  Less
<1>1. conn \in Nat /\ opened \in Nat /\ conn <= opened /\ Conn \subseteq Int
  BY BoundAssumption DEF TypeOK, ClientTypes, Conn
<1>2. \A i \in Conn : i = conn => AtConn(i) \subseteq Here
  BY DEF Here
<1>3. Here \subseteq Carried
  BY DEF Here, Carried
<1>4. ASSUME NEW i \in Conn, i = conn' PROVE AtConn(i)' \subseteq Here
  <2>1. i = conn \/ (i > opened /\ i # conn)
    BY <1>1, <1>4, BoundAssumption DEF Conn
  <2>2. CASE i = conn
    BY <1>2, <2>2
  <2>3. CASE i > opened /\ i # conn
    BY <2>3 DEF Traces
  <2> QED  BY <2>1, <2>2, <2>3
<1>5. Here' \subseteq Here
  BY <1>4 DEF Here
<1>6. \A i \in Conn : AtConn(i) \subseteq Carried
  BY DEF Carried
<1>7. \A i \in Conn : AtConn(i)' \subseteq Carried
  BY <1>3, <1>6
<1>8. Carried' \subseteq Carried
  BY <1>3, <1>7 DEF Carried
<1>9. ASSUME NEW i \in Conn, i > opened' PROVE AtConn(i)' = {}
  <2>1. i > opened /\ i # conn
    BY <1>1, <1>9
  <2> QED  BY <2>1 DEF Traces
<1> QED  BY <1>5, <1>8, <1>9 DEF Less

LEMMA NothingMoved ==
    ASSUME TypeOK, Traces, UNCHANGED <<out, down, up, sout, serving, conn, opened>>
    PROVE  Less /\ Here' = Here
<1>1. Here' = Here /\ Carried' = Carried /\ \A i \in Conn : AtConn(i)' = AtConn(i)
  BY DEF Here, Carried, AtConn
<1> QED  BY <1>1 DEF Less, Traces

LEMMA LoopMoves ==
    ASSUME TypeOK, Traces, ClientLoop
    PROVE  Less
<1> USE DEF loopVars, sockVars, serverVars, callVars
<1>1. /\ out \in Seq(Call) /\ down \in Seq(Call) /\ up \in [Conn -> Seq(Call)]
      /\ ToSet(out) \subseteq Here /\ ToSet(down) \subseteq Here
  BY DEF TypeOK, WireTypes, Here
<1>2. ASSUME UNCHANGED <<up, sout, serving>> PROVE \A i \in Conn : AtConn(i)' = AtConn(i)
  BY <1>2 DEF AtConn
<1>3. ASSUME DropSocket PROVE ToSet(out') \cup ToSet(down') \subseteq Here
  BY <1>3, ElementsOfEmpty DEF DropSocket
<1>4. ASSUME Disconnect, UNCHANGED <<up, serverVars>> PROVE Less
  BY <1>2, <1>3, <1>4, MovedAlong DEF Disconnect
<1>5. CASE Connect \/ PollExpires \/ OnConnected
  BY <1>5, NothingMoved DEF Connect, PollExpires, OnConnected
<1>6. CASE DisconnectCalled \/ ConnectFailed \/ ClientSendFails \/ ClientReadFails
  BY <1>4, <1>6 DEF DisconnectCalled, ConnectFailed, ClientSendFails, ClientReadFails
<1>7. CASE PollReconnects
  BY <1>2, <1>3, <1>7, MovedAlong DEF PollReconnects
<1>8. CASE ClientWakedUp
  <2> DEFINE n == IF Len(out) < SendBurst THEN Len(out) ELSE SendBurst
  <2>1. n \in 0..Len(out) /\ 1 \in 1..Len(out) + 1 /\ n + 1 \in 1..Len(out) + 1
    BY <1>1, BoundAssumption
  <2>2. /\ up' = [up EXCEPT ![conn] = @ \o SubSeq(out, 1, n)]
        /\ out' = SubSeq(out, n + 1, Len(out)) /\ down' = down
        /\ UNCHANGED <<sout, serving, conn, opened>>
    BY <1>8 DEF ClientWakedUp
  <2> HIDE DEF n
  <2>3. /\ ToSet(SubSeq(out, 1, n)) \subseteq ToSet(out) /\ SubSeq(out, 1, n) \in Seq(Call)
        /\ ToSet(out') \subseteq ToSet(out)
    <3>1. Len(out) \in 0..Len(out)
      BY <1>1
    <3>2. ToSet(SubSeq(out, n + 1, Len(out))) \subseteq ToSet(out)
      BY <1>1, <2>1, <3>1, ElementsOfPart
    <3>3. ToSet(SubSeq(out, 1, n)) \subseteq ToSet(out) /\ SubSeq(out, 1, n) \in Seq(Call)
      BY <1>1, <2>1, ElementsOfPart
    <3> QED  BY <2>2, <3>2, <3>3
  <2>4. ASSUME NEW i \in Conn
        PROVE  ToSet(up'[i]) \subseteq ToSet(up[i]) \cup (IF i = conn THEN Here ELSE {})
    <3>1. CASE i = conn
      <4>1. up'[i] = up[i] \o SubSeq(out, 1, n)
        BY <1>1, <2>2, <3>1
      <4>2. ToSet(up'[i]) = ToSet(up[i]) \cup ToSet(SubSeq(out, 1, n))
        <5>1. up[i] \in Seq(Call)
          BY <1>1
        <5>2. ToSet(up[i] \o SubSeq(out, 1, n)) = ToSet(up[i]) \cup ToSet(SubSeq(out, 1, n))
          BY <2>3, <5>1, ElementsOfConcat
        <5> QED  BY <4>1, <5>2
      <4> QED  BY <1>1, <2>3, <3>1, <4>2
    <3>2. CASE i # conn
      BY <1>1, <2>2, <3>2
    <3> QED  BY <3>1, <3>2
  <2>5. \A i \in Conn : AtConn(i)' \subseteq AtConn(i) \cup (IF i = conn THEN Here ELSE {})
    BY <2>2, <2>4 DEF AtConn
  <2>6. ToSet(out') \cup ToSet(down') \subseteq Here
    BY <1>1, <2>2, <2>3
  <2> QED  BY <2>2, <2>5, <2>6, MovedAlong
<1>9. CASE ClientWrote
  <2>1. CASE out = <<>>
    BY <1>9, <2>1, NothingMoved DEF ClientWrote
  <2>2. CASE out # <<>>
    <3>1. /\ up' = up \/ up' = [up EXCEPT ![conn] = Append(@, Head(out))]
          /\ out' = Tail(out) /\ down' = down
          /\ UNCHANGED <<sout, serving, conn, opened>>
      BY <1>9, <2>2 DEF ClientWrote
    <3>2. Head(out) \in Call /\ Head(out) \in ToSet(out) /\ ToSet(out') \subseteq ToSet(out)
      BY <1>1, <2>2, <3>1, ElementsOfTail
    <3>3. ASSUME NEW i \in Conn
          PROVE  ToSet(up'[i]) \subseteq ToSet(up[i]) \cup (IF i = conn THEN Here ELSE {})
      <4>1. CASE i = conn
        <5>1. up[i] \in Seq(Call) /\ (up'[i] = up[i] \/ up'[i] = Append(up[i], Head(out)))
          BY <1>1, <3>1, <4>1
        <5>2. ToSet(Append(up[i], Head(out))) = ToSet(up[i]) \cup {Head(out)}
          BY <3>2, <5>1, ElementsOfAppend
        <5>3. Head(out) \in Here
          BY <3>2 DEF Here
        <5> QED  BY <4>1, <5>1, <5>2, <5>3
      <4>2. CASE i # conn
        BY <1>1, <3>1, <4>2
      <4> QED  BY <4>1, <4>2
    <3>4. \A i \in Conn : AtConn(i)' \subseteq AtConn(i) \cup (IF i = conn THEN Here ELSE {})
      BY <3>1, <3>3 DEF AtConn
    <3>5. ToSet(out') \cup ToSet(down') \subseteq Here
      BY <1>1, <3>1, <3>2
    <3> QED  BY <3>1, <3>4, <3>5, MovedAlong
  <2> QED  BY <2>1, <2>2
<1>10. CASE ClientRead
  <2>1. PICK x \in Chunk(down, part) : down' = SubSeq(down, x[1] + 1, Len(down))
    BY <1>10 DEF ClientRead
  <2>2. ToSet(down') \subseteq ToSet(down)
    BY <1>1, <2>1, ChunkType DEF TypeOK, WireTypes
  <2>3. UNCHANGED <<out, up, sout, serving, conn, opened>>
    BY <1>10 DEF ClientRead
  <2> QED  BY <1>1, <1>2, <2>2, <2>3, MovedAlong
<1> QED  BY <1>5, <1>6, <1>7, <1>8, <1>9, <1>10 DEF ClientLoop, Poll

LEMMA ServiceMoves ==
    ASSUME TypeOK, Traces, Service
    PROVE  Less
<1> USE DEF loopVars, sockVars, serverVars, callVars
<1>1. /\ out \in Seq(Call) /\ down \in Seq(Call) /\ up \in [Conn -> Seq(Call)]
      /\ sout \in [Conn -> Seq(Call)] /\ serving \subseteq Conn \X Call
      /\ ToSet(out) \subseteq Here /\ ToSet(down) \subseteq Here
  BY DEF TypeOK, WireTypes, ServiceTypes, Here
<1>2. ASSUME UNCHANGED <<out, down, conn, opened>>, \A i \in Conn : AtConn(i)' \subseteq AtConn(i)
      PROVE  Less
  BY <1>1, <1>2, MovedAlong
<1>3. CASE StopServing
  BY <1>3, NothingMoved DEF StopServing
<1>4. CASE Crash
  <2>1. \A i \in Conn : AtConn(i)' = {}
    BY <1>4, ElementsOfEmpty DEF Crash, AtConn
  <2> QED  BY <1>2, <1>4, <2>1 DEF Crash
<1>5. ASSUME NEW i \in Conn, Accept(i) \/ ServerGetsError(i) PROVE Less
  BY <1>5, NothingMoved DEF Accept, ServerGetsError
<1>6. ASSUME NEW i \in Conn, ServerRead(i) PROVE Less
  <2>1. /\ up[i] \in Seq(Call) /\ up[i] # <<>> /\ UNCHANGED <<out, down, conn, opened, sout>>
        /\ up' = [up EXCEPT ![i] = Tail(@)] /\ serving' = serving \cup {<<i, Head(up[i])>>}
    BY <1>1, <1>6 DEF ServerRead
  <2>2. Head(up[i]) \in ToSet(up[i]) /\ ToSet(Tail(up[i])) \subseteq ToSet(up[i])
    BY <2>1, ElementsOfTail
  <2>3. ASSUME NEW j \in Conn PROVE AtConn(j)' \subseteq AtConn(j)
    <3>1. CASE j = i
      <4>1. ToSet(up'[i]) \subseteq ToSet(up[i])
        BY <1>1, <2>1, <2>2
      <4>2. \A c \in Call : <<i, c>> \in serving' => <<i, c>> \in serving \/ c \in ToSet(up[i])
        BY <2>1, <2>2
      <4> QED  BY <2>1, <3>1, <4>1, <4>2 DEF AtConn
    <3>2. CASE j # i
      BY <1>1, <2>1, <3>2 DEF AtConn
    <3> QED  BY <3>1, <3>2
  <2> QED  BY <1>2, <2>1, <2>3
<1>7. ASSUME NEW i \in Conn, NEW c \in Call, SendResp(i, c) PROVE Less
  <2>1. /\ UNCHANGED <<out, down, conn, opened, up>> /\ <<i, c>> \in serving
        /\ serving' = serving \ {<<i, c>>}
        /\ sout' = [sout EXCEPT ![i] = Append(@, c)] \/ sout' = sout
    BY <1>7 DEF SendResp
  <2>2. sout[i] \in Seq(Call) /\ ToSet(Append(sout[i], c)) = ToSet(sout[i]) \cup {c}
    BY <1>1, ElementsOfAppend
  <2>3. ASSUME NEW j \in Conn PROVE AtConn(j)' \subseteq AtConn(j)
    <3>1. ToSet(sout'[j]) \subseteq ToSet(sout[j]) \cup (IF j = i THEN {c} ELSE {})
      BY <1>1, <2>1, <2>2
    <3>2. j = i => c \in AtConn(j)
      BY <2>1 DEF AtConn
    <3> QED  BY <2>1, <3>1, <3>2 DEF AtConn
  <2> QED  BY <1>2, <2>1, <2>3
<1>8. ASSUME NEW i \in Conn, ServerWakedUp(i) PROVE Less
  <2> DEFINE n == IF Len(sout[i]) < SendBurst THEN Len(sout[i]) ELSE SendBurst
  <2>1. /\ sout[i] \in Seq(Call)
        /\ n \in 0..Len(sout[i]) /\ 1 \in 1..Len(sout[i]) + 1 /\ n + 1 \in 1..Len(sout[i]) + 1
    BY <1>1, BoundAssumption
  <2>2. /\ UNCHANGED <<out, conn, opened, up, serving>>
        /\ \/ /\ down' = IF i = conn THEN down \o SubSeq(sout[i], 1, n) ELSE down
              /\ sout' = [sout EXCEPT ![i] = SubSeq(@, n + 1, Len(@))]
           \/ down' = down /\ sout' = [sout EXCEPT ![i] = <<>>]
    BY <1>8 DEF ServerWakedUp
  <2> HIDE DEF n
  <2>3. /\ SubSeq(sout[i], 1, n) \in Seq(Call) /\ ToSet(SubSeq(sout[i], 1, n)) \subseteq ToSet(sout[i])
        /\ ToSet(SubSeq(sout[i], n + 1, Len(sout[i]))) \subseteq ToSet(sout[i])
    BY <2>1, ElementsOfPart
  <2>4. \A j \in Conn : ToSet(sout'[j]) \subseteq ToSet(sout[j])
    BY <1>1, <2>2, <2>3, ElementsOfEmpty
  <2>5. \A j \in Conn : AtConn(j)' \subseteq AtConn(j)
    BY <2>2, <2>4 DEF AtConn
  <2>6. ToSet(down') \subseteq Here
    <3>1. CASE i = conn /\ down' = down \o SubSeq(sout[i], 1, n)
      <4>1. ToSet(down') = ToSet(down) \cup ToSet(SubSeq(sout[i], 1, n))
        <5>1. ToSet(down \o SubSeq(sout[i], 1, n)) = ToSet(down) \cup ToSet(SubSeq(sout[i], 1, n))
          BY ZenonT(60), <1>1, <2>3, ElementsOfConcat
        <5> QED  BY <3>1, <5>1
      <4>2. ToSet(sout[i]) \subseteq Here
        BY <3>1 DEF Here, AtConn
      <4> QED  BY <1>1, <2>3, <4>1, <4>2
    <3>2. CASE down' = down
      BY <1>1, <3>2
    <3> QED  BY <2>2, <3>1, <3>2
  <2> QED  BY <1>1, <2>2, <2>5, <2>6, MovedAlong
<1> QED  BY <1>3, <1>4, <1>5, <1>6, <1>7, <1>8 DEF Service

-----------------------------------------------------------------------------
(* Each answer goes to its own request. *)

\* The inductive invariant.
OwnInv == TypeOK /\ IInv /\ Traces /\ Numbers /\ AnswerIsOwn

\* A step that neither numbers nor sends.
LEMMA OwnKept ==
    ASSUME TypeOK, Traces, Numbers, Less, UNCHANGED callVars, awaits' \subseteq awaits
    PROVE  Traces' /\ Numbers'
<1>1. /\ pc' = pc /\ num' = num /\ lastNum' = lastNum /\ wrapLock' = wrapLock
  BY DEF callVars
<1>2. Unnumbered' = Unnumbered
  BY <1>1 DEF Unnumbered
<1>3. \A c \in Call : Uses(c)' => Uses(c)
  BY <1>1, <1>2 DEF Uses, Less
<1>4. Numbers'
  BY <1>1, <1>2, <1>3, NumbersKept
<1>5. Traces'
  BY <1>1 DEF Traces, Less
<1> QED  BY <1>4, <1>5

\* While nothing moves, only a call that has not returned changes its place.
LEMMA TracesKept ==
    ASSUME TypeOK, Traces, Less, NEW c \in Call, pc[c] # "returned",
           \A d \in Call \ {c} : pc'[d] = pc[d]
    PROVE  Traces'
<1>1. Carried \subseteq Call
  <2>1. ToSet(out) \subseteq Call /\ ToSet(down) \subseteq Call
    BY ElementsOf DEF TypeOK, WireTypes
  <2>2. \A i \in Conn : AtConn(i) \subseteq Call
    BY ElementsOf DEF TypeOK, WireTypes, ServiceTypes, AtConn
  <2> QED  BY <2>1, <2>2 DEF Carried
<1>2. \A d \in Carried : d # c /\ pc'[d] = "returned"
  BY <1>1 DEF Traces
<1> QED  BY <1>2 DEF Traces, Less

LEMMA CallsAreOwn ==
    ASSUME TypeOK, Traces, Numbers, NEW c \in Call, SendRequest(c)
    PROVE  Traces' /\ Numbers'
<1> USE DEF loopVars, sockVars, serverVars
<1>1. lastNum \in Nat /\ MaxCSeq \in Nat /\ pc \in [Call -> CallPc]
  BY BoundAssumption DEF TypeOK, CallTypes
<1>2. ASSUME UNCHANGED <<out, down, up, sout, serving, conn, opened>>,
             NEW label, Goto(c, label), pc[c] # "returned"
      PROVE  Traces' /\ Here' = Here
  <2>1. \A d \in Call \ {c} : pc'[d] = pc[d]
    BY <1>1, <1>2 DEF Goto
  <2> QED  BY <1>2, <2>1, NothingMoved, TracesKept
<1>3. ASSUME UNCHANGED <<lastNum, num, wrapLock>>, NEW label \in {"check", "send", "error", "erase", "returned"},
             Goto(c, label), pc[c] \in {"insert", "check", "send", "error", "erase"},
             awaits' \subseteq awaits \cup {c}, Here' \subseteq Here \cup {c}
      PROVE  Numbers'
  <2>1. Unnumbered' = Unnumbered
    BY <1>1, <1>3 DEF Goto, Unnumbered
  <2>2. Uses(c) /\ \A d \in Call \ {c} : Uses(d)' => Uses(d)
    BY <1>1, <1>3, <2>1 DEF Goto, Uses, Unnumbered
  <2>3. \A d \in Call : pc'[d] = pc[d] \/ {pc[d], pc'[d]} \cap {"reset", "restart"} = {}
    BY <1>1, <1>3 DEF Goto
  <2>4. \A d \in Call : Uses(d)' => Uses(d)
    BY <2>2
  <2> QED  BY <1>3, <2>1, <2>3, <2>4, NumbersKept
<1>4. CASE Number(c)
  <2>1. /\ pc[c] = "idle" /\ lastNum' = lastNum + 1
        /\ UNCHANGED <<out, down, up, sout, serving, conn, opened, awaits, wrapLock>>
        /\ \/ lastNum + 1 < MaxCSeq /\ TakeNumber(c, lastNum + 1)
           \/ ~(lastNum + 1 < MaxCSeq) /\ Goto(c, "wrap") /\ num' = num
    BY <1>4 DEF Number
  <2>2. Traces' /\ Here' = Here
    BY <1>2, <2>1 DEF TakeNumber
  <2>3. c \in Unnumbered
    BY <2>1 DEF Unnumbered
  <2>4. CASE lastNum + 1 < MaxCSeq /\ TakeNumber(c, lastNum + 1)
    BY <2>1, <2>2, <2>3, <2>4, NumberGiven
  <2>5. CASE ~(lastNum + 1 < MaxCSeq) /\ Goto(c, "wrap") /\ num' = num
    <3>1. lastNum + 1 >= MaxCSeq
      BY <1>1, <2>5
    <3> QED  BY <2>1, <2>2, <2>5, <3>1, NumberRefused
  <2> QED  BY <2>1, <2>2, <2>4, <2>5
<1>5. CASE NumberLocked(c)
  <2>1. /\ pc[c] = "wrap" /\ lastNum' = lastNum + 1 /\ wrapLock = NoCall
        /\ UNCHANGED <<out, down, up, sout, serving, conn, opened, awaits>>
        /\ \/ lastNum + 1 < MaxCSeq /\ TakeNumber(c, lastNum + 1) /\ wrapLock' = wrapLock
           \/ ~(lastNum + 1 < MaxCSeq) /\ Goto(c, "reset") /\ wrapLock' = c /\ num' = num
    BY <1>5 DEF NumberLocked
  <2>2. Traces' /\ Here' = Here
    BY <1>2, <2>1 DEF TakeNumber
  <2>3. c \in Unnumbered
    BY <2>1 DEF Unnumbered
  <2>4. CASE lastNum + 1 < MaxCSeq /\ TakeNumber(c, lastNum + 1) /\ wrapLock' = wrapLock
    BY <2>1, <2>2, <2>3, <2>4, NumberGiven
  <2>5. CASE ~(lastNum + 1 < MaxCSeq) /\ Goto(c, "reset") /\ wrapLock' = c /\ num' = num
    <3>1. lastNum + 1 >= MaxCSeq
      BY <1>1, <2>5
    <3> QED  BY <2>1, <2>2, <2>5, <3>1, NumberRefused
  <2> QED  BY <2>1, <2>2, <2>4, <2>5
<1>6. CASE ResetNumber(c)
  <2>1. /\ pc[c] = "reset" /\ lastNum' = 1 /\ num' = num /\ Goto(c, "restart")
        /\ UNCHANGED <<out, down, up, sout, serving, conn, opened, awaits, wrapLock>>
    BY <1>6 DEF ResetNumber
  <2>2. Traces' /\ Here' = Here
    BY <1>2, <2>1
  <2> QED  BY <2>1, <2>2, NumbersComeRound
<1>7. CASE NumberRestarted(c)
  <2>1. /\ pc[c] = "restart" /\ lastNum' = lastNum + 1 /\ TakeNumber(c, lastNum + 1)
        /\ UNCHANGED <<out, down, up, sout, serving, conn, opened, awaits>>
        /\ wrapLock' = NoCall
    BY <1>7 DEF NumberRestarted
  <2>2. Traces' /\ Here' = Here
    BY <1>2, <2>1 DEF TakeNumber
  <2>3. c \in Unnumbered
    BY <2>1 DEF Unnumbered
  <2>4. SecondRound
    BY <2>1 DEF Numbers, FirstRound
  <2>5. Cardinality(Unnumbered) \in Nat /\ Cardinality(Unnumbered) # 0
    BY <2>3, UnnumberedFinite, FS_EmptySet
  <2>6. lastNum + 1 < MaxCSeq
    BY <1>1, <2>4, <2>5 DEF SecondRound
  <2> QED  BY <2>1, <2>2, <2>3, <2>6, NumberGiven
<1>8. CASE Insert(c)
  <2>1. /\ pc[c] = "insert" /\ Goto(c, "check") /\ awaits' \subseteq awaits \cup {c}
        /\ UNCHANGED <<out, down, up, sout, serving, conn, opened, lastNum, num, wrapLock>>
    BY <1>8 DEF Insert
  <2>2. Traces' /\ Here' = Here
    BY <1>2, <2>1
  <2> QED  BY <1>3, <2>1, <2>2
<1>9. CASE CheckConn(c)
  <2>1. /\ pc[c] = "check" /\ (Goto(c, "returned") \/ Goto(c, "send"))
        /\ UNCHANGED <<out, down, up, sout, serving, conn, opened, lastNum, num, wrapLock, awaits>>
    BY <1>9 DEF CheckConn
  <2>2. Traces' /\ Here' = Here
    BY <1>2, <2>1
  <2> QED  BY <1>3, <2>1, <2>2
<1>10. CASE AsyncSend(c)
  <2>1. /\ pc[c] = "send" /\ (Goto(c, "returned") \/ Goto(c, "error"))
        /\ UNCHANGED <<down, up, sout, serving, conn, opened, lastNum, num, wrapLock, awaits>>
        /\ out' = out \/ (out' = Append(out, c) /\ Goto(c, "returned"))
    BY <1>10 DEF AsyncSend
  <2>2. CASE out' = out
    <3>1. Traces' /\ Here' = Here
      BY <1>2, <2>1, <2>2
    <3> QED  BY <1>3, <2>1, <3>1
  <2>3. CASE out' = Append(out, c) /\ Goto(c, "returned")
    <3>1. ToSet(out') = ToSet(out) \cup {c}
      BY <2>3, ElementsOfAppend DEF TypeOK, WireTypes
    <3>2. \A i \in Conn : AtConn(i)' = AtConn(i)
      BY <2>1 DEF AtConn
    <3>3. Here' = Here \cup {c} /\ Carried' = Carried \cup {c}
      BY <2>1, <3>1, <3>2 DEF Here, Carried
    <3>4. pc'[c] = "returned" /\ \A d : pc[d] = "returned" => pc'[d] = "returned"
      BY <1>1, <2>3 DEF Goto
    <3>5. Traces'
      BY <2>1, <3>2, <3>3, <3>4 DEF Traces
    <3> QED  BY <1>3, <2>1, <2>3, <3>3, <3>5
  <2> QED  BY <2>1, <2>2, <2>3
<1>11. CASE SendFailed(c)
  <2>1. /\ pc[c] = "error" /\ Goto(c, "erase")
        /\ UNCHANGED <<out, down, up, sout, serving, conn, opened, lastNum, num, wrapLock, awaits>>
    BY <1>11 DEF SendFailed
  <2>2. Traces' /\ Here' = Here
    BY <1>2, <2>1
  <2> QED  BY <1>3, <2>1, <2>2
<1>12. CASE EraseFailed(c)
  <2>1. /\ pc[c] = "erase" /\ Goto(c, "returned") /\ awaits' \subseteq awaits
        /\ UNCHANGED <<out, down, up, sout, serving, conn, opened, lastNum, num, wrapLock>>
    BY <1>12 DEF EraseFailed
  <2>2. Traces' /\ Here' = Here
    BY <1>2, <2>1
  <2> QED  BY <1>3, <2>1, <2>2
<1> QED  BY <1>4, <1>5, <1>6, <1>7, <1>8, <1>9, <1>10, <1>11, <1>12 DEF SendRequest

\* When no call is under way the numbers begin again anywhere.
LEMMA OthersAreOwn ==
    ASSUME TypeOK, Traces, Numbers, OthersCall
    PROVE  Traces' /\ Numbers'
<1> USE DEF loopVars, sockVars, serverVars
<1>1. /\ UNCHANGED <<pc, num, wrapLock, awaits, out, down, up, sout, serving, conn, opened>>
      /\ \A c \in Call : ~Busy(c)
  BY DEF OthersCall
<1>2. Less /\ Here' = Here
  BY <1>1, NothingMoved
<1>3. Traces'
  BY <1>1, <1>2 DEF Traces, Less
<1>4. \A c \in Call : pc[c] \in {"idle", "wrap", "returned"}
  BY <1>1 DEF Busy, TypeOK, CallTypes
<1>5. ASSUME NEW c \in Call PROVE ~Uses(c)
  <2>1. c \notin awaits \cup ToSet(out) \cup ToSet(down) /\ <<conn, c>> \notin serving
    BY <1>1 DEF Busy
  <2>2. \A i \in Conn : i = conn => c \notin ToSet(up[i]) \cup ToSet(sout[i])
    BY <1>1 DEF Busy
  <2>3. c \notin Here
    BY <2>1, <2>2 DEF Here, AtConn
  <2> QED  BY <1>4, <2>1, <2>3 DEF Uses, Unnumbered
<1>6. \A c \in Call : ~Uses(c)'
  <2>1. Unnumbered' = Unnumbered
    BY <1>1 DEF Unnumbered
  <2> QED  BY <1>1, <1>2, <1>5, <2>1 DEF Uses
<1>7. Distinct' /\ FirstRound'
  BY <1>1, <1>4, <1>6 DEF Distinct, FirstRound
<1>8. WrapLocked'
  BY <1>1, <1>4 DEF Numbers, WrapLocked
<1> QED  BY <1>3, <1>7, <1>8 DEF Numbers

\* What is read from the wire answers the request that is awaited under its
\* number, and that was not reported before.
LEMMA ReadIsOwn ==
    ASSUME OwnInv, ClientRead
    PROVE  AnswerIsOwn'
<1>1. PICK x \in Chunk(down, part) :
        answers' = answers \cup
          {[to |-> d, of |-> AnswerOf(SubSeq(down, 1, x[1]), d), late |-> done[d] > 0] :
              d \in Answered(SubSeq(down, 1, x[1]))}
  BY DEF ClientRead
<1> DEFINE msgs == SubSeq(down, 1, x[1])
           hit == Answered(msgs)
<1>2. msgs \in Seq(Call) /\ ToSet(msgs) \subseteq ToSet(down) /\ ToSet(down) \subseteq Call
  BY ChunkType, ElementsOf DEF OwnInv, TypeOK, WireTypes
<1> HIDE DEF msgs
<1>3. ASSUME NEW d \in hit PROVE AnswerOf(msgs, d) = d /\ ~(done[d] > 0)
  <2> DEFINE a == AnswerOf(msgs, d)
  <2>1. d \in awaits /\ a \in ToSet(down) /\ num[a] = num[d]
    BY <1>2, <1>3, AnswerFound DEF OwnInv
  <2> HIDE DEF a
  <2>2. a \in Call /\ a \in Here /\ a \in Carried /\ d \in Call
    BY <1>2, <2>1 DEF Here, Carried, OwnInv, TypeOK, ClientTypes
  <2>3. pc[a] = "returned" /\ pc[d] \notin Early /\ done[d] = 0
    BY <2>1, <2>2 DEF OwnInv, Traces, IInv, Unreported
  <2>4. Uses(a) /\ Uses(d)
    BY <2>1, <2>2, <2>3 DEF Uses, Unnumbered, Early
  <2>5. a = d
    BY <2>1, <2>2, <2>4 DEF OwnInv, Numbers, Distinct
  <2> QED  BY <2>3, <2>5 DEF a
<1> DEFINE R(d) == [to |-> d, of |-> AnswerOf(msgs, d), late |-> done[d] > 0]
<1>4. \A d \in hit : R(d).to = R(d).of /\ ~R(d).late
  BY <1>3
<1> HIDE DEF R, hit
<1>5. answers' = answers \cup {R(d) : d \in hit}
  BY <1>1 DEF R, hit, msgs
<1>6. \A a \in answers : a.to = a.of /\ ~a.late
  BY DEF OwnInv, AnswerIsOwn
<1> QED  BY <1>4, <1>5, <1>6 DEF AnswerIsOwn

LEMMA InitOwnInv == ASSUME Init PROVE OwnInv
<1>1. TypeOK /\ IInv
  BY InitTypeOK, InitIInv
<1>2. Here = {} /\ Carried = {} /\ \A i \in Conn : AtConn(i) = {}
  BY ElementsOfEmpty DEF Init, Here, Carried, AtConn
<1>3. Traces
  BY <1>2 DEF Traces
<1>4. \A c \in Call : pc[c] = "idle" /\ ~Uses(c)
  BY DEF Init, Uses, Unnumbered
<1>5. Numbers
  BY <1>4, CallAssumption DEF Init, Numbers, Distinct, FirstRound, WrapLocked
<1>6. AnswerIsOwn
  BY DEF Init, AnswerIsOwn
<1> QED  BY <1>1, <1>3, <1>5, <1>6 DEF OwnInv

LEMMA StepOwnInv == ASSUME OwnInv, [Next]_vars PROVE OwnInv'
<1>1. TypeOK' /\ IInv'
  BY TypePreserved, StepIInv DEF OwnInv
<1>2. TypeOK /\ Traces /\ Numbers /\ AnswerIsOwn
  BY DEF OwnInv
<1>3. ASSUME answers' = answers PROVE AnswerIsOwn'
  BY <1>2, <1>3 DEF AnswerIsOwn
<1>4. CASE \E c \in Call : SendRequest(c)
  <2>1. answers' = answers
    BY <1>4 DEF SendRequest, Number, NumberLocked, ResetNumber, NumberRestarted, Insert,
       CheckConn, AsyncSend, SendFailed, EraseFailed
  <2> QED  BY <1>1, <1>2, <1>3, <1>4, <2>1, CallsAreOwn DEF OwnInv
<1>5. CASE OthersCall
  <2>1. answers' = answers
    BY <1>5 DEF OthersCall
  <2> QED  BY <1>1, <1>2, <1>3, <1>5, <2>1, OthersAreOwn DEF OwnInv
<1>6. CASE ClientLoop
  <2>1. UNCHANGED callVars /\ awaits' \subseteq awaits
    <3>1. awaits \subseteq Call
      BY <1>2 DEF TypeOK, ClientTypes
    <3> QED  BY <1>6, <3>1 DEF ClientLoop, Poll, Connect, DisconnectCalled, Disconnect, PollExpires,
         PollReconnects, OnConnectionClosed, OnConnected, ConnectFailed, ClientWakedUp,
         ClientSendFails, ClientWrote, ClientRead, ClientReadFails
  <2>2. Traces' /\ Numbers'
    BY <1>2, <1>6, <2>1, LoopMoves, OwnKept
  <2>3. AnswerIsOwn'
    <3>1. CASE ClientRead
      BY <3>1, ReadIsOwn
    <3>2. CASE ~ClientRead
      <4>1. answers' = answers
        BY <1>6, <3>2 DEF ClientLoop, Poll, Connect, DisconnectCalled, Disconnect, PollExpires,
         PollReconnects, OnConnected, ConnectFailed, ClientWakedUp,
         ClientSendFails, ClientWrote, ClientReadFails
      <4> QED  BY <1>3, <4>1
    <3> QED  BY <3>1, <3>2
  <2> QED  BY <1>1, <2>2, <2>3 DEF OwnInv
<1>7. CASE Service
  <2>1. UNCHANGED callVars /\ awaits' = awaits /\ answers' = answers
    BY <1>7 DEF Service, Accept, ServerRead, ServerWakedUp, ServerGetsError, SendResp,
       StopServing, Crash
  <2> QED  BY <1>1, <1>2, <1>3, <1>7, <2>1, ServiceMoves, OwnKept DEF OwnInv
<1>8. CASE (\E c \in Call : Expire(c)) \/ UNCHANGED vars
  <2>1. UNCHANGED <<out, down, up, sout, serving, conn, opened, awaits, answers>> /\ UNCHANGED callVars
    BY <1>8 DEF Expire, vars, loopVars, sockVars, serverVars
  <2> QED  BY <1>1, <1>2, <1>3, <2>1, NothingMoved, OwnKept DEF OwnInv
<1> QED  BY <1>4, <1>5, <1>6, <1>7, <1>8 DEF Next

\* OnResponse() gets an answer only for the request it answers, and only while
\* that was not reported otherwise: over lost connections, restarts of the
\* service and the numbers' coming round in lastCSeq(), as long as fewer calls
\* are under way at a time than there are numbers.
THEOREM AnswersAreOwn == Spec => []AnswerIsOwn
<1>1. OwnInv => AnswerIsOwn
  BY DEF OwnInv
<1> QED  BY <1>1, InitOwnInv, StepOwnInv, PTL DEF Spec

\* map::insert() in sendRequest() always adds the entry: no request that is
\* awaited has the number of one about to be inserted, nor have two awaited
\* ones, although the numbers come round.
THEOREM InsertAdds ==
    Spec => [](\A c \in Call, d \in awaits :
                  (pc[c] = "insert" \/ c \in awaits) /\ num[c] = num[d] => c = d)
<1> DEFINE Adds == \A c \in Call, d \in awaits :
                      (pc[c] = "insert" \/ c \in awaits) /\ num[c] = num[d] => c = d
<1>1. ASSUME OwnInv PROVE Adds
  <2> SUFFICES ASSUME NEW c \in Call, NEW d \in awaits, pc[c] = "insert" \/ c \in awaits,
                      num[c] = num[d]
               PROVE  c = d
    OBVIOUS
  <2>1. \A e \in awaits : e \in Call /\ Uses(e)
    BY <1>1 DEF OwnInv, IInv, Unreported, Uses, Unnumbered, Early
  <2>2. Uses(c) /\ Uses(d) /\ d \in Call
    BY <2>1 DEF Uses, Unnumbered
  <2> QED  BY <1>1, <2>2 DEF OwnInv, Numbers, Distinct
<1> QED  BY <1>1, InitOwnInv, StepOwnInv, PTL DEF Spec

-----------------------------------------------------------------------------
(* What is queued is driven on. *)

\* A connection that goes takes what it had queued with it.
LEMMA DroppedIsEmpty == Disconnect \/ PollReconnects => OutgoingIsDriven'
BY DEF Disconnect, PollReconnects, DropSocket, OutgoingIsDriven

LEMMA StepDriven ==
    ASSUME TypeOK, OutgoingIsDriven, [Next]_vars
    PROVE  OutgoingIsDriven'
<1>1. ASSUME UNCHANGED <<out, wake, writes, stalled>> PROVE OutgoingIsDriven'
  BY <1>1 DEF OutgoingIsDriven
<1>2. out \in Seq(Call) /\ writes \in Nat
  BY DEF TypeOK, WireTypes
<1>3. ASSUME NEW c \in Call, SendRequest(c) \/ Expire(c) PROVE OutgoingIsDriven'
  <2>1. CASE AsyncSend(c)
    BY <1>1, <2>1 DEF AsyncSend, OutgoingIsDriven
  <2>2. CASE ~AsyncSend(c)
    BY <1>1, <1>3, <2>2 DEF SendRequest, Expire, sockVars, Number, NumberLocked, ResetNumber,
       NumberRestarted, Insert, CheckConn, SendFailed, EraseFailed
  <2> QED  BY <2>1, <2>2
<1>4. CASE ClientLoop
  <2>1. CASE ClientWakedUp
    <3>1. PICK n : n = IF Len(out) < SendBurst THEN Len(out) ELSE SendBurst
      OBVIOUS
    <3>2. out' = SubSeq(out, n + 1, Len(out)) /\ writes' = writes + n
      BY <2>1, <3>1 DEF ClientWakedUp
    <3>3. CASE out = <<>>
      <4>1. out' = <<>>
        BY <1>2, <3>1, <3>2, <3>3, BoundAssumption
      <4> QED  BY <4>1 DEF OutgoingIsDriven
    <3>4. CASE out # <<>>
      <4>1. n > 0
        BY <1>2, <3>1, <3>4, BoundAssumption
      <4> QED  BY <1>2, <3>1, <3>2, <4>1, BoundAssumption DEF OutgoingIsDriven
    <3> QED  BY <3>3, <3>4
  <2>2. CASE ClientWrote
    <3>1. /\ writes > 0
          /\ \/ out' = <<>>
             \/ writes' = writes
             \/ writes' = writes - 1 /\ stalled' = (writes = 1)
      BY <2>2, Zenon DEF ClientWrote
    <3>2. writes' = writes => writes' > 0
      BY <3>1
    <3>3. writes' = writes - 1 => writes' > 0 \/ writes = 1
      BY <1>2, <3>1
    <3> QED  BY <3>1, <3>2, <3>3, Zenon DEF OutgoingIsDriven
  <2>3. CASE DisconnectCalled \/ PollReconnects \/ ConnectFailed \/ ClientSendFails \/ ClientReadFails
    BY <2>3, DroppedIsEmpty DEF DisconnectCalled, ConnectFailed, ClientSendFails, ClientReadFails
  <2>4. CASE Connect \/ PollExpires \/ OnConnected \/ ClientRead
    BY <1>1, <2>4 DEF Connect, PollExpires, OnConnected, ClientRead, sockVars
  <2> QED  BY <1>4, <2>1, <2>2, <2>3, <2>4 DEF ClientLoop, Poll
<1>5. CASE Service \/ OthersCall
  BY <1>1, <1>5 DEF Service, Accept, ServerRead, ServerWakedUp, ServerGetsError, SendResp,
     StopServing, Crash, OthersCall, sockVars
<1>6. CASE UNCHANGED vars
  BY <1>1, <1>6 DEF vars, sockVars
<1> QED  BY <1>3, <1>4, <1>5, <1>6 DEF Next

\* Messages in the socket's queue, however many and however small a burst
\* OnWakedUp() sends, always have a wakeup or an OnWrote() to come that takes
\* them; the one exception is a send that failed in OnWrote() as the last one
\* under way, whose result the code does not look at.
THEOREM QueuedIsDriven == Spec => []OutgoingIsDriven
<1>1. Init => OutgoingIsDriven
  BY DEF Init, OutgoingIsDriven
<1>2. OutgoingIsDriven /\ TypeOK /\ [Next]_vars => OutgoingIsDriven'
  BY StepDriven
<1> QED  BY <1>1, <1>2, InitTypeOK, TypePreserved, PTL DEF Spec
=============================================================================
