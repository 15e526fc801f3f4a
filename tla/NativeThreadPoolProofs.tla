------------------------ MODULE NativeThreadPoolProofs ------------------------
(* Theorems about NativeThreadPool, for any slaves, requests, priorities and  *)
(* arguments of resize(). Those about requests and their queue hold of any    *)
(* callers, those about threads of callers who are Careful.                   *)
EXTENDS NativeThreadPool, FiniteSetTheorems, SequenceTheorems, TLAPS

\* A slave past Fetched has a request in hand until it leaves it.
HasRequest == \A t \in Slave : pc[t] \in InRequest => pReq[t] \in Request

\* From clearRequests() on, a stopping pool has an empty queue.
StoppedIsEmpty ==
    /\ stopPc # "none" => ~running
    /\ stopPc \in {"quit", "join", "done"} => requests = <<>>

\* Until stop() quits the slaves, one that was told to quit is on its way out:
\* it has run its StopRequest and will not sleep or dequeue again.
QuitLeaves ==
    stopPc \notin {"join", "done"} =>
        \A t \in Slave : bQuit[t] => pc[t] \notin {"wait", "dequeue"}

\* The inductive invariant: NoLostWakeup needs to know that a slave which takes a
\* count of the semaphore goes on to look at the queue, or that the queue is
\* empty for good.
IInv == TypeOK /\ HasRequest /\ StoppedIsEmpty /\ QuitLeaves /\ NoLostWakeup

-----------------------------------------------------------------------------
\* SequencesExt!InsertAt of an element of S into a sequence over S is one.
LEMMA InsertAtType ==
    ASSUME NEW S, NEW s \in Seq(S), NEW r \in S, NEW k \in 0..Len(s)
    PROVE  InsertAt(s, k + 1, r) \in Seq(S)
BY DEF InsertAt

\* HighPerfPriority_Queue::push() leaves a queue of requests.
LEMMA PushType ==
    ASSUME NEW r \in Request, requests \in Seq(Request), Push(r)
    PROVE  requests' \in Seq(Request)
<1>1. PICK k \in 0..Len(requests) : requests' = InsertAt(requests, k + 1, r)
  BY DEF Push
<1>2. QED  BY <1>1, InsertAtType

\* _SThrPool.size() is a number: there are finitely many slaves.
LEMMA PoolSizeType ==
    ASSUME TypeOK
    PROVE  Cardinality(sthrPool) \in Nat
<1>1. IsFiniteSet(sthrPool)
  BY FS_Subset, PoolAssumption DEF TypeOK
<1>2. QED  BY <1>1, FS_CardinalityType

\* What is in the queue are requests.
LEMMA ToSetType ==
    ASSUME requests \in Seq(Request)
    PROVE  ToSet(requests) \subseteq Request
BY DEF ToSet

\* Every step of the pool and of its callers keeps the types; a slave that
\* finishes a request needs HasRequest for it.
LEMMA TypePreserved ==
    ASSUME IInv, [Next]_vars
    PROVE  TypeOK'
<1> USE DEF IInv, TypeOK, Goto, SlavePc, Delete, ClearRequests,
        vars, queueVars, slaveVars, reqVars, stopVars, resizeVars, poolVars
<1>1. ASSUME NEW r \in Request, UserStart(r) PROVE TypeOK'
  BY <1>1 DEF UserStart, EnterPush
<1>2. ASSUME NEW r \in Request, AdmitPush(r) PROVE TypeOK'
  BY <1>2, PushType DEF AdmitPush
<1>3. ASSUME NEW r \in Request, PostPush(r) PROVE TypeOK'
  BY <1>3 DEF PostPush
<1>4. ASSUME NEW t \in Slave, StartThread(t) PROVE TypeOK'
  BY <1>4 DEF StartThread
<1>5. ASSUME NEW t \in Slave, CheckQueue(t) PROVE TypeOK'
  BY <1>5 DEF CheckQueue
<1>6. ASSUME NEW t \in Slave, ExitThread(t) PROVE TypeOK'
  <2>1. CASE pReq[t] = NoReq
    BY <1>6, <2>1 DEF ExitThread
  <2>2. CASE pReq[t] # NoReq
    <3>1. pReq[t] \in Request
      BY <2>2
    <3>2. /\ status' = [status EXCEPT ![pReq[t]] = "stDisabled"]
          /\ finals' = [finals EXCEPT ![pReq[t]] = finals[pReq[t]] + 1]
          /\ cancelled' = cancelled \cup {pReq[t]}
      BY <1>6, <2>2 DEF ExitThread
    <3>3. finals' \in [Request -> Nat] /\ cancelled' \subseteq Request
      BY <3>1, <3>2
    <3>4. pc' \in [Slave -> SlavePc] /\ pReq' \in [Slave -> Request \cup {NoReq}]
      BY <1>6 DEF ExitThread
    <3> QED  BY <1>6, <2>2, <3>2, <3>3, <3>4 DEF ExitThread
  <2> QED  BY <2>1, <2>2
<1>7. ASSUME NEW t \in Slave, Wait(t) PROVE TypeOK'
  BY <1>7 DEF Wait
<1>8. ASSUME NEW t \in Slave, Dequeue(t) PROVE TypeOK'
  <2>1. CASE requests = <<>>
    BY <1>8, <2>1 DEF Dequeue, Reposted
  <2>2. CASE requests # <<>>
    <3>1. Head(requests) \in Request /\ Tail(requests) \in Seq(Request)
      BY <2>2
    <3>2. /\ pReq' = [pReq EXCEPT ![t] = Head(requests)]
          /\ requests' = Tail(requests)
          /\ pc' = [pc EXCEPT ![t] = "fetched"]
      BY <1>8, <2>2 DEF Dequeue
    <3>3. sem' \in Nat
      BY <1>8 DEF Dequeue, Reposted
    <3> QED  BY <1>8, <3>1, <3>2, <3>3 DEF Dequeue
  <2> QED  BY <2>1, <2>2
<1>9. ASSUME NEW t \in Slave, Fetched(t) PROVE TypeOK'
  <2>1. CASE pReq[t] = NoReq \/ bQuit[t]
    BY <1>9, <2>1 DEF Fetched
  <2>2. CASE ~(pReq[t] = NoReq \/ bQuit[t])
    <3>1. pc' = [pc EXCEPT ![t] = "init"] /\ activeCount' = activeCount + 1
      BY <1>9, <2>2 DEF Fetched
    <3> QED  BY <1>9, <3>1 DEF Fetched
  <2> QED  BY <2>1, <2>2
<1>10. ASSUME NEW t \in Slave, InitRequest(t) PROVE TypeOK'
  <2>1. CASE pc'[t] = "run"
    <3>1. pReq[t] \in Request
      BY <1>10 DEF InitRequest, HasRequest, InRequest
    <3>2. /\ pc' = [pc EXCEPT ![t] = "run"]
          /\ status' = [status EXCEPT ![pReq[t]] = "stRunning"]
          /\ ran' = ran \cup {pReq[t]}
      BY <1>10, <2>1 DEF InitRequest
    <3> QED  BY <1>10, <3>1, <3>2 DEF InitRequest
  <2>2. CASE pc'[t] # "run"
    BY <1>10, <2>2 DEF InitRequest
  <2> QED  BY <2>1, <2>2
<1>11. ASSUME NEW t \in Slave, RunUser(t) PROVE TypeOK'
  BY <1>11 DEF RunUser
<1>12. ASSUME NEW t \in Slave, RunStop(t) PROVE TypeOK'
  BY <1>12 DEF RunStop, EnterPush
<1>13. ASSUME NEW t \in Slave, PushedClean(t) PROVE TypeOK'
  BY <1>13 DEF PushedClean
<1>14. ASSUME NEW t \in Slave, RunClean(t) PROVE TypeOK'
  BY <1>14 DEF RunClean
<1>15. ASSUME NEW t \in Slave, EraseSlave(t) PROVE TypeOK'
  BY <1>15 DEF EraseSlave
<1>16. ASSUME NEW t \in Slave, FinishRequest(t) PROVE TypeOK'
  BY <1>16 DEF FinishRequest, HasRequest, InRequest
<1>17. ASSUME NEW t \in Slave, LeaveRequest(t) PROVE TypeOK'
  BY <1>17 DEF LeaveRequest
<1>18. ASSUME NEW t \in Slave, JoinSlave(t) PROVE TypeOK'
  BY <1>18 DEF JoinSlave
<1>19. ASSUME NEW m \in ResizeArgs, BeginResize(m) PROVE TypeOK'
  BY <1>19, PoolAssumption DEF BeginResize, Clamp
<1>20. ASSUME CallClear PROVE TypeOK'
  BY <1>20, ToSetType DEF CallClear
<1>21. ASSUME BeginStop PROVE TypeOK'
  BY <1>21 DEF BeginStop
<1>22. ASSUME StopClear PROVE TypeOK'
  BY <1>22, ToSetType DEF StopClear
<1>23. ASSUME QuitSlaves PROVE TypeOK'
  BY <1>23, PoolSizeType DEF QuitSlaves
<1>24. ASSUME StopReturns PROVE TypeOK'
  BY <1>24 DEF StopReturns
<1>25. ASSUME GrowNew PROVE TypeOK'
  BY <1>25 DEF GrowNew
<1>26. ASSUME GrowAdmit PROVE TypeOK'
  BY <1>26 DEF GrowAdmit
<1>27. ASSUME GrowRefused PROVE TypeOK'
  BY <1>27 DEF GrowRefused
<1>28. ASSUME GrowDelete PROVE TypeOK'
  BY <1>28 DEF GrowDelete
<1>29. ASSUME GrowEnd PROVE TypeOK'
  BY <1>29, PoolSizeType DEF GrowEnd
<1>30. ASSUME ShrinkOne PROVE TypeOK'
  <2>1. PICK p \in StopReq : EnterPush(p) /\ rzReq' = p
    BY <1>30 DEF ShrinkOne
  <2>2. p \in Request
    BY DEF Request
  <2>3. QED  BY <1>30, <2>1, <2>2 DEF ShrinkOne, EnterPush
<1>31. ASSUME ShrinkNext PROVE TypeOK'
  BY <1>31 DEF ShrinkNext
<1>32. ASSUME ResizeReturns PROVE TypeOK'
  BY <1>32 DEF ResizeReturns
<1>33. CASE UNCHANGED vars
  BY <1>33
<1> QED
  BY <1>1, <1>2, <1>3, <1>4, <1>5, <1>6, <1>7, <1>8, <1>9, <1>10, <1>11,
     <1>12, <1>13, <1>14, <1>15, <1>16, <1>17, <1>18, <1>19, <1>20, <1>21, <1>22,
     <1>23, <1>24, <1>25, <1>26, <1>27, <1>28, <1>29, <1>30, <1>31, <1>32, <1>33
     DEF Next, SlaveStep, StopStep, ResizeStep, Terminated

\* A slave counted in _activeCount keeps its _pReq until it leaves the request.
LEMMA HasRequestPreserved ==
    ASSUME IInv, [Next]_vars
    PROVE  HasRequest'
<1> USE DEF IInv, TypeOK, HasRequest, InRequest, Goto, SlavePc,
        vars, queueVars, slaveVars, reqVars, stopVars, resizeVars, poolVars
<1>1. ASSUME NEW r \in Request, UserStart(r) \/ AdmitPush(r) \/ PostPush(r)
     PROVE  HasRequest'
  BY <1>1 DEF UserStart, EnterPush, AdmitPush, PostPush
<1>2. ASSUME NEW t \in Slave, SlaveStep(t)
     PROVE  HasRequest'
  <2>1. CASE StartThread(t)
    BY <2>1 DEF StartThread
  <2>2. CASE CheckQueue(t)
    BY <2>2 DEF CheckQueue
  <2>3. CASE ExitThread(t)
    BY <2>3 DEF ExitThread
  <2>4. CASE Wait(t)
    BY <2>4 DEF Wait
  <2>5. CASE Dequeue(t)
    BY <2>5 DEF Dequeue
  <2>6. CASE Fetched(t)
    BY <2>6 DEF Fetched
  <2>7. CASE InitRequest(t)
    BY <2>7 DEF InitRequest
  <2>8. CASE RunUser(t)
    BY <2>8 DEF RunUser
  <2>9. CASE RunStop(t)
    BY <2>9 DEF RunStop, EnterPush
  <2>10. CASE PushedClean(t)
    BY <2>10 DEF PushedClean
  <2>11. CASE RunClean(t)
    BY <2>11 DEF RunClean
  <2>12. CASE EraseSlave(t)
    BY <2>12 DEF EraseSlave
  <2>13. CASE FinishRequest(t)
    BY <2>13 DEF FinishRequest
  <2>14. CASE LeaveRequest(t)
    BY <2>14 DEF LeaveRequest
  <2> QED  BY <1>2, <2>1, <2>2, <2>3, <2>4, <2>5, <2>6, <2>7, <2>8, <2>9, <2>10, <2>11, <2>12, <2>13, <2>14
           DEF SlaveStep
<1>3. CASE CallClear \/ BeginStop \/ StopStep
  BY <1>3, ToSetType DEF CallClear, BeginStop, StopStep, StopClear, ClearRequests, QuitSlaves,
              JoinSlave, StopReturns
<1>4. CASE (\E m \in ResizeArgs : BeginResize(m)) \/ ResizeStep
  BY <1>4 DEF BeginResize, ResizeStep, GrowNew, GrowAdmit, GrowRefused, GrowDelete,
              GrowEnd, ShrinkOne, EnterPush, ShrinkNext, ResizeReturns
<1>5. CASE UNCHANGED vars
  BY <1>5
<1> QED  BY <1>1, <1>2, <1>3, <1>4, <1>5 DEF Next, Terminated

\* Nothing is queued after the clearRequests() of stop(): pushRequest() tests
\* _running again under the lock.
LEMMA StoppedPreserved ==
    ASSUME IInv, [Next]_vars
    PROVE  StoppedIsEmpty'
<1> USE DEF IInv, TypeOK, StoppedIsEmpty,
        vars, queueVars, slaveVars, reqVars, stopVars, resizeVars, poolVars
<1>1. ASSUME NEW r \in Request, UserStart(r) \/ AdmitPush(r) \/ PostPush(r)
     PROVE  StoppedIsEmpty'
  BY <1>1 DEF UserStart, EnterPush, AdmitPush, PostPush
<1>2. ASSUME NEW t \in Slave, SlaveStep(t)
     PROVE  StoppedIsEmpty'
  <2>1. CASE StartThread(t)
    BY <2>1 DEF StartThread
  <2>2. CASE CheckQueue(t)
    BY <2>2 DEF CheckQueue
  <2>3. CASE ExitThread(t)
    BY <2>3 DEF ExitThread
  <2>4. CASE Wait(t)
    BY <2>4 DEF Wait
  <2>5. CASE Dequeue(t)
    BY <2>5 DEF Dequeue
  <2>6. CASE Fetched(t)
    BY <2>6 DEF Fetched
  <2>7. CASE InitRequest(t)
    BY <2>7 DEF InitRequest
  <2>8. CASE RunUser(t)
    BY <2>8 DEF RunUser
  <2>9. CASE RunStop(t)
    BY <2>9 DEF RunStop, EnterPush
  <2>10. CASE PushedClean(t)
    BY <2>10 DEF PushedClean
  <2>11. CASE RunClean(t)
    BY <2>11 DEF RunClean
  <2>12. CASE EraseSlave(t)
    BY <2>12 DEF EraseSlave
  <2>13. CASE FinishRequest(t)
    BY <2>13 DEF FinishRequest
  <2>14. CASE LeaveRequest(t)
    BY <2>14 DEF LeaveRequest
  <2> QED  BY <1>2, <2>1, <2>2, <2>3, <2>4, <2>5, <2>6, <2>7, <2>8, <2>9, <2>10, <2>11, <2>12, <2>13, <2>14
           DEF SlaveStep
<1>3. CASE CallClear \/ BeginStop \/ StopStep
  BY <1>3, ToSetType DEF CallClear, BeginStop, StopStep, StopClear, ClearRequests, QuitSlaves,
              JoinSlave, StopReturns
<1>4. CASE (\E m \in ResizeArgs : BeginResize(m)) \/ ResizeStep
  BY <1>4 DEF BeginResize, ResizeStep, GrowNew, GrowAdmit, GrowRefused, GrowDelete,
              GrowEnd, ShrinkOne, EnterPush, ShrinkNext, ResizeReturns
<1>5. CASE UNCHANGED vars
  BY <1>5
<1> QED  BY <1>1, <1>2, <1>3, <1>4, <1>5 DEF Next, Terminated

\* A StopRequest quits the slave that runs it, which does not look for another
\* request nor sleep again before stop().
LEMMA QuitLeavesPreserved ==
    ASSUME IInv, [Next]_vars
    PROVE  QuitLeaves'
<1> USE DEF IInv, TypeOK, QuitLeaves, Goto, SlavePc,
        vars, queueVars, slaveVars, reqVars, stopVars, resizeVars, poolVars
<1>1. ASSUME NEW r \in Request, UserStart(r) \/ AdmitPush(r) \/ PostPush(r)
     PROVE  QuitLeaves'
  BY <1>1 DEF UserStart, EnterPush, AdmitPush, PostPush
<1>2. ASSUME NEW t \in Slave, SlaveStep(t)
     PROVE  QuitLeaves'
  <2>1. CASE StartThread(t)
    BY <2>1 DEF StartThread
  <2>2. CASE CheckQueue(t)
    BY <2>2 DEF CheckQueue
  <2>3. CASE ExitThread(t)
    BY <2>3 DEF ExitThread
  <2>4. CASE Wait(t)
    BY <2>4 DEF Wait
  <2>5. CASE Dequeue(t)
    BY <2>5 DEF Dequeue
  <2>6. CASE Fetched(t)
    BY <2>6 DEF Fetched
  <2>7. CASE InitRequest(t)
    BY <2>7 DEF InitRequest
  <2>8. CASE RunUser(t)
    BY <2>8 DEF RunUser
  <2>9. CASE RunStop(t)
    BY <2>9 DEF RunStop, EnterPush
  <2>10. CASE PushedClean(t)
    BY <2>10 DEF PushedClean
  <2>11. CASE RunClean(t)
    BY <2>11 DEF RunClean
  <2>12. CASE EraseSlave(t)
    BY <2>12 DEF EraseSlave
  <2>13. CASE FinishRequest(t)
    BY <2>13 DEF FinishRequest
  <2>14. CASE LeaveRequest(t)
    BY <2>14 DEF LeaveRequest
  <2> QED  BY <1>2, <2>1, <2>2, <2>3, <2>4, <2>5, <2>6, <2>7, <2>8, <2>9, <2>10, <2>11, <2>12, <2>13, <2>14
           DEF SlaveStep
<1>3. CASE CallClear \/ BeginStop \/ StopStep
  BY <1>3, ToSetType DEF CallClear, BeginStop, StopStep, StopClear, ClearRequests, QuitSlaves,
              JoinSlave, StopReturns
<1>4. CASE (\E m \in ResizeArgs : BeginResize(m)) \/ ResizeStep
  BY <1>4 DEF BeginResize, ResizeStep, GrowNew, GrowAdmit, GrowRefused, GrowDelete,
              GrowEnd, ShrinkOne, EnterPush, ShrinkNext, ResizeReturns
<1>5. CASE UNCHANGED vars
  BY <1>5
<1> QED  BY <1>1, <1>2, <1>3, <1>4, <1>5 DEF Next, Terminated

\* No step loses a wakeup: every count taken is followed by a look at the queue.
LEMMA WakeupPreserved ==
    ASSUME IInv, [Next]_vars
    PROVE  NoLostWakeup'
<1> USE DEF IInv, TypeOK, NoLostWakeup, LooksAtQueue, Goto, SlavePc,
        vars, queueVars, slaveVars, reqVars, stopVars, resizeVars, poolVars
<1>1. ASSUME NEW r \in Request, UserStart(r) \/ AdmitPush(r) \/ PostPush(r)
     PROVE  NoLostWakeup'
  BY <1>1 DEF UserStart, EnterPush, AdmitPush, PostPush
<1>2. ASSUME NEW t \in Slave, SlaveStep(t)
     PROVE  NoLostWakeup'
  <2>1. CASE StartThread(t)
    BY <2>1 DEF StartThread
  <2>2. CASE CheckQueue(t)
    BY <2>2 DEF CheckQueue
  <2>3. CASE ExitThread(t)
    BY <2>3 DEF ExitThread
  <2>4. CASE Wait(t)
    BY <2>4 DEF Wait, StoppedIsEmpty, QuitLeaves
  <2>5. CASE Dequeue(t)
    BY <2>5 DEF Dequeue, Reposted
  <2>6. CASE Fetched(t)
    BY <2>6 DEF Fetched
  <2>7. CASE InitRequest(t)
    BY <2>7 DEF InitRequest
  <2>8. CASE RunUser(t)
    BY <2>8 DEF RunUser
  <2>9. CASE RunStop(t)
    BY <2>9 DEF RunStop, EnterPush
  <2>10. CASE PushedClean(t)
    BY <2>10 DEF PushedClean
  <2>11. CASE RunClean(t)
    BY <2>11 DEF RunClean
  <2>12. CASE EraseSlave(t)
    BY <2>12 DEF EraseSlave
  <2>13. CASE FinishRequest(t)
    BY <2>13 DEF FinishRequest
  <2>14. CASE LeaveRequest(t)
    BY <2>14 DEF LeaveRequest
  <2> QED  BY <1>2, <2>1, <2>2, <2>3, <2>4, <2>5, <2>6, <2>7, <2>8, <2>9, <2>10, <2>11, <2>12, <2>13, <2>14
           DEF SlaveStep
<1>3. CASE CallClear \/ BeginStop \/ StopStep
  <2>1. CASE CallClear \/ StopClear
    BY <2>1 DEF CallClear, StopClear, ClearRequests
  <2>2. CASE QuitSlaves
    BY <2>2 DEF QuitSlaves, StoppedIsEmpty
  <2>3. CASE BeginStop \/ StopReturns \/ \E t \in Slave : JoinSlave(t)
    BY <2>3 DEF BeginStop, StopReturns, JoinSlave
  <2> QED  BY <1>3, <2>1, <2>2, <2>3 DEF StopStep
<1>4. CASE (\E m \in ResizeArgs : BeginResize(m)) \/ ResizeStep
  BY <1>4 DEF BeginResize, ResizeStep, GrowNew, GrowAdmit, GrowRefused, GrowDelete,
              GrowEnd, ShrinkOne, EnterPush, ShrinkNext, ResizeReturns
<1>5. CASE UNCHANGED vars
  BY <1>5
<1> QED  BY <1>1, <1>2, <1>3, <1>4, <1>5 DEF Next, Terminated

\* The inductive invariant holds of a pool just constructed.
LEMMA InitIInv == Init => IInv
<1> SUFFICES ASSUME Init PROVE IInv
  OBVIOUS
<1>1. Cardinality(FirstSlaves) \in Nat
  BY PoolAssumption, FS_Subset, FS_CardinalityType
<1>2. TypeOK
  BY <1>1, PoolAssumption DEF Init, TypeOK, SlavePc
<1>3. HasRequest /\ StoppedIsEmpty /\ QuitLeaves /\ NoLostWakeup
  BY DEF Init, HasRequest, InRequest, StoppedIsEmpty, QuitLeaves, NoLostWakeup
<1> QED  BY <1>2, <1>3 DEF IInv

\* It is kept by every step of slaves and callers.
LEMMA StepIInv == IInv /\ [Next]_vars => IInv'
BY TypePreserved, HasRequestPreserved, StoppedPreserved, QuitLeavesPreserved,
   WakeupPreserved DEF IInv

\* The inductive invariant holds of every state the pool can reach.
THEOREM SpecIInv == Spec => []IInv
BY InitIInv, StepIInv, PTL DEF Spec

-----------------------------------------------------------------------------
\* Type correctness of the thread pool.
THEOREM TypeCorrect == Spec => []TypeOK
BY SpecIInv, PTL DEF IInv

\* No lost wakeup between the queue, guarded by the pool's mutex, and the
\* semaphore, posted outside of it: whatever callers do with resize(), stop() and
\* clearRequests(), a pending request always has a count, a post() on its way or
\* a slave that will look at the queue before it sleeps.
THEOREM NoWakeupLost == Spec => []NoLostWakeup
BY SpecIInv, PTL DEF IInv

\* After the clearRequests() of stop() nothing is queued any more: the second
\* _running test of pushRequest(), under the lock, is what makes the dropping of
\* pending requests final.
THEOREM StopEmptiesQueue == Spec => []StoppedIsEmpty
BY SpecIInv, PTL DEF IInv

-----------------------------------------------------------------------------
(* Who owns a request, how often it is finalised, how many slaves are active  *)
(* and in which order requests are taken.                                     *)

\* A slave at these points has begun to serve its request.
Begun == {"run", "push", "erase", "final", "leave"}

\* No request is twice in the queue.
NoDuplicates ==
    \A i, j \in 1..Len(requests) : requests[i] = requests[j] => i = j

\* A queued request is in nobody's hands and untouched.
QueuedUntouched ==
    \A r \in ToSet(requests) :
        /\ Accepted(r) /\ finals[r] = 0 /\ r \notin ran
        /\ \A t \in Slave : pReq[t] # r

\* A request in hand is in one slave's; it is not run before, nor finalised.
HeldByOne ==
    \A t \in Slave : pReq[t] \in Request =>
        /\ Accepted(pReq[t])
        /\ finals[pReq[t]] = IF pc[t] = "leave" THEN 1 ELSE 0
        /\ pc[t] \notin Begun => pReq[t] \notin ran
        /\ \A u \in Slave : pReq[u] = pReq[t] => u = t

\* Nothing happens to a request that was not accepted; a cancelled one has been
\* finalised and was not run.
OnlyAccepted ==
    \A r \in Request :
        /\ finals[r] <= 1
        /\ finals[r] > 0 \/ r \in ran => Accepted(r)
        /\ r \in cancelled => finals[r] = 1 /\ r \notin ran

\* The inductive invariant.
Ownership == NoDuplicates /\ QueuedUntouched /\ HeldByOne /\ OnlyAccepted

-----------------------------------------------------------------------------
\* Where the elements of a sequence are after SequencesExt!InsertAt.
LEMMA InsertAtElements ==
    ASSUME NEW S, NEW s \in Seq(S), NEW e \in S, NEW k \in 0..Len(s)
    PROVE  /\ Len(InsertAt(s, k + 1, e)) = Len(s) + 1
           /\ \A i \in 1..(Len(s) + 1) :
                InsertAt(s, k + 1, e)[i] =
                    IF i <= k THEN s[i] ELSE IF i = k + 1 THEN e ELSE s[i - 1]
<1> DEFINE front == SubSeq(s, 1, k)
           back  == SubSeq(s, k + 1, Len(s))
<1>1. /\ front \in Seq(S) /\ Len(front) = k /\ \A i \in 1..k : front[i] = s[i]
      /\ back \in Seq(S) /\ Len(back) = Len(s) - k
      /\ \A i \in 1..(Len(s) - k) : back[i] = s[k + i]
  OBVIOUS
<1>2. InsertAt(s, k + 1, e) = front \o <<e>> \o back
  <2>1. (k + 1) - 1 = k
    OBVIOUS
  <2> QED  BY <2>1, Zenon DEF InsertAt
<1> DEFINE head == front \o <<e>>
<1>3. InsertAt(s, k + 1, e) = head \o back
  BY <1>2
<1> HIDE DEF front, back
<1>4. /\ head \in Seq(S) /\ Len(head) = k + 1
      /\ \A i \in 1..(k + 1) : head[i] = IF i <= k THEN s[i] ELSE e
  BY <1>1
<1> HIDE DEF head
<1>5. /\ Len(head \o back) = Len(s) + 1
      /\ \A i \in 1..(Len(s) + 1) :
           (head \o back)[i] = IF i <= k + 1 THEN head[i] ELSE back[i - (k + 1)]
  <2>0. head \in Seq(S) /\ back \in Seq(S)
    BY <1>1, <1>4
  <2>1. /\ Len(head \o back) = Len(head) + Len(back)
        /\ \A i \in 1..(Len(head) + Len(back)) :
             (head \o back)[i] = IF i <= Len(head) THEN head[i] ELSE back[i - Len(head)]
    BY <2>0, ConcatProperties, Zenon
  <2>2. Len(head) + Len(back) = Len(s) + 1
    BY <1>1, <1>4
  <2>3. Len(head) = k + 1
    BY <1>4
  <2> QED  BY <2>1, <2>2, <2>3
<1>6. \A i \in 1..(Len(s) + 1) : i > k + 1 => back[i - (k + 1)] = s[i - 1]
  BY <1>1
<1> QED  BY <1>3, <1>4, <1>5, <1>6

\* What SequencesExt!ToSet is of a sequence.
LEMMA ToSetElements ==
    ASSUME NEW S, NEW s \in Seq(S)
    PROVE  ToSet(s) = {s[i] : i \in 1..Len(s)}
BY DEF ToSet

\* Push() puts its request somewhere between the queued ones.
LEMMA PushElements ==
    ASSUME NEW r \in Request, requests \in Seq(Request), Push(r)
    PROVE  \E k \in 0..Len(requests) :
             /\ \A i \in 1..k : Priority[requests[i]] <= Priority[r]
             /\ \A i \in (k+1)..Len(requests) : Priority[requests[i]] > Priority[r]
             /\ Len(requests') = Len(requests) + 1
             /\ \A i \in 1..(Len(requests) + 1) :
                  requests'[i] = IF i <= k THEN requests[i]
                                 ELSE IF i = k + 1 THEN r ELSE requests[i - 1]
<1>1. PICK k \in 0..Len(requests) :
        /\ \A i \in 1..k : Priority[requests[i]] <= Priority[r]
        /\ \A i \in (k+1)..Len(requests) : Priority[requests[i]] > Priority[r]
        /\ requests' = InsertAt(requests, k + 1, r)
  BY Zenon DEF Push
<1>2. /\ Len(InsertAt(requests, k + 1, r)) = Len(requests) + 1
      /\ \A i \in 1..(Len(requests) + 1) :
           InsertAt(requests, k + 1, r)[i] =
               IF i <= k THEN requests[i] ELSE IF i = k + 1 THEN r ELSE requests[i - 1]
  BY InsertAtElements
<1> QED  BY <1>1, <1>2, Zenon

\* A step that moves no request keeps the invariant, if slaves that have begun a
\* request stay with it.
LEMMA NothingMoves ==
    ASSUME Ownership, TypeOK,
           UNCHANGED <<requests, pReq, finals, ran, cancelled>>,
           \A r \in Request : Accepted(r) => Accepted(r)',
           \A t \in Slave : pReq[t] \in Request =>
               /\ pc'[t] = "leave" <=> pc[t] = "leave"
               /\ pc[t] \in Begun => pc'[t] \in Begun
    PROVE  Ownership'
<1> USE DEF Ownership, TypeOK
<1>1. NoDuplicates'
  BY DEF NoDuplicates
<1>2. QueuedUntouched'
  BY ToSetType DEF QueuedUntouched
<1>3. HeldByOne'
  BY DEF HeldByOne
<1>4. OnlyAccepted'
  BY DEF OnlyAccepted
<1> QED  BY <1>1, <1>2, <1>3, <1>4

\* pushRequest() admits a request once: it was nobody's.
LEMMA AdmitKeeps ==
    ASSUME Ownership, TypeOK, NEW r \in Request, AdmitPush(r)
    PROVE  Ownership'
<1> USE DEF TypeOK, vars, slaveVars
<1>1. CASE ~running
  BY <1>1, NothingMoves DEF AdmitPush, Accepted
<1>2. CASE running
  <2>1. /\ Push(r) /\ call[r] = "admit" /\ call' = [call EXCEPT ![r] = "post"]
        /\ UNCHANGED <<pc, pReq, finals, ran, cancelled>>
    BY <1>2 DEF AdmitPush
  <2>2. /\ finals[r] = 0 /\ r \notin ran /\ r \notin ToSet(requests)
        /\ \A t \in Slave : pReq[t] # r
    <3>1. ~Accepted(r)
      BY <2>1 DEF Accepted
    <3>2. r \notin ToSet(requests)
      BY <3>1 DEF Ownership, QueuedUntouched
    <3>3. \A t \in Slave : pReq[t] # r
      BY <3>1 DEF Ownership, HeldByOne
    <3>4. finals[r] = 0 /\ r \notin ran
      BY <3>1 DEF Ownership, OnlyAccepted
    <3> QED  BY <3>2, <3>3, <3>4
  <2>3. \A q \in Request : Accepted(q) => Accepted(q)'
    BY <2>1 DEF Accepted
  <2>4. Accepted(r)'
    BY <2>1 DEF Accepted
  <2>5. PICK k \in 0..Len(requests) :
          /\ Len(requests') = Len(requests) + 1
          /\ \A i \in 1..(Len(requests) + 1) :
               requests'[i] = IF i <= k THEN requests[i]
                              ELSE IF i = k + 1 THEN r ELSE requests[i - 1]
    BY <2>1, PushElements
  <2>6. \A i \in 1..Len(requests) : requests[i] # r /\ requests[i] \in ToSet(requests)
    BY <2>2 DEF ToSet
  <2>7. requests' \in Seq(Request)
    BY <2>1, PushType
  <2> DEFINE old(i) == IF i <= k THEN i ELSE i - 1
  <2>a. \A i \in 1..Len(requests') :
          \/ i = k + 1 /\ requests'[i] = r
          \/ /\ i # k + 1 /\ old(i) \in 1..Len(requests)
             /\ requests'[i] = requests[old(i)]
    BY <2>5
  <2>8. NoDuplicates'
    <3> SUFFICES ASSUME NEW i \in 1..Len(requests'), NEW j \in 1..Len(requests'),
                        requests'[i] = requests'[j]
                 PROVE  i = j
      BY DEF NoDuplicates
    <3>1. CASE i = k + 1 \/ j = k + 1
      BY <2>6, <2>a, <3>1
    <3>2. CASE i # k + 1 /\ j # k + 1
      <4>1. old(i) = old(j)
        BY <2>a, <3>2 DEF Ownership, NoDuplicates
      <4> QED  BY <3>2, <4>1
    <3> QED  BY <3>1, <3>2
  <2>9. \A q \in ToSet(requests') : q = r \/ q \in ToSet(requests)
    <3>1. ToSet(requests') = {requests'[i] : i \in 1..Len(requests')}
      BY <2>7, ToSetElements
    <3>2. \A i \in 1..Len(requests') : requests'[i] = r \/ requests'[i] \in ToSet(requests)
      <4> SUFFICES ASSUME NEW i \in 1..Len(requests'), i # k + 1
                   PROVE  requests'[i] \in ToSet(requests)
        BY <2>a
      <4>1. requests'[i] = requests[old(i)] /\ old(i) \in 1..Len(requests)
        BY <2>a
      <4> QED  BY <2>6, <4>1
    <3> QED  BY <3>1, <3>2
  <2>10. QueuedUntouched'
    BY <2>1, <2>2, <2>3, <2>4, <2>9, ToSetType DEF Ownership, QueuedUntouched
  <2>11. HeldByOne'
    BY <2>1, <2>3 DEF Ownership, HeldByOne
  <2>12. OnlyAccepted'
    BY <2>1, <2>3 DEF Ownership, OnlyAccepted
  <2> QED  BY <2>8, <2>10, <2>11, <2>12 DEF Ownership
<1> QED  BY <1>1, <1>2

\* A slave takes the first request, and nobody else has it.
LEMMA DequeueKeeps ==
    ASSUME Ownership, TypeOK, NEW t \in Slave, Dequeue(t)
    PROVE  Ownership'
<1> USE DEF TypeOK, SlavePc
<1>1. /\ pc' = [pc EXCEPT ![t] = "fetched"]
      /\ UNCHANGED <<call, finals, ran, cancelled>>
  BY DEF Dequeue, Goto, reqVars
<1>2. OnlyAccepted' /\ \A q \in Request : Accepted(q)' = Accepted(q)
  BY <1>1 DEF Ownership, OnlyAccepted, Accepted
<1>3. CASE requests = <<>>
  <2>1. requests' = <<>> /\ pReq' = [pReq EXCEPT ![t] = NoReq]
    BY <1>3 DEF Dequeue
  <2>2. HeldByOne'
    BY <1>1, <1>2, <2>1, PoolAssumption DEF Ownership, HeldByOne, Begun
  <2>3. NoDuplicates' /\ QueuedUntouched'
    BY <2>1 DEF NoDuplicates, QueuedUntouched, ToSet
  <2> QED  BY <1>2, <2>2, <2>3 DEF Ownership
<1>4. CASE requests # <<>>
  <2> DEFINE r == Head(requests)
  <2>1. requests' = Tail(requests) /\ pReq' = [pReq EXCEPT ![t] = r]
    BY <1>4 DEF Dequeue
  <2>2. /\ Len(requests') = Len(requests) - 1 /\ r = requests[1] /\ 1 \in 1..Len(requests)
        /\ \A i \in 1..Len(requests') : requests'[i] = requests[i + 1] /\ i + 1 \in 1..Len(requests)
    BY <1>4, <2>1
  <2>a. /\ ToSet(requests) = {requests[i] : i \in 1..Len(requests)}
        /\ ToSet(requests') = {requests'[i] : i \in 1..Len(requests')}
    <3>1. Tail(requests) \in Seq(Request)
      BY <1>4
    <3>2. requests' \in Seq(Request)
      BY <2>1, <3>1
    <3>3. ToSet(requests) = {requests[i] : i \in 1..Len(requests)}
      BY ToSetElements
    <3>4. ToSet(requests') = {requests'[i] : i \in 1..Len(requests')}
      BY <3>2, ToSetElements
    <3> QED  BY <3>3, <3>4, Zenon
  <2>3. r \in ToSet(requests) /\ r \notin ToSet(requests')
        /\ ToSet(requests') \subseteq ToSet(requests)
    <3>1. \A i \in 1..Len(requests') : requests'[i] # r
      <4> SUFFICES ASSUME NEW i \in 1..Len(requests'), requests[i + 1] = requests[1]
                   PROVE  FALSE
        BY <2>2
      <4>1. i + 1 = 1
        BY <2>2 DEF Ownership, NoDuplicates
      <4> QED  BY <4>1
    <3> QED  BY <2>2, <2>a, <3>1
  <2>4. r \in Request /\ Accepted(r) /\ finals[r] = 0 /\ r \notin ran
        /\ \A u \in Slave : pReq[u] # r
    BY <2>3, ToSetType DEF Ownership, QueuedUntouched
  <2> HIDE DEF r
  <2>5. NoDuplicates'
    <3> SUFFICES ASSUME NEW i \in 1..Len(requests'), NEW j \in 1..Len(requests'),
                        requests'[i] = requests'[j]
                 PROVE  i = j
      BY DEF NoDuplicates
    <3>1. i + 1 = j + 1
      BY <2>2, SMTT(30) DEF Ownership, NoDuplicates
    <3> QED  BY <3>1
  <2>6. QueuedUntouched'
    BY <1>1, <1>2, <2>1, <2>3, ToSetType DEF Ownership, QueuedUntouched
  <2>7. HeldByOne'
    BY <1>1, <1>2, <2>1, <2>4 DEF Ownership, HeldByOne
  <2> QED  BY <1>2, <2>5, <2>6, <2>7 DEF Ownership
<1> QED  BY <1>3, <1>4

\* clearRequests() finalises what is queued, and nobody has any of it in hand.
LEMMA ClearKeeps ==
    ASSUME Ownership, TypeOK, ClearRequests, UNCHANGED <<call, ran, pc, pReq>>
    PROVE  Ownership'
<1> USE DEF TypeOK, ClearRequests
<1>1. NoDuplicates' /\ QueuedUntouched'
  BY DEF NoDuplicates, QueuedUntouched, ToSet
<1>2. \A r \in Request : Accepted(r)' = Accepted(r)
  BY DEF Accepted
<1>3. HeldByOne'
  BY <1>2 DEF Ownership, HeldByOne, QueuedUntouched
<1>4. OnlyAccepted'
  BY <1>2 DEF Ownership, OnlyAccepted, QueuedUntouched
<1> QED  BY <1>1, <1>3, <1>4 DEF Ownership

\* The steps of a slave with the request in its hand.
LEMMA ExitKeeps ==
    ASSUME Ownership, TypeOK, NEW t \in Slave, ExitThread(t)
    PROVE  Ownership'
<1> USE DEF TypeOK, SlavePc
<1>1. /\ pc[t] = "check" /\ pc' = [pc EXCEPT ![t] = "disabled"]
      /\ pReq' = [pReq EXCEPT ![t] = NoReq] /\ UNCHANGED requests
  BY DEF ExitThread, Goto, queueVars
<1>2. NoDuplicates'
  BY <1>1 DEF Ownership, NoDuplicates
<1>3. CASE pReq[t] = NoReq
  <2>1. UNCHANGED <<call, finals, ran, cancelled>>
    BY <1>3 DEF ExitThread, reqVars
  <2>2. \A r \in Request : Accepted(r)' = Accepted(r)
    BY <2>1 DEF Accepted
  <2>3. QueuedUntouched'
    BY <1>1, <2>1, <2>2, ToSetType, PoolAssumption DEF Ownership, QueuedUntouched
  <2>4. HeldByOne'
    BY <1>1, <2>1, <2>2, PoolAssumption DEF Ownership, HeldByOne
  <2>5. OnlyAccepted'
    BY <2>1, <2>2 DEF Ownership, OnlyAccepted
  <2> QED  BY <1>2, <2>3, <2>4, <2>5 DEF Ownership
<1>4. CASE pReq[t] # NoReq
  <2> DEFINE r == pReq[t]
  <2>1. /\ r \in Request /\ UNCHANGED <<call, ran>>
        /\ finals' = [finals EXCEPT ![r] = @ + 1]
        /\ cancelled' = cancelled \cup {r}
    BY <1>4 DEF ExitThread
  <2>2. \A q \in Request : Accepted(q)' = Accepted(q)
    BY <2>1 DEF Accepted
  <2>3. /\ Accepted(r) /\ finals[r] = 0 /\ r \notin ran /\ r \notin ToSet(requests)
        /\ \A u \in Slave : u # t => pReq[u] # r
    BY <1>1, <2>1 DEF Ownership, HeldByOne, QueuedUntouched, Begun
  <2> HIDE DEF r
  <2>4. QueuedUntouched'
    BY <1>1, <2>1, <2>2, <2>3, ToSetType, PoolAssumption DEF Ownership, QueuedUntouched
  <2>5. HeldByOne'
    BY <1>1, <2>1, <2>2, <2>3, PoolAssumption DEF Ownership, HeldByOne
  <2>6. OnlyAccepted'
    BY <2>1, <2>2, <2>3 DEF Ownership, OnlyAccepted
  <2> QED  BY <1>2, <2>4, <2>5, <2>6 DEF Ownership
<1> QED  BY <1>3, <1>4

LEMMA InitKeeps ==
    ASSUME Ownership, IInv, NEW t \in Slave, InitRequest(t)
    PROVE  Ownership'
<1> USE DEF TypeOK, SlavePc, IInv
<1>1. /\ pc[t] = "init" /\ UNCHANGED <<requests, pReq, call, finals, cancelled>>
      /\ pReq[t] \in Request
  BY DEF InitRequest, queueVars, HasRequest, InRequest
<1>2. CASE UNCHANGED ran /\ pc' = [pc EXCEPT ![t] = "final"]
  BY <1>1, <1>2, NothingMoves DEF Accepted, Begun
<1>3. CASE ran' = ran \cup {pReq[t]} /\ pc' = [pc EXCEPT ![t] = "run"]
  <2> DEFINE r == pReq[t]
  <2>1. /\ Accepted(r) /\ finals[r] = 0 /\ r \notin ToSet(requests)
        /\ \A u \in Slave : u # t => pReq[u] # r
    BY <1>1 DEF Ownership, HeldByOne, QueuedUntouched
  <2>2. \A q \in Request : Accepted(q)' = Accepted(q)
    BY <1>1 DEF Accepted
  <2>3. NoDuplicates'
    BY <1>1 DEF Ownership, NoDuplicates
  <2>4. QueuedUntouched'
    BY <1>1, <1>3, <2>1, <2>2, ToSetType DEF Ownership, QueuedUntouched
  <2>5. HeldByOne'
    BY <1>1, <1>3, <2>1, <2>2 DEF Ownership, HeldByOne, Begun
  <2>6. OnlyAccepted'
    BY <1>1, <1>3, <2>1, <2>2 DEF Ownership, OnlyAccepted
  <2> QED  BY <2>3, <2>4, <2>5, <2>6 DEF Ownership
<1> QED  BY <1>2, <1>3 DEF InitRequest, Goto

LEMMA FinishKeeps ==
    ASSUME Ownership, IInv, NEW t \in Slave, FinishRequest(t)
    PROVE  Ownership'
<1> USE DEF TypeOK, SlavePc, IInv
<1> DEFINE r == pReq[t]
<1>1. /\ pc[t] = "final" /\ UNCHANGED <<requests, pReq, call, ran, cancelled>>
      /\ r \in Request
      /\ finals' = [finals EXCEPT ![r] = @ + 1] /\ pc' = [pc EXCEPT ![t] = "leave"]
  BY DEF FinishRequest, queueVars, HasRequest, InRequest, Goto
<1>2. /\ Accepted(r) /\ finals[r] = 0 /\ r \notin ToSet(requests)
      /\ \A u \in Slave : u # t => pReq[u] # r
  BY <1>1 DEF Ownership, HeldByOne, QueuedUntouched
<1>3. \A q \in Request : Accepted(q)' = Accepted(q)
  BY <1>1 DEF Accepted
<1>4. NoDuplicates'
  BY <1>1 DEF Ownership, NoDuplicates
<1>5. QueuedUntouched'
  BY <1>1, <1>2, <1>3, ToSetType DEF Ownership, QueuedUntouched
<1>6. HeldByOne'
  BY <1>1, <1>2, <1>3 DEF Ownership, HeldByOne, Begun
<1>7. OnlyAccepted'
  BY <1>1, <1>2, <1>3 DEF Ownership, OnlyAccepted
<1> QED  BY <1>4, <1>5, <1>6, <1>7 DEF Ownership

LEMMA LeaveKeeps ==
    ASSUME Ownership, TypeOK, NEW t \in Slave, LeaveRequest(t)
    PROVE  Ownership'
<1> USE DEF TypeOK, SlavePc
<1>1. /\ pc' = [pc EXCEPT ![t] = "check"] /\ pReq' = [pReq EXCEPT ![t] = NoReq]
      /\ UNCHANGED <<requests, call, finals, ran, cancelled>>
  BY DEF LeaveRequest, Goto, queueVars, reqVars
<1>2. \A r \in Request : Accepted(r)' = Accepted(r)
  BY <1>1 DEF Accepted
<1>3. NoDuplicates'
  BY <1>1 DEF Ownership, NoDuplicates
<1>4. QueuedUntouched'
  BY <1>1, <1>2, ToSetType, PoolAssumption DEF Ownership, QueuedUntouched
<1>5. HeldByOne'
  BY <1>1, <1>2, PoolAssumption DEF Ownership, HeldByOne
<1>6. OnlyAccepted'
  BY <1>1, <1>2 DEF Ownership, OnlyAccepted
<1> QED  BY <1>3, <1>4, <1>5, <1>6 DEF Ownership

\* Every step of slaves and callers keeps the invariant.
LEMMA OwnershipPreserved ==
    ASSUME Ownership, IInv, [Next]_vars
    PROVE  Ownership'
<1> USE DEF IInv, TypeOK, Goto, SlavePc, vars, queueVars, slaveVars, reqVars, stopVars,
            resizeVars, poolVars
<1>0. ASSUME UNCHANGED <<requests, pReq, finals, ran, cancelled>>,
             call' = call \/ \E r \in Request : EnterPush(r) \/ PostPush(r),
             \A t \in Slave : pReq[t] \in Request =>
                 /\ pc'[t] = "leave" <=> pc[t] = "leave"
                 /\ pc[t] \in Begun => pc'[t] \in Begun
      PROVE  Ownership'
  <2>1. \A r \in Request : Accepted(r) => Accepted(r)'
    BY <1>0 DEF Accepted, EnterPush, PostPush
  <2> QED  BY <1>0, <2>1, NothingMoves
<1>1. ASSUME NEW r \in Request, UserStart(r) \/ PostPush(r) PROVE Ownership'
  BY <1>0, <1>1 DEF UserStart, EnterPush, PostPush
<1>2. ASSUME NEW t \in Slave, SlaveStep(t) PROVE Ownership'
  <2>1. CASE StartThread(t)
    BY <1>0, <2>1 DEF StartThread, Begun
  <2>2. CASE CheckQueue(t)
    BY <1>0, <2>2 DEF CheckQueue, Begun
  <2>3. CASE Wait(t)
    BY <1>0, <2>3 DEF Wait, Begun
  <2>4. CASE Fetched(t)
    BY <1>0, <2>4 DEF Fetched, Begun
  <2>5. CASE RunUser(t)
    BY <1>0, <2>5 DEF RunUser, Begun
  <2>6. CASE RunStop(t)
    <3>1. CleanOf[t] \in Request
      BY PoolAssumption DEF Request
    <3> QED  BY <1>0, <2>6, <3>1 DEF RunStop, EnterPush, Begun
  <2>7. CASE PushedClean(t)
    BY <1>0, <2>7 DEF PushedClean, Begun
  <2>8. CASE RunClean(t)
    BY <1>0, <2>8 DEF RunClean, Begun
  <2>9. CASE EraseSlave(t)
    BY <1>0, <2>9 DEF EraseSlave, Begun
  <2> QED  BY <1>2, <2>1, <2>2, <2>3, <2>4, <2>5, <2>6, <2>7, <2>8, <2>9, ExitKeeps,
              DequeueKeeps, InitKeeps, FinishKeeps, LeaveKeeps DEF SlaveStep
<1>3. CASE CallClear \/ StopClear
  BY <1>3, ClearKeeps DEF CallClear, StopClear
<1>4. CASE BeginStop \/ QuitSlaves \/ StopReturns \/ \E t \in Slave : JoinSlave(t)
  BY <1>0, <1>4 DEF BeginStop, QuitSlaves, StopReturns, JoinSlave
<1>5. CASE GrowNew
  <2>1. PICK t \in Slave : pc[t] = "unborn" /\ Goto(t, "initial")
    BY <1>5 DEF GrowNew
  <2> QED  BY <1>0, <1>5, <2>1 DEF GrowNew, Begun
<1>6. CASE ShrinkOne
  <2>1. PICK p \in StopReq : EnterPush(p)
    BY <1>6 DEF ShrinkOne
  <2>2. p \in Request
    BY DEF Request
  <2> QED  BY <1>0, <1>6, <2>1, <2>2 DEF ShrinkOne, EnterPush
<1>7. CASE (\E m \in ResizeArgs : BeginResize(m)) \/ GrowAdmit \/ GrowRefused
           \/ GrowDelete \/ GrowEnd \/ ShrinkNext \/ ResizeReturns
  BY <1>0, <1>7 DEF BeginResize, GrowAdmit, GrowRefused, GrowDelete, GrowEnd, ShrinkNext,
                    ResizeReturns
<1>8. CASE UNCHANGED vars
  BY <1>0, <1>8
<1> QED  BY <1>1, <1>2, <1>3, <1>4, <1>5, <1>6, <1>7, <1>8, AdmitKeeps
         DEF Next, StopStep, ResizeStep, Terminated

\* It holds of a pool just constructed.
LEMMA InitOwnership == Init => Ownership
<1> SUFFICES ASSUME Init PROVE Ownership
  OBVIOUS
<1>1. NoDuplicates /\ QueuedUntouched
  BY DEF Init, NoDuplicates, QueuedUntouched, ToSet
<1>2. HeldByOne /\ OnlyAccepted
  BY PoolAssumption DEF Init, HeldByOne, OnlyAccepted
<1> QED  BY <1>1, <1>2 DEF Ownership

\* Both inductive invariants together.
THEOREM SpecOwnership == Spec => [](IInv /\ Ownership)
BY SpecIInv, InitOwnership, OwnershipPreserved, PTL DEF Spec

-----------------------------------------------------------------------------
\* A request is owned by the queue or by one slave: over priorities, resize(),
\* clearRequests() and stop() in any order no two slaves serve the same request.
THEOREM RequestHasOneOwner == Spec => []SingleOwner
<1>1. IInv /\ Ownership => SingleOwner
  <2> SUFFICES ASSUME IInv, Ownership PROVE SingleOwner
    OBVIOUS
  <2>1. ASSUME NEW t \in Slave, pReq[t] # NoReq
        PROVE  /\ pReq[t] \notin ToSet(requests)
               /\ \A u \in Slave : pReq[u] = pReq[t] => u = t
    BY <2>1 DEF IInv, TypeOK, Ownership, HeldByOne, QueuedUntouched
  <2> QED  BY <2>1 DEF SingleOwner, Ownership, NoDuplicates
<1> QED  BY <1>1, SpecOwnership, PTL

\* final() of a request, which may delete it, is called at most once, by the slave
\* that served it, by the slave that was told to quit before, or by
\* clearRequests(); and it says "cancelled" only of a request that never ran.
THEOREM FinalisedOnce == Spec => []FinalOnce
<1>1. IInv /\ Ownership => FinalOnce
  BY DEF IInv, TypeOK, Ownership, OnlyAccepted, QueuedUntouched, FinalOnce
<1> QED  BY <1>1, SpecOwnership, PTL

-----------------------------------------------------------------------------
\* The slaves _activeCount stands for.
Active == {t \in Slave : pc[t] \in InRequest}

LEMMA ActiveFinite == IsFiniteSet(Active) /\ Cardinality(Active) \in Nat
BY FS_Subset, FS_CardinalityType, PoolAssumption DEF Active

\* A step that leaves _activeCount alone lets no slave into a request, or out.
LEMMA CountKept ==
    ASSUME TypeOK, ActiveCountExact, activeCount' = activeCount, Active' = Active
    PROVE  ActiveCountExact'
BY DEF ActiveCountExact, Active

\* _activeCount++ and _activeCount-- come with a slave that enters or leaves.
LEMMA CountMoves ==
    ASSUME TypeOK, ActiveCountExact, NEW t \in Slave, Fetched(t) \/ LeaveRequest(t)
    PROVE  ActiveCountExact'
<1> USE DEF TypeOK, SlavePc, InRequest, Goto
<1>1. CASE activeCount' = activeCount /\ Fetched(t)
  BY <1>1, CountKept DEF Fetched, Active
<1>2. CASE activeCount' = activeCount + 1 /\ Fetched(t)
  <2>1. Active' = Active \cup {t} /\ t \notin Active
    BY <1>2 DEF Fetched, Active
  <2>2. Cardinality(Active') = Cardinality(Active) + 1
    BY <2>1, ActiveFinite, FS_AddElement
  <2> QED  BY <1>2, <2>2 DEF ActiveCountExact, Active
<1>3. CASE LeaveRequest(t)
  <2>1. Active' = Active \ {t} /\ t \in Active /\ activeCount' = activeCount - 1
    BY <1>3 DEF LeaveRequest, Active
  <2>2. Cardinality(Active') = Cardinality(Active) - 1
    BY <2>1, ActiveFinite, FS_RemoveElement
  <2> QED  BY <2>1, <2>2 DEF ActiveCountExact, Active
<1> QED  BY <1>1, <1>2, <1>3 DEF Fetched

\* Every step keeps the count exact.
LEMMA CountPreserved ==
    ASSUME TypeOK, ActiveCountExact, [Next]_vars
    PROVE  ActiveCountExact'
<1> USE DEF TypeOK, Goto, SlavePc, InRequest, vars, queueVars, slaveVars, reqVars,
            stopVars, resizeVars, poolVars
<1>0. ASSUME activeCount' = activeCount,
             pc' \in [Slave -> SlavePc],
             \A t \in Slave : pc'[t] \in InRequest <=> pc[t] \in InRequest
      PROVE  ActiveCountExact'
  BY <1>0, CountKept DEF Active
<1>1. ASSUME NEW r \in Request, UserStart(r) \/ AdmitPush(r) \/ PostPush(r)
      PROVE ActiveCountExact'
  BY <1>0, <1>1 DEF UserStart, AdmitPush, PostPush
<1>2. ASSUME NEW t \in Slave, SlaveStep(t) PROVE ActiveCountExact'
  <2>1. CASE StartThread(t) \/ CheckQueue(t) \/ Wait(t) \/ Dequeue(t)
    BY <1>0, <2>1 DEF StartThread, CheckQueue, Wait, Dequeue
  <2>2. CASE ExitThread(t)
    BY <1>0, <2>2 DEF ExitThread
  <2>3. CASE InitRequest(t)
    BY <1>0, <2>3 DEF InitRequest
  <2>4. CASE RunUser(t) \/ RunStop(t) \/ PushedClean(t)
    BY <1>0, <2>4 DEF RunUser, RunStop, PushedClean
  <2>5. CASE RunClean(t) \/ EraseSlave(t) \/ FinishRequest(t)
    BY <1>0, <2>5 DEF RunClean, EraseSlave, FinishRequest
  <2> QED  BY <1>2, <2>1, <2>2, <2>3, <2>4, <2>5, CountMoves DEF SlaveStep
<1>3. CASE CallClear \/ BeginStop \/ StopStep
  BY <1>0, <1>3 DEF CallClear, BeginStop, StopStep, StopClear, QuitSlaves, JoinSlave,
                    StopReturns
<1>4. CASE GrowNew
  BY <1>0, <1>4 DEF GrowNew
<1>5. CASE (\E m \in ResizeArgs : BeginResize(m)) \/ GrowAdmit \/ GrowRefused
           \/ GrowDelete \/ GrowEnd \/ ShrinkOne \/ ShrinkNext \/ ResizeReturns
  BY <1>0, <1>5 DEF BeginResize, GrowAdmit, GrowRefused, GrowDelete, GrowEnd, ShrinkOne,
                    ShrinkNext, ResizeReturns
<1>6. CASE UNCHANGED vars
  BY <1>0, <1>6
<1> QED  BY <1>1, <1>2, <1>3, <1>4, <1>5, <1>6 DEF Next, ResizeStep, Terminated

\* activeCount(), which applications size their pools by, is the number of slaves
\* inside a request at any moment: it is counted up and down once for each, on
\* all ways through SlaveThread::run(), and never by a slave told to quit.
THEOREM ActiveCountIsExact == Spec => []ActiveCountExact
<1>1. Init => ActiveCountExact
  <2> SUFFICES ASSUME Init PROVE ActiveCountExact
    OBVIOUS
  <2>1. Active = {}
    BY DEF Init, Active, InRequest
  <2> QED  BY <2>1, FS_EmptySet DEF Init, ActiveCountExact, Active
<1>2. IInv /\ ActiveCountExact /\ [Next]_vars => ActiveCountExact'
  BY CountPreserved DEF IInv
<1> QED  BY <1>1, <1>2, SpecIInv, PTL DEF Spec

-----------------------------------------------------------------------------
\* The queue is in service order.
Sorted ==
    \A i, j \in 1..Len(requests) :
        i < j => Priority[requests[i]] <= Priority[requests[j]]

\* Priorities are comparable.
LEMMA PriorityType == \A q \in Request : Priority[q] \in Int
<1>1. Priority \in [Request -> 0..255]
  BY PoolAssumption, Zenon
<1> QED  BY <1>1

\* push() keeps the order.
LEMMA PushSorted ==
    ASSUME TypeOK, Sorted, NEW r \in Request, Push(r)
    PROVE  Sorted'
<1> USE DEF TypeOK
<1>1. PICK k \in 0..Len(requests) :
        /\ \A i \in 1..k : Priority[requests[i]] <= Priority[r]
        /\ \A i \in (k+1)..Len(requests) : Priority[requests[i]] > Priority[r]
        /\ Len(requests') = Len(requests) + 1
        /\ \A i \in 1..(Len(requests) + 1) :
             requests'[i] = IF i <= k THEN requests[i]
                            ELSE IF i = k + 1 THEN r ELSE requests[i - 1]
  BY PushElements
<1> SUFFICES ASSUME NEW i \in 1..Len(requests'), NEW j \in 1..Len(requests'), i < j
             PROVE  Priority[requests'[i]] <= Priority[requests'[j]]
  BY DEF Sorted
<1>3. CASE j <= k
  BY <1>1, <1>3, SMTT(30) DEF Sorted
<1>4. CASE j = k + 1
  <2>1. requests'[j] = r /\ requests'[i] = requests[i] /\ i \in 1..k
    BY <1>1, <1>4
  <2> QED  BY <1>1, <2>1
<1>5. CASE j > k + 1 /\ i <= k
  <2>1. requests'[j] = requests[j - 1] /\ requests'[i] = requests[i]
        /\ i \in 1..Len(requests) /\ j - 1 \in 1..Len(requests) /\ i < j - 1
    BY <1>1, <1>5
  <2> QED  BY <2>1 DEF Sorted
<1>6. CASE j > k + 1 /\ i = k + 1
  <2>1. requests'[j] = requests[j - 1] /\ requests'[i] = r /\ j - 1 \in (k + 1)..Len(requests)
    BY <1>1, <1>6
  <2>2. requests[j - 1] \in Request /\ Priority[requests[j - 1]] > Priority[r]
    BY <1>1, <2>1
  <2>3. Priority[r] <= Priority[requests[j - 1]]
    BY <2>2, PriorityType
  <2> QED  BY <2>1, <2>3
<1>7. CASE j > k + 1 /\ i > k + 1
  <2>1. requests'[j] = requests[j - 1] /\ requests'[i] = requests[i - 1]
        /\ i - 1 \in 1..Len(requests) /\ j - 1 \in 1..Len(requests) /\ i - 1 < j - 1
    BY <1>1, <1>7
  <2> QED  BY <2>1 DEF Sorted
<1> QED  BY <1>1, <1>3, <1>4, <1>5, <1>6, <1>7

\* So does every other step, which leaves the queue, its tail or nothing of it.
LEMMA SortedPreserved ==
    ASSUME TypeOK, Sorted, [Next]_vars
    PROVE  Sorted'
<1> USE DEF TypeOK, vars, queueVars, slaveVars, reqVars, stopVars, resizeVars, poolVars
<1>1. CASE UNCHANGED requests
  BY <1>1 DEF Sorted
<1>2. CASE requests' = <<>>
  BY <1>2 DEF Sorted
<1>3. CASE requests # <<>> /\ requests' = Tail(requests)
  <2> SUFFICES ASSUME NEW i \in 1..Len(requests'), NEW j \in 1..Len(requests'), i < j
               PROVE  Priority[requests'[i]] <= Priority[requests'[j]]
    BY DEF Sorted
  <2>1. /\ requests'[i] = requests[i + 1] /\ requests'[j] = requests[j + 1] /\ i + 1 < j + 1
        /\ i + 1 \in 1..Len(requests) /\ j + 1 \in 1..Len(requests)
    BY <1>3
  <2> QED  BY <2>1 DEF Sorted
<1>4. ASSUME NEW r \in Request, AdmitPush(r) PROVE Sorted'
  BY <1>1, <1>4, PushSorted DEF AdmitPush
<1>5. ASSUME NEW r \in Request, UserStart(r) \/ PostPush(r) PROVE UNCHANGED requests
  BY <1>5 DEF UserStart, PostPush
<1>6. ASSUME NEW t \in Slave, SlaveStep(t)
      PROVE  UNCHANGED requests \/ (requests # <<>> /\ requests' = Tail(requests))
  BY <1>6 DEF SlaveStep, StartThread, CheckQueue, ExitThread, Wait, Dequeue, Fetched,
              InitRequest, RunUser, RunStop, PushedClean, RunClean, EraseSlave,
              FinishRequest, LeaveRequest
<1>7. CASE CallClear \/ BeginStop \/ StopStep
  BY <1>1, <1>2, <1>7 DEF CallClear, BeginStop, StopStep, StopClear, ClearRequests,
                          QuitSlaves, JoinSlave, StopReturns
<1>8. CASE (\E m \in ResizeArgs : BeginResize(m)) \/ ResizeStep
  BY <1>1, <1>8 DEF BeginResize, ResizeStep, GrowNew, GrowAdmit, GrowRefused, GrowDelete,
                    GrowEnd, ShrinkOne, ShrinkNext, ResizeReturns
<1> QED  BY <1>1, <1>2, <1>3, <1>4, <1>5, <1>6, <1>7, <1>8 DEF Next, Terminated

\* What UrgentFirst says of a step.
TakesUrgent ==
    \A t \in Slave : pReq[t] = NoReq /\ pReq'[t] # NoReq =>
        \A r \in ToSet(requests') : Priority[pReq'[t]] <= Priority[r]

\* The first request of a queue in order is one no other is more urgent than.
LEMMA HeadIsUrgent ==
    ASSUME TypeOK, Sorted, requests # <<>>
    PROVE  \A r \in ToSet(Tail(requests)) : Priority[Head(requests)] <= Priority[r]
<1> USE DEF TypeOK
<1>1. Tail(requests) \in Seq(Request)
  OBVIOUS
<1>2. ToSet(Tail(requests)) = {Tail(requests)[i] : i \in 1..Len(Tail(requests))}
  BY <1>1, ToSetElements
<1>3. ASSUME NEW i \in 1..Len(Tail(requests))
      PROVE  Priority[Head(requests)] <= Priority[Tail(requests)[i]]
  <2>1. /\ Tail(requests)[i] = requests[i + 1] /\ Head(requests) = requests[1]
        /\ 1 \in 1..Len(requests) /\ i + 1 \in 1..Len(requests) /\ 1 < i + 1
    OBVIOUS
  <2> QED  BY <2>1 DEF Sorted
<1> QED  BY <1>2, <1>3

\* Requests are taken in Dequeue() only.
LEMMA StepTakesUrgent ==
    ASSUME TypeOK, Sorted, [Next]_vars
    PROVE  TakesUrgent
<1> USE DEF TypeOK, vars, queueVars, slaveVars, reqVars, stopVars, resizeVars, poolVars
<1>1. CASE \A t \in Slave : pReq'[t] \in {pReq[t], NoReq}
  BY <1>1 DEF TakesUrgent
<1>2. ASSUME NEW t \in Slave, Dequeue(t) PROVE TakesUrgent
  <2>1. CASE requests = <<>>
    BY <1>1, <1>2, <2>1 DEF Dequeue
  <2>2. CASE requests # <<>>
    <3>1. requests' = Tail(requests) /\ pReq' = [pReq EXCEPT ![t] = Head(requests)]
      BY <1>2, <2>2 DEF Dequeue
    <3>2. \A r \in ToSet(requests') : Priority[Head(requests)] <= Priority[r]
      BY <2>2, <3>1, HeadIsUrgent
    <3> QED  BY <3>1, <3>2 DEF TakesUrgent
  <2> QED  BY <2>1, <2>2
<1>3. ASSUME NEW t \in Slave, SlaveStep(t), ~Dequeue(t)
      PROVE  \A u \in Slave : pReq'[u] \in {pReq[u], NoReq}
  BY <1>3 DEF SlaveStep, StartThread, CheckQueue, ExitThread, Wait, Fetched,
              InitRequest, RunUser, RunStop, PushedClean, RunClean, EraseSlave,
              FinishRequest, LeaveRequest
<1>4. CASE \E r \in Request : UserStart(r) \/ AdmitPush(r) \/ PostPush(r)
  BY <1>1, <1>4 DEF UserStart, AdmitPush, PostPush
<1>5. CASE CallClear \/ BeginStop \/ StopStep
  BY <1>1, <1>5 DEF CallClear, BeginStop, StopStep, StopClear, QuitSlaves, JoinSlave,
                    StopReturns
<1>6. CASE (\E m \in ResizeArgs : BeginResize(m)) \/ ResizeStep
  BY <1>1, <1>6 DEF BeginResize, ResizeStep, GrowNew, GrowAdmit, GrowRefused, GrowDelete,
                    GrowEnd, ShrinkOne, ShrinkNext, ResizeReturns
<1>7. CASE UNCHANGED vars
  BY <1>1, <1>7
<1> QED  BY <1>1, <1>2, <1>3, <1>4, <1>5, <1>6, <1>7 DEF Next, Terminated

\* A slave takes a request no queued one is more urgent than, however pushes,
\* clearRequests() and other slaves come in between: HighPerfPriority_Queue stays
\* in order.
THEOREM MostUrgentFirst == Spec => UrgentFirst
<1>1. Init => Sorted
  BY DEF Init, Sorted
<1>2. IInv /\ Sorted /\ [Next]_vars => Sorted'
  BY SortedPreserved DEF IInv
<1>3. Spec => [](IInv /\ Sorted)
  BY <1>1, <1>2, SpecIInv, PTL DEF Spec
<1>4. IInv /\ Sorted /\ [Next]_vars => [TakesUrgent]_vars
  BY StepTakesUrgent DEF IInv
<1>5. Spec => [][TakesUrgent]_vars
  BY <1>3, <1>4, PTL DEF Spec
<1> QED  BY <1>5 DEF TakesUrgent, UrgentFirst
-----------------------------------------------------------------------------
(* Which threads there are, who deletes their objects, and what callers owe   *)
(* to the pool for it.                                                        *)

\* What the pool asks of whoever calls stop() and resize(): stop() not before the
\* slaves' threads have begun, and neither of the two while a shrink is under way.
Careful ==
    {"startedBeforeStop", "settledBeforeStop", "settledBeforeResize"} \subseteq CallerRules

\* Nothing of a shrink is left: no StopRequest or CleanRequest is outstanding.
ShrinkOver == \A p \in StopReq \cup CleanReq : call[p] \in {"none", "refused"} \/ finals[p] > 0

\* Where stop() and resize() may be, of each other and of the threads they started.
Orderly ==
    /\ stopPc = "none" => running
    /\ stopPc # "none" => rzPc = "idle" /\ \A t \in Slave : pc[t] # "initial"
    /\ stopPc \in {"none", "clear", "quit"} => joining = {}
    /\ stopPc \in {"join", "done"} => sthrPool = {}
    /\ rzPc # "delete" /\ (rzPc # "admit" => rzNew = {})
    /\ stopPc # "none" \/ rzPc \in {"grow", "admit"} => ShrinkOver

\* A slave between two requests, or without a thread, has none in hand; what one
\* still holds at the head of its loop it has popped before it was told to quit.
HandsEmpty ==
    \A t \in Slave :
        /\ pc[t] \in {"unborn", "initial", "wait", "dequeue", "disabled"} => pReq[t] = NoReq
        /\ pc[t] = "check" /\ pReq[t] # NoReq => bQuit[t]

\* The CleanRequest for a slave comes from the slave itself, on its way out.
CleansOwn ==
    \A u \in Slave : call[CleanOf[u]] # "none" =>
        bQuit[u] /\ pc[u] \in {"push", "final", "leave", "check", "disabled"}

\* The CleanRequest of a slave is past its delete.
Cleaned(u) ==
    \/ finals[CleanOf[u]] > 0
    \/ \E t \in Slave : pReq[t] = CleanOf[u] /\ pc[t] \in {"erase", "final", "leave"}

Erasing(u) == \E t \in Slave : pReq[t] = CleanOf[u] /\ pc[t] = "erase"

\* Who deletes a slave, and when: its CleanRequest, whose pointer is then still in
\* _SThrPool until it is erased, or stop(), which finds no such pointer.
Deletions ==
    /\ \A u \in Slave :
        deletes[u] > 0 =>
            /\ deletes[u] = 1 /\ pc[u] = "disabled"
            /\ stopPc = "none" => Cleaned(u) /\ (u \in sthrPool => Erasing(u))
            /\ u \notin joining \cup rzNew
            /\ stopPc # "none" => u \notin sthrPool
    /\ \A t, u \in Slave : pc[t] = "erase" /\ pReq[t] = CleanOf[u] => deletes[u] > 0

\* Every slave that has or gets a thread is in _SThrPool, or with the one who is
\* about to put it there, or to join it.
Accounted ==
    /\ \A t \in Slave : pc[t] \notin {"unborn", "disabled"} => t \in sthrPool \cup joining \cup rzNew
    /\ \A t \in sthrPool \cup joining \cup rzNew : pc[t] # "unborn"

Threads == Orderly /\ HandsEmpty /\ CleansOwn /\ Deletions /\ Accounted

\* What Careful makes of the conditions of stop() and resize().
LEMMA RulesKept ==
    ASSUME Careful
    PROVE  /\ Rule("startedBeforeStop") => \A t \in Slave : pc[t] # "initial"
           /\ Rule("settledBeforeStop") => Settled
           /\ Rule("settledBeforeResize") => Settled
BY DEF Careful, Rule

\* Requests of the three kinds are different ones, and so are the CleanRequests of
\* different slaves.
LEMMA KindsOfRequests ==
    /\ UserReq \cup StopReq \cup CleanReq = Request
    /\ UserReq \cap StopReq = {} /\ UserReq \cap CleanReq = {} /\ StopReq \cap CleanReq = {}
    /\ NoReq \notin Request
    /\ \A u \in Slave : CleanOf[u] \in CleanReq
    /\ \A t, u \in Slave : CleanOf[t] = CleanOf[u] => t = u
BY PoolAssumption DEF Request

\* Once no shrink is under way, a slave that has a StopRequest or a CleanRequest in
\* hand is about to put it down.
LEMMA ShrinkIsOver ==
    ASSUME TypeOK, Ownership, ShrinkOver, NEW t \in Slave, pReq[t] \in StopReq \cup CleanReq
    PROVE  pc[t] = "leave"
<1>1. pReq[t] \in Request
  BY KindsOfRequests
<1>2. Accepted(pReq[t]) /\ (pc[t] # "leave" => finals[pReq[t]] = 0)
  BY <1>1 DEF Ownership, HeldByOne
<1>3. call[pReq[t]] \notin {"none", "refused"}
  BY <1>2 DEF Accepted
<1>4. finals[pReq[t]] > 0
  BY <1>3 DEF ShrinkOver
<1> QED  BY <1>2, <1>4

LEMMA HandsStep ==
    ASSUME TypeOK, HandsEmpty, [Next]_vars
    PROVE  HandsEmpty'
<1> USE DEF TypeOK, HandsEmpty, Goto, SlavePc, vars, queueVars, slaveVars, reqVars, stopVars,
            resizeVars, poolVars
<1>1. CASE UNCHANGED <<pc, pReq, bQuit>>
  BY <1>1
<1>2. ASSUME NEW r \in Request, UserStart(r) \/ AdmitPush(r) \/ PostPush(r) PROVE HandsEmpty'
  BY <1>1, <1>2 DEF UserStart, AdmitPush, PostPush
<1>3. ASSUME NEW t \in Slave, SlaveStep(t) PROVE HandsEmpty'
  <2>1. CASE StartThread(t) \/ CheckQueue(t) \/ Wait(t)
    BY <2>1 DEF StartThread, CheckQueue, Wait
  <2>2. CASE ExitThread(t)
    BY <2>2 DEF ExitThread
  <2>3. CASE Dequeue(t)
    BY <2>3 DEF Dequeue
  <2>4. CASE Fetched(t)
    BY <2>4 DEF Fetched
  <2>5. CASE InitRequest(t)
    BY <2>5 DEF InitRequest
  <2>6. CASE RunUser(t) \/ RunStop(t) \/ PushedClean(t) \/ RunClean(t) \/ EraseSlave(t)
    BY <2>6 DEF RunUser, RunStop, PushedClean, RunClean, EraseSlave
  <2>7. CASE FinishRequest(t) \/ LeaveRequest(t)
    BY <2>7 DEF FinishRequest, LeaveRequest
  <2> QED  BY <1>3, <2>1, <2>2, <2>3, <2>4, <2>5, <2>6, <2>7 DEF SlaveStep
<1>4. CASE CallClear \/ BeginStop \/ StopClear \/ StopReturns \/ \E t \in Slave : JoinSlave(t)
  BY <1>1, <1>4 DEF CallClear, BeginStop, StopClear, StopReturns, JoinSlave
<1>5. CASE QuitSlaves
  BY <1>5 DEF QuitSlaves
<1>6. CASE GrowNew
  BY <1>6 DEF GrowNew
<1>7. CASE (\E m \in ResizeArgs : BeginResize(m)) \/ GrowAdmit \/ GrowRefused
           \/ GrowDelete \/ GrowEnd \/ ShrinkOne \/ ShrinkNext \/ ResizeReturns
  BY <1>1, <1>7 DEF BeginResize, GrowAdmit, GrowRefused, GrowDelete, GrowEnd, ShrinkOne,
                    ShrinkNext, ResizeReturns
<1> QED  BY <1>1, <1>2, <1>3, <1>4, <1>5, <1>6, <1>7 DEF Next, StopStep, ResizeStep, Terminated

LEMMA CleansOwnStep ==
    ASSUME TypeOK, CleansOwn, [Next]_vars
    PROVE  CleansOwn'
<1> USE DEF TypeOK, CleansOwn, Goto, SlavePc, vars, queueVars, slaveVars, reqVars, stopVars,
            resizeVars, poolVars
<1>0. ASSUME \A u \in Slave : call'[CleanOf[u]] # "none" => call[CleanOf[u]] # "none",
             \A u \in Slave : call[CleanOf[u]] # "none" => bQuit'[u] /\ pc'[u] = pc[u]
      PROVE  CleansOwn'
  BY <1>0
<1>1. ASSUME NEW r \in Request, UserStart(r) PROVE CleansOwn'
  BY <1>0, <1>1, KindsOfRequests DEF UserStart, EnterPush
<1>2. ASSUME NEW r \in Request, AdmitPush(r) \/ PostPush(r) PROVE CleansOwn'
  BY <1>0, <1>2, KindsOfRequests DEF AdmitPush, PostPush
<1>3. ASSUME NEW t \in Slave, SlaveStep(t) PROVE CleansOwn'
  <2>1. CASE UNCHANGED <<call, bQuit>> /\ pc' = [pc EXCEPT ![t] = pc'[t]]
             /\ (\/ pc[t] \notin {"push", "final", "leave", "check", "disabled"}
                 \/ pc'[t] \in {"push", "final", "leave", "check", "disabled"}
                 \/ ~bQuit[t])
    BY <2>1
  <2>2. CASE StartThread(t) \/ CheckQueue(t) \/ Wait(t) \/ Dequeue(t)
    BY <2>1, <2>2 DEF StartThread, CheckQueue, Wait, Dequeue
  <2>3. CASE ExitThread(t)
    BY <2>1, <2>3 DEF ExitThread
  <2>4. CASE Fetched(t)
    BY <2>1, <2>4 DEF Fetched
  <2>5. CASE InitRequest(t)
    BY <2>1, <2>5 DEF InitRequest
  <2>6. CASE RunUser(t) \/ PushedClean(t) \/ RunClean(t) \/ EraseSlave(t)
    BY <2>1, <2>6 DEF RunUser, PushedClean, RunClean, EraseSlave
  <2>7. CASE FinishRequest(t) \/ LeaveRequest(t)
    BY <2>1, <2>7 DEF FinishRequest, LeaveRequest
  <2>8. CASE RunStop(t)
    <3>1. /\ pc' = [pc EXCEPT ![t] = "push"] /\ bQuit' = [bQuit EXCEPT ![t] = TRUE]
          /\ \A r \in Request : r # CleanOf[t] => call'[r] = call[r]
      BY <2>8 DEF RunStop, EnterPush
    <3>2. \A u \in Slave : u # t => CleanOf[u] \in Request /\ CleanOf[u] # CleanOf[t]
      BY KindsOfRequests
    <3>3. \A u \in Slave : u # t => call'[CleanOf[u]] = call[CleanOf[u]]
      BY <3>1, <3>2
    <3>4. bQuit'[t] /\ pc'[t] = "push"
      BY <3>1
    <3>5. \A u \in Slave : u # t => bQuit'[u] = bQuit[u] /\ pc'[u] = pc[u]
      BY <3>1
    <3>6. \A u \in Slave : u # t /\ call'[CleanOf[u]] # "none" =>
            bQuit'[u] /\ pc'[u] \in {"push", "final", "leave", "check", "disabled"}
      BY <3>3, <3>5
    <3> HIDE DEF TypeOK
    <3> QED  BY <3>4, <3>6
  <2> QED  BY <1>3, <2>2, <2>3, <2>4, <2>5, <2>6, <2>7, <2>8 DEF SlaveStep
<1>4. CASE CallClear \/ BeginStop \/ StopStep
  BY <1>0, <1>4 DEF CallClear, BeginStop, StopStep, StopClear, QuitSlaves, JoinSlave, StopReturns
<1>5. CASE GrowNew
  BY <1>5 DEF GrowNew
<1>6. CASE ShrinkOne
  BY <1>0, <1>6, KindsOfRequests DEF ShrinkOne, EnterPush
<1>7. CASE (\E m \in ResizeArgs : BeginResize(m)) \/ GrowAdmit \/ GrowRefused
           \/ GrowDelete \/ GrowEnd \/ ShrinkNext \/ ResizeReturns
  BY <1>0, <1>7 DEF BeginResize, GrowAdmit, GrowRefused, GrowDelete, GrowEnd, ShrinkNext,
                    ResizeReturns
<1>8. CASE UNCHANGED vars
  BY <1>0, <1>8
<1> QED  BY <1>1, <1>2, <1>3, <1>4, <1>5, <1>6, <1>7, <1>8 DEF Next, ResizeStep, Terminated

\* stop() and resize() keep out of each other's way, with callers who are careful.
LEMMA ShrinkOverKept ==
    ASSUME TypeOK, HasRequest, Ownership, ShrinkOver, [Next]_vars, ~ShrinkOne
    PROVE  ShrinkOver'
<1> USE DEF TypeOK, Goto, SlavePc, vars, queueVars, slaveVars, reqVars, stopVars,
            resizeVars, poolVars
<1>0. ASSUME \A p \in StopReq \cup CleanReq :
               (finals[p] > 0 => finals'[p] > 0) /\ (call'[p] = call[p] \/ finals[p] > 0)
      PROVE  ShrinkOver'
  BY <1>0 DEF ShrinkOver
<1>a. \A p \in StopReq \cup CleanReq : p \in Request /\ finals[p] \in Nat /\ p \notin UserReq
  BY KindsOfRequests
<1>1. ASSUME NEW r \in Request, UserStart(r) \/ PostPush(r) PROVE ShrinkOver'
  <2>1. CASE UserStart(r)
    BY <1>0, <1>a, <2>1 DEF UserStart, EnterPush
  <2>2. CASE PostPush(r)
    <3>1. call[r] = "post" /\ finals' = finals /\ \A p \in Request : p # r => call'[p] = call[p]
      BY <2>2 DEF PostPush
    <3>2. r \in StopReq \cup CleanReq => finals[r] > 0
      BY <3>1 DEF ShrinkOver
    <3> QED  BY <1>0, <1>a, <3>1, <3>2
  <2> QED  BY <1>1, <2>1, <2>2
<1>2. ASSUME NEW r \in Request, AdmitPush(r) PROVE ShrinkOver'
  <2>1. call[r] = "admit" /\ finals' = finals /\ \A p \in Request : p # r => call'[p] = call[p]
    BY <1>2 DEF AdmitPush
  <2>2. r \in StopReq \cup CleanReq => finals[r] > 0
    BY <2>1 DEF ShrinkOver
  <2> QED  BY <1>0, <1>a, <2>1, <2>2
<1>3. ASSUME NEW t \in Slave, SlaveStep(t) PROVE ShrinkOver'
  <2>1. CASE UNCHANGED <<call, finals>>
    BY <1>0, <2>1
  <2>2. CASE ExitThread(t)
    <3>1. call' = call /\ (finals' = finals
                           \/ (pReq[t] # NoReq /\ finals' = [finals EXCEPT ![pReq[t]] = @ + 1]))
      BY <2>2 DEF ExitThread
    <3> QED  BY <1>0, <1>a, <3>1, SMTT(30)
  <2>3. CASE FinishRequest(t)
    <3>1. call' = call /\ pReq[t] \in Request /\ finals' = [finals EXCEPT ![pReq[t]] = @ + 1]
      BY <2>3 DEF FinishRequest, HasRequest, InRequest
    <3> QED  BY <1>0, <1>a, <3>1
  <2>4. CASE RunStop(t)
    <3>1. pc[t] = "run" /\ pReq[t] \in StopReq
      BY <2>4 DEF RunStop
    <3> QED  BY <3>1, ShrinkIsOver
  <2> QED  BY <1>3, <2>1, <2>2, <2>3, <2>4 DEF SlaveStep, StartThread, CheckQueue, Wait, Dequeue,
              Fetched, InitRequest, RunUser, PushedClean, RunClean, EraseSlave, LeaveRequest
<1>4. CASE CallClear \/ StopClear
  <2>1. call' = call /\ finals' = [r \in Request |-> finals[r] + IF r \in ToSet(requests) THEN 1 ELSE 0]
    BY <1>4 DEF CallClear, StopClear, ClearRequests
  <2> QED  BY <1>0, <1>a, <2>1
<1>5. CASE BeginStop \/ QuitSlaves \/ StopReturns \/ \E t \in Slave : JoinSlave(t)
  BY <1>0, <1>5 DEF BeginStop, QuitSlaves, JoinSlave, StopReturns
<1>6. CASE (\E m \in ResizeArgs : BeginResize(m)) \/ GrowNew \/ GrowAdmit \/ GrowRefused
           \/ GrowDelete \/ GrowEnd \/ ShrinkNext \/ ResizeReturns
  BY <1>0, <1>6 DEF BeginResize, GrowNew, GrowAdmit, GrowRefused, GrowDelete, GrowEnd, ShrinkNext,
                    ResizeReturns
<1>7. CASE UNCHANGED vars
  BY <1>0, <1>7
<1> QED  BY <1>1, <1>2, <1>3, <1>4, <1>5, <1>6, <1>7 DEF Next, StopStep, ResizeStep, Terminated

LEMMA OrderlyStep ==
    ASSUME Careful, IInv, Ownership, Orderly, [Next]_vars
    PROVE  Orderly'
<1> USE DEF IInv, TypeOK, Orderly, Goto, SlavePc, vars, queueVars, slaveVars, reqVars, stopVars,
            resizeVars, poolVars
<1>0. ~ShrinkOne /\ ShrinkOver => ShrinkOver'
  BY ShrinkOverKept
<1>1. CASE UNCHANGED <<stopVars, rzPc, rzNew, running, sthrPool>> /\ ~ShrinkOne
           /\ \A t \in Slave : pc'[t] = "initial" => pc[t] = "initial"
  BY <1>0, <1>1
<1>2. ASSUME NEW r \in Request, UserStart(r) \/ AdmitPush(r) \/ PostPush(r)
      PROVE  Orderly'
  <2>1. CASE ShrinkOne
    BY <2>1, <1>2 DEF ShrinkOne, UserStart, AdmitPush, PostPush
  <2> QED  BY <1>1, <1>2, <2>1 DEF UserStart, AdmitPush, PostPush
<1>3. ASSUME NEW t \in Slave, SlaveStep(t) PROVE Orderly'
  <2>0. ~ShrinkOne
    BY <1>3 DEF ShrinkOne, SlaveStep, StartThread, CheckQueue, Wait, Dequeue, ExitThread, Fetched,
                InitRequest, RunUser, RunStop, PushedClean, RunClean, EraseSlave, FinishRequest,
                LeaveRequest
  <2>1. CASE EraseSlave(t)
    <3>1. /\ UNCHANGED <<stopVars, rzPc, rzNew, running>> /\ sthrPool' \subseteq sthrPool
          /\ \A u \in Slave : pc'[u] = "initial" => pc[u] = "initial"
      BY <2>1 DEF EraseSlave
    <3> QED  BY <1>0, <2>0, <3>1
  <2>2. CASE ~EraseSlave(t)
    <3>1. UNCHANGED <<stopVars, rzPc, rzNew, running, sthrPool>>
      BY <1>3, <2>2 DEF SlaveStep, StartThread, CheckQueue, Wait, Dequeue, ExitThread, Fetched,
                InitRequest, RunUser, RunStop, PushedClean, RunClean, FinishRequest,
                LeaveRequest
    <3>2. \A u \in Slave : pc'[u] = "initial" => pc[u] = "initial"
      BY <1>3, <2>2 DEF SlaveStep, StartThread, CheckQueue, Wait, Dequeue, ExitThread, Fetched,
                InitRequest, RunUser, RunStop, PushedClean, RunClean, FinishRequest,
                LeaveRequest
    <3> QED  BY <1>1, <2>0, <3>1, <3>2
  <2> QED  BY <2>1, <2>2
<1>4. CASE CallClear
  BY <1>1, <1>4 DEF CallClear, ShrinkOne
<1>5. CASE BeginStop
  <2>1. Settled /\ \A t \in Slave : pc[t] # "initial"
    BY <1>5, RulesKept DEF BeginStop
  <2>2. ShrinkOver /\ rzPc = "idle"
    BY <2>1 DEF Settled, ShrinkOver
  <2>3. ~ShrinkOne
    BY <2>2 DEF ShrinkOne
  <2> QED  BY <1>0, <1>5, <2>1, <2>2, <2>3 DEF BeginStop
<1>6. CASE StopStep
  <2>1. ~ShrinkOne /\ stopPc # "none"
    BY <1>6 DEF ShrinkOne, StopStep, StopClear, QuitSlaves, StopReturns, JoinSlave
  <2>2. CASE StopClear
    BY <1>0, <2>1, <2>2 DEF StopClear
  <2>3. CASE QuitSlaves
    BY <1>0, <2>1, <2>3 DEF QuitSlaves
  <2>4. CASE StopReturns
    BY <1>0, <2>1, <2>4 DEF StopReturns
  <2>5. CASE \E t \in Slave : JoinSlave(t)
    BY <1>0, <2>1, <2>5 DEF JoinSlave
  <2> QED  BY <1>6, <2>2, <2>3, <2>4, <2>5 DEF StopStep
<1>7. ASSUME NEW m \in ResizeArgs, BeginResize(m) PROVE Orderly'
  <2>1. Settled
    BY <1>7, RulesKept DEF BeginResize
  <2>2. ShrinkOver /\ rzPc = "idle" /\ running
    BY <1>7, <2>1 DEF Settled, ShrinkOver, BeginResize
  <2>3. ~ShrinkOne /\ stopPc = "none"
    BY <2>2 DEF ShrinkOne, StoppedIsEmpty
  <2> QED  BY <1>0, <1>7, <2>1, <2>2, <2>3 DEF BeginResize
<1>8. CASE ResizeStep
  <2>0. stopPc = "none" /\ running
    BY <1>8 DEF ResizeStep, GrowNew, GrowAdmit, GrowRefused, GrowDelete, GrowEnd, ShrinkOne,
                ShrinkNext, ResizeReturns
  <2>1. CASE ShrinkOne
    BY <2>0, <2>1 DEF ShrinkOne
  <2>2. CASE GrowNew
    BY <1>0, <2>0, <2>2 DEF GrowNew, ShrinkOne
  <2>3. CASE GrowAdmit
    BY <1>0, <2>0, <2>3 DEF GrowAdmit, ShrinkOne
  <2>4. CASE GrowRefused \/ GrowDelete
    BY <2>0, <2>4 DEF GrowRefused, GrowDelete
  <2>5. CASE GrowEnd \/ ShrinkNext \/ ResizeReturns
    BY <2>0, <2>5 DEF GrowEnd, ShrinkNext, ResizeReturns
  <2> QED  BY <1>8, <2>1, <2>2, <2>3, <2>4, <2>5 DEF ResizeStep
<1>9. CASE UNCHANGED vars
  BY <1>1, <1>9 DEF ShrinkOne
<1> QED  BY <1>2, <1>3, <1>4, <1>5, <1>6, <1>7, <1>8, <1>9 DEF Next, Terminated

\* The CleanRequest of a slave stays past its delete.
LEMMA CleanedKept ==
    ASSUME IInv, Ownership, [Next]_vars, NEW u \in Slave, Cleaned(u)
    PROVE  Cleaned(u)'
<1> USE DEF IInv, TypeOK, Goto, SlavePc, vars, queueVars, slaveVars, reqVars, stopVars, resizeVars,
            poolVars
<1> DEFINE r == CleanOf[u]
<1>a. r \in Request /\ r \in CleanReq
  BY KindsOfRequests
<1>b. finals[r] \in Nat /\ finals'[r] \in Nat
  BY <1>a, TypePreserved
<1>0. ASSUME finals'[r] >= finals[r],
             \A t \in Slave : pReq[t] = r /\ pc[t] \in {"erase", "final", "leave"} =>
                 pReq'[t] = r /\ pc'[t] \in {"erase", "final", "leave"}
      PROVE  Cleaned(u)'
  BY <1>0, <1>b DEF Cleaned
<1> HIDE DEF r
<1>c. ASSUME UNCHANGED <<finals, pReq>>,
             \A t \in Slave : pc'[t] = pc[t] \/ pc'[t] \in {"erase", "final", "leave"}
                               \/ pc[t] \notin {"erase", "final", "leave"}
      PROVE  Cleaned(u)'
  <2>1. finals'[r] >= finals[r]
    BY <1>b, <1>c
  <2> QED  BY <1>0, <1>c, <2>1
<1>1. ASSUME NEW q \in Request, UserStart(q) \/ AdmitPush(q) \/ PostPush(q) PROVE Cleaned(u)'
  BY <1>c, <1>1 DEF UserStart, EnterPush, AdmitPush, PostPush
<1>2. ASSUME NEW t \in Slave, SlaveStep(t) PROVE Cleaned(u)'
  <2>1. CASE StartThread(t) \/ CheckQueue(t) \/ Wait(t)
    BY <1>c, <2>1 DEF StartThread, CheckQueue, Wait
  <2>2. CASE Dequeue(t)
    <3>1. finals'[r] >= finals[r]
      BY <1>b, <2>2 DEF Dequeue
    <3> QED  BY <1>0, <2>2, <3>1 DEF Dequeue
  <2>3. CASE Fetched(t)
    BY <1>c, <2>3 DEF Fetched
  <2>4. CASE ExitThread(t)
    <3>1. finals' = finals \/ (pReq[t] # NoReq /\ finals' = [finals EXCEPT ![pReq[t]] = @ + 1])
      BY <2>4 DEF ExitThread
    <3>2. CASE finals' = finals
      BY <1>c, <2>4, <3>2 DEF ExitThread
    <3>3. CASE pReq[t] # NoReq /\ finals' = [finals EXCEPT ![pReq[t]] = @ + 1]
      <4>1. pReq[t] \in Request
        BY <3>3
      <4>2. finals'[r] >= finals[r]
        BY <1>a, <1>b, <3>3, <4>1
      <4> QED  BY <1>0, <2>4, <4>2 DEF ExitThread
    <3> QED  BY <3>1, <3>2, <3>3
  <2>5. CASE InitRequest(t)
    BY <1>c, <2>5 DEF InitRequest
  <2>6. CASE RunUser(t) \/ RunStop(t) \/ PushedClean(t)
    BY <1>c, <2>6 DEF RunUser, RunStop, EnterPush, PushedClean
  <2>7. CASE RunClean(t) \/ EraseSlave(t)
    BY <1>c, <2>7 DEF RunClean, EraseSlave
  <2>8. CASE FinishRequest(t)
    <3>1. pReq[t] \in Request /\ finals' = [finals EXCEPT ![pReq[t]] = @ + 1]
      BY <2>8 DEF FinishRequest, HasRequest, InRequest
    <3>2. finals'[r] >= finals[r]
      BY <1>a, <1>b, <3>1
    <3> QED  BY <1>0, <2>8, <3>2 DEF FinishRequest
  <2>9. CASE LeaveRequest(t)
    <3>1. CASE pReq[t] = r
      <4>1. finals[r] = 1 /\ finals' = finals
        BY <1>a, <2>9, <3>1 DEF LeaveRequest, Ownership, HeldByOne
      <4> QED  BY <4>1 DEF Cleaned, r
    <3>2. CASE pReq[t] # r
      <4>1. finals'[r] >= finals[r]
        BY <1>b, <2>9 DEF LeaveRequest
      <4> QED  BY <1>0, <2>9, <3>2, <4>1 DEF LeaveRequest
    <3> QED  BY <3>1, <3>2
  <2> QED  BY <1>2, <2>1, <2>2, <2>3, <2>4, <2>5, <2>6, <2>7, <2>8, <2>9 DEF SlaveStep
<1>3. CASE CallClear \/ StopClear
  <2>1. finals' = [q \in Request |-> finals[q] + IF q \in ToSet(requests) THEN 1 ELSE 0]
        /\ UNCHANGED <<pc, pReq>>
    BY <1>3 DEF CallClear, StopClear, ClearRequests
  <2>2. finals'[r] >= finals[r]
    BY <1>a, <1>b, <2>1
  <2> QED  BY <1>0, <2>1, <2>2
<1>4. CASE BeginStop \/ QuitSlaves \/ StopReturns \/ \E t \in Slave : JoinSlave(t)
  BY <1>c, <1>4 DEF BeginStop, QuitSlaves, JoinSlave, StopReturns
<1>5. CASE GrowNew
  BY <1>c, <1>5 DEF GrowNew
<1>6. CASE (\E m \in ResizeArgs : BeginResize(m)) \/ GrowAdmit \/ GrowRefused
           \/ GrowDelete \/ GrowEnd \/ ShrinkOne \/ ShrinkNext \/ ResizeReturns
  BY <1>c, <1>6 DEF BeginResize, GrowAdmit, GrowRefused, GrowDelete, GrowEnd, ShrinkOne, EnterPush,
                    ShrinkNext, ResizeReturns
<1>7. CASE UNCHANGED vars
  BY <1>c, <1>7
<1> QED  BY <1>1, <1>2, <1>3, <1>4, <1>5, <1>6, <1>7 DEF Next, StopStep, ResizeStep, Terminated

\* A step that deletes nothing: a dead slave stays dead and nobody picks it up, and
\* its pointer is in the list until it is erased.
LEMMA DeletionsKept ==
    ASSUME IInv, Ownership, Deletions, [Next]_vars,
           deletes' = deletes,
           stopPc' = "none" => stopPc = "none",
           \A u \in Slave : deletes[u] > 0 =>
               /\ pc'[u] = pc[u]
               /\ u \in joining' \cup rzNew' => u \in joining \cup rzNew
               /\ u \in sthrPool' => u \in sthrPool
               /\ stopPc = "none" /\ stopPc' # "none" => u \notin sthrPool,
           \A t \in Slave : pc[t] = "erase" =>
               \/ pc'[t] = "erase" /\ pReq'[t] = pReq[t]
               \/ \A u \in sthrPool' : CleanOf[u] # pReq[t],
           \A t \in Slave : pc'[t] = "erase" => pc[t] = "erase" /\ pReq'[t] = pReq[t]
    PROVE  Deletions'
<1>1. ASSUME NEW u \in Slave, deletes'[u] > 0
      PROVE  /\ deletes'[u] = 1 /\ pc'[u] = "disabled"
             /\ stopPc' = "none" => Cleaned(u)' /\ (u \in sthrPool' => Erasing(u)')
             /\ u \notin joining' \cup rzNew'
             /\ stopPc' # "none" => u \notin sthrPool'
  <2>1. deletes[u] > 0
    BY <1>1
  <2>2. deletes'[u] = 1 /\ pc'[u] = "disabled" /\ u \notin joining' \cup rzNew'
    BY <2>1 DEF Deletions
  <2>3. stopPc' = "none" => Cleaned(u)'
    BY <2>1, CleanedKept DEF Deletions
  <2>4. ASSUME stopPc' = "none", u \in sthrPool' PROVE Erasing(u)'
    <3>1. Erasing(u)
      BY <2>1, <2>4 DEF Deletions
    <3>2. PICK t \in Slave : pReq[t] = CleanOf[u] /\ pc[t] = "erase"
      BY <3>1 DEF Erasing
    <3> QED  BY <2>4, <3>2 DEF Erasing
  <2>5. stopPc' # "none" => u \notin sthrPool'
    BY <2>1 DEF Deletions
  <2> QED  BY <2>2, <2>3, <2>4, <2>5
<1>2. ASSUME NEW t \in Slave, NEW u \in Slave, pc'[t] = "erase", pReq'[t] = CleanOf[u]
      PROVE  deletes'[u] > 0
  BY <1>2 DEF Deletions
<1> QED  BY <1>1, <1>2, Zenon DEF Deletions

\* CleanRequest::run() of a slave: it deletes that slave, for the first time and
\* after its thread has ended.
LEMMA CleanDeletes ==
    ASSUME IInv, Ownership, Orderly, CleansOwn, Deletions, [Next]_vars,
           NEW t \in Slave, RunClean(t)
    PROVE  Deletions'
<1> USE DEF IInv, TypeOK, Goto, SlavePc
<1>1. PICK u \in Slave : /\ pReq[t] = CleanOf[u] /\ ~ThreadRunning(u)
                         /\ deletes' = [deletes EXCEPT ![u] = @ + 1]
  BY DEF RunClean, Delete
<1>2. /\ pc[t] = "run" /\ pc' = [pc EXCEPT ![t] = "erase"]
      /\ UNCHANGED <<pReq, bQuit, finals, sthrPool, stopPc, joining, rzNew>>
  BY DEF RunClean, reqVars, stopVars, resizeVars
<1>3. CleanOf[u] \in CleanReq /\ CleanOf[u] \in Request
  BY KindsOfRequests
<1>4. Accepted(CleanOf[u]) /\ finals[CleanOf[u]] = 0 /\ \A v \in Slave : pReq[v] = CleanOf[u] => v = t
  BY <1>1, <1>2, <1>3 DEF Ownership, HeldByOne
<1>5. pc[u] = "disabled" /\ u # t
  BY <1>1, <1>2, <1>4 DEF CleansOwn, Accepted, ThreadRunning
<1>6. stopPc = "none" /\ rzNew = {} /\ joining = {}
  <2>1. ~ShrinkOver
    BY <1>1, <1>2, <1>3, ShrinkIsOver
  <2> QED  BY <2>1 DEF Orderly
<1>7. ~Cleaned(u)
  BY <1>2, <1>4 DEF Cleaned
<1>8. deletes[u] = 0
  BY <1>6, <1>7 DEF Deletions
<1>9. \A v \in Slave : v # u => deletes'[v] = deletes[v] /\ CleanOf[v] # CleanOf[u]
  BY <1>1, KindsOfRequests
<1>10. ASSUME NEW v \in Slave, deletes'[v] > 0
       PROVE  /\ deletes'[v] = 1 /\ pc'[v] = "disabled"
              /\ Cleaned(v)' /\ (v \in sthrPool' => Erasing(v)')
  <2>1. CASE v = u
    <3>1. deletes'[u] = 1 /\ pc'[u] = "disabled"
      BY <1>1, <1>2, <1>5, <1>8
    <3>2. pReq'[t] = CleanOf[u] /\ pc'[t] = "erase"
      BY <1>1, <1>2
    <3> QED  BY <2>1, <3>1, <3>2 DEF Cleaned, Erasing
  <2>2. CASE v # u
    <3>1. deletes[v] > 0 /\ deletes'[v] = deletes[v]
      BY <1>9, <1>10, <2>2
    <3>2. deletes[v] = 1 /\ pc[v] = "disabled" /\ Cleaned(v) /\ (v \in sthrPool => Erasing(v))
      BY <1>6, <3>1 DEF Deletions
    <3>3. pc'[v] = "disabled" /\ (v \in sthrPool' => Erasing(v)')
      BY <1>2, <3>2 DEF Erasing
    <3> QED  BY <3>1, <3>2, <3>3, CleanedKept
  <2> QED  BY <2>1, <2>2
<1>11. ASSUME NEW v \in Slave, NEW w \in Slave, pc'[v] = "erase", pReq'[v] = CleanOf[w]
       PROVE  deletes'[w] > 0
  <2>1. CASE w = u
    BY <1>1, <1>8, <2>1
  <2>2. CASE w # u
    <3>1. v # t
      BY <1>1, <1>2, <1>9, <1>11, <2>2
    <3>2. pc[v] = "erase" /\ pReq[v] = CleanOf[w]
      BY <1>2, <1>11, <3>1
    <3> QED  BY <1>9, <2>2, <3>2 DEF Deletions
  <2> QED  BY <2>1, <2>2
<1> QED  BY <1>2, <1>6, <1>10, <1>11 DEF Deletions

\* stop() deletes a slave it has joined.
LEMMA JoinDeletes ==
    ASSUME IInv, Orderly, Deletions, Accounted, NEW t \in Slave, JoinSlave(t)
    PROVE  Deletions'
<1> USE DEF IInv, TypeOK, SlavePc
<1>1. /\ stopPc = "join" /\ t \in joining /\ ~ThreadRunning(t)
      /\ deletes' = [deletes EXCEPT ![t] = @ + 1] /\ joining' = joining \ {t}
      /\ UNCHANGED <<stopPc, pc, pReq, sthrPool, rzNew>>
  BY DEF JoinSlave, Delete, slaveVars, resizeVars
<1>2. pc[t] = "disabled"
  BY <1>1 DEF ThreadRunning, Accounted, Orderly
<1>3. deletes[t] = 0 /\ sthrPool = {} /\ rzNew = {}
  BY <1>1 DEF Deletions, Orderly
<1>4. \A u \in Slave : u # t => deletes'[u] = deletes[u]
  BY <1>1
<1>5. deletes'[t] = 1
  BY <1>1, <1>3
<1> QED  BY <1>1, <1>2, <1>3, <1>4, <1>5 DEF Deletions

LEMMA DeletionsStep ==
    ASSUME Careful, IInv, Ownership, Threads, [Next]_vars
    PROVE  Deletions'
<1> USE DEF IInv, TypeOK, Threads, Goto, SlavePc, vars, queueVars, slaveVars, reqVars, stopVars,
            resizeVars, poolVars
<1>0. ASSUME UNCHANGED <<deletes, stopPc, joining, rzNew, sthrPool>>,
             \A u \in Slave : pc[u] = "disabled" => pc'[u] = "disabled",
             \A t \in Slave : (pc[t] = "erase" \/ pc'[t] = "erase") =>
                 pc'[t] = pc[t] /\ pReq'[t] = pReq[t]
      PROVE  Deletions'
  <2>1. \A u \in Slave : deletes[u] > 0 => pc'[u] = pc[u]
    BY <1>0 DEF Deletions
  <2> QED  BY <1>0, <2>1, DeletionsKept
<1>1. ASSUME NEW r \in Request, UserStart(r) \/ AdmitPush(r) \/ PostPush(r) PROVE Deletions'
  BY <1>0, <1>1 DEF UserStart, AdmitPush, PostPush
<1>2. ASSUME NEW t \in Slave, SlaveStep(t) PROVE Deletions'
  <2>1. CASE StartThread(t) \/ CheckQueue(t) \/ Wait(t)
    BY <1>0, <2>1 DEF StartThread, CheckQueue, Wait
  <2>2. CASE ExitThread(t) \/ Dequeue(t)
    BY <1>0, <2>2 DEF ExitThread, Dequeue
  <2>3. CASE Fetched(t) \/ InitRequest(t)
    BY <1>0, <2>3 DEF Fetched, InitRequest
  <2>4. CASE RunUser(t) \/ RunStop(t) \/ PushedClean(t)
    BY <1>0, <2>4 DEF RunUser, RunStop, PushedClean
  <2>5. CASE EraseSlave(t)
    <3>1. /\ pc[t] = "erase" /\ pc' = [pc EXCEPT ![t] = "final"] /\ pReq' = pReq
          /\ sthrPool' = {u \in sthrPool : CleanOf[u] # pReq[t]}
          /\ UNCHANGED <<deletes, stopPc, joining, rzNew>>
      BY <2>5 DEF EraseSlave
    <3>2. \A u \in Slave : deletes[u] > 0 => pc'[u] = pc[u]
      BY <3>1 DEF Deletions
    <3> QED  BY <3>1, <3>2, DeletionsKept
  <2>6. CASE FinishRequest(t) \/ LeaveRequest(t)
    BY <1>0, <2>6 DEF FinishRequest, LeaveRequest
  <2> QED  BY <1>2, <2>1, <2>2, <2>3, <2>4, <2>5, <2>6, CleanDeletes DEF SlaveStep
<1>3. CASE CallClear
  BY <1>0, <1>3 DEF CallClear
<1>4. CASE BeginStop
  <2>1. ShrinkOver
    BY <1>4, RulesKept DEF BeginStop, Settled, ShrinkOver
  <2>2. \A u \in Slave : ~Erasing(u)
    BY <2>1, ShrinkIsOver, KindsOfRequests DEF Erasing
  <2>3. \A u \in Slave : deletes[u] > 0 => u \notin sthrPool
    BY <2>2 DEF Deletions
  <2> QED  BY <1>4, <2>3, DeletionsKept DEF BeginStop
<1>5. CASE StopClear \/ StopReturns
  BY <1>5, DeletionsKept DEF StopClear, StopReturns
<1>6. CASE QuitSlaves
  <2>1. \A u \in Slave : deletes[u] > 0 => u \notin sthrPool
    BY <1>6 DEF QuitSlaves, Deletions
  <2> QED  BY <1>6, <2>1, DeletionsKept DEF QuitSlaves
<1>7. CASE \E t \in Slave : JoinSlave(t)
  BY <1>7, JoinDeletes
<1>8. CASE GrowNew
  <2>1. PICK t \in Slave : pc[t] = "unborn" /\ pc' = [pc EXCEPT ![t] = "initial"] /\ rzNew' = {t}
    BY <1>8 DEF GrowNew
  <2>2. \A u \in Slave : deletes[u] > 0 => pc'[u] = pc[u] /\ u \notin rzNew'
    BY <2>1 DEF Deletions
  <2>3. UNCHANGED <<deletes, stopPc, joining, sthrPool, pReq>>
    BY <1>8 DEF GrowNew
  <2>4. \A u \in Slave : pc[u] = "erase" \/ pc'[u] = "erase" => pc'[u] = pc[u]
    BY <2>1
  <2> QED  BY <2>2, <2>3, <2>4, DeletionsKept
<1>9. CASE GrowAdmit
  <2>1. \A u \in Slave : deletes[u] > 0 => u \notin rzNew
    BY DEF Deletions
  <2> QED  BY <1>9, <2>1, DeletionsKept DEF GrowAdmit
<1>10. CASE GrowRefused \/ GrowDelete
  BY <1>10 DEF GrowRefused, GrowDelete, Orderly, StoppedIsEmpty
<1>11. CASE (\E m \in ResizeArgs : BeginResize(m)) \/ GrowEnd \/ ShrinkOne \/ ShrinkNext
            \/ ResizeReturns
  BY <1>0, <1>11 DEF BeginResize, GrowEnd, ShrinkOne, ShrinkNext, ResizeReturns
<1>12. CASE UNCHANGED vars
  BY <1>0, <1>12
<1> QED  BY <1>1, <1>2, <1>3, <1>4, <1>5, <1>6, <1>7, <1>8, <1>9, <1>10, <1>11, <1>12
         DEF Next, StopStep, ResizeStep, Terminated

LEMMA AccountedStep ==
    ASSUME Careful, IInv, Threads, [Next]_vars
    PROVE  Accounted'
<1> USE DEF IInv, TypeOK, Threads, Goto, SlavePc, vars, queueVars, slaveVars, reqVars, stopVars,
            resizeVars, poolVars
<1>0. ASSUME UNCHANGED <<joining, rzNew, sthrPool>>,
             \A u \in Slave : pc[u] \in {"unborn", "disabled"} => pc'[u] = pc[u],
             \A u \in Slave : pc[u] # "unborn" => pc'[u] # "unborn"
      PROVE  Accounted'
  BY <1>0 DEF Accounted
<1>1. ASSUME NEW r \in Request, UserStart(r) \/ AdmitPush(r) \/ PostPush(r) PROVE Accounted'
  BY <1>0, <1>1 DEF UserStart, AdmitPush, PostPush
<1>2. ASSUME NEW t \in Slave, SlaveStep(t) PROVE Accounted'
  <2>1. CASE StartThread(t) \/ CheckQueue(t) \/ Wait(t)
    BY <1>0, <2>1 DEF StartThread, CheckQueue, Wait
  <2>2. CASE ExitThread(t) \/ Dequeue(t)
    BY <1>0, <2>2 DEF ExitThread, Dequeue
  <2>3. CASE Fetched(t) \/ InitRequest(t)
    BY <1>0, <2>3 DEF Fetched, InitRequest
  <2>4. CASE RunUser(t) \/ RunStop(t) \/ PushedClean(t) \/ RunClean(t)
    BY <1>0, <2>4 DEF RunUser, RunStop, PushedClean, RunClean
  <2>5. CASE EraseSlave(t)
    <3>1. /\ pc[t] = "erase" /\ pc' = [pc EXCEPT ![t] = "final"]
          /\ sthrPool' = {u \in sthrPool : CleanOf[u] # pReq[t]}
          /\ UNCHANGED <<joining, rzNew>>
      BY <2>5 DEF EraseSlave
    <3>2. \A u \in Slave : CleanOf[u] = pReq[t] => pc[u] = "disabled"
      BY <3>1 DEF Deletions
    <3> QED  BY <3>1, <3>2 DEF Accounted
  <2>6. CASE FinishRequest(t) \/ LeaveRequest(t)
    BY <1>0, <2>6 DEF FinishRequest, LeaveRequest
  <2> QED  BY <1>2, <2>1, <2>2, <2>3, <2>4, <2>5, <2>6 DEF SlaveStep
<1>3. CASE CallClear \/ BeginStop \/ StopClear \/ StopReturns
  BY <1>0, <1>3 DEF CallClear, BeginStop, StopClear, StopReturns
<1>4. CASE QuitSlaves
  BY <1>4 DEF QuitSlaves, Orderly, Accounted
<1>5. ASSUME NEW t \in Slave, JoinSlave(t) PROVE Accounted'
  <2>1. t \in joining /\ joining' = joining \ {t} /\ UNCHANGED <<pc, rzNew, sthrPool>> /\ ~ThreadRunning(t)
        /\ stopPc = "join"
    BY <1>5 DEF JoinSlave, Delete
  <2>2. pc[t] = "disabled"
    BY <2>1 DEF Orderly, Accounted, ThreadRunning
  <2> QED  BY <2>1, <2>2 DEF Accounted
<1>6. CASE GrowNew
  <2>1. PICK t \in Slave : pc[t] = "unborn" /\ pc' = [pc EXCEPT ![t] = "initial"] /\ rzNew' = {t}
    BY <1>6 DEF GrowNew
  <2>2. UNCHANGED <<joining, sthrPool>> /\ rzNew = {}
    BY <1>6 DEF GrowNew, Orderly
  <2> QED  BY <2>1, <2>2 DEF Accounted
<1>7. CASE GrowAdmit
  <2>1. sthrPool' = sthrPool \cup rzNew /\ rzNew' = {} /\ UNCHANGED <<pc, joining>>
    BY <1>7 DEF GrowAdmit
  <2> QED  BY <2>1 DEF Accounted
<1>8. CASE GrowRefused \/ GrowDelete
  BY <1>8 DEF GrowRefused, GrowDelete, Orderly, StoppedIsEmpty
<1>9. CASE (\E m \in ResizeArgs : BeginResize(m)) \/ GrowEnd \/ ShrinkOne \/ ShrinkNext
            \/ ResizeReturns
  BY <1>0, <1>9 DEF BeginResize, GrowEnd, ShrinkOne, ShrinkNext, ResizeReturns
<1>10. CASE UNCHANGED vars
  BY <1>0, <1>10
<1> QED  BY <1>1, <1>2, <1>3, <1>4, <1>5, <1>6, <1>7, <1>8, <1>9, <1>10
         DEF Next, StopStep, ResizeStep, Terminated

LEMMA InitThreads == Init => Threads
<1> SUFFICES ASSUME Init PROVE Threads
  OBVIOUS
<1>1. Orderly
  BY DEF Init, Orderly
<1>2. HandsEmpty
  BY DEF Init, HandsEmpty
<1>3. CleansOwn
  BY KindsOfRequests DEF Init, CleansOwn
<1>4. Deletions
  BY DEF Init, Deletions
<1>5. Accounted
  BY PoolAssumption DEF Init, Accounted
<1> QED  BY <1>1, <1>2, <1>3, <1>4, <1>5 DEF Threads

\* Threads and their objects, over every step of a pool whose callers are careful.
THEOREM SpecThreads ==
    ASSUME Careful
    PROVE  Spec => [](IInv /\ Ownership /\ Threads)
<1>1. IInv /\ Ownership /\ Threads /\ [Next]_vars => Threads'
  BY OrderlyStep, HandsStep, CleansOwnStep, DeletionsStep, AccountedStep DEF IInv, Threads
<1> QED  BY <1>1, InitThreads, SpecOwnership, PTL DEF Spec

\* Of the three ways in which a SlaveThread is deleted, its CleanRequest, stop() and
\* a resize() that lost against stop(), one deletes it, once, and its thread is over:
\* nobody's run() goes on in a deleted object.
THEOREM SlaveDeletedOnceDead ==
    ASSUME Careful
    PROVE  Spec => []DeletedOnceDead
<1>1. Threads => DeletedOnceDead
  BY DEF Threads, Deletions, DeletedOnceDead
<1> QED  BY <1>1, SpecThreads, PTL

\* A request whose status reads stRunning is in the hands of a slave that has begun
\* it and not yet finished.
RunningIsHeld ==
    \A r \in Request : status[r] = "stRunning" =>
        \E t \in Slave : pReq[t] = r /\ pc[t] \in {"run", "push", "erase", "final"}

LEMMA RunningStep ==
    ASSUME IInv, RunningIsHeld, [Next]_vars
    PROVE  RunningIsHeld'
<1> DEFINE Held(r) == \E t \in Slave : pReq[t] = r /\ pc[t] \in {"run", "push", "erase", "final"}
<1> USE DEF IInv, TypeOK, Goto, SlavePc, vars, queueVars, slaveVars, reqVars, stopVars,
            resizeVars, poolVars
<1>0. ASSUME \A r \in Request : status'[r] = "stRunning" => status[r] = "stRunning",
             \A t \in Slave : pc[t] \in {"run", "push", "erase", "final"} =>
                 \/ pReq'[t] = pReq[t] /\ pc'[t] \in {"run", "push", "erase", "final"}
                 \/ status'[pReq[t]] # "stRunning"
      PROVE  RunningIsHeld'
  <2> SUFFICES ASSUME NEW r \in Request, status'[r] = "stRunning" PROVE Held(r)'
    BY DEF RunningIsHeld
  <2>1. PICK t \in Slave : pReq[t] = r /\ pc[t] \in {"run", "push", "erase", "final"}
    BY <1>0 DEF RunningIsHeld
  <2> QED  BY <1>0, <2>1
<1>1. ASSUME NEW r \in Request, UserStart(r) \/ AdmitPush(r) \/ PostPush(r) PROVE RunningIsHeld'
  BY <1>0, <1>1 DEF UserStart, EnterPush, AdmitPush, PostPush
<1>2. ASSUME NEW t \in Slave, SlaveStep(t) PROVE RunningIsHeld'
  <2>1. CASE StartThread(t) \/ CheckQueue(t) \/ Wait(t)
    BY <1>0, <2>1 DEF StartThread, CheckQueue, Wait
  <2>2. CASE ExitThread(t)
    BY <1>0, <2>2 DEF ExitThread
  <2>3. CASE Dequeue(t) \/ Fetched(t)
    BY <1>0, <2>3 DEF Dequeue, Fetched
  <2>4. CASE InitRequest(t)
    <3>1. pc[t] = "init" /\ UNCHANGED pReq /\ pReq[t] \in Request
      BY <2>4 DEF InitRequest, HasRequest, InRequest
    <3>2. CASE UNCHANGED status /\ pc' = [pc EXCEPT ![t] = "final"]
      BY <1>0, <3>1, <3>2
    <3>3. CASE status' = [status EXCEPT ![pReq[t]] = "stRunning"] /\ pc' = [pc EXCEPT ![t] = "run"]
      <4> SUFFICES ASSUME NEW r \in Request, status'[r] = "stRunning" PROVE Held(r)'
        BY DEF RunningIsHeld
      <4>1. CASE r = pReq[t]
        BY <3>1, <3>3, <4>1
      <4>2. CASE r # pReq[t]
        <5>1. status[r] = "stRunning"
          BY <3>1, <3>3, <4>2
        <5>2. PICK u \in Slave : pReq[u] = r /\ pc[u] \in {"run", "push", "erase", "final"}
          BY <5>1 DEF RunningIsHeld
        <5> QED  BY <3>1, <3>3, <4>2, <5>2
      <4> QED  BY <4>1, <4>2
    <3> QED  BY <2>4, <3>2, <3>3 DEF InitRequest
  <2>5. CASE RunUser(t) \/ PushedClean(t) \/ RunClean(t) \/ EraseSlave(t)
    BY <1>0, <2>5 DEF RunUser, PushedClean, RunClean, EraseSlave
  <2>6. CASE RunStop(t)
    BY <1>0, <2>6 DEF RunStop, EnterPush
  <2>7. CASE FinishRequest(t)
    <3>1. pReq[t] \in Request
      BY <2>7 DEF FinishRequest, HasRequest, InRequest
    <3> QED  BY <1>0, <2>7, <3>1 DEF FinishRequest
  <2>8. CASE LeaveRequest(t)
    BY <1>0, <2>8 DEF LeaveRequest
  <2> QED  BY <1>2, <2>1, <2>2, <2>3, <2>4, <2>5, <2>6, <2>7, <2>8 DEF SlaveStep
<1>3. CASE CallClear \/ BeginStop \/ StopStep
  BY <1>0, <1>3 DEF CallClear, BeginStop, StopStep, StopClear, ClearRequests, QuitSlaves,
                    JoinSlave, StopReturns
<1>4. CASE GrowNew
  BY <1>0, <1>4 DEF GrowNew
<1>5. CASE ShrinkOne
  BY <1>0, <1>5 DEF ShrinkOne, EnterPush
<1>6. CASE (\E m \in ResizeArgs : BeginResize(m)) \/ GrowAdmit \/ GrowRefused
           \/ GrowDelete \/ GrowEnd \/ ShrinkNext \/ ResizeReturns
  BY <1>0, <1>6 DEF BeginResize, GrowAdmit, GrowRefused, GrowDelete, GrowEnd, ShrinkNext,
                    ResizeReturns
<1>7. CASE UNCHANGED vars
  BY <1>0, <1>7
<1> QED  BY <1>1, <1>2, <1>3, <1>4, <1>5, <1>6, <1>7 DEF Next, ResizeStep, Terminated

\* threadId() of a request that isRunning() finds the object of a live slave: the
\* request is in that slave's hands until its status is reset, and the slave is not
\* deleted meanwhile.
THEOREM RunningRequestHasThread ==
    ASSUME Careful
    PROVE  Spec => []RunningHasThread
<1>1. Init => RunningIsHeld
  BY DEF Init, RunningIsHeld
<1>2. IInv /\ RunningIsHeld /\ [Next]_vars => RunningIsHeld'
  BY RunningStep
<1>3. IInv /\ Threads /\ RunningIsHeld => RunningHasThread
  <2> SUFFICES ASSUME IInv, Threads, RunningIsHeld, NEW r \in Request, status[r] = "stRunning"
               PROVE  \E t \in Slave : pReq[t] = r /\ pc[t] \in InRequest /\ deletes[t] = 0
    BY DEF RunningHasThread
  <2>1. PICK t \in Slave : pReq[t] = r /\ pc[t] \in {"run", "push", "erase", "final"}
    BY DEF RunningIsHeld
  <2>2. deletes[t] \in Nat /\ ~(deletes[t] > 0)
    BY <2>1 DEF IInv, TypeOK, Threads, Deletions
  <2> QED  BY <2>1, <2>2 DEF InRequest
<1> QED  BY <1>1, <1>2, <1>3, SpecThreads, PTL DEF Spec

-----------------------------------------------------------------------------
(* The pool implements RequestLifecycle.                                      *)

Phase == IF running THEN "open" ELSE IF stopPc = "done" THEN "closed" ELSE "closing"

\* A step of the pool in which some requests go from one stage of life to another.
LEMMA LifeMoves ==
    ASSUME NEW R \in SUBSET Request, NEW from, NEW to, Phase' = Phase,
           \A r \in R : Life(r) = from /\ Life(r)' = to,
           \A r \in Request \ R : Life(r)' = Life(r)
    PROVE  Lifecycle!Become(R, {from}, to)
BY DEF Lifecycle!Become, Phase

LEMMA LifeOfOneMoves ==
    ASSUME NEW r \in Request, NEW from, NEW to, Phase' = Phase,
           Life(r) = from /\ Life(r)' = to,
           \A q \in Request \ {r} : Life(q)' = Life(q)
    PROVE  Lifecycle!Become({r}, {from}, to)
<1>1. {r} \in SUBSET Request /\ \A q \in {r} : Life(q) = from /\ Life(q)' = to
  OBVIOUS
<1> QED  BY <1>1, LifeMoves

LEMMA LifeStays ==
    ASSUME Phase' = Phase, \A r \in Request : Life(r)' = Life(r)
    PROVE  UNCHANGED Lifecycle!vars
BY DEF Lifecycle!vars, Phase

\* What the invariants say of the life of a request.
LEMMA LifeOf ==
    ASSUME TypeOK, Ownership, NEW r \in Request
    PROVE  /\ r \in ToSet(requests) => Life(r) = "pending"
           /\ \A t \in Slave : pReq[t] = r /\ pc[t] # "leave" => Life(r) = "taken"
           /\ ~Accepted(r) => Life(r) = IF call[r] = "refused" THEN "refused" ELSE "new"
           /\ Life(r) = "pending" <=> r \in ToSet(requests)
<1>1. ASSUME r \in ToSet(requests) PROVE Life(r) = "pending"
  <2>1. finals[r] = 0 /\ \A t \in Slave : pReq[t] # r
    BY <1>1 DEF Ownership, QueuedUntouched
  <2> QED  BY <1>1, <2>1 DEF Life
<1>2. ASSUME NEW t \in Slave, pReq[t] = r, pc[t] # "leave" PROVE Life(r) = "taken"
  <2>1. finals[r] = 0
    BY <1>2 DEF Ownership, HeldByOne
  <2> QED  BY <1>2, <2>1 DEF Life
<1>3. ASSUME ~Accepted(r) PROVE Life(r) = IF call[r] = "refused" THEN "refused" ELSE "new"
  <2>1. finals[r] = 0
    BY <1>3 DEF Ownership, OnlyAccepted, TypeOK
  <2>2. r \notin ToSet(requests)
    BY <1>3 DEF Ownership, QueuedUntouched
  <2>3. \A t \in Slave : pReq[t] # r
    BY <1>3 DEF Ownership, HeldByOne
  <2> QED  BY <2>1, <2>2, <2>3 DEF Life
<1>4. Life(r) = "pending" => r \in ToSet(requests)
  BY DEF Life
<1> QED  BY <1>1, <1>2, <1>3, <1>4

\* What the life of a request depends on.
LEMMA LifeDependsOn ==
    ASSUME NEW r \in Request, finals'[r] = finals[r], r \in cancelled' <=> r \in cancelled,
           (\E t \in Slave : pReq'[t] = r) <=> (\E t \in Slave : pReq[t] = r),
           r \in ToSet(requests') <=> r \in ToSet(requests),
           call'[r] = "refused" <=> call[r] = "refused"
    PROVE  Life(r)' = Life(r)
BY DEF Life

\* A step of pushRequest() or of a StopRequest's run() that tests _running.
LEMMA EnterRefines ==
    ASSUME IInv, IInv', Ownership, Ownership', NEW r \in Request, EnterPush(r),
           UNCHANGED <<requests, running, stopPc, pReq>>
    PROVE  Lifecycle!Next \/ UNCHANGED Lifecycle!vars
<1>1. call[r] = "none" /\ call' = [call EXCEPT ![r] = IF running THEN "admit" ELSE "refused"]
      /\ UNCHANGED <<finals, cancelled>>
  BY DEF EnterPush
<1>2. \A q \in Request \ {r} : call'[q] = call[q]
  BY <1>1 DEF IInv, TypeOK
<1>3. \A q \in Request \ {r} : Life(q)' = Life(q)
  BY <1>1, <1>2, LifeDependsOn
<1>4. Phase' = Phase
  BY DEF Phase
<1>5. Life(r) = "new"
  BY <1>1, LifeOf DEF IInv, Accepted
<1>6. CASE running
  <2>1. call'[r] = "admit"
    BY <1>1, <1>6 DEF IInv, TypeOK
  <2>2. Life(r)' = Life(r)
    BY <1>1, <2>1, LifeDependsOn
  <2> QED  BY <1>3, <1>4, <2>2, LifeStays
<1>7. CASE ~running
  <2>1. call'[r] = "refused"
    BY <1>1, <1>7 DEF IInv, TypeOK
  <2>2. Life(r)' = "refused"
    <3>1. finals[r] = 0 /\ r \notin ToSet(requests) /\ \A t \in Slave : pReq[t] # r
      BY <1>5 DEF Life, IInv, TypeOK
    <3> QED  BY <1>1, <2>1, <3>1 DEF Life
  <2>3. Lifecycle!Become({r}, {"new"}, "refused")
    BY <1>3, <1>4, <1>5, <2>2, LifeOfOneMoves
  <2>4. Lifecycle!Refuse(r)
    BY <1>7, <2>3 DEF Lifecycle!Refuse
  <2> QED  BY <2>4 DEF Lifecycle!Next
<1> QED  BY <1>6, <1>7

\* push() adds the request to what is queued.
LEMMA PushAdds ==
    ASSUME TypeOK, NEW r \in Request, Push(r)
    PROVE  ToSet(requests') = ToSet(requests) \cup {r}
<1> USE DEF TypeOK
<1>1. PICK k \in 0..Len(requests) :
        /\ Len(requests') = Len(requests) + 1
        /\ \A i \in 1..(Len(requests) + 1) :
             requests'[i] = IF i <= k THEN requests[i]
                            ELSE IF i = k + 1 THEN r ELSE requests[i - 1]
  BY PushElements
<1>2. requests' \in Seq(Request)
  BY PushType
<1>n. Len(requests) \in Nat /\ k \in Nat /\ k <= Len(requests)
  OBVIOUS
<1>e. \A i \in Nat \ {0} : i <= Len(requests) + 1 =>
        requests'[i] = IF i <= k THEN requests[i] ELSE IF i = k + 1 THEN r ELSE requests[i - 1]
  BY <1>1, <1>n
<1>3. ToSet(requests) = {requests[i] : i \in 1..Len(requests)}
  BY ToSetElements
<1>4. ToSet(requests') = {requests'[i] : i \in 1..Len(requests')}
  BY <1>2, ToSetElements
<1> HIDE DEF TypeOK
<1>5. \A i \in 1..Len(requests') : requests'[i] = r \/ \E j \in 1..Len(requests) : requests'[i] = requests[j]
  <2> SUFFICES ASSUME NEW i \in 1..Len(requests'), i # k + 1
               PROVE  \E j \in 1..Len(requests) : requests'[i] = requests[j]
    BY <1>1, <1>n, <1>e
  <2>1. CASE i <= k
    <3>1. i \in 1..Len(requests) /\ requests'[i] = requests[i]
      BY <1>1, <1>n, <1>e, <2>1
    <3> QED  BY <3>1
  <2>2. CASE i > k
    <3>1. i - 1 \in 1..Len(requests) /\ requests'[i] = requests[i - 1]
      BY <1>1, <1>n, <1>e, <2>2
    <3> QED  BY <3>1
  <2> QED  BY <1>n, <2>1, <2>2
<1>6. \A i \in 1..Len(requests) : \E j \in 1..Len(requests') : requests'[j] = requests[i]
  <2> SUFFICES ASSUME NEW i \in 1..Len(requests)
               PROVE  \E j \in 1..Len(requests') : requests'[j] = requests[i]
    OBVIOUS
  <2>1. CASE i <= k
    <3>1. i \in 1..Len(requests') /\ requests'[i] = requests[i]
      BY <1>1, <1>n, <1>e, <2>1
    <3> QED  BY <3>1
  <2>2. CASE i > k
    <3>1. i + 1 \in 1..Len(requests') /\ requests'[i + 1] = requests[i]
      BY <1>1, <1>n, <1>e, <2>2
    <3> QED  BY <3>1
  <2> QED  BY <1>n, <2>1, <2>2
<1>7. k + 1 \in 1..Len(requests') /\ requests'[k + 1] = r
  BY <1>1, <1>n, <1>e
<1>8. \A q \in ToSet(requests') : q \in ToSet(requests) \cup {r}
  BY <1>3, <1>4, <1>5
<1>9. \A q \in ToSet(requests) \cup {r} : q \in ToSet(requests')
  BY <1>3, <1>4, <1>6, <1>7
<1> QED  BY <1>8, <1>9

\* What pop() takes and what it leaves.
LEMMA HeadAndTail ==
    ASSUME requests \in Seq(Request), requests # <<>>
    PROVE  /\ Head(requests) \in ToSet(requests)
           /\ ToSet(requests) = ToSet(Tail(requests)) \cup {Head(requests)}
<1>1. Tail(requests) \in Seq(Request)
  OBVIOUS
<1>2. /\ ToSet(requests) = {requests[i] : i \in 1..Len(requests)}
      /\ ToSet(Tail(requests)) = {Tail(requests)[i] : i \in 1..Len(Tail(requests))}
  BY <1>1, ToSetElements
<1>3. /\ Len(Tail(requests)) = Len(requests) - 1 /\ Head(requests) = requests[1]
      /\ 1 \in 1..Len(requests)
      /\ \A i \in 1..Len(Tail(requests)) : Tail(requests)[i] = requests[i + 1] /\ i + 1 \in 1..Len(requests)
  OBVIOUS
<1>4. \A i \in 1..Len(requests) : i = 1 \/
        (i - 1 \in 1..Len(Tail(requests)) /\ Tail(requests)[i - 1] = requests[i])
  OBVIOUS
<1> DEFINE T == Tail(requests)
<1> HIDE DEF T
<1>5. \A q \in ToSet(requests) : q \in ToSet(T) \cup {Head(requests)}
  BY <1>2, <1>3, <1>4 DEF T
<1>6. \A q \in ToSet(T) \cup {Head(requests)} : q \in ToSet(requests)
  BY <1>2, <1>3 DEF T
<1> QED  BY <1>5, <1>6 DEF T

\* A request is admitted, or refused under the lock.
LEMMA AdmitRefines ==
    ASSUME IInv, IInv', Ownership, Ownership', NEW r \in Request, AdmitPush(r)
    PROVE  Lifecycle!Next \/ UNCHANGED Lifecycle!vars
<1> USE DEF IInv, TypeOK
<1>1. /\ call[r] = "admit"
      /\ UNCHANGED <<finals, cancelled, pReq, running, stopPc>>
  BY DEF AdmitPush, slaveVars, stopVars, poolVars
<1>2. Phase' = Phase
  BY <1>1 DEF Phase
<1>3. Life(r) = "new"
  BY <1>1, LifeOf DEF Accepted
<1>4. \A q \in Request \ {r} : call'[q] = call[q] /\ (q \in ToSet(requests') <=> q \in ToSet(requests))
  <2>1. CASE ~running
    BY <2>1 DEF AdmitPush
  <2>2. CASE running
    <3>1. Push(r) /\ call' = [call EXCEPT ![r] = "post"]
      BY <2>2 DEF AdmitPush
    <3>2. ToSet(requests') = ToSet(requests) \cup {r}
      BY <3>1, PushAdds
    <3> QED  BY <3>1, <3>2
  <2> QED  BY <2>1, <2>2
<1>5. \A q \in Request \ {r} : Life(q)' = Life(q)
  BY <1>1, <1>4, LifeDependsOn
<1>6. CASE running
  <2>1. r \in ToSet(requests')
    BY <1>6, PushAdds DEF AdmitPush
  <2>2. Life(r)' = "pending"
    <3>1. finals'[r] = 0 /\ \A t \in Slave : pReq'[t] # r
      BY <2>1 DEF Ownership, QueuedUntouched
    <3> QED  BY <2>1, <3>1 DEF Life
  <2>3. Lifecycle!Become({r}, {"new"}, "pending")
    BY <1>2, <1>3, <1>5, <2>2, LifeOfOneMoves
  <2>4. Lifecycle!Submit(r)
    BY <1>6, <2>3 DEF Lifecycle!Submit
  <2> QED  BY <2>4 DEF Lifecycle!Next
<1>7. CASE ~running
  <2>1. call' = [call EXCEPT ![r] = "refused"] /\ requests' = requests
    BY <1>7 DEF AdmitPush
  <2>2. Life(r)' = "refused"
    <3>1. ~Accepted(r) /\ call'[r] = "refused"
      BY <1>1, <2>1 DEF Accepted
    <3>2. finals[r] = 0 /\ r \notin ToSet(requests) /\ \A t \in Slave : pReq[t] # r
      BY <3>1 DEF Ownership, OnlyAccepted, QueuedUntouched, HeldByOne
    <3> QED  BY <1>1, <2>1, <3>1, <3>2 DEF Life
  <2>3. Lifecycle!Become({r}, {"new"}, "refused")
    BY <1>2, <1>3, <1>5, <2>2, LifeOfOneMoves
  <2>4. Lifecycle!Refuse(r)
    BY <1>7, <2>3 DEF Lifecycle!Refuse
  <2> QED  BY <2>4 DEF Lifecycle!Next
<1> QED  BY <1>6, <1>7

\* A slave takes the first request of the queue, or finds none.
LEMMA DequeueRefines ==
    ASSUME IInv, IInv', Ownership, Ownership', HandsEmpty, NEW t \in Slave, Dequeue(t)
    PROVE  Lifecycle!Next \/ UNCHANGED Lifecycle!vars
<1> USE DEF IInv, TypeOK, SlavePc
<1>1. /\ pc[t] = "dequeue" /\ pReq[t] = NoReq /\ pc' = [pc EXCEPT ![t] = "fetched"]
      /\ UNCHANGED <<call, finals, cancelled, running, stopPc>>
  BY DEF Dequeue, Goto, reqVars, stopVars, poolVars, HandsEmpty
<1>2. Phase' = Phase
  BY <1>1 DEF Phase
<1>3. CASE requests = <<>>
  <2>1. UNCHANGED <<requests, pReq>>
    BY <1>1, <1>3 DEF Dequeue
  <2> QED  BY <1>1, <1>2, <2>1, LifeDependsOn, LifeStays
<1>4. CASE requests # <<>>
  <2>3. PICK r \in Request : r = Head(requests)
    BY <1>4
  <2>1. requests' = Tail(requests) /\ pReq' = [pReq EXCEPT ![t] = r]
    BY <1>4, <2>3 DEF Dequeue
  <2>2. r \in ToSet(requests) /\ ToSet(requests) = ToSet(requests') \cup {r}
    BY <1>4, <2>1, <2>3, HeadAndTail
  <2>4. Life(r) = "pending" /\ Life(r)' = "taken"
    <3>1. Life(r) = "pending"
      BY <2>2, LifeOf
    <3>2. pReq'[t] = r /\ finals'[r] = 0
      BY <1>1, <2>1, <2>2 DEF Ownership, QueuedUntouched
    <3> QED  BY <3>1, <3>2 DEF Life
  <2>5. \A q \in Request \ {r} : Life(q)' = Life(q)
    <3> SUFFICES ASSUME NEW q \in Request \ {r} PROVE Life(q)' = Life(q)
      OBVIOUS
    <3>1. (\E u \in Slave : pReq'[u] = q) <=> (\E u \in Slave : pReq[u] = q)
      BY <1>1, <2>1, KindsOfRequests
    <3> QED  BY <1>1, <2>2, <3>1, LifeDependsOn
  <2>6. Lifecycle!Become({r}, {"pending"}, "taken")
    BY <1>2, <2>4, <2>5, LifeOfOneMoves
  <2> QED  BY <2>6 DEF Lifecycle!Next, Lifecycle!Take
<1> QED  BY <1>3, <1>4

\* A slave finishes its request, as done, or as cancelled if it was told to quit
\* before it began.
LEMMA FinalRefines ==
    ASSUME IInv, IInv', Ownership, Ownership', NEW t \in Slave, FinishRequest(t) \/ ExitThread(t)
    PROVE  Lifecycle!Next \/ UNCHANGED Lifecycle!vars
<1> USE DEF IInv, TypeOK, SlavePc
<1>1. UNCHANGED <<requests, call, running, stopPc>> /\ pc[t] # "leave"
  BY DEF FinishRequest, ExitThread, queueVars, reqVars, stopVars, poolVars
<1>2. Phase' = Phase
  BY <1>1 DEF Phase
<1>3. CASE ExitThread(t) /\ pReq[t] = NoReq
  <2>1. UNCHANGED <<pReq, finals, cancelled>>
    BY <1>3 DEF ExitThread, reqVars
  <2> QED  BY <1>1, <1>2, <2>1, LifeDependsOn, LifeStays
<1>4. CASE FinishRequest(t) \/ pReq[t] # NoReq
  <2>1. PICK r \in Request : r = pReq[t]
    BY <1>4 DEF FinishRequest, HasRequest, InRequest
  <2>t. PICK to \in {"done", "cancelled"} : to = "done" <=> FinishRequest(t)
    BY Zenon
  <2>2. /\ finals' = [finals EXCEPT ![r] = @ + 1]
        /\ cancelled' = IF FinishRequest(t) THEN cancelled ELSE cancelled \cup {r}
        /\ pReq' \in {pReq, [pReq EXCEPT ![t] = NoReq]}
    BY <1>4, <2>1 DEF FinishRequest, ExitThread, slaveVars
  <2>3. finals[r] = 0 /\ r \notin cancelled
    BY <1>1, <2>1 DEF Ownership, HeldByOne, OnlyAccepted
  <2>4. Life(r) = "taken"
    BY <1>1, <2>1, LifeOf
  <2>5. Life(r)' = to
    <3>1. finals'[r] > 0
      BY <2>1, <2>2, <2>3
    <3>2. CASE FinishRequest(t)
      BY <2>t, <2>2, <2>3, <3>1, <3>2 DEF Life
    <3>3. CASE ~FinishRequest(t)
      BY <2>t, <2>2, <3>1, <3>3 DEF Life
    <3> QED  BY <3>2, <3>3
  <2>6. \A q \in Request \ {r} : Life(q)' = Life(q)
    <3> SUFFICES ASSUME NEW q \in Request \ {r} PROVE Life(q)' = Life(q)
      OBVIOUS
    <3>1. (\E u \in Slave : pReq'[u] = q) <=> (\E u \in Slave : pReq[u] = q)
      <4>1. \A u \in Slave : pReq'[u] = q <=> pReq[u] = q
        <5>1. CASE pReq' = pReq
          BY <5>1
        <5>2. CASE pReq' = [pReq EXCEPT ![t] = NoReq]
          BY <2>1, <5>2, KindsOfRequests
        <5> QED  BY <2>2, <5>1, <5>2
      <4> QED  BY <4>1
    <3>2. finals'[q] = finals[q] /\ (q \in cancelled' <=> q \in cancelled)
      BY <2>1, <2>2
    <3> QED  BY <1>1, <3>1, <3>2, LifeDependsOn
  <2>7. Lifecycle!Become({r}, {"taken"}, to)
    BY <1>2, <2>1, <2>4, <2>5, <2>6, LifeOfOneMoves
  <2> QED  BY <2>7, <2>t DEF Lifecycle!Next, Lifecycle!Finish, Lifecycle!GiveUp
<1> QED  BY <1>3, <1>4

\* A finished request stays finished when its slave puts it down.
LEMMA LeaveRefines ==
    ASSUME IInv, Ownership, NEW t \in Slave, LeaveRequest(t)
    PROVE  UNCHANGED Lifecycle!vars
<1> USE DEF IInv, TypeOK, SlavePc
<1>1. /\ pc[t] = "leave" /\ pReq' = [pReq EXCEPT ![t] = NoReq]
      /\ UNCHANGED <<requests, call, finals, cancelled, running, stopPc>>
  BY DEF LeaveRequest, queueVars, reqVars, stopVars
<1>2. pReq[t] \in Request /\ finals[pReq[t]] = 1
  BY <1>1 DEF HasRequest, InRequest, Ownership, HeldByOne
<1>3. ASSUME NEW r \in Request PROVE Life(r)' = Life(r)
  <2>1. CASE r = pReq[t]
    BY <1>1, <1>2, <2>1 DEF Life
  <2>2. CASE r # pReq[t]
    <3>1. (\E u \in Slave : pReq'[u] = r) <=> (\E u \in Slave : pReq[u] = r)
      BY <1>1, <2>2, KindsOfRequests
    <3> QED  BY <1>1, <3>1, LifeDependsOn
  <2> QED  BY <2>1, <2>2
<1>4. Phase' = Phase
  BY <1>1 DEF Phase
<1> QED  BY <1>3, <1>4, LifeStays

\* clearRequests() drops all that is pending.
LEMMA ClearRefines ==
    ASSUME IInv, Ownership, ClearRequests, UNCHANGED <<call, pReq>>, Phase' = Phase
    PROVE  Lifecycle!Next
<1> USE DEF IInv, TypeOK, ClearRequests
<1>1. \A r \in Request : Life(r) = "pending" <=> r \in ToSet(requests)
  BY LifeOf
<1>2. \A r \in ToSet(requests) : r \in Request /\ finals[r] = 0
  BY ToSetType DEF Ownership, QueuedUntouched
<1>3. \A r \in ToSet(requests) : Life(r)' = "cancelled"
  <2> SUFFICES ASSUME NEW r \in ToSet(requests) PROVE Life(r)' = "cancelled"
    OBVIOUS
  <2>1. finals'[r] = 1 /\ r \in cancelled'
    BY <1>2
  <2> QED  BY <2>1 DEF Life
<1>4. \A r \in Request \ ToSet(requests) : Life(r)' = Life(r)
  <2> SUFFICES ASSUME NEW r \in Request \ ToSet(requests) PROVE Life(r)' = Life(r)
    OBVIOUS
  <2>1. finals'[r] = finals[r] /\ (r \in cancelled' <=> r \in cancelled)
    OBVIOUS
  <2>2. r \notin ToSet(requests')
    BY DEF ToSet
  <2> QED  BY <2>1, <2>2, LifeDependsOn
<1> DEFINE R == {r \in Request : Life(r) = "pending"}
<1>5. Lifecycle!Become(R, {"pending"}, "cancelled")
  BY <1>1, <1>3, <1>4, LifeMoves
<1>6. R = {r \in Request : [q \in Request |-> Life(q)][r] = "pending"}
  OBVIOUS
<1>7. Lifecycle!DropAll
  BY <1>5, <1>6 DEF Lifecycle!DropAll
<1> QED  BY <1>7 DEF Lifecycle!Next

\* stop() returns: every thread is joined, so that nothing is pending or in hand.
LEMMA StopRefines ==
    ASSUME IInv, Ownership, Threads, StopReturns
    PROVE  Lifecycle!Close
<1> USE DEF IInv, TypeOK, Threads, SlavePc
<1>1. /\ stopPc = "join" /\ joining = {} /\ stopPc' = "done"
      /\ UNCHANGED <<requests, pReq, call, finals, cancelled, running>>
  BY DEF StopReturns, queueVars, slaveVars, reqVars, poolVars
<1>2. ~running /\ requests = <<>> /\ sthrPool = {} /\ rzNew = {}
  BY <1>1 DEF StoppedIsEmpty, Orderly
<1>3. \A t \in Slave : pc[t] \in {"unborn", "disabled"}
  BY <1>1, <1>2 DEF Accounted
<1>4. \A t \in Slave : pReq[t] = NoReq
  BY <1>3 DEF HandsEmpty
<1>5. \A r \in Request : Life(r) \notin {"pending", "taken"}
  BY <1>2, <1>4, KindsOfRequests DEF Life, ToSet
<1>6. \A r \in Request : Life(r)' = Life(r)
  BY <1>1, LifeDependsOn
<1>7. Phase = "closing" /\ Phase' = "closed"
  BY <1>1, <1>2 DEF Phase
<1> QED  BY <1>5, <1>6, <1>7 DEF Phase, Lifecycle!Close, Lifecycle!Outstanding

\* Every step of the pool is a step of RequestLifecycle, or none.
LEMMA StepRefines ==
    ASSUME Careful, IInv, IInv', Ownership, Ownership', Threads, [Next]_vars
    PROVE  Lifecycle!Next \/ UNCHANGED Lifecycle!vars
<1> USE DEF IInv, TypeOK, Threads, vars, queueVars, slaveVars, reqVars, stopVars, resizeVars,
            poolVars
<1>0. ASSUME UNCHANGED <<requests, pReq, finals, cancelled, running>>, Phase' = Phase,
             \A r \in Request : call'[r] = "refused" <=> call[r] = "refused"
      PROVE  UNCHANGED Lifecycle!vars
  BY <1>0, LifeDependsOn, LifeStays
<1>1. ASSUME NEW r \in Request, UserStart(r) \/ AdmitPush(r) \/ PostPush(r)
      PROVE  Lifecycle!Next \/ UNCHANGED Lifecycle!vars
  <2>1. CASE PostPush(r)
    BY <1>0, <2>1 DEF PostPush, Phase
  <2>2. CASE UserStart(r)
    BY <2>2, EnterRefines DEF UserStart
  <2> QED  BY <1>1, <2>1, <2>2, AdmitRefines
<1>2. ASSUME NEW t \in Slave, SlaveStep(t) PROVE Lifecycle!Next \/ UNCHANGED Lifecycle!vars
  <2>1. CASE StartThread(t) \/ CheckQueue(t) \/ Wait(t) \/ Fetched(t) \/ InitRequest(t)
    BY <1>0, <2>1 DEF StartThread, CheckQueue, Wait, Fetched, InitRequest, Phase
  <2>2. CASE RunUser(t) \/ PushedClean(t) \/ RunClean(t) \/ EraseSlave(t)
    BY <1>0, <2>2 DEF RunUser, PushedClean, RunClean, EraseSlave, Phase
  <2>3. CASE RunStop(t)
    <3>1. CleanOf[t] \in Request
      BY KindsOfRequests
    <3> QED  BY <2>3, <3>1, EnterRefines DEF RunStop
  <2> QED  BY <1>2, <2>1, <2>2, <2>3, DequeueRefines, FinalRefines, LeaveRefines DEF SlaveStep
<1>3. CASE CallClear \/ StopClear
  <2>1. ClearRequests /\ UNCHANGED <<call, pReq>> /\ Phase' = Phase
    BY <1>3 DEF CallClear, StopClear, Phase
  <2> QED  BY <2>1, ClearRefines
<1>4. CASE BeginStop
  <2>1. running /\ stopPc = "none"
    BY <1>4 DEF BeginStop, Orderly
  <2>2. UNCHANGED <<requests, pReq, finals, cancelled, call>> /\ running' = FALSE /\ stopPc' = "clear"
    BY <1>4 DEF BeginStop
  <2>3. \A r \in Request : Life(r)' = Life(r)
    BY <2>2, LifeDependsOn
  <2>4. Phase = "open" /\ Phase' = "closing"
    BY <2>1, <2>2 DEF Phase
  <2> QED  BY <2>3, <2>4 DEF Phase, Lifecycle!Next, Lifecycle!BeginClose
<1>5. CASE QuitSlaves \/ \E t \in Slave : JoinSlave(t)
  BY <1>0, <1>5 DEF QuitSlaves, JoinSlave, Phase
<1>6. CASE StopReturns
  BY <1>6, StopRefines DEF Lifecycle!Next
<1>7. CASE ShrinkOne
  <2>1. PICK p \in StopReq : EnterPush(p)
    BY <1>7 DEF ShrinkOne
  <2>2. p \in Request
    BY KindsOfRequests
  <2> QED  BY <1>7, <2>1, <2>2, EnterRefines DEF ShrinkOne
<1>8. CASE (\E m \in ResizeArgs : BeginResize(m)) \/ GrowNew \/ GrowAdmit \/ GrowRefused
           \/ GrowDelete \/ GrowEnd \/ ShrinkNext \/ ResizeReturns
  BY <1>0, <1>8 DEF BeginResize, GrowNew, GrowAdmit, GrowRefused, GrowDelete, GrowEnd, ShrinkNext,
                    ResizeReturns, Phase
<1>9. CASE UNCHANGED vars
  BY <1>0, <1>9 DEF Phase
<1> QED  BY <1>1, <1>2, <1>3, <1>4, <1>5, <1>6, <1>7, <1>8, <1>9
         DEF Next, StopStep, ResizeStep, Terminated

\* What the pool promises those who start() requests on it: each is refused, or
\* pending, taken by a slave and finished or given up, or dropped by
\* clearRequests(), in that order and once; and stop() returns only when nothing
\* that was accepted is left.
THEOREM PoolImplementsLifecycle ==
    ASSUME Careful
    PROVE  Spec => ImplementsLifecycle
<1>1. Init => Lifecycle!Init
  <2> SUFFICES ASSUME Init PROVE Lifecycle!Init
    OBVIOUS
  <2>1. \A r \in Request : Life(r) = "new"
    BY KindsOfRequests DEF Init, Life, ToSet
  <2> QED  BY <2>1 DEF Init, Lifecycle!Init
<1>2. /\ IInv /\ Ownership /\ Threads /\ IInv' /\ Ownership' /\ [Next]_vars
      => [Lifecycle!Next]_(Lifecycle!vars)
  BY StepRefines
<1> QED  BY <1>1, <1>2, SpecThreads, PTL DEF Spec, ImplementsLifecycle, Lifecycle!Spec
=============================================================================
