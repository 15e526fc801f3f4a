--------------------------- MODULE NativeThreadPool ---------------------------
(***************************************************************************)
(* NativeThreadPool.{h,cpp} with the parts of NativeThread.cpp it leans on *)
(* (Linux build): slave threads that serve a priority queue of             *)
(* ThreadRequests, the counting semaphore they sleep on, resize() by       *)
(* StopRequest / CleanRequest, clearRequests() and stop().                 *)
(*                                                                         *)
(* The pool mutex is not a variable: a critical section is one action.     *)
(* Every access the code makes WITHOUT the mutex (empty() and _bQuit in    *)
(* the slave loop, the first _running test of pushRequest(), the post()    *)
(* after it, _running = false in stop(), the joins) is a step of its own.  *)
(***************************************************************************)
EXTENDS Integers, Sequences, FiniteSets, SequencesExt

CONSTANTS
    Slave,          \* every SlaveThread object that may ever be allocated
    FirstSlaves,    \* the ones the constructor allocates
    UserReq,        \* requests of the application, each started once
    StopReq,        \* StopRequest objects resize() may allocate
    CleanReq,       \* CleanRequest objects
    CleanOf,        \* the CleanRequest that disposes of a slave
    NoReq,          \* a NULL ThreadRequest*
    Priority,       \* _priority of each request; 0 is the most urgent
    SMALL_POOL_SZ, MAX_THRPOOL_SZ,
    ResizeArgs,     \* the arguments resize() is called with
    MaxResizes,     \* bound: calls of resize()
    CallerRules     \* what callers take care of, see Rule

Request == UserReq \cup StopReq \cup CleanReq

ASSUME PoolAssumption ==
    /\ FirstSlaves \subseteq Slave /\ IsFiniteSet(Slave)
    /\ UserReq \cap StopReq = {} /\ CleanReq \cap (UserReq \cup StopReq) = {}
    /\ NoReq \notin Request
    /\ CleanOf \in [Slave -> CleanReq]
    /\ \A t, u \in Slave : CleanOf[t] = CleanOf[u] => t = u
    /\ Priority \in [Request -> 0..255]
    /\ SMALL_POOL_SZ \in Nat /\ MAX_THRPOOL_SZ \in Nat /\ MaxResizes \in Nat
    /\ ResizeArgs \subseteq Int

VARIABLES
    requests,       \* _requests in service order
    sem,            \* value of the pool's Semaphore
    running,        \* _running
    sthrPool,       \* _SThrPool
    activeCount,    \* _activeCount
    pc,             \* where each slave thread is
    pReq,           \* SlaveThread::_pReq
    bQuit,          \* SlaveThread::_bQuit
    deletes,        \* how often each SlaveThread was deleted
    call,           \* progress of start() / pushRequest() of each request
    status,         \* ThreadRequest::_status
    ran,            \* requests whose run() was entered
    finals,         \* calls of final() on each request
    cancelled,      \* requests whose final() had bCancelled = true
    stopPc, joining,                                  \* stop(), tmpThrlList
    rzPc, rzCalls, resizeCount, rzSz, rzNew, rzReq    \* resize() and its locals

queueVars  == <<requests, sem>>
slaveVars  == <<pc, pReq, bQuit>>
reqVars    == <<call, status, ran, finals, cancelled>>
stopVars   == <<stopPc, joining>>
resizeVars == <<rzPc, rzCalls, resizeCount, rzSz, rzNew, rzReq>>
poolVars   == <<running, sthrPool, activeCount, deletes>>
vars == <<queueVars, slaveVars, reqVars, stopVars, resizeVars, poolVars>>

\* Points of SlaveThread::run() / NativeThread::_execute() at which another
\* thread may act.
SlavePc == {"unborn", "initial", "check", "wait", "dequeue", "fetched", "init",
            "run", "push", "erase", "final", "leave", "disabled"}

\* The slave counts itself in _activeCount (lines 176 to 199).
InRequest == {"init", "run", "push", "erase", "final", "leave"}

\* NativeThread::_status is stRunning.
ThreadRunning(t) == pc[t] \notin {"unborn", "initial", "disabled"}

Init ==
    /\ requests = <<>> /\ sem = 0 /\ running = TRUE
    /\ sthrPool = FirstSlaves /\ activeCount = 0
    /\ pc = [t \in Slave |-> IF t \in FirstSlaves THEN "initial" ELSE "unborn"]
    /\ pReq = [t \in Slave |-> NoReq]
    /\ bQuit = [t \in Slave |-> FALSE]
    /\ deletes = [t \in Slave |-> 0]
    /\ call = [r \in Request |-> "none"]
    /\ status = [r \in Request |-> "stDeferred"]
    /\ ran = {} /\ cancelled = {}
    /\ finals = [r \in Request |-> 0]
    /\ stopPc = "none" /\ joining = {}
    /\ rzPc = "idle" /\ rzCalls = 0 /\ resizeCount = Cardinality(FirstSlaves)
    /\ rzSz = 0 /\ rzNew = {} /\ rzReq = NoReq

\* The pool's mutex is free: the one critical section that blocks inside is
\* resize() deleting a slave it may not add (line 435).
PoolFree == rzPc # "delete"

-----------------------------------------------------------------------------
(* start() and pushRequest()                                               *)

\* The unlocked test of _running and the reset of the request's status.
EnterPush(r) ==
    /\ call[r] = "none"
    /\ call' = [call EXCEPT ![r] = IF running THEN "admit" ELSE "refused"]
    /\ status' = [status EXCEPT ![r] = IF running THEN "stInitial" ELSE @]
    /\ UNCHANGED <<ran, finals, cancelled>>

\* Mutant of Push: std::greater instead of std::less.
PushReversed(r) ==
    \E k \in 0..Len(requests) :
        /\ \A i \in 1..k : Priority[requests[i]] >= Priority[r]
        /\ \A i \in (k+1)..Len(requests) : Priority[requests[i]] < Priority[r]
        /\ requests' = InsertAt(requests, k + 1, r)

\* HighPerfPriority_Queue::push(): behind every request that is as urgent or
\* more, before the first that is less so.
Push(r) ==
    \E k \in 0..Len(requests) :
        /\ \A i \in 1..k : Priority[requests[i]] <= Priority[r]
        /\ \A i \in (k+1)..Len(requests) : Priority[requests[i]] > Priority[r]
        /\ requests' = InsertAt(requests, k + 1, r)

\* Mutant of AdmitPush: _running is not tested again under the lock.
AdmitPushUntested(r) ==
    /\ call[r] = "admit" /\ PoolFree
    /\ Push(r) /\ call' = [call EXCEPT ![r] = "post"]
    /\ UNCHANGED <<sem, slaveVars, status, ran, finals, cancelled, stopVars,
                   resizeVars, poolVars>>

\* The critical section: _running is tested again.
AdmitPush(r) ==
    /\ call[r] = "admit" /\ PoolFree
    /\ IF running
       THEN Push(r) /\ call' = [call EXCEPT ![r] = "post"]
       ELSE UNCHANGED requests /\ call' = [call EXCEPT ![r] = "refused"]
    /\ UNCHANGED <<sem, slaveVars, status, ran, finals, cancelled, stopVars,
                   resizeVars, poolVars>>

\* Mutant of PostPush: post() only for the first request in an empty queue.
PostPushIfAlone(r) ==
    /\ call[r] = "post"
    /\ sem' = IF Len(requests) = 1 THEN sem + 1 ELSE sem
    /\ call' = [call EXCEPT ![r] = "returned"]
    /\ UNCHANGED <<requests, slaveVars, status, ran, finals, cancelled,
                   stopVars, resizeVars, poolVars>>

\* post() outside the lock.  start() answers true, refused or not.
PostPush(r) ==
    /\ call[r] = "post"
    /\ sem' = sem + 1
    /\ call' = [call EXCEPT ![r] = "returned"]
    /\ UNCHANGED <<requests, slaveVars, status, ran, finals, cancelled,
                   stopVars, resizeVars, poolVars>>

UserStart(r) ==
    /\ r \in UserReq
    /\ EnterPush(r)
    /\ UNCHANGED <<queueVars, slaveVars, stopVars, resizeVars, poolVars>>

Accepted(r) == call[r] \in {"post", "returned"}

-----------------------------------------------------------------------------
(* SlaveThread::run(), CleanRequest::run(), StopRequest::run()             *)

Goto(t, label) == pc' = [pc EXCEPT ![t] = label]

\* NativeThread::_execute() gets past sem_wait(_suspend) and enters run().
StartThread(t) ==
    /\ pc[t] = "initial"
    /\ Goto(t, "check")
    /\ UNCHANGED <<pReq, bQuit, queueVars, reqVars, stopVars, resizeVars, poolVars>>

\* while(!_bQuit) { while(_requests.empty() && !_bQuit) ... if(_bQuit) return:
\* unlocked reads.
CheckQueue(t) ==
    /\ pc[t] = "check" /\ ~bQuit[t]
    /\ Goto(t, IF requests = <<>> THEN "wait" ELSE "dequeue")
    /\ UNCHANGED <<pReq, bQuit, queueVars, reqVars, stopVars, resizeVars, poolVars>>

\* Mutant of ExitThread: SlaveThread does not override final().
ExitThreadDrops(t) ==
    /\ pc[t] = "check" /\ bQuit[t]
    /\ Goto(t, "disabled")
    /\ pReq' = [pReq EXCEPT ![t] = NoReq]
    /\ UNCHANGED <<bQuit, queueVars, reqVars, stopVars, resizeVars, poolVars>>

\* The thread leaves run(): SlaveThread::final() cancels a request it popped
\* but did not begin; then setStatus(stDisabled).
ExitThread(t) ==
    /\ pc[t] = "check" /\ bQuit[t]
    /\ Goto(t, "disabled")
    /\ pReq' = [pReq EXCEPT ![t] = NoReq]
    /\ IF pReq[t] = NoReq
       THEN UNCHANGED reqVars
       ELSE /\ status' = [status EXCEPT ![pReq[t]] = "stDisabled"]
            /\ finals' = [finals EXCEPT ![pReq[t]] = @ + 1]
            /\ cancelled' = cancelled \cup {pReq[t]}
            /\ UNCHANGED <<call, ran>>
    /\ UNCHANGED <<bQuit, queueVars, stopVars, resizeVars, poolVars>>

\* Mutant of Wait: the count is taken without being waited for.
WaitBlindly(t) ==
    /\ pc[t] = "wait"
    /\ sem' = sem - 1
    /\ Goto(t, "check")
    /\ UNCHANGED <<requests, pReq, bQuit, reqVars, stopVars, resizeVars, poolVars>>

Wait(t) ==
    /\ pc[t] = "wait"
    /\ sem > 0
    /\ sem' = sem - 1
    /\ Goto(t, "check")
    /\ UNCHANGED <<requests, pReq, bQuit, reqVars, stopVars, resizeVars, poolVars>>

\* The value left by "delta = size - getValue(); post() delta times".
Reposted == IF Len(requests) > sem THEN Len(requests) ELSE sem

\* Mutant of Dequeue: top() without pop().
DequeueNoPop(t) ==
    /\ pc[t] = "dequeue" /\ PoolFree
    /\ sem' = Reposted
    /\ pReq' = [pReq EXCEPT ![t] = IF requests = <<>> THEN NoReq ELSE Head(requests)]
    /\ Goto(t, "fetched")
    /\ UNCHANGED <<requests, bQuit, reqVars, stopVars, resizeVars, poolVars>>

\* The critical section: repost, then take the most urgent request, if any. The
\* value is read and raised in one step here; the code posts in a loop, beside
\* the wait() and post() of others who do not hold the mutex.
Dequeue(t) ==
    /\ pc[t] = "dequeue" /\ PoolFree
    /\ sem' = Reposted
    /\ IF requests = <<>>
       THEN pReq' = [pReq EXCEPT ![t] = NoReq] /\ UNCHANGED requests
       ELSE /\ pReq' = [pReq EXCEPT ![t] = Head(requests)]
            /\ requests' = Tail(requests)
    /\ Goto(t, "fetched")
    /\ UNCHANGED <<bQuit, reqVars, stopVars, resizeVars, poolVars>>

\* Mutant of Fetched: the slave is counted before _pReq and _bQuit are tested.
FetchedCountsFirst(t) ==
    /\ pc[t] = "fetched"
    /\ activeCount' = activeCount + 1
    /\ Goto(t, IF pReq[t] = NoReq \/ bQuit[t] THEN "check" ELSE "init")
    /\ UNCHANGED <<pReq, bQuit, queueVars, reqVars, stopVars, resizeVars,
                   running, sthrPool, deletes>>

\* if (NULL == _pReq || _bQuit) continue; else the slave becomes active.
Fetched(t) ==
    /\ pc[t] = "fetched"
    /\ IF pReq[t] = NoReq \/ bQuit[t]
       THEN Goto(t, "check") /\ UNCHANGED activeCount
       ELSE Goto(t, "init") /\ activeCount' = activeCount + 1
    /\ UNCHANGED <<pReq, bQuit, queueVars, reqVars, stopVars, resizeVars,
                   running, sthrPool, deletes>>

\* if (_pReq->init() && !_bQuit) run().  Only an application's init() fails.
InitRequest(t) ==
    /\ pc[t] = "init"
    /\ \/ /\ ~bQuit[t]
          /\ Goto(t, "run")
          /\ status' = [status EXCEPT ![pReq[t]] = "stRunning"]
          /\ ran' = ran \cup {pReq[t]}
       \/ /\ bQuit[t] \/ pReq[t] \in UserReq
          /\ Goto(t, "final")
          /\ UNCHANGED <<status, ran>>
    /\ UNCHANGED <<pReq, bQuit, call, finals, cancelled, queueVars, stopVars,
                   resizeVars, poolVars>>

RunUser(t) ==
    /\ pc[t] = "run" /\ pReq[t] \in UserReq
    /\ Goto(t, "final")
    /\ UNCHANGED <<pReq, bQuit, queueVars, reqVars, stopVars, resizeVars, poolVars>>

\* StopRequest: _pThr->quit(), then start a CleanRequest for the same slave.
RunStop(t) ==
    /\ pc[t] = "run" /\ pReq[t] \in StopReq
    /\ bQuit' = [bQuit EXCEPT ![t] = TRUE]
    /\ EnterPush(CleanOf[t])
    /\ Goto(t, "push")
    /\ UNCHANGED <<pReq, queueVars, stopVars, resizeVars, poolVars>>

PushedClean(t) ==
    /\ pc[t] = "push" /\ call[CleanOf[t]] \in {"returned", "refused"}
    /\ Goto(t, "final")
    /\ UNCHANGED <<pReq, bQuit, queueVars, reqVars, stopVars, resizeVars, poolVars>>

\* Mutant of Delete: terminate() does not join.
DeleteNoJoin(u) == deletes' = [deletes EXCEPT ![u] = @ + 1]

\* delete of a SlaveThread: ~NativeThread() calls terminate(), which joins the
\* thread if its status reads stRunning and does nothing otherwise.
Delete(u) ==
    /\ ~ThreadRunning(u)
    /\ deletes' = [deletes EXCEPT ![u] = @ + 1]

\* CleanRequest: wait until the slave's _pReq is NULL, delete the slave ...
RunClean(t) ==
    /\ pc[t] = "run"
    /\ \E u \in Slave :
        /\ pReq[t] = CleanOf[u]
        /\ pReq[u] = NoReq
        /\ Delete(u)
    /\ Goto(t, "erase")
    /\ UNCHANGED <<pReq, bQuit, queueVars, reqVars, stopVars, resizeVars,
                   running, sthrPool, activeCount>>

\* Mutant of EraseSlave: the pointer stays in _SThrPool.
EraseNothing(t) ==
    /\ pc[t] = "erase" /\ PoolFree
    /\ Goto(t, "final")
    /\ UNCHANGED <<sthrPool, pReq, bQuit, queueVars, reqVars, stopVars, resizeVars,
                   running, activeCount, deletes>>

\* ... and erase the pointer from _SThrPool, under the pool's lock.
EraseSlave(t) ==
    /\ pc[t] = "erase" /\ PoolFree
    /\ sthrPool' = {u \in sthrPool : CleanOf[u] # pReq[t]}
    /\ Goto(t, "final")
    /\ UNCHANGED <<pReq, bQuit, queueVars, reqVars, stopVars, resizeVars,
                   running, activeCount, deletes>>

\* Mutant of FinishRequest: the status is not reset to stDisabled.
FinishKeepsStatus(t) ==
    /\ pc[t] = "final"
    /\ finals' = [finals EXCEPT ![pReq[t]] = @ + 1]
    /\ Goto(t, "leave")
    /\ UNCHANGED <<status, pReq, bQuit, call, ran, cancelled, queueVars, stopVars,
                   resizeVars, poolVars>>

FinishRequest(t) ==
    /\ pc[t] = "final"
    /\ status' = [status EXCEPT ![pReq[t]] = "stDisabled"]
    /\ finals' = [finals EXCEPT ![pReq[t]] = @ + 1]
    /\ Goto(t, "leave")
    /\ UNCHANGED <<pReq, bQuit, call, ran, cancelled, queueVars, stopVars,
                   resizeVars, poolVars>>

\* Mutant of LeaveRequest: _pReq is not reset to NULL.
LeaveKeepsReq(t) ==
    /\ pc[t] = "leave"
    /\ activeCount' = activeCount - 1
    /\ Goto(t, "check")
    /\ UNCHANGED <<pReq, bQuit, queueVars, reqVars, stopVars, resizeVars, running,
                   sthrPool, deletes>>

LeaveRequest(t) ==
    /\ pc[t] = "leave"
    /\ activeCount' = activeCount - 1
    /\ pReq' = [pReq EXCEPT ![t] = NoReq]
    /\ Goto(t, "check")
    /\ UNCHANGED <<bQuit, queueVars, reqVars, stopVars, resizeVars, running,
                   sthrPool, deletes>>

SlaveStep(t) ==
    \/ StartThread(t) \/ CheckQueue(t) \/ ExitThread(t) \/ Wait(t)
    \/ Dequeue(t) \/ Fetched(t) \/ InitRequest(t)
    \/ RunUser(t) \/ RunStop(t) \/ PushedClean(t) \/ RunClean(t) \/ EraseSlave(t)
    \/ FinishRequest(t) \/ LeaveRequest(t)

-----------------------------------------------------------------------------
(* What callers take care of.  The code states none of it and enforces     *)
(* none of it; the runs show what happens to callers who do not.           *)

\* No shrink is under way: resize() is not being executed and every StopRequest
\* and CleanRequest it led to is finished.
Settled ==
    /\ rzPc = "idle"
    /\ \A p \in StopReq \cup CleanReq : call[p] \in {"none", "refused"} \/ finals[p] > 0

Rule(name) ==
    name \in CallerRules =>
        CASE name = "startedBeforeStop"   -> \A t \in Slave : pc[t] # "initial"
          [] name = "settledBeforeStop"   -> Settled
          [] name = "settledBeforeResize" -> Settled
          [] name = "settledBeforeClear"  -> Settled

-----------------------------------------------------------------------------
(* clearRequests() and stop()                                              *)

\* Every pending request is popped and gets final(-2, true); its status is
\* left as it was.  One critical section.
ClearRequests ==
    /\ PoolFree
    /\ requests' = <<>>
    /\ finals' = [r \in Request |->
                    finals[r] + IF r \in ToSet(requests) THEN 1 ELSE 0]
    /\ cancelled' = cancelled \cup ToSet(requests)

\* clearRequests() as a public operation.
CallClear ==
    /\ Rule("settledBeforeClear")
    /\ ClearRequests
    /\ UNCHANGED <<sem, call, status, ran, slaveVars, stopVars, resizeVars, poolVars>>

\* _running = false, without the lock.
BeginStop ==
    /\ stopPc = "none"
    /\ Rule("startedBeforeStop") /\ Rule("settledBeforeStop")
    /\ running' = FALSE
    /\ stopPc' = "clear"
    /\ UNCHANGED <<joining, queueVars, slaveVars, reqVars, resizeVars, sthrPool,
                   activeCount, deletes>>

StopClear ==
    /\ stopPc = "clear"
    /\ ClearRequests
    /\ stopPc' = "quit"
    /\ UNCHANGED <<sem, call, status, ran, joining, slaveVars, resizeVars, poolVars>>

\* Mutant of QuitSlaves: a single post() for all slaves.
QuitSlavesOnePost ==
    /\ stopPc = "quit" /\ PoolFree
    /\ bQuit' = [t \in Slave |-> bQuit[t] \/ t \in sthrPool]
    /\ sem' = sem + 1
    /\ joining' = sthrPool
    /\ sthrPool' = {}
    /\ stopPc' = "join"
    /\ UNCHANGED <<requests, pc, pReq, reqVars, resizeVars, running, activeCount,
                   deletes>>

\* The second critical section: quit() and post() for every slave of
\* _SThrPool, whose content moves to tmpThrlList.
QuitSlaves ==
    /\ stopPc = "quit" /\ PoolFree
    /\ bQuit' = [t \in Slave |-> bQuit[t] \/ t \in sthrPool]
    /\ sem' = sem + Cardinality(sthrPool)
    /\ joining' = sthrPool
    /\ sthrPool' = {}
    /\ stopPc' = "join"
    /\ UNCHANGED <<requests, pc, pReq, reqVars, resizeVars, running, activeCount,
                   deletes>>

\* waitHandle(-1); delete.  The vector's order is left open.
JoinSlave(t) ==
    /\ stopPc = "join" /\ t \in joining
    /\ Delete(t)
    /\ joining' = joining \ {t}
    /\ UNCHANGED <<stopPc, queueVars, slaveVars, reqVars, resizeVars, running,
                   sthrPool, activeCount>>

StopReturns ==
    /\ stopPc = "join" /\ joining = {}
    /\ stopPc' = "done"
    /\ UNCHANGED <<joining, queueVars, slaveVars, reqVars, resizeVars, poolVars>>

StopStep == StopClear \/ QuitSlaves \/ StopReturns \/ \E t \in Slave : JoinSlave(t)

-----------------------------------------------------------------------------
(* resize()                                                                *)

\* _resizeCount is a size_t: a negative argument is a huge count there, which
\* the second test leaves alone; the (int) cast of the loop makes it negative
\* again.
Clamp(n) ==
    IF n > MAX_THRPOOL_SZ THEN MAX_THRPOOL_SZ
    ELSE IF n \in 0..(SMALL_POOL_SZ - 1) THEN SMALL_POOL_SZ
    ELSE n

BeginResize(n) ==
    /\ rzPc = "idle" /\ rzCalls < MaxResizes
    /\ Rule("settledBeforeResize")
    /\ running
    /\ rzCalls' = rzCalls + 1
    /\ resizeCount' = Clamp(n)
    /\ rzPc' = "grow"
    /\ UNCHANGED <<rzSz, rzNew, rzReq, queueVars, slaveVars, reqVars, stopVars, poolVars>>

MustGrow == running /\ Cardinality(sthrPool) < resizeCount

\* new SlaveThread: its constructor already start()s the thread.
GrowNew ==
    /\ rzPc = "grow" /\ MustGrow
    /\ \E t \in Slave :
        /\ pc[t] = "unborn"
        /\ Goto(t, "initial")
        /\ rzNew' = {t}
    /\ rzPc' = "admit"
    /\ UNCHANGED <<rzCalls, resizeCount, rzSz, rzReq, pReq, bQuit, queueVars,
                   reqVars, stopVars, poolVars>>

\* Under the lock: into the pool if it is still running ...
GrowAdmit ==
    /\ rzPc = "admit" /\ running
    /\ sthrPool' = sthrPool \cup rzNew
    /\ sem' = sem + 1
    /\ rzNew' = {}
    /\ rzPc' = "grow"
    /\ UNCHANGED <<rzCalls, resizeCount, rzSz, rzReq, requests, slaveVars, reqVars,
                   stopVars, running, activeCount, deletes>>

\* ... else delete it, still holding the lock while the join lasts.
GrowRefused ==
    /\ rzPc = "admit" /\ ~running
    /\ rzPc' = "delete"
    /\ UNCHANGED <<rzCalls, resizeCount, rzSz, rzNew, rzReq, queueVars, slaveVars,
                   reqVars, stopVars, poolVars>>

GrowDelete ==
    /\ rzPc = "delete"
    /\ \E t \in rzNew : Delete(t)
    /\ rzNew' = {}
    /\ rzPc' = "grow"
    /\ UNCHANGED <<rzCalls, resizeCount, rzSz, rzReq, queueVars, slaveVars, reqVars,
                   stopVars, running, sthrPool, activeCount>>

GrowEnd ==
    /\ rzPc = "grow" /\ ~MustGrow
    /\ rzSz' = Cardinality(sthrPool)
    /\ rzPc' = "shrink"
    /\ UNCHANGED <<rzCalls, resizeCount, rzNew, rzReq, queueVars, slaveVars, reqVars,
                   stopVars, poolVars>>

\* sz > _resizeCount compares two size_t.
MustShrink == running /\ resizeCount >= 0 /\ rzSz > resizeCount

ShrinkOne ==
    /\ rzPc = "shrink" /\ MustShrink
    /\ \E p \in StopReq : EnterPush(p) /\ rzReq' = p
    /\ rzPc' = "pushing"
    /\ UNCHANGED <<rzCalls, resizeCount, rzSz, rzNew, queueVars, slaveVars, stopVars,
                   poolVars>>

ShrinkNext ==
    /\ rzPc = "pushing" /\ call[rzReq] \in {"returned", "refused"}
    /\ rzSz' = rzSz - 1
    /\ rzReq' = NoReq
    /\ rzPc' = "shrink"
    /\ UNCHANGED <<rzCalls, resizeCount, rzNew, queueVars, slaveVars, reqVars,
                   stopVars, poolVars>>

ResizeReturns ==
    /\ rzPc = "shrink" /\ ~MustShrink
    /\ rzPc' = "idle" /\ rzSz' = 0
    /\ UNCHANGED <<rzCalls, resizeCount, rzNew, rzReq, queueVars, slaveVars, reqVars,
                   stopVars, poolVars>>

ResizeStep == GrowNew \/ GrowAdmit \/ GrowRefused \/ GrowDelete \/ GrowEnd
              \/ ShrinkOne \/ ShrinkNext \/ ResizeReturns

-----------------------------------------------------------------------------
\* stop() has returned, every slave thread is gone, nobody is in a call.
Terminated ==
    /\ stopPc = "done" /\ rzPc = "idle"
    /\ \A t \in Slave : pc[t] \in {"unborn", "disabled"}
    /\ \A r \in Request : call[r] \notin {"admit", "post"}
    /\ UNCHANGED vars

Next ==
    \/ \E r \in Request : UserStart(r) \/ AdmitPush(r) \/ PostPush(r)
    \/ \E t \in Slave : SlaveStep(t)
    \/ CallClear
    \/ BeginStop \/ StopStep
    \/ \E n \in ResizeArgs : BeginResize(n)
    \/ ResizeStep
    \/ Terminated

Spec == Init /\ [][Next]_vars

\* The scheduler runs every thread that can run, requests' run() returns, and a
\* call of pushRequest(), resize() or stop() goes on once begun; nobody has to
\* make such a call.
Fairness ==
    /\ \A t \in Slave : WF_vars(SlaveStep(t))
    /\ \A r \in Request : WF_vars(AdmitPush(r) \/ PostPush(r))
    /\ WF_vars(StopStep)
    /\ WF_vars(ResizeStep)

FairSpec == Spec /\ Fairness

-----------------------------------------------------------------------------
(* Properties                                                              *)

\* The type of every variable.
TypeOK ==
    /\ requests \in Seq(Request) /\ sem \in Nat /\ running \in BOOLEAN
    /\ sthrPool \subseteq Slave /\ activeCount \in Int
    /\ pc \in [Slave -> SlavePc]
    /\ pReq \in [Slave -> Request \cup {NoReq}]
    /\ bQuit \in [Slave -> BOOLEAN]
    /\ deletes \in [Slave -> Nat]
    /\ call \in [Request -> {"none", "admit", "post", "returned", "refused"}]
    /\ status \in [Request -> {"stDeferred", "stInitial", "stRunning", "stDisabled"}]
    /\ ran \subseteq Request /\ cancelled \subseteq Request
    /\ finals \in [Request -> Nat]
    /\ stopPc \in {"none", "clear", "quit", "join", "done"}
    /\ joining \subseteq Slave
    /\ rzPc \in {"idle", "grow", "admit", "delete", "shrink", "pushing"}
    /\ rzCalls \in Nat /\ resizeCount \in Int /\ rzSz \in Int
    /\ rzNew \subseteq Slave /\ rzReq \in StopReq \cup {NoReq}

\* No lost wakeup: while requests are pending, the semaphore is up, or the
\* post() of a push is on its way, or a slave is about to look at the queue
\* before it sleeps.  The semaphore and the queue are updated under different
\* protections, and dequeuing may leave more requests than counts.
LooksAtQueue(t) == pc[t] \in {"check", "dequeue"} /\ ~bQuit[t]

NoLostWakeup ==
    requests # <<>> =>
        \/ sem > 0
        \/ \E r \in Request : call[r] = "post"
        \/ \E t \in Slave : LooksAtQueue(t)

\* A request has one owner at a time, the queue or one slave: nothing is
\* served twice or finalised while it is still queued.
SingleOwner ==
    /\ \A i, j \in 1..Len(requests) : requests[i] = requests[j] => i = j
    /\ \A t \in Slave : pReq[t] # NoReq =>
           /\ pReq[t] \notin ToSet(requests)
           /\ \A u \in Slave : pReq[u] = pReq[t] => u = t

\* final() is called at most once, never on a request that is still queued, and
\* with bCancelled only if run() was not entered.
FinalOnce ==
    /\ \A r \in Request : finals[r] <= 1
    /\ \A r \in ToSet(requests) : finals[r] = 0
    /\ ran \cap cancelled = {}

\* _activeCount, kept under its own mutex, counts the slaves inside a request.
ActiveCountExact == activeCount = Cardinality({t \in Slave : pc[t] \in InRequest})

\* A SlaveThread is deleted at most once and only when its thread is over:
\* CleanRequest, stop() and resize() all delete slaves.
DeletedOnceDead ==
    \A t \in Slave : deletes[t] > 0 => deletes[t] = 1 /\ pc[t] = "disabled"

\* isRunning() is true of a request only while a live slave runs it, which is
\* what lets threadId() dereference _pThr.
RunningHasThread ==
    \A r \in Request : status[r] = "stRunning" =>
        \E t \in Slave : pReq[t] = r /\ pc[t] \in InRequest /\ deletes[t] = 0

\* The request a slave takes is one no queued request is more urgent than.
UrgentFirst ==
    [][\A t \in Slave : pReq[t] = NoReq /\ pReq'[t] # NoReq =>
            \A r \in ToSet(requests') : Priority[pReq'[t]] <= Priority[r]]_vars

\* Every accepted request gets its final(), whatever resize() or stop() do: time
\* and again none is outstanding.
EventuallyFinal ==
    []<>(\A r \in Request : Accepted(r) => finals[r] = 1)

\* stop() returns.
StopCompletes == stopPc = "clear" ~> stopPc = "done"

\* Every resize() returns, and the pool comes to the size it asked for, all of it
\* threads that serve, unless it is stopped first.
ServingSlaves == {t \in sthrPool : ~bQuit[t] /\ deletes[t] = 0}

ResizeConverges ==
    []<>(/\ rzPc = "idle"
         /\ \/ ~running \/ resizeCount < 0
            \/ Cardinality(sthrPool) = resizeCount /\ sthrPool = ServingSlaves)

-----------------------------------------------------------------------------
(* Refinement: the pool implements RequestLifecycle.                       *)

Life(r) ==
    IF finals[r] > 0 THEN IF r \in cancelled THEN "cancelled" ELSE "done"
    ELSE IF \E t \in Slave : pReq[t] = r THEN "taken"
    ELSE IF r \in ToSet(requests) THEN "pending"
    ELSE IF call[r] = "refused" THEN "refused"
    ELSE "new"

Lifecycle == INSTANCE RequestLifecycle WITH
    Request <- Request,
    life    <- [r \in Request |-> Life(r)],
    phase   <- IF running THEN "open" ELSE IF stopPc = "done" THEN "closed" ELSE "closing"

\* Each request goes through the life the abstract pool gives it, and stop()
\* returns only when no request is outstanding.
ImplementsLifecycle == Lifecycle!Spec
=============================================================================
