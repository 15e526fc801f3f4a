------------------------------- MODULE Scheduler -------------------------------
(***************************************************************************)
(* Scheduler.cpp and PollingTimer.cpp (Linux build): tasks booked with a   *)
(* delay, and the poller, itself a request on the thread pool, that scans  *)
(* the list of booked tasks under _taskMutex, start()s those that are due  *)
(* on the pool and sleeps on its semaphore until the next one.             *)
(*                                                                         *)
(* Time is counted in ticks, in which the constants of the code are scaled *)
(* down. A timer holds the time left, not the moment it ends. A task's     *)
(* timer is written by startWait() WITHOUT _taskMutex, in three steps.     *)
(***************************************************************************)
EXTENDS Integers, Sequences, FiniteSets, SequencesExt

CONSTANTS
    Task,
    NULL,                       \* an entry of _taskList that clearTask() reset
    MAX_SCHD_POLLTIME,          \* 10000 msec in the code
    MAX_TASK_PRESTARTTIME,      \* 10 msec
    MIN_TASK_UPDATETIME,        \* 1000 msec
    WRAPPED_SLEEP,              \* 1110 msec, see SleepOf
    WaitTimes,                  \* arguments of startWait()
    MaxBookings,                \* bound: calls of startWait(), over all tasks
    MaxLag                      \* bound: ticks counted from a scan to the sleep

ASSUME SchedulerAssumption ==
    /\ IsFiniteSet(Task) /\ NULL \notin Task
    /\ MAX_TASK_PRESTARTTIME \in Nat /\ MIN_TASK_UPDATETIME \in Nat
    /\ MAX_SCHD_POLLTIME \in Nat \ {0} /\ WRAPPED_SLEEP \in 0..MAX_SCHD_POLLTIME
    /\ WaitTimes \subseteq Nat /\ MaxBookings \in Nat /\ MaxLag \in Nat

VARIABLES
    left,       \* time left on each task's timer
    active,     \* PollingTimer::_active
    call,       \* progress of startWait() on each task, and its argument
    bookings,   \* calls of startWait() so far on each task
    alive,      \* tasks not destroyed yet
    taskList,   \* _taskList
    pc, iter, sleepTime,    \* the poller: where it is, and its locals
    asleep,     \* time left of its sem_timedwait()
    wakeup,     \* value of the semaphore
    bQuit,
    posted,     \* how often each task was started on the pool
    lag         \* ticks between the poller's last look and its sleep, up to MaxLag

timerVars  == <<left, active>>
appVars    == <<call, bookings, alive>>
pollerVars == <<pc, iter, sleepTime, asleep>>
vars == <<timerVars, appVars, taskList, pollerVars, wakeup, bQuit, posted, lag>>

Listed == ToSet(taskList) \ {NULL}

Init ==
    /\ left = [t \in Task |-> 0] /\ active = [t \in Task |-> FALSE]
    /\ call = [t \in Task |-> [pc |-> "idle", waittime |-> 0]]
    /\ bookings = [t \in Task |-> 0] /\ alive = Task /\ taskList = <<>>
    /\ pc = "loop" /\ iter = 1 /\ sleepTime = 0 /\ asleep = 0
    /\ wakeup = 0 /\ bQuit = FALSE /\ posted = [t \in Task |-> 0]
    /\ lag = 0

\* The scan is one critical section, of a step for each entry.
TaskMutexFree == pc # "scan"

----------------------------------------------------------------------------
(* The application. *)

MayBook == FoldFunction(LAMBDA m, n : m + n, 0, bookings) < MaxBookings

Goto(t, at) == call' = [call EXCEPT ![t].pc = at]

\* The test startWait() begins with, on a timer nothing ever stops but the
\* destructor of the task.
TooLate(t) == active[t] /\ left[t] < MIN_TASK_UPDATETIME

StartWaitRefused(t) ==
    /\ t \in alive /\ call[t].pc = "idle" /\ MayBook /\ TooLate(t)
    /\ bookings' = [bookings EXCEPT ![t] = @ + 1]
    /\ UNCHANGED <<timerVars, call, alive, taskList, pollerVars, wakeup, bQuit, posted, lag>>

StartWait(t) ==
    /\ t \in alive /\ call[t].pc = "idle" /\ MayBook /\ ~TooLate(t)
    /\ ~bQuit
    /\ \E w \in WaitTimes : call' = [call EXCEPT ![t] = [pc |-> "now", waittime |-> w]]
    /\ bookings' = [bookings EXCEPT ![t] = @ + 1]
    /\ UNCHANGED <<timerVars, alive, taskList, pollerVars, wakeup, bQuit, posted, lag>>

\* setTimer(): _timer is the present moment before _active is reset.
TimerIsNow(t) ==
    /\ call[t].pc = "now" /\ Goto(t, "stop")
    /\ left' = [left EXCEPT ![t] = 0]
    /\ UNCHANGED <<active, bookings, alive, taskList, pollerVars, wakeup, bQuit,
                   posted, lag>>

StopTimer(t) ==
    /\ call[t].pc = "stop" /\ Goto(t, "inc")
    /\ active' = [active EXCEPT ![t] = FALSE]
    /\ UNCHANGED <<left, bookings, alive, taskList, pollerVars, wakeup, bQuit,
                   posted, lag>>

\* Mutant of IncTimer: the commented-out test, no timer without a timeout.
IncTimerNonZero(t) ==
    /\ call[t].pc = "inc" /\ Goto(t, "book")
    /\ left' = [left EXCEPT ![t] = call[t].waittime]
    /\ active' = [active EXCEPT ![t] = call[t].waittime # 0]
    /\ UNCHANGED <<bookings, alive, taskList, pollerVars, wakeup, bQuit, posted, lag>>

\* incTimer() writes the timer in two parts; nobody sees them, as getTimer()
\* looks at _active first, which is set last. (A getTimer() that looked before
\* StopTimer and reads the timer after it is not modelled.)
IncTimer(t) ==
    /\ call[t].pc = "inc" /\ Goto(t, "book")
    /\ left' = [left EXCEPT ![t] = call[t].waittime]
    /\ active' = [active EXCEPT ![t] = TRUE]
    /\ UNCHANGED <<bookings, alive, taskList, pollerVars, wakeup, bQuit, posted, lag>>

\* Mutant of BookTask: a task already listed does not wake the poller.
BookTaskQuietly(t) ==
    /\ call[t].pc = "book" /\ TaskMutexFree
    /\ IF t \in Listed THEN UNCHANGED <<taskList, wakeup>>
       ELSE taskList' = Append(taskList, t) /\ wakeup' = wakeup + 1
    /\ Goto(t, "idle")
    /\ UNCHANGED <<timerVars, bookings, alive, pollerVars, bQuit, posted, lag>>

\* Mutant of BookTask: the list is not searched.
BookTaskAgain(t) ==
    /\ call[t].pc = "book" /\ TaskMutexFree
    /\ taskList' = Append(taskList, t) /\ wakeup' = wakeup + 1
    /\ Goto(t, "idle")
    /\ UNCHANGED <<timerVars, bookings, alive, pollerVars, bQuit, posted, lag>>

\* bookTask(): a listed task keeps its place, the poller looks again anyway.
BookTask(t) ==
    /\ call[t].pc = "book" /\ TaskMutexFree
    /\ taskList' = IF t \in Listed THEN taskList ELSE Append(taskList, t)
    /\ wakeup' = wakeup + 1
    /\ Goto(t, "idle")
    /\ UNCHANGED <<timerVars, bookings, alive, pollerVars, bQuit, posted, lag>>

Reset(list, t) == [k \in DOMAIN list |-> IF list[k] = t THEN NULL ELSE list[k]]

\* clearTask(): the entry becomes NULL, the poller drops it later.
ClearTask(t) ==
    /\ t \in alive /\ call[t].pc = "idle" /\ TaskMutexFree /\ t \in Listed /\ ~bQuit
    /\ taskList' = Reset(taskList, t)
    /\ UNCHANGED <<timerVars, appVars, pollerVars, wakeup, bQuit, posted, lag>>

\* Mutant of DestroyTask: clearTask() is not called.
DestroyTaskListed(t) ==
    /\ t \in alive /\ call[t].pc = "idle" /\ posted[t] = 0 /\ TaskMutexFree /\ ~bQuit
    /\ alive' = alive \ {t} /\ active' = [active EXCEPT ![t] = FALSE]
    /\ UNCHANGED <<left, call, bookings, taskList, pollerVars, wakeup, bQuit, posted, lag>>

\* ~ScheduleTask(), of a task that is not on the pool.
DestroyTask(t) ==
    /\ t \in alive /\ call[t].pc = "idle" /\ posted[t] = 0 /\ TaskMutexFree /\ ~bQuit
    /\ alive' = alive \ {t} /\ active' = [active EXCEPT ![t] = FALSE]
    /\ taskList' = Reset(taskList, t)
    /\ UNCHANGED <<left, call, bookings, pollerVars, wakeup, bQuit, posted, lag>>

\* ~Scheduler(), when no startWait() is in progress.
Quit ==
    /\ ~bQuit /\ TaskMutexFree /\ \A t \in Task : call[t].pc = "idle"
    /\ taskList' = <<>> /\ bQuit' = TRUE /\ wakeup' = wakeup + 1
    /\ UNCHANGED <<timerVars, appVars, pollerVars, posted, lag>>

----------------------------------------------------------------------------
(* SchdPollerThread::run() *)

\* Where the poller goes from a test of _bQuit.
Unless(next) == pc' = IF bQuit THEN "done" ELSE next

BeginScan ==
    /\ pc = "loop" /\ Unless("scan")
    /\ iter' = 1 /\ sleepTime' = MAX_SCHD_POLLTIME /\ lag' = 0
    /\ UNCHANGED <<timerVars, appVars, taskList, asleep, wakeup, bQuit, posted>>

AtEntry == pc = "scan" /\ iter <= Len(taskList)

DropCleared ==
    /\ AtEntry /\ taskList[iter] = NULL
    /\ taskList' = RemoveAt(taskList, iter)
    /\ UNCHANGED <<timerVars, appVars, pollerVars, wakeup, bQuit, posted, lag>>

\* getTimer(): an inactive timer never ends.
Due(t) == active[t] /\ left[t] <= MAX_TASK_PRESTARTTIME

\* Mutant of StartDue: the task is left in the list.
StartDueAndKeep ==
    LET t == taskList[iter] IN
    /\ AtEntry /\ t # NULL /\ ~bQuit /\ Due(t)
    /\ iter' = iter + 1
    /\ posted' = [posted EXCEPT ![t] = @ + 1]
    /\ UNCHANGED <<timerVars, appVars, taskList, pc, sleepTime, asleep, wakeup, bQuit, lag>>

StartDue ==
    LET t == taskList[iter] IN
    /\ AtEntry /\ t # NULL /\ ~bQuit /\ Due(t)
    /\ taskList' = RemoveAt(taskList, iter)
    /\ posted' = [posted EXCEPT ![t] = @ + 1]
    /\ UNCHANGED <<timerVars, appVars, pollerVars, wakeup, bQuit, lag>>

\* TIMEOUT_INF is -1 once it is cast to long, and -1 is the smallest: a listed
\* task whose timer is stopped while startWait() moves it.
Shorter(t) == LET timeout == IF active[t] THEN left[t] ELSE -1
              IN IF timeout < sleepTime THEN timeout ELSE sleepTime

PassEntry ==
    LET t == taskList[iter] IN
    /\ AtEntry /\ t # NULL /\ ~bQuit /\ ~Due(t)
    /\ iter' = iter + 1 /\ sleepTime' = Shorter(t)
    /\ UNCHANGED <<timerVars, appVars, taskList, pc, asleep, wakeup, bQuit, posted, lag>>

\* The end of the list, or the break out of the scan; the mutex is released.
EndScan ==
    /\ pc = "scan"
    /\ iter > Len(taskList) \/ (bQuit /\ taskList[iter] # NULL)
    /\ Unless("sleep")
    /\ UNCHANGED <<timerVars, appVars, taskList, iter, sleepTime, asleep, wakeup, bQuit,
                   posted, lag>>

\* What sem_timedwait() may make of the sleep. A sleep of -1 ends in the past,
\* but at a full second by the clock, where the unsigned millitm it is added to
\* wraps round to 65535: that is over a second, or not at all, by how the build
\* takes the overflow of tv_nsec.
SleepOf(n) ==
    IF n > MAX_TASK_PRESTARTTIME THEN {n - MAX_TASK_PRESTARTTIME}
    ELSE IF n >= 0 THEN {n} ELSE {0, WRAPPED_SLEEP}

FallAsleep ==
    /\ pc = "sleep" /\ pc' = "asleep"
    /\ asleep' \in SleepOf(sleepTime)
    /\ sleepTime' = 0 /\ iter' = 1
    /\ UNCHANGED <<timerVars, appVars, taskList, wakeup, bQuit, posted, lag>>

\* sem_timedwait() returns, with or without having taken a count.
WakeUp ==
    /\ pc = "asleep" /\ (wakeup > 0 \/ asleep = 0)
    /\ wakeup' = IF wakeup > 0 THEN wakeup - 1 ELSE 0
    /\ Unless("loop") /\ asleep' = 0 /\ lag' = 0
    /\ UNCHANGED <<timerVars, appVars, taskList, iter, sleepTime, bQuit, posted>>

PollerStep ==
    \/ BeginScan \/ DropCleared \/ StartDue \/ PassEntry \/ EndScan \/ FallAsleep \/ WakeUp

\* A tick.
Tick ==
    LET less(n) == IF n > 0 THEN n - 1 ELSE 0 IN
    /\ left'   = [t \in Task |-> less(left[t])]
    /\ asleep' = IF pc = "asleep" THEN less(asleep) ELSE asleep
    /\ lag' = IF pc \in {"scan", "sleep"} /\ lag <= MaxLag THEN lag + 1 ELSE lag
    /\ UNCHANGED <<active, appVars, taskList, pc, iter, sleepTime, wakeup, bQuit, posted>>

CallStep(t) == TimerIsNow(t) \/ StopTimer(t) \/ IncTimer(t) \/ BookTask(t)

Next ==
    \/ \E t \in Task : \/ StartWaitRefused(t) \/ StartWait(t) \/ CallStep(t)
                       \/ ClearTask(t) \/ DestroyTask(t)
    \/ PollerStep \/ Tick \/ Quit

Spec == Init /\ [][Next]_vars

\* The poller's thread and the callers run on, and so does time.
FairSpec == Spec /\ WF_vars(PollerStep) /\ WF_vars(Tick) /\ \A t \in Task : WF_vars(CallStep(t))

----------------------------------------------------------------------------
(* Properties. *)

\* The type invariant; a task is in the list once.
TypeOK ==
    /\ left \in [Task -> Nat] /\ active \in [Task -> BOOLEAN]
    /\ call \in [Task -> [pc : {"idle", "now", "stop", "inc", "book"}, waittime : WaitTimes \cup {0}]]
    /\ bookings \in [Task -> Nat] /\ alive \subseteq Task
    /\ taskList \in Seq(Task \cup {NULL})
    /\ \A j, k \in DOMAIN taskList : taskList[j] = taskList[k] /\ taskList[j] # NULL => j = k
    /\ pc \in {"loop", "scan", "sleep", "asleep", "done"} /\ iter \in Nat \ {0}
    /\ sleepTime \in -1..MAX_SCHD_POLLTIME /\ asleep \in 0..MAX_SCHD_POLLTIME
    /\ wakeup \in Nat /\ bQuit \in BOOLEAN /\ posted \in [Task -> Nat] /\ lag \in Nat

\* No call of startWait() makes a task run twice: what is on the list and what
\* was handed to the pool never exceed the bookings.
OneStartPerBooking ==
    \A t \in Task : posted[t] + (IF t \in Listed THEN 1 ELSE 0)
                    + (IF call[t].pc \in {"now", "stop", "inc", "book"} /\ t \notin Listed
                       THEN 1 ELSE 0) <= bookings[t]

\* The poller's pointers are good: a destroyed task is in no entry.
ListedAreAlive == Listed \subseteq alive

\* startWait() moves a listed task, whose timer it has stopped; a wakeup is yet
\* to come from it.
Moved(t) == t \in Listed /\ call[t].pc \in {"inc", "book"}

\* While the poller sleeps undisturbed, no booked task comes due before it
\* wakes up, except by the time that passed between its look and its sleep. A
\* sleep that wrapped round is longer, but no longer than startWait() takes to
\* move the task whose stopped timer was read.
SleepsNoLonger ==
    pc = "asleep" /\ wakeup = 0 /\ lag <= MaxLag /\ ~(\E t \in Task : Moved(t)) =>
        \A t \in Listed : call[t].pc = "idle" /\ active[t] =>
            asleep <= left[t] + lag

\* A booked task is started, unless it is cleared or the scheduler goes.
EventuallyStarted ==
    \A t \in Task : t \in Listed /\ call[t].pc = "idle"
                    ~> (t \notin Listed \/ call[t].pc # "idle" \/ bQuit)
=============================================================================
