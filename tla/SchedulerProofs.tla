---------------------------- MODULE SchedulerProofs ----------------------------
(* Theorems about Scheduler, for any tasks, waiting times and limits of the   *)
(* poller.                                                                    *)
EXTENDS Scheduler, SequenceTheorems, TLAPS

Phase == {"idle", "now", "stop", "inc", "book"}

Call == [pc : Phase, waittime : WaitTimes \cup {0}]

\* The types the proofs need: TypeOK without the bounds of the numbers.
Types ==
    /\ left \in [Task -> Nat] /\ active \in [Task -> BOOLEAN]
    /\ call \in [Task -> Call]
    /\ bookings \in [Task -> Nat] /\ alive \subseteq Task
    /\ taskList \in Seq(Task \cup {NULL})
    /\ iter \in Nat \ {0} /\ sleepTime \in Int /\ asleep \in Nat
    /\ wakeup \in Nat /\ posted \in [Task -> Nat] /\ lag \in Nat

\* A task is in the list once.
ListedOnce ==
    \A j, k \in 1..Len(taskList) :
        taskList[j] = taskList[k] /\ taskList[j] # NULL => j = k

\* startWait() is in progress.
Booking(t) == call[t].pc # "idle"

BookingIsAlive == \A t \in Task : Booking(t) => t \in alive

\* Every booking is for one start: one that was made, that is to be made of a
\* listed task, or that a startWait() in progress will ask for.
Waits(t) == IF t \in Listed THEN 1 ELSE 0
Asks(t)  == IF Booking(t) THEN 1 ELSE 0

StartsAreBooked ==
    \A t \in Task : posted[t] + Waits(t) + Asks(t) <= bookings[t]

-----------------------------------------------------------------------------
(* What the operations on the list do to it. *)

LEMMA ListElements ==
    ASSUME NEW s \in Seq(Task \cup {NULL})
    PROVE  ToSet(s) = {s[k] : k \in 1..Len(s)}
BY DEF ToSet

\* erase() of the vector.
LEMMA RemoveAtElements ==
    ASSUME NEW S, NEW s \in Seq(S), NEW i \in 1..Len(s)
    PROVE  /\ RemoveAt(s, i) \in Seq(S) /\ Len(RemoveAt(s, i)) = Len(s) - 1
           /\ \A k \in 1..(Len(s) - 1) :
                RemoveAt(s, i)[k] = IF k < i THEN s[k] ELSE s[k + 1]
<1> DEFINE front == SubSeq(s, 1, i - 1)
           back  == SubSeq(s, i + 1, Len(s))
<1>1. /\ front \in Seq(S) /\ Len(front) = i - 1 /\ \A k \in 1..(i - 1) : front[k] = s[k]
      /\ back \in Seq(S) /\ Len(back) = Len(s) - i
      /\ \A k \in 1..(Len(s) - i) : back[k] = s[i + k]
  OBVIOUS
<1>2. RemoveAt(s, i) = front \o back
  BY Zenon DEF RemoveAt
<1> HIDE DEF front, back
<1>3. front \in Seq(S) /\ back \in Seq(S)
  BY <1>1
<1>4. /\ front \o back \in Seq(S) /\ Len(front \o back) = Len(front) + Len(back)
      /\ \A k \in 1..(Len(front) + Len(back)) :
           (front \o back)[k] = IF k <= Len(front) THEN front[k] ELSE back[k - Len(front)]
  BY <1>3, ConcatProperties, Zenon
<1>5. Len(front) + Len(back) = Len(s) - 1
  BY <1>1
<1>6. \A k \in 1..(Len(s) - 1) : ~(k < i) => back[k - (i - 1)] = s[k + 1]
  BY <1>1
<1>7. \A k \in 1..(Len(s) - 1) : k <= Len(front) <=> k < i
  BY <1>1
<1> QED  BY <1>1, <1>2, <1>4, <1>5, <1>6, <1>7

\* How a step may change the list: to one over the same tasks.
ListIs(S) == taskList' \in Seq(Task \cup {NULL}) /\ ListedOnce' /\ Listed' = S

LEMMA Appended ==
    ASSUME Types, ListedOnce, NEW t \in Task, t \notin Listed,
           taskList' = Append(taskList, t)
    PROVE  ListIs(Listed \cup {t})
<1> USE DEF Types
<1>1. /\ taskList' \in Seq(Task \cup {NULL}) /\ Len(taskList') = Len(taskList) + 1
      /\ \A k \in 1..Len(taskList) : taskList'[k] = taskList[k]
      /\ taskList'[Len(taskList) + 1] = t
  OBVIOUS
<1>2. t # NULL
  BY SchedulerAssumption
<1>3. /\ ToSet(taskList) = {taskList[k] : k \in 1..Len(taskList)}
      /\ ToSet(taskList') = {taskList'[k] : k \in 1..Len(taskList')}
  <2>0. taskList' \in Seq(Task \cup {NULL})
    BY <1>1
  <2>1. ToSet(taskList') = {taskList'[k] : k \in 1..Len(taskList')}
    BY <2>0, ListElements
  <2> QED  BY <2>1, ListElements
<1>4. \A k \in 1..Len(taskList) : taskList[k] # t
  BY <1>2, <1>3 DEF Listed
<1>5. ListedOnce'
  BY <1>1, <1>4 DEF ListedOnce
<1>6. ToSet(taskList') = ToSet(taskList) \cup {t}
  <2>1. t \in ToSet(taskList') /\ \A k \in 1..Len(taskList) : taskList[k] \in ToSet(taskList')
    <3>1. Len(taskList) + 1 \in 1..Len(taskList')
      BY <1>1
    <3>2. \A k \in 1..Len(taskList) : k \in 1..Len(taskList')
      BY <1>1
    <3> QED  BY <1>1, <1>3, <3>1, <3>2
  <2>2. \A k \in 1..Len(taskList') : taskList'[k] \in ToSet(taskList) \cup {t}
    BY <1>1, <1>3
  <2> QED  BY <1>3, <2>1, <2>2
<1> QED  BY <1>1, <1>2, <1>5, <1>6 DEF Listed, ListIs

LEMMA Removed ==
    ASSUME Types, ListedOnce, NEW i \in 1..Len(taskList),
           taskList' = RemoveAt(taskList, i)
    PROVE  ListIs(Listed \ {taskList[i]})
<1> USE DEF Types
<1>1. /\ taskList' \in Seq(Task \cup {NULL}) /\ Len(taskList') = Len(taskList) - 1
      /\ \A k \in 1..Len(taskList') :
           taskList'[k] = IF k < i THEN taskList[k] ELSE taskList[k + 1]
  BY RemoveAtElements
<1>2. /\ ToSet(taskList) = {taskList[k] : k \in 1..Len(taskList)}
      /\ ToSet(taskList') = {taskList'[k] : k \in 1..Len(taskList')}
  <2>0. taskList' \in Seq(Task \cup {NULL})
    BY <1>1
  <2>1. ToSet(taskList') = {taskList'[k] : k \in 1..Len(taskList')}
    BY <2>0, ListElements
  <2> QED  BY <2>1, ListElements
<1> DEFINE old(k) == IF k < i THEN k ELSE k + 1
           new(k) == IF k < i THEN k ELSE k - 1
<1>3. \A k \in 1..Len(taskList') :
        old(k) \in 1..Len(taskList) /\ old(k) # i /\ taskList'[k] = taskList[old(k)]
  BY <1>1
<1>4. \A k \in 1..Len(taskList) : k # i =>
        new(k) \in 1..Len(taskList') /\ taskList'[new(k)] = taskList[k]
  BY <1>1
<1>5. ListedOnce'
  <2> SUFFICES ASSUME NEW j \in 1..Len(taskList'), NEW k \in 1..Len(taskList'),
                      taskList'[j] = taskList'[k], taskList'[j] # NULL
               PROVE  j = k
    BY DEF ListedOnce
  <2>1. taskList[old(j)] = taskList[old(k)] /\ taskList[old(j)] # NULL
    BY <1>3
  <2>2. old(j) \in 1..Len(taskList) /\ old(k) \in 1..Len(taskList)
    BY <1>3
  <2>3. old(j) = old(k)
    BY <2>1, <2>2 DEF ListedOnce
  <2> QED  BY <2>3
<1>6. \A t \in Listed' : t \in Listed \ {taskList[i]}
  <2> SUFFICES ASSUME NEW k \in 1..Len(taskList'), taskList'[k] # NULL
               PROVE  taskList'[k] \in Listed \ {taskList[i]}
    BY <1>2 DEF Listed
  <2>1. taskList'[k] = taskList[old(k)] /\ old(k) \in 1..Len(taskList) /\ old(k) # i
    BY <1>3
  <2> HIDE DEF old
  <2> QED  BY <1>2, <2>1 DEF Listed, ListedOnce
<1>7. \A t \in Listed \ {taskList[i]} : t \in Listed'
  <2> SUFFICES ASSUME NEW k \in 1..Len(taskList), taskList[k] # NULL, k # i
               PROVE  taskList[k] \in Listed'
    BY <1>2 DEF Listed
  <2>1. new(k) \in 1..Len(taskList') /\ taskList'[new(k)] = taskList[k]
    BY <1>4
  <2> HIDE DEF new
  <2> QED  BY <1>2, <2>1 DEF Listed
<1> QED  BY <1>1, <1>5, <1>6, <1>7 DEF ListIs

LEMMA Cleared ==
    ASSUME Types, ListedOnce, NEW t \in Task, taskList' = Reset(taskList, t)
    PROVE  ListIs(Listed \ {t})
<1> USE DEF Types
<1>1. /\ taskList' \in Seq(Task \cup {NULL}) /\ Len(taskList') = Len(taskList)
      /\ \A k \in 1..Len(taskList) :
           taskList'[k] = IF taskList[k] = t THEN NULL ELSE taskList[k]
  <2> DEFINE f == [k \in 1..Len(taskList) |-> IF taskList[k] = t THEN NULL ELSE taskList[k]]
  <2>1. taskList' = f
    BY DEF Reset
  <2>2. f \in [1..Len(taskList) -> Task \cup {NULL}]
    OBVIOUS
  <2>3. f \in Seq(Task \cup {NULL}) /\ DOMAIN f = 1..Len(taskList)
    BY <2>2
  <2>4. Len(f) = Len(taskList)
    BY <2>3
  <2> QED  BY <2>1, <2>3, <2>4
<1>2. /\ ToSet(taskList) = {taskList[k] : k \in 1..Len(taskList)}
      /\ ToSet(taskList') = {taskList'[k] : k \in 1..Len(taskList')}
  <2>0. taskList' \in Seq(Task \cup {NULL})
    BY <1>1
  <2>1. ToSet(taskList') = {taskList'[k] : k \in 1..Len(taskList')}
    BY <2>0, ListElements
  <2> QED  BY <2>1, ListElements
<1>3. ListedOnce'
  BY <1>1 DEF ListedOnce
<1>4. Listed' = Listed \ {t}
  <2>1. \A u \in Listed' : u \in Listed \ {t}
    BY <1>1, <1>2 DEF Listed
  <2>2. \A u \in Listed \ {t} : u \in Listed'
    <3> SUFFICES ASSUME NEW k \in 1..Len(taskList), taskList[k] # NULL, taskList[k] # t
                 PROVE  taskList[k] \in Listed'
      BY <1>2 DEF Listed
    <3>1. taskList'[k] = taskList[k] /\ k \in 1..Len(taskList')
      BY <1>1
    <3> QED  BY <1>2, <3>1 DEF Listed
  <2> QED  BY <2>1, <2>2
<1> QED  BY <1>1, <1>3, <1>4 DEF ListIs

LEMMA Emptied ==
    ASSUME taskList' = <<>>
    PROVE  ListIs({})
BY DEF ListIs, Listed, ListedOnce, ToSet

-----------------------------------------------------------------------------
(* The list, the tasks and the number of times they are started. *)

\* The inductive invariant of the booking.
Counts == BookingIsAlive /\ ListedAreAlive /\ StartsAreBooked

IInv == Types /\ ListedOnce /\ Counts

\* The list is untouched but in the steps below.
LEMMA ListKept ==
    ASSUME Types, ListedOnce, taskList' = taskList
    PROVE  ListIs(Listed)
BY DEF Types, ListIs, Listed, ListedOnce

\* What each step does to the list.
LEMMA ListStep ==
    ASSUME Types, ListedOnce, [Next]_vars
    PROVE  \/ ListIs(Listed) /\ (taskList' = taskList \/ pc = "scan")
           \/ \E t \in Task : BookTask(t) /\ ListIs(Listed \cup {t})
           \/ \E t \in Task : (ClearTask(t) \/ DestroyTask(t)) /\ ListIs(Listed \ {t})
           \/ StartDue /\ ListIs(Listed \ {taskList[iter]})
           \/ Quit /\ ListIs({})
<1> USE DEF vars, timerVars, appVars, pollerVars
<1>1. CASE taskList' = taskList
  BY <1>1, ListKept
<1>2. ASSUME NEW t \in Task, BookTask(t)
      PROVE  taskList' = taskList \/ ListIs(Listed \cup {t})
  BY <1>2, Appended DEF BookTask
<1>3. ASSUME NEW t \in Task, ClearTask(t) \/ DestroyTask(t)
      PROVE  ListIs(Listed \ {t})
  BY <1>3, Cleared DEF ClearTask, DestroyTask
<1>4. CASE DropCleared
  <2>1. iter \in 1..Len(taskList) /\ taskList[iter] = NULL /\ pc = "scan"
        /\ taskList' = RemoveAt(taskList, iter)
    BY <1>4 DEF DropCleared, AtEntry, Types
  <2>2. Listed \ {NULL} = Listed
    BY DEF Listed
  <2> QED  BY <2>1, <2>2, Removed
<1>5. CASE StartDue
  <2>1. iter \in 1..Len(taskList) /\ taskList' = RemoveAt(taskList, iter)
    BY <1>5 DEF StartDue, AtEntry, Types
  <2> QED  BY <1>5, <2>1, Removed
<1>6. CASE Quit
  BY <1>6, Emptied DEF Quit
<1>7. ASSUME NEW t \in Task, StartWaitRefused(t) \/ StartWait(t) \/ TimerIsNow(t)
                             \/ StopTimer(t) \/ IncTimer(t)
      PROVE  taskList' = taskList
  BY <1>7 DEF StartWaitRefused, StartWait, TimerIsNow, StopTimer, IncTimer
<1>8. CASE BeginScan \/ PassEntry \/ EndScan \/ FallAsleep \/ WakeUp \/ Tick
  BY <1>1, <1>8 DEF BeginScan, PassEntry, EndScan, FallAsleep, WakeUp, Tick
<1>9. CASE UNCHANGED vars
  BY <1>1, <1>9
<1> QED  BY <1>1, <1>2, <1>3, <1>4, <1>5, <1>6, <1>7, <1>8, <1>9
         DEF Next, CallStep, PollerStep

\* The progress of one startWait() leaves the others where they are.
LEMMA GotoIs ==
    ASSUME Types, NEW t \in Task, NEW at \in Phase, Goto(t, at)
    PROVE  /\ call' \in [Task -> Call] /\ call'[t].pc = at
           /\ \A u \in Task : u # t => call'[u] = call[u]
<1>1. call[t] \in Call
  BY DEF Types
<1>2. [call[t] EXCEPT !.pc = at] \in Call /\ [call[t] EXCEPT !.pc = at].pc = at
  BY <1>1 DEF Call
<1>3. call' = [call EXCEPT ![t] = [call[t] EXCEPT !.pc = at]]
  BY DEF Goto
<1> HIDE DEF Call
<1> QED  BY <1>2, <1>3 DEF Types

\* startWait() begins.
LEMMA StartIs ==
    ASSUME Types, NEW t \in Task, StartWait(t)
    PROVE  /\ call' \in [Task -> Call] /\ call'[t].pc = "now"
           /\ \A u \in Task : u # t => call'[u] = call[u]
<1>1. PICK w \in WaitTimes : call' = [call EXCEPT ![t] = [pc |-> "now", waittime |-> w]]
  BY DEF StartWait
<1>2. [pc |-> "now", waittime |-> w] \in Call
  BY DEF Call, Phase
<1> QED  BY <1>1, <1>2 DEF Types

LEMMA WaitTimeType ==
    ASSUME Types, NEW t \in Task
    PROVE  call[t].waittime \in Nat
<1>1. call[t] \in Call
  BY DEF Types
<1>2. call[t].waittime \in WaitTimes \cup {0}
  BY <1>1 DEF Call
<1>3. \A w \in WaitTimes \cup {0} : w \in Nat
  BY SchedulerAssumption
<1> QED  BY <1>2, <1>3, Zenon

\* The types, over which the list is.
LEMMA TypesStep ==
    ASSUME Types, ListedOnce, [Next]_vars
    PROVE  Types'
<1> USE DEF Types, vars, timerVars, appVars, pollerVars, Phase
<1>1. taskList' \in Seq(Task \cup {NULL})
  BY ListStep DEF ListIs
<1>2. ASSUME NEW t \in Task, StartWaitRefused(t) \/ StartWait(t) PROVE Types'
  <2>1. call' \in [Task -> Call]
    BY <1>2, StartIs DEF StartWaitRefused
  <2> HIDE DEF Phase
  <2> QED  BY <1>1, <1>2, <2>1 DEF StartWaitRefused, StartWait
<1>3. ASSUME NEW t \in Task, CallStep(t) PROVE Types'
  <2>1. call' \in [Task -> Call]
    BY <1>3, GotoIs DEF CallStep, TimerIsNow, StopTimer, IncTimer, BookTask
  <2>2. CASE TimerIsNow(t)
    BY <1>1, <2>1, <2>2 DEF TimerIsNow
  <2>a. CASE StopTimer(t)
    BY <1>1, <2>1, <2>a DEF StopTimer
  <2>3. CASE IncTimer(t)
    BY <1>1, <2>1, <2>3, WaitTimeType DEF IncTimer
  <2>4. CASE BookTask(t)
    BY <1>1, <2>1, <2>4 DEF BookTask
  <2> QED  BY <1>3, <2>2, <2>a, <2>3, <2>4 DEF CallStep
<1>4. ASSUME NEW t \in Task, ClearTask(t) \/ DestroyTask(t) PROVE Types'
  BY <1>1, <1>4 DEF ClearTask, DestroyTask
<1>5. CASE Quit
  BY <1>1, <1>5 DEF Quit
<1>6. CASE BeginScan \/ DropCleared \/ EndScan
  BY <1>1, <1>6, SchedulerAssumption DEF BeginScan, DropCleared, EndScan
<1>7. CASE StartDue
  BY <1>1, <1>7 DEF StartDue, AtEntry
<1>8. CASE PassEntry
  <2>1. taskList[iter] \in Task
    BY <1>8 DEF PassEntry, AtEntry
  <2>2. Shorter(taskList[iter]) \in Int
    BY <2>1 DEF Shorter
  <2> QED  BY <1>1, <1>8, <2>2 DEF PassEntry
<1>9. CASE FallAsleep
  <2>1. asleep' \in Nat
    BY <1>9, SchedulerAssumption DEF FallAsleep, SleepOf
  <2> QED  BY <1>1, <1>9, <2>1 DEF FallAsleep
<1>10. CASE WakeUp
  BY <1>1, <1>10 DEF WakeUp
<1>11. CASE Tick
  BY <1>1, <1>11 DEF Tick
<1>12. CASE UNCHANGED vars
  BY <1>1, <1>12
<1> QED  BY <1>2, <1>3, <1>4, <1>5, <1>6, <1>7, <1>8, <1>9, <1>10, <1>11, <1>12
         DEF Next, PollerStep

\* A step that starts nothing and begins no booking.
LEMMA CountsKept ==
    ASSUME IInv, UNCHANGED <<call, alive, posted>>, Listed' \subseteq Listed,
           \A t \in Task : bookings'[t] \in Nat /\ bookings'[t] >= bookings[t]
    PROVE  Counts'
<1> USE DEF IInv, Types, Counts
<1>1. BookingIsAlive' /\ ListedAreAlive'
  BY DEF BookingIsAlive, ListedAreAlive, Booking
<1>2. ASSUME NEW t \in Task
      PROVE  posted'[t] + Waits(t)' + Asks(t)' <= bookings'[t]
  <2>1. posted[t] + Waits(t) + Asks(t) <= bookings[t]
    BY DEF StartsAreBooked
  <2>2. Waits(t)' <= Waits(t) /\ Asks(t)' = Asks(t)
    BY DEF Waits, Asks, Booking
  <2>3. /\ posted[t] \in Nat /\ bookings[t] \in Nat
        /\ Waits(t)' \in Nat /\ Waits(t) \in Nat
        /\ Asks(t) \in Nat
    BY DEF Waits, Asks
  <2> QED  BY <2>1, <2>2, <2>3
<1> QED  BY <1>1, <1>2 DEF StartsAreBooked

\* A step that books, lists, starts or ends one task.
LEMMA CountsOfOne ==
    ASSUME IInv, NEW t \in Task,
           \A u \in Task : u # t =>
               /\ call'[u] = call[u] /\ bookings'[u] = bookings[u]
               /\ posted'[u] = posted[u] /\ (u \in Listed' <=> u \in Listed),
           Listed' \subseteq Task, alive \ {t} \subseteq alive',
           Booking(t)' \/ t \in Listed' => t \in alive',
           posted'[t] + Waits(t)' + Asks(t)' <= bookings'[t]
    PROVE  Counts'
<1> USE DEF IInv, Types, Counts
<1>1. BookingIsAlive' /\ ListedAreAlive'
  BY DEF BookingIsAlive, ListedAreAlive, Booking
<1>2. StartsAreBooked'
  <2> SUFFICES ASSUME NEW u \in Task, u # t
               PROVE  posted'[u] + Waits(u)' + Asks(u)' <= bookings'[u]
    BY DEF StartsAreBooked
  <2>1. Waits(u)' = Waits(u) /\ Asks(u)' = Asks(u)
    BY DEF Waits, Asks, Booking
  <2> QED  BY <2>1 DEF StartsAreBooked
<1> QED  BY <1>1, <1>2

\* The booking, the starting and the end of a task.
LEMMA CountsStep ==
    ASSUME IInv, [Next]_vars
    PROVE  Counts'
<1> USE DEF IInv, Types, vars, timerVars, appVars, pollerVars, Phase
<1>0. Listed \subseteq Task
  <2>1. ToSet(taskList) = {taskList[k] : k \in 1..Len(taskList)}
    BY ListElements
  <2> QED  BY <2>1 DEF Listed
<1>1. CASE ListIs(Listed) /\ UNCHANGED <<call, bookings, alive, posted>>
  BY <1>1, CountsKept DEF ListIs
<1>2. ASSUME NEW t \in Task
      PROVE  /\ posted[t] + Waits(t) + Asks(t) <= bookings[t]
             /\ posted[t] \in Nat /\ bookings[t] \in Nat
             /\ Booking(t) \/ t \in Listed => t \in alive
  BY DEF Counts, StartsAreBooked, BookingIsAlive, ListedAreAlive
<1>3. ASSUME NEW t \in Task, StartWaitRefused(t) PROVE Counts'
  <2>1. Listed' = Listed
    BY <1>3, ListKept DEF StartWaitRefused, ListIs
  <2> QED  BY <1>3, <2>1, CountsKept DEF StartWaitRefused
<1>4. ASSUME NEW t \in Task, StartWait(t) PROVE Counts'
  <2>1. Listed' = Listed
    BY <1>4, ListKept DEF StartWait, ListIs
  <2>2. ~Booking(t) /\ Booking(t)' /\ t \in alive /\ UNCHANGED <<alive, posted>>
        /\ bookings' = [bookings EXCEPT ![t] = @ + 1]
    BY <1>4, StartIs DEF StartWait, Booking
  <2>3. posted'[t] + Waits(t)' + Asks(t)' <= bookings'[t]
    BY <1>2, <2>1, <2>2 DEF Waits, Asks
  <2> QED  BY <1>0, <1>4, <2>1, <2>2, <2>3, StartIs, CountsOfOne
<1>5. ASSUME NEW t \in Task, TimerIsNow(t) \/ StopTimer(t) \/ IncTimer(t) PROVE Counts'
  <2>1. Listed' = Listed
    BY <1>5, ListKept DEF TimerIsNow, StopTimer, IncTimer, ListIs
  <2>2. /\ Booking(t) /\ Booking(t)'
        /\ \A u \in Task : u # t => call'[u] = call[u]
        /\ UNCHANGED <<bookings, alive, posted>>
    BY <1>5, GotoIs DEF TimerIsNow, StopTimer, IncTimer, Booking
  <2>3. posted'[t] + Waits(t)' + Asks(t)' <= bookings'[t]
    BY <1>2, <2>1, <2>2 DEF Waits, Asks
  <2> QED  BY <1>0, <1>2, <2>1, <2>2, <2>3, CountsOfOne
<1>6. ASSUME NEW t \in Task, BookTask(t) PROVE Counts'
  <2>1. Listed' = Listed \cup {t}
    BY <1>6, Appended, ListKept DEF BookTask, ListIs
  <2>2. /\ Booking(t) /\ ~Booking(t)'
        /\ \A u \in Task : u # t => call'[u] = call[u]
        /\ UNCHANGED <<bookings, alive, posted>>
    BY <1>6, GotoIs DEF BookTask, Booking
  <2>3. posted'[t] + Waits(t)' + Asks(t)' <= bookings'[t]
    <3>1. Waits(t)' = 1 /\ Asks(t)' = 0 /\ Asks(t) = 1 /\ Waits(t) \in {0, 1}
      BY <2>1, <2>2 DEF Waits, Asks
    <3> QED  BY <1>2, <2>2, <3>1
  <2> QED  BY <1>0, <1>2, <2>1, <2>2, <2>3, CountsOfOne
<1>7. ASSUME NEW t \in Task, ClearTask(t) PROVE Counts'
  <2>1. Listed' = Listed \ {t}
    BY <1>7, Cleared DEF ClearTask, ListIs
  <2> QED  BY <1>7, <2>1, CountsKept DEF ClearTask
<1>8. ASSUME NEW t \in Task, DestroyTask(t) PROVE Counts'
  <2>1. Listed' = Listed \ {t}
    BY <1>8, Cleared DEF DestroyTask, ListIs
  <2>2. /\ ~Booking(t) /\ ~Booking(t)' /\ alive' = alive \ {t}
        /\ UNCHANGED <<call, bookings, posted>>
    BY <1>8 DEF DestroyTask, Booking
  <2>3. posted'[t] + Waits(t)' + Asks(t)' <= bookings'[t]
    <3>1. Waits(t)' = 0 /\ Asks(t)' = 0 /\ Asks(t) = 0 /\ Waits(t) \in {0, 1}
      BY <2>1, <2>2 DEF Waits, Asks
    <3> QED  BY <1>2, <2>2, <3>1
  <2> QED  BY <1>0, <2>1, <2>2, <2>3, CountsOfOne
<1>9. CASE Quit
  <2>1. Listed' = {}
    BY <1>9, Emptied DEF Quit, ListIs
  <2> QED  BY <1>9, <2>1, CountsKept DEF Quit
<1>10. CASE StartDue
  <2>0. PICK t \in Task : t = taskList[iter]
    BY <1>10 DEF StartDue, AtEntry
  <2>1. /\ iter \in 1..Len(taskList) /\ t = taskList[iter]
        /\ taskList' = RemoveAt(taskList, iter)
        /\ posted' = [posted EXCEPT ![t] = @ + 1]
        /\ UNCHANGED <<call, bookings, alive>>
    BY <1>10, <2>0 DEF StartDue, AtEntry
  <2>2. t \in Listed
    <3>1. ToSet(taskList) = {taskList[k] : k \in 1..Len(taskList)}
      BY ListElements
    <3> QED  BY <2>1, <3>1, SchedulerAssumption DEF Listed
  <2>3. Listed' = Listed \ {t}
    BY <2>1, Removed DEF ListIs
  <2>4. /\ Waits(t)' = 0 /\ Asks(t)' = Asks(t) /\ Waits(t) = 1 /\ Asks(t) \in {0, 1}
        /\ Booking(t)' => Booking(t)
    BY <2>1, <2>2, <2>3 DEF Booking, Waits, Asks
  <2>5. posted'[t] + Waits(t)' + Asks(t)' <= bookings'[t]
    BY <1>2, <2>1, <2>4
  <2> QED  BY <1>0, <1>2, <2>1, <2>3, <2>4, <2>5, CountsOfOne
<1>11. CASE DropCleared
  <2>1. UNCHANGED <<call, bookings, alive, posted>>
    BY <1>11 DEF DropCleared
  <2>2. iter \in 1..Len(taskList) /\ taskList' = RemoveAt(taskList, iter)
    BY <1>11 DEF DropCleared, AtEntry
  <2>3. Listed' \subseteq Listed
    BY <2>2, Removed DEF ListIs
  <2> QED  BY <2>1, <2>3, CountsKept
<1>12. CASE BeginScan \/ PassEntry \/ EndScan \/ FallAsleep \/ WakeUp \/ Tick
  BY <1>1, <1>12, ListKept DEF BeginScan, PassEntry, EndScan, FallAsleep, WakeUp, Tick
<1>13. CASE UNCHANGED vars
  BY <1>1, <1>13, ListKept
<1> QED  BY <1>3, <1>4, <1>5, <1>6, <1>7, <1>8, <1>9, <1>10, <1>11, <1>12, <1>13
         DEF Next, CallStep, PollerStep

\* The invariant of the booking, from the start and over every step.
THEOREM SpecIInv == Spec => []IInv
<1>1. Init => IInv
  <2> SUFFICES ASSUME Init PROVE IInv
    OBVIOUS
  <2>1. Types
    <3>1. [pc |-> "idle", waittime |-> 0] \in Call
      BY DEF Call, Phase
    <3> QED  BY <3>1 DEF Init, Types
  <2>2. Listed = {} /\ ListedOnce
    BY DEF Init, Listed, ToSet, ListedOnce
  <2>3. Counts
    BY <2>2 DEF Init, Counts, BookingIsAlive, Booking, ListedAreAlive, StartsAreBooked, Waits, Asks
  <2> QED  BY <2>1, <2>2, <2>3 DEF IInv
<1>2. IInv /\ [Next]_vars => IInv'
  <2>1. IInv /\ [Next]_vars => ListedOnce'
    BY ListStep DEF IInv, ListIs
  <2> QED  BY <2>1, TypesStep, CountsStep DEF IInv
<1> QED  BY <1>1, <1>2, PTL DEF Spec

\* The poller never sleeps longer than its period. What it reads of the timers
\* may be the -1 of a stopped one, but nothing below that.
Bounds ==
    /\ pc \in {"loop", "scan", "sleep", "asleep", "done"} /\ bQuit \in BOOLEAN
    /\ sleepTime \in -1..MAX_SCHD_POLLTIME /\ asleep \in 0..MAX_SCHD_POLLTIME

LEMMA BoundsStep ==
    ASSUME Types, Bounds, [Next]_vars
    PROVE  Bounds'
<1> USE SchedulerAssumption DEF Bounds, vars, timerVars, appVars, pollerVars
<1>1. ASSUME NEW t \in Task,
             \/ StartWaitRefused(t) \/ StartWait(t) \/ CallStep(t) \/ ClearTask(t) \/ DestroyTask(t)
      PROVE  Bounds'
  BY <1>1 DEF StartWaitRefused, StartWait, CallStep, TimerIsNow, StopTimer, IncTimer, BookTask,
              ClearTask, DestroyTask
<1>2. CASE Quit
  BY <1>2 DEF Quit
<1>3. CASE BeginScan \/ DropCleared \/ StartDue \/ EndScan
  BY <1>3 DEF BeginScan, DropCleared, StartDue, EndScan, Unless
<1>4. CASE PassEntry
  <2>1. taskList[iter] \in Task
    BY <1>4 DEF PassEntry, AtEntry, Types
  <2>2. left[taskList[iter]] \in Nat
    BY <2>1 DEF Types
  <2>3. Shorter(taskList[iter]) \in -1..MAX_SCHD_POLLTIME
    BY <2>2 DEF Shorter
  <2> QED  BY <1>4, <2>3 DEF PassEntry
<1>5. CASE FallAsleep
  BY <1>5 DEF FallAsleep, SleepOf
<1>6. CASE WakeUp
  BY <1>6 DEF WakeUp, Unless
<1>7. CASE Tick
  BY <1>7 DEF Tick
<1>8. CASE UNCHANGED vars
  BY <1>8
<1> QED  BY <1>1, <1>2, <1>3, <1>4, <1>5, <1>6, <1>7, <1>8 DEF Next, PollerStep

\* Every variable keeps its type and the list no task twice, for any number of
\* bookings: what the poller is about to sleep is -1, of a timer that was stopped,
\* or within its period, and what it does sleep is within its period.
THEOREM TypeCorrect == Spec => []TypeOK
<1>1. Init => Bounds
  <2> SUFFICES ASSUME Init PROVE Bounds
    OBVIOUS
  <2>1. 0 \in -1..MAX_SCHD_POLLTIME /\ 0 \in 0..MAX_SCHD_POLLTIME
    BY SchedulerAssumption
  <2> QED  BY <2>1 DEF Init, Bounds
<1>2. IInv /\ Bounds /\ [Next]_vars => Bounds'
  BY BoundsStep DEF IInv
<1>3. IInv /\ Bounds => TypeOK
  <2> SUFFICES ASSUME IInv, Bounds PROVE TypeOK
    OBVIOUS
  <2>1. DOMAIN taskList = 1..Len(taskList)
    BY DEF IInv, Types
  <2> QED  BY <2>1 DEF IInv, Types, Bounds, ListedOnce, Call, Phase, TypeOK
<1> QED  BY <1>1, <1>2, <1>3, SpecIInv, PTL DEF Spec

\* The pointers the poller follows are good: ~ScheduleTask() resets the entry of
\* its task, and no startWait() books a task that is gone.
THEOREM PointersAreGood == Spec => []ListedAreAlive
BY SpecIInv, PTL DEF IInv, Counts

\* However often and from however many threads a task is booked, moved, cleared
\* and found due, it is started at most once per booking.
THEOREM StartedOncePerBooking == Spec => []OneStartPerBooking
<1>1. IInv => OneStartPerBooking
  <2> SUFFICES ASSUME IInv, NEW t \in Task
               PROVE  posted[t] + (IF t \in Listed THEN 1 ELSE 0)
                      + (IF call[t].pc \in {"now", "stop", "inc", "book"} /\ t \notin Listed
                         THEN 1 ELSE 0) <= bookings[t]
    BY DEF OneStartPerBooking
  <2>1. /\ posted[t] + Waits(t) + Asks(t) <= bookings[t]
        /\ posted[t] \in Nat /\ bookings[t] \in Nat /\ Asks(t) \in {0, 1}
    BY DEF IInv, Types, Counts, StartsAreBooked, Asks
  <2>2. call[t].pc \in {"now", "stop", "inc", "book"} => Asks(t) = 1
    BY DEF Asks, Booking
  <2>3. CASE t \in Listed
    BY <2>1, <2>3 DEF Waits
  <2>4. CASE t \notin Listed
    BY <2>1, <2>2, <2>4 DEF Waits
  <2> QED  BY <2>3, <2>4
<1> QED  BY <1>1, SpecIInv, PTL

-----------------------------------------------------------------------------
(* How long the poller sleeps. *)

\* The timer of a task runs and nobody is writing it.
Running(t) == call[t].pc = "idle" /\ active[t]

\* What the poller knows: no running timer ends before it wakes up, but for the
\* time since it looked, of the entries it has passed while it scans, and of all of
\* them later, unless it has been posted since.
Scanned ==
    pc = "scan" =>
        \A k \in 1..Len(taskList) :
            k < iter /\ taskList[k] # NULL /\ Running(taskList[k]) =>
                sleepTime <= left[taskList[k]] + lag

Decided ==
    pc = "sleep" /\ wakeup = 0 =>
        \A t \in Listed : Running(t) => sleepTime <= left[t] + lag

Sleeping ==
    pc = "asleep" /\ wakeup = 0 /\ ~(\E t \in Task : Moved(t)) =>
        \A t \in Listed : Running(t) => asleep <= left[t] + lag

Covered == lag <= MaxLag => Scanned /\ Decided /\ Sleeping

\* Only startWait() stops the timer of a listed task, and it runs again before
\* the poller is posted.
TimersRun ==
    \A t \in Task : /\ call[t].pc = "book" => active[t]
                    /\ t \in Listed /\ ~active[t] => call[t].pc = "inc"

\* So who reads the -1 of a stopped timer is going to be posted, or has been.
ReadOfMoved ==
    pc = "scan" /\ sleepTime < 0 =>
        \E k \in 1..Len(taskList) : k < iter /\ taskList[k] # NULL /\ Moved(taskList[k])

MoverWakes ==
    pc = "sleep" /\ wakeup = 0 /\ sleepTime < 0 => \E t \in Task : Moved(t)

\* What is known of the timers that stand still.
Stopped == TimersRun /\ ReadOfMoved /\ MoverWakes

\* Entries are tasks, but for those that were cleared.
LEMMA EntryIsListed ==
    ASSUME Types
    PROVE  /\ Listed \subseteq Task
           /\ \A k \in 1..Len(taskList) : taskList[k] # NULL =>
                taskList[k] \in Task /\ taskList[k] \in Listed
           /\ \A t \in Listed : \E k \in 1..Len(taskList) : taskList[k] = t /\ t # NULL
<1>1. ToSet(taskList) = {taskList[k] : k \in 1..Len(taskList)}
  BY ListElements DEF Types
<1> QED  BY <1>1 DEF Types, Listed

\* The steps of the application leave the poller where it is; whatever they do
\* to a timer, its task is then being booked, and the booking ends with a post().
LEMMA AppKeepsCovered ==
    ASSUME Types, Covered,
           UNCHANGED <<pc, iter, sleepTime, asleep, lag>>,
           \/ UNCHANGED <<taskList, wakeup>>
           \/ pc # "scan" /\ wakeup' = wakeup /\ Listed' \subseteq Listed
           \/ pc # "scan" /\ wakeup' # 0,
           pc = "asleep" => \A t \in Task : Moved(t) => Moved(t)' \/ wakeup' # 0,
           \A t \in Task : Running(t)' => Running(t) /\ left'[t] = left[t]
    PROVE  Covered'
<1> SUFFICES ASSUME lag <= MaxLag PROVE Scanned' /\ Decided' /\ Sleeping'
  BY DEF Covered
<1>1. Scanned'
  <2> SUFFICES ASSUME pc = "scan", NEW k \in 1..Len(taskList'), k < iter,
                      taskList'[k] # NULL, Running(taskList[k])'
               PROVE  sleepTime <= left'[taskList'[k]] + lag
    BY DEF Scanned
  <2>1. taskList' = taskList
    OBVIOUS
  <2>2. PICK t \in Task : t = taskList[k]
    BY <2>1, EntryIsListed
  <2>3. Running(t)'
    BY <2>1, <2>2 DEF Running
  <2>4. Running(t) /\ left'[t] = left[t]
    BY <2>3
  <2> QED  BY <2>1, <2>2, <2>4 DEF Covered, Scanned
<1>2. ASSUME pc # "scan", wakeup' = 0, NEW t \in Listed', Running(t)'
      PROVE  wakeup = 0 /\ t \in Listed /\ Running(t) /\ left'[t] = left[t]
  <2>1. wakeup = 0 /\ t \in Listed
    BY <1>2 DEF Listed
  <2>2. t \in Task
    BY <2>1, EntryIsListed
  <2> QED  BY <1>2, <2>1, <2>2
<1>3. Decided'
  BY <1>2 DEF Covered, Decided
<1>4. Sleeping'
  <2> SUFFICES ASSUME pc = "asleep", wakeup' = 0, ~(\E t \in Task : Moved(t))',
                      NEW t \in Listed', Running(t)'
               PROVE  asleep <= left'[t] + lag
    BY DEF Sleeping
  <2>1. wakeup = 0 /\ t \in Listed /\ Running(t) /\ left'[t] = left[t]
    BY <1>2
  <2>2. ~(\E u \in Task : Moved(u))
    OBVIOUS
  <2> QED  BY <2>1, <2>2 DEF Covered, Sleeping
<1> QED  BY <1>1, <1>3, <1>4

\* The scan, entry by entry, and the sleep it is for.
LEMMA PollerKeepsCovered ==
    ASSUME Types, ListedOnce, Covered, Stopped, PollerStep
    PROVE  Covered'
<1> USE DEF vars, timerVars, appVars, pollerVars
<1>1. ASSUME lag' <= MaxLag => Scanned' /\ Decided' /\ Sleeping' PROVE Covered'
  BY <1>1 DEF Covered
<1>2. CASE BeginScan
  <2>1. pc' \in {"scan", "done"} /\ iter' = 1
    BY <1>2 DEF BeginScan, Unless
  <2> QED  BY <1>1, <2>1 DEF Scanned, Decided, Sleeping
<1>3. CASE DropCleared
  <2>1. /\ pc = "scan" /\ pc' = "scan" /\ iter \in 1..Len(taskList)
        /\ UNCHANGED <<call, active, left, lag, iter, sleepTime>>
        /\ taskList' = RemoveAt(taskList, iter)
    BY <1>3 DEF DropCleared, AtEntry, Types
  <2>2. /\ Len(taskList') = Len(taskList) - 1
        /\ \A k \in 1..Len(taskList') : k < iter => taskList'[k] = taskList[k]
    BY <2>1, RemoveAtElements DEF Types
  <2>3. lag <= MaxLag => Scanned'
    BY <2>1, <2>2 DEF Covered, Scanned, Running, Types
  <2> QED  BY <1>1, <2>1, <2>3 DEF Decided, Sleeping
<1>4. CASE StartDue
  <2>1. /\ pc = "scan" /\ pc' = "scan" /\ iter \in 1..Len(taskList)
        /\ UNCHANGED <<call, active, left, lag, iter, sleepTime>>
        /\ taskList' = RemoveAt(taskList, iter)
    BY <1>4 DEF StartDue, AtEntry, Types
  <2>2. /\ Len(taskList') = Len(taskList) - 1
        /\ \A k \in 1..Len(taskList') : k < iter => taskList'[k] = taskList[k]
    BY <2>1, RemoveAtElements DEF Types
  <2>3. lag <= MaxLag => Scanned'
    BY <2>1, <2>2 DEF Covered, Scanned, Running, Types
  <2> QED  BY <1>1, <2>1, <2>3 DEF Decided, Sleeping
<1>5. CASE PassEntry
  <2>0. PICK t \in Task : t = taskList[iter]
    BY <1>5 DEF PassEntry, AtEntry, Types
  <2>1. /\ pc = "scan" /\ pc' = "scan" /\ iter' = iter + 1
        /\ UNCHANGED <<call, active, left, lag, taskList>>
        /\ sleepTime' = Shorter(t)
    BY <1>5, <2>0 DEF PassEntry, AtEntry
  <2>2. /\ sleepTime' <= sleepTime /\ sleepTime' \in Int
        /\ active[t] => sleepTime' <= left[t]
    BY <2>1 DEF Shorter, Types
  <2>3. ASSUME lag <= MaxLag, NEW k \in 1..Len(taskList), k < iter + 1,
               taskList[k] # NULL, Running(taskList[k])
        PROVE  sleepTime' <= left[taskList[k]] + lag
    <3>1. taskList[k] \in Task /\ left[taskList[k]] \in Nat
      BY <2>3, EntryIsListed DEF Types
    <3>2. CASE k < iter
      <4>1. sleepTime <= left[taskList[k]] + lag
        BY <2>1, <2>3, <3>2 DEF Covered, Scanned
      <4> QED  BY <2>2, <3>1, <4>1 DEF Types
    <3>3. CASE k = iter
      BY <2>0, <2>2, <2>3, <3>1, <3>3 DEF Running, Types
    <3> QED  BY <2>3, <3>2, <3>3 DEF Types
  <2>4. lag <= MaxLag => Scanned'
    BY <2>1, <2>3 DEF Scanned, Running
  <2> QED  BY <1>1, <2>1, <2>4 DEF Decided, Sleeping
<1>6. CASE EndScan
  <2>1. /\ pc = "scan" /\ pc' \in {"sleep", "done"}
        /\ pc' = "sleep" => iter > Len(taskList)
        /\ UNCHANGED <<call, active, left, lag, taskList, sleepTime>>
    BY <1>6 DEF EndScan, Unless
  <2>2. lag <= MaxLag => Decided'
    <3> SUFFICES ASSUME lag <= MaxLag, pc' = "sleep", NEW t \in Listed, Running(t)
                 PROVE  sleepTime <= left[t] + lag
      BY <2>1 DEF Decided, Listed, Running
    <3>1. PICK k \in 1..Len(taskList) : taskList[k] = t /\ t # NULL
      BY EntryIsListed
    <3>2. k < iter
      BY <2>1 DEF Types
    <3> QED  BY <2>1, <3>1, <3>2 DEF Covered, Scanned
  <2> QED  BY <1>1, <2>1, <2>2 DEF Scanned, Sleeping
<1>7. CASE FallAsleep
  <2>1. /\ pc = "sleep" /\ pc' = "asleep"
        /\ UNCHANGED <<call, active, left, lag, taskList, wakeup>>
    BY <1>7 DEF FallAsleep
  <2>2. sleepTime >= 0 => asleep' \in Int /\ asleep' <= sleepTime
    BY <1>7, SchedulerAssumption DEF FallAsleep, SleepOf, Types
  <2>4. wakeup = 0 /\ ~(\E t \in Task : Moved(t)) => sleepTime >= 0
    BY <2>1 DEF Stopped, MoverWakes, Types
  <2>3. lag <= MaxLag => Sleeping'
    <3> SUFFICES ASSUME lag <= MaxLag, wakeup = 0, ~(\E t \in Task : Moved(t)),
                        NEW t \in Listed, Running(t)
                 PROVE  asleep' <= left[t] + lag
      BY <2>1 DEF Sleeping, Listed, Running, Moved
    <3>1. left[t] \in Nat /\ sleepTime <= left[t] + lag
      BY <2>1, EntryIsListed DEF Covered, Decided, Types
    <3> QED  BY <2>2, <2>4, <3>1 DEF Types
  <2> QED  BY <1>1, <2>1, <2>3 DEF Scanned, Decided
<1>8. CASE WakeUp
  <2>1. pc' \in {"loop", "done"}
    BY <1>8 DEF WakeUp, Unless
  <2> QED  BY <1>1, <2>1 DEF Scanned, Decided, Sleeping
<1> QED  BY <1>2, <1>3, <1>4, <1>5, <1>6, <1>7, <1>8 DEF PollerStep

\* A tick shortens timers and sleep alike, or is counted.
LEMMA TickKeepsCovered ==
    ASSUME Types, Covered, Tick
    PROVE  Covered'
<1> USE DEF appVars
<1> SUFFICES ASSUME lag' <= MaxLag PROVE Scanned' /\ Decided' /\ Sleeping'
  BY DEF Covered
<1>1. /\ UNCHANGED <<call, active, taskList, pc, iter, sleepTime, wakeup>>
      /\ \A t \in Task : left'[t] = IF left[t] > 0 THEN left[t] - 1 ELSE 0
      /\ lag <= MaxLag
      /\ pc \in {"scan", "sleep"} => lag' = lag + 1
      /\ pc = "asleep" => lag' = lag /\ asleep' = IF asleep > 0 THEN asleep - 1 ELSE 0
  BY SchedulerAssumption DEF Tick, Types
<1>2. ASSUME NEW t \in Task, pc \in {"scan", "sleep"}, sleepTime <= left[t] + lag
      PROVE  sleepTime <= left'[t] + lag'
  BY <1>1, <1>2 DEF Types
<1>3. ASSUME NEW t \in Task, pc = "asleep", asleep <= left[t] + lag
      PROVE  asleep' <= left'[t] + lag'
  BY <1>1, <1>3 DEF Types
<1>4. Scanned'
  BY <1>1, <1>2, EntryIsListed DEF Covered, Scanned, Running
<1>5. Decided'
  BY <1>1, <1>2, EntryIsListed DEF Covered, Decided, Running, Listed
<1>6. Sleeping'
  BY <1>1, <1>3, EntryIsListed DEF Covered, Sleeping, Running, Listed, Moved
<1> QED  BY <1>4, <1>5, <1>6

\* A move goes on, or ends with a post, while the poller stands where it is.
LEMMA MovedStep ==
    ASSUME IInv, [Next]_vars, pc \in {"sleep", "asleep"}, pc' = pc, NEW t \in Task, Moved(t)
    PROVE  Moved(t)' \/ wakeup' # 0
<1> USE DEF IInv, vars, timerVars, appVars, pollerVars, Phase
<1>1. call[t].pc \in {"inc", "book"} /\ t \in Listed /\ wakeup \in Nat
  BY DEF Moved, Types
<1>2. ASSUME NEW u \in Task, CallStep(u) PROVE Moved(t)' \/ wakeup' # 0
  <2>1. CASE BookTask(u)
    BY <1>1, <2>1 DEF BookTask
  <2>2. CASE TimerIsNow(u) \/ StopTimer(u) \/ IncTimer(u)
    <3>1. call'[t].pc \in {"inc", "book"}
      BY <1>1, <2>2, GotoIs DEF TimerIsNow, StopTimer, IncTimer
    <3>2. Listed' = Listed
      BY <2>2, ListKept DEF TimerIsNow, StopTimer, IncTimer, ListIs
    <3> QED  BY <1>1, <3>1, <3>2 DEF Moved
  <2> QED  BY <1>2, <2>1, <2>2 DEF CallStep
<1>3. ASSUME NEW u \in Task, StartWaitRefused(u) \/ StartWait(u) PROVE Moved(t)'
  <2>1. call'[t] = call[t]
    BY <1>1, <1>3, StartIs DEF StartWaitRefused, StartWait
  <2>2. Listed' = Listed
    BY <1>3, ListKept DEF StartWaitRefused, StartWait, ListIs
  <2> QED  BY <1>1, <2>1, <2>2 DEF Moved
<1>4. ASSUME NEW u \in Task, ClearTask(u) \/ DestroyTask(u) PROVE Moved(t)'
  <2>1. u # t /\ UNCHANGED call
    BY <1>1, <1>4 DEF ClearTask, DestroyTask
  <2>2. Listed' = Listed \ {u}
    BY <1>4, Cleared DEF ClearTask, DestroyTask, ListIs
  <2> QED  BY <1>1, <2>1, <2>2 DEF Moved
<1>5. CASE Quit
  BY <1>1, <1>5 DEF Quit
<1>6. CASE Tick \/ UNCHANGED vars
  <2>1. UNCHANGED <<call, taskList>>
    BY <1>6 DEF Tick
  <2> QED  BY <2>1 DEF Moved, Listed
<1>7. ~PollerStep
  BY DEF PollerStep, BeginScan, DropCleared, StartDue, PassEntry, EndScan, FallAsleep,
         WakeUp, AtEntry, Unless
<1> QED  BY <1>2, <1>3, <1>4, <1>5, <1>6, <1>7 DEF Next

\* A timer stops and runs again in the course of startWait() only.
LEMMA TimersStep ==
    ASSUME IInv, TimersRun, [Next]_vars
    PROVE  TimersRun'
<1> USE DEF IInv, vars, timerVars, appVars, pollerVars, Phase
<1> SUFFICES ASSUME NEW t \in Task
             PROVE  /\ call'[t].pc = "book" => active'[t]
                    /\ t \in Listed' /\ ~active'[t] => call'[t].pc = "inc"
  BY DEF TimersRun
<1>1. /\ call[t].pc = "book" => active[t]
      /\ t \in Listed /\ ~active[t] => call[t].pc = "inc"
  BY DEF TimersRun
<1>2. ASSUME UNCHANGED <<call, active>>, Listed' \subseteq Listed
      PROVE  /\ call'[t].pc = "book" => active'[t]
             /\ t \in Listed' /\ ~active'[t] => call'[t].pc = "inc"
  BY <1>1, <1>2
<1>3. ASSUME NEW u \in Task, StartWaitRefused(u) \/ StartWait(u)
      PROVE  /\ call'[t].pc = "book" => active'[t]
             /\ t \in Listed' /\ ~active'[t] => call'[t].pc = "inc"
  <2>1. Listed' = Listed /\ active' = active
    BY <1>3, ListKept DEF StartWaitRefused, StartWait, ListIs
  <2>2. call'[t] = call[t] \/ (call[t].pc = "idle" /\ call'[t].pc = "now")
    BY <1>3, StartIs DEF StartWaitRefused, StartWait
  <2> QED  BY <1>1, <2>1, <2>2
<1>4. ASSUME NEW u \in Task, TimerIsNow(u) \/ StopTimer(u) \/ IncTimer(u)
      PROVE  /\ call'[t].pc = "book" => active'[t]
             /\ t \in Listed' /\ ~active'[t] => call'[t].pc = "inc"
  <2>1. Listed' = Listed
    BY <1>4, ListKept DEF TimerIsNow, StopTimer, IncTimer, ListIs
  <2>2. t # u => call'[t] = call[t] /\ active'[t] = active[t]
    BY <1>4, GotoIs DEF TimerIsNow, StopTimer, IncTimer, Types
  <2>3. CASE TimerIsNow(u)
    BY <1>1, <2>1, <2>2, <2>3, GotoIs DEF TimerIsNow
  <2>4. CASE StopTimer(u)
    BY <1>1, <2>1, <2>2, <2>4, GotoIs DEF StopTimer
  <2>5. CASE IncTimer(u)
    BY <1>1, <2>1, <2>2, <2>5, GotoIs DEF IncTimer, Types
  <2> QED  BY <1>4, <2>3, <2>4, <2>5
<1>5. ASSUME NEW u \in Task, BookTask(u)
      PROVE  /\ call'[t].pc = "book" => active'[t]
             /\ t \in Listed' /\ ~active'[t] => call'[t].pc = "inc"
  <2>1. call[u].pc = "book" /\ active' = active /\ active[u]
    BY <1>5 DEF BookTask, TimersRun
  <2>2. Listed' \subseteq Listed \cup {u}
    BY <1>5, Appended, ListKept DEF BookTask, ListIs
  <2>3. t # u => call'[t] = call[t]
    BY <1>5, GotoIs DEF BookTask
  <2>4. t = u => call'[t].pc = "idle"
    BY <1>5, GotoIs DEF BookTask
  <2> QED  BY <1>1, <2>1, <2>2, <2>3, <2>4
<1>6. ASSUME NEW u \in Task, ClearTask(u) \/ DestroyTask(u)
      PROVE  /\ call'[t].pc = "book" => active'[t]
             /\ t \in Listed' /\ ~active'[t] => call'[t].pc = "inc"
  <2>1. Listed' = Listed \ {u} /\ call' = call /\ call[u].pc = "idle"
    BY <1>6, Cleared DEF ClearTask, DestroyTask, ListIs
  <2>2. t # u => active'[t] = active[t]
    BY <1>6 DEF ClearTask, DestroyTask, Types
  <2> QED  BY <1>1, <2>1, <2>2
<1>7. CASE Quit
  <2>1. Listed' = {} /\ call' = call /\ active' = active
    BY <1>7, Emptied DEF Quit, ListIs
  <2> QED  BY <1>1, <2>1
<1>8. CASE PollerStep
  <2>1. UNCHANGED <<call, active>>
    BY <1>8 DEF PollerStep, BeginScan, DropCleared, StartDue, PassEntry, EndScan,
                FallAsleep, WakeUp
  <2>2. Listed' \subseteq Listed
    <3>1. CASE StartDue
      <4>1. iter \in 1..Len(taskList) /\ taskList' = RemoveAt(taskList, iter)
        BY <3>1 DEF StartDue, AtEntry, Types
      <4> QED  BY <4>1, Removed DEF ListIs
    <3>2. CASE DropCleared
      <4>1. iter \in 1..Len(taskList) /\ taskList' = RemoveAt(taskList, iter)
        BY <3>2 DEF DropCleared, AtEntry, Types
      <4> QED  BY <4>1, Removed DEF ListIs
    <3>3. CASE ~StartDue /\ ~DropCleared
      <4>1. taskList' = taskList
        BY <1>8, <3>3 DEF PollerStep, BeginScan, PassEntry, EndScan, FallAsleep, WakeUp
      <4> QED  BY <4>1 DEF Listed
    <3> QED  BY <3>1, <3>2, <3>3
  <2> QED  BY <1>2, <2>1, <2>2
<1>9. CASE Tick \/ UNCHANGED vars
  <2>1. UNCHANGED <<call, active, taskList>>
    BY <1>9 DEF Tick
  <2> QED  BY <1>2, <2>1 DEF Listed
<1> QED  BY <1>3, <1>4, <1>5, <1>6, <1>7, <1>8, <1>9 DEF Next, CallStep

\* While the poller scans, the entries it has passed stay where they are and
\* what moves them goes on: bookTask() waits for the mutex.
LEMMA PassedStep ==
    ASSUME IInv, [Next]_vars, pc = "scan", pc' = "scan",
           NEW k \in 1..Len(taskList), k < iter, taskList[k] # NULL, Moved(taskList[k])
    PROVE  k \in 1..Len(taskList') /\ k < iter' /\ taskList'[k] = taskList[k]
           /\ Moved(taskList[k])'
<1> USE DEF IInv, vars, timerVars, appVars, pollerVars, Phase
<1>0. PICK t \in Task : t = taskList[k] /\ t # NULL
  BY EntryIsListed
<1>1. call[t].pc \in {"inc", "book"} /\ iter \in Nat /\ Len(taskList) \in Nat
  BY <1>0 DEF Moved, Types
<1>2. k \in 1..Len(taskList') /\ k < iter' /\ taskList'[k] = taskList[k] /\ Len(taskList') \in Nat
  <2>1. CASE DropCleared \/ StartDue
    <3>1. iter \in 1..Len(taskList) /\ taskList' = RemoveAt(taskList, iter) /\ iter' = iter
      BY <2>1 DEF DropCleared, StartDue, AtEntry, Types
    <3>2. /\ Len(taskList') = Len(taskList) - 1
          /\ \A j \in 1..(Len(taskList) - 1) : j < iter => taskList'[j] = taskList[j]
      BY <3>1, RemoveAtElements DEF Types
    <3> QED  BY <1>1, <3>1, <3>2
  <2>2. CASE PassEntry
    BY <1>1, <2>2 DEF PassEntry
  <2>3. CASE \E u \in Task : StartWaitRefused(u) \/ StartWait(u) \/ TimerIsNow(u)
                             \/ StopTimer(u) \/ IncTimer(u)
    BY <1>1, <2>3 DEF StartWaitRefused, StartWait, TimerIsNow, StopTimer, IncTimer
  <2>4. CASE Tick \/ UNCHANGED vars
    BY <1>1, <2>4 DEF Tick
  <2>5. /\ ~Quit /\ ~BeginScan /\ ~EndScan /\ ~FallAsleep /\ ~WakeUp
        /\ \A u \in Task : ~BookTask(u) /\ ~ClearTask(u) /\ ~DestroyTask(u)
    BY DEF Quit, BeginScan, EndScan, FallAsleep, WakeUp, BookTask, ClearTask, DestroyTask,
           TaskMutexFree, Unless
  <2> QED  BY <2>1, <2>2, <2>3, <2>4, <2>5 DEF Next, PollerStep, CallStep
<1>3. call'[t].pc \in {"inc", "book"}
  <2>1. ASSUME NEW u \in Task, StartWaitRefused(u) \/ StartWait(u)
        PROVE  call'[t].pc \in {"inc", "book"}
    BY <1>1, <2>1, StartIs DEF StartWaitRefused, StartWait
  <2>2. ASSUME NEW u \in Task, TimerIsNow(u) \/ StopTimer(u) \/ IncTimer(u)
        PROVE  call'[t].pc \in {"inc", "book"}
    BY <1>1, <2>2, GotoIs DEF TimerIsNow, StopTimer, IncTimer
  <2>3. CASE PollerStep \/ Tick \/ UNCHANGED vars
    BY <1>1, <2>3 DEF PollerStep, BeginScan, DropCleared, StartDue, PassEntry, EndScan,
                      FallAsleep, WakeUp, Tick
  <2>4. ~Quit /\ \A u \in Task : ~BookTask(u) /\ ~ClearTask(u) /\ ~DestroyTask(u)
    BY DEF Quit, BookTask, ClearTask, DestroyTask, TaskMutexFree
  <2> QED  BY <2>1, <2>2, <2>3, <2>4 DEF Next, CallStep
<1>4. t \in Listed'
  <2>1. taskList' \in Seq(Task \cup {NULL})
    BY TypesStep DEF Types
  <2>2. ToSet(taskList') = {taskList'[j] : j \in 1..Len(taskList')}
    BY <2>1, ListElements
  <2> QED  BY <1>0, <1>2, <2>2 DEF Listed
<1> QED  BY <1>0, <1>2, <1>3, <1>4 DEF Moved

\* What is read of a stopped timer.
LEMMA StoppedStep ==
    ASSUME IInv, Stopped, [Next]_vars
    PROVE  Stopped'
<1> USE DEF IInv, vars, timerVars, appVars, pollerVars
<1>1. TimersRun'
  BY TimersStep DEF Stopped
<1>2. ReadOfMoved'
  <2> SUFFICES ASSUME pc' = "scan", sleepTime' < 0
               PROVE  \E k \in 1..Len(taskList') :
                        /\ k < iter' /\ taskList'[k] # NULL /\ taskList'[k] \in Listed'
                        /\ call'[taskList'[k]].pc \in {"inc", "book"}
    BY DEF ReadOfMoved, Moved
  <2>1. ~BeginScan
    BY SchedulerAssumption DEF BeginScan
  <2>2. pc = "scan"
    BY <2>1 DEF Next, CallStep, PollerStep, StartWaitRefused, StartWait, TimerIsNow, StopTimer,
                IncTimer, BookTask, ClearTask, DestroyTask, Quit, Tick, DropCleared, StartDue,
                PassEntry, EndScan, FallAsleep, WakeUp, Unless, AtEntry
  <2>3. CASE sleepTime < 0
    <3>1. PICK k \in 1..Len(taskList) : k < iter /\ taskList[k] # NULL /\ Moved(taskList[k])
      BY <2>2, <2>3 DEF Stopped, ReadOfMoved
    <3>2. k \in 1..Len(taskList') /\ k < iter' /\ taskList'[k] = taskList[k]
          /\ Moved(taskList[k])'
      BY <2>2, <3>1, PassedStep
    <3> QED  BY <3>1, <3>2 DEF Moved
  <2>4. CASE ~(sleepTime < 0)
    <3>1. PassEntry
      BY <2>1, <2>4 DEF Next, CallStep, PollerStep, StartWaitRefused, StartWait, TimerIsNow,
                        StopTimer, IncTimer, BookTask, ClearTask, DestroyTask, Quit, Tick,
                        DropCleared, StartDue, EndScan, FallAsleep, WakeUp
    <3>2. PICK t \in Task : t = taskList[iter] /\ t # NULL
      BY <3>1 DEF PassEntry, AtEntry, Types
    <3>3. /\ iter \in 1..Len(taskList) /\ iter' = iter + 1 /\ sleepTime' = Shorter(t)
          /\ UNCHANGED <<taskList, call>>
      BY <3>1, <3>2 DEF PassEntry, AtEntry, Types
    <3>4. ~active[t]
      BY <2>4, <3>3 DEF Shorter, Types
    <3>5. t \in Listed
      BY <3>2, <3>3, EntryIsListed
    <3>6. Moved(t)
      BY <3>4, <3>5 DEF Stopped, TimersRun, Moved
    <3>7. t \in Listed' /\ call'[t].pc \in {"inc", "book"}
      BY <3>3, <3>6 DEF Moved, Listed
    <3>8. iter \in 1..Len(taskList') /\ iter < iter' /\ taskList'[iter] = t /\ t # NULL
      BY <3>2, <3>3, SchedulerAssumption DEF Types
    <3> QED  BY <3>7, <3>8
  <2> QED  BY <2>3, <2>4
<1>3. MoverWakes'
  <2> SUFFICES ASSUME pc' = "sleep", wakeup' = 0, sleepTime' < 0
               PROVE  \E t \in Task : Moved(t)'
    BY DEF MoverWakes
  <2>1. CASE EndScan
    <3>1. pc = "scan" /\ UNCHANGED <<taskList, call, sleepTime>>
      BY <2>1 DEF EndScan
    <3>2. PICK k \in 1..Len(taskList) : taskList[k] # NULL /\ Moved(taskList[k])
      BY <3>1 DEF Stopped, ReadOfMoved
    <3>3. taskList[k] \in Task
      BY <3>2, EntryIsListed
    <3> QED  BY <3>1, <3>2, <3>3 DEF Moved, Listed
  <2>2. CASE ~EndScan
    <3>1. pc = "sleep" /\ UNCHANGED sleepTime
      BY <2>2 DEF Next, CallStep, PollerStep, StartWaitRefused, StartWait, TimerIsNow, StopTimer,
                  IncTimer, BookTask, ClearTask, DestroyTask, Quit, Tick, BeginScan, DropCleared,
                  StartDue, PassEntry, FallAsleep, WakeUp, Unless, AtEntry
    <3>2. wakeup = 0
      BY <3>1 DEF Next, CallStep, PollerStep, StartWaitRefused, StartWait, TimerIsNow, StopTimer,
                  IncTimer, BookTask, ClearTask, DestroyTask, Quit, Tick, BeginScan, DropCleared,
                  StartDue, PassEntry, EndScan, FallAsleep, WakeUp, AtEntry, Types
    <3>3. PICK t \in Task : Moved(t)
      BY <3>1, <3>2 DEF Stopped, MoverWakes
    <3>4. Moved(t)' \/ wakeup' # 0
      BY <3>1, <3>3, MovedStep
    <3> QED  BY <3>4
  <2> QED  BY <2>1, <2>2
<1> QED  BY <1>1, <1>2, <1>3 DEF Stopped

\* Every step keeps what the poller knows.
LEMMA CoveredStep ==
    ASSUME IInv, Stopped, Covered, [Next]_vars
    PROVE  Covered'
<1> USE DEF IInv, vars, timerVars, appVars, pollerVars
<1>0. ASSUME pc = "asleep", pc' = pc
      PROVE  \A t \in Task : Moved(t) => Moved(t)' \/ wakeup' # 0
  BY <1>0, MovedStep
<1>1. ASSUME NEW t \in Task, StartWaitRefused(t) PROVE Covered'
  BY <1>0, <1>1, AppKeepsCovered DEF StartWaitRefused, Running
<1>2. ASSUME NEW t \in Task, StartWait(t) PROVE Covered'
  <2>1. \A u \in Task : Running(u)' => Running(u)
    BY <1>2, StartIs DEF StartWait, Running
  <2> QED  BY <1>0, <1>2, <2>1, AppKeepsCovered DEF StartWait
<1>3. ASSUME NEW t \in Task, TimerIsNow(t) \/ StopTimer(t) \/ IncTimer(t) PROVE Covered'
  <2>1. /\ call'[t].pc # "idle"
        /\ \A u \in Task : u # t => call'[u] = call[u]
    BY <1>3, GotoIs DEF TimerIsNow, StopTimer, IncTimer, Phase
  <2>2. \A u \in Task : u # t => left'[u] = left[u] /\ active'[u] = active[u]
    BY <1>3 DEF TimerIsNow, StopTimer, IncTimer, Types
  <2>3. \A u \in Task : Running(u)' => Running(u) /\ left'[u] = left[u]
    BY <2>1, <2>2 DEF Running
  <2> QED  BY <1>0, <1>3, <2>3, AppKeepsCovered DEF TimerIsNow, StopTimer, IncTimer
<1>4. ASSUME NEW t \in Task, BookTask(t) PROVE Covered'
  <2>1. pc # "scan" /\ wakeup' # 0
    BY <1>4 DEF BookTask, TaskMutexFree, Types
  <2> QED  BY <1>4, <2>1 DEF BookTask, Covered, Scanned, Decided, Sleeping
<1>5. ASSUME NEW t \in Task, ClearTask(t) \/ DestroyTask(t) PROVE Covered'
  <2>1. Listed' \subseteq Listed
    BY <1>5, Cleared DEF ClearTask, DestroyTask, ListIs
  <2>2. \A u \in Task : Running(u)' => Running(u)
    BY <1>5 DEF ClearTask, DestroyTask, Running, Types
  <2> QED  BY <1>0, <1>5, <2>1, <2>2, AppKeepsCovered DEF ClearTask, DestroyTask, TaskMutexFree
<1>6. CASE Quit
  <2>1. Listed' = {}
    BY <1>6, Emptied DEF Quit, ListIs
  <2> QED  BY <1>6, <2>1 DEF Quit, TaskMutexFree, Covered, Scanned, Decided, Sleeping
<1>7. CASE UNCHANGED vars
  BY <1>0, <1>7, AppKeepsCovered DEF Running
<1> QED  BY <1>1, <1>2, <1>3, <1>4, <1>5, <1>6, <1>7, PollerKeepsCovered, TickKeepsCovered
         DEF Next, CallStep

\* The poller does not oversleep: a booking that comes between its look at the
\* list and its sleep, or while it sleeps, has posted the semaphore, and what it
\* saw ends no earlier than it wakes up, but for the time it took to fall asleep.
\* The one sleep that is too long, a stopped timer's -1 that wrapped round, lasts
\* no longer than it takes startWait() to post: the task is still being moved.
THEOREM PollerDoesNotOversleep == Spec => []SleepsNoLonger
<1> DEFINE Known == Stopped /\ Covered
<1>1. Init => Known
  BY DEF Init, Covered, Scanned, Decided, Sleeping, Stopped, TimersRun, ReadOfMoved, MoverWakes,
         Listed, ToSet
<1>2. IInv /\ Known /\ [Next]_vars => Known'
  BY StoppedStep, CoveredStep
<1>3. Known => SleepsNoLonger
  BY DEF Covered, Sleeping, Running, SleepsNoLonger
<1> QED  BY <1>1, <1>2, <1>3, SpecIInv, PTL DEF Spec
=============================================================================
