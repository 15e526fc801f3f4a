-------------------------------- MODULE XRWLock --------------------------------
(***************************************************************************)
(* rwlock_Linux.cpp: a readers/writer lock made of a mutex (count_lock), a *)
(* semaphore of value one (data_lock) and read_count.  The first reader    *)
(* waits for data_lock while it holds count_lock.  Threads call the lock   *)
(* in any order but unlock only what a call of theirs has locked: a rule   *)
(* for callers, which the functions do not enforce.  The class RWLockGuard *)
(* breaks it where assert() is compiled out: a lock that timed out goes    *)
(* unnoticed (rwlock.h:172-191) and its unlock follows all the same.       *)
(***************************************************************************)
EXTENDS Integers, FiniteSets

CONSTANTS Thread, NoThread

ASSUME ThreadAssumption == IsFiniteSet(Thread) /\ NoThread \notin Thread

VARIABLES
    count_owner,    \* the thread that holds count_lock across a step
    data_lock,      \* value of the semaphore
    read_count,
    pc,             \* where each thread is
    last, ret       \* its last finished call and what it returned

vars == <<count_owner, data_lock, read_count, pc, last, ret>>

ThreadPc == {"idle", "readWait", "reading", "writeWait", "writing", "try", "tried"}
Calls == {"none", "lock_read", "unlock_read", "lock_write", "unlock_write", "locked_write"}

Init ==
    /\ count_owner = NoThread /\ data_lock = 1 /\ read_count = 0
    /\ pc = [t \in Thread |-> "idle"]
    /\ last = [t \in Thread |-> "none"]
    /\ ret = [t \in Thread |-> 0]

Goto(t, label) == pc' = [pc EXCEPT ![t] = label]

Return(t, name, value) ==
    /\ last' = [last EXCEPT ![t] = name]
    /\ ret' = [ret EXCEPT ![t] = value]

NoReturn == UNCHANGED <<last, ret>>

-----------------------------------------------------------------------------
\* Mutant of LockRead: read_count is set to one instead of incremented.
LockReadSets(t) ==
    /\ pc[t] = "idle" /\ count_owner = NoThread
    /\ read_count' = 1
    /\ IF read_count = 0
       THEN Goto(t, "readWait") /\ count_owner' = t /\ NoReturn
       ELSE Goto(t, "reading") /\ UNCHANGED count_owner /\ Return(t, "lock_read", 1)
    /\ UNCHANGED data_lock

\* lock_read: under count_lock, all but the first reader are in at once; the
\* first keeps count_lock and waits for data_lock.
LockRead(t) ==
    /\ pc[t] = "idle" /\ count_owner = NoThread
    /\ read_count' = read_count + 1
    /\ IF read_count = 0
       THEN Goto(t, "readWait") /\ count_owner' = t /\ NoReturn
       ELSE Goto(t, "reading") /\ UNCHANGED count_owner /\ Return(t, "lock_read", 1)
    /\ UNCHANGED data_lock

ReadGranted(t) ==
    /\ pc[t] = "readWait" /\ data_lock > 0
    /\ data_lock' = data_lock - 1
    /\ count_owner' = NoThread
    /\ Goto(t, "reading") /\ Return(t, "lock_read", 1)
    /\ UNCHANGED read_count

\* Mutant of ReadTimeout: the failed reader stays counted.
ReadTimeoutCounted(t) ==
    /\ pc[t] = "readWait"
    /\ count_owner' = NoThread
    /\ Goto(t, "idle") /\ Return(t, "lock_read", 0)
    /\ UNCHANGED <<data_lock, read_count>>

\* Mutant of ReadTimeout: count_lock is not unlocked on the error path.
ReadTimeoutLocked(t) ==
    /\ pc[t] = "readWait"
    /\ read_count' = read_count - 1
    /\ Goto(t, "idle") /\ Return(t, "lock_read", 0)
    /\ UNCHANGED <<count_owner, data_lock>>

ReadTimeout(t) ==
    /\ pc[t] = "readWait"
    /\ read_count' = read_count - 1
    /\ count_owner' = NoThread
    /\ Goto(t, "idle") /\ Return(t, "lock_read", 0)
    /\ UNCHANGED data_lock

\* Mutant of UnlockRead: every reader posts data_lock.
UnlockReadPosts(t) ==
    /\ pc[t] = "reading" /\ count_owner = NoThread
    /\ read_count' = read_count - 1
    /\ data_lock' = data_lock + 1
    /\ Goto(t, "idle") /\ Return(t, "unlock_read", 1)
    /\ UNCHANGED count_owner

\* unlock_read: refuses when no reader is counted; the last reader posts.
UnlockRead(t) ==
    /\ pc[t] = "reading" /\ count_owner = NoThread
    /\ IF read_count = 0
       THEN Return(t, "unlock_read", 0) /\ UNCHANGED <<read_count, data_lock>>
       ELSE /\ read_count' = read_count - 1
            /\ data_lock' = IF read_count = 1 THEN data_lock + 1 ELSE data_lock
            /\ Return(t, "unlock_read", 1)
    /\ Goto(t, "idle")
    /\ UNCHANGED count_owner

-----------------------------------------------------------------------------
LockWrite(t) ==
    /\ pc[t] = "idle"
    /\ Goto(t, "writeWait") /\ NoReturn
    /\ UNCHANGED <<count_owner, data_lock, read_count>>

WriteGranted(t) ==
    /\ pc[t] = "writeWait" /\ data_lock > 0
    /\ data_lock' = data_lock - 1
    /\ Goto(t, "writing") /\ Return(t, "lock_write", 1)
    /\ UNCHANGED <<count_owner, read_count>>

WriteTimeout(t) ==
    /\ pc[t] = "writeWait"
    /\ Goto(t, "idle") /\ Return(t, "lock_write", 0)
    /\ UNCHANGED <<count_owner, data_lock, read_count>>

\* unlock_write returns what sem_post() returns: 0 for success.
UnlockWrite(t) ==
    /\ pc[t] = "writing"
    /\ data_lock' = data_lock + 1
    /\ Goto(t, "idle") /\ Return(t, "unlock_write", 0)
    /\ UNCHANGED <<count_owner, read_count>>

-----------------------------------------------------------------------------
\* locked_write (and locked_read, which starts with it): an unlocked look at
\* read_count, then sem_trywait() and sem_post() as a probe.
Probe(t) ==
    /\ pc[t] = "idle"
    /\ IF read_count # 0
       THEN Return(t, "locked_write", 0) /\ UNCHANGED pc
       ELSE NoReturn /\ Goto(t, "try")
    /\ UNCHANGED <<count_owner, data_lock, read_count>>

ProbeTry(t) ==
    /\ pc[t] = "try"
    /\ IF data_lock > 0
       THEN data_lock' = data_lock - 1 /\ Goto(t, "tried") /\ NoReturn
       ELSE UNCHANGED data_lock /\ Goto(t, "idle") /\ Return(t, "locked_write", 1)
    /\ UNCHANGED <<count_owner, read_count>>

\* Mutant of ProbePost: the probe keeps the semaphore.
ProbeKeeps(t) ==
    /\ pc[t] = "tried"
    /\ Goto(t, "idle") /\ Return(t, "locked_write", 0)
    /\ UNCHANGED <<count_owner, data_lock, read_count>>

ProbePost(t) ==
    /\ pc[t] = "tried"
    /\ data_lock' = data_lock + 1
    /\ Goto(t, "idle") /\ Return(t, "locked_write", 0)
    /\ UNCHANGED <<count_owner, read_count>>

Step(t) ==
    \/ LockRead(t) \/ ReadGranted(t) \/ ReadTimeout(t) \/ UnlockRead(t)
    \/ LockWrite(t) \/ WriteGranted(t) \/ WriteTimeout(t) \/ UnlockWrite(t)
    \/ Probe(t) \/ ProbeTry(t) \/ ProbePost(t)

Next == \E t \in Thread : Step(t)

Spec == Init /\ [][Next]_vars

\* A wait for data_lock ends, by a grant or by its timeout.  Holders need not
\* let go.
Fairness ==
    \A t \in Thread :
        /\ WF_vars(ReadGranted(t) \/ ReadTimeout(t))
        /\ WF_vars(WriteGranted(t) \/ WriteTimeout(t))
        /\ WF_vars(ProbeTry(t) \/ ProbePost(t))

FairSpec == Spec /\ Fairness

-----------------------------------------------------------------------------
Readers == {t \in Thread : pc[t] = "reading"}
Holders == {t \in Thread : pc[t] \in {"writing", "tried"}}
Counted == {t \in Thread : pc[t] \in {"reading", "readWait"}}

\* The type of every variable.
TypeOK ==
    /\ count_owner \in Thread \cup {NoThread}
    /\ data_lock \in 0..1 /\ read_count \in Nat
    /\ pc \in [Thread -> ThreadPc]
    /\ last \in [Thread -> Calls] /\ ret \in [Thread -> 0..1]

\* A writer is alone: no second writer and no reader, whatever times out.
Exclusion ==
    \A t \in Thread : pc[t] = "writing" =>
        \A u \in Thread \ {t} : pc[u] \notin {"writing", "reading"}

\* read_count counts the readers and the first one that is still waiting, so
\* the reader that takes it to zero is the last.
ReadCountExact == read_count = Cardinality(Counted)

\* data_lock is never lost: it is available unless someone holds it, in
\* particular after a timeout or a probe.
NotLost == data_lock = 0 => Readers \cup Holders # {}

\* unlock_read() by a reader never finds read_count at zero.
UnlockReadSucceeds == \A t \in Thread : last[t] = "unlock_read" => ret[t] = 1

\* count_lock, which the first reader holds while it waits, is always let go of
\* again, even if the writer it waits for never unlocks.
CountLockFreed == \A t \in Thread : count_owner = t ~> count_owner = NoThread
=============================================================================
