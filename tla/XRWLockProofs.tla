----------------------------- MODULE XRWLockProofs -----------------------------
(* Theorems about XRWLock, for any number of threads. *)
EXTENDS XRWLock, FiniteSetTheorems, TLAPS

\* count_lock is held exactly by a first reader that waits for data_lock, and
\* nobody reads meanwhile.
OwnerWaits ==
    /\ \A t \in Thread : pc[t] = "readWait" <=> count_owner = t
    /\ \A t, u \in Thread : pc[t] = "readWait" => pc[u] # "reading"

\* One that took data_lock for itself excludes everyone else, and while data_lock
\* is available nobody is in.
HolderAlone ==
    /\ \A t \in Holders : \A u \in Thread \ {t} : u \notin Holders /\ u \notin Readers
    /\ data_lock = 1 => Holders = {} /\ Readers = {}

IInv == TypeOK /\ ReadCountExact /\ OwnerWaits /\ HolderAlone /\ NotLost

-----------------------------------------------------------------------------
\* The threads that read_count stands for are finitely many.
LEMMA CountedFinite == IsFiniteSet(Counted)
BY ThreadAssumption, FS_Subset DEF Counted

\* read_count is zero when nobody reads or is the first reader waiting.
LEMMA CountZero ==
    ASSUME ReadCountExact
    PROVE  read_count = 0 <=> Counted = {}
BY CountedFinite, FS_EmptySet DEF ReadCountExact

\* At one, the thread that is counted is the only one.
LEMMA CountOne ==
    ASSUME ReadCountExact, read_count = 1, NEW t \in Counted
    PROVE  Counted = {t}
<1>1. PICK u : Counted = {u}
  BY CountedFinite, FS_Singleton DEF ReadCountExact
<1> QED  BY <1>1

\* read_count++ for a thread that was not counted keeps it exact.
LEMMA CountAdd ==
    ASSUME ReadCountExact, NEW t \in Thread, t \notin Counted,
           Counted' = Counted \cup {t}, read_count' = read_count + 1
    PROVE  ReadCountExact'
BY CountedFinite, FS_AddElement DEF ReadCountExact

\* read_count-- for a thread that was counted keeps it exact.
LEMMA CountRemove ==
    ASSUME ReadCountExact, NEW t \in Counted,
           Counted' = Counted \ {t}, read_count' = read_count - 1
    PROVE  ReadCountExact'
BY CountedFinite, FS_RemoveElement DEF ReadCountExact

\* The inductive invariant holds of a lock just constructed.
LEMMA InitIInv == Init => IInv
<1> SUFFICES ASSUME Init PROVE IInv
  OBVIOUS
<1>1. Counted = {} /\ Readers = {} /\ Holders = {}
  BY DEF Init, Counted, Readers, Holders
<1>2. ReadCountExact
  BY <1>1, FS_EmptySet DEF Init, ReadCountExact
<1>3. TypeOK /\ OwnerWaits /\ HolderAlone /\ NotLost
  BY <1>1, ThreadAssumption
     DEF Init, TypeOK, ThreadPc, Calls, OwnerWaits, HolderAlone, NotLost
<1> QED  BY <1>2, <1>3 DEF IInv

\* A step that moves no thread in or out of Counted keeps read_count exact.
LEMMA CountSame ==
    ASSUME ReadCountExact, Counted' = Counted, read_count' = read_count
    PROVE  ReadCountExact'
BY DEF ReadCountExact

\* It is kept by every step of every thread: calls, grants, timeouts and probes.
LEMMA StepIInv ==
    ASSUME IInv, NEW t \in Thread, Step(t)
    PROVE  IInv'
<1> USE ThreadAssumption DEF IInv, TypeOK, ThreadPc, Calls, OwnerWaits, HolderAlone,
        NotLost, Readers, Holders, Goto, Return, NoReturn
<1>1. CASE LockRead(t)
  <2>1. CASE read_count = 0
    <3>1. Counted = {}
      BY <2>1, CountZero
    <3>2. Counted' = Counted \cup {t} /\ t \notin Counted
      BY <1>1, <2>1 DEF LockRead, Counted
    <3>3. ReadCountExact'
      BY <1>1, <3>2, CountAdd DEF LockRead
    <3>4. \A u \in Thread : pc[u] # "reading"
      BY <3>1 DEF Counted
    <3> QED  BY <1>1, <2>1, <3>3, <3>4 DEF LockRead
  <2>2. CASE read_count # 0
    <3>1. PICK u \in Thread : pc[u] = "reading"
      BY <1>1, <2>2, CountZero DEF LockRead, Counted
    <3>2. Counted' = Counted \cup {t} /\ t \notin Counted
      BY <1>1, <2>2 DEF LockRead, Counted
    <3>3. ReadCountExact'
      BY <1>1, <3>2, CountAdd DEF LockRead
    <3> QED  BY <1>1, <2>2, <3>1, <3>3 DEF LockRead
  <2> QED  BY <2>1, <2>2
<1>2. CASE ReadGranted(t)
  <2>1. Counted' = Counted
    BY <1>2 DEF ReadGranted, Counted
  <2>2. ReadCountExact'
    BY <1>2, <2>1, CountSame DEF ReadGranted
  <2> QED  BY <1>2, <2>2 DEF ReadGranted
<1>3. CASE ReadTimeout(t)
  <2>1. t \in Counted /\ Counted' = Counted \ {t}
    BY <1>3 DEF ReadTimeout, Counted
  <2>2. ReadCountExact'
    BY <1>3, <2>1, CountRemove DEF ReadTimeout
  <2>3. read_count' \in Nat
    BY <1>3, <2>1, CountZero DEF ReadTimeout
  <2> QED  BY <1>3, <2>2, <2>3 DEF ReadTimeout
<1>4. CASE UnlockRead(t)
  <2>1. t \in Counted /\ Counted' = Counted \ {t}
    BY <1>4 DEF UnlockRead, Counted
  <2>2. read_count # 0
    BY <2>1, CountZero
  <2>3. ReadCountExact' /\ read_count' \in Nat
    BY <1>4, <2>1, <2>2, CountRemove DEF UnlockRead
  <2>4. data_lock = 0
    BY <1>4 DEF UnlockRead
  <2>5. CASE read_count = 1
    <3>1. Counted = {t}
      BY <2>1, <2>5, CountOne
    <3>2. \A u \in Thread : u # t => pc[u] # "reading"
      BY <3>1 DEF Counted
    <3> QED  BY <1>4, <2>2, <2>3, <2>4, <2>5, <3>2 DEF UnlockRead
  <2>6. CASE read_count # 1
    <3>0. Counted # {t}
      BY <2>6, FS_Singleton DEF ReadCountExact
    <3>1. PICK u \in Counted : u # t
      BY <2>1, <3>0
    <3>2. pc[u] = "reading" /\ u \in Thread
      BY <1>4, <3>1 DEF UnlockRead, Counted
    <3>3. data_lock' = data_lock
      BY <1>4, <2>2, <2>6 DEF UnlockRead
    <3> QED  BY <1>4, <2>2, <2>3, <2>4, <3>1, <3>2, <3>3 DEF UnlockRead
  <2> QED  BY <2>5, <2>6
<1>5. CASE LockWrite(t) \/ WriteGranted(t) \/ WriteTimeout(t) \/ UnlockWrite(t)
           \/ Probe(t) \/ ProbeTry(t) \/ ProbePost(t)
  <2> USE DEF LockWrite, WriteGranted, WriteTimeout, UnlockWrite, Probe, ProbeTry,
          ProbePost
  <2>1. Counted' = Counted /\ read_count' = read_count
    BY <1>5 DEF Counted
  <2>2. ReadCountExact'
    BY <2>1, CountSame
  <2>3. CASE LockWrite(t) \/ WriteTimeout(t)
    BY <2>2, <2>3
  <2>4. CASE WriteGranted(t)
    BY <2>2, <2>4
  <2>5. CASE UnlockWrite(t) \/ ProbePost(t)
    BY <2>2, <2>5
  <2>6. CASE Probe(t)
    BY <2>2, <2>6
  <2>7. CASE ProbeTry(t)
    BY <2>2, <2>7
  <2> QED  BY <1>5, <2>3, <2>4, <2>5, <2>6, <2>7
<1> QED  BY <1>1, <1>2, <1>3, <1>4, <1>5 DEF Step

\* The inductive invariant holds of every state the lock can reach.
THEOREM SpecIInv == Spec => []IInv
<1>1. IInv /\ UNCHANGED vars => IInv'
  BY DEF IInv, vars, TypeOK, ReadCountExact, OwnerWaits, HolderAlone, NotLost,
         Counted, Readers, Holders
<1>2. IInv /\ [Next]_vars => IInv'
  BY <1>1, StepIInv DEF Next
<1> QED  BY InitIInv, <1>2, PTL DEF Spec

-----------------------------------------------------------------------------
\* Mutual exclusion of rwlock_Linux.cpp: a writer is alone, for any number of
\* threads and whatever calls time out or probe the lock.
THEOREM MutualExclusion == Spec => []Exclusion
<1>1. IInv => Exclusion
  BY DEF IInv, TypeOK, HolderAlone, Holders, Readers, Exclusion
<1> QED  BY <1>1, SpecIInv, PTL

\* data_lock is not lost by timeouts or probes: when it is down, a reader, a
\* writer or a probe has it.
THEOREM DataLockNotLost == Spec => []NotLost
BY SpecIInv, PTL DEF IInv

\* read_count is exact, so the reader that takes it to zero is the last one.
THEOREM ReadCountCorrect == Spec => []ReadCountExact
BY SpecIInv, PTL DEF IInv

\* The types: the semaphore never exceeds one, read_count never goes below zero.
THEOREM TypeCorrect == Spec => []TypeOK
BY SpecIInv, PTL DEF IInv

\* The refusal path of rwlock_unlock_read() is dead code for threads that
\* unlock what they hold: read_count is never zero there.
THEOREM UnlockReadWorks == Spec => []UnlockReadSucceeds
<1>1. Init => UnlockReadSucceeds
  BY DEF Init, UnlockReadSucceeds
<1>2. ASSUME IInv, UnlockReadSucceeds, [Next]_vars
      PROVE  UnlockReadSucceeds'
  <2> USE <1>2 DEF IInv, TypeOK, UnlockReadSucceeds, Goto, Return, NoReturn
  <2>1. CASE UNCHANGED vars
    BY <2>1 DEF vars
  <2>2. ASSUME NEW t \in Thread, Step(t)
        PROVE  UnlockReadSucceeds'
    <3>1. CASE UnlockRead(t)
      <4>1. read_count # 0
        BY <3>1, CountZero DEF UnlockRead, Counted
      <4> QED  BY <3>1, <4>1 DEF UnlockRead
    <3>2. CASE ~UnlockRead(t)
      BY <2>2, <3>2 DEF Step, LockRead, ReadGranted, ReadTimeout, LockWrite, WriteGranted,
         WriteTimeout, UnlockWrite, Probe, ProbeTry, ProbePost
    <3> QED  BY <3>1, <3>2
  <2> QED  BY <2>1, <2>2 DEF Next
<1> QED  BY <1>1, <1>2, SpecIInv, PTL DEF Spec
=============================================================================
