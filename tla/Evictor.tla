-------------------------------- MODULE Evictor --------------------------------
(***************************************************************************)
(* Evictor.{h,cpp}: a write-behind cache of servant objects over an object *)
(* store. Callers add(), remove(), locate() and setDirty(); one thread     *)
(* poll()s: it streams the modified items, saves the streams and evicts.   *)
(*                                                                         *)
(* Two kinds of mutex are taken one inside the other: _lkEvictor and each  *)
(* Item's own. A critical section that needs no second lock is one action; *)
(* a lock kept while another is waited for is read off the program         *)
(* counters (EvictorLocked, ItemLocked). Items are reference counted: one  *)
(* that nothing points to is free to be allocated again.                   *)
(***************************************************************************)
EXTENDS Integers, Sequences, FiniteSets, SequencesExt

CONSTANTS
    Ident,          \* names of objects
    Caller,         \* application threads
    MaxItems,       \* bound: Item objects alive at a time
    MaxOps,         \* bound: operations begun, over all callers
    EvictorSize,    \* _evictorSize
    BatchSize,      \* _batchSize
    CompletedOnly,  \* FLG_SAVE_COMPLETED_ONLY
    Faults,         \* what may fail: "load", "unmarshal", "marshal", "save"
    CallerRules     \* what the application takes care of, see Rule

NoItem == 0
NoData == 0

ASSUME EvictorAssumption ==
    /\ NoItem \notin Ident
    /\ IsFiniteSet(Ident) /\ IsFiniteSet(Caller)
    /\ MaxItems \in Nat /\ MaxOps \in Nat /\ EvictorSize \in Nat /\ BatchSize \in Nat \ {0}
    /\ CompletedOnly \in BOOLEAN /\ CallerRules \subseteq {"serialised", "onePerIdent"}
    /\ Faults \subseteq {"load", "unmarshal", "marshal", "save"}

VARIABLES
    store,          \* the object store, _dict or the Redis server
    item,           \* every Item object
    cache,          \* _cache
    evictorList,    \* _evictorList, the most recently used first
    modMap,         \* _modifiedMap
    modQueue,       \* _modifiedQueue
    streamed,       \* _streamedList
    call,           \* the operation each caller is in, and its locals
    poll,           \* the locals of poll()
    ops, written    \* operations begun; the last value written

cacheVars == <<cache, evictorList>>
modVars   == <<modMap, modQueue>>
ghosts    == <<ops, written>>
vars == <<store, item, cacheVars, modVars, streamed, call, poll, ghosts>>

Value  == 1..(MaxOps + 1)     \* contents of a servant; every write takes a new one
Item   == 1..MaxItems

\* "serialised": operations and poll() are kept apart; "onePerIdent": no two
\* callers work on one ident at a time.
Rule(r) == r \in CallerRules

Idle == [pc |-> "idle", op |-> "none", ident |-> NoItem, item |-> NoItem,
         held |-> NoItem, complete |-> FALSE]
PollIdle == [pc |-> "idle", flushAll |-> FALSE, batch |-> <<>>, dead |-> <<>>,
             flush |-> <<>>, reque |-> <<>>, saving |-> <<>>]

\* The list is erased from at Item::_pos, where x is.
Without(s, x) == RemoveAt(s, CHOOSE j \in DOMAIN s : s[j] = x)

Init ==
    /\ store \in [Ident -> {NoData, 1}]
    /\ item = [i \in Item |-> [ident |-> NoItem, status |-> "dead", data |-> NoData,
                               completed |-> FALSE, orphan |-> TRUE]]
    /\ cache = [d \in Ident |-> NoItem] /\ evictorList = <<>>
    /\ modMap = [d \in Ident |-> NoItem] /\ modQueue = <<>> /\ streamed = <<>>
    /\ call = [c \in Caller |-> Idle] /\ poll = PollIdle
    /\ ops = 0 /\ written = 1

\* setDirty() and poll() keep _lkEvictor over several steps.
EvictorLocked ==
    \/ \E c \in Caller : call[c].pc = "dirty"
    \/ poll.pc \in {"pop", "dead", "flush", "size"}

\* add(), remove(), locate() and poll() wait for _lkEvictor with the Item held.
ItemLocked(i) ==
    \/ \E c \in Caller : call[c].item = i /\ call[c].pc \in {"queue", "requeue"}
    \/ poll.pc = "push" /\ Head(poll.batch) = i

\* Who points to an Item: __getRef() without the pointer in _cache.
ByCallers == {call[c].item : c \in Caller} \ {NoItem}
InQueues  == {modMap[d] : d \in Ident} \ {NoItem}
ByPoll    == ToSet(poll.batch) \cup ToSet(poll.dead) \cup ToSet(poll.flush) \cup ToSet(poll.reque)

\* Whose servant, the one it has now, somebody located and still points to:
\* __getRef() of _data.servant without the Item's own pointer.
Served == {call[c].held : c \in Caller} \ {NoItem}

FreeItems == Item \ (ByCallers \cup InQueues \cup ByPoll \cup {cache[d] : d \in Ident})
NewItem == CHOOSE i \in FreeItems : TRUE
Alloc(d, status, data) ==
    item' = [item EXCEPT ![NewItem] = [ident |-> d, status |-> status, data |-> data,
                                       completed |-> FALSE, orphan |-> TRUE]]

----------------------------------------------------------------------------
(* Operations. *)

Goto(c, pc) == call' = [call EXCEPT ![c].pc = pc]
Return(c)   == call' = [call EXCEPT ![c] = Idle]

\* The Item gets another servant, or none. The one it had lives on with the
\* callers that located it, and nothing leads from the one to the other.
Replaced(i) == [o \in Caller |-> [call[o] EXCEPT !.held = IF @ = i THEN NoItem ELSE @]]

Begin(c) ==
    /\ call[c].pc = "idle" /\ ops < MaxOps
    /\ Rule("serialised") => poll.pc = "idle" /\ \A o \in Caller : call[o].pc = "idle"
    /\ \E d \in Ident, op \in {"add", "remove", "locate"}, b \in BOOLEAN :
         /\ Rule("onePerIdent") => \A o \in Caller : call[o].ident # d
         /\ b => op = "locate"
         /\ call' = [call EXCEPT ![c] = [Idle EXCEPT !.pc = "pin", !.op = op,
                                                     !.ident = d, !.complete = b]]
    /\ ops' = ops + 1
    /\ UNCHANGED <<store, item, cacheVars, modVars, streamed, poll, written>>

\* Mutant of Pinned: the NULL pin() may return is not tested for.
PinnedUntested(c, i, table) ==
    item' = table /\ call' = [call EXCEPT ![c].pc = "lock", ![c].item = i]

\* What the operation does with the Item pin() returns: add() makes a dead
\* one where there is none, the others want an Item with a servant.
Pinned(c, i, table) ==
    IF i # NoItem /\ (call[c].op = "add" \/ table[i].data # NoData)
    THEN item' = table /\ call' = [call EXCEPT ![c].pc = "lock", ![c].item = i]
    ELSE IF call[c].op = "add"
    THEN /\ call' = [call EXCEPT ![c].pc = "lock", ![c].item = NewItem]
         /\ Alloc(call[c].ident, "dead", NoData)
    ELSE item' = table /\ Return(c)

\* pin(): the look at _cache.
PinLookup(c) ==
    LET i == cache[call[c].ident] IN
    /\ call[c].pc = "pin" /\ ~EvictorLocked
    /\ IF i # NoItem THEN Pinned(c, i, item) ELSE Goto(c, "load") /\ UNCHANGED item
    /\ UNCHANGED <<store, cacheVars, modVars, streamed, poll, ghosts>>

\* pin(): loadFromStore() and unmarshal(), without a lock. A failed load is
\* tried again and given up at last.
PinLoad(c) ==
    LET d == call[c].ident
        loaded(status, data) ==
            /\ FreeItems # {} /\ Alloc(d, status, data)
            /\ call' = [call EXCEPT ![c].pc = "insert", ![c].item = NewItem]
        failed(pc) == Goto(c, pc) /\ UNCHANGED item
    IN
    /\ call[c].pc = "load"
    /\ \/ store[d] = NoData /\ failed("insert")
       \/ store[d] # NoData /\ loaded("clean", store[d])
       \/ store[d] # NoData /\ "unmarshal" \in Faults /\ loaded("dead", NoData)
       \/ "load" \in Faults /\ \E pc \in {"pin", "insert"} : failed(pc)
    /\ UNCHANGED <<store, cacheVars, modVars, streamed, poll, ghosts>>

\* Mutant of PinInsert: _cache is not looked at again.
PinInsertBlind(c) ==
    LET d == call[c].ident
        i == call[c].item IN
    /\ call[c].pc = "insert" /\ ~EvictorLocked
    /\ IF i # NoItem
       THEN /\ cache' = [cache EXCEPT ![d] = i]
            /\ evictorList' = <<d>> \o evictorList
            /\ Pinned(c, i, [item EXCEPT ![i].orphan = FALSE])
       ELSE FreeItems # {} /\ UNCHANGED cacheVars /\ Pinned(c, NoItem, item)
    /\ UNCHANGED <<store, modVars, streamed, poll, ghosts>>

\* pin(): what was loaded enters _cache, unless someone was faster.
PinInsert(c) ==
    LET d == call[c].ident
        i == call[c].item IN
    /\ call[c].pc = "insert" /\ ~EvictorLocked
    /\ IF cache[d] # NoItem
       THEN UNCHANGED cacheVars /\ Pinned(c, cache[d], item)
       ELSE IF i # NoItem
       THEN /\ cache' = [cache EXCEPT ![d] = i]
            /\ evictorList' = <<d>> \o evictorList
            /\ Pinned(c, i, [item EXCEPT ![i].orphan = FALSE])
       ELSE FreeItems # {} /\ UNCHANGED cacheVars /\ Pinned(c, NoItem, item)
    /\ UNCHANGED <<store, modVars, streamed, poll, ghosts>>

\* A statement about the Item the caller has: its lock is free and it is taken
\* until the operation leaves "queue" and "requeue".
LockItem(c, op) == call[c].pc = "lock" /\ call[c].op = op /\ ~ItemLocked(call[c].item)

\* add() on a locked Item.
AddBody(c) ==
    LET i == call[c].item
        s == item[i].status IN
    /\ LockItem(c, "add")
    /\ item' = [item EXCEPT ![i].data = written + 1,
                            ![i].status = IF s = "dead" THEN "created" ELSE "modified"]
    /\ call' = [Replaced(i) EXCEPT ![c].pc = IF s = "destroyed" THEN "requeue" ELSE "queue"]
    /\ written' = written + 1
    /\ UNCHANGED <<store, cacheVars, modVars, streamed, poll, ops>>

\* Mutant of StatusRemoved: an Item not known to be stored just dies.
StatusRemovedAnyDead(s) == IF s = "clean" THEN "destroyed" ELSE "dead"

\* remove(): an object that was never stored just dies.
StatusRemoved(s) == IF s = "created" THEN "dead" ELSE "destroyed"

\* remove() on a locked Item; it throws 404 where there is nothing to remove.
\* A modified Item is in the queue already or about to be saved.
RemoveBody(c) ==
    LET i == call[c].item
        s == item[i].status IN
    /\ LockItem(c, "remove")
    /\ IF s \in {"destroyed", "dead"}
       THEN Return(c) /\ UNCHANGED item
       ELSE /\ item' = [item EXCEPT ![i].status = StatusRemoved(s), ![i].data = NoData]
            /\ call' = [Replaced(i) EXCEPT ![c].pc = IF s = "clean" THEN "queue" ELSE "requeue"]
    /\ UNCHANGED <<store, cacheVars, modVars, streamed, poll, ghosts>>

\* locate() on a locked Item.
LocateBody(c) ==
    /\ LockItem(c, "locate")
    /\ IF item[call[c].item].status \in {"destroyed", "dead"}
       THEN Return(c) ELSE Goto(c, "requeue")
    /\ UNCHANGED <<store, item, cacheVars, modVars, streamed, poll, ghosts>>

\* _queueModified(): the ident once more, the latest Item for it.
QueueModified(i) ==
    /\ modQueue' = Append(modQueue, item[i].ident)
    /\ modMap' = [modMap EXCEPT ![item[i].ident] = i]

EnqueueStep(c) ==
    /\ call[c].pc = "queue" /\ ~EvictorLocked
    /\ QueueModified(call[c].item) /\ Goto(c, "requeue")
    /\ UNCHANGED <<store, item, cacheVars, streamed, poll, ghosts>>

\* _requeue(): the Item becomes the most recently used.
Requeue(i) ==
    evictorList' = IF item[i].orphan THEN evictorList
                   ELSE <<item[i].ident>> \o Without(evictorList, item[i].ident)

\* The end of add(), remove() and locate(). locate() returns the servant: NULL,
\* if it was removed after locate() had looked.
RequeueStep(c) ==
    /\ call[c].pc = "requeue" /\ ~EvictorLocked
    /\ Requeue(call[c].item)
    /\ IF call[c].op = "locate" /\ item[call[c].item].data # NoData
       THEN call' = [call EXCEPT ![c].pc = "held", ![c].item = NoItem, ![c].held = call[c].item]
       ELSE Return(c)
    /\ UNCHANGED <<store, item, cache, modVars, streamed, poll, ghosts>>

\* The application lets go of the servant it located, or changes it and calls
\* setDirty(), which pins the Item anew. A servant that was replaced or removed
\* in between is no Item's: its change reaches nobody.
Release(c) ==
    /\ call[c].pc = "held" /\ Return(c)
    /\ UNCHANGED <<store, item, cacheVars, modVars, streamed, poll, ghosts>>

ChangeServant(c) ==
    /\ call[c].pc = "held"
    /\ item' = IF call[c].held = NoItem THEN item
               ELSE [item EXCEPT ![call[c].held].data = written + 1]
    /\ call' = [call EXCEPT ![c].pc = "pin", ![c].op = "setDirty"]
    /\ written' = written + 1
    /\ UNCHANGED <<store, cacheVars, modVars, streamed, poll, ops>>

\* setDirty(): _lkEvictor first, the Item's lock inside it.
SetDirtyLock(c) ==
    /\ call[c].pc = "lock" /\ call[c].op = "setDirty" /\ ~EvictorLocked
    /\ Goto(c, "dirty")
    /\ UNCHANGED <<store, item, cacheVars, modVars, streamed, poll, ghosts>>

\* Mutant of SetDirtyBody: the Item is not queued.
SetDirtyUnqueued(c) ==
    LET i == call[c].item IN
    /\ call[c].pc = "dirty" /\ ~ItemLocked(i)
    /\ item' = IF item[i].status = "clean"
               THEN [item EXCEPT ![i].status = "modified", ![i].completed = call[c].complete]
               ELSE item
    /\ Return(c)
    /\ UNCHANGED <<store, cacheVars, modVars, streamed, poll, ghosts>>

SetDirtyBody(c) ==
    LET i == call[c].item IN
    /\ call[c].pc = "dirty" /\ ~ItemLocked(i)
    /\ IF item[i].status = "clean"
       THEN /\ item' = [item EXCEPT ![i].status = "modified",
                                    ![i].completed = call[c].complete]
            /\ QueueModified(i) /\ Requeue(i)
       ELSE UNCHANGED <<item, modVars, evictorList>>
    /\ Return(c)
    /\ UNCHANGED <<store, cache, streamed, poll, ghosts>>

CallStep(c) ==
    \/ PinLookup(c) \/ PinLoad(c) \/ PinInsert(c)
    \/ AddBody(c) \/ RemoveBody(c) \/ LocateBody(c)
    \/ EnqueueStep(c) \/ RequeueStep(c)
    \/ Release(c) \/ ChangeServant(c) \/ SetDirtyLock(c) \/ SetDirtyBody(c)

----------------------------------------------------------------------------
(* poll(), of one thread. *)

PollGoto(pc) == poll' = [poll EXCEPT !.pc = pc]
Cached == {d \in Ident : cache[d] # NoItem}

\* poll() finds something to do; a list that disagrees with _cache is rebuilt.
PollBegins ==
    /\ poll.pc = "idle" /\ ~EvictorLocked
    /\ modQueue # <<>> \/ streamed # <<>>
    /\ Rule("serialised") => \A c \in Caller : call[c].pc = "idle"
    /\ evictorList' = IF Len(evictorList) # Cardinality(Cached)
                      THEN SetToSeq(Cached) ELSE evictorList
    /\ \E all \in BOOLEAN : poll' = [PollIdle EXCEPT !.pc = "pop", !.flushAll = all]
    /\ UNCHANGED <<store, item, cache, modVars, streamed, call, ghosts>>

\* _popModified() takes at most BatchSize Items, or all.
PopsMore == modQueue # <<>> /\ (poll.flushAll \/ Len(poll.batch) < BatchSize)

\* An ident that _modifiedMap has no more was popped before.
PopModified ==
    LET d == Head(modQueue) IN
    /\ poll.pc = "pop" /\ PopsMore
    /\ modQueue' = Tail(modQueue)
    /\ modMap' = [modMap EXCEPT ![d] = NoItem]
    /\ poll' = IF modMap[d] = NoItem THEN poll
               ELSE [poll EXCEPT !.batch = Append(@, modMap[d])]
    /\ UNCHANGED <<store, item, cacheVars, streamed, call, ghosts>>

PopDone ==
    /\ poll.pc = "pop" /\ ~PopsMore /\ PollGoto("stream")
    /\ UNCHANGED <<store, item, cacheVars, modVars, streamed, call, ghosts>>

Streamed(q)   == [q EXCEPT !.pc = "push"]
Unstreamed(q) == [q EXCEPT !.batch = Tail(@)]

\* A dirty Item is streamed for the flush; an incomplete one is put back.
StreamDirty(i) ==
    LET q == [poll EXCEPT !.flush = Append(@, i)] IN
    /\ item[i].status \in {"created", "modified"}
    /\ IF CompletedOnly /\ ~item[i].completed
       THEN poll' = Unstreamed([poll EXCEPT !.reque = Append(@, i)])
       ELSE \/ poll' = Streamed(q)
            \/ "marshal" \in Faults /\ poll' = Unstreamed(q)
    /\ UNCHANGED item

\* A destroyed Item is dead as soon as its deletion is streamed.
StreamDestroyed(i) ==
    /\ item[i].status = "destroyed"
    /\ poll' = Streamed([poll EXCEPT !.dead = Append(@, i)])
    /\ item' = [item EXCEPT ![i].status = "dead"]

\* One Item of the batch, its lock taken.
StreamItem ==
    LET i == Head(poll.batch) IN
    /\ poll.pc = "stream" /\ poll.batch # <<>> /\ ~ItemLocked(i)
    /\ \/ StreamDirty(i)
       \/ StreamDestroyed(i)
       \/ /\ item[i].status = "dead" /\ UNCHANGED item
          /\ poll' = Unstreamed([poll EXCEPT !.dead = Append(@, i)])
       \/ item[i].status = "clean" /\ poll' = Unstreamed(poll) /\ UNCHANGED item
    /\ UNCHANGED <<store, cacheVars, modVars, streamed, call, ghosts>>

\* The stream enters _streamedList while the Item is still locked. A deleted
\* object has no contents.
PushStreamed ==
    LET i == Head(poll.batch) IN
    /\ poll.pc = "push" /\ ~EvictorLocked
    /\ streamed' = Append(streamed, [ident |-> item[i].ident, data |-> item[i].data])
    /\ poll' = [poll EXCEPT !.pc = "stream", !.batch = Tail(@)]
    /\ UNCHANGED <<store, item, cacheVars, modVars, call, ghosts>>

\* The incomplete Items are queued again. Their idents differ.
RequeueIncomplete ==
    LET back == [k \in DOMAIN poll.reque |-> item[poll.reque[k]].ident] IN
    /\ poll.pc = "stream" /\ poll.batch = <<>> /\ ~EvictorLocked
    /\ modQueue' = modQueue \o back
    /\ modMap' = [d \in Ident |-> IF \E k \in DOMAIN back : back[k] = d
                                  THEN poll.reque[CHOOSE k \in DOMAIN back : back[k] = d]
                                  ELSE modMap[d]]
    /\ poll' = [poll EXCEPT !.pc = "take", !.reque = <<>>]
    /\ UNCHANGED <<store, item, cacheVars, streamed, call, ghosts>>

\* Mutant of TakeStreamed: flushAll is forgotten.
TakeBatch ==
    LET n == IF BatchSize > Len(streamed) THEN Len(streamed) ELSE BatchSize IN
    /\ poll.pc = "take" /\ ~EvictorLocked
    /\ poll' = [poll EXCEPT !.pc = "save", !.saving = SubSeq(streamed, 1, n)]
    /\ streamed' = SubSeq(streamed, n + 1, Len(streamed))
    /\ UNCHANGED <<store, item, cacheVars, modVars, call, ghosts>>

\* The oldest streams, at most BatchSize of them or all, are to be saved.
TakeStreamed ==
    LET n == IF poll.flushAll \/ BatchSize > Len(streamed) THEN Len(streamed) ELSE BatchSize IN
    /\ poll.pc = "take" /\ ~EvictorLocked
    /\ poll' = [poll EXCEPT !.pc = "save", !.saving = SubSeq(streamed, 1, n)]
    /\ streamed' = SubSeq(streamed, n + 1, Len(streamed))
    /\ UNCHANGED <<store, item, cacheVars, modVars, call, ghosts>>

\* saveBatchToStore(), one object at a time: a SET or a DEL, whose failure is
\* logged and forgotten.
SaveOne ==
    LET e == Head(poll.saving) IN
    /\ poll.pc = "save" /\ poll.saving # <<>>
    /\ \/ store' = [store EXCEPT ![e.ident] = e.data]
       \/ "save" \in Faults /\ UNCHANGED store
    /\ poll' = [poll EXCEPT !.saving = Tail(@)]
    /\ UNCHANGED <<item, cacheVars, modVars, streamed, call, ghosts>>

SaveReturns ==
    /\ poll.pc = "save" /\ poll.saving = <<>> /\ ~EvictorLocked
    /\ PollGoto("dead")
    /\ UNCHANGED <<store, item, cacheVars, modVars, streamed, call, ghosts>>

\* _evict()
Evict(i) ==
    /\ cache' = [cache EXCEPT ![item[i].ident] = NoItem]
    /\ evictorList' = Without(evictorList, item[i].ident)
    /\ item' = [item EXCEPT ![i].orphan = TRUE]

\* Step 1: a dead Item goes, unless it was revived or somebody points to it.
EvictDead ==
    LET i == Head(poll.dead) IN
    /\ poll.pc = "dead" /\ poll.dead # <<>>
    /\ item[i].orphan \/ ~ItemLocked(i)
    /\ IF ~item[i].orphan /\ item[i].status = "dead" /\ i \notin ByCallers \cup InQueues
       THEN Evict(i) ELSE UNCHANGED <<item, cacheVars>>
    /\ poll' = [poll EXCEPT !.dead = Tail(@)]
    /\ UNCHANGED <<store, modVars, streamed, call, ghosts>>

DeadDone ==
    /\ poll.pc = "dead" /\ poll.dead = <<>> /\ PollGoto("flush")
    /\ UNCHANGED <<store, item, cacheVars, modVars, streamed, call, ghosts>>

\* Mutant of FlushItem: the status is left alone.
FlushItemKept ==
    LET i == Head(poll.flush) IN
    /\ poll.pc = "flush" /\ poll.flush # <<>>
    /\ item[i].orphan \/ ~ItemLocked(i)
    /\ poll' = [poll EXCEPT !.flush = Tail(@)]
    /\ UNCHANGED <<store, item, cacheVars, modVars, streamed, call, ghosts>>

\* Step 2: an Item that was streamed becomes clean, whatever happened since.
FlushItem ==
    LET i == Head(poll.flush) IN
    /\ poll.pc = "flush" /\ poll.flush # <<>>
    /\ item[i].orphan \/ ~ItemLocked(i)
    /\ item' = IF item[i].orphan THEN item ELSE [item EXCEPT ![i].status = "clean"]
    /\ poll' = [poll EXCEPT !.flush = Tail(@)]
    /\ UNCHANGED <<store, cacheVars, modVars, streamed, call, ghosts>>

FlushDone ==
    /\ poll.pc = "flush" /\ poll.flush = <<>> /\ PollGoto("size")
    /\ UNCHANGED <<store, item, cacheVars, modVars, streamed, call, ghosts>>

Oldest == cache[Last(evictorList)]
TooMany == Len(evictorList) > EvictorSize

\* Mutant of InUse: a servant the application still holds does not count.
InUseUnlessServed(i) == i \in ByCallers \cup InQueues \cup ByPoll

\* itemUsage > 1 || objUsage > 1, of the servant the Item has now
InUse(i) == i \in ByCallers \cup InQueues \cup ByPoll \cup Served

\* Step 3, _evictBySize(): the least recently used, up to the first in use.
EvictOldest ==
    /\ poll.pc = "size" /\ TooMany /\ ~InUse(Oldest)
    /\ Evict(Oldest)
    /\ UNCHANGED <<store, modVars, streamed, call, poll, ghosts>>

PollReturns ==
    /\ poll.pc = "size" /\ (TooMany => InUse(Oldest))
    /\ poll' = PollIdle
    /\ UNCHANGED <<store, item, cacheVars, modVars, streamed, call, ghosts>>

PollStep ==
    \/ PollBegins \/ PopModified \/ PopDone
    \/ StreamItem \/ PushStreamed \/ RequeueIncomplete \/ TakeStreamed
    \/ SaveOne \/ SaveReturns \/ EvictDead \/ DeadDone \/ FlushItem \/ FlushDone
    \/ EvictOldest \/ PollReturns

\* Everybody is through.
Finished ==
    /\ ops = MaxOps /\ \A c \in Caller : call[c].pc = "idle"
    /\ poll.pc = "idle" /\ modQueue = <<>> /\ UNCHANGED vars

Next == PollStep \/ (\E c \in Caller : Begin(c) \/ CallStep(c)) \/ Finished

Spec == Init /\ [][Next]_vars

\* A begun operation is carried on, and its thread calls poll() again and again.
FairSpec == Spec /\ WF_vars(PollStep) /\ \A c \in Caller : WF_vars(CallStep(c))

----------------------------------------------------------------------------
(* Properties. *)

Status == {"clean", "created", "modified", "destroyed", "dead"}
Dirty  == {"created", "modified", "destroyed"}

\* The type invariant.
TypeOK ==
    LET Stream == [ident : Ident, data : Value \cup {NoData}] IN
    /\ store \in [Ident -> Value \cup {NoData}]
    /\ item \in [Item -> [ident : Ident \cup {NoItem}, status : Status,
                          data : Value \cup {NoData}, completed : BOOLEAN, orphan : BOOLEAN]]
    /\ cache \in [Ident -> Item \cup {NoItem}] /\ evictorList \in Seq(Ident)
    /\ modMap \in [Ident -> Item \cup {NoItem}] /\ modQueue \in Seq(Ident)
    /\ streamed \in Seq(Stream)
    /\ call \in [Caller -> [pc : {"idle", "pin", "load", "insert", "lock", "queue",
                                  "requeue", "held", "dirty"},
                            op : {"none", "add", "remove", "locate", "setDirty"},
                            ident : Ident \cup {NoItem}, item : Item \cup {NoItem},
                            held : Item \cup {NoItem}, complete : BOOLEAN]]
    /\ \A c \in Caller : call[c].pc \in {"lock", "queue", "requeue", "dirty"}
                        => call[c].item # NoItem
    /\ poll \in [pc : {"idle", "pop", "stream", "push", "take", "save", "dead", "flush", "size"},
                 flushAll : BOOLEAN, batch : Seq(Item), dead : Seq(Item), flush : Seq(Item),
                 reque : Seq(Item), saving : Seq(Stream)]
    /\ ops \in 0..MaxOps /\ written \in Value

\* The recency list and the cache name the same idents, each once, and an Item
\* that is not an orphan is the cached one of its ident: poll() never has to
\* rebuild the list, whose rebuilding would leave every Item::_pos dangling.
ListMatchesCache ==
    /\ \A j, k \in DOMAIN evictorList : evictorList[j] = evictorList[k] => j = k
    /\ ToSet(evictorList) = Cached
    /\ \A d \in Cached : item[cache[d]].ident = d /\ ~item[cache[d]].orphan
    /\ \A i \in Item : ~item[i].orphan => cache[item[i].ident] = i

\* What add() and remove() count on when they do not queue an Item: one that
\* is dirty is on the queue, about to be put there, or in the hands of poll().
DirtyIsQueued ==
    \A d \in Cached :
        item[cache[d]].status \in Dirty =>
            \/ modMap[d] = cache[d]
            \/ cache[d] \in ByPoll
            \/ \E c \in Caller : call[c].item = cache[d] /\ call[c].pc = "queue"

\* An object is not evicted under the application that located its servant, as
\* long as that servant is still the object's: only an add() or a remove() of
\* the ident parts the two. So what the application changes is what its
\* setDirty() finds and poll() saves.
LocatedStaysCached ==
    \A c \in Caller : call[c].held # NoItem =>
        /\ cache[call[c].ident] = call[c].held
        /\ item[call[c].held].data # NoData

\* Evictor.h: "clean: the element is as that of ObjectStore", unless the
\* application has just changed the servant and is on its way to setDirty().
CleanIsStored ==
    \A d \in Cached :
        /\ item[cache[d]].status = "clean"
        /\ \A c \in Caller : call[c].op = "setDirty" => call[c].held # cache[d]
        => store[d] = item[cache[d]].data

\* What the store will hold of an ident once the queue, the batch and the
\* streams have been worked off.
Saved(i) == CASE item[i].status \in {"created", "modified"} -> item[i].data
              [] item[i].status \in {"destroyed", "dead"} -> NoData
              [] item[i].status = "clean" -> store[item[i].ident]

Promise(d) ==
    LET queueing == {i \in Item : /\ item[i].ident = d
                                  /\ \E c \in Caller : call[c].item = i /\ call[c].pc = "queue"}
        popped   == {i \in ToSet(poll.batch) \cup ToSet(poll.reque) : item[i].ident = d}
        saves    == poll.saving \o streamed
        streams  == {k \in DOMAIN saves : saves[k].ident = d}
    IN IF queueing # {} THEN Saved(CHOOSE i \in queueing : TRUE)
       ELSE IF modMap[d] # NoItem THEN Saved(modMap[d])
       ELSE IF popped # {} THEN Saved(CHOOSE i \in popped : TRUE)
       ELSE IF streams # {} THEN saves[Max(streams)].data
       ELSE store[d]

\* The operation on an ident as the abstract map sees it.
Working(d) ==
    LET at == {c \in Caller : call[c].ident = d}
        c  == CHOOSE x \in at : TRUE
    IN IF at = {} THEN "none"
       ELSE IF call[c].op \in {"locate", "setDirty"} THEN "touch"
       ELSE IF call[c].pc \in {"queue", "requeue"} THEN "done"
       ELSE IF call[c].op = "add" THEN "put" ELSE "erase"

Promised == INSTANCE PromisedMap WITH
    promised <- [d \in Ident |-> Promise(d)],
    working  <- [d \in Ident |-> Working(d)]

\* Used from one thread at a time, the evictor is a map that forgets nothing:
\* streaming, saving, flushing and evicting change nothing that was promised.
ImplementsPromised == Promised!Spec

\* Every write reaches the store and every Item comes clean in the end.
EventuallySaved ==
    <>[] \A d \in Ident : /\ store[d] = Promise(d)
                          /\ d \in Cached => item[cache[d]].status \notin Dirty

\* Evictor.h, poll(): "the evictor relies on a thread to to evict/flush data",
\* so a poll() that was begun comes back.
PollComesBack == poll.pc # "idle" ~> poll.pc = "idle"
=============================================================================
