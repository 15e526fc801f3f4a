--------------------------- MODULE EvictorQueueProofs ---------------------------
(* Nothing dirty is forgotten by Evictor, when no two callers work on one     *)
(* ident and objects need not be completed to be saved. When calls come one   *)
(* at a time and nothing fails, what is clean is what the store has, and the  *)
(* evictor implements the map that it promises.                               *)
EXTENDS EvictorProofs, DataLemmas

\* Either rule keeps two callers from working on one ident.
ApartByRule == Rule("onePerIdent") \/ Rule("serialised")

Busy(c) == call[c].pc # "idle"

OneEach == \A c, e \in Caller :
    Busy(c) /\ Busy(e) /\ call[c].ident = call[e].ident => c = e

\* An Item that add() made keeps the cache free of its ident.
OwnIsCached == \A c \in Caller :
    call[c].pc \in HasItem => cache[call[c].ident] \in {NoItem, call[c].item}

\* What pin() loaded is not dirty yet.
LoadedIsClean == \A c \in Caller :
    call[c].pc = "insert" /\ call[c].item # NoItem => item[call[c].item].status \notin Dirty

\* poll() works its lists off, and puts nothing back.
ListsWorkedOff ==
    /\ poll.reque = <<>>
    /\ poll.pc \notin {"pop", "stream", "push"} => poll.batch = <<>>
    /\ poll.pc \in {"idle", "size"} => poll.flush = <<>>

\* A streamed Item is about to be flushed, or its removal was streamed.
StreamedIsFlushed ==
    poll.pc = "push" => \/ Head(poll.batch) \in ToSet(poll.flush)
                        \/ item[Head(poll.batch)].status \notin Dirty

\* DirtyIsQueued without the list of the dead, whose Items poll() only evicts.
InPoll == ToSet(poll.batch) \cup ToSet(poll.flush)
QueuedItems == {i \in Item : \/ modMap[item[i].ident] = i
                            \/ i \in InPoll
                            \/ \E c \in Caller : call[c].item = i /\ call[c].pc = "queue"}

DirtyAreQueued == \A d \in Cached : item[cache[d]].status \in Dirty => cache[d] \in QueuedItems

CallersApart == OneEach /\ OwnIsCached /\ LoadedIsClean
QueueInv == CallersApart /\ ListsWorkedOff /\ StreamedIsFlushed /\ DirtyAreQueued

-----------------------------------------------------------------------------
(* What a step of a caller and one of poll() has to keep. *)

\* An Item with a call is of that call alone.
LEMMA Alone ==
    ASSUME CacheInv, OneEach, NEW c \in Caller, NEW o \in Caller,
           call[c].item # NoItem, call[o].item = call[c].item
    PROVE  o = c
<1>1. /\ Busy(c) /\ item[call[c].item].ident = call[c].ident
      /\ Busy(o) /\ item[call[o].item].ident = call[o].ident
  BY CallFacts DEF CallOK, Busy
<1> QED  BY <1>1 DEF OneEach

\* No one holds the servant that an add() or a remove() replaces, as long as no
\* two callers work on one ident.
LEMMA NobodyElseHoldsIt ==
    ASSUME CacheInv, OneEach, NEW c \in Caller,
           call[c].pc = "lock", call[c].op \in {"add", "remove"}
    PROVE  Replaced(call[c].item) = call
<1>1. PICK i : i = call[c].item
  OBVIOUS
<1>2. /\ Busy(c) /\ call[c].held = NoItem /\ i # NoItem /\ item[i].ident = call[c].ident
  BY <1>1, CallFacts DEF CallOK, Busy, HasItem
<1>3. ASSUME NEW o \in Caller, call[o].held = i
      PROVE  FALSE
  <2>1. Busy(o) /\ call[o].ident \in Ident /\ cache[call[o].ident] = i
    BY <1>2, <1>3, CallFacts DEF CallOK, Busy
  <2>2. item[i].ident = call[o].ident
    BY <1>2, <2>1, CachedItem
  <2>3. o = c
    BY <1>2, <2>1, <2>2 DEF OneEach
  <2> QED  BY <1>2, <1>3, <2>3
<1>4. \A o \in Caller : call[o].held # i
  BY <1>3
<1> QED  BY <1>1, <1>4, NobodyHeldIt

\* The bodies of add() and remove() only move their caller on, then.
LEMMA BodiesGo ==
    ASSUME IInv, QueueInv, NEW c \in Caller, NEW i, i = call[c].item
    PROVE  /\ AddBody(c) =>
                Goto(c, IF item[i].status = "destroyed" THEN "requeue" ELSE "queue")
           /\ RemoveBody(c) /\ item[i].status \notin {"destroyed", "dead"} =>
                Goto(c, IF item[i].status = "clean" THEN "queue" ELSE "requeue")
<1>1. AddBody(c) \/ RemoveBody(c) => Replaced(i) = call
  BY NobodyElseHoldsIt DEF IInv, QueueInv, CallersApart, AddBody, RemoveBody, LockItem
<1>2. AddBody(c) => Goto(c, IF item[i].status = "destroyed" THEN "requeue" ELSE "queue")
  BY <1>1, Zenon DEF AddBody, Goto
<1>3. RemoveBody(c) /\ item[i].status \notin {"destroyed", "dead"} =>
         Goto(c, IF item[i].status = "clean" THEN "queue" ELSE "requeue")
  <2> SUFFICES ASSUME RemoveBody(c), item[i].status \notin {"destroyed", "dead"}
               PROVE  Goto(c, IF item[i].status = "clean" THEN "queue" ELSE "requeue")
    OBVIOUS
  <2>1. call' = [Replaced(i) EXCEPT ![c].pc = IF item[i].status = "clean" THEN "queue" ELSE "requeue"]
    BY Zenon DEF RemoveBody
  <2> QED  BY <1>1, <2>1, Zenon DEF Goto
<1> QED  BY <1>2, <1>3

\* The calls stay apart when one of them goes on, and may put its own Item into
\* the cache.
LEMMA CallersStayApart ==
    ASSUME CacheInv, CallersApart, NEW c \in Caller, NEW r \in CallRec,
           call' = [call EXCEPT ![c] = r], Busy(c),
           r.pc # "idle" => r.ident = call[c].ident,
           \A d \in Ident \ {call[c].ident} : cache'[d] = cache[d],
           r.pc \in HasItem => cache'[r.ident] \in {NoItem, r.item},
           r.pc = "insert" /\ r.item # NoItem => item'[r.item].status \notin Dirty,
           \A j \in ByCallers : j # call[c].item => item'[j].status = item[j].status
    PROVE  CallersApart'
<1>1. \A o \in Caller : call'[o] = IF o = c THEN r ELSE call[o]
  BY DEF CacheInv, CacheTypes
<1>2. OneEach'
  BY <1>1 DEF OneEach, Busy, CallersApart
<1>3. OwnIsCached'
  <2> SUFFICES ASSUME NEW o \in Caller, call'[o].pc \in HasItem
               PROVE  cache'[call'[o].ident] \in {NoItem, call'[o].item}
    BY DEF OwnIsCached
  <2>1. CASE o = c
    BY <1>1, <2>1
  <2>2. CASE o # c
    <3>1. call'[o] = call[o] /\ call[o].ident \in Ident /\ Busy(o)
      BY <1>1, <2>2, CallFacts DEF CallOK, Busy, HasItem
    <3>2. call[o].ident # call[c].ident
      BY <2>2, <3>1 DEF OneEach, CallersApart
    <3> QED  BY <3>1, <3>2 DEF OwnIsCached, CallersApart
  <2> QED  BY <2>1, <2>2
<1>4. LoadedIsClean'
  <2> SUFFICES ASSUME NEW o \in Caller, call'[o].pc = "insert", call'[o].item # NoItem
               PROVE  item'[call'[o].item].status \notin Dirty
    BY DEF LoadedIsClean
  <2>1. CASE o = c
    BY <1>1, <2>1
  <2>2. CASE o # c
    <3>1. call'[o] = call[o]
      BY <1>1, <2>2
    <3>2. call[o].item # call[c].item
      BY <2>2, <3>1, Alone DEF CallersApart
    <3>3. call[o].item \in ByCallers
      BY <3>1 DEF ByCallers
    <3> QED  BY <3>1, <3>2, <3>3 DEF LoadedIsClean, CallersApart
  <2> QED  BY <2>1, <2>2
<1> QED  BY <1>2, <1>3, <1>4 DEF CallersApart

\* Nothing dirty is lost by a caller that changes and queues its own Item only.
LEMMA CallerKeepsDirty ==
    ASSUME CacheInv, CallersApart, DirtyAreQueued, poll' = poll,
           NEW c \in Caller, NEW r \in CallRec, call' = [call EXCEPT ![c] = r],
           NEW i, i = call[c].item,
           \A d \in Ident : cache'[d] \notin {NoItem, i} =>
               /\ cache'[d] = cache[d]
               /\ item'[cache[d]].status = item[cache[d]].status
               /\ item'[cache[d]].ident = item[cache[d]].ident
               /\ modMap'[d] = modMap[d],
           i # NoItem /\ (\E d \in Ident : cache'[d] = i) /\ item'[i].status \in Dirty
               => i \in QueuedItems'
    PROVE  DirtyAreQueued'
<1>1. \A o \in Caller : call'[o] = IF o = c THEN r ELSE call[o]
  BY DEF CacheInv, CacheTypes
<1> SUFFICES ASSUME NEW d \in Ident, cache'[d] # NoItem, item'[cache'[d]].status \in Dirty
             PROVE  cache'[d] \in QueuedItems'
  BY DEF DirtyAreQueued, Cached
<1>2. CASE cache'[d] = i
  BY <1>2
<1>3. CASE cache'[d] # i
  <2> DEFINE j == cache[d]
  <2>1. /\ cache'[d] = j /\ item'[j].ident = item[j].ident
        /\ item[j].status \in Dirty /\ modMap'[d] = modMap[d] /\ j # NoItem /\ j # i
    BY <1>3
  <2>2. j \in QueuedItems /\ item[j].ident = d
    BY <2>1, CachedItem DEF DirtyAreQueued, Cached
  <2>3. j \in Item /\ \A o \in Caller : call[o].item = j => call'[o] = call[o]
    BY <1>1, <2>1, CachedItem
  <2>4. CASE modMap[d] = j \/ j \in InPoll
    BY <2>1, <2>2, <2>4 DEF QueuedItems, InPoll
  <2>5. CASE \E o \in Caller : call[o].item = j /\ call[o].pc = "queue"
    BY <2>1, <2>3, <2>5 DEF QueuedItems
  <2> QED  BY <2>2, <2>4, <2>5 DEF QueuedItems
<1> QED  BY <1>2, <1>3

\* A step of a caller whose Item is i: at most its own Item gets another status
\* or enters the cache, and one that is dirty then is queued.
OwnStep(c, r, i) ==
    /\ call' = [call EXCEPT ![c] = r] /\ poll' = poll /\ i = call[c].item
    /\ r.pc # "idle" => r.ident = call[c].ident
    /\ r.pc \in HasItem => cache'[r.ident] \in {NoItem, r.item}
    /\ r.pc = "insert" /\ r.item # NoItem => item'[r.item].status \notin Dirty
    /\ \A d \in Ident \ {call[c].ident} : cache'[d] = cache[d]
    /\ \A j \in ByCallers : j # i => item'[j].status = item[j].status
    /\ poll.pc = "push" => item'[Head(poll.batch)].status = item[Head(poll.batch)].status
    /\ \A d \in Ident : cache'[d] \notin {NoItem, i} =>
           /\ cache'[d] = cache[d]
           /\ item'[cache[d]].status = item[cache[d]].status
           /\ item'[cache[d]].ident = item[cache[d]].ident
           /\ modMap'[d] = modMap[d]
    /\ i # NoItem /\ (\E d \in Ident : cache'[d] = i) /\ item'[i].status \in Dirty
           => i \in QueuedItems'

LEMMA CallerKeeps ==
    ASSUME CacheInv, QueueInv, NEW c \in Caller, Busy(c), NEW r \in CallRec, NEW i,
           OwnStep(c, r, i)
    PROVE  QueueInv'
<1> USE DEF OwnStep
<1>1. CallersApart'
  BY CallersStayApart DEF QueueInv
<1>2. DirtyAreQueued'
  BY CallerKeepsDirty DEF QueueInv
<1>3. ListsWorkedOff' /\ StreamedIsFlushed'
  BY DEF QueueInv, ListsWorkedOff, StreamedIsFlushed
<1> QED  BY <1>1, <1>2, <1>3 DEF QueueInv

\* A step that queues nothing, and changes neither cache nor statuses.
LEMMA CallerMoves ==
    ASSUME CacheInv, QueueInv, UNCHANGED <<poll, cache, modMap>>,
           \A j \in Item : item'[j].status = item[j].status /\ item'[j].ident = item[j].ident,
           QueueTypes,
           NEW c \in Caller, NEW r \in CallRec, call' = [call EXCEPT ![c] = r],
           NEW i, i = call[c].item,
           call[c].pc \notin {"idle", "queue"},
           r.pc # "idle" => r.ident = call[c].ident,
           r.pc \in HasItem => cache[r.ident] \in {NoItem, r.item},
           r.pc = "insert" => r.item = NoItem
    PROVE  QueueInv'
<1>1. /\ i \in Item \cup {NoItem} /\ ByCallers \subseteq Item
      /\ \A d \in Ident : cache[d] \in Item \cup {NoItem}
  BY CallFacts DEF ByCallers, CacheInv, CacheTypes
<1>2. poll.pc = "push" => Head(poll.batch) \in Item
  BY DEF QueueTypes, Named
<1>3. ASSUME i # NoItem, NEW d \in Ident, cache'[d] = i, item'[i].status \in Dirty
      PROVE  i \in QueuedItems'
  <2>1. item[i].status \in Dirty /\ cache[d] = i /\ i \in Item
    BY <1>1, <1>3
  <2>2. i \in QueuedItems
    BY <1>3, <2>1 DEF QueueInv, DirtyAreQueued, Cached
  <2>3. \A o \in Caller : call[o].pc = "queue" => call'[o] = call[o]
    BY DEF CacheInv, CacheTypes
  <2>4. CASE modMap[d] = i \/ i \in InPoll
    <3>1. item[i].ident = d
      BY <1>3, <2>1, CachedItem
    <3> QED  BY <2>1, <2>4, <3>1 DEF QueuedItems, InPoll
  <2>5. CASE \E o \in Caller : call[o].item = i /\ call[o].pc = "queue"
    BY <2>1, <2>3, <2>5 DEF QueuedItems
  <2>6. item[i].ident = d
    BY <1>3, <2>1, CachedItem
  <2> QED  BY <2>2, <2>4, <2>5, <2>6 DEF QueuedItems
<1>4. Busy(c)
  BY DEF Busy
<1>5. \A j \in ByCallers : item'[j].status = item[j].status
  BY <1>1
<1>6. \A d \in Ident : cache'[d] # NoItem =>
         /\ cache'[d] = cache[d] /\ modMap'[d] = modMap[d]
         /\ item'[cache[d]].status = item[cache[d]].status
         /\ item'[cache[d]].ident = item[cache[d]].ident
  BY <1>1
<1>7. poll.pc = "push" => item'[Head(poll.batch)].status = item[Head(poll.batch)].status
  BY <1>2
<1>8. cache' = cache /\ poll' = poll
  OBVIOUS
<1>9. OwnStep(c, r, i)
  BY <1>3, <1>5, <1>6, <1>7, <1>8 DEF OwnStep
<1> QED  BY <1>4, <1>9, CallerKeeps

\* pin() and add() make a new Item, which is not dirty.
LEMMA AllocKeepsQueued ==
    ASSUME IInv, QueueInv, UNCHANGED <<poll, cache, modMap>>, FreeItems # {},
           NEW c \in Caller, call[c].pc \in {"load", "insert"}, call[c].item = NoItem,
           NEW d, NEW st \in {"clean", "dead"}, NEW data, Alloc(d, st, data),
           NEW pc \in {"insert", "lock"}, pc = "lock" => cache[call[c].ident] = NoItem,
           call' = [call EXCEPT ![c].pc = pc, ![c].item = NewItem]
    PROVE  QueueInv'
<1> DEFINE n == NewItem
           r == [call[c] EXCEPT !.pc = pc, !.item = n]
<1>1. /\ n \in Item /\ n # NoItem /\ \A e \in Ident : cache[e] # n
      /\ \A o \in Caller : call[o].item # n
  BY NewIsFree DEF IInv
<1>2. n \in FreeItems
  BY Zenon DEF NewItem
<1>3. /\ item' = [item EXCEPT ![n] = [ident |-> d, status |-> st, data |-> data,
                                      completed |-> FALSE, orphan |-> TRUE]]
      /\ call' = [call EXCEPT ![c] = r]
  BY DEF Alloc
<1>4. poll.pc = "push" => Head(poll.batch) \in Item \ {n}
  <2>1. poll.pc = "push" => poll.batch # <<>> /\ poll.batch \in Seq(Named)
    BY DEF IInv, QueueTypes
  <2>2. poll.pc = "push" => Head(poll.batch) \in Named /\ Head(poll.batch) \in ToSet(poll.batch)
    BY <2>1, Elements
  <2> QED  BY <1>2, <2>2 DEF FreeItems, ByPoll, Named
<1> HIDE DEF n
<1>5. /\ \A j \in Item \ {n} : item'[j] = item[j]
      /\ item'[n].status = st
  BY <1>1, <1>3 DEF IInv, CacheInv, CacheTypes
<1>6. /\ r \in CallRec /\ r.pc = pc /\ r.item = n /\ r.ident = call[c].ident
  BY <1>1, CallFacts DEF IInv, CallRec
<1>7. Busy(c) /\ CacheInv
  BY DEF Busy, IInv
<1>8. \A j \in ByCallers : item'[j].status = item[j].status
  BY <1>1, <1>5, CallFacts DEF ByCallers, IInv
<1>9. \A e \in Ident : cache[e] # NoItem => item'[cache[e]] = item[cache[e]]
  BY <1>1, <1>5 DEF IInv, CacheInv, CacheTypes
<1>10. st \notin Dirty
  BY DEF Dirty
<1>11. poll.pc = "push" => item'[Head(poll.batch)].status = item[Head(poll.batch)].status
  BY <1>4, <1>5
<1> HIDE DEF r
<1>12. /\ r.pc \in HasItem => cache'[r.ident] \in {NoItem, r.item}
       /\ r.pc = "insert" /\ r.item # NoItem => item'[r.item].status \notin Dirty
  BY <1>5, <1>6, <1>10 DEF HasItem
<1>13. \A e \in Ident : cache'[e] \notin {NoItem, NoItem} =>
          /\ cache'[e] = cache[e] /\ item'[cache[e]].status = item[cache[e]].status
          /\ item'[cache[e]].ident = item[cache[e]].ident /\ modMap'[e] = modMap[e]
  BY <1>9
<1>14. OwnStep(c, r, NoItem)
  BY <1>3, <1>6, <1>8, <1>11, <1>12, <1>13 DEF OwnStep
<1> QED  BY <1>6, <1>7, <1>14, CallerKeeps

-----------------------------------------------------------------------------
(* The callers' steps. *)

\* Another caller's ident is not taken up.
LEMMA BeginKeepsQueued ==
    ASSUME CacheInv, QueueInv, ApartByRule, NEW c \in Caller, Begin(c)
    PROVE  QueueInv'
<1>1. PICK d \in Ident, op \in {"add", "remove", "locate"}, b \in BOOLEAN :
          /\ \A o \in Caller : Busy(o) => call[o].ident # d
          /\ call' = [call EXCEPT ![c] = [Idle EXCEPT !.pc = "pin", !.op = op,
                                                      !.ident = d, !.complete = b]]
  BY DEF Begin, ApartByRule, Busy
<1>2. /\ \A o \in Caller \ {c} : call'[o] = call[o]
      /\ call'[c].pc = "pin" /\ call'[c].ident = d /\ call[c].pc = "idle"
      /\ UNCHANGED <<item, cache, modMap, poll>>
  BY <1>1 DEF Begin, Idle, CacheInv, CacheTypes, cacheVars, modVars
<1>3. CallersApart'
  BY <1>1, <1>2 DEF QueueInv, CallersApart, OneEach, OwnIsCached, LoadedIsClean, Busy, HasItem
<1>4. Cached' = Cached /\ QueuedItems \subseteq QueuedItems'
  <2>1. \A o \in Caller : call[o].pc = "queue" => call'[o] = call[o]
    BY <1>2
  <2> QED  BY <1>2, <2>1 DEF Cached, QueuedItems, InPoll
<1>5. DirtyAreQueued'
  BY <1>2, <1>4 DEF QueueInv, DirtyAreQueued
<1>6. ListsWorkedOff' /\ StreamedIsFlushed'
  BY <1>2 DEF QueueInv, ListsWorkedOff, StreamedIsFlushed
<1> QED  BY <1>3, <1>5, <1>6 DEF QueueInv

\* A call that returns or goes on, with no status changed.
LEMMA ReturnKeepsQueued ==
    ASSUME IInv, QueueInv, UNCHANGED <<poll, cache, modMap, item>>,
           NEW c \in Caller, call[c].pc \notin {"idle", "queue"}, Return(c)
    PROVE  QueueInv'
<1>1. Idle \in CallRec /\ Idle.pc = "idle"
  BY IdleIsOK DEF Idle
<1> QED  BY <1>1, CallerMoves DEF IInv, Return, HasItem

LEMMA GotoKeepsQueued ==
    ASSUME IInv, QueueInv, UNCHANGED <<poll, cache, modMap, item>>,
           NEW c \in Caller, call[c].pc \notin {"idle", "queue"},
           NEW pc \in {"pin", "load", "insert", "queue", "requeue", "dirty"}, Goto(c, pc),
           pc \in HasItem => call[c].pc \in HasItem,
           pc = "insert" => call[c].item = NoItem
    PROVE  QueueInv'
<1> DEFINE r == [call[c] EXCEPT !.pc = pc]
<1>1. /\ r \in CallRec /\ r.pc = pc /\ r.ident = call[c].ident /\ r.item = call[c].item
      /\ call' = [call EXCEPT ![c] = r]
  BY CallFacts DEF IInv, CallRec, Goto
<1>2. pc \in HasItem => cache[call[c].ident] \in {NoItem, call[c].item}
  BY DEF QueueInv, CallersApart, OwnIsCached
<1> HIDE DEF r
<1> QED  BY <1>1, <1>2, CallerMoves DEF IInv

\* pin() finds the ident in the cache.
LEMMA PinnedKeepsQueued ==
    ASSUME IInv, QueueInv, NEW c \in Caller, call[c].pc \in {"pin", "insert"},
           cache[call[c].ident] # NoItem, Pinned(c, cache[call[c].ident], item),
           UNCHANGED <<poll, cache, modMap>>
    PROVE  QueueInv'
<1> DEFINE i == cache[call[c].ident]
           r == [call[c] EXCEPT !.pc = "lock", !.item = i]
<1>1. item' = item /\ (call' = [call EXCEPT ![c] = r] \/ Return(c))
  BY DEF Pinned
<1>2. i \in Item
  BY CallFacts, CachedItem DEF IInv, CallOK
<1>3. /\ r \in CallRec /\ r.pc = "lock" /\ r.ident = call[c].ident
      /\ r.item = cache[call[c].ident]
  BY <1>2, CallFacts DEF IInv, CallRec
<1> HIDE DEF r, i
<1> QED  BY <1>1, <1>3, CallerMoves, ReturnKeepsQueued DEF IInv

\* What was loaded enters the cache, where the ident is not there yet.
LEMMA InsertKeepsQueued ==
    ASSUME IInv, QueueInv, NEW c \in Caller, call[c].pc = "insert",
           NEW i, i = call[c].item, i # NoItem,
           NEW d, d = call[c].ident, cache[d] = NoItem, cache' = [cache EXCEPT ![d] = i],
           item' = [item EXCEPT ![i].orphan = FALSE],
           NEW r \in {Idle, [call[c] EXCEPT !.pc = "lock"]},
           call' = [call EXCEPT ![c] = r], UNCHANGED <<poll, modMap>>
    PROVE  QueueInv'
<1>1. /\ call[c] \in CallRec /\ i \in Item /\ d \in Ident /\ Idle \in CallRec
      /\ item \in [Item -> ItemRec] /\ cache \in [Ident -> Item \cup {NoItem}]
  BY CallFacts, IdleIsOK DEF IInv, CallOK, CacheInv, CacheTypes
<1>2. \A j \in Item : item'[j].status = item[j].status /\ item'[j].ident = item[j].ident
  BY <1>1 DEF ItemRec
<1>3. /\ r \in CallRec /\ r.pc \in {"idle", "lock"}
      /\ r.pc # "idle" => r.ident = d /\ r.item = i
  BY ZenonT(60), <1>1 DEF CallRec, Idle
<1>4. /\ cache'[d] = i /\ \A e \in Ident \ {d} : cache'[e] = cache[e]
  BY <1>1
<1>5. item'[i].status \notin Dirty
  BY <1>1, <1>2 DEF QueueInv, CallersApart, LoadedIsClean
<1>6. poll.pc = "push" => item'[Head(poll.batch)].status = item[Head(poll.batch)].status
  BY <1>2 DEF IInv, QueueTypes, Named
<1>7. \A j \in ByCallers : item'[j].status = item[j].status
  BY <1>2, CallFacts DEF IInv, ByCallers
<1>8. r.pc \in HasItem => cache'[r.ident] \in {NoItem, r.item}
  BY <1>3, <1>4 DEF HasItem
<1>9. \A e \in Ident : cache'[e] \notin {NoItem, i} =>
         /\ cache'[e] = cache[e] /\ modMap'[e] = modMap[e]
         /\ item'[cache[e]].status = item[cache[e]].status
         /\ item'[cache[e]].ident = item[cache[e]].ident
  BY <1>1, <1>2, <1>4
<1>10. OwnStep(c, r, i)
  BY <1>3, <1>4, <1>5, <1>6, <1>7, <1>8, <1>9 DEF OwnStep
<1> QED  BY <1>3, <1>10, CallerKeeps DEF IInv, Busy

\* pin().
LEMMA PinKeepsQueued ==
    ASSUME IInv, QueueInv, NEW c \in Caller, PinLookup(c) \/ PinLoad(c) \/ PinInsert(c)
    PROVE  QueueInv'
<1> DEFINE d == call[c].ident
           i == call[c].item
<1>1. CASE PinLookup(c)
  <2>1. UNCHANGED <<poll, cache, modMap>> /\ call[c].pc = "pin"
    BY <1>1 DEF PinLookup, cacheVars, modVars
  <2>2. CASE cache[d] # NoItem
    BY <1>1, <2>1, <2>2, PinnedKeepsQueued DEF PinLookup
  <2>3. CASE cache[d] = NoItem
    BY <1>1, <2>1, <2>3, GotoKeepsQueued DEF PinLookup, HasItem
  <2> QED  BY <2>2, <2>3
<1>2. CASE PinLoad(c)
  <2>1. UNCHANGED <<poll, cache, modMap>> /\ call[c].pc = "load" /\ i = NoItem
    BY <1>2, CallFacts DEF PinLoad, cacheVars, modVars, IInv, CallOK
  <2>2. ASSUME NEW pc \in {"pin", "insert"}, Goto(c, pc), UNCHANGED item
        PROVE  QueueInv'
    BY <2>1, <2>2, GotoKeepsQueued DEF HasItem
  <2>3. ASSUME NEW st \in {"clean", "dead"}, NEW data, FreeItems # {}, Alloc(d, st, data),
               call' = [call EXCEPT ![c].pc = "insert", ![c].item = NewItem]
        PROVE  QueueInv'
    BY <2>1, <2>3, AllocKeepsQueued
  <2>4. CASE \/ FreeItems # {} /\ Alloc(d, "clean", store[d])
                /\ call' = [call EXCEPT ![c].pc = "insert", ![c].item = NewItem]
             \/ FreeItems # {} /\ Alloc(d, "dead", NoData)
                /\ call' = [call EXCEPT ![c].pc = "insert", ![c].item = NewItem]
    BY <2>3, <2>4
  <2>5. CASE \E pc \in {"pin", "insert"} : Goto(c, pc) /\ UNCHANGED item
    BY <2>2, <2>5
  <2> QED  BY <1>2, <2>4, <2>5 DEF PinLoad
<1>3. CASE PinInsert(c)
  <2>1. UNCHANGED <<poll, modMap>> /\ call[c].pc = "insert"
    BY <1>3 DEF PinInsert, modVars
  <2>2. CASE cache[d] # NoItem
    <3>1. UNCHANGED cache /\ Pinned(c, cache[d], item)
      BY <1>3, <2>2 DEF PinInsert, cacheVars
    <3> QED  BY <2>1, <2>2, <3>1, PinnedKeepsQueued
  <2>3. CASE cache[d] = NoItem /\ i # NoItem
    <3>1. /\ cache' = [cache EXCEPT ![d] = i]
          /\ Pinned(c, i, [item EXCEPT ![i].orphan = FALSE])
      BY <1>3, <2>3 DEF PinInsert
    <3>2. /\ item' = [item EXCEPT ![i].orphan = FALSE]
          /\ \/ call' = [call EXCEPT ![c].pc = "lock", ![c].item = i]
             \/ call' = [call EXCEPT ![c] = Idle]
      BY <2>3, <3>1 DEF Pinned, Return
    <3>3. [call EXCEPT ![c].pc = "lock", ![c].item = i] = [call EXCEPT ![c] = [call[c] EXCEPT !.pc = "lock"]]
      <4>1. [call[c] EXCEPT !.pc = "lock", !.item = i] = [call[c] EXCEPT !.pc = "lock"]
        BY CallFacts DEF IInv, CallRec
      <4>2. [call EXCEPT ![c].pc = "lock", ![c].item = i]
              = [call EXCEPT ![c] = [call[c] EXCEPT !.pc = "lock", !.item = i]]
        BY Zenon
      <4> QED  BY <4>1, <4>2, Zenon
    <3>4. PICK r \in {Idle, [call[c] EXCEPT !.pc = "lock"]} : call' = [call EXCEPT ![c] = r]
      BY <3>2, <3>3, Zenon
    <3>5. d = call[c].ident /\ i = call[c].item
      OBVIOUS
    <3> HIDE DEF d, i
    <3> QED  BY <2>1, <2>3, <3>1, <3>2, <3>4, <3>5, InsertKeepsQueued
  <2>4. CASE cache[d] = NoItem /\ i = NoItem
    <3>1. FreeItems # {} /\ UNCHANGED cache /\ Pinned(c, NoItem, item)
      BY <1>3, <2>4 DEF PinInsert, cacheVars
    <3>2. CASE call[c].op = "add"
      <4>1. Alloc(d, "dead", NoData) /\ call' = [call EXCEPT ![c].pc = "lock", ![c].item = NewItem]
        BY <3>1, <3>2 DEF Pinned
      <4> QED  BY <2>1, <2>4, <3>1, <4>1, AllocKeepsQueued
    <3>3. CASE call[c].op # "add"
      <4>1. Return(c) /\ UNCHANGED item
        BY <3>1, <3>3 DEF Pinned
      <4> QED  BY <2>1, <3>1, <4>1, ReturnKeepsQueued
    <3> QED  BY <3>2, <3>3
  <2> QED  BY <2>2, <2>3, <2>4
<1> QED  BY <1>1, <1>2, <1>3

\* A caller gives the Item it has locked another status, or queues it.
LEMMA WriteKeepsQueued ==
    ASSUME IInv, QueueInv, NEW c \in Caller, call[c].pc \in HasItem,
           NEW i, i = call[c].item, NEW d, d = call[c].ident,
           cache' = cache, poll' = poll, poll.pc = "push" => item'[Head(poll.batch)] = item[Head(poll.batch)],
           \A j \in Item : item'[j].ident = item[j].ident,
           \A j \in Item \ {i} : item'[j].status = item[j].status,
           \A e \in Ident \ {d} : modMap'[e] = modMap[e],
           NEW r \in CallRec, call' = [call EXCEPT ![c] = r],
           r.pc \in {"idle", "queue", "requeue"},
           r.pc # "idle" => r.item = i /\ r.ident = d,
           cache[d] = i /\ item'[i].status \in Dirty => i \in QueuedItems'
    PROVE  QueueInv'
<1>1. /\ i \in Item /\ d \in Ident /\ item[i].ident = d /\ cache[d] \in {NoItem, i}
  BY CallFacts DEF IInv, CallOK, HasItem, QueueInv, CallersApart, OwnIsCached
<1>2. \A e \in Ident : cache[e] \notin {NoItem, i} => e # d /\ cache[e] \in Item
  BY <1>1 DEF IInv, CacheInv, CacheTypes
<1>3. \A e \in Ident : cache'[e] \notin {NoItem, i} =>
         /\ cache'[e] = cache[e] /\ modMap'[e] = modMap[e]
         /\ item'[cache[e]].status = item[cache[e]].status
         /\ item'[cache[e]].ident = item[cache[e]].ident
  BY <1>2
<1>4. (\E e \in Ident : cache'[e] = i) => cache[d] = i
  BY <1>1, CachedItem DEF IInv, NoItem, Item
<1>5. \A j \in ByCallers : j # i => item'[j].status = item[j].status
  BY CallFacts DEF IInv, ByCallers
<1>6. /\ r.pc \in HasItem => cache'[r.ident] \in {NoItem, r.item}
      /\ r.pc # "insert" /\ Busy(c)
  BY <1>1 DEF HasItem, Busy
<1>7. OwnStep(c, r, i)
  BY <1>3, <1>4, <1>5, <1>6 DEF OwnStep
<1> QED  BY <1>6, <1>7, CallerKeeps DEF IInv

\* An Item whose lock is free has not just been streamed.
LEMMA NotStreamed ==
    ASSUME QueueTypes, NEW i, ~ItemLocked(i), poll.pc = "push"
    PROVE  Head(poll.batch) \in Item /\ Head(poll.batch) # i
BY DEF QueueTypes, Named, ItemLocked

\* add(), remove() and locate(): an Item that gets dirty is queued next, one
\* that stays dirty is queued.
LEMMA BodyKeepsQueued ==
    ASSUME IInv, QueueInv, NEW c \in Caller, AddBody(c) \/ RemoveBody(c) \/ LocateBody(c)
    PROVE  QueueInv'
<1>1. /\ call[c].pc = "lock" /\ ~ItemLocked(call[c].item)
      /\ UNCHANGED <<cache, modMap, poll>>
  BY DEF AddBody, RemoveBody, LocateBody, LockItem, cacheVars, modVars
<1>2. PICK i : i = call[c].item
  OBVIOUS
<1>3. PICK d : d = call[c].ident
  OBVIOUS
<1>4. /\ i \in Item /\ d \in Ident /\ item[i] \in ItemRec /\ item[i].ident = d
      /\ item \in [Item -> ItemRec]
  BY <1>1, <1>2, <1>3, CallFacts DEF IInv, CallOK, HasItem, CacheInv, CacheTypes
<1>5. ASSUME NEW pc \in {"queue", "requeue"}, Goto(c, pc),
             NEW st, NEW data, item' = [item EXCEPT ![i].status = st, ![i].data = data],
             st \in Dirty => item[i].status \in Dirty \/ pc = "queue"
      PROVE  QueueInv'
  <2> DEFINE r == [call[c] EXCEPT !.pc = pc]
  <2>1. /\ r \in CallRec /\ r.pc = pc /\ r.ident = d /\ r.item = i
        /\ call' = [call EXCEPT ![c] = r]
    BY <1>2, <1>3, <1>5, CallFacts DEF IInv, CallRec, Goto
  <2> HIDE DEF r
  <2>2. /\ item'[i].status = st /\ item'[i].ident = d
        /\ \A j \in Item \ {i} : item'[j] = item[j]
    BY <1>4, <1>5 DEF ItemRec
  <2>3. cache[d] = i /\ item'[i].status \in Dirty => i \in QueuedItems'
    <3> SUFFICES ASSUME cache[d] = i, st \in Dirty  PROVE i \in QueuedItems'
      BY <2>2
    <3>1. call'[c] = r /\ \A o \in Caller \ {c} : call'[o] = call[o]
      BY <2>1 DEF IInv, CacheInv, CacheTypes
    <3>2. CASE pc = "queue"
      BY <1>4, <2>1, <3>1, <3>2 DEF QueuedItems
    <3>3. CASE item[i].status \in Dirty
      <4>1. i \in QueuedItems
        BY <1>4, <3>3 DEF QueueInv, DirtyAreQueued, Cached, NoItem, Item
      <4>2. \A o \in Caller : call[o].item = i => o = c
        BY <1>2, <1>4, Alone DEF IInv, QueueInv, CallersApart, NoItem, Item
      <4>3. modMap[d] = i \/ i \in InPoll
        BY <1>1, <1>4, <4>1, <4>2 DEF QueuedItems
      <4> QED  BY <1>1, <1>4, <2>2, <4>3 DEF QueuedItems, InPoll
    <3> QED  BY <1>5, <3>2, <3>3
  <2>4. poll.pc = "push" => item'[Head(poll.batch)] = item[Head(poll.batch)]
    BY <1>1, <1>2, <2>2, NotStreamed DEF IInv
  <2>5. /\ \A j \in Item : item'[j].ident = item[j].ident
        /\ \A j \in Item \ {i} : item'[j].status = item[j].status
    BY <1>4, <2>2
  <2>6. call[c].pc \in HasItem
    BY <1>1 DEF HasItem
  <2> HIDE <1>5
  <2> QED  BY <1>1, <1>2, <1>3, <2>1, <2>3, <2>4, <2>5, <2>6, WriteKeepsQueued
<1>6. CASE AddBody(c)
  <2> DEFINE st == IF item[i].status = "dead" THEN "created" ELSE "modified"
             pc == IF item[i].status = "destroyed" THEN "requeue" ELSE "queue"
  <2>1. /\ item' = [item EXCEPT ![i].data = written + 1, ![i].status = st] /\ Goto(c, pc)
    BY <1>2, <1>6, BodiesGo DEF AddBody
  <2>2. item' = [item EXCEPT ![i].status = st, ![i].data = written + 1]
    BY <1>4, <2>1 DEF ItemRec
  <2>3. pc \in {"queue", "requeue"} /\ (item[i].status \in Dirty \/ pc = "queue")
    BY DEF Dirty
  <2> HIDE DEF st, pc
  <2> QED  BY <1>5, <2>1, <2>2, <2>3
<1>7. CASE RemoveBody(c)
  <2>1. CASE item[i].status \in {"destroyed", "dead"}
    <3>1. Return(c) /\ UNCHANGED item
      BY <1>2, <1>7, <2>1 DEF RemoveBody
    <3> QED  BY <1>1, <3>1, ReturnKeepsQueued
  <2>2. CASE item[i].status \notin {"destroyed", "dead"}
    <3> DEFINE pc == IF item[i].status = "clean" THEN "queue" ELSE "requeue"
               st == StatusRemoved(item[i].status)
    <3>1. item' = [item EXCEPT ![i].status = st, ![i].data = NoData] /\ Goto(c, pc)
      BY <1>2, <1>7, <2>2, BodiesGo DEF RemoveBody
    <3>2. pc \in {"queue", "requeue"} /\ (item[i].status \in Dirty \/ pc = "queue")
      BY <1>4, <2>2 DEF Dirty, ItemRec, Status
    <3> HIDE DEF st, pc
    <3> QED  BY <1>5, <3>1, <3>2
  <2> QED  BY <2>1, <2>2
<1>8. CASE LocateBody(c)
  <2>1. UNCHANGED item
    BY <1>8 DEF LocateBody
  <2>2. CASE Return(c)
    BY <1>1, <2>1, <2>2, ReturnKeepsQueued
  <2>3. CASE Goto(c, "requeue")
    BY <1>1, <2>1, <2>3, GotoKeepsQueued DEF HasItem
  <2> QED  BY <1>8, <2>2, <2>3 DEF LocateBody
<1> QED  BY <1>6, <1>7, <1>8

\* _queueModified() queues the Item of the ident.
LEMMA QueueModifiedQueues ==
    ASSUME IInv, NEW i \in Item, item[i].ident \in Ident, item'[i].ident = item[i].ident,
           QueueModified(i)
    PROVE  i \in QueuedItems' /\ \A e \in Ident \ {item[i].ident} : modMap'[e] = modMap[e]
<1>1. modMap' = [modMap EXCEPT ![item[i].ident] = i] /\ modMap \in [Ident -> Named \cup {NoItem}]
  BY DEF QueueModified, IInv, QueueTypes
<1>2. modMap'[item[i].ident] = i
  BY <1>1
<1>3. i \in QueuedItems'
  BY <1>2 DEF QueuedItems
<1> QED  BY <1>1, <1>3

\* The end of the operations: the Item is queued where it has to be.
LEMMA EndKeepsQueued ==
    ASSUME IInv, QueueInv, NEW c \in Caller, EnqueueStep(c) \/ RequeueStep(c) \/ Release(c)
    PROVE  QueueInv'
<1>1. UNCHANGED <<item, cache, poll>>
  BY DEF EnqueueStep, RequeueStep, Release, cacheVars
<1>2. CASE EnqueueStep(c)
  <2>1. call[c].pc = "queue" /\ Goto(c, "requeue") /\ QueueModified(call[c].item)
    BY <1>2 DEF EnqueueStep
  <2>2. PICK i : i = call[c].item
    OBVIOUS
  <2>3. PICK d : d = call[c].ident
    OBVIOUS
  <2>4. i \in Item /\ d \in Ident /\ item[i].ident = d
    BY <2>1, <2>2, <2>3, CallFacts DEF IInv, CallOK, HasItem
  <2>5. i \in QueuedItems' /\ \A e \in Ident \ {d} : modMap'[e] = modMap[e]
    BY <1>1, <2>1, <2>2, <2>4, QueueModifiedQueues
  <2> DEFINE r == [call[c] EXCEPT !.pc = "requeue"]
  <2>6. /\ r \in CallRec /\ r.pc = "requeue" /\ r.ident = d /\ r.item = i
        /\ call' = [call EXCEPT ![c] = r]
    BY <2>1, <2>2, <2>3, CallFacts DEF IInv, CallRec, Goto
  <2> HIDE DEF r
  <2>7. call[c].pc \in HasItem
    BY <2>1 DEF HasItem
  <2> QED  BY <1>1, <2>2, <2>3, <2>5, <2>6, <2>7, WriteKeepsQueued
<1>3. CASE RequeueStep(c) \/ Release(c)
  <2>1. /\ UNCHANGED modMap /\ call[c].pc \in {"requeue", "held"}
        /\ \/ Return(c)
           \/ call' = [call EXCEPT ![c].pc = "held", ![c].item = NoItem, ![c].held = call[c].item]
    BY <1>3 DEF RequeueStep, Release, modVars
  <2>2. CASE Return(c)
    BY <1>1, <2>1, <2>2, ReturnKeepsQueued
  <2>3. CASE call' = [call EXCEPT ![c].pc = "held", ![c].item = NoItem, ![c].held = call[c].item]
    <3> DEFINE r == [call[c] EXCEPT !.pc = "held", !.item = NoItem, !.held = call[c].item]
    <3>1. /\ r \in CallRec /\ r.pc = "held" /\ r.ident = call[c].ident
          /\ call' = [call EXCEPT ![c] = r]
      BY <2>3, CallFacts DEF IInv, CallRec
    <3> HIDE DEF r
    <3>2. r.pc \notin HasItem /\ r.pc # "insert"
      BY <3>1 DEF HasItem
    <3> QED  BY <1>1, <2>1, <3>1, <3>2, CallerMoves DEF IInv
  <2> QED  BY <2>1, <2>2, <2>3
<1> QED  BY <1>2, <1>3

\* A servant is changed; setDirty() queues the Item of a clean one.
LEMMA DirtyKeepsQueued ==
    ASSUME IInv, QueueInv, NEW c \in Caller,
           ChangeServant(c) \/ SetDirtyLock(c) \/ SetDirtyBody(c)
    PROVE  QueueInv'
<1>1. /\ UNCHANGED <<cache, poll>> /\ call[c] \in CallRec /\ item \in [Item -> ItemRec]
  BY CallFacts DEF ChangeServant, SetDirtyLock, SetDirtyBody, cacheVars, IInv, CacheInv, CacheTypes
<1>2. CASE ChangeServant(c)
  <2> DEFINE r == [call[c] EXCEPT !.pc = "pin", !.op = "setDirty"]
  <2>1. /\ call[c].pc = "held" /\ UNCHANGED modMap
        /\ item' = item \/ item' = [item EXCEPT ![call[c].held].data = written + 1]
        /\ call' = [call EXCEPT ![c] = r]
    BY <1>2 DEF ChangeServant, modVars
  <2>2. /\ r \in CallRec /\ r.pc = "pin" /\ r.ident = call[c].ident
    BY <1>1 DEF CallRec
  <2>3. \A j \in Item : item'[j].status = item[j].status /\ item'[j].ident = item[j].ident
    BY <1>1, <2>1 DEF ItemRec
  <2> HIDE DEF r
  <2>4. r.pc \notin HasItem /\ r.pc # "insert"
    BY <2>2 DEF HasItem
  <2> QED  BY <1>1, <2>1, <2>2, <2>3, <2>4, CallerMoves DEF IInv
<1>3. CASE SetDirtyLock(c)
  BY <1>1, <1>3, GotoKeepsQueued DEF SetDirtyLock, HasItem, modVars
<1>4. CASE SetDirtyBody(c)
  <2>1. PICK i : i = call[c].item
    OBVIOUS
  <2>2. PICK d : d = call[c].ident
    OBVIOUS
  <2>3. /\ call[c].pc = "dirty" /\ ~ItemLocked(i) /\ Return(c)
    BY <1>4, <2>1 DEF SetDirtyBody
  <2>4. i \in Item /\ d \in Ident /\ item[i].ident = d
    BY <2>1, <2>2, <2>3, CallFacts DEF IInv, CallOK, HasItem
  <2>5. CASE item[i].status = "clean"
    <3>1. /\ item' = [item EXCEPT ![i].status = "modified", ![i].completed = call[c].complete]
          /\ QueueModified(i)
      BY <1>4, <2>1, <2>5 DEF SetDirtyBody
    <3>2. /\ \A j \in Item : item'[j].ident = item[j].ident
          /\ \A j \in Item \ {i} : item'[j] = item[j]
      BY <1>1, <3>1 DEF ItemRec
    <3>3. i \in QueuedItems' /\ \A e \in Ident \ {d} : modMap'[e] = modMap[e]
      BY <2>4, <3>1, <3>2, QueueModifiedQueues
    <3>4. poll.pc = "push" => item'[Head(poll.batch)] = item[Head(poll.batch)]
      BY <2>3, <3>2, NotStreamed DEF IInv
    <3>5. /\ Idle \in CallRec /\ Idle.pc = "idle" /\ call' = [call EXCEPT ![c] = Idle]
          /\ call[c].pc \in HasItem
      BY <2>3, IdleIsOK DEF Idle, Return, HasItem
    <3> QED  BY <1>1, <2>1, <2>2, <3>2, <3>3, <3>4, <3>5, WriteKeepsQueued
  <2>6. CASE item[i].status # "clean"
    <3>1. UNCHANGED <<item, modMap>>
      BY <1>4, <2>1, <2>6 DEF SetDirtyBody, modVars
    <3> QED  BY <1>1, <2>3, <3>1, ReturnKeepsQueued
  <2> QED  BY <2>5, <2>6
<1> QED  BY <1>2, <1>3, <1>4

-----------------------------------------------------------------------------
(* poll(). *)

\* The elements of a list that grows at its end or loses its head.
LEMMA ListElements ==
    ASSUME NEW S, NEW s \in Seq(S)
    PROVE  /\ \A x \in S : ToSet(Append(s, x)) = ToSet(s) \cup {x}
           /\ s # <<>> => ToSet(s) = ToSet(Tail(s)) \cup {Head(s)}
           /\ ToSet(<<>>) = {}
<1>1. ASSUME NEW x \in S  PROVE ToSet(Append(s, x)) = ToSet(s) \cup {x}
  <2> DEFINE t == Append(s, x)
  <2>1. /\ t \in Seq(S) /\ Len(t) = Len(s) + 1 /\ t[Len(s) + 1] = x
        /\ \A k \in 1..Len(s) : t[k] = s[k]
    OBVIOUS
  <2> HIDE DEF t
  <2>2. ToSet(t) = {t[k] : k \in 1..Len(t)} /\ ToSet(s) = {s[k] : k \in 1..Len(s)}
    BY <2>1, Elements
  <2>3. 1..Len(t) = 1..Len(s) \cup {Len(s) + 1}
    BY <2>1
  <2> QED  BY <2>1, <2>2, <2>3 DEF t
<1>2. ASSUME s # <<>>  PROVE ToSet(s) = ToSet(Tail(s)) \cup {Head(s)}
  <2> DEFINE t == Tail(s)
  <2>1. /\ t \in Seq(S) /\ Len(t) = Len(s) - 1 /\ Head(s) = s[1] /\ Len(s) >= 1
        /\ \A k \in 1..Len(t) : t[k] = s[k + 1]
    BY <1>2
  <2> HIDE DEF t
  <2>2. ToSet(t) = {t[k] : k \in 1..Len(t)} /\ ToSet(s) = {s[k] : k \in 1..Len(s)}
    BY <2>1, Elements
  <2>3. \A k \in 1..Len(s) : s[k] \in ToSet(t) \cup {Head(s)}
    <3> SUFFICES ASSUME NEW k \in 1..Len(s), k # 1  PROVE s[k] \in ToSet(t)
      BY <2>1
    <3>1. k - 1 \in 1..Len(t) /\ t[k - 1] = s[k]
      BY <2>1
    <3> QED  BY <2>2, <3>1
  <2>4. \A k \in 1..Len(t) : t[k] \in ToSet(s)
    <3> SUFFICES ASSUME NEW k \in 1..Len(t)  PROVE t[k] \in ToSet(s)
      OBVIOUS
    <3>1. k + 1 \in 1..Len(s) /\ s[k + 1] = t[k]
      BY <2>1
    <3> QED  BY <2>2, <3>1
  <2>5. Head(s) \in ToSet(s)
    BY <2>1, <2>2
  <2> QED  BY <2>2, <2>3, <2>4, <2>5 DEF t
<1>3. ToSet(<<>>) = {}
  BY DEF ToSet
<1> QED  BY <1>1, <1>2, <1>3

\* A step of poll() makes nothing dirty, brings nothing into the cache and drops
\* nothing dirty from the queue and its lists.
PollSteps ==
    /\ call' = call
    /\ \A d \in Ident : cache'[d] \in {NoItem, cache[d]}
    /\ \A j \in Item : item'[j].ident = item[j].ident
    /\ \A j \in Item : item'[j].status \in Dirty => item[j].status \in Dirty
    /\ \A j \in QueuedItems :
          ~item[j].orphan /\ item'[j].status \in Dirty => j \in QueuedItems'

LEMMA PollKeepsDirty ==
    ASSUME IInv, QueueInv, PollSteps
    PROVE  CallersApart' /\ DirtyAreQueued'
<1> USE DEF IInv, QueueInv, CallersApart, PollSteps
<1>1. \A c \in Caller : call[c].item \in Item \cup {NoItem} /\ (call[c].pc # "idle" => call[c].ident \in Ident)
  BY CallFacts DEF CallOK
<1>2. OneEach' /\ LoadedIsClean'
  BY <1>1 DEF OneEach, Busy, LoadedIsClean
<1>3. OwnIsCached'
  BY <1>1 DEF OwnIsCached, HasItem
<1>4. DirtyAreQueued'
  <2> SUFFICES ASSUME NEW d \in Ident, cache'[d] # NoItem, item'[cache'[d]].status \in Dirty
               PROVE  cache'[d] \in QueuedItems'
    BY DEF DirtyAreQueued, Cached
  <2>1. cache'[d] = cache[d] /\ cache[d] \in Item /\ ~item[cache[d]].orphan
    BY CachedItem
  <2>2. item[cache[d]].status \in Dirty /\ cache[d] \in QueuedItems
    BY <2>1 DEF DirtyAreQueued, Cached
  <2> QED  BY <2>1, <2>2
<1> QED  BY <1>2, <1>3, <1>4

\* What is left to poll() itself of the queue and its lists.
LEMMA PollHolds ==
    ASSUME IInv, QueueInv, call' = call,
           \A d \in Ident : cache'[d] \in {NoItem, cache[d]},
           \A j \in Item : item'[j].ident = item[j].ident,
           \A j \in Item : item'[j].status \in Dirty => item[j].status \in Dirty,
           \A j \in Item :
               (~item[j].orphan /\ item'[j].status \in Dirty)
               => /\ (modMap[item[j].ident] = j => modMap'[item[j].ident] = j \/ j \in InPoll')
                  /\ (j \in InPoll => j \in InPoll'),
           ListsWorkedOff', StreamedIsFlushed'
    PROVE  QueueInv'
<1>1. ASSUME NEW j \in QueuedItems, ~item[j].orphan, item'[j].status \in Dirty
      PROVE  j \in QueuedItems'
  <2>1. j \in Item /\ item'[j].ident = item[j].ident
    BY DEF QueuedItems
  <2>2. CASE modMap[item[j].ident] = j \/ j \in InPoll
    BY <1>1, <2>1, <2>2 DEF QueuedItems
  <2>3. CASE \E c \in Caller : call[c].item = j /\ call[c].pc = "queue"
    BY <2>1, <2>3 DEF QueuedItems
  <2> QED  BY <2>2, <2>3 DEF QueuedItems
<1>2. PollSteps
  BY <1>1 DEF PollSteps
<1> QED  BY <1>2, PollKeepsDirty DEF QueueInv

\* poll()'s locals.
LEMMA PollFacts ==
    ASSUME IInv, QueueInv
    PROVE  /\ poll.batch \in Seq(Item) /\ poll.flush \in Seq(Item) /\ poll.dead \in Seq(Item)
           /\ poll.pc = "push" => poll.batch # <<>>
           /\ poll.batch # <<>> => Head(poll.batch) \in Item /\ Tail(poll.batch) \in Seq(Item)
           /\ poll.reque = <<>> /\ item \in [Item -> ItemRec]
<1>1. /\ poll.batch \in Seq(Named) /\ poll.flush \in Seq(Item) /\ poll.dead \in Seq(Item)
      /\ Named \subseteq Item
  BY DEF IInv, QueueTypes, Named
<1>2. poll.batch \in Seq(Item)
  BY <1>1, SeqMonotonic
<1> QED  BY <1>1, <1>2 DEF IInv, QueueTypes, QueueInv, ListsWorkedOff, CacheInv, CacheTypes

\* A step that leaves the lists that matter, and what is queued.
LEMMA PollKeepsLists ==
    ASSUME IInv, QueueInv, UNCHANGED <<call, modMap>>,
           poll'.batch = poll.batch, poll'.flush = poll.flush, poll'.reque = poll.reque,
           poll'.pc # "push", poll'.pc \notin {"pop", "stream"} => poll.batch = <<>>,
           poll'.pc \in {"idle", "size"} => poll.flush = <<>>,
           \A d \in Ident : cache'[d] \in {NoItem, cache[d]},
           \A j \in Item : item'[j].ident = item[j].ident /\ item'[j].status = item[j].status
    PROVE  QueueInv'
<1>1. InPoll' = InPoll
  BY DEF InPoll
<1>2. ListsWorkedOff' /\ StreamedIsFlushed'
  BY DEF QueueInv, ListsWorkedOff, StreamedIsFlushed
<1> QED  BY <1>1, <1>2, PollHolds

LEMMA PollKeepsQueued ==
    ASSUME IInv, QueueInv, ~CompletedOnly, PollStep
    PROVE  QueueInv'
<1>1. /\ poll.batch \in Seq(Item) /\ poll.flush \in Seq(Item) /\ poll.dead \in Seq(Item)
      /\ poll.pc = "push" => poll.batch # <<>>
      /\ poll.batch # <<>> => Head(poll.batch) \in Item /\ Tail(poll.batch) \in Seq(Item)
      /\ poll.reque = <<>> /\ item \in [Item -> ItemRec]
  BY PollFacts
<1>2. /\ poll.pc \notin {"pop", "stream", "push"} => poll.batch = <<>>
      /\ poll.pc \in {"idle", "size"} => poll.flush = <<>>
  BY DEF QueueInv, ListsWorkedOff
<1> DEFINE PollRec == [pc : {"idle", "pop", "stream", "push", "take", "save", "dead",
                             "flush", "size"},
                       flushAll : BOOLEAN, batch : Seq(Named), dead : Seq(Item),
                       flush : Seq(Item), reque : Seq(Named), saving : Seq(Stream)]
<1>3. poll \in PollRec
  BY DEF IInv, QueueTypes
<1>4. /\ cache \in [Ident -> Item \cup {NoItem}]
      /\ modMap \in [Ident -> Named \cup {NoItem}] /\ modQueue \in Seq(Ident)
  BY DEF IInv, QueueTypes, CacheInv, CacheTypes
<1>5. CASE PollBegins \/ PollReturns
  <2>1. /\ poll'.batch = <<>> /\ poll'.flush = <<>> /\ poll'.reque = <<>>
        /\ poll'.pc \in {"pop", "idle"} /\ poll.pc \in {"idle", "size"}
        /\ UNCHANGED <<call, modMap, cache, item>>
    <3>1. CASE PollBegins
      BY <3>1 DEF PollBegins, PollIdle, modVars
    <3>2. CASE PollReturns
      BY <3>2 DEF PollReturns, PollIdle, modVars, cacheVars
    <3> QED  BY <1>5, <3>1, <3>2
  <2> QED  BY <1>1, <1>2, <2>1, PollKeepsLists
<1>6. CASE PopDone \/ SaveReturns \/ DeadDone \/ FlushDone
  <2>1. /\ poll' = [poll EXCEPT !.pc = poll'.pc]
        /\ \/ poll.pc = "pop" /\ poll'.pc = "stream"
           \/ poll.pc = "save" /\ poll'.pc = "dead"
           \/ poll.pc = "dead" /\ poll'.pc = "flush"
           \/ poll.pc = "flush" /\ poll'.pc = "size" /\ poll.flush = <<>>
        /\ UNCHANGED <<call, modMap, cache, item>>
    BY <1>3, <1>6 DEF PopDone, SaveReturns, DeadDone, FlushDone, PollGoto, modVars, cacheVars
  <2>2. poll'.batch = poll.batch /\ poll'.flush = poll.flush /\ poll'.reque = poll.reque
    BY <1>3, <2>1
  <2> QED  BY <1>1, <1>2, <2>1, <2>2, PollKeepsLists
<1>7. CASE TakeStreamed \/ SaveOne
  <2>1. PICK s : poll' = [poll EXCEPT !.pc = "save", !.saving = s]
    <3>1. CASE TakeStreamed
      BY <3>1, Zenon DEF TakeStreamed
    <3>2. CASE SaveOne
      <4>1. poll = [poll EXCEPT !.pc = "save"]
        BY <1>3, <3>2 DEF SaveOne
      <4>2. [poll EXCEPT !.saving = Tail(poll.saving)]
              = [poll EXCEPT !.pc = "save", !.saving = Tail(poll.saving)]
        BY <1>3, <4>1
      <4>3. poll' = [poll EXCEPT !.saving = Tail(poll.saving)]
        BY <3>2, Zenon DEF SaveOne
      <4> QED  BY <4>2, <4>3
    <3> QED  BY <1>7, <3>1, <3>2
  <2>2. /\ UNCHANGED <<call, modMap, cache, item>> /\ poll.pc \in {"take", "save"}
    BY <1>7 DEF TakeStreamed, SaveOne, modVars, cacheVars
  <2>3. /\ poll'.batch = poll.batch /\ poll'.flush = poll.flush /\ poll'.reque = poll.reque
        /\ poll'.pc = "save"
    BY <1>3, <2>1
  <2> QED  BY <1>1, <1>2, <2>2, <2>3, PollKeepsLists
<1>8. CASE EvictDead \/ EvictOldest
  <2>1. /\ UNCHANGED <<call, modMap>> /\ poll.pc \in {"dead", "size"}
        /\ \/ UNCHANGED <<item, cache>>
           \/ \E i : /\ item' = [item EXCEPT ![i].orphan = TRUE]
                    /\ cache' = [cache EXCEPT ![item[i].ident] = NoItem]
    BY <1>8, Zenon DEF EvictDead, EvictOldest, Evict, modVars, cacheVars
  <2>2. poll'.batch = poll.batch /\ poll'.flush = poll.flush /\ poll'.reque = poll.reque /\ poll'.pc = poll.pc
    BY <1>3, <1>8 DEF EvictDead, EvictOldest
  <2>3. /\ \A j \in Item : item'[j].ident = item[j].ident /\ item'[j].status = item[j].status
        /\ \A d \in Ident : cache'[d] \in {NoItem, cache[d]}
    <3>1. ASSUME NEW i, item' = [item EXCEPT ![i].orphan = TRUE]
          PROVE  \A j \in Item : item'[j].ident = item[j].ident /\ item'[j].status = item[j].status
      BY <1>1, <3>1 DEF ItemRec
    <3>2. ASSUME NEW e, cache' = [cache EXCEPT ![e] = NoItem]
          PROVE  \A d \in Ident : cache'[d] \in {NoItem, cache[d]}
      BY <1>4, <3>2
    <3>3. CASE UNCHANGED <<item, cache>>
      BY <3>3
    <3> QED  BY <2>1, <3>1, <3>2, <3>3
  <2> QED  BY <1>1, <1>2, <2>1, <2>2, <2>3, PollKeepsLists
<1>9. CASE RequeueIncomplete
  <2>1. /\ UNCHANGED <<call, cache, item>> /\ poll.batch = <<>>
        /\ poll' = [poll EXCEPT !.pc = "take", !.reque = <<>>]
        /\ modMap' = [d \in Ident |-> modMap[d]]
    BY <1>1, <1>9 DEF RequeueIncomplete, cacheVars
  <2>2. /\ modMap' = modMap /\ poll'.batch = poll.batch /\ poll'.flush = poll.flush
        /\ poll'.reque = poll.reque /\ poll'.pc = "take"
    BY <1>1, <1>3, <1>4, <2>1
  <2> QED  BY <2>1, <2>2, PollKeepsLists
<1>10. CASE PopModified
  <2> DEFINE d == Head(modQueue)
             j == modMap[d]
  <2>1. /\ d \in Ident /\ j \in Item \cup {NoItem} /\ poll.pc = "pop"
        /\ UNCHANGED <<call, cache, item>> /\ modMap' = [modMap EXCEPT ![d] = NoItem]
    BY <1>4, <1>10 DEF PopModified, PopsMore, Named, cacheVars
  <2>2. poll' = IF j = NoItem THEN poll ELSE [poll EXCEPT !.batch = Append(poll.batch, j)]
    BY <1>10 DEF PopModified
  <2> HIDE DEF j, d
  <2>3. /\ poll'.flush = poll.flush /\ poll'.reque = poll.reque /\ poll'.pc = poll.pc
        /\ poll'.batch = IF j = NoItem THEN poll.batch ELSE Append(poll.batch, j)
    BY <1>3, <2>2
  <2>4. InPoll' = InPoll \cup ({j} \ {NoItem})
    BY <1>1, <2>1, <2>3, ListElements DEF InPoll
  <2>5. \A k \in Item : modMap[item[k].ident] = k => modMap'[item[k].ident] = k \/ k \in InPoll'
    <3> SUFFICES ASSUME NEW k \in Item, modMap[item[k].ident] = k
                 PROVE  modMap'[item[k].ident] = k \/ k \in InPoll'
      OBVIOUS
    <3>1. CASE item[k].ident = d
      BY <2>4, <3>1 DEF j, Item, NoItem
    <3>2. CASE item[k].ident # d
      BY <1>4, <2>1, <3>2
    <3> QED  BY <3>1, <3>2
  <2>6. ListsWorkedOff' /\ StreamedIsFlushed'
    BY <1>1, <2>1, <2>3 DEF ListsWorkedOff, StreamedIsFlushed
  <2> QED  BY <2>1, <2>4, <2>5, <2>6, PollHolds
<1>11. CASE StreamItem
  <2> DEFINE i == Head(poll.batch)
  <2>1. /\ poll.pc = "stream" /\ poll.batch # <<>> /\ i \in Item
        /\ UNCHANGED <<call, cache, modMap>>
    BY <1>1, <1>11 DEF StreamItem, cacheVars, modVars
  <2>2. ToSet(poll.batch) = ToSet(Tail(poll.batch)) \cup {i}
    BY <1>1, <2>1, ListElements
  <2>3. ASSUME NEW q, q.batch = poll.batch, q.flush = poll.flush \/ q.flush = Append(poll.flush, i),
               q.reque = <<>>, q.pc = "stream",
               poll'.flush = q.flush, poll'.reque = q.reque,
               \/ poll'.pc = "push" /\ poll'.batch = q.batch
               \/ poll'.pc = "stream" /\ poll'.batch = Tail(q.batch),
               \A k \in Item : item'[k].ident = item[k].ident,
               \A k \in Item \ {i} : item'[k].status = item[k].status,
               item'[i].status \in Dirty => item'[i].status = item[i].status /\ q.flush = Append(poll.flush, i)
        PROVE  QueueInv'
    <3>1. ToSet(q.flush) = ToSet(poll.flush) \/ ToSet(q.flush) = ToSet(poll.flush) \cup {i}
      <4>1. ToSet(Append(poll.flush, i)) = ToSet(poll.flush) \cup {i}
        BY <1>1, <2>1, ListElements
      <4> HIDE DEF i
      <4> QED  BY <2>3, <4>1
    <3>2. \A k \in Item : item'[k].status \in Dirty /\ k \in InPoll => k \in InPoll'
      <4>1. ToSet(Append(poll.flush, i)) = ToSet(poll.flush) \cup {i}
        BY <1>1, <2>1, ListElements
      <4> HIDE DEF i
      <4> QED  BY <2>1, <2>2, <2>3, <3>1, <4>1 DEF InPoll
    <3>3. ListsWorkedOff' /\ StreamedIsFlushed'
      <4>1. ToSet(Append(poll.flush, i)) = ToSet(poll.flush) \cup {i}
        BY <1>1, <2>1, ListElements
      <4> QED  BY <2>1, <2>3, <4>1 DEF ListsWorkedOff, StreamedIsFlushed
    <3>4. \A k \in Item : item'[k].status \in Dirty => item[k].status \in Dirty
      BY <2>1, <2>3
    <3>5. \A e \in Ident : cache'[e] \in {NoItem, cache[e]}
      BY <2>1
    <3> HIDE <2>3
    <3> HIDE DEF i
    <3>6. call' = call /\ modMap' = modMap
      BY <2>1
    <3>7. \A k \in Item : item'[k].ident = item[k].ident
      BY <2>3
    <3> QED  BY <3>2, <3>3, <3>4, <3>5, <3>6, <3>7, PollHolds
  <2>4. CASE StreamDirty(i)
    <3> DEFINE q == [poll EXCEPT !.flush = Append(poll.flush, i)]
    <3>1. /\ item' = item
          /\ poll' = [q EXCEPT !.pc = "push"] \/ poll' = [q EXCEPT !.batch = Tail(q.batch)]
      BY <2>4 DEF StreamDirty, Streamed, Unstreamed
    <3>2. /\ q.batch = poll.batch /\ q.flush = Append(poll.flush, i) /\ q.reque = <<>>
          /\ q.pc = "stream" /\ poll'.flush = q.flush /\ poll'.reque = q.reque
          /\ \/ poll'.pc = "push" /\ poll'.batch = q.batch
             \/ poll'.pc = "stream" /\ poll'.batch = Tail(q.batch)
      BY <1>1, <1>3, <2>1, <3>1
    <3> HIDE DEF q, i
    <3> QED  BY <2>3, <3>1, <3>2
  <2>5. CASE StreamDestroyed(i)
    <3> DEFINE q == [poll EXCEPT !.dead = Append(poll.dead, i)]
    <3>1. /\ item' = [item EXCEPT ![i].status = "dead"]
          /\ poll' = [q EXCEPT !.pc = "push"]
      BY <2>5 DEF StreamDestroyed, Streamed
    <3>2. /\ q.batch = poll.batch /\ q.flush = poll.flush /\ q.reque = <<>>
          /\ q.pc = "stream" /\ poll'.flush = q.flush /\ poll'.reque = q.reque
          /\ poll'.pc = "push" /\ poll'.batch = q.batch
      BY <1>1, <1>3, <2>1, <3>1
    <3> HIDE DEF q, i
    <3>3. /\ \A k \in Item : item'[k].ident = item[k].ident
          /\ \A k \in Item \ {i} : item'[k].status = item[k].status
          /\ item'[i].status \notin Dirty
      BY <1>1, <2>1, <3>1 DEF ItemRec, Dirty
    <3> QED  BY <2>3, <3>2, <3>3
  <2>6. CASE /\ item[i].status \in {"dead", "clean"} /\ UNCHANGED item
             /\ \/ poll' = Unstreamed([poll EXCEPT !.dead = Append(@, i)])
                \/ poll' = Unstreamed(poll)
    <3>1. PICK q : /\ q = [poll EXCEPT !.dead = Append(poll.dead, i)] \/ q = poll
                   /\ poll' = [q EXCEPT !.batch = Tail(q.batch)]
      BY <2>6 DEF Unstreamed
    <3>2. /\ q.batch = poll.batch /\ q.flush = poll.flush /\ q.reque = <<>>
          /\ q.pc = "stream" /\ poll'.flush = q.flush /\ poll'.reque = q.reque
          /\ poll'.pc = "stream" /\ poll'.batch = Tail(q.batch)
      BY <1>1, <1>3, <2>1, <3>1
    <3>3. item'[i].status \notin Dirty
      BY <2>6 DEF Dirty
    <3> HIDE DEF i
    <3> QED  BY <2>3, <2>6, <3>2, <3>3
  <2> HIDE <2>3
  <2> QED  BY <1>11, <2>4, <2>5, <2>6 DEF StreamItem
<1>12. CASE PushStreamed
  <2> DEFINE i == Head(poll.batch)
  <2>1. /\ poll.pc = "push" /\ poll.batch # <<>> /\ i \in Item
        /\ UNCHANGED <<call, cache, modMap, item>>
        /\ poll' = [poll EXCEPT !.pc = "stream", !.batch = Tail(poll.batch)]
    BY <1>1, <1>12 DEF PushStreamed, cacheVars, modVars
  <2>2. ToSet(poll.batch) = ToSet(Tail(poll.batch)) \cup {i}
    BY <1>1, <2>1, ListElements
  <2>3. i \in ToSet(poll.flush) \/ item[i].status \notin Dirty
    BY <2>1 DEF QueueInv, StreamedIsFlushed
  <2>4. /\ poll'.batch = Tail(poll.batch) /\ poll'.flush = poll.flush /\ poll'.reque = <<>>
        /\ poll'.pc = "stream"
    BY <1>1, <1>3, <2>1
  <2> HIDE DEF i
  <2>5. \A k \in Item : item'[k].status \in Dirty /\ k \in InPoll => k \in InPoll'
    BY <2>1, <2>2, <2>3, <2>4 DEF InPoll
  <2>6. ListsWorkedOff' /\ StreamedIsFlushed'
    BY <2>4 DEF ListsWorkedOff, StreamedIsFlushed
  <2> QED  BY <2>1, <2>5, <2>6, PollHolds
<1>13. CASE FlushItem
  <2> DEFINE i == Head(poll.flush)
  <2>1. /\ poll.pc = "flush" /\ poll.flush # <<>> /\ i \in Item
        /\ UNCHANGED <<call, cache, modMap>>
        /\ poll' = [poll EXCEPT !.flush = Tail(poll.flush)]
        /\ item' = IF item[i].orphan THEN item ELSE [item EXCEPT ![i].status = "clean"]
    BY <1>1, <1>13 DEF FlushItem, cacheVars, modVars
  <2>2. ToSet(poll.flush) = ToSet(Tail(poll.flush)) \cup {i}
    BY <1>1, <2>1, ListElements
  <2>3. /\ poll'.flush = Tail(poll.flush) /\ poll'.batch = poll.batch /\ poll'.reque = <<>>
        /\ poll'.pc = "flush" /\ poll.batch = <<>>
    BY <1>1, <1>2, <1>3, <2>1
  <2> HIDE DEF i
  <2>4. /\ \A k \in Item : item'[k].ident = item[k].ident
        /\ \A k \in Item : item'[k].status \in Dirty => item[k].status \in Dirty
        /\ ~item[i].orphan => item'[i].status \notin Dirty
    BY <1>1, <2>1 DEF ItemRec, Dirty
  <2>5. \A k \in Item : ~item[k].orphan /\ item'[k].status \in Dirty /\ k \in InPoll => k \in InPoll'
    BY <2>2, <2>3, <2>4 DEF InPoll
  <2>6. ListsWorkedOff' /\ StreamedIsFlushed'
    BY <2>3 DEF ListsWorkedOff, StreamedIsFlushed
  <2> QED  BY <2>1, <2>4, <2>5, <2>6, PollHolds
<1> QED  BY <1>5, <1>6, <1>7, <1>8, <1>9, <1>10, <1>11, <1>12, <1>13 DEF PollStep

-----------------------------------------------------------------------------
(* The theorem. *)

LEMMA InitQueued == Init => QueueInv
<1> SUFFICES ASSUME Init  PROVE QueueInv
  OBVIOUS
<1>1. CallersApart
  BY DEF Init, Idle, CallersApart, OneEach, OwnIsCached, LoadedIsClean, Busy, HasItem
<1>2. ListsWorkedOff /\ StreamedIsFlushed
  BY DEF Init, PollIdle, ListsWorkedOff, StreamedIsFlushed
<1>3. DirtyAreQueued
  BY DEF Init, DirtyAreQueued, Cached
<1> QED  BY <1>1, <1>2, <1>3 DEF QueueInv

LEMMA StepQueued ==
    ASSUME ApartByRule, ~CompletedOnly
    PROVE  IInv /\ QueueInv /\ [Next]_vars => QueueInv'
<1> SUFFICES ASSUME IInv, QueueInv, [Next]_vars  PROVE QueueInv'
  OBVIOUS
<1>1. CASE UNCHANGED vars \/ Finished
  <2>1. UNCHANGED <<item, cache, modMap, call, poll>>
    BY <1>1 DEF Finished, vars, cacheVars, modVars
  <2>2. CallersApart' /\ ListsWorkedOff' /\ StreamedIsFlushed'
    BY <2>1 DEF QueueInv, CallersApart, OneEach, OwnIsCached, LoadedIsClean, Busy,
       ListsWorkedOff, StreamedIsFlushed
  <2>3. Cached' = Cached /\ QueuedItems' = QueuedItems
    BY <2>1 DEF Cached, QueuedItems, InPoll
  <2>4. DirtyAreQueued'
    BY <2>1, <2>3 DEF QueueInv, DirtyAreQueued
  <2> QED  BY <2>2, <2>4 DEF QueueInv
<1>2. CASE PollStep
  BY <1>2, PollKeepsQueued
<1>3. ASSUME NEW c \in Caller, Begin(c) \/ CallStep(c)
      PROVE  QueueInv'
  <2>1. CASE Begin(c)
    BY <2>1, BeginKeepsQueued DEF IInv
  <2>2. CASE CallStep(c)
    BY <2>2, PinKeepsQueued, BodyKeepsQueued, EndKeepsQueued, DirtyKeepsQueued DEF CallStep
  <2> QED  BY <1>3, <2>1, <2>2
<1> QED  BY <1>1, <1>2, <1>3 DEF Next

\* What add(), remove() and setDirty() count on when they do not queue an Item
\* that is dirty already, and what nobody would ever save otherwise: it is on the
\* queue or in the hands of poll(), whatever fails. It takes callers that do not
\* work on one ident at a time, and FLG_SAVE_COMPLETED_ONLY not to be set.
THEOREM DirtyStaysQueued ==
    ASSUME ApartByRule, ~CompletedOnly
    PROVE  Spec => []DirtyIsQueued
<1>1. IInv /\ QueueInv => DirtyIsQueued
  <2> SUFFICES ASSUME IInv, QueueInv, NEW d \in Cached, item[cache[d]].status \in Dirty
               PROVE  \/ modMap[d] = cache[d]
                      \/ cache[d] \in ByPoll
                      \/ \E c \in Caller : call[c].item = cache[d] /\ call[c].pc = "queue"
    BY DEF DirtyIsQueued
  <2>1. cache[d] \in QueuedItems /\ item[cache[d]].ident = d
    BY CachedItem DEF IInv, QueueInv, DirtyAreQueued, Cached
  <2> QED  BY <2>1 DEF QueuedItems, InPoll, ByPoll
<1>2. Spec => [](IInv /\ QueueInv)
  BY InitIInv, InitQueued, StepIInv, StepQueued, PTL DEF Spec
<1> QED  BY <1>1, <1>2, PTL

-----------------------------------------------------------------------------
(* Calls one at a time, and nothing fails.                                   *)

Sequential == Rule("serialised") /\ Faults = {} /\ ~CompletedOnly

OneCall ==
    /\ \A c, e \in Caller : Busy(c) /\ Busy(e) => c = e
    /\ \A c \in Caller : Busy(c) => poll.pc = "idle"
    /\ \A c \in Caller : ~Busy(c) => call[c] = Idle

\* The streams on their way to the store, and the Items poll() has taken out of
\* its batch and put on its lists.
Streams == ToSet(poll.saving) \cup ToSet(streamed)
Touched == ToSet(poll.flush) \cup ToSet(poll.dead)
Handled == Touched \ ToSet(poll.batch)

\* poll() comes back with its lists worked off: it streams no more than it saves.
Phases ==
    /\ poll.pc \notin {"stream", "push", "take"} => streamed = <<>>
    /\ poll.pc # "save" => poll.saving = <<>>
    /\ poll.pc = "pop" => poll.flush = <<>>
    /\ poll.pc \in {"idle", "pop", "flush", "size"} => poll.dead = <<>>
    /\ ~poll.flushAll => Len(poll.batch) + Len(streamed) <= BatchSize
    /\ poll.pc = "push" => /\ item[Head(poll.batch)].status \in {"created", "modified", "dead"}
                           /\ Head(poll.batch) \in Touched

\* i is the one Item of d that is not stored: no other is cached, and if it is an
\* orphan that add() made, the store has nothing of d.
Owns(i, d) ==
    /\ item[i].ident = d /\ cache[d] \in {NoItem, i}
    /\ cache[d] = NoItem => store[d] = NoData
    /\ \A e \in Streams : e.ident # d

QueueOwns == \A d \in Ident :
    modMap[d] # NoItem =>
        /\ Owns(modMap[d], d)
        /\ \A i \in ToSet(poll.batch) \cup Touched : item[i].ident # d

\* The batch has each ident once, and of what poll() has handled none.
BatchOwns ==
    /\ \A j, k \in DOMAIN poll.batch :
          item[poll.batch[j]].ident = item[poll.batch[k]].ident => j = k
    /\ \A i \in ToSet(poll.batch) :
          /\ Owns(i, item[i].ident)
          /\ \A j \in Touched : item[j].ident = item[i].ident
                                => poll.pc = "push" /\ j = i /\ i = Head(poll.batch)

\* What was streamed is in the streams or in the store.
HandledIsSaved == \A i \in Handled :
    /\ item[i].ident \in Ident
    /\ \A e \in Streams : e.ident = item[i].ident => e.data = item[i].data
    /\ store[item[i].ident] = item[i].data \/ \E e \in Streams : e.ident = item[i].ident

\* The streams of an ident agree, and a cached Item of it waits to be flushed.
StreamsAgree ==
    /\ \A e, f \in Streams : e.ident = f.ident => e.data = f.data
    /\ \A e \in Streams : cache[e.ident] # NoItem =>
          cache[e.ident] \in Handled /\ item[cache[e.ident]].status # "clean"

\* The application changes the servant and is on its way to setDirty().
Changing(i) == \E c \in Caller : call[c].op = "setDirty" /\ call[c].held = i

LiveItems ==
    ({cache[d] : d \in Ident} \cup {modMap[d] : d \in Ident} \cup {call[c].item : c \in Caller}
     \cup ToSet(poll.batch)) \ {NoItem}

\* What the status of an Item says of the store.
StatusIsTrue ==
    /\ \A i \in ToSet(poll.dead) : item[i].status = "dead"
    /\ \A i \in LiveItems :
          /\ i \notin Touched /\ item[i].status \in {"created", "dead"} => store[item[i].ident] = NoData
          /\ item[i].status = "clean" /\ ~Changing(i) => store[item[i].ident] = item[i].data

\* The operation under way.
CallIsTrue(r) ==
    LET d == r.ident IN
    /\ r.pc \in {"load", "insert"} => cache[d] = NoItem
    /\ r.pc = "insert" => IF r.item = NoItem THEN store[d] = NoData
                          ELSE item[r.item].status = "clean" /\ store[d] # NoData
    /\ r.pc \in HasItem /\ cache[d] = NoItem => store[d] = NoData
    /\ r.pc = "lock" /\ cache[d] = NoItem => r.op = "add" /\ item[r.item].status = "dead"
    /\ r.pc = "queue" => r.op \in {"add", "remove"}
    /\ r.pc = "held" => r.op = "locate"
    /\ r.pc = "dirty" => r.op = "setDirty"
    /\ r.op = "setDirty" => r.pc \in {"pin", "lock", "dirty"}
    /\ r.pc = "held" \/ r.op = "setDirty" =>
          r.held # NoItem /\ cache[d] = r.held /\ item[r.held].data # NoData
    /\ r.pc # "held" /\ r.op # "setDirty" => r.held = NoItem
    /\ r.pc \in HasItem /\ r.op = "locate" => item[r.item].data # NoData

CallsAreTrue == \A c \in Caller : CallIsTrue(call[c])

StoreInv ==
    /\ OneCall /\ Phases /\ QueueOwns /\ BatchOwns /\ HandledIsSaved /\ StreamsAgree
    /\ StatusIsTrue /\ CallsAreTrue

-----------------------------------------------------------------------------
(* The callers' steps. *)

\* QueueOwns and StatusIsTrue while poll() is idle: mm, it, ca are the values of
\* modMap, item and cache, r is the call under way.
Owned(mm, it, ca) == \A d \in Ident :
    mm[d] # NoItem => /\ it[mm[d]].ident = d /\ ca[d] \in {NoItem, mm[d]}
                      /\ ca[d] = NoItem => store[d] = NoData

TrueItem(i, it, r) ==
    /\ it[i].status \in {"created", "dead"} => store[it[i].ident] = NoData
    /\ it[i].status = "clean" /\ ~(r.op = "setDirty" /\ r.held = i) => store[it[i].ident] = it[i].data

TrueItems(mm, it, ca, r) == \A i \in Item :
    (\E d \in Ident : ca[d] = i \/ mm[d] = i) \/ r.item = i => TrueItem(i, it, r)

\* poll() is idle and c is the caller that works.
AtWork(c) == poll.pc = "idle" /\ \A o \in Caller : o # c => ~Busy(o)

LEMMA BusyIsAtWork == StoreInv => \A c \in Caller : Busy(c) => AtWork(c)
BY DEF StoreInv, OneCall, AtWork

\* What a caller knows.
LEMMA CallerKnows ==
    ASSUME IInv, QueueInv, StoreInv, NEW c \in Caller, AtWork(c)
    PROVE  /\ Owned(modMap, item, cache) /\ TrueItems(modMap, item, cache, call[c])
           /\ CallIsTrue(call[c]) /\ CallOK(call[c]) /\ call[c] \in CallRec
           /\ \A o \in Caller : o # c => call[o] = Idle
           /\ poll.batch = <<>> /\ Touched = {} /\ Streams = {} /\ poll.flush = <<>>
           /\ modMap \in [Ident -> Item \cup {NoItem}] /\ cache \in [Ident -> Item \cup {NoItem}]
           /\ item \in [Item -> ItemRec]
           /\ call[c].pc # "idle" => call[c].ident \in Ident
<1>1. /\ call[c] \in CallRec /\ CallOK(call[c]) /\ CallIsTrue(call[c])
      /\ cache \in [Ident -> Item \cup {NoItem}] /\ item \in [Item -> ItemRec]
      /\ call[c].pc # "idle" => call[c].ident \in Ident
  BY CallFacts DEF IInv, CacheInv, CacheTypes, CallOK, StoreInv, CallsAreTrue
<1>2. modMap \in [Ident -> Item \cup {NoItem}]
  BY DEF IInv, QueueTypes, Named
<1>3. \A o \in Caller : o # c => call[o] = Idle
  BY DEF AtWork, StoreInv, OneCall
<1>4. /\ poll.batch = <<>> /\ poll.flush = <<>> /\ poll.dead = <<>> /\ poll.saving = <<>>
      /\ streamed = <<>>
  BY DEF AtWork, StoreInv, Phases, QueueInv, ListsWorkedOff
<1>5. Touched = {} /\ Streams = {} /\ ToSet(poll.batch) = {}
  BY <1>4 DEF Touched, Streams, ToSet
<1>6. Owned(modMap, item, cache)
  BY DEF StoreInv, QueueOwns, Owns, Owned
<1>7. TrueItems(modMap, item, cache, call[c])
  <2> SUFFICES ASSUME NEW i \in Item, (\E d \in Ident : cache[d] = i \/ modMap[d] = i) \/ call[c].item = i
               PROVE  TrueItem(i, item, call[c])
    BY DEF TrueItems
  <2>1. i \in LiveItems
    BY DEF LiveItems, Item, NoItem
  <2>2. Changing(i) => call[c].op = "setDirty" /\ call[c].held = i
    BY <1>3 DEF Changing, Idle
  <2> QED  BY <1>5, <2>1, <2>2 DEF StoreInv, StatusIsTrue, TrueItem
<1> QED  BY <1>1, <1>2, <1>3, <1>4, <1>5, <1>6, <1>7

\* What is left to show of a caller's step.
LEMMA CallerKeepsStore ==
    ASSUME IInv, QueueInv, StoreInv, IInv', NEW c \in Caller, AtWork(c),
           UNCHANGED <<store, streamed, poll>>,
           NEW r, call' = [call EXCEPT ![c] = r], r.pc = "idle" => r = Idle,
           CallIsTrue(r)',
           Owned(modMap', item', cache'), TrueItems(modMap', item', cache', r)
    PROVE  StoreInv'
<1>1. /\ \A o \in Caller : call'[o] = IF o = c THEN r ELSE Idle
      /\ poll'.pc = "idle"
  <2>1. call \in [Caller -> CallRec]
    BY DEF IInv, CacheInv, CacheTypes
  <2>2. \A o \in Caller : o # c => call[o] = Idle
    BY CallerKnows
  <2> QED  BY <2>1, <2>2 DEF AtWork
<1>2. OneCall'
  <2>1. Idle.pc = "idle"
    BY DEF Idle
  <2> QED  BY <1>1, <2>1, Zenon DEF OneCall, Busy
<1>3. /\ poll.batch = <<>> /\ Touched = {} /\ Streams = {} /\ ToSet(poll.batch) = {}
  BY CallerKnows DEF ToSet
<1>4. Touched' = {} /\ Streams' = {} /\ ToSet(poll.batch)' = {} /\ Handled' = {}
  BY <1>3 DEF Touched, Streams, Handled
<1>5. Phases'
  BY <1>1 DEF StoreInv, Phases
<1>6. QueueOwns'
  BY <1>4 DEF QueueOwns, Owns, Owned
<1>7. BatchOwns' /\ HandledIsSaved' /\ StreamsAgree'
  BY <1>3, <1>4 DEF BatchOwns, HandledIsSaved, StreamsAgree
<1>8. StatusIsTrue'
  <2> SUFFICES ASSUME NEW i \in LiveItems'
               PROVE  /\ item'[i].status \in {"created", "dead"} => store[item'[i].ident] = NoData
                      /\ item'[i].status = "clean" /\ ~Changing(i)' => store[item'[i].ident] = item'[i].data
    <3>1. ToSet(poll.dead)' = {}
      BY <1>4 DEF Touched
    <3> QED  BY <3>1 DEF StatusIsTrue
  <2>1. (\E d \in Ident : cache'[d] = i \/ modMap'[d] = i) \/ r.item = i
    BY <1>1, <1>4 DEF LiveItems, Idle
  <2>2. i \in Item
    <3>1. /\ \A d \in Ident : cache'[d] \in Item \cup {NoItem} /\ modMap'[d] \in Item \cup {NoItem}
          /\ r.item \in Item \cup {NoItem}
      BY <1>1 DEF IInv, CacheInv, CacheTypes, QueueTypes, Named, CallRec
    <3> QED  BY <2>1, <3>1 DEF LiveItems
  <2>3. r.op = "setDirty" /\ r.held = i => Changing(i)'
    BY <1>1 DEF Changing
  <2> QED  BY <2>1, <2>2, <2>3 DEF TrueItems, TrueItem
<1>9. CallsAreTrue'
  <2>1. CallIsTrue(Idle)'
    BY DEF CallIsTrue, Idle, HasItem
  <2> QED  BY <1>1, <2>1 DEF CallsAreTrue
<1> QED  BY <1>2, <1>5, <1>6, <1>7, <1>8, <1>9 DEF StoreInv

\* The step of a call that becomes r: it works on the ident d, and changes at most
\* one Item i and what d has of it.
TrueStep(c, r, d, i) ==
    /\ UNCHANGED <<store, streamed, poll>>
    /\ call' = [call EXCEPT ![c] = r] /\ d = call[c].ident
    /\ r.pc = "idle" => r = Idle
    /\ \A j \in Item : j # i => item'[j] = item[j]
    /\ \A e \in Ident : e # d => /\ cache'[e] = cache[e] /\ modMap'[e] = modMap[e]
                                 /\ modMap[e] # i \/ i = NoItem
    /\ d \in Ident => /\ cache'[d] \in {cache[d], i} /\ modMap'[d] \in {modMap[d], i}
                      /\ modMap'[d] # NoItem => /\ item'[modMap'[d]].ident = d
                                                /\ cache'[d] \in {NoItem, modMap'[d]}
                                                /\ cache'[d] = NoItem => store[d] = NoData
    /\ r.item \in {NoItem, i}
    /\ i \in Item => TrueItem(i, item', r)
    /\ call[c].op = "setDirty" => i = call[c].held \/ (r.op = "setDirty" /\ r.held = call[c].held)

LEMMA CallerStepsTrue ==
    ASSUME IInv, QueueInv, StoreInv, IInv', NEW c \in Caller, AtWork(c),
           NEW r, CallIsTrue(r)', NEW d, NEW i, TrueStep(c, r, d, i)
    PROVE  StoreInv'
<1> USE DEF TrueStep
<1>1. /\ Owned(modMap, item, cache) /\ TrueItems(modMap, item, cache, call[c])
      /\ modMap \in [Ident -> Item \cup {NoItem}] /\ cache \in [Ident -> Item \cup {NoItem}]
  BY CallerKnows
<1>2. Owned(modMap', item', cache')
  <2> SUFFICES ASSUME NEW e \in Ident, modMap'[e] # NoItem
               PROVE  /\ item'[modMap'[e]].ident = e /\ cache'[e] \in {NoItem, modMap'[e]}
                      /\ cache'[e] = NoItem => store[e] = NoData
    BY DEF Owned
  <2>1. CASE e = d
    BY <2>1, Zenon
  <2>2. CASE e # d
    <3>1. modMap'[e] = modMap[e] /\ cache'[e] = cache[e] /\ (modMap[e] # i \/ i = NoItem)
      BY <2>2, Zenon
    <3>2. modMap[e] \in Item /\ modMap[e] # NoItem
      BY <1>1, <3>1
    <3>3. item'[modMap[e]] = item[modMap[e]]
      BY <3>1, <3>2, Zenon
    <3>4. /\ item[modMap[e]].ident = e /\ cache[e] \in {NoItem, modMap[e]}
          /\ cache[e] = NoItem => store[e] = NoData
      BY <1>1, <3>2, Zenon DEF Owned
    <3> QED  BY <3>1, <3>3, <3>4, Zenon
  <2> QED  BY <2>1, <2>2, Zenon
<1>3. TrueItems(modMap', item', cache', r)
  <2> SUFFICES ASSUME NEW j \in Item, (\E e \in Ident : cache'[e] = j \/ modMap'[e] = j) \/ r.item = j
               PROVE  TrueItem(j, item', r)
    BY DEF TrueItems
  <2>1. CASE j = i
    BY <2>1
  <2>2. CASE j # i
    <3>1. j # NoItem
      BY DEF Item, NoItem
    <3>2. PICK e \in Ident : cache'[e] = j \/ modMap'[e] = j
      BY <2>2, <3>1
    <3>3. cache[e] = j \/ modMap[e] = j
      BY <2>2, <3>2
    <3>4. TrueItem(j, item, call[c])
      BY <1>1, <3>3 DEF TrueItems
    <3>5. item'[j] = item[j]
      BY <2>2
    <3>6. ~(r.op = "setDirty" /\ r.held = j) => ~(call[c].op = "setDirty" /\ call[c].held = j)
      BY <2>2, Zenon
    <3> QED  BY <3>4, <3>5, <3>6, Zenon DEF TrueItem
  <2> QED  BY <2>1, <2>2, Zenon
<1> QED  BY <1>2, <1>3, CallerKeepsStore

\* A step that changes nothing but where the call is.
LEMMA MovesTrue ==
    ASSUME IInv, QueueInv, StoreInv, IInv', NEW c \in Caller, AtWork(c),
           UNCHANGED <<store, item, cache, modMap, streamed, poll>>,
           NEW r, call' = [call EXCEPT ![c] = r], r.pc = "idle" => r = Idle, CallIsTrue(r),
           \/ r.item = NoItem \/ r.item = call[c].item
           \/ call[c].ident \in Ident /\ r.item = cache[call[c].ident],
           call[c].op = "setDirty" => \/ r.op = "setDirty" /\ r.held = call[c].held
                                      \/ item[call[c].held].status # "clean"
    PROVE  StoreInv'
<1>1. Owned(modMap, item, cache) /\ TrueItems(modMap, item, cache, call[c])
  BY CallerKnows
<1>2. CallIsTrue(r)'
  BY DEF CallIsTrue
<1>3. Owned(modMap', item', cache')
  BY <1>1
<1>4. TrueItems(modMap, item, cache, r)
  <2> SUFFICES ASSUME NEW j \in Item, (\E e \in Ident : cache[e] = j \/ modMap[e] = j) \/ r.item = j
               PROVE  TrueItem(j, item, r)
    BY Zenon DEF TrueItems
  <2>1. j # NoItem
    BY DEF Item, NoItem
  <2>2. TrueItem(j, item, call[c])
    BY <1>1, <2>1, Zenon DEF TrueItems
  <2> QED  BY <2>2, Zenon DEF TrueItem
<1> QED  BY <1>2, <1>3, <1>4, CallerKeepsStore

\* pin() and add() make a new Item.
LEMMA AllocTrue ==
    ASSUME IInv, QueueInv, StoreInv, IInv', NEW c \in Caller, AtWork(c), FreeItems # {},
           UNCHANGED <<store, cache, modMap, streamed, poll>>,
           NEW d, d = call[c].ident, NEW st, NEW data, Alloc(d, st, data),
           call[c].pc \in {"load", "insert"}, call[c].op # "setDirty",
           \/ st = "clean" /\ data = store[d] /\ store[d] # NoData
           \/ st = "dead" /\ store[d] = NoData,
           NEW pc, (pc = "insert" /\ st = "clean") \/ (pc = "lock" /\ st = "dead" /\ call[c].op = "add"),
           call' = [call EXCEPT ![c].pc = pc, ![c].item = NewItem]
    PROVE  StoreInv'
<1>1. PICK i : i = NewItem
  OBVIOUS
<1>2. /\ i \in Item /\ \A e \in Ident : cache[e] # i /\ modMap[e] # i
  <2>1. i \in FreeItems /\ i \in Item /\ i # NoItem /\ \A e \in Ident : cache[e] # i
    BY <1>1, NewIsFree, Zenon DEF IInv, NewItem
  <2> QED  BY <2>1 DEF FreeItems, InQueues
<1>3. PICK n : n = [ident |-> d, status |-> st, data |-> data, completed |-> FALSE, orphan |-> TRUE]
  OBVIOUS
<1>4. item' = [item EXCEPT ![i] = n]
  BY <1>1, <1>3, Zenon DEF Alloc
<1>5. /\ item'[i] = n /\ \A j \in Item : j # i => item'[j] = item[j]
  BY <1>2, <1>4, CallerKnows
<1>6. /\ call[c] \in CallRec /\ CallIsTrue(call[c]) /\ Owned(modMap, item, cache) /\ d \in Ident
      /\ modMap \in [Ident -> Item \cup {NoItem}]
  BY CallerKnows
<1>7. PICK r : r = [call[c] EXCEPT !.pc = pc, !.item = i]
  OBVIOUS
<1>8. /\ call' = [call EXCEPT ![c] = r]
      /\ r.pc = pc /\ r.item = i /\ r.op = call[c].op /\ r.ident = d /\ r.held = call[c].held
  BY <1>1, <1>6, <1>7 DEF CallRec
<1>9. CallIsTrue(r)'
  <2>1. cache[d] = NoItem /\ r.held = NoItem
    BY <1>6, <1>8 DEF CallIsTrue
  <2>2. n.status = st
    BY <1>3
  <2>3. i # NoItem
    BY <1>2 DEF Item, NoItem
  <2>4. pc \in {"insert", "lock"} /\ r.op # "setDirty" /\ (r.op = "locate" => pc \notin HasItem)
    BY <1>8 DEF HasItem
  <2>5. CASE pc = "insert"
    <3>1. item'[r.item].status = "clean" /\ store[d] # NoData
      BY <1>5, <1>8, <2>2, <2>5
    <3> QED  BY <1>8, <2>1, <2>3, <2>4, <2>5, <3>1 DEF CallIsTrue, HasItem
  <2>6. CASE pc = "lock"
    <3>1. item'[r.item].status = "dead" /\ store[d] = NoData /\ r.op = "add"
      BY <1>5, <1>8, <2>2, <2>6
    <3> QED  BY <1>8, <2>1, <2>3, <2>4, <2>6, <3>1 DEF CallIsTrue, HasItem
  <2> QED  BY <2>4, <2>5, <2>6
<1>10. TrueItem(i, item', r)
  <2>1. item'[i].status = st /\ item'[i].ident = d /\ item'[i].data = data
    BY <1>3, <1>5
  <2> QED  BY <2>1, Zenon DEF TrueItem
<1>11. ASSUME modMap[d] # NoItem
       PROVE  /\ item'[modMap[d]].ident = d
              /\ cache'[d] \in {NoItem, modMap[d]}
              /\ cache'[d] = NoItem => store[d] = NoData
  <2>1. modMap[d] \in Item /\ modMap[d] # i
    BY <1>2, <1>6, <1>11
  <2>2. item'[modMap[d]] = item[modMap[d]]
    BY <1>5, <2>1
  <2> QED  BY <1>6, <1>11, <2>2 DEF Owned
<1>12. \A e \in Ident : e # d => /\ cache'[e] = cache[e] /\ modMap'[e] = modMap[e]
                                 /\ modMap[e] # i \/ i = NoItem
  BY <1>2, Zenon
<1>13. r.pc # "idle" /\ call[c].op # "setDirty"
  BY <1>8
<1>14. /\ cache'[d] \in {cache[d], i} /\ modMap'[d] \in {modMap[d], i}
       /\ modMap'[d] # NoItem => /\ item'[modMap'[d]].ident = d
                                 /\ cache'[d] \in {NoItem, modMap'[d]}
                                 /\ cache'[d] = NoItem => store[d] = NoData
  BY <1>11
<1>15. r.item \in {NoItem, i} /\ (r.pc = "idle" => r = Idle)
  BY <1>8
<1>16. TrueStep(c, r, d, i)
  BY <1>5, <1>8, <1>10, <1>12, <1>13, <1>14, <1>15, Zenon DEF TrueStep
<1> QED  BY <1>9, <1>16, CallerStepsTrue

\* A call that works on an Item of its own ident.
LEMMA WritesTrue ==
    ASSUME IInv, QueueInv, StoreInv, IInv', NEW c \in Caller, AtWork(c), call[c].pc # "idle",
           UNCHANGED <<store, streamed, poll>>,
           NEW d, d = call[c].ident, NEW i \in Item, item[i].ident = d, item'[i].ident = d,
           \A j \in Item : j # i => item'[j] = item[j],
           cache' = cache \/ cache' = [cache EXCEPT ![d] = i],
           modMap' = modMap \/ modMap' = [modMap EXCEPT ![d] = i],
           modMap'[d] # NoItem => /\ cache'[d] \in {NoItem, modMap'[d]}
                                  /\ cache'[d] = NoItem => store[d] = NoData,
           NEW r, call' = [call EXCEPT ![c] = r], r.pc = "idle" => r = Idle,
           r.item \in {NoItem, i}, CallIsTrue(r)', TrueItem(i, item', r),
           call[c].op = "setDirty" => i = call[c].held \/ (r.op = "setDirty" /\ r.held = call[c].held)
    PROVE  StoreInv'
<1>1. /\ Owned(modMap, item, cache) /\ d \in Ident
      /\ modMap \in [Ident -> Item \cup {NoItem}] /\ cache \in [Ident -> Item \cup {NoItem}]
  BY CallerKnows
<1>2. \A e \in Ident : e # d => /\ cache'[e] = cache[e] /\ modMap'[e] = modMap[e]
                                /\ modMap[e] # i
  <2>1. \A e \in Ident : e # d => modMap[e] # i
    BY <1>1 DEF Owned, Item, NoItem
  <2>2. \A e \in Ident : e # d => cache'[e] = cache[e]
    BY <1>1
  <2>3. \A e \in Ident : e # d => modMap'[e] = modMap[e]
    BY <1>1
  <2> QED  BY <2>1, <2>2, <2>3
<1>3. cache'[d] \in {cache[d], i}
  BY <1>1
<1>4. modMap'[d] \in {modMap[d], i}
  BY <1>1
<1>5. modMap'[d] # NoItem => item'[modMap'[d]].ident = d
  <2> SUFFICES ASSUME modMap'[d] # NoItem, modMap'[d] # i  PROVE item'[modMap'[d]].ident = d
    BY Zenon
  <2>1. PICK m : m = modMap'[d]
    OBVIOUS
  <2>2. m = modMap[d] /\ m \in Item
    BY <1>1, <1>4, <2>1
  <2>3. item[m].ident = d /\ item'[m] = item[m]
    BY <1>1, <2>1, <2>2 DEF Owned
  <2> QED  BY <2>1, <2>3, Zenon
<1>6. TrueStep(c, r, d, i)
  BY <1>2, <1>3, <1>4, <1>5, Zenon DEF TrueStep
<1> QED  BY <1>6, CallerStepsTrue

\* A call that returns or goes on.
LEMMA ReturnTrue ==
    ASSUME IInv, QueueInv, StoreInv, IInv', NEW c \in Caller, AtWork(c), Return(c),
           UNCHANGED <<store, item, cache, modMap, streamed, poll>>,
           call[c].op = "setDirty" => item[call[c].held].status # "clean"
    PROVE  StoreInv'
<1>1. PICK r : r = Idle
  OBVIOUS
<1>2. /\ call' = [call EXCEPT ![c] = r] /\ r.item = NoItem
      /\ CallIsTrue(r)
  BY <1>1 DEF Return, Idle, CallIsTrue, HasItem
<1> QED  BY <1>1, <1>2, MovesTrue

LEMMA GotoTrue ==
    ASSUME IInv, QueueInv, StoreInv, IInv', NEW c \in Caller, AtWork(c),
           NEW pc \in {"pin", "load", "insert", "queue", "requeue", "dirty"}, Goto(c, pc),
           UNCHANGED <<store, item, cache, modMap, streamed, poll>>,
           \/ call[c].pc = "pin" /\ pc = "load" /\ cache[call[c].ident] = NoItem
           \/ call[c].pc = "load" /\ pc = "insert" /\ store[call[c].ident] = NoData
           \/ call[c].pc = "lock" /\ pc = "requeue" /\ call[c].op = "locate"
           \/ call[c].pc = "lock" /\ pc = "dirty" /\ call[c].op = "setDirty"
    PROVE  StoreInv'
<1>1. PICK r : r = [call[c] EXCEPT !.pc = pc]
  OBVIOUS
<1>2. CallIsTrue(call[c]) /\ CallOK(call[c]) /\ call[c] \in CallRec
  BY CallerKnows
<1>3. /\ call' = [call EXCEPT ![c] = r] /\ r.pc = pc /\ r.item = call[c].item
      /\ r.op = call[c].op /\ r.held = call[c].held /\ r.ident = call[c].ident
  BY <1>1, <1>2 DEF Goto, CallRec
<1>4. CallIsTrue(r)
  BY <1>2, <1>3 DEF CallIsTrue, CallOK, HasItem
<1> QED  BY <1>3, <1>4, MovesTrue

LEMMA BeginTrue ==
    ASSUME IInv, QueueInv, StoreInv, IInv', Rule("serialised"), NEW c \in Caller, Begin(c)
    PROVE  StoreInv'
<1>1. AtWork(c) /\ call[c].pc = "idle" /\ UNCHANGED <<store, item, cache, modMap, streamed, poll>>
  BY DEF Begin, AtWork, Busy, cacheVars, modVars
<1>2. call[c].op # "setDirty"
  BY <1>1 DEF StoreInv, OneCall, Busy, Idle
<1>3. PICK d \in Ident, op \in {"add", "remove", "locate"}, b \in BOOLEAN :
         call' = [call EXCEPT ![c] = [Idle EXCEPT !.pc = "pin", !.op = op, !.ident = d, !.complete = b]]
  BY DEF Begin
<1>4. PICK r : r = [Idle EXCEPT !.pc = "pin", !.op = op, !.ident = d, !.complete = b]
  OBVIOUS
<1>5. r.pc = "pin" /\ r.op = op /\ r.item = NoItem /\ r.held = NoItem /\ r.ident = d
  BY <1>4 DEF Idle
<1>6. CallIsTrue(r)
  BY <1>5 DEF CallIsTrue, HasItem
<1> QED  BY <1>1, <1>2, <1>3, <1>4, <1>5, <1>6, MovesTrue

\* pin().
LEMMA PinTrue ==
    ASSUME IInv, QueueInv, StoreInv, IInv', Faults = {}, NEW c \in Caller, AtWork(c),
           PinLookup(c) \/ PinLoad(c) \/ PinInsert(c)
    PROVE  StoreInv'
<1>1. PICK d : d = call[c].ident
  OBVIOUS
<1>2. PICK i : i = call[c].item
  OBVIOUS
<1>3. /\ CallIsTrue(call[c]) /\ CallOK(call[c]) /\ call[c] \in CallRec
      /\ cache \in [Ident -> Item \cup {NoItem}] /\ item \in [Item -> ItemRec]
      /\ call[c].pc # "idle" => d \in Ident
      /\ Owned(modMap, item, cache) /\ TrueItems(modMap, item, cache, call[c])
  BY <1>1, CallerKnows
<1>4. CASE PinLookup(c)
  <2>1. call[c].pc = "pin" /\ UNCHANGED <<store, cache, modMap, streamed, poll>>
    BY <1>4 DEF PinLookup, cacheVars, modVars
  <2>2. CASE cache[d] = NoItem
    <3>1. Goto(c, "load") /\ UNCHANGED item
      BY <1>1, <1>4, <2>2 DEF PinLookup
    <3> QED  BY <1>1, <2>1, <2>2, <3>1, GotoTrue
  <2>3. CASE cache[d] # NoItem
    <3>1. Pinned(c, cache[d], item)
      BY <1>1, <1>4, <2>3 DEF PinLookup
    <3>2. CASE call[c].op = "add" \/ item[cache[d]].data # NoData
      <4>1. PICK r : r = [call[c] EXCEPT !.pc = "lock", !.item = cache[d]]
        OBVIOUS
      <4>2. UNCHANGED item /\ call' = [call EXCEPT ![c] = r]
        BY <2>3, <3>1, <3>2, <4>1 DEF Pinned
      <4>3. /\ r.pc = "lock" /\ r.item = cache[d] /\ r.op = call[c].op /\ r.held = call[c].held
            /\ r.ident = d
        BY <1>1, <1>3, <4>1 DEF CallRec
      <4>4. CallIsTrue(r)
        BY <1>1, <1>3, <2>1, <2>3, <3>2, <4>3 DEF CallIsTrue, HasItem
      <4> QED  BY <1>1, <1>3, <2>1, <4>2, <4>3, <4>4, MovesTrue
    <3>3. CASE call[c].op # "add" /\ item[cache[d]].data = NoData
      <4>1. Return(c) /\ UNCHANGED item
        BY <2>3, <3>1, <3>3 DEF Pinned
      <4>2. call[c].op # "setDirty"
        BY <1>1, <1>3, <3>3 DEF CallIsTrue
      <4> QED  BY <2>1, <4>1, <4>2, ReturnTrue
    <3> QED  BY <3>2, <3>3
  <2> QED  BY <2>2, <2>3
<1>5. CASE PinLoad(c)
  <2>1. call[c].pc = "load" /\ UNCHANGED <<store, cache, modMap, streamed, poll>>
    BY <1>5 DEF PinLoad, cacheVars, modVars
  <2>2. CASE store[d] = NoData
    <3>1. Goto(c, "insert") /\ UNCHANGED item
      BY <1>1, <1>5, <2>2 DEF PinLoad
    <3> QED  BY <1>1, <2>1, <2>2, <3>1, GotoTrue
  <2>3. CASE store[d] # NoData
    <3>1. /\ FreeItems # {} /\ Alloc(d, "clean", store[d])
          /\ call' = [call EXCEPT ![c].pc = "insert", ![c].item = NewItem]
      BY <1>1, <1>5, <2>3 DEF PinLoad
    <3>2. call[c].op # "setDirty"
      BY <1>3, <2>1 DEF CallIsTrue
    <3> QED  BY <1>1, <2>1, <2>3, <3>1, <3>2, AllocTrue
  <2> QED  BY <2>2, <2>3
<1>6. CASE PinInsert(c)
  <2>1. call[c].pc = "insert" /\ UNCHANGED <<store, modMap, streamed, poll>> /\ cache[d] = NoItem
    BY <1>1, <1>3, <1>6 DEF PinInsert, modVars, CallIsTrue
  <2>2. call[c].op # "setDirty" /\ call[c].held = NoItem
    BY <1>3, <2>1 DEF CallIsTrue
  <2>3. CASE i = NoItem
    <3>1. /\ FreeItems # {} /\ UNCHANGED cache /\ Pinned(c, NoItem, item)
          /\ store[d] = NoData
      BY <1>1, <1>2, <1>3, <1>6, <2>1, <2>3 DEF PinInsert, cacheVars, CallIsTrue
    <3>2. CASE call[c].op = "add"
      <4>1. /\ call' = [call EXCEPT ![c].pc = "lock", ![c].item = NewItem]
            /\ Alloc(d, "dead", NoData)
        BY <1>1, <3>1, <3>2 DEF Pinned
      <4> QED  BY <1>1, <2>1, <2>2, <3>1, <3>2, <4>1, AllocTrue
    <3>3. CASE call[c].op # "add"
      <4>1. Return(c) /\ UNCHANGED item
        BY <3>1, <3>3 DEF Pinned
      <4> QED  BY <2>1, <2>2, <3>1, <4>1, ReturnTrue
    <3> QED  BY <3>2, <3>3
  <2>4. CASE i # NoItem
    <3>1. /\ i \in Item /\ item[i].ident = d /\ d \in Ident /\ item[i].status = "clean" /\ store[d] # NoData
      BY <1>1, <1>2, <1>3, <2>1, <2>4 DEF CallIsTrue, CallOK, CallRec
    <3>2. /\ cache' = [cache EXCEPT ![d] = i]
          /\ Pinned(c, i, [item EXCEPT ![i].orphan = FALSE])
      BY <1>1, <1>2, <1>6, <2>1, <2>4 DEF PinInsert
    <3>3. /\ item' = [item EXCEPT ![i].orphan = FALSE]
          /\ \/ Return(c)
             \/ /\ call' = [call EXCEPT ![c].pc = "lock", ![c].item = i]
                /\ call[c].op = "add" \/ [item EXCEPT ![i].orphan = FALSE][i].data # NoData
      BY <1>1, <2>4, <3>2 DEF Pinned
    <3>4. /\ item'[i].ident = d /\ item'[i].status = "clean" /\ item'[i].data = item[i].data
          /\ \A j \in Item : j # i => item'[j] = item[j]
      BY <1>3, <3>1, <3>3 DEF ItemRec
    <3>5. cache'[d] = i /\ modMap'[d] = NoItem
      <4>1. cache'[d] = i
        BY <1>3, <3>1, <3>2
      <4>2. modMap[d] = NoItem
        BY <1>3, <2>1, <3>1 DEF Owned
      <4> QED  BY <2>1, <4>1, <4>2
    <3>6. PICK r : /\ r = Idle \/ r = [call[c] EXCEPT !.pc = "lock", !.item = i]
                   /\ call' = [call EXCEPT ![c] = r]
                   /\ r = Idle \/ call[c].op = "add" \/ item'[i].data # NoData
      BY <3>3, Zenon DEF Return
    <3>7. /\ r.pc = "idle" => r = Idle
          /\ r.item \in {NoItem, i} /\ r.held = NoItem /\ r.op # "setDirty"
          /\ r.pc # "idle" => /\ r.pc = "lock" /\ r.ident = d /\ r.item = i
                              /\ r.op = "add" \/ item'[i].data # NoData
      <4>1. CASE r = Idle
        BY <4>1 DEF Idle
      <4>2. CASE r # Idle
        BY <1>1, <1>3, <2>2, <3>6, <4>2 DEF CallRec
      <4> QED  BY <4>1, <4>2
    <3>8. CallIsTrue(r)'
      <4>1. i # NoItem
        BY <2>4
      <4>2. CASE r = Idle
        BY <4>2 DEF CallIsTrue, Idle, HasItem
      <4>3. CASE r # Idle
        BY <3>5, <3>7, <4>1, <4>3 DEF CallIsTrue, HasItem
      <4> QED  BY <4>2, <4>3
    <3>9. TrueItem(i, item', r)
      <4>1. TrueItem(i, item, call[c])
        BY <1>2, <1>3, <3>1 DEF TrueItems
      <4> QED  BY <2>2, <3>1, <3>4, <4>1 DEF TrueItem
    <3> QED  BY <1>1, <2>1, <2>2, <3>1, <3>2, <3>4, <3>5, <3>6, <3>7, <3>8, <3>9, WritesTrue
  <2> QED  BY <2>3, <2>4
<1> QED  BY <1>4, <1>5, <1>6

\* add(), remove() and locate() on the Item.
LEMMA BodyTrue ==
    ASSUME IInv, QueueInv, StoreInv, IInv', NEW c \in Caller, AtWork(c),
           AddBody(c) \/ RemoveBody(c) \/ LocateBody(c)
    PROVE  StoreInv'
<1>1. PICK d : d = call[c].ident
  OBVIOUS
<1>2. PICK i : i = call[c].item
  OBVIOUS
<1>3. /\ CallIsTrue(call[c]) /\ CallOK(call[c]) /\ call[c] \in CallRec
      /\ item \in [Item -> ItemRec] /\ call[c].pc = "lock"
      /\ call[c].op \in {"add", "remove", "locate"}
      /\ Owned(modMap, item, cache) /\ TrueItems(modMap, item, cache, call[c])
      /\ UNCHANGED <<store, cache, modMap, streamed, poll>>
  <2>1. /\ call[c].pc = "lock" /\ call[c].op \in {"add", "remove", "locate"}
        /\ UNCHANGED <<store, cache, modMap, streamed, poll>>
    BY DEF AddBody, RemoveBody, LocateBody, LockItem, cacheVars, modVars
  <2> QED  BY <2>1, CallerKnows
<1>4. /\ i \in Item /\ i # NoItem /\ d \in Ident /\ item[i].ident = d /\ item[i] \in ItemRec
      /\ cache[d] \in {NoItem, i} /\ TrueItem(i, item, call[c])
  <2>1. i \in Item /\ i # NoItem /\ d \in Ident /\ item[i].ident = d
    BY <1>1, <1>2, <1>3 DEF CallOK, HasItem, CallRec
  <2>2. cache[d] \in {NoItem, i}
    BY <1>1, <1>2, <1>3 DEF QueueInv, CallersApart, OwnIsCached, HasItem
  <2> QED  BY <1>2, <1>3, <2>1, <2>2 DEF TrueItems
<1>5. ASSUME NEW pc \in {"queue", "requeue"}, Goto(c, pc), call[c].op \in {"add", "remove"},
             NEW st, NEW data, item' = [item EXCEPT ![i].status = st, ![i].data = data],
             st \notin {"clean", "dead"} \/ (st = "dead" /\ item[i].status = "created"),
             st = "created" => item[i].status = "dead"
      PROVE  StoreInv'
  <2>1. PICK r : r = [call[c] EXCEPT !.pc = pc]
    OBVIOUS
  <2>2. /\ call' = [call EXCEPT ![c] = r] /\ r.pc = pc /\ r.item = i
        /\ r.op = call[c].op /\ r.held = call[c].held /\ r.ident = d
    BY <1>1, <1>2, <1>3, <1>5, <2>1 DEF Goto, CallRec
  <2>3. /\ item'[i].status = st /\ item'[i].ident = d
        /\ \A j \in Item : j # i => item'[j] = item[j]
    BY <1>3, <1>4, <1>5 DEF ItemRec
  <2>4. CallIsTrue(r)'
    <3>1. r.pc \in {"queue", "requeue"} /\ r.op \in {"add", "remove"} /\ r.held = NoItem
      BY <1>3, <1>5, <2>2 DEF CallIsTrue
    <3>2. cache[d] = NoItem => store[d] = NoData
      BY <1>1, <1>3 DEF CallIsTrue, HasItem
    <3> QED  BY <1>3, <2>2, <3>1, <3>2 DEF CallIsTrue
  <2>5. TrueItem(i, item', r)
    <3>1. st \in {"created", "dead"} => store[d] = NoData
      BY <1>4, <1>5 DEF TrueItem
    <3> QED  BY <1>5, <2>3, <3>1 DEF TrueItem
  <2>6. modMap'[d] # NoItem => /\ cache'[d] \in {NoItem, modMap'[d]}
                               /\ cache'[d] = NoItem => store[d] = NoData
    BY <1>3, <1>4 DEF Owned
  <2>7. call[c].op # "setDirty" /\ call[c].pc # "idle" /\ r.pc # "idle"
    BY <1>3, <1>5, <2>2
  <2> HIDE <1>5
  <2> QED  BY <1>1, <1>3, <1>4, <2>2, <2>3, <2>4, <2>5, <2>6, <2>7, WritesTrue
<1>6. CASE AddBody(c)
  <2>1. PICK st : st = IF item[i].status = "dead" THEN "created" ELSE "modified"
    OBVIOUS
  <2>2. PICK pc : pc = IF item[i].status = "destroyed" THEN "requeue" ELSE "queue"
    OBVIOUS
  <2>3. item' = [item EXCEPT ![i].data = written + 1, ![i].status = st] /\ Goto(c, pc)
    BY <1>2, <1>6, <2>1, <2>2, BodiesGo DEF AddBody
  <2>4. item' = [item EXCEPT ![i].status = st, ![i].data = written + 1]
    BY <1>3, <1>4, <2>3 DEF ItemRec
  <2>5. PICK data : data = written + 1
    OBVIOUS
  <2>6. item' = [item EXCEPT ![i].status = st, ![i].data = data]
    BY <2>4, <2>5
  <2>7. call[c].op = "add"
    BY <1>6 DEF AddBody, LockItem
  <2>8. /\ pc \in {"queue", "requeue"} /\ call[c].op \in {"add", "remove"}
        /\ st \notin {"clean", "dead"} /\ (st = "created" => item[i].status = "dead")
    BY <2>1, <2>2, <2>7
  <2> QED  BY <1>5, <2>3, <2>6, <2>8, Zenon
<1>7. CASE RemoveBody(c)
  <2>1. call[c].op = "remove"
    BY <1>7 DEF RemoveBody, LockItem
  <2>2. CASE item[i].status \in {"destroyed", "dead"}
    <3>1. Return(c) /\ UNCHANGED item
      BY <1>2, <1>7, <2>2 DEF RemoveBody
    <3> QED  BY <1>3, <2>1, <3>1, ReturnTrue
  <2>3. CASE item[i].status \notin {"destroyed", "dead"}
    <3>1. PICK pc : pc = IF item[i].status = "clean" THEN "queue" ELSE "requeue"
      OBVIOUS
    <3>2. PICK st : st = StatusRemoved(item[i].status)
      OBVIOUS
    <3>3. item' = [item EXCEPT ![i].status = st, ![i].data = NoData] /\ Goto(c, pc)
      BY <1>2, <1>7, <2>3, <3>1, <3>2, BodiesGo DEF RemoveBody
    <3>4. st = IF item[i].status = "created" THEN "dead" ELSE "destroyed"
      BY <3>2 DEF StatusRemoved
    <3>5. PICK data : data = NoData
      OBVIOUS
    <3>6. item' = [item EXCEPT ![i].status = st, ![i].data = data]
      BY <3>3, <3>5
    <3>7. /\ pc \in {"queue", "requeue"} /\ call[c].op \in {"add", "remove"}
          /\ st \notin {"clean", "dead"} \/ (st = "dead" /\ item[i].status = "created")
          /\ st # "created"
      BY <2>1, <3>1, <3>4
    <3> QED  BY <1>5, <3>3, <3>6, <3>7, Zenon
  <2> QED  BY <2>2, <2>3
<1>8. CASE LocateBody(c)
  <2>1. UNCHANGED item /\ (Return(c) \/ Goto(c, "requeue")) /\ call[c].op = "locate"
    BY <1>8 DEF LocateBody, LockItem
  <2> QED  BY <1>3, <2>1, ReturnTrue, GotoTrue
<1> QED  BY <1>6, <1>7, <1>8

\* The end of the operations.
LEMMA EndTrue ==
    ASSUME IInv, QueueInv, StoreInv, IInv', NEW c \in Caller, AtWork(c),
           EnqueueStep(c) \/ RequeueStep(c) \/ Release(c)
    PROVE  StoreInv'
<1>1. PICK d : d = call[c].ident
  OBVIOUS
<1>2. PICK i : i = call[c].item
  OBVIOUS
<1>3. /\ CallIsTrue(call[c]) /\ CallOK(call[c]) /\ call[c] \in CallRec
      /\ item \in [Item -> ItemRec] /\ modMap \in [Ident -> Item \cup {NoItem}]
      /\ TrueItems(modMap, item, cache, call[c])
      /\ UNCHANGED <<store, item, cache, streamed, poll>>
  <2>1. UNCHANGED <<store, item, cache, streamed, poll>>
    BY DEF EnqueueStep, RequeueStep, Release, cacheVars
  <2> QED  BY <2>1, CallerKnows
<1>4. ASSUME call[c].pc \in HasItem
      PROVE  /\ i \in Item /\ i # NoItem /\ d \in Ident /\ item[i].ident = d
             /\ cache[d] \in {NoItem, i} /\ TrueItem(i, item, call[c])
  <2>1. i \in Item /\ i # NoItem /\ d \in Ident /\ item[i].ident = d
    BY <1>1, <1>2, <1>3, <1>4 DEF CallOK, HasItem, CallRec
  <2>2. cache[d] \in {NoItem, i}
    BY <1>1, <1>2, <1>3, <1>4 DEF QueueInv, CallersApart, OwnIsCached
  <2> QED  BY <1>2, <1>3, <2>1, <2>2 DEF TrueItems
<1>5. CASE EnqueueStep(c)
  <2>1. call[c].pc = "queue" /\ Goto(c, "requeue") /\ QueueModified(i)
    BY <1>2, <1>5 DEF EnqueueStep
  <2>2. /\ i \in Item /\ i # NoItem /\ d \in Ident /\ item[i].ident = d
        /\ cache[d] \in {NoItem, i} /\ TrueItem(i, item, call[c])
    BY <1>4, <2>1 DEF HasItem
  <2>3. modMap' = [modMap EXCEPT ![d] = i]
    BY <2>1, <2>2 DEF QueueModified
  <2>4. PICK r : r = [call[c] EXCEPT !.pc = "requeue"]
    OBVIOUS
  <2>5. /\ call' = [call EXCEPT ![c] = r] /\ r.pc = "requeue" /\ r.item = i
        /\ r.op = call[c].op /\ r.held = call[c].held /\ r.ident = d
    BY <1>1, <1>2, <1>3, <2>1, <2>4 DEF Goto, CallRec
  <2>6. call[c].op \in {"add", "remove"} /\ call[c].held = NoItem /\ (cache[d] = NoItem => store[d] = NoData)
    BY <1>1, <1>3, <2>1 DEF CallIsTrue, HasItem
  <2>7. CallIsTrue(r)'
    <3>1. r.op \in {"add", "remove"} /\ r.held = NoItem
      BY <2>5, <2>6
    <3> QED  BY <1>3, <2>5, <2>6, <3>1 DEF CallIsTrue
  <2>8. TrueItem(i, item', r)
    BY <1>3, <2>2, <2>5 DEF TrueItem
  <2>9. modMap'[d] # NoItem => /\ cache'[d] \in {NoItem, modMap'[d]}
                               /\ cache'[d] = NoItem => store[d] = NoData
    BY <1>3, <2>2, <2>3, <2>6
  <2>10. item'[i].ident = d /\ call[c].op # "setDirty" /\ call[c].pc # "idle" /\ r.pc # "idle"
    BY <1>3, <2>1, <2>2, <2>5, <2>6
  <2> QED  BY <1>1, <1>3, <2>2, <2>3, <2>5, <2>7, <2>8, <2>9, <2>10, WritesTrue
<1>6. CASE RequeueStep(c)
  <2>1. call[c].pc = "requeue" /\ UNCHANGED modMap
    BY <1>6 DEF RequeueStep, modVars
  <2>2. call[c].op # "setDirty"
    BY <1>3, <2>1 DEF CallIsTrue
  <2>3. CASE call[c].op = "locate"
    <3>1. PICK r : r = [call[c] EXCEPT !.pc = "held", !.item = NoItem, !.held = i]
      OBVIOUS
    <3>3. i # NoItem /\ cache[d] = i /\ item[i].data # NoData
      <4>1. call[c].pc \in HasItem /\ call[c].op # "add"
        BY <2>1, <2>3 DEF HasItem
      <4>2. i # NoItem /\ cache[d] = i
        BY <1>1, <1>2, <1>3, <4>1 DEF CallOK
      <4>3. item[i].data # NoData
        BY <1>2, <1>3, <2>3, <4>1 DEF CallIsTrue
      <4> QED  BY <4>2, <4>3
    <3>2. /\ call' = [call EXCEPT ![c] = r] /\ r.pc = "held" /\ r.item = NoItem
          /\ r.op = "locate" /\ r.held = i /\ r.ident = d
      BY <1>1, <1>2, <1>3, <1>6, <2>3, <3>1, <3>3 DEF RequeueStep, CallRec
    <3>4. CallIsTrue(r)
      BY <3>2, <3>3 DEF CallIsTrue, HasItem
    <3> QED  BY <1>3, <2>1, <2>2, <3>2, <3>4, MovesTrue
  <2>4. CASE call[c].op # "locate"
    <3>1. Return(c)
      BY <1>6, <2>4 DEF RequeueStep
    <3> QED  BY <1>3, <2>1, <2>2, <3>1, ReturnTrue
  <2> QED  BY <2>3, <2>4
<1>7. CASE Release(c)
  <2>1. Return(c) /\ UNCHANGED modMap /\ call[c].op = "locate"
    BY <1>3, <1>7 DEF Release, modVars, CallIsTrue
  <2> QED  BY <1>3, <2>1, ReturnTrue
<1> QED  BY <1>5, <1>6, <1>7

\* A servant is changed, and setDirty().
LEMMA DirtyTrue ==
    ASSUME IInv, QueueInv, StoreInv, IInv', NEW c \in Caller, AtWork(c),
           ChangeServant(c) \/ SetDirtyLock(c) \/ SetDirtyBody(c)
    PROVE  StoreInv'
<1>1. PICK d : d = call[c].ident
  OBVIOUS
<1>2. PICK i : i = call[c].held
  OBVIOUS
<1>3. /\ CallIsTrue(call[c]) /\ CallOK(call[c]) /\ call[c] \in CallRec
      /\ item \in [Item -> ItemRec] /\ modMap \in [Ident -> Item \cup {NoItem}]
      /\ TrueItems(modMap, item, cache, call[c]) /\ Owned(modMap, item, cache)
      /\ UNCHANGED <<store, cache, streamed, poll>>
  <2>1. UNCHANGED <<store, cache, streamed, poll>>
    BY DEF ChangeServant, SetDirtyLock, SetDirtyBody, cacheVars
  <2> QED  BY <2>1, CallerKnows
<1>4. ASSUME call[c].pc = "held" \/ call[c].op = "setDirty", call[c].pc # "idle"
      PROVE  /\ i \in Item /\ i # NoItem /\ d \in Ident /\ item[i].ident = d /\ item[i] \in ItemRec
             /\ cache[d] = i /\ TrueItem(i, item, call[c]) /\ item[i].data # NoData
  <2>1. i # NoItem /\ d \in Ident /\ cache[d] = i /\ item[i].data # NoData
    BY <1>1, <1>2, <1>3, <1>4 DEF CallOK, CallIsTrue
  <2>2. i \in Item /\ item[i].ident = d
    BY <2>1, CachedItem DEF IInv
  <2> QED  BY <1>3, <2>1, <2>2 DEF TrueItems
<1>5. CASE ChangeServant(c)
  <2>1. /\ call[c].pc = "held" /\ UNCHANGED modMap
        /\ item' = [item EXCEPT ![i].data = written + 1]
    <3>1. call[c].pc = "held"
      BY <1>5 DEF ChangeServant
    <3>2. call[c].held # NoItem
      BY <1>2, <1>4, <3>1
    <3> QED  BY <1>2, <1>5, <3>1, <3>2 DEF ChangeServant, modVars
  <2>2. /\ i \in Item /\ i # NoItem /\ d \in Ident /\ item[i].ident = d /\ item[i] \in ItemRec
        /\ cache[d] = i /\ TrueItem(i, item, call[c])
    BY <1>4, <2>1
  <2>3. PICK r : r = [call[c] EXCEPT !.pc = "pin", !.op = "setDirty"]
    OBVIOUS
  <2>4. /\ call' = [call EXCEPT ![c] = r] /\ r.pc = "pin" /\ r.item = NoItem
        /\ r.op = "setDirty" /\ r.held = i /\ r.ident = d
    BY <1>1, <1>2, <1>3, <1>5, <2>1, <2>3 DEF ChangeServant, CallRec, CallOK
  <2>5. /\ item'[i].status = item[i].status /\ item'[i].ident = d /\ item'[i].data # NoData
        /\ \A j \in Item : j # i => item'[j] = item[j]
    <3>1. written + 1 # NoData
      BY DEF IInv, CacheInv, CacheTypes, NoData
    <3> QED  BY <1>3, <2>1, <2>2, <3>1 DEF ItemRec
  <2>6. CallIsTrue(r)'
    BY <1>3, <2>2, <2>4, <2>5 DEF CallIsTrue, HasItem
  <2>7. TrueItem(i, item', r)
    BY <2>2, <2>4, <2>5 DEF TrueItem
  <2>8. modMap'[d] # NoItem => /\ cache'[d] \in {NoItem, modMap'[d]}
                               /\ cache'[d] = NoItem => store[d] = NoData
    BY <1>3, <2>1, <2>2 DEF Owned
  <2>9. call[c].op # "setDirty" /\ call[c].pc # "idle" /\ r.pc # "idle"
    BY <1>3, <2>1, <2>4 DEF CallIsTrue
  <2> QED  BY <1>1, <1>3, <2>1, <2>2, <2>4, <2>5, <2>6, <2>7, <2>8, <2>9, WritesTrue
<1>6. CASE SetDirtyLock(c)
  BY <1>3, <1>6, GotoTrue DEF SetDirtyLock, cacheVars, modVars
<1>7. CASE SetDirtyBody(c)
  <2>1. call[c].pc = "dirty" /\ Return(c) /\ call[c].op = "setDirty"
    BY <1>3, <1>7 DEF SetDirtyBody, CallIsTrue
  <2>2. /\ i \in Item /\ i # NoItem /\ d \in Ident /\ item[i].ident = d /\ item[i] \in ItemRec
        /\ cache[d] = i
    BY <1>4, <2>1
  <2>3. call[c].item = i
    BY <1>1, <1>3, <2>1, <2>2 DEF CallOK, HasItem
  <2>4. CASE item[i].status = "clean"
    <3>1. /\ item' = [item EXCEPT ![i].status = "modified", ![i].completed = call[c].complete]
          /\ modMap' = [modMap EXCEPT ![d] = i]
      BY <1>7, <2>2, <2>3, <2>4 DEF SetDirtyBody, QueueModified
    <3>2. /\ item'[i].status = "modified" /\ item'[i].ident = d
          /\ \A j \in Item : j # i => item'[j] = item[j]
      BY <1>3, <2>2, <3>1 DEF ItemRec
    <3>3. PICK r : r = Idle
      OBVIOUS
    <3>4. call' = [call EXCEPT ![c] = r] /\ r.item = NoItem /\ CallIsTrue(r)'
      BY <2>1, <3>3 DEF Return, Idle, CallIsTrue, HasItem
    <3>5. TrueItem(i, item', r)
      BY <3>2 DEF TrueItem
    <3>6. modMap'[d] # NoItem => /\ cache'[d] \in {NoItem, modMap'[d]}
                                 /\ cache'[d] = NoItem => store[d] = NoData
      BY <1>3, <2>2, <3>1
    <3> QED  BY <1>1, <1>2, <1>3, <2>1, <2>2, <3>1, <3>2, <3>3, <3>4, <3>5, <3>6, WritesTrue
  <2>5. CASE item[i].status # "clean"
    <3>1. UNCHANGED <<item, modMap>>
      BY <1>7, <2>3, <2>5 DEF SetDirtyBody, modVars
    <3> QED  BY <1>2, <1>3, <2>1, <2>5, <3>1, ReturnTrue
  <2> QED  BY <2>4, <2>5
<1> QED  BY <1>5, <1>6, <1>7

LEMMA CallersKeepStore ==
    ASSUME IInv, QueueInv, StoreInv, IInv', Sequential, NEW c \in Caller, Begin(c) \/ CallStep(c)
    PROVE  StoreInv'
<1>1. CASE Begin(c)
  BY <1>1, BeginTrue DEF Sequential
<1>2. CASE CallStep(c)
  <2>1. AtWork(c)
    <3>1. Busy(c)
      BY <1>2 DEF Busy, CallStep, PinLookup, PinLoad, PinInsert, AddBody, RemoveBody, LocateBody,
                  LockItem, EnqueueStep, RequeueStep, Release, ChangeServant, SetDirtyLock, SetDirtyBody
    <3> QED  BY <3>1, BusyIsAtWork
  <2> QED  BY <1>2, <2>1, PinTrue, BodyTrue, EndTrue, DirtyTrue DEF CallStep, Sequential
<1> QED  BY <1>1, <1>2

-----------------------------------------------------------------------------
(* poll(), which runs when nobody calls. *)

\* The elements of s have different idents.
Distinct(s, f) == \A j, k \in DOMAIN s : f[s[j]] = f[s[k]] => j = k

LEMMA DistinctElements ==
    ASSUME NEW S, NEW s \in Seq(S), NEW f, Distinct(s, f)
    PROVE  /\ \A x, y \in ToSet(s) : f[x] = f[y] => x = y
           /\ \A x \in S : (\A y \in ToSet(s) : f[y] # f[x]) => Distinct(Append(s, x), f)
           /\ s # <<>> => /\ Distinct(Tail(s), f)
                          /\ \A x \in ToSet(Tail(s)) : f[x] # f[Head(s)]
<1>1. ToSet(s) = {s[k] : k \in 1..Len(s)} /\ DOMAIN s = 1..Len(s)
  BY ElementsOf
<1>2. \A x, y \in ToSet(s) : f[x] = f[y] => x = y
  BY <1>1 DEF Distinct
<1>3. ASSUME NEW x \in S, \A y \in ToSet(s) : f[y] # f[x]
      PROVE  Distinct(Append(s, x), f)
  <2>1. PICK t : t = Append(s, x)
    OBVIOUS
  <2>2. /\ DOMAIN t = 1..(Len(s) + 1) /\ t[Len(s) + 1] = x
        /\ \A k \in 1..Len(s) : t[k] = s[k] /\ f[s[k]] # f[x]
    BY <1>1, <1>3, <2>1
  <2>3. \A k \in DOMAIN t : k \in 1..Len(s) \/ k = Len(s) + 1
    BY <2>2
  <2>4. Distinct(t, f)
    BY <1>1, <2>2, <2>3 DEF Distinct
  <2> QED  BY <2>1, <2>4
<1>4. ASSUME s # <<>>
      PROVE  Distinct(Tail(s), f) /\ \A x \in ToSet(Tail(s)) : f[x] # f[Head(s)]
  <2>1. PICK t : t = Tail(s)
    OBVIOUS
  <2>2. /\ t \in Seq(S) /\ DOMAIN t = 1..Len(t) /\ Head(s) = s[1] /\ 1 \in DOMAIN s
        /\ \A k \in 1..Len(t) : t[k] = s[k + 1] /\ k + 1 \in DOMAIN s /\ k + 1 # 1
    BY <1>1, <1>4, <2>1
  <2>3. ToSet(t) = {t[k] : k \in 1..Len(t)}
    BY <2>2, ElementsOf
  <2>4. Distinct(t, f)
    BY <2>2 DEF Distinct
  <2>5. \A x \in ToSet(t) : f[x] # f[Head(s)]
    BY <2>2, <2>3 DEF Distinct
  <2> QED  BY <2>1, <2>4, <2>5
<1> QED  BY <1>2, <1>3, <1>4

PollRec == [pc : {"idle", "pop", "stream", "push", "take", "save", "dead", "flush", "size"},
            flushAll : BOOLEAN, batch : Seq(Named), dead : Seq(Item), flush : Seq(Item),
            reque : Seq(Named), saving : Seq(Stream)]

\* poll()'s locals and what they stand for, while nobody calls.
LEMMA PollKnows ==
    ASSUME IInv, QueueInv, ValuesOK, StoreInv, Sequential, PollStep
    PROVE  /\ \A c \in Caller : call[c] = Idle
           /\ poll.batch \in Seq(Item) /\ ToSet(poll.batch) \subseteq Named /\ Named \subseteq Item
           /\ poll.flush \in Seq(Item) /\ poll.dead \in Seq(Item) /\ Touched \subseteq Item
           /\ poll.saving \in Seq(Entry) /\ streamed \in Seq(Entry) /\ Streams \subseteq Entry
           /\ poll.reque = <<>> /\ poll \in PollRec
           /\ item \in [Item -> ItemRec] /\ store \in [Ident -> Data]
           /\ modMap \in [Ident -> Item \cup {NoItem}] /\ cache \in [Ident -> Item \cup {NoItem}]
           /\ UNCHANGED call
<1>1. \A c \in Caller : call[c] = Idle
  <2>1. CASE PollBegins
    BY <2>1 DEF PollBegins, StoreInv, OneCall, Busy, Sequential
  <2>2. CASE ~PollBegins
    <3>1. poll.pc # "idle"
      BY <2>2 DEF PollStep, PopModified, PopDone, StreamItem, PushStreamed, RequeueIncomplete,
         TakeStreamed, SaveOne, SaveReturns, EvictDead, DeadDone, FlushItem, FlushDone,
         EvictOldest, PollReturns
    <3> QED  BY <3>1 DEF StoreInv, OneCall
  <2> QED  BY <2>1, <2>2
<1>2. /\ poll.batch \in Seq(Named) /\ poll.flush \in Seq(Item) /\ poll.dead \in Seq(Item)
      /\ Named \subseteq Item /\ modMap \in [Ident -> Named \cup {NoItem}]
  BY DEF IInv, QueueTypes, Named
<1>3. poll.batch \in Seq(Item) /\ ToSet(poll.batch) \subseteq Named
  BY <1>2, SeqMonotonic, ElementsOf
<1>4. Touched \subseteq Item
  BY <1>2, ElementsOf DEF Touched
<1>5. poll.saving \in Seq(Entry) /\ streamed \in Seq(Entry) /\ store \in [Ident -> Data]
  BY DEF ValuesOK
<1>6. Streams \subseteq Entry
  BY <1>5, ElementsOf DEF Streams
<1>7. poll.reque = <<>> /\ item \in [Item -> ItemRec] /\ cache \in [Ident -> Item \cup {NoItem}]
  BY DEF QueueInv, ListsWorkedOff, IInv, CacheInv, CacheTypes
<1>8. UNCHANGED call
  BY DEF PollStep, PollBegins, PopModified, PopDone, StreamItem, PushStreamed, RequeueIncomplete,
         TakeStreamed, SaveOne, SaveReturns, EvictDead, DeadDone, FlushItem, FlushDone,
         EvictOldest, PollReturns
<1>9. modMap \in [Ident -> Item \cup {NoItem}] /\ poll \in PollRec
  BY <1>2 DEF IInv, QueueTypes, PollRec
<1> QED  BY <1>1, <1>2, <1>3, <1>4, <1>5, <1>6, <1>7, <1>8, <1>9

\* What is left to show of a step of poll().
LEMMA PollKeepsCalls ==
    ASSUME StoreInv, \A c \in Caller : call[c] = Idle, UNCHANGED call
    PROVE  OneCall' /\ CallsAreTrue'
<1>1. OneCall'
  <2>1. Idle.pc = "idle"
    BY DEF Idle
  <2>2. \A c \in Caller : call'[c] = Idle /\ call'[c].pc = "idle"
    BY <2>1
  <2> QED  BY <2>2, Zenon DEF OneCall, Busy
<1>2. CallIsTrue(Idle)'
  BY DEF CallIsTrue, Idle, HasItem
<1> QED  BY <1>1, <1>2 DEF CallsAreTrue

\* A step that moves nothing from one list to another.
LEMMA QuietKeepsStore ==
    ASSUME StoreInv, \A c \in Caller : call[c] = Idle,
           UNCHANGED <<call, store, item, cache, modMap>>,
           poll'.batch = poll.batch, poll.pc # "push", poll'.pc # "push",
           Touched' = Touched, Streams' = Streams, ToSet(poll.dead)' = ToSet(poll.dead), Phases'
    PROVE  StoreInv'
<1>1. Handled' = Handled /\ LiveItems' = LiveItems
  BY DEF Handled, LiveItems
<1>2. QueueOwns'
  BY DEF StoreInv, QueueOwns, Owns
<1>3. BatchOwns'
  BY DEF StoreInv, BatchOwns, Owns
<1>4. HandledIsSaved' /\ StreamsAgree'
  BY <1>1 DEF StoreInv, HandledIsSaved, StreamsAgree
<1>5. StatusIsTrue'
  BY <1>1 DEF StoreInv, StatusIsTrue, Changing
<1> QED  BY <1>2, <1>3, <1>4, <1>5, PollKeepsCalls DEF StoreInv

\* poll() begins, ends, and goes from one part to the next.
LEMMA QuietSteps ==
    ASSUME IInv, QueueInv, ValuesOK, StoreInv, Sequential,
           \/ PollBegins \/ PollReturns \/ PopDone \/ RequeueIncomplete \/ TakeStreamed
           \/ SaveReturns \/ DeadDone \/ FlushDone
    PROVE  StoreInv' /\ UNCHANGED <<store, item, cache, modMap>> /\ poll'.batch = poll.batch
           /\ poll'.saving \o streamed' = poll.saving \o streamed
<1>1. PollStep
  BY DEF PollStep
<1>2. /\ \A c \in Caller : call[c] = Idle
      /\ poll.saving \in Seq(Entry) /\ streamed \in Seq(Entry) /\ poll.reque = <<>>
      /\ modMap \in [Ident -> Item \cup {NoItem}] /\ UNCHANGED call
  BY <1>1, PollKnows
<1>3. poll \in PollRec
  BY <1>1, PollKnows
<1> USE DEF PollRec
<1>4. UNCHANGED <<store, item, cache, modMap>>
  <2>1. CASE RequeueIncomplete
    <3>1. modMap' = [d \in Ident |-> modMap[d]] /\ UNCHANGED <<store, item, cache>>
      BY <1>2, <2>1 DEF RequeueIncomplete, cacheVars
    <3> QED  BY <1>2, <3>1
  <2>2. CASE ~RequeueIncomplete
    BY <2>2 DEF PollBegins, PollReturns, PopDone, TakeStreamed, SaveReturns, DeadDone, FlushDone,
                cacheVars, modVars
  <2> QED  BY <2>1, <2>2
<1>5. /\ poll.pc \notin {"stream", "push", "take"} => streamed = <<>>
      /\ poll.pc # "save" => poll.saving = <<>>
      /\ poll.pc = "pop" => poll.flush = <<>>
      /\ poll.pc \in {"idle", "pop", "flush", "size"} => poll.dead = <<>>
      /\ ~poll.flushAll => Len(poll.batch) + Len(streamed) <= BatchSize
      /\ poll.pc \notin {"pop", "stream", "push"} => poll.batch = <<>>
      /\ poll.pc \in {"idle", "size"} => poll.flush = <<>>
  BY DEF StoreInv, Phases, QueueInv, ListsWorkedOff
<1>6. /\ poll'.batch = poll.batch /\ poll'.flush = poll.flush /\ poll'.dead = poll.dead
      /\ poll'.saving \o streamed' = poll.saving \o streamed /\ Streams' = Streams
      /\ poll.pc # "push" /\ poll'.pc # "push" /\ Phases'
  <2>1. CASE PollBegins \/ PollReturns
    <3>1. /\ poll'.pc \in {"pop", "idle"} /\ poll.pc \in {"idle", "size"} /\ streamed' = streamed
          /\ poll'.batch = <<>> /\ poll'.flush = <<>> /\ poll'.dead = <<>> /\ poll'.saving = <<>>
      <4>1. CASE PollBegins
        BY <4>1 DEF PollBegins, PollIdle
      <4>2. CASE PollReturns
        BY <4>2 DEF PollReturns, PollIdle
      <4> QED  BY <2>1, <4>1, <4>2
    <3>2. /\ poll.batch = <<>> /\ poll.flush = <<>> /\ poll.dead = <<>> /\ poll.saving = <<>>
          /\ streamed = <<>>
      BY <1>5, <3>1
    <3>3. BatchSize \in Nat
      BY EvictorAssumption
    <3>4. Phases'
      BY <3>1, <3>2, <3>3 DEF Phases
    <3> QED  BY <3>1, <3>2, <3>4 DEF Streams
  <2>2. CASE PopDone \/ SaveReturns \/ DeadDone \/ FlushDone
    <3>1. /\ poll' = [poll EXCEPT !.pc = poll'.pc] /\ streamed' = streamed
          /\ \/ poll.pc = "pop" /\ poll'.pc = "stream"
             \/ poll.pc = "save" /\ poll.saving = <<>> /\ poll'.pc = "dead"
             \/ poll.pc = "dead" /\ poll.dead = <<>> /\ poll'.pc = "flush"
             \/ poll.pc = "flush" /\ poll'.pc = "size"
      BY <1>3, <2>2 DEF PopDone, SaveReturns, DeadDone, FlushDone, PollGoto
    <3>2. /\ poll'.batch = poll.batch /\ poll'.flush = poll.flush /\ poll'.dead = poll.dead
          /\ poll'.saving = poll.saving /\ poll'.flushAll = poll.flushAll
      BY <1>3, <3>1
    <3>3. Phases'
      BY <1>5, <3>1, <3>2 DEF Phases
    <3> QED  BY <3>1, <3>2, <3>3 DEF Streams
  <2>3. CASE RequeueIncomplete
    <3>1. /\ poll.pc = "stream" /\ poll' = [poll EXCEPT !.pc = "take", !.reque = <<>>]
          /\ streamed' = streamed
      BY <2>3 DEF RequeueIncomplete
    <3>2. /\ poll'.batch = poll.batch /\ poll'.flush = poll.flush /\ poll'.dead = poll.dead
          /\ poll'.saving = poll.saving /\ poll'.flushAll = poll.flushAll /\ poll'.pc = "take"
      BY <1>3, <3>1
    <3>3. Phases'
      BY <1>5, <3>1, <3>2 DEF Phases
    <3> QED  BY <3>1, <3>2, <3>3 DEF Streams
  <2>4. CASE TakeStreamed
    <3>1. poll.batch = <<>> /\ poll.pc = "take" /\ poll.saving = <<>>
      BY <1>5, <2>4 DEF TakeStreamed
    <3>2. (IF poll.flushAll \/ BatchSize > Len(streamed) THEN Len(streamed) ELSE BatchSize) = Len(streamed)
      <4>1. BatchSize \in Nat /\ Len(streamed) \in Nat
        BY <1>2, EvictorAssumption
      <4>2. ~poll.flushAll => Len(streamed) <= BatchSize
        BY <1>5, <3>1, <4>1
      <4> QED  BY <4>1, <4>2
    <3>3. /\ poll' = [poll EXCEPT !.pc = "save", !.saving = SubSeq(streamed, 1, Len(streamed))]
          /\ streamed' = SubSeq(streamed, Len(streamed) + 1, Len(streamed))
      BY <2>4, <3>2 DEF TakeStreamed
    <3>4. SubSeq(streamed, 1, Len(streamed)) = streamed /\ SubSeq(streamed, Len(streamed) + 1, Len(streamed)) = <<>>
      BY <1>2
    <3>5. /\ poll'.batch = poll.batch /\ poll'.flush = poll.flush /\ poll'.dead = poll.dead
          /\ poll'.saving = streamed /\ poll'.flushAll = poll.flushAll /\ poll'.pc = "save"
          /\ streamed' = <<>>
      BY <1>3, <3>3, <3>4
    <3>6. Phases'
      BY <1>5, <3>1, <3>5, EvictorAssumption DEF Phases
    <3>7. ToSet(<<>>) = {}
      BY ElementsOfEmpty
    <3> QED  BY <1>2, <3>1, <3>5, <3>6, <3>7 DEF Streams
  <2> QED  BY <2>1, <2>2, <2>3, <2>4
<1>7. Touched' = Touched /\ ToSet(poll.dead)' = ToSet(poll.dead)
  BY <1>6 DEF Touched
<1> QED  BY <1>2, <1>4, <1>6, <1>7, QuietKeepsStore

\* The batch, and what happens to its Items, are told apart by the idents.
LEMMA BatchIsDistinct ==
    ASSUME StoreInv, poll.batch \in Seq(Item), NEW f, f = [i \in Item |-> item[i].ident]
    PROVE  Distinct(poll.batch, f) /\ \A i \in Item : f[i] = item[i].ident
<1>1. \A j \in DOMAIN poll.batch : poll.batch[j] \in Item /\ f[poll.batch[j]] = item[poll.batch[j]].ident
  OBVIOUS
<1>2. Distinct(poll.batch, f)
  BY <1>1 DEF StoreInv, BatchOwns, Distinct
<1> QED  BY <1>2

\* _popModified(): the Item of an ident moves from the queue to the batch.
LEMMA PopKeepsStore ==
    ASSUME IInv, QueueInv, ValuesOK, StoreInv, Sequential, PopModified
    PROVE  StoreInv'
<1>1. PollStep
  BY DEF PollStep
<1>2. /\ \A c \in Caller : call[c] = Idle
      /\ poll.batch \in Seq(Item) /\ ToSet(poll.batch) \subseteq Item /\ Touched \subseteq Item
      /\ modMap \in [Ident -> Item \cup {NoItem}] /\ UNCHANGED call /\ poll \in PollRec
  BY <1>1, PollKnows DEF Named
<1>3. PICK d : d = Head(modQueue)
  OBVIOUS
<1>4. PICK i : i = modMap[d]
  OBVIOUS
<1>5. /\ d \in Ident /\ poll.pc = "pop" /\ UNCHANGED <<store, item, cache, streamed>>
      /\ modMap' = [modMap EXCEPT ![d] = NoItem] /\ (poll.flushAll \/ Len(poll.batch) < BatchSize)
      /\ poll' = IF i = NoItem THEN poll ELSE [poll EXCEPT !.batch = Append(poll.batch, i)]
  BY <1>3, <1>4 DEF PopModified, PopsMore, cacheVars, IInv, QueueTypes
<1>6. CASE i = NoItem
  <2>1. modMap' = modMap /\ poll' = poll
    BY <1>2, <1>4, <1>5, <1>6
  <2>2. UNCHANGED <<call, store, item, cache, modMap>>
    BY <1>2, <1>5, <2>1
  <2>3. Touched' = Touched /\ Streams' = Streams /\ Phases'
    BY <1>5, <2>1, <2>2 DEF Touched, Streams, StoreInv, Phases
  <2> QED  BY <1>2, <1>5, <2>1, <2>2, <2>3, QuietKeepsStore
<1>7. CASE i # NoItem
  <2>1. /\ i \in Item /\ item[i].ident = d
        /\ \A e \in Ident : e # d => modMap'[e] = modMap[e]
        /\ modMap'[d] = NoItem
    BY <1>2, <1>4, <1>5, <1>7 DEF StoreInv, QueueOwns, Owns
  <2>2. /\ poll'.batch = Append(poll.batch, i) /\ poll'.flush = poll.flush /\ poll'.dead = poll.dead
        /\ poll'.saving = poll.saving /\ poll'.flushAll = poll.flushAll /\ poll'.pc = "pop"
    BY <1>2, <1>5, <1>7 DEF PollRec
  <2>3. ToSet(poll'.batch) = ToSet(poll.batch) \cup {i}
    BY <1>2, <2>1, <2>2, ElementsOfAppend
  <2>4. /\ \A j \in ToSet(poll.batch) \cup Touched : item[j].ident # d
        /\ Owns(i, d)
    BY <1>4, <1>5, <1>7 DEF StoreInv, QueueOwns
  <2>5. Touched' = Touched /\ Streams' = Streams
    BY <1>5, <2>2 DEF Touched, Streams
  <2>6. Handled' = Handled
    BY <2>1, <2>3, <2>4, <2>5 DEF Handled
  <2>7. Phases'
    <3>1. streamed = <<>> /\ poll.saving = <<>> /\ poll.flush = <<>> /\ poll.dead = <<>>
      BY <1>5 DEF StoreInv, Phases
    <3>2. ~poll.flushAll => Len(poll'.batch) <= BatchSize
      BY <1>2, <1>5, <2>1, <2>2, EvictorAssumption
    <3>3. Len(poll'.batch) \in Nat
      BY <1>2, <2>1, <2>2
    <3> QED  BY <1>5, <2>2, <3>1, <3>2, <3>3 DEF Phases
  <2>8. QueueOwns'
    <3> SUFFICES ASSUME NEW e \in Ident, NEW m, m = modMap'[e], m # NoItem
                 PROVE  /\ Owns(m, e)'
                        /\ \A j \in ToSet(poll'.batch) \cup Touched' : item'[j].ident # e
      BY DEF QueueOwns, Owns
    <3>1. e # d /\ modMap'[e] = modMap[e]
      BY <2>1
    <3>2. /\ Owns(modMap[e], e)
          /\ \A j \in ToSet(poll.batch) \cup Touched : item[j].ident # e
      BY <3>1 DEF StoreInv, QueueOwns
    <3>3. Owns(m, e)'
      BY <1>5, <2>5, <3>1, <3>2 DEF Owns
    <3> QED  BY <1>5, <2>1, <2>3, <2>5, <3>1, <3>2, <3>3
  <2>9. BatchOwns'
    <3>1. PICK f : f = [j \in Item |-> item[j].ident]
      OBVIOUS
    <3>2. Distinct(poll.batch, f) /\ \A j \in Item : f[j] = item[j].ident
      BY <1>2, <3>1, BatchIsDistinct
    <3>3. \A j \in ToSet(poll.batch) : f[j] # f[i]
      BY <1>2, <2>1, <2>4, <3>2
    <3>4. Distinct(poll'.batch, f)
      BY <1>2, <2>1, <2>2, <3>2, <3>3, DistinctElements
    <3>5. \A j \in DOMAIN poll'.batch : f[poll'.batch[j]] = item[poll'.batch[j]].ident
      BY <1>2, <2>1, <2>2, <3>2
    <3>6. ASSUME NEW k \in ToSet(poll.batch)'
          PROVE  /\ Owns(k, item[k].ident)'
                 /\ \A j \in Touched : item[j].ident # item[k].ident
      <4>1. Owns(k, item[k].ident) /\ \A j \in Touched : item[j].ident # item[k].ident
        <5>1. CASE k = i
          BY <2>1, <2>4, <5>1
        <5>2. CASE k \in ToSet(poll.batch)
          BY <1>5, <5>2 DEF StoreInv, BatchOwns
        <5> QED  BY <2>3, <5>1, <5>2
      <4> QED  BY <1>5, <2>5, <4>1 DEF Owns
    <3> QED  BY <1>5, <2>2, <2>5, <3>4, <3>5, <3>6 DEF BatchOwns, Distinct
  <2>10. HandledIsSaved' /\ StreamsAgree'
    BY <1>5, <2>5, <2>6 DEF StoreInv, HandledIsSaved, StreamsAgree
  <2>11. StatusIsTrue'
    <3>1. LiveItems' \subseteq LiveItems
      BY <1>2, <1>4, <1>5, <2>1, <2>3 DEF LiveItems
    <3> QED  BY <1>2, <1>5, <2>2, <2>5, <3>1 DEF StoreInv, StatusIsTrue, Changing
  <2> QED  BY <1>2, <2>7, <2>8, <2>9, <2>10, <2>11, PollKeepsCalls DEF StoreInv
<1> QED  BY <1>6, <1>7

\* The head of the batch while it is streamed: nothing else is of its ident.
LEMMA HeadOwns ==
    ASSUME IInv, QueueInv, StoreInv, poll.batch \in Seq(Item), ToSet(poll.batch) \subseteq Named,
           poll.batch # <<>>, NEW i, i = Head(poll.batch)
    PROVE  /\ i \in Item /\ item[i].ident \in Ident /\ Owns(i, item[i].ident)
           /\ ToSet(poll.batch) = ToSet(Tail(poll.batch)) \cup {i}
           /\ \A j \in ToSet(Tail(poll.batch)) : item[j].ident # item[i].ident /\ j # i
           /\ Tail(poll.batch) \in Seq(Item) /\ Len(Tail(poll.batch)) = Len(poll.batch) - 1
           /\ \A j \in Touched : item[j].ident = item[i].ident => poll.pc = "push" /\ j = i
           /\ \A j, k \in DOMAIN Tail(poll.batch) :
                 item[Tail(poll.batch)[j]].ident = item[Tail(poll.batch)[k]].ident => j = k
<1>1. i \in ToSet(poll.batch) /\ i \in Item
  BY ElementsOfTail
<1>2. item[i].ident \in Ident /\ Owns(i, item[i].ident)
  BY <1>1 DEF Named, StoreInv, BatchOwns
<1>3. PICK f : f = [j \in Item |-> item[j].ident]
  OBVIOUS
<1>4. Distinct(poll.batch, f) /\ \A j \in Item : f[j] = item[j].ident
  BY <1>3, BatchIsDistinct
<1>5. PICK t : t = Tail(poll.batch)
  OBVIOUS
<1>6. /\ t \in Seq(Item) /\ Len(t) = Len(poll.batch) - 1 /\ ToSet(t) \subseteq Item
      /\ ToSet(poll.batch) = ToSet(t) \cup {i}
  <2>1. t \in Seq(Item) /\ Len(t) = Len(poll.batch) - 1
    BY <1>5
  <2> QED  BY <1>5, <2>1, ElementsOf, ListElements
<1>7. Distinct(t, f) /\ \A j \in ToSet(t) : f[j] # f[i]
  BY <1>4, <1>5, DistinctElements
<1>8. \A j \in ToSet(t) : item[j].ident # item[i].ident /\ j # i
  BY <1>1, <1>4, <1>6, <1>7
<1>9. \A j, k \in DOMAIN t : item[t[j]].ident = item[t[k]].ident => j = k
  <2>1. \A j \in DOMAIN t : t[j] \in Item
    BY <1>6
  <2> QED  BY <1>4, <1>7, <2>1 DEF Distinct
<1>10. \A j \in Touched : item[j].ident = item[i].ident => poll.pc = "push" /\ j = i
  BY <1>1 DEF StoreInv, BatchOwns
<1> QED  BY <1>1, <1>2, <1>5, <1>6, <1>8, <1>9, <1>10

\* An Item of the batch is streamed, or left aside.
LEMMA StreamKeepsStore ==
    ASSUME IInv, QueueInv, ValuesOK, StoreInv, Sequential, StreamItem
    PROVE  /\ StoreInv' /\ Streams' = Streams /\ UNCHANGED <<store, cache, modMap, streamed>>
           /\ poll'.saving = poll.saving
<1>1. PollStep
  BY DEF PollStep
<1>2. /\ \A c \in Caller : call[c] = Idle /\ poll \in PollRec /\ poll.reque = <<>>
      /\ poll.batch \in Seq(Item) /\ ToSet(poll.batch) \subseteq Item /\ Touched \subseteq Item
      /\ ToSet(poll.batch) \subseteq Named /\ poll.flush \in Seq(Item) /\ poll.dead \in Seq(Item)
      /\ item \in [Item -> ItemRec] /\ UNCHANGED call
  BY <1>1, PollKnows DEF Named
<1>3. PICK i : i = Head(poll.batch)
  OBVIOUS
<1>4. /\ poll.pc = "stream" /\ poll.batch # <<>> /\ UNCHANGED <<store, cache, modMap, streamed>>
      /\ \/ StreamDirty(i)
         \/ StreamDestroyed(i)
         \/ /\ item[i].status = "dead" /\ UNCHANGED item
            /\ poll' = Unstreamed([poll EXCEPT !.dead = Append(poll.dead, i)])
         \/ item[i].status = "clean" /\ poll' = Unstreamed(poll) /\ UNCHANGED item
  BY <1>3 DEF StreamItem, cacheVars, modVars
<1>5. /\ i \in Item /\ item[i].ident \in Ident /\ Owns(i, item[i].ident)
      /\ ToSet(poll.batch) = ToSet(Tail(poll.batch)) \cup {i}
      /\ \A j \in ToSet(Tail(poll.batch)) : item[j].ident # item[i].ident /\ j # i
      /\ Tail(poll.batch) \in Seq(Item) /\ Len(Tail(poll.batch)) = Len(poll.batch) - 1
      /\ \A j \in Touched : item[j].ident # item[i].ident
      /\ \A j, k \in DOMAIN Tail(poll.batch) :
            item[Tail(poll.batch)[j]].ident = item[Tail(poll.batch)[k]].ident => j = k
  BY <1>2, <1>3, <1>4, HeadOwns
<1>6. i \notin Touched
  BY <1>5
<1>7. /\ ToSet(Append(poll.flush, i)) = ToSet(poll.flush) \cup {i}
      /\ ToSet(Append(poll.dead, i)) = ToSet(poll.dead) \cup {i}
  BY <1>2, <1>5, ElementsOfAppend
<1>8. ASSUME poll'.pc = "push", poll'.batch = poll.batch, poll'.flushAll = poll.flushAll,
             poll'.saving = poll.saving,
             Touched' = Touched \cup {i}, ToSet(poll.dead)' \subseteq ToSet(poll.dead) \cup {i},
             \A j \in Item : item'[j].ident = item[j].ident /\ item'[j].data = item[j].data,
             \A j \in Item : j # i => item'[j].status = item[j].status,
             item'[i].status \in {"created", "modified", "dead"},
             i \in ToSet(poll.dead)' => item'[i].status = "dead"
      PROVE  StoreInv' /\ Streams' = Streams
  <2>1. Streams' = Streams /\ Handled' = Handled /\ LiveItems' = LiveItems
    BY <1>2, <1>4, <1>5, <1>6, <1>8 DEF Streams, Handled, LiveItems
  <2>2. Phases'
    BY <1>3, <1>4, <1>8 DEF StoreInv, Phases
  <2>3. Handled \subseteq Item /\ i \notin Handled
    BY <1>2, <1>6 DEF Handled
  <2>4. ASSUME NEW m \in Item, NEW e, Owns(m, e)
        PROVE  Owns(m, e)'
    BY <1>4, <1>8, <2>1, <2>4 DEF Owns
  <2>5. QueueOwns'
    <3> SUFFICES ASSUME NEW e \in Ident, NEW m, m = modMap[e], m # NoItem
                 PROVE  /\ Owns(m, e)'
                        /\ \A j \in ToSet(poll.batch) \cup Touched' : item'[j].ident # e
      BY <1>4, <1>8 DEF QueueOwns, Owns
    <3>1. /\ Owns(m, e) /\ m \in Item
          /\ \A j \in ToSet(poll.batch) \cup Touched : item[j].ident # e
      BY <1>1, PollKnows DEF StoreInv, QueueOwns
    <3> QED  BY <1>2, <1>5, <1>8, <2>4, <3>1
  <2>6. BatchOwns'
    <3>1. \A j \in DOMAIN poll.batch : poll.batch[j] \in Item
      BY <1>2
    <3>2. ASSUME NEW k \in ToSet(poll.batch)
          PROVE  /\ Owns(k, item[k].ident)'
                 /\ \A j \in Touched' : item'[j].ident = item'[k].ident => j = k /\ k = i
      <4>1. k \in Item /\ item'[k].ident = item[k].ident /\ Owns(k, item[k].ident)
        BY <1>2, <1>8 DEF StoreInv, BatchOwns
      <4>2. PICK e : e = item[k].ident
        OBVIOUS
      <4>3. Owns(k, e)'
        BY <2>4, <4>1, <4>2
      <4>4. \A j \in Touched' : item'[j].ident = item'[k].ident => j = k /\ k = i
        <5> SUFFICES ASSUME NEW j \in Touched \cup {i}, item'[j].ident = item'[k].ident
                     PROVE  j = k /\ k = i
          BY <1>8
        <5>1. j \in Item /\ item[j].ident = item[k].ident
          BY <1>2, <1>5, <1>8, <4>1
        <5>2. j = i
          BY <1>4, <5>1 DEF StoreInv, BatchOwns
        <5> QED  BY <1>5, <5>1, <5>2
      <4> QED  BY <4>1, <4>2, <4>3, <4>4 DEF Owns
    <3> QED  BY <1>3, <1>8, <3>1, <3>2 DEF StoreInv, BatchOwns, Owns
  <2>7. HandledIsSaved'
    BY <1>4, <1>8, <2>1, <2>3 DEF StoreInv, HandledIsSaved
  <2>8. StreamsAgree'
    BY <1>4, <1>8, <2>1, <2>3 DEF StoreInv, StreamsAgree
  <2>9. StatusIsTrue'
    <3>1. LiveItems \subseteq Item
      BY <1>1, <1>2, PollKnows DEF LiveItems, Idle
    <3>2. ToSet(poll.dead) \subseteq Item
      BY <1>2, ElementsOf
    <3>3. \A j \in ToSet(poll.dead)' : item'[j].status = "dead"
      BY <1>8, <3>2 DEF StoreInv, StatusIsTrue
    <3>4. \A j \in LiveItems :
              /\ j \notin Touched' /\ item'[j].status \in {"created", "dead"} => store[item'[j].ident] = NoData
              /\ item'[j].status = "clean" => store[item'[j].ident] = item'[j].data
      <4> SUFFICES ASSUME NEW j \in LiveItems, j # i
                   PROVE  /\ j \notin Touched' /\ item'[j].status \in {"created", "dead"} => store[item'[j].ident] = NoData
                          /\ item'[j].status = "clean" => store[item'[j].ident] = item'[j].data
        BY <1>8
      <4>1. ~Changing(j)
        BY <1>2 DEF Changing, Idle
      <4> QED  BY <1>8, <3>1, <4>1 DEF StoreInv, StatusIsTrue
    <3> QED  BY <1>4, <2>1, <3>3, <3>4 DEF StatusIsTrue
  <2> QED  BY <1>2, <2>1, <2>2, <2>5, <2>6, <2>7, <2>8, <2>9, PollKeepsCalls DEF StoreInv
<1>9. ASSUME poll'.pc = "stream", poll'.batch = Tail(poll.batch), poll'.flushAll = poll.flushAll,
             poll'.saving = poll.saving, UNCHANGED item,
             \/ item[i].status = "clean" /\ Touched' = Touched /\ ToSet(poll.dead)' = ToSet(poll.dead)
             \/ /\ item[i].status = "dead" /\ Touched' = Touched \cup {i}
                /\ ToSet(poll.dead)' = ToSet(poll.dead) \cup {i}
      PROVE  StoreInv' /\ Streams' = Streams
  <2>1. Streams' = Streams /\ LiveItems' \subseteq LiveItems /\ Touched \subseteq Touched'
    BY <1>2, <1>4, <1>5, <1>9 DEF Streams, LiveItems
  <2>2. Phases'
    <3>1. Len(poll.batch) \in Nat /\ Len(streamed) \in Nat
      BY <1>1, <1>2, PollKnows
    <3> QED  BY <1>4, <1>5, <1>9, <3>1, EvictorAssumption DEF StoreInv, Phases
  <2>3. Handled \subseteq Handled' /\ Handled' \subseteq Handled \cup {i}
    BY <1>5, <1>6, <1>9 DEF Handled
  <2>4. QueueOwns'
    <3> SUFFICES ASSUME NEW e \in Ident, NEW m, m = modMap[e], m # NoItem
                 PROVE  /\ Owns(m, e)'
                        /\ \A j \in ToSet(Tail(poll.batch)) \cup Touched' : item[j].ident # e
      BY <1>4, <1>9 DEF QueueOwns, Owns
    <3>1. /\ Owns(m, e)
          /\ \A j \in ToSet(poll.batch) \cup Touched : item[j].ident # e
      BY DEF StoreInv, QueueOwns
    <3> QED  BY <1>4, <1>5, <1>9, <2>1, <3>1 DEF Owns
  <2>5. BatchOwns'
    <3>1. ASSUME NEW k \in ToSet(Tail(poll.batch))
          PROVE  /\ Owns(k, item[k].ident)'
                 /\ \A j \in Touched' : item[j].ident # item[k].ident
      <4>1. /\ Owns(k, item[k].ident)
            /\ \A j \in Touched : item[j].ident # item[k].ident
        BY <1>4, <1>5 DEF StoreInv, BatchOwns
      <4>2. item[k].ident # item[i].ident
        BY <1>5
      <4> QED  BY <1>4, <1>9, <2>1, <4>1, <4>2 DEF Owns
    <3> QED  BY <1>5, <1>9, <3>1 DEF BatchOwns
  <2>6. HandledIsSaved'
    <3> SUFFICES ASSUME NEW j \in Handled'
                 PROVE  /\ item[j].ident \in Ident
                        /\ \A e \in Streams : e.ident = item[j].ident => e.data = item[j].data
                        /\ store[item[j].ident] = item[j].data \/ \E e \in Streams : e.ident = item[j].ident
      BY <1>4, <1>9, <2>1 DEF HandledIsSaved
    <3>1. CASE j \in Handled
      BY <3>1 DEF StoreInv, HandledIsSaved
    <3>2. CASE j = i /\ j \notin Handled
      <4>1. item[i].status = "dead"
        BY <1>6, <1>9, <3>2 DEF Handled
      <4>2. item[i].data = NoData
        BY <1>5, <4>1 DEF IInv, CacheInv, DeadAreEmpty
      <4>3. i \in LiveItems
        BY <1>5 DEF LiveItems, Item, NoItem
      <4>4. store[item[i].ident] = NoData
        BY <1>6, <4>1, <4>3 DEF StoreInv, StatusIsTrue
      <4> QED  BY <1>5, <3>2, <4>2, <4>4 DEF Owns
    <3> QED  BY <2>3, <3>1, <3>2
  <2>7. StreamsAgree'
    BY <1>4, <1>9, <2>1, <2>3 DEF StoreInv, StreamsAgree
  <2>8. StatusIsTrue'
    <3>1. \A j \in ToSet(poll.dead)' : item'[j].status = "dead"
      BY <1>9 DEF StoreInv, StatusIsTrue
    <3>2. \A j : Changing(j)' <=> Changing(j)
      BY <1>2 DEF Changing
    <3> QED  BY <1>4, <1>9, <2>1, <3>1, <3>2 DEF StoreInv, StatusIsTrue
  <2> QED  BY <1>2, <2>1, <2>2, <2>4, <2>5, <2>6, <2>7, <2>8, PollKeepsCalls DEF StoreInv
<1>11. CASE StreamDirty(i)
  <2>1. /\ item[i].status \in {"created", "modified"} /\ UNCHANGED item
        /\ poll' = [poll EXCEPT !.flush = Append(poll.flush, i), !.pc = "push"]
    BY <1>11 DEF StreamDirty, Streamed, Sequential
  <2>2. /\ poll'.pc = "push" /\ poll'.batch = poll.batch /\ poll'.flushAll = poll.flushAll
        /\ poll'.saving = poll.saving /\ poll'.flush = Append(poll.flush, i) /\ poll'.dead = poll.dead
    BY <1>2, <2>1 DEF PollRec
  <2>3. Touched' = Touched \cup {i} /\ ToSet(poll.dead)' = ToSet(poll.dead) /\ i \notin ToSet(poll.dead)
    BY <1>6, <1>7, <2>2 DEF Touched
  <2> QED  BY <1>4, <1>8, <2>1, <2>2, <2>3
<1>12. CASE StreamDestroyed(i)
  <2>1. /\ item' = [item EXCEPT ![i].status = "dead"]
        /\ poll' = [poll EXCEPT !.dead = Append(poll.dead, i), !.pc = "push"]
    BY <1>12 DEF StreamDestroyed, Streamed
  <2>2. /\ poll'.pc = "push" /\ poll'.batch = poll.batch /\ poll'.flushAll = poll.flushAll
        /\ poll'.saving = poll.saving /\ poll'.flush = poll.flush /\ poll'.dead = Append(poll.dead, i)
    BY <1>2, <2>1 DEF PollRec
  <2>3. Touched' = Touched \cup {i} /\ ToSet(poll.dead)' = ToSet(poll.dead) \cup {i}
    BY <1>7, <2>2 DEF Touched
  <2>4. /\ \A j \in Item : item'[j].ident = item[j].ident /\ item'[j].data = item[j].data
        /\ \A j \in Item : j # i => item'[j].status = item[j].status
        /\ item'[i].status = "dead"
    BY <1>2, <1>5, <2>1 DEF ItemRec
  <2> QED  BY <1>4, <1>8, <2>2, <2>3, <2>4
<1>13. CASE /\ item[i].status \in {"dead", "clean"} /\ UNCHANGED item
            /\ \/ /\ item[i].status = "dead"
                  /\ poll' = [poll EXCEPT !.dead = Append(poll.dead, i), !.batch = Tail(poll.batch)]
               \/ item[i].status = "clean" /\ poll' = [poll EXCEPT !.batch = Tail(poll.batch)]
  <2>1. /\ poll'.pc = "stream" /\ poll'.batch = Tail(poll.batch) /\ poll'.flushAll = poll.flushAll
        /\ poll'.saving = poll.saving /\ poll'.flush = poll.flush
        /\ poll'.dead = IF item[i].status = "dead" THEN Append(poll.dead, i) ELSE poll.dead
    <3>1. poll.pc = "stream"
      BY <1>4
    <3>2. CASE item[i].status = "dead"
      <4>1. poll' = [poll EXCEPT !.dead = Append(poll.dead, i), !.batch = Tail(poll.batch)]
        BY <1>13, <3>2
      <4> QED  BY <1>2, <3>1, <3>2, <4>1 DEF PollRec
    <3>3. CASE item[i].status # "dead"
      <4>1. poll' = [poll EXCEPT !.batch = Tail(poll.batch)]
        BY <1>13, <3>3
      <4> QED  BY <1>2, <3>1, <3>3, <4>1 DEF PollRec
    <3> QED  BY <3>2, <3>3
  <2>2. \/ item[i].status = "clean" /\ Touched' = Touched /\ ToSet(poll.dead)' = ToSet(poll.dead)
        \/ /\ item[i].status = "dead" /\ Touched' = Touched \cup {i}
           /\ ToSet(poll.dead)' = ToSet(poll.dead) \cup {i}
    BY <1>7, <1>13, <2>1 DEF Touched
  <2> QED  BY <1>4, <1>9, <1>13, <2>1, <2>2
<1>14. StreamDirty(i) \/ StreamDestroyed(i) \/ (/\ item[i].status \in {"dead", "clean"} /\ UNCHANGED item
            /\ \/ /\ item[i].status = "dead"
                  /\ poll' = [poll EXCEPT !.dead = Append(poll.dead, i), !.batch = Tail(poll.batch)]
               \/ item[i].status = "clean" /\ poll' = [poll EXCEPT !.batch = Tail(poll.batch)])
  <2>1. ASSUME poll' = Unstreamed([poll EXCEPT !.dead = Append(poll.dead, i)])
        PROVE  poll' = [poll EXCEPT !.dead = Append(poll.dead, i), !.batch = Tail(poll.batch)]
    BY <1>2, <2>1 DEF Unstreamed, PollRec
  <2>2. ASSUME poll' = Unstreamed(poll)
        PROVE  poll' = [poll EXCEPT !.batch = Tail(poll.batch)]
    BY <2>2, Zenon DEF Unstreamed
  <2> QED  BY <1>4, <2>1, <2>2, Zenon
<1> QED  BY <1>4, <1>11, <1>12, <1>13, <1>14

\* The stream of the Item enters _streamedList.
LEMMA PushKeepsStore ==
    ASSUME IInv, QueueInv, ValuesOK, StoreInv, Sequential, PushStreamed
    PROVE  StoreInv'
<1>1. PollStep
  BY DEF PollStep
<1>2. /\ \A c \in Caller : call[c] = Idle /\ poll \in PollRec
      /\ poll.batch \in Seq(Item) /\ Touched \subseteq Item
      /\ ToSet(poll.batch) \subseteq Named /\ streamed \in Seq(Entry)
      /\ item \in [Item -> ItemRec] /\ UNCHANGED call
  BY <1>1, PollKnows
<1>3. PICK i : i = Head(poll.batch)
  OBVIOUS
<1>4. PICK x : x = [ident |-> item[i].ident, data |-> item[i].data]
  OBVIOUS
<1>5. /\ poll.pc = "push" /\ poll.batch # <<>> /\ UNCHANGED <<store, item, cache, modMap>>
      /\ streamed' = Append(streamed, x)
      /\ poll' = [poll EXCEPT !.pc = "stream", !.batch = Tail(poll.batch)]
  BY <1>3, <1>4 DEF PushStreamed, cacheVars, modVars, IInv, QueueTypes
<1>6. /\ i \in Item /\ item[i].ident \in Ident /\ Owns(i, item[i].ident)
      /\ ToSet(poll.batch) = ToSet(Tail(poll.batch)) \cup {i}
      /\ \A j \in ToSet(Tail(poll.batch)) : item[j].ident # item[i].ident /\ j # i
      /\ Tail(poll.batch) \in Seq(Item) /\ Len(Tail(poll.batch)) = Len(poll.batch) - 1
      /\ \A j \in Touched : item[j].ident = item[i].ident => j = i
      /\ \A j, k \in DOMAIN Tail(poll.batch) :
            item[Tail(poll.batch)[j]].ident = item[Tail(poll.batch)[k]].ident => j = k
  BY <1>2, <1>3, <1>5, HeadOwns
<1>7. i \in Touched /\ item[i].status \in {"created", "modified", "dead"}
  BY <1>3, <1>5 DEF StoreInv, Phases
<1>8. x \in Entry /\ x.ident = item[i].ident /\ x.data = item[i].data
  BY <1>4, <1>6 DEF Entry, ValuesOK
<1>9. /\ poll'.pc = "stream" /\ poll'.batch = Tail(poll.batch) /\ poll'.flushAll = poll.flushAll
      /\ poll'.saving = poll.saving /\ poll'.flush = poll.flush /\ poll'.dead = poll.dead
  BY <1>2, <1>5 DEF PollRec
<1>10. Touched' = Touched /\ ToSet(poll.dead)' = ToSet(poll.dead) /\ Streams' = Streams \cup {x}
  <2>1. ToSet(streamed') = ToSet(streamed) \cup {x}
    BY <1>2, <1>5, <1>8, ElementsOfAppend
  <2> QED  BY <1>9, <2>1 DEF Touched, Streams
<1>11. Handled' = Handled \cup {i} /\ LiveItems' \subseteq LiveItems
  BY <1>2, <1>5, <1>6, <1>7, <1>9, <1>10 DEF Handled, LiveItems
<1>12. \A e \in Streams : e.ident # x.ident
  BY <1>6, <1>8 DEF Owns
<1>13. Phases'
  <2>1. Len(poll.batch) \in Nat /\ Len(streamed) \in Nat /\ Len(streamed') = Len(streamed) + 1
    BY <1>2, <1>5, <1>8
  <2>2. ~poll.flushAll => Len(poll.batch) + Len(streamed) <= BatchSize
    BY DEF StoreInv, Phases
  <2>3. Len(poll'.batch) = Len(poll.batch) - 1
    BY <1>6, <1>9
  <2>4. ~poll'.flushAll => Len(poll'.batch) + Len(streamed') <= BatchSize
    <3>1. PICK n \in Nat : n = Len(poll.batch)
      BY <2>1
    <3>2. PICK m \in Nat : m = Len(streamed)
      BY <2>1
    <3>3. Len(poll'.batch) = n - 1 /\ Len(streamed') = m + 1
      BY <2>1, <2>3, <3>1, <3>2
    <3>4. Len(poll'.batch) + Len(streamed') = n + m
      BY <3>3
    <3>5. ~poll.flushAll => n + m <= BatchSize
      BY <2>2, <3>1, <3>2
    <3> QED  BY <1>9, <3>4, <3>5
  <2>5. poll.saving = <<>>
    BY <1>5 DEF StoreInv, Phases
  <2> QED  BY <1>9, <2>4, <2>5 DEF Phases
<1>14. QueueOwns'
  <2> SUFFICES ASSUME NEW e \in Ident, NEW m, m = modMap[e], m # NoItem
               PROVE  /\ Owns(m, e)'
                      /\ \A j \in ToSet(Tail(poll.batch)) \cup Touched : item[j].ident # e
    BY <1>5, <1>9, <1>10 DEF QueueOwns, Owns
  <2>1. /\ Owns(m, e)
        /\ \A j \in ToSet(poll.batch) \cup Touched : item[j].ident # e
    BY DEF StoreInv, QueueOwns
  <2>2. e # x.ident
    BY <1>6, <1>8, <2>1
  <2> QED  BY <1>5, <1>6, <1>10, <2>1, <2>2 DEF Owns
<1>15. BatchOwns'
  <2>1. ASSUME NEW k \in ToSet(Tail(poll.batch))
        PROVE  /\ Owns(k, item[k].ident)'
               /\ \A j \in Touched : item[j].ident # item[k].ident
    <3>1. /\ Owns(k, item[k].ident) /\ item[k].ident # item[i].ident
          /\ \A j \in Touched : item[j].ident = item[k].ident => j = k /\ k = i
      BY <1>3, <1>5, <1>6 DEF StoreInv, BatchOwns
    <3> QED  BY <1>5, <1>8, <1>10, <3>1 DEF Owns
  <2> QED  BY <1>5, <1>6, <1>9, <1>10, <2>1 DEF BatchOwns
<1>16. HandledIsSaved'
  <2> SUFFICES ASSUME NEW j \in Handled \cup {i}
               PROVE  /\ item[j].ident \in Ident
                      /\ \A e \in Streams \cup {x} : e.ident = item[j].ident => e.data = item[j].data
                      /\ store[item[j].ident] = item[j].data
                         \/ \E e \in Streams \cup {x} : e.ident = item[j].ident
    BY <1>5, <1>10, <1>11 DEF HandledIsSaved
  <2>1. CASE j = i
    BY <1>6, <1>8, <1>12, <2>1
  <2>2. CASE j # i
    <3>1. j \in Handled /\ item[j].ident # item[i].ident
      BY <1>6, <2>2 DEF Handled
    <3> QED  BY <1>8, <3>1 DEF StoreInv, HandledIsSaved
  <2> QED  BY <2>1, <2>2
<1>17. StreamsAgree'
  <2>1. \A e, f \in Streams \cup {x} : e.ident = f.ident => e.data = f.data
    BY <1>12 DEF StoreInv, StreamsAgree
  <2>2. \A e \in Streams \cup {x} : cache[e.ident] # NoItem =>
           cache[e.ident] \in Handled \cup {i} /\ item[cache[e.ident]].status # "clean"
    <3>1. cache[x.ident] # NoItem => cache[x.ident] = i /\ item[i].status # "clean"
      BY <1>6, <1>7, <1>8 DEF Owns
    <3> QED  BY <3>1 DEF StoreInv, StreamsAgree
  <2> QED  BY <1>5, <1>10, <1>11, <2>1, <2>2 DEF StreamsAgree
<1>18. StatusIsTrue'
  <2>1. \A j : Changing(j)' <=> Changing(j)
    BY <1>2 DEF Changing
  <2> QED  BY <1>5, <1>10, <1>11, <2>1 DEF StoreInv, StatusIsTrue
<1> QED  BY <1>2, <1>13, <1>14, <1>15, <1>16, <1>17, <1>18, PollKeepsCalls DEF StoreInv

\* A stream is saved.
LEMMA SaveKeepsStore ==
    ASSUME IInv, QueueInv, ValuesOK, StoreInv, Sequential, SaveOne
    PROVE  StoreInv'
<1>1. PollStep
  BY DEF PollStep
<1>2. /\ \A c \in Caller : call[c] = Idle /\ poll \in PollRec
      /\ Touched \subseteq Item /\ poll.saving \in Seq(Entry) /\ Streams \subseteq Entry
      /\ store \in [Ident -> Data] /\ UNCHANGED call
      /\ cache \in [Ident -> Item \cup {NoItem}] /\ modMap \in [Ident -> Item \cup {NoItem}]
  BY <1>1, PollKnows
<1>3. PICK x : x = Head(poll.saving)
  OBVIOUS
<1>4. /\ poll.pc = "save" /\ poll.saving # <<>> /\ UNCHANGED <<item, cache, modMap, streamed>>
      /\ store' = [store EXCEPT ![x.ident] = x.data]
      /\ poll' = [poll EXCEPT !.saving = Tail(poll.saving)]
  BY <1>3 DEF SaveOne, cacheVars, modVars, Sequential
<1>5. /\ poll'.pc = "save" /\ poll'.batch = poll.batch /\ poll'.flushAll = poll.flushAll
      /\ poll'.saving = Tail(poll.saving) /\ poll'.flush = poll.flush /\ poll'.dead = poll.dead
  BY <1>2, <1>4 DEF PollRec
<1>6. x \in Streams /\ Streams = Streams' \cup {x} /\ x.ident \in Ident
  <2>1. ToSet(poll.saving) = ToSet(Tail(poll.saving)) \cup {x}
    BY <1>2, <1>3, <1>4, ListElements
  <2>2. x \in Streams /\ Streams = Streams' \cup {x}
    BY <1>4, <1>5, <2>1 DEF Streams
  <2> QED  BY <1>2, <2>2 DEF Entry
<1>7. \A d \in Ident : store'[d] = IF d = x.ident THEN x.data ELSE store[d]
  BY <1>2, <1>4, <1>6
<1>8. poll.batch = <<>> /\ ToSet(poll.batch) = {} /\ streamed = <<>>
  BY <1>4, ElementsOfEmpty DEF QueueInv, ListsWorkedOff, StoreInv, Phases
<1>9. Touched' = Touched /\ Handled' = Handled /\ ToSet(poll.dead)' = ToSet(poll.dead)
      /\ LiveItems' = LiveItems
  BY <1>2, <1>4, <1>5 DEF Touched, Handled, LiveItems
<1>10. Phases'
  BY <1>4, <1>5, <1>8 DEF StoreInv, Phases
<1>11. QueueOwns'
  <2> SUFFICES ASSUME NEW e \in Ident, NEW m, m = modMap[e], m # NoItem
               PROVE  /\ Owns(m, e)'
                      /\ \A j \in ToSet(poll.batch) \cup Touched : item[j].ident # e
    BY <1>4, <1>5, <1>9 DEF QueueOwns, Owns
  <2>1. /\ Owns(m, e)
        /\ \A j \in ToSet(poll.batch) \cup Touched : item[j].ident # e
    BY DEF StoreInv, QueueOwns
  <2>2. e # x.ident
    BY <1>6, <2>1 DEF Owns
  <2> QED  BY <1>4, <1>6, <1>7, <2>1, <2>2 DEF Owns
<1>12. BatchOwns'
  BY <1>5, <1>8 DEF BatchOwns
<1>13. HandledIsSaved'
  <2> SUFFICES ASSUME NEW j \in Handled
               PROVE  /\ item[j].ident \in Ident
                      /\ \A e \in Streams' : e.ident = item[j].ident => e.data = item[j].data
                      /\ store'[item[j].ident] = item[j].data
                         \/ \E e \in Streams' : e.ident = item[j].ident
    BY <1>4, <1>9 DEF HandledIsSaved
  <2>1. /\ item[j].ident \in Ident
        /\ \A e \in Streams : e.ident = item[j].ident => e.data = item[j].data
        /\ store[item[j].ident] = item[j].data \/ \E e \in Streams : e.ident = item[j].ident
    BY DEF StoreInv, HandledIsSaved
  <2>2. CASE item[j].ident = x.ident
    BY <1>6, <1>7, <2>1, <2>2
  <2>3. CASE item[j].ident # x.ident
    BY <1>6, <1>7, <2>1, <2>3
  <2> QED  BY <2>1, <2>2, <2>3
<1>14. StreamsAgree'
  BY <1>4, <1>6, <1>9 DEF StoreInv, StreamsAgree
<1>15. StatusIsTrue'
  <2>1. ASSUME NEW j \in LiveItems
        PROVE  /\ item[j].ident \in Ident
               /\ item[j].ident = x.ident => j \in Touched /\ item[j].status # "clean"
    <3>1. PICK d \in Ident : j = cache[d] \/ j = modMap[d]
      BY <1>2, <1>8, <2>1 DEF LiveItems, Idle
    <3>2. j # NoItem
      BY <2>1 DEF LiveItems
    <3>3. CASE j = modMap[d]
      <4>1. Owns(j, d)
        BY <3>2, <3>3 DEF StoreInv, QueueOwns
      <4> QED  BY <1>6, <4>1 DEF Owns
    <3>4. CASE j = cache[d]
      <4>1. item[j].ident = d
        BY <3>2, <3>4, CachedItem DEF IInv
      <4>2. d = x.ident => j \in Handled /\ item[j].status # "clean"
        BY <1>6, <3>2, <3>4 DEF StoreInv, StreamsAgree
      <4> QED  BY <4>1, <4>2 DEF Handled
    <3> QED  BY <3>1, <3>3, <3>4
  <2>2. \A j : Changing(j)' <=> Changing(j)
    BY <1>2 DEF Changing
  <2>3. \A j \in LiveItems :
           /\ j \notin Touched /\ item[j].status \in {"created", "dead"} => store'[item[j].ident] = NoData
           /\ item[j].status = "clean" /\ ~Changing(j) => store'[item[j].ident] = item[j].data
    BY <1>7, <2>1 DEF StoreInv, StatusIsTrue
  <2>4. \A j \in ToSet(poll.dead) : item[j].status = "dead"
    BY DEF StoreInv, StatusIsTrue
  <2> QED  BY <1>4, <1>9, <2>2, <2>3, <2>4 DEF StatusIsTrue
<1> QED  BY <1>2, <1>10, <1>11, <1>12, <1>13, <1>14, <1>15, PollKeepsCalls DEF StoreInv

\* What the last parts of poll() do: the Items of its lists leave them, clean or
\* out of the cache.
WorksOff ==
    /\ UNCHANGED <<call, store, modMap, streamed>>
    /\ poll'.pc = poll.pc /\ poll'.batch = <<>> /\ poll'.saving = <<>>
    /\ poll'.flushAll = poll.flushAll
    /\ Touched' \subseteq Touched /\ ToSet(poll.dead)' \subseteq ToSet(poll.dead)
    /\ \A d \in Ident : \/ cache'[d] = cache[d]
                        \/ cache'[d] = NoItem /\ modMap[d] = NoItem
    /\ \A j \in Item : /\ item'[j].ident = item[j].ident /\ item'[j].data = item[j].data
                       /\ \/ item'[j].status = item[j].status
                          \/ /\ item'[j].status = "clean" /\ poll.pc = "flush"
                             /\ j \in LiveItems => store[item[j].ident] = item[j].data
    /\ \A j \in Touched \ Touched' :
          j \in LiveItems' => \/ item'[j].status \notin {"created", "dead"}
                              \/ store[item[j].ident] = NoData

LEMMA WorkingOffKeepsStore ==
    ASSUME IInv, StoreInv, \A c \in Caller : call[c] = Idle,
           poll.pc \in {"dead", "flush", "size"}, poll.batch = <<>>, Touched \subseteq Item,
           modMap \in [Ident -> Item \cup {NoItem}], cache \in [Ident -> Item \cup {NoItem}],
           WorksOff,
           poll.pc = "flush" => poll'.dead = <<>>,
           poll.pc = "size" => poll'.dead = <<>>
    PROVE  StoreInv'
<1>1. streamed = <<>> /\ poll.saving = <<>> /\ streamed' = <<>> /\ poll'.saving = <<>>
  BY DEF StoreInv, Phases, WorksOff
<1>2. Streams = {} /\ Streams' = {} /\ ToSet(poll.batch) = {} /\ ToSet(poll'.batch) = {}
  BY <1>1, ElementsOfEmpty DEF Streams, WorksOff
<1>3. Handled' = Touched' /\ Handled = Touched /\ Touched' \subseteq Touched
  BY <1>2 DEF Handled, WorksOff
<1>4. LiveItems' \subseteq LiveItems
  <2>1. \A d \in Ident : cache'[d] \in {cache[d], NoItem} /\ modMap'[d] = modMap[d]
    BY DEF WorksOff
  <2>2. call' = call
    BY DEF WorksOff
  <2> QED  BY <1>2, <2>1, <2>2 DEF LiveItems
<1>5. LiveItems \subseteq Item
  BY <1>2 DEF LiveItems, Idle
<1>6. Phases'
  <2>1. ~poll'.flushAll => Len(poll'.batch) + Len(streamed') <= BatchSize
    BY <1>1, EvictorAssumption DEF WorksOff
  <2> QED  BY <1>1, <2>1 DEF WorksOff, Phases
<1>7. QueueOwns'
  <2> SUFFICES ASSUME NEW e \in Ident, NEW m, m = modMap[e], m # NoItem
               PROVE  /\ item'[m].ident = e /\ cache'[e] \in {NoItem, m}
                      /\ cache'[e] = NoItem => store[e] = NoData
                      /\ \A j \in Touched' : item'[j].ident # e
    BY <1>2 DEF QueueOwns, Owns, WorksOff
  <2>1. /\ item[m].ident = e /\ cache[e] \in {NoItem, m}
        /\ cache[e] = NoItem => store[e] = NoData
        /\ \A j \in Touched : item[j].ident # e
    BY DEF StoreInv, QueueOwns, Owns
  <2> QED  BY <1>3, <2>1 DEF WorksOff
<1>8. BatchOwns'
  <2>1. poll'.batch = <<>>
    BY DEF WorksOff
  <2> QED  BY <1>2, <2>1 DEF BatchOwns
<1>9. HandledIsSaved'
  <2> SUFFICES ASSUME NEW j \in Touched'
               PROVE  item'[j].ident \in Ident /\ store'[item'[j].ident] = item'[j].data
    BY <1>2, <1>3 DEF HandledIsSaved
  <2>1. item[j].ident \in Ident /\ store[item[j].ident] = item[j].data
    BY <1>2, <1>3 DEF StoreInv, HandledIsSaved
  <2> QED  BY <1>3, <2>1 DEF WorksOff
<1>10. StreamsAgree'
  BY <1>2 DEF StreamsAgree
<1>11. StatusIsTrue'
  <2>1. \A j \in ToSet(poll.dead)' : item'[j].status = "dead"
    <3>1. CASE poll.pc = "dead"
      <4>1. \A j \in ToSet(poll.dead) : item[j].status = "dead" /\ j \in Item
        BY DEF StoreInv, StatusIsTrue, Touched
      <4> QED  BY <3>1, <4>1 DEF WorksOff
    <3>2. CASE poll.pc # "dead"
      BY <3>2, ElementsOfEmpty
    <3> QED  BY <3>1, <3>2
  <2>2. ASSUME NEW j \in LiveItems', j \notin Touched', item'[j].status \in {"created", "dead"}
        PROVE  store'[item'[j].ident] = NoData
    <3>1. j \in Item /\ j \in LiveItems /\ store' = store /\ item'[j].ident = item[j].ident
      BY <1>4, <1>5 DEF WorksOff
    <3>2. CASE j \in Touched
      BY <2>2, <3>1, <3>2 DEF WorksOff
    <3>3. CASE j \notin Touched
      <4>1. item[j].status = item'[j].status
        BY <2>2, <3>1 DEF WorksOff
      <4> QED  BY <2>2, <3>1, <3>3, <4>1 DEF StoreInv, StatusIsTrue
    <3> QED  BY <3>2, <3>3
  <2>3. ASSUME NEW j \in LiveItems', item'[j].status = "clean"
        PROVE  store'[item'[j].ident] = item'[j].data
    <3>1. j \in Item /\ j \in LiveItems /\ store' = store /\ item'[j].ident = item[j].ident
          /\ item'[j].data = item[j].data
      BY <1>4, <1>5 DEF WorksOff
    <3>2. ~Changing(j)
      BY DEF Changing, Idle
    <3>3. CASE item[j].status = "clean"
      BY <3>1, <3>2, <3>3 DEF StoreInv, StatusIsTrue
    <3>4. CASE item[j].status # "clean"
      BY <2>3, <3>1, <3>4 DEF WorksOff
    <3> QED  BY <3>3, <3>4
  <2> QED  BY <2>1, <2>2, <2>3 DEF StatusIsTrue
<1>12. call' = call
  BY DEF WorksOff
<1> QED  BY <1>6, <1>7, <1>8, <1>9, <1>10, <1>11, <1>12, PollKeepsCalls DEF StoreInv

\* Where poll() is when it works its lists off.
LEMMA WorkingOff ==
    ASSUME IInv, QueueInv, ValuesOK, StoreInv, Sequential, EvictDead \/ FlushItem \/ EvictOldest
    PROVE  /\ \A c \in Caller : call[c] = Idle
           /\ poll.pc \in {"dead", "flush", "size"} /\ poll.batch = <<>> /\ poll.saving = <<>>
           /\ Streams = {} /\ Handled = Touched /\ Touched \subseteq Item
           /\ poll.pc = "flush" => poll.dead = <<>>
           /\ poll.pc = "size" => poll.dead = <<>> /\ poll.flush = <<>>
           /\ modMap \in [Ident -> Item \cup {NoItem}] /\ cache \in [Ident -> Item \cup {NoItem}]
           /\ item \in [Item -> ItemRec] /\ poll \in PollRec
           /\ \A j \in LiveItems : \E d \in Ident : j = cache[d] \/ j = modMap[d]
           /\ UNCHANGED <<call, store, modMap, streamed>> /\ poll'.pc = poll.pc
           /\ poll'.batch = <<>> /\ poll'.saving = <<>> /\ poll'.flushAll = poll.flushAll
<1>1. PollStep
  BY DEF PollStep
<1>2. /\ \A c \in Caller : call[c] = Idle
      /\ Touched \subseteq Item /\ poll \in PollRec /\ item \in [Item -> ItemRec]
      /\ modMap \in [Ident -> Item \cup {NoItem}] /\ cache \in [Ident -> Item \cup {NoItem}]
      /\ UNCHANGED call
  BY <1>1, PollKnows
<1>3. poll.pc \in {"dead", "flush", "size"} /\ UNCHANGED <<store, modMap, streamed>>
  BY DEF EvictDead, FlushItem, EvictOldest, modVars
<1>4. /\ poll.batch = <<>> /\ poll.saving = <<>> /\ streamed = <<>>
      /\ poll.pc = "flush" => poll.dead = <<>>
      /\ poll.pc = "size" => poll.dead = <<>> /\ poll.flush = <<>>
  BY <1>3 DEF StoreInv, Phases, QueueInv, ListsWorkedOff
<1>5. Streams = {} /\ ToSet(poll.batch) = {} /\ Handled = Touched
  BY <1>4, ElementsOfEmpty DEF Streams, Handled
<1>6. \A j \in LiveItems : \E d \in Ident : j = cache[d] \/ j = modMap[d]
  BY <1>2, <1>5 DEF LiveItems, Idle
<1>7. /\ poll'.pc = poll.pc /\ poll'.batch = poll.batch /\ poll'.saving = poll.saving
      /\ poll'.flushAll = poll.flushAll
  BY <1>2 DEF EvictDead, FlushItem, EvictOldest, PollRec
<1> QED  BY <1>2, <1>3, <1>4, <1>5, <1>6, <1>7

\* Step 1 of poll(): a dead Item is evicted.
LEMMA EvictDeadKeepsStore ==
    ASSUME IInv, QueueInv, ValuesOK, StoreInv, Sequential, EvictDead
    PROVE  StoreInv'
<1>1. /\ \A c \in Caller : call[c] = Idle
      /\ poll.pc \in {"dead", "flush", "size"} /\ poll.batch = <<>> /\ poll.saving = <<>>
      /\ Streams = {} /\ Handled = Touched /\ Touched \subseteq Item
      /\ modMap \in [Ident -> Item \cup {NoItem}] /\ cache \in [Ident -> Item \cup {NoItem}]
      /\ item \in [Item -> ItemRec] /\ poll \in PollRec
      /\ UNCHANGED <<call, store, modMap, streamed>> /\ poll'.pc = poll.pc
      /\ poll'.batch = <<>> /\ poll'.saving = <<>> /\ poll'.flushAll = poll.flushAll
  BY WorkingOff
<1>2. PICK i : i = Head(poll.dead)
  OBVIOUS
<1>3. /\ poll.pc = "dead" /\ poll.dead # <<>>
      /\ \/ /\ item' = [item EXCEPT ![i].orphan = TRUE]
            /\ cache' = [cache EXCEPT ![item[i].ident] = NoItem]
         \/ UNCHANGED <<item, cache>>
      /\ poll' = [poll EXCEPT !.dead = Tail(poll.dead)]
  BY <1>2 DEF EvictDead, Evict, cacheVars
<1>4. poll'.dead = Tail(poll.dead) /\ poll'.flush = poll.flush
  BY <1>1, <1>3 DEF PollRec
<1>5. ToSet(poll.dead) = ToSet(Tail(poll.dead)) \cup {i}
  BY <1>1, <1>2, <1>3, ListElements DEF PollRec
<1>6. /\ Touched' \subseteq Touched /\ Touched \subseteq Touched' \cup {i}
      /\ ToSet(poll.dead)' \subseteq ToSet(poll.dead) /\ i \in Touched
  BY <1>4, <1>5 DEF Touched
<1>7. /\ i \in Item /\ item[i].status = "dead" /\ item[i].ident \in Ident
      /\ store[item[i].ident] = NoData
  <2>1. i \in Item /\ item[i].status = "dead"
    BY <1>1, <1>5, <1>6 DEF StoreInv, StatusIsTrue
  <2>2. item[i].data = NoData
    BY <2>1 DEF IInv, CacheInv, DeadAreEmpty
  <2> QED  BY <1>1, <1>6, <2>1, <2>2 DEF StoreInv, HandledIsSaved
<1>8. modMap[item[i].ident] = NoItem
  BY <1>6, <1>7 DEF StoreInv, QueueOwns
<1>9. /\ \A d \in Ident : cache'[d] = cache[d] \/ (cache'[d] = NoItem /\ modMap[d] = NoItem)
      /\ \A j \in Item : /\ item'[j].ident = item[j].ident /\ item'[j].data = item[j].data
                         /\ item'[j].status = item[j].status
  <2>1. CASE UNCHANGED <<item, cache>>
    BY <2>1
  <2>2. CASE /\ item' = [item EXCEPT ![i].orphan = TRUE]
             /\ cache' = [cache EXCEPT ![item[i].ident] = NoItem]
    <3>1. \A d \in Ident : cache'[d] = cache[d] \/ (cache'[d] = NoItem /\ modMap[d] = NoItem)
      BY <1>1, <1>7, <1>8, <2>2
    <3>2. \A j \in Item : /\ item'[j].ident = item[j].ident /\ item'[j].data = item[j].data
                          /\ item'[j].status = item[j].status
      BY <1>1, <2>2 DEF ItemRec
    <3> QED  BY <3>1, <3>2
  <2> QED  BY <1>3, <2>1, <2>2
<1>10. WorksOff
  BY <1>1, <1>6, <1>7, <1>9 DEF WorksOff
<1> QED  BY <1>1, <1>3, <1>10, WorkingOffKeepsStore

\* Step 2: a streamed Item becomes clean, what was streamed being in the store.
LEMMA FlushKeepsStore ==
    ASSUME IInv, QueueInv, ValuesOK, StoreInv, Sequential, FlushItem
    PROVE  StoreInv'
<1>1. /\ \A c \in Caller : call[c] = Idle
      /\ poll.pc \in {"dead", "flush", "size"} /\ poll.batch = <<>> /\ poll.saving = <<>>
      /\ Streams = {} /\ Handled = Touched /\ Touched \subseteq Item
      /\ poll.pc = "flush" => poll.dead = <<>>
      /\ modMap \in [Ident -> Item \cup {NoItem}] /\ cache \in [Ident -> Item \cup {NoItem}]
      /\ item \in [Item -> ItemRec] /\ poll \in PollRec
      /\ \A j \in LiveItems : \E d \in Ident : j = cache[d] \/ j = modMap[d]
      /\ UNCHANGED <<call, store, modMap, streamed>> /\ poll'.pc = poll.pc
      /\ poll'.batch = <<>> /\ poll'.saving = <<>> /\ poll'.flushAll = poll.flushAll
  BY WorkingOff
<1>2. PICK i : i = Head(poll.flush)
  OBVIOUS
<1>3. /\ poll.pc = "flush" /\ poll.flush # <<>> /\ UNCHANGED cache
      /\ item' = IF item[i].orphan THEN item ELSE [item EXCEPT ![i].status = "clean"]
      /\ poll' = [poll EXCEPT !.flush = Tail(poll.flush)]
  BY <1>2 DEF FlushItem, cacheVars
<1>4. poll'.dead = poll.dead /\ poll'.flush = Tail(poll.flush) /\ poll.dead = <<>>
  BY <1>1, <1>3 DEF PollRec
<1>5. ToSet(poll.flush) = ToSet(Tail(poll.flush)) \cup {i}
  BY <1>1, <1>2, <1>3, ListElements DEF PollRec
<1>6. /\ Touched' \subseteq Touched /\ Touched \subseteq Touched' \cup {i}
      /\ ToSet(poll.dead)' = ToSet(poll.dead) /\ i \in Touched /\ i \in Item
  BY <1>1, <1>4, <1>5 DEF Touched
<1>7. item[i].ident \in Ident /\ store[item[i].ident] = item[i].data
  BY <1>1, <1>6 DEF StoreInv, HandledIsSaved
<1>8. i \in LiveItems => ~item[i].orphan
  <2> SUFFICES ASSUME NEW d \in Ident, i = cache[d] \/ i = modMap[d]  PROVE ~item[i].orphan
    BY <1>1
  <2>1. i # NoItem
    BY <1>6 DEF Item, NoItem
  <2>2. i # modMap[d]
    BY <1>6, <2>1 DEF StoreInv, QueueOwns, Owns
  <2> QED  BY <2>1, <2>2, CachedItem DEF IInv
<1>9. /\ \A j \in Item : /\ item'[j].ident = item[j].ident /\ item'[j].data = item[j].data
                         /\ j # i \/ item[i].orphan => item'[j].status = item[j].status
      /\ ~item[i].orphan => item'[i].status = "clean"
  <2>1. CASE item[i].orphan
    BY <1>3, <2>1
  <2>2. CASE ~item[i].orphan
    BY <1>1, <1>3, <1>6, <2>2 DEF ItemRec
  <2> QED  BY <2>1, <2>2
<1>10. LiveItems' = LiveItems
  BY <1>1, <1>3 DEF LiveItems
<1>11. WorksOff
  <2>1. \A j \in Item : \/ item'[j].status = item[j].status
                        \/ /\ item'[j].status = "clean" /\ poll.pc = "flush"
                           /\ j \in LiveItems => store[item[j].ident] = item[j].data
    BY <1>3, <1>7, <1>9
  <2>2. \A j \in Touched \ Touched' : j \in LiveItems' => item'[j].status \notin {"created", "dead"}
    BY <1>6, <1>8, <1>9, <1>10
  <2> QED  BY <1>1, <1>3, <1>6, <1>9, <2>1, <2>2 DEF WorksOff
<1> QED  BY <1>1, <1>3, <1>4, <1>11, WorkingOffKeepsStore

\* Step 3: the least recently used Item is evicted; were it queued, it would be
\* in use.
LEMMA EvictOldestKeepsStore ==
    ASSUME IInv, QueueInv, ValuesOK, StoreInv, Sequential, EvictOldest
    PROVE  StoreInv'
<1>1. /\ \A c \in Caller : call[c] = Idle
      /\ poll.pc \in {"dead", "flush", "size"} /\ poll.batch = <<>> /\ poll.saving = <<>>
      /\ Touched \subseteq Item
      /\ poll.pc = "size" => poll.dead = <<>> /\ poll.flush = <<>>
      /\ modMap \in [Ident -> Item \cup {NoItem}] /\ cache \in [Ident -> Item \cup {NoItem}]
      /\ item \in [Item -> ItemRec]
      /\ UNCHANGED <<call, store, modMap, streamed>> /\ poll'.pc = poll.pc
      /\ poll'.batch = <<>> /\ poll'.saving = <<>> /\ poll'.flushAll = poll.flushAll
  BY WorkingOff
<1>2. PICK d : d = Last(evictorList)
  OBVIOUS
<1>3. PICK i : i = cache[d]
  OBVIOUS
<1>4. /\ poll.pc = "size" /\ i \notin InQueues /\ UNCHANGED poll
      /\ cache' = [cache EXCEPT ![item[i].ident] = NoItem]
      /\ item' = [item EXCEPT ![i].orphan = TRUE] /\ evictorList # <<>>
  <2>1. Len(evictorList) > EvictorSize /\ EvictorSize \in Nat
    BY EvictorAssumption DEF EvictOldest, TooMany
  <2>2. evictorList # <<>>
    BY <2>1
  <2> QED  BY <1>2, <1>3, <2>2 DEF EvictOldest, Oldest, Evict, InUse
<1>5. d \in Ident /\ i # NoItem /\ i \in Item /\ item[i].ident = d
  <2>1. evictorList \in Seq(Ident) /\ ToSet(evictorList) = Cached
    BY DEF IInv, CacheInv, CacheTypes, ListMatchesCache
  <2>2. Len(evictorList) \in 1..Len(evictorList) /\ Last(evictorList) = evictorList[Len(evictorList)]
    BY <1>4, <2>1 DEF Last
  <2>3. d \in Cached
    BY <1>2, <2>1, <2>2, ElementsOf
  <2> QED  BY <1>3, <2>3, CachedItem DEF Cached, IInv
<1>6. modMap[d] = NoItem
  <2>1. modMap[d] # i
    BY <1>4, <1>5 DEF InQueues
  <2> QED  BY <1>3, <1>5, <2>1 DEF StoreInv, QueueOwns, Owns
<1>7. \A e \in Ident : cache'[e] = cache[e] \/ (cache'[e] = NoItem /\ modMap[e] = NoItem)
  BY <1>1, <1>4, <1>5, <1>6
<1>8. \A j \in Item : /\ item'[j].ident = item[j].ident /\ item'[j].data = item[j].data
                      /\ item'[j].status = item[j].status
  BY <1>1, <1>4 DEF ItemRec
<1>9. Touched' = Touched /\ ToSet(poll.dead)' = ToSet(poll.dead) /\ poll'.dead = <<>>
  BY <1>1, <1>4 DEF Touched
<1>10. WorksOff
  BY <1>1, <1>7, <1>8, <1>9 DEF WorksOff
<1> QED  BY <1>1, <1>4, <1>9, <1>10, WorkingOffKeepsStore

LEMMA PollKeepsStore ==
    ASSUME IInv, QueueInv, ValuesOK, StoreInv, Sequential, PollStep
    PROVE  StoreInv'
BY QuietSteps, PopKeepsStore, StreamKeepsStore, PushKeepsStore, SaveKeepsStore,
   EvictDeadKeepsStore, FlushKeepsStore, EvictOldestKeepsStore DEF PollStep

-----------------------------------------------------------------------------

LEMMA InitStore == Init => StoreInv
<1> SUFFICES ASSUME Init  PROVE StoreInv
  OBVIOUS
<1>1. /\ \A c \in Caller : call[c] = Idle
      /\ \A d \in Ident : cache[d] = NoItem /\ modMap[d] = NoItem
      /\ poll = PollIdle /\ streamed = <<>>
  BY DEF Init
<1>2. /\ poll.pc = "idle" /\ poll.batch = <<>> /\ poll.saving = <<>> /\ poll.dead = <<>>
      /\ poll.flush = <<>> /\ ToSet(poll.batch) = {} /\ Touched = {} /\ Streams = {}
  BY <1>1, ElementsOfEmpty DEF PollIdle, Touched, Streams
<1>3. LiveItems = {} /\ Handled = {}
  BY <1>1, <1>2 DEF LiveItems, Handled, Idle
<1>4. Phases
  BY <1>1, <1>2, EvictorAssumption DEF Phases
<1>5. QueueOwns /\ BatchOwns /\ HandledIsSaved /\ StreamsAgree
  BY <1>1, <1>2, <1>3 DEF QueueOwns, BatchOwns, HandledIsSaved, StreamsAgree
<1>6. StatusIsTrue
  BY <1>2, <1>3, ElementsOfEmpty DEF StatusIsTrue
<1>7. OneCall /\ CallsAreTrue
  <2>1. Idle.pc = "idle" /\ CallIsTrue(Idle)
    BY DEF Idle, CallIsTrue, HasItem
  <2>2. \A c \in Caller : call[c].pc = "idle"
    BY <1>1, <2>1
  <2>3. OneCall
    BY <1>1, <2>2, Zenon DEF OneCall, Busy
  <2> QED  BY <1>1, <2>1, <2>3 DEF CallsAreTrue
<1> QED  BY <1>4, <1>5, <1>6, <1>7 DEF StoreInv

LEMMA StepStore ==
    ASSUME Sequential
    PROVE  IInv /\ QueueInv /\ ValuesOK /\ StoreInv /\ [Next]_vars => StoreInv'
<1> SUFFICES ASSUME IInv, QueueInv, ValuesOK, StoreInv, [Next]_vars  PROVE StoreInv'
  OBVIOUS
<1>1. CASE UNCHANGED vars \/ Finished
  <2>1. UNCHANGED vars
    BY <1>1 DEF Finished
  <2>2. UNCHANGED <<store, item, cache, modMap, streamed, call, poll>>
    BY <2>1 DEF vars, cacheVars, modVars
  <2>3. OneCall' /\ CallsAreTrue'
    BY <2>2 DEF StoreInv, OneCall, Busy, CallsAreTrue, CallIsTrue
  <2>4. Touched' = Touched /\ Streams' = Streams /\ Handled' = Handled /\ LiveItems' = LiveItems
    BY <2>2 DEF Touched, Streams, Handled, LiveItems
  <2>5. Phases'
    BY <2>2, <2>4 DEF StoreInv, Phases
  <2>6. QueueOwns' /\ BatchOwns'
    BY <2>2, <2>4 DEF StoreInv, QueueOwns, BatchOwns, Owns
  <2>7. HandledIsSaved' /\ StreamsAgree'
    BY <2>2, <2>4 DEF StoreInv, HandledIsSaved, StreamsAgree
  <2>8. StatusIsTrue'
    BY <2>2, <2>4 DEF StoreInv, StatusIsTrue, Changing
  <2> QED  BY <2>3, <2>5, <2>6, <2>7, <2>8 DEF StoreInv
<1>2. CASE PollStep
  BY <1>2, PollKeepsStore
<1>3. ASSUME NEW c \in Caller, Begin(c) \/ CallStep(c)
      PROVE  StoreInv'
  BY <1>3, StepIInv, CallersKeepStore
<1> QED  BY <1>1, <1>2, <1>3 DEF Next

\* All of what holds when calls come one at a time.
SequentialInv == IInv /\ Bounds /\ ValuesOK /\ QueueInv /\ StoreInv

LEMMA SpecSequential ==
    ASSUME Sequential
    PROVE  Spec => []SequentialInv
<1>1. ApartByRule /\ ~CompletedOnly
  BY DEF Sequential, ApartByRule
<1>2. Init => SequentialInv
  BY InitIInv, InitBounds, InitQueued, InitStore DEF SequentialInv
<1>3. SequentialInv /\ [Next]_vars => SequentialInv'
  <2> SUFFICES ASSUME SequentialInv, [Next]_vars
               PROVE  IInv' /\ Bounds' /\ ValuesOK' /\ QueueInv' /\ StoreInv'
    BY DEF SequentialInv
  <2>1. IInv' /\ Bounds' /\ ValuesOK'
    BY StepIInv, StepBounds DEF SequentialInv
  <2>2. QueueInv'
    BY <1>1, StepQueued DEF SequentialInv
  <2>3. StoreInv'
    BY StepStore DEF SequentialInv
  <2> QED  BY <2>1, <2>2, <2>3
<1> QED  BY <1>2, <1>3, PTL DEF Spec

\* With calls one at a time and nothing failing, an Item that says it is clean
\* is as the object store has it, but for a servant the application changed on
\* its way to setDirty().
THEOREM CleanIsWhatIsStored ==
    ASSUME Sequential
    PROVE  Spec => []CleanIsStored
<1>1. SequentialInv => CleanIsStored
  <2> SUFFICES ASSUME SequentialInv, NEW d \in Cached, NEW i, i = cache[d],
                      item[i].status = "clean",
                      \A c \in Caller : call[c].op = "setDirty" => call[c].held # i
               PROVE  store[d] = item[i].data
    BY DEF CleanIsStored
  <2>1. d \in Ident /\ i # NoItem /\ item[i].ident = d
    BY CachedItem DEF Cached, SequentialInv, IInv
  <2>2. i \in LiveItems /\ ~Changing(i)
    BY <2>1 DEF LiveItems, Changing
  <2> QED  BY <2>1, <2>2 DEF SequentialInv, StoreInv, StatusIsTrue
<1> QED  BY <1>1, SpecSequential, PTL

-----------------------------------------------------------------------------
(* What is promised. *)

\* The callers that are about to queue an Item of d.
Queueing(d) == {c \in Caller : call[c].pc = "queue" /\ call[c].ident = d}

\* Where the promise of d is: with a caller, in the queue, in the batch, in a
\* stream or in the store.
PromiseRule(d) ==
    /\ \A c \in Queueing(d) : Promise(d) = Saved(call[c].item)
    /\ Queueing(d) = {} /\ modMap[d] # NoItem => Promise(d) = Saved(modMap[d])
    /\ Queueing(d) = {} /\ modMap[d] = NoItem =>
          /\ \A i \in ToSet(poll.batch) : item[i].ident = d => Promise(d) = Saved(i)
          /\ (\A i \in ToSet(poll.batch) : item[i].ident # d) =>
                /\ \A e \in Streams : e.ident = d => Promise(d) = e.data
                /\ (\A e \in Streams : e.ident # d) => Promise(d) = store[d]

PromisesRuled == \A d \in Ident : PromiseRule(d)

LEMMA PromiseIs == SequentialInv => PromisesRuled
<1> SUFFICES ASSUME SequentialInv, NEW d \in Ident  PROVE PromiseRule(d)
  BY DEF PromisesRuled
<1> USE DEF SequentialInv
<1>1. /\ poll.batch \in Seq(Item) /\ poll.reque = <<>>
      /\ poll.saving \in Seq(Entry) /\ streamed \in Seq(Entry)
      /\ \A i \in ToSet(poll.batch) : item[i].ident \in Ident
  <2>1. poll.batch \in Seq(Named) /\ Named \subseteq Item
    BY DEF IInv, QueueTypes, Named
  <2> QED  BY <2>1, SeqMonotonic, ElementsOf DEF QueueInv, ListsWorkedOff, ValuesOK, Named
<1> DEFINE queueing == {i \in Item : /\ item[i].ident = d
                                     /\ \E c \in Caller : call[c].item = i /\ call[c].pc = "queue"}
           popped   == {i \in ToSet(poll.batch) \cup ToSet(poll.reque) : item[i].ident = d}
           saves    == poll.saving \o streamed
           streams  == {k \in DOMAIN saves : saves[k].ident = d}
<1>2. Promise(d) = IF queueing # {} THEN Saved(CHOOSE i \in queueing : TRUE)
                   ELSE IF modMap[d] # NoItem THEN Saved(modMap[d])
                   ELSE IF popped # {} THEN Saved(CHOOSE i \in popped : TRUE)
                   ELSE IF streams # {} THEN saves[Max(streams)].data
                   ELSE store[d]
  BY DEF Promise
<1>3. queueing = {call[c].item : c \in Queueing(d)}
  <2>1. \A c \in Caller : call[c].pc = "queue" =>
           call[c].item \in Item /\ item[call[c].item].ident = call[c].ident
    BY CallFacts DEF IInv, CallOK, HasItem, CallRec
  <2> QED  BY <2>1 DEF Queueing
<1>4. \A c, e \in Queueing(d) : c = e
  BY DEF Queueing, StoreInv, OneCall, Busy
<1>5. popped = {i \in ToSet(poll.batch) : item[i].ident = d}
  BY <1>1, ElementsOfEmpty
<1>6. \A i, j \in popped : i = j
  <2>1. PICK f : f = [i \in Item |-> item[i].ident]
    OBVIOUS
  <2>2. Distinct(poll.batch, f) /\ \A i \in Item : f[i] = item[i].ident
    BY <1>1, <2>1, BatchIsDistinct
  <2>3. \A i, j \in ToSet(poll.batch) : f[i] = f[j] => i = j
    BY <1>1, <2>2, DistinctElements
  <2>4. ToSet(poll.batch) \subseteq Item
    BY <1>1, ElementsOf
  <2> QED  BY <1>5, <2>2, <2>3, <2>4
<1>7. /\ saves \in Seq(Entry) /\ DOMAIN saves = 1..Len(saves)
      /\ Streams = {saves[k] : k \in DOMAIN saves}
  <2>1. saves \in Seq(Entry) /\ ToSet(saves) = Streams
    BY <1>1, ElementsOfConcat DEF Streams
  <2> HIDE DEF saves
  <2> QED  BY <2>1, ElementsOf
<1>8. streams # {} => saves[Max(streams)] \in Streams /\ saves[Max(streams)].ident = d
  <2>1. ASSUME streams # {}  PROVE Max(streams) \in streams
    <3>1. streams \subseteq 1..Len(saves) /\ Len(saves) \in Nat
      BY <1>7
    <3> HIDE DEF streams
    <3> QED  BY <2>1, <3>1, LargestNumber
  <2> QED  BY <1>7, <2>1
<1>9. streams # {} <=> \E e \in Streams : e.ident = d
  BY <1>7
<1> HIDE DEF queueing, popped, streams, saves
<1>10. \A c \in Queueing(d) : Promise(d) = Saved(call[c].item)
  BY <1>2, <1>3, <1>4
<1>11. Queueing(d) = {} => queueing = {}
  BY <1>3
<1>12. modMap[d] # NoItem /\ Queueing(d) = {} => Promise(d) = Saved(modMap[d])
  BY <1>2, <1>11
<1>13. ASSUME Queueing(d) = {}, modMap[d] = NoItem, NEW i \in ToSet(poll.batch), item[i].ident = d
       PROVE  Promise(d) = Saved(i)
  BY <1>2, <1>5, <1>6, <1>11, <1>13
<1>14. ASSUME Queueing(d) = {}, modMap[d] = NoItem, \A i \in ToSet(poll.batch) : item[i].ident # d
       PROVE  /\ \A e \in Streams : e.ident = d => Promise(d) = e.data
              /\ (\A e \in Streams : e.ident # d) => Promise(d) = store[d]
  <2>1. popped = {} /\ queueing = {}
    BY <1>5, <1>11, <1>14
  <2>2. Promise(d) = IF streams # {} THEN saves[Max(streams)].data ELSE store[d]
    BY <1>2, <1>14, <2>1
  <2>3. ASSUME NEW e \in Streams, e.ident = d
        PROVE  Promise(d) = e.data
    BY <1>8, <1>9, <2>2, <2>3 DEF StoreInv, StreamsAgree
  <2> QED  BY <1>9, <2>2, <2>3
<1> QED  BY <1>10, <1>12, <1>13, <1>14 DEF PromiseRule

\* What decides the promise of d is as it was.
PromiseSame(d) ==
    /\ Queueing(d) = {} /\ Queueing(d)' = {} /\ modMap'[d] = modMap[d]
    /\ modMap[d] # NoItem => Saved(modMap[d])' = Saved(modMap[d])
    /\ modMap[d] = NoItem =>
          /\ \A i \in Item : item'[i].ident = item[i].ident
          /\ \A i \in ToSet(poll.batch) : item[i].ident = d =>
                i \in ToSet(poll.batch)' /\ Saved(i)' = Saved(i)
          /\ \A i \in ToSet(poll.batch)' : item[i].ident = d => i \in ToSet(poll.batch)
          /\ \A e \in Streams : e.ident = d => e \in Streams'
          /\ \A e \in Streams' : e.ident = d => e \in Streams
          /\ store'[d] = store[d]

LEMMA PromiseStays ==
    ASSUME NEW d, PromiseRule(d), PromiseRule(d)', PromiseSame(d),
           ToSet(poll.batch) \subseteq Item, ToSet(poll.batch)' \subseteq Item
    PROVE  Promise(d)' = Promise(d)
<1>1. CASE modMap[d] # NoItem
  BY <1>1 DEF PromiseSame, PromiseRule
<1>2. CASE modMap[d] = NoItem
  <2>1. CASE \E i \in ToSet(poll.batch) : item[i].ident = d
    <3>1. PICK i \in ToSet(poll.batch) : item[i].ident = d
      BY <2>1
    <3>2. i \in ToSet(poll.batch)' /\ item'[i].ident = d /\ Saved(i)' = Saved(i)
      BY <1>2, <3>1 DEF PromiseSame
    <3>3. Promise(d) = Saved(i)
      BY <1>2, <3>1 DEF PromiseSame, PromiseRule
    <3>4. Promise(d)' = Saved(i)'
      BY <1>2, <3>2 DEF PromiseSame, PromiseRule
    <3> QED  BY <3>2, <3>3, <3>4
  <2>2. CASE \A i \in ToSet(poll.batch) : item[i].ident # d
    <3>1. \A i \in ToSet(poll.batch)' : item'[i].ident # d
      BY <1>2, <2>2 DEF PromiseSame
    <3>2. /\ \A e \in Streams : e.ident = d => Promise(d) = e.data
          /\ (\A e \in Streams : e.ident # d) => Promise(d) = store[d]
      BY <1>2, <2>2 DEF PromiseSame, PromiseRule
    <3>3. /\ \A e \in Streams' : e.ident = d => Promise(d)' = e.data
          /\ (\A e \in Streams' : e.ident # d) => Promise(d)' = store'[d]
      BY <1>2, <3>1 DEF PromiseSame, PromiseRule
    <3> QED  BY <1>2, <3>2, <3>3 DEF PromiseSame
  <2> QED  BY <2>1, <2>2
<1> QED  BY <1>1, <1>2

\* What a step of poll() knows of the promises.
LEMMA PollPromises ==
    ASSUME SequentialInv, SequentialInv', Sequential, PollStep, NEW d \in Ident
    PROVE  /\ PromiseRule(d) /\ PromiseRule(d)' /\ Queueing(d) = {} /\ Queueing(d)' = {}
           /\ ToSet(poll.batch) \subseteq Item /\ ToSet(poll.batch)' \subseteq Item
           /\ \A c \in Caller : call[c] = Idle
           /\ item \in [Item -> ItemRec] /\ poll \in PollRec /\ UNCHANGED call
           /\ cache \in [Ident -> Item \cup {NoItem}] /\ modMap \in [Ident -> Item \cup {NoItem}]
           /\ poll.batch \in Seq(Item) /\ Touched \subseteq Item /\ ToSet(poll.batch) \subseteq Named
<1>1. PromiseRule(d)
  BY PromiseIs DEF PromisesRuled
<1>2. PromiseRule(d)'
  <2>1. PromisesRuled'
    BY PromiseIs, PTL
  <2> QED  BY <2>1 DEF PromisesRuled
<1>3. /\ \A c \in Caller : call[c] = Idle
      /\ item \in [Item -> ItemRec] /\ poll \in PollRec /\ UNCHANGED call
      /\ cache \in [Ident -> Item \cup {NoItem}] /\ modMap \in [Ident -> Item \cup {NoItem}]
      /\ poll.batch \in Seq(Item) /\ Touched \subseteq Item /\ ToSet(poll.batch) \subseteq Named
  BY PollKnows DEF SequentialInv
<1>4. Queueing(d) = {} /\ Queueing(d)' = {}
  BY <1>3 DEF Queueing, Idle
<1>5. ToSet(poll.batch) \subseteq Item
  BY <1>3, ElementsOf
<1>6. ToSet(poll.batch)' \subseteq Item
  <2>1. poll'.batch \in Seq(Named') /\ Named' \subseteq Item
    BY DEF SequentialInv, IInv, QueueTypes, Named
  <2> QED  BY <2>1, ElementsOf
<1> QED  BY <1>1, <1>2, <1>3, <1>4, <1>5, <1>6

LEMMA QuietKeepsPromise ==
    ASSUME SequentialInv, SequentialInv', Sequential, NEW d \in Ident,
           \/ PollBegins \/ PollReturns \/ PopDone \/ RequeueIncomplete \/ TakeStreamed
           \/ SaveReturns \/ DeadDone \/ FlushDone
    PROVE  Promise(d)' = Promise(d)
<1>1. PollStep
  BY DEF PollStep
<1>2. /\ PromiseRule(d) /\ PromiseRule(d)' /\ Queueing(d) = {} /\ Queueing(d)' = {}
      /\ ToSet(poll.batch) \subseteq Item /\ ToSet(poll.batch)' \subseteq Item
  BY <1>1, PollPromises
<1>3. /\ UNCHANGED <<store, item, cache, modMap>> /\ poll'.batch = poll.batch
      /\ poll'.saving \o streamed' = poll.saving \o streamed
  BY QuietSteps DEF SequentialInv
<1>4. Streams' = Streams
  <2>1. Streams = ToSet(poll.saving \o streamed)
    BY ElementsOfConcat DEF SequentialInv, ValuesOK, Streams
  <2>2. Streams' = ToSet(poll'.saving \o streamed')
    BY ElementsOfConcat DEF SequentialInv, ValuesOK, Streams
  <2> QED  BY <1>3, <2>1, <2>2
<1>5. \A i : Saved(i)' = Saved(i)
  BY <1>3 DEF Saved
<1>6. PromiseSame(d)
  BY <1>2, <1>3, <1>4, <1>5 DEF PromiseSame
<1> QED  BY <1>2, <1>6, PromiseStays

\* The Item of an ident takes its promise from the queue to the batch.
LEMMA PopKeepsPromise ==
    ASSUME SequentialInv, SequentialInv', Sequential, NEW d \in Ident, PopModified
    PROVE  Promise(d)' = Promise(d)
<1>1. PollStep
  BY DEF PollStep
<1>2. /\ PromiseRule(d) /\ PromiseRule(d)' /\ Queueing(d) = {} /\ Queueing(d)' = {}
      /\ ToSet(poll.batch) \subseteq Item /\ ToSet(poll.batch)' \subseteq Item
      /\ modMap \in [Ident -> Item \cup {NoItem}] /\ poll \in PollRec /\ poll.batch \in Seq(Item)
  BY <1>1, PollPromises
<1>3. PICK h : h = Head(modQueue)
  OBVIOUS
<1>4. PICK i : i = modMap[h]
  OBVIOUS
<1>5. /\ h \in Ident /\ UNCHANGED <<store, item, cache, streamed>>
      /\ modMap' = [modMap EXCEPT ![h] = NoItem]
      /\ poll' = IF i = NoItem THEN poll ELSE [poll EXCEPT !.batch = Append(poll.batch, i)]
  BY <1>3, <1>4 DEF PopModified, PopsMore, cacheVars, SequentialInv, IInv, QueueTypes
<1>6. \A j : Saved(j)' = Saved(j)
  BY <1>5 DEF Saved
<1>7. poll'.saving = poll.saving
  BY <1>2, <1>5 DEF PollRec
<1>8. Streams' = Streams
  BY <1>5, <1>7 DEF Streams
<1>9. CASE i = NoItem
  <2>1. modMap' = modMap /\ poll' = poll
    BY <1>2, <1>4, <1>5, <1>9
  <2>2. PromiseSame(d)
    BY <1>2, <1>5, <1>6, <1>8, <2>1 DEF PromiseSame
  <2> QED  BY <1>2, <2>2, PromiseStays
<1>10. CASE i # NoItem
  <2>1. i \in Item /\ item[i].ident = h
    BY <1>2, <1>4, <1>5, <1>10 DEF SequentialInv, StoreInv, QueueOwns, Owns
  <2>2. poll'.batch = Append(poll.batch, i)
    BY <1>2, <1>5, <1>10 DEF PollRec
  <2>3. ToSet(poll'.batch) = ToSet(poll.batch) \cup {i}
    BY <1>2, <2>1, <2>2, ElementsOfAppend
  <2>4. CASE d = h
    <3>1. Promise(d) = Saved(i)
      BY <1>2, <1>4, <1>10, <2>4 DEF PromiseRule
    <3>2. modMap'[d] = NoItem /\ i \in ToSet(poll'.batch) /\ item'[i].ident = d
      BY <1>2, <1>5, <2>1, <2>3, <2>4
    <3>3. Promise(d)' = Saved(i)'
      BY <1>2, <3>2 DEF PromiseRule
    <3> QED  BY <1>6, <3>1, <3>3
  <2>5. CASE d # h
    <3>1. modMap'[d] = modMap[d]
      BY <1>2, <1>5, <2>5
    <3>2. PromiseSame(d)
      BY <1>2, <1>5, <1>6, <1>8, <2>1, <2>3, <2>5, <3>1 DEF PromiseSame
    <3> QED  BY <1>2, <3>2, PromiseStays
  <2> QED  BY <2>4, <2>5
<1> QED  BY <1>9, <1>10

\* An Item that poll() streams stays in the batch; one that it does not is as
\* the store has it.
LEMMA StreamKeepsPromise ==
    ASSUME SequentialInv, SequentialInv', Sequential, NEW d \in Ident, StreamItem
    PROVE  Promise(d)' = Promise(d)
<1>1. PollStep
  BY DEF PollStep
<1>2. /\ PromiseRule(d) /\ PromiseRule(d)' /\ Queueing(d) = {} /\ Queueing(d)' = {}
      /\ ToSet(poll.batch) \subseteq Item /\ ToSet(poll.batch)' \subseteq Item
      /\ \A c \in Caller : call[c] = Idle
      /\ modMap \in [Ident -> Item \cup {NoItem}] /\ poll \in PollRec /\ poll.batch \in Seq(Item)
      /\ item \in [Item -> ItemRec] /\ ToSet(poll.batch) \subseteq Named
  BY <1>1, PollPromises
<1>3. PICK i : i = Head(poll.batch)
  OBVIOUS
<1>4. /\ poll.pc = "stream" /\ poll.batch # <<>> /\ UNCHANGED <<store, cache, modMap, streamed>>
      /\ \/ StreamDirty(i)
         \/ StreamDestroyed(i)
         \/ /\ item[i].status = "dead" /\ UNCHANGED item
            /\ poll' = Unstreamed([poll EXCEPT !.dead = Append(poll.dead, i)])
         \/ item[i].status = "clean" /\ poll' = Unstreamed(poll) /\ UNCHANGED item
  BY <1>3 DEF StreamItem, cacheVars, modVars
<1>5. /\ i \in ToSet(poll.batch) /\ i \in Item /\ ToSet(poll.batch) = ToSet(Tail(poll.batch)) \cup {i}
  BY <1>2, <1>3, <1>4, ListElements
<1>6. /\ \A j \in Item : item'[j].ident = item[j].ident /\ Saved(j)' = Saved(j)
      /\ poll'.saving = poll.saving
      /\ \/ poll'.batch = poll.batch
         \/ poll'.batch = Tail(poll.batch) /\ item[i].status \in {"clean", "dead"}
  <2>1. ASSUME UNCHANGED item
        PROVE  \A j \in Item : item'[j].ident = item[j].ident /\ Saved(j)' = Saved(j)
    BY <1>4, <2>1 DEF Saved
  <2>2. CASE StreamDirty(i)
    <3>1. poll' = [poll EXCEPT !.flush = Append(poll.flush, i), !.pc = "push"] /\ UNCHANGED item
      BY <2>2 DEF StreamDirty, Streamed, Sequential
    <3>2. poll'.saving = poll.saving /\ poll'.batch = poll.batch
      BY <1>2, <3>1 DEF PollRec
    <3> QED  BY <2>1, <3>1, <3>2
  <2>3. CASE StreamDestroyed(i)
    <3>1. poll' = [poll EXCEPT !.dead = Append(poll.dead, i), !.pc = "push"]
      BY <2>3 DEF StreamDestroyed, Streamed
    <3>2. poll'.saving = poll.saving /\ poll'.batch = poll.batch
      BY <1>2, <3>1 DEF PollRec
    <3>3. item' = [item EXCEPT ![i].status = "dead"] /\ item[i].status = "destroyed"
      BY <2>3 DEF StreamDestroyed
    <3>4. ASSUME NEW j \in Item
          PROVE  item'[j].ident = item[j].ident /\ Saved(j)' = Saved(j)
      <4>1. CASE j = i
        <5>1. item'[i].status = "dead" /\ item'[i].ident = item[i].ident
          BY <1>2, <1>5, <3>3 DEF ItemRec
        <5> QED  BY <3>3, <4>1, <5>1 DEF Saved
      <4>2. CASE j # i
        <5>1. item'[j] = item[j]
          BY <1>2, <3>3, <4>2
        <5> QED  BY <1>4, <5>1 DEF Saved
      <4> QED  BY <4>1, <4>2
    <3> QED  BY <3>2, <3>4
  <2>4. CASE /\ item[i].status = "dead" /\ UNCHANGED item
             /\ poll' = Unstreamed([poll EXCEPT !.dead = Append(poll.dead, i)])
    <3>1. poll'.saving = poll.saving /\ poll'.batch = Tail(poll.batch)
      BY <1>2, <2>4 DEF PollRec, Unstreamed
    <3> QED  BY <2>1, <2>4, <3>1
  <2>5. CASE item[i].status = "clean" /\ poll' = Unstreamed(poll) /\ UNCHANGED item
    <3>1. poll'.saving = poll.saving /\ poll'.batch = Tail(poll.batch)
      BY <1>2, <2>5 DEF PollRec, Unstreamed
    <3> QED  BY <2>1, <2>5, <3>1
  <2> QED  BY <1>4, <2>2, <2>3, <2>4, <2>5
<1>7. Streams' = Streams
  BY <1>4, <1>6 DEF Streams
<1>8. modMap[d] # NoItem => modMap[d] \in Item
  BY <1>2
<1>9. CASE poll'.batch = poll.batch \/ item[i].ident # d
  <2>1. \A j \in Item : item[j].ident = d => (j \in ToSet(poll.batch)' <=> j \in ToSet(poll.batch))
    BY <1>5, <1>6, <1>9
  <2>2. PromiseSame(d)
    BY <1>2, <1>4, <1>6, <1>7, <1>8, <2>1 DEF PromiseSame
  <2> QED  BY <1>2, <2>2, PromiseStays
<1>10. CASE poll'.batch # poll.batch /\ item[i].ident = d
  <2>1. poll'.batch = Tail(poll.batch) /\ item[i].status \in {"clean", "dead"}
    BY <1>6, <1>10
  <2>2. /\ \A j \in ToSet(Tail(poll.batch)) : item[j].ident # d
        /\ \A e \in Streams : e.ident # d
        /\ i \notin Touched /\ modMap[d] = NoItem
    <3>1. \A j \in ToSet(Tail(poll.batch)) : item[j].ident # item[i].ident
      BY <1>3, <1>2, <1>4, HeadOwns DEF SequentialInv
    <3>2. Owns(i, d) /\ \A j \in Touched : item[j].ident # d
      BY <1>4, <1>5, <1>10 DEF SequentialInv, StoreInv, BatchOwns
    <3>3. modMap[d] = NoItem
      BY <1>5, <1>10 DEF SequentialInv, StoreInv, QueueOwns
    <3> QED  BY <1>10, <3>1, <3>2, <3>3 DEF Owns
  <2>3. Promise(d) = Saved(i)
    BY <1>2, <1>5, <1>10, <2>2 DEF PromiseRule
  <2>4. Promise(d)' = store'[d]
    <3>1. \A j \in ToSet(poll.batch)' : item'[j].ident # d
      BY <1>2, <1>6, <2>1, <2>2
    <3> QED  BY <1>2, <1>4, <1>7, <2>2, <3>1 DEF PromiseRule
  <2>5. Saved(i) = store[d]
    <3>1. i \in LiveItems /\ ~Changing(i)
      BY <1>2, <1>5 DEF LiveItems, Changing, Idle, Item, NoItem
    <3>2. item[i].status = "dead" => store[d] = NoData
      BY <1>10, <2>2, <3>1 DEF SequentialInv, StoreInv, StatusIsTrue
    <3> QED  BY <1>10, <2>1, <3>2 DEF Saved
  <2> QED  BY <1>4, <2>3, <2>4, <2>5
<1> QED  BY <1>9, <1>10

\* The stream takes the promise over from the Item.
LEMMA PushKeepsPromise ==
    ASSUME SequentialInv, SequentialInv', Sequential, NEW d \in Ident, PushStreamed
    PROVE  Promise(d)' = Promise(d)
<1>1. PollStep
  BY DEF PollStep
<1>2. /\ PromiseRule(d) /\ PromiseRule(d)' /\ Queueing(d) = {} /\ Queueing(d)' = {}
      /\ ToSet(poll.batch) \subseteq Item /\ ToSet(poll.batch)' \subseteq Item
      /\ modMap \in [Ident -> Item \cup {NoItem}] /\ poll \in PollRec /\ poll.batch \in Seq(Item)
      /\ item \in [Item -> ItemRec] /\ ToSet(poll.batch) \subseteq Named
  BY <1>1, PollPromises
<1>3. PICK i : i = Head(poll.batch)
  OBVIOUS
<1>4. PICK x : x = [ident |-> item[i].ident, data |-> item[i].data]
  OBVIOUS
<1>5. /\ poll.pc = "push" /\ poll.batch # <<>> /\ UNCHANGED <<store, item, cache, modMap>>
      /\ streamed' = Append(streamed, x)
      /\ poll' = [poll EXCEPT !.pc = "stream", !.batch = Tail(poll.batch)]
  BY <1>3, <1>4 DEF PushStreamed, cacheVars, modVars, SequentialInv, IInv, QueueTypes
<1>6. /\ i \in Item /\ item[i].ident \in Ident /\ Owns(i, item[i].ident)
      /\ ToSet(poll.batch) = ToSet(Tail(poll.batch)) \cup {i}
      /\ \A j \in ToSet(Tail(poll.batch)) : item[j].ident # item[i].ident /\ j # i
  BY <1>2, <1>3, <1>5, HeadOwns DEF SequentialInv
<1>7. item[i].status \in {"created", "modified", "dead"}
  BY <1>3, <1>5 DEF SequentialInv, StoreInv, Phases
<1>8. x \in Entry /\ x.ident = item[i].ident /\ x.data = item[i].data
  BY <1>4, <1>6 DEF Entry, SequentialInv, ValuesOK
<1>9. poll'.batch = Tail(poll.batch) /\ poll'.saving = poll.saving
  BY <1>2, <1>5 DEF PollRec
<1>10. Streams' = Streams \cup {x}
  <2>1. ToSet(streamed') = ToSet(streamed) \cup {x}
    BY <1>5, <1>8, ElementsOfAppend DEF SequentialInv, ValuesOK
  <2> QED  BY <1>9, <2>1 DEF Streams
<1>11. \A j : Saved(j)' = Saved(j)
  BY <1>5 DEF Saved
<1>12. CASE d = item[i].ident
  <2>1. modMap[d] = NoItem /\ i \in ToSet(poll.batch)
    BY <1>6, <1>12 DEF SequentialInv, StoreInv, QueueOwns
  <2>2. Promise(d) = Saved(i)
    BY <1>2, <1>12, <2>1 DEF PromiseRule
  <2>3. Saved(i) = x.data
    <3>1. item[i].status = "dead" => item[i].data = NoData
      BY <1>6 DEF SequentialInv, IInv, CacheInv, DeadAreEmpty
    <3> QED  BY <1>7, <1>8, <3>1 DEF Saved
  <2>4. \A j \in ToSet(poll.batch)' : item'[j].ident # d
    BY <1>5, <1>6, <1>9, <1>12
  <2>5. Promise(d)' = x.data
    BY <1>2, <1>5, <1>8, <1>10, <1>12, <2>1, <2>4 DEF PromiseRule
  <2> QED  BY <2>2, <2>3, <2>5
<1>13. CASE d # item[i].ident
  <2>1. \A j \in Item : item[j].ident = d => (j \in ToSet(poll.batch)' <=> j \in ToSet(poll.batch))
    BY <1>6, <1>9, <1>13
  <2>2. PromiseSame(d)
    BY <1>2, <1>5, <1>8, <1>10, <1>11, <1>13, <2>1 DEF PromiseSame
  <2> QED  BY <1>2, <2>2, PromiseStays
<1> QED  BY <1>12, <1>13

\* The store takes it over from the stream.
LEMMA SaveKeepsPromise ==
    ASSUME SequentialInv, SequentialInv', Sequential, NEW d \in Ident, SaveOne
    PROVE  Promise(d)' = Promise(d)
<1>1. PollStep
  BY DEF PollStep
<1>2. /\ PromiseRule(d) /\ PromiseRule(d)' /\ Queueing(d) = {} /\ Queueing(d)' = {}
      /\ ToSet(poll.batch) \subseteq Item /\ ToSet(poll.batch)' \subseteq Item
      /\ modMap \in [Ident -> Item \cup {NoItem}] /\ poll \in PollRec
  BY <1>1, PollPromises
<1>3. PICK x : x = Head(poll.saving)
  OBVIOUS
<1>4. /\ poll.pc = "save" /\ poll.saving # <<>> /\ UNCHANGED <<item, cache, modMap, streamed>>
      /\ store' = [store EXCEPT ![x.ident] = x.data]
      /\ poll' = [poll EXCEPT !.saving = Tail(poll.saving)]
  BY <1>3 DEF SaveOne, cacheVars, modVars, Sequential
<1>5. poll'.batch = poll.batch /\ poll'.saving = Tail(poll.saving)
  BY <1>2, <1>4 DEF PollRec
<1>6. x \in Streams /\ Streams = Streams' \cup {x} /\ x.ident \in Ident
  <2>1. poll.saving \in Seq(Entry)
    BY DEF SequentialInv, ValuesOK
  <2>2. ToSet(poll.saving) = ToSet(Tail(poll.saving)) \cup {x} /\ x \in Entry
    BY <1>3, <1>4, <2>1, ListElements
  <2> QED  BY <1>4, <1>5, <2>2 DEF Streams, Entry
<1>7. \A e \in Ident : store'[e] = IF e = x.ident THEN x.data ELSE store[e]
  BY <1>4, <1>6 DEF SequentialInv, ValuesOK
<1>8. poll.batch = <<>> /\ ToSet(poll.batch) = {}
  BY <1>4, ElementsOfEmpty DEF SequentialInv, QueueInv, ListsWorkedOff
<1>9. CASE d = x.ident
  <2>1. modMap[d] = NoItem
    BY <1>6, <1>9 DEF SequentialInv, StoreInv, QueueOwns, Owns
  <2>2. Promise(d) = x.data
    BY <1>2, <1>6, <1>8, <1>9, <2>1 DEF PromiseRule
  <2>3. \A e \in Streams' : e.ident = d => e.data = x.data
    BY <1>6, <1>9 DEF SequentialInv, StoreInv, StreamsAgree
  <2>4. /\ \A e \in Streams' : e.ident = d => Promise(d)' = e.data
        /\ (\A e \in Streams' : e.ident # d) => Promise(d)' = store'[d]
    BY <1>2, <1>4, <1>5, <1>8, <2>1 DEF PromiseRule
  <2> QED  BY <1>7, <1>9, <2>2, <2>3, <2>4
<1>10. CASE d # x.ident
  <2>1. modMap[d] # NoItem => Saved(modMap[d])' = Saved(modMap[d])
    <3>1. modMap[d] # NoItem => item[modMap[d]].ident = d
      BY DEF SequentialInv, StoreInv, QueueOwns, Owns
    <3> QED  BY <1>4, <1>7, <1>10, <3>1 DEF Saved
  <2>2. PromiseSame(d)
    BY <1>2, <1>4, <1>5, <1>6, <1>7, <1>8, <1>10, <2>1 DEF PromiseSame
  <2> QED  BY <1>2, <2>2, PromiseStays
<1> QED  BY <1>9, <1>10

\* What is evicted or comes clean is in the store.
LEMMA WorkingOffKeepsPromise ==
    ASSUME SequentialInv, SequentialInv', Sequential, NEW d \in Ident,
           EvictDead \/ FlushItem \/ EvictOldest
    PROVE  Promise(d)' = Promise(d)
<1>1. PollStep
  BY DEF PollStep
<1>2. /\ PromiseRule(d) /\ PromiseRule(d)' /\ Queueing(d) = {} /\ Queueing(d)' = {}
      /\ ToSet(poll.batch) \subseteq Item /\ ToSet(poll.batch)' \subseteq Item
  BY <1>1, PollPromises
<1>3. /\ poll.batch = <<>> /\ poll.saving = <<>> /\ Streams = {} /\ Touched \subseteq Item
      /\ modMap \in [Ident -> Item \cup {NoItem}] /\ item \in [Item -> ItemRec]
      /\ UNCHANGED <<store, modMap, streamed>>
      /\ poll'.batch = <<>> /\ poll'.saving = <<>> /\ poll \in PollRec
  BY WorkingOff DEF SequentialInv
<1>4. ToSet(poll.batch) = {} /\ ToSet(poll'.batch) = {} /\ Streams' = {}
  BY <1>3, ElementsOfEmpty DEF Streams
<1>5. \A j \in Item : item'[j].ident = item[j].ident
  <2>1. CASE FlushItem
    BY <1>3, <2>1 DEF FlushItem, ItemRec
  <2>2. CASE EvictDead \/ EvictOldest
    BY <1>3, <2>2 DEF EvictDead, EvictOldest, Evict, ItemRec
  <2> QED  BY <2>1, <2>2
<1>6. ASSUME modMap[d] # NoItem
      PROVE  Saved(modMap[d])' = Saved(modMap[d])
  <2>1. PICK m \in Item : m = modMap[d]
    BY <1>3, <1>6
  <2>2. m \notin Touched
    BY <1>6, <2>1 DEF SequentialInv, StoreInv, QueueOwns, Owns
  <2>3. /\ item'[m].status = item[m].status /\ item'[m].data = item[m].data
        /\ item'[m].ident = item[m].ident
    <3>1. CASE EvictDead \/ EvictOldest
      <4>1. UNCHANGED item \/ \E i : item' = [item EXCEPT ![i].orphan = TRUE]
        BY <3>1, Zenon DEF EvictDead, EvictOldest, Evict
      <4> QED  BY <1>3, <4>1 DEF ItemRec
    <3>2. CASE FlushItem
      <4>1. PICK i : i = Head(poll.flush)
        OBVIOUS
      <4>2. UNCHANGED item \/ item' = [item EXCEPT ![i].status = "clean"]
        BY <3>2, <4>1 DEF FlushItem
      <4>3. i \in Touched
        <5>1. poll.flush \in Seq(Item) /\ poll.flush # <<>>
          BY <1>3, <3>2 DEF PollRec, FlushItem
        <5> QED  BY <4>1, <5>1, ListElements DEF Touched
      <4>4. m # i
        BY <2>2, <4>3
      <4> QED  BY <1>3, <4>2, <4>4 DEF ItemRec
    <3> QED  BY <3>1, <3>2
  <2> QED  BY <1>3, <2>1, <2>3 DEF Saved
<1>7. PromiseSame(d)
  BY <1>2, <1>3, <1>4, <1>5, <1>6 DEF PromiseSame
<1> QED  BY <1>2, <1>7, PromiseStays

LEMMA PollKeepsPromise ==
    ASSUME SequentialInv, SequentialInv', Sequential, NEW d \in Ident, PollStep
    PROVE  Promise(d)' = Promise(d)
BY QuietKeepsPromise, PopKeepsPromise, StreamKeepsPromise, PushKeepsPromise, SaveKeepsPromise,
   WorkingOffKeepsPromise DEF PollStep

-----------------------------------------------------------------------------
(* The callers' steps. *)

\* The operation on its ident as the abstract map sees it.
WorkOf(r) == IF r.op \in {"locate", "setDirty"} THEN "touch"
             ELSE IF r.pc \in {"queue", "requeue"} THEN "done"
             ELSE IF r.op = "add" THEN "put" ELSE "erase"

\* What is promised while c works, and what is done.
CallerRule(c) == \A d \in Ident :
    /\ Promise(d) = IF call[c].pc = "queue" /\ call[c].ident = d THEN Saved(call[c].item)
                    ELSE IF modMap[d] # NoItem THEN Saved(modMap[d])
                    ELSE store[d]
    /\ Working(d) = IF call[c].ident = d THEN WorkOf(call[c]) ELSE "none"

CallersRuled == \A c \in Caller : AtWork(c) => CallerRule(c)

LEMMA CallerRuleIs == SequentialInv => CallersRuled
<1> SUFFICES ASSUME SequentialInv, NEW c \in Caller, AtWork(c)  PROVE CallerRule(c)
  BY DEF CallersRuled
<1>1. /\ \A o \in Caller : o # c => call[o] = Idle
      /\ poll.batch = <<>> /\ Streams = {}
  BY CallerKnows DEF SequentialInv
<1>2. ToSet(poll.batch) = {}
  BY <1>1, ElementsOfEmpty
<1> SUFFICES ASSUME NEW d \in Ident
             PROVE  /\ Promise(d) = IF call[c].pc = "queue" /\ call[c].ident = d
                                    THEN Saved(call[c].item)
                                    ELSE IF modMap[d] # NoItem THEN Saved(modMap[d])
                                    ELSE store[d]
                    /\ Working(d) = IF call[c].ident = d THEN WorkOf(call[c]) ELSE "none"
  BY DEF CallerRule
<1>3. \A o \in Caller : o # c => call[o].pc = "idle" /\ call[o].ident # d
  BY <1>1, EvictorAssumption DEF Idle
<1>4. PromiseRule(d)
  BY PromiseIs DEF PromisesRuled
<1>5. Promise(d) = IF call[c].pc = "queue" /\ call[c].ident = d THEN Saved(call[c].item)
                   ELSE IF modMap[d] # NoItem THEN Saved(modMap[d])
                   ELSE store[d]
  <2>1. CASE call[c].pc = "queue" /\ call[c].ident = d
    <3>1. c \in Queueing(d)
      BY <2>1 DEF Queueing
    <3> QED  BY <1>4, <2>1, <3>1 DEF PromiseRule
  <2>2. CASE ~(call[c].pc = "queue" /\ call[c].ident = d)
    <3>1. Queueing(d) = {}
      BY <1>3, <2>2 DEF Queueing
    <3> QED  BY <1>1, <1>2, <1>4, <2>2, <3>1 DEF PromiseRule
  <2> QED  BY <2>1, <2>2
<1>6. Working(d) = IF call[c].ident = d THEN WorkOf(call[c]) ELSE "none"
  <2>1. PICK at : at = {o \in Caller : call[o].ident = d}
    OBVIOUS
  <2>2. at = IF call[c].ident = d THEN {c} ELSE {}
    BY <1>3, <2>1
  <2>3. Working(d) = IF at = {} THEN "none" ELSE WorkOf(call[CHOOSE x \in at : TRUE])
    BY <2>1 DEF Working, WorkOf
  <2>4. CASE call[c].ident = d
    <3>1. (CHOOSE x \in at : TRUE) = c
      BY <2>2, <2>4
    <3> QED  BY <2>2, <2>3, <2>4, <3>1
  <2>5. CASE call[c].ident # d
    BY <2>2, <2>3, <2>5
  <2> QED  BY <2>4, <2>5
<1> QED  BY <1>5, <1>6

\* What is known before and after a step of a caller.
LEMMA CallerPromises ==
    ASSUME SequentialInv, SequentialInv', Sequential, NEW c \in Caller, Begin(c) \/ CallStep(c)
    PROVE  /\ AtWork(c) /\ CallerRule(c) /\ CallerRule(c)'
           /\ UNCHANGED <<store, poll, streamed>>
           /\ call \in [Caller -> CallRec] /\ call'[c] \in CallRec /\ call[c] \in CallRec
           /\ Owned(modMap, item, cache) /\ TrueItems(modMap, item, cache, call[c])
           /\ CallIsTrue(call[c]) /\ CallOK(call[c])
           /\ poll.pc = "idle" /\ poll.batch = <<>> /\ poll.flush = <<>>
           /\ modMap \in [Ident -> Item \cup {NoItem}] /\ cache \in [Ident -> Item \cup {NoItem}]
           /\ item \in [Item -> ItemRec]
           /\ call[c].pc # "idle" => call[c].ident \in Ident
           /\ \A o \in Caller : o # c => call[o] = Idle
<1>1. AtWork(c)
  <2>1. CASE Begin(c)
    BY <2>1 DEF Begin, Sequential, AtWork, Busy
  <2>2. CASE CallStep(c)
    <3>1. Busy(c)
      BY <2>2 DEF Busy, CallStep, PinLookup, PinLoad, PinInsert, AddBody, RemoveBody, LocateBody,
                  LockItem, EnqueueStep, RequeueStep, Release, ChangeServant, SetDirtyLock, SetDirtyBody
    <3> QED  BY <3>1, BusyIsAtWork DEF SequentialInv
  <2> QED  BY <2>1, <2>2
<1>2. /\ UNCHANGED <<store, poll, streamed>>
      /\ \E r : call' = [call EXCEPT ![c] = r]
  <2>1. CASE Begin(c)
    BY <2>1, Zenon DEF Begin, modVars, cacheVars
  <2>2. CASE PinLookup(c) \/ PinLoad(c) \/ PinInsert(c)
    <3>1. ASSUME NEW i, NEW t, Pinned(c, i, t)
          PROVE  \E r : call' = [call EXCEPT ![c] = r]
      BY <3>1, Zenon DEF Pinned, Return
    <3> QED  BY <2>2, <3>1, Zenon DEF PinLookup, PinLoad, PinInsert, Goto, modVars, cacheVars
  <2>3. CASE AddBody(c) \/ RemoveBody(c) \/ LocateBody(c)
    <3>1. UNCHANGED <<store, poll, streamed>>
      BY <2>3, Zenon DEF AddBody, RemoveBody, LocateBody, modVars, cacheVars
    <3>2. Return(c) \/ \E pc : Goto(c, pc)
      <4>1. RemoveBody(c) => Return(c) \/ item[call[c].item].status \notin {"destroyed", "dead"}
        BY Zenon DEF RemoveBody
      <4>2. LocateBody(c) => Return(c) \/ Goto(c, "requeue")
        BY Zenon DEF LocateBody
      <4> QED  BY <2>3, <4>1, <4>2, BodiesGo, Zenon DEF SequentialInv
    <3> QED  BY <3>1, <3>2, Zenon DEF Goto, Return
  <2>4. CASE EnqueueStep(c) \/ RequeueStep(c) \/ Release(c)
    BY <2>4, Zenon DEF EnqueueStep, RequeueStep, Release, Goto, Return, modVars, cacheVars
  <2>5. CASE ChangeServant(c) \/ SetDirtyLock(c) \/ SetDirtyBody(c)
    BY <2>5, Zenon DEF ChangeServant, SetDirtyLock, SetDirtyBody, Goto, Return, modVars, cacheVars
  <2> QED  BY <2>1, <2>2, <2>3, <2>4, <2>5 DEF CallStep
<1>3. AtWork(c)'
  <2>1. call \in [Caller -> CallRec]
    BY DEF SequentialInv, IInv, CacheInv, CacheTypes
  <2>2. \A o \in Caller : o # c => call'[o] = call[o]
    BY <1>2, <2>1
  <2> QED  BY <1>1, <1>2, <2>2 DEF AtWork, Busy
<1>4. CallerRule(c) /\ CallerRule(c)'
  <2>1. CallersRuled /\ CallersRuled'
    BY CallerRuleIs, PTL
  <2> QED  BY <1>1, <1>3, <2>1 DEF CallersRuled
<1>5. call \in [Caller -> CallRec] /\ call'[c] \in CallRec
  BY DEF SequentialInv, IInv, CacheInv, CacheTypes
<1> QED  BY <1>1, <1>2, <1>4, <1>5, CallerKnows DEF SequentialInv, AtWork

\* A step of the abstract map, ident by ident.
EffectAt(d) ==
    \/ /\ Promise(d)' = Promise(d)
       /\ \/ Working(d)' = Working(d)
          \/ Working(d) = "none" /\ Working(d)' \in {"put", "erase", "touch"}
          \/ Working(d) \in {"done", "erase", "touch"} /\ Working(d)' = "none"
    \/ Working(d) = "put" /\ Working(d)' = "done" /\ Promise(d)' \in Value
    \/ Working(d) = "erase" /\ Working(d)' = "done" /\ Promise(d)' = NoData
    \/ Working(d) = "touch" /\ Working(d)' \in {"touch", "none"} /\ Promise(d)' \in Value

SameBut(d) == \A e \in Ident : e # d => Promise(e)' = Promise(e) /\ Working(e)' = Working(e)

LEMMA AbstractStep ==
    ASSUME NEW d \in Ident, SameBut(d), EffectAt(d)
    PROVE  [Promised!Next]_(Promised!vars)
<1> DEFINE p == [e \in Ident |-> Promise(e)]
           w == [e \in Ident |-> Working(e)]
<1>1. /\ p' = [p EXCEPT ![d] = Promise(d)'] /\ w' = [w EXCEPT ![d] = Working(d)']
      /\ p[d] = Promise(d) /\ w[d] = Working(d)
  BY DEF SameBut
<1>2. /\ Promise(d)' = Promise(d) => p' = p
      /\ Working(d)' = Working(d) => w' = w
  BY <1>1
<1> HIDE DEF p, w
<1>3. CASE Promise(d)' = Promise(d) /\ Working(d)' = Working(d)
  BY <1>2, <1>3 DEF Promised!vars, p, w
<1>4. CASE Promise(d)' = Promise(d) /\ Working(d) = "none" /\ Working(d)' \in {"put", "erase", "touch"}
  <2>1. Promised!Begin(d)
    BY <1>1, <1>2, <1>4 DEF Promised!Begin, p, w
  <2> QED  BY <2>1 DEF Promised!Next
<1>5. CASE Promise(d)' = Promise(d) /\ Working(d) \in {"done", "erase", "touch"} /\ Working(d)' = "none"
  <2>1. Promised!End(d)
    BY <1>1, <1>2, <1>5 DEF Promised!End, p, w
  <2> QED  BY <2>1 DEF Promised!Next
<1>6. CASE Working(d) = "put" /\ Working(d)' = "done" /\ Promise(d)' \in Value
  <2>1. Promised!Put(d)
    BY <1>1, <1>6 DEF Promised!Put, Promised!Effect, p, w
  <2> QED  BY <2>1 DEF Promised!Next
<1>7. CASE Working(d) = "erase" /\ Working(d)' = "done" /\ Promise(d)' = NoData
  <2>1. Promised!Erase(d)
    BY <1>1, <1>7 DEF Promised!Erase, Promised!Effect, p, w
  <2> QED  BY <2>1 DEF Promised!Next
<1>8. CASE Working(d) = "touch" /\ Working(d)' \in {"touch", "none"} /\ Promise(d)' \in Value
  <2>1. Promised!Touch(d)
    BY <1>1, <1>8 DEF Promised!Touch, Promised!Effect, p, w
  <2> QED  BY <2>1 DEF Promised!Next
<1> QED  BY <1>3, <1>4, <1>5, <1>6, <1>7, <1>8 DEF EffectAt

\* The Items that are queued are as they were.
QueuedSame == \A d \in Ident : modMap[d] # NoItem =>
    LET i == modMap[d] IN
    /\ item'[i].status = item[i].status /\ item'[i].data = item[i].data
    /\ item'[i].ident = item[i].ident

\* A step of a call that puts nothing on its way to the store.
LEMMA MovesOn ==
    ASSUME SequentialInv, SequentialInv', Sequential, NEW c \in Caller, Begin(c) \/ CallStep(c),
           UNCHANGED modMap, QueuedSame, call[c].pc # "queue", call'[c].pc # "queue",
           NEW d \in Ident, NEW r, r = call'[c],
           \/ call[c].ident = d /\ r.ident = d /\ WorkOf(r) = WorkOf(call[c])
           \/ call[c].ident = d /\ r.ident = NoItem /\ WorkOf(call[c]) # "put"
           \/ call[c].ident = NoItem /\ r.ident = d /\ WorkOf(r) # "done"
    PROVE  [Promised!Next]_(Promised!vars)
<1>1. CallerRule(c) /\ CallerRule(c)' /\ UNCHANGED store
  BY CallerPromises
<1>2. NoItem \notin Ident
  BY EvictorAssumption
<1>3. \A e \in Ident : Promise(e)' = Promise(e)
  <2> TAKE e \in Ident
  <2>1. Promise(e) = IF modMap[e] # NoItem THEN Saved(modMap[e]) ELSE store[e]
    BY <1>1 DEF CallerRule
  <2>2. Promise(e)' = IF modMap[e] # NoItem THEN Saved(modMap[e])' ELSE store[e]
    BY <1>1 DEF CallerRule
  <2>3. modMap[e] # NoItem => Saved(modMap[e])' = Saved(modMap[e])
    BY <1>1 DEF QueuedSame, Saved
  <2> QED  BY <2>1, <2>2, <2>3
<1>4. \A e \in Ident : /\ Working(e) = IF call[c].ident = e THEN WorkOf(call[c]) ELSE "none"
                       /\ Working(e)' = IF r.ident = e THEN WorkOf(r) ELSE "none"
  BY <1>1 DEF CallerRule, WorkOf
<1>5. \A s : WorkOf(s) \in {"put", "erase", "touch", "done"}
  BY DEF WorkOf
<1>6. SameBut(d)
  BY <1>2, <1>3, <1>4 DEF SameBut
<1>7. EffectAt(d)
  <2>1. Promise(d)' = Promise(d)
    BY <1>3
  <2>2. \/ Working(d)' = Working(d)
        \/ Working(d) = "none" /\ Working(d)' \in {"put", "erase", "touch"}
        \/ Working(d) \in {"done", "erase", "touch"} /\ Working(d)' = "none"
    BY <1>2, <1>4, <1>5
  <2> QED  BY <2>1, <2>2 DEF EffectAt
<1> QED  BY <1>6, <1>7, AbstractStep

\* A new Item is none that is queued.
LEMMA NewIsNotQueued ==
    ASSUME SequentialInv, FreeItems # {}, NEW d, NEW st, NEW data, Alloc(d, st, data)
    PROVE  QueuedSame
<1>1. NewItem \in FreeItems
  BY Zenon DEF NewItem
<1>2. PICK n : n = NewItem
  OBVIOUS
<1>3. /\ n \in Item /\ \A e \in Ident : modMap[e] # NoItem => modMap[e] # n /\ modMap[e] \in Item
  BY <1>1, <1>2 DEF FreeItems, InQueues, SequentialInv, IInv, QueueTypes, Named
<1>4. \A j \in Item : j # n => item'[j] = item[j]
  BY <1>2 DEF Alloc, SequentialInv, IInv, CacheInv, CacheTypes
<1> QED  BY <1>3, <1>4 DEF QueuedSame

LEMMA BeginRefines ==
    ASSUME SequentialInv, SequentialInv', Sequential, NEW c \in Caller, Begin(c)
    PROVE  [Promised!Next]_(Promised!vars)
<1>1. PICK d \in Ident, op \in {"add", "remove", "locate"}, b \in BOOLEAN :
         call' = [call EXCEPT ![c] = [Idle EXCEPT !.pc = "pin", !.op = op, !.ident = d, !.complete = b]]
  BY DEF Begin
<1>2. call \in [Caller -> CallRec] /\ call[c] = Idle /\ UNCHANGED <<item, modMap>>
  <2>1. \A o \in Caller : call[o].pc # "idle" => Busy(o)
    BY DEF Busy
  <2>2. call[c] = Idle
    BY <2>1 DEF Begin, Busy, SequentialInv, StoreInv, OneCall
  <2> QED  BY <2>2 DEF Begin, SequentialInv, IInv, CacheInv, CacheTypes, modVars
<1>3. PICK r : r = call'[c]
  OBVIOUS
<1>4. r.pc = "pin" /\ r.op = op /\ r.ident = d
  BY <1>1, <1>2, <1>3 DEF Idle
<1>5. call[c].ident = NoItem /\ call[c].pc = "idle"
  BY <1>2 DEF Idle
<1>6. WorkOf(r) # "done"
  BY <1>4 DEF WorkOf
<1>7. QueuedSame
  BY <1>2 DEF QueuedSame
<1> QED  BY <1>2, <1>3, <1>4, <1>5, <1>6, <1>7, MovesOn

\* The call goes on, its work not done yet or done before.
LEMMA GoesOnRefines ==
    ASSUME SequentialInv, SequentialInv', Sequential, NEW c \in Caller, CallStep(c),
           UNCHANGED modMap, QueuedSame, call[c].pc \notin {"idle", "queue"},
           NEW r, r = call'[c], r.ident = call[c].ident, r.op = call[c].op,
           r.pc # "queue", r.pc = "requeue" => call[c].pc = "requeue" \/ r.op \in {"locate", "setDirty"},
           call[c].pc = "requeue" => r.op \in {"locate", "setDirty"}
    PROVE  [Promised!Next]_(Promised!vars)
<1>1. call[c].ident \in Ident
  BY CallerPromises
<1>2. WorkOf(r) = WorkOf(call[c])
  BY DEF WorkOf
<1> QED  BY <1>1, <1>2, MovesOn

\* The call returns, having done its work or found nothing.
LEMMA ReturnRefines ==
    ASSUME SequentialInv, SequentialInv', Sequential, NEW c \in Caller, CallStep(c),
           UNCHANGED modMap, QueuedSame, call[c].pc \notin {"idle", "queue"},
           Return(c), WorkOf(call[c]) # "put"
    PROVE  [Promised!Next]_(Promised!vars)
<1>1. call[c].ident \in Ident /\ call \in [Caller -> CallRec]
  BY CallerPromises
<1>2. PICK r : r = call'[c]
  OBVIOUS
<1>3. r = Idle
  BY <1>1, <1>2 DEF Return
<1>4. r.ident = NoItem /\ r.pc = "idle"
  BY <1>3 DEF Idle
<1> QED  BY <1>1, <1>2, <1>4, MovesOn

\* What add(), remove(), locate() and setDirty() do with what pin() returns.
LEMMA PinnedRefines ==
    ASSUME SequentialInv, SequentialInv', Sequential, NEW c \in Caller, CallStep(c),
           UNCHANGED modMap, call[c].pc \in {"pin", "insert"},
           NEW i, NEW table, Pinned(c, i, table),
           \A d \in Ident : modMap[d] # NoItem =>
               LET j == modMap[d] IN
               /\ table[j].status = item[j].status /\ table[j].data = item[j].data
               /\ table[j].ident = item[j].ident,
           i = NoItem => FreeItems # {}
    PROVE  [Promised!Next]_(Promised!vars)
<1>1. call \in [Caller -> CallRec] /\ call[c].pc \notin {"idle", "queue", "requeue"}
  BY CallerPromises
<1>2. item' = table => QueuedSame
  BY DEF QueuedSame
<1>3. CASE i # NoItem /\ (call[c].op = "add" \/ table[i].data # NoData)
  <2>1. item' = table /\ call' = [call EXCEPT ![c].pc = "lock", ![c].item = i]
    BY <1>3 DEF Pinned
  <2>2. PICK r : r = call'[c]
    OBVIOUS
  <2>3. r.pc = "lock" /\ r.op = call[c].op /\ r.ident = call[c].ident
    BY <1>1, <2>1, <2>2 DEF CallRec
  <2> QED  BY <1>1, <1>2, <2>1, <2>2, <2>3, GoesOnRefines
<1>4. CASE ~(i # NoItem /\ (call[c].op = "add" \/ table[i].data # NoData)) /\ call[c].op = "add"
  <2>1. /\ call' = [call EXCEPT ![c].pc = "lock", ![c].item = NewItem]
        /\ Alloc(call[c].ident, "dead", NoData)
    BY <1>4, Zenon DEF Pinned
  <2>2. PICK r : r = call'[c]
    OBVIOUS
  <2>3. r.pc = "lock" /\ r.op = call[c].op /\ r.ident = call[c].ident
    BY <1>1, <2>1, <2>2 DEF CallRec
  <2>4. QueuedSame
    BY <1>4, <2>1, NewIsNotQueued
  <2> QED  BY <1>1, <2>2, <2>3, <2>4, GoesOnRefines
<1>5. CASE ~(i # NoItem /\ (call[c].op = "add" \/ table[i].data # NoData)) /\ call[c].op # "add"
  <2>1. item' = table /\ Return(c)
    BY <1>5 DEF Pinned
  <2>2. WorkOf(call[c]) # "put"
    BY <1>5 DEF WorkOf
  <2> QED  BY <1>1, <1>2, <2>1, <2>2, ReturnRefines
<1> QED  BY <1>3, <1>4, <1>5

LEMMA PinRefines ==
    ASSUME SequentialInv, SequentialInv', Sequential, NEW c \in Caller,
           PinLookup(c) \/ PinLoad(c) \/ PinInsert(c)
    PROVE  [Promised!Next]_(Promised!vars)
<1>1. CallStep(c)
  BY DEF CallStep
<1>2. /\ call \in [Caller -> CallRec] /\ CallOK(call[c])
      /\ modMap \in [Ident -> Item \cup {NoItem}] /\ item \in [Item -> ItemRec]
      /\ call[c].pc # "idle" => call[c].ident \in Ident
  BY <1>1, CallerPromises
<1>3. ASSUME NEW pc \in {"load", "insert"}, Goto(c, pc), UNCHANGED <<item, modMap>>,
             call[c].pc \in {"pin", "load"}
      PROVE  [Promised!Next]_(Promised!vars)
  <2>1. PICK r : r = call'[c]
    OBVIOUS
  <2>2. r.pc = pc /\ r.op = call[c].op /\ r.ident = call[c].ident
    BY <1>2, <1>3, <2>1 DEF Goto, CallRec
  <2>3. QueuedSame
    BY <1>3 DEF QueuedSame
  <2> QED  BY <1>1, <1>3, <2>1, <2>2, <2>3, GoesOnRefines
<1>4. CASE PinLookup(c)
  <2>1. PICK i : i = cache[call[c].ident]
    OBVIOUS
  <2>2. /\ call[c].pc = "pin" /\ UNCHANGED modMap
        /\ \/ i # NoItem /\ Pinned(c, i, item)
           \/ Goto(c, "load") /\ UNCHANGED item
    BY <1>4, <2>1 DEF PinLookup, modVars
  <2>3. CASE i # NoItem /\ Pinned(c, i, item)
    BY <1>1, <2>2, <2>3, PinnedRefines
  <2>4. CASE Goto(c, "load") /\ UNCHANGED item
    BY <1>3, <2>2, <2>4
  <2> QED  BY <2>2, <2>3, <2>4
<1>5. CASE PinLoad(c)
  <2>1. PICK d : d = call[c].ident
    OBVIOUS
  <2>2. /\ call[c].pc = "load" /\ UNCHANGED modMap
        /\ \/ Goto(c, "insert") /\ UNCHANGED item
           \/ /\ FreeItems # {} /\ Alloc(d, "clean", store[d])
              /\ call' = [call EXCEPT ![c].pc = "insert", ![c].item = NewItem]
    BY <1>5, <2>1 DEF PinLoad, modVars, Sequential
  <2>3. CASE Goto(c, "insert") /\ UNCHANGED item
    BY <1>3, <2>2, <2>3
  <2>4. CASE /\ FreeItems # {} /\ Alloc(d, "clean", store[d])
             /\ call' = [call EXCEPT ![c].pc = "insert", ![c].item = NewItem]
    <3>1. PICK r : r = call'[c]
      OBVIOUS
    <3>2. r.pc = "insert" /\ r.op = call[c].op /\ r.ident = call[c].ident
      BY <1>2, <2>4, <3>1 DEF CallRec
    <3>3. QueuedSame
      BY <2>4, NewIsNotQueued
    <3> QED  BY <1>1, <2>2, <3>1, <3>2, <3>3, GoesOnRefines
  <2> QED  BY <2>2, <2>3, <2>4
<1>6. CASE PinInsert(c)
  <2>1. PICK d : d = call[c].ident
    OBVIOUS
  <2>2. PICK i : i = call[c].item
    OBVIOUS
  <2>3. /\ call[c].pc = "insert" /\ UNCHANGED modMap
        /\ \/ cache[d] # NoItem /\ Pinned(c, cache[d], item)
           \/ i # NoItem /\ Pinned(c, i, [item EXCEPT ![i].orphan = FALSE])
           \/ i = NoItem /\ FreeItems # {} /\ Pinned(c, NoItem, item)
    BY <1>6, <2>1, <2>2, Zenon DEF PinInsert, modVars
  <2>4. CASE cache[d] # NoItem /\ Pinned(c, cache[d], item)
    BY <1>1, <2>3, <2>4, PinnedRefines
  <2>5. CASE i # NoItem /\ Pinned(c, i, [item EXCEPT ![i].orphan = FALSE])
    <3>1. PICK t : t = [item EXCEPT ![i].orphan = FALSE]
      OBVIOUS
    <3>2. \A j \in Item : /\ t[j].status = item[j].status /\ t[j].data = item[j].data
                          /\ t[j].ident = item[j].ident
      BY <1>2, <3>1 DEF ItemRec
    <3>3. \A e \in Ident : modMap[e] # NoItem => modMap[e] \in Item
      BY <1>2
    <3> QED  BY <1>1, <2>3, <2>5, <3>1, <3>2, <3>3, PinnedRefines
  <2>6. CASE i = NoItem /\ FreeItems # {} /\ Pinned(c, NoItem, item)
    BY <1>1, <2>3, <2>6, PinnedRefines
  <2> QED  BY <2>3, <2>4, <2>5, <2>6
<1> QED  BY <1>4, <1>5, <1>6

\* A caller changes an Item of its ident d, or queues it.
LEMMA OthersSame ==
    ASSUME SequentialInv, SequentialInv', Sequential, NEW c \in Caller, CallStep(c),
           NEW d \in Ident, d = call[c].ident, call'[c].ident \in {d, NoItem},
           NEW i \in Item, item[i].ident = d, \A j \in Item : j # i => item'[j] = item[j],
           \A e \in Ident : e # d => modMap'[e] = modMap[e]
    PROVE  SameBut(d)
<1>1. /\ CallerRule(c) /\ CallerRule(c)' /\ UNCHANGED store /\ Owned(modMap, item, cache)
      /\ modMap \in [Ident -> Item \cup {NoItem}]
  BY CallerPromises
<1>2. NoItem \notin Ident
  BY EvictorAssumption
<1> SUFFICES ASSUME NEW e \in Ident, e # d
             PROVE  Promise(e)' = Promise(e) /\ Working(e)' = Working(e)
  BY DEF SameBut
<1>3. Promise(e) = IF modMap[e] # NoItem THEN Saved(modMap[e]) ELSE store[e]
  BY <1>1 DEF CallerRule
<1>4. Promise(e)' = IF modMap'[e] # NoItem THEN Saved(modMap[e])' ELSE store'[e]
  BY <1>1, <1>2 DEF CallerRule
<1>5. modMap'[e] = modMap[e]
  OBVIOUS
<1>6. modMap[e] # NoItem => Saved(modMap[e])' = Saved(modMap[e])
  <2>1. modMap[e] # NoItem => modMap[e] \in Item /\ modMap[e] # i
    BY <1>1 DEF Owned
  <2> QED  BY <1>1, <1>5, <2>1 DEF Saved
<1>7. Working(e) = "none" /\ Working(e)' = "none"
  BY <1>1, <1>2 DEF CallerRule, WorkOf
<1> QED  BY <1>1, <1>3, <1>4, <1>5, <1>6, <1>7

\* The cached Item of the caller's ident, if it is dirty, is queued.
LEMMA DirtyInQueue ==
    ASSUME SequentialInv, NEW c \in Caller, AtWork(c), call[c].pc # "queue",
           NEW d \in Ident, NEW i, i = cache[d], i # NoItem, item[i].status \in Dirty
    PROVE  modMap[d] = i
<1>1. /\ poll.batch = <<>> /\ poll.flush = <<>> /\ \A o \in Caller : o # c => call[o] = Idle
  BY CallerKnows DEF SequentialInv
<1>2. InPoll = {} /\ \A o \in Caller : call[o].pc # "queue"
  BY <1>1, ElementsOfEmpty DEF InPoll, Idle
<1>3. i \in QueuedItems
  BY DEF SequentialInv, QueueInv, DirtyAreQueued, Cached
<1>4. item[i].ident = d
  BY CachedItem DEF SequentialInv, IInv
<1> QED  BY <1>2, <1>3, <1>4 DEF QueuedItems

LEMMA AddRefines ==
    ASSUME SequentialInv, SequentialInv', Sequential, NEW c \in Caller, AddBody(c)
    PROVE  [Promised!Next]_(Promised!vars)
<1>1. CallStep(c)
  BY DEF CallStep
<1>2. /\ CallerRule(c) /\ CallerRule(c)' /\ AtWork(c) /\ call \in [Caller -> CallRec]
      /\ CallIsTrue(call[c]) /\ CallOK(call[c])
      /\ modMap \in [Ident -> Item \cup {NoItem}] /\ item \in [Item -> ItemRec]
  BY <1>1, CallerPromises
<1>3. PICK i : i = call[c].item
  OBVIOUS
<1>4. PICK d : d = call[c].ident
  OBVIOUS
<1>5. PICK s : s = item[i].status
  OBVIOUS
<1>6. /\ call[c].pc = "lock" /\ call[c].op = "add" /\ UNCHANGED modMap /\ written' = written + 1
      /\ item' = [item EXCEPT ![i].data = written + 1,
                              ![i].status = IF s = "dead" THEN "created" ELSE "modified"]
      /\ Goto(c, IF s = "destroyed" THEN "requeue" ELSE "queue")
  BY <1>3, <1>5, BodiesGo DEF AddBody, LockItem, modVars, SequentialInv
<1>7. i \in Item /\ d \in Ident /\ item[i].ident = d
  BY <1>2, <1>3, <1>4, <1>6 DEF CallOK, HasItem, CallRec
<1>8. /\ \A j \in Item : j # i => item'[j] = item[j]
      /\ item'[i].ident = d /\ item'[i].data = written + 1
      /\ item'[i].status \in {"created", "modified"}
  BY <1>2, <1>6, <1>7 DEF ItemRec
<1>9. PICK r : r = call'[c]
  OBVIOUS
<1>10. /\ r.pc = (IF s = "destroyed" THEN "requeue" ELSE "queue")
       /\ r.ident = d /\ r.item = i /\ r.op = "add"
  BY <1>2, <1>3, <1>4, <1>6, <1>9 DEF Goto, CallRec
<1>11. SameBut(d)
  BY <1>1, <1>4, <1>6, <1>7, <1>8, <1>9, <1>10, OthersSame
<1>12. s = "destroyed" => modMap[d] = i
  <2> SUFFICES ASSUME s = "destroyed"  PROVE modMap[d] = i
    OBVIOUS
  <2>1. cache[d] # NoItem
    BY <1>2, <1>3, <1>4, <1>5, <1>6 DEF CallIsTrue
  <2>2. cache[d] = i
    BY <1>3, <1>4, <1>6, <2>1 DEF SequentialInv, QueueInv, CallersApart, OwnIsCached, HasItem
  <2> QED  BY <1>2, <1>5, <1>6, <1>7, <2>1, <2>2, DirtyInQueue DEF Dirty
<1>13. Promise(d)' = Saved(i)'
  <2>1. CASE s = "destroyed"
    <3>1. modMap'[d] = i /\ i # NoItem /\ r.pc # "queue"
      BY <1>6, <1>7, <1>10, <1>12, <2>1 DEF Item, NoItem
    <3> QED  BY <1>2, <1>7, <1>9, <3>1 DEF CallerRule
  <2>2. CASE s # "destroyed"
    <3>1. r.pc = "queue" /\ r.ident = d /\ r.item = i
      BY <1>10, <2>2
    <3> QED  BY <1>2, <1>7, <1>9, <3>1 DEF CallerRule
  <2> QED  BY <2>1, <2>2
<1>14. Promise(d)' \in Value
  <2>1. Saved(i)' = written'
    BY <1>6, <1>8 DEF Saved
  <2> QED  BY <1>13, <2>1 DEF SequentialInv, Bounds
<1>15. Working(d) = "put" /\ Working(d)' = "done"
  BY <1>2, <1>4, <1>6, <1>7, <1>9, <1>10 DEF CallerRule, WorkOf
<1> QED  BY <1>7, <1>11, <1>14, <1>15, AbstractStep DEF EffectAt

LEMMA RemoveRefines ==
    ASSUME SequentialInv, SequentialInv', Sequential, NEW c \in Caller, RemoveBody(c)
    PROVE  [Promised!Next]_(Promised!vars)
<1>1. CallStep(c)
  BY DEF CallStep
<1>2. /\ CallerRule(c) /\ CallerRule(c)' /\ AtWork(c) /\ call \in [Caller -> CallRec]
      /\ CallOK(call[c])
      /\ modMap \in [Ident -> Item \cup {NoItem}] /\ item \in [Item -> ItemRec]
  BY <1>1, CallerPromises
<1>3. PICK i : i = call[c].item
  OBVIOUS
<1>4. PICK d : d = call[c].ident
  OBVIOUS
<1>5. PICK s : s = item[i].status
  OBVIOUS
<1>6. /\ call[c].pc = "lock" /\ call[c].op = "remove" /\ UNCHANGED modMap
      /\ IF s \in {"destroyed", "dead"}
         THEN Return(c) /\ UNCHANGED item
         ELSE /\ item' = [item EXCEPT ![i].status = StatusRemoved(s), ![i].data = NoData]
              /\ Goto(c, IF s = "clean" THEN "queue" ELSE "requeue")
  BY <1>3, <1>5, BodiesGo DEF RemoveBody, LockItem, modVars, SequentialInv
<1>7. i \in Item /\ d \in Ident /\ item[i].ident = d /\ cache[d] = i /\ i # NoItem
  BY <1>2, <1>3, <1>4, <1>6 DEF CallOK, HasItem, CallRec
<1>8. CASE s \in {"destroyed", "dead"}
  <2>1. WorkOf(call[c]) # "put"
    BY <1>6 DEF WorkOf
  <2>2. QueuedSame
    BY <1>6, <1>8 DEF QueuedSame
  <2> QED  BY <1>1, <1>6, <1>8, <2>1, <2>2, ReturnRefines
<1>9. CASE s \notin {"destroyed", "dead"}
  <2>1. /\ \A j \in Item : j # i => item'[j] = item[j]
        /\ item'[i].status \in {"destroyed", "dead"}
    BY <1>2, <1>6, <1>7, <1>9 DEF ItemRec, StatusRemoved
  <2>2. PICK r : r = call'[c]
    OBVIOUS
  <2>3. /\ r.pc = (IF s = "clean" THEN "queue" ELSE "requeue")
        /\ r.ident = d /\ r.item = i /\ r.op = "remove"
    BY <1>2, <1>3, <1>4, <1>6, <1>9, <2>2 DEF Goto, CallRec
  <2>4. SameBut(d)
    BY <1>1, <1>4, <1>6, <1>7, <2>1, <2>2, <2>3, OthersSame
  <2>5. Promise(d)' = Saved(i)'
    <3>1. CASE s = "clean"
      <4>1. r.pc = "queue"
        BY <2>3, <3>1
      <4> QED  BY <1>2, <1>7, <2>2, <2>3, <4>1 DEF CallerRule
    <3>2. CASE s # "clean"
      <4>1. s \in Dirty
        BY <1>2, <1>5, <1>7, <1>9, <3>2 DEF ItemRec, Status, Dirty
      <4>2. modMap'[d] = i
        BY <1>2, <1>5, <1>6, <1>7, <4>1, DirtyInQueue
      <4>3. r.pc # "queue"
        BY <2>3, <3>2
      <4> QED  BY <1>2, <1>7, <2>2, <4>2, <4>3 DEF CallerRule
    <3> QED  BY <3>1, <3>2
  <2>6. Promise(d)' = NoData
    BY <2>1, <2>5 DEF Saved
  <2>7. Working(d) = "erase" /\ Working(d)' = "done"
    BY <1>2, <1>4, <1>6, <1>7, <2>2, <2>3 DEF CallerRule, WorkOf
  <2> QED  BY <1>7, <2>4, <2>6, <2>7, AbstractStep DEF EffectAt
<1> QED  BY <1>8, <1>9

LEMMA LocateRefines ==
    ASSUME SequentialInv, SequentialInv', Sequential, NEW c \in Caller, LocateBody(c)
    PROVE  [Promised!Next]_(Promised!vars)
<1>1. CallStep(c)
  BY DEF CallStep
<1>2. call \in [Caller -> CallRec]
  BY <1>1, CallerPromises
<1>3. /\ call[c].pc = "lock" /\ call[c].op = "locate" /\ UNCHANGED <<item, modMap>>
      /\ Return(c) \/ Goto(c, "requeue")
  BY DEF LocateBody, LockItem, modVars
<1>4. QueuedSame /\ WorkOf(call[c]) # "put"
  BY <1>3 DEF QueuedSame, WorkOf
<1>5. CASE Return(c)
  BY <1>1, <1>3, <1>4, <1>5, ReturnRefines
<1>6. CASE Goto(c, "requeue")
  <2>1. PICK r : r = call'[c]
    OBVIOUS
  <2>2. r.pc = "requeue" /\ r.op = "locate" /\ r.ident = call[c].ident
    BY <1>2, <1>3, <1>6, <2>1 DEF Goto, CallRec
  <2> QED  BY <1>1, <1>3, <1>4, <2>1, <2>2, GoesOnRefines
<1> QED  BY <1>3, <1>5, <1>6

\* _queueModified() takes the promise over from the caller; _requeue() and the
\* application's letting go end the operation.
LEMMA EndRefines ==
    ASSUME SequentialInv, SequentialInv', Sequential, NEW c \in Caller,
           EnqueueStep(c) \/ RequeueStep(c) \/ Release(c)
    PROVE  [Promised!Next]_(Promised!vars)
<1>1. CallStep(c)
  BY DEF CallStep
<1>2. /\ CallerRule(c) /\ CallerRule(c)' /\ call \in [Caller -> CallRec] /\ UNCHANGED store
      /\ CallIsTrue(call[c]) /\ CallOK(call[c]) /\ modMap \in [Ident -> Item \cup {NoItem}]
  BY <1>1, CallerPromises
<1>3. PICK i : i = call[c].item
  OBVIOUS
<1>4. PICK d : d = call[c].ident
  OBVIOUS
<1>5. PICK r : r = call'[c]
  OBVIOUS
<1>6. CASE EnqueueStep(c)
  <2>1. call[c].pc = "queue" /\ UNCHANGED item /\ QueueModified(i) /\ Goto(c, "requeue")
    BY <1>3, <1>6 DEF EnqueueStep
  <2>2. i \in Item /\ d \in Ident /\ item[i].ident = d /\ call[c].op \in {"add", "remove"}
    BY <1>2, <1>3, <1>4, <2>1 DEF CallOK, HasItem, CallRec, CallIsTrue
  <2>3. modMap' = [modMap EXCEPT ![d] = i]
    BY <2>1, <2>2 DEF QueueModified
  <2>4. modMap'[d] = i /\ \A e \in Ident : e # d => modMap'[e] = modMap[e]
    BY <1>2, <2>2, <2>3
  <2>5. r.pc = "requeue" /\ r.ident = d /\ r.op = call[c].op
    BY <1>2, <1>4, <1>5, <2>1 DEF Goto, CallRec
  <2>6. SameBut(d)
    BY <1>1, <1>4, <1>5, <2>1, <2>2, <2>4, <2>5, OthersSame
  <2>7. Promise(d) = Saved(i)
    BY <1>2, <1>3, <1>4, <2>1, <2>2 DEF CallerRule
  <2>8. Promise(d)' = Saved(i)'
    <3>1. i # NoItem /\ r.pc # "queue"
      BY <2>2, <2>5 DEF Item, NoItem
    <3> QED  BY <1>2, <1>5, <2>2, <2>4, <3>1 DEF CallerRule
  <2>9. Saved(i)' = Saved(i)
    BY <1>2, <2>1 DEF Saved
  <2>10. Working(d) = "done" /\ Working(d)' = "done"
    BY <1>2, <1>4, <1>5, <2>1, <2>2, <2>5 DEF CallerRule, WorkOf
  <2> QED  BY <2>2, <2>6, <2>7, <2>8, <2>9, <2>10, AbstractStep DEF EffectAt
<1>7. CASE RequeueStep(c)
  <2>1. /\ call[c].pc = "requeue" /\ UNCHANGED <<item, modMap>>
        /\ IF call[c].op = "locate"
           THEN call' = [call EXCEPT ![c].pc = "held", ![c].item = NoItem, ![c].held = call[c].item]
           ELSE Return(c)
    <3>1. call[c].pc = "requeue" /\ UNCHANGED <<item, modMap>>
      BY <1>7 DEF RequeueStep, modVars
    <3>2. call[c].op = "locate" => item[call[c].item].data # NoData
      BY <1>2, <3>1 DEF CallIsTrue, HasItem
    <3> QED  BY <1>7, <3>1, <3>2 DEF RequeueStep
  <2>2. QueuedSame
    BY <2>1 DEF QueuedSame
  <2>3. CASE call[c].op = "locate"
    <3>1. r.pc = "held" /\ r.op = "locate" /\ r.ident = call[c].ident
      BY <1>2, <1>5, <2>1, <2>3 DEF CallRec
    <3> QED  BY <1>1, <1>5, <2>1, <2>2, <2>3, <3>1, GoesOnRefines
  <2>4. CASE call[c].op # "locate"
    <3>1. WorkOf(call[c]) # "put"
      BY <2>1 DEF WorkOf
    <3> QED  BY <1>1, <2>1, <2>2, <2>4, <3>1, ReturnRefines
  <2> QED  BY <2>3, <2>4
<1>8. CASE Release(c)
  <2>1. call[c].pc = "held" /\ Return(c) /\ UNCHANGED <<item, modMap>>
    BY <1>8 DEF Release, modVars
  <2>2. QueuedSame
    BY <2>1 DEF QueuedSame
  <2>3. WorkOf(call[c]) # "put"
    BY <1>2, <2>1 DEF CallIsTrue, WorkOf
  <2> QED  BY <1>1, <2>1, <2>2, <2>3, ReturnRefines
<1> QED  BY <1>6, <1>7, <1>8

\* The application changes a servant: that is promised at once where the Item is
\* queued, and by setDirty() otherwise.
LEMMA ChangeRefines ==
    ASSUME SequentialInv, SequentialInv', Sequential, NEW c \in Caller, ChangeServant(c)
    PROVE  [Promised!Next]_(Promised!vars)
<1>1. CallStep(c)
  BY DEF CallStep
<1>2. /\ CallerRule(c) /\ CallerRule(c)' /\ call \in [Caller -> CallRec] /\ UNCHANGED store
      /\ CallIsTrue(call[c]) /\ CallOK(call[c]) /\ modMap \in [Ident -> Item \cup {NoItem}]
      /\ item \in [Item -> ItemRec]
  BY <1>1, CallerPromises
<1>3. PICK i : i = call[c].held
  OBVIOUS
<1>4. PICK d : d = call[c].ident
  OBVIOUS
<1>5. PICK r : r = call'[c]
  OBVIOUS
<1>6. /\ call[c].pc = "held" /\ i # NoItem /\ cache[d] = i /\ item[i].data # NoData
      /\ UNCHANGED modMap
      /\ item' = [item EXCEPT ![i].data = written + 1]
      /\ call' = [call EXCEPT ![c].pc = "pin", ![c].op = "setDirty"]
      /\ written' = written + 1
  <2>1. call[c].pc = "held"
    BY DEF ChangeServant
  <2>2. i # NoItem /\ cache[d] = i /\ item[i].data # NoData
    BY <1>2, <1>3, <1>4, <2>1 DEF CallIsTrue
  <2> QED  BY <1>3, <2>1, <2>2 DEF ChangeServant, modVars
<1>7. i \in Item /\ d \in Ident /\ item[i].ident = d /\ call[c].op = "locate"
  <2>1. d \in Ident /\ call[c].op = "locate"
    BY <1>2, <1>4, <1>6 DEF CallOK, CallIsTrue
  <2> QED  BY <1>6, <2>1, CachedItem DEF SequentialInv, IInv
<1>8. /\ \A j \in Item : j # i => item'[j] = item[j]
      /\ item'[i].ident = d /\ item'[i].status = item[i].status /\ item'[i].data = written + 1
  BY <1>2, <1>6, <1>7 DEF ItemRec
<1>9. r.pc = "pin" /\ r.op = "setDirty" /\ r.ident = d
  BY <1>2, <1>4, <1>5, <1>6 DEF CallRec
<1>10. SameBut(d)
  BY <1>1, <1>4, <1>5, <1>6, <1>7, <1>8, <1>9, OthersSame
<1>11. Working(d) = "touch" /\ Working(d)' = "touch"
  BY <1>2, <1>4, <1>5, <1>7, <1>9 DEF CallerRule, WorkOf
<1>12. /\ Promise(d) = IF modMap[d] # NoItem THEN Saved(modMap[d]) ELSE store[d]
       /\ Promise(d)' = IF modMap[d] # NoItem THEN Saved(modMap[d])' ELSE store[d]
  <2>1. Promise(d) = IF modMap[d] # NoItem THEN Saved(modMap[d]) ELSE store[d]
    BY <1>2, <1>6, <1>7 DEF CallerRule
  <2>2. r.pc # "queue"
    BY <1>9
  <2>3. Promise(d)' = IF modMap[d] # NoItem THEN Saved(modMap[d])' ELSE store[d]
    BY <1>2, <1>5, <1>6, <1>7, <2>2 DEF CallerRule
  <2> QED  BY <2>1, <2>3
<1>13. Promise(d)' = Promise(d) \/ Promise(d)' \in Value
  <2>1. CASE modMap[d] = i
    <3>1. Saved(i)' = Saved(i) \/ Saved(i)' = written'
      <4>1. item[i].status \notin {"destroyed", "dead"}
        BY <1>6, <1>7 DEF SequentialInv, IInv, CacheInv, DeadAreEmpty
      <4>2. item[i].status \in {"clean", "created", "modified"}
        BY <1>2, <1>7, <4>1 DEF ItemRec, Status
      <4> QED  BY <1>2, <1>6, <1>7, <1>8, <4>2 DEF Saved
    <3>2. i # NoItem
      BY <1>7 DEF Item, NoItem
    <3>3. Saved(modMap[d])' = Saved(i)'
      BY <1>6, <2>1
    <3> QED  BY <1>12, <2>1, <3>1, <3>2, <3>3 DEF SequentialInv, Bounds
  <2>2. CASE modMap[d] # i
    <3>1. modMap[d] # NoItem => Saved(modMap[d])' = Saved(modMap[d])
      <4>1. modMap[d] # NoItem => modMap[d] \in Item /\ item'[modMap[d]] = item[modMap[d]]
        BY <1>2, <1>7, <1>8, <2>2
      <4> QED  BY <1>2, <1>6, <4>1 DEF Saved
    <3> QED  BY <1>12, <3>1
  <2> QED  BY <2>1, <2>2
<1> QED  BY <1>7, <1>10, <1>11, <1>13, AbstractStep DEF EffectAt

LEMMA DirtyRefines ==
    ASSUME SequentialInv, SequentialInv', Sequential, NEW c \in Caller,
           SetDirtyLock(c) \/ SetDirtyBody(c)
    PROVE  [Promised!Next]_(Promised!vars)
<1>1. CallStep(c)
  BY DEF CallStep
<1>2. /\ CallerRule(c) /\ CallerRule(c)' /\ call \in [Caller -> CallRec] /\ UNCHANGED store
      /\ CallIsTrue(call[c]) /\ CallOK(call[c]) /\ modMap \in [Ident -> Item \cup {NoItem}]
      /\ item \in [Item -> ItemRec]
  BY <1>1, CallerPromises
<1>3. PICK i : i = call[c].item
  OBVIOUS
<1>4. PICK d : d = call[c].ident
  OBVIOUS
<1>5. PICK r : r = call'[c]
  OBVIOUS
<1>6. CASE SetDirtyLock(c)
  <2>1. /\ call[c].pc = "lock" /\ call[c].op = "setDirty" /\ UNCHANGED <<item, modMap>>
        /\ Goto(c, "dirty")
    BY <1>6 DEF SetDirtyLock, modVars
  <2>2. r.pc = "dirty" /\ r.op = "setDirty" /\ r.ident = call[c].ident
    BY <1>2, <1>5, <2>1 DEF Goto, CallRec
  <2>3. QueuedSame
    BY <2>1 DEF QueuedSame
  <2> QED  BY <1>1, <1>5, <2>1, <2>2, <2>3, GoesOnRefines
<1>7. CASE SetDirtyBody(c)
  <2>1. /\ call[c].pc = "dirty" /\ Return(c)
        /\ IF item[i].status = "clean"
           THEN /\ item' = [item EXCEPT ![i].status = "modified", ![i].completed = call[c].complete]
                /\ QueueModified(i)
           ELSE UNCHANGED <<item, modMap>>
    BY <1>3, <1>7 DEF SetDirtyBody, modVars
  <2>2. /\ i \in Item /\ d \in Ident /\ item[i].ident = d /\ cache[d] = i
        /\ call[c].op = "setDirty" /\ item[i].data # NoData
    <3>1. call[c].op = "setDirty"
      BY <1>2, <2>1 DEF CallIsTrue
    <3>2. i \in Item /\ d \in Ident /\ item[i].ident = d /\ cache[d] = i
      BY <1>2, <1>3, <1>4, <2>1, <3>1 DEF CallOK, HasItem, CallRec
    <3>3. cache[d] = call[c].held /\ item[call[c].held].data # NoData
      BY <1>2, <1>4, <3>1 DEF CallIsTrue
    <3> QED  BY <3>1, <3>2, <3>3
  <2>3. WorkOf(call[c]) = "touch"
    BY <2>2 DEF WorkOf
  <2>4. CASE item[i].status = "clean"
    <3>1. item' = [item EXCEPT ![i].status = "modified", ![i].completed = call[c].complete]
          /\ QueueModified(i)
      BY <2>1, <2>4
    <3>2. /\ \A j \in Item : j # i => item'[j] = item[j]
          /\ item'[i].status = "modified" /\ item'[i].data = item[i].data
      BY <1>2, <2>2, <3>1 DEF ItemRec
    <3>3. modMap' = [modMap EXCEPT ![d] = i]
      BY <2>2, <3>1 DEF QueueModified
    <3>4. modMap'[d] = i /\ \A e \in Ident : e # d => modMap'[e] = modMap[e]
      BY <1>2, <2>2, <3>3
    <3>5. r.ident = NoItem /\ r.pc = "idle"
      BY <1>2, <1>5, <2>1 DEF Return, Idle
    <3>6. SameBut(d)
      BY <1>1, <1>4, <1>5, <2>2, <3>2, <3>4, <3>5, OthersSame
    <3>7. Promise(d)' = Saved(i)'
      <4>1. i # NoItem /\ r.pc # "queue"
        BY <2>2, <3>5 DEF Item, NoItem
      <4> QED  BY <1>2, <1>5, <2>2, <3>4, <4>1 DEF CallerRule
    <3>8. Saved(i)' = item[i].data
      BY <3>2 DEF Saved
    <3>9. item[i].data \in Value
      BY <2>2 DEF SequentialInv, ValuesOK, Data
    <3>10. Working(d) = "touch" /\ Working(d)' = "none"
      <4>1. NoItem \notin Ident
        BY EvictorAssumption
      <4> QED  BY <1>2, <1>4, <1>5, <2>2, <2>3, <3>5, <4>1 DEF CallerRule, WorkOf
    <3> QED  BY <2>2, <3>6, <3>7, <3>8, <3>9, <3>10, AbstractStep DEF EffectAt
  <2>5. CASE item[i].status # "clean"
    <3>1. UNCHANGED <<item, modMap>>
      BY <2>1, <2>5
    <3>2. QueuedSame
      BY <3>1 DEF QueuedSame
    <3> QED  BY <1>1, <2>1, <2>3, <3>1, <3>2, ReturnRefines
  <2> QED  BY <2>4, <2>5
<1> QED  BY <1>6, <1>7

-----------------------------------------------------------------------------

LEMMA StepRefines ==
    ASSUME Sequential
    PROVE  SequentialInv /\ SequentialInv' /\ [Next]_vars => [Promised!Next]_(Promised!vars)
<1> SUFFICES ASSUME SequentialInv, SequentialInv', [Next]_vars
             PROVE  [Promised!Next]_(Promised!vars)
  OBVIOUS
<1>1. ASSUME \A d \in Ident : Promise(d)' = Promise(d) /\ Working(d)' = Working(d)
      PROVE  UNCHANGED Promised!vars
  BY <1>1 DEF Promised!vars
<1>2. CASE UNCHANGED vars \/ Finished
  <2>1. UNCHANGED vars
    BY <1>2 DEF Finished
  <2>2. UNCHANGED <<store, item, modMap, streamed, call, poll>>
    BY <2>1 DEF vars, cacheVars, modVars
  <2>3. \A d \in Ident : Promise(d)' = Promise(d) /\ Working(d)' = Working(d)
    BY <2>2 DEF Promise, Saved, Working
  <2> QED  BY <1>1, <2>3
<1>3. CASE PollStep
  <2>1. call' = call
    BY <1>3, PollKnows DEF SequentialInv
  <2>2. \A d \in Ident : Working(d)' = Working(d)
    BY <2>1 DEF Working
  <2>3. \A d \in Ident : Promise(d)' = Promise(d)
    BY <1>3, PollKeepsPromise
  <2> QED  BY <1>1, <2>2, <2>3
<1>4. ASSUME NEW c \in Caller, Begin(c) \/ CallStep(c)
      PROVE  [Promised!Next]_(Promised!vars)
  BY <1>4, BeginRefines, PinRefines, AddRefines, RemoveRefines, LocateRefines, EndRefines,
     ChangeRefines, DirtyRefines DEF CallStep
<1> QED  BY <1>2, <1>3, <1>4 DEF Next

LEMMA InitRefines == Init => Promised!Init
<1> SUFFICES ASSUME Init  PROVE Promised!Init
  OBVIOUS
<1>1. SequentialInv
  BY InitIInv, InitBounds, InitQueued, InitStore DEF SequentialInv
<1>2. ASSUME NEW d \in Ident
      PROVE  Promise(d) \in Value \cup {NoData} /\ Working(d) = "none"
  <2>1. /\ \A c \in Caller : call[c] = Idle
        /\ modMap[d] = NoItem /\ poll.batch = <<>> /\ poll.saving = <<>> /\ streamed = <<>>
    BY DEF Init, PollIdle
  <2>2. ToSet(poll.batch) = {} /\ Streams = {} /\ Queueing(d) = {}
    BY <2>1, ElementsOfEmpty DEF Streams, Queueing, Idle
  <2>3. Promise(d) = store[d]
    BY <1>1, <2>1, <2>2, PromiseIs DEF PromisesRuled, PromiseRule
  <2>4. Working(d) = "none"
    <3>1. \A c \in Caller : call[c].ident # d
      BY <2>1, EvictorAssumption DEF Idle
    <3>2. {c \in Caller : call[c].ident = d} = {}
      BY <3>1
    <3> QED  BY <3>2 DEF Working
  <2> QED  BY <1>1, <2>3, <2>4 DEF SequentialInv, ValuesOK, Data
<1> QED  BY <1>2 DEF Promised!Init

\* With calls one at a time and nothing failing, the evictor is a map of what the
\* object store holds or will hold: an addition, a removal and a change that
\* returns is in the promise, and streaming, saving, coming clean and being
\* evicted change nothing of it.
THEOREM EvictorImplementsMap ==
    ASSUME Sequential
    PROVE  Spec => ImplementsPromised
<1>1. SequentialInv /\ SequentialInv' /\ [Next]_vars => [Promised!Next]_(Promised!vars)
  BY StepRefines
<1> QED  BY <1>1, InitRefines, SpecSequential, PTL DEF Spec, ImplementsPromised, Promised!Spec
=============================================================================
