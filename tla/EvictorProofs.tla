----------------------------- MODULE EvictorProofs -----------------------------
(* Theorems about Evictor, for any idents, callers, sizes and faults, and for *)
(* callers that keep to no rule.                                              *)
EXTENDS Evictor, SequenceTheorems, FiniteSetTheorems, FunctionTheorems, TLAPS

CallRec == [pc : {"idle", "pin", "load", "insert", "lock", "queue", "requeue",
                  "held", "dirty"},
            op : {"none", "add", "remove", "locate", "setDirty"},
            ident : Ident \cup {NoItem}, item : Item \cup {NoItem},
            held : Item \cup {NoItem}, complete : BOOLEAN]

ItemRec == [ident : Ident \cup {NoItem}, status : Status, data : Nat,
            completed : BOOLEAN, orphan : BOOLEAN]

Stream == [ident : Ident \cup {NoItem}, data : Nat]

\* The Items that were allocated once; an Item keeps its ident while it is
\* pointed to.
Named == {i \in Item : item[i].ident \in Ident}

\* The types of what the operations and the cache rest on.
CacheTypes ==
    /\ store \in [Ident -> Nat] /\ written \in Nat
    /\ item \in [Item -> ItemRec]
    /\ cache \in [Ident -> Item \cup {NoItem}] /\ evictorList \in Seq(Ident)
    /\ call \in [Caller -> CallRec]

\* The types of the queues and of poll()'s locals.
QueueTypes ==
    /\ modMap \in [Ident -> Named \cup {NoItem}] /\ modQueue \in Seq(Ident)
    /\ streamed \in Seq(Stream)
    /\ poll \in [pc : {"idle", "pop", "stream", "push", "take", "save", "dead",
                       "flush", "size"},
                 flushAll : BOOLEAN, batch : Seq(Named), dead : Seq(Item),
                 flush : Seq(Item), reque : Seq(Named), saving : Seq(Stream)]
    /\ poll.pc = "push" => poll.batch # <<>>

CachedAreNamed == \A i \in Item : ~item[i].orphan => item[i].ident \in Ident

\* remove() and poll() leave no servant in a destroyed or dead Item.
DeadAreEmpty == \A i \in Item : item[i].status \in {"destroyed", "dead"} => item[i].data = NoData

HasItem == {"lock", "queue", "requeue", "dirty"}

\* What is true of an operation under way: what it pinned bears its ident and
\* is in the cache unless add() made it; the Item whose servant it located is
\* the cached one, until the two are parted.
CallOK(r) ==
    /\ r.pc # "idle" => r.ident \in Ident
    /\ r.pc \in {"idle", "pin", "load", "held"} => r.item = NoItem
    /\ r.pc = "idle" => r.held = NoItem
    /\ r.op \in {"add", "remove"} => r.held = NoItem
    /\ r.item # NoItem => item[r.item].ident = r.ident
    /\ r.pc \in HasItem => r.item # NoItem
    /\ r.pc \in HasItem /\ r.op # "add" => cache[r.ident] = r.item
    /\ r.held # NoItem =>
         /\ cache[r.ident] = r.held
         /\ item[r.held].data # NoData

CallsOK == \A c \in Caller : CallOK(call[c])

CacheInv ==
    /\ CacheTypes /\ ListMatchesCache /\ CachedAreNamed /\ DeadAreEmpty
    /\ CallsOK

IInv == CacheInv /\ QueueTypes

-----------------------------------------------------------------------------
(* The recency list. *)

\* ToSet in terms of the length.
LEMMA Elements ==
    ASSUME NEW S, NEW s \in Seq(S)
    PROVE  ToSet(s) = {s[k] : k \in 1..Len(s)}
BY DEF ToSet

\* erase() of a place in the list.
LEMMA RemoveAtElements ==
    ASSUME NEW S, NEW s \in Seq(S), NEW i \in 1..Len(s)
    PROVE  /\ RemoveAt(s, i) \in Seq(S) /\ Len(RemoveAt(s, i)) = Len(s) - 1
           /\ \A k \in 1..(Len(s) - 1) :
                RemoveAt(s, i)[k] = IF k < i THEN s[k] ELSE s[k + 1]
<1> DEFINE front == SubSeq(s, 1, i - 1)
           back  == SubSeq(s, i + 1, Len(s))
<1>1. /\ front \in Seq(S) /\ Len(front) = i - 1 /\ \A k \in 1..(i - 1) : front[k] = s[k]
      /\ back \in Seq(S) /\ Len(back) = Len(s) - i
      /\ \A k \in 1..(Len(s) - i) : back[k] = s[i + k]
  OBVIOUS
<1>2. RemoveAt(s, i) = front \o back
  BY Zenon DEF RemoveAt
<1> HIDE DEF front, back
<1>3. front \in Seq(S) /\ back \in Seq(S)
  BY <1>1
<1>4. /\ front \o back \in Seq(S) /\ Len(front \o back) = Len(front) + Len(back)
      /\ \A k \in 1..(Len(front) + Len(back)) :
           (front \o back)[k] = IF k <= Len(front) THEN front[k] ELSE back[k - Len(front)]
  BY <1>3, ConcatProperties, Zenon
<1>5. Len(front) + Len(back) = Len(s) - 1
  BY <1>1
<1>6. \A k \in 1..(Len(s) - 1) : ~(k < i) => back[k - (i - 1)] = s[k + 1]
  BY <1>1
<1>7. \A k \in 1..(Len(s) - 1) : k <= Len(front) <=> k < i
  BY <1>1
<1> QED  BY <1>1, <1>2, <1>4, <1>5, <1>6, <1>7

\* erase() takes one element away, and the ident comes up there no more.
LEMMA WithoutElements ==
    ASSUME NEW S, NEW s \in Seq(S), NEW x \in ToSet(s),
           \A j, k \in DOMAIN s : s[j] = s[k] => j = k
    PROVE  /\ Without(s, x) \in Seq(S)
           /\ \A j, k \in DOMAIN Without(s, x) :
                 Without(s, x)[j] = Without(s, x)[k] => j = k
           /\ ToSet(Without(s, x)) = ToSet(s) \ {x}
<1> DEFINE i == CHOOSE j \in DOMAIN s : s[j] = x
           t == RemoveAt(s, i)
<1>1. i \in 1..Len(s) /\ s[i] = x
  BY DEF ToSet
<1>2. Without(s, x) = t
  BY Zenon DEF Without
<1> HIDE DEF i
<1>3. /\ t \in Seq(S) /\ Len(t) = Len(s) - 1
      /\ \A k \in 1..(Len(s) - 1) : t[k] = IF k < i THEN s[k] ELSE s[k + 1]
  BY <1>1, RemoveAtElements, Zenon
<1> HIDE DEF t
<1>4. Len(s) \in Nat /\ DOMAIN s = 1..Len(s) /\ DOMAIN t = 1..Len(t)
  BY <1>3
<1>5. \A j, k \in DOMAIN t : t[j] = t[k] => j = k
  <2> SUFFICES ASSUME NEW j \in 1..(Len(s) - 1), NEW k \in 1..(Len(s) - 1), t[j] = t[k]
               PROVE  j = k
    BY <1>3, <1>4
  <2> DEFINE at(m) == IF m < i THEN m ELSE m + 1
  <2>1. at(j) \in 1..Len(s) /\ at(k) \in 1..Len(s) /\ s[at(j)] = s[at(k)]
    BY <1>1, <1>3, <1>4
  <2>2. at(j) = at(k)
    BY <1>4, <2>1
  <2> QED  BY <1>1, <2>2
<1>6. ToSet(t) = ToSet(s) \ {x}
  <2>1. ToSet(t) = {t[k] : k \in 1..Len(t)} /\ ToSet(s) = {s[k] : k \in 1..Len(s)}
    BY ZenonT(60), <1>3, Elements
  <2>2. ASSUME NEW k \in 1..Len(t)  PROVE t[k] \in ToSet(s) /\ t[k] # x
    <3>1. CASE k < i
      <4>1. k \in 1..Len(s) /\ t[k] = s[k] /\ k # i
        BY <1>1, <1>3, <1>4, <3>1
      <4> QED  BY <1>1, <1>4, <2>1, <4>1
    <3>2. CASE ~(k < i)
      <4>1. k + 1 \in 1..Len(s) /\ t[k] = s[k + 1] /\ k + 1 # i
        BY <1>1, <1>3, <1>4, <3>2
      <4> QED  BY <1>1, <1>4, <2>1, <4>1
    <3> QED  BY <3>1, <3>2
  <2>3. ASSUME NEW k \in 1..Len(s), s[k] # x  PROVE \E j \in 1..Len(t) : t[j] = s[k]
    <3>1. CASE k < i
      BY <1>1, <1>3, <1>4, <3>1
    <3>2. CASE k > i
      <4>1. k - 1 \in 1..Len(t) /\ t[k - 1] = s[k]
        BY <1>1, <1>3, <1>4, <3>2
      <4> QED  BY <4>1
    <3> QED  BY <1>1, <2>3, <3>1, <3>2
  <2>4. ToSet(t) \subseteq ToSet(s) \ {x}
    BY <2>1, <2>2
  <2>5. ASSUME NEW y \in ToSet(s), y # x  PROVE y \in ToSet(t)
    <3>1. PICK k \in 1..Len(s) : y = s[k]
      BY <2>1
    <3> QED  BY <2>1, <2>3, <2>5, <3>1
  <2> QED  BY <2>4, <2>5
<1> QED  BY <1>2, <1>3, <1>5, <1>6

\* push_front() of an ident that is not in the list.
LEMMA PushedElements ==
    ASSUME NEW S, NEW s \in Seq(S), NEW x \in S, x \notin ToSet(s),
           \A j, k \in DOMAIN s : s[j] = s[k] => j = k
    PROVE  LET t == <<x>> \o s IN
           /\ t \in Seq(S)
           /\ \A j, k \in DOMAIN t : t[j] = t[k] => j = k
           /\ ToSet(t) = ToSet(s) \cup {x}
<1> DEFINE t == <<x>> \o s
<1>1. /\ t \in Seq(S) /\ Len(t) = Len(s) + 1
      /\ \A k \in 1..(Len(s) + 1) : t[k] = IF k = 1 THEN x ELSE s[k - 1]
  OBVIOUS
<1> HIDE DEF t
<1>2. ToSet(t) = {t[k] : k \in 1..Len(t)} /\ ToSet(s) = {s[k] : k \in 1..Len(s)}
  BY <1>1, Elements
<1>3. \A j, k \in DOMAIN t : t[j] = t[k] => j = k
  <2> SUFFICES ASSUME NEW j \in 1..Len(t), NEW k \in 1..Len(t), t[j] = t[k]
               PROVE  j = k
    BY <1>1
  <2>1. CASE j = 1 \/ k = 1
    BY <1>1, <1>2, <2>1
  <2>2. CASE j # 1 /\ k # 1
    <3>1. j - 1 \in 1..Len(s) /\ k - 1 \in 1..Len(s) /\ s[j - 1] = s[k - 1]
      BY <1>1, <2>2
    <3> QED  BY <3>1
  <2> QED  BY <2>1, <2>2
<1>4. ToSet(t) = ToSet(s) \cup {x}
  <2>1. \A k \in 1..Len(t) : t[k] \in ToSet(s) \cup {x}
    BY <1>1, <1>2
  <2>2. \A k \in 1..Len(s) : k + 1 \in 1..Len(t) /\ t[k + 1] = s[k]
    BY <1>1
  <2>3. 1 \in 1..Len(t) /\ t[1] = x
    BY <1>1
  <2>4. ToSet(t) \subseteq ToSet(s) \cup {x}
    BY <1>2, <2>1
  <2>5. x \in ToSet(t)
    BY <1>2, <2>3
  <2>6. ASSUME NEW y \in ToSet(s)  PROVE y \in ToSet(t)
    <3>1. PICK k \in 1..Len(s) : y = s[k]
      BY <1>2
    <3> QED  BY <1>2, <2>2, <3>1
  <2> QED  BY <2>4, <2>5, <2>6
<1> QED  BY <1>1, <1>3, <1>4 DEF t

\* The list that poll() compares with _cache is as long: it is never rebuilt.
LEMMA NeverRebuilt ==
    ASSUME CacheTypes, ListMatchesCache
    PROVE  Len(evictorList) = Cardinality(Cached)
<1> DEFINE n == Len(evictorList)
<1>1. n \in Nat /\ DOMAIN evictorList = 1..n /\ evictorList \in [1..n -> Ident]
  BY DEF CacheTypes
<1>2. ToSet(evictorList) = Cached /\ ToSet(evictorList) = {evictorList[k] : k \in 1..n}
  BY Elements DEF CacheTypes, ListMatchesCache
<1>3. evictorList \in Bijection(1..n, Cached)
  <2>1. evictorList \in [1..n -> Cached]
    BY <1>1, <1>2
  <2>2. \A a, b \in 1..n : evictorList[a] = evictorList[b] => a = b
    BY <1>1 DEF ListMatchesCache
  <2>3. \A d \in Cached : \E k \in 1..n : evictorList[k] = d
    BY <1>2
  <2> QED  BY <2>1, <2>2, <2>3, Fun_IsBij, Zenon
<1>4. ExistsBijection(1..n, Cached)
  BY <1>3, Zenon DEF ExistsBijection
<1> QED  BY <1>1, <1>4, FS_CountingElements, Zenon

-----------------------------------------------------------------------------
(* How a step may leave the cache and the calls. *)

\* Items keep ident and place.
ItemsStay ==
    /\ item' \in [Item -> ItemRec]
    /\ \A i \in Item : item'[i].ident = item[i].ident /\ item'[i].orphan = item[i].orphan

\* The recency list is reordered at most.
ListStays ==
    /\ evictorList' \in Seq(Ident) /\ ToSet(evictorList') = ToSet(evictorList)
    /\ \A j, k \in DOMAIN evictorList' : evictorList'[j] = evictorList'[k] => j = k

\* Callers whose servant was replaced hold no Item's any more.
LetsGo(q) ==
    /\ q \in [Caller -> CallRec]
    /\ \A o \in Caller :
         /\ q[o].pc = call[o].pc /\ q[o].op = call[o].op
         /\ q[o].ident = call[o].ident /\ q[o].item = call[o].item
         /\ q[o].held \in {NoItem, call[o].held}

\* Without a change of _cache, the list goes on matching it.
LEMMA ListHolds ==
    ASSUME CacheTypes, ListMatchesCache, CachedAreNamed,
           ItemsStay, ListStays, cache' = cache
    PROVE  ListMatchesCache' /\ CachedAreNamed'
<1> USE DEF CacheTypes, ItemsStay, ListStays, ListMatchesCache, CachedAreNamed
<1>1. Cached' = Cached
  BY DEF Cached
<1>2. \A d \in Cached : d \in Ident /\ cache[d] \in Item
  BY DEF Cached
<1>3. \A d \in Cached : item'[cache[d]].ident = d /\ ~item'[cache[d]].orphan
  BY <1>2
<1>4. \A i \in Item : ~item'[i].orphan => cache[item'[i].ident] = i
  OBVIOUS
<1>5. CachedAreNamed'
  OBVIOUS
<1>6. ToSet(evictorList') = Cached'
  BY <1>1
<1> QED  BY <1>1, <1>3, <1>4, <1>5, <1>6

\* A step of poll() that moves no Item.
LEMMA ItemsKept ==
    ASSUME CacheInv, ItemsStay, cache' = cache, evictorList' = evictorList, call' = call,
           store' \in [Ident -> Nat], written' \in Nat, DeadAreEmpty',
           \A i \in Item : item'[i].data = item[i].data
    PROVE  CacheInv'
<1> USE DEF CacheInv
<1>1. ListMatchesCache' /\ CachedAreNamed'
  <2>1. ListStays
    BY DEF ListStays, CacheTypes, ListMatchesCache
  <2> QED  BY <2>1, ListHolds
<1>2. CacheTypes'
  BY DEF CacheTypes, ItemsStay
<1>3. CallsOK'
  <2>1. \A c \in Caller : call[c].item \in Item \cup {NoItem} /\ call[c].held \in Item \cup {NoItem}
    BY DEF CacheTypes, CallRec
  <2> QED  BY <2>1 DEF CallsOK, CallOK, ItemsStay
<1> QED  BY <1>1, <1>2, <1>3

\* A caller's step that leaves _cache alone.
LEMMA CallMoves ==
    ASSUME CacheInv, ItemsStay, ListStays, cache' = cache,
           store' = store, written' \in Nat, DeadAreEmpty', NEW q, LetsGo(q),
           NEW c \in Caller, NEW r \in CallRec, call' = [q EXCEPT ![c] = r], CallOK(r)',
           \A o \in Caller : q[o].held # NoItem => item'[q[o].held].data # NoData
    PROVE  CacheInv'
<1> USE DEF CacheInv
<1>1. ListMatchesCache' /\ CachedAreNamed'
  BY ListHolds
<1>2. CacheTypes'
  BY DEF CacheTypes, ItemsStay, ListStays, LetsGo
<1>3. \A o \in Caller : call[o].item \in Item \cup {NoItem} /\ call[o].held \in Item \cup {NoItem}
  BY DEF CacheTypes, CallRec
<1>4. \A o \in Caller : call'[o] = IF o = c THEN r ELSE q[o]
  BY DEF LetsGo
<1>5. ASSUME NEW o \in Caller  PROVE CallOK(call[o])'
  <2>1. CASE o = c
    BY <1>4, <2>1 DEF CallOK
  <2>2. CASE o # c
    <3>1. /\ call'[o].pc = call[o].pc /\ call'[o].op = call[o].op
          /\ call'[o].ident = call[o].ident /\ call'[o].item = call[o].item
          /\ call'[o].held \in {NoItem, call[o].held}
          /\ call'[o].held # NoItem => item'[call'[o].held].data # NoData
      BY <1>4, <2>2 DEF LetsGo
    <3>2. CallOK(call[o])
      BY DEF CallsOK
    <3> QED  BY <1>3, <3>1, <3>2 DEF CallOK, ItemsStay
  <2> QED  BY <2>1, <2>2
<1> QED  BY <1>1, <1>2, <1>5 DEF CallsOK

\* _evict() of an Item no caller works on and whose servant no caller has
\* located; a dead one has none.
LEMMA EvictKeeps ==
    ASSUME CacheInv, NEW i \in Item, ~item[i].orphan, i \notin ByCallers,
           i \notin Served \/ item[i].status = "dead",
           Evict(i), UNCHANGED <<store, call, written>>
    PROVE  CacheInv'
<1> USE DEF CacheInv, CacheTypes
<1> DEFINE d == item[i].ident
<1>1. d \in Ident /\ cache[d] = i /\ i # NoItem /\ d \in Cached
  BY DEF CachedAreNamed, ListMatchesCache, Cached, Item, NoItem
<1>2. /\ cache' = [cache EXCEPT ![d] = NoItem]
      /\ evictorList' = Without(evictorList, d)
      /\ item' = [item EXCEPT ![i].orphan = TRUE]
  BY DEF Evict
<1>3. /\ evictorList' \in Seq(Ident)
      /\ \A j, k \in DOMAIN evictorList' : evictorList'[j] = evictorList'[k] => j = k
      /\ ToSet(evictorList') = ToSet(evictorList) \ {d}
  BY <1>1, <1>2, WithoutElements DEF ListMatchesCache
<1> HIDE DEF d
<1>4. /\ item' \in [Item -> ItemRec] /\ cache' \in [Ident -> Item \cup {NoItem}]
      /\ \A j \in Item : /\ item'[j].ident = item[j].ident /\ item'[j].data = item[j].data
                         /\ item'[j].status = item[j].status
                         /\ item'[j].orphan = (item[j].orphan \/ j = i)
      /\ \A x \in Ident : cache'[x] = IF x = d THEN NoItem ELSE cache[x]
  BY ZenonT(60), <1>1, <1>2 DEF ItemRec
<1>5. CacheTypes'
  BY <1>3, <1>4
<1>6. Cached' = Cached \ {d}
  BY <1>1, <1>4 DEF Cached
<1>7. ListMatchesCache'
  <2>1. ToSet(evictorList') = Cached'
    BY <1>3, <1>6 DEF ListMatchesCache
  <2>2. \A x \in Cached' : item'[cache'[x]].ident = x /\ ~item'[cache'[x]].orphan
    <3> SUFFICES ASSUME NEW x \in Cached, x # d
                 PROVE  item'[cache'[x]].ident = x /\ ~item'[cache'[x]].orphan
      BY <1>6
    <3>1. x \in Ident /\ cache'[x] = cache[x] /\ cache[x] \in Item
      BY <1>4 DEF Cached
    <3>2. item[cache[x]].ident = x /\ ~item[cache[x]].orphan
      BY DEF ListMatchesCache
    <3>3. cache[x] # i
      BY <3>2 DEF d
    <3> QED  BY <1>4, <3>1, <3>2, <3>3
  <2>3. \A j \in Item : ~item'[j].orphan => cache'[item'[j].ident] = j
    <3> SUFFICES ASSUME NEW j \in Item, ~item'[j].orphan
                 PROVE  cache'[item[j].ident] = j
      BY <1>4
    <3>1. ~item[j].orphan /\ j # i /\ cache[item[j].ident] = j /\ item[j].ident \in Ident
      BY <1>4 DEF ListMatchesCache, CachedAreNamed
    <3> QED  BY <1>1, <1>4, <3>1
  <2> QED  BY <1>3, <2>1, <2>2, <2>3 DEF ListMatchesCache
<1>8. CachedAreNamed' /\ DeadAreEmpty'
  BY <1>4 DEF CachedAreNamed, DeadAreEmpty
<1>9. ASSUME NEW c \in Caller  PROVE CallOK(call[c])'
  <2>1. call[c] \in CallRec /\ CallOK(call[c]) /\ call[c].item # i /\ call'[c] = call[c]
    BY <1>1 DEF CallsOK, ByCallers
  <2>2. call[c].item \in Item \cup {NoItem} /\ call[c].held \in Item \cup {NoItem}
    BY <2>1 DEF CallRec
  <2>3. call[c].pc \in HasItem /\ call[c].op # "add" => cache'[call[c].ident] = call[c].item
    BY <1>1, <1>4, <2>1 DEF CallOK, HasItem
  <2>4. ASSUME call[c].held # NoItem
        PROVE  cache'[call[c].ident] = call[c].held /\ item'[call[c].held].data # NoData
    <3>1. call[c].held # i
      BY <2>1, <2>4 DEF Served, DeadAreEmpty, CallOK
    <3>2. call[c].ident \in Ident
      BY <2>1, <2>4 DEF CallOK
    <3> QED  BY <1>1, <1>4, <2>1, <2>2, <2>4, <3>1, <3>2 DEF CallOK
  <2>5. call[c].item # NoItem => item'[call[c].item].ident = call[c].ident
    BY <1>4, <2>1, <2>2 DEF CallOK
  <2> QED  BY <2>1, <2>3, <2>4, <2>5 DEF CallOK
<1> QED  BY <1>5, <1>7, <1>8, <1>9 DEF CallsOK

\* The Item object a caller gets by allocation is nobody's.
LEMMA NewIsFree ==
    ASSUME CacheInv, FreeItems # {}
    PROVE  /\ NewItem \in Item /\ NewItem # NoItem /\ item[NewItem].orphan
           /\ \A c \in Caller : call[c].item # NewItem /\ call[c].held # NewItem
           /\ \A d \in Ident : cache[d] # NewItem
<1> DEFINE n == NewItem
<1>1. n \in FreeItems
  BY Zenon DEF NewItem
<1> HIDE DEF n
<1>2. n \in Item /\ n # NoItem /\ \A d \in Ident : cache[d] # n
  BY <1>1 DEF FreeItems, Item, NoItem
<1>3. n \notin ByCallers
  BY <1>1 DEF FreeItems
<1>4. ASSUME NEW c \in Caller  PROVE call[c].item # n /\ call[c].held # n
  <2>1. call[c].held # NoItem => call[c].ident \in Ident /\ cache[call[c].ident] = call[c].held
    BY DEF CacheInv, CallsOK, CallOK
  <2> QED  BY <1>2, <1>3, <2>1 DEF ByCallers
<1>5. item[n].orphan
  BY <1>2 DEF CacheInv, ListMatchesCache, CachedAreNamed, CacheTypes, ItemRec
<1> QED  BY <1>2, <1>4, <1>5 DEF n

\* pin() and add() make an Item for the ident of the call.
LEMMA AllocKeeps ==
    ASSUME CacheInv, FreeItems # {}, NEW c \in Caller, call[c].ident \in Ident,
           NEW st \in Status, NEW data \in Nat, st \in {"destroyed", "dead"} => data = NoData,
           Alloc(call[c].ident, st, data),
           NEW pc \in {"insert", "lock"}, pc = "lock" => call[c].op = "add",
           call' = [call EXCEPT ![c].pc = pc, ![c].item = NewItem],
           UNCHANGED <<store, cache, evictorList, written>>
    PROVE  CacheInv'
<1> DEFINE n == NewItem
<1> USE DEF CacheInv, CacheTypes
<1>1. /\ n \in Item /\ n # NoItem /\ item[n].orphan
      /\ \A o \in Caller : call[o].item # n /\ call[o].held # n
      /\ \A d \in Ident : cache[d] # n
  BY NewIsFree
<1>2. item' = [item EXCEPT ![n] = [ident |-> call[c].ident, status |-> st, data |-> data,
                                   completed |-> FALSE, orphan |-> TRUE]]
  BY DEF Alloc
<1> HIDE DEF n
<1>3. /\ item' \in [Item -> ItemRec]
      /\ \A i \in Item : i # n => item'[i] = item[i]
      /\ item'[n].ident = call[c].ident /\ item'[n].orphan
      /\ item'[n].status = st /\ item'[n].data = data
  BY <1>1, <1>2 DEF ItemRec
<1>4. /\ call' \in [Caller -> CallRec]
      /\ \A o \in Caller : o # c => call'[o] = call[o]
      /\ call'[c] = [call[c] EXCEPT !.pc = pc, !.item = n]
  BY <1>1 DEF CallRec, n
<1>5. /\ call'[c].pc = pc /\ call'[c].item = n /\ call'[c].ident = call[c].ident
      /\ call'[c].op = call[c].op /\ call'[c].held = call[c].held
  <2>1. call[c] \in CallRec
    OBVIOUS
  <2> QED  BY <1>4, <2>1, Zenon DEF CallRec
<1>6. CacheTypes'
  BY <1>3, <1>4
<1>7. Cached' = Cached /\ \A d \in Cached : d \in Ident /\ cache[d] \in Item /\ cache[d] # n
  BY <1>1 DEF Cached
<1>8. ListMatchesCache' /\ CachedAreNamed' /\ DeadAreEmpty'
  <2>1. \A d \in Cached' : item'[cache'[d]].ident = d /\ ~item'[cache'[d]].orphan
    BY <1>3, <1>7 DEF ListMatchesCache
  <2>2. \A i \in Item : ~item'[i].orphan => i # n
    BY <1>3
  <2>3. ListMatchesCache'
    BY <1>3, <1>7, <2>1, <2>2 DEF ListMatchesCache
  <2>4. CachedAreNamed' /\ DeadAreEmpty'
    BY <1>3, <2>2 DEF CachedAreNamed, DeadAreEmpty
  <2> QED  BY <2>3, <2>4
<1>9. ASSUME NEW o \in Caller  PROVE CallOK(call[o])'
  <2>1. CallOK(call[o]) /\ call[o].held \in Item \cup {NoItem}
        /\ call[o].item \in Item \cup {NoItem}
    BY DEF CallsOK, CallRec
  <2>2. /\ call[o].held # NoItem => item'[call[o].held] = item[call[o].held]
        /\ call[o].item # NoItem => item'[call[o].item] = item[call[o].item]
    BY <1>1, <1>3, <2>1
  <2>3. CASE o # c
    BY <1>4, <2>1, <2>2, <2>3 DEF CallOK
  <2>4. CASE o = c
    BY <1>1, <1>3, <1>5, <2>1, <2>2, <2>4 DEF CallOK, HasItem
  <2> QED  BY <2>3, <2>4
<1> QED  BY <1>6, <1>8, <1>9 DEF CallsOK

\* pin() puts what it loaded into the cache, where the ident is not.
LEMMA InsertKeeps ==
    ASSUME CacheInv, NEW c \in Caller, call[c].pc = "insert", call[c].item # NoItem,
           NEW d \in Ident, d = call[c].ident, cache[d] = NoItem,
           cache' = [cache EXCEPT ![d] = call[c].item], evictorList' = <<d>> \o evictorList,
           item' = [item EXCEPT ![call[c].item].orphan = FALSE],
           NEW r \in {Idle, [call[c] EXCEPT !.pc = "lock"]},
           call' = [call EXCEPT ![c] = r],
           UNCHANGED <<store, written>>
    PROVE  CacheInv'
<1> USE DEF CacheInv, CacheTypes
<1> DEFINE i == call[c].item
<1>1. /\ i \in Item /\ i # NoItem /\ item[i].ident = d
      /\ call[c] \in CallRec /\ CallOK(call[c])
  BY DEF CallRec, CallsOK, CallOK
<1>2. item[i].orphan
  BY <1>1 DEF ListMatchesCache, ItemRec
<1> HIDE DEF i
<1>3. /\ item' \in [Item -> ItemRec] /\ cache' \in [Ident -> Item \cup {NoItem}]
      /\ \A j \in Item : /\ item'[j].ident = item[j].ident /\ item'[j].data = item[j].data
                         /\ item'[j].status = item[j].status
                         /\ item'[j].orphan = (item[j].orphan /\ j # i)
      /\ \A x \in Ident : cache'[x] = IF x = d THEN i ELSE cache[x]
  BY ZenonT(60), <1>1 DEF ItemRec, i
<1>4. r \in CallRec /\ \A o \in Caller : call'[o] = IF o = c THEN r ELSE call[o]
  <2>1. Idle \in CallRec
    BY DEF Idle, CallRec, NoItem
  <2>2. [call[c] EXCEPT !.pc = "lock"] \in CallRec
    BY <1>1 DEF CallRec
  <2>3. \A o \in Caller : call'[o] = IF o = c THEN r ELSE call[o]
    OBVIOUS
  <2> QED  BY <2>1, <2>2, <2>3
<1>5. /\ r.item \in {NoItem, i} /\ r.held \in {NoItem, call[c].held}
      /\ r.pc \in {"idle", "lock"}
      /\ r.pc = "idle" => r.item = NoItem /\ r.held = NoItem
      /\ r.pc = "lock" => r.item = i /\ r.ident = d /\ r.held = call[c].held
  BY <1>1 DEF CallRec, Idle, i
<1>6. d \notin ToSet(evictorList)
  BY DEF ListMatchesCache, Cached
<1>7. /\ evictorList' \in Seq(Ident)
      /\ \A j, k \in DOMAIN evictorList' : evictorList'[j] = evictorList'[k] => j = k
      /\ ToSet(evictorList') = ToSet(evictorList) \cup {d}
  BY <1>6, PushedElements DEF ListMatchesCache
<1>8. CacheTypes'
  BY <1>3, <1>4, <1>7
<1>9. Cached' = Cached \cup {d}
  BY <1>1, <1>3 DEF Cached
<1>10. ListMatchesCache'
  <2>1. ToSet(evictorList') = Cached'
    BY <1>7, <1>9 DEF ListMatchesCache
  <2>2. \A x \in Cached' : item'[cache'[x]].ident = x /\ ~item'[cache'[x]].orphan
    <3>1. CASE TRUE
      BY <1>1, <1>3, <1>9 DEF ListMatchesCache, Cached
    <3> QED  BY <3>1
  <2>3. \A j \in Item : ~item'[j].orphan => cache'[item'[j].ident] = j
    <3> SUFFICES ASSUME NEW j \in Item, ~item'[j].orphan
                 PROVE  cache'[item[j].ident] = j
      BY <1>3
    <3>1. CASE j = i
      BY <1>1, <1>3, <3>1
    <3>2. CASE j # i
      <4>1. ~item[j].orphan /\ cache[item[j].ident] = j /\ item[j].ident \in Ident /\ j # NoItem
        BY <1>3, <3>2 DEF ListMatchesCache, CachedAreNamed, Item, NoItem
      <4> QED  BY <1>3, <4>1
    <3> QED  BY <3>1, <3>2
  <2> QED  BY <1>7, <2>1, <2>2, <2>3 DEF ListMatchesCache
<1>11. CachedAreNamed' /\ DeadAreEmpty'
  BY <1>1, <1>3 DEF CachedAreNamed, DeadAreEmpty
<1>12. ASSUME NEW o \in Caller  PROVE CallOK(call[o])'
  <2>1. CallOK(call[o]) /\ call[o].held \in Item \cup {NoItem}
        /\ call[o].item \in Item \cup {NoItem}
    BY DEF CallsOK, CallRec
  <2>2. call[o].held # NoItem =>
            cache'[call[o].ident] = call[o].held /\ item'[call[o].held].data # NoData
    <3> SUFFICES ASSUME call[o].held # NoItem
                 PROVE  cache'[call[o].ident] = call[o].held /\ item'[call[o].held].data # NoData
      OBVIOUS
    <3>1. call[o].ident \in Ident
      BY <2>1 DEF CallOK
    <3> QED  BY <1>3, <2>1, <3>1 DEF CallOK
  <2>3. CASE o # c
    <3>1. call'[o] = call[o]
      BY <1>4, <2>3
    <3>2. call[o].pc \in HasItem /\ call[o].op # "add" => cache'[call[o].ident] = call[o].item
      BY <1>3, <2>1 DEF CallOK, HasItem
    <3> QED  BY <1>3, <2>1, <2>2, <3>1, <3>2 DEF CallOK
  <2>4. CASE o = c
    <3>1. call'[c] = r
      BY <1>4
    <3>2. CASE r.pc = "idle"
      BY <1>5, <2>4, <3>1, <3>2 DEF CallOK, HasItem
    <3>3. CASE r.pc = "lock"
      BY <1>1, <1>3, <1>5, <2>2, <2>4, <3>1, <3>3 DEF CallOK, HasItem
    <3> QED  BY <1>5, <3>2, <3>3
  <2> QED  BY <2>3, <2>4
<1> QED  BY <1>8, <1>10, <1>11, <1>12 DEF CallsOK

-----------------------------------------------------------------------------
(* The callers' steps. *)

\* A call keeps its record's type and CallOK.
LEMMA CallFacts ==
    ASSUME CacheInv, NEW c \in Caller
    PROVE  /\ call[c] \in CallRec /\ CallOK(call[c])
           /\ call[c].item \in Item \cup {NoItem} /\ call[c].held \in Item \cup {NoItem}
BY DEF CacheInv, CacheTypes, CallRec, CallsOK

\* Goto() and Return() are assignments to one record.
LEMMA IdleIsOK == Idle \in CallRec /\ CallOK(Idle)
BY DEF Idle, CallRec, CallOK, HasItem, NoItem

\* Where no servant is replaced, the callers hold what they held.
LEMMA AllHold == ASSUME CacheInv  PROVE LetsGo(call)
BY DEF CacheInv, CacheTypes, LetsGo

\* Where one is, its holders hold no Item's servant any more.
LEMMA ReplacedLetsGo ==
    ASSUME CacheInv, NEW i \in Item
    PROVE  LetsGo(Replaced(i)) /\ \A o \in Caller : Replaced(i)[o].held # i
<1>1. Replaced(i) = [o \in Caller |->
                       [call[o] EXCEPT !.held = IF call[o].held = i THEN NoItem ELSE call[o].held]]
  BY Zenon DEF Replaced
<1>2. ASSUME NEW o \in Caller, NEW h \in Item \cup {NoItem}, NEW e, e = [call[o] EXCEPT !.held = h]
      PROVE  /\ e \in CallRec /\ e.pc = call[o].pc /\ e.op = call[o].op
             /\ e.ident = call[o].ident /\ e.item = call[o].item /\ e.held = h
  BY <1>2 DEF CacheInv, CacheTypes, CallRec
<1>3. ASSUME NEW o \in Caller
      PROVE  /\ Replaced(i)[o] \in CallRec
             /\ Replaced(i)[o].pc = call[o].pc /\ Replaced(i)[o].op = call[o].op
             /\ Replaced(i)[o].ident = call[o].ident /\ Replaced(i)[o].item = call[o].item
             /\ Replaced(i)[o].held = IF call[o].held = i THEN NoItem ELSE call[o].held
  <2>1. PICK h : h = IF call[o].held = i THEN NoItem ELSE call[o].held
    OBVIOUS
  <2>2. h \in Item \cup {NoItem}
    BY <2>1 DEF CacheInv, CacheTypes, CallRec
  <2>3. Replaced(i)[o] = [call[o] EXCEPT !.held = h]
    BY <1>1, <2>1
  <2>4. PICK e : e = Replaced(i)[o]
    OBVIOUS
  <2> QED  BY <1>2, <2>1, <2>2, <2>3, <2>4
<1>4. Replaced(i) \in [Caller -> CallRec]
  <2>1. PICK f : f = Replaced(i)
    OBVIOUS
  <2>2. f = [o \in Caller |-> f[o]] /\ \A o \in Caller : f[o] \in CallRec
    BY <1>1, <1>3, <2>1
  <2> QED  BY <2>1, <2>2
<1>5. i # NoItem
  BY DEF Item, NoItem
<1> QED  BY <1>3, <1>4, <1>5 DEF LetsGo

\* A servant nobody located is replaced without notice.
LEMMA NobodyHeldIt ==
    ASSUME CacheInv, NEW i, \A o \in Caller : call[o].held # i
    PROVE  Replaced(i) = call
<1>1. \A o \in Caller : [call[o] EXCEPT !.held = IF @ = i THEN NoItem ELSE @] = call[o]
  <2>1. ASSUME NEW o \in Caller
        PROVE  [call[o] EXCEPT !.held = call[o].held] = call[o]
    BY DEF CacheInv, CacheTypes, CallRec
  <2> QED  BY <2>1, Zenon
<1>2. call = [o \in Caller |-> call[o]]
  BY DEF CacheInv, CacheTypes
<1> QED  BY <1>1, <1>2, Zenon DEF Replaced

\* A list that is not touched stays.
LEMMA ListSame ==
    ASSUME CacheInv, evictorList' = evictorList
    PROVE  ListStays
BY DEF CacheInv, CacheTypes, ListMatchesCache, ListStays

\* What is in the cache is an Item of that ident, and in the list.
LEMMA CachedItem ==
    ASSUME CacheInv, NEW d \in Ident, cache[d] # NoItem
    PROVE  /\ cache[d] \in Item /\ item[cache[d]].ident = d /\ ~item[cache[d]].orphan
           /\ d \in ToSet(evictorList)
BY DEF CacheInv, CacheTypes, ListMatchesCache, Cached

\* A caller's step that changes no Item.
LEMMA CallGoes ==
    ASSUME CacheInv, item' = item, ListStays, cache' = cache, store' = store,
           written' = written, NEW c \in Caller, NEW r \in CallRec,
           call' = [call EXCEPT ![c] = r], CallOK(r)
    PROVE  CacheInv'
<1>1. ItemsStay /\ DeadAreEmpty' /\ written' \in Nat
  BY DEF CacheInv, CacheTypes, ItemsStay, DeadAreEmpty
<1>2. CallOK(r)'
  BY DEF CallOK
<1>3. \A o \in Caller : call[o].held # NoItem => item'[call[o].held].data # NoData
  BY DEF CacheInv, CallsOK, CallOK
<1> QED  BY <1>1, <1>2, <1>3, AllHold, CallMoves

\* _requeue() reorders the list.
LEMMA RequeueReorders ==
    ASSUME CacheInv, NEW i \in Item, Requeue(i)
    PROVE  ListStays
<1>1. CASE item[i].orphan
  BY <1>1, ListSame DEF Requeue
<1>2. CASE ~item[i].orphan
  <2> DEFINE d == item[i].ident
  <2>1. d \in Ident /\ cache[d] = i /\ i # NoItem
    BY <1>2 DEF CacheInv, CachedAreNamed, ListMatchesCache, Item, NoItem
  <2>2. d \in ToSet(evictorList)
    BY <2>1, CachedItem
  <2> DEFINE w == Without(evictorList, d)
  <2>3. evictorList' = <<d>> \o w
    BY <1>2 DEF Requeue
  <2> HIDE DEF d
  <2>4. /\ w \in Seq(Ident) /\ \A j, k \in DOMAIN w : w[j] = w[k] => j = k
        /\ ToSet(w) = ToSet(evictorList) \ {d}
    BY <2>2, WithoutElements DEF CacheInv, CacheTypes, ListMatchesCache
  <2> HIDE DEF w
  <2>5. d \notin ToSet(w)
    BY <2>4
  <2>6. /\ evictorList' \in Seq(Ident)
        /\ \A j, k \in DOMAIN evictorList' : evictorList'[j] = evictorList'[k] => j = k
        /\ ToSet(evictorList') = ToSet(w) \cup {d}
    BY <2>1, <2>3, <2>4, <2>5, PushedElements
  <2>7. ToSet(evictorList') = ToSet(evictorList)
    BY <2>2, <2>4, <2>6
  <2> QED  BY <2>6, <2>7 DEF ListStays
<1> QED  BY <1>1, <1>2

\* An operation begins.
LEMMA BeginKeeps ==
    ASSUME CacheInv, NEW c \in Caller, Begin(c)
    PROVE  CacheInv'
<1>1. PICK d \in Ident, op \in {"add", "remove", "locate"}, b \in BOOLEAN :
          call' = [call EXCEPT ![c] = [Idle EXCEPT !.pc = "pin", !.op = op,
                                                   !.ident = d, !.complete = b]]
  BY DEF Begin
<1> DEFINE r == [Idle EXCEPT !.pc = "pin", !.op = op, !.ident = d, !.complete = b]
<1>2. r \in CallRec /\ CallOK(r)
  BY DEF Idle, CallRec, CallOK, HasItem, NoItem
<1> HIDE DEF r
<1>3. UNCHANGED <<item, evictorList, cache, store, written>>
  BY DEF Begin, cacheVars
<1> QED  BY <1>1, <1>2, <1>3, ListSame, CallGoes DEF r

\* pin() finds the ident in the cache.
LEMMA PinnedKeeps ==
    ASSUME CacheInv, NEW c \in Caller, call[c].pc # "idle", cache[call[c].ident] # NoItem,
           Pinned(c, cache[call[c].ident], item),
           UNCHANGED <<evictorList, cache, store, written>>
    PROVE  CacheInv' /\ item' = item
<1> DEFINE i == cache[call[c].ident]
           r == [call[c] EXCEPT !.pc = "lock", !.item = i]
<1>1. call[c].ident \in Ident
  BY CallFacts DEF CallOK
<1>2. i \in Item /\ item[i].ident = call[c].ident /\ ~item[i].orphan
  BY <1>1, CachedItem
<1>3. item' = item /\ (call' = [call EXCEPT ![c] = r] \/ call' = [call EXCEPT ![c] = Idle])
  BY DEF Pinned, Return
<1> HIDE DEF i
<1>4. r \in CallRec /\ r.ident = call[c].ident /\ r.item = i /\ r.held = call[c].held /\ r.pc = "lock"
  BY <1>2, CallFacts DEF CallRec
<1>5. CallOK(r)
  BY <1>1, <1>2, <1>4, CallFacts DEF CallOK, HasItem, i
<1> HIDE DEF r
<1> QED  BY <1>3, <1>4, <1>5, IdleIsOK, ListSame, CallGoes

\* A call may go on to a place that asks no more of it.
LEMMA PlaceIsOK ==
    ASSUME CacheInv, NEW c \in Caller, call[c].pc # "idle",
           NEW pc \in {"pin", "load", "insert", "queue", "requeue", "dirty"},
           pc \in HasItem => call[c].pc \in HasItem,
           pc \in {"pin", "load"} => call[c].pc \in {"pin", "load", "held"}
    PROVE  LET r == [call[c] EXCEPT !.pc = pc]
           IN r \in CallRec /\ CallOK(r)
<1> DEFINE r == [call[c] EXCEPT !.pc = pc]
<1>1. call[c] \in CallRec /\ CallOK(call[c])
  BY CallFacts
<1>2. /\ r \in CallRec /\ r.pc = pc /\ r.item = call[c].item /\ r.held = call[c].held
      /\ r.ident = call[c].ident /\ r.op = call[c].op
  BY <1>1 DEF CallRec
<1> HIDE DEF r
<1>3. CallOK(r)
  BY <1>1, <1>2 DEF CallOK, HasItem
<1> QED  BY <1>2, <1>3 DEF r

\* A call that just goes on.
LEMMA GotoKeeps ==
    ASSUME CacheInv, NEW c \in Caller, call[c].pc # "idle",
           NEW pc \in {"pin", "load", "insert", "queue", "requeue", "dirty"},
           pc \in HasItem => call[c].pc \in HasItem,
           pc \in {"pin", "load"} => call[c].pc \in {"pin", "load", "held"},
           Goto(c, pc), UNCHANGED <<item, evictorList, cache, store, written>>
    PROVE  CacheInv'
<1> DEFINE r == [call[c] EXCEPT !.pc = pc]
<1>1. r \in CallRec /\ CallOK(r)
  BY PlaceIsOK
<1>2. call' = [call EXCEPT ![c] = r]
  BY DEF Goto
<1> HIDE DEF r
<1> QED  BY <1>1, <1>2, ListSame, CallGoes

\* A call returns.
LEMMA ReturnKeeps ==
    ASSUME CacheInv, NEW c \in Caller, Return(c), ListStays,
           UNCHANGED <<item, cache, store, written>>
    PROVE  CacheInv'
BY IdleIsOK, CallGoes DEF Return

\* pin(), with the allocation of an Item where add() finds none.
LEMMA PinKeeps ==
    ASSUME CacheInv, NEW c \in Caller, PinLookup(c) \/ PinLoad(c) \/ PinInsert(c)
    PROVE  CacheInv'
<1> DEFINE d == call[c].ident
           i == call[c].item
<1>1. /\ call[c] \in CallRec /\ CallOK(call[c]) /\ i \in Item \cup {NoItem}
      /\ call[c].pc \in {"pin", "load", "insert"} /\ d \in Ident
  BY CallFacts DEF PinLookup, PinLoad, PinInsert, CallOK
<1>2. CASE PinLookup(c)
  <2>1. UNCHANGED <<evictorList, cache, store, written>>
    BY <1>2 DEF PinLookup, cacheVars, ghosts
  <2>2. CASE cache[d] # NoItem
    BY <1>1, <1>2, <2>1, <2>2, PinnedKeeps DEF PinLookup
  <2>3. CASE cache[d] = NoItem
    BY <1>1, <1>2, <2>1, <2>3, GotoKeeps DEF PinLookup, HasItem
  <2> QED  BY <2>2, <2>3
<1>3. CASE PinLoad(c)
  <2>1. UNCHANGED <<evictorList, cache, store, written>> /\ call[c].pc = "load"
    BY <1>3 DEF PinLoad, cacheVars, ghosts
  <2>2. ASSUME NEW pc \in {"pin", "insert"}, Goto(c, pc), UNCHANGED item
        PROVE  CacheInv'
    BY <2>1, <2>2, GotoKeeps DEF HasItem
  <2>3. ASSUME NEW st \in {"clean", "dead"}, NEW data \in Nat, st = "dead" => data = NoData,
               FreeItems # {}, Alloc(d, st, data),
               call' = [call EXCEPT ![c].pc = "insert", ![c].item = NewItem]
        PROVE  CacheInv'
    BY <1>1, <2>1, <2>3, AllocKeeps DEF Status
  <2>4. store[d] \in Nat /\ NoData \in Nat
    BY <1>1 DEF CacheInv, CacheTypes, NoData
  <2>5. CASE \/ FreeItems # {} /\ Alloc(d, "clean", store[d])
                /\ call' = [call EXCEPT ![c].pc = "insert", ![c].item = NewItem]
             \/ FreeItems # {} /\ Alloc(d, "dead", NoData)
                /\ call' = [call EXCEPT ![c].pc = "insert", ![c].item = NewItem]
    BY <2>3, <2>4, <2>5
  <2>6. CASE \E pc \in {"pin", "insert"} : Goto(c, pc) /\ UNCHANGED item
    BY <2>2, <2>6
  <2> QED  BY <1>3, <2>5, <2>6 DEF PinLoad
<1>4. CASE PinInsert(c)
  <2>1. UNCHANGED <<store, written>> /\ call[c].pc = "insert"
    BY <1>4 DEF PinInsert, ghosts
  <2>2. CASE cache[d] # NoItem
    <3>1. UNCHANGED <<evictorList, cache>> /\ Pinned(c, cache[d], item)
      BY <1>4, <2>2 DEF PinInsert, cacheVars
    <3> QED  BY <2>1, <2>2, <3>1, PinnedKeeps
  <2>3. CASE cache[d] = NoItem /\ i # NoItem
    <3>1. /\ cache' = [cache EXCEPT ![d] = i] /\ evictorList' = <<d>> \o evictorList
          /\ Pinned(c, i, [item EXCEPT ![i].orphan = FALSE])
      BY <1>4, <2>3 DEF PinInsert
    <3>2. /\ item' = [item EXCEPT ![i].orphan = FALSE]
          /\ \/ call' = [call EXCEPT ![c].pc = "lock", ![c].item = i]
             \/ call' = [call EXCEPT ![c] = Idle]
      BY <2>3, <3>1 DEF Pinned, Return
    <3>3. [call EXCEPT ![c].pc = "lock", ![c].item = i] = [call EXCEPT ![c] = [call[c] EXCEPT !.pc = "lock"]]
      <4>1. [call[c] EXCEPT !.pc = "lock", !.item = i] = [call[c] EXCEPT !.pc = "lock"]
        BY <1>1 DEF CallRec
      <4>2. [call EXCEPT ![c].pc = "lock", ![c].item = i]
              = [call EXCEPT ![c] = [call[c] EXCEPT !.pc = "lock", !.item = i]]
        BY Zenon
      <4> QED  BY <4>1, <4>2, Zenon
    <3>4. PICK r \in {Idle, [call[c] EXCEPT !.pc = "lock"]} : call' = [call EXCEPT ![c] = r]
      BY <3>2, <3>3, Zenon
    <3> HIDE DEF d
    <3>5. d = call[c].ident
      BY DEF d
    <3> QED  BY <1>1, <2>1, <2>3, <3>1, <3>2, <3>4, <3>5, InsertKeeps
  <2>4. CASE cache[d] = NoItem /\ i = NoItem
    <3>1. /\ FreeItems # {} /\ UNCHANGED <<evictorList, cache>>
          /\ Pinned(c, NoItem, item)
      BY <1>4, <2>4 DEF PinInsert, cacheVars
    <3>2. CASE call[c].op = "add"
      <4>1. Alloc(d, "dead", NoData) /\ call' = [call EXCEPT ![c].pc = "lock", ![c].item = NewItem]
        BY <3>1, <3>2 DEF Pinned
      <4>2. NoData \in Nat /\ "dead" \in Status
        BY DEF NoData, Status
      <4> QED  BY <1>1, <2>1, <3>1, <3>2, <4>1, <4>2, AllocKeeps
    <3>3. CASE call[c].op # "add"
      <4>1. Return(c) /\ UNCHANGED item
        BY <3>1, <3>3 DEF Pinned
      <4> QED  BY <2>1, <3>1, <4>1, ListSame, ReturnKeeps
    <3> QED  BY <3>2, <3>3
  <2> QED  BY <2>2, <2>3, <2>4
<1> QED  BY <1>2, <1>3, <1>4

\* Nothing but i is written to.
Writes(i) ==
    /\ ItemsStay /\ DeadAreEmpty'
    /\ \A j \in Item : j # i => item'[j].data = item[j].data

\* A status and a servant are written into an Item.
LEMMA WritesItem ==
    ASSUME CacheInv, NEW i \in Item, NEW st \in Status, NEW data \in Nat, NEW done \in BOOLEAN,
           st \in {"destroyed", "dead"} => data = NoData,
           item' = [item EXCEPT ![i].status = st, ![i].data = data, ![i].completed = done]
    PROVE  Writes(i)
<1>1. /\ ItemsStay
      /\ \A j \in Item : j # i => item'[j].data = item[j].data /\ item'[j].status = item[j].status
      /\ item'[i].data = data /\ item'[i].status = st
  BY DEF CacheInv, CacheTypes, ItemsStay, ItemRec
<1>2. DeadAreEmpty'
  BY <1>1 DEF CacheInv, DeadAreEmpty
<1> QED  BY <1>1, <1>2 DEF Writes

\* What a caller writes into an Item leaves the other calls as they are, but
\* for those that it parts from their servant.
LEMMA WriteKeeps ==
    ASSUME CacheInv, NEW c \in Caller, NEW i \in Item, Writes(i), NEW q, LetsGo(q),
           \A o \in Caller : q[o].held = i => item'[i].data # NoData,
           ListStays, cache' = cache, store' = store, written' \in Nat,
           NEW r \in CallRec, call' = [q EXCEPT ![c] = r], CallOK(r),
           r.held = i => item'[i].data # NoData
    PROVE  CacheInv'
<1>1. ItemsStay /\ DeadAreEmpty' /\ \A j \in Item : j # i => item'[j].data = item[j].data
  BY DEF Writes
<1>2. ASSUME NEW o \in Caller, q[o].held # NoItem
      PROVE  item'[q[o].held].data # NoData
  <2>1. q[o].held = call[o].held /\ call[o].held \in Item /\ item[call[o].held].data # NoData
    BY <1>2, CallFacts DEF LetsGo, CallOK
  <2> QED  BY <1>1, <2>1
<1>3. CallOK(r)'
  <2>1. r.item \in Item \cup {NoItem} /\ r.held \in Item \cup {NoItem}
    BY DEF CallRec
  <2> QED  BY <1>1, <2>1 DEF CallOK, ItemsStay
<1> QED  BY <1>1, <1>2, <1>3, CallMoves

\* add(), remove() and locate() on the Item they have locked.
LEMMA BodyKeeps ==
    ASSUME CacheInv, NEW c \in Caller, AddBody(c) \/ RemoveBody(c) \/ LocateBody(c)
    PROVE  CacheInv'
<1> DEFINE i == call[c].item
           s == item[i].status
<1>1. call[c].pc = "lock" /\ UNCHANGED <<evictorList, cache, store>>
  BY DEF AddBody, RemoveBody, LocateBody, LockItem, cacheVars
<1>2. i \in Item /\ item[i] \in ItemRec /\ written + 1 \in Nat
  BY <1>1, CallFacts DEF CallOK, HasItem, CacheInv, CacheTypes
<1>3. PICK q : q = Replaced(i)
  OBVIOUS
<1>4. LetsGo(q) /\ \A o \in Caller : q[o].held # i
  BY <1>2, <1>3, ReplacedLetsGo
<1>5. ASSUME NEW pc \in {"queue", "requeue"}, call' = [q EXCEPT ![c].pc = pc],
             NEW st \in Status, NEW data \in Nat, st \in {"destroyed", "dead"} => data = NoData,
             item' = [item EXCEPT ![i].status = st, ![i].data = data], written' \in Nat
      PROVE  CacheInv'
  <2>1. item' = [item EXCEPT ![i].status = st, ![i].data = data, ![i].completed = item[i].completed]
    BY <1>2, <1>5 DEF ItemRec, CacheInv, CacheTypes
  <2>2. item[i].completed \in BOOLEAN
    BY <1>2 DEF ItemRec
  <2>3. ListStays
    BY <1>1, ListSame
  <2>4. Writes(i)
    BY <1>2, <1>5, <2>1, <2>2, WritesItem
  <2>5. PICK r : r = [q[c] EXCEPT !.pc = pc]
    OBVIOUS
  <2>6. /\ r \in CallRec /\ r.pc = pc /\ r.op = call[c].op /\ r.ident = call[c].ident
        /\ r.item = i /\ r.held \in {NoItem, call[c].held} /\ r.held # i
        /\ call' = [q EXCEPT ![c] = r]
    BY <1>4, <1>5, <2>5 DEF LetsGo, CallRec
  <2>7. CallOK(r)
    BY <1>1, <2>6, CallFacts DEF CallOK, HasItem
  <2>8. /\ \A o \in Caller : q[o].held = i => item'[i].data # NoData
        /\ r.held = i => item'[i].data # NoData
        /\ cache' = cache /\ store' = store /\ written' \in Nat
    BY <1>1, <1>4, <1>5, <2>6
  <2> HIDE DEF i
  <2> QED  BY <1>2, <1>4, <2>3, <2>4, <2>6, <2>7, <2>8, WriteKeeps
<1>6. CASE AddBody(c)
  <2> DEFINE st == IF s = "dead" THEN "created" ELSE "modified"
             pc == IF s = "destroyed" THEN "requeue" ELSE "queue"
  <2>1. /\ item' = [item EXCEPT ![i].data = written + 1, ![i].status = st]
        /\ call' = [q EXCEPT ![c].pc = pc] /\ written' = written + 1
    BY <1>3, <1>6 DEF AddBody
  <2>2. item' = [item EXCEPT ![i].status = st, ![i].data = written + 1]
    BY <1>2, <2>1 DEF CacheInv, CacheTypes, ItemRec
  <2>3. st \in Status /\ st \notin {"destroyed", "dead"} /\ pc \in {"queue", "requeue"}
    BY DEF Status
  <2> HIDE DEF st, pc, i
  <2> QED  BY <1>2, <1>5, <2>1, <2>2, <2>3
<1>7. CASE RemoveBody(c)
  <2>1. written' = written
    BY <1>7 DEF RemoveBody, ghosts
  <2>2. CASE s \in {"destroyed", "dead"}
    <3>1. Return(c) /\ UNCHANGED item
      BY <1>7, <2>2 DEF RemoveBody
    <3> QED  BY <1>1, <2>1, <3>1, ListSame, ReturnKeeps
  <2>3. CASE s \notin {"destroyed", "dead"}
    <3> DEFINE pc == IF s = "clean" THEN "queue" ELSE "requeue"
               st == StatusRemoved(s)
    <3>1. /\ item' = [item EXCEPT ![i].status = st, ![i].data = NoData]
          /\ call' = [q EXCEPT ![c].pc = pc]
      BY <1>3, <1>7, <2>3 DEF RemoveBody
    <3>2. pc \in {"queue", "requeue"} /\ st \in Status /\ NoData \in Nat /\ written' \in Nat
      BY <1>2, <2>1 DEF StatusRemoved, Status, NoData, CacheInv, CacheTypes
    <3> DEFINE none == NoData
    <3>3. none \in Nat /\ (st \in {"destroyed", "dead"} => none = NoData)
          /\ item' = [item EXCEPT ![i].status = st, ![i].data = none]
      BY <3>1, <3>2
    <3> HIDE DEF st, pc, i, none
    <3> QED  BY <1>5, <3>1, <3>2, <3>3
  <2> QED  BY <2>2, <2>3
<1>8. CASE LocateBody(c)
  <2>1. UNCHANGED <<item, written>>
    BY <1>8 DEF LocateBody, ghosts
  <2>2. CASE Return(c)
    BY <1>1, <2>1, <2>2, ListSame, ReturnKeeps
  <2>3. CASE Goto(c, "requeue")
    BY <1>1, <2>1, <2>3, GotoKeeps DEF HasItem
  <2> QED  BY <1>8, <2>2, <2>3 DEF LocateBody
<1> QED  BY <1>6, <1>7, <1>8

\* The end of the operations, where locate() hands the servant out.
LEMMA EndKeeps ==
    ASSUME CacheInv, NEW c \in Caller, EnqueueStep(c) \/ RequeueStep(c) \/ Release(c)
    PROVE  CacheInv'
<1> DEFINE i == call[c].item
<1>1. UNCHANGED <<item, cache, store, written>>
  BY DEF EnqueueStep, RequeueStep, Release, cacheVars, ghosts
<1>2. CASE EnqueueStep(c)
  <2>1. evictorList' = evictorList /\ call[c].pc = "queue" /\ Goto(c, "requeue")
    BY <1>2 DEF EnqueueStep, cacheVars
  <2> QED  BY <1>1, <2>1, GotoKeeps DEF HasItem
<1>3. CASE RequeueStep(c)
  <2>1. /\ call[c] \in CallRec /\ CallOK(call[c]) /\ call[c].pc = "requeue"
        /\ i \in Item /\ Requeue(i)
    BY <1>3, CallFacts DEF RequeueStep, CallOK, HasItem
  <2>2. ListStays
    BY <2>1, RequeueReorders
  <2>3. CASE call[c].op = "locate" /\ item[i].data # NoData
    <3> DEFINE r == [call[c] EXCEPT !.pc = "held", !.item = NoItem, !.held = i]
    <3>1. call' = [call EXCEPT ![c] = r]
      BY <1>3, <2>3 DEF RequeueStep
    <3>2. /\ r \in CallRec /\ r.pc = "held" /\ r.item = NoItem /\ r.held = i
          /\ r.ident = call[c].ident /\ r.op = call[c].op
      BY <2>1 DEF CallRec, NoItem
    <3> HIDE DEF r
    <3>3. cache[call[c].ident] = i /\ call[c].ident \in Ident /\ i # NoItem
      BY <2>1, <2>3 DEF CallOK, HasItem
    <3>4. CallOK(r)
      BY <2>3, <3>2, <3>3 DEF CallOK, HasItem
    <3> QED  BY <1>1, <2>2, <3>1, <3>2, <3>4, CallGoes
  <2>4. CASE ~(call[c].op = "locate" /\ item[i].data # NoData)
    BY <1>1, <1>3, <2>2, <2>4, ReturnKeeps DEF RequeueStep
  <2> QED  BY <2>3, <2>4
<1>4. CASE Release(c)
  BY <1>1, <1>4, ListSame, ReturnKeeps DEF Release, cacheVars
<1> QED  BY <1>2, <1>3, <1>4

\* The application changes what it located, and setDirty() takes note.
LEMMA DirtyKeeps ==
    ASSUME CacheInv, NEW c \in Caller,
           ChangeServant(c) \/ SetDirtyLock(c) \/ SetDirtyBody(c)
    PROVE  CacheInv'
<1>1. UNCHANGED <<cache, store>> /\ call[c] \in CallRec /\ CallOK(call[c])
  BY CallFacts DEF ChangeServant, SetDirtyLock, SetDirtyBody, cacheVars
<1>2. CASE ChangeServant(c)
  <2> DEFINE i == call[c].held
  <2> PICK r : r = [call[c] EXCEPT !.pc = "pin", !.op = "setDirty"]
    OBVIOUS
  <2>1. /\ call[c].pc = "held" /\ evictorList' = evictorList
        /\ item' = IF i = NoItem THEN item ELSE [item EXCEPT ![i].data = written + 1]
        /\ call' = [call EXCEPT ![c] = r] /\ written' = written + 1
    BY <1>2 DEF ChangeServant, cacheVars
  <2>2. /\ r \in CallRec /\ r.pc = "pin" /\ r.op = "setDirty" /\ r.item = call[c].item
        /\ r.held = call[c].held /\ r.ident = call[c].ident
    BY <1>1 DEF CallRec
  <2>3. CallOK(r)
    BY <1>1, <2>1, <2>2 DEF CallOK, HasItem
  <2>4. ListStays /\ LetsGo(call) /\ written' \in Nat
    BY <2>1, ListSame, AllHold DEF CacheInv, CacheTypes
  <2>5. CASE i = NoItem
    <3>1. ItemsStay /\ DeadAreEmpty'
      BY <2>1, <2>5 DEF ItemsStay, CacheInv, CacheTypes, DeadAreEmpty
    <3>2. CallOK(r)'
      <4>1. item' = item
        BY <2>1, <2>5
      <4> QED  BY <1>1, <2>3, <4>1 DEF CallOK
    <3>3. \A o \in Caller : call[o].held # NoItem => item'[call[o].held].data # NoData
      BY <2>1, <2>5 DEF CacheInv, CallsOK, CallOK
    <3>4. call' = [call EXCEPT ![c] = r]
      BY <2>1
    <3> HIDE DEF i
    <3> QED  BY <1>1, <2>2, <2>4, <3>1, <3>2, <3>3, <3>4, CallMoves
  <2>6. CASE i # NoItem
    <3> DEFINE st == item[i].status
               done == item[i].completed
               data == written + 1
    <3>1. i \in Item /\ item[i] \in ItemRec /\ data \in Nat /\ data # NoData /\ item[i].data # NoData
      BY <1>1, <2>6, CallFacts DEF CallOK, CacheInv, CacheTypes, NoData
    <3>2. item' = [item EXCEPT ![i].status = st, ![i].data = data, ![i].completed = done]
      BY <2>1, <2>6, <3>1 DEF CacheInv, CacheTypes, ItemRec
    <3>3. st \in Status /\ st \notin {"destroyed", "dead"} /\ done \in BOOLEAN
      BY <3>1 DEF ItemRec, CacheInv, DeadAreEmpty
    <3>4. item'[i].data = data
      BY <3>1, <3>2 DEF CacheInv, CacheTypes, ItemRec
    <3> HIDE DEF i, st, done, data
    <3>5. Writes(i)
      BY <3>1, <3>2, <3>3, WritesItem
    <3> QED  BY <1>1, <2>1, <2>2, <2>3, <2>4, <3>1, <3>4, <3>5, WriteKeeps
  <2> QED  BY <2>5, <2>6
<1>3. CASE SetDirtyLock(c)
  BY <1>1, <1>3, GotoKeeps DEF SetDirtyLock, HasItem, cacheVars, ghosts
<1>4. CASE SetDirtyBody(c)
  <2> DEFINE i == call[c].item
  <2>1. call[c].pc = "dirty" /\ written' = written /\ Return(c) /\ i \in Item
    BY <1>1, <1>4, CallFacts DEF SetDirtyBody, ghosts, CallOK, HasItem
  <2>2. CASE item[i].status = "clean"
    <3>1. /\ item' = [item EXCEPT ![i].status = "modified", ![i].completed = call[c].complete]
          /\ Requeue(i)
      BY <1>4, <2>2 DEF SetDirtyBody
    <3> DEFINE st == "modified"
               done == call[c].complete
               data == item[i].data
    <3>2. /\ item[i] \in ItemRec /\ written' \in Nat /\ done \in BOOLEAN
      BY <1>1, <2>1 DEF CacheInv, CacheTypes, CallRec
    <3>3. item' = [item EXCEPT ![i].status = st, ![i].data = data, ![i].completed = done]
      BY <2>1, <3>1, <3>2 DEF CacheInv, CacheTypes, ItemRec
    <3>4. data \in Nat /\ st \in Status /\ st \notin {"destroyed", "dead"}
      BY <3>2 DEF ItemRec, Status
    <3>5. ListStays
      BY <2>1, <3>1, RequeueReorders
    <3>6. call' = [call EXCEPT ![c] = Idle]
      BY <2>1 DEF Return
    <3>7. item'[i].data = item[i].data
      BY <2>1, <3>2, <3>3 DEF CacheInv, CacheTypes, ItemRec
    <3> HIDE DEF i, st, done, data
    <3>8. Writes(i)
      BY <2>1, <3>2, <3>3, <3>4, WritesItem DEF data
    <3>9. \A o \in Caller : call[o].held = i => item'[i].data # NoData
      BY <2>1, <3>7 DEF CacheInv, CallsOK, CallOK, NoItem, Item
    <3>10. Idle.held # i
      BY <2>1 DEF Idle, NoItem, Item
    <3> QED  BY <1>1, <2>1, <3>2, <3>5, <3>6, <3>8, <3>9, <3>10, IdleIsOK, AllHold, WriteKeeps
  <2>3. CASE item[i].status # "clean"
    BY <1>1, <1>4, <2>1, <2>3, ListSame, ReturnKeeps DEF SetDirtyBody, modVars
  <2> QED  BY <2>2, <2>3
<1> QED  BY <1>2, <1>3, <1>4

-----------------------------------------------------------------------------
(* poll() and the cache. *)

\* A step that touches no Item and neither cache nor calls.
LEMMA CacheKept ==
    ASSUME CacheInv, UNCHANGED <<item, cache, evictorList, call, written>>,
           store' \in [Ident -> Nat]
    PROVE  CacheInv'
<1>1. ItemsStay /\ DeadAreEmpty' /\ written' \in Nat
  BY DEF CacheInv, CacheTypes, ItemsStay, DeadAreEmpty
<1> QED  BY <1>1, ItemsKept

\* A status is set by poll().
LEMMA StatusKeeps ==
    ASSUME CacheInv, NEW i \in Item, NEW st \in Status,
           st \in {"destroyed", "dead"} => item[i].status \in {"destroyed", "dead"},
           item' = [item EXCEPT ![i].status = st],
           UNCHANGED <<store, cache, evictorList, call, written>>
    PROVE  CacheInv'
<1>1. /\ ItemsStay
      /\ \A j \in Item : /\ item'[j].data = item[j].data
                         /\ item'[j].status = IF j = i THEN st ELSE item[j].status
  BY DEF CacheInv, CacheTypes, ItemsStay, ItemRec
<1>2. DeadAreEmpty'
  BY <1>1 DEF CacheInv, DeadAreEmpty
<1>3. store' \in [Ident -> Nat] /\ written' \in Nat
  BY DEF CacheInv, CacheTypes
<1> QED  BY <1>1, <1>2, <1>3, ItemsKept

\* No phase of poll() disturbs the cache, least of all its evictions.
LEMMA PollKeepsCache ==
    ASSUME CacheInv, QueueTypes, PollStep
    PROVE  CacheInv'
<1>1. /\ poll.batch \in Seq(Named) /\ poll.dead \in Seq(Item) /\ poll.flush \in Seq(Item)
      /\ poll.saving \in Seq(Stream) /\ store \in [Ident -> Nat]
  BY DEF QueueTypes, CacheInv, CacheTypes
<1>2. CASE PollBegins
  <2>1. evictorList' = evictorList
    BY <1>2, NeverRebuilt DEF PollBegins, CacheInv
  <2> QED  BY <1>1, <1>2, <2>1, CacheKept DEF PollBegins, ghosts
<1>3. CASE PopModified \/ PopDone
  BY <1>1, <1>3, CacheKept DEF PopModified, PopDone, cacheVars, ghosts
<1>4. CASE StreamItem
  <2> DEFINE i == Head(poll.batch)
  <2>1. UNCHANGED <<store, cache, evictorList, call, written>> /\ poll.batch # <<>>
    BY <1>4 DEF StreamItem, cacheVars, ghosts
  <2>2. i \in Item
    BY <1>1, <2>1 DEF Named
  <2>3. \/ item' = item
        \/ item[i].status = "destroyed" /\ item' = [item EXCEPT ![i].status = "dead"]
    BY <1>4 DEF StreamItem, StreamDirty, StreamDestroyed
  <2> HIDE DEF i
  <2> QED  BY <1>1, <2>1, <2>2, <2>3, CacheKept, StatusKeeps DEF Status
<1>5. CASE PushStreamed \/ RequeueIncomplete \/ TakeStreamed \/ SaveReturns
  BY <1>1, <1>5, CacheKept
     DEF PushStreamed, RequeueIncomplete, TakeStreamed, SaveReturns, cacheVars, ghosts
<1>6. CASE SaveOne
  <2>1. UNCHANGED <<item, cache, evictorList, call, written>> /\ poll.saving # <<>>
    BY <1>6 DEF SaveOne, cacheVars, ghosts
  <2> DEFINE e == Head(poll.saving)
  <2>2. e \in Stream /\ (store' = store \/ store' = [store EXCEPT ![e.ident] = e.data])
    BY <1>1, <1>6, <2>1 DEF SaveOne
  <2> HIDE DEF e
  <2>3. store' \in [Ident -> Nat]
    BY <1>1, <2>2 DEF Stream
  <2> QED  BY <2>1, <2>3, CacheKept
<1>7. CASE EvictDead
  <2> DEFINE i == Head(poll.dead)
  <2>1. UNCHANGED <<store, call, written>> /\ i \in Item
    BY <1>1, <1>7 DEF EvictDead, ghosts
  <2>2. \/ UNCHANGED <<item, cache, evictorList>>
        \/ ~item[i].orphan /\ item[i].status = "dead" /\ i \notin ByCallers /\ Evict(i)
    BY <1>7 DEF EvictDead, cacheVars
  <2> HIDE DEF i
  <2> QED  BY <1>1, <2>1, <2>2, CacheKept, EvictKeeps
<1>8. CASE DeadDone \/ FlushDone \/ PollReturns
  BY <1>1, <1>8, CacheKept DEF DeadDone, FlushDone, PollReturns, cacheVars, ghosts
<1>9. CASE FlushItem
  <2> DEFINE i == Head(poll.flush)
  <2>1. UNCHANGED <<store, cache, evictorList, call, written>> /\ i \in Item
    BY <1>1, <1>9 DEF FlushItem, cacheVars, ghosts
  <2>2. item' = item \/ item' = [item EXCEPT ![i].status = "clean"]
    BY <1>9 DEF FlushItem
  <2> HIDE DEF i
  <2> QED  BY <1>1, <2>1, <2>2, CacheKept, StatusKeeps DEF Status
<1>10. CASE EvictOldest
  <2> DEFINE n == Len(evictorList)
             d == evictorList[n]
  <2>1. n \in Nat /\ n > 0
    BY <1>10, EvictorAssumption DEF EvictOldest, TooMany, CacheInv, CacheTypes
  <2>2. d \in Cached
    <3>1. n \in 1..n
      BY <2>1
    <3>2. d \in ToSet(evictorList)
      BY <3>1, Elements DEF CacheInv, CacheTypes
    <3> QED  BY <3>2 DEF CacheInv, ListMatchesCache
  <2>3. Oldest = cache[d]
    BY DEF Oldest, Last
  <2>4. /\ Oldest \in Item /\ ~item[Oldest].orphan
        /\ Oldest \notin ByCallers /\ Oldest \notin Served
    <3>1. cache[d] \in Item /\ ~item[cache[d]].orphan
      BY <2>2, CachedItem DEF Cached
    <3> QED  BY <1>10, <2>3, <3>1 DEF EvictOldest, InUse
  <2>5. Evict(Oldest) /\ UNCHANGED <<store, call, written>>
    BY <1>10 DEF EvictOldest, ghosts
  <2> QED  BY <2>4, <2>5, EvictKeeps
<1> QED  BY <1>2, <1>3, <1>4, <1>5, <1>6, <1>7, <1>8, <1>9, <1>10 DEF PollStep

-----------------------------------------------------------------------------
(* The queues. *)

\* An Item that has an ident keeps having one.
LEMMA QueuesKept ==
    ASSUME QueueTypes, Named \subseteq Named', UNCHANGED <<modMap, modQueue, streamed, poll>>
    PROVE  QueueTypes'
<1>1. poll.batch \in Seq(Named') /\ poll.reque \in Seq(Named')
  BY SeqMonotonic DEF QueueTypes
<1>2. modMap' \in [Ident -> Named' \cup {NoItem}]
  BY DEF QueueTypes
<1> QED  BY <1>1, <1>2 DEF QueueTypes

\* _queueModified() of an Item that has an ident.
LEMMA QueuedKeeps ==
    ASSUME QueueTypes, Named' = Named, NEW i \in Named, QueueModified(i),
           UNCHANGED <<streamed, poll>>
    PROVE  QueueTypes'
<1>1. modQueue' \in Seq(Ident)
  BY DEF QueueTypes, QueueModified, Named
<1>2. modMap' \in [Ident -> Named' \cup {NoItem}]
  BY DEF QueueTypes, QueueModified
<1> QED  BY <1>1, <1>2 DEF QueueTypes

\* The Items of poll() without a change of Item.
LEMMA NamedKept ==
    ASSUME \A i \in Item : item'[i].ident = item[i].ident
    PROVE  Named' = Named
BY DEF Named

\* An allocated Item has an ident.
LEMMA AllocNames ==
    ASSUME CacheInv, FreeItems # {}, NEW d \in Ident, NEW st, NEW data, Alloc(d, st, data)
    PROVE  Named \subseteq Named'
<1>1. NewItem \in Item
  BY NewIsFree
<1> QED  BY <1>1 DEF Alloc, Named, CacheInv, CacheTypes

\* The callers' steps and the queues.
LEMMA CallerKeepsQueues ==
    ASSUME CacheInv, QueueTypes, NEW c \in Caller, Begin(c) \/ CallStep(c)
    PROVE  QueueTypes'
<1> DEFINE d == call[c].ident
           i == call[c].item
<1>1. /\ call[c] \in CallRec /\ CallOK(call[c]) /\ item \in [Item -> ItemRec]
      /\ (call[c].pc # "idle" => d \in Ident)
  BY CallFacts DEF CallOK, CacheInv, CacheTypes
<1>2. CASE Begin(c) \/ LocateBody(c) \/ RequeueStep(c) \/ Release(c) \/ SetDirtyLock(c)
  <2>1. UNCHANGED <<item, modMap, modQueue, streamed, poll>>
    BY <1>2 DEF Begin, LocateBody, RequeueStep, Release, SetDirtyLock, modVars
  <2>2. Named' = Named
    BY <2>1, NamedKept
  <2> QED  BY SMTT(30), <2>1, <2>2, QueuesKept
<1>3. CASE PinLookup(c) \/ PinLoad(c) \/ PinInsert(c)
  <2>1. UNCHANGED <<modMap, modQueue, streamed, poll>> /\ d \in Ident
    BY <1>1, <1>3 DEF PinLookup, PinLoad, PinInsert, modVars
  <2>2. \/ item' = item
        \/ item' = [item EXCEPT ![i].orphan = FALSE]
        \/ FreeItems # {} /\ \E st, data : Alloc(d, st, data)
    <3>1. CASE PinLookup(c)
      BY <3>1 DEF PinLookup, Pinned
    <3>2. CASE PinLoad(c)
      BY <3>2 DEF PinLoad
    <3>3. CASE PinInsert(c)
      BY <3>3 DEF PinInsert, Pinned
    <3> QED  BY <1>3, <3>1, <3>2, <3>3
  <2>3. ASSUME item' = item \/ item' = [item EXCEPT ![i].orphan = FALSE]
        PROVE  Named' = Named
    <3>1. \A j \in Item : item'[j].ident = item[j].ident
      BY <1>1, <2>3 DEF ItemRec
    <3> QED  BY <3>1, NamedKept
  <2>4. Named \subseteq Named'
    BY <2>1, <2>2, <2>3, AllocNames
  <2> QED  BY <2>1, <2>4, QueuesKept
<1>4. CASE AddBody(c) \/ RemoveBody(c) \/ ChangeServant(c)
  <2>1. UNCHANGED <<modMap, modQueue, streamed, poll>>
    BY <1>4 DEF AddBody, RemoveBody, ChangeServant, modVars
  <2>2. \A j \in Item : item'[j].ident = item[j].ident
    <3>1. CASE AddBody(c)
      BY <1>1, <3>1 DEF AddBody, ItemRec
    <3>2. CASE RemoveBody(c)
      BY <1>1, <3>2 DEF RemoveBody, ItemRec
    <3>3. CASE ChangeServant(c)
      BY <1>1, <3>3 DEF ChangeServant, ItemRec
    <3> QED  BY <1>4, <3>1, <3>2, <3>3
  <2> QED  BY <2>1, <2>2, NamedKept, QueuesKept
<1>5. ASSUME call[c].pc \in HasItem
      PROVE  i \in Named
  BY <1>1, <1>5, CallFacts DEF CallOK, HasItem, Named
<1>6. CASE EnqueueStep(c)
  <2>1. UNCHANGED <<item, streamed, poll>> /\ QueueModified(i) /\ call[c].pc = "queue"
    BY <1>6 DEF EnqueueStep
  <2>2. i \in Named /\ Named' = Named
    BY <1>5, <2>1, NamedKept DEF HasItem
  <2> QED  BY <2>1, <2>2, QueuedKeeps
<1>7. CASE SetDirtyBody(c)
  <2>1. UNCHANGED <<streamed, poll>> /\ call[c].pc = "dirty"
    BY <1>7 DEF SetDirtyBody
  <2>2. \A j \in Item : item'[j].ident = item[j].ident
    BY <1>1, <1>7 DEF SetDirtyBody, ItemRec
  <2>3. i \in Named /\ Named' = Named
    BY <1>5, <2>1, <2>2, NamedKept DEF HasItem
  <2>4. QueueModified(i) \/ UNCHANGED <<modMap, modQueue>>
    BY <1>7 DEF SetDirtyBody, modVars
  <2> QED  BY <2>1, <2>3, <2>4, QueuedKeeps, QueuesKept
<1> QED  BY <1>2, <1>3, <1>4, <1>6, <1>7 DEF CallStep

\* What poll() takes from the queues and puts back are Items with an ident.
LEMMA PollKeepsQueues ==
    ASSUME CacheInv, QueueTypes, PollStep
    PROVE  QueueTypes'
<1>1. /\ modMap \in [Ident -> Named \cup {NoItem}] /\ modQueue \in Seq(Ident)
      /\ streamed \in Seq(Stream) /\ item \in [Item -> ItemRec]
      /\ poll.pc = "push" => poll.batch # <<>>
  BY DEF QueueTypes, CacheInv, CacheTypes
<1> DEFINE PollRec == [pc : {"idle", "pop", "stream", "push", "take", "save", "dead",
                             "flush", "size"},
                       flushAll : BOOLEAN, batch : Seq(Named), dead : Seq(Item),
                       flush : Seq(Item), reque : Seq(Named), saving : Seq(Stream)]
<1>2. poll \in PollRec
  BY DEF QueueTypes
<1>3. \A j \in Item : item'[j].ident = item[j].ident
  <2>1. \/ item' = item
        \/ \E i, st : item' = [item EXCEPT ![i].status = st]
        \/ \E i : item' = [item EXCEPT ![i].orphan = TRUE]
    <3>1. CASE StreamItem
      BY <3>1, Zenon DEF StreamItem, StreamDirty, StreamDestroyed
    <3>2. CASE FlushItem
      BY <3>2, Zenon DEF FlushItem
    <3>3. CASE EvictDead
      BY <3>3, Zenon DEF EvictDead, Evict
    <3>4. CASE EvictOldest
      BY <3>4, Zenon DEF EvictOldest, Evict
    <3>5. CASE \/ PollBegins \/ PopModified \/ PopDone \/ PushStreamed \/ RequeueIncomplete
               \/ TakeStreamed \/ SaveOne \/ SaveReturns \/ DeadDone \/ FlushDone \/ PollReturns
      BY <3>5 DEF PollBegins, PopModified, PopDone, PushStreamed, RequeueIncomplete,
         TakeStreamed, SaveOne, SaveReturns, DeadDone, FlushDone, PollReturns
    <3> QED  BY SMTT(30), <3>1, <3>2, <3>3, <3>4, <3>5 DEF PollStep
  <2>2. CASE item' = item
    BY <2>2
  <2>3. ASSUME NEW i, NEW st, item' = [item EXCEPT ![i].status = st]
        PROVE  \A j \in Item : item'[j].ident = item[j].ident
    BY <1>1, <2>3 DEF ItemRec
  <2>4. ASSUME NEW i, item' = [item EXCEPT ![i].orphan = TRUE]
        PROVE  \A j \in Item : item'[j].ident = item[j].ident
    BY <1>1, <2>4 DEF ItemRec
  <2> QED  BY <2>1, <2>2, <2>3, <2>4
<1>4. Named' = Named
  BY <1>3, NamedKept
<1>5. SUFFICES /\ modMap' \in [Ident -> Named \cup {NoItem}] /\ modQueue' \in Seq(Ident)
               /\ streamed' \in Seq(Stream) /\ poll' \in PollRec
               /\ poll'.pc = "push" => poll'.batch # <<>>
  BY <1>4 DEF QueueTypes
<1>6. /\ Named \subseteq Item /\ \A j \in Named : item[j].ident \in Ident
      /\ poll.batch # <<>> => Head(poll.batch) \in Named /\ Tail(poll.batch) \in Seq(Named)
  BY <1>2 DEF Named
<1>7. CASE PollBegins \/ PollReturns
  <2>1. PollIdle \in PollRec /\ PollIdle.pc = "idle"
    BY DEF PollIdle
  <2>2. \/ poll' = PollIdle
        \/ \E all \in BOOLEAN : poll' = [PollIdle EXCEPT !.pc = "pop", !.flushAll = all]
    BY <1>7 DEF PollBegins, PollReturns
  <2>3. UNCHANGED <<modMap, modQueue, streamed>>
    BY <1>7 DEF PollBegins, PollReturns, modVars
  <2>4. poll' \in PollRec /\ poll'.pc # "push"
    BY <2>1, <2>2
  <2> QED  BY <1>1, <2>3, <2>4
<1>8. CASE PopModified
  <2>1. Head(modQueue) \in Ident /\ modQueue' \in Seq(Ident)
    BY <1>1, <1>8 DEF PopModified, PopsMore
  <2>2. modMap' \in [Ident -> Named \cup {NoItem}]
    BY <1>1, <1>8 DEF PopModified
  <2>3. poll' = poll \/ \E b \in Seq(Named) : poll' = [poll EXCEPT !.batch = b]
    <3> DEFINE j == modMap[Head(modQueue)]
    <3>1. poll' = poll \/ (j # NoItem /\ poll' = [poll EXCEPT !.batch = Append(poll.batch, j)])
      BY <1>8 DEF PopModified
    <3>2. j # NoItem => Append(poll.batch, j) \in Seq(Named)
      BY <1>1, <1>2, <2>1
    <3> HIDE DEF j
    <3> QED  BY <3>1, <3>2
  <2>4. poll' \in PollRec /\ poll'.pc = "pop"
    BY <1>2, <1>8, <2>3 DEF PopModified
  <2> QED  BY <1>1, <1>8, <2>1, <2>2, <2>4 DEF PopModified
<1>9. CASE PopDone \/ SaveReturns \/ DeadDone \/ FlushDone
  BY <1>1, <1>2, <1>9 DEF PopDone, SaveReturns, DeadDone, FlushDone, PollGoto, modVars
<1>10. CASE StreamItem
  <2> DEFINE i == Head(poll.batch)
  <2>1. UNCHANGED <<modMap, modQueue, streamed>> /\ poll.batch # <<>> /\ poll.pc = "stream"
    BY <1>10 DEF StreamItem, modVars
  <2>2. PICK q : /\ \E dead \in Seq(Item), flush \in Seq(Item), reque \in Seq(Named) :
                       q = [poll EXCEPT !.dead = dead, !.flush = flush, !.reque = reque]
                 /\ poll' = [q EXCEPT !.pc = "push"] \/ poll' = [q EXCEPT !.batch = Tail(@)]
    <3>1. PICK q : /\ \/ q = poll
                      \/ q = [poll EXCEPT !.dead = Append(@, i)]
                      \/ q = [poll EXCEPT !.flush = Append(@, i)]
                      \/ q = [poll EXCEPT !.reque = Append(@, i)]
                   /\ poll' = [q EXCEPT !.pc = "push"] \/ poll' = [q EXCEPT !.batch = Tail(@)]
      <4>1. CASE StreamDirty(i)
        BY <4>1, Zenon DEF StreamDirty, Streamed, Unstreamed
      <4>2. CASE StreamDestroyed(i)
        BY <4>2, Zenon DEF StreamDestroyed, Streamed, Unstreamed
      <4>3. CASE poll' = Unstreamed([poll EXCEPT !.dead = Append(@, i)]) \/ poll' = Unstreamed(poll)
        BY <4>3, Zenon DEF Unstreamed
      <4> QED  BY <1>10, <4>1, <4>2, <4>3 DEF StreamItem
    <3>2. /\ poll.dead \in Seq(Item) /\ Append(poll.dead, i) \in Seq(Item)
          /\ poll.flush \in Seq(Item) /\ Append(poll.flush, i) \in Seq(Item)
          /\ poll.reque \in Seq(Named) /\ Append(poll.reque, i) \in Seq(Named)
      BY <1>2, <1>6, <2>1
    <3> HIDE DEF i
    <3>3. \E dead \in Seq(Item), flush \in Seq(Item), reque \in Seq(Named) :
            q = [poll EXCEPT !.dead = dead, !.flush = flush, !.reque = reque]
      <4>1. poll = [poll EXCEPT !.dead = poll.dead, !.flush = poll.flush, !.reque = poll.reque]
        BY <1>2
      <4>2. CASE q = poll
        BY <3>2, <4>1, <4>2
      <4>3. CASE q = [poll EXCEPT !.dead = Append(@, i)]
        <5>1. q = [poll EXCEPT !.dead = Append(poll.dead, i), !.flush = poll.flush, !.reque = poll.reque]
          BY <1>2, <4>3
        <5> QED  BY <3>2, <5>1
      <4>4. CASE q = [poll EXCEPT !.flush = Append(@, i)]
        <5>1. q = [poll EXCEPT !.dead = poll.dead, !.flush = Append(poll.flush, i), !.reque = poll.reque]
          BY <1>2, <4>4
        <5> QED  BY <3>2, <5>1
      <4>5. CASE q = [poll EXCEPT !.reque = Append(@, i)]
        <5>1. q = [poll EXCEPT !.dead = poll.dead, !.flush = poll.flush, !.reque = Append(poll.reque, i)]
          BY <1>2, <4>5
        <5> QED  BY <3>2, <5>1
      <4> QED  BY <3>1, <4>2, <4>3, <4>4, <4>5
    <3> QED  BY <3>1, <3>3
  <2>3. poll' \in PollRec /\ (poll'.pc = "push" => poll'.batch # <<>>)
    <3>1. q \in PollRec /\ q.batch = poll.batch /\ q.pc = "stream"
      BY <1>2, <2>1, <2>2
    <3>2. CASE poll' = [q EXCEPT !.pc = "push"]
      BY <2>1, <3>1, <3>2
    <3>3. CASE poll' = [q EXCEPT !.batch = Tail(@)]
      <4>1. Tail(q.batch) \in Seq(Named)
        BY <1>6, <2>1, <3>1
      <4>2. poll' = [q EXCEPT !.batch = Tail(q.batch)]
        BY <3>3, Zenon
      <4> HIDE <2>2, <3>3
      <4> QED  BY <3>1, <4>1, <4>2
    <3> QED  BY <2>2, <3>2, <3>3
  <2> QED  BY <1>1, <2>1, <2>3
<1>11. CASE PushStreamed
  <2> DEFINE i == Head(poll.batch)
  <2>1. i \in Named /\ Tail(poll.batch) \in Seq(Named)
    BY <1>1, <1>6, <1>11 DEF PushStreamed
  <2>2. streamed' \in Seq(Stream)
    BY <1>1, <1>6, <1>11, <2>1 DEF PushStreamed, Stream, ItemRec
  <2> QED  BY <1>1, <1>2, <1>11, <2>1, <2>2 DEF PushStreamed, modVars
<1>12. CASE RequeueIncomplete
  <2> DEFINE back == [k \in DOMAIN poll.reque |-> item[poll.reque[k]].ident]
  <2>1. back \in Seq(Ident)
    <3>1. poll.reque \in Seq(Named) /\ DOMAIN poll.reque = 1..Len(poll.reque)
          /\ Len(poll.reque) \in Nat /\ \A k \in 1..Len(poll.reque) : poll.reque[k] \in Named
      BY <1>2
    <3>2. \A k \in 1..Len(poll.reque) : item[poll.reque[k]].ident \in Ident
      BY <1>6, <3>1
    <3> QED  BY <3>1, <3>2
  <2>2. DOMAIN back = DOMAIN poll.reque /\ \A k \in DOMAIN poll.reque : poll.reque[k] \in Named
    BY <1>2
  <2>3. /\ modQueue' = modQueue \o back
        /\ modMap' = [d \in Ident |-> IF \E k \in DOMAIN back : back[k] = d
                                      THEN poll.reque[CHOOSE k \in DOMAIN back : back[k] = d]
                                      ELSE modMap[d]]
        /\ poll' = [poll EXCEPT !.pc = "take", !.reque = <<>>] /\ streamed' = streamed
    BY <1>12 DEF RequeueIncomplete
  <2> HIDE DEF back
  <2>4. modMap' \in [Ident -> Named \cup {NoItem}]
    BY <1>1, <2>2, <2>3
  <2>5. modQueue' \in Seq(Ident)
    BY <1>1, <2>1, <2>3
  <2>6. poll' \in PollRec /\ poll'.pc = "take"
    <3>1. <<>> \in Seq(Named)
      OBVIOUS
    <3> QED  BY <1>2, <2>3, <3>1
  <2>7. streamed' \in Seq(Stream)
    BY <1>1, <2>3
  <2> QED  BY <2>4, <2>5, <2>6, <2>7
<1>13. CASE TakeStreamed
  <2>1. PICK n \in 0..Len(streamed) :
          /\ poll' = [poll EXCEPT !.pc = "save", !.saving = SubSeq(streamed, 1, n)]
          /\ streamed' = SubSeq(streamed, n + 1, Len(streamed))
    <3> DEFINE n == IF poll.flushAll \/ BatchSize > Len(streamed) THEN Len(streamed) ELSE BatchSize
    <3>1. n \in 0..Len(streamed)
      <4>1. Len(streamed) \in Nat /\ BatchSize \in Nat
        BY <1>1, EvictorAssumption
      <4> QED  BY <4>1
    <3>2. /\ poll' = [poll EXCEPT !.pc = "save", !.saving = SubSeq(streamed, 1, n)]
          /\ streamed' = SubSeq(streamed, n + 1, Len(streamed))
      BY <1>13 DEF TakeStreamed
    <3> HIDE DEF n
    <3> QED  BY <3>1, <3>2
  <2>2. SubSeq(streamed, 1, n) \in Seq(Stream)
        /\ SubSeq(streamed, n + 1, Len(streamed)) \in Seq(Stream)
    BY <1>1
  <2> QED  BY <1>1, <1>2, <1>13, <2>1, <2>2 DEF TakeStreamed, modVars
<1>14. CASE SaveOne
  <2>1. Tail(poll.saving) \in Seq(Stream) /\ poll.pc = "save"
    BY <1>2, <1>14 DEF SaveOne
  <2> QED  BY <1>1, <1>2, <1>14, <2>1 DEF SaveOne, modVars
<1>15. CASE EvictDead
  <2>1. Tail(poll.dead) \in Seq(Item) /\ poll.pc = "dead"
    BY <1>2, <1>15 DEF EvictDead
  <2> QED  BY <1>1, <1>2, <1>15, <2>1 DEF EvictDead, modVars
<1>16. CASE FlushItem
  <2>1. Tail(poll.flush) \in Seq(Item) /\ poll.pc = "flush"
    BY <1>2, <1>16 DEF FlushItem
  <2> QED  BY <1>1, <1>2, <1>16, <2>1 DEF FlushItem, modVars
<1>17. CASE EvictOldest
  BY <1>1, <1>2, <1>17 DEF EvictOldest, modVars
<1> QED  BY <1>7, <1>8, <1>9, <1>10, <1>11, <1>12, <1>13, <1>14, <1>15, <1>16, <1>17 DEF PollStep

-----------------------------------------------------------------------------
(* The theorems. *)

\* In the beginning nothing is cached and nobody works.
LEMMA InitIInv == Init => IInv
<1> SUFFICES ASSUME Init  PROVE IInv
  OBVIOUS
<1> USE DEF Init
<1>1. CacheTypes
  BY IdleIsOK DEF CacheTypes, ItemRec, Status, NoItem, NoData
<1>2. Cached = {} /\ ToSet(evictorList) = {}
  BY DEF Cached, ToSet
<1>3. ListMatchesCache /\ CachedAreNamed /\ DeadAreEmpty
  BY <1>2 DEF ListMatchesCache, CachedAreNamed, DeadAreEmpty
<1>4. CallsOK
  BY IdleIsOK DEF CallsOK
<1>5. QueueTypes
  BY DEF QueueTypes, PollIdle
<1> QED  BY <1>1, <1>3, <1>4, <1>5 DEF IInv, CacheInv

\* Every step of a caller and of poll() keeps the invariant.
LEMMA StepIInv == IInv /\ [Next]_vars => IInv'
<1> SUFFICES ASSUME IInv, [Next]_vars  PROVE IInv'
  OBVIOUS
<1> USE DEF IInv
<1>1. CASE UNCHANGED vars \/ Finished
  <2>1. UNCHANGED vars
    BY <1>1 DEF Finished
  <2>2. CacheInv'
    <3>1. store' \in [Ident -> Nat]
      BY <2>1 DEF vars, CacheInv, CacheTypes
    <3> QED  BY <2>1, <3>1, CacheKept DEF vars, cacheVars, ghosts
  <2>3. QueueTypes'
    <3>1. Named' = Named
      BY <2>1, NamedKept DEF vars
    <3> QED  BY <2>1, <3>1, QueuesKept DEF vars, modVars
  <2> QED  BY <2>2, <2>3
<1>2. CASE PollStep
  BY <1>2, PollKeepsCache, PollKeepsQueues
<1>3. ASSUME NEW c \in Caller, Begin(c) \/ CallStep(c)
      PROVE  IInv'
  <2>1. CacheInv'
    BY <1>3, BeginKeeps, PinKeeps, BodyKeeps, EndKeeps, DirtyKeeps DEF CallStep
  <2> QED  BY <1>3, <2>1, CallerKeepsQueues
<1> QED  BY <1>1, <1>2, <1>3 DEF Next

\* The inductive invariant.
THEOREM SpecIInv == Spec => []IInv
BY InitIInv, StepIInv, PTL DEF Spec

\* _evictorList and _cache hold the same idents, and the Items agree: through
\* insertions, evictions and reorderings of any callers and of poll(), whose
\* rebuilding of the list is never needed.
THEOREM ListAgreesWithCache == Spec => []ListMatchesCache
BY SpecIInv, PTL DEF IInv, CacheInv

\* The object whose servant locate() returned stays in the cache for as long as
\* the application holds that servant and it is the object's: neither way of
\* eviction takes it. An add() or a remove() that gives the object another
\* servant, or none, ends this.
THEOREM LocatedIsNotEvicted == Spec => []LocatedStaysCached
<1>1. IInv => LocatedStaysCached
  BY DEF IInv, CacheInv, CallsOK, CallOK, LocatedStaysCached
<1> QED  BY <1>1, SpecIInv, PTL

-----------------------------------------------------------------------------
(* The bounds of the type invariant. *)

Data  == Value \cup {NoData}
Entry == [ident : Ident, data : Data]

\* What was written is below the bound, wherever it went.
ValuesOK ==
    /\ store \in [Ident -> Data] /\ \A i \in Item : item[i].data \in Data
    /\ streamed \in Seq(Entry) /\ poll.saving \in Seq(Entry)

\* An operation that may still write: once.
ToWrite(r) == r.op = "locate" \/ (r.op = "add" /\ r.pc \in {"pin", "load", "insert", "lock"})
Writers == {c \in Caller : ToWrite(call[c])}

Bounds ==
    /\ ops \in 0..MaxOps /\ written \in Value
    /\ written + Cardinality(Writers) <= ops + 1
    /\ \A c \in Caller : call[c].pc = "held" => call[c].op = "locate"

LEMMA WritersChange ==
    ASSUME CacheInv, NEW q, LetsGo(q), NEW c \in Caller, NEW r, call' = [q EXCEPT ![c] = r]
    PROVE  /\ Cardinality(Writers) \in Nat /\ Cardinality(Writers') \in Nat
           /\ Cardinality(Writers') <= Cardinality(Writers) + 1
           /\ (ToWrite(r) => ToWrite(call[c])) => Cardinality(Writers') <= Cardinality(Writers)
           /\ ToWrite(call[c]) /\ ~ToWrite(r) => Cardinality(Writers') = Cardinality(Writers) - 1
           /\ call'[c] = r
           /\ \A o \in Caller \ {c} : call'[o].pc = call[o].pc /\ call'[o].op = call[o].op
<1>1. call'[c] = r /\ \A o \in Caller \ {c} : call'[o].pc = call[o].pc /\ call'[o].op = call[o].op
  BY DEF LetsGo
<1>2. /\ IsFiniteSet(Writers) /\ Writers \subseteq Caller
      /\ Writers' \subseteq Writers \cup {c}
      /\ ToWrite(r) => Writers' = Writers \cup {c}
      /\ ~ToWrite(r) => Writers' = Writers \ {c}
      /\ c \in Writers <=> ToWrite(call[c])
  <2>1. IsFiniteSet(Caller) /\ Writers \subseteq Caller
    BY EvictorAssumption DEF Writers
  <2>2. IsFiniteSet(Writers)
    BY <2>1, FS_Subset
  <2>3. \A o \in Caller : o \in Writers' <=> IF o = c THEN ToWrite(r) ELSE ToWrite(call[o])
    BY <1>1 DEF Writers, ToWrite
  <2>4. \A o \in Caller : o \in Writers <=> ToWrite(call[o])
    BY DEF Writers
  <2>5. Writers' \subseteq Caller
    BY DEF Writers
  <2> QED  BY <2>1, <2>2, <2>3, <2>4, <2>5
<1>3. /\ Cardinality(Writers) \in Nat
      /\ Cardinality(Writers \cup {c}) = IF c \in Writers THEN Cardinality(Writers) ELSE Cardinality(Writers) + 1
      /\ Cardinality(Writers \ {c}) = IF c \in Writers THEN Cardinality(Writers) - 1 ELSE Cardinality(Writers)
  BY <1>2, FS_CardinalityType, FS_AddElement, FS_RemoveElement
<1>4. c \in Writers => Cardinality(Writers) >= 1
  <2>1. c \in Writers => Cardinality(Writers) # 0
    BY <1>2, FS_EmptySet
  <2> QED  BY <1>3, <2>1
<1>5. CASE ToWrite(r)
  <2>1. Writers' = Writers \cup {c}
    BY <1>2, <1>5
  <2>2. Cardinality(Writers') \in Nat /\ Cardinality(Writers') <= Cardinality(Writers) + 1
        /\ (c \in Writers => Cardinality(Writers') <= Cardinality(Writers))
    BY <1>3, <2>1
  <2> QED  BY <1>1, <1>2, <1>3, <1>5, <2>2
<1>6. CASE ~ToWrite(r)
  <2>1. Writers' = Writers \ {c}
    BY <1>2, <1>6
  <2>2. Cardinality(Writers') \in Nat /\ Cardinality(Writers') <= Cardinality(Writers)
        /\ (c \in Writers => Cardinality(Writers') = Cardinality(Writers) - 1)
    BY <1>3, <1>4, <2>1
  <2> QED  BY <1>1, <1>2, <1>3, <1>6, <2>2
<1> QED  BY <1>5, <1>6

\* Each write takes a number of its own, and a begun operation has one left for it.
LEMMA CallerKeepsBounds ==
    ASSUME IInv, Bounds, NEW c \in Caller, Begin(c) \/ CallStep(c)
    PROVE  Bounds'
<1> USE DEF IInv
<1>1. call[c] \in CallRec
  BY CallFacts
<1>2. Cardinality(Writers) \in Nat /\ ops \in 0..MaxOps /\ MaxOps \in Nat /\ written \in Value
  <2>1. Cardinality(Writers) \in Nat
    <3>1. call = [call EXCEPT ![c] = call[c]]
      BY DEF CacheInv, CacheTypes
    <3>2. IsFiniteSet(Caller) /\ Writers \subseteq Caller
      BY EvictorAssumption DEF Writers
    <3> QED  BY <3>2, FS_Subset, FS_CardinalityType
  <2> QED  BY <2>1, EvictorAssumption DEF Bounds, Value
<1>3. CASE Begin(c)
  <2>1. PICK r : call' = [call EXCEPT ![c] = r] /\ r.pc = "pin"
    <3>1. PICK d \in Ident, op \in {"add", "remove", "locate"}, b \in BOOLEAN :
              call' = [call EXCEPT ![c] = [Idle EXCEPT !.pc = "pin", !.op = op,
                                                       !.ident = d, !.complete = b]]
      BY <1>3 DEF Begin
    <3>2. [Idle EXCEPT !.pc = "pin", !.op = op, !.ident = d, !.complete = b].pc = "pin"
      BY DEF Idle
    <3> QED  BY <3>1, <3>2
  <2>2. ops' = ops + 1 /\ ops < MaxOps /\ written' = written
    BY <1>3 DEF Begin
  <2>3. /\ Cardinality(Writers') \in Nat /\ Cardinality(Writers') <= Cardinality(Writers) + 1
        /\ call'[c] = r
        /\ \A o \in Caller \ {c} : call'[o].pc = call[o].pc /\ call'[o].op = call[o].op
    BY <2>1, AllHold, WritersChange
  <2> QED  BY <1>2, <2>1, <2>2, <2>3 DEF Bounds, Value
<1>4. ASSUME NEW q, LetsGo(q), NEW r, call' = [q EXCEPT ![c] = r], ToWrite(r) => ToWrite(call[c]),
             r.pc = "held" => r.op = "locate", UNCHANGED <<ops, written>>
      PROVE  Bounds'
  <2>1. /\ Cardinality(Writers') \in Nat /\ Cardinality(Writers') <= Cardinality(Writers)
        /\ call'[c] = r
        /\ \A o \in Caller \ {c} : call'[o].pc = call[o].pc /\ call'[o].op = call[o].op
    BY <1>4, WritersChange
  <2> QED  BY <1>2, <1>4, <2>1 DEF Bounds, Value
<1>5. ASSUME NEW q, LetsGo(q), NEW r, call' = [q EXCEPT ![c] = r], ToWrite(call[c]), ~ToWrite(r),
             r.pc # "held", ops' = ops, written' = written + 1
      PROVE  Bounds'
  <2>1. /\ Cardinality(Writers') \in Nat /\ Cardinality(Writers') = Cardinality(Writers) - 1
        /\ call'[c] = r
        /\ \A o \in Caller \ {c} : call'[o].pc = call[o].pc /\ call'[o].op = call[o].op
    BY <1>5, WritersChange
  <2> QED  BY <1>2, <1>5, <2>1 DEF Bounds, Value
<1>6. CASE AddBody(c)
  <2>1. PICK q : q = Replaced(call[c].item)
    OBVIOUS
  <2>2. PICK pc \in {"requeue", "queue"} : call' = [q EXCEPT ![c].pc = pc]
    BY <1>6, <2>1 DEF AddBody
  <2>3. PICK r : r = [q[c] EXCEPT !.pc = pc]
    OBVIOUS
  <2>4. LetsGo(q)
    BY <1>6, <2>1, CallFacts, ReplacedLetsGo DEF AddBody, LockItem, CallOK, HasItem
  <2>5. /\ call' = [q EXCEPT ![c] = r] /\ ToWrite(call[c]) /\ ~ToWrite(r) /\ r.pc # "held"
        /\ ops' = ops /\ written' = written + 1
    BY <1>6, <2>2, <2>3, <2>4 DEF AddBody, LockItem, LetsGo, ToWrite, CallRec
  <2> QED  BY <1>5, <2>4, <2>5
<1>7. CASE ChangeServant(c)
  <2>1. PICK r : r = [call[c] EXCEPT !.pc = "pin", !.op = "setDirty"]
    OBVIOUS
  <2>2. /\ call' = [call EXCEPT ![c] = r] /\ ToWrite(call[c]) /\ ~ToWrite(r) /\ r.pc # "held"
        /\ ops' = ops /\ written' = written + 1
    BY <1>1, <1>7, <2>1 DEF ChangeServant, ToWrite, CallRec, Bounds
  <2> QED  BY <1>5, <2>2, AllHold
<1>8. ASSUME Return(c), UNCHANGED <<ops, written>>
      PROVE  Bounds'
  BY <1>4, <1>8, AllHold DEF Return, Idle, ToWrite
<1>9. ASSUME NEW r, call' = [call EXCEPT ![c] = r], r.op = call[c].op,
             UNCHANGED <<ops, written>>,
             r.pc = "held" => r.op = "locate",
             r.pc \in {"pin", "load", "insert", "lock"} =>
                 call[c].pc \in {"pin", "load", "insert", "lock"}
      PROVE  Bounds'
  BY <1>4, <1>9, AllHold DEF ToWrite
<1>10. ASSUME NEW pc, pc # "held", Goto(c, pc), UNCHANGED <<ops, written>>,
              pc \in {"pin", "load", "insert", "lock"} =>
                  call[c].pc \in {"pin", "load", "insert", "lock"}
       PROVE  Bounds'
  <2>1. PICK r : r = [call[c] EXCEPT !.pc = pc]
    OBVIOUS
  <2>2. call' = [call EXCEPT ![c] = r] /\ r.pc = pc /\ r.op = call[c].op
    BY <1>1, <1>10, <2>1 DEF Goto, CallRec
  <2> QED  BY <1>9, <1>10, <2>2
<1>11. CASE PinLookup(c) \/ PinLoad(c) \/ PinInsert(c)
  <2>1. UNCHANGED <<ops, written>> /\ call[c].pc \in {"pin", "load", "insert"}
    BY <1>11 DEF PinLookup, PinLoad, PinInsert, ghosts
  <2>2. \/ Return(c)
        \/ \E pc \in {"pin", "load", "insert"} : Goto(c, pc)
        \/ \E pc \in {"insert", "lock"} : \E i : call' = [call EXCEPT ![c].pc = pc, ![c].item = i]
    BY <1>11 DEF PinLookup, PinLoad, PinInsert, Pinned
  <2>3. ASSUME NEW pc \in {"insert", "lock"}, NEW i,
               call' = [call EXCEPT ![c].pc = pc, ![c].item = i]
        PROVE  Bounds'
    <3>1. PICK r : r = [call[c] EXCEPT !.pc = pc, !.item = i]
      OBVIOUS
    <3>2. call' = [call EXCEPT ![c] = r] /\ r.pc = pc /\ r.op = call[c].op
      BY <1>1, <2>3, <3>1 DEF CallRec
    <3> QED  BY <1>9, <2>1, <3>2
  <2> QED  BY <1>8, <1>10, <2>1, <2>2, <2>3
<1>12. CASE \/ LocateBody(c) \/ EnqueueStep(c)
            \/ Release(c) \/ SetDirtyLock(c) \/ SetDirtyBody(c)
  <2>1. UNCHANGED <<ops, written>>
    BY <1>12 DEF LocateBody, EnqueueStep, Release, SetDirtyLock, SetDirtyBody, ghosts
  <2>2. Return(c) \/ \E pc \in {"queue", "requeue", "dirty"} : Goto(c, pc)
    BY <1>12 DEF LocateBody, EnqueueStep, Release, SetDirtyLock, SetDirtyBody
  <2> QED  BY <1>8, <1>10, <2>1, <2>2
<1>13. CASE RequeueStep(c)
  <2>1. UNCHANGED <<ops, written>>
    BY <1>13 DEF RequeueStep, ghosts
  <2>2. CASE call[c].op = "locate" /\ item[call[c].item].data # NoData
    <3>1. PICK r : r = [call[c] EXCEPT !.pc = "held", !.item = NoItem, !.held = call[c].item]
      OBVIOUS
    <3>2. call' = [call EXCEPT ![c] = r] /\ r.pc = "held" /\ r.op = call[c].op
      BY <1>1, <1>13, <2>2, <3>1 DEF RequeueStep, CallRec
    <3> QED  BY <1>9, <2>1, <2>2, <3>2
  <2>3. CASE ~(call[c].op = "locate" /\ item[call[c].item].data # NoData)
    BY <1>8, <1>13, <2>1, <2>3 DEF RequeueStep
  <2> QED  BY <2>2, <2>3
<1>14. CASE RemoveBody(c)
  <2>1. UNCHANGED <<ops, written>>
    BY <1>14 DEF RemoveBody, ghosts
  <2>2. PICK q : q = Replaced(call[c].item)
    OBVIOUS
  <2>3. LetsGo(q)
    BY <1>14, <2>2, CallFacts, ReplacedLetsGo DEF RemoveBody, LockItem, CallOK, HasItem
  <2>4. Return(c) \/ \E pc \in {"queue", "requeue"} : call' = [q EXCEPT ![c].pc = pc]
    BY <1>14, <2>2 DEF RemoveBody
  <2>5. ASSUME NEW pc \in {"queue", "requeue"}, call' = [q EXCEPT ![c].pc = pc]
        PROVE  Bounds'
    <3>1. PICK r : r = [q[c] EXCEPT !.pc = pc]
      OBVIOUS
    <3>2. call' = [q EXCEPT ![c] = r] /\ r.pc = pc /\ r.op = call[c].op
      BY <2>3, <2>5, <3>1 DEF LetsGo, CallRec
    <3> QED  BY <1>4, <2>1, <2>3, <3>2 DEF ToWrite
  <2> QED  BY <1>8, <2>1, <2>4, <2>5
<1> QED  BY <1>3, <1>6, <1>7, <1>11, <1>12, <1>13, <1>14 DEF CallStep

\* Streams and servants hold what was written; a caller only brings written + 1.
LEMMA CallerKeepsValues ==
    ASSUME IInv, Bounds', ValuesOK, NEW c \in Caller, Begin(c) \/ CallStep(c)
    PROVE  ValuesOK'
<1> USE DEF IInv
<1>1. /\ call[c] \in CallRec /\ CallOK(call[c]) /\ item \in [Item -> ItemRec]
      /\ call[c].pc # "idle" => call[c].ident \in Ident
  BY CallFacts DEF CallOK, CacheInv, CacheTypes
<1>2. UNCHANGED <<store, streamed, poll>>
  <2>1. CASE Begin(c) \/ PinLookup(c) \/ PinLoad(c) \/ PinInsert(c)
    BY <2>1 DEF Begin, PinLookup, PinLoad, PinInsert
  <2>2. CASE \/ AddBody(c) \/ RemoveBody(c) \/ LocateBody(c) \/ EnqueueStep(c) \/ RequeueStep(c)
             \/ Release(c) \/ ChangeServant(c) \/ SetDirtyLock(c) \/ SetDirtyBody(c)
    BY <2>2 DEF AddBody, RemoveBody, LocateBody, EnqueueStep, RequeueStep, Release,
       ChangeServant, SetDirtyLock, SetDirtyBody
  <2> QED  BY <2>1, <2>2 DEF CallStep
<1>3. SUFFICES \E v \in Data : \A j \in Item : item'[j].data \in {item[j].data, v}
  BY <1>2 DEF ValuesOK
<1>4. NoData \in Data /\ written' \in Data
  BY DEF Bounds, Data
<1>5. ASSUME NEW i, NEW b, item' = [item EXCEPT ![i].orphan = b]
      PROVE  \A j \in Item : item'[j].data = item[j].data
  BY <1>1, <1>5 DEF ItemRec
<1>6. ASSUME NEW i, NEW st, NEW v, item' = [item EXCEPT ![i].status = st, ![i].data = v]
      PROVE  \A j \in Item : item'[j].data \in {item[j].data, v}
  BY <1>1, <1>6 DEF ItemRec
<1>7. ASSUME FreeItems # {}, NEW d, NEW st, NEW data, Alloc(d, st, data)
      PROVE  \A j \in Item : item'[j].data \in {item[j].data, data}
  <2>1. NewItem \in Item
    BY <1>7, NewIsFree
  <2> QED  BY <1>1, <1>7, <2>1 DEF Alloc
<1>8. CASE PinLookup(c)
  BY <1>4, <1>8 DEF PinLookup, Pinned
<1>9. CASE PinLoad(c)
  <2>1. call[c].ident \in Ident /\ store[call[c].ident] \in Data
    BY <1>1, <1>9 DEF PinLoad, ValuesOK
  <2>2. \/ item' = item
        \/ FreeItems # {} /\ Alloc(call[c].ident, "clean", store[call[c].ident])
        \/ FreeItems # {} /\ Alloc(call[c].ident, "dead", NoData)
    BY <1>9, Zenon DEF PinLoad
  <2> QED  BY <1>4, <1>7, <2>1, <2>2
<1>10. CASE PinInsert(c)
  <2>1. \/ item' = item
        \/ item' = [item EXCEPT ![call[c].item].orphan = FALSE]
        \/ FreeItems # {} /\ Alloc(call[c].ident, "dead", NoData)
    BY <1>10 DEF PinInsert, Pinned
  <2> QED  BY <1>4, <1>5, <1>7, <2>1
<1>11. CASE AddBody(c)
  <2>1. PICK st : item' = [item EXCEPT ![call[c].item].data = written', ![call[c].item].status = st]
    BY <1>11 DEF AddBody
  <2>2. \A j \in Item : item'[j].data \in {item[j].data, written'}
    BY <1>1, <2>1 DEF ItemRec
  <2> QED  BY <1>4, <2>2
<1>12. CASE ChangeServant(c)
  <2>1. item' = item \/ item' = [item EXCEPT ![call[c].held].data = written']
    BY <1>12 DEF ChangeServant
  <2>2. \A j \in Item : item'[j].data \in {item[j].data, written'}
    BY <1>1, <2>1 DEF ItemRec
  <2> QED  BY <1>4, <2>2
<1>13. CASE RemoveBody(c)
  <2> DEFINE st == StatusRemoved(item[call[c].item].status)
  <2>1. \/ item' = item
        \/ item' = [item EXCEPT ![call[c].item].status = st, ![call[c].item].data = NoData]
    BY <1>13 DEF RemoveBody
  <2> HIDE DEF st
  <2> QED  BY <1>4, <1>6, <2>1
<1>14. CASE SetDirtyBody(c)
  <2>1. item' = item \/ \E i, b : item' = [item EXCEPT ![i].status = "modified", ![i].completed = b]
    BY <1>14, Zenon DEF SetDirtyBody
  <2>2. ASSUME NEW i, NEW b, item' = [item EXCEPT ![i].status = "modified", ![i].completed = b]
        PROVE  \A j \in Item : item'[j].data = item[j].data
    BY <1>1, <2>2 DEF ItemRec
  <2> QED  BY <1>4, <2>1, <2>2
<1>15. CASE item' = item
  BY <1>4, <1>15
<1> QED  BY <1>8, <1>9, <1>10, <1>11, <1>12, <1>13, <1>14, <1>15 DEF CallStep, Begin,
            LocateBody, EnqueueStep, RequeueStep, Release, SetDirtyLock

\* poll() moves what is stored and streamed.
LEMMA PollKeepsValues ==
    ASSUME IInv, Bounds, ValuesOK, PollStep
    PROVE  Bounds' /\ ValuesOK'
<1>1. /\ poll.batch \in Seq(Named) /\ poll.pc = "push" => poll.batch # <<>>
      /\ poll.saving \in Seq(Entry) /\ streamed \in Seq(Entry) /\ store \in [Ident -> Data]
      /\ item \in [Item -> ItemRec] /\ \A i \in Item : item[i].data \in Data
  BY DEF IInv, QueueTypes, ValuesOK, CacheInv, CacheTypes
<1>2. UNCHANGED <<call, ops, written>>
  <2>1. CASE \/ PollBegins \/ PopModified \/ PopDone \/ StreamItem \/ PushStreamed
             \/ RequeueIncomplete \/ TakeStreamed \/ SaveOne
    BY <2>1 DEF PollBegins, PopModified, PopDone, StreamItem, PushStreamed, RequeueIncomplete,
       TakeStreamed, SaveOne, ghosts
  <2>2. CASE SaveReturns \/ EvictDead \/ DeadDone \/ FlushItem \/ FlushDone \/ EvictOldest \/ PollReturns
    BY <2>2 DEF SaveReturns, EvictDead, DeadDone, FlushItem, FlushDone, EvictOldest, PollReturns, ghosts
  <2> QED  BY <2>1, <2>2 DEF PollStep
<1>3. Bounds'
  <2>1. Writers' = Writers
    BY <1>2 DEF Writers
  <2> QED  BY <1>2, <2>1 DEF Bounds
<1>4. SUFFICES /\ store' \in [Ident -> Data] /\ \A i \in Item : item'[i].data = item[i].data
               /\ streamed' \in Seq(Entry) /\ poll'.saving \in Seq(Entry)
  BY <1>1, <1>3 DEF ValuesOK
<1>5. \A i \in Item : item'[i].data = item[i].data
  <2>1. \/ item' = item
        \/ \E i, st : item' = [item EXCEPT ![i].status = st]
        \/ \E i : item' = [item EXCEPT ![i].orphan = TRUE]
    <3>1. CASE StreamItem
      BY <3>1, Zenon DEF StreamItem, StreamDirty, StreamDestroyed
    <3>2. CASE FlushItem
      BY <3>2, Zenon DEF FlushItem
    <3>3. CASE EvictDead
      BY <3>3, Zenon DEF EvictDead, Evict
    <3>4. CASE EvictOldest
      BY <3>4, Zenon DEF EvictOldest, Evict
    <3>5. CASE \/ PollBegins \/ PopModified \/ PopDone \/ PushStreamed \/ RequeueIncomplete
               \/ TakeStreamed \/ SaveOne \/ SaveReturns \/ DeadDone \/ FlushDone \/ PollReturns
      BY <3>5 DEF PollBegins, PopModified, PopDone, PushStreamed, RequeueIncomplete,
         TakeStreamed, SaveOne, SaveReturns, DeadDone, FlushDone, PollReturns
    <3> QED  BY SMTT(30), <3>1, <3>2, <3>3, <3>4, <3>5 DEF PollStep
  <2>2. ASSUME NEW i, NEW st, item' = [item EXCEPT ![i].status = st]
        PROVE  \A j \in Item : item'[j].data = item[j].data
    BY <1>1, <2>2 DEF ItemRec
  <2>3. ASSUME NEW i, item' = [item EXCEPT ![i].orphan = TRUE]
        PROVE  \A j \in Item : item'[j].data = item[j].data
    BY <1>1, <2>3 DEF ItemRec
  <2> QED  BY <2>1, <2>2, <2>3
<1>6. CASE PollBegins \/ PollReturns
  <2>1. PollIdle.saving = <<>> /\ \A all \in BOOLEAN :
            [PollIdle EXCEPT !.pc = "pop", !.flushAll = all].saving = <<>>
    BY DEF PollIdle
  <2>2. poll'.saving = <<>> /\ UNCHANGED <<store, streamed>>
    BY <1>6, <2>1 DEF PollBegins, PollReturns
  <2>3. <<>> \in Seq(Entry)
    OBVIOUS
  <2> QED  BY <1>1, <1>5, <2>2, <2>3
<1>7. CASE PopModified \/ PopDone
  <2>1. poll'.saving = poll.saving
    BY <1>7 DEF PopModified, PopDone, PollGoto, IInv, QueueTypes
  <2> QED  BY <1>1, <1>5, <1>7, <2>1 DEF PopModified, PopDone
<1>8. CASE StreamItem
  <2>1. poll'.saving = poll.saving
    BY <1>8 DEF StreamItem, StreamDirty, StreamDestroyed, Streamed, Unstreamed, IInv, QueueTypes
  <2> QED  BY <1>1, <1>5, <1>8, <2>1 DEF StreamItem
<1>9. CASE PushStreamed
  <2>1. /\ Head(poll.batch) \in Item /\ item[Head(poll.batch)].ident \in Ident
        /\ poll'.saving = poll.saving
    BY <1>1, <1>9 DEF PushStreamed, Named, IInv, QueueTypes
  <2>2. streamed' \in Seq(Entry)
    BY <1>1, <1>9, <2>1 DEF PushStreamed, Entry
  <2> QED  BY <1>1, <1>5, <1>9, <2>1, <2>2 DEF PushStreamed
<1>10. CASE RequeueIncomplete \/ SaveReturns \/ EvictDead \/ DeadDone
  <2>1. poll'.saving = poll.saving
    BY <1>10 DEF RequeueIncomplete, SaveReturns, EvictDead, DeadDone, PollGoto, IInv, QueueTypes
  <2> QED  BY <1>1, <1>5, <1>10, <2>1 DEF RequeueIncomplete, SaveReturns, EvictDead, DeadDone
<1>11. CASE TakeStreamed
  <2>1. PICK n \in 0..Len(streamed) :
          /\ poll' = [poll EXCEPT !.pc = "save", !.saving = SubSeq(streamed, 1, n)]
          /\ streamed' = SubSeq(streamed, n + 1, Len(streamed))
    <3> DEFINE n == IF poll.flushAll \/ BatchSize > Len(streamed) THEN Len(streamed) ELSE BatchSize
    <3>1. n \in 0..Len(streamed)
      <4>1. Len(streamed) \in Nat /\ BatchSize \in Nat
        BY <1>1, EvictorAssumption
      <4> QED  BY <4>1
    <3>2. /\ poll' = [poll EXCEPT !.pc = "save", !.saving = SubSeq(streamed, 1, n)]
          /\ streamed' = SubSeq(streamed, n + 1, Len(streamed))
      BY <1>11 DEF TakeStreamed
    <3> HIDE DEF n
    <3> QED  BY <3>1, <3>2
  <2>2. SubSeq(streamed, 1, n) \in Seq(Entry)
        /\ SubSeq(streamed, n + 1, Len(streamed)) \in Seq(Entry)
    BY <1>1
  <2>3. poll'.saving = SubSeq(streamed, 1, n)
    BY <2>1 DEF IInv, QueueTypes
  <2> QED  BY <1>1, <1>5, <1>11, <2>1, <2>2, <2>3 DEF TakeStreamed
<1>12. CASE SaveOne
  <2>1. /\ Tail(poll.saving) \in Seq(Entry) /\ Head(poll.saving) \in Entry
        /\ poll'.saving = Tail(poll.saving)
    BY <1>1, <1>12 DEF SaveOne, IInv, QueueTypes
  <2>2. store' \in [Ident -> Data]
    BY <1>1, <1>12, <2>1 DEF SaveOne, Entry
  <2> QED  BY <1>1, <1>5, <1>12, <2>1, <2>2 DEF SaveOne
<1>13. CASE FlushItem \/ FlushDone \/ EvictOldest
  <2>1. poll'.saving = poll.saving /\ store' = store /\ streamed' = streamed
    BY <1>13 DEF FlushItem, FlushDone, EvictOldest, PollGoto, IInv, QueueTypes
  <2> QED  BY <1>1, <1>5, <2>1
<1> QED  BY <1>4, <1>6, <1>7, <1>8, <1>9, <1>10, <1>11, <1>12, <1>13 DEF PollStep

LEMMA InitBounds == Init => Bounds /\ ValuesOK
<1> SUFFICES ASSUME Init  PROVE Bounds /\ ValuesOK
  OBVIOUS
<1>1. Writers = {}
  BY DEF Init, Idle, Writers, ToWrite
<1>2. Cardinality(Writers) = 0 /\ MaxOps \in Nat
  BY <1>1, FS_EmptySet, EvictorAssumption
<1>3. Bounds
  BY <1>2 DEF Init, Idle, Bounds, Value
<1>4. ValuesOK
  BY <1>2 DEF Init, PollIdle, ValuesOK, Data, Value, NoData
<1> QED  BY <1>3, <1>4

LEMMA StepBounds == IInv /\ Bounds /\ ValuesOK /\ [Next]_vars => Bounds' /\ ValuesOK'
<1> SUFFICES ASSUME IInv, Bounds, ValuesOK, [Next]_vars  PROVE Bounds' /\ ValuesOK'
  OBVIOUS
<1>1. CASE UNCHANGED vars \/ Finished
  BY <1>1 DEF Finished, vars, ghosts, Bounds, ValuesOK, Writers
<1>2. CASE PollStep
  BY <1>2, PollKeepsValues
<1>3. ASSUME NEW c \in Caller, Begin(c) \/ CallStep(c)
      PROVE  Bounds' /\ ValuesOK'
  BY <1>3, CallerKeepsBounds, CallerKeepsValues
<1> QED  BY <1>1, <1>2, <1>3 DEF Next

\* Whatever the callers do and whatever fails, the evictor's state keeps its
\* type, with as many writes as operations at most: each operation writes once,
\* and the store, the streams and the servants hold nothing that was not written.
THEOREM TypeCorrect == Spec => []TypeOK
<1> DEFINE I == IInv /\ Bounds /\ ValuesOK
<1>1. Init => I
  BY InitIInv, InitBounds
<1>2. I /\ [Next]_vars => I'
  BY StepIInv, StepBounds
<1>3. I => TypeOK
  <2> SUFFICES ASSUME I  PROVE TypeOK
    OBVIOUS
  <2>1. item \in [Item -> [ident : Ident \cup {NoItem}, status : Status, data : Value \cup {NoData},
                          completed : BOOLEAN, orphan : BOOLEAN]]
    BY DEF IInv, CacheInv, CacheTypes, ItemRec, ValuesOK, Data
  <2>2. call \in [Caller -> CallRec] /\ \A c \in Caller : CallOK(call[c])
    BY DEF IInv, CacheInv, CacheTypes, CallsOK
  <2>3. Named \subseteq Item
    BY DEF Named
  <2>4. poll.batch \in Seq(Item) /\ poll.reque \in Seq(Item)
    BY <2>3, SeqMonotonic DEF IInv, QueueTypes
  <2>5. poll \in [pc : {"idle", "pop", "stream", "push", "take", "save", "dead", "flush", "size"},
                  flushAll : BOOLEAN, batch : Seq(Item), dead : Seq(Item), flush : Seq(Item),
                  reque : Seq(Item), saving : Seq(Entry)]
    BY <2>4 DEF IInv, QueueTypes, ValuesOK
  <2>6. modMap \in [Ident -> Item \cup {NoItem}]
    BY <2>3 DEF IInv, QueueTypes
  <2> QED  BY <2>1, <2>2, <2>5, <2>6
           DEF TypeOK, IInv, CacheInv, CacheTypes, QueueTypes, ValuesOK, Bounds, Data, Entry,
               CallRec, CallOK, HasItem
<1>4. Spec => []I
  BY <1>1, <1>2, PTL DEF Spec
<1> QED  BY <1>3, <1>4, PTL
=============================================================================
