------------------------------- MODULE DataLemmas -------------------------------
(* What the proofs of several modules need to know of numbers and sequences:   *)
(* induction, in a form that speaks of sets and functions only, the existence  *)
(* of recursive functions, and the elements of a sequence.                     *)
EXTENDS Integers, Sequences, SequencesExt, FiniteSetTheorems, WellFoundedInduction, TLAPS

Before == {ss \in Nat \X Nat : ss[1] < ss[2]}

\* The order of the natural numbers is well-founded; to show that all of them
\* are in a set, take the least one that is not.
LEMMA LeastNumber ==
    ASSUME NEW T, T \subseteq Nat, T # {}
    PROVE  \E n \in T : \A m \in T : n <= m
<1>1. IsWellFoundedOn(Before, Nat)
  BY NatLessThanWellFounded DEF OpToRel, Before
<1>2. PICK n \in T : \A m \in T : ~(<<m, n>> \in Before)
  BY <1>1, WFMin
<1>3. \A m \in T : ~(m < n)
  BY <1>2 DEF Before
<1> QED  BY <1>3

\* A finite set of numbers has a largest one.
LEMMA LargestNumber ==
    ASSUME NEW N \in Nat, NEW T, T \subseteq 1..N, T # {}
    PROVE  Max(T) \in T
<1> DEFINE B == {N - k : k \in T}
<1>1. PICK n \in B : \A m \in B : n <= m
  <2>1. B \subseteq Nat /\ B # {}
    <3>1. \A k \in T : N - k \in Nat
      OBVIOUS
    <3> QED  BY <3>1
  <2> HIDE DEF B
  <2> QED  BY <2>1, LeastNumber
<1>2. PICK k \in T : n = N - k
  BY <1>1
<1>3. \A m \in T : N - k <= N - m
  BY <1>1, <1>2
<1>4. \A m \in T : k >= m
  BY <1>2, <1>3
<1> QED  BY <1>2, <1>4 DEF Max

\* The same for a property given by the set of the numbers that have it.
LEMMA AllNumbers ==
    ASSUME NEW N \in Nat, NEW T, 0 \in T, \A n \in 1..N : n - 1 \in T => n \in T
    PROVE  0..N \subseteq T
<1> DEFINE B == {n \in 0..N : n \notin T}
<1> SUFFICES ASSUME B # {} PROVE FALSE
  OBVIOUS
<1>1. PICK n \in B : \A m \in B : n <= m
  <2>1. B \subseteq Nat
    OBVIOUS
  <2> QED  BY <2>1, LeastNumber
<1>2. n \in 1..N
  BY <1>1
<1>3. n - 1 \notin B
  BY <1>1, <1>2
<1> QED  BY <1>1, <1>2, <1>3

\* f begins with base, and each value is what step makes of the one before and
\* the place.
Recurs(f, X, base, N, step) ==
    /\ f \in [0..N -> X] /\ f[0] = base
    /\ \A n \in 1..N : f[n] = step[<<f[n - 1], n>>]

\* There is such a function.
LEMMA RecursionExists ==
    ASSUME NEW X, NEW base \in X, NEW N \in Nat, NEW step \in [X \X (1..N) -> X]
    PROVE  \E f : Recurs(f, X, base, N, step)
<1> DEFINE IsUpTo(f, k) == /\ f \in [0..N -> X] /\ f[0] = base
                           /\ \A n \in 1..k : f[n] = step[<<f[n - 1], n>>]
           T == {k \in 0..N : \E f \in [0..N -> X] : IsUpTo(f, k)}
<1>1. 0 \in T
  <2>1. IsUpTo([n \in 0..N |-> base], 0)
    OBVIOUS
  <2>2. [n \in 0..N |-> base] \in [0..N -> X] /\ 0 \in 0..N
    OBVIOUS
  <2> HIDE DEF IsUpTo
  <2> QED  BY <2>1, <2>2
<1>2. ASSUME NEW k \in 1..N, k - 1 \in T PROVE k \in T
  <2>1. PICK f \in [0..N -> X] : IsUpTo(f, k - 1)
    BY <1>2
  <2> DEFINE g == [f EXCEPT ![k] = step[<<f[k - 1], k>>]]
  <2>2. g \in [0..N -> X] /\ g[0] = base
    BY <2>1
  <2>3. ASSUME NEW n \in 1..k PROVE g[n] = step[<<g[n - 1], n>>]
    <3>1. CASE n = k
      BY <3>1, <2>1
    <3>2. CASE n < k
      BY <3>2, <2>1
    <3> QED  BY <3>1, <3>2
  <2>4. IsUpTo(g, k)
    BY <2>2, <2>3
  <2> HIDE DEF IsUpTo, g
  <2> QED  BY <2>2, <2>4
<1>3. 0..N \subseteq T
  <2> HIDE DEF T
  <2> QED  BY <1>1, <1>2, AllNumbers
<1>4. PICK f \in [0..N -> X] : IsUpTo(f, N)
  BY <1>3
<1>5. Recurs(f, X, base, N, step)
  BY <1>4 DEF Recurs
<1> QED  BY <1>5

-----------------------------------------------------------------------------
LEMMA ElementsOf ==
    ASSUME NEW S, NEW s \in Seq(S)
    PROVE  ToSet(s) = {s[k] : k \in 1..Len(s)} /\ ToSet(s) \subseteq S
BY DEF ToSet

LEMMA ElementsOfEmpty == ToSet(<<>>) = {}
BY DEF ToSet

LEMMA ElementsOfAppend ==
    ASSUME NEW S, NEW s \in Seq(S), NEW e \in S
    PROVE  Append(s, e) \in Seq(S) /\ ToSet(Append(s, e)) = ToSet(s) \cup {e}
<1>1. /\ Append(s, e) \in Seq(S) /\ Len(Append(s, e)) = Len(s) + 1
      /\ Append(s, e)[Len(s) + 1] = e
      /\ \A k \in 1..Len(s) : Append(s, e)[k] = s[k]
  OBVIOUS
<1>2. ToSet(Append(s, e)) = {Append(s, e)[k] : k \in 1..(Len(s) + 1)}
  BY <1>1, ElementsOf
<1>3. ToSet(s) = {s[k] : k \in 1..Len(s)}
  BY ElementsOf
<1>4. 1..(Len(s) + 1) = 1..Len(s) \cup {Len(s) + 1}
  OBVIOUS
<1> QED  BY <1>1, <1>2, <1>3, <1>4

LEMMA ElementsOfConcat ==
    ASSUME NEW S, NEW s \in Seq(S), NEW t \in Seq(S)
    PROVE  s \o t \in Seq(S) /\ ToSet(s \o t) = ToSet(s) \cup ToSet(t)
<1>1. /\ s \o t \in Seq(S) /\ Len(s \o t) = Len(s) + Len(t)
      /\ \A k \in 1..Len(s) : (s \o t)[k] = s[k]
      /\ \A k \in 1..Len(t) : (s \o t)[Len(s) + k] = t[k]
  OBVIOUS
<1>2. \A k \in 1..Len(s \o t) : k \in 1..Len(s) \/ k - Len(s) \in 1..Len(t)
  BY <1>1
<1>3. /\ ToSet(s \o t) = {(s \o t)[k] : k \in 1..Len(s \o t)}
      /\ ToSet(s) = {s[k] : k \in 1..Len(s)} /\ ToSet(t) = {t[k] : k \in 1..Len(t)}
  BY <1>1, ElementsOf
<1>4. ASSUME NEW k \in 1..Len(s \o t) PROVE (s \o t)[k] \in ToSet(s) \cup ToSet(t)
  <2>1. CASE k \in 1..Len(s)
    BY <2>1, <1>1, <1>3
  <2>2. CASE k - Len(s) \in 1..Len(t)
    <3>1. (s \o t)[Len(s) + (k - Len(s))] = t[k - Len(s)]
      BY <2>2, <1>1
    <3>2. Len(s) + (k - Len(s)) = k
      BY <1>1
    <3> QED  BY <3>1, <3>2, <2>2, <1>3
  <2> QED  BY <1>2, <2>1, <2>2
<1>5. ASSUME NEW k \in 1..Len(t) PROVE t[k] \in ToSet(s \o t)
  <2>1. Len(s) + k \in 1..Len(s \o t)
    BY <1>1
  <2> QED  BY <2>1, <1>1, <1>3
<1>6. ASSUME NEW k \in 1..Len(s) PROVE s[k] \in ToSet(s \o t)
  <2>1. k \in 1..Len(s \o t)
    BY <1>1
  <2> QED  BY <2>1, <1>1, <1>3
<1> QED  BY ZenonT(60), <1>1, <1>3, <1>4, <1>5, <1>6

LEMMA ElementsOfPart ==
    ASSUME NEW S, NEW s \in Seq(S), NEW m \in 1..Len(s) + 1, NEW n \in 0..Len(s)
    PROVE  SubSeq(s, m, n) \in Seq(S) /\ ToSet(SubSeq(s, m, n)) \subseteq ToSet(s)
<1>1. SubSeq(s, m, n) \in Seq(S)
  OBVIOUS
<1>2. \A k \in 1..Len(SubSeq(s, m, n)) :
        SubSeq(s, m, n)[k] = s[m + k - 1] /\ m + k - 1 \in 1..Len(s)
  OBVIOUS
<1>3. /\ ToSet(SubSeq(s, m, n)) = {SubSeq(s, m, n)[k] : k \in 1..Len(SubSeq(s, m, n))}
      /\ ToSet(s) = {s[k] : k \in 1..Len(s)}
  BY <1>1, ElementsOf
<1> QED  BY <1>1, <1>2, <1>3

LEMMA ElementsOfTail ==
    ASSUME NEW S, NEW s \in Seq(S), s # <<>>
    PROVE  /\ Tail(s) \in Seq(S) /\ Head(s) \in S
           /\ Head(s) \in ToSet(s) /\ ToSet(Tail(s)) \subseteq ToSet(s)
<1>1. /\ Tail(s) \in Seq(S) /\ Head(s) = s[1] /\ Len(s) >= 1 /\ Len(Tail(s)) = Len(s) - 1
      /\ \A k \in 1..Len(Tail(s)) : Tail(s)[k] = s[k + 1]
  OBVIOUS
<1>2. /\ ToSet(Tail(s)) = {Tail(s)[k] : k \in 1..Len(Tail(s))}
      /\ ToSet(s) = {s[k] : k \in 1..Len(s)}
  BY <1>1, ElementsOf
<1>3. \A k \in 1..Len(Tail(s)) : k + 1 \in 1..Len(s)
  BY <1>1
<1>4. 1 \in 1..Len(s) /\ s[1] \in S
  BY <1>1
<1> QED  BY <1>1, <1>2, <1>3, <1>4

-----------------------------------------------------------------------------
(* Sequences that name everything once. *)

LEMMA OnceAppend ==
    ASSUME NEW S, NEW s \in Seq(S), NEW e \in S, IsInjective(s), e \notin ToSet(s)
    PROVE  IsInjective(Append(s, e))
<1>1. /\ DOMAIN Append(s, e) = 1..(Len(s) + 1) /\ DOMAIN s = 1..Len(s)
      /\ Append(s, e)[Len(s) + 1] = e
      /\ \A k \in 1..Len(s) : Append(s, e)[k] = s[k] /\ s[k] # e
  BY ElementsOf
<1> QED  BY <1>1 DEF IsInjective

LEMMA OnceConcat ==
    ASSUME NEW S, NEW s \in Seq(S), NEW t \in Seq(S), IsInjective(s), IsInjective(t),
           ToSet(s) \cap ToSet(t) = {}
    PROVE  IsInjective(s \o t)
<1>1. /\ DOMAIN (s \o t) = 1..(Len(s) + Len(t)) /\ DOMAIN s = 1..Len(s) /\ DOMAIN t = 1..Len(t)
      /\ \A k \in 1..Len(s) : (s \o t)[k] = s[k]
      /\ \A k \in (Len(s) + 1)..(Len(s) + Len(t)) :
            (s \o t)[k] = t[k - Len(s)] /\ k - Len(s) \in 1..Len(t)
  OBVIOUS
<1>2. \A k \in 1..Len(s), m \in 1..Len(t) : s[k] # t[m]
  BY ElementsOf
<1>3. ASSUME NEW a \in 1..(Len(s) + Len(t)), NEW b \in 1..(Len(s) + Len(t)), (s \o t)[a] = (s \o t)[b]
      PROVE  a = b
  <2>1. CASE a \in 1..Len(s) /\ b \in 1..Len(s)
    BY <1>1, <1>3, <2>1 DEF IsInjective
  <2>2. CASE a \notin 1..Len(s) /\ b \notin 1..Len(s)
    <3>1. a \in (Len(s) + 1)..(Len(s) + Len(t)) /\ b \in (Len(s) + 1)..(Len(s) + Len(t))
      BY <2>2
    <3>2. t[a - Len(s)] = t[b - Len(s)] /\ a - Len(s) \in DOMAIN t /\ b - Len(s) \in DOMAIN t
      BY <1>1, <1>3, <3>1
    <3>3. a - Len(s) = b - Len(s)
      BY <3>2 DEF IsInjective
    <3> QED  BY <3>3
  <2>3. CASE a \in 1..Len(s) /\ b \notin 1..Len(s)
    <3>1. b \in (Len(s) + 1)..(Len(s) + Len(t))
      BY <2>3
    <3> QED  BY <1>1, <1>2, <1>3, <2>3, <3>1
  <2>4. CASE a \notin 1..Len(s) /\ b \in 1..Len(s)
    <3>1. a \in (Len(s) + 1)..(Len(s) + Len(t))
      BY <2>4
    <3> QED  BY <1>1, <1>2, <1>3, <2>4, <3>1
  <2> QED  BY <2>1, <2>2, <2>3, <2>4
<1> QED  BY <1>1, <1>3 DEF IsInjective

\* The parts of a sequence before and after a place.
LEMMA OnceParts ==
    ASSUME NEW S, NEW s \in Seq(S), NEW n \in 0..Len(s), IsInjective(s)
    PROVE  LET front == SubSeq(s, 1, n)
               back  == SubSeq(s, n + 1, Len(s))
           IN  /\ front \in Seq(S) /\ back \in Seq(S)
               /\ IsInjective(front) /\ IsInjective(back)
               /\ ToSet(front) \cap ToSet(back) = {}
               /\ ToSet(front) \cup ToSet(back) = ToSet(s)
<1> DEFINE front == SubSeq(s, 1, n)
           back  == SubSeq(s, n + 1, Len(s))
<1>1. /\ front \in Seq(S) /\ Len(front) = n /\ DOMAIN front = 1..n
      /\ \A k \in 1..n : front[k] = s[k] /\ k \in DOMAIN s
  OBVIOUS
<1>2. /\ back \in Seq(S) /\ Len(back) = Len(s) - n /\ DOMAIN back = 1..(Len(s) - n)
      /\ \A k \in 1..(Len(s) - n) : back[k] = s[n + k] /\ n + k \in DOMAIN s
  OBVIOUS
<1> HIDE DEF front, back
<1>3. IsInjective(front)
  BY <1>1 DEF IsInjective
<1>4. IsInjective(back)
  <2> SUFFICES ASSUME NEW a \in 1..(Len(s) - n), NEW b \in 1..(Len(s) - n), back[a] = back[b]
               PROVE  a = b
    BY <1>2 DEF IsInjective
  <2>1. n + a = n + b
    BY <1>2 DEF IsInjective
  <2> QED  BY <2>1
<1>5. /\ ToSet(front) = {front[k] : k \in 1..n}
      /\ ToSet(back) = {back[k] : k \in 1..(Len(s) - n)}
      /\ ToSet(s) = {s[k] : k \in 1..Len(s)}
  BY <1>1, <1>2, ElementsOf
<1>6. \A a \in 1..n, b \in 1..(Len(s) - n) : front[a] # back[b]
  <2> SUFFICES ASSUME NEW a \in 1..n, NEW b \in 1..(Len(s) - n), front[a] = back[b] PROVE FALSE
    OBVIOUS
  <2>1. s[a] = s[n + b] /\ a \in DOMAIN s /\ n + b \in DOMAIN s
    BY <1>1, <1>2
  <2>2. a = n + b
    BY <2>1 DEF IsInjective
  <2> QED  BY <2>2
<1>7. ToSet(front) \cap ToSet(back) = {}
  BY <1>5, <1>6
<1>8. ToSet(front) \subseteq ToSet(s) /\ ToSet(back) \subseteq ToSet(s)
  BY <1>1, <1>2, <1>5
<1>9. ASSUME NEW k \in 1..Len(s) PROVE s[k] \in ToSet(front) \cup ToSet(back)
  <2>1. CASE k <= n
    BY <1>1, <1>5, <2>1
  <2>2. CASE k > n
    <3>1. k - n \in 1..(Len(s) - n) /\ n + (k - n) = k
      BY <2>2
    <3> QED  BY <1>2, <1>5, <3>1
  <2> QED  BY <2>1, <2>2
<1>10. ToSet(front) \cup ToSet(back) = ToSet(s)
  BY <1>5, <1>8, <1>9
<1> QED  BY <1>1, <1>2, <1>3, <1>4, <1>7, <1>10 DEF front, back

LEMMA OnceOfConcat ==
    ASSUME NEW S, NEW s \in Seq(S), NEW t \in Seq(S), IsInjective(s \o t)
    PROVE  /\ IsInjective(s) /\ IsInjective(t) /\ ToSet(s) \cap ToSet(t) = {}
           /\ ToSet(s) \cup ToSet(t) = ToSet(s \o t)
<1>1. /\ DOMAIN (s \o t) = 1..(Len(s) + Len(t)) /\ DOMAIN s = 1..Len(s) /\ DOMAIN t = 1..Len(t)
      /\ \A k \in 1..Len(s) : (s \o t)[k] = s[k] /\ k \in DOMAIN (s \o t)
      /\ \A k \in 1..Len(t) : (s \o t)[Len(s) + k] = t[k] /\ Len(s) + k \in DOMAIN (s \o t)
  OBVIOUS
<1>2. IsInjective(s)
  BY <1>1 DEF IsInjective
<1>3. IsInjective(t)
  <2> SUFFICES ASSUME NEW a \in 1..Len(t), NEW b \in 1..Len(t), t[a] = t[b] PROVE a = b
    BY <1>1 DEF IsInjective
  <2>1. Len(s) + a = Len(s) + b
    BY <1>1 DEF IsInjective
  <2> QED  BY <2>1
<1>4. \A a \in 1..Len(s), b \in 1..Len(t) : s[a] # t[b]
  <2> SUFFICES ASSUME NEW a \in 1..Len(s), NEW b \in 1..Len(t), s[a] = t[b] PROVE FALSE
    OBVIOUS
  <2>1. a = Len(s) + b
    BY <1>1 DEF IsInjective
  <2> QED  BY <2>1
<1> QED  BY <1>2, <1>3, <1>4, ElementsOf, ElementsOfConcat

LEMMA OnceTail ==
    ASSUME NEW S, NEW s \in Seq(S), s # <<>>, IsInjective(s)
    PROVE  /\ Tail(s) \in Seq(S) /\ Head(s) \in S /\ IsInjective(Tail(s))
           /\ Head(s) \notin ToSet(Tail(s)) /\ ToSet(s) = ToSet(Tail(s)) \cup {Head(s)}
<1>1. /\ Tail(s) \in Seq(S) /\ Head(s) = s[1] /\ 1 \in DOMAIN s /\ Head(s) \in S
      /\ DOMAIN s = 1..Len(s) /\ DOMAIN Tail(s) = 1..(Len(s) - 1) /\ Len(Tail(s)) = Len(s) - 1
      /\ \A k \in 1..(Len(s) - 1) : Tail(s)[k] = s[k + 1] /\ k + 1 \in DOMAIN s
  OBVIOUS
<1>2. IsInjective(Tail(s))
  <2> SUFFICES ASSUME NEW a \in 1..(Len(s) - 1), NEW b \in 1..(Len(s) - 1), Tail(s)[a] = Tail(s)[b]
               PROVE  a = b
    BY <1>1 DEF IsInjective
  <2>1. a + 1 = b + 1
    BY <1>1 DEF IsInjective
  <2> QED  BY <2>1
<1>3. /\ ToSet(s) = {s[k] : k \in 1..Len(s)}
      /\ ToSet(Tail(s)) = {Tail(s)[k] : k \in 1..(Len(s) - 1)}
  BY <1>1, ElementsOf
<1>4. \A k \in 1..(Len(s) - 1) : Tail(s)[k] # s[1]
  <2> SUFFICES ASSUME NEW k \in 1..(Len(s) - 1), Tail(s)[k] = s[1] PROVE FALSE
    OBVIOUS
  <2>1. k + 1 = 1
    BY <1>1 DEF IsInjective
  <2> QED  BY <2>1
<1>5. ASSUME NEW k \in 1..Len(s), k # 1 PROVE s[k] \in ToSet(Tail(s))
  <2>1. k - 1 \in 1..(Len(s) - 1) /\ (k - 1) + 1 = k
    BY <1>5
  <2> QED  BY <1>1, <1>3, <2>1
<1>6. ToSet(Tail(s)) \subseteq ToSet(s)
  BY <1>1, <1>3
<1> QED  BY <1>1, <1>2, <1>3, <1>4, <1>5, <1>6

\* How often something occurs in such a sequence.
LEMMA OccursOnce ==
    ASSUME NEW S, NEW s \in Seq(S), IsInjective(s), NEW e
    PROVE  Cardinality({k \in DOMAIN s : s[k] = e}) = IF e \in ToSet(s) THEN 1 ELSE 0
<1>1. DOMAIN s = 1..Len(s) /\ ToSet(s) = {s[k] : k \in 1..Len(s)}
  BY ElementsOf
<1>2. CASE e \in ToSet(s)
  <2>1. PICK k \in DOMAIN s : s[k] = e
    BY <1>1, <1>2
  <2>2. {m \in DOMAIN s : s[m] = e} = {k}
    BY <2>1 DEF IsInjective
  <2> QED  BY <1>2, <2>2, FS_Singleton
<1>3. CASE e \notin ToSet(s)
  <2>1. {m \in DOMAIN s : s[m] = e} = {}
    BY <1>1, <1>3
  <2> QED  BY <1>3, <2>1, FS_EmptySet
<1> QED  BY <1>2, <1>3
=============================================================================
