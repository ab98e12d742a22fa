----------------------- MODULE ComboDispatch_proofs -----------------------
(***************************************************************************)
(* Proofs about ComboDispatch for any requests, combo, adapter models and  *)
(* contents.                                                               *)
(***************************************************************************)
EXTENDS ComboDispatch, SequenceTheorems, WellFoundedInduction, TLAPS

-----------------------------------------------------------------------------
(* Induction over the natural numbers for a set instead of an operator:    *)
(* the least number that is not in it.                                     *)

LEMMA LeastNumber ==
    ASSUME NEW T \in SUBSET Nat, T # {}
    PROVE  \E n \in T : \A m \in T : n <= m
<1> DEFINE R == OpToRel(<, Nat)
<1>1. IsWellFoundedOn(R, Nat)
  BY NatLessThanWellFounded
<1>2. ASSUME NEW m \in Nat, NEW n \in Nat, m < n  PROVE <<m, n>> \in R
  BY <1>2 DEF OpToRel
<1> HIDE DEF R
<1>3. PICK n \in T : \A m \in T : ~ (<<m, n>> \in R)
  BY <1>1, WFMin
<1>4. ASSUME NEW m \in T  PROVE n <= m
  <2>1. m \in Nat /\ n \in Nat
    OBVIOUS
  <2>2. ~ (m < n)
    BY <1>2, <1>3, <2>1, Zenon
  <2>3. QED
    BY <2>1, <2>2
<1>5. QED
  BY <1>4

LEMMA SetInduction ==
    ASSUME NEW T \in SUBSET Nat, 0 \in T, \A n \in T : n + 1 \in T
    PROVE  T = Nat
<1>1. SUFFICES ASSUME Nat \ T # {}  PROVE FALSE
  OBVIOUS
<1>2. PICK n \in Nat \ T : \A m \in Nat \ T : n <= m
  BY <1>1, LeastNumber
<1>3. n # 0 /\ n - 1 \in Nat
  BY <1>2
<1>4. n - 1 \in T
  BY <1>2, <1>3
<1>5. QED
  BY <1>2, <1>4

-----------------------------------------------------------------------------
(* Selected.                                                               *)

\* The equation of the recursive function in Selected
SelectedUpTo(s, S, f, i) ==
    IF i = 0 THEN <<>> ELSE IF s[i] \in S THEN Append(f[i - 1], s[i]) ELSE f[i - 1]

\* There is a function that satisfies the equation on a prefix of any length.
LEMMA SelectedExists ==
    ASSUME NEW s, NEW S, NEW n \in Nat
    PROVE  \E f : f = [i \in 0..n |-> SelectedUpTo(s, S, f, i)]
<1> DEFINE Partial(k) == \E f : f = [i \in 0..k |-> SelectedUpTo(s, S, f, i)]
           Good == {k \in Nat : Partial(k)}
<1>1. Partial(0)
  <2>1. [i \in 0..0 |-> <<>>] = [i \in 0..0 |-> SelectedUpTo(s, S, [j \in 0..0 |-> <<>>], i)]
    BY DEF SelectedUpTo
  <2>2. QED
    BY <2>1
<1>2. ASSUME NEW k \in Nat, Partial(k)  PROVE Partial(k + 1)
  <2>1. PICK f : f = [i \in 0..k |-> SelectedUpTo(s, S, f, i)]
    BY <1>2
  <2> DEFINE g == [i \in 0..(k + 1) |-> IF i <= k THEN f[i] ELSE SelectedUpTo(s, S, f, k + 1)]
  <2>2. ASSUME NEW i \in 0..(k + 1)  PROVE g[i] = SelectedUpTo(s, S, g, i)
    <3>1. CASE i = 0
      BY <2>1, <3>1 DEF SelectedUpTo
    <3>2. CASE i \in 1..k
      <4>1. g[i] = f[i] /\ g[i - 1] = f[i - 1] /\ f[i] = SelectedUpTo(s, S, f, i)
        BY <2>1, <3>2
      <4> HIDE DEF g
      <4>2. QED
        BY <4>1, <3>2 DEF SelectedUpTo
    <3>3. CASE i = k + 1
      <4>1. g[i] = SelectedUpTo(s, S, f, k + 1) /\ g[i - 1] = f[i - 1]
        BY <3>3
      <4> HIDE DEF g
      <4>2. QED
        BY <4>1, <3>3 DEF SelectedUpTo
    <3>4. QED
      BY <3>1, <3>2, <3>3
  <2>3. g = [i \in 0..(k + 1) |-> SelectedUpTo(s, S, g, i)]
    <3>1. g = [i \in 0..(k + 1) |-> g[i]]
      OBVIOUS
    <3> HIDE DEF g
    <3>2. QED
      BY <2>2, <3>1
  <2>4. QED
    BY <2>3
<1> HIDE DEF Partial
<1>3. Good = Nat
  <2>1. 0 \in Good
    BY <1>1
  <2>2. ASSUME NEW k \in Good  PROVE k + 1 \in Good
    BY <1>2, <2>2
  <2>3. QED
    BY <2>1, <2>2, SetInduction
<1>4. QED
  BY <1>3 DEF Partial

LEMMA SelectedRecursion ==
    ASSUME NEW s, NEW S, Len(s) \in Nat
    PROVE  \E f : /\ f = [i \in 0..Len(s) |-> SelectedUpTo(s, S, f, i)]
                  /\ Selected(s, S) = f[Len(s)]
<1> DEFINE f == CHOOSE g : g = [i \in 0..Len(s) |-> SelectedUpTo(s, S, g, i)]
<1>1. f = [i \in 0..Len(s) |-> SelectedUpTo(s, S, f, i)]
  BY SelectedExists
<1>2. Selected(s, S) = f[Len(s)]
  BY DEF Selected, SelectedUpTo
<1>3. QED
  BY <1>1, <1>2

LEMMA AppendRange ==
    ASSUME NEW T, NEW q \in Seq(T), NEW e \in T
    PROVE  /\ Range(Append(q, e)) = Range(q) \cup {e}
           /\ IsInjective(q) /\ e \notin Range(q) => IsInjective(Append(q, e))
<1> DEFINE r == Append(q, e)
<1>1. /\ DOMAIN q = 1..Len(q) /\ DOMAIN r = 1..(Len(q) + 1) /\ Len(q) \in Nat
      /\ \A i \in 1..Len(q) : r[i] = q[i]
      /\ r[Len(q) + 1] = e
  BY AppendProperties, LenProperties
<1> HIDE DEF r
<1>2. Range(r) = Range(q) \cup {e}
  <2>1. ASSUME NEW x \in Range(r)  PROVE x \in Range(q) \cup {e}
    BY <1>1, <2>1 DEF Range
  <2>2. ASSUME NEW x \in Range(q)  PROVE x \in Range(r)
    <3>1. PICK i \in 1..Len(q) : x = q[i]
      BY <1>1, <2>2 DEF Range
    <3>2. i \in DOMAIN r /\ r[i] = x
      BY <1>1, <3>1
    <3>3. QED
      BY <3>2 DEF Range
  <2>3. e \in Range(r)
    <3>1. Len(q) + 1 \in DOMAIN r
      BY <1>1
    <3>2. QED
      BY <1>1, <3>1 DEF Range
  <2>4. QED
    BY <2>1, <2>2, <2>3
<1>3. ASSUME IsInjective(q), e \notin Range(q)  PROVE IsInjective(r)
  <2>1. \A i \in 1..Len(q) : q[i] # e
    BY <1>1, <1>3 DEF Range
  <2>2. QED
    BY <1>1, <1>3, <2>1 DEF IsInjective
<1>4. QED
  BY <1>2, <1>3 DEF r

\* What is selected from a sequence is what is in the set, no more often and not longer.
LEMMA SelectedElements ==
    ASSUME NEW T, NEW s \in Seq(T), NEW S
    PROVE  /\ Selected(s, S) \in Seq(T)
           /\ Len(Selected(s, S)) <= Len(s)
           /\ Range(Selected(s, S)) = Range(s) \cap S
           /\ IsInjective(s) => IsInjective(Selected(s, S))
<1>1. /\ Len(s) \in Nat /\ DOMAIN s = 1..Len(s)
      /\ \A i \in 1..Len(s) : s[i] \in T
  BY LenProperties
<1>2. PICK f : /\ f = [i \in 0..Len(s) |-> SelectedUpTo(s, S, f, i)]
               /\ Selected(s, S) = f[Len(s)]
  BY <1>1, SelectedRecursion
<1> DEFINE Seen(k) == {s[i] : i \in 1..k}
           Right(k) == /\ f[k] \in Seq(T) /\ Len(f[k]) <= k
                       /\ Range(f[k]) = Seen(k) \cap S
                       /\ IsInjective(s) => IsInjective(f[k])
           Good == {k \in Nat : k <= Len(s) => Right(k)}
<1>3. Right(0)
  <2>1. f[0] = <<>>
    BY <1>1, <1>2 DEF SelectedUpTo
  <2>2. QED
    BY <2>1 DEF Range, IsInjective
<1>4. ASSUME NEW k \in Nat, k + 1 <= Len(s), Right(k)  PROVE Right(k + 1)
  <2>1. k \in 0..Len(s) /\ k + 1 \in 1..Len(s)
    BY <1>1, <1>4
  <2>2. f[k + 1] = IF s[k + 1] \in S THEN Append(f[k], s[k + 1]) ELSE f[k]
    <3>1. f[k + 1] = SelectedUpTo(s, S, f, k + 1)
      BY <1>2, <2>1
    <3>2. (k + 1) - 1 = k /\ k + 1 # 0
      OBVIOUS
    <3>3. QED
      BY <3>1, <3>2 DEF SelectedUpTo
  <2>3. Seen(k + 1) = Seen(k) \cup {s[k + 1]}
    BY <2>1
  <2>4. ASSUME IsInjective(s)  PROVE s[k + 1] \notin Seen(k)
    BY <1>1, <2>1, <2>4 DEF IsInjective
  <2>5. s[k + 1] \in T
    BY <1>1, <2>1
  <2> HIDE DEF Seen
  <2>6. CASE s[k + 1] \in S
    <3>1. f[k + 1] = Append(f[k], s[k + 1])
      BY <2>2, <2>6
    <3>2. Len(f[k + 1]) = Len(f[k]) + 1 /\ f[k + 1] \in Seq(T) /\ Len(f[k]) \in Nat
      BY <1>4, <2>5, <3>1, AppendProperties, LenProperties
    <3>3. Range(f[k + 1]) = Range(f[k]) \cup {s[k + 1]}
      BY <1>4, <2>5, <3>1, AppendRange
    <3>4. IsInjective(s) => IsInjective(f[k + 1])
      BY <1>4, <2>4, <2>5, <3>1, AppendRange
    <3>5. QED
      BY <1>4, <2>3, <2>6, <3>2, <3>3, <3>4
  <2>7. CASE s[k + 1] \notin S
    BY <1>4, <2>2, <2>3, <2>7, LenProperties
  <2>8. QED
    BY <2>6, <2>7
<1> HIDE DEF Right
<1>5. Good = Nat
  <2>1. 0 \in Good
    BY <1>3
  <2>2. ASSUME NEW k \in Good  PROVE k + 1 \in Good
    BY <1>1, <1>4, <2>2
  <2>3. QED
    BY <2>1, <2>2, SetInduction
<1>6. Right(Len(s))
  BY <1>1, <1>5
<1>7. Range(s) = Seen(Len(s))
  BY <1>1 DEF Range
<1>8. QED
  BY <1>2, <1>6, <1>7 DEF Right

\* A concatenation holds what its parts hold, once if they share nothing.
LEMMA ConcatElements ==
    ASSUME NEW T, NEW a \in Seq(T), NEW b \in Seq(T)
    PROVE  /\ a \o b \in Seq(T) /\ Len(a \o b) = Len(a) + Len(b)
           /\ Range(a \o b) = Range(a) \cup Range(b)
           /\ IsInjective(a \o b) <=> /\ IsInjective(a) /\ IsInjective(b)
                                      /\ Range(a) \cap Range(b) = {}
<1> DEFINE c == a \o b
<1>1. /\ Len(a) \in Nat /\ Len(b) \in Nat /\ c \in Seq(T) /\ Len(c) = Len(a) + Len(b)
      /\ DOMAIN a = 1..Len(a) /\ DOMAIN b = 1..Len(b) /\ DOMAIN c = 1..(Len(a) + Len(b))
      /\ \A i \in 1..Len(a) : c[i] = a[i]
      /\ \A i \in 1..Len(b) : c[Len(a) + i] = b[i]
  <2>1. /\ c \in Seq(T) /\ Len(c) = Len(a) + Len(b)
        /\ \A i \in 1 .. Len(a) + Len(b) : c[i] = IF i <= Len(a) THEN a[i] ELSE b[i - Len(a)]
    BY ConcatProperties
  <2>2. /\ Len(a) \in Nat /\ Len(b) \in Nat
        /\ DOMAIN a = 1..Len(a) /\ DOMAIN b = 1..Len(b) /\ DOMAIN c = 1..Len(c)
    BY <2>1, LenProperties
  <2> HIDE DEF c
  <2>3. ASSUME NEW i \in 1..Len(b)  PROVE c[Len(a) + i] = b[i]
    <3>1. /\ Len(a) + i \in 1 .. Len(a) + Len(b) /\ ~ (Len(a) + i <= Len(a))
          /\ (Len(a) + i) - Len(a) = i
      BY <2>2
    <3>2. QED
      BY <2>1, <3>1
  <2>4. QED
    BY <2>1, <2>2, <2>3
<1>2. Range(c) = Range(a) \cup Range(b)
  BY RangeConcatenation
<1> HIDE DEF c
<1>3. ASSUME IsInjective(a), IsInjective(b), Range(a) \cap Range(b) = {}
      PROVE  IsInjective(c)
  <2>1. SUFFICES ASSUME NEW i \in 1..(Len(a) + Len(b)), NEW j \in 1..(Len(a) + Len(b)), c[i] = c[j]
                 PROVE  i = j
    BY <1>1 DEF IsInjective
  <2>2. ASSUME NEW k \in 1..(Len(a) + Len(b))
        PROVE  \/ k \in 1..Len(a) /\ c[k] = a[k] /\ c[k] \in Range(a)
               \/ /\ k - Len(a) \in 1..Len(b) /\ c[k] = b[k - Len(a)]
                  /\ c[k] \in Range(b)
    <3>1. CASE k <= Len(a)
      BY <1>1, <3>1 DEF Range
    <3>2. CASE ~ (k <= Len(a))
      <4>1. k - Len(a) \in 1..Len(b) /\ Len(a) + (k - Len(a)) = k
        BY <1>1, <3>2
      <4>2. c[k] = b[k - Len(a)]
        BY <1>1, <4>1
      <4>3. QED
        BY <1>1, <4>1, <4>2 DEF Range
    <3>3. QED
      BY <3>1, <3>2
  <2>3. CASE i \in 1..Len(a) /\ j \in 1..Len(a)
    BY <1>1, <1>3, <2>1, <2>3 DEF IsInjective
  <2>4. CASE ~ (i \in 1..Len(a)) /\ ~ (j \in 1..Len(a))
    <3>1. i - Len(a) \in 1..Len(b) /\ j - Len(a) \in 1..Len(b) /\ b[i - Len(a)] = b[j - Len(a)]
      BY <2>1, <2>2, <2>4
    <3>2. i - Len(a) = j - Len(a)
      BY <1>1, <1>3, <3>1 DEF IsInjective
    <3>3. QED
      BY <1>1, <3>2
  <2>5. ASSUME NEW k \in 1..(Len(a) + Len(b)), NEW l \in 1..(Len(a) + Len(b)), c[k] = c[l],
               k \in 1..Len(a), ~ (l \in 1..Len(a))
        PROVE  FALSE
    <3>1. c[k] \in Range(a)
      BY <1>1, <2>5 DEF Range
    <3>2. c[l] \in Range(b)
      BY <2>2, <2>5
    <3>3. QED
      BY <1>3, <2>5, <3>1, <3>2
  <2>6. QED
    BY <2>1, <2>3, <2>4, <2>5
<1>4. ASSUME IsInjective(c)
      PROVE  IsInjective(a) /\ IsInjective(b) /\ Range(a) \cap Range(b) = {}
  <2>1. IsInjective(a)
    <3>1. ASSUME NEW i \in 1..Len(a)  PROVE i \in DOMAIN c /\ a[i] = c[i]
      BY <1>1, <3>1
    <3>2. QED
      BY <1>1, <1>4, <3>1 DEF IsInjective
  <2>2. IsInjective(b)
    <3>1. ASSUME NEW i \in 1..Len(b)  PROVE Len(a) + i \in DOMAIN c /\ b[i] = c[Len(a) + i]
      BY <1>1, <3>1
    <3>2. ASSUME NEW i \in 1..Len(b), NEW j \in 1..Len(b), b[i] = b[j]  PROVE i = j
      <4>1. Len(a) + i = Len(a) + j
        BY <1>4, <3>1, <3>2 DEF IsInjective
      <4>2. QED
        BY <1>1, <4>1
    <3>3. QED
      BY <1>1, <3>2 DEF IsInjective
  <2>3. ASSUME NEW x \in Range(a), x \in Range(b)  PROVE FALSE
    <3>1. PICK i \in 1..Len(a) : x = a[i]
      BY <1>1 DEF Range
    <3>2. PICK j \in 1..Len(b) : x = b[j]
      BY <1>1, <2>3 DEF Range
    <3>3. i \in DOMAIN c /\ Len(a) + j \in DOMAIN c /\ i # Len(a) + j
      BY <1>1
    <3>4. c[i] = x /\ c[Len(a) + j] = x
      BY <1>1, <3>1, <3>2
    <3>5. QED
      BY <1>4, <3>3, <3>4 DEF IsInjective
  <2>4. QED
    BY <2>1, <2>2, <2>3
<1>5. QED
  BY <1>1, <1>2, <1>3, <1>4 DEF c

\* Without its head a sequence without repetitions holds everything else.
LEMMA TailElements ==
    ASSUME NEW T, NEW s \in Seq(T), s # <<>>
    PROVE  /\ Head(s) \in T /\ Tail(s) \in Seq(T)
           /\ Range(s) = Range(Tail(s)) \cup {Head(s)}
           /\ IsInjective(s) => IsInjective(Tail(s)) /\ Head(s) \notin Range(Tail(s))
<1> DEFINE t == Tail(s)
<1>1. /\ Len(s) \in Nat /\ Len(s) # 0 /\ Head(s) \in T /\ t \in Seq(T) /\ Len(t) = Len(s) - 1
      /\ DOMAIN s = 1..Len(s) /\ DOMAIN t = 1..(Len(s) - 1)
      /\ Head(s) = s[1]
      /\ \A i \in 1..(Len(s) - 1) : t[i] = s[i + 1]
  BY HeadTailProperties, LenProperties, EmptySeq
<1> HIDE DEF t
<1>2. ASSUME NEW x \in Range(s)  PROVE x \in Range(t) \cup {Head(s)}
  <2>1. PICK i \in 1..Len(s) : x = s[i]
    BY <1>1 DEF Range
  <2>2. CASE i # 1
    <3>1. i - 1 \in DOMAIN t /\ t[i - 1] = s[(i - 1) + 1] /\ (i - 1) + 1 = i
      BY <1>1, <2>2
    <3>2. QED
      BY <2>1, <3>1 DEF Range
  <2>3. QED
    BY <1>1, <2>1, <2>2
<1>3. ASSUME NEW x \in Range(t)  PROVE \E i \in 2..Len(s) : x = s[i]
  <2>1. PICK i \in 1..(Len(s) - 1) : x = t[i]
    BY <1>1 DEF Range
  <2>2. i + 1 \in 2..Len(s) /\ x = s[i + 1]
    BY <1>1, <2>1
  <2>3. QED
    BY <2>2
<1>4. Range(s) = Range(t) \cup {Head(s)}
  <2>1. Head(s) \in Range(s)
    <3>1. 1 \in DOMAIN s
      BY <1>1
    <3>2. QED
      BY <1>1, <3>1 DEF Range
  <2>2. ASSUME NEW x \in Range(t)  PROVE x \in Range(s)
    BY <1>1, <1>3 DEF Range
  <2>3. QED
    BY <1>2, <2>1, <2>2
<1>5. ASSUME IsInjective(s)  PROVE IsInjective(t) /\ Head(s) \notin Range(t)
  <2>1. ASSUME NEW i \in DOMAIN t, NEW j \in DOMAIN t, t[i] = t[j]  PROVE i = j
    <3>1. /\ i + 1 \in DOMAIN s /\ j + 1 \in DOMAIN s /\ s[i + 1] = s[j + 1]
          /\ i \in Int /\ j \in Int
      BY <1>1, <2>1
    <3>2. i + 1 = j + 1
      BY <1>5, <3>1 DEF IsInjective
    <3>3. QED
      BY <3>1, <3>2
  <2>2. ASSUME Head(s) \in Range(t)  PROVE FALSE
    <3>1. PICK i \in 2..Len(s) : s[1] = s[i]
      BY <1>1, <1>3, <2>2
    <3>2. 1 \in DOMAIN s /\ i \in DOMAIN s /\ i # 1
      BY <1>1
    <3>3. QED
      BY <1>5, <3>1, <3>2 DEF IsInjective
  <2>3. QED
    BY <2>1, <2>2 DEF IsInjective
<1>6. QED
  BY <1>1, <1>4, <1>5 DEF t

-----------------------------------------------------------------------------
(* The order of the entries.                                               *)

\* The combo's entries and the adapter's are lists without repetitions, and disjoint,
\* whatever models they name.
LEMMA EntryLists ==
    /\ Len(Combo) \in Nat \ {0} /\ Len(Adapters) \in Nat
    /\ OwnEntries \in Seq(Entries) /\ Len(OwnEntries) = Len(Combo)
    /\ AdapterEntries \in Seq(Entries) /\ Len(AdapterEntries) = Len(Adapters)
    /\ IsInjective(OwnEntries) /\ IsInjective(AdapterEntries)
    /\ Range(OwnEntries) \cap Range(AdapterEntries) = {}
    /\ \A i \in 1..Len(Combo) : i \in Entries /\ OwnEntries[i] = i
    /\ 1..Len(Combo) \subseteq Entries
<1>1. Len(Combo) \in Nat \ {0} /\ Len(Adapters) \in Nat
  BY ComboAssumption, EmptySeq, LenProperties
<1>2. /\ \A i \in 1..Len(Combo) : i \in Entries
      /\ \A i \in 1..Len(Adapters) : Len(Combo) + i \in Entries
  BY <1>1 DEF Entries
<1>3. OwnEntries \in Seq(Entries) /\ Len(OwnEntries) = Len(Combo)
  BY <1>1, <1>2, IsASeq, LenProperties DEF OwnEntries
<1>4. AdapterEntries \in Seq(Entries) /\ Len(AdapterEntries) = Len(Adapters)
  BY <1>1, <1>2, IsASeq, LenProperties DEF AdapterEntries
<1>5. IsInjective(OwnEntries)
  BY DEF OwnEntries, IsInjective
<1>6. IsInjective(AdapterEntries)
  BY <1>1 DEF AdapterEntries, IsInjective
<1>7. Range(OwnEntries) \cap Range(AdapterEntries) = {}
  BY <1>1 DEF OwnEntries, AdapterEntries, Range
<1>8. \A i \in 1..Len(Combo) : OwnEntries[i] = i
  BY DEF OwnEntries
<1>9. QED
  BY <1>1, <1>2, <1>3, <1>4, <1>5, <1>6, <1>7, <1>8

\* The two ends of a sequence hold what it holds.
LEMMA CutElements ==
    ASSUME NEW T, NEW s \in Seq(T), NEW k \in 0..Len(s)
    PROVE  /\ SubSeq(s, 1, k) \in Seq(T) /\ SubSeq(s, k + 1, Len(s)) \in Seq(T)
           /\ Len(SubSeq(s, 1, k)) = k /\ Len(SubSeq(s, k + 1, Len(s))) = Len(s) - k
           /\ SubSeq(s, 1, k) \o SubSeq(s, k + 1, Len(s)) = s
           /\ k < Len(s) => SubSeq(s, k + 1, Len(s))[1] = s[k + 1]
<1> DEFINE a == SubSeq(s, 1, k)
           b == SubSeq(s, k + 1, Len(s))
<1>1. Len(s) \in Nat /\ DOMAIN s = 1..Len(s) /\ \A i \in 1..Len(s) : s[i] \in T
  BY LenProperties
<1>2. /\ a \in Seq(T) /\ Len(a) = k
      /\ \A i \in 1..k : a[i] = s[i]
  BY <1>1, SubSeqProperties
<1>3. /\ b \in Seq(T) /\ Len(b) = Len(s) - k
      /\ \A i \in 1..(Len(s) - k) : b[i] = s[k + i]
  <2>1. /\ b \in Seq(T) /\ Len(b) = IF k + 1 <= Len(s) THEN Len(s) - (k + 1) + 1 ELSE 0
        /\ \A i \in 1 .. Len(s) - (k + 1) + 1 : b[i] = s[k + 1 + i - 1]
    <3>1. \A i \in k + 1 .. Len(s) : s[i] \in T
      BY <1>1
    <3>2. k + 1 \in Int /\ Len(s) \in Int
      BY <1>1
    <3>3. QED
      BY <3>1, <3>2, SubSeqProperties
  <2> HIDE DEF b
  <2>2. Len(b) = Len(s) - k
    <3>1. CASE k + 1 <= Len(s)
      <4>1. Len(b) = Len(s) - (k + 1) + 1
        BY <2>1, <3>1
      <4>2. QED
        BY <1>1, <4>1
    <3>2. CASE ~ (k + 1 <= Len(s))
      <4>1. Len(b) = 0
        BY <2>1, <3>2
      <4>2. k = Len(s)
        <5>1. Len(s) \in Nat /\ k \in Nat /\ k <= Len(s)
          BY <1>1
        <5>2. QED
          BY <3>2, <5>1
      <4>3. Len(s) - k = 0
        BY <1>1, <4>2
      <4>4. QED
        BY <4>1, <4>3
    <3>3. QED
      BY <3>1, <3>2
  <2>3. ASSUME NEW i \in 1..(Len(s) - k)  PROVE b[i] = s[k + i]
    <3>1. i \in 1 .. Len(s) - (k + 1) + 1 /\ k + 1 + i - 1 = k + i
      BY <1>1
    <3>2. QED
      BY <2>1, <3>1
  <2>4. QED
    BY <2>1, <2>2, <2>3
<1> HIDE DEF a, b
<1>4. /\ a \o b \in Seq(T) /\ Len(a \o b) = Len(s)
      /\ \A i \in 1..Len(s) : (a \o b)[i] = IF i <= k THEN a[i] ELSE b[i - k]
  <2>1. /\ a \o b \in Seq(T) /\ Len(a \o b) = Len(a) + Len(b)
        /\ \A i \in 1 .. Len(a) + Len(b) :
              (a \o b)[i] = IF i <= Len(a) THEN a[i] ELSE b[i - Len(a)]
    BY <1>2, <1>3, ConcatProperties
  <2>2. Len(a) = k /\ Len(a) + Len(b) = Len(s)
    BY <1>1, <1>2, <1>3
  <2>3. QED
    BY <2>1, <2>2
<1>5. ASSUME NEW i \in 1..Len(s)  PROVE (a \o b)[i] = s[i]
  <2>1. CASE i <= k
    BY <1>1, <1>2, <1>4, <2>1
  <2>2. CASE ~ (i <= k)
    <3>1. i - k \in 1..(Len(s) - k) /\ k + (i - k) = i
      BY <1>1, <2>2
    <3>2. QED
      BY <1>3, <1>4, <2>2, <3>1
  <2>3. QED
    BY <2>1, <2>2
<1>6. a \o b = s
  BY <1>4, <1>5, SeqEqual
<1>7. k < Len(s) => b[1] = s[k + 1]
  BY <1>1, <1>3
<1>8. QED
  BY <1>2, <1>3, <1>6, <1>7 DEF a, b

\* A rotated list is the same list, begun at the index.
LEMMA RotatedElements ==
    ASSUME NEW list \in Seq(Entries), list # <<>>, index \in Nat
    PROVE  /\ Rotated(list) \in Seq(Entries)
           /\ Len(Rotated(list)) = Len(list)
           /\ Range(Rotated(list)) = Range(list)
           /\ IsInjective(list) => IsInjective(Rotated(list))
           /\ Rotated(list)[1] = list[(index % Len(list)) + 1]
<1> DEFINE k == index % Len(list)
           a == SubSeq(list, 1, k)
           b == SubSeq(list, k + 1, Len(list))
<1>1. Len(list) \in Nat \ {0} /\ k \in 0..Len(list) /\ k < Len(list)
  BY EmptySeq, LenProperties
<1>2. Rotated(list) = b \o a
  BY DEF Rotated
<1>3. /\ a \in Seq(Entries) /\ b \in Seq(Entries) /\ a \o b = list
      /\ Len(a) = k /\ Len(b) = Len(list) - k /\ b[1] = list[k + 1]
  <2> HIDE DEF k
  <2>1. QED
    BY <1>1, CutElements
<1> HIDE DEF k, a, b
<1>4. /\ Rotated(list) \in Seq(Entries) /\ Len(Rotated(list)) = Len(b) + Len(a)
      /\ Range(Rotated(list)) = Range(b) \cup Range(a)
      /\ IsInjective(Rotated(list)) <=> /\ IsInjective(b) /\ IsInjective(a)
                                        /\ Range(b) \cap Range(a) = {}
  BY <1>2, <1>3, ConcatElements
<1>5. /\ Range(list) = Range(a) \cup Range(b)
      /\ IsInjective(list) <=> /\ IsInjective(a) /\ IsInjective(b)
                               /\ Range(a) \cap Range(b) = {}
  BY <1>3, ConcatElements
<1>6. Rotated(list)[1] = b[1]
  BY <1>1, <1>2, <1>3, ConcatProperties
<1>7. Len(b) + Len(a) = Len(list)
  BY <1>1, <1>3
<1>8. QED
  BY <1>3, <1>4, <1>5, <1>6, <1>7 DEF k

\* The reordered list is the same list.
LEMMA AbleFirstElements ==
    ASSUME NEW list \in Seq(Entries), NEW c
    PROVE  /\ AbleFirst(c, list) \in Seq(Entries)
           /\ Range(AbleFirst(c, list)) = Range(list)
           /\ IsInjective(list) => IsInjective(AbleFirst(c, list))
<1> DEFINE a == Selected(list, AbleEntries(c))
           b == Selected(list, Entries \ AbleEntries(c))
<1>1. /\ a \in Seq(Entries) /\ Range(a) = Range(list) \cap AbleEntries(c)
      /\ IsInjective(list) => IsInjective(a)
  BY SelectedElements
<1>2. /\ b \in Seq(Entries) /\ Range(b) = Range(list) \cap (Entries \ AbleEntries(c))
      /\ IsInjective(list) => IsInjective(b)
  BY SelectedElements
<1>3. Range(list) \subseteq Entries
  BY LenProperties DEF Range
<1>4. AbleFirst(c, list) = a \o b
  BY DEF AbleFirst
<1> HIDE DEF a, b
<1>5. /\ a \o b \in Seq(Entries) /\ Range(a \o b) = Range(a) \cup Range(b)
      /\ IsInjective(a) /\ IsInjective(b) /\ Range(a) \cap Range(b) = {}
            => IsInjective(a \o b)
  BY <1>1, <1>2, ConcatElements
<1>6. Range(a) \cup Range(b) = Range(list) /\ Range(a) \cap Range(b) = {}
  BY <1>1, <1>2, <1>3
<1>7. QED
  BY <1>1, <1>2, <1>4, <1>5, <1>6

\* The capacity adapter leaves a list without repetitions that begins or ends with the
\* combo, no longer than the combo and all of the adapter's entries.
LEMMA AugmentedElements ==
    ASSUME NEW c
    PROVE  /\ Augmented(c) \in Seq(Entries) /\ Augmented(c) # <<>>
           /\ IsInjective(Augmented(c))
           /\ Len(Augmented(c)) <= Len(Combo) + Len(Adapters)
<1> DEFINE a == Selected(AdapterEntries, AbleEntries(c))
<1>1. /\ OwnEntries \in Seq(Entries) /\ AdapterEntries \in Seq(Entries) /\ OwnEntries # <<>>
      /\ Len(OwnEntries) = Len(Combo) /\ Len(AdapterEntries) = Len(Adapters)
  BY EntryLists, EmptySeq
<1>2. Len(OwnEntries) \in Nat \ {0} /\ Len(AdapterEntries) \in Nat
  BY EntryLists
<1>3. /\ IsInjective(OwnEntries) /\ IsInjective(AdapterEntries)
      /\ Range(OwnEntries) \cap Range(AdapterEntries) = {}
  BY EntryLists
<1>4. /\ a \in Seq(Entries) /\ Len(a) <= Len(AdapterEntries)
      /\ Range(a) \subseteq Range(AdapterEntries)
      /\ IsInjective(a) /\ Len(a) \in Nat
  BY <1>1, <1>3, SelectedElements, LenProperties
<1> HIDE DEF a
<1>5. CASE Augmented(c) = OwnEntries
  BY <1>1, <1>2, <1>3, <1>5
<1>6. CASE Augmented(c) = a \o OwnEntries
  <2>1. /\ a \o OwnEntries \in Seq(Entries) /\ Len(a \o OwnEntries) = Len(a) + Len(OwnEntries)
        /\ IsInjective(a \o OwnEntries)
    BY <1>1, <1>3, <1>4, ConcatElements
  <2>2. a \o OwnEntries # <<>>
    BY <1>2, <1>4, <2>1, EmptySeq
  <2>3. Len(a \o OwnEntries) <= Len(Combo) + Len(Adapters)
    BY <1>1, <1>2, <1>4, <2>1
  <2>4. QED
    BY <1>6, <2>1, <2>2, <2>3
<1>7. QED
  BY <1>5, <1>6 DEF Augmented, a

-----------------------------------------------------------------------------
(* Type correctness.                                                       *)

LEMMA LimitType == Limit \in Nat \ {0}
BY ComboAssumption DEF Limit

\* What a request that arrives does: its list is the one of the adapter in some order, and
\* the rotation either stays or moves on.
LEMMA StartOrder ==
    ASSUME TypeOK, NEW r \in Requests, Start(r)
    PROVE  \E c \in Contents, l \in Seq(Entries) :
              /\ content' = [content EXCEPT ![r] = c]
              /\ order' = [order EXCEPT ![r] = l]
              /\ IsInjective(l) /\ Range(l) = Range(Augmented(c)) /\ l # <<>>
              /\ \/ UNCHANGED rotation
                 \/ LET list == Augmented(c)
                    IN  /\ NextUse(Len(list))
                        /\ leads' = [leads EXCEPT ![list[(index % Len(list)) + 1]] = @ + 1]
                        /\ adapted' = (adapted \/ list # OwnEntries)
<1>1. PICK c \in Contents :
        /\ content' = [content EXCEPT ![r] = c]
        /\ LET list == Augmented(c)
           IN  \/ /\ order' = [order EXCEPT ![r] = AbleFirst(c, list)]
                  /\ UNCHANGED rotation
               \/ /\ order' = [order EXCEPT ![r] = AbleFirst(c, Rotated(list))]
                  /\ NextUse(Len(list))
                  /\ leads' = [leads EXCEPT ![Rotated(list)[1]] = @ + 1]
                  /\ adapted' = (adapted \/ list # OwnEntries)
  BY DEF Start
<1> DEFINE list == Augmented(c)
<1>2. list \in Seq(Entries) /\ list # <<>> /\ IsInjective(list)
  BY AugmentedElements
<1>3. index \in Nat
  BY DEF TypeOK
<1>4. /\ Rotated(list) \in Seq(Entries) /\ Range(Rotated(list)) = Range(list)
      /\ IsInjective(Rotated(list))
      /\ Rotated(list)[1] = list[(index % Len(list)) + 1]
  BY <1>2, <1>3, RotatedElements
<1>5. Range(list) # {}
  <2>1. Len(list) \in Nat \ {0} /\ DOMAIN list = 1..Len(list)
    BY <1>2, EmptySeq, LenProperties
  <2>2. 1 \in DOMAIN list
    BY <2>1
  <2>3. QED
    BY <2>2 DEF Range
<1>6. ASSUME NEW s \in Seq(Entries), Range(s) = Range(list), IsInjective(s)
      PROVE  /\ AbleFirst(c, s) \in Seq(Entries) /\ IsInjective(AbleFirst(c, s))
             /\ Range(AbleFirst(c, s)) = Range(Augmented(c)) /\ AbleFirst(c, s) # <<>>
  <2>1. /\ AbleFirst(c, s) \in Seq(Entries) /\ Range(AbleFirst(c, s)) = Range(s)
        /\ IsInjective(AbleFirst(c, s))
    BY <1>6, AbleFirstElements
  <2>2. Range(<<>>) = {}
    BY DEF Range
  <2>3. QED
    BY <1>5, <1>6, <2>1, <2>2
<1>7. CASE order' = [order EXCEPT ![r] = AbleFirst(c, list)] /\ UNCHANGED rotation
  <2>1. /\ AbleFirst(c, list) \in Seq(Entries) /\ IsInjective(AbleFirst(c, list))
        /\ Range(AbleFirst(c, list)) = Range(Augmented(c)) /\ AbleFirst(c, list) # <<>>
    BY <1>2, <1>6
  <2>2. QED
    BY <1>1, <1>7, <2>1
<1>8. CASE /\ order' = [order EXCEPT ![r] = AbleFirst(c, Rotated(list))]
           /\ NextUse(Len(list))
           /\ leads' = [leads EXCEPT ![Rotated(list)[1]] = @ + 1]
           /\ adapted' = (adapted \/ list # OwnEntries)
  <2>1. /\ AbleFirst(c, Rotated(list)) \in Seq(Entries)
        /\ IsInjective(AbleFirst(c, Rotated(list)))
        /\ Range(AbleFirst(c, Rotated(list))) = Range(Augmented(c))
        /\ AbleFirst(c, Rotated(list)) # <<>>
    BY <1>4, <1>6
  <2>2. leads' = [leads EXCEPT ![list[(index % Len(list)) + 1]] = @ + 1]
    BY <1>4, <1>8
  <2>3. QED
    BY <1>1, <1>8, <2>1, <2>2
<1>9. QED
  BY <1>1, <1>7, <1>8

\* The rotation stays within the longest list and the turn within the limit.
LEMMA RotationType ==
    ASSUME TypeOK, NEW c, NextUse(Len(Augmented(c)))
    PROVE  /\ index' \in 0..(Len(Combo) + Len(Adapters) - 1)
           /\ useCount' \in 0..(Limit - 1)
<1> DEFINE len == Len(Augmented(c))
           longest == Len(Combo) + Len(Adapters)
<1>1. len \in Nat \ {0} /\ len <= longest /\ longest \in Nat
  <2>1. /\ Augmented(c) \in Seq(Entries) /\ Augmented(c) # <<>>
        /\ len <= longest
    BY AugmentedElements
  <2>2. len \in Nat \ {0}
    BY <2>1, EmptySeq
  <2>3. longest \in Nat
    BY EntryLists
  <2>4. QED
    BY <2>1, <2>2, <2>3
<1>2. /\ index \in 0..(longest - 1) /\ useCount \in 0..(Limit - 1)
      /\ IF useCount + 1 >= Limit
         THEN index' = ((index % len) + 1) % len /\ useCount' = 0
         ELSE index' = index /\ useCount' = useCount + 1
  BY DEF TypeOK, NextUse
<1>3. Limit \in Nat \ {0}
  BY LimitType
<1> HIDE DEF len, longest
<1>4. CASE useCount + 1 >= Limit
  <2>1. (index % len) + 1 \in Nat
    BY <1>1, <1>2
  <2>2. ((index % len) + 1) % len \in 0..(len - 1)
    BY <1>1, <2>1
  <2>3. ((index % len) + 1) % len \in 0..(longest - 1)
    BY <1>1, <2>2
  <2>4. QED
    BY <1>2, <1>3, <1>4, <2>3 DEF longest
<1>5. CASE ~ (useCount + 1 >= Limit)
  BY <1>2, <1>3, <1>5 DEF longest
<1>6. QED
  BY <1>4, <1>5

LEMMA InitType == Init => TypeOK
<1>1. Len(Combo) + Len(Adapters) - 1 \in Nat
  BY EntryLists
<1>2. Limit - 1 \in Nat
  BY LimitType
<1>3. <<>> \in Seq(Entries) /\ <<>> \in Seq(Pieces)
  BY EmptySeq
<1>4. 0 \in 0..(Len(Combo) + Len(Adapters) - 1) /\ 0 \in 0..(Limit - 1)
  BY <1>1, <1>2
<1>5. SUFFICES ASSUME Init  PROVE TypeOK
  OBVIOUS
<1>6. index \in 0..(Len(Combo) + Len(Adapters) - 1) /\ useCount \in 0..(Limit - 1)
  BY <1>4, <1>5 DEF Init
<1>7. order \in [Requests -> Seq(Entries)] /\ body \in [Requests -> Seq(Pieces)]
  BY <1>3, <1>5 DEF Init
<1>8. /\ pc \in [Requests -> {"idle", "try", "done"}]
      /\ stream \in [Requests -> BOOLEAN]
      /\ content \in [Requests -> Contents]
      /\ status \in [Requests -> {0, 200, ModelError, 502}]
      /\ result \in [Requests -> {"none", "nil", "error"}]
      /\ leads \in [Entries -> Nat]
      /\ adapted \in BOOLEAN
      /\ tried \in [Requests -> SUBSET Entries]
  BY <1>5 DEF Init, NoStatus
<1>9. QED
  BY <1>6, <1>7, <1>8 DEF TypeOK

\* What an attempt with the next model needs and leaves
LEMMA NextModel ==
    ASSUME TypeOK, NEW r \in Requests, Try(r)
    PROVE  /\ Head(order[r]) \in Entries /\ Tail(order[r]) \in Seq(Entries)
           /\ tried' \in [Requests -> SUBSET Entries]
<1>1. order[r] \in Seq(Entries) /\ order[r] # <<>>
  BY DEF TypeOK, Try
<1>2. Head(order[r]) \in Entries /\ Tail(order[r]) \in Seq(Entries)
  BY <1>1, TailElements
<1>3. tried' \in [Requests -> SUBSET Entries]
  BY <1>2 DEF TypeOK, Try
<1>4. QED
  BY <1>2, <1>3

LEMMA WriteType ==
    ASSUME TypeOK, NEW r \in Requests, NEW s \in {0, 200, ModelError, 502}, NEW p \in Pieces,
           Write(r, s, p)
    PROVE  /\ status' \in [Requests -> {0, 200, ModelError, 502}]
           /\ body' \in [Requests -> Seq(Pieces)]
<1>1. status' \in [Requests -> {0, 200, ModelError, 502}]
  BY DEF TypeOK, Write
<1>2. body[r] \in Seq(Pieces)
  BY DEF TypeOK
<1>3. Append(body[r], p) \in Seq(Pieces)
  BY <1>2, AppendProperties
<1>4. QED
  BY <1>1, <1>3 DEF TypeOK, Write

LEMMA NextType == TypeOK /\ [Next]_vars => TypeOK'
<1> SUFFICES ASSUME TypeOK, [Next]_vars  PROVE TypeOK'
  OBVIOUS
<1>1. \A m \in Entries : AnswerOf(m) \in Pieces /\ ErrorOf(m) \in Pieces
  BY DEF AnswerOf, ErrorOf, Pieces
<1>2. AllModelsFailed \in Pieces
  BY DEF AllModelsFailed, ErrorOf, Pieces
<1>3. <<>> \in Seq(Entries) /\ <<>> \in Seq(Pieces)
  BY EmptySeq
<1>4. ASSUME NEW r \in Requests, Start(r)  PROVE TypeOK'
  <2>1. PICK c \in Contents, l \in Seq(Entries) :
              /\ content' = [content EXCEPT ![r] = c]
              /\ order' = [order EXCEPT ![r] = l]
              /\ \/ UNCHANGED rotation
                 \/ LET list == Augmented(c)
                    IN  /\ NextUse(Len(list))
                        /\ leads' = [leads EXCEPT ![list[(index % Len(list)) + 1]] = @ + 1]
                        /\ adapted' = (adapted \/ list # OwnEntries)
    BY <1>4, StartOrder
  <2>2. /\ content' \in [Requests -> Contents] /\ order' \in [Requests -> Seq(Entries)]
    BY <2>1 DEF TypeOK
  <2>3. /\ pc' \in [Requests -> {"idle", "try", "done"}]
        /\ stream' \in [Requests -> BOOLEAN]
        /\ status' \in [Requests -> {0, 200, ModelError, 502}]
        /\ body' \in [Requests -> Seq(Pieces)]
        /\ result' \in [Requests -> {"none", "nil", "error"}]
        /\ tried' \in [Requests -> SUBSET Entries]
    BY <1>3, <1>4 DEF TypeOK, Start, NoStatus
  <2>4. /\ index' \in 0..(Len(Combo) + Len(Adapters) - 1)
        /\ useCount' \in 0..(Limit - 1)
        /\ leads' \in [Entries -> Nat]
        /\ adapted' \in BOOLEAN
    <3>1. CASE UNCHANGED rotation
      BY <3>1 DEF TypeOK, rotation
    <3>2. CASE /\ NextUse(Len(Augmented(c)))
               /\ leads' = [leads EXCEPT ![Augmented(c)[(index % Len(Augmented(c))) + 1]] = @ + 1]
               /\ adapted' = (adapted \/ Augmented(c) # OwnEntries)
      <4> DEFINE m == Augmented(c)[(index % Len(Augmented(c))) + 1]
      <4>1. leads' \in [Entries -> Nat]
        <5>1. leads' = [leads EXCEPT ![m] = @ + 1]
          BY <3>2
        <5> HIDE DEF m
        <5>2. leads \in [Entries -> Nat] /\ leads' = [n \in Entries |-> leads'[n]]
          BY <5>1 DEF TypeOK
        <5>3. ASSUME NEW n \in Entries  PROVE leads'[n] \in Nat
          <6>1. CASE n = m
            BY <5>1, <5>2, <6>1
          <6>2. CASE n # m
            BY <5>1, <5>2, <6>2
          <6>3. QED
            BY <6>1, <6>2
        <5>4. QED
          BY <5>2, <5>3
      <4>2. adapted' \in BOOLEAN
        BY <3>2, Zenon DEF TypeOK
      <4>3. QED
        BY <3>2, <4>1, <4>2, RotationType
    <3>3. QED
      BY <2>1, <3>1, <3>2
  <2>5. QED
    BY <2>2, <2>3, <2>4 DEF TypeOK
<1>5. ASSUME NEW r \in Requests, ModelAnswers(r)  PROVE TypeOK'
  <2>1. /\ tried' \in [Requests -> SUBSET Entries] /\ Head(order[r]) \in Entries
    BY <1>5, NextModel DEF ModelAnswers
  <2>2. /\ status' \in [Requests -> {0, 200, ModelError, 502}]
        /\ body' \in [Requests -> Seq(Pieces)]
    <3> DEFINE s == IF stream[r] /\ r \in Captured THEN status[r] ELSE 200
    <3>1. s \in {0, 200, ModelError, 502}
      BY DEF TypeOK
    <3>2. Write(r, s, AnswerOf(Head(order[r])))
      BY <1>5 DEF ModelAnswers
    <3> HIDE DEF s
    <3>3. QED
      BY <1>1, <2>1, <3>1, <3>2, WriteType
  <2>3. QED
    BY <1>3, <1>5, <2>1, <2>2 DEF ModelAnswers, Return, TypeOK, rotation, request
<1>6. ASSUME NEW r \in Requests, ModelFailsSilently(r)  PROVE TypeOK'
  <2>1. tried' \in [Requests -> SUBSET Entries] /\ Tail(order[r]) \in Seq(Entries)
    BY <1>6, NextModel DEF ModelFailsSilently
  <2>2. QED
    BY <1>6, <2>1 DEF ModelFailsSilently, Skip, TypeOK, rotation, request
<1>7. ASSUME NEW r \in Requests, ModelFailsAloud(r)  PROVE TypeOK'
  <2>1. /\ tried' \in [Requests -> SUBSET Entries] /\ Head(order[r]) \in Entries
        /\ Tail(order[r]) \in Seq(Entries)
    BY <1>7, NextModel DEF ModelFailsAloud
  <2>2. /\ status' \in [Requests -> {0, 200, ModelError, 502}]
        /\ body' \in [Requests -> Seq(Pieces)]
    BY <1>1, <1>7, <2>1, WriteType DEF ModelFailsAloud
  <2>3. QED
    BY <1>7, <2>1, <2>2 DEF ModelFailsAloud, Skip, TypeOK, rotation, request
<1>8. ASSUME NEW r \in Requests, ModelHasNoAccount(r)  PROVE TypeOK'
  <2>1. /\ tried' \in [Requests -> SUBSET Entries] /\ Head(order[r]) \in Entries
    BY <1>8, NextModel DEF ModelHasNoAccount
  <2>2. /\ status' \in [Requests -> {0, 200, ModelError, 502}]
        /\ body' \in [Requests -> Seq(Pieces)]
    BY <1>1, <1>8, <2>1, WriteType DEF ModelHasNoAccount
  <2>3. QED
    BY <1>3, <1>8, <2>1, <2>2 DEF ModelHasNoAccount, Return, TypeOK, rotation, request
<1>9. ASSUME NEW r \in Requests, AllFailed(r)  PROVE TypeOK'
  <2>1. /\ status' \in [Requests -> {0, 200, ModelError, 502}]
        /\ body' \in [Requests -> Seq(Pieces)]
    BY <1>2, <1>9, WriteType DEF AllFailed
  <2>2. QED
    BY <1>3, <1>9, <2>1 DEF AllFailed, Return, TypeOK, rotation, request
<1>10. CASE UNCHANGED vars
  BY <1>10 DEF vars, rotation, request, TypeOK
<1>11. QED
  BY <1>4, <1>5, <1>6, <1>7, <1>8, <1>9, <1>10 DEF Next, Serve

(* Every variable keeps its type; above all the shared index stays within  *)
(* the longest list a request may have, and the turn within the limit,     *)
(* whatever lists the requests that move them had (GetRotatedModels).      *)
THEOREM TypeCorrect == Spec => []TypeOK
<1>. QED BY InitType, NextType, PTL DEF Spec

-----------------------------------------------------------------------------
(* One answer per response.                                                *)

(* With the types, OneAnswerAtMost is inductive.                           *)
IInv == TypeOK /\ OneAnswerAtMost

Response(r) == AnswerIsLast(r) /\ StreamIsWhole(r) /\ StatusTells(r)

LEMMA InitInv == Init => IInv
<1> SUFFICES ASSUME Init  PROVE IInv
  OBVIOUS
<1>1. ASSUME NEW r \in Requests  PROVE Response(r)
  <2>1. pc[r] = "idle" /\ body[r] = <<>> /\ status[r] = NoStatus(r)
    BY DEF Init
  <2>2. QED
    BY <2>1 DEF Response, AnswerIsLast, StreamIsWhole, StatusTells, Flushed, NoStatus
<1>2. QED
  BY <1>1, InitType DEF IInv, OneAnswerAtMost, Response

\* What a step of one request does not touch
LEMMA OneRequest ==
    ASSUME TypeOK, NEW r \in Requests, Start(r) \/ Serve(r), NEW q \in Requests \ {r}
    PROVE  /\ pc'[q] = pc[q] /\ stream'[q] = stream[q] /\ status'[q] = status[q]
           /\ body'[q] = body[q] /\ tried'[q] = tried[q]
<1>. USE DEF TypeOK, request
<1>1. CASE Start(r) BY <1>1 DEF Start
<1>2. CASE ModelAnswers(r) BY <1>2 DEF ModelAnswers, Try, Write, Return
<1>3. CASE ModelFailsSilently(r) BY <1>3 DEF ModelFailsSilently, Try, Skip
<1>4. CASE ModelFailsAloud(r) BY <1>4 DEF ModelFailsAloud, Try, Write, Skip
<1>5. CASE ModelHasNoAccount(r) BY <1>5 DEF ModelHasNoAccount, Try, Write, Return
<1>6. CASE AllFailed(r) BY <1>6 DEF AllFailed, Write, Return
<1>. QED BY <1>1, <1>2, <1>3, <1>4, <1>5, <1>6 DEF Serve

\* A piece appended to a response without an answer
LEMMA OnePiece ==
    ASSUME NEW q \in Seq(Pieces), NEW p \in Pieces,
           \A i \in DOMAIN q : q[i].what # "answer"
    PROVE  LET b == Append(q, p)
           IN  /\ \A i \in DOMAIN b : b[i].what = "answer" => i = Len(b) /\ p.what = "answer"
               /\ Last(b) = p
               /\ q = <<>> => b = <<p>>
<1> DEFINE b == Append(q, p)
<1>1. /\ Len(q) \in Nat /\ DOMAIN q = 1..Len(q)
      /\ Len(b) = Len(q) + 1 /\ DOMAIN b = 1..(Len(q) + 1)
      /\ \A i \in 1..Len(q) : b[i] = q[i]
      /\ b[Len(q) + 1] = p
  BY AppendProperties, LenProperties
<1>2. q = <<>> => b = <<p>>
  OBVIOUS
<1> HIDE DEF b
<1>3. ASSUME NEW i \in DOMAIN b, b[i].what = "answer"  PROVE i = Len(b) /\ p.what = "answer"
  <2>1. i \notin 1..Len(q)
    BY <1>1, <1>3
  <2>2. i = Len(q) + 1
    BY <1>1, <2>1
  <2>3. QED
    BY <1>1, <1>3, <2>2
<1>4. Last(b) = p
  BY <1>1 DEF Last
<1>5. QED
  BY <1>2, <1>3, <1>4 DEF b

\* What a step writes
Writes(r, s, p) ==
    /\ status'[r] = (IF r \in Captured \/ status[r] = 0 THEN s ELSE status[r])
    /\ body'[r] = Append(body[r], p)

LEMMA WritesOne ==
    ASSUME TypeOK, NEW r \in Requests, NEW s, NEW p, Write(r, s, p)
    PROVE  Writes(r, s, p)
BY DEF TypeOK, Write, Writes

\* An error that another model may follow
LEMMA ErrorBetween ==
    ASSUME IInv, NEW r \in Requests, pc[r] = "try", pc'[r] = "try", ~ Flushed(r),
           stream'[r] = stream[r], NEW s, NEW p \in Pieces, p.what = "error", Writes(r, s, p)
    PROVE  Response(r)'
<1>1. body[r] \in Seq(Pieces) /\ \A i \in DOMAIN body[r] : body[r][i].what # "answer"
  BY DEF IInv, TypeOK, OneAnswerAtMost, AnswerIsLast
<1>2. AnswerIsLast(r)'
  BY <1>1, OnePiece DEF AnswerIsLast, Writes
<1>3. StreamIsWhole(r)' /\ StatusTells(r)'
  BY DEF StreamIsWhole, StatusTells, Flushed
<1>4. QED
  BY <1>2, <1>3 DEF Response

\* A piece that ends the response
LEMMA LastOfAll ==
    ASSUME IInv, NEW r \in Requests, pc[r] = "try", pc'[r] = "done", stream'[r] = stream[r],
           NEW s, NEW p \in Pieces, Writes(r, s, p),
           Flushed(r) => \/ s = 200 /\ \E e \in tried'[r] : p = AnswerOf(e)
                         \/ s = 502 /\ p = AllModelsFailed,
           r \in Captured /\ ~ stream[r] => (s = 200 <=> p.what = "answer")
    PROVE  Response(r)'
<1>1. body[r] \in Seq(Pieces) /\ \A i \in DOMAIN body[r] : body[r][i].what # "answer"
  BY DEF IInv, TypeOK, OneAnswerAtMost, AnswerIsLast
<1>2. /\ \A i \in DOMAIN body'[r] : body'[r][i].what = "answer" => i = Len(body'[r])
      /\ Last(body'[r]) = p
      /\ body[r] = <<>> => body'[r] = <<p>>
  BY <1>1, OnePiece DEF Writes
<1>3. AnswerIsLast(r)'
  BY <1>2 DEF AnswerIsLast
<1>4. StreamIsWhole(r)'
  <2>1. SUFFICES ASSUME Flushed(r)
                 PROVE  \/ status'[r] = 200 /\ \E e \in tried'[r] : body'[r] = <<AnswerOf(e)>>
                        \/ status'[r] = 502 /\ body'[r] = <<AllModelsFailed>>
    BY DEF StreamIsWhole, Flushed
  <2>2. body[r] = <<>> /\ status[r] = 0
    BY <2>1 DEF IInv, OneAnswerAtMost, StreamIsWhole
  <2>3. body'[r] = <<p>> /\ status'[r] = s
    BY <1>2, <2>2 DEF Writes
  <2>4. QED
    BY <2>1, <2>3
<1>5. StatusTells(r)'
  BY <1>2 DEF StatusTells, Writes
<1>6. QED
  BY <1>3, <1>4, <1>5 DEF Response

\* What a step makes of the response it writes
LEMMA StepAnswer ==
    ASSUME IInv, NEW r \in Requests, Start(r) \/ Serve(r)
    PROVE  Response(r)'
<1>1. TypeOK /\ Response(r)
  BY DEF IInv, OneAnswerAtMost, Response
<1>2. /\ \A e \in Entries : /\ AnswerOf(e) \in Pieces /\ AnswerOf(e).what = "answer"
                            /\ ErrorOf(e) \in Pieces /\ ErrorOf(e).what = "error"
      /\ AllModelsFailed \in Pieces /\ AllModelsFailed.what = "error"
  BY DEF AnswerOf, ErrorOf, AllModelsFailed, Pieces
<1>3. CASE Start(r)
  <2>1. pc'[r] = "try" /\ body'[r] = <<>> /\ status'[r] = NoStatus(r)
    BY <1>1, <1>3 DEF Start, TypeOK
  <2>2. QED
    BY <2>1 DEF Response, AnswerIsLast, StreamIsWhole, StatusTells, Flushed, NoStatus
<1>4. CASE ModelAnswers(r)
  <2> DEFINE e == Head(order[r])
             s == IF stream[r] /\ r \in Captured THEN status[r] ELSE 200
  <2>1. e \in Entries
    BY <1>1, <1>4, NextModel DEF ModelAnswers
  <2>2. Writes(r, s, AnswerOf(e))
    BY <1>1, <1>4, WritesOne DEF ModelAnswers
  <2>3. /\ pc[r] = "try" /\ pc'[r] = "done" /\ stream'[r] = stream[r]
        /\ e \in tried'[r]
    BY <1>1, <1>4 DEF ModelAnswers, Try, Return, TypeOK, request
  <2>4. /\ Flushed(r) => s = 200
        /\ r \in Captured /\ ~ stream[r] => s = 200
    BY DEF Flushed
  <2> HIDE DEF e, s
  <2>5. QED
    BY <1>2, <2>1, <2>2, <2>3, <2>4, LastOfAll
<1>5. CASE ModelFailsSilently(r)
  <2>1. /\ pc[r] = "try" /\ pc'[r] = pc[r] /\ stream'[r] = stream[r]
        /\ body'[r] = body[r] /\ status'[r] = status[r]
    BY <1>5 DEF ModelFailsSilently, Try, Skip, request
  <2>2. QED
    BY <1>1, <2>1 DEF Response, AnswerIsLast, StreamIsWhole, StatusTells, Flushed
<1>6. CASE ModelFailsAloud(r)
  <2> DEFINE e == Head(order[r])
  <2>1. e \in Entries
    BY <1>1, <1>6, NextModel DEF ModelFailsAloud
  <2>2. Writes(r, ModelError, ErrorOf(e))
    BY <1>1, <1>6, WritesOne DEF ModelFailsAloud
  <2>3. pc[r] = "try" /\ pc'[r] = "try" /\ stream'[r] = stream[r] /\ ~ Flushed(r)
    BY <1>6 DEF ModelFailsAloud, Try, Skip, request
  <2> HIDE DEF e
  <2>4. QED
    BY <1>2, <2>1, <2>2, <2>3, ErrorBetween
<1>7. CASE ModelHasNoAccount(r)
  <2> DEFINE e == Head(order[r])
  <2>1. e \in Entries
    BY <1>1, <1>7, NextModel DEF ModelHasNoAccount
  <2>2. Writes(r, ModelError, ErrorOf(e))
    BY <1>1, <1>7, WritesOne DEF ModelHasNoAccount
  <2>3. pc[r] = "try" /\ pc'[r] = "done" /\ stream'[r] = stream[r] /\ ~ Flushed(r)
    BY <1>1, <1>7 DEF ModelHasNoAccount, Try, Return, TypeOK, request
  <2>4. ModelError # 200
    BY DEF ModelError
  <2> HIDE DEF e
  <2>5. QED
    BY <1>2, <2>1, <2>2, <2>3, <2>4, LastOfAll
<1>8. CASE AllFailed(r)
  <2>1. Writes(r, 502, AllModelsFailed)
    BY <1>1, <1>8, WritesOne DEF AllFailed
  <2>2. pc[r] = "try" /\ pc'[r] = "done" /\ stream'[r] = stream[r]
    BY <1>1, <1>8 DEF AllFailed, Return, TypeOK, request
  <2>3. QED
    BY <1>2, <2>1, <2>2, LastOfAll
<1>9. QED
  BY <1>3, <1>4, <1>5, <1>6, <1>7, <1>8 DEF Serve

LEMMA NextInv == IInv /\ [Next]_vars => IInv'
<1> SUFFICES ASSUME IInv, [Next]_vars  PROVE IInv'
  OBVIOUS
<1>1. TypeOK'
  BY NextType DEF IInv
<1>2. \A r \in Requests : Response(r)
  BY DEF IInv, OneAnswerAtMost, Response
<1>3. ASSUME NEW r \in Requests, Start(r) \/ Serve(r), NEW q \in Requests  PROVE Response(q)'
  <2>1. CASE q = r
    BY <1>3, <2>1, StepAnswer
  <2>2. CASE q # r
    <3>1. /\ pc'[q] = pc[q] /\ stream'[q] = stream[q] /\ status'[q] = status[q]
          /\ body'[q] = body[q] /\ tried'[q] = tried[q]
      BY <1>3, <2>2, OneRequest DEF IInv
    <3>2. QED
      BY <1>2, <3>1 DEF Response, AnswerIsLast, StreamIsWhole, StatusTells, Flushed
  <2>3. QED
    BY <2>1, <2>2
<1>4. ASSUME UNCHANGED vars, NEW q \in Requests  PROVE Response(q)'
  BY <1>2, <1>4 DEF vars, request, Response, AnswerIsLast, StreamIsWhole, StatusTells, Flushed
<1>5. \A q \in Requests : Response(q)'
  BY <1>3, <1>4 DEF Next
<1>6. QED
  BY <1>1, <1>5 DEF IInv, OneAnswerAtMost, Response

(* In any response an answer is the last piece, a stream on a live writer  *)
(* is one piece, and a captured response has the status of its end,        *)
(* whatever fails before and in whatever way (streamModel,                 *)
(* handleWithFallback, captureWriter).                                     *)
THEOREM OneAnswer == Spec => []OneAnswerAtMost
<1>1. IInv => OneAnswerAtMost BY DEF IInv
<1>. QED BY <1>1, InitInv, NextInv, PTL DEF Spec

-----------------------------------------------------------------------------
(* The loop over a request's list.                                         *)

(* While the loop runs, the entries it tried and those it has still to try *)
(* are, without overlap, those of the list of the capacity adapter.        *)
Loop(r) ==
    /\ IsInjective(order[r]) /\ Range(order[r]) \cap tried[r] = {}
    /\ pc[r] = "try" => /\ Range(order[r]) \cup tried[r] = Range(Augmented(content[r]))
                        /\ result[r] = "none"
    /\ result[r] = "error" => tried[r] = Range(Augmented(content[r]))

LInv == TypeOK /\ \A r \in Requests : Loop(r)

\* One attempt moves the first entry of the list to those tried.
LEMMA Attempt ==
    ASSUME LInv, NEW r \in Requests, Try(r)
    PROVE  LET m == Head(order[r])
               rest == Tail(order[r])
           IN  /\ pc[r] = "try" /\ m \in Entries /\ rest \in Seq(Entries)
               /\ m \in Range(order[r]) /\ Range(rest) = Range(order[r]) \ {m}
               /\ IsInjective(rest)
               /\ tried' = [tried EXCEPT ![r] = @ \cup {m}]
               /\ Range(rest) \cap (tried[r] \cup {m}) = {}
               /\ Range(rest) \cup (tried[r] \cup {m}) = Range(Augmented(content[r]))
<1> DEFINE m == Head(order[r])
           rest == Tail(order[r])
<1>1. /\ order[r] \in Seq(Entries) /\ order[r] # <<>> /\ pc[r] = "try"
      /\ tried' = [tried EXCEPT ![r] = @ \cup {m}]
  BY DEF LInv, TypeOK, Try
<1>2. /\ IsInjective(order[r]) /\ Range(order[r]) \cap tried[r] = {}
      /\ Range(order[r]) \cup tried[r] = Range(Augmented(content[r]))
  BY <1>1 DEF LInv, Loop
<1>3. /\ m \in Entries /\ rest \in Seq(Entries)
      /\ Range(order[r]) = Range(rest) \cup {m}
      /\ IsInjective(rest) /\ m \notin Range(rest)
  BY <1>1, <1>2, TailElements
<1> HIDE DEF m, rest
<1>4. QED
  BY <1>1, <1>2, <1>3 DEF m, rest

\* What a step of one request does not touch of the loops of the others
LEMMA OneLoop ==
    ASSUME TypeOK, NEW r \in Requests, Start(r) \/ Serve(r)
    PROVE  \A q \in Requests \ {r} :
                /\ pc'[q] = pc[q] /\ order'[q] = order[q] /\ tried'[q] = tried[q]
                /\ result'[q] = result[q] /\ content'[q] = content[q] /\ body'[q] = body[q]
<1> USE DEF TypeOK, request
<1>1. CASE Start(r)
  <2>1. /\ pc' = [pc EXCEPT ![r] = "try"] /\ body' = [body EXCEPT ![r] = <<>>]
        /\ result' = [result EXCEPT ![r] = "none"] /\ tried' = [tried EXCEPT ![r] = {}]
    BY <1>1 DEF Start
  <2>2. PICK c, l : /\ content' = [content EXCEPT ![r] = c]
                    /\ order' = [order EXCEPT ![r] = l]
    BY <1>1, StartOrder
  <2>3. QED
    BY <2>1, <2>2
<1>2. CASE ModelAnswers(r)
  BY <1>2 DEF ModelAnswers, Try, Write, Return
<1>3. CASE ModelFailsSilently(r)
  BY <1>3 DEF ModelFailsSilently, Try, Skip
<1>4. CASE ModelFailsAloud(r)
  BY <1>4 DEF ModelFailsAloud, Try, Write, Skip
<1>5. CASE ModelHasNoAccount(r)
  BY <1>5 DEF ModelHasNoAccount, Try, Write, Return
<1>6. CASE AllFailed(r)
  BY <1>6 DEF AllFailed, Write, Return
<1>7. QED
  BY <1>1, <1>2, <1>3, <1>4, <1>5, <1>6 DEF Serve

LEMMA EmptyList == IsInjective(<<>>) /\ Range(<<>>) = {}
BY DEF IsInjective, Range

LEMMA StepLoop ==
    ASSUME LInv, NEW r \in Requests, Start(r) \/ Serve(r)
    PROVE  Loop(r)'
<1> USE DEF request
<1>1. TypeOK /\ Loop(r)
  BY DEF LInv
<1>2. CASE Start(r)
  <2>1. PICK c \in Contents, l \in Seq(Entries) :
              /\ content' = [content EXCEPT ![r] = c]
              /\ order' = [order EXCEPT ![r] = l]
              /\ IsInjective(l) /\ Range(l) = Range(Augmented(c))
    BY <1>1, <1>2, StartOrder
  <2>2. tried'[r] = {} /\ result'[r] = "none" /\ order'[r] = l /\ content'[r] = c
    BY <1>1, <1>2, <2>1 DEF Start, TypeOK
  <2>3. QED
    BY <2>1, <2>2 DEF Loop
<1>3. CASE Try(r) /\ Skip(r) /\ UNCHANGED request
  <2> DEFINE m == Head(order[r])
             rest == Tail(order[r])
  <2>1. /\ pc[r] = "try" /\ IsInjective(rest)
        /\ Range(rest) \cap (tried[r] \cup {m}) = {}
        /\ Range(rest) \cup (tried[r] \cup {m}) = Range(Augmented(content[r]))
    BY <1>3, Attempt
  <2>2. /\ order'[r] = rest /\ tried'[r] = tried[r] \cup {m} /\ pc'[r] = pc[r]
        /\ result'[r] = result[r] /\ content'[r] = content[r]
    BY <1>1, <1>3 DEF Skip, Try, TypeOK
  <2>3. result[r] = "none"
    BY <1>1, <2>1 DEF Loop
  <2> HIDE DEF m, rest
  <2>4. QED
    BY <2>1, <2>2, <2>3 DEF Loop
<1>4. CASE Return(r, "nil")
  <2>1. order'[r] = <<>> /\ pc'[r] = "done" /\ result'[r] = "nil"
    BY <1>1, <1>4 DEF Return, TypeOK
  <2>2. QED
    BY <2>1, EmptyList DEF Loop
<1>5. CASE AllFailed(r)
  <2>1. /\ order'[r] = <<>> /\ pc'[r] = "done" /\ pc[r] = "try" /\ order[r] = <<>>
        /\ tried'[r] = tried[r] /\ content'[r] = content[r]
    BY <1>1, <1>5 DEF AllFailed, Return, TypeOK
  <2>2. tried[r] = Range(Augmented(content[r]))
    BY <1>1, <2>1, EmptyList DEF Loop
  <2>3. QED
    BY <2>1, <2>2, EmptyList DEF Loop
<1>6. QED
  BY <1>2, <1>3, <1>4, <1>5
  DEF Serve, ModelAnswers, ModelFailsSilently, ModelFailsAloud, ModelHasNoAccount

LEMMA InitLoop == Init => LInv
<1>1. ASSUME Init, NEW r \in Requests  PROVE Loop(r)
  <2>1. order[r] = <<>> /\ tried[r] = {} /\ pc[r] = "idle" /\ result[r] = "none"
    BY <1>1 DEF Init
  <2>2. QED
    BY <2>1, EmptyList DEF Loop
<1>2. QED
  BY <1>1, InitType DEF LInv

LEMMA NextLoop == LInv /\ [Next]_vars => LInv'
<1> SUFFICES ASSUME LInv, [Next]_vars  PROVE LInv'
  OBVIOUS
<1>1. TypeOK'
  BY NextType DEF LInv
<1>2. ASSUME NEW r \in Requests, Start(r) \/ Serve(r), NEW q \in Requests  PROVE Loop(q)'
  <2>1. CASE q = r
    BY <1>2, <2>1, StepLoop
  <2>2. CASE q # r
    <3>1. Loop(q)
      BY DEF LInv
    <3>2. /\ pc'[q] = pc[q] /\ order'[q] = order[q] /\ tried'[q] = tried[q]
          /\ result'[q] = result[q] /\ content'[q] = content[q]
      BY <1>2, <2>2, OneLoop DEF LInv
    <3>3. QED
      BY <3>1, <3>2 DEF Loop
  <2>3. QED
    BY <2>1, <2>2
<1>3. CASE UNCHANGED vars
  <2>1. \A r \in Requests : Loop(r)
    BY DEF LInv
  <2>2. QED
    BY <1>1, <1>3, <2>1 DEF vars, request, LInv, Loop
<1>4. QED
  BY <1>1, <1>2, <1>3 DEF Next, LInv

(* No entry is tried twice for a request and none is left out before the   *)
(* combo gives up, for any list and however the rotation and the           *)
(* reordering shuffled it (runSequential).                                 *)
THEOREM EachModelOnce == Spec => []TriesEachOnce
<1>1. LInv => TriesEachOnce
  BY DEF LInv, Loop, TriesEachOnce
<1>. QED BY <1>1, InitLoop, NextLoop, PTL DEF Spec

-----------------------------------------------------------------------------
(* The hand-over of the rotation.                                          *)

\* Whole turns: multiples of the limit
Turns(b) == \E q \in Nat : b = Limit * q

LEMMA TurnsFacts ==
    /\ Turns(0)
    /\ \A b \in Nat : Turns(b) => Turns(b + Limit)
    /\ \A b \in Nat, u \in 0..(Limit - 1) : Turns(b) => (b + u) % Limit = u
<1> DEFINE L == Limit
<1>1. L \in Nat \ {0}
  BY LimitType
<1> HIDE DEF L
<1>2. L * 0 = 0
  BY <1>1
<1>3. ASSUME NEW b \in Nat, NEW q \in Nat, b = L * q  PROVE b + L = L * (q + 1)
  BY <1>1, <1>3
<1>4. ASSUME NEW q \in Nat, NEW u \in 0..(L - 1)  PROVE (L * q + u) % L = u
  BY <1>1
<1>5. ASSUME NEW b \in Nat, Turns(b)  PROVE Turns(b + Limit)
  <2>1. PICK q \in Nat : b = L * q
    BY <1>5 DEF Turns, L
  <2>2. b + L = L * (q + 1) /\ q + 1 \in Nat
    BY <1>3, <2>1
  <2>3. QED
    BY <2>2 DEF Turns, L
<1>6. ASSUME NEW b \in Nat, NEW u \in 0..(L - 1), Turns(b)  PROVE (b + u) % L = u
  <2>1. PICK q \in Nat : b = L * q
    BY <1>6 DEF Turns, L
  <2>2. QED
    BY <1>4, <2>1
<1>7. Turns(0)
  BY <1>2 DEF Turns, L
<1>8. QED
  BY <1>5, <1>6, <1>7 DEF L

\* The share of the i-th entry after b whole turns of each and some of another
Share(b, i) ==
    IF i <= index THEN b + Limit ELSE IF i = index + 1 THEN b + useCount ELSE b

(* While the combo serves every request itself, the entries before the one *)
(* at the index have had one turn more than those after it.                *)
InTurn ==
    ~ adapted =>
        /\ index < Len(Combo)
        /\ \E b \in Nat : Turns(b) /\ \A i \in 1..Len(Combo) : leads[i] = Share(b, i)

FInv == TypeOK /\ InTurn

LEMMA InitTurn == Init => FInv
<1>1. SUFFICES ASSUME Init  PROVE FInv
  OBVIOUS
<1>2. index = 0 /\ useCount = 0 /\ \A m \in Entries : leads[m] = 0
  BY <1>1 DEF Init
<1>3. ASSUME NEW i \in 1..Len(Combo)  PROVE leads[i] = Share(0, i)
  <2>1. leads[i] = 0
    BY <1>2, EntryLists
  <2>2. Share(0, i) = 0
    BY <1>2, EntryLists DEF Share
  <2>3. QED
    BY <2>1, <2>2
<1>4. QED
  BY <1>1, <1>2, <1>3, InitType, TurnsFacts, EntryLists DEF FInv, InTurn

\* The rotation moves on in a request for which the combo was enough.
LEMMA NextTurn ==
    ASSUME FInv, ~ adapted, NextUse(Len(Combo)),
           leads' = [leads EXCEPT ![(index % Len(Combo)) + 1] = @ + 1]
    PROVE  /\ index' < Len(Combo)
           /\ \E b \in Nat : Turns(b) /\ \A i \in 1..Len(Combo) : leads'[i] = Share(b, i)'
<1> DEFINE n == Len(Combo)
           L == Limit
<1>1. n \in Nat \ {0} /\ L \in Nat \ {0}
  BY EntryLists, LimitType
<1>2. index \in Nat /\ index < n /\ useCount \in 0..(L - 1) /\ leads \in [Entries -> Nat]
  BY EntryLists DEF FInv, TypeOK, InTurn
<1>3. PICK b \in Nat : Turns(b) /\ \A i \in 1..n : leads[i] = Share(b, i)
  BY DEF FInv, InTurn
<1>4. index % n = index
  BY <1>1, <1>2
<1>5. IF useCount + 1 >= L
      THEN index' = (index + 1) % n /\ useCount' = 0
      ELSE index' = index /\ useCount' = useCount + 1
  BY <1>4 DEF NextUse
<1>6. ASSUME NEW i \in 1..n
      PROVE  leads'[i] = IF i = index + 1 THEN leads[i] + 1 ELSE leads[i]
  <2>1. index + 1 \in 1..n
    BY <1>1, <1>2
  <2>2. i \in Entries
    BY EntryLists
  <2>3. leads' = [leads EXCEPT ![index + 1] = @ + 1]
    BY <1>4
  <2>4. QED
    BY <1>2, <2>2, <2>3
<1> HIDE DEF n, L
<1>7. ASSUME NEW i \in 1..n
      PROVE  leads'[i] = IF i <= index THEN b + L
                                ELSE IF i = index + 1 THEN b + useCount + 1 ELSE b
  BY <1>1, <1>2, <1>3, <1>6 DEF Share, L
<1>8. CASE ~ (useCount + 1 >= L)
  <2>1. index' = index /\ useCount' = useCount + 1
    BY <1>5, <1>8
  <2>2. ASSUME NEW i \in 1..n  PROVE leads'[i] = Share(b, i)'
    BY <1>1, <1>2, <1>7, <2>1 DEF Share, L
  <2>3. QED
    BY <1>2, <1>3, <2>1, <2>2 DEF n
<1>9. CASE useCount + 1 >= L /\ index + 1 < n
  <2>1. index' = index + 1 /\ useCount' = 0 /\ useCount + 1 = L
    <3>1. (index + 1) % n = index + 1
      BY <1>1, <1>2, <1>9
    <3>2. QED
      BY <1>1, <1>2, <1>5, <1>9, <3>1
  <2>2. ASSUME NEW i \in 1..n  PROVE leads'[i] = Share(b, i)'
    BY <1>1, <1>2, <1>7, <2>1 DEF Share, L
  <2>3. QED
    BY <1>3, <1>9, <2>1, <2>2 DEF n
<1>10. CASE useCount + 1 >= L /\ ~ (index + 1 < n)
  <2>1. index' = 0 /\ useCount' = 0 /\ useCount + 1 = L
    <3>1. index + 1 = n
      BY <1>1, <1>2, <1>10
    <3>2. (index + 1) % n = 0
      BY <1>1, <3>1
    <3>3. QED
      BY <1>1, <1>2, <1>5, <1>10, <3>2
  <2>2. ASSUME NEW i \in 1..n  PROVE leads'[i] = Share(b + L, i)'
    BY <1>1, <1>2, <1>7, <1>10, <2>1 DEF Share, L
  <2>3. Turns(b + L) /\ b + L \in Nat
    BY <1>1, <1>3, TurnsFacts DEF L
  <2>4. QED
    BY <1>1, <2>1, <2>2, <2>3 DEF n
<1>11. QED
  BY <1>8, <1>9, <1>10

LEMMA NextFair == FInv /\ [Next]_vars => FInv'
<1> SUFFICES ASSUME FInv, [Next]_vars  PROVE FInv'
  OBVIOUS
<1>1. TypeOK'
  BY NextType DEF FInv
<1>2. CASE UNCHANGED rotation
  BY <1>1, <1>2 DEF FInv, InTurn, Share, rotation
<1>3. ASSUME NEW r \in Requests, Start(r)  PROVE InTurn'
  <2>1. PICK c \in Contents :
            \/ UNCHANGED rotation
            \/ LET list == Augmented(c)
               IN  /\ NextUse(Len(list))
                   /\ leads' = [leads EXCEPT ![list[(index % Len(list)) + 1]] = @ + 1]
                   /\ adapted' = (adapted \/ list # OwnEntries)
    BY <1>3, StartOrder DEF FInv
  <2>2. CASE UNCHANGED rotation
    BY <1>2, <2>2 DEF FInv
  <2>3. CASE /\ NextUse(Len(Augmented(c)))
             /\ leads' = [leads EXCEPT ![Augmented(c)[(index % Len(Augmented(c))) + 1]] = @ + 1]
             /\ adapted' = (adapted \/ Augmented(c) # OwnEntries)
    <3>1. SUFFICES ASSUME ~ adapted'
                   PROVE  /\ index' < Len(Combo)
                          /\ \E b \in Nat : /\ Turns(b)
                                            /\ \A i \in 1..Len(Combo) :
                                                    leads'[i] = Share(b, i)'
      BY DEF InTurn, Turns
    <3>2. ~ adapted /\ Augmented(c) = OwnEntries
      BY <2>3, <3>1
    <3>3. /\ Len(OwnEntries) = Len(Combo)
          /\ OwnEntries[(index % Len(Combo)) + 1] = (index % Len(Combo)) + 1
      <4>1. (index % Len(Combo)) + 1 \in 1..Len(Combo)
        <5>1. Len(Combo) \in Nat \ {0} /\ index \in Nat
          BY EntryLists DEF FInv, TypeOK
        <5>2. QED
          BY <5>1
      <4>2. QED
        BY <4>1, EntryLists
    <3>4. QED
      BY <2>3, <3>2, <3>3, NextTurn
  <2>4. QED
    BY <2>1, <2>2, <2>3
<1>4. ASSUME NEW r \in Requests, Serve(r)  PROVE UNCHANGED rotation
  BY <1>4 DEF Serve, ModelAnswers, ModelFailsSilently, ModelFailsAloud, ModelHasNoAccount, AllFailed
<1>5. CASE UNCHANGED vars
  BY <1>2, <1>5 DEF vars
<1>6. QED
  BY <1>1, <1>2, <1>3, <1>4, <1>5 DEF FInv, Next

LEMMA TurnsAreFair == FInv => FairLeads
<1> SUFFICES ASSUME FInv, ~ adapted
             PROVE  /\ \A i, k \in 1..Len(Combo) : leads[i] - leads[k] <= Limit
                    /\ \A i \in 1..Len(Combo) :
                          leads[i] % Limit = (IF i = index + 1 THEN useCount ELSE 0)
  BY DEF FairLeads
<1>1. /\ Limit \in Nat \ {0} /\ useCount \in 0..(Limit - 1)
      /\ index \in Nat /\ index < Len(Combo)
  BY LimitType, EntryLists DEF FInv, TypeOK, InTurn
<1>2. PICK b \in Nat : Turns(b) /\ \A i \in 1..Len(Combo) : leads[i] = Share(b, i)
  BY DEF FInv, InTurn
<1>3. ASSUME NEW i \in 1..Len(Combo)
      PROVE  /\ leads[i] \in b..(b + Limit)
             /\ leads[i] % Limit = (IF i = index + 1 THEN useCount ELSE 0)
  <2>1. leads[i] = Share(b, i)
    BY <1>2
  <2>2. i \in Nat /\ Share(b, i) \in b..(b + Limit)
    BY <1>1, EntryLists DEF Share
  <2>3. (b + 0) % Limit = 0 /\ (b + useCount) % Limit = useCount
    <3>1. 0 \in 0..(Limit - 1)
      BY <1>1
    <3>2. QED
      BY <1>1, <1>2, <3>1, TurnsFacts
  <2>4. ((b + Limit) + 0) % Limit = 0
    <3>1. Turns(b + Limit) /\ b + Limit \in Nat /\ 0 \in 0..(Limit - 1)
      BY <1>1, <1>2, TurnsFacts
    <3>2. QED
      BY <3>1, TurnsFacts
  <2>5. b + 0 = b /\ (b + Limit) + 0 = b + Limit
    BY <1>1
  <2>6. b % Limit = 0 /\ (b + Limit) % Limit = 0
    BY <2>3, <2>4, <2>5
  <2>7. Share(b, i) % Limit = (IF i = index + 1 THEN useCount ELSE 0)
    <3>1. CASE i <= index
      <4>1. Share(b, i) = b + Limit /\ i # index + 1
        BY <1>1, <2>2, <3>1 DEF Share
      <4>2. QED
        BY <2>6, <4>1
    <3>2. CASE i = index + 1
      <4>1. Share(b, i) = b + useCount
        BY <1>1, <3>2 DEF Share
      <4>2. QED
        BY <2>3, <3>2, <4>1
    <3>3. CASE ~ (i <= index) /\ i # index + 1
      <4>1. Share(b, i) = b
        BY <3>3 DEF Share
      <4>2. QED
        BY <2>6, <3>3, <4>1
    <3>4. QED
      BY <3>1, <3>2, <3>3
  <2>8. QED
    BY <2>1, <2>2, <2>7
<1>4. ASSUME NEW i \in 1..Len(Combo), NEW k \in 1..Len(Combo)  PROVE leads[i] - leads[k] <= Limit
  BY <1>1, <1>3
<1>5. QED
  BY <1>3, <1>4

(* As long as the combo serves its requests itself, its entries' shares    *)
(* never differ by more than one turn and only the turn in progress is     *)
(* incomplete, for any combo and any limit (GetRotatedModels).             *)
THEOREM FairTurns == Spec => []FairLeads
<1>. QED BY InitTurn, NextFair, TurnsAreFair, PTL DEF Spec

-----------------------------------------------------------------------------
(* The contract.                                                           *)

phases == [r \in Requests |-> IF pc[r] = "try" THEN "open" ELSE pc[r]]
lefts == [r \in Requests |-> Range(order[r])]
enders == [r \in Requests |-> IF pc[r] = "done" THEN Last(body[r]).from ELSE NoEntry]

LEMMA LastPiece ==
    ASSUME NEW s \in Seq(Pieces), NEW p
    PROVE  Last(Append(s, p)) = p
BY LenProperties DEF Last

LEMMA ContractInit == Init => Contract!Init
<1> SUFFICES ASSUME Init  PROVE Contract!Init
  OBVIOUS
<1>1. \A r \in Requests : pc[r] = "idle" /\ Range(order[r]) = {}
  BY EmptyList DEF Init
<1>2. QED
  BY <1>1 DEF Contract!Init

\* What a step makes of the three functions, given what it does at its request
LEMMA Override ==
    ASSUME NEW r \in Requests, NEW f, NEW g, f = [q \in Requests |-> f[q]],
           g = [q \in Requests |-> g[q]], NEW v, g[r] = v,
           \A q \in Requests \ {r} : g[q] = f[q]
    PROVE  g = [f EXCEPT ![r] = v]
OBVIOUS

LEMMA StepMaps ==
    ASSUME TypeOK, NEW r \in Requests, Start(r) \/ Serve(r), NEW p, NEW l, NEW e,
           phases'[r] = p, lefts'[r] = l, enders'[r] = e
    PROVE  /\ phases' = [phases EXCEPT ![r] = p]
           /\ lefts' = [lefts EXCEPT ![r] = l]
           /\ enders' = [enders EXCEPT ![r] = e]
<1>1. \A q \in Requests \ {r} :
            pc'[q] = pc[q] /\ order'[q] = order[q] /\ body'[q] = body[q]
  BY OneLoop
<1>2. \A q \in Requests \ {r} :
            phases'[q] = phases[q] /\ lefts'[q] = lefts[q] /\ enders'[q] = enders[q]
  BY <1>1 DEF phases, lefts, enders
<1>3. /\ phases = [q \in Requests |-> phases[q]] /\ phases' = [q \in Requests |-> phases'[q]]
      /\ lefts = [q \in Requests |-> lefts[q]] /\ lefts' = [q \in Requests |-> lefts'[q]]
      /\ enders = [q \in Requests |-> enders[q]] /\ enders' = [q \in Requests |-> enders'[q]]
  BY DEF phases, lefts, enders
<1>4. QED
  BY <1>2, <1>3, Override, Zenon

LEMMA ContractStart ==
    ASSUME LInv, NEW r \in Requests, Start(r)
    PROVE  Contract!Open(r)
<1>1. PICK c \in Contents, s \in Seq(Entries) :
            /\ order' = [order EXCEPT ![r] = s]
            /\ Range(s) = Range(Augmented(c)) /\ s # <<>>
  BY StartOrder DEF LInv
<1>2. Range(s) \in (SUBSET Entries) \ {{}}
  <2>1. Len(s) \in Nat \ {0} /\ DOMAIN s = 1..Len(s) /\ \A i \in 1..Len(s) : s[i] \in Entries
    BY <1>1, EmptySeq, LenProperties
  <2>2. 1 \in DOMAIN s
    BY <2>1
  <2>3. s[1] \in Range(s) /\ Range(s) \subseteq Entries
    BY <2>1, <2>2 DEF Range
  <2>4. QED
    BY <2>3
<1>3. pc[r] # "try" /\ pc'[r] = "try" /\ order'[r] = s
  BY <1>1 DEF Start, LInv, TypeOK
<1>4. phases[r] # "open" /\ phases'[r] = "open" /\ lefts'[r] = Range(s) /\ enders'[r] = NoEntry
  BY <1>3 DEF phases, lefts, enders, LInv, TypeOK
<1>5. /\ phases' = [phases EXCEPT ![r] = "open"] /\ lefts' = [lefts EXCEPT ![r] = Range(s)]
      /\ enders' = [enders EXCEPT ![r] = NoEntry]
  BY <1>4, StepMaps DEF LInv
<1>6. QED
  BY <1>2, <1>4, <1>5 DEF Contract!Open, phases, lefts, enders

\* The entry asked ends the request.
LEMMA ContractClose ==
    ASSUME LInv, NEW r \in Requests, Serve(r), Return(r, "nil") \/ Return(r, "error"),
           NEW p, NEW s, Write(r, s, p), NEW m, p.from = m
    PROVE  Contract!Close(r, m)
<1>1. pc'[r] = "done" /\ order'[r] = <<>> /\ body'[r] = Append(body[r], p)
  BY DEF Return, Write, LInv, TypeOK
<1>2. Last(body'[r]) = p
  BY <1>1, LastPiece DEF LInv, TypeOK
<1>3. phases'[r] = "done" /\ lefts'[r] = {} /\ enders'[r] = m
  BY <1>1, <1>2, EmptyList DEF phases, lefts, enders
<1>4. /\ phases' = [phases EXCEPT ![r] = "done"] /\ lefts' = [lefts EXCEPT ![r] = {}]
      /\ enders' = [enders EXCEPT ![r] = m]
  BY <1>3, StepMaps DEF LInv
<1>5. QED
  BY <1>4 DEF Contract!Close, phases, lefts, enders

LEMMA ContractAsk ==
    ASSUME LInv, NEW r \in Requests, Serve(r), Try(r)
    PROVE  \E m \in Entries : Contract!AskNext(r, m)
<1>1. PICK m \in Entries :
        /\ m = Head(order[r]) /\ m \in Range(order[r]) /\ pc[r] = "try"
        /\ Range(Tail(order[r])) = Range(order[r]) \ {m}
  BY Attempt
<1>2. phases[r] = "open" /\ m \in lefts[r]
  BY <1>1 DEF phases, lefts
<1>3. CASE Return(r, "nil") /\ \E s, p : Write(r, s, p) /\ p.from = m
  <2>1. PICK s, p : Write(r, s, p) /\ p.from = m
    BY <1>3
  <2>2. Contract!Close(r, m)
    BY <1>3, <2>1, ContractClose
  <2>3. Contract!AskNext(r, m)
    BY <1>2, <2>2 DEF Contract!AskNext, phases, lefts
  <2>4. QED
    BY <1>1, <2>3
<1>4. CASE Skip(r)
  <2>1. pc'[r] = "try" /\ order'[r] = Tail(order[r])
    BY <1>1, <1>4 DEF Skip, LInv, TypeOK
  <2>2. phases'[r] = "open" /\ lefts'[r] = lefts[r] \ {m} /\ enders'[r] = NoEntry
    BY <1>1, <2>1 DEF phases, lefts, enders
  <2>3. /\ phases' = [phases EXCEPT ![r] = "open"]
        /\ lefts' = [lefts EXCEPT ![r] = lefts[r] \ {m}]
        /\ enders' = [enders EXCEPT ![r] = NoEntry]
    BY <2>2, StepMaps DEF LInv
  <2>4. enders[r] = NoEntry
    BY <1>1 DEF enders
  <2>5. phases' = phases /\ enders' = enders
    BY <1>2, <2>3, <2>4 DEF phases, enders
  <2>6. Contract!AskNext(r, m)
    BY <1>2, <2>3, <2>5 DEF Contract!AskNext, phases, lefts, enders
  <2>7. QED
    BY <1>1, <2>6
<1>5. AnswerOf(m).from = m /\ ErrorOf(m).from = m
  BY DEF AnswerOf, ErrorOf
<1>6. ~ AllFailed(r)
  BY DEF Try, AllFailed
<1>7. QED
  BY <1>1, <1>3, <1>4, <1>5, <1>6
  DEF Serve, ModelAnswers, ModelFailsSilently, ModelFailsAloud, ModelHasNoAccount

LEMMA ContractGiveUp ==
    ASSUME LInv, NEW r \in Requests, AllFailed(r)
    PROVE  Contract!GiveUp(r)
<1>1. pc[r] = "try" /\ order[r] = <<>>
  BY DEF AllFailed
<1>2. phases[r] = "open" /\ lefts[r] = {}
  BY <1>1, EmptyList DEF phases, lefts
<1>3. AllModelsFailed.from = NoEntry
  BY DEF AllModelsFailed, ErrorOf
<1>4. Contract!Close(r, NoEntry)
  BY <1>3, ContractClose DEF AllFailed, Serve
<1>5. QED
  BY <1>2, <1>4 DEF Contract!GiveUp, phases, lefts

LEMMA ContractNext == LInv /\ [Next]_vars => [Contract!Next]_(Contract!vars)
<1> SUFFICES ASSUME LInv, [Next]_vars  PROVE [Contract!Next]_(Contract!vars)
  OBVIOUS
<1>1. ASSUME NEW r \in Requests, Start(r)  PROVE Contract!Next
  BY <1>1, ContractStart DEF Contract!Next
<1>2. ASSUME NEW r \in Requests, Serve(r)  PROVE Contract!Next
  <2>1. CASE AllFailed(r)
    BY <2>1, ContractGiveUp DEF Contract!Next
  <2>2. CASE Try(r)
    BY <1>2, <2>2, ContractAsk DEF Contract!Next
  <2>3. QED
    BY <1>2, <2>1, <2>2
    DEF Serve, ModelAnswers, ModelFailsSilently, ModelFailsAloud, ModelHasNoAccount
<1>3. CASE UNCHANGED vars
  BY <1>3 DEF vars, Contract!vars
<1>4. QED
  BY <1>1, <1>2, <1>3 DEF Next

(* The dispatch implements the contract: with any list the strategies and  *)
(* the adapter make, the entries are asked one at a time and none twice,   *)
(* and the one asked last, or nobody, ends the request (runSequential).    *)
THEOREM ContractKept == Spec => KeepsContract
<1>. QED
  BY InitLoop, NextLoop, ContractInit, ContractNext, PTL DEF Spec, KeepsContract, Contract!Spec

=============================================================================
