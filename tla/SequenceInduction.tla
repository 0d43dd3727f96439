------------------------- MODULE SequenceInduction -------------------------
(***************************************************************************)
(* Induction on the natural numbers, functions defined by recursion on     *)
(* them, with sets and functions in place of operators, and what follows   *)
(* for sequences that are flattened or folded.  The library's theorems     *)
(* take a predicate as a parameter; these follow from one of its           *)
(* first-order ones, that a set of finite sets has a minimal element.      *)
(***************************************************************************)
EXTENDS Integers, SequencesExt, FiniteSetTheorems, SequenceTheorems, TLAPS

\* A set of natural numbers has a least element.
LEMMA LeastNumber ==
    ASSUME NEW T, T \subseteq Nat, T # {}
    PROVE  \E x \in T : \A y \in T : x <= y
<1> DEFINE R == StrictSubsetOrdering(Nat)
           F == FiniteSubsetsOf(Nat)
           Below == {0 .. x : x \in T}
<1>1. IsWellFoundedOn(R, F)
  BY FS_StrictSubsetOrderingWellFounded
<1>2. Below \subseteq F /\ Below # {}
  <2>1. \A x \in T : IsFiniteSet(0 .. x) /\ 0 .. x \subseteq Nat
    BY FS_Interval
  <2> QED BY <2>1 DEF FiniteSubsetsOf
<1>3. \A A, B \in SUBSET Nat : A \subseteq B /\ A # B => <<A, B>> \in R
  BY DEF StrictSubsetOrdering
<1>4. \A x \in T : 0 .. x \in Below
  OBVIOUS
<1> HIDE DEF R, F, Below
<1>5. PICK b \in Below : \A c \in Below : ~(<<c, b>> \in R)
  BY <1>1, <1>2, WFMin
<1>6. PICK x \in T : b = 0 .. x
  BY <1>5 DEF Below
<1>7. ASSUME NEW y \in T PROVE x <= y
  <2> SUFFICES ASSUME y < x PROVE FALSE
    BY <1>6
  <2>1. 0 .. y \subseteq 0 .. x /\ 0 .. y # 0 .. x
    OBVIOUS
  <2>2. 0 .. y \in SUBSET Nat /\ 0 .. x \in SUBSET Nat
    OBVIOUS
  <2>3. <<0 .. y, 0 .. x>> \in R
    BY <1>3, <2>1, <2>2
  <2>4. 0 .. y \in Below
    BY <1>4
  <2> QED BY <1>5, <1>6, <2>3, <2>4
<1> QED BY <1>7

\* Induction: a set that has 0, and n + 1 with every n, has them all.
THEOREM NatSetInduction ==
    ASSUME NEW S, 0 \in S, \A n \in Nat : n \in S => n + 1 \in S
    PROVE  Nat \subseteq S
<1> SUFFICES ASSUME Nat \ S # {} PROVE FALSE
  OBVIOUS
<1>1. PICK x \in Nat \ S : \A y \in Nat \ S : x <= y
  BY LeastNumber
<1>2. x # 0 /\ x - 1 \in Nat
  OBVIOUS
<1>3. x - 1 \in S
  BY <1>1, <1>2
<1> QED BY <1>2, <1>3

RecursiveFunctions(S, a, G) ==
    {f \in [Nat -> S] : f[0] = a /\ \A n \in Nat : f[n + 1] = G[f[n]]}

\* Recursion: there is a function with a given value at 0 and a given way
\* from each of its values to the next.
THEOREM NatRecursion ==
    ASSUME NEW S, NEW a \in S, NEW G \in [S -> S]
    PROVE  RecursiveFunctions(S, a, G) # {}
<1> DEFINE Part(n) == {g \in [0 .. n -> S] :
                          g[0] = a /\ \A i \in 0 .. n : i < n => g[i + 1] = G[g[i]]}
           Defined == {n \in Nat : Part(n) # {}}
<1>1. Nat \subseteq Defined
  <2>1. 0 \in Defined
    <3> DEFINE g == [i \in 0 .. 0 |-> a]
    <3>1. g \in Part(0)
      OBVIOUS
    <3> QED BY <3>1
  <2>2. ASSUME NEW n \in Nat, n \in Defined PROVE n + 1 \in Defined
    <3>1. PICK g \in Part(n) : TRUE
      BY <2>2
    <3> DEFINE h == [i \in 0 .. n + 1 |-> IF i <= n THEN g[i] ELSE G[g[n]]]
    <3>2. h \in [0 .. n + 1 -> S] /\ h[0] = a
      BY <3>1
    <3>3. ASSUME NEW i \in 0 .. n + 1, i < n + 1 PROVE h[i + 1] = G[h[i]]
      <4>1. CASE i < n
        BY <3>1, <3>3, <4>1
      <4>2. CASE i = n
        BY <3>1, <3>3, <4>2
      <4> QED BY <3>3, <4>1, <4>2
    <3> HIDE DEF h
    <3>4. h \in Part(n + 1)
      BY <3>2, <3>3
    <3> QED BY <3>4
  <2> HIDE DEF Defined
  <2> QED BY <2>1, <2>2, NatSetInduction
<1>2. ASSUME NEW n \in Nat, NEW g \in Part(n), NEW m \in Nat, NEW h \in Part(m)
      PROVE  \A i \in Nat : i <= n /\ i <= m => g[i] = h[i]
  <2> DEFINE Agree == {i \in Nat : i <= n /\ i <= m => g[i] = h[i]}
  <2>1. 0 \in Agree
    OBVIOUS
  <2>2. ASSUME NEW i \in Nat, i \in Agree PROVE i + 1 \in Agree
    <3> SUFFICES ASSUME i + 1 <= n, i + 1 <= m PROVE g[i + 1] = h[i + 1]
      OBVIOUS
    <3>1. i \in 0 .. n /\ i \in 0 .. m /\ i < n /\ i < m
      OBVIOUS
    <3> QED BY <2>2, <3>1
  <2>3. Nat \subseteq Agree
    <3> HIDE DEF Agree
    <3> QED BY <2>1, <2>2, NatSetInduction
  <2> QED BY <2>3
<1> DEFINE part(n) == CHOOSE g \in Part(n) : TRUE
           f == [n \in Nat |-> part(n)[n]]
<1>3. \A n \in Nat : part(n) \in Part(n)
  BY <1>1
<1> HIDE DEF part
<1>4. \A n \in Nat : part(n)[n] \in S
  BY <1>3
<1>5. f \in [Nat -> S] /\ f[0] = a
  BY <1>3, <1>4
<1>6. ASSUME NEW n \in Nat PROVE f[n + 1] = G[f[n]]
  <2>1. part(n + 1) \in Part(n + 1) /\ part(n) \in Part(n)
    BY <1>3
  <2>2. part(n + 1)[n + 1] = G[part(n + 1)[n]]
    BY <2>1
  <2>3. part(n + 1)[n] = part(n)[n]
    <3> HIDE DEF Part
    <3> QED BY <1>2, <2>1
  <2> QED BY <2>2, <2>3
<1> HIDE DEF f
<1> QED BY <1>5, <1>6 DEF RecursiveFunctions

IndexedFunctions(S, a, G) ==
    {f \in [Nat -> S] : f[0] = a /\ \A n \in Nat : f[n + 1] = G[<<n, f[n]>>]}

\* The same when the way to the next value depends on the number.
THEOREM IndexedRecursion ==
    ASSUME NEW S, NEW a \in S, NEW G \in [Nat \X S -> S]
    PROVE  IndexedFunctions(S, a, G) # {}
<1> DEFINE Next == [x \in Nat \X S |-> <<x[1] + 1, G[x]>>]
<1>1. Next \in [Nat \X S -> Nat \X S] /\ \A x \in Nat \X S : Next[x] = <<x[1] + 1, G[x]>>
  OBVIOUS
<1>2. <<0, a>> \in Nat \X S
  OBVIOUS
<1> HIDE DEF Next
<1>3. PICK h \in [Nat -> Nat \X S] : h[0] = <<0, a>> /\ \A n \in Nat : h[n + 1] = Next[h[n]]
  <2>1. RecursiveFunctions(Nat \X S, <<0, a>>, Next) # {}
    BY <1>1, <1>2, NatRecursion
  <2> QED BY <2>1 DEF RecursiveFunctions
<1> DEFINE Counted == {n \in Nat : h[n][1] = n}
<1>4. Nat \subseteq Counted
  <2>1. 0 \in Counted
    BY <1>3
  <2>2. ASSUME NEW n \in Nat, n \in Counted PROVE n + 1 \in Counted
    BY <1>1, <1>3, <2>2
  <2> HIDE DEF Counted
  <2> QED BY <2>1, <2>2, NatSetInduction
<1> DEFINE f == [n \in Nat |-> h[n][2]]
<1>5. \A n \in Nat : h[n] = <<n, f[n]>>
  BY <1>3, <1>4
<1>6. f \in [Nat -> S] /\ f[0] = a
  BY <1>3
<1>7. ASSUME NEW n \in Nat PROVE f[n + 1] = G[<<n, f[n]>>]
  <2>1. f[n + 1] = G[h[n]]
    BY <1>1, <1>3
  <2>2. h[n] = <<n, f[n]>>
    BY <1>5
  <2> HIDE DEF f
  <2> QED BY <2>1, <2>2
<1> HIDE DEF f
<1>8. f \in IndexedFunctions(S, a, G)
  BY <1>6, <1>7 DEF IndexedFunctions
<1> QED BY <1>8
-----------------------------------------------------------------------------
(* Flattening *)

\* The function that FlattenSeq() is defined by.
Flattened(seqs, f) ==
    f = [i \in 1 .. Len(seqs) |-> IF i = 1 THEN seqs[i] ELSE f[i - 1] \o seqs[i]]

\* Sequences are joined one by one: how many have been joined, and to what.
Joins(S, seqs) ==
    {p \in [0 .. Len(seqs) -> Seq(S)] :
        /\ p[0] = <<>>
        /\ \A i \in 1 .. Len(seqs) : p[i] = p[i - 1] \o seqs[i]
        /\ p[Len(seqs)] = FlattenSeq(seqs)}

LEMMA FlattenJoins ==
    ASSUME NEW S, NEW seqs \in Seq(Seq(S))
    PROVE  Joins(S, seqs) # {}
<1>0. PICK n \in Nat : n = Len(seqs)
  OBVIOUS
<1>1. \A i \in 1 .. n : seqs[i] \in Seq(S)
  BY <1>0
<1> DEFINE G == [x \in Nat \X Seq(S) |-> IF x[1] < n THEN x[2] \o seqs[x[1] + 1] ELSE x[2]]
<1>2. G \in [Nat \X Seq(S) -> Seq(S)]
  <2>1. ASSUME NEW x \in Nat \X Seq(S)
        PROVE  (IF x[1] < n THEN x[2] \o seqs[x[1] + 1] ELSE x[2]) \in Seq(S)
    <3>1. CASE x[1] < n
      <4>1. x[1] + 1 \in 1 .. n
        BY <1>1, <3>1
      <4> QED BY <1>1, <3>1, <4>1
    <3>2. CASE ~(x[1] < n)
      BY <3>2
    <3> QED BY <3>1, <3>2
  <2> QED BY <2>1
<1>3. \A i \in Nat, t \in Seq(S) : i < n => G[<<i, t>>] = t \o seqs[i + 1]
  OBVIOUS
<1>4. <<>> \in Seq(S)
  OBVIOUS
<1> HIDE DEF G
<1>5. PICK q \in [Nat -> Seq(S)] : q[0] = <<>> /\ \A i \in Nat : q[i + 1] = G[<<i, q[i]>>]
  <2>1. IndexedFunctions(Seq(S), <<>>, G) # {}
    BY <1>2, <1>4, IndexedRecursion
  <2> QED BY <2>1 DEF IndexedFunctions
<1> DEFINE p == [i \in 0 .. n |-> q[i]]
<1>6. p \in [0 .. n -> Seq(S)] /\ p[0] = <<>>
  BY <1>1, <1>5
<1>7. ASSUME NEW i \in 1 .. n PROVE p[i] = p[i - 1] \o seqs[i]
  <2>1. i - 1 \in Nat /\ i - 1 + 1 = i /\ i - 1 < n /\ i - 1 \in 0 .. n /\ i \in 0 .. n
    OBVIOUS
  <2>2. q[i] = G[<<i - 1, q[i - 1]>>]
    BY <1>5, <2>1
  <2>3. q[i - 1] \in Seq(S)
    BY <1>5, <2>1
  <2>4. q[i] = q[i - 1] \o seqs[i]
    BY <1>3, <2>1, <2>2, <2>3
  <2> QED BY <2>1, <2>4
<1> HIDE DEF p
<1>8. p[n] = FlattenSeq(seqs)
  <2>1. CASE n = 0
    <3>1. seqs = <<>>
      BY <1>0, <2>1, EmptySeq
    <3>2. FlattenSeq(seqs) = seqs
      BY <1>0, <2>1 DEF FlattenSeq
    <3> QED BY <1>6, <2>1, <3>1, <3>2
  <2>2. CASE n # 0
    <3> DEFINE f == [i \in 1 .. n |-> p[i]]
               g == CHOOSE h : Flattened(seqs, h)
    <3>0. seqs[1] \in Seq(S) /\ p[1] = seqs[1]
      <4>1. 1 \in 1 .. n /\ 1 - 1 = 0
        BY <2>2
      <4>2. seqs[1] \in Seq(S) /\ p[1] = <<>> \o seqs[1]
        BY <1>1, <1>6, <1>7, <4>1
      <4> QED BY <4>2, ConcatEmptySeq
    <3>1. ASSUME NEW i \in 1 .. n
          PROVE  f[i] = IF i = 1 THEN seqs[i] ELSE f[i - 1] \o seqs[i]
      <4>1. CASE i = 1
        BY <3>0, <4>1
      <4>2. CASE i # 1
        <5>1. i - 1 \in 1 .. n
          BY <4>2
        <5>2. p[i] = p[i - 1] \o seqs[i]
          BY <1>7
        <5> QED BY <4>2, <5>1, <5>2
      <4> QED BY <4>1, <4>2
    <3>2. Flattened(seqs, f)
      <4>1. f = [i \in 1 .. n |-> IF i = 1 THEN seqs[i] ELSE f[i - 1] \o seqs[i]]
        BY <3>1
      <4> HIDE DEF f
      <4> QED BY <1>0, <4>1, Zenon DEF Flattened
    <3> HIDE DEF f
    <3>3. Flattened(seqs, g)
      BY <3>2
    <3>4. FlattenSeq(seqs) = g[n]
      BY <1>0, <2>2 DEF FlattenSeq, Flattened
    <3> HIDE DEF g
    <3>5. \A i \in 1 .. n : g[i] = IF i = 1 THEN seqs[i] ELSE g[i - 1] \o seqs[i]
      <4>1. g = [i \in 1 .. n |-> IF i = 1 THEN seqs[i] ELSE g[i - 1] \o seqs[i]]
        BY <1>0, <3>3, Zenon DEF Flattened
      <4> QED BY <4>1, Zenon
    <3> DEFINE Same == {i \in Nat : i \in 1 .. n => g[i] = p[i]}
    <3>6. Nat \subseteq Same
      <4>1. 0 \in Same
        OBVIOUS
      <4>2. ASSUME NEW i \in 1 .. n, i # 1, g[i - 1] = p[i - 1] PROVE g[i] = p[i]
        <5>1. g[i] = g[i - 1] \o seqs[i]
          BY <3>5, <4>2, Zenon
        <5>2. p[i] = p[i - 1] \o seqs[i]
          BY <1>7
        <5> QED BY <4>2, <5>1, <5>2
      <4>3. g[1] = p[1]
        BY <2>2, <3>0, <3>5
      <4>4. ASSUME NEW i \in Nat, i \in Same PROVE i + 1 \in Same
        <5>1. CASE i = 0
          BY <4>3, <5>1
        <5>2. CASE i \in 1 .. n /\ i + 1 \in 1 .. n
          <6>1. i + 1 # 1 /\ i + 1 - 1 = i /\ g[i] = p[i]
            BY <4>4, <5>2
          <6> HIDE DEF Same
          <6>2. g[i + 1] = p[i + 1]
            BY <4>2, <5>2, <6>1
          <6> USE DEF Same
          <6> QED BY <6>2
        <5>3. CASE i + 1 \notin 1 .. n
          <6>1. i + 1 \in Nat
            OBVIOUS
          <6> QED BY <5>3, <6>1, Zenon
        <5> QED BY <5>1, <5>2, <5>3
      <4> HIDE DEF Same
      <4> QED BY <4>1, <4>4, NatSetInduction
    <3>7. n \in 1 .. n
      BY <2>2
    <3> QED BY <3>4, <3>6, <3>7
  <2> QED BY <2>1, <2>2
<1>9. p \in Joins(S, seqs)
  BY <1>0, <1>6, <1>7, <1>8, Zenon DEF Joins
<1> QED BY <1>9

LEMMA FlattenNone == FlattenSeq(<<>>) = <<>>
<1>1. Len(<<>>) = 0
  OBVIOUS
<1> QED BY <1>1 DEF FlattenSeq

LEMMA FlattenOne ==
    ASSUME NEW S, NEW s \in Seq(S)
    PROVE  FlattenSeq(<<s>>) = s
<1>1. PICK seqs : seqs = <<s>>
  OBVIOUS
<1>2. seqs \in Seq(Seq(S)) /\ Len(seqs) = 1 /\ seqs[1] = s
  BY <1>1
<1>3. PICK p \in Joins(S, seqs) : TRUE
  BY <1>2, FlattenJoins
<1>4. p[0] = <<>> /\ (\A i \in 1 .. 1 : p[i] = p[i - 1] \o seqs[i]) /\ p[1] = FlattenSeq(seqs)
  BY <1>2, <1>3, Zenon DEF Joins
<1>5. p[1] = <<>> \o s
  <2>1. 1 \in 1 .. 1 /\ 1 - 1 = 0
    OBVIOUS
  <2> QED BY <1>2, <1>4, <2>1
<1>6. p[1] = s
  BY <1>5, ConcatEmptySeq
<1> QED BY <1>1, <1>4, <1>6

\* A sequence is what its elements are one by one.
LEMMA FlattenSingles ==
    ASSUME NEW S, NEW s \in Seq(S), NEW seqs, seqs = [i \in 1 .. Len(s) |-> <<s[i]>>]
    PROVE  FlattenSeq(seqs) = s
<1>1. PICK n \in Nat : n = Len(s)
  OBVIOUS
<1>2. \A i \in 1 .. n : s[i] \in S /\ <<s[i]>> \in Seq(S)
  BY <1>1
<1>3. seqs \in Seq(Seq(S)) /\ Len(seqs) = n /\ \A i \in 1 .. n : seqs[i] = <<s[i]>>
  BY <1>1, <1>2
<1>4. PICK p \in Joins(S, seqs) : TRUE
  BY <1>3, FlattenJoins
<1>5. p[0] = <<>> /\ (\A i \in 1 .. n : p[i] = p[i - 1] \o seqs[i]) /\ p[n] = FlattenSeq(seqs)
  BY <1>3, <1>4, Zenon DEF Joins
<1> DEFINE Fits(i) == p[i] = SubSeq(s, 1, i)
<1>6. Fits(0)
  BY <1>5, SubSeqEmpty
<1>7. ASSUME NEW i \in 0 .. n, NEW j \in 1 .. n, j = i + 1, Fits(i) PROVE Fits(j)
  <2>1. j - 1 = i /\ 1 \in 1 .. Len(s) /\ j \in 1 .. Len(s)
    BY <1>1, <1>7
  <2>2. p[j] = p[i] \o <<s[j]>>
    BY <1>3, <1>5, <2>1
  <2>3. SubSeq(s, 1, j) = SubSeq(s, 1, i) \o <<s[j]>>
    BY <2>1, SubSeqRecursiveSecond
  <2> QED BY <1>7, <2>2, <2>3
<1> HIDE DEF Fits
<1> DEFINE T == {i \in Nat : i <= n => Fits(i)}
<1>8. 0 \in T
  BY <1>6
<1>9. ASSUME NEW i \in Nat, i \in T PROVE i + 1 \in T
  <2>1. CASE i + 1 <= n
    <3>1. i \in 0 .. n /\ i + 1 \in 1 .. n /\ Fits(i)
      BY <1>9, <2>1
    <3>2. Fits(i + 1)
      BY <1>7, <3>1
    <3> QED BY <3>2
  <2>2. CASE ~(i + 1 <= n)
    BY <2>2
  <2> QED BY <2>1, <2>2
<1>10. n \in T
  <2> HIDE DEF T
  <2> QED BY <1>8, <1>9, NatSetInduction
<1>11. Fits(n)
  BY <1>10
<1>12. SubSeq(s, 1, n) = s
  BY <1>1, SubSeqFull
<1> QED BY <1>5, <1>11, <1>12 DEF Fits

-----------------------------------------------------------------------------
(* Induction on sequences *)

\* A set that has the empty sequence, and with every sequence what it becomes
\* when an element is appended, has them all.
THEOREM SeqSetInduction ==
    ASSUME NEW S, NEW T, <<>> \in T, \A s \in Seq(S), c \in S : s \in T => Append(s, c) \in T
    PROVE  Seq(S) \subseteq T
<1> DEFINE Fits == {n \in Nat : \A s \in Seq(S) : Len(s) = n => s \in T}
<1>1. 0 \in Fits
  BY EmptySeq
<1>2. ASSUME NEW n \in Nat, n \in Fits PROVE n + 1 \in Fits
  <2> SUFFICES ASSUME NEW s \in Seq(S), Len(s) = n + 1 PROVE s \in T
    OBVIOUS
  <2>1. s # <<>>
    BY EmptySeq
  <2>2. PICK r \in Seq(S), c \in S : s = Append(r, c)
    BY <2>1, SequenceEmptyOrAppend
  <2>3. r \in T
    BY <1>2, <2>2
  <2> QED BY <2>2, <2>3
<1> HIDE DEF Fits
<1>3. Nat \subseteq Fits
  BY <1>1, <1>2, NatSetInduction
<1>4. \A s \in Seq(S) : Len(s) \in Nat
  OBVIOUS
<1> QED BY <1>3, <1>4 DEF Fits

\* The same when it is put in front.
THEOREM SeqFrontInduction ==
    ASSUME NEW S, NEW T, <<>> \in T, \A s \in Seq(S), c \in S : s \in T => <<c>> \o s \in T
    PROVE  Seq(S) \subseteq T
<1> DEFINE Fits == {n \in Nat : \A s \in Seq(S) : Len(s) = n => s \in T}
<1>1. 0 \in Fits
  BY EmptySeq
<1>2. ASSUME NEW n \in Nat, n \in Fits PROVE n + 1 \in Fits
  <2> SUFFICES ASSUME NEW s \in Seq(S), Len(s) = n + 1 PROVE s \in T
    OBVIOUS
  <2>1. s # <<>>
    BY EmptySeq
  <2>2. Tail(s) \in Seq(S) /\ Head(s) \in S /\ <<Head(s)>> \o Tail(s) = s /\ Len(Tail(s)) = n
    BY <2>1, HeadTailProperties
  <2>3. Tail(s) \in T
    BY <1>2, <2>2
  <2> QED BY <2>2, <2>3
<1> HIDE DEF Fits
<1>3. Nat \subseteq Fits
  BY <1>1, <1>2, NatSetInduction
<1>4. \A s \in Seq(S) : Len(s) \in Nat
  OBVIOUS
<1> QED BY <1>3, <1>4 DEF Fits

-----------------------------------------------------------------------------
(* More about flattening *)

LEMMA FlattenType ==
    ASSUME NEW S, NEW seqs \in Seq(Seq(S))
    PROVE  FlattenSeq(seqs) \in Seq(S)
<1>1. PICK n \in Nat : n = Len(seqs)
  OBVIOUS
<1>2. PICK p \in Joins(S, seqs) : TRUE
  BY FlattenJoins
<1>3. p \in [0 .. n -> Seq(S)] /\ p[n] = FlattenSeq(seqs)
  BY <1>1, <1>2, Zenon DEF Joins
<1>4. n \in 0 .. n
  OBVIOUS
<1> QED BY <1>3, <1>4

LEMMA FlattenAppend ==
    ASSUME NEW S, NEW seqs \in Seq(Seq(S)), NEW s \in Seq(S)
    PROVE  FlattenSeq(Append(seqs, s)) = FlattenSeq(seqs) \o s
<1>0. PICK more : more = Append(seqs, s)
  OBVIOUS
<1>1. PICK n \in Nat : n = Len(seqs)
  OBVIOUS
<1>2. /\ more \in Seq(Seq(S)) /\ Len(more) = n + 1 /\ more[n + 1] = s
      /\ \A i \in 1 .. n : more[i] = seqs[i] /\ seqs[i] \in Seq(S)
  BY <1>0, <1>1, AppendProperties
<1>3. PICK p \in Joins(S, seqs) : TRUE
  BY FlattenJoins
<1>4. PICK q \in Joins(S, more) : TRUE
  BY <1>2, FlattenJoins
<1>5. /\ p \in [0 .. n -> Seq(S)] /\ p[0] = <<>> /\ p[n] = FlattenSeq(seqs)
      /\ \A i \in 1 .. n : p[i] = p[i - 1] \o seqs[i]
  BY <1>1, <1>3, Zenon DEF Joins
<1>6. /\ q \in [0 .. n + 1 -> Seq(S)] /\ q[0] = <<>> /\ q[n + 1] = FlattenSeq(more)
      /\ \A i \in 1 .. n + 1 : q[i] = q[i - 1] \o more[i]
  BY <1>2, <1>4, Zenon DEF Joins
<1>7. ASSUME NEW i \in 0 .. n, NEW j \in 1 .. n + 1, j = i + 1
      PROVE  q[j] = q[i] \o more[j] /\ (j <= n => p[j] = p[i] \o more[j])
  <2>1. j - 1 = i /\ (j <= n => j \in 1 .. n)
    BY <1>7
  <2>2. q[j] = q[j - 1] \o more[j]
    BY <1>6, Zenon
  <2>3. j \in 1 .. n => p[j] = p[j - 1] \o seqs[j] /\ more[j] = seqs[j]
    BY <1>2, <1>5, Zenon
  <2> QED BY <2>1, <2>2, <2>3, Zenon
<1> DEFINE Same == {i \in Nat : i <= n => p[i] = q[i]}
<1>8. 0 \in Same
  BY <1>5, <1>6
<1>9. ASSUME NEW i \in Nat, i \in Same PROVE i + 1 \in Same
  <2>1. CASE i + 1 <= n
    <3>1. i \in 0 .. n /\ i + 1 \in 1 .. n + 1 /\ p[i] = q[i]
      BY <1>9, <2>1
    <3>2. p[i + 1] = q[i + 1]
      BY <1>7, <2>1, <3>1, Zenon
    <3> QED BY <3>2
  <2>2. CASE ~(i + 1 <= n)
    BY <2>2
  <2> QED BY <2>1, <2>2
<1>10. n \in Same
  <2> HIDE DEF Same
  <2> QED BY <1>8, <1>9, NatSetInduction
<1>11. p[n] = q[n]
  BY <1>10
<1>12. q[n + 1] = q[n] \o more[n + 1]
  <2>1. n \in 0 .. n /\ n + 1 \in 1 .. n + 1
    OBVIOUS
  <2> QED BY <1>7, <2>1, Zenon
<1> HIDE DEF Same
<1> QED BY <1>0, <1>2, <1>5, <1>6, <1>11, <1>12, Zenon

-----------------------------------------------------------------------------
(* Texts in which each character stands for a text *)

\* What stands for each of the characters in S: texts over R.
Coding(S, R) == [S -> Seq(R)]

Mapped(text, E) == FlattenSeq([i \in DOMAIN text |-> E[text[i]]])

LEMMA MappedNone ==
    ASSUME NEW E
    PROVE  Mapped(<<>>, E) = <<>>
<1>1. [i \in DOMAIN <<>> |-> E[<<>>[i]]] = <<>>
  OBVIOUS
<1> QED BY <1>1, FlattenNone DEF Mapped

\* The texts the characters of t stand for, one after the other.
Spelled(R, t, E) ==
    {a \in Seq(Seq(R)) : /\ Mapped(t, E) = FlattenSeq(a) /\ Len(a) = Len(t)
                         /\ \A i \in 1 .. Len(t) : a[i] = E[t[i]]}

LEMMA MappedSeq ==
    ASSUME NEW S, NEW R, NEW E \in Coding(S, R), NEW t \in Seq(S)
    PROVE  Spelled(R, t, E) # {}
<1>1. PICK n \in Nat : n = Len(t)
  OBVIOUS
<1>2. DOMAIN t = 1 .. n /\ \A i \in 1 .. n : t[i] \in S
  BY <1>1
<1> DEFINE a == [i \in 1 .. n |-> E[t[i]]]
<1>3. \A i \in 1 .. n : E[t[i]] \in Seq(R)
  BY <1>2 DEF Coding
<1>4. a \in Seq(Seq(R)) /\ Len(a) = n /\ \A i \in 1 .. n : a[i] = E[t[i]]
  BY <1>3, IsASeq
<1>5. Mapped(t, E) = FlattenSeq(a)
  BY <1>2 DEF Mapped
<1> HIDE DEF a
<1>6. a \in Spelled(R, t, E)
  BY <1>1, <1>4, <1>5 DEF Spelled
<1> QED BY <1>6

LEMMA MappedType ==
    ASSUME NEW S, NEW R, NEW E \in Coding(S, R), NEW t \in Seq(S)
    PROVE  Mapped(t, E) \in Seq(R)
<1>1. PICK a \in Spelled(R, t, E) : TRUE
  BY MappedSeq
<1>2. a \in Seq(Seq(R)) /\ Mapped(t, E) = FlattenSeq(a)
  BY Zenon DEF Spelled
<1>3. FlattenSeq(a) \in Seq(R)
  BY <1>2, FlattenType
<1> QED BY <1>2, <1>3

LEMMA MappedAppend ==
    ASSUME NEW S, NEW R, NEW E \in Coding(S, R), NEW t \in Seq(S), NEW c \in S
    PROVE  Mapped(Append(t, c), E) = Mapped(t, E) \o E[c]
<1>0. PICK n \in Nat, e \in Seq(R) : n = Len(t) /\ e = E[c]
  BY DEF Coding
<1>1. PICK u : u = Append(t, c)
  OBVIOUS
<1>a. PICK a \in Spelled(R, t, E) : TRUE
  BY MappedSeq
<1>2. /\ a \in Seq(Seq(R)) /\ Mapped(t, E) = FlattenSeq(a) /\ Len(a) = n
      /\ \A i \in 1 .. n : a[i] = E[t[i]]
  BY <1>0, Zenon DEF Spelled
<1>3. u \in Seq(S) /\ Len(u) = n + 1 /\ u[n + 1] = c /\ \A i \in 1 .. n : u[i] = t[i]
  BY <1>0, <1>1, AppendProperties
<1>b. PICK b \in Spelled(R, u, E) : TRUE
  BY <1>3, MappedSeq
<1>4. /\ b \in Seq(Seq(R)) /\ Mapped(u, E) = FlattenSeq(b) /\ Len(b) = n + 1
      /\ \A i \in 1 .. n + 1 : b[i] = E[u[i]]
  BY <1>3, Zenon DEF Spelled
<1>5. b = Append(a, e)
  <2>1. \A i \in 1 .. n + 1 : b[i] = IF i = n + 1 THEN e ELSE a[i]
    <3> TAKE i \in 1 .. n + 1
    <3>1. CASE i = n + 1
      BY <1>0, <1>3, <1>4, <3>1, Zenon
    <3>2. CASE i # n + 1
      <4>1. i \in 1 .. n
        BY <3>2
      <4> QED BY <1>2, <1>3, <1>4, <3>2, <4>1, Zenon
    <3> QED BY <3>1, <3>2
  <2>2. PICK d : d = Append(a, e)
    OBVIOUS
  <2>3. /\ d \in Seq(Seq(R)) /\ Len(d) = n + 1
        /\ \A i \in 1 .. n + 1 : d[i] = IF i = n + 1 THEN e ELSE a[i]
    BY <1>2, <2>2, AppendProperties
  <2>4. PICK Q : Q = Seq(R)
    OBVIOUS
  <2>5. b \in Seq(Q) /\ d \in Seq(Q) /\ Len(b) = Len(d) /\ \A i \in 1 .. Len(b) : b[i] = d[i]
    BY <1>4, <2>1, <2>3, <2>4
  <2>6. b = d
    BY <2>5, SeqEqual
  <2> QED BY <2>2, <2>6
<1>6. FlattenSeq(Append(a, e)) = FlattenSeq(a) \o e
  BY <1>2, FlattenAppend
<1> QED BY <1>0, <1>1, <1>2, <1>4, <1>5, <1>6, Zenon

LEMMA MappedOne ==
    ASSUME NEW S, NEW R, NEW E \in Coding(S, R), NEW c \in S
    PROVE  Mapped(<<c>>, E) = E[c]
<1>1. <<>> \in Seq(S) /\ <<c>> = Append(<<>>, c) /\ E[c] \in Seq(R)
  BY DEF Coding
<1>2. Mapped(Append(<<>>, c), E) = Mapped(<<>>, E) \o E[c]
  BY <1>1, MappedAppend, Zenon
<1> QED BY <1>1, <1>2, MappedNone, ConcatEmptySeq

LEMMA PairConcat ==
    ASSUME NEW S, NEW a \in S, NEW b \in S
    PROVE  <<a>> \o <<b>> = <<a, b>>
<1>1. <<a>> \in Seq(S) /\ <<a, b>> = Append(<<a>>, b)
  OBVIOUS
<1>2. Append(<<a>>, b) = <<a>> \o <<b>>
  BY <1>1, AppendIsConcat
<1> QED BY <1>1, <1>2

LEMMA MappedTwo ==
    ASSUME NEW S, NEW R, NEW E \in Coding(S, R), NEW c \in S, NEW d \in S
    PROVE  Mapped(<<c, d>>, E) = E[c] \o E[d]
<1>1. <<c, d>> = Append(<<c>>, d) /\ <<c>> \in Seq(S)
  OBVIOUS
<1>2. Mapped(Append(<<c>>, d), E) = Mapped(<<c>>, E) \o E[d]
  BY <1>1, MappedAppend, Zenon
<1> QED BY <1>1, <1>2, MappedOne, Zenon

LEMMA MappedConcat ==
    ASSUME NEW S, NEW R, NEW E \in Coding(S, R), NEW t \in Seq(S), NEW u \in Seq(S)
    PROVE  Mapped(t \o u, E) = Mapped(t, E) \o Mapped(u, E)
<1> DEFINE T == {w \in Seq(S) : Mapped(t \o w, E) = Mapped(t, E) \o Mapped(w, E)}
<1>1. PICK x \in Seq(R) : x = Mapped(t, E)
  BY MappedType
<1>2. <<>> \in T
  <2>1. t \o <<>> = t /\ x \o <<>> = x /\ <<>> \in Seq(S)
    BY ConcatEmptySeq
  <2> QED BY <1>1, <2>1, MappedNone
<1>3. ASSUME NEW w \in Seq(S), NEW c \in S, w \in T PROVE Append(w, c) \in T
  <2>1. t \o Append(w, c) = Append(t \o w, c) /\ t \o w \in Seq(S) /\ Append(w, c) \in Seq(S)
    OBVIOUS
  <2>2. PICK y \in Seq(R) : y = Mapped(w, E)
    BY MappedType
  <2>3. PICK e \in Seq(R) : e = E[c]
    BY DEF Coding
  <2>4. Mapped(Append(t \o w, c), E) = Mapped(t \o w, E) \o e
    BY <2>1, <2>3, MappedAppend, Zenon
  <2>5. Mapped(t \o w, E) = x \o y
    BY <1>1, <1>3, <2>2
  <2>6. Mapped(Append(w, c), E) = y \o e
    BY <2>2, <2>3, MappedAppend, Zenon
  <2>7. (x \o y) \o e = x \o (y \o e)
    OBVIOUS
  <2> QED BY <1>1, <2>1, <2>4, <2>5, <2>6, <2>7, Zenon
<1>4. Seq(S) \subseteq T
  <2> HIDE DEF T
  <2> QED BY <1>2, <1>3, SeqSetInduction
<1> QED BY <1>4

\* One mapping after the other is one mapping.
LEMMA MappedTwice ==
    ASSUME NEW S, NEW R, NEW Q, NEW E \in Coding(S, R), NEW F \in Coding(R, Q), NEW t \in Seq(S),
           NEW H \in Coding(S, Q), \A c \in S : H[c] = Mapped(E[c], F)
    PROVE  Mapped(Mapped(t, E), F) = Mapped(t, H)
<1> DEFINE T == {w \in Seq(S) : Mapped(Mapped(w, E), F) = Mapped(w, H)}
<1>2. <<>> \in T
  <2>1. <<>> \in Seq(S) /\ <<>> \in Seq(R)
    OBVIOUS
  <2>2. Mapped(<<>>, E) = <<>> /\ Mapped(<<>>, F) = <<>> /\ Mapped(<<>>, H) = <<>>
    BY <2>1, MappedNone
  <2> QED BY <2>1, <2>2
<1>3. ASSUME NEW w \in Seq(S), NEW c \in S, w \in T PROVE Append(w, c) \in T
  <2>1. PICK y \in Seq(R), e \in Seq(R) : y = Mapped(w, E) /\ e = E[c]
    <3>1. Mapped(w, E) \in Seq(R) /\ E[c] \in Seq(R)
      BY MappedType DEF Coding
    <3> QED BY <3>1
  <2>2. Mapped(Append(w, c), E) = y \o e
    BY <2>1, MappedAppend, Zenon
  <2>3. Mapped(y \o e, F) = Mapped(y, F) \o Mapped(e, F)
    BY MappedConcat
  <2>4. Mapped(Append(w, c), H) = Mapped(w, H) \o H[c]
    BY MappedAppend, Zenon
  <2>5. Mapped(y, F) = Mapped(w, H) /\ Mapped(e, F) = H[c]
    BY <1>3, <2>1
  <2>6. Append(w, c) \in Seq(S)
    OBVIOUS
  <2> QED BY <2>2, <2>3, <2>4, <2>5, <2>6, Zenon
<1>4. Seq(S) \subseteq T
  <2> HIDE DEF T
  <2> QED BY <1>2, <1>3, SeqSetInduction
<1> QED BY <1>4

-----------------------------------------------------------------------------
(* Folding *)

LEMMA MaxOf ==
    ASSUME NEW s, NEW m \in s, s \subseteq Nat, \A i \in s : i <= m
    PROVE  Max(s) = m
<1>1. m \in s /\ \A i \in s : m >= i
  OBVIOUS
<1>2. \A x \in s : (\A i \in s : x >= i) => x = m
  OBVIOUS
<1> QED BY <1>1, <1>2, Zenon DEF Max

LEMMA MaxIn ==
    ASSUME NEW s, s # {}, NEW n \in Nat, s \subseteq 1 .. n
    PROVE  Max(s) \in s /\ \A i \in s : i <= Max(s)
<1> DEFINE T == {n - i : i \in s}
<1>1. PICK x \in T : \A y \in T : x <= y
  <2>1. \A i \in s : n - i \in Nat
    OBVIOUS
  <2>2. T \subseteq Nat
    BY <2>1
  <2>3. T # {}
    OBVIOUS
  <2> HIDE DEF T
  <2> QED BY <2>2, <2>3, LeastNumber
<1>2. PICK m \in s : x = n - m
  BY <1>1
<1>3. \A i \in s : i <= m
  <2> TAKE i \in s
  <2>1. x <= n - i
    BY <1>1
  <2> QED BY <1>2, <2>1
<1>4. Max(s) = m
  <2>1. s \subseteq Nat
    OBVIOUS
  <2> QED BY <1>3, <2>1, MaxOf, Zenon
<1> QED BY <1>3, <1>4

\* The functions a fold over 1 .. n may be defined by.
Folds(n, B, base, G) ==
    {f \in [SUBSET (1 .. n) -> B] :
        \A s \in SUBSET (1 .. n) :
            f[s] = IF s = {} THEN base ELSE G[<<Max(s), f[s \ {Max(s)}]>>]}

\* There is one.
LEMMA FoldExists ==
    ASSUME NEW n \in Nat, NEW B, NEW base \in B, NEW G \in [(1 .. n) \X B -> B]
    PROVE  Folds(n, B, base, G) # {}
<1> DEFINE D == SUBSET (1 .. n)
           A == [D -> B]
           Step == [x \in Nat \X A |->
                      [s \in D |-> IF x[1] + 1 \in s THEN G[<<x[1] + 1, x[2][s \ {x[1] + 1}]>>]
                                                     ELSE x[2][s]]]
           start == [s \in D |-> base]
<1>1. start \in A /\ \A s \in D : start[s] = base
  OBVIOUS
<1>2. ASSUME NEW i \in Nat, NEW h \in A
      PROVE  [s \in D |-> IF i + 1 \in s THEN G[<<i + 1, h[s \ {i + 1}]>>] ELSE h[s]] \in A
  <2>1. ASSUME NEW s \in D PROVE (IF i + 1 \in s THEN G[<<i + 1, h[s \ {i + 1}]>>] ELSE h[s]) \in B
    <3>1. s \ {i + 1} \in D
      OBVIOUS
    <3>2. h[s] \in B /\ h[s \ {i + 1}] \in B
      BY <3>1
    <3>3. i + 1 \in s => i + 1 \in 1 .. n
      OBVIOUS
    <3> QED BY <3>2, <3>3
  <2> QED BY <2>1
<1>3. Step \in [Nat \X A -> A]
  <2>1. \A x \in Nat \X A : x[1] \in Nat /\ x[2] \in A
    OBVIOUS
  <2>2. \A x \in Nat \X A :
           [s \in D |-> IF x[1] + 1 \in s THEN G[<<x[1] + 1, x[2][s \ {x[1] + 1}]>>] ELSE x[2][s]] \in A
    BY <1>2, <2>1, Zenon
  <2> HIDE DEF A
  <2> QED BY <2>2, Zenon
<1>4. \A i \in Nat, h \in A, s \in D :
         Step[<<i, h>>][s] = IF i + 1 \in s THEN G[<<i + 1, h[s \ {i + 1}]>>] ELSE h[s]
  <2> TAKE i \in Nat, h \in A
  <2>1. <<i, h>> \in Nat \X A /\ <<i, h>>[1] = i /\ <<i, h>>[2] = h
    OBVIOUS
  <2>2. Step[<<i, h>>] = [s \in D |-> IF i + 1 \in s THEN G[<<i + 1, h[s \ {i + 1}]>>] ELSE h[s]]
    BY <2>1, Zenon
  <2> QED BY <2>2, Zenon
<1> HIDE DEF Step, start
<1>5. PICK h \in [Nat -> A] : h[0] = start /\ \A i \in Nat : h[i + 1] = Step[<<i, h[i]>>]
  <2> HIDE DEF A
  <2>1. IndexedFunctions(A, start, Step) # {}
    BY <1>1, <1>3, IndexedRecursion
  <2> QED BY <2>1 DEF IndexedFunctions
<1>6. \A i \in Nat : h[i] \in A
  OBVIOUS
<1>7. ASSUME NEW i \in Nat, NEW s \in D
      PROVE  h[i + 1][s] = IF i + 1 \in s THEN G[<<i + 1, h[i][s \ {i + 1}]>>] ELSE h[i][s]
  <2>1. h[i] \in A
    BY <1>6
  <2>2. h[i + 1] = Step[<<i, h[i]>>]
    BY <1>5
  <2> HIDE DEF A, D
  <2>3. Step[<<i, h[i]>>][s] = IF i + 1 \in s THEN G[<<i + 1, h[i][s \ {i + 1}]>>] ELSE h[i][s]
    BY <1>4, <2>1
  <2> QED BY <2>2, <2>3, Zenon
<1> HIDE DEF A
<1> DEFINE Fits(i) == \A s \in D : s \subseteq 1 .. i =>
                         h[i][s] = IF s = {} THEN base ELSE G[<<Max(s), h[i][s \ {Max(s)}]>>]
           Good == {i \in Nat : i <= n => Fits(i)}
<1>8. 0 \in Good
  <2>1. ASSUME NEW s \in D, s \subseteq 1 .. 0 PROVE s = {}
    BY <2>1
  <2> QED BY <1>1, <1>5, <2>1
<1>9. ASSUME NEW i \in Nat, i \in Good PROVE i + 1 \in Good
  <2> SUFFICES ASSUME i + 1 <= n PROVE Fits(i + 1)
    OBVIOUS
  <2>1. Fits(i)
    BY <1>9
  <2> HIDE DEF Fits
  <2>2. PICK j \in 1 .. n : j = i + 1
    OBVIOUS
  <2>3. ASSUME NEW s \in D, s \subseteq 1 .. j
        PROVE  h[j][s] = IF s = {} THEN base ELSE G[<<Max(s), h[j][s \ {Max(s)}]>>]
    <3>1. CASE j \in s
      <4>1. Max(s) = j
        <5>1. s \subseteq Nat /\ \A i1 \in s : i1 <= j
          BY <2>3
        <5> QED BY <3>1, <5>1, MaxOf, Zenon
      <4>2. s \ {j} \in D /\ j \notin s \ {j}
        OBVIOUS
      <4>3. h[j][s \ {j}] = h[i][s \ {j}]
        BY <1>7, <2>2, <4>2, Zenon
      <4>4. h[j][s] = G[<<j, h[i][s \ {j}]>>]
        BY <1>7, <2>2, <3>1, Zenon
      <4> QED BY <3>1, <4>1, <4>3, <4>4, Zenon
    <3>2. CASE j \notin s
      <4>1. s \subseteq 1 .. i
        BY <2>2, <2>3, <3>2
      <4>2. s \ {Max(s)} \in D /\ j \notin s \ {Max(s)}
        BY <3>2
      <4>3. h[j][s] = h[i][s] /\ h[j][s \ {Max(s)}] = h[i][s \ {Max(s)}]
        BY <1>7, <2>2, <3>2, <4>2, Zenon
      <4>4. h[i][s] = IF s = {} THEN base ELSE G[<<Max(s), h[i][s \ {Max(s)}]>>]
        BY <2>1, <4>1 DEF Fits
      <4> QED BY <4>3, <4>4
    <3> QED BY <3>1, <3>2
  <2> QED BY <2>2, <2>3 DEF Fits
<1>10. Fits(n)
  <2>1. n \in Good
    <3> HIDE DEF Good
    <3> QED BY <1>8, <1>9, NatSetInduction
  <2> QED BY <2>1
<1>11. h[n] \in Folds(n, B, base, G)
  <2>1. h[n] \in [SUBSET (1 .. n) -> B]
    BY DEF A
  <2>2. \A s \in SUBSET (1 .. n) :
           h[n][s] = IF s = {} THEN base ELSE G[<<Max(s), h[n][s \ {Max(s)}]>>]
    BY <1>10
  <2> QED BY <2>1, <2>2, Zenon DEF Folds
<1> QED BY <1>11
=============================================================================
