---------------------------- MODULE Filter_proofs ----------------------------
(***************************************************************************)
(* What the list comprehension Only returns, for every list and every set. *)
(*                                                                         *)
(* Only is recursive, so these are inductions.  The induction theorems of  *)
(* the library take a predicate as a parameter, with which the provers     *)
(* cannot do anything, but a set they can be given: each induction here    *)
(* takes the set of the numbers for which the claim fails, and looks at    *)
(* the least one.                                                          *)
(***************************************************************************)
EXTENDS Filter, Integers, SequenceTheorems, WellFoundedInduction, TLAPS

\* The least number principle, for a set.
LEMMA LeastNat ==
  ASSUME NEW T \in SUBSET Nat, T # {}
  PROVE  \E n \in T : \A m \in T : n <= m
<1>1. PICK n \in T : \A m \in T : ~ (<<m, n>> \in OpToRel(<, Nat))
  BY NatLessThanWellFounded, WFMin
<1>2. \A m \in T : ~ (m < n)
  BY <1>1 DEF OpToRel
<1> QED BY <1>2

-----------------------------------------------------------------------------
\* f[m] is what remains of the first m elements.
Prefixes(s, T, n, f) ==
    f = [m \in 0 .. n |->
            IF m = 0 THEN <<>>
            ELSE IF s[m] \in T THEN Append(f[m - 1], s[m]) ELSE f[m - 1]]

\* The recursion has a solution as far as one likes: one more step extends it.
LEMMA PrefixesExist ==
  ASSUME NEW s, NEW T, NEW k \in Nat
  PROVE  \E f : Prefixes(s, T, k, f)
<1> DEFINE Bad == {n \in Nat : ~ \E f : Prefixes(s, T, n, f)}
<1>1. SUFFICES ASSUME Bad # {} PROVE FALSE
  OBVIOUS
<1>2. PICK n \in Bad : \A m \in Bad : n <= m
  BY <1>1, LeastNat
<1>3. CASE n = 0
  <2> DEFINE f == [m \in 0 .. 0 |-> <<>>]
  <2>1. Prefixes(s, T, 0, f)
    BY DEF Prefixes
  <2> QED BY <1>2, <1>3, <2>1
<1>4. CASE n # 0
  <2>1. n \in Nat /\ n - 1 \in Nat /\ n - 1 \notin Bad
    BY <1>2, <1>4
  <2>2. PICK f : Prefixes(s, T, n - 1, f)
    BY <2>1
  <2> DEFINE step == IF s[n] \in T THEN Append(f[n - 1], s[n]) ELSE f[n - 1]
             g == [m \in 0 .. n |-> IF m = n THEN step ELSE f[m]]
  <2>3. \A m \in 0 .. n - 1 : f[m] = IF m = 0 THEN <<>>
            ELSE IF s[m] \in T THEN Append(f[m - 1], s[m]) ELSE f[m - 1]
    BY <2>2 DEF Prefixes
  <2>4. \A m \in 0 .. n : g[m] = IF m = 0 THEN <<>>
            ELSE IF s[m] \in T THEN Append(g[m - 1], s[m]) ELSE g[m - 1]
    BY <2>1, <2>3, <1>4
  <2>5. Prefixes(s, T, n, g)
    BY <2>4 DEF Prefixes
  <2> QED BY <1>2, <2>5
<1> QED BY <1>3, <1>4

LEMMA OnlyPrefixes ==
  ASSUME NEW s, NEW T, Len(s) \in Nat
  PROVE  \E f : Prefixes(s, T, Len(s), f) /\ Only(s, T) = f[Len(s)]
<1> DEFINE f == CHOOSE g : Prefixes(s, T, Len(s), g)
<1>1. Prefixes(s, T, Len(s), f)
  BY PrefixesExist
<1>2. Only(s, T) = f[Len(s)]
  BY DEF Only, Prefixes
<1> QED BY <1>1, <1>2

\* The definition of Only as an equation.
LEMMA OnlyPrefix ==
  ASSUME NEW S, NEW s \in Seq(S), NEW T
  PROVE  \E f : /\ f[0] = <<>>
                /\ \A n \in 1 .. Len(s) :
                      f[n] = IF s[n] \in T THEN Append(f[n - 1], s[n]) ELSE f[n - 1]
                /\ Only(s, T) = f[Len(s)]
<1>0. Len(s) \in Nat
  OBVIOUS
<1>1. PICK f : Prefixes(s, T, Len(s), f) /\ Only(s, T) = f[Len(s)]
  BY OnlyPrefixes, <1>0
<1>2. \A m \in 0 .. Len(s) :
         f[m] = IF m = 0 THEN <<>>
                ELSE IF s[m] \in T THEN Append(f[m - 1], s[m]) ELSE f[m - 1]
  BY <1>1 DEF Prefixes
<1>3. f[0] = <<>>
  BY <1>2, <1>0
<1>4. \A n \in 1 .. Len(s) :
          f[n] = IF s[n] \in T THEN Append(f[n - 1], s[n]) ELSE f[n - 1]
  BY <1>2, <1>0
<1> QED BY <1>1, <1>3, <1>4

\* What is kept depends on nothing but which elements of s are in the set.
LEMMA OnlySame ==
  ASSUME NEW S, NEW s \in Seq(S), NEW T, NEW U,
         \A i \in 1 .. Len(s) : s[i] \in T <=> s[i] \in U
  PROVE  Only(s, T) = Only(s, U)
<1>0. Len(s) \in Nat
  OBVIOUS
<1>1. PICK f : /\ f[0] = <<>>
               /\ \A n \in 1 .. Len(s) :
                     f[n] = IF s[n] \in T THEN Append(f[n - 1], s[n]) ELSE f[n - 1]
               /\ Only(s, T) = f[Len(s)]
  BY OnlyPrefix
<1>2. PICK g : /\ g[0] = <<>>
               /\ \A n \in 1 .. Len(s) :
                     g[n] = IF s[n] \in U THEN Append(g[n - 1], s[n]) ELSE g[n - 1]
               /\ Only(s, U) = g[Len(s)]
  BY OnlyPrefix
<1> DEFINE Bad == {n \in 0 .. Len(s) : f[n] # g[n]}
<1>3. Bad = {}
  <2>1. SUFFICES ASSUME Bad # {} PROVE FALSE
    OBVIOUS
  <2>2. PICK n \in Bad : \A m \in Bad : n <= m
    <3>1. Bad \in SUBSET Nat
      BY <1>0
    <3> QED BY <3>1, <2>1, LeastNat
  <2>3. n # 0
    BY <1>1, <1>2
  <2>4. n \in 1 .. Len(s) /\ n - 1 \in 0 .. Len(s) /\ n - 1 \notin Bad
    BY <1>0, <2>2, <2>3
  <2>5. f[n - 1] = g[n - 1]
    BY <2>4
  <2> QED BY <1>1, <1>2, <2>2, <2>4, <2>5
<1> QED BY <1>0, <1>1, <1>2, <1>3

-----------------------------------------------------------------------------
\* r consists of those of the first n elements of s that are in T, each in its
\* place: p says where in s it was.
Picks(s, T, n, r, p) ==
    /\ p \in [1 .. Len(r) -> 1 .. n]
    /\ \A i \in 1 .. Len(r) : r[i] = s[p[i]] /\ r[i] \in T
    /\ \A i, j \in 1 .. Len(r) : i < j => p[i] < p[j]
    /\ \A j \in 1 .. n : s[j] \in T => \E i \in 1 .. Len(r) : p[i] = j

LEMMA OnlyPicks ==
  ASSUME NEW S, NEW s \in Seq(S), NEW T
  PROVE  Only(s, T) \in Seq(S) /\ \E p : Picks(s, T, Len(s), Only(s, T), p)
<1>0. Len(s) \in Nat
  OBVIOUS
<1>1. PICK f : /\ f[0] = <<>>
               /\ \A n \in 1 .. Len(s) :
                     f[n] = IF s[n] \in T THEN Append(f[n - 1], s[n]) ELSE f[n - 1]
               /\ Only(s, T) = f[Len(s)]
  BY OnlyPrefix
<1> DEFINE Good(n) == f[n] \in Seq(S) /\ \E p : Picks(s, T, n, f[n], p)
           Bad == {n \in 0 .. Len(s) : ~Good(n)}
<1>2. Bad = {}
  <2>1. SUFFICES ASSUME Bad # {} PROVE FALSE
    OBVIOUS
  <2>2. PICK n \in Bad : \A m \in Bad : n <= m
    <3>1. Bad \in SUBSET Nat
      BY <1>0
    <3> HIDE DEF Bad
    <3> QED BY <3>1, <2>1, LeastNat
  <2>3. n # 0
    <3>1. f[0] \in Seq(S) /\ Len(f[0]) = 0
      BY <1>1
    <3>2. Picks(s, T, 0, f[0], <<>>)
      BY <1>1 DEF Picks
    <3> QED BY <2>2, <3>1, <3>2
  <2>4. n \in 1 .. Len(s) /\ n - 1 \in 0 .. Len(s) /\ Good(n - 1)
    <3>1. n \in 0 .. Len(s)
      BY <2>2
    <3>2. n \in 1 .. Len(s) /\ n - 1 \in 0 .. Len(s) /\ n - 1 < n
      BY <1>0, <2>3, <3>1
    <3>3. n - 1 \notin Bad
      <4> HIDE DEF Bad
      <4> QED BY <1>0, <2>2, <3>2
    <3> HIDE DEF Good
    <3> QED BY <3>2, <3>3
  <2> DEFINE q == f[n - 1]
  <2>5. q \in Seq(S) /\ Len(q) \in Nat
    BY <2>4
  <2>6. PICK p : Picks(s, T, n - 1, q, p)
    BY <2>4
  <2>7. s[n] \in S
    BY <2>4
  <2>8. CASE s[n] \notin T
    <3>1. f[n] = q
      BY <1>1, <2>4, <2>8
    <3>2. p \in [1 .. Len(q) -> 1 .. n]
      BY <2>4, <2>5, <2>6 DEF Picks
    <3>3. \A j \in 1 .. n : s[j] \in T => j \in 1 .. n - 1
      BY <2>4, <2>8
    <3>4. Picks(s, T, n, q, p)
      BY <2>6, <3>2, <3>3 DEF Picks
    <3> QED BY <2>2, <2>5, <3>1, <3>4
  <2>9. CASE s[n] \in T
    <3> DEFINE r == Append(q, s[n])
               h == [i \in 1 .. Len(q) + 1 |-> IF i = Len(q) + 1 THEN n ELSE p[i]]
    <3>1. f[n] = r
      BY <1>1, <2>4, <2>9
    <3>2. r \in Seq(S) /\ Len(r) = Len(q) + 1 /\ r[Len(q) + 1] = s[n]
          /\ \A i \in 1 .. Len(q) : r[i] = q[i]
      BY <2>5, <2>7
    <3>3. \A i \in 1 .. Len(q) : p[i] \in 1 .. n - 1
      BY <2>6 DEF Picks
    <3>4. h \in [1 .. Len(r) -> 1 .. n]
      <4>1. ASSUME NEW i \in 1 .. Len(q) + 1 PROVE h[i] \in 1 .. n
        <5>1. CASE i = Len(q) + 1
          BY <2>4, <5>1
        <5>2. CASE i # Len(q) + 1
          <6>1. i \in 1 .. Len(q)
            BY <2>5, <5>2
          <6> QED BY <2>4, <3>3, <5>2, <6>1
        <5> QED BY <5>1, <5>2
      <4> QED BY <3>2, <4>1
    <3>5. \A i \in 1 .. Len(r) : r[i] = s[h[i]] /\ r[i] \in T
      BY <2>5, <2>6, <2>9, <3>2 DEF Picks
    <3>6. \A i, j \in 1 .. Len(r) : i < j => h[i] < h[j]
      <4> SUFFICES ASSUME NEW i \in 1 .. Len(r), NEW j \in 1 .. Len(r), i < j
                   PROVE  h[i] < h[j]
        OBVIOUS
      <4>1. i \in 1 .. Len(q) /\ h[i] = p[i] /\ p[i] \in 1 .. n - 1
        BY <2>5, <3>2, <3>3
      <4>2. CASE j = Len(q) + 1
        <5>1. h[j] = n
          BY <4>2, <3>2
        <5> QED BY <2>4, <4>1, <5>1
      <4>3. CASE j # Len(q) + 1
        <5>1. j \in 1 .. Len(q) /\ h[j] = p[j]
          BY <2>5, <3>2, <4>3
        <5> QED BY <2>6, <4>1, <5>1 DEF Picks
      <4> QED BY <4>2, <4>3
    <3>7. \A j \in 1 .. n : s[j] \in T => \E i \in 1 .. Len(r) : h[i] = j
      <4> SUFFICES ASSUME NEW j \in 1 .. n, s[j] \in T
                   PROVE  \E i \in 1 .. Len(r) : h[i] = j
        OBVIOUS
      <4>1. CASE j = n
        <5>1. Len(r) \in 1 .. Len(r) /\ h[Len(r)] = n
          BY <2>5, <3>2
        <5> QED BY <4>1, <5>1
      <4>2. CASE j # n
        <5>1. PICK i \in 1 .. Len(q) : p[i] = j
          BY <2>4, <2>6, <4>2 DEF Picks
        <5>2. i \in 1 .. Len(r) /\ h[i] = j
          BY <2>5, <3>2, <5>1
        <5> QED BY <5>2
      <4> QED BY <4>1, <4>2
    <3>8. Picks(s, T, n, r, h)
      BY <3>4, <3>5, <3>6, <3>7 DEF Picks
    <3> QED BY <2>2, <3>1, <3>2, <3>8
  <2> QED BY <2>8, <2>9
<1>3. Good(Len(s))
  BY <1>0, <1>2
<1> QED BY <1>1, <1>3

-----------------------------------------------------------------------------
\* The same, for those who do not ask for the places.

LEMMA OnlyType ==
  ASSUME NEW S, NEW s \in Seq(S), NEW T
  PROVE  Only(s, T) \in Seq(S)
BY OnlyPicks

LEMMA OnlyLength ==
  ASSUME NEW S, NEW s \in Seq(S), NEW T
  PROVE  Len(Only(s, T)) \in 0 .. Len(s)
<1>0. Len(s) \in Nat
  OBVIOUS
<1>1. PICK f : /\ f[0] = <<>>
               /\ \A n \in 1 .. Len(s) :
                     f[n] = IF s[n] \in T THEN Append(f[n - 1], s[n]) ELSE f[n - 1]
               /\ Only(s, T) = f[Len(s)]
  BY OnlyPrefix
<1> DEFINE Bad == {n \in 0 .. Len(s) : ~ (f[n] \in Seq(S) /\ Len(f[n]) <= n)}
<1>2. Bad = {}
  <2>1. SUFFICES ASSUME Bad # {} PROVE FALSE
    OBVIOUS
  <2>2. PICK n \in Bad : \A m \in Bad : n <= m
    <3>1. Bad \in SUBSET Nat
      BY <1>0
    <3> QED BY <3>1, <2>1, LeastNat
  <2>3. n # 0
    <3>1. <<>> \in Seq(S) /\ Len(<<>>) <= 0
      OBVIOUS
    <3> QED BY <1>1, <2>2, <3>1
  <2>4. n \in 1 .. Len(s) /\ n - 1 \in 0 .. Len(s) /\ n - 1 \notin Bad
    BY <1>0, <2>2, <2>3
  <2>5. PICK r \in Seq(S) : r = f[n - 1] /\ Len(r) <= n - 1
    BY <2>4
  <2>6. s[n] \in S
    BY <2>4, ElementOfSeq
  <2>7. Append(r, s[n]) \in Seq(S) /\ Len(Append(r, s[n])) = Len(r) + 1
    BY <2>6
  <2>8. f[n] \in {r, Append(r, s[n])}
    BY <1>1, <2>4, <2>5
  <2>9. Len(r) \in Nat /\ Len(r) <= n /\ Len(r) + 1 <= n
    BY <2>4, <2>5
  <2>10. f[n] \in Seq(S) /\ Len(f[n]) <= n
    BY <2>5, <2>7, <2>8, <2>9
  <2> QED BY <2>2, <2>10
<1>3. Len(s) \in 0 .. Len(s)
  BY <1>0
<1>4. Only(s, T) \in Seq(S) /\ Len(Only(s, T)) <= Len(s)
  BY <1>1, <1>2, <1>3
<1> QED BY <1>0, <1>4

LEMMA OnlyElements ==
  ASSUME NEW S, NEW s \in Seq(S), NEW T
  PROVE  Elements(Only(s, T)) = Elements(s) \cap T
<1>1. PICK p : Picks(s, T, Len(s), Only(s, T), p)
  BY OnlyPicks
<1>2. DOMAIN s = 1 .. Len(s) /\ DOMAIN Only(s, T) = 1 .. Len(Only(s, T))
  BY OnlyPicks
<1> DEFINE r == Only(s, T)
<1>3. \A i \in 1 .. Len(r) : p[i] \in 1 .. Len(s) /\ r[i] = s[p[i]] /\ r[i] \in T
  BY <1>1 DEF Picks
<1>4. \A j \in 1 .. Len(s) : s[j] \in T => \E i \in 1 .. Len(r) : p[i] = j
  BY <1>1 DEF Picks
<1> HIDE DEF r
<1>5. ASSUME NEW e \in Elements(r) PROVE e \in Elements(s) \cap T
  <2>1. PICK i \in 1 .. Len(r) : e = r[i]
    BY <1>2, <1>5 DEF Elements, r
  <2> QED BY <1>2, <1>3, <2>1 DEF Elements
<1>6. ASSUME NEW e \in Elements(s) \cap T PROVE e \in Elements(r)
  <2>1. PICK j \in 1 .. Len(s) : e = s[j]
    BY <1>2, <1>6 DEF Elements
  <2>2. PICK i \in 1 .. Len(r) : p[i] = j
    BY <1>4, <1>6, <2>1
  <2> QED BY <1>2, <1>3, <2>1, <2>2 DEF Elements, r
<1> QED BY <1>5, <1>6 DEF r

=============================================================================
