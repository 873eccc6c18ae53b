---------------------------- MODULE FilterProofs ----------------------------
(***************************************************************************)
(* What filtering a sequence preserves.  The library states induction with  *)
(* a predicate as a parameter, which the provers cannot instantiate; here   *)
(* it is stated for a set, and follows from the pigeonhole principle for    *)
(* finite sets: the numbers up to n outside of a set that holds 0 and the   *)
(* successor of each of its members would be mapped injectively into        *)
(* themselves by m |-> m - 1, and so onto themselves, n included.           *)
(***************************************************************************)
EXTENDS Filters, FiniteSetTheorems, SequenceTheorems, TLAPS

(* Induction over the natural numbers.                                      *)
LEMMA NatSetInduction ==
    ASSUME NEW S, 0 \in S, \A n \in Nat : n \in S => n + 1 \in S
    PROVE  Nat \subseteq S
<1> SUFFICES ASSUME NEW n \in Nat, n \notin S PROVE FALSE
    OBVIOUS
<1> DEFINE T == {m \in 0 .. n : m \notin S}
           below == [m \in T |-> m - 1]
<1>1. ASSUME NEW m \in T PROVE m - 1 \in T
  <2>1. m \in Nat /\ m # 0
    OBVIOUS
  <2>2. m - 1 \in Nat /\ (m - 1) + 1 = m /\ m - 1 \in 0 .. n
    BY <2>1
  <2> QED BY <2>2
<1>2. below \in Injection(T, T)
    BY <1>1 DEF Injection, IsInjective
<1>3. IsFiniteSet(T)
  <2>1. IsFiniteSet(0 .. n) /\ T \in SUBSET (0 .. n)
    BY FS_Interval
  <2> QED BY <2>1, FS_Subset
<1>4. below \in Surjection(T, T)
    BY <1>2, <1>3, FS_Injection
<1>5. n \in T
    OBVIOUS
<1>6. \E m \in T : below[m] = n
    BY <1>4, <1>5 DEF Surjection
<1> QED BY <1>6

(* Induction over the sequences of elements of T, by their length.          *)
LEMMA SeqSetInduction ==
    ASSUME NEW T, NEW P, <<>> \in P,
           \A s \in Seq(T), x \in T : s \in P => Append(s, x) \in P
    PROVE  Seq(T) \subseteq P
<1> DEFINE Lengths == {n \in Nat : \A s \in Seq(T) : Len(s) = n => s \in P}
<1>1. 0 \in Lengths
    BY EmptySeq
<1>2. ASSUME NEW n \in Nat, n \in Lengths PROVE n + 1 \in Lengths
  <2> SUFFICES ASSUME NEW s \in Seq(T), Len(s) = n + 1 PROVE s \in P
    OBVIOUS
  <2> DEFINE r == SubSeq(s, 1, n)
  <2>1. r \in Seq(T) /\ Len(r) = n /\ s[n + 1] \in T
    OBVIOUS
  <2>2. s = Append(r, s[n + 1])
    BY <2>1
  <2> QED BY <1>2, <2>1, <2>2
<1> HIDE DEF Lengths
<1>3. Nat \subseteq Lengths
    BY <1>1, <1>2, NatSetInduction
<1> QED BY <1>3 DEF Lengths

(* The equation of the recursive function in Only.                          *)
Filters(g, s, S, n) ==
    g = [i \in 0 .. n |-> IF i = 0 THEN <<>>
                          ELSE IF s[i] \in S THEN Append(g[i - 1], s[i]) ELSE g[i - 1]]

(* The equation has a solution, which Only therefore chooses.               *)
LEMMA KeptExists ==
    ASSUME NEW T, NEW s \in Seq(T), NEW S
    PROVE  \E g : Filters(g, s, S, Len(s))
<1> DEFINE Solved == {n \in Nat : \E g : Filters(g, s, S, n)}
<1>1. 0 \in Solved
  <2>1. Filters([i \in 0 .. 0 |-> <<>>], s, S, 0)
    BY DEF Filters
  <2> QED BY <2>1
<1>2. ASSUME NEW n \in Nat, n \in Solved PROVE n + 1 \in Solved
  <2>1. PICK g : Filters(g, s, S, n)
    BY <1>2
  <2> DEFINE h == [i \in 0 .. n + 1 |->
                     IF i <= n THEN g[i]
                     ELSE IF s[i] \in S THEN Append(g[n], s[i]) ELSE g[n]]
  <2>2. ASSUME NEW i \in 0 .. n + 1
        PROVE  h[i] = IF i = 0 THEN <<>>
                      ELSE IF s[i] \in S THEN Append(h[i - 1], s[i]) ELSE h[i - 1]
    <3>1. CASE i = 0
      BY <2>1, <3>1 DEF Filters
    <3>2. CASE i \in 1 .. n
      <4>1. i \in 0 .. n /\ i - 1 \in 0 .. n /\ i - 1 \in 0 .. n + 1 /\ i # 0
        BY <3>2
      <4>2. h[i] = g[i] /\ h[i - 1] = g[i - 1]
        BY <4>1
      <4> QED BY <2>1, <4>1, <4>2 DEF Filters
    <3>3. CASE i = n + 1
      <4>1. i - 1 = n /\ h[i - 1] = g[n] /\ i # 0 /\ ~(i <= n)
        BY <3>3
      <4> QED BY <4>1
    <3> QED BY <3>1, <3>2, <3>3
  <2>3. Filters(h, s, S, n + 1)
    BY <2>2 DEF Filters
  <2> QED BY <2>3
<1> HIDE DEF Solved
<1>3. Nat \subseteq Solved
    BY <1>1, <1>2, NatSetInduction
<1>4. Len(s) \in Solved
    BY <1>3
<1> QED BY <1>4 DEF Solved

(* So Only is the value of any solution.                                    *)
LEMMA OnlyIsKept ==
    ASSUME NEW T, NEW s \in Seq(T), NEW S
    PROVE  \E g : Filters(g, s, S, Len(s)) /\ Only(s, S) = g[Len(s)]
<1> DEFINE kept == CHOOSE g : Filters(g, s, S, Len(s))
<1>1. Filters(kept, s, S, Len(s))
    BY KeptExists
<1>2. Only(s, S) = kept[Len(s)]
    BY DEF Only, Filters
<1> QED BY <1>1, <1>2

LEMMA OnlyEmpty == ASSUME NEW S PROVE Only(<<>>, S) = <<>>
<1>1. <<>> \in Seq({}) /\ Len(<<>>) = 0
    OBVIOUS
<1>2. PICK g : Filters(g, <<>>, S, 0) /\ Only(<<>>, S) = g[0]
    BY <1>1, OnlyIsKept
<1> QED BY <1>2 DEF Filters

LEMMA OnlyAppend ==
    ASSUME NEW T, NEW s \in Seq(T), NEW x \in T, NEW S
    PROVE  Only(Append(s, x), S) = IF x \in S THEN Append(Only(s, S), x) ELSE Only(s, S)
<1> DEFINE t == Append(s, x)
           n == Len(s)
<1>1. /\ t \in Seq(T) /\ Len(t) = n + 1 /\ t[n + 1] = x /\ n \in Nat
      /\ \A i \in 1 .. n : s[i] = t[i]
    OBVIOUS
<1> HIDE DEF t, n
<1>2. PICK g : Filters(g, s, S, n) /\ Only(s, S) = g[n]
    BY OnlyIsKept DEF n
<1>3. PICK h : Filters(h, t, S, n + 1) /\ Only(t, S) = h[n + 1]
    BY <1>1, OnlyIsKept
<1> DEFINE Agree == {i \in Nat : i <= n => g[i] = h[i]}
<1>4. 0 \in Agree
    BY <1>1, <1>2, <1>3 DEF Filters
<1>5. ASSUME NEW i \in Nat, i \in Agree PROVE i + 1 \in Agree
  <2> SUFFICES ASSUME i + 1 <= n PROVE g[i + 1] = h[i + 1]
    OBVIOUS
  <2>1. i + 1 \in 0 .. n /\ i + 1 \in 0 .. n + 1 /\ i + 1 # 0 /\ (i + 1) - 1 = i
    BY <1>1
  <2>2. g[i] = h[i] /\ s[i + 1] = t[i + 1]
    BY <1>1, <1>5
  <2>3. g[i + 1] = IF s[i + 1] \in S THEN Append(g[i], s[i + 1]) ELSE g[i]
    BY <1>2, <2>1 DEF Filters
  <2>4. h[i + 1] = IF t[i + 1] \in S THEN Append(h[i], t[i + 1]) ELSE h[i]
    BY <1>3, <2>1 DEF Filters
  <2> QED BY <2>2, <2>3, <2>4
<1> HIDE DEF Agree
<1>6. n \in Agree
    BY <1>1, <1>4, <1>5, NatSetInduction
<1>7. g[n] = h[n]
    BY <1>1, <1>6 DEF Agree
<1>8. h[n + 1] = IF t[n + 1] \in S THEN Append(h[n], t[n + 1]) ELSE h[n]
  <2>1. n + 1 \in 0 .. n + 1 /\ n + 1 # 0 /\ (n + 1) - 1 = n
    BY <1>1
  <2> QED BY <1>3, <2>1 DEF Filters
<1> QED BY <1>1, <1>2, <1>3, <1>7, <1>8 DEF t

(* The elements of a sequence with one more.                                *)
LEMMA AppendToSet ==
    ASSUME NEW T, NEW s \in Seq(T), NEW x \in T
    PROVE  ToSet(Append(s, x)) = ToSet(s) \union {x}
<1>1. /\ DOMAIN s = 1 .. Len(s) /\ DOMAIN Append(s, x) = 1 .. Len(s) + 1
      /\ \A i \in 1 .. Len(s) : Append(s, x)[i] = s[i]
      /\ Append(s, x)[Len(s) + 1] = x
      /\ Len(s) \in Nat
    OBVIOUS
<1>2. DOMAIN Append(s, x) = DOMAIN s \union {Len(s) + 1}
    BY <1>1
<1> QED BY <1>1, <1>2 DEF ToSet

(* Filters are unfolded from the end, by induction.                         *)
LEMMA OnlyType ==
    ASSUME NEW T, NEW s \in Seq(T), NEW S
    PROVE  /\ Only(s, S) \in Seq(T)
           /\ ToSet(Only(s, S)) = ToSet(s) \cap S
           /\ Len(Only(s, S)) <= Len(s)
           /\ ToSet(s) \subseteq S => Only(s, S) = s
           /\ (\E x \in ToSet(s) : x \notin S) => Len(Only(s, S)) < Len(s)
<1> DEFINE Good(r) == /\ Only(r, S) \in Seq(T)
                      /\ ToSet(Only(r, S)) = ToSet(r) \cap S
                      /\ Len(Only(r, S)) <= Len(r)
                      /\ ToSet(r) \subseteq S => Only(r, S) = r
                      /\ (\E x \in ToSet(r) : x \notin S) => Len(Only(r, S)) < Len(r)
           P == {r \in Seq(T) : Good(r)}
<1>1. <<>> \in P
  <2> DEFINE e == <<>>
  <2>1. e \in Seq(T) /\ Len(e) = 0 /\ Only(e, S) = e
    BY OnlyEmpty
  <2>2. ToSet(e) = {}
    BY DEF ToSet
  <2> HIDE DEF e
  <2> HIDE DEF P
  <2>3. Good(e)
    BY <2>1, <2>2
  <2> QED BY <2>1, <2>3 DEF e, P
<1>2. ASSUME NEW r \in Seq(T), NEW x \in T, r \in P PROVE Append(r, x) \in P
  <2>1. ToSet(Append(r, x)) = ToSet(r) \union {x}
    BY AppendToSet
  <2>2. Append(r, x) \in Seq(T) /\ Len(Append(r, x)) = Len(r) + 1 /\ Len(r) \in Nat
    OBVIOUS
  <2>3. CASE x \in S
    <3> DEFINE o == Only(r, S)
    <3>1. Only(Append(r, x), S) = Append(o, x)
      BY <2>3, OnlyAppend
    <3>2. /\ o \in Seq(T)
          /\ Append(o, x) \in Seq(T) /\ Len(Append(o, x)) = Len(o) + 1
      BY <1>2
    <3>3. ToSet(Append(o, x)) = ToSet(o) \union {x}
      BY <3>2, AppendToSet
    <3>4. Len(o) \in Nat
      BY <3>2
    <3>5. /\ ToSet(o) = ToSet(r) \cap S /\ Len(o) <= Len(r)
          /\ ToSet(r) \subseteq S => o = r
          /\ (\E y \in ToSet(r) : y \notin S) => Len(o) < Len(r)
      BY <1>2
    <3> HIDE DEF o
    <3>6. Good(Append(r, x))
      BY <2>1, <2>2, <2>3, <3>1, <3>2, <3>3, <3>4, <3>5
    <3> QED BY <2>2, <3>6
  <2>4. CASE x \notin S
    <3>1. Only(Append(r, x), S) = Only(r, S)
      BY <2>4, OnlyAppend
    <3>2. Len(Only(r, S)) \in Nat
      BY <1>2
    <3> QED BY <1>2, <2>1, <2>2, <2>4, <3>1, <3>2
  <2> QED BY <2>3, <2>4
<1> HIDE DEF P
<1>3. Seq(T) \subseteq P
    BY <1>1, <1>2, SeqSetInduction
<1> QED BY <1>3 DEF P

(* A filter keeps the order of what it leaves.                              *)
LEMMA OnlyOrder ==
    ASSUME NEW T, NEW s \in Seq(T), NEW S,
           NEW i \in DOMAIN Only(s, S), NEW j \in DOMAIN Only(s, S), i < j
    PROVE  \E a, b \in DOMAIN s : a < b /\ Only(s, S)[i] = s[a] /\ Only(s, S)[j] = s[b]
<1> DEFINE Good(r) == \A k, l \in 1 .. Len(Only(r, S)) : k < l =>
                        \E a, b \in 1 .. Len(r) : /\ a < b
                                                 /\ Only(r, S)[k] = r[a]
                                                 /\ Only(r, S)[l] = r[b]
           P == {r \in Seq(T) : Good(r)}
<1>1. <<>> \in P
    BY OnlyEmpty
<1>2. ASSUME NEW r \in Seq(T), NEW x \in T, r \in P PROVE Append(r, x) \in P
  <2> DEFINE n == Len(r)
             q == Append(r, x)
             o == Only(r, S)
             m == Len(o)
  <2>1. /\ q \in Seq(T) /\ Len(q) = n + 1 /\ n \in Nat /\ q[n + 1] = x
        /\ \A a \in 1 .. n : q[a] = r[a]
    OBVIOUS
  <2>2. /\ o \in Seq(T) /\ m \in Nat /\ ToSet(o) \subseteq ToSet(r)
        /\ \A k \in 1 .. m : \E a \in 1 .. n : o[k] = r[a]
    <3>1. o \in Seq(T) /\ ToSet(o) \subseteq ToSet(r)
      BY OnlyType
    <3>2. DOMAIN o = 1 .. m /\ DOMAIN r = 1 .. n /\ m \in Nat
      BY <3>1
    <3> QED BY <3>1, <3>2 DEF ToSet
  <2>3. \A k, l \in 1 .. m : k < l => \E a, b \in 1 .. n : a < b /\ o[k] = r[a] /\ o[l] = r[b]
    BY <1>2
  <2>4. CASE x \notin S
    <3>1. Only(q, S) = o
      BY <2>4, OnlyAppend
    <3> HIDE DEF q, o, m, n
    <3>2. ASSUME NEW k \in 1 .. m, NEW l \in 1 .. m, k < l
          PROVE  \E a, b \in 1 .. n + 1 : a < b /\ o[k] = q[a] /\ o[l] = q[b]
      <4>1. PICK a \in 1 .. n, b \in 1 .. n : a < b /\ o[k] = r[a] /\ o[l] = r[b]
        BY <2>3, <3>2
      <4>2. q[a] = r[a] /\ q[b] = r[b] /\ a \in 1 .. n + 1 /\ b \in 1 .. n + 1
        BY <2>1
      <4> QED BY <4>1, <4>2
    <3>3. 1 .. Len(q) = 1 .. n + 1 /\ 1 .. Len(Only(q, S)) = 1 .. m
      BY <2>1, <3>1 DEF m
    <3>4. ASSUME NEW k \in 1 .. Len(Only(q, S)), NEW l \in 1 .. Len(Only(q, S)), k < l
          PROVE  \E a, b \in 1 .. Len(q) : /\ a < b
                                          /\ Only(q, S)[k] = q[a]
                                          /\ Only(q, S)[l] = q[b]
      <4>1. k \in 1 .. m /\ l \in 1 .. m
        BY <3>3, <3>4
      <4>2. PICK a \in 1 .. n + 1, b \in 1 .. n + 1 : a < b /\ o[k] = q[a] /\ o[l] = q[b]
        BY <3>2, <3>4, <4>1
      <4> QED BY <3>1, <3>3, <4>2
    <3> QED BY <2>1, <3>4 DEF q
  <2>5. CASE x \in S
    <3>1. Only(q, S) = Append(o, x)
      BY <2>5, OnlyAppend
    <3>2. /\ Len(Append(o, x)) = m + 1 /\ Append(o, x)[m + 1] = x
          /\ \A k \in 1 .. m : Append(o, x)[k] = o[k]
      BY <2>2
    <3> DEFINE p == Append(o, x)
    <3> HIDE DEF q, o, m, n, p
    <3>3. ASSUME NEW k \in 1 .. m + 1, NEW l \in 1 .. m + 1, k < l
          PROVE  \E a, b \in 1 .. n + 1 : a < b /\ p[k] = q[a] /\ p[l] = q[b]
      <4>1. CASE l \in 1 .. m
        <5>1. k \in 1 .. m
          BY <3>3, <4>1, <2>2
        <5>2. PICK a \in 1 .. n, b \in 1 .. n : a < b /\ o[k] = r[a] /\ o[l] = r[b]
          BY <2>3, <3>3, <4>1, <5>1
        <5> QED BY <2>1, <3>2, <4>1, <5>1, <5>2 DEF p
      <4>2. CASE l = m + 1
        <5>1. k \in 1 .. m
          BY <3>3, <4>2, <2>2
        <5>2. PICK a \in 1 .. n : o[k] = r[a]
          BY <2>2, <5>1
        <5>3. a < n + 1 /\ a \in 1 .. n + 1 /\ n + 1 \in 1 .. n + 1
          BY <2>1
        <5>4. p[k] = q[a] /\ p[l] = q[n + 1]
          BY <2>1, <3>2, <4>2, <5>1, <5>2 DEF p
        <5> QED BY <5>3, <5>4
      <4> QED BY <2>2, <4>1, <4>2
    <3>4. Len(p) = m + 1 /\ Only(q, S) = p
      BY <3>1, <3>2 DEF p
    <3>5. 1 .. Len(q) = 1 .. n + 1 /\ 1 .. Len(p) = 1 .. m + 1
      BY <2>1, <3>4
    <3>6. ASSUME NEW k \in 1 .. Len(Only(q, S)), NEW l \in 1 .. Len(Only(q, S)), k < l
          PROVE  \E a, b \in 1 .. Len(q) : /\ a < b
                                          /\ Only(q, S)[k] = q[a]
                                          /\ Only(q, S)[l] = q[b]
      <4>1. k \in 1 .. m + 1 /\ l \in 1 .. m + 1
        BY <3>4, <3>5, <3>6
      <4>2. PICK a \in 1 .. n + 1, b \in 1 .. n + 1 : a < b /\ p[k] = q[a] /\ p[l] = q[b]
        BY <3>3, <3>6, <4>1
      <4> QED BY <3>4, <3>5, <4>2
    <3> QED BY <2>1, <3>6 DEF q
  <2> QED BY <2>4, <2>5
<1> HIDE DEF P
<1>3. Seq(T) \subseteq P
    BY <1>1, <1>2, SeqSetInduction
<1>4. DOMAIN Only(s, S) = 1 .. Len(Only(s, S)) /\ DOMAIN s = 1 .. Len(s)
  <2>1. Only(s, S) \in Seq(T)
    BY OnlyType
  <2> QED BY <2>1
<1>5. Good(s)
    BY <1>3 DEF P
<1> QED BY <1>4, <1>5

(* Filtering twice is filtering for both.                                   *)
LEMMA OnlyTwice ==
    ASSUME NEW T, NEW s \in Seq(T), NEW S, NEW R
    PROVE  Only(Only(s, S), R) = Only(s, S \cap R)
<1> DEFINE P == {r \in Seq(T) : Only(Only(r, S), R) = Only(r, S \cap R)}
<1>1. <<>> \in P
    BY OnlyEmpty
<1>2. ASSUME NEW r \in Seq(T), NEW x \in T, r \in P PROVE Append(r, x) \in P
  <2>1. Only(r, S) \in Seq(T)
    BY OnlyType
  <2>2. Only(Append(r, x), S) = IF x \in S THEN Append(Only(r, S), x) ELSE Only(r, S)
    BY OnlyAppend
  <2>3. Only(Append(Only(r, S), x), R) =
          IF x \in R THEN Append(Only(Only(r, S), R), x) ELSE Only(Only(r, S), R)
    BY <2>1, OnlyAppend
  <2>4. Only(Append(r, x), S \cap R) =
          IF x \in S \cap R THEN Append(Only(r, S \cap R), x) ELSE Only(r, S \cap R)
    BY OnlyAppend
  <2>5. Only(Only(r, S), R) = Only(r, S \cap R)
    BY <1>2
  <2>6. Only(Only(Append(r, x), S), R) = Only(Append(r, x), S \cap R)
    <3>1. CASE x \in S /\ x \in R
      BY <2>2, <2>3, <2>4, <2>5, <3>1
    <3>2. CASE x \in S /\ x \notin R
      BY <2>2, <2>3, <2>4, <2>5, <3>2
    <3>3. CASE x \notin S
      BY <2>2, <2>4, <2>5, <3>3
    <3> QED BY <3>1, <3>2, <3>3
  <2>7. Append(r, x) \in Seq(T)
    OBVIOUS
  <2> QED BY <2>6, <2>7
<1> HIDE DEF P
<1>3. Seq(T) \subseteq P
    BY <1>1, <1>2, SeqSetInduction
<1> QED BY <1>3 DEF P

(* Only the elements of the sequence matter.                                *)
LEMMA OnlySame ==
    ASSUME NEW T, NEW s \in Seq(T), NEW S, NEW R, \A x \in T : x \in S <=> x \in R
    PROVE  Only(s, S) = Only(s, R)
<1> DEFINE P == {r \in Seq(T) : Only(r, S) = Only(r, R)}
<1>1. <<>> \in P
    BY OnlyEmpty
<1>2. ASSUME NEW r \in Seq(T), NEW x \in T, r \in P PROVE Append(r, x) \in P
  <2>1. Only(Append(r, x), S) = IF x \in S THEN Append(Only(r, S), x) ELSE Only(r, S)
    BY OnlyAppend
  <2>2. Only(Append(r, x), R) = IF x \in R THEN Append(Only(r, R), x) ELSE Only(r, R)
    BY OnlyAppend
  <2>3. Only(r, S) = Only(r, R) /\ (x \in S <=> x \in R)
    BY <1>2
  <2>4. Only(Append(r, x), S) = Only(Append(r, x), R)
    BY <2>1, <2>2, <2>3, Zenon
  <2>5. Append(r, x) \in Seq(T)
    OBVIOUS
  <2> QED BY <2>4, <2>5
<1> HIDE DEF P
<1>3. Seq(T) \subseteq P
    BY <1>1, <1>2, SeqSetInduction
<1> QED BY <1>3 DEF P

LEMMA AppendConcat ==
    ASSUME NEW T, NEW s \in Seq(T), NEW t \in Seq(T), NEW x \in T
    PROVE  s \o Append(t, x) = Append(s \o t, x)
<1>1. s \o t \in Seq(T) /\ <<x>> \in Seq(T)
    OBVIOUS
<1>2. s \o (t \o <<x>>) = (s \o t) \o <<x>>
    BY <1>1, ConcatAssociative
<1>3. Append(t, x) = t \o <<x>> /\ Append(s \o t, x) = (s \o t) \o <<x>>
    BY <1>1, AppendIsConcat
<1> QED BY <1>1, <1>2, <1>3

(* A filter goes through a concatenation.                                   *)
LEMMA OnlyConcat ==
    ASSUME NEW T, NEW s \in Seq(T), NEW t \in Seq(T), NEW S
    PROVE  Only(s \o t, S) = Only(s, S) \o Only(t, S)
<1> DEFINE P == {r \in Seq(T) : Only(s \o r, S) = Only(s, S) \o Only(r, S)}
<1>0. Only(s, S) \in Seq(T)
    BY OnlyType
<1>1. <<>> \in P
  <2>1. s \o <<>> = s /\ Only(s, S) \o <<>> = Only(s, S) /\ Only(<<>>, S) = <<>>
    BY <1>0, OnlyEmpty, ConcatEmptySeq
  <2>2. Only(s \o <<>>, S) = Only(s, S) \o Only(<<>>, S)
    BY <2>1, Zenon
  <2>3. <<>> \in Seq(T)
    OBVIOUS
  <2> QED BY <2>2, <2>3, Zenon
<1>2. ASSUME NEW r \in Seq(T), NEW x \in T, r \in P PROVE Append(r, x) \in P
  <2>1. s \o r \in Seq(T) /\ s \o Append(r, x) = Append(s \o r, x)
    BY AppendConcat
  <2>2. Only(Append(r, x), S) = IF x \in S THEN Append(Only(r, S), x) ELSE Only(r, S)
    BY OnlyAppend
  <2>3. Only(Append(s \o r, x), S) =
          IF x \in S THEN Append(Only(s \o r, S), x) ELSE Only(s \o r, S)
    BY <2>1, OnlyAppend
  <2>4. Only(r, S) \in Seq(T)
    BY OnlyType
  <2>5. Append(Only(s, S) \o Only(r, S), x) = Only(s, S) \o Append(Only(r, S), x)
    <3> DEFINE o == Only(s, S)
               p == Only(r, S)
    <3>1. o \in Seq(T) /\ p \in Seq(T)
      BY <1>0, <2>4
    <3> HIDE DEF o, p
    <3>2. o \o Append(p, x) = Append(o \o p, x)
      BY <3>1, AppendConcat
    <3> QED BY <3>2 DEF o, p
  <2>6. Append(r, x) \in Seq(T)
    OBVIOUS
  <2>7. Only(s \o r, S) = Only(s, S) \o Only(r, S)
    BY <1>2
  <2> QED BY <2>1, <2>2, <2>3, <2>5, <2>6, <2>7
<1> HIDE DEF P
<1>3. Seq(T) \subseteq P
    BY <1>1, <1>2, SeqSetInduction
<1> QED BY <1>3 DEF P

Mapped(f, s) == [i \in DOMAIN s |-> f[s[i]]]

(* If f maps the elements of s, and those in S to R, it maps what is left.  *)
LEMMA OnlyImage ==
    ASSUME NEW T, NEW s \in Seq(T), NEW f, NEW S, NEW R, \A x \in T : x \in S <=> f[x] \in R
    PROVE  Only(Mapped(f, s), R) = Mapped(f, Only(s, S))
<1> DEFINE U == {f[x] : x \in T}
           M(r) == Mapped(f, r)
           P == {r \in Seq(T) : Only(M(r), R) = M(Only(r, S))}
<1>1. <<>> \in P
  <2>1. M(<<>>) = <<>> /\ <<>> \in Seq(T)
    BY DEF Mapped
  <2> HIDE DEF M, U
  <2>2. Only(M(<<>>), R) = M(Only(<<>>, S))
    BY <2>1, OnlyEmpty, Zenon
  <2> QED BY <2>1, <2>2, Zenon
<1>2. ASSUME NEW r \in Seq(T), NEW x \in T 
      PROVE M(r) \in Seq(U) /\ M(Append(r, x)) = Append(M(r), f[x])
  <2>1. \A i \in DOMAIN r : f[r[i]] \in U
    OBVIOUS
  <2> HIDE DEF U
  <2>2. M(r) \in Seq(U)
    BY <2>1 DEF Mapped
  <2>3. M(Append(r, x)) = Append(M(r), f[x])
    BY DEF Mapped
  <2> QED BY <2>2, <2>3
<1>3. ASSUME NEW r \in Seq(T), NEW x \in T, r \in P PROVE Append(r, x) \in P
  <2>1. Only(r, S) \in Seq(T)
    BY OnlyType
  <2>2. M(r) \in Seq(U) /\ M(Append(r, x)) = Append(M(r), f[x])
    BY <1>2
  <2>3. M(Append(Only(r, S), x)) = Append(M(Only(r, S)), f[x])
    BY <1>2, <2>1
  <2>4. Only(r, S) \in Seq(T) /\ f[x] \in U /\ (x \in S <=> f[x] \in R)
    BY <2>1
  <2>5. Only(Append(r, x), S) = IF x \in S THEN Append(Only(r, S), x) ELSE Only(r, S)
    BY OnlyAppend
  <2> HIDE DEF M, U
  <2>6. Only(Append(M(r), f[x]), R) =
          IF f[x] \in R THEN Append(Only(M(r), R), f[x]) ELSE Only(M(r), R)
    <3> DEFINE m == M(r)
               y == f[x]
    <3>1. m \in Seq(U) /\ y \in U
      BY <2>2, <2>4
    <3> HIDE DEF m, y
    <3>2. Only(Append(m, y), R) = IF y \in R THEN Append(Only(m, R), y) ELSE Only(m, R)
      BY <3>1, OnlyAppend
    <3> QED BY <3>2 DEF m, y
  <2>7. Append(r, x) \in Seq(T)
    OBVIOUS
  <2> QED BY <1>3, <2>2, <2>3, <2>4, <2>5, <2>6, <2>7
<1> HIDE DEF P
<1>4. Seq(T) \subseteq P
    BY <1>1, <1>3, SeqSetInduction
<1> QED BY <1>4 DEF P

(* A filter leaves nothing twice that was there once.                       *)
LEMMA OnlyInjective ==
    ASSUME NEW T, NEW s \in Seq(T), IsInjective(s), NEW S
    PROVE  IsInjective(Only(s, S))
<1> SUFFICES ASSUME NEW i \in DOMAIN Only(s, S), NEW j \in DOMAIN Only(s, S), i # j
             PROVE  Only(s, S)[i] # Only(s, S)[j]
    BY DEF IsInjective
<1>1. i \in Nat /\ j \in Nat
  <2>1. Only(s, S) \in Seq(T)
    BY OnlyType
  <2> QED BY <2>1
<1>2. \A k, l \in DOMAIN Only(s, S) : k < l => Only(s, S)[k] # Only(s, S)[l]
  <2> SUFFICES ASSUME NEW k \in DOMAIN Only(s, S), NEW l \in DOMAIN Only(s, S), k < l
               PROVE  Only(s, S)[k] # Only(s, S)[l]
    OBVIOUS
  <2>1. PICK a, b \in DOMAIN s : a < b /\ Only(s, S)[k] = s[a] /\ Only(s, S)[l] = s[b]
    BY OnlyOrder
  <2>2. a # b
    BY <2>1
  <2> QED BY <2>1, <2>2 DEF IsInjective
<1>3. i < j \/ j < i
    BY <1>1
<1> QED BY <1>2, <1>3

(* What is moved to the end of a sequence without repetition.               *)
LEMMA MovedToEnd ==
    ASSUME NEW T, NEW s \in Seq(T), IsInjective(s), NEW S, NEW x \in T, x \notin S
    PROVE  /\ Append(Only(s, S), x) \in Seq(T)
           /\ IsInjective(Append(Only(s, S), x))
           /\ ToSet(Append(Only(s, S), x)) = (ToSet(s) \cap S) \union {x}
<1> DEFINE r == Only(s, S)
<1>1. r \in Seq(T) /\ ToSet(r) = ToSet(s) \cap S /\ IsInjective(r)
    BY OnlyType, OnlyInjective
<1> HIDE DEF r
<1>2. Append(r, x) \in Seq(T) /\ ToSet(Append(r, x)) = ToSet(r) \union {x}
    BY <1>1, AppendToSet
<1>3. IsInjective(Append(r, x))
  <2>1. \A i \in DOMAIN r : r[i] # x
    BY <1>1 DEF ToSet
  <2>2. /\ DOMAIN r = 1 .. Len(r) /\ DOMAIN Append(r, x) = 1 .. Len(r) + 1
        /\ \A i \in 1 .. Len(r) : Append(r, x)[i] = r[i]
        /\ Append(r, x)[Len(r) + 1] = x /\ Len(r) \in Nat
    BY <1>1
  <2>3. \A i \in DOMAIN Append(r, x) : i \in DOMAIN r \/ i = Len(r) + 1
    BY <2>2
  <2> QED BY <1>1, <2>1, <2>2, <2>3 DEF IsInjective
<1> QED BY <1>1, <1>2, <1>3 DEF r

-----------------------------------------------------------------------------
(* The equation of the recursive function in FlattenSeq.                    *)
Flattens(g, seqs) ==
    g = [i \in 1 .. Len(seqs) |-> IF i = 1 THEN seqs[i] ELSE g[i - 1] \o seqs[i]]

(* A solution for a sequence goes on for one more.                          *)
LEMMA FlattensOneMore ==
    ASSUME NEW T, NEW s \in Seq(T), NEW x \in T, NEW g, Flattens(g, s),
           NEW h, h = [i \in 1 .. Len(s) + 1 |-> IF i <= Len(s) THEN g[i]
                                               ELSE IF Len(s) = 0 THEN x ELSE g[Len(s)] \o x]
    PROVE  Flattens(h, Append(s, x))
<1> DEFINE t == Append(s, x)
           n == Len(s)
<1>1. t \in Seq(T) /\ Len(t) = n + 1 /\ t[n + 1] = x /\ n \in Nat /\ \A i \in 1 .. n : s[i] = t[i]
    OBVIOUS
<1> HIDE DEF t
<1>2. ASSUME NEW i \in 1 .. n + 1 PROVE h[i] = IF i = 1 THEN t[i] ELSE h[i - 1] \o t[i]
  <2>1. CASE i <= n
    <3>1. i \in 1 .. n /\ h[i] = g[i] /\ s[i] = t[i]
      BY <1>1, <2>1
    <3>2. g[i] = IF i = 1 THEN s[i] ELSE g[i - 1] \o s[i]
      BY <3>1 DEF Flattens
    <3>3. i # 1 => h[i - 1] = g[i - 1]
      BY <1>1, <2>1
    <3> QED BY <3>1, <3>2, <3>3
  <2>2. CASE i = n + 1
    <3>1. h[i] = IF n = 0 THEN x ELSE g[n] \o x
      BY <1>1, <2>2
    <3>2. n # 0 => i # 1 /\ h[i - 1] = g[n]
      BY <1>1, <2>2
    <3> QED BY <1>1, <2>2, <3>1, <3>2
  <2> QED BY <1>1, <2>1, <2>2
<1>3. h = [i \in 1 .. n + 1 |-> h[i]]
    OBVIOUS
<1>4. h = [i \in 1 .. n + 1 |-> IF i = 1 THEN t[i] ELSE h[i - 1] \o t[i]]
    BY <1>2, <1>3
<1> QED BY <1>1, <1>4 DEF Flattens, t

LEMMA FlattenExists ==
    ASSUME NEW T, NEW s \in Seq(T)
    PROVE  \E g : Flattens(g, s)
<1> DEFINE P == {r \in Seq(T) : \E g : Flattens(g, r)}
<1>1. <<>> \in P
  <2>1. Flattens(<<>>, <<>>)
    BY DEF Flattens
  <2>2. <<>> \in Seq(T)
    OBVIOUS
  <2> QED BY <2>1, <2>2
<1>2. ASSUME NEW r \in Seq(T), NEW x \in T, r \in P PROVE Append(r, x) \in P
  <2>1. PICK g : Flattens(g, r)
    BY <1>2
  <2>2. \E h : Flattens(h, Append(r, x))
    BY <2>1, FlattensOneMore
  <2> QED BY <2>2
<1> HIDE DEF P
<1>3. Seq(T) \subseteq P
    BY <1>1, <1>2, SeqSetInduction
<1> QED BY <1>3 DEF P

(* There is no other.                                                       *)
LEMMA FlattensAgree ==
    ASSUME NEW T, NEW s \in Seq(T), NEW g, NEW h, Flattens(g, s), Flattens(h, s)
    PROVE  g = h
<1> DEFINE n == Len(s)
           Agree == {i \in Nat : i \in 1 .. n => g[i] = h[i]}
<1>1. n \in Nat
    OBVIOUS
<1>2. 0 \in Agree
    OBVIOUS
<1>3. ASSUME NEW i \in Nat, i \in Agree PROVE i + 1 \in Agree
  <2> SUFFICES ASSUME i + 1 \in 1 .. n PROVE g[i + 1] = h[i + 1]
    OBVIOUS
  <2>1. i + 1 # 1 => g[i] = h[i] /\ (i + 1) - 1 = i
    BY <1>1, <1>3
  <2>2. /\ g[i + 1] = IF i + 1 = 1 THEN s[i + 1] ELSE g[(i + 1) - 1] \o s[i + 1]
        /\ h[i + 1] = IF i + 1 = 1 THEN s[i + 1] ELSE h[(i + 1) - 1] \o s[i + 1]
    BY DEF Flattens
  <2> QED BY <2>1, <2>2
<1> HIDE DEF Agree
<1>4. Nat \subseteq Agree
    BY <1>2, <1>3, NatSetInduction
<1>5. \A i \in 1 .. n : g[i] = h[i]
    BY <1>1, <1>4 DEF Agree
<1> QED BY <1>5 DEF Flattens

(* FlattenSeq is unfolded from the end.                                     *)
LEMMA FlattenEmpty == FlattenSeq(<<>>) = <<>>
BY DEF FlattenSeq

LEMMA FlattenAppend ==
    ASSUME NEW T, NEW s \in Seq(Seq(T)), NEW x \in Seq(T)
    PROVE  FlattenSeq(Append(s, x)) = FlattenSeq(s) \o x
<1> DEFINE n == Len(s)
           g == CHOOSE f : Flattens(f, s)
           h == [i \in 1 .. n + 1 |-> IF i <= n THEN g[i] ELSE IF n = 0 THEN x ELSE g[n] \o x]
           k == CHOOSE f : Flattens(f, Append(s, x))
<1>1. n \in Nat /\ Len(Append(s, x)) = n + 1 /\ Append(s, x) \in Seq(Seq(T))
    OBVIOUS
<1>2. Flattens(g, s) /\ Flattens(k, Append(s, x))
    BY <1>1, FlattenExists
<1> HIDE DEF g, k
<1>3. Flattens(h, Append(s, x))
    BY <1>2, FlattensOneMore
<1>4. h = k
  <2> HIDE DEF h
  <2> QED BY <1>1, <1>2, <1>3, FlattensAgree
<1>5. FlattenSeq(s) = IF n = 0 THEN s ELSE g[n]
    BY DEF FlattenSeq, Flattens, g
<1>6. FlattenSeq(Append(s, x)) = k[n + 1]
  <2>1. n + 1 # 0
    BY <1>1
  <2> QED BY <1>1, <2>1 DEF FlattenSeq, Flattens, k
<1>7. k[n + 1] = IF n = 0 THEN x ELSE g[n] \o x
  <2>1. n + 1 \in 1 .. n + 1 /\ ~(n + 1 <= n)
    BY <1>1
  <2>2. h[n + 1] = IF n = 0 THEN x ELSE g[n] \o x
    BY <2>1
  <2> QED BY <1>4, <2>2
<1>8. n = 0 => s \o x = x
    BY EmptySeq, ConcatEmptySeq
<1> QED BY <1>5, <1>6, <1>7, <1>8

LEMMA FlattenType ==
    ASSUME NEW T, NEW s \in Seq(Seq(T))
    PROVE  FlattenSeq(s) \in Seq(T)
<1> DEFINE P == {r \in Seq(Seq(T)) : FlattenSeq(r) \in Seq(T)}
<1>1. <<>> \in P
  <2>1. <<>> \in Seq(Seq(T)) /\ <<>> \in Seq(T)
    OBVIOUS
  <2>2. FlattenSeq(<<>>) \in Seq(T)
    BY <2>1, FlattenEmpty, Zenon
  <2> QED BY <2>1, <2>2, Zenon
<1>2. ASSUME NEW r \in Seq(Seq(T)), NEW x \in Seq(T), r \in P PROVE Append(r, x) \in P
  <2>1. FlattenSeq(Append(r, x)) = FlattenSeq(r) \o x
    BY FlattenAppend
  <2>2. FlattenSeq(r) \in Seq(T)
    BY <1>2
  <2>3. FlattenSeq(r) \o x \in Seq(T)
    <3> HIDE DEF P
    <3> DEFINE flat == FlattenSeq(r)
    <3>1. flat \in Seq(T)
      BY <2>2
    <3> HIDE DEF flat
    <3>2. flat \o x \in Seq(T)
      BY <3>1
    <3> QED BY <3>2 DEF flat
  <2>4. Append(r, x) \in Seq(Seq(T))
    OBVIOUS
  <2> QED BY <2>1, <2>3, <2>4, Zenon
<1> HIDE DEF P
<1>3. Seq(Seq(T)) \subseteq P
    BY <1>1, <1>2, SeqSetInduction
<1> QED BY <1>3 DEF P
=============================================================================
