-------------------------------- MODULE SeqLemmas --------------------------------
(***************************************************************************)
(* Facts about sequences, and induction.  The library states induction for *)
(* an operator P(_); here it is stated for a set, {n \in Nat : P(n)}, and  *)
(* follows from the library's theorem that what is well-founded has minima.*)
(***************************************************************************)
EXTENDS SequencesExt, WellFoundedInduction, SequenceTheorems, TLAPS

(* One element more at the end *)
LEMMA AppendFacts ==
  ASSUME NEW S, NEW s \in Seq(S), NEW e \in S
  PROVE  /\ Append(s, e) \in Seq(S)
         /\ DOMAIN Append(s, e) = 1..(Len(s) + 1)
         /\ Len(Append(s, e)) = Len(s) + 1
         /\ \A i \in 1..Len(s) : Append(s, e)[i] = s[i]
         /\ Append(s, e)[Len(s) + 1] = e
OBVIOUS

(* One element less at the front *)
LEMMA TailFacts ==
  ASSUME NEW S, NEW s \in Seq(S), s # <<>>
  PROVE  /\ Tail(s) \in Seq(S)
         /\ Len(s) >= 1
         /\ Len(Tail(s)) = Len(s) - 1
         /\ DOMAIN Tail(s) = 1..(Len(s) - 1)
         /\ \A i \in 1..(Len(s) - 1) : Tail(s)[i] = s[i + 1]
         /\ Head(s) = s[1]
         /\ Head(s) \in S
OBVIOUS

(* Appending commutes with concatenation *)
LEMMA AppendConcat ==
  ASSUME NEW S, NEW a \in Seq(S), NEW b \in Seq(S), NEW e \in S
  PROVE  a \o Append(b, e) = Append(a \o b, e) /\ a \o b \in Seq(S)
<1>1. Append(b, e) = b \o <<e>> /\ Append(a \o b, e) = (a \o b) \o <<e>> /\ <<e>> \in Seq(S)
  BY AppendIsConcat, ConcatProperties
<1>2. (a \o b) \o <<e>> = a \o (b \o <<e>>)
  BY <1>1, ConcatAssociative
<1>3. a \o b \in Seq(S)
  BY ConcatProperties
<1>4. QED
  BY <1>1, <1>2, <1>3

(* A sequence is its front and its last element *)
LEMMA LastAppend ==
  ASSUME NEW S, NEW s \in Seq(S), s # <<>>
  PROVE  /\ SubSeq(s, 1, Len(s) - 1) \in Seq(S) /\ s[Len(s)] \in S
         /\ s = Append(SubSeq(s, 1, Len(s) - 1), s[Len(s)])
<1>1. PICK n \in Nat : Len(s) = n + 1
  OBVIOUS
<1>2. PICK t \in Seq(S) : t = SubSeq(s, 1, n)
  <2>1. \A i \in 1..n : s[i] \in S
    BY <1>1, ElementOfSeq
  <2>2. SubSeq(s, 1, n) \in Seq(S)
    BY <2>1, SubSeqProperties
  <2>3. QED
    BY <2>2
<1>3. Len(t) = n /\ (\A i \in 1..n : t[i] = s[i]) /\ s[n + 1] \in S
  BY <1>1, <1>2, ElementOfSeq
<1>4. PICK u \in Seq(S) : u = Append(t, s[n + 1])
  BY <1>3, AppendFacts
<1>5. Len(u) = n + 1 /\ \A i \in 1..(n + 1) : u[i] = s[i]
  BY <1>3, <1>4, AppendFacts
<1>6. u = s
  BY <1>1, <1>5, SeqEqual
<1>7. Len(s) - 1 = n
  BY <1>1
<1>8. QED
  BY <1>1, <1>2, <1>3, <1>4, <1>6, <1>7

(* What RemoveAt leaves, and where *)
LEMMA RemoveAtFacts ==
  ASSUME NEW S, NEW s \in Seq(S), NEW i \in 1..Len(s)
  PROVE  /\ RemoveAt(s, i) \in Seq(S)
         /\ Len(RemoveAt(s, i)) = Len(s) - 1
         /\ DOMAIN RemoveAt(s, i) = 1..(Len(s) - 1)
         /\ \A k \in 1..(Len(s) - 1) :
              RemoveAt(s, i)[k] = IF k < i THEN s[k] ELSE s[k + 1]
<1> DEFINE a == SubSeq(s, 1, i - 1)
           b == SubSeq(s, i + 1, Len(s))
<1>1. a \in Seq(S) /\ Len(a) = i - 1 /\ \A k \in 1..(i - 1) : a[k] = s[k]
  OBVIOUS
<1>2. b \in Seq(S) /\ Len(b) = Len(s) - i /\ \A k \in 1..(Len(s) - i) : b[k] = s[k + i]
  OBVIOUS
<1>3. RemoveAt(s, i) = a \o b
  BY DEF RemoveAt
<1> HIDE DEF a, b
<1>4. a \o b \in Seq(S) /\ Len(a \o b) = Len(s) - 1
  <2>1. a \o b \in Seq(S) /\ Len(a \o b) = Len(a) + Len(b)
    BY <1>1, <1>2, ConcatProperties
  <2>2. QED
    BY <1>1, <1>2, <2>1
<1>5. \A k \in 1..(Len(s) - 1) : (a \o b)[k] = IF k < i THEN s[k] ELSE s[k + 1]
  BY <1>1, <1>2
<1>6. QED
  BY <1>3, <1>4, <1>5
-------------------------------------------------------------------------------
(* A set of natural numbers that is not empty has a least element           *)
LEMMA NatMin ==
  ASSUME NEW T \in SUBSET Nat, T # {}
  PROVE  \E n \in T : \A m \in T : n <= m
<1>1. PICK x \in T : \A y \in T : ~(<<y, x>> \in OpToRel(<, Nat))
  BY NatLessThanWellFounded, WFMin
<1>2. \A y \in T : ~(y < x)
  BY <1>1 DEF OpToRel
<1>3. QED
  BY <1>2

(* Induction over the numbers, for a set: what it says of a function is a   *)
(* property of the numbers in the set                                       *)
LEMMA Induction ==
  ASSUME NEW T, 0 \in T, \A n \in Nat : n \in T => n + 1 \in T
  PROVE  \A n \in Nat : n \in T
<1> DEFINE Out == {n \in Nat : n \notin T}
<1> SUFFICES ASSUME Out # {} PROVE FALSE
  OBVIOUS
<1>1. PICK n \in Out : \A m \in Out : n <= m
  BY NatMin
<1>2. n \in Nat /\ n # 0 /\ n - 1 \in Nat
  BY <1>1
<1>3. n - 1 \in T
  BY <1>1, <1>2
<1>4. QED
  BY <1>1, <1>2, <1>3

(* ... along a sequence *)
LEMMA SeqInduction ==
  ASSUME NEW S, NEW T, <<>> \in T,
         \A s \in Seq(S), e \in S : s \in T => Append(s, e) \in T
  PROVE  \A s \in Seq(S) : s \in T
<1> DEFINE N == {n \in Nat : \A s \in Seq(S) : Len(s) = n => s \in T}
<1>1. 0 \in N
  <2>1. \A s \in Seq(S) : Len(s) = 0 => s = <<>>
    OBVIOUS
  <2>2. QED
    BY <2>1
<1>2. ASSUME NEW n \in Nat, n \in N PROVE n + 1 \in N
  <2> SUFFICES ASSUME NEW s \in Seq(S), Len(s) = n + 1 PROVE s \in T
    OBVIOUS
  <2> DEFINE t == SubSeq(s, 1, n)
  <2>1. t \in Seq(S) /\ Len(t) = n /\ \A i \in 1..n : t[i] = s[i]
    OBVIOUS
  <2>2. s[n + 1] \in S
    BY ElementOfSeq
  <2>3. Append(t, s[n + 1]) = s
    <3> HIDE DEF t
    <3>1. /\ Len(Append(t, s[n + 1])) = n + 1 /\ Append(t, s[n + 1]) \in Seq(S)
          /\ \A i \in 1..n : Append(t, s[n + 1])[i] = t[i]
          /\ Append(t, s[n + 1])[n + 1] = s[n + 1]
      BY <2>1, <2>2, AppendFacts
    <3>2. \A i \in 1..(n + 1) : Append(t, s[n + 1])[i] = s[i]
      BY <2>1, <3>1
    <3>3. QED
      BY <3>1, <3>2, SeqEqual
  <2>4. t \in T
    BY <1>2, <2>1
  <2>5. QED
    BY <2>1, <2>2, <2>3, <2>4
<1> HIDE DEF N
<1>3. \A n \in Nat : n \in N
  BY <1>1, <1>2, Induction
<1>4. QED
  BY <1>3 DEF N

-------------------------------------------------------------------------------
(* A function defined along a sequence: its value at i is what `step`       *)
(* makes of the value at i - 1 and of the i-th element.                     *)
Along(f, step, a, s) ==
  /\ f[0] = a
  /\ \A i \in 1..Len(s) : f[i] = step[<<f[i - 1], s[i]>>]

(* There is one ...                                                         *)
LEMMA AlongExists ==
  ASSUME NEW V, NEW S, NEW a \in V, NEW step \in [V \X S -> V], NEW s \in Seq(S)
  PROVE  \E f \in [0..Len(s) -> V] : Along(f, step, a, s)
<1> DEFINE Upto(n, f) == f[0] = a /\ \A i \in 1..n : f[i] = step[<<f[i - 1], s[i]>>]
           N == {n \in Nat : n <= Len(s) => \E f \in [0..n -> V] : Upto(n, f)}
<1>1. 0 \in N
  <2>1. [i \in 0..0 |-> a] \in [0..0 -> V] /\ Upto(0, [i \in 0..0 |-> a])
    OBVIOUS
  <2>2. QED
    BY <2>1
<1>2. ASSUME NEW n \in Nat, n \in N PROVE n + 1 \in N
  <2> SUFFICES ASSUME n + 1 <= Len(s)
               PROVE  \E f \in [0..(n + 1) -> V] : Upto(n + 1, f)
    OBVIOUS
  <2>1. PICK f \in [0..n -> V] : Upto(n, f)
    BY <1>2
  <2> DEFINE v == step[<<f[n], s[n + 1]>>]
             g == [i \in 0..(n + 1) |-> IF i = n + 1 THEN v ELSE f[i]]
  <2>2. s[n + 1] \in S /\ f[n] \in V
    BY <2>1, ElementOfSeq
  <2>3. v \in V
    BY <2>2
  <2>4. g \in [0..(n + 1) -> V]
    BY <2>1, <2>3
  <2>5. g[0] = a /\ \A i \in 1..n : g[i] = f[i] /\ g[i - 1] = f[i - 1]
    BY <2>1
  <2>6. g[n + 1] = v /\ g[n] = f[n]
    BY <2>1
  <2> HIDE DEF g
  <2>7. Upto(n + 1, g)
    <3>1. ASSUME NEW i \in 1..(n + 1) PROVE g[i] = step[<<g[i - 1], s[i]>>]
      <4>1. CASE i \in 1..n
        BY <2>1, <2>5, <4>1
      <4>2. CASE i = n + 1
        <5>1. i - 1 = n /\ s[i] = s[n + 1] /\ g[i] = g[n + 1]
          BY <4>2
        <5>2. g[i - 1] = f[n]
          BY <2>6, <5>1
        <5>3. QED
          BY <2>6, <5>1, <5>2
      <4>3. QED
        BY <4>1, <4>2
    <3>2. QED
      BY <2>1, <2>5, <3>1
  <2>8. QED
    BY <2>4, <2>7
<1> HIDE DEF N
<1>3. \A n \in Nat : n \in N
  BY <1>1, <1>2, Induction
<1>4. Len(s) \in N
  BY <1>3
<1>5. QED
  BY <1>4 DEF N, Along

(* ... and its value at m depends on the first m elements only.             *)
LEMMA AlongUnique ==
  ASSUME NEW step, NEW a, NEW f, NEW s, NEW g, NEW t,
         Along(f, step, a, s), Along(g, step, a, t), Len(s) \in Nat, Len(t) \in Nat,
         NEW m \in Nat, m <= Len(s), m <= Len(t), \A i \in 1..m : s[i] = t[i]
  PROVE  f[m] = g[m]
<1> DEFINE N == {n \in Nat : n <= m => f[n] = g[n]}
<1>1. 0 \in N
  BY DEF Along
<1>2. ASSUME NEW n \in Nat, n \in N PROVE n + 1 \in N
  <2> SUFFICES ASSUME n + 1 <= m PROVE f[n + 1] = g[n + 1]
    OBVIOUS
  <2>1. n + 1 \in 1..Len(s) /\ n + 1 \in 1..Len(t) /\ n + 1 \in 1..m /\ (n + 1) - 1 = n
    OBVIOUS
  <2>2. f[n + 1] = step[<<f[n], s[n + 1]>>]
    BY <2>1 DEF Along
  <2>3. g[n + 1] = step[<<g[n], t[n + 1]>>]
    BY <2>1 DEF Along
  <2>4. f[n] = g[n]
    BY <1>2
  <2>5. QED
    BY <2>1, <2>2, <2>3, <2>4
<1> HIDE DEF N
<1>3. \A n \in Nat : n \in N
  BY <1>1, <1>2, Induction
<1>4. QED
  BY <1>3 DEF N
===============================================================================
