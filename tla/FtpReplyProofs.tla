----------------------------- MODULE FtpReplyProofs -----------------------------
(***************************************************************************)
(* What TLAPS proves of the codec of FtpReply, for every text of a 227.    *)
(***************************************************************************)
EXTENDS FtpReply, SeqLemmas

PartsStep ==
  [x \in Seq(Seq(Int)) \X Int |->
     IF x[2] = Comma THEN Append(x[1], <<>>)
     ELSE [x[1] EXCEPT ![Len(x[1])] = Append(@, x[2])]]

(* A sequence one of whose elements is replaced                            *)
LEMMA ExceptFacts ==
  ASSUME NEW S, NEW s \in Seq(S), NEW n \in 1..Len(s), NEW v \in S
  PROVE  /\ [s EXCEPT ![n] = v] \in Seq(S) /\ Len([s EXCEPT ![n] = v]) = Len(s)
         /\ \A i \in 1..Len(s) : [s EXCEPT ![n] = v][i] = IF i = n THEN v ELSE s[i]
OBVIOUS

(* The step keeps to sequences of parts, of which there is always a last   *)
LEMMA PartsStepType ==
  /\ PartsStep \in [Seq(Seq(Int)) \X Int -> Seq(Seq(Int))]
  /\ \A parts \in Seq(Seq(Int)), c \in Int :
       PartsStep[<<parts, c>>] = IF c = Comma THEN Append(parts, <<>>)
                                 ELSE [parts EXCEPT ![Len(parts)] = Append(@, c)]
<1>1. ASSUME NEW parts \in Seq(Seq(Int)), NEW c \in Int
      PROVE  /\ Append(parts, <<>>) \in Seq(Seq(Int))
             /\ [parts EXCEPT ![Len(parts)] = Append(@, c)] \in Seq(Seq(Int))
  <2>1. Append(parts, <<>>) \in Seq(Seq(Int))
    <3>1. <<>> \in Seq(Int)
      OBVIOUS
    <3>2. QED
      BY <3>1, AppendFacts
  <2>2. CASE Len(parts) = 0
    <3>1. Len(parts) \notin DOMAIN parts
      BY <2>2
    <3>2. [parts EXCEPT ![Len(parts)] = Append(@, c)] = parts
      BY <3>1
    <3>3. QED
      BY <2>1, <3>2
  <2>3. CASE Len(parts) # 0
    <3>1. Len(parts) \in 1..Len(parts)
      BY <2>3
    <3>2. parts[Len(parts)] \in Seq(Int)
      BY <3>1, ElementOfSeq
    <3>3. PICK v \in Seq(Int) : v = Append(parts[Len(parts)], c)
      BY <3>2, AppendFacts
    <3>4. [parts EXCEPT ![Len(parts)] = v] \in Seq(Seq(Int))
      BY <3>1, ExceptFacts
    <3>5. QED
      BY <2>1, <3>3, <3>4
  <2>4. QED
    BY <2>2, <2>3
<1>2. QED
  BY <1>1 DEF PartsStep

(* Parts is computed token by token *)
LEMMA PartsAlong ==
  ASSUME NEW data \in Seq(Int)
  PROVE  \E f \in [0..Len(data) -> Seq(Seq(Int))] :
           Along(f, PartsStep, <<<<>>>>, data) /\ Parts(data) = f[Len(data)]
<1> DEFINE Eq(f) == f = [i \in 0..Len(data) |->
                          IF i = 0 THEN <<<<>>>>
                          ELSE IF data[i] = Comma THEN Append(f[i - 1], <<>>)
                          ELSE [f[i - 1] EXCEPT ![Len(f[i - 1])] = Append(@, data[i])]]
           F == CHOOSE f : Eq(f)
<1>1. PartsStep \in [Seq(Seq(Int)) \X Int -> Seq(Seq(Int))] /\ <<<<>>>> \in Seq(Seq(Int))
  BY PartsStepType
<1>2. PICK g \in [0..Len(data) -> Seq(Seq(Int))] : Along(g, PartsStep, <<<<>>>>, data)
  BY <1>1, AlongExists
<1>3. /\ g[0] = <<<<>>>>
      /\ \A i \in 1..Len(data) :
           g[i] = IF data[i] = Comma THEN Append(g[i - 1], <<>>)
                  ELSE [g[i - 1] EXCEPT ![Len(g[i - 1])] = Append(@, data[i])]
  <2>1. ASSUME NEW i \in 1..Len(data)
        PROVE  PartsStep[<<g[i - 1], data[i]>>] =
                 IF data[i] = Comma THEN Append(g[i - 1], <<>>)
                 ELSE [g[i - 1] EXCEPT ![Len(g[i - 1])] = Append(@, data[i])]
    <3>1. g[i - 1] \in Seq(Seq(Int))
      BY <1>2
    <3>2. data[i] \in Int
      BY ElementOfSeq
    <3>3. QED
      BY <3>1, <3>2, PartsStepType
  <2>2. QED
    BY <1>2, <2>1 DEF Along
<1>4. Eq(g)
  <2>1. \A i \in 0..Len(data) :
          g[i] = IF i = 0 THEN <<<<>>>>
                 ELSE IF data[i] = Comma THEN Append(g[i - 1], <<>>)
                 ELSE [g[i - 1] EXCEPT ![Len(g[i - 1])] = Append(@, data[i])]
    <3>1. \A i \in 0..Len(data) : i = 0 \/ i \in 1..Len(data)
      OBVIOUS
    <3>2. QED
      BY <1>3, <3>1
  <2>2. g = [i \in 0..Len(data) |-> g[i]]
    BY <1>2
  <2>3. QED
    BY <2>1, <2>2
<1>5. Eq(F)
  BY <1>4
<1> HIDE DEF F
<1>6. /\ F[0] = <<<<>>>>
      /\ \A i \in 1..Len(data) :
           F[i] = IF data[i] = Comma THEN Append(F[i - 1], <<>>)
                  ELSE [F[i - 1] EXCEPT ![Len(F[i - 1])] = Append(@, data[i])]
  <2>1. \A i \in 0..Len(data) :
          F[i] = IF i = 0 THEN <<<<>>>>
                 ELSE IF data[i] = Comma THEN Append(F[i - 1], <<>>)
                 ELSE [F[i - 1] EXCEPT ![Len(F[i - 1])] = Append(@, data[i])]
    BY <1>5
  <2>2. QED
    BY <2>1
<1> DEFINE N == {n \in Nat : n <= Len(data) => F[n] = g[n]}
<1>7. 0 \in N
  BY <1>3, <1>6
<1>8. ASSUME NEW n \in Nat, n \in N PROVE n + 1 \in N
  <2> SUFFICES ASSUME n + 1 <= Len(data) PROVE F[n + 1] = g[n + 1]
    OBVIOUS
  <2>1. n + 1 \in 1..Len(data) /\ (n + 1) - 1 = n /\ F[n] = g[n]
    BY <1>8
  <2>2. g[n + 1] = IF data[n + 1] = Comma THEN Append(g[n], <<>>)
                   ELSE [g[n] EXCEPT ![Len(g[n])] = Append(@, data[n + 1])]
    BY <1>3, <2>1
  <2>3. QED
    BY <1>6, <2>1, <2>2
<1> HIDE DEF N
<1>9. Len(data) \in N
  BY SMTT(30), <1>7, <1>8, Induction
<1>10. F[Len(data)] = g[Len(data)]
  BY <1>9 DEF N
<1>11. Parts(data) = F[Len(data)]
  BY DEF Parts, F
<1>12. QED
  BY <1>2, <1>10, <1>11

(* What the parts of the first n tokens become with the next token         *)
OneMore(f, n, c) ==
  LET k == Len(f[n])
  IN IF c = Comma
     THEN /\ Len(f[n + 1]) = k + 1 /\ f[n + 1][k + 1] = <<>>
          /\ \A j \in 1..k : f[n + 1][j] = f[n][j]
     ELSE /\ Len(f[n + 1]) = k /\ f[n + 1][k] = Append(f[n][k], c)
          /\ \A j \in 1..(k - 1) : f[n + 1][j] = f[n][j]

(* ... each of which starts a part or goes to the end of the last *)
LEMMA PartsSteps ==
  ASSUME NEW data \in Seq(Int)
  PROVE  \E f : /\ \A n \in 0..Len(data) : f[n] \in Seq(Seq(Int)) /\ Len(f[n]) >= 1
                /\ f[0] = <<<<>>>> /\ Parts(data) = f[Len(data)]
                /\ \A n \in 0..(Len(data) - 1) : OneMore(f, n, data[n + 1])
<1>1. PICK f \in [0..Len(data) -> Seq(Seq(Int))] :
        Along(f, PartsStep, <<<<>>>>, data) /\ Parts(data) = f[Len(data)]
  BY PartsAlong
<1>2. ASSUME NEW n \in 0..(Len(data) - 1), Len(f[n]) >= 1 PROVE OneMore(f, n, data[n + 1]) /\ Len(f[n + 1]) >= 1
  <2>1. PICK s \in Seq(Seq(Int)), c \in Int : s = f[n] /\ c = data[n + 1]
    <3>1. f[n] \in Seq(Seq(Int)) /\ data[n + 1] \in Int
      BY ElementOfSeq
    <3>2. QED
      BY <3>1
  <2>2. PICK k \in Nat : k = Len(s) /\ k >= 1
    BY <1>2, <2>1
  <2>3. f[n + 1] = IF c = Comma THEN Append(s, <<>>) ELSE [s EXCEPT ![k] = Append(@, c)]
    <3>1. n + 1 \in 1..Len(data) /\ (n + 1) - 1 = n
      OBVIOUS
    <3>2. f[n + 1] = PartsStep[<<s, c>>]
      BY <1>1, <2>1, <3>1 DEF Along
    <3>3. QED
      BY <2>2, <3>2, PartsStepType
  <2>4. CASE c = Comma
    <3>1. f[n + 1] = Append(s, <<>>) /\ <<>> \in Seq(Int)
      BY <2>3, <2>4
    <3>2. /\ Len(f[n + 1]) = k + 1 /\ f[n + 1][k + 1] = <<>>
          /\ \A j \in 1..k : f[n + 1][j] = s[j]
      BY <2>2, <3>1, AppendFacts
    <3>3. QED
      BY <2>1, <2>2, <2>4, <3>2 DEF OneMore
  <2>5. CASE c # Comma
    <3>1. k \in 1..Len(s) /\ s[k] \in Seq(Int)
      BY <2>2, ElementOfSeq
    <3>2. PICK v \in Seq(Int) : v = Append(s[k], c)
      BY <3>1, AppendFacts
    <3>3. f[n + 1] = [s EXCEPT ![k] = v]
      BY <2>3, <2>5, <3>2
    <3>4. Len(f[n + 1]) = k /\ \A j \in 1..k : f[n + 1][j] = IF j = k THEN v ELSE s[j]
      BY <2>2, <3>1, <3>3, ExceptFacts
    <3>5. Len(f[n]) = k
      BY <2>1, <2>2
    <3>6. f[n + 1][k] = Append(f[n][k], c)
      <4>1. f[n + 1][k] = v
        BY <2>2, <3>1, <3>4
      <4>2. QED
        BY <2>1, <3>2, <4>1
    <3>7. \A j \in 1..(k - 1) : f[n + 1][j] = f[n][j]
      <4>1. \A j \in 1..(k - 1) : j \in 1..k /\ j # k
        BY <2>2
      <4>2. QED
        BY <2>1, <3>4, <4>1
    <3>8. QED
      BY <2>1, <2>2, <2>5, <3>4, <3>5, <3>6, <3>7 DEF OneMore
  <2>6. QED
    BY <2>4, <2>5
<1> DEFINE N == {n \in Nat : n <= Len(data) => Len(f[n]) >= 1}
<1>3. 0 \in N
  BY SMTT(30), <1>1 DEF Along
<1>4. ASSUME NEW n \in Nat, n \in N PROVE n + 1 \in N
  <2>1. n + 1 <= Len(data) => n \in 0..(Len(data) - 1) /\ Len(f[n]) >= 1
    BY <1>4
  <2>2. QED
    BY <1>2, <2>1
<1> HIDE DEF N
<1>5. \A n \in Nat : n \in N
  BY <1>3, <1>4, Induction
<1>6. \A n \in 0..Len(data) : f[n] \in Seq(Seq(Int)) /\ Len(f[n]) >= 1
  BY <1>1, <1>5 DEF N
<1>7. \A n \in 0..(Len(data) - 1) : OneMore(f, n, data[n + 1])
  BY <1>2, <1>6
<1>8. f[0] = <<<<>>>>
  BY <1>1 DEF Along
<1>9. QED
  BY <1>1, <1>6, <1>7, <1>8

(* All parts but the last are one token: then they stand apart             *)
Closed(parts) == \A j \in 1..(Len(parts) - 1) : Len(parts[j]) = 1

Apart(data, n, parts) ==
  LET k == Len(parts)
  IN /\ n = 2 * (k - 1) + Len(parts[k])
     /\ \A j \in 1..(k - 1) : data[2 * j - 1] = parts[j][1] /\ data[2 * j] = Comma
     /\ Len(parts[k]) >= 1 => data[2 * k - 1] = parts[k][1]

(* Parts of one token each stand between commas, one after the other ...   *)
LEMMA PartsApart ==
  ASSUME NEW data \in Seq(Int), NEW parts, parts = Parts(data),
         \A j \in 1..Len(parts) : Len(parts[j]) = 1
  PROVE  /\ Len(data) = 2 * Len(parts) - 1
         /\ \A j \in 1..Len(parts) : data[2 * j - 1] = parts[j][1]
         /\ \A j \in 1..(Len(parts) - 1) : data[2 * j] = Comma
<1>1. PICK f : /\ \A n \in 0..Len(data) : f[n] \in Seq(Seq(Int)) /\ Len(f[n]) >= 1
               /\ f[0] = <<<<>>>> /\ Parts(data) = f[Len(data)]
               /\ \A n \in 0..(Len(data) - 1) : OneMore(f, n, data[n + 1])
  BY PartsSteps
<1> DEFINE N == {n \in Nat : n <= Len(data) => (Closed(f[n]) => Apart(data, n, f[n]))}
<1>2. 0 \in N
  <2>1. Len(f[0]) = 1 /\ f[0][1] = <<>> /\ Len(<<>>) = 0
    BY <1>1
  <2>2. Apart(data, 0, f[0])
    BY <2>1 DEF Apart
  <2>3. QED
    BY <2>2
<1>3. ASSUME NEW n \in Nat, n \in N PROVE n + 1 \in N
  <2> SUFFICES ASSUME n + 1 <= Len(data), Closed(f[n + 1]) PROVE Apart(data, n + 1, f[n + 1])
    OBVIOUS
  <2>1. n \in 0..Len(data) /\ n + 1 \in 0..Len(data) /\ n \in 0..(Len(data) - 1)
    OBVIOUS
  <2>2. PICK s \in Seq(Seq(Int)), t \in Seq(Seq(Int)) : s = f[n] /\ t = f[n + 1] /\ Len(s) >= 1
    <3>1. f[n] \in Seq(Seq(Int)) /\ Len(f[n]) >= 1 /\ f[n + 1] \in Seq(Seq(Int))
      BY <1>1, <2>1
    <3>2. QED
      BY <3>1
  <2>3. PICK k \in Nat : k = Len(s) /\ k >= 1
    BY <2>2
  <2>4. PICK c \in Int : c = data[n + 1]
    BY ElementOfSeq
  <2>5. PICK last \in Seq(Int) : last = s[k]
    BY <2>3, ElementOfSeq
  <2>6. PICK l \in Nat : l = Len(last)
    BY <2>5
  <2>7. OneMore(f, n, c)
    BY <1>1, <2>1, <2>4
  <2>8. Closed(s) => Apart(data, n, s)
    BY <1>3, <2>1, <2>2
  <2>9. Closed(t)
    BY <2>2
  <2>10. CASE c = Comma
    <3>1. Len(t) = k + 1 /\ t[k + 1] = <<>> /\ \A j \in 1..k : t[j] = s[j]
      BY <2>2, <2>3, <2>7, <2>10 DEF OneMore
    <3>2. \A j \in 1..k : Len(s[j]) = 1
      BY <2>3, <2>9, <3>1 DEF Closed
    <3>3. Apart(data, n, s)
      <4>1. \A j \in 1..(Len(s) - 1) : j \in 1..k
        BY <2>3
      <4>2. Closed(s)
        BY <3>2, <4>1 DEF Closed
      <4>3. QED
        BY <2>8, <4>2
    <3>4. l = 1
      BY <2>3, <2>5, <2>6, <3>2
    <3>5. n = 2 * (k - 1) + 1 /\ data[2 * k - 1] = s[k][1]
      BY <2>3, <2>5, <2>6, <3>3, <3>4 DEF Apart
    <3>6. \A j \in 1..(k - 1) : data[2 * j - 1] = s[j][1] /\ data[2 * j] = Comma
      BY <2>3, <3>3 DEF Apart
    <3>7. data[2 * k] = Comma
      <4>1. 2 * k = n + 1
        BY <2>3, <3>5
      <4>2. QED
        BY <2>4, <2>10, <4>1
    <3>8. \A j \in 1..k : data[2 * j - 1] = t[j][1] /\ data[2 * j] = Comma
      <4>1. \A j \in 1..k : j \in 1..(k - 1) \/ j = k
        BY <2>3
      <4>2. QED
        BY <3>1, <3>5, <3>6, <3>7, <4>1
    <3>9. n + 1 = 2 * ((k + 1) - 1) + 0 /\ (k + 1) - 1 = k
      BY <2>3, <3>5
    <3>10. Len(t[k + 1]) = 0
      BY <3>1
    <3>11. QED
      BY <2>2, <3>1, <3>8, <3>9, <3>10 DEF Apart
  <2>11. CASE c # Comma
    <3>1. Len(t) = k /\ t[k] = Append(last, c) /\ \A j \in 1..(k - 1) : t[j] = s[j]
      BY <2>2, <2>3, <2>5, <2>7, <2>11 DEF OneMore
    <3>2. Len(t[k]) = l + 1 /\ t[k][l + 1] = c /\ \A i \in 1..l : t[k][i] = last[i]
      BY SMTT(30), <2>5, <2>6, <3>1, AppendFacts
    <3>3. Closed(s)
      BY <2>3, <2>9, <3>1 DEF Closed
    <3>4. Apart(data, n, s)
      BY <2>8, <3>3
    <3>5. n = 2 * (k - 1) + l
      BY <2>3, <2>5, <2>6, <3>4 DEF Apart
    <3>6. \A j \in 1..(k - 1) : data[2 * j - 1] = t[j][1] /\ data[2 * j] = Comma
      BY <2>3, <3>1, <3>4 DEF Apart
    <3>7. data[2 * k - 1] = t[k][1]
      <4>1. CASE l = 0
        <5>1. 2 * k - 1 = n + 1
          BY <2>3, <3>5, <4>1
        <5>2. QED
          BY SMTT(30), <2>4, <3>2, <4>1, <5>1
      <4>2. CASE l >= 1
        <5>1. data[2 * k - 1] = last[1]
          BY <2>3, <2>5, <2>6, <3>4, <4>2 DEF Apart
        <5>2. 1 \in 1..l
          BY <4>2
        <5>3. QED
          BY <3>2, <5>1, <5>2
      <4>3. QED
        BY <2>6, <4>1, <4>2
    <3>8. n + 1 = 2 * (k - 1) + (l + 1)
      BY <2>3, <2>6, <3>5
    <3>9. QED
      BY <2>2, <3>1, <3>2, <3>6, <3>7, <3>8 DEF Apart
  <2>12. QED
    BY <2>10, <2>11
<1> HIDE DEF N
<1>4. \A n \in Nat : n \in N
  BY <1>2, <1>3, Induction
<1>5. PICK n \in Nat, k \in Nat :
        n = Len(data) /\ parts = f[n] /\ k = Len(parts) /\ k >= 1
  <2>1. Len(data) \in 0..Len(data)
    OBVIOUS
  <2>2. f[Len(data)] \in Seq(Seq(Int)) /\ Len(f[Len(data)]) >= 1
    BY <1>1, <2>1
  <2>3. QED
    BY <1>1, <2>2
<1>6. Apart(data, n, parts)
  <2>1. Closed(parts)
    <3>1. \A j \in 1..(Len(parts) - 1) : j \in 1..Len(parts)
      BY <1>5
    <3>2. QED
      BY <3>1 DEF Closed
  <2>2. QED
    BY <1>4, <1>5, <2>1 DEF N
<1>7. k \in 1..k /\ Len(parts[k]) = 1
  BY <1>5
<1>8. n = 2 * (k - 1) + 1
  BY <1>5, <1>6, <1>7 DEF Apart
<1>9. n = 2 * k - 1
  BY <1>8
<1>10. \A j \in 1..k : j \in 1..(k - 1) \/ j = k
  OBVIOUS
<1>11. \A j \in 1..(k - 1) : data[2 * j - 1] = parts[j][1] /\ data[2 * j] = Comma
  BY <1>5, <1>6 DEF Apart
<1>12. data[2 * k - 1] = parts[k][1]
  BY <1>5, <1>6, <1>7 DEF Apart
<1>13. \A j \in 1..k : data[2 * j - 1] = parts[j][1]
  BY <1>10, <1>11, <1>12
<1>14. k = Len(parts) /\ n = Len(data)
  BY <1>5
<1>15. QED
  BY <1>9, <1>11, <1>13, <1>14

(* ... and tokens that stand between commas are its parts                  *)
Alternate(data, n, parts) ==
  /\ Len(parts) = 1 + n \div 2
  /\ \A j \in 1..(1 + n \div 2) : parts[j] = IF 2 * j - 1 <= n THEN <<data[2 * j - 1]>> ELSE <<>>

(* Of tokens that alternate with commas each is a part *)
LEMMA PartsBetween ==
  ASSUME NEW data \in Seq(Int), \A i \in 1..Len(data) : data[i] = Comma <=> i % 2 = 0
  PROVE  Parts(data) \in Seq(Seq(Int)) /\ Alternate(data, Len(data), Parts(data))
<1>1. PICK f : /\ \A n \in 0..Len(data) : f[n] \in Seq(Seq(Int)) /\ Len(f[n]) >= 1
               /\ f[0] = <<<<>>>> /\ Parts(data) = f[Len(data)]
               /\ \A n \in 0..(Len(data) - 1) : OneMore(f, n, data[n + 1])
  BY PartsSteps
<1> DEFINE N == {n \in Nat : n <= Len(data) => Alternate(data, n, f[n])}
<1>2. 0 \in N
  <2>1. Len(f[0]) = 1 /\ f[0][1] = <<>>
    BY <1>1
  <2>2. 0 \div 2 = 0
    OBVIOUS
  <2>3. QED
    BY <2>1, <2>2 DEF Alternate
<1>3. ASSUME NEW n \in Nat, n \in N PROVE n + 1 \in N
  <2> SUFFICES ASSUME n + 1 <= Len(data) PROVE Alternate(data, n + 1, f[n + 1])
    OBVIOUS
  <2>0. n \in 0..Len(data) /\ n + 1 \in 0..Len(data) /\ n \in 0..(Len(data) - 1) /\ n + 1 \in 1..Len(data)
    OBVIOUS
  <2>1. PICK s \in Seq(Seq(Int)), t \in Seq(Seq(Int)) : s = f[n] /\ t = f[n + 1]
    <3>1. f[n] \in Seq(Seq(Int)) /\ f[n + 1] \in Seq(Seq(Int))
      BY <1>1, <2>0
    <3>2. QED
      BY <3>1
  <2>2. PICK k \in Nat : k = 1 + n \div 2 /\ k >= 1
    OBVIOUS
  <2>3. Len(s) = k /\ \A j \in 1..k : s[j] = IF 2 * j - 1 <= n THEN <<data[2 * j - 1]>> ELSE <<>>
    BY SMTT(30), <1>3, <2>0, <2>1, <2>2 DEF Alternate
  <2>4. PICK c \in Int : c = data[n + 1]
    BY <2>0, ElementOfSeq
  <2>5. OneMore(f, n, c)
    BY <1>1, <2>0, <2>4
  <2>6. CASE (n + 1) % 2 = 0
    <3>1. c = Comma
      BY <2>0, <2>4, <2>6
    <3>2. Len(t) = k + 1 /\ t[k + 1] = <<>> /\ \A j \in 1..k : t[j] = s[j]
      BY <2>1, <2>3, <2>5, <3>1 DEF OneMore
    <3>3. n = 2 * k - 1 /\ 1 + (n + 1) \div 2 = k + 1
      BY <2>2, <2>6
    <3>4. \A j \in 1..k : 2 * j - 1 <= n /\ 2 * j - 1 <= n + 1
      BY <3>3
    <3>5. ~(2 * (k + 1) - 1 <= n + 1)
      BY <3>3
    <3>6. \A j \in 1..k : t[j] = <<data[2 * j - 1]>>
      BY <2>3, <3>2, <3>4
    <3>7. \A j \in 1..(k + 1) : j \in 1..k \/ j = k + 1
      OBVIOUS
    <3>8. \A j \in 1..(k + 1) : t[j] = IF 2 * j - 1 <= n + 1 THEN <<data[2 * j - 1]>> ELSE <<>>
      BY <3>2, <3>4, <3>5, <3>6, <3>7
    <3>9. QED
      BY <2>1, <3>2, <3>3, <3>8 DEF Alternate
  <2>7. CASE (n + 1) % 2 # 0
    <3>1. c # Comma
      BY <2>0, <2>4, <2>7
    <3>2. Len(t) = k /\ t[k] = Append(s[k], c) /\ \A j \in 1..(k - 1) : t[j] = s[j]
      BY <2>1, <2>3, <2>5, <3>1 DEF OneMore
    <3>3. n = 2 * (k - 1) /\ 1 + (n + 1) \div 2 = k
      BY <2>2, <2>7
    <3>4. \A j \in 1..(k - 1) : j \in 1..k /\ 2 * j - 1 <= n /\ 2 * j - 1 <= n + 1
      BY <3>3
    <3>5. ~(2 * k - 1 <= n) /\ 2 * k - 1 = n + 1 /\ k \in 1..k
      BY <2>2, <3>3
    <3>6. \A j \in 1..(k - 1) : t[j] = <<data[2 * j - 1]>>
      BY <2>3, <3>2, <3>4
    <3>7. t[k] = <<data[2 * k - 1]>>
      <4>1. s[k] = <<>>
        BY <2>3, <3>5
      <4>2. Append(<<>>, c) = <<c>>
        OBVIOUS
      <4>3. QED
        BY <2>4, <3>2, <3>5, <4>1, <4>2
    <3>8. \A j \in 1..k : j \in 1..(k - 1) \/ j = k
      OBVIOUS
    <3>9. \A j \in 1..k : t[j] = IF 2 * j - 1 <= n + 1 THEN <<data[2 * j - 1]>> ELSE <<>>
      <4> SUFFICES ASSUME NEW j \in 1..k
                   PROVE  t[j] = IF 2 * j - 1 <= n + 1 THEN <<data[2 * j - 1]>> ELSE <<>>
        OBVIOUS
      <4>1. CASE j \in 1..(k - 1)
        <5>1. 2 * j - 1 <= n + 1 /\ t[j] = <<data[2 * j - 1]>>
          BY <3>4, <3>6, <4>1
        <5>2. QED
          BY <5>1
      <4>2. CASE j = k
        <5>1. 2 * k - 1 <= n + 1
          BY <3>5
        <5>2. QED
          BY <3>7, <4>2, <5>1
      <4>3. QED
        BY <3>8, <4>1, <4>2
    <3>10. QED
      BY <2>1, <3>2, <3>3, <3>9 DEF Alternate
  <2>8. QED
    BY <2>6, <2>7
<1> HIDE DEF N
<1>4. \A n \in Nat : n \in N
  BY <1>2, <1>3, Induction
<1>5. Len(data) \in N /\ Len(data) \in 0..Len(data)
  BY <1>4
<1>6. Alternate(data, Len(data), f[Len(data)])
  BY <1>5 DEF N
<1>7. QED
  BY <1>1, <1>5, <1>6

-------------------------------------------------------------------------------
(* A token of the text is one of the tokens between its parentheses        *)
LEMMA Inside ==
  ASSUME NEW text \in Seq(Int), NEW a \in 1..Len(text), NEW b \in 1..Len(text), a < b
  PROVE  /\ SubSeq(text, a + 1, b - 1) \in Seq(Int)
         /\ Len(SubSeq(text, a + 1, b - 1)) = b - a - 1
         /\ \A i \in 1..(b - a - 1) : SubSeq(text, a + 1, b - 1)[i] = text[a + i]
<1>1. \A i \in (a + 1)..(b - 1) : text[i] \in Int
  <2>1. \A i \in (a + 1)..(b - 1) : i \in 1..Len(text)
    OBVIOUS
  <2>2. QED
    BY <2>1, ElementOfSeq
<1>2. a + 1 \in Nat /\ b - 1 \in Nat /\ a <= b - 1
  OBVIOUS
<1>3. /\ SubSeq(text, a + 1, b - 1) \in Seq(Int)
      /\ Len(SubSeq(text, a + 1, b - 1)) = b - a - 1
  OBVIOUS
<1>4. QED
  BY <1>3

(* Six numbers between the only parentheses, and nothing else, are what    *)
(* every address of a 227 comes from.                                      *)
Numbers(text, i, q) ==
  /\ At(text, Open) = {i} /\ At(text, Close) = {i + 12}
  /\ \A k \in 1..6 : text[i + 2 * k - 1] \in Nat
  /\ \A k \in 1..5 : text[i + 2 * k] = Comma
  /\ q.ip = [k \in 1..4 |-> text[i + 2 * k - 1]]
  /\ q.port = text[i + 9] * 256 + text[i + 11]

(* An accepted reply has six numbers, with commas between them and nothing  *)
(* else, between its only parentheses, and they are the address             *)
LEMMA PassiveFrom ==
  ASSUME NEW text \in Seq(Int), NEW q \in Passive(text)
  PROVE  \E i \in DOMAIN text : Numbers(text, i, q)
<1>1. PICK parts \in Fields(text) :
        q = [ip |-> [i \in 1..4 |-> parts[i][1]], port |-> parts[5][1] * 256 + parts[6][1]]
  BY DEF Passive
<1>2. PICK p \in Pairs(text) : parts = Parts(SubSeq(text, p[1] + 1, p[2] - 1))
  BY <1>1 DEF Fields
<1>3. /\ Len(parts) = 6
      /\ \A i \in 1..4 : Parses(parts[i], MaxU8)
      /\ \A i \in 5..6 : Parses(parts[i], MaxU16)
  BY <1>1 DEF Fields
<1>4. PICK a \in 1..Len(text), b \in 1..Len(text) :
        /\ a < b /\ At(text, Open) = {a} /\ At(text, Close) = {b} /\ p = <<a, b>>
  <2>1. p[1] \in 1..Len(text) /\ p[2] \in 1..Len(text) /\ p = <<p[1], p[2]>>
    BY <1>2 DEF Pairs, At
  <2>2. QED
    BY <1>2, <2>1 DEF Pairs
<1>5. PICK data \in Seq(Int) : data = SubSeq(text, a + 1, b - 1)
  BY <1>4, Inside
<1>6. Len(data) = b - a - 1 /\ \A i \in 1..(b - a - 1) : data[i] = text[a + i]
  BY <1>4, <1>5, Inside
<1>7. \A i \in 1..6 : Len(parts[i]) = 1 /\ parts[i][1] \in Nat
  <2>1. \A i \in 1..6 : i \in 1..4 \/ i \in 5..6
    OBVIOUS
  <2>2. (\A x \in 0..MaxU8 : x \in Nat) /\ (\A x \in 0..MaxU16 : x \in Nat)
    BY DEF MaxU8, MaxU16
  <2>3. \A part : Parses(part, MaxU8) \/ Parses(part, MaxU16) => Len(part) = 1 /\ part[1] \in Nat
    BY <2>2 DEF Parses
  <2>4. QED
    BY <1>3, <2>1, <2>3
<1>8. /\ Len(data) = 11
      /\ \A j \in 1..6 : data[2 * j - 1] = parts[j][1]
      /\ \A j \in 1..5 : data[2 * j] = Comma
  <2>1. parts = Parts(data)
    BY <1>2, <1>4, <1>5
  <2>2. \A j \in 1..Len(parts) : Len(parts[j]) = 1
    BY <1>3, <1>7
  <2>3. /\ Len(data) = 2 * Len(parts) - 1
        /\ \A j \in 1..Len(parts) : data[2 * j - 1] = parts[j][1]
        /\ \A j \in 1..(Len(parts) - 1) : data[2 * j] = Comma
    BY <2>1, <2>2, PartsApart
  <2>4. 2 * 6 - 1 = 11 /\ 6 - 1 = 5
    OBVIOUS
  <2>5. QED
    BY <1>3, <2>3, <2>4
<1>9. b = a + 12
  <2>1. b - a - 1 = 11
    BY <1>6, <1>8
  <2>2. QED
    BY <2>1
<1>10. \A i \in 1..11 : data[i] = text[a + i]
  BY <1>6, <1>8
<1>11. \A k \in 1..6 : text[a + 2 * k - 1] = parts[k][1]
  <2>1. \A k \in 1..6 : 2 * k - 1 \in 1..11 /\ a + (2 * k - 1) = a + 2 * k - 1
    OBVIOUS
  <2>2. QED
    BY <1>8, <1>10, <2>1
<1>12. \A k \in 1..5 : text[a + 2 * k] = Comma
  <2>1. \A k \in 1..5 : 2 * k \in 1..11
    OBVIOUS
  <2>2. QED
    BY <1>8, <1>10, <2>1
<1>13. text[a + 9] = parts[5][1] /\ text[a + 11] = parts[6][1]
  <2>1. a + 9 = a + 2 * 5 - 1 /\ a + 11 = a + 2 * 6 - 1
    OBVIOUS
  <2>2. QED
    BY <1>11, <2>1
<1>14. q.ip = [k \in 1..4 |-> text[a + 2 * k - 1]] /\ q.port = text[a + 9] * 256 + text[a + 11]
  <2>1. q.ip = [k \in 1..4 |-> parts[k][1]]
    BY <1>1
  <2>2. \A k \in 1..4 : k \in 1..6
    OBVIOUS
  <2>3. [k \in 1..4 |-> parts[k][1]] = [k \in 1..4 |-> text[a + 2 * k - 1]]
    BY <1>11, <2>2
  <2>4. q.port = parts[5][1] * 256 + parts[6][1]
    BY <1>1
  <2>5. QED
    BY <1>13, <2>1, <2>3, <2>4
<1>15. \A k \in 1..6 : text[a + 2 * k - 1] \in Nat
  BY <1>7, <1>11
<1>16. a \in DOMAIN text
  OBVIOUS
<1>17. QED
  BY <1>4, <1>9, <1>12, <1>14, <1>15, <1>16 DEF Numbers

(* A text that a server may put into a reply                               *)
LEMMA QuoteIs ==
  ASSUME NEW a \in Addresses
  PROVE  /\ Quote(a) \in Seq(Int) /\ Len(Quote(a)) = 14
         /\ Quote(a)[1] = Word /\ Quote(a)[2] = Open /\ Quote(a)[14] = Close
         /\ Quote(a)[3] = a.ip[1] /\ Quote(a)[5] = a.ip[2] /\ Quote(a)[7] = a.ip[3]
         /\ Quote(a)[9] = a.ip[4]
         /\ Quote(a)[11] = a.port \div 256 /\ Quote(a)[13] = a.port % 256
         /\ Quote(a)[4] = Comma /\ Quote(a)[6] = Comma /\ Quote(a)[8] = Comma
         /\ Quote(a)[10] = Comma /\ Quote(a)[12] = Comma
<1>1. a.ip[1] \in Int /\ a.ip[2] \in Int /\ a.ip[3] \in Int /\ a.ip[4] \in Int /\ a.port \in Nat
  BY DEF Addresses, MaxU8
<1>2. a.port \div 256 \in Int /\ a.port % 256 \in Int
  BY <1>1
<1>3. Quote(a) \in Seq(Int)
  BY <1>1, <1>2 DEF Quote, Open, Close, Comma, Word
<1>4. QED
  BY <1>3 DEF Quote

(* Eleven tokens, every second of them a comma                             *)
LEMMA Eleven ==
  ASSUME NEW s, NEW c,
         s[1] # c, s[3] # c, s[5] # c, s[7] # c, s[9] # c, s[11] # c,
         s[2] = c, s[4] = c, s[6] = c, s[8] = c, s[10] = c
  PROVE  \A i \in 1..11 : s[i] = c <=> i % 2 = 0
OBVIOUS

(* Fourteen tokens with a sign at one place                                *)
LEMMA Fourteen ==
  ASSUME NEW s, NEW c, NEW k \in {2, 14}, s[k] = c, s[16 - k] # c,
         s[1] # c, s[3] # c, s[4] # c, s[5] # c, s[6] # c, s[7] # c, s[8] # c, s[9] # c,
         s[10] # c, s[11] # c, s[12] # c, s[13] # c
  PROVE  \A i \in 1..14 : s[i] = c <=> i = k
OBVIOUS

(* The bytes of a port                                                     *)
LEMMA PortBytes ==
  ASSUME NEW port \in Nat, port <= MaxU16
  PROVE  /\ port \div 256 \in 0..MaxU8 /\ port % 256 \in 0..MaxU8
         /\ (port \div 256) * 256 + (port % 256) = port
BY DEF MaxU8, MaxU16

(* A part that is one byte                                                 *)
LEMMA ByteParses ==
  ASSUME NEW n \in 0..MaxU8
  PROVE  /\ Parses(<<n>>, MaxU8) /\ Parses(<<n>>, MaxU16) /\ <<n>>[1] = n
         /\ n \in Nat /\ n # Open /\ n # Close /\ n # Comma /\ n # Word
<1>1. n \in Nat /\ n # Open /\ n # Close /\ n # Comma /\ n # Word /\ n \in 0..MaxU16
  <2>1. n \in Nat
    OBVIOUS
  <2>2. MaxU8 \in Nat /\ MaxU16 \in Nat /\ MaxU8 <= MaxU16
    BY DEF MaxU8, MaxU16
  <2>3. n \in 0..MaxU16
    BY <2>1, <2>2
  <2>4. QED
    BY <2>1, <2>3 DEF Open, Close, Comma, Word
<1>2. Len(<<n>>) = 1 /\ <<n>>[1] = n
  OBVIOUS
<1>3. Parses(<<n>>, MaxU8) /\ Parses(<<n>>, MaxU16)
  BY <1>1, <1>2 DEF Parses
<1>4. QED
  BY <1>1, <1>2, <1>3

(* A 227 with the server's address in it gives the client that address     *)
LEMMA PassiveQuote ==
  ASSUME NEW a \in Addresses, a.port <= MaxU16
  PROVE  Passive(Quote(a)) = {a}
<1>1. PICK text \in Seq(Int) : text = Quote(a)
  BY QuoteIs
<1>2. PICK w \in 0..MaxU8 : w = a.ip[1]
  BY DEF Addresses
<1>3. PICK x \in 0..MaxU8 : x = a.ip[2]
  BY DEF Addresses
<1>4. PICK y \in 0..MaxU8 : y = a.ip[3]
  BY DEF Addresses
<1>5. PICK z \in 0..MaxU8 : z = a.ip[4]
  BY DEF Addresses
<1>6. a.port \in Nat
  BY DEF Addresses
<1>7. PICK hi \in 0..MaxU8 : hi = a.port \div 256
  BY <1>6, PortBytes
<1>8. PICK lo \in 0..MaxU8 : lo = a.port % 256 /\ hi * 256 + lo = a.port
  BY ZenonT(60), <1>6, <1>7, PortBytes
<1>9. /\ Len(text) = 14
      /\ text[1] = Word /\ text[2] = Open /\ text[14] = Close
      /\ text[3] = w /\ text[5] = x /\ text[7] = y /\ text[9] = z
      /\ text[11] = hi /\ text[13] = lo
      /\ text[4] = Comma /\ text[6] = Comma /\ text[8] = Comma /\ text[10] = Comma
      /\ text[12] = Comma
  <2>1. /\ Len(text) = 14
        /\ text[1] = Word /\ text[2] = Open /\ text[14] = Close
        /\ text[3] = a.ip[1] /\ text[5] = a.ip[2] /\ text[7] = a.ip[3] /\ text[9] = a.ip[4]
        /\ text[11] = a.port \div 256 /\ text[13] = a.port % 256
        /\ text[4] = Comma /\ text[6] = Comma /\ text[8] = Comma /\ text[10] = Comma
        /\ text[12] = Comma
    BY ZenonT(60), <1>1, QuoteIs
  <2>2. QED
    BY <1>2, <1>3, <1>4, <1>5, <1>7, <1>8, <2>1
<1>10. /\ 2 \in 1..Len(text) /\ 14 \in 1..Len(text) /\ 2 < 14 /\ 14 - 2 - 1 = 11
       /\ DOMAIN text = 1..14
  BY <1>9
<1>11. \A n \in {w, x, y, z, hi, lo} :
         /\ n # Open /\ n # Close /\ n # Comma /\ n # Word
         /\ Parses(<<n>>, MaxU8) /\ Parses(<<n>>, MaxU16) /\ <<n>>[1] = n
  BY ByteParses
<1>12. Word # Open /\ Word # Close /\ Comma # Open /\ Comma # Close /\ Open # Close
  BY DEF Open, Close, Comma, Word
<1>13. At(text, Open) = {2} /\ At(text, Close) = {14}
  <2>1. \A i \in 1..14 : text[i] = Open <=> i = 2
    <3>1. text[2] = Open /\ text[16 - 2] # Open
      <4>1. 16 - 2 = 14
        OBVIOUS
      <4>2. QED
        BY <1>9, <1>12, <4>1
    <3>2. /\ text[1] # Open /\ text[3] # Open /\ text[4] # Open /\ text[5] # Open
          /\ text[6] # Open /\ text[7] # Open /\ text[8] # Open /\ text[9] # Open
          /\ text[10] # Open /\ text[11] # Open /\ text[12] # Open /\ text[13] # Open
      BY <1>9, <1>11, <1>12
    <3>3. QED
      BY ZenonT(60), <3>1, <3>2, Fourteen
  <2>2. \A i \in 1..14 : text[i] = Close <=> i = 14
    <3>1. text[14] = Close /\ text[16 - 14] # Close
      <4>1. 16 - 14 = 2
        OBVIOUS
      <4>2. QED
        BY <1>9, <1>12, <4>1
    <3>2. /\ text[1] # Close /\ text[3] # Close /\ text[4] # Close /\ text[5] # Close
          /\ text[6] # Close /\ text[7] # Close /\ text[8] # Close /\ text[9] # Close
          /\ text[10] # Close /\ text[11] # Close /\ text[12] # Close /\ text[13] # Close
      BY <1>9, <1>11, <1>12
    <3>3. QED
      BY ZenonT(60), <3>1, <3>2, Fourteen
  <2>3. /\ At(text, Open) = {i \in 1..14 : text[i] = Open}
        /\ At(text, Close) = {i \in 1..14 : text[i] = Close}
    BY <1>10 DEF At
  <2>4. 2 \in 1..14 /\ 14 \in 1..14
    OBVIOUS
  <2>5. {i \in 1..14 : text[i] = Open} = {2} /\ {i \in 1..14 : text[i] = Close} = {14}
    BY <2>1, <2>2, <2>4, Zenon
  <2>6. QED
    BY <2>3, <2>5
<1>14. Pairs(text) = {<<2, 14>>}
  BY <1>13 DEF Pairs
<1>15. PICK data \in Seq(Int) : data = SubSeq(text, 2 + 1, 14 - 1)
  BY <1>10, Inside
<1>16. Len(data) = 11 /\ \A i \in 1..11 : data[i] = text[2 + i]
  BY <1>10, <1>15, Inside
<1>17. /\ data[1] = w /\ data[3] = x /\ data[5] = y /\ data[7] = z
       /\ data[9] = hi /\ data[11] = lo
       /\ data[2] = Comma /\ data[4] = Comma /\ data[6] = Comma /\ data[8] = Comma
       /\ data[10] = Comma
  BY <1>9, <1>16
<1>18. \A i \in 1..Len(data) : data[i] = Comma <=> i % 2 = 0
  <2>1. /\ data[1] # Comma /\ data[3] # Comma /\ data[5] # Comma /\ data[7] # Comma
        /\ data[9] # Comma /\ data[11] # Comma
    BY <1>11, <1>17
  <2>2. \A i \in 1..11 : data[i] = Comma <=> i % 2 = 0
    BY ZenonT(60), <1>17, <2>1, Eleven
  <2>3. QED
    BY <1>16, <2>2
<1>19. PICK parts : parts = Parts(data)
  OBVIOUS
<1>20. Len(parts) = 6 /\ \A j \in 1..6 : parts[j] = <<data[2 * j - 1]>>
  <2>1. Alternate(data, 11, parts)
    BY <1>16, <1>18, <1>19, PartsBetween
  <2>2. 1 + 11 \div 2 = 6 /\ \A j \in 1..6 : 2 * j - 1 <= 11
    OBVIOUS
  <2>3. QED
    BY <2>1, <2>2 DEF Alternate
<1>21. /\ parts[1] = <<w>> /\ parts[2] = <<x>> /\ parts[3] = <<y>> /\ parts[4] = <<z>>
       /\ parts[5] = <<hi>> /\ parts[6] = <<lo>>
  <2>1. 1 = 2 * 1 - 1 /\ 3 = 2 * 2 - 1 /\ 5 = 2 * 3 - 1 /\ 7 = 2 * 4 - 1 /\ 9 = 2 * 5 - 1
        /\ 11 = 2 * 6 - 1
    OBVIOUS
  <2>2. PICK odd : odd = [j \in 1..6 |-> 2 * j - 1]
    OBVIOUS
  <2>3. odd[1] = 1 /\ odd[2] = 3 /\ odd[3] = 5 /\ odd[4] = 7 /\ odd[5] = 9 /\ odd[6] = 11
    BY <2>1, <2>2
  <2>4. \A j \in 1..6 : parts[j] = <<data[odd[j]]>>
    BY <1>20, <2>2
  <2>5. 1 \in 1..6 /\ 2 \in 1..6 /\ 3 \in 1..6 /\ 4 \in 1..6 /\ 5 \in 1..6 /\ 6 \in 1..6
    OBVIOUS
  <2>6. QED
    BY <1>17, <2>3, <2>4, <2>5, Zenon
<1>22. \A i \in 1..4 : Parses(parts[i], MaxU8) /\ parts[i][1] = a.ip[i]
  <2>1. \A i \in 1..4 : i = 1 \/ i = 2 \/ i = 3 \/ i = 4
    OBVIOUS
  <2>2. /\ Parses(parts[1], MaxU8) /\ Parses(parts[2], MaxU8)
        /\ Parses(parts[3], MaxU8) /\ Parses(parts[4], MaxU8)
    BY <1>11, <1>21
  <2>3. parts[1][1] = w /\ parts[2][1] = x /\ parts[3][1] = y /\ parts[4][1] = z
    BY <1>11, <1>21
  <2>4. QED
    BY <1>2, <1>3, <1>4, <1>5, <2>1, <2>2, <2>3
<1>23. \A i \in 5..6 : Parses(parts[i], MaxU16)
  <2>1. \A i \in 5..6 : i = 5 \/ i = 6
    OBVIOUS
  <2>2. Parses(parts[5], MaxU16) /\ Parses(parts[6], MaxU16)
    BY <1>11, <1>21
  <2>3. QED
    BY <2>1, <2>2
<1>24. Fields(text) = {parts}
  <2>1. \A p \in Pairs(text) : Parts(SubSeq(text, p[1] + 1, p[2] - 1)) = parts
    <3>1. \A p \in Pairs(text) : p[1] = 2 /\ p[2] = 14
      BY <1>14
    <3>2. QED
      BY <1>15, <1>19, <3>1
  <2>2. Pairs(text) # {}
    BY <1>14
  <2>3. {Parts(SubSeq(text, p[1] + 1, p[2] - 1)) : p \in Pairs(text)} = {parts}
    BY <2>1, <2>2
  <2>4. QED
    BY <1>20, <1>22, <1>23, <2>3 DEF Fields
<1>25. Passive(text) =
         {[ip |-> [i \in 1..4 |-> parts[i][1]], port |-> parts[5][1] * 256 + parts[6][1]]}
  BY <1>24 DEF Passive
<1>26. [i \in 1..4 |-> parts[i][1]] = a.ip
  <2>1. a.ip = [i \in 1..4 |-> a.ip[i]]
    BY DEF Addresses
  <2>2. QED
    BY <1>22, <2>1
<1>27. parts[5][1] * 256 + parts[6][1] = a.port
  <2>1. parts[5][1] = hi /\ parts[6][1] = lo
    BY <1>11, <1>21
  <2>2. QED
    BY <1>8, <2>1
<1>28. a = [ip |-> a.ip, port |-> a.port]
  BY DEF Addresses
<1>29. QED
  BY <1>1, <1>25, <1>26, <1>27, <1>28
===============================================================================
