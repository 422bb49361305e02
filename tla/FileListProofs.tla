----------------------------- MODULE FileListProofs -----------------------------
(***************************************************************************)
(* What TLAPS proves of the parser of FileList, for every listing.         *)
(***************************************************************************)
EXTENDS FileList, SeqLemmas

SplitStep ==
  [x \in Seq(Words) \X Words |-> IF x[2] = Blank THEN x[1] ELSE Append(x[1], x[2])]

(* Split is computed word by word *)
LEMMA SplitAlong ==
  ASSUME NEW line \in Seq(Words)
  PROVE  \E f \in [0..Len(line) -> Seq(Words)] :
           Along(f, SplitStep, <<>>, line) /\ Split(line) = f[Len(line)]
<1> DEFINE Eq(f) == f = [i \in 0..Len(line) |->
                          IF i = 0 THEN <<>>
                          ELSE IF line[i] = Blank THEN f[i - 1]
                               ELSE Append(f[i - 1], line[i])]
           F == CHOOSE f : Eq(f)
<1>1. SplitStep \in [Seq(Words) \X Words -> Seq(Words)] /\ <<>> \in Seq(Words)
  BY DEF SplitStep
<1>2. PICK g \in [0..Len(line) -> Seq(Words)] : Along(g, SplitStep, <<>>, line)
  BY <1>1, AlongExists
<1>3. g[0] = <<>> /\ \A i \in 1..Len(line) : g[i] = IF line[i] = Blank THEN g[i - 1] ELSE Append(g[i - 1], line[i])
  <2>1. ASSUME NEW i \in 1..Len(line)
        PROVE  SplitStep[<<g[i - 1], line[i]>>] =
                 IF line[i] = Blank THEN g[i - 1] ELSE Append(g[i - 1], line[i])
    <3>1. g[i - 1] \in Seq(Words) /\ line[i] \in Words
      BY <1>2, ElementOfSeq
    <3>2. QED
      BY <3>1 DEF SplitStep
  <2>2. QED
    BY <1>2, <2>1 DEF Along
<1>4. Eq(g)
  <2>1. \A i \in 0..Len(line) : g[i] = IF i = 0 THEN <<>>
                          ELSE IF line[i] = Blank THEN g[i - 1]
                               ELSE Append(g[i - 1], line[i])
    <3>1. \A i \in 0..Len(line) : i = 0 \/ i \in 1..Len(line)
      OBVIOUS
    <3>2. QED
      BY <1>3, <3>1
  <2>2. g = [i \in 0..Len(line) |-> g[i]]
    BY <1>2
  <2>3. QED
    BY <2>1, <2>2
<1>5. Eq(F)
  BY <1>4
<1> HIDE DEF F
<1>6. F[0] = <<>> /\ \A i \in 1..Len(line) : F[i] = IF line[i] = Blank THEN F[i - 1] ELSE Append(F[i - 1], line[i])
  <2>1. \A i \in 0..Len(line) : F[i] = IF i = 0 THEN <<>>
                          ELSE IF line[i] = Blank THEN F[i - 1]
                               ELSE Append(F[i - 1], line[i])
    BY <1>5
  <2>2. QED
    BY <2>1
<1> DEFINE N == {n \in Nat : n <= Len(line) => F[n] = g[n]}
<1>7. 0 \in N
  BY <1>3, <1>6
<1>8. ASSUME NEW n \in Nat, n \in N PROVE n + 1 \in N
  <2> SUFFICES ASSUME n + 1 <= Len(line) PROVE F[n + 1] = g[n + 1]
    OBVIOUS
  <2>1. n + 1 \in 1..Len(line) /\ (n + 1) - 1 = n /\ F[n] = g[n]
    BY <1>8
  <2>2. g[n + 1] = IF line[n + 1] = Blank THEN g[n] ELSE Append(g[n], line[n + 1])
    BY <1>3, <2>1
  <2>3. QED
    BY <1>6, <2>1, <2>2
<1> HIDE DEF N
<1>9. Len(line) \in N
  BY <1>7, <1>8, Induction
<1>10. F[Len(line)] = g[Len(line)]
  BY <1>9 DEF N
<1>11. Split(line) = F[Len(line)]
  BY DEF Split, F
<1>12. QED
  BY <1>2, <1>10, <1>11

(* Split yields words *)
LEMMA SplitType ==
  ASSUME NEW line \in Seq(Words)
  PROVE  Split(line) \in Seq(Words)
BY SplitAlong

(* ... as the last of the values along the line *)
LEMMA SplitLast ==
  ASSUME NEW line \in Seq(Words)
  PROVE  \E f : Along(f, SplitStep, <<>>, line) /\ Split(line) = f[Len(line)]
BY SplitAlong

(* Of an empty line nothing is left *)
LEMMA SplitEmpty == Split(<<>>) = <<>>
<1>1. <<>> \in Seq(Words) /\ Len(<<>>) = 0
  OBVIOUS
<1>2. QED
  BY <1>1, SplitLast DEF Along

(* A blank is dropped, another word is kept *)
LEMMA SplitAppend ==
  ASSUME NEW line \in Seq(Words), NEW w \in Words
  PROVE  Split(Append(line, w)) = IF w = Blank THEN Split(line) ELSE Append(Split(line), w)
<1>1. PICK l \in Seq(Words) : l = Append(line, w)
  BY AppendFacts
<1>2. PICK n \in Nat : n = Len(line)
  OBVIOUS
<1>3. /\ Len(l) = n + 1 /\ l[n + 1] = w
      /\ \A i \in 1..n : line[i] = l[i]
  BY <1>1, <1>2, AppendFacts
<1>4. PICK f : Along(f, SplitStep, <<>>, line) /\ Split(line) = f[n]
  BY <1>2, SplitLast
<1>5. PICK g : Along(g, SplitStep, <<>>, l) /\ Split(l) = g[n + 1]
  BY <1>3, SplitLast
<1>6. f[n] = g[n]
  BY <1>2, <1>3, <1>4, <1>5, AlongUnique
<1>7. g[n + 1] = SplitStep[<<f[n], w>>]
  <2>1. n + 1 \in 1..Len(l) /\ (n + 1) - 1 = n
    BY <1>3
  <2>2. QED
    BY <1>3, <1>5, <1>6, <2>1 DEF Along
<1>8. SplitStep[<<f[n], w>>] = IF w = Blank THEN f[n] ELSE Append(f[n], w)
  BY <1>4, SplitType DEF SplitStep
<1>9. QED
  BY <1>1, <1>4, <1>5, <1>7, <1>8

(* A line may be split in two and each part by itself *)
LEMMA SplitConcat ==
  ASSUME NEW a \in Seq(Words)
  PROVE  \A b \in Seq(Words) : Split(a \o b) = Split(a) \o Split(b)
<1> DEFINE T == {b \in Seq(Words) : Split(a \o b) = Split(a) \o Split(b)}
<1>1. <<>> \in T
  <2>1. a \o <<>> = a /\ Split(a) \o <<>> = Split(a) /\ <<>> \in Seq(Words)
    BY SplitType, ConcatEmptySeq
  <2>2. Split(a \o <<>>) = Split(a) \o Split(<<>>)
    BY <2>1, SplitEmpty
  <2>3. QED
    BY <2>1, <2>2
<1>2. ASSUME NEW b \in Seq(Words), NEW w \in Words, b \in T
      PROVE  Append(b, w) \in T
  <2>1. a \o Append(b, w) = Append(a \o b, w) /\ a \o b \in Seq(Words)
    BY AppendConcat
  <2>2. Split(a) \in Seq(Words) /\ Split(b) \in Seq(Words)
    BY SplitType
  <2>3. Split(a) \o Append(Split(b), w) = Append(Split(a) \o Split(b), w)
    BY <2>2, AppendConcat
  <2>4. Split(a \o b) = Split(a) \o Split(b)
    BY <1>2
  <2>5. Split(Append(a \o b, w)) = IF w = Blank THEN Split(a \o b) ELSE Append(Split(a \o b), w)
    BY <2>1, SplitAppend
  <2>6. Split(Append(b, w)) = IF w = Blank THEN Split(b) ELSE Append(Split(b), w)
    BY SplitAppend
  <2>7. QED
    BY <2>1, <2>3, <2>4, <2>5, <2>6, AppendFacts
<1> HIDE DEF T
<1>3. \A b \in Seq(Words) : b \in T
  BY <1>1, <1>2, SeqInduction
<1>4. QED
  BY <1>3 DEF T

(* What a split leaves are words of the line, none of them blank           *)
LEMMA SplitWords ==
  \A line \in Seq(Words) : \A i \in 1..Len(Split(line)) :
    Split(line)[i] # Blank /\ \E j \in 1..Len(line) : line[j] = Split(line)[i]
<1> DEFINE P(line) == \A i \in 1..Len(Split(line)) :
              Split(line)[i] # Blank /\ \E j \in 1..Len(line) : line[j] = Split(line)[i]
           T == {line \in Seq(Words) : P(line)}
<1>1. <<>> \in T
  BY SplitEmpty
<1>2. ASSUME NEW line \in Seq(Words), NEW w \in Words, line \in T
      PROVE  Append(line, w) \in T
  <2>1. /\ Append(line, w) \in Seq(Words) /\ Len(Append(line, w)) = Len(line) + 1
        /\ \A j \in 1..Len(line) : Append(line, w)[j] = line[j]
        /\ Append(line, w)[Len(line) + 1] = w
    BY AppendFacts
  <2>2. PICK p \in Seq(Words) : p = Split(line)
    BY SplitType
  <2>3. \A i \in 1..Len(p) : p[i] # Blank /\ \E j \in 1..Len(Append(line, w)) : Append(line, w)[j] = p[i]
    <3>1. \A j \in 1..Len(line) : j \in 1..Len(Append(line, w))
      BY <2>1
    <3>2. QED
      BY <1>2, <2>1, <2>2, <3>1
  <2>4. CASE w = Blank
    <3>1. Split(Append(line, w)) = p
      BY <2>2, <2>4, SplitAppend
    <3>2. QED
      BY <2>1, <2>3, <3>1
  <2>5. CASE w # Blank
    <3>1. Split(Append(line, w)) = Append(p, w)
      BY <2>2, <2>5, SplitAppend
    <3>2. Len(line) + 1 \in 1..Len(Append(line, w))
      BY <2>1
    <3>3. \A i \in 1..Len(Append(p, w)) : (i \in 1..Len(p) /\ Append(p, w)[i] = p[i]) \/ Append(p, w)[i] = w
      BY <2>2, AppendFacts
    <3>4. QED
      BY <2>1, <2>3, <2>5, <3>1, <3>2, <3>3
  <2>6. QED
    BY <2>4, <2>5
<1> HIDE DEF T
<1>3. \A line \in Seq(Words) : line \in T
  BY <1>1, <1>2, SeqInduction
<1>4. QED
  BY <1>3 DEF T

(* Split adds nothing *)
LEMMA SplitShorter ==
  \A line \in Seq(Words) : Len(Split(line)) <= Len(line)
<1> DEFINE T == {line \in Seq(Words) : Len(Split(line)) <= Len(line)}
<1>1. <<>> \in T
  BY SplitEmpty
<1>2. ASSUME NEW line \in Seq(Words), NEW w \in Words, line \in T
      PROVE  Append(line, w) \in T
  <2>1. Append(line, w) \in Seq(Words) /\ Len(Append(line, w)) = Len(line) + 1
    BY AppendFacts
  <2>2. PICK p \in Seq(Words) : p = Split(line)
    BY SplitType
  <2>3. Len(Append(p, w)) = Len(p) + 1 /\ Len(p) <= Len(line)
    BY <1>2, <2>2, AppendFacts
  <2>4. Split(Append(line, w)) = p \/ Split(Append(line, w)) = Append(p, w)
    BY <2>2, SplitAppend
  <2>5. QED
    BY <2>1, <2>3, <2>4
<1> HIDE DEF T
<1>3. \A line \in Seq(Words) : line \in T
  BY <1>1, <1>2, SeqInduction
<1>4. QED
  BY <1>3 DEF T

(* A word by itself *)
LEMMA SplitOne ==
  ASSUME NEW w \in Words
  PROVE  Split(<<w>>) = IF w = Blank THEN <<>> ELSE <<w>>
<1>1. <<w>> = Append(<<>>, w) /\ <<>> \in Seq(Words)
  OBVIOUS
<1>2. QED
  BY <1>1, SplitEmpty, SplitAppend

(* A pair is its first and its second *)
LEMMA SeqOfTwo ==
  ASSUME NEW S, NEW a \in S, NEW b \in S
  PROVE  /\ <<a, b>> \in Seq(S) /\ <<a>> \in Seq(S) /\ <<b>> \in Seq(S)
         /\ <<a, b>> = <<a>> \o <<b>>
<1>1. <<a, b>> \in Seq(S) /\ <<a>> \in Seq(S) /\ <<b>> \in Seq(S)
  OBVIOUS
<1>2. PICK x \in Seq(S), y \in Seq(S), z \in Seq(S) : x = <<a>> /\ y = <<b>> /\ z = <<a, b>>
  BY <1>1
<1>3. Len(x) = 1 /\ Len(y) = 1 /\ Len(z) = 2 /\ x[1] = a /\ y[1] = b /\ z[1] = a /\ z[2] = b
  BY <1>2
<1>4. /\ x \o y \in Seq(S) /\ Len(x \o y) = Len(x) + Len(y)
      /\ \A i \in 1..(Len(x) + Len(y)) : (x \o y)[i] = IF i <= Len(x) THEN x[i] ELSE y[i - Len(x)]
  BY ConcatProperties
<1>5. \A i \in 1..2 : z[i] = (x \o y)[i]
  BY <1>3, <1>4
<1>6. z = x \o y
  BY <1>3, <1>4, <1>5, SeqEqual
<1>7. QED
  BY <1>1, <1>2, <1>6

(* A word after its blank *)
LEMMA SplitTwo ==
  ASSUME NEW w \in Words, w # Blank
  PROVE  Split(<<Blank, w>>) = <<w>> /\ <<Blank, w>> \in Seq(Words)
<1>1. Blank \in Words
  BY DEF Blank, Plain, Words
<1>2. <<Blank, w>> = <<Blank>> \o <<w>> /\ <<Blank>> \in Seq(Words) /\ <<w>> \in Seq(Words) /\ <<Blank, w>> \in Seq(Words)
  BY <1>1, SeqOfTwo
<1>3. Split(<<Blank>>) = <<>> /\ Split(<<w>>) = <<w>>
  BY <1>1, SplitOne
<1>4. Split(<<Blank, w>>) = <<>> \o <<w>>
  BY <1>2, <1>3, SplitConcat
<1>5. <<>> \o <<w>> = <<w>>
  BY <1>2, ConcatEmptySeq
<1>6. QED
  BY <1>2, <1>4, <1>5

(* Words without a blank among them stay what they are                     *)
LEMMA SplitNoBlank ==
  \A s \in Seq(Words) : (\A i \in 1..Len(s) : s[i] # Blank) => Split(s) = s
<1> DEFINE T == {s \in Seq(Words) : (\A i \in 1..Len(s) : s[i] # Blank) => Split(s) = s}
<1>1. <<>> \in T
  BY SplitEmpty
<1>2. ASSUME NEW s \in Seq(Words), NEW w \in Words, s \in T
      PROVE  Append(s, w) \in T
  <2>1. /\ Append(s, w) \in Seq(Words) /\ Len(Append(s, w)) = Len(s) + 1
        /\ \A j \in 1..Len(s) : Append(s, w)[j] = s[j]
        /\ Append(s, w)[Len(s) + 1] = w
    BY AppendFacts
  <2> SUFFICES ASSUME \A i \in 1..(Len(s) + 1) : Append(s, w)[i] # Blank
               PROVE  Split(Append(s, w)) = Append(s, w)
    BY <2>1
  <2>2. w # Blank /\ \A i \in 1..Len(s) : s[i] # Blank
    BY <2>1
  <2>3. QED
    BY <1>2, <2>2, SplitAppend
<1> HIDE DEF T
<1>3. \A s \in Seq(Words) : s \in T
  BY <1>1, <1>2, SeqInduction
<1>4. QED
  BY <1>3 DEF T

(* A word of the server is a word, and no blank unless it is one *)
LEMMA PlainWord ==
  ASSUME NEW kind \in {"chmod", "number", "month", "time", "text", "blank"}, NEW num \in Nat
  PROVE  /\ Plain(kind, num) \in Words
         /\ Plain(kind, num).kind = kind /\ Plain(kind, num).num = num
         /\ kind # "blank" => Plain(kind, num) # Blank
BY DEF Plain, Words, Blank

(* A blank is a word of its own kind *)
LEMMA BlankWord == Blank \in Words /\ Blank.kind = "blank"
BY PlainWord DEF Blank

(* Joined words are a line, of a blank between any two *)
LEMMA JoinType ==
  ASSUME NEW q \in Seq(Words)
  PROVE  /\ Join(q) \in Seq(Words)
         /\ Len(Join(q)) = IF q = <<>> THEN 0 ELSE 2 * Len(q) - 1
<1>1. ASSUME NEW i \in 1..(2 * Len(q) - 1)
      PROVE  (IF i % 2 = 1 THEN q[(i + 1) \div 2] ELSE Blank) \in Words
  <2>1. i % 2 = 1 => (i + 1) \div 2 \in 1..Len(q)
    OBVIOUS
  <2>2. QED
    BY <2>1, BlankWord, ElementOfSeq
<1>2. CASE q = <<>>
  <2>1. Join(<<>>) = <<>> /\ <<>> \in Seq(Words) /\ Len(<<>>) = 0
    BY DEF Join
  <2>2. Join(q) = <<>>
    BY <1>2, <2>1
  <2>3. QED
    BY <1>2, <2>2
<1>3. CASE q # <<>>
  <2>1. 2 * Len(q) - 1 \in Nat
    BY <1>3
  <2>2. QED
    BY <1>1, <1>3, <2>1, IsASeq DEF Join
<1>4. QED
  BY <1>2, <1>3

(* One word more, after a blank *)
LEMMA JoinAppend ==
  ASSUME NEW q \in Seq(Words), NEW w \in Words
  PROVE  Join(Append(q, w)) = IF q = <<>> THEN <<w>> ELSE Join(q) \o <<Blank, w>>
<1>1. PICK p \in Seq(Words) : p = Append(q, w)
  BY AppendFacts
<1>2. PICK n \in Nat : n = Len(q)
  OBVIOUS
<1>3. Len(p) = n + 1 /\ p[n + 1] = w /\ \A i \in 1..n : p[i] = q[i]
  BY <1>1, <1>2, AppendFacts
<1>4. Join(p) \in Seq(Words) /\ Len(Join(p)) = 2 * n + 1
  BY <1>3, JoinType
<1>5. \A i \in 1..(2 * n + 1) : Join(p)[i] = IF i % 2 = 1 THEN p[(i + 1) \div 2] ELSE Blank
  BY <1>3 DEF Join
<1>6. CASE q = <<>>
  <2>1. n = 0
    BY <1>2, <1>6
  <2>2. Join(p)[1] = w /\ Len(Join(p)) = 1
    BY <1>3, <1>4, <1>5, <2>1
  <2>3. QED
    BY <1>1, <1>4, <1>6, <2>2
<1>7. CASE q # <<>>
  <2>1. n >= 1 /\ Join(q) \in Seq(Words) /\ Len(Join(q)) = 2 * n - 1
    BY <1>2, <1>7, JoinType
  <2>2. \A i \in 1..(2 * n - 1) : Join(q)[i] = IF i % 2 = 1 THEN q[(i + 1) \div 2] ELSE Blank
    BY <1>2 DEF Join
  <2>3. PICK b \in Seq(Words) : b = <<Blank, w>>
    BY BlankWord, SeqOfTwo
  <2>4. Len(b) = 2 /\ b[1] = Blank /\ b[2] = w
    BY <2>3
  <2>5. PICK j \in Seq(Words) : j = Join(q)
    BY <2>1
  <2>6. /\ j \o b \in Seq(Words) /\ Len(j \o b) = 2 * n + 1
        /\ \A i \in 1..(2 * n + 1) : (j \o b)[i] = IF i <= 2 * n - 1 THEN j[i] ELSE b[i - (2 * n - 1)]
    <3>1. /\ j \o b \in Seq(Words) /\ Len(j \o b) = Len(j) + Len(b)
          /\ \A i \in 1..(Len(j) + Len(b)) : (j \o b)[i] = IF i <= Len(j) THEN j[i] ELSE b[i - Len(j)]
      BY ConcatProperties
    <3>2. Len(j) = 2 * n - 1
      BY <2>1, <2>5
    <3>3. Len(j) + Len(b) = 2 * n + 1
      BY <2>4, <3>2
    <3>4. QED
      BY <3>1, <3>2, <3>3
  <2>7. ASSUME NEW i \in 1..(2 * n + 1) PROVE Join(p)[i] = (j \o b)[i]
    <3>1. CASE i <= 2 * n - 1
      <4>1. i % 2 = 1 => (i + 1) \div 2 \in 1..n
        BY <3>1
      <4>2. i \in 1..(2 * n - 1)
        BY <3>1
      <4>3. (j \o b)[i] = Join(q)[i]
        BY <2>5, <2>6, <3>1
      <4>4. QED
        BY <1>3, <1>5, <2>2, <4>1, <4>2, <4>3
    <3>2. CASE i = 2 * n
      BY <1>5, <2>4, <2>6, <3>2
    <3>3. CASE i = 2 * n + 1
      <4>1. i % 2 = 1 /\ (i + 1) \div 2 = n + 1 /\ i - (2 * n - 1) = 2 /\ ~(i <= 2 * n - 1)
        BY <3>3
      <4>2. QED
        BY <1>3, <1>5, <2>4, <2>6, <4>1
    <3>4. i <= 2 * n - 1 \/ i = 2 * n \/ i = 2 * n + 1
      BY <2>1
    <3>5. QED
      BY <3>1, <3>2, <3>3, <3>4
  <2>8. Join(p) = j \o b
    BY <1>4, <2>6, <2>7, SeqEqual
  <2>9. QED
    BY <1>1, <1>7, <2>3, <2>5, <2>8
<1>8. QED
  BY <1>6, <1>7

(* split_whitespace takes apart what join(" ") put together                *)
LEMMA SplitJoin ==
  \A q \in Seq(Words) : (\A i \in 1..Len(q) : q[i] # Blank) => Split(Join(q)) = q
<1> DEFINE T == {q \in Seq(Words) : (\A i \in 1..Len(q) : q[i] # Blank) => Split(Join(q)) = q}
<1>1. <<>> \in T
  <2>1. Join(<<>>) = <<>>
    BY DEF Join
  <2>2. QED
    BY <2>1, SplitEmpty
<1>2. ASSUME NEW q \in Seq(Words), NEW w \in Words, q \in T
      PROVE  Append(q, w) \in T
  <2>1. /\ Append(q, w) \in Seq(Words) /\ Len(Append(q, w)) = Len(q) + 1
        /\ \A j \in 1..Len(q) : Append(q, w)[j] = q[j]
        /\ Append(q, w)[Len(q) + 1] = w
    BY AppendFacts
  <2> SUFFICES ASSUME \A i \in 1..(Len(q) + 1) : Append(q, w)[i] # Blank
               PROVE  Split(Join(Append(q, w))) = Append(q, w)
    BY <2>1
  <2>2. w # Blank /\ \A i \in 1..Len(q) : q[i] # Blank
    BY <2>1
  <2>3. Split(Join(q)) = q
    BY <1>2, <2>2
  <2>4. CASE q = <<>>
    <3>1. Join(Append(q, w)) = <<w>>
      BY <2>4, JoinAppend
    <3>2. Append(q, w) = <<w>>
      BY <2>4
    <3>3. QED
      BY <2>2, <3>1, <3>2, SplitOne
  <2>5. CASE q # <<>>
    <3>1. PICK j \in Seq(Words) : j = Join(q)
      BY JoinType
    <3>2. Join(Append(q, w)) = j \o <<Blank, w>>
      BY <2>5, <3>1, JoinAppend
    <3>3. Split(<<Blank, w>>) = <<w>> /\ <<Blank, w>> \in Seq(Words)
      BY <2>2, SplitTwo, BlankWord
    <3>4. Split(j \o <<Blank, w>>) = Split(j) \o <<w>>
      BY <3>3, SplitConcat
    <3>5. QED
      BY <2>3, <3>1, <3>2, <3>4, AppendIsConcat
  <2>6. QED
    BY <2>4, <2>5
<1> HIDE DEF T
<1>3. \A q \in Seq(Words) : q \in T
  BY <1>1, <1>2, SeqInduction
<1>4. QED
  BY <1>3 DEF T
-------------------------------------------------------------------------------
(* A line that the server writes, column by column                         *)
Front2(e) == <<Chmod(e.mode), Plain("number", 1)>>
Middle4(e, t) == <<Plain("number", e.size), Plain("month", e.modified % 12),
                   Plain("number", 1), Stamp(e.modified, t)>>
Columns(e, t) ==
  Front2(e) \o Split(e.user) \o Split(e.group) \o Middle4(e, t) \o Split(e.name)

(* The columns before the names and after them are words, none of them blank *)
LEMMA ColumnWords ==
  ASSUME NEW e \in Entries, NEW t \in Nat
  PROVE  /\ Front2(e) \in Seq(Words) /\ Len(Front2(e)) = 2
         /\ Front2(e)[1] = Chmod(e.mode)
         /\ \A i \in 1..2 : Front2(e)[i] # Blank
         /\ Middle4(e, t) \in Seq(Words) /\ Len(Middle4(e, t)) = 4
         /\ \A i \in 1..4 : Middle4(e, t)[i] # Blank
         /\ Middle4(e, t)[1] = Plain("number", e.size)
         /\ Middle4(e, t)[2] = Plain("month", e.modified % 12)
         /\ Middle4(e, t)[4] = Stamp(e.modified, t)
<1>1. e.mode \in SUBSET (0..9) /\ e.size \in Nat /\ e.modified \in Nat
  BY DEF Entries
<1>2. Chmod(e.mode) \in Words /\ Chmod(e.mode) # Blank
  BY <1>1 DEF Chmod, Words, Blank, Plain
<1>3. Plain("number", 1) \in Words /\ Plain("number", 1) # Blank
  BY PlainWord
<1>4. Plain("number", e.size) \in Words /\ Plain("number", e.size) # Blank
  BY <1>1, PlainWord
<1>5. e.modified % 12 \in Nat /\ Year(e.modified) \in Nat
  BY <1>1 DEF Year
<1>6. Plain("month", e.modified % 12) \in Words /\ Plain("month", e.modified % 12) # Blank
  BY <1>5, PlainWord
<1>7. Stamp(e.modified, t) \in Words /\ Stamp(e.modified, t) # Blank
  BY <1>5, PlainWord DEF Stamp
<1>8. QED
  BY <1>2, <1>3, <1>4, <1>6, <1>7 DEF Front2, Middle4

(* The concatenation of two sequences *)
LEMMA ConcatType ==
  ASSUME NEW S, NEW a \in Seq(S), NEW b \in Seq(S)
  PROVE  a \o b \in Seq(S)
BY ConcatProperties

(* A blank between two texts ends the words of the first                   *)
LEMMA SplitAtBlank ==
  ASSUME NEW a \in Seq(Words), NEW b \in Seq(Words)
  PROVE  Split(a \o <<Blank>> \o b) = Split(a) \o Split(b) /\ a \o <<Blank>> \o b \in Seq(Words)
<1>1. <<Blank>> \in Seq(Words) /\ Split(<<Blank>>) = <<>>
  BY BlankWord, SplitOne
<1>2. a \o <<Blank>> \in Seq(Words)
  BY <1>1, ConcatType
<1>3. Split(a \o <<Blank>>) = Split(a) \o <<>> /\ Split(a) \in Seq(Words)
  BY ZenonT(60), <1>1, SplitConcat, SplitType
<1>4. Split(a) \o <<>> = Split(a)
  BY <1>3, ConcatEmptySeq
<1>5. Split((a \o <<Blank>>) \o b) = Split(a \o <<Blank>>) \o Split(b)
  BY <1>2, SplitConcat
<1>6. (a \o <<Blank>>) \o b \in Seq(Words)
  BY <1>2, ConcatType
<1>7. QED
  BY <1>3, <1>4, <1>5, <1>6

(* split_whitespace takes the line of a file apart into its columns *)
LEMMA SplitLine ==
  ASSUME NEW e \in Entries, NEW t \in Nat, e.type = "file"
  PROVE  Line(e, t) \in Seq(Words) /\ Split(Line(e, t)) = Columns(e, t)
<1>1. PICK a \in Seq(Words) : a = Join(Front2(e))
  BY ColumnWords, JoinType
<1>2. PICK m \in Seq(Words) : m = Join(Middle4(e, t))
  BY ColumnWords, JoinType
<1>3. e.user \in Seq(Words) /\ e.group \in Seq(Words) /\ e.name \in Seq(Words)
  <2>1. \A o \in Owners : o \in Seq(Words)
    <3>1. {w \in Words : w.kind = "text" /\ w.mode = {}} \cup {Blank} \subseteq Words
      BY BlankWord
    <3>2. QED
      BY <3>1, SeqMonotonic DEF Owners
  <2>2. QED
    BY <2>1 DEF Entries
<1>4. Split(a) = Front2(e) /\ Split(m) = Middle4(e, t)
  BY <1>1, <1>2, ColumnWords, SplitJoin
<1>5. PICK a1 \in Seq(Words) : a1 = a \o <<Blank>> \o e.user /\ Split(a1) = Split(a) \o Split(e.user)
  BY <1>3, SplitAtBlank
<1>6. PICK a2 \in Seq(Words) : a2 = a1 \o <<Blank>> \o e.group /\ Split(a2) = Split(a1) \o Split(e.group)
  BY <1>3, SplitAtBlank
<1>7. PICK a3 \in Seq(Words) : a3 = a2 \o <<Blank>> \o m /\ Split(a3) = Split(a2) \o Split(m)
  BY SplitAtBlank
<1>8. PICK a4 \in Seq(Words) : a4 = a3 \o <<Blank>> \o e.name /\ Split(a4) = Split(a3) \o Split(e.name)
  BY <1>3, SplitAtBlank
<1>9. Line(e, t) = a4
  BY <1>1, <1>2, <1>5, <1>6, <1>7, <1>8 DEF Line, Front2, Middle4
<1>10. QED
  BY <1>4, <1>5, <1>6, <1>7, <1>8, <1>9 DEF Columns

(* A line consists of words *)
LEMMA LineType ==
  ASSUME NEW e \in Entries, NEW t \in Nat
  PROVE  Line(e, t) \in Seq(Words)
<1>1. CASE e.type = "file"
  BY <1>1, SplitLine
<1>2. CASE e.type = "total"
  <2>1. Plain("text", 0) \in Words /\ Plain("number", e.size) \in Words
    BY PlainWord DEF Entries
  <2>2. Line(e, t) = <<Plain("text", 0), Blank, Plain("number", e.size)>>
    BY <1>2 DEF Line
  <2>3. <<Plain("text", 0), Blank, Plain("number", e.size)>> \in Seq(Words)
    BY <2>1, BlankWord
  <2>4. QED
    BY <2>2, <2>3
<1>3. QED
  BY <1>1, <1>2 DEF Entries

(* An owner's name is one word or contains a blank; its words are texts    *)
LEMMA OwnerWords ==
  ASSUME NEW o \in Owners
  PROVE  /\ o \in Seq(Words) /\ Split(o) \in Seq(Words)
         /\ Len(Split(o)) >= 1
         /\ \A i \in 1..Len(Split(o)) :
              Split(o)[i].kind = "text" /\ Split(o)[i] = Plain("text", Split(o)[i].num)
         /\ Len(Split(o)) = 1 => o = Split(o)
<1> DEFINE S == {w \in Words : w.kind = "text" /\ w.mode = {}} \cup {Blank}
<1>1. S \subseteq Words /\ o \in Seq(S) /\ o # <<>> /\ o[1] # Blank /\ o[Len(o)] # Blank
  BY BlankWord DEF Owners
<1>2. o \in Seq(Words) /\ \A i \in 1..Len(o) : o[i] \in S
  <2> HIDE DEF S
  <2>1. QED
    BY <1>1, SeqMonotonic, ElementOfSeq
<1>3. PICK p \in Seq(Words) : p = Split(o)
  BY <1>2, SplitType
<1>4. \A i \in 1..Len(p) : p[i] # Blank /\ p[i] \in S
  BY <1>2, <1>3, SplitWords
<1>5. \A i \in 1..Len(p) : p[i].kind = "text" /\ p[i] = Plain("text", p[i].num)
  <2>1. \A w \in Words : w.kind = "text" /\ w.mode = {} => w = Plain("text", w.num)
    BY DEF Words, Plain
  <2>2. QED
    BY <1>4, <2>1
<1>6. PICK q \in Seq(Words) : o = <<o[1]>> \o q /\ q = Tail(o) /\ o[1] \in Words
  <2>1. Len(o) >= 1 /\ o[1] \in Words /\ Tail(o) \in Seq(Words)
    BY <1>1, <1>2
  <2>2. SubSeq(o, 1, Len(o)) = <<o[1]>> \o SubSeq(o, 2, Len(o))
    BY <1>2, <2>1, SubSeqRecursiveFirst
  <2>3. SubSeq(o, 1, Len(o)) = o /\ Tail(o) = SubSeq(o, 2, Len(o))
    BY <1>1, <1>2, SubSeqFull, TailIsSubSeq
  <2>4. QED
    BY <2>1, <2>2, <2>3
<1>7. p = <<o[1]>> \o Split(q) /\ <<o[1]>> \in Seq(Words) /\ Split(q) \in Seq(Words)
  <2>1. Split(<<o[1]>>) = <<o[1]>> /\ <<o[1]>> \in Seq(Words)
    BY <1>1, <1>6, SplitOne
  <2>2. QED
    BY <1>3, <1>6, <2>1, SplitConcat, SplitType
<1>8. Len(p) = 1 + Len(Split(q))
  BY <1>7, ConcatProperties
<1>9. ASSUME Len(p) = 1 PROVE o = p
  <2>1. Split(q) = <<>>
    BY <1>7, <1>8, <1>9
  <2>2. CASE q = <<>>
    BY <1>6, <1>7, <2>1, <2>2, SplitEmpty
  <2>3. CASE q # <<>>
    <3>1. q[Len(q)] = o[Len(o)] /\ Len(q) >= 1
      BY <1>1, <1>2, <1>6, <2>3
    <3>2. PICK b \in Seq(Words), w \in Words : q = Append(b, w) /\ w # Blank
      <4>1. q = Append(SubSeq(q, 1, Len(q) - 1), q[Len(q)]) /\ SubSeq(q, 1, Len(q) - 1) \in Seq(Words) /\ q[Len(q)] \in Words
        BY <2>3, <3>1, ElementOfSeq, LastAppend
      <4>2. QED
        BY <1>1, <3>1, <4>1
    <3>3. Split(q) = Append(Split(b), w)
      BY <3>2, SplitAppend
    <3>4. Len(Split(q)) = Len(Split(b)) + 1 /\ Len(Split(b)) \in Nat
      BY <3>3, SplitType, AppendFacts
    <3>5. QED
      BY <1>8, <1>9, <1>7, <3>4
  <2>4. QED
    BY <2>2, <2>3
<1>10. QED
  BY <1>2, <1>3, <1>5, <1>7, <1>8, <1>9
(* Where the columns of a line with one word for each owner are            *)
LEMMA ColumnsAt ==
  ASSUME NEW e \in Entries, NEW t \in Nat, NEW p \in Seq(Words), p = Columns(e, t)
  PROVE  /\ p[1] = Chmod(e.mode) /\ Len(p) >= 4
         /\ Len(Split(e.user)) + Len(Split(e.group)) >= 3 => Len(p) >= 5 /\ p[5].kind = "text"
         /\ Len(Split(e.user)) + Len(Split(e.group)) < 3 =>
              /\ e.user = <<Plain("text", p[3].num)>> /\ e.group = <<Plain("text", p[4].num)>>
              /\ \A i \in 1..4 : p[4 + i] = Middle4(e, t)[i]
              /\ SubSeq(p, 9, Len(p)) = Split(e.name) /\ Len(p) = 8 + Len(Split(e.name))
<1>1. PICK a \in Seq(Words) : a = Front2(e)
  BY ColumnWords
<1>2. PICK m \in Seq(Words) : m = Middle4(e, t)
  BY ColumnWords
<1>3. e.user \in Owners /\ e.group \in Owners /\ e.name \in Seq(Words)
  BY DEF Entries
<1>4. PICK u \in Seq(Words) : u = Split(e.user)
  BY <1>3, OwnerWords
<1>5. PICK g \in Seq(Words) : g = Split(e.group)
  BY <1>3, OwnerWords
<1>6. PICK n \in Seq(Words) : n = Split(e.name)
  BY <1>3, SplitType
<1>7. /\ Len(u) >= 1 /\ Len(g) >= 1 /\ Len(u) \in Nat /\ Len(g) \in Nat /\ Len(n) \in Nat
      /\ \A i \in 1..Len(u) : u[i].kind = "text" /\ u[i] = Plain("text", u[i].num)
      /\ \A i \in 1..Len(g) : g[i].kind = "text" /\ g[i] = Plain("text", g[i].num)
      /\ Len(u) = 1 => e.user = u
      /\ Len(g) = 1 => e.group = g
  BY <1>3, <1>4, <1>5, OwnerWords
<1>8. Len(a) = 2 /\ Len(m) = 4 /\ a[1] = Chmod(e.mode)
  BY <1>1, <1>2, ColumnWords
<1>9. PICK b \in Seq(Words) : b = a \o u
  BY ConcatType
<1>10. PICK c \in Seq(Words) : c = b \o g
  BY ConcatType
<1>11. PICK d \in Seq(Words) : d = c \o m
  BY ConcatType
<1>12. p = d \o n
  BY <1>1, <1>2, <1>4, <1>5, <1>6, <1>9, <1>10, <1>11 DEF Columns
<1>13. /\ Len(b) = 2 + Len(u)
       /\ \A i \in 1..(2 + Len(u)) : b[i] = IF i <= 2 THEN a[i] ELSE u[i - 2]
  <2>1. Len(b) = Len(a) + Len(u) /\ \A i \in 1..(Len(a) + Len(u)) : b[i] = IF i <= Len(a) THEN a[i] ELSE u[i - Len(a)]
    BY <1>9, ConcatProperties
  <2>2. QED
    BY <1>8, <2>1
<1>14. /\ Len(c) = 2 + Len(u) + Len(g)
       /\ \A i \in 1..(2 + Len(u) + Len(g)) : c[i] = IF i <= 2 + Len(u) THEN b[i] ELSE g[i - (2 + Len(u))]
  <2>1. Len(c) = Len(b) + Len(g) /\ \A i \in 1..(Len(b) + Len(g)) : c[i] = IF i <= Len(b) THEN b[i] ELSE g[i - Len(b)]
    BY <1>10, ConcatProperties
  <2>2. QED
    BY <1>13, <2>1
<1>15. /\ Len(d) = Len(c) + 4
       /\ \A i \in 1..(Len(c) + 4) : d[i] = IF i <= Len(c) THEN c[i] ELSE m[i - Len(c)]
  <2>1. Len(d) = Len(c) + Len(m) /\ \A i \in 1..(Len(c) + Len(m)) : d[i] = IF i <= Len(c) THEN c[i] ELSE m[i - Len(c)]
    BY <1>11, ConcatProperties
  <2>2. QED
    BY <1>8, <2>1
<1>16. /\ Len(p) = Len(d) + Len(n)
       /\ \A i \in 1..(Len(d) + Len(n)) : p[i] = IF i <= Len(d) THEN d[i] ELSE n[i - Len(d)]
  BY <1>12, ConcatProperties
<1>17. Len(c) \in Nat /\ Len(c) >= 4 /\ Len(d) \in Nat
  BY <1>7, <1>14
<1>18. \A i \in 1..Len(c) : p[i] = c[i]
  BY <1>7, <1>15, <1>16, <1>17
<1>19. p[1] = Chmod(e.mode) /\ Len(p) >= 4
  BY <1>7, <1>8, <1>13, <1>14, <1>15, <1>16, <1>17, <1>18
<1>20. ASSUME Len(u) + Len(g) >= 3 PROVE Len(p) >= 5 /\ p[5].kind = "text"
  <2>1. Len(c) >= 5 /\ p[5] = c[5] /\ Len(p) >= 5
    BY <1>7, <1>14, <1>15, <1>16, <1>17, <1>18, <1>20
  <2>2. CASE Len(u) >= 3
    <3>1. c[5] = b[5] /\ b[5] = u[3] /\ 3 \in 1..Len(u)
      BY <1>7, <1>13, <1>14, <2>2
    <3>2. QED
      BY <1>7, <2>1, <3>1
  <2>3. CASE ~(Len(u) >= 3)
    <3>1. c[5] = g[5 - (2 + Len(u))] /\ 5 - (2 + Len(u)) \in 1..Len(g)
      BY <1>7, <1>14, <1>20, <2>3
    <3>2. QED
      BY <1>7, <2>1, <3>1
  <2>4. QED
    BY <2>2, <2>3
<1>21. ASSUME Len(u) + Len(g) < 3
       PROVE  /\ e.user = <<Plain("text", p[3].num)>> /\ e.group = <<Plain("text", p[4].num)>>
              /\ \A i \in 1..4 : p[4 + i] = Middle4(e, t)[i]
              /\ SubSeq(p, 9, Len(p)) = Split(e.name) /\ Len(p) = 8 + Len(Split(e.name))
  <2>1. Len(u) = 1 /\ Len(g) = 1 /\ Len(c) = 4 /\ Len(d) = 8
    <3>1. Len(u) = 1 /\ Len(g) = 1
      <4>1. Len(u) \in Nat /\ Len(g) \in Nat /\ Len(u) >= 1 /\ Len(g) >= 1
        BY <1>7
      <4>2. Len(u) + Len(g) < 3
        BY <1>21
      <4>3. \A x, y \in Nat : x >= 1 /\ y >= 1 /\ x + y < 3 => x = 1 /\ y = 1
        OBVIOUS
      <4>4. QED
        BY <4>1, <4>2, <4>3
    <3>2. QED
      BY <1>14, <1>15, <3>1
  <2>2. p[3] = u[1] /\ p[4] = g[1]
    BY <1>13, <1>14, <1>18, <2>1
  <2>3. e.user = <<Plain("text", p[3].num)>> /\ e.group = <<Plain("text", p[4].num)>>
    <3>1. u[1] = Plain("text", u[1].num) /\ g[1] = Plain("text", g[1].num)
      BY <1>7, <2>1
    <3>2. u = <<u[1]>> /\ g = <<g[1]>>
      BY <2>1
    <3>3. QED
      BY <1>7, <2>1, <2>2, <3>1, <3>2
  <2>4. ASSUME NEW i \in 1..4 PROVE p[4 + i] = m[i]
    <3>1. 4 + i \in 1..8 /\ ~(4 + i <= 4) /\ (4 + i) - 4 = i
      OBVIOUS
    <3>2. d[4 + i] = m[i]
      BY <1>15, <2>1, <3>1
    <3>3. p[4 + i] = d[4 + i]
      BY <1>7, <1>16, <2>1, <3>1
    <3>4. QED
      BY <3>2, <3>3
  <2>5. Len(p) = 8 + Len(n)
    BY <1>16, <2>1
  <2>6. SubSeq(p, 9, Len(p)) = n
    <3>1. \A i \in 9..(8 + Len(n)) : p[i] = n[i - 8]
      BY <1>7, <1>16, <2>1
    <3>2. \A i \in 9..(8 + Len(n)) : p[i] \in Words
      BY <2>5, ElementOfSeq
    <3>3. PICK s \in Seq(Words) : s = SubSeq(p, 9, 8 + Len(n)) /\ Len(s) = Len(n) /\ \A i \in 1..Len(n) : s[i] = p[9 + i - 1]
      <4>1. /\ SubSeq(p, 9, 8 + Len(n)) \in Seq(Words)
            /\ Len(SubSeq(p, 9, 8 + Len(n))) = IF 9 <= 8 + Len(n) THEN (8 + Len(n)) - 9 + 1 ELSE 0
            /\ \A i \in 1..((8 + Len(n)) - 9 + 1) : SubSeq(p, 9, 8 + Len(n))[i] = p[9 + i - 1]
        BY <1>7, <3>2, SubSeqProperties
      <4>2. (8 + Len(n)) - 9 + 1 = Len(n) /\ (IF 9 <= 8 + Len(n) THEN (8 + Len(n)) - 9 + 1 ELSE 0) = Len(n)
        BY <1>7
      <4>3. QED
        BY <4>1, <4>2
    <3>4. \A i \in 1..Len(n) : s[i] = n[i]
      <4>1. \A i \in 1..Len(n) : 9 + i - 1 \in 9..(8 + Len(n)) /\ (9 + i - 1) - 8 = i
        BY <1>7
      <4>2. QED
        BY <3>1, <3>3, <4>1
    <3>5. s = n
      BY <3>3, <3>4, SeqEqual
    <3>6. QED
      BY <2>5, <3>3, <3>5
  <2>7. QED
    BY <1>2, <1>6, <2>3, <2>4, <2>5, <2>6
<1>22. QED
  BY <1>4, <1>5, <1>19, <1>20, <1>21

(* What from_str makes of a line is metadata                               *)
LEMMA FromStrType ==
  ASSUME NEW line \in Seq(Words), NEW today \in Nat, NEW m \in from_str(line, today)
  PROVE  m \in Metadata
<1>1. PICK p \in Seq(Words) : p = Split(line)
  BY SplitType
<1>2. /\ Valid(p)
      /\ m = [chmod |-> from_chmod(p[1].mode), user |-> p[3].num, group |-> p[4].num,
              size |-> p[5].num, date |-> Date(p, today),
              filename |-> Join(SubSeq(p, 9, Len(p)))]
  BY <1>1 DEF from_str
<1>3. Len(p) >= 9 /\ \A i \in 1..Len(p) : p[i] \in Words
  BY <1>2, ElementOfSeq DEF Valid
<1>4. p[3].num \in Nat /\ p[4].num \in Nat /\ p[5].num \in Nat /\ p[6].num \in Nat /\ p[8].num \in Nat
  <2>1. \A w \in Words : w.num \in Nat
    BY DEF Words
  <2>2. QED
    BY <1>3, <2>1
<1>5. Date(p, today) \in Nat
  <2>1. PICK y \in Nat : y = IF p[8].kind = "time" THEN Year(today) ELSE p[8].num
    BY SMTT(30), <1>4 DEF Year
  <2>2. Date(p, today) = 12 * y + p[6].num
    BY <2>1 DEF Date
  <2>3. QED
    BY SMTT(30), <1>4, <2>2
<1>6. Join(SubSeq(p, 9, Len(p))) \in Seq(Words)
  <2>1. SubSeq(p, 9, Len(p)) \in Seq(Words)
    BY <1>3, SubSeqProperties
  <2>2. QED
    BY <2>1, JoinType
<1>7. QED
  BY <1>2, <1>4, <1>5, <1>6 DEF Metadata, from_chmod

(* What the client makes of a line, or of the beginning of one, that the   *)
(* server wrote in month t is right, but for the file's name, which needs  *)
(* the whole line, and the date.                                           *)
LEMMA LineRead ==
  ASSUME NEW e \in Entries, NEW t \in Nat, NEW today \in Nat,
         NEW n \in 0..Len(Line(e, t)),
         NEW m \in from_str(SubSeq(Line(e, t), 1, n), today)
  PROVE  /\ e.type = "file"
         /\ m.chmod = from_chmod(e.mode) /\ m.size = e.size
         /\ e.user = <<Plain("text", m.user)>> /\ e.group = <<Plain("text", m.group)>>
         /\ m.date = 12 * (IF t - e.modified \in 0..5 THEN Year(today) ELSE Year(e.modified))
                      + (e.modified % 12)
         /\ n = Len(Line(e, t)) => m.filename = Join(Split(e.name))
<1>0. e.size \in Nat /\ e.modified \in Nat
  BY DEF Entries
<1>1. PICK line \in Seq(Words) : line = Line(e, t)
  BY LineType
<1>2. PICK head \in Seq(Words), rest \in Seq(Words) :
        head = SubSeq(line, 1, n) /\ line = head \o rest
  <2>1. /\ SubSeq(line, 1, n) \o SubSeq(line, n + 1, Len(line)) = SubSeq(line, 1, Len(line))
    <3>1. n \in 0..Len(line) /\ 1 \in 1..(Len(line) + 1) /\ n \in (1 - 1)..Len(line) /\ Len(line) \in n..Len(line)
      BY <1>1
    <3>2. QED
      BY <3>1, ConcatAdjacentSubSeq
  <2>2. SubSeq(line, 1, Len(line)) = line
    BY SubSeqFull
  <2>3. SubSeq(line, 1, n) \in Seq(Words) /\ SubSeq(line, n + 1, Len(line)) \in Seq(Words)
    <3>1. \A i \in 1..Len(line) : line[i] \in Words
      BY ElementOfSeq
    <3>2. n \in 0..Len(line)
      BY <1>1
    <3>3. QED
      BY <3>1, <3>2, SubSeqProperties
  <2>4. QED
    BY <2>1, <2>2, <2>3
<1>3. PICK p \in Seq(Words), q \in Seq(Words), r \in Seq(Words) :
        p = Split(line) /\ q = Split(head) /\ r = Split(rest) /\ p = q \o r
  <2>1. Split(line) \in Seq(Words) /\ Split(head) \in Seq(Words) /\ Split(rest) \in Seq(Words)
    BY SplitType
  <2>2. Split(line) = Split(head) \o Split(rest)
    BY <1>2, SplitConcat
  <2>3. QED
    BY <2>1, <2>2
<1>4. /\ Valid(q)
      /\ m = [chmod |-> from_chmod(q[1].mode), user |-> q[3].num, group |-> q[4].num,
              size |-> q[5].num, date |-> Date(q, today),
              filename |-> Join(SubSeq(q, 9, Len(q)))]
  BY <1>1, <1>2, <1>3 DEF from_str
<1>5. Len(q) >= 9 /\ Len(p) >= 9 /\ \A i \in 1..8 : p[i] = q[i]
  <2>1. Len(q) >= 9
    BY <1>4 DEF Valid
  <2>2. Len(p) = Len(q) + Len(r) /\ \A i \in 1..(Len(q) + Len(r)) : p[i] = IF i <= Len(q) THEN q[i] ELSE r[i - Len(q)]
    BY <1>3, ConcatProperties
  <2>3. Len(q) \in Nat /\ Len(r) \in Nat
    OBVIOUS
  <2>4. \A i \in 1..8 : i \in 1..(Len(q) + Len(r)) /\ i <= Len(q)
    BY <2>1, <2>3
  <2>5. QED
    BY <2>1, <2>2, <2>3, <2>4
<1>6. e.type = "file"
  <2>1. ASSUME e.type = "total" PROVE FALSE
    <3>1. line = <<Plain("text", 0), Blank, Plain("number", e.size)>>
      BY <1>1, <2>1 DEF Line
    <3>2. Len(line) = 3
      BY <3>1
    <3>3. Len(p) <= Len(line)
      BY <1>3, SplitShorter
    <3>4. QED
      BY <1>5, <3>2, <3>3
  <2>2. QED
    BY <2>1 DEF Entries
<1>7. p = Columns(e, t)
  BY <1>1, <1>3, <1>6, SplitLine
<1>8. Len(Split(e.user)) + Len(Split(e.group)) < 3
  <2>1. p[5].kind = "number"
    <3>1. p[5] = q[5] /\ q[5].kind = "number"
      BY <1>4, <1>5 DEF Valid
    <3>2. QED
      BY <3>1
  <2>2. ~(Len(Split(e.user)) + Len(Split(e.group)) >= 3)
    BY <1>7, <2>1, ColumnsAt
  <2>3. Len(Split(e.user)) \in Nat /\ Len(Split(e.group)) \in Nat
    BY SMTT(30), OwnerWords DEF Entries
  <2>4. QED
    BY <2>2, <2>3
<1>9. /\ q[1] = Chmod(e.mode)
      /\ e.user = <<Plain("text", q[3].num)>> /\ e.group = <<Plain("text", q[4].num)>>
      /\ q[5] = Plain("number", e.size) /\ q[6] = Plain("month", e.modified % 12)
      /\ q[8] = Stamp(e.modified, t)
      /\ SubSeq(p, 9, Len(p)) = Split(e.name)
  <2>1. /\ p[1] = Chmod(e.mode)
        /\ e.user = <<Plain("text", p[3].num)>> /\ e.group = <<Plain("text", p[4].num)>>
        /\ \A i \in 1..4 : p[4 + i] = Middle4(e, t)[i]
        /\ SubSeq(p, 9, Len(p)) = Split(e.name)
    BY <1>7, <1>8, ColumnsAt
  <2>2. p[4 + 1] = Middle4(e, t)[1] /\ p[4 + 2] = Middle4(e, t)[2] /\ p[4 + 4] = Middle4(e, t)[4]
    BY <2>1
  <2>3. p[5] = Plain("number", e.size) /\ p[6] = Plain("month", e.modified % 12) /\ p[8] = Stamp(e.modified, t)
    BY <2>2, ColumnWords
  <2>4. p[1] = q[1] /\ p[3] = q[3] /\ p[4] = q[4] /\ p[5] = q[5] /\ p[6] = q[6] /\ p[8] = q[8]
    BY <1>5
  <2>5. QED
    BY <2>1, <2>3, <2>4
<1>10. q[1].mode = e.mode
  BY <1>9 DEF Chmod
<1>11. m.size = e.size /\ q[6].num = e.modified % 12
  <2>1. e.modified % 12 \in Nat
    BY <1>0
  <2>2. Plain("number", e.size).num = e.size /\ Plain("month", e.modified % 12).num = e.modified % 12
    BY DEF Plain
  <2>3. m.size = q[5].num
    BY <1>4
  <2>4. QED
    BY <1>9, <2>2, <2>3
<1>12. m.date = 12 * (IF t - e.modified \in 0..5 THEN Year(today) ELSE Year(e.modified)) + (e.modified % 12)
  <2>1. m.date = 12 * (IF q[8].kind = "time" THEN Year(today) ELSE q[8].num) + (e.modified % 12)
    <3>1. m.date = Date(q, today)
      BY <1>4
    <3>2. Date(q, today) = 12 * (IF q[8].kind = "time" THEN Year(today) ELSE q[8].num) + q[6].num
      BY DEF Date
    <3>3. q[6].num = e.modified % 12
      BY <1>11
    <3>4. QED
      BY <3>1, <3>2, <3>3
  <2>2. CASE t - e.modified \in 0..5
    <3>1. q[8].kind = "time"
      BY <1>9, <2>2 DEF Stamp, Plain
    <3>2. QED
      BY <2>1, <2>2, <3>1
  <2>3. CASE t - e.modified \notin 0..5
    <3>1. q[8].kind = "number" /\ q[8].num = Year(e.modified)
      BY <1>9, <2>3 DEF Stamp, Plain
    <3>2. QED
      BY <2>1, <2>3, <3>1
  <2>4. QED
    BY <2>2, <2>3
<1>13. ASSUME n = Len(Line(e, t)) PROVE m.filename = Join(Split(e.name))
  <2>1. head = line
    BY <1>1, <1>2, <1>13, SubSeqFull
  <2>2. q = p
    BY <1>3, <2>1
  <2>3. QED
    BY <1>4, <1>9, <2>2
<1>14. QED
  BY <1>4, <1>6, <1>9, <1>10, <1>11, <1>12, <1>13
===============================================================================
