------------------------------- MODULE JpegProofs -------------------------------
(***************************************************************************)
(* What TLAPS proves of the camera stream of JpegStream, for everything a  *)
(* peer may send and every way to cut it into pieces.                      *)
(***************************************************************************)
EXTENDS JpegStream, SeqLemmas

-------------------------------------------------------------------------------
(* The length of an authentication packet *)
LEMMA Lengths == FieldLen \in Nat /\ FieldLen >= 1 /\ AuthLen \in Nat /\ AuthLen = 1 + 2 * FieldLen
BY JpegAssumption DEF AuthLen

(* A set of positions has a least one ...                                  *)
LEMMA MinIs ==
  ASSUME NEW T \in SUBSET Nat, T # {}
  PROVE  Min(T) \in T /\ \A x \in T : Min(T) <= x
BY NatMin DEF Min

(* ... and a greatest, if it has a bound *)
LEMMA MaxIs ==
  ASSUME NEW n \in Nat, NEW T \in SUBSET (0..n), T # {}
  PROVE  Max(T) \in T /\ \A x \in T : Max(T) >= x
<1> DEFINE D == {n - x : x \in T}
<1>1. D \in SUBSET Nat /\ D # {}
  <2>1. \A x \in 0..n : n - x \in Nat
    OBVIOUS
  <2>2. \A x \in T : x \in 0..n
    OBVIOUS
  <2>3. QED
    BY <2>1, <2>2
<1>2. PICK d \in D : \A y \in D : d <= y
  BY <1>1, NatMin
<1>3. PICK x \in T : d = n - x
  BY <1>2
<1>4. \A y \in T : x >= y
  <2> TAKE y \in T
  <2>1. n - y \in D
    OBVIOUS
  <2>2. n - x <= n - y /\ x \in 0..n /\ y \in 0..n
    BY <1>2, <1>3, <2>1
  <2>3. QED
    BY <2>2
<1>5. QED
  BY <1>4 DEF Max

(* A part of a sequence *)
LEMMA Window ==
  ASSUME NEW S, NEW s \in Seq(S), NEW p \in Nat \ {0}, NEW r \in Nat,
         p <= r + 1, r <= Len(s)
  PROVE  /\ SubSeq(s, p, r) \in Seq(S)
         /\ Len(SubSeq(s, p, r)) = r - p + 1
         /\ \A j \in 1..(r - p + 1) : SubSeq(s, p, r)[j] = s[p + j - 1]
<1>1. \A i \in p..r : s[i] \in S
  BY ElementOfSeq
<1>2. QED
  BY <1>1, SubSeqProperties

(* Two elements, four elements *)
LEMMA Short ==
  ASSUME NEW S, NEW s \in Seq(S)
  PROVE  /\ Len(s) = 2 => s = <<s[1], s[2]>>
         /\ Len(s) = 4 => s = <<s[1], s[2], s[3], s[4]>>
<1>1. ASSUME Len(s) = 2 PROVE s = <<s[1], s[2]>>
  <2>1. s[1] \in S /\ s[2] \in S
    BY <1>1, ElementOfSeq
  <2>2. PICK t \in Seq(S) : t = <<s[1], s[2]>>
    <3>1. \A x, y \in S : <<x, y>> \in Seq(S)
      OBVIOUS
    <3>2. QED
      BY <2>1, <3>1
  <2>3. Len(t) = 2 /\ t[1] = s[1] /\ t[2] = s[2]
    BY <2>2
  <2>4. \A i \in 1..2 : t[i] = s[i]
    BY <2>3
  <2>5. QED
    BY <1>1, <2>2, <2>3, <2>4, SeqEqual
<1>2. ASSUME Len(s) = 4 PROVE s = <<s[1], s[2], s[3], s[4]>>
  <2>1. s[1] \in S /\ s[2] \in S /\ s[3] \in S /\ s[4] \in S
    <3>1. \A i \in 1..4 : s[i] \in S
      BY <1>2, ElementOfSeq
    <3>2. QED
      BY <3>1
  <2>2. PICK t \in Seq(S) : t = <<s[1], s[2], s[3], s[4]>>
    <3>1. \A x, y, u, v \in S : <<x, y, u, v>> \in Seq(S)
      OBVIOUS
    <3>2. QED
      BY <2>1, <3>1
  <2>3. Len(t) = 4 /\ t[1] = s[1] /\ t[2] = s[2] /\ t[3] = s[3] /\ t[4] = s[4]
    BY <2>2
  <2>4. \A i \in 1..4 : t[i] = s[i]
    BY <2>3
  <2>5. QED
    BY <1>2, <2>2, <2>3, <2>4, SeqEqual
<1>3. QED
  BY <1>1, <1>2

-------------------------------------------------------------------------------
(* The markers *)
StartAt(s, j) == s[j] = "ff" /\ s[j + 1] = "d8" /\ s[j + 2] = "ff" /\ s[j + 3] = "e0"

EndAt(s, j) == s[j] = "ff" /\ s[j + 1] = "d9"

(* Where a start marker occurs in the part of s from p to r *)
LEMMA StartsIn ==
  ASSUME NEW S, NEW s \in Seq(S), NEW p \in Nat \ {0}, NEW r \in Nat,
         p <= r + 1, r <= Len(s), NEW i \in Nat \ {0}
  PROVE  Occurrences(SubSeq(s, p, r), JPEG_START_MARKER, i) =
           {j \in Nat : i <= j /\ p + j + 2 <= r /\ StartAt(s, p + j - 1)}
<1>1. PICK w : w = SubSeq(s, p, r)
  OBVIOUS
<1>2. w \in Seq(S) /\ Len(w) = r - p + 1 /\ \A j \in 1..(r - p + 1) : w[j] = s[p + j - 1]
  BY <1>1, Window
<1>3. Len(JPEG_START_MARKER) = 4
  BY DEF JPEG_START_MARKER
<1>4. i..(Len(w) + 1 - 4) = {j \in Nat : i <= j /\ p + j + 2 <= r}
  <2>1. \A j : j \in i..(Len(w) + 1 - 4) <=> j \in Nat /\ i <= j /\ p + j + 2 <= r
    BY <1>2
  <2>2. QED
    BY <2>1
<1>5. ASSUME NEW j \in Nat, i <= j, p + j + 2 <= r
      PROVE  SubSeq(w, j, j + 4 - 1) = JPEG_START_MARKER <=> StartAt(s, p + j - 1)
  <2>1. /\ w[j] = s[p + j - 1] /\ w[j + 1] = s[(p + j - 1) + 1]
        /\ w[j + 2] = s[(p + j - 1) + 2] /\ w[j + 3] = s[(p + j - 1) + 3]
    <3>1. \A k \in 0..3 : j + k \in 1..(r - p + 1) /\ p + (j + k) - 1 = (p + j - 1) + k
      BY <1>5
    <3>2. \A k \in 0..3 : w[j + k] = s[(p + j - 1) + k]
      BY <1>2, <3>1
    <3>3. QED
      BY <3>2
  <2>2. SubSeq(w, j, j + 4 - 1) = <<w[j], w[j + 1], w[j + 2], w[j + 3]>>
    <3>1. PICK q \in Nat : q = j + 3
      OBVIOUS
    <3>2. j \in Nat \ {0} /\ j <= q + 1 /\ q <= Len(w) /\ j + 4 - 1 = q /\ q - j + 1 = 4
      BY <1>2, <1>5, <3>1
    <3>3. PICK v : v = SubSeq(w, j, q)
      OBVIOUS
    <3>4. v \in Seq(S) /\ Len(v) = 4 /\ \A d \in 1..4 : v[d] = w[j + d - 1]
      <4>1. w \in Seq(S)
        BY <1>2
      <4>2. /\ SubSeq(w, j, q) \in Seq(S) /\ Len(SubSeq(w, j, q)) = q - j + 1
            /\ \A d \in 1..(q - j + 1) : SubSeq(w, j, q)[d] = w[j + d - 1]
        BY <3>2, <4>1, Window
      <4>3. QED
        BY <3>2, <3>3, <4>2
    <3>5. v[1] = w[j] /\ v[2] = w[j + 1] /\ v[3] = w[j + 2] /\ v[4] = w[j + 3]
      <4>1. j + 1 - 1 = j /\ j + 2 - 1 = j + 1 /\ j + 3 - 1 = j + 2 /\ j + 4 - 1 = j + 3
        BY <3>1
      <4>2. QED
        BY <3>4, <4>1
    <3>6. QED
      BY <3>2, <3>3, <3>4, <3>5, Short
  <2>3. QED
    BY SMTT(30), <2>1, <2>2 DEF StartAt, JPEG_START_MARKER
<1>6. QED
  BY <1>1, <1>3, <1>4, <1>5 DEF Occurrences

(* ... and where an end marker does *)
LEMMA EndsIn ==
  ASSUME NEW S, NEW s \in Seq(S), NEW p \in Nat \ {0}, NEW r \in Nat,
         p <= r + 1, r <= Len(s), NEW i \in Nat \ {0}
  PROVE  Occurrences(SubSeq(s, p, r), JPEG_END_MARKER, i) =
           {j \in Nat : i <= j /\ p + j <= r /\ EndAt(s, p + j - 1)}
<1>1. PICK w : w = SubSeq(s, p, r)
  OBVIOUS
<1>2. w \in Seq(S) /\ Len(w) = r - p + 1 /\ \A j \in 1..(r - p + 1) : w[j] = s[p + j - 1]
  BY <1>1, Window
<1>3. Len(JPEG_END_MARKER) = 2
  BY DEF JPEG_END_MARKER
<1>4. i..(Len(w) + 1 - 2) = {j \in Nat : i <= j /\ p + j <= r}
  <2>1. \A j : j \in i..(Len(w) + 1 - 2) <=> j \in Nat /\ i <= j /\ p + j <= r
    BY <1>2
  <2>2. QED
    BY <2>1
<1>5. ASSUME NEW j \in Nat, i <= j, p + j <= r
      PROVE  SubSeq(w, j, j + 2 - 1) = JPEG_END_MARKER <=> EndAt(s, p + j - 1)
  <2>1. w[j] = s[p + j - 1] /\ w[j + 1] = s[(p + j - 1) + 1]
    <3>1. \A k \in 0..1 : j + k \in 1..(r - p + 1) /\ p + (j + k) - 1 = (p + j - 1) + k
      BY <1>5
    <3>2. \A k \in 0..1 : w[j + k] = s[(p + j - 1) + k]
      BY <1>2, <3>1
    <3>3. QED
      BY <3>2
  <2>2. SubSeq(w, j, j + 2 - 1) = <<w[j], w[j + 1]>>
    <3>1. PICK q \in Nat : q = j + 1
      OBVIOUS
    <3>2. j \in Nat \ {0} /\ j <= q + 1 /\ q <= Len(w) /\ j + 2 - 1 = q /\ q - j + 1 = 2
      BY <1>2, <1>5, <3>1
    <3>3. PICK v : v = SubSeq(w, j, q)
      OBVIOUS
    <3>4. v \in Seq(S) /\ Len(v) = 2 /\ \A d \in 1..2 : v[d] = w[j + d - 1]
      <4>1. w \in Seq(S)
        BY <1>2
      <4>2. /\ SubSeq(w, j, q) \in Seq(S) /\ Len(SubSeq(w, j, q)) = q - j + 1
            /\ \A d \in 1..(q - j + 1) : SubSeq(w, j, q)[d] = w[j + d - 1]
        BY <3>2, <4>1, Window
      <4>3. QED
        BY <3>2, <3>3, <4>2
    <3>5. v[1] = w[j] /\ v[2] = w[j + 1]
      <4>1. j + 1 - 1 = j /\ j + 2 - 1 = j + 1
        BY <3>1
      <4>2. QED
        BY <3>4, <4>1
    <3>6. QED
      BY <3>2, <3>3, <3>4, <3>5, Short
  <2>3. QED
    BY <2>1, <2>2 DEF EndAt, JPEG_END_MARKER
<1>6. QED
  BY <1>1, <1>3, <1>4, <1>5 DEF Occurrences

-------------------------------------------------------------------------------
(* What a decoder at p finds in s when the first r bytes of it are there:  *)
(* an authentication packet, a picture, the first picture                  *)
Login(s, r, p) == p + AuthLen - 1 <= r /\ s[p] = "auth"

Picture(s, r, p, a, e) ==
  p <= a /\ StartAt(s, a) /\ a + 4 <= e /\ EndAt(s, e) /\ e + 1 <= r

First(s, r, p, a, e) ==
  /\ Picture(s, r, p, a, e)
  /\ \A j \in p..(a - 1) : ~StartAt(s, j)
  /\ \A j \in (a + 4)..(e - 1) : ~EndAt(s, j)

(* There is one first picture *)
LEMMA FirstUnique ==
  ASSUME NEW s, NEW p \in Nat, NEW q \in Nat, NEW r \in Nat,
         NEW a \in Nat, NEW e \in Nat, NEW b \in Nat, NEW f \in Nat,
         First(s, r, p, a, e), First(s, q, p, b, f)
  PROVE  a = b /\ e = f
<1>1. a = b
  <2>1. ~(a < b)
    <3>1. a < b => a \in p..(b - 1)
      BY DEF First, Picture
    <3>2. QED
      BY <3>1 DEF First, Picture
  <2>2. ~(b < a)
    <3>1. b < a => b \in p..(a - 1)
      BY DEF First, Picture
    <3>2. QED
      BY <3>1 DEF First, Picture
  <2>3. QED
    BY <2>1, <2>2
<1>2. ~(e < f)
  <2>1. e < f => e \in (b + 4)..(f - 1)
    BY <1>1 DEF First, Picture
  <2>2. QED
    BY <2>1 DEF First, Picture
<1>3. ~(f < e)
  <2>1. f < e => f \in (a + 4)..(e - 1)
    BY <1>1 DEF First, Picture
  <2>2. QED
    BY <2>1 DEF First, Picture
<1>4. QED
  BY <1>1, <1>2, <1>3

(* What the searches of the code find in the part of s from q to r, in a   *)
(* search that begins i bytes into it                                      *)
Finds(s, r, q, i, starts, ends) ==
  /\ starts # {} /\ ends # {} =>
       /\ Min(starts) \in Nat \ {0} /\ Min(ends) \in Nat \ {0}
       /\ First(s, r, q + i - 1, q + Min(starts) - 1, q + Min(ends) - 1)
  /\ (\E a, e \in Nat : Picture(s, r, q + i - 1, a, e)) => starts # {} /\ ends # {}

(* They find the first picture, if there is one                            *)
LEMMA Search ==
  ASSUME NEW S, NEW s \in Seq(S), NEW q \in Nat \ {0}, NEW r \in Nat,
         q <= r + 1, r <= Len(s), NEW i \in Nat \ {0},
         NEW w, w = SubSeq(s, q, r),
         NEW starts, starts = Occurrences(w, JPEG_START_MARKER, i),
         NEW ends, ends = Occurrences(w, JPEG_END_MARKER, Min(starts) + 4)
  PROVE  Finds(s, r, q, i, starts, ends)
<1>1. starts = {j \in Nat : i <= j /\ q + j + 2 <= r /\ StartAt(s, q + j - 1)}
  BY StartsIn
<1>2. ASSUME starts # {}
      PROVE  /\ Min(starts) \in Nat /\ i <= Min(starts) /\ q + Min(starts) + 2 <= r
             /\ StartAt(s, q + Min(starts) - 1)
             /\ \A x \in starts : Min(starts) <= x
             /\ ends = {j \in Nat : Min(starts) + 4 <= j /\ q + j <= r /\ EndAt(s, q + j - 1)}
  <2>1. starts \in SUBSET Nat
    BY <1>1
  <2>2. Min(starts) \in starts /\ \A x \in starts : Min(starts) <= x
    BY <1>2, <2>1, MinIs
  <2>3. Min(starts) \in Nat
    BY <2>1, <2>2
  <2>4. PICK k \in Nat \ {0} : k = Min(starts) + 4
    BY <2>3
  <2>5. ends = {j \in Nat : k <= j /\ q + j <= r /\ EndAt(s, q + j - 1)}
    BY <2>4, EndsIn
  <2>6. QED
    BY <1>1, <2>2, <2>3, <2>4, <2>5
<1>3. ASSUME starts # {}, ends # {}
      PROVE  /\ Min(starts) \in Nat \ {0} /\ Min(ends) \in Nat \ {0}
             /\ First(s, r, q + i - 1, q + Min(starts) - 1, q + Min(ends) - 1)
  <2>1. PICK m : m = Min(starts)
    OBVIOUS
  <2>2. PICK n : n = Min(ends)
    OBVIOUS
  <2>3. ends \in SUBSET Nat
    BY <1>2, <1>3
  <2>4. n \in ends /\ \A x \in ends : n <= x
    BY <1>3, <2>2, <2>3, MinIs
  <2>5. /\ m \in Nat /\ i <= m /\ q + m + 2 <= r /\ StartAt(s, q + m - 1)
        /\ \A x \in starts : m <= x
    BY <1>2, <1>3, <2>1
  <2>6. n \in Nat /\ m + 4 <= n /\ q + n <= r /\ EndAt(s, q + n - 1)
    BY <1>2, <1>3, <2>1, <2>4
  <2>7. Picture(s, r, q + i - 1, q + m - 1, q + n - 1)
    BY <2>5, <2>6 DEF Picture
  <2>8. ASSUME NEW j \in (q + i - 1)..((q + m - 1) - 1) PROVE ~StartAt(s, j)
    <3>1. PICK k \in Nat : j = q + k - 1
      BY <2>5
    <3>2. i <= k /\ k < m /\ q + k + 2 <= r
      BY <2>5, <3>1
    <3>3. k \notin starts
      BY <2>5, <3>2
    <3>4. QED
      BY <1>1, <3>1, <3>2, <3>3
  <2>9. ASSUME NEW j \in ((q + m - 1) + 4)..((q + n - 1) - 1) PROVE ~EndAt(s, j)
    <3>1. PICK k \in Nat : j = q + k - 1
      BY <2>5, <2>6
    <3>2. m + 4 <= k /\ k < n /\ q + k <= r
      BY <2>5, <2>6, <3>1
    <3>3. k \notin ends
      BY <2>4, <2>6, <3>2
    <3>4. QED
      BY <1>2, <1>3, <2>1, <3>1, <3>2, <3>3
  <2>10. First(s, r, q + i - 1, q + m - 1, q + n - 1)
    BY <2>7, <2>8, <2>9 DEF First
  <2>11. m \in Nat \ {0} /\ n \in Nat \ {0}
    BY <2>5, <2>6
  <2>12. QED
    BY <2>1, <2>2, <2>10, <2>11
<1>4. ASSUME NEW a \in Nat, NEW e \in Nat, Picture(s, r, q + i - 1, a, e)
      PROVE  starts # {} /\ ends # {}
  <2>1. PICK j \in Nat : a = q + j - 1
    BY <1>4 DEF Picture
  <2>2. PICK k \in Nat : e = q + k - 1
    BY <1>4 DEF Picture
  <2>3. i <= j /\ q + j + 2 <= r /\ StartAt(s, q + j - 1)
    BY <1>4, <2>1 DEF Picture
  <2>4. j \in starts
    BY <1>1, <2>3
  <2>5. Min(starts) <= j /\ Min(starts) \in Nat
    BY <1>2, <2>4
  <2>6. j + 4 <= k /\ q + k <= r /\ EndAt(s, q + k - 1)
    BY <1>4, <2>1, <2>2 DEF Picture
  <2>7. Min(starts) + 4 <= k
    BY <2>5, <2>6
  <2>8. k \in ends
    BY <1>2, <2>4, <2>6, <2>7
  <2>9. QED
    BY <2>4, <2>8
<1>5. QED
  BY <1>3, <1>4 DEF Finds

-------------------------------------------------------------------------------
(* One packet x found at p, the rest beginning at n; or nothing found      *)
Step(s, r, p, x, n) ==
  \/ /\ Login(s, r, p)
     /\ x = AuthIn(SubSeq(s, p, p + AuthLen - 1)) /\ n = p + AuthLen
  \/ /\ ~Login(s, r, p)
     /\ \E a, e \in Nat : First(s, r, p, a, e) /\ x = Jpeg(SubSeq(s, a, e + 1)) /\ n = e + 2

Nothing(s, r, p) ==
  ~Login(s, r, p) /\ \A a, e \in Nat : ~Picture(s, r, p, a, e)

(* A part of a part *)
LEMMA SubSubSeq ==
  ASSUME NEW S, NEW s \in Seq(S), NEW p \in Nat \ {0}, NEW r \in Nat,
         p <= r + 1, r <= Len(s), NEW i \in Nat \ {0}, NEW j \in Nat,
         i <= j + 1, p + j - 1 <= r
  PROVE  SubSeq(SubSeq(s, p, r), i, j) = SubSeq(s, p + i - 1, p + j - 1)
<1>1. PICK w : w = SubSeq(s, p, r)
  OBVIOUS
<1>2. w \in Seq(S) /\ Len(w) = r - p + 1 /\ \A k \in 1..(r - p + 1) : w[k] = s[p + k - 1]
  BY SMTT(30), <1>1, Window
<1>3. PICK u : u = SubSeq(w, i, j)
  OBVIOUS
<1>4. u \in Seq(S) /\ Len(u) = j - i + 1 /\ \A k \in 1..(j - i + 1) : u[k] = w[i + k - 1]
  <2>1. j <= Len(w)
    BY <1>2
  <2>2. QED
    BY SMTT(30), <1>2, <1>3, <2>1, Window
<1>5. PICK b \in Nat \ {0} : b = p + i - 1
  OBVIOUS
<1>6. PICK e \in Nat : e = p + j - 1
  OBVIOUS
<1>7. PICK v : v = SubSeq(s, b, e)
  OBVIOUS
<1>8. v \in Seq(S) /\ Len(v) = e - b + 1 /\ \A k \in 1..(e - b + 1) : v[k] = s[b + k - 1]
  <2>1. b <= e + 1 /\ e <= Len(s)
    BY <1>5, <1>6
  <2>2. QED
    BY <1>7, <2>1, Window
<1>9. Len(u) = Len(v)
  BY <1>4, <1>5, <1>6, <1>8
<1>10. \A k \in 1..Len(u) : u[k] = v[k]
  <2> TAKE k \in 1..Len(u)
  <2>1. k \in 1..(j - i + 1) /\ i + k - 1 \in 1..(r - p + 1) /\ k \in 1..(e - b + 1)
    BY <1>4, <1>5, <1>6
  <2>2. p + (i + k - 1) - 1 = b + k - 1
    BY <1>5, <2>1
  <2>3. u[k] = s[p + (i + k - 1) - 1] /\ v[k] = s[b + k - 1]
    BY <1>2, <1>4, <1>8, <2>1
  <2>4. QED
    BY <2>2, <2>3
<1>11. u = v
  BY <1>4, <1>8, <1>9, <1>10, SeqEqual
<1>12. QED
  BY <1>1, <1>3, <1>5, <1>6, <1>7, <1>11

(* What FoundAt finds among the first r bytes *)
LEMMA FoundStep ==
  ASSUME NEW S, NEW s \in Seq(S), NEW r \in Nat, r <= Len(s), NEW p \in 1..(r + 1)
  PROVE  /\ \A x, n : Step(s, r, p, x, n) =>
              FoundAt(SubSeq(s, 1, r), p) = {[packet |-> x, next |-> n]}
         /\ Nothing(s, r, p) => FoundAt(SubSeq(s, 1, r), p) = {}
<1>1. PICK w : w = SubSeq(s, 1, r)
  OBVIOUS
<1>2. w \in Seq(S) /\ Len(w) = r /\ \A j \in 1..r : w[j] = s[j]
  <2>1. /\ w \in Seq(S) /\ Len(w) = r - 1 + 1
        /\ \A j \in 1..(r - 1 + 1) : w[j] = s[1 + j - 1]
    BY <1>1, Window
  <2>2. r - 1 + 1 = r /\ \A j \in 1..r : 1 + j - 1 = j
    OBVIOUS
  <2>3. QED
    BY <2>1, <2>2
<1>3. PICK starts : starts = Occurrences(w, JPEG_START_MARKER, p)
  OBVIOUS
<1>4. PICK ends : ends = Occurrences(w, JPEG_END_MARKER, Min(starts) + 4)
  OBVIOUS
<1>5. /\ starts # {} /\ ends # {} =>
           /\ Min(starts) \in Nat \ {0} /\ Min(ends) \in Nat \ {0}
           /\ First(s, r, p, Min(starts), Min(ends))
      /\ (\E a, e \in Nat : Picture(s, r, p, a, e)) => starts # {} /\ ends # {}
  <2>1. PICK q \in Nat \ {0} : q = 1
    OBVIOUS
  <2>2. p \in Nat \ {0} /\ q <= r + 1 /\ w = SubSeq(s, q, r)
    BY <1>1, <2>1
  <2>3. Finds(s, r, q, p, starts, ends)
    BY <1>3, <1>4, <2>2, Search
  <2>4. \A x \in Nat : q + x - 1 = x
    BY <2>1
  <2>5. q + p - 1 = p
    BY <2>2, <2>4
  <2>6. QED
    BY <2>3, <2>4, <2>5 DEF Finds
<1>6. p + AuthLen - 1 <= Len(w) /\ w[p] = "auth" <=> Login(s, r, p)
  <2>1. p + AuthLen - 1 <= r => p \in 1..r
    BY Lengths
  <2>2. QED
    BY <1>2, <2>1 DEF Login
<1>7. FoundAt(w, p) =
        IF Login(s, r, p)
          THEN {[packet |-> AuthIn(SubSeq(w, p, p + AuthLen - 1)), next |-> p + AuthLen]}
        ELSE IF starts # {} /\ ends # {}
          THEN {[packet |-> Jpeg(SubSeq(w, Min(starts), Min(ends) + 1)), next |-> Min(ends) + 2]}
        ELSE {}
  BY <1>3, <1>4, <1>6 DEF FoundAt
<1>8. \A i \in Nat \ {0}, j \in Nat : i <= j + 1 /\ j <= r => SubSeq(w, i, j) = SubSeq(s, i, j)
  <2> SUFFICES ASSUME NEW i \in Nat \ {0}, NEW j \in Nat, i <= j + 1, j <= r
               PROVE  SubSeq(w, i, j) = SubSeq(s, i, j)
    OBVIOUS
  <2>1. 1 + i - 1 = i /\ 1 + j - 1 = j /\ 1 <= r + 1 /\ 1 + j - 1 <= r
    OBVIOUS
  <2>2. SubSeq(SubSeq(s, 1, r), i, j) = SubSeq(s, 1 + i - 1, 1 + j - 1)
    BY <2>1, SubSubSeq
  <2>3. QED
    BY <1>1, <2>1, <2>2
<1>9. ASSUME NEW x, NEW n, Step(s, r, p, x, n)
      PROVE  FoundAt(w, p) = {[packet |-> x, next |-> n]}
  <2>1. CASE Login(s, r, p)
    <3>1. x = AuthIn(SubSeq(s, p, p + AuthLen - 1)) /\ n = p + AuthLen
      BY <1>9, <2>1 DEF Step
    <3>2. p \in Nat \ {0} /\ p + AuthLen - 1 \in Nat /\ p <= (p + AuthLen - 1) + 1
          /\ p + AuthLen - 1 <= r
      BY <2>1, Lengths DEF Login
    <3>3. SubSeq(w, p, p + AuthLen - 1) = SubSeq(s, p, p + AuthLen - 1)
      BY <1>8, <3>2
    <3>4. QED
      BY <1>7, <2>1, <3>1, <3>3
  <2>2. CASE ~Login(s, r, p)
    <3>1. PICK a \in Nat : \E e \in Nat : First(s, r, p, a, e) /\ x = Jpeg(SubSeq(s, a, e + 1)) /\ n = e + 2
      BY <1>9, <2>2 DEF Step
    <3>2. PICK e \in Nat : First(s, r, p, a, e) /\ x = Jpeg(SubSeq(s, a, e + 1)) /\ n = e + 2
      BY <3>1
    <3>3. starts # {} /\ ends # {}
      BY <1>5, <3>2 DEF First
    <3>4. PICK b \in Nat \ {0} : b = Min(starts)
      BY <1>5, <3>3
    <3>5. PICK f \in Nat \ {0} : f = Min(ends)
      BY <1>5, <3>3
    <3>6. First(s, r, p, b, f)
      BY <1>5, <3>3, <3>4, <3>5
    <3>7. p \in Nat
      OBVIOUS
    <3>8. a = b /\ e = f
      BY <3>2, <3>6, <3>7, FirstUnique
    <3>9. b <= (f + 1) + 1 /\ f + 1 <= r /\ f + 1 \in Nat
      BY <3>6 DEF First, Picture
    <3>10. SubSeq(w, b, f + 1) = SubSeq(s, b, f + 1)
      BY <1>8, <3>9
    <3>11. FoundAt(w, p) = {[packet |-> Jpeg(SubSeq(w, b, f + 1)), next |-> f + 2]}
      BY <1>7, <2>2, <3>3, <3>4, <3>5
    <3>12. QED
      BY <3>2, <3>8, <3>10, <3>11
  <2>3. QED
    BY <2>1, <2>2
<1>10. ASSUME Nothing(s, r, p) PROVE FoundAt(w, p) = {}
  <2>1. ~(starts # {} /\ ends # {})
    BY <1>5, <1>10 DEF Nothing, First
  <2>2. QED
    BY <1>7, <1>10, <2>1 DEF Nothing
<1>11. QED
  BY <1>1, <1>9, <1>10

-------------------------------------------------------------------------------
(* from_utf8_lossy and trim_end_matches yield text                         *)
LEMMA LossyFacts ==
  ASSUME NEW t \in Seq(Bytes)
  PROVE  /\ Lossy(t) \in Seq(Bytes) /\ Len(Lossy(t)) = Len(t)
         /\ \A i \in 1..Len(t) : Lossy(t)[i] \in {t[i], "??"}
<1>1. \A i \in 1..Len(t) : t[i] \in Bytes
  BY ElementOfSeq
<1>2. DOMAIN t = 1..Len(t)
  OBVIOUS
<1>3. PICK u : u = Lossy(t)
  OBVIOUS
<1>4. DOMAIN u = 1..Len(t) /\ u = [i \in 1..Len(t) |-> u[i]]
  BY <1>2, <1>3 DEF Lossy
<1>5. \A i \in 1..Len(t) : u[i] \in {t[i], "??"}
  BY <1>2, <1>3 DEF Lossy
<1>6. "??" \in Bytes
  BY DEF Bytes
<1>7. \A i \in 1..Len(t) : u[i] \in Bytes
  BY <1>1, <1>5, <1>6
<1>8. u \in [1..Len(t) -> Bytes]
  BY <1>4, <1>7
<1>9. u \in Seq(Bytes) /\ Len(u) = Len(t)
  BY <1>8
<1>10. QED
  BY <1>3, <1>5, <1>9

(* The zeros at the end are what is trimmed *)
LEMMA TrimIs ==
  ASSUME NEW t \in Seq(Bytes)
  PROVE  \E m \in 0..Len(t) :
           /\ TrimZeros(t) = SubSeq(t, 1, m)
           /\ m = Max({0} \cup {i \in DOMAIN t : t[i] # "00"})
           /\ m = 0 \/ t[m] # "00"
           /\ \A i \in (m + 1)..Len(t) : t[i] = "00"
<1>1. PICK T : T = {0} \cup {i \in DOMAIN t : t[i] # "00"}
  OBVIOUS
<1>2. T \in SUBSET (0..Len(t)) /\ T # {} /\ Len(t) \in Nat
  BY <1>1
<1>3. PICK m : m = Max(T)
  OBVIOUS
<1>4. m \in T /\ \A x \in T : m >= x
  BY <1>2, <1>3, MaxIs
<1>5. m \in 0..Len(t) /\ (m = 0 \/ t[m] # "00")
  BY <1>1, <1>2, <1>4
<1>6. \A i \in (m + 1)..Len(t) : t[i] = "00"
  <2> SUFFICES ASSUME NEW i \in (m + 1)..Len(t), t[i] # "00" PROVE FALSE
    OBVIOUS
  <2>1. i \in DOMAIN t
    BY <1>5
  <2>2. i \in T
    BY <1>1, <2>1
  <2>3. QED
    BY <1>4, <1>5, <2>2
<1>7. TrimZeros(t) = SubSeq(t, 1, m)
  BY <1>1, <1>3 DEF TrimZeros
<1>8. QED
  BY <1>1, <1>3, <1>5, <1>6, <1>7

(* ... and leave text *)
LEMMA TrimType ==
  ASSUME NEW t \in Seq(Bytes)
  PROVE  TrimZeros(t) \in Seq(Bytes)
<1>1. PICK m \in 0..Len(t) : TrimZeros(t) = SubSeq(t, 1, m)
  BY TrimIs
<1>2. m \in Nat /\ 1 \in Nat \ {0} /\ 1 <= m + 1 /\ m <= Len(t)
  BY <1>1
<1>3. SubSeq(t, 1, m) \in Seq(Bytes)
  BY <1>2, Window
<1>4. QED
  BY <1>1, <1>3

(* The texts of an authentication packet at p, whatever follows it *)
LEMMA AuthInIs ==
  ASSUME NEW S, NEW s \in Seq(S), NEW p \in Nat \ {0}, NEW r \in Nat,
         p + AuthLen - 1 <= r, r <= Len(s)
  PROVE  AuthIn(SubSeq(s, p, r)) =
           Auth(TrimZeros(Lossy(SubSeq(s, p + 1, p + FieldLen))),
                TrimZeros(Lossy(SubSeq(s, p + FieldLen + 1, p + AuthLen - 1))))
<1>1. \A i \in Nat \ {0}, j \in Nat :
        i <= j + 1 /\ p + j - 1 <= r =>
          SubSeq(SubSeq(s, p, r), i, j) = SubSeq(s, p + i - 1, p + j - 1)
  <2>1. p <= r + 1
    BY Lengths
  <2>2. QED
    BY <2>1, SubSubSeq
<1>2. SubSeq(SubSeq(s, p, r), 2, FieldLen + 1) = SubSeq(s, p + 1, p + FieldLen)
  <2>1. PICK i \in Nat \ {0} : i = 2
    OBVIOUS
  <2>2. PICK j \in Nat : j = FieldLen + 1
    BY Lengths
  <2>3. i <= j + 1 /\ p + j - 1 <= r /\ p + i - 1 = p + 1 /\ p + j - 1 = p + FieldLen
    BY <2>1, <2>2, Lengths
  <2>4. SubSeq(SubSeq(s, p, r), i, j) = SubSeq(s, p + i - 1, p + j - 1)
    BY <1>1, <2>3
  <2>5. QED
    BY <2>1, <2>2, <2>3, <2>4
<1>3. SubSeq(SubSeq(s, p, r), FieldLen + 2, AuthLen)
        = SubSeq(s, p + FieldLen + 1, p + AuthLen - 1)
  <2>1. PICK i \in Nat \ {0} : i = FieldLen + 2
    BY Lengths
  <2>2. PICK j \in Nat : j = AuthLen
    BY Lengths
  <2>3. i <= j + 1 /\ p + j - 1 <= r /\ p + i - 1 = p + FieldLen + 1 /\ p + j - 1 = p + AuthLen - 1
    BY <2>1, <2>2, Lengths
  <2>4. SubSeq(SubSeq(s, p, r), i, j) = SubSeq(s, p + i - 1, p + j - 1)
    BY <1>1, <2>3
  <2>5. QED
    BY <2>1, <2>2, <2>3, <2>4
<1>4. QED
  BY <1>2, <1>3 DEF AuthIn

(* It is a packet *)
LEMMA AuthInType ==
  ASSUME NEW s \in Seq(Bytes), NEW p \in Nat \ {0}, NEW r \in Nat,
         p + AuthLen - 1 <= r, r <= Len(s)
  PROVE  AuthIn(SubSeq(s, p, r)) \in CameraPackets
<1>1. ASSUME NEW i \in Nat \ {0}, NEW j \in Nat, i <= j + 1, j <= r
      PROVE  TrimZeros(Lossy(SubSeq(s, i, j))) \in Seq(Bytes)
  <2>1. SubSeq(s, i, j) \in Seq(Bytes)
    BY <1>1, Window
  <2>2. QED
    BY <2>1, LossyFacts, TrimType
<1>2. TrimZeros(Lossy(SubSeq(s, p + 1, p + FieldLen))) \in Seq(Bytes)
  <2>1. p + 1 \in Nat \ {0} /\ p + FieldLen \in Nat /\ p + 1 <= p + FieldLen + 1 /\ p + FieldLen <= r
    BY Lengths
  <2>2. QED
    BY <1>1, <2>1
<1>3. TrimZeros(Lossy(SubSeq(s, p + FieldLen + 1, p + AuthLen - 1))) \in Seq(Bytes)
  <2>1. /\ p + FieldLen + 1 \in Nat \ {0} /\ p + AuthLen - 1 \in Nat
        /\ p + FieldLen + 1 <= (p + AuthLen - 1) + 1 /\ p + AuthLen - 1 <= r
    BY Lengths
  <2>2. QED
    BY <1>1, <2>1
<1>4. \A u, v \in Seq(Bytes) : Auth(u, v) \in CameraPackets
  BY DEF CameraPackets, Auth
<1>5. QED
  BY <1>2, <1>3, <1>4, AuthInIs

-------------------------------------------------------------------------------
(* A packet found is one, and bytes are left behind                        *)
LEMMA StepBounds ==
  ASSUME NEW s \in Seq(Bytes), NEW r \in Nat, r <= Len(s), NEW p \in Nat \ {0},
         NEW x, NEW n, Step(s, r, p, x, n)
  PROVE  p <= r /\ n \in (p + 1)..(r + 1) /\ x \in CameraPackets
<1>1. CASE Login(s, r, p)
  <2>1. x = AuthIn(SubSeq(s, p, p + AuthLen - 1)) /\ n = p + AuthLen /\ p + AuthLen - 1 <= r
    BY <1>1 DEF Step, Login
  <2>2. PICK q \in Nat : q = p + AuthLen - 1
    BY Lengths
  <2>3. p <= r /\ n \in (p + 1)..(r + 1) /\ q <= Len(s)
    BY <2>1, <2>2, Lengths
  <2>4. AuthIn(SubSeq(s, p, q)) \in CameraPackets
    BY <2>2, <2>3, AuthInType
  <2>5. QED
    BY <2>1, <2>2, <2>3, <2>4
<1>2. CASE ~Login(s, r, p)
  <2>1. PICK a \in Nat : \E e \in Nat : First(s, r, p, a, e) /\ x = Jpeg(SubSeq(s, a, e + 1)) /\ n = e + 2
    BY <1>2 DEF Step
  <2>2. PICK e \in Nat : First(s, r, p, a, e) /\ x = Jpeg(SubSeq(s, a, e + 1)) /\ n = e + 2
    BY <2>1
  <2>3. p <= a /\ a + 4 <= e /\ e + 1 <= r
    BY <2>2 DEF First, Picture
  <2>4. a \in Nat \ {0} /\ e + 1 \in Nat /\ a <= (e + 1) + 1 /\ e + 1 <= Len(s)
    BY <2>3
  <2>5. SubSeq(s, a, e + 1) \in Seq(Bytes)
    BY <2>4, Window
  <2>6. x \in CameraPackets
    BY <2>2, <2>5 DEF CameraPackets, Jpeg
  <2>7. QED
    BY <2>2, <2>3, <2>6
<1>3. QED
  BY <1>1, <1>2

(* The buffer holds what was read, from p on *)
Holding(p) == p \in 1..(read + 1) /\ buffer = SubSeq(stream, p, read)

(* What decode looks at first ... *)
LEMMA BufferIs ==
  ASSUME TypeOK, NEW p, Holding(p)
  PROVE  /\ p \in Nat \ {0} /\ read \in Nat /\ p <= read + 1 /\ read <= Len(stream)
         /\ stream \in Seq(Bytes) /\ Len(buffer) = read - p + 1
         /\ IsAuth(buffer) <=> Login(stream, read, p)
<1>1. p \in Nat \ {0} /\ read \in Nat /\ p <= read + 1 /\ read <= Len(stream) /\ stream \in Seq(Bytes)
  BY DEF TypeOK, Holding
<1>2. PICK w : w = SubSeq(stream, p, read)
  OBVIOUS
<1>3. /\ w \in Seq(Bytes) /\ Len(w) = read - p + 1
      /\ \A j \in 1..(read - p + 1) : w[j] = stream[p + j - 1]
  BY <1>1, <1>2, Window
<1>4. Len(w) >= AuthLen <=> p + AuthLen - 1 <= read
  BY <1>1, <1>3, Lengths
<1>5. Len(w) >= AuthLen => Head(w) = stream[p]
  <2>1. Len(w) >= AuthLen => 1 \in 1..(read - p + 1) /\ p + 1 - 1 = p /\ Head(w) = w[1]
    BY <1>1, <1>3, Lengths
  <2>2. QED
    BY <1>3, <2>1
<1>6. buffer = w
  BY <1>2 DEF Holding
<1>7. QED
  BY <1>1, <1>3, <1>4, <1>5, <1>6 DEF IsAuth, Login

(* ... and what it looks for next *)
LEMMA PartFinds ==
  ASSUME NEW S, NEW s \in Seq(S), NEW p \in Nat \ {0}, NEW r \in Nat, p <= r + 1, r <= Len(s),
         NEW w, w = SubSeq(s, p, r)
  PROVE  /\ Finds(s, r, p, 1, Starts(w), Ends(w))
         /\ p + 1 - 1 = p
<1>1. PICK i \in Nat \ {0} : i = 1
  OBVIOUS
<1>2. Len(JPEG_START_MARKER) = 4
  BY DEF JPEG_START_MARKER
<1>3. PICK starts : starts = Occurrences(w, JPEG_START_MARKER, i)
  OBVIOUS
<1>4. PICK ends : ends = Occurrences(w, JPEG_END_MARKER, Min(starts) + 4)
  OBVIOUS
<1>5. Finds(s, r, p, i, starts, ends)
  BY <1>3, <1>4, Search
<1>6. Starts(w) = starts
  BY <1>1, <1>3 DEF Starts
<1>7. Ends(w) = ends
  BY <1>2, <1>4, <1>6 DEF Ends
<1>8. QED
  BY <1>1, <1>5, <1>6, <1>7

(* ... in the buffer too *)
LEMMA BufferFinds ==
  ASSUME TypeOK, NEW p, Holding(p)
  PROVE  /\ Finds(stream, read, p, 1, Starts(buffer), Ends(buffer))
         /\ p + 1 - 1 = p
<1>1. p \in Nat \ {0} /\ read \in Nat /\ p <= read + 1 /\ read <= Len(stream) /\ stream \in Seq(Bytes)
  BY BufferIs
<1>2. buffer = SubSeq(stream, p, read)
  BY DEF Holding
<1>3. QED
  BY <1>1, <1>2, PartFinds

(* decode leaves the buffer alone when there is nothing in it *)
LEMMA DecodesNothing ==
  ASSUME TypeOK, NEW p, Holding(p), ~IsAuth(buffer), ~IsJpeg(buffer)
  PROVE  Nothing(stream, read, p)
<1>1. ~Login(stream, read, p)
  BY BufferIs
<1>2. ~(Starts(buffer) # {} /\ Ends(buffer) # {})
  BY DEF IsJpeg
<1>3. ~\E a, e \in Nat : Picture(stream, read, p, a, e)
  BY <1>2, BufferFinds DEF Finds
<1>4. QED
  BY <1>1, <1>3 DEF Nothing

(* ... and takes what it finds off its front                               *)
LEMMA DecodesStep ==
  ASSUME TypeOK, NEW p, Holding(p), DecodeAuth \/ DecodeJpeg
  PROVE  /\ Decoding
         /\ UNCHANGED <<peer, read, state, written>>
         /\ \E x, n : /\ Step(stream, read, p, x, n)
                      /\ packets' = Append(packets, x)
                      /\ buffer' = SubSeq(stream, n, read)
<1>1. /\ p \in Nat \ {0} /\ read \in Nat /\ p <= read + 1 /\ read <= Len(stream)
      /\ stream \in Seq(Bytes) /\ Len(buffer) = read - p + 1
      /\ IsAuth(buffer) <=> Login(stream, read, p)
  BY BufferIs
<1>2. buffer = SubSeq(stream, p, read)
  BY DEF Holding
<1>3. \A i \in Nat \ {0}, j \in Nat :
        i <= j + 1 /\ p + j - 1 <= read =>
          SubSeq(buffer, i, j) = SubSeq(stream, p + i - 1, p + j - 1)
  BY <1>1, <1>2, SubSubSeq
<1>4. ASSUME NEW l \in Nat, l <= Len(buffer)
      PROVE  From(buffer, l + 1) = SubSeq(stream, p + l, read)
  <2>1. PICK i \in Nat \ {0} : i = l + 1
    BY <1>4
  <2>2. PICK j \in Nat : j = Len(buffer)
    BY <1>1
  <2>3. i <= j + 1 /\ p + j - 1 <= read /\ p + i - 1 = p + l /\ p + j - 1 = read
    BY <1>1, <1>4, <2>1, <2>2
  <2>4. SubSeq(buffer, i, j) = SubSeq(stream, p + i - 1, p + j - 1)
    BY <1>3, <2>3
  <2>5. QED
    BY <2>1, <2>2, <2>3, <2>4 DEF From
<1>5. CASE DecodeAuth
  <2>1. Login(stream, read, p) /\ p + AuthLen - 1 <= read
    BY <1>1, <1>5 DEF DecodeAuth, Login
  <2>2. packets' = Append(packets, AuthIn(buffer)) /\ buffer' = From(buffer, AuthLen + 1)
    BY <1>5 DEF DecodeAuth, Yield
  <2>3. PICK q \in Nat : q = p + AuthLen - 1
    BY <1>1, Lengths
  <2>4. p + AuthLen - 1 <= q /\ q <= Len(stream)
    BY <1>1, <2>1, <2>3, Lengths
  <2>5. AuthIn(SubSeq(stream, p, read)) = AuthIn(SubSeq(stream, p, q))
    BY <1>1, <2>1, <2>4, AuthInIs
  <2>6. AuthLen \in Nat /\ AuthLen <= Len(buffer)
    BY <1>1, <2>1, Lengths
  <2>7. buffer' = SubSeq(stream, p + AuthLen, read)
    BY <1>4, <2>2, <2>6
  <2>8. Step(stream, read, p, AuthIn(buffer), p + AuthLen)
    BY <1>2, <2>1, <2>3, <2>5 DEF Step
  <2>9. Decoding /\ UNCHANGED <<peer, read, state, written>>
    BY <1>5 DEF DecodeAuth, Yield
  <2>10. QED
    BY <2>2, <2>7, <2>8, <2>9
<1>6. CASE DecodeJpeg
  <2>1. ~Login(stream, read, p)
    BY <1>1, <1>6 DEF DecodeJpeg
  <2>2. Starts(buffer) # {} /\ Ends(buffer) # {}
    BY <1>6 DEF DecodeJpeg, IsJpeg
  <2>3. /\ Min(Starts(buffer)) \in Nat \ {0} /\ Min(Ends(buffer)) \in Nat \ {0}
        /\ First(stream, read, p, p + Min(Starts(buffer)) - 1, p + Min(Ends(buffer)) - 1)
    BY <2>2, BufferFinds DEF Finds
  <2>4. PICK m \in Nat \ {0} : m = Min(Starts(buffer))
    BY <2>3
  <2>5. PICK k \in Nat \ {0} : k = Min(Ends(buffer))
    BY <2>3
  <2>6. Len(JPEG_END_MARKER) = 2 /\ k + 2 - 1 = k + 1
    BY DEF JPEG_END_MARKER
  <2>7. /\ packets' = Append(packets, Jpeg(SubSeq(buffer, m, k + 1)))
        /\ buffer' = From(buffer, (k + 1) + 1)
    BY <1>6, <2>4, <2>5, <2>6 DEF DecodeJpeg, Yield
  <2>8. PICK a \in Nat : a = p + m - 1
    BY <1>1
  <2>9. PICK e \in Nat : e = p + k - 1
    BY <1>1
  <2>10. First(stream, read, p, a, e)
    BY <2>3, <2>4, <2>5, <2>8, <2>9
  <2>11. a + 4 <= e /\ e + 1 <= read
    BY <2>10 DEF First, Picture
  <2>12. PICK l \in Nat : l = k + 1
    BY <2>5
  <2>13. m <= l + 1 /\ p + l - 1 <= read /\ p + m - 1 = a /\ p + l - 1 = e + 1 /\ l <= Len(buffer)
    BY <1>1, <2>8, <2>9, <2>11, <2>12
  <2>14. SubSeq(buffer, m, k + 1) = SubSeq(stream, a, e + 1)
    BY <1>3, <2>12, <2>13
  <2>15. buffer' = SubSeq(stream, p + l, read) /\ p + l = e + 2
    <3>1. p + l = e + 2
      BY <1>1, <2>9, <2>12
    <3>2. buffer' = From(buffer, l + 1)
      BY <2>7, <2>12
    <3>3. From(buffer, l + 1) = SubSeq(stream, p + l, read)
      BY <1>4, <2>13
    <3>4. QED
      BY <3>1, <3>2, <3>3
  <2>16. PICK x : x = Jpeg(SubSeq(stream, a, e + 1))
    OBVIOUS
  <2>17. Step(stream, read, p, x, e + 2)
    BY <2>1, <2>10, <2>16 DEF Step
  <2>18. packets' = Append(packets, x) /\ buffer' = SubSeq(stream, e + 2, read)
    BY <2>7, <2>14, <2>15, <2>16
  <2>19. Decoding /\ UNCHANGED <<peer, read, state, written>>
    BY <1>6 DEF DecodeJpeg, Yield
  <2>20. QED
    BY <2>17, <2>18, <2>19
<1>7. QED
  BY <1>5, <1>6

-------------------------------------------------------------------------------
(* What is encoded is bytes ...                                            *)
LEMMA EncodeType ==
  ASSUME NEW x \in CameraPackets
  PROVE  /\ Encode(x) \in Seq(Bytes)
         /\ x.type = "Auth" =>
              /\ Len(Encode(x)) = AuthLen /\ Encode(x)[1] = "auth"
              /\ \A i \in 1..FieldLen :
                   /\ Encode(x)[1 + i] = Field(x.username)[i]
                   /\ Encode(x)[1 + FieldLen + i] = Field(x.access_code)[i]
<1>1. CASE x.type = "Auth"
  <2>1. x.username \in Seq(Bytes) /\ x.access_code \in Seq(Bytes)
    BY <1>1 DEF CameraPackets
  <2>2. ASSUME NEW t \in Seq(Bytes)
        PROVE  Field(t) \in Seq(Bytes) /\ Len(Field(t)) = FieldLen
    <3>1. \A i \in 1..FieldLen : (IF i <= Len(t) THEN t[i] ELSE "00") \in Bytes
      <4> TAKE i \in 1..FieldLen
      <4>1. CASE i <= Len(t)
        <5>1. i \in 1..Len(t)
          BY <4>1
        <5>2. t[i] \in Bytes
          BY <5>1, ElementOfSeq
        <5>3. QED
          BY <4>1, <5>2
      <4>2. CASE ~(i <= Len(t))
        BY <4>2 DEF Bytes
      <4>3. QED
        BY <4>1, <4>2
    <3>2. Field(t) \in [1..FieldLen -> Bytes]
      BY <3>1 DEF Field
    <3>3. QED
      BY <3>2, Lengths
  <2>3. PICK u \in Seq(Bytes) : u = Field(x.username) /\ Len(u) = FieldLen
    BY <2>1, <2>2
  <2>4. PICK a \in Seq(Bytes) : a = Field(x.access_code) /\ Len(a) = FieldLen
    BY <2>1, <2>2
  <2>5. PICK h \in Seq(Bytes) : h = <<"auth">> /\ Len(h) = 1 /\ h[1] = "auth"
    <3>1. "auth" \in Bytes
      BY DEF Bytes
    <3>2. \A b \in Bytes : <<b>> \in Seq(Bytes) /\ Len(<<b>>) = 1 /\ <<b>>[1] = b
      OBVIOUS
    <3>3. QED
      BY <3>1, <3>2
  <2>6. PICK hu \in Seq(Bytes) : hu = h \o u
    BY ConcatProperties
  <2>7. /\ Len(hu) = 1 + FieldLen /\ hu[1] = "auth"
        /\ \A i \in 1..FieldLen : hu[1 + i] = u[i]
    <3>1. Len(hu) = Len(h) + Len(u)
      BY <2>6, ConcatProperties
    <3>2. \A i \in 1..(Len(h) + Len(u)) :
            hu[i] = IF i <= Len(h) THEN h[i] ELSE u[i - Len(h)]
      BY <2>6, ConcatProperties
    <3>3. hu[1] = h[1]
      <4>1. 1 \in 1..(Len(h) + Len(u)) /\ 1 <= Len(h)
        BY <2>3, <2>5, Lengths
      <4>2. QED
        BY <3>2, <4>1
    <3>4. ASSUME NEW i \in 1..FieldLen PROVE hu[1 + i] = u[i]
      <4>1. 1 + i \in 1..(Len(h) + Len(u)) /\ ~(1 + i <= Len(h)) /\ (1 + i) - Len(h) = i
        BY <2>3, <2>5, Lengths
      <4>2. QED
        BY <3>2, <4>1
    <3>5. QED
      BY <2>3, <2>5, <3>1, <3>3, <3>4, Lengths
  <2>8. PICK e \in Seq(Bytes) : e = hu \o a
    BY ConcatProperties
  <2>9. /\ Len(e) = AuthLen /\ e[1] = "auth"
        /\ \A i \in 1..FieldLen : e[1 + i] = u[i] /\ e[1 + FieldLen + i] = a[i]
    <3>1. Len(e) = Len(hu) + Len(a)
      BY <2>8, ConcatProperties
    <3>2. \A i \in 1..(Len(hu) + Len(a)) :
            e[i] = IF i <= Len(hu) THEN hu[i] ELSE a[i - Len(hu)]
      BY <2>8, ConcatProperties
    <3>3. e[1] = hu[1]
      <4>1. 1 \in 1..(Len(hu) + Len(a)) /\ 1 <= Len(hu)
        BY <2>4, <2>7, Lengths
      <4>2. QED
        BY <3>2, <4>1
    <3>4. ASSUME NEW i \in 1..FieldLen PROVE e[1 + i] = hu[1 + i]
      <4>1. 1 + i \in 1..(Len(hu) + Len(a)) /\ 1 + i <= Len(hu)
        BY <2>4, <2>7, Lengths
      <4>2. QED
        BY <3>2, <4>1
    <3>5. ASSUME NEW i \in 1..FieldLen PROVE e[1 + FieldLen + i] = a[i]
      <4>1. /\ 1 + FieldLen + i \in 1..(Len(hu) + Len(a)) /\ ~(1 + FieldLen + i <= Len(hu))
            /\ (1 + FieldLen + i) - Len(hu) = i
        BY <2>4, <2>7, Lengths
      <4>2. QED
        BY <3>2, <4>1
    <3>6. Len(e) = AuthLen
      BY <2>4, <2>7, <3>1, Lengths
    <3>7. QED
      BY <2>7, <3>3, <3>4, <3>5, <3>6
  <2>10. Encode(x) = e
    BY <1>1, <2>3, <2>4, <2>5, <2>6, <2>8 DEF Encode
  <2>11. QED
    BY <2>3, <2>4, <2>9, <2>10
<1>2. CASE x.type # "Auth"
  <2>1. x.bytes \in Seq(Bytes)
    BY <1>2 DEF CameraPackets
  <2>2. QED
    BY <1>2, <2>1 DEF Encode
<1>3. QED
  BY <1>1, <1>2

(* FlattenSeq joins one sequence after the other                           *)
LEMMA FlattenAlong ==
  ASSUME NEW S, NEW seqs \in Seq(Seq(S))
  PROVE  \E f \in [0..Len(seqs) -> Seq(S)] :
           /\ f[0] = <<>>
           /\ \A i \in 1..Len(seqs) : f[i] = f[i - 1] \o seqs[i]
           /\ FlattenSeq(seqs) = f[Len(seqs)]
<1> DEFINE step == [x \in Seq(S) \X Seq(S) |-> x[1] \o x[2]]
           Eq(f) == f = [i \in 1..Len(seqs) |->
                          IF i = 1 THEN seqs[i] ELSE f[i - 1] \o seqs[i]]
           F == CHOOSE f : Eq(f)
<1>1. step \in [Seq(S) \X Seq(S) -> Seq(S)] /\ <<>> \in Seq(S)
  <2>1. \A a, b \in Seq(S) : a \o b \in Seq(S)
    BY ConcatProperties
  <2>2. QED
    BY <2>1
<1>2. PICK f \in [0..Len(seqs) -> Seq(S)] : Along(f, step, <<>>, seqs)
  BY <1>1, AlongExists
<1>3. f[0] = <<>> /\ \A i \in 1..Len(seqs) : f[i] = f[i - 1] \o seqs[i]
  <2>1. ASSUME NEW i \in 1..Len(seqs) PROVE f[i] = f[i - 1] \o seqs[i]
    <3>1. seqs[i] \in Seq(S) /\ f[i - 1] \in Seq(S)
      <4>1. seqs[i] \in Seq(S)
        BY ElementOfSeq
      <4>2. i - 1 \in 0..Len(seqs)
        OBVIOUS
      <4>3. QED
        BY <4>1, <4>2
    <3>2. step[<<f[i - 1], seqs[i]>>] = f[i - 1] \o seqs[i]
      BY <3>1
    <3>3. QED
      BY <1>2, <3>2 DEF Along
  <2>2. QED
    BY <1>2, <2>1 DEF Along
<1>4. CASE Len(seqs) = 0
  <2>1. seqs = <<>> /\ FlattenSeq(seqs) = seqs
    BY <1>4 DEF FlattenSeq
  <2>2. QED
    BY <1>3, <1>4, <2>1
<1>5. CASE Len(seqs) # 0
  <2>1. Len(seqs) \in Nat /\ Len(seqs) >= 1
    BY <1>5
  <2>2. f[1] = seqs[1]
    <3>1. f[1] = f[0] \o seqs[1] /\ seqs[1] \in Seq(S)
      <4>1. 1 \in 1..Len(seqs) /\ 1 - 1 = 0
        BY <2>1
      <4>2. QED
        BY <1>3, <4>1, ElementOfSeq
    <3>2. QED
      BY <1>3, <3>1, ConcatEmptySeq
  <2>3. Eq([i \in 1..Len(seqs) |-> f[i]])
    <3> DEFINE g == [i \in 1..Len(seqs) |-> f[i]]
    <3>1. ASSUME NEW i \in 1..Len(seqs)
          PROVE  f[i] = IF i = 1 THEN seqs[i] ELSE g[i - 1] \o seqs[i]
      <4>1. CASE i = 1
        BY <2>2, <4>1
      <4>2. CASE i # 1
        <5>1. i - 1 \in 1..Len(seqs)
          BY <4>2
        <5>2. QED
          BY <1>3, <4>2, <5>1
      <4>3. QED
        BY <4>1, <4>2
    <3>2. QED
      BY <3>1
  <2>4. Eq(F)
    BY <2>3
  <2>5. FlattenSeq(seqs) = F[Len(seqs)]
    BY <1>5 DEF FlattenSeq, F
  <2> HIDE DEF F
  <2>6. \A i \in 1..Len(seqs) : F[i] = IF i = 1 THEN seqs[i] ELSE F[i - 1] \o seqs[i]
    BY <2>4
  <2> DEFINE N == {n \in Nat : n + 1 <= Len(seqs) => F[n + 1] = f[n + 1]}
  <2>7. 0 \in N
    <3>1. F[1] = seqs[1]
      <4>1. 1 \in 1..Len(seqs)
        BY <2>1
      <4>2. QED
        BY <2>6, <4>1
    <3>2. QED
      BY <2>2, <3>1
  <2>8. ASSUME NEW n \in Nat, n \in N PROVE n + 1 \in N
    <3> SUFFICES ASSUME (n + 1) + 1 <= Len(seqs) PROVE F[(n + 1) + 1] = f[(n + 1) + 1]
      OBVIOUS
    <3>1. (n + 1) + 1 \in 1..Len(seqs) /\ (n + 1) + 1 # 1 /\ ((n + 1) + 1) - 1 = n + 1
      OBVIOUS
    <3>2. F[n + 1] = f[n + 1]
      BY <2>8, <3>1
    <3>3. f[(n + 1) + 1] = f[n + 1] \o seqs[(n + 1) + 1]
      BY <1>3, <3>1
    <3>4. F[(n + 1) + 1] = F[n + 1] \o seqs[(n + 1) + 1]
      BY <2>6, <3>1
    <3>5. QED
      BY <3>2, <3>3, <3>4
  <2> HIDE DEF N
  <2>9. \A n \in Nat : n \in N
    BY <2>7, <2>8, Induction
  <2>10. Len(seqs) - 1 \in N
    BY <2>1, <2>9
  <2>11. F[Len(seqs)] = f[Len(seqs)]
    <3>1. (Len(seqs) - 1) + 1 = Len(seqs)
      BY <2>1
    <3>2. QED
      BY <2>1, <2>10, <3>1 DEF N
  <2>12. QED
    BY <1>3, <2>5, <2>11
<1>6. QED
  BY <1>4, <1>5

(* Where the packets of a peer lie in its bytes: the i-th ends at o[i]     *)
Cuts(o, sent, bytes) ==
  /\ o \in [0..Len(sent) -> Nat] /\ o[0] = 0 /\ o[Len(sent)] = Len(bytes)
  /\ \A i \in 1..Len(sent) :
       /\ o[i] = o[i - 1] + Len(Encode(sent[i])) /\ o[i] <= Len(bytes)
       /\ \A j \in 1..Len(Encode(sent[i])) : bytes[o[i - 1] + j] = Encode(sent[i])[j]

(* ... and that they do                                                    *)
LEMMA SentCuts ==
  ASSUME NEW sent \in Seq(CameraPackets)
  PROVE  Sent(sent) \in Seq(Bytes) /\ \E o : Cuts(o, sent, Sent(sent))
<1>1. PICK n \in Nat : n = Len(sent)
  OBVIOUS
<1>2. \A i \in 1..n : sent[i] \in CameraPackets /\ Encode(sent[i]) \in Seq(Bytes)
  BY <1>1, ElementOfSeq, EncodeType
<1>3. PICK e : e = [i \in DOMAIN sent |-> Encode(sent[i])]
  OBVIOUS
<1>4. e \in Seq(Seq(Bytes)) /\ Len(e) = n /\ \A i \in 1..n : e[i] = Encode(sent[i])
  <2>1. DOMAIN sent = 1..n
    BY <1>1
  <2>2. e \in [1..n -> Seq(Bytes)]
    BY <1>2, <1>3, <2>1
  <2>3. QED
    BY <1>3, <2>1, <2>2
<1>5. PICK f \in [0..n -> Seq(Bytes)] :
        /\ f[0] = <<>>
        /\ \A i \in 1..n : f[i] = f[i - 1] \o e[i]
        /\ FlattenSeq(e) = f[n]
  BY <1>4, FlattenAlong
<1>6. PICK b : b = f[n]
  OBVIOUS
<1>7. b = Sent(sent) /\ b \in Seq(Bytes) /\ Len(b) \in Nat
  BY <1>3, <1>5, <1>6 DEF Sent
<1>8. \A i \in 0..n : f[i] \in Seq(Bytes) /\ Len(f[i]) \in Nat
  BY <1>5
<1>9. ASSUME NEW i \in 1..n
      PROVE  /\ Len(f[i]) = Len(f[i - 1]) + Len(e[i])
             /\ \A j \in 1..Len(f[i - 1]) : f[i][j] = f[i - 1][j]
             /\ \A j \in 1..Len(e[i]) : f[i][Len(f[i - 1]) + j] = e[i][j]
  <2>1. PICK u : u = f[i - 1]
    OBVIOUS
  <2>2. PICK v : v = e[i]
    OBVIOUS
  <2>3. PICK w : w = f[i]
    OBVIOUS
  <2>4. u \in Seq(Bytes) /\ v \in Seq(Bytes) /\ w = u \o v
    <3>1. i - 1 \in 0..n
      OBVIOUS
    <3>2. QED
      BY <1>2, <1>4, <1>5, <1>8, <2>1, <2>2, <2>3, <3>1
  <2>5. /\ Len(w) = Len(u) + Len(v)
        /\ \A j \in 1..(Len(u) + Len(v)) : w[j] = IF j <= Len(u) THEN u[j] ELSE v[j - Len(u)]
    BY <2>4, ConcatProperties
  <2>6. \A j \in 1..Len(u) : w[j] = u[j]
    BY <2>4, <2>5
  <2>7. ASSUME NEW j \in 1..Len(v) PROVE w[Len(u) + j] = v[j]
    <3>1. /\ Len(u) + j \in 1..(Len(u) + Len(v)) /\ ~(Len(u) + j <= Len(u))
          /\ (Len(u) + j) - Len(u) = j
      BY <2>4
    <3>2. QED
      BY <2>5, <3>1
  <2>8. QED
    BY <2>1, <2>2, <2>3, <2>5, <2>6, <2>7
<1>10. ASSUME NEW i \in 0..n
       PROVE  Len(f[i]) <= Len(b) /\ \A j \in 1..Len(f[i]) : b[j] = f[i][j]
  <2> DEFINE N == {k \in Nat : i + k <= n =>
                     /\ Len(f[i]) <= Len(f[i + k])
                     /\ \A j \in 1..Len(f[i]) : f[i + k][j] = f[i][j]}
  <2>1. 0 \in N
    <3>1. i + 0 = i /\ Len(f[i]) \in Nat
      BY <1>8
    <3>2. QED
      BY <3>1
  <2>2. ASSUME NEW k \in Nat, k \in N PROVE k + 1 \in N
    <3> SUFFICES ASSUME i + (k + 1) <= n
                 PROVE  /\ Len(f[i]) <= Len(f[i + (k + 1)])
                        /\ \A j \in 1..Len(f[i]) : f[i + (k + 1)][j] = f[i][j]
      OBVIOUS
    <3>1. PICK m \in 1..n : m = i + (k + 1)
      OBVIOUS
    <3>2. m - 1 = i + k /\ i + k <= n /\ m - 1 \in 0..n
      BY <3>1
    <3>3. Len(f[i]) <= Len(f[m - 1]) /\ \A j \in 1..Len(f[i]) : f[m - 1][j] = f[i][j]
      BY <2>2, <3>2
    <3>4. Len(f[m - 1]) <= Len(f[m]) /\ \A j \in 1..Len(f[m - 1]) : f[m][j] = f[m - 1][j]
      <4>1. Len(e[m]) \in Nat
        BY <1>4, <1>2
      <4>2. Len(f[m]) = Len(f[m - 1]) + Len(e[m]) /\ Len(f[m - 1]) \in Nat
        BY <1>8, <1>9, <3>2
      <4>3. \A x, y \in Nat : x <= x + y
        OBVIOUS
      <4>4. Len(f[m - 1]) <= Len(f[m])
        BY <4>1, <4>2, <4>3
      <4>5. QED
        BY <1>9, <4>4
    <3>5. Len(f[i]) \in Nat /\ Len(f[m - 1]) \in Nat /\ Len(f[m]) \in Nat
      BY <1>8, <3>2
    <3>6. Len(f[i]) <= Len(f[m])
      BY <3>3, <3>4, <3>5
    <3>7. \A j \in 1..Len(f[i]) : f[m][j] = f[i][j]
      <4> TAKE j \in 1..Len(f[i])
      <4>1. j \in 1..Len(f[m - 1])
        BY <3>3, <3>5
      <4>2. QED
        BY <3>3, <3>4, <4>1
    <3>8. QED
      BY <3>1, <3>6, <3>7
  <2> HIDE DEF N
  <2>3. \A k \in Nat : k \in N
    BY <2>1, <2>2, Induction
  <2>4. n - i \in N
    BY <2>3
  <2>5. i + (n - i) = n
    OBVIOUS
  <2>6. QED
    BY <1>6, <2>4, <2>5 DEF N
<1>11. PICK o : o = [i \in 0..n |-> Len(f[i])]
  OBVIOUS
<1>12. o \in [0..n -> Nat] /\ (\A i \in 0..n : o[i] = Len(f[i]))
  BY <1>8, <1>11
<1>13. o[0] = 0 /\ o[n] = Len(b)
  <2>1. 0 \in 0..n /\ n \in 0..n /\ Len(<<>>) = 0
    OBVIOUS
  <2>2. QED
    BY <1>5, <1>6, <1>12, <2>1
<1>14. ASSUME NEW i \in 1..n
       PROVE  /\ o[i] = o[i - 1] + Len(Encode(sent[i])) /\ o[i] <= Len(b)
              /\ \A j \in 1..Len(Encode(sent[i])) : b[o[i - 1] + j] = Encode(sent[i])[j]
  <2>1. i \in 0..n /\ i - 1 \in 0..n
    OBVIOUS
  <2>2. o[i] = Len(f[i]) /\ o[i - 1] = Len(f[i - 1]) /\ e[i] = Encode(sent[i])
    BY <1>4, <1>12, <2>1
  <2>3. Len(f[i]) = Len(f[i - 1]) + Len(e[i])
    BY <1>9
  <2>4. Len(f[i]) <= Len(b)
    BY <1>10, <2>1
  <2>5. ASSUME NEW j \in 1..Len(e[i]) PROVE b[Len(f[i - 1]) + j] = e[i][j]
    <3>1. Len(f[i - 1]) \in Nat /\ Len(e[i]) \in Nat
      BY <1>2, <1>4, <1>8, <2>1
    <3>2. Len(f[i - 1]) + j \in 1..Len(f[i])
      <4>1. \A x, y \in Nat : \A k \in 1..y : x + k \in 1..(x + y)
        OBVIOUS
      <4>2. QED
        BY <2>3, <3>1, <4>1
    <3>3. b[Len(f[i - 1]) + j] = f[i][Len(f[i - 1]) + j]
      BY <1>10, <2>1, <3>2
    <3>4. QED
      BY <1>9, <3>3
  <2>6. QED
    BY <2>2, <2>3, <2>4, <2>5
<1>15. Cuts(o, sent, b)
  BY <1>1, <1>12, <1>13, <1>14 DEF Cuts
<1>16. QED
  BY <1>7, <1>15

-------------------------------------------------------------------------------
(* What came before: the bytes are those of what the peer sends            *)
Peer == sending \in Sendings /\ stream = Sent(sending)

(* The bytes "bblp" and the access code stand for *)
LEMMA CredentialsType == Credentials \in Seq(Bytes)
<1>1. "xx" \in Bytes
  BY DEF Bytes
<1>2. \A b \in Bytes : <<b>> \in Seq(Bytes)
  OBVIOUS
<1>3. \A t \in Seq(Bytes) : Auth(t, t) \in CameraPackets
  BY DEF Auth, CameraPackets
<1>4. Auth(<<"xx">>, <<"xx">>) \in CameraPackets
  BY <1>1, <1>2, <1>3
<1>5. QED
  BY <1>4, EncodeType DEF Credentials

(* At first nothing has been read and nothing has been found *)
LEMMA InitPeer == Init => Peer /\ TypeOK /\ Holding(1) /\ read = 0 /\ packets = <<>>
<1> SUFFICES ASSUME Init PROVE Peer /\ TypeOK /\ Holding(1) /\ read = 0 /\ packets = <<>>
  OBVIOUS
<1>1. sending \in Seq(CameraPackets)
  BY JpegAssumption DEF Init
<1>2. stream \in Seq(Bytes)
  BY <1>1, SentCuts DEF Init
<1>3. TypeOK
  <2>1. read \in 0..Len(stream) /\ buffer \in Seq(Bytes) /\ packets \in Seq(CameraPackets)
    BY <1>2 DEF Init
  <2>2. QED
    BY <1>1, <1>2, <2>1 DEF Init, TypeOK
<1>4. Holding(1)
  <2>1. SubSeq(stream, 1, 0) = <<>>
    BY <1>2
  <2>2. QED
    BY <2>1 DEF Init, Holding
<1>5. QED
  BY <1>3, <1>4 DEF Init, Peer

(* The steps that read nothing and find nothing *)
Idle ==
  \/ Dial \/ Authenticate \/ ConnectFails \/ Eof \/ DecodeNone

(* What they do to the buffer *)
LEMMA IdleFacts ==
  ASSUME TypeOK, Idle
  PROVE  /\ UNCHANGED <<sending, stream, read, buffer, packets>>
         /\ TypeOK'
         /\ ~Decoding' /\ Decoding => ~IsAuth(buffer) /\ ~IsJpeg(buffer)
<1>1. UNCHANGED <<sending, stream, read, buffer, packets>>
  BY DEF Idle, Dial, Authenticate, ConnectFails, Eof, DecodeNone, peer
<1>2. written' \in {<<>>, Credentials}
  BY DEF Idle, Dial, Authenticate, ConnectFails, Eof, DecodeNone, TypeOK
<1>3. state' \in {"dialling", "handshake", "panicked",
                  "reading", "decoding", "at_eof", "ended", "failed"}
  BY DEF Idle, Dial, Authenticate, ConnectFails, Eof, DecodeNone, TypeOK
<1>4. ~Decoding' /\ Decoding => DecodeNone
  BY DEF Idle, Dial, Authenticate, ConnectFails, Eof, Decoding
<1>5. QED
  BY <1>1, <1>2, <1>3, <1>4 DEF TypeOK, DecodeNone

(* More of the stream is read: the buffer grows with it                    *)
LEMMA ReceiveFacts ==
  ASSUME TypeOK, NEW n \in 1..(Len(stream) - read), Receive(n), NEW p, Holding(p)
  PROVE  /\ UNCHANGED <<sending, stream, packets>>
         /\ read' = read + n /\ read' \in Nat /\ read' <= Len(stream)
         /\ Decoding' /\ TypeOK' /\ Holding(p)'
<1>1. /\ stream \in Seq(Bytes) /\ read \in Nat /\ p \in Nat \ {0} /\ p <= read + 1
      /\ read <= Len(stream) /\ Len(buffer) = read - p + 1 /\ Len(stream) \in Nat
  BY BufferIs
<1>2. UNCHANGED <<sending, stream, packets, written>> /\ state' = "decoding"
  BY DEF Receive, peer
<1>3. read' = read + n /\ read' \in Nat /\ read' <= Len(stream)
  BY <1>1 DEF Receive
<1>4. PICK r \in Nat : r = read + n
  BY <1>1
<1>5. PICK w : w = SubSeq(stream, read + 1, r)
  OBVIOUS
<1>6. /\ w \in Seq(Bytes) /\ Len(w) = n
      /\ \A j \in 1..n : w[j] = stream[read + j]
  <2>1. PICK q \in Nat \ {0} : q = read + 1
    BY <1>1
  <2>2. q <= r + 1 /\ r <= Len(stream) /\ r - q + 1 = n
    BY <1>1, <1>4, <2>1
  <2>3. w \in Seq(Bytes) /\ Len(w) = r - q + 1 /\ \A j \in 1..(r - q + 1) : w[j] = stream[q + j - 1]
    BY <1>1, <1>5, <2>1, <2>2, Window
  <2>4. \A j \in 1..n : q + j - 1 = read + j
    BY <1>1, <2>1
  <2>5. QED
    BY <2>2, <2>3, <2>4
<1>7. PICK b : b = buffer
  OBVIOUS
<1>8. /\ b \in Seq(Bytes) /\ Len(b) = read - p + 1
      /\ \A j \in 1..(read - p + 1) : b[j] = stream[p + j - 1]
  BY <1>1, <1>7, Window DEF Holding
<1>9. PICK c : c = b \o w
  OBVIOUS
<1>10. /\ c \in Seq(Bytes) /\ Len(c) = Len(b) + Len(w)
       /\ \A j \in 1..(Len(b) + Len(w)) : c[j] = IF j <= Len(b) THEN b[j] ELSE w[j - Len(b)]
  BY <1>6, <1>8, <1>9, ConcatProperties
<1>11. PICK d : d = SubSeq(stream, p, r)
  OBVIOUS
<1>12. /\ d \in Seq(Bytes) /\ Len(d) = r - p + 1
       /\ \A j \in 1..(r - p + 1) : d[j] = stream[p + j - 1]
  <2>1. p <= r + 1 /\ r <= Len(stream)
    BY <1>1, <1>4
  <2>2. QED
    BY <1>1, <1>11, <2>1, Window
<1>13. Len(c) = Len(d)
  BY <1>1, <1>4, <1>6, <1>8, <1>10, <1>12
<1>14. \A j \in 1..Len(c) : c[j] = d[j]
  <2> TAKE j \in 1..Len(c)
  <2>1. j \in 1..(Len(b) + Len(w)) /\ j \in 1..(r - p + 1) /\ d[j] = stream[p + j - 1]
    BY <1>10, <1>12, <1>13
  <2>2. CASE j <= Len(b)
    BY <1>8, <1>10, <2>1, <2>2
  <2>3. CASE ~(j <= Len(b))
    <3>1. j - Len(b) \in 1..n /\ read + (j - Len(b)) = p + j - 1
      BY <1>1, <1>6, <1>8, <2>1, <2>3
    <3>2. QED
      BY <1>6, <1>10, <2>1, <2>3, <3>1
  <2>4. QED
    BY <2>2, <2>3
<1>15. c = d
  BY <1>10, <1>12, <1>13, <1>14, SeqEqual
<1>16. buffer' = c
  BY <1>4, <1>5, <1>7, <1>9 DEF Receive
<1>17. Holding(p)'
  <2>1. p \in 1..(r + 1) /\ read' = r /\ stream' = stream
    BY <1>1, <1>2, <1>3, <1>4
  <2>2. QED
    BY <1>11, <1>15, <1>16, <2>1 DEF Holding
<1>18. TypeOK'
  <2>1. buffer' \in Seq(Bytes)
    BY <1>10, <1>16
  <2>2. read' \in 0..Len(stream')
    BY <1>1, <1>2, <1>3
  <2>3. QED
    BY <1>2, <2>1, <2>2 DEF TypeOK
<1>19. QED
  BY <1>2, <1>3, <1>17, <1>18 DEF Decoding

(* A packet is found, and more may be *)
LEMMA FoundFacts ==
  ASSUME TypeOK, NEW p, Holding(p), DecodeAuth \/ DecodeJpeg
  PROVE  \E x, n : /\ Step(stream, read, p, x, n)
                   /\ packets' = Append(packets, x) /\ x \in CameraPackets
                   /\ UNCHANGED <<sending, stream, read, state>>
                   /\ Decoding' /\ TypeOK' /\ Holding(n)'
<1>1. /\ Decoding
      /\ UNCHANGED <<peer, read, state, written>>
      /\ \E x, n : /\ Step(stream, read, p, x, n)
                   /\ packets' = Append(packets, x)
                   /\ buffer' = SubSeq(stream, n, read)
  BY DecodesStep
<1>2. PICK x : \E n : /\ Step(stream, read, p, x, n)
                      /\ packets' = Append(packets, x)
                      /\ buffer' = SubSeq(stream, n, read)
  BY <1>1
<1>3. PICK n : /\ Step(stream, read, p, x, n)
               /\ packets' = Append(packets, x)
               /\ buffer' = SubSeq(stream, n, read)
  BY <1>2
<1>4. p \in Nat \ {0} /\ read \in Nat /\ read <= Len(stream) /\ stream \in Seq(Bytes) /\ p <= read + 1
  BY BufferIs
<1>5. n \in (p + 1)..(read + 1) /\ x \in CameraPackets
  BY <1>3, <1>4, StepBounds
<1>6. n \in Nat \ {0} /\ n <= read + 1 /\ n \in 1..(read + 1)
  BY <1>4, <1>5
<1>7. buffer' \in Seq(Bytes)
  BY <1>3, <1>4, <1>6, Window
<1>8. packets' \in Seq(CameraPackets)
  BY <1>3, <1>5, AppendFacts DEF TypeOK
<1>9. UNCHANGED <<sending, stream, read, state, written>>
  BY <1>1 DEF peer
<1>10. TypeOK'
  BY <1>7, <1>8, <1>9 DEF TypeOK
<1>11. Decoding' /\ Holding(n)'
  BY <1>1, <1>3, <1>6, <1>9 DEF Decoding, Holding
<1>12. QED
  BY <1>3, <1>5, <1>9, <1>10, <1>11

(* The steps, as the proofs below tell them apart                          *)
LEMMA Steps ==
  ASSUME [Next]_vars
  PROVE  \/ Idle \/ DecodeAuth \/ DecodeJpeg \/ UNCHANGED vars
         \/ \E n \in 1..(Len(stream) - read) : Receive(n)
BY DEF Next, Idle

-------------------------------------------------------------------------------
(* Every state is well-typed, and the buffer is the end of what was read   *)
StreamInv == TypeOK /\ Peer /\ \E p : Holding(p)

(* ... and stays so *)
LEMMA StreamStep ==
  ASSUME StreamInv, [Next]_vars
  PROVE  StreamInv' /\ UNCHANGED <<sending, stream>>
<1>1. PICK p : Holding(p)
  BY DEF StreamInv
<1>2. TypeOK /\ Peer
  BY DEF StreamInv
<1>3. CASE Idle
  BY <1>1, <1>2, <1>3, IdleFacts DEF StreamInv, Peer, Holding
<1>4. CASE DecodeAuth \/ DecodeJpeg
  <2>1. PICK x, n : UNCHANGED <<sending, stream>> /\ TypeOK' /\ Holding(n)'
    BY <1>1, <1>2, <1>4, FoundFacts
  <2>2. QED
    BY <1>2, <2>1 DEF StreamInv, Peer
<1>5. CASE \E n \in 1..(Len(stream) - read) : Receive(n)
  <2>1. PICK n \in 1..(Len(stream) - read) : Receive(n)
    BY <1>5
  <2>2. UNCHANGED <<sending, stream>> /\ TypeOK' /\ Holding(p)'
    BY <1>1, <1>2, <2>1, ReceiveFacts
  <2>3. QED
    BY <1>2, <2>2 DEF StreamInv, Peer
<1>6. CASE UNCHANGED vars
  BY <1>1, <1>2, <1>6 DEF StreamInv, Peer, Holding, TypeOK, vars, peer
<1>7. QED
  BY <1>3, <1>4, <1>5, <1>6, Steps

(* It holds in every state *)
LEMMA StreamInvariant == Spec => []StreamInv
<1>1. Init => StreamInv
  BY InitPeer DEF StreamInv
<1>2. StreamInv /\ [Next]_vars => StreamInv'
  BY StreamStep
<1>3. QED
  BY <1>1, <1>2, PTL DEF Spec

(* Every state of the camera stream is well-typed: what decode makes of any *)
(* bytes are packets, and no position is outside of what was sent           *)
THEOREM TypeCorrect == Spec => []TypeOK
<1>1. StreamInv => TypeOK
  BY DEF StreamInv
<1>2. QED
  BY <1>1, StreamInvariant, PTL

-------------------------------------------------------------------------------
(* A picture as cameras send them begins with a start marker, ends with an *)
(* end marker, and holds no other                                          *)
LEMMA CleanFacts ==
  ASSUME NEW bytes \in Seq(Bytes), Clean(bytes)
  PROVE  /\ Len(bytes) >= 6 /\ StartAt(bytes, 1)
         /\ EndAt(bytes, Len(bytes) - 1)
         /\ \A j \in 5..(Len(bytes) - 2) : ~EndAt(bytes, j)
<1>1. PICK l \in Nat : l = Len(bytes)
  OBVIOUS
<1>2. PICK one \in Nat \ {0} : one = 1
  OBVIOUS
<1>3. SubSeq(bytes, one, l) = bytes /\ one <= l + 1 /\ l <= Len(bytes)
  <2>1. one <= l + 1 /\ l <= Len(bytes)
    BY <1>1, <1>2
  <2>2. /\ SubSeq(bytes, one, l) \in Seq(Bytes) /\ Len(SubSeq(bytes, one, l)) = l - one + 1
        /\ \A j \in 1..(l - one + 1) : SubSeq(bytes, one, l)[j] = bytes[one + j - 1]
    BY <2>1, Window
  <2>3. PICK w : w = SubSeq(bytes, one, l)
    OBVIOUS
  <2>4. l - one + 1 = l /\ \A j \in 1..l : one + j - 1 = j
    BY <1>2
  <2>5. w \in Seq(Bytes) /\ Len(w) = l /\ \A j \in 1..l : w[j] = bytes[j]
    BY <2>2, <2>3, <2>4
  <2>6. w = bytes
    BY <1>1, <2>5, SeqEqual
  <2>7. QED
    BY <2>1, <2>3, <2>6
<1>4. Len(JPEG_START_MARKER) = 4
  BY DEF JPEG_START_MARKER
<1>5. 4 <= l /\ SubSeq(JPEG_START_MARKER, 1, 4) = SubSeq(bytes, 1, 4)
  BY <1>1, <1>4 DEF Clean, IsPrefix
<1>6. StartAt(bytes, 1)
  <2>1. PICK v : v = SubSeq(bytes, 1, 4)
    OBVIOUS
  <2>2. v[1] = bytes[1] /\ v[2] = bytes[2] /\ v[3] = bytes[3] /\ v[4] = bytes[4]
    <3>1. PICK f \in Nat : f = 4
      OBVIOUS
    <3>2. one <= f + 1 /\ f <= Len(bytes) /\ f - one + 1 = 4
      BY <1>1, <1>2, <1>5, <3>1
    <3>3. \A j \in 1..(f - one + 1) : SubSeq(bytes, one, f)[j] = bytes[one + j - 1]
      BY <3>2, Window
    <3>4. v = SubSeq(bytes, one, f)
      BY <1>2, <2>1, <3>1
    <3>5. \A j \in 1..4 : v[j] = bytes[one + j - 1]
      BY <3>2, <3>3, <3>4
    <3>6. \A j \in 1..4 : one + j - 1 = j
      BY <1>2
    <3>7. \A j \in 1..4 : v[j] = bytes[j]
      BY <3>5, <3>6
    <3>8. QED
      BY <3>7
  <2>3. v[1] = "ff" /\ v[2] = "d8" /\ v[3] = "ff" /\ v[4] = "e0"
    <3>1. v = SubSeq(JPEG_START_MARKER, 1, 4)
      BY <1>5, <2>1
    <3>2. SubSeq(JPEG_START_MARKER, 1, 4) = [i \in 1..4 |-> JPEG_START_MARKER[1 + i - 1]]
      BY DEF JPEG_START_MARKER
    <3>3. v[1] = JPEG_START_MARKER[1] /\ v[2] = JPEG_START_MARKER[2]
          /\ v[3] = JPEG_START_MARKER[3] /\ v[4] = JPEG_START_MARKER[4]
      BY <3>1, <3>2
    <3>4. QED
      BY <3>3 DEF JPEG_START_MARKER
  <2>4. bytes[1] = "ff" /\ bytes[2] = "d8" /\ bytes[3] = "ff" /\ bytes[4] = "e0"
    BY <2>2, <2>3
  <2>5. 1 + 1 = 2 /\ 1 + 2 = 3 /\ 1 + 3 = 4
    OBVIOUS
  <2>6. QED
    BY <2>4, <2>5 DEF StartAt
<1>7. Min(Starts(bytes)) = 1
  <2>1. PICK T : T = Starts(bytes)
    OBVIOUS
  <2>2. T = {j \in Nat : one <= j /\ one + j + 2 <= l /\ StartAt(bytes, one + j - 1)}
    <3>1. Occurrences(SubSeq(bytes, one, l), JPEG_START_MARKER, one)
            = {j \in Nat : one <= j /\ one + j + 2 <= l /\ StartAt(bytes, one + j - 1)}
      <4>1. one <= l + 1 /\ l <= Len(bytes)
        BY <1>3
      <4>2. QED
        BY <4>1, StartsIn
    <3>2. QED
      BY <1>2, <1>3, <2>1, <3>1 DEF Starts
  <2>3. 1 \in T
    BY <1>2, <1>5, <1>6, <2>2
  <2>4. T \in SUBSET Nat /\ \A x \in T : 1 <= x
    BY <1>2, <2>2
  <2>5. Min(T) \in T /\ \A x \in T : Min(T) <= x
    BY <2>3, <2>4, MinIs
  <2>6. Min(T) <= 1 /\ 1 <= Min(T) /\ Min(T) \in Nat
    BY <2>3, <2>4, <2>5
  <2>7. QED
    BY <2>1, <2>6
<1>8. PICK T : T = Ends(bytes)
  OBVIOUS
<1>9. T = {j \in Nat : 5 <= j /\ j + 1 <= l /\ EndAt(bytes, j)}
  <2>1. PICK f \in Nat \ {0} : f = 5
    OBVIOUS
  <2>2. Occurrences(SubSeq(bytes, one, l), JPEG_END_MARKER, f)
          = {j \in Nat : f <= j /\ one + j <= l /\ EndAt(bytes, one + j - 1)}
    <3>1. one <= l + 1 /\ l <= Len(bytes)
      BY <1>3
    <3>2. QED
      BY <3>1, EndsIn
  <2>3. T = Occurrences(bytes, JPEG_END_MARKER, f)
    BY <1>4, <1>7, <1>8, <2>1 DEF Ends
  <2>4. \A j \in Nat : one + j - 1 = j /\ one + j = j + 1
    BY <1>2
  <2>5. QED
    BY <1>3, <2>1, <2>2, <2>3, <2>4
<1>10. T = {l - 1}
  BY <1>1, <1>8 DEF Clean
<1>11. l - 1 \in T
  BY <1>10
<1>12. 5 <= l - 1 /\ EndAt(bytes, l - 1)
  BY <1>9, <1>11
<1>13. ASSUME NEW j \in 5..(l - 2) PROVE ~EndAt(bytes, j)
  <2>1. j \in Nat /\ 5 <= j /\ j + 1 <= l /\ j # l - 1
    BY <1>1
  <2>2. j \notin T
    BY <1>10, <2>1
  <2>3. QED
    BY <1>9, <2>1, <2>2
<1>14. QED
  BY <1>1, <1>6, <1>12, <1>13

(* Text holds no byte of a marker's first *)
LEMMA TextFacts ==
  ASSUME NEW t \in Seq(Bytes), Lossy(t) = t
  PROVE  /\ Field(t) \in Seq(Bytes) /\ Len(Field(t)) = FieldLen
         /\ \A i \in 1..FieldLen : Field(t)[i] # "ff"
         /\ Len(t) <= FieldLen => Lossy(Field(t)) = Field(t)
<1>1. PICK n \in Nat : n = Len(t)
  OBVIOUS
<1>2. DOMAIN t = 1..n
  BY <1>1
<1>3. PICK f : f = Field(t)
  OBVIOUS
<1>4. \A i \in 1..FieldLen : f[i] = IF i <= n THEN t[i] ELSE "00"
  BY <1>1, <1>3 DEF Field
<1>5. f \in Seq(Bytes) /\ Len(f) = FieldLen /\ DOMAIN f = 1..FieldLen
  <2>1. \A i \in 1..FieldLen : i <= n => i \in 1..n
    BY <1>1
  <2>2. \A i \in 1..n : t[i] \in Bytes
    BY <1>1, ElementOfSeq
  <2>3. "00" \in Bytes
    BY DEF Bytes
  <2>4. \A i \in 1..FieldLen : f[i] \in Bytes
    BY <1>4, <2>1, <2>2, <2>3
  <2>5. f \in [1..FieldLen -> Bytes]
    BY <1>3, <2>4 DEF Field
  <2>6. QED
    BY <2>5, Lengths
<1>6. \A i \in 1..n :
        \/ t[i] \in {"xx", "00", "??"}
        \/ t[i] = "c3" /\ i < n /\ t[i + 1] = "a9"
        \/ t[i] = "a9" /\ i > 1 /\ t[i - 1] = "c3"
  <2> TAKE i \in 1..n
  <2>1. t[i] = IF \/ t[i] \in {"xx", "00"}
                  \/ t[i] = "c3" /\ i < n /\ t[i + 1] = "a9"
                  \/ t[i] = "a9" /\ i > 1 /\ t[i - 1] = "c3"
               THEN t[i] ELSE "??"
    BY <1>1, <1>2 DEF Lossy
  <2>2. QED
    BY <2>1
<1>7. ASSUME NEW i \in 1..FieldLen PROVE f[i] # "ff"
  <2>1. CASE i <= n
    <3>1. i \in 1..n /\ f[i] = t[i]
      BY <1>1, <1>4, <2>1
    <3>2. t[i] \in {"xx", "00", "??", "c3", "a9"}
      BY <1>6, <3>1
    <3>3. QED
      BY <3>1, <3>2
  <2>2. CASE ~(i <= n)
    BY <1>4, <2>2
  <2>3. QED
    BY <2>1, <2>2
<1>8. ASSUME n <= FieldLen PROVE Lossy(f) = f
  <2>1. PICK u : u = Lossy(f)
    OBVIOUS
  <2>2. u \in Seq(Bytes) /\ Len(u) = FieldLen
    BY <1>5, <2>1, LossyFacts
  <2>3. ASSUME NEW i \in 1..FieldLen PROVE u[i] = f[i]
    <3>1. u[i] = IF \/ f[i] \in {"xx", "00"}
                    \/ f[i] = "c3" /\ i < FieldLen /\ f[i + 1] = "a9"
                    \/ f[i] = "a9" /\ i > 1 /\ f[i - 1] = "c3"
                 THEN f[i] ELSE "??"
      BY <1>5, <2>1 DEF Lossy
    <3>2. CASE i <= n
      <4>1. i \in 1..n /\ f[i] = t[i]
        BY <1>1, <1>4, <3>2
      <4>2. CASE t[i] \in {"xx", "00", "??"}
        BY <3>1, <4>1, <4>2
      <4>3. CASE t[i] = "c3" /\ i < n /\ t[i + 1] = "a9"
        <5>1. i + 1 \in 1..FieldLen /\ i + 1 <= n /\ i < FieldLen
          BY <1>1, <1>8, <4>1, <4>3, Lengths
        <5>2. f[i + 1] = "a9"
          BY <1>4, <4>3, <5>1
        <5>3. QED
          BY <3>1, <4>1, <4>3, <5>1, <5>2
      <4>4. CASE t[i] = "a9" /\ i > 1 /\ t[i - 1] = "c3"
        <5>1. i - 1 \in 1..FieldLen /\ i - 1 <= n
          BY <1>1, <1>8, <4>1, <4>4, Lengths
        <5>2. f[i - 1] = "c3"
          BY <1>4, <4>4, <5>1
        <5>3. QED
          BY <3>1, <4>1, <4>4, <5>2
      <4>5. QED
        BY <1>6, <4>1, <4>2, <4>3, <4>4
    <3>3. CASE ~(i <= n)
      BY <1>4, <3>1, <3>3
    <3>4. QED
      BY <3>2, <3>3
  <2>4. u = f
    BY <1>5, <2>2, <2>3, SeqEqual
  <2>5. QED
    BY <2>1, <2>4
<1>9. QED
  BY <1>1, <1>3, <1>5, <1>7, <1>8

(* A field is read back *)
LEMMA FieldHolds ==
  ASSUME NEW t \in Seq(Bytes), Lossy(t) = t
  PROVE  Holds(TrimZeros(Lossy(Field(t))), t)
<1>1. PICK n \in Nat : n = Len(t)
  OBVIOUS
<1>2. PICK f : f = Field(t)
  OBVIOUS
<1>3. f \in Seq(Bytes) /\ Len(f) = FieldLen /\ DOMAIN f = 1..FieldLen /\ DOMAIN t = 1..n
  BY <1>1, <1>2, TextFacts
<1>4. \A i \in 1..FieldLen : f[i] = IF i <= n THEN t[i] ELSE "00"
  BY <1>1, <1>2 DEF Field
<1>5. CASE n <= FieldLen
  <2>1. Lossy(f) = f
    BY <1>1, <1>2, <1>5, TextFacts
  <2>2. PICK m \in 0..Len(t) : /\ TrimZeros(t) = SubSeq(t, 1, m)
                               /\ m = Max({0} \cup {i \in DOMAIN t : t[i] # "00"})
    BY TrimIs
  <2>3. PICK k \in 0..Len(f) : /\ TrimZeros(f) = SubSeq(f, 1, k)
                               /\ k = Max({0} \cup {i \in DOMAIN f : f[i] # "00"})
    BY <1>3, TrimIs
  <2>4. {i \in DOMAIN t : t[i] # "00"} = {i \in DOMAIN f : f[i] # "00"}
    <3>1. \A i : i \in 1..n /\ t[i] # "00" <=> i \in 1..FieldLen /\ f[i] # "00"
      <4> TAKE i
      <4>1. i \in 1..n => i \in 1..FieldLen /\ f[i] = t[i]
        BY <1>4, <1>5, Lengths
      <4>2. i \in 1..FieldLen /\ f[i] # "00" => i \in 1..n
        BY <1>4
      <4>3. QED
        BY <4>1, <4>2
    <3>2. QED
      BY <1>3, <3>1
  <2>5. m = k
    BY <2>2, <2>3, <2>4
  <2>6. PICK one \in Nat \ {0} : one = 1
    OBVIOUS
  <2>7. one <= m + 1 /\ m \in Nat /\ m <= Len(t) /\ m <= Len(f) /\ m - one + 1 = m /\ m <= n
    BY <1>1, <2>2, <2>3, <2>5, <2>6
  <2>8. PICK u : u = SubSeq(t, one, m)
    OBVIOUS
  <2>9. PICK v : v = SubSeq(f, one, m)
    OBVIOUS
  <2>10. u \in Seq(Bytes) /\ Len(u) = m /\ \A j \in 1..m : u[j] = t[one + j - 1]
    BY <2>7, <2>8, Window
  <2>11. v \in Seq(Bytes) /\ Len(v) = m /\ \A j \in 1..m : v[j] = f[one + j - 1]
    BY <1>3, <2>7, <2>9, Window
  <2>12. ASSUME NEW j \in 1..m PROVE u[j] = v[j]
    <3>1. one + j - 1 = j /\ j \in 1..FieldLen /\ j <= n
      BY <1>3, <1>5, <2>6, <2>7
    <3>2. u[j] = t[j] /\ v[j] = f[j]
      BY <2>10, <2>11, <3>1
    <3>3. QED
      BY <1>4, <3>1, <3>2
  <2>13. u = v
    BY <2>10, <2>11, <2>12, SeqEqual
  <2>14. TrimZeros(f) = TrimZeros(t)
    BY <2>2, <2>3, <2>5, <2>6, <2>8, <2>9, <2>13
  <2>15. QED
    BY <1>1, <1>2, <1>5, <2>1, <2>14 DEF Holds
<1>6. CASE ~(n <= FieldLen)
  <2>1. PICK u \in Seq(Bytes) : u = Lossy(f)
    BY <1>3, LossyFacts
  <2>2. Len(u) = FieldLen /\ \A i \in 1..FieldLen : u[i] \in {f[i], "??"}
    BY <1>3, <2>1, LossyFacts
  <2>3. PICK m \in 0..Len(u) : /\ TrimZeros(u) = SubSeq(u, 1, m)
                               /\ \A i \in (m + 1)..Len(u) : u[i] = "00"
    BY TrimIs
  <2>4. PICK v : v = TrimZeros(u)
    OBVIOUS
  <2>5. Len(v) = m /\ \A j \in 1..m : v[j] = u[j]
    <3>1. PICK one \in Nat \ {0} : one = 1
      OBVIOUS
    <3>2. one <= m + 1 /\ m \in Nat /\ m <= Len(u) /\ m - one + 1 = m
      BY <2>3, <3>1
    <3>3. v = SubSeq(u, one, m)
      BY <2>3, <2>4, <3>1
    <3>4. Len(v) = m /\ \A j \in 1..m : v[j] = u[one + j - 1]
      BY <3>2, <3>3, Window
    <3>5. \A j \in 1..m : one + j - 1 = j
      BY <3>1
    <3>6. QED
      BY <3>4, <3>5
  <2>6. ASSUME NEW i \in 1..FieldLen
        PROVE  \/ i <= Len(v) /\ v[i] \in {t[i], "??"}
               \/ i > Len(v) /\ t[i] = "00"
    <3>1. f[i] = t[i]
      BY <1>1, <1>4, <1>6, Lengths
    <3>2. u[i] \in {t[i], "??"}
      BY <2>2, <3>1
    <3>3. CASE i <= m
      BY <2>3, <2>5, <3>2, <3>3
    <3>4. CASE ~(i <= m)
      <4>1. i \in (m + 1)..Len(u) /\ i > Len(v)
        BY <2>2, <2>3, <2>5, <3>4, Lengths
      <4>2. u[i] = "00"
        BY <2>3, <4>1
      <4>3. QED
        BY <3>2, <4>1, <4>2
    <3>5. QED
      BY <3>3, <3>4
  <2>7. QED
    BY <1>1, <1>2, <1>6, <2>1, <2>4, <2>6 DEF Holds
<1>7. QED
  BY <1>5, <1>6

-------------------------------------------------------------------------------
(* What is received of a packet that was sent                              *)
SameAs(x, y) ==
  /\ x.type = y.type
  /\ IF x.type = "Jpeg" THEN x = y
     ELSE Holds(x.username, y.username) /\ Holds(x.access_code, y.access_code)

AllClean == \A i \in DOMAIN sending : sending[i].type = "Jpeg" => Clean(sending[i].bytes)

(* If the peer's next packet begins at p, decode finds that packet, and    *)
(* none before its last byte is there: credentials ...                     *)
LEMMA NextLogin ==
  ASSUME NEW s \in Seq(Bytes), NEW r \in Nat, r <= Len(s), NEW p \in Nat \ {0},
         NEW y \in CameraPackets, y.type = "Auth",
         Lossy(y.username) = y.username, Lossy(y.access_code) = y.access_code,
         p + Len(Encode(y)) - 1 <= Len(s),
         \A j \in 1..Len(Encode(y)) : s[p + j - 1] = Encode(y)[j]
  PROVE  /\ \A x, n : Step(s, r, p, x, n) => n = p + Len(Encode(y)) /\ SameAs(x, y)
         /\ Nothing(s, r, p) => r < p + Len(Encode(y)) - 1
<1>1. y.username \in Seq(Bytes) /\ y.access_code \in Seq(Bytes)
  BY DEF CameraPackets
<1>2. PICK e : e = Encode(y)
  OBVIOUS
<1>3. PICK u : u = Field(y.username)
  OBVIOUS
<1>4. PICK a : a = Field(y.access_code)
  OBVIOUS
<1>5. /\ Len(e) = AuthLen /\ e[1] = "auth"
      /\ \A i \in 1..FieldLen : e[1 + i] = u[i] /\ e[1 + FieldLen + i] = a[i]
  BY <1>2, <1>3, <1>4, EncodeType
<1>6. /\ u \in Seq(Bytes) /\ Len(u) = FieldLen /\ \A i \in 1..FieldLen : u[i] # "ff"
      /\ a \in Seq(Bytes) /\ Len(a) = FieldLen /\ \A i \in 1..FieldLen : a[i] # "ff"
  BY <1>1, <1>3, <1>4, TextFacts
<1>7. p + AuthLen - 1 <= Len(s) /\ \A j \in 1..AuthLen : s[p + j - 1] = e[j]
  BY <1>2, <1>5
<1>8. s[p] = "auth"
  <2>1. 1 \in 1..AuthLen /\ p + 1 - 1 = p
    BY Lengths
  <2>2. QED
    BY <1>5, <1>7, <2>1
<1>9. \A i \in 1..FieldLen : s[p + i] = u[i] /\ s[p + FieldLen + i] = a[i]
  <2> TAKE i \in 1..FieldLen
  <2>1. /\ 1 + i \in 1..AuthLen /\ p + (1 + i) - 1 = p + i
        /\ 1 + FieldLen + i \in 1..AuthLen /\ p + (1 + FieldLen + i) - 1 = p + FieldLen + i
    BY SMTT(30), Lengths
  <2>2. s[p + (1 + i) - 1] = e[1 + i] /\ s[p + (1 + FieldLen + i) - 1] = e[1 + FieldLen + i]
    BY <1>7, <2>1
  <2>3. QED
    BY <1>5, <2>1, <2>2
<1>10. \A j \in p..(p + AuthLen - 1) : s[j] # "ff"
  <2> TAKE j \in p..(p + AuthLen - 1)
  <2>1. CASE j = p
    BY <1>8, <2>1
  <2>2. CASE j \in (p + 1)..(p + FieldLen)
    <3>1. PICK i \in 1..FieldLen : j = p + i
      <4>1. j - p \in 1..FieldLen /\ j = p + (j - p)
        BY <2>2, Lengths
      <4>2. QED
        BY <4>1
    <3>2. QED
      BY <1>6, <1>9, <3>1
  <2>3. CASE j \in (p + FieldLen + 1)..(p + 2 * FieldLen)
    <3>1. PICK i \in 1..FieldLen : j = p + FieldLen + i
      <4>1. j - p - FieldLen \in 1..FieldLen /\ j = p + FieldLen + (j - p - FieldLen)
        BY <2>3, Lengths
      <4>2. QED
        BY <4>1
    <3>2. QED
      BY <1>6, <1>9, <3>1
  <2>4. QED
    BY <2>1, <2>2, <2>3, Lengths
<1>11. \A f, g \in Nat : Picture(s, r, p, f, g) => p + AuthLen - 1 <= r
  <2> SUFFICES ASSUME NEW f \in Nat, NEW g \in Nat, Picture(s, r, p, f, g), r < p + AuthLen - 1
               PROVE  FALSE
    BY Lengths
  <2>1. p <= f /\ s[f] = "ff" /\ f + 4 <= g /\ g + 1 <= r
    BY DEF Picture, StartAt
  <2>2. f \in p..(p + AuthLen - 1)
    BY <2>1, Lengths
  <2>3. QED
    BY <1>10, <2>1, <2>2
<1>12. ASSUME NEW x, NEW n, Step(s, r, p, x, n)
       PROVE  n = p + AuthLen /\ SameAs(x, y)
  <2>1. Login(s, r, p)
    <3>1. CASE ~Login(s, r, p)
      <4>1. PICK f \in Nat : \E g \in Nat : First(s, r, p, f, g)
        BY <1>12, <3>1 DEF Step
      <4>2. PICK g \in Nat : First(s, r, p, f, g)
        BY <4>1
      <4>3. p + AuthLen - 1 <= r
        BY <1>11, <4>2 DEF First
      <4>4. QED
        BY <1>8, <4>3 DEF Login
    <3>2. QED
      BY <3>1
  <2>2. x = AuthIn(SubSeq(s, p, p + AuthLen - 1)) /\ n = p + AuthLen
    BY <1>12, <2>1 DEF Step
  <2>3. PICK q \in Nat : q = p + AuthLen - 1
    BY Lengths
  <2>4. p + AuthLen - 1 <= q /\ q <= Len(s)
    BY <1>7, <2>3
  <2>5. AuthIn(SubSeq(s, p, q)) =
          Auth(TrimZeros(Lossy(SubSeq(s, p + 1, p + FieldLen))),
               TrimZeros(Lossy(SubSeq(s, p + FieldLen + 1, p + AuthLen - 1))))
    BY <2>4, AuthInIs
  <2>6. SubSeq(s, p + 1, p + FieldLen) = u
    <3>1. PICK b \in Nat \ {0} : b = p + 1
      OBVIOUS
    <3>2. PICK c \in Nat : c = p + FieldLen
      BY Lengths
    <3>3. b <= c + 1 /\ c <= Len(s) /\ c - b + 1 = FieldLen
      BY <1>7, <3>1, <3>2, Lengths
    <3>4. PICK v : v = SubSeq(s, b, c)
      OBVIOUS
    <3>5. v \in Seq(Bytes) /\ Len(v) = FieldLen /\ \A j \in 1..FieldLen : v[j] = s[b + j - 1]
      BY <3>3, <3>4, Window
    <3>6. \A j \in 1..FieldLen : b + j - 1 = p + j
      BY <3>1
    <3>7. v = u
      <4>1. \A j \in 1..FieldLen : v[j] = u[j]
        BY ZenonT(60), <1>9, <3>5, <3>6
      <4>2. QED
        BY <1>6, <3>5, <4>1, SeqEqual
    <3>8. QED
      BY <3>1, <3>2, <3>4, <3>7
  <2>7. SubSeq(s, p + FieldLen + 1, p + AuthLen - 1) = a
    <3>1. PICK b \in Nat \ {0} : b = p + FieldLen + 1
      BY Lengths
    <3>2. PICK c \in Nat : c = p + AuthLen - 1
      BY Lengths
    <3>3. b <= c + 1 /\ c <= Len(s) /\ c - b + 1 = FieldLen
      BY <1>7, <3>1, <3>2, Lengths
    <3>4. PICK v : v = SubSeq(s, b, c)
      OBVIOUS
    <3>5. v \in Seq(Bytes) /\ Len(v) = FieldLen /\ \A j \in 1..FieldLen : v[j] = s[b + j - 1]
      BY <3>3, <3>4, Window
    <3>6. \A j \in 1..FieldLen : b + j - 1 = p + FieldLen + j
      BY <3>1, Lengths
    <3>7. v = a
      <4>1. \A j \in 1..FieldLen : v[j] = a[j]
        BY ZenonT(60), <1>9, <3>5, <3>6
      <4>2. QED
        BY <1>6, <3>5, <4>1, SeqEqual
    <3>8. QED
      BY <3>1, <3>2, <3>4, <3>7
  <2>8. x = Auth(TrimZeros(Lossy(u)), TrimZeros(Lossy(a)))
    BY <2>2, <2>3, <2>5, <2>6, <2>7
  <2>9. Holds(TrimZeros(Lossy(u)), y.username) /\ Holds(TrimZeros(Lossy(a)), y.access_code)
    BY <1>1, <1>3, <1>4, FieldHolds
  <2>10. QED
    BY <2>2, <2>8, <2>9 DEF SameAs, Auth
<1>13. Nothing(s, r, p) => r < p + AuthLen - 1
  BY <1>8, Lengths DEF Nothing, Login
<1>14. QED
  BY <1>2, <1>5, <1>12, <1>13

(* ... and pictures *)
LEMMA NextPicture ==
  ASSUME NEW s \in Seq(Bytes), NEW r \in Nat, r <= Len(s), NEW p \in Nat \ {0},
         NEW y \in CameraPackets, y.type = "Jpeg", Clean(y.bytes),
         p + Len(Encode(y)) - 1 <= Len(s),
         \A j \in 1..Len(Encode(y)) : s[p + j - 1] = Encode(y)[j]
  PROVE  /\ \A x, n : Step(s, r, p, x, n) => n = p + Len(Encode(y)) /\ SameAs(x, y)
         /\ Nothing(s, r, p) => r < p + Len(Encode(y)) - 1
<1>1. PICK b \in Seq(Bytes) : b = y.bytes
  BY DEF CameraPackets
<1>2. Encode(y) = b
  BY <1>1 DEF Encode
<1>3. PICK l \in Nat : l = Len(b)
  BY <1>1
<1>4. l >= 6 /\ StartAt(b, 1) /\ EndAt(b, l - 1) /\ \A j \in 5..(l - 2) : ~EndAt(b, j)
  BY <1>1, <1>3, CleanFacts
<1>5. p + l - 1 <= Len(s) /\ \A j \in 1..l : s[p + j - 1] = b[j]
  BY <1>2, <1>3
<1>6. StartAt(s, p) /\ s[p] = "ff"
  <2>1. b[1] = "ff" /\ b[2] = "d8" /\ b[3] = "ff" /\ b[4] = "e0"
    <3>1. 1 + 1 = 2 /\ 1 + 2 = 3 /\ 1 + 3 = 4
      OBVIOUS
    <3>2. QED
      BY <1>4, <3>1 DEF StartAt
  <2>2. s[p + 1 - 1] = b[1] /\ s[p + 2 - 1] = b[2] /\ s[p + 3 - 1] = b[3] /\ s[p + 4 - 1] = b[4]
    <3>1. \A k \in 1..4 : k \in 1..l
      BY <1>4
    <3>2. \A k \in 1..4 : s[p + k - 1] = b[k]
      BY <1>5, <3>1
    <3>3. QED
      BY <3>2
  <2>3. p + 1 - 1 = p /\ p + 2 - 1 = p + 1 /\ p + 3 - 1 = p + 2 /\ p + 4 - 1 = p + 3
    OBVIOUS
  <2>4. s[p] = "ff" /\ s[p + 1] = "d8" /\ s[p + 2] = "ff" /\ s[p + 3] = "e0"
    BY <2>1, <2>2, <2>3
  <2>5. QED
    BY <2>4 DEF StartAt
<1>7. ~Login(s, r, p)
  BY <1>6 DEF Login
<1>8. ASSUME NEW j \in 1..(l - 1) PROVE EndAt(s, p + j - 1) <=> EndAt(b, j)
  <2>1. j \in 1..l /\ j + 1 \in 1..l /\ p + (j + 1) - 1 = (p + j - 1) + 1
    OBVIOUS
  <2>2. s[p + j - 1] = b[j] /\ s[p + (j + 1) - 1] = b[j + 1]
    BY <1>5, <2>1
  <2>3. QED
    BY <2>1, <2>2 DEF EndAt
<1>9. PICK z \in Nat : z = p + l - 2
  BY <1>4
<1>10. EndAt(s, z) /\ p + 4 <= z
  <2>1. l - 1 \in 1..(l - 1) /\ p + (l - 1) - 1 = z
    BY <1>4, <1>9
  <2>2. QED
    BY <1>4, <1>8, <1>9, <2>1
<1>11. ASSUME NEW j \in (p + 4)..(z - 1) PROVE ~EndAt(s, j)
  <2>1. PICK k \in Nat : k = j - p + 1
    OBVIOUS
  <2>2. k \in 5..(l - 2) /\ k \in 1..(l - 1) /\ p + k - 1 = j
    BY <1>9, <2>1
  <2>3. QED
    BY <1>4, <1>8, <2>2
<1>12. ASSUME NEW x, NEW n, Step(s, r, p, x, n)
       PROVE  n = p + l /\ SameAs(x, y)
  <2>1. PICK a \in Nat : \E e \in Nat : First(s, r, p, a, e) /\ x = Jpeg(SubSeq(s, a, e + 1)) /\ n = e + 2
    BY <1>7, <1>12 DEF Step
  <2>2. PICK e \in Nat : First(s, r, p, a, e) /\ x = Jpeg(SubSeq(s, a, e + 1)) /\ n = e + 2
    BY <2>1
  <2>3. p <= a /\ a + 4 <= e /\ e + 1 <= r /\ EndAt(s, e)
    BY <2>2 DEF First, Picture
  <2>4. a = p
    <3>1. p < a => p \in p..(a - 1)
      OBVIOUS
    <3>2. QED
      BY <1>6, <2>2, <2>3, <3>1 DEF First
  <2>5. ~(e < z)
    <3>1. e < z => e \in (p + 4)..(z - 1)
      BY <2>3, <2>4
    <3>2. QED
      BY <1>11, <2>3, <3>1
  <2>6. ~(z < e)
    <3>1. z < e => z \in (a + 4)..(e - 1)
      BY <1>10, <2>4
    <3>2. QED
      BY <1>10, <2>2, <3>1 DEF First
  <2>7. e = z
    BY <2>5, <2>6
  <2>8. PICK q \in Nat : q = e + 1
    OBVIOUS
  <2>9. p <= q + 1 /\ q <= Len(s) /\ q - p + 1 = l
    BY <1>5, <1>9, <2>3, <2>4, <2>7, <2>8
  <2>10. PICK v : v = SubSeq(s, p, q)
    OBVIOUS
  <2>11. v \in Seq(Bytes) /\ Len(v) = l /\ \A j \in 1..l : v[j] = s[p + j - 1]
    BY <2>9, <2>10, Window
  <2>12. v = b
    <3>1. \A j \in 1..l : v[j] = b[j]
      BY <1>5, <2>11
    <3>2. QED
      BY <1>3, <2>11, <3>1, SeqEqual
  <2>13. x = Jpeg(b)
    BY <2>2, <2>4, <2>8, <2>10, <2>12
  <2>14. Jpeg(b) = y
    BY <1>1 DEF CameraPackets, Jpeg
  <2>15. n = p + l
    BY <1>9, <2>2, <2>7
  <2>16. QED
    BY <2>13, <2>14, <2>15 DEF SameAs
<1>13. ASSUME Nothing(s, r, p) PROVE r < p + l - 1
  <2> SUFFICES ASSUME ~(r < p + l - 1) PROVE FALSE
    OBVIOUS
  <2>1. z + 1 <= r
    BY <1>9
  <2>2. Picture(s, r, p, p, z) /\ p \in Nat
    BY <1>6, <1>10, <2>1 DEF Picture
  <2>3. QED
    BY <1>13, <2>2 DEF Nothing
<1>14. QED
  BY <1>2, <1>3, <1>12, <1>13

-------------------------------------------------------------------------------
(* As many packets of the peer's are received as fit in what was read, and *)
(* the buffer begins where the next of them begins                         *)
InOrder(o) ==
  /\ Cuts(o, sending, stream)
  /\ Len(packets) <= Len(sending)
  /\ Holding(o[Len(packets)] + 1)
  /\ \A i \in 1..Len(packets) : SameAs(packets[i], sending[i])
  /\ ~Decoding /\ Len(packets) < Len(sending) => read < o[Len(packets) + 1]

ArriveInv == AllClean => \E o : InOrder(o)

(* The packet that is next *)
LEMMA NextPacket ==
  ASSUME TypeOK, Peer, AllClean, NEW o, InOrder(o),
         NEW k, k = Len(packets), NEW p, p = o[k] + 1
  PROVE  /\ k \in Nat /\ p \in Nat \ {0} /\ o[k] \in Nat
         /\ k < Len(sending) =>
              /\ o[k + 1] \in Nat /\ o[k + 1] <= Len(stream)
              /\ \A x, n : Step(stream, read, p, x, n) =>
                   n = o[k + 1] + 1 /\ SameAs(x, sending[k + 1])
              /\ Nothing(stream, read, p) => read < o[k + 1]
         /\ k = Len(sending) => \A x, n : ~Step(stream, read, p, x, n)
<1>1. sending \in Seq(CameraPackets) /\ stream \in Seq(Bytes) /\ packets \in Seq(CameraPackets)
  BY DEF TypeOK
<1>2. read \in Nat /\ read <= Len(stream) /\ Len(stream) \in Nat /\ Len(sending) \in Nat /\ k \in Nat
  BY <1>1 DEF TypeOK
<1>3. k <= Len(sending) /\ k \in 0..Len(sending)
  BY <1>2 DEF InOrder
<1>4. o \in [0..Len(sending) -> Nat] /\ o[Len(sending)] = Len(stream)
  BY DEF InOrder, Cuts
<1>5. o[k] \in Nat /\ p \in Nat \ {0}
  BY <1>3, <1>4
<1>6. ASSUME k < Len(sending)
      PROVE  /\ o[k + 1] \in Nat /\ o[k + 1] <= Len(stream)
             /\ \A x, n : Step(stream, read, p, x, n) =>
                  n = o[k + 1] + 1 /\ SameAs(x, sending[k + 1])
             /\ Nothing(stream, read, p) => read < o[k + 1]
  <2>1. PICK i : i = k + 1
    OBVIOUS
  <2>2. i \in 1..Len(sending) /\ i - 1 = k /\ i \in DOMAIN sending /\ i \in 0..Len(sending)
    BY <1>1, <1>2, <1>6, <2>1
  <2>3. PICK y : y = sending[i]
    OBVIOUS
  <2>4. y \in CameraPackets /\ Encode(y) \in Seq(Bytes) /\ Len(Encode(y)) \in Nat
    <3>1. y \in CameraPackets
      BY <1>1, <2>2, <2>3, ElementOfSeq
    <3>2. QED
      BY <3>1, EncodeType
  <2>5. /\ o[i] = o[k] + Len(Encode(y)) /\ o[i] <= Len(stream)
        /\ \A j \in 1..Len(Encode(y)) : stream[o[k] + j] = Encode(y)[j]
    BY <2>2, <2>3 DEF InOrder, Cuts
  <2>6. \A j \in Nat : p + j - 1 = o[k] + j
    BY <1>5
  <2>7. \A j \in 1..Len(Encode(y)) : stream[p + j - 1] = Encode(y)[j]
    <3> TAKE j \in 1..Len(Encode(y))
    <3>1. j \in Nat
      BY <2>4
    <3>2. p + j - 1 = o[k] + j
      BY <2>6, <3>1
    <3>3. QED
      BY <2>5, <3>2
  <2>8. /\ p + Len(Encode(y)) - 1 = o[i] /\ p + Len(Encode(y)) = o[i] + 1
        /\ p + Len(Encode(y)) - 1 <= Len(stream)
    BY SMTT(30), <1>5, <2>4, <2>5
  <2>9. /\ \A x, n : Step(stream, read, p, x, n) => n = p + Len(Encode(y)) /\ SameAs(x, y)
        /\ Nothing(stream, read, p) => read < p + Len(Encode(y)) - 1
    <3>1. CASE y.type = "Auth"
      <4>1. Lossy(y.username) = y.username /\ Lossy(y.access_code) = y.access_code
        BY <2>2, <2>3, <3>1, JpegAssumption DEF Peer
      <4>2. QED
        BY <1>1, <1>2, <1>5, <2>4, <2>7, <2>8, <3>1, <4>1, NextLogin
    <3>2. CASE y.type = "Jpeg"
      <4>1. Clean(y.bytes)
        BY <2>2, <2>3, <3>2 DEF AllClean
      <4>2. QED
        BY <1>1, <1>2, <1>5, <2>4, <2>7, <2>8, <3>2, <4>1, NextPicture
    <3>3. y.type = "Auth" \/ y.type = "Jpeg"
      BY <2>4 DEF CameraPackets
    <3>4. QED
      BY <3>1, <3>2, <3>3
  <2>10. o[i] \in Nat
    BY <1>4, <2>2
  <2>11. QED
    BY <2>1, <2>3, <2>5, <2>8, <2>9, <2>10
<1>7. ASSUME k = Len(sending), NEW x, NEW n, Step(stream, read, p, x, n) PROVE FALSE
  <2>1. p = Len(stream) + 1
    BY <1>4, <1>7
  <2>2. p <= read
    BY <1>1, <1>2, <1>5, <1>7, StepBounds
  <2>3. QED
    BY <1>2, <2>1, <2>2
<1>8. QED
  BY <1>2, <1>5, <1>6, <1>7

(* It is so at first ...                                                   *)
LEMMA InitArrive == Init => ArriveInv
<1> SUFFICES ASSUME Init, AllClean PROVE \E o : InOrder(o)
  BY DEF ArriveInv
<1>1. Peer /\ TypeOK /\ Holding(1) /\ read = 0 /\ packets = <<>>
  BY InitPeer
<1>2. sending \in Seq(CameraPackets) /\ Len(sending) \in Nat
  BY <1>1 DEF TypeOK
<1>3. PICK o : Cuts(o, sending, stream)
  BY <1>1, <1>2, SentCuts DEF Peer
<1>4. Len(packets) = 0 /\ o[0] = 0
  BY <1>1, <1>3 DEF Cuts
<1>5. Holding(o[Len(packets)] + 1)
  BY <1>1, <1>4
<1>6. ASSUME ~Decoding, Len(packets) < Len(sending) PROVE read < o[Len(packets) + 1]
  <2>1. 1 \in 1..Len(sending) /\ 0 + 1 = 1 /\ 1 - 1 = 0
    BY <1>2, <1>4, <1>6
  <2>2. o[1] = o[0] + Len(Encode(sending[1]))
    BY <1>3, <2>1 DEF Cuts
  <2>3. PICK y \in CameraPackets : y = sending[1]
    BY <1>2, <2>1, ElementOfSeq
  <2>4. Len(Encode(y)) >= 1
    <3>1. CASE y.type = "Auth"
      BY <3>1, EncodeType, Lengths
    <3>2. CASE y.type = "Jpeg"
      <4>1. 1 \in DOMAIN sending
        BY <1>2, <2>1
      <4>2. y.bytes \in Seq(Bytes) /\ Clean(y.bytes)
        BY <2>3, <3>2, <4>1 DEF AllClean, CameraPackets
      <4>3. Len(y.bytes) >= 6 /\ Encode(y) = y.bytes
        BY <3>2, <4>2, CleanFacts DEF Encode
      <4>4. Len(y.bytes) \in Nat
        BY <4>2
      <4>5. QED
        BY <4>3, <4>4
    <3>3. y.type = "Auth" \/ y.type = "Jpeg"
      BY <2>3 DEF CameraPackets
    <3>4. QED
      BY <3>1, <3>2, <3>3
  <2>5. QED
    BY <1>1, <1>4, <2>1, <2>2, <2>3, <2>4
<1>7. InOrder(o)
  BY <1>2, <1>3, <1>4, <1>5, <1>6 DEF InOrder
<1>8. QED
  BY <1>7

(* ... and stays so                                                        *)
LEMMA ArriveStep ==
  ASSUME StreamInv, ArriveInv, [Next]_vars
  PROVE  ArriveInv'
<1>1. UNCHANGED <<sending, stream>> /\ StreamInv'
  BY StreamStep
<1>2. AllClean' => AllClean
  BY <1>1 DEF AllClean
<1> SUFFICES ASSUME AllClean PROVE \E o : InOrder(o)'
  BY <1>2 DEF ArriveInv
<1>3. PICK o : InOrder(o)
  BY DEF ArriveInv
<1>4. TypeOK /\ Peer /\ sending \in Seq(CameraPackets) /\ packets \in Seq(CameraPackets)
  BY DEF StreamInv, TypeOK
<1>5. PICK k : k = Len(packets)
  OBVIOUS
<1>6. PICK p : p = o[k] + 1
  OBVIOUS
<1>7. /\ k \in Nat /\ p \in Nat \ {0} /\ o[k] \in Nat
      /\ k < Len(sending) =>
           /\ o[k + 1] \in Nat /\ o[k + 1] <= Len(stream)
           /\ \A x, n : Step(stream, read, p, x, n) =>
                n = o[k + 1] + 1 /\ SameAs(x, sending[k + 1])
           /\ Nothing(stream, read, p) => read < o[k + 1]
      /\ k = Len(sending) => \A x, n : ~Step(stream, read, p, x, n)
  BY <1>3, <1>4, <1>5, <1>6, NextPacket
<1>8. /\ Holding(p) /\ k <= Len(sending) /\ Cuts(o, sending, stream)
      /\ \A i \in 1..k : SameAs(packets[i], sending[i])
      /\ ~Decoding /\ k < Len(sending) => read < o[k + 1]
  BY <1>3, <1>5, <1>6 DEF InOrder
<1>9. Cuts(o, sending', stream')
  BY <1>1, <1>8
<1>10. CASE Idle
  <2>1. UNCHANGED <<read, buffer, packets>>
        /\ (~Decoding' /\ Decoding => ~IsAuth(buffer) /\ ~IsJpeg(buffer))
    BY <1>4, <1>10, IdleFacts
  <2>2. ASSUME ~Decoding', k < Len(sending) PROVE read < o[k + 1]
    <3>1. CASE Decoding
      <4>1. Nothing(stream, read, p)
        BY <1>4, <1>8, <2>1, <2>2, <3>1, DecodesNothing
      <4>2. QED
        BY <1>7, <2>2, <4>1
    <3>2. CASE ~Decoding
      BY <1>8, <2>2, <3>2
    <3>3. QED
      BY <3>1, <3>2
  <2>3. Holding(o[Len(packets)] + 1)'
    BY <1>1, <1>5, <1>6, <1>8, <2>1 DEF Holding
  <2>4. InOrder(o)'
    BY <1>1, <1>5, <1>8, <1>9, <2>1, <2>2, <2>3 DEF InOrder
  <2>5. QED
    BY <2>4
<1>11. CASE DecodeAuth \/ DecodeJpeg
  <2>1. PICK x, n : /\ Step(stream, read, p, x, n)
                    /\ packets' = Append(packets, x) /\ x \in CameraPackets
                    /\ Decoding' /\ Holding(n)'
    BY <1>4, <1>8, <1>11, FoundFacts
  <2>2. Len(sending) \in Nat
    BY <1>4
  <2>3. k < Len(sending)
    BY <1>7, <1>8, <2>1, <2>2
  <2>4. n = o[k + 1] + 1 /\ SameAs(x, sending[k + 1])
    BY <1>7, <2>1, <2>3
  <2>5. /\ Len(packets') = k + 1 /\ packets'[k + 1] = x
        /\ \A i \in 1..k : packets'[i] = packets[i]
    BY <1>4, <1>5, <2>1, AppendFacts
  <2>6. \A i \in 1..(k + 1) : SameAs(packets'[i], sending[i])
    <3> TAKE i \in 1..(k + 1)
    <3>1. i = k + 1 \/ i \in 1..k
      BY <1>7
    <3>2. QED
      BY <1>8, <2>4, <2>5, <3>1
  <2>7. Holding(o[Len(packets)] + 1)'
    <3>1. PICK m : m = o[Len(packets')] + 1
      OBVIOUS
    <3>2. m = n
      BY <2>4, <2>5, <3>1
    <3>3. QED
      BY <2>1, <3>1, <3>2 DEF Holding
  <2>8. k + 1 <= Len(sending)
    BY <1>7, <2>2, <2>3
  <2>9. InOrder(o)'
    BY <1>1, <1>9, <2>1, <2>5, <2>6, <2>7, <2>8 DEF InOrder
  <2>10. QED
    BY <2>9
<1>12. CASE \E n \in 1..(Len(stream) - read) : Receive(n)
  <2>1. PICK n \in 1..(Len(stream) - read) : Receive(n)
    BY <1>12
  <2>2. UNCHANGED packets /\ Decoding' /\ Holding(p)'
    BY <1>4, <1>8, <2>1, ReceiveFacts
  <2>3. Holding(o[Len(packets)] + 1)'
    BY <1>5, <1>6, <2>2 DEF Holding
  <2>4. InOrder(o)'
    BY <1>1, <1>5, <1>8, <1>9, <2>2, <2>3 DEF InOrder
  <2>5. QED
    BY <2>4
<1>13. CASE UNCHANGED vars
  <2>1. UNCHANGED <<read, buffer, packets, state>>
    BY <1>13 DEF vars
  <2>2. Holding(o[Len(packets)] + 1)'
    BY <1>1, <1>5, <1>6, <1>8, <2>1 DEF Holding
  <2>3. InOrder(o)'
    BY <1>1, <1>5, <1>8, <1>9, <2>1, <2>2 DEF InOrder, Decoding
  <2>4. QED
    BY <2>3
<1>14. QED
  BY <1>10, <1>11, <1>12, <1>13, Steps

(* InOrder says what PacketsArrive asks for *)
LEMMA ArriveImplies ==
  ASSUME StreamInv, ArriveInv
  PROVE  PacketsArrive
<1> SUFFICES ASSUME ~Decoding, AllClean
             PROVE  /\ Len(packets) <= Len(sending)
                    /\ \A i \in DOMAIN packets :
                         /\ packets[i].type = sending[i].type
                         /\ IF packets[i].type = "Jpeg" THEN packets[i] = sending[i]
                            ELSE /\ Holds(packets[i].username, sending[i].username)
                                 /\ Holds(packets[i].access_code, sending[i].access_code)
                    /\ IF Len(packets) = Len(sending) THEN buffer = <<>>
                       ELSE IsStrictPrefix(buffer, Encode(sending[Len(packets) + 1]))
  BY DEF PacketsArrive, AllClean
<1>1. PICK o : InOrder(o)
  BY DEF ArriveInv
<1>2. TypeOK /\ Peer /\ sending \in Seq(CameraPackets) /\ packets \in Seq(CameraPackets)
  BY DEF StreamInv, TypeOK
<1>3. PICK k : k = Len(packets)
  OBVIOUS
<1>4. PICK p : p = o[k] + 1
  OBVIOUS
<1>5. k \in Nat /\ p \in Nat \ {0} /\ o[k] \in Nat /\ Len(sending) \in Nat
  BY <1>1, <1>2, <1>3, <1>4, NextPacket
<1>6. /\ Holding(p) /\ k <= Len(sending) /\ Cuts(o, sending, stream)
      /\ \A i \in 1..k : SameAs(packets[i], sending[i])
      /\ k < Len(sending) => read < o[k + 1]
  BY <1>1, <1>3, <1>4 DEF InOrder
<1>7. /\ read \in Nat /\ p <= read + 1 /\ read <= Len(stream)
      /\ stream \in Seq(Bytes) /\ Len(buffer) = read - p + 1
  BY <1>2, <1>6, BufferIs
<1>8. /\ buffer \in Seq(Bytes)
      /\ \A j \in 1..(read - p + 1) : buffer[j] = stream[p + j - 1]
  BY <1>5, <1>6, <1>7, Window DEF Holding
<1>9. DOMAIN packets = 1..k
  BY <1>2, <1>3
<1>10. ASSUME k = Len(sending) PROVE buffer = <<>>
  <2>1. o[k] = Len(stream) /\ Len(stream) \in Nat
    BY <1>6, <1>7, <1>10 DEF Cuts
  <2>2. Len(buffer) = 0
    BY <1>4, <1>5, <1>7, <2>1
  <2>3. QED
    BY <1>8, <2>2
<1>11. ASSUME k # Len(sending) PROVE IsStrictPrefix(buffer, Encode(sending[k + 1]))
  <2>1. PICK i \in 1..Len(sending) : i = k + 1 /\ i - 1 = k
    BY <1>5, <1>6, <1>11
  <2>2. PICK e : e = Encode(sending[i])
    OBVIOUS
  <2>3. e \in Seq(Bytes) /\ Len(e) \in Nat
    BY <1>2, <2>1, <2>2, ElementOfSeq, EncodeType
  <2>4. o[i] = o[k] + Len(e) /\ \A j \in 1..Len(e) : stream[o[k] + j] = e[j]
    BY <1>6, <2>1, <2>2 DEF Cuts
  <2>5. read < o[i]
    BY <1>5, <1>6, <1>11, <2>1
  <2>6. PICK b \in Seq(Bytes) : b = buffer
    BY <1>8
  <2>7. PICK l \in Nat : l = Len(b)
    OBVIOUS
  <2>8. l = read - p + 1 /\ l < Len(e)
    <3>1. l = read - p + 1
      BY <1>7, <2>6, <2>7
    <3>2. read < o[k] + Len(e)
      BY <2>4, <2>5
    <3>3. \A x, y, z \in Nat : x < y + z => x - (y + 1) + 1 < z
      OBVIOUS
    <3>4. read - (o[k] + 1) + 1 < Len(e)
      BY <1>5, <1>7, <2>3, <3>2, <3>3
    <3>5. QED
      BY <1>4, <3>1, <3>4
  <2>9. ASSUME NEW j \in 1..l PROVE b[j] = e[j]
    <3>1. j \in 1..Len(e) /\ j \in 1..(read - p + 1)
      BY <2>3, <2>8
    <3>2. p + j - 1 = o[k] + j
      BY <1>4, <1>5
    <3>3. b[j] = stream[p + j - 1]
      BY <1>8, <2>6, <3>1
    <3>4. QED
      BY <2>4, <3>1, <3>2, <3>3
  <2>10. SubSeq(b, 1, l) = SubSeq(e, 1, l)
    <3>1. PICK one \in Nat \ {0} : one = 1
      OBVIOUS
    <3>2. one <= l + 1 /\ l <= Len(b) /\ l <= Len(e) /\ l - one + 1 = l
      BY <2>3, <2>7, <2>8, <3>1
    <3>3. PICK u : u = SubSeq(b, one, l)
      OBVIOUS
    <3>4. PICK v : v = SubSeq(e, one, l)
      OBVIOUS
    <3>5. u \in Seq(Bytes) /\ Len(u) = l /\ \A j \in 1..l : u[j] = b[one + j - 1]
      BY <3>2, <3>3, Window
    <3>6. v \in Seq(Bytes) /\ Len(v) = l /\ \A j \in 1..l : v[j] = e[one + j - 1]
      BY <2>3, <3>2, <3>4, Window
    <3>7. \A j \in 1..l : one + j - 1 = j
      BY <3>1
    <3>8. \A j \in 1..l : u[j] = v[j]
      BY <2>9, <3>5, <3>6, <3>7
    <3>9. u = v
      BY <3>5, <3>6, <3>8, SeqEqual
    <3>10. QED
      BY <3>1, <3>3, <3>4, <3>9
  <2>11. b # e
    <3>1. b = e => l = Len(e)
      BY <2>7
    <3>2. QED
      BY <2>3, <2>8, <3>1
  <2>12. IsStrictPrefix(b, e)
    BY <2>3, <2>7, <2>8, <2>10, <2>11 DEF IsStrictPrefix, IsPrefix
  <2>13. QED
    BY <2>1, <2>2, <2>6, <2>12
<1>12. QED
  BY <1>3, <1>6, <1>9, <1>10, <1>11 DEF SameAs

(* What a peer encodes is decoded: the packets come as they were sent, in   *)
(* order and none twice, and the buffer holds less than one of them,        *)
(* however the connection cuts the bytes                                    *)
THEOREM Received == Spec => []PacketsArrive
<1>1. Init => ArriveInv
  BY InitArrive
<1>2. StreamInv /\ ArriveInv /\ [Next]_vars => ArriveInv'
  BY ArriveStep
<1>3. StreamInv /\ ArriveInv => PacketsArrive
  BY ArriveImplies
<1>4. QED
  BY <1>1, <1>2, <1>3, StreamInvariant, PTL DEF Spec

-------------------------------------------------------------------------------
(* What is found stays found when more bytes arrive                        *)
LEMMA StepStable ==
  ASSUME NoPictureInLogin, Peer, stream \in Seq(Bytes),
         NEW q \in Nat, NEW r \in Nat, q <= r, r <= Len(stream),
         NEW p \in Nat \ {0}, NEW x, NEW n, Step(stream, q, p, x, n)
  PROVE  Step(stream, r, p, x, n)
<1>1. CASE Login(stream, q, p)
  <2>1. x = AuthIn(SubSeq(stream, p, p + AuthLen - 1)) /\ n = p + AuthLen
    BY <1>1 DEF Step
  <2>2. Login(stream, r, p)
    BY <1>1, Lengths DEF Login
  <2>3. QED
    BY <2>1, <2>2 DEF Step
<1>2. CASE ~Login(stream, q, p)
  <2>1. PICK a \in Nat : \E e \in Nat :
          First(stream, q, p, a, e) /\ x = Jpeg(SubSeq(stream, a, e + 1)) /\ n = e + 2
    BY <1>2 DEF Step
  <2>2. PICK e \in Nat : First(stream, q, p, a, e) /\ x = Jpeg(SubSeq(stream, a, e + 1)) /\ n = e + 2
    BY <2>1
  <2>3. p <= a /\ StartAt(stream, a) /\ a + 4 <= e /\ EndAt(stream, e) /\ e + 1 <= q
    BY <2>2 DEF First, Picture
  <2>4. First(stream, r, p, a, e)
    <3>1. e + 1 <= r
      BY <2>3
    <3>2. QED
      BY <2>2, <2>3, <3>1 DEF First, Picture
  <2>5. ~Login(stream, r, p)
    <3> SUFFICES ASSUME Login(stream, r, p) PROVE FALSE
      OBVIOUS
    <3>1. p + AuthLen - 1 <= r /\ stream[p] = "auth"
      BY DEF Login
    <3>2. q < p + AuthLen - 1
      BY <1>2, <3>1, Lengths DEF Login
    <3>3. PICK m \in Nat : m = p + AuthLen - 2
      BY Lengths
    <3>4. PICK w : w = SubSeq(stream, p, m)
      OBVIOUS
    <3>5. ~IsJpeg(w)
      <4>1. p \in DOMAIN stream /\ p + AuthLen - 1 <= Len(stream)
        BY <3>1, Lengths
      <4>2. QED
        BY <3>1, <3>3, <3>4, <4>1 DEF NoPictureInLogin, Peer
    <3>6. ~Picture(stream, m, p, a, e)
      <4>1. p <= m + 1 /\ m <= Len(stream)
        BY <3>1, <3>3, Lengths
      <4>2. Finds(stream, m, p, 1, Starts(w), Ends(w)) /\ p + 1 - 1 = p
        BY <3>4, <4>1, PartFinds
      <4>3. ~(Starts(w) # {} /\ Ends(w) # {})
        BY <3>5 DEF IsJpeg
      <4>4. QED
        BY <4>2, <4>3 DEF Finds
    <3>7. e + 1 <= m
      BY <2>3, <3>2, <3>3, Lengths
    <3>8. QED
      BY <2>3, <3>6, <3>7 DEF Picture
  <2>6. QED
    BY <2>2, <2>4, <2>5 DEF Step
<1>3. QED
  BY <1>1, <1>2

(* Something is found at p, or nothing *)
LEMMA StepOrNothing ==
  ASSUME NEW S, NEW s \in Seq(S), NEW r \in Nat, r <= Len(s), NEW p \in 1..(r + 1)
  PROVE  Nothing(s, r, p) \/ \E x, n : Step(s, r, p, x, n)
<1>1. CASE Login(s, r, p)
  <2>1. PICK x : x = AuthIn(SubSeq(s, p, p + AuthLen - 1))
    OBVIOUS
  <2>2. Step(s, r, p, x, p + AuthLen)
    BY <1>1, <2>1 DEF Step
  <2>3. QED
    BY <2>2
<1>2. CASE ~Login(s, r, p)
  <2> SUFFICES ASSUME NEW f \in Nat, NEW g \in Nat, Picture(s, r, p, f, g)
               PROVE  \E x, n : Step(s, r, p, x, n)
    BY <1>2 DEF Nothing
  <2>1. PICK q \in Nat \ {0} : q = 1
    OBVIOUS
  <2>2. p \in Nat \ {0} /\ q <= r + 1 /\ q + p - 1 = p
    BY <2>1
  <2>3. PICK w : w = SubSeq(s, q, r)
    OBVIOUS
  <2>4. PICK starts : starts = Occurrences(w, JPEG_START_MARKER, p)
    OBVIOUS
  <2>5. PICK ends : ends = Occurrences(w, JPEG_END_MARKER, Min(starts) + 4)
    OBVIOUS
  <2>6. Finds(s, r, q, p, starts, ends)
    BY <2>2, <2>3, <2>4, <2>5, Search
  <2>7. /\ Min(starts) \in Nat \ {0} /\ Min(ends) \in Nat \ {0}
        /\ First(s, r, p, q + Min(starts) - 1, q + Min(ends) - 1)
    BY <2>2, <2>6 DEF Finds
  <2>8. PICK a \in Nat : a = q + Min(starts) - 1
    BY <2>1, <2>7
  <2>9. PICK e \in Nat : e = q + Min(ends) - 1
    BY <2>1, <2>7
  <2>10. PICK x : x = Jpeg(SubSeq(s, a, e + 1))
    OBVIOUS
  <2>11. Step(s, r, p, x, e + 2)
    BY <1>2, <2>7, <2>8, <2>9, <2>10 DEF Step
  <2>12. QED
    BY <2>11
<1>3. QED
  BY <1>1, <1>2

-------------------------------------------------------------------------------
(* What a walk from the left finds: x, and what there is from n on          *)
Ahead(f, x, n) == [found |-> <<x>> \o f[n].found, next |-> f[n].next]

(* Scan, the reference, is defined by recursion from the left: its value at *)
(* a position where nothing is found, and where a packet is                *)
Scanned(f, w) ==
  \A i \in 1..(Len(w) + 1) :
    /\ FoundAt(w, i) = {} => f[i] = [found |-> <<>>, next |-> i]
    /\ \A x : \A n \in (i + 1)..(Len(w) + 1) :
         FoundAt(w, i) = {[packet |-> x, next |-> n]} =>
           f[i] = Ahead(f, x, n)

(* There is a function that is defined so                                  *)
LEMMA ScanExists ==
  ASSUME NEW w \in Seq(Bytes)
  PROVE  \E f : Scanned(f, w) /\ Scan(w) = f[1]
<1>1. PICK l \in Nat : l = Len(w)
  OBVIOUS
<1> DEFINE Value(f, i) ==
             IF FoundAt(w, i) = {} THEN [found |-> <<>>, next |-> i]
             ELSE LET x == CHOOSE x \in FoundAt(w, i) : TRUE
                  IN [found |-> <<x.packet>> \o f[x.next].found,
                      next |-> f[x.next].next]
           From1(m) == (l + 1 - m)..(l + 1)
           Eq(f, m) == f = [i \in From1(m) |-> Value(f, i)]
           F == CHOOSE f : f = [i \in 1..(l + 1) |-> Value(f, i)]
<1>2. ASSUME NEW i, NEW x, NEW n, FoundAt(w, i) = {[packet |-> x, next |-> n]}, NEW f
      PROVE  Value(f, i) = Ahead(f, x, n)
  <2>1. PICK y : y = [packet |-> x, next |-> n]
    OBVIOUS
  <2>2. y.packet = x /\ y.next = n
    BY <2>1
  <2>3. (CHOOSE z \in FoundAt(w, i) : TRUE) = y /\ FoundAt(w, i) # {}
    BY <1>2, <2>1
  <2>4. QED
    BY <2>2, <2>3 DEF Ahead
<1> HIDE DEF Value
<1>3. ASSUME NEW i \in 1..(l + 1)
      PROVE  \/ FoundAt(w, i) = {}
             \/ \E x : \E n \in (i + 1)..(l + 1) : FoundAt(w, i) = {[packet |-> x, next |-> n]}
  <2>1. SubSeq(w, 1, l) = w
    BY <1>1, SubSeqFull
  <2>2. l <= Len(w) /\ i \in Nat \ {0}
    BY <1>1
  <2>3. CASE Nothing(w, l, i)
    BY ZenonT(60), <1>1, <2>1, <2>2, <2>3, FoundStep
  <2>4. CASE \E x, n : Step(w, l, i, x, n)
    <3>1. PICK x, n : Step(w, l, i, x, n)
      BY <2>4
    <3>2. n \in (i + 1)..(l + 1)
      BY <2>2, <3>1, StepBounds
    <3>3. FoundAt(w, i) = {[packet |-> x, next |-> n]}
      BY ZenonT(60), <2>1, <2>2, <3>1, FoundStep
    <3>4. QED
      BY <3>2, <3>3
  <2>5. QED
    BY <2>2, <2>3, <2>4, StepOrNothing
<1> DEFINE N == {m \in Nat : m <= l => \E f : Eq(f, m)}
<1>4. ASSUME NEW f, NEW g, NEW i \in 1..(l + 1),
             \A j \in (i + 1)..(l + 1) : f[j] = g[j]
      PROVE  Value(f, i) = Value(g, i)
  <2>1. CASE FoundAt(w, i) = {}
    BY <2>1 DEF Value
  <2>2. CASE \E x : \E n \in (i + 1)..(l + 1) : FoundAt(w, i) = {[packet |-> x, next |-> n]}
    <3>1. PICK x : \E n \in (i + 1)..(l + 1) : FoundAt(w, i) = {[packet |-> x, next |-> n]}
      BY <2>2
    <3>2. PICK n \in (i + 1)..(l + 1) : FoundAt(w, i) = {[packet |-> x, next |-> n]}
      BY <3>1
    <3>3. Value(f, i) = Ahead(f, x, n)
      BY <1>2, <3>2
    <3>4. Value(g, i) = Ahead(g, x, n)
      BY <1>2, <3>2
    <3>5. f[n] = g[n]
      BY <1>4
    <3>6. Ahead(f, x, n) = Ahead(g, x, n)
      BY <3>5 DEF Ahead
    <3>7. QED
      BY <3>3, <3>4, <3>6
  <2>3. QED
    BY <1>3, <1>4, <2>1, <2>2
<1>5. 0 \in N
  <2>1. \A j \in From1(0) : j = l + 1
    BY <1>1
  <2> DEFINE f == [i \in From1(0) |-> Value(<<>>, i)]
  <2>2. ASSUME NEW i \in From1(0) PROVE f[i] = Value(f, i)
    <3>1. i = l + 1 /\ i \in 1..(l + 1) /\ 0 <= l
      BY <1>1, <2>1
    <3>2. \A j \in (i + 1)..(l + 1) : f[j] = <<>>[j]
      BY <3>1
    <3>3. Value(f, i) = Value(<<>>, i)
      BY <1>4, <3>1, <3>2
    <3>4. QED
      BY <3>3
  <2>3. Eq(f, 0)
    BY <2>2
  <2>4. QED
    BY <2>3
<1>6. ASSUME NEW m \in Nat, m \in N PROVE m + 1 \in N
  <2> SUFFICES ASSUME m + 1 <= l PROVE \E f : Eq(f, m + 1)
    OBVIOUS
  <2>1. PICK f : Eq(f, m)
    BY <1>1, <1>6
  <2> DEFINE g == [i \in From1(m + 1) |-> IF i = l - m THEN Value(f, i) ELSE f[i]]
  <2>2. /\ \A i \in From1(m + 1) : i = l - m \/ i \in From1(m)
        /\ \A i \in From1(m + 1) : i \in 1..(l + 1)
        /\ \A i \in From1(m) : i \in From1(m + 1) /\ i # l - m
    BY <1>1
  <2>3. \A i \in From1(m) : g[i] = f[i]
    BY <2>2
  <2>4. ASSUME NEW i \in From1(m + 1) PROVE g[i] = Value(g, i)
    <3>1. \A j \in (i + 1)..(l + 1) : j \in From1(m)
      BY <1>1
    <3>2. \A j \in (i + 1)..(l + 1) : f[j] = g[j]
      BY <2>3, <3>1
    <3>3. Value(f, i) = Value(g, i)
      BY <1>4, <2>2, <3>2
    <3>4. CASE i = l - m
      BY <3>3, <3>4
    <3>5. CASE i \in From1(m)
      <4>1. f[i] = Value(f, i)
        BY <2>1, <3>5
      <4>2. QED
        BY <2>3, <3>3, <3>5, <4>1
    <3>6. QED
      BY <2>2, <3>4, <3>5
  <2>5. Eq(g, m + 1)
    BY <2>4
  <2>6. QED
    BY <2>5
<1>7. \E f : f = [i \in 1..(l + 1) |-> Value(f, i)]
  <2> HIDE DEF N
  <2>1. l \in N
    BY <1>5, <1>6, Induction
  <2>2. PICK f : Eq(f, l)
    BY <1>1, <2>1 DEF N
  <2>3. From1(l) = 1..(l + 1)
    BY <1>1
  <2>4. QED
    BY <2>2, <2>3
<1>8. F = [i \in 1..(l + 1) |-> Value(F, i)]
  BY <1>7
<1>9. Scan(w) = F[1]
  BY <1>1 DEF Scan, Value
<1> HIDE DEF F
<1>10. \A i \in 1..(l + 1) : F[i] = Value(F, i)
  BY <1>8
<1>11. ASSUME NEW i \in 1..(l + 1), FoundAt(w, i) = {}
       PROVE  F[i] = [found |-> <<>>, next |-> i]
  BY <1>10, <1>11 DEF Value
<1>12. ASSUME NEW i \in 1..(l + 1), NEW x, NEW n, FoundAt(w, i) = {[packet |-> x, next |-> n]}
       PROVE  F[i] = Ahead(F, x, n)
  <2>1. Value(F, i) = Ahead(F, x, n)
    BY <1>2, <1>12
  <2>2. QED
    BY <1>10, <2>1
<1>13. Scanned(F, w)
  <2> SUFFICES ASSUME NEW i \in 1..(Len(w) + 1)
               PROVE  /\ FoundAt(w, i) = {} => F[i] = [found |-> <<>>, next |-> i]
                      /\ \A x : \A n \in (i + 1)..(Len(w) + 1) :
                           FoundAt(w, i) = {[packet |-> x, next |-> n]} => F[i] = Ahead(F, x, n)
    BY Zenon DEF Scanned
  <2>1. i \in 1..(l + 1)
    BY <1>1
  <2>2. ASSUME NEW x, NEW n, FoundAt(w, i) = {[packet |-> x, next |-> n]}
        PROVE  F[i] = Ahead(F, x, n)
    BY <1>12, <2>1, <2>2, Zenon
  <2>3. \A x : \A n \in (i + 1)..(Len(w) + 1) :
          FoundAt(w, i) = {[packet |-> x, next |-> n]} => F[i] = Ahead(F, x, n)
    BY <2>2, Zenon
  <2>4. QED
    BY <1>11, <2>1, <2>3, Zenon
<1>14. QED
  BY <1>9, <1>13

(* What is left of a sequence from its first element, the next ... on      *)
LEMMA FromFacts ==
  ASSUME NEW S, NEW xs \in Seq(S)
  PROVE  /\ From(xs, 1) = xs
         /\ From(xs, Len(xs) + 1) = <<>>
         /\ \A j \in 1..Len(xs) : <<xs[j]>> \o From(xs, j + 1) = From(xs, j)
<1>1. PICK k \in Nat : k = Len(xs)
  OBVIOUS
<1>2. From(xs, 1) = xs
  BY SubSeqFull DEF From
<1>3. From(xs, Len(xs) + 1) = <<>>
  <2>1. PICK q \in Nat \ {0} : q = k + 1
    BY <1>1
  <2>2. PICK u : u = SubSeq(xs, q, k)
    OBVIOUS
  <2>3. q <= k + 1 /\ k <= Len(xs) /\ k - q + 1 = 0
    BY <1>1, <2>1
  <2>4. u \in Seq(S) /\ Len(u) = 0
    BY <2>2, <2>3, Window
  <2>5. u = <<>>
    BY <2>4
  <2>6. QED
    BY <1>1, <2>1, <2>2, <2>5 DEF From
<1>4. ASSUME NEW j \in 1..Len(xs) PROVE <<xs[j]>> \o From(xs, j + 1) = From(xs, j)
  <2>1. PICK q \in Nat \ {0} : q = j + 1
    BY <1>1
  <2>2. PICK i \in Nat \ {0} : i = j
    BY <1>1
  <2>3. q <= k + 1 /\ i <= k + 1 /\ k <= Len(xs) /\ k - i + 1 = (k - q + 1) + 1 /\ k - q + 1 \in Nat
    BY <1>1, <2>1, <2>2
  <2>4. PICK u : u = SubSeq(xs, q, k)
    OBVIOUS
  <2>5. u \in Seq(S) /\ Len(u) = k - q + 1 /\ \A m \in 1..(k - q + 1) : u[m] = xs[q + m - 1]
    BY <2>3, <2>4, Window
  <2>6. PICK v : v = SubSeq(xs, i, k)
    OBVIOUS
  <2>7. v \in Seq(S) /\ Len(v) = k - i + 1 /\ \A m \in 1..(k - i + 1) : v[m] = xs[i + m - 1]
    BY <2>3, <2>6, Window
  <2>8. PICK e \in S : e = xs[j]
    BY ElementOfSeq
  <2>9. PICK h \in Seq(S) : h = <<e>> /\ Len(h) = 1 /\ h[1] = e
    <3>1. <<e>> \in Seq(S) /\ Len(<<e>>) = 1 /\ <<e>>[1] = e
      OBVIOUS
    <3>2. QED
      BY <3>1
  <2>10. PICK c : c = h \o u
    OBVIOUS
  <2>11. /\ c \in Seq(S) /\ Len(c) = 1 + Len(u)
         /\ \A m \in 1..(1 + Len(u)) : c[m] = IF m <= 1 THEN h[m] ELSE u[m - 1]
    BY <2>5, <2>9, <2>10, ConcatProperties
  <2>12. Len(c) = Len(v)
    BY <2>3, <2>5, <2>7, <2>11
  <2>13. \A m \in 1..Len(c) : c[m] = v[m]
    <3> TAKE m \in 1..Len(c)
    <3>1. m \in 1..(1 + Len(u)) /\ m \in 1..(k - i + 1) /\ v[m] = xs[i + m - 1]
      BY <2>7, <2>11, <2>12
    <3>2. CASE m = 1
      <4>1. i + m - 1 = j
        BY <2>2, <3>2
      <4>2. QED
        BY <2>8, <2>9, <2>11, <3>1, <3>2, <4>1
    <3>3. CASE m # 1
      <4>1. m - 1 \in 1..(k - q + 1) /\ q + (m - 1) - 1 = i + m - 1 /\ ~(m <= 1)
        BY <2>1, <2>2, <2>3, <3>1, <3>3
      <4>2. u[m - 1] = xs[q + (m - 1) - 1]
        BY <2>5, <4>1
      <4>3. c[m] = u[m - 1]
        BY <2>11, <3>1, <4>1
      <4>4. QED
        BY <3>1, <4>1, <4>2, <4>3
    <3>4. QED
      BY <3>2, <3>3
  <2>14. c = v
    BY <2>7, <2>11, <2>12, <2>13, SeqEqual
  <2>15. QED
    BY <1>1, <2>1, <2>2, <2>4, <2>6, <2>8, <2>9, <2>10, <2>14 DEF From
<1>5. QED
  BY <1>2, <1>3, <1>4

(* A walk over the first r bytes, packet by packet, the j-th from p[j - 1]  *)
(* up to p[j]                                                              *)
Walk(p, xs, s, r) ==
  /\ p \in [Nat -> Nat \ {0}] /\ p[0] = 1
  /\ \A j \in 1..Len(xs) : Step(s, r, p[j - 1], xs[j], p[j])

(* ... that finds no more is what the reference finds                      *)
LEMMA ScanWalk ==
  ASSUME NEW s \in Seq(Bytes), NEW r \in Nat, r <= Len(s),
         NEW xs \in Seq(CameraPackets), NEW p, Walk(p, xs, s, r),
         Nothing(s, r, p[Len(xs)])
  PROVE  Scan(SubSeq(s, 1, r)) = [found |-> xs, next |-> p[Len(xs)]]
<1>1. PICK k \in Nat : k = Len(xs)
  OBVIOUS
<1>2. PICK w : w = SubSeq(s, 1, r)
  OBVIOUS
<1>3. w \in Seq(Bytes) /\ Len(w) = r
  <2>1. PICK one \in Nat \ {0} : one = 1
    OBVIOUS
  <2>2. one <= r + 1 /\ r - one + 1 = r
    BY <2>1
  <2>3. w \in Seq(Bytes) /\ Len(w) = r - one + 1
    BY <1>2, <2>1, <2>2, Window
  <2>4. QED
    BY <2>2, <2>3
<1>4. \A j \in Nat : p[j] \in Nat \ {0}
  BY DEF Walk
<1>5. ASSUME NEW j \in Nat, j < k
      PROVE  /\ p[j] \in 1..(r + 1) /\ p[j + 1] \in (p[j] + 1)..(r + 1)
             /\ FoundAt(w, p[j]) = {[packet |-> xs[j + 1], next |-> p[j + 1]]}
  <2>1. PICK i \in 1..Len(xs) : i = j + 1
    BY <1>1, <1>5
  <2>2. i - 1 = j
    BY <2>1
  <2>3. Step(s, r, p[j], xs[i], p[i])
    BY <2>2 DEF Walk
  <2>4. p[j] \in Nat \ {0}
    BY <1>4
  <2>5. p[j] <= r /\ p[i] \in (p[j] + 1)..(r + 1)
    BY <2>3, <2>4, StepBounds
  <2>6. p[j] \in 1..(r + 1)
    BY <2>4, <2>5
  <2>7. FoundAt(w, p[j]) = {[packet |-> xs[i], next |-> p[i]]}
    BY <1>2, <2>3, <2>6, FoundStep
  <2>8. QED
    BY <2>1, <2>5, <2>6, <2>7
<1>6. p[k] \in 1..(r + 1)
  <2>1. CASE k = 0
    BY SMTT(30), <2>1 DEF Walk
  <2>2. CASE k # 0
    <3>1. PICK j \in Nat : k = j + 1
      BY <2>2
    <3>2. j < k
      BY <3>1
    <3>3. p[j] \in Nat \ {0}
      BY <1>4
    <3>4. p[j + 1] \in (p[j] + 1)..(r + 1)
      BY <1>5, <3>2
    <3>5. QED
      BY <3>1, <3>3, <3>4
  <2>3. QED
    BY <2>1, <2>2
<1>7. PICK F : Scanned(F, w) /\ Scan(w) = F[1]
  BY <1>3, ScanExists
<1> DEFINE Tells(j) == F[p[j]] = [found |-> From(xs, j + 1), next |-> p[k]]
           N == {d \in Nat : d <= k => Tells(k - d)}
<1>8. Tells(k)
  <2>1. FoundAt(w, p[k]) = {}
    BY <1>1, <1>2, <1>6, FoundStep
  <2>2. F[p[k]] = [found |-> <<>>, next |-> p[k]]
    BY <1>3, <1>6, <1>7, <2>1 DEF Scanned
  <2>3. QED
    BY <1>1, <2>2, FromFacts
<1>9. ASSUME NEW j \in Nat, j < k, Tells(j + 1) PROVE Tells(j)
  <2>1. F[p[j]] = Ahead(F, xs[j + 1], p[j + 1])
    <3>1. PICK x : x = xs[j + 1]
      OBVIOUS
    <3>2. PICK n : n = p[j + 1]
      OBVIOUS
    <3>3. PICK i : i = p[j]
      OBVIOUS
    <3>4. i \in 1..(Len(w) + 1) /\ n \in (i + 1)..(Len(w) + 1)
      BY <1>3, <1>5, <1>9, <3>2, <3>3
    <3>5. FoundAt(w, i) = {[packet |-> x, next |-> n]}
      BY <1>5, <1>9, <3>1, <3>2, <3>3
    <3>6. F[i] = Ahead(F, x, n)
      BY ZenonT(60), <1>7, <3>4, <3>5 DEF Scanned
    <3>7. QED
      BY <3>1, <3>2, <3>3, <3>6
  <2>2. PICK i \in 1..Len(xs) : i = j + 1
    BY <1>1, <1>9
  <2>3. F[p[i]] = [found |-> From(xs, i + 1), next |-> p[k]]
    BY <1>9, <2>2
  <2>4. Ahead(F, xs[i], p[i]) = [found |-> <<xs[i]>> \o From(xs, i + 1), next |-> p[k]]
    BY <2>3 DEF Ahead
  <2>5. <<xs[i]>> \o From(xs, i + 1) = From(xs, i)
    BY FromFacts
  <2>6. QED
    BY <2>1, <2>2, <2>4, <2>5
<1> HIDE DEF Tells
<1>10. 0 \in N
  BY <1>8
<1>11. ASSUME NEW d \in Nat, d \in N PROVE d + 1 \in N
  <2> SUFFICES ASSUME d + 1 <= k PROVE Tells(k - (d + 1))
    OBVIOUS
  <2>1. PICK j \in Nat : j = k - (d + 1)
    OBVIOUS
  <2>2. j < k /\ j + 1 = k - d /\ d <= k
    BY <2>1
  <2>3. Tells(j + 1)
    BY <1>11, <2>2
  <2>4. QED
    BY <1>9, <2>1, <2>2, <2>3
<1>12. Tells(0)
  <2> HIDE DEF N
  <2>1. k \in N
    BY <1>10, <1>11, Induction
  <2>2. QED
    BY <2>1 DEF N
<1>13. F[1] = [found |-> xs, next |-> p[k]]
  <2>1. p[0] = 1 /\ 0 + 1 = 1
    BY DEF Walk
  <2>2. QED
    BY <1>12, <2>1, FromFacts DEF Tells
<1>14. QED
  BY <1>1, <1>2, <1>7, <1>13

-------------------------------------------------------------------------------
(* What was yielded is a walk over what was read, to where the buffer       *)
(* begins; once decode is done, there is nothing to go on to               *)
Path(p) ==
  /\ Walk(p, packets, stream, read)
  /\ Holding(p[Len(packets)])
  /\ ~Decoding => Nothing(stream, read, p[Len(packets)])

PathInv == \E p : Path(p)

(* It is so at first ...                                                   *)
LEMMA InitPath == Init => PathInv
<1> SUFFICES ASSUME Init PROVE PathInv
  OBVIOUS
<1>1. Peer /\ TypeOK /\ Holding(1) /\ read = 0 /\ packets = <<>>
  BY InitPeer
<1>2. PICK p : p = [j \in Nat |-> 1]
  OBVIOUS
<1>3. p \in [Nat -> Nat \ {0}] /\ p[0] = 1 /\ Len(packets) = 0
  BY <1>1, <1>2
<1>4. Walk(p, packets, stream, read)
  BY <1>3 DEF Walk
<1>5. Nothing(stream, 0, 1)
  <2>1. ~Login(stream, 0, 1)
    BY Lengths DEF Login
  <2>2. \A a, e \in Nat : ~Picture(stream, 0, 1, a, e)
    BY DEF Picture
  <2>3. QED
    BY <2>1, <2>2 DEF Nothing
<1>6. Path(p)
  BY <1>1, <1>3, <1>4, <1>5 DEF Path
<1>7. QED
  BY <1>6 DEF PathInv

(* One packet more on the way                                              *)
LEMMA WalkOn ==
  ASSUME NEW S, NEW xs \in Seq(S), NEW s, NEW r, NEW p, Walk(p, xs, s, r),
         NEW x \in S, NEW n \in Nat \ {0}, Step(s, r, p[Len(xs)], x, n)
  PROVE  \E q : /\ Walk(q, Append(xs, x), s, r)
                /\ q[Len(Append(xs, x))] = n
<1>1. PICK k \in Nat : k = Len(xs)
  OBVIOUS
<1>2. PICK ys : ys = Append(xs, x)
  OBVIOUS
<1>3. Len(ys) = k + 1 /\ ys[k + 1] = x /\ \A i \in 1..k : ys[i] = xs[i]
  BY <1>1, <1>2, AppendFacts
<1>4. PICK q : q = [p EXCEPT ![k + 1] = n]
  OBVIOUS
<1>5. /\ q \in [Nat -> Nat \ {0}] /\ q[k + 1] = n
      /\ \A j \in Nat : j # k + 1 => q[j] = p[j]
  BY <1>1, <1>4 DEF Walk
<1>6. q[0] = 1
  BY <1>1, <1>5 DEF Walk
<1>7. ASSUME NEW j \in 1..(k + 1) PROVE Step(s, r, q[j - 1], ys[j], q[j])
  <2>1. CASE j = k + 1
    <3>1. j - 1 = k /\ k # k + 1
      BY <2>1
    <3>2. q[j - 1] = p[k] /\ ys[j] = x /\ q[j] = n
      BY <1>3, <1>5, <2>1, <3>1
    <3>3. QED
      BY <1>1, <3>2
  <2>2. CASE j # k + 1
    <3>1. j \in 1..k /\ j \in Nat /\ j - 1 \in Nat /\ j - 1 # k + 1
      BY <2>2
    <3>2. q[j - 1] = p[j - 1] /\ ys[j] = xs[j] /\ q[j] = p[j]
      BY <1>3, <1>5, <2>2, <3>1
    <3>3. Step(s, r, p[j - 1], xs[j], p[j])
      BY <1>1, <3>1 DEF Walk
    <3>4. QED
      BY <3>2, <3>3
  <2>3. QED
    BY <2>1, <2>2
<1>8. Walk(q, ys, s, r)
  BY <1>3, <1>5, <1>6, <1>7 DEF Walk
<1>9. QED
  BY <1>2, <1>3, <1>5, <1>8

(* ... and stays so                                                        *)
LEMMA PathStep ==
  ASSUME NoPictureInLogin, StreamInv, PathInv, [Next]_vars
  PROVE  PathInv'
<1>1. UNCHANGED <<sending, stream>> /\ StreamInv'
  BY StreamStep
<1>2. PICK p : Path(p)
  BY DEF PathInv
<1>3. TypeOK /\ Peer /\ stream \in Seq(Bytes) /\ packets \in Seq(CameraPackets)
  BY DEF StreamInv, TypeOK
<1>4. PICK b : b = p[Len(packets)]
  OBVIOUS
<1>5. /\ Walk(p, packets, stream, read) /\ Holding(b)
      /\ ~Decoding => Nothing(stream, read, b)
  BY <1>2, <1>4 DEF Path
<1> SUFFICES \E q : Path(q)'
  BY DEF PathInv
<1>6. CASE Idle
  <2>1. UNCHANGED <<read, buffer, packets>>
        /\ (~Decoding' /\ Decoding => ~IsAuth(buffer) /\ ~IsJpeg(buffer))
    BY <1>3, <1>6, IdleFacts
  <2>2. ASSUME ~Decoding' PROVE Nothing(stream, read, b)
    <3>1. CASE Decoding
      BY <1>3, <1>5, <2>1, <2>2, <3>1, DecodesNothing
    <3>2. CASE ~Decoding
      BY <1>5, <3>2
    <3>3. QED
      BY <3>1, <3>2
  <2>3. Holding(b)'
    BY <1>1, <1>5, <2>1 DEF Holding
  <2>4. Path(p)'
    BY <1>1, <1>4, <1>5, <2>1, <2>2, <2>3 DEF Path, Holding
  <2>5. QED
    BY <2>4
<1>7. CASE DecodeAuth \/ DecodeJpeg
  <2>1. PICK x, n : /\ Step(stream, read, b, x, n)
                    /\ packets' = Append(packets, x) /\ x \in CameraPackets
                    /\ UNCHANGED read
                    /\ Decoding' /\ Holding(n)'
    BY <1>3, <1>5, <1>7, FoundFacts
  <2>2. n \in Nat \ {0}
    BY <1>1, <2>1 DEF Holding, StreamInv, TypeOK
  <2>3. PICK q : /\ Walk(q, Append(packets, x), stream, read)
                 /\ q[Len(Append(packets, x))] = n
    BY <1>3, <1>4, <1>5, <2>1, <2>2, WalkOn
  <2>4. Walk(q, packets, stream, read)' /\ (q[Len(packets)] = n)'
    BY <1>1, <2>1, <2>3
  <2>5. Path(q)'
    BY <2>1, <2>4 DEF Path, Holding
  <2>6. QED
    BY <2>5
<1>8. CASE \E n \in 1..(Len(stream) - read) : Receive(n)
  <2>1. PICK n \in 1..(Len(stream) - read) : Receive(n)
    BY <1>8
  <2>2. /\ UNCHANGED packets /\ Decoding' /\ Holding(b)'
        /\ read' = read + n /\ read' \in Nat /\ read' <= Len(stream)
    BY <1>3, <1>5, <2>1, ReceiveFacts
  <2>3. PICK r \in Nat : r = read'
    BY <2>2
  <2>4. read \in Nat /\ read <= r /\ r <= Len(stream)
    BY <1>3, <2>2, <2>3 DEF TypeOK
  <2>5. ASSUME NEW j \in 1..Len(packets) PROVE Step(stream, r, p[j - 1], packets[j], p[j])
    <3>1. Step(stream, read, p[j - 1], packets[j], p[j]) /\ p[j - 1] \in Nat \ {0}
      BY <1>5 DEF Walk
    <3>2. QED
      BY <1>3, <2>4, <3>1, StepStable
  <2>6. Walk(p, packets, stream, r)
    BY <1>5, <2>5 DEF Walk
  <2>7. Walk(p, packets, stream, read)'
    BY <1>1, <2>2, <2>3, <2>6
  <2>8. Path(p)'
    BY <1>4, <2>2, <2>7 DEF Path, Holding
  <2>9. QED
    BY <2>8
<1>9. CASE UNCHANGED vars
  <2>1. UNCHANGED <<sending, stream, read, buffer, packets, state>>
    BY <1>1, <1>9 DEF vars
  <2>2. Path(p)'
    BY <1>2, <2>1 DEF Path, Holding, Decoding
  <2>3. QED
    BY <2>2
<1>10. QED
  BY <1>6, <1>7, <1>8, <1>9, Steps

(* Wherever the connection cuts the bytes, decode finds in the pieces what  *)
(* there is to find in the whole, and keeps what is left                   *)
THEOREM CutAnywhere == NoPictureInLogin => (Spec => []ChunkIndependent)
<1> SUFFICES ASSUME NoPictureInLogin PROVE Spec => []ChunkIndependent
  OBVIOUS
<1>1. Init => PathInv
  BY InitPath
<1>2. StreamInv /\ PathInv /\ [Next]_vars => PathInv'
  BY PathStep
<1>3. StreamInv /\ PathInv => ChunkIndependent
  <2> SUFFICES ASSUME StreamInv, PathInv, ~Decoding
               PROVE  LET seen == Scan(SubSeq(stream, 1, read))
                      IN /\ packets = seen.found
                         /\ buffer = SubSeq(stream, seen.next, read)
    BY DEF ChunkIndependent
  <2>1. PICK p : Path(p)
    BY DEF PathInv
  <2>2. /\ stream \in Seq(Bytes) /\ packets \in Seq(CameraPackets)
        /\ read \in Nat /\ read <= Len(stream)
    BY DEF StreamInv, TypeOK
  <2>3. /\ Walk(p, packets, stream, read) /\ Holding(p[Len(packets)])
        /\ Nothing(stream, read, p[Len(packets)])
    BY <2>1 DEF Path
  <2>4. Scan(SubSeq(stream, 1, read)) = [found |-> packets, next |-> p[Len(packets)]]
    BY <2>2, <2>3, ScanWalk
  <2>5. PICK z : z = Scan(SubSeq(stream, 1, read))
    OBVIOUS
  <2>6. z.found = packets /\ z.next = p[Len(packets)]
    BY <2>4, <2>5
  <2>7. packets = z.found /\ buffer = SubSeq(stream, z.next, read)
    BY <2>3, <2>6 DEF Holding
  <2>8. QED
    BY <2>5, <2>7
<1>4. QED
  BY <1>1, <1>2, <1>3, StreamInvariant, PTL DEF Spec
===============================================================================
