-------------------------------- MODULE FtpProofs --------------------------------
(***************************************************************************)
(* What TLAPS proves of a session of FtpSession, for every set of listings,*)
(* every behaviour of the server's that `peer` allows, every text of a 227 *)
(* and every length of an aborted line.                                    *)
(***************************************************************************)
EXTENDS FtpProperties, FileListProofs, FtpReplyProofs

-------------------------------------------------------------------------------
(* The script of the session, spelt out                                    *)
LEMMA ScriptIs ==
  /\ Len(Script) = 9
  /\ Script[1] = "USER" /\ Script[2] = "PASS" /\ Script[3] = "PBSZ"
  /\ Script[4] = "PROT" /\ Script[5] = "PWD" /\ Script[6] = "PASV"
  /\ Script[7] = "LIST" /\ Script[8] = "QUIT" /\ Script[9] = "QUIT"
BY DEF Script

(* The codes of each command *)
LEMMA AcceptsIs ==
  /\ Accepts["USER"] = {331} /\ Accepts["PASS"] = {230} /\ Accepts["PBSZ"] = {200}
  /\ Accepts["PROT"] = {200} /\ Accepts["PWD"] = {257} /\ Accepts["PASV"] = {227}
  /\ Accepts["LIST"] = {150} /\ Accepts["QUIT"] = {221, 226}
  /\ DOMAIN Accepts = {"USER", "PASS", "PBSZ", "PROT", "PWD", "PASV", "LIST", "QUIT"}
BY DEF Accepts

(* The codes of each step: which ones tell the steps apart *)
LEMMA StepAccepts ==
  ASSUME NEW s \in 1..Len(Script)
  PROVE  /\ s \in 1..9 /\ s \in Nat
         /\ Accepts[Script[s]] \subseteq Codes
         /\ Script[s] \in {"LIST", "QUIT"} <=> s \in {7, 8, 9}
         /\ Script[s] = "LIST" <=> s = 7
         /\ Script[s] = "QUIT" <=> s \in {8, 9}
         /\ 227 \in Accepts[Script[s]] <=> s = 6
         /\ s < 7 => 221 \notin Accepts[Script[s]] /\ 226 \notin Accepts[Script[s]]
         /\ s = 7 => Accepts[Script[s]] = {150}
         /\ s > 7 => Accepts[Script[s]] = {221, 226}
<1>1. s \in 1..9
  BY ScriptIs
<1>2. s = 1 \/ s = 2 \/ s = 3 \/ s = 4 \/ s = 5 \/ s = 6 \/ s = 7 \/ s = 8 \/ s = 9
  BY <1>1
<1>3. Script[s] \in DOMAIN Accepts
  BY <1>2, ScriptIs, AcceptsIs
<1>4. Accepts[Script[s]] \subseteq Codes
  BY <1>3 DEF Codes
<1>5. QED
  BY <1>1, <1>2, <1>4, ScriptIs, AcceptsIs

(* Codes the server says of its own *)
LEMMA SomeCodes == {0, 150, 220, 221, 226, 227, 500} \subseteq Codes
<1>1. {150, 221, 227} \subseteq UNION {Accepts[c] : c \in DOMAIN Accepts}
  <2>1. 150 \in Accepts["LIST"] /\ 221 \in Accepts["QUIT"] /\ 227 \in Accepts["PASV"]
    BY AcceptsIs
  <2>2. "LIST" \in DOMAIN Accepts /\ "QUIT" \in DOMAIN Accepts /\ "PASV" \in DOMAIN Accepts
    BY AcceptsIs
  <2>3. QED
    BY <2>1, <2>2
<1>2. QED
  BY <1>1 DEF Codes

(* from_response_string yields addresses *)
LEMMA PassiveType ==
  ASSUME NEW text
  PROVE  Passive(text) \subseteq Addresses
<1> SUFFICES ASSUME NEW p \in Fields(text)
             PROVE  [ip |-> [i \in 1..4 |-> p[i][1]], port |-> p[5][1] * 256 + p[6][1]] \in Addresses
  BY DEF Passive
<1>1. \A i \in 1..4 : p[i][1] \in 0..MaxU8
  BY DEF Fields, Parses
<1>2. p[5][1] \in 0..MaxU16 /\ p[6][1] \in 0..MaxU16
  BY DEF Fields, Parses
<1>3. p[5][1] * 256 + p[6][1] \in Nat
  <2>1. \A x, y \in Nat : x * 256 + y \in Nat
    OBVIOUS
  <2>2. \A x \in 0..MaxU16 : x \in Nat
    OBVIOUS
  <2>3. p[5][1] \in Nat /\ p[6][1] \in Nat
    BY <1>2, <2>2
  <2>4. QED
    BY <2>1, <2>3
<1>4. QED
  BY <1>1, <1>3 DEF Addresses

(* The address that a valid 227 gives, modulo what a port can hold         *)
LEMMA SocketAddrIs ==
  ASSUME NEW r, Passive(r.text) # {}
  PROVE  /\ SocketAddr(r) \in Addresses
         /\ \E a \in Passive(r.text) :
              SocketAddr(r) = IF a.ip = Unspecified
                              THEN [Wrapped(a) EXCEPT !.ip = Home.ip] ELSE Wrapped(a)
<1> DEFINE W == {Wrapped(q) : q \in Passive(r.text)}
           a == CHOOSE x \in W : TRUE
<1>1. a \in W
  OBVIOUS
<1>2. PICK q \in Passive(r.text) : a = Wrapped(q)
  BY <1>1
<1>3. q \in Addresses
  BY PassiveType
<1>4. q.port % (MaxU16 + 1) \in Nat
  BY <1>3 DEF Addresses, MaxU16
<1>5. Wrapped(q) \in Addresses /\ Wrapped(q).ip = q.ip
  BY <1>3, <1>4 DEF Addresses, Wrapped
<1>6. Home.ip \in [1..4 -> 0..MaxU8]
  BY FtpAssumption DEF Addresses
<1>7. SocketAddr(r) = IF a.ip = Unspecified THEN [a EXCEPT !.ip = Home.ip] ELSE a
  BY DEF SocketAddr
<1>8. SocketAddr(r) = IF q.ip = Unspecified THEN [Wrapped(q) EXCEPT !.ip = Home.ip] ELSE Wrapped(q)
  BY <1>2, <1>5, <1>7
<1>9. [Wrapped(q) EXCEPT !.ip = Home.ip] \in Addresses
  BY <1>5, <1>6 DEF Addresses
<1>10. QED
  BY <1>5, <1>8, <1>9

(* A text that a server may put into a reply                               *)
LEMMA TextType == \A code \in Codes : \A text \in Texts(code) : text \in Seq(Int)
<1>1. Quote(Home) \in Seq(Int) /\ Quote([Home EXCEPT !.ip = Unspecified]) \in Seq(Int)
  <2>1. Unspecified \in [1..4 -> 0..MaxU8]
    BY DEF Unspecified, MaxU8
  <2>2. Home \in Addresses /\ [Home EXCEPT !.ip = Unspecified] \in Addresses
    BY <2>1, FtpAssumption DEF Addresses
  <2>3. QED
    BY <2>2, QuoteIs
<1>2. Quotes \subseteq Seq(Int) /\ Misquotes \subseteq Seq(Int) /\ <<>> \in Seq(Int)
  BY <1>1, FtpAssumption DEF Quotes
<1>3. \A code \in Codes : Texts(code) = {<<>>} \/ Texts(code) = Quotes \cup Misquotes \/ Texts(code) = Quotes
  BY DEF Texts
<1>4. QED
  BY <1>2, <1>3

-------------------------------------------------------------------------------
(* What the nine bits of a mode are                                        *)
Bit(o, i) == (o \div <<256, 128, 64, 32, 16, 8, 4, 2, 1>>[i]) % 2

(* The bits of an octal mode whose three digits are the same *)
LEMMA Bits ==
  ASSUME NEW r \in {0, 1}, NEW w \in {0, 1}, NEW x \in {0, 1},
         NEW o, o = 292 * r + 146 * w + 73 * x
  PROVE  /\ Bit(o, 1) = r /\ Bit(o, 4) = r /\ Bit(o, 7) = r
         /\ Bit(o, 2) = w /\ Bit(o, 5) = w /\ Bit(o, 8) = w
         /\ Bit(o, 3) = x /\ Bit(o, 6) = x /\ Bit(o, 9) = x
<1>1. o \in {0, 73, 146, 219, 292, 365, 438, 511}
  OBVIOUS
<1>2. /\ (o \div 256) % 2 = r /\ (o \div 32) % 2 = r /\ (o \div 4) % 2 = r
  OBVIOUS
<1>3. /\ (o \div 128) % 2 = w /\ (o \div 16) % 2 = w /\ (o \div 2) % 2 = w
  OBVIOUS
<1>4. /\ (o \div 64) % 2 = x /\ (o \div 8) % 2 = x /\ (o \div 1) % 2 = x
  OBVIOUS
<1>5. QED
  BY <1>2, <1>3, <1>4 DEF Bit

(* The three bits of the same right *)
LEMMA Thirds ==
  ASSUME NEW i \in 1..9
  PROVE  /\ i \in {1, 4, 7} => {j \in 1..9 : (j - i) % 3 = 0} = {1, 4, 7}
         /\ i \in {2, 5, 8} => {j \in 1..9 : (j - i) % 3 = 0} = {2, 5, 8}
         /\ i \in {3, 6, 9} => {j \in 1..9 : (j - i) % 3 = 0} = {3, 6, 9}
         /\ i \in {1, 4, 7} \/ i \in {2, 5, 8} \/ i \in {3, 6, 9}
<1>1. \A j \in 1..9 : j \in {1, 2, 3, 4, 5, 6, 7, 8, 9}
  OBVIOUS
<1>2. ASSUME i \in {1, 4, 7} PROVE {j \in 1..9 : (j - i) % 3 = 0} = {1, 4, 7}
  <2>1. \A j \in 1..9 : (j - i) % 3 = 0 <=> j \in {1, 4, 7}
    BY <1>2
  <2>2. QED
    BY <2>1
<1>3. ASSUME i \in {2, 5, 8} PROVE {j \in 1..9 : (j - i) % 3 = 0} = {2, 5, 8}
  <2>1. \A j \in 1..9 : (j - i) % 3 = 0 <=> j \in {2, 5, 8}
    BY <1>3
  <2>2. QED
    BY <2>1
<1>4. ASSUME i \in {3, 6, 9} PROVE {j \in 1..9 : (j - i) % 3 = 0} = {3, 6, 9}
  <2>1. \A j \in 1..9 : (j - i) % 3 = 0 <=> j \in {3, 6, 9}
    BY <1>4
  <2>2. QED
    BY <2>1
<1>5. QED
  BY <1>1, <1>2, <1>3, <1>4

(* The rights that a line reports are those that everyone has              *)
LEMMA Rights ==
  ASSUME NEW mode
  PROVE  \A i \in 1..9 :
           Bit(to_octal(from_chmod(mode)), i) = 1
             <=> {j \in 1..9 : (j - i) % 3 = 0} \subseteq mode
<1> DEFINE r == IF {1, 4, 7} \subseteq mode THEN 1 ELSE 0
           w == IF {2, 5, 8} \subseteq mode THEN 1 ELSE 0
           x == IF {3, 6, 9} \subseteq mode THEN 1 ELSE 0
           o == to_octal(from_chmod(mode))
<1>1. r \in {0, 1} /\ w \in {0, 1} /\ x \in {0, 1}
  OBVIOUS
<1>2. o = 292 * r + 146 * w + 73 * x
  <2>1. o = (IF {1, 4, 7} \subseteq mode THEN 292 ELSE 0) + (IF {2, 5, 8} \subseteq mode THEN 146 ELSE 0)
            + (IF {3, 6, 9} \subseteq mode THEN 73 ELSE 0)
    <3>1. PICK p : p = from_chmod(mode)
      OBVIOUS
    <3>2. /\ p.readable <=> {1, 4, 7} \subseteq mode
          /\ p.writable <=> {2, 5, 8} \subseteq mode
          /\ p.executable <=> {3, 6, 9} \subseteq mode
      BY <3>1 DEF from_chmod
    <3>3. to_octal(p) = (IF {1, 4, 7} \subseteq mode THEN 292 ELSE 0)
            + (IF {2, 5, 8} \subseteq mode THEN 146 ELSE 0)
            + (IF {3, 6, 9} \subseteq mode THEN 73 ELSE 0)
      BY <3>2 DEF to_octal
    <3>4. QED
      BY <3>1, <3>3
  <2> HIDE DEF o
  <2>2. /\ 292 * r = IF {1, 4, 7} \subseteq mode THEN 292 ELSE 0
        /\ 146 * w = IF {2, 5, 8} \subseteq mode THEN 146 ELSE 0
        /\ 73 * x = IF {3, 6, 9} \subseteq mode THEN 73 ELSE 0
    OBVIOUS
  <2> HIDE DEF r, w, x
  <2>3. QED
    BY <2>1, <2>2
<1> HIDE DEF o
<1>3. /\ r = 1 <=> {1, 4, 7} \subseteq mode
      /\ w = 1 <=> {2, 5, 8} \subseteq mode
      /\ x = 1 <=> {3, 6, 9} \subseteq mode
  OBVIOUS
<1> HIDE DEF r, w, x
<1>4. /\ Bit(o, 1) = r /\ Bit(o, 4) = r /\ Bit(o, 7) = r
      /\ Bit(o, 2) = w /\ Bit(o, 5) = w /\ Bit(o, 8) = w
      /\ Bit(o, 3) = x /\ Bit(o, 6) = x /\ Bit(o, 9) = x
  BY <1>1, <1>2, Bits
<1>5. ASSUME NEW i \in 1..9
      PROVE  Bit(o, i) = 1 <=> {j \in 1..9 : (j - i) % 3 = 0} \subseteq mode
  <2>1. CASE i \in {1, 4, 7}
    <3>1. Bit(o, i) = r
      BY <1>4, <2>1
    <3>2. QED
      BY <1>3, <2>1, <3>1, Thirds
  <2>2. CASE i \in {2, 5, 8}
    <3>1. Bit(o, i) = w
      BY <1>4, <2>2
    <3>2. QED
      BY <1>3, <2>2, <3>1, Thirds
  <2>3. CASE i \in {3, 6, 9}
    <3>1. Bit(o, i) = x
      BY <1>4, <2>3
    <3>2. QED
      BY <1>3, <2>3, <3>1, Thirds
  <2>4. QED
    BY <2>1, <2>2, <2>3, Thirds
<1>6. QED
  BY <1>5 DEF o

(* A name with single blanks is what its words are joined to               *)
LEMMA TidyJoin ==
  ASSUME NEW name \in Seq(Words), Tidy(name)
  PROVE  Join(Split(name)) = name
<1>1. PICK k \in Nat : k >= 1 /\ Len(name) = 2 * k - 1
  <2>1. PICK n \in Nat : n = Len(name)
    OBVIOUS
  <2>2. n % 2 = 1
    BY <2>1 DEF Tidy
  <2>3. (n + 1) \div 2 \in Nat /\ (n + 1) \div 2 >= 1 /\ n = 2 * ((n + 1) \div 2) - 1
    BY <2>2
  <2>4. QED
    BY <2>1, <2>3
<1>2. \A i \in 1..(2 * k - 1) : name[i] \in Words /\ (name[i] = Blank <=> i % 2 = 0)
  BY <1>1, ElementOfSeq DEF Tidy
<1>3. \A j \in 1..k : 2 * j - 1 \in 1..(2 * k - 1) /\ (2 * j - 1) % 2 = 1
  BY <1>1
<1>4. PICK q \in Seq(Words) : Len(q) = k /\ \A j \in 1..k : q[j] = name[2 * j - 1]
  <2>1. \A j \in 1..k : name[2 * j - 1] \in Words
    BY <1>2, <1>3
  <2>2. PICK q : q = [j \in 1..k |-> name[2 * j - 1]]
    OBVIOUS
  <2>3. q \in Seq(Words) /\ Len(q) = k
    BY <2>1, <2>2, IsASeq
  <2>4. QED
    BY <2>2, <2>3
<1>5. \A j \in 1..Len(q) : q[j] # Blank
  BY <1>2, <1>3, <1>4
<1>6. PICK s \in Seq(Words) : s = Join(q) /\ Len(s) = 2 * k - 1
  BY <1>1, <1>4, JoinType
<1>7. \A i \in 1..(2 * k - 1) : s[i] = IF i % 2 = 1 THEN q[(i + 1) \div 2] ELSE Blank
  BY <1>4, <1>6 DEF Join
<1>8. \A i \in 1..(2 * k - 1) : s[i] = name[i]
  <2> SUFFICES ASSUME NEW i \in 1..(2 * k - 1) PROVE s[i] = name[i]
    OBVIOUS
  <2>1. CASE i % 2 = 1
    <3>1. PICK j \in 1..k : j = (i + 1) \div 2 /\ i = 2 * j - 1
      BY <1>1, <2>1
    <3>2. QED
      BY <1>4, <1>7, <2>1, <3>1
  <2>2. CASE i % 2 # 1
    <3>1. i % 2 = 0
      BY <2>2
    <3>2. QED
      BY <1>2, <1>7, <2>2, <3>1
  <2>3. QED
    BY <2>1, <2>2
<1>9. s = name
  BY <1>1, <1>6, <1>8, SeqEqual
<1>10. QED
  BY <1>5, <1>6, <1>9, SplitJoin

(* A line that is read whole describes its file                            *)
LEMMA Described ==
  ASSUME NEW e \in Entries, NEW t \in Nat, NEW today \in Nat,
         NEW n \in 0..Len(Line(e, t)), n = Len(Line(e, t)),
         NEW m \in from_str(SubSeq(Line(e, t), 1, n), today)
  PROVE  Describes(m, e)
<1>1. /\ m.chmod = from_chmod(e.mode) /\ m.size = e.size
      /\ e.user = <<Plain("text", m.user)>> /\ e.group = <<Plain("text", m.group)>>
      /\ m.filename = Join(Split(e.name))
  BY LineRead
<1>2. PICK q \in Seq(Words) : q = Split(e.name)
  BY SplitType DEF Entries
<1>3. \A i \in 1..Len(q) : q[i] # Blank
  BY <1>2, SplitWords DEF Entries
<1>4. Split(m.filename) = Split(e.name)
  <2>1. Split(Join(q)) = q
    BY <1>3, SplitJoin
  <2>2. QED
    BY <1>1, <1>2, <2>1
<1>5. \A i \in 1..(Len(m.filename) - 1) : m.filename[i] # Blank \/ m.filename[i + 1] # Blank
  <2>1. PICK k \in Nat : k = Len(q)
    OBVIOUS
  <2>2. CASE k = 0
    <3>1. q = <<>>
      BY <2>1, <2>2, EmptySeq
    <3>2. Len(Join(q)) = 0
      BY <3>1, JoinType
    <3>3. Len(m.filename) = 0
      BY <1>1, <1>2, <3>2
    <3>4. QED
      BY <3>3
  <2>3. CASE k # 0
    <3>1. Len(m.filename) = 2 * k - 1
      BY <1>1, <1>2, <2>1, <2>3, JoinType
    <3>2. \A i \in 1..(2 * k - 1) : m.filename[i] = IF i % 2 = 1 THEN q[(i + 1) \div 2] ELSE Blank
      BY <1>1, <1>2, <2>1 DEF Join
    <3>3. \A i \in 1..(2 * k - 1) : i % 2 = 1 => (i + 1) \div 2 \in 1..k
      BY <2>1
    <3>4. \A i \in 1..(2 * k - 1) : i % 2 = 1 => m.filename[i] # Blank
      BY <1>3, <2>1, <3>2, <3>3
    <3>5. \A i \in 1..((2 * k - 1) - 1) : /\ i \in 1..(2 * k - 1) /\ i + 1 \in 1..(2 * k - 1)
                                          /\ i % 2 = 1 \/ (i + 1) % 2 = 1
      BY <2>1
    <3>6. QED
      BY <3>1, <3>4, <3>5
  <2>4. QED
    BY <2>2, <2>3
<1>6. \A i \in 1..9 :
        LET bit == (to_octal(m.chmod) \div <<256, 128, 64, 32, 16, 8, 4, 2, 1>>[i]) % 2
        IN bit = 1 <=> {j \in 1..9 : (j - i) % 3 = 0} \subseteq e.mode
  BY SMTT(30), <1>1, Rights DEF Bit
<1>7. Tidy(e.name) => m.filename = e.name
  BY <1>1, TidyJoin DEF Entries
<1>8. QED
  BY <1>1, <1>4, <1>5, <1>6, <1>7 DEF Describes

-------------------------------------------------------------------------------
(* The inductive invariant                                                 *)

(* How many replies the client has read, and the last command it has sent   *)
NumRead ==
  IF pc \in {"connect", "welcome"} THEN 0
  ELSE IF pc \in {"send", "reply"} THEN step ELSE step + 1

LastSent ==
  IF pc \in {"connect", "welcome"} THEN 0
  ELSE IF pc = "send" THEN step - 1 ELSE step

(* The command that the k-th reply of a session answers: LIST has two       *)
Answered(k) == IF k <= ListStep + 1 THEN k - 1 ELSE k - 2

Said == NumRead + Len(replies)
Taken == LastSent - Len(sent)

(* A server that will not list says so to a client that waits for it       *)
NotListed ==
  /\ Said = ListStep + 1 /\ Taken = ListStep
  /\ pc = "reply" /\ step = ListStep /\ replies[1].code \in {0, 500}

InTurn ==
  /\ \A i \in 1..Len(replies) : replies[i].to = Answered(NumRead + i)
  /\ server # "gone" => \A i \in 1..Len(sent) : sent[i] = Taken + i
  /\ server = "greeting" => Said = 0 /\ Taken = 0
  /\ server = "ready" => (Said \in 1..ListStep /\ Taken = Said - 1) \/ NotListed
  /\ server = "opening" => Said = ListStep /\ Taken = ListStep
  /\ server = "sending" => Said = ListStep + 1 /\ Taken = ListStep
  /\ server = "done" => Said = ListStep + 2 /\ Taken = ListStep

Turns ==
  /\ server = "gone" <=> control # "open"
  /\ pc = "connect" => server = "greeting"
  /\ pc \in {"connect", "welcome"} => step = 1
  /\ pc \in {"dial", "read"} => step = ListStep
  /\ pc # "returned" => InTurn

Means(r) ==
  /\ r.code = 226 => served = Len(listing)
  /\ r.code = 221 => r.to > ListStep
  /\ r.code = 227 /\ ~MayMisquote => r.text \in Quotes

Truthful == \A i \in 1..Len(replies) : Means(replies[i])

(* `line` is what a server wrote of the i-th entry, or the beginning of it  *)
(* if that entry is not among the first s                                  *)
Wrote(line, i, s) ==
  \E t \in FirstMonth..LastMonth : \E n \in 0..Len(Line(listing[i], t)) :
    /\ line = SubSeq(Line(listing[i], t), 1, n)
    /\ i <= s => n = Len(Line(listing[i], t))

(* ... and `m` is right about it                                           *)
Right(m, i, s) == i <= s => Describes(m, listing[i])

Delivery ==
  /\ listing \in Listings
  /\ Len(lines) + Len(wire) \in {served, served + 1}
  /\ Len(lines) + Len(wire) = served + 1 =>
       served < Len(listing) /\ server \in {"done", "gone"}
  /\ \A i \in 1..Len(lines) : Right(lines[i], i, served)
  /\ \A i \in 1..Len(wire) : Wrote(wire[i], Len(lines) + i, served)

Progress ==
  /\ step > ListStep => wire = <<>> /\ data = "eof"
  /\ step > ListStep + 1 => served = Len(listing)
  /\ result = "ok" => step = Len(Script) /\ pc = "returned"
  /\ step >= ListStep /\ ~MayMisquote => address = Home

SessionInv == TypeOK /\ Turns /\ Truthful /\ Delivery /\ Progress

-------------------------------------------------------------------------------
(* The steps of which get_files gives up: all they change is that it has   *)
(* returned, and perhaps that a reply was read.                            *)
GivesUp ==
  /\ pc # "returned" /\ pc' = "returned" /\ result' \in {"err", "panic"}
  /\ UNCHANGED replies \/ (replies # <<>> /\ replies' = Tail(replies))
  /\ UNCHANGED <<step, lines, address, setting, sent, control, dat, srv>>

(* What the client does when it fails: it closes, and nothing else changes *)
LEMMA GivingUp ==
  \/ ConnectFails \/ WelcomeFails \/ SendFails \/ ReplyFails \/ ReplyPanics \/ Refused
  \/ DialFails \/ ReadFails
  => GivesUp
<1> USE DEF GivesUp, Return, Fail, ctl
<1>1. ConnectFails => GivesUp
  BY DEF ConnectFails
<1>2. WelcomeFails => GivesUp
  BY DEF WelcomeFails
<1>3. SendFails => GivesUp
  BY DEF SendFails
<1>4. ReplyFails => GivesUp
  BY DEF ReplyFails
<1>5. ReplyPanics => GivesUp
  BY DEF ReplyPanics, TakeReply
<1>6. Refused => GivesUp
  BY DEF Refused, TakeReply
<1>7. DialFails => GivesUp
  BY DEF DialFails
<1>8. ReadFails => GivesUp
  BY DEF ReadFails
<1>9. QED
  BY <1>1, <1>2, <1>3, <1>4, <1>5, <1>6, <1>7, <1>8

(* Every step is one of these                                              *)
LEMMA Steps ==
  ASSUME [Next]_vars
  PROVE  \/ GivesUp
         \/ Connect \/ Welcome \/ Send \/ Accepted \/ Dial \/ ReadLine \/ ReadEnds
         \/ \E code \in Codes : Greet(code) \/ RefuseListing(code)
         \/ \E code \in Codes : \E text \in Texts(code) : Obey(code, text)
         \/ OpenListing \/ StartListing \/ Goodbye
         \/ SendLine \/ CloseData \/ ConfirmListing
         \/ \E words \in Aborts : AbortListing(words)
         \/ Vanish \/ Reset \/ Tick \/ UNCHANGED vars
BY GivingUp DEF Next, Client, Answers, Transfers

(* What a server says is a reply                                           *)
LEMMA SayType ==
  ASSUME TypeOK, NEW code \in Codes, NEW to \in 0..Len(Script), NEW text \in Seq(Int),
         Say(code, to, text)
  PROVE  /\ replies' \in Seq(Replies) /\ Len(replies') = Len(replies) + 1
         /\ \A i \in 1..Len(replies) : replies'[i] = replies[i]
         /\ replies'[Len(replies) + 1] = [code |-> code, to |-> to, text |-> text]
         /\ replies'[Len(replies) + 1].code = code
         /\ replies'[Len(replies) + 1].to = to
         /\ replies'[Len(replies) + 1].text = text
<1>1. PICK r \in Replies : r = [code |-> code, to |-> to, text |-> text]
  BY DEF Replies
<1>2. replies' = Append(replies, r) /\ replies \in Seq(Replies)
  BY <1>1 DEF Say, TypeOK
<1>3. r.code = code /\ r.to = to /\ r.text = text
  BY <1>1
<1>4. QED
  BY <1>1, <1>2, <1>3, AppendFacts

(* The types of the initial state *)
LEMMA InitTypeOK == Init => TypeOK
<1> SUFFICES ASSUME Init PROVE TypeOK
  OBVIOUS
<1> USE DEF Init
<1>1. address \in Addresses
  <2>1. Unspecified \in [1..4 -> 0..MaxU8]
    BY DEF Unspecified, MaxU8
  <2>2. QED
    BY <2>1 DEF Addresses
<1>2. step \in 1..Len(Script)
  BY ScriptIs
<1>3. peer \subseteq Habits /\ listing \in Seq(Entries)
  BY FtpAssumption
<1>4. now \in Clocks
  BY DEF Clocks
<1>5. served \in 0..Len(listing)
  BY <1>3
<1>6. /\ lines \in Seq(Metadata) /\ sent \in Seq(1..Len(Script)) /\ replies \in Seq(Replies)
      /\ wire \in Seq(Seq(Words))
  OBVIOUS
<1>7. QED
  BY <1>1, <1>2, <1>3, <1>4, <1>5, <1>6 DEF TypeOK

(* Sending a part of a line, or none of it                                 *)
LEMMA LinePart ==
  ASSUME TypeOK, served < Len(listing)
  PROVE  /\ served + 1 \in 1..Len(listing) /\ listing[served + 1] \in Entries
         /\ Line(listing[served + 1], now.server) \in Seq(Words)
         /\ \A n \in Nat : n <= Len(Line(listing[served + 1], now.server)) =>
              SubSeq(Line(listing[served + 1], now.server), 1, n) \in Seq(Words)
<1>1. listing \in Seq(Entries) /\ served \in 0..Len(listing) /\ now.server \in Nat
  BY FtpAssumption DEF TypeOK, Clocks
<1>2. served + 1 \in 1..Len(listing)
  BY <1>1
<1>3. listing[served + 1] \in Entries
  BY <1>1, <1>2, ElementOfSeq
<1>4. PICK line \in Seq(Words) : line = Line(listing[served + 1], now.server)
  BY <1>1, <1>3, LineType
<1>5. ASSUME NEW n \in Nat, n <= Len(line) PROVE SubSeq(line, 1, n) \in Seq(Words)
  <2>1. \A i \in 1..n : line[i] \in Words
    BY <1>5, ElementOfSeq
  <2>2. QED
    BY <2>1, SubSeqProperties
<1>6. QED
  BY <1>2, <1>3, <1>4, <1>5

(* A reply that is accepted leaves an address                              *)
LEMMA NoteType ==
  ASSUME TypeOK, NEW r, ~Rejected(r), Note(r)
  PROVE  address' \in Addresses
<1>1. CASE r.code = 227
  <2>1. Passive(r.text) # {}
    BY <1>1 DEF Rejected
  <2>2. SocketAddr(r) \in Addresses
    BY <2>1, SocketAddrIs
  <2>3. QED
    BY <1>1, <2>2 DEF Note
<1>2. CASE r.code # 227
  BY <1>2 DEF Note, TypeOK
<1>3. QED
  BY <1>1, <1>2

(* The steps of the client keep the types *)
LEMMA ClientTypeOK ==
  ASSUME TypeOK, Turns,
         GivesUp \/ Connect \/ Welcome \/ Send \/ Accepted \/ Dial \/ ReadLine \/ ReadEnds
  PROVE  TypeOK'
<1> USE DEF client, setting, ctl, dat, srv
<1>0. step \in 1..9 /\ Len(Script) = 9
  BY ScriptIs DEF TypeOK
<1>1. replies # <<>> => Tail(replies) \in Seq(Replies)
  BY TailFacts DEF TypeOK
<1>2. CASE GivesUp
  BY ZenonT(60), <1>1, <1>2 DEF GivesUp, TypeOK
<1>3. CASE Connect
  BY <1>3 DEF Connect, TypeOK
<1>4. CASE Welcome
  BY ZenonT(60), <1>1, <1>4 DEF Welcome, TakeReply, TypeOK
<1>5. CASE Send
  <2>1. Append(sent, step) \in Seq(1..Len(Script))
    BY AppendFacts DEF TypeOK
  <2>2. QED
    BY <1>5, <2>1 DEF Send, TypeOK
<1>6. CASE Accepted
  <2>1. address' \in Addresses
    BY <1>6, NoteType DEF Accepted, TakeReply
  <2>2. replies' \in Seq(Replies) /\ sent' = sent /\ control' = control
    BY <1>1, <1>6 DEF Accepted, TakeReply
  <2>3. step' \in 1..9 /\ pc' \in {"dial", "returned", "send"} /\ result' \in {result, "ok"}
    BY <1>0, <1>6 DEF Accepted, Return
  <2>4. UNCHANGED <<lines, setting, dat, srv>>
    BY <1>6 DEF Accepted
  <2>5. QED
    BY <1>0, <2>1, <2>2, <2>3, <2>4 DEF TypeOK
<1>7. CASE Dial
  BY <1>7 DEF Dial, TypeOK
<1>8. CASE ReadLine
  <2>1. wire \in Seq(Seq(Words)) /\ now.client \in Nat /\ lines \in Seq(Metadata) /\ wire # <<>>
    BY <1>8, FtpAssumption DEF TypeOK, Clocks, ReadLine
  <2>2. Head(wire) \in Seq(Words) /\ Tail(wire) \in Seq(Seq(Words))
    BY <2>1, TailFacts
  <2>3. PICK m \in from_str(Head(wire), now.client) : lines' = Append(lines, m)
    BY <1>8 DEF ReadLine
  <2>4. m \in Metadata
    BY <2>1, <2>2, FromStrType
  <2>5. lines' \in Seq(Metadata)
    BY <2>1, <2>3, <2>4, AppendFacts
  <2>6. QED
    BY <1>8, <2>2, <2>5 DEF ReadLine, TypeOK
<1>9. CASE ReadEnds
  BY <1>0, <1>9 DEF ReadEnds, TypeOK, Turns, ListStep
<1>10. QED
  BY <1>2, <1>3, <1>4, <1>5, <1>6, <1>7, <1>8, <1>9

(* The steps of the server keep the types *)
LEMMA ServerTypeOK ==
  ASSUME TypeOK,
         \/ \E code \in Codes : Greet(code) \/ RefuseListing(code)
         \/ \E code \in Codes : \E text \in Texts(code) : Obey(code, text)
         \/ OpenListing \/ StartListing \/ Goodbye
         \/ SendLine \/ CloseData \/ ConfirmListing
         \/ \E words \in Aborts : AbortListing(words)
         \/ Vanish \/ Reset \/ Tick \/ UNCHANGED vars
  PROVE  TypeOK'
<1> USE DEF vars, client, setting, ctl, dat, srv
<1>0. /\ <<>> \in Seq(Int) /\ 0 \in 0..Len(Script) /\ ListStep \in 0..Len(Script)
      /\ {150, 220, 221, 226, 500} \subseteq Codes
  BY ScriptIs, SomeCodes DEF ListStep
<1>1. ASSUME sent # <<>>
      PROVE  Tail(sent) \in Seq(1..Len(Script)) /\ Head(sent) \in 0..Len(Script)
  <2>1. sent \in Seq(1..Len(Script))
    BY DEF TypeOK
  <2>2. Head(sent) \in 1..Len(Script) /\ Tail(sent) \in Seq(1..Len(Script))
    BY <1>1, <2>1, TailFacts
  <2>3. QED
    BY <2>2
<1>2. ASSUME NEW code \in Codes, Greet(code) PROVE TypeOK'
  <2>1. replies' \in Seq(Replies)
    BY <1>0, <1>2, SayType DEF Greet
  <2>2. QED
    BY <1>2, <2>1 DEF Greet, TypeOK
<1>3. ASSUME NEW code \in Codes, RefuseListing(code) PROVE TypeOK'
  <2>1. replies' \in Seq(Replies)
    BY <1>0, <1>3, SayType DEF RefuseListing
  <2>2. QED
    BY <1>3, <2>1 DEF RefuseListing, TypeOK
<1>4. ASSUME NEW code \in Codes, NEW text \in Texts(code), Obey(code, text) PROVE TypeOK'
  <2>1. replies' \in Seq(Replies)
    BY <1>1, <1>4, SayType, TextType DEF Obey
  <2>2. QED
    BY <1>1, <1>4, <2>1 DEF Obey, TypeOK
<1>5. CASE OpenListing
  BY <1>1, <1>5 DEF OpenListing, TypeOK
<1>6. CASE StartListing
  <2>1. replies' \in Seq(Replies)
    BY ZenonT(60), <1>0, <1>6, SayType DEF StartListing
  <2>2. QED
    BY <1>6, <2>1 DEF StartListing, TypeOK
<1>7. CASE Goodbye
  <2>1. replies' \in Seq(Replies)
    BY ZenonT(60), <1>0, <1>1, <1>7, SayType DEF Goodbye
  <2>2. QED
    BY <1>1, <1>7, <2>1 DEF Goodbye, TypeOK
<1>8. CASE SendLine
  <2>1. wire' \in Seq(Seq(Words)) /\ served' \in 0..Len(listing)
    <3>1. Line(listing[served + 1], now.server) \in Seq(Words) /\ served + 1 \in 1..Len(listing)
      BY <1>8, LinePart DEF SendLine
    <3>2. wire \in Seq(Seq(Words))
      BY DEF TypeOK
    <3>3. QED
      BY <1>8, <3>1, <3>2, AppendFacts DEF SendLine
  <2>2. QED
    BY <1>8, <2>1 DEF SendLine, TypeOK
<1>9. CASE CloseData
  BY <1>9 DEF CloseData, TypeOK
<1>10. CASE ConfirmListing
  <2>1. replies' \in Seq(Replies)
    BY ZenonT(60), <1>0, <1>10, SayType DEF ConfirmListing
  <2>2. QED
    BY <1>10, <2>1 DEF ConfirmListing, TypeOK
<1>11. ASSUME NEW words \in Aborts, AbortListing(words) PROVE TypeOK'
  <2>1. replies' \in Seq(Replies)
    BY ZenonT(60), <1>0, <1>11, SayType DEF AbortListing
  <2>2. wire' \in Seq(Seq(Words))
    <3>1. /\ words <= Len(Line(listing[served + 1], now.server))
          /\ wire' = IF words = 0 THEN wire
                     ELSE Append(wire, SubSeq(Line(listing[served + 1], now.server), 1, words))
      BY <1>11 DEF AbortListing
    <3>2. SubSeq(Line(listing[served + 1], now.server), 1, words) \in Seq(Words)
      BY <1>11, <3>1, LinePart, FtpAssumption DEF AbortListing
    <3>3. wire \in Seq(Seq(Words))
      BY DEF TypeOK
    <3>4. QED
      BY <3>1, <3>2, <3>3, AppendFacts
  <2>3. QED
    BY <1>11, <2>1, <2>2 DEF AbortListing, TypeOK
<1>12. CASE Vanish
  BY <1>12 DEF Vanish, TypeOK
<1>13. CASE Reset
  BY <1>13 DEF Reset, TypeOK
<1>14. CASE Tick
  <2>1. /\ FirstMonth \in Int /\ LastMonth \in Int
        /\ now \in [client : FirstMonth..LastMonth, server : FirstMonth..LastMonth]
    BY FtpAssumption DEF TypeOK, Clocks
  <2>2. \/ now.client < LastMonth /\ now' = [now EXCEPT !.client = @ + 1]
        \/ now.server < LastMonth /\ now' = [now EXCEPT !.server = @ + 1]
    BY <1>14 DEF Tick
  <2>3. \A m \in FirstMonth..LastMonth : m < LastMonth => m + 1 \in FirstMonth..LastMonth
    BY <2>1
  <2>4. now' \in Clocks
    BY <2>1, <2>2, <2>3 DEF Clocks
  <2>5. QED
    BY <1>14, <2>4 DEF Tick, TypeOK
<1>15. CASE UNCHANGED vars
  BY <1>15 DEF TypeOK
<1>16. QED
  BY <1>2, <1>3, <1>4, <1>5, <1>6, <1>7, <1>8, <1>9, <1>10, <1>11, <1>12, <1>13, <1>14, <1>15

-------------------------------------------------------------------------------
(* Every reply is read in its turn                                         *)
LEMMA InitTurns == Init => Turns
BY DEF Init, Turns, InTurn, Said, Taken, NumRead, LastSent

(* The first reply is the one that the command it is read for has due      *)
LEMMA FirstReply ==
  ASSUME TypeOK, Turns, pc # "returned", replies # <<>>
  PROVE  /\ Head(replies) = replies[1] /\ Head(replies) \in Replies
         /\ Head(replies).to = Answered(NumRead + 1)
         /\ Len(Tail(replies)) = Len(replies) - 1 /\ Tail(replies) \in Seq(Replies)
         /\ \A i \in 1..(Len(replies) - 1) : Tail(replies)[i] = replies[i + 1]
<1>1. replies \in Seq(Replies)
  BY DEF TypeOK
<1>2. 1 \in 1..Len(replies)
  BY <1>1, TailFacts
<1>3. replies[1].to = Answered(NumRead + 1)
  BY <1>2 DEF Turns, InTurn
<1>4. QED
  BY <1>1, <1>3, TailFacts

(* The steps of the client keep the commands and replies in turn *)
LEMMA ClientTurns ==
  ASSUME TypeOK, Turns,
         GivesUp \/ Connect \/ Welcome \/ Send \/ Accepted \/ Dial \/ ReadLine \/ ReadEnds
  PROVE  Turns'
<1> USE DEF client, setting, ctl, dat, srv, ListStep
<1>0. step \in 1..9 /\ Len(Script) = 9 /\ Len(replies) \in Nat /\ Len(sent) \in Nat
  BY ScriptIs DEF TypeOK
<1>1. CASE GivesUp
  BY <1>1 DEF GivesUp, Turns
<1>2. CASE Connect
  BY <1>2 DEF Connect, Turns, InTurn, NotListed, Said, Taken, NumRead, LastSent
<1>3. CASE Welcome
  <2>1. CASE replies = <<>>
    BY <1>3, <2>1 DEF Welcome, TakeReply, Turns, InTurn
  <2>2. CASE replies # <<>>
    <3>1. /\ Len(replies') = Len(replies) - 1
          /\ \A i \in 1..Len(replies') : replies'[i] = replies[i + 1]
      BY <1>0, <1>3, <2>2, FirstReply DEF Welcome, TakeReply
    <3>2. NumRead' = NumRead + 1 /\ LastSent' = LastSent /\ NumRead = 0 /\ LastSent = 0
      BY <1>3 DEF Welcome, NumRead, LastSent, Turns
    <3>3. Said' = Said /\ Taken' = Taken
      BY <1>0, <1>3, <2>2, <3>1, <3>2 DEF Welcome, TakeReply, Said, Taken
    <3>4. InTurn
      BY <1>3 DEF Welcome, Turns
    <3>5. \A i \in 1..Len(replies') : replies'[i].to = Answered(NumRead' + i)
      <4>1. \A i \in 1..Len(replies') : i + 1 \in 1..Len(replies) /\ NumRead + (i + 1) = NumRead' + i
        BY <1>0, <3>1, <3>2
      <4>2. QED
        BY <3>1, <3>4, <4>1 DEF InTurn
    <3>6. InTurn'
      BY <1>3, <2>2, <3>2, <3>3, <3>4, <3>5 DEF Welcome, TakeReply, InTurn, NotListed
    <3>7. QED
      BY <1>3, <2>2, <3>6 DEF Welcome, TakeReply, Turns
  <2>3. QED
    BY <2>1, <2>2
<1>4. CASE Send
  <2>1. /\ sent' = Append(sent, step) /\ Len(sent') = Len(sent) + 1
        /\ \A i \in 1..Len(sent) : sent'[i] = sent[i]
        /\ sent'[Len(sent) + 1] = step
    BY <1>4, AppendFacts DEF Send, TypeOK
  <2>2. NumRead' = NumRead /\ NumRead = step /\ LastSent' = LastSent + 1 /\ LastSent = step - 1
    BY <1>0, <1>4 DEF Send, NumRead, LastSent
  <2>3. Said' = Said /\ Taken' = Taken
    BY <1>0, <1>4, <2>1, <2>2 DEF Send, Said, Taken
  <2>4. InTurn /\ ~NotListed
    BY <1>4 DEF Send, Turns, NotListed
  <2>5. Taken + Len(sent) + 1 = step
    BY <1>0, <2>2 DEF Taken
  <2>6. server # "gone" => \A i \in 1..Len(sent') : sent'[i] = Taken' + i
    <3>1. \A i \in 1..Len(sent') : i \in 1..Len(sent) \/ i = Len(sent) + 1
      BY <1>0, <2>1
    <3>2. Taken + (Len(sent) + 1) = step
      BY <1>0, <2>2 DEF Taken
    <3>3. QED
      BY <2>1, <2>3, <2>4, <3>1, <3>2 DEF InTurn
  <2>7. InTurn'
    BY <1>4, <2>2, <2>3, <2>4, <2>6 DEF Send, InTurn, NotListed
  <2>8. QED
    BY <1>4, <2>7 DEF Send, Turns
<1>5. CASE Accepted
  <2>1. /\ replies # <<>> /\ replies' = Tail(replies) /\ UNCHANGED <<sent, control, server>>
        /\ pc = "reply"
    BY <1>5 DEF Accepted, TakeReply
  <2>2. CASE pc' = "returned"
    BY <2>1, <2>2 DEF Turns
  <2>3. CASE pc' # "returned"
    <3>1. /\ Len(replies') = Len(replies) - 1
          /\ \A i \in 1..Len(replies') : replies'[i] = replies[i + 1]
      BY <1>0, <2>1, FirstReply
    <3>2. (step = 7 /\ pc' = "dial" /\ step' = 7) \/ (step # 7 /\ pc' = "send" /\ step' = step + 1)
      BY <1>0, <1>5, <2>3 DEF Accepted, Return
    <3>3. NumRead' = NumRead + 1 /\ LastSent' = LastSent /\ NumRead = step
      BY <1>0, <2>1, <3>2 DEF NumRead, LastSent
    <3>4. Said' = Said /\ Taken' = Taken
      BY <1>0, <2>1, <3>1, <3>3 DEF Said, Taken
    <3>5. InTurn
      BY <2>1 DEF Turns
    <3>6. ~NotListed
      <4>1. SUFFICES ASSUME step = 7 PROVE replies[1].code \notin {0, 500}
        BY DEF NotListed
      <4>2. Head(replies).code \in Accepts[Script[7]]
        BY <1>5, <4>1 DEF Accepted, Reply
      <4>3. Accepts[Script[7]] = {150}
        BY ScriptIs, AcceptsIs
      <4>4. QED
        BY <2>1, <4>2, <4>3, FirstReply
    <3>7. \A i \in 1..Len(replies') : replies'[i].to = Answered(NumRead' + i)
      <4>1. \A i \in 1..Len(replies') : i + 1 \in 1..Len(replies) /\ NumRead + (i + 1) = NumRead' + i
        BY <1>0, <3>1, <3>3
      <4>2. QED
        BY <3>1, <3>5, <4>1 DEF InTurn
    <3>8. InTurn'
      BY <2>1, <3>4, <3>5, <3>6, <3>7 DEF InTurn
    <3>9. QED
      BY <2>1, <3>2, <3>8 DEF Turns
  <2>4. QED
    BY <2>2, <2>3
<1>6. CASE Dial
  BY <1>6 DEF Dial, Turns, InTurn, NotListed, Said, Taken, NumRead, LastSent
<1>7. CASE ReadLine
  BY <1>7 DEF ReadLine, Turns, InTurn, NotListed, Said, Taken, NumRead, LastSent
<1>8. CASE ReadEnds
  <2>1. NumRead' = NumRead /\ LastSent' = LastSent
    BY <1>0, <1>8 DEF ReadEnds, NumRead, LastSent, Turns
  <2>2. QED
    BY <1>8, <2>1 DEF ReadEnds, Turns, InTurn, NotListed, Said, Taken
<1>9. QED
  BY <1>1, <1>2, <1>3, <1>4, <1>5, <1>6, <1>7, <1>8

(* A reply that is said in its turn                                        *)
LEMMA SaidInTurn ==
  ASSUME TypeOK, Turns, pc # "returned", UNCHANGED <<pc, step>>,
         NEW code \in Codes, NEW to \in 0..Len(Script), NEW text \in Seq(Int),
         Say(code, to, text), to = Answered(Said + 1)
  PROVE  /\ NumRead' = NumRead /\ LastSent' = LastSent /\ Said' = Said + 1
         /\ Said \in Nat /\ NumRead \in Nat /\ LastSent \in Int /\ Taken \in Int
         /\ \A i \in 1..Len(replies') : replies'[i].to = Answered(NumRead' + i)
<1>1. NumRead' = NumRead /\ LastSent' = LastSent
  BY DEF NumRead, LastSent
<1>2. step \in 1..9 /\ Len(replies) \in Nat /\ Len(sent) \in Nat
  BY SMTT(30), ScriptIs DEF TypeOK
<1>3. NumRead \in Nat /\ LastSent \in Int
  BY <1>2 DEF NumRead, LastSent
<1>4. /\ Len(replies') = Len(replies) + 1
      /\ \A i \in 1..Len(replies) : replies'[i] = replies[i]
      /\ replies'[Len(replies) + 1].to = to
  BY SayType
<1>5. Said' = Said + 1 /\ Said = NumRead + Len(replies) /\ Said \in Nat /\ Taken \in Int
  BY <1>1, <1>2, <1>3, <1>4 DEF Said, Taken
<1>6. ASSUME NEW i \in 1..Len(replies') PROVE replies'[i].to = Answered(NumRead' + i)
  <2>1. CASE i \in 1..Len(replies)
    BY <1>1, <1>4, <2>1 DEF Turns, InTurn
  <2>2. CASE i = Len(replies) + 1
    <3>1. NumRead' + i = Said + 1
      BY <1>1, <1>2, <1>3, <1>5, <2>2
    <3>2. QED
      BY <1>4, <2>2, <3>1
  <2>3. QED
    BY SMTT(30), <1>2, <1>4, <2>1, <2>2
<1>7. QED
  BY <1>1, <1>3, <1>5, <1>6

(* The command that a server takes up                                      *)
LEMMA FirstCommand ==
  ASSUME TypeOK, Turns, pc # "returned", server # "gone", sent # <<>>
  PROVE  /\ Head(sent) = Taken + 1 /\ Head(sent) \in 1..Len(Script) /\ Taken \in Int
         /\ Len(Tail(sent)) = Len(sent) - 1
         /\ \A i \in 1..(Len(sent) - 1) : Tail(sent)[i] = (Taken + 1) + i
         /\ ~NotListed
<1>1. sent \in Seq(1..Len(Script)) /\ step \in 1..9
  BY ScriptIs DEF TypeOK
<1>2. /\ Head(sent) = sent[1] /\ Head(sent) \in 1..Len(Script)
      /\ Len(sent) >= 1 /\ Len(sent) \in Nat /\ Len(Tail(sent)) = Len(sent) - 1
      /\ \A i \in 1..(Len(sent) - 1) : Tail(sent)[i] = sent[i + 1]
  BY <1>1, TailFacts
<1>3. \A i \in 1..Len(sent) : sent[i] = Taken + i
  BY DEF Turns, InTurn
<1>4. LastSent \in Int /\ Taken = LastSent - Len(sent)
  BY <1>1 DEF LastSent, Taken
<1>5. Taken \in Int
  BY <1>2, <1>4
<1>6. sent[1] = Taken + 1
  BY <1>2, <1>3
<1>7. ASSUME NEW i \in 1..(Len(sent) - 1) PROVE Tail(sent)[i] = (Taken + 1) + i
  <2>1. i + 1 \in 1..Len(sent) /\ Taken + (i + 1) = (Taken + 1) + i
    BY <1>2, <1>5
  <2>2. QED
    BY <1>2, <1>3, <2>1
<1>8. ~NotListed
  <2> SUFFICES ASSUME NotListed PROVE FALSE
    OBVIOUS
  <2>1. Taken = 7 /\ LastSent = 7
    BY DEF NotListed, LastSent, ListStep
  <2>2. QED
    BY <1>2, <1>4, <2>1
<1>9. QED
  BY <1>2, <1>5, <1>6, <1>7, <1>8

(* So do the answers of the server *)
LEMMA AnswersTurns ==
  ASSUME TypeOK, Turns,
         \/ \E code \in Codes : Greet(code) \/ RefuseListing(code)
         \/ \E code \in Codes : \E text \in Texts(code) : Obey(code, text)
         \/ OpenListing \/ StartListing \/ Goodbye
  PROVE  Turns'
<1> USE DEF client, setting, ctl, dat, srv
<1>0. /\ <<>> \in Seq(Int) /\ 0 \in 0..Len(Script) /\ 7 \in 0..Len(Script) /\ ListStep = 7
      /\ {150, 220, 221, 226, 500} \subseteq Codes
      /\ step \in 1..9 /\ Len(replies) \in Nat /\ Len(sent) \in Nat /\ Len(Script) = 9
  BY SMTT(30), ScriptIs, SomeCodes DEF ListStep, TypeOK
<1>1. ASSUME NEW code \in Codes, Greet(code) PROVE Turns'
  <2>1. CASE pc = "returned"
    BY <1>1, <2>1 DEF Greet, Turns
  <2>2. CASE pc # "returned"
    <3>1. Said = 0 /\ Taken = 0 /\ InTurn
      BY <1>1, <2>2 DEF Greet, Turns, InTurn
    <3>2. 0 = Answered(Said + 1)
      BY <1>0, <3>1 DEF Answered
    <3>3. /\ NumRead' = NumRead /\ LastSent' = LastSent /\ Said' = 1
          /\ \A i \in 1..Len(replies') : replies'[i].to = Answered(NumRead' + i)
      <4>1. PICK to \in 0..Len(Script), text \in Seq(Int) :
              to = 0 /\ Say(code, to, text) /\ UNCHANGED <<pc, step>>
        BY <1>0, <1>1 DEF Greet
      <4>2. to = Answered(Said + 1)
        BY <3>2, <4>1
      <4>3. QED
        BY <1>0, <2>2, <3>1, <4>1, <4>2, SaidInTurn
    <3>4. Taken' = Taken
      BY <1>1, <3>3 DEF Greet, Taken
    <3>5. InTurn'
      BY <1>0, <1>1, <3>1, <3>3, <3>4 DEF Greet, InTurn
    <3>6. QED
      BY <1>1, <3>5 DEF Greet, Turns
  <2>3. QED
    BY <2>1, <2>2
<1>2. ASSUME NEW code \in Codes, RefuseListing(code) PROVE Turns'
  <2>1. CASE pc = "returned"
    BY <1>2, <2>1 DEF RefuseListing, Turns
  <2>2. CASE pc # "returned"
    <3>1. Said = 7 /\ Taken = 7 /\ InTurn
      BY <1>0, <1>2, <2>2 DEF RefuseListing, Turns, InTurn
    <3>2. 7 = Answered(Said + 1)
      BY <1>0, <3>1 DEF Answered
    <3>3. /\ NumRead' = NumRead /\ LastSent' = LastSent /\ Said' = 8
          /\ \A i \in 1..Len(replies') : replies'[i].to = Answered(NumRead' + i)
      <4>1. PICK to \in 0..Len(Script), text \in Seq(Int) :
              to = 7 /\ Say(code, to, text) /\ UNCHANGED <<pc, step>>
        BY <1>0, <1>2 DEF RefuseListing
      <4>2. to = Answered(Said + 1)
        BY <3>2, <4>1
      <4>3. QED
        BY SMTT(30), <1>0, <2>2, <3>1, <4>1, <4>2, SaidInTurn
    <3>4. Taken' = Taken
      BY <1>2, <3>3 DEF RefuseListing, Taken
    <3>5. pc = "reply" /\ step = 7 /\ Len(replies) = 0
      <4>1. NumRead + Len(replies) = 7 /\ LastSent - Len(sent) = 7
        BY <3>1 DEF Said, Taken
      <4>2. NumRead \in Nat /\ LastSent \in Int /\ NumRead <= 7 /\ LastSent >= 7
        BY <1>0, <4>1 DEF NumRead, LastSent
      <4>3. QED
        BY <1>0, <2>2, <4>1, <4>2 DEF NumRead, LastSent, TypeOK
    <3>6. replies'[1].code = code /\ code \in {0, 500}
      <4>1. PICK to \in 0..Len(Script), text \in Seq(Int) : Say(code, to, text)
        BY <1>0, <1>2 DEF RefuseListing
      <4>2. replies'[Len(replies) + 1].code = code
        BY <4>1, SayType
      <4>3. QED
        BY <1>2, <3>5, <4>2 DEF RefuseListing, Misbehaves
    <3>7. NotListed'
      BY <1>0, <1>2, <3>1, <3>3, <3>4, <3>5, <3>6 DEF RefuseListing, NotListed
    <3>8. InTurn'
      BY <1>0, <1>2, <3>1, <3>3, <3>4, <3>7 DEF RefuseListing, InTurn
    <3>9. QED
      BY <1>2, <3>8 DEF RefuseListing, Turns
  <2>3. QED
    BY <2>1, <2>2
<1>3. ASSUME NEW code \in Codes, NEW text \in Texts(code), Obey(code, text) PROVE Turns'
  <2>1. CASE pc = "returned"
    BY <1>3, <2>1 DEF Obey, Turns
  <2>2. CASE pc # "returned"
    <3>1. /\ Head(sent) = Taken + 1 /\ Head(sent) \in 1..9 /\ Taken \in Int /\ ~NotListed
          /\ Len(sent') = Len(sent) - 1
          /\ \A i \in 1..(Len(sent) - 1) : sent'[i] = (Taken + 1) + i
      BY <1>0, <1>3, <2>2, FirstCommand DEF Obey
    <3>2. InTurn /\ Said \in 1..7 /\ Taken = Said - 1
      BY <1>0, <1>3, <2>2, <3>1 DEF Obey, Turns, InTurn
    <3>3. Head(sent) < 7
      BY SMTT(30), <1>0, <1>3, <3>1, <3>2, StepAccepts DEF Obey
    <3>4. Head(sent) = Answered(Said + 1) /\ Head(sent) \in 0..Len(Script)
      BY <1>0, <3>1, <3>2, <3>3 DEF Answered
    <3>5. /\ NumRead' = NumRead /\ LastSent' = LastSent /\ LastSent \in Int /\ Said' = Said + 1
          /\ \A i \in 1..Len(replies') : replies'[i].to = Answered(NumRead' + i)
      BY <1>0, <1>3, <2>2, <3>4, SaidInTurn, TextType DEF Obey
    <3>6. Taken' = Taken + 1
      BY <1>0, <3>1, <3>5 DEF Taken
    <3>7. InTurn'
      <4>1. UNCHANGED server /\ server = "ready"
        BY <1>3 DEF Obey
      <4>2. \A i \in 1..Len(sent') : sent'[i] = Taken' + i
        BY <3>1, <3>6
      <4>3. Said' \in 1..7 /\ Taken' = Said' - 1
        BY <3>1, <3>2, <3>3, <3>5, <3>6
      <4>4. QED
        BY <1>0, <3>5, <4>1, <4>2, <4>3 DEF InTurn
    <3>8. QED
      BY <1>3, <3>7 DEF Obey, Turns
  <2>3. QED
    BY <2>1, <2>2
<1>4. CASE OpenListing
  <2>1. CASE pc = "returned"
    BY <1>4, <2>1 DEF OpenListing, Turns
  <2>2. CASE pc # "returned"
    <3>1. /\ Head(sent) = Taken + 1 /\ Head(sent) \in 1..9 /\ Taken \in Int /\ ~NotListed
          /\ Len(sent') = Len(sent) - 1
          /\ \A i \in 1..(Len(sent) - 1) : sent'[i] = (Taken + 1) + i
      BY <1>0, <1>4, <2>2, FirstCommand DEF OpenListing
    <3>2. InTurn /\ Said \in 1..7 /\ Taken = Said - 1
      BY <1>0, <1>4, <2>2, <3>1 DEF OpenListing, Turns, InTurn
    <3>3. Head(sent) = 7
      BY SMTT(30), <1>0, <1>4, <3>1, StepAccepts DEF OpenListing
    <3>4. NumRead' = NumRead /\ LastSent' = LastSent /\ LastSent \in Int
      BY <1>0, <1>4 DEF OpenListing, NumRead, LastSent
    <3>5. Said' = Said /\ Taken' = Taken + 1
      BY <1>0, <1>4, <3>1, <3>4 DEF OpenListing, Said, Taken
    <3>6. InTurn'
      <4>1. server' = "opening" /\ UNCHANGED replies
        BY <1>4 DEF OpenListing
      <4>2. \A i \in 1..Len(sent') : sent'[i] = Taken' + i
        BY <3>1, <3>5
      <4>3. Said' = 7 /\ Taken' = 7
        BY <3>1, <3>2, <3>3, <3>5
      <4>4. QED
        BY <1>0, <3>2, <3>4, <4>1, <4>2, <4>3 DEF InTurn
    <3>7. QED
      BY <1>4, <3>6 DEF OpenListing, Turns
  <2>3. QED
    BY <2>1, <2>2
<1>5. CASE StartListing
  <2>1. CASE pc = "returned"
    BY <1>5, <2>1 DEF StartListing, Turns
  <2>2. CASE pc # "returned"
    <3>1. Said = 7 /\ Taken = 7 /\ InTurn
      BY <1>0, <1>5, <2>2 DEF StartListing, Turns, InTurn
    <3>2. 7 = Answered(Said + 1)
      BY <1>0, <3>1 DEF Answered
    <3>3. /\ NumRead' = NumRead /\ LastSent' = LastSent /\ Said' = 8
          /\ \A i \in 1..Len(replies') : replies'[i].to = Answered(NumRead' + i)
      <4>1. PICK to \in 0..Len(Script), text \in Seq(Int) :
              to = 7 /\ Say(150, to, text) /\ UNCHANGED <<pc, step>>
        BY ZenonT(60), <1>0, <1>5 DEF StartListing
      <4>2. to = Answered(Said + 1)
        BY <3>2, <4>1
      <4>3. QED
        BY SMTT(30), <1>0, <2>2, <3>1, <4>1, <4>2, SaidInTurn
    <3>4. Taken' = Taken
      BY <1>5, <3>3 DEF StartListing, Taken
    <3>5. InTurn'
      BY <1>0, <1>5, <3>1, <3>3, <3>4 DEF StartListing, InTurn
    <3>6. QED
      BY <1>5, <3>5 DEF StartListing, Turns
  <2>3. QED
    BY <2>1, <2>2
<1>6. CASE Goodbye
  <2>1. CASE pc = "returned"
    BY <1>6, <2>1 DEF Goodbye, Turns
  <2>2. CASE pc # "returned"
    <3>1. Head(sent) = Taken + 1 /\ Head(sent) \in 8..9 /\ ~NotListed
      BY SMTT(30), <1>0, <1>6, <2>2, FirstCommand, StepAccepts DEF Goodbye
    <3>2. Said = 9 /\ Taken = 7
      BY SMTT(30), <1>0, <1>6, <2>2, <3>1 DEF Goodbye, Turns, InTurn
    <3>3. Head(sent) = Answered(Said + 1) /\ Head(sent) \in 0..Len(Script)
      BY <1>0, <3>1, <3>2 DEF Answered
    <3>4. \A i \in 1..Len(replies') : replies'[i].to = Answered(NumRead' + i)
      BY ZenonT(60), <1>0, <1>6, <2>2, <3>3, SaidInTurn DEF Goodbye
    <3>5. QED
      BY <1>6, <3>4 DEF Goodbye, Turns, InTurn
  <2>3. QED
    BY <2>1, <2>2
<1>7. QED
  BY <1>1, <1>2, <1>3, <1>4, <1>5, <1>6

(* ... and the steps of its data connection *)
LEMMA TransfersTurns ==
  ASSUME TypeOK, Turns,
         \/ SendLine \/ CloseData \/ ConfirmListing
         \/ \E words \in Aborts : AbortListing(words)
         \/ Vanish \/ Reset \/ Tick \/ UNCHANGED vars
  PROVE  Turns'
<1> USE DEF vars, client, setting, ctl, dat, srv
<1>1. /\ <<>> \in Seq(Int) /\ 7 \in 0..Len(Script) /\ ListStep = 7 /\ {226, 500} \subseteq Codes
  BY ScriptIs, SomeCodes DEF ListStep
<1> DEFINE Ends == /\ server = "sending" /\ server' = "done"
                   /\ \E code \in Codes, to \in 0..Len(Script), text \in Seq(Int) :
                        to = 7 /\ Say(code, to, text)
                   /\ UNCHANGED <<client, sent, control>>
<1>2. ASSUME Ends PROVE Turns'
  <2>1. CASE pc = "returned"
    BY <1>2, <2>1 DEF Turns
  <2>2. CASE pc # "returned"
    <3>1. Said = 8 /\ Taken = 7 /\ InTurn
      BY <1>1, <1>2, <2>2 DEF Turns, InTurn
    <3>2. 7 = Answered(Said + 1)
      BY <1>1, <3>1 DEF Answered
    <3>3. /\ NumRead' = NumRead /\ LastSent' = LastSent /\ Said' = 9
          /\ \A i \in 1..Len(replies') : replies'[i].to = Answered(NumRead' + i)
      <4>1. PICK code \in Codes, to \in 0..Len(Script), text \in Seq(Int) :
              to = 7 /\ Say(code, to, text) /\ UNCHANGED <<pc, step>>
        BY <1>2
      <4>2. to = Answered(Said + 1)
        BY <3>2, <4>1
      <4>3. QED
        BY <1>1, <2>2, <3>1, <4>1, <4>2, SaidInTurn
    <3>4. Taken' = Taken
      BY <1>2, <3>3 DEF Taken
    <3>5. InTurn'
      BY <1>1, <1>2, <3>1, <3>3, <3>4 DEF InTurn
    <3>6. QED
      BY <1>2, <3>5 DEF Turns
  <2>3. QED
    BY <2>1, <2>2
<1>3. ConfirmListing => Ends
  BY ZenonT(60), <1>1 DEF ConfirmListing
<1>4. (\E words \in Aborts : AbortListing(words)) => Ends
  BY ZenonT(60), <1>1 DEF AbortListing
<1>5. ASSUME UNCHANGED <<pc, step, sent, replies, server, control>> PROVE Turns'
  BY <1>5 DEF Turns, InTurn, NotListed, Said, Taken, NumRead, LastSent
<1>6. SendLine \/ CloseData \/ Tick \/ UNCHANGED vars
        => UNCHANGED <<pc, step, sent, replies, server, control>>
  BY DEF SendLine, CloseData, Tick
<1>7. CASE Vanish
  BY <1>7 DEF Vanish, Turns, InTurn, NumRead
<1>8. CASE Reset
  BY <1>8 DEF Reset, Turns, InTurn, NumRead
<1>9. QED
  BY <1>2, <1>3, <1>4, <1>5, <1>6, <1>7, <1>8

-------------------------------------------------------------------------------
(* What the replies say is true                                            *)
LEMMA InitTruthful == Init => Truthful
BY DEF Init, Truthful

(* Replies that are not new mean what they meant                           *)
LEMMA OldReplies ==
  ASSUME Truthful, UNCHANGED <<listing, peer>>,
         \A i \in 1..Len(replies') : \E j \in 1..Len(replies) : replies'[i] = replies[j],
         served' = served \/ served < Len(listing)
  PROVE  Truthful'
<1>1. \A r : Means(r) => Means(r)'
  BY DEF Means, MayMisquote
<1>2. ASSUME NEW i \in 1..Len(replies') PROVE Means(replies'[i])
  <2>1. PICK j \in 1..Len(replies) : replies'[i] = replies[j]
    OBVIOUS
  <2>2. Means(replies[j])
    BY DEF Truthful
  <2>3. QED
    BY <2>1, <2>2
<1>3. QED
  BY <1>1, <1>2 DEF Truthful

(* A new one does                                                          *)
LEMMA NewReply ==
  ASSUME TypeOK, Truthful, UNCHANGED <<listing, peer, served>>,
         NEW code \in Codes, NEW to \in 0..Len(Script), NEW text \in Seq(Int),
         Say(code, to, text), Means([code |-> code, to |-> to, text |-> text])
  PROVE  Truthful'
<1>1. \A r : Means(r) => Means(r)'
  BY DEF Means, MayMisquote
<1>2. Len(replies') = Len(replies) + 1 /\ Len(replies) \in Nat
  BY SayType DEF TypeOK
<1>3. ASSUME NEW i \in 1..Len(replies') PROVE Means(replies'[i])
  <2>1. CASE i \in 1..Len(replies)
    BY <2>1, SayType DEF Truthful
  <2>2. CASE i = Len(replies) + 1
    BY <2>2, SayType
  <2>3. QED
    BY <1>2, <2>1, <2>2
<1>4. QED
  BY <1>1, <1>3 DEF Truthful

(* A reply says what it says for the whole session *)
LEMMA NextTruthful ==
  ASSUME TypeOK, Turns, Truthful, [Next]_vars
  PROVE  Truthful'
<1> USE DEF vars, client, setting, ctl, dat, srv
<1>0. /\ <<>> \in Seq(Int) /\ 0 \in 0..Len(Script) /\ ListStep \in 0..Len(Script)
      /\ {150, 220, 221, 226, 500} \subseteq Codes /\ ListStep = 7
      /\ Len(replies) \in Nat
  BY ScriptIs, SomeCodes DEF ListStep, TypeOK
<1> DEFINE Kept == \A i \in 1..Len(replies') : \E j \in 1..Len(replies) : replies'[i] = replies[j]
<1>1. ASSUME replies # <<>>, replies' = Tail(replies) PROVE Kept
  <2>1. /\ Len(replies') = Len(replies) - 1
        /\ \A i \in 1..(Len(replies) - 1) : replies'[i] = replies[i + 1]
    BY <1>1, TailFacts DEF TypeOK
  <2>2. \A i \in 1..Len(replies') : i + 1 \in 1..Len(replies) /\ replies'[i] = replies[i + 1]
    BY <1>0, <2>1
  <2>3. QED
    BY <2>2
<1>2. replies' = replies \/ replies' = <<>> => Kept
  OBVIOUS
<1>3. \A r : r.code \notin {226, 221, 227} => Means(r)
  BY DEF Means
<1>4. CASE GivesUp
  BY <1>1, <1>2, <1>4, OldReplies DEF GivesUp
<1>5. CASE Connect \/ Send \/ Dial \/ ReadLine \/ ReadEnds
  BY <1>2, <1>5, OldReplies DEF Connect, Send, Dial, ReadLine, ReadEnds
<1>6. CASE Welcome
  BY <1>1, <1>2, <1>6, OldReplies DEF Welcome, TakeReply
<1>7. CASE Accepted
  BY <1>1, <1>7, OldReplies DEF Accepted, TakeReply
<1>8. ASSUME NEW code \in Codes, Greet(code) \/ RefuseListing(code) PROVE Truthful'
  <2>1. PICK to \in 0..Len(Script), text \in Seq(Int) : Say(code, to, text)
    BY ZenonT(60), <1>0, <1>8 DEF Greet, RefuseListing
  <2>2. code \in {0, 220, 500} /\ UNCHANGED <<listing, peer, served>>
    BY <1>8 DEF Greet, RefuseListing, Misbehaves
  <2>3. Means([code |-> code, to |-> to, text |-> text])
    BY <1>3, <2>2
  <2>4. QED
    BY <2>1, <2>2, <2>3, NewReply
<1>9. ASSUME NEW code \in Codes, NEW text \in Texts(code), Obey(code, text) PROVE Truthful'
  <2>1. Head(sent) \in 1..9 /\ Head(sent) \in 0..Len(Script) /\ text \in Seq(Int)
    <3>1. sent \in Seq(1..Len(Script)) /\ sent # <<>>
      BY <1>9 DEF Obey, TypeOK
    <3>2. Head(sent) \in 1..Len(Script)
      BY <3>1, TailFacts
    <3>3. QED
      BY <3>2, TextType, ScriptIs
  <2>2. code \notin {221, 226}
    <3>1. Head(sent) < 7
      BY <1>9, <2>1, StepAccepts, ScriptIs DEF Obey
    <3>2. QED
      BY SMTT(30), <1>9, <2>1, <3>1, StepAccepts, ScriptIs DEF Obey, Misbehaves
  <2>3. code = 227 /\ ~MayMisquote => text \in Quotes
    BY DEF Texts
  <2>4. Means([code |-> code, to |-> Head(sent), text |-> text])
    BY <2>2, <2>3 DEF Means
  <2>5. Say(code, Head(sent), text) /\ UNCHANGED <<listing, peer, served>>
    BY <1>9 DEF Obey
  <2>6. QED
    BY <2>1, <2>4, <2>5, NewReply
<1>10. CASE OpenListing
  BY <1>2, <1>10, OldReplies DEF OpenListing
<1>11. CASE StartListing
  <2>1. PICK code \in Codes, to \in 0..Len(Script), text \in Seq(Int) :
          code = 150 /\ Say(code, to, text)
    BY ZenonT(60), <1>0, <1>11 DEF StartListing
  <2>2. Means([code |-> code, to |-> to, text |-> text])
    BY <1>3, <2>1
  <2>3. QED
    BY <1>11, <2>1, <2>2, NewReply DEF StartListing
<1>12. CASE Goodbye
  <2>1. Head(sent) \in 1..9 /\ Head(sent) \in 0..Len(Script)
    <3>1. sent \in Seq(1..Len(Script)) /\ sent # <<>>
      BY <1>12 DEF Goodbye, TypeOK
    <3>2. Head(sent) \in 1..Len(Script)
      BY <3>1, TailFacts
    <3>3. QED
      BY <3>2, ScriptIs
  <2>2. Head(sent) > 7
    BY <1>12, <2>1, StepAccepts, ScriptIs DEF Goodbye
  <2>3. PICK code \in Codes, text \in Seq(Int) : code = 221 /\ Say(code, Head(sent), text)
    BY ZenonT(60), <1>0, <1>12 DEF Goodbye
  <2>4. Means([code |-> code, to |-> Head(sent), text |-> text])
    BY <1>0, <2>2, <2>3 DEF Means
  <2>5. QED
    BY <1>12, <2>1, <2>3, <2>4, NewReply DEF Goodbye
<1>13. CASE SendLine
  BY <1>2, <1>13, OldReplies DEF SendLine
<1>14. CASE CloseData \/ Vanish \/ Tick \/ UNCHANGED vars
  BY <1>2, <1>14, OldReplies DEF CloseData, Vanish, Tick
<1>15. CASE ConfirmListing
  <2>1. PICK code \in Codes, to \in 0..Len(Script), text \in Seq(Int) :
          code = 226 /\ Say(code, to, text)
    BY ZenonT(60), <1>0, <1>15 DEF ConfirmListing
  <2>2. Means([code |-> code, to |-> to, text |-> text])
    BY <1>15, <2>1 DEF Means, ConfirmListing
  <2>3. QED
    BY <1>15, <2>1, <2>2, NewReply DEF ConfirmListing
<1>16. ASSUME NEW words \in Aborts, AbortListing(words) PROVE Truthful'
  <2>1. PICK code \in Codes, to \in 0..Len(Script), text \in Seq(Int) :
          code = 500 /\ Say(code, to, text)
    BY ZenonT(60), <1>0, <1>16 DEF AbortListing
  <2>2. Means([code |-> code, to |-> to, text |-> text])
    BY <1>3, <2>1
  <2>3. QED
    BY <1>16, <2>1, <2>2, NewReply DEF AbortListing
<1>17. CASE Reset
  BY <1>2, <1>17, OldReplies DEF Reset
<1> HIDE DEF vars
<1>18. QED
  BY <1>4, <1>5, <1>6, <1>7, <1>8, <1>9, <1>10, <1>11, <1>12, <1>13, <1>14, <1>15, <1>16,
     <1>17, Steps

-------------------------------------------------------------------------------
(* What is delivered is the listing, as far as it was served               *)
LEMMA InitDelivery == Init => Delivery
<1> SUFFICES ASSUME Init PROVE Delivery
  OBVIOUS
<1>1. Len(lines) = 0 /\ Len(wire) = 0 /\ served = 0 /\ listing \in Listings
  BY DEF Init
<1>2. QED
  BY <1>1 DEF Delivery

(* The steps that neither write a line nor read one *)
LEMMA SameDelivery ==
  ASSUME TypeOK, Delivery, UNCHANGED <<lines, wire, listing, served>>,
         server \in {"done", "gone"} => server' \in {"done", "gone"}
  PROVE  Delivery'
<1>1. \A line, i, s : Wrote(line, i, s) => Wrote(line, i, s)'
  BY DEF Wrote
<1>2. \A m, i, s : Right(m, i, s) => Right(m, i, s)'
  BY DEF Right
<1>3. QED
  BY <1>1, <1>2 DEF Delivery

(* The date of a line that is read today and was written at t: the year    *)
(* that it takes from the client's clock is the file's, or the one after,  *)
(* or the one before                                                       *)
LEMMA Dated ==
  ASSUME NEW modified \in Nat, NEW t \in FirstMonth..LastMonth,
         NEW today \in FirstMonth..LastMonth, NEW d,
         d = 12 * (IF t - modified \in 0..5 THEN Year(today) ELSE Year(modified)) + (modified % 12)
  PROVE  OffByClocks(d, modified, today)
<1>1. t \in Nat /\ today \in Nat /\ today <= t + 6 /\ t <= today + 6
  BY FtpAssumption
<1>2. PICK y \in Nat, q \in 0..11 : y = Year(today) /\ today = 12 * y + q
  BY <1>1 DEF Year
<1>3. PICK z \in Nat, r \in 0..11 : z = Year(modified) /\ r = modified % 12 /\ modified = 12 * z + r
  BY DEF Year
<1>4. CASE t - modified \notin 0..5
  BY <1>3, <1>4 DEF OffByClocks
<1>5. CASE t - modified \in 0..5
  <2>1. d = 12 * y + r
    BY <1>2, <1>3, <1>5
  <2>2. modified <= today + 6 /\ today <= modified + 11
    BY <1>1, <1>5
  <2>3. 12 * z + r <= 12 * y + q + 6 /\ 12 * y + q <= 12 * z + r + 11
    BY <1>2, <1>3, <2>2
  <2>4. y = z \/ y = z + 1 \/ z = y + 1
    BY <2>3
  <2>5. CASE y = z
    BY <1>3, <2>1, <2>5 DEF OffByClocks
  <2>6. CASE y = z + 1
    <3>1. d = modified + 12 /\ d > today
      <4>1. 12 * z + r <= 12 * y + q + 6 /\ 12 * y + q <= 12 * z + r + 11 => 12 * y + r > 12 * y + q
        BY <2>6
      <4>2. 12 * y + r = (12 * z + r) + 12
        BY <2>6
      <4>3. QED
        BY <1>2, <1>3, <2>1, <2>3, <4>1, <4>2
    <3>2. QED
      BY <3>1 DEF OffByClocks
  <2>7. CASE z = y + 1
    <3>1. d = modified - 12 /\ modified > today
      <4>1. 12 * z + r > 12 * y + q /\ 12 * y + r = (12 * z + r) - 12
        BY <2>7
      <4>2. QED
        BY <1>2, <1>3, <2>1, <4>1
    <3>2. QED
      BY <3>1 DEF OffByClocks
  <2>8. QED
    BY <2>4, <2>5, <2>6, <2>7
<1>6. QED
  BY <1>4, <1>5

(* What becomes of the next line                                           *)
LEMMA NextLine ==
  ASSUME TypeOK, Delivery, wire # <<>>, NEW m \in from_str(Head(wire), now.client)
  PROVE  /\ Right(m, Len(lines) + 1, served)
         /\ OffByClocks(m.date, listing[Len(lines) + 1].modified, now.client)
<1>1. wire \in Seq(Seq(Words)) /\ Len(wire) >= 1 /\ Head(wire) = wire[1] /\ Len(wire) \in Nat
  BY TailFacts DEF TypeOK
<1>2. PICK k \in Nat : k = Len(lines)
  BY DEF TypeOK
<1>3. served \in 0..Len(listing) /\ listing \in Seq(Entries) /\ listing \in Listings
  BY DEF TypeOK, Delivery
<1>4. k + 1 \in 1..Len(listing)
  <2>1. k + Len(wire) \in {served, served + 1}
    BY <1>2 DEF Delivery
  <2>2. k + Len(wire) = served + 1 => served < Len(listing)
    BY <1>2 DEF Delivery
  <2>3. QED
    BY <1>1, <1>2, <1>3, <2>1, <2>2
<1>5. PICK e \in Entries : e = listing[k + 1]
  BY <1>3, <1>4, ElementOfSeq
<1>6. Wrote(wire[1], k + 1, served)
  <2>1. 1 \in 1..Len(wire)
    BY <1>1
  <2>2. QED
    BY <1>2, <2>1 DEF Delivery
<1>7. PICK t \in FirstMonth..LastMonth : \E n \in 0..Len(Line(e, t)) :
        /\ wire[1] = SubSeq(Line(e, t), 1, n)
        /\ k + 1 <= served => n = Len(Line(e, t))
  BY <1>5, <1>6 DEF Wrote
<1>8. PICK n \in 0..Len(Line(e, t)) :
        /\ wire[1] = SubSeq(Line(e, t), 1, n)
        /\ k + 1 <= served => n = Len(Line(e, t))
  BY <1>7
<1>9. PICK today \in FirstMonth..LastMonth : today = now.client
  BY DEF TypeOK, Clocks
<1>10. t \in Nat /\ today \in Nat
  BY FtpAssumption
<1>11. m \in from_str(SubSeq(Line(e, t), 1, n), today)
  BY <1>1, <1>8, <1>9
<1>12. k + 1 <= served => Describes(m, e)
  BY <1>8, <1>10, <1>11, Described
<1>13. m.date = 12 * (IF t - e.modified \in 0..5 THEN Year(today) ELSE Year(e.modified))
                + (e.modified % 12)
  BY <1>10, <1>11, LineRead
<1>14. e.modified \in Nat
  BY DEF Entries
<1>15. OffByClocks(m.date, e.modified, today)
  BY <1>13, <1>14, Dated
<1>16. QED
  BY <1>2, <1>5, <1>9, <1>12, <1>15 DEF Right

(* The client reads a line: it is right, whatever is left of it *)
LEMMA ReadLineDelivery ==
  ASSUME TypeOK, Delivery, ReadLine
  PROVE  Delivery'
<1> USE DEF setting, ctl, srv
<1>1. PICK m \in from_str(Head(wire), now.client) : lines' = Append(lines, m)
  BY DEF ReadLine
<1>2. wire # <<>> /\ wire' = Tail(wire) /\ UNCHANGED <<listing, served, server>>
  BY DEF ReadLine
<1>3. wire \in Seq(Seq(Words)) /\ lines \in Seq(Metadata) /\ now.client \in Nat
  BY FtpAssumption DEF TypeOK, Clocks
<1>4. /\ Len(wire) >= 1 /\ Len(wire) \in Nat /\ Len(wire') = Len(wire) - 1
      /\ \A i \in 1..(Len(wire) - 1) : wire'[i] = wire[i + 1]
      /\ Head(wire) \in Seq(Words)
  BY <1>2, <1>3, TailFacts
<1>5. m \in Metadata
  BY <1>3, <1>4, FromStrType
<1>6. /\ Len(lines') = Len(lines) + 1 /\ Len(lines) \in Nat
      /\ \A i \in 1..Len(lines) : lines'[i] = lines[i]
      /\ lines'[Len(lines) + 1] = m
  BY <1>1, <1>3, <1>5, AppendFacts
<1>7. \A line, i, s : Wrote(line, i, s) => Wrote(line, i, s)'
  BY <1>2 DEF Wrote
<1>8. \A x, i, s : Right(x, i, s) => Right(x, i, s)'
  BY <1>2 DEF Right
<1>9. \A i \in 1..Len(lines') : Right(lines'[i], i, served)
  <2>1. \A i \in 1..Len(lines') : i \in 1..Len(lines) \/ i = Len(lines) + 1
    BY <1>6
  <2>2. Right(m, Len(lines) + 1, served)
    BY <1>2, NextLine
  <2>3. \A i \in 1..Len(lines) : Right(lines[i], i, served)
    BY DEF Delivery
  <2>4. QED
    BY <1>6, <2>1, <2>2, <2>3
<1>10. \A i \in 1..Len(wire') : Wrote(wire'[i], Len(lines') + i, served)
  <2>1. \A i \in 1..Len(wire') : i + 1 \in 1..Len(wire) /\ wire'[i] = wire[i + 1]
    BY <1>4
  <2>2. \A i \in 1..Len(wire') : Len(lines) + (i + 1) = Len(lines') + i
    BY <1>6
  <2>3. \A i \in 1..Len(wire) : Wrote(wire[i], Len(lines) + i, served)
    BY DEF Delivery
  <2>4. QED
    BY <2>1, <2>2, <2>3
<1>11. Len(lines') + Len(wire') = Len(lines) + Len(wire)
  BY <1>4, <1>6
<1>12. QED
  BY <1>2, <1>7, <1>8, <1>9, <1>10, <1>11 DEF Delivery

(* A line that is sent, whole or not                                       *)
LEMMA LineSent ==
  ASSUME TypeOK, Delivery, server = "sending", served < Len(listing),
         NEW n \in 0..Len(Line(listing[served + 1], now.server)),
         wire' = Append(wire, SubSeq(Line(listing[served + 1], now.server), 1, n)),
         UNCHANGED <<lines, listing>>,
         \/ served' = served + 1 /\ n = Len(Line(listing[served + 1], now.server))
         \/ served' = served /\ server' = "done"
  PROVE  Delivery'
<1>1. PICK line \in Seq(Words) : line = Line(listing[served + 1], now.server)
  BY LinePart
<1>2. PICK part \in Seq(Words) : part = SubSeq(line, 1, n)
  <2>1. n \in Nat /\ n <= Len(line)
    BY <1>1
  <2>2. QED
    BY <1>1, <2>1, LinePart
<1>3. /\ wire \in Seq(Seq(Words)) /\ lines \in Seq(Metadata)
      /\ now.server \in FirstMonth..LastMonth /\ served \in Nat
  BY DEF TypeOK, Clocks
<1>4. /\ Len(wire') = Len(wire) + 1 /\ Len(wire) \in Nat /\ Len(lines) \in Nat
      /\ \A i \in 1..Len(wire) : wire'[i] = wire[i]
      /\ wire'[Len(wire) + 1] = part
  BY <1>1, <1>2, <1>3, AppendFacts
<1>5. Len(lines) + Len(wire) = served
  BY DEF Delivery
<1>6. Len(lines') + Len(wire') = served + 1
  BY <1>4, <1>5
<1>7. \A i \in 1..Len(lines') : Right(lines'[i], i, served')
  <2>1. \A i \in 1..Len(lines) : i <= served /\ Right(lines[i], i, served)
    BY <1>3, <1>4, <1>5 DEF Delivery
  <2>2. QED
    BY <2>1 DEF Right
<1>8. \A i \in 1..Len(wire') : Wrote(wire'[i], Len(lines') + i, served')
  <2>1. ASSUME NEW i \in 1..Len(wire) PROVE Wrote(wire'[i], Len(lines') + i, served')
    <3>1. Len(lines) + i <= served
      BY <1>4, <1>5
    <3>2. Wrote(wire[i], Len(lines) + i, served)
      BY DEF Delivery
    <3>3. Wrote(wire[i], Len(lines) + i, served')
      BY <3>1, <3>2 DEF Wrote
    <3>4. QED
      BY <1>4, <3>3
  <2>2. Wrote(part, served + 1, served')
    <3>1. served + 1 <= served' => n = Len(Line(listing[served + 1], now.server))
      BY <1>3
    <3>2. QED
      BY <1>1, <1>2, <1>3, <3>1 DEF Wrote
  <2>3. Len(lines') + (Len(wire) + 1) = served + 1
    BY <1>4, <1>5
  <2>4. \A i \in 1..Len(wire') : i \in 1..Len(wire) \/ i = Len(wire) + 1
    BY <1>4
  <2>5. QED
    BY <1>4, <2>1, <2>2, <2>3, <2>4
<1>9. \A line1, i, s : Wrote(line1, i, s) => Wrote(line1, i, s)'
  BY DEF Wrote
<1>10. \A x, i, s : Right(x, i, s) => Right(x, i, s)'
  BY DEF Right
<1>11. Len(lines') + Len(wire') = served' + 1 => served' < Len(listing') /\ server' \in {"done", "gone"}
  BY <1>3, <1>6
<1>12. QED
  BY <1>3, <1>6, <1>7, <1>8, <1>9, <1>10, <1>11 DEF Delivery

(* Every step leaves the lines read and the lines on the wire in order *)
LEMMA NextDelivery ==
  ASSUME TypeOK, Delivery, [Next]_vars
  PROVE  Delivery'
<1> USE DEF vars, client, setting, ctl, dat, srv
<1> DEFINE Same == /\ UNCHANGED <<lines, wire, listing, served>>
                   /\ server \in {"done", "gone"} => server' \in {"done", "gone"}
<1>1. CASE GivesUp
  BY <1>1, SameDelivery DEF GivesUp
<1>2. CASE Connect \/ Welcome \/ Send \/ Accepted \/ Dial \/ ReadEnds
  <2>1. UNCHANGED <<lines, wire, listing, served, server>>
    BY <1>2 DEF Connect, Welcome, Send, Accepted, Dial, ReadEnds
  <2>2. QED
    BY <2>1, SameDelivery
<1>3. CASE ReadLine
  BY <1>3, ReadLineDelivery
<1>4. ASSUME NEW code \in Codes, Greet(code) \/ RefuseListing(code) PROVE Delivery'
  <2>1. Same
    BY <1>4 DEF Greet, RefuseListing
  <2>2. QED
    BY <2>1, SameDelivery
<1>5. ASSUME NEW code \in Codes, NEW text \in Texts(code), Obey(code, text) PROVE Delivery'
  BY <1>5, SameDelivery DEF Obey
<1>6. CASE OpenListing \/ StartListing \/ Goodbye
  <2>1. Same
    BY <1>6 DEF OpenListing, StartListing, Goodbye
  <2>2. QED
    BY <2>1, SameDelivery
<1>7. CASE SendLine
  <2>1. PICK n \in Nat : n = Len(Line(listing[served + 1], now.server))
    BY <1>7, LinePart DEF SendLine
  <2>2. SubSeq(Line(listing[served + 1], now.server), 1, n) = Line(listing[served + 1], now.server)
    BY <1>7, <2>1, LinePart, SubSeqFull DEF SendLine
  <2>3. QED
    BY <1>7, <2>1, <2>2, LineSent DEF SendLine
<1>8. CASE CloseData \/ ConfirmListing \/ Vanish \/ Reset \/ Tick \/ UNCHANGED vars
  <2>1. Same
    BY <1>8 DEF CloseData, ConfirmListing, Vanish, Reset, Tick
  <2>2. QED
    BY <2>1, SameDelivery
<1>9. ASSUME NEW words \in Aborts, AbortListing(words) PROVE Delivery'
  <2>1. CASE words = 0
    <3>1. Same
      BY <1>9, <2>1 DEF AbortListing
    <3>2. QED
      BY <3>1, SameDelivery
  <2>2. CASE words # 0
    <3>1. Line(listing[served + 1], now.server) \in Seq(Words) /\ words \in Nat
      BY <1>9, LinePart, FtpAssumption DEF AbortListing
    <3>2. words \in 0..Len(Line(listing[served + 1], now.server))
      BY <1>9, <3>1 DEF AbortListing
    <3>3. QED
      BY <1>9, <2>2, <3>2, LineSent DEF AbortListing
  <2>3. QED
    BY <2>1, <2>2
<1> HIDE DEF vars
<1>10. QED
  BY <1>1, <1>2, <1>3, <1>4, <1>5, <1>6, <1>7, <1>8, <1>9, Steps

-------------------------------------------------------------------------------
(* What a 227 with the server's own text leaves is the server's address    *)
LEMMA HomeQuoted ==
  ASSUME NEW r, r.text \in Quotes
  PROVE  SocketAddr(r) = Home
<1>1. PICK away : away = [Home EXCEPT !.ip = Unspecified]
  OBVIOUS
<1>2. /\ Home \in Addresses /\ Home.port <= MaxU16 /\ Home.ip # Unspecified
      /\ away \in Addresses /\ away.port = Home.port /\ away.ip = Unspecified
  <2>1. Unspecified \in [1..4 -> 0..MaxU8]
    BY DEF Unspecified, MaxU8
  <2>2. QED
    BY <1>1, <2>1, FtpAssumption DEF Addresses
<1>3. Home.port \in Nat /\ Home.port % (MaxU16 + 1) = Home.port
  <2>1. Home.port \in Nat
    BY <1>2 DEF Addresses
  <2>2. \A x \in Nat : x <= 65535 => x % (65535 + 1) = x
    OBVIOUS
  <2>3. QED
    BY <1>2, <2>1, <2>2 DEF MaxU16
<1>4. Wrapped(Home) = Home /\ Wrapped(away) = away
  BY <1>2, <1>3 DEF Wrapped, Addresses
<1>5. [away EXCEPT !.ip = Home.ip] = Home
  BY <1>1, <1>2 DEF Addresses
<1>6. \/ Passive(r.text) = {Home}
      \/ Passive(r.text) = {away}
  BY <1>1, <1>2, PassiveQuote DEF Quotes
<1>7. PICK a \in Passive(r.text) :
        SocketAddr(r) = IF a.ip = Unspecified THEN [Wrapped(a) EXCEPT !.ip = Home.ip] ELSE Wrapped(a)
  BY <1>6, SocketAddrIs
<1>8. QED
  BY <1>2, <1>4, <1>5, <1>6, <1>7

(* The session has just begun *)
LEMMA InitProgress == Init => Progress
BY ScriptIs DEF Init, Progress, ListStep

(* A reply that is accepted carries the session on                         *)
LEMMA AcceptedProgress ==
  ASSUME TypeOK, Turns, Truthful, Progress, Accepted
  PROVE  Progress'
<1> USE DEF setting, ctl, dat, srv
<1>0. step \in 1..9 /\ Len(Script) = 9 /\ ListStep = 7 /\ step \in 1..Len(Script)
  BY ScriptIs DEF TypeOK, ListStep
<1>1. PICK r : r = Head(replies)
  OBVIOUS
<1>2. /\ pc = "reply" /\ replies # <<>> /\ r.code \in Accepts[Script[step]] /\ Note(r)
      /\ UNCHANGED <<wire, data, served, listing, peer>>
  BY <1>1 DEF Accepted, TakeReply, Reply
<1>3. Means(r) /\ r.to = Answered(step + 1)
  <2>1. 1 \in 1..Len(replies)
    BY <1>2, TailFacts DEF TypeOK
  <2>2. Means(replies[1])
    BY <2>1 DEF Truthful
  <2>3. NumRead = step
    BY <1>2 DEF NumRead
  <2>4. QED
    BY <1>1, <1>2, <2>2, <2>3, FirstReply
<1>4. /\ step = 7 => step' = 7 /\ pc' = "dial" /\ result' = result
      /\ step = 9 => step' = 9 /\ pc' = "returned" /\ result' = "ok"
      /\ step \notin {7, 9} => step' = step + 1 /\ pc' = "send" /\ result' = result
  BY <1>0 DEF Accepted, Return
<1>5. step' > 7 => wire' = <<>> /\ data' = "eof"
  <2>1. step' > 7 => step > 7
    BY <1>0, <1>4
  <2>2. QED
    BY <1>0, <1>2, <2>1 DEF Progress
<1>6. step' > 8 => served' = Len(listing')
  <2>1. CASE step = 8
    <3>1. r.code \in {221, 226}
      BY <1>2, <2>1, ScriptIs, AcceptsIs
    <3>2. r.to = 7
      BY <1>0, <1>3, <2>1 DEF Answered
    <3>3. r.code = 226
      BY <1>0, <1>3, <3>1, <3>2 DEF Means
    <3>4. QED
      BY <1>2, <1>3, <3>3 DEF Means
  <2>2. CASE step # 8
    <3>1. step' > 8 => step > 8
      BY <1>0, <1>4, <2>2
    <3>2. QED
      BY <1>0, <1>2, <3>1 DEF Progress
  <2>3. QED
    BY <2>1, <2>2
<1>7. result' = "ok" => step' = 9 /\ pc' = "returned"
  <2>1. result # "ok"
    BY <1>2 DEF Progress
  <2>2. QED
    BY <1>0, <1>4, <2>1
<1>8. step' >= 7 /\ ~MayMisquote => address' = Home
  <2> SUFFICES ASSUME step' >= 7, ~MayMisquote PROVE address' = Home
    OBVIOUS
  <2>1. CASE step = 6
    <3>1. r.code = 227
      BY <1>2, <2>1, ScriptIs, AcceptsIs
    <3>2. r.text \in Quotes
      BY <1>3, <3>1 DEF Means
    <3>3. QED
      BY <1>2, <3>1, <3>2, HomeQuoted DEF Note
  <2>2. CASE step # 6
    <3>1. r.code # 227
      BY <1>0, <1>2, <2>2, StepAccepts
    <3>2. step >= 7
      BY <1>0, <1>4, <2>2
    <3>3. QED
      BY <1>0, <1>2, <3>1, <3>2 DEF Note, Progress
  <2>3. QED
    BY <2>1, <2>2
<1>9. MayMisquote' = MayMisquote
  BY <1>2 DEF MayMisquote
<1>10. QED
  BY <1>0, <1>5, <1>6, <1>7, <1>8, <1>9 DEF Progress

(* No step is taken before the one that it needs *)
LEMMA NextProgress ==
  ASSUME TypeOK, Turns, Truthful, Progress, [Next]_vars
  PROVE  Progress'
<1> USE DEF vars, client, setting, ctl, dat, srv
<1>0. step \in 1..9 /\ Len(Script) = 9 /\ ListStep = 7 /\ step \in 1..Len(Script)
  BY ScriptIs DEF TypeOK, ListStep
<1>1. CASE GivesUp
  BY <1>0, <1>1 DEF GivesUp, Progress, MayMisquote
<1>2. CASE Connect
  BY <1>0, <1>2 DEF Connect, Progress, MayMisquote
<1>3. CASE Welcome
  BY <1>0, <1>3 DEF Welcome, Progress, MayMisquote
<1>4. CASE Send
  BY <1>0, <1>4 DEF Send, Progress, MayMisquote
<1>5. CASE Accepted
  BY <1>5, AcceptedProgress
<1>6. CASE Dial
  BY <1>0, <1>6 DEF Dial, Progress, Turns, MayMisquote
<1>7. CASE ReadLine
  BY <1>0, <1>7 DEF ReadLine, Progress, Turns, MayMisquote
<1>8. CASE ReadEnds
  BY <1>0, <1>8 DEF ReadEnds, Progress, Turns, MayMisquote
<1>9. ASSUME NEW code \in Codes, Greet(code) \/ RefuseListing(code) PROVE Progress'
  BY <1>0, <1>9 DEF Greet, RefuseListing, Progress, MayMisquote
<1>10. ASSUME NEW code \in Codes, NEW text \in Texts(code), Obey(code, text) PROVE Progress'
  BY <1>0, <1>10 DEF Obey, Progress, MayMisquote
<1>11. CASE OpenListing \/ StartListing \/ Goodbye \/ ConfirmListing
  BY <1>0, <1>11 DEF OpenListing, StartListing, Goodbye, ConfirmListing, Progress, MayMisquote
<1>12. CASE SendLine
  BY <1>0, <1>12 DEF SendLine, Progress, MayMisquote
<1>13. CASE CloseData
  BY <1>0, <1>13 DEF CloseData, Progress, MayMisquote
<1>14. ASSUME NEW words \in Aborts, AbortListing(words) PROVE Progress'
  BY <1>0, <1>14 DEF AbortListing, Progress, MayMisquote
<1>15. CASE Vanish
  BY <1>0, <1>15 DEF Vanish, Progress, MayMisquote
<1>16. CASE Reset \/ Tick \/ UNCHANGED vars
  BY <1>0, <1>16 DEF Reset, Tick, Progress, MayMisquote
<1> HIDE DEF vars
<1>17. QED
  BY <1>1, <1>2, <1>3, <1>4, <1>5, <1>6, <1>7, <1>8, <1>9, <1>10, <1>11, <1>12, <1>13, <1>14,
     <1>15, <1>16, Steps

-------------------------------------------------------------------------------
(* The invariant of a session                                              *)
LEMMA SessionInvariant == Spec => []SessionInv
<1>1. Init => SessionInv
  BY InitTypeOK, InitTurns, InitTruthful, InitDelivery, InitProgress DEF SessionInv
<1>2. SessionInv /\ [Next]_vars => SessionInv'
  <2> SUFFICES ASSUME SessionInv, [Next]_vars PROVE SessionInv'
    OBVIOUS
  <2> USE DEF SessionInv
  <2>1. TypeOK' /\ Turns'
    BY Steps, ClientTypeOK, ServerTypeOK, ClientTurns, AnswersTurns, TransfersTurns
  <2>2. Truthful' /\ Delivery' /\ Progress'
    BY NextTruthful, NextDelivery, NextProgress
  <2>3. QED
    BY <2>1, <2>2
<1>3. QED
  BY <1>1, <1>2, PTL DEF Spec

(* The variables of a session keep to their types                          *)
THEOREM TypeCorrect == Spec => []TypeOK
BY SessionInvariant, PTL DEF SessionInv

(* A listing that get_files returns is the whole directory, file by file   *)
THEOREM NothingMissing == Spec => []OkMeansComplete
<1>1. SessionInv => OkMeansComplete
  <2> SUFFICES ASSUME SessionInv, result = "ok"
               PROVE  /\ Len(lines) = Len(listing)
                      /\ \A i \in DOMAIN lines : Describes(lines[i], listing[i])
    BY DEF OkMeansComplete
  <2> USE DEF SessionInv
  <2>1. step = 9
    BY ScriptIs DEF Progress
  <2>2. wire = <<>> /\ served = Len(listing)
    BY <2>1 DEF Progress, ListStep
  <2>3. Len(lines) \in Nat /\ DOMAIN lines = 1..Len(lines) /\ Len(wire) = 0 /\ served \in Nat
    BY <2>2 DEF TypeOK
  <2>4. Len(lines) = served
    <3>1. PICK k \in Nat : k = Len(lines)
      BY <2>3
    <3>2. PICK l \in Nat : l = Len(wire)
      BY <2>3
    <3>3. PICK n \in Nat : n = served
      BY <2>3
    <3>4. k + l \in {n, n + 1} /\ (k + l = n + 1 => n < Len(listing))
      BY <3>1, <3>2, <3>3 DEF Delivery
    <3>5. ~(n < Len(listing)) /\ l = 0
      BY <2>2, <2>3, <3>2, <3>3
    <3>6. k + l = n
      BY <3>4, <3>5
    <3>7. QED
      BY <3>1, <3>3, <3>5, <3>6
  <2>5. \A i \in 1..Len(lines) : i <= served /\ Right(lines[i], i, served)
    BY <2>3, <2>4 DEF Delivery
  <2>6. QED
    BY <2>2, <2>3, <2>4, <2>5 DEF Right
<1>2. QED
  BY <1>1, SessionInvariant, PTL

(* The steps other than ReadLine leave the lines as they are *)
LEMMA LinesKept ==
  ASSUME [Next]_vars, ~ReadLine
  PROVE  UNCHANGED lines
<1> USE DEF vars, client, setting, ctl, dat, srv
<1>1. CASE GivesUp
  BY <1>1 DEF GivesUp
<1>2. CASE Connect \/ Welcome \/ Send \/ Accepted \/ Dial \/ ReadEnds
  BY <1>2 DEF Connect, Welcome, Send, Accepted, Dial, ReadEnds
<1>3. ASSUME NEW code \in Codes, Greet(code) \/ RefuseListing(code) PROVE UNCHANGED lines
  BY <1>3 DEF Greet, RefuseListing
<1>4. ASSUME NEW code \in Codes, NEW text \in Texts(code), Obey(code, text) PROVE UNCHANGED lines
  BY <1>4 DEF Obey
<1>5. CASE OpenListing \/ StartListing \/ Goodbye
  BY <1>5 DEF OpenListing, StartListing, Goodbye
<1>6. CASE SendLine \/ CloseData \/ ConfirmListing \/ Vanish \/ Reset \/ Tick \/ UNCHANGED vars
  BY <1>6 DEF SendLine, CloseData, ConfirmListing, Vanish, Reset, Tick
<1>7. ASSUME NEW words \in Aborts, AbortListing(words) PROVE UNCHANGED lines
  BY <1>7 DEF AbortListing
<1> HIDE DEF vars
<1>8. QED
  BY <1>1, <1>2, <1>3, <1>4, <1>5, <1>6, <1>7, Steps

(* DatesOffByClocks: the line that is read was written at some month of the*)
(* server's clock, which is within half a year of the client's.            *)
THEOREM DatesOffByAYear == Spec => DatesOffByClocks
<1>1. SessionInv /\ [Next]_vars =>
        [lines' # lines =>
           OffByClocks(lines'[Len(lines')].date, listing[Len(lines')].modified, now.client)]_vars
  <2> SUFFICES ASSUME SessionInv, [Next]_vars, lines' # lines
               PROVE  OffByClocks(lines'[Len(lines')].date, listing[Len(lines')].modified, now.client)
    OBVIOUS
  <2> USE DEF SessionInv
  <2>1. ReadLine
    BY LinesKept
  <2>2. PICK m \in from_str(Head(wire), now.client) : lines' = Append(lines, m)
    BY <2>1 DEF ReadLine
  <2>3. OffByClocks(m.date, listing[Len(lines) + 1].modified, now.client)
    BY <2>1, <2>2, NextLine DEF ReadLine
  <2>4. wire \in Seq(Seq(Words)) /\ lines \in Seq(Metadata) /\ now.client \in Nat /\ wire # <<>>
    BY <2>1, FtpAssumption DEF TypeOK, Clocks, ReadLine
  <2>5. Head(wire) \in Seq(Words)
    BY <2>4, TailFacts
  <2>6. m \in Metadata
    BY <2>2, <2>4, <2>5, FromStrType
  <2>7. Len(lines') = Len(lines) + 1 /\ lines'[Len(lines) + 1] = m
    BY <2>2, <2>4, <2>6, AppendFacts
  <2>8. QED
    BY <2>3, <2>7
<1>2. QED
  BY <1>1, SessionInvariant, PTL DEF Spec, DatesOffByClocks

(* A server that writes where it is is dialled there                       *)
THEOREM DialsHome == Spec => []DialsTheServer
<1>1. SessionInv => DialsTheServer
  <2> SUFFICES ASSUME SessionInv, pc = "dial", ~MayMisquote PROVE address = Home
    BY DEF DialsTheServer
  <2>1. step = 7
    BY DEF SessionInv, Turns, ListStep
  <2>2. QED
    BY <2>1 DEF SessionInv, Progress, ListStep
<1>2. QED
  BY <1>1, SessionInvariant, PTL

(* The session reads each reply in its turn, one late after LIST           *)
THEOREM OneBehind == Spec => BehindByOne
<1>1. SessionInv /\ [Next]_vars =>
        [pc = "reply" /\ pc' # "reply" /\ replies # <<>> =>
           Head(replies).to = IF step <= ListStep THEN step ELSE step - 1]_vars
  <2> SUFFICES ASSUME SessionInv, pc = "reply", replies # <<>>
               PROVE  Head(replies).to = IF step <= ListStep THEN step ELSE step - 1
    OBVIOUS
  <2>1. step \in 1..9
    BY ScriptIs DEF SessionInv, TypeOK
  <2>2. Head(replies).to = Answered(NumRead + 1)
    BY FirstReply DEF SessionInv
  <2>3. NumRead = step
    BY DEF NumRead
  <2>4. QED
    BY <2>1, <2>2, <2>3 DEF Answered, ListStep
<1>2. QED
  BY <1>1, SessionInvariant, PTL DEF Spec, BehindByOne

(* The address that a reply leaves is the one its text says                *)
LEMMA NextSaysSo ==
  SessionInv /\ [Next]_vars => (address' # address => SaidBy(Head(replies).text))
<1> SUFFICES ASSUME SessionInv, [Next]_vars, address' # address
             PROVE  SaidBy(Head(replies).text)
  OBVIOUS
<1>1. Accepted
  BY Steps DEF GivesUp, Connect, Welcome, Send, Dial, ReadLine, ReadEnds, Greet, RefuseListing,
     Obey, OpenListing, StartListing, Goodbye, SendLine, CloseData, ConfirmListing,
     AbortListing, Vanish, Reset, Tick, vars, client
<1>2. PICK r : r = Head(replies)
  OBVIOUS
<1>3. r.code = 227 /\ ~Rejected(r) /\ ~Panics(r) /\ address' = SocketAddr(r)
  BY <1>1, <1>2 DEF Accepted, TakeReply, Reply, Note
<1>4. r.text \in Seq(Int)
  <2>1. replies # <<>> /\ replies \in Seq(Replies)
    BY <1>1 DEF Accepted, TakeReply, SessionInv, TypeOK
  <2>2. r \in Replies
    BY <1>2, <2>1, TailFacts
  <2>3. QED
    BY <2>2 DEF Replies
<1>5. PICK q \in Passive(r.text) :
        SocketAddr(r) = IF q.ip = Unspecified THEN [Wrapped(q) EXCEPT !.ip = Home.ip] ELSE Wrapped(q)
  BY <1>3, SocketAddrIs DEF Rejected
<1>6. PICK i \in DOMAIN r.text : Numbers(r.text, i, q)
  BY <1>4, <1>5, PassiveFrom
<1>7. q \in Addresses /\ q.port \in Nat
  BY <1>5, PassiveType DEF Addresses
<1>8. Wrapped(q).port = q.port % (MaxU16 + 1) /\ Wrapped(q).ip = q.ip
  BY <1>7 DEF Wrapped, Addresses
<1>9. /\ address'.port = q.port % (MaxU16 + 1)
      /\ address'.ip # q.ip => q.ip = Unspecified /\ address'.ip = Home.ip
  <2>1. [Wrapped(q) EXCEPT !.ip = Home.ip].port = Wrapped(q).port
        /\ [Wrapped(q) EXCEPT !.ip = Home.ip].ip = Home.ip
    BY <1>7 DEF Wrapped, Addresses
  <2>2. QED
    BY <1>3, <1>5, <1>8, <2>1
<1>10. (q.port - address'.port) % (MaxU16 + 1) = 0
  <2>1. \A x \in Nat : (x - (x % (65535 + 1))) % (65535 + 1) = 0
    OBVIOUS
  <2>2. QED
    BY <1>7, <1>9, <2>1 DEF MaxU16
<1>11. build = "debug" => address'.port = q.port
  <2> SUFFICES ASSUME build = "debug" PROVE address'.port = q.port
    OBVIOUS
  <2>1. ~Overflows(q)
    BY <1>3, <1>5 DEF Panics, Breaks
  <2>2. \A x \in Nat : ~(x > 65535) => x % (65535 + 1) = x
    OBVIOUS
  <2>3. QED
    BY <1>7, <1>9, <2>1, <2>2 DEF Overflows, MaxU16
<1>12. PICK text : text = r.text
  OBVIOUS
<1>13. text[i + 2 * 5 - 1] = text[i + 9] /\ text[i + 2 * 6 - 1] = text[i + 11]
  <2>1. i \in Int
    BY <1>4, <1>6
  <2>2. i + 2 * 5 - 1 = i + 9 /\ i + 2 * 6 - 1 = i + 11
    BY <2>1
  <2>3. QED
    BY <2>2
<1>14. /\ At(text, Open) = {i} /\ At(text, Close) = {i + 12}
       /\ \A k \in 1..6 : text[i + 2 * k - 1] \in Nat
       /\ \A k \in 1..5 : text[i + 2 * k] = Comma
       /\ q.ip = [k \in 1..4 |-> text[i + 2 * k - 1]]
       /\ q.port = text[i + 2 * 5 - 1] * 256 + text[i + 2 * 6 - 1]
  BY <1>6, <1>12, <1>13 DEF Numbers
<1>15. i \in DOMAIN text /\ text = Head(replies).text
  BY <1>2, <1>6, <1>12
<1>16. PICK ip, port : /\ ip = [k \in 1..4 |-> text[i + 2 * k - 1]]
                      /\ port = text[i + 2 * 5 - 1] * 256 + text[i + 2 * 6 - 1]
  OBVIOUS
<1>17. /\ build = "debug" => address'.port = port
       /\ (port - address'.port) % (MaxU16 + 1) = 0
       /\ address'.ip # ip => ip = Unspecified /\ address'.ip = Home.ip
  BY <1>9, <1>10, <1>11, <1>14, <1>16
<1>18. SaidBy(text)
  BY <1>14, <1>15, <1>16, <1>17 DEF SaidBy
<1>19. QED
  BY <1>15, <1>18

(* A 227 is accepted only for what it says                                 *)
THEOREM PassiveHonest == Spec => PassiveSaysSo
<1>1. SessionInv /\ [Next]_vars => [address' # address => SaidBy(Head(replies).text)]_vars
  BY NextSaysSo
<1>2. QED
  BY <1>1, SessionInvariant, PTL DEF Spec, PassiveSaysSo
===============================================================================
