-------------------------------- MODULE FileList --------------------------------
(***************************************************************************)
(* A line of a directory listing and `FileMetadata::from_str`, which reads *)
(* it (src/file/ftp/metadata.rs).  A line is a sequence of words; months   *)
(* are counted from the year 0.                                            *)
(***************************************************************************)
EXTENDS Integers, Sequences

(* A word by what it parses as: "chmod" has ten characters, `mode` are the *)
(* positions where from_chmod finds the letter it looks for; "number" is   *)
(* `num`, "month" the name of a month, "time" contains a colon.  `num`     *)
(* tells texts apart.                                                      *)
Words == [kind : {"chmod", "number", "month", "time", "text", "blank"},
          num : Nat, mode : SUBSET (0..9)]

Plain(kind, num) == [kind |-> kind, num |-> num, mode |-> {}]
Chmod(mode) == [kind |-> "chmod", num |-> 0, mode |-> mode]
Blank == Plain("blank", 0)

Year(month) == month \div 12

Metadata == [chmod : [directory : BOOLEAN, readable : BOOLEAN,
                      writable : BOOLEAN, executable : BOOLEAN],
             user : Nat, group : Nat, size : Nat, date : Nat, filename : Seq(Words)]

from_chmod(mode) ==
  [directory  |-> 0 \in mode,
   readable   |-> {1, 4, 7} \subseteq mode,
   writable   |-> {2, 5, 8} \subseteq mode,
   executable |-> {3, 6, 9} \subseteq mode]

(* 0o444, 0o222 and 0o111 *)
to_octal(permissions) ==
    (IF permissions.readable THEN 292 ELSE 0)
  + (IF permissions.writable THEN 146 ELSE 0)
  + (IF permissions.executable THEN 73 ELSE 0)

(* split_whitespace *)
Split(line) ==
  LET f[i \in 0..Len(line)] ==
        IF i = 0 THEN <<>>
        ELSE IF line[i] = Blank THEN f[i - 1] ELSE Append(f[i - 1], line[i])
  IN f[Len(line)]

(* join(" ") *)
Join(parts) ==
  [i \in 1..(2 * Len(parts) - 1) |-> IF i % 2 = 1 THEN parts[(i + 1) \div 2] ELSE Blank]

(* Mutant of Date: the year that a line gives is passed over *)
DateThisYear(parts, today) == 12 * Year(today) + parts[6].num

(* A time stands for a day of the current year, whatever the month *)
Date(parts, today) ==
  12 * (IF parts[8].kind = "time" THEN Year(today) ELSE parts[8].num) + parts[6].num

Valid(parts) ==
  /\ Len(parts) >= 9
  /\ parts[1].kind = "chmod" /\ parts[5].kind = "number"
  /\ parts[6].kind = "month" /\ parts[7].kind = "number"
  /\ parts[8].kind \in {"number", "time"}

(* The metadata of a line read today, none if it does not parse *)
from_str(line, today) ==
  {[chmod |-> from_chmod(p[1].mode), user |-> p[3].num, group |-> p[4].num,
    size |-> p[5].num, date |-> Date(p, today),
    filename |-> Join(SubSeq(p, 9, Len(p)))] : p \in {q \in {Split(line)} : Valid(q)}}

-------------------------------------------------------------------------------
(* The server's side (external).  A user or a group is not called like a   *)
(* month and may contain blanks; what is listed is a file or a total.      *)
Owners ==
  {o \in Seq({w \in Words : w.kind = "text" /\ w.mode = {}} \cup {Blank}) :
     o # <<>> /\ o[1] # Blank /\ o[Len(o)] # Blank}

Entries == [type : {"file", "total"}, mode : SUBSET (0..9),
            user : Owners, group : Owners,
            size : Nat, modified : Nat, name : Seq(Words)]

(* ls: the time of what is less than six months old, else, and for what is *)
(* still to come, the year                                                 *)
Stamp(modified, today) ==
  IF today - modified \in 0..5 THEN Plain("time", 0) ELSE Plain("number", Year(modified))

Line(e, today) ==
  IF e.type = "total" THEN <<Plain("text", 0), Blank, Plain("number", e.size)>>
  ELSE Join(<<Chmod(e.mode), Plain("number", 1)>>)
       \o <<Blank>> \o e.user \o <<Blank>> \o e.group \o <<Blank>>
       \o Join(<<Plain("number", e.size), Plain("month", e.modified % 12),
                 Plain("number", 1), Stamp(e.modified, today)>>)
       \o <<Blank>> \o e.name
===============================================================================
