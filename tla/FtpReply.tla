-------------------------------- MODULE FtpReply --------------------------------
(***************************************************************************)
(* `FtpResponse::from_response_string` (src/file/ftp/codec.rs) on the text *)
(* of a 227 reply: the only text the client reads.  A text is a sequence   *)
(* of tokens: numbers, the three signs that matter, and Word for anything  *)
(* else that stands between them.                                          *)
(***************************************************************************)
EXTENDS Integers, SequencesExt

Open == -1
Close == -2
Comma == -3
Word == -4

Signs == {Open, Close, Comma, Word}

MaxU8 == 255
MaxU16 == 65535

Addresses == [ip : [1..4 -> 0..MaxU8], port : Nat]

At(text, sign) == {i \in DOMAIN text : text[i] = sign}

(* Mutant of Pairs: what follows the pair is not looked at                 *)
FirstPair(text) ==
  {p \in At(text, Open) \X At(text, Close) :
     p[1] < p[2] /\ \A i \in 1..(p[2] - 1) : i \in At(text, Open) \cup At(text, Close) => i = p[1]}

(* The parentheses of a text that has exactly one pair, in the right order *)
Pairs(text) ==
  {p \in At(text, Open) \X At(text, Close) :
     p[1] < p[2] /\ At(text, Open) = {p[1]} /\ At(text, Close) = {p[2]}}

(* What stands between the commas of `data`, one part for each comma more  *)
Parts(data) ==
  LET f[i \in 0..Len(data)] ==
        IF i = 0 THEN <<<<>>>>
        ELSE IF data[i] = Comma THEN Append(f[i - 1], <<>>)
        ELSE [f[i - 1] EXCEPT ![Len(f[i - 1])] = Append(@, data[i])]
  IN f[Len(data)]

(* `part.parse()` into an unsigned integer yields a value *)
Parses(part, limit) == Len(part) = 1 /\ part[1] \in 0..limit

(* The six parts of the text, none if they are not what they must be *)
Fields(text) ==
  {parts \in {Parts(SubSeq(text, p[1] + 1, p[2] - 1)) : p \in Pairs(text)} :
     /\ Len(parts) = 6
     /\ \A i \in 1..4 : Parses(parts[i], MaxU8)
     /\ \A i \in 5..6 : Parses(parts[i], MaxU16)}

(* The address of a 227, none if the text is invalid.  Its port is what    *)
(* the sum would be if u16 could hold it.                                  *)
Passive(text) ==
  {[ip   |-> [i \in 1..4 |-> parts[i][1]],
    port |-> parts[5][1] * 256 + parts[6][1]] : parts \in Fields(text)}

Unspecified == <<0, 0, 0, 0>>

(* `port_hi * 256 + port_lo` overflows: a panic in a debug build ...       *)
Overflows(address) == address.port > MaxU16

(* ... and another port in a release build *)
Wrapped(address) == [address EXCEPT !.port = @ % (MaxU16 + 1)]

-------------------------------------------------------------------------------
(* What a server that listens at `address` writes (external) *)
Quote(address) ==
  LET ip == address.ip
  IN <<Word, Open, ip[1], Comma, ip[2], Comma, ip[3], Comma, ip[4], Comma,
       address.port \div 256, Comma, address.port % 256, Close>>
===============================================================================
