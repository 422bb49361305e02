--------------------------------- MODULE MCFtp ---------------------------------
(* Values of the constants of FtpSession for TLC *)
EXTENDS FtpProperties

Name(n) == Plain("text", n)

(* drw-rw-rw- of the test vectors, and -rwxr-x--- *)
Shared == {0, 1, 2, 4, 5, 7, 8}
Private == {1, 2, 3, 4, 6}

File(mode, modified, name) ==
  [type |-> "file", mode |-> mode, user |-> <<Name(1)>>, group |-> <<Name(2)>>,
   size |-> 7, modified |-> modified, name |-> name]

(* Files of this December, of last year and of the January to come; a name *)
(* with more than one blank; a line that is no file, and one that is       *)
(* shifted by the blank in its user                                        *)
December == 12 * 2024 + 11
Fresh == File(Private, December, <<Name(3), Blank, Blank, Name(4)>>)
Older == File(Shared, December - 21, <<Name(5)>>)
Newest == File(Private, December + 1, <<Name(6)>>)
Total == [Fresh EXCEPT !.type = "total"]
Shifted == [Fresh EXCEPT !.user = <<Name(1), Blank, Name(2)>>]

SmallListings ==
  {<<>>, <<Fresh>>, <<Older, Fresh>>, <<Newest, Fresh>>, <<Total, Older>>, <<Older, Total, Fresh>>,
   <<Older, Shifted>>}

AllPeers == SUBSET (Habits \ {"misquotes"}) \cup {{"misquotes"}, {"misquotes", "refuses"}}
OnePeer == {{}}

(* (192,168,1,2,4,3) of the tests *)
HomeAddress == [ip |-> <<192, 168, 1, 2>>, port |-> 1027]

Test == <<Word, Open, 192, Comma, 168, Comma, 1, Comma, 2, Comma, 4, Comma, 3, Close>>

ASSUME TestPasvResponse == Passive(Test) = {HomeAddress} /\ Test = Quote(HomeAddress)

(* A port that does not fit and one that does when taken modulo 2^16; no   *)
(* number, one too many, one too large, a word among them; parentheses     *)
(* missing, too many, in the wrong order                                   *)
BadQuotes ==
  {[Test EXCEPT ![11] = 300], [Test EXCEPT ![11] = 260], [Test EXCEPT ![13] = 259, ![11] = 3],
   [Test EXCEPT ![11] = 70000], [Test EXCEPT ![3] = 256], [Test EXCEPT ![5] = Word],
   Tail(Tail(Test)), Front(Test), Test \o <<Open>>, <<Close>> \o Test,
   Front(Test) \o <<Comma, 5, Close>>, [Test EXCEPT ![9] = Word], <<>>}

Cuts == {0, 1, 17, 19}
===============================================================================
