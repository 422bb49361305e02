-------------------------------- MODULE MCJpeg --------------------------------
(* Values of the constants of JpegStream for TLC *)
EXTENDS JpegStream

(* Whole markers, parts of them, and other bytes, in any order: pictures   *)
(* with something before, in and after them, with an end marker too many,  *)
(* with a start marker inside                                              *)
Pieces == {JPEG_START_MARKER, JPEG_END_MARKER, <<"xx">>, <<"ff">>, <<"ff", "d8">>}

Mixtures == {<<Jpeg(FlattenSeq(p))>> : p \in UNION {[1..n -> Pieces] : n \in 0..5}}

(* Fields of four bytes, so that a picture fits into what comes before the *)
(* last byte of the two: texts that are shorter, that fill a field, that   *)
(* are cut, in the middle of a character too, and that end with a zero     *)
Texts == {<<>>, <<"xx">>, <<"c3", "a9", "c3", "a9">>, <<"xx", "xx", "xx", "c3", "a9">>,
          <<"xx", "00">>, <<"xx", "xx", "xx", "xx", "xx">>}

Picture(inner) == Jpeg(JPEG_START_MARKER \o inner \o JPEG_END_MARKER)

(* Clean pictures (the second holds a start marker, the third the header   *)
(* of an authentication packet) and two that are not                       *)
Pictures ==
  {Picture(<<>>), Picture(<<"ff", "d8", "ff", "e0">>), Picture(<<"auth", "ff">>),
   Picture(<<"ff", "d9", "xx">>), Jpeg(<<"xx", "ff">>)}

Logins == {Auth(u, a) : u, a \in Texts}

CameraSendings ==
  Mixtures \cup {<<l, p, q>> : l \in Logins, p, q \in Pictures}
           \cup {<<p, l, q>> : l \in {Auth(<<"xx">>, <<"xx">>)}, p, q \in Pictures}

(* What these peers send is within the hypothesis of ChunkIndependent      *)
ASSUME SendingsAssumption == NoPictureInLogin
===============================================================================
