------------------------------ MODULE JpegStream ------------------------------
(***************************************************************************)
(* The camera stream: `CameraClient::connect_and_stream_codec`             *)
(* (src/camera.rs) and `JpegCodec` (src/camera/codec.rs) inside the Framed *)
(* that it returns.  TLS delivers the bytes in pieces of any size; Framed  *)
(* appends a piece to its buffer and calls decode until it wants more.     *)
(*                                                                         *)
(* Bytes are letters: those of the two markers, zero, the two of a         *)
(* character that takes two bytes, and "xx" for any other.  "auth" stands  *)
(* for the sixteen bytes (64, 12288, 0, 0) an authentication packet begins *)
(* with, "??" for U+FFFD.                                                  *)
(***************************************************************************)
EXTENDS Naturals, SequencesExt

CONSTANTS
  Sendings, \* what the peer may send in one connection: sequences of packets
  FieldLen  \* the length of a field of an authentication packet (32 bytes)

Bytes == {"ff", "d8", "e0", "d9", "xx", "00", "c3", "a9", "auth", "??"}

JPEG_START_MARKER == <<"ff", "d8", "ff", "e0">>
JPEG_END_MARKER == <<"ff", "d9">>

Auth(username, access_code) ==
  [type |-> "Auth", username |-> username, access_code |-> access_code]

Jpeg(bytes) == [type |-> "Jpeg", bytes |-> bytes]

CameraPackets ==
       [type : {"Auth"}, username : Seq(Bytes), access_code : Seq(Bytes)]
  \cup [type : {"Jpeg"}, bytes : Seq(Bytes)]

(* from_utf8_lossy: what is no character is replaced *)
Lossy(bytes) ==
  [i \in DOMAIN bytes |->
     IF \/ bytes[i] \in {"xx", "00"}
        \/ bytes[i] = "c3" /\ i < Len(bytes) /\ bytes[i + 1] = "a9"
        \/ bytes[i] = "a9" /\ i > 1 /\ bytes[i - 1] = "c3"
     THEN bytes[i] ELSE "??"]

(* Credentials are text (SmolStr), a picture is any bytes                  *)
ASSUME JpegAssumption ==
  /\ Sendings \subseteq Seq(CameraPackets)
  /\ \A s \in Sendings : \A i \in DOMAIN s : s[i].type = "Auth" =>
       /\ Lossy(s[i].username) = s[i].username
       /\ Lossy(s[i].access_code) = s[i].access_code
  /\ FieldLen \in Nat \ {0}

AuthLen == 1 + 2 * FieldLen

-------------------------------------------------------------------------------
(* The encoder *)

(* A text in its field: cut or padded with zeros *)
Field(text) ==
  [i \in 1..FieldLen |-> IF i <= Len(text) THEN text[i] ELSE "00"]

(* Mutant of Encode: the fields are the other way round                    *)
EncodeSwapped(packet) ==
  IF packet.type = "Auth"
  THEN <<"auth">> \o Field(packet.access_code) \o Field(packet.username)
  ELSE packet.bytes

(* The comment above it (codec.rs:110) says "so do nothing": connect_and_- *)
(* stream_codec sends its credentials through it, and the test `foo` reads *)
(* them back.                                                              *)
Encode(packet) ==
  IF packet.type = "Auth"
  THEN <<"auth">> \o Field(packet.username) \o Field(packet.access_code)
  ELSE packet.bytes

(* The bytes of the packets that a peer sends *)
Sent(sent) == FlattenSeq([i \in DOMAIN sent |-> Encode(sent[i])])

(* "bblp" and the access code *)
Credentials == Encode(Auth(<<"xx">>, <<"xx">>))

VARIABLES
  sending,  \* what the peer sends ...
  stream,   \* ... and its bytes
  read,     \* how many bytes of it have been read
  buffer,   \* the BytesMut of Framed
  packets,  \* what the stream of packets has yielded
  state,    \* of connect_and_stream_codec, then of Framed
  written   \* what has been written to the peer

peer == <<sending, stream>>
vars == <<peer, read, buffer, packets, state, written>>

TypeOK ==
  /\ sending \in Seq(CameraPackets) /\ stream \in Seq(Bytes)
  /\ read \in 0..Len(stream)
  /\ buffer \in Seq(Bytes)
  /\ packets \in Seq(CameraPackets)
  /\ state \in {"dialling", "handshake", "panicked",
                "reading", "decoding", "at_eof", "ended", "failed"}
  /\ written \in {<<>>, Credentials}

Init ==
  /\ sending \in Sendings
  /\ stream = Sent(sending)
  /\ read = 0 /\ buffer = <<>> /\ packets = <<>>
  /\ state = "dialling" /\ written = <<>>

-------------------------------------------------------------------------------
(* The decoder *)

From(s, i) == SubSeq(s, i, Len(s))

(* Where needle occurs in haystack from position i on *)
Occurrences(haystack, needle, i) ==
  {j \in i..(Len(haystack) + 1 - Len(needle)) :
     SubSeq(haystack, j, j + Len(needle) - 1) = needle}

IsAuth(src) == Len(src) >= AuthLen /\ Head(src) = "auth"

Starts(src) == Occurrences(src, JPEG_START_MARKER, 1)

Ends(src) ==
  Occurrences(src, JPEG_END_MARKER, Min(Starts(src)) + Len(JPEG_START_MARKER))

IsJpeg(src) == Starts(src) # {} /\ Ends(src) # {}

(* trim_end_matches *)
TrimZeros(text) ==
  SubSeq(text, 1, Max({0} \cup {i \in DOMAIN text : text[i] # "00"}))

AuthIn(bytes) ==
  Auth(TrimZeros(Lossy(SubSeq(bytes, 2, FieldLen + 1))),
       TrimZeros(Lossy(SubSeq(bytes, FieldLen + 2, AuthLen))))

(* decode yields a packet: `src` loses everything up to its last byte *)
Yield(packet, last) ==
  /\ packets' = Append(packets, packet)
  /\ buffer' = From(buffer, last + 1)
  /\ UNCHANGED <<peer, read, state, written>>

Decoding == state \in {"decoding", "at_eof"}

DecodeAuth ==
  /\ Decoding
  /\ IsAuth(buffer)
  /\ Yield(AuthIn(buffer), AuthLen)

DecodeJpeg ==
  /\ Decoding
  /\ ~IsAuth(buffer) /\ IsJpeg(buffer)
  /\ LET last == Min(Ends(buffer)) + Len(JPEG_END_MARKER) - 1
     IN Yield(Jpeg(SubSeq(buffer, Min(Starts(buffer)), last)), last)

-------------------------------------------------------------------------------
(* connect_and_stream_codec, then Framed as it is polled *)

Dial ==
  /\ state = "dialling"
  /\ state' = "handshake"
  /\ UNCHANGED <<peer, read, buffer, packets, written>>

(* Mutant of Authenticate: the flush sends the packet again                *)
AuthenticateTwice ==
  /\ state = "handshake"
  /\ written' = Credentials \o Credentials
  /\ state' = "reading"
  /\ UNCHANGED <<peer, read, buffer, packets>>

(* TLS, and the credentials before anything is read *)
Authenticate ==
  /\ state = "handshake"
  /\ written' = Credentials
  /\ state' = "reading"
  /\ UNCHANGED <<peer, read, buffer, packets>>

(* `?` on each of the three, and an unwrap: the host name is no IP address *)
ConnectFails ==
  \/ /\ state \in {"dialling", "handshake"} /\ state' = "failed"
     /\ UNCHANGED <<peer, read, buffer, packets, written>>
  \/ /\ state = "handshake" /\ state' = "panicked"
     /\ UNCHANGED <<peer, read, buffer, packets, written>>

(* Mutant of DecodeNone: bytes before a start marker are thrown away       *)
DecodeNoneTrims ==
  /\ ~IsAuth(buffer) /\ ~IsJpeg(buffer)
  /\ \/ state = "decoding" /\ state' = "reading"
     \/ state = "at_eof" /\ state' = IF buffer = <<>> THEN "ended" ELSE "failed"
  /\ buffer' = IF Starts(buffer) = {} THEN <<>> ELSE buffer
  /\ UNCHANGED <<peer, read, packets, written>>

(* decode yields None and leaves `src` alone: Framed reads on, or ends the *)
(* stream, with an error if there are bytes left                           *)
DecodeNone ==
  /\ ~IsAuth(buffer) /\ ~IsJpeg(buffer)
  /\ \/ state = "decoding" /\ state' = "reading"
     \/ state = "at_eof" /\ state' = IF buffer = <<>> THEN "ended" ELSE "failed"
  /\ UNCHANGED <<peer, read, buffer, packets, written>>

(* A piece of the stream arrives *)
Receive(n) ==
  /\ state = "reading"
  /\ buffer' = buffer \o SubSeq(stream, read + 1, read + n)
  /\ read' = read + n
  /\ state' = "decoding"
  /\ UNCHANGED <<peer, packets, written>>

(* The peer closes, at its end or in the middle of a packet *)
Eof ==
  /\ state = "reading"
  /\ state' = "at_eof"
  /\ UNCHANGED <<peer, read, buffer, packets, written>>

Next ==
  \/ Dial \/ Authenticate \/ ConnectFails
  \/ DecodeAuth \/ DecodeJpeg \/ DecodeNone
  \/ \E n \in 1..(Len(stream) - read) : Receive(n)
  \/ Eof

Spec == Init /\ [][Next]_vars

-------------------------------------------------------------------------------
(* What is next in `bytes` from position i on, seen at once, and where the *)
(* rest begins: an authentication packet at i, or else a picture           *)
FoundAt(bytes, i) ==
  LET starts == Occurrences(bytes, JPEG_START_MARKER, i)
      ends == Occurrences(bytes, JPEG_END_MARKER, Min(starts) + 4)
  IN IF i + AuthLen - 1 <= Len(bytes) /\ bytes[i] = "auth"
       THEN {[packet |-> AuthIn(SubSeq(bytes, i, i + AuthLen - 1)), next |-> i + AuthLen]}
     ELSE IF starts # {} /\ ends # {}
       THEN {[packet |-> Jpeg(SubSeq(bytes, Min(starts), Min(ends) + 1)),
              next |-> Min(ends) + 2]}
     ELSE {}

(* All that `bytes` contain, from left to right, and the position after it *)
Scan(bytes) ==
  LET scan[i \in 1..(Len(bytes) + 1)] ==
        IF FoundAt(bytes, i) = {} THEN [found |-> <<>>, next |-> i]
        ELSE LET x == CHOOSE x \in FoundAt(bytes, i) : TRUE
             IN [found |-> <<x.packet>> \o scan[x.next].found,
                 next |-> scan[x.next].next]
  IN scan[1]

(* However the connection cut the stream into pieces, in the middle of a   *)
(* marker or several pictures in one: when decode has had its way with     *)
(* what was read, the packets are those of the bytes read seen at once,    *)
(* and the buffer holds every byte after them (codec.rs:28-79, 92-104).    *)
ChunkIndependent ==
  ~Decoding =>
    LET seen == Scan(SubSeq(stream, 1, read))
    IN /\ packets = seen.found
       /\ buffer = SubSeq(stream, seen.next, read)

(* What begins as an authentication packet holds no picture before its last *)
(* byte: decode would take that picture if the connection is cut between    *)
(* the two.  ChunkIndependent needs it; it holds of what is one, since text *)
(* holds no marker.                                                        *)
NoPictureInLogin ==
  \A sent \in Sendings : \A i \in DOMAIN Sent(sent) :
    /\ Sent(sent)[i] = "auth"
    /\ i + AuthLen - 1 <= Len(Sent(sent))
    => ~IsJpeg(SubSeq(Sent(sent), i, i + AuthLen - 2))

(* A picture as cameras send them: from one marker to the other            *)
Clean(bytes) ==
  /\ IsPrefix(JPEG_START_MARKER, bytes)
  /\ Ends(bytes) = {Len(bytes) - 1}

(* A field holds the text, as much of it as there is room for: all of it,  *)
(* or all but a last character that is cut in two                          *)
Holds(received, text) ==
  IF Len(text) <= FieldLen THEN received = TrimZeros(text)
  ELSE \A i \in 1..FieldLen :
         \/ i <= Len(received) /\ received[i] \in {text[i], "??"}
         \/ i > Len(received) /\ text[i] = "00"

(* Packets sent one after the other, pictures without an end marker inside *)
(* and credentials of any length, are received as they were sent, in order *)
(* and none twice; and what waits in the buffer is the beginning of the    *)
(* next one, so that it stays below the size of a packet (codec.rs:28-79,  *)
(* 107-141, and the test `foo`).                                           *)
PacketsArrive ==
  /\ ~Decoding
  /\ \A i \in DOMAIN sending : sending[i].type = "Jpeg" => Clean(sending[i].bytes)
  => /\ Len(packets) <= Len(sending)
     /\ \A i \in DOMAIN packets :
          /\ packets[i].type = sending[i].type
          /\ IF packets[i].type = "Jpeg" THEN packets[i] = sending[i]
             ELSE /\ Holds(packets[i].username, sending[i].username)
                  /\ Holds(packets[i].access_code, sending[i].access_code)
     /\ IF Len(packets) = Len(sending) THEN buffer = <<>>
        ELSE IsStrictPrefix(buffer, Encode(sending[Len(packets) + 1]))
===============================================================================
