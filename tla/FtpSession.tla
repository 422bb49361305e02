------------------------------ MODULE FtpSession ------------------------------
(***************************************************************************)
(* One `FileClient::get_files` (src/file.rs) from connect to its result:   *)
(* the FTPS session of src/file/ftp.rs on its control connection, the data *)
(* connection of `list_files`, and the server they talk to.                *)
(*                                                                         *)
(* The client sends a command, reads one reply, and takes the reply for    *)
(* that command's.  Replies are read in the order they were sent.          *)
(***************************************************************************)
EXTENDS FtpReply, FileList

CONSTANTS
  Listings,  \* the directories to list: sequences of entries
  Peers,     \* the servers to talk to: sets of the habits below
  Misquotes, \* texts of a 227 that a server may write instead of its address
  Home,      \* where the server awaits the data connection
  Aborts,    \* after how many words of a line a transfer may be aborted
  FirstMonth, LastMonth  \* the bounds of both clocks, within half a year

Habits == {"refuses", "accepts_first", "resets", "misquotes"}

ASSUME FtpAssumption ==
  /\ Listings \subseteq Seq(Entries)
  /\ Peers \subseteq SUBSET Habits
  /\ Misquotes \subseteq Seq(Int)
  /\ Home \in Addresses /\ Home.port <= MaxU16 /\ Home.ip # Unspecified
  /\ Aborts \subseteq Nat
  /\ FirstMonth \in Nat /\ LastMonth \in FirstMonth..(FirstMonth + 6)

(* The commands of get_files in the order of the code: four of             *)
(* authenticate, three of list_files, its quit(), and that of get_files    *)
Script == <<"USER", "PASS", "PBSZ", "PROT", "PWD", "PASV", "LIST", "QUIT", "QUIT">>

ListStep == 7

(* Mutants of Accepts: QUIT takes any reply; QUIT takes its own reply only *)
QuitTakesAny == [USER |-> {331}, PASS |-> {230}, PBSZ |-> {200}, PROT |-> {200},
                 PWD |-> {257}, PASV |-> {227}, LIST |-> {150}, QUIT |-> {221, 226, 500}]
QuitTakes221 == [USER |-> {331}, PASS |-> {230}, PBSZ |-> {200}, PROT |-> {200},
                 PWD |-> {257}, PASV |-> {227}, LIST |-> {150}, QUIT |-> {221}]

(* The replies that let the session go on after each command               *)
Accepts == [USER |-> {331}, PASS |-> {230}, PBSZ |-> {200}, PROT |-> {200},
            PWD |-> {257}, PASV |-> {227}, LIST |-> {150}, QUIT |-> {221, 226}]

(* 0 stands for a line from_response_string rejects ("230-Welcome"), 500   *)
(* for every code that FtpResponse has no use for                          *)
Codes == {0, 500} \cup {220, 226} \cup UNION {Accepts[c] : c \in DOMAIN Accepts}

(* Where the server says it is: its address, or an unspecified one *)
Quotes == {Quote(Home), Quote([Home EXCEPT !.ip = Unspecified])}

(* `to` is the step whose command a reply answers; a 227 has a text        *)
Replies == [code : Codes, to : 0..Len(Script), text : Seq(Int)]

VARIABLES
  pc,       \* where get_files is suspended
  step,     \* the command of Script it is at
  lines,    \* what list_files has collected
  result,   \* what get_files returned
  address,  \* the socket_addr of list_files
  hostname, \* is FileClient::hostname an IP address or a name?
  build,    \* "debug", which checks for overflow, or "release"
  \* --- the two connections
  sent,     \* commands on their way to the server, as steps
  replies,  \* replies on their way to the client
  control,  \* "open", "closed" by the server, or "reset"
  wire,     \* lines on their way to the client
  data,     \* the data connection
  \* --- the server
  peer, server, listing, served,
  now       \* the month on the clock of the client, and of the server

setting == <<hostname, build>>
client == <<pc, step, lines, result, address, setting>>
ctl    == <<sent, replies, control>>
dat    == <<wire, data>>
srv    == <<peer, server, listing, served, now>>
vars   == <<client, ctl, dat, srv>>

(* The server may refuse, garble, abort or close at any time *)
MayRefuse == "refuses" \in peer

(* It awaits the data connection before it says 150 *)
AcceptFirst == "accepts_first" \in peer

(* The text of its 227 may be anything *)
MayMisquote == "misquotes" \in peer

(* Unread replies are lost when it is written to after it closed *)
MayReset == "resets" \in peer

(* The client takes its local time, the server its own: two clocks that    *)
(* agree on the half year, and not on the year                             *)
Clocks == [client : FirstMonth..LastMonth, server : FirstMonth..LastMonth]

TypeOK ==
  /\ pc \in {"connect", "welcome", "send", "reply", "dial", "read", "returned"}
  /\ step \in 1..Len(Script)
  /\ lines \in Seq(Metadata)
  /\ result \in {"none", "ok", "err", "panic"}
  /\ address \in Addresses
  /\ hostname \in {"address", "name"} /\ build \in {"debug", "release"}
  /\ sent \in Seq(1..Len(Script))
  /\ replies \in Seq(Replies)
  /\ control \in {"open", "closed", "reset"}
  /\ wire \in Seq(Seq(Words))
  /\ data \in {"none", "open", "eof", "cut"}
  /\ peer \subseteq Habits
  /\ server \in {"greeting", "ready", "opening", "sending", "done", "gone"}
  /\ listing \in Seq(Entries)
  /\ served \in 0..Len(listing)
  /\ now \in Clocks

Init ==
  /\ pc = "connect" /\ step = 1 /\ lines = <<>> /\ result = "none"
  /\ address = [ip |-> Unspecified, port |-> 0]
  /\ hostname \in {"address", "name"} /\ build \in {"debug", "release"}
  /\ sent = <<>> /\ replies = <<>> /\ control = "open"
  /\ wire = <<>> /\ data = "none"
  /\ peer \in Peers /\ server = "greeting" /\ listing \in Listings /\ served = 0
  /\ now \in Clocks

-------------------------------------------------------------------------------
(* FileClient::get_files and FtpClient                                     *)

Return(r) == result' = r /\ pc' = "returned"

(* FtpClient::connect: name resolution, TCP and TLS *)
Connect ==
  /\ pc = "connect"
  /\ pc' = "welcome"
  /\ UNCHANGED <<step, lines, result, address, setting, ctl, dat, srv>>

(* ... `.unwrap()` on its result *)
ConnectFails ==
  /\ pc = "connect" /\ MayRefuse
  /\ Return("panic")
  /\ UNCHANGED <<step, lines, address, setting, ctl, dat, srv>>

(* from_response_string rejects the reply, or panics on it *)
Rejected(r) == r.code = 0 \/ (r.code = 227 /\ Passive(r.text) = {})

Breaks(r) ==
  r.code = 227 /\ build = "debug" /\ \E a \in Passive(r.text) : Overflows(a)

(* The next reply is read: framed.next() yields it *)
Reply == Head(replies)

TakeReply ==
  /\ replies # <<>> /\ ~Rejected(Reply)
  /\ replies' = Tail(replies)
  /\ UNCHANGED <<sent, control>>

(* framed.next() yields an error or the end of the connection *)
NoReply ==
  \/ replies # <<>> /\ Rejected(Reply)
  \/ replies = <<>> /\ control # "open"

(* Mutant of Welcome: USER is sent without reading the welcome             *)
NoWelcome ==
  /\ pc = "welcome"
  /\ pc' = "send"
  /\ UNCHANGED <<step, lines, result, address, setting, ctl, dat, srv>>

(* authenticate: any first reply will do, and so does a connection that    *)
(* ended before it                                                         *)
Welcome ==
  /\ pc = "welcome"
  /\ \/ TakeReply
     \/ replies = <<>> /\ control = "closed" /\ UNCHANGED ctl
  /\ pc' = "send"
  /\ UNCHANGED <<step, lines, result, address, setting, dat, srv>>

(* ... unless reading it is an error *)
WelcomeFails ==
  /\ pc = "welcome"
  /\ NoReply
  /\ Return("err")
  /\ UNCHANGED <<step, lines, address, setting, ctl, dat, srv>>

(* send_command, its first half *)
Send ==
  /\ pc = "send" /\ control # "reset"
  /\ sent' = Append(sent, step)
  /\ pc' = "reply"
  /\ UNCHANGED <<step, lines, result, address, setting, replies, control, dat, srv>>

(* `?` on the result of send_command, but authenticate unwraps the first two*)
Fail == Return(IF Script[step] \in {"USER", "PASS"} THEN "panic" ELSE "err")

SendFails ==
  /\ pc = "send" /\ control = "reset"
  /\ Fail
  /\ UNCHANGED <<step, lines, address, setting, ctl, dat, srv>>

ReplyFails ==
  /\ pc = "reply"
  /\ NoReply
  /\ Fail
  /\ UNCHANGED <<step, lines, address, setting, ctl, dat, srv>>

(* `self.hostname.parse().unwrap()` in the place of an unspecified address *)
NoAddress(r) ==
  /\ r.code = 227 /\ hostname = "name"
  /\ \E a \in Passive(r.text) : a.ip = Unspecified

(* Mutant of SocketAddr: the unspecified address is taken at its word      *)
AsQuoted(r) == CHOOSE a \in {Wrapped(q) : q \in Passive(r.text)} : TRUE

(* The address a 227 gives the caller of send_command *)
SocketAddr(r) ==
  LET a == CHOOSE a \in {Wrapped(q) : q \in Passive(r.text)} : TRUE
  IN IF a.ip = Unspecified THEN [a EXCEPT !.ip = Home.ip] ELSE a

Panics(r) == Breaks(r) \/ NoAddress(r)

ReplyPanics ==
  /\ pc = "reply"
  /\ TakeReply /\ Panics(Reply)
  /\ Return("panic")
  /\ UNCHANGED <<step, lines, address, setting, dat, srv>>

Refused ==
  /\ pc = "reply"
  /\ TakeReply /\ ~Panics(Reply) /\ Reply.code \notin Accepts[Script[step]]
  /\ Return("err")
  /\ UNCHANGED <<step, lines, address, setting, dat, srv>>

(* list_files keeps the address *)
Note(r) == address' = IF r.code = 227 THEN SocketAddr(r) ELSE address

(* Mutant of Accepted: the end of the script is not noticed                *)
AcceptedForEver ==
  /\ pc = "reply"
  /\ TakeReply /\ ~Panics(Reply) /\ Reply.code \in Accepts[Script[step]]
  /\ Note(Reply)
  /\ step' = step + 1
  /\ pc' = IF step = ListStep THEN "dial" ELSE "send"
  /\ UNCHANGED <<lines, result, setting, dat, srv>>

Accepted ==
  /\ pc = "reply"
  /\ TakeReply /\ ~Panics(Reply) /\ Reply.code \in Accepts[Script[step]]
  /\ Note(Reply)
  /\ CASE step = ListStep    -> pc' = "dial" /\ UNCHANGED <<step, result>>
       [] step = Len(Script) -> Return("ok") /\ UNCHANGED step
       [] OTHER              -> step' = step + 1 /\ pc' = "send" /\ UNCHANGED result
  /\ UNCHANGED <<lines, setting, dat, srv>>

(* list_files: connect_insecure to the address of the 227, where only the  *)
(* server listens                                                          *)
Dial ==
  /\ pc = "dial" /\ address = Home /\ server # "gone"
  /\ data' = "open"
  /\ pc' = "read"
  /\ UNCHANGED <<step, lines, result, address, setting, ctl, wire, srv>>

DialFails ==
  /\ pc = "dial" /\ (MayRefuse \/ address # Home)
  /\ Return("err")
  /\ UNCHANGED <<step, lines, address, setting, ctl, dat, srv>>

ReadLine ==
  /\ pc = "read"
  /\ wire # <<>>
  /\ \E m \in from_str(Head(wire), now.client) : lines' = Append(lines, m)
  /\ wire' = Tail(wire)
  /\ UNCHANGED <<pc, step, result, address, setting, ctl, data, srv>>

(* Mutant of ReadFails: an error of the data connection is passed over     *)
ReadFailsOnBadLine ==
  /\ pc = "read"
  /\ wire # <<>> /\ from_str(Head(wire), now.client) = {}
  /\ Return("err")
  /\ UNCHANGED <<step, lines, address, setting, ctl, dat, srv>>

(* One line that does not parse fails the listing, and so does a data      *)
(* connection that ends without the TLS close_notify                       *)
ReadFails ==
  /\ pc = "read"
  /\ IF wire = <<>> THEN data = "cut" ELSE from_str(Head(wire), now.client) = {}
  /\ Return("err")
  /\ UNCHANGED <<step, lines, address, setting, ctl, dat, srv>>

(* The end of the listing: the connection is dropped, quit() comes next *)
ReadEnds ==
  /\ pc = "read"
  /\ wire = <<>> /\ data = "eof"
  /\ step' = step + 1
  /\ pc' = "send"
  /\ UNCHANGED <<lines, result, address, setting, ctl, dat, srv>>

-------------------------------------------------------------------------------
(* The server (external): one command after the other                      *)

Say(code, to, text) ==
  replies' = Append(replies, [code |-> code, to |-> to, text |-> text])

Misbehaves(code) == MayRefuse /\ code \in {0, 500}

(* The welcome, once the client is connected *)
Greet(code) ==
  /\ server = "greeting" /\ pc # "connect"
  /\ code = 220 \/ Misbehaves(code)
  /\ Say(code, 0, <<>>)
  /\ server' = "ready"
  /\ UNCHANGED <<client, sent, control, dat, listing, served, now, peer>>

Texts(code) ==
  IF code # 227 THEN {<<>>}
  ELSE IF MayMisquote THEN Quotes \cup Misquotes ELSE Quotes

(* A command other than LIST and QUIT is accepted or refused *)
Obey(code, text) ==
  /\ server = "ready" /\ sent # <<>>
  /\ LET cmd == Script[Head(sent)]
     IN /\ cmd \notin {"LIST", "QUIT"}
        /\ code \in Accepts[cmd] \/ Misbehaves(code)
  /\ Say(code, Head(sent), text)
  /\ sent' = Tail(sent)
  /\ UNCHANGED <<client, control, dat, srv>>

(* LIST is taken up ... *)
OpenListing ==
  /\ server = "ready" /\ sent # <<>> /\ Script[Head(sent)] = "LIST"
  /\ sent' = Tail(sent)
  /\ server' = "opening"
  /\ UNCHANGED <<client, replies, control, dat, listing, served, now, peer>>

(* ... and announced with 150, at once or when the data connection is there*)
StartListing ==
  /\ server = "opening"
  /\ AcceptFirst => data = "open"
  /\ Say(150, ListStep, <<>>)
  /\ server' = "sending"
  /\ UNCHANGED <<client, sent, control, dat, listing, served, now, peer>>

(* ... or refused: no such directory, no data connection in time           *)
RefuseListing(code) ==
  /\ server = "opening"
  /\ Misbehaves(code)
  /\ Say(code, ListStep, <<>>)
  /\ server' = "ready"
  /\ UNCHANGED <<client, sent, control, dat, listing, served, now, peer>>

SendLine ==
  /\ server = "sending" /\ data = "open" /\ served < Len(listing)
  /\ wire' = Append(wire, Line(listing[served + 1], now.server))
  /\ served' = served + 1
  /\ UNCHANGED <<client, ctl, data, server, listing, now, peer>>

(* All lines are out: the data connection is closed and 226 is sent, in    *)
(* either order                                                            *)
CloseData ==
  /\ server \in {"sending", "done"} /\ data = "open" /\ served = Len(listing)
  /\ data' = "eof"
  /\ UNCHANGED <<client, ctl, wire, srv>>

ConfirmListing ==
  /\ server = "sending" /\ data # "none" /\ served = Len(listing)
  /\ Say(226, ListStep, <<>>)
  /\ server' = "done"
  /\ UNCHANGED <<client, sent, control, dat, listing, served, now, peer>>

(* The transfer is given up in the middle of a line: its first words look  *)
(* like a line to the client                                               *)
AbortListing(words) ==
  /\ MayRefuse
  /\ server = "sending" /\ data = "open" /\ served < Len(listing)
  /\ LET line == Line(listing[served + 1], now.server)
     IN /\ words <= Len(line)
        /\ wire' = IF words = 0 THEN wire ELSE Append(wire, SubSeq(line, 1, words))
  /\ data' = "eof"
  /\ Say(500, ListStep, <<>>)
  /\ server' = "done"
  /\ UNCHANGED <<client, sent, control, listing, served, now, peer>>

(* QUIT: 221, and the control connection is closed *)
Goodbye ==
  /\ server \in {"ready", "done"} /\ data # "open"
  /\ sent # <<>> /\ Script[Head(sent)] = "QUIT"
  /\ Say(221, Head(sent), <<>>)
  /\ sent' = Tail(sent)
  /\ control' = "closed"
  /\ server' = "gone"
  /\ UNCHANGED <<client, dat, listing, served, now, peer>>

(* The server goes away; TLS notices on the data connection *)
Vanish ==
  /\ MayRefuse /\ server # "gone" /\ pc # "connect"
  /\ server' = "gone"
  /\ control' = "closed"
  /\ data' = IF data = "open" THEN "cut" ELSE data
  /\ UNCHANGED <<client, sent, replies, wire, listing, served, now, peer>>

(* A command that meets a closed connection is answered by a TCP reset,    *)
(* and the replies the client has not read yet may go with it              *)
Reset ==
  /\ MayReset /\ server = "gone" /\ control = "closed" /\ sent # <<>>
  /\ control' = "reset"
  /\ replies' = <<>>
  /\ UNCHANGED <<client, sent, dat, srv>>

(* Time passes, here or there *)
Tick ==
  /\ \/ now.client < LastMonth /\ now' = [now EXCEPT !.client = @ + 1]
     \/ now.server < LastMonth /\ now' = [now EXCEPT !.server = @ + 1]
  /\ UNCHANGED <<client, ctl, dat, peer, server, listing, served>>

-------------------------------------------------------------------------------
Client ==
  \/ Connect \/ ConnectFails \/ Welcome \/ WelcomeFails
  \/ Send \/ SendFails \/ ReplyFails \/ ReplyPanics \/ Refused \/ Accepted
  \/ Dial \/ DialFails \/ ReadLine \/ ReadFails \/ ReadEnds

Answers ==
  \/ \E code \in Codes : Greet(code) \/ RefuseListing(code)
  \/ \E code \in Codes : \E text \in Texts(code) : Obey(code, text)
  \/ OpenListing \/ StartListing \/ Goodbye

Transfers ==
  \/ SendLine \/ CloseData \/ ConfirmListing
  \/ \E words \in Aborts : AbortListing(words)

Next == Client \/ Answers \/ Transfers \/ Vanish \/ Reset \/ Tick

Spec == Init /\ [][Next]_vars

(* The runtime polls get_files, and a server that is there answers.        *)
FairSpec ==
  /\ Spec
  /\ WF_vars(Client) /\ WF_vars(Answers)
  /\ WF_vars(SendLine \/ \E words \in Aborts : AbortListing(words)) /\ WF_vars(CloseData) /\ WF_vars(ConfirmListing)
===============================================================================
