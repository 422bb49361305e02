----------------------------- MODULE FtpProperties -----------------------------
(***************************************************************************)
(* What FileClient::get_files promises, and what its session keeps to.     *)
(***************************************************************************)
EXTENDS FtpSession

(* A name in which one blank follows each word but the last *)
Tidy(name) ==
  Len(name) % 2 = 1 /\ \A i \in 1..Len(name) : name[i] = Blank <=> i % 2 = 0

(* What `m` says of the file `e` is right, its date aside: a right it      *)
(* reports is everyone's; the name is the file's, except that of the blanks*)
(* in a row one is left, and none at an end (metadata.rs:69 and 101).      *)
Describes(m, e) ==
  /\ e.user = <<Plain("text", m.user)>> /\ e.group = <<Plain("text", m.group)>>
  /\ m.size = e.size
  /\ Tidy(e.name) => m.filename = e.name
  /\ Split(m.filename) = Split(e.name)
  /\ \A i \in 1..(Len(m.filename) - 1) :
       m.filename[i] # Blank \/ m.filename[i + 1] # Blank
  /\ \A i \in 1..9 :
       LET bit == (to_octal(m.chmod) \div <<256, 128, 64, 32, 16, 8, 4, 2, 1>>[i]) % 2
       IN bit = 1 <=> {j \in 1..9 : (j - i) % 3 = 0} \subseteq e.mode

(* A listing that get_files returns is the whole directory, in order, file *)
(* by file: a transfer that was aborted, or whose connection was cut, is   *)
(* an error (ftp.rs:237-254).  What an aborted transfer delivered looks    *)
(* like a shorter listing, or ends with a shorter name; only the reply     *)
(* read by the first quit() tells.                                         *)
OkMeansComplete ==
  result = "ok" =>
    /\ Len(lines) = Len(listing)
    /\ \A i \in DOMAIN lines : Describes(lines[i], listing[i])

(* A date that a listing gives is the file's, or a year late and then ahead*)
(* of the client's clock, or a year early and then the file is ahead of    *)
(* it: the client takes a line without a year for its own year's           *)
(* (metadata.rs:89).  So in January last December's files lie eleven months*)
(* ahead, and a client that still has December takes what the server wrote *)
(* in January for last January's; nothing else is ever wrong, even if a    *)
(* year ends between the server's line and its parsing.                    *)
OffByClocks(date, modified, today) ==
  \/ date = modified
  \/ date = modified + 12 /\ date > today
  \/ date = modified - 12 /\ modified > today

DatesOffByClocks ==
  [][lines' # lines =>
       OffByClocks(lines'[Len(lines')].date, listing[Len(lines')].modified, now.client)]_vars

(* From a server that writes where it is the client connects to there, an  *)
(* unspecified address being the host's (codec.rs:87-149, ftp.rs:51-60).   *)
DialsTheServer == pc = "dial" /\ ~MayMisquote => address = Home

(* The address that this step leaves is what `text` says, or the host's,   *)
(* and its port is the number said, modulo 2^16 in a release build         *)
SaidBy(text) ==
  \E i \in DOMAIN text :
    LET n(k) == text[i + 2 * k - 1]
        ip == [k \in 1..4 |-> n(k)]
        port == n(5) * 256 + n(6)
    IN /\ At(text, Open) = {i} /\ At(text, Close) = {i + 12}
       /\ \A k \in 1..6 : n(k) \in Nat
       /\ \A k \in 1..5 : text[i + 2 * k] = Comma
       /\ build = "debug" => address'.port = port
       /\ (port - address'.port) % (MaxU16 + 1) = 0
       /\ address'.ip # ip => ip = Unspecified /\ address'.ip = Home.ip

(* A 227 is accepted only for what it says: six numbers and nothing else   *)
(* between its only parentheses, and never a port that does not fit if the *)
(* build checks for it (codec.rs:87-151).                                  *)
PassiveSaysSo == [][address' # address => SaidBy(Head(replies).text)]_vars

(* Up to LIST every reply is taken for the command it answers; the 226     *)
(* that ends the transfer is read by list_files's quit(), so from there on *)
(* the session is one reply behind, and never more (ftp.rs:47-72, 254,     *)
(* file.rs:45).                                                            *)
BehindByOne ==
  [][pc = "reply" /\ pc' # "reply" /\ replies # <<>> =>
       Head(replies).to = IF step <= ListStep THEN step ELSE step - 1]_vars

(* get_files returns: it awaits no reply the server does not owe it, and   *)
(* no end of a data connection the server keeps open, whatever is refused, *)
(* aborted or closed on the way.  A server that waits for the data         *)
(* connection before it says 150 must give up in the end.                  *)
Terminates == (AcceptFirst => MayRefuse) => <>(pc = "returned")

(* From a server that refuses nothing and does not wait, a directory whose *)
(* lines all parse is listed, unless the second QUIT (file.rs:45) meets a  *)
(* server that closed after the first and the 221 is lost.                 *)
ListingReturned ==
  /\ peer = {} /\ hostname = "address"
  /\ \A i \in DOMAIN listing :
       /\ listing[i].type = "file"
       /\ Len(listing[i].user) = 1 /\ Len(listing[i].group) = 1
  => <>(result = "ok")

-------------------------------------------------------------------------------
(* What the comments and assertions of the source say and the code does    *)
(* not keep.                                                               *)

(* ftp.rs:46, "Sends a command to the FTP server and reads the response".  *)
ResponseIsToCommand ==
  [][pc = "reply" /\ pc' # "reply" /\ replies # <<>> =>
       Head(replies).to = step]_vars

(* ftp.rs:55, "Technically, this is validated while connecting": the host  *)
(* name parses as an IP address by the time a 227 is read.                 *)
HostnameValidated ==
  pc = "reply" /\ replies # <<>> => ~NoAddress(Head(replies))

(* file.rs:30, "List files in the given `directory`, filtering by          *)
(* `extension`": whatever the extension is, the files of a listing share   *)
(* it.  The last word of a name ends in it; words that are told apart      *)
(* differ in it.                                                           *)
Extension(name) == name[Len(name)].num

FilteredByExtension ==
  result = "ok" =>
    \A i, j \in DOMAIN lines : Extension(lines[i].filename) = Extension(lines[j].filename)
===============================================================================
