# A TLA+ model of bambu-rs

bambu-rs talks to a Bambu Lab 3D printer in the local network: MQTT for
commands and reports, FTPS for the files on its SD card, and a raw TLS stream
of JPEG pictures from its camera. This directory holds TLA+ modules of these
three clients and of the MJPEG server among the examples, the TLC runs that
check them, and TLAPS proofs about all four. Paths such as `mqtt.rs:216`
are relative to the crate's `src/`.

## 1. Inventory

### MQTT client (`mqtt.rs`, `mqtt/message.rs`, `mqtt/command.rs`)

| | |
|---|---|
| State | `client` (the sending half of the request channel of capacity 10), `stop_flag`, `inflight_commands` (sequence id to oneshot sender), `sequence_id`; per background task: the event loop, its connection, the `connected` oneshot |
| Operations | `start`, `stop`, `get_version`, `push_all`, `extrusion_calibration_get`, `set_led`; the arms of the task's `select!` |
| Interaction | the owner's call and the tasks share the flag and the map; calls send requests through the channel, tasks answer through the oneshots in the map; the task talks to the broker in the printer |
| Hard behaviour | calls dropped at an await; answers later than their call; a task that outlives its `start`; lost connections; session take-over by client id; a full channel |
| Correct when | an answer goes to the call that asked, a waiting call can be reached, a command is sent at most once and after the subscription, `start` returns, a stopped task ends |

### FTPS client (`file.rs`, `file/ftp.rs`, `file/ftp/codec.rs`, `file/ftp/metadata.rs`)

| | |
|---|---|
| State | none between calls; per `get_files` the control connection, the data connection and the lines collected |
| Operations | connect, authenticate, PWD, PASV, LIST, read the listing, QUIT (twice) |
| Interaction | request and reply on the control connection, lines on the data connection, opened by the client at the address of the 227 reply |
| Pure parts | the parser of replies with the address of a 227; the parser of listing lines: rights, size, date, name |
| Hard behaviour | replies taken for the wrong command, order of 150, data and 226, aborted transfers that look like shorter listings, servers that close early, resets that discard unread replies; addresses that are malformed, unspecified or overflow; dates without a year, read by another clock than wrote them |
| Correct when | a listing returned is the directory, file by file, the data connection is made where the server says, replies and commands stay in step, the call ends |

### Camera client (`camera.rs`, `camera/codec.rs`)

| | |
|---|---|
| State | how far `connect_and_stream_codec` is, then the buffer of `Framed` |
| Operations | connect and send the credentials; decode (authentication packet, picture, neither), encode |
| Hard behaviour | the transport cuts the stream anywhere, in a marker too; bytes before, after and between pictures; the end of the stream |
| Correct when | the packets depend on the bytes only, no byte is lost, and what one side encodes the other decodes |

### MJPEG server (`examples/mjpeg_stream.rs`)

| | |
|---|---|
| State | `last_frame` under an RwLock, a broadcast channel of 16 frames; per viewer a receiver and a response body |
| Interaction | the camera task writes the lock, then sends; a viewer's handler subscribes, its body reads the lock, then the channel |
| Hard behaviour | the last frame, stored but not yet sent; a read guard that lives across yields, viewers that stop reading, fall behind or leave while they wait for the lock |
| Correct when | a stream leaves out no frame and ends up with the newest, the camera task is never held up, every stream starts |

### The rest

`mqtt/command/*` are serde types: what they write is part of what the client
does and is modelled for the commands the client sends (`Payload`).
`mqtt/message/*` are derived serde types that the client reads two fields of.
`tls.rs` is a verifier that accepts every certificate, `lib.rs` declares
modules, `examples/mqtt_client.rs` makes three calls in a row. They have no
state of their own and are not modelled.

## 2. Modules

| module | models | extends |
|---|---|---|
| `MqttClient` | the client, its tasks, the broker and the printer | |
| `RequestReply` | what the client promises: one call at a time, a command at most once, a result only with an answer | |
| `Payload` | the JSON objects of the commands, key by key | |
| `MqttProperties` | the properties, the refinement mapping and the fairness | `MqttClient`, `Payload`, `RequestReply` (INSTANCE) |
| `MqttProofs`, `MqttCallProofs` | proofs: types, replies, waiters and subscriptions; then the way of a command and of its answer, the refinement and the unwraps | `MqttProperties` |
| `MCMqtt` | values for TLC | `MqttProperties` |
| `FtpReply` | `from_response_string` on a 227 reply | |
| `FileList` | a line of a listing and the parser of `metadata.rs` | |
| `FtpSession` | one `get_files`, the server it talks to and the clocks of both | `FtpReply`, `FileList` |
| `FtpProperties`, `MCFtp` | its properties, values for TLC | `FtpSession` |
| `FtpReplyProofs`, `FileListProofs` | proofs about the two parsers | `FtpReply`, `FileList`, `SeqLemmas` |
| `FtpProofs` | proofs about the session | `FtpProperties`, the two above |
| `JpegStream`, `MCJpeg` | `connect_and_stream_codec`, the encoder, the decoder inside `Framed`; values for TLC | |
| `JpegProofs` | proofs about them | `JpegStream`, `SeqLemmas` |
| `MjpegServer` | the MJPEG server | |
| `MjpegProofs` | proofs about it | `MjpegServer`, `SeqLemmas` |
| `SeqLemmas` | facts about sequences, and induction | |

Operators headed "Mutant of ..." are slips the code might have had. They are
not part of a specification; they document what each property would catch.

### MqttClient and the code

A step is the code between two awaits. `BeginStart`, `SpawnLoop` and
`StartReturns` are `start` cut at `stop_flag.lock().await` and
`connected_rx.await`; `BeginCall`, `Register`, `Publish` and `Receive` are the
four command methods cut at the in-flight map's lock, at `publish().await` and
at `rx.await`. `CancelStart` and `CancelCall` drop the call's future at any of
these points, which a caller does with `tokio::time::timeout` or `select!`.
Every method takes `&mut self`, so one `pc` is enough for the owner; there is
one task per call of `start`, and a task not stopped lives on beside the next.

`Poll...` are the arms of the task's `select!`. Consuming a message is one
step with the lookup, the removal and the send on the oneshot, for the lock is
held across them and contention for it shows nothing. A panic ends a task, or
the owner's call, as tokio has it: what the task owned is dropped
(`DropTask`), the shared map is not.

Abstractions: a message is its kind, its sequence id and, for the properties
only, the call it answers. Reports on their way are a set, since reports with
equal content cannot be told apart. QoS 0 is the network's: reports are lost
with the connection and are not repeated. `NetFails` stands for every error of
`poll()`. rumqttc refuses a topic with a wildcard and a filter with a `#`
before its end, so `serial` may be plain, or hold `+` or `#`. On a lost
connection rumqttc empties the channel into its list of pending requests; the
task never polls again, so the model drops them.

### Payload and the code

An object is the sequence of its entries as `to_vec` writes them, so that a key
can occur twice; `ToValue` is the map the tests of `command.rs` look at. Field
values are texts that stand for themselves; the sequence id is "id".

### FtpSession, FtpReply, FileList and the code

`Script` lists the commands of one `get_files`, the two QUITs included;
`step` is the command the client is at. `Send` and the actions on a reply are
the two halves of `send_command`; the set `Accepts` holds the reply codes the
`match` after each command lets pass. The server is external: it greets,
answers in order, and does what `Peers` allows: `refuses` (any refusal, a
reply that does not parse, a transfer aborted between lines or within one,
vanishing), `accepts_first` (150 only with the data connection), `resets` (a
command sent to a closed connection makes TCP discard replies still unread),
`misquotes` (any text of `Misquotes` for a 227).

The text of a 227 is a sequence of tokens: numbers, the two parentheses, the
comma, and one token for everything else. `Pairs`, `Parts` and `Fields` follow
the code from `memchr` to `parse`; `Passive` is the set of the address, empty
when the text is rejected. Its port is the unbounded sum: `Overflows` is the
panic of a debug build, `Wrapped` the port of a release build, and `build` is
chosen at the start. `NoAddress` and `SocketAddr` are `send_command`'s second
look at it. Only the server listens, and only at `Home`: a connection to any
other address fails. A host name that is an address is that of `Home`.

A line is a sequence of words and blanks; a word is what it parses as, and a
number that tells texts apart. Rights are the set of the positions at which
`from_chmod` finds its letter. Dates are months: the code reads day and time
too, but what can go wrong is the year. `Line` is a server that writes like
`ls`: a time for files younger than six months, else, and for what lies ahead of
its clock, the year. There are two clocks: the server writes by `now.server`, the
client completes a date by `now.client` (`chrono::Local`, `metadata.rs:90`), which
may be in another month, and in another year. `Tick` advances either at any point,
so the year may also end while a listing is on its way. `split_whitespace` and
`join(" ")` reduce a run of blanks in a file's name to one: `Tidy` names come back
as they are, others with single blanks.

### JpegStream and the code

`Dial`, `Authenticate` and `ConnectFails` are `connect_and_stream_codec`;
`DecodeAuth`, `DecodeJpeg` and `DecodeNone` are the three outcomes of `decode`,
`Receive` and `Eof` what `Framed` does in between. The peer sends encoded
packets: a `Jpeg` packet of any bytes is what any peer can send. The letters
are the bytes of the markers, zero, the two bytes of one UTF-8 character, one
other byte, and "auth" for the first sixteen bytes of an authentication packet.
`Scan` is the reference: what the bytes contain when seen at once, found one by
one by `FoundAt`. A picture within the bytes of an authentication packet would
be found or not depending on how many of them have arrived; `NoPictureInLogin`
says that there is none. User name and access code are text, and text holds no
marker.

### MjpegServer and the code

`camera` is where the camera task awaits; `waiters` is the RwLock's fair
queue, `readers` the read guards. `FirstFrame` takes the guard and yields the
stored frame, `FirstFrameDone` is the poll after its third part, where the
guard is dropped. `sent` is the history of the broadcast channel, of which the
last `Buffer` frames can be read. `Leave` drops the body wherever it is.

## 3. Runs

| run | question | result |
|---|---|---|
| `mqtt_cancel` | does the right answer reach the right call, and no other, when calls and starts are dropped, connections lost, tasks doubled? is a command ever sent before its subscription? does an unwrap fail for anything but what was dropped? does the client implement `RequestReply`? | holds, 753,761 states |
| `mqtt_liveness` | do `start`, `publish`, a request and a stopped task end? | holds, 41,290 states |
| `ftp_session` | is a returned listing the directory, and are its dates wrong only by a year and only as the two clocks explain? is the data connection made where the server says? are replies at most one behind? does the call end, and succeed with a plain server? | holds, 142,540 states |
| `jpeg_chunks` | are the packets the same however the stream was cut, and those that were sent? | holds, 292,127 states |
| `mjpeg_server` | does a stream leave out frames, or the newest? is the camera task held up? does every stream start? | holds, 109,647 states |
| `mqtt_late_answer` | `mqtt.rs:216`: does whoever is in the map wait? | no: a dropped call does not, and the task panics; later calls get an error from `publish` |
| `mqtt_stop` | `mqtt.rs:275`: does `stop` stop the loop? | not if `start` follows within half a second and fails to connect |
| `mqtt_lost` | `mqtt.rs:340`: does a response arrive, or anything else? | not when the connection is lost in between |
| `mqtt_led` | `command.rs:28`: has the system command one entry named `command`? | no: two |
| `ftp_extension` | `file.rs:30`: are files filtered by extension? | no: `get_files` has no such parameter |
| `ftp_one_behind` | `ftp.rs:46`: is the response the command's? | not after LIST |
| `ftp_hostname` | `ftp.rs:55`: has the host name been validated? | no |

The last seven record where a comment or an assertion of the source and the
code part; each checks that one statement and TLC finds a behaviour against it.

`mqtt_cancel` has plain serial numbers and no foreign answers, and leaves a call
before the first `start` aside: of the module's unwraps those of 300 and 323, and
that of 267 after a refused subscription, are modelled and not judged by it.

Three more comments of the source are out of date and need no run: `file.rs:10`
("download specific files": there is no such method), `file.rs:21-22` (`serial` and
`insecure` are no parameters of `new`), and `camera/codec.rs:110` ("Not used for
sending frames in this example, so do nothing": `encode` writes both packets, and
the camera client sends its credentials through it).

### Bounds

- `Calls`, `Loops`: two of each in the safety runs. The hazards are between one
  late answer and one current call, and between one old task and one new. The
  proofs (section 5) have no such bound. A call is made at most once and a task
  started at most once, which bounds the sequence ids.
- `QueueCap`: 1 (3 in `mqtt_stop`), where the code has 10, so that the channel fills up.
- `Unsolicited`: a status push and an unparseable report under id 0, the first
  id the client gives out, so that they collide with a call in flight.
- `Listings`: seven directories of up to three entries: files of December, of the
  January after it and of an earlier year, names with several blanks, rights of
  everyone and of the owner only, a total, a user with a blank. `Peers`: all eight
  combinations of the first three habits, and `misquotes` alone and with `refuses`.
- `Misquotes`: thirteen texts, one for each way `from_response_string` can fail
  and two whose port does not fit 16 bits. `Aborts`: a line cut off before its
  first word, behind it, behind the first word of the name and after the blanks
  that follow, which is where a cut line still parses.
- `FirstMonth` is a December and `LastMonth` the January after it, and each of the
  two clocks starts in either: server and client agree on the year or do not, in
  both directions, and the year may end for either during the session. The
  proof is for any two clocks within half a year of each other.
- `Sendings`: all sequences of up to five whole or broken markers and other
  bytes; credentials of all lengths around `FieldLen` followed by two pictures,
  clean or not, and credentials between two pictures. `FieldLen` is 4 letters
  instead of 32 bytes: a text can be short, fit, be cut, and be cut within a
  character, and a picture could lie within an authentication packet
  (`SendingsAssumption` says that none does).
- `Viewers` two, `MaxFrames` three, `Buffer` one: a second viewer that waits
  behind the camera's write behind the first viewer's read is the longest chain
  there is, and the third frame is one a viewer can be too late for.

The runs do not check for deadlock: an owner that makes no more calls, a
listing that was returned, a stream that ended and a camera that is quiet are
proper ends.

### Fairness

`MqttProperties`: the runtime polls what is ready (`WF` for each await of the
owner and each arm of the task). `select!` picks its arms at random, so an arm
that stays ready is taken in the end; a connection delivers in order, so a
report that arrived is handed out, whatever is pushed behind it. Nothing is
assumed of the owner's calls to `start`, `stop` or the command methods, of the
network, or of a cancellation. `PrinterAnswers` is an assumption about the
device and needed for `RequestCompletes` only.

`FtpSession`: the client is polled, and a server that has not gone answers what
it was sent and finishes or aborts its transfers. Nothing is assumed of the
clocks. The server is free to vanish, and a server that waits for the data connection need not give up waiting, which is
why `Terminates` excludes one that does not.

`MjpegServer`: the camera task goes on when it can, and a response body is
polled until hyper's write buffer is full. A stalled viewer is not polled while
it follows the channel. That its first frame is taken all the same assumes that
one frame fits in the buffer of a connection (about 400 kB in hyper); with a
larger frame a viewer that stops reading would hold the read guard, and with it
the camera task and every later viewer, until it reads or leaves.

## 4. Properties

`MqttProperties`:

- `ReplyMatchesCall`: what a call's oneshot holds answers that call's command.
- `WaiterCanBeWoken`: a waiting call has its entry in the map, or its answer.
- `NoAnswerDropped`: no task consumes the current call's answer without handing
  it over.
- `ImplementsRequestReply`: refinement of the abstract service.
- `PublishReturns`: `publish` returns, with an error if its task has ended; the
  one exception is a task that itself waits for room for its DISCONNECT.
- `OnlyDropsPanic`: a task panics only if its `start` was dropped before the task
  could report, or a call that had to be filed was dropped. No call and no waiting
  `start` panics. The code fails an unwrap for whatever was given up, and for
  nothing else.
- `AskedOverSubscription`, `StartCompletes`, `RequestCompletes`, `StopEndsTask`: as
  their names say; the comments give the conditions.

`FtpProperties`:

- `OkMeansComplete`: a listing returned has one entry for each file, with its
  user, group, size, the rights everyone has, and its name: exactly if no two
  blanks follow each other in it, else with single ones. A truncated transfer
  looks like a shorter listing, or like one with a shorter name.
- `DatesOffByClocks`: a date is the file's, or a year late and then ahead of the
  client's clock (December's files in January), or a year early and then the file
  is ahead of it (January's files, listed by a server in January for a client in
  December). Nothing else is ever wrong.
- `DialsTheServer`, `PassiveSaysSo`: the data connection goes where the 227
  says, and the 227 says nothing else.
- `BehindByOne`: up to LIST each reply is taken for the command it answers; after
  it, for the command before.
- `Terminates`, `ListingReturned`: as their names say.

`JpegStream`:

- `ChunkIndependent`: the packets are those of the bytes seen at once.
- `PacketsArrive`: packets are received as they were encoded, in order, none
  twice, and the buffer is shorter than the next one. Pictures with an end
  marker inside are left out, and so are bytes between packets: the code has
  no way to tell them.

`MjpegServer`: `FramesFollow`, `CameraServed`, `StreamStarts`, and
`NewestFrameShown`: whatever the order of subscribing, storing and sending, a
viewer who goes on reading ends up with the last frame the camera stored.

`OkMeansComplete` and `BehindByOne` belong together: that the QUIT after a
listing reads the 226 looks like a mistake, and it is the only place where an
aborted transfer is noticed.

## 5. Proofs

Every invariant that a passing run checks is a theorem, for every value of the
constants, and so are the action properties `NoAnswerDropped`, `DatesOffByClocks`,
`BehindByOne` and `PassiveSaysSo` and the refinement `ImplementsRequestReply`. They follow the same
lines: the initial states satisfy an inductive invariant, each action preserves
it, and it implies the property.

### MqttProofs

- `TypeCorrect`: `TypeOK`, by `TypeInv`. Besides the types it says that the call
  the owner is in has been made (`CurBegun`) and that whatever is queued or asked
  was sent by a call that was made (`SentByCalls`); without it the answer of the
  printer would have no kind.
- `ReplyCorrect`: `ReplyMatchesCall`, assuming `OnlyOwnAnswers`. The invariant
  `ReplyInv` adds that ids are below the counter and given out once, that the map
  files a call under its own id only, and that an answer on its way carries the
  id of the call it answers.
- `WaitersAreFiled`: `WaiterCanBeWoken`, by `WaitInv`, which extends the claim to
  the moment between `Register` and `Publish`.
- `CommandsFollowSubscription`: `AskedOverSubscription`, dropped starts and
  doubled tasks included. `Handshakes` (in `SubInv`) follows `start` and its task
  step by step: while `start` waits nothing is queued, so the subscription is the
  first request of its channel, and the channel is first in, first out.

### MqttCallProofs

`CallInv` follows a command. Before `publish` it is nowhere (`SentWhenPublished`),
and afterwards it is in one place, in one channel or with the printer
(`OneCopy`); an answer on its way says what was asked and under which id
(`AllGenuine`).

- `AnswersArrive`: `NoAnswerDropped`. An answer exists only once its call waits,
  so its entry is still filed, or an earlier message used it up and the call
  holds that one.
- `RequestsAndReplies`: `ImplementsRequestReply`, assuming `OnlyOwnAnswers`. Each
  action maps to a step of `RequestReply` or to a stutter. The abstract service
  serves a request once, which is `OneCopy`; it hands a result to the call that
  was served, which is `ReplyInv`.
- `NothingElsePanics`: `OnlyDropsPanic`, assuming plain serials and
  `OnlyOwnAnswers`; calls and starts may be dropped. `PanicInv`: a `start` that
  waits has a task that may still report (`Told`), and if nothing is dropped a task
  that may still report has a `start` that waits (`Heard`); an entry in the map
  belongs to the call in progress, to one whose command never left, or to one that
  was given up (`Filed`), so a message that finds an entry finds its receiver unless
  that call was dropped. A dropped start or call stays dropped (`StaysGivenUp`), so
  a panic keeps its cause (`Caused`).

### FtpReplyProofs and FileListProofs

`LEMMA PassiveQuote`: `Passive` reads back the address that `Quote` wrote, for
every four bytes and every port. `LEMMA LineRead`: `from_str` reads back the line
that `Line` wrote for an entry, apart from the year that it does not hold.

### FtpProofs

One invariant, `SessionInv`, for all theorems:

- `TypeOK`;
- `Turns`: the replies on their way are those of the steps from the last one read
  to the last one sent; after LIST there is one more, the 226. Each reply has a
  code that its own step accepts, or is a refusal, or closes the connection;
- `Truthful`: a 226 on its way means that all is served, a 221 answers a QUIT,
  and a 227 is a quotation of `Home` unless the server misquotes;
- `Delivery`: the lines read, then those on the wire, are those of the first
  `served` entries; one more may be cut off, and then the server never says 226;
- `Progress`: past LIST the wire is empty, and past the first QUIT everything has
  been served.

From it `TypeCorrect`, `NothingMissing` (`OkMeansComplete`), `DatesOffByAYear`
(`DatesOffByClocks`), `DialsHome` (`DialsTheServer`), `OneBehind` (`BehindByOne`) and
`PassiveHonest` (`PassiveSaysSo`). `DatesOffByClocks` is the one about time: a
line without a year was written by a server that took its file for younger than six
months by its own clock, and the client reads it by another (`Dated`); the invariant
keeps that each line on the wire was written in some month between the bounds.

### JpegProofs

The decoder's searches are described by positions in the whole stream: `Login`,
`Picture`, `First`, and `Step` for one packet found (`Search`, `FoundStep`,
`DecodesStep`). `Holding(p)` says that the buffer is the stream from p to what was
read.

- `TypeCorrect`: `TypeOK`, by `StreamInv`: the stream is what was sent, and the
  buffer is its end.
- `Received`: `PacketsArrive`, by `ArriveInv`. `Cuts` are the ends of the packets
  in the stream; the buffer begins at such an end, the packets yielded are the
  first ones sent (`SameAs`), and when decode is done the next end has not been
  read. `NextPicture` and `NextLogin` show that the first packet that is found
  where an encoded one begins is that packet, and ends where it ends: no marker
  can begin in one clean picture and end in the next, and a truncated text is
  decoded to what `Holds` allows.
- `CutAnywhere`: `ChunkIndependent`, assuming `NoPictureInLogin`, by `PathInv`:
  what was yielded is a walk of `Step`s over the bytes read, to where the buffer
  begins, and when decode is done there is no further step. A step stays one when
  more bytes arrive (`StepStable`); this is where the hypothesis is needed. That
  such a walk is what `Scan` computes is `ScanWalk`.

### MjpegProofs

`ViewInv`: the camera stores a frame before it sends it (`StoredThenSent`), and
nothing a viewer has still to receive is older than what it was shown last
(`Received`). `TypeCorrect` is `TypeOK`, `NoFrameMissed` is `FramesFollow`.

### What the proofs assume

- `MqttAssumption`: what the constants are.
- `OnlyOwnAnswers` (hypothesis of three theorems): an unsolicited report is a
  push or does not parse. It is needed: a second program on the same printer
  numbers its commands from 0 too.
- `FtpAssumption`: both clocks stay within the same half year (`FirstMonth`,
  `LastMonth`) while the session lasts, whatever the files' dates are, and the server listens at an address that
  is not 0.0.0.0. In the type of an entry, a user or group (`Owners`) begins and
  ends with a word, and none of its words is a month or looks like rights.
- `JpegAssumption`: the credentials that are sent are text (they are `SmolStr`s).
- `NoPictureInLogin` (hypothesis of `CutAnywhere`). With four-letter fields and a
  picture sent behind the header of an authentication packet, TLC finds a cut
  after which decode yields the picture, where it yields the packet without the
  cut.
- `MjpegAssumption`: the channel holds at least one frame.

Induction is used over numbers only, and stated for a set (`SeqLemmas`,
`Induction`): what is to be shown of n is membership in a set of numbers. That is
enough for the recursive functions of the models: `Parts` and `Split` are read
from the left (`Along`), `FlattenSeq` and `Scan` by a function of the position.

### Only model-checked

Liveness, which is out of reach of the prover: `PublishReturns`, `StartCompletes`,
`RequestCompletes`, `StopEndsTask`, `Terminates`, `ListingReturned`,
`CameraServed`, `StreamStarts`, `NewestFrameShown`. `Payload` has nothing to prove:
its objects are constants, and TLC compares them with the tests of `command.rs`.

## 6. Plan

Done, in this order: the MQTT client with its abstract service, the FTPS session
with its parsers, the camera stream, the MJPEG server, and liveness of each; then
the proofs: the invariants of the MQTT client, its refinement, the session and
its parsers, the MJPEG server, the camera stream.

What is left:

1. `PublishReturns` and `Terminates` rest on safety arguments (a task that waits
   for room has ended or takes the next request; each reply moves the session one
   step on). A variant that decreases with every step could be stated as an
   action property and proved, so that only the fairness argument is left to TLC.
2. `RequestReply` promises nothing about a call that is dropped after its command
   was served; an abstract service that says what such a call leaves behind in the
   map would make `mqtt_late_answer` a failed refinement.
3. A weaker hypothesis than `NoPictureInLogin`, which speaks of every header among
   the bytes and not only of those that decode comes to.

## 7. Not modelled

Fields of the printer's reports and commands the client has no method for; TLS
handshakes and certificates; log output; how bytes make tokens and words in FTP
replies and listings; days, hours and minutes of a file's date; keep-alive timing, except that it ends a dead connection
(`NetFails`); the HTTP headers of the MJPEG server. A response body follows the
channel without an end when the camera connection is gone, since the server
keeps a sender (`MjpegServer`, `CameraCloses`): nothing in the source says
whether it should end, so `NewestFrameShown` is about the last frame only.
