------------------------------ MODULE MqttClient ------------------------------
(***************************************************************************)
(* The MQTT half of the crate (src/mqtt.rs): one `MqttClient`, the         *)
(* background tasks its `start` spawns, and the printer behind its broker. *)
(*                                                                         *)
(* Every method takes `&mut self`, so at most one of them runs at a time;  *)
(* concurrency is between that call, the background tasks (a task that was *)
(* not stopped lives on beside the next one) and the network.  A call may  *)
(* be dropped by its owner at any await (a timeout around it), which is    *)
(* how a request can be answered after nobody waits for the answer.        *)
(***************************************************************************)
EXTENDS Naturals, Sequences

CONSTANTS
  Calls,        \* API calls that send a command (each is made at most once)
  Loops,        \* background tasks, one for each call of start()
  Ops,          \* the API methods these calls may invoke
  QueueCap,     \* requests the channel into the event loop holds (10)
  Unsolicited,  \* reports that answer no command of this client
  MayCancel,    \* may the owner drop a call before it returns?
  TakeOver,     \* does the broker end an older session of the same client id?
  Serials,      \* what the serial number may be
  NoCall, NoLoop

(* The methods that wait for an answer, and the JSON root their answer has *)
Root == [get_version |-> "info", set_led |-> "system",
         extrusion_calibration_get |-> "print"]

(* `push_status` is a print message the task drops before it looks for the *)
(* command it answers; "unparseable" is whatever serde rejects.            *)
Kinds == {"info", "system", "print", "push_status", "unparseable"}

(* `answers` names the call whose command made the printer send it: it is  *)
(* not in the message, only the properties read it.                        *)
Messages == [kind : Kinds, seq : Nat, answers : Calls \cup {NoCall}]

(* The empty oneshot channel of a call *)
NoMsg == [kind |-> "none", seq |-> 0, answers |-> NoCall]

(* What travels from the API calls to the event loop *)
Requests == [type : {"subscribe", "publish", "disconnect"},
             call : Calls \cup {NoCall}]

ASSUME MqttAssumption ==
  /\ NoCall \notin Calls
  /\ NoLoop \notin Loops
  /\ QueueCap \in Nat \ {0}
  /\ Ops \subseteq DOMAIN Root \cup {"push_all"}
  /\ Unsolicited \subseteq [kind : Kinds, seq : Nat, answers : {NoCall}]
  /\ Serials \subseteq {"plain", "+", "#"}
  /\ {MayCancel, TakeOver} \subseteq BOOLEAN

VARIABLES
  \* --- MqttClient and the call its owner is making
  serial,             \* plain, or holding one of the wildcards of MQTT
  client,             \* the event loop `self.client` sends to, or NoLoop
  stop_flag,          \* shared with every task
  inflight_commands,  \* shared with every task: sequence id -> waiting call
  sequence_id,        \* the next one to give out
  pc,                 \* where the current call is suspended
  cur,                \* the current call, when it sends a command
  op, seqOf,          \* per call: its method and its sequence id
  slot,               \* per call: what its oneshot channel holds
  outcome,            \* per call: how it ended
  \* --- one background task and its connection, per loop
  phase,              \* where the task is
  net,                \* its connection to the broker
  requests,           \* the bounded channel it drains
  inbox,              \* reports on their way to it
  subscribed,         \* has the broker seen its subscription?
  connected,          \* the oneshot start() waits on
  \* --- the printer
  asked               \* commands received and not answered yet

ids    == <<client, sequence_id, op, seqOf>>
owner  == <<ids, pc, cur, outcome>>
link   == <<net, subscribed, asked>>
task   == <<phase, connected>>
queues == <<requests, inbox>>
shared == <<stop_flag, inflight_commands, slot>>
vars   == <<serial, owner, link, task, queues, shared>>

Phases == {"unborn", "created", "polling", "subscribing",
           "disconnecting", "finishing", "ended", "panicked"}

TypeOK ==
  /\ serial \in Serials
  /\ client \in Loops \cup {NoLoop}
  /\ stop_flag \in BOOLEAN
  /\ inflight_commands \in [DOMAIN inflight_commands -> Calls]
  /\ DOMAIN inflight_commands \subseteq Nat
  /\ sequence_id \in Nat
  /\ pc \in {"idle", "start_flag", "start_wait", "register", "publish", "wait"}
  /\ cur \in Calls \cup {NoCall}
  /\ op \in [Calls -> Ops \cup {"none"}]
  /\ seqOf \in [Calls -> Nat]
  /\ slot \in [Calls -> Messages \cup {NoMsg}]
  /\ outcome \in [Calls -> {"unborn", "running", "ok", "error", "panic",
                            "not_started", "cancelled"}]
  /\ phase \in [Loops -> Phases]
  /\ net \in [Loops -> {"connecting", "up", "lost"}]
  /\ requests \in [Loops -> Seq(Requests)]
  /\ inbox \in [Loops -> SUBSET Messages]
  /\ subscribed \in [Loops -> BOOLEAN]
  /\ connected \in [Loops -> {"unsent", "ok", "err", "dropped"}]
  /\ asked \subseteq [call : Calls, via : Loops]

Init ==
  /\ serial \in Serials
  /\ client = NoLoop
  /\ stop_flag = FALSE
  /\ inflight_commands = [s \in {} |-> NoCall]
  /\ sequence_id = 0
  /\ pc = "idle"
  /\ cur = NoCall
  /\ op = [c \in Calls |-> "none"]
  /\ seqOf = [c \in Calls |-> 0]
  /\ slot = [c \in Calls |-> NoMsg]
  /\ outcome = [c \in Calls |-> "unborn"]
  /\ phase = [l \in Loops |-> "unborn"]
  /\ net = [l \in Loops |-> "connecting"]
  /\ requests = [l \in Loops |-> <<>>]
  /\ inbox = [l \in Loops |-> {}]
  /\ subscribed = [l \in Loops |-> FALSE]
  /\ connected = [l \in Loops |-> "unsent"]
  /\ asked = {}

-------------------------------------------------------------------------------
(* Channels                                                                *)

(* The event loop, and with it the receiving end of the request channel,   *)
(* lives as long as the task that owns it.                                 *)
Alive(l) == phase[l] \notin {"unborn", "ended", "panicked"}

(* The library refuses to publish to a topic with a wildcard in it; a      *)
(* filter may have a `+` for a level, but no `#` before the last.          *)
TopicLegal == serial = "plain"
FilterLegal == serial # "#"

HasRoom(l) == Len(requests[l]) < QueueCap

Enqueue(l, type, c) ==
  requests' = [requests EXCEPT ![l] = Append(@, [type |-> type, call |-> c])]

(* A report published now reaches the task l *)
Reachable(l) == Alive(l) /\ net[l] = "up" /\ subscribed[l]

Deliver(m) ==
  inbox' = [l \in Loops |-> IF Reachable(l) THEN inbox[l] \cup {m} ELSE inbox[l]]

(* start() of task l still holds the receiving end of `connected` *)
StartWaits(l) == pc = "start_wait" /\ client = l

(* The task l is over: what it owned is dropped, unread and unsent *)
DropTask(l, how) ==
  /\ phase' = [phase EXCEPT ![l] = how]
  /\ requests' = [requests EXCEPT ![l] = <<>>]
  /\ inbox' = [inbox EXCEPT ![l] = {}]
  /\ connected' = [connected EXCEPT ![l] = IF @ = "unsent" THEN "dropped" ELSE @]

-------------------------------------------------------------------------------
(* The owner of the MqttClient: start, stop                                *)

(* start, up to its first await: a fresh channel replaces self.client *)
BeginStart(l) ==
  /\ pc = "idle"
  /\ phase[l] = "unborn"
  /\ phase' = [phase EXCEPT ![l] = "created"]
  /\ client' = l
  /\ pc' = "start_flag"
  /\ UNCHANGED <<serial, cur, op, seqOf, outcome, sequence_id, connected>>
  /\ UNCHANGED <<link, queues, shared>>

(* ... it clears the stop flag and spawns the task *)
SpawnLoop ==
  /\ pc = "start_flag"
  /\ stop_flag' = FALSE
  /\ phase' = [phase EXCEPT ![client] = "polling"]
  /\ pc' = "start_wait"
  /\ UNCHANGED <<serial, ids, cur, outcome, connected, link, queues>>
  /\ UNCHANGED <<inflight_commands, slot>>

(* ... and returns what the task reported; a task that went away without   *)
(* reporting makes it panic (`connected` is "dropped" then).               *)
StartReturns ==
  /\ pc = "start_wait"
  /\ connected[client] # "unsent"
  /\ pc' = "idle"
  /\ UNCHANGED <<serial, ids, cur, outcome, link, task, queues, shared>>

(* The owner drops start(): an event loop not yet spawned goes with it *)
CancelStart ==
  /\ MayCancel
  /\ pc \in {"start_flag", "start_wait"}
  /\ pc' = "idle"
  /\ IF pc = "start_flag" THEN DropTask(client, "ended") ELSE UNCHANGED <<task, queues>>
  /\ UNCHANGED <<serial, ids, cur, outcome, link, shared>>

Stop ==
  /\ pc = "idle"
  /\ stop_flag' = TRUE
  /\ UNCHANGED <<serial, owner, link, task, queues, inflight_commands, slot>>

-------------------------------------------------------------------------------
(* The owner of the MqttClient: get_version, push_all, set_led and          *)
(* extrusion_calibration_get, which send one command each                  *)

(* Mutant of next_sequence_id: the counter is read but not incremented     *)
RepeatId(c) ==
  /\ seqOf' = [seqOf EXCEPT ![c] = sequence_id]
  /\ UNCHANGED sequence_id

next_sequence_id(c) ==
  /\ seqOf' = [seqOf EXCEPT ![c] = sequence_id]
  /\ sequence_id' = sequence_id + 1

(* The current call is over; its receiver is dropped *)
Return(result) ==
  /\ outcome' = [outcome EXCEPT ![cur] = result]
  /\ cur' = NoCall
  /\ pc' = "idle"

BeginCall(c, o) ==
  /\ pc = "idle"
  /\ outcome[c] = "unborn"
  /\ client # NoLoop
  /\ next_sequence_id(c)
  /\ op' = [op EXCEPT ![c] = o]
  /\ outcome' = [outcome EXCEPT ![c] = "running"]
  /\ cur' = c
  /\ pc' = IF o = "push_all" THEN "publish" ELSE "register"
  /\ UNCHANGED <<serial, client, link, task, queues, shared>>

(* Before the first start(), `client.as_ref().unwrap()` panics *)
CallNotStarted(c, o) ==
  /\ pc = "idle"
  /\ outcome[c] = "unborn"
  /\ client = NoLoop
  /\ next_sequence_id(c)
  /\ op' = [op EXCEPT ![c] = o]
  /\ outcome' = [outcome EXCEPT ![c] = "not_started"]
  /\ UNCHANGED <<serial, client, pc, cur, link, task, queues, shared>>

(* Mutant of Register: keyed by the counter, which has moved on by one     *)
RegisterNextId ==
  /\ pc = "register"
  /\ inflight_commands' =
       [s \in DOMAIN inflight_commands \cup {sequence_id} |->
          IF s = sequence_id THEN cur ELSE inflight_commands[s]]
  /\ pc' = "publish"
  /\ UNCHANGED <<serial, ids, cur, outcome, link, task, queues, stop_flag, slot>>

(* HashMap::insert: an older entry under the same key is replaced *)
Register ==
  /\ pc = "register"
  /\ inflight_commands' =
       [s \in DOMAIN inflight_commands \cup {seqOf[cur]} |->
          IF s = seqOf[cur] THEN cur ELSE inflight_commands[s]]
  /\ pc' = "publish"
  /\ UNCHANGED <<serial, ids, cur, outcome, link, task, queues, stop_flag, slot>>

(* Mutant of Publish: the command is published again until it is answered  *)
PublishAgain ==
  /\ pc = "publish"
  /\ TopicLegal /\ Alive(client) /\ HasRoom(client)
  /\ Enqueue(client, "publish", cur)
  /\ pc' \in {"publish", "wait"}
  /\ UNCHANGED <<serial, ids, cur, outcome, link, task, inbox, shared>>

(* AsyncClient::publish waits for room in the channel *)
Publish ==
  /\ pc = "publish"
  /\ TopicLegal /\ Alive(client) /\ HasRoom(client)
  /\ Enqueue(client, "publish", cur)
  /\ IF op[cur] = "push_all"
     THEN Return("ok")
     ELSE pc' = "wait" /\ UNCHANGED <<cur, outcome>>
  /\ UNCHANGED <<serial, ids, link, task, inbox, shared>>

(* The task is gone or the topic is refused: the call returns the error,   *)
(* past the code that would have removed its inflight entry.               *)
PublishFails ==
  /\ pc = "publish"
  /\ ~TopicLegal \/ ~Alive(client)
  /\ Return("error")
  /\ UNCHANGED <<serial, ids, link, task, queues, shared>>

(* TryFrom<Message>: extrusion_calibration_get hands out any message *)
Converts(o, m) == o = "extrusion_calibration_get" \/ m.kind = Root[o]

Receive ==
  /\ pc = "wait"
  /\ slot[cur] # NoMsg
  /\ Return(IF Converts(op[cur], slot[cur]) THEN "ok" ELSE "panic")
  /\ UNCHANGED <<serial, ids, link, task, queues, shared>>

(* The owner drops the call: its receiver is gone, its entry stays *)
CancelCall ==
  /\ MayCancel
  /\ cur # NoCall
  /\ Return("cancelled")
  /\ UNCHANGED <<serial, ids, link, task, queues, shared>>

-------------------------------------------------------------------------------
(* The background task l: the arms of its select! and what follows its loop *)

(* Packet::ConnAck; an older session of this client id is thrown out *)
PollConnAck(l) ==
  /\ phase[l] = "polling" /\ net[l] = "connecting"
  /\ net' = [m \in Loops |->
               IF m = l THEN "up"
               ELSE IF TakeOver /\ net[m] = "up" THEN "lost" ELSE net[m]]
  /\ phase' = [phase EXCEPT ![l] = "subscribing"]
  /\ UNCHANGED <<serial, owner, subscribed, asked, connected, queues, shared>>

(* Mutants of Subscribe: start() is told but nothing is subscribed to, and *)
(* the reverse                                                             *)
NotifyOnly(l) ==
  /\ phase[l] = "subscribing"
  /\ StartWaits(l)
  /\ connected' = [connected EXCEPT ![l] = "ok"]
  /\ phase' = [phase EXCEPT ![l] = "polling"]
  /\ UNCHANGED <<serial, owner, link, queues, shared>>

SubscribeOnly(l) ==
  /\ phase[l] = "subscribing"
  /\ FilterLegal /\ HasRoom(l)
  /\ Enqueue(l, "subscribe", NoCall)
  /\ phase' = [phase EXCEPT ![l] = "polling"]
  /\ UNCHANGED <<serial, owner, link, connected, inbox, shared>>

(* client.subscribe().await, then the oneshot to start() *)
Subscribe(l) ==
  /\ phase[l] = "subscribing"
  /\ FilterLegal /\ HasRoom(l)
  /\ StartWaits(l)
  /\ Enqueue(l, "subscribe", NoCall)
  /\ connected' = [connected EXCEPT ![l] = "ok"]
  /\ phase' = [phase EXCEPT ![l] = "polling"]
  /\ UNCHANGED <<serial, owner, link, inbox, shared>>

(* ... `tx.send(Ok(())).unwrap()` when start() was dropped *)
SubscribeOrphaned(l) ==
  /\ phase[l] = "subscribing"
  /\ FilterLegal /\ HasRoom(l)
  /\ ~StartWaits(l)
  /\ DropTask(l, "panicked")
  /\ UNCHANGED <<serial, owner, link, shared>>

(* ... or the filter is refused, and the loop is left *)
SubscribeFails(l) ==
  /\ phase[l] = "subscribing"
  /\ ~FilterLegal
  /\ phase' = [phase EXCEPT ![l] = "disconnecting"]
  /\ UNCHANGED <<serial, owner, link, connected, queues, shared>>

(* Event::Outgoing: the oldest request goes to the broker; it is never the *)
(* DISCONNECT, which is put in when nobody polls any more.                 *)
PollOutgoing(l) ==
  /\ phase[l] = "polling" /\ net[l] = "up"
  /\ requests[l] # <<>>
  /\ requests' = [requests EXCEPT ![l] = Tail(@)]
  /\ LET r == Head(requests[l])
     IN /\ subscribed' = [subscribed EXCEPT ![l] = @ \/ r.type = "subscribe"]
        /\ asked' = IF r.type = "publish"
                    THEN asked \cup {[call |-> r.call, via |-> l]} ELSE asked
  /\ UNCHANGED <<serial, owner, net, task, inbox, shared>>

(* Packet::Publish is taken from the connection *)
TakeReport(l, m) ==
  /\ phase[l] = "polling" /\ net[l] \in {"up", "lost"}
  /\ m \in inbox[l]

(* Mutants of IsAnswer: status pushes are looked up like answers; only     *)
(* print messages are                                                      *)
AnyParsed(m) == m.kind # "unparseable"

OnlyPrint(m) == m.kind = "print"

(* Neither a status push nor a payload serde rejects *)
IsAnswer(m) == m.kind \notin {"push_status", "unparseable"}

(* ... it answers no command in flight *)
PollDiscarded(l, m) ==
  /\ TakeReport(l, m)
  /\ ~IsAnswer(m) \/ m.seq \notin DOMAIN inflight_commands
  /\ inbox' = [inbox EXCEPT ![l] = @ \ {m}]
  /\ UNCHANGED <<serial, owner, link, task, requests, shared>>

(* Mutant of Remove: the sender is taken, its key stays                    *)
TakeSender(s) == inflight_commands' = [inflight_commands EXCEPT ![s] = NoCall]

(* HashMap::remove *)
Remove(s) ==
  inflight_commands' =
    [k \in DOMAIN inflight_commands \ {s} |-> inflight_commands[k]]

(* ... the command waits: its entry is removed and its oneshot filled *)
PollAnswer(l, m) ==
  /\ TakeReport(l, m)
  /\ IsAnswer(m)
  /\ m.seq \in DOMAIN inflight_commands
  /\ inflight_commands[m.seq] = cur
  /\ Remove(m.seq)
  /\ slot' = [slot EXCEPT ![cur] = m]
  /\ inbox' = [inbox EXCEPT ![l] = @ \ {m}]
  /\ UNCHANGED <<serial, owner, link, task, requests, stop_flag>>

(* ... the command was dropped: `inflight_command.send(msg).unwrap()` *)
PollOrphaned(l, m) ==
  /\ TakeReport(l, m)
  /\ IsAnswer(m)
  /\ m.seq \in DOMAIN inflight_commands
  /\ inflight_commands[m.seq] # cur
  /\ Remove(m.seq)
  /\ DropTask(l, "panicked")
  /\ UNCHANGED <<serial, owner, link, stop_flag, slot>>

(* poll() returns an error: the connection was refused, or is gone and the *)
(* library has emptied the channel into its list for the next connection   *)
PollErr(l) ==
  /\ phase[l] = "polling" /\ net[l] \in {"connecting", "lost"}
  /\ connected[l] # "unsent" \/ StartWaits(l)
  /\ connected' = [connected EXCEPT ![l] = IF @ = "unsent" THEN "err" ELSE @]
  /\ phase' = [phase EXCEPT ![l] = "disconnecting"]
  /\ requests' = [requests EXCEPT ![l] = IF net[l] = "lost" THEN <<>> ELSE @]
  /\ UNCHANGED <<serial, owner, link, inbox, shared>>

(* ... `tx.send(Err(e)).unwrap()` when start() was dropped *)
PollErrOrphaned(l) ==
  /\ phase[l] = "polling" /\ net[l] \in {"connecting", "lost"}
  /\ connected[l] = "unsent" /\ ~StartWaits(l)
  /\ DropTask(l, "panicked")
  /\ UNCHANGED <<serial, owner, link, shared>>

(* Mutant of SeesStop: the flag is looked at when there is nothing to read *)
SeesStopWhenQuiet(l) ==
  /\ phase[l] = "polling"
  /\ stop_flag /\ inbox[l] = {}
  /\ phase' = [phase EXCEPT ![l] = "disconnecting"]
  /\ UNCHANGED <<serial, owner, link, connected, queues, shared>>

(* The 500 ms timer finds the flag set *)
SeesStop(l) ==
  /\ phase[l] = "polling"
  /\ stop_flag
  /\ phase' = [phase EXCEPT ![l] = "disconnecting"]
  /\ UNCHANGED <<serial, owner, link, connected, queues, shared>>

(* client.disconnect().await puts one more request into the channel ... *)
Disconnect(l) ==
  /\ phase[l] = "disconnecting"
  /\ HasRoom(l)
  /\ Enqueue(l, "disconnect", NoCall)
  /\ phase' = [phase EXCEPT ![l] = "finishing"]
  /\ UNCHANGED <<serial, owner, link, connected, inbox, shared>>

(* Mutant of Finish: the task waits until its DISCONNECT has been sent     *)
FinishWhenSent(l) ==
  /\ phase[l] = "finishing"
  /\ requests[l] = <<>>
  /\ DropTask(l, "ended")
  /\ UNCHANGED <<serial, owner, link, shared>>

(* ... and the task ends, dropping the channel *)
Finish(l) ==
  /\ phase[l] = "finishing"
  /\ DropTask(l, "ended")
  /\ UNCHANGED <<serial, owner, link, shared>>

-------------------------------------------------------------------------------
(* The network, the printer and its other clients                          *)

NetFails(l) ==
  /\ net[l] = "up" /\ phase[l] \in {"polling", "subscribing"}
  /\ net' = [net EXCEPT ![l] = "lost"]
  /\ UNCHANGED <<serial, owner, subscribed, asked, task, queues, shared>>

AnswerTo(c) ==
  [kind |-> IF op[c] = "push_all" THEN "push_status" ELSE Root[op[c]],
   seq |-> seqOf[c], answers |-> c]

(* The printer answers on the report topic, to whoever is subscribed now *)
Answer(r) ==
  /\ r \in asked
  /\ asked' = asked \ {r}
  /\ Deliver(AnswerTo(r.call))
  /\ UNCHANGED <<serial, owner, net, subscribed, task, requests, shared>>

Report(m) ==
  /\ Deliver(m)
  /\ UNCHANGED <<serial, owner, link, task, requests, shared>>

-------------------------------------------------------------------------------
Owner ==
  \/ \E l \in Loops : BeginStart(l)
  \/ SpawnLoop \/ StartReturns \/ CancelStart
  \/ Stop
  \/ \E c \in Calls, o \in Ops : BeginCall(c, o) \/ CallNotStarted(c, o)
  \/ Register \/ Publish \/ PublishFails \/ Receive \/ CancelCall

PollPublish(l, m) ==
  \/ PollDiscarded(l, m)
  \/ PollAnswer(l, m) \/ PollOrphaned(l, m)

Task(l) ==
  \/ PollConnAck(l)
  \/ Subscribe(l) \/ SubscribeOrphaned(l) \/ SubscribeFails(l)
  \/ PollOutgoing(l)
  \/ \E m \in inbox[l] : PollPublish(l, m)
  \/ PollErr(l) \/ PollErrOrphaned(l)
  \/ SeesStop(l) \/ Disconnect(l) \/ Finish(l)

Printer ==
  \/ \E l \in Loops : NetFails(l)
  \/ \E r \in asked : Answer(r)
  \/ \E m \in Unsolicited : Report(m)

Next == Owner \/ (\E l \in Loops : Task(l)) \/ Printer

Spec == Init /\ [][Next]_vars
===============================================================================
