---------------------------- MODULE MqttProperties ----------------------------
(***************************************************************************)
(* What MqttClient has to guarantee, and the fairness its liveness needs.  *)
(***************************************************************************)
EXTENDS MqttClient, Payload

(* A call that returned an answer returned the printer's answer to its own *)
(* command: the promise of the map keyed by sequence id (mqtt.rs:320).  It *)
(* has to survive late answers to calls dropped earlier, status pushes     *)
(* that carry ids of their own, and an old task delivering for a new one.  *)
ReplyMatchesCall ==
  \A c \in Calls : slot[c] # NoMsg => slot[c].answers = c

(* A call that waits has an entry in the map, so that its answer can reach *)
(* it, or holds the answer already: no task, and no later call, takes the  *)
(* entry of a waiting call away (mqtt.rs:211 and 328).                     *)
WaiterCanBeWoken ==
  pc = "wait" /\ slot[cur] = NoMsg =>
    /\ seqOf[cur] \in DOMAIN inflight_commands
    /\ inflight_commands[seqOf[cur]] = cur

(* No task consumes the answer to the call in progress without handing it  *)
(* over: the entry is inserted before the command is published, so the     *)
(* "unknown sequence_id" branch (mqtt.rs:218) never meets such an answer.  *)
NoAnswerDropped ==
  [][\A l \in Loops : \A m \in inbox[l] :
       /\ cur # NoCall /\ m.answers = cur
       /\ phase[l]' = "polling" /\ m \notin inbox[l]'
       => slot'[cur] # NoMsg]_vars

(* A command reaches the printer only after the subscription that will     *)
(* carry its answer reached the broker: start() returns after subscribe()  *)
(* is queued (mqtt.rs:186 before 193), and the queue is first in first out.*)
AskedOverSubscription ==
  \A r \in asked : subscribed[r.via]

(* Only what the owner dropped makes anything panic.  A task does if its   *)
(* start() was dropped before the task could report (mqtt.rs:193, 239), or *)
(* if a call that had to be filed was dropped (216); a call (341, 351) and *)
(* a start() that waits (267) never do.  The serial number is a legal topic*)
(* level and only this client's commands are answered on the topic; a call *)
(* before the first start(), which panics at once (300, 323), is left out. *)
GivenUp(c) == outcome[c] = "cancelled" /\ op[c] # "push_all"

OnlyDropsPanic ==
  /\ \A l \in Loops : phase[l] = "panicked" =>
       \/ MayCancel /\ connected[l] = "dropped"
       \/ \E c \in Calls : GivenUp(c)
  /\ \A c \in Calls : outcome[c] # "panic"
  /\ ~(pc = "start_wait" /\ connected[client] = "dropped")

-------------------------------------------------------------------------------
(* The calls as RequestReply sees them *)
Status(c) ==
  CASE outcome[c] = "unborn"  -> "new"
    [] outcome[c] = "running" -> IF pc = "wait" THEN "asked" ELSE "open"
    [] outcome[c] = "ok"      -> IF op[c] = "push_all" THEN "told" ELSE "done"
    [] OTHER                  -> "closed"

Queued(c) ==
  \E l \in Loops : \E i \in 1..Len(requests[l]) :
    requests[l][i] = [type |-> "publish", call |-> c]

UnderWay(c) == Queued(c) \/ \E r \in asked : r.call = c

Answered(c) ==
  \/ \E l \in Loops : \E m \in inbox[l] : m.answers = c
  \/ slot[c] # NoMsg /\ slot[c].answers = c

Abstract == INSTANCE RequestReply WITH
  status   <- [c \in Calls |-> Status(c)],
  commands <- {c \in Calls : UnderWay(c)},
  answers  <- {c \in Calls : Answered(c)}

(* MqttClient implements RequestReply: through restarts, lost connections, *)
(* dropped calls and tasks that outlive their start() a command is sent at *)
(* most once, and a call returns a result only if the printer answered it. *)
ImplementsRequestReply == Abstract!Spec

-------------------------------------------------------------------------------
(* The runtime polls what is ready: a suspended call of the owner and every*)
(* task go on when they can, and select! starts its arms in random order,  *)
(* so that no ready arm waits forever.  A connection attempt is bounded by *)
(* a timeout of the MQTT library.  A connection delivers in order: every   *)
(* report that arrived is handed out in the end.                           *)
OwnerFairness ==
  /\ WF_vars(SpawnLoop) /\ WF_vars(StartReturns)
  /\ WF_vars(Register) /\ WF_vars(Publish \/ PublishFails) /\ WF_vars(Receive)

TaskFairness ==
  \A l \in Loops :
    /\ WF_vars(PollConnAck(l) \/ PollErr(l) \/ PollErrOrphaned(l))
    /\ WF_vars(Subscribe(l) \/ SubscribeOrphaned(l) \/ SubscribeFails(l))
    /\ WF_vars(PollOutgoing(l))
    /\ WF_vars(\E m \in inbox[l] : m.answers # NoCall /\ PollPublish(l, m))
    /\ WF_vars(\E m \in inbox[l] : m.answers = NoCall /\ PollPublish(l, m))
    /\ WF_vars(SeesStop(l)) /\ WF_vars(Disconnect(l)) /\ WF_vars(Finish(l))

(* An assumption about the device, not about the code *)
PrinterAnswers ==
  \A c \in Calls, l \in Loops : WF_vars(Answer([call |-> c, via |-> l]))

FairSpec == Spec /\ OwnerFairness /\ TaskFairness /\ PrinterAnswers

(* start() returns: the task reports success or failure whatever happens   *)
(* to the connection (mqtt.rs:192-194 and 238-240 against 267).            *)
StartCompletes == pc = "start_wait" ~> pc # "start_wait"

(* A call gets its answer unless the task that serves it leaves its loop   *)
(* or loses its connection (mqtt.rs:337-342).                              *)
Serves(l) == phase[l] = "polling" /\ net[l] = "up"

RequestCompletes ==
  \A c \in Calls :
    pc = "wait" /\ cur = c ~> outcome[c] # "running" \/ ~Serves(client)

(* A call gets past publish(): the channel is drained, or the task ends and *)
(* the channel with it; only a task that waits for room for its DISCONNECT *)
(* leaves the call waiting beside it (mqtt.rs:262, 301 and 338).           *)
PublishReturns ==
  pc = "publish" ~> pc # "publish" \/ (phase[client] = "disconnecting" /\ ~HasRoom(client))

(* A task asked to stop ends, unless a new start() takes the request back  *)
(* or the channel it must put its DISCONNECT into is full, for nobody      *)
(* drains that channel any more (mqtt.rs:257-262).                         *)
StopEndsTask ==
  \A l \in Loops :
    stop_flag /\ phase[l] = "polling" ~>
      \/ phase[l] \in {"ended", "panicked"}
      \/ ~stop_flag
      \/ phase[l] = "disconnecting" /\ ~HasRoom(l)

-------------------------------------------------------------------------------
(* What the comments and assertions of the source say and the code does    *)
(* not keep.                                                               *)

(* mqtt.rs:216 asserts with unwrap() that whoever is in the map waits.     *)
AnswerFindsReceiver ==
  \A l \in Loops : \A m \in inbox[l] :
    TakeReport(l, m) /\ IsAnswer(m) /\ m.seq \in DOMAIN inflight_commands
      => inflight_commands[m.seq] = cur

(* mqtt.rs:275, "Stop the MQTT loop and disconnect": a task asked to stop  *)
(* ends.                                                                   *)
StopStops ==
  \A l \in Loops :
    stop_flag /\ phase[l] = "polling" ~> phase[l] \in {"ended", "panicked"}

(* command.rs:28, `{"system": { "sequence_id": "77", "command": "ledctrl", *)
(* ... }}`, and the tests of command.rs: an object of a published command  *)
(* has one entry for each of its keys.                                     *)
KeysWrittenOnce ==
  \A l \in Loops : \A i \in DOMAIN requests[l] :
    requests[l][i].type = "publish" =>
      LET object == Command(op[requests[l][i].call]).object
      IN \A j, k \in DOMAIN object : object[j].key = object[k].key => j = k

(* mqtt.rs:337, "wait for the response to arrive in the oneshot channel":  *)
(* a waiting call is resolved.                                             *)
WaitEnds == \A c \in Calls : pc = "wait" /\ cur = c ~> outcome[c] # "running"
===============================================================================
