------------------------------- MODULE MqttProofs -------------------------------
(***************************************************************************)
(* What TLAPS proves of MqttClient, for every set of calls and tasks, every*)
(* capacity of the channel and every printer.                              *)
(***************************************************************************)
EXTENDS MqttProperties, TLAPS

(* A call that has been made *)
Begun(c) == outcome[c] # "unborn"

(* A request that may wait in a channel *)
Sound(r) ==
  r \in Requests /\ (r.type = "publish" => r.call \in Calls /\ Begun(r.call))

(* The call the owner is in has been made, as one of the methods *)
CurBegun ==
  /\ pc # "idle" => client \in Loops
  /\ pc \in {"register", "publish", "wait"} => cur \in Calls
  /\ cur # NoCall => Begun(cur)
  /\ \A c \in Calls : Begun(c) => op[c] \in Ops

(* What is on its way to the printer, or there, was sent by a call made *)
SentByCalls ==
  /\ \A l \in Loops : \A i \in 1..Len(requests[l]) : Sound(requests[l][i])
  /\ \A r \in asked : Begun(r.call)

TypeInv == TypeOK /\ CurBegun /\ SentByCalls

(* TypeInv holds at first *)
LEMMA InitTypeInv == Init => TypeInv
<1> SUFFICES ASSUME Init PROVE TypeInv
  OBVIOUS
<1>1. TypeOK
  <2>1. inflight_commands \in [DOMAIN inflight_commands -> Calls]
        /\ DOMAIN inflight_commands \subseteq Nat
    BY DEF Init
  <2>2. requests \in [Loops -> Seq(Requests)] /\ inbox \in [Loops -> SUBSET Messages]
    BY DEF Init
  <2>3. slot \in [Calls -> Messages \cup {NoMsg}]
    BY DEF Init
  <2>4. QED
    BY <2>1, <2>2, <2>3 DEF Init, TypeOK, Phases
<1>2. CurBegun /\ SentByCalls
  BY MqttAssumption DEF Init, CurBegun, SentByCalls, Begun
<1>3. QED
  BY <1>1, <1>2 DEF TypeInv

(* Putting a sound request into a channel keeps every channel sound *)
LEMMA EnqueueSound ==
  ASSUME TypeInv, NEW l \in Loops, NEW type, NEW c,
         Sound([type |-> type, call |-> c]), Enqueue(l, type, c)
  PROVE  /\ requests' \in [Loops -> Seq(Requests)]
         /\ \A k \in Loops : \A i \in 1..Len(requests'[k]) : Sound(requests'[k][i])
<1> DEFINE r == [type |-> type, call |-> c]
<1> USE DEF TypeInv, TypeOK, SentByCalls
<1>1. requests' \in [Loops -> Seq(Requests)]
  BY DEF Enqueue, Sound
<1>2. ASSUME NEW k \in Loops, NEW i \in 1..Len(requests'[k]) PROVE Sound(requests'[k][i])
  <2>1. CASE k = l
    <3> DEFINE q == requests[l]
    <3>1. q \in Seq(Requests) /\ requests'[k] = Append(q, r)
      BY <2>1 DEF Enqueue
    <3> HIDE DEF q, r
    <3>2. r \in Requests
      BY DEF Sound, r
    <3>3. (i \in 1..Len(q) /\ requests'[k][i] = q[i]) \/ requests'[k][i] = r
      BY <3>1, <3>2, <1>2
    <3>4. QED
      BY <3>3 DEF q, r
  <2>2. CASE k # l
    BY <2>2, <1>2 DEF Enqueue
  <2>3. QED
    BY <2>1, <2>2
<1>3. QED
  BY <1>1, <1>2

(* ... and after every step *)
LEMMA NextTypeInv == TypeInv /\ [Next]_vars => TypeInv'
<1> SUFFICES ASSUME TypeInv, [Next]_vars PROVE TypeInv'
  OBVIOUS
<1> USE MqttAssumption DEF TypeInv, TypeOK, CurBegun, SentByCalls, Begun, Sound, Phases,
      ids, owner, link, task, queues, shared, vars
<1>1. QED
  <2>1. ASSUME NEW l \in Loops, BeginStart(l) PROVE TypeInv'
    BY <2>1 DEF BeginStart
  <2>2. CASE SpawnLoop
    <3>1. phase' \in [Loops -> Phases]
      BY <2>2 DEF SpawnLoop
    <3>2. TypeOK'
      BY <2>2, <3>1 DEF SpawnLoop
    <3>3. CurBegun' /\ SentByCalls'
      BY <2>2 DEF SpawnLoop
    <3>4. QED
      BY <3>2, <3>3
  <2>3. CASE StartReturns
    BY <2>3 DEF StartReturns
  <2>4. CASE CancelStart
    <3>1. CASE pc = "start_wait"
      BY <2>4, <3>1 DEF CancelStart
    <3>2. CASE pc = "start_flag"
      <4>1. DropTask(client, "ended")
        BY <2>4, <3>2 DEF CancelStart
      <4>2. phase' \in [Loops -> Phases] /\ connected' \in [Loops -> {"unsent", "ok", "err", "dropped"}]
        BY <4>1 DEF DropTask
      <4>3. requests' \in [Loops -> Seq(Requests)]
        <5>1. requests \in [Loops -> Seq(Requests)]
          OBVIOUS
        <5>2. requests' = [k \in Loops |-> IF k = client THEN <<>> ELSE requests[k]]
          BY <4>1, <5>1 DEF DropTask
        <5>3. QED
          BY <5>1, <5>2
      <4>4. inbox' \in [Loops -> SUBSET Messages]
        BY <4>1 DEF DropTask
      <4>5. TypeOK'
        BY <2>4, <4>2, <4>3, <4>4 DEF CancelStart
      <4>6. CurBegun' /\ SentByCalls'
        BY <2>4, <4>1 DEF CancelStart, DropTask
      <4>7. QED
        BY <4>5, <4>6
    <3>3. QED
      BY <2>4, <3>1, <3>2 DEF CancelStart
  <2>5. CASE Stop
    BY <2>5 DEF Stop
  <2>6. CASE Register
    BY <2>6 DEF Register
  <2>7. CASE Publish
    <3>1. client \in Loops
      BY <2>7 DEF Publish
    <3>2. Sound([type |-> "publish", call |-> cur])
      BY <2>7 DEF Publish, Requests
    <3>3. /\ requests' \in [Loops -> Seq(Requests)]
          /\ \A k \in Loops : \A i \in 1..Len(requests'[k]) : Sound(requests'[k][i])
      BY <2>7, <3>1, <3>2, EnqueueSound DEF Publish
    <3>4. \A c \in Calls : Begun(c) => Begun(c)'
      BY <2>7 DEF Publish, Return
    <3>5. TypeOK' /\ CurBegun'
      BY ZenonT(60), <2>7, <3>3 DEF Publish, Return
    <3>6. SentByCalls'
      BY <2>7, <3>3, <3>4 DEF Publish
    <3>7. QED
      BY <3>5, <3>6
  <2>8. CASE PublishFails
    BY <2>8 DEF PublishFails, Return
  <2>9. CASE Receive
    BY <2>9 DEF Receive, Return
  <2>10. CASE CancelCall
    BY <2>10 DEF CancelCall, Return
  <2>11. ASSUME NEW c \in Calls, NEW o \in Ops, BeginCall(c, o) PROVE TypeInv'
    BY <2>11 DEF BeginCall, next_sequence_id
  <2>12. ASSUME NEW c \in Calls, NEW o \in Ops, CallNotStarted(c, o) PROVE TypeInv'
    BY <2>12 DEF CallNotStarted, next_sequence_id
  <2>13. ASSUME NEW l \in Loops, PollConnAck(l) PROVE TypeInv'
    BY <2>13 DEF PollConnAck
  <2>14. ASSUME NEW l \in Loops, Subscribe(l) PROVE TypeInv'
    <3>1. Sound([type |-> "subscribe", call |-> NoCall])
      BY DEF Requests
    <3>2. /\ requests' \in [Loops -> Seq(Requests)]
          /\ \A k \in Loops : \A i \in 1..Len(requests'[k]) : Sound(requests'[k][i])
      BY <2>14, <3>1, EnqueueSound DEF Subscribe
    <3>3. QED
      BY ZenonT(60), <2>14, <3>2 DEF Subscribe
  <2>15. ASSUME NEW l \in Loops, SubscribeOrphaned(l) PROVE TypeInv'
    BY <2>15 DEF SubscribeOrphaned, DropTask
  <2>16. ASSUME NEW l \in Loops, SubscribeFails(l) PROVE TypeInv'
    BY <2>16 DEF SubscribeFails
  <2>17. ASSUME NEW l \in Loops, PollOutgoing(l) PROVE TypeInv'
    <3> DEFINE q == requests[l]
    <3>1. q \in Seq(Requests) /\ q # <<>> /\ \A i \in 1..Len(q) : Sound(q[i])
      BY <2>17 DEF PollOutgoing
    <3>2. /\ Sound(Head(q)) /\ Tail(q) \in Seq(Requests)
          /\ \A i \in 1..Len(Tail(q)) : Sound(Tail(q)[i])
      <4> HIDE DEF q, TypeInv, Sound
      <4>1. Head(q) = q[1] /\ 1 \in 1..Len(q) /\ Tail(q) \in Seq(Requests)
        BY <3>1
      <4>2. \A i \in 1..Len(Tail(q)) : i + 1 \in 1..Len(q) /\ Tail(q)[i] = q[i + 1]
        BY <3>1
      <4>3. QED
        BY <3>1, <4>1, <4>2
    <3>3. asked' \subseteq [call : Calls, via : Loops] /\ \A r \in asked' : Begun(r.call)
      BY <2>17, <3>2 DEF PollOutgoing
    <3>4. /\ requests' \in [Loops -> Seq(Requests)]
          /\ \A k \in Loops : \A i \in 1..Len(requests'[k]) : Sound(requests'[k][i])
      BY <2>17, <3>2 DEF PollOutgoing
    <3>5. subscribed' \in [Loops -> BOOLEAN] /\ net' \in [Loops -> {"connecting", "up", "lost"}]
      BY <2>17 DEF PollOutgoing
    <3>6. QED
      BY <2>17, <3>3, <3>4, <3>5 DEF PollOutgoing
  <2>18. ASSUME NEW l \in Loops, PollErr(l) PROVE TypeInv'
    BY <2>18 DEF PollErr
  <2>19. ASSUME NEW l \in Loops, PollErrOrphaned(l) PROVE TypeInv'
    BY <2>19 DEF PollErrOrphaned, DropTask
  <2>20. ASSUME NEW l \in Loops, SeesStop(l) PROVE TypeInv'
    BY <2>20 DEF SeesStop
  <2>21. ASSUME NEW l \in Loops, Disconnect(l) PROVE TypeInv'
    <3>1. Sound([type |-> "disconnect", call |-> NoCall])
      BY DEF Requests
    <3>2. /\ requests' \in [Loops -> Seq(Requests)]
          /\ \A k \in Loops : \A i \in 1..Len(requests'[k]) : Sound(requests'[k][i])
      BY <2>21, <3>1, EnqueueSound DEF Disconnect
    <3>3. QED
      BY ZenonT(60), <2>21, <3>2 DEF Disconnect
  <2>22. ASSUME NEW l \in Loops, Finish(l) PROVE TypeInv'
    BY <2>22 DEF Finish, DropTask
  <2>23. ASSUME NEW l \in Loops, NetFails(l) PROVE TypeInv'
    BY <2>23 DEF NetFails
  <2>24. ASSUME NEW l \in Loops, NEW m \in inbox[l], PollDiscarded(l, m) PROVE TypeInv'
    BY <2>24 DEF PollDiscarded, TakeReport
  <2>25. ASSUME NEW l \in Loops, NEW m \in inbox[l], PollAnswer(l, m) PROVE TypeInv'
    BY <2>25 DEF PollAnswer, TakeReport, Remove
  <2>26. ASSUME NEW l \in Loops, NEW m \in inbox[l], PollOrphaned(l, m) PROVE TypeInv'
    BY <2>26 DEF PollOrphaned, TakeReport, Remove, DropTask
  <2>27. ASSUME NEW r \in asked, Answer(r) PROVE TypeInv'
    BY <2>27 DEF Answer, Deliver, AnswerTo, Messages, Kinds, Root
  <2>28. ASSUME NEW m \in Unsolicited, Report(m) PROVE TypeInv'
    BY <2>28 DEF Report, Deliver, Messages
  <2>29. CASE UNCHANGED vars
    BY <2>29
  <2>30. QED
    BY <2>1, <2>2, <2>3, <2>4, <2>5, <2>6, <2>7, <2>8, <2>9, <2>10, <2>11, <2>12, <2>13, <2>14, <2>15, <2>16, <2>17, <2>18, <2>19, <2>20, <2>21, <2>22, <2>23, <2>24, <2>25, <2>26, <2>27, <2>28, <2>29 DEF Next, Owner, Task, PollPublish, Printer

(* TypeOK: every variable keeps its type.  An answer has a kind because    *)
(* only commands of calls that have been made reach the printer.           *)
THEOREM TypeCorrect == Spec => []TypeOK
<1>1. Init => TypeInv
  BY InitTypeInv
<1>2. TypeInv /\ [Next]_vars => TypeInv'
  BY NextTypeInv
<1>3. TypeInv => TypeOK
  BY DEF TypeInv
<1>4. QED
  BY <1>1, <1>2, <1>3, PTL DEF Spec

-------------------------------------------------------------------------------
(* Ids are given out once and counted up *)
IdsDistinct ==
  \A c \in Calls : Begun(c) =>
    /\ seqOf[c] < sequence_id
    /\ \A d \in Calls : Begun(d) /\ seqOf[d] = seqOf[c] => d = c

(* An entry is filed under the id of the call it belongs to *)
EntriesOwned ==
  \A s \in DOMAIN inflight_commands :
    /\ inflight_commands[s] \in Calls
    /\ Begun(inflight_commands[s])
    /\ seqOf[inflight_commands[s]] = s

(* An answer on its way carries the id of the call it answers *)
AnswersTraced ==
  \A l \in Loops : \A m \in inbox[l] : IsAnswer(m) =>
    /\ m.answers \in Calls
    /\ Begun(m.answers)
    /\ m.seq = seqOf[m.answers]

ReplyInv ==
  TypeInv /\ IdsDistinct /\ EntriesOwned /\ AnswersTraced /\ ReplyMatchesCall

(* The printer's topic carries no answers to commands of other clients *)
OnlyOwnAnswers == \A m \in Unsolicited : ~IsAnswer(m)

(* ReplyInv holds at first *)
LEMMA InitReplyInv == Init => ReplyInv
<1> SUFFICES ASSUME Init PROVE ReplyInv
  OBVIOUS
<1>1. TypeInv
  BY InitTypeInv
<1>2. IdsDistinct /\ EntriesOwned /\ AnswersTraced /\ ReplyMatchesCall
  BY DEF Init, IdsDistinct, EntriesOwned, AnswersTraced, ReplyMatchesCall, Begun
<1>3. QED
  BY <1>1, <1>2 DEF ReplyInv

(* ... and after every step *)
LEMMA NextReplyInv ==
  ASSUME OnlyOwnAnswers, ReplyInv, [Next]_vars PROVE ReplyInv'
<1> TypeInv /\ TypeInv'
  BY NextTypeInv DEF ReplyInv
<1> USE MqttAssumption DEF ReplyInv, IdsDistinct, EntriesOwned, AnswersTraced,
      ReplyMatchesCall, OnlyOwnAnswers, Begun, TypeInv, TypeOK, CurBegun,
      ids, owner, link, task, queues, shared, vars
<1>1. ASSUME NEW l \in Loops, BeginStart(l) PROVE ReplyInv'
  BY <1>1 DEF BeginStart
<1>2. CASE SpawnLoop
  BY <1>2 DEF SpawnLoop
<1>3. CASE StartReturns
  BY <1>3 DEF StartReturns
<1>4. CASE CancelStart
  <2>1. UNCHANGED <<ids, cur, outcome, link, shared>>
    BY <1>4 DEF CancelStart
  <2>2. inbox' = inbox \/ inbox' = [inbox EXCEPT ![client] = {}]
    BY <1>4 DEF CancelStart, DropTask
  <2>3. \A l \in Loops : inbox'[l] \subseteq inbox[l]
    <3>1. ASSUME NEW l \in Loops PROVE inbox'[l] = inbox[l] \/ inbox'[l] = {}
      BY <2>2
    <3>2. QED
      BY <3>1
  <2>4. QED
    BY <2>1, <2>3
<1>5. CASE Stop
  BY <1>5 DEF Stop
<1>6. CASE Register
  BY <1>6 DEF Register
<1>7. CASE Publish
  BY <1>7 DEF Publish, Return
<1>8. CASE PublishFails
  BY <1>8 DEF PublishFails, Return
<1>9. CASE Receive
  BY <1>9 DEF Receive, Return
<1>10. CASE CancelCall
  BY <1>10 DEF CancelCall, Return
<1>11. ASSUME NEW c \in Calls, NEW o \in Ops, BeginCall(c, o) PROVE ReplyInv'
  BY <1>11 DEF BeginCall, next_sequence_id
<1>12. ASSUME NEW c \in Calls, NEW o \in Ops, CallNotStarted(c, o) PROVE ReplyInv'
  BY <1>12 DEF CallNotStarted, next_sequence_id
<1>13. ASSUME NEW l \in Loops, PollConnAck(l) PROVE ReplyInv'
  BY <1>13 DEF PollConnAck
<1>14. ASSUME NEW l \in Loops, Subscribe(l) PROVE ReplyInv'
  BY <1>14 DEF Subscribe
<1>15. ASSUME NEW l \in Loops, SubscribeOrphaned(l) PROVE ReplyInv'
  BY <1>15 DEF SubscribeOrphaned, DropTask
<1>16. ASSUME NEW l \in Loops, SubscribeFails(l) PROVE ReplyInv'
  BY <1>16 DEF SubscribeFails
<1>17. ASSUME NEW l \in Loops, PollOutgoing(l) PROVE ReplyInv'
  BY <1>17 DEF PollOutgoing
<1>18. ASSUME NEW l \in Loops, PollErr(l) PROVE ReplyInv'
  BY <1>18 DEF PollErr
<1>19. ASSUME NEW l \in Loops, PollErrOrphaned(l) PROVE ReplyInv'
  BY <1>19 DEF PollErrOrphaned, DropTask
<1>20. ASSUME NEW l \in Loops, SeesStop(l) PROVE ReplyInv'
  BY <1>20 DEF SeesStop
<1>21. ASSUME NEW l \in Loops, Disconnect(l) PROVE ReplyInv'
  BY <1>21 DEF Disconnect
<1>22. ASSUME NEW l \in Loops, Finish(l) PROVE ReplyInv'
  BY <1>22 DEF Finish, DropTask
<1>23. ASSUME NEW l \in Loops, NetFails(l) PROVE ReplyInv'
  BY <1>23 DEF NetFails
<1>24. ASSUME NEW l \in Loops, NEW m \in inbox[l], PollDiscarded(l, m) PROVE ReplyInv'
  BY <1>24 DEF PollDiscarded, TakeReport
<1>25. ASSUME NEW l \in Loops, NEW m \in inbox[l], PollAnswer(l, m) PROVE ReplyInv'
  BY <1>25 DEF PollAnswer, TakeReport, Remove
<1>26. ASSUME NEW l \in Loops, NEW m \in inbox[l], PollOrphaned(l, m) PROVE ReplyInv'
  BY <1>26 DEF PollOrphaned, TakeReport, Remove, DropTask
<1>27. ASSUME NEW r \in asked, Answer(r) PROVE ReplyInv'
  <2> DEFINE a == AnswerTo(r.call)
  <2>1. r.call \in Calls /\ Begun(r.call)
    BY DEF SentByCalls
  <2>2. a.answers = r.call /\ a.seq = seqOf[r.call]
    BY DEF AnswerTo
  <2>3. \A l \in Loops : \A m \in inbox'[l] : m \in inbox[l] \/ m = a
    BY <1>27 DEF Answer, Deliver
  <2>4. UNCHANGED <<owner, shared>>
    BY <1>27 DEF Answer
  <2> HIDE DEF a
  <2>5. AnswersTraced'
    BY SMTT(30), <2>1, <2>2, <2>3, <2>4
  <2>6. IdsDistinct' /\ EntriesOwned' /\ ReplyMatchesCall'
    BY <2>4
  <2> HIDE DEF IdsDistinct, EntriesOwned, AnswersTraced, ReplyMatchesCall
  <2>7. QED
    BY <2>5, <2>6
<1>28. ASSUME NEW m \in Unsolicited, Report(m) PROVE ReplyInv'
  BY <1>28 DEF Report, Deliver
<1>29. CASE UNCHANGED vars
  BY <1>29
<1>30. QED
  BY <1>1, <1>2, <1>3, <1>4, <1>5, <1>6, <1>7, <1>8, <1>9, <1>10, <1>11, <1>12, <1>13, <1>14, <1>15, <1>16, <1>17, <1>18, <1>19, <1>20, <1>21, <1>22, <1>23, <1>24, <1>25, <1>26, <1>27, <1>28, <1>29 DEF Next, Owner, Task, PollPublish, Printer

(* ReplyMatchesCall: whatever a call returns is the printer's answer to    *)
(* its own command.  Two calls never share an id, so that an id leads from *)
(* an answer back to the one call that asked, and an entry cannot be taken *)
(* for another's; late answers, answers heard by two tasks at once and     *)
(* status pushes that reuse an id included.                                *)
THEOREM ReplyCorrect ==
  ASSUME OnlyOwnAnswers
  PROVE  Spec => []ReplyMatchesCall
<1>1. Init => ReplyInv
  BY InitReplyInv
<1>2. ReplyInv /\ [Next]_vars => ReplyInv'
  BY NextReplyInv
<1>3. ReplyInv => ReplyMatchesCall
  BY DEF ReplyInv
<1>4. QED
  BY <1>1, <1>2, <1>3, PTL DEF Spec

-------------------------------------------------------------------------------
(* From its registration on, the current call is in the map or answered *)
Registered ==
  /\ pc = "register" => op[cur] # "push_all"
  /\ pc = "wait" => op[cur] # "push_all"
  /\ (pc \in {"publish", "wait"} /\ op[cur] # "push_all") =>
       \/ slot[cur] # NoMsg
       \/ /\ seqOf[cur] \in DOMAIN inflight_commands
          /\ inflight_commands[seqOf[cur]] = cur

WaitInv == TypeInv /\ Registered

(* Every step keeps the current call filed or answered *)
LEMMA NextWaitInv == WaitInv /\ [Next]_vars => WaitInv'
<1> SUFFICES ASSUME WaitInv, [Next]_vars PROVE WaitInv'
  OBVIOUS
<1> TypeInv /\ TypeInv'
  BY NextTypeInv DEF WaitInv
<1> USE MqttAssumption DEF WaitInv, Registered, TypeInv, TypeOK, CurBegun,
      ids, owner, link, task, queues, shared, vars
<1>1. ASSUME NEW l \in Loops, BeginStart(l) PROVE WaitInv'
  BY <1>1 DEF BeginStart
<1>2. CASE SpawnLoop
  BY <1>2 DEF SpawnLoop
<1>3. CASE StartReturns
  BY <1>3 DEF StartReturns
<1>4. CASE CancelStart
  BY <1>4 DEF CancelStart, DropTask
<1>5. CASE Stop
  BY <1>5 DEF Stop
<1>6. CASE Register
  BY <1>6 DEF Register
<1>7. CASE Publish
  BY <1>7 DEF Publish, Return
<1>8. CASE PublishFails
  BY <1>8 DEF PublishFails, Return
<1>9. CASE Receive
  BY <1>9 DEF Receive, Return
<1>10. CASE CancelCall
  BY <1>10 DEF CancelCall, Return
<1>11. ASSUME NEW c \in Calls, NEW o \in Ops, BeginCall(c, o) PROVE WaitInv'
  BY <1>11 DEF BeginCall, next_sequence_id
<1>12. ASSUME NEW c \in Calls, NEW o \in Ops, CallNotStarted(c, o) PROVE WaitInv'
  BY <1>12 DEF CallNotStarted, next_sequence_id
<1>13. ASSUME NEW l \in Loops, PollConnAck(l) PROVE WaitInv'
  BY <1>13 DEF PollConnAck
<1>14. ASSUME NEW l \in Loops, Subscribe(l) PROVE WaitInv'
  BY <1>14 DEF Subscribe
<1>15. ASSUME NEW l \in Loops, SubscribeOrphaned(l) PROVE WaitInv'
  BY <1>15 DEF SubscribeOrphaned, DropTask
<1>16. ASSUME NEW l \in Loops, SubscribeFails(l) PROVE WaitInv'
  BY <1>16 DEF SubscribeFails
<1>17. ASSUME NEW l \in Loops, PollOutgoing(l) PROVE WaitInv'
  BY <1>17 DEF PollOutgoing
<1>18. ASSUME NEW l \in Loops, PollErr(l) PROVE WaitInv'
  BY <1>18 DEF PollErr
<1>19. ASSUME NEW l \in Loops, PollErrOrphaned(l) PROVE WaitInv'
  BY <1>19 DEF PollErrOrphaned, DropTask
<1>20. ASSUME NEW l \in Loops, SeesStop(l) PROVE WaitInv'
  BY <1>20 DEF SeesStop
<1>21. ASSUME NEW l \in Loops, Disconnect(l) PROVE WaitInv'
  BY <1>21 DEF Disconnect
<1>22. ASSUME NEW l \in Loops, Finish(l) PROVE WaitInv'
  BY <1>22 DEF Finish, DropTask
<1>23. ASSUME NEW l \in Loops, NetFails(l) PROVE WaitInv'
  BY <1>23 DEF NetFails
<1>24. ASSUME NEW l \in Loops, NEW m \in inbox[l], PollDiscarded(l, m) PROVE WaitInv'
  BY <1>24 DEF PollDiscarded, TakeReport
<1>25. ASSUME NEW l \in Loops, NEW m \in inbox[l], PollAnswer(l, m) PROVE WaitInv'
  BY <1>25 DEF PollAnswer, TakeReport, Remove, Messages, Kinds, NoMsg
<1>26. ASSUME NEW l \in Loops, NEW m \in inbox[l], PollOrphaned(l, m) PROVE WaitInv'
  BY <1>26 DEF PollOrphaned, TakeReport, Remove, DropTask
<1>27. ASSUME NEW r \in asked, Answer(r) PROVE WaitInv'
  BY <1>27 DEF Answer, Deliver, AnswerTo
<1>28. ASSUME NEW m \in Unsolicited, Report(m) PROVE WaitInv'
  BY <1>28 DEF Report, Deliver
<1>29. CASE UNCHANGED vars
  BY <1>29
<1>30. QED
  BY <1>1, <1>2, <1>3, <1>4, <1>5, <1>6, <1>7, <1>8, <1>9, <1>10, <1>11, <1>12, <1>13, <1>14, <1>15, <1>16, <1>17, <1>18, <1>19, <1>20, <1>21, <1>22, <1>23, <1>24, <1>25, <1>26, <1>27, <1>28, <1>29 DEF Next, Owner, Task, PollPublish, Printer

(* WaiterCanBeWoken: a call that waits without an answer has its entry.    *)
(* The only entry a task removes without answering the current call        *)
(* belongs to another call, and the current call is filed before it waits. *)
THEOREM WaitersAreFiled == Spec => []WaiterCanBeWoken
<1>1. Init => WaitInv
  BY InitTypeInv DEF Init, WaitInv, Registered
<1>2. WaitInv /\ [Next]_vars => WaitInv'
  BY NextWaitInv
<1>3. WaitInv => WaiterCanBeWoken
  BY DEF WaitInv, Registered, WaiterCanBeWoken
<1>4. QED
  BY <1>1, <1>2, <1>3, PTL DEF Spec
-------------------------------------------------------------------------------
(* How far start() and its task l have come: nothing is queued before the  *)
(* subscription, and until it was sent the subscription is first in line.  *)
Handshake(l) ==
  /\ phase[l] = "created" => pc = "start_flag" /\ client = l
  /\ phase[l] \in {"unborn", "created"} =>
       net[l] = "connecting" /\ connected[l] = "unsent" /\ requests[l] = <<>>
  /\ phase[l] = "polling" /\ net[l] = "connecting" => connected[l] = "unsent"
  /\ phase[l] = "polling" /\ net[l] # "connecting" => connected[l] = "ok"
  /\ phase[l] = "subscribing" => connected[l] = "unsent" /\ net[l] # "connecting"
  /\ StartWaits(l) /\ phase[l] \in {"polling", "subscribing"} /\ connected[l] = "unsent" =>
       requests[l] = <<>>
  /\ phase[l] = "polling" /\ connected[l] = "ok" /\ ~subscribed[l] =>
       requests[l] # <<>> /\ Head(requests[l]).type = "subscribe"

Handshakes ==
  /\ pc = "start_flag" => phase[client] = "created"
  /\ cur # NoCall => pc \in {"register", "publish", "wait"}
  /\ \A l \in Loops : Handshake(l)

SubInv == TypeInv /\ Handshakes /\ AskedOverSubscription

(* The head of a channel stays when a request is put into it *)
LEMMA AppendHead ==
  ASSUME NEW S, NEW q \in Seq(S), NEW e \in S
  PROVE  /\ Append(q, e) # <<>>
         /\ q # <<>> => Head(Append(q, e)) = Head(q)
         /\ q = <<>> => Head(Append(q, e)) = e
  OBVIOUS

(* What becomes of the channel of task l when a request is put into it *)
LEMMA EnqueueHead ==
  ASSUME TypeInv, NEW l \in Loops, NEW type, NEW c,
         [type |-> type, call |-> c] \in Requests, Enqueue(l, type, c)
  PROVE  /\ \A k \in Loops : k # l => requests'[k] = requests[k]
         /\ requests'[l] # <<>>
         /\ requests[l] # <<>> => Head(requests'[l]) = Head(requests[l])
         /\ requests[l] = <<>> => Head(requests'[l]).type = type
<1> DEFINE r == [type |-> type, call |-> c]
<1>1. requests \in [Loops -> Seq(Requests)]
  BY DEF TypeInv, TypeOK
<1>2. requests' = [requests EXCEPT ![l] = Append(@, r)]
  BY DEF Enqueue
<1>3. r.type = type /\ r \in Requests
  OBVIOUS
<1> HIDE DEF r
<1>4. requests'[l] = Append(requests[l], r) /\ requests[l] \in Seq(Requests)
  BY <1>1, <1>2
<1>5. \A k \in Loops : k # l => requests'[k] = requests[k]
  BY <1>1, <1>2
<1>6. QED
  BY <1>3, <1>4, <1>5, AppendHead

(* Every step keeps the subscription before the commands *)
LEMMA NextSubInv == SubInv /\ [Next]_vars => SubInv'
<1> SUFFICES ASSUME SubInv, [Next]_vars PROVE Handshakes' /\ AskedOverSubscription'
  BY NextTypeInv DEF SubInv
<1> TypeInv /\ TypeInv'
  BY NextTypeInv DEF SubInv
<1> USE MqttAssumption DEF SubInv, Handshakes, Handshake, StartWaits, TypeInv, TypeOK,
      CurBegun, AskedOverSubscription, ids, owner, link, task, queues, shared, vars
<1> DEFINE Goal == Handshakes' /\ AskedOverSubscription'
<1>1. ASSUME NEW l \in Loops, BeginStart(l) PROVE Goal
  BY <1>1 DEF BeginStart
<1>2. CASE SpawnLoop
  BY <1>2 DEF SpawnLoop
<1>3. CASE StartReturns
  BY <1>3 DEF StartReturns
<1>4. CASE CancelStart
  BY <1>4 DEF CancelStart, DropTask
<1>5. CASE Stop
  BY <1>5 DEF Stop
<1>6. CASE Register
  BY <1>6 DEF Register
<1>7. CASE Publish
  <2>1. /\ client \in Loops
        /\ [type |-> "publish", call |-> cur] \in Requests
        /\ Enqueue(client, "publish", cur)
    BY <1>7 DEF Publish, Requests
  <2>2. /\ \A k \in Loops : k # client => requests'[k] = requests[k]
        /\ requests'[client] # <<>>
        /\ requests[client] # <<>> => Head(requests'[client]) = Head(requests[client])
    BY ZenonT(60), <2>1, EnqueueHead
  <2>3. phase[client] \notin {"unborn", "created"}
    BY <1>7, <2>1 DEF Publish, Alive
  <2>4. QED
    BY SMTT(30), <1>7, <2>2, <2>3 DEF Publish, Return
<1>8. CASE PublishFails
  BY <1>8 DEF PublishFails, Return
<1>9. CASE Receive
  BY <1>9 DEF Receive, Return
<1>10. CASE CancelCall
  BY <1>10 DEF CancelCall, Return
<1>11. ASSUME NEW c \in Calls, NEW o \in Ops, BeginCall(c, o) PROVE Goal
  BY <1>11 DEF BeginCall, next_sequence_id
<1>12. ASSUME NEW c \in Calls, NEW o \in Ops, CallNotStarted(c, o) PROVE Goal
  BY <1>12 DEF CallNotStarted, next_sequence_id
<1>13. ASSUME NEW l \in Loops, PollConnAck(l) PROVE Goal
  BY <1>13 DEF PollConnAck
<1>14. ASSUME NEW l \in Loops, Subscribe(l) PROVE Goal
  <2>1. [type |-> "subscribe", call |-> NoCall] \in Requests /\ Enqueue(l, "subscribe", NoCall)
    BY <1>14 DEF Subscribe, Requests
  <2>2. requests[l] = <<>>
    BY <1>14 DEF Subscribe
  <2>3. /\ \A k \in Loops : k # l => requests'[k] = requests[k]
        /\ requests'[l] # <<>>
        /\ requests[l] = <<>> => Head(requests'[l]).type = "subscribe"
    BY <2>1, EnqueueHead
  <2>4. QED
    BY <1>14, <2>2, <2>3 DEF Subscribe
<1>15. ASSUME NEW l \in Loops, SubscribeOrphaned(l) PROVE Goal
  BY <1>15 DEF SubscribeOrphaned, DropTask
<1>16. ASSUME NEW l \in Loops, SubscribeFails(l) PROVE Goal
  BY <1>16 DEF SubscribeFails
<1>17. ASSUME NEW l \in Loops, PollOutgoing(l) PROVE Goal
  <2> DEFINE r == Head(requests[l])
  <2>1. connected[l] = "ok"
    BY <1>17 DEF PollOutgoing
  <2>2. subscribed[l] \/ r.type = "subscribe"
    BY <1>17, <2>1 DEF PollOutgoing
  <2>3. subscribed'[l] /\ \A k \in Loops : subscribed[k] => subscribed'[k]
    <3>1. subscribed' = [subscribed EXCEPT ![l] = subscribed[l] \/ r.type = "subscribe"]
      BY <1>17 DEF PollOutgoing
    <3>2. subscribed' = [subscribed EXCEPT ![l] = TRUE]
      BY <2>2, <3>1
    <3>3. QED
      BY <3>2
  <2>4. \A k \in Loops : k # l => requests'[k] = requests[k] /\ subscribed'[k] = subscribed[k]
    BY <1>17 DEF PollOutgoing
  <2>5. \A q \in asked' : q \in asked \/ q.via = l
    BY <1>17 DEF PollOutgoing
  <2>6. AskedOverSubscription'
    BY <2>3, <2>5
  <2>7. Handshakes'
    BY <1>17, <2>1, <2>3, <2>4 DEF PollOutgoing
  <2>8. QED
    BY <2>6, <2>7
<1>18. ASSUME NEW l \in Loops, PollErr(l) PROVE Goal
  BY <1>18 DEF PollErr
<1>19. ASSUME NEW l \in Loops, PollErrOrphaned(l) PROVE Goal
  BY <1>19 DEF PollErrOrphaned, DropTask
<1>20. ASSUME NEW l \in Loops, SeesStop(l) PROVE Goal
  BY <1>20 DEF SeesStop
<1>21. ASSUME NEW l \in Loops, Disconnect(l) PROVE Goal
  BY <1>21 DEF Disconnect, Enqueue
<1>22. ASSUME NEW l \in Loops, Finish(l) PROVE Goal
  BY <1>22 DEF Finish, DropTask
<1>23. ASSUME NEW l \in Loops, NetFails(l) PROVE Goal
  BY <1>23 DEF NetFails
<1>24. ASSUME NEW l \in Loops, NEW m \in inbox[l], PollDiscarded(l, m) PROVE Goal
  BY <1>24 DEF PollDiscarded, TakeReport
<1>25. ASSUME NEW l \in Loops, NEW m \in inbox[l], PollAnswer(l, m) PROVE Goal
  BY <1>25 DEF PollAnswer, TakeReport, Remove
<1>26. ASSUME NEW l \in Loops, NEW m \in inbox[l], PollOrphaned(l, m) PROVE Goal
  BY <1>26 DEF PollOrphaned, TakeReport, Remove, DropTask
<1>27. ASSUME NEW r \in asked, Answer(r) PROVE Goal
  BY <1>27 DEF Answer, Deliver, AnswerTo
<1>28. ASSUME NEW m \in Unsolicited, Report(m) PROVE Goal
  BY <1>28 DEF Report, Deliver
<1>29. CASE UNCHANGED vars
  BY <1>29
<1>30. QED
  BY <1>1, <1>2, <1>3, <1>4, <1>5, <1>6, <1>7, <1>8, <1>9, <1>10, <1>11, <1>12, <1>13,
     <1>14, <1>15, <1>16, <1>17, <1>18, <1>19, <1>20, <1>21, <1>22, <1>23, <1>24, <1>25,
     <1>26, <1>27, <1>28, <1>29 DEF Next, Owner, Task, PollPublish, Printer

(* AskedOverSubscription: no command overtakes the subscription that will  *)
(* carry its answer.  Either start() still waits, and then nothing was     *)
(* queued, or the subscription was queued before start() returned.         *)
THEOREM CommandsFollowSubscription == Spec => []AskedOverSubscription
<1>1. Init => SubInv
  BY InitTypeInv DEF Init, SubInv, Handshakes, Handshake, AskedOverSubscription
<1>2. SubInv /\ [Next]_vars => SubInv'
  BY NextSubInv
<1>3. SubInv => AskedOverSubscription
  BY DEF SubInv
<1>4. QED
  BY <1>1, <1>2, <1>3, PTL DEF Spec
===============================================================================
