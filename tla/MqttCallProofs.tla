----------------------------- MODULE MqttCallProofs -----------------------------
(***************************************************************************)
(* What TLAPS proves of the way of a command and of its answer: through    *)
(* the channel to the printer and from the connection back to the call.    *)
(***************************************************************************)
EXTENDS MqttProofs

(* The command of c is the i-th request in the channel of task l *)
Copy(l, i, c) ==
  i \in 1..Len(requests[l]) /\ requests[l][i] = [type |-> "publish", call |-> c]

(* The call in progress is the one that `cur` names *)
Running == \A c \in Calls : outcome[c] = "running" <=> c = cur

(* The answer to a call says what was asked and under which id *)
Genuine(m) ==
  m.answers \in Calls => Begun(m.answers) /\ m = AnswerTo(m.answers)

AllGenuine == \A l \in Loops : \A m \in inbox[l] : Genuine(m)

(* Until it is published, the command of a call is nowhere *)
Unsent(c) ==
  /\ \A l \in Loops : \A i \in Nat : ~Copy(l, i, c)
  /\ \A r \in asked : r.call # c
  /\ \A l \in Loops : \A m \in inbox[l] : m.answers # c

SentWhenPublished == cur # NoCall /\ pc # "wait" => Unsent(cur)

(* The command of a call is in one place *)
OneCopy ==
  /\ \A k, l \in Loops : \A i, j \in Nat : \A c \in Calls :
       Copy(k, i, c) /\ Copy(l, j, c) => k = l /\ i = j
  /\ \A l \in Loops : \A i \in Nat : \A r \in asked : ~Copy(l, i, r.call)
  /\ \A q, r \in asked : q.call = r.call => q = r

CallInv == TypeInv /\ Running /\ AllGenuine /\ SentWhenPublished /\ OneCopy

-------------------------------------------------------------------------------
(* What the steps do to the channels, to the printer's work and the inboxes *)
Keeps ==
  /\ \A l \in Loops : \A i \in Nat : \A c \in Calls : Copy(l, i, c)' => Copy(l, i, c)
  /\ asked' \subseteq asked
  /\ \A l \in Loops : \A m \in inbox'[l] : m \in inbox[l] \/ m.answers = NoCall

(* A channel that is left alone or emptied has no new command in it *)
LEMMA EmptiedKeeps ==
  ASSUME \A l \in Loops : requests'[l] = requests[l] \/ requests'[l] = <<>>
  PROVE  \A l \in Loops : \A i \in Nat : \A c \in Calls : Copy(l, i, c)' => Copy(l, i, c)
<1> SUFFICES ASSUME NEW l \in Loops, NEW i \in Nat, NEW c \in Calls, Copy(l, i, c)'
             PROVE  Copy(l, i, c)
  OBVIOUS
<1>1. requests'[l] # <<>>
  BY DEF Copy
<1>2. QED
  BY <1>1 DEF Copy

(* A task that is over leaves no command in its channel, nor reports *)
LEMMA DropKeeps ==
  ASSUME TypeInv, NEW l \in Loops, NEW how, DropTask(l, how)
  PROVE  /\ \A k \in Loops : \A i \in Nat : \A c \in Calls : Copy(k, i, c)' => Copy(k, i, c)
         /\ \A k \in Loops : inbox'[k] \subseteq inbox[k]
<1>1. requests \in [Loops -> Seq(Requests)] /\ inbox \in [Loops -> SUBSET Messages]
  BY DEF TypeInv, TypeOK
<1>2. \A k \in Loops : requests'[k] = requests[k] \/ requests'[k] = <<>>
  <2>1. requests' = [requests EXCEPT ![l] = <<>>]
    BY DEF DropTask
  <2>2. QED
    BY <1>1, <2>1
<1>3. \A k \in Loops : inbox'[k] \subseteq inbox[k]
  BY <1>1 DEF DropTask
<1>4. QED
  BY <1>2, <1>3, EmptiedKeeps

(* What a channel holds after one more request *)
LEMMA EnqueueCopies ==
  ASSUME TypeInv, NEW l \in Loops, NEW type, NEW c,
         [type |-> type, call |-> c] \in Requests, Enqueue(l, type, c),
         NEW k \in Loops, NEW i \in Nat, NEW d \in Calls
  PROVE  Copy(k, i, d)' <=>
           \/ Copy(k, i, d)
           \/ k = l /\ i = Len(requests[l]) + 1 /\ type = "publish" /\ d = c
<1> DEFINE r == [type |-> type, call |-> c]
<1>1. requests \in [Loops -> Seq(Requests)]
  BY DEF TypeInv, TypeOK
<1>2. requests' = [requests EXCEPT ![l] = Append(@, r)]
  BY DEF Enqueue
<1>3. r = [type |-> "publish", call |-> d] <=> type = "publish" /\ d = c
  OBVIOUS
<1>4. r \in Requests
  OBVIOUS
<1> HIDE DEF r
<1>5. CASE k # l
  <2>1. requests'[k] = requests[k]
    BY <1>1, <1>2, <1>5
  <2>2. QED
    BY <1>5, <2>1 DEF Copy
<1>6. CASE k = l
  <2>1. PICK q \in Seq(Requests) : q = requests[l]
    BY <1>1
  <2>2. requests'[k] = Append(q, r)
    BY <1>1, <1>2, <1>6, <2>1
  <2>3. /\ Len(Append(q, r)) = Len(q) + 1 /\ Len(q) \in Nat
        /\ \A j \in 1..Len(q) : Append(q, r)[j] = q[j]
        /\ Append(q, r)[Len(q) + 1] = r
    BY <1>4
  <2>4. CASE i \in 1..Len(q)
    BY <1>6, <2>1, <2>2, <2>3, <2>4 DEF Copy
  <2>5. CASE i = Len(q) + 1
    <3>1. ~Copy(k, i, d)
      BY <1>6, <2>1, <2>3, <2>5 DEF Copy
    <3>2. Copy(k, i, d)' <=> r = [type |-> "publish", call |-> d]
      BY <2>2, <2>3, <2>5 DEF Copy
    <3>3. QED
      BY <1>3, <1>6, <2>1, <2>5, <3>1, <3>2
  <2>6. CASE i \notin 1..(Len(q) + 1)
    BY <1>6, <2>1, <2>2, <2>3, <2>6 DEF Copy
  <2>7. QED
    BY <2>3, <2>4, <2>5, <2>6
<1>7. QED
  BY <1>5, <1>6

(* Only Publish, PollOutgoing and Answer bring a command or an answer on   *)
LEMMA NextKeeps ==
  ASSUME TypeInv, [Next]_vars
  PROVE  \/ Keeps
         \/ Publish
         \/ \E l \in Loops : PollOutgoing(l)
         \/ \E r \in asked : Answer(r)
<1> USE DEF Copy, Keeps, ids, owner, link, task, queues, shared, vars
<1>0. requests \in [Loops -> Seq(Requests)] /\ inbox \in [Loops -> SUBSET Messages]
  BY DEF TypeInv, TypeOK
<1>1. ASSUME NEW l \in Loops, BeginStart(l) PROVE Keeps
  BY <1>1 DEF BeginStart
<1>2. CASE SpawnLoop \/ StartReturns \/ Stop \/ Register \/ PublishFails \/ Receive \/ CancelCall
  BY <1>2 DEF SpawnLoop, StartReturns, Stop, Register, PublishFails, Receive, CancelCall
<1>3. CASE CancelStart
  <2>1. asked' = asked
    BY <1>3 DEF CancelStart
  <2>2. CASE pc = "start_wait"
    BY <1>3, <2>2 DEF CancelStart
  <2>3. CASE pc = "start_flag"
    <3>1. DropTask(client, "ended") /\ client \in Loops
      BY <1>3, <2>3 DEF CancelStart, TypeInv, CurBegun
    <3>2. QED
      BY <2>1, <3>1, DropKeeps
  <2>4. QED
    BY <1>3, <2>2, <2>3 DEF CancelStart
<1>4. ASSUME NEW c \in Calls, NEW o \in Ops, BeginCall(c, o) \/ CallNotStarted(c, o) PROVE Keeps
  BY <1>4 DEF BeginCall, CallNotStarted
<1>5. ASSUME NEW l \in Loops,
             PollConnAck(l) \/ SubscribeFails(l) \/ SeesStop(l) \/ NetFails(l)
      PROVE  Keeps
  BY <1>5 DEF PollConnAck, SubscribeFails, SeesStop, NetFails
<1>6. ASSUME NEW l \in Loops, Subscribe(l) PROVE Keeps
  <2>1. [type |-> "subscribe", call |-> NoCall] \in Requests /\ Enqueue(l, "subscribe", NoCall)
    BY <1>6 DEF Subscribe, Requests
  <2>2. UNCHANGED <<asked, inbox>>
    BY <1>6 DEF Subscribe
  <2> HIDE DEF Copy
  <2>3. QED
    BY <2>1, <2>2, EnqueueCopies
<1>7. ASSUME NEW l \in Loops, Disconnect(l) PROVE Keeps
  <2>1. [type |-> "disconnect", call |-> NoCall] \in Requests /\ Enqueue(l, "disconnect", NoCall)
    BY <1>7 DEF Disconnect, Requests
  <2>2. UNCHANGED <<asked, inbox>>
    BY <1>7 DEF Disconnect
  <2> HIDE DEF Copy
  <2>3. QED
    BY <2>1, <2>2, EnqueueCopies
<1>8. ASSUME NEW l \in Loops, SubscribeOrphaned(l) \/ PollErrOrphaned(l) \/ Finish(l)
      PROVE  Keeps
  <2>1. asked' = asked /\ \E how : DropTask(l, how)
    BY <1>8 DEF SubscribeOrphaned, PollErrOrphaned, Finish
  <2>2. QED
    BY <2>1, DropKeeps
<1>9. ASSUME NEW l \in Loops, PollErr(l) PROVE Keeps
  <2>1. UNCHANGED <<asked, inbox>>
    BY <1>9 DEF PollErr
  <2>2. requests' = requests \/ requests' = [requests EXCEPT ![l] = <<>>]
    BY <1>0, <1>9 DEF PollErr
  <2>3. \A k \in Loops : requests'[k] = requests[k] \/ requests'[k] = <<>>
    BY <1>0, <2>2
  <2>4. QED
    BY <2>1, <2>3, EmptiedKeeps
<1>10. ASSUME NEW l \in Loops, NEW m \in inbox[l], PollDiscarded(l, m) \/ PollAnswer(l, m)
       PROVE  Keeps
  <2>1. UNCHANGED <<asked, requests>> /\ inbox' = [inbox EXCEPT ![l] = @ \ {m}]
    BY <1>10 DEF PollDiscarded, PollAnswer
  <2>2. \A k \in Loops : inbox'[k] \subseteq inbox[k]
    BY <1>0, <2>1
  <2>3. QED
    BY <2>1, <2>2
<1>11. ASSUME NEW l \in Loops, NEW m \in inbox[l], PollOrphaned(l, m) PROVE Keeps
  <2>1. asked' = asked /\ DropTask(l, "panicked")
    BY <1>11 DEF PollOrphaned
  <2>2. QED
    BY <2>1, DropKeeps
<1>12. ASSUME NEW m \in Unsolicited, Report(m) PROVE Keeps
  <2>1. m.answers = NoCall
    BY MqttAssumption
  <2>2. \A l \in Loops : inbox'[l] = inbox[l] \/ inbox'[l] = inbox[l] \cup {m}
    BY <1>12 DEF Report, Deliver
  <2>3. UNCHANGED <<asked, requests>>
    BY <1>12 DEF Report
  <2>4. QED
    BY <2>1, <2>2, <2>3
<1>13. CASE UNCHANGED vars
  BY <1>13
<1>14. QED
  BY <1>1, <1>2, <1>3, <1>4, <1>5, <1>6, <1>7, <1>8, <1>9, <1>10, <1>11, <1>12, <1>13
  DEF Next, Owner, Task, PollPublish, Printer

-------------------------------------------------------------------------------
(* What the steps do to the calls                                          *)

(* One more message at the end, one less at the front: a command of the    *)
(* channel is the oldest, goes up by one, or stays.                        *)
LEMMA OutgoingCopies ==
  ASSUME TypeInv, NEW l \in Loops, PollOutgoing(l)
  PROVE  /\ \A k \in Loops : \A i \in Nat : \A c \in Calls :
              Copy(k, i, c)' <=> Copy(k, IF k = l THEN i + 1 ELSE i, c) /\ (k = l => i > 0)
         /\ asked' = asked \/ \E c \in Calls :
              /\ asked' = asked \cup {[call |-> c, via |-> l]}
              /\ Copy(l, 1, c)
         /\ \A c \in Calls : Copy(l, 1, c) => [call |-> c, via |-> l] \in asked'
<1>1. requests \in [Loops -> Seq(Requests)] /\ requests[l] # <<>>
  BY DEF TypeInv, TypeOK, PollOutgoing
<1>2. PICK q \in Seq(Requests) : q = requests[l] /\ q # <<>>
  BY <1>1
<1>3. requests'[l] = Tail(q) /\ \A k \in Loops : k # l => requests'[k] = requests[k]
  BY <1>1, <1>2 DEF PollOutgoing
<1>4. /\ Len(q) \in Nat /\ Len(q) >= 1 /\ Len(Tail(q)) = Len(q) - 1
      /\ \A i \in 1..(Len(q) - 1) : Tail(q)[i] = q[i + 1]
      /\ Head(q) = q[1] /\ q[1] \in Requests
  BY <1>2
<1>5. asked' = IF q[1].type = "publish" THEN asked \cup {[call |-> q[1].call, via |-> l]} ELSE asked
  BY <1>2, <1>4 DEF PollOutgoing
<1>6. Sound(q[1])
  BY <1>2, <1>4 DEF TypeInv, SentByCalls
<1>7. ASSUME NEW k \in Loops, NEW i \in Nat, NEW c \in Calls
      PROVE  Copy(k, i, c)' <=> Copy(k, IF k = l THEN i + 1 ELSE i, c) /\ (k = l => i > 0)
  <2>1. CASE k # l
    BY <1>3, <2>1 DEF Copy
  <2>2. CASE k = l
    <3>1. i \in 1..(Len(q) - 1) <=> i + 1 \in 1..Len(q) /\ i > 0
      BY <1>4
    <3>2. Copy(k, i, c)' <=> i \in 1..(Len(q) - 1) /\ q[i + 1] = [type |-> "publish", call |-> c]
      BY <1>3, <1>4, <2>2 DEF Copy
    <3>3. QED
      BY <1>2, <2>2, <3>1, <3>2 DEF Copy
  <2>3. QED
    BY <2>1, <2>2
<1>8. \A c \in Calls : Copy(l, 1, c) <=> q[1] = [type |-> "publish", call |-> c]
  BY <1>2, <1>4 DEF Copy
<1>9. q[1].type = "publish" => q[1].call \in Calls /\ q[1] = [type |-> "publish", call |-> q[1].call]
  BY <1>6 DEF Sound, Requests
<1>10. asked' = asked \/ \E c \in Calls :
         asked' = asked \cup {[call |-> c, via |-> l]} /\ Copy(l, 1, c)
  BY <1>5, <1>8, <1>9
<1>11. \A c \in Calls : Copy(l, 1, c) => [call |-> c, via |-> l] \in asked'
  <2>1. ASSUME NEW c \in Calls, Copy(l, 1, c) PROVE q[1].type = "publish" /\ q[1].call = c
    <3>1. q[1] = [type |-> "publish", call |-> c]
      BY <1>8, <2>1
    <3>2. QED
      BY <3>1
  <2>2. QED
    BY <1>5, <2>1
<1>12. QED
  BY <1>7, <1>10, <1>11

(* The owner's part of every step: a call begins, is over, or goes on      *)
Goes ==
  \/ UNCHANGED <<outcome, cur, op, seqOf, sequence_id>> /\ (pc' = "wait" <=> pc = "wait")
  \/ \E c \in Calls, o \in Ops : BeginCall(c, o) \/ CallNotStarted(c, o)
  \/ Publish \/ PublishFails \/ Receive \/ CancelCall

(* Every step is one of these *)
LEMMA NextGoes ==
  ASSUME [Next]_vars
  PROVE  Goes
<1> USE DEF Goes, ids, owner, link, task, queues, shared, vars
<1>1. ASSUME NEW l \in Loops, BeginStart(l) PROVE Goes
  BY <1>1 DEF BeginStart
<1>2. CASE SpawnLoop \/ StartReturns \/ CancelStart \/ Stop \/ Register
  BY <1>2 DEF SpawnLoop, StartReturns, CancelStart, Stop, Register
<1>3. ASSUME NEW l \in Loops, Task(l) PROVE Goes
  BY <1>3 DEF Task, PollPublish, PollConnAck, Subscribe, SubscribeOrphaned, SubscribeFails,
     PollOutgoing, PollDiscarded, PollAnswer, PollOrphaned, PollErr, PollErrOrphaned,
     SeesStop, Disconnect, Finish
<1>4. CASE Printer
  BY <1>4 DEF Printer, NetFails, Answer, Report
<1>5. CASE UNCHANGED vars
  BY <1>5
<1>6. QED
  BY <1>1, <1>2, <1>3, <1>4, <1>5 DEF Next, Owner

-------------------------------------------------------------------------------
(* The invariant                                                           *)
LEMMA InitCallInv == Init => CallInv
<1> SUFFICES ASSUME Init PROVE CallInv
  OBVIOUS
<1>1. \A l \in Loops : Len(requests[l]) = 0 /\ inbox[l] = {}
  BY DEF Init
<1>2. \A l \in Loops : \A i \in Nat : \A c : ~Copy(l, i, c)
  BY <1>1 DEF Copy
<1>3. Running /\ cur = NoCall /\ asked = {}
  BY MqttAssumption DEF Init, Running
<1>4. QED
  BY <1>1, <1>2, <1>3, InitTypeInv DEF CallInv, AllGenuine, SentWhenPublished, OneCopy

(* The method and the id of a call made are settled *)
LEMMA Settled ==
  ASSUME TypeInv, [Next]_vars, NEW c \in Calls, Begun(c)
  PROVE  Begun(c)' /\ op'[c] = op[c] /\ seqOf'[c] = seqOf[c]
<1> USE DEF TypeInv, TypeOK, CurBegun, Begun
<1>1. Goes
  BY NextGoes
<1>2. ASSUME NEW d \in Calls, NEW o \in Ops, BeginCall(d, o) \/ CallNotStarted(d, o)
      PROVE  Begun(c)' /\ op'[c] = op[c] /\ seqOf'[c] = seqOf[c]
  BY <1>2 DEF BeginCall, CallNotStarted, next_sequence_id
<1>3. CASE Publish \/ PublishFails \/ Receive \/ CancelCall
  BY <1>3 DEF Publish, PublishFails, Receive, CancelCall, Return, ids
<1>4. QED
  BY <1>1, <1>2, <1>3 DEF Goes

(* A call is running as long as `cur` names it *)
LEMMA NextRunning ==
  ASSUME TypeInv, Handshakes, Running, [Next]_vars
  PROVE  Running'
<1> USE MqttAssumption DEF TypeInv, TypeOK, CurBegun, Running, Handshakes
<1>1. Goes
  BY NextGoes
<1>2. ASSUME NEW d \in Calls, NEW o \in Ops, BeginCall(d, o) \/ CallNotStarted(d, o)
      PROVE  Running'
  BY <1>2 DEF BeginCall, CallNotStarted
<1>3. CASE Publish \/ PublishFails \/ Receive \/ CancelCall
  BY <1>3 DEF Publish, PublishFails, Receive, CancelCall, Return
<1>4. QED
  BY <1>1, <1>2, <1>3 DEF Goes

(* Only the printer answers, what was asked and under its id *)
LEMMA NextGenuine ==
  ASSUME TypeInv, AllGenuine, [Next]_vars
  PROVE  AllGenuine'
<1>1. \A m : Genuine(m) => Genuine(m)'
  BY Settled DEF Genuine, AnswerTo
<1>2. \A m : m.answers = NoCall => Genuine(m)
  BY MqttAssumption DEF Genuine
<1>3. \A l \in Loops : \A m \in inbox'[l] :
        m \in inbox[l] \/ m.answers = NoCall \/ \E r \in asked : m = AnswerTo(r.call)
  <2>1. CASE Keeps
    BY <2>1 DEF Keeps
  <2>2. CASE Publish \/ \E l \in Loops : PollOutgoing(l)
    BY <2>2 DEF Publish, PollOutgoing
  <2>3. ASSUME NEW r \in asked, Answer(r)
        PROVE  \A l \in Loops : \A m \in inbox'[l] : m \in inbox[l] \/ m = AnswerTo(r.call)
    BY <2>3 DEF Answer, Deliver
  <2>4. QED
    BY <2>1, <2>2, <2>3, NextKeeps
<1>4. \A r \in asked : Genuine(AnswerTo(r.call))
  BY DEF TypeInv, SentByCalls, Genuine, AnswerTo
<1>5. QED
  BY <1>1, <1>2, <1>3, <1>4 DEF AllGenuine

(* What of a call is on its way was on its way, if neither a step of the   *)
(* call nor the printer made more of it                                    *)
LEMMA StaysUnsent ==
  ASSUME TypeInv, [Next]_vars, NEW c \in Calls, Unsent(c), ~(Publish /\ cur = c)
  PROVE  Unsent(c)'
<1> USE MqttAssumption DEF Unsent
<1>1. CASE Keeps
  BY <1>1 DEF Keeps
<1>2. CASE Publish
  <2>1. /\ client \in Loops
        /\ [type |-> "publish", call |-> cur] \in Requests
        /\ Enqueue(client, "publish", cur)
    BY <1>2 DEF Publish, Requests, TypeInv, CurBegun
  <2>2. cur # c /\ UNCHANGED <<asked, inbox>>
    BY <1>2 DEF Publish, link
  <2>3. QED
    BY <2>1, <2>2, EnqueueCopies
<1>3. ASSUME NEW l \in Loops, PollOutgoing(l) PROVE Unsent(c)'
  <2>1. inbox' = inbox
    BY <1>3 DEF PollOutgoing
  <2>2. \A k \in Loops : \A i \in Nat : ~Copy(k, i, c)'
    BY <1>3, OutgoingCopies
  <2>3. asked' = asked \/ \E d \in Calls : asked' = asked \cup {[call |-> d, via |-> l]} /\ Copy(l, 1, d)
    BY <1>3, OutgoingCopies
  <2>4. \A r \in asked' : r.call # c
    BY <2>3
  <2>5. QED
    BY <2>1, <2>2, <2>4
<1>4. ASSUME NEW r \in asked, Answer(r) PROVE Unsent(c)'
  <2>1. \A l \in Loops : \A i \in Nat : ~Copy(l, i, c)'
    BY <1>4 DEF Answer, Copy
  <2>2. asked' \subseteq asked
    BY <1>4 DEF Answer
  <2>3. AnswerTo(r.call).answers # c
    BY DEF AnswerTo
  <2>4. \A l \in Loops : \A m \in inbox'[l] : m \in inbox[l] \/ m = AnswerTo(r.call)
    BY <1>4 DEF Answer, Deliver
  <2>5. QED
    BY <2>1, <2>2, <2>3, <2>4
<1>5. QED
  BY <1>1, <1>2, <1>3, <1>4, NextKeeps

(* A call that was not made sent nothing *)
LEMMA UnmadeUnsent ==
  ASSUME TypeInv, AllGenuine, NEW c \in Calls, ~Begun(c)
  PROVE  Unsent(c)
<1>1. \A l \in Loops : \A i \in Nat : ~Copy(l, i, c)
  <2> SUFFICES ASSUME NEW l \in Loops, NEW i \in Nat, Copy(l, i, c) PROVE FALSE
    OBVIOUS
  <2>1. Sound(requests[l][i]) /\ requests[l][i] = [type |-> "publish", call |-> c]
    BY DEF TypeInv, SentByCalls, Copy
  <2>2. requests[l][i].type = "publish" /\ requests[l][i].call = c
    BY <2>1
  <2>3. QED
    BY <2>1, <2>2 DEF Sound
<1>2. \A r \in asked : r.call # c
  BY DEF TypeInv, SentByCalls
<1>3. \A l \in Loops : \A m \in inbox[l] : m.answers # c
  BY DEF AllGenuine, Genuine
<1>4. QED
  BY <1>1, <1>2, <1>3 DEF Unsent

(* A call sends its command when it publishes it, not before *)
LEMMA NextSent ==
  ASSUME TypeInv, Handshakes, AllGenuine, SentWhenPublished, [Next]_vars
  PROVE  SentWhenPublished'
<1> USE MqttAssumption DEF SentWhenPublished
<1>1. Goes
  BY NextGoes
<1>2. CASE UNCHANGED <<outcome, cur, op, seqOf, sequence_id>> /\ (pc' = "wait" <=> pc = "wait")
  <2>1. cur \in Calls \cup {NoCall} /\ (Publish => pc' = "wait" \/ cur' = NoCall)
    BY DEF TypeInv, TypeOK, Publish, Return
  <2>2. QED
    BY <1>2, <2>1, StaysUnsent
<1>3. ASSUME NEW c \in Calls, NEW o \in Ops, BeginCall(c, o) PROVE SentWhenPublished'
  <2>1. ~Begun(c) /\ cur' = c /\ ~Publish
    BY <1>3 DEF BeginCall, Begun, Publish
  <2>2. QED
    BY <2>1, UnmadeUnsent, StaysUnsent
<1>4. ASSUME NEW c \in Calls, NEW o \in Ops, CallNotStarted(c, o) PROVE SentWhenPublished'
  BY <1>4 DEF CallNotStarted, Handshakes
<1>5. CASE Publish \/ PublishFails \/ Receive \/ CancelCall
  BY <1>5 DEF Publish, PublishFails, Receive, CancelCall, Return
<1>6. QED
  BY <1>1, <1>2, <1>3, <1>4, <1>5 DEF Goes

(* The command of a call moves, and is never doubled *)
LEMMA NextOneCopy ==
  ASSUME TypeInv, Handshakes, SentWhenPublished, OneCopy, [Next]_vars
  PROVE  OneCopy'
<1>1. CASE Keeps
  BY <1>1 DEF Keeps, OneCopy, TypeInv, TypeOK
<1>2. CASE Publish
  <2>1. /\ client \in Loops
        /\ [type |-> "publish", call |-> cur] \in Requests
        /\ Enqueue(client, "publish", cur)
        /\ cur \in Calls /\ asked' = asked
    BY <1>2 DEF Publish, Requests, TypeInv, CurBegun, link
  <2>2. Unsent(cur)
    BY <1>2, <2>1, MqttAssumption DEF SentWhenPublished, Publish
  <2>3. \A k \in Loops : \A i \in Nat : \A d \in Calls : Copy(k, i, d)' <=>
          Copy(k, i, d) \/ (k = client /\ i = Len(requests[client]) + 1 /\ d = cur)
    BY <2>1, EnqueueCopies
  <2>4. \A r \in asked : r.call \in Calls
    BY DEF TypeInv, TypeOK
  <2>5. ASSUME NEW k \in Loops, NEW l \in Loops, NEW i \in Nat, NEW j \in Nat, NEW c \in Calls,
               Copy(k, i, c)', Copy(l, j, c)'
        PROVE  k = l /\ i = j
    <3>1. CASE c = cur
      BY <2>2, <2>3, <2>5, <3>1 DEF Unsent
    <3>2. CASE c # cur
      <4>1. Copy(k, i, c) /\ Copy(l, j, c)
        BY <2>3, <2>5, <3>2
      <4>2. QED
        BY <4>1 DEF OneCopy
    <3>3. QED
      BY <3>1, <3>2
  <2>6. \A l \in Loops : \A i \in Nat : \A r \in asked' : ~Copy(l, i, r.call)'
    BY <2>1, <2>2, <2>3, <2>4 DEF OneCopy, Unsent
  <2>7. QED
    BY <2>1, <2>5, <2>6 DEF OneCopy
<1>3. ASSUME NEW l \in Loops, PollOutgoing(l) PROVE OneCopy'
  <2>1. \A k \in Loops : \A i \in Nat : \A c \in Calls :
          Copy(k, i, c)' => Copy(k, IF k = l THEN i + 1 ELSE i, c) /\ (k = l => i > 0)
    BY <1>3, OutgoingCopies
  <2>2. \A i, j \in Nat : i + 1 = j + 1 => i = j
    OBVIOUS
  <2>3. ASSUME NEW k1 \in Loops, NEW k2 \in Loops, NEW i \in Nat, NEW j \in Nat, NEW c \in Calls,
               Copy(k1, i, c)', Copy(k2, j, c)'
        PROVE  k1 = k2 /\ i = j
    <3>1. PICK i1 \in Nat : i1 = IF k1 = l THEN i + 1 ELSE i
      OBVIOUS
    <3>2. PICK j1 \in Nat : j1 = IF k2 = l THEN j + 1 ELSE j
      OBVIOUS
    <3>3. Copy(k1, i1, c) /\ Copy(k2, j1, c)
      BY <2>1, <2>3, <3>1, <3>2
    <3>4. k1 = k2 /\ i1 = j1
      BY <3>3 DEF OneCopy
    <3>5. QED
      BY <3>1, <3>2, <3>4
  <2>4. asked' = asked \/ \E c \in Calls :
          asked' = asked \cup {[call |-> c, via |-> l]} /\ Copy(l, 1, c)
    BY <1>3, OutgoingCopies
  <2>5. \A r \in asked : r.call \in Calls
    BY DEF TypeInv, TypeOK
  <2>6. ASSUME NEW k \in Loops, NEW i \in Nat, NEW r \in asked', Copy(k, i, r.call)'
        PROVE  FALSE
    <3>1. PICK i1 \in Nat : i1 = (IF k = l THEN i + 1 ELSE i) /\ (k = l => i1 # 1 \/ i = 0)
      OBVIOUS
    <3>2. r.call \in Calls
      BY <2>4, <2>5
    <3>3. Copy(k, i1, r.call) /\ (k = l => i1 # 1)
      BY <2>1, <2>6, <3>1, <3>2
    <3>4. r \notin asked
      BY <3>3 DEF OneCopy
    <3>5. r.call \in Calls /\ Copy(l, 1, r.call)
      BY <2>4, <3>4
    <3>6. k = l /\ i1 = 1
      BY <3>3, <3>5 DEF OneCopy
    <3>7. QED
      BY <3>3, <3>6
  <2>7. ASSUME NEW q \in asked', NEW r \in asked', q.call = r.call PROVE q = r
    BY <2>4, <2>7 DEF OneCopy
  <2>8. QED
    BY <2>3, <2>6, <2>7 DEF OneCopy
<1>4. ASSUME NEW r \in asked, Answer(r) PROVE OneCopy'
  <2>1. requests' = requests /\ asked' \subseteq asked
    BY <1>4 DEF Answer
  <2>2. \A k, i, c : Copy(k, i, c)' <=> Copy(k, i, c)
    BY <2>1 DEF Copy
  <2>3. QED
    BY <2>1, <2>2 DEF OneCopy
<1>5. QED
  BY <1>1, <1>2, <1>3, <1>4, NextKeeps

(* CallInv holds in every state *)
LEMMA CallInvariant == Spec => [](CallInv /\ SubInv)
<1>1. Init => CallInv /\ SubInv
  BY InitCallInv, InitTypeInv DEF Init, SubInv, Handshakes, Handshake, AskedOverSubscription
<1>2. CallInv /\ SubInv /\ [Next]_vars => (CallInv /\ SubInv)'
  BY NextTypeInv, NextSubInv, NextRunning, NextGenuine, NextSent, NextOneCopy DEF CallInv, SubInv
<1>3. QED
  BY <1>1, <1>2, PTL DEF Spec

-------------------------------------------------------------------------------
(* No answer is dropped                                                    *)

(* A report that disappears while its task goes on was handled             *)
LEMMA NextHandles ==
  ASSUME TypeInv, [Next]_vars, NEW l \in Loops, NEW m \in inbox[l],
         phase[l]' = "polling", m \notin inbox[l]'
  PROVE  PollDiscarded(l, m) \/ PollAnswer(l, m)
<1> USE DEF ids, owner, link, task, queues, shared, vars
<1>0. /\ phase \in [Loops -> Phases] /\ inbox \in [Loops -> SUBSET Messages]
      /\ inbox' # inbox /\ phase'[l] = "polling" /\ m \notin inbox'[l]
  BY DEF TypeInv, TypeOK
<1>1. \A k \in Loops : \A how : DropTask(k, how) /\ how # "polling" => k # l /\ inbox'[l] = inbox[l]
  BY <1>0 DEF DropTask
<1>2. ~CancelStart
  <2>1. CancelStart /\ pc = "start_flag" => client \in Loops /\ DropTask(client, "ended")
    BY DEF CancelStart, TypeInv, CurBegun
  <2>2. CancelStart /\ pc # "start_flag" => inbox' = inbox
    BY DEF CancelStart
  <2>3. QED
    BY <1>0, <1>1, <2>1, <2>2
<1>3. ~Owner
  BY <1>0, <1>2 DEF Owner, BeginStart, SpawnLoop, StartReturns, Stop, BeginCall, CallNotStarted,
     Register, Publish, PublishFails, Receive, CancelCall
<1>4. ~Printer
  <2>1. \A k : Deliver(k) => inbox[l] \subseteq inbox'[l]
    BY DEF Deliver
  <2>2. QED
    BY <1>0, <2>1 DEF Printer, NetFails, Answer, Report
<1>5. ASSUME NEW k \in Loops, Task(k) PROVE PollDiscarded(l, m) \/ PollAnswer(l, m)
  <2>1. CASE PollConnAck(k) \/ Subscribe(k) \/ SubscribeFails(k) \/ PollOutgoing(k) \/ PollErr(k)
             \/ SeesStop(k) \/ Disconnect(k)
    BY <1>0, <2>1 DEF PollConnAck, Subscribe, SubscribeFails, PollOutgoing, PollErr, SeesStop, Disconnect
  <2>2. CASE SubscribeOrphaned(k) \/ PollErrOrphaned(k) \/ Finish(k)
    BY <1>0, <1>1, <2>2 DEF SubscribeOrphaned, PollErrOrphaned, Finish
  <2>3. ASSUME NEW n \in inbox[k], PollPublish(k, n) PROVE PollDiscarded(l, m) \/ PollAnswer(l, m)
    <3>1. ~PollOrphaned(k, n)
      BY <1>0, <1>1 DEF PollOrphaned
    <3>2. inbox' = [inbox EXCEPT ![k] = @ \ {n}]
      BY <2>3, <3>1 DEF PollPublish, PollDiscarded, PollAnswer
    <3>3. k = l /\ n = m
      BY <1>0, <3>2
    <3>4. QED
      BY <2>3, <3>1, <3>3 DEF PollPublish
  <2>4. QED
    BY <1>5, <2>1, <2>2, <2>3 DEF Task
<1>6. QED
  BY <1>0, <1>3, <1>4, <1>5 DEF Next

(* NoAnswerDropped: the background task never consumes the answer to the   *)
(* call in progress without handing it over.  The answer exists only once  *)
(* the call waits, so its entry is filed, or was used up by an earlier     *)
(* message, which the call then holds.                                     *)
THEOREM AnswersArrive == Spec => NoAnswerDropped
<1>1. ASSUME CallInv, WaitInv, [Next]_vars,
             NEW l \in Loops, NEW m \in inbox[l], cur # NoCall, m.answers = cur,
             phase[l]' = "polling", m \notin inbox[l]'
      PROVE  slot'[cur] # NoMsg
  <2> USE DEF CallInv
  <2>1. cur \in Calls /\ slot \in [Calls -> Messages \cup {NoMsg}]
    BY <1>1 DEF TypeInv, TypeOK
  <2>2. m = AnswerTo(cur) /\ Genuine(m)
    BY <1>1, <2>1 DEF AllGenuine, Genuine
  <2>3. pc = "wait"
    BY <1>1 DEF SentWhenPublished, Unsent
  <2>4. op[cur] \in DOMAIN Root
    BY <1>1, <2>1, <2>3, MqttAssumption DEF WaitInv, Registered, TypeInv, CurBegun
  <2>5. IsAnswer(m) /\ m.seq = seqOf[cur] /\ m # NoMsg
    BY <2>2, <2>4 DEF AnswerTo, IsAnswer, Root, NoMsg
  <2>6. CASE PollDiscarded(l, m)
    <3>1. m.seq \notin DOMAIN inflight_commands /\ slot' = slot
      BY <2>5, <2>6 DEF PollDiscarded, shared
    <3>2. QED
      BY <1>1, <2>3, <2>4, <2>5, <3>1 DEF WaitInv, Registered, Root
  <2>7. CASE PollAnswer(l, m)
    BY <2>1, <2>5, <2>7 DEF PollAnswer
  <2>8. QED
    BY <1>1, <2>6, <2>7, NextHandles
<1>2. CallInv /\ WaitInv /\ [Next]_vars =>
        [\A l \in Loops : \A m \in inbox[l] :
           /\ cur # NoCall /\ m.answers = cur
           /\ phase[l]' = "polling" /\ m \notin inbox[l]'
           => slot'[cur] # NoMsg]_vars
  BY <1>1
<1>3. Spec => []WaitInv
  <2>1. Init => WaitInv
    BY InitTypeInv DEF Init, WaitInv, Registered
  <2>2. QED
    BY <2>1, NextWaitInv, PTL DEF Spec
<1>4. QED
  BY <1>2, <1>3, CallInvariant, PTL DEF Spec, NoAnswerDropped

-------------------------------------------------------------------------------
(* Everything that is true of calls and starts, whoever is dropped         *)
AllInv == CallInv /\ SubInv /\ WaitInv /\ ReplyInv

(* AllInv holds at first *)
LEMMA InitAllInv == Init => AllInv
BY InitCallInv, InitTypeInv, InitReplyInv
DEF Init, AllInv, SubInv, Handshakes, Handshake, AskedOverSubscription, WaitInv, Registered

(* ... and after every step *)
LEMMA NextAllInv ==
  ASSUME OnlyOwnAnswers, AllInv, [Next]_vars
  PROVE  AllInv'
BY NextTypeInv, NextSubInv, NextRunning, NextGenuine, NextSent, NextOneCopy, NextWaitInv,
   NextReplyInv DEF AllInv, CallInv, SubInv

-------------------------------------------------------------------------------
(* Refinement of RequestReply                                              *)

(* Where a command or an answer is, in terms of its copies *)
LEMMA WhereItIs ==
  /\ \A c \in Calls : UnderWay(c) <=> \/ \E l \in Loops : \E i \in Nat : Copy(l, i, c)
                                      \/ \E r \in asked : r.call = c
  /\ \A c \in Calls : UnderWay(c)' <=> \/ \E l \in Loops : \E i \in Nat : Copy(l, i, c)'
                                       \/ \E r \in asked' : r.call = c
BY DEF UnderWay, Queued, Copy

(* A step of the owner changes the state of its call and of no other       *)
LEMMA StatusBecomes ==
  ASSUME NEW c \in Calls, NEW s, Status(c)' = s,
         \A d \in Calls : d # c => Status(d)' = Status(d)
  PROVE  Abstract!Becomes(c, s)
BY DEF Abstract!Becomes

(* A step that changes no call's state *)
LEMMA StatusKept ==
  ASSUME \A d \in Calls : Status(d)' = Status(d)
  PROVE  UNCHANGED [c \in Calls |-> Status(c)]
OBVIOUS

(* Commands and answers stay where the channels and inboxes do *)
LEMMA SetsKept ==
  /\ UNCHANGED <<requests, asked>> => UNCHANGED {c \in Calls : UnderWay(c)}
  /\ UNCHANGED <<inbox, slot>> => UNCHANGED {c \in Calls : Answered(c)}
BY DEF UnderWay, Queued, Answered

(* The steps between the owner's lose commands and answers at most         *)
LEMMA OnlyLoses ==
  ASSUME \A c \in Calls : UnderWay(c)' => UnderWay(c),
         \A c \in Calls : Answered(c)' => Answered(c),
         UNCHANGED [c \in Calls |-> Status(c)]
  PROVE  Abstract!Lose
<1>1. {c \in Calls : UnderWay(c)}' \in SUBSET {c \in Calls : UnderWay(c)}
  OBVIOUS
<1>2. {c \in Calls : Answered(c)}' \in SUBSET {c \in Calls : Answered(c)}
  OBVIOUS
<1>3. QED
  BY <1>1, <1>2 DEF Abstract!Lose

(* What fills the slot of a call was in an inbox *)
LEMMA SlotFilled ==
  ASSUME TypeInv, [Next]_vars, NEW c \in Calls
  PROVE  slot'[c] = slot[c] \/ \E l \in Loops : \E m \in inbox[l] : slot'[c] = m
<1> USE DEF ids, owner, link, task, queues, shared, vars
<1>1. CASE UNCHANGED slot
  BY <1>1
<1>2. ASSUME NEW l \in Loops, NEW m \in inbox[l], PollAnswer(l, m)
      PROVE  slot'[c] = slot[c] \/ slot'[c] = m
  BY <1>2 DEF PollAnswer, TypeInv, TypeOK
<1>3. Owner \/ Printer \/ UNCHANGED vars => UNCHANGED slot
  BY DEF Owner, BeginStart, SpawnLoop, StartReturns, CancelStart, Stop, BeginCall, CallNotStarted,
     Register, Publish, PublishFails, Receive, CancelCall, Printer, NetFails, Answer, Report
<1>4. ASSUME NEW l \in Loops, Task(l)
      PROVE  UNCHANGED slot \/ \E m \in inbox[l] : PollAnswer(l, m)
  BY <1>4 DEF Task, PollPublish, PollConnAck, Subscribe, SubscribeOrphaned, SubscribeFails,
     PollOutgoing, PollDiscarded, PollOrphaned, PollErr, PollErrOrphaned,
     SeesStop, Disconnect, Finish
<1>5. QED
  BY <1>1, <1>2, <1>3, <1>4 DEF Next

(* Only the printer makes an answer *)
LEMMA AnswersFrom ==
  ASSUME TypeInv, [Next]_vars, NEW c \in Calls, Answered(c)',
         \A l \in Loops : \A m \in inbox'[l] : m \in inbox[l] \/ m.answers # c
  PROVE  Answered(c)
<1>1. CASE \E l \in Loops : \E m \in inbox'[l] : m.answers = c
  BY <1>1 DEF Answered
<1>2. CASE slot'[c] # NoMsg /\ slot'[c].answers = c
  <2>1. CASE slot'[c] = slot[c]
    BY <1>2, <2>1 DEF Answered
  <2>2. CASE \E l \in Loops : \E m \in inbox[l] : slot'[c] = m
    BY <1>2, <2>2 DEF Answered
  <2>3. QED
    BY <2>1, <2>2, SlotFilled
<1>3. QED
  BY <1>1, <1>2 DEF Answered

(* A call begins, ends or goes on; what it sent and what it is sent stay   *)
LEMMA OwnerRefines ==
  ASSUME CallInv, Handshakes, WaitInv, ReplyMatchesCall, [Next]_vars, ~Publish,
         ~ UNCHANGED [c \in Calls |-> Status(c)]
  PROVE  \E c \in Calls : Abstract!Open(c) \/ Abstract!Accept(c) \/ Abstract!Close(c)
<1> USE DEF CallInv, TypeInv, TypeOK, CurBegun, Running, Handshakes, ids, owner, link, task, queues, shared
<1>1. Goes
  BY NextGoes
<1>2. ~(UNCHANGED <<outcome, cur, op, seqOf, sequence_id>> /\ (pc' = "wait" <=> pc = "wait"))
  BY StatusKept DEF Status
<1>3. ASSUME NEW c \in Calls, NEW o \in Ops, BeginCall(c, o) PROVE Abstract!Open(c)
  <2>1. Status(c) = "new" /\ Status(c)' = "open" /\ cur = NoCall
    BY <1>3, MqttAssumption DEF BeginCall, Status
  <2>2. \A d \in Calls : d # c => Status(d)' = Status(d)
    BY <1>3 DEF BeginCall, Status
  <2>3. \A d \in Calls : Status(d) \notin {"open", "asked"}
    BY <2>1, MqttAssumption DEF Status
  <2>4. UNCHANGED <<requests, asked, inbox, slot>>
    BY <1>3 DEF BeginCall
  <2>5. Abstract!Becomes(c, "open")
    BY <2>1, <2>2, StatusBecomes
  <2>6. QED
    BY <2>1, <2>3, <2>4, <2>5, SetsKept DEF Abstract!Open
<1>4. ASSUME NEW c \in Calls, NEW o \in Ops, CallNotStarted(c, o) PROVE Abstract!Close(c)
  <2>1. Status(c) = "new" /\ Status(c)' = "closed"
    BY <1>4 DEF CallNotStarted, Status
  <2>2. \A d \in Calls : d # c => Status(d)' = Status(d)
    BY <1>4 DEF CallNotStarted, Status
  <2>3. UNCHANGED <<requests, asked, inbox, slot>>
    BY <1>4 DEF CallNotStarted
  <2>4. Abstract!Becomes(c, "closed")
    BY <2>1, <2>2, StatusBecomes
  <2>5. QED
    BY <2>1, <2>3, <2>4, SetsKept DEF Abstract!Close
<1>5. CASE PublishFails \/ CancelCall \/ (Receive /\ ~Converts(op[cur], slot[cur]))
  <2>1. PICK c \in Calls : c = cur /\ outcome[c] = "running"
    BY <1>5 DEF PublishFails, CancelCall, Receive
  <2>2. PICK s \in {"error", "cancelled", "panic"} : outcome' = [outcome EXCEPT ![c] = s]
    BY <1>5, <2>1 DEF PublishFails, CancelCall, Receive, Return
  <2>3. Status(c) \in {"open", "asked"} /\ Status(c)' = "closed"
    BY <2>1, <2>2 DEF Status
  <2>4. UNCHANGED <<op, requests, asked, inbox, slot>>
    BY <1>5 DEF PublishFails, CancelCall, Receive
  <2>5. \A d \in Calls : d # c => Status(d)' = Status(d)
    BY <2>1, <2>2, <2>4 DEF Status
  <2>6. Abstract!Becomes(c, "closed")
    BY <2>3, <2>5, StatusBecomes
  <2>7. Abstract!Close(c)
    BY <2>3, <2>4, <2>6, SetsKept DEF Abstract!Close
  <2>8. QED
    BY <2>7
<1>6. CASE Receive /\ Converts(op[cur], slot[cur])
  <2>1. PICK c \in Calls : c = cur /\ outcome[c] = "running" /\ pc = "wait"
    BY <1>6 DEF Receive
  <2>2. outcome' = [outcome EXCEPT ![c] = "ok"] /\ UNCHANGED <<op, requests, asked, inbox, slot>>
    BY <1>6, <2>1 DEF Receive, Return
  <2>3. op[c] # "push_all"
    BY <1>6, <2>1 DEF WaitInv, Registered
  <2>4. Status(c) = "asked" /\ Status(c)' = "done"
    BY <2>1, <2>2, <2>3 DEF Status
  <2>5. \A d \in Calls : d # c => Status(d)' = Status(d)
    BY <2>1, <2>2 DEF Status
  <2>6. Answered(c)
    BY <1>6, <2>1 DEF Receive, ReplyMatchesCall, Answered
  <2>7. Abstract!Becomes(c, "done")
    BY <2>4, <2>5, StatusBecomes
  <2>8. Abstract!Accept(c)
    BY <2>2, <2>4, <2>6, <2>7, SetsKept DEF Abstract!Accept
  <2>9. QED
    BY <2>8
<1>7. QED
  BY <1>1, <1>2, <1>3, <1>4, <1>5, <1>6 DEF Goes

(* A published command is sent *)
LEMMA PublishRefines ==
  ASSUME CallInv, Publish
  PROVE  \E c \in Calls : Abstract!Send(c)
<1> USE DEF CallInv, TypeInv, TypeOK, CurBegun, Running
<1>1. /\ client \in Loops
      /\ [type |-> "publish", call |-> cur] \in Requests
      /\ Enqueue(client, "publish", cur)
      /\ UNCHANGED <<op, asked, inbox, slot>>
  BY DEF Publish, Requests, ids, link, shared
<1>2. PICK c \in Calls : c = cur /\ outcome[c] = "running"
  BY DEF Publish
<1>3. /\ Status(c) = "open" /\ Status(c)' \in {"asked", "told"}
      /\ \A d \in Calls : d # c => Status(d)' = Status(d)
  <2>1. Status(c) = "open"
    BY <1>2 DEF Publish, Status
  <2>2. CASE op[c] = "push_all"
    <3>1. outcome' = [outcome EXCEPT ![c] = "ok"]
      BY <1>2, <2>2 DEF Publish, Return
    <3>2. QED
      BY <1>1, <1>2, <2>1, <2>2, <3>1 DEF Status
  <2>3. CASE op[c] # "push_all"
    BY <1>1, <1>2, <2>1, <2>3 DEF Publish, Status
  <2>4. QED
    BY <2>2, <2>3
<1>4. Abstract!Becomes(c, "asked") \/ Abstract!Becomes(c, "told")
  BY <1>3, StatusBecomes
<1>5. PICK n \in Nat : n = Len(requests[client]) + 1
  BY <1>1
<1>6. \A k \in Loops : \A i \in Nat : \A d \in Calls :
        Copy(k, i, d)' <=> Copy(k, i, d) \/ (k = client /\ i = n /\ d = c)
  BY <1>1, <1>2, <1>5, EnqueueCopies
<1>7. \A d \in Calls : UnderWay(d)' <=> UnderWay(d) \/ d = c
  BY <1>1, <1>6, WhereItIs
<1>8. {d \in Calls : UnderWay(d)}' = {d \in Calls : UnderWay(d)} \cup {c}
  BY <1>7
<1>9. Abstract!Send(c)
  BY <1>1, <1>3, <1>4, <1>8, SetsKept DEF Abstract!Send
<1>10. QED
  BY <1>9

(* The printer replies, to whoever is there *)
LEMMA AnswerRefines ==
  ASSUME CallInv, NEW r \in asked, Answer(r)
  PROVE  Abstract!Reply(r.call) \/ Abstract!Lose
<1>1. /\ requests' = requests /\ asked' = asked \ {r} /\ r.call \in Calls
      /\ UNCHANGED <<op, outcome, pc, slot>>
  BY DEF Answer, owner, ids, shared, CallInv, TypeInv, TypeOK
<1>2. \A d \in Calls : UnderWay(d)' <=> UnderWay(d) /\ d # r.call
  <2>1. \A l \in Loops : \A i \in Nat : \A d \in Calls : Copy(l, i, d)' <=> Copy(l, i, d)
    BY <1>1 DEF Copy
  <2>2. \A q \in asked : q \in asked' <=> q.call # r.call
    BY <1>1 DEF CallInv, OneCopy
  <2>3. \A l \in Loops : \A i \in Nat : ~Copy(l, i, r.call)
    BY DEF CallInv, OneCopy
  <2>4. QED
    BY <1>1, <2>1, <2>2, <2>3, WhereItIs
<1>3. UnderWay(r.call)
  BY <1>1, WhereItIs
<1>4. AnswerTo(r.call).answers = r.call
  BY DEF AnswerTo
<1>5. UNCHANGED [c \in Calls |-> Status(c)]
  BY <1>1 DEF Status
<1>6. CASE \E l \in Loops : Reachable(l)
  <2>1. \A d \in Calls : Answered(d)' <=> Answered(d) \/ d = r.call
    BY <1>1, <1>4, <1>6 DEF Answered, Answer, Deliver
  <2>2. {d \in Calls : UnderWay(d)}' = {d \in Calls : UnderWay(d)} \ {r.call}
    BY <1>2
  <2>3. {d \in Calls : Answered(d)}' = {d \in Calls : Answered(d)} \cup {r.call}
    BY <1>1, <2>1
  <2>4. Abstract!Reply(r.call)
    BY <1>1, <1>3, <1>5, <2>2, <2>3 DEF Abstract!Reply
  <2>5. QED
    BY <2>4
<1>7. CASE \A l \in Loops : ~Reachable(l)
  <2>1. \A d \in Calls : Answered(d)' => Answered(d)
    BY <1>1, <1>7 DEF Answered, Answer, Deliver
  <2>2. Abstract!Lose
    BY <1>2, <1>5, <2>1, OnlyLoses
  <2>3. QED
    BY <2>2
<1>8. QED
  BY <1>6, <1>7

(* The other steps of the tasks, of the network and of other clients       *)
LEMMA OtherRefines ==
  ASSUME CallInv, [Next]_vars, UNCHANGED [c \in Calls |-> Status(c)],
         Keeps \/ \E l \in Loops : PollOutgoing(l)
  PROVE  Abstract!Lose
<1> USE DEF CallInv
<1>1. CASE Keeps
  <2>1. \A c \in Calls : UnderWay(c)' => UnderWay(c)
    BY <1>1, WhereItIs DEF Keeps
  <2>2. \A c \in Calls : Answered(c)' => Answered(c)
    BY <1>1, AnswersFrom, MqttAssumption DEF Keeps
  <2>3. QED
    BY <2>1, <2>2, OnlyLoses
<1>2. ASSUME NEW l \in Loops, PollOutgoing(l) PROVE Abstract!Lose
  <2>1. \A k \in Loops : \A i \in Nat : \A c \in Calls :
          Copy(k, i, c)' => Copy(k, IF k = l THEN i + 1 ELSE i, c)
    BY <1>2, OutgoingCopies
  <2>2. \A i \in Nat : i + 1 \in Nat
    OBVIOUS
  <2>3. asked' = asked \/ \E c \in Calls :
          asked' = asked \cup {[call |-> c, via |-> l]} /\ Copy(l, 1, c)
    BY <1>2, OutgoingCopies
  <2>4. \A c \in Calls : UnderWay(c)' => UnderWay(c)
    <3> SUFFICES ASSUME NEW c \in Calls, UnderWay(c)' PROVE UnderWay(c)
      OBVIOUS
    <3>1. CASE \E k \in Loops : \E i \in Nat : Copy(k, i, c)'
      BY <2>1, <2>2, <3>1, WhereItIs
    <3>2. CASE \E r \in asked' : r.call = c
      BY <2>3, <3>2, WhereItIs
    <3>3. QED
      BY <3>1, <3>2, WhereItIs
  <2>5. UNCHANGED <<inbox, slot>>
    BY <1>2 DEF PollOutgoing, shared
  <2>6. \A c \in Calls : Answered(c)' => Answered(c)
    BY <2>5 DEF Answered
  <2>7. QED
    BY <2>4, <2>6, OnlyLoses
<1>3. QED
  BY <1>1, <1>2

(* ImplementsRequestReply: one call at a time, a command sent at most once *)
(* and a result only if the printer answered this command.  A command has  *)
(* one copy, which the connection, the printer or the end of a task takes; *)
(* what a call holds is the answer to it.                                  *)
THEOREM RequestsAndReplies ==
  ASSUME OnlyOwnAnswers
  PROVE  Spec => ImplementsRequestReply
<1>1. Init => Abstract!Init
  <2> SUFFICES ASSUME Init PROVE Abstract!Init
    OBVIOUS
  <2>1. \A c \in Calls : Status(c) = "new" /\ ~UnderWay(c) /\ ~Answered(c)
    <3> TAKE c \in Calls
    <3>1. \A l \in Loops : Len(requests[l]) = 0 /\ inbox[l] = {}
      BY DEF Init
    <3>2. Status(c) = "new"
      BY DEF Init, Status
    <3>3. ~UnderWay(c)
      BY <3>1 DEF Init, UnderWay, Queued
    <3>4. ~Answered(c)
      BY <3>1 DEF Init, Answered
    <3>5. QED
      BY <3>2, <3>3, <3>4
  <2>2. QED
    BY <2>1 DEF Abstract!Init
<1>2. ASSUME AllInv, [Next]_vars PROVE [Abstract!Next]_(Abstract!vars)
  <2> USE <1>2 DEF AllInv, CallInv, SubInv
  <2>1. CASE Publish
    BY <2>1, PublishRefines DEF Abstract!Next
  <2>2. CASE \E r \in asked : Answer(r)
    <3>1. PICK r \in asked : Answer(r)
      BY <2>2
    <3>2. r.call \in Calls
      BY DEF TypeInv, TypeOK
    <3>3. QED
      BY <3>1, <3>2, AnswerRefines DEF Abstract!Next
  <2>3. CASE ~Publish /\ ~(\E r \in asked : Answer(r)) /\ UNCHANGED [c \in Calls |-> Status(c)]
    BY <2>3, NextKeeps, OtherRefines DEF Abstract!Next
  <2>4. CASE ~Publish /\ ~UNCHANGED [c \in Calls |-> Status(c)]
    BY <2>4, OwnerRefines DEF Abstract!Next, ReplyInv
  <2>5. QED
    BY <2>1, <2>2, <2>3, <2>4
<1>3. AllInv /\ [Next]_vars => AllInv'
  BY NextAllInv
<1>4. QED
  BY <1>1, <1>2, <1>3, InitAllInv, PTL DEF Spec, ImplementsRequestReply, Abstract!Spec

-------------------------------------------------------------------------------
(* Nothing panics but for what was dropped                                 *)

(* A start() that waits is told: its task is there, and not asked to stop  *)
Told ==
  pc = "start_wait" =>
    /\ ~stop_flag /\ connected[client] # "dropped"
    /\ connected[client] = "unsent" => phase[client] \in {"polling", "subscribing"}

(* If nothing may be dropped, start() is there until its task has reported *)
Heard ==
  ~MayCancel => \A l \in Loops :
    /\ connected[l] # "dropped"
    /\ phase[l] \in {"polling", "subscribing"} /\ connected[l] = "unsent" => StartWaits(l)
    /\ phase[l] \in {"disconnecting", "finishing", "ended", "panicked"} => connected[l] # "unsent"

(* What made a task panic *)
Caused ==
  \A l \in Loops : phase[l] = "panicked" => connected[l] = "dropped" \/ \E c \in Calls : GivenUp(c)

(* An entry is of the call in progress, of one whose command never left, or*)
(* of one that was dropped                                                 *)
Filed ==
  \A s \in DOMAIN inflight_commands :
    LET c == inflight_commands[s] IN
      /\ op[c] # "push_all" /\ slot[c] = NoMsg
      /\ c = cur \/ Unsent(c) \/ GivenUp(c)

(* What a call holds is the answer to it *)
Slots ==
  \A c \in Calls : slot[c] # NoMsg =>
    /\ Begun(c) /\ slot[c] = AnswerTo(c) /\ IsAnswer(slot[c])
    /\ c = cur => pc = "wait"

NoCallPanics == \A c \in Calls : outcome[c] # "panic"

PanicInv ==
  serial = "plain" /\ Told /\ Heard /\ Caused /\ Filed /\ Slots /\ NoCallPanics

(* A message that is looked up belongs to the call it is filed for         *)
LEMMA EntryAnswers ==
  ASSUME ReplyInv, NEW l \in Loops, NEW m \in inbox[l], IsAnswer(m),
         m.seq \in DOMAIN inflight_commands
  PROVE  inflight_commands[m.seq] = m.answers
BY DEF ReplyInv, AnswersTraced, EntriesOwned, IdsDistinct

(* ... so that it finds its receiver, or that of a call that was dropped   *)
LEMMA OrphanGivenUp ==
  ASSUME ReplyInv, Filed, NEW l \in Loops, NEW m \in inbox[l], PollOrphaned(l, m)
  PROVE  \E c \in Calls : GivenUp(c)
<1>1. IsAnswer(m) /\ m.seq \in DOMAIN inflight_commands /\ inflight_commands[m.seq] # cur
  BY DEF PollOrphaned
<1>2. inflight_commands[m.seq] = m.answers /\ m.answers \in Calls
  BY <1>1, EntryAnswers DEF ReplyInv, EntriesOwned
<1>3. ~Unsent(m.answers)
  BY <1>2 DEF Unsent
<1>4. QED
  BY <1>1, <1>2, <1>3 DEF Filed

(* A call that was dropped stays dropped                                   *)
LEMMA StaysGivenUp ==
  ASSUME TypeInv, Running, [Next]_vars, NEW c \in Calls, GivenUp(c)
  PROVE  GivenUp(c)'
<1> USE DEF TypeInv, TypeOK, GivenUp
<1>1. op'[c] = op[c]
  BY Settled DEF Begun
<1>2. c # cur
  BY DEF Running
<1>3. ASSUME NEW d \in Calls, NEW o \in Ops, BeginCall(d, o) \/ CallNotStarted(d, o)
      PROVE  outcome'[c] = outcome[c]
  BY <1>3 DEF BeginCall, CallNotStarted
<1>4. ASSUME Publish \/ PublishFails \/ Receive \/ CancelCall PROVE outcome'[c] = outcome[c]
  BY <1>2, <1>4 DEF Publish, PublishFails, Receive, CancelCall, Return
<1>5. outcome'[c] = outcome[c]
  BY <1>3, <1>4, NextGoes DEF Goes
<1>6. QED
  BY <1>1, <1>5

(* A start() that waits goes on being told *)
LEMMA NextTold ==
  ASSUME SubInv, serial = "plain", Told, [Next]_vars
  PROVE  Told'
<1> USE DEF SubInv, TypeInv, TypeOK, CurBegun, Handshakes, Handshake, Told, StartWaits,
      ids, owner, link, task, queues, shared, vars
<1>1. ASSUME NEW l \in Loops, BeginStart(l) PROVE Told'
  BY <1>1 DEF BeginStart
<1>2. CASE SpawnLoop
  BY <1>2 DEF SpawnLoop
<1>3. CASE StartReturns \/ CancelStart \/ Stop \/ CancelCall
  BY <1>3 DEF StartReturns, CancelStart, Stop, CancelCall, Return
<1>4. CASE Register \/ Publish \/ PublishFails \/ Receive
  BY <1>4 DEF Register, Publish, PublishFails, Receive, Return
<1>5. ASSUME NEW c \in Calls, NEW o \in Ops, BeginCall(c, o) \/ CallNotStarted(c, o) PROVE Told'
  BY <1>5 DEF BeginCall, CallNotStarted
<1>6. ASSUME NEW l \in Loops, PollConnAck(l) PROVE Told'
  BY <1>6 DEF PollConnAck
<1>7. ASSUME NEW l \in Loops, Subscribe(l) PROVE Told'
  BY <1>7 DEF Subscribe
<1>8. \A l \in Loops : ~SubscribeFails(l)
  BY DEF SubscribeFails, FilterLegal
<1>9. ASSUME NEW l \in Loops, SubscribeOrphaned(l) \/ PollErrOrphaned(l) PROVE Told'
  BY <1>9 DEF SubscribeOrphaned, PollErrOrphaned, DropTask
<1>10. ASSUME NEW l \in Loops, PollErr(l) PROVE Told'
  BY <1>10 DEF PollErr
<1>11. ASSUME NEW l \in Loops, SeesStop(l) PROVE Told'
  BY <1>11 DEF SeesStop
<1>12. ASSUME NEW l \in Loops, Disconnect(l) PROVE Told'
  BY <1>12 DEF Disconnect
<1>13. ASSUME NEW l \in Loops, Finish(l) PROVE Told'
  BY <1>13 DEF Finish, DropTask
<1>14. ASSUME NEW l \in Loops, PollOutgoing(l) \/ NetFails(l) PROVE Told'
  BY <1>14 DEF PollOutgoing, NetFails
<1>15. ASSUME NEW l \in Loops, NEW m \in inbox[l], PollDiscarded(l, m) \/ PollAnswer(l, m)
       PROVE  Told'
  BY <1>15 DEF PollDiscarded, PollAnswer
<1>16. ASSUME NEW l \in Loops, NEW m \in inbox[l], PollOrphaned(l, m) PROVE Told'
  BY <1>16 DEF PollOrphaned, TakeReport, DropTask
<1>17. CASE (\E r \in asked : Answer(r)) \/ (\E m \in Unsolicited : Report(m)) \/ UNCHANGED vars
  BY <1>17 DEF Answer, Report
<1>18. QED
  BY <1>1, <1>2, <1>3, <1>4, <1>5, <1>6, <1>7, <1>8, <1>9, <1>10, <1>11, <1>12, <1>13, <1>14,
     <1>15, <1>16, <1>17 DEF Next, Owner, Task, PollPublish, Printer

(* ... and if nothing may be dropped it is there to be told                *)
LEMMA NextHeard ==
  ASSUME SubInv, serial = "plain", Told, Heard, [Next]_vars
  PROVE  Heard'
<1> SUFFICES ASSUME ~MayCancel PROVE Heard'
  BY DEF Heard
<1> USE DEF SubInv, TypeInv, TypeOK, CurBegun, Handshakes, Handshake, Told, Heard, StartWaits,
      ids, owner, link, task, queues, shared, vars
<1>1. ASSUME NEW l \in Loops, BeginStart(l) PROVE Heard'
  BY <1>1 DEF BeginStart
<1>2. CASE SpawnLoop
  BY <1>2 DEF SpawnLoop
<1>3. CASE StartReturns \/ Stop
  BY <1>3 DEF StartReturns, Stop
<1>4. ~CancelStart /\ ~CancelCall
  BY DEF CancelStart, CancelCall
<1>5. CASE Register \/ Publish \/ PublishFails \/ Receive
  BY <1>5 DEF Register, Publish, PublishFails, Receive, Return
<1>6. ASSUME NEW c \in Calls, NEW o \in Ops, BeginCall(c, o) \/ CallNotStarted(c, o) PROVE Heard'
  BY <1>6 DEF BeginCall, CallNotStarted
<1>7. ASSUME NEW l \in Loops, PollConnAck(l) PROVE Heard'
  BY <1>7 DEF PollConnAck
<1>8. ASSUME NEW l \in Loops, Subscribe(l) PROVE Heard'
  BY <1>8 DEF Subscribe
<1>9. \A l \in Loops : ~SubscribeOrphaned(l) /\ ~SubscribeFails(l) /\ ~PollErrOrphaned(l)
  BY DEF SubscribeOrphaned, SubscribeFails, PollErrOrphaned, FilterLegal
<1>10. ASSUME NEW l \in Loops, PollErr(l) PROVE Heard'
  BY <1>10 DEF PollErr
<1>11. ASSUME NEW l \in Loops, SeesStop(l) PROVE Heard'
  BY <1>11 DEF SeesStop
<1>12. ASSUME NEW l \in Loops, Disconnect(l) PROVE Heard'
  BY <1>12 DEF Disconnect
<1>13. ASSUME NEW l \in Loops, Finish(l) PROVE Heard'
  BY <1>13 DEF Finish, DropTask
<1>14. ASSUME NEW l \in Loops, PollOutgoing(l) \/ NetFails(l) PROVE Heard'
  BY <1>14 DEF PollOutgoing, NetFails
<1>15. ASSUME NEW l \in Loops, NEW m \in inbox[l], PollDiscarded(l, m) \/ PollAnswer(l, m)
       PROVE  Heard'
  BY <1>15 DEF PollDiscarded, PollAnswer
<1>16. ASSUME NEW l \in Loops, NEW m \in inbox[l], PollOrphaned(l, m) PROVE Heard'
  <2>1. connected[l] = "ok" /\ phase[l] = "polling"
    BY <1>16 DEF PollOrphaned, TakeReport
  <2>2. connected' = connected /\ phase' = [phase EXCEPT ![l] = "panicked"] /\ UNCHANGED <<pc, client>>
    BY <1>16, <2>1 DEF PollOrphaned, DropTask
  <2>3. QED
    BY <2>1, <2>2
<1>17. CASE (\E r \in asked : Answer(r)) \/ (\E m \in Unsolicited : Report(m)) \/ UNCHANGED vars
  BY <1>17 DEF Answer, Report
<1>18. QED
  BY <1>1, <1>2, <1>3, <1>4, <1>5, <1>6, <1>7, <1>8, <1>9, <1>10, <1>11, <1>12, <1>13, <1>14,
     <1>15, <1>16, <1>17 DEF Next, Owner, Task, PollPublish, Printer

(* The steps after which a task may have panicked, and what becomes of its *)
(* oneshot                                                                 *)
LEMMA NextPhases ==
  ASSUME SubInv, [Next]_vars, NEW l \in Loops, phase'[l] = "panicked"
  PROVE  \/ phase[l] = "panicked" /\ connected'[l] = connected[l]
         \/ connected'[l] = "dropped"
         \/ \E m \in inbox[l] : PollOrphaned(l, m)
<1> USE DEF SubInv, TypeInv, TypeOK, CurBegun, Handshakes, Handshake, StartWaits,
      ids, owner, link, task, queues, shared, vars
<1> DEFINE Goal == \/ phase[l] = "panicked" /\ connected'[l] = connected[l]
                   \/ connected'[l] = "dropped"
                   \/ \E m \in inbox[l] : PollOrphaned(l, m)
<1>1. CASE Owner
  BY <1>1 DEF Owner, BeginStart, SpawnLoop, StartReturns, CancelStart, DropTask, Stop, BeginCall,
     CallNotStarted, Register, Publish, PublishFails, Receive, CancelCall
<1>2. CASE Printer \/ UNCHANGED vars
  BY <1>2 DEF Printer, NetFails, Answer, Report
<1>3. ASSUME NEW k \in Loops, Task(k) PROVE Goal
  <2>1. CASE PollConnAck(k) \/ Subscribe(k) \/ SubscribeFails(k) \/ PollOutgoing(k) \/ PollErr(k)
    BY <2>1 DEF PollConnAck, Subscribe, SubscribeFails, PollOutgoing, PollErr
  <2>2. CASE SubscribeOrphaned(k) \/ PollErrOrphaned(k)
    BY <2>2 DEF SubscribeOrphaned, PollErrOrphaned, DropTask
  <2>3. CASE SeesStop(k) \/ Disconnect(k) \/ Finish(k)
    BY <2>3 DEF SeesStop, Disconnect, Finish, DropTask
  <2>4. ASSUME NEW m \in inbox[k], PollPublish(k, m) PROVE Goal
    <3>1. CASE PollDiscarded(k, m) \/ PollAnswer(k, m)
      BY <3>1 DEF PollDiscarded, PollAnswer
    <3>2. CASE PollOrphaned(k, m) /\ k = l
      BY <3>2
    <3>3. CASE PollOrphaned(k, m) /\ k # l
      BY <3>3 DEF PollOrphaned, DropTask
    <3>4. QED
      BY <2>4, <3>1, <3>2, <3>3 DEF PollPublish
  <2>5. QED
    BY <1>3, <2>1, <2>2, <2>3, <2>4 DEF Task
<1>4. QED
  BY <1>1, <1>2, <1>3 DEF Next

(* A task panics for want of a start() or of a call                        *)
LEMMA NextCaused ==
  ASSUME AllInv, Filed, Caused, [Next]_vars
  PROVE  Caused'
<1> SUFFICES ASSUME NEW l \in Loops, phase'[l] = "panicked", connected'[l] # "dropped"
             PROVE  \E c \in Calls : GivenUp(c)'
  BY DEF Caused
<1>1. \E c \in Calls : GivenUp(c)
  BY NextPhases, OrphanGivenUp DEF AllInv, Caused
<1>2. QED
  BY <1>1, StaysGivenUp DEF AllInv, CallInv

(* The map and the oneshot channels change when a call is registered and   *)
(* when a message is handed over                                           *)
LEMMA NextEntries ==
  ASSUME [Next]_vars
  PROVE  \/ UNCHANGED <<inflight_commands, slot>>
         \/ Register
         \/ \E l \in Loops : \E m \in inbox[l] : PollAnswer(l, m) \/ PollOrphaned(l, m)
<1> USE DEF ids, owner, link, task, queues, shared, vars
<1>1. Owner => Register \/ UNCHANGED <<inflight_commands, slot>>
  BY DEF Owner, BeginStart, SpawnLoop, StartReturns, CancelStart, Stop, BeginCall, CallNotStarted,
     Publish, PublishFails, Receive, CancelCall
<1>2. Printer \/ UNCHANGED vars => UNCHANGED <<inflight_commands, slot>>
  BY DEF Printer, NetFails, Answer, Report
<1>3. ASSUME NEW l \in Loops, Task(l)
      PROVE  \/ UNCHANGED <<inflight_commands, slot>>
             \/ \E m \in inbox[l] : PollAnswer(l, m) \/ PollOrphaned(l, m)
  BY <1>3 DEF Task, PollPublish, PollConnAck, Subscribe, SubscribeOrphaned, SubscribeFails,
     PollOutgoing, PollDiscarded, PollErr, PollErrOrphaned, SeesStop, Disconnect, Finish
<1>4. QED
  BY <1>1, <1>2, <1>3 DEF Next

(* The serial number is given once *)
LEMMA SerialKept == [Next]_vars => serial' = serial
BY DEF Next, Owner, Task, PollPublish, Printer, BeginStart, SpawnLoop, StartReturns, CancelStart,
   Stop, BeginCall, CallNotStarted, Register, Publish, PublishFails, Receive, CancelCall,
   PollConnAck, Subscribe, SubscribeOrphaned, SubscribeFails, PollOutgoing, PollDiscarded,
   PollAnswer, PollOrphaned, PollErr, PollErrOrphaned, SeesStop, Disconnect, Finish,
   NetFails, Answer, Report, vars

(* A oneshot channel is filled with the answer to its call *)
LEMMA NextSlots ==
  ASSUME AllInv, Slots, [Next]_vars
  PROVE  Slots'
<1> USE DEF AllInv, CallInv, SubInv, Handshakes
<1> SUFFICES ASSUME NEW c \in Calls, slot'[c] # NoMsg
             PROVE  /\ Begun(c)' /\ slot'[c] = AnswerTo(c)' /\ IsAnswer(slot'[c])
                    /\ c = cur' => pc' = "wait"
  BY DEF Slots, IsAnswer
<1>1. CASE slot'[c] = slot[c]
  <2>1. Begun(c) /\ slot[c] = AnswerTo(c) /\ IsAnswer(slot[c]) /\ (c = cur => pc = "wait")
    BY <1>1 DEF Slots
  <2>2. Begun(c)' /\ slot'[c] = AnswerTo(c)' /\ IsAnswer(slot'[c])
    BY <1>1, <2>1, Settled DEF AnswerTo
  <2>3. ASSUME c = cur' PROVE pc' = "wait"
    <3>1. \A d \in Calls, o \in Ops : BeginCall(d, o) => d # c
      BY <2>1 DEF BeginCall, Begun
    <3>2. \A d \in Calls, o \in Ops : BeginCall(d, o) => cur' = d
      BY DEF BeginCall
    <3>3. \A d \in Calls, o \in Ops : CallNotStarted(d, o) => UNCHANGED <<cur, pc>>
      BY DEF CallNotStarted
    <3>4. Publish \/ PublishFails \/ Receive \/ CancelCall => cur' = NoCall \/ pc' = "wait"
      BY DEF Publish, PublishFails, Receive, CancelCall, Return
    <3>5. QED
      BY <2>1, <2>3, <3>1, <3>2, <3>3, <3>4, NextGoes, MqttAssumption DEF Goes
  <2>4. QED
    BY <2>2, <2>3
<1>2. CASE slot'[c] # slot[c]
  <2>1. ~UNCHANGED slot /\ ~Register /\ \A l \in Loops : \A m \in inbox[l] : ~PollOrphaned(l, m)
    BY <1>2 DEF Register, PollOrphaned
  <2>2. PICK l \in Loops : \E m \in inbox[l] : PollAnswer(l, m)
    BY <2>1, NextEntries
  <2>3. PICK m \in inbox[l] : PollAnswer(l, m)
    BY <2>2
  <2>4. slot' = [slot EXCEPT ![cur] = m] /\ IsAnswer(m) /\ UNCHANGED <<cur, pc, outcome, op, seqOf>>
        /\ m.seq \in DOMAIN inflight_commands /\ inflight_commands[m.seq] = cur
    BY <2>3 DEF PollAnswer, owner, ids
  <2>5. c = cur /\ slot'[c] = m
    BY <1>2, <2>4 DEF TypeInv, TypeOK
  <2>6. m.answers = c
    BY <2>4, <2>5, EntryAnswers
  <2>7. Begun(c) /\ m = AnswerTo(c)
    BY <2>6 DEF AllGenuine, Genuine
  <2>8. pc = "wait"
    BY <2>5, <2>6, MqttAssumption DEF SentWhenPublished, Unsent
  <2>9. Begun(c)' /\ AnswerTo(c)' = AnswerTo(c)
    BY <2>4, <2>7 DEF Begun, AnswerTo
  <2>10. QED
    BY <2>4, <2>5, <2>7, <2>8, <2>9
<1>3. QED
  BY <1>1, <1>2

(* An entry goes with its answer, or stays behind for a command that never  *)
(* left                                                                     *)
LEMMA NextFiled ==
  ASSUME AllInv, Filed, Slots, [Next]_vars
  PROVE  Filed'
<1> USE DEF AllInv, CallInv
<1>1. ASSUME NEW s \in DOMAIN inflight_commands, NEW c \in Calls, c = inflight_commands[s]
      PROVE  op'[c] # "push_all" /\ (c = cur' \/ Unsent(c)' \/ GivenUp(c)')
  <2>1. Begun(c) /\ op[c] # "push_all" /\ slot[c] = NoMsg /\ (c = cur \/ Unsent(c) \/ GivenUp(c))
    BY <1>1 DEF Filed, ReplyInv, EntriesOwned
  <2>2. op'[c] # "push_all"
    BY <2>1, Settled
  <2>3. CASE Unsent(c) /\ ~(Publish /\ cur = c)
    BY <2>2, <2>3, StaysUnsent
  <2>4. CASE GivenUp(c)
    BY <2>2, <2>4, StaysGivenUp
  <2>5. CASE c = cur /\ CancelCall
    <3>1. outcome'[c] = "cancelled"
      BY <2>5 DEF CancelCall, Return, TypeInv, TypeOK
    <3>2. QED
      BY <2>2, <3>1 DEF GivenUp
  <2>6. CASE c = cur /\ ~CancelCall /\ (Publish \/ ~Unsent(c))
    <3>1. Publish => cur' = cur
      BY <2>1, <2>6 DEF Publish
    <3>2. ~PublishFails
      BY <2>6, MqttAssumption DEF PublishFails, Publish, SentWhenPublished
    <3>3. ~Receive
      BY <2>1, <2>6 DEF Receive
    <3>4. \A d \in Calls, o \in Ops : ~BeginCall(d, o)
      BY <2>6, MqttAssumption DEF BeginCall, SubInv, Handshakes
    <3>5. \A d \in Calls, o \in Ops : CallNotStarted(d, o) => cur' = cur
      BY DEF CallNotStarted
    <3>6. QED
      BY <2>2, <2>6, <3>1, <3>2, <3>3, <3>4, <3>5, NextGoes DEF Goes
  <2>7. QED
    BY <2>1, <2>2, <2>3, <2>4, <2>5, <2>6
<1>2. \A s \in DOMAIN inflight_commands : inflight_commands[s] \in Calls /\ slot[inflight_commands[s]] = NoMsg
  BY DEF Filed, ReplyInv, EntriesOwned
<1>3. CASE UNCHANGED <<inflight_commands, slot>>
  BY <1>1, <1>2, <1>3 DEF Filed
<1>4. CASE Register
  <2>1. cur \in Calls /\ op[cur] # "push_all" /\ slot[cur] = NoMsg
    BY <1>4 DEF Register, TypeInv, CurBegun, WaitInv, Registered, Slots
  <2>2. UNCHANGED <<cur, op, slot>>
    BY <1>4 DEF Register, ids
  <2>3. \A s \in DOMAIN inflight_commands' :
          inflight_commands'[s] = cur
          \/ (s \in DOMAIN inflight_commands /\ inflight_commands'[s] = inflight_commands[s])
    BY <1>4 DEF Register
  <2>4. QED
    BY <1>1, <1>2, <2>1, <2>2, <2>3 DEF Filed
<1>5. ASSUME NEW l \in Loops, NEW m \in inbox[l], PollAnswer(l, m) \/ PollOrphaned(l, m)
      PROVE  Filed'
  <2>1. /\ m.seq \in DOMAIN inflight_commands /\ Remove(m.seq)
        /\ slot' = slot \/ (slot' = [slot EXCEPT ![cur] = m] /\ inflight_commands[m.seq] = cur)
    BY <1>5 DEF PollAnswer, PollOrphaned
  <2>2. \A s \in DOMAIN inflight_commands' :
          s \in DOMAIN inflight_commands /\ s # m.seq /\ inflight_commands'[s] = inflight_commands[s]
    BY <2>1 DEF Remove
  <2>3. \A s \in DOMAIN inflight_commands' : inflight_commands[s] # inflight_commands[m.seq]
    BY <2>1, <2>2 DEF ReplyInv, EntriesOwned
  <2>4. \A s \in DOMAIN inflight_commands' : slot'[inflight_commands[s]] = slot[inflight_commands[s]]
    BY <1>2, <2>1, <2>2, <2>3 DEF TypeInv, TypeOK
  <2>5. QED
    BY <1>1, <1>2, <2>2, <2>4 DEF Filed
<1>6. QED
  BY <1>3, <1>4, <1>5, NextEntries

(* A call that returns finds the answer it can convert *)
LEMMA NextNoCallPanics ==
  ASSUME AllInv, Slots, NoCallPanics, [Next]_vars
  PROVE  NoCallPanics'
<1> USE DEF AllInv, CallInv, NoCallPanics
<1>1. CASE Receive
  <2>1. PICK c \in Calls : c = cur /\ pc = "wait"
    BY <1>1 DEF Receive, TypeInv, CurBegun
  <2>2. op[c] \in DOMAIN Root
    BY <2>1, MqttAssumption DEF WaitInv, Registered, TypeInv, CurBegun
  <2>3. slot[c] = AnswerTo(c)
    BY <1>1, <2>1 DEF Receive, Slots
  <2>4. Converts(op[c], slot[c])
    BY <2>2, <2>3 DEF Converts, AnswerTo, Root
  <2>5. outcome' = [outcome EXCEPT ![c] = "ok"]
    BY <1>1, <2>1, <2>4 DEF Receive, Return
  <2>6. QED
    BY <2>5 DEF TypeInv, TypeOK
<1>2. ASSUME NEW c \in Calls, NEW o \in Ops, BeginCall(c, o) \/ CallNotStarted(c, o)
      PROVE  NoCallPanics'
  BY <1>2 DEF BeginCall, CallNotStarted, TypeInv, TypeOK
<1>3. CASE Publish \/ PublishFails \/ CancelCall
  BY <1>3 DEF Publish, PublishFails, CancelCall, Return, TypeInv, TypeOK
<1>4. QED
  BY <1>1, <1>2, <1>3, NextGoes DEF Goes

(* OnlyDropsPanic: every unwrap of start, of its task and of the calls that*)
(* wait finds what it expects, but for what the owner dropped.  start() is *)
(* there when its task reports, for the stop flag is down while it waits;  *)
(* an entry of a call that is over, and was not dropped, is of one whose   *)
(* command never left, so that no message is looked up for it.             *)
THEOREM NothingElsePanics ==
  ASSUME Serials = {"plain"}, OnlyOwnAnswers
  PROVE  Spec => []OnlyDropsPanic
<1>1. Init => AllInv /\ PanicInv
  <2> SUFFICES ASSUME Init PROVE AllInv /\ PanicInv
    OBVIOUS
  <2>1. AllInv
    BY InitAllInv
  <2>2. PanicInv
    BY DEF Init, PanicInv, Told, Heard, Caused, Filed, Slots, NoCallPanics
  <2>3. QED
    BY <2>1, <2>2
<1>2. AllInv /\ PanicInv /\ [Next]_vars => (AllInv /\ PanicInv)'
  <2> SUFFICES ASSUME AllInv, PanicInv, [Next]_vars PROVE AllInv' /\ PanicInv'
    OBVIOUS
  <2>1. AllInv'
    BY NextAllInv
  <2>2. serial' = "plain" /\ Told' /\ Heard'
    BY NextTold, NextHeard, SerialKept DEF PanicInv, AllInv
  <2>3. Caused'
    BY NextCaused DEF PanicInv
  <2>4. Filed' /\ Slots' /\ NoCallPanics'
    BY NextFiled, NextSlots, NextNoCallPanics DEF PanicInv
  <2>5. QED
    BY <2>1, <2>2, <2>3, <2>4 DEF PanicInv
<1>3. AllInv /\ PanicInv => OnlyDropsPanic
  <2> SUFFICES ASSUME AllInv, PanicInv PROVE OnlyDropsPanic
    OBVIOUS
  <2>1. ~(pc = "start_wait" /\ connected[client] = "dropped")
    BY DEF PanicInv, Told
  <2>2. ASSUME NEW l \in Loops, phase[l] = "panicked"
        PROVE  (MayCancel /\ connected[l] = "dropped") \/ \E c \in Calls : GivenUp(c)
    BY <2>2 DEF PanicInv, Heard, Caused
  <2>3. QED
    BY <2>1, <2>2 DEF PanicInv, NoCallPanics, OnlyDropsPanic
<1>4. QED
  BY <1>1, <1>2, <1>3, PTL DEF Spec
===============================================================================
