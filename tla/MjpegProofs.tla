------------------------------- MODULE MjpegProofs -------------------------------
(***************************************************************************)
(* What TLAPS proves of MjpegServer, for every set of viewers, every number*)
(* of frames and every size of the broadcast channel.                      *)
(***************************************************************************)
EXTENDS MjpegServer, SeqLemmas

(* The camera task stores a frame before it sends it, and sends each one    *)
(* once: what was sent gets newer, and only while it is between the two     *)
(* steps is the stored frame not the last one sent.                         *)
Newest == IF sent = <<>> THEN NoFrame ELSE sent[Len(sent)]

StoredThenSent ==
  /\ \A i, j \in DOMAIN sent : i < j => sent[i] < sent[j]
  /\ \A i \in DOMAIN sent : sent[i] <= last_frame
  /\ last_frame <= frame
  /\ camera = "storing" => last_frame < frame
  /\ camera = "sending" =>
       frame > 0 /\ last_frame = frame /\ \A i \in DOMAIN sent : sent[i] < frame
  /\ camera # "sending" => last_frame = Newest

(* Nothing that a viewer has still to receive is older than what it was     *)
(* shown last; from its second frame on that is the one it received last.   *)
Received(v) ==
  /\ phase[v] = "away" => next[v] = 0
  /\ phase[v] # "away" => next[v] \in 1..(Len(sent) + 1)
  /\ phase[v] \in {"away", "subscribed", "locking"} => shown[v] = <<>>
  /\ \A i \in DOMAIN shown[v] : shown[v][i] <= last_frame
  /\ shown[v] # <<>> =>
       \A k \in DOMAIN sent : k < next[v] => sent[k] <= shown[v][Len(shown[v])]
  /\ Len(shown[v]) >= 2 =>
       next[v] >= 2 /\ shown[v][Len(shown[v])] = sent[next[v] - 1]

ViewInv == TypeOK /\ StoredThenSent /\ (\A v \in Viewers : Received(v)) /\ FramesFollow

-------------------------------------------------------------------------------
(* The types of the initial state *)
LEMMA InitTypeOK == Init => TypeOK
BY MjpegAssumption DEF Init, TypeOK, NoFrame

(* Every step keeps the types *)
LEMMA NextTypeOK == ViewInv /\ [Next]_vars => TypeOK'
<1> SUFFICES ASSUME ViewInv, [Next]_vars PROVE TypeOK'
  OBVIOUS
<1> USE MjpegAssumption DEF TypeOK, ViewInv, cam, lock, viewer
<1> DEFINE W == Viewers \cup {Camera}
<1>1. CASE Connect
  BY <1>1 DEF Connect
<1>2. CASE ReadFrame
  <2>1. waiters' \in Seq(W)
    BY <1>2 DEF ReadFrame, Wait
  <2>2. QED
    BY <1>2, <2>1 DEF ReadFrame
<1>3. CASE SkipFrame
  BY <1>3 DEF SkipFrame
<1>4. CASE StoreFrame
  <2>1. waiters' \in Seq(W)
    BY <1>4 DEF StoreFrame, MayEnter
  <2>2. QED
    BY <1>4, <2>1 DEF StoreFrame
<1>5. CASE SendFrame
  <2>1. frame \in 1..MaxFrames
    <3>1. frame = last_frame /\ \A i \in DOMAIN sent : sent[i] < frame
      BY <1>5 DEF SendFrame, StoredThenSent
    <3>2. frame # 0
      BY <1>5 DEF SendFrame, StoredThenSent
    <3>3. QED
      BY <3>2
  <2>2. sent' \in Seq(1..MaxFrames)
    BY <1>5, <2>1 DEF SendFrame
  <2>3. QED
    BY <1>5, <2>2 DEF SendFrame
<1>6. CASE CameraCloses
  BY <1>6 DEF CameraCloses
<1>7. ASSUME NEW v \in Viewers, Subscribe(v) PROVE TypeOK'
  BY <1>7 DEF Subscribe
<1>8. ASSUME NEW v \in Viewers, FirstPoll(v) PROVE TypeOK'
  <2>1. waiters' \in Seq(W)
    BY <1>8 DEF FirstPoll, Wait
  <2>2. QED
    BY <1>8, <2>1 DEF FirstPoll
<1>9. ASSUME NEW v \in Viewers, FirstFrame(v) PROVE TypeOK'
  <2>1. waiters' \in Seq(W)
    BY <1>9 DEF FirstFrame, MayEnter
  <2>2. shown' \in [Viewers -> Seq(1..MaxFrames)]
    <3>1. CASE last_frame = NoFrame
      BY <1>9, <3>1 DEF FirstFrame
    <3>2. CASE last_frame # NoFrame
      <4>1. last_frame \in 1..MaxFrames
        BY <3>2 DEF NoFrame
      <4>2. Append(shown[v], last_frame) \in Seq(1..MaxFrames)
        BY <4>1
      <4>3. QED
        BY <1>9, <3>2, <4>2 DEF FirstFrame
    <3>3. QED
      BY <3>1, <3>2
  <2>3. QED
    BY <1>9, <2>1, <2>2 DEF FirstFrame
<1>10. ASSUME NEW v \in Viewers, FirstFrameDone(v) PROVE TypeOK'
  BY <1>10 DEF FirstFrameDone, Release
<1>11. ASSUME NEW v \in Viewers, Recv(v) PROVE TypeOK'
  <2>1. next[v] >= 1
    BY <1>11 DEF Recv, Received
  <2>2. sent[next[v]] \in 1..MaxFrames
    BY <1>11, <2>1 DEF Recv
  <2>3. shown' \in [Viewers -> Seq(1..MaxFrames)]
    BY <1>11, <2>2 DEF Recv
  <2>4. QED
    BY SMTT(30), <1>11, <2>3 DEF Recv
<1>12. ASSUME NEW v \in Viewers, RecvLagged(v) PROVE TypeOK'
  BY <1>12 DEF RecvLagged
<1>13. ASSUME NEW v \in Viewers, Stall(v) PROVE TypeOK'
  BY <1>13 DEF Stall
<1>14. ASSUME NEW v \in Viewers, Leave(v) PROVE TypeOK'
  <2>1. waiters' \in Seq(W)
    BY <1>14, RemoveAtFacts DEF Leave, Forget
  <2>2. QED
    BY <1>14, <2>1 DEF Leave, Release
<1>15. CASE UNCHANGED vars
  BY <1>15 DEF vars
<1>16. QED
  BY <1>1, <1>2, <1>3, <1>4, <1>5, <1>6, <1>7, <1>8, <1>9, <1>10, <1>11, <1>12,
     <1>13, <1>14, <1>15 DEF Next, CameraTask, Body

(* The camera task stores a frame before it sends it *)
LEMMA NextStoredThenSent == ViewInv /\ [Next]_vars => StoredThenSent'
<1> SUFFICES ASSUME ViewInv, [Next]_vars PROVE StoredThenSent'
  OBVIOUS
<1> USE DEF ViewInv, TypeOK, StoredThenSent, Newest, cam, lock, viewer
<1>0. \A i \in DOMAIN sent : sent[i] \in Nat
  <2>1. \A i \in 1..Len(sent) : sent[i] \in 1..MaxFrames
    BY ElementOfSeq
  <2>2. QED
    BY <2>1, MjpegAssumption
<1>1. CASE Connect
  BY <1>1 DEF Connect
<1>2. CASE ReadFrame
  BY <1>2 DEF ReadFrame
<1>3. CASE SkipFrame
  BY <1>3 DEF SkipFrame
<1>4. CASE StoreFrame
  BY <1>0, <1>4 DEF StoreFrame
<1>5. CASE SendFrame
  <2> DEFINE n == Len(sent)
  <2>0. n \in Nat /\ DOMAIN sent = 1..n /\ frame > 0 /\ frame \in Nat
    BY <1>5 DEF SendFrame
  <2>1. /\ DOMAIN sent' = 1..(n + 1)
        /\ Len(sent') = n + 1
        /\ \A i \in 1..n : sent'[i] = sent[i]
        /\ sent'[n + 1] = frame
    BY <1>5 DEF SendFrame
  <2>2. \A i \in 1..n : sent'[i] < frame
    BY <1>5, <2>1 DEF SendFrame
  <2>3. \A i, j \in 1..n : i < j => sent'[i] < sent'[j]
    BY <2>0, <2>1
  <2>4. last_frame' = frame /\ frame' = frame /\ camera' = "reading"
    BY <1>5 DEF SendFrame
  <2>5. sent' # <<>>
    BY <1>5 DEF SendFrame
  <2> HIDE DEF n
  <2>6. \A i, j \in DOMAIN sent' : i < j => sent'[i] < sent'[j]
    BY <2>0, <2>1, <2>2, <2>3
  <2>7. \A i \in DOMAIN sent' : sent'[i] <= frame
    <3>1. \A i \in 1..n : sent'[i] \in Nat
      BY <1>0, <2>0, <2>1
    <3>2. QED
      BY <2>0, <2>1, <2>2, <3>1
  <2>8. QED
    BY <2>0, <2>1, <2>4, <2>5, <2>6, <2>7
<1>6. CASE CameraCloses
  BY <1>6 DEF CameraCloses
<1>7. CASE UNCHANGED cam
  BY <1>7
<1>8. ASSUME NEW v \in Viewers, Subscribe(v) \/ Body(v) \/ Stall(v) \/ Leave(v)
      PROVE  UNCHANGED cam
  BY <1>8 DEF Subscribe, Body, FirstPoll, FirstFrame, FirstFrameDone, Recv,
     RecvLagged, Stall, Leave
<1>9. QED
  BY <1>1, <1>2, <1>3, <1>4, <1>5, <1>6, <1>7, <1>8 DEF Next, CameraTask, vars

(* The frames sent so far stay, and stay at their places *)
LEMMA SentGrows ==
  ASSUME ViewInv, [Next]_vars
  PROVE  /\ Len(sent) <= Len(sent')
         /\ \A k \in 1..Len(sent) : sent'[k] = sent[k]
         /\ last_frame <= last_frame'
         /\ \A k \in DOMAIN sent' : k \notin DOMAIN sent =>
              k = Len(sent) + 1 /\ sent'[k] = last_frame
<1> USE DEF ViewInv, TypeOK, StoredThenSent, cam
<1>1. CASE SendFrame
  BY <1>1 DEF SendFrame
<1>2. CASE StoreFrame
  BY <1>2 DEF StoreFrame
<1>3. CASE UNCHANGED <<sent, last_frame>>
  BY <1>3
<1>4. ASSUME NEW v \in Viewers, Subscribe(v) \/ Body(v) \/ Stall(v) \/ Leave(v)
      PROVE  UNCHANGED <<sent, last_frame>>
  BY <1>4 DEF Subscribe, Body, FirstPoll, FirstFrame, FirstFrameDone, Recv,
     RecvLagged, Stall, Leave
<1>5. QED
  BY <1>1, <1>2, <1>3, <1>4 DEF Next, CameraTask, vars, Connect, ReadFrame,
     SkipFrame, CameraCloses

(* Only two steps, of its own, show a viewer a frame: the stored one, or    *)
(* the one its receiver is at.                                              *)
Keeps(v) ==
  /\ shown'[v] = shown[v] /\ next'[v] = next[v]
  /\ phase'[v] = "away" <=> phase[v] = "away"
  /\ phase'[v] \in {"subscribed", "locking"} => phase[v] \in {"subscribed", "locking"}

ShowsStored(v) ==
  /\ phase[v] = "locking" /\ phase'[v] = "first"
  /\ shown'[v] = Append(shown[v], last_frame) /\ last_frame # NoFrame
  /\ next'[v] = next[v]
  /\ UNCHANGED <<sent, last_frame>>

Subscribes(v) ==
  /\ phase[v] = "away" /\ phase'[v] = "subscribed"
  /\ shown'[v] = shown[v] /\ next'[v] = Len(sent) + 1
  /\ UNCHANGED <<sent, last_frame>>

(* What a step does to one viewer *)
LEMMA ViewerStep ==
  ASSUME ViewInv, [Next]_vars, NEW v \in Viewers
  PROVE  Keeps(v) \/ ShowsStored(v) \/ Subscribes(v) \/ Recv(v)
<1> USE DEF ViewInv, TypeOK, cam, lock, viewer
<1>1. CASE CameraTask \/ UNCHANGED vars
  <2>1. UNCHANGED viewer
    BY <1>1 DEF CameraTask, vars, Connect, ReadFrame, SkipFrame, StoreFrame, SendFrame,
       CameraCloses
  <2>2. QED
    BY <2>1 DEF Keeps
<1>2. ASSUME NEW w \in Viewers, Subscribe(w)
      PROVE  Keeps(v) \/ Subscribes(v)
  BY <1>2 DEF Subscribe, Keeps, Subscribes
<1>3. ASSUME NEW w \in Viewers, FirstPoll(w) \/ FirstFrameDone(w) \/ RecvLagged(w) \/ Stall(w) \/ Leave(w)
      PROVE  Keeps(v)
  BY <1>3 DEF FirstPoll, FirstFrameDone, RecvLagged, Stall, Leave, Keeps
<1>4. ASSUME NEW w \in Viewers, FirstFrame(w)
      PROVE  Keeps(v) \/ ShowsStored(v)
  BY <1>4 DEF FirstFrame, Keeps, ShowsStored
<1>5. ASSUME NEW w \in Viewers, Recv(w)
      PROVE  Keeps(v) \/ Recv(v)
  BY <1>5 DEF Recv, Keeps
<1>6. QED
  BY <1>1, <1>2, <1>3, <1>4, <1>5 DEF Next, Body
(* What the order of the frames is stated about are numbers                *)
LEMMA FrameNumbers ==
  ASSUME TypeOK
  PROVE  /\ Len(sent) \in Nat /\ DOMAIN sent = 1..Len(sent)
         /\ \A k \in 1..Len(sent) : sent[k] \in Nat
         /\ last_frame \in Nat
         /\ \A v \in Viewers :
              /\ next[v] \in Nat
              /\ Len(shown[v]) \in Nat /\ DOMAIN shown[v] = 1..Len(shown[v])
              /\ \A i \in 1..Len(shown[v]) : shown[v][i] \in Nat
<1> USE DEF TypeOK
<1>1. \A k \in 1..Len(sent) : sent[k] \in 1..MaxFrames
  BY ElementOfSeq
<1>2. \A v \in Viewers : shown[v] \in Seq(1..MaxFrames)
  OBVIOUS
<1>3. \A v \in Viewers : \A i \in 1..Len(shown[v]) : shown[v][i] \in 1..MaxFrames
  BY <1>2, ElementOfSeq
<1>4. QED
  BY <1>1, <1>2, <1>3, MjpegAssumption

(* A viewer goes on where it stopped *)
LEMMA NextReceived ==
  ASSUME ViewInv, [Next]_vars, TypeOK', NEW v \in Viewers
  PROVE  Received(v)'
<1> DEFINE n == Len(shown[v])
<1>1. /\ Len(sent) <= Len(sent')
      /\ \A k \in 1..Len(sent) : sent'[k] = sent[k]
      /\ last_frame <= last_frame'
  BY SentGrows
<1>2. /\ Len(sent) \in Nat /\ DOMAIN sent = 1..Len(sent)
      /\ Len(sent') \in Nat /\ DOMAIN sent' = 1..Len(sent')
      /\ \A k \in 1..Len(sent) : sent[k] \in Nat
      /\ last_frame \in Nat /\ last_frame' \in Nat
      /\ next[v] \in Nat /\ n \in Nat /\ DOMAIN shown[v] = 1..n
      /\ \A i \in 1..n : shown[v][i] \in Nat
  BY SMTT(30), FrameNumbers, <1>1 DEF TypeOK, ViewInv
<1>3. Received(v) /\ shown[v] \in Seq(1..MaxFrames)
  BY DEF ViewInv, TypeOK
<1>4. \A i \in 1..n : shown[v][i] <= last_frame
  BY <1>2, <1>3 DEF Received
<1>5. \A k \in 1..Len(sent) : sent[k] <= last_frame
  BY <1>2 DEF ViewInv, StoredThenSent
<1>6. CASE Keeps(v)
  <2>1. \A i \in 1..n : shown'[v][i] <= last_frame'
    BY <1>1, <1>2, <1>4, <1>6 DEF Keeps
  <2>2. phase'[v] \in {"away", "subscribed", "locking"} => shown'[v] = <<>>
    BY <1>3, <1>6 DEF Keeps, Received
  <2>3. /\ phase'[v] = "away" => next'[v] = 0
        /\ phase'[v] # "away" => next'[v] \in 1..(Len(sent') + 1)
    BY <1>1, <1>2, <1>3, <1>6 DEF Keeps, Received
  <2>4. next'[v] <= Len(sent) + 1
    BY <1>2, <1>3, <1>6 DEF Keeps, Received
  <2>5. shown'[v] # <<>> =>
          \A k \in DOMAIN sent' : k < next'[v] => sent'[k] <= shown'[v][Len(shown'[v])]
    <3>1. \A k \in DOMAIN sent' : k < next'[v] => k \in 1..Len(sent)
      BY <1>2, <2>4, <1>6 DEF Keeps
    <3>2. QED
      BY <1>1, <1>2, <1>3, <1>6, <3>1 DEF Keeps, Received
  <2>6. Len(shown'[v]) >= 2 => next'[v] >= 2 /\ shown'[v][Len(shown'[v])] = sent'[next'[v] - 1]
    BY <1>1, <1>2, <1>3, <1>6, <2>4 DEF Keeps, Received
  <2>7. QED
    BY <2>1, <2>2, <2>3, <2>5, <2>6, <1>2, <1>6 DEF Keeps, Received
<1>7. CASE ShowsStored(v)
  <2>1. shown[v] = <<>> /\ n = 0
    BY <1>3, <1>7 DEF ShowsStored, Received
  <2>2. Len(shown'[v]) = 1 /\ DOMAIN shown'[v] = 1..1 /\ shown'[v][1] = last_frame
    BY <1>7, <2>1 DEF ShowsStored
  <2>3. next'[v] \in 1..(Len(sent') + 1)
    BY <1>2, <1>3, <1>7 DEF ShowsStored, Received
  <2>4. QED
    BY <1>2, <1>5, <1>7, <2>2, <2>3 DEF ShowsStored, Received
<1>8. CASE Subscribes(v)
  <2>1. shown'[v] = <<>> /\ Len(shown'[v]) = 0 /\ DOMAIN shown'[v] = {}
    BY <1>3, <1>8 DEF Subscribes, Received
  <2>2. QED
    BY <1>2, <1>8, <2>1 DEF Subscribes, Received
<1>9. CASE Recv(v)
  <2>1. next[v] \in 1..Len(sent)
    BY <1>2, <1>3, <1>9 DEF Recv, Received
  <2>2. /\ next'[v] = next[v] + 1 /\ phase'[v] = "live"
        /\ sent' = sent /\ last_frame' = last_frame
        /\ shown'[v] = Append(shown[v], sent[next[v]])
    BY <1>9 DEF Recv, TypeOK, ViewInv, cam
  <2>3. sent[next[v]] \in 1..MaxFrames
    BY <2>1, ElementOfSeq DEF ViewInv, TypeOK
  <2>4. /\ Len(shown'[v]) = n + 1 /\ DOMAIN shown'[v] = 1..(n + 1)
        /\ \A i \in 1..n : shown'[v][i] = shown[v][i]
        /\ shown'[v][n + 1] = sent[next[v]]
    BY <1>3, <2>2, <2>3, AppendFacts
  <2> HIDE DEF n
  <2>5. \A i \in 1..(n + 1) : shown'[v][i] <= last_frame
    <3>1. n \in Nat /\ \A i \in 1..n : shown[v][i] <= last_frame
      BY <1>2, <1>4 DEF n
    <3>2. sent[next[v]] <= last_frame
      BY <1>5, <2>1
    <3>3. QED
      BY <2>4, <3>1, <3>2
  <2>6. \A k \in 1..Len(sent) : k < next[v] + 1 => sent[k] <= sent[next[v]]
    <3>1. \A k \in 1..Len(sent) : k < next[v] => sent[k] < sent[next[v]]
      BY <1>2, <2>1 DEF ViewInv, StoredThenSent
    <3>2. \A k \in 1..Len(sent) : sent[k] \in Nat
      BY <1>2
    <3>3. QED
      BY <2>1, <3>1, <3>2
  <2>7. QED
    BY SMTT(30), <1>2, <2>1, <2>2, <2>4, <2>5, <2>6 DEF Received
<1>10. QED
  BY <1>6, <1>7, <1>8, <1>9, ViewerStep

(* What a viewer is shown next follows *)
LEMMA NextFramesFollow ==
  ASSUME ViewInv, [Next]_vars, TypeOK'
  PROVE  FramesFollow'
<1> SUFFICES ASSUME NEW v \in Viewers, NEW i \in 1..(Len(shown'[v]) - 1)
             PROVE  /\ \A k \in DOMAIN sent' :
                         ~(shown'[v][i] < sent'[k] /\ sent'[k] < shown'[v][i + 1])
                    /\ i >= 2 => shown'[v][i] < shown'[v][i + 1]
  BY DEF FramesFollow
<1> DEFINE n == Len(shown[v])
<1>1. /\ Len(sent) <= Len(sent')
      /\ \A k \in 1..Len(sent) : sent'[k] = sent[k]
      /\ \A k \in DOMAIN sent' : k \notin DOMAIN sent =>
              k = Len(sent) + 1 /\ sent'[k] = last_frame
  BY SentGrows
<1>2. /\ Len(sent) \in Nat /\ DOMAIN sent = 1..Len(sent)
      /\ Len(sent') \in Nat /\ DOMAIN sent' = 1..Len(sent')
      /\ \A k \in 1..Len(sent) : sent[k] \in Nat
      /\ last_frame \in Nat
      /\ next[v] \in Nat /\ n \in Nat /\ DOMAIN shown[v] = 1..n
      /\ \A j \in 1..n : shown[v][j] \in Nat
  BY SMTT(30), FrameNumbers, <1>1 DEF TypeOK, ViewInv
<1>3. Received(v) /\ shown[v] \in Seq(1..MaxFrames)
  BY DEF ViewInv, TypeOK
<1>4. \A j \in 1..n : shown[v][j] <= last_frame
  BY <1>2, <1>3 DEF Received
<1>5. \A j \in 1..(n - 1) :
        /\ \A k \in 1..Len(sent) : ~(shown[v][j] < sent[k] /\ sent[k] < shown[v][j + 1])
        /\ j >= 2 => shown[v][j] < shown[v][j + 1]
  BY <1>2 DEF ViewInv, FramesFollow
<1>6. CASE shown'[v] = shown[v]
  <2>1. i \in 1..(n - 1)
    BY <1>6
  <2>2. ASSUME NEW k \in DOMAIN sent'
        PROVE  ~(shown[v][i] < sent'[k] /\ sent'[k] < shown[v][i + 1])
    <3>1. CASE k \in 1..Len(sent)
      BY <1>1, <1>5, <2>1, <3>1
    <3>2. CASE k \notin 1..Len(sent)
      BY <1>1, <1>2, <1>4, <2>1, <3>2
    <3>3. QED
      BY <3>1, <3>2
  <2>3. QED
    BY <1>5, <1>6, <2>1, <2>2
<1>7. CASE ShowsStored(v)
  <2>1. shown[v] = <<>>
    BY <1>3, <1>7 DEF ShowsStored, Received
  <2>2. Len(shown'[v]) = 1
    BY <1>7, <2>1 DEF ShowsStored
  <2>3. QED
    BY <2>2
<1>8. CASE Recv(v)
  <2>1. next[v] \in 1..Len(sent)
    BY <1>2, <1>3, <1>8 DEF Recv, Received
  <2>2. sent' = sent /\ shown'[v] = Append(shown[v], sent[next[v]])
    BY <1>8 DEF Recv, TypeOK, ViewInv, cam
  <2>3. sent[next[v]] \in 1..MaxFrames
    BY <2>1, ElementOfSeq DEF ViewInv, TypeOK
  <2>4. /\ Len(shown'[v]) = n + 1
        /\ \A j \in 1..n : shown'[v][j] = shown[v][j]
        /\ shown'[v][n + 1] = sent[next[v]]
    BY <1>3, <2>2, <2>3, AppendFacts
  <2>5. CASE i < n
    BY <1>2, <1>5, <2>2, <2>4, <2>5
  <2>6. CASE i = n
    <3>1. shown[v] # <<>>
      BY <2>6
    <3>2. \A k \in 1..Len(sent) : k < next[v] => sent[k] <= shown[v][n]
      BY <1>2, <1>3, <3>1 DEF Received
    <3>3. \A k \in 1..Len(sent) : next[v] <= k => sent[next[v]] <= sent[k]
      <4>1. \A k \in 1..Len(sent) : next[v] < k => sent[next[v]] < sent[k]
        BY <1>2, <2>1 DEF ViewInv, StoredThenSent
      <4>2. \A k \in 1..Len(sent) : sent[k] \in Nat
        BY <1>2
      <4>3. QED
        BY <2>1, <4>1, <4>2
    <3>4. n >= 2 => shown[v][n] < sent[next[v]]
      <4>1. n >= 2 => next[v] >= 2 /\ shown[v][n] = sent[next[v] - 1]
        BY <1>3 DEF Received
      <4>2. next[v] >= 2 => sent[next[v] - 1] < sent[next[v]]
        BY <1>2, <2>1 DEF ViewInv, StoredThenSent
      <4>3. QED
        BY <4>1, <4>2
    <3>5. shown[v][n] \in Nat /\ n \in 1..n
      BY <1>2, <2>6
    <3>6. ASSUME NEW k \in 1..Len(sent)
          PROVE  ~(shown[v][n] < sent[k] /\ sent[k] < sent[next[v]])
      <4>1. sent[k] \in Nat /\ sent[next[v]] \in Nat /\ k \in Nat /\ next[v] \in Nat
        BY <1>2, <2>1
      <4>2. k < next[v] \/ next[v] <= k
        BY <4>1
      <4> HIDE DEF n
      <4>3. QED
        BY <3>2, <3>3, <3>5, <4>1, <4>2
    <3> HIDE DEF n
    <3>7. QED
      BY <1>2, <2>2, <2>4, <2>6, <3>4, <3>5, <3>6
  <2>7. QED
    BY <1>2, <2>4, <2>5, <2>6
<1>9. QED
  BY <1>6, <1>7, <1>8, ViewerStep DEF Keeps, Subscribes

(* ViewInv holds in every state *)
LEMMA ViewInvariant == Spec => []ViewInv
<1>1. Init => ViewInv
  <2> SUFFICES ASSUME Init PROVE ViewInv
    OBVIOUS
  <2>1. TypeOK
    BY InitTypeOK
  <2>2. StoredThenSent /\ FramesFollow /\ \A v \in Viewers : Received(v)
    BY DEF Init, StoredThenSent, Newest, Received, FramesFollow, NoFrame
  <2>3. QED
    BY <2>1, <2>2 DEF ViewInv
<1>2. ViewInv /\ [Next]_vars => ViewInv'
  BY NextTypeOK, NextStoredThenSent, NextReceived, NextFramesFollow DEF ViewInv
<1>3. QED
  BY <1>1, <1>2, PTL DEF Spec

(* Every variable of the server keeps to its values: a receiver never reads *)
(* past what was sent, and only numbered frames are shown.                  *)
THEOREM TypeCorrect == Spec => []TypeOK
<1>1. ViewInv => TypeOK
  BY DEF ViewInv
<1>2. QED
  BY <1>1, ViewInvariant, PTL

(* No viewer misses a frame between the first one it is shown and the last, *)
(* and none is shown frames in the wrong order, whatever the order of the   *)
(* camera's steps and the viewers': examples/mjpeg_stream.rs subscribes     *)
(* before it reads the stored frame, and stores before it broadcasts.       *)
THEOREM NoFrameMissed == Spec => []FramesFollow
<1>1. ViewInv => FramesFollow
  BY DEF ViewInv
<1>2. QED
  BY <1>1, ViewInvariant, PTL
===============================================================================
