------------------------------ MODULE MjpegServer ------------------------------
(***************************************************************************)
(* The MJPEG server of examples/mjpeg_stream.rs: one task reads frames     *)
(* from the camera, stores the newest under `last_frame` and broadcasts    *)
(* it; every viewer's response body first sends the stored frame and then  *)
(* follows the broadcast channel.                                          *)
(***************************************************************************)
EXTENDS Naturals, Sequences, SequencesExt

CONSTANTS
  Viewers,    \* the connections, each made at most once
  MaxFrames,  \* bound: frames the camera sends
  Buffer,     \* frames the broadcast channel keeps (16)
  Camera      \* the camera task, as a waiter for the lock

ASSUME MjpegAssumption ==
  /\ Camera \notin Viewers
  /\ MaxFrames \in Nat
  /\ Buffer \in Nat \ {0}

(* A frame is its number; this is `None`, older than every frame *)
NoFrame == 0

VARIABLES
  camera,      \* where the camera task is
  frame,       \* the frame it works on, the last one it was sent
  last_frame,  \* the frame under the lock
  readers,     \* the viewers that hold a read guard
  waiters,     \* the lock's queue: tokio serves it in order
  sent,        \* all frames broadcast, oldest first
  phase,       \* per viewer: where its response body is
  next,        \* per viewer: the frame of `sent` its receiver is to read next
  shown,       \* per viewer: the frames it was sent
  stalled      \* per viewer: has it stopped reading from its connection?

cam    == <<camera, frame, last_frame, sent>>
lock   == <<readers, waiters>>
viewer == <<phase, next, shown, stalled>>
vars   == <<cam, lock, viewer>>

TypeOK ==
  /\ camera \in {"connecting", "reading", "storing", "sending", "closed"}
  /\ frame \in 0..MaxFrames
  /\ last_frame \in 0..MaxFrames
  /\ readers \subseteq Viewers
  /\ waiters \in Seq(Viewers \cup {Camera})
  /\ sent \in Seq(1..MaxFrames)
  /\ phase \in [Viewers -> {"away", "subscribed", "locking", "first", "live",
                            "ended", "gone"}]
  /\ next \in [Viewers -> Nat]
  /\ shown \in [Viewers -> Seq(1..MaxFrames)]
  /\ stalled \in [Viewers -> BOOLEAN]

Init ==
  /\ camera = "connecting"
  /\ frame = 0
  /\ last_frame = NoFrame
  /\ readers = {}
  /\ waiters = <<>>
  /\ sent = <<>>
  /\ phase = [v \in Viewers |-> "away"]
  /\ next = [v \in Viewers |-> 0]
  /\ shown = [v \in Viewers |-> <<>>]
  /\ stalled = [v \in Viewers |-> FALSE]

-------------------------------------------------------------------------------
(* The lock: tokio's RwLock is fair, a reader waits behind a writer that   *)
(* waits                                                                   *)

Wait(x) == waiters' = Append(waiters, x)

(* x is next and nobody holds the lock against it; no write guard lives    *)
(* across an await, so only readers can stand in the way of the writer.    *)
MayEnter(x) ==
  /\ waiters # <<>>
  /\ Head(waiters) = x
  /\ x = Camera => readers = {}

(* Mutant of Release: the guard is never dropped                           *)
KeepGuard(v) == UNCHANGED readers

(* The read guard is dropped *)
Release(v) == readers' = readers \ {v}

-------------------------------------------------------------------------------
(* The camera task                                                         *)

Connect ==
  /\ camera = "connecting"
  /\ camera' \in {"reading", "closed"}
  /\ UNCHANGED <<frame, last_frame, sent, lock, viewer>>

(* A frame whose header is read waits for the write lock *)
ReadFrame ==
  /\ camera = "reading"
  /\ frame < MaxFrames
  /\ frame' = frame + 1
  /\ camera' = "storing"
  /\ Wait(Camera)
  /\ UNCHANGED <<last_frame, sent, readers, viewer>>

(* ... one that has no JPEG header is skipped *)
SkipFrame ==
  /\ camera = "reading"
  /\ frame < MaxFrames
  /\ frame' = frame + 1
  /\ UNCHANGED <<camera, last_frame, sent, lock, viewer>>

StoreFrame ==
  /\ camera = "storing"
  /\ MayEnter(Camera)
  /\ waiters' = Tail(waiters)
  /\ last_frame' = frame
  /\ camera' = "sending"
  /\ UNCHANGED <<frame, sent, readers, viewer>>

(* broadcast::Sender::send never waits; main keeps a receiver of its own,  *)
(* so it never fails either.                                               *)
SendFrame ==
  /\ camera = "sending"
  /\ sent' = Append(sent, frame)
  /\ camera' = "reading"
  /\ UNCHANGED <<frame, last_frame, lock, viewer>>

(* The stream ends; an error is printed and ends it too *)
CameraCloses ==
  /\ camera = "reading"
  /\ camera' = "closed"
  /\ UNCHANGED <<frame, last_frame, sent, lock, viewer>>

-------------------------------------------------------------------------------
(* A viewer: the handler, then the body it returned                        *)

(* mjpeg_live_stream: the receiver sees what is sent from now on *)
Subscribe(v) ==
  /\ phase[v] = "away"
  /\ next' = [next EXCEPT ![v] = Len(sent) + 1]
  /\ phase' = [phase EXCEPT ![v] = "subscribed"]
  /\ UNCHANGED <<cam, lock, shown, stalled>>

(* The body is polled for the first time: state.last_frame.read() *)
FirstPoll(v) ==
  /\ phase[v] = "subscribed"
  /\ Wait(v)
  /\ phase' = [phase EXCEPT ![v] = "locking"]
  /\ UNCHANGED <<cam, readers, next, shown, stalled>>

(* Mutant of FirstFrame: the stored frame is sent before there is one      *)
FirstFrameAlways(v) ==
  /\ phase[v] = "locking"
  /\ MayEnter(v)
  /\ waiters' = Tail(waiters)
  /\ phase' = [phase EXCEPT ![v] = "first"]
  /\ readers' = readers \cup {v}
  /\ shown' = [shown EXCEPT ![v] = Append(@, last_frame)]
  /\ UNCHANGED <<cam, next, stalled>>

(* Mutant of FirstFrame: the stored frame is never sent                    *)
FirstFrameNever(v) ==
  /\ phase[v] = "locking"
  /\ MayEnter(v)
  /\ waiters' = Tail(waiters)
  /\ phase' = [phase EXCEPT ![v] = "live"]
  /\ UNCHANGED <<cam, readers, next, shown, stalled>>

(* The stored frame is yielded; its guard lives until the last of the      *)
(* frame's three parts was taken.                                          *)
FirstFrame(v) ==
  /\ phase[v] = "locking"
  /\ MayEnter(v)
  /\ waiters' = Tail(waiters)
  /\ IF last_frame = NoFrame
     THEN /\ phase' = [phase EXCEPT ![v] = "live"]
          /\ UNCHANGED <<readers, shown>>
     ELSE /\ phase' = [phase EXCEPT ![v] = "first"]
          /\ readers' = readers \cup {v}
          /\ shown' = [shown EXCEPT ![v] = Append(@, last_frame)]
  /\ UNCHANGED <<cam, next, stalled>>

(* hyper takes the three parts as long as they fit in what it buffers for  *)
(* a connection, whether the viewer reads or not.                          *)
FirstFrameDone(v) ==
  /\ phase[v] = "first"
  /\ Release(v)
  /\ phase' = [phase EXCEPT ![v] = "live"]
  /\ UNCHANGED <<cam, waiters, next, shown, stalled>>

(* The frame the receiver is to read was overwritten *)
Lagged(v) == next[v] + Buffer <= Len(sent)

(* rx.recv(): a frame ... *)
Recv(v) ==
  /\ phase[v] = "live" /\ ~stalled[v]
  /\ next[v] <= Len(sent) /\ ~Lagged(v)
  /\ shown' = [shown EXCEPT ![v] = Append(@, sent[next[v]])]
  /\ next' = [next EXCEPT ![v] = @ + 1]
  /\ UNCHANGED <<cam, lock, phase, stalled>>

(* Mutant of RecvLagged: the body goes on with the oldest frame there is   *)
LagSkips(v) ==
  /\ phase[v] = "live" /\ ~stalled[v]
  /\ Lagged(v)
  /\ next' = [next EXCEPT ![v] = Len(sent) - Buffer + 1]
  /\ UNCHANGED <<cam, lock, phase, shown, stalled>>

(* ... or RecvError::Lagged, which ends the stream.  It never is closed:   *)
(* the state of the server keeps a sender.                                 *)
RecvLagged(v) ==
  /\ phase[v] = "live" /\ ~stalled[v]
  /\ Lagged(v)
  /\ phase' = [phase EXCEPT ![v] = "ended"]
  /\ UNCHANGED <<cam, lock, next, shown, stalled>>

(* The connection stops to take data, or takes it again *)
Stall(v) ==
  /\ phase[v] \in {"locking", "first", "live"}
  /\ stalled' = [stalled EXCEPT ![v] = ~@]
  /\ UNCHANGED <<cam, lock, phase, next, shown>>

(* A dropped waiter leaves the queue, wherever it stands in it *)
Forget(v) ==
  IF phase[v] = "locking"
  THEN \E i \in DOMAIN waiters : waiters[i] = v /\ waiters' = RemoveAt(waiters, i)
  ELSE UNCHANGED waiters

(* The connection is closed and the body dropped, wherever it is *)
Leave(v) ==
  /\ phase[v] \in {"subscribed", "locking", "first", "live"}
  /\ phase' = [phase EXCEPT ![v] = "gone"]
  /\ Release(v)
  /\ Forget(v)
  /\ UNCHANGED <<cam, next, shown, stalled>>

-------------------------------------------------------------------------------
CameraTask ==
  Connect \/ ReadFrame \/ SkipFrame \/ StoreFrame \/ SendFrame \/ CameraCloses

Body(v) ==
  FirstPoll(v) \/ FirstFrame(v) \/ FirstFrameDone(v) \/ Recv(v) \/ RecvLagged(v)

Next ==
  \/ CameraTask
  \/ \E v \in Viewers : Subscribe(v) \/ Body(v) \/ Stall(v) \/ Leave(v)

Spec == Init /\ [][Next]_vars

(* The runtime polls a task that can go on.  Nothing makes the camera send *)
(* a frame, or a viewer connect, read or leave.                            *)
FairSpec ==
  /\ Spec
  /\ WF_vars(StoreFrame) /\ WF_vars(SendFrame)
  /\ \A v \in Viewers : WF_vars(Body(v))

-------------------------------------------------------------------------------
(* Properties                                                              *)

(* What a viewer is shown leaves out no broadcast frame between its first  *)
(* frame and its last: the handler subscribes before the body reads the    *)
(* stored frame, the camera task stores a frame before it sends it, and a  *)
(* receiver that fell behind ends the stream.  From its second frame on    *)
(* the frames get newer and newer; only the stored one it begins with may  *)
(* be shown again, or be newer than what was queued since it subscribed.   *)
FramesFollow ==
  \A v \in Viewers : \A i \in 1..(Len(shown[v]) - 1) :
    /\ \A k \in DOMAIN sent :
         ~(shown[v][i] < sent[k] /\ sent[k] < shown[v][i + 1])
    /\ i >= 2 => shown[v][i] < shown[v][i + 1]

(* No viewer, slow, stalled or gone, keeps the camera task from storing    *)
(* and sending a frame.                                                    *)
CameraServed == camera \in {"storing", "sending"} ~> camera = "reading"

(* A response body gets past the lock: the camera's writes and the other   *)
(* viewers, those that left while they waited included, let it through.    *)
StreamStarts ==
  \A v \in Viewers :
    phase[v] \in {"subscribed", "locking"} ~> phase[v] \in {"first", "live", "gone"}

(* When the camera is gone a viewer is left with its newest frame,         *)
(* whether it came before, in between or after: the stored frame and the   *)
(* channel, which AppState keeps open (mjpeg_stream.rs:134), leave no gap  *)
(* between them.  A viewer that stops to read, leaves or falls behind is   *)
(* not owed it.                                                            *)
Watches(v) == phase[v] \in {"subscribed", "locking", "first", "live"} /\ ~stalled[v]

NewestFrameShown ==
  \A v \in Viewers :
    camera = "closed" /\ last_frame # NoFrame /\ Watches(v) ~>
      \/ ~Watches(v)
      \/ shown[v] # <<>> /\ shown[v][Len(shown[v])] = last_frame
===============================================================================
