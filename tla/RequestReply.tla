----------------------------- MODULE RequestReply -----------------------------
(***************************************************************************)
(* What the request half of MqttClient promises its owner (src/mqtt.rs:    *)
(* send_raw_command and send_raw_command_and_wait): one call at a time, a  *)
(* command sent at most once, and a result only if the printer answered    *)
(* this very command.  Commands and answers may be lost at any time.       *)
(***************************************************************************)
CONSTANT Calls

VARIABLES
  status,    \* per call
  commands,  \* calls whose command is on its way to the printer
  answers    \* calls whose answer is on its way back

vars == <<status, commands, answers>>

Init ==
  /\ status = [c \in Calls |-> "new"]
  /\ commands = {} /\ answers = {}

Becomes(c, s) == status' = [status EXCEPT ![c] = s]

Open(c) ==
  /\ status[c] = "new"
  /\ \A d \in Calls : status[d] \notin {"open", "asked"}
  /\ Becomes(c, "open")
  /\ UNCHANGED <<commands, answers>>

(* The command leaves; a call that wants no answer is over *)
Send(c) ==
  /\ status[c] = "open"
  /\ Becomes(c, "asked") \/ Becomes(c, "told")
  /\ commands' = commands \cup {c}
  /\ UNCHANGED answers

Reply(c) ==
  /\ c \in commands
  /\ commands' = commands \ {c}
  /\ answers' = answers \cup {c}
  /\ UNCHANGED status

Accept(c) ==
  /\ status[c] = "asked"
  /\ c \in answers
  /\ Becomes(c, "done")
  /\ UNCHANGED <<commands, answers>>

(* An error, a panic, or the owner's loss of patience *)
Close(c) ==
  /\ status[c] \in {"new", "open", "asked"}
  /\ Becomes(c, "closed")
  /\ UNCHANGED <<commands, answers>>

Lose ==
  /\ commands' \in SUBSET commands
  /\ answers' \in SUBSET answers
  /\ UNCHANGED status

Next ==
  \/ \E c \in Calls : Open(c) \/ Send(c) \/ Reply(c) \/ Accept(c) \/ Close(c)
  \/ Lose

Spec == Init /\ [][Next]_vars
===============================================================================
