-------------------------------- MODULE MCMqtt --------------------------------
(* Values of the constants of MqttClient for TLC *)
EXTENDS MqttProperties, TLC

Symmetry == Permutations(Calls) \cup Permutations(Loops)

(* The printer pushes its status, under ids that collide with those of the *)
(* client, and sends payloads the client cannot parse.                     *)
QuietPrinter ==
  [kind : {"push_status", "unparseable"}, seq : {0}, answers : {NoCall}]

(* What the tests of command.rs expect of to_value *)
ASSUME TestSetChamberLightOn ==
  /\ ToValue(Command("set_led").object)["command"] = "ledctrl"
  /\ DOMAIN ToValue(Command("set_led").object) =
       {"sequence_id", "command", "led_node", "led_mode", "led_on_time",
        "led_off_time", "loop_times", "interval_time"}

ASSUME TestGetVersion ==
  Command("get_version") =
    [root |-> "info", object |-> Entry("sequence_id", "id") \o Entry("command", "get_version")]

PushOnly == [kind : {"push_status"}, seq : {0}, answers : {NoCall}]
===============================================================================
