-------------------------------- MODULE Payload --------------------------------
(***************************************************************************)
(* The JSON of a command as `serde_json::to_vec` writes it, from the serde *)
(* attributes of src/mqtt/command.rs and src/mqtt/command/*.rs.  An object *)
(* is the sequence of its entries in the order they are written; to_vec    *)
(* writes what it is given and does not look for a key it wrote before.    *)
(***************************************************************************)
EXTENDS Naturals, Sequences

Entry(key, value) == <<[key |-> key, value |-> value]>>

(* `tag = "command"`: the name of the variant, or of the struct, goes      *)
(* before the fields                                                       *)
Tagged(name, fields) == Entry("command", name) \o fields

InfoCommand == [get_version |-> Tagged("get_version", <<>>)]

PrintCommand ==
  [extrusion_calibration_get |->
     Tagged("extrusion_cali_get", Entry("filament_id", "") \o Entry("nozzle_diameter", ""))]

PushingCommand ==
  [push_all |-> Tagged("pushall", Entry("push_target", "1") \o Entry("version", "1"))]

(* A struct with a tag of its own ... *)
LedCtrl ==
  Tagged("ledctrl",
         Entry("led_node", "chamber_light") \o Entry("led_mode", "on")
         \o Entry("led_on_time", "500") \o Entry("led_off_time", "500")
         \o Entry("loop_times", "0") \o Entry("interval_time", "0"))

(* ... in a variant of an enum with the same tag, which is not renamed     *)
SystemCommand == [set_led |-> Tagged("LedCtrl", LedCtrl)]

(* The command is flattened into the payload, after the sequence id        *)
Flattened(command) == Entry("sequence_id", "id") \o command

(* Command is untagged: the JSON root comes from the field of the variant  *)
Command(op) ==
  CASE op \in DOMAIN InfoCommand    -> [root |-> "info", object |-> Flattened(InfoCommand[op])]
    [] op \in DOMAIN PrintCommand   -> [root |-> "print", object |-> Flattened(PrintCommand[op])]
    [] op \in DOMAIN PushingCommand -> [root |-> "pushing", object |-> Flattened(PushingCommand[op])]
    [] op \in DOMAIN SystemCommand  -> [root |-> "system", object |-> Flattened(SystemCommand[op])]

(* What serde_json::to_value makes of an object: the last of equal keys    *)
(* stays.  The tests of command.rs look at this, the printer never does.   *)
ToValue(object) ==
  [k \in {object[i].key : i \in DOMAIN object} |->
     LET last == CHOOSE i \in DOMAIN object :
                   object[i].key = k /\ \A j \in DOMAIN object : object[j].key = k => j <= i
     IN object[last].value]
===============================================================================
