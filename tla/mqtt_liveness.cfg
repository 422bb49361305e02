SPECIFICATION FairSpec
CONSTANTS
  c1 = c1
  l1 = l1
  l2 = l2
  NoCall = NoCall
  NoLoop = NoLoop
  Calls = {c1}
  Loops = {l1, l2}
  Ops = {"set_led", "extrusion_calibration_get"}
  QueueCap = 1
  Unsolicited <- PushOnly
  MayCancel = FALSE
  TakeOver = TRUE
  Serials = {"plain", "+", "#"}
PROPERTIES StartCompletes RequestCompletes PublishReturns StopEndsTask
