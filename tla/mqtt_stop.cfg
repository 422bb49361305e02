SPECIFICATION FairSpec
CONSTANTS
  c1 = c1
  l1 = l1
  l2 = l2
  NoCall = NoCall
  NoLoop = NoLoop
  Calls = {c1}
  Loops = {l1, l2}
  Ops = {"push_all"}
  QueueCap = 3
  Unsolicited <- PushOnly
  MayCancel = FALSE
  TakeOver = TRUE
  Serials = {"plain"}
PROPERTY StopStops
