SPECIFICATION FairSpec
CONSTANTS
  c1 = c1
  l1 = l1
  NoCall = NoCall
  NoLoop = NoLoop
  Calls = {c1}
  Loops = {l1}
  Ops = {"get_version"}
  QueueCap = 1
  Unsolicited <- PushOnly
  MayCancel = FALSE
  TakeOver = FALSE
  Serials = {"plain"}
PROPERTY WaitEnds
