SPECIFICATION Spec
CONSTANTS
  c1 = c1
  c2 = c2
  l1 = l1
  l2 = l2
  NoCall = NoCall
  NoLoop = NoLoop
  Calls = {c1, c2}
  Loops = {l1, l2}
  Ops = {"get_version", "push_all"}
  QueueCap = 1
  Unsolicited <- QuietPrinter
  MayCancel = TRUE
  TakeOver = TRUE
  Serials = {"plain"}
SYMMETRY Symmetry
INVARIANTS TypeOK ReplyMatchesCall WaiterCanBeWoken AskedOverSubscription OnlyDropsPanic
PROPERTIES NoAnswerDropped ImplementsRequestReply
