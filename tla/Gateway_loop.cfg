SPECIFICATION LoopSpec
CONSTANTS
  Jobs = {j1}
  Clients = {c1}
  Tracks = {"vaathi"}
  Parts = {p1}
  Senders = {s1,s2}
  None = none
  MatchStrict = TRUE
  Title <- TitleMC
  Core <- CoreMC
  Says <- SaysLessMC
  ScanLimit = 3
  Recent = 1
  MaxChat = 2
  MaxOld = 1
  MaxCommands = 1
INVARIANTS ReadyIsWhole
PROPERTIES AbandonedIsDropped ReplyIsFound JobEnds
CHECK_DEADLOCK FALSE
