SPECIFICATION Spec
CONSTANTS
  Jobs = {j1}
  Clients = {c1}
  Tracks = {"vaathi"}
  Parts = {p1}
  Senders = {s1}
  None = none
  MatchStrict = TRUE
  Title <- TitleMC
  Core <- CoreMC
  Says <- SaysLessMC
  ScanLimit = 3
  Recent = 1
  MaxChat = 1
  MaxOld = 1
  MaxCommands = 1
INVARIANTS
  NoOrphanFile
CHECK_DEADLOCK FALSE
