SYMMETRY Symmetry
SPECIFICATION Spec
CONSTANTS
  Jobs = {j1,j2}
  Clients = {c1}
  Tracks = {"vaathi", "vaa vaathi"}
  Parts = {p1}
  Senders = {s1}
  None = none
  MatchStrict = TRUE
  Title <- TitleMC
  Core <- CoreMC
  Says <- SaysMC
  ScanLimit = 3
  Recent = 1
  MaxChat = 2
  MaxOld = 0
  MaxCommands = 0
INVARIANTS
  TypeOK ReadyIsItsTrack NoMissedReply PartialIsActive
CHECK_DEADLOCK FALSE
