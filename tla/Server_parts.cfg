SPECIFICATION ServerSpec
CHECK_DEADLOCK FALSE
CONSTANTS
  Parts = {"library", "facade", "search", "enrichment", "hub", "client", "discography", "pages", "histories", "settings", "files", "musicbrainz", "ids", "renaming", "answers"}
  Path = {1, 2}
  LibDir = {"music", "sub"}
  Under <- UnderMC
  Home = "music"
  Recording = {"r1"}
  ByName = "by name"
  NoFile = NoFile
  Rank <- RankMC
  MaxLibOps = 3
  Track = {"a"}
  Request = {1, 2}
  Reconciler = {1, 2}
  MaxRequests = 2
  MaxFacadeFaults = 1
  Fuller <- FullerMC
  Within <- WithinMC
  NoKey = ""
  Hit <- HitMC
  Catalog <- CatalogMC
  LibrarySong <- LibrarySongMC
  QueueHas <- QueueHasMC
  Relevance <- RelevanceMC
  Search = {1, 2}
  MaxSearches = 2
  MaxInjected = 2
  SearchCap = 1
  SeenCap = 2
  AudioFile = {1, 2, 3}
  Nameless = {3}
  ArtistOf <- ArtistOfMC
  AlbumOf <- AlbumOfMC
  StartTags <- StartTagsMC
  Options <- OptionsMC
  Pass = {1, 2}
  MaxPasses = 2
  MaxChanges = 1
  Emitter = {"e1", "e2"}
  Client = {"b1", "b2"}
  Buffer = 2
  MaxEvents <- MaxEventsMC
  Fetcher = {"w1", "w2", "w3"}
  Account = {"shared", "own"}
  ClientOf <- ClientOfMC
  MaxQueries = 2
  MaxRevoked = 1
  MaxTroubles = 1
  Album = {"x", "y", "z"}
  TracksOf <- TracksOfMC
  Slots = 2
  Limit = 2
  LongestList = 5
  MaxListEdits = 2
  Unnamed = {2}
  URL = {"none", "u"}
  FetchType = {"track", "album"}
  MaxHistory = 2
  TrimCount = 1
  LastTime = 2
  MaxAdded = 4
  MaxStepsBack = 1
  SettingsSaver = {"s1", "s2"}
  Text <- TextMC
  LengthOf <- LengthOfMC
  Meaning <- MeaningMC
  FromEnvironment = "absent"
  Absent = "absent"
  MaxSaves = 4
  MaxSaveFaults = 2
  AttemptSettings <- AttemptSettingsMC
  LastSuffix = 1
  MaxAttempts = 2
  MaxFileCrashes = 1
  MaxFileFaults = 1
  Asker = {"k1", "k2", "k3"}
  MbRecording = {"x", "y"}
  WantedOf <- WantedOfMC
  Interval = 1
  Cooldown = 2
  RetryWait = 1
  SkipWindow = 1
  Attempts = 2
  MaxTicks = 2
  Caller = {"c1", "c2"}
  TracksISRC = TRUE
  MaxTokens = 2
  MaxIdTroubles = 1
  Renamer = {"r1", "r2"}
  Song = {"s1", "s2", "s3"}
  Base = {"a", "b"}
  FileKind = {"flac", "m4a"}
  KindOf <- KindOfMC
  TitleOf <- TitleOfMC
  Damaged = {}
  NoSong = "none"
  NoBase = "none"
  MaxLandings = 1
  TrackQuestions <- TrackQuestionsMC
  CoverQuestions <- CoverQuestionsMC
  LinkQuestions <- LinkQuestionsMC
  NameQuestions <- NameQuestionsMC
  ExistsQuestions <- ExistsQuestionsMC
  LengthQuestions <- LengthQuestionsMC
  LyricsQuestions <- LyricsQuestionsMC
  TextQuestions <- TextQuestionsMC
  MatchQuestions <- MatchQuestionsMC
INVARIANTS
  LibraryIsTrue FacadeKeepsItsWord HubIsOrderly CatalogIsRead SavedIsHeeded
  FilesAreKept LookupsAreShared IdsAreKept AnswersAgree
PROPERTY PassesAreOrderly
