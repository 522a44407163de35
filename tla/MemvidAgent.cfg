CONSTANTS
  Parts = {"mesh", "cards", "beliefs", "ingest", "procedures", "recall", "versions"}
  MeshNodes = {1, 2, 3}
  NameOf <- MeshNames
  MeshFacts <- Triangle
  MeshFrames = {0}
  MaxMeshSaves = 1
  Hops = 3
  Extracted <- CardFacts
  CardsByHand <- ByHand
  EngineVersions = {"rules1", "rules2"}
  CardLimit = 3
  ReopenLimit = 1
  Observations <- Obs
  MaxObs = 4
  MaxRatings = 1
  MaxSecond = 6
  OncePerSecond = TRUE
  Candidates <- Mixed
  Directives <- SomeDirectives
  Slots <- SlotKinds
  MaxIngests = 4
  Seeds <- SomeSeeds
  Pauses = {40}
  MaxEpisodes = 4
  MaxFeedback = 1
  MaxDay = 45
  Worlds <- StoreWorlds
  TopKs = {1, 3}
  Today = 100
  Memories = {m1, m2}
  MaxOps = 6
  MaxStops = 1
  MemoryTtl = 3
  LateReports = FALSE
SPECIFICATION Spec
INVARIANT MeshAnswers
INVARIANT StoresAgree
INVARIANT Governance
INVARIANT CountsReported
INVARIANT ActiveBeliefFirst
INVARIANT FeedbackKept
 
PROPERTY NoSilentReplacement
CHECK_DEADLOCK FALSE
