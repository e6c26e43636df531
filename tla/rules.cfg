\* The parts a lead passes through, each in behaviours of its own.
SPECIFICATION SceneSpec
CHECK_DEADLOCK FALSE
CONSTANTS
  MaxLearnt = 4
  Profiles <- SomeProfiles Asks <- SomeAsks N = 3 LIMIT = 2 TRIAL = 1 MaxPages = 3
  Latencies = {1, 5, 11, 99} BodyTimes = {1, 30} Deadlines = {{}, {5}, {16}}
  Paths = {"about", "contact", "menu"} HintRank <- RankOf Contents <- SomeContents
  SignNames = {{}, {"Sam"}} MAX_EXTRA_PAGES = 1 GUESSES = 2
  Shops = {"one", "two"} Calls = {"c1", "c2"} MaxBad = 1 MaxCalls = 4
  Contacts <- SomeContacts Filings <- SomeFilings MaxReturned = 3
  Rows = {1, 2} Kinds <- SomeKinds SAMPLE_LEADS = 1 SAMPLE_AUDITS = 1 DAY = 2 MaxTime = 3
  Keys = {1, 2} Lists = {"l1"} WITHIN_DAYS = 1 CHUNK = 2 MaxDay = 3 MaxTriggers = 2
INVARIANTS
  GradeHonest
  PagesCoverAll
  
  BestPagesFirst
  SoldMeansReachable
  
  WorkIsShown
  
