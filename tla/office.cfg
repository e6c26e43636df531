\* The parts around a customer, each in behaviours of its own.
SPECIFICATION SceneSpec
CHECK_DEADLOCK FALSE
CONSTANTS
  Customers = {"ann"} Businesses = {"cafe"} Jobs = {"j1", "j2"} SEND_WEEKDAY = 1
  LOOKBACK_DAYS = 2 MaxDay = 3 MaxJobs = 2 MaxUpsets = 1
  Tickets = {"t1"} Handlers = {"h1", "h2"} MAX_OPEN_TICKETS = 1
  MaxMessages = 3 MaxSignUps = 2 MaxFaults = 1
  Consoles = {"c1", "c2"} Visits = {"v1"} MAX_FAILS = 3 WINDOW = 2 LOCK = 3
  MaxTime = 7 MaxAttempts = 6 MaxDisruptions = 1 MaxActions = 2
  Leads = {"a", "b"} Domain <- OneSite NoSite = "none" Pushes = {"p1", "p2"}
  MaxTokens = 2 MaxRecords = 2 MaxMishaps = 1
  Rows = {"first", "again"} Key <- OneBusiness Deeds = {"d1", "d2"}
  LIST_ROWS = 2 Money = 2 MaxDeeds = 2 MaxTroubles = 1
  Queries = {"dentists", "salons"} Found <- Market PageSize = 1 Allowance = 1
  Slots = {"s1", "s2"} MAX_POLLS = 2 MaxCalls = 4
INVARIANTS
  
  
  
  
  OneRecordPerSite
  
  ChargedReachable
  NoLeadTwice
  
