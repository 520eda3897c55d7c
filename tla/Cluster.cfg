\* What several nodes and goroutines share.
SPECIFICATION ClusterSpec
CONSTANTS
  Nodes = {n1, n2} Leaders = {n1} SimpleJobs = {} MigrationJobs = {m1, m2}
  NoJob = NoJob Batches = 2 MaxFaults = 1 MaxCancels = 1
  HasReplica = FALSE SlowWorkers = FALSE
  r1 = r1 r2 = r2
  Callers = {c1, c2} RemoteClusters = {r1, r2} Index <- SameChannel
  SendChanBuffer = 1 Deadline = {c1} Panics = {c2} MaxTerms = 2
  Remotes = {r1} MaxRetries = 1 MaxPostsPerSync = 1 MaxPosts = 2 MaxResumes = 2
  MaxOffline = 1 MaxRefused = 1 MaxLost = 1 MaxStoreFaults = 1 MaxFull = 1
  Together = {{"pause", "refused", "lost"}, {"pause", "store", "full"},
              {"offline", "refused", "lost", "store", "full"}}
  InOrder = TRUE
  Tasks = {k1, k2, k3} Conns = {c1, c2} MaxFailedWrites = 1 InTurn = TRUE
INVARIANTS
  ClusterTypeOK NeverSkips CursorSafe Delivered
  
PROPERTIES LifecycleSpec 
CHECK_DEADLOCK FALSE
