\* The goroutines that work for remote clusters, with fairness.
SPECIFICATION RemotesSpec
CONSTANTS
  Callers = {c1, c2} RemoteClusters = {r1} Index <- OneChannel
  SendChanBuffer = 1 Deadline = {c1} Panics = {} MaxTerms = 2
  Remotes = {r1, r2} MaxRetries = 1 MaxPostsPerSync = 1 MaxPosts = 2
  MaxResumes = 1 MaxOffline = 0 MaxRefused = 1 MaxLost = 0 MaxStoreFaults = 0
  MaxFull = 0 Together = {{"refused"}} InOrder = TRUE
  i1 = i1 i2 = i2 p1 = p1 e1 = e1 l1 = l1 s1 = s1
PROPERTIES
  SendSettles  
CHECK_DEADLOCK FALSE
