\* The services of one server, one at a time.
SPECIFICATION ServicesSpec
CONSTANTS
  Syncers = {y1} Health = health None = none Limit = 2 Window = 1
  OneAtATime = TRUE MaxProcs = 4 MaxChanges = 2 MaxCrashes = 3 MaxClock = 3
  Notifications = {p1, p2, p3} Buffer = 1 Tokens = 1
  Servers = {n1, n2} Callers = {n1, n2} Second = 2 Durations = {1, 3}
  MaxTicks = 6 MaxCalls = 2
  Users = {u1} Teams = {t1} BufferSize = 1 Interval = 1
  MaxPosts = 2 MaxStoreFails = 1 MaxSeconds = 3
  Requests = {r1, r2} Nodes = {n1} FileSize = 4 MinFirstPartSize = 2
  MaxFails = 1 MaxLost = 1
INVARIANTS
  ServicesTypeOK StopComplete ProcessesStopped  
PROPERTIES BusyAsAsked   
CHECK_DEADLOCK FALSE
