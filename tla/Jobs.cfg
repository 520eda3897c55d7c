\* The goroutines of the job server, with fairness.
SPECIFICATION JobsSpec
CONSTANTS
  Changes = {l1, l2, l3} Saves = {} MaxStarts = 2 MaxFaults = 0
  n1 = n1 n2 = n2
  s1 = s1
  m1 = m1 m2 = m2 m3 = m3 NoJob = NoJob
  c1 = c1 c2 = c2
  v1 = v1
INVARIANT SendFindsRoom
PROPERTIES
  TakenByOne  SavesReturn SchedulersFollow
CHECK_DEADLOCK FALSE
