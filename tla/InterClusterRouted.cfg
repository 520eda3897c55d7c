\* A message comes in while the leader of the cluster changes.
SPECIFICATION Spec
PROPERTY IncomingRouted
CONSTANTS
  i1 = i1
  l1 = l1
  Calls = {i1, l1}
  Kind <- MCKind
  Together = {{i1, l1}}
CHECK_DEADLOCK FALSE
