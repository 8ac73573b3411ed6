SPECIFICATION Spec
CONSTANTS
  Count = 2
  Proxied = {0, 1}
  Names = {"unnamed", "history"}
  Unnamed = "unnamed"
  Instances = {Adapter, other}
  Adapter = Adapter
  Proxy = Proxy
  Null = Null
  HistoryId = 0
  StackId = 1
  Entries = {e1, e2}
  Values = {v1}
  Ops = {add, sub}
  Zeroed = Zeroed
  HistMax = 3
  Depth = 1
  QueueMax = 2
INVARIANTS TypeOK ServicesAgree
PROPERTIES HistoryIsRecentList QueueIsFIFO
