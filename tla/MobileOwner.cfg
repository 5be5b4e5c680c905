SPECIFICATION Spec
CONSTANTS
  a1 = a1
  a2 = a2
  bad = bad
  good = good
  atStop = atStop
  wholeTrip = wholeTrip
  stop = stop
  trip = trip
  NoOne = NoOne
  NoStop = NoStop
  PodTrip <- TripOfPods
  PodStop <- StopOfPods
  TripDriver <- DriverOfTrip
  Accounts = {a1, a2}
  Claims = {good}
  Refused = {}
  Pods = {atStop}
  MaxFlushes = 1
  MaxHandlers = 1
  BatchSize = 2
  MaxFaults = 0
  MaxSignOuts = 1
INVARIANTS FlushedByOwner
