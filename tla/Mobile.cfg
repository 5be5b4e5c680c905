SPECIFICATION FairSpec
CONSTANTS
  a1 = a1
  a2 = a2
  bad = bad
  good = good
  atStop = atStop
  wholeTrip = wholeTrip
  stop = stop
  trip = trip
  NoOne = NoOne
  NoStop = NoStop
  PodTrip <- TripOfPods
  PodStop <- StopOfPods
  TripDriver <- DriverOfTrip
  Accounts = {a1}
  Claims = {bad, good}
  Refused = {bad}
  Pods = {wholeTrip}
  MaxFlushes = 2
  MaxHandlers = 2
  BatchSize = 2
  MaxFaults = 1
  MaxSignOuts = 1
INVARIANTS RecordedOnce
PROPERTIES QueuedIsKept QueuedIsRecorded
