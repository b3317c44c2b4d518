SPECIFICATION FairPoolSpec
CONSTANTS
  Runs = {r1}
  Cancels = {c1}
  Streams = {s1}
  MaxTools = 1
  MaxRetries = 0
  Usage = {1}
  MaxFaults = 1
  PoolLimits = {1, 2}

  
PROPERTIES
  RunCompletesBesideStreams
  FollowedStreamCloses
