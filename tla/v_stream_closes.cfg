SPECIFICATION FairStreamSpec
CONSTANTS
  Runs = {r1}
  Cancels = {}
  Streams = {s1}
  MaxTools = 1
  MaxRetries = 0
  Usage = {1}
  MaxFaults = 0
PROPERTIES
  StreamCloses
