SPECIFICATION Spec
CONSTANTS
  Runs = {r1}
  Cancels = {c1}
  MaxTools = 1
  MaxRetries = 0
  Usage = {1}
  MaxFaults = 0
PROPERTIES
  TerminalIsFinal
