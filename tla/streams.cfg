SPECIFICATION StreamSpec
CONSTANTS
  Runs = {r1}
  Cancels = {c1}
  Streams = {s1, s2}
  MaxTools = 1
  MaxRetries = 1
  Usage = {1}
  MaxFaults = 1
CONSTRAINT FewAtATime
INVARIANTS
  MissesOnlyTheGap
  EndsWithTheResult
  LiveTailIsGapless
  OnlyListenersAreSubscribed
SYMMETRY StreamSymmetry
