CONSTANTS
  Readers = {r1, r2}
  Writers = {w1, w2}
  Timeouts = {1, 2}
  Slides = {2}
  MaxValue = 3
SPECIFICATION FairSpec
INVARIANT NilMeansLoaded
PROPERTIES
  StaleOnlyByRace
  OldValuesGo
