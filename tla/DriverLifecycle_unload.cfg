SPECIFICATION FairSpec
CONSTANTS
  Calls = {c1, c2}
  Layers = {v4, v6}
  MaxStarts = 2
  MaxFailures = 1
INVARIANTS TypeOK GoneIsQuiet CallsFindLists ListsPairUp
PROPERTY SetUpEnds
\* A driver that is gone, or was never loaded, does nothing more.
CHECK_DEADLOCK FALSE
