SPECIFICATION Spec
CONSTANTS
  Calls = {c1}
  Layers = {v4, v6}
  MaxStarts = 1
  MaxFailures = 1
INVARIANT CalloutErrorFailsLoad
CHECK_DEADLOCK FALSE
