\* Two devices, two calls.
CONSTANTS
  Devices = {d1, d2}
  invalid = invalid
  MaxCalls = 2
  MaxQueue = 2
SPECIFICATION Spec
INVARIANTS ListedAnswered NothingOverlooked QuietAssignConfigures
