\* A request whose size wraps around when the header is added.
CONSTANTS
  Base = 12
  Size = 38
  WordMod = 65536
  CanaryMod = 256
  Requests = {4, 8, 65535}
  Data = {0}
  Overruns = {}
SPECIFICATION Spec
INVARIANT RequestsBounded
