CONSTANTS
  Size = 2
  Used = {"info", "debug", "trace", "stats", "test"}
SPECIFICATION Spec
INVARIANT SilentOnceEnded
