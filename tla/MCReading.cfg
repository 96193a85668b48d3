SPECIFICATION Spec
CONSTANTS
  Versions = {"3.1.1", "5.0"}
  Streams <- MCStreams
  Limits <- MCLimits
INVARIANTS WaitsOnlyWhenDrained BufferBounded
PROPERTY ImplementsChannel
CHECK_DEADLOCK FALSE
