SPECIFICATION FramingSpec
CONSTANT MaxSegments = 3
INVARIANTS NothingInvented FramesStayInSync
CHECK_DEADLOCK FALSE
