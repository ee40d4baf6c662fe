CONSTANTS
  Paths = {p1, p2}
  Categories = {"HWVAD", "APT"}
  NoPath = NoPath
SPECIFICATION FairSpec
CHECK_DEADLOCK FALSE
PROPERTIES
  StopEnds
