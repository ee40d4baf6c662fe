CONSTANTS
  Paths = {p1, p2}
  Categories = {"VAD", "APT", "KWS"}
  NoPath = NoPath
SPECIFICATION FairSpec
INVARIANT
  NoClash
PROPERTY
  StopEnds
