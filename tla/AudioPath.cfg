CONSTANTS
  Paths = {p1, p2, p3}
  Categories = {"VOICE", "RECORD", "TONE", "ANC", "PIPE"}
  NoPath = NoPath
SPECIFICATION Spec
SYMMETRY Handles
INVARIANTS
  TypeOK
  NoClash
  OneTransition
  StopsWaitForStart
  AtRestHoldsNothing
  DspNeverStuck
  NoStall
