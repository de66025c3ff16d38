SPECIFICATION SupportSpec
CONSTANTS
  Blocks = {b1, b2, b3}
  Align = 2
  ChunkSize = 4
  Sizes = {1, 4, 7}
  x1 = x1
  x2 = x2
  Names <- TwoNames
  Lengths = {4, 5}
  Word = 4
  Nibble = 2
  NoVector = NoVector
  c1 = c1
  c2 = c2
  Intervals <- TwoIntervals
  Capacities = {2, 4}
SYMMETRY Symmetry
INVARIANTS AllocationsDisjoint AnswersAsSet
PROPERTIES OperatesAsSet WorksAsSequence
CHECK_DEADLOCK FALSE
