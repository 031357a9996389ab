SPECIFICATION Spec
CONSTANTS
  MaxBody = 9
  MaxCount = 4
  MinReadSize = 3
  MaxSlack = 2
  MaxIndex = 31
INVARIANTS
  TypeOK
  EofMeansEnd
  IncompleteMeansShort
  BufferBounded
PROPERTIES
  BytesInOrder
