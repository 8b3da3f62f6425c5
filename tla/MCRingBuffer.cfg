CONSTANTS
  Size = 5
  SeqSpace = 40
  InitSeq = 37
  StreamLen = 8
  MaxSeg = 3
SPECIFICATION Spec
INVARIANTS TypeOK MergedIsPrefix BytesInPlace FragmentsInOrder
PROPERTIES RefinesReassembly
