SPECIFICATION Spec
CONSTANTS
  MaxUint <- FourBits
  b1 = b1
  b2 = b2
  b3 = b3
  Values <- Blocks
  Absent = Absent
  Partial = Partial
INVARIANTS Covers BatchesFit
PROPERTIES LoopVariant IsAtomicRegister
