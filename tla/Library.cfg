SPECIFICATION Spec
CONSTANTS
  B = 8
  Limbs = 5
  Numbers <- MCNumbers
  Idle = Idle
  limb_bit_size = 3
  SumLimbs = 3
  ProductLimbs = 4
  Factors <- MCFactors
  Reduced <- MCReduced
  QuotientLimbs = 4
  Dividends <- MCDividends
  CompareLimbs = 2
  Compared <- EdgeNumbers
  BitLimbs = 3
  BitNumbers <- MCBitNumbers
  DivisorGreatest = 34
  DivisorBits = 7
  ArithmeticBits = 7
  ResidueBits = 8
  ResidueModuli = {3, 5, 7, 9, 15, 17, 21, 27, 29, 31, 63}
  Transforms <- MCTransforms
  Programs <- MCProgramsAll
  BlockSize = 4
INVARIANTS
  TypeOK
  Sums
  Product
  Postcondition
  QuotientRemainder
  Ordered
  BitsMeant
  Coefficients
  Exact
  Meaning
  Transformed
  Meant
  OneValue
  OwnLimbs
CHECK_DEADLOCK FALSE
