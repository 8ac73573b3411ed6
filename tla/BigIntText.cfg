SPECIFICATION Spec
CONSTANTS
  LimbBits = 2
  MaxLimbs = 3
  Radix = 3
  WordBits = 8
  TrialLimit = 4
  MaxCount = 2
  MaxDim = 3
  BufferLen = 3
  NaN = 9999
  ZeroValue = 0
  Exponents = {0, 1, 2, 3, 5}
  Apply <- MCApply
  BigInputs <- MCBigInputs
  Texts <- MCTexts
  SingleWords <- MCSingleWords
  PairedWords <- MCPairedWords
  Congruences <- MCCongruences
  RationalInputs <- MCRationals
  Matrices <- MCMatrices
  MatrixPairs <- MCMatrixPairs
  Systems <- MCSystems
  SortedArrays <- MCSortedArrays
  Arrays <- MCArrays
  ArrayPairs <- MCArrayPairs
  Percents <- MCPercents
  KernelCalls <- MCKernelCalls
  MaxOps = 4
  MaxRpn = 8
  MaxStack = 8
  MaxCustom = 1
  StepRange = 8
  MaxVars = 2
  Steps = {0, 1, 2, 4}
  Custom <- MCCustom
  DefaultStep <- MCDefaultStep
  MinStep <- MCMinStep
  TinySlope <- MCTinySlope
  FlushedBelow <- MCFlushedBelow
  Defaults <- MCDefaults
  UnitTables <- MCUnitTables
  KnownConversions = {}
  ComplexInputs = {}
  Powers = {}
  Digits <- MCDigits
  Letters <- MCLetters
  IntRange = 128
  Lines = {}
  Trees = {}
  Polynomials = {}
  Points <- MCPoints
  Differences <- MCDifferences
  Forms = {}
  Equations = {}
  Adaptations = {}
  Quantities = {}
  RngBits = 3
  Dropped = 1
  ResultRotation = 1
  StateShift = 1
  StateRotation = 2
  SeedDefault = 5
  SeedStep = 3
  MixShifts <- MCMixShifts
  MixFactors <- MCMixFactors
  FallbackWords <- MCFallbackWords
  Unit = 2
  PoissonLimit = 3
  Above <- MCAbove
  CubeIsPositive <- MCCubeIsPositive
  Accepted <- MCAccepted
  Seeds = {0, 1, 5}
  Requests <- MCRequests
  MaxCalls = 1
  MaxTape = 2
  LongRange = 4096
  UIntRange = 64
  Precision = 1
  LargeFrom <- MCLargeFrom
  SmallBelow <- MCSmallBelow
  FieldOf <- MCFieldOf
  FieldRange <- MCFieldRange
  PixelRange = 4096
  TickWidth = 3
  TickHeight = 2
  MaxSamples = 8
  MaxOverlay = 2
  MaxBins = 3
  IntegersShown = {}
  Radixes = {}
  RealsShown = {}
  DecimalPlaces = {}
  Pieces = {}
  Sizes = {}
  ConfigTexts = {}
  Areas = {}
  Curves = {}
  Graphs = {}
  Counts = {}
INVARIANT TextRoundTrips
