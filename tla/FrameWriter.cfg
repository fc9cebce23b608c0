CONSTANTS
  MaxRiceParameter = 4
  MaxLpcOrder = 2
  MinLpcBlockSize = 3
  WordBits = 16
  ByteValues = 2
  BlockLimit <- MCBlockLimit
  Infos <- MCInfos
  SampleValues <- MCSampleValues
  Quantized <- MCQuantized
  Selections <- MCSelections
SPECIFICATION Spec
INVARIANTS
  HeaderReadsBack
  Lossless
  SizeIsCounted
  ExactIsOptimal
  NeverLargerThanVerbatim
  AnalysisNeverThrows
  ValidatorsAgree
