SPECIFICATION BytesSpec
CONSTANTS
  Size = 4
  Byte = {0, 1}
  Null = Null
  MaxCall = 5
  Sizes = {0, 3}
  Modulus = 8
  Base = 10
  MaxSize = 17
  Values <- SampleValues
  Strings <- SampleStrings
  MaxRoom = 10
INVARIANTS BytesTypeOK RingTestsAgree LetsThroughWhatFits ArrivesAsSent
PROPERTIES ImplementsByteFifo RingImplementsByteFifo
