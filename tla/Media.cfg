SPECIFICATION MediaSpec
CONSTANTS
  Sizes <- MCSizes
  MaxEncoders = 3
  MaxFailed = 2
  Bytes <- MCBytes
  MaxBytes = 9
  MaxFrames = 17
  Formats <- MCFormats
  Areas = {8, 24, 31, 32, 100, 600, 4095}
  Codings <- MCCodings
  GopModes = {0, 1, 3, 4}
  SetupWord = 4096
INVARIANTS NodeFaultExplained EncoderIsThePreviews StreamDecodes BlitSaysWhatItDid EncoderSetupIsWhole
CHECK_DEADLOCK FALSE
