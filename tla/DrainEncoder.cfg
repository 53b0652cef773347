SPECIFICATION FairSpec
CONSTANTS
  Sources <- MCSources
  BufferSizes = {0, 1, 3, 20}
  EncodeOf <- MCEncodeOf
  SizeOverflow = SizeOverflow
INVARIANTS
  TypeOK
  DeliversOneEncoding
  EncodesAllOfIt
PROPERTY Terminates
