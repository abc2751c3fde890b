SPECIFICATION Spec
CONSTANTS
  NoneBelow = 64
  LZ4Below = 72
  Bits = {0, 255}
  MaxLength = 2
  MaxEdits = 2
  PageSize = 48
INVARIANTS RoundTrip TruncatedIsRefused RegionsKeepTheirSize
