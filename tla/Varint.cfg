\* 7 bit words in 2 bit groups stand for 64 bit words in 7 bit groups: in both
\* the last group of kMaxSize is partial, and the last two group boundaries lie
\* where the conversion to double rounds.
CONSTANTS
  Radix = 4
  kMaxSize = 4
  Word = 128
  Exact = 8
  UndefinedSizes = {0, 4}
  Values <- MCValues
  Fills = {0, 7}
SPECIFICATION Spec
INVARIANTS TypeOK RoundTrip SizeIsDigits
PROPERTY WriteStaysInside
