SPECIFICATION Spec
CONSTANTS
  Bytes <- MCBytes
  Junk = Junk
  Texts <- MCTexts
  Size <- MCSize
  Content <- MCContent
  BlockSize = 2100
  Buckets <- MCBuckets
  Hash <- MCHash
  Plain = {1, 3, 16, 17, 61, 257}
  Periods = {1, 3, 8}
  Runs = {4, 12, 16, 59, 64, 65, 67, 68, 132}
  Tails = {0, 6, 20}
  Prefix = 7
  Far = {2048, 2049}
  FarRuns = {9, 40, 80}
INVARIANTS TypeOK RoundTrip BuffersSuffice
CHECK_DEADLOCK FALSE
