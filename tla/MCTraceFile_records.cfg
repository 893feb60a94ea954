SPECIFICATION Spec
CONSTANTS
  Strings <- MCStrings
  Size <- MCSize
  Plain = "f.pl"
  EvalName <- MCEvalName
  Source <- MCSource
  Mapped = {}
  Sections = {"s"}
  MetaKeys = {"meta"}
  MetaValues = {"v"}
  Weights = {300}
  Names = {"BEGIN", "f"}
  Lines = {7}
  FirstLines <- MCFirstLines
  Known <- Tags
  Perls <- Configs
  MaxRecords = 4
  Cuts = {0, 6}
INVARIANTS
  RecordsRead
  SamplesReturned
  MetadataReturned
  EndReported
CHECK_DEADLOCK FALSE
