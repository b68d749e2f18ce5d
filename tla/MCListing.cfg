CONSTANTS
    WordMod = 65536
    Entries = {256}
    TextSeg = 513
    DataSeg = 514
SPECIFICATION MCSpec
INVARIANT TypeOK
INVARIANT LengthsAgree
INVARIANT FitsColumn
INVARIANT NamedByNearest
INVARIANT StaysInTable
PROPERTY TargetsAgree
PROPERTY TraceHarmless
PROPERTY SearchEnds
