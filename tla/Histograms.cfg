SPECIFICATION Spec
CONSTANTS
  Buckets <- MCBuckets
  MaxArrayValue = 4
  Names = {"a", "b"}
  Scales <- MCScales
  Values <- MCValues
  Repeats = {1, 2}
  MaxValues = 4
  Percents = {1, 25, 34, 50, 66, 75, 99}
INVARIANTS AllInPlace ExportCovers PercentilesRight
