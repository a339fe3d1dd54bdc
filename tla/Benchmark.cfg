CONSTANTS
  Counts <- AnyCounts
  MaxText = 7
  Prefix = 2
  Filler = 2
  Targets = {1, 2, 3}
  Inputs <- Lists
  Repeats = 3 MaxTime = 2 MaxTexts = 4 Tokens = {2} Scale = 2 None = None
SPECIFICATION BenchmarkSpec
INVARIANTS CutIsRight FrontierExact MeasuresRight
CHECK_DEADLOCK FALSE
