SPECIFICATION Spec
CONSTANTS
  CounterSize = 6
  TicsPerUs = 2
  MaxTime = 13
INVARIANT TypeOK
PROPERTIES MeasuresElapsedTime ShowsNoMore
