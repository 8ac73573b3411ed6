SPECIFICATION Spec
CONSTANTS
  Width = 4
  Height = 4
  PieceCount = 7
  FallEvery = 2
  ScoreWrap = 500
INVARIANT PieceFits
PROPERTY RowsAreStacked
