\* Spec 8.2 (scores independent of row order) against f32 accumulation.
CONSTANTS
  Rows <- MCRows
  RowOrder <- MCRowOrder

SPECIFICATION Spec

INVARIANT OrderIndependentScores
