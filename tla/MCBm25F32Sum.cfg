\* The f32 accumulator over every feeding order of six rows: the partial
\* scores stay within the summation error bound of the exact sums.
CONSTANTS
  Rows <- MCRows
  RowOrder <- MCRowOrder

SPECIFICATION Spec

INVARIANT TypeOK
INVARIANT AccumulationErrorBounded
