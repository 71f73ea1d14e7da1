\* avg_doc_len = 0, which the argument checks let through.
CONSTANTS
  NaN = NaN
  Nil = Nil
  LnMilli <- MCLnMilli
  Rows <- MCRows
  Queries <- MCQueries
  LimitArgs = {1}
  CorpusArgs <- MCCorpusArgs
  AvgArgs <- MCAvgZero
  ParamArgs <- MCParamArgs
  PROMOTE_AFTER = 1
  OVER_COLLECT = 2
  WINDOW = FALSE

SPECIFICATION Spec

INVARIANT ZeroAvgDocLenRejected
