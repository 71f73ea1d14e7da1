\* Promoted terms with a negative idf (more than half of the corpus).
CONSTANTS
  NaN = NaN
  Nil = Nil
  LnMilli <- MCLnMilli
  Rows <- MCRows
  Queries <- MCQueries
  LimitArgs <- MCLimitArgs
  CorpusArgs <- MCCorpusArgs
  AvgArgs <- MCAvgArgs
  ParamArgs <- MCParamArgs
  PROMOTE_AFTER = 1
  OVER_COLLECT = 2
  WINDOW = FALSE

SPECIFICATION Spec

INVARIANT BloomOverestimateBound
