\* bm25_agg used as a window aggregate: the final function is called for
\* every frame and the same transition state is fed further rows.
CONSTANTS
  NaN = NaN
  Nil = Nil
  LnMilli <- MCLnMilli
  Rows <- MCRows
  Queries <- MCQueries
  LimitArgs <- MCLimitArgs
  CorpusArgs <- MCCorpusArgs
  AvgArgs <- MCAvgArgs
  ParamArgs <- MCParamArgs
  PROMOTE_AFTER = 1
  OVER_COLLECT = 2
  WINDOW = TRUE

SPECIFICATION Spec

INVARIANT FinalizeReadOnly
