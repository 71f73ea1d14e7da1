\* bm25_agg(row, 0, corpus_size, avg_doc_len): limit 0 passes validation.
CONSTANTS
  NaN = NaN
  Nil = Nil
  LnMilli <- MCLnMilli
  Rows <- MCRows
  Queries <- MCQueries
  LimitArgs <- MCLimitZero
  CorpusArgs <- MCCorpusArgs
  AvgArgs <- MCAvgArgs
  ParamArgs <- MCParamArgs
  PROMOTE_AFTER = 1
  OVER_COLLECT = 2
  WINDOW = FALSE

SPECIFICATION Spec

INVARIANT FinalizeTotal
