\* test_bm25_agg: query "apple banana" over the four-document corpus.
CONSTANTS
  NaN = NaN
  Nil = Nil
  LnMilli <- MCLnMilli
  Rows <- MCRows
  Queries <- MCQueries
  LimitArgs = {10}
  CorpusArgs = {4}
  AvgArgs = {3}
  ParamArgs <- MCDefaultKB
  PROMOTE_AFTER = 100
  OVER_COLLECT = 10
  WINDOW = FALSE

SPECIFICATION Spec

INVARIANT Doc2RanksFirst
