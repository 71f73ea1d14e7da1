\* One aggregation with every entry point and argument, any query of up to
\* three terms fed in any order, finalized once (limit 0 included: its
\* final call aborts and is left to agg_limit_zero).
CONSTANTS
  NaN = NaN
  Nil = Nil
  LnMilli <- MCLnMilli
  Rows <- MCRows
  Queries <- MCQueries
  LimitArgs <- MCLimitArgsWithZero
  CorpusArgs <- MCCorpusArgs
  AvgArgs <- MCAvgArgs
  ParamArgs <- MCParamArgs
  PROMOTE_AFTER = 1
  OVER_COLLECT = 2
  WINDOW = FALSE

SPECIFICATION FairSpec

INVARIANT TypeOK
INVARIANT ScoresMatchPostings
INVARIANT ResultsFaithful
INVARIANT TopKUpToWindow
INVARIANT UnlimitedOnlyEmpty
PROPERTY AnswersValidQueries
