----------------------------- MODULE MCBm25Agg -----------------------------
(***************************************************************************)
(* Model of bm25_agg for TLC: a corpus of 7 documents with average length *)
(* 3, doc ids 1..6 appearing in the term rows below, promotion scaled from *)
(* 100 exact docs to 1 and over-collection from 10x to 2x, so that with    *)
(* limit 1 or 2 both the promotion and a heap smaller than the candidate   *)
(* set happen.                                                             *)
(***************************************************************************)
EXTENDS Bm25Agg

(* round(1000 * ln(p/q)) for p/q = (15 - 2tf)/(2tf + 1), corpus_size 7.   *)
MCLnMilli ==
  [x \in {<<15, 1>>, <<13, 3>>, <<11, 5>>, <<9, 7>>, <<7, 9>>, <<5, 11>>,
          <<3, 13>>, <<1, 15>>} |->
     CASE x = <<15, 1>> -> 2708  [] x = <<13, 3>> -> 1466
       [] x = <<11, 5>> -> 788   [] x = <<9, 7>>  -> 251
       [] x = <<7, 9>>  -> -251  [] x = <<5, 11>> -> -788
       [] x = <<3, 13>> -> -1466 [] x = <<1, 15>> -> -2708]

TermRow(tf, ids, fqs, lens, bloom) ==
  [kind |-> "record", term |-> "term", term_freq |-> tf, doc_ids |-> ids,
   fqs |-> fqs, doc_lens |-> lens, arr_type |-> "int4", bloom |-> bloom]

\* well-formed terms; blooms may hold false positives (3 in RMid's)
RRare   == TermRow(1, <<1>>, <<2>>, <<2>>, Nil)
RMid    == TermRow(2, <<2, 5>>, <<1, 3>>, <<4, 2>>, {2, 3, 5})
RWide   == TermRow(3, <<3, 4, 5>>, <<1, 1, 2>>, <<3, 2, 4>>, {3, 4, 5})
RCommon == TermRow(5, <<1, 2, 3, 4, 6>>, <<1, 1, 2, 1, 1>>, <<2, 4, 3, 3, 3>>,
             {1, 2, 3, 4, 6})
\* rows the code accepts although the spec says they do not occur
RDup    == TermRow(2, <<4, 4>>, <<1, 1>>, <<2, 2>>, Nil)            \* repeated doc id
RShort  == TermRow(3, <<1, 2, 3>>, <<1>>, <<3, 3, 3>>, Nil)         \* arrays of unequal length
\* rows that make the transition fail (unless promoted)
RScalar   == [RRare EXCEPT !.kind = "scalar"]
RNullTf   == [RRare EXCEPT !.term_freq = Nil]
RInt8     == [TermRow(2, <<1, 3>>, <<1, 1>>, <<3, 3>>, {1, 3}) EXCEPT !.arr_type = "int8"]
RNullElem == TermRow(2, <<2, Nil>>, <<1, 1>>, <<3, 3>>, Nil)
RNullTerm == [RWide EXCEPT !.term = Nil]

Good == {RRare, RMid, RWide, RCommon, RDup, RShort}
Bad  == {RScalar, RNullTf, RInt8, RNullElem, RNullTerm}

MCRows == Good \cup Bad
MCQueries ==
  {q \in SUBSET Good : Cardinality(q) <= 3} \cup {{e, g} : e \in Bad, g \in {RMid, RWide}}

MCLimitArgs  == {-1, 1, 2}
MCLimitArgsWithZero == {-1, 0, 1, 2}
MCLimitZero  == {0}
MCCorpusArgs == {0, 7}
MCAvgArgs    == {-1, 0, 3, NaN}
MCParamArgs  == {<<[n |-> 12, d |-> 10], [n |-> 3, d |-> 4]>>,
                 <<[n |-> 3, d |-> 2], [n |-> 1, d |-> 2]>>}

MCAvgZero == {0}

(* Spec 8.5 / scenario F: supplying avg_doc_len = 0 makes the state        *)
(* transition fail with an ERROR; no row is scored with it.                *)
ZeroAvgDocLenRejected == avg_doc_len = 0 => routed = <<>>

(* Spec 8.4: the bloom approximation overestimates by at most the total    *)
(* representative mass: every returned score is at most the doc's exact   *)
(* score plus the sum of the scores of all blooms (finalize_base's fold).  *)
BloomOverestimateBound ==
  \A k \in DOMAIN outputs : \A i \in DOMAIN outputs[k].res :
    LET e == outputs[k].res[i] IN
    e[2] <= RefScore(e[1]) + FoldLeft(LAMBDA acc, x : acc + x.score, 0, blooms)

=============================================================================
