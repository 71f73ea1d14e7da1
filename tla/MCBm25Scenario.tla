--------------------------- MODULE MCBm25Scenario ---------------------------
(***************************************************************************)
(* The corpus of test_bm25_agg (bm25_agg.rs) and spec section 8:           *)
(*   1: apple banana orange   2: apple apple banana                        *)
(*   3: banana banana orange  4: kiwi pineapple banana                     *)
(* corpus_size 4, avg_doc_len 3, query "apple banana", limit 10,           *)
(* k1 = 1.2, b = 0.75, with the production constants 100 and 10.           *)
(***************************************************************************)
EXTENDS Bm25Agg

(* round(1000 * ln(p/q)) for p/q = (9 - 2tf)/(2tf + 1), corpus_size 4.    *)
MCLnMilli ==
  [x \in {<<9, 1>>, <<7, 3>>, <<5, 5>>, <<3, 7>>, <<1, 9>>} |->
     CASE x = <<9, 1>> -> 2197 [] x = <<7, 3>> -> 847 [] x = <<5, 5>> -> 0
       [] x = <<3, 7>> -> -847 [] x = <<1, 9>> -> -2197]

TermRow(tf, ids, fqs, lens) ==
  [kind |-> "record", term |-> "term", term_freq |-> tf, doc_ids |-> ids,
   fqs |-> fqs, doc_lens |-> lens, arr_type |-> "int4", bloom |-> Nil]

Apple  == TermRow(2, <<1, 2>>, <<1, 2>>, <<3, 3>>)
Banana == TermRow(4, <<1, 2, 3, 4>>, <<1, 1, 2, 1>>, <<3, 3, 3, 3>>)

MCRows    == {Apple, Banana}
MCQueries == {{Apple, Banana}}
MCDefaultKB == {<<[n |-> 12, d |-> 10], [n |-> 3, d |-> 4]>>}

(* test_bm25_agg asserts "Expected Doc ID 2 to have the highest BM25       *)
(* score": the first row bm25_agg returns for this query is doc 2.         *)
Doc2RanksFirst ==
  \A k \in DOMAIN outputs : outputs[k].res # <<>> => outputs[k].res[1][1] = 2

=============================================================================
