----------------------------- MODULE Bm25Kernel -----------------------------
(***************************************************************************)
(* The BM25 scoring kernel calculate_bm25 of lantern_extras/src/bm25_agg.rs *)
(*                                                                         *)
(*   idf  = ln((corpus_size - term_freq + 0.5) / (term_freq + 0.5))        *)
(*   bm25 = idf * fq*(k1+1) / (fq + k1*(1 - b + b*doc_len/avg_doc_len))    *)
(*                                                                         *)
(* The code computes in f32.  The model computes the same formula exactly  *)
(* over rationals and rounds the product to an integer number of           *)
(* milli-units, so two contributions are equal in the model exactly when   *)
(* the formula gives them equal values.  ln is the one function TLA+       *)
(* cannot compute: LnMilli gives round(1000 * ln(p / q)) for the ratios    *)
(* p/q = (2*corpus_size - 2*term_freq + 1) / (2*term_freq + 1) a model     *)
(* uses.  The IEEE special cases the code can reach are kept: a division   *)
(* 0/0 or the logarithm of a negative ratio gives NaN, which the code      *)
(* turns into an ERROR; doc_len / 0 with doc_len > 0 is +inf, which makes  *)
(* the denominator infinite and the contribution 0.                        *)
(***************************************************************************)
EXTENDS Integers

CONSTANTS
  LnMilli,   \* function <<p, q>> |-> round(1000 * ln(p/q)) for p, q > 0
  NaN        \* model value: an f32 NaN

(* Round a / d to the nearest integer (d > 0): the final f32 rounding.     *)
RoundDiv(a, d) == (2 * a + d) \div (2 * d)

(***************************************************************************)
(* calculate_bm25(doc_len, fq, term_freq, corpus_size, avg_doc_len,        *)
(*                bm25_k1, bm25_b)                                          *)
(* Returns the contribution in milli-units, or NaN, which the code         *)
(* reports with ereport!(ERROR, ...).  Inputs are non-negative integers:   *)
(* the arrays are i32 and corpus_size, avg_doc_len passed validation.      *)
(* k1 and b are rationals [n |-> numerator, d |-> denominator].           *)
(***************************************************************************)
CalculateBm25(doc_len, fq, term_freq, corpus_size, avg_doc_len, bm25_k1, bm25_b) ==
  LET p   == 2 * corpus_size - 2 * term_freq + 1  \* 2*(corpus_size - term_freq + 0.5)
      q   == 2 * term_freq + 1                    \* 2*(term_freq + 0.5), never 0
      \* fq*(k1+1) and the denominator, both multiplied by k1.d * b.d * avg_doc_len
      num == fq * (bm25_k1.n + bm25_k1.d) * bm25_b.d * avg_doc_len
      den == fq * bm25_k1.d * bm25_b.d * avg_doc_len
               + bm25_k1.n * ((bm25_b.d - bm25_b.n) * avg_doc_len + bm25_b.n * doc_len)
  IN IF p < 0 THEN NaN                                \* ln of a negative ratio
     ELSE IF avg_doc_len = 0
          THEN IF doc_len = 0 \/ bm25_b.n = 0 \/ bm25_k1.n = 0
               THEN NaN                              \* 0/0, or 0 * inf
               ELSE 0                                \* x/0 = inf, so fq*(k1+1)/inf = 0
     ELSE IF den = 0 THEN NaN                         \* fq = 0 and no length term: 0/0
     ELSE RoundDiv(LnMilli[<<p, q>>] * num, den)

=============================================================================
