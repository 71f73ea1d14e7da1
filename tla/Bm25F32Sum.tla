----------------------------- MODULE Bm25F32Sum -----------------------------
(***************************************************************************)
(* The exact accumulator of state_base (bm25_agg.rs) with its f32          *)
(* arithmetic: every posting's contribution is added into data[doc_id]     *)
(* with `*e += bm25`, an IEEE-754 binary32 addition rounded to nearest,    *)
(* ties to even.  Bm25Agg computes scores exactly; this module keeps the   *)
(* rounding and abstracts everything else of a row to the contributions    *)
(* calculate_bm25 returned for it.                                         *)
(*                                                                         *)
(* An f32 value is an integer number of units, a unit being a fixed power *)
(* of two the MC module names.  A binary32 value has a 24-bit significand, *)
(* so an integer v is representable when |v| < 2^24 or when v is a        *)
(* multiple of 2^(BitLen(|v|) - 24).  This is exact for the values whose  *)
(* ulp is at least one unit, which the MC module's values and sums are.   *)
(* Sums stay below 2^31 units, TLC's integer range.                        *)
(***************************************************************************)
EXTENDS Integers, FiniteSets, Sequences, SequencesExt

CONSTANTS
  Rows,       \* the rows of one aggregation: doc_id |-> f32 contribution
  RowOrder    \* a sequence of Rows: the order the reference sum uses

ASSUME RowOrder \in Seq(Rows) /\ Range(RowOrder) = Rows

VARIABLES
  data,      \* the HashMap doc_id -> f32 score
  pending    \* rows the executor has not fed yet

vars == <<data, pending>>

AbsVal(v) == IF v < 0 THEN -v ELSE v

RECURSIVE BitLen(_)
BitLen(a) == IF a = 0 THEN 0 ELSE 1 + BitLen(a \div 2)

(* Rounding of a non-negative a to a multiple of u, ties to even.          *)
RoundHalfEven(a, u) ==
  LET q == a \div u
      r == a % u
  IN IF 2 * r < u \/ (2 * r = u /\ q % 2 = 0) THEN q * u ELSE (q + 1) * u

(* Mutant: the shift one bit short, a 23-bit significand.                 *)
F32Round23(v) ==
  LET a == AbsVal(v)
      s == BitLen(a) - 23
  IN IF s <= 0 THEN v
     ELSE IF v < 0 THEN -RoundHalfEven(a, 2^s) ELSE RoundHalfEven(a, 2^s)

(* The binary32 value nearest to the exact v.                              *)
F32Round(v) ==
  LET a == AbsVal(v)
      s == BitLen(a) - 24
  IN IF s <= 0 THEN v
     ELSE IF v < 0 THEN -RoundHalfEven(a, 2^s) ELSE RoundHalfEven(a, 2^s)

(* Mutant: the sum kept exact, as if the scores were not f32.             *)
F32AddExact(x, y) == x + y

(* `*e += bm25`: the exact sum, rounded once.                              *)
F32Add(x, y) == F32Round(x + y)

(* entry(doc_id).and_modify(|e| *e += bm25).or_insert(bm25) for every       *)
(* posting of one row; a row names each doc_id once.                       *)
AddRow(m, row) ==
  [d \in DOMAIN m \cup DOMAIN row |->
     IF d \notin DOMAIN row THEN m[d]
     ELSE IF d \notin DOMAIN m THEN row[d]
     ELSE F32Add(m[d], row[d])]

Init ==
  /\ data = [d \in {} |-> 0]
  /\ pending = Rows

(* One call of the transition function: state_base's posting loop.        *)
StateBase(row) ==
  /\ row \in pending
  /\ data' = AddRow(data, row)
  /\ pending' = pending \ {row}

(* The aggregation is over once every row was fed.                         *)
Done == pending = {} /\ UNCHANGED vars

Next == (\E row \in pending : StateBase(row)) \/ Done

Spec == Init /\ [][Next]_vars

-----------------------------------------------------------------------------
(* x is a binary32 value: its magnitude fits a 24-bit significand.         *)
IsF32(x) == BitLen(AbsVal(x)) <= 24 \/ AbsVal(x) % 2^(BitLen(AbsVal(x)) - 24) = 0

TypeOK ==
  /\ pending \subseteq Rows
  /\ \A d \in DOMAIN data : IsF32(data[d])

(* The exact sum, the sum of magnitudes and the number of the            *)
(* contributions to doc d of the rows fed so far.                          *)
Fed == Rows \ pending
ExactSum(d) == MapThenSumSet(LAMBDA r : r[d], {r \in Fed : d \in DOMAIN r})
AbsSum(d)   == MapThenSumSet(LAMBDA r : AbsVal(r[d]), {r \in Fed : d \in DOMAIN r})
Terms(d)    == Cardinality({r \in Fed : d \in DOMAIN r})

(* What the f32 accumulation of state_base does guarantee in place of     *)
(* order independence: after m contributions to a doc, in whatever order  *)
(* the executor fed them, the stored score is within the recursive-        *)
(* summation bound (m - 1) * 2^-24 * sum |x_i| of the exact sum (one unit  *)
(* of slack per addition for the integer division).                        *)
AccumulationErrorBounded ==
  \A d \in DOMAIN data :
    AbsVal(data[d] - ExactSum(d)) <= (Terms(d) - 1) * (AbsSum(d) \div 2^24 + 1)

(* Spec section 5 and property 8.2: the finished scores map does not       *)
(* depend on the order the executor feeds the rows of state_base.          *)
OrderIndependentScores ==
  pending = {} => data = FoldLeft(AddRow, [d \in {} |-> 0], RowOrder)

=============================================================================
