------------------------------ MODULE Bm25Agg ------------------------------
(***************************************************************************)
(* The bm25_agg aggregate of lantern_extras/src/bm25_agg.rs, driven by the *)
(* PostgreSQL executor.                                                    *)
(*                                                                         *)
(* One aggregation: the executor picks an entry point (bm25_agg(row),      *)
(* bm25_agg(row, limit, corpus_size, avg_doc_len) or                       *)
(* bm25_agg(row, limit, corpus_size, avg_doc_len, k1, b)) with constant    *)
(* arguments, feeds it the rows of the query's terms one at a time in any  *)
(* order, and then calls the final function.  Used as a window aggregate   *)
(* (WINDOW = TRUE) the executor calls the final function for each new      *)
(* frame (once per frame: an unchanged frame reuses the last result),     *)
(* possibly before the first row, and keeps transitioning the same state  *)
(* afterwards, which PostgreSQL allows for a final function declared      *)
(* READ_ONLY, the default pgrx uses.                                       *)
(*                                                                         *)
(* The transition value (Internal) is NULL until the first transition     *)
(* stores a default state in it (get_or_insert_default); a final call on  *)
(* NULL builds a default state of its own that is never stored.           *)
(*                                                                         *)
(* Any ERROR (ereport!/error!) or Rust panic aborts the statement and      *)
(* discards the state; the model records it in `failure` and stops.        *)
(***************************************************************************)
EXTENDS Bm25Kernel, Integers, Sequences, FiniteSets, SequencesExt, TLC

CONSTANTS
  Rows,           \* term rows the scan can produce (records, see Row below)
  Queries,        \* sets of rows one aggregation may be fed
  LimitArgs,      \* values the caller may pass as limit        (i32)
  CorpusArgs,     \* values the caller may pass as corpus_size  (i32)
  AvgArgs,        \* values the caller may pass as avg_doc_len  (f32, may be NaN)
  ParamArgs,      \* <<k1, b>> pairs the caller may pass to the 6-argument form
  PROMOTE_AFTER,  \* bloom promotion needs more exact docs than this (code: 100)
  OVER_COLLECT,   \* heap over-collection factor                      (code: 10)
  WINDOW,         \* TRUE: used as a window aggregate
  Nil             \* model value: Option::None, SQL NULL

ASSUME PROMOTE_AFTER \in Nat /\ OVER_COLLECT \in Nat \ {0} /\ WINDOW \in BOOLEAN

VARIABLES
  \* BM25InternalState
  data,           \* HashMap<i32, f32> doc_id -> partial score, or Nil once taken
  corpus_size,    \* Option<u64>
  avg_doc_len,    \* Option<f32>
  limit,          \* Option<usize>
  k1, b,          \* f32, as rationals
  blooms,         \* Vec<(f32, BloomFilter)>: [score, filter] records
  \* the executor and history
  stored,         \* the Internal transition value is non-NULL
  call,           \* entry point and arguments of this aggregation
  pending,        \* rows not yet fed to the transition function
  routed,         \* history: rows fed, in order, with the path each took
  outputs,        \* history: results returned by the final function
  failure         \* Nil, or the [in, why] of the ERROR/panic that aborted

inner == <<data, corpus_size, avg_doc_len, limit, k1, b, blooms>>
vars  == <<inner, stored, call, pending, routed, outputs, failure>>

(* The input rows of a term: `kind` is "record" for terms.* and anything  *)
(* else for a non-record argument; arr_type is the element type of the    *)
(* doc_ids/fqs/doc_lens columns; bloom is doc_ids_bloom, a superset of    *)
(* doc_ids (false positives allowed), or Nil.                             *)
Row == [kind: {"record", "scalar"}, term: {"term", Nil},
        term_freq: Nat \cup {Nil}, doc_ids: Seq(Nat \cup {Nil}),
        fqs: Seq(Nat \cup {Nil}), doc_lens: Seq(Nat \cup {Nil}),
        arr_type: {"int4", "int8"}, bloom: SUBSET Nat \cup {Nil}]

ASSUME Rows \subseteq Row /\ \A q \in Queries : q \subseteq Rows

(* The kernel is faithful for k1 >= 0 and 0 <= b <= 1, where its          *)
(* denominator is positive for fq > 0; the 6-argument form does not check *)
(* this (bm25_agg.rs 500), and outside it f32 gives infinities the model   *)
(* does not have.                                                          *)
ASSUME \A kb \in ParamArgs :
         /\ kb[1].n >= 0 /\ kb[1].d > 0
         /\ kb[2].d > 0 /\ 0 <= kb[2].n /\ kb[2].n <= kb[2].d

EmptyMap == [d \in {} |-> 0]

(* Mutant: a Default that fills in corpus_size and avg_doc_len.           *)
DefaultStateWithConfig ==
  [data |-> EmptyMap, corpus_size |-> 7, avg_doc_len |-> 3, limit |-> Nil,
   k1 |-> [n |-> 12, d |-> 10], b |-> [n |-> 3, d |-> 4], blooms |-> <<>>]

(* impl Default for BM25InternalState; get_or_insert_default creates it on *)
(* the first call.                                                         *)
DefaultState ==
  [data |-> EmptyMap, corpus_size |-> Nil, avg_doc_len |-> Nil, limit |-> Nil,
   k1 |-> [n |-> 12, d |-> 10], b |-> [n |-> 3, d |-> 4], blooms |-> <<>>]

Calls ==
  {[variant |-> "base"]}
  \cup [variant: {"limit"}, limit: LimitArgs, corpus: CorpusArgs, avg: AvgArgs]
  \cup [variant: {"params"}, limit: LimitArgs, corpus: CorpusArgs, avg: AvgArgs,
        kb: ParamArgs]

(* The transition value starts NULL (stored = FALSE); the inner fields    *)
(* then hold the default state that get_or_insert_default would create,   *)
(* whether the first transition stores it or a final call uses it as an   *)
(* unstored temporary.                                                    *)
Init ==
  /\ stored = FALSE
  /\ data = DefaultState.data
  /\ corpus_size = DefaultState.corpus_size
  /\ avg_doc_len = DefaultState.avg_doc_len
  /\ limit = DefaultState.limit
  /\ k1 = DefaultState.k1
  /\ b = DefaultState.b
  /\ blooms = DefaultState.blooms
  /\ call \in Calls
  /\ pending \in Queries
  /\ routed = <<>>
  /\ outputs = <<>>
  /\ failure = Nil

-----------------------------------------------------------------------------
(* state_base                                                             *)

(* doc_ids.zip(fqs.zip(doc_lens)) stops at the shortest array.            *)
Zipped(row) == Min({Len(row.doc_ids), Len(row.fqs), Len(row.doc_lens)})

(* calculate_bm25 for posting i of row under configuration s.             *)
Contribution(row, s, i) ==
  CalculateBm25(row.doc_lens[i], row.fqs[i], row.term_freq,
                s.corpus_size, s.avg_doc_len, s.k1, s.b)

(* maybe_use_bloom_filter: a typical document, fq = 1, doc_len = avg.     *)
BloomScore(row, s) ==
  CalculateBm25(s.avg_doc_len, 1, row.term_freq,
                s.corpus_size, s.avg_doc_len, s.k1, s.b)

(* The promotion check: more than PROMOTE_AFTER exact docs and a          *)
(* non-null doc_ids_bloom.                                                *)
Promotes(row) == Cardinality(DOMAIN data) > PROMOTE_AFTER /\ row.bloom # Nil

(* iter_deny_null panics on a NULL element; calculate_bm25 ERRORs on NaN. *)
PostingFailure(row, s, i) ==
  IF Nil \in {row.doc_ids[i], row.fqs[i], row.doc_lens[i]} THEN "null_element"
  ELSE IF Contribution(row, s, i) = NaN THEN "nan"
  ELSE Nil

(* Why state_base aborts on this row, in the order the code checks, or    *)
(* Nil when it runs to completion.                                        *)
RowFailure(row, s) ==
  LET bad == {i \in 1..Zipped(row) : PostingFailure(row, s, i) # Nil} IN
  IF row.kind # "record" THEN "non_record"
  ELSE IF Nil \in {s.avg_doc_len, s.corpus_size} THEN "config_unwrap"
  ELSE IF row.term_freq = Nil THEN "term_freq_null"
  ELSE IF data = Nil THEN "data_taken"
  ELSE IF Promotes(row) THEN (IF BloomScore(row, s) = NaN THEN "nan" ELSE Nil)
  ELSE IF row.arr_type # "int4" THEN "array_type"
  ELSE IF row.term = Nil THEN "term_null"
  ELSE IF bad = {} THEN Nil
  ELSE PostingFailure(row, s, Min(bad))

(* Mutant: insert overwrites an existing score instead of adding to it.  *)
AddPostingOverwrite(m, p) ==
  IF p[1] \in DOMAIN m THEN [m EXCEPT ![p[1]] = p[2]] ELSE m @@ (p[1] :> p[2])

(* entry(doc_id).and_modify(|e| *e += bm25).or_insert(bm25)               *)
AddPosting(m, p) ==
  IF p[1] \in DOMAIN m THEN [m EXCEPT ![p[1]] = @ + p[2]] ELSE m @@ (p[1] :> p[2])

Postings(row, s) ==
  [i \in 1..Zipped(row) |-> <<row.doc_ids[i], Contribution(row, s, i)>>]

(* state_base(row) on the inner state configured as s (the entry point's  *)
(* assignments already made).                                             *)
ApplyRow(row, s) ==
  LET why == RowFailure(row, s) IN
  /\ pending' = pending \ {row}
  /\ corpus_size' = s.corpus_size /\ avg_doc_len' = s.avg_doc_len
  /\ limit' = s.limit /\ k1' = s.k1 /\ b' = s.b
  /\ \/ /\ why # Nil
        /\ failure' = [in |-> "state", why |-> why]
        /\ UNCHANGED <<data, blooms, routed>>
     \/ /\ why = Nil /\ Promotes(row)
        /\ blooms' = Append(blooms, [score |-> BloomScore(row, s), filter |-> row.bloom])
        /\ routed' = Append(routed, [row |-> row, path |-> "bloom"])
        /\ UNCHANGED <<data, failure>>
     \/ /\ why = Nil /\ ~Promotes(row)
        /\ data' = FoldLeft(AddPosting, data, Postings(row, s))
        /\ routed' = Append(routed, [row |-> row, path |-> "exact"])
        /\ UNCHANGED <<blooms, failure>>

Current == [corpus_size |-> corpus_size, avg_doc_len |-> avg_doc_len,
            limit |-> limit, k1 |-> k1, b |-> b]

(* The executor calls the transition function only before the final one, *)
(* except in a window aggregate.                                          *)
CanTransition(row) ==
  /\ failure = Nil /\ row \in pending /\ (WINDOW \/ outputs = <<>>)

(* Mutant: the negative-limit check is missing.                           *)
ValidationFailureNoLimitCheck(c) ==
  IF c.corpus <= 0 THEN "negative_corpus_size"
  ELSE IF c.avg # NaN /\ c.avg < 0 THEN "negative_avg_doc_len"
  ELSE IF c.avg = NaN THEN "nan_avg_doc_len"
  ELSE Nil

(* The argument checks of the 4- and 6-argument entry points.             *)
ValidationFailure(c) ==
  IF c.limit < 0 THEN "negative_limit"
  ELSE IF c.corpus <= 0 THEN "negative_corpus_size"
  ELSE IF c.avg # NaN /\ c.avg < 0 THEN "negative_avg_doc_len"
  ELSE IF c.avg = NaN THEN "nan_avg_doc_len"
  ELSE Nil

Reject(row, why) ==
  /\ failure' = [in |-> "state", why |-> why]
  /\ pending' = pending \ {row}
  /\ UNCHANGED <<inner, routed>>

(* bm25_agg_base::state.  Each state function first stores the default   *)
(* state in a NULL transition value (get_or_insert_default).              *)
StateBase(row) ==
  /\ CanTransition(row) /\ call.variant = "base"
  /\ ApplyRow(row, Current)
  /\ stored' = TRUE
  /\ UNCHANGED <<call, outputs>>

(* bm25_agg_limit::state                                                  *)
StateLimit(row) ==
  /\ CanTransition(row) /\ call.variant = "limit"
  /\ \/ ValidationFailure(call) # Nil /\ Reject(row, ValidationFailure(call))
     \/ /\ ValidationFailure(call) = Nil
        /\ ApplyRow(row, [Current EXCEPT !.limit = call.limit,
                          !.corpus_size = call.corpus, !.avg_doc_len = call.avg])
  /\ stored' = TRUE
  /\ UNCHANGED <<call, outputs>>

(* bm25_agg_limit_bm25params::state                                       *)
StateParams(row) ==
  /\ CanTransition(row) /\ call.variant = "params"
  /\ \/ ValidationFailure(call) # Nil /\ Reject(row, ValidationFailure(call))
     \/ /\ ValidationFailure(call) = Nil
        /\ ApplyRow(row, [Current EXCEPT !.limit = call.limit,
                          !.corpus_size = call.corpus, !.avg_doc_len = call.avg,
                          !.k1 = call.kb[1], !.b = call.kb[2]])
  /\ stored' = TRUE
  /\ UNCHANGED <<call, outputs>>

-----------------------------------------------------------------------------
(* finalize_base                                                          *)

Entries(m) == {<<d, m[d]>> : d \in DOMAIN m}

(* Mutant: the comparator's arguments swapped (ascending sort).           *)
SortedAsc(P) ==
  {s \in SetToSeqs(P) : \A i \in 1..Len(s) - 1 : s[i][2] <= s[i + 1][2]}

(* sort_unstable_by descending score: any order among equal scores.       *)
SortedDesc(P) ==
  {s \in SetToSeqs(P) : \A i \in 1..Len(s) - 1 : s[i][2] >= s[i + 1][2]}

(* Mutant: heap capacity one limit short.                                  *)
BloomLimitOffByOne(l) == (l - 1) * OVER_COLLECT

BloomLimit(l) == l * OVER_COLLECT

(* Mutant: the replacement test inverted (heap.peek().1 > e.1).           *)
PushKeepsLowest(h, e, cap) ==
  IF Cardinality(h) < cap THEN {h \cup {e}}
  ELSE IF h = {} THEN {}
  ELSE LET root == CHOOSE x \in {y[2] : y \in h} : \A y \in h : x <= y[2] IN
       IF e[2] < root THEN {(h \ {x}) \cup {e} : x \in {y \in h : y[2] = root}}
       ELSE {h}

(* One step of the drain into the min-heap of capacity cap: the set of    *)
(* heaps it can leave (pop removes one of the minimal entries).  An empty *)
(* result is heap.peek().unwrap() on an empty heap: a panic.              *)
Push(h, e, cap) ==
  IF Cardinality(h) < cap THEN {h \cup {e}}
  ELSE IF h = {} THEN {}
  ELSE LET root == CHOOSE x \in {y[2] : y \in h} : \A y \in h : x <= y[2] IN
       IF root < e[2] THEN {(h \ {x}) \cup {e} : x \in {y \in h : y[2] = root}}
       ELSE {h}

RECURSIVE Drain(_, _, _)
Drain(hs, es, cap) ==
  IF es = <<>> THEN hs
  ELSE Drain(UNION {Push(h, Head(es), cap) : h \in hs}, Tail(es), cap)

(* data.into_iter() visits the HashMap in an arbitrary order.             *)
HeapOutcomes(m, cap) == UNION {Drain({{}}, o, cap) : o \in SetToSeqs(Entries(m))}

(* Sum of the representative scores of the blooms that contain doc.       *)
BloomMass(doc) ==
  FoldLeft(LAMBDA acc, e : IF doc \in e.filter THEN acc + e.score ELSE acc, 0, blooms)

LimitedResults(l) ==
  UNION {{SubSeq(s, 1, Min({l, Len(s)})) :
            s \in SortedDesc({<<e[1], e[2] + BloomMass(e[1])>> : e \in h})} :
         h \in HeapOutcomes(data, BloomLimit(l))}

(* The executor calls the final function once, after the last row,        *)
(* except in a window aggregate, where it calls it once for every frame, *)
(* the first one possibly empty.                                          *)
CanFinalize ==
  /\ failure = Nil
  /\ \/ ~WINDOW /\ pending = {} /\ outputs = <<>>
     \/ WINDOW /\ \A k \in DOMAIN outputs : outputs[k].at < Len(routed)

(* Return r; data.take() empties the stored state, and on NULL only the   *)
(* temporary state that is then dropped.                                  *)
Emit(limited, r) ==
  /\ outputs' = Append(outputs, [limited |-> limited, res |-> r, at |-> Len(routed)])
  /\ data' = IF stored THEN Nil ELSE data
  /\ UNCHANGED failure

(* finalize_base on the state finalize's get_or_insert_default returns.   *)
(* data.take().unwrap() would panic on data = None, but a final call never *)
(* meets it: after a take the next frame needs a transition, and that one  *)
(* panics first (RowFailure's "data_taken").                               *)
FinalizeBase ==
  /\ CanFinalize /\ data # Nil
  /\ \/ /\ limit # Nil
        /\ LET outs == LimitedResults(limit) IN
           \/ /\ outs = {}
              /\ failure' = [in |-> "finalize", why |-> "heap_peek_empty"]
              /\ UNCHANGED <<data, outputs>>
           \/ \E r \in outs : Emit(TRUE, r)
     \/ /\ limit = Nil
        /\ \E r \in SortedDesc(Entries(data)) : Emit(FALSE, r)
  /\ UNCHANGED <<corpus_size, avg_doc_len, limit, k1, b, blooms, stored, call, pending,
                 routed>>

(* The statement is over: it failed, or every row was fed and the final  *)
(* function returned.                                                     *)
Done ==
  /\ failure # Nil \/ (pending = {} /\ outputs # <<>>)
  /\ UNCHANGED vars

Next ==
  \/ \E row \in Rows : StateBase(row) \/ StateLimit(row) \/ StateParams(row)
  \/ FinalizeBase
  \/ Done

Spec == Init /\ [][Next]_vars

(* The executor runs every aggregation to its end: it keeps feeding the   *)
(* rows of the group and then calls the final function (weak fairness of  *)
(* both; nothing in the code can starve either).                          *)
Fairness ==
  /\ WF_vars(\E row \in Rows : StateBase(row) \/ StateLimit(row) \/ StateParams(row))
  /\ WF_vars(FinalizeBase)

FairSpec == Spec /\ Fairness

-----------------------------------------------------------------------------
(* Properties                                                             *)

TypeOK ==
  /\ data = Nil \/ (DOMAIN data \subseteq Nat /\ Range(data) \subseteq Int)
  /\ corpus_size \in Nat \cup {Nil} /\ avg_doc_len \in Int \cup {Nil}
  /\ limit \in Nat \cup {Nil}
  /\ \A i \in DOMAIN blooms : blooms[i].score \in Int /\ blooms[i].filter \subseteq Nat
  /\ stored \in BOOLEAN /\ call \in Calls /\ pending \subseteq Rows
  /\ routed \in Seq([row: Rows, path: {"exact", "bloom"}])
  /\ outputs \in Seq([limited: BOOLEAN, res: Seq(Nat \X Int), at: Nat])
  /\ failure = Nil \/ failure \in [in: {"state", "finalize"}, why: STRING]

(* The reference: the exact score of a doc is the sum, over every posting  *)
(* of every row that took the exact path, of its calculate_bm25, however   *)
(* the rows and the postings were ordered.                                 *)
ExactRows == {routed[i].row : i \in {j \in DOMAIN routed : routed[j].path = "exact"}}
ScoredDocs == UNION {{r.doc_ids[i] : i \in 1..Zipped(r)} : r \in ExactRows}
RefScore(doc) ==
  MapThenSumSet(LAMBDA o : Contribution(o[1], Current, o[2]),
                UNION {{<<r, i>> : i \in {j \in 1..Zipped(r) : r.doc_ids[j] = doc}} :
                       r \in ExactRows})

(* Exact accumulator (state_base's insert-or-add loop): while the          *)
(* aggregation runs, `data` holds exactly the docs of the exact-path rows, *)
(* each with the sum of all its postings' contributions, whatever the      *)
(* order of the rows, duplicate doc ids in a row, truncation by zip, and   *)
(* rows diverted to the bloom path in between.                             *)
ScoresMatchPostings ==
  (failure = Nil /\ data # Nil) =>
    /\ DOMAIN data = ScoredDocs
    /\ \A d \in DOMAIN data : data[d] = RefScore(d)

(* finalize_base returns what the aggregation computed: distinct docs that *)
(* were scored exactly, each with its exact score plus (limited mode) the  *)
(* representative scores of the blooms that contain it, sorted by score    *)
(* descending, and min(limit, #docs) of them (all, in unlimited mode).     *)
ResultsFaithful ==
  \A k \in DOMAIN outputs :
    LET o == outputs[k]
        R == o.res
        Score(d) == IF o.limited THEN RefScore(d) + BloomMass(d) ELSE RefScore(d)
    IN /\ \A i \in DOMAIN R : R[i][1] \in ScoredDocs /\ R[i][2] = Score(R[i][1])
       /\ \A i, j \in DOMAIN R : i < j => R[i][1] # R[j][1] /\ R[i][2] >= R[j][2]
       /\ Len(R) = IF o.limited THEN Min({limit, Cardinality(ScoredDocs)})
                   ELSE Cardinality(ScoredDocs)

(* The guarantee of the 10x over-collecting heap (finalize_base): a doc    *)
(* left out of a limited result never has a higher final (exact + bloom)   *)
(* score than a doc in it, unless at least limit * OVER_COLLECT other docs *)
(* have an exact score at least as high, so the heap had no room for it.   *)
(* Without promoted terms this says the result is an exact top-k.          *)
TopKUpToWindow ==
  \A k \in DOMAIN outputs : outputs[k].limited =>
    LET R  == outputs[k].res
        In == {R[i][1] : i \in DOMAIN R}
    IN \A i \in DOMAIN R, e \in ScoredDocs \ In :
         \/ RefScore(e) + BloomMass(e) <= R[i][2]
         \/ Cardinality({f \in ScoredDocs \ {e} : RefScore(f) >= RefScore(e)})
              >= BloomLimit(limit)

(* Unlimited mode (limit = None) is reached by bm25_agg(row), whose        *)
(* transition unwraps the unset corpus_size/avg_doc_len, and by any        *)
(* aggregation fed no row (finalize's get_or_insert_default state); so     *)
(* every result of the unlimited branch, the one that ignores blooms, is   *)
(* empty.                                                                  *)
UnlimitedOnlyEmpty ==
  \A k \in DOMAIN outputs : ~outputs[k].limited => outputs[k].res = <<>>

(* The final function is total: on any state the transitions left behind   *)
(* it returns a result and never raises an ERROR or panics.                *)
FinalizeTotal == failure = Nil \/ failure.in = "state"

(* A final function declared READ_ONLY (pgrx's default, as here) must      *)
(* leave the transition state as it found it: a window aggregate keeps     *)
(* transitioning the state after a final call, and no such transition may  *)
(* fail because finalize_base consumed the state's data.                   *)
FinalizeReadOnly == failure = Nil \/ failure.why # "data_taken"

(* A row the scan produces for a term of terms.*: a record with a term,   *)
(* a term_freq no larger than the corpus, int4 arrays without NULLs.      *)
WellFormedRow(r, corpus) ==
  /\ r.kind = "record" /\ r.term # Nil /\ r.arr_type = "int4"
  /\ r.term_freq # Nil /\ r.term_freq <= corpus
  /\ \A i \in 1..Zipped(r) : Nil \notin {r.doc_ids[i], r.fqs[i], r.doc_lens[i]}

(* An aggregation called with arguments that pass validation, a positive  *)
(* limit and a positive avg_doc_len, over well-formed rows, eventually    *)
(* returns a ranking: no transition, no kernel NaN and no heap operation  *)
(* in finalize_base aborts it.                                            *)
AnswersValidQueries ==
  ( /\ call.variant # "base" /\ ValidationFailure(call) = Nil
    /\ call.limit > 0 /\ call.avg > 0
    /\ \A r \in pending : WellFormedRow(r, call.corpus) )
  => <>(outputs # <<>>)

=============================================================================
