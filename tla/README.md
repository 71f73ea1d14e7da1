# TLA+ models of lanterndb's BM25 aggregate and CLIP encoder

This directory holds TLA+ models of the parts of the repository that have
state and control worth model checking: the `bm25_agg` PostgreSQL aggregate
(pgrx) in `src/lantern_extras/src/bm25_agg.rs` and the CLIP
`EncoderService` in `src/src/encoder.rs`. TLC checks the models. `PROJECT.json` maps every definition to the
source lines it translates. It also lists the runs, the mutants that show
each property can fail, the findings and the hazards.

## The system

The repository has three source files.

| part | source | what it does | modelled |
|---|---|---|---|
| scoring kernel `calculate_bm25` | bm25_agg.rs 59-93 | the BM25 contribution of one (term, doc) posting in f32, with an ERROR on NaN | `Bm25Kernel` |
| entry points `bm25_agg_base`, `bm25_agg_limit`, `bm25_agg_limit_bm25params` | bm25_agg.rs 360-505 | validate limit/corpus_size/avg_doc_len, store them and k1, b in the state, call `state_base` | `Bm25Agg` (`StateBase`, `StateLimit`, `StateParams`) |
| per-row dispatcher `state_base` | bm25_agg.rs 124-230 | parse the posting row; promote it to the bloom path once more than 100 docs are scored, or add each posting's score into the HashMap | `Bm25Agg` (`ApplyRow`, `RowFailure`, `Postings`) |
| bloom accumulator `maybe_use_bloom_filter` | bm25_agg.rs 96-122 | convert the row's bloom and store it with a representative score | `Bm25Agg` (`BloomScore`) |
| finalizer `finalize_base` | bm25_agg.rs 245-334 | take the map, keep the `limit*10` best scores in a min-heap, add bloom scores, sort descending, truncate to `limit` | `Bm25Agg` (`FinalizeBase`, `Drain`, `LimitedResults`) |
| parallel `combine` | bm25_agg.rs 231-244 | commented out, never registered | not modelled |
| `bm25result` type | bm25_agg.rs 45-57 | SQL DDL | not modelled |
| daemon job records | lantern_daemon/src/types.rs | decode DB rows into structs | not modelled (see below) |
| CLIP encoder `EncoderService` and `mod clip` | src/encoder.rs | build tokenizer and ONNX sessions; tokenize, reshape, run and chunk text; decode, resize and lay out images | `ClipEncoder` |

**How the parts interact.** PostgreSQL runs one aggregation per group. For
each input row it calls one of the three transition functions on the shared
`BM25InternalState`. Each transition function calls `state_base`, which calls
`calculate_bm25` per posting or `maybe_use_bloom_filter` for the whole row.
At the end PostgreSQL calls `finalize_base` through the aggregate's
`finalize`. A window aggregate calls it once for every new frame and goes on
feeding rows to the same state. The final function has no `FINALIZE_MODIFY`
declaration, so pgrx registers it with PostgreSQL's default, READ_ONLY, which
permits this. The transition value is NULL until the first transition stores
a default state in it (`get_or_insert_default`, lines 382/423/480); a final
call on NULL builds a default state of its own (396/452/512) that is never
stored.

## Modules

- **`Bm25Kernel`**: `CalculateBm25` is `calculate_bm25`.
  - The formula is computed exactly over rationals and rounded to integer
    milli-units.
  - `ln` comes from a table constant `LnMilli`. The MC modules give it the
    values for their corpus.
  - The IEEE cases the code can reach are kept:
    - `ln` of a negative ratio is NaN.
    - A 0/0 is NaN.
    - `doc_len/0` is +inf, so the contribution is 0.
  - f32 rounding of intermediate results is not modelled. Two scores are
    equal in the model exactly when the formula makes them equal.
- **`Bm25Agg`**: the aggregate.
  - The variables are the state's fields (`data` as a function doc↦score or
    `Nil` once taken, `corpus_size`, `avg_doc_len`, `limit`, `k1`, `b`,
    `blooms` as a sequence of (filter, score)). Two executor variables:
    - `call`: the entry point and arguments of this aggregation.
    - `pending`: the rows not yet fed.
    - `stored`: the transition value is non-NULL. `Init` has it FALSE, with
      the state fields at the values `get_or_insert_default` would create;
      every transition function sets it. `Emit`'s `data.take()` empties
      `data` only when it is stored; on NULL it takes from a temporary.
  - There are two history variables:
    - `routed`: for each fed row, the path it took.
    - `outputs`: each finalize result, whether it came from the limited
      branch, and how many rows had been fed (`at`).
  - `failure` records the first panic or ERROR and where it happened. The
    statement ends there.
  - Actions:
    - `StateBase`, `StateLimit` and `StateParams` each model a whole
      transition function: validation, then assignments, then `state_base`.
    - `FinalizeBase` is the final function.
    - `Done` stutters once the statement has ended, so deadlock checking
      stays on.
  - `RowFailure` keeps every early return and panic of `state_base` in code
    order.
  - A bloom filter is the set of doc ids it reports. False positives are
    part of the row constants. The `PGBloom` → fastbloom conversion is not
    modelled.
  - The heap is modelled over every iteration order of the HashMap:
    - `Drain` is a recursive operator over the heap admission step `Push`.
    - `HeapOutcomes` collects the results over all `SetToSeqs` orders.
  - The sort is `sort_unstable_by`, so ties come out in any order. The final
    step chooses among all sorted results.
  - `Fairness` is weak fairness of the transition functions and of the final
    call (see *Executor assumptions*). `FairSpec` adds it to `Spec`.
- **`Bm25F32Sum`**: the f32 arithmetic of the exact path's `*e += bm25`.
  `Bm25Agg` scores exactly; this module keeps the rounding. A value is an
  integer number of 2^-27 units. `F32Add` rounds the exact sum to a 24-bit
  significand, ties to even. `StateBase(row)` applies one row's
  contributions in the order the executor picks. `MCBm25F32Sum` uses six
  rows of real `calculate_bm25` outputs (corpus 7, avg_doc_len 3, k1 1.2,
  b 0.75) over three docs, computed with binary32 rounding and given in
  units. Different feeding orders reach different final maps.
- **`ClipEncoder`**: `EncoderService::new` and the four calls.
  - `service` is the constructed service (padding mode, which models were
    built) or `Nil`. `last` is the last call's input and result (`out` or
    `err`). `failure` is a panic, which ends the process.
  - `New(pad)` chooses nondeterministically whether the tokenizer, the text
    and image model files and the sessions load. Each failure is the `?`
    Err the code returns.
  - `ProcessText` keeps, in order: the text-model `expect`, `encode_batch`
    with padding (`PadLen`: `Fixed` or the batch's longest) and the
    tokenizer's truncation, `from_shape_vec((n, len / n))` (a division by
    zero panics on an empty batch), the run, and chunking by `shape[1]`.
    Tokens are `<<text, k>>`, so a row shows which text it came from.
  - `ProcessImage` keeps the image-model `expect`, the per-image decode
    failing the whole batch, and the pixel loop (`PixelTensor`). Pixels are
    labelled by image and position, so the layout is visible.
  - The ONNX model is abstracted to one output row of `D` values per input
    row (`Run`). The tokenizer is a token count per text.
  - `ClipProcessText` and `ClipProcessImage` are the `mod clip` wrappers,
    which build a service and call it.
- **`MCClipEncoder`**: texts of 2, 4 and 6 tokens, `PAD_FIXED = 4` (for 77),
  batches of up to two texts, images `P`, `Q` and an undecodable `Bad`,
  `VISION_SIZE = 2`, `D = 2`.
- **`MCBm25Agg`**: the model for the core runs.
  - A corpus of 7 documents.
  - Eleven posting rows:
    - rare, mid, wide and common terms;
    - a row with a duplicate doc id and a row with arrays of unequal length;
    - five malformed rows: non-record, null term_freq, int8 arrays, a null
      element, a null term.
  - Every query of up to three good rows, and every bad row paired with a
    good one.
  - limit ∈ {-1, 0, 1, 2} (agg_core; the other runs {-1, 1, 2} or {0}), corpus_size ∈ {0, 7}, avg_doc_len ∈ {-1, 0, 3, NaN},
    and two (k1, b) pairs.
- **`MCBm25Scenario`**: the corpus and query of `test_bm25_agg`
  (lines 535-608), with the real constants 100 and 10.

### Scaling

The code promotes a row once more than 100 docs are scored, and
over-collects 10× the limit. The core model uses `PROMOTE_AFTER = 1` and
`OVER_COLLECT = 2`. The comparisons and arithmetic are unchanged; only the
constants are smaller. With these values, promotion happens in the middle of
a query, and so does a heap that rejects docs. Both are what the top-k and
bloom properties are about. Larger constants would only need longer rows to
reach the same states.

### Executor assumptions

`WINDOW = FALSE` models a plain aggregate: the final function is called once,
after all rows (on the NULL value when there were none). `WINDOW = TRUE`
lets the executor call the final function once for each frame, before the
first row or after any row, and then feed further rows to the same state, as
PostgreSQL does for a READ_ONLY final function. A second final call on an
unchanged frame is not modelled: PostgreSQL reuses the previous result.

`FairSpec` assumes weak fairness of feeding a row and of the final call. The
executor justifies this: once the statement starts, PostgreSQL feeds every
row of the group and then calls the final function, unless an ERROR or panic
ends the statement first. Nothing else competes for the aggregation state.
The encoder and `Bm25F32Sum` need no fairness: only safety is checked of
them.

## Runs

| run | cfg | expect | checks | result |
|---|---|---|---|---|
| agg_core | MCBm25Agg.cfg | pass | TypeOK, ScoresMatchPostings, ResultsFaithful, TopKUpToWindow, UnlimitedOnlyEmpty, AnswersValidQueries | ~19k distinct states |
| agg_limit_zero | MCBm25Agg_limit0.cfg | violation | FinalizeTotal | limit 0 panics in `heap.peek().unwrap()` |
| agg_window | MCBm25Agg_window.cfg | violation | FinalizeReadOnly | row, final call, row: the second transition unwraps the taken `data` (line 141) |
| agg_avg_zero | MCBm25Agg_avg0.cfg | violation | ZeroAvgDocLenRejected | avg_doc_len 0 is scored 0, not rejected |
| agg_bloom_bound | MCBm25Agg_bloombound.cfg | violation | BloomOverestimateBound | negative bloom scores break spec 8.4 |
| scenario_a | MCBm25Scenario.cfg | violation | Doc2RanksFirst | docs 1, 2, 4 tie exactly; "doc 2 first" is luck |
| f32_accumulate | MCBm25F32Sum.cfg | pass | TypeOK, AccumulationErrorBounded | 386 distinct states |
| f32_order_dependence | MCBm25F32Sum_order.cfg | violation | OrderIndependentScores | feeding order changes the f32 scores |
| encoder_core | MCClipEncoder.cfg | pass | TypeOK, TextRowsAligned, ImageRowsAligned | 1880 distinct states |
| encoder_image_layout | MCClipEncoder_layout.cfg | violation | ImageLayoutNCHW | pixels are written transposed |
| encoder_empty_batch | MCClipEncoder_empty.cfg | violation | ProcessTextReturns | an empty text batch divides by zero |

What the properties say:

- **ScoresMatchPostings.** The accumulated score of every doc equals the sum,
  over the rows routed to the exact path, of the kernel applied to the
  postings `zip` keeps.
- **ResultsFaithful.** Every limited result has these properties:
  - it is sorted descending;
  - its doc ids are distinct;
  - each score is exact score + bloom mass;
  - its length is `min(limit, #docs)`.
- **TopKUpToWindow.** A doc left out of the result either scores no higher
  than every returned doc, or was pushed out by at least `limit*OVER_COLLECT`
  docs with a higher exact score. This is the guarantee the over-collection
  actually gives.
- **UnlimitedOnlyEmpty.** The unlimited branch, which ignores blooms, only
  ever returns an empty result. It is reached in two ways:
  - `bm25_agg(row)`, which always panics earlier on the unset `corpus_size`;
  - an aggregation fed no row. The final function's
    `get_or_insert_default` then builds a state with no limit, whatever
    limit the query asked for.
- **FinalizeTotal.** The final function never fails. Checked with limit 0
  only (agg_limit_zero); `AnswersValidQueries` covers positive limits.
- **FinalizeReadOnly.** No transition fails because an earlier final call
  consumed the stored state, as a READ_ONLY final function must not.
- **AnswersValidQueries.** Under `FairSpec`, a limited query with valid
  arguments, a positive limit and well-formed rows is eventually answered.
- **AccumulationErrorBounded.** This is the guarantee f32 accumulation
  gives in place of order independence. After m contributions to a doc, in
  any feeding order, the stored score differs from the exact sum by at most
  (m − 1)·2⁻²⁴·Σ|xᵢ|, with one unit of slack per addition.
  - On the six real rows the worst order reaches 94% of this bound.
  - A significand one bit short (the `F32Round23` mutant) exceeds it.
  - So the order dependence `f32_order_dependence` finds is a
    rounding-level effect, not a change in which documents are scored.
- **OrderIndependentScores.** Once all rows are fed, the scores equal those
  of one fixed order (spec §5, property 8.2).
- **TextRowsAligned / ImageRowsAligned.** Every successful call returns one
  `D`-vector per input, computed from that input's tokens or pixels alone.
- **ImageLayoutNCHW.** Tensor element `[i][c][h][w]` is channel `c` of the
  pixel at column `w`, row `h`.
- **ProcessTextReturns.** `process_text` returns (Ok or Err) rather than
  panicking, whenever the text model was loaded.

The text-alignment run assumes a tokenizer that truncates to the padded
length. With `TRUNCATION = 0` (no truncation in `tokenizer.json`, which is
not in the repository), TLC finds rows that straddle two texts. This is
listed as a hazard, not a finding.

The README does not restate the findings; `PROJECT.json` lists them.

## Not modelled, and why

- **Unvalidated k1/b** (bm25_agg.rs 500). For fq > 0 the kernel's
  denominator is positive whenever k1 ≥ 0 and 0 ≤ b ≤ 1, and `ParamArgs`
  stays in that range. Outside it the f32 kernel returns ±inf, and
  `inf + -inf` in `*e += bm25` stores a NaN that only the final function's
  comparator reports. `Bm25Kernel` is exact over rationals and has no
  infinities. The score properties are stated for the range where it is
  faithful. An `ASSUME` on `ParamArgs` in `Bm25Agg` states that range.
- **Arguments that vary between rows** (bm25_agg.rs 439). Spec §4.6 makes
  constant arguments the caller's obligation ("MUST be consistent ... the
  design does not detect drift"). The only caller in the repository passes
  literals. The model fixes the arguments per aggregation.
- **`zip` of unequal arrays** (bm25_agg.rs 206). The producer is trusted to
  give arrays of length `term_freq`. `MCBm25Agg` includes one such row
  (`RShort`), and `ScoresMatchPostings` checks what the code does with it.
- **types.rs**: plain structs filled from `tokio_postgres` rows, plus two
  setters. There is no state or control flow to explore. Whether its
  `as u16` / `as usize` casts can truncate depends on table definitions
  outside the repository.
- **Tokenizer, image decoding/resizing, ONNX runtime**: `ClipEncoder`
  abstracts these to token counts, pixel labels and one output row per
  input row.
- **`combine`** (bm25_agg.rs 231-244): commented out and never registered,
  so PostgreSQL never runs a partial aggregation.
- **`bm25result`**: SQL DDL.
- **An abstract specification of the aggregate.** Its promise (a ranking of
  the consumed rows, top-k up to the heap window) is what `ResultsFaithful`
  and `TopKUpToWindow` state; the aggregate may stop with an ERROR after
  any row for reasons only the code's own checks define, so a refinement
  adds nothing those invariants do not already check.
