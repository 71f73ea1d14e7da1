----------------------------- MODULE ClipEncoder -----------------------------
(***************************************************************************)
(* EncoderService of src/src/encoder.rs: a CLIP tokenizer with two         *)
(* optional ONNX sessions, the batch shaping of process_text and the       *)
(* pixel layout of process_image, and the one-shot wrappers of mod clip.   *)
(*                                                                         *)
(* Data is abstracted to what the shapes tell apart: the tokenizer maps a  *)
(* text to TokLen[t] tokens <<t, k>>, a decoded and resized image is a     *)
(* function <<x, y>> -> pixel, a normalised channel value is <<c, pixel>>, *)
(* and an ONNX session maps each row of its input tensor r to the D        *)
(* scalars <<r, 1>> .. <<r, D>> of row r of its (n, D) output.  What a     *)
(* session computes is left out; which input row each output row comes    *)
(* from is what the properties are about.                                  *)
(***************************************************************************)
EXTENDS Integers, Sequences, SequencesExt, FiniteSets

CONSTANTS
  Texts, TokLen,        \* texts and their token counts with special tokens
  TRUNCATION,           \* max length set by tokenizer.json, 0 for none
  PAD_FIXED,            \* PaddingStrategy::Fixed(77), scaled
  TextBatches,          \* the &Vec<String> arguments tried
  Blobs, Decoded,       \* image byte strings; the resized image, or Nil
  Paths,                \* clip::process_image paths: a blob, or Nil (missing)
  ImageBatches,         \* the &Vec<Vec<u8>> arguments tried
  VISION_SIZE,          \* input_image_size (224 in mod clip), scaled
  D,                    \* embedding width of both models
  Nil

VARIABLES
  service,  \* Nil before EncoderService::new, else [text, image, pad]
  last,     \* the last call returned: [op, input, res |-> [out] or [err]]
  failure   \* Nil, or the panic that ended the process

vars == <<service, last, failure>>

Channels == 0 .. 2
Coords == 0 .. VISION_SIZE - 1

-----------------------------------------------------------------------------
(* process_text                                                            *)

(* pad_id 0: no text token equals it.                                      *)
PadId == <<Nil, 0>>

(* encode_batch: the ids and the attention mask of one text, truncated if *)
(* tokenizer.json says so and padded right with pad_id to padLen.          *)
Encoding(t, padLen) ==
  LET n == IF TRUNCATION > 0 /\ TokLen[t] > TRUNCATION THEN TRUNCATION ELSE TokLen[t]
      len == IF padLen > n THEN padLen ELSE n
  IN [ids  |-> [k \in 1 .. len |-> IF k <= n THEN <<t, k>> ELSE PadId],
      mask |-> [k \in 1 .. len |-> IF k <= n THEN 1 ELSE 0]]

(* Mutant: BatchLongest padding dropped.                                    *)
PadLenNone(batch, pad) == IF pad THEN PAD_FIXED ELSE 0

(* Fixed(77) pads every text to 77; BatchLongest to the longest encoding.  *)
PadLen(batch, pad) ==
  IF pad THEN PAD_FIXED
  ELSE LET n(t) == Len(Encoding(t, 0).ids)
       IN IF batch = <<>> THEN 0
          ELSE CHOOSE m \in {n(batch[i]) : i \in DOMAIN batch} :
                 \A i \in DOMAIN batch : n(batch[i]) <= m

Encodings(batch, pad) == [i \in DOMAIN batch |-> Encoding(batch[i], PadLen(batch, pad))]

(* Array2::from_shape_vec((n, len / n), v): Nil when n * (len / n) # len. *)
FromShapeVec(v, n) ==
  LET c == Len(v) \div n
  IN IF n * c # Len(v) THEN Nil
     ELSE [i \in 1 .. n |-> SubSeq(v, (i - 1) * c + 1, i * c)]

(* session.run, try_extract and .iter(): row r of the input gives the D    *)
(* scalars of row r of the output, read in row-major order.                *)
Run(rows) == FlattenSeq([i \in DOMAIN rows |-> [j \in 1 .. D |-> <<rows[i], j>>]])

(* Mutant: pieces one element short, as with seq_len read off by one.      *)
ChunksShort(s, k) ==
  [i \in 1 .. (Len(s) + k - 2) \div (k - 1) |->
     SubSeq(s, (i - 1) * (k - 1) + 1, IF i * (k - 1) < Len(s) THEN i * (k - 1) ELSE Len(s))]

(* .chunks(seq_len) with seq_len = shape[1]: consecutive pieces.           *)
Chunks(s, k) ==
  [i \in 1 .. (Len(s) + k - 1) \div k |->
     SubSeq(s, (i - 1) * k + 1, IF i * k < Len(s) THEN i * k ELSE Len(s))]

-----------------------------------------------------------------------------
(* process_image                                                           *)

(* Mutant: every image written into the first slice of the batch.          *)
PixelTensorFirstSlice(imgs) ==
  [i \in DOMAIN imgs |-> [c \in Channels |-> [a \in Coords |-> [b \in Coords |->
     <<c, imgs[1][<<a, b>>]>>]]]]

(* pixels[[index, c, x as usize, y as usize]] = (pixel.0[c]/255 - mean)/std *)
(* for every (x, y, pixel) of image.pixels(), after resize_exact.          *)
PixelTensor(imgs) ==
  [i \in DOMAIN imgs |-> [c \in Channels |-> [a \in Coords |-> [b \in Coords |->
     <<c, imgs[i][<<a, b>>]>>]]]]

-----------------------------------------------------------------------------

Init ==
  /\ service = Nil
  /\ last = Nil
  /\ failure = Nil

Live == failure = Nil

(* The outcome of process_text on a service, as a record or a panic.       *)
TextOutcome(s, batch, runOk) ==
  LET enc == Encodings(batch, s.pad)
      v1 == FlattenSeq([i \in DOMAIN enc |-> enc[i].ids])
      v2 == FlattenSeq([i \in DOMAIN enc |-> enc[i].mask])
      n == Len(batch)
      ids == FromShapeVec(v1, n)
      mask == FromShapeVec(v2, n)
  IN IF ~s.text THEN [panic |-> "no_text_model"]
     ELSE IF n = 0 THEN [panic |-> "divide_by_zero"]
     ELSE IF ids = Nil \/ mask = Nil \/ ~runOk THEN [err |-> "error"]
     ELSE [out |-> Chunks(Run([i \in 1 .. n |-> <<ids[i], mask[i]>>]), D)]

ImageOutcome(s, batch, runOk) ==
  LET imgs == [i \in DOMAIN batch |-> Decoded[batch[i]]]
  IN IF ~s.image THEN [panic |-> "no_visual_model"]
     ELSE IF \E i \in DOMAIN imgs : imgs[i] = Nil \/ ~runOk THEN [err |-> "error"]
     ELSE [out |-> LET t == PixelTensor(imgs) IN Chunks(Run(t), D)]

(* Record an outcome: a panic ends the process, anything else is returned. *)
Finish(op, input, o) ==
  IF "panic" \in DOMAIN o
  THEN failure' = [in |-> op, why |-> o.panic] /\ last' = last
  ELSE last' = [op |-> op, input |-> input, res |-> o] /\ failure' = failure

(* EncoderService::new: tokenizer file, then each model file that exists,  *)
(* each `?` returning Err; panic when neither model file exists.           *)
New(pad) ==
  /\ Live
  /\ \E tokOk, textFile, imageFile, buildOk \in BOOLEAN :
       IF ~tokOk \/ ((textFile \/ imageFile) /\ ~buildOk)
       THEN /\ last' = [op |-> "new", input |-> pad, res |-> [err |-> "error"]]
            /\ UNCHANGED <<service, failure>>
       ELSE IF ~textFile /\ ~imageFile
       THEN /\ failure' = [in |-> "new", why |-> "no_model"]
            /\ UNCHANGED <<service, last>>
       ELSE /\ service' = [text |-> textFile, image |-> imageFile, pad |-> pad]
            /\ last' = [op |-> "new", input |-> pad, res |-> [out |-> <<>>]]
            /\ UNCHANGED failure

ProcessText(batch) ==
  /\ Live /\ service # Nil
  /\ \E runOk \in BOOLEAN : Finish("text", batch, TextOutcome(service, batch, runOk))
  /\ UNCHANGED service

ProcessImage(batch) ==
  /\ Live /\ service # Nil
  /\ \E runOk \in BOOLEAN : Finish("image", batch, ImageOutcome(service, batch, runOk))
  /\ UNCHANGED service

(* clip::process_text: a fresh service with Fixed padding, every Err      *)
(* unwrapped or expected into a panic, the first vector returned.          *)
ClipProcessText(t) ==
  /\ Live
  /\ \E ok, textFile, runOk \in BOOLEAN :
       LET o == TextOutcome([text |-> textFile, image |-> TRUE, pad |-> TRUE], <<t>>, runOk)
       IN IF ~ok THEN failure' = [in |-> "clip_text", why |-> "build"] /\ last' = last
          ELSE IF "out" \notin DOMAIN o
          THEN failure' = [in |-> "clip_text", why |-> "expect"] /\ last' = last
          ELSE /\ last' = [op |-> "clip_text", input |-> <<t>>, res |-> [out |-> <<o.out[1]>>]]
               /\ failure' = failure
  /\ UNCHANGED service

ClipProcessImage(p) ==
  /\ Live
  /\ \E ok, imageFile, runOk \in BOOLEAN :
       LET o == ImageOutcome([text |-> TRUE, image |-> imageFile, pad |-> TRUE], <<p>>, runOk)
       IN IF ~ok THEN failure' = [in |-> "clip_image", why |-> "build"] /\ last' = last
          ELSE IF p = Nil THEN failure' = [in |-> "clip_image", why |-> "open"] /\ last' = last
          ELSE IF "out" \notin DOMAIN o
          THEN failure' = [in |-> "clip_image", why |-> "expect"] /\ last' = last
          ELSE /\ last' = [op |-> "clip_image", input |-> <<p>>, res |-> [out |-> <<o.out[1]>>]]
               /\ failure' = failure
  /\ UNCHANGED service

Halted == failure # Nil /\ UNCHANGED vars

Next ==
  \/ \E pad \in BOOLEAN : New(pad)
  \/ \E b \in TextBatches : ProcessText(b)
  \/ \E b \in ImageBatches : ProcessImage(b)
  \/ \E t \in Texts : ClipProcessText(t)
  \/ \E p \in Paths : ClipProcessImage(p)
  \/ Halted

Spec == Init /\ [][Next]_vars

-----------------------------------------------------------------------------
TypeOK ==
  /\ service \in {Nil} \cup [text : BOOLEAN, image : BOOLEAN, pad : BOOLEAN]
  /\ failure = Nil \/ failure.in \in {"new", "text", "image", "clip_text", "clip_image"}
  /\ last = Nil \/
       /\ last.op \in {"new", "text", "image", "clip_text", "clip_image"}
       /\ "out" \in DOMAIN last.res => \A i \in DOMAIN last.res.out : Len(last.res.out[i]) = D

NotPad(x) == x # PadId

(* Every successful process_text (and clip::process_text) returns one      *)
(* vector per input text, and vector i is the model's output for a row     *)
(* holding exactly text i's tokens, padded with pad ids its attention      *)
(* mask zeroes: the reshape into (n, len / n) never moves tokens between   *)
(* rows.                                                                   *)
TextRowsAligned ==
  last # Nil /\ last.op \in {"text", "clip_text"} /\ "out" \in DOMAIN last.res =>
    /\ Len(last.res.out) = Len(last.input)
    /\ \A i \in DOMAIN last.res.out :
         LET row == last.res.out[i][1][1]
         IN /\ last.res.out[i] = [j \in 1 .. D |-> <<row, j>>]
            /\ SelectSeq(row[1], NotPad) = Encoding(last.input[i], 0).ids
            /\ \A k \in DOMAIN row[1] : (row[2][k] = 1) <=> (row[1][k] # PadId)

(* Every successful process_image (and clip::process_image) returns one    *)
(* vector per input image, vector i being the model's output for a tensor *)
(* slice filled from image i alone.                                        *)
ImageRowsAligned ==
  last # Nil /\ last.op \in {"image", "clip_image"} /\ "out" \in DOMAIN last.res =>
    /\ Len(last.res.out) = Len(last.input)
    /\ \A i \in DOMAIN last.res.out :
         LET t == last.res.out[i][1][1]
         IN /\ last.res.out[i] = [j \in 1 .. D |-> <<t, j>>]
            /\ \A c \in Channels, a, b \in Coords :
                 t[c][a][b][2] \in {Decoded[last.input[i]][q] : q \in Coords \X Coords}

(* process_text returns, Ok or Err, for every batch once a textual model  *)
(* is loaded: the only panic it may raise is the expect on a missing      *)
(* model.                                                                  *)
ProcessTextReturns ==
  failure = Nil \/ failure.in # "text" \/ failure.why = "no_text_model"

(* The tensor handed to the visual model is NCHW, as CLIP's visual model   *)
(* takes it: position [c][h][w] holds channel c of the pixel in row h      *)
(* (image y) and column w (image x).                                      *)
ImageLayoutNCHW ==
  last # Nil /\ last.op \in {"image", "clip_image"} /\ "out" \in DOMAIN last.res =>
    \A i \in DOMAIN last.res.out :
      \A c \in Channels, h, w \in Coords :
        last.res.out[i][1][1][c][h][w] = <<c, Decoded[last.input[i]][<<w, h>>]>>

=============================================================================
