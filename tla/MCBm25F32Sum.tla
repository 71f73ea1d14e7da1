---------------------------- MODULE MCBm25F32Sum ----------------------------
(***************************************************************************)
(* Six rows of one aggregation over docs 1..3.  The contributions are the *)
(* f32 values calculate_bm25 returns for corpus_size 7, avg_doc_len 3,    *)
(* k1 1.2, b 0.75, evaluated operation by operation in binary32, for the   *)
(* term frequencies 1..6 and the (fq, doc_len) noted per doc.  One unit is *)
(* 2^-27, so every value (|x| >= 1/16) and every partial sum (|x| < 8) is  *)
(* an integer number of units below 2^31.                                  *)
(***************************************************************************)
EXTENDS Bm25F32Sum

\* term_freq 1: doc 1 (fq 1, len 5) 1.1521220, doc 2 (3, 2) 2.4814935, doc 3 (2, 5) 1.6978639
T1 == 1 :> 154635200 @@ 2 :> 333060416 @@ 3 :> 227883440
\* term_freq 2: doc 1 (2, 5) 0.9129506, doc 2 (1, 5) 0.6195022, doc 3 (1, 4) 0.6938425
T2 == 1 :> 122534160 @@ 2 :> 83148184 @@ 3 :> 93125968
\* term_freq 3: doc 1 (2, 5) 0.2909956, doc 2 (1, 2) 0.2909956, doc 3 (3, 4) 0.3685945
T3 == 1 :> 39056772 @@ 2 :> 39056772 @@ 3 :> 49471912
\* term_freq 4: doc 1 (3, 5) -0.3455573, doc 2 (2, 4) -0.3159381, doc 3 (3, 2) -0.4253013
T4 == 1 :> -46379916 @@ 2 :> -42404496 @@ 3 :> -57082976
\* term_freq 5: doc 1 (1, 2) -0.9129506, doc 2 (3, 4) -1.1564041, doc 3 (3, 1) -1.4455053
T5 == 1 :> -122534152 @@ 2 :> -155209936 @@ 3 :> -194012432

\* term_freq 6: doc 1 (1, 3) -1.4663371, doc 2 (2, 1) -2.4814937, doc 3 (1, 2) -1.6978639
T6 == 1 :> -196808432 @@ 2 :> -333060448 @@ 3 :> -227883440

MCRowOrder == <<T1, T2, T3, T4, T5, T6>>
MCRows == {T1, T2, T3, T4, T5, T6}

=============================================================================
