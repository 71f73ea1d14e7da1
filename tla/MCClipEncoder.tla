---------------------------- MODULE MCClipEncoder ----------------------------
(***************************************************************************)
(* Three texts of 2, 4 and 6 tokens against Fixed padding scaled from 77   *)
(* to 4, so one text fits, one fills and one overflows the padded length;  *)
(* two 2x2 images whose pixels all differ, so any transposition or mix-up *)
(* shows, and one byte string that does not decode.                       *)
(***************************************************************************)
EXTENDS ClipEncoder

CONSTANTS A, B, C, P, Q, Bad

MCTexts == {A, B, C}
MCTokLen == A :> 2 @@ B :> 4 @@ C :> 6
MCTextBatches == UNION {[1 .. n -> MCTexts] : n \in 0 .. 2}

MCBlobs == {P, Q, Bad}
MCDecoded == P :> [q \in {0, 1} \X {0, 1} |-> <<"px", q>>] @@ Q :> [q \in {0, 1} \X {0, 1} |-> <<"qx", q>>] @@ Bad :> Nil
MCPaths == {P, Q, Bad, Nil}
MCImageBatches == UNION {[1 .. n -> MCBlobs] : n \in 0 .. 2}

=============================================================================
