\* The tensor layout process_image builds against NCHW.
CONSTANTS
  A = A
  B = B
  C = C
  P = P
  Q = Q
  Bad = Bad
  Nil = Nil
  Texts <- MCTexts
  TokLen <- MCTokLen
  TRUNCATION = 4
  PAD_FIXED = 4
  TextBatches <- MCTextBatches
  Blobs <- MCBlobs
  Decoded <- MCDecoded
  Paths <- MCPaths
  ImageBatches <- MCImageBatches
  VISION_SIZE = 2
  D = 2

SPECIFICATION Spec

INVARIANT ImageLayoutNCHW
