----------------------------- MODULE MCKsBuffer -----------------------------
(* A bounded buffer whose caller writes more than max_len allows.          *)
EXTENDS KsBuffer

MCShapes == {[blocksize |-> 2, start_len |-> 2, max_len |-> 2]}
=============================================================================
