------------------------------ MODULE MCTcmHeap -----------------------------
(* A heap of seven granules of two bytes; requests of zero to four bytes,  *)
(* so that sizes round to the same granule and to different ones.          *)
EXTENDS TcmHeap

SmallSizes == {0, 2, 3}
=============================================================================
