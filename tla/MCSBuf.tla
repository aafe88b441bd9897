------------------------------- MODULE MCSBuf -------------------------------
(* SBuf on a small instance: two producers and two consumers over two cells, *)
(* so that the indices wrap around the buffer and every pair of calls        *)
(* interleaves.                                                              *)
EXTENDS SBuf
=============================================================================
