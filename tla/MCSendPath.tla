----------------------------- MODULE MCSendPath -----------------------------
(* SendPath for TLC: buffers and clients are interchangeable.              *)
EXTENDS SendPath, TLC

SendSymmetry == Permutations(Clients) \cup Permutations(Buffers)
=============================================================================
