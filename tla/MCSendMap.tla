----------------------------- MODULE MCSendMap -----------------------------
(* Small instances of the send path for TLC.                               *)
EXTENDS SendMap, TLC

\* Descriptors are interchangeable: no action compares or orders them.
Symmetry == Permutations(Fds)
=============================================================================
