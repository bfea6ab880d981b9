---------------------------- MODULE MCServerLink ----------------------------
(* Small instances of the life of connections for TLC.                     *)
EXTENDS ServerLink, TLC

\* Descriptors are interchangeable: the kernel may hand out any free one.
Symmetry == Permutations(Fds)
=============================================================================
