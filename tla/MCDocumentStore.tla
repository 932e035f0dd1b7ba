--------------------------- MODULE MCDocumentStore ---------------------------
(* Instances of DocumentStore for TLC. *)
EXTENDS DocumentStore, TLC
CONSTANTS hA, hB, t1, t2, t3

\* Two contents that share a chunk.
SharedText == (hA :> {t1, t2}) @@ (hB :> {t2, t3})
Symmetry == Permutations(Docs) \cup Permutations(Workers)
=============================================================================
