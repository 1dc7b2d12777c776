---------------------------- MODULE MCLspDocSync ----------------------------
(* Instances of LspDocSync for TLC. *)
EXTENDS LspDocSync, TLC

(* Documents are interchangeable, and so are texts. *)
MCSymmetry == Permutations(Uris) \cup Permutations(Texts)
=============================================================================
