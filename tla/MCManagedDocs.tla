--------------------------- MODULE MCManagedDocs ---------------------------
(* Two sections for the runs of ManagedDocs, the second of them sticky and *)
(* a template block, and two lines of a person, the second a heading; the  *)
(* versions are interchangeable.                                           *)
EXTENDS ManagedDocs, TLC

TwoSections == <<"A", "B">>
DocSymmetry == Permutations(Version)
=============================================================================
