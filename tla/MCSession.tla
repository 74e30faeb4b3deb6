----------------------------- MODULE MCSession -----------------------------
(***************************************************************************)
(* Session for TLC.                                                        *)
(***************************************************************************)
EXTENDS SessionMembership, TLC

\* Ids are interchangeable: nothing compares them other than by equality.
IdSymmetry == Permutations(Ids)
=============================================================================
