------------------------ MODULE MCDataValidatorFiles ------------------------
(* Instances of DataValidatorFiles.                                        *)
EXTENDS DataValidatorFiles, TLC
\* No definition orders the requests or the dates.
MCSymmetry == UNION {Permutations(S) : S \in {Check, Extend, Date}}
=============================================================================
