---------------------------- MODULE MCReviewStore ----------------------------
(* Small instances of ReviewStore for TLC. *)
EXTENDS ReviewStore, TLC

CONSTANTS v1, v2, u1, u2

\* The callers are interchangeable; the variances are not, one is a parent.
UserSymmetry == Permutations(Users)

\* Enough calls for the summary to be reviewed, approved and regenerated, and
\* for the other variance to be reviewed and approved meanwhile.
FewVersions == v1 :> 4 @@ v2 :> 3
=============================================================================
