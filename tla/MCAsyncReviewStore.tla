-------------------------- MODULE MCAsyncReviewStore --------------------------
(* Small instances of AsyncReviewStore for TLC. *)
EXTENDS AsyncReviewStore, TLC

CONSTANTS v1, v2, c1, c2

\* The calls in flight are interchangeable.
CallSymmetry == Permutations(Calls)

\* The bulk approval of both, the one that memory never approves first.
MCBulkLists == {<<v2, v1>>}

\* v1 can be reviewed, approved, regenerated; v2 stays the draft it was, so that
\* every bulk call names it in vain.
FewVersions == v1 :> 4 @@ v2 :> 1
=============================================================================
