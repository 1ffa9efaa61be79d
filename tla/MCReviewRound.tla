--------------------------- MODULE MCReviewRound ---------------------------
(* One submission of two revisions and three reviewers, one of whom was       *)
(* assigned before packets were sealed with the assignment.                   *)
EXTENDS ReviewRound, TLC

CONSTANTS s1, r1, r2, r3, d1

LegacyOne == {<<s1, 1, r1>>}
(* One reviewer of anyone, two of anyone, and as many as a small pool gives.  *)
AllRequests ==
    {[reviewers |-> Reviewers, perSubmission |-> 1, perReviewer |-> 1, perPool |-> 3],
     [reviewers |-> Reviewers, perSubmission |-> 2, perReviewer |-> 1, perPool |-> 3],
     [reviewers |-> {r2, r3}, perSubmission |-> 2, perReviewer |-> 1, perPool |-> 1]}
ReviewerSymmetry == Permutations({r2, r3})
=============================================================================
