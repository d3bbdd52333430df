-------------------------- MODULE MCDownloadIngest --------------------------
(* An instance of DownloadIngest for TLC.  The slot is adopted again and     *)
(* again for one principal: the areas of two owners never meet, and in one   *)
(* area all publications do.                                                 *)
EXTENDS DownloadIngest, TLC

CONSTANTS a, u1, u2

MCMinted == [n \in 1..MaxPushes |-> a]

SubmissionSymmetry == Permutations(Submissions)

=============================================================================
