--------------------------- MODULE MCMeterEvidence ---------------------------
(* Instances of MeterEvidence for TLC.                                      *)
EXTENDS MeterEvidence, TLC

\* Nothing distinguishes two offers, two reports of an interval, nor two
\* submissions before they are sent.
Symmetry ==
  Permutations(Submissions) \cup Permutations(Offers) \cup Permutations(Details)
=============================================================================
