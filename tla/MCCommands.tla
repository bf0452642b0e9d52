----------------------------- MODULE MCCommands -----------------------------
(* Instances of Commands for TLC.                                           *)
EXTENDS Commands, TLC

\* Nothing distinguishes two offers, two keys or two actors, nor two requests
\* before they arrive.
Symmetry == Permutations(Requests) \cup Permutations(Offers)
              \cup Permutations(Keys) \cup Permutations(Actors)
=============================================================================
