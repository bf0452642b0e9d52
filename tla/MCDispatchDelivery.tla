------------------------ MODULE MCDispatchDelivery --------------------------
(* Instances of DispatchDelivery for TLC.                                   *)
EXTENDS DispatchDelivery, TLC

\* Nothing distinguishes two dispatches, two keys or two workers.
Symmetry == Permutations(Dispatches) \cup Permutations(Keys)
              \cup Permutations(Workers)
=============================================================================
