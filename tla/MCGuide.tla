------------------------------ MODULE MCGuide ------------------------------
EXTENDS Guide, TLC

CONSTANTS b1, b2, f1, f2

(* Browsers differ in nothing but the role that Init gives them.           *)
Alike == Permutations({b1, b2})
=============================================================================
