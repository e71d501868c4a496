------------------------- MODULE MCApprovalTransfer -------------------------
(* Small instances of ApprovalTransfer: one approval, a few calls about it.  *)
EXTENDS ApprovalTransfer, TLC

CONSTANTS f1, f2, h1, h2, k1, k2, k3, b1

ApprovalSymmetry ==
  Permutations({f1, f2}) \cup Permutations({h1, h2}) \cup Permutations({k1, k2, k3})
=============================================================================
