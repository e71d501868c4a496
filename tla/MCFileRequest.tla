--------------------------- MODULE MCFileRequest ----------------------------
(* A small instance of FileRequest: one command, two approvals of its request *)
(* for one of two files, two fetches that may overlap.                        *)
EXTENDS FileRequest, TLC

CONSTANTS c1, m1, a1, a2, f1, f2, v1, r1, r2

OneRequest == [a \in Approvals |-> c1]

FlowSymmetry == Permutations(Approvals) \cup Permutations(Files) \cup Permutations(Fetches)
=============================================================================
