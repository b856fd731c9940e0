--------------------------- MODULE MCApprovalFlow ---------------------------
(***************************************************************************)
(* One batch of two calls, each of them automatic or dangerous but not     *)
(* both automatic; the driver and one or two resolvers.                    *)
(***************************************************************************)
EXTENDS ApprovalFlow, TLC

CONSTANTS c1, c2

MCBatch == <<c1, c2>>

\* The resolvers differ in nothing but their names.
MCSymmetry == Permutations(Resolvers)
=============================================================================
