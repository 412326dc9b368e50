-------------------------- MODULE MCChecklists --------------------------
(* Two requests on a template with up to two criteria, each of three orders. *)
EXTENDS Checklists, TLC

CONSTANTS r1, r2

Interchangeable == Permutations({r1, r2})
==========================================================================
