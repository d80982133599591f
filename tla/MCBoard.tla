------------------------------ MODULE MCBoard ------------------------------
(* The boards for TLC.                                                     *)
EXTENDS Board, TLC

CONSTANTS p1, p2, t1, r1, r2, todo, done

Interchangeable == Permutations(Page) \cup Permutations(Req)

=============================================================================
