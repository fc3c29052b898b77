---------------------------- MODULE MCIndexCache ----------------------------
(***************************************************************************)
(* An instance of IndexCache for TLC: mutations are interchangeable, and   *)
(* so are requests.                                                        *)
(***************************************************************************)
EXTENDS IndexCache, TLC

Symmetry == Permutations(Mutation) \cup Permutations(Reader)

==============================================================================
