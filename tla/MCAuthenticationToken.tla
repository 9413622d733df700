----------------------- MODULE MCAuthenticationToken -----------------------
(***************************************************************************)
(* AuthenticationToken with interchangeable accounts.                      *)
(***************************************************************************)
EXTENDS AuthenticationToken, TLC

Symmetry == Permutations(Users)
=============================================================================
