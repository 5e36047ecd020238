---------------------------- MODULE MCSignInFlow ----------------------------
(***************************************************************************)
(* SignInFlow for TLC: rows, requests and addresses are interchangeable.   *)
(***************************************************************************)
EXTENDS SignInFlow, TLC

Symmetry == Permutations(User) \cup Permutations(Token) \cup Permutations(Login)
            \cup Permutations(Ask) \cup Permutations(Email)
=============================================================================
