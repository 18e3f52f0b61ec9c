-------------------------------- MODULE MCTokens --------------------------------
(* Bounds for Tokens: which tokens, users and requests are interchangeable. *)
EXTENDS Tokens, TLC

MCSymmetry == Permutations(Token) \cup Permutations(Request)

===============================================================================
