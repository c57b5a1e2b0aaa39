------------------------------- MODULE MCRating -------------------------------
(* Small instance of Rating: calls rate the same line or two lines.            *)
EXTENDS Rating, TLC

Symmetry == Permutations(Ratings) \cup Permutations(Lines)
===============================================================================
