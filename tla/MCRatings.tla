------------------------------ MODULE MCRatings ------------------------------
(* Instances of Ratings for TLC. *)
EXTENDS Ratings

=============================================================================
