------------------------- MODULE MCSignupConstraints -------------------------
(* An instance of SignupConstraints for TLC. *)
EXTENDS SignupConstraints, TLC

CONSTANTS u1, u2, education, retail
=============================================================================
