------------------------- MODULE MCOTPRateLimiter -------------------------
(* Instances of OTPRateLimiter for TLC. *)
EXTENDS OTPRateLimiter, TLC

KeySymmetry == Permutations(Keys)
=============================================================================
