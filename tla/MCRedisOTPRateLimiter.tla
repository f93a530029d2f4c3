----------------------- MODULE MCRedisOTPRateLimiter -----------------------
(* Instances of RedisOTPRateLimiter for TLC. *)
EXTENDS RedisOTPRateLimiter

CONSTANT k1   \* an e-mail address

(* No step reads the counter of another key: one key is enough.            *)
OneKey == {k1}
=============================================================================
