--------------------------- MODULE MCRateLimiter ---------------------------
(* The rate limiter with interchangeable concurrent requests.              *)
EXTENDS RateLimiter, TLC

CallSymmetry == Permutations(Calls)

=============================================================================
