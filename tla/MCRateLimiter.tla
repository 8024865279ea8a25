--------------------------- MODULE MCRateLimiter ---------------------------
(* A small instance of RateLimiter: one private and two public addresses. *)
EXTENDS RateLimiter, TLC

CONSTANTS home, x, y

IpSymmetry == Permutations(Ips \ PrivateIps)
=============================================================================
