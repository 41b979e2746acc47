--------------------------- MODULE MCRateLimiter ---------------------------
(* Instances of RateLimiter for TLC. *)
EXTENDS RateLimiter, TLC

\* Handlers are interchangeable.
HandlerSymmetry == Permutations(Handlers)
=============================================================================
