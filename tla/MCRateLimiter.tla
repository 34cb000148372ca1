--------------------------- MODULE MCRateLimiter ---------------------------
(***************************************************************************)
(* Small instances of RateLimiter for TLC.                                 *)
(***************************************************************************)
EXTENDS RateLimiter, TLC

CONSTANTS key, host

\* A client with a key, and one with neither key nor address: two buckets.
KeyAndUnknown ==
  {[api_key |-> key, host |-> host], [api_key |-> Absent, host |-> Absent]}

\* A client on a host, without a key.
OneHost == {[api_key |-> Absent, host |-> host]}

CallSymmetry == Permutations(Calls)

=============================================================================
