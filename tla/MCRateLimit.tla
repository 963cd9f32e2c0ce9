----------------------------- MODULE MCRateLimit -----------------------------
(***************************************************************************)
(* Three requests in flight and as many buckets as they and the map can    *)
(* refer to.  A token is two units and a tick adds three, so buckets are   *)
(* left with fractions.                                                    *)
(***************************************************************************)
EXTENDS RateLimit
=============================================================================
