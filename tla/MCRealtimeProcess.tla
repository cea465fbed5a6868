------------------------- MODULE MCRealtimeProcess -------------------------
(* A ratio of one half, four attempts whose backoff doubles once and then    *)
(* meets its limit, a Retry-After below and beyond that limit, two days.     *)
EXTENDS RealtimeProcess
=============================================================================
