---------------------------- MODULE MCTokenBucket ----------------------------
(* TokenBucket with threads that compete, one of them asking for the whole *)
(* bucket.                                                                 *)
EXTENDS TokenBucket

MCDemands == {-1, 0, 1, 3, 4}
=============================================================================
