---------------------------- MODULE MCRedisLock ----------------------------
(* Two renewing holders and one that does not renew. *)
EXTENDS RedisLock
CONSTANTS h1, h2, h3
MCHolders == {h1, h2, h3}
MCRenewing == {h1, h2}
=============================================================================
