-------------------------- MODULE MCCacheInvalidation --------------------------
(***************************************************************************)
(* A small instance of the cache invalidation for TLC: its processes and   *)
(* writers are the model values of Cache.cfg.                              *)
(***************************************************************************)
EXTENDS CacheInvalidation
=============================================================================
