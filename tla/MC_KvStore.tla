----------------------------- MODULE MC_KvStore -----------------------------
(* KvStore with two values of one length, a longer one and one reader.     *)
EXTENDS KvStore

CONSTANTS short, other, long, task
=============================================================================
