------------------------------ MODULE KvPromise ------------------------------
(***************************************************************************)
(* What the command line promises of the configuration (cli_conf.c:55):    *)
(* a value that is set is staged in volatile memory, a commit stores what  *)
(* is staged and nothing else, and a reset goes back to what is stored.    *)
(* A write that fails may lose the stored value, one that cannot be read   *)
(* is not staged, and one whose sync fails is not stored although nobody   *)
(* is told.                                                                *)
(***************************************************************************)
CONSTANTS Keys, Values, NoValue

VARIABLES
  staged,  \* the configuration the device runs with
  stored,  \* the configuration it will start with
  saved,   \* the operator was told that both are the same
  unsynced \* the keys for which he may have been told wrongly

pvars == <<staged, stored, saved, unsynced>>

PInit ==
  /\ staged = [k \in Keys |-> NoValue]
  /\ stored = [k \in Keys |-> NoValue]
  /\ saved = FALSE /\ unsynced = {}

Stage(k, v) ==
  /\ staged' = [staged EXCEPT ![k] = v]
  /\ saved' = FALSE
  /\ UNCHANGED <<stored, unsynced>>

(* The write of a staged value, or its failure, noticed or not.            *)
Store(k) ==
  /\ staged[k] # NoValue /\ ~saved
  /\ \/ stored' = [stored EXCEPT ![k] = staged[k]] /\ unsynced' = unsynced \ {k}
     \/ stored' = [stored EXCEPT ![k] = NoValue] /\ UNCHANGED unsynced
     \/ unsynced' = unsynced \cup {k} /\ UNCHANGED stored
  /\ UNCHANGED <<staged, saved>>

Commit ==
  /\ saved' = FALSE
  /\ UNCHANGED <<staged, stored, unsynced>>

(* Nothing that is staged may be missing when the operator is told so.     *)
Report ==
  /\ \A k \in Keys \ unsynced : staged[k] # NoValue => stored[k] = staged[k]
  /\ saved' = TRUE
  /\ UNCHANGED <<staged, stored, unsynced>>

Restart ==
  /\ staged' = stored
  /\ saved' = FALSE /\ unsynced' = {}
  /\ UNCHANGED stored

(* A value may turn out to be unreadable, but only as long as it is the    *)
(* one that was stored.                                                    *)
Forget(k) ==
  /\ staged[k] = stored[k] /\ ~saved
  /\ staged' = [staged EXCEPT ![k] = NoValue]
  /\ UNCHANGED <<stored, saved, unsynced>>

PNext ==
  \/ Commit \/ Report \/ Restart
  \/ \E k \in Keys : Store(k) \/ Forget(k) \/ \E v \in Values : Stage(k, v)

PromiseSpec == PInit /\ [][PNext]_pvars
=============================================================================
