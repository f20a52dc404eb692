------------------------------ MODULE MCStorage ------------------------------
(* An instance of the replicated store, and one of the log that is           *)
(* compacted: each behaviour is about one of the two.                        *)
EXTENDS ChainStore, Retention

CONSTANTS c1, c2, a, b, x

VARIABLE part

StoreInit == part = "store" /\ ChainInit /\ RetentionInit

StorageInit == part \in {"store", "retention"} /\ ChainInit /\ RetentionInit

StoreNext == part = "store" /\ ChainNext /\ UNCHANGED <<part, retentionVars>>

StorageNext ==
  \/ StoreNext
  \/ part = "retention" /\ RetentionNext /\ UNCHANGED <<part, chainVars>>

storageVars == <<part, chainVars, retentionVars>>

StoreSpec == StoreInit /\ [][StoreNext]_storageVars

StorageSpec == StorageInit /\ [][StorageNext]_storageVars

=============================================================================
