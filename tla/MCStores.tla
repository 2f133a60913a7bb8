------------------------------ MODULE MCStores -------------------------------
(***************************************************************************)
(* The two stores of the orchestrator's side: jobs, in memory, behind the  *)
(* API, and checkpoints, on disk.  No code shares them: a behaviour is one *)
(* of the service or one of a process that saves shards.  Widths go up to  *)
(* seven, with fixed and split batches on free, fast and slow networks.    *)
(***************************************************************************)
EXTENDS ServedLoop, CheckpointStore

VARIABLE client   \* "service" or "saver"

MCModels ==
    {[work |-> 1, link |-> link, bubble |-> bubble, micro |-> 4, batch |-> batch] :
        link \in {0, 2, 9}, bubble \in {0, 5}, batch \in {0, 12}}

StoresInit == ServedInit /\ StoreInit /\ client \in {"service", "saver"}

StoresNext ==
    \/ client = "service" /\ ServedNext /\ UNCHANGED <<client, storeVars>>
    \/ client = "saver" /\ StoreNext /\ UNCHANGED <<client, servedVars>>

StoresSpec == StoresInit /\ [][StoresNext]_<<client, servedVars, storeVars>>
=============================================================================
