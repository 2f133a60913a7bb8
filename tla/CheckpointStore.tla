--------------------------- MODULE CheckpointStore ---------------------------
(***************************************************************************)
(* The disk-backed CheckpointStore of state/checkpoint.py: shard files,    *)
(* the list of their metadata in memory, and index.json, which is written  *)
(* anew from that list after every shard.  Writes are not atomic, each may *)
(* raise, and the process may die anywhere; a new one starts with an empty *)
(* list and does not read the index.                                       *)
(*                                                                         *)
(* A shard stands for its job, step and shard_id, which name the file; a   *)
(* file's content is abstracted to the layer_range it holds.               *)
(***************************************************************************)
EXTENDS Naturals, Sequences

CONSTANTS
    Shards,     \* job, step and shard_id: the file's name
    Ranges,     \* layer_range of a shard
    MaxSaves    \* bound: calls of save_shard

VARIABLES
    files,  \* what each file holds: a range, "none" or "torn"
    metas,  \* meta_index
    index,  \* what index.json can be read as: a list, or nothing
    save,   \* the call of save_shard under way, and its place
    saved   \* every call so far, in order (history)

storeVars == <<files, metas, index, save, saved>>

NoSave == [at |-> "idle"]

StoreInit ==
    /\ files = [s \in Shards |-> "none"]
    /\ metas = <<>> /\ index = {}
    /\ save = NoSave /\ saved = <<>>

\* Mutant: the index is written before the file it speaks of.
IndexFirst(shard, range) ==
    /\ save = NoSave /\ Len(saved) < MaxSaves
    /\ save' = [at |-> "file", meta |-> [shard |-> shard, range |-> range]]
    /\ index' = {Append(metas, save'.meta)}
    /\ saved' = Append(saved, save'.meta)
    /\ UNCHANGED <<files, metas>>

\* write_bytes opens, and empties, the file.
SaveShard(shard, range) ==
    /\ save = NoSave /\ Len(saved) < MaxSaves
    /\ save' = [at |-> "file", meta |-> [shard |-> shard, range |-> range]]
    /\ files' = [files EXCEPT ![shard] = "torn"]
    /\ saved' = Append(saved, save'.meta)
    /\ UNCHANGED <<metas, index>>

\* The file is written; the metadata join the list.
FileWritten ==
    /\ save.at = "file"
    /\ files' = [files EXCEPT ![save.meta.shard] = save.meta.range]
    /\ metas' = Append(metas, save.meta)
    /\ save' = [save EXCEPT !.at = "index"]
    /\ UNCHANGED <<index, saved>>

\* write_text empties index.json, when there is one, and fills it with the list.
TearIndex ==
    /\ save.at = "index" /\ index # {}
    /\ index' = {}
    /\ UNCHANGED <<files, metas, save, saved>>

IndexWritten ==
    /\ save.at = "index" /\ index = {}
    /\ index' = {metas}
    /\ save' = NoSave
    /\ UNCHANGED <<files, metas, saved>>

\* A write raises: what it did stays, save_shard is left.
WriteRaises ==
    /\ save # NoSave
    /\ save' = NoSave
    /\ UNCHANGED <<files, metas, index, saved>>

\* The process dies and another starts on the same directory.
RestartStore ==
    /\ saved # <<>> /\ (metas # <<>> \/ save # NoSave)
    /\ metas' = <<>> /\ save' = NoSave
    /\ UNCHANGED <<files, index, saved>>

StoreNext ==
    \/ \E shard \in Shards, range \in Ranges : SaveShard(shard, range)
    \/ FileWritten \/ TearIndex \/ IndexWritten \/ WriteRaises \/ RestartStore

StoreSpec == StoreInit /\ [][StoreNext]_storeVars
-----------------------------------------------------------------------------
Lists == {metas} \cup index

SavedOnce(shard) ==
    \A i, j \in DOMAIN saved :
        saved[i].shard = shard /\ saved[j].shard = shard => i = j

\* The last entry of its shard in the running process's list.
Latest(i) == \A j \in i + 1 .. Len(metas) : metas[j].shard # metas[i].shard

\* What a reader of the list or of the index may rely on, whatever raises and
\* wherever the process dies: an entry of a shard that was saved once tells
\* what its file holds; and where a shard was saved again, with other layers,
\* the running process's last entry is never that of an older file, which the
\* index's may be.
EntriesTruthful ==
    /\ \A list \in Lists : \A i \in DOMAIN list :
          SavedOnce(list[i].shard) => files[list[i].shard] = list[i].range
    /\ \A i \in DOMAIN metas :
          Latest(i) => files[metas[i].shard] \in {metas[i].range, "torn"}
-----------------------------------------------------------------------------
Meta == [shard : Shards, range : Ranges]

StoreTypeOK ==
    /\ files \in [Shards -> Ranges \cup {"none", "torn"}]
    /\ metas \in Seq(Meta) /\ saved \in Seq(Meta)
    /\ index \subseteq Seq(Meta)
    /\ save \in {NoSave} \cup [at : {"file", "index"}, meta : Meta]

\* Every entry of a list was saved, and the last call is the one under way.
Recorded ==
    /\ \A list \in Lists : \A i \in DOMAIN list : \E k \in DOMAIN saved : saved[k] = list[i]
    /\ save # NoSave => saved # <<>> /\ saved[Len(saved)] = save.meta

StoreInv == StoreTypeOK /\ Recorded /\ EntriesTruthful
=============================================================================
