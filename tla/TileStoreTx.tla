----------------------------- MODULE TileStoreTx -----------------------------
(***************************************************************************)
(* saveTileStores (repositories/discovery.ts) as Postgres runs it: one     *)
(* transaction of three statements at READ COMMITTED, several of them at   *)
(* once.  Two workers, or two runs of a job whose lock was lost, save the  *)
(* same tile concurrently.                                                 *)
(*                                                                         *)
(* A statement sees what is committed when it runs.  A tile_fetch row that *)
(* an open transaction has written makes the next upsert of it wait, and a *)
(* row an open transaction has deleted makes the next DELETE of it wait.   *)
(***************************************************************************)
EXTENDS FiniteSets

CONSTANTS
  Pairs,   \* tile and category: unique in tile_fetch
  Shops,   \* OpenStreetMap elements: unique per tile_fetch in discovered_store
  Saves,   \* calls of saveTileStores
  PairOf,  \* the pair each of them saves
  NoSave   \* nobody holds the row

ASSUME PairOfAssumption == PairOf \in [Saves -> Pairs]
ASSUME NoSaveAssumption == NoSave \notin Saves

VARIABLES
  fetch,   \* tile_fetch, committed: missing, stale or fresh
  store,   \* discovered_store, committed: <<pair, shop>>
  save,    \* the last statement each call has run
  found,   \* the answer it saves, an element twice in it counted once
  holder,  \* the transaction that has written the tile_fetch row of a pair
  doomed   \* the discovered_store rows a transaction has deleted

vars == <<fetch, store, save, found, holder, doomed>>

RowsOf(p) == {r \in store : r[1] = p}
Open(s) == save[s] \in {"upserted", "deleted", "inserted"}

TypeOK ==
  /\ fetch \in [Pairs -> {"missing", "stale", "fresh"}]
  /\ store \subseteq Pairs \X Shops
  /\ save \in [Saves -> {"idle", "upserted", "deleted", "inserted", "done", "failed"}]
  /\ found \in [Saves -> SUBSET Shops]
  /\ holder \in [Pairs -> Saves \union {NoSave}]
  /\ doomed \in [Saves -> SUBSET store]

\* Any cache earlier runs can have left.
Init ==
  /\ fetch \in [Pairs -> {"missing", "stale", "fresh"}]
  /\ store \in SUBSET (Pairs \X Shops)
  /\ \A r \in store : fetch[r[1]] # "missing"
  /\ save = [s \in Saves |-> "idle"]
  /\ found = [s \in Saves |-> {}]
  /\ holder = [p \in Pairs |-> NoSave]
  /\ doomed = [s \in Saves |-> {}]

Ran(s, from, to) == save[s] = from /\ save' = [save EXCEPT ![s] = to]

\* ON CONFLICT DO NOTHING would not touch an existing row, and not wait for it.
UpsertDoingNothing(s, answer) ==
  /\ Ran(s, "idle", "upserted")
  /\ found' = [found EXCEPT ![s] = answer]
  /\ UNCHANGED <<fetch, store, holder, doomed>>

\* BEGIN; INSERT .. ON CONFLICT DO UPDATE: waits for the row, then holds it.
Upsert(s, answer) ==
  /\ Ran(s, "idle", "upserted")
  /\ found' = [found EXCEPT ![s] = answer]
  /\ holder[PairOf[s]] = NoSave
  /\ holder' = [holder EXCEPT ![PairOf[s]] = s]
  /\ UNCHANGED <<fetch, store, doomed>>

\* DELETE FROM discovered_store of this tile_fetch.
Delete(s) ==
  /\ Ran(s, "upserted", "deleted")
  /\ \A t \in Saves \ {s} : doomed[t] \intersect RowsOf(PairOf[s]) = {}
  /\ doomed' = [doomed EXCEPT ![s] = RowsOf(PairOf[s])]
  /\ UNCHANGED <<fetch, store, found, holder>>

\* The rows of the answer that (tile_fetch_id, osm_element_id) refuses.
Duplicates(s) == ({PairOf[s]} \X found[s]) \intersect (store \ doomed[s])

\* INSERT INTO discovered_store, skipped for an empty answer.
Insert(s) ==
  /\ Ran(s, "deleted", "inserted")
  /\ Duplicates(s) = {}
  /\ UNCHANGED <<fetch, store, found, holder, doomed>>

\* The transaction of s ends: its row lock and its deletions are nobody's.
End(s) ==
  /\ holder' = [p \in Pairs |-> IF holder[p] = s THEN NoSave ELSE holder[p]]
  /\ doomed' = [doomed EXCEPT ![s] = {}]

Commit(s) ==
  /\ Ran(s, "inserted", "done")
  /\ fetch' = [fetch EXCEPT ![PairOf[s]] = "fresh"]
  /\ store' = (store \ doomed[s]) \union ({PairOf[s]} \X found[s])
  /\ End(s)
  /\ UNCHANGED found

\* A ROLLBACK that commits what was deleted, as without BEGIN.
RollbackHalf(s) ==
  /\ Open(s)
  /\ save' = [save EXCEPT ![s] = "failed"]
  /\ store' = store \ doomed[s]
  /\ holder' = [p \in Pairs |-> IF holder[p] = s THEN NoSave ELSE holder[p]]
  /\ doomed' = [t \in Saves |-> doomed[t] \ doomed[s]]
  /\ UNCHANGED <<fetch, found>>

\* A statement is refused or fails, or the process or its connection dies.
Rollback(s) ==
  /\ Open(s)
  /\ save' = [save EXCEPT ![s] = "failed"]
  /\ End(s)
  /\ UNCHANGED <<fetch, store, found>>

\* config.discoveryFreshnessDays have passed.
Expire(p) ==
  /\ fetch[p] = "fresh"
  /\ fetch' = [fetch EXCEPT ![p] = "stale"]
  /\ UNCHANGED <<store, save, found, holder, doomed>>

Next ==
  \/ \E s \in Saves :
       \/ \E answer \in SUBSET Shops : Upsert(s, answer)
       \/ Delete(s) \/ Insert(s) \/ Commit(s) \/ Rollback(s)
  \/ \E p \in Pairs : Expire(p)

Spec == Init /\ [][Next]_vars

(***************************************************************************)
(* Properties                                                              *)
(***************************************************************************)

\* The cache as a reader's single statement sees it.
Cache == INSTANCE TileStore WITH
  contents <- [p \in Pairs |-> {x \in Shops : <<p, x>> \in store}]

\* Whatever saves overlap or roll back, a reader sees each tile's stores
\* replaced as a whole by one answer: never a mixture of two, and never none
\* where there were some (repositories/discovery.ts:26-87).
ImplementsTileStore == Cache!Spec

\* No save is ever refused by the unique constraint: the row lock its upsert
\* takes keeps other saves of the tile out until it ends, so the DELETE sees
\* every row the INSERT could collide with (repositories/discovery.ts:40-53).
NeverRefused == \A s \in Saves : save[s] = "deleted" => Duplicates(s) = {}
=============================================================================
