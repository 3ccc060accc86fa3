---------------------------- MODULE AllocationDb ----------------------------
(***************************************************************************)
(* The PNP allocation table (src/src/pnp/db.rs): one SQLite table whose    *)
(* only uniqueness constraint is on node_id.  A table is the sequence of   *)
(* its rows in insertion (rowid) order, the order in which the unindexed   *)
(* `... LIMIT 1` queries scan it; rows are never deleted.                  *)
(*                                                                         *)
(* A 128-bit unique ID is the natural number its 32 hex digits spell, so   *)
(* the all-zero ID of a static row is 0 and the left-zero-padded 48-bit    *)
(* hash of a v1 row is that hash.  The timestamp column is left out: no    *)
(* query depends on it.                                                    *)
(***************************************************************************)
EXTENDS Integers, Sequences

CONSTANT None   \* SQL NULL, and Rust's Option::None

ASSUME NoneAssumption == None \notin Nat

Row == [node_id          : Nat,
        unique_id        : Nat,
        pseudo_unique_id : Nat \cup {None}]

ZeroUid == 0
Padded(hash) == hash

\* Wrong variant: any row without a v1 hash counts as unresolved.
needs_get_info_AnyStatic(row) ==
    row.pseudo_unique_id = None \/ row.unique_id = Padded(row.pseudo_unique_id)

needs_get_info(row) ==
    IF row.pseudo_unique_id = None
    THEN row.unique_id = ZeroUid
    ELSE row.unique_id = Padded(row.pseudo_unique_id)

NodeIdsIn(t) == {t[i].node_id : i \in DOMAIN t}

Least(S) == CHOOSE i \in S : \A j \in S : i <= j

(***************************************************************************)
(* Queries.  Each one also has the outcome of a failed statement (`.ok()`  *)
(* and `.unwrap_or(1)`), which the caller of these operators chooses.      *)
(***************************************************************************)
RowsWithUid(t, uid)   == {i \in DOMAIN t : t[i].unique_id = uid}
RowsWithHash(t, hash) == {i \in DOMAIN t : t[i].pseudo_unique_id = hash}
RowsWithId(t, id)     == {i \in DOMAIN t : t[i].node_id = id}

FirstNodeId(t, rows) == IF rows = {} THEN None ELSE t[Least(rows)].node_id

find_by_unique_id(t, uid) == FirstNodeId(t, RowsWithUid(t, uid))
\* Wrong variant: the hash is looked up in the unique ID column.
find_by_hash_InUniqueId(t, hash) == FirstNodeId(t, RowsWithUid(t, Padded(hash)))

find_by_hash(t, hash)     == FirstNodeId(t, RowsWithHash(t, hash))

\* Wrong variant: the search starts at 0.
FreeIds_FromZero(t, reserved, max_id, unreadable) ==
    {c \in 0..max_id : c \notin reserved \cup NodeIdsIn(t) \cup unreadable}

\* `unreadable` are the candidates whose COUNT(*) query failed: they are
\* skipped as if they were taken.
FreeIds(t, reserved, max_id, unreadable) ==
    {c \in 1..max_id : c \notin reserved \cup NodeIdsIn(t) \cup unreadable}

next_free_id(t, reserved, max_id, unreadable) ==
    LET free == FreeIds(t, reserved, max_id, unreadable)
    IN  IF free = {} THEN None ELSE Least(free)

(***************************************************************************)
(* Statements that write.  CanInsert is the uniqueness constraint: a plain *)
(* INSERT of a present node_id is an error and writes nothing.             *)
(***************************************************************************)
CanInsert(t, id) == id \notin NodeIdsIn(t)

NewRow(id, uid, pseudo) ==
    [node_id |-> id, unique_id |-> uid, pseudo_unique_id |-> pseudo]

insert_v2(t, id, uid)     == Append(t, NewRow(id, uid, None))
insert_v1(t, id, hash)    == Append(t, NewRow(id, Padded(hash), hash))
\* Wrong variant: INSERT OR REPLACE.
record_static_node_Replace(t, id) ==
    IF CanInsert(t, id) THEN Append(t, NewRow(id, ZeroUid, None))
    ELSE [i \in DOMAIN t |-> IF t[i].node_id = id THEN NewRow(id, ZeroUid, None)
                             ELSE t[i]]

record_static_node(t, id) ==
    IF CanInsert(t, id) THEN Append(t, NewRow(id, ZeroUid, None)) ELSE t

\* Wrong variant: the real unique ID also clears the hash.
update_unique_id_ClearsHash(t, id, uid) ==
    [i \in DOMAIN t |-> IF t[i].node_id = id THEN NewRow(id, uid, None) ELSE t[i]]

update_unique_id(t, id, uid) ==
    [i \in DOMAIN t |-> IF t[i].node_id = id
                        THEN [t[i] EXCEPT !.unique_id = uid] ELSE t[i]]
=============================================================================
