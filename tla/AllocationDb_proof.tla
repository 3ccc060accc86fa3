------------------------- MODULE AllocationDb_proof -------------------------
(***************************************************************************)
(* Lemmas about the queries and statements of AllocationDb, for every      *)
(* table: what a statement does to the rows, and what the queries return   *)
(* on the table it leaves.                                                 *)
(***************************************************************************)
EXTENDS AllocationDb, TLAPS, SequenceTheorems, WellFoundedInduction

\* The row a LIMIT 1 query stops at exists, and is the first one.
LEMMA LeastProperties ==
    ASSUME NEW S \in SUBSET Nat, S # {}
    PROVE  Least(S) \in S /\ \A j \in S : Least(S) <= j
<1> DEFINE R == OpToRel(<, Nat)
<1>1. \E i \in S : \A j \in S : ~(<<j, i>> \in R)
  <2>1. IsWellFoundedOn(R, Nat)
    BY NatLessThanWellFounded
  <2> HIDE DEF R
  <2> QED  BY <2>1, WFMin
<1>2. PICK i \in S : \A j \in S : ~(<<j, i>> \in R)
  BY <1>1
<1>3. ASSUME NEW j \in S
      PROVE  i <= j
  <2>1. j < i => <<j, i>> \in R
    BY DEF OpToRel
  <2> HIDE DEF R
  <2>2. i \in Nat /\ j \in Nat /\ ~(j < i)
    BY <1>2, <2>1
  <2> QED  BY <2>2
<1> QED  BY <1>3 DEF Least

\* Every table is a sequence of rows over the indices 1..Len.
LEMMA TableShape ==
    ASSUME NEW t \in Seq(Row)
    PROVE  /\ Len(t) \in Nat
           /\ DOMAIN t = 1..Len(t)
           /\ \A i \in DOMAIN t : /\ t[i] \in Row
                                  /\ t[i].node_id \in Nat
                                  /\ t[i].unique_id \in Nat
                                  /\ t[i].pseudo_unique_id \in Nat \cup {None}
<1>1. t \in [1..Len(t) -> Row] /\ Len(t) \in Nat /\ DOMAIN t = 1..Len(t)
  BY LenProperties
<1>2. ASSUME NEW row \in Row
      PROVE  /\ row.node_id \in Nat
             /\ row.unique_id \in Nat
             /\ row.pseudo_unique_id \in Nat \cup {None}
  BY DEF Row
<1> QED  BY <1>1, <1>2

\* An INSERT adds one row behind the others and changes none of them.
LEMMA AppendRow ==
    ASSUME NEW t \in Seq(Row), NEW r \in Row
    PROVE  /\ Append(t, r) \in Seq(Row)
           /\ Len(Append(t, r)) = Len(t) + 1
           /\ DOMAIN Append(t, r) = DOMAIN t \cup {Len(t) + 1}
           /\ Len(t) + 1 \notin DOMAIN t
           /\ \A i \in DOMAIN t : Append(t, r)[i] = t[i]
           /\ Append(t, r)[Len(t) + 1] = r
BY TableShape

\* Each kind of row is a row, so a successful INSERT keeps the table one.
LEMMA NewRowType ==
    ASSUME NEW id \in Nat, NEW uid \in Nat, NEW pseudo \in Nat \cup {None}
    PROVE  /\ NewRow(id, uid, pseudo) \in Row
           /\ NewRow(id, uid, pseudo).node_id = id
           /\ NewRow(id, uid, pseudo).unique_id = uid
           /\ NewRow(id, uid, pseudo).pseudo_unique_id = pseudo
BY DEF NewRow, Row

\* The UPDATE keeps the rows, their IDs and their hashes.
LEMMA UpdateKeeps ==
    ASSUME NEW t \in Seq(Row), NEW id \in Nat, NEW uid \in Nat
    PROVE  LET u == update_unique_id(t, id, uid)
           IN  /\ u \in Seq(Row)
               /\ Len(u) = Len(t)
               /\ DOMAIN u = DOMAIN t
               /\ \A i \in DOMAIN t :
                     /\ u[i].node_id = t[i].node_id
                     /\ u[i].pseudo_unique_id = t[i].pseudo_unique_id
                     /\ u[i].unique_id = IF t[i].node_id = id THEN uid
                                         ELSE t[i].unique_id
<1> DEFINE u == update_unique_id(t, id, uid)
<1>1. /\ Len(t) \in Nat
      /\ DOMAIN t = 1..Len(t)
      /\ \A i \in DOMAIN t : t[i] \in Row
  BY TableShape
<1>2. u \in [1..Len(t) -> Row]
  BY <1>1 DEF update_unique_id, Row
<1>3. u \in Seq(Row) /\ Len(u) = Len(t)
  BY <1>1, <1>2, SeqDef
<1>4. ASSUME NEW i \in DOMAIN t
      PROVE  /\ u[i].node_id = t[i].node_id
             /\ u[i].pseudo_unique_id = t[i].pseudo_unique_id
             /\ u[i].unique_id = IF t[i].node_id = id THEN uid
                                 ELSE t[i].unique_id
  BY <1>1 DEF update_unique_id, Row
<1> QED  BY <1>1, <1>2, <1>3, <1>4

\* A free ID is assignable, unreserved and in no row.
LEMMA NextFreeId ==
    ASSUME NEW t \in Seq(Row), NEW reserved, NEW max \in Nat, NEW unreadable,
           next_free_id(t, reserved, max, unreadable) # None
    PROVE  LET id == next_free_id(t, reserved, max, unreadable)
           IN  id \in Nat /\ id \in 1..max /\ id \notin reserved /\ CanInsert(t, id)
<1> DEFINE free == FreeIds(t, reserved, max, unreadable)
<1>1. free # {} /\ next_free_id(t, reserved, max, unreadable) = Least(free)
  BY DEF next_free_id
<1>2. free \in SUBSET Nat
  BY DEF FreeIds
<1>3. Least(free) \in free
  BY <1>1, <1>2, LeastProperties
<1> QED  BY <1>1, <1>2, <1>3 DEF FreeIds, CanInsert

\* A lookup that finds something returns the ID of a matching row, and one
\* that finds nothing had nothing to find.
LEMMA FirstNodeIdProperties ==
    ASSUME NEW t \in Seq(Row), NEW rows \in SUBSET DOMAIN t
    PROVE  /\ rows # {} => /\ Least(rows) \in rows
                           /\ FirstNodeId(t, rows) = t[Least(rows)].node_id
                           /\ FirstNodeId(t, rows) \in Nat
           /\ FirstNodeId(t, rows) = None <=> rows = {}
<1>1. rows \in SUBSET Nat
  BY TableShape
<1>2. CASE rows = {}
  BY <1>2 DEF FirstNodeId
<1>3. CASE rows # {}
  <2>1. Least(rows) \in rows
    BY <1>1, <1>3, LeastProperties
  <2>2. t[Least(rows)].node_id \in Nat
    BY <2>1, TableShape
  <2> QED  BY <1>3, <2>1, <2>2, NoneAssumption DEF FirstNodeId
<1> QED  BY <1>2, <1>3

\* What a hash is mapped to does not depend on the rows behind the first.
LEMMA FindByHashAppend ==
    ASSUME NEW t \in Seq(Row), NEW r \in Row, NEW hash \in Nat,
           find_by_hash(t, hash) # None \/ r.pseudo_unique_id # hash
    PROVE  find_by_hash(Append(t, r), hash) = find_by_hash(t, hash)
<1> DEFINE rows == RowsWithHash(t, hash)
           more == RowsWithHash(Append(t, r), hash)
<1>1. more = IF r.pseudo_unique_id = hash THEN rows \cup {Len(t) + 1} ELSE rows
  BY AppendRow DEF RowsWithHash
<1>2. rows \in SUBSET DOMAIN t /\ rows \in SUBSET Nat /\ more \in SUBSET Nat
  BY <1>1, TableShape DEF RowsWithHash
<1>3. CASE rows = {}
  <2>1. r.pseudo_unique_id # hash
    BY <1>2, <1>3, FirstNodeIdProperties DEF find_by_hash
  <2> QED  BY <1>1, <1>3, <2>1 DEF find_by_hash, FirstNodeId
<1>4. CASE rows # {}
  <2>1. Least(rows) \in rows /\ \A j \in rows : Least(rows) <= j
    BY <1>2, <1>4, LeastProperties
  <2>2. Least(more) \in more /\ \A j \in more : Least(more) <= j
    BY <1>1, <1>2, <1>4, LeastProperties
  <2>3. Least(rows) \in 1..Len(t) /\ Len(t) \in Nat
    BY <1>2, <2>1, TableShape
  <2>4. Least(more) = Least(rows)
    <3> HIDE DEF rows, more
    <3> DEFINE a == Least(rows)
               b == Least(more)
    <3>1. a \in rows /\ b \in more /\ a \in more /\ a \in Nat /\ b \in Nat
      BY <1>1, <1>2, <2>1, <2>2
    <3>2. b <= a
      BY <2>2, <3>1
    <3>3. b \in rows
      BY <1>1, <2>3, <3>1, <3>2
    <3>4. a <= b
      BY <2>1, <3>3
    <3> HIDE DEF a, b
    <3>5. a = b
      BY <3>1, <3>2, <3>4
    <3> QED  BY <3>5 DEF a, b
  <2>5. Append(t, r)[Least(rows)] = t[Least(rows)]
    BY <2>1, <1>2, AppendRow
  <2> QED  BY <1>1, <1>4, <2>4, <2>5 DEF find_by_hash, FirstNodeId
<1> QED  BY <1>3, <1>4

\* A hash seen for the first time is mapped to the ID of its new row.
LEMMA FindByHashNew ==
    ASSUME NEW t \in Seq(Row), NEW r \in Row, NEW hash \in Nat,
           find_by_hash(t, hash) = None, r.pseudo_unique_id = hash
    PROVE  find_by_hash(Append(t, r), hash) = r.node_id
<1>1. RowsWithHash(t, hash) = {}
  BY FirstNodeIdProperties DEF find_by_hash, RowsWithHash
<1>2. RowsWithHash(Append(t, r), hash) = {Len(t) + 1}
  BY <1>1, AppendRow DEF RowsWithHash
<1>3. Least({Len(t) + 1}) = Len(t) + 1
  <2>1. {Len(t) + 1} \in SUBSET Nat
    BY TableShape
  <2> QED  BY <2>1, LeastProperties
<1> QED  BY <1>2, <1>3, AppendRow DEF find_by_hash, FirstNodeId

\* A GetInfo answer changes no hash lookup.
LEMMA FindByHashUpdate ==
    ASSUME NEW t \in Seq(Row), NEW id \in Nat, NEW uid \in Nat, NEW hash \in Nat
    PROVE  find_by_hash(update_unique_id(t, id, uid), hash) = find_by_hash(t, hash)
<1> DEFINE u == update_unique_id(t, id, uid)
<1>1. RowsWithHash(u, hash) = RowsWithHash(t, hash)
  BY UpdateKeeps DEF RowsWithHash
<1>2. CASE RowsWithHash(t, hash) = {}
  BY <1>1, <1>2 DEF find_by_hash, FirstNodeId
<1>3. CASE RowsWithHash(t, hash) # {}
  <2>1. Least(RowsWithHash(t, hash)) \in DOMAIN t
    BY <1>3, FirstNodeIdProperties DEF RowsWithHash
  <2> QED  BY <1>1, <1>3, <2>1, UpdateKeeps DEF find_by_hash, FirstNodeId
<1> QED  BY <1>2, <1>3

\* The same of a lookup by unique ID, which an UPDATE leaves alone that neither
\* takes the unique ID from a row nor gives it to one.
LEMMA FindByUidAppend ==
    ASSUME NEW t \in Seq(Row), NEW r \in Row, NEW uid \in Nat, r.unique_id # uid
    PROVE  find_by_unique_id(Append(t, r), uid) = find_by_unique_id(t, uid)
<1>1. RowsWithUid(Append(t, r), uid) = RowsWithUid(t, uid)
  BY AppendRow DEF RowsWithUid
<1>2. CASE RowsWithUid(t, uid) = {}
  BY <1>1, <1>2 DEF find_by_unique_id, FirstNodeId
<1>3. CASE RowsWithUid(t, uid) # {}
  <2>1. Least(RowsWithUid(t, uid)) \in DOMAIN t
    BY <1>3, FirstNodeIdProperties DEF RowsWithUid
  <2> QED  BY <1>1, <1>3, <2>1, AppendRow DEF find_by_unique_id, FirstNodeId
<1> QED  BY <1>2, <1>3

LEMMA FindByUidNew ==
    ASSUME NEW t \in Seq(Row), NEW r \in Row, NEW uid \in Nat,
           find_by_unique_id(t, uid) = None, r.unique_id = uid
    PROVE  find_by_unique_id(Append(t, r), uid) = r.node_id
<1>1. RowsWithUid(t, uid) = {}
  BY FirstNodeIdProperties DEF find_by_unique_id, RowsWithUid
<1>2. RowsWithUid(Append(t, r), uid) = {Len(t) + 1}
  BY <1>1, AppendRow DEF RowsWithUid
<1>3. Least({Len(t) + 1}) = Len(t) + 1
  <2>1. {Len(t) + 1} \in SUBSET Nat
    BY TableShape
  <2> QED  BY <2>1, LeastProperties
<1> QED  BY <1>2, <1>3, AppendRow DEF find_by_unique_id, FirstNodeId

LEMMA FindByUidUpdate ==
    ASSUME NEW t \in Seq(Row), NEW id \in Nat, NEW new \in Nat, NEW uid \in Nat,
           new # uid, \A i \in RowsWithId(t, id) : t[i].unique_id # uid
    PROVE  find_by_unique_id(update_unique_id(t, id, new), uid)
              = find_by_unique_id(t, uid)
<1> DEFINE u == update_unique_id(t, id, new)
<1>1. RowsWithUid(u, uid) = RowsWithUid(t, uid)
  BY UpdateKeeps DEF RowsWithUid, RowsWithId
<1>2. CASE RowsWithUid(t, uid) = {}
  BY <1>1, <1>2 DEF find_by_unique_id, FirstNodeId
<1>3. CASE RowsWithUid(t, uid) # {}
  <2>1. Least(RowsWithUid(t, uid)) \in DOMAIN t
    BY <1>3, FirstNodeIdProperties DEF RowsWithUid
  <2> QED  BY <1>1, <1>3, <2>1, UpdateKeeps DEF find_by_unique_id, FirstNodeId
<1> QED  BY <1>2, <1>3

\* The IDs of the rows after an INSERT and after an UPDATE.
LEMMA NodeIdsInAppend ==
    ASSUME NEW t \in Seq(Row), NEW r \in Row
    PROVE  NodeIdsIn(Append(t, r)) = NodeIdsIn(t) \cup {r.node_id}
BY AppendRow DEF NodeIdsIn

LEMMA NodeIdsInUpdate ==
    ASSUME NEW t \in Seq(Row), NEW id \in Nat, NEW uid \in Nat
    PROVE  NodeIdsIn(update_unique_id(t, id, uid)) = NodeIdsIn(t)
<1> DEFINE u == update_unique_id(t, id, uid)
<1>1. DOMAIN u = DOMAIN t /\ \A i \in DOMAIN t : u[i].node_id = t[i].node_id
  BY UpdateKeeps
<1> QED  BY <1>1 DEF NodeIdsIn
=============================================================================
