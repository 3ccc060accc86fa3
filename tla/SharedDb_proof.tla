--------------------------- MODULE SharedDb_proof ---------------------------
(***************************************************************************)
(* What several allocators on one file promise together, for any number of *)
(* them, any requests and any statements that fail.                        *)
(***************************************************************************)
EXTENDS SharedDb, AllocationDb_proof, FiniteSetTheorems

Pcs == {"down", "idle", "count", "insert", "publish"}

STypeOK ==
    /\ table \in Seq(Row)
    /\ pc \in [Allocators -> Pcs]
    /\ request \in [Allocators -> AllRequests \cup {None}]
    /\ id \in [Allocators -> Nat]
    /\ querying \in [Allocators -> SUBSET Nat]
    /\ published \in SUBSET [request : AllRequests, node_id : Nat]
    /\ \A a \in Allocators :
          /\ pc[a] \in {"count", "insert", "publish"} => request[a] \in Requests[a]
          /\ pc[a] \in {"count", "insert"} => id[a] >= 1
          /\ pc[a] = "insert" => id[a] <= MaxNodeId[a]

(***************************************************************************)
(* A row is the row of request r if r's node owns it: by its hash, if it   *)
(* has one, and else by its unique ID.  GetInfo answers may overwrite the  *)
(* unique ID of the rows it queries, which own their IDs by hash or are    *)
(* not owned by a requester.                                               *)
(***************************************************************************)
Owns(r, row) ==
    IF r.version = 1 THEN row.pseudo_unique_id = r.key
    ELSE IF row.pseudo_unique_id = None THEN row.unique_id = r.key
    ELSE UidOf[row.pseudo_unique_id] = r.key

Owner(t, r, n) == \E i \in RowsWithId(t, n) : Owns(r, t[i])

RowOK(row) ==
    IF row.pseudo_unique_id = None
    THEN row.unique_id \in {ZeroUid} \cup StaticUids \cup V2Uids
    ELSE /\ row.pseudo_unique_id \in Hashes
         /\ row.unique_id \in {Padded(row.pseudo_unique_id),
                               UidOf[row.pseudo_unique_id]} \cup StaticUids

Learnable(row) ==
    row.pseudo_unique_id = None => row.unique_id \in {ZeroUid} \cup StaticUids

LearnableId(t, n) ==
    /\ n \in NodeIdsIn(t)
    /\ \A i \in RowsWithId(t, n) : Learnable(t[i])

GoodTable(t) ==
    /\ t \in Seq(Row)
    /\ \A i, j \in DOMAIN t : t[i].node_id = t[j].node_id => i = j
    /\ \A i \in DOMAIN t : RowOK(t[i])

Owned ==
    /\ \A p \in published : Owner(table, p.request, p.node_id)
    /\ \A a \in Allocators : pc[a] = "publish" => Owner(table, request[a], id[a])

QueriesLearnable ==
    \A a \in Allocators : \A n \in querying[a] : LearnableId(table, n)

SInv == STypeOK /\ GoodTable(table) /\ Owned /\ QueriesLearnable

-----------------------------------------------------------------------------
(* What a statement does to the ownership of rows. *)

Keeps(t, u) ==
    /\ \A r \in AllRequests, n \in Nat : Owner(t, r, n) => Owner(u, r, n)
    /\ \A n \in Nat : LearnableId(t, n) => LearnableId(u, n)

LEMMA RequestTypes ==
    /\ \A r \in AllRequests : /\ r.version \in {1, 2}
                              /\ r.key \in Nat
                              /\ r.version = 1 => r.key \in Hashes
                              /\ r.version = 2 => r.key \in V2Uids
    /\ Hashes \subseteq Nat
    /\ V2Uids \subseteq Nat
    /\ \A a \in Allocators : Requests[a] \subseteq AllRequests
BY SharedAssumption DEF AllRequests, Hashes, V2Uids

LEMMA AppendKeeps ==
    ASSUME NEW t, GoodTable(t), NEW r \in Row, RowOK(r), CanInsert(t, r.node_id)
    PROVE  GoodTable(Append(t, r)) /\ Keeps(t, Append(t, r))
<1> DEFINE u == Append(t, r)
<1>0. t \in Seq(Row)
  BY DEF GoodTable
<1>1. /\ u \in Seq(Row)
      /\ DOMAIN u = DOMAIN t \cup {Len(t) + 1}
      /\ Len(t) + 1 \notin DOMAIN t
      /\ \A i \in DOMAIN t : u[i] = t[i]
      /\ u[Len(t) + 1] = r
  BY <1>0, AppendRow
<1>2. \A i \in DOMAIN t : t[i].node_id # r.node_id
  BY DEF CanInsert, NodeIdsIn
<1> HIDE DEF u
<1>3. GoodTable(u)
  <2>1. \A i, j \in DOMAIN u : u[i].node_id = u[j].node_id => i = j
    BY <1>1, <1>2 DEF GoodTable
  <2>2. \A i \in DOMAIN u : RowOK(u[i])
    BY <1>1 DEF GoodTable
  <2> QED  BY <1>1, <2>1, <2>2 DEF GoodTable
<1>4. \A q \in AllRequests, n \in Nat : Owner(t, q, n) => Owner(u, q, n)
  BY <1>1 DEF Owner, RowsWithId
<1>5. \A n \in Nat : LearnableId(t, n) => LearnableId(u, n)
  <2> SUFFICES ASSUME NEW n \in Nat, LearnableId(t, n)
               PROVE  LearnableId(u, n)
    OBVIOUS
  <2>1. r.node_id # n
    BY <1>2 DEF LearnableId, NodeIdsIn
  <2>2. RowsWithId(u, n) = RowsWithId(t, n)
    BY <1>1, <2>1 DEF RowsWithId
  <2>3. n \in NodeIdsIn(u)
    BY <1>1 DEF LearnableId, NodeIdsIn
  <2> QED  BY <1>1, <2>2, <2>3 DEF LearnableId, RowsWithId
<1> QED  BY <1>3, <1>4, <1>5 DEF Keeps, u

LEMMA UpdateKeepsOwners ==
    ASSUME NEW t, GoodTable(t), NEW n \in Nat, LearnableId(t, n), NEW uid \in Nat,
           \A i \in RowsWithId(t, n) :
              IF t[i].pseudo_unique_id = None THEN uid \in StaticUids
              ELSE uid \in {UidOf[t[i].pseudo_unique_id]} \cup StaticUids
    PROVE  /\ GoodTable(update_unique_id(t, n, uid))
           /\ Keeps(t, update_unique_id(t, n, uid))
<1> DEFINE u == update_unique_id(t, n, uid)
<1>0. t \in Seq(Row)
  BY DEF GoodTable
<1>1. /\ u \in Seq(Row)
      /\ DOMAIN u = DOMAIN t
      /\ \A i \in DOMAIN t :
            /\ u[i].node_id = t[i].node_id
            /\ u[i].pseudo_unique_id = t[i].pseudo_unique_id
            /\ u[i].unique_id = IF t[i].node_id = n THEN uid ELSE t[i].unique_id
  BY <1>0, UpdateKeeps
<1> HIDE DEF u
<1>2. \A i \in DOMAIN t : RowOK(u[i]) /\ (Learnable(t[i]) => Learnable(u[i]))
  <2> TAKE i \in DOMAIN t
  <2>1. CASE t[i].node_id = n
    BY <1>1, <2>1 DEF RowOK, GoodTable, RowsWithId, Learnable
  <2>2. CASE t[i].node_id # n
    BY <1>1, <2>2 DEF RowOK, GoodTable, Learnable
  <2> QED  BY <2>1, <2>2
<1>3. GoodTable(u)
  BY <1>1, <1>2 DEF GoodTable
<1>4. ASSUME NEW q \in AllRequests, NEW m \in Nat, Owner(t, q, m)
      PROVE  Owner(u, q, m)
  <2>1. PICK i \in DOMAIN t : t[i].node_id = m /\ Owns(q, t[i])
    BY <1>4 DEF Owner, RowsWithId
  <2>2. Owns(q, u[i])
    <3>1. CASE t[i].pseudo_unique_id = None /\ q.version # 1 /\ m = n
      <4>1. t[i].unique_id \in {ZeroUid} \cup StaticUids
        BY <2>1, <3>1 DEF LearnableId, RowsWithId, Learnable
      <4>2. t[i].unique_id \in V2Uids
        BY <2>1, <3>1, RequestTypes DEF Owns
      <4> QED  BY <4>1, <4>2, SharedAssumption
    <3>2. CASE ~(t[i].pseudo_unique_id = None /\ q.version # 1 /\ m = n)
      BY <1>1, <2>1, <3>2 DEF Owns
    <3> QED  BY <3>1, <3>2
  <2> QED  BY <1>1, <2>1, <2>2 DEF Owner, RowsWithId
<1>5. \A m \in Nat : LearnableId(t, m) => LearnableId(u, m)
  BY <1>1, <1>2 DEF LearnableId, NodeIdsIn, RowsWithId
<1> QED  BY <1>3, <1>4, <1>5 DEF Keeps, u

LEMMA SameKeeps == ASSUME NEW t PROVE Keeps(t, t)
BY DEF Keeps

\* INSERT OR IGNORE of a static node, or its failure.
LEMMA RecordedKeeps ==
    ASSUME GoodTable(table), NEW n \in Nat, NEW u \in Recorded(n)
    PROVE  GoodTable(u) /\ Keeps(table, u)
<1> DEFINE r == NewRow(n, ZeroUid, None)
<1>0. ZeroUid \in Nat
  BY DEF ZeroUid
<1>1. r \in Row /\ r.node_id = n /\ RowOK(r)
  <2>1. /\ r \in Row
        /\ r.node_id = n
        /\ r.unique_id = ZeroUid
        /\ r.pseudo_unique_id = None
    BY <1>0 DEF NewRow, Row
  <2> QED  BY <2>1 DEF RowOK
<1>2. u = table \/ (CanInsert(table, n) /\ u = Append(table, r))
  BY DEF Recorded, record_static_node
<1> QED  BY <1>1, <1>2, AppendKeeps, SameKeeps

-----------------------------------------------------------------------------
\* The parts of the invariant that a step keeps when it keeps the table's
\* owners and neither publishes nor queues anything new.
LEMMA OwnedKept ==
    ASSUME SInv, STypeOK', Keeps(table, table'), published' = published,
           \A a \in Allocators :
              pc'[a] = "publish" =>
                 \/ Owner(table', request'[a], id'[a])
                 \/ pc[a] = "publish" /\ request'[a] = request[a] /\ id'[a] = id[a]
    PROVE  Owned'
<1>1. \A p \in published : p.request \in AllRequests /\ p.node_id \in Nat
  BY DEF SInv, STypeOK
<1>2. \A p \in published' : Owner(table', p.request, p.node_id)
  BY <1>1 DEF SInv, Owned, Keeps
<1>3. ASSUME NEW a \in Allocators, pc'[a] = "publish"
      PROVE  Owner(table', request'[a], id'[a])
  <2>1. CASE pc[a] = "publish" /\ request'[a] = request[a] /\ id'[a] = id[a]
    <3>1. request[a] \in AllRequests /\ id[a] \in Nat
      BY <2>1, RequestTypes DEF SInv, STypeOK
    <3> QED  BY <2>1, <3>1 DEF SInv, Owned, Keeps
  <2> QED  BY <1>3, <2>1
<1> QED  BY <1>2, <1>3 DEF Owned

LEMMA QueriesKept ==
    ASSUME SInv, Keeps(table, table'),
           \A a \in Allocators : querying'[a] \subseteq querying[a]
    PROVE  QueriesLearnable'
BY DEF SInv, STypeOK, QueriesLearnable, Keeps

LEMMA InitInv == Init => SInv
<1> SUFFICES ASSUME Init PROVE SInv
  OBVIOUS
<1> USE SharedAssumption DEF Init
<1>1. STypeOK
  BY DEF STypeOK, Pcs
<1>2. GoodTable(table)
  BY DEF GoodTable
<1>3. Owned /\ QueriesLearnable
  BY DEF Owned, QueriesLearnable
<1> QED  BY <1>1, <1>2, <1>3 DEF SInv

-----------------------------------------------------------------------------
(* The steps that change the table. *)

LEMMA NewStep ==
    ASSUME SInv, NEW a \in Allocators, New(a)
    PROVE  SInv'
<1> USE SharedAssumption DEF SInv
<1>1. LocalId[a] \in Nat
  OBVIOUS
<1>2. GoodTable(table') /\ Keeps(table, table')
  BY <1>1, RecordedKeeps DEF New
<1>3. STypeOK'
  BY <1>2 DEF New, Goto, STypeOK, Pcs, GoodTable
<1>4. Owned'
  BY <1>2, <1>3, OwnedKept DEF New, Goto, STypeOK
<1>5. QueriesLearnable'
  BY <1>2, QueriesKept DEF New
<1> QED  BY <1>2, <1>3, <1>4, <1>5

LEMMA InUseType == SInv => InUse \subseteq Nat
BY SharedAssumption DEF SInv, STypeOK, InUse

\* A row that needs a GetInfo is learnable.
LEMMA NeedsGetInfo ==
    ASSUME NEW row, needs_get_info(row)
    PROVE  Learnable(row)
BY DEF needs_get_info, Learnable

LEMMA HeartbeatStep ==
    ASSUME SInv, NEW a \in Allocators, NEW n \in InUse, OnHeartbeat(a, n)
    PROVE  SInv'
<1> USE SharedAssumption DEF SInv
<1>1. n \in Nat
  BY InUseType
<1>2. GoodTable(table') /\ Keeps(table, table')
  BY <1>1, RecordedKeeps DEF OnHeartbeat
<1>3. STypeOK'
  BY <1>1, <1>2 DEF OnHeartbeat, STypeOK, GoodTable
<1>4. Owned'
  BY <1>2, <1>3, OwnedKept DEF OnHeartbeat, STypeOK
<1>5. QueriesLearnable'
  <2> SUFFICES ASSUME NEW b \in Allocators, NEW m \in querying'[b]
               PROVE  LearnableId(table', m)
    BY DEF QueriesLearnable
  <2>1. CASE m \in querying[b]
    BY <1>2, <2>1 DEF QueriesLearnable, Keeps, STypeOK
  <2>2. CASE m \notin querying[b]
    <3>1. m = n /\ \E i \in RowsWithId(table', n) : needs_get_info(table'[i])
      BY <2>2 DEF OnHeartbeat, STypeOK
    <3>2. PICK i \in RowsWithId(table', n) : needs_get_info(table'[i])
      BY <3>1
    <3>3. Learnable(table'[i])
      BY <3>2, NeedsGetInfo
    <3>4. \A j \in RowsWithId(table', n) : j = i
      BY <1>2 DEF GoodTable, RowsWithId
    <3> QED  BY <3>1, <3>2, <3>3, <3>4 DEF LearnableId, RowsWithId, NodeIdsIn
  <2> QED  BY <2>1, <2>2
<1> QED  BY <1>2, <1>3, <1>4, <1>5

\* A unique ID reported at a queried ID is the owner's, or a static node's.
LEMMA ReportedUids ==
    ASSUME SInv, NEW n \in Nat, LearnableId(table, n), NEW uid \in UidsAt(n)
    PROVE  /\ uid \in Nat
           /\ \A i \in RowsWithId(table, n) :
                 IF table[i].pseudo_unique_id = None THEN uid \in StaticUids
                 ELSE uid \in {UidOf[table[i].pseudo_unique_id]} \cup StaticUids
<1> USE SharedAssumption DEF SInv
<1>1. CASE uid \in StaticUids
  BY <1>1
<1>2. ASSUME uid \notin StaticUids
      PROVE  /\ uid \in Nat
             /\ \A i \in RowsWithId(table, n) :
                   /\ table[i].pseudo_unique_id # None
                   /\ uid = UidOf[table[i].pseudo_unique_id]
  <2>1. PICK p \in published : p.node_id = n /\ uid = Uid(p.request)
    BY <1>2 DEF UidsAt
  <2>2. p.request \in AllRequests
    BY DEF STypeOK
  <2>3. Uid(p.request) \in Nat
    BY <2>2, RequestTypes DEF Uid
  <2>4. PICK i \in RowsWithId(table, n) : Owns(p.request, table[i])
    BY <2>1 DEF Owned, Owner
  <2>5. \A j \in RowsWithId(table, n) : j = i
    BY DEF GoodTable, RowsWithId
  <2>6. table[i].pseudo_unique_id # None
    <3>1. CASE p.request.version = 1
      BY <2>2, <2>4, <3>1, RequestTypes, NoneAssumption DEF Owns
    <3>2. CASE p.request.version = 2
      <4>1. p.request.key \in V2Uids
        BY <2>2, <3>2, RequestTypes
      <4> SUFFICES ASSUME table[i].pseudo_unique_id = None
                   PROVE  FALSE
        OBVIOUS
      <4>2. table[i].unique_id = p.request.key
        BY <2>4, <3>2 DEF Owns
      <4>3. table[i].unique_id \in {ZeroUid} \cup StaticUids
        BY DEF LearnableId, Learnable
      <4> QED  BY <4>1, <4>2, <4>3
    <3> QED  BY <2>2, <3>1, <3>2, RequestTypes
  <2>7. uid = UidOf[table[i].pseudo_unique_id]
    BY <2>1, <2>4, <2>6 DEF Owns, Uid
  <2> QED  BY <2>1, <2>3, <2>5, <2>6, <2>7
<1> QED  BY <1>1, <1>2

LEMMA GetInfoStep ==
    ASSUME SInv, NEW a \in Allocators, NEW n \in querying[a],
           NEW uid \in UidsAt(n), GetInfoResult(a, n, uid)
    PROVE  SInv'
<1> USE SharedAssumption DEF SInv
<1>1. n \in Nat /\ LearnableId(table, n)
  BY DEF STypeOK, QueriesLearnable
<1>2. table' = table \/ table' = update_unique_id(table, n, uid)
  BY DEF GetInfoResult
<1>3. GoodTable(table') /\ Keeps(table, table')
  BY <1>1, <1>2, ReportedUids, UpdateKeepsOwners, SameKeeps
<1>4. STypeOK'
  BY <1>3 DEF GetInfoResult, STypeOK, GoodTable
<1>5. Owned'
  BY <1>3, <1>4, OwnedKept DEF GetInfoResult, STypeOK
<1>6. \A b \in Allocators : querying'[b] \subseteq querying[b]
  BY DEF GetInfoResult, STypeOK
<1>7. QueriesLearnable'
  BY <1>3, <1>6, QueriesKept
<1> QED  BY <1>3, <1>4, <1>5, <1>7

-----------------------------------------------------------------------------
(* The steps of a request. *)

LEMMA FoundIsOwner ==
    ASSUME SInv, NEW r \in AllRequests, Existing(r) # None
    PROVE  Existing(r) \in Nat /\ Owner(table, r, Existing(r))
<1> USE SharedAssumption DEF SInv
<1> DEFINE rows == IF r.version = 1 THEN RowsWithHash(table, r.key)
                   ELSE RowsWithUid(table, r.key)
<1>0. table \in Seq(Row)
  BY DEF STypeOK
<1>1. Existing(r) = FirstNodeId(table, rows) /\ rows \in SUBSET DOMAIN table
  BY DEF Existing, find_by_hash, find_by_unique_id, RowsWithHash, RowsWithUid
<1> DEFINE i == Least(rows)
<1>2. i \in rows /\ Existing(r) = table[i].node_id /\ Existing(r) \in Nat
  <2> HIDE DEF rows
  <2> QED  BY <1>0, <1>1, FirstNodeIdProperties
<1> HIDE DEF i
<1>3. Owns(r, table[i])
  <2>1. CASE r.version = 1
    BY <1>2, <2>1 DEF RowsWithHash, Owns
  <2>2. CASE r.version # 1
    <3>1. table[i].unique_id = r.key /\ RowOK(table[i])
      BY <1>1, <1>2, <2>2 DEF RowsWithUid, GoodTable
    <3>2. r.key \in V2Uids
      BY <2>2, RequestTypes
    <3> QED  BY <2>2, <3>1, <3>2 DEF RowOK, Owns
  <2> QED  BY <2>1, <2>2
<1>4. i \in RowsWithId(table, Existing(r))
  BY <1>1, <1>2 DEF RowsWithId
<1> QED  BY <1>2, <1>3, <1>4 DEF Owner

LEMMA FindStep ==
    ASSUME SInv, NEW a \in Allocators, NEW r \in Requests[a], Find(a, r)
    PROVE  SInv'
<1> USE SharedAssumption DEF SInv
<1>0. r \in AllRequests
  BY RequestTypes
<1>1. Existing(r) # None => Existing(r) \in Nat /\ Owner(table, r, Existing(r))
  BY <1>0, FoundIsOwner
<1>2. STypeOK'
  <2>1. CASE Existing(r) # None /\ Goto(a, "publish")
             /\ id' = [id EXCEPT ![a] = Existing(r)]
    BY <1>0, <1>1, <2>1 DEF Find, Goto, STypeOK, Pcs
  <2>2. CASE Goto(a, "count") /\ id' = [id EXCEPT ![a] = 1]
    BY <1>0, <2>2 DEF Find, Goto, STypeOK, Pcs
  <2> QED  BY <2>1, <2>2 DEF Find
<1>3. Keeps(table, table') /\ GoodTable(table')
  BY SameKeeps DEF Find
<1>4. \A b \in Allocators :
         pc'[b] = "publish" =>
            \/ Owner(table', request'[b], id'[b])
            \/ pc[b] = "publish" /\ request'[b] = request[b] /\ id'[b] = id[b]
  BY <1>1 DEF Find, Goto, STypeOK
<1>5. published' = published /\ querying' = querying
  BY DEF Find
<1>6. Owned'
  BY <1>2, <1>3, <1>4, <1>5, OwnedKept
<1>7. QueriesLearnable'
  BY <1>3, <1>5, QueriesKept
<1> QED  BY <1>2, <1>3, <1>6, <1>7

LEMMA CountStep ==
    ASSUME SInv, NEW a \in Allocators, Count(a)
    PROVE  SInv'
<1> USE SharedAssumption DEF SInv
<1>1. STypeOK'
  <2>1. CASE Return(a, "idle")
    BY <2>1 DEF Count, Goto, Return, STypeOK, Pcs
  <2>2. CASE id' = [id EXCEPT ![a] = @ + 1] /\ UNCHANGED <<pc, request>>
    <3>1. id[a] + 1 >= 1 /\ id[a] + 1 \in Nat
      BY DEF Count, STypeOK
    <3>2. pc[a] = "count"
      BY DEF Count
    <3> QED  BY <2>2, <3>1, <3>2 DEF Count, STypeOK
  <2>3. CASE id[a] <= MaxNodeId[a] /\ Goto(a, "insert") /\ UNCHANGED <<request, id>>
    BY <2>3 DEF Count, Goto, STypeOK, Pcs
  <2> QED  BY <2>1, <2>2, <2>3 DEF Count
<1>2. Keeps(table, table') /\ GoodTable(table')
  BY SameKeeps DEF Count
<1>3. \A b \in Allocators :
         pc'[b] = "publish" =>
            pc[b] = "publish" /\ request'[b] = request[b] /\ id'[b] = id[b]
  BY DEF Count, Goto, Return, STypeOK
<1>4. published' = published /\ querying' = querying
  BY DEF Count
<1>5. Owned'
  BY <1>1, <1>2, <1>3, <1>4, OwnedKept
<1>6. QueriesLearnable'
  BY <1>2, <1>4, QueriesKept
<1> QED  BY <1>1, <1>2, <1>5, <1>6

\* The row a request inserts.
NewRowOf(r, n) == NewRow(n, IF r.version = 1 THEN Padded(r.key) ELSE r.key,
                         IF r.version = 1 THEN r.key ELSE None)

LEMMA InsertedRow ==
    ASSUME NEW r \in AllRequests, NEW n \in Nat
    PROVE  LET row == NewRowOf(r, n)
           IN  /\ row \in Row
               /\ row.node_id = n
               /\ row.pseudo_unique_id = IF r.version = 1 THEN r.key ELSE None
               /\ RowOK(row)
               /\ Owns(r, row)
<1> DEFINE row == NewRowOf(r, n)
           uid == IF r.version = 1 THEN Padded(r.key) ELSE r.key
           pseudo == IF r.version = 1 THEN r.key ELSE None
<1>1. uid \in Nat /\ pseudo \in Nat \cup {None}
  BY RequestTypes DEF Padded
<1>2. /\ row \in Row
      /\ row.node_id = n
      /\ row.unique_id = uid
      /\ row.pseudo_unique_id = pseudo
  <2>1. row = NewRow(n, uid, pseudo)
    BY DEF NewRowOf
  <2> HIDE DEF row, uid, pseudo
  <2> QED  BY <1>1, <2>1, NewRowType
<1> HIDE DEF row
<1>3. RowOK(row) /\ Owns(r, row)
  BY <1>2, RequestTypes, NoneAssumption DEF RowOK, Owns
<1> QED  BY <1>2, <1>3 DEF row

LEMMA InsertCases ==
    ASSUME SInv, NEW a \in Allocators, Insert(a)
    PROVE  \/ /\ CanInsert(table, id[a])
              /\ table' = Append(table, NewRowOf(request[a], id[a]))
              /\ pc' = [pc EXCEPT ![a] = "publish"]
              /\ UNCHANGED <<request, id>>
           \/ UNCHANGED table /\ Return(a, "idle")
BY DEF Insert, Inserted, NewRowOf, insert_v1, insert_v2, Goto

LEMMA InsertStep ==
    ASSUME SInv, NEW a \in Allocators, Insert(a)
    PROVE  SInv'
<1> USE SharedAssumption DEF SInv
<1>0. request[a] \in AllRequests /\ id[a] \in Nat /\ request[a] \in Requests[a]
  BY RequestTypes DEF Insert, STypeOK
<1>1. UNCHANGED <<querying, published>>
  BY DEF Insert
<1>2. CASE UNCHANGED table /\ Return(a, "idle")
  <2>1. STypeOK'
    BY <1>1, <1>2 DEF Return, Goto, STypeOK, Pcs
  <2>2. Keeps(table, table') /\ GoodTable(table')
    BY <1>2, SameKeeps
  <2>3. \A b \in Allocators :
           pc'[b] = "publish" =>
              pc[b] = "publish" /\ request'[b] = request[b] /\ id'[b] = id[b]
    BY <1>2 DEF Return, Goto, STypeOK
  <2>4. Owned'
    BY <1>1, <2>1, <2>2, <2>3, OwnedKept
  <2>5. QueriesLearnable'
    BY <1>1, <2>2, QueriesKept
  <2> QED  BY <2>1, <2>2, <2>4, <2>5
<1>3. CASE /\ CanInsert(table, id[a])
           /\ table' = Append(table, NewRowOf(request[a], id[a]))
           /\ pc' = [pc EXCEPT ![a] = "publish"]
           /\ UNCHANGED <<request, id>>
  <2> DEFINE row == NewRowOf(request[a], id[a])
  <2>1. row \in Row /\ row.node_id = id[a] /\ RowOK(row) /\ Owns(request[a], row)
    BY <1>0, InsertedRow
  <2>2. table' = Append(table, row)
    BY <1>3
  <2> HIDE DEF row
  <2>3. GoodTable(table') /\ Keeps(table, table')
    BY <1>3, <2>1, <2>2, AppendKeeps
  <2>4. STypeOK'
    BY <1>0, <1>1, <1>3, <2>3 DEF STypeOK, Pcs, GoodTable
  <2>5. Owner(table', request[a], id[a])
    BY <2>1, <2>2, AppendRow DEF Owner, RowsWithId, STypeOK
  <2>6. Owned'
    BY <1>1, <1>3, <2>3, <2>4, <2>5, OwnedKept DEF STypeOK
  <2>7. QueriesLearnable'
    BY <1>1, <2>3, QueriesKept
  <2> QED  BY <2>3, <2>4, <2>6, <2>7
<1> QED  BY <1>2, <1>3, InsertCases

LEMMA PublishStep ==
    ASSUME SInv, NEW a \in Allocators, Publish(a)
    PROVE  SInv'
<1> USE SharedAssumption DEF SInv
<1>1. request[a] \in AllRequests /\ id[a] \in Nat
  BY RequestTypes DEF Publish, STypeOK
<1>2. published' = published \cup {[request |-> request[a], node_id |-> id[a]]}
  BY DEF Publish, Answer
<1>3. STypeOK'
  BY <1>1, <1>2 DEF Publish, Return, Goto, STypeOK, Pcs
<1>4. GoodTable(table') /\ Owner(table', request[a], id[a])
  BY DEF Publish, Owned
<1>5. Owned'
  BY <1>2, <1>4 DEF Publish, Return, Goto, STypeOK, Owned
<1>6. QueriesLearnable'
  BY DEF Publish, QueriesLearnable
<1> QED  BY <1>3, <1>4, <1>5, <1>6

LEMMA KillStep ==
    ASSUME SInv, NEW a \in Allocators, Kill(a)
    PROVE  SInv'
<1> USE SharedAssumption DEF SInv
<1>1. STypeOK'
  BY DEF Kill, Return, Goto, STypeOK, Pcs
<1>2. GoodTable(table')
  BY DEF Kill
<1>3. Owned'
  BY DEF Kill, Return, Goto, STypeOK, Owned
<1>4. QueriesLearnable'
  BY DEF Kill, STypeOK, QueriesLearnable
<1> QED  BY <1>1, <1>2, <1>3, <1>4

LEMMA StepInv == SInv /\ [Next]_vars => SInv'
<1> SUFFICES ASSUME SInv, [Next]_vars
             PROVE  SInv'
  OBVIOUS
<1>1. CASE UNCHANGED vars
  BY <1>1 DEF vars, SInv, STypeOK, Owned, QueriesLearnable
<1>2. CASE Next
  <2>1. PICK a \in Allocators :
           \/ New(a) \/ Serve(a) \/ Kill(a)
           \/ \E n \in InUse : OnHeartbeat(a, n)
           \/ \E n \in querying[a] : \E uid \in UidsAt(n) : GetInfoResult(a, n, uid)
           \/ \E r \in Requests[a] : Find(a, r)
    BY <1>2 DEF Next
  <2> QED  BY <2>1, NewStep, CountStep, InsertStep, PublishStep, KillStep,
              HeartbeatStep, GetInfoStep, FindStep DEF Serve
<1> QED  BY <1>1, <1>2

\* A node ID published for two requests has one row, and that row one owner.
LEMMA InvNoSharedId == SInv => NoSharedId
<1> SUFFICES ASSUME SInv, NEW p \in published, NEW q \in published,
                    p.node_id = q.node_id
             PROVE  Uid(p.request) = Uid(q.request)
  BY DEF NoSharedId
<1>1. p.request \in AllRequests /\ q.request \in AllRequests
  BY DEF SInv, STypeOK
<1>2. PICK i \in RowsWithId(table, p.node_id) : Owns(p.request, table[i])
  BY DEF SInv, Owned, Owner
<1>3. PICK j \in RowsWithId(table, q.node_id) : Owns(q.request, table[j])
  BY DEF SInv, Owned, Owner
<1>4. i = j
  BY DEF SInv, GoodTable, RowsWithId
<1> QED  BY <1>1, <1>2, <1>3, <1>4, RequestTypes, NoneAssumption DEF Owns, Uid

\* Whatever allocators share the file, however their statements interleave and
\* whichever of them fail, no two nodes are told one node ID.
THEOREM NoIdIsShared == Spec => []NoSharedId
BY InitInv, StepInv, InvNoSharedId, PTL DEF Spec

-----------------------------------------------------------------------------
(***************************************************************************)
(* The hashes that one allocator hears: while it searches an ID for one,   *)
(* the hash stays unknown, and the ID it will publish is the mapped one.   *)
(***************************************************************************)
ServesExclusive(a) == request[a].version = 1 /\ request[a].key \in Exclusive

Undisturbed ==
    \A a \in Allocators :
        /\ pc[a] \in {"count", "insert"} /\ ServesExclusive(a) =>
              find_by_hash(table, request[a].key) = None
        /\ pc[a] = "publish" /\ ServesExclusive(a) =>
              find_by_hash(table, request[a].key) = id[a]

EInv == SInv /\ Undisturbed

mapped == [h \in Exclusive |-> find_by_hash(table, h)]

\* A step that leaves the mapping of the exclusive hashes as it is.
SameMapping ==
    \A h \in Exclusive : find_by_hash(table', h) = find_by_hash(table, h)

LEMMA ExclusiveType == Exclusive \subseteq Hashes /\ Exclusive \subseteq Nat
BY RequestTypes DEF Exclusive

\* An exclusive hash has one listener.
LEMMA OneListener ==
    ASSUME NEW h \in Exclusive, NEW a \in Allocators, NEW b \in Allocators,
           NEW r \in Requests[a], NEW q \in Requests[b],
           r.version = 1, r.key = h, q.version = 1, q.key = h
    PROVE  a = b
<1>1. \A c \in Allocators : \A s \in Requests[c] :
         s = [version |-> s.version, key |-> s.key]
  BY SharedAssumption
<1>2. Request(1, h) \in Requests[a] /\ Request(1, h) \in Requests[b]
  BY <1>1 DEF Request
<1> QED  BY <1>2 DEF Exclusive, Listeners

LEMMA RecordedMapping ==
    ASSUME SInv, NEW n \in Nat, table' \in Recorded(n)
    PROVE  SameMapping /\ NodeIdsIn(table) \subseteq NodeIdsIn(table')
<1> DEFINE r == NewRow(n, ZeroUid, None)
<1>1. r \in Row /\ r.pseudo_unique_id = None
  BY DEF NewRow, Row, ZeroUid
<1>2. table' = table \/ table' = Append(table, r)
  BY DEF Recorded, record_static_node
<1>3. \A h \in Exclusive : r.pseudo_unique_id # h /\ h \in Nat
  BY <1>1, ExclusiveType, NoneAssumption
<1> HIDE DEF r
<1>4. table \in Seq(Row)
  BY DEF SInv, STypeOK
<1> QED  BY <1>1, <1>2, <1>3, <1>4, FindByHashAppend, NodeIdsInAppend DEF SameMapping

LEMMA UpdateMapping ==
    ASSUME SInv, NEW a \in Allocators, NEW n \in querying[a], NEW uid \in UidsAt(n),
           GetInfoResult(a, n, uid)
    PROVE  SameMapping /\ NodeIdsIn(table) \subseteq NodeIdsIn(table')
<1>1. n \in Nat /\ LearnableId(table, n) /\ table \in Seq(Row)
  BY DEF SInv, STypeOK, QueriesLearnable
<1>2. uid \in Nat
  BY <1>1, ReportedUids
<1>3. table' = table \/ table' = update_unique_id(table, n, uid)
  BY DEF GetInfoResult
<1> QED  BY <1>1, <1>2, <1>3, ExclusiveType, FindByHashUpdate, NodeIdsInUpdate
         DEF SameMapping

\* The mapping after an INSERT.
LEMMA InsertMapping ==
    ASSUME EInv, NEW a \in Allocators, Insert(a), table' # table
    PROVE  /\ pc' = [pc EXCEPT ![a] = "publish"]
           /\ UNCHANGED <<request, id>>
           /\ id[a] \in 1..MaxNodeId[a]
           /\ id[a] \notin NodeIdsIn(table)
           /\ NodeIdsIn(table') = NodeIdsIn(table) \cup {id[a]}
           /\ ~ServesExclusive(a) => SameMapping
           /\ ServesExclusive(a) =>
                 /\ find_by_hash(table, request[a].key) = None
                 /\ find_by_hash(table', request[a].key) = id[a]
                 /\ \A h \in Exclusive \ {request[a].key} :
                       find_by_hash(table', h) = find_by_hash(table, h)
<1>0. /\ pc[a] = "insert"
      /\ table \in Seq(Row)
      /\ request[a] \in AllRequests
      /\ id[a] \in Nat /\ id[a] >= 1 /\ id[a] <= MaxNodeId[a]
  BY RequestTypes DEF Insert, EInv, SInv, STypeOK
<1>1. /\ CanInsert(table, id[a])
      /\ table' = Append(table, NewRowOf(request[a], id[a]))
      /\ pc' = [pc EXCEPT ![a] = "publish"]
      /\ UNCHANGED <<request, id>>
  BY InsertCases DEF EInv
<1> DEFINE row == NewRowOf(request[a], id[a])
<1>2. /\ row \in Row
      /\ row.node_id = id[a]
      /\ row.pseudo_unique_id = IF request[a].version = 1 THEN request[a].key ELSE None
  BY <1>0, InsertedRow
<1>3. table' = Append(table, row)
  BY <1>1
<1> HIDE DEF row
<1>4. NodeIdsIn(table') = NodeIdsIn(table) \cup {id[a]}
  BY <1>0, <1>2, <1>3, NodeIdsInAppend
<1>5. \A h \in Exclusive : row.pseudo_unique_id # h =>
         find_by_hash(table', h) = find_by_hash(table, h)
  BY <1>0, <1>2, <1>3, ExclusiveType, FindByHashAppend
<1>6. ~ServesExclusive(a) => \A h \in Exclusive : row.pseudo_unique_id # h
  BY <1>2, ExclusiveType, NoneAssumption DEF ServesExclusive
<1>7. ASSUME ServesExclusive(a)
      PROVE  /\ find_by_hash(table, request[a].key) = None
             /\ find_by_hash(table', request[a].key) = id[a]
             /\ \A h \in Exclusive \ {request[a].key} : row.pseudo_unique_id # h
  <2>1. find_by_hash(table, request[a].key) = None
    BY <1>0, <1>7 DEF EInv, Undisturbed
  <2>2. request[a].key \in Nat /\ row.pseudo_unique_id = request[a].key
    BY <1>2, <1>7, ExclusiveType DEF ServesExclusive
  <2>3. find_by_hash(table', request[a].key) = id[a]
    BY <1>0, <1>2, <1>3, <2>1, <2>2, FindByHashNew
  <2> QED  BY <2>1, <2>2, <2>3
<1> QED  BY <1>0, <1>1, <1>4, <1>5, <1>6, <1>7, SharedAssumption
         DEF SameMapping, CanInsert

\* What keeps the mapping keeps the requests undisturbed that are under way.
LEMMA UndisturbedKept ==
    ASSUME EInv, STypeOK', SameMapping,
           \A a \in Allocators :
              pc'[a] \in {"count", "insert", "publish"} =>
                 /\ request'[a] = request[a]
                 /\ pc[a] = pc'[a] \/ (pc[a] = "count" /\ pc'[a] = "insert")
                 /\ pc[a] = "publish" => id'[a] = id[a]
    PROVE  Undisturbed'
BY DEF EInv, Undisturbed, ServesExclusive, SameMapping

LEMMA ExclusiveStep ==
    ASSUME "find" \notin SqlFaults, EInv, [Next]_vars
    PROVE  EInv'
<1> USE SharedAssumption
<1>0. SInv' /\ STypeOK' /\ STypeOK
  BY StepInv DEF EInv, SInv
<1>1. CASE UNCHANGED vars
  BY <1>0, <1>1 DEF vars, EInv, Undisturbed, ServesExclusive
<1>2. ASSUME NEW a \in Allocators, New(a)
      PROVE  Undisturbed'
  <2>1. SameMapping
    BY <1>2, RecordedMapping DEF New, EInv
  <2> QED  BY <1>0, <1>2, <2>1, UndisturbedKept DEF New, Goto, STypeOK
<1>3. ASSUME NEW a \in Allocators, NEW n \in InUse, OnHeartbeat(a, n)
      PROVE  Undisturbed'
  <2>1. SameMapping
    BY <1>3, InUseType, RecordedMapping DEF OnHeartbeat, EInv
  <2> QED  BY <1>0, <1>3, <2>1, UndisturbedKept DEF OnHeartbeat
<1>4. ASSUME NEW a \in Allocators, NEW n \in querying[a], NEW uid \in UidsAt(n),
             GetInfoResult(a, n, uid)
      PROVE  Undisturbed'
  <2>1. SameMapping
    BY <1>4, UpdateMapping DEF EInv
  <2> QED  BY <1>0, <1>4, <2>1, UndisturbedKept DEF GetInfoResult
<1>5. ASSUME NEW a \in Allocators, NEW r \in Requests[a], Find(a, r)
      PROVE  Undisturbed'
  <2>1. /\ request' = [request EXCEPT ![a] = r]
        /\ UNCHANGED table
        /\ \/ /\ pc' = [pc EXCEPT ![a] = "publish"]
              /\ id' = [id EXCEPT ![a] = Existing(r)]
           \/ /\ pc' = [pc EXCEPT ![a] = "count"]
              /\ id' = [id EXCEPT ![a] = 1]
              /\ Existing(r) = None
    BY <1>5 DEF Find, Goto
  <2> SUFFICES ASSUME NEW b \in Allocators, ServesExclusive(b)'
               PROVE  /\ pc'[b] \in {"count", "insert"} =>
                            find_by_hash(table', request'[b].key) = None
                      /\ pc'[b] = "publish" =>
                            find_by_hash(table', request'[b].key) = id'[b]
    BY DEF Undisturbed
  <2>2. CASE b = a
    <3>1. request'[a] = r /\ Existing(r) = find_by_hash(table, r.key)
      BY <2>1, <2>2, <1>0 DEF ServesExclusive, Existing, STypeOK
    <3> QED  BY <1>0, <2>1, <2>2, <3>1 DEF STypeOK
  <2>3. CASE b # a
    BY <1>0, <2>1, <2>3 DEF STypeOK, EInv, Undisturbed, ServesExclusive
  <2> QED  BY <2>2, <2>3
<1>6. ASSUME NEW a \in Allocators, Count(a)
      PROVE  Undisturbed'
  <2>1. SameMapping
    BY <1>6 DEF Count, SameMapping
  <2>2. \/ Return(a, "idle")
        \/ UNCHANGED <<pc, request>> /\ id' = [id EXCEPT ![a] = @ + 1]
        \/ Goto(a, "insert") /\ UNCHANGED <<request, id>>
    BY <1>6 DEF Count
  <2>3. pc[a] = "count"
    BY <1>6 DEF Count
  <2> QED  BY <1>0, <2>1, <2>2, <2>3, UndisturbedKept DEF Return, Goto, STypeOK
<1>7. ASSUME NEW a \in Allocators, Insert(a)
      PROVE  Undisturbed'
  <2>1. CASE table' = table
    <3>1. SameMapping /\ Return(a, "idle")
      <4>1. Append(table, NewRowOf(request[a], id[a])) # table
        <5>1. request[a] \in AllRequests /\ id[a] \in Nat
          BY <1>0, <1>7, RequestTypes DEF Insert, STypeOK
        <5>2. NewRowOf(request[a], id[a]) \in Row
          BY <5>1, InsertedRow
        <5>3. Len(Append(table, NewRowOf(request[a], id[a]))) = Len(table) + 1
              /\ Len(table) \in Nat
          BY <1>0, <5>2, AppendRow, TableShape DEF STypeOK
        <5> QED  BY <5>3
      <4> QED  BY <1>7, <2>1, <4>1, InsertCases DEF EInv, SameMapping
    <3> QED  BY <1>0, <3>1, UndisturbedKept DEF Return, Goto, STypeOK
  <2>2. CASE table' # table
    <3> SUFFICES ASSUME NEW b \in Allocators, ServesExclusive(b)'
                 PROVE  /\ pc'[b] \in {"count", "insert"} =>
                              find_by_hash(table', request'[b].key) = None
                        /\ pc'[b] = "publish" =>
                              find_by_hash(table', request'[b].key) = id'[b]
      BY DEF Undisturbed
    <3>1. /\ pc' = [pc EXCEPT ![a] = "publish"]
          /\ UNCHANGED <<request, id>>
          /\ ~ServesExclusive(a) => SameMapping
          /\ ServesExclusive(a) =>
                /\ find_by_hash(table', request[a].key) = id[a]
                /\ \A h \in Exclusive \ {request[a].key} :
                      find_by_hash(table', h) = find_by_hash(table, h)
      BY <1>7, <2>2, InsertMapping
    <3>2. CASE b = a
      BY <1>0, <3>1, <3>2 DEF ServesExclusive, STypeOK
    <3>3. CASE b # a /\ pc[b] \in {"count", "insert", "publish"}
      <4>1. request[b] \in Requests[b] /\ request[a] \in Requests[a]
        BY <1>0, <1>7, <3>3 DEF STypeOK, Insert
      <4>2. ServesExclusive(b) /\ pc'[b] = pc[b]
        BY <1>0, <3>1, <3>3 DEF ServesExclusive, STypeOK
      <4>3. ServesExclusive(a) => request[b].key # request[a].key
        BY <3>3, <4>1, <4>2, OneListener DEF ServesExclusive
      <4>4. find_by_hash(table', request[b].key) = find_by_hash(table, request[b].key)
        BY <3>1, <4>2, <4>3 DEF ServesExclusive, SameMapping
      <4> QED  BY <3>1, <4>2, <4>4 DEF EInv, Undisturbed
    <3>4. CASE b # a /\ pc[b] \notin {"count", "insert", "publish"}
      BY <1>0, <3>1, <3>4 DEF STypeOK
    <3> QED  BY <3>2, <3>3, <3>4
  <2> QED  BY <2>1, <2>2
<1>8. ASSUME NEW a \in Allocators, Publish(a) \/ Kill(a)
      PROVE  Undisturbed'
  <2>1. SameMapping
    BY <1>8 DEF Publish, Kill, SameMapping
  <2> QED  BY <1>0, <1>8, <2>1, UndisturbedKept DEF Publish, Kill, Return, Goto, STypeOK
<1> QED  BY <1>0, <1>1, <1>2, <1>3, <1>4, <1>5, <1>6, <1>7, <1>8
         DEF Next, Serve, EInv, vars

-----------------------------------------------------------------------------
(* The steps of the abstract assignment. *)

mappedAnswer ==
    IF answer # None /\ answer.request.version = 1
       /\ answer.request.key \in Exclusive
    THEN <<answer.request.key, answer.node_id>> ELSE None

LEMMA ReserveStep ==
    ASSUME SameMapping, mappedAnswer' = None,
           NodeIdsIn(table) \subseteq NodeIdsIn(table')
    PROVE  Shared!Reserve
<1>1. mapped' = mapped
  BY DEF SameMapping, mapped
<1> QED  BY <1>1 DEF Shared!Reserve, mapped, mappedAnswer

LEMMA SharedStep ==
    ASSUME EInv, [Next]_vars
    PROVE  [Shared!Next]_(Shared!vars)
<1> USE SharedAssumption
<1>0. STypeOK
  BY DEF EInv, SInv
<1>1. CASE UNCHANGED vars
  BY <1>1 DEF vars, Shared!vars
<1>2. ASSUME NEW a \in Allocators, New(a)
      PROVE  Shared!Reserve
  BY <1>2, RecordedMapping, ReserveStep DEF New, EInv, mappedAnswer
<1>3. ASSUME NEW a \in Allocators, NEW n \in InUse, OnHeartbeat(a, n)
      PROVE  Shared!Reserve
  BY <1>3, InUseType, RecordedMapping, ReserveStep DEF OnHeartbeat, EInv, mappedAnswer
<1>4. ASSUME NEW a \in Allocators, NEW n \in querying[a], NEW uid \in UidsAt(n),
             GetInfoResult(a, n, uid)
      PROVE  Shared!Reserve
  BY <1>4, UpdateMapping, ReserveStep DEF GetInfoResult, EInv, mappedAnswer
<1>5. ASSUME UNCHANGED table, answer' = None
      PROVE  Shared!Reserve
  BY <1>5, ReserveStep DEF SameMapping, mappedAnswer
<1>6. ASSUME NEW a \in Allocators, Insert(a), table' # table
      PROVE  Shared!Next
  <2>0. mappedAnswer' = None
    BY <1>6 DEF Insert, mappedAnswer
  <2>1. CASE ~ServesExclusive(a)
    BY <1>6, <2>0, <2>1, InsertMapping, ReserveStep DEF Shared!Next
  <2>2. CASE ServesExclusive(a)
    <3> DEFINE h == request[a].key
    <3>1. /\ find_by_hash(table, h) = None
          /\ find_by_hash(table', h) = id[a]
          /\ \A g \in Exclusive \ {h} : find_by_hash(table', g) = find_by_hash(table, g)
          /\ id[a] \notin NodeIdsIn(table)
          /\ NodeIdsIn(table') = NodeIdsIn(table) \cup {id[a]}
          /\ id[a] \in UNION {1..MaxNodeId[b] : b \in Allocators}
      BY <1>6, <2>2, InsertMapping
    <3>2. h \in Exclusive
      BY <2>2 DEF ServesExclusive
    <3> HIDE DEF h
    <3>3. mapped' = [mapped EXCEPT ![h] = id[a]]
      BY <3>1, <3>2 DEF mapped
    <3>4. Shared!Assign(h, id[a])
      BY <2>0, <3>1, <3>2, <3>3 DEF Shared!Assign, mapped, mappedAnswer
    <3> QED  BY <3>1, <3>2, <3>4 DEF Shared!Next
  <2> QED  BY <2>1, <2>2
<1>7. ASSUME NEW a \in Allocators, Publish(a)
      PROVE  Shared!Next
  <2>0. /\ pc[a] = "publish" /\ UNCHANGED table
        /\ answer' = [request |-> request[a], node_id |-> id[a]]
        /\ request[a] \in [version : {1, 2}, key : Nat] /\ id[a] \in Nat
    BY <1>0, <1>7, RequestTypes DEF Publish, Answer, STypeOK
  <2>1. answer' # None /\ answer'.request = request[a] /\ answer'.node_id = id[a]
    BY <2>0, NoAnswerAssumption
  <2>2. CASE ServesExclusive(a)
    <3>1. find_by_hash(table, request[a].key) = id[a]
      BY <2>0, <2>2 DEF EInv, Undisturbed
    <3>2. mappedAnswer' = <<request[a].key, id[a]>> /\ request[a].key \in Exclusive
      BY <2>1, <2>2 DEF ServesExclusive, mappedAnswer
    <3>3. Shared!Repeat(request[a].key)
      BY <2>0, <3>1, <3>2, NoneAssumption DEF Shared!Repeat, mappedAnswer
    <3> QED  BY <3>2, <3>3 DEF Shared!Next
  <2>3. CASE ~ServesExclusive(a)
    <3>1. mappedAnswer' = None
      BY <2>1, <2>3 DEF ServesExclusive, mappedAnswer
    <3> QED  BY <2>0, <3>1, ReserveStep DEF SameMapping, Shared!Next
  <2> QED  BY <2>2, <2>3
<1>8. CASE Next
  <2>1. PICK a \in Allocators :
           \/ New(a) \/ Serve(a) \/ Kill(a)
           \/ \E n \in InUse : OnHeartbeat(a, n)
           \/ \E n \in querying[a] : \E uid \in UidsAt(n) : GetInfoResult(a, n, uid)
           \/ \E r \in Requests[a] : Find(a, r)
    BY <1>8 DEF Next
  <2>2. CASE Count(a) \/ Kill(a) \/ \E r \in Requests[a] : Find(a, r)
    BY <1>5, <2>2 DEF Count, Kill, Find, Shared!Next
  <2>3. CASE Insert(a)
    <3>1. answer' = None
      BY <2>3 DEF Insert
    <3> QED  BY <1>5, <1>6, <2>3, <3>1 DEF Shared!Next
  <2> QED  BY <2>1, <2>2, <2>3, <1>2, <1>3, <1>4, <1>7 DEF Serve, Shared!Next
<1> QED  BY <1>1, <1>8

LEMMA InitExclusive == Init => EInv /\ Shared!Init
<1> SUFFICES ASSUME Init PROVE EInv /\ Shared!Init
  OBVIOUS
<1>1. SInv
  BY InitInv
<1>2. Undisturbed
  BY DEF Init, Undisturbed
<1>3. \A h : find_by_hash(table, h) = None
  BY DEF Init, find_by_hash, FirstNodeId, RowsWithHash
<1>4. Shared!Init
  BY <1>3 DEF Init, Shared!Init
<1> QED  BY <1>1, <1>2, <1>4 DEF EInv

\* While lookups do not fail, the allocators that share a file implement one
\* write-once assignment of IDs to the hashes that only one of them hears.
THEOREM SharingImplementsAssignment ==
    ASSUME "find" \notin SqlFaults
    PROVE  Spec => SharedAssignment
<1>1. EInv /\ [Next]_vars => EInv'
  BY ExclusiveStep
<1> QED  BY <1>1, InitExclusive, SharedStep, PTL DEF Spec, SharedAssignment, Shared!Spec
-----------------------------------------------------------------------------
(***************************************************************************)
(* The rows of a hash and the allocators that are on their way to insert   *)
(* one are together no more than its listeners: an allocator sets out only *)
(* while the hash has no row, and by inserting one it ceases to wait.  The *)
(* rows alone are no inductive bound, as several may have set out.         *)
(***************************************************************************)
Waiting(h) ==
    {a \in Allocators : pc[a] \in {"count", "insert"} /\ request[a] = Request(1, h)}

RowsAndWaiting(h) ==
    Cardinality(RowsWithHash(table, h)) + Cardinality(Waiting(h))
        <= Cardinality(Listeners(h))

CInv == SInv /\ \A h \in Hashes : RowsAndWaiting(h)

LEMMA FiniteRows ==
    ASSUME NEW t \in Seq(Row), NEW h
    PROVE  IsFiniteSet(RowsWithHash(t, h)) /\ Cardinality(RowsWithHash(t, h)) \in Nat
<1>1. IsFiniteSet(1..Len(t))
  BY TableShape, FS_Interval
<1>2. RowsWithHash(t, h) \in SUBSET (1..Len(t))
  BY TableShape DEF RowsWithHash
<1> QED  BY <1>1, <1>2, FS_Subset, FS_CardinalityType

LEMMA FiniteWaiting ==
    ASSUME NEW h
    PROVE  /\ IsFiniteSet(Listeners(h)) /\ Cardinality(Listeners(h)) \in Nat
           /\ IsFiniteSet(Waiting(h)) /\ Cardinality(Waiting(h)) \in Nat
<1>1. Listeners(h) \in SUBSET Allocators /\ Waiting(h) \in SUBSET Allocators
  BY DEF Listeners, Waiting
<1>2. IsFiniteSet(Allocators)
  BY SharedAssumption
<1>3. IsFiniteSet(Listeners(h)) /\ IsFiniteSet(Waiting(h))
  BY <1>1, <1>2, FS_Subset
<1> QED  BY <1>3, FS_CardinalityType

\* The bound holds on while no row is added and nobody else sets out.
LEMMA CountKept ==
    ASSUME SInv, NEW h, RowsAndWaiting(h),
           RowsWithHash(table', h) = RowsWithHash(table, h),
           Waiting(h)' \subseteq Waiting(h)
    PROVE  RowsAndWaiting(h)'
<1>1. Cardinality(RowsWithHash(table, h)) \in Nat
  BY FiniteRows DEF SInv, STypeOK
<1>2. IsFiniteSet(Waiting(h)) /\ Cardinality(Waiting(h)) \in Nat
      /\ Cardinality(Listeners(h)) \in Nat
  BY FiniteWaiting
<1>3. /\ Cardinality(Waiting(h)') <= Cardinality(Waiting(h))
      /\ Cardinality(Waiting(h)') \in Nat
  BY <1>2, FS_Subset, FS_CardinalityType
<1>4. Listeners(h)' = Listeners(h)
  BY DEF Listeners
<1> QED  BY <1>1, <1>2, <1>3, <1>4 DEF RowsAndWaiting

LEMMA RecordedRows ==
    ASSUME SInv, NEW n \in Nat, table' \in Recorded(n), NEW h \in Hashes
    PROVE  RowsWithHash(table', h) = RowsWithHash(table, h)
<1> DEFINE r == NewRow(n, ZeroUid, None)
<1>1. r \in Row /\ r.pseudo_unique_id = None
  BY DEF NewRow, Row, ZeroUid
<1>2. table' = table \/ table' = Append(table, r)
  BY DEF Recorded, record_static_node
<1>3. r.pseudo_unique_id # h
  BY <1>1, RequestTypes, NoneAssumption
<1> HIDE DEF r
<1>4. table \in Seq(Row)
  BY DEF SInv, STypeOK
<1>5. CASE table' = Append(table, r)
  BY <1>1, <1>3, <1>4, <1>5, AppendRow DEF RowsWithHash
<1> QED  BY <1>2, <1>5

\* A search begins only while the hash has no row.
LEMMA FindCount ==
    ASSUME "find" \notin SqlFaults, CInv, STypeOK', NEW a \in Allocators,
           NEW r \in Requests[a], Find(a, r), NEW h \in Hashes
    PROVE  RowsAndWaiting(h)'
<1>0. SInv /\ STypeOK /\ RowsAndWaiting(h) /\ table \in Seq(Row)
  BY DEF CInv, SInv, STypeOK
<1>1. /\ table' = table
      /\ pc[a] = "idle"
      /\ request' = [request EXCEPT ![a] = r]
      /\ \/ pc' = [pc EXCEPT ![a] = "publish"]
         \/ pc' = [pc EXCEPT ![a] = "count"] /\ Existing(r) = None
  BY DEF Find, Goto
<1>2. CASE Waiting(h)' \subseteq Waiting(h)
  BY <1>0, <1>1, <1>2, CountKept
<1>3. CASE ~(Waiting(h)' \subseteq Waiting(h))
  <2>1. r = Request(1, h) /\ Existing(r) = None
    BY <1>0, <1>1, <1>3 DEF Waiting, STypeOK
  <2>2. find_by_hash(table, h) = None
    BY <2>1 DEF Request, Existing
  <2>3. RowsWithHash(table, h) = {}
    <3>1. RowsWithHash(table, h) \in SUBSET DOMAIN table
      BY DEF RowsWithHash
    <3> QED  BY <1>0, <2>2, <3>1, FirstNodeIdProperties DEF find_by_hash
  <2>4. Waiting(h)' \in SUBSET Listeners(h)
    <3>1. \A b \in Allocators :
             pc'[b] \in {"count", "insert"} => request'[b] \in Requests[b]
      BY DEF STypeOK
    <3> QED  BY <3>1 DEF Waiting, Listeners
  <2>5. IsFiniteSet(Listeners(h)) /\ Cardinality(Listeners(h)) \in Nat
    BY FiniteWaiting
  <2>6. /\ Cardinality(Waiting(h)') <= Cardinality(Listeners(h))
        /\ Cardinality(Waiting(h)') \in Nat
    BY <2>4, <2>5, FS_Subset, FS_CardinalityType
  <2>7. Cardinality(RowsWithHash(table', h)) = 0
    BY <1>1, <2>3, FS_EmptySet
  <2>8. Listeners(h)' = Listeners(h)
    BY DEF Listeners
  <2> QED  BY <2>5, <2>6, <2>7, <2>8 DEF RowsAndWaiting
<1> QED  BY <1>2, <1>3

\* An INSERT for the hash makes one row of one wait.
LEMMA InsertCount ==
    ASSUME CInv, NEW a \in Allocators, Insert(a), NEW h \in Hashes
    PROVE  RowsAndWaiting(h)'
<1>0. /\ SInv /\ STypeOK /\ RowsAndWaiting(h) /\ table \in Seq(Row)
      /\ pc[a] = "insert" /\ request[a] \in AllRequests /\ id[a] \in Nat
      /\ request[a] \in Requests[a]
  BY RequestTypes DEF CInv, SInv, STypeOK, Insert
<1>1. CASE UNCHANGED table /\ Return(a, "idle")
  <2>1. Waiting(h)' \subseteq Waiting(h)
    BY <1>0, <1>1 DEF Return, Goto, Waiting, STypeOK
  <2> QED  BY <1>0, <1>1, <2>1, CountKept
<1>2. CASE /\ table' = Append(table, NewRowOf(request[a], id[a]))
           /\ pc' = [pc EXCEPT ![a] = "publish"]
           /\ UNCHANGED <<request, id>>
  <2> DEFINE row == NewRowOf(request[a], id[a])
  <2>1. /\ row \in Row
        /\ row.pseudo_unique_id = IF request[a].version = 1 THEN request[a].key ELSE None
    BY <1>0, InsertedRow
  <2>2. table' = Append(table, row)
    BY <1>2
  <2> HIDE DEF row
  <2>3. Waiting(h)' = Waiting(h) \ {a}
    BY <1>0, <1>2 DEF Waiting, STypeOK
  <2>4. CASE row.pseudo_unique_id # h
    <3>1. RowsWithHash(table', h) = RowsWithHash(table, h)
      BY <1>0, <2>1, <2>2, <2>4, AppendRow DEF RowsWithHash
    <3> QED  BY <1>0, <2>3, <3>1, CountKept
  <2>5. CASE row.pseudo_unique_id = h
    <3>1. request[a] = Request(1, h)
      <4>1. request[a].version = 1 /\ request[a].key = h
        BY <1>0, <2>1, <2>5, RequestTypes, NoneAssumption
      <4>2. request[a] \in [version : {1, 2}, key : Nat]
        BY <1>0, SharedAssumption
      <4> QED  BY <4>1, <4>2 DEF Request
    <3>2. a \in Waiting(h)
      BY <1>0, <3>1 DEF Waiting
    <3>3. /\ IsFiniteSet(Waiting(h)) /\ Cardinality(Waiting(h)) \in Nat
          /\ Cardinality(Listeners(h)) \in Nat
      BY FiniteWaiting
    <3>4. Cardinality(Waiting(h)') = Cardinality(Waiting(h)) - 1
      BY <2>3, <3>2, <3>3, FS_RemoveElement
    <3>5. /\ RowsWithHash(table', h) = RowsWithHash(table, h) \cup {Len(table) + 1}
          /\ Len(table) + 1 \notin RowsWithHash(table, h)
      BY <1>0, <2>1, <2>2, <2>5, AppendRow DEF RowsWithHash
    <3>6. IsFiniteSet(RowsWithHash(table, h)) /\ Cardinality(RowsWithHash(table, h)) \in Nat
      BY <1>0, FiniteRows
    <3>7. Cardinality(RowsWithHash(table', h)) = Cardinality(RowsWithHash(table, h)) + 1
      BY <3>5, <3>6, FS_AddElement
    <3>8. Listeners(h)' = Listeners(h)
      BY DEF Listeners
    <3> QED  BY <1>0, <3>3, <3>4, <3>6, <3>7, <3>8 DEF RowsAndWaiting
  <2> QED  BY <2>4, <2>5
<1> QED  BY <1>0, <1>1, <1>2, InsertCases

LEMMA CountStepInv ==
    ASSUME "find" \notin SqlFaults, CInv, [Next]_vars
    PROVE  CInv'
<1> USE SharedAssumption
<1>0. SInv /\ STypeOK /\ SInv' /\ STypeOK' /\ \A h \in Hashes : RowsAndWaiting(h)
  BY StepInv DEF CInv, SInv
<1> SUFFICES ASSUME NEW h \in Hashes
             PROVE  RowsAndWaiting(h)'
  BY <1>0 DEF CInv, Hashes, AllRequests
<1>1. CASE UNCHANGED vars
  BY <1>0, <1>1, CountKept DEF vars, Waiting
<1>2. ASSUME NEW a \in Allocators, New(a)
      PROVE  RowsAndWaiting(h)'
  <2>1. RowsWithHash(table', h) = RowsWithHash(table, h)
    BY <1>0, <1>2, RecordedRows DEF New
  <2>2. Waiting(h)' \subseteq Waiting(h)
    BY <1>0, <1>2 DEF New, Goto, Waiting, STypeOK
  <2> QED  BY <1>0, <2>1, <2>2, CountKept
<1>3. ASSUME NEW a \in Allocators, NEW n \in InUse, OnHeartbeat(a, n)
      PROVE  RowsAndWaiting(h)'
  <2>1. RowsWithHash(table', h) = RowsWithHash(table, h)
    BY <1>0, <1>3, InUseType, RecordedRows DEF OnHeartbeat
  <2>2. Waiting(h)' \subseteq Waiting(h)
    BY <1>3 DEF OnHeartbeat, Waiting
  <2> QED  BY <1>0, <2>1, <2>2, CountKept
<1>4. ASSUME NEW a \in Allocators, NEW n \in querying[a], NEW uid \in UidsAt(n),
             GetInfoResult(a, n, uid)
      PROVE  RowsAndWaiting(h)'
  <2>1. n \in Nat /\ LearnableId(table, n) /\ table \in Seq(Row)
    BY <1>0 DEF SInv, STypeOK, QueriesLearnable
  <2>2. uid \in Nat
    BY <1>0, <2>1, ReportedUids
  <2>3. table' = table \/ table' = update_unique_id(table, n, uid)
    BY <1>4 DEF GetInfoResult
  <2>4. RowsWithHash(table', h) = RowsWithHash(table, h)
    BY <2>1, <2>2, <2>3, UpdateKeeps DEF RowsWithHash
  <2>5. Waiting(h)' \subseteq Waiting(h)
    BY <1>4 DEF GetInfoResult, Waiting
  <2> QED  BY <1>0, <2>4, <2>5, CountKept
<1>5. ASSUME NEW a \in Allocators, Count(a) \/ Publish(a) \/ Kill(a)
      PROVE  RowsAndWaiting(h)'
  <2>1. table' = table
    BY <1>5 DEF Count, Publish, Kill
  <2>2. Waiting(h)' \subseteq Waiting(h)
    <3>1. \/ UNCHANGED <<pc, request>>
          \/ pc[a] = "count" /\ pc' = [pc EXCEPT ![a] = "insert"] /\ UNCHANGED request
          \/ \E to \in {"idle", "down"} :
                /\ pc' = [pc EXCEPT ![a] = to]
                /\ request' = [request EXCEPT ![a] = None]
      BY <1>5 DEF Count, Publish, Kill, Return, Goto
    <3> QED  BY <1>0, <3>1 DEF Waiting, STypeOK
  <2> QED  BY <1>0, <2>1, <2>2, CountKept
<1> QED  BY <1>0, <1>1, <1>2, <1>3, <1>4, <1>5, FindCount, InsertCount
         DEF CInv, Next, Serve

\* However many allocators hear one v1 request, they leave it at most one row
\* each, through every interleaving, failed statement and restart; only a failed
\* lookup, which reads as "never seen", can make more.
THEOREM RowsAreBounded ==
    ASSUME "find" \notin SqlFaults
    PROVE  Spec => []RowsPerListener
<1>1. Init => CInv
  <2> SUFFICES ASSUME Init, NEW h \in Hashes
               PROVE  SInv /\ RowsAndWaiting(h)
    BY InitInv DEF CInv, Hashes, AllRequests
  <2>1. RowsWithHash(table, h) = {} /\ Waiting(h) = {}
    BY DEF Init, RowsWithHash, Waiting
  <2>2. Cardinality(Listeners(h)) \in Nat
    BY FiniteWaiting
  <2> QED  BY <2>1, <2>2, InitInv, FS_EmptySet DEF RowsAndWaiting
<1>2. CInv /\ [Next]_vars => CInv'
  BY CountStepInv
<1>3. CInv => RowsPerListener
  <2> SUFFICES ASSUME CInv, NEW h \in Hashes
               PROVE  Cardinality(RowsWithHash(table, h)) <= Cardinality(Listeners(h))
    BY DEF RowsPerListener
  <2>1. Cardinality(RowsWithHash(table, h)) \in Nat
    BY FiniteRows DEF CInv, SInv, STypeOK
  <2>2. Cardinality(Waiting(h)) \in Nat /\ Cardinality(Listeners(h)) \in Nat
    BY FiniteWaiting
  <2> QED  BY <2>1, <2>2 DEF CInv, RowsAndWaiting
<1> QED  BY <1>1, <1>2, <1>3, PTL DEF Spec
=============================================================================
