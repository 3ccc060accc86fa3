------------------------- MODULE PnpAllocator_proof -------------------------
(***************************************************************************)
(* Proofs about PnpAllocator: type correctness, the safety invariants, the *)
(* stability of the v1 mapping, and the refinement of NodeIdAssignment.    *)
(*                                                                         *)
(* The argument goes through what a call does to the table and the reply.  *)
(* Whatever the call, that is one of a few effects (Effect): a reply from  *)
(* an existing row, a new v1 or v2 row and its reply, a static row, an     *)
(* update of unique IDs, or nothing.  The theorems are proved of these.    *)
(***************************************************************************)
EXTENDS PnpAllocator, AllocationDb_proof

StaticRow(id) == NewRow(id, ZeroUid, None)

Assignable == (1..MaxNodeId) \ {local_node_id}

V1Insert(id, hash) ==
    /\ CanInsert(table, id)
    /\ "find" \in SqlFaults \/ find_by_hash(table, hash) = None
    /\ table' = Append(table, NewRow(id, hash, hash))
    /\ response' = Response(1, hash, id)
    /\ local_node_id' = local_node_id

V1ReUse(hash) ==
    /\ find_by_hash(table, hash) # None
    /\ table' = table
    /\ response' = Response(1, hash, find_by_hash(table, hash))
    /\ local_node_id' = local_node_id

V2Insert(id, uid) ==
    /\ CanInsert(table, id)
    /\ "find" \in SqlFaults \/ find_by_unique_id(table, uid) = None
    /\ table' = Append(table, NewRow(id, uid, None))
    /\ response' = Response(2, uid, id)
    /\ local_node_id' = local_node_id

V2ReUse(uid) ==
    /\ find_by_unique_id(table, uid) # None
    /\ table' = table
    /\ response' = Response(2, uid, find_by_unique_id(table, uid))
    /\ local_node_id' = local_node_id

StaticInsert(id) ==
    /\ CanInsert(table, id)
    /\ table' = Append(table, StaticRow(id))
    /\ response' = None

UidUpdate(id, uid) ==
    /\ id = in_flight
    /\ table' = update_unique_id(table, id, uid)
    /\ response' = None

Effect ==
    \/ UNCHANGED <<table, response, local_node_id>>
    \/ table' = table /\ response' = None
    \/ \E id \in Nat : StaticInsert(id)
    \/ \E id \in Nat, uid \in AnswerUids : UidUpdate(id, uid)
    \/ \E uid \in RequestUids : V2ReUse(uid)
    \/ \E id \in Assignable, uid \in RequestUids : V2Insert(id, uid)
    \/ \E hash \in Hashes : V1ReUse(hash)
    \/ \E id \in Assignable, hash \in Hashes : V1Insert(id, hash)

-----------------------------------------------------------------------------
\* The three kinds of row that are inserted.
LEMMA StaticRowType ==
    ASSUME NEW id \in Nat
    PROVE  /\ StaticRow(id) \in Row
           /\ StaticRow(id).node_id = id
           /\ StaticRow(id).unique_id = ZeroUid
           /\ StaticRow(id).pseudo_unique_id = None
BY DEF StaticRow, NewRow, Row, ZeroUid

LEMMA V2RowType ==
    ASSUME NEW id \in Nat, NEW uid \in Nat
    PROVE  /\ NewRow(id, uid, None) \in Row
           /\ NewRow(id, uid, None).node_id = id
           /\ NewRow(id, uid, None).unique_id = uid
           /\ NewRow(id, uid, None).pseudo_unique_id = None
BY DEF NewRow, Row

LEMMA V1RowType ==
    ASSUME NEW id \in Nat, NEW hash \in Nat
    PROVE  /\ NewRow(id, hash, hash) \in Row
           /\ NewRow(id, hash, hash).node_id = id
           /\ NewRow(id, hash, hash).unique_id = hash
           /\ NewRow(id, hash, hash).pseudo_unique_id = hash
BY DEF NewRow, Row

\* A reserved local ID or an observed one leaves the table or adds its row.
LEMMA RecordedCases ==
    ASSUME NEW t \in Seq(Row), NEW id \in Nat, NEW failing
    PROVE  \/ Recorded(t, id, failing) = t
           \/ /\ CanInsert(t, id)
              /\ Recorded(t, id, failing) = Append(t, StaticRow(id))
BY DEF Recorded, record_static_node, StaticRow

\* A table with one more PNP, static or updated row is still a table.
LEMMA EffectType ==
    ASSUME table \in Seq(Row), Effect
    PROVE  table' \in Seq(Row)
<1> USE AllocatorAssumption
<1>1. CASE table' = table
  BY <1>1
<1>2. ASSUME NEW id \in Nat, StaticInsert(id)
      PROVE  table' \in Seq(Row)
  <2>1. StaticRow(id) \in Row
    BY StaticRowType
  <2> QED  BY <1>2, <2>1, AppendRow DEF StaticInsert
<1>3. ASSUME NEW id \in Assignable, NEW uid \in RequestUids, V2Insert(id, uid)
      PROVE  table' \in Seq(Row)
  <2>0. id \in Nat /\ uid \in Nat
    BY DEF Assignable
  <2>1. NewRow(id, uid, None) \in Row
    BY <2>0, V2RowType
  <2> QED  BY <1>3, <2>1, AppendRow DEF V2Insert
<1>4. ASSUME NEW id \in Assignable, NEW hash \in Hashes, V1Insert(id, hash)
      PROVE  table' \in Seq(Row)
  <2>1. NewRow(id, hash, hash) \in Row
    BY V1RowType DEF Assignable
  <2> QED  BY <1>4, <2>1, AppendRow DEF V1Insert
<1>5. ASSUME NEW id \in Nat, NEW uid \in AnswerUids, UidUpdate(id, uid)
      PROVE  table' \in Seq(Row)
  <2>1. uid \in Nat
    OBVIOUS
  <2> QED  BY <1>5, <2>1, UpdateKeeps DEF UidUpdate
<1> QED  BY <1>1, <1>2, <1>3, <1>4, <1>5 DEF Effect, V1ReUse, V2ReUse

\* What Allocate, the second half of both on_allocation_* handlers, does.
LEMMA AllocateCases ==
    ASSUME TypeOK, NEW t, NEW version, NEW key, NEW unreadable, NEW failing,
           Allocate(t, version, key, unreadable, failing)
    PROVE  \/ /\ Fresh(unreadable) \in Assignable
              /\ CanInsert(table, Fresh(unreadable))
              /\ table' = t
              /\ response' = Response(version, key, Fresh(unreadable))
           \/ table' = table /\ response' = None
<1>1. CASE Fresh(unreadable) # None
  <2>1. /\ Fresh(unreadable) \in 1..MaxNodeId
        /\ Fresh(unreadable) \notin {local_node_id}
    BY <1>1, NextFreeId, AllocatorAssumption DEF Fresh, TypeOK
  <2> QED  BY <2>1 DEF Allocate, Assignable
<1>2. CASE Fresh(unreadable) = None
  BY <1>2 DEF Allocate
<1> QED  BY <1>1, <1>2

\* An on_allocation_v1 call re-uses the ID of the hash, inserts, or declines.
LEMMA V1Cases ==
    ASSUME TypeOK, NEW hash \in Hashes, NEW unreadable,
           NEW failing \in SUBSET SqlFaults,
           OnAllocationV1(hash, unreadable, failing)
    PROVE  \/ V1ReUse(hash)
           \/ table' = table /\ response' = None
           \/ \E id \in Assignable : V1Insert(id, hash)
<1> DEFINE existing == IF "find" \in failing THEN None
                       ELSE find_by_hash(table, hash)
<1>1. CASE existing # None
  BY <1>1 DEF OnAllocationV1, ReUse, V1ReUse
<1>2. CASE existing = None
  <2>1. "find" \in SqlFaults \/ find_by_hash(table, hash) = None
    BY <1>2
  <2>2. Allocate(insert_v1(table, Fresh(unreadable), hash),
                 1, hash, unreadable, failing)
    BY <1>2 DEF OnAllocationV1
  <2>3. local_node_id' = local_node_id
    BY DEF OnAllocationV1
  <2> QED  BY <2>1, <2>2, <2>3, AllocateCases DEF V1Insert, insert_v1, Padded
<1> QED  BY <1>1, <1>2

\* An on_allocation_v2 call re-uses the ID of the unique ID, inserts, or
\* declines.
LEMMA V2Cases ==
    ASSUME TypeOK, NEW uid \in RequestUids, NEW unreadable,
           NEW failing \in SUBSET SqlFaults,
           OnAllocationV2(uid, unreadable, failing)
    PROVE  \/ V2ReUse(uid)
           \/ table' = table /\ response' = None
           \/ \E id \in Assignable : V2Insert(id, uid)
<1> DEFINE existing == IF "find" \in failing THEN None
                       ELSE find_by_unique_id(table, uid)
<1>1. CASE existing # None
  BY <1>1 DEF OnAllocationV2, ReUse, V2ReUse
<1>2. CASE existing = None
  <2>1. "find" \in SqlFaults \/ find_by_unique_id(table, uid) = None
    BY <1>2
  <2>2. Allocate(insert_v2(table, Fresh(unreadable), uid),
                 2, uid, unreadable, failing)
    BY <1>2 DEF OnAllocationV2
  <2>3. local_node_id' = local_node_id
    BY DEF OnAllocationV2
  <2> QED  BY <2>1, <2>2, <2>3, AllocateCases DEF V2Insert, insert_v2
<1> QED  BY <1>1, <1>2

\* Every step of the allocator affects the table in one of the ways of Effect.
LEMMA Effects ==
    ASSUME TypeOK, [Next]_vars
    PROVE  Effect
<1> USE AllocatorAssumption
<1>1. CASE IgnoreAllocation
  BY <1>1 DEF IgnoreAllocation, Effect
<1>2. ASSUME NEW failing \in SUBSET SqlFaults, NEW unreadable \in Unreadable,
             NEW uid \in RequestUids, OnAllocationV2(uid, unreadable, failing)
      PROVE  Effect
  BY <1>2, V2Cases DEF Effect
<1>3. ASSUME NEW failing \in SUBSET SqlFaults, NEW unreadable \in Unreadable,
             NEW hash \in Hashes, OnAllocationV1(hash, unreadable, failing)
      PROVE  Effect
  BY <1>3, V1Cases DEF Effect
<1>4. ASSUME NEW failing \in SUBSET SqlFaults, NEW id \in ObservedIds,
             OnHeartbeat(id, failing)
      PROVE  Effect
  <2>1. id \in Nat /\ table' = Recorded(table, id, failing) /\ response' = None
    BY <1>4 DEF OnHeartbeat
  <2> QED  BY <2>1, RecordedCases DEF Effect, StaticInsert, TypeOK
<1>5. ASSUME NEW failing \in SUBSET SqlFaults, NEW uid \in AnswerUids,
             GetInfoAnswered(uid, failing)
      PROVE  Effect
  BY <1>5 DEF GetInfoAnswered, Effect, UidUpdate, TypeOK
<1>6. ASSUME NEW failing \in SUBSET SqlFaults, NEW id \in LocalIds,
             Restart(id, failing)
      PROVE  Effect
  <2>1. id \in Nat /\ table' = Recorded(table, id, failing) /\ response' = None
    BY <1>6 DEF Restart, new
  <2> QED  BY <2>1, RecordedCases DEF Effect, StaticInsert, TypeOK
<1>7. CASE PopGetInfoRequest
  BY <1>7 DEF PopGetInfoRequest, Effect
<1>8. CASE GetInfoNotSent
  BY <1>8 DEF GetInfoNotSent, Effect
<1>9. CASE GetInfoFailed
  BY <1>9 DEF GetInfoFailed, Effect
<1>10. ASSUME NEW id \in ObservedIds, CooldownElapses(id)
       PROVE  Effect
  BY <1>10 DEF CooldownElapses, Effect
<1>11. CASE UNCHANGED vars
  BY <1>11 DEF vars, Effect
<1> QED  BY <1>1, <1>2, <1>3, <1>4, <1>5, <1>6, <1>7, <1>8, <1>9, <1>10,
            <1>11 DEF Next

-----------------------------------------------------------------------------
\* Type correctness, in the two halves that the theorems with history need too.
LEMMA InitTypeOK == Init => TypeOK
<1> USE AllocatorAssumption, NoneAssumption
<1> SUFFICES ASSUME NEW id \in LocalIds, NEW failing \in SUBSET SqlFaults,
                    table = Recorded(<<>>, id, failing),
                    local_node_id = id,
                    get_info_queue = <<>>,
                    recently_queried = {},
                    in_flight = None,
                    response = None
             PROVE  TypeOK
  BY DEF Init
<1>1. id \in Nat /\ <<>> \in Seq(Row)
  OBVIOUS
<1>2. StaticRow(id) \in Row
  BY <1>1, StaticRowType
<1>3. table = <<>> \/ table = Append(<<>>, StaticRow(id))
  BY <1>1, RecordedCases
<1>4. Append(<<>>, StaticRow(id)) \in Seq(Row)
  BY <1>1, <1>2, AppendRow
<1>5. table \in Seq(Row)
  BY <1>1, <1>3, <1>4
<1> QED  BY <1>5 DEF TypeOK

LEMMA NextTypeOK == TypeOK /\ [Next]_vars => TypeOK'
<1> USE AllocatorAssumption, NoneAssumption
<1> SUFFICES ASSUME TypeOK, [Next]_vars
             PROVE  TypeOK'
  OBVIOUS
<1> USE DEF TypeOK
<1>0. table' \in Seq(Row)
  BY Effects, EffectType
<1>1. CASE IgnoreAllocation
  BY <1>0, <1>1 DEF IgnoreAllocation
<1>2. ASSUME NEW failing \in SUBSET SqlFaults, NEW unreadable \in Unreadable,
             NEW uid \in RequestUids, OnAllocationV2(uid, unreadable, failing)
      PROVE  TypeOK'
  <2>1. response' \in Responses \cup {None}
    <3>1. find_by_unique_id(table, uid) # None
            => find_by_unique_id(table, uid) \in Nat
      BY FirstNodeIdProperties DEF find_by_unique_id, RowsWithUid
    <3>2. CASE V2ReUse(uid)
      BY <3>1, <3>2 DEF V2ReUse, Response, Responses
    <3>3. CASE response' = None
      BY <3>3
    <3>4. ASSUME NEW id \in Assignable, V2Insert(id, uid)
          PROVE  response' \in Responses
      BY <3>4 DEF V2Insert, Response, Responses, Assignable
    <3> QED  BY <1>2, <3>2, <3>3, <3>4, V2Cases
  <2> QED  BY <1>0, <1>2, <2>1 DEF OnAllocationV2
<1>3. ASSUME NEW failing \in SUBSET SqlFaults, NEW unreadable \in Unreadable,
             NEW hash \in Hashes, OnAllocationV1(hash, unreadable, failing)
      PROVE  TypeOK'
  <2>1. response' \in Responses \cup {None}
    <3>1. find_by_hash(table, hash) # None => find_by_hash(table, hash) \in Nat
      BY FirstNodeIdProperties DEF find_by_hash, RowsWithHash
    <3>2. CASE V1ReUse(hash)
      BY <3>1, <3>2 DEF V1ReUse, Response, Responses
    <3>3. CASE response' = None
      BY <3>3
    <3>4. ASSUME NEW id \in Assignable, V1Insert(id, hash)
          PROVE  response' \in Responses
      BY <3>4 DEF V1Insert, Response, Responses, Assignable
    <3> QED  BY <1>3, <3>2, <3>3, <3>4, V1Cases
  <2> QED  BY <1>0, <1>3, <2>1 DEF OnAllocationV1
<1>4. ASSUME NEW failing \in SUBSET SqlFaults, NEW id \in ObservedIds,
             OnHeartbeat(id, failing)
      PROVE  TypeOK'
  <2>1. id \in Nat /\ response' = None
        /\ UNCHANGED <<local_node_id, in_flight>>
    BY <1>4 DEF OnHeartbeat
  <2>2. \/ UNCHANGED <<get_info_queue, recently_queried>>
        \/ /\ get_info_queue' = Append(get_info_queue, id)
           /\ recently_queried' = recently_queried \cup {id}
    BY <1>4 DEF OnHeartbeat
  <2>3. get_info_queue' \in Seq(Nat)
    <3>1. Append(get_info_queue, id) \in Seq(Nat)
      BY <2>1
    <3> QED  BY <2>2, <3>1
  <2>4. recently_queried' \subseteq Nat
    BY <2>1, <2>2
  <2> QED  BY <1>0, <2>1, <2>3, <2>4
<1>5. ASSUME NEW failing \in SUBSET SqlFaults, NEW uid \in AnswerUids,
             GetInfoAnswered(uid, failing)
      PROVE  TypeOK'
  BY <1>0, <1>5 DEF GetInfoAnswered
<1>6. ASSUME NEW failing \in SUBSET SqlFaults, NEW id \in LocalIds,
             Restart(id, failing)
      PROVE  TypeOK'
  BY <1>0, <1>6 DEF Restart, new
<1>7. CASE PopGetInfoRequest
  BY <1>0, <1>7, HeadTailProperties DEF PopGetInfoRequest
<1>8. CASE GetInfoNotSent
  BY <1>0, <1>8, HeadTailProperties DEF GetInfoNotSent
<1>9. CASE GetInfoFailed
  BY <1>0, <1>9 DEF GetInfoFailed
<1>10. ASSUME NEW id \in ObservedIds, CooldownElapses(id)
       PROVE  TypeOK'
  BY <1>0, <1>10 DEF CooldownElapses
<1>11. CASE UNCHANGED vars
  BY <1>11 DEF vars
<1> QED  BY <1>1, <1>2, <1>3, <1>4, <1>5, <1>6, <1>7, <1>8, <1>9, <1>10,
            <1>11 DEF Next

\* TypeOK is invariant: whatever is called and whatever fails, the table is a
\* table and the queue, the cooldown map and the GetInfo in flight hold IDs.
THEOREM TypeCorrect == Spec => []TypeOK
<1> QED  BY InitTypeOK, NextTypeOK, PTL DEF Spec

-----------------------------------------------------------------------------
\* What a hash is mapped to survives every effect.
LEMMA MappingSurvives ==
    ASSUME table \in Seq(Row), Effect,
           NEW hash \in Hashes, find_by_hash(table, hash) # None
    PROVE  find_by_hash(table', hash) = find_by_hash(table, hash)
<1> USE AllocatorAssumption
<1>0. hash \in Nat
  OBVIOUS
<1>1. CASE table' = table
  BY <1>1
<1>2. ASSUME NEW id \in Nat, StaticInsert(id)
      PROVE  find_by_hash(table', hash) = find_by_hash(table, hash)
  <2>1. StaticRow(id) \in Row
    BY StaticRowType
  <2> QED  BY <1>0, <1>2, <2>1, FindByHashAppend DEF StaticInsert
<1>3. ASSUME NEW id \in Assignable, NEW uid \in RequestUids, V2Insert(id, uid)
      PROVE  find_by_hash(table', hash) = find_by_hash(table, hash)
  <2>0. id \in Nat /\ uid \in Nat
    BY DEF Assignable
  <2>1. NewRow(id, uid, None) \in Row
    BY <2>0, V2RowType
  <2> QED  BY <1>0, <1>3, <2>1, FindByHashAppend DEF V2Insert
<1>4. ASSUME NEW id \in Assignable, NEW h \in Hashes, V1Insert(id, h)
      PROVE  find_by_hash(table', hash) = find_by_hash(table, hash)
  <2>1. NewRow(id, h, h) \in Row
    BY V1RowType DEF Assignable
  <2> QED  BY <1>0, <1>4, <2>1, FindByHashAppend DEF V1Insert
<1>5. ASSUME NEW id \in Nat, NEW uid \in AnswerUids, UidUpdate(id, uid)
      PROVE  find_by_hash(table', hash) = find_by_hash(table, hash)
  <2>1. uid \in Nat
    OBVIOUS
  <2> QED  BY <1>0, <1>5, <2>1, FindByHashUpdate DEF UidUpdate
<1> QED  BY <1>1, <1>2, <1>3, <1>4, <1>5 DEF Effect, V1ReUse, V2ReUse

\* The ID a v1 node is answered with once it has a row never changes, through
\* GetInfo answers, other allocations, restarts and failing statements.
THEOREM V1MappingIsStable == Spec => V1MappingStable
<1>1. TypeOK /\ [Next]_vars =>
        [\A hash \in Hashes :
            find_by_hash(table, hash) # None =>
                find_by_hash(table', hash) = find_by_hash(table, hash)]_vars
  BY Effects, MappingSurvives DEF TypeOK
<1> QED  BY <1>1, TypeCorrect, PTL DEF Spec, V1MappingStable

-----------------------------------------------------------------------------
\* The rows one can look up by a hash and by a unique ID.
LEMMA FoundByHash ==
    ASSUME table \in Seq(Row), NEW hash \in Nat, find_by_hash(table, hash) # None
    PROVE  \E i \in DOMAIN table :
              /\ table[i].pseudo_unique_id = hash
              /\ table[i].node_id = find_by_hash(table, hash)
<1> DEFINE rows == RowsWithHash(table, hash)
<1>1. rows # {} /\ Least(rows) \in rows
      /\ find_by_hash(table, hash) = table[Least(rows)].node_id
  BY FirstNodeIdProperties DEF find_by_hash, RowsWithHash
<1> QED  BY <1>1 DEF RowsWithHash

LEMMA FoundByUniqueId ==
    ASSUME table \in Seq(Row), NEW uid \in Nat,
           find_by_unique_id(table, uid) # None
    PROVE  \E i \in DOMAIN table :
              /\ table[i].unique_id = uid
              /\ table[i].node_id = find_by_unique_id(table, uid)
<1> DEFINE rows == RowsWithUid(table, uid)
<1>1. rows # {} /\ Least(rows) \in rows
      /\ find_by_unique_id(table, uid) = table[Least(rows)].node_id
  BY FirstNodeIdProperties DEF find_by_unique_id, RowsWithUid
<1> QED  BY <1>1 DEF RowsWithUid

\* A reply is on disk under its key before it is sent, whichever statements
\* failed during the call.
THEOREM RepliesAreRecorded == Spec => []ReplyIsRecorded
<1> USE AllocatorAssumption, NoneAssumption
<1>1. Init => ReplyIsRecorded
  BY DEF Init, ReplyIsRecorded
<1>2. TypeOK /\ ReplyIsRecorded /\ [Next]_vars => ReplyIsRecorded'
  <2> SUFFICES ASSUME TypeOK, ReplyIsRecorded, [Next]_vars
               PROVE  ReplyIsRecorded'
    OBVIOUS
  <2>0. Effect /\ table \in Seq(Row)
    BY Effects DEF TypeOK
  <2>1. CASE UNCHANGED <<table, response, local_node_id>>
    BY <2>1 DEF ReplyIsRecorded
  <2>2. CASE response' = None
    BY <2>2 DEF ReplyIsRecorded
  <2>3. ASSUME NEW uid \in RequestUids, V2ReUse(uid)
        PROVE  ReplyIsRecorded'
    <3>1. PICK i \in DOMAIN table :
             /\ table[i].unique_id = uid
             /\ table[i].node_id = find_by_unique_id(table, uid)
      BY <2>0, <2>3, FoundByUniqueId DEF V2ReUse
    <3> QED  BY <2>3, <3>1 DEF V2ReUse, ReplyIsRecorded, RowsWithId, Response
  <2>4. ASSUME NEW id \in Assignable, NEW uid \in RequestUids, V2Insert(id, uid)
        PROVE  ReplyIsRecorded'
    <3>0. id \in Nat /\ uid \in Nat
      BY DEF Assignable
    <3> DEFINE r == NewRow(id, uid, None)
    <3>1. r \in Row /\ r.node_id = id /\ r.unique_id = uid
      BY <3>0, V2RowType
    <3>2. /\ Len(table) + 1 \in DOMAIN table'
          /\ table'[Len(table) + 1] = r
      BY <2>0, <2>4, <3>1, AppendRow DEF V2Insert
    <3> HIDE DEF r
    <3> QED  BY <2>4, <3>1, <3>2 DEF V2Insert, ReplyIsRecorded, RowsWithId, Response
  <2>5. ASSUME NEW hash \in Hashes, V1ReUse(hash)
        PROVE  ReplyIsRecorded'
    <3>1. PICK i \in DOMAIN table :
             /\ table[i].pseudo_unique_id = hash
             /\ table[i].node_id = find_by_hash(table, hash)
      BY <2>0, <2>5, FoundByHash DEF V1ReUse
    <3> QED  BY <2>5, <3>1 DEF V1ReUse, ReplyIsRecorded, RowsWithId, Response
  <2>6. ASSUME NEW id \in Assignable, NEW hash \in Hashes, V1Insert(id, hash)
        PROVE  ReplyIsRecorded'
    <3> DEFINE r == NewRow(id, hash, hash)
    <3>1. r \in Row /\ r.node_id = id /\ r.pseudo_unique_id = hash
      BY V1RowType DEF Assignable
    <3>2. /\ Len(table) + 1 \in DOMAIN table'
          /\ table'[Len(table) + 1] = r
      BY <2>0, <2>6, <3>1, AppendRow DEF V1Insert
    <3> HIDE DEF r
    <3> QED  BY <2>6, <3>1, <3>2 DEF V1Insert, ReplyIsRecorded, RowsWithId, Response
  <2> QED  BY <2>0, <2>1, <2>2, <2>3, <2>4, <2>5, <2>6
           DEF Effect, StaticInsert, UidUpdate
<1> QED  BY <1>1, <1>2, TypeCorrect, PTL DEF Spec

-----------------------------------------------------------------------------
\* The inductive invariant behind V1ReplyAssignable: with one local ID in the
\* configuration, no v1 row holds that ID or one beyond the maximum.
V1RowsAssignable ==
    \A i \in DOMAIN table :
        table[i].pseudo_unique_id # None =>
            table[i].node_id \in (1..MaxNodeId) \ LocalIds

LEMMA V1RowsPreserved ==
    ASSUME NEW l, LocalIds = {l}, TypeOK, V1RowsAssignable, Effect
    PROVE  V1RowsAssignable'
<1> USE AllocatorAssumption, NoneAssumption
<1>0. table \in Seq(Row) /\ local_node_id = l
  BY DEF TypeOK
<1>1. CASE table' = table
  BY <1>1 DEF V1RowsAssignable
<1>2. ASSUME NEW id \in Nat, StaticInsert(id)
      PROVE  V1RowsAssignable'
  <2>1. StaticRow(id) \in Row /\ StaticRow(id).pseudo_unique_id = None
    BY StaticRowType
  <2> QED  BY <1>0, <1>2, <2>1, AppendRow DEF StaticInsert, V1RowsAssignable
<1>3. ASSUME NEW id \in Assignable, NEW uid \in RequestUids, V2Insert(id, uid)
      PROVE  V1RowsAssignable'
  <2>0. id \in Nat /\ uid \in Nat
    BY DEF Assignable
  <2>1. /\ NewRow(id, uid, None) \in Row
        /\ NewRow(id, uid, None).pseudo_unique_id = None
    BY <2>0, V2RowType
  <2> QED  BY <1>0, <1>3, <2>1, AppendRow DEF V2Insert, V1RowsAssignable
<1>4. ASSUME NEW id \in Assignable, NEW hash \in Hashes, V1Insert(id, hash)
      PROVE  V1RowsAssignable'
  <2>1. NewRow(id, hash, hash) \in Row /\ NewRow(id, hash, hash).node_id = id
    BY V1RowType DEF Assignable
  <2>2. id \in (1..MaxNodeId) \ LocalIds
    BY <1>0 DEF Assignable
  <2> QED  BY <1>0, <1>4, <2>1, <2>2, AppendRow DEF V1Insert, V1RowsAssignable
<1>5. ASSUME NEW id \in Nat, NEW uid \in AnswerUids, UidUpdate(id, uid)
      PROVE  V1RowsAssignable'
  <2>1. /\ DOMAIN table' = DOMAIN table
        /\ \A i \in DOMAIN table :
              /\ table'[i].node_id = table[i].node_id
              /\ table'[i].pseudo_unique_id = table[i].pseudo_unique_id
    <3>1. uid \in Nat
      OBVIOUS
    <3> QED  BY <1>0, <1>5, <3>1, UpdateKeeps DEF UidUpdate
  <2> QED  BY <2>1 DEF V1RowsAssignable
<1> QED  BY <1>1, <1>2, <1>3, <1>4, <1>5 DEF Effect, V1ReUse, V2ReUse

\* While the configured local ID stays the same, a v1 node is only ever
\* offered an ID from 1 to the maximum that is not the allocator's own.
THEOREM V1RepliesAssignable ==
    ASSUME NEW l, LocalIds = {l}
    PROVE  Spec => []V1ReplyAssignable
<1> USE AllocatorAssumption, NoneAssumption
<1> DEFINE IInv == TypeOK /\ V1RowsAssignable /\ V1ReplyAssignable
<1>1. Init => V1RowsAssignable /\ V1ReplyAssignable
  <2> SUFFICES ASSUME NEW id \in LocalIds, NEW failing \in SUBSET SqlFaults,
                      table = Recorded(<<>>, id, failing),
                      response = None
               PROVE  V1RowsAssignable /\ V1ReplyAssignable
    BY DEF Init
  <2>1. id \in Nat /\ <<>> \in Seq(Row) /\ DOMAIN <<>> = {}
    OBVIOUS
  <2>2. StaticRow(id) \in Row /\ StaticRow(id).pseudo_unique_id = None
    BY <2>1, StaticRowType
  <2>3. table = <<>> \/ table = Append(<<>>, StaticRow(id))
    BY <2>1, RecordedCases
  <2>4. CASE table = <<>>
    BY <2>1, <2>4 DEF V1RowsAssignable, V1ReplyAssignable
  <2>5. CASE table = Append(<<>>, StaticRow(id))
    <3>1. \A i \in DOMAIN table : table[i] = StaticRow(id)
      BY <2>5
    <3> QED  BY <2>2, <3>1 DEF V1RowsAssignable, V1ReplyAssignable
  <2> QED  BY <2>3, <2>4, <2>5
<1>2. IInv /\ [Next]_vars => V1RowsAssignable' /\ V1ReplyAssignable'
  <2> SUFFICES ASSUME IInv, [Next]_vars
               PROVE  V1RowsAssignable' /\ V1ReplyAssignable'
    OBVIOUS
  <2>0. Effect /\ table \in Seq(Row) /\ local_node_id = l
    BY Effects DEF TypeOK
  <2>1. V1RowsAssignable'
    BY <2>0, V1RowsPreserved
  <2>2. CASE UNCHANGED <<table, response, local_node_id>>
    BY <2>1, <2>2 DEF V1ReplyAssignable
  <2>3. CASE response' = None
    BY <2>1, <2>3 DEF V1ReplyAssignable
  <2>4. ASSUME NEW hash \in Hashes, V1ReUse(hash)
        PROVE  V1ReplyAssignable'
    <3>1. PICK i \in DOMAIN table :
             /\ table[i].pseudo_unique_id = hash
             /\ table[i].node_id = find_by_hash(table, hash)
      BY <2>0, <2>4, FoundByHash DEF V1ReUse
    <3>2. table[i].node_id \in (1..MaxNodeId) \ {local_node_id}
      BY <2>0, <3>1 DEF V1RowsAssignable
    <3> QED  BY <2>4, <3>1, <3>2 DEF V1ReUse, V1ReplyAssignable, Response
  <2>5. ASSUME NEW id \in Assignable, NEW hash \in Hashes, V1Insert(id, hash)
        PROVE  V1ReplyAssignable'
    <3>1. /\ response'.node_id = id /\ local_node_id' = local_node_id
          /\ id \in (1..MaxNodeId) \ {local_node_id}
      BY <2>5 DEF V1Insert, Response, Assignable
    <3> QED  BY <3>1 DEF V1ReplyAssignable
  <2>6. ASSUME response'.version = 2
        PROVE  V1ReplyAssignable'
    BY <2>6 DEF V1ReplyAssignable
  <2> QED  BY <2>0, <2>1, <2>2, <2>3, <2>4, <2>5, <2>6
           DEF Effect, StaticInsert, UidUpdate, V2ReUse, V2Insert, Response
<1> QED  BY <1>1, <1>2, TypeCorrect, PTL DEF Spec

-----------------------------------------------------------------------------
\* A row with a new ID and no hash, or a new hash, keeps the rows apart.
LEMMA OneIdPerHashAppend ==
    ASSUME table \in Seq(Row), OneIdPerHash, NEW r \in Row,
           CanInsert(table, r.node_id),
           \/ r.pseudo_unique_id = None
           \/ find_by_hash(table, r.pseudo_unique_id) = None,
           table' = Append(table, r)
    PROVE  OneIdPerHash'
<1> DEFINE n == Len(table) + 1
<1>1. /\ DOMAIN table' = DOMAIN table \cup {n}
      /\ n \notin DOMAIN table
      /\ \A i \in DOMAIN table : table'[i] = table[i]
      /\ table'[n] = r
  BY AppendRow
<1>2. ASSUME NEW i \in DOMAIN table
      PROVE  /\ table[i].node_id # r.node_id
             /\ \/ r.pseudo_unique_id = None
                \/ table[i].pseudo_unique_id # r.pseudo_unique_id
  <2>1. table[i].node_id # r.node_id
    BY DEF CanInsert, NodeIdsIn
  <2>2. ASSUME find_by_hash(table, r.pseudo_unique_id) = None
        PROVE  table[i].pseudo_unique_id # r.pseudo_unique_id
    <3>1. RowsWithHash(table, r.pseudo_unique_id) = {}
      BY <2>2, FirstNodeIdProperties DEF find_by_hash, RowsWithHash
    <3> QED  BY <3>1 DEF RowsWithHash
  <2> QED  BY <2>1, <2>2
<1> HIDE DEF n
<1>3. SUFFICES ASSUME NEW i \in DOMAIN table', NEW j \in DOMAIN table', i # j
               PROVE  /\ table'[i].node_id # table'[j].node_id
                      /\ \/ table'[i].pseudo_unique_id = None
                         \/ table'[i].pseudo_unique_id # table'[j].pseudo_unique_id
  BY DEF OneIdPerHash
<1>4. CASE i \in DOMAIN table /\ j \in DOMAIN table
  BY <1>1, <1>3, <1>4 DEF OneIdPerHash
<1>5. CASE i = n /\ j \in DOMAIN table
  BY <1>1, <1>2, <1>5
<1>6. CASE j = n /\ i \in DOMAIN table
  BY <1>1, <1>2, <1>6
<1> QED  BY <1>1, <1>3, <1>4, <1>5, <1>6

LEMMA OneIdPerHashPreserved ==
    ASSUME "find" \notin SqlFaults, table \in Seq(Row), OneIdPerHash, Effect
    PROVE  OneIdPerHash'
<1> USE AllocatorAssumption, NoneAssumption
<1>1. CASE table' = table
  BY <1>1 DEF OneIdPerHash
<1>2. ASSUME NEW id \in Nat, StaticInsert(id)
      PROVE  OneIdPerHash'
  BY <1>2, StaticRowType, OneIdPerHashAppend DEF StaticInsert
<1>3. ASSUME NEW id \in Assignable, NEW uid \in RequestUids, V2Insert(id, uid)
      PROVE  OneIdPerHash'
  <2>0. id \in Nat /\ uid \in Nat
    BY DEF Assignable
  <2> QED  BY <1>3, <2>0, V2RowType, OneIdPerHashAppend DEF V2Insert
<1>4. ASSUME NEW id \in Assignable, NEW hash \in Hashes, V1Insert(id, hash)
      PROVE  OneIdPerHash'
  <2>0. id \in Nat /\ hash \in Nat
    BY DEF Assignable
  <2> QED  BY <1>4, <2>0, V1RowType, OneIdPerHashAppend DEF V1Insert
<1>5. ASSUME NEW id \in Nat, NEW uid \in AnswerUids, UidUpdate(id, uid)
      PROVE  OneIdPerHash'
  <2>1. uid \in Nat
    OBVIOUS
  <2> DEFINE u == update_unique_id(table, id, uid)
  <2>2. /\ DOMAIN u = DOMAIN table
        /\ \A i \in DOMAIN table :
              /\ u[i].node_id = table[i].node_id
              /\ u[i].pseudo_unique_id = table[i].pseudo_unique_id
    BY <2>1, UpdateKeeps
  <2>3. table' = u
    BY <1>5 DEF UidUpdate
  <2> HIDE DEF u
  <2> QED  BY <2>2, <2>3 DEF OneIdPerHash
<1> QED  BY <1>1, <1>2, <1>3, <1>4, <1>5 DEF Effect, V1ReUse, V2ReUse

\* As long as lookups do not fail, no two v1 nodes share an ID, no v1 node
\* holds two, and no two rows have the same ID.
THEOREM HashesAreUnique ==
    ASSUME "find" \notin SqlFaults
    PROVE  Spec => []OneIdPerHash
<1> USE AllocatorAssumption, NoneAssumption
<1>1. Init => OneIdPerHash
  <2> SUFFICES ASSUME NEW id \in LocalIds, NEW failing \in SUBSET SqlFaults,
                      table = Recorded(<<>>, id, failing)
               PROVE  OneIdPerHash
    BY DEF Init
  <2>0. id \in Nat /\ <<>> \in Seq(Row)
    OBVIOUS
  <2>1. table = <<>> \/ table = Append(<<>>, StaticRow(id))
    BY <2>0, RecordedCases
  <2>2. DOMAIN table = {} \/ DOMAIN table = {1}
    BY <2>1
  <2> QED  BY <2>2 DEF OneIdPerHash
<1>2. TypeOK /\ OneIdPerHash /\ [Next]_vars => OneIdPerHash'
  BY Effects, OneIdPerHashPreserved DEF TypeOK
<1> QED  BY <1>1, <1>2, TypeCorrect, PTL DEF Spec

-----------------------------------------------------------------------------
\* No statement deletes a row or changes its ID or its hash, and at most one row
\* is added, with an ID that had none.
LEMMA RowsStay ==
    ASSUME table \in Seq(Row), Effect
    PROVE  /\ DOMAIN table \subseteq DOMAIN table'
           /\ \A i \in DOMAIN table :
                 /\ table'[i].node_id = table[i].node_id
                 /\ table'[i].pseudo_unique_id = table[i].pseudo_unique_id
           /\ \A i \in DOMAIN table' \ DOMAIN table :
                 /\ table'[i].node_id \notin NodeIdsIn(table)
                 /\ \A j \in DOMAIN table' \ DOMAIN table : i = j
<1> USE AllocatorAssumption, NoneAssumption
<1> DEFINE Goal ==
       /\ DOMAIN table \subseteq DOMAIN table'
       /\ \A i \in DOMAIN table :
             /\ table'[i].node_id = table[i].node_id
             /\ table'[i].pseudo_unique_id = table[i].pseudo_unique_id
       /\ \A i \in DOMAIN table' \ DOMAIN table :
             /\ table'[i].node_id \notin NodeIdsIn(table)
             /\ \A j \in DOMAIN table' \ DOMAIN table : i = j
<1>1. ASSUME NEW r \in Row, table' = Append(table, r), CanInsert(table, r.node_id)
      PROVE  Goal
  BY <1>1, AppendRow DEF CanInsert
<1>2. ASSUME NEW id \in Nat, NEW uid \in AnswerUids, UidUpdate(id, uid)
      PROVE  Goal
  <2>1. uid \in Nat
    OBVIOUS
  <2> DEFINE u == update_unique_id(table, id, uid)
  <2>2. /\ DOMAIN u = DOMAIN table
        /\ \A i \in DOMAIN table :
              /\ u[i].node_id = table[i].node_id
              /\ u[i].pseudo_unique_id = table[i].pseudo_unique_id
    BY <2>1, UpdateKeeps
  <2>3. table' = u
    BY <1>2 DEF UidUpdate
  <2> HIDE DEF u
  <2> QED  BY <2>2, <2>3
<1>3. ASSUME NEW id \in Nat, StaticInsert(id)
      PROVE  Goal
  <2> HIDE DEF Goal
  <2> QED  BY <1>1, <1>3, StaticRowType DEF StaticInsert
<1>4. ASSUME NEW id \in Assignable, NEW uid \in RequestUids, V2Insert(id, uid)
      PROVE  Goal
  <2>0. id \in Nat /\ uid \in Nat
    BY DEF Assignable
  <2> HIDE DEF Goal
  <2> QED  BY <1>1, <1>4, <2>0, V2RowType DEF V2Insert
<1>5. ASSUME NEW id \in Assignable, NEW hash \in Hashes, V1Insert(id, hash)
      PROVE  Goal
  <2>0. id \in Nat /\ hash \in Nat
    BY DEF Assignable
  <2> HIDE DEF Goal
  <2> QED  BY <1>1, <1>5, <2>0, V1RowType DEF V1Insert
<1>6. ASSUME table' = table PROVE Goal
  BY <1>6
<1> HIDE DEF Goal
<1>7. Goal
  BY <1>2, <1>3, <1>4, <1>5, <1>6 DEF Effect, V1ReUse, V2ReUse
<1> QED  BY <1>7 DEF Goal

\* Whatever fails, also a lookup, an ID has one row: what OneIdPerHash loses when
\* lookups fail is that a v1 node may hold two IDs, not that two may share one.
OneRowPerId ==
    \A i, j \in DOMAIN table : table[i].node_id = table[j].node_id => i = j

THEOREM IdsAreUnique == Spec => []OneRowPerId
<1>1. Init => OneRowPerId
  <2> SUFFICES ASSUME NEW id \in LocalIds, NEW failing \in SUBSET SqlFaults,
                      table = Recorded(<<>>, id, failing)
               PROVE  OneRowPerId
    BY DEF Init
  <2>0. id \in Nat /\ <<>> \in Seq(Row)
    BY AllocatorAssumption
  <2>1. table = <<>> \/ table = Append(<<>>, StaticRow(id))
    BY <2>0, RecordedCases
  <2>2. DOMAIN table = {} \/ DOMAIN table = {1}
    BY <2>1
  <2> QED  BY <2>2 DEF OneRowPerId
<1>2. TypeOK /\ OneRowPerId /\ [Next]_vars => OneRowPerId'
  <2> SUFFICES ASSUME TypeOK, OneRowPerId, [Next]_vars PROVE OneRowPerId'
    OBVIOUS
  <2>1. table \in Seq(Row) /\ Effect
    BY Effects DEF TypeOK
  <2>2. \A i \in DOMAIN table : table[i].node_id \in NodeIdsIn(table)
    BY DEF NodeIdsIn
  <2> QED  BY <2>1, <2>2, RowsStay DEF OneRowPerId
<1> QED  BY <1>1, <1>2, TypeCorrect, PTL DEF Spec

-----------------------------------------------------------------------------
\* IDs only ever accumulate in the table.
LEMMA NodeIdsGrow ==
    ASSUME table \in Seq(Row), Effect
    PROVE  NodeIdsIn(table) \subseteq NodeIdsIn(table')
<1>1. \A i \in DOMAIN table : i \in DOMAIN table' /\ table'[i].node_id = table[i].node_id
  BY RowsStay
<1> QED  BY <1>1 DEF NodeIdsIn

-----------------------------------------------------------------------------
(* Refinement of NodeIdAssignment. *)

mapping == [hash \in Hashes |-> find_by_hash(table, hash)]

\* Steps without a v1 reply are steps of Reserve.
LEMMA ReserveStep ==
    ASSUME table \in Seq(Row), Effect,
           response' = None \/ response'.version # 1,
           \A hash \in Hashes :
              find_by_hash(table', hash) = find_by_hash(table, hash)
    PROVE  Assignment!Reserve
<1>1. mapping' = mapping
  BY DEF mapping
<1> QED  BY <1>1, NodeIdsGrow DEF Assignment!Reserve, mapping

\* Static and v2 rows have no hash, so they move no mapping.
LEMMA HashlessRow ==
    ASSUME table \in Seq(Row), NEW r \in Row, r.pseudo_unique_id = None,
           table' = Append(table, r), NEW hash \in Hashes
    PROVE  find_by_hash(table', hash) = find_by_hash(table, hash)
<1>1. hash \in Nat /\ r.pseudo_unique_id # hash
  BY AllocatorAssumption, NoneAssumption
<1> QED  BY <1>1, FindByHashAppend

\* What a v1 node sees of the allocator is the write-once assignment of
\* NodeIdAssignment, as long as lookups do not fail: the initial states map
\* to initial states, and every step to a step or a stutter.
THEOREM ImplementsAssignment ==
    ASSUME "find" \notin SqlFaults
    PROVE  Spec => AssignmentSpec
<1> USE AllocatorAssumption, NoneAssumption
<1>1. Init => Assignment!Init
  <2> SUFFICES ASSUME NEW id \in LocalIds, NEW failing \in SUBSET SqlFaults,
                      table = Recorded(<<>>, id, failing),
                      response = None
               PROVE  Assignment!Init
    BY DEF Init
  <2>0. id \in Nat /\ <<>> \in Seq(Row)
    OBVIOUS
  <2>1. table = <<>> \/ table = Append(<<>>, StaticRow(id))
    BY <2>0, RecordedCases
  <2>2. \A i \in DOMAIN table : table[i].pseudo_unique_id = None
    <3>1. DOMAIN table = {} \/ (DOMAIN table = {1} /\ table[1] = StaticRow(id))
      BY <2>1
    <3> QED  BY <3>1, StaticRowType
  <2>3. ASSUME NEW hash \in Hashes
        PROVE  find_by_hash(table, hash) = None
    <3>1. hash # None
      OBVIOUS
    <3>2. RowsWithHash(table, hash) = {}
      BY <2>2, <3>1 DEF RowsWithHash
    <3> QED  BY <3>2 DEF find_by_hash, FirstNodeId
  <2> QED  BY <2>3 DEF Assignment!Init
<1>2. TypeOK /\ [Next]_vars => [Assignment!Next]_(Assignment!vars)
  <2> SUFFICES ASSUME TypeOK, [Next]_vars
               PROVE  [Assignment!Next]_(Assignment!vars)
    OBVIOUS
  <2>0. Effect /\ table \in Seq(Row)
    BY Effects DEF TypeOK
  <2>1. CASE UNCHANGED <<table, response, local_node_id>>
    BY <2>1 DEF Assignment!vars
  <2>2. CASE table' = table /\ response' = None
    BY <2>0, <2>2, ReserveStep DEF Assignment!Next
  <2>3. ASSUME NEW id \in Nat, StaticInsert(id)
        PROVE  Assignment!Reserve
    BY <2>0, <2>3, StaticRowType, HashlessRow, ReserveStep DEF StaticInsert
  <2>4. ASSUME NEW id \in Nat, NEW uid \in AnswerUids, UidUpdate(id, uid)
        PROVE  Assignment!Reserve
    <3>1. \A hash \in Hashes :
             find_by_hash(table', hash) = find_by_hash(table, hash)
      BY <2>0, <2>4, FindByHashUpdate DEF UidUpdate
    <3> QED  BY <2>0, <2>4, <3>1, ReserveStep DEF UidUpdate
  <2>5. ASSUME NEW uid \in RequestUids, V2ReUse(uid)
        PROVE  Assignment!Reserve
    BY <2>0, <2>5, ReserveStep DEF V2ReUse, Response
  <2>6. ASSUME NEW id \in Assignable, NEW uid \in RequestUids, V2Insert(id, uid)
        PROVE  Assignment!Reserve
    <3>0. id \in Nat /\ uid \in Nat
      BY DEF Assignable
    <3>1. \A hash \in Hashes :
             find_by_hash(table', hash) = find_by_hash(table, hash)
      BY <2>0, <2>6, <3>0, V2RowType, HashlessRow DEF V2Insert
    <3> QED  BY <2>0, <2>6, <3>1, ReserveStep DEF V2Insert, Response
  <2>7. ASSUME NEW hash \in Hashes, V1ReUse(hash)
        PROVE  Assignment!Repeat(hash)
    <3>1. find_by_hash(table, hash) \in Nat
      BY <2>0, <2>7, FirstNodeIdProperties DEF V1ReUse, find_by_hash, RowsWithHash
    <3>2. /\ response' \in Responses
          /\ response'.version = 1
          /\ response'.key = hash
          /\ response'.node_id = find_by_hash(table, hash)
      BY <2>7, <3>1 DEF V1ReUse, Response, Responses
    <3>3. response' # None
      BY <3>2, NoReplyAssumption
    <3> QED  BY <2>7, <3>2, <3>3 DEF V1ReUse, Assignment!Repeat
  <2>8. ASSUME NEW id \in Assignable, NEW hash \in Hashes, V1Insert(id, hash)
        PROVE  id \in 1..MaxNodeId /\ Assignment!Assign(hash, id)
    <3>0. id \in Nat /\ hash \in Nat /\ id \in 1..MaxNodeId
      BY DEF Assignable
    <3> DEFINE r == NewRow(id, hash, hash)
    <3>1. r \in Row /\ r.node_id = id /\ r.pseudo_unique_id = hash
      BY <3>0, V1RowType
    <3>2. table' = Append(table, r) /\ find_by_hash(table, hash) = None
      BY <2>8 DEF V1Insert
    <3> HIDE DEF r
    <3>3. find_by_hash(table', hash) = id
      BY <2>0, <3>0, <3>1, <3>2, FindByHashNew
    <3>4. \A h \in Hashes \ {hash} : find_by_hash(table', h) = find_by_hash(table, h)
      <4>1. \A h \in Hashes \ {hash} : h \in Nat /\ r.pseudo_unique_id # h
        BY <3>1
      <4> QED  BY <2>0, <3>1, <3>2, <4>1, FindByHashAppend
    <3>5. NodeIdsIn(table') = NodeIdsIn(table) \cup {id}
      BY <2>0, <3>1, <3>2, NodeIdsInAppend
    <3>6. id \notin NodeIdsIn(table)
      BY <2>8 DEF V1Insert, CanInsert
    <3>7. mapping' = [mapping EXCEPT ![hash] = id]
      BY <3>3, <3>4 DEF mapping
    <3>8. response' \in Responses /\ response'.version = 1
          /\ response'.key = hash /\ response'.node_id = id
      BY <2>8, <3>0 DEF V1Insert, Response, Responses
    <3>9. response' # None
      BY <3>8, NoReplyAssumption
    <3> QED  BY <3>0, <3>2, <3>5, <3>6, <3>7, <3>8, <3>9 DEF Assignment!Assign, mapping
  <2> QED  BY <2>0, <2>1, <2>2, <2>3, <2>4, <2>5, <2>6, <2>7, <2>8
           DEF Effect, Assignment!Next
<1> QED  BY <1>1, <1>2, TypeCorrect, PTL DEF Spec, AssignmentSpec, Assignment!Spec

-----------------------------------------------------------------------------
(* The GetInfo requests. *)

Queried == {id \in Nat : \/ \E i \in DOMAIN get_info_queue : get_info_queue[i] = id
                         \/ in_flight = id}

\* A request that was not there before the step is for a placeholder row.
LEMMA QueriedSteps ==
    ASSUME TypeOK, [Next]_vars, NEW id \in Queried'
    PROVE  \/ id \in Queried
           \/ id \in NodeIdsIn(table') /\ Placeholder(id)'
<1> USE AllocatorAssumption DEF TypeOK
<1>1. CASE UNCHANGED <<get_info_queue, in_flight>>
  BY <1>1 DEF Queried
<1>2. ASSUME NEW failing \in SUBSET SqlFaults, NEW n \in ObservedIds,
             OnHeartbeat(n, failing),
             get_info_queue' = Append(get_info_queue, n),
             NeedsQuery(table', n, failing)
      PROVE  id \in Queried \/ (id \in NodeIdsIn(table') /\ Placeholder(id)')
  <2>1. in_flight' = in_flight
    BY <1>2 DEF OnHeartbeat
  <2>2. CASE id = n
    BY <1>2, <2>2 DEF NeedsQuery, Placeholder, RowsWithId, NodeIdsIn
  <2>3. CASE id # n
    <3>1. \A i \in DOMAIN get_info_queue' :
             get_info_queue'[i] = n
             \/ (i \in DOMAIN get_info_queue /\ get_info_queue'[i] = get_info_queue[i])
      BY <1>2
    <3> QED  BY <2>1, <2>3, <3>1 DEF Queried
  <2> QED  BY <2>2, <2>3
<1>3. ASSUME NEW failing \in SUBSET SqlFaults, NEW n \in ObservedIds,
             OnHeartbeat(n, failing)
      PROVE  id \in Queried \/ (id \in NodeIdsIn(table') /\ Placeholder(id)')
  BY <1>1, <1>2, <1>3 DEF OnHeartbeat
<1>4. CASE get_info_queue # <<>> /\ get_info_queue' = Tail(get_info_queue)
           /\ in_flight' \in {in_flight, Head(get_info_queue)}
  <2>1. \A i \in DOMAIN get_info_queue' :
           i + 1 \in DOMAIN get_info_queue /\ get_info_queue'[i] = get_info_queue[i + 1]
    BY <1>4, HeadTailProperties
  <2>2. 1 \in DOMAIN get_info_queue /\ Head(get_info_queue) = get_info_queue[1]
    BY <1>4
  <2> QED  BY <1>4, <2>1, <2>2 DEF Queried
<1>5. CASE get_info_queue' = get_info_queue /\ in_flight' = None
  BY <1>5, NoneAssumption DEF Queried
<1>6. CASE get_info_queue' = <<>> /\ in_flight' = None
  BY <1>6, NoneAssumption DEF Queried
<1> QED
  BY <1>1, <1>3, <1>4, <1>5, <1>6
  DEF Next, IgnoreAllocation, OnAllocationV2, OnAllocationV1, PopGetInfoRequest,
      GetInfoNotSent, GetInfoAnswered, GetInfoFailed, CooldownElapses, Restart, new, vars

QueriesRecorded == Queried \subseteq NodeIdsIn(table)

LEMMA QueriesRecordedAlways == Spec => []QueriesRecorded
<1>1. Init => QueriesRecorded
  <2> SUFFICES ASSUME get_info_queue = <<>>, in_flight = None PROVE Queried = {}
    BY DEF Init, QueriesRecorded
  <2> QED  BY NoneAssumption DEF Queried
<1>2. TypeOK /\ QueriesRecorded /\ [Next]_vars => QueriesRecorded'
  BY Effects, NodeIdsGrow, QueriedSteps DEF TypeOK, QueriesRecorded
<1> QED  BY <1>1, <1>2, TypeCorrect, PTL DEF Spec

\* A GetInfo request is only ever made for an ID that has a row.
THEOREM QueriedAreRecorded == Spec => []QueriedIdsRecorded
<1>1. TypeOK /\ QueriesRecorded => QueriedIdsRecorded
  BY DEF TypeOK, QueriesRecorded, QueriedIdsRecorded, Queried
<1> QED  BY <1>1, QueriesRecordedAlways, TypeCorrect, PTL

-----------------------------------------------------------------------------
(***************************************************************************)
(* v2 nodes.  Nothing like the promise to v1 nodes holds for all of them   *)
(* (runs PnpV2Moves and PnpZeroUid), as their rows are found by a column   *)
(* that is not theirs alone.  It does hold for nodes whose unique IDs are  *)
(* their own: programmed, no padded hash of a v1 node, and never reported  *)
(* in a GetInfo answer, as is that of a device that was first heard under  *)
(* a fixed ID or asked as a v1 node.                                       *)
(***************************************************************************)
OwnUids ==
    RequestUids \cap ({ZeroUid} \cup {Padded(hash) : hash \in Hashes} \cup AnswerUids) = {}

\* A row with the unique ID of a v2 node was inserted for it.
LEMMA V2RowsSteps ==
    ASSUME OwnUids, table \in Seq(Row), Effect, NEW i \in DOMAIN table',
           table'[i].unique_id \in RequestUids
    PROVE  \/ i \in DOMAIN table /\ table'[i] = table[i]
           \/ /\ table'[i].pseudo_unique_id = None
              /\ table'[i].node_id \notin NodeIdsIn(table)
              /\ table'[i].node_id \in Assignable
<1> USE AllocatorAssumption DEF OwnUids
<1>1. CASE table' = table
  BY <1>1
<1>2. ASSUME NEW r \in Row, table' = Append(table, r), r.unique_id \notin RequestUids
      PROVE  i \in DOMAIN table /\ table'[i] = table[i]
  BY <1>2, AppendRow
<1>3. ASSUME NEW id \in Nat, StaticInsert(id)
      PROVE  i \in DOMAIN table /\ table'[i] = table[i]
  <2>1. /\ StaticRow(id) \in Row
        /\ StaticRow(id).unique_id \notin RequestUids
    BY StaticRowType
  <2> QED  BY <1>2, <1>3, <2>1 DEF StaticInsert
<1>4. ASSUME NEW id \in Assignable, NEW hash \in Hashes, V1Insert(id, hash)
      PROVE  i \in DOMAIN table /\ table'[i] = table[i]
  <2>1. id \in Nat /\ hash \in Nat /\ hash \notin RequestUids
    BY DEF Assignable, Padded
  <2>2. /\ NewRow(id, hash, hash) \in Row
        /\ NewRow(id, hash, hash).unique_id \notin RequestUids
    BY <2>1, V1RowType
  <2> QED  BY <1>2, <1>4, <2>2 DEF V1Insert
<1>5. ASSUME NEW id \in Assignable, NEW uid \in RequestUids, V2Insert(id, uid)
      PROVE  \/ i \in DOMAIN table /\ table'[i] = table[i]
             \/ /\ table'[i].pseudo_unique_id = None
                /\ table'[i].node_id \notin NodeIdsIn(table)
                /\ table'[i].node_id \in Assignable
  <2>1. id \in Nat /\ uid \in Nat
    BY DEF Assignable
  <2> DEFINE r == NewRow(id, uid, None)
  <2>2. r \in Row /\ r.node_id = id /\ r.pseudo_unique_id = None
    BY <2>1, V2RowType
  <2>3. table' = Append(table, r) /\ id \notin NodeIdsIn(table)
    BY <1>5 DEF V2Insert, CanInsert
  <2> HIDE DEF r
  <2> QED  BY <2>2, <2>3, AppendRow
<1>6. ASSUME NEW id \in Nat, NEW uid \in AnswerUids, UidUpdate(id, uid)
      PROVE  i \in DOMAIN table /\ table'[i] = table[i]
  <2>1. uid \in Nat /\ uid \notin RequestUids
    OBVIOUS
  <2>2. /\ i \in DOMAIN table
        /\ table'[i].unique_id = IF table[i].node_id = id THEN uid ELSE table[i].unique_id
    BY <1>6, <2>1, UpdateKeeps DEF UidUpdate
  <2>3. table[i].node_id # id
    BY <2>1, <2>2
  <2> QED  BY <1>6, <2>2, <2>3 DEF UidUpdate, update_unique_id
<1> QED  BY <1>1, <1>3, <1>4, <1>5, <1>6 DEF Effect, V1ReUse, V2ReUse

\* With one local ID in the configuration, no such row holds that ID or one
\* beyond the maximum, whichever statements failed.
V2RowsAssignable ==
    \A i \in DOMAIN table :
        table[i].unique_id \in RequestUids =>
            table[i].node_id \in (1..MaxNodeId) \ LocalIds

V2ReplyAssignable ==
    response # None /\ response.version = 2 =>
        response.node_id \in (1..MaxNodeId) \ {local_node_id}

\* A fresh database holds the local node's row at most.
LEMMA InitRows ==
    ASSUME Init, NEW i \in DOMAIN table
    PROVE  table[i].unique_id = ZeroUid /\ table[i].pseudo_unique_id = None
<1>1. PICK id \in LocalIds, failing \in SUBSET SqlFaults :
         table = Recorded(<<>>, id, failing)
  BY DEF Init
<1>2. id \in Nat /\ <<>> \in Seq(Row)
  BY AllocatorAssumption
<1>3. table = <<>> \/ table = Append(<<>>, StaticRow(id))
  BY <1>1, <1>2, RecordedCases
<1>4. table[i] = StaticRow(id)
  BY <1>3
<1> QED  BY <1>2, <1>4, StaticRowType

\* While the configured local ID stays the same, a v2 node with a unique ID of
\* its own is only ever offered an ID from 1 to the maximum that is not the
\* allocator's own: what PnpZeroUid refutes for a node without one.
THEOREM V2RepliesAssignable ==
    ASSUME NEW l, LocalIds = {l}, OwnUids
    PROVE  Spec => []V2ReplyAssignable
<1> USE AllocatorAssumption, NoneAssumption
<1>1. Init => V2RowsAssignable /\ V2ReplyAssignable
  <2> SUFFICES ASSUME Init PROVE V2RowsAssignable /\ V2ReplyAssignable
    OBVIOUS
  <2>1. response = None
    BY DEF Init
  <2> QED  BY <2>1, InitRows DEF V2RowsAssignable, V2ReplyAssignable, OwnUids
<1>2. TypeOK /\ V2RowsAssignable /\ V2ReplyAssignable /\ [Next]_vars
        => V2RowsAssignable' /\ V2ReplyAssignable'
  <2> SUFFICES ASSUME TypeOK, V2RowsAssignable, V2ReplyAssignable, [Next]_vars
               PROVE  V2RowsAssignable' /\ V2ReplyAssignable'
    OBVIOUS
  <2>0. Effect /\ table \in Seq(Row) /\ local_node_id = l
    BY Effects DEF TypeOK
  <2>1. V2RowsAssignable'
    BY <2>0, V2RowsSteps DEF V2RowsAssignable, Assignable
  <2>2. CASE UNCHANGED <<table, response, local_node_id>>
    BY <2>1, <2>2 DEF V2ReplyAssignable
  <2>3. CASE response' = None
    BY <2>1, <2>3 DEF V2ReplyAssignable
  <2>4. ASSUME NEW uid \in RequestUids, V2ReUse(uid)
        PROVE  V2ReplyAssignable'
    <3>1. PICK i \in DOMAIN table :
             /\ table[i].unique_id = uid
             /\ table[i].node_id = find_by_unique_id(table, uid)
      BY <2>0, <2>4, FoundByUniqueId DEF V2ReUse
    <3>2. table[i].node_id \in (1..MaxNodeId) \ {local_node_id}
      BY <2>0, <3>1 DEF V2RowsAssignable
    <3> QED  BY <2>4, <3>1, <3>2 DEF V2ReUse, V2ReplyAssignable, Response
  <2>5. ASSUME NEW id \in Assignable, NEW uid \in RequestUids, V2Insert(id, uid)
        PROVE  V2ReplyAssignable'
    BY <2>5 DEF V2Insert, Response, Assignable, V2ReplyAssignable
  <2>6. ASSUME response'.version = 1
        PROVE  V2ReplyAssignable'
    BY <2>6 DEF V2ReplyAssignable
  <2> QED  BY <2>0, <2>1, <2>2, <2>3, <2>4, <2>5, <2>6
           DEF Effect, StaticInsert, UidUpdate, V1ReUse, V1Insert, Response
<1> QED  BY <1>1, <1>2, TypeCorrect, PTL DEF Spec

\* "reserved, never assigned": the promise of PnpAllocator::new, for nodes with
\* unique IDs of their own and while the configured local ID stays the same.
THEOREM LocalIsNeverAssigned ==
    ASSUME NEW l, LocalIds = {l}, OwnUids
    PROVE  Spec => []LocalNeverAssigned
<1>1. TypeOK /\ V1ReplyAssignable /\ V2ReplyAssignable => LocalNeverAssigned
  BY DEF TypeOK, Responses, V1ReplyAssignable, V2ReplyAssignable, LocalNeverAssigned
<1>2. Spec => []V1ReplyAssignable
  BY V1RepliesAssignable
<1>3. Spec => []V2ReplyAssignable
  BY V2RepliesAssignable
<1> QED  BY <1>1, <1>2, <1>3, TypeCorrect, PTL

-----------------------------------------------------------------------------
(* Refinement of NodeIdAssignment by such nodes, as their unique IDs. *)

V2Assignment == INSTANCE NodeIdAssignment WITH
    Hashes   <- RequestUids,
    NodeIds  <- 1..MaxNodeId,
    assigned <- [uid \in RequestUids |-> find_by_unique_id(table, uid)],
    taken    <- NodeIdsIn(table),
    answer   <- IF response # None /\ response.version = 2
                THEN <<response.key, response.node_id>> ELSE None

v2_mapping == [uid \in RequestUids |-> find_by_unique_id(table, uid)]

\* No GetInfo answer is ever due for a row of a v2 node: it was never a
\* placeholder, and a stale request is for the ID of another row.
V2RowsKept ==
    \A i \in DOMAIN table :
        table[i].unique_id \in RequestUids =>
            /\ table[i].pseudo_unique_id = None
            /\ table[i].node_id \notin Queried

LEMMA V2RowStays ==
    ASSUME table \in Seq(Row), V2RowsKept, Effect,
           NEW i \in DOMAIN table, table[i].unique_id \in RequestUids
    PROVE  i \in DOMAIN table' /\ table'[i] = table[i]
<1> USE AllocatorAssumption
<1>1. ASSUME NEW r \in Row, table' = Append(table, r)
      PROVE  i \in DOMAIN table' /\ table'[i] = table[i]
  BY <1>1, AppendRow
<1>2. ASSUME NEW id \in Nat, NEW uid \in AnswerUids, UidUpdate(id, uid)
      PROVE  i \in DOMAIN table' /\ table'[i] = table[i]
  <2>1. table[i].node_id # id
    BY <1>2 DEF UidUpdate, V2RowsKept, Queried
  <2> QED  BY <1>2, <2>1 DEF UidUpdate, update_unique_id
<1>3. ASSUME NEW id \in Nat, StaticInsert(id)
      PROVE  i \in DOMAIN table' /\ table'[i] = table[i]
  BY <1>1, <1>3, StaticRowType DEF StaticInsert
<1>4. ASSUME NEW id \in Assignable, NEW uid \in RequestUids, V2Insert(id, uid)
      PROVE  i \in DOMAIN table' /\ table'[i] = table[i]
  <2>0. id \in Nat /\ uid \in Nat
    BY DEF Assignable
  <2> QED  BY <1>1, <1>4, <2>0, V2RowType DEF V2Insert
<1>5. ASSUME NEW id \in Assignable, NEW hash \in Hashes, V1Insert(id, hash)
      PROVE  i \in DOMAIN table' /\ table'[i] = table[i]
  <2>0. id \in Nat /\ hash \in Nat
    BY DEF Assignable
  <2> QED  BY <1>1, <1>5, <2>0, V1RowType DEF V1Insert
<1>6. ASSUME table' = table
      PROVE  i \in DOMAIN table' /\ table'[i] = table[i]
  BY <1>6
<1> QED  BY <1>2, <1>3, <1>4, <1>5, <1>6 DEF Effect, V1ReUse, V2ReUse

LEMMA V2RowsKeptPreserved ==
    ASSUME OwnUids, TypeOK, QueriesRecorded, OneRowPerId', V2RowsKept, [Next]_vars
    PROVE  V2RowsKept'
<1>0. Effect /\ table \in Seq(Row)
  BY Effects DEF TypeOK
<1> SUFFICES ASSUME NEW i \in DOMAIN table', table'[i].unique_id \in RequestUids,
                    NEW id, id = table'[i].node_id
             PROVE  /\ table'[i].pseudo_unique_id = None
                    /\ id \notin Queried'
  BY DEF V2RowsKept
<1>1. /\ table'[i].pseudo_unique_id = None
      /\ id \notin Queried
  BY <1>0, V2RowsSteps DEF V2RowsKept, QueriesRecorded
<1>2. ~needs_get_info(table'[i])
  BY <1>1 DEF needs_get_info, OwnUids
<1>3. \A j \in RowsWithId(table', id) : j = i
  BY DEF OneRowPerId, RowsWithId
<1>4. ~Placeholder(id)'
  BY <1>2, <1>3 DEF Placeholder
<1> QED  BY <1>1, <1>4, QueriedSteps

LEMMA V2RowsKeptAlways ==
    ASSUME OwnUids
    PROVE  Spec => []V2RowsKept
<1>1. Init => V2RowsKept
  BY InitRows DEF V2RowsKept, OwnUids
<1>2. TypeOK /\ QueriesRecorded /\ OneRowPerId' /\ V2RowsKept /\ [Next]_vars
        => V2RowsKept'
  BY V2RowsKeptPreserved
<1> QED  BY <1>1, <1>2, TypeCorrect, QueriesRecordedAlways, IdsAreUnique, PTL DEF Spec

\* A row with another unique ID moves no mapping of a v2 node.
LEMMA OtherUidRow ==
    ASSUME table \in Seq(Row), NEW r \in Row, NEW uid \in RequestUids,
           r.unique_id # uid, table' = Append(table, r)
    PROVE  find_by_unique_id(table', uid) = find_by_unique_id(table, uid)
<1>1. uid \in Nat
  BY AllocatorAssumption
<1> QED  BY <1>1, FindByUidAppend

LEMMA V2UpdateStep ==
    ASSUME OwnUids, TypeOK, V2RowsKept, NEW id \in Nat, NEW reported \in AnswerUids,
           UidUpdate(id, reported), NEW uid \in RequestUids
    PROVE  find_by_unique_id(table', uid) = find_by_unique_id(table, uid)
<1>1. uid \in Nat /\ reported \in Nat /\ reported # uid
  BY AllocatorAssumption DEF OwnUids
<1>2. \A i \in RowsWithId(table, id) : table[i].unique_id # uid
  BY DEF V2RowsKept, RowsWithId, Queried, UidUpdate
<1> QED  BY <1>1, <1>2, FindByUidUpdate DEF UidUpdate, TypeOK

\* What such a node is mapped to survives every effect.
LEMMA V2MappingSurvives ==
    ASSUME "find" \notin SqlFaults, OwnUids, TypeOK, V2RowsKept, Effect,
           NEW uid \in RequestUids, find_by_unique_id(table, uid) # None
    PROVE  find_by_unique_id(table', uid) = find_by_unique_id(table, uid)
<1> USE AllocatorAssumption
<1>0. table \in Seq(Row)
  BY DEF TypeOK
<1>1. CASE table' = table
  BY <1>1
<1>2. ASSUME NEW id \in Nat, StaticInsert(id)
      PROVE  find_by_unique_id(table', uid) = find_by_unique_id(table, uid)
  <2>1. ZeroUid # uid
    BY DEF OwnUids
  <2> QED  BY <1>0, <1>2, <2>1, StaticRowType, OtherUidRow DEF StaticInsert
<1>3. ASSUME NEW id \in Assignable, NEW u \in RequestUids, V2Insert(id, u)
      PROVE  find_by_unique_id(table', uid) = find_by_unique_id(table, uid)
  <2>1. id \in Nat /\ u \in Nat
    BY DEF Assignable
  <2>2. u # uid
    BY <1>3 DEF V2Insert
  <2>3. NewRow(id, u, None) \in Row /\ NewRow(id, u, None).unique_id # uid
    BY <2>1, <2>2, V2RowType
  <2> QED  BY <1>0, <1>3, <2>3, OtherUidRow DEF V2Insert
<1>4. ASSUME NEW id \in Assignable, NEW hash \in Hashes, V1Insert(id, hash)
      PROVE  find_by_unique_id(table', uid) = find_by_unique_id(table, uid)
  <2>1. id \in Nat /\ hash \in Nat /\ hash # uid
    BY DEF Assignable, OwnUids, Padded
  <2> QED  BY <1>0, <1>4, <2>1, V1RowType, OtherUidRow DEF V1Insert
<1>5. ASSUME NEW id \in Nat, NEW reported \in AnswerUids, UidUpdate(id, reported)
      PROVE  find_by_unique_id(table', uid) = find_by_unique_id(table, uid)
  BY <1>5, V2UpdateStep
<1> QED  BY <1>1, <1>2, <1>3, <1>4, <1>5 DEF Effect, V1ReUse, V2ReUse

\* Steps without a v2 reply are steps of Reserve.
LEMMA V2ReserveStep ==
    ASSUME table \in Seq(Row), Effect,
           response' = None \/ response'.version # 2,
           \A uid \in RequestUids :
              find_by_unique_id(table', uid) = find_by_unique_id(table, uid)
    PROVE  V2Assignment!Reserve
<1>1. v2_mapping' = v2_mapping
  BY DEF v2_mapping
<1> QED  BY <1>1, NodeIdsGrow DEF V2Assignment!Reserve, v2_mapping

\* A v2 node with a unique ID of its own sees the same write-once assignment as
\* a v1 node, though v1 nodes, heartbeats and GetInfo answers work on the same
\* table: as long as lookups do not fail, it never gets the ID of another node
\* and never a second one.  PnpV2Moves is what happens to the other nodes.
THEOREM V2ImplementsAssignment ==
    ASSUME "find" \notin SqlFaults, OwnUids
    PROVE  Spec => V2Assignment!Spec
<1> USE AllocatorAssumption, NoneAssumption
<1>1. Init => V2Assignment!Init
  <2> SUFFICES ASSUME Init PROVE V2Assignment!Init
    OBVIOUS
  <2>1. ASSUME NEW uid \in RequestUids
        PROVE  find_by_unique_id(table, uid) = None
    <3>1. RowsWithUid(table, uid) = {}
      BY InitRows DEF RowsWithUid, OwnUids
    <3> QED  BY <3>1 DEF find_by_unique_id, FirstNodeId
  <2>2. response = None
    BY DEF Init
  <2> QED  BY <2>1, <2>2 DEF V2Assignment!Init
<1>2. TypeOK /\ V2RowsKept /\ [Next]_vars => [V2Assignment!Next]_(V2Assignment!vars)
  <2> SUFFICES ASSUME TypeOK, V2RowsKept, [Next]_vars
               PROVE  [V2Assignment!Next]_(V2Assignment!vars)
    OBVIOUS
  <2>0. Effect /\ table \in Seq(Row)
    BY Effects DEF TypeOK
  <2>1. CASE UNCHANGED <<table, response, local_node_id>>
    BY <2>1 DEF V2Assignment!vars
  <2>2. CASE table' = table /\ response' = None
    BY <2>0, <2>2, V2ReserveStep DEF V2Assignment!Next
  <2>3. ASSUME NEW id \in Nat, StaticInsert(id)
        PROVE  V2Assignment!Reserve
    <3>1. \A uid \in RequestUids : ZeroUid # uid
      BY DEF OwnUids
    <3>2. \A uid \in RequestUids :
             find_by_unique_id(table', uid) = find_by_unique_id(table, uid)
      BY <2>0, <2>3, <3>1, StaticRowType, OtherUidRow DEF StaticInsert
    <3> QED  BY <2>0, <2>3, <3>2, V2ReserveStep DEF StaticInsert
  <2>4. ASSUME NEW id \in Nat, NEW uid \in AnswerUids, UidUpdate(id, uid)
        PROVE  V2Assignment!Reserve
    BY <2>0, <2>4, V2UpdateStep, V2ReserveStep DEF UidUpdate
  <2>5. ASSUME NEW hash \in Hashes, V1ReUse(hash)
        PROVE  V2Assignment!Reserve
    BY <2>0, <2>5, V2ReserveStep DEF V1ReUse, Response
  <2>6. ASSUME NEW id \in Assignable, NEW hash \in Hashes, V1Insert(id, hash)
        PROVE  V2Assignment!Reserve
    <3>0. id \in Nat /\ hash \in Nat
      BY DEF Assignable
    <3>1. \A uid \in RequestUids : hash # uid
      BY DEF OwnUids, Padded
    <3>2. \A uid \in RequestUids :
             find_by_unique_id(table', uid) = find_by_unique_id(table, uid)
      BY <2>0, <2>6, <3>0, <3>1, V1RowType, OtherUidRow DEF V1Insert
    <3> QED  BY <2>0, <2>6, <3>2, V2ReserveStep DEF V1Insert, Response
  <2>7. ASSUME NEW uid \in RequestUids, V2ReUse(uid)
        PROVE  V2Assignment!Repeat(uid)
    <3>1. find_by_unique_id(table, uid) \in Nat
      BY <2>0, <2>7, FirstNodeIdProperties DEF V2ReUse, find_by_unique_id, RowsWithUid
    <3>2. /\ response' \in Responses
          /\ response'.version = 2
          /\ response'.key = uid
          /\ response'.node_id = find_by_unique_id(table, uid)
      BY <2>7, <3>1 DEF V2ReUse, Response, Responses
    <3>3. response' # None
      BY <3>2, NoReplyAssumption
    <3> QED  BY <2>7, <3>2, <3>3 DEF V2ReUse, V2Assignment!Repeat
  <2>8. ASSUME NEW id \in Assignable, NEW uid \in RequestUids, V2Insert(id, uid)
        PROVE  id \in 1..MaxNodeId /\ V2Assignment!Assign(uid, id)
    <3>0. id \in Nat /\ uid \in Nat /\ id \in 1..MaxNodeId
      BY DEF Assignable
    <3> DEFINE r == NewRow(id, uid, None)
    <3>1. r \in Row /\ r.node_id = id /\ r.unique_id = uid
      BY <3>0, V2RowType
    <3>2. table' = Append(table, r) /\ find_by_unique_id(table, uid) = None
      BY <2>8 DEF V2Insert
    <3> HIDE DEF r
    <3>3. find_by_unique_id(table', uid) = id
      BY <2>0, <3>0, <3>1, <3>2, FindByUidNew
    <3>4. \A u \in RequestUids \ {uid} :
             find_by_unique_id(table', u) = find_by_unique_id(table, u)
      BY <2>0, <3>1, <3>2, OtherUidRow
    <3>5. NodeIdsIn(table') = NodeIdsIn(table) \cup {id}
      BY <2>0, <3>1, <3>2, NodeIdsInAppend
    <3>6. id \notin NodeIdsIn(table)
      BY <2>8 DEF V2Insert, CanInsert
    <3>7. v2_mapping' = [v2_mapping EXCEPT ![uid] = id]
      BY <3>3, <3>4 DEF v2_mapping
    <3>8. response' \in Responses /\ response'.version = 2
          /\ response'.key = uid /\ response'.node_id = id
      BY <2>8, <3>0 DEF V2Insert, Response, Responses
    <3>9. response' # None
      BY <3>8, NoReplyAssumption
    <3> QED
      BY <3>0, <3>2, <3>5, <3>6, <3>7, <3>8, <3>9 DEF V2Assignment!Assign, v2_mapping
  <2> QED  BY <2>0, <2>1, <2>2, <2>3, <2>4, <2>5, <2>6, <2>7, <2>8
           DEF Effect, V2Assignment!Next
<1> QED
  BY <1>1, <1>2, TypeCorrect, V2RowsKeptAlways, PTL DEF Spec, V2Assignment!Spec
=============================================================================
