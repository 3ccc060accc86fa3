--------------------------- MODULE PnpHistory_proof ---------------------------
(***************************************************************************)
(* The long-range properties of the allocator, for any IDs, unique IDs and *)
(* failing statements: an ID is granted once, one that was heard never,    *)
(* and what a v2 node was granted is never overwritten.                    *)
(***************************************************************************)
EXTENDS PnpHistory, PnpAllocator_proof

\* What a call that grants an ID does: it inserts the row of the reply.
Grant(r) ==
    /\ CanInsert(table, r.node_id)
    /\ \/ \E id \in Assignable, uid \in RequestUids :
             V2Insert(id, uid) /\ r = Response(2, uid, id)
       \/ \E id \in Assignable, hash \in Hashes :
             V1Insert(id, hash) /\ r = Response(1, hash, id)
    /\ granted' = granted \cup {r}
    /\ UNCHANGED <<get_info_queue, in_flight, heard>>

\* The history only watches: its steps are those of the allocator.
LEMMA HistoryWatches == [HNext]_hvars => [Next]_vars
<1> SUFFICES ASSUME [HNext]_hvars PROVE [Next]_vars
  OBVIOUS
<1>1. CASE HAllocation
  BY <1>1 DEF HAllocation, Next
<1>2. CASE HHeartbeat
  BY <1>2 DEF HHeartbeat, Next
<1>3. CASE HOther
  BY <1>3 DEF HOther, Next
<1>4. CASE UNCHANGED hvars
  BY <1>4 DEF hvars
<1> QED  BY <1>1, <1>2, <1>3, <1>4 DEF HNext

LEMMA HistoryIsOfAllocator == HSpec => Spec
BY HistoryWatches, PTL DEF HSpec, HInit, Spec

\* An insert changes the table.
LEMMA InsertChanges ==
    ASSUME TypeOK,
           \/ \E id \in Assignable, uid \in RequestUids : V2Insert(id, uid)
           \/ \E id \in Assignable, hash \in Hashes : V1Insert(id, hash)
    PROVE  table' # table
<1> USE AllocatorAssumption DEF TypeOK
<1>1. ASSUME NEW r \in Row, table' = Append(table, r)
      PROVE  table' # table
  BY <1>1, AppendRow
<1>2. \A id \in Assignable, n \in Nat : NewRow(id, n, None) \in Row /\ NewRow(id, n, n) \in Row
  BY V1RowType, V2RowType DEF Assignable
<1>3. \A uid \in RequestUids, hash \in Hashes : uid \in Nat /\ hash \in Nat
  OBVIOUS
<1> QED  BY <1>1, <1>2, <1>3 DEF V2Insert, V1Insert

\* A reply counts as a grant if it is fresh.
LEMMA GrantedOf ==
    ASSUME NEW S, NEW r, NEW b \in BOOLEAN
    PROVE  LET Fresh_(T) == {s.reply : s \in {x \in T : x.fresh}}
           IN  Fresh_(S \cup {[reply |-> r, fresh |-> b]})
                 = Fresh_(S) \cup (IF b THEN {r} ELSE {})
<1> DEFINE e == [reply |-> r, fresh |-> b]
<1>1. e.reply = r /\ e.fresh = b
  OBVIOUS
<1> HIDE DEF e
<1>2. {x \in S \cup {e} : x.fresh} = {x \in S : x.fresh} \cup (IF b THEN {e} ELSE {})
  BY <1>1
<1>3. CASE b
  <2> DEFINE T == {x \in S : x.fresh}
  <2>1. {x \in S \cup {e} : x.fresh} = T \cup {e}
    BY <1>2, <1>3
  <2> HIDE DEF T
  <2>2. {s.reply : s \in T \cup {e}} = {s.reply : s \in T} \cup {r}
    BY <1>1
  <2> QED  BY <1>3, <2>1, <2>2 DEF T, e
<1>4. CASE ~b
  BY <1>2, <1>4 DEF e
<1> QED  BY <1>3, <1>4

\* What one step adds to the history of grants.
LEMMA GrantSteps ==
    ASSUME TypeOK, [HNext]_hvars
    PROVE  granted' = granted \/ \E r \in Responses : Grant(r)
<1> USE AllocatorAssumption
<1>1. CASE UNCHANGED served
  BY <1>1 DEF granted
<1>0. HAllocation /\ response' # None =>
         granted' = granted \cup (IF table' # table THEN {response'} ELSE {})
  <2> DEFINE b == table' # table
  <2> SUFFICES ASSUME HAllocation, response' # None
               PROVE  granted' = granted \cup (IF b THEN {response'} ELSE {})
    OBVIOUS
  <2>1. b \in BOOLEAN
    OBVIOUS
  <2>2. served' = served \cup {[reply |-> response', fresh |-> b]}
    BY DEF HAllocation, Serve
  <2> HIDE DEF b
  <2>3. {s.reply : s \in {x \in served' : x.fresh}}
          = {s.reply : s \in {x \in served : x.fresh}} \cup (IF b THEN {response'} ELSE {})
    BY <2>1, <2>2, GrantedOf
  <2> QED  BY <2>3 DEF granted
<1>2. CASE HAllocation /\ table' = table
  <2>1. CASE response' = None
    BY <1>1, <1>2, <2>1 DEF HAllocation, Serve
  <2> QED  BY <1>0, <1>2, <2>1
<1>3. CASE HAllocation /\ table' # table
  <2>1. UNCHANGED <<get_info_queue, in_flight, heard>>
    BY <1>3 DEF HAllocation, IgnoreAllocation, OnAllocationV2, OnAllocationV1
  <2>2. response' # None => granted' = granted \cup {response'}
    BY <1>0, <1>3
  <2>3. ASSUME NEW id \in Assignable, NEW uid \in RequestUids, V2Insert(id, uid)
        PROVE  \E r \in Responses : Grant(r)
    <3>1. /\ response' = Response(2, uid, id)
          /\ response' \in Responses /\ response'.node_id = id
          /\ CanInsert(table, id)
      BY <2>3 DEF V2Insert, Response, Responses, Assignable
    <3> QED  BY <2>1, <2>2, <2>3, <3>1, NoReplyAssumption DEF Grant
  <2>4. ASSUME NEW id \in Assignable, NEW hash \in Hashes, V1Insert(id, hash)
        PROVE  \E r \in Responses : Grant(r)
    <3>1. /\ response' = Response(1, hash, id)
          /\ response' \in Responses /\ response'.node_id = id
          /\ CanInsert(table, id)
      BY <2>4 DEF V1Insert, Response, Responses, Assignable
    <3> QED  BY <2>1, <2>2, <2>4, <3>1, NoReplyAssumption DEF Grant
  <2>5. ASSUME NEW failing \in SUBSET SqlFaults, NEW unreadable \in Unreadable,
               NEW uid \in RequestUids, OnAllocationV2(uid, unreadable, failing)
        PROVE  \E id \in Assignable : V2Insert(id, uid)
    BY <1>3, <2>5, V2Cases DEF V2ReUse
  <2>6. ASSUME NEW failing \in SUBSET SqlFaults, NEW unreadable \in Unreadable,
               NEW hash \in Hashes, OnAllocationV1(hash, unreadable, failing)
        PROVE  \E id \in Assignable : V1Insert(id, hash)
    BY <1>3, <2>6, V1Cases DEF V1ReUse
  <2> QED  BY <1>3, <2>3, <2>4, <2>5, <2>6 DEF HAllocation, IgnoreAllocation
<1> QED  BY <1>1, <1>2, <1>3 DEF HNext, HHeartbeat, HOther, hvars

-----------------------------------------------------------------------------
\* Granted and heard IDs are in the table, and a v2 grant is a row that needs no
\* GetInfo and that none is queued for.
GrantsRecorded == \A r \in granted : r.node_id \in NodeIdsIn(table)

HeardRecorded == heard \subseteq NodeIdsIn(table)

GrantsResolved ==
    \A r \in granted :
        r.version = 2 /\ r.key # ZeroUid =>
            /\ r.node_id \notin Queried
            /\ \A i \in RowsWithId(table, r.node_id) :
                  table[i].unique_id = r.key /\ table[i].pseudo_unique_id = None

HistoryInv ==
    /\ TypeOK
    /\ GrantsRecorded
    /\ HeardRecorded
    /\ QueriesRecorded
    /\ GrantsResolved
    /\ GrantedOnce

\* Nothing but the answer to a request for its ID changes the rows of an ID that
\* is in the table.
LEMMA RowsOfIdKept ==
    ASSUME TypeOK, [Next]_vars, NEW id \in NodeIdsIn(table), id \notin Queried
    PROVE  /\ RowsWithId(table', id) = RowsWithId(table, id)
           /\ \A i \in RowsWithId(table, id) : table'[i] = table[i]
<1> USE AllocatorAssumption DEF TypeOK
<1>1. CASE table' = table
  BY <1>1
<1>2. ASSUME NEW r \in Row, table' = Append(table, r), CanInsert(table, r.node_id)
      PROVE  /\ RowsWithId(table', id) = RowsWithId(table, id)
             /\ \A i \in RowsWithId(table, id) : table'[i] = table[i]
  <2>1. r.node_id # id
    BY <1>2 DEF CanInsert
  <2> QED  BY <1>2, <2>1, AppendRow DEF RowsWithId
<1>3. ASSUME NEW failing \in SUBSET SqlFaults, NEW uid \in AnswerUids,
             GetInfoAnswered(uid, failing)
      PROVE  /\ RowsWithId(table', id) = RowsWithId(table, id)
             /\ \A i \in RowsWithId(table, id) : table'[i] = table[i]
  <2>1. CASE table' = update_unique_id(table, in_flight, uid)
    <3>1. in_flight # id
      <4>1. id \in Nat
        BY TableShape DEF NodeIdsIn
      <4> QED  BY <4>1 DEF Queried
    <3>2. in_flight \in Nat /\ uid \in Nat
      BY <1>3 DEF GetInfoAnswered
    <3>3. RowsWithId(table', id) = RowsWithId(table, id)
      BY <2>1, <3>2, UpdateKeeps DEF RowsWithId
    <3>4. \A i \in RowsWithId(table, id) : table'[i] = table[i]
      BY <2>1, <3>1 DEF update_unique_id, RowsWithId
    <3> QED  BY <3>3, <3>4
  <2> QED  BY <1>1, <1>3, <2>1 DEF GetInfoAnswered
<1>4. ASSUME NEW n \in Nat, StaticInsert(n)
      PROVE  /\ RowsWithId(table', id) = RowsWithId(table, id)
             /\ \A i \in RowsWithId(table, id) : table'[i] = table[i]
  BY <1>2, <1>4, StaticRowType DEF StaticInsert
<1>5. ASSUME NEW n \in Assignable, NEW uid \in RequestUids, V2Insert(n, uid)
      PROVE  /\ RowsWithId(table', id) = RowsWithId(table, id)
             /\ \A i \in RowsWithId(table, id) : table'[i] = table[i]
  <2>1. n \in Nat /\ uid \in Nat
    BY DEF Assignable
  <2> QED  BY <1>2, <1>5, <2>1, V2RowType DEF V2Insert
<1>6. ASSUME NEW n \in Assignable, NEW hash \in Hashes, V1Insert(n, hash)
      PROVE  /\ RowsWithId(table', id) = RowsWithId(table, id)
             /\ \A i \in RowsWithId(table, id) : table'[i] = table[i]
  <2>1. n \in Nat /\ hash \in Nat
    BY DEF Assignable
  <2> QED  BY <1>2, <1>6, <2>1, V1RowType DEF V1Insert
<1>7. CASE \E failing \in SUBSET SqlFaults, uid \in AnswerUids :
              GetInfoAnswered(uid, failing)
  BY <1>3, <1>7
<1>8. CASE \E failing \in SUBSET SqlFaults, n \in ObservedIds : OnHeartbeat(n, failing)
  <2>1. PICK failing \in SUBSET SqlFaults, n \in ObservedIds :
           table' = Recorded(table, n, failing) /\ response' = None
    BY <1>8 DEF OnHeartbeat
  <2>2. n \in Nat
    OBVIOUS
  <2> QED  BY <1>1, <1>4, <2>1, <2>2, RecordedCases DEF StaticInsert
<1>9. CASE \E failing \in SUBSET SqlFaults, n \in LocalIds : Restart(n, failing)
  <2>1. PICK failing \in SUBSET SqlFaults, n \in LocalIds :
           table' = Recorded(table, n, failing) /\ response' = None
    BY <1>9 DEF Restart, new
  <2>2. n \in Nat
    OBVIOUS
  <2> QED  BY <1>1, <1>4, <2>1, <2>2, RecordedCases DEF StaticInsert
<1>10. ASSUME NEW failing \in SUBSET SqlFaults, NEW unreadable \in Unreadable,
              NEW uid \in RequestUids, OnAllocationV2(uid, unreadable, failing)
       PROVE  /\ RowsWithId(table', id) = RowsWithId(table, id)
              /\ \A i \in RowsWithId(table, id) : table'[i] = table[i]
  BY <1>1, <1>5, <1>10, V2Cases DEF V2ReUse
<1>11. ASSUME NEW failing \in SUBSET SqlFaults, NEW unreadable \in Unreadable,
              NEW hash \in Hashes, OnAllocationV1(hash, unreadable, failing)
       PROVE  /\ RowsWithId(table', id) = RowsWithId(table, id)
              /\ \A i \in RowsWithId(table, id) : table'[i] = table[i]
  BY <1>1, <1>6, <1>11, V1Cases DEF V1ReUse
<1> QED
  BY <1>1, <1>7, <1>8, <1>9, <1>10, <1>11
  DEF Next, IgnoreAllocation, PopGetInfoRequest, GetInfoNotSent, GetInfoFailed,
      CooldownElapses, vars

-----------------------------------------------------------------------------
LEMMA HistoryInvInitially == HInit => HistoryInv
<1> SUFFICES ASSUME HInit PROVE HistoryInv
  OBVIOUS
<1>1. TypeOK
  BY InitTypeOK DEF HInit
<1>2. granted = {} /\ heard = {}
  BY DEF HInit, granted
<1>3. Queried = {}
  <2>1. get_info_queue = <<>> /\ in_flight = None
    BY DEF HInit, Init
  <2> QED  BY <2>1, NoneAssumption DEF Queried
<1> QED
  BY <1>1, <1>2, <1>3
  DEF HistoryInv, GrantsRecorded, HeardRecorded, QueriesRecorded, GrantsResolved, GrantedOnce

\* The row of a grant is the only one of its ID.
LEMMA GrantedRow ==
    ASSUME HistoryInv, NEW r \in Responses, Grant(r)
    PROVE  /\ r.node_id \in NodeIdsIn(table')
           /\ r.node_id \notin NodeIdsIn(table)
           /\ r.version = 2 =>
                 \A i \in RowsWithId(table', r.node_id) :
                    table'[i].unique_id = r.key /\ table'[i].pseudo_unique_id = None
<1> USE AllocatorAssumption
<1>0. table \in Seq(Row)
  BY DEF HistoryInv, TypeOK
<1>1. r.node_id \notin NodeIdsIn(table)
  BY DEF Grant, CanInsert
<1>2. ASSUME NEW row \in Row, table' = Append(table, row), row.node_id = r.node_id
      PROVE  /\ r.node_id \in NodeIdsIn(table')
             /\ RowsWithId(table', r.node_id) = {Len(table) + 1}
             /\ table'[Len(table) + 1] = row
  <2>1. RowsWithId(table, r.node_id) = {}
    BY <1>1 DEF RowsWithId, NodeIdsIn
  <2> QED  BY <1>0, <1>2, <2>1, AppendRow, NodeIdsInAppend DEF RowsWithId
<1>3. ASSUME NEW id \in Assignable, NEW uid \in RequestUids, V2Insert(id, uid),
             r = Response(2, uid, id)
      PROVE  /\ r.node_id \in NodeIdsIn(table')
             /\ \A i \in RowsWithId(table', r.node_id) :
                   table'[i].unique_id = r.key /\ table'[i].pseudo_unique_id = None
  <2>1. id \in Nat /\ uid \in Nat /\ r.node_id = id /\ r.key = uid
    BY <1>3 DEF Assignable, Response
  <2> QED  BY <1>2, <1>3, <2>1, V2RowType DEF V2Insert
<1>4. ASSUME NEW id \in Assignable, NEW hash \in Hashes, V1Insert(id, hash),
             r = Response(1, hash, id)
      PROVE  r.node_id \in NodeIdsIn(table') /\ r.version # 2
  <2>1. id \in Nat /\ hash \in Nat /\ r.node_id = id /\ r.version = 1
    BY <1>4 DEF Assignable, Response
  <2> DEFINE row == NewRow(id, hash, hash)
  <2>2. row \in Row /\ row.node_id = id
    BY <2>1, V1RowType
  <2>3. table' = Append(table, row)
    BY <1>4 DEF V1Insert
  <2> HIDE DEF row
  <2> QED  BY <1>2, <2>1, <2>2, <2>3
<1> QED  BY <1>1, <1>3, <1>4 DEF Grant

LEMMA HistoryInvPreserved == HistoryInv /\ [HNext]_hvars => HistoryInv'
<1> SUFFICES ASSUME HistoryInv, [HNext]_hvars PROVE HistoryInv'
  OBVIOUS
<1> USE AllocatorAssumption
<1>0. /\ TypeOK /\ table \in Seq(Row) /\ [Next]_vars
      /\ NodeIdsIn(table) \subseteq NodeIdsIn(table')
  BY HistoryWatches, Effects, NodeIdsGrow DEF HistoryInv, TypeOK
<1>1. TypeOK'
  BY <1>0, NextTypeOK
<1>2. QueriesRecorded'
  BY <1>0, QueriedSteps DEF HistoryInv, QueriesRecorded
<1>3. HeardRecorded'
  <2>1. ASSUME NEW id \in ObservedIds, NEW failing \in SUBSET SqlFaults,
               OnHeartbeat(id, failing), "record" \notin failing
        PROVE  id \in NodeIdsIn(table')
    <3>1. id \in Nat /\ table' = record_static_node(table, id)
      BY <2>1 DEF OnHeartbeat, Recorded
    <3> QED
      BY <1>0, <3>1, StaticRowType, NodeIdsInAppend
      DEF record_static_node, CanInsert, StaticRow
  <2> QED
    BY <1>0, <2>1
    DEF HistoryInv, HeardRecorded, HNext, HAllocation, HHeartbeat, HOther, hvars
<1>4. GrantsRecorded' /\ GrantedOnce'
  <2>1. CASE granted' = granted
    BY <1>0, <2>1 DEF HistoryInv, GrantsRecorded, GrantedOnce
  <2>2. ASSUME NEW r \in Responses, Grant(r)
        PROVE  GrantsRecorded' /\ GrantedOnce'
    <3>1. granted' = granted \cup {r}
      BY <2>2 DEF Grant
    <3>2. r.node_id \in NodeIdsIn(table') /\ r.node_id \notin NodeIdsIn(table)
      BY <2>2, GrantedRow
    <3> QED  BY <1>0, <3>1, <3>2 DEF HistoryInv, GrantsRecorded, GrantedOnce
  <2> QED  BY <1>0, <2>1, <2>2, GrantSteps
<1>5. GrantsResolved'
  <2>1. ASSUME NEW r \in granted, r.version = 2, r.key # ZeroUid
        PROVE  /\ r.node_id \notin Queried'
               /\ \A i \in RowsWithId(table', r.node_id) :
                     table'[i].unique_id = r.key /\ table'[i].pseudo_unique_id = None
    <3>1. /\ r.node_id \in NodeIdsIn(table) /\ r.node_id \notin Queried
          /\ \A i \in RowsWithId(table, r.node_id) :
                table[i].unique_id = r.key /\ table[i].pseudo_unique_id = None
      BY <2>1 DEF HistoryInv, GrantsRecorded, GrantsResolved
    <3>2. \A i \in RowsWithId(table', r.node_id) :
             table'[i].unique_id = r.key /\ table'[i].pseudo_unique_id = None
      BY <1>0, <3>1, RowsOfIdKept
    <3>3. ~Placeholder(r.node_id)'
      BY <2>1, <3>2 DEF Placeholder, needs_get_info
    <3>4. r.node_id \notin Queried'
      BY <1>0, <3>1, <3>3, QueriedSteps
    <3> QED  BY <3>2, <3>4
  <2>2. CASE granted' = granted
    BY <2>1, <2>2 DEF GrantsResolved
  <2>3. ASSUME NEW r \in Responses, Grant(r)
        PROVE  GrantsResolved'
    <3>1. granted' = granted \cup {r} /\ Queried' = Queried
      BY <2>3 DEF Grant, Queried
    <3>2. r.node_id \notin Queried'
      BY <2>3, <3>1, GrantedRow DEF HistoryInv, QueriesRecorded
    <3> QED  BY <2>1, <2>3, <3>1, <3>2, GrantedRow DEF GrantsResolved
  <2> QED  BY <1>0, <2>2, <2>3, GrantSteps
<1> QED  BY <1>1, <1>2, <1>3, <1>4, <1>5 DEF HistoryInv

LEMMA HistoryInvAlways == HSpec => []HistoryInv
<1> QED
  BY HistoryInvInitially, HistoryInvPreserved, PTL DEF HSpec

\* An ID is granted at most once in the life of the database, through restarts,
\* changes of the local ID and failing statements.
THEOREM IdsAreGrantedOnce == HSpec => []GrantedOnce
<1>1. HistoryInv => GrantedOnce
  BY DEF HistoryInv
<1> QED
  BY <1>1, HistoryInvAlways, PTL

\* A new allocation never picks an ID that was ever heard and recorded.
THEOREM HeardIdsAreNotGranted == HSpec => HeardNeverGranted
<1>1. HistoryInv /\ [HNext]_hvars =>
        [\A r \in granted' \ granted : r.node_id \notin heard]_hvars
  <2> SUFFICES ASSUME HistoryInv, [HNext]_hvars, NEW r \in granted' \ granted
               PROVE  r.node_id \notin heard
    OBVIOUS
  <2>1. Grant(r)
    BY GrantSteps DEF HistoryInv, Grant
  <2> QED  BY <2>1 DEF HistoryInv, HeardRecorded, Grant, CanInsert
<1> QED
  BY <1>1, HistoryInvAlways, PTL DEF HSpec, HeardNeverGranted

\* A row allocated to a v2 node keeps that node's unique ID: stale GetInfo
\* requests, which overwrite unique IDs, are never for such a row.
THEOREM V2GrantsAreKept == HSpec => []V2GrantKept
<1>1. HistoryInv => V2GrantKept
  BY DEF HistoryInv, GrantsRecorded, GrantsResolved, V2GrantKept, NodeIdsIn, RowsWithId
<1> QED
  BY <1>1, HistoryInvAlways, PTL

-----------------------------------------------------------------------------
\* Every v1 answer ever sent is what the table would answer now.
AnswersStand ==
    \A r \in {x.reply : x \in served} :
        r.version = 1 =>
            /\ r.key \in Hashes /\ r.node_id \in Nat
            /\ find_by_hash(table, r.key) = r.node_id

LEMMA AnswersStandPreserved ==
    ASSUME "find" \notin SqlFaults, TypeOK, AnswersStand, [HNext]_hvars
    PROVE  AnswersStand'
<1> USE AllocatorAssumption, NoneAssumption
<1>0. /\ table \in Seq(Row) /\ Effect
      /\ \A h \in Hashes : h \in Nat
  BY HistoryWatches, Effects DEF TypeOK
<1>1. ASSUME NEW r \in {x.reply : x \in served}, r.version = 1
      PROVE  /\ r.key \in Hashes /\ r.node_id \in Nat
             /\ find_by_hash(table', r.key) = r.node_id
  BY <1>0, <1>1, MappingSurvives DEF AnswersStand
<1>2. CASE UNCHANGED served
  BY <1>1, <1>2 DEF AnswersStand
<1>3. CASE HAllocation
  <2>1. \A r \in {x.reply : x \in served'} :
           r \in {x.reply : x \in served} \/ (r = response' /\ response' # None)
    BY <1>3 DEF HAllocation, Serve
  <2>2. ASSUME response' # None, response'.version = 1
        PROVE  /\ response'.key \in Hashes /\ response'.node_id \in Nat
               /\ find_by_hash(table', response'.key) = response'.node_id
    <3>1. ASSUME NEW hash \in Hashes, V1ReUse(hash)
          PROVE  /\ response'.key = hash /\ response'.node_id \in Nat
                 /\ find_by_hash(table', hash) = response'.node_id
      <4>1. find_by_hash(table, hash) \in Nat
        BY <1>0, <3>1, FirstNodeIdProperties DEF V1ReUse, find_by_hash, RowsWithHash
      <4> QED  BY <3>1, <4>1 DEF V1ReUse, Response
    <3>2. ASSUME NEW hash \in Hashes, NEW id \in Assignable, V1Insert(id, hash)
          PROVE  /\ response'.key = hash /\ response'.node_id \in Nat
                 /\ find_by_hash(table', hash) = response'.node_id
      <4> DEFINE row == NewRow(id, hash, hash)
      <4>1. id \in Nat /\ hash \in Nat
        BY <1>0 DEF Assignable
      <4>2. row \in Row /\ row.node_id = id /\ row.pseudo_unique_id = hash
        BY <4>1, V1RowType
      <4>3. /\ find_by_hash(table, hash) = None /\ table' = Append(table, row)
            /\ response'.key = hash /\ response'.node_id = id
        BY <3>2 DEF V1Insert, Response
      <4> HIDE DEF row
      <4> QED  BY <1>0, <4>1, <4>2, <4>3, FindByHashNew
    <3>3. ASSUME NEW failing \in SUBSET SqlFaults, NEW unreadable \in Unreadable,
                 NEW uid \in RequestUids, OnAllocationV2(uid, unreadable, failing)
          PROVE  FALSE
      BY <2>2, <3>3, V2Cases DEF V2ReUse, V2Insert, Response
    <3>4. PICK hash \in Hashes : V1ReUse(hash) \/ \E id \in Assignable : V1Insert(id, hash)
      BY <1>3, <2>2, <3>3, V1Cases DEF HAllocation, IgnoreAllocation
    <3> QED  BY <3>1, <3>2, <3>4
  <2> QED  BY <1>1, <2>1, <2>2 DEF AnswersStand
<1> QED  BY <1>2, <1>3 DEF HNext, HHeartbeat, HOther, hvars

\* As long as lookups do not fail, a v1 node gets the same ID for the life of the
\* database.
THEOREM V1AnswersAreTheSame ==
    ASSUME "find" \notin SqlFaults
    PROVE  HSpec => []V1SameAnswer
<1>1. HInit => AnswersStand
  BY DEF HInit, AnswersStand
<1>2. HistoryInv /\ AnswersStand /\ [HNext]_hvars => AnswersStand'
  BY AnswersStandPreserved DEF HistoryInv
<1>3. AnswersStand => V1SameAnswer
  BY DEF AnswersStand, V1SameAnswer, SameAnswer
<1> QED
  BY <1>1, <1>2, <1>3, HistoryInvAlways, PTL DEF HSpec

-----------------------------------------------------------------------------
\* The same of the v2 answers, for nodes with unique IDs of their own.
V2AnswersStand ==
    \A r \in {x.reply : x \in served} :
        r.version = 2 =>
            /\ r.key \in RequestUids /\ r.node_id \in Nat
            /\ find_by_unique_id(table, r.key) = r.node_id

LEMMA V2AnswersStandPreserved ==
    ASSUME "find" \notin SqlFaults, OwnUids, TypeOK, V2RowsKept, V2AnswersStand,
           [HNext]_hvars
    PROVE  V2AnswersStand'
<1> USE AllocatorAssumption, NoneAssumption
<1>0. /\ table \in Seq(Row) /\ Effect
      /\ \A u \in RequestUids : u \in Nat
  BY HistoryWatches, Effects DEF TypeOK
<1>1. ASSUME NEW r \in {x.reply : x \in served}, r.version = 2
      PROVE  /\ r.key \in RequestUids /\ r.node_id \in Nat
             /\ find_by_unique_id(table', r.key) = r.node_id
  BY <1>0, <1>1, V2MappingSurvives DEF V2AnswersStand
<1>2. CASE UNCHANGED served
  BY <1>1, <1>2 DEF V2AnswersStand
<1>3. CASE HAllocation
  <2>1. \A r \in {x.reply : x \in served'} :
           r \in {x.reply : x \in served} \/ (r = response' /\ response' # None)
    BY <1>3 DEF HAllocation, Serve
  <2>2. ASSUME response' # None, response'.version = 2
        PROVE  /\ response'.key \in RequestUids /\ response'.node_id \in Nat
               /\ find_by_unique_id(table', response'.key) = response'.node_id
    <3>1. ASSUME NEW uid \in RequestUids, V2ReUse(uid)
          PROVE  /\ response'.key = uid /\ response'.node_id \in Nat
                 /\ find_by_unique_id(table', uid) = response'.node_id
      <4>1. find_by_unique_id(table, uid) \in Nat
        BY <1>0, <3>1, FirstNodeIdProperties DEF V2ReUse, find_by_unique_id, RowsWithUid
      <4> QED  BY <3>1, <4>1 DEF V2ReUse, Response
    <3>2. ASSUME NEW uid \in RequestUids, NEW id \in Assignable, V2Insert(id, uid)
          PROVE  /\ response'.key = uid /\ response'.node_id \in Nat
                 /\ find_by_unique_id(table', uid) = response'.node_id
      <4> DEFINE row == NewRow(id, uid, None)
      <4>1. id \in Nat /\ uid \in Nat
        BY <1>0 DEF Assignable
      <4>2. row \in Row /\ row.node_id = id /\ row.unique_id = uid
        BY <4>1, V2RowType
      <4>3. /\ find_by_unique_id(table, uid) = None /\ table' = Append(table, row)
            /\ response'.key = uid /\ response'.node_id = id
        BY <3>2 DEF V2Insert, Response
      <4> HIDE DEF row
      <4> QED  BY <1>0, <4>1, <4>2, <4>3, FindByUidNew
    <3>3. ASSUME NEW failing \in SUBSET SqlFaults, NEW unreadable \in Unreadable,
                 NEW hash \in Hashes, OnAllocationV1(hash, unreadable, failing)
          PROVE  FALSE
      BY <2>2, <3>3, V1Cases DEF V1ReUse, V1Insert, Response
    <3>4. PICK uid \in RequestUids : V2ReUse(uid) \/ \E id \in Assignable : V2Insert(id, uid)
      BY <1>3, <2>2, <3>3, V2Cases DEF HAllocation, IgnoreAllocation
    <3> QED  BY <3>1, <3>2, <3>4
  <2> QED  BY <1>1, <2>1, <2>2 DEF V2AnswersStand
<1> QED  BY <1>2, <1>3 DEF HNext, HHeartbeat, HOther, hvars

\* As long as lookups do not fail, a v2 node with a unique ID of its own gets the
\* same ID for the life of the database, as README.md:374 promises it; PnpV2Moves
\* is what happens to a node that GetInfo answers are about.
THEOREM V2AnswersAreTheSame ==
    ASSUME "find" \notin SqlFaults, OwnUids
    PROVE  HSpec => []V2SameAnswer
<1>1. HInit => V2AnswersStand
  BY DEF HInit, V2AnswersStand
<1>2. TypeOK /\ V2RowsKept /\ V2AnswersStand /\ [HNext]_hvars => V2AnswersStand'
  BY V2AnswersStandPreserved
<1>3. V2AnswersStand => V2SameAnswer
  BY DEF V2AnswersStand, V2SameAnswer, SameAnswer
<1>4. Spec => []V2RowsKept
  BY V2RowsKeptAlways
<1> QED
  BY <1>1, <1>2, <1>3, <1>4, HistoryIsOfAllocator, TypeCorrect, PTL DEF HSpec

-----------------------------------------------------------------------------
(***************************************************************************)
(* What an allocator is for: no two nodes are ever told the same ID, by    *)
(* any reply in the life of the database.  Unlike the promise that a node  *)
(* keeps its ID it needs no statement to succeed, not even the lookups.    *)
(***************************************************************************)
replies == {x.reply : x \in served}

\* The row of a v1 reply stays that of its hash ...
V1RepliesStand ==
    \A r \in replies :
        r.version = 1 =>
            /\ r.key \in Nat
            /\ \E i \in DOMAIN table :
                  table[i].node_id = r.node_id /\ table[i].pseudo_unique_id = r.key

\* ... and that of a v2 reply stays that of its unique ID.
V2RepliesStand ==
    \A r \in replies :
        r.version = 2 =>
            /\ r.key \in RequestUids
            /\ \E i \in DOMAIN table :
                  table[i].node_id = r.node_id /\ table[i].unique_id = r.key

V1NotShared ==
    \A r, s \in replies :
        r.version = 1 /\ s.version = 1 /\ r.node_id = s.node_id => r.key = s.key

NotShared ==
    \A r, s \in replies :
        r.node_id = s.node_id => r.version = s.version /\ r.key = s.key

\* What one step adds to the replies.
LEMMA ReplySteps ==
    ASSUME TypeOK, [HNext]_hvars, NEW r \in replies', r \notin replies
    PROVE  /\ r = response' /\ response' # None
           /\ r.version = 2 => r.key \in RequestUids
<1> USE NoneAssumption
<1>1. HAllocation
  BY DEF replies, HNext, HHeartbeat, HOther, hvars
<1>2. r = response' /\ response' # None
  BY <1>1 DEF HAllocation, Serve, replies
<1>3. ASSUME NEW failing \in SUBSET SqlFaults, NEW unreadable \in Unreadable,
             NEW uid \in RequestUids, OnAllocationV2(uid, unreadable, failing)
      PROVE  response'.key = uid
  BY <1>2, <1>3, V2Cases DEF V2ReUse, V2Insert, Response
<1>4. ASSUME NEW failing \in SUBSET SqlFaults, NEW unreadable \in Unreadable,
             NEW hash \in Hashes, OnAllocationV1(hash, unreadable, failing)
      PROVE  response'.version = 1
  BY <1>2, <1>4, V1Cases DEF V1ReUse, V1Insert, Response
<1> QED  BY <1>1, <1>2, <1>3, <1>4 DEF HAllocation, IgnoreAllocation

LEMMA V1RepliesStandPreserved ==
    ASSUME TypeOK, TypeOK', ReplyIsRecorded', V1RepliesStand, [HNext]_hvars
    PROVE  V1RepliesStand'
<1>0. table \in Seq(Row) /\ Effect
  BY HistoryWatches, Effects DEF TypeOK
<1> SUFFICES ASSUME NEW r \in replies', r.version = 1
             PROVE  /\ r.key \in Nat
                    /\ \E i \in DOMAIN table' :
                          /\ table'[i].node_id = r.node_id
                          /\ table'[i].pseudo_unique_id = r.key
  BY DEF V1RepliesStand
<1>1. CASE r \in replies
  BY <1>0, <1>1, RowsStay DEF V1RepliesStand
<1>2. CASE r \notin replies
  <2>1. r = response' /\ response' # None
    BY <1>2, ReplySteps
  <2>2. r.key \in Nat
    BY <2>1 DEF TypeOK, Responses
  <2> QED  BY <2>1, <2>2 DEF ReplyIsRecorded, RowsWithId
<1> QED  BY <1>1, <1>2

LEMMA V2RepliesStandPreserved ==
    ASSUME OwnUids, TypeOK, ReplyIsRecorded', V2RowsKept, V2RepliesStand,
           [HNext]_hvars, TypeOK'
    PROVE  V2RepliesStand'
<1>0. table \in Seq(Row) /\ Effect
  BY HistoryWatches, Effects DEF TypeOK
<1> SUFFICES ASSUME NEW r \in replies', r.version = 2
             PROVE  /\ r.key \in RequestUids
                    /\ \E i \in DOMAIN table' :
                          /\ table'[i].node_id = r.node_id
                          /\ table'[i].unique_id = r.key
  BY DEF V2RepliesStand
<1>1. CASE r \in replies
  <2>1. PICK i \in DOMAIN table :
           table[i].node_id = r.node_id /\ table[i].unique_id = r.key
    BY <1>1 DEF V2RepliesStand
  <2>2. r.key \in RequestUids
    BY <1>1 DEF V2RepliesStand
  <2>3. i \in DOMAIN table' /\ table'[i] = table[i]
    BY <1>0, <2>1, <2>2, V2RowStays
  <2> QED  BY <2>1, <2>2, <2>3
<1>2. CASE r \notin replies
  <2>1. r = response' /\ response' # None /\ r.key \in RequestUids
    BY <1>2, ReplySteps
  <2> QED  BY <2>1 DEF ReplyIsRecorded, RowsWithId
<1> QED  BY <1>1, <1>2

LEMMA V1RepliesStandAlways == HSpec => []V1RepliesStand
<1>1. HInit => V1RepliesStand
  BY DEF HInit, V1RepliesStand, replies
<1> QED
  BY <1>1, V1RepliesStandPreserved, HistoryIsOfAllocator, TypeCorrect,
     RepliesAreRecorded, PTL DEF HSpec

\* Two v1 nodes are never told the same ID, through restarts, changes of the local
\* ID and whichever statements fail: also when a failed lookup gives a node a
\* second ID, that one is nobody else's.
THEOREM V1IdsAreNotShared == HSpec => []V1NotShared
<1>1. OneRowPerId /\ V1RepliesStand => V1NotShared
  BY DEF OneRowPerId, V1RepliesStand, V1NotShared
<1> QED
  BY <1>1, V1RepliesStandAlways, HistoryIsOfAllocator, IdsAreUnique, PTL

\* The same of all nodes, when those of v2 have unique IDs of their own.
THEOREM IdsAreNotShared ==
    ASSUME OwnUids
    PROVE  HSpec => []NotShared
<1>1. HInit => V2RepliesStand /\ replies \subseteq Responses
  BY DEF HInit, V2RepliesStand, replies
<1>2. TypeOK /\ TypeOK' /\ ReplyIsRecorded' /\ V2RowsKept /\ V2RepliesStand /\ [HNext]_hvars
        => V2RepliesStand'
  BY V2RepliesStandPreserved
<1>3. replies \subseteq Responses /\ TypeOK /\ TypeOK' /\ [HNext]_hvars
        => (replies \subseteq Responses)'
  BY ReplySteps DEF TypeOK
<1>4. OneRowPerId /\ V2RowsKept /\ replies \subseteq Responses /\ V1RepliesStand
        /\ V2RepliesStand => NotShared
  <2> SUFFICES ASSUME OneRowPerId, V2RowsKept, replies \subseteq Responses,
                      V1RepliesStand, V2RepliesStand
               PROVE  NotShared
    OBVIOUS
  <2> SUFFICES ASSUME NEW r \in replies, NEW s \in replies, r.node_id = s.node_id
               PROVE  r.version = s.version /\ r.key = s.key
    BY DEF NotShared
  <2>1. r.version \in {1, 2} /\ s.version \in {1, 2}
    BY DEF Responses
  <2>2. PICK i \in DOMAIN table :
           /\ table[i].node_id = r.node_id
           /\ IF r.version = 1
              THEN r.key \in Nat /\ table[i].pseudo_unique_id = r.key
              ELSE r.key \in RequestUids /\ table[i].unique_id = r.key
    BY <2>1 DEF V1RepliesStand, V2RepliesStand
  <2>3. PICK j \in DOMAIN table :
           /\ table[j].node_id = s.node_id
           /\ IF s.version = 1
              THEN s.key \in Nat /\ table[j].pseudo_unique_id = s.key
              ELSE s.key \in RequestUids /\ table[j].unique_id = s.key
    BY <2>1 DEF V1RepliesStand, V2RepliesStand
  <2>4. i = j
    BY <2>2, <2>3 DEF OneRowPerId
  <2> QED  BY <2>1, <2>2, <2>3, <2>4, NoneAssumption DEF V2RowsKept
<1>5. Spec => []V2RowsKept
  BY V2RowsKeptAlways
<1> QED
  BY <1>1, <1>2, <1>3, <1>4, <1>5, V1RepliesStandAlways, HistoryIsOfAllocator,
     TypeCorrect, RepliesAreRecorded, IdsAreUnique, PTL DEF HSpec
=============================================================================
