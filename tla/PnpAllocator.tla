---------------------------- MODULE PnpAllocator ----------------------------
(***************************************************************************)
(* The plug-and-play node-ID allocator of one transport                    *)
(* (src/src/pnp/allocator.rs) over its allocation table.  The table is on  *)
(* disk and survives a restart; the GetInfo queue, the cooldown map and    *)
(* the GetInfo in flight are memory of one process.                        *)
(*                                                                         *)
(* Each step is one complete handler call, made by the transport worker    *)
(* that owns the allocator.  A handler issues several SQL statements, and  *)
(* each may fail on its own (the file is locked by another tool, the disk  *)
(* is full): SqlFaults names the statements that may, and every action     *)
(* takes the set `failing` of those that do in this call.                  *)
(***************************************************************************)
EXTENDS AllocationDb

CONSTANTS
    LocalIds,     \* the local node IDs the configuration file holds over time
    MaxNodeId,    \* highest assignable ID: 127 on CAN, 65534 on UDP and serial
    ObservedIds,  \* node IDs heard in heartbeats; 0xFFFF is an anonymous one
    Hashes,       \* 48-bit unique-ID hashes of v1 requests
    RequestUids,  \* 128-bit unique IDs of v2 requests
    AnswerUids,   \* 128-bit unique IDs in GetInfo answers
    AnsweringIds, \* nodes that stay on the bus and implement GetInfo
    SqlFaults,    \* the SQL statements that may fail
    MaxQueue      \* bound of the model on the unbounded GetInfo queue

Statements == {"find", "count", "insert", "record", "entry", "update"}

ASSUME AllocatorAssumption ==
    /\ LocalIds \subseteq Nat /\ LocalIds # {}
    /\ MaxNodeId \in Nat
    /\ ObservedIds \subseteq Nat
    /\ Hashes \subseteq Nat
    /\ RequestUids \subseteq Nat
    /\ AnswerUids \subseteq Nat
    /\ AnsweringIds \subseteq ObservedIds
    /\ SqlFaults \subseteq Statements
    /\ MaxQueue \in Nat

VARIABLES
    table,             \* the rows on disk
    local_node_id,
    get_info_queue,    \* node IDs waiting for a GetInfo request
    recently_queried,  \* those enqueued less than the cooldown ago
    in_flight,         \* the worker's pnp_pending_get_info: a node ID or None
    response           \* what the latest call of on_allocation_* returned

vars == <<table, local_node_id, get_info_queue, recently_queried, in_flight,
          response>>

Response(version, key, id) == [version |-> version, key |-> key, node_id |-> id]

Responses == [version : {1, 2}, key : Nat, node_id : Nat]

ASSUME NoReplyAssumption == None \notin Responses

TypeOK ==
    /\ table \in Seq(Row)
    /\ local_node_id \in LocalIds
    /\ get_info_queue \in Seq(Nat)
    /\ recently_queried \subseteq Nat
    /\ in_flight \in Nat \cup {None}
    /\ response \in Responses \cup {None}

-----------------------------------------------------------------------------
\* PnpAllocator::new on an opened table; a failed reservation is only logged.
Recorded(t, id, failing) ==
    IF "record" \in failing THEN t ELSE record_static_node(t, id)

\* Wrong variant: opening the database creates the table anew.
new_EmptyTable(t, id, failing) ==
    /\ table' = Recorded(<<>>, id, failing)
    /\ local_node_id' = id
    /\ get_info_queue' = <<>>
    /\ recently_queried' = {}
    /\ in_flight' = None
    /\ response' = None

new(t, id, failing) ==
    /\ table' = Recorded(t, id, failing)
    /\ local_node_id' = id
    /\ get_info_queue' = <<>>
    /\ recently_queried' = {}
    /\ in_flight' = None
    /\ response' = None

Init ==
    \E id \in LocalIds, failing \in SUBSET SqlFaults :
        /\ table = Recorded(<<>>, id, failing)
        /\ local_node_id = id
        /\ get_info_queue = <<>>
        /\ recently_queried = {}
        /\ in_flight = None
        /\ response = None

Restart(id, failing) == new(table, id, failing)

-----------------------------------------------------------------------------
\* A COUNT(*) query that fails makes its candidate look taken.
Unreadable == IF "count" \in SqlFaults THEN SUBSET (1..MaxNodeId) ELSE {{}}

Fresh(unreadable) == next_free_id(table, {local_node_id}, MaxNodeId, unreadable)

\* Wrong variants: the insert's outcome is ignored; "no free ID" is ignored.
Allocate_ReplyAnyway(t, version, key, unreadable, failing) ==
    LET id == Fresh(unreadable)
    IN  /\ table' = IF id # None /\ CanInsert(table, id) /\ "insert" \notin failing
                    THEN t ELSE table
        /\ response' = IF id = None THEN None ELSE Response(version, key, id)

Allocate_Unchecked(t, version, key, unreadable, failing) ==
    IF CanInsert(table, Fresh(unreadable)) /\ "insert" \notin failing
    THEN table' = t /\ response' = Response(version, key, Fresh(unreadable))
    ELSE table' = table /\ response' = None

\* The table after inserting `row`'s table `t`, and the reply: nothing is
\* replied when no ID is free or the insert fails.
Allocate(t, version, key, unreadable, failing) ==
    LET id == Fresh(unreadable)
    IN  IF id # None /\ CanInsert(table, id) /\ "insert" \notin failing
        THEN table' = t /\ response' = Response(version, key, id)
        ELSE table' = table /\ response' = None

ReUse(version, key, id) ==
    /\ table' = table
    /\ response' = Response(version, key, id)

\* Messages of other allocators, and of nodes that already have an ID.
IgnoreAllocation ==
    /\ response' = None
    /\ UNCHANGED <<table, local_node_id, get_info_queue, recently_queried,
                   in_flight>>

OnAllocationV2(uid, unreadable, failing) ==
    LET existing == IF "find" \in failing THEN None
                    ELSE find_by_unique_id(table, uid)
    IN  /\ IF existing # None
           THEN ReUse(2, uid, existing)
           ELSE Allocate(insert_v2(table, Fresh(unreadable), uid),
                         2, uid, unreadable, failing)
        /\ UNCHANGED <<local_node_id, get_info_queue, recently_queried,
                       in_flight>>

OnAllocationV1(hash, unreadable, failing) ==
    LET existing == IF "find" \in failing THEN None
                    ELSE find_by_hash(table, hash)
    IN  /\ IF existing # None
           THEN ReUse(1, hash, existing)
           ELSE Allocate(insert_v1(table, Fresh(unreadable), hash),
                         1, hash, unreadable, failing)
        /\ UNCHANGED <<local_node_id, get_info_queue, recently_queried,
                       in_flight>>

-----------------------------------------------------------------------------
\* Wrong variant: a node without a row is queried too.
NeedsQuery_OrNoRow(t, id, failing) ==
    /\ "entry" \notin failing
    /\ \A i \in RowsWithId(t, id) : needs_get_info(t[i])

NeedsQuery(t, id, failing) ==
    /\ "entry" \notin failing
    /\ \E i \in RowsWithId(t, id) : needs_get_info(t[i])

\* Wrong variants: only a node that is new is queried; a heard node is queried
\* without being recorded.
OnHeartbeat_OnlyNew(id, failing) ==
    /\ id \notin NodeIdsIn(table)
    /\ table' = Recorded(table, id, failing)
    /\ Len(get_info_queue) < MaxQueue
    /\ get_info_queue' = Append(get_info_queue, id)
    /\ recently_queried' = recently_queried \cup {id}
    /\ response' = None
    /\ UNCHANGED <<local_node_id, in_flight>>

OnHeartbeat_QueryOnly(id, failing) ==
    /\ IF NeedsQuery(table, id, failing) /\ id \notin recently_queried
       THEN /\ Len(get_info_queue) < MaxQueue
            /\ get_info_queue' = Append(get_info_queue, id)
            /\ recently_queried' = recently_queried \cup {id}
       ELSE UNCHANGED <<get_info_queue, recently_queried>>
    /\ response' = None
    /\ UNCHANGED <<table, local_node_id, in_flight>>

OnHeartbeat(id, failing) ==
    LET recorded == Recorded(table, id, failing)
        enqueue  == NeedsQuery(recorded, id, failing) /\ id \notin recently_queried
    IN  /\ table' = recorded
        /\ IF enqueue
           THEN /\ Len(get_info_queue) < MaxQueue
                /\ get_info_queue' = Append(get_info_queue, id)
                /\ recently_queried' = recently_queried \cup {id}
           ELSE UNCHANGED <<get_info_queue, recently_queried>>
        /\ response' = None
        /\ UNCHANGED <<local_node_id, in_flight>>

\* GET_INFO_RETRY_COOLDOWN has passed since `id` was enqueued.
CooldownElapses(id) ==
    /\ id \in recently_queried
    /\ recently_queried' = recently_queried \ {id}
    /\ UNCHANGED <<table, local_node_id, get_info_queue, in_flight, response>>

\* The worker pops a request when none is in flight, and sends it ...
PopGetInfoRequest ==
    /\ in_flight = None
    /\ get_info_queue # <<>>
    /\ in_flight' = Head(get_info_queue)
    /\ get_info_queue' = Tail(get_info_queue)
    /\ response' = None
    /\ UNCHANGED <<table, local_node_id, recently_queried>>

\* ... or cannot send it (no requester token, an ID the transport cannot
\* address, a send error) and reports the failure in the same step.
GetInfoNotSent ==
    /\ in_flight = None
    /\ get_info_queue # <<>>
    /\ get_info_queue' = Tail(get_info_queue)
    /\ recently_queried' = recently_queried \ {Head(get_info_queue)}
    /\ response' = None
    /\ UNCHANGED <<table, local_node_id, in_flight>>

\* on_get_info_result(id, Some(uid)): the answer arrived.
GetInfoAnswered(uid, failing) ==
    /\ in_flight # None
    /\ table' = IF "update" \in failing THEN table
                ELSE update_unique_id(table, in_flight, uid)
    /\ in_flight' = None
    /\ response' = None
    /\ UNCHANGED <<local_node_id, get_info_queue, recently_queried>>

\* on_get_info_result(id, None): timed out, or the answer did not parse.
GetInfoFailed ==
    /\ in_flight # None
    /\ recently_queried' = recently_queried \ {in_flight}
    /\ in_flight' = None
    /\ response' = None
    /\ UNCHANGED <<table, local_node_id, get_info_queue>>

-----------------------------------------------------------------------------
Next ==
    \/ IgnoreAllocation
    \/ \E failing \in SUBSET SqlFaults :
          \/ \E unreadable \in Unreadable :
                \/ \E uid \in RequestUids : OnAllocationV2(uid, unreadable, failing)
                \/ \E hash \in Hashes : OnAllocationV1(hash, unreadable, failing)
          \/ \E id \in ObservedIds : OnHeartbeat(id, failing)
          \/ \E uid \in AnswerUids : GetInfoAnswered(uid, failing)
          \/ \E id \in LocalIds : Restart(id, failing)
    \/ PopGetInfoRequest
    \/ GetInfoNotSent
    \/ GetInfoFailed
    \/ \E id \in ObservedIds : CooldownElapses(id)

Spec == Init /\ [][Next]_vars

-----------------------------------------------------------------------------
(* Safety. *)

\* A node ID has one row, and a v1 hash owns at most one ID: two v1 nodes
\* never share an ID and one v1 node never holds two.  It needs every lookup
\* to see the table: a failed find_by_hash reads as "never seen".
OneIdPerHash ==
    \A i, j \in DOMAIN table :
        \/ i = j
        \/ /\ table[i].node_id # table[j].node_id
           /\ \/ table[i].pseudo_unique_id = None
              \/ table[i].pseudo_unique_id # table[j].pseudo_unique_id

\* "Returns Some(response) when an allocation was performed": a reply is on
\* disk, under the key it answers, before it is sent.
ReplyIsRecorded ==
    response # None =>
        \E i \in RowsWithId(table, response.node_id) :
            IF response.version = 1
            THEN table[i].pseudo_unique_id = response.key
            ELSE table[i].unique_id = response.key

\* While the configuration keeps one local node ID, a v1 reply offers an
\* assignable ID that is not the allocator's own, whichever statements failed.
V1ReplyAssignable ==
    response # None /\ response.version = 1 =>
        response.node_id \in (1..MaxNodeId) \ {local_node_id}

\* "reserved, never assigned" (the doc comment of PnpAllocator::new): no
\* reply ever names the allocator's own node ID.
LocalNeverAssigned ==
    response # None => response.node_id # local_node_id

\* A GetInfo is only ever requested of an ID that has a row, so its answer
\* never gets lost in an UPDATE of nothing.
QueriedIdsRecorded ==
    /\ \A i \in DOMAIN get_info_queue : get_info_queue[i] \in NodeIdsIn(table)
    /\ in_flight # None => in_flight \in NodeIdsIn(table)

\* The reply a v1 node gets once it is in the table never changes: not by
\* the GetInfo answer that replaces its placeholder, not by other nodes, not
\* by a restart.
V1MappingStable ==
    [][\A hash \in Hashes :
          find_by_hash(table, hash) # None =>
              find_by_hash(table', hash) = find_by_hash(table, hash)]_vars

-----------------------------------------------------------------------------
(* What a v1 node sees of the allocator is a write-once assignment. *)

Assignment == INSTANCE NodeIdAssignment WITH
    NodeIds  <- 1..MaxNodeId,
    assigned <- [hash \in Hashes |-> find_by_hash(table, hash)],
    taken    <- NodeIdsIn(table),
    answer   <- IF response # None /\ response.version = 1
                THEN <<response.key, response.node_id>> ELSE None

AssignmentSpec == Assignment!Spec

-----------------------------------------------------------------------------
(* Liveness. *)

Placeholder(id) == \E i \in RowsWithId(table, id) : needs_get_info(table[i])

RealUids == {uid \in AnswerUids : uid \notin {ZeroUid} \cup Hashes}

(***************************************************************************)
(* The worker loop never stops popping requests and checking deadlines;    *)
(* an answering node sends a heartbeat every second, and neither every     *)
(* send to it fails nor every answer comes too late.  (The heartbeat needs *)
(* strong fairness only because MaxQueue can make it wait.)  The process   *)
(* is restarted finitely often and its statements succeed.                 *)
(***************************************************************************)
Fairness ==
    /\ WF_vars(PopGetInfoRequest \/ GetInfoNotSent)
    /\ WF_vars(GetInfoFailed)
    /\ \A id \in AnsweringIds :
          /\ SF_vars(OnHeartbeat(id, {}))
          /\ SF_vars(get_info_queue # <<>> /\ Head(get_info_queue) = id
                     /\ PopGetInfoRequest)
          /\ SF_vars(in_flight = id
                     /\ \E uid \in RealUids : GetInfoAnswered(uid, {}))
    /\ \A id \in ObservedIds : WF_vars(CooldownElapses(id))
    /\ <>[][\A id \in LocalIds, failing \in SUBSET SqlFaults :
               ~Restart(id, failing)]_vars

FairSpec == Spec /\ Fairness

\* The placeholder of a node that answers GetInfo is eventually replaced,
\* though requests queue behind nodes that never answer.
PlaceholderResolved ==
    \A id \in AnsweringIds : Placeholder(id) ~> ~Placeholder(id)
=============================================================================
