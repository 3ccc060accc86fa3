------------------------------ MODULE SharedDb ------------------------------
(***************************************************************************)
(* Several allocators on one allocation file: two transports whose         *)
(* pnp_db_path or name is the same (src/src/config.rs), or two processes.  *)
(* Each SQL statement is a transaction of its own, so the statements of    *)
(* one handler (src/src/pnp/allocator.rs over src/src/pnp/db.rs) interleave *)
(* with those of the others, and a process may end between any two.        *)
(***************************************************************************)
EXTENDS AllocationDb, FiniteSets

CONSTANTS
    Allocators,
    LocalId,     \* allocator -> its own node ID
    MaxNodeId,   \* allocator -> the highest ID it assigns
    Requests,    \* allocator -> the requests it receives
    UidOf,       \* v1 hash -> the unique ID of the node it stands for
    Static,      \* node IDs that nodes with a fixed ID use
    StaticUids,  \* the unique IDs of those nodes
    Listening,   \* the allocators that receive heartbeats
    SqlFaults    \* the SQL statements that may fail

Request(version, key) == [version |-> version, key |-> key]

AllRequests == UNION {Requests[a] : a \in Allocators}
Hashes      == {r.key : r \in {s \in AllRequests : s.version = 1}}
V2Uids      == {r.key : r \in {s \in AllRequests : s.version = 2}}

\* No v2 node has an unprogrammed unique ID, or one that is a padded hash: a
\* lookup of it would meet placeholder rows (run PnpZeroUid).
ASSUME SharedAssumption ==
    /\ IsFiniteSet(Allocators)
    /\ LocalId \in [Allocators -> Nat]
    /\ MaxNodeId \in [Allocators -> Nat]
    /\ Requests \in [Allocators -> SUBSET [version : {1, 2}, key : Nat]]
    /\ UidOf \in [Hashes -> Nat]
    /\ Static \subseteq Nat
    /\ StaticUids \subseteq Nat
    /\ V2Uids \cap ({ZeroUid} \cup StaticUids \cup {Padded(h) : h \in Hashes}) = {}
    /\ Listening \subseteq Allocators
    /\ SqlFaults \subseteq {"find", "count", "insert", "record", "update"}

VARIABLES
    table,      \* the rows on disk
    pc,         \* allocator -> the statement its thread is at
    request,    \* allocator -> the request it is serving, or None
    id,         \* allocator -> candidate, chosen ID or ID to publish
    querying,   \* allocator -> IDs it has queued for GetInfo
    answer,     \* what the latest step published, or None
    published   \* every answer so far

vars == <<table, pc, request, id, querying, answer, published>>

Answer(r, n) == [request |-> r, node_id |-> n]

ASSUME NoAnswerAssumption ==
    None \notin [request : [version : {1, 2}, key : Nat], node_id : Nat]

Init ==
    /\ table = <<>>
    /\ pc = [a \in Allocators |-> "down"]
    /\ request = [a \in Allocators |-> None]
    /\ id = [a \in Allocators |-> 0]
    /\ querying = [a \in Allocators |-> {}]
    /\ answer = None
    /\ published = {}

Goto(a, to) == pc' = [pc EXCEPT ![a] = to]

\* The handler returns, and its locals are gone.
Return(a, to) ==
    /\ Goto(a, to)
    /\ request' = [request EXCEPT ![a] = None]
    /\ id' = [id EXCEPT ![a] = 0]

\* The table after INSERT OR IGNORE, or before it if the statement fails.
Recorded(n) == {record_static_node(table, n)}
               \cup (IF "record" \in SqlFaults THEN {table} ELSE {})

\* PnpAllocator::new; a failed reservation is only logged.
New(a) ==
    /\ pc[a] = "down"
    /\ Goto(a, "idle")
    /\ table' \in Recorded(LocalId[a])
    /\ answer' = None
    /\ UNCHANGED <<request, id, querying, published>>

\* IDs in use on the bus, and the unique IDs their nodes report in GetInfo.
InUse     == Static \cup {p.node_id : p \in published}
Uid(r)    == IF r.version = 1 THEN UidOf[r.key] ELSE r.key
UidsAt(n) == {Uid(p.request) : p \in {q \in published : q.node_id = n}}
             \cup (IF n \in Static THEN StaticUids ELSE {})

\* Its second statement, find_by_node_id, is the guard of the enqueueing; only
\* rows of the first one's table matter, as rows are never deleted.
OnHeartbeat(a, n) ==
    /\ a \in Listening
    /\ pc[a] = "idle"
    /\ table' \in Recorded(n)
    /\ querying' = [querying EXCEPT ![a] =
           IF \E i \in RowsWithId(table', n) : needs_get_info(table'[i])
           THEN @ \cup {n} ELSE @]
    /\ answer' = None
    /\ UNCHANGED <<pc, request, id, published>>

\* on_get_info_result: the answer is written whatever the row has become.
GetInfoResult(a, n, uid) ==
    /\ pc[a] = "idle"
    /\ n \in querying[a]
    /\ querying' = [querying EXCEPT ![a] = @ \ {n}]
    /\ table' \in {update_unique_id(table, n, uid)}
                   \cup (IF "update" \in SqlFaults THEN {table} ELSE {})
    /\ answer' = None
    /\ UNCHANGED <<pc, request, id, published>>

Existing(r) == IF r.version = 1 THEN find_by_hash(table, r.key)
               ELSE find_by_unique_id(table, r.key)

\* A failed lookup reads as "never seen".
Find(a, r) ==
    /\ pc[a] = "idle"
    /\ request' = [request EXCEPT ![a] = r]
    /\ \/ /\ Existing(r) # None
          /\ Goto(a, "publish")
          /\ id' = [id EXCEPT ![a] = Existing(r)]
       \/ /\ Existing(r) = None \/ "find" \in SqlFaults
          /\ Goto(a, "count")
          /\ id' = [id EXCEPT ![a] = 1]
    /\ answer' = None
    /\ UNCHANGED <<table, querying, published>>

Unusable(a, n) == n \in NodeIdsIn(table) \cup {LocalId[a]}

\* One COUNT(*) of next_free_id: a taken, reserved or unreadable candidate is
\* passed over; after the last one the handler returns None.
Count(a) ==
    /\ pc[a] = "count"
    /\ \/ id[a] > MaxNodeId[a] /\ Return(a, "idle")
       \/ /\ id[a] <= MaxNodeId[a]
          /\ Unusable(a, id[a]) \/ "count" \in SqlFaults
          /\ id' = [id EXCEPT ![a] = @ + 1]
          /\ UNCHANGED <<pc, request>>
       \/ /\ id[a] <= MaxNodeId[a]
          /\ ~Unusable(a, id[a])
          /\ Goto(a, "insert")
          /\ UNCHANGED <<request, id>>
    /\ answer' = None
    /\ UNCHANGED <<table, querying, published>>

Inserted(a) == IF request[a].version = 1
               THEN insert_v1(table, id[a], request[a].key)
               ELSE insert_v2(table, id[a], request[a].key)

\* Wrong variant: an INSERT that fails is not noticed.
Insert_Unchecked(a) ==
    /\ pc[a] = "insert"
    /\ table' = IF CanInsert(table, id[a]) THEN Inserted(a) ELSE table
    /\ Goto(a, "publish")
    /\ answer' = None
    /\ UNCHANGED <<request, id, querying, published>>

\* Wrong variant: a lost race for the ID is not given up but tried again.
Insert_Retry(a) ==
    /\ pc[a] = "insert"
    /\ CanInsert(table, id[a]) /\ table' = Inserted(a) /\ Goto(a, "publish")
    /\ answer' = None
    /\ UNCHANGED <<request, id, querying, published>>

\* The INSERT fails if another allocator took the ID meanwhile: no reply.
Insert(a) ==
    /\ pc[a] = "insert"
    /\ \/ /\ CanInsert(table, id[a])
          /\ table' = Inserted(a)
          /\ Goto(a, "publish")
          /\ UNCHANGED <<request, id>>
       \/ /\ ~CanInsert(table, id[a]) \/ "insert" \in SqlFaults
          /\ Return(a, "idle")
          /\ UNCHANGED table
    /\ answer' = None
    /\ UNCHANGED <<querying, published>>

Publish(a) ==
    /\ pc[a] = "publish"
    /\ Return(a, "idle")
    /\ answer' = Answer(request[a], id[a])
    /\ published' = published \cup {answer'}
    /\ UNCHANGED <<table, querying>>

\* The process ends between two statements.
Kill(a) ==
    /\ pc[a] # "down"
    /\ Return(a, "down")
    /\ querying' = [querying EXCEPT ![a] = {}]
    /\ answer' = None
    /\ UNCHANGED <<table, published>>

Serve(a) == Count(a) \/ Insert(a) \/ Publish(a)

Next ==
    \E a \in Allocators :
        \/ New(a) \/ Serve(a) \/ Kill(a)
        \/ \E n \in InUse : OnHeartbeat(a, n)
        \/ \E n \in querying[a] : \E uid \in UidsAt(n) : GetInfoResult(a, n, uid)
        \/ \E r \in Requests[a] : Find(a, r)

Spec == Init /\ [][Next]_vars

-----------------------------------------------------------------------------
(* Safety. *)

\* Two nodes are never told the same ID, whichever allocators they asked, with
\* v1 or v2 requests, how the statements interleaved and which of them failed.
NoSharedId ==
    \A p, q \in published :
        p.node_id = q.node_id => Uid(p.request) = Uid(q.request)

Listeners(h) == {a \in Allocators : Request(1, h) \in Requests[a]}

\* Two allocators that hear one v1 request may both insert a row for it, but
\* each of them does so once, through any races and restarts.
RowsPerListener ==
    \A h \in Hashes :
        Cardinality(RowsWithHash(table, h)) <= Cardinality(Listeners(h))

(***************************************************************************)
(* For the hashes that only one of the allocators hears, the allocators    *)
(* together implement the same write-once assignment as one on its own.    *)
(***************************************************************************)
Exclusive == {h \in Hashes : \A a, b \in Listeners(h) : a = b}

Shared == INSTANCE NodeIdAssignment WITH
    Hashes   <- Exclusive,
    NodeIds  <- UNION {1..MaxNodeId[a] : a \in Allocators},
    assigned <- [h \in Exclusive |-> find_by_hash(table, h)],
    taken    <- NodeIdsIn(table),
    answer   <- IF answer # None /\ answer.request.version = 1
                   /\ answer.request.key \in Exclusive
                THEN <<answer.request.key, answer.node_id>> ELSE None

SharedAssignment == Shared!Spec

-----------------------------------------------------------------------------
(* Liveness. *)

(***************************************************************************)
(* Threads run on, a requester repeats its request until it is answered,   *)
(* and each allocator is restarted finitely often.                         *)
(***************************************************************************)
Fairness ==
    /\ \A a \in Allocators :
          /\ WF_vars(New(a)) /\ WF_vars(Serve(a))
          /\ \A r \in Requests[a] : SF_vars(Find(a, r))
    /\ <>[][\A a \in Allocators : ~Kill(a)]_vars

FairSpec == Spec /\ Fairness

Answered(r)  == \E p \in published : p.request = r
Exhausted(a) == FreeIds(table, {LocalId[a]}, MaxNodeId[a], {}) = {}

\* A requester that repeats its request is answered or the IDs have run out,
\* though every lost race for an ID leaves it without an answer.
Served == \A a \in Allocators : \A r \in Requests[a] : <>(Answered(r) \/ Exhausted(a))
=============================================================================
