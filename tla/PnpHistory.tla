----------------------------- MODULE PnpHistory -----------------------------
(***************************************************************************)
(* PnpAllocator with history variables, for the properties that relate a   *)
(* reply to what happened long before it, across restarts: which IDs were  *)
(* heard, which replies were sent.                                         *)
(***************************************************************************)
EXTENDS PnpAllocator

VARIABLES
    heard,    \* IDs of heartbeats whose row was written, in any process
    served    \* every reply, and whether it inserted a row

hvars == <<vars, heard, served>>

HInit == Init /\ heard = {} /\ served = {}

granted == {s.reply : s \in {x \in served : x.fresh}}

Serve ==
    served' = IF response' = None THEN served
              ELSE served \cup {[reply |-> response', fresh |-> table' # table]}

HAllocation ==
    /\ \/ IgnoreAllocation
       \/ \E failing \in SUBSET SqlFaults, unreadable \in Unreadable :
             \/ \E uid \in RequestUids : OnAllocationV2(uid, unreadable, failing)
             \/ \E hash \in Hashes : OnAllocationV1(hash, unreadable, failing)
    /\ Serve
    /\ UNCHANGED heard

HHeartbeat ==
    \E id \in ObservedIds, failing \in SUBSET SqlFaults :
        /\ OnHeartbeat(id, failing)
        /\ heard' = IF "record" \in failing THEN heard ELSE heard \cup {id}
        /\ UNCHANGED served

HOther ==
    /\ \/ PopGetInfoRequest
       \/ GetInfoNotSent
       \/ GetInfoFailed
       \/ \E id \in ObservedIds : CooldownElapses(id)
       \/ \E failing \in SUBSET SqlFaults :
             \/ \E uid \in AnswerUids : GetInfoAnswered(uid, failing)
             \/ \E id \in LocalIds : Restart(id, failing)
    /\ UNCHANGED <<heard, served>>

HNext == HAllocation \/ HHeartbeat \/ HOther

HSpec == HInit /\ [][HNext]_hvars

-----------------------------------------------------------------------------
\* An ID is handed out by a new allocation at most once in the life of the
\* database, through restarts, changes of the local ID and failing statements.
GrantedOnce ==
    \A r, s \in granted : r.node_id = s.node_id => r = s

\* "Static nodes observed via heartbeat are automatically reserved so their
\* IDs are never accidentally assigned" (README.md:376): a new allocation never
\* picks an ID that was ever heard.
HeardNeverGranted ==
    [][\A r \in granted' \ granted : r.node_id \notin heard]_hvars

\* A row allocated to a v2 node keeps that node's unique ID: the GetInfo
\* cycle, which overwrites the unique ID of placeholder rows, never reaches
\* it, though stale requests stay queued while IDs are allocated.
V2GrantKept ==
    \A r \in granted :
        r.version = 2 /\ r.key # ZeroUid =>
            \E i \in RowsWithId(table, r.node_id) :
                table[i].unique_id = r.key

SameAnswer(version) ==
    \A r, s \in {x.reply : x \in served} :
        /\ r.version = version
        /\ s.version = version
        /\ r.key = s.key
        => r.node_id = s.node_id

\* "Once a unique-ID has been mapped to a node-ID, the same node-ID is always
\* returned for subsequent requests from that node" (README.md:374), for v1 nodes ...
V1SameAnswer == SameAnswer(1)

\* ... and for v2 nodes.
V2SameAnswer == SameAnswer(2)
=============================================================================
