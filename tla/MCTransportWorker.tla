-------------------------- MODULE MCTransportWorker --------------------------
(* Small sets of calls for the runs of TransportWorker. *)
EXTENDS TransportWorker

ListNodes(n)   == [kind |-> "ListNodes", node_id |-> 0, number |-> n]
Diagnose(n)    == [kind |-> "Diagnostics", node_id |-> 0, number |-> n]
GetInfo(n, id) == [kind |-> "GetInfo", node_id |-> id, number |-> n]

\* Two GetInfos of different nodes, which may overlap, beside a query.
OverlappingCalls == {GetInfo(1, 2), GetInfo(2, 3), ListNodes(3)}

\* A GetInfo and a query, either of which may be abandoned in the channel.
GetInfoAndQuery == {GetInfo(1, 2), Diagnose(2)}
=============================================================================
