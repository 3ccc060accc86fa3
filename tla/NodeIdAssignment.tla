-------------------------- MODULE NodeIdAssignment --------------------------
(***************************************************************************)
(* What the allocator promises to the nodes it serves, without tables,     *)
(* SQL or queues: a write-once assignment of node IDs to unique-ID hashes. *)
(* An ID is assigned at most once and never while it is taken, taken IDs   *)
(* are never given back, and every answer for a hash names the ID assigned *)
(* to it.                                                                  *)
(***************************************************************************)
CONSTANTS Hashes, NodeIds, None

VARIABLES
    assigned,  \* hash -> node ID or None
    taken,     \* IDs that are no longer free, whoever holds them
    answer     \* the latest answer, <<hash, ID>> or None

vars == <<assigned, taken, answer>>

Init ==
    /\ assigned = [hash \in Hashes |-> None]
    /\ answer = None

\* IDs become taken by other means: the local node, heartbeats, v2 nodes.
Reserve ==
    /\ taken \subseteq taken'
    /\ answer' = None
    /\ UNCHANGED assigned

\* The answer may get lost, or be given later.
Assign(hash, id) ==
    /\ assigned[hash] = None
    /\ id \notin taken
    /\ assigned' = [assigned EXCEPT ![hash] = id]
    /\ taken' = taken \cup {id}
    /\ answer' \in {None, <<hash, id>>}

Repeat(hash) ==
    /\ assigned[hash] # None
    /\ answer' = <<hash, assigned[hash]>>
    /\ UNCHANGED <<assigned, taken>>

Next ==
    \/ Reserve
    \/ \E hash \in Hashes :
          \/ \E id \in NodeIds : Assign(hash, id)
          \/ Repeat(hash)

Spec == Init /\ [][Next]_vars
=============================================================================
