----------------------------- MODULE MCSharedDb -----------------------------
(* Two allocators on one file: the instance for the run of SharedDb. *)
EXTENDS SharedDb, TLC

CONSTANTS can, udp

\* Hash 5 is heard by both. Hash 6 and the v2 unique ID 7 are one device, which
\* asks on both transports. A node with the fixed ID 3 may be heard.
MCLocalId   == can :> 1 @@ udp :> 2
MCMaxNodeId == can :> 3 @@ udp :> 4
MCRequests  == can :> {Request(1, 5), Request(1, 6)}
               @@ udp :> {Request(1, 5), Request(2, 7)}
MCUidOf     == 5 :> 8 @@ 6 :> 7
=============================================================================
