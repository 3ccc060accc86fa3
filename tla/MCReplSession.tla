---------------------------- MODULE MCReplSession ----------------------------
(* Three transports, two of which have the same name. *)
EXTENDS ReplSession, TLC

CONSTANTS udp, can, serial

MCHandles == <<udp, can, serial>>
MCNameOf  == udp :> "primary" @@ can :> "bus" @@ serial :> "bus"
MCWords   == {"primary", "bus", "other"}
=============================================================================
