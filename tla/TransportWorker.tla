--------------------------- MODULE TransportWorker ---------------------------
(***************************************************************************)
(* One transport worker thread and the callers of its TransportHandle      *)
(* (src/src/transport/mod.rs, src/src/transport/udp.rs): the poll loop,    *)
(* the command channel, the reply channels, the two GetInfo requests the   *)
(* worker keeps pending (one for the operator, one for the allocator) and  *)
(* the handlers that feed the allocator.                                   *)
(*                                                                         *)
(* The serial, SocketCAN and gs_usb workers run the same loop around their *)
(* own drivers.  The model starts when the worker enters its loop.  Time   *)
(* is abstracted: a deadline passes at some moment after it was set, and   *)
(* the loop notices at the line that compares it.                          *)
(***************************************************************************)
EXTENDS PnpAllocator, FiniteSets

CONSTANTS
    Calls,        \* calls of the handle, each made at most once per process
    Addressable,  \* node IDs the transport can send a request to
    MaxCallers,   \* threads that use clones of the handle; the REPL is one
    ChannelSize,  \* capacity of the command channel (16 in the code)
    MaxSends      \* bound of the model on the requests one process sends

Kinds == {"ListNodes", "GetInfo", "Diagnostics", "ListAllocations"}

ASSUME WorkerAssumption ==
    /\ \A c \in Calls : c.kind \in Kinds /\ c.node_id \in Nat
    /\ Addressable \subseteq Nat
    /\ MaxCallers \in Nat
    /\ ChannelSize \in Nat \ {0}
    /\ MaxSends \in Nat

VARIABLES
    pc,                  \* the phase of the worker's loop
    shutdown,            \* the value of the watch channel
    requester,           \* get_info_token.is_some()
    pnp,                 \* pnp_allocator.is_some()
    cmd_queue,           \* the command channel
    call_state,          \* call -> what the calling thread is doing
    reply,               \* call -> content of its reply channel, or None
    result,              \* call -> what it returned, or None
    pending_get_info,    \* the operator's request in flight, or None
    pnp_expired,         \* the deadline of in_flight has passed
    observed_nodes,      \* keys of the observed-node map
    asked,               \* nodes this process sent a GetInfo request to
    requests_sent,       \* get_info_requests_sent
    responses_received   \* get_info_responses_received

clientVars == <<call_state, result>>
startVars  == <<requester, pnp>>   \* settled when the worker starts
workerVars == <<startVars, pending_get_info, pnp_expired, observed_nodes, asked,
                requests_sent, responses_received>>
wvars == <<vars, pc, shutdown, cmd_queue, reply, clientVars, workerVars>>

Pending(call, expired) ==
    [node_id |-> call.node_id, call |-> call, expired |-> expired]

Nodes(ids) == [kind |-> "nodes", nodes |-> ids]
Info(id)   == [kind |-> "info", node_id |-> id]
Failure    == [kind |-> "error"]
Rows(ids)  == [kind |-> "rows", nodes |-> ids]
Diag(sent, received) ==
    [kind |-> "diagnostics", sent |-> sent, received |-> received]

Phases == {"top", "drain", "cli_timeout", "dispatch", "pnp_timeout", "receive",
           "second", "stopped"}
CallStates == {"unused", "sending", "waiting", "returned"}

WInit ==
    /\ Init
    /\ pc = "top"
    /\ shutdown = FALSE
    /\ requester \in BOOLEAN
    /\ pnp = TRUE              \* a later process may start without
    /\ cmd_queue = <<>>
    /\ call_state = [c \in Calls |-> "unused"]
    /\ reply = [c \in Calls |-> None]
    /\ result = [c \in Calls |-> None]
    /\ pending_get_info = None
    /\ pnp_expired = FALSE
    /\ observed_nodes = {local_node_id}   \* register_local_node
    /\ asked = {}
    /\ requests_sent = 0
    /\ responses_received = 0

-----------------------------------------------------------------------------
(* The calling threads. *)

Active == {c \in Calls : call_state[c] \in {"sending", "waiting"}}

Return(c, value) ==
    /\ call_state' = [call_state EXCEPT ![c] = "returned"]
    /\ result' = [result EXCEPT ![c] = value]

StartCall(c) ==
    /\ call_state[c] = "unused"
    /\ Cardinality(Active) < MaxCallers
    /\ call_state' = [call_state EXCEPT ![c] = "sending"]
    /\ UNCHANGED <<vars, pc, shutdown, cmd_queue, reply, result, workerVars>>

\* Wrong variant: a channel without a bound.
SendCommand_Unbounded(c) ==
    /\ call_state[c] = "sending"
    /\ pc # "stopped"
    /\ cmd_queue' = Append(cmd_queue, c)
    /\ call_state' = [call_state EXCEPT ![c] = "waiting"]
    /\ UNCHANGED <<vars, pc, shutdown, reply, result, workerVars>>

\* cmd_tx.send blocks while the channel is full ...
SendCommand(c) ==
    /\ call_state[c] = "sending"
    /\ pc # "stopped"
    /\ Len(cmd_queue) < ChannelSize
    /\ cmd_queue' = Append(cmd_queue, c)
    /\ call_state' = [call_state EXCEPT ![c] = "waiting"]
    /\ UNCHANGED <<vars, pc, shutdown, reply, result, workerVars>>

\* What a call returns without the worker's reply: list_nodes adds the local
\* node to an empty list after a timeout, but not when the worker is gone.
GaveUp(c) == CASE c.kind = "ListNodes"       -> Nodes({local_node_id})
               [] c.kind = "ListAllocations" -> Rows({})
               [] OTHER                      -> Failure

Gone(c) == IF c.kind = "ListNodes" THEN Nodes({}) ELSE GaveUp(c)

\* ... and fails once the worker dropped its receiver.
SendFails(c) ==
    /\ call_state[c] = "sending"
    /\ pc = "stopped"
    /\ Return(c, Gone(c))
    /\ UNCHANGED <<vars, pc, shutdown, cmd_queue, reply, workerVars>>

ReceiveReply(c) ==
    /\ call_state[c] = "waiting"
    /\ reply[c] # None
    /\ Return(c, IF c.kind = "ListNodes"
                 THEN Nodes(reply[c].nodes \cup {local_node_id}) ELSE reply[c])
    /\ reply' = [reply EXCEPT ![c] = None]
    /\ UNCHANGED <<vars, pc, shutdown, cmd_queue, workerVars>>

\* recv_timeout: the timeout passed, or nobody holds the reply sender.
GiveUp(c) ==
    /\ call_state[c] = "waiting"
    /\ reply[c] = None
    /\ Return(c, GaveUp(c))
    /\ UNCHANGED <<vars, pc, shutdown, cmd_queue, reply, workerVars>>

-----------------------------------------------------------------------------
(* The worker's loop. *)

\* reply.send: lost when the caller has given up and dropped its receiver.
Answer(c, value) ==
    reply' = IF call_state[c] = "waiting" THEN [reply EXCEPT ![c] = value] ELSE reply

\* Wrong variant: the worker waits for the operator's request before it stops.
Stop_WhenIdle ==
    /\ pc = "top"
    /\ shutdown
    /\ pending_get_info = None
    /\ pc' = "stopped"
    /\ cmd_queue' = <<>>
    /\ UNCHANGED <<vars, shutdown, reply, clientVars, workerVars>>

\* On shutdown run_worker returns: commands still queued and the pending
\* requests are dropped with their reply senders.
Stop ==
    /\ pc = "top"
    /\ shutdown
    /\ pc' = "stopped"
    /\ cmd_queue' = <<>>
    /\ pending_get_info' = None
    /\ UNCHANGED <<vars, shutdown, reply, clientVars, startVars, pnp_expired,
                   observed_nodes, asked, requests_sent, responses_received>>

Continue ==
    /\ pc = "top"
    /\ ~shutdown
    /\ pc' = "drain"
    /\ UNCHANGED <<vars, shutdown, cmd_queue, reply, clientVars, workerVars>>

\* Wrong variant: the command is looked at and left in the channel.
TakeCommand_Peek(c) ==
    /\ pc = "drain"
    /\ cmd_queue # <<>>
    /\ c = Head(cmd_queue)
    /\ UNCHANGED cmd_queue

TakeCommand(c) ==
    /\ pc = "drain"
    /\ cmd_queue # <<>>
    /\ c = Head(cmd_queue)
    /\ cmd_queue' = Tail(cmd_queue)

\* list_allocations: none without an allocator.
Allocations == IF pnp THEN NodeIdsIn(table) ELSE {}

Query(c) ==
    /\ TakeCommand(c)
    /\ c.kind # "GetInfo"
    /\ Answer(c, CASE c.kind = "ListNodes"       -> Nodes(observed_nodes)
                   [] c.kind = "ListAllocations" -> Rows(Allocations)
                   [] c.kind = "Diagnostics"     ->
                        Diag(requests_sent, responses_received))
    /\ UNCHANGED <<vars, pc, shutdown, clientVars, workerVars>>

\* A new request replaces the pending one, whose reply sender is dropped.
SendGetInfo(c) ==
    /\ TakeCommand(c)
    /\ c.kind = "GetInfo"
    /\ c.node_id \in Addressable
    /\ requester
    /\ requests_sent < MaxSends
    /\ requests_sent' = requests_sent + 1
    /\ asked' = asked \cup {c.node_id}
    /\ pending_get_info' = Pending(c, FALSE)
    /\ UNCHANGED <<vars, pc, shutdown, reply, clientVars, startVars, pnp_expired,
                   observed_nodes, responses_received>>

\* An ID that cannot be addressed, no requester token, or a send error.
RefuseGetInfo(c) ==
    /\ TakeCommand(c)
    /\ c.kind = "GetInfo"
    /\ Answer(c, Failure)
    /\ UNCHANGED <<vars, pc, shutdown, clientVars, workerVars>>

Drained ==
    /\ pc = "drain"
    /\ cmd_queue = <<>>
    /\ pc' = "cli_timeout"
    /\ UNCHANGED <<vars, shutdown, cmd_queue, reply, clientVars, workerVars>>

\* Wrong variants: the timeout is answered but the request stays pending; the
\* deadline is never compared.
CheckGetInfoTimeout_KeepsPending ==
    /\ pc = "cli_timeout"
    /\ pc' = "dispatch"
    /\ IF pending_get_info # None /\ pending_get_info.expired
       THEN Answer(pending_get_info.call, Failure) ELSE UNCHANGED reply
    /\ UNCHANGED <<vars, shutdown, cmd_queue, clientVars, workerVars>>

CheckGetInfoTimeout_Never ==
    /\ pc = "cli_timeout"
    /\ pc' = "dispatch"
    /\ UNCHANGED <<vars, shutdown, cmd_queue, reply, clientVars, workerVars>>

CheckGetInfoTimeout ==
    /\ pc = "cli_timeout"
    /\ pc' = "dispatch"
    /\ IF pending_get_info # None /\ pending_get_info.expired
       THEN /\ Answer(pending_get_info.call, Failure)
            /\ pending_get_info' = None
       ELSE UNCHANGED <<reply, pending_get_info>>
    /\ UNCHANGED <<vars, shutdown, cmd_queue, clientVars, startVars, pnp_expired,
                   observed_nodes, asked, requests_sent, responses_received>>

\* Wrong variant: the allocator's requests are not counted.
DispatchGetInfo_Uncounted ==
    /\ pc = "dispatch"
    /\ pc' = "pnp_timeout"
    /\ PopGetInfoRequest
    /\ Head(get_info_queue) \in Addressable
    /\ requester
    /\ asked' = asked \cup {Head(get_info_queue)}
    /\ pnp_expired' = FALSE
    /\ UNCHANGED <<shutdown, cmd_queue, reply, clientVars, startVars,
                   pending_get_info, observed_nodes, requests_sent,
                   responses_received>>

\* The next request of the allocator goes out if none is in flight.
DispatchGetInfo ==
    /\ pc = "dispatch"
    /\ pc' = "pnp_timeout"
    /\ PopGetInfoRequest
    /\ Head(get_info_queue) \in Addressable
    /\ requester
    /\ requests_sent < MaxSends
    /\ requests_sent' = requests_sent + 1
    /\ asked' = asked \cup {Head(get_info_queue)}
    /\ pnp_expired' = FALSE
    /\ UNCHANGED <<shutdown, cmd_queue, reply, clientVars, startVars,
                   pending_get_info, observed_nodes, responses_received>>

DispatchFails ==
    /\ pc = "dispatch"
    /\ pc' = "pnp_timeout"
    /\ GetInfoNotSent
    /\ UNCHANGED <<shutdown, cmd_queue, reply, clientVars, workerVars>>

NothingToDispatch ==
    /\ pc = "dispatch"
    /\ in_flight # None \/ get_info_queue = <<>>
    /\ pc' = "pnp_timeout"
    /\ UNCHANGED <<vars, shutdown, cmd_queue, reply, clientVars, workerVars>>

\* Wrong variant: the timeout is not reported to the allocator.
CheckPnpTimeout_Unreported ==
    /\ pc = "pnp_timeout"
    /\ pc' = "receive"
    /\ in_flight' = IF pnp_expired THEN None ELSE in_flight
    /\ UNCHANGED <<table, local_node_id, get_info_queue, recently_queried,
                   response, shutdown, cmd_queue, reply, clientVars, workerVars>>

CheckPnpTimeout ==
    /\ pc = "pnp_timeout"
    /\ pc' = "receive"
    /\ IF in_flight # None /\ pnp_expired THEN GetInfoFailed ELSE UNCHANGED vars
    /\ UNCHANGED <<shutdown, cmd_queue, reply, clientVars, workerVars>>

-----------------------------------------------------------------------------
(* node.receive: the handler runs for each transfer that has arrived. *)

HandleHeartbeat ==
    /\ pc = "receive"
    /\ \E id \in ObservedIds, failing \in SUBSET SqlFaults :
          /\ IF pnp THEN OnHeartbeat(id, failing) ELSE UNCHANGED vars
          /\ observed_nodes' = observed_nodes \cup {id}
    /\ UNCHANGED <<pc, shutdown, cmd_queue, reply, clientVars, startVars,
                   pending_get_info, pnp_expired, asked, requests_sent,
                   responses_received>>

HandleAllocation ==
    /\ pc = "receive"
    /\ pnp
    /\ \/ IgnoreAllocation
       \/ \E failing \in SUBSET SqlFaults, unreadable \in Unreadable :
             \/ \E uid \in RequestUids : OnAllocationV2(uid, unreadable, failing)
             \/ \E hash \in Hashes : OnAllocationV1(hash, unreadable, failing)
    /\ UNCHANGED <<pc, shutdown, cmd_queue, reply, clientVars, workerVars>>

\* Wrong variant: any response settles the operator's request.
MatchesCli_AnyNode(id) == pending_get_info # None

\* A response is matched by the node that sent it alone, so a late or repeated
\* one counts for a newer request, and one may settle both pending requests.
MatchesCli(id) == pending_get_info # None /\ pending_get_info.node_id = id
MatchesPnp(id) == in_flight = id

HandleResponse(id, parsed) ==
    /\ pc = "receive"
    /\ MatchesCli(id) \/ MatchesPnp(id)
    /\ IF MatchesCli(id)
       THEN /\ Answer(pending_get_info.call, IF parsed THEN Info(id) ELSE Failure)
            /\ pending_get_info' = None
       ELSE UNCHANGED <<reply, pending_get_info>>
    /\ IF ~MatchesPnp(id) THEN UNCHANGED vars
       ELSE IF ~parsed THEN GetInfoFailed
       ELSE \E uid \in AnswerUids, failing \in SUBSET SqlFaults :
               GetInfoAnswered(uid, failing)
    /\ responses_received' = responses_received
                             + (IF MatchesCli(id) THEN 1 ELSE 0)
                             + (IF MatchesPnp(id) THEN 1 ELSE 0)
    /\ UNCHANGED <<pc, shutdown, cmd_queue, clientVars, startVars, pnp_expired,
                   observed_nodes, asked, requests_sent>>

ReceiveDone ==
    /\ pc = "receive"
    /\ pc' = "second"
    /\ UNCHANGED <<vars, shutdown, cmd_queue, reply, clientVars, workerVars>>

\* Once a second the local node's entry is refreshed.
TickLocalNode ==
    /\ pc = "second"
    /\ pc' = "top"
    /\ observed_nodes' = observed_nodes \cup {local_node_id}
    /\ UNCHANGED <<vars, shutdown, cmd_queue, reply, clientVars, startVars,
                   pending_get_info, pnp_expired, asked, requests_sent,
                   responses_received>>

-----------------------------------------------------------------------------
(* Time, the rest of the process, and the end of it. *)

CliDeadline ==
    /\ pending_get_info # None
    /\ ~pending_get_info.expired
    /\ pending_get_info' = Pending(pending_get_info.call, TRUE)
    /\ UNCHANGED <<vars, pc, shutdown, cmd_queue, reply, clientVars, startVars,
                   pnp_expired, observed_nodes, asked, requests_sent,
                   responses_received>>

PnpDeadline ==
    /\ in_flight # None
    /\ ~pnp_expired
    /\ pnp_expired' = TRUE
    /\ UNCHANGED <<vars, pc, shutdown, cmd_queue, reply, clientVars, startVars,
                   pending_get_info, observed_nodes, asked, requests_sent,
                   responses_received>>

WCooldownElapses ==
    /\ \E id \in ObservedIds : CooldownElapses(id)
    /\ UNCHANGED <<pc, shutdown, cmd_queue, reply, clientVars, workerVars>>

SignalShutdown ==
    /\ ~shutdown
    /\ shutdown' = TRUE
    /\ UNCHANGED <<vars, pc, cmd_queue, reply, clientVars, workerVars>>

\* The process ends, at any line, and is started again on the same database, or
\* without an allocator: PNP is disabled, or the file cannot be opened.
WRestart ==
    /\ \E id \in LocalIds, failing \in SUBSET SqlFaults : Restart(id, failing)
    /\ pnp' \in BOOLEAN
    /\ ~pnp' => UNCHANGED table
    /\ pc' = "top"
    /\ shutdown' = FALSE
    /\ requester' \in BOOLEAN
    /\ cmd_queue' = <<>>
    /\ call_state' = [c \in Calls |-> "unused"]
    /\ reply' = [c \in Calls |-> None]
    /\ result' = [c \in Calls |-> None]
    /\ pending_get_info' = None
    /\ pnp_expired' = FALSE
    /\ observed_nodes' = {local_node_id'}
    /\ asked' = {}
    /\ requests_sent' = 0
    /\ responses_received' = 0

WorkerNext ==
    \/ Stop \/ Continue
    \/ \E c \in Calls : Query(c) \/ SendGetInfo(c) \/ RefuseGetInfo(c)
    \/ Drained \/ CheckGetInfoTimeout
    \/ DispatchGetInfo \/ DispatchFails \/ NothingToDispatch
    \/ CheckPnpTimeout
    \/ HandleHeartbeat \/ HandleAllocation
    \/ \E id \in asked, parsed \in BOOLEAN : HandleResponse(id, parsed)
    \/ ReceiveDone \/ TickLocalNode

CallerNext ==
    \E c \in Calls :
        \/ StartCall(c) \/ SendCommand(c) \/ SendFails(c)
        \/ ReceiveReply(c) \/ GiveUp(c)

WNext ==
    \/ WorkerNext
    \/ CallerNext
    \/ CliDeadline \/ PnpDeadline \/ WCooldownElapses
    \/ SignalShutdown
    \/ WRestart

WSpec == WInit /\ [][WNext]_wvars

-----------------------------------------------------------------------------
(* Safety. *)

WTypeOK ==
    /\ TypeOK
    /\ pc \in Phases
    /\ shutdown \in BOOLEAN
    /\ requester \in BOOLEAN
    /\ pnp \in BOOLEAN
    /\ cmd_queue \in Seq(Calls) /\ Len(cmd_queue) <= ChannelSize
    /\ call_state \in [Calls -> CallStates]
    /\ \/ pending_get_info = None
       \/ /\ pending_get_info.call \in Calls
          /\ pending_get_info = Pending(pending_get_info.call,
                                        pending_get_info.expired)
          /\ pending_get_info.expired \in BOOLEAN
    /\ pnp_expired \in BOOLEAN
    /\ requests_sent \in 0..MaxSends
    /\ responses_received \in Nat

\* The calls whose reply sender the worker holds, or will find in its channel.
Held == {cmd_queue[i] : i \in DOMAIN cmd_queue}
        \cup IF pending_get_info = None THEN {} ELSE {pending_get_info.call}

\* A reply channel has room for one reply and send() blocks when it is full:
\* no call is answered twice, or the worker would hang in reply.send and serve
\* neither the bus nor the shutdown.
RepliesNeverBlock == \A c \in Held : reply[c] = None

Count(p) == IF p = None THEN 0 ELSE 1

\* What `diag` prints adds up: the responses counted and the requests still
\* pending never exceed the requests sent, although responses are matched by
\* node ID only and one response may settle two requests.
ResponsesWereRequested ==
    responses_received + Count(pending_get_info) + Count(in_flight)
        <= requests_sent

\* An operator who asks about a node is told about that node or of a failure,
\* also when a late answer meets a newer request.
InfoIsOfTheNodeAsked ==
    \A c \in Calls :
        result[c] # None =>
            IF c.kind = "GetInfo"
            THEN result[c] \in {Info(c.node_id), Failure}
            ELSE result[c].kind # "info"

\* Every step of the worker is one call of its allocator, or none.
ImplementsAllocator == Spec

-----------------------------------------------------------------------------
(* Liveness. *)

(***************************************************************************)
(* The worker thread keeps running its loop, and each receive call returns *)
(* (it has a timeout in every transport); calling threads keep running,    *)
(* and deadlines pass.  Nothing is assumed of the network, of requests, of *)
(* the shutdown signal or of restarts.                                     *)
(***************************************************************************)
WorkerFairness ==
    /\ WF_wvars(Stop) /\ WF_wvars(Continue)
    /\ WF_wvars(\E c \in Calls : Query(c) \/ SendGetInfo(c) \/ RefuseGetInfo(c))
    /\ WF_wvars(Drained)
    /\ WF_wvars(CheckGetInfoTimeout)
    /\ WF_wvars(DispatchGetInfo \/ DispatchFails)
    /\ WF_wvars(NothingToDispatch)
    /\ WF_wvars(CheckPnpTimeout)
    /\ WF_wvars(ReceiveDone)
    /\ WF_wvars(TickLocalNode)

CallerFairness ==
    \A c \in Calls :
        /\ SF_wvars(SendCommand(c))   \* waiting senders are served in turn
        /\ WF_wvars(SendFails(c) \/ ReceiveReply(c) \/ GiveUp(c))

DeadlineFairness == WF_wvars(CliDeadline) /\ WF_wvars(PnpDeadline)

FairWSpec == WSpec /\ WorkerFairness /\ CallerFairness /\ DeadlineFairness

\* A call of the handle returns, though send() has no timeout: not when the
\* channel is full of abandoned commands, nor when the worker stops meanwhile.
CallReturns ==
    \A c \in Calls :
        call_state[c] = "sending" ~> call_state[c] \in {"returned", "unused"}

\* A pending GetInfo ends, by a response or its deadline, and frees its slot.
GetInfosSettle ==
    /\ pending_get_info # None ~> pending_get_info = None
    /\ in_flight # None ~> (in_flight = None \/ pc = "stopped")

\* "When shutdown fires, all workers stop" (transport/mod.rs:382), whatever
\* is pending.
WorkerStops == shutdown ~> (pc = "stopped" \/ ~shutdown)
=============================================================================
