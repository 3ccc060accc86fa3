------------------------ MODULE TransportWorker_proof ------------------------
(***************************************************************************)
(* The transport worker and its callers, for any calls, channel sizes,     *)
(* numbers of threads and failing statements: the worker only does what    *)
(* its allocator may do, no reply can block it, its counters add up, and   *)
(* an operator is told about the node asked for.                           *)
(***************************************************************************)
EXTENDS TransportWorker, PnpAllocator_proof

-----------------------------------------------------------------------------
(* The allocator within the worker. *)

LEMMA WorkerStepMaps == WorkerNext => [Next]_vars
<1> SUFFICES ASSUME WorkerNext PROVE [Next]_vars
  OBVIOUS
<1>1. CASE \/ Stop \/ Continue \/ Drained \/ CheckGetInfoTimeout
           \/ NothingToDispatch \/ ReceiveDone \/ TickLocalNode
  BY <1>1 DEF Stop, Continue, Drained, CheckGetInfoTimeout, NothingToDispatch,
              ReceiveDone, TickLocalNode
<1>2. ASSUME NEW c \in Calls, Query(c) \/ SendGetInfo(c) \/ RefuseGetInfo(c)
      PROVE  UNCHANGED vars
  BY <1>2 DEF Query, SendGetInfo, RefuseGetInfo
<1>3. CASE DispatchGetInfo
  BY <1>3 DEF DispatchGetInfo, Next
<1>4. CASE DispatchFails
  BY <1>4 DEF DispatchFails, Next
<1>5. CASE CheckPnpTimeout
  BY <1>5 DEF CheckPnpTimeout, Next
<1>6. CASE HandleHeartbeat
  BY <1>6 DEF HandleHeartbeat, Next
<1>7. CASE HandleAllocation
  BY <1>7 DEF HandleAllocation, Next
<1>8. ASSUME NEW id \in asked, NEW parsed \in BOOLEAN, HandleResponse(id, parsed)
      PROVE  [Next]_vars
  BY <1>8 DEF HandleResponse, Next
<1> QED
  BY <1>1, <1>2, <1>3, <1>4, <1>5, <1>6, <1>7, <1>8 DEF WorkerNext

\* Each step of the worker and its callers makes one call of the allocator, or none.
LEMMA WStepMaps == [WNext]_wvars => [Next]_vars
<1> SUFFICES ASSUME [WNext]_wvars PROVE [Next]_vars
  OBVIOUS
<1>1. CASE WorkerNext
  BY <1>1, WorkerStepMaps
<1>2. CASE CallerNext
  BY <1>2 DEF CallerNext, StartCall, SendCommand, SendFails, ReceiveReply, GiveUp
<1>3. CASE CliDeadline \/ PnpDeadline \/ SignalShutdown
  BY <1>3 DEF CliDeadline, PnpDeadline, SignalShutdown
<1>4. CASE WCooldownElapses
  BY <1>4 DEF WCooldownElapses, Next
<1>5. CASE WRestart
  BY <1>5 DEF WRestart, Next
<1>6. CASE UNCHANGED wvars
  BY <1>6 DEF wvars
<1> QED
  BY <1>1, <1>2, <1>3, <1>4, <1>5, <1>6 DEF WNext

\* The worker, with requests that time out, are answered late or twice, or are cut
\* off by a restart, uses the allocator as PnpAllocator says it is used: all that
\* is proved of the allocator holds within the worker.
THEOREM WorkerImplementsAllocator == WSpec => ImplementsAllocator
<1>1. WInit => Init
  BY DEF WInit
<1> QED
  BY <1>1, WStepMaps, PTL DEF WSpec, ImplementsAllocator, Spec

\* So a v1 node, and a v2 node with a unique ID of its own, get from the worker
\* the write-once assignment, as long as lookups do not fail.
THEOREM WorkerImplementsAssignment ==
    ASSUME "find" \notin SqlFaults
    PROVE  WSpec => AssignmentSpec
<1>1. Spec => AssignmentSpec
  BY ImplementsAssignment
<1> QED  BY <1>1, WorkerImplementsAllocator DEF ImplementsAllocator

THEOREM WorkerImplementsV2Assignment ==
    ASSUME "find" \notin SqlFaults, OwnUids
    PROVE  WSpec => V2Assignment!Spec
<1>1. Spec => V2Assignment!Spec
  BY V2ImplementsAssignment
<1> QED  BY <1>1, WorkerImplementsAllocator DEF ImplementsAllocator

-----------------------------------------------------------------------------
(* Types. *)

PendingOK ==
    \/ pending_get_info = None
    \/ /\ pending_get_info.call \in Calls
       /\ pending_get_info = Pending(pending_get_info.call, pending_get_info.expired)
       /\ pending_get_info.expired \in BOOLEAN

\* WTypeOK without the allocator's part; functions have the calls as domain.
WorkerPart ==
    /\ pc \in Phases
    /\ shutdown \in BOOLEAN
    /\ requester \in BOOLEAN
    /\ pnp \in BOOLEAN
    /\ cmd_queue \in Seq(Calls) /\ Len(cmd_queue) <= ChannelSize
    /\ call_state \in [Calls -> CallStates]
    /\ DOMAIN reply = Calls
    /\ DOMAIN result = Calls
    /\ PendingOK
    /\ pnp_expired \in BOOLEAN
    /\ requests_sent \in 0..MaxSends
    /\ responses_received \in Nat

LEMMA NewPending ==
    ASSUME NEW c \in Calls, NEW e \in BOOLEAN
    PROVE  /\ Pending(c, e).call = c /\ Pending(c, e).expired = e
           /\ Pending(c, e) = Pending(Pending(c, e).call, Pending(c, e).expired)
BY DEF Pending

LEMMA AnswerDomain ==
    ASSUME DOMAIN reply = Calls, NEW c, NEW v, Answer(c, v)
    PROVE  DOMAIN reply' = Calls
BY DEF Answer

LEMMA HeadAndTail ==
    ASSUME cmd_queue \in Seq(Calls), cmd_queue # <<>>
    PROVE  /\ Head(cmd_queue) \in Calls
           /\ Head(cmd_queue) = cmd_queue[1]
           /\ Tail(cmd_queue) \in Seq(Calls)
           /\ Len(cmd_queue) \in Nat \ {0}
           /\ Len(Tail(cmd_queue)) = Len(cmd_queue) - 1
           /\ \A i \in 1..(Len(cmd_queue) - 1) : Tail(cmd_queue)[i] = cmd_queue[i + 1]
OBVIOUS

\* Taking a command from the channel leaves the rest of it.
LEMMA CommandTaken ==
    ASSUME WorkerPart, NEW c, TakeCommand(c)
    PROVE  /\ cmd_queue' \in Seq(Calls)
           /\ Len(cmd_queue') <= ChannelSize
           /\ c \in Calls
<1>1. /\ cmd_queue \in Seq(Calls)
      /\ Len(cmd_queue) <= ChannelSize
      /\ cmd_queue # <<>>
      /\ cmd_queue' = Tail(cmd_queue)
      /\ c = Head(cmd_queue)
      /\ ChannelSize \in Nat
  BY WorkerAssumption DEF WorkerPart, TakeCommand
<1> QED  BY <1>1, HeadAndTail

LEMMA EmptyChannel ==
    /\ <<>> \in Seq(Calls)
    /\ Len(<<>>) <= ChannelSize
    /\ 0 \in 0..MaxSends
    /\ [c \in Calls |-> "unused"] \in [Calls -> CallStates]
BY WorkerAssumption DEF CallStates

LEMMA WorkerPartInit == WInit => WorkerPart
<1> SUFFICES ASSUME WInit PROVE WorkerPart
  OBVIOUS
<1>1. PendingOK
  BY DEF WInit, PendingOK
<1> QED
  BY <1>1, EmptyChannel DEF WInit, WorkerPart, Phases

LEMMA WorkerPartPreserved == WorkerPart /\ [WNext]_wvars => WorkerPart'
<1> SUFFICES ASSUME WorkerPart, [WNext]_wvars PROVE WorkerPart'
  OBVIOUS
<1> USE WorkerAssumption DEF WorkerPart, Phases, CallStates, workerVars, startVars, clientVars
<1>0. CASE Stop
  BY <1>0, EmptyChannel DEF Stop, PendingOK
<1>1. CASE Continue \/ Drained
  <2>1. UNCHANGED <<cmd_queue, reply, shutdown, clientVars, workerVars>> /\ pc' \in Phases
    BY <1>1 DEF Continue, Drained
  <2> QED
    BY <2>1 DEF PendingOK
<1>2. ASSUME NEW c \in Calls, Query(c) \/ RefuseGetInfo(c) PROVE WorkerPart'
  <2>1. PendingOK'
    BY <1>2 DEF Query, RefuseGetInfo, PendingOK
  <2>2. DOMAIN reply' = Calls
    BY <1>2, AnswerDomain DEF Query, RefuseGetInfo
  <2>3. cmd_queue' \in Seq(Calls) /\ Len(cmd_queue') <= ChannelSize
    BY <1>2, CommandTaken DEF Query, RefuseGetInfo
  <2> QED
    BY <1>2, <2>1, <2>2, <2>3 DEF Query, RefuseGetInfo
<1>3. ASSUME NEW c \in Calls, SendGetInfo(c) PROVE WorkerPart'
  <2>1. PendingOK'
    BY <1>3, NewPending DEF SendGetInfo, PendingOK
  <2> QED
    BY <1>3, <2>1, CommandTaken DEF SendGetInfo
<1>4. CASE CheckGetInfoTimeout
  BY <1>4, AnswerDomain DEF CheckGetInfoTimeout, PendingOK
<1>5. CASE DispatchGetInfo \/ DispatchFails \/ NothingToDispatch
  <2>1. /\ UNCHANGED <<shutdown, cmd_queue, reply, clientVars, startVars,
                       pending_get_info, responses_received>>
        /\ pc' \in Phases
        /\ pnp_expired' \in BOOLEAN
        /\ requests_sent' \in 0..MaxSends
    <3>1. CASE DispatchGetInfo
      <4>1. pnp_expired' = FALSE /\ pc' = "pnp_timeout"
        BY <3>1, Zenon DEF DispatchGetInfo
      <4>2. requests_sent < MaxSends /\ requests_sent' = requests_sent + 1
        BY <3>1, Zenon DEF DispatchGetInfo
      <4>3. UNCHANGED <<shutdown, cmd_queue, reply, clientVars, startVars,
                        pending_get_info, responses_received>>
        BY <3>1, Zenon DEF DispatchGetInfo
      <4>4. requests_sent' \in 0..MaxSends
        BY <4>2, SMT
      <4>5. pnp_expired' \in BOOLEAN
        BY <4>1, Zenon
      <4>6. pc' \in Phases
        BY <4>1
      <4> QED  BY <4>3, <4>4, <4>5, <4>6
    <3>2. CASE DispatchFails
      BY <3>2 DEF DispatchFails
    <3>3. CASE NothingToDispatch
      BY <3>3 DEF NothingToDispatch
    <3> QED  BY <1>5, <3>1, <3>2, <3>3
  <2> QED
    BY <2>1 DEF PendingOK
<1>6. CASE CheckPnpTimeout \/ HandleHeartbeat \/ HandleAllocation
  <2>1. /\ UNCHANGED <<shutdown, cmd_queue, reply, clientVars, startVars,
                       pending_get_info, pnp_expired, requests_sent,
                       responses_received>>
        /\ pc' \in Phases
    BY <1>6 DEF CheckPnpTimeout, HandleHeartbeat, HandleAllocation
  <2> QED
    BY <2>1 DEF PendingOK
<1>7. ASSUME NEW id \in asked, NEW parsed \in BOOLEAN, HandleResponse(id, parsed)
      PROVE  WorkerPart'
  <2>1. DOMAIN reply' = Calls
    BY <1>7, AnswerDomain DEF HandleResponse
  <2>2. PendingOK'
    BY <1>7 DEF HandleResponse, PendingOK
  <2>3. responses_received' \in Nat
    BY <1>7 DEF HandleResponse
  <2> QED
    BY <1>7, <2>1, <2>2, <2>3 DEF HandleResponse
<1>8. CASE ReceiveDone \/ TickLocalNode
  BY <1>8 DEF ReceiveDone, TickLocalNode, PendingOK
<1>9. ASSUME NEW c \in Calls, StartCall(c) PROVE WorkerPart'
  BY <1>9 DEF StartCall, PendingOK
<1>10. ASSUME NEW c \in Calls, SendCommand(c) PROVE WorkerPart'
  BY <1>10 DEF SendCommand, PendingOK
<1>11. ASSUME NEW c \in Calls, SendFails(c) \/ ReceiveReply(c) \/ GiveUp(c)
       PROVE  WorkerPart'
  BY <1>11 DEF SendFails, ReceiveReply, GiveUp, Return, PendingOK
<1>12. CASE CliDeadline
  <2>1. PendingOK'
    BY <1>12, NewPending DEF CliDeadline, PendingOK
  <2> QED
    BY <1>12, <2>1 DEF CliDeadline
<1>13. CASE PnpDeadline \/ WCooldownElapses \/ SignalShutdown
  BY <1>13 DEF PnpDeadline, WCooldownElapses, SignalShutdown, PendingOK
<1>14. CASE WRestart
  <2>1. PendingOK'
    BY <1>14 DEF WRestart, PendingOK
  <2>2. DOMAIN reply' = Calls /\ DOMAIN result' = Calls
    BY <1>14 DEF WRestart
  <2> QED
    BY <1>14, <2>1, <2>2, EmptyChannel DEF WRestart
<1>15. CASE UNCHANGED wvars
  BY <1>15 DEF wvars, PendingOK
<1> QED
  BY <1>0, <1>1, <1>2, <1>3, <1>4, <1>5, <1>6, <1>7, <1>8, <1>9, <1>10, <1>11,
     <1>12, <1>13, <1>14, <1>15
  DEF WNext, WorkerNext, CallerNext

LEMMA WorkerPartAlways == WSpec => []WorkerPart
BY WorkerPartInit, WorkerPartPreserved, PTL DEF WSpec

\* Every reachable state of the worker and its callers is well typed: the command
\* channel keeps its capacity, and the request pending is one that was called.
THEOREM WorkerTypeCorrect == WSpec => []WTypeOK
<1>1. TypeOK /\ WorkerPart => WTypeOK
  BY DEF WorkerPart, WTypeOK, PendingOK
<1>2. WSpec => Spec
  BY WorkerImplementsAllocator DEF ImplementsAllocator
<1> QED
  BY <1>1, <1>2, TypeCorrect, WorkerPartAlways, PTL

-----------------------------------------------------------------------------
(* What `diag` prints. *)

\* The requests pending and the responses counted, after any step.
LEMMA CountedStep ==
    ASSUME WorkerPart, ResponsesWereRequested, [WNext]_wvars
    PROVE  ResponsesWereRequested'
<1> USE DEF ResponsesWereRequested, Count, workerVars, clientVars
<1>0. requests_sent \in Nat /\ responses_received \in Nat
  BY WorkerAssumption DEF WorkerPart
<1>1. ASSUME UNCHANGED <<responses_received, requests_sent>>,
             pending_get_info' = pending_get_info \/ pending_get_info' = None
                \/ pending_get_info # None,
             in_flight' = in_flight \/ in_flight' = None
      PROVE  ResponsesWereRequested'
  BY <1>0, <1>1
<1>2. ASSUME NEW c \in Calls, SendGetInfo(c) PROVE ResponsesWereRequested'
  <2>1. /\ requests_sent' = requests_sent + 1
        /\ responses_received' = responses_received
        /\ UNCHANGED vars
    BY <1>2, Zenon DEF SendGetInfo
  <2>2. in_flight' = in_flight
    BY <2>1 DEF vars
  <2> QED
    BY <1>0, <2>1, <2>2
<1>3. CASE DispatchGetInfo
  <2>1. /\ requests_sent' = requests_sent + 1 /\ in_flight = None
        /\ UNCHANGED <<responses_received, pending_get_info>>
    BY <1>3, Zenon DEF DispatchGetInfo, PopGetInfoRequest
  <2> QED
    BY <1>0, <2>1
<1>4. ASSUME NEW id \in asked, NEW parsed \in BOOLEAN, HandleResponse(id, parsed)
      PROVE  ResponsesWereRequested'
  <2>1. MatchesPnp(id) => in_flight # None /\ in_flight' = None
    BY <1>4 DEF HandleResponse, GetInfoFailed, GetInfoAnswered
  <2>2. ~MatchesPnp(id) => in_flight' = in_flight
    BY <1>4 DEF HandleResponse, vars
  <2>3. /\ MatchesCli(id) => pending_get_info # None /\ pending_get_info' = None
        /\ ~MatchesCli(id) => pending_get_info' = pending_get_info
    BY <1>4 DEF HandleResponse, MatchesCli
  <2>4. /\ requests_sent' = requests_sent
        /\ responses_received' = responses_received
                                 + (IF MatchesCli(id) THEN 1 ELSE 0)
                                 + (IF MatchesPnp(id) THEN 1 ELSE 0)
    BY <1>4, Zenon DEF HandleResponse
  <2> QED
    BY <1>0, <2>1, <2>2, <2>3, <2>4
<1>5. CASE WRestart
  BY <1>5 DEF WRestart, Restart, new
<1>6. CASE Stop \/ Continue \/ Drained \/ CheckGetInfoTimeout
  BY <1>1, <1>6 DEF Stop, Continue, Drained, CheckGetInfoTimeout, vars
<1>7. ASSUME NEW c \in Calls, Query(c) \/ RefuseGetInfo(c) PROVE ResponsesWereRequested'
  BY <1>1, <1>7 DEF Query, RefuseGetInfo, vars
<1>8. CASE DispatchFails \/ NothingToDispatch \/ CheckPnpTimeout
  BY <1>1, <1>8 DEF DispatchFails, NothingToDispatch, CheckPnpTimeout, GetInfoNotSent,
                    GetInfoFailed, vars
<1>9. CASE HandleHeartbeat
  BY <1>1, <1>9 DEF HandleHeartbeat, OnHeartbeat, vars
<1>10. CASE HandleAllocation
  BY <1>1, <1>10 DEF HandleAllocation, IgnoreAllocation, OnAllocationV1, OnAllocationV2
<1>11. CASE ReceiveDone \/ TickLocalNode
  BY <1>1, <1>11 DEF ReceiveDone, TickLocalNode, vars
<1>12. CASE CallerNext
  BY <1>1, <1>12
  DEF CallerNext, StartCall, SendCommand, SendFails, ReceiveReply, GiveUp, vars
<1>13. CASE CliDeadline \/ PnpDeadline \/ SignalShutdown
  BY <1>1, <1>13 DEF CliDeadline, PnpDeadline, SignalShutdown, vars
<1>14. CASE WCooldownElapses
  BY <1>1, <1>14 DEF WCooldownElapses, CooldownElapses
<1>15. CASE UNCHANGED wvars
  BY <1>1, <1>15 DEF wvars, vars
<1> QED
  BY <1>2, <1>3, <1>4, <1>5, <1>6, <1>7, <1>8, <1>9, <1>10, <1>11, <1>12, <1>13,
     <1>14, <1>15
  DEF WNext, WorkerNext

\* However often responses are repeated or come late, and however many requests
\* one of them settles, no more of them are counted than requests were sent.
THEOREM ResponsesAddUp == WSpec => []ResponsesWereRequested
<1>1. WInit => ResponsesWereRequested
  BY DEF WInit, Init, ResponsesWereRequested, Count
<1> QED
  BY <1>1, CountedStep, WorkerPartAlways, PTL DEF WSpec

-----------------------------------------------------------------------------
(* Replies. *)

\* A call is in the channel once and is not the one pending; before it is in the
\* channel it has no reply; and RepliesNeverBlock, of the calls in either place.
NotTwice ==
    /\ \A i, j \in DOMAIN cmd_queue : cmd_queue[i] = cmd_queue[j] => i = j
    /\ pending_get_info # None =>
          \A i \in DOMAIN cmd_queue : cmd_queue[i] # pending_get_info.call
    /\ \A i \in DOMAIN cmd_queue : reply[cmd_queue[i]] = None
    /\ pending_get_info # None => reply[pending_get_info.call] = None
    /\ \A c \in Calls : call_state[c] \in {"unused", "sending"} =>
          /\ reply[c] = None
          /\ \A i \in DOMAIN cmd_queue : cmd_queue[i] # c
          /\ pending_get_info # None => pending_get_info.call # c

LEMMA NotTwiceMeans == NotTwice => RepliesNeverBlock
BY DEF NotTwice, RepliesNeverBlock, Held

\* Where the calls of the channel are after one of them is taken.
LEMMA TailOf ==
    ASSUME WorkerPart, NotTwice, NEW c, TakeCommand(c)
    PROVE  /\ \E k \in DOMAIN cmd_queue : cmd_queue[k] = c
           /\ \A i \in DOMAIN cmd_queue' :
                 /\ cmd_queue'[i] # c
                 /\ \E k \in DOMAIN cmd_queue : cmd_queue'[i] = cmd_queue[k]
           /\ \A i, j \in DOMAIN cmd_queue' : cmd_queue'[i] = cmd_queue'[j] => i = j
<1>1. /\ cmd_queue \in Seq(Calls) /\ cmd_queue # <<>>
      /\ cmd_queue' = Tail(cmd_queue)
      /\ c = Head(cmd_queue)
  BY DEF WorkerPart, TakeCommand
<1>2. /\ DOMAIN cmd_queue = 1..Len(cmd_queue)
      /\ DOMAIN cmd_queue' = 1..(Len(cmd_queue) - 1)
      /\ Len(cmd_queue) \in Nat \ {0}
      /\ c = cmd_queue[1]
  BY <1>1, HeadAndTail
<1>3. \A i \in DOMAIN cmd_queue' :
         /\ i \in Int /\ i + 1 \in DOMAIN cmd_queue /\ i + 1 # 1
         /\ cmd_queue'[i] = cmd_queue[i + 1]
  BY <1>1, <1>2, HeadAndTail
<1>4. \A i, j \in DOMAIN cmd_queue : cmd_queue[i] = cmd_queue[j] => i = j
  BY DEF NotTwice
<1>5. 1 \in DOMAIN cmd_queue
  BY <1>2
<1>6. \A i \in DOMAIN cmd_queue' : cmd_queue'[i] # c
  BY <1>2, <1>3, <1>4, <1>5
<1>7. \A i, j \in DOMAIN cmd_queue' : cmd_queue'[i] = cmd_queue'[j] => i = j
  BY <1>3, <1>4
<1> QED  BY <1>2, <1>3, <1>5, <1>6, <1>7

LEMMA AppendTo ==
    ASSUME cmd_queue \in Seq(Calls), NEW c \in Calls, cmd_queue' = Append(cmd_queue, c)
    PROVE  \A i \in DOMAIN cmd_queue' :
              \/ i \in DOMAIN cmd_queue /\ cmd_queue'[i] = cmd_queue[i]
              \/ i = Len(cmd_queue) + 1 /\ cmd_queue'[i] = c
OBVIOUS

\* The reply to c touches no other call.
LEMMA AnswerOthers ==
    ASSUME DOMAIN reply = Calls, NEW c, NEW v, Answer(c, v)
    PROVE  /\ \A d \in Calls : d # c => reply'[d] = reply[d]
           /\ call_state[c] # "waiting" => reply' = reply
BY DEF Answer

LEMMA NotTwicePreserved ==
    WorkerPart /\ NotTwice /\ [WNext]_wvars => NotTwice'
<1> SUFFICES ASSUME WorkerPart, NotTwice, [WNext]_wvars PROVE NotTwice'
  OBVIOUS
<1> USE DEF NotTwice, workerVars, clientVars
<1>0. /\ DOMAIN reply = Calls
      /\ cmd_queue \in Seq(Calls)
      /\ \A i \in DOMAIN cmd_queue : cmd_queue[i] \in Calls
      /\ pending_get_info # None => pending_get_info.call \in Calls
      /\ call_state \in [Calls -> CallStates]
  BY DEF WorkerPart, PendingOK
<1>1. ASSUME UNCHANGED <<cmd_queue, reply, call_state, pending_get_info>>
      PROVE  NotTwice'
  BY <1>1
<1>2. CASE Stop
  BY <1>2 DEF Stop
<1>3. CASE \/ Continue \/ Drained \/ DispatchGetInfo \/ DispatchFails
           \/ NothingToDispatch \/ CheckPnpTimeout \/ HandleHeartbeat
           \/ HandleAllocation \/ ReceiveDone \/ TickLocalNode
           \/ PnpDeadline \/ WCooldownElapses \/ SignalShutdown
  BY <1>1, <1>3, Zenon
  DEF Continue, Drained, DispatchGetInfo, DispatchFails, NothingToDispatch,
      CheckPnpTimeout, HandleHeartbeat, HandleAllocation, ReceiveDone, TickLocalNode,
      PnpDeadline, WCooldownElapses, SignalShutdown
<1>4. ASSUME NEW c \in Calls, Query(c) \/ RefuseGetInfo(c) PROVE NotTwice'
  <2>1. /\ TakeCommand(c) /\ UNCHANGED <<call_state, pending_get_info>>
        /\ \E v : Answer(c, v)
    BY <1>4, Zenon DEF Query, RefuseGetInfo
  <2>2. /\ \A d \in Calls : d # c => reply'[d] = reply[d]
        /\ call_state[c] # "waiting" => reply' = reply
    BY <1>0, <2>1, AnswerOthers
  <2> QED
    BY <1>0, <2>1, <2>2, TailOf
<1>5. ASSUME NEW c \in Calls, SendGetInfo(c) PROVE NotTwice'
  <2>1. /\ TakeCommand(c) /\ UNCHANGED <<call_state, reply>>
        /\ pending_get_info' = Pending(c, FALSE)
    BY <1>5, Zenon DEF SendGetInfo
  <2>2. pending_get_info'.call = c
    BY <2>1, NewPending
  <2>3. /\ \A i \in DOMAIN cmd_queue' :
              /\ cmd_queue'[i] # c
              /\ \E k \in DOMAIN cmd_queue : cmd_queue'[i] = cmd_queue[k]
        /\ \A i, j \in DOMAIN cmd_queue' : cmd_queue'[i] = cmd_queue'[j] => i = j
        /\ \E k \in DOMAIN cmd_queue : cmd_queue[k] = c
    BY <2>1, TailOf
  <2>4. /\ \A i \in DOMAIN cmd_queue' : reply[cmd_queue'[i]] = None
        /\ reply[c] = None
        /\ call_state[c] \notin {"unused", "sending"}
    BY <2>3
  <2>5. \A d \in Calls : call_state[d] \in {"unused", "sending"} =>
           /\ reply[d] = None /\ c # d
           /\ \A i \in DOMAIN cmd_queue' : cmd_queue'[i] # d
    BY <2>3, <2>4
  <2> QED
    BY <2>1, <2>2, <2>3, <2>4, <2>5
<1>6. ASSUME \E v : Answer(pending_get_info.call, v), pending_get_info # None,
             pending_get_info' = None, UNCHANGED <<cmd_queue, call_state>>
      PROVE  NotTwice'
  <2>1. /\ \A d \in Calls : d # pending_get_info.call => reply'[d] = reply[d]
        /\ call_state[pending_get_info.call] # "waiting" => reply' = reply
    BY <1>0, <1>6, AnswerOthers
  <2> QED
    BY <1>0, <1>6, <2>1
<1>7. CASE CheckGetInfoTimeout
  BY <1>1, <1>6, <1>7 DEF CheckGetInfoTimeout
<1>8. ASSUME NEW id \in asked, NEW parsed \in BOOLEAN, HandleResponse(id, parsed)
      PROVE  NotTwice'
  BY <1>1, <1>6, <1>8 DEF HandleResponse, MatchesCli
<1>9. ASSUME NEW c \in Calls, StartCall(c) PROVE NotTwice'
  BY <1>0, <1>9 DEF StartCall
<1>10. ASSUME NEW c \in Calls, SendCommand(c) PROVE NotTwice'
  <2>1. /\ cmd_queue' = Append(cmd_queue, c)
        /\ call_state[c] = "sending"
        /\ call_state' = [call_state EXCEPT ![c] = "waiting"]
        /\ UNCHANGED <<reply, pending_get_info>>
    BY <1>10, Zenon DEF SendCommand
  <2>2. \A i \in DOMAIN cmd_queue' :
           \/ i \in DOMAIN cmd_queue /\ cmd_queue'[i] = cmd_queue[i]
           \/ i = Len(cmd_queue) + 1 /\ cmd_queue'[i] = c
    BY <1>0, <2>1, AppendTo
  <2> QED
    BY <1>0, <2>1, <2>2
<1>11. ASSUME NEW c \in Calls, SendFails(c) \/ ReceiveReply(c) \/ GiveUp(c)
       PROVE  NotTwice'
  <2>1. /\ UNCHANGED <<cmd_queue, pending_get_info>>
        /\ call_state' = [call_state EXCEPT ![c] = "returned"]
        /\ reply' = reply \/ reply' = [reply EXCEPT ![c] = None]
    BY <1>11, Zenon DEF SendFails, ReceiveReply, GiveUp, Return
  <2> QED
    BY <1>0, <2>1
<1>12. CASE CliDeadline
  <2>1. /\ UNCHANGED <<cmd_queue, reply, call_state>> /\ pending_get_info # None
        /\ pending_get_info' = Pending(pending_get_info.call, TRUE)
    BY <1>12, Zenon DEF CliDeadline
  <2>2. pending_get_info'.call = pending_get_info.call
    BY <1>0, <2>1, NewPending
  <2> QED
    BY <1>0, <2>1, <2>2
<1>13. CASE WRestart
  BY <1>13 DEF WRestart
<1>14. CASE UNCHANGED wvars
  BY <1>1, <1>14 DEF wvars
<1> QED
  BY <1>2, <1>3, <1>4, <1>5, <1>7, <1>8, <1>9, <1>10, <1>11, <1>12, <1>13, <1>14
  DEF WNext, WorkerNext, CallerNext

\* No call is answered twice, so reply.send, into a channel of one slot, never
\* blocks the worker: whatever overtakes what.
THEOREM WorkerNeverBlocks == WSpec => []RepliesNeverBlock
<1>1. WInit => NotTwice
  BY DEF WInit, NotTwice
<1> QED
  BY <1>1, NotTwiceMeans, NotTwicePreserved, WorkerPartAlways, PTL DEF WSpec

-----------------------------------------------------------------------------
(* What the operator is told. *)

\* What a call may be told, as a reply or as its result.
Faithful(c, v) ==
    v # None => IF c.kind = "GetInfo" THEN v \in {Info(c.node_id), Failure}
                ELSE v.kind # "info"

\* Replies and results are faithful, and the request pending is a GetInfo.
FaithInv ==
    /\ \A c \in Calls : Faithful(c, reply[c]) /\ Faithful(c, result[c])
    /\ pending_get_info # None =>
          /\ pending_get_info.call.kind = "GetInfo"
          /\ pending_get_info.node_id = pending_get_info.call.node_id

LEMMA FaithAnswered ==
    ASSUME DOMAIN reply = Calls, FaithInv, NEW c \in Calls, NEW v, Faithful(c, v),
           Answer(c, v)
    PROVE  \A d \in Calls : Faithful(d, reply'[d])
<1>1. \A d \in Calls : reply'[d] = reply[d] \/ (d = c /\ reply'[d] = v)
  BY DEF Answer
<1> QED  BY <1>1 DEF FaithInv

LEMMA FaithReturned ==
    ASSUME DOMAIN result = Calls, FaithInv, NEW c \in Calls, NEW v, Faithful(c, v),
           Return(c, v)
    PROVE  \A d \in Calls : Faithful(d, result'[d])
<1>1. \A d \in Calls : result'[d] = result[d] \/ (d = c /\ result'[d] = v)
  BY DEF Return
<1> QED  BY <1>1 DEF FaithInv

LEMMA FaithPreserved ==
    WorkerPart /\ FaithInv /\ [WNext]_wvars => FaithInv'
<1> SUFFICES ASSUME WorkerPart, FaithInv, [WNext]_wvars PROVE FaithInv'
  OBVIOUS
<1> USE DEF workerVars, clientVars
<1>0. /\ DOMAIN reply = Calls /\ DOMAIN result = Calls
      /\ pending_get_info # None => pending_get_info.call \in Calls
  BY DEF WorkerPart, PendingOK
<1>1. ASSUME UNCHANGED <<reply, result>>,
             pending_get_info' = pending_get_info \/ pending_get_info' = None
      PROVE  FaithInv'
  BY <1>1 DEF FaithInv
<1>2. ASSUME NEW c \in Calls, NEW v, Faithful(c, v), Answer(c, v), UNCHANGED result,
             pending_get_info' = pending_get_info \/ pending_get_info' = None
      PROVE  FaithInv'
  <2>1. \A d \in Calls : Faithful(d, reply'[d])
    BY <1>0, <1>2, FaithAnswered
  <2> QED
    BY <1>2, <2>1 DEF FaithInv
<1>3. ASSUME NEW c \in Calls, NEW v, Faithful(c, v), Return(c, v),
             UNCHANGED pending_get_info,
             reply' = reply \/ reply' = [reply EXCEPT ![c] = None]
      PROVE  FaithInv'
  <2>1. \A d \in Calls : Faithful(d, result'[d])
    BY <1>0, <1>3, FaithReturned
  <2>2. \A d \in Calls : reply'[d] = reply[d] \/ reply'[d] = None
    BY <1>0, <1>3
  <2>3. \A d \in Calls : Faithful(d, reply'[d])
    BY <2>2 DEF FaithInv, Faithful
  <2> QED
    BY <1>3, <2>1, <2>3 DEF FaithInv
<1>4. CASE \/ Stop \/ Continue \/ Drained \/ DispatchGetInfo \/ DispatchFails
           \/ NothingToDispatch \/ CheckPnpTimeout \/ HandleHeartbeat
           \/ HandleAllocation \/ ReceiveDone \/ TickLocalNode
           \/ PnpDeadline \/ WCooldownElapses \/ SignalShutdown
  BY <1>1, <1>4, Zenon
  DEF Stop, Continue, Drained, DispatchGetInfo, DispatchFails, NothingToDispatch,
      CheckPnpTimeout, HandleHeartbeat, HandleAllocation, ReceiveDone, TickLocalNode,
      PnpDeadline, WCooldownElapses, SignalShutdown
<1>5. ASSUME NEW c \in Calls, Query(c) PROVE FaithInv'
  <2>1. c.kind \in Kinds /\ c.kind # "GetInfo"
    BY <1>5, WorkerAssumption DEF Query
  <2>2. /\ Nodes(observed_nodes).kind # "info"
        /\ Rows(Allocations).kind # "info"
        /\ Diag(requests_sent, responses_received).kind # "info"
    BY DEF Nodes, Rows, Diag
  <2>3. PICK v : /\ Answer(c, v)
                 /\ v \in {Nodes(observed_nodes), Rows(Allocations),
                           Diag(requests_sent, responses_received)}
    BY <1>5, <2>1, Zenon DEF Query, Kinds
  <2>4. Faithful(c, v)
    BY <2>1, <2>2, <2>3 DEF Faithful
  <2>5. UNCHANGED <<result, pending_get_info>>
    BY <1>5, Zenon DEF Query
  <2> QED
    BY <1>2, <2>3, <2>4, <2>5
<1>6. ASSUME NEW c \in Calls, SendGetInfo(c) PROVE FaithInv'
  <2>1. /\ c.kind = "GetInfo" /\ UNCHANGED <<reply, result>>
        /\ pending_get_info' = Pending(c, FALSE)
    BY <1>6, Zenon DEF SendGetInfo
  <2>2. pending_get_info'.call = c /\ pending_get_info'.node_id = c.node_id
    BY <2>1 DEF Pending
  <2> QED
    BY <2>1, <2>2 DEF FaithInv
<1>7. ASSUME NEW c \in Calls, RefuseGetInfo(c) PROVE FaithInv'
  BY <1>2, <1>7 DEF RefuseGetInfo, Faithful
<1>8. CASE CheckGetInfoTimeout
  <2>1. pending_get_info # None => Faithful(pending_get_info.call, Failure)
    BY DEF FaithInv, Faithful
  <2> QED
    BY <1>0, <1>1, <1>2, <1>8, <2>1 DEF CheckGetInfoTimeout
<1>9. ASSUME NEW id \in asked, NEW parsed \in BOOLEAN, HandleResponse(id, parsed)
      PROVE  FaithInv'
  <2>1. CASE MatchesCli(id)
    <3>1. /\ pending_get_info # None
          /\ Faithful(pending_get_info.call, IF parsed THEN Info(id) ELSE Failure)
      BY <2>1 DEF MatchesCli, FaithInv, Faithful
    <3> QED
      BY <1>0, <1>2, <1>9, <2>1, <3>1 DEF HandleResponse
  <2>2. CASE ~MatchesCli(id)
    BY <1>1, <1>9, <2>2 DEF HandleResponse
  <2> QED  BY <2>1, <2>2
<1>10. ASSUME NEW c \in Calls, StartCall(c) \/ SendCommand(c) PROVE FaithInv'
  BY <1>1, <1>10 DEF StartCall, SendCommand
<1>11. ASSUME NEW c \in Calls PROVE Faithful(c, GaveUp(c)) /\ Faithful(c, Gone(c))
  <2>1. c.kind \in Kinds
    BY WorkerAssumption
  <2> QED
    BY <2>1 DEF Kinds, Faithful, GaveUp, Gone, Nodes, Rows, Failure
<1>12. ASSUME NEW c \in Calls, SendFails(c) \/ GiveUp(c) PROVE FaithInv'
  BY <1>3, <1>11, <1>12 DEF SendFails, GiveUp
<1>13. ASSUME NEW c \in Calls, ReceiveReply(c) PROVE FaithInv'
  <2> DEFINE v == IF c.kind = "ListNodes"
                  THEN Nodes(reply[c].nodes \cup {local_node_id}) ELSE reply[c]
  <2>1. Faithful(c, v)
    BY DEF Faithful, FaithInv, Nodes
  <2>2. /\ Return(c, v) /\ UNCHANGED pending_get_info
        /\ reply' = [reply EXCEPT ![c] = None]
    BY <1>13 DEF ReceiveReply
  <2> QED
    BY <1>3, <2>1, <2>2
<1>14. CASE CliDeadline
  <2>1. /\ UNCHANGED <<reply, result>> /\ pending_get_info # None
        /\ pending_get_info' = Pending(pending_get_info.call, TRUE)
    BY <1>14, Zenon DEF CliDeadline
  <2> QED
    BY <2>1 DEF FaithInv, Pending
<1>15. CASE WRestart
  BY <1>15 DEF WRestart, FaithInv, Faithful
<1>16. CASE UNCHANGED wvars
  BY <1>1, <1>16 DEF wvars
<1> QED
  BY <1>4, <1>5, <1>6, <1>7, <1>8, <1>9, <1>10, <1>12, <1>13, <1>14, <1>15, <1>16
  DEF WNext, WorkerNext, CallerNext

\* An operator is told about the node asked for, or of a failure, though a response
\* is matched by its sender alone and requests are replaced by newer ones.
THEOREM OperatorIsToldOfTheNode == WSpec => []InfoIsOfTheNodeAsked
<1>1. WInit => FaithInv
  BY DEF WInit, FaithInv, Faithful
<1>2. FaithInv => InfoIsOfTheNodeAsked
  BY DEF FaithInv, Faithful, InfoIsOfTheNodeAsked
<1> QED
  BY <1>1, <1>2, FaithPreserved, WorkerPartAlways, PTL DEF WSpec
=============================================================================
