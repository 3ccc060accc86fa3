----------------------------- MODULE ReplSession -----------------------------
(***************************************************************************)
(* The commands of the REPL (src/src/commands, src/src/cli.rs) within the  *)
(* life of the process: a command that is typed makes its calls on the     *)
(* transport handles one after another, each waits in the bounded command  *)
(* channel of its worker, and workers start, give up and stop meanwhile.   *)
(*                                                                         *)
(* ServiceLifecycle knows only that the REPL is busy; this module says     *)
(* what it waits for.  What one worker does with a command is              *)
(* TransportWorker; here it takes commands in order while it runs.         *)
(***************************************************************************)
EXTENDS ServiceLifecycle, Sequences, Naturals

CONSTANTS
    Handles,      \* the transports in the order of the configuration
    NameOf,       \* transport -> its configured name; names may be equal
    Words,        \* what is typed for a name: configured ones and others
    ChannelSize   \* capacity of a command channel (16 in the code)

ASSUME SessionAssumption ==
    /\ Handles \in Seq(Workers)
    /\ NameOf \in [Workers -> Words]
    /\ ChannelSize \in Nat \ {0}

VARIABLES
    command,    \* what the REPL is busy with
    calls,      \* the positions in Handles that it still has to call
    call,       \* where the current call is
    queued      \* transport -> number of commands in its channel

sessionVars == <<command, calls, call, queued>>
svars == <<vars, sessionVars>>

Commands   == {"diag", "nodes", "pnp-list", "get-info", "hello"}
CallStates == {"none", "sending", "queued", "pending", "answered"}

SInit ==
    /\ Init
    /\ command = "none"
    /\ calls = {}
    /\ call = "none"
    /\ queued = [w \in Workers |-> 0]

-----------------------------------------------------------------------------
(* The commands. *)

First(S) == CHOOSE i \in S : \A j \in S : i <= j

Named(word) == {i \in DOMAIN Handles : NameOf[Handles[i]] = word}

\* The handles a command calls: all of them, those of a name, or for get-info
\* the first of the name; none for hello, help and whatever is refused.
CallsOf(cmd, args) ==
    CASE cmd \in {"diag", "nodes", "pnp-list"} ->
            IF args = <<>> THEN DOMAIN Handles ELSE Named(args[1])
      [] cmd = "get-info" /\ args # <<>> ->
            {i \in Named(args[1]) : i = First(Named(args[1]))}
      [] OTHER -> {}

\* readline returns a line, which is dispatched.
TypeCommand ==
    /\ ReplCommand
    /\ command' \in Commands
    /\ \E args \in {<<>>} \cup {<<word>> : word \in Words} :
          calls' = CallsOf(command', args)
    /\ call' = IF calls' = {} THEN "none" ELSE "sending"
    /\ UNCHANGED queued

\* The commands go through the handles in order.
Current == Handles[First(calls)]

\* Wrong variant: a worker that gave up at startup keeps its receiver.
Gone_StoppedOnly(w) == worker[w] = "stopped"

\* The worker has returned from run_worker and dropped its receiver.
Gone(w) == worker[w] \in {"stopped", "failed"}

\* The current call is one to w.
Waits(w) == Alive /\ calls # {} /\ Current = w

\* Wrong variant: the channel has no bound.
Send_Unbounded(w) ==
    /\ Waits(w) /\ call = "sending"
    /\ ~Gone(w)
    /\ call' = "queued"
    /\ queued' = [queued EXCEPT ![w] = @ + 1]
    /\ UNCHANGED <<vars, command, calls>>

\* cmd_tx.send: also to a worker that is still starting.
Send(w) ==
    /\ Waits(w) /\ call = "sending"
    /\ ~Gone(w)
    /\ queued[w] < ChannelSize
    /\ call' = "queued"
    /\ queued' = [queued EXCEPT ![w] = @ + 1]
    /\ UNCHANGED <<vars, command, calls>>

\* The call returns and the command goes on to the next handle.
NextCall ==
    /\ calls' = calls \ {First(calls)}
    /\ call' = IF calls' = {} THEN "none" ELSE "sending"

SendFails(w) ==
    /\ Waits(w) /\ call = "sending"
    /\ Gone(w)
    /\ NextCall
    /\ UNCHANGED <<vars, command, queued>>

ReceiveReply(w) ==
    /\ Waits(w) /\ call = "answered"
    /\ NextCall
    /\ UNCHANGED <<vars, command, queued>>

\* recv_timeout: the timeout passed, or the worker dropped the reply sender.  A
\* command that is still in the channel stays there.
GiveUp(w) ==
    /\ Waits(w) /\ call \in {"queued", "pending"}
    /\ NextCall
    /\ UNCHANGED <<vars, command, queued>>

\* println! of the output, and the prompt again.
PrintOutput ==
    /\ ReplOutput
    /\ calls = {}
    /\ command' = "none"
    /\ UNCHANGED <<calls, call, queued>>

\* No editor, or a panic while something is printed.
SReplAborts ==
    /\ ReplAborts
    /\ calls = {}
    /\ command' = "none"
    /\ UNCHANGED <<calls, call, queued>>

-----------------------------------------------------------------------------
(* The workers. *)

\* The loop takes the next command; a GetInfo is sent and answered later.  The
\* last one in the channel is that of the current call, if this one waits there;
\* the others were abandoned, and the replies to them are lost.
TakeCommand(w) ==
    /\ Alive /\ worker[w] = "running"
    /\ queued[w] > 0
    /\ queued' = [queued EXCEPT ![w] = @ - 1]
    /\ call' = IF Waits(w) /\ call = "queued" /\ queued[w] = 1
               THEN IF command = "get-info" THEN "pending" ELSE "answered"
               ELSE call
    /\ UNCHANGED <<vars, command, calls>>

\* A response to the GetInfo request, or its deadline.
SettleGetInfo(w) ==
    /\ Waits(w) /\ call = "pending"
    /\ worker[w] = "running"
    /\ call' = "answered"
    /\ UNCHANGED <<vars, command, calls, queued>>

\* A worker that ends drops its receiver with the commands in the channel.
SWorkerStep(w) ==
    /\ WorkerEnters(w) \/ WorkerStops(w)
    /\ queued' = IF worker'[w] = "running" THEN queued ELSE [queued EXCEPT ![w] = 0]
    /\ UNCHANGED <<command, calls, call>>

-----------------------------------------------------------------------------

\* The steps of the life that touch no command.
Elsewhere(A) == A /\ UNCHANGED sessionVars

SNext ==
    \/ Elsewhere(MainNext \/ TasksStop \/ TasksPanic)
    \/ Elsewhere(ReplReady \/ ReplQuit \/ ReplSignalsShutdown)
    \/ Elsewhere(\E s \in Signals : Signal(s))
    \/ TypeCommand \/ PrintOutput \/ SReplAborts
    \/ \E w \in Workers :
          \/ Send(w) \/ SendFails(w) \/ ReceiveReply(w) \/ GiveUp(w)
          \/ TakeCommand(w) \/ SettleGetInfo(w) \/ SWorkerStep(w)

SSpec == SInit /\ [][SNext]_svars

(***************************************************************************)
(* As in ServiceLifecycle, with the return of a command replaced by what   *)
(* it depends on: the REPL thread and the workers keep running, and the    *)
(* timeouts of the calls pass.                                             *)
(***************************************************************************)
SFairness ==
    /\ WF_svars(Elsewhere(MainNext)) /\ WF_svars(Elsewhere(TasksStop))
    /\ WF_svars(Elsewhere(ReplReady) \/ SReplAborts)
    /\ WF_svars(Elsewhere(ReplSignalsShutdown))
    /\ WF_svars(PrintOutput)
    /\ WF_svars(\E w \in Workers : Send(w) \/ SendFails(w))
    /\ WF_svars(\E w \in Workers : ReceiveReply(w) \/ GiveUp(w))
    /\ \A w \in Workers :
          /\ WF_svars(TakeCommand(w))
          /\ WF_svars(WorkerEnters(w) /\ SWorkerStep(w))
          /\ WF_svars(WorkerStops(w) /\ SWorkerStep(w))

FairSSpec == SSpec /\ SFairness

-----------------------------------------------------------------------------
(* Properties. *)

\* A call is being made exactly while the command has calls to make, and no
\* channel holds more than its capacity.
STypeOK ==
    /\ TypeOK
    /\ command \in Commands \cup {"none"}
    /\ calls \subseteq DOMAIN Handles
    /\ call \in CallStates
    /\ queued \in [Workers -> 0..ChannelSize]
    /\ calls = {} <=> call = "none"
    /\ command # "none" <=> repl = "busy"
    /\ command = "none" => calls = {}

\* A command returns to the prompt and "quit" can be typed, though send() has no
\* timeout: not when the workers are still starting and their channels are full
\* of abandoned commands, nor when a worker gave up at startup.
CommandReturns == repl = "busy" ~> (repl # "busy" \/ ~Alive)
=============================================================================
