-------------------------- MODULE ReplSession_proof --------------------------
(***************************************************************************)
(* The commands of the REPL and the life of the process, for any set of    *)
(* transports, any names and any channel size.                             *)
(***************************************************************************)
EXTENDS ReplSession, ServiceLifecycle_proof

LEMMA InitMaps == SInit => Init
BY DEF SInit

\* Every step of the session is a step of the life, or changes nothing of it.
LEMMA StepMaps == [SNext]_svars => [Next]_vars
<1> SUFFICES ASSUME [SNext]_svars PROVE [Next]_vars
  OBVIOUS
<1>1. CASE Elsewhere(MainNext \/ TasksStop \/ TasksPanic)
  BY <1>1 DEF Elsewhere, Next
<1>2. CASE Elsewhere(ReplReady \/ ReplQuit \/ ReplSignalsShutdown)
  BY <1>2 DEF Elsewhere, Next, ReplNext
<1>3. CASE Elsewhere(\E s \in Signals : Signal(s))
  BY <1>3 DEF Elsewhere, Next
<1>4. CASE TypeCommand
  BY <1>4 DEF TypeCommand, Next, ReplNext
<1>5. CASE PrintOutput
  BY <1>5 DEF PrintOutput, Next, ReplNext
<1>6. CASE SReplAborts
  BY <1>6 DEF SReplAborts, Next, ReplNext
<1>7. ASSUME NEW w \in Workers, SWorkerStep(w) PROVE [Next]_vars
  BY <1>7 DEF SWorkerStep, Next
<1>8. ASSUME NEW w \in Workers,
             \/ Send(w) \/ SendFails(w) \/ ReceiveReply(w) \/ GiveUp(w)
             \/ TakeCommand(w) \/ SettleGetInfo(w)
      PROVE  UNCHANGED vars
  BY <1>8, Zenon DEF Send, SendFails, ReceiveReply, GiveUp, TakeCommand, SettleGetInfo
<1>9. CASE UNCHANGED svars
  BY <1>9 DEF svars
<1> QED
  BY <1>1, <1>2, <1>3, <1>4, <1>5, <1>6, <1>7, <1>8, <1>9 DEF SNext

\* The REPL with its commands is a refinement of the life of the process: what
\* is proved of the one holds for the other.
THEOREM SessionIsALife == SSpec => Spec
<1> QED
  BY InitMaps, StepMaps, PTL DEF SSpec, Spec

\* No command, whatever it waits for, makes the process end with a thread cut off.
THEOREM SessionExitsComplete == SSpec => []ExitIsComplete
<1> QED
  BY SessionIsALife, ExitsComplete, PTL

\* No transport is stopped under a command, whatever panics.
THEOREM SessionKeepsItsWorkers == SSpec => []ReplHasItsWorkers
<1> QED
  BY SessionIsALife, ReplKeepsItsWorkers, PTL

\* What is proved of the signals holds whatever the workers and their channels do.
THEOREM SessionIsNotKilled == SSpec => TermNotInterrupting /\ WaitingIsSafe
<1> QED
  BY SessionIsALife, TermDoesNotInterrupt, WaitingDaemonIsNotKilled, PTL

-----------------------------------------------------------------------------

SessionPart ==
    /\ command \in Commands \cup {"none"}
    /\ calls \subseteq DOMAIN Handles
    /\ call \in CallStates
    /\ queued \in [Workers -> 0..ChannelSize]
    /\ calls = {} <=> call = "none"
    /\ command # "none" <=> repl = "busy"
    /\ command = "none" => calls = {}

\* A step of the life that touches no command leaves the REPL out of "busy": in
\* particular the REPL is spawned only once (Inv).
LEMMA ElsewhereNotBusy ==
    ASSUME Inv,
           Elsewhere(MainNext \/ TasksStop \/ TasksPanic)
           \/ Elsewhere(ReplReady \/ ReplQuit \/ ReplSignalsShutdown)
           \/ Elsewhere(\E s \in Signals : Signal(s))
    PROVE  /\ repl' = "busy" <=> repl = "busy"
           /\ UNCHANGED <<command, calls, call, queued>>
<1> USE DEF Elsewhere, sessionVars
<1>1. CASE Elsewhere(TasksStop \/ TasksPanic) \/ Elsewhere(\E s \in Signals : Signal(s))
  BY <1>1 DEF TasksStop, TasksPanic, Signal
<1>2. CASE Elsewhere(ReplReady \/ ReplQuit \/ ReplSignalsShutdown)
  BY <1>2 DEF ReplReady, ReplQuit, ReplSignalsShutdown, ReplStep
<1>3. CASE Elsewhere(MainNext)
  <2>1. CASE SpawnRepl
    BY <1>3, <2>1, LifecycleAssumption
    DEF SpawnRepl, Goto, Inv, TypeOK, DaemonInv, ForegroundInv
  <2>2. CASE ~SpawnRepl
    BY <1>3, <2>2
    DEF MainNext, LoadConfig, ConfigError, NotifyReady, StartWorker, AllStarted,
        SpawnTasks, Listen, ShutdownSignal, SignalArrives, ReplReturned, AwaitTasks,
        NotifyStopping, DropRuntime, MainPanics, Goto
  <2> QED  BY <2>1, <2>2
<1> QED  BY <1>1, <1>2, <1>3

LEMMA SessionPartPreserved == Inv /\ SessionPart /\ [SNext]_svars => SessionPart'
<1> SUFFICES ASSUME Inv, SessionPart, [SNext]_svars PROVE SessionPart'
  OBVIOUS
<1> USE SessionAssumption DEF SessionPart, CallStates
<1>1. CASE \/ Elsewhere(MainNext \/ TasksStop \/ TasksPanic)
           \/ Elsewhere(ReplReady \/ ReplQuit \/ ReplSignalsShutdown)
           \/ Elsewhere(\E s \in Signals : Signal(s))
  BY <1>1, ElsewhereNotBusy
<1>2. CASE TypeCommand
  <2>1. calls' \subseteq DOMAIN Handles
    BY <1>2 DEF TypeCommand, CallsOf, Named, Commands
  <2> QED
    BY <1>2, <2>1 DEF TypeCommand, ReplCommand, ReplStep, Commands
<1>3. CASE PrintOutput \/ SReplAborts
  BY <1>3 DEF PrintOutput, SReplAborts, ReplOutput, ReplAborts, ReplStep
<1>4. ASSUME NEW w \in Workers, Send(w) PROVE SessionPart'
  BY <1>4 DEF Send, Waits, vars
<1>5. ASSUME NEW w \in Workers, SendFails(w) \/ ReceiveReply(w) \/ GiveUp(w)
      PROVE  SessionPart'
  BY <1>5 DEF SendFails, ReceiveReply, GiveUp, NextCall, Waits, vars
<1>6. ASSUME NEW w \in Workers, TakeCommand(w) PROVE SessionPart'
  BY <1>6 DEF TakeCommand, Waits, vars
<1>7. ASSUME NEW w \in Workers, SettleGetInfo(w) PROVE SessionPart'
  BY <1>7 DEF SettleGetInfo, Waits, vars
<1>8. ASSUME NEW w \in Workers, SWorkerStep(w) PROVE SessionPart'
  BY <1>8 DEF SWorkerStep, WorkerEnters, WorkerStops
<1>9. CASE UNCHANGED svars
  BY <1>9 DEF svars, sessionVars, vars
<1> QED
  BY <1>1, <1>2, <1>3, <1>4, <1>5, <1>6, <1>7, <1>8, <1>9 DEF SNext

\* Every reachable state of the session is well typed: a call is under way only
\* for a command, and no channel exceeds its capacity.
THEOREM SessionTypeCorrect == SSpec => []STypeOK
<1>1. SInit => SessionPart
  <2> SUFFICES ASSUME SInit PROVE SessionPart
    OBVIOUS
  <2> QED
    BY SessionAssumption DEF SInit, Init, SessionPart, CallStates
<1>2. Inv /\ SessionPart => STypeOK
  BY DEF Inv, SessionPart, STypeOK
<1> QED
  BY <1>1, <1>2, SessionIsALife, InvAlways, SessionPartPreserved, PTL DEF SSpec
=============================================================================
