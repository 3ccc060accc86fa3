------------------------ MODULE ServiceLifecycle_proof ------------------------
(***************************************************************************)
(* Safety of the shutdown for every set of transports: what a process that *)
(* ended has stopped, that a REPL never outlives its workers, and which    *)
(* signals cannot cut the shutdown of a daemon short.                      *)
(***************************************************************************)
EXTENDS ServiceLifecycle, Naturals, TLAPS

\* What is told to systemd, by the line the main task is at.
DaemonInv ==
    mode = "daemon" =>
        /\ repl = "none"
        /\ main \notin {"spawn_repl", "await_repl"}
        /\ main \notin {"load", "notify_ready", "unwind", "gone"} => "READY" \in notified
        /\ main = "drop_runtime" => notified = {"READY", "STOPPING"}

\* Until the REPL returns no value is sent, and while it runs the main task waits
\* for it and keeps the channel open; a main task that unwinds has started none.
ForegroundInv ==
    mode = "foreground" =>
        /\ notified = {}
        /\ main \in {"load", "start", "spawn", "spawn_repl", "await_repl",
                     "await_tasks", "drop_runtime", "unwind", "gone"}
        /\ main \in {"await_tasks", "drop_runtime"} => repl = "returned"
        /\ main \in {"load", "start", "spawn", "spawn_repl", "unwind"} => repl = "none"
        /\ main \in {"load", "start", "spawn"} => tasks = "none"
        /\ main = "spawn_repl" => tasks # "none"
        /\ repl \notin {"none", "returned"} => main = "await_repl" /\ tasks # "none"
        /\ repl # "returned" =>
              /\ ~shutdown
              /\ \A w \in Workers : worker[w] # "stopped"
              /\ main \notin {"unwind", "gone"} => sender /\ tasks # "stopped"

TasksInv ==
    main \in {"notify_stopping", "drop_runtime"} => tasks \in {"stopped", "panicked"}

Inv == TypeOK /\ TasksInv /\ DaemonInv /\ ForegroundInv /\ ExitIsComplete

LEMMA InvInitially == Init => Inv
<1> SUFFICES ASSUME Init PROVE Inv
  OBVIOUS
<1> QED
  BY LifecycleAssumption
  DEF Init, Inv, TypeOK, TasksInv, DaemonInv, ForegroundInv, ExitIsComplete,
      MainStates, TaskStates, WorkerStates, ReplStates

LEMMA InvPreserved == Inv /\ [Next]_vars => Inv'
<1> SUFFICES ASSUME Inv, [Next]_vars PROVE Inv'
  OBVIOUS
<1> USE LifecycleAssumption
    DEF Inv, TypeOK, TasksInv, DaemonInv, ForegroundInv, ExitIsComplete,
        MainStates, TaskStates, WorkerStates, ReplStates, Signals, Alive, Goto
<1>1. CASE LoadConfig
  BY <1>1 DEF LoadConfig
<1>2. CASE ConfigError
  BY <1>2 DEF ConfigError
<1>3. CASE NotifyReady
  BY <1>3 DEF NotifyReady
<1>4. ASSUME NEW w \in Workers, StartWorker(w) PROVE Inv'
  BY <1>4 DEF StartWorker
<1>5. CASE AllStarted
  BY <1>5 DEF AllStarted
<1>6. CASE SpawnTasks
  BY <1>6 DEF SpawnTasks
<1>7. CASE Listen
  BY <1>7 DEF Listen
<1>8. CASE ShutdownSignal
  BY <1>8 DEF ShutdownSignal, SignalArrives
<1>9. CASE SpawnRepl
  BY <1>9 DEF SpawnRepl
<1>10. CASE ReplReturned
  BY <1>10 DEF ReplReturned
<1>11. CASE AwaitTasks
  BY <1>11 DEF AwaitTasks
<1>12. CASE NotifyStopping
  BY <1>12 DEF NotifyStopping
<1>13. CASE DropRuntime
  BY <1>13 DEF DropRuntime
<1>14. CASE TasksStop
  <2>1. main \notin {"unwind", "gone"} /\ repl # "returned" => mode # "foreground"
    BY <1>14 DEF TasksStop
  <2>2. /\ exit = "no" /\ tasks' = "stopped"
        /\ UNCHANGED <<mode, main, worker, repl, sender, shutdown, handled, caught,
                       notified, exit>>
    BY <1>14 DEF TasksStop
  <2>3. TypeOK' /\ TasksInv' /\ DaemonInv' /\ ExitIsComplete'
    BY <2>2
  <2>4. ForegroundInv'
    BY <2>1, <2>2
  <2> QED  BY <2>3, <2>4
<1>15. ASSUME NEW w \in Workers, WorkerEnters(w) PROVE Inv'
  BY <1>15 DEF WorkerEnters
<1>16. ASSUME NEW w \in Workers, WorkerStops(w) PROVE Inv'
  BY <1>16 DEF WorkerStops, StopRequested
<1>17. CASE ReplNext
  <2> USE DEF ReplStep
  <2>1. CASE ReplReady
    BY <2>1 DEF ReplReady
  <2>2. CASE ReplCommand
    BY <2>2 DEF ReplCommand
  <2>3. CASE ReplOutput
    BY <2>3 DEF ReplOutput
  <2>4. CASE ReplQuit
    BY <2>4 DEF ReplQuit
  <2>5. CASE ReplSignalsShutdown
    BY <2>5 DEF ReplSignalsShutdown
  <2>6. CASE ReplAborts
    BY <2>6 DEF ReplAborts
  <2> QED
    BY <1>17, <2>1, <2>2, <2>3, <2>4, <2>5, <2>6 DEF ReplNext
<1>18. ASSUME NEW s \in Signals, Signal(s) PROVE Inv'
  <2>1. /\ caught' \subseteq handled
        /\ exit' \in {"no", s}
        /\ UNCHANGED <<mode, main, tasks, worker, repl, sender, shutdown, handled,
                       notified>>
    BY <1>18 DEF Signal
  <2>2. exit' \notin {"done", "panicked"}
    BY <2>1
  <2> QED  BY <2>1, <2>2
<1>19. CASE MainPanics
  BY <1>19 DEF MainPanics
<1>20. CASE TasksPanic
  BY <1>20 DEF TasksPanic
<1>21. CASE UNCHANGED vars
  BY <1>21 DEF vars
<1> QED
  BY <1>1, <1>2, <1>3, <1>4, <1>5, <1>6, <1>7, <1>8, <1>9, <1>10, <1>11, <1>12,
     <1>13, <1>14, <1>15, <1>16, <1>17, <1>18, <1>19, <1>20,
     <1>21
  DEF Next, MainNext

LEMMA InvAlways == Spec => []Inv
<1> QED
  BY InvInitially, InvPreserved, PTL DEF Spec

\* Every reachable state is well typed.
THEOREM TypeCorrect == Spec => []TypeOK
<1>1. Inv => TypeOK
  BY DEF Inv
<1> QED
  BY <1>1, InvAlways, PTL

\* A process that ended by itself has stopped every worker, also if it ended by a
\* panic; otherwise run_tasks and the REPL are over as well, and a daemon has
\* announced READY and STOPPING.
THEOREM ExitsComplete == Spec => []ExitIsComplete
<1>1. Inv => ExitIsComplete
  BY DEF Inv
<1> QED
  BY <1>1, InvAlways, PTL

\* While the REPL takes commands no worker was stopped under it, whatever panics,
\* and run_tasks has ended only if it panicked itself.
THEOREM ReplKeepsItsWorkers == Spec => []ReplHasItsWorkers
<1>1. Inv => ReplHasItsWorkers
  BY LifecycleAssumption
  DEF Inv, ReplHasItsWorkers, TypeOK, DaemonInv, ForegroundInv, TaskStates
<1> QED
  BY <1>1, InvAlways, PTL

-----------------------------------------------------------------------------
(* The second signal. *)

\* Nothing can kill the daemon any more: both handlers are registered.
Guarded == Signals \subseteq handled /\ exit \notin Signals

\* A daemon past the first poll of select! has both handlers, and one that has
\* begun its shutdown has that of SIGTERM.
StopInv ==
    mode = "daemon" =>
        /\ main = "first_poll" \/ shutdown => "SIGTERM" \in handled
        /\ main = "wait" => Guarded
        /\ shutdown => /\ main \in {"await_tasks", "notify_stopping",
                                    "drop_runtime", "gone"}
                       /\ exit # "SIGTERM"

LEMMA StopInvPreserved == Inv /\ StopInv /\ [Next]_vars => StopInv'
<1> SUFFICES ASSUME Inv, StopInv, [Next]_vars PROVE StopInv'
  OBVIOUS
<1> USE DEF StopInv, Guarded, Alive, Goto, Signals
<1>0. mode = "daemon" => repl = "none"
  BY DEF Inv, DaemonInv
<1>1. CASE LoadConfig \/ ConfigError \/ NotifyReady \/ AllStarted \/ SpawnTasks
  BY <1>1 DEF LoadConfig, ConfigError, NotifyReady, AllStarted, SpawnTasks
<1>2. ASSUME NEW w \in Workers, StartWorker(w) \/ WorkerEnters(w) \/ WorkerStops(w)
      PROVE  StopInv'
  BY <1>2 DEF StartWorker, WorkerEnters, WorkerStops
<1>3. CASE Listen
  BY <1>3 DEF Listen
<1>4. CASE ShutdownSignal
  BY <1>4 DEF ShutdownSignal, SignalArrives
<1>5. CASE SpawnRepl \/ ReplReturned \/ AwaitTasks \/ NotifyStopping \/ DropRuntime
           \/ MainPanics \/ TasksStop \/ TasksPanic
  BY <1>5 DEF SpawnRepl, ReplReturned, AwaitTasks, NotifyStopping, DropRuntime,
     MainPanics, TasksStop, TasksPanic
<1>6. CASE ReplNext
  BY <1>0, <1>6
  DEF ReplNext, ReplReady, ReplCommand, ReplOutput, ReplQuit, ReplSignalsShutdown,
      ReplAborts, ReplStep
<1>7. ASSUME NEW s \in Signals, Signal(s) PROVE StopInv'
  BY <1>7 DEF Signal
<1>8. CASE UNCHANGED vars
  BY <1>8 DEF vars
<1> QED
  BY <1>1, <1>2, <1>3, <1>4, <1>5, <1>6, <1>7, <1>8 DEF Next, MainNext

\* A step kills the process only by a signal that has no handler, and no step
\* takes a handler away.
LEMMA HandlersStay ==
    ASSUME [Next]_vars
    PROVE  /\ exit' = exit \/ exit' \in {"done", "config_error", "panicked"}
              \/ \E s \in Signals : s \notin handled /\ exit' = s
           /\ handled \subseteq handled'
BY DEF Next, MainNext, LoadConfig, ConfigError, NotifyReady, StartWorker, AllStarted,
       SpawnTasks, Listen, ShutdownSignal, SignalArrives, SpawnRepl, ReplReturned,
       AwaitTasks, NotifyStopping, DropRuntime, MainPanics, TasksStop, TasksPanic,
       WorkerEnters, WorkerStops, ReplNext, ReplReady, ReplCommand, ReplOutput,
       ReplQuit, ReplSignalsShutdown, ReplAborts, ReplStep, Signal, Goto, vars

\* SIGTERM, the signal that systemd stops a service with, does not cut a shutdown
\* short however often it is sent; LifecycleSecondSignal is about SIGINT.
TermNotInterrupting == [][mode = "daemon" /\ shutdown => exit' # "SIGTERM"]_vars

\* Once a daemon has polled both branches of its select!, no signal kills it, before
\* its shutdown or during it.
WaitingIsSafe == [](mode = "daemon" /\ main = "wait" => [](exit \notin Signals))

\* The shutdown of a daemon is not interrupted by SIGTERM.
THEOREM TermDoesNotInterrupt == Spec => TermNotInterrupting
<1>1. Init => StopInv
  BY DEF Init, StopInv
<1>2. StopInv /\ [Next]_vars => [mode = "daemon" /\ shutdown => exit' # "SIGTERM"]_vars
  BY HandlersStay DEF StopInv
<1> QED
  BY <1>1, <1>2, InvAlways, StopInvPreserved, PTL DEF Spec, TermNotInterrupting

\* A daemon that waits for signals is killed by none, from then on: of the daemons
\* that begin a shutdown only those that never polled ctrl_c can be cut short.
THEOREM WaitingDaemonIsNotKilled == Spec => WaitingIsSafe
<1>1. Init => StopInv
  BY DEF Init, StopInv
<1>2. StopInv => (mode = "daemon" /\ main = "wait" => Guarded)
  BY DEF StopInv
<1>3. Guarded /\ [Next]_vars => Guarded'
  BY HandlersStay DEF Guarded, Signals
<1>4. Guarded => exit \notin Signals
  BY DEF Guarded
<1> QED
  BY <1>1, <1>2, <1>3, <1>4, InvAlways, StopInvPreserved, PTL DEF Spec, WaitingIsSafe

-----------------------------------------------------------------------------
(***************************************************************************)
(* The length of a shutdown.  Threads have an order of states, and once    *)
(* the shutdown has begun every step takes one of them forward and none    *)
(* back: it is over after at most as many steps as there are states in the *)
(* threads, and ProcessEnds needs no more than that threads do run.        *)
(***************************************************************************)
MainRank   == [await_repl |-> 0, await_tasks |-> 1, notify_stopping |-> 2,
               drop_runtime |-> 3, gone |-> 4]
TasksRank  == [none |-> 0, running |-> 1, stopped |-> 2, panicked |-> 2]
WorkerRank == [none |-> 0, starting |-> 1, running |-> 2, stopped |-> 3, failed |-> 3]

Backward ==
    \/ MainRank[main'] < MainRank[main]
    \/ TasksRank[tasks'] < TasksRank[tasks]
    \/ \E w \in Workers : WorkerRank[worker'[w]] < WorkerRank[worker[w]]
    \/ repl' # repl \/ shutdown' # shutdown
    \/ caught \ caught' # {}

Forward ==
    \/ MainRank[main] < MainRank[main']
    \/ TasksRank[tasks] < TasksRank[tasks']
    \/ \E w \in Workers : WorkerRank[worker[w]] < WorkerRank[worker'[w]]
    \/ caught' \ caught # {}      \* a signal, of which there are two
    \/ exit = "no" /\ exit' \in Signals

\* No step of a shutdown undoes one, and none leaves every rank where it was.
StopMovesForward == [][shutdown => Forward /\ ~Backward]_vars

\* What a step of each kind does to the ranks, stated without the actions.
LEMMA MainMoves ==
    ASSUME MainRank[main] < MainRank[main'], MainRank[main] \in Nat,
           MainRank[main'] \in Nat, UNCHANGED <<tasks, worker, repl, caught, shutdown>>,
           TasksRank[tasks] \in Nat,
           \A w \in Workers : WorkerRank[worker[w]] \in Nat
    PROVE  Forward /\ ~Backward
<1> QED  BY DEF Forward, Backward

\* ... of one worker: the others keep their ranks.
LEMMA WorkerMoves ==
    ASSUME NEW w \in Workers, NEW s \in WorkerStates,
           worker \in [Workers -> WorkerStates],
           worker' = [worker EXCEPT ![w] = s], WorkerRank[worker[w]] < WorkerRank[s],
           UNCHANGED <<main, tasks, repl, caught, shutdown>>,
           MainRank[main] \in Nat, TasksRank[tasks] \in Nat
    PROVE  Forward /\ ~Backward
<1>1. \A x \in Workers : WorkerRank[worker[x]] \in Nat
  BY DEF WorkerRank, WorkerStates
<1>2. WorkerRank[s] \in Nat
  BY DEF WorkerRank, WorkerStates
<1>3. worker'[w] = s /\ \A x \in Workers \ {w} : worker'[x] = worker[x]
  OBVIOUS
<1> QED  BY <1>1, <1>2, <1>3 DEF Forward, Backward

LEMMA StopStepMoves ==
    Inv /\ StopInv /\ [Next]_vars => [shutdown => Forward /\ ~Backward]_vars
<1> SUFFICES ASSUME Inv, StopInv, Next, shutdown, vars' # vars
             PROVE  Forward /\ ~Backward
  OBVIOUS
<1> USE DEF Alive, Goto
<1>1. /\ main \in {"await_repl", "await_tasks", "notify_stopping", "drop_runtime", "gone"}
      /\ repl \in {"none", "returned"}
      /\ tasks \in TaskStates /\ worker \in [Workers -> WorkerStates]
  BY LifecycleAssumption DEF Inv, TypeOK, DaemonInv, ForegroundInv, StopInv
<1>2. /\ MainRank[main] \in Nat /\ TasksRank[tasks] \in Nat
      /\ \A w \in Workers : WorkerRank[worker[w]] \in Nat
  BY <1>1 DEF TaskStates, WorkerStates, MainRank, TasksRank, WorkerRank
<1>3. CASE ReplReturned \/ AwaitTasks \/ NotifyStopping \/ DropRuntime
  <2> DEFINE moves == <<main, main'>>
  <2>0. moves \in {<<"await_repl", "await_tasks">>, <<"await_tasks", "notify_stopping">>,
                   <<"await_tasks", "drop_runtime">>,
                   <<"notify_stopping", "drop_runtime">>, <<"drop_runtime", "gone">>}
    BY <1>1, <1>3 DEF ReplReturned, AwaitTasks, NotifyStopping, DropRuntime
  <2>1. MainRank[main'] \in Nat /\ MainRank[main] < MainRank[main']
    BY <2>0 DEF MainRank
  <2>2. UNCHANGED <<tasks, worker, repl, caught, shutdown>>
    BY <1>3 DEF ReplReturned, AwaitTasks, NotifyStopping, DropRuntime
  <2> QED  BY <1>2, <2>1, <2>2, MainMoves
<1>4. CASE TasksStop \/ TasksPanic
  <2>1. /\ tasks = "running" /\ tasks' \in {"stopped", "panicked"}
        /\ UNCHANGED <<main, worker, repl, shutdown, caught>>
    BY <1>4 DEF TasksStop, TasksPanic
  <2>2. TasksRank[tasks] < TasksRank[tasks']
    BY <2>1 DEF TasksRank
  <2>3. TasksRank[tasks'] \in Nat
    BY <2>1 DEF TasksRank
  <2> QED  BY <1>2, <2>1, <2>2, <2>3 DEF Forward, Backward
<1>5. ASSUME NEW w \in Workers, WorkerEnters(w) \/ WorkerStops(w)
      PROVE  Forward /\ ~Backward
  <2>1. PICK s \in WorkerStates :
          worker' = [worker EXCEPT ![w] = s] /\ WorkerRank[worker[w]] < WorkerRank[s]
    <3>1. PICK s \in {"running", "stopped", "failed"} :
            /\ worker' = [worker EXCEPT ![w] = s]
            /\ worker[w] \in {"starting", "running"}
            /\ worker[w] = "running" => s = "stopped"
      BY <1>5 DEF WorkerEnters, WorkerStops
    <3>2. s \in WorkerStates /\ WorkerRank[worker[w]] < WorkerRank[s]
      BY <3>1 DEF WorkerStates, WorkerRank
    <3> QED  BY <3>1, <3>2
  <2>2. UNCHANGED <<main, tasks, repl, caught, shutdown>>
    BY <1>5 DEF WorkerEnters, WorkerStops
  <2> QED  BY <1>1, <1>2, <2>1, <2>2, WorkerMoves
<1>6. ASSUME NEW s \in Signals, Signal(s) PROVE Forward /\ ~Backward
  BY <1>1, <1>2, <1>6 DEF Signal, Forward, Backward, vars
<1>7. /\ ~LoadConfig /\ ~ConfigError /\ ~NotifyReady /\ ~AllStarted /\ ~SpawnTasks
      /\ ~Listen /\ ~ShutdownSignal /\ ~SpawnRepl /\ ~MainPanics
      /\ \A w \in Workers : ~StartWorker(w)
  BY <1>1 DEF LoadConfig, ConfigError, NotifyReady, AllStarted, SpawnTasks, Listen,
     ShutdownSignal, SignalArrives, SpawnRepl, MainPanics, StartWorker
<1>8. ~ReplNext
  BY <1>1 DEF ReplNext, ReplReady, ReplCommand, ReplOutput, ReplQuit,
     ReplSignalsShutdown, ReplAborts, ReplStep
<1> QED
  BY <1>3, <1>4, <1>5, <1>6, <1>7, <1>8 DEF Next, MainNext

\* Once a shutdown was sent, in either mode, for any number of transports and
\* whatever state their threads are in, no thread starts or goes back, and every
\* step takes one of them, or a signal not seen yet, forward.
THEOREM StopOnlyMovesForward == Spec => StopMovesForward
<1>1. Init => StopInv
  BY DEF Init, StopInv
<1> QED
  BY <1>1, InvAlways, StopInvPreserved, StopStepMoves, PTL DEF Spec, StopMovesForward
=============================================================================
