--------------------------- MODULE ServiceLifecycle ---------------------------
(***************************************************************************)
(* The life of the process (src/src/main.rs, daemon.rs, cli.rs, and        *)
(* start_all of transport/mod.rs): the main task in daemon or foreground   *)
(* mode, run_tasks, one blocking thread per transport worker, the REPL     *)
(* thread, the shutdown watch channel between them, signals and sd_notify. *)
(*                                                                         *)
(* A worker is only what the shutdown depends on: it may give up at        *)
(* startup, and otherwise polls the channel once per loop.                 *)
(***************************************************************************)
EXTENDS FiniteSets

CONSTANTS
    Workers,   \* the configured transports
    Modes,     \* a subset of {"daemon", "foreground"}
    Failures   \* what may go wrong:
               \* "config"   the configuration does not load,
               \* "startup"  a worker gives up,
               \* "editor"   the line editor cannot be created,
               \* "handlers" a signal handler cannot be registered,
               \* "panic"    println! panics, as the terminal is gone

Signals == {"SIGTERM", "SIGINT"}

ASSUME LifecycleAssumption ==
    /\ Modes \subseteq {"daemon", "foreground"}
    /\ Failures \subseteq {"config", "startup", "editor", "handlers", "panic"}

VARIABLES
    mode,
    main,       \* the line the main task is at
    tasks,      \* run_tasks
    worker,     \* worker -> state of its thread
    repl,       \* the REPL thread
    sender,     \* shutdown_tx has not been dropped
    shutdown,   \* the value of the watch channel
    handled,    \* signals whose handler is registered
    caught,     \* signals a registered handler has seen
    notified,   \* what systemd was told
    exit        \* "no", "done", "config_error", "panicked", or the signal
                \* that killed the process

vars == <<mode, main, tasks, worker, repl, sender, shutdown, handled, caught,
          notified, exit>>

MainStates   == {"load", "notify_ready", "start", "spawn", "spawn_repl",
                 "listen", "first_poll", "wait", "await_repl", "await_tasks",
                 "notify_stopping", "drop_runtime", "unwind", "gone"}
TaskStates   == {"none", "running", "stopped", "panicked"}
WorkerStates == {"none", "starting", "running", "stopped", "failed"}
ReplStates   == {"none", "init", "reading", "busy", "goodbye", "returned"}

TypeOK ==
    /\ mode \in Modes
    /\ main \in MainStates
    /\ tasks \in TaskStates
    /\ worker \in [Workers -> WorkerStates]
    /\ repl \in ReplStates
    /\ sender \in BOOLEAN /\ shutdown \in BOOLEAN
    /\ handled \subseteq Signals /\ caught \subseteq handled
    /\ notified \subseteq {"READY", "STOPPING"}
    /\ exit \in {"no", "done", "config_error", "panicked"} \cup Signals

Init ==
    /\ mode \in Modes
    /\ main = "load"
    /\ tasks = "none"
    /\ worker = [w \in Workers |-> "none"]
    /\ repl = "none"
    /\ sender = TRUE
    /\ shutdown = FALSE
    /\ handled = {}
    /\ caught = {}
    /\ notified = {}
    /\ exit = "no"

Alive == exit = "no"

Goto(from, to) == Alive /\ main = from /\ main' = to

-----------------------------------------------------------------------------
(* The main task: main, then daemon::run or cli::run. *)

LoadConfig ==
    /\ Alive /\ main = "load"
    /\ main' = IF mode = "daemon" THEN "notify_ready" ELSE "start"
    /\ UNCHANGED <<mode, tasks, worker, repl, sender, shutdown, handled, caught,
                   notified, exit>>

\* A file that does not load ends the process with status 1.
ConfigError ==
    /\ "config" \in Failures
    /\ Goto("load", "gone")
    /\ exit' = "config_error"
    /\ UNCHANGED <<mode, tasks, worker, repl, sender, shutdown, handled, caught,
                   notified>>

NotifyReady ==
    /\ Goto("notify_ready", "start")
    /\ notified' = notified \cup {"READY"}
    /\ UNCHANGED <<mode, tasks, worker, repl, sender, shutdown, handled, caught,
                   exit>>

\* start_all hands each worker to a blocking thread and waits for none.
StartWorker(w) ==
    /\ Alive /\ main = "start"
    /\ worker[w] = "none"
    /\ worker' = [worker EXCEPT ![w] = "starting"]
    /\ UNCHANGED <<mode, main, tasks, repl, sender, shutdown, handled, caught,
                   notified, exit>>

AllStarted ==
    /\ Goto("start", "spawn")
    /\ \A w \in Workers : worker[w] # "none"
    /\ UNCHANGED <<mode, tasks, worker, repl, sender, shutdown, handled, caught,
                   notified, exit>>

SpawnTasks ==
    /\ Goto("spawn", IF mode = "daemon" THEN "listen" ELSE "spawn_repl")
    /\ tasks' = "running"
    /\ UNCHANGED <<mode, worker, repl, sender, shutdown, handled, caught,
                   notified, exit>>

\* shutdown_signal registers SIGTERM; ctrl_c registers SIGINT, when it is polled.
Listen ==
    /\ \/ Goto("listen", "first_poll") /\ handled' = handled \cup {"SIGTERM"}
       \/ Goto("first_poll", "wait") /\ handled' = handled \cup {"SIGINT"}
    /\ UNCHANGED <<mode, tasks, worker, repl, sender, shutdown, caught, notified,
                   exit>>

\* select! returns for either signal.  It polls its branches from a random one on:
\* a SIGTERM before the first poll may end it with ctrl_c never polled; so does
\* an error of ctrl_c.
SignalArrives ==
    \/ Goto("wait", "await_tasks") /\ caught # {}
    \/ Goto("first_poll", "await_tasks") /\ (caught # {} \/ "handlers" \in Failures)

\* Wrong variant: nothing is sent.
ShutdownSignal_NoSend ==
    /\ SignalArrives
    /\ UNCHANGED <<mode, tasks, worker, repl, sender, shutdown, handled, caught,
                   notified, exit>>

\* ... then shutdown_tx.send(true).
ShutdownSignal ==
    /\ SignalArrives
    /\ shutdown' = TRUE
    /\ UNCHANGED <<mode, tasks, worker, repl, sender, handled, caught, notified,
                   exit>>

\* spawn_blocking moves the sender into the REPL thread.
SpawnRepl ==
    /\ Goto("spawn_repl", "await_repl")
    /\ repl' = "init"
    /\ UNCHANGED <<mode, tasks, worker, sender, shutdown, handled, caught,
                   notified, exit>>

ReplReturned ==
    /\ Goto("await_repl", "await_tasks")
    /\ repl = "returned"
    /\ UNCHANGED <<mode, tasks, worker, repl, sender, shutdown, handled, caught,
                   notified, exit>>

AwaitTasks ==
    /\ Goto("await_tasks",
            IF mode = "daemon" THEN "notify_stopping" ELSE "drop_runtime")
    /\ tasks \in {"stopped", "panicked"}
    /\ UNCHANGED <<mode, tasks, worker, repl, sender, shutdown, handled, caught,
                   notified, exit>>

\* daemon::run returns and drops its sender.
NotifyStopping ==
    /\ Goto("notify_stopping", "drop_runtime")
    /\ notified' = notified \cup {"STOPPING"}
    /\ sender' = FALSE
    /\ UNCHANGED <<mode, tasks, worker, repl, shutdown, handled, caught, exit>>

\* The main task panics, in cli::run at a println! before the REPL, or where the
\* handler of SIGTERM is expected: the sender goes with it.
MainPanics ==
    /\ \/ "panic" \in Failures /\ Goto("spawn_repl", "unwind")
       \/ "handlers" \in Failures /\ Goto("listen", "unwind")
    /\ sender' = FALSE
    /\ UNCHANGED <<mode, tasks, worker, repl, shutdown, handled, caught, notified,
                   exit>>

\* Wrong variant: the blocking threads are not joined.
DropRuntime_NoJoin ==
    /\ \/ Goto("drop_runtime", "gone") /\ exit' = "done"
       \/ Goto("unwind", "gone") /\ exit' = "panicked"
    /\ UNCHANGED <<mode, tasks, worker, repl, sender, shutdown, handled, caught,
                   notified>>

\* Dropping the tokio runtime, also while unwinding, joins every blocking thread.
DropRuntime ==
    /\ \/ Goto("drop_runtime", "gone") /\ exit' = "done"
       \/ Goto("unwind", "gone") /\ exit' = "panicked"
    /\ \A w \in Workers : worker[w] \in {"stopped", "failed"}
    /\ UNCHANGED <<mode, tasks, worker, repl, sender, shutdown, handled, caught,
                   notified>>

-----------------------------------------------------------------------------
(* run_tasks, the workers and the REPL. *)

\* changed() also returns, with an error, when the sender is dropped.
TasksStop ==
    /\ Alive /\ tasks = "running"
    /\ shutdown \/ ~sender
    /\ tasks' = "stopped"
    /\ UNCHANGED <<mode, main, worker, repl, sender, shutdown, handled, caught,
                   notified, exit>>

\* println!("hello"), once a minute: the task ends, and nobody looks until the end.
TasksPanic ==
    /\ Alive /\ tasks = "running"
    /\ "panic" \in Failures
    /\ tasks' = "panicked"
    /\ UNCHANGED <<mode, main, worker, repl, sender, shutdown, handled, caught,
                   notified, exit>>

WorkerEnters(w) ==
    /\ Alive /\ worker[w] = "starting"
    /\ \/ worker' = [worker EXCEPT ![w] = "running"]
       \/ "startup" \in Failures /\ worker' = [worker EXCEPT ![w] = "failed"]
    /\ UNCHANGED <<mode, main, tasks, repl, sender, shutdown, handled, caught,
                   notified, exit>>

\* `shutdown.has_changed().unwrap_or(true) && *shutdown.borrow()`: a dropped
\* sender alone stops no worker.
StopRequested == (shutdown \/ ~sender) /\ shutdown

WorkerStops(w) ==
    /\ Alive /\ worker[w] = "running"
    /\ StopRequested
    /\ worker' = [worker EXCEPT ![w] = "stopped"]
    /\ UNCHANGED <<mode, main, tasks, repl, sender, shutdown, handled, caught,
                   notified, exit>>

ReplStep(from, to) ==
    /\ Alive /\ repl = from /\ repl' = to
    /\ UNCHANGED <<mode, main, tasks, worker, handled, caught, notified, exit>>

ReplReady   == ReplStep("init", "reading") /\ UNCHANGED <<sender, shutdown>>
ReplCommand == ReplStep("reading", "busy") /\ UNCHANGED <<sender, shutdown>>
ReplOutput  == ReplStep("busy", "reading") /\ UNCHANGED <<sender, shutdown>>

\* Wrong variant: quit signals the shutdown but does not leave the loop.
ReplQuit_NoBreak == ReplStep("reading", "reading") /\ shutdown' = TRUE /\ UNCHANGED sender

\* quit, exit, end of input, Ctrl-C or a readline error: a last line is printed.
ReplQuit == ReplStep("reading", "goodbye") /\ UNCHANGED <<sender, shutdown>>

\* Wrong variant: the sender is dropped without a send.
ReplSignalsShutdown_DropOnly ==
    /\ ReplStep("goodbye", "returned")
    /\ sender' = FALSE
    /\ UNCHANGED shutdown

ReplSignalsShutdown ==
    /\ ReplStep("goodbye", "returned")
    /\ shutdown' = TRUE
    /\ sender' = FALSE

\* No editor, or a panic while it prints the output of a command or the last
\* line: the closure ends without send(true) and its sender is dropped.
ReplAborts ==
    /\ \/ "editor" \in Failures /\ ReplStep("init", "returned")
       \/ "panic" \in Failures /\ ReplStep("busy", "returned")
       \/ "panic" \in Failures /\ ReplStep("goodbye", "returned")
    /\ sender' = FALSE
    /\ UNCHANGED shutdown

-----------------------------------------------------------------------------
(* The environment: without a handler a signal kills the process. *)

Signal(s) ==
    /\ Alive
    /\ IF s \in handled
       THEN caught' = caught \cup {s} /\ UNCHANGED exit
       ELSE exit' = s /\ UNCHANGED caught
    /\ UNCHANGED <<mode, main, tasks, worker, repl, sender, shutdown, handled,
                   notified>>

MainNext ==
    \/ LoadConfig \/ ConfigError \/ NotifyReady
    \/ \E w \in Workers : StartWorker(w)
    \/ AllStarted \/ SpawnTasks \/ Listen \/ ShutdownSignal
    \/ SpawnRepl \/ ReplReturned \/ AwaitTasks \/ NotifyStopping \/ DropRuntime
    \/ MainPanics

ReplNext == ReplReady \/ ReplCommand \/ ReplOutput \/ ReplQuit
            \/ ReplSignalsShutdown \/ ReplAborts

Next ==
    \/ MainNext
    \/ TasksStop \/ TasksPanic
    \/ \E w \in Workers : WorkerEnters(w) \/ WorkerStops(w)
    \/ ReplNext
    \/ \E s \in Signals : Signal(s)

Spec == Init /\ [][Next]_vars

(***************************************************************************)
(* Every thread keeps running until it blocks; a command of the REPL       *)
(* returns, as ReplSession shows (CommandReturns).  Nothing is assumed of  *)
(* signals and of the user.                                                *)
(***************************************************************************)
Fairness ==
    /\ WF_vars(MainNext)
    /\ WF_vars(TasksStop)
    /\ \A w \in Workers : WF_vars(WorkerEnters(w)) /\ WF_vars(WorkerStops(w))
    /\ WF_vars(ReplReady \/ ReplAborts) /\ WF_vars(ReplOutput)
    /\ WF_vars(ReplSignalsShutdown)

FairSpec == Spec /\ Fairness

-----------------------------------------------------------------------------
(* Properties. *)

\* When the process ends by itself no worker is cut off: each has left its loop or
\* never entered it.  If no panic of the main task ends it, run_tasks and the REPL
\* are over too, and systemd heard READY and STOPPING from a daemon.
ExitIsComplete ==
    /\ exit \in {"done", "panicked"} =>
          \A w \in Workers : worker[w] \in {"stopped", "failed"}
    /\ exit = "done" =>
          /\ tasks \in {"stopped", "panicked"}
          /\ repl = IF mode = "daemon" THEN "none" ELSE "returned"
          /\ notified = IF mode = "daemon" THEN {"READY", "STOPPING"} ELSE {}

\* While the operator can type a command, no transport has been stopped under
\* the REPL, nor the background tasks, unless they ended by a panic of their own.
ReplHasItsWorkers ==
    repl \in {"reading", "busy"} =>
        /\ tasks \in {"running", "panicked"}
        /\ \A w \in Workers : worker[w] # "stopped"

\* "exits cleanly on SIGTERM or SIGINT" (daemon.rs:46): a second signal, during the
\* shutdown that the first one started, does not cut the shutdown short.
StopNotInterrupted ==
    [][mode = "daemon" /\ shutdown => exit' \notin Signals]_vars

\* The REPL is over and has sent nothing.
ReplAborted == repl = "returned" /\ ~shutdown

\* "Starts run_tasks and exits cleanly on SIGTERM or SIGINT" (daemon.rs:46): a
\* signal that is caught ends the process, and so does leaving the REPL, even while
\* workers still start or after run_tasks has panicked; unless the REPL panics
\* as it says goodbye, which is ReplEndEndsProcess again.
ProcessEnds ==
    (caught # {} \/ repl = "goodbye") ~> (~Alive \/ ReplAborted)

\* "When the REPL exits the background tasks are signalled to stop" (cli.rs:26),
\* "regardless of how the REPL exited" (cli.rs:108), and the process ends.
ReplEndEndsProcess == repl = "returned" ~> ~Alive
=============================================================================
