# A TLA+ development of cyphal_service

cyphal_service is a Rust program that joins a Cyphal network over several
transports at once (UDP, serial, SocketCAN and a gs_usb USB adapter). On every
transport it shows itself as a node, watches the heartbeats of the others,
hands out node IDs to plug-and-play (PNP) nodes from an SQLite table, and
answers the questions an operator types into a REPL. It also runs as a systemd
daemon without a REPL.

This directory holds TLA+ models of that program, the TLC configurations that
check them on small instances, and the theorems that TLAPS proves about them for
every instance. Line numbers below are those of the files under `src/`
(`db.rs` is `src/src/pnp/db.rs`, and so on). `PROJECT.json` lists the runs, the
theorems, the source lines of every definition, the hazards, and for each
property a wrong variant of the code that violates it.

## 1. The system

| Component | State it keeps | Operations | Interacts with |
|---|---|---|---|
| Allocation table, `db.rs` | one SQLite table `node_id UNIQUE, unique_id, pseudo_unique_id, timestamp`, on disk | three lookups, `next_free_id`, `insert_v1/v2`, `record_static_node`, `update_unique_id`, `list_all` | called by one allocator; other transports or processes may have the same file open |
| PNP allocator, `allocator.rs` | the local ID, the GetInfo queue, a cooldown map, all in memory | `new`, `on_allocation_v1/v2`, `on_heartbeat`, `pop_get_info_request`, `on_get_info_result` | owned by one worker |
| Transport worker, `udp.rs`, `serial.rs`, `can_socketcan.rs`, `can_gsusb.rs` and `WorkerState` in `transport/mod.rs` | the observed nodes, one pending GetInfo of the operator, one of the allocator, counters | one poll loop: drain commands, check deadlines, dispatch, receive, once-a-second work | a blocking thread per transport; a command channel of 16, a reply channel of 1 per call, a shutdown watch channel |
| Transport handle, `transport/mod.rs` | a sender of the command channel | `list_nodes`, `get_info`, `diagnostics`, `list_allocations` | the REPL thread; clones may be shared |
| gs_usb driver, `can_gsusb.rs` | a claimed USB interface, receive and transmit queues | `open`, control transfers in up to four shapes, bulk transfers, `Drop` | the adapter, the kernel's driver, other CAN tools |
| Process, `main.rs`, `daemon.rs`, `cli.rs`, `start_all` | which threads run, the shutdown channel, registered signal handlers | daemon and foreground mode | signals, systemd, the operator |
| Commands, `commands/` | none | choose the handles by name, call them one after another, print | handles of all transports |
| Configuration, `config.rs` | none after start | read TOML, default values | `main` |

What is hard here:

* **PNP.** Every answer must outlive restarts, and each handler is several SQL
  statements whose errors are mostly turned into default values (`.ok()`,
  `.unwrap_or(1)`). Placeholders live in the same column that v2 requests are
  looked up in: zeros for a static row, the padded hash for a v1 row. GetInfo
  answers overwrite placeholders long after they were asked for. Two allocators
  may share a file, and then the statements of their handlers interleave.
* **The worker.** Responses are matched by node ID only, two requests to one
  node may be pending, callers give up with a timeout of their own, sends on
  both kinds of channel block when these are full, and shutdown may come
  between any two lines of the loop. A worker may run without an allocator.
* **The process.** Threads start and stop in any order, two different
  conditions (a value in the watch channel, a dropped sender) stop different
  threads, and the process may only end after all of them. A command blocks the
  REPL on one worker after another, each of which may be starting or gone.
* **The adapter.** It is found in whatever state the last tool, or a killed
  process, left it in, every one of the transfers of `open` may fail, and the
  interface and bit timing are computed from what it says of itself.

What makes each part correct is the list of properties in section 3.

## 2. The modules

```
NodeIdAssignment            what a v1 node may rely on: a write-once assignment
   ^ implemented by PnpAllocator and by SharedDb
AllocationDb  <-  PnpAllocator  <-  PnpHistory          (history variables)
      ^                ^
      |                +---------  TransportWorker  <-  MCTransportWorker
      +---------  SharedDb  <-  MCSharedDb              (several allocators)
ServiceLifecycle  <-  ReplSession  <-  MCReplSession    (process, commands)
GsUsbSetup  <-  GsUsbDriver  <-  MCGsUsbDriver          (adapter)

AllocationDb_proof  <-  PnpAllocator_proof  <-  PnpHistory_proof
                               ^
                               +---  TransportWorker_proof
AllocationDb_proof  <-  SharedDb_proof
ServiceLifecycle_proof  <-  ReplSession_proof
GsUsbDriver_proof
```

`<-` is EXTENDS. The MC modules only define values for constants. A definition
under a comment *Wrong variant* belongs to no specification: it is the mutation
that a property of `PROJECT.json` is tested with.

**AllocationDb** (`db.rs`). A table is the sequence of its rows in insertion
order, because `SELECT ... LIMIT 1` without an index returns the oldest match,
and which match is returned turns out to matter. The 32 hex digits of a unique
ID are the number they spell, so the zero placeholder is 0 and the padded hash
is the hash. `next_free_id` takes the set of candidates whose `COUNT(*)` failed
(`unwrap_or(1)` makes them look taken). The timestamp column is left out.

**PnpAllocator** (`allocator.rs`). One action per method call, made by the
worker that owns it. Each takes the set `failing` of SQL statements that fail in
this call, a subset of the constant `SqlFaults`. `response` is what the call
returned. `in_flight` is the worker's `pnp_pending_get_info`; it is here because
nothing the allocator promises can be said without it. `Restart` makes a new
allocator on the same table, perhaps with another configured local ID.

**PnpHistory** adds the IDs ever heard and the replies ever sent, for properties
that relate states far apart.

**SharedDb** (`db.rs` and `allocator.rs` again, at the grain of one SQL
statement). Several allocators, of two transports with one `pnp_db_path` or of
two processes, on one file. A request is served in the steps `Find`, `Count`
(one per candidate), `Insert` and `Publish`, in the order of the code; between
any two, the other allocators take theirs, or the process is killed. A lost race
for an ID is a failing INSERT: no reply. The module also says who is behind a
request (`UidOf`), so that "two nodes with one ID" can be stated although one
device may ask as v1 on one bus and as v2 on another. For the hashes that only
one allocator hears it implements NodeIdAssignment, like PnpAllocator.

**TransportWorker** (`transport/mod.rs`, and `run_worker`, `handle_command`,
`handle_message` and `handle_response` of `udp.rs`) extends PnpAllocator: one
worker and the threads that call its handle. `pc` walks the loop's phases in
their order. Each command, each transfer received and each phase is one step;
between any two, callers run, deadlines pass, the shutdown value is set, or the
process ends and restarts. A deadline is a flag (`expired`, `pnp_expired`) that
becomes true at some time and is noticed where the loop compares it. `requester`
and `pnp` say whether the worker got its GetInfo requester and its allocator at
its start; a process may run without an allocator (PNP disabled, or the file
cannot be opened) between two that have one. The other transports run the same
loop around their own drivers; they differ in `Addressable` and `MaxNodeId` (127
on CAN). Where the code is the same in the four files, the source map cites one
of them for some definitions and another for others.

**ServiceLifecycle** (`main.rs`, `daemon.rs`, `cli.rs`, `start_all`). The main
task line by line, one state per thread, the watch channel as its value
(`shutdown`) and whether its sender lives (`sender`). Workers stop on the value
`true` alone; `run_tasks` also stops when the sender is dropped. Signals are
taken by a handler if one is registered and kill the process otherwise. SIGTERM
is registered before the `select!` (`listen`), SIGINT when the `select!` polls
`ctrl_c` (`first_poll`), which need not happen: `select!` begins with a random
branch and returns at the first that is ready. Where a `println!` meets a
terminal that is gone it panics: in the REPL, where the closure ends without
`send(true)` (`ReplAborts`, also after `quit` or end of input); in `run_tasks`,
which prints "hello" once a minute (`TasksPanic`) and is not missed before the
end; and in `cli::run` before the REPL (`MainPanics`). A panic of the main task,
there or at the `expect` of `shutdown_signal`, drops the runtime as it unwinds
(`unwind`), and that waits for the workers like the end of `main`.

**ReplSession** (`commands/` and `cli.rs`) extends ServiceLifecycle and refines
it. There the REPL is only "busy"; here a command has the positions of the
handles it still has to call (`calls`) and the state of the present call, and
each worker has a channel of bounded size, with the commands of earlier calls
that were abandoned in it. What one worker does with a command is
TransportWorker; what the commands print is left out.

**GsUsbSetup** (`find_gsusb_interface`, `compute_bittiming`): the two
computations of `open` as operators, with the code's 32-bit additions and its
divisions by zero, and what a bit timing has to meet as separate definitions
(`Meets`, `Exact`) that know nothing of the algorithm.

**GsUsbDriver** (`GsUsbDriver::open`, `write_control_candidates`,
`read_control_candidates`, `Drop`) against the adapter's state. `Steps` is the
order of the control transfers. `shape` is the candidate being tried: a stall
moves on to the next one. Where a transfer fails, the adapter may or may not
have carried it out. Other tools claim and leave the adapter in any state. A
panic of `compute_bittiming` unwinds through `open` and drops the handle.

## 3. What is checked

Five runs are expected to find a violation: the program does not do what a
comment or its README says. They are the findings of section 4.

### Runs that pass

**PnpAllocator.** Two v1 nodes and a v2 node compete for the IDs 1 and 3 (2 is
the local node), node 1 may be heard as a static one first, the local node hears
itself, and inserts, heartbeat records and updates fail at will. Safety:
`OneIdPerHash` (two v1 nodes never share an ID, one never holds two),
`ReplyIsRecorded` (no reply is sent that is not on disk),
`V1ReplyAssignable`, `QueriedIdsRecorded` (no GetInfo answer meets an ID without
a row), `V1MappingStable` (a mapping survives GetInfo answers, other nodes and
restarts), and `AssignmentSpec`: under the mapping at the end of
PnpAllocator.tla the allocator implements NodeIdAssignment for v1 nodes. Three
requesters for two IDs reach the exhausted table. Liveness:
`PlaceholderResolved`, an answering node's placeholder is replaced although a
silent node shares the queue. The silent node is the local one, which hears its
own heartbeats (the adapter echoes every frame it sends), records itself and
asks itself for GetInfo for ever. Inserts and updates fail finitely or
infinitely often as long as they also succeed.

**PnpHistory.** One v1 node, two v2 nodes, one of them with an all-zero unique
ID, the local ID changing between 1 and 2 at restarts, failing inserts, updates
and `COUNT(*)` queries: `GrantedOnce` (no ID is granted by two new allocations
in the life of the database), `V2GrantKept` (no late GetInfo answer overwrites
the unique ID of a v2 row), `V1SameAnswer`, `HeardNeverGranted`.

**SharedDb.** Allocator `can` has the local ID 1 and assigns up to 3, `udp` has 2
and assigns up to 4. Hash 5 is heard by both; hash 6 on `can` and the v2 unique
ID 7 on `udp` are one device; a node with the fixed ID 3 may be heard. Updates
fail and either process is killed anywhere. `NoSharedId` (two devices are never
told one ID, whoever they ask), `RowsPerListener` (two allocators may both
insert a row for one v1 node, but never more than one each), `SharedAssignment`
(the refinement), `Served` (a requester that repeats its request is answered, or
the IDs have run out, although the loser of a race gets no reply).

**WorkerSafety.** Two threads share a handle with a channel of one slot; two
GetInfos and a query overlap with the allocator's own GetInfo; responses come
late, twice, or unparsable; the worker stops and restarts anywhere, with an
allocator or without.
`RepliesNeverBlock` (the worker never sends a second reply on a one-slot
channel, where it would hang), `ResponsesWereRequested` (the counters of `diag`
add up although one response may settle two requests), `InfoIsOfTheNodeAsked`,
and `ImplementsAllocator`: the worker is a refinement of PnpAllocator, so what
holds of the allocator holds inside the loop; in particular the worker reports
every timeout and failed send to it.

**WorkerLiveness.** `CallReturns` (`cmd_tx.send` has no timeout, yet a call
returns when the channel is full of abandoned commands and when the worker
stops), `GetInfosSettle`, `WorkerStops`.

**Lifecycle** (ReplSession). Both modes, every failure, and three transports, two
of which have the same name, with channels of two slots. `ExitIsComplete` (a
process that ends by itself, also by a panic of the main task, leaves no worker
in its loop), `ReplHasItsWorkers` (no worker is stopped under the REPL;
`run_tasks` may be gone, but by its own panic only), `ProcessEnds` (after a
signal or `quit`, also while workers are still starting or a command is running,
and with `run_tasks` panicked; unless the REPL panics as it prints its last
line, which is finding 3), `CommandReturns` (the prompt comes back though a
command waits in several channels, some full, of workers that start, gave up or
stop), `STypeOK`.

**GsUsbFaults.** Six adapters (plain, composite, with another vendor interface
in front, with unusual endpoints, with none, with limits that overflow) at four
bitrates, 0 among them: `RunsConfigured` (the loop runs on a claimed channel
started with a timing that makes the configured bitrate), `SetupIsRight` (the
interface claimed is that of the CAN controller; a bitrate is refused with the
error only if no division of the clock makes it exactly, and by a panic only if
the bitrate or the smallest prescaler is 0), `RunsUnstalled`, `ClaimReleased`,
`OpenEnds`. The panic for a smallest prescaler of 0 also refuses bitrates that
the controller can make: a prescaler rounded to 0 may come before the right one.
For limits whose sum wraps at 32 bits (`Sane` is false) neither the timing nor
the error is judged.

### Bounds

* Two or three nodes, with one ID fewer than requesters, meet every conflict the
  table can have: the code only ever compares one key with one row. Restarts are
  unbounded.
* `MaxQueue` (2, or 1 under the worker) bounds the GetInfo queue, which the code
  does not bound. A heartbeat that would enqueue waits. Two places are enough for
  a stale request, a duplicate, and a request behind a silent node.
* Two allocators: every race is between the statements of two handlers.
* `MaxSends` (2) bounds the requests of one process: the operator's, and the
  allocator's or a second one of the operator's, with the late responses of
  both. `ChannelSize` is 1 in both worker runs (16 in the code), so one
  abandoned command fills it; 2 in Lifecycle, so that abandoned and present
  commands share a channel.
* The first process of the worker runs has an allocator, later ones may have
  none: a worker without one never looks at the table, so an empty one adds
  nothing.
* Calls of the handle are made once per process. `Diagnostics` and `ListNodes`
  stand for the queries; `ListAllocations` takes the same step (`Query`) with
  other contents. The theorems cover any set of calls.
* Three workers show one that failed, one that runs and one that starts.
* `Word` is 2^30 in GsUsbFaults and 2^32 in the code, because the integers of TLC
  have 32 bits; one adapter has limits whose sum wraps at `Word`.
* LifecycleSecondSignal and LifecycleNoEditor need two transports and no failure
  but their own.

### Fairness

* Worker: every phase of the loop is weakly fair. The loop has no unbounded
  wait: every `receive` returns after a timeout of a few milliseconds, and
  `RepliesNeverBlock` shows that its own sends do not block. `SendCommand` is
  strongly fair, because the channel serves blocked senders in turn. Deadlines
  pass. Nothing is assumed of the bus, of responses, of shutdown or restarts.
* `PlaceholderResolved`: a node that answers sends heartbeats for ever, its
  requests are not refused for ever and its answers are not late for ever
  (strong fairness for those nodes only); restarts come to an end, since each
  one forgets the queue.
* `Served`: threads run on, a requester repeats its request until it is
  answered, and each allocator is killed finitely often.
* Process: every thread runs until it blocks. ServiceLifecycle on its own
  (used by LifecycleNoEditor) assumes that a command returns; ReplSession
  replaces that assumption by the fairness of workers, calls and timeouts, and
  `CommandReturns` is the result. Nothing is assumed of the user or of signals.
* Adapter: a transfer returns (500 ms timeout), with success or not.

## 4. Findings

1. **PnpZeroUid.** `allocator.rs:48` calls the local ID "reserved, never
   assigned". A v2 request with an all-zero unique ID (an unprogrammed device)
   matches the zero placeholder of a static row. The allocator's own row is the
   oldest one, so the reply is the allocator's own ID.
2. **PnpV2Moves.** `README.md:374` says the same unique ID always gets the same
   node ID. A device heard on a static ID before it asks has a placeholder row
   and gets a second row as a v2 node; when the GetInfo answer fills in the
   placeholder, the older row wins and the next answer is the other ID.
3. **LifecycleNoEditor.** `cli.rs:108` signals the tasks "regardless of how the
   REPL exited". If `DefaultEditor::new` fails, the thread returns earlier.
   `run_tasks` notices the dropped sender; the workers wait for the value
   `true`, and the process hangs in the drop of the runtime. So it does when a
   `println!` of the REPL panics because the terminal is gone, in a command or
   in its last line (`cli.rs:84`, 98 and 102).
4. **GsUsbKernel.** `can_gsusb.rs:246` detaches "any existing kernel driver", but
   always that of interface 0, and then claims the interface it has found.
5. **LifecycleSecondSignal.** `daemon.rs:46` says that the daemon "exits cleanly
   on SIGTERM or SIGINT". A SIGTERM between its registration and the first poll
   of the `select!` may end that with `ctrl_c` never polled, so SIGINT has no
   handler; a SIGINT during the shutdown then kills the daemon, with workers in
   their loops and without STOPPING.

Four of the five promises have a theorem that says when they do hold (section
5): `LocalIsNeverAssigned` for 1, `V2AnswersAreTheSame` and
`V2ImplementsAssignment` for 2, `KernelDriverIsDetached` for 4,
`TermDoesNotInterrupt` and `WaitingDaemonIsNotKilled` for 5.

Met while modelling and not given a run:

* `README.md:374` also fails for a v1 node that two allocators of one file hear:
  both may insert a row, and one of them may answer twice with different IDs,
  because its lookup later finds the older row of the other. `RowsPerListener`
  and the restriction of `SharedAssignment` to hashes with one listener say how
  far it goes.
* `allocator.rs:27` speaks of a minimum time between two enqueues of a node, but
  a failed GetInfo clears the cooldown: a silent node is asked at the next
  heartbeat after each timeout.
* The adapter echoes what it sends and the driver does not look at `echo_id`, so
  the service takes its own heartbeats for those of a node and asks itself.
* A panic of the main task, at a `println!` of `cli::run` or the `expect` of
  `shutdown_signal`, drops the sender too, and the process hangs like in 3 unless
  every worker gave up at startup. A panic of `run_tasks` goes unnoticed until
  the shutdown.
* READY is announced before the signal handlers are registered, so an early
  SIGTERM kills a daemon without STOPPING; STOPPING is announced after the tasks
  have stopped, not before the clean shutdown as in the diagram at
  `README.md:248-255`.
* Stalled endpoints are cleared when the adapter is opened and not "on startup
  and shutdown" (`README.md:345-347`).
* A configured `pid` without a `vid` is ignored, unlike what `can_gsusb.rs:203`
  describes; error frames are reported as errors where a comment near
  `can_gsusb.rs:494` says they are skipped.

## 5. What is proved

All theorems are about the specifications that TLC checks, for every value of
the constants that meets the named ASSUMEs: the constants are sets of naturals,
`None` is neither a natural nor a reply, and the like. `PROJECT.json` lists the
theorems with the property each of them states. Two hypotheses are not constants'
types and recur:

* `"find" \notin SqlFaults`: no lookup fails. The code takes a failed lookup for
  "never seen" and gives a known node a second row.
* `OwnUids`, for v2 devices: the unique ID in a request is not zero, not the
  padded hash of a v1 node, and not one that a GetInfo answer reports. A
  programmed device that asks for an ID before it uses one is like this: the row
  it gets holds its unique ID and is never queried. What is left out is a device
  first heard under a fixed ID (or as a v1 node) that asks as v2 later, which is
  the case of PnpV2Moves, and the unprogrammed one of PnpZeroUid.

* **AllocationDb_proof** states what each query and statement returns or keeps
  (the first match is a row of the table; a free ID is in range and not taken;
  an append, and an update of the unique ID, keep first matches by hash).
* **PnpAllocator_proof.** `TypeCorrect` is inductive by itself.
  `V1MappingIsStable` needs only the types: rows are appended, and updates leave
  the hash alone. `RepliesAreRecorded` holds because each handler inserts before
  it answers. `V1RepliesAssignable` needs the invariant that every row with a
  hash has an assignable ID other than the local one: a reply may repeat an old
  row, so the reply alone is not inductive. It assumes one configured local ID
  and nothing about failing statements, the failed reservation included.
  `QueriedAreRecorded` adds that rows are never deleted. `HashesAreUnique`
  assumes that `find` does not fail: then a fresh row of a hash is appended only
  when no row has it. `ImplementsAssignment` shows the refinement under the
  same assumption: the initial state maps to an initial state, and each step to
  an Assign, Repeat, Reserve or a stutter. `IdsAreUnique` (no two rows with one
  ID) needs no assumption, lookups that fail included: a new
  allocation takes an ID that counts zero rows, and the row of an observed or
  local ID is ignored if it has one.
  For v2 devices under `OwnUids`: `V2RepliesAssignable`, and from it
  `LocalIsNeverAssigned`, and `V2ImplementsAssignment`, the same refinement with
  v2 devices for the nodes. Their rows are found by the column that GetInfo
  answers overwrite, so the invariant (`V2RowsKept`) adds that the row of a v2
  device is neither queued nor queried, and rests on `QueriesRecorded`.
* **PnpHistory_proof.** `IdsAreGrantedOnce`, `HeardIdsAreNotGranted` and
  `V2GrantsAreKept`, whichever statements fail and whatever local IDs are
  configured. The invariant ties the history to the table: every
  ID heard, granted or queried has a row, the row of a v2 grant has its key for
  unique ID and no hash, and its ID is neither queued nor asked for GetInfo. The
  last part is what `V2GrantsAreKept` rests on: an answer may come long after its
  request, so the ID must have had a row before it was queried, and a new
  allocation only takes IDs without one.
  `V1AnswersAreTheSame` follows from the stability of mappings if `find` does
  not fail, and `V2AnswersAreTheSame` likewise under `OwnUids`.
  `V1IdsAreNotShared` (no assumption) and `IdsAreNotShared` (`OwnUids`) say that
  two nodes are never told one ID, whether or not lookups fail: each reply still
  has its row with its own key, and an ID has one row.
* **SharedDb_proof.** `NoIdIsShared`, for any number of allocators and with every
  statement failing at will, lookups included: every ID that a handler holds at
  `publish`, or that was published, has a row owned by that request's device (by
  its hash, else by its unique ID), and IDs are unique. The owner of a row does
  not change, because only rows with a hash, or of no requester, are ever queried
  (`QueriesLearnable`). `SharingImplementsAssignment` if `find` does not
  fail. `RowsAreBounded` under the same assumption and for a finite set of
  allocators. The number of rows alone is not inductive; the rows of a hash and
  the allocators between `Find` and `Insert` for it together are (`CInv`): one
  starts to wait only while there is no row, and its INSERT makes one row of it.
* **TransportWorker_proof**, for any calls, channel size and number of threads.
  `WorkerImplementsAllocator` maps each step to one call of the allocator or to
  none, so every theorem of PnpAllocator_proof holds within the worker, and
  `WorkerTypeCorrect` uses one of them. `ResponsesAddUp` is inductive with the
  types. `WorkerNeverBlocks` needs the invariant that a call is in the channel
  at most once, is not at the same time the pending one, and has no reply before
  it is answered (`NotTwice`). `OperatorIsToldOfTheNode` follows the information
  from the pending request through the reply channel to the result (`FaithInv`).
  `WorkerImplementsAssignment` and `WorkerImplementsV2Assignment` compose the two
  refinements: what a node may rely on holds of the whole worker.
* **ServiceLifecycle_proof.** `TypeCorrect`, `ExitsComplete` and
  `ReplKeepsItsWorkers`. The last two need an invariant that ties the line of the
  main task to what has been started, stopped and announced, and a shutdown value
  of `true` to a main task past its wait or a REPL past its loop. `StopInv` adds
  which handlers a daemon has: that of SIGTERM from the first poll on, both in
  its wait. From it `TermDoesNotInterrupt` (SIGTERM never cuts a shutdown short)
  and `WaitingDaemonIsNotKilled` (a daemon that once waited is never killed by a
  signal: both handlers are there, and no step removes one). `StopOnlyMovesForward`
  is the safety half of `ProcessEnds`: the states of each thread are ordered, and
  once a shutdown was sent every step takes a thread, or a signal not seen yet,
  forward and none back. With finitely many transports that can only happen so
  often; that the steps are taken is fairness, which TLC checks.
* **ReplSession_proof.** `SessionIsALife` (the refinement), from which
  `SessionExitsComplete`, `SessionKeepsItsWorkers` and `SessionIsNotKilled`
  follow at once, and `SessionTypeCorrect`.
* **GsUsbDriver_proof.** `TypeCorrect`, `DriverRunsConfigured` (with the
  arithmetic: what the loops of `compute_bittiming` accept meets `Meets`),
  `ClaimAlwaysReleased` and `DriverRunsUnstalled`. The invariant says, for each
  phase and each position in `Steps`, whether the interface is claimed, which
  bit timing is stored and which endpoints are clear. `SetupAlwaysRight` assumes
  that the adapter's descriptors tell its CAN interface (`Recognisable`: some
  test of `find_gsusb_interface`, in their order, picks it alone; TLC evaluates
  it for the adapters of GsUsbFaults). Its other half is about refusals: if some
  division of the clock is exact (`Exact`), then the prescaler that the code
  rounds to is that one, so the loops do not end in vain (`ExactIsFound`), and a
  division by zero has one of two causes (`PanicHasCause`). `OpenIsBounded` is the
  safety half of `OpenEnds`: `StepsLeft` starts at 33, and every step of opening,
  of the cleanup and of `Drop` lowers it. `KernelDriverIsDetached` assumes that
  the CAN interface is number 0 and that the query for the driver is answered.

Only model-checked: all liveness (it needs fairness and ENABLED, which the prover
does not handle) and the runs that find a violation. Every invariant and every
action property of a passing run is a theorem.

## 6. What is not modelled

* The frame codec and the transmit path of the gs_usb driver (deadline, retry and
  queues), the byte driver of serial, the sockets of UDP and SocketCAN, and the
  canadensis library: a transfer arrives or not. Priorities, transfer IDs and
  publishing of heartbeats have no effect on the state modelled. The library is
  not part of the repository, and what the codec loses or mangles is a transfer
  that does not arrive.
* The search for the adapter among the USB devices.
* `SystemClock` and the wrap of its 32-bit microseconds: the comparison is in the
  library. Deadlines in the models pass at any time after they were set.
* Node ages, uptime, health and the message counters of `diag`: they are written
  and printed and decide nothing.
* Argument parsing and formatting; of the periodic "hello", all but that its
  `println!` may panic; deserialisation and default values of the configuration.
* In debug builds `compute_bittiming` panics where the model wraps: the model is
  the release build.
* A failed lookup in `find_by_*` is in the modules (`"find"` in `SqlFaults`) and
  in the theorems that do not exclude it; the runs leave it out, since the code
  takes it for "never seen" and gives a known node a second ID.

## 7. Plan

Done: the allocation table and its allocator, because they outlive everything
else; the worker; the process; the adapter; then several allocators on one file,
the commands of the REPL, the computations of `open`, the worker without an
allocator, and proofs for all safety properties.

Left, in this order:

1. `GsUsbFrame`: encoding and decoding of frames, the echo of own frames at the
   level of frames, and the transmit queue with its deadlines.
2. `WorkerDiagnostics`: the message counters of `diag` and the node list with
   ages, including observed nodes that are never removed.
3. That the last node of the bus to be queried is reached within a bounded number
   of loop turns.
