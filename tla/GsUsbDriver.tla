----------------------------- MODULE GsUsbDriver -----------------------------
(***************************************************************************)
(* Opening, using and dropping a gs_usb adapter                            *)
(* (src/src/transport/can_gsusb.rs: GsUsbDriver::open, its control         *)
(* transfers, and Drop), against a device that another tool, or a process  *)
(* that was killed, left in any state.  Every USB transfer may fail.       *)
(*                                                                         *)
(* Firmwares differ in the request type, value and index they accept, so   *)
(* each control transfer is tried in up to four shapes; a stall (Pipe)     *)
(* moves on to the next shape and any other error ends the transfer.       *)
(***************************************************************************)
EXTENDS GsUsbSetup

CONSTANTS
    Adapters,  \* what adapters say of themselves; can is their CAN interface
    Bitrates,  \* the configured bitrate
    Accepted,  \* the sets of shapes that some firmware accepts
    Faults     \* a subset of {"usb", "kill"}

Descriptor == [number : Nat, class : 0..255,
               endpoints : Seq([bulk : BOOLEAN, address : 0..255])]

Shapes == 1..4
Endpoints == {"in", "out"}

\* Wrong variant: the channel is started before its bit timing is set.
Steps_StartFirst == <<"host_format", "device_config", "bt_const", "reset", "start",
                      "bittiming">>

\* The control transfers of open, in order.
Steps == <<"host_format", "device_config", "bt_const", "reset", "bittiming",
           "start">>

ASSUME DriverAssumption ==
    /\ Adapters \subseteq [interfaces : Seq(Descriptor), bt : BtConst, can : Nat]
    /\ Bitrates \subseteq Nat
    /\ Accepted \subseteq SUBSET Shapes
    /\ Faults \subseteq {"usb", "kill"}

VARIABLES
    phase,    \* where the worker thread is
    step,     \* the control transfer of open under way
    shape,    \* the shape it is tried in
    adapter,  \* the adapter that was found
    bitrate,  \* the configured bitrate
    chosen,   \* the bit timing that open computes of the two
    accepts,  \* the shapes its firmware accepts
    kernel,   \* interfaces bound to a kernel driver
    owner,    \* who has claimed the interface: "none", "service", "other"
    mode,     \* "reset" or "started"
    timing,   \* the bit timing stored, None if it is another tool's ...
    active,   \* ... and the one in force since the last start
    halted    \* stalled bulk endpoints

hostVars == <<phase, step, shape>>
deviceVars == <<mode, timing, active, halted>>
given == <<adapter, bitrate, chosen, accepts>>
vars == <<hostVars, given, kernel, owner, deviceVars>>

number == find_gsusb_interface(adapter.interfaces)
Numbers(a) == {0} \cup {a.interfaces[i].number : i \in DOMAIN a.interfaces}

Phases == {"closed", "detach", "claim", "clear_in", "clear_out", "control",
           "running", "drop", "release"}
Opening == {"detach", "claim", "clear_in", "clear_out", "control"}

TypeOK ==
    /\ phase \in Phases
    /\ step \in DOMAIN Steps /\ shape \in Shapes
    /\ adapter \in Adapters /\ bitrate \in Bitrates /\ accepts \in Accepted
    /\ kernel \subseteq Numbers(adapter)
    /\ owner \in {"none", "service", "other"}
    /\ mode \in {"reset", "started"}
    /\ timing \in {None, chosen} /\ active \in {None, chosen}
    /\ halted \subseteq Endpoints

Init ==
    /\ phase = "closed" /\ step = 1 /\ shape = 1
    /\ adapter \in Adapters
    /\ bitrate \in Bitrates
    /\ chosen = compute_bittiming(bitrate, adapter.bt)
    /\ accepts \in Accepted
    /\ kernel \in SUBSET Numbers(adapter)
    /\ owner = "none"
    /\ mode \in {"reset", "started"}
    /\ timing = None /\ active = None
    /\ halted \in SUBSET Endpoints

Goto(from, to) == phase = from /\ phase' = to

-----------------------------------------------------------------------------
(* GsUsbDriver::open on an adapter that was found and opened, up to the     *)
(* claim: an error only closes the handle.                                  *)

Open ==
    /\ Goto("closed", "detach")
    /\ step' = 1 /\ shape' = 1
    /\ UNCHANGED <<given, kernel, owner, deviceVars>>

\* The code asks for, and detaches, the driver of interface 0.
DetachKernelDriver ==
    /\ Goto("detach", "claim")
    /\ kernel' = kernel \ {0}
    /\ UNCHANGED <<step, shape, given, owner, deviceVars>>

\* kernel_driver_active(0).unwrap_or(false)
DetachSkipped ==
    /\ "usb" \in Faults
    /\ Goto("detach", "claim")
    /\ UNCHANGED <<step, shape, given, kernel, owner, deviceVars>>

DetachFails ==
    /\ "usb" \in Faults
    /\ 0 \in kernel
    /\ Goto("detach", "closed")
    /\ UNCHANGED <<step, shape, given, kernel, owner, deviceVars>>

Claimable == owner = "none" /\ number \notin kernel

ClaimInterface ==
    /\ Goto("claim", "clear_in")
    /\ Claimable
    /\ owner' = "service"
    /\ UNCHANGED <<step, shape, given, kernel, deviceVars>>

ClaimFails ==
    /\ ~Claimable \/ "usb" \in Faults
    /\ Goto("claim", "closed")
    /\ UNCHANGED <<step, shape, given, kernel, owner, deviceVars>>

-----------------------------------------------------------------------------
(* The rest of open: the GsUsbDriver value exists, so an error drops it. *)

\* Wrong variant: only the IN endpoint is cleared.
ClearHalt_InOnly ==
    /\ \/ Goto("clear_in", "clear_out") /\ halted' = halted \ {"in"}
       \/ Goto("clear_out", "control") /\ UNCHANGED halted
    /\ UNCHANGED <<step, shape, given, kernel, owner, mode, timing,
                   active>>

ClearHalt ==
    /\ \/ Goto("clear_in", "clear_out") /\ halted' = halted \ {"in"}
       \/ Goto("clear_out", "control") /\ halted' = halted \ {"out"}
    /\ UNCHANGED <<step, shape, given, kernel, owner, mode, timing,
                   active>>

\* What the device does with a transfer it accepts.
Effect(s) ==
    /\ mode'   = CASE s = "reset" -> "reset"
                   [] s = "start" -> "started"
                   [] OTHER       -> mode
    /\ timing' = IF s = "bittiming" THEN chosen ELSE timing
    /\ active' = IF s = "start" THEN timing ELSE active
    /\ UNCHANGED halted

\* set_bittiming is only called with a timing.
Ready == Steps[step] = "bittiming" => chosen \notin {None, Panic}

Control ==
    /\ phase = "control"
    /\ Ready
    /\ shape \in accepts
    /\ Effect(Steps[step])
    /\ shape' = 1
    /\ IF step = Len(Steps)
       THEN phase' = "running" /\ UNCHANGED step
       ELSE phase' = phase /\ step' = step + 1
    /\ UNCHANGED <<given, kernel, owner>>

\* Wrong variants: after the last shape the first is tried again; a fifth is tried.
NextShape_Again(from, exhausted) ==
    /\ phase = from
    /\ shape \notin accepts
    /\ shape' = IF shape = 4 THEN 1 ELSE shape + 1
    /\ UNCHANGED <<phase, step, given, kernel, owner, deviceVars>>

NextShape_OneMore(from, exhausted) ==
    /\ phase = from
    /\ shape \notin accepts
    /\ IF shape > 4
       THEN phase' = exhausted /\ shape' = 1
       ELSE phase' = phase /\ shape' = shape + 1
    /\ UNCHANGED <<step, given, kernel, owner, deviceVars>>

NextShape(from, exhausted) ==
    /\ phase = from
    /\ shape \notin accepts
    /\ IF shape = 4
       THEN phase' = exhausted /\ shape' = 1
       ELSE phase' = phase /\ shape' = shape + 1
    /\ UNCHANGED <<step, given, kernel, owner, deviceVars>>

ControlStalls == Ready /\ NextShape("control", "drop")

\* Wrong variant: an error closes the handle and forgets the claim.
OpenFails_NoDrop ==
    /\ "usb" \in Faults
    /\ phase \in {"clear_in", "clear_out", "control"}
    /\ phase' = "closed" /\ shape' = 1
    /\ UNCHANGED <<step, given, kernel, owner, deviceVars>>

\* A USB error in clear_halt or a control transfer, which the device may have
\* carried out all the same; or no bit timing for the configured bitrate, an
\* error or a division by zero, whose unwinding drops the driver too.
OpenFails ==
    /\ \/ /\ "usb" \in Faults
          /\ phase \in {"clear_in", "clear_out"}
          /\ UNCHANGED deviceVars
       \/ /\ "usb" \in Faults
          /\ phase = "control" /\ Ready
          /\ Effect(Steps[step]) \/ UNCHANGED deviceVars
       \/ /\ phase = "control" /\ ~Ready
          /\ UNCHANGED deviceVars
    /\ phase' = "drop" /\ shape' = 1
    /\ UNCHANGED <<step, given, kernel, owner>>

-----------------------------------------------------------------------------
(* Drop, when the worker returns: at shutdown, or at once when the node    *)
(* cannot be created (an invalid node ID).                                 *)

Stop ==
    /\ Goto("running", "drop")
    /\ shape' = 1
    /\ UNCHANGED <<step, given, kernel, owner, deviceVars>>

DropResets ==
    /\ Goto("drop", "release")
    /\ shape \in accepts
    /\ Effect("reset")
    /\ UNCHANGED <<step, shape, given, kernel, owner>>

DropStalls == NextShape("drop", "release")

\* `let _ =`: a failed reset is ignored.
DropResetFails ==
    /\ "usb" \in Faults
    /\ Goto("drop", "release")
    /\ UNCHANGED <<step, shape, given, kernel, owner, deviceVars>>

ReleaseInterface ==
    /\ Goto("release", "closed")
    /\ owner' = "none"
    /\ UNCHANGED <<step, shape, given, kernel, deviceVars>>

-----------------------------------------------------------------------------
(* The environment. *)

\* A bulk transfer stalls an endpoint while the adapter is in use.
Stall ==
    /\ phase = "running"
    /\ \E e \in Endpoints : halted' = halted \cup {e}
    /\ UNCHANGED <<hostVars, given, kernel, owner, mode, timing, active>>

\* The process is killed: the system closes the handle, nothing is dropped.
Kill ==
    /\ "kill" \in Faults
    /\ phase # "closed"
    /\ phase' = "closed"
    /\ owner' = IF owner = "service" THEN "none" ELSE owner
    /\ UNCHANGED <<step, shape, given, kernel, deviceVars>>

OtherClaims ==
    /\ Claimable
    /\ owner' = "other"
    /\ UNCHANGED <<hostVars, given, kernel, deviceVars>>

\* The other tool leaves the device in any state.
OtherReleases ==
    /\ owner = "other"
    /\ owner' = "none"
    /\ mode' \in {"reset", "started"}
    /\ timing' = None /\ active' = None
    /\ halted' \in SUBSET Endpoints
    /\ UNCHANGED <<hostVars, given, kernel>>

HostNext ==
    \/ DetachKernelDriver \/ DetachSkipped \/ DetachFails
    \/ ClaimInterface \/ ClaimFails
    \/ ClearHalt \/ Control \/ ControlStalls \/ OpenFails
    \/ DropResets \/ DropStalls \/ DropResetFails \/ ReleaseInterface

Next ==
    \/ HostNext \/ Open \/ Stop
    \/ Stall \/ Kill \/ OtherClaims \/ OtherReleases

Spec == Init /\ [][Next]_vars

\* Every transfer returns: each has a timeout (500 ms for control transfers).
FairSpec == Spec /\ WF_vars(HostNext)

-----------------------------------------------------------------------------
(* Properties. *)

\* The limits of the controller are ones that 32 bits can add up.
Sane(bt) == 1 + bt.tseg1_max + bt.tseg2_max < Word /\ bt.brp_max + bt.brp_inc < Word

\* Whatever state the adapter was left in and whichever transfers failed, a
\* worker in its loop holds the interface, and its channel was started with a
\* bit timing that makes the configured bitrate.
RunsConfigured ==
    phase = "running" =>
        /\ owner = "service"
        /\ mode = "started"
        /\ active # None
        /\ Sane(adapter.bt) => Meets(active, bitrate, adapter.bt)

\* What an adapter has to look like for its CAN interface to be known by its
\* descriptors: that interface alone has those of a gs_usb adapter, or none has
\* and it alone has a pair of bulk endpoints, or none has and it is number 0.
Recognisable(a) ==
    LET Alone(P(_)) == /\ \E i \in DOMAIN a.interfaces : P(a.interfaces[i])
                       /\ \A i \in DOMAIN a.interfaces :
                             P(a.interfaces[i]) => a.interfaces[i].number = a.can
        NoneIs(P(_)) == \A i \in DOMAIN a.interfaces : ~P(a.interfaces[i])
        Paired(d) == HasPair(d, InAddresses, OutAddresses)
    IN  \/ Alone(Preferred)
        \/ NoneIs(Preferred) /\ Alone(Paired)
        \/ NoneIs(Preferred) /\ NoneIs(Paired) /\ a.can = 0

\* The interface claimed is the one of the CAN controller, though an adapter has
\* others with bulk endpoints.  And open refuses a bitrate for a reason only: with
\* the error, no division of the clock makes it exactly (unless the limits wrap);
\* by a panic, a division by a bitrate of 0 or, if the controller's smallest
\* prescaler is 0, by one that was rounded to 0: then even for a bitrate it can make.
SetupIsRight ==
    /\ phase = "claim" => number = adapter.can
    /\ phase = "control" /\ ~Ready =>
          \/ chosen = None  /\ (~Sane(adapter.bt) \/ ~Exact(bitrate, adapter.bt))
          \/ chosen = Panic /\ (bitrate = 0 \/ adapter.bt.brp_min = 0)

\* A stall that another tool left behind does not reach the worker's loop.
RunsUnstalled ==
    [][phase # "running" /\ phase' = "running" => halted' = {}]_vars

\* However open fails, the interface is not left claimed.
ClaimReleased == phase = "closed" => owner # "service"

\* Opening ends, in the loop or with the handle closed, though transfers are
\* tried again in other shapes.
OpenEnds == phase \in Opening ~> phase \in {"running", "closed"}

\* "Detach any existing kernel driver" (can_gsusb.rs:246): the claim never
\* meets an interface that is still bound to one.
KernelDriverDetached == phase = "claim" => number \notin kernel
=============================================================================
