----------------------------- MODULE GsUsbSetup -----------------------------
(***************************************************************************)
(* What GsUsbDriver::open computes from what an adapter says of itself:    *)
(* the interface to claim, from its USB descriptors, and the bit timing,   *)
(* from the limits of its CAN controller (src/src/transport/can_gsusb.rs). *)
(* Both come from the device and may hold anything.                        *)
(***************************************************************************)
EXTENDS Naturals, Sequences

CONSTANTS
    None,   \* Option::None
    Panic,  \* the thread panics: a division by zero
    Word    \* u32 arithmetic is modulo Word: 2^32 in the code

ASSUME SetupAssumption ==
    /\ Word \in Nat \ {0}
    /\ None # Panic

-----------------------------------------------------------------------------
(* find_gsusb_interface.  A descriptor is [number, class, endpoints], an   *)
(* endpoint [bulk, address]; IN endpoints have the addresses from 128 on.  *)

InAddresses  == 128..255
OutAddresses == 0..127
VendorClass  == 255
BULK_IN_ENDPOINT      == 129
BULK_OUT_ENDPOINT     == 1
BULK_OUT_ENDPOINT_ALT == 2

BulkAddresses(d) == {d.endpoints[i].address :
                        i \in {j \in DOMAIN d.endpoints : d.endpoints[j].bulk}}

\* Which of several endpoints is taken does not matter to the claim.
HasPair(d, in, out) == BulkAddresses(d) \cap in # {} /\ BulkAddresses(d) \cap out # {}

Preferred(d) ==
    /\ d.class = VendorClass
    /\ HasPair(d, {BULK_IN_ENDPOINT}, {BULK_OUT_ENDPOINT, BULK_OUT_ENDPOINT_ALT})

First(S) == CHOOSE i \in S : \A j \in S : i <= j
Last(S)  == CHOOSE i \in S : \A j \in S : i >= j

\* Wrong variant: the vendor's interface is not preferred.
find_gsusb_interface_FirstPair(ds) ==
    LET pairs == {i \in DOMAIN ds : HasPair(ds[i], InAddresses, OutAddresses)}
    IN  IF pairs # {} THEN ds[First(pairs)].number ELSE 0

\* The number of the interface that open claims.
find_gsusb_interface(ds) ==
    LET preferred == {i \in DOMAIN ds : Preferred(ds[i])}
        pairs     == {i \in DOMAIN ds : HasPair(ds[i], InAddresses, OutAddresses)}
    IN  IF preferred # {} THEN ds[First(preferred)].number
        ELSE IF pairs # {} THEN ds[First(pairs)].number
        ELSE 0

-----------------------------------------------------------------------------
(* compute_bittiming, in the arithmetic of a release build. *)

BtConst == [fclk_can : Nat, tseg1_min : Nat, tseg1_max : Nat, tseg2_min : Nat,
            tseg2_max : Nat, sjw_max : Nat, brp_min : Nat, brp_max : Nat,
            brp_inc : Nat]

BitTiming == [prop_seg : Nat, phase_seg1 : Nat, phase_seg2 : Nat, sjw : Nat, brp : Nat]

ASSUME NoTimingAssumption == None \notin BitTiming /\ Panic \notin BitTiming

AtLeast(n, m) == IF n < m THEN m ELSE n
AtMost(n, m)  == IF n > m THEN m ELSE n

total_tq(tseg1, tseg2) == (1 + tseg1 + tseg2) % Word

Bittiming(tseg1, tseg2, brp, bt) ==
    [prop_seg   |-> tseg1 - tseg1 \div 2,
     phase_seg1 |-> tseg1 \div 2,
     phase_seg2 |-> tseg2,
     sjw        |-> AtMost(1, bt.sjw_max),
     brp        |-> brp]

\* Wrong variant: the prescaler is rounded to the device's increment last.
Rounded_Down(brp_exact, inc) == (brp_exact \div inc + inc \div 2) * inc

\* Round to a multiple of brp_inc.
Rounded(brp_exact, inc) == (((brp_exact + inc \div 2) % Word) \div inc) * inc

\* Wrong variant: any prescaler of the right size will do.
Try_Unverified(tseg1, tseg2, bitrate, bt) ==
    LET tq == total_tq(tseg1, tseg2)
    IN  IF tq = 0 THEN None
        ELSE IF bitrate = 0 THEN Panic
        ELSE LET brp_exact == (bt.fclk_can \div bitrate) \div tq
                 brp       == Rounded(brp_exact, AtLeast(bt.brp_inc, 1))
             IN  IF brp_exact = 0 \/ brp < bt.brp_min \/ brp > bt.brp_max THEN None
                 ELSE IF brp = 0 THEN Panic
                 ELSE Bittiming(tseg1, tseg2, brp, bt)

\* One iteration of the inner loop: a timing, None to continue, or Panic.
Try(tseg1, tseg2, bitrate, bt) ==
    LET tq == total_tq(tseg1, tseg2)
    IN  IF tq = 0 THEN None
        ELSE IF bitrate = 0 THEN Panic
        ELSE LET brp_exact == (bt.fclk_can \div bitrate) \div tq
                 brp       == Rounded(brp_exact, AtLeast(bt.brp_inc, 1))
             IN  IF brp_exact = 0 \/ brp < bt.brp_min \/ brp > bt.brp_max THEN None
                 ELSE IF brp = 0 THEN Panic
                 ELSE IF (bt.fclk_can \div brp) \div tq # bitrate THEN None
                 ELSE Bittiming(tseg1, tseg2, brp, bt)

\* The loops run from the longest segments down and stop at the first result.
compute_bittiming(bitrate, bt) ==
    LET Segments == (bt.tseg1_min .. bt.tseg1_max) \X (bt.tseg2_min .. bt.tseg2_max)
        results  == {s \in Segments : Try(s[1], s[2], bitrate, bt) # None}
        tseg1    == Last({s[1] : s \in results})
        tseg2    == Last({s[2] : s \in {r \in results : r[1] = tseg1}})
    IN  IF results = {} THEN None ELSE Try(tseg1, tseg2, bitrate, bt)

-----------------------------------------------------------------------------
(* What a bit timing has to be, and when there is one. *)

\* The limits of the controller are kept, and the clock divided by the
\* prescaler and the quanta of a bit is the bitrate (to less than 1 bit/s).
Meets(t, bitrate, bt) ==
    LET tseg1 == t.prop_seg + t.phase_seg1
        tq    == 1 + tseg1 + t.phase_seg2
    IN  /\ tseg1 \in bt.tseg1_min .. bt.tseg1_max
        /\ t.phase_seg2 \in bt.tseg2_min .. bt.tseg2_max
        /\ t.sjw <= bt.sjw_max
        /\ t.brp \in bt.brp_min .. bt.brp_max
        /\ t.brp % AtLeast(bt.brp_inc, 1) = 0
        /\ bitrate * t.brp * tq <= bt.fclk_can
        /\ bt.fclk_can < (bitrate + 1) * t.brp * tq

\* Some division of the clock gives the bitrate exactly.
Exact(bitrate, bt) ==
    /\ bitrate # 0
    /\ \E tseg1 \in bt.tseg1_min .. bt.tseg1_max,
          tseg2 \in bt.tseg2_min .. bt.tseg2_max :
          LET quanta == bitrate * (1 + tseg1 + tseg2)
              brp    == bt.fclk_can \div quanta
          IN  /\ brp * quanta = bt.fclk_can
              /\ brp \in AtLeast(bt.brp_min, 1) .. bt.brp_max
              /\ brp % AtLeast(bt.brp_inc, 1) = 0
=============================================================================
