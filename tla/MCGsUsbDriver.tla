---------------------------- MODULE MCGsUsbDriver ----------------------------
(* Adapters for the runs of GsUsbDriver. *)
EXTENDS GsUsbDriver

Bulk(a) == [bulk |-> TRUE, address |-> a]
Interface(n, class, endpoints) ==
    [number |-> n, class |-> class, endpoints |-> endpoints]

Plain == <<Interface(0, 255, <<Bulk(129), Bulk(2)>>)>>

\* A serial port in front, whose bulk endpoints are others or the same.
Composite == <<Interface(0, 2, <<[bulk |-> FALSE, address |-> 130]>>),
               Interface(1, 10, <<Bulk(131), Bulk(3)>>),
               Interface(2, 255, <<Bulk(129), Bulk(1)>>)>>

\* Another vendor interface in front, and no endpoint of the usual address.
Upgrade   == <<Interface(0, 255, <<Bulk(133)>>), Interface(1, 255, <<Bulk(129), Bulk(2)>>)>>
Unusual   == <<Interface(0, 254, <<>>), Interface(1, 255, <<Bulk(133), Bulk(4)>>)>>
Bare      == <<Interface(0, 255, <<>>)>>

Limits(fclk, tseg1_min, tseg1_max, tseg2_min, tseg2_max, brp_min, brp_max, brp_inc) ==
    [fclk_can |-> fclk, tseg1_min |-> tseg1_min, tseg1_max |-> tseg1_max,
     tseg2_min |-> tseg2_min, tseg2_max |-> tseg2_max, sjw_max |-> 4,
     brp_min |-> brp_min, brp_max |-> brp_max, brp_inc |-> brp_inc]

\* The limits of candleLight firmware, and some that make the arithmetic hard:
\* wide increments, a clock that is no multiple of the bitrate, a prescaler
\* range from 0, one quantum, segments whose sum wraps to 0.
CandleLight == Limits(48000000, 1, 16, 1, 8, 1, 1024, 1)
Stepped     == Limits(80000000, 2, 12, 1, 8, 2, 128, 4)
Odd         == Limits(24000001, 1, 6, 1, 4, 1, 64, 3)
FromZero    == Limits(6000000, 1, 2, 1, 2, 0, 64, 16)
Slow        == Limits(500000, 0, 3, 0, 2, 1, 4, 0)
Wrapping    == Limits(48000000, Word - 3, Word - 3, 2, 3, 1, 1024, 1)

MCAdapters == {
    [interfaces |-> Plain, bt |-> CandleLight, can |-> 0],
    [interfaces |-> Composite, bt |-> Stepped, can |-> 2],
    [interfaces |-> Upgrade, bt |-> Odd, can |-> 1],
    [interfaces |-> Unusual, bt |-> FromZero, can |-> 1],
    [interfaces |-> Bare, bt |-> Slow, can |-> 0],
    [interfaces |-> Plain, bt |-> Wrapping, can |-> 0]}

\* The CAN interface of each is the one that its descriptors tell.
ASSUME MCAssumption == \A a \in MCAdapters : Recognisable(a)

\* Adapters whose transfers all succeed, for the run about the kernel driver.
MCKernelAdapters == {
    [interfaces |-> Plain, bt |-> CandleLight, can |-> 0],
    [interfaces |-> Composite, bt |-> Stepped, can |-> 2]}
=============================================================================
