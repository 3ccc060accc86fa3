-------------------------- MODULE GsUsbDriver_proof --------------------------
(***************************************************************************)
(* What open guarantees for every adapter: any interface number and any    *)
(* firmware, whichever transfers fail.                                     *)
(***************************************************************************)
EXTENDS GsUsbDriver, TLAPS, WellFoundedInduction

-----------------------------------------------------------------------------
(* The bit timing that compute_bittiming finds. *)

\* A bounded set of numbers has a last one.
LEMMA LastExists ==
    ASSUME NEW m \in Nat, NEW S \in SUBSET (0..m), S # {}
    PROVE  Last(S) \in S
<1> DEFINE R == OpToRel(<, Nat)
           D == {m - i : i \in S}
<1>0. IsWellFoundedOn(R, Nat)
  BY NatLessThanWellFounded, Zenon
<1>1. /\ D \in SUBSET Nat /\ D # {}
      /\ \A i \in S : i \in Nat /\ m - i \in Nat
  <2>1. \A i \in S : i \in Nat /\ i <= m /\ m - i \in Nat
    BY SMT
  <2> QED  BY <2>1
<1>2. \E d \in D : \A e \in D : ~(<<e, d>> \in R)
  <2> HIDE DEF R, D
  <2> QED  BY <1>0, <1>1, WFMin
<1>3. PICK d \in D : \A e \in D : ~(<<e, d>> \in R)
  BY <1>2
<1>4. PICK i \in S : d = m - i
  OBVIOUS
<1>5. ASSUME NEW j \in S
      PROVE  i >= j
  <2>1. m - j \in D /\ m - j \in Nat /\ d \in Nat /\ j \in Nat /\ i \in Nat
    BY <1>1, <1>5
  <2>2. m - j < d => <<m - j, d>> \in R
    BY <2>1 DEF OpToRel
  <2>3. ~(m - j < d)
    BY <1>3, <2>1, <2>2
  <2> QED  BY <1>4, <2>1, <2>3
<1> QED  BY <1>5 DEF Last

\* Once an iteration of the loops has a result, that of one is the result of all.
LEMMA ResultIsTried ==
    ASSUME NEW bitrate_ \in Nat, NEW bt \in BtConst,
           \E i \in bt.tseg1_min .. bt.tseg1_max, j \in bt.tseg2_min .. bt.tseg2_max :
              Try(i, j, bitrate_, bt) # None
    PROVE  \E tseg1 \in bt.tseg1_min .. bt.tseg1_max,
              tseg2 \in bt.tseg2_min .. bt.tseg2_max :
                 /\ compute_bittiming(bitrate_, bt) = Try(tseg1, tseg2, bitrate_, bt)
                 /\ Try(tseg1, tseg2, bitrate_, bt) # None
<1> DEFINE Segments == (bt.tseg1_min .. bt.tseg1_max) \X (bt.tseg2_min .. bt.tseg2_max)
           results == {s \in Segments : Try(s[1], s[2], bitrate_, bt) # None}
           S1 == {s[1] : s \in results}
           tseg1 == Last(S1)
           S2 == {s[2] : s \in {r \in results : r[1] = tseg1}}
           tseg2 == Last(S2)
<1>0. /\ bt.tseg1_min \in Nat /\ bt.tseg1_max \in Nat
      /\ bt.tseg2_min \in Nat /\ bt.tseg2_max \in Nat
  BY DEF BtConst
<1>1. results # {} /\ compute_bittiming(bitrate_, bt) = Try(tseg1, tseg2, bitrate_, bt)
  <2>1. PICK i \in bt.tseg1_min .. bt.tseg1_max, j \in bt.tseg2_min .. bt.tseg2_max :
           Try(i, j, bitrate_, bt) # None
    OBVIOUS
  <2>2. <<i, j>> \in results
    BY <2>1
  <2>3. results # {}
    BY <2>2
  <2> QED  BY <2>3 DEF compute_bittiming
<1>2. S1 \in SUBSET (0..bt.tseg1_max) /\ S1 # {}
  <2>1. results # {} /\ \A s \in results : s[1] \in 0..bt.tseg1_max
    <3>1. results # {}
      BY <1>1
    <3>2. \A s \in Segments : s[1] \in bt.tseg1_min .. bt.tseg1_max
      BY Zenon
    <3>3. \A x \in bt.tseg1_min .. bt.tseg1_max : x \in 0..bt.tseg1_max
      BY <1>0
    <3> QED  BY <3>1, <3>2, <3>3
  <2> HIDE DEF results
  <2> QED  BY <2>1
<1>3. tseg1 \in S1
  <2> HIDE DEF S1
  <2> QED  BY <1>0, <1>2, LastExists
<1>4. tseg1 \in bt.tseg1_min .. bt.tseg1_max
  <2> HIDE DEF tseg1
  <2> QED  BY <1>3
<1>5. S2 \in SUBSET (0..bt.tseg2_max) /\ S2 # {}
  <2> HIDE DEF tseg1
  <2> QED  BY <1>0, <1>3
<1>6. tseg2 \in S2
  <2> HIDE DEF S2
  <2> QED  BY <1>0, <1>5, LastExists
<1>7. tseg2 \in bt.tseg2_min .. bt.tseg2_max
  <2> HIDE DEF tseg2, tseg1
  <2> QED  BY <1>6
<1>8. Try(tseg1, tseg2, bitrate_, bt) # None
  <2> HIDE DEF tseg2, tseg1
  <2> QED  BY <1>6
<1> QED  BY <1>1, <1>4, <1>7, <1>8

\* Without such an iteration there is no result.
LEMMA NothingTried ==
    ASSUME NEW bitrate_, NEW bt, compute_bittiming(bitrate_, bt) # None
    PROVE  \E i \in bt.tseg1_min .. bt.tseg1_max, j \in bt.tseg2_min .. bt.tseg2_max :
              Try(i, j, bitrate_, bt) # None
<1> DEFINE Segments == (bt.tseg1_min .. bt.tseg1_max) \X (bt.tseg2_min .. bt.tseg2_max)
           results == {s \in Segments : Try(s[1], s[2], bitrate_, bt) # None}
<1>1. results # {}
  BY DEF compute_bittiming
<1>2. PICK s \in Segments : Try(s[1], s[2], bitrate_, bt) # None
  BY <1>1
<1> QED  BY <1>2

\* Truncating division.
LEMMA Quotient ==
    ASSUME NEW n \in Nat, NEW d \in Nat, d # 0
    PROVE  /\ n \div d \in Nat
           /\ (n \div d) * d <= n
           /\ n < (n \div d + 1) * d
OBVIOUS

\* Dividing twice is dividing by the product.
LEMMA QuotientTwice ==
    ASSUME NEW n \in Nat, NEW d \in Nat, NEW e \in Nat, d # 0, e # 0
    PROVE  LET q == (n \div d) \div e
           IN  /\ q \in Nat
               /\ q * d * e <= n
               /\ n < (q + 1) * d * e
<1> DEFINE p == n \div d
           q == p \div e
<1>1. p \in Nat /\ p * d <= n /\ n < (p + 1) * d
  BY Quotient
<1> HIDE DEF p
<1>2. q \in Nat /\ q * e <= p /\ p < (q + 1) * e
  BY <1>1, Quotient
<1> HIDE DEF q
<1>3. q * e \in Nat /\ (q + 1) * e \in Nat
  BY <1>2
<1>4. (q * e) * d <= p * d
  BY <1>1, <1>2, <1>3
<1>5. (p + 1) * d <= ((q + 1) * e) * d
  BY <1>1, <1>2, <1>3
<1>6. (q * e) * d = q * d * e /\ ((q + 1) * e) * d = (q + 1) * d * e
  BY <1>2
<1> QED  BY <1>1, <1>2, <1>3, <1>4, <1>5, <1>6 DEF p, q

\* A bit timing that is found keeps the controller's limits and makes the bitrate.
LEMMA FoundTimingMeets ==
    ASSUME NEW bitrate_ \in Nat, NEW bt \in BtConst, Sane(bt),
           compute_bittiming(bitrate_, bt) \notin {None, Panic}
    PROVE  Meets(compute_bittiming(bitrate_, bt), bitrate_, bt)
<1> USE SetupAssumption
<1>0. /\ bt.tseg1_min \in Nat /\ bt.tseg1_max \in Nat
      /\ bt.tseg2_min \in Nat /\ bt.tseg2_max \in Nat
      /\ bt.fclk_can \in Nat /\ bt.brp_inc \in Nat
      /\ bt.brp_min \in Nat /\ bt.brp_max \in Nat /\ bt.sjw_max \in Nat
  BY DEF BtConst
<1>1. PICK tseg1 \in bt.tseg1_min .. bt.tseg1_max,
           tseg2 \in bt.tseg2_min .. bt.tseg2_max :
              compute_bittiming(bitrate_, bt) = Try(tseg1, tseg2, bitrate_, bt)
  BY NothingTried, ResultIsTried
<1>2. tseg1 \in Nat /\ tseg2 \in Nat
  BY <1>0
<1> DEFINE tq == 1 + tseg1 + tseg2
           inc == AtLeast(bt.brp_inc, 1)
           brp_exact == (bt.fclk_can \div bitrate_) \div tq
           brp == Rounded(brp_exact, inc)
<1>3. total_tq(tseg1, tseg2) = tq
  <2>1. tq \in Nat /\ tq < Word
    BY <1>0, <1>2 DEF Sane
  <2> HIDE DEF tq
  <2>2. tq % Word = tq
    BY <2>1
  <2> QED  BY <2>2 DEF total_tq, tq
<1>4. bitrate_ # 0 /\ inc \in Nat /\ inc # 0
  BY <1>0, <1>1, <1>2, <1>3 DEF Try, AtLeast
<1>5. /\ brp \in bt.brp_min .. bt.brp_max \/ ~(brp \in Nat)
      /\ brp # 0
      /\ (bt.fclk_can \div brp) \div tq = bitrate_
      /\ compute_bittiming(bitrate_, bt) = Bittiming(tseg1, tseg2, brp, bt)
  BY <1>0, <1>1, <1>3, <1>4 DEF Try
<1>6. brp_exact \in Nat
  <2>1. bt.fclk_can \div bitrate_ \in Nat
    BY <1>0, <1>4, Quotient
  <2> QED  BY <1>2, <2>1, Quotient
<1>7. brp \in Nat /\ brp % inc = 0
  <2> HIDE DEF brp_exact, inc
  <2> DEFINE k == ((brp_exact + inc \div 2) % Word) \div inc
  <2>1. (brp_exact + inc \div 2) % Word \in Nat
    BY <1>4, <1>6
  <2>2. k \in Nat /\ brp = k * inc
    BY <1>4, <2>1, Quotient DEF Rounded
  <2> HIDE DEF k
  <2>3. (k * inc) % inc = 0
    BY <1>4, <2>2
  <2> QED  BY <1>4, <2>2, <2>3
<1> HIDE DEF brp, tq, inc
<1>8. tq \in Nat /\ tq # 0
  BY <1>2 DEF tq
<1>9. /\ bitrate_ * brp * tq <= bt.fclk_can
      /\ bt.fclk_can < (bitrate_ + 1) * brp * tq
  BY <1>0, <1>5, <1>7, <1>8, QuotientTwice
<1> DEFINE t == Bittiming(tseg1, tseg2, brp, bt)
<1>10. /\ t.prop_seg + t.phase_seg1 = tseg1
       /\ t.phase_seg2 = tseg2
       /\ t.brp = brp
       /\ t.sjw <= bt.sjw_max
  BY <1>0, <1>2 DEF Bittiming, AtMost
<1> HIDE DEF t
<1>11. Meets(t, bitrate_, bt)
  BY <1>0, <1>2, <1>5, <1>7, <1>9, <1>10 DEF Meets, tq, inc
<1> QED  BY <1>5, <1>11 DEF t

\* A division that leaves no remainder.
LEMMA ExactQuotient ==
    ASSUME NEW q \in Nat, NEW d \in Nat, d # 0
    PROVE  (q * d) \div d = q
<1> DEFINE n == q * d
           p == n \div d
<1>1. n \in Nat
  OBVIOUS
<1> HIDE DEF n
<1>2. p \in Nat /\ p * d <= n /\ n < (p + 1) * d
  BY <1>1, Quotient
<1> HIDE DEF p
<1>3. p <= q
  <2> SUFFICES ASSUME q + 1 <= p PROVE FALSE
    BY <1>2
  <2>1. (q + 1) * d <= p * d
    BY <1>2
  <2>2. (q + 1) * d = q * d + d
    OBVIOUS
  <2> QED  BY <1>2, <2>1, <2>2 DEF n
<1>4. q <= p
  <2> SUFFICES ASSUME p + 1 <= q PROVE FALSE
    BY <1>2
  <2>1. (p + 1) * d <= q * d
    BY <1>2
  <2> QED  BY <1>2, <2>1 DEF n
<1> QED  BY <1>2, <1>3, <1>4 DEF p, n

LEMMA ExactQuotientTwice ==
    ASSUME NEW q \in Nat, NEW d \in Nat, NEW e \in Nat, d # 0, e # 0,
           NEW n \in Nat, n = q * d * e
    PROVE  (n \div d) \div e = q
<1>1. n = (q * e) * d /\ q * e \in Nat
  OBVIOUS
<1>2. n \div d = q * e
  BY <1>1, ExactQuotient
<1> QED  BY <1>2, ExactQuotient

\* Rounding to a multiple of the increment leaves a multiple as it is.
LEMMA RoundedMultiple ==
    ASSUME NEW b \in Nat, NEW inc \in Nat, inc # 0, b % inc = 0, b + inc \div 2 < Word
    PROVE  Rounded(b, inc) = b
<1> USE SetupAssumption
<1> DEFINE k == b \div inc
           h == inc \div 2
<1>1. k \in Nat /\ b = k * inc
  OBVIOUS
<1>2. h \in Nat /\ h < inc
  OBVIOUS
<1> HIDE DEF k, h
<1>3. (b + h) % Word = b + h
  BY <1>1, <1>2 DEF h
<1>4. (b + h) \div inc = k
  <2> DEFINE n == b + h
             p == n \div inc
  <2>1. n \in Nat
    BY <1>2
  <2> HIDE DEF n
  <2>2. p \in Nat /\ p * inc <= n /\ n < (p + 1) * inc
    BY <2>1, Quotient
  <2> HIDE DEF p
  <2>3. (k + 1) * inc = k * inc + inc
    BY <1>1
  <2>4. p <= k
    <3> SUFFICES ASSUME k + 1 <= p PROVE FALSE
      BY <1>1, <2>2
    <3>1. (k + 1) * inc <= p * inc
      BY <1>1, <2>2
    <3> QED  BY <1>1, <1>2, <2>1, <2>2, <2>3, <3>1 DEF n
  <2>5. k <= p
    <3> SUFFICES ASSUME p + 1 <= k PROVE FALSE
      BY <1>1, <2>2
    <3>1. (p + 1) * inc <= k * inc
      BY <1>1, <2>2
    <3> QED  BY <1>1, <1>2, <2>1, <2>2, <3>1 DEF n
  <2> QED  BY <1>1, <2>2, <2>4, <2>5 DEF p, n
<1> QED  BY <1>1, <1>3, <1>4 DEF Rounded, h

LEMMA RoundedType ==
    ASSUME NEW b \in Nat, NEW inc \in Nat, inc # 0
    PROVE  Rounded(b, inc) \in Nat
<1> USE SetupAssumption
<1> DEFINE m == (b + inc \div 2) % Word
<1>1. m \in Nat
  OBVIOUS
<1> HIDE DEF m
<1>2. m \div inc \in Nat
  BY <1>1, Quotient
<1> QED  BY <1>2 DEF Rounded, m

\* A bit timing is neither None nor Panic.
LEMMA BittimingType ==
    ASSUME NEW tseg1 \in Nat, NEW tseg2 \in Nat, NEW brp \in Nat, NEW bt \in BtConst
    PROVE  Bittiming(tseg1, tseg2, brp, bt) \notin {None, Panic}
<1>1. tseg1 \div 2 \in Nat /\ tseg1 - tseg1 \div 2 \in Nat
  OBVIOUS
<1>2. AtMost(1, bt.sjw_max) \in Nat
  BY DEF AtMost, BtConst
<1>3. Bittiming(tseg1, tseg2, brp, bt) \in BitTiming
  BY <1>1, <1>2 DEF Bittiming, BitTiming
<1> QED  BY <1>3, NoTimingAssumption

\* No iteration divides by zero, unless the bitrate is 0 or the prescaler's
\* range begins there.
LEMMA NoPanic ==
    ASSUME NEW bitrate_ \in Nat, bitrate_ # 0, NEW bt \in BtConst, bt.brp_min # 0,
           NEW tseg1 \in Nat, NEW tseg2 \in Nat
    PROVE  Try(tseg1, tseg2, bitrate_, bt) # Panic
<1> USE SetupAssumption
<1> DEFINE tq == total_tq(tseg1, tseg2)
           inc == AtLeast(bt.brp_inc, 1)
           brp_exact == (bt.fclk_can \div bitrate_) \div tq
           brp == Rounded(brp_exact, inc)
<1>1. /\ tq \in Nat /\ inc \in Nat /\ inc # 0
      /\ bt.fclk_can \in Nat /\ bt.brp_min \in Nat /\ bt.brp_max \in Nat
  BY DEF BtConst, AtLeast, total_tq
<1> HIDE DEF tq, inc
<1>2. CASE tq = 0
  BY <1>2 DEF Try, tq
<1>3. CASE tq # 0
  <2>1. brp_exact \in Nat
    <3>1. bt.fclk_can \div bitrate_ \in Nat
      BY <1>1, Quotient
    <3> QED  BY <1>1, <1>3, <3>1, Quotient
  <2> HIDE DEF brp_exact
  <2>2. brp \in Nat
    BY <1>1, <2>1, RoundedType
  <2>3. Bittiming(tseg1, tseg2, brp, bt) # Panic
    BY <2>2, BittimingType
  <2> HIDE DEF brp
  <2>4. \/ Try(tseg1, tseg2, bitrate_, bt) = None
        \/ Try(tseg1, tseg2, bitrate_, bt) = Bittiming(tseg1, tseg2, brp, bt)
        \/ brp = 0 /\ ~(brp < bt.brp_min)
    BY <1>3 DEF Try, tq, inc, brp_exact, brp
  <2> QED  BY <1>1, <2>2, <2>3, <2>4
<1> QED  BY <1>2, <1>3

\* The loops do not end in vain for a bitrate that some division of the clock
\* makes exactly.
LEMMA ExactIsFound ==
    ASSUME NEW bitrate_ \in Nat, NEW bt \in BtConst, Sane(bt), Exact(bitrate_, bt)
    PROVE  compute_bittiming(bitrate_, bt) # None
<1> USE SetupAssumption
<1>0. /\ bt.tseg1_min \in Nat /\ bt.tseg1_max \in Nat
      /\ bt.tseg2_min \in Nat /\ bt.tseg2_max \in Nat
      /\ bt.fclk_can \in Nat /\ bt.brp_inc \in Nat
      /\ bt.brp_min \in Nat /\ bt.brp_max \in Nat /\ bitrate_ # 0
  BY DEF BtConst, Exact
<1> DEFINE inc == AtLeast(bt.brp_inc, 1)
<1>1. PICK tseg1 \in bt.tseg1_min .. bt.tseg1_max,
           tseg2 \in bt.tseg2_min .. bt.tseg2_max :
              LET quanta == bitrate_ * (1 + tseg1 + tseg2)
                  brp    == bt.fclk_can \div quanta
              IN  /\ brp * quanta = bt.fclk_can
                  /\ brp \in AtLeast(bt.brp_min, 1) .. bt.brp_max
                  /\ brp % inc = 0
  BY DEF Exact
<1> DEFINE tq == 1 + tseg1 + tseg2
           brp == bt.fclk_can \div (bitrate_ * tq)
<1>2. tseg1 \in Nat /\ tseg2 \in Nat /\ tq \in Nat /\ tq # 0
  BY <1>0
<1>3. total_tq(tseg1, tseg2) = tq
  <2>1. tq < Word
    BY <1>0, <1>2 DEF Sane
  <2> HIDE DEF tq
  <2>2. tq % Word = tq
    BY <1>2, <2>1
  <2> QED  BY <2>2 DEF total_tq, tq
<1>4. /\ brp * (bitrate_ * tq) = bt.fclk_can
      /\ brp \in AtLeast(bt.brp_min, 1) .. bt.brp_max
      /\ brp % inc = 0
  BY <1>1
<1> HIDE DEF brp, tq
<1>5. brp \in Nat /\ brp # 0 /\ ~(brp < bt.brp_min) /\ ~(brp > bt.brp_max)
  <2>1. /\ AtLeast(bt.brp_min, 1) \in Nat /\ AtLeast(bt.brp_min, 1) >= 1
        /\ AtLeast(bt.brp_min, 1) >= bt.brp_min
    BY <1>0 DEF AtLeast
  <2> QED  BY <1>0, <1>4, <2>1
<1>6. (bt.fclk_can \div bitrate_) \div tq = brp
  <2>1. bt.fclk_can = brp * bitrate_ * tq
    BY <1>2, <1>4, <1>5
  <2> QED  BY <1>0, <1>2, <1>5, <2>1, ExactQuotientTwice
<1>7. (bt.fclk_can \div brp) \div tq = bitrate_
  <2>1. bt.fclk_can = bitrate_ * brp * tq
    BY <1>2, <1>4, <1>5
  <2> QED  BY <1>0, <1>2, <1>5, <2>1, ExactQuotientTwice
<1>8. Rounded(brp, inc) = brp
  <2>1. inc \in Nat /\ inc # 0 /\ brp + inc \div 2 < Word
    BY <1>0, <1>5 DEF AtLeast, Sane
  <2> QED  BY <1>4, <1>5, <2>1, RoundedMultiple
<1>9. Try(tseg1, tseg2, bitrate_, bt) = Bittiming(tseg1, tseg2, brp, bt)
  BY <1>0, <1>2, <1>3, <1>5, <1>6, <1>7, <1>8 DEF Try
<1>10. Try(tseg1, tseg2, bitrate_, bt) # None
  BY <1>2, <1>5, <1>9, BittimingType
<1>11. PICK i \in bt.tseg1_min .. bt.tseg1_max, j \in bt.tseg2_min .. bt.tseg2_max :
          /\ compute_bittiming(bitrate_, bt) = Try(i, j, bitrate_, bt)
          /\ Try(i, j, bitrate_, bt) # None
  BY <1>10, ResultIsTried
<1> QED  BY <1>11

\* A panic has one of two causes.
LEMMA PanicHasCause ==
    ASSUME NEW bitrate_ \in Nat, NEW bt \in BtConst,
           compute_bittiming(bitrate_, bt) = Panic
    PROVE  bitrate_ = 0 \/ bt.brp_min = 0
<1>1. compute_bittiming(bitrate_, bt) # None
  BY SetupAssumption
<1>2. PICK i \in bt.tseg1_min .. bt.tseg1_max, j \in bt.tseg2_min .. bt.tseg2_max :
         compute_bittiming(bitrate_, bt) = Try(i, j, bitrate_, bt)
  BY <1>1, NothingTried, ResultIsTried
<1>3. i \in Nat /\ j \in Nat
  BY DEF BtConst
<1> QED  BY <1>2, <1>3, NoPanic

-----------------------------------------------------------------------------
(* The interface that find_gsusb_interface finds. *)

LEMMA FirstExists ==
    ASSUME NEW S \in SUBSET Nat, S # {}
    PROVE  First(S) \in S
<1> DEFINE R == OpToRel(<, Nat)
<1>1. IsWellFoundedOn(R, Nat)
  BY NatLessThanWellFounded, Zenon
<1>2. \E i \in S : \A j \in S : ~(<<j, i>> \in R)
  <2> HIDE DEF R
  <2> QED  BY <1>1, WFMin
<1>3. PICK i \in S : \A j \in S : ~(<<j, i>> \in R)
  BY <1>2
<1>4. \A j \in S : i <= j
  <2> TAKE j \in S
  <2>1. i \in Nat /\ j \in Nat
    OBVIOUS
  <2>2. j < i => <<j, i>> \in R
    BY <2>1 DEF OpToRel
  <2>3. ~(j < i)
    BY <1>3, <2>2
  <2> QED  BY <2>1, <2>3
<1> QED  BY <1>4 DEF First

LEMMA InterfaceFound ==
    ASSUME NEW a \in Adapters, Recognisable(a)
    PROVE  find_gsusb_interface(a.interfaces) = a.can
<1> DEFINE ds == a.interfaces
           preferred == {i \in DOMAIN ds : Preferred(ds[i])}
           pairs == {i \in DOMAIN ds : HasPair(ds[i], InAddresses, OutAddresses)}
<1>1. DOMAIN ds \in SUBSET Nat
  <2>1. ds \in Seq(Descriptor)
    BY DriverAssumption
  <2> QED  BY <2>1
<1>2. find_gsusb_interface(ds) = IF preferred # {} THEN ds[First(preferred)].number
                                 ELSE IF pairs # {} THEN ds[First(pairs)].number
                                 ELSE 0
  BY DEF find_gsusb_interface
<1>3. /\ preferred # {} => First(preferred) \in preferred
      /\ pairs # {} => First(pairs) \in pairs
  BY <1>1, FirstExists
<1>4. \/ preferred # {} /\ \A i \in preferred : ds[i].number = a.can
      \/ preferred = {} /\ pairs # {} /\ \A i \in pairs : ds[i].number = a.can
      \/ preferred = {} /\ pairs = {} /\ a.can = 0
  BY DEF Recognisable
<1> HIDE DEF preferred, pairs
<1> QED  BY <1>2, <1>3, <1>4

-----------------------------------------------------------------------------

Holding == {"clear_in", "clear_out", "control", "running", "drop", "release"}

\* What the transfers made so far have established.
ProgressInv ==
    /\ phase \in Opening \ {"control"} => step = 1
    /\ phase = "clear_out" => "in" \notin halted
    /\ phase = "control" => halted = {}
    /\ phase = "control" /\ step = 6 => timing = chosen /\ chosen \notin {None, Panic}
    /\ phase = "running" =>
          mode = "started" /\ active = chosen /\ chosen \notin {None, Panic}

Inv ==
    /\ TypeOK
    /\ chosen = compute_bittiming(bitrate, adapter.bt)
    /\ owner = "service" <=> phase \in Holding
    /\ ProgressInv

LEMMA InvInitially == Init => Inv
<1> QED
  BY DEF Init, Inv, TypeOK, ProgressInv, Holding, Opening, Phases, Shapes, Steps, Endpoints

LEMMA InvPreserved == Inv /\ [Next]_vars => Inv'
<1> SUFFICES ASSUME Inv, [Next]_vars PROVE Inv'
  OBVIOUS
<1> USE DEF Inv, TypeOK, ProgressInv, Holding, Opening, Phases, Shapes, Steps, Endpoints,
            Goto, hostVars, deviceVars, given, vars
<1>1. CASE Open
  BY <1>1 DEF Open
<1>2. CASE DetachKernelDriver
  BY <1>2 DEF DetachKernelDriver
<1>3. CASE DetachSkipped \/ DetachFails
  BY <1>3 DEF DetachSkipped, DetachFails
<1>4. CASE ClaimInterface
  BY <1>4 DEF ClaimInterface, Claimable
<1>5. CASE ClaimFails
  BY <1>5 DEF ClaimFails
<1>6. CASE ClearHalt
  <2>1. CASE Goto("clear_in", "clear_out") /\ halted' = halted \ {"in"}
    BY <1>6, <2>1 DEF ClearHalt
  <2>2. CASE Goto("clear_out", "control") /\ halted' = halted \ {"out"}
    BY <1>6, <2>2 DEF ClearHalt
  <2> QED
    BY <1>6, <2>1, <2>2 DEF ClearHalt
<1>7. CASE Control
  BY <1>7 DEF Control, Ready, Effect
<1>8. CASE ControlStalls
  BY <1>8 DEF ControlStalls, NextShape
<1>9. CASE OpenFails
  BY <1>9 DEF OpenFails, Ready, Effect
<1>10. CASE Stop
  BY <1>10 DEF Stop
<1>11. CASE DropResets
  BY <1>11 DEF DropResets, Effect
<1>12. CASE DropStalls
  BY <1>12 DEF DropStalls, NextShape
<1>13. CASE DropResetFails
  BY <1>13 DEF DropResetFails
<1>14. CASE ReleaseInterface
  BY <1>14 DEF ReleaseInterface
<1>15. CASE Stall
  BY <1>15 DEF Stall
<1>16. CASE Kill
  BY <1>16 DEF Kill
<1>17. CASE OtherClaims
  BY <1>17 DEF OtherClaims, Claimable
<1>18. CASE OtherReleases
  BY <1>18 DEF OtherReleases
<1>19. CASE UNCHANGED vars
  BY <1>19
<1> QED
  BY <1>1, <1>2, <1>3, <1>4, <1>5, <1>6, <1>7, <1>8, <1>9, <1>10, <1>11, <1>12,
     <1>13, <1>14, <1>15, <1>16, <1>17, <1>18, <1>19
  DEF Next, HostNext

LEMMA InvAlways == Spec => []Inv
<1> QED
  BY InvInitially, InvPreserved, PTL DEF Spec

\* Every reachable state is well typed.
THEOREM TypeCorrect == Spec => []TypeOK
<1>1. Inv => TypeOK
  BY DEF Inv
<1> QED
  BY <1>1, InvAlways, PTL

\* A worker in its loop holds the interface of a channel that was started with
\* a bit timing that makes the configured bitrate within the controller's limits,
\* in whatever state the adapter was found.
THEOREM DriverRunsConfigured == Spec => []RunsConfigured
<1>1. Inv => RunsConfigured
  <2> SUFFICES ASSUME Inv, phase = "running"
               PROVE  /\ owner = "service" /\ mode = "started" /\ active # None
                      /\ Sane(adapter.bt) => Meets(active, bitrate, adapter.bt)
    BY DEF RunsConfigured
  <2>1. /\ owner = "service" /\ mode = "started"
        /\ active = chosen /\ chosen \notin {None, Panic}
    BY DEF Inv, ProgressInv, Holding
  <2>2. adapter.bt \in BtConst /\ bitrate \in Nat
    BY DriverAssumption DEF Inv, TypeOK
  <2>3. Sane(adapter.bt) => Meets(chosen, bitrate, adapter.bt)
    BY <2>1, <2>2, FoundTimingMeets DEF Inv
  <2> QED  BY <2>1, <2>3
<1> QED
  BY <1>1, InvAlways, PTL

\* No way out of open or of the worker leaves the interface claimed.
THEOREM ClaimAlwaysReleased == Spec => []ClaimReleased
<1>1. Inv => ClaimReleased
  BY DEF Inv, ClaimReleased, Holding
<1> QED
  BY <1>1, InvAlways, PTL

\* No endpoint is stalled when the worker enters its loop.
THEOREM DriverRunsUnstalled == Spec => RunsUnstalled
<1>1. Inv /\ [Next]_vars => (phase # "running" /\ phase' = "running" => halted' = {})
  <2> SUFFICES ASSUME Inv, [Next]_vars, phase # "running", phase' = "running"
               PROVE  halted' = {}
    OBVIOUS
  <2>1. CASE Control
    BY <2>1 DEF Control, Effect, Inv, ProgressInv
  <2>2. ~Control => FALSE
    BY DEF Next, HostNext, Open, DetachKernelDriver, DetachSkipped, DetachFails,
           ClaimInterface, ClaimFails, ClearHalt, ControlStalls, NextShape,
           OpenFails, Stop, DropResets, DropStalls, DropResetFails,
           ReleaseInterface, Stall, Kill, OtherClaims, OtherReleases, Goto,
           hostVars, given, vars
  <2> QED
    BY <2>1, <2>2
<1> QED
  BY <1>1, InvAlways, PTL DEF Spec, RunsUnstalled

\* Open claims the CAN interface of every adapter whose descriptors tell it.  It
\* refuses a bitrate with the error only if no division of the clock makes it
\* exactly, for limits that 32 bits can add up, and by a panic only if the bitrate
\* or the controller's smallest prescaler is 0.
THEOREM SetupAlwaysRight ==
    ASSUME \A a \in Adapters : Recognisable(a)
    PROVE  Spec => []SetupIsRight
<1>1. Inv => SetupIsRight
  <2> SUFFICES ASSUME Inv PROVE SetupIsRight
    OBVIOUS
  <2>1. adapter \in Adapters /\ adapter.bt \in BtConst /\ bitrate \in Nat
    BY DriverAssumption DEF Inv, TypeOK
  <2>2. number = adapter.can
    BY <2>1, InterfaceFound DEF number
  <2>3. Sane(adapter.bt) /\ Exact(bitrate, adapter.bt) => chosen # None
    BY <2>1, ExactIsFound DEF Inv
  <2>4. chosen = Panic => bitrate = 0 \/ adapter.bt.brp_min = 0
    BY <2>1, PanicHasCause DEF Inv
  <2> QED  BY <2>2, <2>3, <2>4 DEF SetupIsRight, Ready
<1> QED
  BY <1>1, InvAlways, PTL

-----------------------------------------------------------------------------
(***************************************************************************)
(* How long open, or its cleanup, can take: a bound on the steps until the *)
(* worker is in its loop or has closed the handle.  Each is one transfer   *)
(* with a timeout, and each takes the thread closer, whatever the firmware *)
(* stalls on and whatever fails; OpenEnds needs no more than that the      *)
(* transfers return.                                                       *)
(***************************************************************************)
StepsLeft ==
    CASE phase = "detach"    -> 33
      [] phase = "claim"     -> 32
      [] phase = "clear_in"  -> 31
      [] phase = "clear_out" -> 30
      [] phase = "control"   -> 10 + 4 * (6 - step) - shape
      [] phase = "drop"      -> 6 - shape
      [] phase = "release"   -> 1
      [] OTHER               -> 0

StepsAreBounded == StepsLeft \in 0..33

StepsAreCounted ==
    [][phase \notin {"closed", "running"} =>
          \/ UNCHANGED hostVars
          \/ StepsLeft' < StepsLeft]_vars

LEMMA StepCounts ==
    Inv /\ Inv' /\ [Next]_vars =>
        (phase \notin {"closed", "running"} =>
            UNCHANGED hostVars \/ StepsLeft' < StepsLeft)
<1> SUFFICES ASSUME Inv, Inv', [Next]_vars, phase \notin {"closed", "running"},
                    ~UNCHANGED hostVars
             PROVE  StepsLeft' < StepsLeft
  OBVIOUS
<1>0. /\ step \in 1..6 /\ shape \in 1..4 /\ phase \in Phases
      /\ step' \in 1..6 /\ shape' \in 1..4 /\ phase' \in Phases
  BY DEF Inv, TypeOK, Steps, Shapes
<1> USE DEF StepsLeft, Goto
<1>1. CASE \/ DetachKernelDriver \/ DetachSkipped \/ DetachFails
           \/ ClaimInterface \/ ClaimFails
  BY <1>0, <1>1 DEF DetachKernelDriver, DetachSkipped, DetachFails, ClaimInterface, ClaimFails
<1>2. CASE ClearHalt
  BY <1>0, <1>2 DEF ClearHalt
<1>3. CASE Control
  BY <1>0, <1>3 DEF Control, Steps
<1>4. CASE ControlStalls
  BY <1>0, <1>4 DEF ControlStalls, NextShape
<1>5. CASE OpenFails
  BY <1>0, <1>5 DEF OpenFails
<1>6. CASE DropResets \/ DropResetFails \/ ReleaseInterface
  BY <1>0, <1>6 DEF DropResets, DropResetFails, ReleaseInterface
<1>7. CASE DropStalls
  BY <1>0, <1>7 DEF DropStalls, NextShape
<1>8. CASE Kill
  BY <1>0, <1>8 DEF Kill, Phases
<1> QED
  BY <1>1, <1>2, <1>3, <1>4, <1>5, <1>6, <1>7, <1>8
  DEF Next, HostNext, Open, Stop, Stall, OtherClaims, OtherReleases, vars

\* Opening an adapter, with the cleanup if it fails, is over after at most 33
\* steps, though every control transfer is tried in four shapes.
THEOREM OpenIsBounded == Spec => []StepsAreBounded /\ StepsAreCounted
<1>1. Inv => StepsAreBounded
  <2> SUFFICES ASSUME Inv PROVE StepsLeft \in 0..33
    BY DEF StepsAreBounded
  <2>1. step \in 1..6 /\ shape \in 1..4
    BY DEF Inv, TypeOK, Steps, Shapes
  <2> QED  BY <2>1 DEF StepsLeft
<1>2. Inv /\ Inv' /\ [Next]_vars =>
        [phase \notin {"closed", "running"} =>
            UNCHANGED hostVars \/ StepsLeft' < StepsLeft]_vars
  BY StepCounts
<1> QED
  BY <1>1, <1>2, InvAlways, PTL DEF Spec, StepsAreCounted

-----------------------------------------------------------------------------
\* For adapters whose CAN interface is interface 0, and as long as the question
\* about the driver is answered, the claim meets no kernel driver: GsUsbKernel
\* refutes it for the others.
THEOREM KernelDriverIsDetached ==
    ASSUME "usb" \notin Faults,
           \A a \in Adapters : find_gsusb_interface(a.interfaces) = 0
    PROVE  Spec => []KernelDriverDetached
<1> DEFINE Freed == phase = "claim" => 0 \notin kernel
<1>1. Init => Freed
  BY DEF Init
<1>2. Freed /\ [Next]_vars => Freed'
  BY DEF Next, HostNext, Open, DetachKernelDriver, DetachSkipped, DetachFails,
         ClaimInterface, ClaimFails, ClearHalt, Control, ControlStalls, NextShape,
         OpenFails, Stop, DropResets, DropStalls, DropResetFails, ReleaseInterface,
         Stall, Kill, OtherClaims, OtherReleases, Goto, hostVars, given, vars
<1>3. TypeOK /\ Freed => KernelDriverDetached
  BY DEF TypeOK, KernelDriverDetached, number
<1> QED
  BY <1>1, <1>2, <1>3, TypeCorrect, PTL DEF Spec
=============================================================================
