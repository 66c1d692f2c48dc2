--------------------------- MODULE RingBufProofs ---------------------------
(* Proofs about RingBuf for every capacity, record set and bound.          *)
EXTENDS RingBuf, TLAPS

USE DEF Index, ULong

----------------------------------------------------------------------------
(* Index arithmetic *)

\* Masking an index always selects a slot of the ring.
LEMMA MaskedIsIndex ==
  ASSUME NEW x \in Nat
  PROVE  Masked(x) \in Index
BY CapacityAssumption, SMT DEF Masked

\* One step from 0, a ring of two slots or more is back at 0: 1 has no bit in
\* common with the capacity.
LEMMA HeadStaysAtZero ==
  ASSUME Capacity > 1
  PROVE  AdvancedHead(0) = 0
<1>1. (0 + 1) % Word = 1
  BY CapacityAssumption
<1>2. 1 \div Capacity = 0
  BY CapacityAssumption
<1>3. CapacityBit(1) = 0
  BY <1>2 DEF CapacityBit
<1> QED
  BY <1>1, <1>3 DEF AdvancedHead

----------------------------------------------------------------------------
(* The inductive invariant: both indices stay at 0, hence the ring looks   *)
(* empty to both of its sides; a write needs a second slot.                *)

BothAtZero == HeadIdx = 0 /\ TailIdx = 0

LooksEmpty ==
  /\ BothAtZero
  /\ delivered = <<>> /\ TotalConsumed = 0
  /\ reply.status = "success" => reply.records = <<>>

\* Between two equal indices there is nothing to copy.
LEMMA EmptyBatch ==
  ASSUME BothAtZero, NEW n \in Nat
  PROVE  Batch(n) = <<>> /\ Waiting = 0 /\ Occupancy = 0
<1>1. Waiting = 0
  BY CapacityAssumption DEF Waiting, BothAtZero
<1>2. Occupancy = 0
  BY <1>1, CapacityAssumption DEF Occupancy, Masked
<1>3. (IF Waiting < n THEN Waiting ELSE n) = 0
  BY <1>1
<1>4. Batch(n) = [i \in 1 .. 0 |-> Slots[Masked((TailIdx + i - 1) % Word)]]
  BY <1>3 DEF Batch
<1> QED
  BY <1>1, <1>2, <1>4

\* A request is granted a natural number of records.
LEMMA RequestIsNat ==
  ASSUME NEW c \in 0 .. MaxRequest, NEW b \in 0 .. MaxRequest
  PROVE  MaxRecords(c, b) \in Nat
BY BoundsAssumption DEF MaxRecords

LEMMA LooksEmptyInit == Init => LooksEmpty
BY DEF Init, LooksEmpty, BothAtZero

LEMMA LooksEmptyStep == LooksEmpty /\ [Next]_vars => LooksEmpty'
<1> SUFFICES ASSUME LooksEmpty, [Next]_vars
             PROVE  LooksEmpty'
  OBVIOUS
<1> USE DEF LooksEmpty, BothAtZero
<1>1. ASSUME NEW ev \in Records, Write(ev)
      PROVE  LooksEmpty'
  <2>1. Capacity > 1
    BY <1>1, EmptyBatch, CapacityAssumption DEF Write, Full
  <2>2. HeadIdx' = 0
    BY <1>1, <2>1, HeadStaysAtZero DEF Write
  <2> QED
    BY <1>1, <2>2 DEF Write
<1>2. CASE Drop
  BY <1>2 DEF Drop, ring
<1>3. ASSUME NEW c \in 0 .. MaxRequest, NEW b \in 0 .. MaxRequest,
             ReadEvents(c, b)
      PROVE  LooksEmpty'
  <2>1. Batch(MaxRecords(c, b)) = <<>>
    BY RequestIsNat, EmptyBatch
  <2>2. TailIdx' = 0 /\ TotalConsumed' = 0
    BY <1>3, <2>1, CapacityAssumption DEF ReadEvents
  <2>3. delivered' = <<>> /\ reply'.records = <<>> /\ HeadIdx' = 0
    BY <1>3, <2>1 DEF ReadEvents
  <2> QED
    BY <2>2, <2>3
<1>4. ASSUME NEW c \in 0 .. MaxRequest, NEW b \in 0 .. MaxRequest,
             ReadRefused(c, b)
      PROVE  LooksEmpty'
  BY <1>4 DEF ReadRefused, ring, totals
<1>5. CASE GetStats \/ OtherRefused
  BY <1>5 DEF GetStats, OtherRefused, ring, totals
<1>6. CASE UNCHANGED vars
  BY <1>6 DEF vars, ring, totals
<1> QED
  BY <1>1, <1>2, <1>3, <1>4, <1>5, <1>6 DEF Next, Callback

\* No read ever returns a record, for every capacity and every schedule of
\* callbacks and requests.
THEOREM NeverDelivers == Spec => []NothingIsDelivered
<1>1. LooksEmpty => NothingIsDelivered
  BY DEF LooksEmpty, BothAtZero, NothingIsDelivered
<1> QED
  BY <1>1, LooksEmptyInit, LooksEmptyStep, PTL DEF Spec

----------------------------------------------------------------------------
(* Type correctness *)

\* The record a write stores and the indices it moves keep their types.
LEMMA WriteTypes ==
  ASSUME TypeOK, NEW ev \in Records, Write(ev)
  PROVE  TypeOK'
<1>1. Masked(HeadIdx) \in Index
  BY MaskedIsIndex DEF TypeOK
<1>2. AdvancedHead(HeadIdx) \in ULong
  BY CapacityAssumption DEF AdvancedHead, CapacityBit
<1>3. Slots' \in [Index -> Records \cup {Zeroed}]
  BY <1>1 DEF TypeOK, Write
<1>4. accepted' \in Seq(Records)
  BY DEF TypeOK, Write
<1> QED
  BY <1>2, <1>3, <1>4 DEF TypeOK, Write

\* What a request copies out is a sequence of slots.
LEMMA BatchType ==
  ASSUME TypeOK, NEW n \in Nat
  PROVE  Batch(n) \in Seq(Records \cup {Zeroed})
<1> DEFINE m == IF Waiting < n THEN Waiting ELSE n
<1>1. Waiting \in Nat
  BY CapacityAssumption DEF Waiting, TypeOK
<1>2. m \in Nat
  BY <1>1
<1>3. ASSUME NEW i \in 1 .. m
      PROVE  Slots[Masked((TailIdx + i - 1) % Word)] \in Records \cup {Zeroed}
  <2>1. (TailIdx + i - 1) % Word \in Nat
    BY <1>2, CapacityAssumption DEF TypeOK
  <2> QED
    BY <2>1, MaskedIsIndex DEF TypeOK
<1>4. Batch(n) = [i \in 1 .. m |-> Slots[Masked((TailIdx + i - 1) % Word)]]
  BY DEF Batch
<1> HIDE DEF m
<1> QED
  BY <1>2, <1>3, <1>4

LEMMA ReadTypes ==
  ASSUME TypeOK, NEW c \in 0 .. MaxRequest, NEW b \in 0 .. MaxRequest,
         ReadEvents(c, b)
  PROVE  TypeOK'
<1> DEFINE batch == Batch(MaxRecords(c, b))
<1>1. batch \in Seq(Records \cup {Zeroed})
  BY RequestIsNat, BatchType
<1>2. Len(batch) \in Nat
  BY <1>1
<1>3. /\ TailIdx' = (TailIdx + Len(batch)) % Word
      /\ TotalConsumed' = TotalConsumed + Len(batch)
      /\ reply' = [status |-> "success", records |-> batch]
      /\ delivered' = delivered \o batch
      /\ UNCHANGED <<Slots, HeadIdx, TotalProduced, TotalDropped, accepted>>
  BY DEF ReadEvents
<1> HIDE DEF batch
<1>4. TailIdx' \in ULong /\ TotalConsumed' \in Nat
  BY <1>2, <1>3, CapacityAssumption DEF TypeOK
<1>5. reply' \in Replies
  BY <1>1, <1>3 DEF Replies
<1>6. delivered' \in Seq(Records \cup {Zeroed})
  BY <1>1, <1>3 DEF TypeOK
<1> QED
  BY <1>3, <1>4, <1>5, <1>6 DEF TypeOK

LEMMA TypeOKInit == Init => TypeOK
<1> SUFFICES ASSUME Init PROVE TypeOK
  OBVIOUS
<1>1. reply \in Replies
  BY DEF Init, Replies
<1> QED
  BY <1>1, CapacityAssumption DEF Init, TypeOK

LEMMA TypeOKStep == TypeOK /\ [Next]_vars => TypeOK'
<1> SUFFICES ASSUME TypeOK, [Next]_vars
             PROVE  TypeOK'
  OBVIOUS
<1>1. ASSUME NEW ev \in Records, Write(ev)
      PROVE  TypeOK'
  BY <1>1, WriteTypes
<1>2. CASE Drop
  BY <1>2 DEF Drop, ring, TypeOK
<1>3. ASSUME NEW c \in 0 .. MaxRequest, NEW b \in 0 .. MaxRequest,
             ReadEvents(c, b)
      PROVE  TypeOK'
  BY <1>3, ReadTypes
<1>4. ASSUME NEW c \in 0 .. MaxRequest, NEW b \in 0 .. MaxRequest,
             ReadRefused(c, b)
      PROVE  TypeOK'
  <2>1. reply' \in Replies
    BY <1>4 DEF ReadRefused, Replies
  <2> QED
    BY <1>4, <2>1 DEF ReadRefused, ring, totals, TypeOK
<1>5. CASE GetStats
  <2>1. Waiting \in ULong
    BY CapacityAssumption DEF Waiting, TypeOK
  <2>2. reply' \in Replies
    BY <1>5, <2>1 DEF GetStats, Replies, TypeOK
  <2> QED
    BY <1>5, <2>2 DEF GetStats, ring, totals, TypeOK
<1>6. CASE OtherRefused
  <2>1. reply' \in Replies
    BY <1>6 DEF OtherRefused, Replies
  <2> QED
    BY <1>6, <2>1 DEF OtherRefused, ring, totals, TypeOK
<1>7. CASE UNCHANGED vars
  BY <1>7 DEF vars, ring, totals, TypeOK
<1> QED
  BY <1>1, <1>2, <1>3, <1>4, <1>5, <1>6, <1>7 DEF Next, Callback

\* Every reachable ring is well formed: indices are ULONGs and every slot
\* holds a whole record.
THEOREM RingTypes == Spec => []TypeOK
BY TypeOKInit, TypeOKStep, PTL DEF Spec

----------------------------------------------------------------------------
(* What the ring keeps *)

NewestAtZero == LooksEmpty /\ TypeOK /\ OnlyNewestRetained

LEMMA NewestInit == Init => NewestAtZero
<1> SUFFICES ASSUME Init PROVE NewestAtZero
  OBVIOUS
<1>1. OnlyNewestRetained
  BY CapacityAssumption DEF Init, OnlyNewestRetained
<1> QED
  BY <1>1, LooksEmptyInit, TypeOKInit DEF NewestAtZero

LEMMA NewestStep ==
  ASSUME Capacity > 1
  PROVE  NewestAtZero /\ [Next]_vars => NewestAtZero'
<1> SUFFICES ASSUME NewestAtZero, [Next]_vars
             PROVE  OnlyNewestRetained'
  BY LooksEmptyStep, TypeOKStep DEF NewestAtZero
<1> USE DEF OnlyNewestRetained
<1>1. ASSUME NEW ev \in Records, Write(ev)
      PROVE  OnlyNewestRetained'
  <2>1. Masked(HeadIdx) = 0
    BY CapacityAssumption DEF Masked, NewestAtZero, LooksEmpty, BothAtZero
  <2>2. Slots' = [Slots EXCEPT ![0] = ev]
    BY <1>1, <2>1 DEF Write
  <2>3. accepted' # <<>> /\ accepted'[Len(accepted')] = ev
    BY <1>1 DEF Write, NewestAtZero, TypeOK
  <2>4. Slots'[0] = ev
    BY <2>2, CapacityAssumption DEF NewestAtZero, TypeOK
  <2> QED
    BY <1>1, <2>2, <2>3, <2>4 DEF Write, NewestAtZero, TypeOK
<1>2. CASE Drop
  BY <1>2, EmptyBatch, CapacityAssumption DEF Drop, Full, NewestAtZero, LooksEmpty
<1>3. ASSUME NEW c \in 0 .. MaxRequest, NEW b \in 0 .. MaxRequest,
             ReadEvents(c, b) \/ ReadRefused(c, b)
      PROVE  OnlyNewestRetained'
  BY <1>3 DEF ReadEvents, ReadRefused, ring, totals, NewestAtZero
<1>4. CASE GetStats \/ OtherRefused
  BY <1>4 DEF GetStats, OtherRefused, ring, totals, NewestAtZero
<1>5. CASE UNCHANGED vars
  BY <1>5 DEF vars, ring, totals, NewestAtZero
<1> QED
  BY <1>1, <1>2, <1>3, <1>4, <1>5 DEF Next, Callback

\* In a ring of two slots or more every record but the newest is overwritten,
\* and none of them is ever counted as dropped.
THEOREM KeepsOnlyTheNewest == Capacity > 1 => (Spec => []OnlyNewestRetained)
<1>1. CASE Capacity > 1
  <2>1. NewestAtZero => OnlyNewestRetained
    BY DEF NewestAtZero
  <2>2. NewestAtZero /\ [Next]_vars => NewestAtZero'
    BY <1>1, NewestStep
  <2>3. Spec => []OnlyNewestRetained
    BY <2>1, <2>2, NewestInit, PTL DEF Spec
  <2> QED
    BY <2>3
<1> QED
  BY <1>1

----------------------------------------------------------------------------
(* A ring of one slot *)

NoneAccepted == OneSlotAcceptsNothing /\ TailIdx = 0 /\ HeadIdx = 0

\* The one slot is the one that is kept free.
LEMMA NoneAcceptedStep ==
  ASSUME Capacity = 1
  PROVE  NoneAccepted /\ [Next]_vars => NoneAccepted'
<1> SUFFICES ASSUME NoneAccepted, [Next]_vars
             PROVE  NoneAccepted'
  OBVIOUS
<1> USE DEF NoneAccepted, OneSlotAcceptsNothing
<1>1. BothAtZero
  BY DEF BothAtZero
<1>2. Full
  BY <1>1, EmptyBatch DEF Full
<1>3. CASE Drop
  BY <1>3 DEF Drop, ring
<1>4. ASSUME NEW c \in 0 .. MaxRequest, NEW b \in 0 .. MaxRequest, ReadEvents(c, b)
      PROVE  NoneAccepted'
  <2>1. Len(Batch(MaxRecords(c, b))) = 0
    BY <1>1, RequestIsNat, EmptyBatch
  <2> QED
    BY <1>4, <2>1, CapacityAssumption DEF ReadEvents
<1>5. ASSUME NEW c \in 0 .. MaxRequest, NEW b \in 0 .. MaxRequest, ReadRefused(c, b)
      PROVE  NoneAccepted'
  BY <1>5 DEF ReadRefused, ring, totals
<1>6. CASE GetStats \/ OtherRefused
  BY <1>6 DEF GetStats, OtherRefused, ring, totals
<1>7. CASE UNCHANGED vars
  BY <1>7 DEF vars, ring, totals
<1> QED
  BY <1>2, <1>3, <1>4, <1>5, <1>6, <1>7 DEF Next, Callback, Write

\* RingBufInit takes a capacity of one; such a ring refuses every record, and
\* its slot stays as it was zeroed.
THEOREM OneSlotStaysEmpty == Spec => []OneSlotAcceptsNothing
<1>1. Init => NoneAccepted
  BY CapacityAssumption DEF Init, NoneAccepted, OneSlotAcceptsNothing, Index
<1>2. NoneAccepted => OneSlotAcceptsNothing
  BY DEF NoneAccepted
<1>3. CASE Capacity = 1
  <2>1. NoneAccepted /\ [Next]_vars => NoneAccepted'
    BY <1>3, NoneAcceptedStep
  <2> QED
    BY <1>1, <1>2, <2>1, PTL DEF Spec
<1>4. CASE Capacity # 1
  <2>1. OneSlotAcceptsNothing
    BY <1>4 DEF OneSlotAcceptsNothing
  <2> QED
    BY <2>1, PTL
<1> QED
  BY <1>3, <1>4
============================================================================
