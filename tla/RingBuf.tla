------------------------------ MODULE RingBuf ------------------------------
(***************************************************************************)
(* The ring buffer between the kernel callbacks and the agent              *)
(* (driver/NullTracerDrv/ringbuf.c), with the IOCTLs that reach it         *)
(* (NullTracerDrv.c).  Every operation on the ring runs from acquire to    *)
(* release of Ring->Lock, so each is one action, and callbacks running on  *)
(* several CPUs are the interleavings of those actions.                    *)
(***************************************************************************)
EXTENDS Integers, Sequences

CONSTANTS
  Capacity,     \* slots in the ring: NULLTRACER_RING_CAPACITY
  Word,         \* 2^32: the ULONG indices HeadIdx and TailIdx wrap there
  Records,      \* the NT_EVENT_RECORDs the callbacks write
  Zeroed,       \* contents of a slot after RtlZeroMemory
  MaxCallbacks, \* bound of the model: records offered to the ring
  MaxRequest    \* bound of the model: records one IOCTL may ask for

PowersOfTwo(n) == {2 ^ k : k \in 0 .. n}

\* The ASSERT of RingBufInit, and a capacity a ULONG can count beyond.
ASSUME CapacityAssumption ==
  /\ Capacity \in Nat \ {0} /\ Capacity \in PowersOfTwo(Capacity)
  /\ Word \in Nat /\ Word > Capacity /\ Word % Capacity = 0

ASSUME RecordsAssumption == Zeroed \notin Records

ASSUME BoundsAssumption == MaxCallbacks \in Nat /\ MaxRequest \in Nat

VARIABLES
  Slots, HeadIdx, TailIdx,
  TotalProduced, TotalConsumed, TotalDropped,
  reply,     \* what the last READ_EVENTS or GET_STATS request returned
  accepted,  \* history: the records RingBufWrite returned TRUE for
  delivered  \* history: the records copied out to user space

ring == <<Slots, HeadIdx, TailIdx>>
totals == <<TotalProduced, TotalConsumed, TotalDropped>>
vars == <<ring, totals, reply, accepted, delivered>>

Index == 0 .. Capacity - 1
ULong == 0 .. Word - 1

----------------------------------------------------------------------------
(* Index arithmetic.  Mask = Capacity - 1 keeps the bits below Capacity, a *)
(* remainder; Capacity itself is one bit, so x & Capacity keeps that bit.  *)

Masked(x) == x % Capacity

CapacityBit(x) == IF (x \div Capacity) % 2 = 1 THEN Capacity ELSE 0

\* Variant: the slot that is kept free is taken off, and the result not wrapped.
WaitingLessOne == HeadIdx - TailIdx - 1

Waiting == (HeadIdx - TailIdx) % Word

Occupancy == Masked(Waiting)

\* Variant: no slot is kept free.
FullToTheLast == Occupancy >= Capacity

Full == Occupancy >= Capacity - 1

\* Variant: the counter that the comment after the assignment to Ring->Head
\* describes.
CountingHead(h) == (h + 1) % Word

\* Ring->Head = (Ring->Head + 1) & (Ring->Capacity - 1 + 1)
AdvancedHead(h) == CapacityBit((h + 1) % Word)

----------------------------------------------------------------------------
Init ==
  /\ Slots = [i \in Index |-> Zeroed]
  /\ HeadIdx = 0 /\ TailIdx = 0
  /\ TotalProduced = 0 /\ TotalConsumed = 0 /\ TotalDropped = 0
  /\ reply = [status |-> "none"]
  /\ accepted = <<>> /\ delivered = <<>>

\* RingBufWrite while it finds a free slot.
Write(ev) ==
  /\ ~ Full
  /\ Slots' = [Slots EXCEPT ![Masked(HeadIdx)] = ev]
  /\ HeadIdx' = AdvancedHead(HeadIdx)
  /\ TotalProduced' = TotalProduced + 1
  /\ accepted' = Append(accepted, ev)
  /\ UNCHANGED <<TailIdx, TotalConsumed, TotalDropped, reply, delivered>>

\* RingBufWrite when the ring is full: the record is counted and lost.
Drop ==
  /\ Full
  /\ TotalDropped' = TotalDropped + 1
  /\ UNCHANGED <<ring, TotalProduced, TotalConsumed, reply, accepted, delivered>>

\* A process, image or registry callback offers the record it has filled in.
Callback(ev) ==
  /\ TotalProduced + TotalDropped < MaxCallbacks
  /\ Write(ev) \/ Drop

\* The records from TailIdx on, at most n of them, as RingBufReadBatch copies
\* them out.
Batch(n) ==
  [i \in 1 .. (IF Waiting < n THEN Waiting ELSE n)
     |-> Slots[Masked((TailIdx + i - 1) % Word)]]

\* How many records a request may get: what the caller asks for, 0 standing
\* for no preference, and what its buffer holds.
MaxRecords(fromCaller, fromBuf) ==
  IF fromCaller = 0 \/ fromCaller > fromBuf THEN fromBuf ELSE fromCaller

ReadEvents(fromCaller, fromBuf) ==
  LET batch == Batch(MaxRecords(fromCaller, fromBuf)) IN
  /\ MaxRecords(fromCaller, fromBuf) > 0
  /\ TailIdx' = (TailIdx + Len(batch)) % Word
  /\ TotalConsumed' = TotalConsumed + Len(batch)
  /\ reply' = [status |-> "success", records |-> batch]
  /\ delivered' = delivered \o batch
  /\ UNCHANGED <<Slots, HeadIdx, TotalProduced, TotalDropped, accepted>>

\* A buffer without room for one record: nothing is read.
ReadRefused(fromCaller, fromBuf) ==
  /\ MaxRecords(fromCaller, fromBuf) = 0
  /\ reply' = [status |-> "buffer_too_small"]
  /\ UNCHANGED <<ring, totals, accepted, delivered>>

\* GET_STATS with a buffer too small for NT_STATS, and unknown requests.
OtherRefused ==
  /\ reply' \in [status : {"buffer_too_small", "invalid_device_request"}]
  /\ UNCHANGED <<ring, totals, accepted, delivered>>

\* RingBufGetStats: RingOccupancy is the difference of the indices, unmasked.
GetStats ==
  /\ reply' = [status |-> "stats", produced |-> TotalProduced,
               consumed |-> TotalConsumed, dropped |-> TotalDropped,
               occupancy |-> Waiting]
  /\ UNCHANGED <<ring, totals, accepted, delivered>>

Next ==
  \/ \E ev \in Records : Callback(ev)
  \/ \E c, b \in 0 .. MaxRequest : ReadEvents(c, b) \/ ReadRefused(c, b)
  \/ GetStats \/ OtherRefused

Spec == Init /\ [][Next]_vars

----------------------------------------------------------------------------
(* Properties *)

Replies ==
  [status : {"none", "buffer_too_small", "invalid_device_request"}]
    \cup [status : {"success"}, records : Seq(Records \cup {Zeroed})]
    \cup [status : {"stats"}, produced : Nat, consumed : Nat, dropped : Nat,
          occupancy : ULong]

\* The state of NT_RING_BUFFER: indices are ULONGs, every slot holds a whole
\* record (written or zeroed), and the totals never go negative.
TypeOK ==
  /\ Slots \in [Index -> Records \cup {Zeroed}]
  /\ HeadIdx \in ULong /\ TailIdx \in ULong
  /\ TotalProduced \in Nat /\ TotalConsumed \in Nat /\ TotalDropped \in Nat
  /\ reply \in Replies
  /\ accepted \in Seq(Records) /\ delivered \in Seq(Records \cup {Zeroed})

\* The advance of Ring->Head brings it back to 0 (Capacity is a single bit),
\* so the ring looks empty after any number of successful writes: whatever
\* the callbacks produce and however user space asks, no read ever returns a
\* record and no record is ever counted as consumed.
NothingIsDelivered ==
  /\ HeadIdx = TailIdx
  /\ delivered = <<>> /\ TotalConsumed = 0
  /\ reply.status = "success" => reply.records = <<>>

\* A ring of at least two slots keeps the newest record alone: each write
\* lands on slot 0 over the one before it, no other slot is ever used, and
\* TotalDropped, the only count of lost records, stays at zero.
OnlyNewestRetained ==
  /\ \A i \in Index \ {0} : Slots[i] = Zeroed
  /\ Slots[0] = IF accepted = <<>> THEN Zeroed ELSE accepted[Len(accepted)]
  /\ TotalDropped = 0

\* A ring of one slot never accepts a record, since one slot is kept free:
\* every callback is counted as dropped.
OneSlotAcceptsNothing ==
  Capacity = 1 => /\ accepted = <<>> /\ TotalProduced = 0
                  /\ Slots[0] = Zeroed

\* What callbacks.c says of the ring ("loss-free up to the ring buffer
\* capacity"): the records accepted are the ones delivered and, behind them
\* in the same order, the ones still between TailIdx and HeadIdx.
LossFree == accepted = delivered \o Batch(Capacity)
============================================================================
