-------------------------------- MODULE Ring --------------------------------
(***************************************************************************)
(* struct dmaplane_ring: a fixed array addressed by two free-running       *)
(* unsigned indices that wrap at 2^32 and are reduced modulo the ring size *)
(* only to address the array.  IdxMod stands for 2^32 and RingSize for     *)
(* DMAPLANE_RING_SIZE; as in C the one is a multiple of the other.         *)
(***************************************************************************)
EXTENDS Integers, Sequences

CONSTANTS RingSize,    \* DMAPLANE_RING_SIZE: number of slots of a ring
          IdxMod,      \* 2^32: values of an unsigned int
          PayloadMod   \* 2^64: values of dmaplane_ring_entry.payload

ASSUME RingAssumption ==
    /\ RingSize \in Nat \ {0}
    /\ PayloadMod \in Nat \ {0}
    /\ IdxMod \in Nat
    /\ IdxMod > RingSize
    /\ \E k \in 1..IdxMod : IdxMod = k * RingSize

Idx == 0..IdxMod-1
Slot == 0..RingSize-1
Payload == 0..PayloadMod-1

Ring == [head : Idx, tail : Idx, entries : [Slot -> Payload]]

RingInit == [head |-> 0, tail |-> 0, entries |-> [s \in Slot |-> 0]]

RingCount(r) == (r.head - r.tail) % IdxMod

(* Mutant: full is tested past the last slot. *)
RingFullLate(r) == RingCount(r) > RingSize

RingFull(r) == RingCount(r) = RingSize

RingEmpty(r) == r.head = r.tail

(* Mutant: head does not wrap at the width of an unsigned int. *)
RingPutUnwrapped(r, p) == [r EXCEPT !.entries[r.head % RingSize] = p,
                                    !.head = @ + 1]

\* Store at head % RingSize and publish by advancing head.
RingPut(r, p) == [r EXCEPT !.entries[r.head % RingSize] = p,
                           !.head = (@ + 1) % IdxMod]

\* The oldest entry, and the ring after its slot is given back.
RingPeek(r) == r.entries[r.tail % RingSize]

RingDrop(r) == [r EXCEPT !.tail = (@ + 1) % IdxMod]

\* What the ring holds, oldest first.
RingSeq(r) == [i \in 1..RingCount(r) |->
                  r.entries[((r.tail + i - 1) % IdxMod) % RingSize]]

=============================================================================
