------------------------------- MODULE ByteRing -------------------------------
(***************************************************************************)
(* The byte queue of byte_ring.c between the UART interrupt, which pushes,  *)
(* and the main loop, which pops.  Every access to the shared indices and   *)
(* to the storage is a step of its own, and the steps of the two sides      *)
(* interleave freely: the header claims safety for one writer and one       *)
(* reader, without masking interrupts and without naming a priority.        *)
(***************************************************************************)
EXTENDS Integers, Sequences

CONSTANTS
  Capacity,     \* BYTE_RING_CAPACITY
  IndexSize,    \* 2^32 on the board: the range of the free-running indices
  Bytes

\* "The capacity to divide 2^32" (byte_ring.h:26).
ASSUME RingAssumption ==
  /\ Capacity \in Nat \ {0} /\ IndexSize \in Nat /\ Capacity < IndexSize
  /\ IndexSize % Capacity = 0

VARIABLES
  data, head, tail,
  push,        \* where the interrupt is: idle, or about to store or publish
  incoming,    \* the byte it carries
  pop,         \* where the loop is: idle, or about to load or free
  out,         \* the byte it has loaded
  accepted, delivered   \* history: the byte that went in and came out last

writer == <<head, push, incoming, accepted>>
reader == <<tail, pop, out, delivered>>
vars == <<data, writer, reader>>

\* Slips of the kind a change to this code could make stand before the
\* definition they are a slip of; none is used in the model.
SlotByMask(index) == index % (Capacity - 1)

Slot(index) == index % Capacity
\* uint32_t arithmetic on values below the modulus.
Succ(index) == IF index + 1 = IndexSize THEN 0 ELSE index + 1
Waiting == IF head >= tail THEN head - tail ELSE head - tail + IndexSize

Full == Waiting = Capacity

-----------------------------------------------------------------------------
\* byte_ring_push(): the look for room, the store, the publication.  A byte
\* that finds the ring full is dropped at once and changes nothing.
PushCheck ==
  /\ push = "idle" /\ ~Full
  /\ incoming' \in Bytes /\ push' = "store"
  /\ UNCHANGED <<data, head, accepted, reader>>

PushStore ==
  /\ push = "store" /\ data' = [data EXCEPT ![Slot(head)] = incoming]
  /\ push' = "publish" /\ UNCHANGED <<head, incoming, accepted, reader>>

PushPublish ==
  /\ push = "publish" /\ head' = Succ(head) /\ accepted' = incoming
  /\ push' = "idle" /\ UNCHANGED <<data, incoming, reader>>

\* byte_ring_pop(): the look for a byte, the load, the release of the slot.
PopCheck ==
  /\ pop = "idle" /\ head # tail /\ pop' = "load"
  /\ UNCHANGED <<data, writer, tail, out, delivered>>

PopLoad ==
  /\ pop = "load" /\ out' = data[Slot(tail)] /\ pop' = "free"
  /\ UNCHANGED <<data, writer, tail, delivered>>

PopFree ==
  /\ pop = "free" /\ tail' = Succ(tail) /\ delivered' = out /\ pop' = "idle"
  /\ UNCHANGED <<data, writer, out>>

\* byte_ring_init().
Init ==
  /\ data \in [0 .. Capacity - 1 -> Bytes] /\ head = 0 /\ tail = 0
  /\ push = "idle" /\ pop = "idle"
  /\ incoming \in Bytes /\ out \in Bytes
  /\ accepted \in Bytes /\ delivered \in Bytes

Next ==
  \/ PushCheck \/ PushStore \/ PushPublish
  \/ PopCheck \/ PopLoad \/ PopFree

Spec == Init /\ [][Next]_vars
-----------------------------------------------------------------------------
TypeOK ==
  /\ data \in [0 .. Capacity - 1 -> Bytes]
  /\ head \in 0 .. IndexSize - 1 /\ tail \in 0 .. IndexSize - 1
  /\ push \in {"idle", "store", "publish"} /\ pop \in {"idle", "load", "free"}
  /\ incoming \in Bytes /\ out \in Bytes
  /\ accepted \in Bytes /\ delivered \in Bytes

\* Neither side ever stands on the other's ground, however late it acts on
\* what it read: the slot being written holds no byte that waits, and the slot
\* being read holds one, on both sides of the wrap of the indices.
SidesApart ==
  /\ Waiting <= Capacity
  /\ push # "idle" => Waiting < Capacity
  /\ pop # "idle" => Waiting > 0

\* The ring implements the queue, for every interleaving of the two sides.
Contents == [k \in 1 .. Waiting |-> data[Slot((tail + k - 1) % IndexSize)]]
Queue == INSTANCE BoundedFifo WITH queue <- Contents
FifoSpec == Queue!Spec
=============================================================================
