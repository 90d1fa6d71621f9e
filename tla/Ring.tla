-------------------------------- MODULE Ring --------------------------------
(***************************************************************************)
(* Cal::Rpc::TypedRing<DataType, OffsetType> (src/shared/rpc.h): a ring of *)
(* Capacity slots in shared memory with a head offset advanced only by the *)
(* consumer and a tail offset advanced only by the producer.  The ring     *)
(* operators take the ring as an argument so that the channel modules can  *)
(* use them on both of their rings; the specification at the end drives    *)
(* one ring with one producer and one consumer and is shown to implement   *)
(* BoundedFifo with room for Capacity - 1 items.                           *)
(***************************************************************************)
EXTENDS Naturals, Sequences

CONSTANTS Capacity,  \* the slot count handed to the TypedRing constructor
          Items,     \* values the producer pushes
          NoEntry,   \* content of a slot never written
          MaxItems   \* bound: how many pushes the producer attempts

ASSUME Capacity \in Nat \ {0, 1}

Slots == 0 .. Capacity - 1

RingType == [data : [Slots -> Items \cup {NoEntry}], head : Slots, tail : Slots]

(* The ring over freshly mapped memory after reset(): both offsets zero.   *)
EmptyRing == [data |-> [i \in Slots |-> NoEntry], head |-> 0, tail |-> 0]

(* peekEmpty(): head and tail offsets are equal. *)
PeekEmpty(r) == r.head = r.tail

(* peekHead(): the slot at the head offset. *)
PeekHead(r) == r.data[r.head]

(* Defect variant of Pop: wraps one slot too late. *)
PopLateWrap(r) == [r EXCEPT !.head = IF r.head = Capacity THEN 0 ELSE r.head + 1]

(* pop(): advance head by one, wrapping at capacity.  Callers only pop    *)
(* after peekEmpty() returned false.                                      *)
Pop(r) == [r EXCEPT !.head = IF r.head + 1 = Capacity THEN 0 ELSE r.head + 1]

(* Defect variants of CanPush: the loop branch without the head = 0 test, *)
(* and a tail kept two slots behind head.                                  *)
CanPushNoFullTest(r) ==
    IF r.tail >= r.head THEN TRUE ELSE r.tail + 1 < r.head

CanPushOffByOne(r) ==
    IF r.tail >= r.head
    THEN Capacity > r.tail + 1 \/ r.head # 0
    ELSE r.tail + 2 < r.head

(* The condition under which push() stores the element and returns true:  *)
(* with tail >= head the slot after tail must exist, or the ring loops to *)
(* 0 unless head is 0; with tail < head the tail must stay behind head.   *)
CanPush(r) ==
    IF r.tail >= r.head
    THEN Capacity > r.tail + 1 \/ r.head # 0
    ELSE r.tail + 1 < r.head

(* push(el) when CanPush: the element goes to the tail slot and the tail   *)
(* offset is published as tail + 1, or as 0 when the ring loops.           *)
Push(r, el) ==
    [r EXCEPT !.data[r.tail] = el,
              !.tail = IF r.tail >= r.head /\ ~(Capacity > r.tail + 1)
                       THEN 0 ELSE r.tail + 1]

(* The entries between head and tail, oldest first. *)
Contents(r) ==
    LET n == (r.tail - r.head + Capacity) % Capacity
    IN  [i \in 1 .. n |-> r.data[(r.head + i - 1) % Capacity]]
-----------------------------------------------------------------------------
(* One producer, one consumer.  lastPush records what push() returned in  *)
(* the step just taken ("none" after a pop); consumed records what the consumer took, oldest first.        *)
VARIABLES ring, pushes, lastPush, consumed

vars == <<ring, pushes, lastPush, consumed>>

Init == /\ ring = EmptyRing
        /\ pushes = 0
        /\ lastPush = "none"
        /\ consumed = <<>>

(* The producer calls push(); a full ring returns false and is unchanged. *)
Produce(x) ==
    /\ pushes < MaxItems
    /\ pushes' = pushes + 1
    /\ \/ /\ CanPush(ring)
          /\ ring' = Push(ring, x)
          /\ lastPush' = "ok"
       \/ /\ ~CanPush(ring)
          /\ lastPush' = "full"
          /\ UNCHANGED ring
    /\ UNCHANGED consumed

(* The consumer reads the head slot after seeing the ring non-empty, then  *)
(* pops it.                                                                *)
Consume ==
    /\ ~PeekEmpty(ring)
    /\ consumed' = Append(consumed, PeekHead(ring))
    /\ ring' = Pop(ring)
    /\ lastPush' = "none"
    /\ UNCHANGED pushes

Done == pushes = MaxItems /\ PeekEmpty(ring) /\ UNCHANGED vars

Next == (\E x \in Items : Produce(x)) \/ Consume \/ Done

Spec == Init /\ [][Next]_vars
-----------------------------------------------------------------------------
TypeOK == /\ ring \in RingType
          /\ pushes \in 0 .. MaxItems
          /\ lastPush \in {"none", "ok", "full"}
          /\ consumed \in Seq(Items)

(* The ring implements a FIFO queue of Capacity - 1 items: whatever the    *)
(* interleaving of push() and pop(), the consumer takes exactly the items *)
(* pushed successfully, in push order, and push() never succeeds on a ring *)
(* that already holds Capacity - 1 items.                                  *)
Fifo == INSTANCE BoundedFifo WITH Cap <- Capacity - 1,
                                  queue <- Contents(ring),
                                  out <- consumed

RefinesBoundedFifo == Fifo!Spec

(* push() reports the ring full only when it really holds Capacity - 1     *)
(* items, so no slot of the ring is lost to the producer.                  *)
PushFailsOnlyWhenFull ==
    lastPush = "full" => Len(Contents(ring)) = Capacity - 1
=============================================================================
