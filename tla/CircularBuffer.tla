--------------------------- MODULE CircularBuffer ---------------------------
(***************************************************************************)
(* dynamic_circular_buffer: a queue of bytes in an array that is used in   *)
(* the round, and replaced by a larger one when a write does not fit.      *)
(***************************************************************************)
EXTENDS Integers, Sequences

CONSTANTS
  Byte,             \* values of a byte
  InitialCapacity,  \* the constructor's argument (0xFFFF by default)
  GrowLimit,        \* an array of this size is not replaced any more (1000000)
  Word,             \* sizes of a new array are taken modulo this (2^32)
  MaxCount          \* bound: bytes in one call

(* A write of 2^31 bytes would ask for an array of the remainder of its    *)
(* size; and of a buffer that starts without an array, a write of nothing  *)
(* takes a position modulo zero.                                           *)
ASSUME BufferAssumption ==
  /\ InitialCapacity \in Nat \ {0}
  /\ GrowLimit \in Nat /\ Word \in Nat /\ MaxCount \in Nat
  /\ 2 * (MaxCount + GrowLimit) < Word

VARIABLES
  head,       \* _head
  size,       \* _virtual_size
  capacity,   \* _physical_size
  backing,    \* _backing, what was never written included
  aborted,    \* an assertion has failed
  out         \* what the last read returned

vars == <<head, size, capacity, backing, aborted, out>>

Init ==
  /\ head = 0 /\ size = 0
  /\ capacity = InitialCapacity
  /\ backing \in [0..(InitialCapacity - 1) -> Byte]
  /\ aborted = FALSE
  /\ out = <<>>

-----------------------------------------------------------------------------
(* Copying in the round. *)

(* What array holds once data is copied to it from point on: in one piece, *)
(* or up to its end and on from its start.                                 *)
CopiedIn(array, length, point, data) ==
  LET n     == Len(data)
      first == IF point + n <= length THEN n ELSE length - point
  IN [i \in 0..(length - 1) |->
        IF point <= i /\ i < point + first THEN data[i - point + 1]
        ELSE IF i < n - first THEN data[first + i + 1]
        ELSE array[i]]

(* A mutant: the second piece is not taken from the start of the array. *)
CopiedOutMisplaced(n) ==
  LET first == IF head + n <= capacity THEN n ELSE capacity - head
  IN [k \in 1..n |-> IF k <= first THEN backing[head + k - 1] ELSE backing[k - 1]]

(* The oldest n bytes: in one piece, or from head to the end of the array  *)
(* and on from its start.                                                  *)
CopiedOut(n) ==
  LET first == IF head + n <= capacity THEN n ELSE capacity - head
  IN [k \in 1..n |-> IF k <= first THEN backing[head + k - 1] ELSE backing[k - first - 1]]

(* A mutant: the head runs past the end of the array. *)
HeadAfterStraight(n) == head + n

(* The head once n bytes are taken. *)
HeadAfter(n) == (head + n) % capacity

(* How many bytes a call for n gets. *)
Granted(n) == IF n > size THEN size ELSE n

(* can_grow(). *)
CanGrow == capacity < GrowLimit

-----------------------------------------------------------------------------
(* write(), where the array is large enough. *)
WriteInPlace(data) ==
  /\ Len(data) + size <= capacity
  /\ backing' = CopiedIn(backing, capacity, (head + size) % capacity, data)
  /\ size' = size + Len(data)
  /\ UNCHANGED <<head, capacity, aborted>>

(* write() with resize_backing: the contents move to the start of an array *)
(* twice as large as needed; what else that holds is arbitrary, and one     *)
(* value stands for it.                                                    *)
WriteGrown(data) ==
  /\ Len(data) + size > capacity
  /\ CanGrow
  /\ capacity' = (2 * (Len(data) + size)) % Word
  /\ \E junk \in Byte :
       LET moved == [i \in 0..(capacity' - 1) |->
                       IF i < size THEN CopiedOut(size)[i + 1] ELSE junk]
       IN backing' = CopiedIn(moved, capacity', size % capacity', data)
  /\ head' = 0
  /\ size' = size + Len(data)
  /\ UNCHANGED aborted

(* assert(can_grow()) fails. *)
WriteAborts(data) ==
  /\ Len(data) + size > capacity
  /\ ~CanGrow
  /\ aborted' = TRUE
  /\ UNCHANGED <<head, size, capacity, backing>>

Write(data) ==
  /\ ~aborted
  /\ out' = <<>>
  /\ WriteInPlace(data) \/ WriteGrown(data) \/ WriteAborts(data)

Read(n) ==
  /\ ~aborted
  /\ out' = CopiedOut(Granted(n))
  /\ head' = HeadAfter(Granted(n))
  /\ size' = size - Granted(n)
  /\ UNCHANGED <<capacity, backing, aborted>>

Discard(n) ==
  /\ ~aborted
  /\ out' = <<>>
  /\ head' = HeadAfter(Granted(n))
  /\ size' = size - Granted(n)
  /\ UNCHANGED <<capacity, backing, aborted>>

Clear ==
  /\ ~aborted
  /\ out' = <<>>
  /\ head' = 0 /\ size' = 0
  /\ UNCHANGED <<capacity, backing, aborted>>

(* contiguous_read_possible(). *)
Contiguous(n) == n <= size /\ head + n <= capacity

(* Where that is so, the caller may take the n oldest bytes at data(), and *)
(* leave them there. *)
DirectRead(n) ==
  /\ ~aborted
  /\ Contiguous(n)
  /\ out' = [k \in 1..n |-> backing[head + k - 1]]
  /\ UNCHANGED <<head, size, capacity, backing, aborted>>

Data == UNION {[1..n -> Byte] : n \in 0..MaxCount}

Next ==
  \/ \E data \in Data : Write(data)
  \/ \E n \in 0..MaxCount : Read(n) \/ Discard(n) \/ DirectRead(n)
  \/ Clear

Spec == Init /\ [][Next]_vars

-----------------------------------------------------------------------------
(* The head and the contents stay inside the array, whatever its size.     *)
TypeOK ==
  /\ capacity \in Nat \ {0}
  /\ head \in 0..(capacity - 1)
  /\ size \in 0..capacity
  /\ backing \in [0..(capacity - 1) -> Byte]
  /\ aborted \in BOOLEAN
  /\ out \in Seq(Byte)

(* The k-th oldest byte. *)
At(k) == backing[IF head + k <= capacity THEN head + k - 1 ELSE head + k - 1 - capacity]

Contents == [k \in 1..size |-> At(k)]

(* Wherever the head stands, however a call is cut at the end of the       *)
(* array, and when the array is replaced, the buffer is a FIFO queue.      *)
Queue == INSTANCE ByteQueue WITH bytes <- Contents, Counts <- 0..MaxCount
ImplementsByteQueue == Queue!Spec
=============================================================================
