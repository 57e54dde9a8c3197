----------------------------- MODULE ByteQueue -----------------------------
(***************************************************************************)
(* What a growing buffer of bytes promises: a FIFO queue without a limit.  *)
(* Each operation leaves what it returned in out.                          *)
(***************************************************************************)
EXTENDS Integers, Sequences

CONSTANTS
  Data,       \* the sequences of bytes a call may write
  Counts      \* the numbers of bytes a call may ask for

VARIABLES
  bytes,      \* what was written and is not read yet, oldest first
  out         \* what the last read returned

Init == bytes = <<>> /\ out = <<>>

Front(s, n) == SubSeq(s, 1, IF n > Len(s) THEN Len(s) ELSE n)
Rest(s, n)  == SubSeq(s, (IF n > Len(s) THEN Len(s) ELSE n) + 1, Len(s))

Write(data) == bytes' = bytes \o data /\ out' = <<>>
Read(n)     == bytes' = Rest(bytes, n) /\ out' = Front(bytes, n)
Discard(n)  == bytes' = Rest(bytes, n) /\ out' = <<>>
Peek(n)     == n <= Len(bytes) /\ bytes' = bytes /\ out' = Front(bytes, n)
Clear       == bytes' = <<>> /\ out' = <<>>

Next ==
  \/ \E data \in Data : Write(data)
  \/ \E n \in Counts : Read(n) \/ Discard(n) \/ Peek(n)
  \/ Clear

Spec == Init /\ [][Next]_<<bytes, out>>
=============================================================================
