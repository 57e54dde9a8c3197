----------------------- MODULE CircularBuffer_proofs -----------------------
(***************************************************************************)
(* Theorems about CircularBuffer, for any bytes, sizes and limits.         *)
(*                                                                         *)
(* Types are the whole invariant: that a new array is large enough rests   *)
(* on the assumption that no size passes the machine word.  The rest is    *)
(* about positions: the k-th byte from the head lies in one of two pieces, *)
(* and so does what a call copies.                                         *)
(***************************************************************************)
EXTENDS CircularBuffer, SequenceTheorems, TLAPS

LEMMA ConstantFacts ==
  /\ InitialCapacity \in Nat /\ InitialCapacity > 0
  /\ GrowLimit \in Nat /\ Word \in Nat /\ MaxCount \in Nat
  /\ 2 * (MaxCount + GrowLimit) < Word
BY BufferAssumption

(* A position less than one round too far. *)
Wrapped(x, c) == IF x < c THEN x ELSE x - c

LEMMA OneRound ==
  ASSUME NEW c \in Nat, c > 0, NEW x \in Nat, x < 2 * c
  PROVE  x % c = Wrapped(x, c)
BY DEF Wrapped

(* A function over 1..n is a sequence. *)
LEMMA FunctionIsSeq ==
  ASSUME NEW S, NEW n \in Nat, NEW f \in [1..n -> S]
  PROVE  f \in Seq(S) /\ Len(f) = n
<1>1. f \in Seq(S)
  BY SeqDef
<1>2. 1..Len(f) = 1..n /\ Len(f) \in Nat
  BY <1>1, LenProperties
<1> QED BY <1>1, <1>2

LEMMA DataFacts ==
  ASSUME NEW data \in Data
  PROVE  /\ data \in Seq(Byte) /\ Len(data) \in 0..MaxCount
         /\ Len(data) \in Nat /\ Len(data) <= MaxCount
         /\ \A k \in 1..Len(data) : data[k] \in Byte
<1>1. PICK n \in 0..MaxCount : data \in [1..n -> Byte]
  BY DEF Data
<1>2. n \in Nat
  BY <1>1, ConstantFacts
<1>3. data \in Seq(Byte) /\ Len(data) = n
  BY <1>1, <1>2, FunctionIsSeq
<1> QED BY <1>1, <1>2, <1>3, ElementOfSeq

(* Where the k-th byte from h on lies in an array of length c. *)
Place(h, c, k) == IF h + k <= c THEN h + k - 1 ELSE h + k - 1 - c

(* r holds the s bytes that array holds from h on, and data behind them. *)
Appended(r, array, c, h, s, data) ==
  /\ r \in [0..(c - 1) -> Byte]
  /\ \A k \in 1..s : r[Place(h, c, k)] = array[Place(h, c, k)]
  /\ \A k \in 1..Len(data) : r[Place(h, c, s + k)] = data[k]

(* What is copied in lies behind what was there, which stays. *)
LEMMA CopyIn ==
  ASSUME NEW c \in Nat, c > 0, NEW array \in [0..(c - 1) -> Byte],
         NEW h \in 0..(c - 1), NEW s \in 0..c,
         NEW data \in Data, Len(data) + s <= c,
         NEW point, point = Wrapped(h + s, c)
  PROVE  Appended(CopiedIn(array, c, point, data), array, c, h, s, data)
<1>0. PICK p \in Nat : p = point /\ p = IF h + s < c THEN h + s ELSE h + s - c
  BY DEF Wrapped
<1> DEFINE n == Len(data)
           first == IF p + n <= c THEN n ELSE c - p
           r == CopiedIn(array, c, p, data)
<1>1. /\ n \in Nat /\ h \in Nat /\ s \in Nat /\ h < c /\ s <= c /\ n + s <= c
      /\ \A k \in 1..n : data[k] \in Byte
  BY DataFacts
<1>2. p = IF h + s < c THEN h + s ELSE h + s - c
  BY <1>0
<1>3. r = [i \in 0..(c - 1) |->
              IF p <= i /\ i < p + first THEN data[i - p + 1]
              ELSE IF i < n - first THEN data[first + i + 1] ELSE array[i]]
  BY DEF CopiedIn
<1> HIDE DEF n, r
<1>4. /\ p \in Nat /\ p < c /\ first \in Nat /\ first <= n
      /\ p + first <= c
  BY <1>1, <1>2
<1>5. r \in [0..(c - 1) -> Byte]
  <2>1. ASSUME NEW i \in 0..(c - 1), p <= i, i < p + first
        PROVE  i - p + 1 \in 1..n
    BY <1>1, <1>4, <2>1
  <2>2. ASSUME NEW i \in 0..(c - 1), i < n - first PROVE first + i + 1 \in 1..n
    BY <1>1, <1>4, <2>2
  <2> HIDE DEF first
  <2>3. \A i \in 0..(c - 1) : r[i] \in Byte
    BY <1>1, <1>3, <2>1, <2>2
  <2> QED BY <1>3, <2>3
<1>6. ASSUME NEW k \in 1..s PROVE r[Place(h, c, k)] = array[Place(h, c, k)]
  <2> DEFINE i == Place(h, c, k)
  <2>1. /\ i \in 0..(c - 1)
        /\ ~(p <= i /\ i < p + first) /\ ~(i < n - first)
    BY <1>1, <1>2, <1>4 DEF Place
  <2> HIDE DEF i, first
  <2>2. r[i] = array[i]
    BY <1>3, <2>1
  <2> QED BY <2>2 DEF i
<1>7. ASSUME NEW k \in 1..n PROVE r[Place(h, c, s + k)] = data[k]
  <2> DEFINE i == Place(h, c, s + k)
  <2>1. i \in 0..(c - 1)
    BY <1>1 DEF Place
  <2>2. CASE k <= first
    <3>1. p <= i /\ i < p + first /\ i - p + 1 = k
      BY <1>1, <1>2, <1>4, <2>2 DEF Place
    <3> HIDE DEF i, first
    <3>2. r[i] = data[i - p + 1]
      BY <1>3, <2>1, <3>1
    <3> QED BY <3>1, <3>2 DEF i
  <2>3. CASE k > first
    <3>1. i < p /\ i < n - first /\ first + i + 1 = k
      BY <1>1, <1>2, <1>4, <2>3 DEF Place
    <3> HIDE DEF i, first
    <3>2. ~(p <= i)
      BY <1>4, <2>1, <3>1
    <3>3. r[i] = data[first + i + 1]
      BY <1>3, <2>1, <3>1, <3>2
    <3> QED BY <3>1, <3>3 DEF i
  <2> QED BY <1>1, <1>4, <2>2, <2>3
<1>8. CopiedIn(array, c, point, data) = r
  BY <1>0 DEF r
<1>9. Appended(r, array, c, h, s, data)
  BY <1>5, <1>6, <1>7 DEF Appended, n
<1> QED BY <1>8, <1>9, Zenon

LEMMA CopyInFromStart ==
  ASSUME NEW c \in Nat, c > 0, NEW array \in [0..(c - 1) -> Byte],
         NEW s \in 0..c, NEW data \in Data, Len(data) + s <= c,
         NEW point, point = Wrapped(s, c)
  PROVE  Appended(CopiedIn(array, c, point, data), array, c, 0, s, data)
<1>1. PICK h \in 0..(c - 1) : h = 0
  OBVIOUS
<1>2. h + s = s
  BY <1>1
<1>3. point = Wrapped(h + s, c)
  BY <1>2, Zenon
<1>4. Appended(CopiedIn(array, c, point, data), array, c, h, s, data)
  BY <1>3, CopyIn, Zenon
<1> QED BY <1>1, <1>4, Zenon

-----------------------------------------------------------------------------
(* Types. *)

LEMMA Sizes ==
  ASSUME TypeOK
  PROVE  /\ capacity \in Nat /\ capacity > 0 /\ head \in Nat /\ head < capacity
         /\ size \in Nat /\ size <= capacity
         /\ head \in 0..(capacity - 1) /\ size \in 0..capacity
         /\ backing \in [0..(capacity - 1) -> Byte]
BY DEF TypeOK

LEMMA GrantedFacts ==
  ASSUME TypeOK, NEW n \in 0..MaxCount
  PROVE  /\ Granted(n) \in 0..size /\ Granted(n) \in Nat /\ size - Granted(n) \in 0..capacity
         /\ Granted(n) <= size
BY Sizes, ConstantFacts DEF Granted

(* Bytes are taken: the head stays inside, and what follows moves up. *)
LEMMA HeadAfterFacts ==
  ASSUME TypeOK, NEW n \in 0..size
  PROVE  /\ HeadAfter(n) \in 0..(capacity - 1)
         /\ \A k \in 1..(size - n) :
              Place(HeadAfter(n), capacity, k) = Place(head, capacity, n + k)
<1>1. PICK x \in Nat : x = head + n
  BY Sizes
<1>2. HeadAfter(n) = IF x < capacity THEN x ELSE x - capacity
  <2>1. x < 2 * capacity /\ capacity \in Nat /\ capacity > 0
    BY <1>1, Sizes
  <2>2. x % capacity = Wrapped(x, capacity)
    BY <2>1, OneRound, Zenon
  <2>3. HeadAfter(n) = Wrapped(x, capacity)
    BY <1>1, <2>2, Zenon DEF HeadAfter
  <2> QED BY <2>3, Zenon DEF Wrapped
<1>3. HeadAfter(n) \in 0..(capacity - 1)
  BY <1>1, <1>2, Sizes
<1>4. ASSUME NEW k \in 1..(size - n)
      PROVE  Place(HeadAfter(n), capacity, k) = Place(head, capacity, n + k)
  <2>1. k \in Nat /\ n \in Nat /\ k >= 1 /\ n + k <= size
    BY Sizes
  <2>2. CASE x < capacity
    <3>1. HeadAfter(n) = head + n
      BY <1>1, <1>2, <2>2
    <3> QED BY <2>1, <3>1, Sizes DEF Place
  <2>3. CASE ~(x < capacity)
    <3>1. HeadAfter(n) = x - capacity
      BY <1>2, <2>3
    <3>2. x - capacity + k <= capacity /\ head + (n + k) > capacity
      BY <1>1, <2>1, <2>3, Sizes
    <3>3. Place(HeadAfter(n), capacity, k) = x - capacity + k - 1
      BY <3>1, <3>2 DEF Place
    <3>4. Place(head, capacity, n + k) = head + (n + k) - 1 - capacity
      BY <2>1, <3>2, Sizes DEF Place
    <3>5. x - capacity + k - 1 = head + (n + k) - 1 - capacity
      BY <1>1, <2>1, Sizes
    <3> QED BY <3>3, <3>4, <3>5, Zenon
  <2> QED BY <2>2, <2>3
<1> QED BY <1>3, <1>4

(* The k-th oldest byte. *)
LEMMA AtFacts ==
  ASSUME TypeOK, NEW k \in 1..capacity
  PROVE  /\ At(k) = backing[Place(head, capacity, k)]
         /\ Place(head, capacity, k) \in 0..(capacity - 1) /\ At(k) \in Byte
<1>1. Place(head, capacity, k) \in 0..(capacity - 1)
  BY Sizes DEF Place
<1>2. At(k) = backing[Place(head, capacity, k)]
  BY DEF At, Place
<1> QED BY <1>1, <1>2, Sizes

(* What read copies, in one piece or two, are the oldest bytes. *)
LEMMA CopyOut ==
  ASSUME TypeOK, NEW n \in 0..size
  PROVE  /\ CopiedOut(n) \in Seq(Byte) /\ Len(CopiedOut(n)) = n
         /\ \A k \in 1..n : CopiedOut(n)[k] = At(k)
<1> DEFINE first == IF head + n <= capacity THEN n ELSE capacity - head
           piece(k) == IF k <= first THEN backing[head + k - 1] ELSE backing[k - first - 1]
<1>1. CopiedOut(n) = [k \in 1..n |-> piece(k)]
  BY DEF CopiedOut
<1>2. ASSUME NEW k \in 1..n PROVE piece(k) = At(k) /\ At(k) \in Byte
  <2>1. k \in 1..capacity
    BY Sizes
  <2>2. CASE k <= first
    <3>1. Place(head, capacity, k) = head + k - 1
      BY <2>2, Sizes DEF Place
    <3> QED BY <2>1, <2>2, <3>1, AtFacts
  <2>3. CASE ~(k <= first)
    <3>1. Place(head, capacity, k) = k - first - 1
      BY <2>3, Sizes DEF Place
    <3> QED BY <2>1, <2>3, <3>1, AtFacts
  <2>4. At(k) \in Byte
    BY <2>1, AtFacts
  <2> QED BY <2>2, <2>3, <2>4
<1> HIDE DEF piece
<1>3. CopiedOut(n) \in [1..n -> Byte] /\ \A k \in 1..n : CopiedOut(n)[k] = At(k)
  BY <1>1, <1>2
<1>4. n \in Nat
  BY Sizes
<1> QED BY <1>3, <1>4, FunctionIsSeq

(* What lies in one piece at data() is what read would copy. *)
LEMMA DirectOut ==
  ASSUME TypeOK, NEW n \in 0..MaxCount, DirectRead(n)
  PROVE  n \in 0..size /\ out' = CopiedOut(n)
<1>1. n \in Nat /\ n <= size /\ head + n <= capacity
  BY ConstantFacts DEF DirectRead, Contiguous
<1>2. \A k \in 1..n : k <= n
  BY <1>1
<1> QED BY <1>1, <1>2, Sizes DEF DirectRead, CopiedOut

LEMMA ContentsFacts ==
  TypeOK => /\ Contents \in Seq(Byte) /\ Len(Contents) = size
            /\ \A k \in 1..size : Contents[k] = At(k) /\ At(k) \in Byte
<1> SUFFICES ASSUME TypeOK
             PROVE  /\ Contents \in Seq(Byte) /\ Len(Contents) = size
                    /\ \A k \in 1..size : Contents[k] = At(k) /\ At(k) \in Byte
  OBVIOUS
<1>1. \A k \in 1..size : At(k) \in Byte
  BY AtFacts, Sizes
<1>2. Contents \in [1..size -> Byte] /\ \A k \in 1..size : Contents[k] = At(k)
  BY <1>1 DEF Contents
<1>3. size \in Nat
  BY Sizes
<1> QED BY <1>1, <1>2, <1>3, FunctionIsSeq

(* A new array is as large as it should be: no size passes the word. *)
LEMMA GrownCapacity ==
  ASSUME TypeOK, NEW data \in Data, Len(data) + size > capacity, CanGrow
  PROVE  LET c == (2 * (Len(data) + size)) % Word IN
         /\ c = 2 * (Len(data) + size) /\ c \in Nat /\ c > 0
         /\ Len(data) + size <= c /\ size < c
<1>1. /\ Len(data) \in Nat /\ Len(data) <= MaxCount /\ size < GrowLimit
      /\ size \in Nat /\ capacity \in Nat /\ capacity > 0
  BY DataFacts, Sizes, ConstantFacts DEF CanGrow
<1>2. PICK c \in Nat : c = 2 * (Len(data) + size)
  BY <1>1
<1>3. c < Word
  BY <1>1, <1>2, ConstantFacts
<1>4. c % Word = c
  <2>1. Word > 0 /\ Word \in Nat /\ c < 2 * Word
    BY <1>3, ConstantFacts
  <2>2. c % Word = Wrapped(c, Word)
    BY <2>1, OneRound, Zenon
  <2> QED BY <1>3, <2>2 DEF Wrapped
<1>5. (2 * (Len(data) + size)) % Word = 2 * (Len(data) + size)
  <2>1. (2 * (Len(data) + size)) % Word = c % Word
    BY <1>2, Zenon
  <2>2. @ = c
    BY <1>4, Zenon
  <2> QED BY <1>2, <2>1, <2>2, Zenon
<1>6. /\ 2 * (Len(data) + size) \in Nat /\ 2 * (Len(data) + size) > 0
      /\ Len(data) + size <= 2 * (Len(data) + size) /\ size < 2 * (Len(data) + size)
  BY <1>1
<1> QED BY <1>5, <1>6, Zenon

(* The array that replaces the old one, before data is written to it. *)
Moved(c, junk) == [i \in 0..(c - 1) |-> IF i < size THEN CopiedOut(size)[i + 1] ELSE junk]

LEMMA GrownBacking ==
  ASSUME TypeOK, NEW data \in Data, WriteGrown(data)
  PROVE  /\ capacity' \in Nat /\ capacity' > 0 /\ Len(data) + size <= capacity'
         /\ backing' \in [0..(capacity' - 1) -> Byte]
         /\ \A k \in 1..size : backing'[Place(0, capacity', k)] = At(k)
         /\ \A k \in 1..Len(data) : backing'[Place(0, capacity', size + k)] = data[k]
<1>1. /\ capacity' \in Nat /\ capacity' > 0 /\ Len(data) + size <= capacity' /\ size < capacity'
  BY GrownCapacity DEF WriteGrown
<1>2. PICK junk \in Byte :
        backing' = CopiedIn(Moved(capacity', junk), capacity', size % capacity', data)
  BY DEF WriteGrown, Moved
<1>3. \A i \in 0..(capacity' - 1) : i < size => i + 1 \in 1..size
  BY Sizes
<1>4. \A i \in 0..(capacity' - 1) : i < size =>
        CopiedOut(size)[i + 1] = At(i + 1) /\ At(i + 1) \in Byte
  BY <1>3, CopyOut, ContentsFacts, Sizes
<1>5. Moved(capacity', junk) \in [0..(capacity' - 1) -> Byte]
  BY <1>4 DEF Moved
<1>6. \A k \in 1..size : Moved(capacity', junk)[Place(0, capacity', k)] = At(k)
  <2> TAKE k \in 1..size
  <2>1. Place(0, capacity', k) = k - 1 /\ k - 1 \in 0..(capacity' - 1) /\ k - 1 < size
        /\ (k - 1) + 1 = k
    BY <1>1, Sizes DEF Place
  <2>2. Moved(capacity', junk)[k - 1] = CopiedOut(size)[(k - 1) + 1]
    BY <2>1 DEF Moved
  <2> QED BY <1>4, <2>1, <2>2
<1>7. size \in 0..capacity'
  BY <1>1, Sizes
<1> HIDE DEF Moved
<1>8. /\ backing' \in [0..(capacity' - 1) -> Byte]
      /\ \A k \in 1..size : backing'[Place(0, capacity', k)]
                            = Moved(capacity', junk)[Place(0, capacity', k)]
      /\ \A k \in 1..Len(data) : backing'[Place(0, capacity', size + k)] = data[k]
  <2> DEFINE c == capacity'
             m == Moved(c, junk)
             point == size % c
  <2>1. /\ c \in Nat /\ c > 0 /\ m \in [0..(c - 1) -> Byte] /\ size \in 0..c /\ size \in Nat
        /\ Len(data) + size <= c /\ size < 2 * c /\ backing' = CopiedIn(m, c, point, data)
    BY <1>1, <1>2, <1>5, <1>7, Sizes
  <2>3. point = Wrapped(size, c)
    BY <2>1, OneRound, Zenon
  <2> HIDE DEF m, c, point
  <2>2. Appended(CopiedIn(m, c, point, data), m, c, 0, size, data)
    BY <2>1, <2>3, CopyInFromStart, Zenon
  <2>4. Appended(backing', m, c, 0, size, data)
    BY <2>1, <2>2, Zenon
  <2> QED BY <2>4 DEF m, c, Appended
<1> QED BY <1>1, <1>6, <1>8

LEMMA InPlaceBacking ==
  ASSUME TypeOK, NEW data \in Data, WriteInPlace(data)
  PROVE  /\ backing' \in [0..(capacity - 1) -> Byte]
         /\ \A k \in 1..size : backing'[Place(head, capacity, k)] = At(k)
         /\ \A k \in 1..Len(data) : backing'[Place(head, capacity, size + k)] = data[k]
<1>1. /\ Len(data) + size <= capacity
      /\ backing' = CopiedIn(backing, capacity, (head + size) % capacity, data)
  BY DEF WriteInPlace
<1>2. /\ backing' \in [0..(capacity - 1) -> Byte]
      /\ \A k \in 1..size : backing'[Place(head, capacity, k)] = backing[Place(head, capacity, k)]
      /\ \A k \in 1..Len(data) : backing'[Place(head, capacity, size + k)] = data[k]
  <2> DEFINE point == (head + size) % capacity
  <2>1. head + size \in Nat /\ head + size < 2 * capacity /\ capacity \in Nat /\ capacity > 0
    BY Sizes
  <2>2. point = Wrapped(head + size, capacity)
    BY <2>1, OneRound, Zenon
  <2>3. backing' = CopiedIn(backing, capacity, point, data)
    BY <1>1
  <2>4. /\ capacity \in Nat /\ capacity > 0 /\ backing \in [0..(capacity - 1) -> Byte]
        /\ head \in 0..(capacity - 1) /\ size \in 0..capacity
    BY Sizes
  <2> HIDE DEF point
  <2>5. Len(data) + size <= capacity
    BY <1>1
  <2>6. Appended(CopiedIn(backing, capacity, point, data), backing, capacity, head, size, data)
    BY <2>2, <2>4, <2>5, CopyIn, Zenon
  <2>7. Appended(backing', backing, capacity, head, size, data)
    BY <2>3, <2>6, Zenon
  <2> QED BY <2>7 DEF Appended
<1>3. \A k \in 1..size : At(k) = backing[Place(head, capacity, k)]
  BY AtFacts, Sizes
<1> QED BY <1>2, <1>3

LEMMA TypeInit == Init => TypeOK
BY ConstantFacts, EmptySeq DEF Init, TypeOK

LEMMA WriteTypeOK ==
  ASSUME TypeOK, NEW data \in Data, Write(data)
  PROVE  TypeOK'
<1>1. out' \in Seq(Byte) /\ aborted \in BOOLEAN
  BY EmptySeq DEF Write, TypeOK
<1>2. Len(data) \in Nat
  BY DataFacts
<1>3. CASE WriteInPlace(data)
  <2>1. UNCHANGED <<head, capacity, aborted>> /\ size' = size + Len(data) /\ size' <= capacity
    BY <1>2, <1>3, Sizes DEF WriteInPlace
  <2>2. backing' \in [0..(capacity - 1) -> Byte]
    BY <1>3, InPlaceBacking
  <2>3. size' \in 0..capacity
    BY <1>2, <2>1, Sizes
  <2> QED BY <1>1, <2>1, <2>2, <2>3 DEF TypeOK
<1>4. CASE WriteGrown(data)
  <2>1. head' = 0 /\ aborted' = aborted /\ size' = size + Len(data)
    BY <1>4 DEF WriteGrown
  <2>2. /\ capacity' \in Nat /\ capacity' > 0 /\ Len(data) + size <= capacity'
        /\ backing' \in [0..(capacity' - 1) -> Byte]
    BY <1>4, GrownBacking
  <2>3. size' \in 0..capacity' /\ head' \in 0..(capacity' - 1) /\ aborted' \in BOOLEAN
    <3>1. size + Len(data) \in 0..capacity' /\ 0 \in 0..(capacity' - 1)
      <4>1. size \in Nat
        BY Sizes
      <4> QED BY <1>2, <2>2, <4>1
    <3>2. aborted' \in BOOLEAN
      BY <1>1, <2>1
    <3> QED BY <2>1, <3>1, <3>2, Zenon
  <2>4. capacity' \in Nat \ {0}
    BY <2>2
  <2> QED BY <1>1, <2>2, <2>3, <2>4, Zenon DEF TypeOK
<1>5. CASE WriteAborts(data)
  BY <1>1, <1>5 DEF WriteAborts, TypeOK
<1> QED BY <1>3, <1>4, <1>5 DEF Write

LEMMA TakeTypeOK ==
  ASSUME TypeOK, NEW n \in 0..MaxCount, Read(n) \/ Discard(n)
  PROVE  TypeOK'
<1>1. /\ UNCHANGED <<capacity, backing, aborted>> /\ head' = HeadAfter(Granted(n))
      /\ size' = size - Granted(n)
  BY DEF Read, Discard
<1>2. head' \in 0..(capacity - 1) /\ size' \in 0..capacity
  BY <1>1, GrantedFacts, HeadAfterFacts
<1>3. out' \in Seq(Byte)
  BY GrantedFacts, CopyOut, EmptySeq DEF Read, Discard
<1> QED BY <1>1, <1>2, <1>3 DEF TypeOK

LEMMA TypeNext == TypeOK /\ [Next]_vars => TypeOK'
<1> SUFFICES ASSUME TypeOK, [Next]_vars PROVE TypeOK'
  OBVIOUS
<1>1. CASE UNCHANGED vars
  BY <1>1 DEF vars, TypeOK
<1>2. CASE Clear
  <2>1. UNCHANGED <<capacity, backing, aborted>> /\ head' = 0 /\ size' = 0 /\ out' = <<>>
    BY <1>2 DEF Clear
  <2>2. head' \in 0..(capacity - 1) /\ size' \in 0..capacity /\ out' \in Seq(Byte)
    BY <2>1, Sizes, EmptySeq
  <2> QED BY <2>1, <2>2 DEF TypeOK
<1>3. ASSUME NEW n \in 0..MaxCount, DirectRead(n) PROVE TypeOK'
  <2>1. out' \in Seq(Byte)
    BY <1>3, DirectOut, CopyOut
  <2> QED BY <1>3, <2>1 DEF DirectRead, TypeOK
<1> QED BY <1>1, <1>2, <1>3, WriteTypeOK, TakeTypeOK DEF Next

(* The head and the contents stay inside the array, however often it is    *)
(* replaced (dynamic_circular_buffer::write).                              *)
THEOREM TypeCorrect == Spec => []TypeOK
BY TypeInit, TypeNext, PTL DEF Spec

-----------------------------------------------------------------------------
(* Refinement. *)

LEMMA WriteAppends ==
  ASSUME TypeOK, TypeOK', NEW data \in Data, WriteInPlace(data) \/ WriteGrown(data)
  PROVE  Contents' = Contents \o data
<1>1. /\ size' = size + Len(data) /\ size \in Nat /\ Len(data) \in Nat /\ data \in Seq(Byte)
  BY Sizes, DataFacts DEF WriteInPlace, WriteGrown
<1>2. /\ \A k \in 1..size : backing'[Place(head', capacity', k)] = At(k)
      /\ \A k \in 1..Len(data) : backing'[Place(head', capacity', size + k)] = data[k]
  <2>1. CASE WriteInPlace(data)
    <3>1. head' = head /\ capacity' = capacity
      BY <2>1 DEF WriteInPlace
    <3> QED BY <2>1, <3>1, InPlaceBacking
  <2>2. CASE WriteGrown(data)
    <3>1. head' = 0
      BY <2>2 DEF WriteGrown
    <3> QED BY <2>2, <3>1, GrownBacking
  <2> QED BY <2>1, <2>2
<1>3. /\ Contents' \in Seq(Byte) /\ Len(Contents') = size'
      /\ \A k \in 1..size' : Contents'[k] = backing'[Place(head', capacity', k)]
  <2>1. /\ Contents' \in Seq(Byte) /\ Len(Contents') = size'
        /\ \A k \in 1..size' : Contents'[k] = At(k)' /\ At(k)' \in Byte
    <3>1. (TypeOK => /\ Contents \in Seq(Byte) /\ Len(Contents) = size
                     /\ \A k \in 1..size : Contents[k] = At(k) /\ At(k) \in Byte)'
      BY ContentsFacts, PTL
    <3> QED BY <3>1
  <2>2. \A k \in 1..size' : At(k)' = backing'[Place(head', capacity', k)]
    BY DEF At, Place
  <2> QED BY <2>1, <2>2
<1>4. /\ Contents \in Seq(Byte) /\ Len(Contents) = size
      /\ \A k \in 1..size : Contents[k] = At(k)
  BY ContentsFacts
<1>5. /\ Contents \o data \in Seq(Byte) /\ Len(Contents \o data) = size'
      /\ \A k \in 1..size + Len(data) : (Contents \o data)[k] =
            IF k <= size THEN Contents[k] ELSE data[k - size]
  BY <1>1, <1>4, ConcatProperties
<1>6. ASSUME NEW k \in 1..size' PROVE Contents'[k] = (Contents \o data)[k]
  <2>1. CASE k \in 1..size
    <3>1. k \in 1..size + Len(data) /\ k <= size
      BY <1>1, <2>1
    <3>2. (Contents \o data)[k] = Contents[k]
      BY <1>5, <3>1
    <3>3. Contents[k] = At(k)
      BY <1>4, <2>1, Zenon
    <3>4. Contents'[k] = backing'[Place(head', capacity', k)]
      BY <1>3, Zenon
    <3>5. backing'[Place(head', capacity', k)] = At(k)
      BY <1>2, <2>1, Zenon
    <3> QED BY <3>2, <3>3, <3>4, <3>5, Zenon
  <2>2. CASE k \notin 1..size
    <3>1. PICK j \in 1..Len(data) : k = size + j
      <4>1. k - size \in 1..Len(data) /\ k = size + (k - size)
        BY <1>1, <2>2
      <4> QED BY <4>1
    <3>2. (Contents \o data)[k] = data[j]
      <4>1. k \in 1..size + Len(data) /\ ~(k <= size) /\ k - size = j
        BY <1>1, <3>1
      <4> QED BY <1>5, <4>1
    <3> QED BY <1>2, <1>3, <3>1, <3>2
  <2> QED BY <2>1, <2>2
<1> QED BY <1>3, <1>5, <1>6, SeqEqual

(* What is copied out is the front of the contents. *)
LEMMA FrontCopied ==
  ASSUME TypeOK, NEW n \in 0..size
  PROVE  CopiedOut(n) = SubSeq(Contents, 1, n)
<1>1. /\ Contents \in Seq(Byte) /\ Len(Contents) = size
      /\ \A k \in 1..size : Contents[k] = At(k) /\ Contents[k] \in Byte
      /\ size \in Nat /\ n \in Nat /\ n <= size
  BY ContentsFacts, Sizes
<1>2. /\ CopiedOut(n) \in Seq(Byte) /\ Len(CopiedOut(n)) = n
      /\ \A k \in 1..n : CopiedOut(n)[k] = At(k)
  BY CopyOut
<1>3. SubSeq(Contents, 1, n) \in Seq(Byte)
      /\ Len(SubSeq(Contents, 1, n)) = n
      /\ \A k \in 1..n : SubSeq(Contents, 1, n)[k] = Contents[k]
  <2>1. n \in Int /\ \A i \in 1..n : Contents[i] \in Byte
    BY <1>1
  <2>2. /\ SubSeq(Contents, 1, n) \in Seq(Byte)
        /\ Len(SubSeq(Contents, 1, n)) = IF 1 <= n THEN n - 1 + 1 ELSE 0
        /\ \A k \in 1..(n - 1 + 1) : SubSeq(Contents, 1, n)[k] = Contents[1 + k - 1]
    BY <2>1, SubSeqProperties
  <2>3. n - 1 + 1 = n /\ (\A k \in 1..n : 1 + k - 1 = k)
        /\ (IF 1 <= n THEN n - 1 + 1 ELSE 0) = n
    BY <1>1
  <2> QED BY <2>2, <2>3
<1>4. \A k \in 1..n : CopiedOut(n)[k] = SubSeq(Contents, 1, n)[k]
  BY <1>1, <1>2, <1>3
<1> QED BY <1>2, <1>3, <1>4, SeqEqual

LEMMA TakeDrops ==
  ASSUME TypeOK, TypeOK', NEW n \in 0..size,
         head' = HeadAfter(n), size' = size - n, UNCHANGED <<capacity, backing>>
  PROVE  Contents' = SubSeq(Contents, n + 1, size)
<1>1. /\ Contents \in Seq(Byte) /\ Len(Contents) = size
      /\ \A k \in 1..size : Contents[k] = At(k) /\ Contents[k] \in Byte
      /\ size \in Nat /\ n \in Nat /\ n <= size
  BY ContentsFacts, Sizes
<1>2. /\ Contents' \in Seq(Byte) /\ Len(Contents') = size - n
      /\ \A k \in 1..(size - n) : Contents'[k] = backing[Place(HeadAfter(n), capacity, k)]
  <2>1. /\ Contents' \in Seq(Byte) /\ Len(Contents') = size'
        /\ \A k \in 1..size' : Contents'[k] = At(k)' /\ At(k)' \in Byte
    <3>1. (TypeOK => /\ Contents \in Seq(Byte) /\ Len(Contents) = size
                     /\ \A k \in 1..size : Contents[k] = At(k) /\ At(k) \in Byte)'
      BY ContentsFacts, PTL
    <3> QED BY <3>1
  <2>2. \A k \in 1..size' : At(k)' = backing'[Place(head', capacity', k)]
    BY DEF At, Place
  <2> QED BY <2>1, <2>2
<1>3. SubSeq(Contents, n + 1, size) \in Seq(Byte)
      /\ Len(SubSeq(Contents, n + 1, size)) = size - n
      /\ \A k \in 1..(size - n) : SubSeq(Contents, n + 1, size)[k] = Contents[n + k]
  <2>1. n + 1 \in Int /\ size \in Int /\ \A i \in (n + 1)..size : Contents[i] \in Byte
    BY <1>1
  <2>2. /\ SubSeq(Contents, n + 1, size) \in Seq(Byte)
        /\ Len(SubSeq(Contents, n + 1, size)) = IF n + 1 <= size THEN size - (n + 1) + 1 ELSE 0
        /\ \A k \in 1..(size - (n + 1) + 1) :
             SubSeq(Contents, n + 1, size)[k] = Contents[n + 1 + k - 1]
    BY <2>1, SubSeqProperties
  <2>3. size - (n + 1) + 1 = size - n /\ \A k \in 1..(size - n) : n + 1 + k - 1 = n + k
    BY <1>1
  <2>4. (IF n + 1 <= size THEN size - (n + 1) + 1 ELSE 0) = size - n
    BY <1>1
  <2> QED BY <2>2, <2>3, <2>4
<1>4. \A k \in 1..(size - n) : Contents'[k] = Contents[n + k]
  <2> TAKE k \in 1..(size - n)
  <2>1. Place(HeadAfter(n), capacity, k) = Place(head, capacity, n + k)
    BY HeadAfterFacts
  <2>2. n + k \in 1..size
    BY <1>1
  <2>3. At(n + k) = backing[Place(head, capacity, n + k)]
    BY <2>2, AtFacts, Sizes
  <2> QED BY <1>1, <1>2, <2>1, <2>2, <2>3
<1> QED BY <1>2, <1>3, <1>4, SeqEqual

LEMMA EmptyContents ==
  size = 0 => Contents = <<>>
BY DEF Contents

LEMMA SameContents ==
  UNCHANGED <<head, size, capacity, backing>> => Contents' = Contents
BY DEF Contents, At

(* A take is the queue's, for as many bytes. *)
LEMMA QueueTakes ==
  ASSUME TypeOK, TypeOK', NEW n \in 0..MaxCount, Read(n) \/ Discard(n)
  PROVE  /\ Contents' = Queue!Rest(Contents, n)
         /\ CopiedOut(Granted(n)) = Queue!Front(Contents, n)
<1>1. Granted(n) \in 0..size
  BY GrantedFacts
<1>2. /\ head' = HeadAfter(Granted(n)) /\ size' = size - Granted(n)
      /\ UNCHANGED <<capacity, backing>>
  BY DEF Read, Discard
<1>3. /\ Contents' = SubSeq(Contents, Granted(n) + 1, size)
      /\ CopiedOut(Granted(n)) = SubSeq(Contents, 1, Granted(n))
  BY <1>1, <1>2, TakeDrops, FrontCopied
<1>4. Len(Contents) = size
  BY ContentsFacts
<1>5. Granted(n) = IF n > Len(Contents) THEN Len(Contents) ELSE n
  BY <1>4 DEF Granted
<1> QED BY <1>3, <1>4, <1>5, Zenon DEF Queue!Rest, Queue!Front

LEMMA QueueInit == Init => Queue!Init
BY EmptyContents DEF Init, Queue!Init

LEMMA QueueWrites ==
  ASSUME TypeOK, TypeOK', NEW data \in Data, Write(data)
  PROVE  Queue!Next
<1>1. out' = <<>>
  BY DEF Write
<1>2. CASE WriteInPlace(data) \/ WriteGrown(data)
  <2>1. Contents' = Contents \o data
    BY <1>2, WriteAppends
  <2> QED BY <1>1, <2>1 DEF Queue!Next, Queue!Write
<1>3. CASE WriteAborts(data)
  <2>1. Contents' = Contents
    BY <1>3, SameContents DEF WriteAborts
  <2>2. Contents \in Seq(Byte) /\ Len(Contents) \in Nat
    BY ContentsFacts, Sizes
  <2>3. Queue!Rest(Contents, 0) = Contents
    <3>1. ~(0 > Len(Contents)) /\ 0 + 1 = 1
      BY <2>2
    <3>2. SubSeq(Contents, 1, Len(Contents)) = Contents
      BY <2>2, SubSeqFull
    <3> QED BY <3>1, <3>2 DEF Queue!Rest
  <2>4. 0 \in 0..MaxCount
    BY ConstantFacts
  <2> QED BY <1>1, <2>1, <2>3, <2>4 DEF Queue!Next, Queue!Discard
<1> QED BY <1>2, <1>3 DEF Write

LEMMA QueueNext ==
  TypeOK /\ TypeOK' /\ [Next]_vars => [Queue!Next]_<<Contents, out>>
<1> SUFFICES ASSUME TypeOK, TypeOK', [Next]_vars
             PROVE  [Queue!Next]_<<Contents, out>>
  OBVIOUS
<1>1. CASE UNCHANGED vars
  BY <1>1, SameContents DEF vars
<1>2. ASSUME NEW data \in Data, Write(data) PROVE Queue!Next
  BY <1>2, QueueWrites
<1>3. ASSUME NEW n \in 0..MaxCount, Read(n) PROVE Queue!Next
  <2>1. out' = CopiedOut(Granted(n))
    BY <1>3 DEF Read
  <2> QED BY <1>3, <2>1, QueueTakes DEF Queue!Next, Queue!Read
<1>4. ASSUME NEW n \in 0..MaxCount, Discard(n) PROVE Queue!Next
  <2>1. out' = <<>>
    BY <1>4 DEF Discard
  <2> QED BY <1>4, <2>1, QueueTakes DEF Queue!Next, Queue!Discard
<1>5. CASE Clear
  <2>1. out' = <<>> /\ size' = 0
    BY <1>5 DEF Clear
  <2>2. (size = 0 => Contents = <<>>)'
    BY EmptyContents, PTL
  <2> QED BY <2>1, <2>2 DEF Queue!Next, Queue!Clear
<1>6. ASSUME NEW n \in 0..MaxCount, DirectRead(n) PROVE Queue!Next
  <2>1. n \in 0..size /\ out' = CopiedOut(n)
    BY <1>6, DirectOut
  <2>2. Contents' = Contents
    BY <1>6, SameContents DEF DirectRead
  <2>3. Len(Contents) = size /\ ~(n > Len(Contents)) /\ n <= Len(Contents)
    BY <2>1, ContentsFacts, Sizes
  <2>4. out' = Queue!Front(Contents, n)
    BY <2>1, <2>3, FrontCopied DEF Queue!Front
  <2> QED BY <2>2, <2>3, <2>4 DEF Queue!Next, Queue!Peek
<1> QED BY <1>1, <1>2, <1>3, <1>4, <1>5, <1>6 DEF Next

(* Wherever the head stands, however a copy is cut at the end of the       *)
(* array, and whenever the array is replaced, the bytes come out whole, in *)
(* the order they went in (dynamic_circular_buffer); a write that trips    *)
(* the assertion leaves them as they were.                                 *)
THEOREM BufferIsAQueue == Spec => ImplementsByteQueue
BY QueueInit, QueueNext, TypeCorrect, PTL DEF Spec, ImplementsByteQueue, Queue!Spec
=============================================================================
