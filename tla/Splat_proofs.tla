---------------------------- MODULE Splat_proofs ----------------------------
(***************************************************************************)
(* Theorems about Splat, for any number of subscribers, any size of a      *)
(* packet and any number of connections.                                   *)
(*                                                                         *)
(* The argument counts pushes.  Done is the last push that was completed,  *)
(* Begun the last one that may have set the version.  Only the publisher   *)
(* fills the file, so a file that is not empty holds the packet of Done,   *)
(* or is being filled with the one after it; and whoever truncates the     *)
(* file empties it, so that it next holds a packet nobody has polled.      *)
(***************************************************************************)
EXTENDS Splat, FiniteSetTheorems, SequenceTheorems, TLAPS

LEMMA NodeFacts ==
  /\ Pub \in Nodes /\ Subs \subseteq Nodes /\ Pub \notin Subs
  /\ Chunks \in Nat /\ Chunks > 0 /\ 1 \in 1..Chunks
  /\ MaxVersion \in Nat /\ MaxConnects \in Nat
BY SplatAssumption DEF Nodes

-----------------------------------------------------------------------------
(* The inductive invariant. *)

Pushing == pc[Pub] \in {"lock", "version", "size", "copy"}
Filling == pc[Pub] \in {"size", "copy"}

Done  == IF Pushing THEN current[Pub] - 1 ELSE current[Pub]
Begun == IF pc[Pub] \in {"lock", "version"} THEN current[Pub] - 1 ELSE current[Pub]

(* The mutex works as long as the file is not truncated under its users.   *)
MutexOK ==
  ~upset => /\ \A m, n \in Inside : m = n
            /\ Inside # {} => locked
            /\ Busy # {} => sized

(* What is in the file. *)
FileOK ==
  /\ ~sized => size = 0
  /\ Pub \in dead => size = 0
  /\ Pushing => current[Pub] >= 1
  /\ version <= Begun
  /\ size # 0 /\ pc[Pub] # "copy" => Whole(data) /\ data[1] <= Done
  /\ size # 0 /\ pc[Pub] = "copy" =>
       \A i \in 1..Chunks : i < pos[Pub] => data[i] = current[Pub]

(* What s has polled, and that it will not poll it again. *)
PolledOK(s) ==
  /\ current[s] <= Begun
  /\ \A k \in 1..Len(latest[s]) : latest[s][k].calm =>
       /\ Whole(latest[s][k].packet)
       /\ latest[s][k].packet[1] <= Done
       /\ size # 0 /\ ~Filling =>
            /\ latest[s][k].packet[1] <= data[1]
            /\ latest[s][k].packet[1] = data[1] => version = current[s]
       /\ \A j \in 1..(k - 1) : latest[s][j].calm =>
            latest[s][j].packet[1] < latest[s][k].packet[1]

(* A poll that is under way. *)
PollOK(s) ==
  s \in Busy /\ ~upset =>
    /\ size # 0
    /\ pc[s] \in {"lock", "version"} => version # current[s]
    /\ pc[s] = "copy" =>
         /\ version = current[s]
         /\ \A i \in 1..Chunks : i < pos[s] => seen[s][i] = data[i]
         /\ \A k \in 1..Len(latest[s]) :
              latest[s][k].calm => latest[s][k].packet[1] < data[1]

SplatInv ==
  /\ TypeOK /\ MutexOK /\ FileOK
  /\ \A s \in Subs : pc[s] # "size" /\ PolledOK(s) /\ PollOK(s)

-----------------------------------------------------------------------------
LEMMA TypeInit == Init => TypeOK
<1> SUFFICES ASSUME Init PROVE TypeOK
  OBVIOUS
<1>1. Blank \in [1..Chunks -> 0..MaxVersion]
  BY NodeFacts DEF Blank
<1>2. latest \in [Subs -> Seq([packet : [1..Chunks -> 0..MaxVersion], calm : BOOLEAN])]
  BY DEF Init
<1>3. seen \in [Subs -> [1..Chunks -> 0..MaxVersion]] /\ data \in [1..Chunks -> 0..MaxVersion]
  BY <1>1 DEF Init
<1>4. pos \in [Nodes -> 1..(Chunks + 1)] /\ current \in [Nodes -> 0..MaxVersion]
  BY NodeFacts DEF Init
<1>5. /\ pc \in [Nodes -> {"off", "connect", "idle", "lock", "version", "size", "copy"}]
      /\ dead \subseteq Nodes /\ connects \in 0..MaxConnects
      /\ version \in 0..MaxVersion /\ size \in {0, Chunks}
  BY NodeFacts DEF Init
<1>6. locked \in BOOLEAN /\ sized \in BOOLEAN /\ upset \in BOOLEAN
  BY Zenon DEF Init
<1> QED BY <1>2, <1>3, <1>4, <1>5, <1>6 DEF TypeOK

(* Every step keeps the types. *)
LEMMA TypeNext == TypeOK /\ [Next]_vars => TypeOK'
<1> SUFFICES ASSUME TypeOK, [Next]_vars PROVE TypeOK'
  OBVIOUS
<1> USE DEF TypeOK, fileVars, nodeVars, Goto, Calms, Touches
<1>1. CASE UNCHANGED vars
  BY <1>1 DEF vars
<1>2. CASE Create
  BY <1>2, NodeFacts DEF Create
<1>3. CASE Push
  <2>1. current' \in [Nodes -> 0..MaxVersion]
    BY <1>3, NodeFacts DEF Push
  <2> QED BY <1>3, <2>1, NodeFacts DEF Push
<1>4. CASE PushVersion
  BY <1>4, NodeFacts DEF PushVersion
<1>5. CASE PushSize
  <2>1. pos' \in [Nodes -> 1..(Chunks + 1)]
    BY <1>5, NodeFacts DEF PushSize
  <2> QED BY <1>5, <2>1, NodeFacts DEF PushSize
<1>6. CASE PushPiece
  <2>1. pos[Pub] \in 1..(Chunks + 1) /\ ~(pos[Pub] > Chunks)
    BY <1>6, NodeFacts DEF PushPiece, Copied
  <2>2. pos[Pub] \in 1..Chunks /\ pos[Pub] + 1 \in 1..(Chunks + 1)
    BY <2>1, NodeFacts
  <2>3. pos' \in [Nodes -> 1..(Chunks + 1)]
    BY <1>6, <2>2 DEF PushPiece
  <2>4. data' \in [1..Chunks -> 0..MaxVersion]
    BY <1>6, <2>2, NodeFacts DEF PushPiece
  <2> QED BY <1>6, <2>3, <2>4 DEF PushPiece
<1>7. CASE PushEnds
  BY <1>7, NodeFacts DEF PushEnds, AfterUnlock
<1>8. ASSUME NEW n \in Nodes, Lock(n) PROVE TypeOK'
  BY <1>8 DEF Lock
<1>9. ASSUME NEW n \in Nodes, BusError(n) PROVE TypeOK'
  BY <1>9 DEF BusError
<1>10. ASSUME NEW s \in Subs, Register(s) PROVE TypeOK'
  <2>1. s \in Nodes /\ Blank \in [1..Chunks -> 0..MaxVersion]
    BY NodeFacts DEF Blank
  <2>2. current' \in [Nodes -> 0..MaxVersion]
    BY <1>10, <2>1, NodeFacts DEF Register
  <2>3. /\ connects' \in 0..MaxConnects /\ data' \in [1..Chunks -> 0..MaxVersion]
        /\ version' \in 0..MaxVersion /\ size' \in {0, Chunks}
    BY <1>10, <2>1, NodeFacts DEF Register, Cut
  <2>4. locked' \in BOOLEAN /\ upset' \in BOOLEAN /\ sized' \in BOOLEAN
    BY <1>10 DEF Register, Cut
  <2>5. pc' \in [Nodes -> {"off", "connect", "idle", "lock", "version", "size", "copy"}]
    BY <1>10, <2>1 DEF Register
  <2> QED BY <1>10, <2>2, <2>3, <2>4, <2>5 DEF Register
<1>11. ASSUME NEW s \in Subs, Connect(s) \/ Unregister(s) \/ UpdateSplats(s) PROVE TypeOK'
  <2>1. s \in Nodes
    BY NodeFacts
  <2> QED BY <1>11, <2>1 DEF Connect, Unregister, UpdateSplats
<1>12. ASSUME NEW s \in Subs, PollVersion(s) PROVE TypeOK'
  <2>1. s \in Nodes
    BY NodeFacts
  <2>2. pos' \in [Nodes -> 1..(Chunks + 1)] /\ current' \in [Nodes -> 0..MaxVersion]
    BY <1>12, <2>1, NodeFacts DEF PollVersion
  <2> QED BY <1>12, <2>1, <2>2 DEF PollVersion
<1>13. ASSUME NEW s \in Subs, PollPiece(s) PROVE TypeOK'
  <2>1. s \in Nodes
    BY NodeFacts
  <2>2. pos[s] \in 1..Chunks /\ pos[s] + 1 \in 1..(Chunks + 1)
    BY <1>13, <2>1, NodeFacts DEF PollPiece, Copied
  <2>3. pos' \in [Nodes -> 1..(Chunks + 1)]
    BY <1>13, <2>1, <2>2 DEF PollPiece
  <2>4. seen' \in [Subs -> [1..Chunks -> 0..MaxVersion]]
    <3> DEFINE Pieces == [1..Chunks -> 0..MaxVersion]
               piece == [seen[s] EXCEPT ![pos[s]] = data[pos[s]]]
    <3>1. seen \in [Subs -> Pieces] /\ data[pos[s]] \in 0..MaxVersion
      BY <2>2
    <3>2. piece \in Pieces
      BY <2>2, <3>1
    <3>3. seen' = [seen EXCEPT ![s] = piece]
      BY <1>13 DEF PollPiece
    <3> HIDE DEF Pieces, piece, TypeOK
    <3>4. seen' \in [Subs -> Pieces]
      BY <3>1, <3>2, <3>3
    <3> QED BY <3>4 DEF Pieces
  <2> QED BY <1>13, <2>3, <2>4 DEF PollPiece
<1>14. ASSUME NEW s \in Subs, PollEnds(s) PROVE TypeOK'
  <2> DEFINE P == [packet : [1..Chunks -> 0..MaxVersion], calm : BOOLEAN]
             p == [packet |-> seen[s], calm |-> ~upset]
  <2>1. s \in Nodes /\ p \in P
    BY NodeFacts
  <2>2. latest[s] \in Seq(P) /\ latest' = [latest EXCEPT ![s] = Append(latest[s], p)]
    BY <1>14 DEF PollEnds
  <2>3. Append(latest[s], p) \in Seq(P)
    BY <2>1, <2>2
  <2>4. latest' \in [Subs -> Seq(P)]
    BY <2>2, <2>3
  <2> QED BY <1>14, <2>1, <2>4 DEF PollEnds, AfterUnlock
<1> QED BY <1>1, <1>2, <1>3, <1>4, <1>5, <1>6, <1>7, <1>8, <1>9, <1>10, <1>11, <1>12,
           <1>13, <1>14 DEF Next, Pushes, Polls

-----------------------------------------------------------------------------
(* What a step leaves alone. *)

LEMMA Numbers ==
  ASSUME TypeOK
  PROVE  /\ version \in Nat /\ size \in Nat /\ size \in {0, Chunks}
         /\ \A i \in 1..Chunks : data[i] \in Nat
         /\ data[1] \in Nat
         /\ \A n \in Nodes : current[n] \in Nat /\ pos[n] \in Nat
         /\ \A s \in Subs : \A i \in 1..Chunks : seen[s][i] \in Nat
         /\ \A s \in Subs : \A k \in 1..Len(latest[s]) : latest[s][k].packet[1] \in Nat
<1> USE DEF TypeOK
<1>1. version \in Nat /\ size \in Nat /\ size \in {0, Chunks}
  BY NodeFacts
<1>2. \A i \in 1..Chunks : data[i] \in Nat
  BY NodeFacts
<1>3. \A n \in Nodes : current[n] \in Nat /\ pos[n] \in Nat
  BY NodeFacts
<1>4. \A s \in Subs : \A i \in 1..Chunks : seen[s][i] \in Nat
  BY NodeFacts
<1>5. ASSUME NEW s \in Subs, NEW k \in 1..Len(latest[s])
      PROVE  latest[s][k].packet[1] \in Nat
  <2> DEFINE P == [packet : [1..Chunks -> 0..MaxVersion], calm : BOOLEAN]
  <2>1. latest[s] \in Seq(P)
    OBVIOUS
  <2>2. latest[s][k] \in P
    BY <2>1, ElementOfSeq
  <2>3. latest[s][k].packet \in [1..Chunks -> 0..MaxVersion]
    BY <2>2
  <2> HIDE DEF TypeOK
  <2> QED BY <2>3, NodeFacts
<1> QED BY <1>1, <1>2, <1>3, <1>4, <1>5, NodeFacts

LEMMA MutexKept ==
  ASSUME MutexOK, Inside' \subseteq Inside, Busy' \subseteq Busy, locked' = locked,
         sized => sized', ~upset' => ~upset \/ Busy' = {}
  PROVE  MutexOK'
<1>1. CASE ~upset
  BY <1>1 DEF MutexOK
<1>2. CASE Busy' = {}
  <2>1. Inside' = {}
    BY <1>2 DEF Busy
  <2> QED BY <1>2, <2>1 DEF MutexOK
<1> QED BY <1>1, <1>2 DEF MutexOK

LEMMA FileKept ==
  ASSUME FileOK, version' = version, size' = size, data' = data,
         Pushing' = Pushing, Done' = Done, Begun' = Begun,
         (pc[Pub] = "copy")' = (pc[Pub] = "copy"),
         current'[Pub] = current[Pub], pos'[Pub] = pos[Pub],
         sized => sized', Pub \in dead' => Pub \in dead \/ ~sized
  PROVE  FileOK'
BY DEF FileOK, Whole

LEMMA PolledKept ==
  ASSUME NEW s \in Subs, PolledOK(s), version' = version, size' = size, data' = data,
         Done' = Done, Begun' = Begun, Filling' = Filling,
         current'[s] = current[s], latest'[s] = latest[s]
  PROVE  PolledOK(s)'
BY DEF PolledOK, Whole

LEMMA PollKept ==
  ASSUME NEW s \in Subs, PollOK(s), version' = version, size' = size, data' = data,
         current'[s] = current[s], latest'[s] = latest[s], seen'[s] = seen[s],
         pos'[s] = pos[s], s \in Busy' /\ ~upset' => s \in Busy /\ ~upset,
         pc'[s] = pc[s] \/ (pc[s] \in {"lock", "version"} /\ pc'[s] \in {"lock", "version"})
  PROVE  PollOK(s)'
BY DEF PollOK

(* Steps of the publisher count alike when it stays where it is. *)
LEMMA PubKept ==
  ASSUME pc'[Pub] = pc[Pub], current'[Pub] = current[Pub]
  PROVE  Pushing' = Pushing /\ Filling' = Filling /\ Done' = Done /\ Begun' = Begun
BY DEF Pushing, Filling, Done, Begun

-----------------------------------------------------------------------------
(* The publisher's steps. *)

LEMMA CreateOK ==
  ASSUME SplatInv, TypeOK', Create
  PROVE  SplatInv'
<1> USE NodeFacts DEF SplatInv
<1>1. /\ \A s \in Subs : pc'[s] = pc[s]
      /\ pc[Pub] = "off" /\ pc'[Pub] = "idle"
  BY DEF Create, Goto, TypeOK
<1>2. Inside' \subseteq Inside /\ Busy' \subseteq Busy
  BY <1>1 DEF Inside, Busy, Create, Nodes
<1>3. /\ Pushing' = Pushing /\ Filling' = Filling /\ Done' = Done /\ Begun' = Begun
      /\ (pc[Pub] = "copy")' = (pc[Pub] = "copy")
  BY <1>1 DEF Pushing, Filling, Done, Begun, Create, nodeVars
<1>4. MutexOK'
  BY <1>2, MutexKept DEF Create, fileVars
<1>5. FileOK'
  BY <1>3, FileKept DEF Create, fileVars, nodeVars
<1>6. \A s \in Subs : PolledOK(s)'
  BY <1>3, PolledKept DEF Create, fileVars, nodeVars
<1>7. \A s \in Subs : PollOK(s)'
  BY <1>1, <1>2, PollKept DEF Create, fileVars, nodeVars
<1> QED BY <1>1, <1>4, <1>5, <1>6, <1>7

LEMMA PushOK ==
  ASSUME SplatInv, TypeOK', Push
  PROVE  SplatInv'
<1> USE NodeFacts DEF SplatInv
<1>1. /\ \A s \in Subs : pc'[s] = pc[s] /\ current'[s] = current[s]
      /\ pc[Pub] = "idle" /\ pc'[Pub] = "lock" /\ current'[Pub] = current[Pub] + 1
  BY DEF Push, Goto, TypeOK
<1>2. Inside' \subseteq Inside /\ Busy' \subseteq Busy
  BY <1>1 DEF Inside, Busy, Push, Nodes
<1>3. current[Pub] \in Nat
  BY Numbers
<1>4. /\ Filling' = Filling /\ Done' = Done /\ Begun' = Begun
      /\ (pc[Pub] = "copy")' = (pc[Pub] = "copy")
      /\ current'[Pub] >= 1
  BY <1>1, <1>3 DEF Pushing, Filling, Done, Begun
<1>5. MutexOK'
  BY <1>2, MutexKept DEF Push, fileVars
<1>6. FileOK'
  BY <1>1, <1>4 DEF Push, fileVars, FileOK, Whole
<1>7. \A s \in Subs : PolledOK(s)'
  BY <1>1, <1>4, PolledKept DEF Push, fileVars
<1>8. \A s \in Subs : PollOK(s)'
  BY <1>1, <1>2, PollKept DEF Push, fileVars
<1> QED BY <1>1, <1>5, <1>6, <1>7, <1>8

LEMMA PushVersionOK ==
  ASSUME SplatInv, TypeOK', PushVersion
  PROVE  SplatInv'
<1> USE NodeFacts DEF SplatInv
<1>1. /\ \A s \in Subs : pc'[s] = pc[s]
      /\ pc[Pub] = "version" /\ pc'[Pub] = "size" /\ Pub \notin dead /\ sized
  BY DEF PushVersion, Goto, TypeOK, Touches
<1>2. /\ UNCHANGED <<locked, size, data, sized, pos, current, seen, latest, dead, upset>>
      /\ version' = current[Pub]
  BY DEF PushVersion, nodeVars
<1>3. Inside' \subseteq Inside /\ Busy' \subseteq Busy
  BY <1>1, <1>2 DEF Inside, Busy, Nodes
<1>4. Pushing /\ Pushing' /\ Filling' /\ current[Pub] \in Nat
  BY <1>1, Numbers DEF Pushing, Filling
<1>5. Done' = Done /\ Begun = current[Pub] - 1 /\ Begun' = current[Pub]
  BY <1>1, <1>2, <1>4 DEF Done, Begun
<1>6. MutexOK'
  BY <1>2, <1>3, MutexKept
<1>7. FileOK'
  BY <1>1, <1>2, <1>4, <1>5 DEF FileOK, Whole
<1>8. ASSUME NEW s \in Subs PROVE PolledOK(s)' /\ PollOK(s)'
  <2>1. current[s] \in Nat /\ current[s] < current[Pub]
    BY <1>4, <1>5, Numbers DEF PolledOK
  <2>2. PolledOK(s)'
    BY <1>2, <1>4, <1>5, <2>1 DEF PolledOK, Whole
  <2>3. Pub \in Inside
    BY <1>1 DEF Inside
  <2>4. s \in Busy /\ ~upset => pc[s] = "lock"
    BY <2>3 DEF MutexOK, Busy
  <2>5. PollOK(s)'
    BY <1>1, <1>2, <1>3, <2>1, <2>4 DEF PollOK
  <2> QED BY <2>2, <2>5
<1> QED BY <1>1, <1>6, <1>7, <1>8

LEMMA PushSizeOK ==
  ASSUME SplatInv, TypeOK', PushSize
  PROVE  SplatInv'
<1> USE NodeFacts DEF SplatInv
<1>1. /\ \A s \in Subs : pc'[s] = pc[s] /\ pos'[s] = pos[s]
      /\ pc[Pub] = "size" /\ pc'[Pub] = "copy" /\ Pub \notin dead /\ sized
      /\ pos'[Pub] = 1
  BY DEF PushSize, Goto, TypeOK, Touches
<1>2. /\ UNCHANGED <<locked, version, data, sized, current, seen, latest, dead, upset>>
      /\ size' = Chunks
  BY DEF PushSize
<1>3. Inside' \subseteq Inside /\ Busy' \subseteq Busy
  BY <1>1, <1>2 DEF Inside, Busy, Nodes
<1>4. /\ Pushing /\ Pushing' /\ Filling' /\ Filling
      /\ Done' = Done /\ Begun' = Begun
  BY <1>1, <1>2 DEF Pushing, Filling, Done, Begun
<1>5. MutexOK'
  BY <1>2, <1>3, MutexKept
<1>6. FileOK'
  BY <1>1, <1>2, <1>4 DEF FileOK
<1>7. ASSUME NEW s \in Subs PROVE PolledOK(s)' /\ PollOK(s)'
  <2>1. PolledOK(s)'
    BY <1>2, <1>4 DEF PolledOK, Whole
  <2>2. PollOK(s)'
    BY <1>1, <1>2, <1>3 DEF PollOK
  <2> QED BY <2>1, <2>2
<1> QED BY <1>1, <1>5, <1>6, <1>7

LEMMA PushPieceOK ==
  ASSUME SplatInv, TypeOK', PushPiece
  PROVE  SplatInv'
<1> USE NodeFacts DEF SplatInv
<1>1. /\ UNCHANGED <<locked, version, size, sized, pc, current, seen, latest, dead, upset>>
      /\ pc[Pub] = "copy" /\ Pub \notin dead /\ sized
  BY DEF PushPiece, Touches
<1>2. /\ pos[Pub] \in 1..Chunks /\ pos'[Pub] = pos[Pub] + 1
      /\ \A s \in Subs : pos'[s] = pos[s]
  BY DEF PushPiece, Copied, TypeOK
<1>3. \A i \in 1..Chunks : data'[i] = IF i = pos[Pub] THEN current[Pub] ELSE data[i]
  BY DEF PushPiece, TypeOK
<1>4. Inside' = Inside /\ Busy' = Busy
  BY <1>1 DEF Inside, Busy
<1>5. /\ Pushing /\ Pushing' /\ Filling' /\ Filling
      /\ Done' = Done /\ Begun' = Begun
  BY <1>1 DEF Pushing, Filling, Done, Begun
<1>6. MutexOK'
  BY <1>1, <1>4, MutexKept
<1>7. \A i \in 1..Chunks : i < pos'[Pub] => i < pos[Pub] \/ i = pos[Pub]
  BY <1>2
<1>8. FileOK'
  BY <1>1, <1>3, <1>5, <1>7 DEF FileOK
<1>9. ASSUME NEW s \in Subs PROVE PolledOK(s)' /\ PollOK(s)'
  <2>1. PolledOK(s)'
    BY <1>1, <1>5 DEF PolledOK, Whole
  <2>2. Pub \in Inside
    BY <1>1 DEF Inside
  <2>3. s \in Busy /\ ~upset => pc[s] = "lock"
    BY <2>2 DEF MutexOK, Busy
  <2>4. PollOK(s)'
    BY <1>1, <1>4, <2>3 DEF PollOK
  <2> QED BY <2>1, <2>4
<1> QED BY <1>1, <1>6, <1>8, <1>9

LEMMA PushEndsOK ==
  ASSUME SplatInv, TypeOK', PushEnds
  PROVE  SplatInv'
<1> USE NodeFacts DEF SplatInv
<1>1. /\ \A s \in Subs : pc'[s] = pc[s]
      /\ pc[Pub] = "copy" /\ pc'[Pub] = "idle" /\ Pub \notin dead /\ sized
      /\ pos[Pub] > Chunks
  BY DEF PushEnds, Goto, TypeOK, Touches, Copied
<1>2. /\ UNCHANGED <<version, size, data, sized, pos, current, seen, latest, dead>>
      /\ locked' = FALSE /\ upset' = (upset /\ Busy' # {})
  BY DEF PushEnds, nodeVars, AfterUnlock, Calms
<1>3. Pub \in Inside /\ Inside' \subseteq Inside \ {Pub} /\ Busy' \subseteq Busy
  BY <1>1, <1>2 DEF Inside, Busy, Nodes
<1>4. /\ Pushing /\ ~Pushing' /\ ~Filling' /\ Filling /\ current[Pub] \in Nat
      /\ current[Pub] >= 1
  BY <1>1, Numbers DEF Pushing, Filling, FileOK
<1>5. /\ Done = current[Pub] - 1 /\ Done' = current[Pub]
      /\ Begun = current[Pub] /\ Begun' = current[Pub]
  BY <1>1, <1>2, <1>4 DEF Done, Begun
<1>6. size # 0 => \A i \in 1..Chunks : data[i] = current[Pub]
  <2>1. \A i \in 1..Chunks : i < pos[Pub]
    BY <1>1, Numbers
  <2> QED BY <1>1, <2>1 DEF FileOK
<1>7. MutexOK'
  <2>1. CASE ~upset
    BY <1>2, <1>3, <2>1 DEF MutexOK
  <2>2. CASE Busy' = {}
    <3>1. Inside' = {}
      BY <2>2 DEF Busy
    <3> QED BY <2>2, <3>1 DEF MutexOK
  <2> QED BY <1>2, <2>1, <2>2 DEF MutexOK
<1>8. FileOK'
  BY <1>1, <1>2, <1>4, <1>5, <1>6 DEF FileOK, Whole
<1>9. ASSUME NEW s \in Subs PROVE PolledOK(s)'
  <2>1. \A k \in 1..Len(latest[s]) :
          latest[s][k].calm => latest[s][k].packet[1] < current[Pub]
    BY <1>4, <1>5, Numbers DEF PolledOK
  <2>2. size # 0 => data[1] = current[Pub]
    BY <1>6
  <2>3. current'[s] <= Begun'
    BY <1>2, <1>5 DEF PolledOK
  <2>4. ASSUME NEW k \in 1..Len(latest[s]), latest[s][k].calm
        PROVE  /\ Whole(latest[s][k].packet)
               /\ latest[s][k].packet[1] <= current[Pub]
               /\ size # 0 => /\ latest[s][k].packet[1] <= data[1]
                              /\ latest[s][k].packet[1] # data[1]
               /\ \A j \in 1..(k - 1) : latest[s][j].calm =>
                    latest[s][j].packet[1] < latest[s][k].packet[1]
    <3>1. latest[s][k].packet[1] \in Nat /\ latest[s][k].packet[1] < current[Pub]
      BY <2>1, <2>4, Numbers
    <3>2. latest[s][k].packet[1] <= current[Pub] /\ latest[s][k].packet[1] # current[Pub]
      BY <1>4, <3>1
    <3> QED BY <2>2, <2>4, <3>2 DEF PolledOK
  <2> QED BY <1>2, <1>4, <1>5, <2>3, <2>4 DEF PolledOK, Whole
<1>10. ASSUME NEW s \in Subs PROVE PollOK(s)'
  <2>1. CASE ~upset
    BY <1>1, <1>2, <1>3, <2>1, PollKept
  <2>2. CASE Busy' = {}
    BY <2>2 DEF PollOK
  <2> QED BY <1>2, <2>1, <2>2 DEF PollOK
<1> QED BY <1>1, <1>7, <1>8, <1>9, <1>10

-----------------------------------------------------------------------------
(* Any node's steps. *)

LEMMA LockOK ==
  ASSUME SplatInv, TypeOK', NEW n \in Nodes, Lock(n)
  PROVE  SplatInv'
<1> USE NodeFacts DEF SplatInv
<1>1. /\ \A m \in Nodes : m # n => pc'[m] = pc[m]
      /\ pc[n] = "lock" /\ pc'[n] = "version" /\ n \notin dead /\ sized
  BY DEF Lock, Goto, TypeOK, Touches
<1>2. /\ UNCHANGED <<version, size, data, sized, pos, current, seen, latest, dead, upset>>
      /\ locked' = TRUE /\ ~locked
  BY DEF Lock, nodeVars, MayLock
<1>3. /\ Inside' = Inside \cup {n}
      /\ \A s \in Subs : s \in Busy' <=> s \in Busy
  BY <1>1, <1>2 DEF Inside, Busy, Nodes
<1>4. /\ Pushing' = Pushing /\ Filling' = Filling /\ Done' = Done /\ Begun' = Begun
      /\ (pc[Pub] = "copy")' = (pc[Pub] = "copy")
  BY <1>1, <1>2 DEF Pushing, Filling, Done, Begun
<1>5. MutexOK'
  BY <1>1, <1>2, <1>3 DEF MutexOK
<1>6. FileOK'
  BY <1>2, <1>4, FileKept
<1>7. \A s \in Subs : PolledOK(s)'
  BY <1>2, <1>4, PolledKept
<1>8. ASSUME NEW s \in Subs PROVE PollOK(s)'
  <2>1. s \in Busy' /\ ~upset' => s \in Busy /\ ~upset
    BY <1>2, <1>3
  <2>2. pc'[s] = pc[s] \/ (pc[s] = "lock" /\ pc'[s] = "version")
    BY <1>1
  <2> QED BY <1>2, <2>1, <2>2 DEF PollOK
<1> QED BY <1>1, <1>5, <1>6, <1>7, <1>8

LEMMA BusErrorOK ==
  ASSUME SplatInv, TypeOK', NEW n \in Nodes, BusError(n)
  PROVE  SplatInv'
<1> USE NodeFacts DEF SplatInv
<1>1. /\ UNCHANGED <<locked, version, size, data, sized, pc, pos, current, seen, latest>>
      /\ dead' = dead \cup {n} /\ ~sized /\ upset' = (upset /\ Busy' # {})
  BY DEF BusError, fileVars, nodeVars, Calms
<1>2. Inside' \subseteq Inside /\ Busy' \subseteq Busy
  BY <1>1 DEF Inside, Busy
<1>3. Pushing' = Pushing /\ Filling' = Filling /\ Done' = Done /\ Begun' = Begun
  BY <1>1 DEF Pushing, Filling, Done, Begun
<1>4. MutexOK'
  BY <1>1, <1>2, MutexKept
<1>5. FileOK'
  BY <1>1, <1>3, FileKept
<1>6. \A s \in Subs : PolledOK(s)'
  BY <1>1, <1>3, PolledKept
<1>7. ASSUME NEW s \in Subs PROVE PollOK(s)'
  BY <1>1, <1>2, PollKept
<1> QED BY <1>1, <1>4, <1>5, <1>6, <1>7

-----------------------------------------------------------------------------
(* The subscribers' steps. *)

LEMMA RegisterOK ==
  ASSUME SplatInv, TypeOK', NEW s \in Subs, Register(s)
  PROVE  SplatInv'
<1> USE NodeFacts DEF SplatInv
<1>1. /\ \A m \in Nodes : m # s => pc'[m] = pc[m] /\ current'[m] = current[m]
      /\ pc[s] \in {"off", "idle"} /\ pc'[s] = "connect" /\ current'[s] = 0
      /\ s \in Nodes /\ s # Pub
  BY DEF Register, Goto, TypeOK
<1>2. /\ UNCHANGED <<pos, seen, latest, dead>>
      /\ locked' = FALSE /\ version' = 0 /\ size' = 0 /\ data' = Blank
      /\ upset' = (upset \/ Busy # {})
  BY DEF Register, Cut
<1>3. Inside' = Inside /\ Busy' = Busy
  BY <1>1, <1>2 DEF Inside, Busy
<1>4. Pushing' = Pushing /\ Filling' = Filling /\ Done' = Done /\ Begun' = Begun
  BY <1>1, PubKept
<1>5. ~upset' => Inside' = {} /\ Busy' = {}
  BY <1>2, <1>3 DEF Busy
<1>6. MutexOK'
  BY <1>5 DEF MutexOK
<1>7. Begun >= 0
  BY Numbers DEF FileOK, Begun, Pushing
<1>8. FileOK'
  BY <1>1, <1>2, <1>4, <1>7 DEF FileOK
<1>9. \A t \in Subs : PolledOK(t)'
  BY <1>1, <1>2, <1>4, <1>7 DEF PolledOK, Whole
<1>10. \A t \in Subs : PollOK(t)'
  BY <1>5 DEF PollOK
<1>11. \A t \in Subs : pc'[t] # "size"
  BY <1>1
<1> QED BY <1>6, <1>8, <1>9, <1>10, <1>11

LEMMA IdleOK ==
  ASSUME SplatInv, TypeOK', NEW s \in Subs, Connect(s) \/ Unregister(s)
  PROVE  SplatInv'
<1> USE NodeFacts DEF SplatInv
<1>1. /\ \A m \in Nodes : m # s => pc'[m] = pc[m]
      /\ pc'[s] \in {"idle", "off"} /\ pc[s] \in {"connect", "idle"}
      /\ s \in Nodes /\ s # Pub
  BY DEF Connect, Unregister, Goto, TypeOK
<1>2. /\ UNCHANGED <<locked, version, size, data, pos, current, seen, latest, dead, upset>>
      /\ sized => sized'
  BY DEF Connect, Unregister, fileVars, nodeVars
<1>3. Inside' = Inside /\ Busy' = Busy
  BY <1>1, <1>2 DEF Inside, Busy
<1>4. Pushing' = Pushing /\ Filling' = Filling /\ Done' = Done /\ Begun' = Begun
  BY <1>1, <1>2, PubKept
<1>5. MutexOK'
  BY <1>2, <1>3, MutexKept
<1>6. FileOK'
  BY <1>1, <1>2, <1>4, FileKept
<1>7. \A t \in Subs : PolledOK(t)'
  BY <1>2, <1>4, PolledKept
<1>8. ASSUME NEW t \in Subs PROVE PollOK(t)'
  <2>1. CASE t = s
    BY <1>1, <2>1 DEF Busy, Inside, PollOK
  <2>2. CASE t # s
    BY <1>1, <1>2, <1>3, <2>2, PollKept
  <2> QED BY <2>1, <2>2
<1>9. \A t \in Subs : pc'[t] # "size"
  BY <1>1
<1> QED BY <1>5, <1>6, <1>7, <1>8, <1>9

LEMMA UpdateSplatsOK ==
  ASSUME SplatInv, TypeOK', NEW s \in Subs, UpdateSplats(s)
  PROVE  SplatInv'
<1> USE NodeFacts DEF SplatInv
<1>1. /\ \A m \in Nodes : m # s => pc'[m] = pc[m]
      /\ pc[s] = "idle" /\ pc'[s] = "lock" /\ s \in Nodes /\ s # Pub
      /\ sized /\ version # current[s] /\ size # 0
  BY DEF UpdateSplats, Goto, TypeOK, Touches, Available
<1>2. UNCHANGED <<locked, version, size, data, sized, pos, current, seen, latest, dead, upset>>
  BY DEF UpdateSplats, fileVars, nodeVars
<1>3. Inside' = Inside /\ \A t \in Nodes : t # s => (t \in Busy' <=> t \in Busy)
  BY <1>1, <1>2 DEF Inside, Busy
<1>4. Pushing' = Pushing /\ Filling' = Filling /\ Done' = Done /\ Begun' = Begun
  BY <1>1, <1>2, PubKept
<1>5. MutexOK'
  BY <1>1, <1>2, <1>3 DEF MutexOK
<1>6. FileOK'
  BY <1>1, <1>2, <1>4, FileKept
<1>7. \A t \in Subs : PolledOK(t)'
  BY <1>2, <1>4, PolledKept
<1>8. ASSUME NEW t \in Subs PROVE PollOK(t)'
  <2>1. CASE t = s
    BY <1>1, <1>2, <2>1 DEF PollOK
  <2>2. CASE t # s
    BY <1>1, <1>2, <1>3, <2>2, PollKept
  <2> QED BY <2>1, <2>2
<1>9. \A t \in Subs : pc'[t] # "size"
  BY <1>1
<1> QED BY <1>5, <1>6, <1>7, <1>8, <1>9

LEMMA PollVersionOK ==
  ASSUME SplatInv, TypeOK', NEW s \in Subs, PollVersion(s)
  PROVE  SplatInv'
<1> USE NodeFacts DEF SplatInv
<1>1. /\ \A m \in Nodes : m # s => pc'[m] = pc[m] /\ current'[m] = current[m] /\ pos'[m] = pos[m]
      /\ pc[s] = "version" /\ pc'[s] = "copy" /\ s \in Nodes /\ s # Pub
      /\ sized /\ s \notin dead /\ current'[s] = version /\ pos'[s] = 1
  BY DEF PollVersion, Goto, TypeOK, Touches
<1>2. UNCHANGED <<locked, version, size, data, sized, seen, latest, dead, upset>>
  BY DEF PollVersion, fileVars
<1>3. Inside' = Inside /\ Busy' = Busy /\ s \in Inside /\ s \in Busy
  BY <1>1, <1>2 DEF Inside, Busy
<1>4. Pushing' = Pushing /\ Filling' = Filling /\ Done' = Done /\ Begun' = Begun
  BY <1>1, PubKept
<1>5. MutexOK'
  BY <1>2, <1>3, MutexKept
<1>6. FileOK'
  BY <1>1, <1>2, <1>4, FileKept
<1>7. ASSUME NEW t \in Subs PROVE PolledOK(t)'
  <2>1. CASE t = s
    <3>1. current'[s] <= Begun'
      BY <1>1, <1>4 DEF FileOK
    <3> QED BY <1>1, <1>2, <1>4, <2>1, <3>1 DEF PolledOK, Whole
  <2>2. CASE t # s
    BY <1>1, <1>2, <1>4, <2>2, PolledKept
  <2> QED BY <2>1, <2>2
<1>8. ASSUME ~upset
      PROVE  \A k \in 1..Len(latest[s]) : latest[s][k].calm => latest[s][k].packet[1] < data[1]
  <2>1. size # 0 /\ version # current[s]
    BY <1>1, <1>3, <1>8 DEF PollOK
  <2>2. Pub \notin dead
    BY <2>1 DEF FileOK
  <2>3. Pub \notin Inside
    BY <1>1, <1>3, <1>8 DEF MutexOK
  <2>4. ~Filling
    BY <2>2, <2>3 DEF Inside, Filling
  <2> QED BY <2>1, <2>4, Numbers DEF PolledOK
<1>9. ASSUME NEW t \in Subs PROVE PollOK(t)'
  <2>1. CASE t = s
    <3>1. ~upset => size # 0
      BY <1>3 DEF PollOK
    <3> QED BY <1>1, <1>2, <1>8, <2>1, <3>1 DEF PollOK
  <2>2. CASE t # s
    BY <1>1, <1>2, <1>3, <2>2, PollKept
  <2> QED BY <2>1, <2>2
<1>10. \A t \in Subs : pc'[t] # "size"
  BY <1>1
<1> QED BY <1>5, <1>6, <1>7, <1>9, <1>10

LEMMA PollPieceOK ==
  ASSUME SplatInv, TypeOK', NEW s \in Subs, PollPiece(s)
  PROVE  SplatInv'
<1> USE NodeFacts DEF SplatInv
<1>1. /\ \A m \in Nodes : m # s => pos'[m] = pos[m]
      /\ pc[s] = "copy" /\ s \in Nodes /\ s # Pub /\ s \notin dead
      /\ pos[s] \in 1..Chunks /\ pos'[s] = pos[s] + 1
  BY DEF PollPiece, Copied, TypeOK, Touches
<1>2. UNCHANGED <<locked, version, size, data, sized, pc, current, latest, dead, upset>>
  BY DEF PollPiece, fileVars
<1>3. /\ \A t \in Subs : t # s => seen'[t] = seen[t]
      /\ \A i \in 1..Chunks : seen'[s][i] = IF i = pos[s] THEN data[i] ELSE seen[s][i]
  BY DEF PollPiece, TypeOK
<1>4. Inside' = Inside /\ Busy' = Busy
  BY <1>2 DEF Inside, Busy
<1>5. Pushing' = Pushing /\ Filling' = Filling /\ Done' = Done /\ Begun' = Begun
  BY <1>2, PubKept
<1>6. MutexOK'
  BY <1>2, <1>4, MutexKept
<1>7. FileOK'
  BY <1>1, <1>2, <1>5, FileKept
<1>8. \A t \in Subs : PolledOK(t)'
  BY <1>2, <1>5, PolledKept
<1>9. ASSUME NEW t \in Subs PROVE PollOK(t)'
  <2>1. CASE t = s
    <3>1. \A i \in 1..Chunks : i < pos'[s] => i < pos[s] \/ i = pos[s]
      BY <1>1
    <3> QED BY <1>1, <1>2, <1>3, <1>4, <2>1, <3>1 DEF PollOK
  <2>2. CASE t # s
    BY <1>1, <1>2, <1>3, <1>4, <2>2, PollKept
  <2> QED BY <2>1, <2>2
<1> QED BY <1>2, <1>6, <1>7, <1>8, <1>9

LEMMA PollEndsOK ==
  ASSUME SplatInv, TypeOK', NEW s \in Subs, PollEnds(s)
  PROVE  SplatInv'
<1> USE NodeFacts DEF SplatInv
<1> DEFINE p == [packet |-> seen[s], calm |-> ~upset]
<1>1. /\ \A m \in Nodes : m # s => pc'[m] = pc[m]
      /\ pc[s] = "copy" /\ pc'[s] = "idle" /\ s \in Nodes /\ s # Pub /\ s \notin dead
      /\ pos[s] > Chunks
  BY DEF PollEnds, Goto, TypeOK, Touches, Copied
<1>2. /\ UNCHANGED <<version, size, data, sized, pos, current, seen, dead>>
      /\ locked' = FALSE /\ upset' = (upset /\ Busy' # {})
  BY DEF PollEnds, AfterUnlock, Calms
<1>3. /\ \A t \in Subs : t # s => latest'[t] = latest[t]
      /\ latest'[s] = Append(latest[s], p)
  BY DEF PollEnds, TypeOK
<1>4. /\ s \in Inside /\ s \in Busy
      /\ Inside' \subseteq Inside \ {s} /\ Busy' \subseteq Busy \ {s}
  BY <1>1, <1>2 DEF Inside, Busy
<1>5. Pushing' = Pushing /\ Filling' = Filling /\ Done' = Done /\ Begun' = Begun
  BY <1>1, <1>2, PubKept
<1>6. MutexOK'
  <2>1. CASE ~upset
    BY <1>2, <1>4, <2>1 DEF MutexOK
  <2>2. CASE Busy' = {}
    <3>1. Inside' = {}
      BY <2>2 DEF Busy
    <3> QED BY <2>2, <3>1 DEF MutexOK
  <2> QED BY <1>2, <2>1, <2>2 DEF MutexOK
<1>7. FileOK'
  BY <1>1, <1>2, <1>5, FileKept
<1>8. /\ Len(latest'[s]) = Len(latest[s]) + 1 /\ Len(latest[s]) \in Nat
      /\ \A k \in 1..Len(latest[s]) : latest'[s][k] = latest[s][k]
      /\ latest'[s][Len(latest[s]) + 1] = p
  <2>1. latest[s] \in Seq([packet : [1..Chunks -> 0..MaxVersion], calm : BOOLEAN])
    BY DEF TypeOK
  <2> QED BY <1>3, <2>1
<1>9. ASSUME ~upset
      PROVE  /\ \A i \in 1..Chunks : seen[s][i] = data[i]
             /\ size # 0 /\ version = current[s] /\ Whole(data) /\ data[1] <= Done
             /\ \A k \in 1..Len(latest[s]) :
                  latest[s][k].calm => latest[s][k].packet[1] < data[1]
  <2>1. \A i \in 1..Chunks : i < pos[s]
    BY <1>1, Numbers
  <2>2. /\ \A i \in 1..Chunks : seen[s][i] = data[i]
        /\ size # 0 /\ version = current[s]
        /\ \A k \in 1..Len(latest[s]) :
             latest[s][k].calm => latest[s][k].packet[1] < data[1]
    BY <1>1, <1>4, <1>9, <2>1 DEF PollOK
  <2>3. Pub \notin dead
    BY <2>2 DEF FileOK
  <2>4. Pub \notin Inside
    BY <1>1, <1>4, <1>9 DEF MutexOK
  <2>5. pc[Pub] # "copy"
    BY <2>3, <2>4 DEF Inside
  <2> QED BY <2>2, <2>5 DEF FileOK
<1>10. ASSUME NEW t \in Subs PROVE PolledOK(t)'
  <2>1. CASE t = s
    <3>1. current'[s] <= Begun'
      BY <1>2, <1>5 DEF PolledOK
    <3>2. ASSUME NEW k \in 1..Len(latest'[s]), latest'[s][k].calm
          PROVE  /\ Whole(latest'[s][k].packet)
                 /\ latest'[s][k].packet[1] <= Done
                 /\ size # 0 /\ ~Filling =>
                      /\ latest'[s][k].packet[1] <= data[1]
                      /\ latest'[s][k].packet[1] = data[1] => version = current[s]
                 /\ \A j \in 1..(k - 1) : latest'[s][j].calm =>
                      latest'[s][j].packet[1] < latest'[s][k].packet[1]
      <4>1. CASE k \in 1..Len(latest[s])
        <5>1. \A j \in 1..(k - 1) : j \in 1..Len(latest[s])
          BY <1>8, <4>1
        <5>2. \A j \in 1..(k - 1) : latest'[s][j] = latest[s][j]
          BY <1>8, <5>1
        <5>3. latest'[s][k] = latest[s][k]
          BY <1>8, <4>1
        <5>4. /\ Whole(latest[s][k].packet)
              /\ latest[s][k].packet[1] <= Done
              /\ size # 0 /\ ~Filling =>
                   /\ latest[s][k].packet[1] <= data[1]
                   /\ latest[s][k].packet[1] = data[1] => version = current[s]
              /\ \A j \in 1..(k - 1) : latest[s][j].calm =>
                   latest[s][j].packet[1] < latest[s][k].packet[1]
          BY <3>2, <4>1, <5>3 DEF PolledOK
        <5> QED BY <5>2, <5>3, <5>4
      <4>2. CASE k = Len(latest[s]) + 1
        <5>1. \A j \in 1..(k - 1) : j \in 1..Len(latest[s])
          BY <1>8, <4>2
        <5>2. latest'[s][k].packet = seen[s] /\ ~upset
          <6>1. latest'[s][k] = p
            BY <1>8, <4>2
          <6>2. p.packet = seen[s] /\ p.calm = ~upset
            BY Zenon
          <6> QED BY <3>2, <6>1, <6>2, Zenon
        <5>3. seen[s][1] = data[1] /\ Whole(seen[s]) /\ data[1] \in Nat
          BY <1>9, <5>2, Numbers DEF Whole
        <5>4. /\ Whole(latest'[s][k].packet)
              /\ latest'[s][k].packet[1] = data[1]
          BY <5>2, <5>3
        <5>5. \A j \in 1..(k - 1) : latest'[s][j].calm => latest'[s][j].packet[1] < data[1]
          BY <1>8, <1>9, <5>1, <5>2
        <5>6. data[1] <= Done /\ version = current[s] /\ data[1] <= data[1]
          BY <1>9, <5>2, <5>3
        <5> QED BY <5>4, <5>5, <5>6
      <4> QED BY <1>8, <4>1, <4>2
    <3> QED BY <1>2, <1>5, <2>1, <3>1, <3>2 DEF PolledOK, Whole
  <2>2. CASE t # s
    BY <1>2, <1>3, <1>5, <2>2, PolledKept
  <2> QED BY <2>1, <2>2
<1>11. ASSUME NEW t \in Subs PROVE PollOK(t)'
  <2>1. CASE t = s
    BY <1>4, <2>1 DEF PollOK
  <2>2. CASE Busy' = {}
    BY <2>2 DEF PollOK
  <2>3. CASE t # s /\ ~upset
    BY <1>1, <1>2, <1>3, <1>4, <2>3, PollKept
  <2> QED BY <1>2, <2>1, <2>2, <2>3 DEF PollOK
<1>12. \A t \in Subs : pc'[t] # "size"
  BY <1>1
<1> QED BY <1>6, <1>7, <1>10, <1>11, <1>12

-----------------------------------------------------------------------------
LEMMA InvInit == Init => SplatInv
<1> SUFFICES ASSUME Init PROVE SplatInv
  OBVIOUS
<1>1. TypeOK
  BY TypeInit
<1>2. /\ Inside = {} /\ Busy = {}
      /\ pc[Pub] = "off" /\ current[Pub] = 0 /\ version = 0 /\ size = 0 /\ dead = {}
      /\ \A s \in Subs : pc[s] = "off" /\ current[s] = 0 /\ latest[s] = <<>>
  BY NodeFacts DEF Init, Inside, Busy
<1>3. ~Pushing /\ Done = 0 /\ Begun = 0
  BY <1>2 DEF Pushing, Done, Begun
<1>4. MutexOK
  BY <1>2 DEF MutexOK
<1>5. FileOK
  BY <1>2, <1>3 DEF FileOK
<1>6. \A s \in Subs : pc[s] # "size" /\ PolledOK(s) /\ PollOK(s)
  BY <1>2, <1>3 DEF PolledOK, PollOK
<1> QED BY <1>1, <1>4, <1>5, <1>6 DEF SplatInv

LEMMA InvNext == SplatInv /\ [Next]_vars => SplatInv'
<1> SUFFICES ASSUME SplatInv, [Next]_vars PROVE SplatInv'
  OBVIOUS
<1>1. TypeOK'
  BY TypeNext DEF SplatInv
<1>2. CASE UNCHANGED vars
  <2>1. UNCHANGED <<locked, version, size, data, sized, pc, pos, current, seen, latest, dead, upset>>
    BY <1>2 DEF vars, fileVars, nodeVars
  <2>2. Inside' = Inside /\ Busy' = Busy
    BY <2>1 DEF Inside, Busy
  <2>3. Pushing' = Pushing /\ Filling' = Filling /\ Done' = Done /\ Begun' = Begun
    BY <2>1, PubKept
  <2>4. MutexOK' /\ FileOK'
    BY <2>1, <2>2, <2>3, MutexKept, FileKept DEF SplatInv
  <2>5. \A s \in Subs : PolledOK(s)' /\ PollOK(s)'
    BY <2>1, <2>2, <2>3, PolledKept, PollKept DEF SplatInv
  <2> QED BY <1>1, <2>1, <2>4, <2>5 DEF SplatInv
<1>3. CASE Create
  BY <1>1, <1>3, CreateOK
<1>4. CASE Push
  BY <1>1, <1>4, PushOK
<1>5. CASE Pushes
  BY <1>1, <1>5, PushVersionOK, PushSizeOK, PushPieceOK, PushEndsOK DEF Pushes
<1>6. CASE \E n \in Nodes : Lock(n) \/ BusError(n)
  BY <1>1, <1>6, LockOK, BusErrorOK
<1>7. CASE \E s \in Subs : Register(s) \/ Unregister(s) \/ Polls(s)
  BY <1>1, <1>7, RegisterOK, IdleOK, UpdateSplatsOK, PollVersionOK, PollPieceOK, PollEndsOK
     DEF Polls
<1> QED BY <1>2, <1>3, <1>4, <1>5, <1>6, <1>7 DEF Next

(* The invariant of this module holds of every state.                      *)
THEOREM InvHolds == Spec => []SplatInv
BY InvInit, InvNext, PTL DEF Spec

(* Every variable keeps its type, whoever truncates the file and whoever   *)
(* dies of it (splat.cpp; publish and update_splats of node_impl.cpp).     *)
THEOREM TypeCorrect == Spec => []TypeOK
<1>1. SplatInv => TypeOK
  BY DEF SplatInv
<1> QED BY <1>1, InvHolds, PTL

(* The mutex in the file (splat.cpp:55, :70) excludes: unless the file     *)
(* was truncated under one that holds it or waits to read, and not all of  *)
(* these are gone since, at most one process believes it holds the mutex.  *)
THEOREM Exclusive == Spec => []ExclusiveUnlessUpset
<1>1. SplatInv => ExclusiveUnlessUpset
  <2> SUFFICES ASSUME SplatInv, ~upset PROVE Cardinality(Inside) <= 1
    BY DEF ExclusiveUnlessUpset
  <2>1. CASE Inside = {}
    BY <2>1, FS_EmptySet
  <2>2. CASE Inside # {}
    <3>1. PICK n \in Inside : TRUE
      BY <2>2
    <3>2. Inside = {n}
      BY <3>1 DEF SplatInv, MutexOK
    <3> QED BY <3>2, FS_Singleton
  <2> QED BY <2>1, <2>2
<1> QED BY <1>1, InvHolds, PTL

(* A poll that no truncation disturbs returns one whole packet: every      *)
(* piece it copied out of the file (splat.cpp:78) is of the same push.     *)
THEOREM PollsAreWhole == Spec => []WholeUnlessUpset
<1>1. SplatInv => WholeUnlessUpset
  BY DEF SplatInv, PolledOK, WholeUnlessUpset
<1> QED BY <1>1, InvHolds, PTL

(* Such a poll returns a later push than every such poll of this node      *)
(* before it, although each info that announces the splat makes a new      *)
(* object, which forgets the version it polled (node_impl.cpp:413): the    *)
(* mapping empties the file (splat.cpp:129), and with it that packet.      *)
THEOREM PollsAreNewer == Spec => []NewerUnlessUpset
<1>1. SplatInv => NewerUnlessUpset
  BY DEF SplatInv, PolledOK, NewerUnlessUpset
<1> QED BY <1>1, InvHolds, PTL
=============================================================================
