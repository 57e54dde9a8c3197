-------------------------- MODULE Lifecycle_proofs --------------------------
(***************************************************************************)
(* Theorems about Lifecycle, for any connections, servers, publishers and  *)
(* subscribers.  What the user may do against the library's expectations   *)
(* disturbs no type; the rest holds of a user who does what is expected.   *)
(***************************************************************************)
EXTENDS Lifecycle, FiniteSetTheorems, SequenceTheorems, WellFoundedInduction, TLAPS

LEMMA ConstantFacts ==
  /\ MaxSlots \in Nat
  /\ IsFiniteSet(Links) /\ Accepted \subseteq Links
  /\ Gateway \in Links /\ Gateway \notin Accepted
  /\ Null \notin Spinetts /\ Null \notin Servers /\ Null \notin Links /\ Null # Node
  /\ Node \in Spinetts /\ Servers \subseteq Spinetts /\ Links \subseteq Spinetts
  /\ Node \notin Servers /\ Node \notin Links /\ Node \notin Children
  /\ \A l \in Links : l \notin Servers /\ l \notin Children
<1>1. IsFiniteSet(Accepted \cup {Gateway})
  BY LifecycleAssumption, FS_AddElement
<1> QED BY <1>1, LifecycleAssumption DEF Links, Spinetts, Children

-----------------------------------------------------------------------------
(* Sequences. *)

LEMMA RemoveAtFacts ==
  ASSUME NEW S, NEW s \in Seq(S), NEW i \in 1..Len(s)
  PROVE  /\ RemoveAt(s, i) \in Seq(S) /\ Len(RemoveAt(s, i)) = Len(s) - 1
         /\ \A j \in 1..(Len(s) - 1) : RemoveAt(s, i)[j] = IF j < i THEN s[j] ELSE s[j + 1]
<1> DEFINE a == SubSeq(s, 1, i - 1)
           b == SubSeq(s, i + 1, Len(s))
<1>1. Len(s) \in Nat /\ i \in Nat /\ 1 <= i /\ i <= Len(s)
      /\ \A j \in 1..Len(s) : s[j] \in S
  BY LenProperties, ElementOfSeq
<1>2. /\ a \in Seq(S) /\ Len(a) = i - 1 /\ \A j \in 1..(i - 1) : a[j] = s[j]
  <2>1. 1 \in Int /\ i - 1 \in Int /\ \A j \in 1..(i - 1) : s[j] \in S
    BY <1>1
  <2>2. /\ a \in Seq(S) /\ Len(a) = IF 1 <= i - 1 THEN (i - 1) - 1 + 1 ELSE 0
        /\ \A j \in 1..((i - 1) - 1 + 1) : a[j] = s[1 + j - 1]
    BY <2>1, SubSeqProperties
  <2>3. (i - 1) - 1 + 1 = i - 1 /\ (\A j \in 1..(i - 1) : 1 + j - 1 = j)
        /\ (IF 1 <= i - 1 THEN (i - 1) - 1 + 1 ELSE 0) = i - 1
    BY <1>1
  <2> QED BY <2>2, <2>3
<1>3. /\ b \in Seq(S) /\ Len(b) = Len(s) - i /\ \A j \in 1..(Len(s) - i) : b[j] = s[i + j]
  <2>1. i + 1 \in Int /\ Len(s) \in Int /\ \A j \in (i + 1)..Len(s) : s[j] \in S
    BY <1>1
  <2>2. /\ b \in Seq(S) /\ Len(b) = IF i + 1 <= Len(s) THEN Len(s) - (i + 1) + 1 ELSE 0
        /\ \A j \in 1..(Len(s) - (i + 1) + 1) : b[j] = s[i + 1 + j - 1]
    BY <2>1, SubSeqProperties
  <2>3. Len(s) - (i + 1) + 1 = Len(s) - i /\ (\A j \in 1..(Len(s) - i) : i + 1 + j - 1 = i + j)
        /\ (IF i + 1 <= Len(s) THEN Len(s) - (i + 1) + 1 ELSE 0) = Len(s) - i
    BY <1>1
  <2> QED BY <2>2, <2>3
<1> HIDE DEF a, b
<1>4. /\ a \o b \in Seq(S) /\ Len(a \o b) = Len(a) + Len(b)
      /\ \A j \in 1..(Len(a) + Len(b)) :
           (a \o b)[j] = IF j <= Len(a) THEN a[j] ELSE b[j - Len(a)]
  BY <1>2, <1>3, ConcatProperties
<1>5. RemoveAt(s, i) = a \o b
  BY DEF RemoveAt, a, b
<1>6. ASSUME NEW j \in 1..(Len(s) - 1)
      PROVE  (a \o b)[j] = IF j < i THEN s[j] ELSE s[j + 1]
  <2>1. j \in 1..(Len(a) + Len(b)) /\ j \in Nat
    BY <1>1, <1>2, <1>3
  <2>2. CASE j < i
    <3>1. j <= Len(a) /\ j \in 1..(i - 1)
      BY <1>1, <1>2, <2>1, <2>2
    <3>2. (a \o b)[j] = a[j] /\ a[j] = s[j]
      BY <1>2, <1>4, <2>1, <3>1
    <3> QED BY <2>2, <3>2
  <2>3. CASE ~(j < i)
    <3>1. ~(j <= Len(a)) /\ j - Len(a) \in 1..(Len(s) - i) /\ i + (j - Len(a)) = j + 1
      BY <1>1, <1>2, <2>1, <2>3
    <3>2. (a \o b)[j] = b[j - Len(a)]
      BY <1>4, <2>1, <3>1
    <3>3. b[j - Len(a)] = s[i + (j - Len(a))]
      BY <1>3, <3>1
    <3> QED BY <2>3, <3>1, <3>2, <3>3
  <2> QED BY <2>2, <2>3
<1>7. Len(a) + Len(b) = Len(s) - 1
  BY <1>1, <1>2, <1>3
<1> QED BY <1>4, <1>5, <1>6, <1>7

LEMMA NoFirst ==
  ASSUME NEW S, NEW s \in Seq(S), 1 \notin 1..Len(s)
  PROVE  s = <<>>
<1>1. PICK n \in Nat : n = Len(s)
  BY LenProperties
<1>2. n = 0
  BY <1>1
<1> QED BY <1>1, <1>2, EmptySeq

LEMMA AppendFacts ==
  ASSUME NEW S, NEW s \in Seq(S), NEW e \in S
  PROVE  /\ Append(s, e) \in Seq(S) /\ Len(Append(s, e)) = Len(s) + 1
         /\ \A i \in 1..Len(s) : Append(s, e)[i] = s[i]
         /\ Append(s, e)[Len(s) + 1] = e
         /\ Len(s) \in Nat
BY AppendProperties, LenProperties

LEMMA FrontFacts ==
  ASSUME NEW S, NEW s \in Seq(S), s # <<>>
  PROVE  /\ Front(s) \in Seq(S) /\ Len(Front(s)) = Len(s) - 1
         /\ \A i \in 1..Len(Front(s)) : i \in 1..Len(s) /\ Front(s)[i] = s[i]
         /\ Len(s) \in 1..Len(s) /\ Last(s) = s[Len(s)]
<1>1. Len(s) \in Nat /\ Len(s) # 0 /\ \A i \in 1..Len(s) : s[i] \in S
  BY LenProperties, EmptySeq, ElementOfSeq
<1>2. 1 \in Int /\ Len(s) - 1 \in Int /\ \A i \in 1..(Len(s) - 1) : s[i] \in S
  BY <1>1
<1> DEFINE f == SubSeq(s, 1, Len(s) - 1)
<1>3. /\ f \in Seq(S) /\ Len(f) = IF 1 <= Len(s) - 1 THEN (Len(s) - 1) - 1 + 1 ELSE 0
      /\ \A i \in 1..((Len(s) - 1) - 1 + 1) : f[i] = s[1 + i - 1]
  BY <1>2, SubSeqProperties
<1> HIDE DEF f
<1>4. f \in Seq(S) /\ Len(f) = Len(s) - 1 /\ \A i \in 1..(Len(s) - 1) : f[i] = s[i]
  <2>1. (Len(s) - 1) - 1 + 1 = Len(s) - 1 /\ (\A i \in 1..(Len(s) - 1) : 1 + i - 1 = i)
        /\ (IF 1 <= Len(s) - 1 THEN (Len(s) - 1) - 1 + 1 ELSE 0) = Len(s) - 1
    <3>1. PICK n \in Nat : n = Len(s)
      BY <1>1
    <3>2. /\ (n - 1) - 1 + 1 = n - 1 /\ (\A i \in 1..(n - 1) : 1 + i - 1 = i)
          /\ (IF 1 <= n - 1 THEN (n - 1) - 1 + 1 ELSE 0) = n - 1
      BY <1>1, <3>1
    <3> QED BY <3>1, <3>2
  <2> QED BY <1>3, <2>1
<1>5. Front(s) = f /\ Last(s) = s[Len(s)]
  BY DEF Front, Last, f
<1> QED BY <1>1, <1>4, <1>5

LEMMA ConcatFacts ==
  ASSUME NEW S, NEW s \in Seq(S), NEW t \in Seq(S)
  PROVE  /\ s \o t \in Seq(S) /\ Len(s \o t) = Len(s) + Len(t)
         /\ \A i \in 1..Len(s) : (s \o t)[i] = s[i]
         /\ \A i \in 1..Len(t) : (s \o t)[Len(s) + i] = t[i]
         /\ Len(s) \in Nat /\ Len(t) \in Nat
<1>1. Len(s) \in Nat /\ Len(t) \in Nat
  BY LenProperties
<1>2. /\ s \o t \in Seq(S) /\ Len(s \o t) = Len(s) + Len(t)
      /\ \A i \in 1..(Len(s) + Len(t)) :
           (s \o t)[i] = IF i <= Len(s) THEN s[i] ELSE t[i - Len(s)]
  BY ConcatProperties
<1>3. ASSUME NEW i \in 1..Len(s) PROVE (s \o t)[i] = s[i]
  <2>1. i \in 1..(Len(s) + Len(t)) /\ i <= Len(s)
    BY <1>1
  <2> QED BY <1>2, <2>1
<1>4. ASSUME NEW i \in 1..Len(t) PROVE (s \o t)[Len(s) + i] = t[i]
  <2>1. /\ Len(s) + i \in 1..(Len(s) + Len(t)) /\ ~(Len(s) + i <= Len(s))
        /\ Len(s) + i - Len(s) = i
    BY <1>1
  <2> QED BY <1>2, <2>1
<1> QED BY <1>1, <1>2, <1>3, <1>4

LEMMA UnregisteredList ==
  ASSUME NEW s \in Seq(Spinetts \cup {Null}), NEW o
  PROVE  /\ Unregistered(s, o) \in Seq(Spinetts \cup {Null})
         /\ Len(Unregistered(s, o)) = Len(s) /\ Len(s) \in Nat
         /\ \A i \in 1..Len(s) : s[i] = o => Unregistered(s, o)[i] = Null
         /\ \A i \in 1..Len(s) : s[i] # o => Unregistered(s, o)[i] = s[i]
<1> DEFINE S == Spinetts \cup {Null}
           r == Unregistered(s, o)
<1>1. Len(s) \in Nat /\ DOMAIN s = 1..Len(s) /\ \A i \in 1..Len(s) : s[i] \in S
  BY LenProperties, ElementOfSeq
<1>2. r = [i \in 1..Len(s) |-> IF s[i] = o THEN Null ELSE s[i]]
  BY <1>1 DEF Unregistered
<1>3. Null \in S
  OBVIOUS
<1> HIDE DEF S, r
<1>4. r \in [1..Len(s) -> S]
  BY <1>1, <1>2, <1>3
<1>5. /\ \A i \in 1..Len(s) : s[i] = o => r[i] = Null
      /\ \A i \in 1..Len(s) : s[i] # o => r[i] = s[i]
  BY <1>2
<1>6. r \in Seq(S)
  BY <1>1, <1>4, SeqDef
<1>7. Len(r) = Len(s)
  BY <1>1, <1>4, <1>6, LenProperties
<1> QED BY <1>1, <1>5, <1>6, <1>7 DEF S, r

LEMMA LeastNumber ==
  ASSUME NEW N \in SUBSET Nat, N # {}
  PROVE  \E m \in N : \A n \in N : m <= n
<1> DEFINE R == {p \in Nat \X Nat : p[1] < p[2]}
<1>1. OpToRel(<, Nat) = R
  BY DEF OpToRel
<1>2. IsWellFoundedOn(R, Nat)
  BY <1>1, NatLessThanWellFounded, Zenon
<1>3. \A x, y \in N : <<y, x>> \in R <=> y < x
  OBVIOUS
<1> HIDE DEF R
<1>4. \E x \in N : \A y \in N : ~(<<y, x>> \in R)
  BY <1>2, WFMin, Zenon
<1>5. PICK m \in N : \A n \in N : ~(n < m)
  BY <1>3, <1>4, Zenon
<1>6. \A n \in N : m <= n
  BY <1>5
<1> QED BY <1>6

(* The first null entry, if there is one, leaves. *)
LEMMA SweptFacts ==
  ASSUME NEW S, NEW s \in Seq(S)
  PROVE  \/ Swept(s) = s /\ \A i \in 1..Len(s) : s[i] # Null
         \/ \E k \in 1..Len(s) : s[k] = Null /\ Swept(s) = RemoveAt(s, k)
<1>1. Len(s) \in Nat /\ DOMAIN s = 1..Len(s)
  BY LenProperties
<1>2. CASE ~(\E i \in DOMAIN s : s[i] = Null)
  BY <1>1, <1>2 DEF Swept
<1>3. CASE \E i \in DOMAIN s : s[i] = Null
  <2> DEFINE First(i) == s[i] = Null /\ \A j \in 1..(i - 1) : s[j] # Null
             k == CHOOSE i \in DOMAIN s : First(i)
             N == {i \in 1..Len(s) : s[i] = Null}
  <2>1. N # {} /\ N \subseteq Nat
    BY <1>1, <1>3
  <2>2. PICK m \in N : \A n \in N : m <= n
    BY <2>1, LeastNumber
  <2>3. m \in DOMAIN s /\ First(m)
    BY <1>1, <2>2
  <2>4. k \in DOMAIN s /\ First(k)
    BY <2>3
  <2>5. Swept(s) = RemoveAt(s, k)
    BY <1>3 DEF Swept
  <2> QED BY <1>1, <2>4, <2>5
<1> QED BY <1>2, <1>3

-----------------------------------------------------------------------------
(* Types, whatever the user does. *)

(* The connections for which there must be room. *)
Waiting == {l \in Links : sock[l] = "waiting"}

SlotsOK == Len(spinetts) + Len(toAdd) + Cardinality(Waiting) <= MaxSlots

(* While a server is spun, it and its client are where the user thread     *)
(* stands.                                                                 *)
InServer == pc \in {"check", "notify", "delete"}

SpinOK ==
  /\ at >= 1 /\ ci >= 1
  /\ InServer => at <= Len(spinetts) /\ spinetts[at] \in Servers
  /\ pc \in {"notify", "delete"} => ci <= Len(clients[spinetts[at]])

TypeInv == TypeOK /\ SlotsOK /\ SpinOK /\ sock[Gateway] # "waiting"

LEMMA Types ==
  ASSUME TypeOK
  PROVE  /\ spinetts \in Seq(Spinetts \cup {Null}) /\ toAdd \in Seq(Spinetts)
         /\ toAdd \in Seq(Spinetts \cup {Null})
         /\ clients \in [Servers -> Seq(Accepted)]
         /\ sock \in [Links -> {"none", "waiting", "open", "closed", "deleted"}]
         /\ child \in [Children -> {"none", "live", "husk"}]
         /\ at \in Nat /\ ci \in Nat
         /\ Len(spinetts) \in Nat /\ Len(toAdd) \in Nat
<1>1. toAdd \in Seq(Spinetts \cup {Null})
  <2>1. toAdd \in Seq(Spinetts)
    BY DEF TypeOK
  <2>2. Len(toAdd) \in Nat /\ toAdd \in [1..Len(toAdd) -> Spinetts]
    BY <2>1, LenProperties
  <2>3. toAdd \in [1..Len(toAdd) -> Spinetts \cup {Null}]
    BY <2>2
  <2> QED BY <2>2, <2>3, SeqDef
<1>2. Len(spinetts) \in Nat /\ Len(toAdd) \in Nat
  BY LenProperties DEF TypeOK
<1> QED BY <1>1, <1>2 DEF TypeOK

LEMMA WaitingFacts == IsFiniteSet(Waiting) /\ Cardinality(Waiting) \in Nat
BY ConstantFacts, FS_Subset, FS_CardinalityType DEF Waiting

LEMMA WaitingFactsNext == IsFiniteSet(Waiting') /\ Cardinality(Waiting') \in Nat
BY ConstantFacts, FS_Subset, FS_CardinalityType DEF Waiting

(* No connection more waits. *)
LEMMA FewerWaiting ==
  ASSUME \A l \in Links : sock'[l] = "waiting" => sock[l] = "waiting"
  PROVE  Cardinality(Waiting') <= Cardinality(Waiting)
<1>1. Waiting' \subseteq Waiting
  BY DEF Waiting
<1> QED BY <1>1, WaitingFacts, FS_Subset

LEMMA OneMoreWaits ==
  ASSUME NEW l \in Links, sock \in [Links -> {"none", "waiting", "open", "closed", "deleted"}],
         sock' = [sock EXCEPT ![l] = "waiting"]
  PROVE  Cardinality(Waiting') <= Cardinality(Waiting) + 1
<1>1. Waiting' = Waiting \cup {l}
  BY DEF Waiting
<1> QED BY <1>1, WaitingFacts, FS_AddElement

LEMMA OneWaitsNoMore ==
  ASSUME NEW l \in Waiting, sock \in [Links -> {"none", "waiting", "open", "closed", "deleted"}],
         sock' = [sock EXCEPT ![l] = "open"]
  PROVE  Cardinality(Waiting') + 1 = Cardinality(Waiting)
<1>1. Waiting' = Waiting \ {l}
  BY DEF Waiting
<1> QED BY <1>1, WaitingFacts, WaitingFactsNext, FS_RemoveElement

(* Lists that do not grow keep within the bound. *)
LEMMA SlotsKept ==
  ASSUME TypeOK, SlotsOK, Len(spinetts') = Len(spinetts), toAdd' = toAdd,
         \A l \in Links : sock'[l] = "waiting" => sock[l] = "waiting"
  PROVE  SlotsOK' /\ Len(spinetts') + Len(toAdd') <= MaxSlots
<1>1. Cardinality(Waiting') <= Cardinality(Waiting)
  BY FewerWaiting
<1> QED BY <1>1, WaitingFacts, WaitingFactsNext, ConstantFacts, Types DEF SlotsOK

LEMMA TypeInit == Init => TypeInv
<1> SUFFICES ASSUME Init PROVE TypeInv
  OBVIOUS
<1>1. spinetts = <<>> /\ toAdd = <<>> /\ Len(<<>>) = 0 /\ <<>> \in Seq(Accepted)
      /\ <<>> \in Seq(Spinetts) /\ <<>> \in Seq(Spinetts \cup {Null})
      /\ <<>> \in Seq(Subscribers)
  BY EmptySeq DEF Init
<1>2. sock = [l \in Links |-> "none"]
  BY DEF Init
<1>3. Waiting = {}
  BY <1>2 DEF Waiting
<1>4. SlotsOK /\ Len(spinetts) + Len(toAdd) <= MaxSlots
  BY <1>1, <1>3, FS_EmptySet, ConstantFacts DEF SlotsOK
<1>5. SpinOK
  BY DEF Init, SpinOK, InServer
<1>6. sock[Gateway] # "waiting"
  BY <1>2, ConstantFacts
<1>7. TypeOK
  BY <1>1, <1>2, <1>4 DEF Init, TypeOK
<1> QED BY <1>4, <1>5, <1>6, <1>7 DEF TypeInv

(* Steps that leave both lists, the servers and who waits alone. *)
LEMMA CalmTypes ==
  ASSUME TypeInv, UNCHANGED <<spinVars, serverVars>>,
         \A l \in Links : sock'[l] = "waiting" => sock[l] = "waiting",
         server' \in Servers \cup {Null}, remotes' \subseteq Links,
         mailboxes' \subseteq {Node} \cup Links \cup Children,
         child' \in [Children -> {"none", "live", "husk"}],
         sock' \in [Links -> {"none", "waiting", "open", "closed", "deleted"}],
         ended' \subseteq Links, watched' \subseteq Links, todo' \subseteq Links,
         thread' \in {"none", "idle", "pass"},
         pc' \in {"user", "join", "husk", "husk of dying", "shut down", "shut down dying",
                  "spin", "check", "notify", "delete"},
         at' \in Nat, ci' \in Nat, calling' \in Seq(Subscribers), SpinOK',
         fault' \in BOOLEAN
  PROVE  TypeInv'
<1>1. SlotsOK' /\ Len(spinetts') + Len(toAdd') <= MaxSlots
  BY SlotsKept DEF TypeInv, spinVars
<1>2. sock'[Gateway] # "waiting"
  BY ConstantFacts DEF TypeInv
<1>3. TypeOK'
  BY <1>1 DEF TypeInv, TypeOK, spinVars, serverVars
<1> QED BY <1>1, <1>2, <1>3 DEF TypeInv

(* The user thread stays where it is. *)
LEMMA SpinStays ==
  ASSUME SpinOK, UNCHANGED <<pc, at, ci, spinetts, clients>>
  PROVE  SpinOK'
BY DEF SpinOK, InServer

LEMMA NetworkTypes ==
  ASSUME TypeInv, NetworkThread
  PROVE  TypeInv'
<1> USE DEF TypeInv
<1>1. CASE StartPass
  BY <1>1, CalmTypes, SpinStays DEF StartPass, TypeOK, spinVars, nodeVars, serverVars, userVars
<1>2. CASE EndPass
  BY <1>2, CalmTypes, SpinStays DEF EndPass, TypeOK, spinVars, nodeVars, serverVars, userVars
<1>3. ASSUME NEW l \in Links, VisitLink(l) PROVE TypeInv'
  <2>1. /\ UNCHANGED <<spinetts, toAdd, alive, server, remotes, mailboxes, child, listening,
                       observed, clients, ended, watched, thread, pc, at, ci, calling>>
        /\ todo' = todo \ {l} /\ fault' \in BOOLEAN
    BY <1>3 DEF VisitLink, Faults, spinVars, nodeVars, serverVars, userVars
  <2>2. /\ sock' \in [Links -> {"none", "waiting", "open", "closed", "deleted"}]
        /\ \A k \in Links : sock'[k] = "waiting" => sock[k] = "waiting"
    BY <1>3, Types DEF VisitLink
  <2> QED BY <2>1, <2>2, CalmTypes, SpinStays DEF TypeOK, spinVars, serverVars
<1> QED BY <1>1, <1>2, <1>3 DEF NetworkThread

LEMMA OthersTypes ==
  ASSUME TypeInv, Others
  PROVE  TypeInv'
<1> USE DEF TypeInv
<1>1. ASSUME NEW l \in Accepted, ClientConnects(l) PROVE TypeInv'
  <2>1. /\ UNCHANGED <<spinVars, nodeVars, serverVars, watched, threadVars, userVars, fault>>
        /\ ended' = ended \ {l} /\ sock' = [sock EXCEPT ![l] = "waiting"] /\ l \in Links
        /\ Len(spinetts) + Len(toAdd) + Cardinality(Waiting) < MaxSlots
    BY <1>1, ConstantFacts DEF ClientConnects, HasRoom, Waiting
  <2>2. Cardinality(Waiting') <= Cardinality(Waiting) + 1
    BY <2>1, OneMoreWaits, Types
  <2>3. SlotsOK' /\ Len(spinetts') + Len(toAdd') <= MaxSlots
    BY <2>1, <2>2, WaitingFacts, WaitingFactsNext, ConstantFacts, Types DEF SlotsOK, spinVars
  <2>4. sock' \in [Links -> {"none", "waiting", "open", "closed", "deleted"}]
        /\ sock'[Gateway] # "waiting"
    BY <2>1, Types, ConstantFacts
  <2>5. SpinOK'
    BY <2>1, SpinStays DEF spinVars, serverVars, userVars
  <2>6. TypeOK'
    BY <2>1, <2>3, <2>4 DEF TypeOK, spinVars, nodeVars, serverVars, threadVars, userVars
  <2> QED BY <2>3, <2>4, <2>5, <2>6
<1>2. ASSUME NEW l \in Links, PeerEnds(l) PROVE TypeInv'
  BY <1>2, CalmTypes, SpinStays
     DEF PeerEnds, TypeOK, spinVars, nodeVars, serverVars, threadVars, userVars
<1> QED BY <1>1, <1>2 DEF Others

(* An object joins those to be added; there was room for it. *)
LEMMA AppendedList ==
  ASSUME TypeOK, NEW o \in Spinetts
  PROVE  Append(toAdd, o) \in Seq(Spinetts) /\ Len(Append(toAdd, o)) = Len(toAdd) + 1
<1>1. toAdd \in Seq(Spinetts)
  BY DEF TypeOK
<1> QED BY <1>1, AppendFacts, Zenon

LEMMA ConstructTypes ==
  ASSUME TypeOK, NEW o \in Spinetts, Construct(o)
  PROVE  /\ toAdd' \in Seq(Spinetts) /\ Len(toAdd') = Len(toAdd) + 1
         /\ alive' = alive \cup {o} /\ alive' \subseteq Spinetts
<1>1. toAdd' = Append(toAdd, o) /\ alive' = alive \cup {o}
  BY DEF Construct
<1>2. alive \subseteq Spinetts
  BY DEF TypeOK
<1>3. Append(toAdd, o) \in Seq(Spinetts) /\ Len(Append(toAdd, o)) = Len(toAdd) + 1
  BY AppendedList
<1> QED BY <1>1, <1>2, <1>3

LEMMA GrownSlots ==
  ASSUME TypeOK, SlotsOK, HasRoom, Len(spinetts') = Len(spinetts), Len(toAdd') = Len(toAdd) + 1,
         \A l \in Links : sock'[l] = "waiting" => sock[l] = "waiting"
  PROVE  SlotsOK' /\ Len(spinetts') + Len(toAdd') <= MaxSlots
<1>1. Cardinality(Waiting') <= Cardinality(Waiting)
  BY FewerWaiting
<1>2. Len(spinetts) + Len(toAdd) + Cardinality(Waiting) < MaxSlots
  BY DEF HasRoom, Waiting
<1> QED BY <1>1, <1>2, WaitingFacts, WaitingFactsNext, ConstantFacts, Types DEF SlotsOK

LEMMA SpinElsewhere ==
  ASSUME SpinOK, at' >= 1, ci' >= 1, pc' \notin {"check", "notify", "delete"}
  PROVE  SpinOK'
BY DEF SpinOK, InServer

LEMMA StartGatewayTypes ==
  ASSUME TypeInv, NEW v \in Servers, NEW next \in {"user", "join"}, StartGateway(v, next)
  PROVE  TypeInv'
<1> USE DEF TypeInv
<1>1. /\ HasRoom /\ toAdd' = Append(toAdd, v) /\ spinetts' = Unregistered(spinetts, server)
      /\ alive' = (alive \cup {v}) \ {server} /\ pc' = next
      /\ UNCHANGED <<remotes, mailboxes, child, ended, watched, todo, thread, at, ci,
                     calling, fault>>
  BY DEF StartGateway, threadVars
<1>2. /\ clients' = [clients EXCEPT ![v] = <<>>]
      /\ server' \in Servers \cup {Null}
      /\ listening' \subseteq Servers /\ observed' \subseteq Servers
  BY DEF StartGateway, TypeOK
<1>3. clients' \in [Servers -> Seq(Accepted)]
  BY <1>2, Types, EmptySeq
<1>4. sock' = [l \in Links |->
                IF server # Null /\ Contains(clients[server], l) THEN "deleted" ELSE sock[l]]
  BY DEF StartGateway
<1>5. /\ sock' \in [Links -> {"none", "waiting", "open", "closed", "deleted"}]
      /\ \A l \in Links : sock'[l] = "waiting" => sock[l] = "waiting"
  BY <1>4, Types
<1>6. toAdd' \in Seq(Spinetts) /\ Len(toAdd') = Len(toAdd) + 1
  <2>1. v \in Spinetts
    BY ConstantFacts
  <2>2. Append(toAdd, v) \in Seq(Spinetts) /\ Len(Append(toAdd, v)) = Len(toAdd) + 1
    BY <2>1, AppendedList
  <2>3. toAdd' = Append(toAdd, v)
    BY <1>1
  <2> QED BY <2>2, <2>3
<1>7. spinetts' \in Seq(Spinetts \cup {Null}) /\ Len(spinetts') = Len(spinetts)
  <2>1. spinetts \in Seq(Spinetts \cup {Null})
    BY Types
  <2>2. /\ Unregistered(spinetts, server) \in Seq(Spinetts \cup {Null})
        /\ Len(Unregistered(spinetts, server)) = Len(spinetts)
    BY <2>1, UnregisteredList, Zenon
  <2>3. spinetts' = Unregistered(spinetts, server)
    BY <1>1
  <2> QED BY <2>2, <2>3
<1>8. SlotsOK' /\ Len(spinetts') + Len(toAdd') <= MaxSlots
  BY <1>1, <1>5, <1>6, <1>7, GrownSlots
<1>9. SpinOK'
  BY <1>1, SpinElsewhere DEF SpinOK
<1>10. sock'[Gateway] # "waiting"
  BY <1>5, ConstantFacts
<1>11. TypeOK'
  BY <1>1, <1>2, <1>3, <1>5, <1>6, <1>7, <1>8, ConstantFacts DEF TypeOK
<1> QED BY <1>8, <1>9, <1>10, <1>11

LEMMA BeginStopTypes ==
  ASSUME TypeInv, NEW next \in {"husk", "husk of dying"}, BeginStop(next),
         thread' \in {"none", "idle", "pass"}
  PROVE  TypeInv'
<1> USE DEF TypeInv
<1>1. /\ UNCHANGED <<spinetts, toAdd, alive, remotes, child, clients, ended, watched, todo,
                     at, ci, calling, fault>>
      /\ listening' = listening \ {server} /\ observed' = observed \ {server}
      /\ server' = Null /\ mailboxes' = {} /\ pc' = next
  BY DEF BeginStop, spinVars
<1>2. sock' = [l \in Links |->
                IF server # Null /\ Contains(clients[server], l) THEN "deleted"
                ELSE IF sock[l] = "waiting" THEN "none" ELSE sock[l]]
  BY DEF BeginStop
<1>3. /\ sock' \in [Links -> {"none", "waiting", "open", "closed", "deleted"}]
      /\ \A l \in Links : sock'[l] # "waiting"
  BY <1>2, Types
<1>4. SlotsOK' /\ Len(spinetts') + Len(toAdd') <= MaxSlots
  BY <1>1, <1>3, SlotsKept
<1>5. SpinOK'
  BY <1>1, SpinElsewhere DEF SpinOK
<1>6. TypeOK'
  BY <1>1, <1>3, <1>4 DEF TypeOK
<1> QED BY <1>3, <1>4, <1>5, <1>6, ConstantFacts

(* A remote node is made of a link. *)
LEMMA AddRemoteTypes ==
  ASSUME TypeOK, NEW l \in Links, AddRemote(l)
  PROVE  /\ toAdd' \in Seq(Spinetts) /\ Len(toAdd') = Len(toAdd) + 1
         /\ alive' \subseteq Spinetts /\ watched' \subseteq Links /\ remotes' \subseteq Links
         /\ mailboxes' \subseteq {Node} \cup Links \cup Children /\ fault' \in BOOLEAN
<1>1. Construct(l)
  BY DEF AddRemote
<1>2. /\ watched' = watched \cup {l} /\ mailboxes' = mailboxes \cup {l}
      /\ remotes' = remotes \cup {l} /\ fault' \in BOOLEAN
  BY DEF AddRemote, Faults
<1> QED BY <1>1, <1>2, ConstructTypes, ConstantFacts DEF TypeOK

LEMMA JoinTypes ==
  ASSUME TypeInv, Join
  PROVE  TypeInv'
<1> USE DEF TypeInv
<1>1. /\ UNCHANGED <<spinetts, server, child, listening, observed, clients, ended, todo,
                     thread, at, ci, calling>>
      /\ pc' = "user"
  BY DEF Join, serverVars, threadVars
<1>2. SpinOK'
  BY <1>1, SpinElsewhere DEF SpinOK
<1>3. CASE HasRoom /\ AddRemote(Gateway) /\ sock' = [sock EXCEPT ![Gateway] = "open"]
  <2>1. /\ sock' \in [Links -> {"none", "waiting", "open", "closed", "deleted"}]
        /\ \A l \in Links : sock'[l] = "waiting" => sock[l] = "waiting"
    BY <1>3, Types
  <2>2. /\ toAdd' \in Seq(Spinetts) /\ Len(toAdd') = Len(toAdd) + 1
        /\ alive' \subseteq Spinetts /\ watched' \subseteq Links /\ remotes' \subseteq Links
        /\ mailboxes' \subseteq {Node} \cup Links \cup Children /\ fault' \in BOOLEAN
    BY <1>3, AddRemoteTypes, ConstantFacts
  <2>3. SlotsOK' /\ Len(spinetts') + Len(toAdd') <= MaxSlots
    BY <1>1, <1>3, <2>1, <2>2, GrownSlots
  <2>4. TypeOK'
    BY <1>1, <2>1, <2>2, <2>3 DEF TypeOK
  <2> QED BY <1>2, <2>1, <2>3, <2>4, ConstantFacts
<1>4. CASE UNCHANGED <<alive, toAdd, watched, mailboxes, remotes, fault, sock>>
  BY <1>1, <1>2, <1>4, CalmTypes DEF TypeOK, spinVars, serverVars
<1> QED BY <1>3, <1>4 DEF Join

LEMMA ShutDownTypes ==
  ASSUME TypeInv, ShutDown
  PROVE  TypeInv'
<1> USE DEF TypeInv
<1>1. /\ UNCHANGED <<server, mailboxes, child, listening, observed, clients, ended, todo,
                     thread, at, ci, calling>>
      /\ watched' = watched \ remotes /\ remotes' = {} /\ pc' = "user" /\ fault' \in BOOLEAN
  BY DEF ShutDown, WatchedNoMore, serverVars, threadVars, Faults
<1>2. sock' = [l \in Links |-> IF l \in remotes THEN "deleted" ELSE sock[l]]
  BY DEF ShutDown
<1>3. /\ sock' \in [Links -> {"none", "waiting", "open", "closed", "deleted"}]
      /\ \A l \in Links : sock'[l] = "waiting" => sock[l] = "waiting"
  BY <1>2, Types
<1>4. /\ toAdd' = toAdd /\ alive' \subseteq alive /\ Len(spinetts') = Len(spinetts)
      /\ spinetts' \in Seq(Spinetts \cup {Null})
  <2>1. CASE UNCHANGED spinVars
    BY <2>1, Types DEF spinVars
  <2>2. CASE Destruct(Node)
    <3>1. spinetts' = Unregistered(spinetts, Node) /\ toAdd' = toAdd /\ alive' \subseteq alive
      BY <2>2 DEF Destruct
    <3>2. spinetts \in Seq(Spinetts \cup {Null})
      BY Types
    <3>3. /\ Unregistered(spinetts, Node) \in Seq(Spinetts \cup {Null})
          /\ Len(Unregistered(spinetts, Node)) = Len(spinetts)
      BY <3>2, UnregisteredList, Zenon
    <3> QED BY <3>1, <3>3
  <2> QED BY <2>1, <2>2 DEF ShutDown
<1>5. SlotsOK' /\ Len(spinetts') + Len(toAdd') <= MaxSlots
  BY <1>3, <1>4, SlotsKept
<1>6. SpinOK'
  BY <1>1, SpinElsewhere DEF SpinOK
<1>7. TypeOK'
  BY <1>1, <1>3, <1>4, <1>5 DEF TypeOK
<1> QED BY <1>3, <1>5, <1>6, <1>7, ConstantFacts

LEMMA CallsTypes ==
  ASSUME TypeInv, Calls
  PROVE  TypeInv'
<1> USE DEF TypeInv
<1>1. CASE CreateNode
  <2>1. /\ UNCHANGED <<spinetts, server, remotes, child, listening, observed, clients, sock,
                       ended, watched, todo, pc, at, ci, calling, fault>>
        /\ HasRoom /\ Construct(Node) /\ mailboxes' = {Node} /\ thread' = "idle"
    BY <1>1 DEF CreateNode, serverVars, userVars
  <2>2. toAdd' \in Seq(Spinetts) /\ Len(toAdd') = Len(toAdd) + 1 /\ alive' \subseteq Spinetts
    BY <2>1, ConstructTypes, ConstantFacts
  <2>3. SlotsOK' /\ Len(spinetts') + Len(toAdd') <= MaxSlots
    BY <2>1, <2>2, GrownSlots
  <2>4. SpinOK'
    BY <2>1, SpinStays
  <2>5. TypeOK'
    BY <2>1, <2>2, <2>3 DEF TypeOK
  <2> QED BY <2>1, <2>3, <2>4, <2>5
<1>2. CASE Stop
  BY <1>2, BeginStopTypes DEF Stop, TypeOK
<1>3. CASE Destroy
  BY <1>3, BeginStopTypes DEF Destroy
<1>4. CASE MakeHusks
  <2>1. /\ UNCHANGED <<spinVars, server, remotes, mailboxes, serverVars, sock, ended,
                       watched, threadVars, at, ci, calling>>
        /\ pc' \in {"shut down", "shut down dying"} /\ fault' \in BOOLEAN
    BY <1>4 DEF MakeHusks, Faults
  <2>2. child' = [c \in Children |-> IF child[c] = "live" THEN "husk" ELSE child[c]]
    BY <1>4 DEF MakeHusks
  <2>3. child' \in [Children -> {"none", "live", "husk"}]
    BY <2>2, Types
  <2>4. SpinOK'
    BY <2>1, SpinElsewhere DEF SpinOK
  <2> QED BY <2>1, <2>3, <2>4, CalmTypes DEF TypeOK, threadVars
<1>5. ASSUME NEW c \in Children, CreateChild(c) \/ DestroyChild(c) PROVE TypeInv'
  <2>1. /\ UNCHANGED <<spinVars, server, remotes, serverVars, sock, ended, watched,
                       threadVars, userVars>>
        /\ fault' \in BOOLEAN /\ mailboxes' \subseteq mailboxes \cup {c}
    BY <1>5 DEF CreateChild, DestroyChild, Faults, WithoutMailbox, TypeOK
  <2>2. child' = [child EXCEPT ![c] = "live"] \/ child' = [child EXCEPT ![c] = "none"]
    BY <1>5 DEF CreateChild, DestroyChild
  <2>3. child' \in [Children -> {"none", "live", "husk"}]
    BY <2>2, Types
  <2>4. SpinOK'
    BY <2>1, SpinStays DEF spinVars, serverVars, userVars
  <2> QED BY <2>1, <2>3, <2>4, CalmTypes DEF TypeOK, threadVars, userVars
<1>6. ASSUME NEW c \in Subscribers, CallBack(c) \/ Return(c) PROVE TypeInv'
  <2>1. /\ UNCHANGED <<spinVars, nodeVars, serverVars, sock, ended, watched, threadVars,
                       pc, at, ci>>
        /\ fault' \in BOOLEAN
        /\ calling' = Append(calling, c) \/ (calling # <<>> /\ calling' = Front(calling))
    BY <1>6 DEF CallBack, Return, Faults
  <2>2. calling' \in Seq(Subscribers)
    <3>1. calling \in Seq(Subscribers)
      BY DEF TypeOK
    <3>2. Append(calling, c) \in Seq(Subscribers)
      BY <3>1, AppendFacts
    <3>3. calling # <<>> => Front(calling) \in Seq(Subscribers)
      BY <3>1, FrontFacts
    <3> QED BY <2>1, <3>2, <3>3
  <2>3. SpinOK'
    BY <2>1, SpinStays DEF spinVars, serverVars
  <2> QED BY <2>1, <2>2, <2>3, CalmTypes DEF TypeOK, nodeVars, threadVars
<1> QED BY <1>1, <1>2, <1>3, <1>4, <1>5, <1>6, StartGatewayTypes, JoinTypes, ShutDownTypes
        DEF Calls

(* Where the user thread stands in a spun server. *)
LEMMA StandsAt ==
  ASSUME TypeOK, SpinOK, InServer
  PROVE  /\ Spun = spinetts[at] /\ Spun \in Servers /\ at \in 1..Len(spinetts)
         /\ clients[Spun] \in Seq(Accepted) /\ Len(clients[Spun]) \in Nat
         /\ \A i \in 1..Len(clients[Spun]) : clients[Spun][i] \in Accepted
         /\ Client = clients[Spun][ci]
         /\ (pc \in {"notify", "delete"} \/ ~AllSeen) =>
               ci \in 1..Len(clients[Spun]) /\ Client \in Accepted
<1>1. Spun = spinetts[at] /\ Spun \in Servers /\ at \in 1..Len(spinetts)
      /\ (pc \in {"notify", "delete"} => ci <= Len(clients[Spun])) /\ ci \in Nat /\ ci >= 1
  BY Types DEF SpinOK, Spun
<1>2. clients[Spun] \in Seq(Accepted)
  BY <1>1, Types
<1>3. /\ Len(clients[Spun]) \in Nat
      /\ \A i \in 1..Len(clients[Spun]) : clients[Spun][i] \in Accepted
  BY <1>2, LenProperties, ElementOfSeq
<1>4. Client = clients[Spun][ci]
  BY DEF Client
<1>5. (pc \in {"notify", "delete"} \/ ~AllSeen) => ci \in 1..Len(clients[Spun])
  BY <1>1, <1>3 DEF AllSeen
<1> QED BY <1>1, <1>2, <1>3, <1>4, <1>5

LEMMA AcceptTypes ==
  ASSUME TypeInv, NEW l \in Links, Accept(l)
  PROVE  TypeInv'
<1> USE DEF TypeInv
<1>1. /\ UNCHANGED <<spinetts, server, child, listening, observed, ended, todo, thread,
                     pc, at, calling>>
      /\ clients' = [clients EXCEPT ![Spun] = Append(@, l)] /\ ci' = ci + 1
      /\ sock' = [sock EXCEPT ![l] = "open"] /\ sock[l] = "waiting" /\ AddRemote(l)
      /\ pc = "check" /\ AllSeen
  BY DEF Accept, threadVars
<1>2. l \in Accepted /\ l \in Waiting
  BY <1>1, LifecycleAssumption DEF Links, Waiting
<1>3. InServer
  BY <1>1 DEF InServer
<1>4. Spun \in Servers /\ clients[Spun] \in Seq(Accepted)
  BY <1>3, StandsAt
<1>5. clients' \in [Servers -> Seq(Accepted)]
  <2>1. Append(clients[Spun], l) \in Seq(Accepted)
    BY <1>2, <1>4, AppendFacts
  <2> QED BY <1>1, <2>1, Types
<1>6. sock' \in [Links -> {"none", "waiting", "open", "closed", "deleted"}]
      /\ sock'[Gateway] # "waiting"
  BY <1>1, Types, ConstantFacts
<1>7. /\ toAdd' \in Seq(Spinetts) /\ Len(toAdd') = Len(toAdd) + 1
      /\ alive' \subseteq Spinetts /\ watched' \subseteq Links /\ remotes' \subseteq Links
      /\ mailboxes' \subseteq {Node} \cup Links \cup Children /\ fault' \in BOOLEAN
  BY <1>1, AddRemoteTypes
<1>8. Cardinality(Waiting') + 1 = Cardinality(Waiting)
  BY <1>1, <1>2, Types, OneWaitsNoMore
<1>9. SlotsOK' /\ Len(spinetts') + Len(toAdd') <= MaxSlots
  BY <1>1, <1>7, <1>8, WaitingFacts, WaitingFactsNext, ConstantFacts, Types DEF SlotsOK
<1>10. ci' \in Nat /\ ci' >= 1
  BY <1>1, Types
<1>11. SpinOK'
  BY <1>1, <1>10 DEF SpinOK, InServer
<1>12. TypeOK'
  BY <1>1, <1>5, <1>6, <1>7, <1>9, <1>10 DEF TypeOK
<1> QED BY <1>6, <1>9, <1>11, <1>12

LEMMA NotifyTypes ==
  ASSUME TypeInv, Notify
  PROVE  TypeInv'
<1> USE DEF TypeInv
<1>1. /\ pc = "notify" /\ pc' = "delete"
      /\ UNCHANGED <<server, child, listening, observed, clients, ended, todo, thread,
                     at, ci, calling>>
  BY DEF Notify, serverVars, threadVars
<1>2. InServer
  BY <1>1 DEF InServer
<1>3. /\ spinetts[at] \in Servers /\ at \in 1..Len(spinetts) /\ Client \in Accepted
      /\ Client \in Links /\ ci <= Len(clients[spinetts[at]])
  BY <1>1, <1>2, StandsAt, ConstantFacts DEF SpinOK
<1>4. CASE UNCHANGED <<spinVars, remotes, mailboxes, watched, sock, fault>>
  <2>1. SpinOK'
    BY <1>1, <1>2, <1>4 DEF SpinOK, InServer, spinVars
  <2> QED BY <1>1, <1>4, <2>1, CalmTypes DEF TypeOK, spinVars, serverVars
<1>5. CASE /\ mailboxes' = WithoutMailbox(mailboxes, Client)
           /\ watched' = WatchedNoMore(watched, {Client})
           /\ Faults(UnregisterFails(Client) \/ InfoFails(mailboxes', watched'))
           /\ remotes' = remotes \ {Client} /\ Destruct(Client)
           /\ sock' = [sock EXCEPT ![Client] = "closed"]
  <2>1. /\ mailboxes' \subseteq mailboxes /\ watched' \subseteq watched /\ fault' \in BOOLEAN
        /\ remotes' \subseteq remotes
    BY <1>5 DEF WithoutMailbox, WatchedNoMore, Faults
  <2>2. alive' \subseteq alive /\ spinetts' = Unregistered(spinetts, Client) /\ toAdd' = toAdd
    BY <1>5 DEF Destruct
  <2>3. /\ spinetts' \in Seq(Spinetts \cup {Null}) /\ Len(spinetts') = Len(spinetts)
        /\ spinetts'[at] = spinetts[at]
    <3>1. spinetts \in Seq(Spinetts \cup {Null})
      BY Types
    <3>2. spinetts[at] # Client
      BY <1>3, ConstantFacts
    <3> DEFINE r == Unregistered(spinetts, Client)
    <3>3. /\ r \in Seq(Spinetts \cup {Null}) /\ Len(r) = Len(spinetts)
          /\ r[at] = spinetts[at]
      BY <1>3, <3>1, <3>2, UnregisteredList, Zenon
    <3> QED BY <2>2, <3>3
  <2>4. /\ sock' \in [Links -> {"none", "waiting", "open", "closed", "deleted"}]
        /\ \A l \in Links : sock'[l] = "waiting" => sock[l] = "waiting"
    BY <1>3, <1>5, Types
  <2>5. SlotsOK' /\ Len(spinetts') + Len(toAdd') <= MaxSlots
    BY <2>2, <2>3, <2>4, SlotsKept
  <2>6. SpinOK'
    BY <1>1, <1>3, <2>3 DEF SpinOK, InServer
  <2>7. TypeOK'
    BY <1>1, <2>1, <2>2, <2>3, <2>4, <2>5 DEF TypeOK
  <2> QED BY <2>4, <2>5, <2>6, <2>7, ConstantFacts
<1> QED BY <1>4, <1>5 DEF Notify

LEMMA DeleteClientTypes ==
  ASSUME TypeInv, DeleteClient
  PROVE  TypeInv'
<1> USE DEF TypeInv
<1>1. /\ pc = "delete" /\ pc' = "check"
      /\ UNCHANGED <<alive, spinetts, toAdd, server, remotes, mailboxes, child, listening,
                     observed, ended, watched, todo, thread, at, ci, calling, fault>>
      /\ sock' = [sock EXCEPT ![Client] = "deleted"]
      /\ clients' = [clients EXCEPT ![Spun] = RemoveAt(@, ci)]
  BY DEF DeleteClient, spinVars, nodeVars, threadVars
<1>2. InServer
  BY <1>1 DEF InServer
<1>3. Spun \in Servers /\ clients[Spun] \in Seq(Accepted) /\ ci \in 1..Len(clients[Spun])
  BY <1>1, <1>2, StandsAt
<1>4. RemoveAt(clients[Spun], ci) \in Seq(Accepted)
  BY <1>3, RemoveAtFacts
<1>5. clients' \in [Servers -> Seq(Accepted)]
  BY <1>1, <1>3, <1>4, Types
<1>6. /\ sock' \in [Links -> {"none", "waiting", "open", "closed", "deleted"}]
      /\ \A l \in Links : sock'[l] = "waiting" => sock[l] = "waiting"
  BY <1>1, Types
<1>7. SlotsOK' /\ Len(spinetts') + Len(toAdd') <= MaxSlots
  BY <1>1, <1>6, SlotsKept
<1>8. SpinOK'
  BY <1>1, <1>2 DEF SpinOK, InServer
<1>9. TypeOK'
  BY <1>1, <1>5, <1>6, <1>7 DEF TypeOK
<1> QED BY <1>6, <1>7, <1>8, <1>9, ConstantFacts

LEMMA EndSpinTypes ==
  ASSUME TypeInv, EndSpin
  PROVE  TypeInv'
<1> USE DEF TypeInv
<1>1. /\ UNCHANGED <<alive, server, remotes, mailboxes, child, listening, observed, clients,
                     sock, ended, watched, todo, thread, at, ci, calling, fault>>
      /\ spinetts' = Swept(spinetts \o toAdd) /\ toAdd' = <<>> /\ pc' = "user"
  BY DEF EndSpin, StillToAdd, nodeVars, serverVars, threadVars
<1> DEFINE all == spinetts \o toAdd
<1>2. all \in Seq(Spinetts \cup {Null}) /\ Len(all) = Len(spinetts) + Len(toAdd)
  BY Types, ConcatFacts
<1>3. /\ Swept(all) \in Seq(Spinetts \cup {Null})
      /\ Len(Swept(all)) = Len(all) \/ Len(Swept(all)) = Len(all) - 1
  <2> HIDE DEF all
  <2>1. Swept(all) = all \/ \E k \in 1..Len(all) : Swept(all) = RemoveAt(all, k)
    BY <1>2, SweptFacts
  <2> QED BY <1>2, <2>1, RemoveAtFacts
<1>4. /\ spinetts' \in Seq(Spinetts \cup {Null}) /\ Len(spinetts') \in Nat
      /\ Len(spinetts') <= Len(spinetts) + Len(toAdd)
      /\ toAdd' \in Seq(Spinetts) /\ Len(toAdd') = 0
  BY <1>1, <1>2, <1>3, Types, LenProperties, EmptySeq
<1>5. Cardinality(Waiting') = Cardinality(Waiting)
  BY <1>1 DEF Waiting
<1>6. SlotsOK' /\ Len(spinetts') + Len(toAdd') <= MaxSlots
  BY <1>4, <1>5, WaitingFacts, ConstantFacts, Types DEF SlotsOK
<1>7. SpinOK'
  BY <1>1, SpinElsewhere DEF SpinOK
<1>8. TypeOK'
  BY <1>1, <1>4, <1>6 DEF TypeOK
<1> QED BY <1>1, <1>6, <1>7, <1>8

LEMMA SpinTypes ==
  ASSUME TypeInv, Spin
  PROVE  TypeInv'
<1> USE DEF TypeInv
<1>1. CASE BeginSpin
  <2>1. SpinOK'
    BY <1>1, SpinElsewhere DEF BeginSpin, SpinOK
  <2> QED BY <1>1, <2>1, CalmTypes
          DEF BeginSpin, TypeOK, spinVars, nodeVars, serverVars, threadVars
<1>2. ASSUME \/ SpinNull \/ SpinNode \/ \E l \in Links : SpinRemote(l)
      PROVE  TypeInv'
  <2>1. /\ UNCHANGED <<spinVars, nodeVars, serverVars, sock, ended, watched, threadVars,
                       pc, ci, calling>>
        /\ at' = at + 1 /\ pc = "spin" /\ fault' \in BOOLEAN
    BY <1>2 DEF SpinNull, SpinNode, SpinRemote, Spins, Faults
  <2>2. at' \in Nat /\ at' >= 1
    BY <2>1, Types
  <2>3. SpinOK'
    BY <2>1, <2>2, SpinElsewhere DEF SpinOK
  <2> QED BY <2>1, <2>2, <2>3, CalmTypes DEF TypeOK, nodeVars, threadVars
<1>3. ASSUME NEW v \in Servers, SpinServer(v) PROVE TypeInv'
  <2>1. /\ UNCHANGED <<spinVars, nodeVars, serverVars, sock, ended, watched, threadVars,
                       at, calling>>
        /\ pc' = "check" /\ ci' = 1 /\ fault' \in BOOLEAN
        /\ at <= Len(spinetts) /\ spinetts[at] = v
    BY <1>3 DEF SpinServer, Spins, Faults
  <2>2. SpinOK'
    BY <2>1 DEF SpinOK, InServer, spinVars
  <2> QED BY <2>1, <2>2, CalmTypes DEF TypeOK, nodeVars, threadVars
<1>4. CASE CheckClient
  <2>1. /\ UNCHANGED <<spinVars, nodeVars, serverVars, sock, ended, watched, threadVars,
                       at, calling>>
        /\ pc = "check" /\ ~AllSeen /\ fault' \in BOOLEAN
        /\ (pc' = "notify" /\ ci' = ci) \/ (pc' = pc /\ ci' = ci + 1)
    BY <1>4 DEF CheckClient, Faults
  <2>2. InServer
    BY <2>1 DEF InServer
  <2>3. ci' \in Nat /\ ci' >= 1 /\ ci \in 1..Len(clients[spinetts[at]])
    BY <2>1, <2>2, Types, StandsAt
  <2>4. SpinOK'
    BY <2>1, <2>2, <2>3 DEF SpinOK, InServer, spinVars, serverVars
  <2> QED BY <2>1, <2>3, <2>4, CalmTypes DEF TypeOK, nodeVars, threadVars
<1>5. CASE EndServer
  <2>1. /\ UNCHANGED <<spinVars, nodeVars, serverVars, sock, ended, watched, threadVars,
                       ci, calling, fault>>
        /\ at' = at + 1 /\ pc' = "spin"
    BY <1>5 DEF EndServer
  <2>2. at' \in Nat /\ at' >= 1
    BY <2>1, Types
  <2>3. SpinOK'
    BY <2>1, <2>2, SpinElsewhere DEF SpinOK
  <2> QED BY <2>1, <2>2, <2>3, CalmTypes DEF TypeOK, nodeVars, threadVars
<1> QED BY <1>1, <1>2, <1>3, <1>4, <1>5, AcceptTypes, NotifyTypes, DeleteClientTypes,
           EndSpinTypes DEF Spin

LEMMA TypeNext == TypeInv /\ [Next]_vars => TypeInv'
<1>1. ASSUME TypeInv, UNCHANGED vars PROVE TypeInv'
  BY <1>1, CalmTypes, SpinStays DEF TypeInv, TypeOK, vars, spinVars, nodeVars, serverVars,
     threadVars, userVars
<1> QED BY <1>1, SpinTypes, CallsTypes, NetworkTypes, OthersTypes DEF Next

(* Whatever a user does, and in whatever order the two threads and the     *)
(* other nodes act, lists, maps and positions hold what they should, and   *)
(* the loop over the clients stays in its list (spinner_impl, node_impl,   *)
(* tcp_server::spin_update).                                               *)
THEOREM TypeCorrect == Spec => []TypeOK
<1>1. TypeInv => TypeOK
  BY DEF TypeInv
<1> QED BY <1>1, TypeInit, TypeNext, PTL DEF Spec

-----------------------------------------------------------------------------
(* The spinner's two lists, one after the other. *)

(* s has every member of A in one place, and else null entries. *)
Exact(s, A) ==
  /\ \A i \in 1..Len(s) : s[i] # Null => s[i] \in A
  /\ \A i, j \in 1..Len(s) : s[i] = s[j] /\ s[i] # Null => i = j
  /\ \A o \in A : \E i \in 1..Len(s) : s[i] = o

LEMMA ExactAppend ==
  ASSUME NEW S, NEW s \in Seq(S), NEW A, NEW o \in S, o \notin A, Exact(s, A)
  PROVE  Exact(Append(s, o), A \cup {o})
<1> DEFINE r == Append(s, o)
<1>1. /\ Len(r) = Len(s) + 1 /\ Len(s) \in Nat /\ r[Len(s) + 1] = o
      /\ \A i \in 1..Len(s) : r[i] = s[i]
  BY AppendFacts
<1> HIDE DEF r
<1>2. \A i \in 1..Len(r) : i \in 1..Len(s) \/ i = Len(s) + 1
  BY <1>1
<1>3. \A i \in 1..Len(s) : s[i] # Null => s[i] \in A
  BY DEF Exact
<1>4. \A i \in 1..Len(r) : r[i] # Null => r[i] \in A \cup {o}
  BY <1>1, <1>2, <1>3
<1>5. ASSUME NEW i \in 1..Len(r), NEW j \in 1..Len(r), r[i] = r[j], r[i] # Null
      PROVE  i = j
  <2>1. CASE i \in 1..Len(s) /\ j \in 1..Len(s)
    BY <1>1, <1>5, <2>1 DEF Exact
  <2>2. CASE i \in 1..Len(s) /\ j = Len(s) + 1
    BY <1>1, <1>3, <1>5, <2>2
  <2>3. CASE j \in 1..Len(s) /\ i = Len(s) + 1
    BY <1>1, <1>3, <1>5, <2>3
  <2> QED BY <1>2, <2>1, <2>2, <2>3
<1>6. ASSUME NEW x \in A \cup {o} PROVE \E i \in 1..Len(r) : r[i] = x
  <2>1. CASE x \in A
    <3>1. PICK i \in 1..Len(s) : s[i] = x
      BY <2>1 DEF Exact
    <3>2. i \in 1..Len(r) /\ r[i] = x
      BY <1>1, <3>1
    <3> QED BY <3>2
  <2>2. CASE x = o
    <3>1. Len(s) + 1 \in 1..Len(r)
      BY <1>1
    <3> QED BY <1>1, <2>2, <3>1
  <2> QED BY <2>1, <2>2
<1> QED BY <1>4, <1>5, <1>6 DEF Exact, r

LEMMA ExactWithout ==
  ASSUME NEW s, NEW r, NEW A, NEW o, o # Null, Exact(s, A), Len(r) = Len(s),
         \A i \in 1..Len(s) : s[i] = o => r[i] = Null,
         \A i \in 1..Len(s) : s[i] # o => r[i] = s[i]
  PROVE  Exact(r, A \ {o})
<1>1. \A i \in 1..Len(s) : r[i] # Null => s[i] # o /\ r[i] = s[i] /\ s[i] \in A
  BY DEF Exact
<1>2. \A i \in 1..Len(r) : r[i] # Null => r[i] \in A \ {o}
  BY <1>1
<1>3. ASSUME NEW i \in 1..Len(r), NEW j \in 1..Len(r), r[i] = r[j], r[i] # Null
      PROVE  i = j
  <2>1. s[i] = s[j] /\ s[i] # Null /\ i \in 1..Len(s) /\ j \in 1..Len(s)
    BY <1>1, <1>3
  <2> QED BY <2>1, Zenon DEF Exact
<1>4. ASSUME NEW x \in A \ {o} PROVE \E i \in 1..Len(r) : r[i] = x
  <2>1. PICK i \in 1..Len(s) : s[i] = x
    BY DEF Exact
  <2>2. r[i] = x
    BY <2>1
  <2> QED BY <2>1, <2>2
<1> QED BY <1>2, <1>3, <1>4, Zenon DEF Exact

LEMMA ExactRemoved ==
  ASSUME NEW S, NEW s \in Seq(S), NEW k \in 1..Len(s), s[k] = Null,
         NEW A, Null \notin A, Exact(s, A)
  PROVE  Exact(RemoveAt(s, k), A)
<1> DEFINE r == RemoveAt(s, k)
<1>1. /\ Len(r) = Len(s) - 1
      /\ \A j \in 1..(Len(s) - 1) : r[j] = IF j < k THEN s[j] ELSE s[j + 1]
  BY RemoveAtFacts
<1>2. Len(s) \in Nat
  BY LenProperties
<1> HIDE DEF r
<1>3. ASSUME NEW j \in 1..Len(r)
      PROVE  \E i \in 1..Len(s) : r[j] = s[i] /\ (IF j < k THEN i = j ELSE i = j + 1)
  <2>1. CASE j < k
    BY <1>1, <1>2, <2>1
  <2>2. CASE ~(j < k)
    <3>1. j + 1 \in 1..Len(s) /\ r[j] = s[j + 1]
      BY <1>1, <1>2, <2>2
    <3> QED BY <2>2, <3>1
  <2> QED BY <2>1, <2>2
<1>4. \A j \in 1..Len(r) : r[j] # Null => r[j] \in A
  <2> TAKE j \in 1..Len(r)
  <2>1. PICK i \in 1..Len(s) : r[j] = s[i]
    BY <1>3
  <2> QED BY <2>1 DEF Exact
<1>5. ASSUME NEW i \in 1..Len(r), NEW j \in 1..Len(r), r[i] = r[j], r[i] # Null
      PROVE  i = j
  <2>1. PICK a \in 1..Len(s) : r[i] = s[a] /\ (IF i < k THEN a = i ELSE a = i + 1)
    BY <1>3
  <2>2. PICK b \in 1..Len(s) : r[j] = s[b] /\ (IF j < k THEN b = j ELSE b = j + 1)
    BY <1>3
  <2>3. a = b
    BY <1>5, <2>1, <2>2 DEF Exact
  <2>4. i \in Nat /\ j \in Nat /\ k \in Nat
    BY <1>1, <1>2
  <2> QED BY <2>1, <2>2, <2>3, <2>4
<1>6. ASSUME NEW x \in A PROVE \E j \in 1..Len(r) : r[j] = x
  <2>1. PICK i \in 1..Len(s) : s[i] = x
    BY DEF Exact
  <2>2. i # k
    BY <2>1
  <2>3. CASE i < k
    <3>1. i \in 1..Len(r) /\ r[i] = s[i]
      BY <1>1, <1>2, <2>3
    <3> QED BY <2>1, <3>1
  <2>4. CASE i > k
    <3>1. i - 1 \in 1..Len(r) /\ r[i - 1] = s[i - 1 + 1] /\ i - 1 + 1 = i
      BY <1>1, <1>2, <2>4
    <3> QED BY <2>1, <3>1
  <2> QED BY <1>2, <2>2, <2>3, <2>4
<1> QED BY <1>4, <1>5, <1>6, Zenon DEF Exact, r

ListsOK == Exact(spinetts \o toAdd, alive)

LEMMA ListsFacts ==
  ASSUME TypeOK, ListsOK
  PROVE  /\ \A i \in 1..Len(spinetts) : spinetts[i] # Null => spinetts[i] \in alive
         /\ \A i, j \in 1..Len(spinetts) :
              spinetts[i] = spinetts[j] /\ spinetts[i] # Null => i = j
<1> DEFINE all == spinetts \o toAdd
<1>1. /\ Len(all) = Len(spinetts) + Len(toAdd) /\ Len(spinetts) \in Nat /\ Len(toAdd) \in Nat
      /\ \A i \in 1..Len(spinetts) : all[i] = spinetts[i]
  BY Types, ConcatFacts
<1>2. /\ \A i \in 1..Len(all) : all[i] # Null => all[i] \in alive
      /\ \A i, j \in 1..Len(all) : all[i] = all[j] /\ all[i] # Null => i = j
  BY DEF ListsOK, Exact
<1>3. \A i \in 1..Len(spinetts) : i \in 1..Len(all)
  BY <1>1
<1> HIDE DEF all
<1> QED BY <1>1, <1>2, <1>3

(* What the run checks of the lists. *)
LEMMA ListsExact == TypeOK /\ ListsOK => SpinettsExact
<1> SUFFICES ASSUME TypeOK, ListsOK PROVE SpinettsExact
  OBVIOUS
<1> DEFINE all == spinetts \o toAdd
<1>1. all \in Seq(Spinetts \cup {Null}) /\ DOMAIN all = 1..Len(all)
  BY Types, ConcatFacts, LenProperties
<1>2. Exact(all, alive)
  BY DEF ListsOK
<1>3. Null \notin alive
  BY ConstantFacts DEF TypeOK
<1> HIDE DEF all
<1>4. ASSUME NEW o \in alive PROVE Cardinality({i \in DOMAIN all : all[i] = o}) = 1
  <2>1. PICK k \in 1..Len(all) : all[k] = o
    BY <1>2 DEF Exact
  <2>2. o # Null
    BY <1>3
  <2>3. \A i \in 1..Len(all) : all[i] = o => i = k
    BY <1>2, <2>1, <2>2 DEF Exact
  <2>4. {i \in DOMAIN all : all[i] = o} = {k}
    BY <1>1, <2>1, <2>3
  <2> QED BY <2>4, FS_Singleton
<1>5. \A i \in DOMAIN all : all[i] # Null => all[i] \in alive
  BY <1>1, <1>2 DEF Exact
<1> QED BY <1>4, <1>5 DEF SpinettsExact, all

(* A new object is not in the lists yet. *)
LEMMA ConstructLists ==
  ASSUME TypeOK, ListsOK, NEW o \in Spinetts, o \notin alive, spinetts' = spinetts,
         toAdd' = Append(toAdd, o), alive' = alive \cup {o}
  PROVE  ListsOK'
<1>1. Exact(Append(spinetts \o toAdd, o), alive \cup {o})
  <2>1. spinetts \o toAdd \in Seq(Spinetts \cup {Null}) /\ o \in Spinetts \cup {Null}
    BY Types, ConcatFacts
  <2> QED BY <2>1, ExactAppend DEF ListsOK
<1>2. spinetts \o Append(toAdd, o) = Append(spinetts \o toAdd, o)
  <2>1. /\ spinetts \in Seq(Spinetts \cup {Null}) /\ toAdd \in Seq(Spinetts \cup {Null})
        /\ o \in Spinetts \cup {Null}
    BY Types
  <2> HIDE DEF Spinetts
  <2> QED BY <2>1
<1> QED BY <1>1, <1>2 DEF ListsOK

(* An object that is not among those to be added leaves a null entry. *)
LEMMA DestructLists ==
  ASSUME TypeOK, ListsOK, NEW o \in Spinetts, ~Contains(toAdd, o), Destruct(o)
  PROVE  ListsOK'
<1> DEFINE r == Unregistered(spinetts, o)
           a == spinetts \o toAdd
           b == r \o toAdd
<1>1. /\ r \in Seq(Spinetts \cup {Null}) /\ Len(r) = Len(spinetts)
      /\ \A i \in 1..Len(spinetts) : spinetts[i] = o => r[i] = Null
      /\ \A i \in 1..Len(spinetts) : spinetts[i] # o => r[i] = spinetts[i]
  BY Types, UnregisteredList
<1>2. \A i \in 1..Len(toAdd) : toAdd[i] # o
  BY DEF Contains
<1> HIDE DEF r
<1>3. /\ Len(a) = Len(spinetts) + Len(toAdd) /\ Len(spinetts) \in Nat /\ Len(toAdd) \in Nat
      /\ \A i \in 1..Len(spinetts) : a[i] = spinetts[i]
      /\ \A i \in 1..Len(toAdd) : a[Len(spinetts) + i] = toAdd[i]
  BY Types, ConcatFacts
<1>4. /\ Len(b) = Len(spinetts) + Len(toAdd)
      /\ \A i \in 1..Len(spinetts) : b[i] = r[i]
      /\ \A i \in 1..Len(toAdd) : b[Len(spinetts) + i] = toAdd[i]
  <2>1. toAdd \in Seq(Spinetts \cup {Null}) /\ r \in Seq(Spinetts \cup {Null})
    BY <1>1, Types
  <2>2. /\ Len(b) = Len(r) + Len(toAdd)
        /\ \A i \in 1..Len(r) : b[i] = r[i]
        /\ \A i \in 1..Len(toAdd) : b[Len(r) + i] = toAdd[i]
    BY <2>1, ConcatFacts
  <2> HIDE DEF b
  <2> QED BY <1>1, <2>2
<1>5. Exact(a, alive) /\ o # Null
  BY ConstantFacts DEF ListsOK
<1> HIDE DEF a, b
<1>6. ASSUME NEW i \in 1..Len(a) PROVE (a[i] = o => b[i] = Null) /\ (a[i] # o => b[i] = a[i])
  <2>1. CASE i \in 1..Len(spinetts)
    BY <1>1, <1>3, <1>4, <2>1
  <2>2. CASE i \notin 1..Len(spinetts)
    <3>1. i - Len(spinetts) \in 1..Len(toAdd) /\ i = Len(spinetts) + (i - Len(spinetts))
      BY <1>3, <2>2
    <3>2. PICK j \in 1..Len(toAdd) : i = Len(spinetts) + j
      BY <3>1
    <3> QED BY <1>2, <1>3, <1>4, <3>2
  <2> QED BY <2>1, <2>2
<1>7. Len(b) = Len(a)
  BY <1>3, <1>4
<1>8. Exact(b, alive \ {o})
  BY <1>5, <1>6, <1>7, ExactWithout
<1> QED BY <1>8 DEF ListsOK, Destruct, b, r

LEMMA EndSpinLists ==
  ASSUME TypeOK, ListsOK, EndSpin
  PROVE  ListsOK'
<1> DEFINE all == spinetts \o toAdd
<1>1. spinetts' = Swept(all) /\ toAdd' = <<>> /\ alive' = alive
  BY DEF EndSpin, StillToAdd
<1>2. all \in Seq(Spinetts \cup {Null})
  BY Types, ConcatFacts
<1>3. Exact(all, alive) /\ Null \notin alive
  BY ConstantFacts DEF ListsOK, TypeOK
<1> HIDE DEF all
<1>4. Swept(all) \in Seq(Spinetts \cup {Null}) /\ Exact(Swept(all), alive)
  <2>1. CASE Swept(all) = all
    BY <1>2, <1>3, <2>1
  <2>2. CASE \E k \in 1..Len(all) : all[k] = Null /\ Swept(all) = RemoveAt(all, k)
    <3>1. PICK k \in 1..Len(all) : all[k] = Null /\ Swept(all) = RemoveAt(all, k)
      BY <2>2
    <3>2. RemoveAt(all, k) \in Seq(Spinetts \cup {Null})
      BY <1>2, RemoveAtFacts, Zenon
    <3>3. Exact(RemoveAt(all, k), alive)
      BY <1>2, <1>3, <3>1, ExactRemoved, Zenon
    <3> QED BY <3>1, <3>2, <3>3
  <2> QED BY <1>2, <2>1, <2>2, SweptFacts
<1>5. Swept(all) \o <<>> = Swept(all)
  BY <1>4, ConcatEmptySeq
<1> QED BY <1>1, <1>4, <1>5 DEF ListsOK

-----------------------------------------------------------------------------
(* What holds of a user who does what the library expects. *)

Live == {c \in Children : child[c] = "live"}

Stopping == pc \in {"husk", "husk of dying", "shut down", "shut down dying"}

(* A link lives as long as its remote node is known, and is watched as     *)
(* long; its socket lives longer.                                          *)
LinksOK ==
  /\ alive \cap Links = remotes
  /\ watched = remotes
  /\ todo \subseteq remotes
  /\ thread # "pass" => todo = {}
  /\ Gateway \notin ended
  /\ \A l \in remotes : sock[l] \in {"open", "closed"}

(* The node's server listens and is listened to, and no other does. *)
ServerOK ==
  /\ listening = observed
  /\ server = Null => observed = {}
  /\ server # Null => observed = {server} /\ server \in alive

(* Nothing is without its node, and a node that stops is alone. *)
NodeOK ==
  /\ remotes # {} \/ Live # {} \/ server # Null \/ pc = "join" => HasNode
  /\ \A c \in Children : child[c] # "husk"
  /\ Stopping => remotes = {} /\ Live = {} /\ server = Null
  /\ pc \in {"husk of dying", "shut down dying"} => HasNode /\ ~Contains(toAdd, Node)

(* The clients are different remote nodes of the node's server, up to the  *)
(* one whose remote node is gone and whose socket is about to be deleted.  *)
ClientsOK ==
  /\ \A v \in Servers : clients[v] # <<>> => v = server
  /\ \A v \in Servers : \A i, j \in 1..Len(clients[v]) : clients[v][i] = clients[v][j] => i = j
  /\ \A v \in Servers : \A i \in 1..Len(clients[v]) :
       /\ ~(pc = "delete" /\ i = ci) => clients[v][i] \in remotes
       /\ pc = "delete" /\ i = ci =>
            clients[v][i] \notin remotes /\ sock[clients[v][i]] = "closed"

(* A client that is still to be added to the spinner's list was accepted   *)
(* in this spin: the server's turn is over, or it accepts.                 *)
Fresh == server # Null /\ \E i \in 1..Len(clients[server]) : Contains(toAdd, clients[server][i])

TurnOver ==
  /\ InServer \/ pc = "spin"
  /\ \E k \in 1..(at - 1) : k <= Len(spinetts) /\ spinetts[k] = server

Accepting == pc = "check" /\ spinetts[at] = server /\ ci > Len(clients[server])

FreshOK == Fresh => TurnOver \/ Accepting

(* While callbacks are under way, the user thread is in none of the other  *)
(* calls, and those who are called are still subscribed.                   *)
CallingOK ==
  /\ calling # <<>> => pc \in {"user", "spin"}
  /\ \A i \in 1..Len(calling) : calling[i] \in mailboxes

OrderlyInv ==
  TypeInv /\ ListsOK /\ LinksOK /\ ServerOK /\ NodeOK /\ ClientsOK /\ FreshOK
    /\ MailboxesExact /\ NothingDangles

(* Each part depends on some of the variables only. *)
LEMMA Frames ==
  ASSUME OrderlyInv
  PROVE  /\ UNCHANGED <<alive, spinetts, toAdd>> => ListsOK'
         /\ UNCHANGED <<alive, remotes, watched, todo, thread, ended, sock>> => LinksOK'
         /\ UNCHANGED <<listening, observed, server, alive>> => ServerOK'
         /\ UNCHANGED <<remotes, child, server, pc, alive, toAdd>> => NodeOK'
         /\ UNCHANGED <<clients, server, remotes, pc, ci, sock>> => ClientsOK'
         /\ UNCHANGED <<clients, server, toAdd, pc, at, ci, spinetts>> => FreshOK'
         /\ UNCHANGED <<mailboxes, remotes, child>> => MailboxesExact'
         /\ UNCHANGED fault => NothingDangles'
<1>1. UNCHANGED <<alive, spinetts, toAdd>> => ListsOK'
  BY DEF OrderlyInv, ListsOK
<1>2. UNCHANGED <<alive, remotes, watched, todo, thread, ended, sock>> => LinksOK'
  BY DEF OrderlyInv, LinksOK
<1>3. UNCHANGED <<listening, observed, server, alive>> => ServerOK'
  BY DEF OrderlyInv, ServerOK
<1>4. UNCHANGED <<remotes, child, server, pc, alive, toAdd>> => NodeOK'
  BY DEF OrderlyInv, NodeOK, Live, Stopping, HasNode
<1>5. UNCHANGED <<clients, server, remotes, pc, ci, sock>> => ClientsOK'
  BY DEF OrderlyInv, ClientsOK
<1>6. UNCHANGED <<clients, server, toAdd, pc, at, ci, spinetts>> => FreshOK'
  BY DEF OrderlyInv, FreshOK, Fresh, TurnOver, Accepting, InServer
<1>7. UNCHANGED <<mailboxes, remotes, child>> => MailboxesExact'
  BY DEF OrderlyInv, MailboxesExact
<1>8. UNCHANGED fault => NothingDangles'
  BY DEF OrderlyInv, NothingDangles
<1> QED BY <1>1, <1>2, <1>3, <1>4, <1>5, <1>6, <1>7, <1>8

(* Who is told of a change is watched. *)
LEMMA InfoSucceeds ==
  ASSUME NEW mb, NEW r \in SUBSET Links, NEW c \in SUBSET Children, mb \ {Node} = r \cup c
  PROVE  ~InfoFails(mb, r)
BY ConstantFacts DEF InfoFails

LEMMA NoServerNoClients ==
  ASSUME TypeOK, ClientsOK, server = Null
  PROVE  \A v \in Servers : clients[v] = <<>>
BY ConstantFacts DEF ClientsOK

LEMMA NoClientsNext ==
  ASSUME \A v \in Servers : clients'[v] = <<>>
  PROVE  ClientsOK'
<1>1. Len(<<>>) = 0
  OBVIOUS
<1>2. \A v \in Servers : Len(clients'[v]) = 0
  BY <1>1
<1> QED BY <1>2 DEF ClientsOK

(* In a spun server with a client, the server is the node's. *)
LEMMA SpunFacts ==
  ASSUME TypeInv, ServerOK, ClientsOK, InServer, ci \in 1..Len(clients[Spun])
  PROVE  Spun = server /\ Spun \in observed /\ Spun \in Servers /\ server # Null
         /\ at \in 1..Len(spinetts) /\ spinetts[at] = server
<1>1. Spun \in Servers /\ clients[Spun] \in Seq(Accepted) /\ at \in 1..Len(spinetts)
      /\ Spun = spinetts[at]
  BY StandsAt DEF TypeInv
<1>2. clients[Spun] # <<>>
  <2>1. Len(<<>>) = 0
    OBVIOUS
  <2> QED BY <2>1
<1>3. Spun = server
  BY <1>1, <1>2 DEF ClientsOK
<1> QED BY <1>1, <1>3, ConstantFacts DEF ServerOK

LEMMA OrderlyInit == Init => OrderlyInv
<1> SUFFICES ASSUME Init PROVE OrderlyInv
  OBVIOUS
<1>1. TypeInv
  BY TypeInit
<1>2. ListsOK
  <2>1. spinetts \o toAdd = <<>> /\ Len(<<>>) = 0
    BY DEF Init
  <2> QED BY <2>1 DEF Init, ListsOK, Exact
<1>3. \A v \in Servers : clients[v] = <<>>
  BY DEF Init
<1>4. Live = {} /\ \A c \in Children : child[c] # "husk"
  BY DEF Init, Live
<1>5. LinksOK /\ ServerOK
  BY DEF Init, LinksOK, ServerOK
<1>6. NodeOK
  BY <1>4 DEF Init, NodeOK, Stopping
<1>7. ClientsOK
  BY <1>3 DEF ClientsOK
<1>8. FreshOK
  BY DEF Init, FreshOK, Fresh
<1>9. MailboxesExact /\ NothingDangles
  BY <1>4 DEF Init, MailboxesExact, NothingDangles, Live
<1> QED BY <1>1, <1>2, <1>5, <1>6, <1>7, <1>8, <1>9 DEF OrderlyInv

LEMMA NetworkOrderly ==
  ASSUME OrderlyInv, TypeInv', NetworkThread
  PROVE  OrderlyInv'
<1>1. CASE StartPass
  <2>1. /\ UNCHANGED <<alive, spinetts, toAdd, server, remotes, mailboxes, child, listening,
                       observed, clients, sock, ended, watched, pc, at, ci, calling, fault>>
        /\ todo' = watched /\ thread' = "pass"
    BY <1>1 DEF StartPass, spinVars, nodeVars, serverVars, userVars
  <2>2. LinksOK'
    BY <2>1 DEF OrderlyInv, LinksOK
  <2> QED BY <2>1, <2>2, Frames DEF OrderlyInv
<1>2. CASE EndPass
  <2>1. /\ UNCHANGED <<alive, spinetts, toAdd, server, remotes, mailboxes, child, listening,
                       observed, clients, sock, ended, watched, todo, pc, at, ci, calling, fault>>
        /\ todo = {}
    BY <1>2 DEF EndPass, spinVars, nodeVars, serverVars, userVars
  <2>2. LinksOK'
    BY <2>1 DEF OrderlyInv, LinksOK
  <2> QED BY <2>1, <2>2, Frames DEF OrderlyInv
<1>3. ASSUME NEW l \in Links, VisitLink(l) PROVE OrderlyInv'
  <2>1. /\ UNCHANGED <<alive, spinetts, toAdd, server, remotes, mailboxes, child, listening,
                       observed, clients, ended, watched, thread, pc, at, ci, calling>>
        /\ todo' = todo \ {l} /\ l \in todo /\ thread = "pass"
        /\ fault' = (fault \/ sock[l] = "deleted")
    BY <1>3 DEF VisitLink, Faults, spinVars, nodeVars, serverVars, userVars
  <2>2. sock' = [sock EXCEPT ![l] = IF ~(l \in ended /\ @ = "open") THEN @
                                    ELSE IF l = Gateway THEN "deleted" ELSE "closed"]
    BY <1>3 DEF VisitLink
  <2>3. l \in remotes /\ sock[l] \in {"open", "closed"} /\ (l \in ended => l # Gateway)
    BY <2>1 DEF OrderlyInv, LinksOK
  <2>4. \A k \in Links : sock'[k] = sock[k] \/ (k = l /\ sock'[k] = "closed")
    <3>1. sock \in [Links -> {"none", "waiting", "open", "closed", "deleted"}]
      BY Types DEF OrderlyInv, TypeInv
    <3> QED BY <2>2, <2>3, <3>1
  <2>5. NothingDangles'
    BY <2>1, <2>3 DEF OrderlyInv, NothingDangles
  <2>6. LinksOK'
    BY <2>1, <2>4 DEF OrderlyInv, LinksOK
  <2>7. ClientsOK'
    <3>1. \A v \in Servers : \A i \in 1..Len(clients[v]) : clients[v][i] \in Links
      BY ElementOfSeq, Types, ConstantFacts DEF OrderlyInv, TypeInv
    <3>2. \A v \in Servers : \A i \in 1..Len(clients[v]) :
            sock[clients[v][i]] = "closed" => sock'[clients[v][i]] = "closed"
      BY <2>4, <3>1
    <3> QED BY <2>1, <3>2 DEF OrderlyInv, ClientsOK
  <2> QED BY <2>1, <2>5, <2>6, <2>7, Frames DEF OrderlyInv
<1> QED BY <1>1, <1>2, <1>3 DEF NetworkThread

LEMMA OthersOrderly ==
  ASSUME OrderlyInv, TypeInv', Liberties = {}, Others
  PROVE  OrderlyInv'
<1>1. ASSUME NEW l \in Accepted, ClientConnects(l) PROVE OrderlyInv'
  <2>1. /\ UNCHANGED <<alive, spinetts, toAdd, server, remotes, mailboxes, child, listening,
                       observed, clients, watched, todo, thread, pc, at, ci, calling, fault>>
        /\ ended' = ended \ {l} /\ sock' = [sock EXCEPT ![l] = "waiting"]
        /\ l \notin alive /\ \A v \in Servers : ~Contains(clients[v], l)
    BY <1>1 DEF ClientConnects, spinVars, nodeVars, serverVars, threadVars, userVars
  <2>2. \A k \in Links : k # l => sock'[k] = sock[k]
    BY <2>1, Types DEF OrderlyInv, TypeInv
  <2>3. l \notin remotes
    BY <2>1 DEF OrderlyInv, LinksOK
  <2>4. LinksOK'
    <3>1. \A k \in remotes : k \in Links /\ k # l
      BY <2>3 DEF OrderlyInv, TypeInv, TypeOK
    <3> QED BY <2>1, <2>2, <3>1 DEF OrderlyInv, LinksOK
  <2>5. ClientsOK'
    <3>1. \A v \in Servers : \A i \in 1..Len(clients[v]) : clients[v][i] \in Links
      BY ElementOfSeq, Types, ConstantFacts DEF OrderlyInv, TypeInv
    <3>2. \A v \in Servers : \A i \in 1..Len(clients[v]) : clients[v][i] # l
      BY <2>1 DEF Contains
    <3>3. \A v \in Servers : \A i \in 1..Len(clients[v]) :
            sock'[clients[v][i]] = sock[clients[v][i]]
      BY <2>2, <3>1, <3>2
    <3> QED BY <2>1, <3>3 DEF OrderlyInv, ClientsOK
  <2> QED BY <2>1, <2>4, <2>5, Frames DEF OrderlyInv
<1>2. ASSUME NEW l \in Links, PeerEnds(l) PROVE OrderlyInv'
  <2>1. /\ UNCHANGED <<alive, spinetts, toAdd, server, remotes, mailboxes, child, listening,
                       observed, clients, sock, watched, todo, thread, pc, at, ci, calling, fault>>
        /\ ended' = ended \cup {l} /\ l # Gateway
    BY <1>2 DEF PeerEnds, spinVars, nodeVars, serverVars, threadVars, userVars
  <2>2. LinksOK'
    BY <2>1 DEF OrderlyInv, LinksOK
  <2> QED BY <2>1, <2>2, Frames DEF OrderlyInv
<1> QED BY <1>1, <1>2 DEF Others

LEMMA CreateNodeOrderly ==
  ASSUME OrderlyInv, TypeInv', CreateNode
  PROVE  OrderlyInv'
<1>1. /\ UNCHANGED <<spinetts, server, remotes, child, listening, observed, clients, sock,
                     ended, watched, todo, pc, at, ci, calling, fault>>
      /\ toAdd' = Append(toAdd, Node) /\ alive' = alive \cup {Node}
      /\ mailboxes' = {Node} /\ thread' = "idle" /\ Node \notin alive /\ pc = "user"
  BY DEF CreateNode, IsFree, Construct, HasNode, serverVars, userVars
<1>2. remotes = {} /\ Live = {} /\ server = Null
  BY <1>1 DEF OrderlyInv, NodeOK, HasNode
<1>3. ListsOK'
  BY <1>1, ConstructLists, ConstantFacts DEF OrderlyInv, TypeInv
<1>4. LinksOK'
  <2>1. alive' \cap Links = alive \cap Links
    BY <1>1, ConstantFacts
  <2> QED BY <1>1, <1>2, <2>1 DEF OrderlyInv, LinksOK
<1>5. ServerOK'
  BY <1>1, <1>2 DEF OrderlyInv, ServerOK
<1>6. NodeOK'
  BY <1>1, <1>2 DEF OrderlyInv, NodeOK, HasNode, Stopping, Live
<1>7. FreshOK'
  BY <1>1, <1>2 DEF FreshOK, Fresh
<1>8. MailboxesExact'
  BY <1>1, <1>2 DEF MailboxesExact, Live
<1> QED BY <1>1, <1>3, <1>4, <1>5, <1>6, <1>7, <1>8, Frames DEF OrderlyInv

LEMMA StartGatewayOrderly ==
  ASSUME OrderlyInv, TypeInv', Liberties = {}, NEW v \in Servers,
         NEW next \in {"user", "join"}, StartGateway(v, next)
  PROVE  OrderlyInv'
<1>1. /\ UNCHANGED <<remotes, mailboxes, child, ended, watched, todo, thread, at, ci,
                     calling, fault>>
      /\ server = Null /\ HasNode /\ v \notin alive /\ pc = "user" /\ pc' = next
      /\ alive' = (alive \cup {v}) \ {server} /\ toAdd' = Append(toAdd, v)
      /\ spinetts' = Unregistered(spinetts, server)
      /\ clients' = [clients EXCEPT ![v] = <<>>]
  BY DEF StartGateway, IsFree, threadVars
<1>2. /\ sock' = [l \in Links |->
                IF server # Null /\ Contains(clients[server], l) THEN "deleted" ELSE sock[l]]
      /\ \/ server' = v /\ listening' = (listening \ {server}) \cup {v}
            /\ observed' = observed \cup {v}
         \/ server' = Null /\ listening' = listening \ {server} /\ observed' = observed
  BY DEF StartGateway
<1>3. \A l \in Links : sock'[l] = sock[l]
  <2>1. server = Null
    BY <1>1
  <2>2. sock' = [l \in Links |->
                   IF server # Null /\ Contains(clients[server], l) THEN "deleted" ELSE sock[l]]
    BY <1>2
  <2>3. ASSUME NEW l \in Links PROVE sock'[l] = sock[l]
    <3>1. sock'[l] = IF server # Null /\ Contains(clients[server], l) THEN "deleted"
                     ELSE sock[l]
      BY <2>2, Zenon
    <3> QED BY <2>1, <3>1, Zenon
  <2> QED BY <2>3
<1>4. alive' = alive \cup {v}
  <2>1. Null \notin alive /\ Null # v
    BY ConstantFacts DEF OrderlyInv, TypeInv, TypeOK
  <2>2. alive' = (alive \cup {v}) \ {Null}
    BY <1>1
  <2> QED BY <2>1, <2>2
<1>5. spinetts' = spinetts
  <2>1. spinetts \in Seq(Spinetts \cup {Null})
    BY Types DEF OrderlyInv, TypeInv
  <2> DEFINE r == Unregistered(spinetts, Null)
  <2>2. /\ r \in Seq(Spinetts \cup {Null}) /\ Len(r) = Len(spinetts)
        /\ \A i \in 1..Len(spinetts) : spinetts[i] = Null => r[i] = Null
        /\ \A i \in 1..Len(spinetts) : spinetts[i] # Null => r[i] = spinetts[i]
    BY <2>1, UnregisteredList
  <2> HIDE DEF r
  <2>3. \A i \in 1..Len(spinetts) : r[i] = spinetts[i]
    BY <2>2
  <2>4. r = spinetts
    BY <2>1, <2>2, <2>3, SeqEqual
  <2> QED BY <1>1, <2>4 DEF r
<1>6. ListsOK'
  BY <1>1, <1>4, <1>5, ConstructLists, ConstantFacts DEF OrderlyInv, TypeInv
<1>7. \A w \in Servers : clients'[w] = <<>>
  <2>1. \A w \in Servers : clients[w] = <<>>
    BY <1>1, NoServerNoClients DEF OrderlyInv, TypeInv
  <2> QED BY <1>1, <2>1, Types DEF OrderlyInv, TypeInv
<1>8. LinksOK'
  <2>1. alive' \cap Links = alive \cap Links
    BY <1>4, ConstantFacts
  <2>2. remotes \subseteq Links
    BY DEF OrderlyInv, TypeInv, TypeOK
  <2> QED BY <1>1, <1>3, <2>1, <2>2 DEF OrderlyInv, LinksOK
<1>9. ServerOK'
  <2>1. observed = {} /\ listening = {}
    BY <1>1 DEF OrderlyInv, ServerOK
  <2>2. v # Null
    BY ConstantFacts
  <2>3. CASE server' = v
    <3>1. observed' = {v} /\ listening' = {v} /\ v \in alive'
      BY <1>2, <1>4, <2>1, <2>2, <2>3
    <3> QED BY <2>2, <2>3, <3>1 DEF ServerOK
  <2>4. CASE server' = Null
    <3>1. observed' = {} /\ listening' = {}
      BY <1>2, <2>1, <2>2, <2>4
    <3> QED BY <2>4, <3>1 DEF ServerOK
  <2> QED BY <1>2, <2>3, <2>4
<1>10. NodeOK'
  <2>1. HasNode' /\ ~Stopping' /\ pc' \notin {"husk of dying", "shut down dying"}
    BY <1>1, <1>4 DEF HasNode, Stopping
  <2> QED BY <1>1, <2>1 DEF OrderlyInv, NodeOK
<1>11. ClientsOK'
  BY <1>7, NoClientsNext
<1>12. FreshOK'
  <2>1. server' = Null \/ clients'[server'] = <<>>
    BY <1>2, <1>7
  <2> QED BY <2>1 DEF FreshOK, Fresh
<1> QED BY <1>1, <1>6, <1>8, <1>9, <1>10, <1>11, <1>12, Frames DEF OrderlyInv

LEMMA AddRemoteOrderly ==
  ASSUME OrderlyInv, NEW l \in Links, l \notin alive, AddRemote(l),
         UNCHANGED <<spinetts, child, server, todo, thread, ended>>,
         sock' = [sock EXCEPT ![l] = "open"]
  PROVE  ListsOK' /\ LinksOK' /\ MailboxesExact' /\ NothingDangles'
<1>1. /\ alive' = alive \cup {l} /\ toAdd' = Append(toAdd, l) /\ watched' = watched \cup {l}
      /\ mailboxes' = mailboxes \cup {l} /\ remotes' = remotes \cup {l}
      /\ fault' = (fault \/ InfoFails(mailboxes', watched')) /\ thread # "pass"
  BY DEF AddRemote, Construct, Faults, HoldsMut
<1>2. l \in Spinetts /\ l # Node /\ l \notin Children
  BY ConstantFacts
<1>3. ListsOK'
  BY <1>1, <1>2, ConstructLists DEF OrderlyInv, TypeInv
<1>4. LinksOK'
  <2>1. alive' \cap Links = remotes'
    BY <1>1 DEF OrderlyInv, LinksOK
  <2>2. watched' = remotes' /\ todo' \subseteq remotes' /\ todo' = {} /\ Gateway \notin ended'
    BY <1>1 DEF OrderlyInv, LinksOK
  <2>3. \A k \in remotes' : sock'[k] \in {"open", "closed"}
    <3>1. \A k \in Links : sock'[k] = IF k = l THEN "open" ELSE sock[k]
      BY Types DEF OrderlyInv, TypeInv
    <3>2. \A k \in remotes : k \in Links /\ sock[k] \in {"open", "closed"}
      BY DEF OrderlyInv, LinksOK
    <3> QED BY <1>1, <3>1, <3>2
  <2> QED BY <2>1, <2>2, <2>3 DEF LinksOK
<1>5. mailboxes' \ {Node} = remotes' \cup Live
  <2>1. mailboxes \ {Node} = remotes \cup Live
    BY DEF OrderlyInv, MailboxesExact, Live
  <2> QED BY <1>1, <1>2, <2>1
<1>6. MailboxesExact'
  BY <1>5 DEF MailboxesExact, Live
<1>7. NothingDangles'
  <2>1. remotes' \in SUBSET Links /\ Live \in SUBSET Children /\ watched' = remotes'
    BY <1>1 DEF OrderlyInv, TypeInv, TypeOK, LinksOK, Live
  <2>2. ~InfoFails(mailboxes', watched')
    BY <1>5, <2>1, InfoSucceeds
  <2> QED BY <1>1, <2>2 DEF OrderlyInv, NothingDangles
<1> QED BY <1>3, <1>4, <1>6, <1>7

(* No client is in the list to be added while the user thread is not in a  *)
(* spin.                                                                   *)
LEMMA NothingFresh ==
  ASSUME OrderlyInv, ~InServer, pc # "spin"
  PROVE  ~Fresh
BY DEF OrderlyInv, FreshOK, TurnOver, Accepting, InServer

LEMMA JoinOrderly ==
  ASSUME OrderlyInv, TypeInv', Join
  PROVE  OrderlyInv'
<1>1. /\ UNCHANGED <<spinetts, server, child, listening, observed, clients, ended, todo,
                     thread, at, ci, calling>>
      /\ pc = "join" /\ pc' = "user"
  BY DEF Join, serverVars, threadVars
<1>2. HasNode /\ ~Fresh
  BY <1>1, NothingFresh DEF OrderlyInv, NodeOK, InServer
<1>3. CASE /\ Gateway \notin alive /\ AddRemote(Gateway)
           /\ sock' = [sock EXCEPT ![Gateway] = "open"]
  <2>1. ListsOK' /\ LinksOK' /\ MailboxesExact' /\ NothingDangles'
    BY <1>1, <1>3, AddRemoteOrderly, ConstantFacts
  <2>2. /\ alive' = alive \cup {Gateway} /\ toAdd' = Append(toAdd, Gateway)
        /\ remotes' = remotes \cup {Gateway}
    BY <1>3 DEF AddRemote, Construct
  <2>3. ServerOK'
    BY <1>1, <2>2 DEF OrderlyInv, ServerOK
  <2>4. NodeOK'
    <3>1. HasNode' /\ ~Stopping' /\ pc' \notin {"husk of dying", "shut down dying"}
      BY <1>1, <1>2, <2>2 DEF HasNode, Stopping
    <3> QED BY <1>1, <3>1 DEF OrderlyInv, NodeOK
  <2>5. ClientsOK'
    BY <1>1, <2>2 DEF OrderlyInv, ClientsOK
  <2>6. FreshOK'
    <3>1. CASE server = Null
      BY <1>1, <3>1 DEF FreshOK, Fresh
    <3>2. CASE server # Null
      <4>1. server \in Servers
        BY <3>2 DEF OrderlyInv, TypeInv, TypeOK
      <4>2. \A i \in 1..Len(clients[server]) : clients[server][i] # Gateway
        BY <4>1, ElementOfSeq, Types, ConstantFacts DEF OrderlyInv, TypeInv
      <4>3. /\ Len(toAdd') = Len(toAdd) + 1 /\ Len(toAdd) \in Nat
            /\ toAdd'[Len(toAdd) + 1] = Gateway
            /\ \A j \in 1..Len(toAdd) : toAdd'[j] = toAdd[j]
        <5>1. toAdd \in Seq(Spinetts) /\ Gateway \in Spinetts
          BY Types, ConstantFacts DEF OrderlyInv, TypeInv
        <5> QED BY <2>2, <5>1, AppendFacts
      <4>4. \A i \in 1..Len(clients[server]) : ~Contains(toAdd, clients[server][i])
        BY <1>2, <3>2 DEF Fresh
      <4>5. ASSUME NEW i \in 1..Len(clients[server]), NEW j \in 1..Len(toAdd')
            PROVE  toAdd'[j] # clients[server][i]
        <5>1. CASE j \in 1..Len(toAdd)
          BY <4>3, <4>4, <5>1 DEF Contains
        <5>2. CASE j = Len(toAdd) + 1
          BY <4>2, <4>3, <5>2
        <5> QED BY <4>3, <5>1, <5>2
      <4> QED BY <1>1, <4>5 DEF FreshOK, Fresh, Contains
    <3> QED BY <3>1, <3>2
  <2> QED BY <2>1, <2>3, <2>4, <2>5, <2>6 DEF OrderlyInv
<1>4. CASE UNCHANGED <<alive, toAdd, watched, mailboxes, remotes, fault, sock>>
  <2>1. NodeOK'
    BY <1>1, <1>4 DEF OrderlyInv, NodeOK, Live, Stopping, HasNode
  <2>2. ClientsOK'
    BY <1>1, <1>4 DEF OrderlyInv, ClientsOK
  <2>3. FreshOK'
    <3>1. ~Fresh'
      BY <1>1, <1>2, <1>4 DEF Fresh
    <3> QED BY <3>1 DEF FreshOK
  <2> QED BY <1>1, <1>4, <2>1, <2>2, <2>3, Frames DEF OrderlyInv
<1> QED BY <1>3, <1>4 DEF Join

LEMMA BeginStopOrderly ==
  ASSUME OrderlyInv, TypeInv', Liberties = {}, NEW next \in {"husk", "husk of dying"},
         BeginStop(next), next = "husk of dying" => ~Contains(toAdd, Node),
         thread' # thread => thread # "pass"
  PROVE  OrderlyInv'
<1>1. /\ UNCHANGED <<alive, spinetts, toAdd, remotes, child, clients, ended, watched, todo,
                     at, ci, calling, fault>>
      /\ listening' = listening \ {server} /\ observed' = observed \ {server}
      /\ server' = Null /\ mailboxes' = {} /\ pc' = next /\ pc = "user" /\ HasNode
      /\ Live = {} /\ remotes = {}
  BY DEF BeginStop, IsFree, spinVars, MayStop, Live
<1>2. \A v \in Servers : clients[v] = <<>>
  <2> TAKE v \in Servers
  <2>1. clients[v] \in Seq(Accepted)
    BY Types DEF OrderlyInv, TypeInv
  <2>2. 1 \notin 1..Len(clients[v])
    BY <1>1 DEF OrderlyInv, ClientsOK
  <2> QED BY <2>1, <2>2, NoFirst
<1>3. LinksOK'
  BY <1>1 DEF OrderlyInv, LinksOK
<1>4. ServerOK'
  BY <1>1 DEF OrderlyInv, ServerOK
<1>5. NodeOK'
  BY <1>1 DEF OrderlyInv, NodeOK, Live, Stopping, HasNode
<1>6. ClientsOK'
  <2>1. \A v \in Servers : clients'[v] = <<>>
    BY <1>1, <1>2
  <2> QED BY <2>1, NoClientsNext
<1>7. FreshOK'
  BY <1>1 DEF FreshOK, Fresh
<1>8. MailboxesExact'
  BY <1>1 DEF MailboxesExact, Live
<1> QED BY <1>1, <1>3, <1>4, <1>5, <1>6, <1>7, <1>8, Frames DEF OrderlyInv

LEMMA StopOrderly ==
  ASSUME OrderlyInv, TypeInv', Liberties = {}, Stop \/ Destroy
  PROVE  OrderlyInv'
<1>1. CASE Stop
  BY <1>1, BeginStopOrderly DEF Stop
<1>2. CASE Destroy
  <2>1. ~Contains(toAdd, Node) /\ thread # "pass" /\ BeginStop("husk of dying")
    BY <1>2 DEF Destroy, MayDestroy, HoldsMut
  <2> QED BY <2>1, BeginStopOrderly
<1> QED BY <1>1, <1>2

LEMMA MakeHusksOrderly ==
  ASSUME OrderlyInv, TypeInv', MakeHusks
  PROVE  OrderlyInv'
<1>1. /\ UNCHANGED <<alive, spinetts, toAdd, server, remotes, mailboxes, listening, observed,
                     clients, sock, ended, watched, todo, thread, at, ci, calling>>
      /\ pc \in {"husk", "husk of dying"}
      /\ pc' = IF pc = "husk" THEN "shut down" ELSE "shut down dying"
      /\ child' = [c \in Children |-> IF child[c] = "live" THEN "husk" ELSE child[c]]
  BY DEF MakeHusks, spinVars, serverVars, threadVars
<1>2. remotes = {} /\ Live = {} /\ server = Null
  BY <1>1 DEF OrderlyInv, NodeOK, Stopping
<1>3. \A c \in Children : child[c] # "live" /\ child'[c] = child[c]
  BY <1>1, <1>2 DEF Live
<1>4. NothingDangles'
  BY <1>3 DEF MakeHusks, Faults, OrderlyInv, NothingDangles
<1>5. Live' = {}
  BY <1>3 DEF Live
<1>6. NodeOK'
  BY <1>1, <1>2, <1>3, <1>5 DEF OrderlyInv, NodeOK, Stopping, HasNode
<1>7. ClientsOK'
  BY <1>1 DEF OrderlyInv, ClientsOK
<1>8. FreshOK'
  BY <1>1, <1>2 DEF FreshOK, Fresh
<1>9. MailboxesExact'
  BY <1>1, <1>2, <1>5 DEF OrderlyInv, MailboxesExact, Live
<1> QED BY <1>1, <1>4, <1>6, <1>7, <1>8, <1>9, Frames DEF OrderlyInv

LEMMA ShutDownOrderly ==
  ASSUME OrderlyInv, TypeInv', ShutDown
  PROVE  OrderlyInv'
<1>1. /\ UNCHANGED <<server, mailboxes, child, listening, observed, clients, ended, todo,
                     thread, at, ci, calling>>
      /\ watched' = watched \ remotes /\ remotes' = {} /\ pc' = "user"
      /\ pc \in {"shut down", "shut down dying"}
      /\ sock' = [l \in Links |-> IF l \in remotes THEN "deleted" ELSE sock[l]]
      /\ fault' = (fault \/ \E l \in remotes : sock[l] = "deleted")
  BY DEF ShutDown, WatchedNoMore, serverVars, threadVars, Faults
<1>2. remotes = {} /\ Live = {} /\ server = Null
  BY <1>1 DEF OrderlyInv, NodeOK, Stopping
<1>3. ListsOK' /\ (alive' = alive \/ alive' = alive \ {Node})
  <2>1. CASE UNCHANGED spinVars
    BY <2>1, Frames DEF spinVars
  <2>2. CASE pc = "shut down dying" /\ Destruct(Node)
    <3>1. ~Contains(toAdd, Node)
      BY <2>2 DEF OrderlyInv, NodeOK
    <3>2. alive' = alive \ {Node}
      BY <2>2 DEF Destruct
    <3> QED BY <2>2, <3>1, <3>2, DestructLists, ConstantFacts DEF OrderlyInv, TypeInv
  <2> QED BY <1>1, <2>1, <2>2 DEF ShutDown
<1>4. LinksOK'
  <2>1. alive' \cap Links = alive \cap Links
    BY <1>3, ConstantFacts
  <2> QED BY <1>1, <1>2, <2>1 DEF OrderlyInv, LinksOK
<1>5. ServerOK'
  BY <1>1, <1>2 DEF OrderlyInv, ServerOK
<1>6. NodeOK'
  BY <1>1, <1>2 DEF OrderlyInv, NodeOK, Stopping, Live
<1>7. ClientsOK'
  <2>1. \A v \in Servers : clients[v] = <<>>
    BY <1>2, NoServerNoClients DEF OrderlyInv, TypeInv
  <2>2. \A v \in Servers : clients'[v] = <<>>
    BY <1>1, <2>1
  <2> QED BY <2>2, NoClientsNext
<1>8. FreshOK'
  BY <1>1, <1>2 DEF FreshOK, Fresh
<1>9. MailboxesExact'
  BY <1>1, <1>2 DEF OrderlyInv, MailboxesExact
<1>10. NothingDangles'
  BY <1>1, <1>2 DEF OrderlyInv, NothingDangles
<1> QED BY <1>3, <1>4, <1>5, <1>6, <1>7, <1>8, <1>9, <1>10 DEF OrderlyInv

LEMMA ChildOrderly ==
  ASSUME OrderlyInv, CallingOK, TypeInv', Liberties = {},
         NEW c \in Children, CreateChild(c) \/ DestroyChild(c)
  PROVE  OrderlyInv'
<1>1. /\ UNCHANGED <<alive, spinetts, toAdd, server, remotes, listening, observed, clients,
                     sock, ended, watched, todo, thread, pc, at, ci, calling>>
      /\ pc = "user" \/ pc = "spin"
  BY DEF CreateChild, DestroyChild, UserCalls, CallingOK, spinVars, serverVars, threadVars,
     userVars
<1>2. child \in [Children -> {"none", "live", "husk"}] /\ child[c] # "husk"
  BY Types DEF OrderlyInv, TypeInv, NodeOK
<1>3. mailboxes \ {Node} = remotes \cup Live /\ c # Node /\ c \notin remotes /\ ~fault
      /\ remotes \in SUBSET Links /\ Live \in SUBSET Children /\ watched = remotes
  <2>1. mailboxes \ {Node} = remotes \cup Live /\ ~fault /\ watched = remotes
    BY DEF OrderlyInv, MailboxesExact, Live, NothingDangles, LinksOK
  <2>2. remotes \in SUBSET Links /\ Live \in SUBSET Children
    BY DEF OrderlyInv, TypeInv, TypeOK, Live
  <2>3. c # Node /\ c \notin Links
    BY ConstantFacts
  <2> QED BY <2>1, <2>2, <2>3
<1>4. CASE CreateChild(c)
  <2>1. /\ HasNode /\ child' = [child EXCEPT ![c] = "live"]
        /\ fault' = (fault \/ InfoFails(mailboxes, watched)) /\ mailboxes' = mailboxes \cup {c}
    BY <1>4 DEF CreateChild, Faults
  <2>2. Live' = Live \cup {c} /\ \A d \in Children : child'[d] # "husk"
    BY <1>2, <2>1 DEF Live, OrderlyInv, NodeOK
  <2>3. NodeOK'
    BY <1>1, <2>1, <2>2 DEF OrderlyInv, NodeOK, Stopping, HasNode
  <2>4. mailboxes' \ {Node} = remotes' \cup Live'
    BY <1>1, <1>3, <2>1, <2>2
  <2>5. MailboxesExact'
    BY <2>4 DEF MailboxesExact, Live
  <2>6. NothingDangles'
    BY <1>3, <2>1, InfoSucceeds DEF NothingDangles
  <2> QED BY <1>1, <2>3, <2>5, <2>6, Frames DEF OrderlyInv
<1>5. CASE DestroyChild(c)
  <2>1. child[c] = "live" /\ c \in Live
    BY <1>2, <1>5 DEF DestroyChild, Live
  <2>2. /\ child' = [child EXCEPT ![c] = "none"] /\ mailboxes' = mailboxes \ {c}
        /\ fault' = (fault \/ UnregisterFails(c) \/ ~HasNode)
    BY <1>5, <2>1 DEF DestroyChild, Faults, WithoutMailbox
  <2>3. HasNode /\ c \in mailboxes
    BY <1>3, <2>1 DEF OrderlyInv, NodeOK
  <2>4. Live' = Live \ {c} /\ \A d \in Children : child'[d] # "husk"
    BY <1>2, <2>2 DEF Live, OrderlyInv, NodeOK
  <2>5. NodeOK'
    BY <1>1, <2>3, <2>4 DEF OrderlyInv, NodeOK, Stopping, HasNode
  <2>6. mailboxes' \ {Node} = remotes' \cup Live'
    BY <1>1, <1>3, <2>2, <2>4
  <2>7. MailboxesExact'
    BY <2>6 DEF MailboxesExact, Live
  <2>8. NothingDangles'
    BY <1>3, <2>2, <2>3 DEF UnregisterFails, NothingDangles
  <2> QED BY <1>1, <2>5, <2>7, <2>8, Frames DEF OrderlyInv
<1> QED BY <1>4, <1>5

(* Who is called is subscribed, and alive. *)
LEMMA CallOrderly ==
  ASSUME OrderlyInv, CallingOK, TypeInv', NEW c \in Subscribers, CallBack(c) \/ Return(c)
  PROVE  OrderlyInv'
<1>1. UNCHANGED <<alive, spinetts, toAdd, server, remotes, mailboxes, child, listening,
                  observed, clients, sock, ended, watched, todo, thread, pc, at, ci>>
  BY DEF CallBack, Return, spinVars, nodeVars, serverVars, threadVars
<1>2. ~fault
  BY DEF OrderlyInv, NothingDangles
<1>3. CASE CallBack(c)
  <2>1. c \in mailboxes /\ fault' = (fault \/ child[c] # "live")
    BY <1>3 DEF CallBack, Faults
  <2>2. mailboxes \ {Node} = remotes \cup Live /\ remotes \subseteq Links
    BY DEF OrderlyInv, MailboxesExact, Live, TypeInv, TypeOK
  <2>3. c # Node /\ c \notin Links
    BY ConstantFacts DEF Children
  <2>4. child[c] = "live"
    BY <2>1, <2>2, <2>3 DEF Live
  <2>5. NothingDangles'
    BY <1>2, <2>1, <2>4 DEF NothingDangles
  <2> QED BY <1>1, <2>5, Frames DEF OrderlyInv
<1>4. CASE Return(c)
  <2>1. calling # <<>> /\ Last(calling) = c /\ fault' = (fault \/ c \notin mailboxes)
    BY <1>4 DEF Return, Faults
  <2>2. calling \in Seq(Subscribers)
    BY DEF OrderlyInv, TypeInv, TypeOK
  <2>3. Len(calling) \in 1..Len(calling) /\ Last(calling) = calling[Len(calling)]
    BY <2>1, <2>2, FrontFacts
  <2>4. c \in mailboxes
    BY <2>1, <2>3 DEF CallingOK
  <2>5. NothingDangles'
    BY <1>2, <2>1, <2>4 DEF NothingDangles
  <2> QED BY <1>1, <2>5, Frames DEF OrderlyInv
<1> QED BY <1>3, <1>4

LEMMA CallsOrderly ==
  ASSUME OrderlyInv, CallingOK, TypeInv', Liberties = {}, Calls
  PROVE  OrderlyInv'
BY CreateNodeOrderly, JoinOrderly, StopOrderly, MakeHusksOrderly, ShutDownOrderly,
   StartGatewayOrderly, ChildOrderly, CallOrderly DEF Calls

-----------------------------------------------------------------------------
(* A spin. *)

(* The user thread moves on within a spin. *)
LEMMA MovesOn ==
  ASSUME OrderlyInv, pc' \in {"user", "spin", "check", "notify"}, pc # "delete",
         UNCHANGED <<clients, server, remotes, child, alive>>
  PROVE  NodeOK' /\ ClientsOK'
<1>1. ~Stopping' /\ pc' \notin {"join", "husk of dying", "shut down dying"} /\ pc' # "delete"
  BY DEF Stopping
<1>2. NodeOK'
  BY <1>1 DEF OrderlyInv, NodeOK, Live, HasNode
<1>3. ClientsOK'
  BY <1>1 DEF OrderlyInv, ClientsOK
<1> QED BY <1>2, <1>3

(* The server's turn stays over until the spin ends. *)
LEMMA TurnKept ==
  ASSUME TypeOK, TurnOver, at' \in Nat, at' >= at, server' = server, InServer' \/ pc' = "spin",
         Len(spinetts') = Len(spinetts),
         \A k \in 1..Len(spinetts) : spinetts[k] = server => spinetts'[k] = server
  PROVE  TurnOver'
<1>1. at \in Nat /\ Len(spinetts) \in Nat
  BY Types
<1>2. PICK k \in 1..(at - 1) : k <= Len(spinetts) /\ spinetts[k] = server
  BY DEF TurnOver
<1>3. k \in Nat /\ 1 <= k /\ k <= at - 1 /\ k <= Len(spinetts)
  BY <1>1, <1>2
<1>4. k \in 1..(at' - 1)
  <2>1. ASSUME NEW i \in Nat, NEW m \in Nat, NEW n \in Nat, m >= n, 1 <= i, i <= n - 1
        PROVE  i \in 1..(m - 1)
    BY <2>1
  <2> QED BY <1>1, <1>3, <2>1
<1>5. k \in 1..Len(spinetts)
  BY <1>1, <1>3
<1>6. spinetts'[k] = server' /\ k <= Len(spinetts')
  BY <1>2, <1>5
<1> QED BY <1>4, <1>6 DEF TurnOver

(* The user thread goes on to the next place in the list. *)
LEMMA SpinPastOrderly ==
  ASSUME OrderlyInv, TypeInv', at' = at + 1, pc = "spin", NothingDangles',
         UNCHANGED <<spinVars, nodeVars, serverVars, sock, ended, watched, threadVars,
                     pc, ci, calling>>
  PROVE  OrderlyInv'
<1>1. UNCHANGED <<alive, spinetts, toAdd, server, remotes, mailboxes, child, listening,
                  observed,
                  clients, sock, ended, watched, todo, thread, pc, ci, calling>>
  BY DEF spinVars, nodeVars, serverVars, threadVars
<1>2. FreshOK'
  <2>1. ASSUME Fresh' PROVE TurnOver'
    <3>1. Fresh
      BY <1>1, <2>1 DEF Fresh
    <3>2. TurnOver
      BY <3>1 DEF OrderlyInv, FreshOK, Accepting
    <3>3. at' \in Nat /\ at' >= at
      BY Types DEF OrderlyInv, TypeInv
    <3> QED BY <1>1, <3>2, <3>3, TurnKept DEF OrderlyInv, TypeInv
  <2> QED BY <2>1 DEF FreshOK
<1> QED BY <1>1, <1>2, MovesOn, Frames DEF OrderlyInv

(* What is spun is alive. *)
LEMMA SpunIsAlive ==
  ASSUME OrderlyInv, NEW o, o # Null, Spins(o)
  PROVE  o \in alive
<1>1. at \in 1..Len(spinetts) /\ spinetts[at] = o
  BY Types DEF Spins, OrderlyInv, TypeInv, SpinOK
<1> QED BY <1>1, ListsFacts DEF OrderlyInv, TypeInv

LEMMA SpinNoServerOrderly ==
  ASSUME OrderlyInv, TypeInv', SpinNull \/ SpinNode \/ \E l \in Links : SpinRemote(l)
  PROVE  OrderlyInv'
<1> USE DEF NothingDangles
<1>1. CASE SpinNull
  <2>1. NothingDangles'
    BY <1>1 DEF SpinNull, Faults, Skips, OrderlyInv
  <2> QED BY <1>1, <2>1, SpinPastOrderly DEF SpinNull, Spins
<1>2. CASE SpinNode
  <2>1. HasNode
    BY <1>2, SpunIsAlive, ConstantFacts DEF SpinNode, HasNode
  <2>2. NothingDangles'
    BY <1>2, <2>1 DEF SpinNode, Faults, OrderlyInv
  <2> QED BY <1>2, <2>2, SpinPastOrderly DEF SpinNode, Spins
<1>3. ASSUME NEW l \in Links, SpinRemote(l) PROVE OrderlyInv'
  <2>1. l \in alive
    BY <1>3, SpunIsAlive, ConstantFacts DEF SpinRemote
  <2>2. l \in remotes
    BY <2>1 DEF OrderlyInv, LinksOK
  <2>3. NothingDangles'
    BY <1>3, <2>1, <2>2 DEF SpinRemote, Faults, OrderlyInv
  <2> QED BY <1>3, <2>3, SpinPastOrderly DEF SpinRemote, Spins
<1> QED BY <1>1, <1>2, <1>3

LEMMA BeginSpinOrderly ==
  ASSUME OrderlyInv, TypeInv', BeginSpin
  PROVE  OrderlyInv'
<1>1. /\ UNCHANGED <<alive, spinetts, toAdd, server, remotes, mailboxes, child, listening,
                     observed, clients, sock, ended, watched, todo, thread, ci, calling, fault>>
      /\ pc = "user" /\ pc' = "spin"
  BY DEF BeginSpin, IsFree, spinVars, nodeVars, serverVars, threadVars
<1>2. ~Fresh
  BY <1>1, NothingFresh DEF InServer
<1>3. FreshOK'
  <2>1. ~Fresh'
    BY <1>1, <1>2 DEF Fresh
  <2> QED BY <2>1 DEF FreshOK
<1> QED BY <1>1, <1>3, MovesOn, Frames DEF OrderlyInv

LEMMA SpinServerOrderly ==
  ASSUME OrderlyInv, TypeInv', NEW v \in Servers, SpinServer(v)
  PROVE  OrderlyInv'
<1>1. /\ UNCHANGED <<alive, spinetts, toAdd, server, remotes, mailboxes, child, listening,
                     observed, clients, sock, ended, watched, todo, thread, at, calling>>
      /\ pc = "spin" /\ pc' = "check"
  BY DEF SpinServer, Spins, spinVars, nodeVars, serverVars, threadVars
<1>2. v \in alive
  BY SpunIsAlive, ConstantFacts DEF SpinServer
<1>3. NothingDangles'
  BY <1>2 DEF SpinServer, Faults, OrderlyInv, NothingDangles
<1>4. FreshOK'
  <2>1. ASSUME Fresh' PROVE TurnOver'
    <3>1. Fresh
      BY <1>1, <2>1 DEF Fresh
    <3>2. TurnOver
      BY <1>1, <3>1 DEF OrderlyInv, FreshOK, Accepting
    <3>3. at' \in Nat /\ at' >= at
      BY <1>1, Types DEF OrderlyInv, TypeInv
    <3>4. InServer'
      BY <1>1 DEF InServer
    <3> QED BY <1>1, <3>2, <3>3, <3>4, TurnKept DEF OrderlyInv, TypeInv
  <2> QED BY <2>1 DEF FreshOK
<1> QED BY <1>1, <1>3, <1>4, MovesOn, Frames DEF OrderlyInv

LEMMA CheckClientOrderly ==
  ASSUME OrderlyInv, TypeInv', CheckClient
  PROVE  OrderlyInv'
<1>1. /\ UNCHANGED <<alive, spinetts, toAdd, server, remotes, mailboxes, child, listening,
                     observed, clients, sock, ended, watched, todo, thread, at, calling>>
      /\ pc = "check" /\ pc' \in {"check", "notify"} /\ ~AllSeen
      /\ fault' = (fault \/ sock[Client] = "deleted")
  BY DEF CheckClient, Faults, spinVars, nodeVars, serverVars, threadVars
<1>2. InServer /\ InServer'
  BY <1>1 DEF InServer
<1>3. Spun \in Servers /\ ci \in 1..Len(clients[Spun]) /\ Client = clients[Spun][ci]
      /\ Len(clients[Spun]) \in Nat
  BY <1>1, <1>2, StandsAt DEF OrderlyInv, TypeInv
<1>4. NothingDangles'
  <2>1. Client \in remotes
    BY <1>1, <1>3 DEF OrderlyInv, ClientsOK
  <2>2. sock[Client] # "deleted"
    BY <2>1 DEF OrderlyInv, LinksOK
  <2> QED BY <1>1, <2>2 DEF OrderlyInv, NothingDangles
<1>5. ~Accepting
  BY <1>3 DEF Accepting, Spun
<1>6. FreshOK'
  <2>1. ASSUME Fresh' PROVE TurnOver'
    <3>1. Fresh
      BY <1>1, <2>1 DEF Fresh
    <3>2. TurnOver
      BY <1>5, <3>1 DEF OrderlyInv, FreshOK
    <3>3. at' \in Nat /\ at' >= at
      BY <1>1, Types DEF OrderlyInv, TypeInv
    <3> QED BY <1>1, <1>2, <3>2, <3>3, TurnKept DEF OrderlyInv, TypeInv
  <2> QED BY <2>1 DEF FreshOK
<1> QED BY <1>1, <1>4, <1>6, MovesOn, Frames DEF OrderlyInv

(* The server has one turn. *)
LEMMA InTurn ==
  ASSUME OrderlyInv, at \in 1..Len(spinetts), spinetts[at] = server, server # Null
  PROVE  ~TurnOver
<1> SUFFICES ASSUME TurnOver PROVE FALSE
  OBVIOUS
<1>1. PICK k \in 1..(at - 1) : k <= Len(spinetts) /\ spinetts[k] = server
  BY DEF TurnOver
<1>2. at \in Nat /\ Len(spinetts) \in Nat
  BY Types DEF OrderlyInv, TypeInv
<1>3. k \in 1..Len(spinetts) /\ k # at
  BY <1>1, <1>2
<1>4. k = at
  BY <1>1, <1>3, ListsFacts DEF OrderlyInv, TypeInv
<1> QED BY <1>3, <1>4

(* The node forgets the client whose other end has ended. *)
LEMMA NotifyOrderly ==
  ASSUME OrderlyInv, TypeInv', Notify
  PROVE  OrderlyInv'
<1>1. /\ UNCHANGED <<server, child, listening, observed, clients, ended, todo, thread,
                     at, ci, calling>>
      /\ pc = "notify" /\ pc' = "delete"
  BY DEF Notify, serverVars, threadVars
<1>2. InServer /\ InServer'
  BY <1>1 DEF InServer
<1>3. /\ Spun \in Servers /\ ci \in 1..Len(clients[Spun]) /\ Client = clients[Spun][ci]
      /\ Client \in Accepted /\ at \in 1..Len(spinetts) /\ Len(clients[Spun]) \in Nat
  BY <1>1, <1>2, StandsAt DEF OrderlyInv, TypeInv
<1>4. Spun = server /\ Spun \in observed /\ server # Null /\ spinetts[at] = server
  BY <1>2, <1>3, SpunFacts DEF OrderlyInv
<1>5. Client \in remotes
  BY <1>1, <1>3 DEF OrderlyInv, ClientsOK
<1>6. Client \in Links /\ Client \in Spinetts /\ Client # Node /\ Client # server
      /\ Client \notin Children /\ Client # Null
  BY <1>3, <1>4, ConstantFacts
<1>7. /\ thread # "pass" /\ mailboxes' = mailboxes \ {Client} /\ watched' = watched \ {Client}
      /\ remotes' = remotes \ {Client} /\ Destruct(Client)
      /\ fault' = (fault \/ UnregisterFails(Client) \/ InfoFails(mailboxes', watched'))
      /\ sock' = [sock EXCEPT ![Client] = "closed"]
  BY <1>4, <1>5 DEF Notify, HoldsMut, WithoutMailbox, WatchedNoMore, Faults
<1>8. /\ alive' = alive \ {Client} /\ toAdd' = toAdd
      /\ spinetts' = Unregistered(spinetts, Client)
  BY <1>7 DEF Destruct
<1>9. Fresh => TurnOver
  BY <1>1 DEF OrderlyInv, FreshOK, Accepting
<1>10. ~TurnOver
  BY <1>3, <1>4, InTurn
<1>11. ~Contains(toAdd, Client)
  BY <1>3, <1>4, <1>9, <1>10 DEF Fresh
<1>12. ListsOK'
  BY <1>6, <1>7, <1>11, DestructLists DEF OrderlyInv, TypeInv
<1>13. \A l \in Links : sock'[l] = IF l = Client THEN "closed" ELSE sock[l]
  BY <1>7, Types DEF OrderlyInv, TypeInv
<1>14. LinksOK'
  <2>1. alive' \cap Links = remotes' /\ watched' = remotes'
    BY <1>7, <1>8 DEF OrderlyInv, LinksOK
  <2>2. todo' = {}
    BY <1>1, <1>7 DEF OrderlyInv, LinksOK
  <2>3. Gateway \notin ended'
    BY <1>1 DEF OrderlyInv, LinksOK
  <2>4. \A l \in remotes' : l \in Links /\ l \in remotes
    BY <1>7 DEF OrderlyInv, TypeInv, TypeOK
  <2>5. \A l \in remotes' : sock'[l] \in {"open", "closed"}
    BY <1>13, <2>4 DEF OrderlyInv, LinksOK
  <2> QED BY <2>1, <2>2, <2>3, <2>5 DEF LinksOK
<1>15. ServerOK'
  BY <1>1, <1>6, <1>8 DEF OrderlyInv, ServerOK
<1>16. NodeOK'
  <2>1. HasNode'
    BY <1>4, <1>6, <1>8 DEF OrderlyInv, NodeOK, HasNode
  <2>2. ~Stopping' /\ pc' \notin {"husk of dying", "shut down dying"}
    BY <1>1 DEF Stopping
  <2> QED BY <1>1, <2>1, <2>2 DEF OrderlyInv, NodeOK
<1>17. ClientsOK'
  <2>1. \A v \in Servers : clients'[v] # <<>> => v = server'
    BY <1>1 DEF OrderlyInv, ClientsOK
  <2>2. \A v \in Servers : \A i, j \in 1..Len(clients'[v]) :
          clients'[v][i] = clients'[v][j] => i = j
    BY <1>1 DEF OrderlyInv, ClientsOK
  <2>3. ASSUME NEW v \in Servers, NEW i \in 1..Len(clients[v]), i # ci
        PROVE  clients[v][i] \in remotes'
    <3>1. clients[v][i] \in remotes
      BY <1>1 DEF OrderlyInv, ClientsOK
    <3>2. v = server
      <4>1. clients[v] # <<>>
        <5>1. Len(<<>>) = 0
          OBVIOUS
        <5> QED BY <5>1
      <4> QED BY <4>1 DEF OrderlyInv, ClientsOK
    <3>3. clients[v][i] # Client
      BY <1>3, <1>4, <2>3, <3>2 DEF OrderlyInv, ClientsOK
    <3> QED BY <1>7, <3>1, <3>3
  <2>4. ASSUME NEW v \in Servers, NEW i \in 1..Len(clients[v]), i = ci
        PROVE  clients[v][i] \notin remotes' /\ sock'[clients[v][i]] = "closed"
    <3>1. v = server
      <4>1. clients[v] # <<>>
        <5>1. Len(<<>>) = 0
          OBVIOUS
        <5> QED BY <5>1
      <4> QED BY <4>1 DEF OrderlyInv, ClientsOK
    <3>2. clients[v][i] = Client
      BY <1>3, <1>4, <2>4, <3>1
    <3> QED BY <1>6, <1>7, <1>13, <3>2
  <2>5. \A v \in Servers : \A i \in 1..Len(clients'[v]) :
          /\ ~(pc' = "delete" /\ i = ci') => clients'[v][i] \in remotes'
          /\ pc' = "delete" /\ i = ci' =>
               clients'[v][i] \notin remotes' /\ sock'[clients'[v][i]] = "closed"
    BY <1>1, <2>3, <2>4
  <2> QED BY <2>1, <2>2, <2>5 DEF ClientsOK
<1>18. FreshOK'
  <2>1. ~Fresh'
    BY <1>1, <1>8, <1>9, <1>10 DEF Fresh
  <2> QED BY <2>1 DEF FreshOK
<1>19. mailboxes \ {Node} = remotes \cup Live /\ ~fault /\ Live \in SUBSET Children
       /\ watched = remotes /\ remotes \in SUBSET Links
  <2>1. mailboxes \ {Node} = remotes \cup Live
    BY DEF OrderlyInv, MailboxesExact, Live
  <2> QED BY <2>1 DEF OrderlyInv, NothingDangles, LinksOK, TypeInv, TypeOK, Live
<1>20. mailboxes' \ {Node} = remotes' \cup Live
  <2>1. Client \notin Live
    BY <1>6 DEF Live
  <2> QED BY <1>7, <1>19, <2>1
<1>21. MailboxesExact'
  BY <1>1, <1>20 DEF MailboxesExact, Live
<1>22. NothingDangles'
  <2>1. ~UnregisterFails(Client)
    BY <1>5, <1>6, <1>19 DEF UnregisterFails
  <2>2. remotes' \in SUBSET Links /\ watched' = remotes'
    BY <1>7, <1>19
  <2>3. ~InfoFails(mailboxes', watched')
    BY <1>19, <1>20, <2>2, InfoSucceeds
  <2> QED BY <1>7, <1>19, <2>1, <2>3 DEF NothingDangles
<1> QED BY <1>12, <1>14, <1>15, <1>16, <1>17, <1>18, <1>21, <1>22 DEF OrderlyInv

LEMMA RemovedElements ==
  ASSUME NEW S, NEW s \in Seq(S), NEW k \in 1..Len(s),
         \A i, j \in 1..Len(s) : s[i] = s[j] => i = j
  PROVE  /\ \A j \in 1..Len(RemoveAt(s, k)) :
              \E i \in 1..Len(s) : i # k /\ RemoveAt(s, k)[j] = s[i]
         /\ \A i, j \in 1..Len(RemoveAt(s, k)) :
              RemoveAt(s, k)[i] = RemoveAt(s, k)[j] => i = j
<1> DEFINE r == RemoveAt(s, k)
<1>1. /\ Len(r) = Len(s) - 1
      /\ \A j \in 1..(Len(s) - 1) : r[j] = IF j < k THEN s[j] ELSE s[j + 1]
  BY RemoveAtFacts
<1>2. Len(s) \in Nat
  BY LenProperties
<1> HIDE DEF r
<1>3. ASSUME NEW j \in 1..Len(r)
      PROVE  \E i \in 1..Len(s) : i # k /\ r[j] = s[i] /\ (IF j < k THEN i = j ELSE i = j + 1)
  <2>1. CASE j < k
    BY <1>1, <1>2, <2>1
  <2>2. CASE ~(j < k)
    <3>1. j + 1 \in 1..Len(s) /\ r[j] = s[j + 1] /\ j + 1 # k
      BY <1>1, <1>2, <2>2
    <3> QED BY <2>2, <3>1
  <2> QED BY <2>1, <2>2
<1>4. ASSUME NEW i \in 1..Len(r), NEW j \in 1..Len(r), r[i] = r[j]
      PROVE  i = j
  <2>1. PICK a \in 1..Len(s) : r[i] = s[a] /\ (IF i < k THEN a = i ELSE a = i + 1)
    BY <1>3
  <2>2. PICK b \in 1..Len(s) : r[j] = s[b] /\ (IF j < k THEN b = j ELSE b = j + 1)
    BY <1>3
  <2>3. a = b
    BY <1>4, <2>1, <2>2
  <2>4. i \in Nat /\ j \in Nat /\ k \in Nat
    BY <1>1, <1>2
  <2> QED BY <2>1, <2>2, <2>3, <2>4
<1> QED BY <1>3, <1>4 DEF r

LEMMA DeleteClientOrderly ==
  ASSUME OrderlyInv, TypeInv', DeleteClient
  PROVE  OrderlyInv'
<1>1. /\ UNCHANGED <<alive, spinetts, toAdd, server, remotes, mailboxes, child, listening,
                     observed, ended, watched, todo, thread, at, ci, calling, fault>>
      /\ pc = "delete" /\ pc' = "check"
      /\ sock' = [sock EXCEPT ![Client] = "deleted"]
      /\ clients' = [clients EXCEPT ![Spun] = RemoveAt(@, ci)]
  BY DEF DeleteClient, spinVars, nodeVars, threadVars
<1>2. InServer
  BY <1>1 DEF InServer
<1>3. /\ Spun \in Servers /\ ci \in 1..Len(clients[Spun]) /\ Client = clients[Spun][ci]
      /\ clients[Spun] \in Seq(Accepted) /\ at \in 1..Len(spinetts)
  BY <1>1, <1>2, StandsAt DEF OrderlyInv, TypeInv
<1>4. Spun = server /\ server # Null /\ spinetts[at] = server
  BY <1>2, <1>3, SpunFacts DEF OrderlyInv
<1>5. Client \notin remotes
  BY <1>1, <1>3 DEF OrderlyInv, ClientsOK
<1> DEFINE r == RemoveAt(clients[server], ci)
<1>6. /\ clients'[server] = r
      /\ \A v \in Servers : v # server => clients'[v] = clients[v]
  <2>1. clients \in [Servers -> Seq(Accepted)]
    BY Types DEF OrderlyInv, TypeInv
  <2> QED BY <1>1, <1>3, <1>4, <2>1
<1>7. /\ \A j \in 1..Len(r) :
           \E i \in 1..Len(clients[server]) : i # ci /\ r[j] = clients[server][i]
      /\ \A i, j \in 1..Len(r) : r[i] = r[j] => i = j
  <2>1. clients[server] \in Seq(Accepted) /\ ci \in 1..Len(clients[server])
    BY <1>3, <1>4
  <2>2. \A i, j \in 1..Len(clients[server]) : clients[server][i] = clients[server][j] => i = j
    BY <1>3, <1>4 DEF OrderlyInv, ClientsOK
  <2> QED BY <2>1, <2>2, RemovedElements
<1> HIDE DEF r
<1>8. \A v \in Servers : v # server => clients'[v] = <<>>
  BY <1>6 DEF OrderlyInv, ClientsOK
<1>9. LinksOK'
  <2>1. \A l \in remotes : sock'[l] = sock[l]
    <3>1. \A l \in Links : l # Client => sock'[l] = sock[l]
      BY <1>1, Types DEF OrderlyInv, TypeInv
    <3> QED BY <1>5, <3>1 DEF OrderlyInv, TypeInv, TypeOK
  <2> QED BY <1>1, <2>1 DEF OrderlyInv, LinksOK
<1>10. NodeOK'
  BY <1>1 DEF OrderlyInv, NodeOK, Live, HasNode, Stopping
<1>11. ClientsOK'
  <2>1. Len(<<>>) = 0
    OBVIOUS
  <2>2. \A v \in Servers : \A i \in 1..Len(clients'[v]) : v = server
    BY <1>8, <2>1
  <2>3. \A v \in Servers : clients'[v] # <<>> => v = server'
    BY <1>1, <1>8
  <2>4. \A v \in Servers : \A i, j \in 1..Len(clients'[v]) :
          clients'[v][i] = clients'[v][j] => i = j
    BY <1>6, <1>7, <2>2
  <2>5. \A i \in 1..Len(r) : r[i] \in remotes
    <3> TAKE j \in 1..Len(r)
    <3>1. PICK i \in 1..Len(clients[server]) : i # ci /\ r[j] = clients[server][i]
      BY <1>7
    <3>2. clients[server][i] \in remotes
      BY <1>3, <1>4, <3>1 DEF OrderlyInv, ClientsOK
    <3> QED BY <3>1, <3>2
  <2>6. \A v \in Servers : \A i \in 1..Len(clients'[v]) : clients'[v][i] \in remotes'
    BY <1>1, <1>6, <2>2, <2>5
  <2>7. pc' # "delete"
    BY <1>1
  <2> QED BY <2>3, <2>4, <2>6, <2>7 DEF ClientsOK
<1>12. FreshOK'
  <2>1. ~Fresh
    <3>1. ~TurnOver /\ ~Accepting
      BY <1>1, <1>3, <1>4, InTurn DEF Accepting
    <3> QED BY <3>1 DEF OrderlyInv, FreshOK
  <2>2. ASSUME NEW j \in 1..Len(r) PROVE ~Contains(toAdd, r[j])
    <3>1. PICK i \in 1..Len(clients[server]) : i # ci /\ r[j] = clients[server][i]
      BY <1>7
    <3> QED BY <1>4, <2>1, <3>1 DEF Fresh
  <2>3. ~Fresh'
    BY <1>1, <1>6, <2>2 DEF Fresh
  <2> QED BY <2>3 DEF FreshOK
<1> QED BY <1>1, <1>9, <1>10, <1>11, <1>12, Frames DEF OrderlyInv

(* The server accepts a connection: its link is in no list before. *)
LEMMA AcceptOrderly ==
  ASSUME OrderlyInv, TypeInv', NEW l \in Links, Accept(l)
  PROVE  OrderlyInv'
<1>1. /\ UNCHANGED <<spinetts, server, child, listening, observed, ended, todo, thread,
                     pc, at, calling>>
      /\ clients' = [clients EXCEPT ![Spun] = Append(@, l)] /\ ci' = ci + 1
      /\ sock' = [sock EXCEPT ![l] = "open"] /\ sock[l] = "waiting" /\ AddRemote(l)
      /\ pc = "check" /\ AllSeen /\ Spun \in listening
  BY DEF Accept, threadVars
<1>2. InServer
  BY <1>1 DEF InServer
<1>3. /\ Spun \in Servers /\ Spun = spinetts[at] /\ clients[Spun] \in Seq(Accepted)
      /\ Len(clients[Spun]) \in Nat /\ ci \in Nat
  BY <1>2, StandsAt, Types DEF OrderlyInv, TypeInv
<1>4. Spun = server /\ server # Null
  BY <1>1, <1>3 DEF OrderlyInv, ServerOK
<1>5. l \in Accepted
  BY <1>1, LifecycleAssumption DEF OrderlyInv, TypeInv, Links
<1>6. l \notin remotes /\ l \notin alive
  BY <1>1 DEF OrderlyInv, LinksOK
<1>7. ListsOK' /\ LinksOK' /\ MailboxesExact' /\ NothingDangles'
  BY <1>1, <1>6, AddRemoteOrderly
<1>8. alive' = alive \cup {l} /\ remotes' = remotes \cup {l}
  BY <1>1 DEF AddRemote, Construct
<1>9. ServerOK'
  BY <1>1, <1>8 DEF OrderlyInv, ServerOK
<1>10. NodeOK'
  <2>1. HasNode'
    BY <1>4, <1>8 DEF OrderlyInv, NodeOK, HasNode
  <2>2. ~Stopping' /\ pc' \notin {"husk of dying", "shut down dying"}
    BY <1>1 DEF Stopping
  <2> QED BY <1>1, <2>1, <2>2 DEF OrderlyInv, NodeOK
<1> DEFINE c == clients[server]
<1>11. c \in Seq(Accepted) /\ Len(c) \in Nat
  BY <1>3, <1>4
<1> DEFINE a == Append(c, l)
<1>12. /\ Len(a) = Len(c) + 1 /\ a[Len(c) + 1] = l
       /\ \A i \in 1..Len(c) : a[i] = c[i]
  BY <1>5, <1>11, AppendFacts
<1>13. clients'[server] = a /\ \A v \in Servers : v # server => clients'[v] = clients[v]
  <2>1. clients \in [Servers -> Seq(Accepted)]
    BY Types DEF OrderlyInv, TypeInv
  <2> QED BY <1>1, <1>3, <1>4, <2>1
<1> HIDE DEF a
<1>14. /\ \A i \in 1..Len(c) : c[i] \in remotes /\ c[i] # l
       /\ \A i, j \in 1..Len(c) : c[i] = c[j] => i = j
  BY <1>1, <1>3, <1>4, <1>6 DEF OrderlyInv, ClientsOK
<1> HIDE DEF c
<1>15. \A i \in 1..Len(a) : i \in 1..Len(c) \/ i = Len(c) + 1
  BY <1>11, <1>12
<1>16. \A i \in 1..Len(a) : a[i] \in remotes'
  BY <1>8, <1>12, <1>14, <1>15
<1>17. \A i, j \in 1..Len(a) : a[i] = a[j] => i = j
  BY <1>12, <1>14, <1>15
<1>18. ClientsOK'
  <2>1. \A v \in Servers : v # server => clients'[v] = <<>>
    BY <1>13 DEF OrderlyInv, ClientsOK
  <2>2. Len(<<>>) = 0
    OBVIOUS
  <2>3. \A v \in Servers : \A i \in 1..Len(clients'[v]) : v = server
    BY <2>1, <2>2
  <2>4. \A v \in Servers : clients'[v] # <<>> => v = server'
    BY <1>1, <2>1
  <2>5. \A v \in Servers : \A i, j \in 1..Len(clients'[v]) :
          clients'[v][i] = clients'[v][j] => i = j
    BY <1>13, <1>17, <2>3
  <2>6. \A v \in Servers : \A i \in 1..Len(clients'[v]) : clients'[v][i] \in remotes'
    BY <1>13, <1>16, <2>3
  <2>7. pc' # "delete"
    BY <1>1
  <2> QED BY <2>4, <2>5, <2>6, <2>7 DEF ClientsOK
<1>19. FreshOK'
  <2>1. ci > Len(c)
    BY <1>1, <1>4 DEF AllSeen, c
  <2>2. ci' > Len(clients'[server'])
    <3>1. ci + 1 > Len(c) + 1
      BY <1>3, <1>11, <2>1
    <3>2. server' = server
      BY <1>1
    <3> QED BY <1>1, <1>12, <1>13, <3>1, <3>2
  <2>3. Accepting'
    BY <1>1, <1>3, <1>4, <2>2 DEF Accepting
  <2> QED BY <2>3 DEF FreshOK
<1> QED BY <1>7, <1>9, <1>10, <1>18, <1>19 DEF OrderlyInv

LEMMA EndServerOrderly ==
  ASSUME OrderlyInv, TypeInv', EndServer
  PROVE  OrderlyInv'
<1>1. /\ UNCHANGED <<alive, spinetts, toAdd, server, remotes, mailboxes, child, listening,
                     observed, clients, sock, ended, watched, todo, thread, ci, calling, fault>>
      /\ pc = "check" /\ pc' = "spin" /\ at' = at + 1
  BY DEF EndServer, spinVars, nodeVars, serverVars, threadVars
<1>2. InServer
  BY <1>1 DEF InServer
<1>3. at \in 1..Len(spinetts) /\ at \in Nat /\ Len(spinetts) \in Nat
  BY <1>2, StandsAt, Types DEF OrderlyInv, TypeInv
<1>4. FreshOK'
  <2>1. ASSUME TurnOver PROVE TurnOver'
    <3>1. at' \in Nat /\ at' >= at
      BY <1>1, <1>3
    <3> QED BY <1>1, <2>1, <3>1, TurnKept DEF OrderlyInv, TypeInv
  <2>2. ASSUME Accepting PROVE TurnOver'
    <3>1. spinetts'[at] = server' /\ at <= Len(spinetts')
      BY <1>1, <1>3, <2>2 DEF Accepting
    <3>2. at \in 1..(at' - 1)
      BY <1>1, <1>3
    <3> QED BY <1>1, <3>1, <3>2 DEF TurnOver
  <2>3. Fresh' => Fresh
    BY <1>1 DEF Fresh
  <2> QED BY <2>1, <2>2, <2>3 DEF OrderlyInv, FreshOK
<1> QED BY <1>1, <1>4, MovesOn, Frames DEF OrderlyInv

LEMMA EndSpinOrderly ==
  ASSUME OrderlyInv, TypeInv', EndSpin
  PROVE  OrderlyInv'
<1>1. /\ UNCHANGED <<alive, server, remotes, mailboxes, child, listening, observed, clients,
                     sock, ended, watched, todo, thread, at, ci, calling, fault>>
      /\ toAdd' = <<>> /\ pc = "spin" /\ pc' = "user"
  BY DEF EndSpin, StillToAdd, nodeVars, serverVars, threadVars
<1>2. ListsOK'
  BY EndSpinLists DEF OrderlyInv, TypeInv
<1>3. FreshOK'
  <2>1. Len(toAdd') = 0
    BY <1>1
  <2>2. ~Fresh'
    BY <2>1 DEF Fresh, Contains
  <2> QED BY <2>2 DEF FreshOK
<1> QED BY <1>1, <1>2, <1>3, MovesOn, Frames DEF OrderlyInv

LEMMA SpinOrderly ==
  ASSUME OrderlyInv, TypeInv', Spin
  PROVE  OrderlyInv'
<1>1. CASE SpinNull \/ SpinNode \/ \E l \in Links : SpinRemote(l)
  BY <1>1, SpinNoServerOrderly
<1>2. CASE BeginSpin \/ CheckClient \/ EndServer \/ EndSpin
  BY <1>2, BeginSpinOrderly, CheckClientOrderly, EndServerOrderly, EndSpinOrderly
<1>3. CASE Notify \/ DeleteClient
  BY <1>3, NotifyOrderly, DeleteClientOrderly
<1>4. CASE \E l \in Links : Accept(l)
  BY <1>4, AcceptOrderly
<1>5. CASE \E v \in Servers : SpinServer(v)
  BY <1>5, SpinServerOrderly
<1> QED BY <1>1, <1>2, <1>3, <1>4, <1>5 DEF Spin

LEMMA OrderlyNext ==
  OrderlyInv /\ CallingOK /\ Liberties = {} /\ [Next]_vars => OrderlyInv'
<1> SUFFICES ASSUME OrderlyInv, CallingOK, Liberties = {}, [Next]_vars PROVE OrderlyInv'
  OBVIOUS
<1>1. TypeInv'
  BY TypeNext DEF OrderlyInv
<1>2. CASE Next
  BY <1>1, <1>2, SpinOrderly, CallsOrderly, NetworkOrderly, OthersOrderly DEF Next
<1>3. CASE UNCHANGED vars
  <2>1. UNCHANGED <<alive, spinetts, toAdd, server, remotes, mailboxes, child, listening,
                    observed, clients, sock, ended, watched, todo, thread, pc, at, ci, calling, fault>>
    BY <1>3 DEF vars, spinVars, nodeVars, serverVars, threadVars, userVars
  <2> QED BY <1>1, <2>1, Frames DEF OrderlyInv
<1> QED BY <1>2, <1>3

-----------------------------------------------------------------------------
(* Who is called stays subscribed. *)

LEMMA CallingInit == Init => CallingOK
<1>1. Len(<<>>) = 0
  OBVIOUS
<1> QED BY <1>1 DEF Init, CallingOK

LEMMA CallingStays ==
  ASSUME CallingOK, calling' = calling,
         calling # <<>> => pc' \in {"user", "spin"} /\ mailboxes \subseteq mailboxes'
  PROVE  CallingOK'
<1>1. CASE calling = <<>>
  <2>1. Len(calling') = 0 /\ calling' = <<>>
    BY <1>1
  <2> QED BY <2>1 DEF CallingOK
<1>2. CASE calling # <<>>
  BY <1>2 DEF CallingOK
<1> QED BY <1>1, <1>2

LEMMA SpinCalling ==
  ASSUME CallingOK, Spin
  PROVE  CallingOK'
<1>1. calling' = calling
  BY DEF Spin, BeginSpin, SpinNull, SpinNode, SpinRemote, Accept, SpinServer, CheckClient,
     Notify, DeleteClient, EndServer, EndSpin
<1>2. CASE EndSpin
  BY <1>1, <1>2, CallingStays DEF EndSpin, nodeVars
<1>3. CASE ~EndSpin
  <2>1. calling = <<>> \/ pc \in {"check", "notify", "delete"}
    BY <1>3 DEF Spin, BeginSpin, IsFree, SpinNull, SpinNode, SpinRemote, SpinServer, Spins,
       Accept, CheckClient, Notify, DeleteClient, EndServer
  <2>2. calling = <<>>
    BY <2>1 DEF CallingOK
  <2> QED BY <1>1, <2>2, CallingStays
<1> QED BY <1>2, <1>3

LEMMA CallsCalling ==
  ASSUME OrderlyInv, CallingOK, Liberties = {}, Calls
  PROVE  CallingOK'
<1>1. CASE \/ CreateNode \/ Join \/ Stop \/ Destroy \/ MakeHusks \/ ShutDown
           \/ \E v \in Servers : StartGateway(v, "user") \/ StartGateway(v, "join")
  <2>1. calling' = calling
    BY <1>1 DEF CreateNode, Join, Stop, Destroy, BeginStop, MakeHusks, ShutDown, StartGateway,
       userVars
  <2>2. calling = <<>> \/ pc \notin {"user", "spin"}
    BY <1>1 DEF CreateNode, Join, Stop, Destroy, BeginStop, MakeHusks, ShutDown, StartGateway,
       IsFree
  <2>3. calling = <<>>
    BY <2>2 DEF CallingOK
  <2> QED BY <2>1, <2>3, CallingStays
<1>2. ASSUME NEW c \in Children, CreateChild(c) PROVE CallingOK'
  BY <1>2, CallingStays DEF CreateChild, CallingOK, userVars
<1>3. ASSUME NEW c \in Children, DestroyChild(c) PROVE CallingOK'
  <2>1. /\ UNCHANGED <<calling, pc>> /\ mailboxes \ {c} \subseteq mailboxes'
        /\ ~Contains(calling, c)
    BY <1>3 DEF DestroyChild, WithoutMailbox, userVars
  <2>2. \A i \in 1..Len(calling) : calling[i] # c
    BY <2>1 DEF Contains
  <2> QED BY <2>1, <2>2 DEF CallingOK
<1>4. ASSUME NEW c \in Subscribers, CallBack(c) PROVE CallingOK'
  <2>1. /\ UNCHANGED <<pc, mailboxes>> /\ calling' = Append(calling, c) /\ c \in mailboxes
        /\ pc \in {"user", "spin"}
    BY <1>4 DEF CallBack, Spins, UserCalls, CallingOK, nodeVars
  <2>2. calling \in Seq(Subscribers)
    BY DEF OrderlyInv, TypeInv, TypeOK
  <2>3. /\ Len(calling') = Len(calling) + 1 /\ Len(calling) \in Nat
        /\ calling'[Len(calling) + 1] = c
        /\ \A i \in 1..Len(calling) : calling'[i] = calling[i]
    BY <2>1, <2>2, AppendFacts
  <2>4. ASSUME NEW i \in 1..Len(calling') PROVE calling'[i] \in mailboxes'
    <3>1. CASE i \in 1..Len(calling)
      BY <2>1, <2>3, <3>1 DEF CallingOK
    <3>2. CASE i = Len(calling) + 1
      BY <2>1, <2>3, <3>2
    <3> QED BY <2>3, <3>1, <3>2
  <2> QED BY <2>1, <2>4 DEF CallingOK
<1>5. ASSUME NEW c \in Subscribers, Return(c) PROVE CallingOK'
  <2>1. UNCHANGED <<pc, mailboxes>> /\ calling' = Front(calling) /\ calling # <<>>
    BY <1>5 DEF Return, nodeVars
  <2>2. calling \in Seq(Subscribers)
    BY DEF OrderlyInv, TypeInv, TypeOK
  <2>3. \A i \in 1..Len(calling') : i \in 1..Len(calling) /\ calling'[i] = calling[i]
    BY <2>1, <2>2, FrontFacts
  <2> QED BY <2>1, <2>3 DEF CallingOK
<1> QED BY <1>1, <1>2, <1>3, <1>4, <1>5 DEF Calls

LEMMA CallingNext ==
  OrderlyInv /\ CallingOK /\ Liberties = {} /\ [Next]_vars => CallingOK'
<1> SUFFICES ASSUME OrderlyInv, CallingOK, Liberties = {}, [Next]_vars PROVE CallingOK'
  OBVIOUS
<1>1. CASE NetworkThread \/ Others \/ UNCHANGED vars
  <2>1. UNCHANGED <<calling, pc, mailboxes>>
    BY <1>1 DEF NetworkThread, StartPass, EndPass, VisitLink, Others, ClientConnects, PeerEnds,
       vars, nodeVars, userVars
  <2> QED BY <2>1 DEF CallingOK
<1> QED BY <1>1, SpinCalling, CallsCalling DEF Next

(* What follows holds of a user who stops a node only when its publishers, *)
(* subscribers and connections are gone, spins it before destroying it,    *)
(* starts one gateway, and in a callback neither destroys the subscriber   *)
(* that is called nor registers another for its topic.                     *)
THEOREM OrderlyHolds ==
  ASSUME Liberties = {}
  PROVE  Spec => [](OrderlyInv /\ CallingOK)
BY OrderlyInit, OrderlyNext, CallingInit, CallingNext, PTL DEF Spec

(* Every spinett is called once in a spin, and none that is gone, though   *)
(* spinetts register and are destroyed while the list is walked            *)
(* (spinner_impl::spin_once, register_spinett, unregister_spinett).        *)
THEOREM SpinettsAreExact ==
  ASSUME Liberties = {}
  PROVE  Spec => []SpinettsExact
<1>1. OrderlyInv => SpinettsExact
  BY ListsExact DEF OrderlyInv, TypeInv
<1> QED BY <1>1, OrderlyHolds, PTL

(* The mailman delivers to the remote nodes, publishers and subscribers    *)
(* that exist, and to no others (mailman::register_mailbox,                *)
(* unregister_mailbox).                                                    *)
THEOREM MailboxesAreExact ==
  ASSUME Liberties = {}
  PROVE  Spec => []MailboxesExact
<1>1. OrderlyInv => MailboxesExact
  BY DEF OrderlyInv
<1> QED BY <1>1, OrderlyHolds, PTL

(* The network thread never uses a socket that the server has deleted      *)
(* (tcp_server::spin_update, tcp_thread::run, remove_socket).              *)
THEOREM SocketsOutliveLinks ==
  ASSUME Liberties = {}
  PROVE  Spec => []SocketOutlivesLink
<1>1. OrderlyInv => SocketOutlivesLink
  BY DEF OrderlyInv, LinksOK, SocketOutlivesLink
<1> QED BY <1>1, OrderlyHolds, PTL

(* No pointer to something destroyed is followed, and none that is null,   *)
(* in any of the calls, the spin and the network thread.                   *)
THEOREM NothingEverDangles ==
  ASSUME Liberties = {}
  PROVE  Spec => []NothingDangles
<1>1. OrderlyInv => NothingDangles
  BY DEF OrderlyInv
<1> QED BY <1>1, OrderlyHolds, PTL
=============================================================================
