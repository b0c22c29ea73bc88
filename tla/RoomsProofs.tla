----------------------------- MODULE RoomsProofs -----------------------------
(***************************************************************************)
(* Theorems of module Rooms, for any number of clients, sockets and rooms  *)
(* and any capacity, and what they need to know of the lists of ListOps:   *)
(* what a list comprehension keeps, preserves and bounds, for lists of any *)
(* length.  This is proved by induction on the prefixes of the list;       *)
(* NatSetInduction states induction for a set of naturals, the form the    *)
(* provers can instantiate.                                                *)
(*                                                                         *)
(* Neither ListsAgree nor RoomCapacity is inductive alone: the eviction    *)
(* loop restores the capacity only because a room never exceeds it by more *)
(* than the client that has just entered, which is a fact about the length *)
(* of the list, and the length of the list bounds the members only because *)
(* the list has no repetitions and agrees with CLIENT_ROOMS.               *)
(***************************************************************************)
EXTENDS Rooms, FiniteSetTheorems, WellFoundedInduction, TLAPS

(***************************************************************************)
(* Induction on the naturals, for a set in the place of a predicate: a set *)
(* that holds 0 and is closed under successor holds every natural number.  *)
(***************************************************************************)
LEMMA NatSetInduction ==
  ASSUME NEW S, 0 \in S, \A n \in Nat : n \in S => n + 1 \in S
  PROVE  Nat \subseteq S
<1> DEFINE R == {ss \in Nat \X Nat : ss[1] < ss[2]}
<1>1. IsWellFoundedOn(R, Nat)
  BY NatLessThanWellFounded DEF OpToRel
<1>2. SUFFICES ASSUME Nat \ S # {} PROVE FALSE
  OBVIOUS
<1>3. PICK x \in Nat \ S : \A y \in Nat \ S : ~ (<<y, x>> \in R)
  <2>1. (Nat \ S) \subseteq Nat
    OBVIOUS
  <2> HIDE DEF R
  <2> QED BY <1>1, <1>2, <2>1, WFMin
<1>4. x # 0 /\ x - 1 \in Nat
  OBVIOUS
<1>5. <<x - 1, x>> \in R
  BY <1>4
<1>6. x - 1 \in S
  BY <1>3, <1>4, <1>5
<1>7. (x - 1) + 1 \in S
  BY <1>4, <1>6
<1> QED BY <1>7

------------------------------------------------------------------------------
\* One step of the recursion of KeepUpTo.
KeepStep(s, P, f, i) ==
  IF i = 0 THEN << >>
  ELSE IF s[i] \in P THEN Append(f[i - 1], s[i])
  ELSE f[i - 1]

(***************************************************************************)
(* The recursion of KeepUpTo has a solution: one is built for every prefix *)
(* length, each from the one before.                                       *)
(***************************************************************************)
LEMMA KeepUpToExists ==
  ASSUME NEW s, Len(s) \in Nat, NEW P
  PROVE  \E f : f = [i \in 0..Len(s) |-> KeepStep(s, P, f, i)]
<1> DEFINE Eq(f, n) == f = [i \in 0..n |-> KeepStep(s, P, f, i)]
           S == {n \in Nat : \E f : Eq(f, n)}
<1>1. 0 \in S
  <2>1. Eq([i \in 0..0 |-> << >>], 0)
    BY DEF KeepStep
  <2> QED BY <2>1
<1>2. ASSUME NEW n \in Nat, n \in S
      PROVE  n + 1 \in S
  <2>1. PICK f : Eq(f, n)
    BY <1>2
  <2> DEFINE g == [i \in 0..n+1 |->
                     IF i = n+1 THEN KeepStep(s, P, f, n+1) ELSE f[i]]
  <2>2. ASSUME NEW i \in 0..n+1
        PROVE  g[i] = KeepStep(s, P, g, i)
    <3>1. CASE i = n+1
      <4>1. g[i-1] = f[i-1] /\ i # 0
        BY <3>1
      <4> QED BY <4>1, <3>1 DEF KeepStep
    <3>2. CASE i = 0
      BY <2>1, <3>2 DEF KeepStep
    <3>3. CASE i \in 1..n
      <4>1. g[i-1] = f[i-1] /\ g[i] = f[i] /\ i \in 0..n
        BY <3>3
      <4>2. f[i] = KeepStep(s, P, f, i)
        BY <4>1, <2>1
      <4> QED BY <4>1, <4>2 DEF KeepStep
    <3> QED BY <3>1, <3>2, <3>3
  <2>3. Eq(g, n+1)
    <3> HIDE DEF g
    <3>1. g = [i \in 0..n+1 |-> g[i]]
      BY DEF g
    <3> QED BY <2>2, <3>1
  <2>4. n+1 \in Nat
    OBVIOUS
  <2> HIDE DEF Eq
  <2> QED BY <2>3, <2>4
<1>3. Nat \subseteq S
  <2> HIDE DEF S
  <2> QED BY <1>1, <1>2, NatSetInduction
<1> QED BY <1>3

(***************************************************************************)
(* KeepUpTo satisfies its recursion: the comprehension of the empty prefix *)
(* is empty, and each element extends it or leaves it.                     *)
(***************************************************************************)
LEMMA KeepUpToDef ==
  ASSUME NEW S, NEW s \in Seq(S), NEW P
  PROVE  /\ KeepUpTo(s, P)[0] = << >>
         /\ \A n \in 0..(Len(s) - 1) :
               KeepUpTo(s, P)[n + 1] = IF s[n + 1] \in P
                                         THEN Append(KeepUpTo(s, P)[n], s[n + 1])
                                         ELSE KeepUpTo(s, P)[n]
<1>1. \A i \in 0..Len(s) : KeepUpTo(s, P)[i] = KeepStep(s, P, KeepUpTo(s, P), i)
  BY KeepUpToExists, Len(s) \in Nat DEF KeepUpTo, KeepStep
<1>2. 0 \in 0..Len(s)
  OBVIOUS
<1>3. \A n \in 0..(Len(s) - 1) : n + 1 \in 0..Len(s) /\ n + 1 # 0 /\ (n + 1) - 1 = n
  OBVIOUS
<1> QED BY <1>1, <1>2, <1>3 DEF KeepStep

------------------------------------------------------------------------------
(***************************************************************************)
(* Appending adds one element to the range, and keeps a list free of       *)
(* repetitions when the element is new.                                    *)
(***************************************************************************)
LEMMA AppendProps ==
  ASSUME NEW S, NEW s \in Seq(S), NEW x \in S
  PROVE  /\ Range(Append(s, x)) = Range(s) \cup {x}
         /\ IsInjective(s) /\ x \notin Range(s) => IsInjective(Append(s, x))
<1> DEFINE a == Append(s, x)
<1>1. /\ a \in Seq(S)
      /\ Len(a) = Len(s) + 1
      /\ \A i \in 1..Len(s) : a[i] = s[i]
      /\ a[Len(s) + 1] = x
  OBVIOUS
<1>2. DOMAIN s = 1..Len(s) /\ Len(s) \in Nat
  OBVIOUS
<1> HIDE DEF a
<1>3. DOMAIN a = 1..(Len(s) + 1)
  BY <1>1
<1>4. Range(a) = Range(s) \cup {x}
  <2>1. \A y \in Range(a) : y \in Range(s) \cup {x}
    BY <1>1, <1>2, <1>3 DEF Range
  <2>2. \A y \in Range(s) : y \in Range(a)
    <3>1. \A i \in 1..Len(s) : i \in DOMAIN a /\ a[i] = s[i]
      BY <1>1, <1>2, <1>3
    <3> QED BY <1>2, <3>1 DEF Range
  <2>3. x \in Range(a)
    BY <1>1, <1>2, <1>3 DEF Range
  <2> QED BY <2>1, <2>2, <2>3
<1>5. ASSUME IsInjective(s), x \notin Range(s)
      PROVE  IsInjective(a)
  <2> SUFFICES ASSUME NEW i \in DOMAIN a, NEW j \in DOMAIN a, a[i] = a[j]
               PROVE  i = j
    BY DEF IsInjective
  <2>1. \A k \in 1..Len(s) : s[k] # x
    BY <1>2, <1>5 DEF Range
  <2> QED BY <1>1, <1>2, <1>3, <1>5, <2>1 DEF IsInjective
<1> QED BY <1>4, <1>5 DEF a

------------------------------------------------------------------------------
(***************************************************************************)
(* A comprehension yields a list of the same elements' type, holding       *)
(* exactly the elements of s that pass the test, no longer than s, and     *)
(* shorter as soon as one element of s fails the test.                     *)
(***************************************************************************)
THEOREM KeepProperties ==
  ASSUME NEW S, NEW s \in Seq(S), NEW P
  PROVE  /\ Keep(s, P) \in Seq(S)
         /\ Range(Keep(s, P)) = Range(s) \cap P
         /\ Len(Keep(s, P)) <= Len(s)
         /\ Range(s) \subseteq P \/ Len(Keep(s, P)) < Len(s)
<1> DEFINE K == KeepUpTo(s, P)
           Good(i) == /\ K[i] \in Seq(S)
                      /\ Range(K[i]) = {s[j] : j \in 1..i} \cap P
                      /\ Len(K[i]) <= i
                      /\ {s[j] : j \in 1..i} \subseteq P \/ Len(K[i]) < i
           T == {n \in Nat : n <= Len(s) => Good(n)}
<1>1. Good(0)
  <2>1. K[0] = << >>
    BY KeepUpToDef
  <2> QED BY <2>1 DEF Range
<1>2. ASSUME NEW n \in Nat, n \in T, n + 1 <= Len(s)
      PROVE  Good(n + 1)
  <2>1. Good(n)
    BY <1>2
  <2>2. K[n+1] = IF s[n+1] \in P THEN Append(K[n], s[n+1]) ELSE K[n]
    BY <1>2, KeepUpToDef, n \in 0..(Len(s) - 1)
  <2>3. {s[j] : j \in 1..(n+1)} = {s[j] : j \in 1..n} \cup {s[n+1]}
    OBVIOUS
  <2>4. s[n+1] \in S
    BY <1>2
  <2> HIDE DEF K
  <2>5. CASE s[n+1] \in P
    <3>1. K[n+1] = Append(K[n], s[n+1])
      BY <2>2, <2>5
    <3>2. Range(Append(K[n], s[n+1])) = Range(K[n]) \cup {s[n+1]}
      BY <2>1, <2>4, AppendProps
    <3> QED BY <2>1, <2>3, <2>4, <2>5, <3>1, <3>2
  <2>6. CASE s[n+1] \notin P
    <3>1. K[n+1] = K[n]
      BY <2>2, <2>6
    <3> QED BY <2>1, <2>3, <2>6, <3>1
  <2> QED BY <2>5, <2>6
<1>3. Nat \subseteq T
  <2>1. 0 \in T
    BY <1>1
  <2>2. \A n \in Nat : n \in T => n + 1 \in T
    <3> HIDE DEF Good
    <3> QED BY <1>2
  <2> HIDE DEF T
  <2> QED BY <2>1, <2>2, NatSetInduction
<1>4. Good(Len(s))
  BY <1>3
<1>5. {s[j] : j \in 1..Len(s)} = Range(s)
  BY DEF Range
<1> QED BY <1>4, <1>5 DEF Keep

(***************************************************************************)
(* A comprehension of a list without repetitions has no repetitions.       *)
(***************************************************************************)
THEOREM KeepInjective ==
  ASSUME NEW S, NEW s \in Seq(S), NEW P, IsInjective(s)
  PROVE  IsInjective(Keep(s, P))
<1> DEFINE K == KeepUpTo(s, P)
           Good(i) == /\ K[i] \in Seq(S)
                      /\ Range(K[i]) \subseteq {s[j] : j \in 1..i}
                      /\ IsInjective(K[i])
           T == {n \in Nat : n <= Len(s) => Good(n)}
<1>1. Good(0)
  <2>1. K[0] = << >>
    BY KeepUpToDef
  <2> QED BY <2>1 DEF Range, IsInjective
<1>2. ASSUME NEW n \in Nat, n \in T, n + 1 <= Len(s)
      PROVE  Good(n + 1)
  <2>1. Good(n)
    BY <1>2
  <2>2. K[n+1] = IF s[n+1] \in P THEN Append(K[n], s[n+1]) ELSE K[n]
    BY <1>2, KeepUpToDef, n \in 0..(Len(s) - 1)
  <2>3. {s[j] : j \in 1..n} \subseteq {s[j] : j \in 1..(n+1)}
    OBVIOUS
  <2>4. s[n+1] \in S /\ s[n+1] \notin {s[j] : j \in 1..n}
    BY <1>2 DEF IsInjective
  <2> HIDE DEF K
  <2>5. CASE s[n+1] \in P
    <3>1. K[n+1] = Append(K[n], s[n+1])
      BY <2>2, <2>5
    <3>2. Range(Append(K[n], s[n+1])) = Range(K[n]) \cup {s[n+1]}
      BY <2>1, <2>4, AppendProps
    <3>3. s[n+1] \notin Range(K[n])
      BY <2>1, <2>4
    <3>4. IsInjective(Append(K[n], s[n+1]))
      BY <2>1, <2>4, <3>3, AppendProps
    <3> QED BY <2>1, <2>3, <2>4, <3>1, <3>2, <3>4
  <2>6. CASE s[n+1] \notin P
    <3>1. K[n+1] = K[n]
      BY <2>2, <2>6
    <3> QED BY <2>1, <2>3, <3>1
  <2> QED BY <2>5, <2>6
<1>3. Nat \subseteq T
  <2>1. 0 \in T
    BY <1>1
  <2>2. \A n \in Nat : n \in T => n + 1 \in T
    <3> HIDE DEF Good
    <3> QED BY <1>2
  <2> HIDE DEF T
  <2> QED BY <2>1, <2>2, NatSetInduction
<1> QED BY <1>3 DEF Keep

(***************************************************************************)
(* A comprehension whose test every element passes is the list itself:     *)
(* this is why get_room_client_ids seldom rewrites the stored list.        *)
(***************************************************************************)
THEOREM KeepAll ==
  ASSUME NEW S, NEW s \in Seq(S), NEW P, Range(s) \subseteq P
  PROVE  Keep(s, P) = s
<1> DEFINE K == KeepUpTo(s, P)
           Good(i) == /\ K[i] \in Seq(S)
                      /\ Len(K[i]) = i
                      /\ \A j \in 1..i : K[i][j] = s[j]
           T == {n \in Nat : n <= Len(s) => Good(n)}
<1>1. Good(0)
  <2>1. K[0] = << >>
    BY KeepUpToDef
  <2> QED BY <2>1
<1>2. ASSUME NEW n \in Nat, n \in T, n + 1 <= Len(s)
      PROVE  Good(n + 1)
  <2>1. Good(n)
    BY <1>2
  <2>2. s[n+1] \in S /\ s[n+1] \in P
    BY <1>2 DEF Range
  <2>3. K[n+1] = Append(K[n], s[n+1])
    BY <1>2, <2>2, KeepUpToDef, n \in 0..(Len(s) - 1)
  <2> HIDE DEF K
  <2> QED BY <2>1, <2>2, <2>3
<1>3. Nat \subseteq T
  <2>1. 0 \in T
    BY <1>1
  <2>2. \A n \in Nat : n \in T => n + 1 \in T
    <3> HIDE DEF Good
    <3> QED BY <1>2
  <2> HIDE DEF T
  <2> QED BY <2>1, <2>2, NatSetInduction
<1>4. Good(Len(s))
  BY <1>3
<1> HIDE DEF K
<1>5. K[Len(s)] = s
  BY <1>4
<1> QED BY <1>5 DEF Keep, K

(***************************************************************************)
(* Appending an element that is not there yet keeps a list free of         *)
(* repetitions, adds at most one to its length, and adds that element.     *)
(***************************************************************************)
THEOREM AppendNewProperties ==
  ASSUME NEW S, NEW s \in Seq(S), NEW x \in S
  PROVE  /\ AppendNew(s, x) \in Seq(S)
         /\ Range(AppendNew(s, x)) = Range(s) \cup {x}
         /\ Len(AppendNew(s, x)) <= Len(s) + 1
         /\ IsInjective(s) => IsInjective(AppendNew(s, x))
<1>1. CASE x \in Range(s)
  BY <1>1 DEF AppendNew
<1>2. CASE x \notin Range(s)
  BY <1>2, AppendProps DEF AppendNew
<1> QED BY <1>1, <1>2

\* A list holds at most as many elements as it is long, and as many when it
\* repeats none.
THEOREM RangeCardinality ==
  ASSUME NEW S, NEW s \in Seq(S)
  PROVE  /\ IsFiniteSet(Range(s))
         /\ Cardinality(Range(s)) <= Len(s)
         /\ IsInjective(s) => Cardinality(Range(s)) = Len(s)
<1> DEFINE n == Len(s)
<1>1. n \in Nat /\ DOMAIN s = 1..n /\ s = [i \in 1..n |-> s[i]]
  OBVIOUS
<1> HIDE DEF n
<1>2. IsFiniteSet(1..n) /\ Cardinality(1..n) = n
  BY <1>1, FS_Interval
<1>3. s \in Surjection(1..n, Range(s))
  BY <1>1 DEF Surjection, Range
<1>4. IsInjective(s) => s \in Injection(1..n, Range(s))
  BY <1>1, <1>3 DEF Surjection, Injection, IsInjective
<1>5. /\ IsFiniteSet(Range(s))
      /\ Cardinality(Range(s)) <= n
      /\ s \in Injection(1..n, Range(s)) => Cardinality(Range(s)) = n
  BY <1>2, <1>3, FS_Surjection
<1> QED BY <1>4, <1>5 DEF n

------------------------------------------------------------------------------
(* Rooms.                                                                  *)

\* The strengthening: the type invariant, the agreement of the lists, and the
\* capacity as a bound on the length of the lists.
LenBound == \A r \in Rooms : Len(roomOrder[r]) <= RoomMaxPeers
IInv == TypeOK /\ ListsAgree /\ LenBound

------------------------------------------------------------------------------
(***************************************************************************)
(* get_client_from_sid returns a client that holds the sid when there is   *)
(* one.                                                                    *)
(***************************************************************************)
LEMMA ClientFromSidHolds ==
  ASSUME IInv, NEW s \in Sids
  PROVE  IF Holders(s) = {} THEN ClientFromSid(s) = NoClient
                            ELSE ClientFromSid(s) \in Holders(s)
<1> DEFINE owners == Keep(sessionOrder, Holders(s))
<1>1. owners \in Seq(Clients) /\ Range(owners) = Range(sessionOrder) \cap Holders(s)
  BY KeepProperties DEF IInv, TypeOK
<1>2. Holders(s) \subseteq Range(sessionOrder)
  BY DEF IInv, ListsAgree, Holders
<1>3. Range(owners) = Holders(s)
  BY <1>1, <1>2
<1>4. ClientFromSid(s) = IF owners = << >> THEN NoClient ELSE Head(owners)
  BY DEF ClientFromSid
<1> HIDE DEF owners
<1>5. CASE owners = << >>
  BY <1>3, <1>4, <1>5 DEF Range
<1>6. CASE owners # << >>
  <2>1. Head(owners) = owners[1] /\ 1 \in DOMAIN owners
    BY <1>1, <1>6
  <2> QED BY <1>3, <1>4, <1>6, <2>1 DEF Range
<1> QED BY <1>5, <1>6

(***************************************************************************)
(* detach_sid_from_tracking with the purge of a client that lost its last  *)
(* session.                                                                *)
(***************************************************************************)
LEMMA DetachInvariant ==
  ASSUME IInv, NEW s \in Sids, DetachSid(s)
  PROVE  /\ sessions' \in [Clients -> SUBSET Sids]
         /\ sessionOrder' \in Seq(Clients)
         /\ clientRoom' \in [Clients -> Rooms \cup {NoRoom}]
         /\ clientType' \in [Clients -> ClientTypes]
         /\ roomOrder' \in [Rooms -> Seq(Clients)]
         /\ ListsAgree'
         /\ LenBound'
<1> DEFINE gone == LastSessionOf(s)
           kept(r) == {c \in Clients : ~ (c \in gone /\ clientRoom[c] = r)}
<1>1. \A c \in Clients : /\ c \in gone <=> c = ClientFromSid(s) /\ sessions[c] = {s}
                         /\ sessions'[c] = IF c = ClientFromSid(s) THEN sessions[c] \ {s}
                                                                  ELSE sessions[c]
                         /\ sessions'[c] # {} <=> sessions[c] # {} /\ c \notin gone
  BY DEF DetachSid, LastSessionOf
<1>2. /\ sessionOrder' = Keep(sessionOrder, Clients \ gone)
      /\ clientRoom' = [c \in Clients |-> IF c \in gone THEN NoRoom ELSE clientRoom[c]]
      /\ clientType' = [c \in Clients |-> IF c \in gone THEN UnknownType ELSE clientType[c]]
      /\ roomOrder' = [r \in Rooms |-> Keep(roomOrder[r], kept(r))]
  BY DEF DetachSid, ListsWithout
<1>3. /\ sessions' \in [Clients -> SUBSET Sids]
      /\ clientRoom' \in [Clients -> Rooms \cup {NoRoom}]
      /\ clientType' \in [Clients -> ClientTypes]
  <2>1. sessions' \in [Clients -> SUBSET Sids]
    BY DEF DetachSid, IInv, TypeOK
  <2> HIDE DEF gone
  <2> QED BY <1>2, <2>1, ConstantsAssumption DEF IInv, TypeOK
<1> HIDE DEF gone
<1>4. /\ sessionOrder' \in Seq(Clients)
      /\ Range(sessionOrder') = Range(sessionOrder) \cap (Clients \ gone)
      /\ IsInjective(sessionOrder')
  BY <1>2, KeepProperties, KeepInjective DEF IInv, TypeOK, ListsAgree
<1>5. ASSUME NEW r \in Rooms
      PROVE  /\ roomOrder'[r] \in Seq(Clients)
             /\ Range(roomOrder'[r]) = Range(roomOrder[r]) \cap kept(r)
             /\ IsInjective(roomOrder'[r])
             /\ Len(roomOrder'[r]) <= RoomMaxPeers
  <2>1. roomOrder'[r] = Keep(roomOrder[r], kept(r))
    BY <1>2
  <2>2. /\ roomOrder[r] \in Seq(Clients)
        /\ IsInjective(roomOrder[r])
        /\ Len(roomOrder[r]) <= RoomMaxPeers
    BY DEF IInv, TypeOK, ListsAgree, LenBound
  <2> HIDE DEF kept
  <2>3. /\ Keep(roomOrder[r], kept(r)) \in Seq(Clients)
        /\ Range(Keep(roomOrder[r], kept(r))) = Range(roomOrder[r]) \cap kept(r)
        /\ Len(Keep(roomOrder[r], kept(r))) <= Len(roomOrder[r])
        /\ IsInjective(Keep(roomOrder[r], kept(r)))
    BY <2>2, KeepProperties, KeepInjective
  <2>4. Len(Keep(roomOrder[r], kept(r))) \in Nat /\ Len(roomOrder[r]) \in Nat
    BY <2>2, <2>3
  <2> QED BY <2>1, <2>2, <2>3, <2>4, ConstantsAssumption
<1>6. roomOrder' \in [Rooms -> Seq(Clients)]
  BY <1>2, <1>5
<1>7. ListsAgree'
  <2>1. ASSUME NEW r \in Rooms
        PROVE  Range(roomOrder'[r]) = {c \in Clients : clientRoom'[c] = r}
    <3>1. Range(roomOrder[r]) = {c \in Clients : clientRoom[c] = r}
      BY DEF IInv, ListsAgree
    <3>2. r # NoRoom
      BY ConstantsAssumption
    <3> QED BY <1>2, <1>5, <3>1, <3>2
  <2>2. \A c \in Clients : clientRoom'[c] # NoRoom => sessions'[c] # {}
    BY <1>1, <1>2 DEF IInv, ListsAgree
  <2>3. Range(sessionOrder') = {c \in Clients : sessions'[c] # {}}
    BY <1>1, <1>4 DEF IInv, ListsAgree
  <2> QED BY <1>4, <1>5, <2>1, <2>2, <2>3 DEF ListsAgree
<1> QED BY <1>3, <1>4, <1>5, <1>6, <1>7 DEF LenBound

------------------------------------------------------------------------------
(***************************************************************************)
(* The eviction loop on a list that exceeds the capacity by one at most:   *)
(* it evicts clients of the list, and one when the list is too long.       *)
(***************************************************************************)
LEMMA EvictedProperties ==
  ASSUME NEW q \in Seq(Clients), NEW types, Len(q) <= RoomMaxPeers + 1
  PROVE  /\ Evicted(q, types) \subseteq Range(q)
         /\ Len(q) > RoomMaxPeers => Evicted(q, types) # {}
         /\ Len(q) <= RoomMaxPeers => Evicted(q, types) = {}
<1> DEFINE pcs == {c \in Clients : types[c] \in PcTypes}
           a == Keep(q, Clients \ pcs)
           b == Keep(q, pcs)
<1>1. /\ a \in Seq(Clients) /\ Range(a) = Range(q) \cap (Clients \ pcs)
      /\ b \in Seq(Clients) /\ Range(b) = Range(q) \cap pcs
  BY KeepProperties
<1>2. EvictionOrder(q, types) = a \o b
  BY DEF EvictionOrder
<1> HIDE DEF a, b
<1>3. Len(q) \in Nat /\ RoomMaxPeers \in Nat \ {0}
  BY ConstantsAssumption
<1>4. CASE Len(q) <= RoomMaxPeers
  BY <1>3, <1>4 DEF Evicted
<1>5. CASE Len(q) > RoomMaxPeers
  <2>1. Len(q) - RoomMaxPeers = 1
    BY <1>3, <1>5
  <2>2. Evicted(q, types) = {(a \o b)[1]}
    <3>1. 1..(Len(q) - RoomMaxPeers) = {1}
      BY <2>1
    <3> QED BY <1>2, <3>1 DEF Evicted
  <2>3. q[1] \in Range(q) /\ Range(q) \subseteq Clients
    BY <1>3, <1>5 DEF Range
  <2>4. (a \o b)[1] \in Range(a) \cup Range(b)
    <3>1. CASE a # << >>
      <4>1. (a \o b)[1] = a[1] /\ 1 \in DOMAIN a
        BY <1>1, <3>1
      <4> QED BY <4>1 DEF Range
    <3>2. CASE a = << >>
      <4>1. b # << >>
        <5>1. Range(a) = {}
          BY <3>2 DEF Range
        <5>2. Range(b) # {}
          BY <1>1, <2>3, <5>1
        <5> QED BY <5>2 DEF Range
      <4>2. (a \o b)[1] = b[1] /\ 1 \in DOMAIN b
        BY <1>1, <3>2, <4>1
      <4> QED BY <4>2 DEF Range
    <3> QED BY <3>1, <3>2
  <2> QED BY <1>1, <1>3, <1>5, <2>2, <2>4
<1> QED BY <1>3, <1>4, <1>5

(***************************************************************************)
(* The join handler.                                                       *)
(***************************************************************************)
LEMMA JoinInvariant ==
  ASSUME IInv, NEW s \in Sids, NEW c \in Clients, NEW t \in ClientTypes, NEW r \in Rooms,
         Join(s, c, t, r)
  PROVE  IInv'
<1> DEFINE held  == [sessions EXCEPT ![c] = @ \cup {s}]
           types == [clientType EXCEPT ![c] = t]
           list  == AppendNew(roomOrder[r], c)
           out   == Evicted(list, types)
           moved == {clientRoom[c]} \ {r, NoRoom}
<1>1. /\ s \in connected
      /\ sessions' = [d \in Clients |-> IF d \in out THEN {} ELSE held[d]]
      /\ sessionOrder' = Keep(AppendNew(sessionOrder, c), Clients \ out)
      /\ clientRoom' = [d \in Clients |-> IF d \in out THEN NoRoom
                                          ELSE IF d = c THEN r ELSE clientRoom[d]]
      /\ clientType' = [d \in Clients |-> IF d \in out THEN UnknownType ELSE types[d]]
      /\ roomOrder' = [x \in Rooms |->
                         IF x = r THEN Keep(list, Clients \ out)
                         ELSE IF x \in moved THEN Keep(roomOrder[x], Clients \ {c})
                         ELSE roomOrder[x]]
      /\ subscribed' = [x \in Sids |->
                          IF x \in EvictedSids(out, held) THEN subscribed[x] \ {r}
                          ELSE IF x = s THEN subscribed[x] \cup {r}
                          ELSE subscribed[x]]
      /\ stats' = [x \in Rooms |-> IF x \in {r} \cup moved THEN RoomClients(x)' ELSE stats[x]]
      /\ connected' = connected
  BY DEF Join, BroadcastStats
<1>2. /\ list \in Seq(Clients)
      /\ Range(list) = Range(roomOrder[r]) \cup {c}
      /\ IsInjective(list)
      /\ Len(list) <= RoomMaxPeers + 1
  <2>1. /\ roomOrder[r] \in Seq(Clients)
        /\ IsInjective(roomOrder[r])
        /\ Len(roomOrder[r]) <= RoomMaxPeers
    BY DEF IInv, TypeOK, ListsAgree, LenBound
  <2>2. /\ AppendNew(roomOrder[r], c) \in Seq(Clients)
        /\ Range(AppendNew(roomOrder[r], c)) = Range(roomOrder[r]) \cup {c}
        /\ Len(AppendNew(roomOrder[r], c)) <= Len(roomOrder[r]) + 1
        /\ IsInjective(AppendNew(roomOrder[r], c))
    BY <2>1, AppendNewProperties
  <2>3. Len(AppendNew(roomOrder[r], c)) \in Nat /\ Len(roomOrder[r]) \in Nat
    BY <2>1, <2>2
  <2> QED BY <2>1, <2>2, <2>3, ConstantsAssumption
<1>3. /\ held \in [Clients -> SUBSET Sids]
      /\ types \in [Clients -> ClientTypes]
      /\ \A d \in Clients : held[d] # {} <=> sessions[d] # {} \/ d = c
  BY DEF IInv, TypeOK
<1> HIDE DEF held, types, list
<1>4. /\ out \subseteq Range(list)
      /\ Len(list) > RoomMaxPeers => out # {}
  BY <1>2, EvictedProperties
<1> HIDE DEF out
<1>5. /\ Keep(list, Clients \ out) \in Seq(Clients)
      /\ Range(Keep(list, Clients \ out)) = Range(list) \cap (Clients \ out)
      /\ IsInjective(Keep(list, Clients \ out))
      /\ Len(Keep(list, Clients \ out)) <= RoomMaxPeers
  <2>1. /\ Keep(list, Clients \ out) \in Seq(Clients)
        /\ Range(Keep(list, Clients \ out)) = Range(list) \cap (Clients \ out)
        /\ IsInjective(Keep(list, Clients \ out))
        /\ Len(Keep(list, Clients \ out)) <= Len(list)
        /\ Range(list) \subseteq Clients \ out \/ Len(Keep(list, Clients \ out)) < Len(list)
    BY <1>2, KeepProperties, KeepInjective
  <2>2. Len(Keep(list, Clients \ out)) \in Nat /\ Len(list) \in Nat
    BY <1>2, <2>1
  <2>3. Len(list) > RoomMaxPeers => ~ (Range(list) \subseteq Clients \ out)
    BY <1>4
  <2>4. Len(Keep(list, Clients \ out)) <= RoomMaxPeers
    <3>1. CASE Len(list) <= RoomMaxPeers
      BY <2>1, <2>2, <3>1, ConstantsAssumption
    <3>2. CASE Len(list) > RoomMaxPeers
      <4>1. Len(Keep(list, Clients \ out)) < Len(list)
        BY <2>1, <2>3, <3>2
      <4> QED BY <1>2, <2>2, <4>1, ConstantsAssumption
    <3> QED BY <2>2, <3>1, <3>2, ConstantsAssumption
  <2> QED BY <2>1, <2>4
<1>6. ASSUME NEW x \in Rooms, x # r
      PROVE  /\ roomOrder'[x] \in Seq(Clients)
             /\ Range(roomOrder'[x]) = Range(roomOrder[x]) \ {c}
             /\ IsInjective(roomOrder'[x])
             /\ Len(roomOrder'[x]) <= RoomMaxPeers
  <2>1. /\ roomOrder[x] \in Seq(Clients)
        /\ IsInjective(roomOrder[x])
        /\ Len(roomOrder[x]) <= RoomMaxPeers
        /\ Range(roomOrder[x]) = {d \in Clients : clientRoom[d] = x}
    BY DEF IInv, TypeOK, ListsAgree, LenBound
  <2>2. CASE x \in moved
    <3>1. roomOrder'[x] = Keep(roomOrder[x], Clients \ {c})
      BY <1>1, <1>6, <2>2
    <3>2. /\ Keep(roomOrder[x], Clients \ {c}) \in Seq(Clients)
          /\ Range(Keep(roomOrder[x], Clients \ {c})) = Range(roomOrder[x]) \cap (Clients \ {c})
          /\ IsInjective(Keep(roomOrder[x], Clients \ {c}))
          /\ Len(Keep(roomOrder[x], Clients \ {c})) <= Len(roomOrder[x])
      BY <2>1, KeepProperties, KeepInjective
    <3>3. Len(Keep(roomOrder[x], Clients \ {c})) \in Nat /\ Len(roomOrder[x]) \in Nat
      BY <2>1, <3>2
    <3>4. Len(Keep(roomOrder[x], Clients \ {c})) <= RoomMaxPeers
      BY <2>1, <3>2, <3>3, ConstantsAssumption
    <3>5. Range(roomOrder[x]) \cap (Clients \ {c}) = Range(roomOrder[x]) \ {c}
      BY <2>1
    <3> QED BY <3>1, <3>2, <3>4, <3>5
  <2>3. CASE x \notin moved
    <3>1. roomOrder'[x] = roomOrder[x]
      BY <1>1, <1>6, <2>3
    <3>2. clientRoom[c] # x
      BY <1>6, <2>3, ConstantsAssumption
    <3> QED BY <2>1, <3>1, <3>2
  <2> QED BY <2>2, <2>3
<1> HIDE DEF moved
<1>7. roomOrder' \in [Rooms -> Seq(Clients)]
  <2>1. roomOrder'[r] \in Seq(Clients)
    BY <1>1, <1>5
  <2>2. \A x \in Rooms : roomOrder'[x] \in Seq(Clients)
    BY <1>6, <2>1
  <2>3. DOMAIN roomOrder' = Rooms /\ roomOrder' = [x \in Rooms |-> roomOrder'[x]]
    BY <1>1
  <2> QED BY <2>2, <2>3
<1>8. /\ AppendNew(sessionOrder, c) \in Seq(Clients)
      /\ Range(AppendNew(sessionOrder, c)) = Range(sessionOrder) \cup {c}
      /\ IsInjective(AppendNew(sessionOrder, c))
  <2>1. sessionOrder \in Seq(Clients) /\ IsInjective(sessionOrder)
    BY DEF IInv, TypeOK, ListsAgree
  <2> QED BY <2>1, AppendNewProperties
<1>9. /\ sessionOrder' \in Seq(Clients)
      /\ Range(sessionOrder') = (Range(sessionOrder) \cup {c}) \cap (Clients \ out)
      /\ IsInjective(sessionOrder')
  BY <1>1, <1>8, KeepProperties, KeepInjective
<1>10. ListsAgree'
  <2>1. ASSUME NEW x \in Rooms
        PROVE  /\ IsInjective(roomOrder'[x])
               /\ Range(roomOrder'[x]) = {d \in Clients : clientRoom'[d] = x}
    <3>1. /\ Range(roomOrder[x]) = {d \in Clients : clientRoom[d] = x}
          /\ Range(roomOrder[r]) = {d \in Clients : clientRoom[d] = r}
      BY DEF IInv, ListsAgree
    <3>2. x # NoRoom
      BY ConstantsAssumption
    <3>3. CASE x = r
      <4>1. roomOrder'[x] = Keep(list, Clients \ out)
        BY <1>1, <3>3
      <4> QED BY <1>1, <1>2, <1>5, <3>1, <3>2, <3>3, <4>1
    <3>4. CASE x # r
      <4>1. \A d \in out : clientRoom[d] = r \/ d = c
        BY <1>2, <1>4, <3>1
      <4> QED BY <1>1, <1>6, <3>1, <3>2, <3>4, <4>1
    <3> QED BY <3>3, <3>4
  <2>2. \A d \in Clients : clientRoom'[d] # NoRoom => sessions'[d] # {}
    BY <1>1, <1>3 DEF IInv, ListsAgree
  <2>3. Range(sessionOrder') = {d \in Clients : sessions'[d] # {}}
    BY <1>1, <1>3, <1>9 DEF IInv, ListsAgree
  <2> QED BY <1>9, <2>1, <2>2, <2>3 DEF ListsAgree
<1>11. LenBound'
  <2>1. roomOrder'[r] = Keep(list, Clients \ out)
    BY <1>1
  <2> QED BY <1>5, <1>6, <2>1 DEF LenBound
<1>12. TypeOK'
  <2>1. sessions' \in [Clients -> SUBSET Sids]
    BY <1>1, <1>3
  <2>2. clientRoom' \in [Clients -> Rooms \cup {NoRoom}]
    BY <1>1 DEF IInv, TypeOK
  <2>3. clientType' \in [Clients -> ClientTypes]
    BY <1>1, <1>3, ConstantsAssumption
  <2>4. subscribed' \in [Sids -> SUBSET Rooms]
    BY <1>1 DEF IInv, TypeOK
  <2>5. \A x \in Rooms : RoomClients(x)' \in Seq(Clients)
    BY <1>7, KeepProperties DEF RoomClients
  <2>6. stats' \in [Rooms -> Seq(Clients)]
    BY <1>1, <2>5 DEF IInv, TypeOK
  <2> QED BY <1>1, <1>7, <1>9, <2>1, <2>2, <2>3, <2>4, <2>6 DEF IInv, TypeOK
<1> QED BY <1>10, <1>11, <1>12 DEF IInv

(***************************************************************************)
(* The strengthening holds initially and every handler preserves it.       *)
(***************************************************************************)
LEMMA InitInvariant == Init => IInv
<1> SUFFICES ASSUME Init PROVE IInv
  OBVIOUS
<1>1. TypeOK
  BY ConstantsAssumption DEF Init, TypeOK
<1>2. Range(<< >>) = {} /\ IsInjective(<< >>) /\ Len(<< >>) = 0
  BY DEF Range, IsInjective
<1>3. \A r \in Rooms : roomOrder[r] = << >> /\ {c \in Clients : clientRoom[c] = r} = {}
  BY ConstantsAssumption DEF Init
<1>4. sessionOrder = << >> /\ {c \in Clients : sessions[c] # {}} = {}
  BY DEF Init
<1>5. \A c \in Clients : clientRoom[c] = NoRoom
  BY DEF Init
<1>6. ListsAgree
  BY <1>2, <1>3, <1>4, <1>5 DEF ListsAgree
<1>7. LenBound
  BY <1>2, <1>3, ConstantsAssumption DEF LenBound
<1> QED BY <1>1, <1>6, <1>7 DEF IInv

LEMMA StatsType ==
  ASSUME roomOrder' \in [Rooms -> Seq(Clients)], TypeOK, NEW rs, BroadcastStats(rs)
  PROVE  stats' \in [Rooms -> Seq(Clients)]
<1>1. \A x \in Rooms : RoomClients(x)' \in Seq(Clients)
  BY KeepProperties DEF RoomClients
<1> QED BY <1>1 DEF BroadcastStats, TypeOK

LEMMA NextInvariant == IInv /\ [Next]_vars => IInv'
<1> SUFFICES ASSUME IInv, [Next]_vars PROVE IInv'
  OBVIOUS
<1>1. ASSUME UNCHANGED tracking
      PROVE  ListsAgree' /\ LenBound'
  BY <1>1 DEF IInv, ListsAgree, LenBound, tracking
<1>2. ASSUME NEW s \in Sids, Connect(s) PROVE IInv'
  <2>1. TypeOK'
    BY <1>2 DEF Connect, IInv, TypeOK, tracking
  <2> QED BY <1>1, <1>2, <2>1 DEF Connect, IInv
<1>3. ASSUME NEW s \in Sids, NEW r \in Rooms, JoinUntracked(s, r) PROVE IInv'
  <2>1. TypeOK'
    BY <1>3 DEF JoinUntracked, IInv, TypeOK, tracking
  <2> QED BY <1>1, <1>3, <2>1 DEF JoinUntracked, IInv
<1>4. ASSUME NEW s \in Sids, NEW c \in Clients, NEW t \in ClientTypes,
             Track(s, c, t), subscribed' \in [Sids -> SUBSET Rooms]
      PROVE  IInv'
  <2>1. sessionOrder \in Seq(Clients) /\ IsInjective(sessionOrder)
    BY DEF IInv, TypeOK, ListsAgree
  <2>2. /\ sessionOrder' \in Seq(Clients)
        /\ Range(sessionOrder') = Range(sessionOrder) \cup {c}
        /\ IsInjective(sessionOrder')
    BY <1>4, <2>1, AppendNewProperties DEF Track
  <2>3. /\ sessions' \in [Clients -> SUBSET Sids]
        /\ \A d \in Clients : sessions'[d] # {} <=> sessions[d] # {} \/ d = c
    BY <1>4 DEF Track, IInv, TypeOK
  <2>4. TypeOK'
    BY <1>4, <2>2, <2>3 DEF Track, IInv, TypeOK
  <2>5. Range(sessionOrder') = {d \in Clients : sessions'[d] # {}}
    BY <2>2, <2>3 DEF IInv, ListsAgree
  <2>6. ListsAgree'
    BY <1>4, <2>2, <2>3, <2>5 DEF Track, IInv, ListsAgree
  <2>7. LenBound'
    BY <1>4 DEF Track, IInv, LenBound
  <2> QED BY <2>4, <2>6, <2>7 DEF IInv
<1>5. ASSUME NEW s \in Sids, NEW c \in Clients, NEW t \in ClientTypes, NEW r \in Rooms,
             Join(s, c, t, r)
      PROVE  IInv'
  BY <1>5, JoinInvariant
<1>6. ASSUME NEW s \in Sids, NEW r \in Rooms, Leave(s, r) PROVE IInv'
  <2>1. DetachSid(s)
    BY <1>6 DEF Leave
  <2>2. stats' \in [Rooms -> Seq(Clients)]
    BY <1>6, <2>1, DetachInvariant, StatsType DEF Leave, IInv
  <2>3. connected' \subseteq Sids /\ subscribed' \in [Sids -> SUBSET Rooms]
    BY <1>6 DEF Leave, IInv, TypeOK
  <2>4. TypeOK'
    BY <2>1, <2>2, <2>3, DetachInvariant DEF TypeOK
  <2> QED BY <2>1, <2>4, DetachInvariant DEF IInv
<1>7. ASSUME NEW s \in Sids, Disconnect(s) PROVE IInv'
  <2>1. DetachSid(s)
    BY <1>7 DEF Disconnect
  <2>2. stats' \in [Rooms -> Seq(Clients)]
    BY <1>7, <2>1, DetachInvariant, StatsType DEF Disconnect, IInv
  <2>3. connected' \subseteq Sids /\ subscribed' \in [Sids -> SUBSET Rooms]
    BY <1>7 DEF Disconnect, IInv, TypeOK
  <2>4. TypeOK'
    BY <2>1, <2>2, <2>3, DetachInvariant DEF TypeOK
  <2> QED BY <2>1, <2>4, DetachInvariant DEF IInv
<1>8. CASE UNCHANGED vars
  <2>1. TypeOK'
    BY <1>8 DEF vars, tracking, IInv, TypeOK
  <2> QED BY <1>1, <1>8, <2>1 DEF vars, IInv
<1>9. ASSUME NEW s \in Sids, NEW c \in Clients, NEW t \in ClientTypes,
             JoinWithoutRoom(s, c, t)
      PROVE  IInv'
  BY <1>4, <1>9 DEF JoinWithoutRoom, IInv, TypeOK
<1>10. ASSUME NEW s \in Sids, NEW c \in Clients, NEW t \in ClientTypes, NEW r \in Rooms,
              JoinAborted(s, c, t, r)
       PROVE  IInv'
  BY <1>4, <1>10 DEF JoinAborted, IInv, TypeOK
<1> QED BY <1>2, <1>3, <1>5, <1>6, <1>7, <1>8, <1>9, <1>10 DEF Next

(***************************************************************************)
(* The strengthening is an invariant of the specification.                 *)
(***************************************************************************)
THEOREM StrengthenedInvariant == Spec => []IInv
BY InitInvariant, NextInvariant, PTL DEF Spec

(***************************************************************************)
(* Every dictionary of the tracker keeps its type: in particular the list  *)
(* of a room never holds anything but client ids.                          *)
(***************************************************************************)
THEOREM TypeCorrectness == Spec => []TypeOK
<1>1. IInv => TypeOK
  BY DEF IInv
<1> QED BY <1>1, StrengthenedInvariant, PTL

(***************************************************************************)
(* The lists of the rooms, CLIENT_ROOMS and CLIENT_SESSIONS always agree,  *)
(* so the filter of get_room_client_ids is the identity.                   *)
(***************************************************************************)
THEOREM ListsAlwaysAgree == Spec => []ListsAgree
<1>1. IInv => ListsAgree
  BY DEF IInv
<1> QED BY <1>1, StrengthenedInvariant, PTL

(***************************************************************************)
(* A room never tracks more than ROOM_MAX_PEERS clients.                   *)
(***************************************************************************)
LEMMA CapacityFromLists == IInv => RoomCapacity
<1> SUFFICES ASSUME IInv, NEW r \in Rooms
             PROVE  Cardinality({c \in Clients : clientRoom[c] = r}) <= RoomMaxPeers
  BY DEF RoomCapacity
<1>1. /\ roomOrder[r] \in Seq(Clients)
      /\ Len(roomOrder[r]) <= RoomMaxPeers
      /\ Range(roomOrder[r]) = {c \in Clients : clientRoom[c] = r}
  BY DEF IInv, TypeOK, ListsAgree, LenBound
<1>2. Cardinality(Range(roomOrder[r])) <= Len(roomOrder[r])
  BY <1>1, RangeCardinality
<1>3. Cardinality(Range(roomOrder[r])) \in Nat
  BY <1>1, RangeCardinality, FS_CardinalityType
<1>4. Len(roomOrder[r]) \in Nat /\ RoomMaxPeers \in Nat
  BY <1>1, ConstantsAssumption
<1> QED BY <1>1, <1>2, <1>3, <1>4

THEOREM CapacityHolds == Spec => []RoomCapacity
BY CapacityFromLists, StrengthenedInvariant, PTL

------------------------------------------------------------------------------
(***************************************************************************)
(* The last room_stats of every room lists its present members.            *)
(***************************************************************************)
LEMMA ClientsAreTheList ==
  ASSUME IInv, NEW r \in Rooms
  PROVE  RoomClients(r) = roomOrder[r]
<1>1. roomOrder[r] \in Seq(Clients)
  BY DEF IInv, TypeOK
<1>2. Range(roomOrder[r]) \subseteq {c \in Clients : clientRoom[c] = r /\ sessions[c] # {}}
  BY ConstantsAssumption DEF IInv, ListsAgree
<1> QED BY <1>1, <1>2, KeepAll DEF RoomClients

\* A detachment rewrites only the lists of the rooms of the purged client.
LEMMA DetachTouches ==
  ASSUME IInv, NEW s \in Sids, DetachSid(s), NEW r \in Rooms,
         r \notin {clientRoom[c] : c \in LastSessionOf(s)}
  PROVE  roomOrder'[r] = roomOrder[r]
<1> DEFINE kept == {c \in Clients : ~ (c \in LastSessionOf(s) /\ clientRoom[c] = r)}
<1>1. roomOrder'[r] = Keep(roomOrder[r], kept)
  BY DEF DetachSid, ListsWithout
<1>2. kept = Clients
  OBVIOUS
<1>3. roomOrder[r] \in Seq(Clients) /\ Range(roomOrder[r]) \subseteq Clients
  BY DEF IInv, TypeOK, ListsAgree
<1> QED BY <1>1, <1>2, <1>3, KeepAll

LEMMA BroadcastCurrent ==
  ASSUME IInv', \A r \in Rooms : stats[r] = roomOrder[r], NEW rs, BroadcastStats(rs),
         \A r \in Rooms \ rs : roomOrder'[r] = roomOrder[r]
  PROVE  \A r \in Rooms : stats'[r] = roomOrder'[r]
<1>1. ASSUME NEW r \in Rooms PROVE RoomClients(r)' = roomOrder'[r]
  <2>1. (IInv => RoomClients(r) = roomOrder[r])'
    BY ClientsAreTheList, PTL
  <2> QED BY <2>1
<1> QED BY <1>1 DEF BroadcastStats

LEMMA StatsPreserved ==
  ASSUME IInv, [Next]_vars, \A r \in Rooms : stats[r] = roomOrder[r]
  PROVE  \A r \in Rooms : stats'[r] = roomOrder'[r]
<1>1. IInv'
  BY NextInvariant
<1>2. CASE UNCHANGED <<roomOrder, stats>>
  BY <1>2
<1>3. ASSUME NEW s \in Sids, NEW c \in Clients, NEW t \in ClientTypes, NEW r \in Rooms,
             Join(s, c, t, r)
      PROVE  \A x \in Rooms : stats'[x] = roomOrder'[x]
  <2> DEFINE moved == {clientRoom[c]} \ {r, NoRoom}
  <2>1. BroadcastStats({r} \cup moved)
    BY <1>3 DEF Join
  <2>2. \A x \in Rooms \ ({r} \cup moved) : roomOrder'[x] = roomOrder[x]
    BY <1>3 DEF Join
  <2> QED BY <1>1, <2>1, <2>2, BroadcastCurrent
<1>4. ASSUME NEW s \in Sids, NEW r \in Rooms, Leave(s, r)
      PROVE  \A x \in Rooms : stats'[x] = roomOrder'[x]
  <2> DEFINE rs == {r} \cup {clientRoom[c] : c \in LastSessionOf(s)}
  <2>1. BroadcastStats(rs) /\ DetachSid(s)
    BY <1>4 DEF Leave
  <2>2. \A x \in Rooms \ rs : roomOrder'[x] = roomOrder[x]
    BY <2>1, DetachTouches
  <2> QED BY <1>1, <2>1, <2>2, BroadcastCurrent
<1>5. ASSUME NEW s \in Sids, Disconnect(s)
      PROVE  \A x \in Rooms : stats'[x] = roomOrder'[x]
  <2> DEFINE rs == {clientRoom[c] : c \in LastSessionOf(s)}
  <2>1. BroadcastStats(rs) /\ DetachSid(s)
    BY <1>5 DEF Disconnect
  <2>2. \A x \in Rooms \ rs : roomOrder'[x] = roomOrder[x]
    BY <2>1, DetachTouches
  <2> QED BY <1>1, <2>1, <2>2, BroadcastCurrent
<1>6. ASSUME NEW s \in Sids,
             \/ Connect(s)
             \/ \E r \in Rooms : JoinUntracked(s, r)
             \/ \E c \in Clients, t \in ClientTypes :
                  JoinWithoutRoom(s, c, t) \/ \E r \in Rooms : JoinAborted(s, c, t, r)
      PROVE  UNCHANGED <<roomOrder, stats>>
  BY <1>6 DEF Connect, JoinUntracked, JoinWithoutRoom, JoinAborted, Track, tracking
<1>7. CASE UNCHANGED vars
  BY <1>2, <1>7 DEF vars, tracking
<1> QED BY <1>2, <1>3, <1>4, <1>5, <1>6, <1>7 DEF Next

THEOREM StatsAlwaysCurrent == Spec => []StatsCurrent
<1> DEFINE S == \A r \in Rooms : stats[r] = roomOrder[r]
<1>1. Init => S
  BY DEF Init
<1>2. IInv /\ S /\ [Next]_vars => S'
  BY StatsPreserved
<1>3. IInv /\ S => StatsCurrent
  BY ClientsAreTheList DEF StatsCurrent
<1> HIDE DEF S
<1> QED BY <1>1, <1>2, <1>3, StrengthenedInvariant, PTL DEF Spec

------------------------------------------------------------------------------
(***************************************************************************)
(* A sid is held under ids of its device only, and one that outlives its   *)
(* socket is held under fewer ids than the device has: with one id per     *)
(* device, on_disconnect always forgets the sid.                           *)
(***************************************************************************)
HeldWithinUses == \A s \in Sids : Holders(s) \subseteq Uses[s]

LEMMA HoldersFinite ==
  ASSUME NEW s \in Sids, NEW H \in SUBSET Uses[s]
  PROVE  /\ IsFiniteSet(H) /\ Cardinality(H) \in Nat
         /\ IsFiniteSet(Uses[s]) /\ Cardinality(Uses[s]) \in Nat
         /\ Cardinality(H) <= Cardinality(Uses[s])
<1>1. Uses[s] \subseteq Clients /\ IsFiniteSet(Clients)
  BY ConstantsAssumption
<1>2. IsFiniteSet(Uses[s])
  BY <1>1, FS_Subset
<1> QED BY <1>2, FS_Subset, FS_CardinalityType

LEMMA HoldersAfterDetach ==
  ASSUME IInv, NEW s \in Sids, DetachSid(s)
  PROVE  /\ \A x \in Sids \ {s} : Holders(x)' = Holders(x)
         /\ Holders(s)' \subseteq Holders(s)
         /\ Holders(s) # {} => Holders(s)' # Holders(s)
<1>1. \A c \in Clients : sessions'[c] = IF c = ClientFromSid(s) THEN sessions[c] \ {s}
                                                                ELSE sessions[c]
  BY DEF DetachSid, LastSessionOf
<1>2. Holders(s) # {} => ClientFromSid(s) \in Holders(s)
  BY ClientFromSidHolds
<1> QED BY <1>1, <1>2 DEF Holders

LEMMA GhostsPreserved ==
  ASSUME IInv, [Next]_vars, HeldWithinUses, GhostsNeedTwoIds
  PROVE  HeldWithinUses' /\ GhostsNeedTwoIds'
<1>1. ASSUME \A x \in Sids : Holders(x)' \subseteq Holders(x), connected \subseteq connected'
      PROVE  HeldWithinUses' /\ GhostsNeedTwoIds'
  <2>1. HeldWithinUses'
    BY <1>1 DEF HeldWithinUses
  <2>2. ASSUME NEW x \in Sids \ connected', Holders(x)' # {}
        PROVE  Cardinality(Holders(x)') < Cardinality(Uses[x])
    <3>1. x \in Sids \ connected /\ Holders(x)' \subseteq Holders(x) /\ Holders(x) # {}
      BY <1>1, <2>2
    <3>2. Cardinality(Holders(x)) < Cardinality(Uses[x])
      BY <3>1 DEF GhostsNeedTwoIds
    <3>3. /\ IsFiniteSet(Holders(x)) /\ Cardinality(Holders(x)) \in Nat
          /\ Cardinality(Uses[x]) \in Nat
      BY <3>1, HoldersFinite DEF HeldWithinUses
    <3>4. Cardinality(Holders(x)') <= Cardinality(Holders(x)) /\ Cardinality(Holders(x)') \in Nat
      BY <3>1, <3>3, FS_Subset, FS_CardinalityType
    <3> QED BY <3>2, <3>3, <3>4
  <2> QED BY <2>1, <2>2 DEF GhostsNeedTwoIds
\* A handler that adds s, of an open socket, to the sessions of c.
<1>2. ASSUME NEW s \in connected, NEW c \in Uses[s], connected' = connected,
             \A x \in Sids : Holders(x)' \subseteq Holders(x) \cup (IF x = s THEN {c} ELSE {})
      PROVE  HeldWithinUses' /\ GhostsNeedTwoIds'
  <2>1. HeldWithinUses'
    BY <1>2 DEF HeldWithinUses
  <2>2. ASSUME NEW x \in Sids \ connected', Holders(x)' # {}
        PROVE  Cardinality(Holders(x)') < Cardinality(Uses[x])
    <3>1. x \in Sids \ connected /\ Holders(x)' \subseteq Holders(x) /\ Holders(x) # {}
      BY <1>2, <2>2
    <3>2. Cardinality(Holders(x)) < Cardinality(Uses[x])
      BY <3>1 DEF GhostsNeedTwoIds
    <3>3. /\ IsFiniteSet(Holders(x)) /\ Cardinality(Holders(x)) \in Nat
          /\ Cardinality(Uses[x]) \in Nat
      BY <3>1, HoldersFinite DEF HeldWithinUses
    <3>4. Cardinality(Holders(x)') <= Cardinality(Holders(x)) /\ Cardinality(Holders(x)') \in Nat
      BY <3>1, <3>3, FS_Subset, FS_CardinalityType
    <3> QED BY <3>2, <3>3, <3>4
  <2> QED BY <2>1, <2>2 DEF GhostsNeedTwoIds
<1>3. ASSUME NEW s \in Sids, Connect(s) PROVE HeldWithinUses' /\ GhostsNeedTwoIds'
  BY <1>1, <1>3 DEF Connect, tracking, Holders
<1>4. ASSUME NEW s \in Sids, NEW r \in Rooms, JoinUntracked(s, r)
      PROVE  HeldWithinUses' /\ GhostsNeedTwoIds'
  BY <1>1, <1>4 DEF JoinUntracked, tracking, Holders
<1>5. ASSUME NEW s \in Sids, NEW c \in Clients, NEW t \in ClientTypes,
             Track(s, c, t)
      PROVE  HeldWithinUses' /\ GhostsNeedTwoIds'
  <2>1. \A x \in Sids : Holders(x)' \subseteq Holders(x) \cup (IF x = s THEN {c} ELSE {})
    BY <1>5 DEF Track, Holders, IInv, TypeOK
  <2> QED BY <1>2, <1>5, <2>1 DEF Track
<1>6. ASSUME NEW s \in Sids, NEW c \in Clients, NEW t \in ClientTypes, NEW r \in Rooms,
             Join(s, c, t, r)
      PROVE  HeldWithinUses' /\ GhostsNeedTwoIds'
  <2>1. \A d \in Clients : sessions'[d] \subseteq sessions[d] \cup (IF d = c THEN {s} ELSE {})
    BY <1>6 DEF Join, IInv, TypeOK
  <2>2. \A x \in Sids : Holders(x)' \subseteq Holders(x) \cup (IF x = s THEN {c} ELSE {})
    BY <2>1 DEF Holders
  <2> QED BY <1>2, <1>6, <2>2 DEF Join
<1>7. ASSUME NEW s \in Sids, NEW r \in Rooms, Leave(s, r)
      PROVE  HeldWithinUses' /\ GhostsNeedTwoIds'
  <2>1. \A x \in Sids : Holders(x)' \subseteq Holders(x)
    BY <1>7, HoldersAfterDetach DEF Leave
  <2> QED BY <1>1, <1>7, <2>1 DEF Leave
<1>8. ASSUME NEW s \in Sids, Disconnect(s)
      PROVE  HeldWithinUses' /\ GhostsNeedTwoIds'
  <2>1. DetachSid(s) /\ connected' = connected \ {s}
    BY <1>8 DEF Disconnect
  <2>2. \A x \in Sids : Holders(x)' \subseteq Holders(x)
    BY <2>1, HoldersAfterDetach
  <2>3. HeldWithinUses'
    BY <2>2 DEF HeldWithinUses
  <2>4. ASSUME NEW x \in Sids \ connected', Holders(x)' # {}
        PROVE  Cardinality(Holders(x)') < Cardinality(Uses[x])
    <3>1. CASE x = s
      <4>1. Holders(s) # {} /\ Holders(s)' \subseteq Holders(s) /\ Holders(s)' # Holders(s)
        BY <2>1, <2>4, <3>1, HoldersAfterDetach
      <4>2. /\ IsFiniteSet(Holders(s)) /\ Cardinality(Holders(s)) \in Nat
            /\ Cardinality(Uses[s]) \in Nat /\ Cardinality(Holders(s)) <= Cardinality(Uses[s])
        BY HoldersFinite DEF HeldWithinUses
      <4>3. Cardinality(Holders(s)') < Cardinality(Holders(s)) /\ Cardinality(Holders(s)') \in Nat
        BY <4>1, <4>2, FS_Subset, FS_CardinalityType
      <4> QED BY <3>1, <4>2, <4>3
    <3>2. CASE x # s
      <4>1. x \in Sids \ connected /\ Holders(x)' = Holders(x)
        BY <2>1, <2>4, <3>2, HoldersAfterDetach
      <4> QED BY <2>4, <4>1 DEF GhostsNeedTwoIds
    <3> QED BY <3>1, <3>2
  <2> QED BY <2>3, <2>4 DEF GhostsNeedTwoIds
<1>9. CASE UNCHANGED vars
  BY <1>1, <1>9 DEF vars, tracking, Holders
<1> QED BY <1>3, <1>4, <1>5, <1>6, <1>7, <1>8, <1>9 DEF Next, JoinWithoutRoom, JoinAborted

THEOREM GhostsAlwaysNeedTwoIds == Spec => []GhostsNeedTwoIds
<1>1. Init => HeldWithinUses /\ GhostsNeedTwoIds
  BY DEF Init, HeldWithinUses, GhostsNeedTwoIds, Holders
<1>2. IInv /\ HeldWithinUses /\ GhostsNeedTwoIds /\ [Next]_vars
        => HeldWithinUses' /\ GhostsNeedTwoIds'
  BY GhostsPreserved
<1> QED BY <1>1, <1>2, StrengthenedInvariant, PTL DEF Spec

------------------------------------------------------------------------------
(***************************************************************************)
(* Refinement: every handler of the tracker is a step of Membership or     *)
(* changes nothing that Membership sees.                                   *)
(***************************************************************************)
Tracked == {c \in Clients : sessions[c] # {}}

LEMMA DetachRefines ==
  ASSUME IInv, NEW s \in Sids, DetachSid(s)
  PROVE  \/ \E c \in Clients : M!Exit(c)
         \/ Tracked' = Tracked /\ clientRoom' = clientRoom
<1> DEFINE gone == LastSessionOf(s)
<1>1. \A c \in Clients : /\ c \in gone <=> c = ClientFromSid(s) /\ sessions[c] = {s}
                         /\ sessions'[c] # {} <=> sessions[c] # {} /\ c \notin gone
  BY DEF DetachSid, LastSessionOf
<1>2. clientRoom' = [c \in Clients |-> IF c \in gone THEN NoRoom ELSE clientRoom[c]]
  BY DEF DetachSid
<1>3. gone \subseteq Clients
  BY DEF LastSessionOf
<1>4. clientRoom \in [Clients -> Rooms \cup {NoRoom}]
  BY DEF IInv, TypeOK
<1> HIDE DEF gone
<1>5. CASE gone = {}
  BY <1>1, <1>2, <1>4, <1>5 DEF Tracked
<1>6. CASE gone # {}
  <2>1. PICK c \in Clients : c \in gone
    BY <1>3, <1>6
  <2>2. gone = {c}
    BY <1>1, <1>3, <2>1
  <2>3. c \in Tracked /\ Tracked' = Tracked \ {c}
    BY <1>1, <2>2 DEF Tracked
  <2>4. clientRoom' = [clientRoom EXCEPT ![c] = NoRoom]
    BY <1>2, <1>4, <2>2
  <2> QED BY <2>3, <2>4 DEF M!Exit, Tracked
<1> QED BY <1>5, <1>6

LEMMA SameCardinality == \A S : M!Cardinality(S) = Cardinality(S)
BY DEF M!Cardinality, Cardinality

LEMMA JoinRefines ==
  ASSUME IInv, NEW s \in Sids, NEW c \in Clients, NEW t \in ClientTypes, NEW r \in Rooms,
         Join(s, c, t, r)
  PROVE  \E out \in SUBSET Clients : M!Enter(c, r, out)
<1> DEFINE held  == [sessions EXCEPT ![c] = @ \cup {s}]
           types == [clientType EXCEPT ![c] = t]
           list  == AppendNew(roomOrder[r], c)
           out   == Evicted(list, types)
           members == {d \in Clients : clientRoom[d] = r}
<1>1. /\ sessions' = [d \in Clients |-> IF d \in out THEN {} ELSE held[d]]
      /\ clientRoom' = [d \in Clients |-> IF d \in out THEN NoRoom
                                          ELSE IF d = c THEN r ELSE clientRoom[d]]
  BY DEF Join
<1>2. /\ list \in Seq(Clients)
      /\ Range(list) = members \cup {c}
      /\ IsInjective(list)
      /\ Len(list) <= RoomMaxPeers + 1
  <2>1. /\ roomOrder[r] \in Seq(Clients)
        /\ IsInjective(roomOrder[r])
        /\ Len(roomOrder[r]) <= RoomMaxPeers
        /\ Range(roomOrder[r]) = members
    BY DEF IInv, TypeOK, ListsAgree, LenBound
  <2> HIDE DEF members
  <2>2. /\ AppendNew(roomOrder[r], c) \in Seq(Clients)
        /\ Range(AppendNew(roomOrder[r], c)) = Range(roomOrder[r]) \cup {c}
        /\ Len(AppendNew(roomOrder[r], c)) <= Len(roomOrder[r]) + 1
        /\ IsInjective(AppendNew(roomOrder[r], c))
    BY <2>1, AppendNewProperties
  <2>3. Len(AppendNew(roomOrder[r], c)) \in Nat /\ Len(roomOrder[r]) \in Nat
    BY <2>1, <2>2
  <2> QED BY <2>1, <2>2, <2>3, ConstantsAssumption
<1>3. \A d \in Clients : held[d] # {} <=> sessions[d] # {} \/ d = c
  BY DEF IInv, TypeOK
<1> HIDE DEF held, types, list, members
<1>4. /\ out \subseteq Range(list)
      /\ Len(list) <= RoomMaxPeers => out = {}
  BY <1>2, EvictedProperties
<1>4a. \A d, e \in out : d = e
  <2>1. Len(list) \in Nat /\ RoomMaxPeers \in Nat
    BY <1>2, ConstantsAssumption
  <2>2. \A i, j \in 1..(Len(list) - RoomMaxPeers) : i = j
    BY <1>2, <2>1
  <2> QED BY <2>2 DEF Evicted
<1> HIDE DEF out
<1>5. out # {} => Cardinality(Range(list)) > RoomMaxPeers
  <2>1. Cardinality(Range(list)) = Len(list)
    BY <1>2, RangeCardinality
  <2>2. Len(list) \in Nat /\ RoomMaxPeers \in Nat
    BY <1>2, ConstantsAssumption
  <2> QED BY <1>4, <2>1, <2>2
<1>6. Tracked' = (Tracked \cup {c}) \ out
  BY <1>1, <1>3 DEF Tracked
<1>7. Cardinality({d \in Clients : clientRoom'[d] = r}) <= RoomMaxPeers
  <2>1. IInv' => RoomCapacity'
    BY CapacityFromLists, PTL
  <2> QED BY <2>1, JoinInvariant DEF RoomCapacity
<1>8. out \in SUBSET Clients /\ out \subseteq members \cup {c}
  BY <1>2, <1>4 DEF members
<1>9. out # {} => Cardinality(members \cup {c}) > RoomMaxPeers
  BY <1>2, <1>5
<1>10. PICK o \in SUBSET Clients : o = out
  BY <1>8
<1>11. M!Enter(c, r, o)
  BY <1>1, <1>4a, <1>6, <1>7, <1>8, <1>9, <1>10, SameCardinality DEF M!Enter, M!Members, Tracked, members
<1> QED BY <1>11

THEOREM RoomsImplementMembership == Spec => ImplementsMembership
<1>1. Init => M!MembershipInit
  BY DEF Init, M!MembershipInit
<1>2. IInv /\ [Next]_vars => [M!MembershipNext]_<<Tracked, clientRoom>>
  <2> SUFFICES ASSUME IInv, [Next]_vars
               PROVE  \/ M!MembershipNext
                      \/ Tracked' = Tracked /\ clientRoom' = clientRoom
    OBVIOUS
  <2>1. ASSUME UNCHANGED <<sessions, clientRoom>>
        PROVE  Tracked' = Tracked /\ clientRoom' = clientRoom
    BY <2>1 DEF Tracked
  <2>2. ASSUME NEW s \in Sids, NEW c \in Clients, NEW t \in ClientTypes, Track(s, c, t)
        PROVE  M!MembershipNext
    <3>1. Tracked' = Tracked \cup {c} /\ clientRoom' = clientRoom
      BY <2>2 DEF Track, Tracked, IInv, TypeOK
    <3> QED BY <3>1 DEF M!MembershipNext, M!Appear, Tracked
  <2>3. ASSUME NEW s \in Sids, NEW c \in Clients, NEW t \in ClientTypes, NEW r \in Rooms,
               Join(s, c, t, r)
        PROVE  M!MembershipNext
    BY <2>3, JoinRefines DEF M!MembershipNext
  <2>4. ASSUME NEW s \in Sids, DetachSid(s)
        PROVE  \/ M!MembershipNext
               \/ Tracked' = Tracked /\ clientRoom' = clientRoom
    BY <2>4, DetachRefines DEF M!MembershipNext
  <2>5. ASSUME NEW s \in Sids, Connect(s) \/ \E r \in Rooms : JoinUntracked(s, r)
        PROVE  UNCHANGED <<sessions, clientRoom>>
    BY <2>5 DEF Connect, JoinUntracked, tracking
  <2>6. CASE UNCHANGED vars
    BY <2>1, <2>6 DEF vars, tracking
  <2> QED BY <2>1, <2>2, <2>3, <2>4, <2>5, <2>6
          DEF Next, JoinWithoutRoom, JoinAborted, Leave, Disconnect
<1> QED BY <1>1, <1>2, StrengthenedInvariant, PTL
        DEF Spec, ImplementsMembership, M!MembershipSpec, Tracked

------------------------------------------------------------------------------
(***************************************************************************)
(* What an eviction does, and to whom.                                     *)
(***************************************************************************)
\* The list that a join makes of the room.
LEMMA ListOfArrival ==
  ASSUME IInv, NEW c \in Clients, NEW r \in Rooms, NEW list, list = AppendNew(roomOrder[r], c)
  PROVE  /\ list \in Seq(Clients)
         /\ Range(list) = Range(roomOrder[r]) \cup {c}
         /\ IsInjective(list)
         /\ Len(list) <= RoomMaxPeers + 1
<1>1. /\ roomOrder[r] \in Seq(Clients)
      /\ IsInjective(roomOrder[r])
      /\ Len(roomOrder[r]) <= RoomMaxPeers
  BY DEF IInv, TypeOK, ListsAgree, LenBound
<1>2. /\ list \in Seq(Clients)
      /\ Range(list) = Range(roomOrder[r]) \cup {c}
      /\ Len(list) <= Len(roomOrder[r]) + 1
      /\ IsInjective(list)
  BY <1>1, AppendNewProperties
<1>3. Len(list) \in Nat /\ Len(roomOrder[r]) \in Nat
  BY <1>1, <1>2
<1> QED BY <1>1, <1>2, <1>3, ConstantsAssumption

\* At most one client is evicted, from a list that has one too many.
LEMMA OneIsEvicted ==
  ASSUME NEW q \in Seq(Clients), NEW types, Len(q) <= RoomMaxPeers + 1, NEW d \in Evicted(q, types)
  PROVE  Evicted(q, types) = {d} /\ Len(q) = RoomMaxPeers + 1 /\ d = EvictionOrder(q, types)[1]
<1>1. Len(q) \in Nat /\ RoomMaxPeers \in Nat
  BY ConstantsAssumption
<1>2. PICK i \in 1..(Len(q) - RoomMaxPeers) : d = EvictionOrder(q, types)[i]
  BY DEF Evicted
<1>3. Len(q) - RoomMaxPeers = 1 /\ i = 1
  BY <1>1, <1>2
<1>4. 1..(Len(q) - RoomMaxPeers) = {1}
  BY <1>3
<1> QED BY <1>1, <1>2, <1>3, <1>4 DEF Evicted

\* A room that evicted is full.
LEMMA FullAfterEviction ==
  ASSUME NEW q \in Seq(Clients), IsInjective(q), NEW d \in Range(q), Len(q) = RoomMaxPeers + 1
  PROVE  Len(Keep(q, Clients \ {d})) = RoomMaxPeers
<1> DEFINE kept == Keep(q, Clients \ {d})
<1>1. kept \in Seq(Clients) /\ Range(kept) = Range(q) \cap (Clients \ {d}) /\ IsInjective(kept)
  BY KeepProperties, KeepInjective
<1> HIDE DEF kept
<1>2. Cardinality(Range(q)) = Len(q) /\ IsFiniteSet(Range(q))
  BY RangeCardinality
<1>3. Cardinality(Range(kept)) = Len(kept)
  BY <1>1, RangeCardinality
<1>4. Range(kept) = Range(q) \ {d}
  <2>1. Range(q) \subseteq Clients
    BY DEF Range
  <2> QED BY <1>1, <2>1
<1>5. Cardinality(Range(q) \ {d}) = Cardinality(Range(q)) - 1
  BY <1>2, FS_RemoveElement
<1>6. RoomMaxPeers \in Nat
  BY ConstantsAssumption
<1>7. Len(kept) = (RoomMaxPeers + 1) - 1
  BY <1>2, <1>3, <1>4, <1>5
<1> QED BY <1>6, <1>7 DEF kept

\* A client with several sessions is not dropped by a detachment.
LEMMA DetachDropsOne ==
  ASSUME NEW s \in Sids, DetachSid(s), NEW c \in Clients, sessions'[c] = {}
  PROVE  Cardinality(sessions[c]) \in {0, 1}
<1>1. c \in LastSessionOf(s) => sessions[c] = {s}
  BY DEF LastSessionOf
<1>2. sessions'[c] = IF c \in LastSessionOf(s) THEN {}
                     ELSE IF c = ClientFromSid(s) THEN sessions[c] \ {s}
                     ELSE sessions[c]
  BY DEF DetachSid
<1>3. sessions[c] = {} \/ sessions[c] = {s}
  BY <1>1, <1>2
<1>4. Cardinality({}) = 0 /\ Cardinality({s}) = 1
  BY FS_EmptySet, FS_Singleton
<1> QED BY <1>3, <1>4

(***************************************************************************)
(* With any number of devices and sockets, a client with a second session  *)
(* is lost to the tracker only by an eviction from a room that stays full, *)
(* and none of its sockets hears that room any more.                       *)
(***************************************************************************)
THEOREM OnlyEvictionsDropSeveral == Spec => OnlyEvictionDropsSeveral
<1> DEFINE Dropped(c) == Cardinality(sessions[c]) > 1 /\ sessions'[c] = {}
           PutOut(c) == \E r \in Rooms : /\ Len(roomOrder'[r]) = RoomMaxPeers
                                         /\ \A s \in sessions[c] : r \notin subscribed'[s]
           All == \A c \in Clients : Dropped(c) => PutOut(c)
<1>1. ASSUME IInv, [Next]_vars, NEW c \in Clients, Dropped(c) PROVE PutOut(c)
  <2>1. Cardinality(sessions[c]) \notin {0, 1} /\ sessions[c] # {}
    BY <1>1, FS_EmptySet
  <2>2. ASSUME NEW s \in Sids, Disconnect(s) \/ \E r \in Rooms : Leave(s, r)
        PROVE  FALSE
    BY <1>1, <2>1, <2>2, DetachDropsOne DEF Leave, Disconnect
  <2>3. ASSUME NEW s \in Sids, NEW d \in Clients, NEW t \in ClientTypes, Track(s, d, t)
        PROVE  FALSE
    BY <1>1, <2>1, <2>3 DEF Track, IInv, TypeOK
  <2>4. ASSUME UNCHANGED tracking PROVE FALSE
    BY <1>1, <2>1, <2>4 DEF tracking
  <2>5. ASSUME NEW s \in Sids, NEW d \in Clients, NEW t \in ClientTypes, NEW r \in Rooms, Join(s, d, t, r)
        PROVE  PutOut(c)
    <3> DEFINE held  == [sessions EXCEPT ![d] = @ \cup {s}]
               types == [clientType EXCEPT ![d] = t]
               list  == AppendNew(roomOrder[r], d)
               out   == Evicted(list, types)
    <3>1. /\ sessions' = [e \in Clients |-> IF e \in out THEN {} ELSE held[e]]
          /\ roomOrder'[r] = Keep(list, Clients \ out)
          /\ \A x \in EvictedSids(out, held) \cap Sids : subscribed'[x] = subscribed[x] \ {r}
      BY <2>5 DEF Join
    <3>2. /\ list \in Seq(Clients) /\ IsInjective(list) /\ Len(list) <= RoomMaxPeers + 1
      BY <1>1, ListOfArrival
    <3>3. sessions[c] \subseteq held[c] /\ held[c] # {} /\ sessions[c] \subseteq Sids
      BY <1>1, <2>1 DEF IInv, TypeOK
    <3>4. sessions[c] \subseteq held[c] /\ sessions[c] \subseteq Sids /\ c \in out
      BY <1>1, <3>1, <3>3
    <3> HIDE DEF held, types, list
    <3>5. out = {c} /\ Len(list) = RoomMaxPeers + 1 /\ c \in Range(list)
      BY <3>2, <3>4, OneIsEvicted, EvictedProperties
    <3> HIDE DEF out
    <3>6. Len(roomOrder'[r]) = RoomMaxPeers
      BY <3>1, <3>2, <3>5, FullAfterEviction
    <3>7. sessions[c] \subseteq EvictedSids(out, held) \cap Sids
      <4>1. held[c] \in {held[e] : e \in out}
        BY <3>4
      <4> QED BY <3>4, <4>1 DEF EvictedSids
    <3> QED BY <3>1, <3>6, <3>7
  <2> HIDE DEF PutOut
  <2> QED BY <1>1, <2>2, <2>3, <2>4, <2>5 DEF Next, Connect, JoinUntracked, JoinWithoutRoom, JoinAborted, vars
<1>2. ASSUME IInv, [Next]_vars PROVE [All]_vars
  BY <1>1, <1>2
<1> QED BY <1>2, StrengthenedInvariant, PTL DEF Spec, OnlyEvictionDropsSeveral

\* The first of a comprehension is the first of the list that passes the test.
LEMMA KeepFirst ==
  ASSUME NEW S, NEW s \in Seq(S), NEW P, NEW i \in 1..Len(s), s[i] \in P
  PROVE  Keep(s, P) # << >> /\ \E j \in 1..i : Keep(s, P)[1] = s[j]
<1> DEFINE K == KeepUpTo(s, P)
           First(n, k) == K[n] # << >> /\ \E j \in 1..k : K[n][1] = s[j]
           Good(n) == /\ K[n] \in Seq(S)
                      /\ K[n] # << >> => First(n, n)
                      /\ \A k \in 1..n : s[k] \in P => First(n, k)
           T == {n \in Nat : n <= Len(s) => Good(n)}
<1>1. Good(0)
  <2>1. K[0] = << >>
    BY KeepUpToDef
  <2> QED BY <2>1
<1>2. ASSUME NEW n \in Nat, n \in T, n + 1 <= Len(s)
      PROVE  Good(n + 1)
  <2>1. Good(n)
    BY <1>2
  <2>2. K[n+1] = IF s[n+1] \in P THEN Append(K[n], s[n+1]) ELSE K[n]
    BY <1>2, KeepUpToDef, n \in 0..(Len(s) - 1)
  <2>3. s[n+1] \in S
    BY <1>2
  <2> HIDE DEF K
  <2>4. CASE s[n+1] \notin P
    BY <2>1, <2>2, <2>4
  <2>5. CASE s[n+1] \in P /\ K[n] = << >>
    <3>1. K[n+1] \in Seq(S) /\ K[n+1] # << >> /\ K[n+1][1] = s[n+1]
      BY <2>1, <2>2, <2>3, <2>5
    <3>2. \A k \in 1..n : s[k] \notin P
      BY <2>1, <2>5
    <3> QED BY <3>1, <3>2
  <2>6. CASE s[n+1] \in P /\ K[n] # << >>
    <3> DEFINE k == K[n]
               y == s[n+1]
    <3>1. k \in Seq(S) /\ y \in S /\ k # << >> /\ K[n+1] = Append(k, y)
      BY <2>1, <2>2, <2>3, <2>6
    <3> HIDE DEF k, y
    <3>2. Append(k, y) \in Seq(S) /\ Append(k, y) # << >> /\ Append(k, y)[1] = k[1]
      BY <3>1
    <3>3. K[n+1] \in Seq(S) /\ K[n+1] # << >> /\ K[n+1][1] = K[n][1]
      BY <3>1, <3>2 DEF k
    <3> QED BY <2>1, <2>6, <3>3
  <2> QED BY <2>4, <2>5, <2>6
<1>3. Nat \subseteq T
  <2>1. 0 \in T
    BY <1>1
  <2>2. \A n \in Nat : n \in T => n + 1 \in T
    <3> HIDE DEF Good
    <3> QED BY <1>2
  <2> HIDE DEF T
  <2> QED BY <2>1, <2>2, NatSetInduction
<1>4. Good(Len(s))
  BY <1>3
<1> QED BY <1>4 DEF Keep

\* choose_eviction_candidate: no PC while another client is there, and the first
\* of its class.
LEMMA EvictedIsFirst ==
  ASSUME NEW q \in Seq(Clients), NEW types, Len(q) <= RoomMaxPeers + 1,
         NEW c \in Evicted(q, types), NEW d \in Range(q), c # d
  PROVE  /\ types[c] \in PcTypes => types[d] \in PcTypes
         /\ (types[c] \in PcTypes <=> types[d] \in PcTypes) => Before(q, c, d)
<1> DEFINE pcs == {e \in Clients : types[e] \in PcTypes}
           a == Keep(q, Clients \ pcs)
           b == Keep(q, pcs)
<1>1. /\ a \in Seq(Clients) /\ Range(a) = Range(q) \cap (Clients \ pcs)
      /\ b \in Seq(Clients) /\ Range(b) = Range(q) \cap pcs
  BY KeepProperties
<1>2. c = (a \o b)[1] /\ c \in Range(q)
  BY OneIsEvicted, EvictedProperties DEF EvictionOrder
<1>3. Range(q) \subseteq Clients
  BY DEF Range
<1>4. ASSUME NEW P, c \in P, d \in P, Keep(q, P) # << >> => c = Keep(q, P)[1]
      PROVE  Before(q, c, d)
  <2>1. PICK i \in 1..Len(q) : q[i] = d
    BY DEF Range
  <2>2. PICK j \in 1..i : c = q[j]
    BY <1>4, <2>1, KeepFirst
  <2>3. Len(q) \in Nat /\ DOMAIN q = 1..Len(q) /\ i # j
    BY <2>1, <2>2
  <2>4. j < i /\ j \in DOMAIN q /\ i \in DOMAIN q
    BY <2>3
  <2> QED BY <2>1, <2>2, <2>4 DEF Before
<1>5. CASE a # << >>
  <2>1. c = a[1] /\ c \in Range(a)
    <3> HIDE DEF a, b
    <3>1. (a \o b)[1] = a[1] /\ 1 \in DOMAIN a
      BY <1>1, <1>5
    <3> QED BY <1>2, <3>1 DEF Range
  <2>2. c \in Clients \ pcs
    BY <1>1, <2>1
  <2>3. types[d] \notin PcTypes => Before(q, c, d)
    BY <1>3, <1>4, <2>1, <2>2
  <2> QED BY <2>2, <2>3
<1>6. CASE a = << >>
  <2>1. Range(q) \subseteq pcs
    <3>1. Range(a) = {}
      BY <1>6 DEF Range
    <3> QED BY <1>1, <1>3, <3>1
  <2>2. c = b[1]
    <3>1. Range(b) # {}
      BY <1>1, <1>2, <2>1
    <3>2. b # << >>
      BY <3>1 DEF Range
    <3> HIDE DEF a, b
    <3>3. (a \o b)[1] = b[1]
      BY <1>1, <1>6, <3>2
    <3> QED BY <1>2, <3>3
  <2>3. Before(q, c, d)
    BY <1>2, <1>4, <2>1, <2>2
  <2> QED BY <2>1, <2>3
<1> QED BY <1>5, <1>6

\* The order of a list survives the arrival of another client.
LEMMA BeforeArrival ==
  ASSUME NEW q \in Seq(Clients), NEW x \in Clients, x \notin Range(q),
         NEW c \in Range(q), NEW d \in Range(q), Before(AppendNew(q, x), c, d)
  PROVE  Before(q, c, d)
<1>1. AppendNew(q, x) = Append(q, x)
  BY DEF AppendNew
<1>2. PICK i, j \in DOMAIN Append(q, x) : i < j /\ Append(q, x)[i] = c /\ Append(q, x)[j] = d
  BY <1>1 DEF Before
<1>3. /\ DOMAIN q = 1..Len(q) /\ Len(q) \in Nat
      /\ DOMAIN Append(q, x) = 1..(Len(q) + 1)
      /\ \A k \in 1..Len(q) : Append(q, x)[k] = q[k]
      /\ Append(q, x)[Len(q) + 1] = x
  OBVIOUS
<1>4. i # Len(q) + 1 /\ j # Len(q) + 1
  BY <1>2, <1>3
<1> QED BY <1>2, <1>3, <1>4 DEF Before

(***************************************************************************)
(* Whoever arrives where, and whatever the types and the capacity are: the *)
(* client that goes is no PC beside another that is none, and the oldest   *)
(* of its class.                                                           *)
(***************************************************************************)
THEOREM EvictionsFollowTheOrder == Spec => EvictionFollowsOrder
<1> DEFINE Goes(r, c) == c \in Range(roomOrder[r]) \ Range(roomOrder'[r])
           Arrives(r) == Range(roomOrder'[r]) \ Range(roomOrder[r]) # {}
           Ordered(r, c, d) ==
             /\ IsPc(c) => IsPc(d)'
             /\ IsPc(c) = IsPc(d)' /\ d \in Range(roomOrder[r]) => Before(roomOrder[r], c, d)
           All == \A r \in Rooms :
                    \A c \in Range(roomOrder[r]) \ Range(roomOrder'[r]), d \in Range(roomOrder'[r]) :
                      Arrives(r) => Ordered(r, c, d)
<1>1. ASSUME IInv, NEW s \in Sids, DetachSid(s), NEW r \in Rooms PROVE ~Arrives(r)
  <2>1. roomOrder'[r] = Keep(roomOrder[r], {c \in Clients : ~ (c \in LastSessionOf(s) /\ clientRoom[c] = r)})
    BY <1>1 DEF DetachSid, ListsWithout
  <2>2. roomOrder[r] \in Seq(Clients)
    BY <1>1 DEF IInv, TypeOK
  <2>3. Range(roomOrder'[r]) \subseteq Range(roomOrder[r])
    BY <2>1, <2>2, KeepProperties
  <2> QED BY <2>3
<1>2. ASSUME IInv, NEW s \in Sids, NEW x \in Clients, NEW t \in ClientTypes, NEW y \in Rooms,
             Join(s, x, t, y), NEW r \in Rooms, NEW c, Goes(r, c), NEW d \in Range(roomOrder'[r]), Arrives(r)
      PROVE  Ordered(r, c, d)
  <2> DEFINE types == [clientType EXCEPT ![x] = t]
             list  == AppendNew(roomOrder[r], x)
             out   == Evicted(list, types)
  <2>1. roomOrder[r] \in Seq(Clients)
    BY <1>2 DEF IInv, TypeOK
  <2>2. r = y
    <3> SUFFICES ASSUME r # y PROVE FALSE
      OBVIOUS
    <3>1. roomOrder'[r] = roomOrder[r] \/ roomOrder'[r] = Keep(roomOrder[r], Clients \ {x})
      BY <1>2 DEF Join
    <3>2. Range(roomOrder'[r]) \subseteq Range(roomOrder[r])
      BY <2>1, <3>1, KeepProperties
    <3> QED BY <1>2, <3>2
  <2>3. /\ roomOrder'[r] = Keep(list, Clients \ out)
        /\ \A e \in Clients \ out : clientType'[e] = types[e]
    BY <1>2, <2>2 DEF Join
  <2>4. /\ list \in Seq(Clients) /\ Range(list) = Range(roomOrder[r]) \cup {x}
        /\ Len(list) <= RoomMaxPeers + 1
    BY <1>2, ListOfArrival
  <2>5. types[x] = t /\ \A e \in Clients \ {x} : types[e] = clientType[e]
    BY <1>2 DEF IInv, TypeOK
  <2> HIDE DEF types, list, out
  <2>6. Range(roomOrder'[r]) = Range(list) \cap (Clients \ out)
    BY <2>3, <2>4, KeepProperties
  <2>7. x \notin Range(roomOrder[r])
    BY <1>2, <2>4, <2>6
  <2>8. c \in Clients /\ c \in Range(list) /\ c # x /\ d \in Range(list) /\ d \in Clients \ out
    <3>1. Range(roomOrder[r]) \subseteq Clients
      BY <2>1 DEF Range
    <3> QED BY <1>2, <2>4, <2>6, <2>7, <3>1
  <2>9. c \in out /\ c # d
    BY <1>2, <2>6, <2>8
  <2>10. /\ types[c] \in PcTypes => types[d] \in PcTypes
         /\ (types[c] \in PcTypes <=> types[d] \in PcTypes) => Before(list, c, d)
    BY <2>4, <2>8, <2>9, EvictedIsFirst DEF out
  <2>11. (IsPc(c) <=> types[c] \in PcTypes) /\ (IsPc(d)' <=> types[d] \in PcTypes)
    BY <2>3, <2>5, <2>8 DEF IsPc
  <2>12. d \in Range(roomOrder[r]) /\ Before(list, c, d) => Before(roomOrder[r], c, d)
    BY <1>2, <2>1, <2>7, BeforeArrival DEF list
  <2>13. (IsPc(c) = IsPc(d)') => (IsPc(c) <=> IsPc(d)')
    OBVIOUS
  <2> QED BY <2>10, <2>11, <2>12, <2>13
<1>3. ASSUME UNCHANGED roomOrder, NEW r \in Rooms PROVE ~Arrives(r)
  BY <1>3
<1>4. ASSUME IInv, [Next]_vars PROVE [All]_vars
  <2> SUFFICES ASSUME NEW r \in Rooms, NEW c, Goes(r, c), NEW d \in Range(roomOrder'[r]), Arrives(r)
               PROVE  Ordered(r, c, d)
    OBVIOUS
  <2> HIDE DEF Goes, Arrives, Ordered
  <2>1. roomOrder' # roomOrder /\ \A s \in Sids : ~DetachSid(s)
    BY <1>1, <1>3, <1>4
  <2>2. PICK s \in Sids, x \in Clients, t \in ClientTypes, y \in Rooms : Join(s, x, t, y)
    BY <1>4, <2>1 DEF Next, Connect, JoinUntracked, JoinWithoutRoom, JoinAborted, Track, Leave, Disconnect,
                      vars, tracking
  <2> QED BY <1>2, <1>4, <2>2
<1> QED BY <1>4, StrengthenedInvariant, PTL DEF Spec, EvictionFollowsOrder
==============================================================================
