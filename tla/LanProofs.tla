----------------------------- MODULE LanProofs -----------------------------
(***************************************************************************)
(* Proofs about LanProbe, for any clients and rooms.                       *)
(***************************************************************************)
EXTENDS LanProbe, FiniteSetTheorems, TLAPS

LEMMA RoomStateType == \A r \in Rooms : RoomState(r) \in RoomStates
  BY DEF RoomState, RoomStates

LEMMA AnnounceType ==
  ASSUME NEW rs, announced \in [Rooms -> RoomStates],
         announced' = [r \in Rooms |-> IF r \in rs THEN RoomState(r)' ELSE announced[r]]
  PROVE  announced' \in [Rooms -> RoomStates]
<1>1. (\A r \in Rooms : RoomState(r) \in RoomStates)'
  BY RoomStateType, PTL
<1>2. \A r \in Rooms : RoomState(r)' \in RoomStates
  BY <1>1 DEF RoomStates
<1> QED
  BY <1>2

LEMMA LanInitType == LanInit => TypeOK
  BY DEF LanInit, MembershipInit, TypeOK, RoomStates

LEMMA TriggerType ==
  ASSUME TypeOK, roomOf' \in [Clients -> Rooms \cup {NoRoom}],
         NEW r \in Rooms, NEW kept \in [Rooms -> {"none", "ok", "fail"}], Trigger(r, kept)
  PROVE  /\ pending' \subseteq Probes
         /\ lastProbe' \in [Rooms -> {"none", "ok", "fail"}]
         /\ probed' \in [Rooms -> SUBSET Clients]
<1>1. PairOf(r)' \subseteq Probes
  BY DEF PairOf, Probes
<1>2. Members(r)' \subseteq Clients
  BY DEF Members
<1> QED
  BY <1>1, <1>2 DEF Trigger, TypeOK

LEMMA ClearedType ==
  ASSUME TypeOK, NEW rs PROVE Cleared(rs) \in [Rooms -> {"none", "ok", "fail"}]
  BY DEF TypeOK, Cleared

LEMMA MembershipStepType == TypeOK /\ MembershipStep => TypeOK'
<1> SUFFICES ASSUME TypeOK, NEW c \in Clients PROVE
      /\ JoinTracked(c) => TypeOK'
      /\ \A r \in Rooms, out \in SUBSET Clients : JoinRoom(c, r, out) => TypeOK'
      /\ \A hint \in Rooms \cup {NoRoom} : Detach(c, hint) => TypeOK'
      /\ PeerNetworkUpdate(c) => TypeOK'
  BY DEF MembershipStep
<1>1. ASSUME JoinTracked(c) PROVE TypeOK'
  BY <1>1 DEF JoinTracked, Appear, NetworkMeta, TypeOK
<1>2. ASSUME NEW r \in Rooms, NEW out \in SUBSET Clients, JoinRoom(c, r, out) PROVE TypeOK'
  <2>1. online' \subseteq Clients /\ roomOf' \in [Clients -> Rooms \cup {NoRoom}]
    BY <1>2 DEF JoinRoom, Enter, TypeOK
  <2>2. urlOk' \subseteq Pcs
    BY <1>2 DEF JoinRoom, NetworkMeta, TypeOK
  <2>3. announced' \in [Rooms -> RoomStates]
    BY <1>2, AnnounceType DEF JoinRoom, Announce, TypeOK
  <2> QED
    BY <1>2, <2>1, <2>2, <2>3, ClearedType, TriggerType DEF JoinRoom, TypeOK
<1>3. ASSUME NEW hint \in Rooms \cup {NoRoom}, Detach(c, hint) PROVE TypeOK'
  <2>1. online' \subseteq Clients /\ roomOf' \in [Clients -> Rooms \cup {NoRoom}]
    BY <1>3 DEF Detach, Exit, TypeOK
  <2>2. urlOk' \subseteq Pcs
    BY <1>3 DEF Detach, TypeOK
  <2>3. announced' \in [Rooms -> RoomStates]
    BY <1>3, AnnounceType DEF Detach, Announce, TypeOK
  <2> QED
    BY <1>3, <2>1, <2>2, <2>3, ClearedType, TriggerType DEF Detach, TypeOK
<1>4. ASSUME PeerNetworkUpdate(c) PROVE TypeOK'
  <2>1. urlOk' \subseteq Pcs /\ UNCHANGED members
    BY <1>4 DEF PeerNetworkUpdate, NetworkMeta, TypeOK
  <2>2. announced' \in [Rooms -> RoomStates]
    BY <1>4, AnnounceType DEF PeerNetworkUpdate, Announce, TypeOK
  <2> QED
    BY <1>4, <2>1, <2>2, ClearedType, TriggerType DEF PeerNetworkUpdate, TypeOK, members
<1> QED
  BY <1>1, <1>2, <1>3, <1>4

LEMMA ProbeResultType ==
  ASSUME TypeOK, NEW p \in pending, NEW verdict \in {"ok", "fail"}, LanProbeResult(p, verdict)
  PROVE  TypeOK'
<1>1. p.room \in Rooms /\ {p.pc, p.app} \subseteq Clients
  BY LanAssumption DEF TypeOK, Probes
<1>2. announced' \in [Rooms -> RoomStates]
  BY AnnounceType DEF LanProbeResult, Announce, TypeOK
<1> QED
  BY <1>1, <1>2 DEF LanProbeResult, TypeOK, members

\* The rooms, the verdicts and the open probes keep their types, whatever
\* handler runs (signal_core.py).
THEOREM TypeCorrectness == LanSpec => []TypeOK
<1>1. TypeOK /\ [LanNext]_<<members, lan>> => TypeOK'
  <2> SUFFICES ASSUME TypeOK, [LanNext]_<<members, lan>> PROVE TypeOK'
    OBVIOUS
  <2>1. CASE UNCHANGED <<members, lan>>
    BY <2>1 DEF TypeOK, members, lan, RoomStates, Probes
  <2> QED
    BY <2>1, MembershipStepType, ProbeResultType DEF LanNext
<1> QED
  BY <1>1, LanInitType, PTL DEF LanSpec

\* The rooms a handler leaves alone keep their members.
LEMMA EnterMembers ==
  ASSUME TypeOK, NEW c \in Clients, NEW r \in Rooms, NEW out \in SUBSET Clients, Enter(c, r, out)
  PROVE  /\ Members(r)' = (Members(r) \cup {c}) \ out
         /\ \A x \in Rooms \ {r} : Members(x)' = Members(x) \ {c}
  BY LanAssumption DEF Enter, Members, TypeOK

LEMMA ExitMembers ==
  ASSUME TypeOK, NEW c \in Clients, Exit(c)
  PROVE  \A x \in Rooms : Members(x)' = Members(x) \ {c}
  BY LanAssumption DEF Exit, Members, TypeOK

\* A room state depends on nothing but the members and the verdict.
LEMMA SameRoomState ==
  ASSUME NEW r \in Rooms, Members(r)' = Members(r), lastProbe'[r] = lastProbe[r]
  PROVE  RoomState(r)' = RoomState(r)
  BY DEF RoomState

\* A handler that announces every room it changes.
LEMMA AnnounceCurrent ==
  ASSUME AnnouncedCurrent, NEW rs, Announce(rs),
         \A r \in Rooms \ rs : Members(r)' = Members(r) /\ lastProbe'[r] = lastProbe[r]
  PROVE  AnnouncedCurrent'
<1>1. ASSUME NEW r \in Rooms, r \in rs PROVE announced'[r] = RoomState(r)'
  BY <1>1 DEF Announce
<1>2. ASSUME NEW r \in Rooms, r \notin rs PROVE announced'[r] = RoomState(r)'
  BY <1>2, SameRoomState DEF Announce, AnnouncedCurrent
<1> QED
  BY <1>1, <1>2 DEF AnnouncedCurrent

\* The devices are told the present state of every room (emit_room_state_changed
\* at the end of every handler of socket_events.py).
THEOREM AnnouncementsAreCurrent == LanSpec => []AnnouncedCurrent
<1>1. LanInit => AnnouncedCurrent
  BY LanAssumption DEF LanInit, MembershipInit, AnnouncedCurrent, RoomState, Members
<1>2. TypeOK /\ AnnouncedCurrent /\ [LanNext]_<<members, lan>> => AnnouncedCurrent'
  <2> SUFFICES ASSUME TypeOK, AnnouncedCurrent, [LanNext]_<<members, lan>> PROVE AnnouncedCurrent'
    OBVIOUS
  <2>1. ASSUME UNCHANGED <<members, lastProbe, announced>> PROVE AnnouncedCurrent'
    <3>1. \A r \in Rooms : Members(r)' = Members(r) /\ lastProbe'[r] = lastProbe[r]
      BY <2>1 DEF members, Members
    <3> QED
      BY <2>1, <3>1, SameRoomState DEF AnnouncedCurrent
  <2>2. ASSUME NEW c \in Clients, JoinTracked(c) PROVE AnnouncedCurrent'
    <3>1. \A r \in Rooms : Members(r)' = Members(r) /\ lastProbe'[r] = lastProbe[r]
      BY <2>2 DEF JoinTracked, Appear, Members
    <3> QED
      BY <2>2, <3>1, SameRoomState DEF AnnouncedCurrent, JoinTracked
  <2>3. ASSUME NEW c \in Clients, NEW r \in Rooms, NEW out \in SUBSET Clients, JoinRoom(c, r, out)
        PROVE  AnnouncedCurrent'
    <3>1. PICK left : left = {roomOf[c]} \cap (Rooms \ {r})
      OBVIOUS
    <3>2. Announce({r} \cup left) /\ Trigger(r, Cleared(left)) /\ Enter(c, r, out)
      BY <2>3, <3>1 DEF JoinRoom
    <3>3. ASSUME NEW x \in Rooms \ ({r} \cup left)
          PROVE  Members(x)' = Members(x) /\ lastProbe'[x] = lastProbe[x]
      <4>1. c \notin Members(x)
        BY <3>1 DEF Members
      <4> QED
        BY <3>2, <4>1, EnterMembers DEF Trigger, Cleared
    <3> QED
      BY <3>2, <3>3, AnnounceCurrent
  <2>4. ASSUME NEW c \in Clients, NEW hint \in Rooms \cup {NoRoom}, Detach(c, hint)
        PROVE  AnnouncedCurrent'
    <3>1. CASE DetachedRoom(c, hint) = NoRoom /\ UNCHANGED <<lastProbe, pending, announced, probed>>
      <4>1. roomOf[c] = NoRoom
        BY <3>1 DEF DetachedRoom
      <4>2. \A x \in Rooms : Members(x)' = Members(x) /\ lastProbe'[x] = lastProbe[x]
        BY <2>4, <3>1, <4>1, ExitMembers, LanAssumption DEF Detach, Members
      <4> QED
        BY <3>1, <4>2, SameRoomState DEF AnnouncedCurrent
    <3>2. ASSUME NEW room \in Rooms, DetachedRoom(c, hint) = room,
                 Trigger(room, Cleared({room})), Announce({room, hint})
          PROVE  AnnouncedCurrent'
      <4>1. \A x \in Rooms \ {room, hint} : Members(x)' = Members(x) /\ lastProbe'[x] = lastProbe[x]
        <5>1. \A x \in Rooms \ {room, hint} : c \notin Members(x)
          <6>1. ASSUME NEW x \in Rooms, c \in Members(x) PROVE x = room
            BY <3>2, <6>1, LanAssumption DEF DetachedRoom, Members
          <6> QED
            BY <6>1
        <5> QED
          <6>1. \A x \in Rooms \ {room, hint} : Members(x)' = Members(x)
            BY <2>4, <5>1, ExitMembers DEF Detach
          <6>2. \A x \in Rooms \ {room} : lastProbe'[x] = lastProbe[x]
            BY <3>2 DEF Trigger, Cleared
          <6> QED
            BY <6>1, <6>2
      <4> QED
        BY <3>2, <4>1, AnnounceCurrent
    <3> QED
      BY <2>4, <3>1, <3>2 DEF Detach
  <2>5. ASSUME NEW c \in Clients, PeerNetworkUpdate(c) PROVE AnnouncedCurrent'
    <3>1. CASE UNCHANGED <<lastProbe, pending, announced, probed>>
      BY <2>1, <2>5, <3>1 DEF PeerNetworkUpdate
    <3>2. ASSUME NEW r \in Rooms, Trigger(r, Cleared({r})), Announce({r}) PROVE AnnouncedCurrent'
      <4>1. \A x \in Rooms \ {r} : Members(x)' = Members(x) /\ lastProbe'[x] = lastProbe[x]
        BY <2>5, <3>2 DEF PeerNetworkUpdate, members, Members, Trigger, Cleared
      <4> QED
        BY <3>2, <4>1, AnnounceCurrent
    <3> QED
      BY <2>5, <3>1, <3>2 DEF PeerNetworkUpdate
  <2>6. ASSUME NEW p \in pending, NEW verdict \in {"ok", "fail"}, LanProbeResult(p, verdict)
        PROVE  AnnouncedCurrent'
    <3>1. PICK r : r = p.room
      OBVIOUS
    <3>2. Announce({r}) /\ \A x \in Rooms \ {r} : Members(x)' = Members(x) /\ lastProbe'[x] = lastProbe[x]
      BY <2>6, <3>1 DEF LanProbeResult, members, Members, TypeOK
    <3> QED
      BY <3>2, AnnounceCurrent
  <2>7. CASE UNCHANGED <<members, lan>>
    BY <2>1, <2>7 DEF lan
  <2> QED
    BY <2>2, <2>3, <2>4, <2>5, <2>6, <2>7 DEF LanNext, MembershipStep
<1> QED
  BY <1>1, <1>2, TypeCorrectness, PTL DEF LanSpec

\* A room holds at most two clients (ROOM_MAX_PEERS).
RoomsOfTwo == \A r \in Rooms : IsFiniteSet(Members(r)) /\ Cardinality(Members(r)) <= 2

LEMMA NoThird ==
  ASSUME NEW S, IsFiniteSet(S), Cardinality(S) <= 2, NEW a \in S, NEW b \in S, NEW d \in S
  PROVE  a = b \/ b = d \/ a = d
<1> SUFFICES ASSUME a # b, b # d, a # d PROVE FALSE
  OBVIOUS
<1>1. IsFiniteSet({a}) /\ Cardinality({a}) = 1
  BY FS_Singleton
<1> DEFINE One == {a}
           Two == One \cup {b}
           Three == Two \cup {d}
<1>2. b \notin One /\ d \notin Two /\ Three \in SUBSET S
  OBVIOUS
<1>3. IsFiniteSet(Two) /\ Cardinality(Two) = Cardinality(One) + 1
  <2> HIDE DEF One
  <2> QED
    BY <1>1, <1>2, FS_AddElement DEF One
<1>4. Cardinality(Three) = Cardinality(Two) + 1
  <2> HIDE DEF Two
  <2> QED
    BY <1>2, <1>3, FS_AddElement
<1> HIDE DEF One, Two, Three
<1>5. Cardinality(Three) <= Cardinality(S)
  BY <1>2, FS_Subset
<1>6. Cardinality(S) \in Nat
  BY FS_CardinalityType
<1> QED
  BY <1>1, <1>3, <1>4, <1>5, <1>6 DEF One

LEMMA FewerMembers ==
  ASSUME NEW S, IsFiniteSet(S), Cardinality(S) <= 2, NEW c
  PROVE  IsFiniteSet(S \ {c}) /\ Cardinality(S \ {c}) <= 2
  BY FS_Subset, FS_CardinalityType

LEMMA RoomsKeepTwo == LanSpec => []RoomsOfTwo
<1>1. LanInit => RoomsOfTwo
  <2> SUFFICES ASSUME LanInit, NEW r \in Rooms PROVE IsFiniteSet(Members(r)) /\ Cardinality(Members(r)) <= 2
    BY DEF RoomsOfTwo
  <2>1. Members(r) = {}
    BY LanAssumption DEF LanInit, MembershipInit, Members
  <2> QED
    BY <2>1, FS_EmptySet
<1>2. TypeOK /\ RoomsOfTwo /\ [LanNext]_<<members, lan>> => RoomsOfTwo'
  <2> SUFFICES ASSUME TypeOK, RoomsOfTwo, [LanNext]_<<members, lan>> PROVE RoomsOfTwo'
    OBVIOUS
  <2>1. ASSUME UNCHANGED roomOf PROVE RoomsOfTwo'
    BY <2>1 DEF RoomsOfTwo, Members
  <2>2. ASSUME NEW c \in Clients, NEW r \in Rooms, NEW out \in SUBSET Clients, Enter(c, r, out)
        PROVE  RoomsOfTwo'
    <3>1. ASSUME NEW x \in Rooms \ {r} PROVE IsFiniteSet(Members(x)') /\ Cardinality(Members(x)') <= 2
      <4>1. Members(x)' = Members(x) \ {c}
        BY <2>2, EnterMembers
      <4> QED
        BY <4>1, FewerMembers DEF RoomsOfTwo
    <3>2. Cardinality(Members(r)') <= 2
      BY <2>2, LanAssumption DEF Enter
    <3>3. IsFiniteSet(Members(r) \cup {c})
      BY FS_AddElement DEF RoomsOfTwo
    <3>4. IsFiniteSet(Members(r)')
      BY <2>2, <3>3, EnterMembers, FS_Subset
    <3> QED
      BY <3>1, <3>2, <3>4 DEF RoomsOfTwo
  <2>3. ASSUME NEW c \in Clients, Exit(c) PROVE RoomsOfTwo'
    BY <2>3, ExitMembers, FewerMembers DEF RoomsOfTwo
  <2> QED
    BY <2>1, <2>2, <2>3 DEF LanNext, MembershipStep, JoinTracked, Appear, JoinRoom, Detach,
                            PeerNetworkUpdate, LanProbeResult, members
<1> QED
  BY <1>1, <1>2, TypeCorrectness, PTL DEF LanSpec

\* No pair is left in a room of two that one of them leaves.
LEMMA NoPairLeft ==
  ASSUME RoomsOfTwo, NEW x \in Rooms, NEW c, c \in Members(x), Members(x)' = Members(x) \ {c}
  PROVE  PairOf(x)' = {}
<1> SUFFICES ASSUME NEW pc \in Pcs, NEW app \in Apps, Members(x) \ {c} = {pc, app} PROVE FALSE
  BY DEF PairOf, Probes
<1>1. pc # app /\ pc \in Members(x) /\ app \in Members(x) /\ pc # c /\ app # c
  BY LanAssumption
<1> QED
  BY <1>1, NoThird DEF RoomsOfTwo

\* trigger_lan_probe_if_ready for a room, when every other keeps its pair and
\* its verdict, or has no pair.
LEMMA TriggerProbes ==
  ASSUME TypeOK, PairIsProbed, NEW r \in Rooms, NEW kept \in [Rooms -> {"none", "ok", "fail"}],
         Trigger(r, kept),
         \A x \in Rooms \ {r} : \/ PairOf(x)' = {}
                                \/ PairOf(x)' = PairOf(x) /\ kept[x] = lastProbe[x]
  PROVE  PairIsProbed'
<1> DEFINE refused == {p \in PairOf(r)' : p.pc \notin urlOk'}
<1>1. /\ pending' = pending \cup (PairOf(r)' \ refused)
      /\ lastProbe' = [kept EXCEPT ![r] = IF refused # {} THEN "fail" ELSE @]
  BY DEF Trigger
<1>2. lastProbe'[r] = "none" => PairOf(r)' \subseteq pending'
  BY <1>1
<1>3. ASSUME NEW x \in Rooms \ {r}, lastProbe'[x] = "none" PROVE PairOf(x)' \subseteq pending'
  <2>1. lastProbe'[x] = kept[x] /\ pending \subseteq pending'
    BY <1>1
  <2> QED
    BY <1>3, <2>1 DEF PairIsProbed
<1> QED
  BY <1>2, <1>3 DEF PairIsProbed

\* Every pair without a verdict has been asked for one (trigger_lan_probe_if_ready
\* after join, leave, disconnect and network update).
THEOREM PairsAreProbed == LanSpec => []PairIsProbed
<1>1. LanInit => PairIsProbed
  BY LanAssumption DEF LanInit, MembershipInit, PairIsProbed, PairOf, Members, Probes
<1>2. TypeOK /\ RoomsOfTwo /\ PairIsProbed /\ [LanNext]_<<members, lan>> => PairIsProbed'
  <2> SUFFICES ASSUME TypeOK, RoomsOfTwo, PairIsProbed, [LanNext]_<<members, lan>> PROVE PairIsProbed'
    OBVIOUS
  <2>1. ASSUME UNCHANGED <<roomOf, lastProbe, pending>> PROVE PairIsProbed'
    BY <2>1 DEF PairIsProbed, PairOf, Members
  <2>2. ASSUME NEW c \in Clients, NEW r \in Rooms, NEW out \in SUBSET Clients, JoinRoom(c, r, out)
        PROVE  PairIsProbed'
    <3>1. PICK left : left = {roomOf[c]} \cap (Rooms \ {r})
      OBVIOUS
    <3>2. Trigger(r, Cleared(left)) /\ Enter(c, r, out)
      BY <2>2, <3>1 DEF JoinRoom
    <3>3. ASSUME NEW x \in Rooms \ {r}
          PROVE  \/ PairOf(x)' = {}
                 \/ PairOf(x)' = PairOf(x) /\ Cleared(left)[x] = lastProbe[x]
      <4>1. Members(x)' = Members(x) \ {c}
        BY <3>2, EnterMembers
      <4>2. CASE c \in Members(x)
        BY <4>1, <4>2, NoPairLeft
      <4>3. CASE c \notin Members(x)
        <5>1. Members(x)' = Members(x) /\ x \notin left
          BY <3>1, <4>1, <4>3 DEF Members
        <5> QED
          BY <5>1 DEF PairOf, Cleared
      <4> QED
        BY <4>2, <4>3
    <3> QED
      BY <3>2, <3>3, ClearedType, TriggerProbes
  <2>3. ASSUME NEW c \in Clients, NEW hint \in Rooms \cup {NoRoom}, Detach(c, hint)
        PROVE  PairIsProbed'
    <3>1. CASE DetachedRoom(c, hint) = NoRoom /\ UNCHANGED <<lastProbe, pending, announced, probed>>
      <4>1. roomOf' = roomOf
        BY <2>3, <3>1 DEF Detach, Exit, DetachedRoom, TypeOK
      <4> QED
        BY <2>1, <3>1, <4>1
    <3>2. ASSUME NEW room \in Rooms, DetachedRoom(c, hint) = room, Trigger(room, Cleared({room}))
          PROVE  PairIsProbed'
      <4>1. ASSUME NEW x \in Rooms \ {room}
            PROVE  PairOf(x)' = PairOf(x) /\ Cleared({room})[x] = lastProbe[x]
        <5>1. c \notin Members(x)
          BY <3>2, LanAssumption DEF DetachedRoom, Members
        <5>2. Members(x)' = Members(x)
          BY <2>3, <5>1, ExitMembers DEF Detach
        <5> QED
          BY <5>2 DEF PairOf, Cleared
      <4> QED
        BY <3>2, <4>1, ClearedType, TriggerProbes
    <3> QED
      BY <2>3, <3>1, <3>2 DEF Detach
  <2>4. ASSUME NEW c \in Clients, PeerNetworkUpdate(c) PROVE PairIsProbed'
    <3>1. CASE UNCHANGED <<lastProbe, pending, announced, probed>>
      BY <2>1, <2>4, <3>1 DEF PeerNetworkUpdate, members
    <3>2. ASSUME NEW r \in Rooms, Trigger(r, Cleared({r})) PROVE PairIsProbed'
      <4>1. ASSUME NEW x \in Rooms \ {r}
            PROVE  PairOf(x)' = PairOf(x) /\ Cleared({r})[x] = lastProbe[x]
        BY <2>4 DEF PeerNetworkUpdate, members, Members, PairOf, Cleared
      <4> QED
        BY <3>2, <4>1, ClearedType, TriggerProbes
    <3> QED
      BY <2>4, <3>1, <3>2 DEF PeerNetworkUpdate
  <2>5. ASSUME NEW p \in pending, NEW verdict \in {"ok", "fail"}, LanProbeResult(p, verdict)
        PROVE  PairIsProbed'
    <3>1. p.room \in Rooms /\ lastProbe'[p.room] # "none"
      BY <2>5 DEF LanProbeResult, TypeOK, Probes
    <3>2. ASSUME NEW x \in Rooms \ {p.room}, lastProbe'[x] = "none" PROVE PairOf(x)' \subseteq pending'
      <4>1. PairOf(x)' = PairOf(x) /\ lastProbe[x] = "none" /\ p \notin PairOf(x)
        BY <2>5, <3>1, <3>2 DEF LanProbeResult, members, Members, PairOf, TypeOK
      <4> QED
        BY <2>5, <4>1 DEF LanProbeResult, PairIsProbed
    <3> QED
      BY <3>1, <3>2 DEF PairIsProbed
  <2> QED
    BY <2>1, <2>2, <2>3, <2>4, <2>5 DEF LanNext, MembershipStep, JoinTracked, Appear, members, lan
<1> QED
  BY <1>1, <1>2, TypeCorrectness, RoomsKeepTwo, PTL DEF LanSpec

\* A pair that parts does not hand its positive verdict to the next one
\* (on_join, detach_sid_from_tracking).
THEOREM DeparturesWithdraw == LanSpec => DepartureWithdrawsVerdict
<1> DEFINE Departs(r) == Members(r)' # Members(r) /\ Members(r)' \subseteq Members(r)
           Withdrawn(r) == lastProbe'[r] # "ok"
<1>1. ASSUME TypeOK, RoomsOfTwo, [LanNext]_<<members, lan>>, NEW r \in Rooms, Departs(r)
      PROVE  Withdrawn(r)
  <2>1. ASSUME UNCHANGED roomOf PROVE FALSE
    BY <1>1, <2>1 DEF Members
  <2>2. ASSUME NEW room \in Rooms, NEW rs, Trigger(room, Cleared(rs)), r \in rs
        PROVE  Withdrawn(r)
    BY <2>2 DEF Trigger, Cleared
  <2>3. ASSUME NEW c \in Clients, NEW room \in Rooms, NEW out \in SUBSET Clients, JoinRoom(c, room, out)
        PROVE  Withdrawn(r)
    <3>1. PICK left : left = {roomOf[c]} \cap (Rooms \ {room})
      OBVIOUS
    <3>2. Trigger(room, Cleared(left)) /\ Enter(c, room, out)
      BY <2>3, <3>1 DEF JoinRoom
    <3>3. r # room
      <4> SUFFICES ASSUME r = room PROVE FALSE
        OBVIOUS
      <4>1. Members(r)' = (Members(r) \cup {c}) \ out
        BY <1>1, <3>2, EnterMembers
      <4>2. out # {}
        BY <1>1, <4>1
      <4>3. c \in Members(r) => Members(r) \cup {c} = Members(r)
        OBVIOUS
      <4>4. Cardinality(Members(r) \cup {c}) > 2 /\ Cardinality(Members(r)) <= 2
        BY <1>1, <3>2, <4>2, LanAssumption DEF Enter, RoomsOfTwo
      <4>5. IsFiniteSet(Members(r)) /\ Cardinality(Members(r)) \in Nat
        BY <1>1, FS_CardinalityType DEF RoomsOfTwo
      <4>6. c \notin Members(r)
        BY <4>3, <4>4, <4>5
      <4>7. out = {c}
        BY <1>1, <3>2, <4>1, <4>2, <4>6 DEF Enter
      <4> QED
        BY <1>1, <4>1, <4>6, <4>7
    <3>4. Members(r)' = Members(r) \ {c}
      BY <1>1, <3>2, <3>3, EnterMembers
    <3>5. r \in left
      BY <1>1, <3>1, <3>3, <3>4 DEF Members
    <3> QED
      BY <2>2, <3>2, <3>5
  <2>4. ASSUME NEW c \in Clients, NEW hint \in Rooms \cup {NoRoom}, Detach(c, hint)
        PROVE  Withdrawn(r)
    <3>1. c \in Members(r)
      BY <1>1, <2>4, ExitMembers DEF Detach
    <3>2. DetachedRoom(c, hint) = r
      BY <3>1, LanAssumption DEF DetachedRoom, Members
    <3>3. Trigger(r, Cleared({r}))
      BY <2>4, <3>2, LanAssumption DEF Detach
    <3> QED
      BY <2>2, <3>3
  <2> QED
    BY <1>1, <2>1, <2>3, <2>4 DEF LanNext, MembershipStep, JoinTracked, Appear, PeerNetworkUpdate,
                                  LanProbeResult, members
<1>2. TypeOK /\ RoomsOfTwo /\ [LanNext]_<<members, lan>>
        => [\A r \in Rooms : Departs(r) => Withdrawn(r)]_<<members, lan>>
  BY <1>1
<1> QED
  BY <1>2, TypeCorrectness, RoomsKeepTwo, PTL DEF LanSpec, DepartureWithdrawsVerdict
=============================================================================
