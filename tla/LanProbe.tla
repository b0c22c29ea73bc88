------------------------------ MODULE LanProbe ------------------------------
(***************************************************************************)
(* The LAN probe of a room: who is asked whether the PC can be reached on  *)
(* the LAN, the verdict kept in ROOM_LAST_PROBE, and the room state that   *)
(* room_state_changed announces.  It runs on top of Membership, which says *)
(* how the rooms change; each handler is one action here too.              *)
(***************************************************************************)
EXTENDS Membership

CONSTANTS
  Pcs,     \* the clients that join with a type is_pc_client_type accepts
  Apps     \* those that join with a type is_app_client_type accepts

\* A device reports the same type in every join.
ASSUME LanAssumption ==
  /\ Pcs \subseteq Clients /\ Apps \subseteq Clients /\ Pcs \cap Apps = {}
  /\ NoRoom \notin Rooms
  /\ RoomMaxPeers = 2

VARIABLES
  urlOk,       \* the PCs whose probe_url and private_ip pass is_valid_private_probe_url
  lastProbe,   \* ROOM_LAST_PROBE[r].status, "none" for an absent key; a timeout counts as a fail
  pending,     \* the unresolved PENDING_LAN_PROBES; probes of one pair in one room are not told apart
  announced,   \* the state in the last room_state_changed of each room
  probed       \* history: the clients the verdict in lastProbe[r] is about

members == <<online, roomOf>>
lan == <<urlOk, lastProbe, pending, announced, probed>>

Probes == [room : Rooms, pc : Pcs, app : Apps]
RoomStates == {"EMPTY", "SINGLE", "PAIR_UNKNOWN", "PAIR_SAME_LAN", "PAIR_DIFF_LAN"}

TypeOK ==
  /\ online \subseteq Clients
  /\ roomOf \in [Clients -> Rooms \cup {NoRoom}]
  /\ urlOk \subseteq Pcs
  /\ lastProbe \in [Rooms -> {"none", "ok", "fail"}]
  /\ pending \subseteq Probes
  /\ announced \in [Rooms -> RoomStates]
  /\ probed \in [Rooms -> SUBSET Clients]

LanInit ==
  /\ MembershipInit
  /\ urlOk = {}
  /\ lastProbe = [r \in Rooms |-> "none"]
  /\ pending = {}
  /\ announced = [r \in Rooms |-> "EMPTY"]
  /\ probed = [r \in Rooms |-> {}]

------------------------------------------------------------------------------
\* build_room_state_payload.
RoomState(r) ==
  CASE Members(r) = {}                 -> "EMPTY"
    [] \E c \in Members(r) : Members(r) = {c} -> "SINGLE"
    [] OTHER -> CASE lastProbe[r] = "ok"   -> "PAIR_SAME_LAN"
                  [] lastProbe[r] = "fail" -> "PAIR_DIFF_LAN"
                  [] OTHER                 -> "PAIR_UNKNOWN"

\* emit_room_state_changed for the rooms rs, at the end of a handler: the state it
\* tells.  The peers it lists, with those that are offline but have an FCM token
\* (_augment_with_fcm_offline_peers), are left out.
AnnounceBefore(rs) ==           \* mutant: the state is built before the change
  announced' = [r \in Rooms |-> IF r \in rs THEN RoomState(r) ELSE announced[r]]
Announce(rs) ==
  announced' = [r \in Rooms |-> IF r \in rs THEN RoomState(r)' ELSE announced[r]]

\* The verdicts once those of the rooms rs are popped.
Cleared(rs) == [r \in Rooms |-> IF r \in rs THEN "none" ELSE lastProbe[r]]

\* The PC and the app of a room of exactly these two, as probes of the room.
PairOf(r) == {p \in Probes : p.room = r /\ Members(r) = {p.pc, p.app}}

\* trigger_lan_probe_if_ready on the verdicts kept: the app is asked when the
\* PC has a valid URL, otherwise the verdict is a failure at once.
TriggerOnce(r, kept) ==         \* mutant: a room is not asked again before it answers
  LET pair == IF \E p \in pending : p.room = r THEN {} ELSE PairOf(r)'
      refused == {p \in pair : p.pc \notin urlOk'}
  IN  /\ pending' = pending \cup (pair \ refused)
      /\ lastProbe' = [x \in Rooms |-> IF x = r /\ refused # {} THEN "fail" ELSE kept[x]]
      /\ UNCHANGED probed
Trigger(r, kept) ==
  LET refused == {p \in PairOf(r)' : p.pc \notin urlOk'}
  IN  /\ pending' = pending \cup (PairOf(r)' \ refused)
      /\ lastProbe' = [kept EXCEPT ![r] = IF refused # {} THEN "fail" ELSE @]
      /\ probed' = [x \in Rooms |-> IF x = r /\ refused # {} THEN Members(r)'
                                    ELSE IF kept[x] = "none" THEN {} ELSE probed[x]]

\* update_client_network_meta and update_client_probe_meta: what they store
\* makes the URL of c valid or not.
NetworkMeta(c, out) == urlOk' \in {(urlOk \cup ({c} \cap Pcs)) \ out, urlOk \ ({c} \cup out)}

------------------------------------------------------------------------------
\* on_join that stops before the room: the metadata is kept, nothing is probed.
JoinTracked(c) == Appear(c) /\ NetworkMeta(c, {}) /\ UNCHANGED <<lastProbe, pending, announced, probed>>

\* on_join: the room left loses its verdict, that of the room entered stays,
\* also when a client is evicted from it; a PC is evicted only among PCs.
JoinRoom(c, r, out) ==
  LET left == {roomOf[c]} \cap (Rooms \ {r})
  IN  /\ Enter(c, r, out)
      /\ out \cap Pcs # {} => Members(r) \cup {c} \subseteq Pcs
      /\ NetworkMeta(c, out)
      /\ Trigger(r, Cleared(left))
      /\ Announce({r} \cup left)

\* detach_sid_from_tracking for the last session of c.  hint is the room on_leave
\* names, or NoRoom in on_disconnect.
HintedRoom(c, hint) == IF hint # NoRoom THEN hint ELSE roomOf[c]  \* mutant: the hint goes first
DetachedRoom(c, hint) == IF roomOf[c] # NoRoom THEN roomOf[c] ELSE hint
Detach(c, hint) ==
  /\ Exit(c)
  /\ urlOk' = urlOk \ {c}
  /\ \/ /\ DetachedRoom(c, hint) = NoRoom
        /\ UNCHANGED <<lastProbe, pending, announced, probed>>
     \/ \E room \in Rooms : /\ DetachedRoom(c, hint) = room
                           /\ Trigger(room, Cleared({room}))
                           /\ Announce({room, hint})

\* on_peer_network_update of a tracked client; of one that is not tracked, the
\* metadata kept has no probe_url and stays invalid.
PeerNetworkUpdate(c) ==
  /\ c \in online
  /\ UNCHANGED members
  /\ NetworkMeta(c, {})
  /\ \/ roomOf[c] = NoRoom /\ UNCHANGED <<lastProbe, pending, announced, probed>>
     \/ \E r \in Rooms : roomOf[c] = r /\ Trigger(r, Cleared({r})) /\ Announce({r})

\* on_lan_probe_result: any unresolved probe of the room is accepted, whoever
\* is in the room now.  Another probe of the same pair may remain.
LanProbeResult(p, verdict) ==
  /\ p \in pending
  /\ pending' \in {pending, pending \ {p}}
  /\ lastProbe' = [lastProbe EXCEPT ![p.room] = verdict]
  /\ probed' = [probed EXCEPT ![p.room] = {p.pc, p.app}]
  /\ UNCHANGED <<members, urlOk>>
  /\ Announce({p.room})

\* Every handler but lan_probe_result, which also decides transfers.
MembershipStep ==
  \E c \in Clients :
    \/ JoinTracked(c)
    \/ \E r \in Rooms, out \in SUBSET Clients : JoinRoom(c, r, out)
    \/ \E hint \in Rooms \cup {NoRoom} : Detach(c, hint)
    \/ PeerNetworkUpdate(c)

LanNext ==
  \/ MembershipStep
  \/ \E p \in pending, verdict \in {"ok", "fail"} : LanProbeResult(p, verdict)

LanSpec == LanInit /\ [][LanNext]_<<members, lan>>

------------------------------------------------------------------------------
\* Whatever handler changed the members of a room or its verdict, the last
\* room_state_changed tells the present state: the server's transfers and the
\* devices decide on the same one.
AnnouncedCurrent == \A r \in Rooms : announced[r] = RoomState(r)

\* A PC and an app that are alone in a room without a verdict have been asked
\* for one, however they came together: by joining, moving, eviction or the
\* departure of another, and whatever probes of earlier pairs are open.
PairIsProbed == \A r \in Rooms : lastProbe[r] = "none" => PairOf(r) \subseteq pending

\* A room that a member leaves without a successor, by leave, disconnect or a
\* move to another room, does not keep a positive verdict for its next pair.
DepartureWithdrawsVerdict ==
  [][\A r \in Rooms : Members(r)' # Members(r) /\ Members(r)' \subseteq Members(r)
                        => lastProbe'[r] # "ok"]_<<members, lan>>

\* socket_events.py rejects a probe result with 'probe_id is unknown or stale':
\* a room announced as PAIR_SAME_LAN owes it to a probe of the present pair.
ConfirmedMeansProbed ==
  \A r \in Rooms : announced[r] = "PAIR_SAME_LAN" => probed[r] = Members(r)
=============================================================================
