-------------------------------- MODULE Rooms --------------------------------
(***************************************************************************)
(* Session tracking and room membership of the signalling server: the      *)
(* dictionaries of signal_core.py and the connect, disconnect, join and    *)
(* leave handlers of socket_events.py.                                     *)
(*                                                                         *)
(* The handlers run in greenlets of one gevent worker.  None of the four   *)
(* reaches a switch point (an emit only queues a packet), so each is one   *)
(* action; the interleavings are those of the handlers of several sockets. *)
(***************************************************************************)
EXTENDS ListOps, FiniteSets

CONSTANTS
  Clients,        \* client ids, chosen by the devices
  Sids,           \* Socket.IO session ids, chosen by the server
  Rooms,
  ClientTypes,    \* normalised client types
  PcTypes,        \* those that is_pc_client_type accepts
  UnknownType,    \* CLIENT_TYPES.get(c, 'unknown') of an absent client
  RoomMaxPeers,   \* ROOM_MAX_PEERS
  Uses,           \* Uses[s]: the client ids the device behind s may join as
  NoRoom,         \* CLIENT_ROOMS.get(c) of a client without a room
  NoClient        \* get_client_from_sid of a sid nobody holds

ASSUME ConstantsAssumption ==
  /\ IsFiniteSet(Clients)
  /\ PcTypes \subseteq ClientTypes
  /\ UnknownType \in ClientTypes \ PcTypes
  /\ RoomMaxPeers \in Nat \ {0}
  /\ Uses \in [Sids -> SUBSET Clients]
  /\ NoRoom \notin Rooms
  /\ NoClient \notin Clients

VARIABLES
  connected,      \* the open sockets
  subscribed,     \* subscribed[s]: the Socket.IO rooms s receives broadcasts of
  sessions,       \* CLIENT_SESSIONS; {} stands for an absent key
  sessionOrder,   \* insertion order of the keys of CLIENT_SESSIONS
  clientRoom,     \* CLIENT_ROOMS
  clientType,     \* CLIENT_TYPES
  roomOrder,      \* ROOM_CLIENT_ORDER; << >> stands for an absent key
  stats           \* the client list of the last room_stats sent to each room

tracking == <<sessions, sessionOrder, clientRoom, clientType, roomOrder>>
vars == <<connected, subscribed, tracking, stats>>

\* get_client_from_sid: the first client in dictionary order that holds s.
Holders(s) == {c \in Clients : s \in sessions[c]}
ClientFromFirstEntry(s) ==      \* mutant: the default returned inside the loop
  IF sessionOrder # << >> /\ Head(sessionOrder) \in Holders(s) THEN Head(sessionOrder) ELSE NoClient
ClientFromSid(s) ==
  LET owners == Keep(sessionOrder, Holders(s))
  IN  IF owners = << >> THEN NoClient ELSE Head(owners)

\* get_room_client_ids.  It also stores the filtered list when that differs
\* from the one it read; ListsAgree says that it never does.
RoomClients(r) == Keep(roomOrder[r], {c \in Clients : clientRoom[c] = r /\ sessions[c] # {}})

TypeOK ==
  /\ connected \subseteq Sids
  /\ subscribed \in [Sids -> SUBSET Rooms]
  /\ sessions \in [Clients -> SUBSET Sids]
  /\ sessionOrder \in Seq(Clients)
  /\ clientRoom \in [Clients -> Rooms \cup {NoRoom}]
  /\ clientType \in [Clients -> ClientTypes]
  /\ roomOrder \in [Rooms -> Seq(Clients)]
  /\ stats \in [Rooms -> Seq(Clients)]

Init ==
  /\ connected = {}
  /\ subscribed = [s \in Sids |-> {}]
  /\ sessions = [c \in Clients |-> {}]
  /\ sessionOrder = << >>
  /\ clientRoom = [c \in Clients |-> NoRoom]
  /\ clientType = [c \in Clients |-> UnknownType]
  /\ roomOrder = [r \in Rooms |-> << >>]
  /\ stats = [r \in Rooms |-> << >>]

------------------------------------------------------------------------------
\* The clients whose last session s is: detach_sid_from_tracking purges the
\* first holder of s when no session of it remains.
OwnerOf(s) == {ClientFromSid(s)} \cap Clients   \* mutant: the owner is purged anyway
LastSessionOf(s) == {c \in {ClientFromSid(s)} \cap Clients : sessions[c] = {s}}

\* remove_client_from_room_order, for the room each of the clients is in.
ListsLeftAlone(gone) == roomOrder   \* mutant: the room is looked up once it is popped
ListsWithout(gone) ==
  [r \in Rooms |-> Keep(roomOrder[r], {c \in Clients : ~ (c \in gone /\ clientRoom[c] = r)})]

\* detach_sid_from_tracking followed, for a client that lost its last session,
\* by purge_client_tracking.
DetachSid(s) ==
  LET gone == LastSessionOf(s)
  IN  /\ sessions' = [c \in Clients |-> IF c \in gone THEN {}
                                        ELSE IF c = ClientFromSid(s) THEN sessions[c] \ {s}
                                        ELSE sessions[c]]
      /\ sessionOrder' = Keep(sessionOrder, Clients \ gone)
      /\ clientRoom' = [c \in Clients |-> IF c \in gone THEN NoRoom ELSE clientRoom[c]]
      /\ clientType' = [c \in Clients |-> IF c \in gone THEN UnknownType ELSE clientType[c]]
      /\ roomOrder' = ListsWithout(gone)

\* broadcast_room_stats to each of the rooms rs.
BroadcastStale(rs) ==           \* mutant: broadcast before the change
  stats' = [r \in Rooms |-> IF r \in rs THEN RoomClients(r) ELSE stats[r]]
BroadcastStats(rs) ==
  stats' = [r \in Rooms |-> IF r \in rs THEN RoomClients(r)' ELSE stats[r]]

\* enforce_room_capacity for the list q of a room whose clients have the types
\* in types.  choose_eviction_candidate takes the first client that is not a
\* PC, or the first of all when only PCs are left; the loop stops at the
\* capacity, so it evicts a prefix of this order.
OldestFirst(q, types) == q      \* mutant: the class of the clients is ignored
EvictionOrder(q, types) ==
  LET pcs == {c \in Clients : types[c] \in PcTypes}
  IN  Keep(q, Clients \ pcs) \o Keep(q, pcs)
EvictedEarly(q, types) ==       \* mutant: room is made for a client not yet there
  {EvictionOrder(q, types)[i] : i \in 1..(Len(q) - RoomMaxPeers + 1)}
Evicted(q, types) == {EvictionOrder(q, types)[i] : i \in 1..(Len(q) - RoomMaxPeers)}

\* evict_client_from_room takes every session of an evicted client out of the
\* Socket.IO room of the overfull room.
EvictedSids(out, held) == UNION {held[d] : d \in out}

------------------------------------------------------------------------------
\* on_connect.  A sid is a fresh uuid: no client can hold it yet.
Connect(s) ==
  /\ s \notin connected /\ Holders(s) = {}
  /\ connected' = connected \cup {s}
  /\ UNCHANGED <<subscribed, tracking, stats>>

\* on_join without a client id, or with a client_type that is blank once
\* stripped: the socket enters the Socket.IO room and nothing is tracked.
JoinUntracked(s, r) ==
  /\ s \in connected
  /\ subscribed' = [subscribed EXCEPT ![s] = @ \cup {r}]
  /\ UNCHANGED <<connected, tracking, stats>>

\* The part of on_join before the room: the session and the type are kept.
Track(s, c, t) ==
  /\ s \in connected /\ c \in Uses[s]
  /\ sessions' = [sessions EXCEPT ![c] = @ \cup {s}]
  /\ sessionOrder' = AppendNew(sessionOrder, c)
  /\ clientType' = [clientType EXCEPT ![c] = t]
  /\ UNCHANGED <<connected, clientRoom, roomOrder, stats>>

\* on_join with a client id and no room: the room of the client is left as it
\* was.
JoinWithoutRoom(s, c, t) == Track(s, c, t) /\ UNCHANGED subscribed

\* on_join with a room and a network_epoch or probe_ttl_ms that is no number:
\* int() raises when the socket is in the Socket.IO room and the session is
\* tracked, before the client is given the room.
JoinAborted(s, c, t, r) ==
  Track(s, c, t) /\ subscribed' = [subscribed EXCEPT ![s] = @ \cup {r}]

\* on_join: enter the Socket.IO room, track the session, leave the list of the
\* previous room, enter that of the new one, evict down to the capacity, and
\* broadcast the lists of both rooms.  Nothing takes the socket out of the
\* Socket.IO room of the previous room.
Join(s, c, t, r) ==
  LET held  == [sessions EXCEPT ![c] = @ \cup {s}]
      types == [clientType EXCEPT ![c] = t]
      list  == AppendNew(roomOrder[r], c)
      out   == Evicted(list, types)
      moved == {clientRoom[c]} \ {r, NoRoom}
  IN  /\ s \in connected /\ c \in Uses[s]
      /\ sessions' = [d \in Clients |-> IF d \in out THEN {} ELSE held[d]]
      /\ sessionOrder' = Keep(AppendNew(sessionOrder, c), Clients \ out)
      /\ clientRoom' = [d \in Clients |-> IF d \in out THEN NoRoom
                                          ELSE IF d = c THEN r ELSE clientRoom[d]]
      /\ clientType' = [d \in Clients |-> IF d \in out THEN UnknownType ELSE types[d]]
      /\ roomOrder' = [x \in Rooms |->
                         IF x = r THEN Keep(list, Clients \ out)
                         ELSE IF x \in moved THEN Keep(roomOrder[x], Clients \ {c})
                         ELSE roomOrder[x]]
      /\ subscribed' = [x \in Sids |->
                          IF x \in EvictedSids(out, held) THEN subscribed[x] \ {r}
                          ELSE IF x = s THEN subscribed[x] \cup {r}
                          ELSE subscribed[x]]
      /\ BroadcastStats({r} \cup moved)
      /\ UNCHANGED connected

\* on_leave: whatever room is named, the sid is detached from its client; a
\* client without other sessions loses the room it was tracked in.
Leave(s, r) ==
  /\ s \in connected
  /\ subscribed' = [subscribed EXCEPT ![s] = @ \ {r}]
  /\ DetachSid(s)
  /\ BroadcastStats({r} \cup {clientRoom[c] : c \in LastSessionOf(s)})
  /\ UNCHANGED connected

\* on_disconnect, after which Socket.IO forgets the rooms of the sid.
Disconnect(s) ==
  /\ s \in connected
  /\ connected' = connected \ {s}
  /\ subscribed' = [subscribed EXCEPT ![s] = {}]
  /\ DetachSid(s)
  /\ BroadcastStats({clientRoom[c] : c \in LastSessionOf(s)})

Next ==
  \E s \in Sids :
    \/ Connect(s)
    \/ Disconnect(s)
    \/ \E r \in Rooms : JoinUntracked(s, r) \/ Leave(s, r)
    \/ \E c \in Clients, t \in ClientTypes :
         \/ JoinWithoutRoom(s, c, t)
         \/ \E r \in Rooms : Join(s, c, t, r) \/ JoinAborted(s, c, t, r)

Spec == Init /\ [][Next]_vars

------------------------------------------------------------------------------
(* What the tracker promises.                                              *)

\* The three dictionaries tell the same story: a room's list holds, without
\* repetition, exactly the clients whose room it is, each of them has a
\* session, and the key order of CLIENT_SESSIONS lists the clients that have
\* one.  get_room_client_ids filters and rewrites the stored list defensively;
\* this says it never has anything to repair.
ListsAgree ==
  /\ \A r \in Rooms : /\ IsInjective(roomOrder[r])
                      /\ Range(roomOrder[r]) = {c \in Clients : clientRoom[c] = r}
  /\ \A c \in Clients : clientRoom[c] # NoRoom => sessions[c] # {}
  /\ IsInjective(sessionOrder)
  /\ Range(sessionOrder) = {c \in Clients : sessions[c] # {}}

\* No interleaving of joins, moves, leaves and disconnects leaves more than
\* ROOM_MAX_PEERS clients tracked in a room.
RoomCapacity ==
  \A r \in Rooms : Cardinality({c \in Clients : clientRoom[c] = r}) <= RoomMaxPeers

\* Whatever handler changed the members of a room, the last room_stats sent to
\* the room lists its present members, in join order: no handler changes a
\* list without a broadcast, and none broadcasts before its last change.
StatsCurrent == \A r \in Rooms : stats[r] = RoomClients(r)

\* A closed socket that is still tracked as a session belongs to a device that
\* joined under several client ids; with one id per device, disconnect always
\* forgets the sid.
GhostsNeedTwoIds ==
  \A s \in Sids \ connected : Holders(s) # {} => Cardinality(Holders(s)) < Cardinality(Uses[s])

\* A client with a second live session never drops out of the tracker because
\* of what one of its sockets does (detach_sid_from_tracking keeps a client
\* while a session of it remains): only an eviction, which leaves a room filled
\* to its capacity and out of reach of all the sessions of the evicted client.
OnlyEvictionDropsSeveral ==
  [][\A c \in Clients :
       Cardinality(sessions[c]) > 1 /\ sessions'[c] = {} =>
         \E r \in Rooms : /\ Len(roomOrder'[r]) = RoomMaxPeers
                          /\ \A s \in sessions[c] : r \notin subscribed'[s]]_vars

\* When an arrival displaces client c of a room and client d of it stays, then
\* c is not a PC beside a d that is none, and of two clients of the same class
\* c is the one that joined first (RELAY_SERVER_API.md, 4.2).
Before(q, c, d) == \E i, j \in DOMAIN q : i < j /\ q[i] = c /\ q[j] = d
IsPc(c) == clientType[c] \in PcTypes
EvictionFollowsOrder ==
  [][\A r \in Rooms :
       \A c \in Range(roomOrder[r]) \ Range(roomOrder'[r]), d \in Range(roomOrder'[r]) :
         Range(roomOrder'[r]) \ Range(roomOrder[r]) # {} =>
           /\ IsPc(c) => IsPc(d)'
           /\ IsPc(c) = IsPc(d)' /\ d \in Range(roomOrder[r]) => Before(roomOrder[r], c, d)]_vars

\* The tracker implements Membership: each handler is the entry of one client,
\* the exit of one client, or invisible to the rest of the server.
M == INSTANCE Membership WITH online <- {c \in Clients : sessions[c] # {}},
                              roomOf <- clientRoom
ImplementsMembership == M!MembershipSpec

==============================================================================
