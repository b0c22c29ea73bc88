----------------------------- MODULE Membership -----------------------------
(***************************************************************************)
(* What the session tracker promises to the rest of the server: which      *)
(* clients have a session, which room each of them is in, and how one      *)
(* handler may change that.  Rooms implements it (Rooms maps online to the *)
(* keys of CLIENT_SESSIONS and roomOf to CLIENT_ROOMS); Transfer is built  *)
(* on it.                                                                  *)
(***************************************************************************)
EXTENDS Integers, FiniteSets

CONSTANTS Clients, Rooms, NoRoom, RoomMaxPeers

VARIABLES
  online,   \* the clients that have a session
  roomOf    \* the room of each client, or NoRoom

Members(r) == {c \in Clients : roomOf[c] = r}

MembershipInit == online = {} /\ roomOf = [c \in Clients |-> NoRoom]

\* A client gets a session and keeps the room it is in.
Appear(c) == online' = online \cup {c} /\ UNCHANGED roomOf

\* A client enters room r, from wherever it was.  One client is dropped from a
\* room that overflows, and none from another; it may be the one that enters.
Enter(c, r, out) ==
  /\ out \subseteq Members(r) \cup {c}
  /\ \A d, e \in out : d = e
  /\ out # {} => Cardinality(Members(r) \cup {c}) > RoomMaxPeers
  /\ online' = (online \cup {c}) \ out
  /\ roomOf' = [d \in Clients |-> IF d \in out THEN NoRoom
                                  ELSE IF d = c THEN r ELSE roomOf[d]]
  /\ Cardinality(Members(r)') <= RoomMaxPeers

\* A client loses its last session and its room.
Exit(c) ==
  /\ c \in online
  /\ online' = online \ {c}
  /\ roomOf' = [roomOf EXCEPT ![c] = NoRoom]

MembershipNext ==
  \E c \in Clients :
    \/ Appear(c)
    \/ \E r \in Rooms, out \in SUBSET Clients : Enter(c, r, out)
    \/ Exit(c)

MembershipSpec == MembershipInit /\ [][MembershipNext]_<<online, roomOf>>
=============================================================================
