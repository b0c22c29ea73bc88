------------------------------ MODULE Delivery ------------------------------
(***************************************************************************)
(* What reaches a device: the texts of clipboard_push and POST /api/relay, *)
(* which go out twice, over the Socket.IO room and through the fan-outs of *)
(* Push, and the file events, which only go to the room.                   *)
(*                                                                         *)
(* Rooms has the sessions in detail; here a join may evict anybody.  The   *)
(* devices are external: one may be frozen behind an open socket, and what *)
(* is emitted to it is lost; it recognises a text it has by the id; over   *)
(* HTTP it tries again after an error.                                     *)
(***************************************************************************)
EXTENDS Push, FiniteSets

CONSTANTS
  Sids,
  Device,       \* Device[s]: the client that s is a socket of
  Items,        \* the texts and file events
  Author,       \* Author[x]: the client that relays x
  Files,        \* those that are file events
  Identified,   \* the texts that come with an id
  MaxCalls      \* bound: the items relayed, tries included

ASSUME DeliveryAssumption ==
  /\ Device \in [Sids -> Clients] /\ Author \in [Items -> Clients]
  /\ Files \subseteq Items /\ Identified \subseteq Items \ Files
  /\ MaxCalls \in Nat /\ Items \cap Nat = {}

VARIABLES
  held,      \* the sockets in CLIENT_SESSIONS
  heard,     \* the rooms each socket is subscribed to
  message,   \* the text each fan-out sends
  calls,
  sent,      \* the items that were relayed
  got,       \* what has come to each device
  failed,    \* the items an error was answered to
  owed       \* history: the devices each fan-out has still to reach

sessions == <<held, heard>>
relaying == <<message, calls, sent, got, failed, owed>>
push == <<token, rows, todo>>

NoMessage == [item |-> "none", id |-> 0, http |-> FALSE]
Copy == [item : Items, id : Items \cup 0..MaxCalls]
DeliveryTypeOK ==
  /\ TypeOK
  /\ held \subseteq Sids /\ heard \in [Sids -> SUBSET Rooms]
  /\ \A f \in Fanouts : IF todo[f] = {} THEN message[f] = NoMessage
                        ELSE message[f].item \in sent \ Files /\ message[f].id \in Items \cup 1..calls
  /\ calls \in 0..MaxCalls
  /\ got \in [Clients -> SUBSET Copy]
  /\ failed \subseteq sent \ Files /\ sent \subseteq Items
  /\ owed \in [Fanouts -> SUBSET Clients]

DeliveryInit ==
  /\ Init
  /\ held = {} /\ heard = [s \in Sids |-> {}]
  /\ message = [f \in Fanouts |-> NoMessage]
  /\ calls = 0 /\ sent = {} /\ got = [c \in Clients |-> {}] /\ failed = {}
  /\ owed = [f \in Fanouts |-> {}]

------------------------------------------------------------------------------
(* The sessions.                                                           *)

SidsOf(c) == {s \in Sids : Device[s] = c}

\* on join, perhaps with the device's token; the client of out is evicted.
Join(s, r, out) ==
  LET gone == (UNION {SidsOf(c) : c \in out}) \cap (held \cup {s})
  IN  /\ \A c, d \in out : c = d
      /\ held' = (held \cup {s}) \ gone
      /\ heard' = [x \in Sids |-> IF x \in gone THEN heard[x] \ {r}
                                  ELSE IF x = s THEN heard[x] \cup {r} ELSE heard[x]]
      /\ \/ UNCHANGED push
         \/ \E type \in Types : RegisterToken(Device[s], r, <<Device[s], token[Device[s]]>>, type)
      /\ UNCHANGED relaying

\* on leave.
Leave(s, r) ==
  /\ heard' = [heard EXCEPT ![s] = @ \ {r}] /\ held' = held \ {s}
  /\ UNCHANGED <<relaying, push>>

Disconnect(s) ==
  /\ heard' = [heard EXCEPT ![s] = {}] /\ held' = held \ {s}
  /\ UNCHANGED <<relaying, push>>

------------------------------------------------------------------------------
(* A call that relays item x to room r.                                    *)

\* get_client_from_sid.
SenderOf(s) == IF s \in held THEN Device[s] ELSE Nobody

\* The id build_clipboard_fcm_payload writes into the data, for both channels.
MessageId(x) == IF x \in Files THEN 0 ELSE IF x \in Identified THEN x ELSE calls'
PushedAnew(x) == -calls'       \* mutant: the id is not written back into the data
PushedId(x) == MessageId(x)

\* emit to the room, without the sockets of skip; whom it reaches.
Emitted(x, r, skip) ==
  /\ calls < MaxCalls /\ calls' = calls + 1
  /\ sent' = sent \cup {x}
  /\ \E reached \in SUBSET {Device[s] : s \in {y \in Sids \ skip : r \in heard[y]}} :
       got' = [c \in Clients |-> IF c \notin reached THEN got[c]
                 ELSE got[c] \cup {[item |-> x, id |-> MessageId(x)]}]
  /\ UNCHANGED sessions

\* The devices the fan-out is for: it goes to who is online as well.
Owed(r, sender) == {c \in Clients \ {sender} : Has(r, c) /\ Valid(rows[r][c].token)}

\* /api/relay answers with a 500 when the registry raises.
Failed(x, http) == failed' = IF http THEN failed \cup {x} ELSE failed

\* fanout_clipboard_fcm begins, if the tokens can be read and there are any.
FanOut(x, r, sender, http) ==
  \/ Failed(x, http) /\ UNCHANGED <<push, message, owed>>
  \/ RoomTokens(r, sender) = {} /\ UNCHANGED <<push, message, owed, failed>>
  \/ \E f \in Fanouts :
       /\ StartFanout(f, r, sender)
       /\ message' = [message EXCEPT ![f] = [item |-> x, id |-> PushedId(x), http |-> http]]
       /\ owed' = [owed EXCEPT ![f] = Owed(r, sender)]
       /\ UNCHANGED failed

\* on clipboard_push, from any socket to any room.
ClipboardPush(s, x, r) ==
  /\ x \in Items \ (Files \cup sent) /\ Author[x] = Device[s]
  /\ Emitted(x, r, {s})
  /\ FanOut(x, r, SenderOf(s), FALSE)

\* on file_push, file_announcement, file_ack, file_request_relay.
FileEvent(s, x, r) ==
  /\ x \in Files \ sent /\ Author[x] = Device[s]
  /\ Emitted(x, r, {s})
  /\ UNCHANGED <<push, message, failed, owed>>

\* POST /api/relay, which need not name its sender; only clipboard_sync fans out.
RelayMessage(x, r, sender) ==
  /\ x \in (Items \ sent) \cup failed /\ sender \in {Author[x], Nobody}
  /\ Emitted(x, r, {s \in held : Device[s] = sender})
  /\ IF x \in Files THEN UNCHANGED <<push, message, failed, owed>> ELSE FanOut(x, r, sender, TRUE)

------------------------------------------------------------------------------
(* The fan-out goes on.                                                    *)

Goes(f) == message' = [message EXCEPT ![f] = IF todo'[f] = {} THEN NoMessage ELSE @]
Settled(f, c) == owed' = [owed EXCEPT ![f] = @ \ {c}]

\* send_fcm_data: delivered, if the device still has the token.
Delivered(f, t) ==
  /\ Sent(f, t) /\ Goes(f)
  /\ IF Valid(t)
     THEN /\ got' = [got EXCEPT ![t[1]] =
                       @ \cup {[item |-> message[f].item, id |-> message[f].id]}]
          /\ Settled(f, t[1])
     ELSE UNCHANGED <<got, owed>>
  /\ UNCHANGED <<sessions, calls, sent, failed>>

\* 'error', or 'disabled': nothing is sent and nothing tried again.
Lost(f, t) ==
  /\ Sent(f, t) /\ Goes(f) /\ Settled(f, t[1])
  /\ UNCHANGED <<sessions, calls, sent, got, failed>>

\* 'invalid_token'.
PrunesToken(f, t) ==
  /\ Rejected(f, t) /\ Goes(f)
  /\ UNCHANGED <<sessions, calls, sent, got, failed, owed>>

\* The registry raises while it prunes.
Raises(f) ==
  /\ Aborted(f) /\ Goes(f) /\ Failed(message[f].item, message[f].http)
  /\ owed' = [owed EXCEPT ![f] = {}]
  /\ UNCHANGED <<sessions, calls, sent, got>>

\* on register_fcm_token.
Registers(c, r, t, type) == RegisterToken(c, r, t, type) /\ UNCHANGED <<sessions, relaying>>

\* FCM gives a device another token, and drops what is sent to the old one.
Renews(c) ==
  /\ Refresh(c)
  /\ owed' = [f \in Fanouts |-> owed[f] \ {c}]
  /\ UNCHANGED <<sessions, message, calls, sent, got, failed>>

DeliveryNext ==
  \/ \E s \in Sids, r \in Rooms :
       \/ \E out \in SUBSET Clients : Join(s, r, out)
       \/ Leave(s, r)
       \/ \E x \in Items : ClipboardPush(s, x, r) \/ FileEvent(s, x, r)
  \/ \E s \in Sids : Disconnect(s)
  \/ \E x \in Items, r \in Rooms, sender \in Clients \cup {Nobody} : RelayMessage(x, r, sender)
  \/ \E f \in Fanouts :
       \/ \E t \in todo[f] : Delivered(f, t) \/ Lost(f, t) \/ PrunesToken(f, t)
       \/ Raises(f)
  \/ \E c \in Clients :
       \/ Renews(c)
       \/ \E r \in Rooms, t \in Tokens, type \in Types : Registers(c, r, t, type)

DeliverySpec == DeliveryInit /\ [][DeliveryNext]_<<vars, sessions, relaying>>

------------------------------------------------------------------------------
\* A device sees a text once, although it comes over the socket and FCM: again
\* only if the sender was answered with an error after the broadcast, tried again,
\* and the text has no id of its own.
AgainOnlyIfRetried ==
  \A c \in Clients, x \in Items \ Files :
    Cardinality({m.id : m \in {n \in got[c] : n.item = x}}) > 1 => x \in failed \ Identified

\* Whoever is registered in the room when a text is relayed, online or not, gets
\* it through FCM, displaced meanwhile or not, unless FCM or the registry fails
\* or its token is renewed before its turn comes: who is owed has its turn yet.
NobodyForgotten == \A f \in Fanouts : \A c \in owed[f] : <<c, token[c]>> \in todo[f]
=============================================================================
