-------------------------------- MODULE Push --------------------------------
(***************************************************************************)
(* The FCM token registry and the fan-outs that read and prune it: what    *)
(* clipboard_push, file_available, file_need_relay and POST /api/relay do  *)
(* after their broadcast.  A fan-out reads the tokens of a room once and   *)
(* then waits for one send after another, so devices register, refresh     *)
(* their tokens and displace each other in between.                        *)
(*                                                                         *)
(* FCM is external: it gives a device one token at a time, never gives a   *)
(* token out twice, and may report a token that was replaced as invalid.   *)
(***************************************************************************)
EXTENDS Integers

CONSTANTS
  Clients,
  Rooms,
  Types,        \* the client types devices report
  Fanouts,      \* bound: the fan-outs that can be under way at once
  MaxRefresh,   \* bound: the tokens FCM gives to one device
  NoRow,        \* no row of fcm_tokens for a room and a client
  Nobody        \* a sender that is not registered: 'Unknown', or an API caller

ASSUME PushAssumption ==
  /\ MaxRefresh \in Nat \ {0}
  /\ "unknown" \in Types
  /\ Nobody \notin Clients

VARIABLES
  token,      \* external: which of its tokens a device has
  rows,       \* fcm_tokens by room and client_id
  todo        \* the tokens each fan-out has still to send to

vars == <<token, rows, todo>>

Tokens == Clients \X (1..MaxRefresh)
Row == [token : Tokens, type : Types]
ASSUME RowAssumption == NoRow \notin Row

Valid(t) == t[2] = token[t[1]]
Has(r, c) == rows[r][c] # NoRow

TypeOK ==
  /\ token \in [Clients -> 1..MaxRefresh]
  /\ rows \in [Rooms -> [Clients -> Row \cup {NoRow}]]
  /\ todo \in [Fanouts -> SUBSET Tokens]

Init ==
  /\ token = [c \in Clients |-> 1]
  /\ rows = [r \in Rooms |-> [c \in Clients |-> NoRow]]
  /\ todo = [f \in Fanouts |-> {}]

------------------------------------------------------------------------------
\* FCM replaces the token of a device, which has not told the server yet.
Refresh(c) ==
  /\ token[c] < MaxRefresh
  /\ token' = [token EXCEPT ![c] = @ + 1]
  /\ UNCHANGED <<rows, todo>>

\* register_token: a client of the same type is displaced.
Displaced(r, c, type) == {d \in Clients \ {c} : Has(r, d) /\ rows[r][d].type = type}
UntypedRow(t, type) == [token |-> t, type |-> "NULL"]    \* mutant: the type is not stored
NewRow(t, type) == [token |-> t, type |-> type]
RegisteredBeside(r, c, row) == [rows[r] EXCEPT ![c] = row]   \* mutant: nobody is displaced
Registered(r, c, row) ==
  [d \in Clients |-> IF d = c THEN row
                     ELSE IF d \in Displaced(r, c, row.type) THEN NoRow ELSE rows[r][d]]

\* on register_fcm_token; the message may be older than the device's last token.
\* One without a type is registered as 'unknown': normalize_client_type never
\* returns an empty type.
RegisterToken(c, r, t, type) ==
  /\ t[1] = c /\ t[2] <= token[c]
  /\ rows' = [rows EXCEPT ![r] = Registered(r, c, NewRow(t, type))]
  /\ UNCHANGED <<token, todo>>

\* get_room_tokens without the sender's: a fan-out begins.
RoomTokens(r, sender) == {rows[r][c].token : c \in {d \in Clients \ {sender} : Has(r, d)}}
StartFanout(f, r, sender) ==
  /\ todo[f] = {}
  /\ RoomTokens(r, sender) # {}
  /\ todo' = [todo EXCEPT ![f] = RoomTokens(r, sender)]
  /\ UNCHANGED <<token, rows>>

\* remove_token.
PrunedClient(t) ==              \* mutant: the rows of the client the token was read from
  [r \in Rooms |-> [rows[r] EXCEPT ![t[1]] = NoRow]]
Pruned(t) ==
  [r \in Rooms |-> [c \in Clients |-> IF Has(r, c) /\ rows[r][c].token = t THEN NoRow ELSE rows[r][c]]]

\* send_fcm_data returns ok, or an error that says nothing of the token.
Sent(f, t) ==
  /\ t \in todo[f]
  /\ todo' = [todo EXCEPT ![f] = @ \ {t}]
  /\ UNCHANGED <<token, rows>>

\* send_fcm_data returns invalid_token.
RejectedLast(f, t) ==           \* mutant: the loop ends with the invalid token
  /\ t \in todo[f] /\ ~Valid(t)
  /\ todo' = [todo EXCEPT ![f] = {}]
  /\ rows' = Pruned(t)
  /\ UNCHANGED token
Rejected(f, t) ==
  /\ t \in todo[f] /\ ~Valid(t)
  /\ todo' = [todo EXCEPT ![f] = @ \ {t}]
  /\ rows' = Pruned(t)
  /\ UNCHANGED token

\* The send or the registry raises: the rest of the fan-out is dropped.
Aborted(f) ==
  /\ todo[f] # {}
  /\ todo' = [todo EXCEPT ![f] = {}]
  /\ UNCHANGED <<token, rows>>

Next ==
  \/ \E c \in Clients :
       \/ Refresh(c)
       \/ \E r \in Rooms, t \in Tokens, type \in Types : RegisterToken(c, r, t, type)
  \/ \E f \in Fanouts :
       \/ \E r \in Rooms, sender \in Clients \cup {Nobody} : StartFanout(f, r, sender)
       \/ \E t \in todo[f] : Sent(f, t) \/ Rejected(f, t)
       \/ Aborted(f)

Spec == Init /\ [][Next]_vars

------------------------------------------------------------------------------
\* Pairing is one to one: whatever types devices register with, change to or
\* leave out, a room has one registered device of each type.
OneDevicePerType ==
  \A r \in Rooms, c, d \in Clients :
    Has(r, c) /\ Has(r, d) /\ rows[r][c].type = rows[r][d].type => c = d

\* A fan-out that was told of an invalid token never takes back a registration
\* the device has renewed while the send was under way: a row with the present
\* token only goes when a device of its own type registers in its room.
OnlyDisplacementDrops ==
  [][\A r \in Rooms, c \in Clients :
       Has(r, c) /\ rows'[r][c] = NoRow /\ Valid(rows[r][c].token)
         => \E d \in Clients \ {c} : rows'[r][d] # NoRow /\ rows'[r][d].type = rows[r][c].type]_vars

=============================================================================
