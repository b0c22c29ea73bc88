--------------------------- MODULE DeliveryProofs ---------------------------
(***************************************************************************)
(* Proofs about Push and Delivery, for any devices, sockets, rooms and     *)
(* fan-outs.  First what registering and pruning do to the registry; then  *)
(* what relays texts is a registry with fan-outs as Push has it, so that   *)
(* the first part holds of it, and no fan-out forgets a device.            *)
(***************************************************************************)
EXTENDS Delivery, FiniteSetTheorems, TLAPS

(* Push.                                                                   *)

\* What the database operations return: registering and pruning only ever
\* take rows away from others, and keep the rest as it was.
LEMMA RegisteredRows ==
  ASSUME NEW r \in Rooms, NEW c \in Clients, NEW row \in Row, TypeOK
  PROVE  /\ Registered(r, c, row) \in [Clients -> Row \cup {NoRow}]
         /\ Registered(r, c, row)[c] = row
         /\ \A d \in Clients \ {c} :
              \/ Registered(r, c, row)[d] = NoRow /\ rows[r][d].type = row.type
              \/ /\ Registered(r, c, row)[d] = rows[r][d]
                 /\ Has(r, d) => rows[r][d].type # row.type
  BY DEF Registered, Displaced, TypeOK, Has

LEMMA PrunedRows ==
  ASSUME NEW t \in Tokens, TypeOK
  PROVE  /\ Pruned(t) \in [Rooms -> [Clients -> Row \cup {NoRow}]]
         /\ \A r \in Rooms, c \in Clients :
              \/ Pruned(t)[r][c] = NoRow /\ rows[r][c].token = t
              \/ Pruned(t)[r][c] = rows[r][c]
  BY DEF Pruned, TypeOK, Has

\* What a registration does to the rows of every room.
LEMMA RegistrationStep ==
  ASSUME TypeOK, NEW c \in Clients, NEW r \in Rooms, NEW t \in Tokens, NEW type \in Types,
         RegisterToken(c, r, t, type)
  PROVE  /\ rows'[r][c] # NoRow /\ rows'[r][c].type = type
         /\ \A d \in Clients \ {c} :
              \/ rows'[r][d] = NoRow /\ rows[r][d].type = type
              \/ rows'[r][d] = rows[r][d] /\ (Has(r, d) => rows[r][d].type # type)
         /\ \A x \in Rooms \ {r} : rows'[x] = rows[x]
<1>1. NewRow(t, type) \in Row /\ NewRow(t, type).type = type
  BY DEF NewRow, Row
<1>2. rows'[r] = Registered(r, c, NewRow(t, type)) /\ \A x \in Rooms \ {r} : rows'[x] = rows[x]
  BY DEF RegisterToken, TypeOK
<1> QED
  BY <1>1, <1>2, RegisteredRows, RowAssumption

\* No step of the registry or of a fan-out leaves the types.
LEMMA TypeStep ==
  ASSUME TypeOK, [Next]_vars
  PROVE  TypeOK'
<1>1. ASSUME NEW c \in Clients, Refresh(c) PROVE TypeOK'
  BY <1>1, PushAssumption DEF TypeOK, Refresh, Tokens, Row
<1>2. ASSUME NEW c \in Clients, NEW r \in Rooms, NEW t \in Tokens, NEW type \in Types,
             RegisterToken(c, r, t, type)
      PROVE  TypeOK'
  <2>1. NewRow(t, type) \in Row
    BY DEF NewRow, Row
  <2> QED
    BY <1>2, <2>1, RegisteredRows DEF TypeOK, RegisterToken
<1>3. ASSUME NEW f \in Fanouts, NEW r \in Rooms, NEW sender \in Clients \cup {Nobody},
             StartFanout(f, r, sender)
      PROVE  TypeOK'
  <2>1. RoomTokens(r, sender) \subseteq Tokens
    BY DEF RoomTokens, TypeOK, Has, Row
  <2> QED
    BY <1>3, <2>1 DEF TypeOK, StartFanout
<1>4. ASSUME NEW f \in Fanouts, NEW t \in todo[f], Sent(f, t) PROVE TypeOK'
  BY <1>4 DEF TypeOK, Sent
<1>5. ASSUME NEW f \in Fanouts, NEW t \in todo[f], Rejected(f, t) PROVE TypeOK'
  <2>1. t \in Tokens
    BY DEF TypeOK
  <2> QED
    BY <1>5, <2>1, PrunedRows DEF TypeOK, Rejected
<1>6. ASSUME NEW f \in Fanouts, Aborted(f) PROVE TypeOK'
  BY <1>6 DEF TypeOK, Aborted
<1>7. CASE UNCHANGED vars
  BY <1>7 DEF TypeOK, vars
<1> QED
  BY <1>1, <1>2, <1>3, <1>4, <1>5, <1>6, <1>7 DEF Next

\* The registry and the fan-outs keep their types (fcm_registry.py).
THEOREM TypeCorrectness == Spec => []TypeOK
<1>1. Init => TypeOK
  BY PushAssumption DEF Init, TypeOK
<1> QED
  BY <1>1, TypeStep, PTL DEF Spec

\* The registry never holds two devices of one type in a room (register_token).
THEOREM OneDeviceOfEachType == Spec => []OneDevicePerType
<1>1. Init => OneDevicePerType
  BY DEF Init, OneDevicePerType, Has
<1>2. TypeOK /\ OneDevicePerType /\ [Next]_vars => OneDevicePerType'
  <2> SUFFICES ASSUME TypeOK, OneDevicePerType, [Next]_vars PROVE OneDevicePerType'
    OBVIOUS
  <2>1. ASSUME NEW c \in Clients, NEW r \in Rooms, NEW t \in Tokens, NEW type \in Types,
               RegisterToken(c, r, t, type)
        PROVE  OneDevicePerType'
    <3> SUFFICES ASSUME NEW x \in Rooms, NEW d \in Clients, NEW e \in Clients,
                        rows'[x][d] # NoRow, rows'[x][e] # NoRow, rows'[x][d].type = rows'[x][e].type
                 PROVE  d = e
      BY DEF OneDevicePerType, Has
    <3>1. CASE x # r
      BY <2>1, <3>1, RegistrationStep DEF OneDevicePerType, Has
    <3>2. CASE x = r /\ d # c /\ e # c
      BY <2>1, <3>2, RegistrationStep DEF OneDevicePerType, Has
    <3>3. CASE x = r /\ (d = c \/ e = c)
      BY <2>1, <3>3, RegistrationStep DEF Has
    <3> QED
      BY <3>1, <3>2, <3>3
  <2>2. ASSUME NEW f \in Fanouts, NEW t \in todo[f], Rejected(f, t) PROVE OneDevicePerType'
    <3>1. t \in Tokens
      BY DEF TypeOK
    <3> QED
      BY <2>2, <3>1, PrunedRows DEF OneDevicePerType, Rejected, Has
  <2>3. CASE UNCHANGED rows
    BY <2>3 DEF OneDevicePerType, Has
  <2> QED
    BY <2>1, <2>2, <2>3 DEF Next, Refresh, StartFanout, Sent, Aborted, vars
<1> QED
  BY <1>1, <1>2, TypeCorrectness, PTL DEF Spec

\* A valid registration is only lost to a device of its own type, never to the
\* pruning of a fan-out (fanout_clipboard_fcm, fanout_wake_fcm).
THEOREM OnlyDisplacementEverDrops == Spec => OnlyDisplacementDrops
<1> DEFINE Dropped(r, c) == Has(r, c) /\ rows'[r][c] = NoRow /\ Valid(rows[r][c].token)
           Replaced(r, c) == \E d \in Clients \ {c} : rows'[r][d] # NoRow /\ rows'[r][d].type = rows[r][c].type
<1>1. ASSUME TypeOK, [Next]_vars, NEW r \in Rooms, NEW c \in Clients, Dropped(r, c)
      PROVE  Replaced(r, c)
  <2>1. ASSUME NEW d \in Clients, NEW s \in Rooms, NEW t \in Tokens, NEW type \in Types,
               RegisterToken(d, s, t, type)
        PROVE  Replaced(r, c)
    <3>1. r = s /\ c # d
      BY <1>1, <2>1, RegistrationStep DEF Has
    <3> QED
      BY <1>1, <2>1, <3>1, RegistrationStep DEF Has
  <2>2. ASSUME NEW f \in Fanouts, NEW t \in todo[f], Rejected(f, t) PROVE FALSE
    <3>1. t \in Tokens /\ ~Valid(t) /\ rows' = Pruned(t)
      BY <1>1, <2>2 DEF TypeOK, Rejected
    <3> QED
      BY <1>1, <3>1, PrunedRows DEF Has
  <2>3. CASE UNCHANGED rows
    BY <1>1, <2>3 DEF Has
  <2> QED
    BY <1>1, <2>1, <2>2, <2>3 DEF Next, Refresh, StartFanout, Sent, Aborted, vars
<1>2. TypeOK /\ [Next]_vars => [\A r \in Rooms, c \in Clients : Dropped(r, c) => Replaced(r, c)]_vars
  BY <1>1
<1> QED
  BY <1>2, TypeCorrectness, PTL DEF Spec, OnlyDisplacementDrops

------------------------------------------------------------------------------
(* Delivery.                                                               *)

\* A call that relays an item starts a fan-out or leaves the registry alone.
LEMMA CallStep ==
  ASSUME NEW x, NEW r \in Rooms, NEW sender \in Clients \cup {Nobody}, NEW http,
         FanOut(x, r, sender, http)
  PROVE  [Next]_vars
<1>1. CASE UNCHANGED push
  BY <1>1 DEF push, vars
<1>2. CASE \E f \in Fanouts : StartFanout(f, r, sender)
  BY <1>2 DEF Next
<1> QED
  BY <1>1, <1>2 DEF FanOut

LEMMA SenderIsKnown ==
  ASSUME NEW s \in Sids
  PROVE  SenderOf(s) \in Clients \cup {Nobody}
BY DeliveryAssumption DEF SenderOf

\* A join registers the token the device has, or none.
LEMMA JoinStep ==
  ASSUME TypeOK, NEW s \in Sids, NEW r \in Rooms, NEW out, Join(s, r, out)
  PROVE  [Next]_vars
<1>1. Device[s] \in Clients /\ <<Device[s], token[Device[s]]>> \in Tokens
  BY DeliveryAssumption DEF TypeOK, Tokens
<1>2. CASE UNCHANGED push
  BY <1>2 DEF push, vars
<1>3. CASE \E type \in Types : RegisterToken(Device[s], r, <<Device[s], token[Device[s]]>>, type)
  BY <1>1, <1>3 DEF Next
<1> QED
  BY <1>2, <1>3 DEF Join

\* Each step of the relay is a step of Push or leaves the registry alone.
LEMMA StepImplementsPush ==
  ASSUME TypeOK, [DeliveryNext]_<<vars, sessions, relaying>>
  PROVE  [Next]_vars
<1>1. ASSUME NEW s \in Sids, NEW r \in Rooms, NEW out \in SUBSET Clients, Join(s, r, out)
      PROVE  [Next]_vars
  BY <1>1, JoinStep
<1>2. ASSUME NEW s \in Sids, NEW r \in Rooms, Leave(s, r) PROVE [Next]_vars
  BY <1>2 DEF Leave, push, vars
<1>3. ASSUME NEW s \in Sids, NEW r \in Rooms, NEW x \in Items, ClipboardPush(s, x, r)
      PROVE  [Next]_vars
  BY <1>3, CallStep, SenderIsKnown DEF ClipboardPush
<1>4. ASSUME NEW s \in Sids, NEW r \in Rooms, NEW x \in Items, FileEvent(s, x, r)
      PROVE  [Next]_vars
  BY <1>4 DEF FileEvent, push, vars
<1>5. ASSUME NEW s \in Sids, Disconnect(s) PROVE [Next]_vars
  BY <1>5 DEF Disconnect, push, vars
<1>6. ASSUME NEW x \in Items, NEW r \in Rooms, NEW sender \in Clients \cup {Nobody},
             RelayMessage(x, r, sender)
      PROVE  [Next]_vars
  <2>1. CASE x \in Files
    BY <1>6, <2>1 DEF RelayMessage, push, vars
  <2>2. CASE x \notin Files
    BY <1>6, <2>2, CallStep DEF RelayMessage
  <2> QED
    BY <2>1, <2>2
<1>7. ASSUME NEW f \in Fanouts, NEW t \in todo[f],
             Delivered(f, t) \/ Lost(f, t) \/ PrunesToken(f, t)
      PROVE  [Next]_vars
  BY <1>7 DEF Delivered, Lost, PrunesToken, Next
<1>8. ASSUME NEW f \in Fanouts, Raises(f) PROVE [Next]_vars
  BY <1>8 DEF Raises, Next
<1>9. ASSUME NEW c \in Clients, Renews(c) PROVE [Next]_vars
  BY <1>9 DEF Renews, Next
<1>10. ASSUME NEW c \in Clients, NEW r \in Rooms, NEW t \in Tokens, NEW type \in Types,
              Registers(c, r, t, type)
       PROVE  [Next]_vars
  BY <1>10 DEF Registers, Next
<1>11. CASE UNCHANGED <<vars, sessions, relaying>>
  BY <1>11
<1> QED
  BY <1>1, <1>2, <1>3, <1>4, <1>5, <1>6, <1>7, <1>8, <1>9, <1>10, <1>11 DEF DeliveryNext

\* The registry keeps its types under the handlers that relay texts.
LEMMA RegistryTypes == DeliverySpec => []TypeOK
<1>1. DeliveryInit => TypeOK
  BY PushAssumption DEF DeliveryInit, Init, TypeOK
<1>2. TypeOK /\ [DeliveryNext]_<<vars, sessions, relaying>> => TypeOK'
  BY StepImplementsPush, TypeStep
<1> QED
  BY <1>1, <1>2, PTL DEF DeliverySpec

\* The handlers of socket_events.py and route.py that relay and register use the
\* registry as Push says: they implement it.
THEOREM ImplementsPush == DeliverySpec => Spec
<1>1. DeliveryInit => Init
  BY DEF DeliveryInit
<1>2. TypeOK /\ [DeliveryNext]_<<vars, sessions, relaying>> => [Next]_vars
  BY StepImplementsPush
<1> QED
  BY <1>1, <1>2, RegistryTypes, PTL DEF DeliverySpec, Spec

\* So relaying and joining leave a room one device of each type (fcm_registry.py)
\* and no fan-out takes a valid registration away (fanout_clipboard_fcm).
THEOREM RegistryIsSafe == DeliverySpec => []OneDevicePerType /\ OnlyDisplacementDrops
BY ImplementsPush, OneDeviceOfEachType, OnlyDisplacementEverDrops

------------------------------------------------------------------------------
\* A row has a token of its own device: register_token stores what the device sent.
OwnTokens == \A r \in Rooms, c \in Clients : Has(r, c) => rows[r][c].token[1] = c
OwedDevices == owed \in [Fanouts -> SUBSET Clients]
ForgetInv == TypeOK /\ OwnTokens /\ OwedDevices /\ NobodyForgotten

\* Registering and pruning keep the rows' tokens their own.
LEMMA OwnTokensStep ==
  ASSUME TypeOK, OwnTokens, [Next]_vars
  PROVE  OwnTokens'
<1>1. ASSUME NEW c \in Clients, NEW r \in Rooms, NEW t \in Tokens, NEW type \in Types,
             RegisterToken(c, r, t, type)
      PROVE  OwnTokens'
  <2> DEFINE row == NewRow(t, type)
  <2>1. row \in Row /\ row.token = t /\ t[1] = c
    BY <1>1 DEF NewRow, Row, RegisterToken
  <2>2. rows'[r] = Registered(r, c, row) /\ \A x \in Rooms \ {r} : rows'[x] = rows[x]
    BY <1>1 DEF RegisterToken, TypeOK
  <2>3. /\ rows'[r][c] = row
        /\ \A d \in Clients \ {c} : rows'[r][d] = NoRow \/ rows'[r][d] = rows[r][d]
    <3> HIDE DEF row
    <3> QED
      BY <2>1, <2>2, RegisteredRows
  <2> HIDE DEF row
  <2> QED
    BY <2>1, <2>2, <2>3 DEF OwnTokens, Has
<1>2. ASSUME NEW f \in Fanouts, NEW t \in todo[f], Rejected(f, t) PROVE OwnTokens'
  <2>1. t \in Tokens
    BY DEF TypeOK
  <2> QED
    BY <1>2, <2>1, PrunedRows DEF OwnTokens, Rejected, Has
<1>3. CASE UNCHANGED rows
  BY <1>3 DEF OwnTokens, Has
<1> QED
  BY <1>1, <1>2, <1>3 DEF Next, Refresh, StartFanout, Sent, Aborted, vars

\* Who a fan-out is for is among the tokens it reads.
LEMMA OwedAreRead ==
  ASSUME TypeOK, OwnTokens, NEW r \in Rooms, NEW sender, NEW c \in Owed(r, sender)
  PROVE  c \in Clients /\ <<c, token[c]>> \in RoomTokens(r, sender)
<1>1. c \in Clients \ {sender} /\ Has(r, c) /\ Valid(rows[r][c].token)
  BY DEF Owed
<1>2. rows[r][c].token \in Tokens /\ rows[r][c].token[1] = c
  BY <1>1 DEF TypeOK, OwnTokens, Has, Row
<1>3. rows[r][c].token = <<c, token[c]>>
  BY <1>1, <1>2 DEF Valid, Tokens
<1> QED
  BY <1>1, <1>3 DEF RoomTokens

LEMMA CallForgetsNobody ==
  ASSUME ForgetInv, NEW x, NEW r \in Rooms, NEW sender, NEW http, FanOut(x, r, sender, http)
  PROVE  OwedDevices' /\ NobodyForgotten'
<1>1. CASE UNCHANGED <<push, owed>>
  BY <1>1 DEF push, ForgetInv, OwedDevices, NobodyForgotten
<1>2. CASE \E f \in Fanouts : StartFanout(f, r, sender) /\ owed' = [owed EXCEPT ![f] = Owed(r, sender)]
  <2>1. PICK f \in Fanouts : StartFanout(f, r, sender) /\ owed' = [owed EXCEPT ![f] = Owed(r, sender)]
    BY <1>2
  <2>2. OwedDevices'
    BY <2>1 DEF ForgetInv, OwedDevices, Owed
  <2>3. ASSUME NEW g \in Fanouts, NEW c \in owed'[g] PROVE <<c, token'[c]>> \in todo'[g]
    <3>1. CASE g = f
      BY <2>1, <2>3, <3>1, OwedAreRead DEF ForgetInv, OwedDevices, StartFanout, TypeOK
    <3>2. CASE g # f
      BY <2>1, <2>3, <3>2 DEF ForgetInv, OwedDevices, StartFanout, TypeOK, NobodyForgotten
    <3> QED
      BY <3>1, <3>2
  <2> QED
    BY <2>2, <2>3 DEF NobodyForgotten
<1> QED
  BY <1>1, <1>2 DEF FanOut

\* What a fan-out does to one token: it forgets no other.
LEMMA SendForgetsNobody ==
  ASSUME ForgetInv, NEW f \in Fanouts, NEW t \in todo[f],
         token' = token, todo' = [todo EXCEPT ![f] = @ \ {t}],
         \/ ~Valid(t) /\ owed' = owed
         \/ owed' = [owed EXCEPT ![f] = @ \ {t[1]}]
  PROVE  OwedDevices' /\ NobodyForgotten'
<1>1. OwedDevices'
  BY DEF ForgetInv, OwedDevices
<1>2. t \in Tokens /\ t = <<t[1], t[2]>>
  BY DEF ForgetInv, TypeOK, Tokens
<1>3. ASSUME NEW g \in Fanouts, NEW c \in owed'[g] PROVE <<c, token'[c]>> \in todo'[g]
  <2>1. c \in owed[g] /\ <<c, token[c]>> \in todo[g]
    BY <1>3 DEF ForgetInv, OwedDevices, NobodyForgotten
  <2>2. CASE g # f
    BY <2>1, <2>2 DEF ForgetInv, TypeOK
  <2>3. CASE g = f
    <3>1. t # <<c, token[c]>>
      BY <1>2, <1>3, <2>3 DEF ForgetInv, OwedDevices, Valid
    <3> QED
      BY <2>1, <2>3, <3>1 DEF ForgetInv, TypeOK
  <2> QED
    BY <2>2, <2>3
<1> QED
  BY <1>1, <1>3 DEF NobodyForgotten

\* No step forgets a device that is owed a text.
LEMMA ForgetStep ==
  ASSUME ForgetInv, [DeliveryNext]_<<vars, sessions, relaying>>
  PROVE  ForgetInv'
<1> USE DEF ForgetInv
<1>a. TypeOK' /\ OwnTokens'
  BY StepImplementsPush, TypeStep, OwnTokensStep
<1>b. CASE UNCHANGED <<token, todo, owed>>
  BY <1>a, <1>b DEF OwedDevices, NobodyForgotten
<1>1. ASSUME NEW x, NEW r \in Rooms, NEW sender, NEW http, FanOut(x, r, sender, http)
      PROVE  ForgetInv'
  BY <1>1, <1>a, CallForgetsNobody
<1>2. ASSUME NEW f \in Fanouts, NEW t \in todo[f], Delivered(f, t) PROVE ForgetInv'
  <2>1. \/ ~Valid(t) /\ owed' = owed
        \/ owed' = [owed EXCEPT ![f] = @ \ {t[1]}]
    BY <1>2 DEF Delivered, Settled
  <2>2. token' = token /\ todo' = [todo EXCEPT ![f] = @ \ {t}]
    BY <1>2 DEF Delivered, Sent
  <2> QED
    BY <1>a, <2>1, <2>2, SendForgetsNobody
<1>3. ASSUME NEW f \in Fanouts, NEW t \in todo[f], Lost(f, t) PROVE ForgetInv'
  <2>1. /\ owed' = [owed EXCEPT ![f] = @ \ {t[1]}]
        /\ token' = token /\ todo' = [todo EXCEPT ![f] = @ \ {t}]
    BY <1>3 DEF Lost, Sent, Settled
  <2> QED
    BY <1>a, <2>1, SendForgetsNobody
<1>4. ASSUME NEW f \in Fanouts, NEW t \in todo[f], PrunesToken(f, t) PROVE ForgetInv'
  <2>1. /\ ~Valid(t) /\ owed' = owed
        /\ token' = token /\ todo' = [todo EXCEPT ![f] = @ \ {t}]
    BY <1>4 DEF PrunesToken, Rejected
  <2> QED
    BY <1>a, <2>1, SendForgetsNobody
<1>5. ASSUME NEW f \in Fanouts, Raises(f) PROVE ForgetInv'
  <2>1. /\ owed' = [owed EXCEPT ![f] = {}]
        /\ token' = token /\ todo' = [todo EXCEPT ![f] = {}]
    BY <1>5 DEF Raises, Aborted
  <2> QED
    BY <1>a, <2>1 DEF OwedDevices, NobodyForgotten, TypeOK
<1>6. ASSUME NEW c \in Clients, Renews(c) PROVE ForgetInv'
  <2>1. /\ owed' = [f \in Fanouts |-> owed[f] \ {c}]
        /\ token' = [token EXCEPT ![c] = @ + 1] /\ todo' = todo
    BY <1>6 DEF Renews, Refresh
  <2> QED
    BY <1>a, <2>1 DEF OwedDevices, NobodyForgotten, TypeOK
<1>7. ASSUME NEW x \in Items, NEW r \in Rooms, NEW sender \in Clients \cup {Nobody},
             RelayMessage(x, r, sender)
      PROVE  ForgetInv'
  BY <1>7, <1>1, <1>b DEF RelayMessage, push
<1>8. ASSUME NEW s \in Sids, NEW r \in Rooms, NEW x \in Items,
             ClipboardPush(s, x, r) \/ FileEvent(s, x, r)
      PROVE  ForgetInv'
  BY <1>8, <1>1, <1>b DEF ClipboardPush, FileEvent, push
<1>9. ASSUME NEW s \in Sids, NEW r \in Rooms, NEW out \in SUBSET Clients,
             Join(s, r, out) \/ Leave(s, r)
      PROVE  ForgetInv'
  BY <1>9, <1>b DEF Join, Leave, push, relaying, RegisterToken
<1>10. ASSUME NEW c \in Clients, NEW r \in Rooms, NEW t \in Tokens, NEW type \in Types,
              Registers(c, r, t, type)
       PROVE  ForgetInv'
  BY <1>10, <1>b DEF Registers, RegisterToken, relaying
<1>11. CASE UNCHANGED <<vars, sessions, relaying>>
  BY <1>11, <1>b DEF vars, relaying
<1>12. ASSUME NEW s \in Sids, Disconnect(s) PROVE ForgetInv'
  BY <1>12, <1>b DEF Disconnect, push, relaying
<1> QED
  BY <1>2, <1>3, <1>4, <1>5, <1>6, <1>7, <1>8, <1>9, <1>10, <1>11, <1>12 DEF DeliveryNext

LEMMA ForgetInvariant == DeliverySpec => []ForgetInv
<1>1. DeliveryInit => ForgetInv
  BY PushAssumption DEF DeliveryInit, Init, TypeOK, ForgetInv, OwnTokens, OwedDevices, NobodyForgotten, Has
<1>2. ForgetInv /\ [DeliveryNext]_<<vars, sessions, relaying>> => ForgetInv'
  BY ForgetStep
<1> QED
  BY <1>1, <1>2, PTL DEF DeliverySpec

\* However many texts, devices and fan-outs there are, a device that is registered
\* when a text goes out is not passed over (fanout_clipboard_fcm).
THEOREM NobodyIsForgotten == DeliverySpec => []NobodyForgotten
<1>1. ForgetInv => NobodyForgotten
  BY DEF ForgetInv
<1> QED
  BY <1>1, ForgetInvariant, PTL

------------------------------------------------------------------------------
(* What comes to a device.                                                 *)

SessionsType == held \subseteq Sids /\ heard \in [Sids -> SUBSET Rooms]

LEMMA SessionsStep ==
  ASSUME SessionsType, [DeliveryNext]_<<vars, sessions, relaying>>
  PROVE  SessionsType'
<1>1. ASSUME NEW s \in Sids, NEW r \in Rooms, NEW out, Join(s, r, out) PROVE SessionsType'
  BY <1>1 DEF SessionsType, Join
<1>2. ASSUME NEW s \in Sids, NEW r \in Rooms, Leave(s, r) \/ Disconnect(s) PROVE SessionsType'
  BY <1>2 DEF SessionsType, Leave, Disconnect
<1>3. CASE UNCHANGED sessions
  BY <1>3 DEF SessionsType, sessions
<1> QED
  BY <1>1, <1>2, <1>3 DEF DeliveryNext, ClipboardPush, FileEvent, RelayMessage, Emitted, Delivered, Lost,
     PrunesToken, Raises, Renews, Registers, Disconnect, SessionsType, sessions

Message == [item : Items \cup {"none"}, id : Items \cup 0..MaxCalls, http : BOOLEAN]
MessageInv ==
  /\ message \in [Fanouts -> Message]
  /\ \A f \in Fanouts : IF todo[f] = {} THEN message[f] = NoMessage
                        ELSE message[f].item \in sent \ Files /\ message[f].id \in Items \cup 1..calls
CopiesType ==
  /\ calls \in 0..MaxCalls /\ got \in [Clients -> SUBSET Copy]
  /\ failed \subseteq sent \ Files /\ sent \subseteq Items

\* A device has a copy of x with id i, or a fan-out is about to send it one.
Shown(x, i) ==
  \/ \E c \in Clients : \E m \in got[c] : m.item = x /\ m.id = i
  \/ \E f \in Fanouts : todo[f] # {} /\ message[f].item = x /\ message[f].id = i
\* One id belongs to a text, its own or that of its only call.
IdsInv ==
  \A x \in Items \ Files :
    /\ x \notin sent => \A i : ~Shown(x, i)
    /\ x \in Identified => \A i : Shown(x, i) => i = x
    /\ x \notin failed => \A i, j : Shown(x, i) /\ Shown(x, j) => i = j
CopiesInv == CopiesType /\ MessageInv /\ IdsInv

\* A call relays its text for the first time, or again after an error.
LEMMA CallCopies ==
  ASSUME CopiesInv, TypeOK, NEW x \in Items, NEW r \in Rooms, NEW skip, NEW sender, NEW http \in BOOLEAN,
         Emitted(x, r, skip),
         \/ x \in Files /\ UNCHANGED <<todo, message, failed>>
         \/ x \in (Items \ (Files \cup sent)) \cup failed /\ FanOut(x, r, sender, http)
  PROVE  CopiesInv'
<1> DEFINE id == MessageId(x)
           sentence == [item |-> x, id |-> id, http |-> http]
<1>1. calls \in 0..MaxCalls /\ calls' \in 1..MaxCalls /\ calls' = calls + 1 /\ sent' = sent \cup {x}
  BY DeliveryAssumption DEF CopiesInv, CopiesType, Emitted
<1>2. /\ id \in Items \cup 0..MaxCalls
      /\ x \notin Files => id \in Items \cup 1..calls'
      /\ x \in Identified => id = x
  BY <1>1, DeliveryAssumption DEF MessageId
<1>3. PICK reached \in SUBSET {Device[s] : s \in {y \in Sids \ skip : r \in heard[y]}} :
        got' = [c \in Clients |-> IF c \notin reached THEN got[c]
                                  ELSE got[c] \cup {[item |-> x, id |-> id]}]
  BY DEF Emitted
<1> HIDE DEF id
<1>4. \/ UNCHANGED <<todo, message>>
      \/ \E f \in Fanouts : /\ x \notin Files /\ todo[f] = {} /\ RoomTokens(r, sender) # {}
                            /\ todo' = [todo EXCEPT ![f] = RoomTokens(r, sender)]
                            /\ message' = [message EXCEPT ![f] = sentence]
  BY DEF FanOut, StartFanout, push, PushedId, id, CopiesInv, CopiesType
<1>5. \A f \in Fanouts :
        \/ todo'[f] = todo[f] /\ message'[f] = message[f]
        \/ x \notin Files /\ todo[f] = {} /\ todo'[f] # {} /\ message'[f] = sentence
  BY <1>4 DEF CopiesInv, MessageInv, TypeOK
<1>6. /\ sentence \in Message /\ sentence.item = x /\ sentence.id = id
      /\ [item |-> x, id |-> id] \in Copy
  BY <1>2 DEF Message, Copy
<1> HIDE DEF sentence
<1>7. /\ failed' \subseteq sent' \ Files /\ failed \subseteq failed'
      /\ x \in Files \/ x \notin sent \/ x \in failed'
  BY <1>1 DEF CopiesInv, CopiesType, FanOut, Failed
<1>8. CopiesType'
  <2>1. got' \in [Clients -> SUBSET Copy]
    BY <1>3, <1>6 DEF CopiesInv, CopiesType
  <2> QED
    BY <1>1, <1>7, <2>1 DEF CopiesInv, CopiesType
<1>9. MessageInv'
  <2>1. message' \in [Fanouts -> Message]
    BY <1>4, <1>6 DEF CopiesInv, MessageInv
  <2>2. ASSUME NEW f \in Fanouts
        PROVE  IF todo'[f] = {} THEN message'[f] = NoMessage
               ELSE message'[f].item \in sent' \ Files /\ message'[f].id \in Items \cup 1..calls'
    <3>1. CASE todo'[f] = todo[f] /\ message'[f] = message[f]
      BY <1>1, <3>1 DEF CopiesInv, MessageInv
    <3>2. CASE x \notin Files /\ todo'[f] # {} /\ message'[f] = sentence
      BY <1>1, <1>2, <1>6, <3>2
    <3> QED
      BY <1>5, <3>1, <3>2
  <2> QED
    BY <2>1, <2>2 DEF MessageInv
<1>10. ASSUME NEW y, NEW i, Shown(y, i)' PROVE Shown(y, i) \/ (y = x /\ i = id)
  <2>1. ASSUME NEW c \in Clients, NEW m \in got'[c], m.item = y, m.id = i
        PROVE  Shown(y, i) \/ (y = x /\ i = id)
    <3>1. m \in got[c] \/ m = [item |-> x, id |-> id]
      BY <1>3, <2>1
    <3> QED
      BY <2>1, <3>1 DEF Shown
  <2>2. ASSUME NEW f \in Fanouts, todo'[f] # {}, message'[f].item = y, message'[f].id = i
        PROVE  Shown(y, i) \/ (y = x /\ i = id)
    BY <1>5, <1>6, <2>2 DEF Shown
  <2> QED
    BY <1>10, <2>1, <2>2 DEF Shown
<1>11. IdsInv'
  <2> SUFFICES ASSUME NEW y \in Items \ Files
               PROVE  /\ y \notin sent' => \A i : ~Shown(y, i)'
                      /\ y \in Identified => \A i : Shown(y, i)' => i = y
                      /\ y \notin failed' => \A i, j : Shown(y, i)' /\ Shown(y, j)' => i = j
    BY DEF IdsInv
  <2>1. /\ y \notin sent => \A i : ~Shown(y, i)
        /\ y \in Identified => \A i : Shown(y, i) => i = y
        /\ y \notin failed => \A i, j : Shown(y, i) /\ Shown(y, j) => i = j
    BY DEF CopiesInv, IdsInv
  <2> QED
    BY <1>1, <1>2, <1>7, <1>10, <2>1
<1> QED
  BY <1>8, <1>9, <1>11 DEF CopiesInv

\* A fan-out goes on: what it delivers is the copy it was to send.
LEMMA FanoutCopies ==
  ASSUME CopiesInv, TypeOK, NEW f \in Fanouts, todo[f] # {}, Goes(f),
         NEW left \in SUBSET todo[f], todo' = [todo EXCEPT ![f] = left],
         \/ got' = got
         \/ \E c \in Clients : got' = [got EXCEPT ![c] =
              @ \cup {[item |-> message[f].item, id |-> message[f].id]}],
         failed' = failed \/ failed' = failed \cup {message[f].item},
         UNCHANGED <<calls, sent>>
  PROVE  CopiesInv'
<1> DEFINE copy == [item |-> message[f].item, id |-> message[f].id]
<1>1. message[f].item \in sent \ Files /\ message[f].id \in Items \cup 1..calls
  BY DEF CopiesInv, MessageInv
<1>2. copy \in Copy /\ copy.item = message[f].item /\ copy.id = message[f].id
  <2>1. message[f].item \in Items /\ message[f].id \in Items \cup 0..MaxCalls
    BY <1>1, DeliveryAssumption DEF CopiesInv, CopiesType
  <2> DEFINE item == message[f].item
             id == message[f].id
  <2> HIDE DEF item, id
  <2>2. item \in Items /\ id \in Items \cup 0..MaxCalls /\ copy = [item |-> item, id |-> id]
    BY <2>1 DEF item, id
  <2> HIDE DEF copy
  <2>3. copy \in Copy /\ copy.item = item /\ copy.id = id
    BY <2>2 DEF Copy
  <2> QED
    BY <2>3 DEF item, id
<1> HIDE DEF copy
<1>3. /\ \A g \in Fanouts \ {f} : todo'[g] = todo[g] /\ message'[g] = message[g]
      /\ todo'[f] = left /\ message'[f] = IF left = {} THEN NoMessage ELSE message[f]
  BY DEF CopiesInv, MessageInv, TypeOK, Goes
<1>4. CopiesType'
  <2>1. got' \in [Clients -> SUBSET Copy]
    BY <1>2 DEF CopiesInv, CopiesType, copy
  <2> QED
    BY <1>1, <2>1 DEF CopiesInv, CopiesType
<1>5. MessageInv'
  <2>1. NoMessage \in Message
    BY DeliveryAssumption DEF NoMessage, Message
  <2>2. message' \in [Fanouts -> Message]
    BY <2>1 DEF CopiesInv, MessageInv, Goes
  <2> QED
    BY <1>1, <1>3, <2>2 DEF CopiesInv, MessageInv
<1>6. ASSUME NEW y, NEW i, Shown(y, i)' PROVE Shown(y, i)
  <2>1. ASSUME NEW c \in Clients, NEW m \in got'[c], m.item = y, m.id = i
        PROVE  Shown(y, i)
    <3>1. m \in got[c] \/ m = copy
      BY <2>1 DEF CopiesInv, CopiesType, copy
    <3> QED
      BY <1>2, <2>1, <3>1 DEF Shown
  <2>2. ASSUME NEW g \in Fanouts, todo'[g] # {}, message'[g].item = y, message'[g].id = i
        PROVE  Shown(y, i)
    BY <1>3, <2>2 DEF Shown
  <2> QED
    BY <1>6, <2>1, <2>2 DEF Shown
<1>7. IdsInv'
  BY <1>6 DEF CopiesInv, IdsInv
<1> QED
  BY <1>4, <1>5, <1>7 DEF CopiesInv

\* No step shows a device a text under a second id unless it is tried again.
LEMMA CopiesStep ==
  ASSUME CopiesInv, TypeOK, [DeliveryNext]_<<vars, sessions, relaying>>
  PROVE  CopiesInv'
<1>a. CASE UNCHANGED <<todo, message, calls, sent, got, failed>>
  <2>1. CopiesType' /\ MessageInv'
    BY <1>a DEF CopiesInv, CopiesType, MessageInv
  <2>2. \A x, i : Shown(x, i)' <=> Shown(x, i)
    BY <1>a DEF Shown
  <2> QED
    BY <1>a, <2>1, <2>2 DEF CopiesInv, IdsInv
<1>1. ASSUME NEW s \in Sids, NEW r \in Rooms, NEW x \in Items, ClipboardPush(s, x, r)
      PROVE  CopiesInv'
  BY <1>1, CallCopies DEF ClipboardPush
<1>2. ASSUME NEW s \in Sids, NEW r \in Rooms, NEW x \in Items, FileEvent(s, x, r)
      PROVE  CopiesInv'
  BY <1>2, CallCopies DEF FileEvent, push
<1>3. ASSUME NEW x \in Items, NEW r \in Rooms, NEW sender \in Clients \cup {Nobody},
             RelayMessage(x, r, sender)
      PROVE  CopiesInv'
  <2>1. PICK skip : Emitted(x, r, skip)
    BY <1>3 DEF RelayMessage
  <2>2. CASE x \in Files
    BY <1>3, <2>1, <2>2, CallCopies DEF RelayMessage, push
  <2>3. CASE x \notin Files
    <3>1. FanOut(x, r, sender, TRUE) /\ x \in (Items \ (Files \cup sent)) \cup failed
      BY <1>3, <2>3 DEF RelayMessage
    <3> QED
      BY <2>1, <3>1, CallCopies
  <2> QED
    BY <2>2, <2>3
<1>4. ASSUME NEW f \in Fanouts, NEW t \in todo[f], Delivered(f, t) PROVE CopiesInv'
  <2>1. t[1] \in Clients /\ todo[f] # {} /\ todo[f] \ {t} \in SUBSET todo[f]
    BY DEF TypeOK, Tokens
  <2>2. /\ Goes(f) /\ todo' = [todo EXCEPT ![f] = todo[f] \ {t}] /\ UNCHANGED <<calls, sent, failed>>
        /\ \/ got' = got
           \/ \E c \in Clients : got' = [got EXCEPT ![c] =
                @ \cup {[item |-> message[f].item, id |-> message[f].id]}]
    BY <1>4, <2>1 DEF Delivered, Sent
  <2> QED
    BY <2>1, <2>2, FanoutCopies
<1>5. ASSUME NEW f \in Fanouts, NEW t \in todo[f], Lost(f, t) \/ PrunesToken(f, t) PROVE CopiesInv'
  <2>1. todo[f] # {} /\ todo[f] \ {t} \in SUBSET todo[f]
    OBVIOUS
  <2>2. Goes(f) /\ todo' = [todo EXCEPT ![f] = todo[f] \ {t}] /\ UNCHANGED <<calls, sent, got, failed>>
    BY <1>5 DEF Lost, PrunesToken, Sent, Rejected
  <2> QED
    BY <2>1, <2>2, FanoutCopies
<1>6. ASSUME NEW f \in Fanouts, Raises(f) PROVE CopiesInv'
  <2>1. /\ Goes(f) /\ todo[f] # {} /\ todo' = [todo EXCEPT ![f] = {}] /\ UNCHANGED <<calls, sent, got>>
        /\ failed' = failed \/ failed' = failed \cup {message[f].item}
    BY <1>6 DEF Raises, Aborted, Failed
  <2>2. got' = got /\ UNCHANGED <<calls, sent>>
    BY <2>1
  <2> DEFINE left == {}
  <2>3. left \in SUBSET todo[f] /\ todo' = [todo EXCEPT ![f] = left]
    BY <2>1
  <2> HIDE DEF left
  <2>4. CASE failed' = failed
    BY <2>1, <2>2, <2>3, <2>4, FanoutCopies
  <2>5. CASE failed' = failed \cup {message[f].item}
    BY <2>1, <2>2, <2>3, <2>5, FanoutCopies
  <2> QED
    BY <2>1, <2>4, <2>5
<1>7. ASSUME NEW c \in Clients, Renews(c) PROVE CopiesInv'
  BY <1>7, <1>a DEF Renews, Refresh
<1>8. ASSUME NEW s \in Sids, NEW r \in Rooms, NEW out \in SUBSET Clients,
             Join(s, r, out) \/ Leave(s, r)
      PROVE  CopiesInv'
  BY <1>8, <1>a DEF Join, Leave, push, relaying, RegisterToken
<1>9. ASSUME NEW c \in Clients, NEW r \in Rooms, NEW t \in Tokens, NEW type \in Types,
             Registers(c, r, t, type)
      PROVE  CopiesInv'
  BY <1>9, <1>a DEF Registers, relaying, RegisterToken
<1>10. CASE UNCHANGED <<vars, sessions, relaying>>
  BY <1>10, <1>a DEF vars, relaying
<1>11. ASSUME NEW s \in Sids, Disconnect(s) PROVE CopiesInv'
  BY <1>11, <1>a DEF Disconnect, push, relaying
<1> QED
  BY <1>1, <1>2, <1>3, <1>4, <1>5, <1>6, <1>7, <1>8, <1>9, <1>10, <1>11 DEF DeliveryNext

LEMMA DeliveryInvariant == DeliverySpec => [](ForgetInv /\ SessionsType /\ CopiesInv)
<1>1. DeliveryInit => SessionsType /\ CopiesInv
  <2> SUFFICES ASSUME DeliveryInit PROVE SessionsType /\ CopiesInv
    OBVIOUS
  <2>1. SessionsType
    BY DEF DeliveryInit, SessionsType
  <2>2. CopiesType
    BY DeliveryAssumption DEF DeliveryInit, CopiesType
  <2>3. NoMessage \in Message
    BY DeliveryAssumption DEF NoMessage, Message
  <2>4. MessageInv
    BY <2>3 DEF DeliveryInit, Init, MessageInv
  <2>5. \A x, i : ~Shown(x, i)
    BY DEF DeliveryInit, Init, Shown
  <2> QED
    BY <2>1, <2>2, <2>4, <2>5 DEF CopiesInv, IdsInv
<1>2. /\ ForgetInv /\ SessionsType /\ CopiesInv
      /\ [DeliveryNext]_<<vars, sessions, relaying>>
      => SessionsType' /\ CopiesInv'
  BY SessionsStep, CopiesStep DEF ForgetInv
<1> QED
  BY <1>1, <1>2, ForgetInvariant, PTL DEF DeliverySpec

\* Sessions, copies and messages of the fan-outs stay of their types: an id is
\* a text's own or the number of a call that was made.
THEOREM DeliveryTypeCorrectness == DeliverySpec => []DeliveryTypeOK
<1>1. ForgetInv /\ SessionsType /\ CopiesInv => DeliveryTypeOK
  BY DEF ForgetInv, OwedDevices, SessionsType, CopiesInv, CopiesType, MessageInv, DeliveryTypeOK
<1> QED
  BY <1>1, DeliveryInvariant, PTL

\* A device that has a text over the socket and over FCM, from calls and fan-outs
\* in any order, has it under one id, unless it was sent again after an error.
THEOREM SeenAgainOnlyIfRetried == DeliverySpec => []AgainOnlyIfRetried
<1>1. CopiesInv => AgainOnlyIfRetried
  <2> SUFFICES ASSUME CopiesInv, NEW c \in Clients, NEW x \in Items \ Files, x \notin failed \ Identified
               PROVE  ~(Cardinality({m.id : m \in {n \in got[c] : n.item = x}}) > 1)
    BY DEF AgainOnlyIfRetried
  <2> DEFINE S == {m.id : m \in {n \in got[c] : n.item = x}}
  <2>1. \A i \in S : Shown(x, i)
    BY DEF Shown
  <2>2. \A i, j \in S : i = j
    BY <2>1 DEF CopiesInv, IdsInv
  <2> HIDE DEF S
  <2>3. Cardinality(S) = 0 \/ Cardinality(S) = 1
    <3>1. CASE S = {}
      BY <3>1, FS_EmptySet
    <3>2. CASE S # {}
      <4>1. PICK i : S = {i}
        BY <2>2, <3>2
      <4> QED
        BY <4>1, FS_Singleton
    <3> QED
      BY <3>1, <3>2
  <2>4. ~(Cardinality(S) > 1)
    BY <2>3
  <2> QED
    BY <2>4 DEF S
<1> QED
  BY <1>1, DeliveryInvariant, PTL
=============================================================================
