---------------------------- MODULE HistoryProofs ----------------------------
(***************************************************************************)
(* Theorems about History, for any sessions, clients, addresses and bound. *)
(***************************************************************************)
EXTENDS History, FiniteSetTheorems, TLAPS

USE HistoryAssumption, RowAssumption

\* What insert_event does to the table.
LEMMA InsertedFacts ==
  ASSUME TypeOK, NEW s \in Sids, NEW c \in Clients, socket[s] = "open", Len(events) < MaxEvents
  PROVE  /\ Inserted(s, c) \in Seq(Event) /\ Len(Inserted(s, c)) = Len(events) + 1
         /\ NewId \in 1..MaxEvents /\ NewId \notin Ids
         /\ 1..Len(Inserted(s, c)) = Ids \cup {NewId}
         /\ \A e \in Ids : Inserted(s, c)[e] = events[e]
         /\ Inserted(s, c)[NewId] = [client |-> c, ip |-> addr[s], sid |-> s, open |-> TRUE]
BY DEF TypeOK, Inserted, NewId, Ids, Event

\* What close_event does to it.
LEMMA ClosedFacts ==
  ASSUME TypeOK, NEW id \in Ids
  PROVE  /\ Closed(id) \in Seq(Event) /\ Len(Closed(id)) = Len(events)
         /\ \A e \in Ids : /\ Closed(id)[e].client = events[e].client /\ Closed(id)[e].ip = events[e].ip
                           /\ Closed(id)[e].sid = events[e].sid
                           /\ Closed(id)[e].open = (events[e].open /\ e # id)
<1>1. /\ events \in [Ids -> Event] /\ Len(events) \in Nat
      /\ \A e \in Ids : events[e] \in Event
  BY DEF TypeOK, Ids
<1>2. /\ DOMAIN Closed(id) = Ids
      /\ \A e \in Ids : Closed(id)[e] = IF e = id THEN [events[e] EXCEPT !.open = FALSE] ELSE events[e]
  BY <1>1 DEF Closed
<1>3. \A e \in Ids : [events[e] EXCEPT !.open = FALSE] \in Event
  BY <1>1 DEF Event
<1>4. Closed(id) \in [1..Len(events) -> Event]
  <2>1. Closed(id) = [e \in Ids |-> IF e = id THEN [events[e] EXCEPT !.open = FALSE] ELSE events[e]]
    BY <1>1 DEF Closed
  <2> QED
    BY <1>1, <1>3, <2>1 DEF Ids
<1>5. Closed(id) \in Seq(Event) /\ Len(Closed(id)) = Len(events)
  BY <1>1, <1>4
<1>6. ASSUME NEW e \in Ids
      PROVE  /\ Closed(id)[e].client = events[e].client /\ Closed(id)[e].ip = events[e].ip
             /\ Closed(id)[e].sid = events[e].sid
             /\ Closed(id)[e].open = (events[e].open /\ e # id)
  <2>1. events[e] \in Event
    BY <1>1
  <2>2. CASE e = id
    BY <1>2, <2>1, <2>2 DEF Event
  <2>3. CASE e # id
    BY <1>2, <2>1, <2>3 DEF Event
  <2> QED
    BY <2>2, <2>3
<1> QED
  BY <1>5, <1>6

\* A row keeps its type, and its address and count, through a lookup.
LEMMA UpsertedFacts ==
  ASSUME NEW row \in Row \cup {None}, NEW ip \in Ips
  PROVE  /\ Upserted(row, ip) \in Row /\ Upserted(row, ip).ip = ip
         /\ Upserted(row, ip).total = (IF row = None THEN 0 ELSE row.total) + 1
         /\ Upserted(row, ip).country = IF row = None THEN None ELSE row.country
<1>1. CASE row = None
  BY <1>1 DEF Upserted, Row
<1>2. CASE row # None
  <2>1. /\ row \in Row /\ row.total \in Nat /\ row.country \in Ips \cup {Local, None}
        /\ Upserted(row, ip) = [row EXCEPT !.ip = ip, !.total = @ + 1]
    BY <1>2 DEF Upserted, Row
  <2>2. /\ Upserted(row, ip).ip = ip /\ Upserted(row, ip).country = row.country
        /\ Upserted(row, ip).total = row.total + 1
    BY <2>1 DEF Row
  <2>3. Upserted(row, ip) = [ip |-> ip, country |-> row.country, total |-> row.total + 1]
    BY <2>1 DEF Row
  <2>4. Upserted(row, ip) \in Row
    BY <2>1, <2>3 DEF Row
  <2> QED
    BY <1>2, <2>2, <2>4
<1> QED
  BY <1>1, <1>2

LEMMA InitInv == Init => TypeOK /\ ActiveIsOwnEvent /\ OpenIsAccountedFor
  BY DEF Init, TypeOK, ActiveIsOwnEvent, OpenIsAccountedFor, Ids, Event

(***************************************************************************)
(* The bookkeeping of events: what is remembered is an open event of the   *)
(* socket that remembers it, and what is open is accounted for.            *)
(***************************************************************************)
EventsInv == TypeOK /\ ActiveIsOwnEvent /\ OpenIsAccountedFor

LEMMA EventType ==
  ASSUME TypeOK, NEW e \in Ids
  PROVE  events[e] \in Event /\ events[e].client \in Clients /\ events[e].ip \in Ips /\ events[e].sid \in Sids
<1>1. events[e] \in Event
  BY DEF TypeOK, Ids
<1> QED
  BY <1>1 DEF Event

LEMMA ConnectInv ==
  ASSUME EventsInv, NEW s \in Sids, NEW ip \in Ips, Connect(s, ip) PROVE EventsInv'
<1>1. TypeOK'
  BY DEF EventsInv, TypeOK, Connect, database, memory, Ids
<1>2. ActiveIsOwnEvent'
  BY DEF EventsInv, TypeOK, ActiveIsOwnEvent, Connect, database, memory, Ids
<1>3. OpenIsAccountedFor'
  BY DEF EventsInv, OpenIsAccountedFor, Connect, database, memory, Ids
<1> QED
  BY <1>1, <1>2, <1>3 DEF EventsInv

LEMMA JoinInv ==
  ASSUME EventsInv, NEW s \in Sids, NEW c \in Clients, Join(s, c) PROVE EventsInv'
<1>1. TypeOK /\ socket[s] = "open" /\ Len(events) < MaxEvents /\ addr[s] \in Ips
  BY DEF EventsInv, TypeOK, Join
<1>2. /\ events' \in Seq(Event) /\ Len(events') = Len(events) + 1
      /\ NewId \in 1..MaxEvents /\ NewId \notin Ids /\ Ids' = Ids \cup {NewId}
      /\ \A e \in Ids : events'[e] = events[e]
      /\ events'[NewId] = [client |-> c, ip |-> addr[s], sid |-> s, open |-> TRUE]
  BY <1>1, InsertedFacts DEF Join, Ids
<1>3. Len(events') <= MaxEvents /\ \A e \in Ids : e < NewId
  BY <1>1, <1>2 DEF NewId, Ids, TypeOK
<1>4. TypeOK'
  <2>1. clients' \in [Clients -> Row \cup {None}]
    BY <1>1, UpsertedFacts DEF TypeOK, Join
  <2>2. active' \in [Sids -> 0..MaxEvents]
    BY <1>1, <1>2 DEF TypeOK, Join, Remembered
  <2>3. lookup' \in [1..MaxEvents -> {"none", "started", "asks", "wrote", "ended"}]
    BY <1>1, <1>2 DEF TypeOK, Join
  <2>4. unlisted' \subseteq Ids' /\ abandoned' \subseteq Ids'
    BY <1>1, <1>2 DEF TypeOK, Join
  <2> QED
    BY <1>1, <1>2, <1>3, <2>1, <2>2, <2>3, <2>4 DEF TypeOK, Join
<1>5. ActiveIsOwnEvent'
  <2> SUFFICES ASSUME NEW x \in Sids, active'[x] # 0
               PROVE  /\ socket'[x] = "open" /\ active'[x] \in Ids'
                      /\ events'[active'[x]].sid = x /\ events'[active'[x]].open
    BY DEF ActiveIsOwnEvent
  <2>1. CASE x = s
    BY <1>1, <1>2, <2>1 DEF TypeOK, Join, Remembered
  <2>2. CASE x # s
    BY <1>1, <1>2, <2>2 DEF EventsInv, ActiveIsOwnEvent, TypeOK, Join, Remembered
  <2> QED
    BY <2>1, <2>2
<1>6. OpenIsAccountedFor'
  <2> SUFFICES ASSUME NEW e \in Ids', events'[e].open
               PROVE  \/ active'[events'[e].sid] = e
                      \/ e \in unlisted' \cup abandoned'
                      \/ \E f \in Ids' : f > e /\ events'[f].sid = events'[e].sid
    BY DEF OpenIsAccountedFor
  <2>1. CASE e = NewId
    BY <1>1, <1>2, <2>1 DEF TypeOK, Join, Remembered
  <2>2. CASE e \in Ids /\ events[e].sid = s
    BY <1>2, <1>3, <2>2
  <2>3. CASE e \in Ids /\ events[e].sid # s
    <3>1. events'[e] = events[e] /\ events[e].sid \in Sids
      BY <1>1, <1>2, <2>3, EventType
    <3>2. active'[events[e].sid] = active[events[e].sid]
      BY <1>1, <2>3, <3>1 DEF TypeOK, Join, Remembered
    <3> QED
      BY <1>2, <2>3, <3>1, <3>2 DEF EventsInv, OpenIsAccountedFor, Join
  <2> QED
    BY <1>2, <2>1, <2>2, <2>3
<1> QED
  BY <1>4, <1>5, <1>6 DEF EventsInv

LEMMA JoinUnlistedInv ==
  ASSUME EventsInv, NEW s \in Sids, NEW c \in Clients, JoinUnlisted(s, c) PROVE EventsInv'
<1>1. TypeOK /\ socket[s] = "open" /\ Len(events) < MaxEvents
  BY DEF EventsInv, JoinUnlisted
<1>2. /\ events' \in Seq(Event) /\ Len(events') = Len(events) + 1
      /\ NewId \in 1..MaxEvents /\ NewId \notin Ids /\ Ids' = Ids \cup {NewId}
      /\ \A e \in Ids : events'[e] = events[e]
  BY <1>1, InsertedFacts DEF JoinUnlisted, Ids
<1>3. TypeOK'
  <2>1. Len(events') <= MaxEvents /\ unlisted' \subseteq Ids' /\ abandoned' \subseteq Ids'
    BY <1>1, <1>2 DEF TypeOK, JoinUnlisted
  <2> QED
    BY <1>1, <1>2, <2>1 DEF TypeOK, JoinUnlisted, memory
<1>4. ActiveIsOwnEvent'
  BY <1>2 DEF EventsInv, ActiveIsOwnEvent, JoinUnlisted, memory
<1>5. OpenIsAccountedFor'
  BY <1>2 DEF EventsInv, OpenIsAccountedFor, JoinUnlisted, memory
<1> QED
  BY <1>3, <1>4, <1>5 DEF EventsInv

LEMMA DisconnectInv ==
  ASSUME EventsInv, NEW s \in Sids, Disconnect(s) PROVE EventsInv'
<1>1. TypeOK /\ ActiveIsOwnEvent /\ active' = Popped(s) /\ socket[s] = "open"
  BY DEF EventsInv, Disconnect
<1>2. /\ events' \in Seq(Event) /\ Len(events') = Len(events) /\ Ids' = Ids
      /\ \A e \in Ids : /\ events'[e].sid = events[e].sid
                        /\ events'[e].open = (events[e].open /\ e # active[s])
  <2>1. CASE active[s] = 0
    <3>1. \A e \in Ids : e # active[s]
      BY <2>1 DEF Ids
    <3>2. events' = events /\ events \in Seq(Event)
      BY <1>1, <2>1 DEF Disconnect, TypeOK
    <3>3. \A e \in Ids : events[e].open \in BOOLEAN
      BY <1>1, EventType DEF Event
    <3> QED
      BY <3>1, <3>2, <3>3 DEF Ids
  <2>2. CASE active[s] # 0
    <3>1. active[s] \in Ids /\ events' = Closed(active[s])
      BY <1>1, <2>2 DEF Disconnect, ActiveIsOwnEvent
    <3> QED
      BY <1>1, <3>1, ClosedFacts DEF Ids
  <2> QED
    BY <2>1, <2>2
<1>3. TypeOK'
  BY <1>1, <1>2 DEF TypeOK, Disconnect, Popped
<1>4. ActiveIsOwnEvent'
  <2> SUFFICES ASSUME NEW x \in Sids, active'[x] # 0
               PROVE  /\ socket'[x] = "open" /\ active'[x] \in Ids'
                      /\ events'[active'[x]].sid = x /\ events'[active'[x]].open
    BY DEF ActiveIsOwnEvent
  <2>1. x # s /\ active'[x] = active[x]
    BY <1>1 DEF TypeOK, Popped
  <2>2. active[x] \in Ids /\ events[active[x]].sid = x /\ events[active[x]].open /\ socket[x] = "open"
    BY <1>1, <2>1 DEF ActiveIsOwnEvent
  <2>3. active[s] # active[x]
    BY <1>1, <2>1, <2>2 DEF ActiveIsOwnEvent
  <2> QED
    BY <1>1, <1>2, <2>1, <2>2, <2>3 DEF Disconnect, TypeOK
<1>5. OpenIsAccountedFor'
  <2> SUFFICES ASSUME NEW e \in Ids', events'[e].open
               PROVE  \/ active'[events'[e].sid] = e
                      \/ e \in unlisted' \cup abandoned'
                      \/ \E f \in Ids' : f > e /\ events'[f].sid = events'[e].sid
    BY DEF OpenIsAccountedFor
  <2>1. e \in Ids /\ events[e].open /\ e # active[s] /\ events'[e].sid = events[e].sid
    BY <1>2
  <2>2. CASE active[events[e].sid] = e
    <3>1. events[e].sid \in Sids /\ events[e].sid # s
      BY <1>1, <2>1, <2>2, EventType
    <3> QED
      BY <1>1, <2>1, <2>2, <3>1 DEF Popped, TypeOK
  <2>3. CASE e \in unlisted \cup abandoned
    BY <2>3 DEF Disconnect
  <2>4. CASE \E f \in Ids : f > e /\ events[f].sid = events[e].sid
    BY <1>2, <2>1, <2>4
  <2> QED
    BY <2>1, <2>2, <2>3, <2>4 DEF EventsInv, OpenIsAccountedFor
<1> QED
  BY <1>3, <1>4, <1>5 DEF EventsInv

LEMMA DisconnectUnclosedInv ==
  ASSUME EventsInv, NEW s \in Sids, DisconnectUnclosed(s) PROVE EventsInv'
<1>1. /\ TypeOK /\ ActiveIsOwnEvent /\ active' = Popped(s) /\ Ids' = Ids /\ events' = events
      /\ active[s] \in Ids
  BY DEF EventsInv, DisconnectUnclosed, database, Ids, ActiveIsOwnEvent
<1>2. TypeOK'
  BY <1>1 DEF TypeOK, DisconnectUnclosed, database, Popped
<1>3. ActiveIsOwnEvent'
  BY <1>1 DEF TypeOK, ActiveIsOwnEvent, DisconnectUnclosed, Popped
<1>4. OpenIsAccountedFor'
  <2> SUFFICES ASSUME NEW e \in Ids, events[e].open, e # active[s], active'[events[e].sid] # e
               PROVE  \/ e \in unlisted \cup abandoned
                      \/ \E f \in Ids : f > e /\ events[f].sid = events[e].sid
    BY <1>1 DEF OpenIsAccountedFor, DisconnectUnclosed
  <2>1. active[events[e].sid] # e
    BY <1>1, EventType DEF Popped, TypeOK
  <2> QED
    BY <2>1 DEF EventsInv, OpenIsAccountedFor
<1> QED
  BY <1>2, <1>3, <1>4 DEF EventsInv

LEMMA RestartInv ==
  ASSUME EventsInv, Restart PROVE EventsInv'
<1>1. TypeOK /\ ActiveIsOwnEvent /\ Ids' = Ids /\ events' = events
  BY DEF EventsInv, Restart, database, Ids
<1>2. {active[s] : s \in Sids} \ {0} \subseteq Ids
  BY <1>1 DEF ActiveIsOwnEvent
<1>3. TypeOK'
  BY <1>1, <1>2 DEF TypeOK, Restart, database
<1>4. ActiveIsOwnEvent'
  BY DEF ActiveIsOwnEvent, Restart
<1>5. OpenIsAccountedFor'
  <2> SUFFICES ASSUME NEW e \in Ids, events[e].open, e \notin abandoned'
               PROVE  \/ e \in unlisted
                      \/ \E f \in Ids : f > e /\ events[f].sid = events[e].sid
    BY <1>1 DEF OpenIsAccountedFor, Restart
  <2>1. active[events[e].sid] # e
    <3>1. events[e].sid \in Sids /\ e # 0
      BY <1>1, EventType DEF Ids
    <3> QED
      BY <3>1 DEF Restart
  <2> QED
    BY <2>1 DEF EventsInv, OpenIsAccountedFor, Restart
<1> QED
  BY <1>3, <1>4, <1>5 DEF EventsInv

(***************************************************************************)
(* The rows of the clients.  The lookups of listed events only write, what *)
(* is cached of an address is its own country, and a count grows with the  *)
(* events of its client.                                                   *)
(***************************************************************************)
LookupsInv ==
  /\ \A ip \in Ips : cache[ip] \in {None, Unknown, ip}
  /\ \A e \in 1..MaxEvents : lookup[e] # "none" => e \in Ids \ unlisted
RowsInv == LookupsInv /\ CountryWasLookedUp /\ SessionsCounted

LEMMA InitRows == Init => RowsInv
<1> SUFFICES ASSUME Init PROVE RowsInv
  OBVIOUS
<1>1. LookupsInv /\ CountryWasLookedUp
  BY DEF Init, LookupsInv, CountryWasLookedUp
<1>2. \A c \in Clients : Listed(c) = {} /\ clients[c] = None
  BY DEF Init, Listed, Ids
<1>3. SessionsCounted
  BY <1>2, FS_EmptySet DEF SessionsCounted
<1> QED
  BY <1>1, <1>3 DEF RowsInv

\* A step that writes no row and records no event.
LEMMA RowsFrame ==
  ASSUME TypeOK, RowsInv, Ids' = Ids, unlisted' = unlisted, clients' = clients,
         \A e \in Ids : events'[e].client = events[e].client /\ events'[e].ip = events[e].ip,
         \A ip \in Ips : cache'[ip] \in {cache[ip], None},
         \A e \in 1..MaxEvents : /\ lookup'[e] = "none" <=> lookup[e] = "none"
                                 /\ lookup[e] = "wrote" => lookup'[e] = "wrote"
  PROVE  RowsInv'
<1>1. LookupsInv'
  BY DEF RowsInv, LookupsInv
<1>2. \A c \in Clients : Listed(c)' = Listed(c)
  BY DEF Listed
<1>3. \A c \in Clients : \A e \in Listed(c) : e \in Ids /\ e \in 1..MaxEvents
  BY DEF Listed, Ids, TypeOK
<1>4. CountryWasLookedUp'
  BY <1>2, <1>3 DEF RowsInv, CountryWasLookedUp, Country
<1>5. SessionsCounted'
  BY <1>2, <1>3 DEF RowsInv, SessionsCounted
<1> QED
  BY <1>1, <1>4, <1>5 DEF RowsInv

LEMMA QuietRows ==
  ASSUME EventsInv, RowsInv PROVE
    /\ \A s \in Sids : /\ \A ip \in Ips : Connect(s, ip) => RowsInv'
                       /\ Disconnect(s) => RowsInv'
                       /\ DisconnectUnclosed(s) => RowsInv'
    /\ Restart => RowsInv'
    /\ \A id \in Ids : LookupAsks(id) => RowsInv'
<1>1. TypeOK /\ ActiveIsOwnEvent
  BY DEF EventsInv
<1>2. ASSUME NEW s \in Sids, NEW ip \in Ips, Connect(s, ip) PROVE RowsInv'
  <2>1. Ids' = Ids
    BY <1>2 DEF Connect, database, Ids
  <2> QED
    BY <1>1, <1>2, <2>1, RowsFrame DEF Connect, database, memory
<1>3. ASSUME NEW s \in Sids, Disconnect(s) PROVE RowsInv'
  <2>1. /\ Ids' = Ids
        /\ \A e \in Ids : events'[e].client = events[e].client /\ events'[e].ip = events[e].ip
    <3>1. CASE active[s] = 0
      BY <1>3, <3>1 DEF Disconnect, Ids
    <3>2. CASE active[s] # 0
      <4>1. active[s] \in Ids /\ events' = Closed(active[s])
        BY <1>1, <1>3, <3>2 DEF Disconnect, ActiveIsOwnEvent
      <4> QED
        BY <1>1, <4>1, ClosedFacts DEF Ids
    <3> QED
      BY <3>1, <3>2
  <2> QED
    BY <1>1, <1>3, <2>1, RowsFrame DEF Disconnect
<1>4. ASSUME NEW s \in Sids, DisconnectUnclosed(s) PROVE RowsInv'
  <2>1. Ids' = Ids
    BY <1>4 DEF DisconnectUnclosed, database, Ids
  <2> QED
    BY <1>1, <1>4, <2>1, RowsFrame DEF DisconnectUnclosed, database
<1>5. ASSUME Restart PROVE RowsInv'
  <2>1. Ids' = Ids
    BY <1>5 DEF Restart, database, Ids
  <2>2. \A e \in 1..MaxEvents : /\ lookup'[e] = "none" <=> lookup[e] = "none"
                                /\ lookup[e] = "wrote" => lookup'[e] = "wrote"
    BY <1>5 DEF Restart
  <2>3. \A ip \in Ips : cache'[ip] \in {cache[ip], None}
    BY <1>5 DEF Restart
  <2> QED
    BY <1>1, <1>5, <2>1, <2>2, <2>3, RowsFrame DEF Restart, database
<1>6. ASSUME NEW id \in Ids, LookupAsks(id) PROVE RowsInv'
  <2>1. Ids' = Ids
    BY <1>6 DEF LookupAsks, database, Ids
  <2>2. \A e \in 1..MaxEvents : /\ lookup'[e] = "none" <=> lookup[e] = "none"
                                /\ lookup[e] = "wrote" => lookup'[e] = "wrote"
    BY <1>1, <1>6 DEF LookupAsks, TypeOK
  <2> QED
    BY <1>1, <1>6, <2>1, <2>2, RowsFrame DEF LookupAsks, database
<1> QED
  BY <1>2, <1>3, <1>4, <1>5, <1>6

LEMMA JoinUnlistedRows ==
  ASSUME EventsInv, RowsInv, NEW s \in Sids, NEW c \in Clients, JoinUnlisted(s, c) PROVE RowsInv'
<1>1. TypeOK /\ socket[s] = "open" /\ Len(events) < MaxEvents
  BY DEF EventsInv, JoinUnlisted
<1>2. /\ NewId \in 1..MaxEvents /\ NewId \notin Ids /\ Ids' = Ids \cup {NewId}
      /\ \A e \in Ids : events'[e] = events[e]
      /\ UNCHANGED <<clients, lookup, cache>> /\ unlisted' = unlisted \cup {NewId}
  BY <1>1, InsertedFacts DEF JoinUnlisted, Ids, memory
<1>3. \A x \in Clients : Listed(x)' = Listed(x)
  BY <1>2 DEF Listed
<1>4. LookupsInv'
  BY <1>2 DEF RowsInv, LookupsInv
<1>5. \A x \in Clients : \A e \in Listed(x) : events'[e] = events[e]
  BY <1>2 DEF Listed
<1>6. CountryWasLookedUp'
  BY <1>2, <1>3, <1>5 DEF RowsInv, CountryWasLookedUp, Country
<1>7. SessionsCounted'
  BY <1>2, <1>3, <1>5 DEF RowsInv, SessionsCounted
<1> QED
  BY <1>4, <1>6, <1>7 DEF RowsInv

LEMMA ListedIsFinite ==
  ASSUME TypeOK, NEW c \in Clients PROVE IsFiniteSet(Listed(c)) /\ Listed(c) \subseteq Ids
<1>1. Listed(c) \subseteq Ids
  BY DEF Listed
<1>2. IsFiniteSet(Ids)
  <2>1. Len(events) \in Nat
    BY DEF TypeOK
  <2> QED
    BY <2>1, FS_Interval DEF Ids
<1> QED
  BY <1>1, <1>2, FS_Subset

LEMMA JoinRows ==
  ASSUME EventsInv, RowsInv, NEW s \in Sids, NEW c \in Clients, Join(s, c) PROVE RowsInv'
<1>1. TypeOK /\ socket[s] = "open" /\ Len(events) < MaxEvents /\ addr[s] \in Ips
  BY DEF EventsInv, TypeOK, Join
<1>2. /\ NewId \in 1..MaxEvents /\ NewId \notin Ids /\ Ids' = Ids \cup {NewId}
      /\ \A e \in Ids : events'[e] = events[e] /\ e < NewId /\ e \in 1..MaxEvents
      /\ events'[NewId].client = c /\ events'[NewId].ip = addr[s]
  <2>1. \A e \in Ids : e < NewId /\ e \in 1..MaxEvents
    BY <1>1 DEF NewId, Ids, TypeOK
  <2>2. /\ NewId \in 1..MaxEvents /\ NewId \notin Ids /\ Ids' = Ids \cup {NewId}
        /\ \A e \in Ids : events'[e] = events[e]
        /\ events'[NewId] = [client |-> c, ip |-> addr[s], sid |-> s, open |-> TRUE]
    BY <1>1, InsertedFacts DEF Join, Ids
  <2> QED
    BY <2>1, <2>2
<1>3. /\ UNCHANGED <<cache, unlisted>> /\ unlisted \subseteq Ids
      /\ lookup' = [lookup EXCEPT ![NewId] = "started"]
      /\ clients' = [clients EXCEPT ![c] = Upserted(clients[c], addr[s])]
  BY <1>1 DEF Join, TypeOK
<1>4. /\ Listed(c)' = Listed(c) \cup {NewId} /\ NewId \notin Listed(c)
      /\ \A x \in Clients \ {c} : Listed(x)' = Listed(x)
      /\ \A x \in Clients : \A e \in Listed(x) :
           events'[e] = events[e] /\ lookup'[e] = lookup[e] /\ e < NewId
  <2>1. lookup \in [1..MaxEvents -> {"none", "started", "asks", "wrote", "ended"}]
    BY <1>1 DEF TypeOK
  <2> QED
    BY <1>2, <1>3, <2>1 DEF Listed
<1>5. /\ clients[c] \in Row \cup {None} /\ clients'[c] = Upserted(clients[c], addr[s])
      /\ clients'[c] \in Row /\ clients'[c].ip = addr[s] /\ clients'[c] # None
      /\ clients'[c].total = (IF clients[c] = None THEN 0 ELSE clients[c].total) + 1
      /\ clients'[c].country = IF clients[c] = None THEN None ELSE clients[c].country
      /\ \A x \in Clients \ {c} : clients'[x] = clients[x]
  <2>1. clients \in [Clients -> Row \cup {None}]
    BY <1>1 DEF TypeOK
  <2>2. /\ clients[c] \in Row \cup {None} /\ clients'[c] = Upserted(clients[c], addr[s])
        /\ \A x \in Clients \ {c} : clients'[x] = clients[x]
    BY <1>3, <2>1
  <2> QED
    BY <1>1, <2>2, UpsertedFacts
<1>6. LookupsInv'
  BY <1>1, <1>2, <1>3 DEF RowsInv, LookupsInv, TypeOK
<1>7. CountryWasLookedUp'
  <2> SUFFICES ASSUME NEW x \in Clients, clients'[x] # None, clients'[x].country # None
               PROVE  \E e \in Listed(x)' : lookup'[e] = "wrote" /\ Country(events'[e].ip) = clients'[x].country
    BY DEF CountryWasLookedUp, Country
  <2>1. clients[x] # None /\ clients'[x].country = clients[x].country
    BY <1>5
  <2>2. PICK e \in Listed(x) : lookup[e] = "wrote" /\ Country(events[e].ip) = clients[x].country
    BY <2>1 DEF RowsInv, CountryWasLookedUp
  <2>3. e \in Listed(x)'
    BY <1>4
  <2> QED
    BY <1>4, <2>1, <2>2, <2>3
<1>8. SessionsCounted'
  <2> SUFFICES ASSUME NEW x \in Clients
               PROVE  /\ Cardinality(Listed(x)') = IF clients'[x] = None THEN 0 ELSE clients'[x].total
                      /\ \A e \in Listed(x)' : (\A f \in Listed(x)' : f <= e) => clients'[x].ip = events'[e].ip
    BY DEF SessionsCounted
  <2>1. CASE x # c
    BY <1>4, <1>5, <2>1 DEF RowsInv, SessionsCounted
  <2>2. CASE x = c
    <3>1. Cardinality(Listed(c)) = IF clients[c] = None THEN 0 ELSE clients[c].total
      BY DEF RowsInv, SessionsCounted
    <3>2. IsFiniteSet(Listed(c))
      BY <1>1, ListedIsFinite
    <3>3. Cardinality(Listed(c) \cup {NewId}) = Cardinality(Listed(c)) + 1
      BY <1>4, <3>2, FS_AddElement
    <3>4. Cardinality(Listed(c)') = clients'[c].total
      BY <1>4, <1>5, <3>1, <3>3
    <3>5. ASSUME NEW e \in Listed(c)', \A f \in Listed(c)' : f <= e
          PROVE  clients'[c].ip = events'[e].ip
      <4>1. NewId <= e
        BY <1>4, <3>5
      <4>2. CASE e = NewId
        BY <1>2, <1>5, <4>2
      <4>3. CASE e # NewId
        <5>1. e < NewId /\ e \in Nat /\ NewId \in Nat
          BY <1>2, <1>4, <4>3 DEF Listed
        <5> QED
          BY <4>1, <5>1
      <4> QED
        BY <4>2, <4>3
    <3> QED
      BY <1>5, <2>2, <3>4, <3>5
  <2> QED
    BY <2>1, <2>2
<1> QED
  BY <1>6, <1>7, <1>8 DEF RowsInv

\* The end of a lookup of event id: only the country of its client changes.
LEMMA ConcludedFacts ==
  ASSUME TypeOK, NEW id \in Ids, NEW answer \in Ips \cup {Local, Unknown}, Conclude(id, answer)
  PROVE  /\ lookup' \in [1..MaxEvents -> {"none", "started", "asks", "wrote", "ended"}]
         /\ lookup'[id] \in {"wrote", "ended"}
         /\ \A e \in Ids \ {id} : lookup'[e] = lookup[e]
         /\ \A e \in 1..MaxEvents : lookup'[e] # "none" => lookup[e] # "none" \/ e = id
         /\ clients' \in [Clients -> Row \cup {None}]
         /\ \A c \in Clients : clients'[c] = None <=> clients[c] = None
         /\ \A c \in Clients : clients[c] # None =>
              /\ clients'[c].ip = clients[c].ip /\ clients'[c].total = clients[c].total
              /\ \/ clients'[c].country = clients[c].country
                 \/ c = events[id].client /\ clients'[c].country = answer /\ lookup'[id] = "wrote" /\ answer # Unknown
<1>1. /\ id \in 1..MaxEvents /\ Ids \subseteq 1..MaxEvents
      /\ lookup \in [1..MaxEvents -> {"none", "started", "asks", "wrote", "ended"}]
      /\ clients \in [Clients -> Row \cup {None}] /\ events[id].client \in Clients
  BY EventType DEF TypeOK, Ids
<1>2. \/ lookup' = [lookup EXCEPT ![id] = "wrote"]
      \/ lookup' = [lookup EXCEPT ![id] = "ended"]
  BY DEF Conclude
<1>3. /\ lookup' \in [1..MaxEvents -> {"none", "started", "asks", "wrote", "ended"}]
      /\ lookup'[id] \in {"wrote", "ended"}
      /\ \A e \in Ids \ {id} : lookup'[e] = lookup[e]
      /\ \A e \in 1..MaxEvents : lookup'[e] # "none" => lookup[e] # "none" \/ e = id
  BY <1>1, <1>2
<1>4. CASE clients' = clients
  BY <1>1, <1>3, <1>4
<1>5. CASE clients' # clients
  <2> DEFINE d == events[id].client
             row == [clients[d] EXCEPT !.country = answer]
  <2>1. /\ answer # Unknown /\ answer \in Ips \cup {Local, None} /\ lookup'[id] = "wrote"
        /\ clients' = [clients EXCEPT ![d] = IF clients[d] = None THEN None ELSE row]
    BY <1>1, <1>5 DEF Conclude, Found, LocatedClient
  <2>2. clients[d] # None => /\ row \in Row /\ row.country = answer
                             /\ row.ip = clients[d].ip /\ row.total = clients[d].total
    <3>1. clients[d] # None => clients[d] \in Row
      BY <1>1
    <3>2. ASSUME NEW r \in Row
          PROVE  LET q == [r EXCEPT !.country = answer] IN
                 q \in Row /\ q.country = answer /\ q.ip = r.ip /\ q.total = r.total
      BY <2>1 DEF Row
    <3> QED
      BY <3>1, <3>2
  <2>3. \A c \in Clients : clients'[c] = IF c = d THEN (IF clients[d] = None THEN None ELSE row) ELSE clients[c]
    BY <1>1, <2>1
  <2> HIDE DEF d, row
  <2>4. clients' \in [Clients -> Row \cup {None}]
    BY <1>1, <2>1, <2>2
  <2>5. row \in Row => row # None
    OBVIOUS
  <2>6. ASSUME NEW c \in Clients
        PROVE  /\ clients'[c] = None <=> clients[c] = None
               /\ clients[c] # None =>
                    /\ clients'[c].ip = clients[c].ip /\ clients'[c].total = clients[c].total
                    /\ clients'[c].country = clients[c].country \/ (c = d /\ clients'[c].country = answer)
    BY <2>2, <2>3, <2>5
  <2> QED
    BY <1>3, <2>1, <2>4, <2>6 DEF d
<1> QED
  BY <1>4, <1>5

\* A lookup that ends with the country of its event's address.
LEMMA ConcludeInv ==
  ASSUME EventsInv, RowsInv, NEW id \in Ids, lookup[id] \in {"started", "asks"},
         NEW answer \in {Unknown, Country(events[id].ip)}, Conclude(id, answer),
         UNCHANGED <<socket, addr, events, active, unlisted, abandoned>>,
         cache' \in [Ips -> Ips \cup {Unknown, None}], \A ip \in Ips : cache'[ip] \in {None, Unknown, ip}
  PROVE  EventsInv' /\ RowsInv'
<1>1. TypeOK /\ Ids' = Ids /\ Ids \subseteq 1..MaxEvents
  BY DEF EventsInv, TypeOK, Ids
<1>2. answer \in Ips \cup {Local, Unknown}
  BY <1>1, EventType DEF Country
<1>3. TypeOK'
  BY <1>1, <1>2, ConcludedFacts DEF TypeOK
<1>4. ActiveIsOwnEvent'
  BY <1>1 DEF EventsInv, ActiveIsOwnEvent
<1>5. OpenIsAccountedFor'
  BY <1>1 DEF EventsInv, OpenIsAccountedFor
<1>6. LookupsInv'
  BY <1>1, <1>2, ConcludedFacts DEF RowsInv, LookupsInv
<1>7. \A c \in Clients : Listed(c)' = Listed(c)
  BY <1>1 DEF Listed
<1>8. SessionsCounted'
  <2>1. \A c \in Clients : /\ clients'[c] = None <=> clients[c] = None
                           /\ clients[c] # None => clients'[c].ip = clients[c].ip /\ clients'[c].total = clients[c].total
    BY <1>1, <1>2, ConcludedFacts
  <2>2. \A c \in Clients : \A e \in Listed(c) : clients[c] # None
    <3> SUFFICES ASSUME NEW c \in Clients, NEW e \in Listed(c), clients[c] = None PROVE FALSE
      OBVIOUS
    <3>1. Cardinality(Listed(c)) = 0 /\ IsFiniteSet(Listed(c))
      BY <1>1, ListedIsFinite DEF RowsInv, SessionsCounted
    <3> QED
      BY <3>1, FS_EmptySet
  <2> QED
    BY <1>7, <2>1, <2>2 DEF RowsInv, SessionsCounted
<1>9. CountryWasLookedUp'
  <2> SUFFICES ASSUME NEW c \in Clients, clients'[c] # None, clients'[c].country # None
               PROVE  \E e \in Listed(c) : lookup'[e] = "wrote" /\ Country(events[e].ip) = clients'[c].country
    BY <1>7 DEF CountryWasLookedUp, Country
  <2>1. CASE c = events[id].client /\ clients'[c].country = answer /\ lookup'[id] = "wrote" /\ answer # Unknown
    <3>1. id \in Listed(c)
      <4>1. lookup[id] # "none"
        OBVIOUS
      <4> QED
        BY <1>1, <2>1, <4>1 DEF RowsInv, LookupsInv, Listed
    <3> QED
      BY <2>1, <3>1
  <2>2. CASE clients'[c].country = clients[c].country
    <3>1. clients[c] # None
      BY <1>1, <1>2, ConcludedFacts
    <3>2. PICK e \in Listed(c) : lookup[e] = "wrote" /\ Country(events[e].ip) = clients[c].country
      BY <2>2, <3>1 DEF RowsInv, CountryWasLookedUp
    <3>3. e \in Ids \ {id}
      BY <3>2 DEF Listed
    <3> QED
      BY <1>1, <1>2, <2>2, <3>2, <3>3, ConcludedFacts
  <2> QED
    BY <1>1, <1>2, <2>1, <2>2, ConcludedFacts
<1> QED
  BY <1>3, <1>4, <1>5, <1>6, <1>8, <1>9 DEF EventsInv, RowsInv

\* Only public addresses are asked about.
AsksPublic == \A e \in Ids : lookup[e] = "asks" => events[e].ip \notin Private

LEMMA AsksInv ==
  ASSUME EventsInv, LookupsInv, AsksPublic, [Next]_vars PROVE AsksPublic'
<1>1. /\ TypeOK /\ ActiveIsOwnEvent /\ Ids \subseteq 1..MaxEvents
      /\ lookup \in [1..MaxEvents -> {"none", "started", "asks", "wrote", "ended"}]
  BY DEF EventsInv, TypeOK, Ids
<1>2. ASSUME Ids' = Ids, \A e \in Ids : events'[e].ip = events[e].ip,
             \A e \in Ids : lookup'[e] = "asks" => lookup[e] = "asks" \/ events[e].ip \notin Private
      PROVE  AsksPublic'
  BY <1>2 DEF AsksPublic
<1>3. ASSUME NEW s \in Sids, NEW c \in Clients, Join(s, c) \/ JoinUnlisted(s, c) PROVE AsksPublic'
  <2>1. /\ NewId \in 1..MaxEvents /\ NewId \notin Ids /\ Ids' = Ids \cup {NewId}
        /\ \A e \in Ids : events'[e] = events[e]
    <3>1. socket[s] = "open" /\ Len(events) < MaxEvents /\ events' = Inserted(s, c)
      BY <1>3 DEF Join, JoinUnlisted
    <3> QED
      BY <1>1, <3>1, InsertedFacts DEF Ids
  <2>2. lookup[NewId] = "none"
    BY <2>1 DEF LookupsInv
  <2>3. lookup' = lookup \/ lookup' = [lookup EXCEPT ![NewId] = "started"]
    BY <1>3 DEF Join, JoinUnlisted, memory
  <2>4. lookup'[NewId] # "asks" /\ \A e \in Ids : lookup'[e] = lookup[e]
    BY <1>1, <2>1, <2>2, <2>3
  <2> QED
    BY <2>1, <2>4 DEF AsksPublic
<1>4. ASSUME NEW s \in Sids, Disconnect(s) PROVE AsksPublic'
  <2>1. Ids' = Ids /\ \A e \in Ids : events'[e].ip = events[e].ip
    <3>1. CASE active[s] = 0
      BY <1>4, <3>1 DEF Disconnect, Ids
    <3>2. CASE active[s] # 0
      <4>1. active[s] \in Ids /\ events' = Closed(active[s])
        BY <1>1, <1>4, <3>2 DEF Disconnect, ActiveIsOwnEvent
      <4> QED
        BY <1>1, <4>1, ClosedFacts DEF Ids
    <3> QED
      BY <3>1, <3>2
  <2> QED
    BY <1>2, <1>4, <2>1 DEF Disconnect
<1>5. ASSUME NEW s \in Sids, (\E ip \in Ips : Connect(s, ip)) \/ DisconnectUnclosed(s) PROVE AsksPublic'
  BY <1>5 DEF Connect, DisconnectUnclosed, database, memory, AsksPublic, Ids
<1>6. ASSUME NEW id \in Ids, NEW answer, Conclude(id, answer), UNCHANGED events PROVE AsksPublic'
  <2>1. \A e \in Ids : lookup'[e] = "asks" => lookup[e] = "asks"
    BY <1>1, <1>6 DEF Conclude
  <2> QED
    BY <1>2, <1>6, <2>1 DEF Ids
<1>7. ASSUME NEW id \in Ids, LookupAsks(id) PROVE AsksPublic'
  BY <1>1, <1>7 DEF LookupAsks, database, AsksPublic, Ids
<1>8. ASSUME Restart PROVE AsksPublic'
  <2>1. \A e \in Ids : lookup'[e] # "asks"
    BY <1>1, <1>8 DEF Restart
  <2> QED
    BY <1>8, <2>1 DEF Restart, database, AsksPublic, Ids
<1>9. ASSUME UNCHANGED vars PROVE AsksPublic'
  BY <1>9 DEF vars, database, memory, AsksPublic, Ids
<1>10. ASSUME NEW id \in Ids, LookupKnown(id) PROVE AsksPublic'
  BY <1>6, <1>10 DEF LookupKnown
<1>11. ASSUME NEW id \in Ids, NEW answer \in Ips \cup {Unknown}, LookupAnswered(id, answer) PROVE AsksPublic'
  BY <1>6, <1>11 DEF LookupAnswered
<1> QED
  BY <1>3, <1>4, <1>5, <1>7, <1>8, <1>9, <1>10, <1>11 DEF Next

LEMMA LookupsInvariant ==
  ASSUME EventsInv, RowsInv, AsksPublic, NEW id \in Ids PROVE
    /\ LookupKnown(id) => EventsInv' /\ RowsInv'
    /\ LookupAsks(id) => EventsInv' /\ RowsInv'
    /\ \A answer \in Ips \cup {Unknown} : LookupAnswered(id, answer) => EventsInv' /\ RowsInv'
<1>1. /\ TypeOK /\ events[id].ip \in Ips /\ cache \in [Ips -> Ips \cup {Unknown, None}]
      /\ \A ip \in Ips : cache[ip] \in {None, Unknown, ip}
  BY EventType DEF EventsInv, TypeOK, RowsInv, LookupsInv
<1>2. ASSUME LookupKnown(id) PROVE EventsInv' /\ RowsInv'
  <2>1. PICK answer \in {Unknown, Country(events[id].ip)} : Conclude(id, answer)
    <3>1. CASE events[id].ip \in Private /\ Conclude(id, Local)
      BY <3>1 DEF Country
    <3>2. CASE events[id].ip \notin Private /\ cache[events[id].ip] # None /\ Conclude(id, cache[events[id].ip])
      <4>1. cache[events[id].ip] \in {Unknown, Country(events[id].ip)}
        BY <1>1, <3>2 DEF Country
      <4> QED
        BY <3>2, <4>1
    <3> QED
      BY <1>2, <3>1, <3>2 DEF LookupKnown
  <2> QED
    BY <1>1, <1>2, <2>1, ConcludeInv DEF LookupKnown
<1>3. ASSUME LookupAsks(id) PROVE EventsInv' /\ RowsInv'
  <2>1. Ids' = Ids
    BY <1>3 DEF LookupAsks, database, Ids
  <2>2. EventsInv'
    BY <1>3, <2>1 DEF LookupAsks, database, EventsInv, TypeOK, ActiveIsOwnEvent, OpenIsAccountedFor
  <2> QED
    BY <1>3, <2>2, QuietRows
<1>4. ASSUME NEW answer \in Ips \cup {Unknown}, LookupAnswered(id, answer) PROVE EventsInv' /\ RowsInv'
  <2>1. CASE events[id].ip \notin Private
    <3>1. answer \in {Unknown, Country(events[id].ip)} /\ Conclude(id, answer)
      BY <1>4, <2>1 DEF LookupAnswered, Country
    <3>2. /\ cache' \in [Ips -> Ips \cup {Unknown, None}]
          /\ \A ip \in Ips : cache'[ip] \in {None, Unknown, ip}
      BY <1>1, <1>4 DEF LookupAnswered
    <3> QED
      BY <1>4, <3>1, <3>2, ConcludeInv DEF LookupAnswered
  <2>2. CASE events[id].ip \in Private
    BY <1>4, <2>2 DEF LookupAnswered, AsksPublic
  <2> QED
    BY <2>1, <2>2
<1> QED
  BY <1>2, <1>3, <1>4

(***************************************************************************)
(* The theorems.                                                           *)
(***************************************************************************)
HistoryInv == EventsInv /\ RowsInv /\ AsksPublic

LEMMA HistoryInvariant == Spec => []HistoryInv
<1>1. Init => HistoryInv
  <2>1. Init => AsksPublic
    BY DEF Init, AsksPublic, Ids
  <2> QED
    BY <2>1, InitInv, InitRows DEF HistoryInv, EventsInv
<1>2. HistoryInv /\ [Next]_vars => HistoryInv'
  <2> SUFFICES ASSUME HistoryInv, [Next]_vars PROVE HistoryInv'
    OBVIOUS
  <2>1. EventsInv /\ RowsInv /\ AsksPublic /\ LookupsInv /\ TypeOK
    BY DEF HistoryInv, RowsInv, EventsInv
  <2>2. AsksPublic'
    BY <2>1, AsksInv
  <2>3. ASSUME NEW s \in Sids
        PROVE  /\ \A ip \in Ips : Connect(s, ip) => EventsInv' /\ RowsInv'
               /\ \A c \in Clients : /\ Join(s, c) => EventsInv' /\ RowsInv'
                                     /\ JoinUnlisted(s, c) => EventsInv' /\ RowsInv'
               /\ Disconnect(s) => EventsInv' /\ RowsInv'
               /\ DisconnectUnclosed(s) => EventsInv' /\ RowsInv'
    <3>1. \A ip \in Ips : Connect(s, ip) => EventsInv' /\ RowsInv'
      BY <2>1, ConnectInv, QuietRows
    <3>2. \A c \in Clients : Join(s, c) => EventsInv' /\ RowsInv'
      BY <2>1, JoinInv, JoinRows
    <3>3. \A c \in Clients : JoinUnlisted(s, c) => EventsInv' /\ RowsInv'
      BY <2>1, JoinUnlistedInv, JoinUnlistedRows
    <3>4. Disconnect(s) => EventsInv' /\ RowsInv'
      BY <2>1, DisconnectInv, QuietRows
    <3>5. DisconnectUnclosed(s) => EventsInv' /\ RowsInv'
      BY <2>1, DisconnectUnclosedInv, QuietRows
    <3> QED
      BY <3>1, <3>2, <3>3, <3>4, <3>5
  <2>4. CASE Restart
    BY <2>1, <2>2, <2>4, RestartInv, QuietRows DEF HistoryInv
  <2>5. CASE UNCHANGED vars
    <3>1. EventsInv'
      BY <2>1, <2>5 DEF vars, database, memory, EventsInv, TypeOK, ActiveIsOwnEvent, OpenIsAccountedFor, Ids
    <3>2. Ids' = Ids
      BY <2>5 DEF vars, database, Ids
    <3>3. RowsInv'
      BY <2>1, <2>5, <3>2, RowsFrame DEF vars, database, memory
    <3> QED
      BY <2>2, <3>1, <3>3 DEF HistoryInv
  <2>6. ASSUME NEW id \in Ids, LookupKnown(id) \/ LookupAsks(id) PROVE HistoryInv'
    BY <2>1, <2>2, <2>6, LookupsInvariant DEF HistoryInv
  <2>7. ASSUME NEW id \in Ids, NEW answer \in Ips \cup {Unknown}, LookupAnswered(id, answer) PROVE HistoryInv'
    BY <2>1, <2>2, <2>7, LookupsInvariant DEF HistoryInv
  <2>8. ASSUME NEW s \in Sids, NEW ip \in Ips, Connect(s, ip) PROVE HistoryInv'
    BY <2>2, <2>3, <2>8 DEF HistoryInv
  <2>9. ASSUME NEW s \in Sids, NEW c \in Clients, Join(s, c) \/ JoinUnlisted(s, c) PROVE HistoryInv'
    BY <2>2, <2>3, <2>9 DEF HistoryInv
  <2>10. ASSUME NEW s \in Sids, Disconnect(s) \/ DisconnectUnclosed(s) PROVE HistoryInv'
    BY <2>2, <2>3, <2>10 DEF HistoryInv
  <2> QED
    BY <2>4, <2>5, <2>6, <2>7, <2>8, <2>9, <2>10 DEF Next
<1> QED
  BY <1>1, <1>2, PTL DEF Spec

\* The tables, the remembered events and the lookups keep their types, over
\* restarts and failures (history_db.py, _record_join, _record_disconnect).
THEOREM TypeCorrectness == Spec => []TypeOK
<1>1. HistoryInv => TypeOK
  BY DEF HistoryInv, EventsInv
<1> QED
  BY <1>1, HistoryInvariant, PTL

\* on_disconnect closes an event of its own socket that is still open.
THEOREM DisconnectClosesItsOwn == Spec => []ActiveIsOwnEvent
<1>1. HistoryInv => ActiveIsOwnEvent
  BY DEF HistoryInv, EventsInv
<1> QED
  BY <1>1, HistoryInvariant, PTL

\* No interleaving of joins, disconnects and lookups leaves an event open
\* but a re-join, a restart and the two failures.
THEOREM OpenEventsAccountedFor == Spec => []OpenIsAccountedFor
<1>1. HistoryInv => OpenIsAccountedFor
  BY DEF HistoryInv, EventsInv
<1> QED
  BY <1>1, HistoryInvariant, PTL

\* total_sessions of upsert_client is the number of listed events of a client.
THEOREM TotalsAgree == Spec => []SessionsCounted
<1>1. HistoryInv => SessionsCounted
  BY DEF HistoryInv, RowsInv
<1> QED
  BY <1>1, HistoryInvariant, PTL

\* _geo_update writes countries of addresses the client joined from only.
THEOREM CountriesWereLookedUp == Spec => []CountryWasLookedUp
<1>1. HistoryInv => CountryWasLookedUp
  BY DEF HistoryInv, RowsInv
<1> QED
  BY <1>1, HistoryInvariant, PTL
=============================================================================
