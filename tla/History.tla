------------------------------- MODULE History -------------------------------
(***************************************************************************)
(* The connection history: the two tables of history_db.py, the events     *)
(* _record_join and _record_disconnect open and close in them, and the     *)
(* background lookups that find out the country of a client.               *)
(*                                                                         *)
(* Recording runs at the end of on_join and on_disconnect and does not     *)
(* switch greenlets; a lookup switches while it waits for ip-api.com, and  *)
(* starts after the handler that spawned it.  The tables survive a         *)
(* restart; the events that are remembered, the lookups and their cache do *)
(* not.  Joins that are not recorded (no room, no client_id, the dashboard)*)
(* change nothing here.                                                    *)
(***************************************************************************)
EXTENDS Integers, Sequences, FiniteSets

CONSTANTS
  Sids,        \* Socket.IO session ids, of which a connection never gets a used one
  Clients,
  Ips,
  Private,     \* the addresses of _PRIVATE_NETWORKS
  MaxEvents,   \* bound: the events that are recorded
  None,        \* no address, row, country or answer
  Unknown,     \* _UNKNOWN_RESULT
  Local        \* _LOCAL_RESULT

ASSUME HistoryAssumption ==
  /\ MaxEvents \in Nat /\ Private \subseteq Ips
  /\ {None, Unknown, Local} \cap Ips = {}
  /\ None # Unknown /\ Unknown # Local /\ Local # None

VARIABLES
  socket,     \* each session: new, open or closed
  addr,       \* its get_client_ip, which the handshake fixes
  events,     \* connection_events by id; the sid is not a column
  clients,    \* clients by client_id
  active,     \* _ACTIVE_SID_EVENTS: the event id of a sid, or 0
  lookup,     \* _geo_update of each event
  cache,      \* geo_service._cache
  unlisted,   \* history: the events whose upsert_client failed
  abandoned   \* history: the events a restart or a failed close_event left open

database == <<events, clients>>
memory == <<active, lookup, cache>>
vars == <<socket, addr, database, memory, unlisted, abandoned>>

Ids == 1..Len(events)
Event == [client : Clients, ip : Ips, sid : Sids, open : BOOLEAN]
Country(ip) == IF ip \in Private THEN Local ELSE ip    \* a country is named after its address
Row == [ip : Ips, country : Ips \cup {Local, None}, total : Nat]
ASSUME RowAssumption == None \notin Row

TypeOK ==
  /\ socket \in [Sids -> {"new", "open", "closed"}]
  /\ addr \in [Sids -> Ips \cup {None}]
  /\ \A s \in Sids : socket[s] = "open" => addr[s] \in Ips
  /\ events \in Seq(Event) /\ Len(events) <= MaxEvents
  /\ clients \in [Clients -> Row \cup {None}]
  /\ active \in [Sids -> 0..MaxEvents]
  /\ lookup \in [1..MaxEvents -> {"none", "started", "asks", "wrote", "ended"}]
  /\ cache \in [Ips -> Ips \cup {Unknown, None}]
  /\ unlisted \subseteq Ids /\ abandoned \subseteq Ids

Init ==
  /\ socket = [s \in Sids |-> "new"] /\ addr = [s \in Sids |-> None]
  /\ events = << >> /\ clients = [c \in Clients |-> None]
  /\ active = [s \in Sids |-> 0]
  /\ lookup = [e \in 1..MaxEvents |-> "none"]
  /\ cache = [ip \in Ips |-> None]
  /\ unlisted = {} /\ abandoned = {}

------------------------------------------------------------------------------
Connect(s, ip) ==
  /\ socket[s] = "new"
  /\ socket' = [socket EXCEPT ![s] = "open"]
  /\ addr' = [addr EXCEPT ![s] = ip]
  /\ UNCHANGED <<database, memory, unlisted, abandoned>>

\* insert_event, whose id is the next one.
NewId == Len(events) + 1
Inserted(s, c) == Append(events, [client |-> c, ip |-> addr[s], sid |-> s, open |-> TRUE])

\* upsert_client.
UpsertedOnce(row, ip) ==          \* mutant: ON CONFLICT forgets total_sessions
  IF row = None THEN [ip |-> ip, country |-> None, total |-> 1] ELSE [row EXCEPT !.ip = ip]
Upserted(row, ip) ==
  IF row = None THEN [ip |-> ip, country |-> None, total |-> 1]
  ELSE [row EXCEPT !.ip = ip, !.total = @ + 1]

\* _ACTIVE_SID_EVENTS[sid] = event: an event of an earlier join is forgotten.
RememberedFirst(s) == [active EXCEPT ![s] = IF @ = 0 THEN NewId ELSE @]  \* mutant: setdefault
Remembered(s) == [active EXCEPT ![s] = NewId]

\* _record_join; a socket may join again, as another client too.
Join(s, c) ==
  /\ socket[s] = "open" /\ Len(events) < MaxEvents
  /\ events' = Inserted(s, c)
  /\ clients' = [clients EXCEPT ![c] = Upserted(@, addr[s])]
  /\ active' = Remembered(s)
  /\ lookup' = [lookup EXCEPT ![NewId] = "started"]
  /\ UNCHANGED <<socket, addr, cache, unlisted, abandoned>>

\* upsert_client raises: the exception is logged, the event stays.
JoinUnlisted(s, c) ==
  /\ socket[s] = "open" /\ Len(events) < MaxEvents
  /\ events' = Inserted(s, c)
  /\ unlisted' = unlisted \cup {NewId}
  /\ UNCHANGED <<socket, addr, clients, memory, abandoned>>

\* on_disconnect: the entry is popped, then close_event.
Closed(id) == [events EXCEPT ![id].open = FALSE]
KeptActive(s) == active            \* mutant: the entry is read and not popped
Popped(s) == [active EXCEPT ![s] = 0]
Disconnect(s) ==
  /\ socket[s] = "open"
  /\ socket' = [socket EXCEPT ![s] = "closed"]
  /\ active' = Popped(s)
  /\ events' = IF active[s] = 0 THEN events ELSE Closed(active[s])
  /\ UNCHANGED <<addr, clients, lookup, cache, unlisted, abandoned>>

\* close_event raises.
DisconnectUnclosed(s) ==
  /\ socket[s] = "open" /\ active[s] # 0
  /\ socket' = [socket EXCEPT ![s] = "closed"]
  /\ active' = Popped(s)
  /\ abandoned' = abandoned \cup {active[s]}
  /\ UNCHANGED <<addr, database, lookup, cache, unlisted>>

\* The process ends and starts again; its sockets are gone without a word.
Restart ==
  /\ socket' = [s \in Sids |-> IF socket[s] = "open" THEN "closed" ELSE socket[s]]
  /\ active' = [s \in Sids |-> 0]
  /\ lookup' = [e \in 1..MaxEvents |-> IF lookup[e] \in {"started", "asks"} THEN "ended" ELSE lookup[e]]
  /\ cache' = [ip \in Ips |-> None]
  /\ abandoned' = abandoned \cup ({active[s] : s \in Sids} \ {0})
  /\ UNCHANGED <<addr, database, unlisted>>

------------------------------------------------------------------------------
(* _geo_update.                                                            *)

\* update_client_geo, unless the answer is empty or the update raises.
LocatedNewest(id) == events[Len(events)].client   \* mutant: the task reads a variable set since
LocatedClient(id) == events[id].client
FoundAlways(answer) == answer # None         \* mutant: an empty answer is written too
Found(answer) == answer # Unknown
Conclude(id, answer) ==
  \/ /\ Found(answer)
     /\ clients' = [clients EXCEPT ![LocatedClient(id)] =
                      IF @ = None THEN None ELSE [@ EXCEPT !.country = answer]]
     /\ lookup' = [lookup EXCEPT ![id] = "wrote"]
  \/ /\ lookup' = [lookup EXCEPT ![id] = "ended"]
     /\ UNCHANGED clients

\* lookup_ip answers at once, for a private or a cached address ...
LookupKnown(id) ==
  LET ip == events[id].ip IN
  /\ lookup[id] = "started"
  /\ \/ ip \in Private /\ Conclude(id, Local)
     \/ ip \notin Private /\ cache[ip] # None /\ Conclude(id, cache[ip])
  /\ UNCHANGED <<socket, addr, events, active, cache, unlisted, abandoned>>

\* ... and asks ip-api.com otherwise, with the lock released.
LookupAsks(id) ==
  LET ip == events[id].ip IN
  /\ lookup[id] = "started"
  /\ ip \notin Private /\ cache[ip] = None
  /\ lookup' = [lookup EXCEPT ![id] = "asks"]
  /\ UNCHANGED <<socket, addr, database, active, cache, unlisted, abandoned>>

\* The answer arrives, or a failure, which is cached as well.
LookupAnswered(id, answer) ==
  LET ip == events[id].ip IN
  /\ lookup[id] = "asks"
  /\ answer \in {ip, Unknown}
  /\ cache' = [cache EXCEPT ![ip] = answer]
  /\ Conclude(id, answer)
  /\ UNCHANGED <<socket, addr, events, active, unlisted, abandoned>>

------------------------------------------------------------------------------
Next ==
  \/ \E s \in Sids :
       \/ \E ip \in Ips : Connect(s, ip)
       \/ \E c \in Clients : Join(s, c) \/ JoinUnlisted(s, c)
       \/ Disconnect(s) \/ DisconnectUnclosed(s)
  \/ \E id \in Ids :
       \/ LookupKnown(id) \/ LookupAsks(id)
       \/ \E answer \in Ips \cup {Unknown} : LookupAnswered(id, answer)
  \/ Restart

Spec == Init /\ [][Next]_vars

------------------------------------------------------------------------------
\* What _ACTIVE_SID_EVENTS remembers of a socket is an open event of its own,
\* and only of open sockets: a disconnect never closes the event of another
\* socket, nor one that was closed before.
ActiveIsOwnEvent ==
  \A s \in Sids : active[s] # 0 =>
    /\ socket[s] = "open" /\ active[s] \in Ids
    /\ events[active[s]].sid = s /\ events[active[s]].open

\* An event stays open after its socket only if the socket joined again later,
\* if its upsert failed, or if a restart or a failed close left it: nothing else
\* that interleaves with joins and disconnects loses one.
OpenIsAccountedFor ==
  \A e \in Ids : events[e].open =>
    \/ active[events[e].sid] = e
    \/ e \in unlisted \cup abandoned
    \/ \E f \in Ids : f > e /\ events[f].sid = events[e].sid

\* The two counts the history page shows agree: a client has as many sessions
\* in its row as recorded events, but for those whose upsert failed, and a row
\* exactly if it has one; its address is that of the last of them.
Listed(c) == {e \in Ids \ unlisted : events[e].client = c}
SessionsCounted ==
  \A c \in Clients :
    /\ Cardinality(Listed(c)) = IF clients[c] = None THEN 0 ELSE clients[c].total
    /\ \A e \in Listed(c) : (\A f \in Listed(c) : f <= e) => clients[c].ip = events[e].ip

\* A country in a row was looked up for an address this client joined from,
\* although lookups end in any order, share a cache and outlive their sockets.
\* (It need not be the row's present address: a slow lookup of an earlier join
\* overwrites it, and a failed one leaves the country of the address before.)
CountryWasLookedUp ==
  \A c \in Clients : clients[c] # None /\ clients[c].country # None =>
    \E e \in Listed(c) : lookup[e] = "wrote" /\ Country(events[e].ip) = clients[c].country
=============================================================================
