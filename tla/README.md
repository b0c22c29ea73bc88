# Clipboard Push Server in TLA+

The server relays clipboard text and files between a PC and a phone that share a
room. It is one Python process: Flask and Socket.IO under one gevent worker
(`wsgi.py`, `docker-entrypoint.sh`), with dictionaries in memory, two SQLite files
and, optionally, files on disk. Paths below are relative to `src/app`; `SC` is
`signal_core.py`, `SE` is `socket_events.py`.

## 1. Inventory

| Component | State | Operations | Talks to | Status |
|---|---|---|---|---|
| Session tracking and rooms (SC, SE) | `CLIENT_SESSIONS`, `CLIENT_ROOMS`, `CLIENT_TYPES`, `ROOM_CLIENT_ORDER` | connect, disconnect, join, leave, client_ping; purge, eviction, room_stats | LAN probe, history | `Rooms` |
| LAN probe and room state (SC, SE) | `ROOM_LAST_PROBE`, `PENDING_LAN_PROBES`, network and probe metadata | probe on every change of a pair, peer_network_update, lan_probe_result, room_state_changed | called by every room handler; decides transfers | `LanProbe` |
| Transfer orchestration (SC, SE) | `TRANSFER_CONTEXTS`, one sleeping task per offer | file_available, file_sync_completed, file_need_relay, decision timer | reads rooms and verdicts, waits for FCM | `Transfer` |
| FCM registry and fan-out (services/fcm_*) | table `fcm_tokens` | register_fcm_token, fan-out of clipboard and wakes, pruning | FCM (external) | `Push` |
| Clipboard and file relay (SE, route.py) | none | clipboard_push, file_push, file_ack ..., POST /api/relay | rooms, FCM | `Delivery` |
| Pipeline relay (services/pipeline_relay.py, route.py) | a `PipelineBuffer` and waiters per key | PUT upload, GET download | local storage | `PipelineRelay` |
| Local file storage (services/local_storage_service.py) | `<key>`, `<key>.part`, `<key>.meta` | write_file_stream, purge, clear | pipeline relay, cleanup worker | `LocalStorage` |
| Connection history (services/history_db.py, `__init__.py`) | `_ACTIVE_SID_EVENTS`, tables `connection_events` and `clients` | record join and disconnect, update_client_geo | called by join, disconnect | `History` |
| Geo lookup (services/geo_service.py) | `_cache` | lookup_ip, one background task per join | ip-api.com (external) | `History` |
| Settings (settings.py, route.py, the form of dashboard.html) | `os.environ`, `data/settings.env` | load, save, restart | every part reads them at its start | `Settings` |
| R2 storage (services/r2_service.py, route.py, `__init__.py`) | none; objects in buckets | upload_auth, r2_empty, the hourly worker | settings, the object store (external) | `RelayFiles` |
| Login and pages, frontend, packaging | | | | not modelled |

**What makes it hard.** A greenlet switches only where it waits: in an FCM send, in
`socketio.sleep`, when it reads an upload, in `Event.wait` and `Queue.get`, and when
it hands a chunk to a client. `emit` only queues a packet; SQLite, file and logging
calls do not switch. So connect, join, leave, disconnect, ping, peer_network_update
and lan_probe_result are atomic, and what interleaves is their order across sockets;
file_available, file_need_relay, clipboard_push and /api/relay are cut in two by their
fan-out; uploads and downloads interleave chunk by chunk; the lookup of a country waits
for its answer, and emptying a bucket for each page and batch. Nothing in memory
survives a restart, the tables, the files and the saved settings do. The answers of
devices (probe results, receipts) come late, twice or never.

**What makes each part correct.**
- Rooms: the dictionaries describe one membership; capacity; what was announced last
  is true; a closed socket is forgotten.
- LAN probe: every pair is asked; announcements are current; a verdict is about the
  pair it is used for.
- Transfer: a transfer is decided once per offer and always, and heeds the verdict of its room.
- Push: one device per type; pruning never takes a registration that was renewed.
- Delivery: a text that comes over two channels is seen once; nobody whose token is
  valid is left out because of another device's token.
- Pipeline: no lost wake-up, one reader, no gap in a body, a blocked upload is released.
- Storage: a download is one whole upload; nothing stays on the disk for ever.
- History: a disconnect closes its own event; counts and countries agree with the events.
- Settings and R2: a save changes what was edited; an emptying empties; files are purged.

`PROJECT.json` lists the hazards line by line and the property for each.

## 2. Modules

```
ListOps ── Rooms ── MCRooms            Membership ── LanProbe ── MCLanProbe
             │                              ▲            │
         RoomsProofs                    (refined      Transfer ── MCTransfer, TransferOnce
                                         by Rooms)
LanProbe ── LanProofs ── TransferProofs (also extends Transfer)
PipelineRelay ── MCPipelineRelay, PipelineProofs
LocalStorage ── MCLocalStorage, LocalStorageProofs
Push ── Delivery ── MCDelivery, DeliveryProofs
History ── MCHistory, HistoryProofs
Settings ── RelayFiles ── MCRelayFiles, RelayFilesProofs
```

- **ListOps**: the two list idioms of the tracker (comprehension, append without
  repeat), with a recursive function so that theorems can be proved.
- **Rooms**: one variable per dictionary. `sessions[c] = {}` and `roomOrder[r] = << >>`
  stand for absent keys; `sessionOrder` is the insertion order of `CLIENT_SESSIONS`,
  which `get_client_from_sid` depends on; `stats` is the last `room_stats` of each room.
  Actions: `Connect`, `Disconnect`, `Leave`, `Join`, and the early ends of a join
  (`JoinUntracked` without a client id, `JoinWithoutRoom`, `JoinAborted` when `int()`
  raises on the metadata). Eviction, purge and broadcasts are inside the handlers.
- **Membership**: the abstract specification of the tracker: clients appear, enter a
  room (dropping at most one from it), or exit. `Rooms` implements it
  (`ImplementsMembership`, checked and proved), and the next two modules are built on it,
  so the sockets need not be explored again.
- **LanProbe**: `lastProbe` is `ROOM_LAST_PROBE`, `pending` the open probes, `announced`
  the last `room_state_changed`. `Trigger` is `trigger_lan_probe_if_ready`, called by
  `JoinRoom`, `Detach` (leave and disconnect) and `PeerNetworkUpdate`; `LanProbeResult`
  accepts what the code accepts. `probed` is a history variable.
- **Transfer**: adds contexts, timers and the handlers in flight. `FileAvailable` /
  `FileOffered` and `FileNeedRelay` / `RelayNeeded` are the halves before and after the
  wake; `waking` counts the suspended handlers by what they have read. `WakeRaises` is
  the SQLite error that ends a handler there. `TransferOnce` adds a history for one claim.
- **Push**: rows of `fcm_tokens`, the token each device has at FCM (external), and the
  tokens each fan-out has still to send to. A registration may carry an older token,
  since the message travels. It is what `Delivery` refines.
- **Delivery**: the relay of texts and file events. It extends `Push` with the sessions
  that hear a room (`held`, `heard`; a join may evict anybody, `Rooms` has the rule), the
  text each fan-out sends (`message`), and what has come to the devices (`got`).
  `ClipboardPush`, `FileEvent` and `RelayMessage` are the calls, cut at the fan-out;
  `Delivered`, `Lost`, `PrunesToken` and `Raises` are the outcomes of one send.
  `owed` is a history variable. A device that received a 500 may try again.
- **PipelineRelay**: one key; each upload has its buffer (`queue`, `bytes`, `space`,
  `reader`, `dropped` are the fields of `PipelineBuffer`), `registered` is what
  `_get_locked` finds, `waiter`/`fired` are the shared events of `wait_for`. A HEAD
  request is a download whose generator is never started.
- **LocalStorage**: open files are told apart from names, so a rename or a removal does
  not stop a writer. `Crash` and `FinishUnrecorded` stop the server in the upload.
- **History**: `events` and `clients` are the two tables, `active` is
  `_ACTIVE_SID_EVENTS`, `lookup` the background task of each event, `cache` the cache of
  `geo_service.py`. `JoinUnlisted` and `DisconnectUnclosed` are the SQLite errors that the
  handlers log and swallow, `Restart` ends the process. A country is named after the
  address it is of.
- **Settings**: `environ` is what the process started with, `override` is
  `data/settings.env`, `loaded` what each form of the dashboard was filled with. `Save`
  posts every field, as the form does, and may stop between two keys.
- **RelayFiles**: extends it with the files and what removes them: `worker` is
  `_cleanup_worker`, `run` the two callers of `empty_r2_bucket`, with its page cursor and
  its batch of keys. `FailRun` is a call of the object store that raises. `UploadAuth`
  gives no URL when R2 has no bucket name, since boto3 signs none and the answer is a 500.

An operator whose comment says *mutant* is not used by the specification: it is a
plausible bug, kept beside the definition it would replace, that the property named in
`PROJECT.json` detects.

## 3. Runs

| Run | Instance | Shows |
|---|---|---|
| `rooms` | 3 client ids, 3 sockets (one client with two sockets, one socket with two ids), 2 rooms of 2 | agreement, capacity, announcements, eviction order, refinement of `Membership` |
| `lan` | 1 PC, 2 apps, 2 rooms of 2 | announcements current, every pair probed, departures withdraw a verdict |
| `lan_confirmed` | the same | **violated**: PAIR_SAME_LAN on the probe of a former pair |
| `transfer` | PC and app, 2 rooms, 1 transfer, an offer and a request in flight, 2 timers | one command sequence per offer, always a timer, no wait against the verdict of the room, always a decision |
| `transfer_once` | the same | **violated**: a repeated or late offer triggers commands again |
| `delivery` | 2 devices with a socket and 2 tokens each, 1 room, 2 types, 1 fan-out, 2 calls of a text with an id, one without and a file event | one device per type, no valid registration pruned, a text is seen once, nobody is forgotten |
| `pipeline` | 2 uploads of 3 chunks, 2 downloads, buffer of 1 chunk | no lost wake-up, one reader, prefix bodies, who misses a buffer or its end, release of blocked uploads |
| `storage` | 3 uploads of 2 chunks | torn files need overlapping uploads, nothing stays for ever |
| `storage_torn` | the same | **violated**: a reader sees a half-written file |
| `history` | 3 sockets, 2 clients, 2 public addresses and a private one, 3 events | a disconnect closes its own event, open events are accounted for, counts and countries agree |
| `relay_files` | 3 settings in 1 form, 1 save, 2 restarts, 2 files in 3 places, pages of up to 2, 1 failure | a save keeps what was not edited, an emptying empties, files are purged |
| `purging` | nothing edited, 1 restart | **violated**: the hourly worker runs when R2 is set up |

**Bounds.** Rooms of two with three clients are the smallest in which an eviction
happens, and in which the room left by a move still has a member. One socket of two ids
and one client of two sockets are the two ways in which sids and clients differ. A
transfer interacts with others only through the room's verdict, so one transfer, with
an offer and a request of the receiver in flight and two timers, has the races; a further
offer waits until a timer slot is free (`MaxTimers`) and a further handler until the one
of its event has gone on (`MaxWaking`), which costs nothing but a sender that leaves
meanwhile, since only the end of a handler changes a known transfer. In the pipeline a buffer of one chunk makes every second chunk wait, and
three chunks are needed for a client that leaves with a chunk in hand, one in the buffer
and the producer blocked. Three uploads in storage give a failed or crashed one, a retry,
and one that overlaps it. `MaxRefresh` bounds the tokens of a device; two are the
old one and the new one. In `delivery` a second call gives a retry after a 500, a text
between registrations, or a text while the fan-out of the first is under way; one fan-out
runs at a time (`Fanouts`), so two of them pruning the same rows is left to the theorems,
which are for any number. Three events in `history` give a join, a join again and one
of another socket. In `relay_files` keys collected from a page of one and a page of two
exceed `Limit`, so batches end inside pages; the second restart takes back what a form
loaded before the first one has saved.
The largest instances are `pipeline` (1,208,312 distinct states, two minutes), `history`
(863,290), `delivery` (336,824) and `relay_files` (308,692).
Deadlock checking is off where every upload, download or setting of the instance can be
used up (`pipeline`, `storage`, `relay_files`).

**Symmetry** is used for rooms, apps, sockets and addresses, in runs without liveness
properties.

**Fairness.** `Transfer`: `WF(TimerEnds)`, since `socketio.sleep` returns. `PipelineRelay`:
a producer that was woken runs, and a client that downloads takes its chunks, leaves, or
runs into the idle timeout. A HEAD request is not assumed to go away, and
`BlockedIsReleased` excludes the buffers it holds: such an upload really stays blocked.
`LocalStorage`: time passes and the cleanup worker wakes up every hour. `RelayFiles`: the
same, and a call of the worker to the object store returns, be it with an error. Nothing
is assumed of devices, FCM or ip-api.com.

**Violated claims.** Each `violation` run checks one sentence of a document, docstring or
comment that the code does not live up to; `PROJECT.json` quotes it. Other disagreements
seen while modelling, without a run of their own:
- A socket that joins under two client ids stays a session of the second after it closes
  (RELAY_SERVER_API.md:150 says the sid is removed); `GhostsNeedTwoIds` states what holds.
- `on_client_ping` (SE:166) answers `server_pong` whenever the client is in a room, also
  to a socket of it that hears nothing from that room, which its comment excludes.
- `wait_for` of the pipeline promises a wait up to `timeout_s` for a registration, but a
  download that shares the event of one that has timed out is not woken;
  `MissedOnlyIfShared` states what holds.
- fcm_registry.py:65 says that an ambiguous type displaces nobody, but a join registers a
  device without a type as `unknown`, which displaces the others of that type;
  `OneDevicePerType` states what holds.
- A message from a socket that is not tracked any more (evicted) has no sender, so its
  author gets its own text through FCM (SE:372).
- README.md:157 says that the purge removes all relay files; with local storage it removes
  those whose upload is an hour old.
- dashboard.html:168 and README.md:159 tell the user to restart after a save; a form that
  was loaded before takes the previous values back when it is saved (`UneditedIsSeen`
  states what holds).
- README.md:22 says that the oldest device is evicted; `EvictionFollowsOrder` states what
  the code does, which prefers to evict devices that are not PCs.
- RELAY_SERVER_API.md:279 says that an offer in a room that is PAIR_DIFF_LAN goes to the
  relay at once. It does by the room that the offer names: a transfer id of this room,
  offered again from another one, waits for a LAN all the same (SE:462, SC:331). So does a
  transfer that is waiting when a join, a departure or a network update turns the room
  without a probe (SC:599), until its timer ends. `NoWaitAgainstVerdict` states that these
  two are all.
- A download attached to an upload that fails ends as a short 200 answer, although
  `pipeline_relay.py:5-9` lists a failed PUT among the fallbacks to the file.

## 4. Proofs

Every invariant and action property of a passing run, and the refinements, are theorems:
TLAPS proves them for every value of the constants. For each module: what is proved, and
the inductive invariant, where the property is not inductive itself.

- `RoomsProofs`, for any number of devices, sockets, rooms and any capacity: `TypeOK`,
  `ListsAgree`, `RoomCapacity`, `StatsCurrent`, `GhostsNeedTwoIds`,
  `OnlyEvictionDropsSeveral`, `EvictionFollowsOrder` and `ImplementsMembership`.
  `RoomCapacity` is not inductive: the
  eviction loop restores the capacity only because the room's *list* exceeds it by at
  most the client that entered, and the list bounds the members only because it has no
  repetitions and agrees with `CLIENT_ROOMS`. Hence
  `IInv == TypeOK /\ ListsAgree /\ LenBound`, with `LenBound` the capacity of the lists.
  The refinement maps `online` to the clients with a session; each handler is `Enter`,
  `Exit`, `Appear` or a stutter.
  `RoomCapacity` has no run of its own: `ImplementsMembership` implies it.
  The module begins with what a list comprehension returns (`KeepProperties`, `KeepAll`,
  `KeepInjective`, and `KeepFirst`: its first element is the first that passes, which is
  why the oldest of a class is evicted), by induction on the length of the list through
  `NatSetInduction`. That is derived from the well-foundedness of sets of naturals, since
  no theorem with an operator parameter can be instantiated.
- `LanProofs`: `TypeOK`, `AnnouncedCurrent`, `PairIsProbed` and
  `DepartureWithdrawsVerdict`, for any number of devices and rooms. `AnnouncedCurrent`
  is inductive with the types: a handler changes members or verdict only of the rooms it
  announces. The other two are not: a move clears the verdict of the room left without
  probing it, which leaves no unasked pair only because no more than one client stays
  behind, and an entry evicts nobody unless the newcomer is really new. Both need
  `RoomsOfTwo`, that a room has at most two members.
- `TransferProofs`: `TransferTypeOK`, `CommandsTellStatus`, `WaitingHasTimer` and
  `NoWaitAgainstVerdict`, for any number of transfers, handlers in flight and timers. The
  inductive invariant adds `OfferedIsKnown`: a `file_available` handler that waits for FCM
  finds its context when it goes on, since contexts are never removed. The lemmas say what
  each command (`InstructUpload`, `InstructFinish`, `Reopen`) does to one transfer and
  leaves of the others; each handler is then one or none of these. `NoWaitAgainstVerdict`
  has a lemma per handler on top: an offer that resumes reads the room it names at that
  moment, and the failure of a probe decides every transfer of its room, so what is left
  is the room that turns without an answer and the id of another room.
- `DeliveryProofs`: first `TypeOK`, `OneDevicePerType` and `OnlyDisplacementDrops` of
  `Push`, from lemmas on what registering and pruning do to the rows. Every step of
  `Delivery` is a step or a stutter of `Push` (`ImplementsPush`), so they carry over.
  Then `DeliveryTypeOK`, `NobodyForgotten` and `AgainOnlyIfRetried`, for any devices, texts
  and overlapping fan-outs. `ForgetInv` adds to `NobodyForgotten` that a row holds a token
  of its own client, without which pruning one device's token could take another's turn,
  and that only devices are owed. `AgainOnlyIfRetried` is about the copies that have come;
  the ids of the copies on their way count as well. `CopiesInv` says that a text that was
  not sent has no copy, that one with an id of its own has no other, and that the copies of
  one none of whose calls has failed, come or on their way, have one id (`IdsInv`).
- `PipelineProofs`: `TypeOK`, `ReaderIsHeld`, `NoLostWakeup`, `BodyIsPrefix`,
  `MissedOnlyIfShared` and `DrainedByAnother`, for any number of uploads and downloads and
  any sizes of body and buffer. That a body has no gap depends on what is in the
  queue: `ContentsInv` says that a buffer with a reader holds the chunks after those its
  download has, then the sentinel, that one without a reader holds the body from its first
  chunk, or is abandoned to the disk, and that otherwise the upload has ended and another
  download had the chunks. `ProducerInv` ties `space` to the reader and the bytes, and
  `WaitersInv` the events of `wait_for` to the registry.
- `LocalStorageProofs`: `TypeOK` and `TornNeedsOverlap`, for any number of uploads and
  chunks. `StorageInv` adds which files the names can stand for (`NamesInv`), and that
  without an overlap one upload at most is running, that it writes to a file that is not the
  published one, and that this file holds what the upload has read so far (`AloneInv`).
- `HistoryProofs`: `TypeOK`, `ActiveIsOwnEvent`, `OpenIsAccountedFor`, `SessionsCounted`
  and `CountryWasLookedUp`, for any number of sockets, clients, addresses and events. The
  invariant `HistoryInv` has three parts: `EventsInv` for what is remembered and open;
  `RowsInv` for the rows, with what the cache and the lookups know, since an answer that
  was cached for another client has to be one of this address; and `AsksPublic`, that
  only lookups of public addresses wait for an answer.
- `RelayFilesProofs`: `UneditedIsSeen`, for any keys, values, forms and places where a save
  breaks off, from the types of the settings; `TypeOK` and `EmptiedAll`, for any files,
  buckets and sizes of pages and batches. `RunInv` says of an emptying that what it found
  and is still there is in its bucket, and is collected in its batch or lies behind its
  cursor, unless the last page was read. A page moves the cursor past its last file, so it
  must be shown that a page has one, and that what is not on it comes after it
  (`PageHasLast`, `RestIsAfter`): this counts the files before each file, and needs no
  bound on how many there are. `RelayInv` also says that a worker runs only where
  `WorkerStarts` holds, since it never looks at the bucket's name again.

The assumptions are those named in the modules (`ConstantsAssumption`, `LanAssumption`,
`TransferAssumption`, `PushAssumption`, `DeliveryAssumption`, `HistoryAssumption`,
`RowAssumption`, `PipelineAssumption`, `StorageAssumption`, `SettingsAssumption`,
`RelayAssumption`), which TLC evaluates in the
passing runs. `LanAssumption` fixes the default capacity of two.
`Rooms` assumes finitely many client ids, for the cardinalities. `SettingsAssumption` lets
the environment and the saved file hold only what can be typed, nothing, or an empty
value, and keeps a mask apart from every value.

Only model-checked: the liveness properties `WaitingIsDecided`, `BlockedIsReleased`,
`PartIsSwept`, `PublishedIsPurged` and `FilesArePurged`, since proofs under fairness need
`ENABLED`, which the installed provers do not handle, and the four violated claims. The type
invariants of `LanProbe` and `Push` are conjuncts of those of `Transfer` and `Delivery`,
and checked there.

## 5. Not modelled, and what is next

Not modelled:
- Login and pages: one comparison with a hash that is written at the first start; the
  pages render the state of the other parts.
- Frontend and packaging: no protocol of several steps, but for the settings form.
- Calls without effect on state: `get_local_storage_usage`, `get_r2_bucket_usage`, the
  queries of the history page, `client_ping`, the activity log.

Abstracted: of `room_state_changed` the list of peers, to which SC:440 adds the devices
that are offline and have an FCM token (only the state is modelled, and a join announces
before it registers its token, SE:255); of `delete_objects` the errors of single objects,
which r2_service.py:45-54 does not look at, so `EmptiedAll` rests on a call that raises or
deletes all it is given; names, time stamps, wording, latencies, probe ids of one pair, whom a
transfer command is addressed to, `FLASK_DEBUG`, and in the pipeline what overlapping
uploads do to the file (`LocalStorage` has it). A device is assumed to report one type in
every join in `LanProbe`; `Rooms` and `Push` do not assume it.

Known and without a property, since nothing in the code or its documents promises
otherwise: `PENDING_LAN_PROBES` (SC:613) and `TRANSFER_CONTEXTS` (SC:347) are never
cleaned; a command to a sender that is offline is lost although the status says that it
was requested (SC:374); a registry that raises in the wake of a file leaves its transfer
without a timer (SE:460); a download ends as a short 200 when its upload fails (route.py:262).

Next: what the proofs leave to TLC is liveness. Of it, the safety halves can still be
stated and proved, that is, a variant that every fair step decreases: the chunks a blocked
upload waits for (`BlockedIsReleased`), the files before the cursor (`FilesArePurged`), and
the timer of a waiting transfer (`WaitingIsDecided`, for which `WaitingHasTimer` is the
first part). And the joins of `Delivery`, which may evict anybody, can be shown to allow
the joins of `Rooms`, as `Membership` does for `LanProbe`.
