------------------------------ MODULE Transfer ------------------------------
(***************************************************************************)
(* File transfers, LAN first: the contexts of TRANSFER_CONTEXTS, the       *)
(* handlers of file_available, file_sync_completed and file_need_relay, and *)
(* the decision timers.  They run on the rooms and verdicts of LanProbe.   *)
(*                                                                         *)
(* file_available and file_need_relay wake the peer through FCM between    *)
(* reading and changing state.  The send waits for the network, so other   *)
(* handlers run in between and each of the two is a begin and an end step. *)
(* Who a command is addressed to is left out: it goes to the sessions that *)
(* the first sender has at the time, if any.                               *)
(***************************************************************************)
EXTENDS LanProbe, Sequences

LOCAL INSTANCE Functions

CONSTANTS
  Transfers,   \* transfer ids, chosen by the sending device
  MaxWaking,   \* bound: the handlers in flight of file_available, and of file_need_relay
  MaxTimers,   \* bound: the timers of one transfer that sleep
  NoContext    \* TRANSFER_CONTEXTS.get(id) of an unknown id

Undecided == {"created", "waiting_result"}
Fallback == {"fallback_requested", "fallback_timeout"}
Statuses == Undecided \cup Fallback \cup {"lan_success"}

ASSUME TransferAssumption ==
  /\ MaxWaking \in Nat \ {0} /\ MaxTimers \in Nat \ {0}
  /\ NoContext \notin [status : Statuses, room : Rooms]

VARIABLES
  contexts,    \* TRANSFER_CONTEXTS; contexts are never removed
  waking,      \* the number of handlers that wait for FCM, by what each has read
  timers,      \* the transfer_decision_timeout_worker tasks that sleep, by transfer
  commands     \* history: the transfer_commands since the transfer was last opened

Handlers == [event : {"file_available", "file_need_relay"}, id : Transfers, room : Rooms]
transferVars == <<contexts, waking, timers, commands>>
vars == <<members, lan, transferVars>>

TransferTypeOK ==
  /\ TypeOK
  /\ contexts \in [Transfers -> [status : Statuses, room : Rooms] \cup {NoContext}]
  /\ waking \in [Handlers -> Nat]
  /\ timers \in [Transfers -> 0..MaxTimers]
  /\ commands \in [Transfers -> Seq({"upload_relay", "finish"})]

Init ==
  /\ LanInit
  /\ contexts = [id \in Transfers |-> NoContext]
  /\ waking = [h \in Handlers |-> 0]
  /\ timers = [id \in Transfers |-> 0]
  /\ commands = [id \in Transfers |-> << >>]

------------------------------------------------------------------------------
Known(id) == contexts[id] # NoContext
StatusOf(id) == IF Known(id) THEN contexts[id].status ELSE "none"
InRoom(id, r) == Known(id) /\ contexts[id].room = r

\* instruct_upload_relay for each of the transfers ids: one that fell back or
\* finished is left alone.
UploadUnlessDone(ids, status) ==   \* mutant: a timeout may be followed by a second request
  LET asked == {id \in ids : StatusOf(id) \notin {"lan_success", "fallback_requested"}}
  IN  /\ contexts' = [id \in Transfers |-> IF id \in asked
                        THEN [contexts[id] EXCEPT !.status = status] ELSE contexts[id]]
      /\ commands' = [id \in Transfers |-> IF id \in asked
                        THEN Append(commands[id], "upload_relay") ELSE commands[id]]
InstructUpload(ids, status) ==
  LET asked == {id \in ids : StatusOf(id) \in Undecided}
  IN  /\ contexts' = [id \in Transfers |-> IF id \in asked
                        THEN [contexts[id] EXCEPT !.status = status] ELSE contexts[id]]
      /\ commands' = [id \in Transfers |-> IF id \in asked
                        THEN Append(commands[id], "upload_relay") ELSE commands[id]]

\* instruct_finish.
InstructFinish(id) ==
  IF StatusOf(id) = "lan_success" THEN UNCHANGED <<contexts, commands>>
  ELSE /\ contexts' = [contexts EXCEPT ![id].status = "lan_success"]
       /\ commands' = [commands EXCEPT ![id] = Append(@, "finish")]

\* The transfer waits for a result: the status is set whatever it was.
ReopenOffered(id) ==            \* mutant: the status no handler expects
  /\ contexts' = [contexts EXCEPT ![id].status = "offered"]
  /\ commands' = [commands EXCEPT ![id] = << >>]
Reopen(id) ==
  /\ contexts' = [contexts EXCEPT ![id].status = "waiting_result"]
  /\ commands' = [commands EXCEPT ![id] = << >>]

\* is_sender_authorized_for_room.
Authorized(c, r) == c \in online /\ roomOf[c] = r

\* A handler is suspended, with what it has read, or goes on.
Suspend(h) ==
  /\ SumFunctionOnSet(waking, {g \in Handlers : g.event = h.event}) < MaxWaking
  /\ waking' = [waking EXCEPT ![h] = @ + 1]
Resume(h) == waking[h] > 0 /\ waking' = [waking EXCEPT ![h] = @ - 1]

------------------------------------------------------------------------------
\* on file_available, up to the wake: get_or_create_transfer_context.
FileAvailable(c, r, id) ==
  /\ Authorized(c, r)
  /\ Suspend([event |-> "file_available", id |-> id, room |-> r])
  /\ contexts' = IF Known(id) THEN contexts
                 ELSE [contexts EXCEPT ![id] = [status |-> "created", room |-> r]]
  /\ UNCHANGED <<members, lan, timers, commands>>

\* on file_available, after the wake: the state of the room that was named is
\* read now, also for a transfer of another room.
FirstToldDiffLan(h) ==          \* mutant: a repeated offer is not compared with the verdict
  RoomState(h.room) = "PAIR_DIFF_LAN" /\ StatusOf(h.id) = "created"
OfferedToDiffLan(h) == RoomState(h.room) = "PAIR_DIFF_LAN"
NewTimer(id) == IF StatusOf(id) = "created" THEN 1 ELSE 0  \* mutant: one timer per context
StartTimer(id) == 1
FileOffered(h) ==
  /\ h.event = "file_available" /\ Resume(h)
  /\ IF OfferedToDiffLan(h)
     THEN InstructUpload({h.id}, "fallback_requested") /\ UNCHANGED timers
     ELSE /\ timers[h.id] < MaxTimers
          /\ Reopen(h.id)
          /\ timers' = [timers EXCEPT ![h.id] = @ + StartTimer(h.id)]
  /\ UNCHANGED <<members, lan>>

\* on file_need_relay, up to the wake and after it.  Only the second part asks
\* whether the transfer exists and belongs to the room.  The status follows from
\* the reason, which the receiver chooses.
FileNeedRelay(c, r, id) ==
  /\ Authorized(c, r)
  /\ Suspend([event |-> "file_need_relay", id |-> id, room |-> r])
  /\ UNCHANGED <<members, lan, contexts, timers, commands>>

RelayNeeded(h) ==
  /\ h.event = "file_need_relay" /\ Resume(h)
  /\ \E status \in Fallback :
       InstructUpload({h.id} \cap {id \in Transfers : InRoom(id, h.room)}, status)
  /\ UNCHANGED <<members, lan, timers>>

\* The token registry cannot be read (sqlite3.Error): the handler ends there.
WakeRaises(h) == Resume(h) /\ UNCHANGED <<members, lan, contexts, timers, commands>>

\* on file_sync_completed.
FileSyncCompleted(c, r, id) ==
  /\ Authorized(c, r) /\ InRoom(id, r)
  /\ InstructFinish(id)
  /\ UNCHANGED <<members, lan, waking, timers>>

\* transfer_decision_timeout_worker, when its sleep ends.
NeverOffered(id) == StatusOf(id) = "created"     \* mutant: the status before the offer
StillWaiting(id) == StatusOf(id) = "waiting_result"
TimerEnds(id) ==
  /\ timers[id] > 0
  /\ timers' = [timers EXCEPT ![id] = @ - 1]
  /\ IF StillWaiting(id) THEN InstructUpload({id}, "fallback_timeout")
                         ELSE UNCHANGED <<contexts, commands>>
  /\ UNCHANGED <<members, lan, waking>>

\* on lan_probe_result: a failure decides every open transfer of the room.
ProbeResult(p, verdict) ==
  /\ LanProbeResult(p, verdict)
  /\ InstructUpload(IF verdict = "fail" THEN {id \in Transfers : InRoom(id, p.room)} ELSE {},
                    "fallback_requested")
  /\ UNCHANGED <<waking, timers>>

Next ==
  \/ MembershipStep /\ UNCHANGED transferVars
  \/ \E p \in pending, verdict \in {"ok", "fail"} : ProbeResult(p, verdict)
  \/ \E c \in Clients, r \in Rooms, id \in Transfers :
       FileSyncCompleted(c, r, id) \/ FileAvailable(c, r, id) \/ FileNeedRelay(c, r, id)
  \/ \E h \in Handlers : FileOffered(h) \/ RelayNeeded(h) \/ WakeRaises(h)
  \/ \E id \in Transfers : TimerEnds(id)

\* A sleep of socketio.sleep ends.
Spec == Init /\ [][Next]_vars /\ \A id \in Transfers : WF_vars(TimerEnds(id))

------------------------------------------------------------------------------
\* Between two openings of a transfer its sender gets at most one upload_relay
\* and one finish, never an upload after the finish, and the status is that of
\* the last command, whichever of the timer, the probe, the receiver and the
\* offer comes first.
CommandsTellStatus ==
  \A id \in Transfers :
    \/ StatusOf(id) \in Undecided \cup {"none"} /\ commands[id] = << >>
    \/ StatusOf(id) \in Fallback /\ commands[id] = <<"upload_relay">>
    \/ StatusOf(id) = "lan_success" /\ commands[id] \in {<<"finish">>, <<"upload_relay", "finish">>}

\* A transfer that waits for a result has a timer, also when it was decided
\* and offered again, or offered twice at once.
WaitingHasTimer == \A id \in Transfers : StatusOf(id) = "waiting_result" => timers[id] > 0

\* RELAY_SERVER_API.md, 8.2.1: 'If room state is PAIR_DIFF_LAN: immediately issues
\* transfer_command(upload_relay)'.  A transfer comes to wait for the LAN in a room
\* that is told it has none in two ways only: the room turns under it by a join, a
\* departure or a network update, or its id is offered again from another room,
\* whose state is read instead.  Neither the answer of a probe, nor an offer that
\* sleeps while the verdict is given, nor a repeated one leaves it waiting.
WaitsAgainstVerdict(id) ==
  StatusOf(id) = "waiting_result" /\ RoomState(contexts[id].room) = "PAIR_DIFF_LAN"
OfferedElsewhere(id) ==
  \E h \in Handlers : h.id = id /\ h.room # contexts[id].room /\ FileOffered(h)
RoomTurns(id) ==
  MembershipStep /\ UNCHANGED transferVars /\ RoomState(contexts[id].room) # "PAIR_DIFF_LAN"
NoWaitAgainstVerdict ==
  [][\A id \in Transfers : WaitsAgainstVerdict(id)' /\ ~WaitsAgainstVerdict(id)
                             => RoomTurns(id) \/ OfferedElsewhere(id)]_vars

\* No transfer waits for ever: the LAN confirms it or the relay is asked for.
WaitingIsDecided == \A id \in Transfers : StatusOf(id) = "waiting_result" ~> StatusOf(id) # "waiting_result"

=============================================================================
