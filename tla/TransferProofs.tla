--------------------------- MODULE TransferProofs ---------------------------
(***************************************************************************)
(* Proofs about Transfer, for any clients, rooms and transfers and any     *)
(* number of handlers and timers; LanProofs has the rooms below them.      *)
(*                                                                         *)
(* TransferTypeOK, CommandsTellStatus and WaitingHasTimer are inductive    *)
(* together.  What the handlers share are the commands, so the lemmas say  *)
(* what each command does to a transfer; the steps of the handlers follow. *)
(***************************************************************************)
EXTENDS Transfer, LanProofs, SequenceTheorems

(***************************************************************************)
(* The inductive invariant: a file_available handler that waits for FCM    *)
(* has made its context, so that the end of the handler finds one.         *)
(***************************************************************************)
OfferedIsKnown ==
  \A h \in Handlers : h.event = "file_available" /\ waking[h] > 0 => Known(h.id)

TransferInv ==
  TransferTypeOK /\ CommandsTellStatus /\ WaitingHasTimer /\ OfferedIsKnown

\* The part of it that the commands change.
Contexts == [Transfers -> [status : Statuses, room : Rooms] \cup {NoContext}]
Consistent ==
  /\ contexts \in Contexts
  /\ commands \in [Transfers -> Seq({"upload_relay", "finish"})]
  /\ CommandsTellStatus

\* A context has a status, and no other than its own.
LEMMA StatusFacts ==
  ASSUME contexts \in Contexts, NEW id \in Transfers
  PROVE  /\ Known(id) => /\ contexts[id] \in [status : Statuses, room : Rooms]
                         /\ StatusOf(id) = contexts[id].status
                         /\ StatusOf(id) \in Statuses
         /\ ~Known(id) <=> StatusOf(id) = "none"
  BY DEF Contexts, Known, StatusOf, Statuses, Undecided, Fallback

LEMMA IsContext ==
  \A c \in [status : Statuses, room : Rooms] : c # NoContext
  BY TransferAssumption

\* The histories that CommandsTellStatus allows are sequences of commands.
LEMMA OneCommand == << >> \in Seq({"upload_relay", "finish"}) /\ <<"upload_relay">> \in Seq({"upload_relay", "finish"})
  OBVIOUS

\* instruct_upload_relay leaves a transfer alone, or ends its wait.
LEMMA InstructUploadKeeps ==
  ASSUME Consistent, NEW ids, NEW status \in Fallback, InstructUpload(ids, status)
  PROVE  /\ Consistent'
         /\ \A id \in Transfers :
              /\ Known(id)' <=> Known(id)
              /\ StatusOf(id)' \in {StatusOf(id), status}
              /\ id \in ids => StatusOf(id)' # "waiting_result"
<1> DEFINE asked == {id \in ids : StatusOf(id) \in Undecided}
<1>1. ASSUME NEW id \in Transfers, id \notin asked
      PROVE  contexts'[id] = contexts[id] /\ commands'[id] = commands[id]
  BY <1>1 DEF InstructUpload
<1>2. ASSUME NEW id \in Transfers, id \in asked
      PROVE  /\ contexts[id] \in [status : Statuses, room : Rooms]
             /\ contexts'[id] = [contexts[id] EXCEPT !.status = status]
             /\ commands[id] = << >>
             /\ commands'[id] = Append(<< >>, "upload_relay")
  <2>1. StatusOf(id) \in Undecided /\ Known(id)
    BY <1>2 DEF StatusOf, Undecided
  <2>2. commands[id] = << >>
    BY <1>2, <2>1 DEF Consistent, CommandsTellStatus, Undecided, Fallback
  <2> QED
    BY <1>2, <2>1, <2>2, StatusFacts DEF InstructUpload, Consistent
<1>3. Append(<< >>, "upload_relay") = <<"upload_relay">>
  OBVIOUS
<1>4. status \in Statuses
  BY DEF Statuses
<1>5. ASSUME NEW id \in Transfers, id \in asked
      PROVE  /\ contexts'[id] \in [status : Statuses, room : Rooms]
             /\ contexts'[id].status = status
             /\ commands'[id] = <<"upload_relay">>
  BY <1>2, <1>3, <1>4, <1>5
<1>6. contexts' \in Contexts
  <2>1. ASSUME NEW id \in Transfers PROVE contexts'[id] \in [status : Statuses, room : Rooms] \cup {NoContext}
    BY <1>1, <1>5 DEF Consistent, Contexts
  <2> QED
    BY <2>1 DEF InstructUpload, Contexts
<1>7. commands' \in [Transfers -> Seq({"upload_relay", "finish"})]
  <2>1. ASSUME NEW id \in Transfers PROVE commands'[id] \in Seq({"upload_relay", "finish"})
    <3>1. CASE id \in asked
      BY <1>5, <3>1, OneCommand
    <3>2. CASE id \notin asked
      BY <1>1, <3>2 DEF Consistent
    <3> QED
      BY <3>1, <3>2
  <2> QED
    BY <2>1 DEF InstructUpload
<1>8. ASSUME NEW id \in Transfers
      PROVE  /\ Known(id)' <=> Known(id)
             /\ id \notin asked => StatusOf(id)' = StatusOf(id)
             /\ id \in asked => StatusOf(id)' = status
  BY <1>1, <1>2, <1>5, IsContext DEF Known, StatusOf
<1>9. CommandsTellStatus'
  BY <1>1, <1>5, <1>8 DEF Consistent, CommandsTellStatus
<1>10. Undecided = {"created", "waiting_result"} /\ status # "waiting_result"
  BY DEF Undecided, Fallback
<1> QED
  BY <1>6, <1>7, <1>8, <1>9, <1>10 DEF Consistent


\* The commands and the context of one transfer at a time change.
LEMMA ChangeOne ==
  ASSUME Consistent, NEW id \in Transfers, NEW ctx \in [status : Statuses, room : Rooms],
         NEW cmds \in Seq({"upload_relay", "finish"}),
         contexts' = [contexts EXCEPT ![id] = ctx], commands' = [commands EXCEPT ![id] = cmds],
         \/ ctx.status \in Undecided /\ cmds = << >>
         \/ ctx.status = "lan_success" /\ cmds \in {<<"finish">>, <<"upload_relay", "finish">>}
  PROVE  /\ Consistent'
         /\ Known(id)' /\ StatusOf(id)' = ctx.status
         /\ \A x \in Transfers \ {id} : (Known(x)' <=> Known(x)) /\ StatusOf(x)' = StatusOf(x)
<1>1. contexts' \in Contexts /\ commands' \in [Transfers -> Seq({"upload_relay", "finish"})]
  BY DEF Consistent, Contexts
<1>2. contexts'[id] = ctx /\ commands'[id] = cmds
  BY DEF Consistent, Contexts
<1>3. \A x \in Transfers \ {id} : contexts'[x] = contexts[x] /\ commands'[x] = commands[x]
  BY DEF Consistent, Contexts
<1>4. Known(id)' /\ StatusOf(id)' = ctx.status
  BY <1>2, IsContext DEF Known, StatusOf
<1>5. \A x \in Transfers \ {id} : (Known(x)' <=> Known(x)) /\ StatusOf(x)' = StatusOf(x)
  BY <1>3 DEF Known, StatusOf
<1>6. CommandsTellStatus'
  BY <1>2, <1>3, <1>4, <1>5 DEF Consistent, CommandsTellStatus
<1> QED
  BY <1>1, <1>4, <1>5, <1>6 DEF Consistent

\* The finish that follows an upload.
LEMMA FinishAfterUpload == Append(<<"upload_relay">>, "finish") = <<"upload_relay", "finish">>
<1> DEFINE s == Append(<<"upload_relay">>, "finish")
           t == <<"upload_relay", "finish">>
<1>1. s \in Seq({"upload_relay", "finish"}) /\ t \in Seq({"upload_relay", "finish"})
  OBVIOUS
<1>2. Len(s) = Len(t)
  OBVIOUS
<1>3. \A i \in 1..Len(s) : s[i] = t[i]
  <2>1. Len(s) = 2 /\ s[1] = t[1] /\ s[2] = t[2]
    OBVIOUS
  <2>2. \A i \in 1..2 : i = 1 \/ i = 2
    OBVIOUS
  <2> HIDE DEF s, t
  <2> QED
    BY <2>1, <2>2
<1> HIDE DEF s, t
<1>4. s = t
  BY <1>1, <1>2, <1>3, SeqEqual
<1> QED
  BY <1>4 DEF s, t

\* instruct_finish of a transfer that exists.
LEMMA InstructFinishKeeps ==
  ASSUME Consistent, NEW id \in Transfers, Known(id), InstructFinish(id)
  PROVE  /\ Consistent'
         /\ Known(id)' /\ StatusOf(id)' = "lan_success"
         /\ \A x \in Transfers \ {id} : (Known(x)' <=> Known(x)) /\ StatusOf(x)' = StatusOf(x)
<1>1. CASE StatusOf(id) = "lan_success"
  BY <1>1 DEF InstructFinish, Consistent, CommandsTellStatus, StatusOf, Known, Contexts
<1>2. CASE StatusOf(id) # "lan_success"
  <2> DEFINE ctx == [contexts[id] EXCEPT !.status = "lan_success"]
             cmds == Append(commands[id], "finish")
  <2>1. contexts[id] \in [status : Statuses, room : Rooms]
    BY StatusFacts DEF Consistent
  <2>2. ctx \in [status : Statuses, room : Rooms] /\ ctx.status = "lan_success"
    BY <2>1 DEF Statuses
  <2>3. commands[id] = << >> \/ commands[id] = <<"upload_relay">>
    BY <1>2, StatusFacts DEF Consistent, CommandsTellStatus
  <2>4. /\ Append(<< >>, "finish") = <<"finish">>
        /\ Append(<<"upload_relay">>, "finish") = <<"upload_relay", "finish">>
    BY FinishAfterUpload
  <2>5. cmds \in {<<"finish">>, <<"upload_relay", "finish">>}
    BY <2>3, <2>4
  <2>6. cmds \in Seq({"upload_relay", "finish"})
    <3>1. commands[id] \in Seq({"upload_relay", "finish"}) /\ "finish" \in {"upload_relay", "finish"}
      BY DEF Consistent
    <3> QED
      BY <3>1
  <2>7. contexts' = [contexts EXCEPT ![id] = ctx] /\ commands' = [commands EXCEPT ![id] = cmds]
    BY <1>2 DEF InstructFinish
  <2> HIDE DEF ctx, cmds
  <2> QED
    BY <2>2, <2>5, <2>6, <2>7, ChangeOne
<1> QED
  BY <1>1, <1>2

\* A new opening of a transfer that exists.
LEMMA ReopenKeeps ==
  ASSUME Consistent, NEW id \in Transfers, Known(id), Reopen(id)
  PROVE  /\ Consistent'
         /\ Known(id)' /\ StatusOf(id)' = "waiting_result"
         /\ \A x \in Transfers \ {id} : (Known(x)' <=> Known(x)) /\ StatusOf(x)' = StatusOf(x)
<1> DEFINE ctx == [contexts[id] EXCEPT !.status = "waiting_result"]
<1>1. contexts[id] \in [status : Statuses, room : Rooms]
  BY StatusFacts DEF Consistent
<1>2. ctx \in [status : Statuses, room : Rooms] /\ ctx.status = "waiting_result"
  BY <1>1 DEF Statuses, Undecided
<1>3. contexts' = [contexts EXCEPT ![id] = ctx] /\ commands' = [commands EXCEPT ![id] = << >>]
  BY DEF Reopen
<1> HIDE DEF ctx
<1> QED
  BY <1>2, <1>3, ChangeOne, OneCommand DEF Undecided

(***************************************************************************)
(* The steps of the handlers.                                              *)
(***************************************************************************)
Countable == waking \in [Handlers -> Nat] /\ timers \in [Transfers -> 0..MaxTimers]

LEMMA InvParts ==
  TransferInv <=> TypeOK /\ Consistent /\ Countable /\ WaitingHasTimer /\ OfferedIsKnown
  BY DEF TransferInv, TransferTypeOK, Consistent, Countable, Contexts

LEMMA InvAfter ==
  ASSUME TypeOK', Consistent', Countable', WaitingHasTimer', OfferedIsKnown'
  PROVE  TransferInv'
  BY DEF TransferInv, TransferTypeOK, Consistent, Countable, Contexts

\* No handler forgets a context.
LEMMA KnownForGood ==
  ASSUME TransferInv, \A id \in Transfers : Known(id) => Known(id)',
         waking' \in [Handlers -> Nat],
         \A h \in Handlers : waking'[h] > 0 => waking[h] > 0 \/ h.event # "file_available" \/ Known(h.id)'
  PROVE  OfferedIsKnown'
  BY DEF TransferInv, OfferedIsKnown, Handlers

LEMMA MembershipInv ==
  ASSUME TransferInv, MembershipStep, UNCHANGED transferVars
  PROVE  TransferInv'
<1>1. TypeOK'
  BY MembershipStepType DEF TransferInv, TransferTypeOK
<1> QED
  BY <1>1 DEF TransferInv, TransferTypeOK, CommandsTellStatus, WaitingHasTimer, OfferedIsKnown,
              StatusOf, Known, transferVars

LEMMA FileAvailableInv ==
  ASSUME TransferInv, NEW c \in Clients, NEW r \in Rooms, NEW id \in Transfers, FileAvailable(c, r, id)
  PROVE  TransferInv'
<1> DEFINE h == [event |-> "file_available", id |-> id, room |-> r]
           new == [status |-> "created", room |-> r]
<1>1. h \in Handlers /\ h.id = id
  BY DEF Handlers
<1>2. Countable' /\ \A x \in Handlers \ {h} : waking'[x] = waking[x]
  BY <1>1 DEF FileAvailable, Suspend, Countable, TransferInv, TransferTypeOK
<1>3. new \in [status : Statuses, room : Rooms] /\ new.status = "created"
  BY DEF Statuses, Undecided
<1>4. /\ Consistent' /\ Known(id)'
      /\ \A x \in Transfers : Known(x) => Known(x)'
      /\ \A x \in Transfers : StatusOf(x)' = "waiting_result" => StatusOf(x) = "waiting_result"
  <2>1. CASE Known(id)
    BY <2>1, InvParts DEF FileAvailable, Consistent, CommandsTellStatus, StatusOf, Known
  <2>2. CASE ~Known(id)
    <3>1. commands[id] = << >>
      BY <2>2, InvParts DEF Consistent, CommandsTellStatus, StatusOf, Fallback
    <3>2. contexts' = [contexts EXCEPT ![id] = new]
      BY <2>2 DEF FileAvailable
    <3>3. commands' = [commands EXCEPT ![id] = << >>]
      BY <3>1, InvParts DEF FileAvailable, Consistent
    <3> HIDE DEF new
    <3> QED
      BY <1>3, <3>2, <3>3, ChangeOne, OneCommand, InvParts DEF Undecided
  <2> QED
    BY <2>1, <2>2
<1>5. WaitingHasTimer' /\ TypeOK'
  BY <1>4, InvParts DEF FileAvailable, WaitingHasTimer, TypeOK, members, lan, RoomStates, Probes
<1> HIDE DEF h
<1>6. OfferedIsKnown'
  BY <1>1, <1>2, <1>4, KnownForGood DEF Countable
<1> QED
  BY <1>2, <1>4, <1>5, <1>6, InvAfter

LEMMA FileNeedRelayInv ==
  ASSUME TransferInv, NEW c \in Clients, NEW r \in Rooms, NEW id \in Transfers, FileNeedRelay(c, r, id)
  PROVE  TransferInv'
<1> DEFINE h == [event |-> "file_need_relay", id |-> id, room |-> r]
<1>1. h \in Handlers /\ h.event # "file_available"
  BY DEF Handlers
<1>2. waking' \in [Handlers -> Nat] /\ \A x \in Handlers \ {h} : waking'[x] = waking[x]
  BY <1>1, InvParts DEF FileNeedRelay, Suspend, Countable
<1>3. TypeOK' /\ Consistent' /\ WaitingHasTimer'
  BY InvParts DEF FileNeedRelay, TypeOK, members, lan, RoomStates, Probes, Consistent, CommandsTellStatus,
                  StatusOf, Known, WaitingHasTimer
<1> HIDE DEF h
<1>4. OfferedIsKnown'
  BY <1>1, <1>2, KnownForGood DEF FileNeedRelay, Known
<1> QED
  BY <1>2, <1>3, <1>4, InvParts, InvAfter DEF Countable, FileNeedRelay

LEMMA FileOfferedInv ==
  ASSUME TransferInv, NEW h \in Handlers, FileOffered(h)
  PROVE  TransferInv'
<1>1. /\ h.id \in Transfers /\ Known(h.id)
      /\ TypeOK' /\ waking' \in [Handlers -> Nat]
      /\ \A x \in Handlers : waking'[x] > 0 => waking[x] > 0
  <2>1. waking[h] > 0 /\ waking' = [waking EXCEPT ![h] = @ - 1] /\ waking \in [Handlers -> Nat]
    BY InvParts DEF FileOffered, Resume, Countable
  <2>2. waking' \in [Handlers -> Nat] /\ \A x \in Handlers : waking'[x] > 0 => waking[x] > 0
    BY <2>1
  <2>3. h.id \in Transfers /\ Known(h.id)
    BY <2>1, InvParts DEF FileOffered, OfferedIsKnown, Handlers
  <2> QED
    BY <2>2, <2>3, InvParts DEF FileOffered, TypeOK, members, lan, RoomStates, Probes
<1>2. CASE InstructUpload({h.id}, "fallback_requested") /\ UNCHANGED timers
  <2>1. /\ Consistent' /\ \A x \in Transfers : Known(x)' <=> Known(x)
        /\ \A x \in Transfers : StatusOf(x)' \in {StatusOf(x), "fallback_requested"}
    BY <1>2, InvParts, InstructUploadKeeps DEF Fallback
  <2>2. WaitingHasTimer'
    BY <1>2, <2>1, InvParts DEF WaitingHasTimer
  <2>3. OfferedIsKnown'
    BY <1>1, <2>1, KnownForGood
  <2> QED
    BY <1>1, <1>2, <2>1, <2>2, <2>3, InvParts, InvAfter DEF Countable
<1>3. CASE /\ timers[h.id] < MaxTimers
           /\ Reopen(h.id)
           /\ timers' = [timers EXCEPT ![h.id] = @ + StartTimer(h.id)]
  <2>1. /\ Consistent' /\ Known(h.id)'
        /\ \A x \in Transfers \ {h.id} : (Known(x)' <=> Known(x)) /\ StatusOf(x)' = StatusOf(x)
    BY <1>1, <1>3, InvParts, ReopenKeeps
  <2>2. /\ timers' \in [Transfers -> 0..MaxTimers] /\ timers'[h.id] > 0
        /\ \A x \in Transfers \ {h.id} : timers'[x] = timers[x]
    BY <1>1, <1>3, InvParts, TransferAssumption DEF Countable, StartTimer
  <2>3. WaitingHasTimer'
    BY <2>1, <2>2, InvParts DEF WaitingHasTimer
  <2>4. OfferedIsKnown'
    BY <1>1, <2>1, KnownForGood
  <2> QED
    BY <1>1, <2>1, <2>2, <2>3, <2>4, InvAfter DEF Countable
<1> QED
  BY <1>2, <1>3 DEF FileOffered

\* A handler that changes no transfer but by instruct_upload_relay.
LEMMA UploadInv ==
  ASSUME TransferInv, TypeOK', NEW ids, NEW status \in Fallback, InstructUpload(ids, status),
         UNCHANGED timers, waking' \in [Handlers -> Nat],
         \A x \in Handlers : waking'[x] > 0 => waking[x] > 0
  PROVE  TransferInv'
<1>1. /\ Consistent' /\ \A x \in Transfers : Known(x)' <=> Known(x)
      /\ \A x \in Transfers : StatusOf(x)' \in {StatusOf(x), status}
  BY InvParts, InstructUploadKeeps
<1>2. WaitingHasTimer'
  BY <1>1, InvParts DEF WaitingHasTimer, Fallback
<1>3. OfferedIsKnown'
  BY <1>1, KnownForGood
<1> QED
  BY <1>1, <1>2, <1>3, InvParts, InvAfter DEF Countable

LEMMA ResumeFacts ==
  ASSUME TransferInv, NEW h \in Handlers, Resume(h)
  PROVE  waking' \in [Handlers -> Nat] /\ \A x \in Handlers : waking'[x] > 0 => waking[x] > 0
  BY InvParts DEF Resume, Countable

LEMMA RelayNeededInv ==
  ASSUME TransferInv, NEW h \in Handlers, RelayNeeded(h)
  PROVE  TransferInv'
<1>1. PICK status \in Fallback : InstructUpload({h.id} \cap {id \in Transfers : InRoom(id, h.room)}, status)
  BY DEF RelayNeeded
<1>2. PICK ids : ids = {h.id} \cap {id \in Transfers : InRoom(id, h.room)}
  OBVIOUS
<1>3. InstructUpload(ids, status)
  BY <1>1, <1>2
<1>4. TypeOK' /\ UNCHANGED timers /\ Resume(h)
  BY InvParts DEF RelayNeeded, TypeOK, members, lan, RoomStates, Probes
<1> QED
  BY <1>3, <1>4, ResumeFacts, UploadInv

LEMMA WakeRaisesInv ==
  ASSUME TransferInv, NEW h \in Handlers, WakeRaises(h)
  PROVE  TransferInv'
<1>1. TypeOK' /\ Consistent' /\ WaitingHasTimer'
  BY InvParts DEF WakeRaises, TypeOK, members, lan, RoomStates, Probes, Consistent, CommandsTellStatus,
                  StatusOf, Known, WaitingHasTimer
<1>2. OfferedIsKnown'
  BY ResumeFacts, KnownForGood DEF WakeRaises, Known
<1> QED
  BY <1>1, <1>2, ResumeFacts, InvParts, InvAfter DEF Countable, WakeRaises

LEMMA FileSyncCompletedInv ==
  ASSUME TransferInv, NEW c \in Clients, NEW r \in Rooms, NEW id \in Transfers, FileSyncCompleted(c, r, id)
  PROVE  TransferInv'
<1>1. /\ Consistent' /\ Known(id)' /\ StatusOf(id)' = "lan_success"
      /\ \A x \in Transfers \ {id} : (Known(x)' <=> Known(x)) /\ StatusOf(x)' = StatusOf(x)
  BY InstructFinishKeeps, InvParts DEF FileSyncCompleted, InRoom
<1>2. TypeOK' /\ WaitingHasTimer'
  BY <1>1, InvParts DEF FileSyncCompleted, TypeOK, members, lan, RoomStates, Probes, WaitingHasTimer
<1>3. OfferedIsKnown'
  BY <1>1, KnownForGood, InvParts DEF FileSyncCompleted, Countable
<1> QED
  BY <1>1, <1>2, <1>3, InvParts, InvAfter DEF Countable, FileSyncCompleted

LEMMA TimerEndsInv ==
  ASSUME TransferInv, NEW id \in Transfers, TimerEnds(id)
  PROVE  TransferInv'
<1>1. TypeOK'
  BY InvParts DEF TimerEnds, TypeOK, members, lan, RoomStates, Probes
<1>2. Countable' /\ \A x \in Transfers \ {id} : timers'[x] = timers[x]
  BY InvParts, TransferAssumption DEF TimerEnds, Countable
<1>3. /\ Consistent' /\ \A x \in Transfers : Known(x)' <=> Known(x)
      /\ StatusOf(id)' # "waiting_result"
      /\ \A x \in Transfers : StatusOf(x)' \in {StatusOf(x), "fallback_timeout"}
  <2>1. CASE InstructUpload({id}, "fallback_timeout")
    BY <2>1, InvParts, InstructUploadKeeps DEF Fallback
  <2>2. CASE ~StillWaiting(id) /\ UNCHANGED <<contexts, commands>>
    BY <2>2, InvParts DEF Consistent, CommandsTellStatus, StatusOf, Known, StillWaiting
  <2> QED
    BY <2>1, <2>2 DEF TimerEnds
<1>4. WaitingHasTimer'
  BY <1>2, <1>3, InvParts DEF WaitingHasTimer
<1>5. OfferedIsKnown'
  BY <1>2, <1>3, KnownForGood DEF TimerEnds, Countable
<1> QED
  BY <1>1, <1>2, <1>3, <1>4, <1>5, InvAfter

LEMMA ProbeResultInv ==
  ASSUME TransferInv, NEW p \in pending, NEW verdict \in {"ok", "fail"}, ProbeResult(p, verdict)
  PROVE  TransferInv'
<1>1. TypeOK'
  BY InvParts, ProbeResultType DEF ProbeResult
<1>2. PICK ids : InstructUpload(ids, "fallback_requested")
  <2>1. PICK s : s = IF verdict = "fail" THEN {id \in Transfers : InRoom(id, p.room)} ELSE {}
    OBVIOUS
  <2> QED
    BY <2>1 DEF ProbeResult
<1>3. waking' \in [Handlers -> Nat] /\ \A x \in Handlers : waking'[x] > 0 => waking[x] > 0
  BY InvParts DEF ProbeResult, Countable
<1> QED
  BY <1>1, <1>2, <1>3, UploadInv DEF ProbeResult, Fallback

LEMMA TransferInvInductive == Spec => []TransferInv
<1>1. Init => TransferInv
  <2> SUFFICES ASSUME Init PROVE TransferInv
    OBVIOUS
  <2>1. \A id \in Transfers : StatusOf(id) = "none"
    BY DEF Init, StatusOf, Known
  <2>2. TypeOK /\ Countable /\ OfferedIsKnown
    BY LanInitType, TransferAssumption DEF Init, Countable, OfferedIsKnown
  <2>3. Consistent
    BY <2>1, OneCommand DEF Init, Consistent, Contexts, CommandsTellStatus
  <2> QED
    BY <2>1, <2>2, <2>3, InvParts DEF WaitingHasTimer
<1>2. TransferInv /\ [Next]_vars => TransferInv'
  <2> SUFFICES ASSUME TransferInv, [Next]_vars PROVE TransferInv'
    OBVIOUS
  <2>1. CASE UNCHANGED vars
    BY <2>1 DEF vars, members, lan, transferVars, TransferInv, TransferTypeOK, TypeOK, RoomStates, Probes,
                CommandsTellStatus, WaitingHasTimer, OfferedIsKnown, StatusOf, Known
  <2> QED
    BY <2>1, MembershipInv, ProbeResultInv, FileSyncCompletedInv, FileAvailableInv, FileNeedRelayInv,
       FileOfferedInv, RelayNeededInv, WakeRaisesInv, TimerEndsInv DEF Next
<1> QED
  BY <1>1, <1>2, PTL DEF Spec

\* The contexts, the handlers in flight, the timers and the verdicts below them
\* keep their types (socket_service.py).
THEOREM TransferTypeCorrectness == Spec => []TransferTypeOK
<1>1. TransferInv => TransferTypeOK
  BY DEF TransferInv
<1> QED
  BY <1>1, TransferInvInductive, PTL

\* The sender of a transfer is never told twice to upload it, nor to upload what
\* has finished (instruct_upload_relay and instruct_finish).
THEOREM CommandsNeverConflict == Spec => []CommandsTellStatus
<1>1. TransferInv => CommandsTellStatus
  BY DEF TransferInv
<1> QED
  BY <1>1, TransferInvInductive, PTL

\* Whoever waits for the result of a LAN transfer has a timer that will decide
\* it (on file_available, transfer_decision_timeout_worker).
THEOREM WaitingIsTimed == Spec => []WaitingHasTimer
<1>1. TransferInv => WaitingHasTimer
  BY DEF TransferInv
<1> QED
  BY <1>1, TransferInvInductive, PTL

\* A step that leaves the rooms alone makes a transfer wait against the verdict
\* only if it is the one that is offered, in another room.
LEMMA RoomStateStays ==
  ASSUME UNCHANGED <<members, lan>>
  PROVE  \A r \in Rooms : RoomState(r)' = RoomState(r)
  BY DEF members, lan, RoomState, Members

\* instruct_upload_relay makes no transfer wait, nor moves it.
LEMMA UploadEndsWaits ==
  ASSUME Consistent, NEW ids, NEW status \in Fallback, InstructUpload(ids, status), NEW id \in Transfers
  PROVE  /\ StatusOf(id)' = "waiting_result" => StatusOf(id) = "waiting_result" /\ id \notin ids
         /\ Known(id) => contexts'[id].room = contexts[id].room
         /\ Known(id)' <=> Known(id)
<1>1. /\ Known(id)' <=> Known(id)
      /\ StatusOf(id)' \in {StatusOf(id), status}
      /\ id \in ids => StatusOf(id)' # "waiting_result"
  BY InstructUploadKeeps
<1>2. status # "waiting_result"
  BY DEF Fallback
<1>3. Known(id) => contexts'[id].room = contexts[id].room
  BY StatusFacts DEF InstructUpload, Consistent
<1> QED
  BY <1>1, <1>2, <1>3

LEMMA WaitsIsKnown ==
  ASSUME Consistent, NEW id \in Transfers, StatusOf(id) = "waiting_result"
  PROVE  Known(id) /\ contexts[id] \in [status : Statuses, room : Rooms]
  BY StatusFacts DEF Consistent, StatusOf

LEMMA UploadKeepsVerdict ==
  ASSUME Consistent, UNCHANGED <<members, lan>>, NEW ids, NEW status \in Fallback,
         InstructUpload(ids, status), NEW id \in Transfers, WaitsAgainstVerdict(id)'
  PROVE  WaitsAgainstVerdict(id)
<1>1. StatusOf(id) = "waiting_result"
  BY UploadEndsWaits DEF WaitsAgainstVerdict
<1>2. contexts'[id].room = contexts[id].room /\ contexts[id].room \in Rooms
  BY <1>1, UploadEndsWaits, WaitsIsKnown
<1>3. RoomState(contexts[id].room)' = RoomState(contexts[id].room)
  BY <1>2, RoomStateStays
<1> QED
  BY <1>1, <1>2, <1>3 DEF WaitsAgainstVerdict

\* The transfers that waited and wait are the same.
LEMMA SameKeepsVerdict ==
  ASSUME UNCHANGED <<members, lan, contexts>>, NEW id \in Transfers, WaitsAgainstVerdict(id)'
  PROVE  WaitsAgainstVerdict(id)
  BY DEF WaitsAgainstVerdict, StatusOf, Known, members, lan, RoomState, Members

\* file_available, up to the wake, makes a transfer that is not offered yet.
LEMMA FileAvailableVerdict ==
  ASSUME Consistent, NEW c \in Clients, NEW r \in Rooms, NEW x \in Transfers, FileAvailable(c, r, x),
         NEW id \in Transfers, WaitsAgainstVerdict(id)'
  PROVE  WaitsAgainstVerdict(id)
<1>1. UNCHANGED <<members, lan>>
  BY DEF FileAvailable
<1>2. CASE Known(x)
  BY <1>1, <1>2, SameKeepsVerdict DEF FileAvailable
<1>3. CASE ~Known(x)
  <2>1. contexts' = [contexts EXCEPT ![x] = [status |-> "created", room |-> r]]
    BY <1>3 DEF FileAvailable
  <2>2. StatusOf(id)' = "waiting_result"
    BY DEF WaitsAgainstVerdict
  <2>3. x # id
    BY <2>1, <2>2 DEF StatusOf, Known, Consistent, Contexts
  <2>4. contexts'[id] = contexts[id]
    BY <2>1, <2>3 DEF Consistent, Contexts
  <2> QED
    BY <1>1, <2>4 DEF WaitsAgainstVerdict, StatusOf, Known, members, lan, RoomState, Members
<1> QED
  BY <1>2, <1>3

\* The receipt ends the wait of the transfer it names and leaves the others.
LEMMA FileSyncCompletedVerdict ==
  ASSUME Consistent, NEW c \in Clients, NEW r \in Rooms, NEW x \in Transfers, FileSyncCompleted(c, r, x),
         NEW id \in Transfers, WaitsAgainstVerdict(id)'
  PROVE  WaitsAgainstVerdict(id)
<1>1. UNCHANGED <<members, lan>> /\ Known(x) /\ InstructFinish(x)
  BY DEF FileSyncCompleted, InRoom
<1>2. StatusOf(x)' = "lan_success"
  BY <1>1, InstructFinishKeeps
<1>3. x # id
  BY <1>2 DEF WaitsAgainstVerdict
<1>4. contexts'[id] = contexts[id]
  BY <1>1, <1>3 DEF InstructFinish, Consistent, Contexts
<1> QED
  BY <1>1, <1>4 DEF WaitsAgainstVerdict, StatusOf, Known, members, lan, RoomState, Members

\* An offer that resumes opens a transfer only when the room it names, as it is
\* then, has no negative verdict.
LEMMA FileOfferedVerdict ==
  ASSUME TransferInv, NEW h \in Handlers, FileOffered(h),
         NEW id \in Transfers, WaitsAgainstVerdict(id)', ~WaitsAgainstVerdict(id)
  PROVE  OfferedElsewhere(id)
<1>1. UNCHANGED <<members, lan>> /\ Consistent
  BY InvParts DEF FileOffered
<1>2. ~OfferedToDiffLan(h)
  <2> SUFFICES ASSUME OfferedToDiffLan(h) PROVE FALSE
    OBVIOUS
  <2>1. PICK ids : ids = {h.id}
    OBVIOUS
  <2>2. InstructUpload(ids, "fallback_requested")
    BY <2>1 DEF FileOffered
  <2> QED
    BY <1>1, <2>2, UploadKeepsVerdict DEF Fallback
<1>3. Reopen(h.id)
  BY <1>2 DEF FileOffered
<1>4. h.id \in Transfers /\ Known(h.id) /\ contexts[h.id] \in [status : Statuses, room : Rooms]
  <2>1. waking[h] > 0 /\ h.event = "file_available" /\ h.id \in Transfers
    BY DEF FileOffered, Resume, Handlers
  <2> QED
    BY <1>1, <2>1, InvParts, StatusFacts DEF OfferedIsKnown, Consistent
<1>5. h.id = id
  <2> SUFFICES ASSUME h.id # id PROVE FALSE
    OBVIOUS
  <2>1. contexts'[id] = contexts[id]
    BY <1>3 DEF Reopen
  <2> QED
    BY <1>1, <2>1 DEF WaitsAgainstVerdict, StatusOf, Known, members, lan, RoomState, Members
<1>6. contexts'[id].room = contexts[id].room
  BY <1>1, <1>3, <1>4, <1>5 DEF Reopen, Consistent, Contexts
<1>7. RoomState(contexts[id].room) = "PAIR_DIFF_LAN"
  BY <1>1, <1>6 DEF WaitsAgainstVerdict, members, lan, RoomState, Members
<1>8. h.room # contexts[id].room
  BY <1>2, <1>7 DEF OfferedToDiffLan
<1> QED
  BY <1>5, <1>8 DEF OfferedElsewhere

\* A failure ends every wait in the room it is about; any other answer takes its
\* negative verdict away, and no answer is about another room.
LEMMA ProbeResultVerdict ==
  ASSUME TransferInv, NEW p \in pending, NEW verdict \in {"ok", "fail"}, ProbeResult(p, verdict),
         NEW id \in Transfers, WaitsAgainstVerdict(id)'
  PROVE  WaitsAgainstVerdict(id)
<1>0. PICK r : r = contexts[id].room
  OBVIOUS
<1>1. PICK ids : ids = IF verdict = "fail" THEN {x \in Transfers : InRoom(x, p.room)} ELSE {}
  OBVIOUS
<1>2. InstructUpload(ids, "fallback_requested") /\ Consistent
  BY <1>1, InvParts DEF ProbeResult
<1>3. StatusOf(id) = "waiting_result" /\ id \notin ids
  BY <1>2, UploadEndsWaits DEF WaitsAgainstVerdict, Fallback
<1>4. Known(id) /\ r \in Rooms /\ contexts'[id].room = r
  BY <1>0, <1>2, <1>3, UploadEndsWaits, WaitsIsKnown DEF Fallback
<1>5. RoomState(r)' = "PAIR_DIFF_LAN"
  BY <1>4 DEF WaitsAgainstVerdict
<1>6. UNCHANGED members /\ lastProbe' = [lastProbe EXCEPT ![p.room] = verdict] /\ p.room \in Rooms
  BY InvParts DEF ProbeResult, LanProbeResult, TypeOK, Probes
<1>7. r # p.room
  <2>1. CASE verdict = "fail"
    BY <1>0, <1>1, <1>3, <1>4, <2>1 DEF InRoom
  <2>2. CASE verdict = "ok"
    <3>1. lastProbe'[p.room] = "ok"
      BY <1>6, <2>2, InvParts DEF TypeOK
    <3>2. RoomState(p.room)' # "PAIR_DIFF_LAN"
      BY <3>1 DEF RoomState
    <3> QED
      BY <1>5, <3>2
  <2> QED
    BY <2>1, <2>2
<1>8. lastProbe'[r] = lastProbe[r]
  BY <1>4, <1>6, <1>7, InvParts DEF TypeOK
<1>9. RoomState(r)' = RoomState(r)
  BY <1>6, <1>8 DEF members, RoomState, Members
<1> QED
  BY <1>0, <1>3, <1>5, <1>9 DEF WaitsAgainstVerdict

\* No answer of a probe and no offer of its own room leaves a transfer waiting
\* for a LAN that the room does not have (on lan_probe_result, file_available).
THEOREM VerdictsAreHeeded == Spec => NoWaitAgainstVerdict
<1> DEFINE Begins(id) == WaitsAgainstVerdict(id)' /\ ~WaitsAgainstVerdict(id)
<1>1. ASSUME TransferInv, [Next]_vars, NEW id \in Transfers, Begins(id)
      PROVE  RoomTurns(id) \/ OfferedElsewhere(id)
  <2>1. Consistent
    BY <1>1, InvParts
  <2>2. ASSUME MembershipStep, UNCHANGED transferVars PROVE RoomTurns(id)
    BY <1>1, <2>2 DEF RoomTurns, WaitsAgainstVerdict, StatusOf, Known, transferVars
  <2>3. ASSUME NEW p \in pending, NEW verdict \in {"ok", "fail"}, ProbeResult(p, verdict) PROVE FALSE
    BY <1>1, <2>3, ProbeResultVerdict
  <2>4. ASSUME NEW c \in Clients, NEW r \in Rooms, NEW x \in Transfers,
               FileSyncCompleted(c, r, x) \/ FileAvailable(c, r, x)
        PROVE  FALSE
    BY <1>1, <2>1, <2>4, FileSyncCompletedVerdict, FileAvailableVerdict
  <2>5. ASSUME NEW h \in Handlers, FileOffered(h) PROVE OfferedElsewhere(id)
    BY <1>1, <2>5, FileOfferedVerdict
  <2>6. ASSUME NEW h \in Handlers, RelayNeeded(h) PROVE FALSE
    <3>1. PICK status \in Fallback : InstructUpload({h.id} \cap {y \in Transfers : InRoom(y, h.room)}, status)
      BY <2>6 DEF RelayNeeded
    <3>2. PICK ids : ids = {h.id} \cap {y \in Transfers : InRoom(y, h.room)}
      OBVIOUS
    <3>3. UNCHANGED <<members, lan>>
      BY <2>6 DEF RelayNeeded
    <3> QED
      BY <1>1, <2>1, <3>1, <3>2, <3>3, UploadKeepsVerdict
  <2>7. ASSUME NEW x \in Transfers, TimerEnds(x) PROVE FALSE
    <3>1. UNCHANGED <<members, lan>>
      BY <2>7 DEF TimerEnds
    <3>2. CASE UNCHANGED contexts
      BY <1>1, <3>1, <3>2, SameKeepsVerdict
    <3>3. CASE InstructUpload({x}, "fallback_timeout")
      <4>1. PICK ids : ids = {x}
        OBVIOUS
      <4> QED
        BY <1>1, <2>1, <3>1, <3>3, <4>1, UploadKeepsVerdict DEF Fallback
    <3> QED
      BY <2>7, <3>2, <3>3 DEF TimerEnds
  <2>8. ASSUME \/ \E c \in Clients, r \in Rooms, x \in Transfers : FileNeedRelay(c, r, x)
               \/ \E h \in Handlers : WakeRaises(h)
               \/ UNCHANGED vars
        PROVE  FALSE
    BY <1>1, <2>8, SameKeepsVerdict DEF FileNeedRelay, WakeRaises, vars, transferVars
  <2> QED
    BY <1>1, <2>2, <2>3, <2>4, <2>5, <2>6, <2>7, <2>8 DEF Next
<1>2. TransferInv /\ [Next]_vars
        => [\A id \in Transfers : Begins(id) => RoomTurns(id) \/ OfferedElsewhere(id)]_vars
  BY <1>1
<1> QED
  BY <1>2, TransferInvInductive, PTL DEF Spec, NoWaitAgainstVerdict
=============================================================================
