---------------------------- MODULE PipelineRelay ----------------------------
(***************************************************************************)
(* The pipeline relay of local storage, for one file key: a GET streams    *)
(* what a PUT is still receiving, through a bounded buffer, and falls back *)
(* to the file on disk.  It covers pipeline_relay.py, the upload and       *)
(* download handlers of route.py and what write_file_stream does to the    *)
(* buffer.  The file appears on disk in one step and stays there: what     *)
(* overlapping uploads and the purge do to the files is left out.          *)
(*                                                                         *)
(* Handlers are greenlets: they switch when they read the request, wait    *)
(* for an event or the queue, or hand a chunk to the client, and nowhere   *)
(* else, so what lies between two switches is one action.                  *)
(***************************************************************************)
EXTENDS Integers, Sequences

CONSTANTS
  Puts,        \* upload requests for the key; each has a buffer of its own
  Gets,        \* download requests, GET or HEAD
  Chunks,      \* the chunks of a body; all bodies have as many
  MaxBuffer,   \* max_buffer_bytes, in chunks
  None         \* no buffer, no event, no file

ASSUME PipelineAssumption ==
  /\ Chunks \in Nat /\ MaxBuffer \in Nat \ {0}
  /\ None \notin Puts \cup Gets

VARIABLES
  put,          \* the state of each upload
  sent,         \* the chunks it has read from its stream
  buffer,       \* its PipelineBuffer
  registered,   \* what _get_locked finds for the key
  waiter,       \* _waiters[key]: an event, named after the request that made it
  fired,        \* the events that are set
  disk,         \* the upload whose file download would send
  get,          \* the state of each download
  got           \* the chunks handed to its client from a buffer

vars == <<put, sent, buffer, registered, waiter, fired, disk, get, got>>

Terminal == {"done", "failed"}                   \* finished or failed is set
DONE == 0                                        \* sentinels of the queue; chunks
FAILED == -1                                     \* are numbered from 1
DROPPED == -2
Sentinels == {DONE, FAILED, DROPPED}
Buffer == [queue : Seq(1..Chunks \cup Sentinels), bytes : 0..MaxBuffer,
           space : BOOLEAN, reader : BOOLEAN, dropped : BOOLEAN]
NewBuffer == [queue |-> << >>, bytes |-> 0, space |-> TRUE, reader |-> FALSE, dropped |-> FALSE]

\* A download is new, waits for a buffer to be registered or for an upload to
\* end, streams, holds a reader it never uses (HEAD), or has ended: with a body
\* ended by the upload, by its failure or by the idle timeout, because its
\* client left, with the file, or with a 404.
GetStates == {"new", "waits_open", "waits_end", "streams", "unread",
              "body_done", "body_failed", "body_idle", "gone", "sent_file", "not_found"}

TypeOK ==
  /\ put \in [Puts -> {"new", "reading", "blocked", "stranded"} \cup Terminal]
  /\ sent \in [Puts -> 0..Chunks]
  /\ buffer \in [Puts -> Buffer]
  /\ registered \in Puts \cup {None}
  /\ waiter \in Gets \cup {None}
  /\ fired \subseteq Gets
  /\ disk \in Puts \cup {None}
  /\ get \in [Gets -> [state : GetStates, head : BOOLEAN, buf : Puts \cup {None}, event : Gets \cup {None}]]
  /\ got \in [Gets -> Seq(1..Chunks)]

Init ==
  /\ put = [p \in Puts |-> "new"]
  /\ sent = [p \in Puts |-> 0]
  /\ buffer = [p \in Puts |-> NewBuffer]
  /\ registered = None /\ waiter = None /\ fired = {} /\ disk = None
  /\ get = [g \in Gets |-> [state |-> "new", head |-> FALSE, buf |-> None, event |-> None]]
  /\ got = [g \in Gets |-> << >>]

------------------------------------------------------------------------------
(* PipelineBuffer.                                                         *)

\* append, when it neither finds the buffer abandoned nor has to wait.
OverflowsLate(b) == b.bytes > MaxBuffer      \* mutant: the chunk in hand is not counted
Overflows(b) == b.bytes + 1 > MaxBuffer
Waits(b) == ~b.dropped /\ Overflows(b) /\ b.reader
AbandonedOpen(b) == [b EXCEPT !.queue = << >>, !.bytes = 0]    \* mutant: readers may still attach
Abandoned(b) == [b EXCEPT !.queue = <<DROPPED>>, !.bytes = 0, !.dropped = TRUE, !.space = TRUE]
Queued(b, chunk) ==
  [b EXCEPT !.queue = Append(@, chunk), !.bytes = @ + 1, !.space = @ /\ b.bytes + 1 < MaxBuffer]
Appended(b, chunk) ==
  IF b.dropped THEN b
  ELSE IF ~Overflows(b) THEN Queued(b, chunk)
  ELSE IF b.reader THEN [b EXCEPT !.space = FALSE]
  ELSE Abandoned(b)

\* attach_reader succeeds.
AttachSecond(b) == ~b.dropped   \* mutant: has_reader is not looked at
CanAttach(b) == ~b.reader /\ ~b.dropped

\* detach_reader of the buffer of upload p.
DetachedQuietly(p) ==           \* mutant: a blocked producer is not woken
  [buffer[p] EXCEPT !.queue = << >>, !.bytes = 0, !.reader = FALSE,
                    !.dropped = @ \/ put[p] \notin Terminal]
Detached(p) ==
  IF ~buffer[p].reader THEN buffer[p]
  ELSE [buffer[p] EXCEPT !.queue = << >>, !.bytes = 0, !.reader = FALSE, !.space = TRUE,
                         !.dropped = @ \/ put[p] \notin Terminal]

\* read_iter takes a chunk.
TakenQuietly(b) ==              \* mutant: the producer is not told of the space
  [b EXCEPT !.queue = Tail(@), !.bytes = @ - 1]
Taken(b) ==
  LET left == [b EXCEPT !.queue = Tail(@), !.bytes = @ - 1]
  IN  [left EXCEPT !.space = @ \/ left.bytes < MaxBuffer]

------------------------------------------------------------------------------
(* PUT /api/file/upload/<key>.                                             *)

\* The event of the waiters is popped and set.
WokenNone == fired                    \* mutant: it is popped and not set
Woke == fired \cup ({waiter} \ {None})

\* open_for_write: the new buffer replaces the registered one and whoever waits
\* for the key is woken.
Open(p) ==
  /\ put[p] = "new"
  /\ put' = [put EXCEPT ![p] = "reading"]
  /\ registered' = p
  /\ fired' = Woke
  /\ waiter' = None
  /\ UNCHANGED <<sent, buffer, disk, get, got>>

\* append of the chunk in hand; the upload is blocked if it has to wait.
AppendTo(p, chunk) ==
  /\ buffer' = [buffer EXCEPT ![p] = Appended(@, chunk)]
  /\ put' = [put EXCEPT ![p] = IF Waits(buffer[p]) THEN "blocked" ELSE "reading"]

\* A chunk arrives: it is written to the part file and appended.
Receive(p) ==
  /\ put[p] = "reading" /\ sent[p] < Chunks
  /\ sent' = [sent EXCEPT ![p] = @ + 1]
  /\ AppendTo(p, sent[p] + 1)
  /\ UNCHANGED <<registered, waiter, fired, disk, get, got>>

\* The producer wakes up and tries to append its chunk again.
Retry(p) ==
  /\ put[p] = "blocked" /\ buffer[p].space
  /\ AppendTo(p, sent[p])
  /\ UNCHANGED <<sent, registered, waiter, fired, disk, get, got>>

\* mark_done and mark_failed queue a sentinel for the reader.
MarkedQuietly(b, sentinel) == b       \* mutant: only terminal_event is set
Marked(b, sentinel) == [b EXCEPT !.queue = Append(@, sentinel)]

\* The body ends: the file is in place, then mark_done.
Complete(p) ==
  /\ put[p] = "reading" /\ sent[p] = Chunks
  /\ put' = [put EXCEPT ![p] = "done"]
  /\ buffer' = [buffer EXCEPT ![p] = Marked(@, DONE)]
  /\ disk' = p
  /\ UNCHANGED <<sent, registered, waiter, fired, get, got>>

\* The file is in place but its .meta cannot be written: the upload is answered
\* with an error and its buffer never becomes terminal.
Strand(p) ==
  /\ put[p] = "reading" /\ sent[p] = Chunks
  /\ put' = [put EXCEPT ![p] = "stranded"]
  /\ disk' = p
  /\ UNCHANGED <<sent, buffer, registered, waiter, fired, get, got>>

\* Reading the request or writing the part file raises: mark_failed.
Break(p) ==
  /\ put[p] = "reading"
  /\ put' = [put EXCEPT ![p] = "failed"]
  /\ buffer' = [buffer EXCEPT ![p] = Marked(@, FAILED)]
  /\ UNCHANGED <<sent, registered, waiter, fired, disk, get, got>>

\* retain_after_finish_s is over: from now on _get_locked finds no buffer.
Forget ==
  /\ registered # None /\ put[registered] \in Terminal
  /\ registered' = None
  /\ UNCHANGED <<put, sent, buffer, waiter, fired, disk, get, got>>

------------------------------------------------------------------------------
(* GET (or HEAD) /api/file/download/<key>.                                 *)

Goes(g, state) == get' = [get EXCEPT ![g].state = state]

\* send_file or a 404.
FromDisk(g) == Goes(g, IF disk = None THEN "not_found" ELSE "sent_file") /\ UNCHANGED buffer

\* attach_reader to the registered buffer and what follows from its answer.  Of
\* a HEAD request the body generator is never started, nor is its finally.
Attach(g, head) ==
  LET b == buffer[registered] IN
  /\ registered # None
  /\ \/ /\ CanAttach(b)
        /\ buffer' = [buffer EXCEPT ![registered].reader = TRUE]
        /\ get' = [get EXCEPT ![g].state = IF head THEN "unread" ELSE "streams",
                              ![g].head = head, ![g].buf = registered]
     \/ /\ ~CanAttach(b) /\ put[registered] \notin Terminal
        /\ get' = [get EXCEPT ![g].state = "waits_end", ![g].head = head, ![g].buf = registered]
        /\ UNCHANGED buffer
     \/ ~CanAttach(b) /\ put[registered] \in Terminal /\ FromDisk(g)

\* The handler, up to its first wait: registry.get, then wait_for.
Request(g, head) ==
  /\ get[g].state = "new"
  /\ \/ Attach(g, head) /\ UNCHANGED waiter
     \/ /\ registered = None
        /\ waiter' = IF waiter = None THEN g ELSE waiter
        /\ get' = [get EXCEPT ![g].state = "waits_open", ![g].head = head, ![g].event = waiter']
        /\ UNCHANGED buffer
  /\ UNCHANGED <<put, sent, registered, fired, disk, got>>

\* A request with a Range header.
RequestRange(g) ==
  /\ get[g].state = "new"
  /\ FromDisk(g)
  /\ UNCHANGED <<put, sent, registered, waiter, fired, disk, got>>

\* wait_for returns: the event was set, or five seconds are over.
Woken(g) ==
  /\ get[g].state = "waits_open" /\ get[g].event \in fired
  /\ \/ Attach(g, get[g].head)
     \/ registered = None /\ FromDisk(g)
  /\ UNCHANGED <<put, sent, registered, waiter, fired, disk, got>>

OpenTimeout(g) ==
  /\ get[g].state = "waits_open" /\ get[g].event \notin fired
  /\ waiter' = IF waiter = get[g].event THEN None ELSE waiter
  /\ FromDisk(g)
  /\ UNCHANGED <<put, sent, registered, fired, disk, got>>

\* terminal_event.wait returns: the upload has ended, or two minutes are over.
UploadEnded(g) ==
  /\ get[g].state = "waits_end"
  /\ FromDisk(g)
  /\ UNCHANGED <<put, sent, registered, waiter, fired, disk, got>>

\* The body of g ends, in whatever way, and its reader is detached.
EndBody(g, state) ==
  /\ Goes(g, state)
  /\ buffer' = [buffer EXCEPT ![get[g].buf] = Detached(get[g].buf)]
  /\ UNCHANGED <<put, sent, registered, waiter, fired, disk, got>>

\* read_iter hands over the next chunk, or meets the end of the upload.
Stream(g) ==
  LET p == get[g].buf
      item == Head(buffer[p].queue)
  IN  /\ get[g].state = "streams" /\ buffer[p].queue # << >>
      /\ \/ /\ item \notin Sentinels
            /\ buffer' = [buffer EXCEPT ![p] = Taken(@)]
            /\ got' = [got EXCEPT ![g] = Append(@, item)]
            /\ UNCHANGED <<put, sent, registered, waiter, fired, disk, get>>
         \/ item = DONE /\ EndBody(g, "body_done")
         \/ item \in {FAILED, DROPPED} /\ EndBody(g, "body_failed")

\* Nothing arrives for the idle timeout of read_iter.
StreamIdle(g) ==
  get[g].state = "streams" /\ buffer[get[g].buf].queue = << >> /\ EndBody(g, "body_idle")

\* The client has closed the connection: handing it a chunk fails and the
\* generator is closed where it has yielded that chunk.
ClientLeaves(g) == get[g].state = "streams" /\ got[g] # << >> /\ EndBody(g, "gone")

------------------------------------------------------------------------------
Next ==
  \/ \E p \in Puts : Open(p) \/ Receive(p) \/ Retry(p) \/ Complete(p) \/ Strand(p) \/ Break(p)
  \/ Forget
  \/ \E g \in Gets :
       \/ \E head \in BOOLEAN : Request(g, head)
       \/ RequestRange(g) \/ Woken(g) \/ OpenTimeout(g) \/ UploadEnded(g)
       \/ Stream(g) \/ StreamIdle(g) \/ ClientLeaves(g)

\* A woken greenlet runs; a client that downloads takes its chunks or leaves.
Fairness ==
  /\ \A p \in Puts : WF_vars(Retry(p))
  /\ \A g \in Gets : WF_vars(Stream(g) \/ StreamIdle(g) \/ ClientLeaves(g))

Spec == Init /\ [][Next]_vars /\ Fairness

------------------------------------------------------------------------------
\* A producer that waits for space and has not been woken has a reader that
\* has all of the buffer to take, so its next step wakes it.
NoLostWakeup ==
  \A p \in Puts : put[p] = "blocked" /\ ~buffer[p].space =>
    buffer[p].reader /\ buffer[p].bytes = MaxBuffer /\ Len(buffer[p].queue) = MaxBuffer

\* has_reader is set exactly while one download holds the buffer, whatever
\* uploads and downloads of the key overlap.
Holds(g, p) == get[g].state \in {"streams", "unread"} /\ get[g].buf = p
ReaderIsHeld ==
  \A p \in Puts : /\ buffer[p].reader = \E g \in Gets : Holds(g, p)
                  /\ \A g, h \in Gets : Holds(g, p) /\ Holds(h, p) => g = h

FirstChunks(n) == [i \in 1..n |-> i]
\* What a download gets from a buffer is the beginning of one body, without a
\* gap; it is the whole body when the buffer says that the upload is done, and
\* cut only when the upload failed, although chunks are thrown away when nobody
\* reads or a reader leaves.  (PipelineDroppedToDisk is never raised: a buffer
\* abandoned to the disk has no reader that could run into it.)
BodyIsPrefix ==
  \A g \in Gets : /\ got[g] = FirstChunks(Len(got[g]))
                  /\ get[g].state = "body_done" => Len(got[g]) = Chunks
                  /\ get[g].state = "body_failed" => put[get[g].buf] = "failed"

\* A slow or vanished client does not hold an upload up for ever; a HEAD
\* request does, since nothing detaches the reader it attached.
HeldUnread(p) == \E g \in Gets : Holds(g, p) /\ get[g].state = "unread"
BlockedIsReleased ==
  \A p \in Puts : put[p] = "blocked" ~> (put[p] # "blocked" \/ HeldUnread(p))

\* A download waits for a buffer although one is registered only if it shares
\* its event with a download that has timed out: that one takes the event out of
\* the registry (contrary to wait_for's 'Block up to timeout_s for a buffer to be
\* registered'), and nothing else keeps an upload from waking whoever waits.
MissedOnlyIfShared ==
  \A g \in Gets : get[g].state = "waits_open" /\ registered # None /\ get[g].event \notin fired =>
    \E h \in Gets : get[h].event = get[g].event /\ get[h].state \in {"sent_file", "not_found"}

\* A download runs into the idle timeout on the buffer of an upload that has
\* ended only if another download had the chunks: within two seconds of the end
\* it attaches to the drained buffer and sends an empty 200.  Nobody else is
\* left without the sentinel that ends the body.
Ended == {"body_done", "body_failed", "body_idle", "gone"}
DrainedByAnother ==
  [][\A g \in Gets :
       get[g].state = "streams" /\ get'[g].state = "body_idle" /\ put[get[g].buf] \in Terminal =>
         \E h \in Gets : get[h].buf = get[g].buf /\ get[h].state \in Ended]_vars
==============================================================================
