--------------------------- MODULE PipelineProofs ---------------------------
(***************************************************************************)
(* Proofs about PipelineRelay, for any uploads and downloads of the key,   *)
(* any length of the bodies and any size of the buffer.  None of the       *)
(* properties is inductive alone: that a body has no gap needs to know     *)
(* what is in the queue, and that depends on who has the reader and on how *)
(* much of the body its download has handed over.                          *)
(***************************************************************************)
EXTENDS PipelineRelay, TLAPS

\* ReaderIsHeld, buffer by buffer.
HeldInv(p) ==
  /\ buffer[p].reader => \E g \in Gets : Holds(g, p)
  /\ \A g, h \in Gets : Holds(g, p) => buffer[p].reader /\ (Holds(h, p) => g = h)

\* The chunks of p that went into its buffer: not the one it waits with.
Entered(p) == IF put[p] = "blocked" THEN sent[p] - 1 ELSE sent[p]

\* The buffer of p holds what follows its first k chunks, and the sentinel.
Fresh(p, k) ==
  LET b == buffer[p] IN
  /\ k + b.bytes = Entered(p)
  /\ Len(b.queue) = b.bytes + (IF put[p] \in Terminal THEN 1 ELSE 0)
  /\ \A i \in 1..b.bytes : b.queue[i] = k + i
  /\ put[p] \in Terminal => b.queue[b.bytes + 1] = IF put[p] = "done" THEN DONE ELSE FAILED

\* A download was attached until after p had ended: nothing is left.
Drained(p) ==
  /\ put[p] \in Terminal /\ buffer[p].queue = << >> /\ buffer[p].bytes = 0
  /\ \E h \in Gets : get[h].buf = p /\ get[h].state \in Ended

\* What is in a buffer that is not abandoned, without a reader and with one.
ContentsInv ==
  \A p \in Puts :
    /\ ~buffer[p].reader /\ ~buffer[p].dropped => Drained(p) \/ Fresh(p, 0)
    /\ \A g \in Gets : Holds(g, p) => \/ Drained(p) /\ got[g] = << >>
                                      \/ Fresh(p, Len(got[g]))

ProducerInv(p) ==
  /\ put[p] = "blocked" => /\ sent[p] > 0
                           /\ ~buffer[p].space => buffer[p].reader /\ buffer[p].bytes = MaxBuffer
  /\ put[p] = "done" => sent[p] = Chunks
  /\ buffer[p].dropped => buffer[p].space /\ ~buffer[p].reader

\* A download has a buffer as long as it needs it, and chunks only from it.
ReadersInv ==
  \A g \in Gets :
    /\ get[g].state \in {"streams", "unread", "waits_end"} \cup Ended => get[g].buf \in Puts
    /\ get[g].state \in {"new", "waits_open"} => got[g] = << >>

\* The event a download waits for is in the registry, or set, or a download that
\* timed out has taken it from there.
TimedOutWith(e) == \E h \in Gets : get[h].event = e /\ get[h].state \in {"sent_file", "not_found"}
WaitersInv ==
  /\ waiter # None => registered = None
  /\ \A g \in Gets : get[g].state = "waits_open" =>
       /\ get[g].event \in Gets
       /\ get[g].event = waiter \/ get[g].event \in fired \/ TimedOutWith(get[g].event)

PipelineInv ==
  /\ TypeOK /\ (\A p \in Puts : HeldInv(p) /\ ProducerInv(p)) /\ ContentsInv
  /\ ReadersInv /\ WaitersInv /\ BodyIsPrefix

LEMMA InitPipeline == Init => PipelineInv
<1> SUFFICES ASSUME Init PROVE PipelineInv
  OBVIOUS
<1>1. NewBuffer \in Buffer
  BY PipelineAssumption DEF NewBuffer, Buffer
<1>2. \A p \in Puts : buffer[p] = NewBuffer /\ put[p] = "new" /\ sent[p] = 0
  BY DEF Init
<1>3. \A g \in Gets : get[g].state = "new" /\ got[g] = << >>
  BY DEF Init
<1>4. TypeOK
  <2>1. sent \in [Puts -> 0..Chunks] /\ buffer \in [Puts -> Buffer]
    BY <1>1, PipelineAssumption DEF Init
  <2>2. get \in [Gets -> [state : GetStates, head : BOOLEAN, buf : Puts \cup {None}, event : Gets \cup {None}]]
    BY DEF Init, GetStates
  <2> QED
    BY <2>1, <2>2 DEF Init, TypeOK
<1>5. \A p \in Puts : Fresh(p, 0) /\ ProducerInv(p)
  <2>1. NewBuffer.queue = << >> /\ NewBuffer.bytes = 0 /\ NewBuffer.dropped = FALSE
    BY DEF NewBuffer
  <2> SUFFICES ASSUME NEW p \in Puts PROVE Fresh(p, 0) /\ ProducerInv(p)
    OBVIOUS
  <2>2. /\ buffer[p].queue = << >> /\ buffer[p].bytes = 0 /\ ~buffer[p].dropped
        /\ put[p] = "new" /\ sent[p] = 0
    BY <1>2, <2>1
  <2>3. Fresh(p, 0)
    BY <2>2 DEF Fresh, Entered, Terminal
  <2>4. ProducerInv(p)
    BY <2>2 DEF ProducerInv
  <2> QED
    BY <2>3, <2>4
<1>6. (\A p \in Puts : HeldInv(p)) /\ ContentsInv
  <2>1. \A g \in Gets, p \in Puts : ~Holds(g, p)
    BY <1>3 DEF Holds
  <2>2. \A p \in Puts : ~buffer[p].reader
    <3>1. NewBuffer.reader = FALSE
      BY DEF NewBuffer
    <3> QED
      BY <1>2, <3>1
  <2> QED
    BY <1>5, <2>1, <2>2 DEF HeldInv, ContentsInv
<1>7. ReadersInv /\ WaitersInv /\ BodyIsPrefix
  <2>1. << >> = FirstChunks(Len(<< >>))
    BY DEF FirstChunks
  <2> QED
    BY <1>3, <2>1 DEF Init, ReadersInv, WaitersInv, BodyIsPrefix, Ended
<1> QED
  BY <1>4, <1>5, <1>6, <1>7 DEF PipelineInv

------------------------------------------------------------------------------
(* The steps of an upload.                                                 *)

LEMMA NobodyWakes ==
  ASSUME PipelineInv, UNCHANGED <<registered, waiter, fired, get>>
  PROVE  WaitersInv'
BY DEF PipelineInv, WaitersInv, TimedOutWith

\* A step of p, which has not ended and keeps its reader, preserves the invariant
\* if it does so in what p itself has.
LEMMA UploadStep ==
  ASSUME PipelineInv, TypeOK', NEW p \in Puts, put[p] \notin Terminal,
         \A q \in Puts \ {p} : put'[q] = put[q] /\ sent'[q] = sent[q] /\ buffer'[q] = buffer[q],
         buffer'[p].reader = buffer[p].reader, ProducerInv(p)',
         ~buffer'[p].dropped => /\ ~buffer[p].dropped
                                /\ \A k \in Nat : Fresh(p, k) => Fresh(p, k)',
         WaitersInv', UNCHANGED <<get, got>>
  PROVE  PipelineInv'
<1>0. \A q \in Puts, g \in Gets : Holds(g, q)' <=> Holds(g, q)
  BY DEF Holds
<1>1. \A q \in Puts : HeldInv(q)'
  BY <1>0 DEF PipelineInv, HeldInv
<1>2. \A q \in Puts : ProducerInv(q)'
  BY DEF PipelineInv, ProducerInv
<1>3. ASSUME NEW q \in Puts \ {p}
      PROVE  /\ Drained(q)' <=> Drained(q)
             /\ \A k \in Nat : Fresh(q, k)' <=> Fresh(q, k)
  BY <1>3 DEF Fresh, Drained, Entered
<1>4. ~Drained(p)
  BY DEF Drained
<1>5. got' = got /\ 0 \in Nat /\ \A g \in Gets : Len(got[g]) \in Nat
  BY DEF PipelineInv, TypeOK
<1>6. ContentsInv'
  <2>1. ASSUME NEW q \in Puts, ~buffer'[q].reader, ~buffer'[q].dropped
        PROVE  Drained(q)' \/ Fresh(q, 0)'
    BY <1>3, <1>4, <1>5, <2>1 DEF PipelineInv, ContentsInv
  <2>2. ASSUME NEW q \in Puts, NEW g \in Gets, Holds(g, q)'
        PROVE  ((Drained(q) /\ got[g] = << >>) \/ Fresh(q, Len(got[g])))'
    <3>1. Holds(g, q) /\ ~buffer'[q].dropped
      BY <1>0, <1>1, <1>2, <2>2 DEF HeldInv, ProducerInv
    <3>2. (Drained(q) /\ got[g] = << >>) \/ Fresh(q, Len(got[g]))
      BY <3>1 DEF PipelineInv, ContentsInv
    <3>3. Fresh(q, Len(got[g])) => Fresh(q, Len(got[g]))'
      <4>1. CASE q = p
        BY <1>5, <3>1, <4>1 DEF Fresh, Entered
      <4>2. CASE q # p
        BY <1>5, <4>2 DEF Fresh, Entered
      <4> QED
        BY <4>1, <4>2
    <3>4. Drained(q) => Drained(q)'
      BY <1>3, <1>4
    <3> QED
      BY <1>5, <3>2, <3>3, <3>4
  <2> QED
    BY <2>1, <2>2 DEF ContentsInv
<1>7. ReadersInv'
  BY DEF PipelineInv, ReadersInv
<1>8. BodyIsPrefix'
  BY DEF PipelineInv, BodyIsPrefix, ReadersInv, Ended, Terminal
<1> QED
  BY <1>1, <1>2, <1>6, <1>7, <1>8 DEF PipelineInv

\* What append makes of a buffer: nothing, as it is abandoned; one chunk more;
\* one that is waited for; or an abandoned one.
LEMMA AppendedProperties ==
  ASSUME NEW b \in Buffer, NEW chunk \in 1..Chunks
  PROVE  LET a == Appended(b, chunk) IN
         /\ a \in Buffer /\ a.reader = b.reader
         /\ \/ b.dropped /\ ~Waits(b) /\ a = b
            \/ /\ ~b.dropped /\ ~Waits(b) /\ ~a.dropped
               /\ a.queue = Append(b.queue, chunk) /\ a.bytes = b.bytes + 1
            \/ /\ ~b.dropped /\ Waits(b) /\ ~a.dropped /\ a.reader /\ a.bytes = MaxBuffer
               /\ a.queue = b.queue /\ a.bytes = b.bytes
            \/ ~b.dropped /\ ~b.reader /\ ~Waits(b) /\ a.dropped /\ a.space
<1> DEFINE a == Appended(b, chunk)
<1>0. /\ b.queue \in Seq(1..Chunks \cup Sentinels) /\ b.bytes \in 0..MaxBuffer
      /\ b.space \in BOOLEAN /\ b.reader \in BOOLEAN /\ b.dropped \in BOOLEAN
      /\ MaxBuffer \in Nat /\ chunk \in 1..Chunks \cup Sentinels
  BY PipelineAssumption DEF Buffer
<1>1. CASE b.dropped
  BY <1>1 DEF Appended, Waits
<1>2. CASE ~b.dropped /\ ~Overflows(b)
  <2>1. a = Queued(b, chunk) /\ ~Waits(b)
    BY <1>2 DEF Appended, Waits
  <2>2. b.bytes + 1 \in 0..MaxBuffer /\ Append(b.queue, chunk) \in Seq(1..Chunks \cup Sentinels)
    BY <1>0, <1>2 DEF Overflows
  <2>3. (b.space /\ b.bytes + 1 < MaxBuffer) \in BOOLEAN
    OBVIOUS
  <2>4. a \in Buffer
    BY <1>0, <2>1, <2>2, <2>3 DEF Queued, Buffer
  <2>5. /\ a.queue = Append(b.queue, chunk) /\ a.bytes = b.bytes + 1 /\ a.reader = b.reader
        /\ a.dropped = b.dropped
    BY <2>1 DEF Queued, Buffer
  <2> QED
    BY <1>2, <2>1, <2>4, <2>5
<1>3. CASE ~b.dropped /\ Overflows(b) /\ b.reader
  <2>1. a = [b EXCEPT !.space = FALSE] /\ Waits(b) /\ b.bytes = MaxBuffer
    BY <1>0, <1>3 DEF Appended, Waits, Overflows
  <2>2. a \in Buffer /\ a.queue = b.queue /\ a.bytes = b.bytes /\ a.reader = b.reader /\ a.dropped = b.dropped
    BY <2>1 DEF Buffer
  <2> QED
    BY <1>3, <2>1, <2>2
<1>4. CASE ~b.dropped /\ Overflows(b) /\ ~b.reader
  <2>1. a = Abandoned(b) /\ ~Waits(b)
    BY <1>4 DEF Appended, Waits
  <2>2. <<DROPPED>> \in Seq(1..Chunks \cup Sentinels) /\ 0 \in 0..MaxBuffer
    BY <1>0 DEF Sentinels
  <2>3. a \in Buffer /\ a.dropped = TRUE /\ a.space = TRUE /\ a.reader = b.reader
    BY <2>1, <2>2 DEF Abandoned, Buffer
  <2> QED
    BY <1>4, <2>1, <2>3
<1> QED
  BY <1>1, <1>2, <1>3, <1>4

LEMMA AppendStep ==
  ASSUME PipelineInv, NEW p \in Puts, NEW chunk \in 1..Chunks,
         put[p] \in {"reading", "blocked"}, chunk = Entered(p) + 1,
         sent' = [sent EXCEPT ![p] = chunk], AppendTo(p, chunk),
         UNCHANGED <<registered, waiter, fired, disk, get, got>>
  PROVE  PipelineInv'
<1> DEFINE b == buffer[p]
           a == Appended(b, chunk)
<1>1. b \in Buffer /\ sent \in [Puts -> 0..Chunks] /\ Chunks \in Nat
  BY PipelineAssumption DEF PipelineInv, TypeOK
<1>2. /\ buffer'[p] = a /\ put'[p] = (IF Waits(b) THEN "blocked" ELSE "reading") /\ sent'[p] = chunk
      /\ \A q \in Puts \ {p} : put'[q] = put[q] /\ sent'[q] = sent[q] /\ buffer'[q] = buffer[q]
  BY DEF PipelineInv, TypeOK, AppendTo
<1>3. a \in Buffer /\ a.reader = b.reader
  BY <1>1, AppendedProperties
<1>4. TypeOK'
  <2>1. buffer' \in [Puts -> Buffer]
    BY <1>3 DEF PipelineInv, TypeOK, AppendTo
  <2>2. put' \in [Puts -> {"new", "reading", "blocked", "stranded"} \cup Terminal]
    BY DEF PipelineInv, TypeOK, AppendTo
  <2>3. sent' \in [Puts -> 0..Chunks]
    BY <1>1
  <2> QED
    BY <2>1, <2>2, <2>3 DEF PipelineInv, TypeOK
<1>5. put[p] \notin Terminal /\ put'[p] \notin Terminal
  BY <1>2 DEF Terminal
<1>6. ProducerInv(p)'
  <2>1. ProducerInv(p)
    BY DEF PipelineInv
  <2>2. chunk > 0 /\ put'[p] # "done"
    BY <1>2
  <2>3. Waits(b) => ~a.dropped /\ a.reader /\ a.bytes = MaxBuffer
    BY <1>1, AppendedProperties
  <2>4. a.dropped => a.space /\ ~a.reader
    BY <1>1, <2>1, AppendedProperties DEF ProducerInv
  <2> QED
    BY <1>2, <2>2, <2>3, <2>4 DEF ProducerInv
<1>7. ASSUME ~a.dropped
      PROVE  ~b.dropped /\ \A k \in Nat : Fresh(p, k) => Fresh(p, k)'
  <2>1. ~b.dropped /\ (IF Waits(b) THEN a.queue = b.queue /\ a.bytes = b.bytes
                                   ELSE a.queue = Append(b.queue, chunk) /\ a.bytes = b.bytes + 1)
    BY <1>1, <1>7, AppendedProperties
  <2>2. Entered(p)' = IF Waits(b) THEN chunk - 1 ELSE chunk
    BY <1>2 DEF Entered
  <2>3. b.queue \in Seq(1..Chunks \cup Sentinels) /\ b.bytes \in 0..MaxBuffer /\ MaxBuffer \in Nat
    BY <1>1, PipelineAssumption DEF Buffer
  <2> SUFFICES ASSUME NEW k \in Nat, Fresh(p, k) PROVE Fresh(p, k)'
    BY <2>1
  <2>4. /\ k + b.bytes = chunk - 1 /\ Len(b.queue) = b.bytes
        /\ \A i \in 1..b.bytes : b.queue[i] = k + i
    BY <1>1, <1>5, <2>3 DEF Fresh, Entered
  <2> HIDE DEF a, b
  <2>5. /\ k + a.bytes = Entered(p)' /\ Len(a.queue) = a.bytes
        /\ \A i \in 1..a.bytes : a.queue[i] = k + i
    <3>1. CASE Waits(b)
      BY <2>1, <2>2, <2>4, <3>1
    <3>2. CASE ~Waits(b)
      <4> DEFINE queue == b.queue
      <4>1. queue \in Seq(1..Chunks \cup Sentinels) /\ chunk \in 1..Chunks \cup Sentinels
        BY <2>3
      <4> HIDE DEF queue
      <4>2. /\ Len(Append(queue, chunk)) = Len(queue) + 1 /\ Append(queue, chunk)[Len(queue) + 1] = chunk
            /\ \A i \in 1..Len(queue) : Append(queue, chunk)[i] = queue[i]
        BY <4>1
      <4>3. a.queue = Append(queue, chunk) /\ a.bytes = b.bytes + 1 /\ Len(queue) = b.bytes
            /\ \A i \in 1..b.bytes : queue[i] = k + i
        BY <2>1, <2>4, <3>2 DEF queue
      <4>4. b.bytes \in Nat /\ chunk = k + b.bytes + 1
        BY <2>3, <2>4
      <4>5. ASSUME NEW i \in 1..(b.bytes + 1) PROVE Append(queue, chunk)[i] = k + i
        BY <4>2, <4>3, <4>4
      <4> QED
        BY <2>2, <3>2, <4>2, <4>3, <4>4, <4>5
    <3> QED
      BY <3>1, <3>2
  <2> QED
    BY <1>2, <1>5, <2>3, <2>1, <2>5 DEF Fresh
<1> QED
  BY <1>2, <1>3, <1>4, <1>5, <1>6, <1>7, NobodyWakes, UploadStep

\* The sentinel of the end comes after the chunks.
LEMMA MarkStep ==
  ASSUME PipelineInv, NEW p \in Puts, put[p] = "reading", NEW state \in Terminal,
         put' = [put EXCEPT ![p] = state], state = "done" => sent[p] = Chunks,
         buffer' = [buffer EXCEPT ![p] = Marked(@, IF state = "done" THEN DONE ELSE FAILED)],
         disk' \in Puts \cup {None}, UNCHANGED <<sent, registered, waiter, fired, get, got>>
  PROVE  PipelineInv'
<1> DEFINE b == buffer[p]
           last == IF state = "done" THEN DONE ELSE FAILED
           a == Marked(b, last)
<1>1. b \in Buffer /\ b.queue \in Seq(1..Chunks \cup Sentinels) /\ last \in Sentinels
  BY DEF PipelineInv, TypeOK, Buffer, Sentinels
<1>2. /\ buffer'[p] = a /\ put'[p] = state
      /\ \A q \in Puts \ {p} : put'[q] = put[q] /\ sent'[q] = sent[q] /\ buffer'[q] = buffer[q]
  BY DEF PipelineInv, TypeOK
<1>3. /\ a \in Buffer /\ a.queue = Append(b.queue, last) /\ a.bytes = b.bytes /\ a.reader = b.reader
      /\ a.dropped = b.dropped /\ a.space = b.space
  <2>1. Append(b.queue, last) \in Seq(1..Chunks \cup Sentinels)
    BY <1>1
  <2> QED
    BY <1>1, <2>1 DEF Marked, Buffer
<1>4. TypeOK'
  <2>1. buffer' \in [Puts -> Buffer]
    BY <1>3 DEF PipelineInv, TypeOK
  <2>2. put' \in [Puts -> {"new", "reading", "blocked", "stranded"} \cup Terminal]
    BY DEF PipelineInv, TypeOK
  <2> QED
    BY <2>1, <2>2 DEF PipelineInv, TypeOK
<1>5. ProducerInv(p)'
  BY <1>2, <1>3 DEF PipelineInv, ProducerInv, Terminal
<1>6. put[p] \notin Terminal /\ put'[p] \in Terminal /\ Entered(p)' = Entered(p)
  BY <1>2 DEF Terminal, Entered
<1>7. ASSUME NEW k \in Nat, Fresh(p, k) PROVE Fresh(p, k)'
  <2> DEFINE queue == b.queue
  <2>1. /\ k + b.bytes = Entered(p) /\ Len(queue) = b.bytes /\ b.bytes \in Nat
        /\ \A i \in 1..b.bytes : queue[i] = k + i
    BY <1>1, <1>6, <1>7, PipelineAssumption DEF Fresh, Buffer
  <2> HIDE DEF queue
  <2>2. queue \in Seq(1..Chunks \cup Sentinels) /\ last \in 1..Chunks \cup Sentinels
    BY <1>1 DEF queue
  <2> HIDE DEF last
  <2>3. /\ Len(Append(queue, last)) = Len(queue) + 1 /\ Append(queue, last)[Len(queue) + 1] = last
        /\ \A i \in 1..Len(queue) : Append(queue, last)[i] = queue[i]
    BY <2>2
  <2>4. a.queue = Append(queue, last) /\ a.bytes = b.bytes
    BY <1>3 DEF queue
  <2>5. last = IF put'[p] = "done" THEN DONE ELSE FAILED
    BY <1>2 DEF last
  <2> HIDE DEF a, b
  <2> QED
    BY <1>2, <1>6, <2>1, <2>3, <2>4, <2>5 DEF Fresh
<1> QED
  BY <1>2, <1>3, <1>4, <1>5, <1>6, <1>7, NobodyWakes, UploadStep

\* The upload begins, or its buffer is left to itself.
LEMMA OpenStep ==
  ASSUME PipelineInv, NEW p \in Puts, Open(p)
  PROVE  PipelineInv'
<1>1. TypeOK'
  BY DEF PipelineInv, TypeOK, Open, Woke
<1>2. WaitersInv'
  BY DEF PipelineInv, WaitersInv, TimedOutWith, Open, Woke
<1>3. /\ put'[p] = "reading" /\ put[p] \notin Terminal /\ put'[p] \notin Terminal /\ Entered(p)' = Entered(p)
      /\ \A q \in Puts \ {p} : put'[q] = put[q]
  BY DEF PipelineInv, TypeOK, Open, Entered, Terminal
<1>4. ProducerInv(p)' /\ UNCHANGED <<sent, buffer, get, got>>
  BY <1>3 DEF PipelineInv, ProducerInv, Open
<1>5. \A k \in Nat : Fresh(p, k) => Fresh(p, k)'
  BY <1>3, <1>4 DEF Fresh
<1>6. buffer[p].dropped => ~buffer[p].reader
  BY DEF PipelineInv, ProducerInv
<1> QED
  BY <1>1, <1>2, <1>3, <1>4, <1>5, <1>6, UploadStep

LEMMA StrandStep ==
  ASSUME PipelineInv, NEW p \in Puts, Strand(p)
  PROVE  PipelineInv'
<1>1. TypeOK'
  BY DEF PipelineInv, TypeOK, Strand
<1>2. WaitersInv'
  BY NobodyWakes DEF Strand
<1>3. /\ put'[p] = "stranded" /\ put[p] \notin Terminal /\ put'[p] \notin Terminal /\ Entered(p)' = Entered(p)
      /\ \A q \in Puts \ {p} : put'[q] = put[q]
  BY DEF PipelineInv, TypeOK, Strand, Entered, Terminal
<1>4. ProducerInv(p)' /\ UNCHANGED <<sent, buffer, get, got>>
  BY <1>3 DEF PipelineInv, ProducerInv, Strand
<1>5. \A k \in Nat : Fresh(p, k) => Fresh(p, k)'
  BY <1>3, <1>4 DEF Fresh
<1> QED
  BY <1>1, <1>2, <1>3, <1>4, <1>5, UploadStep

LEMMA ForgetStep ==
  ASSUME PipelineInv, Forget
  PROVE  PipelineInv'
<1>1. UNCHANGED <<put, sent, buffer, waiter, fired, disk, get, got>> /\ registered' = None
  BY DEF Forget
<1>2. TypeOK' /\ WaitersInv'
  BY <1>1 DEF PipelineInv, TypeOK, WaitersInv, TimedOutWith
<1>3. (\A p \in Puts : HeldInv(p)' /\ ProducerInv(p)') /\ ContentsInv'
  BY <1>1 DEF PipelineInv, HeldInv, Holds, ProducerInv, ContentsInv, Drained, Fresh, Entered
<1>4. ReadersInv' /\ BodyIsPrefix'
  BY <1>1 DEF PipelineInv, ReadersInv, BodyIsPrefix
<1> QED
  BY <1>2, <1>3, <1>4 DEF PipelineInv

------------------------------------------------------------------------------
(* The steps of a download.                                                *)

\* What the steps of g leave of the other downloads' waiting.
LEMMA OthersWait ==
  ASSUME PipelineInv, NEW g \in Gets, get[g].state \notin {"sent_file", "not_found"},
         get'[g].state # "waits_open", \A h \in Gets \ {g} : get'[h] = get[h],
         UNCHANGED <<registered, waiter, fired>>
  PROVE  WaitersInv'
<1>1. \A e \in Gets : TimedOutWith(e) => TimedOutWith(e)'
  BY DEF TimedOutWith
<1> QED
  BY <1>1 DEF PipelineInv, WaitersInv

LEMMA TypeOfGet ==
  ASSUME PipelineInv, NEW g \in Gets
  PROVE  /\ get[g].buf \in Puts \cup {None} /\ get[g].event \in Gets \cup {None}
         /\ get[g].head \in BOOLEAN /\ get[g].state \in GetStates
BY DEF PipelineInv, TypeOK

\* A download that has no reader waits, or gets the file or nothing.
LEMMA LookStep ==
  ASSUME PipelineInv, TypeOK', WaitersInv', NEW g \in Gets,
         get[g].state \in {"new", "waits_open", "waits_end"},
         \A h \in Gets \ {g} : get'[h] = get[h],
         get'[g].state \in {"waits_open", "waits_end", "sent_file", "not_found"},
         get'[g].state = "waits_end" => get'[g].buf \in Puts,
         get'[g].state = "waits_open" => get[g].state = "new",
         UNCHANGED <<put, sent, buffer, got>>
  PROVE  PipelineInv'
<1>1. \A p \in Puts, h \in Gets : Holds(h, p)' <=> Holds(h, p)
  BY DEF Holds
<1>2. \A p \in Puts : HeldInv(p)' /\ ProducerInv(p)'
  BY <1>1 DEF PipelineInv, HeldInv, ProducerInv
<1>3. ContentsInv'
  <2>1. ASSUME NEW p \in Puts
        PROVE  /\ Drained(p) => Drained(p)'
               /\ Fresh(p, 0)' <=> Fresh(p, 0)
               /\ \A h \in Gets : Fresh(p, Len(got[h]))' <=> Fresh(p, Len(got[h]))
    BY DEF Drained, Fresh, Entered, Ended
  <2> QED
    BY <1>1, <2>1 DEF PipelineInv, ContentsInv
<1>4. ReadersInv' /\ BodyIsPrefix'
  BY DEF PipelineInv, ReadersInv, BodyIsPrefix, Ended
<1> QED
  BY <1>2, <1>3, <1>4 DEF PipelineInv

\* send_file, or a 404.
LEMMA FromDiskStep ==
  ASSUME PipelineInv, WaitersInv', NEW g \in Gets,
         get[g].state \in {"new", "waits_open", "waits_end"}, FromDisk(g),
         waiter' \in Gets \cup {None},
         UNCHANGED <<put, sent, registered, fired, disk, got>>
  PROVE  PipelineInv'
<1>1. /\ get'[g].state \in {"sent_file", "not_found"} /\ \A h \in Gets \ {g} : get'[h] = get[h]
      /\ buffer' = buffer
  BY DEF PipelineInv, TypeOK, FromDisk, Goes
<1>2. TypeOK'
  <2>1. get' \in [Gets -> [state : GetStates, head : BOOLEAN, buf : Puts \cup {None}, event : Gets \cup {None}]]
    <3>1. (IF disk = None THEN "not_found" ELSE "sent_file") \in GetStates
      BY DEF GetStates
    <3> QED
      BY <3>1 DEF PipelineInv, TypeOK, FromDisk, Goes
  <2> QED
    BY <1>1, <2>1 DEF PipelineInv, TypeOK
<1> QED
  BY <1>1, <1>2, LookStep

\* A reader is attached to a buffer that holds the body from its start, or
\* nothing after its end.
LEMMA ReaderStep ==
  ASSUME PipelineInv, NEW g \in Gets, get[g].state \in {"new", "waits_open"},
         NEW p \in Puts, CanAttach(buffer[p]), NEW head \in BOOLEAN,
         buffer' = [buffer EXCEPT ![p].reader = TRUE],
         get' = [get EXCEPT ![g].state = IF head THEN "unread" ELSE "streams",
                            ![g].head = head, ![g].buf = p],
         UNCHANGED <<put, sent, registered, waiter, fired, disk, got>>
  PROVE  PipelineInv'
<1>1. /\ get'[g].state \in {"streams", "unread"} /\ get'[g].buf = p /\ get'[g].event = get[g].event
      /\ \A h \in Gets \ {g} : get'[h] = get[h]
  BY DEF PipelineInv, TypeOK
<1>2. /\ buffer'[p].reader = TRUE /\ buffer'[p].dropped = buffer[p].dropped
      /\ buffer'[p].queue = buffer[p].queue /\ buffer'[p].bytes = buffer[p].bytes
      /\ buffer'[p].space = buffer[p].space
      /\ \A q \in Puts \ {p} : buffer'[q] = buffer[q]
  BY DEF PipelineInv, TypeOK, Buffer
<1>3. TypeOK'
  <2>1. buffer' \in [Puts -> Buffer]
    <3>1. buffer' = [buffer EXCEPT ![p] = [buffer[p] EXCEPT !.reader = TRUE]]
      OBVIOUS
    <3>2. [buffer[p] EXCEPT !.reader = TRUE] \in Buffer
      BY DEF PipelineInv, TypeOK, Buffer
    <3> QED
      BY <3>1, <3>2 DEF PipelineInv, TypeOK
  <2>2. get' \in [Gets -> [state : GetStates, head : BOOLEAN, buf : Puts \cup {None}, event : Gets \cup {None}]]
    <3> DEFINE Download == [state : GetStates, head : BOOLEAN, buf : Puts \cup {None}, event : Gets \cup {None}]
               d == [get[g] EXCEPT !.state = IF head THEN "unread" ELSE "streams", !.head = head, !.buf = p]
    <3>1. (IF head THEN "unread" ELSE "streams") \in GetStates
      BY DEF GetStates
    <3>2. get \in [Gets -> Download]
      BY DEF PipelineInv, TypeOK
    <3>3. get[g] \in Download
      BY <3>2
    <3>4. d \in Download
      BY <3>1, <3>3
    <3>5. get' = [get EXCEPT ![g] = d]
      OBVIOUS
    <3> HIDE DEF Download, d
    <3>6. get' \in [Gets -> Download]
      BY <3>2, <3>4, <3>5
    <3> QED
      BY <3>6 DEF Download
  <2> QED
    BY <2>1, <2>2 DEF PipelineInv, TypeOK
<1>4. ~buffer[p].reader /\ ~buffer[p].dropped
  BY DEF CanAttach
<1>5. \A q \in Puts, h \in Gets : Holds(h, q)' <=> Holds(h, q) \/ (h = g /\ q = p)
  BY <1>1 DEF Holds
<1>6. \A h \in Gets : ~Holds(h, p)
  BY <1>4 DEF PipelineInv, HeldInv
<1>7. \A q \in Puts : HeldInv(q)' /\ ProducerInv(q)'
  <2>1. HeldInv(p)' /\ ProducerInv(p)'
    BY <1>2, <1>4, <1>5, <1>6 DEF PipelineInv, HeldInv, ProducerInv
  <2>2. ASSUME NEW q \in Puts \ {p} PROVE HeldInv(q)' /\ ProducerInv(q)'
    BY <1>2, <1>5, <2>2 DEF PipelineInv, HeldInv, ProducerInv
  <2> QED
    BY <2>1, <2>2
<1>8. ContentsInv'
  <2>1. got[g] = << >> /\ Len(got[g]) = 0
    BY DEF PipelineInv, ReadersInv
  <2>2. ASSUME NEW q \in Puts
        PROVE  /\ Drained(q) => Drained(q)'
               /\ Fresh(q, 0)' <=> Fresh(q, 0)
               /\ \A h \in Gets : Fresh(q, Len(got[h]))' <=> Fresh(q, Len(got[h]))
    <3>1. /\ buffer'[q].queue = buffer[q].queue /\ buffer'[q].bytes = buffer[q].bytes
          /\ put' = put /\ sent' = sent /\ got' = got
      BY <1>2
    <3>2. Drained(q) => Drained(q)'
      BY <1>1, <3>1 DEF Drained, Ended
    <3>3. Fresh(q, 0)' <=> Fresh(q, 0)
      BY <3>1 DEF Fresh, Entered
    <3>4. ASSUME NEW h \in Gets PROVE Fresh(q, Len(got[h]))' <=> Fresh(q, Len(got[h]))
      BY <3>1 DEF Fresh, Entered
    <3> QED
      BY <3>2, <3>3, <3>4
  <2>3. ASSUME NEW q \in Puts, ~buffer'[q].reader, ~buffer'[q].dropped
        PROVE  Drained(q)' \/ Fresh(q, 0)'
    BY <1>2, <2>2, <2>3 DEF PipelineInv, ContentsInv
  <2>4. ASSUME NEW q \in Puts, NEW h \in Gets, Holds(h, q)'
        PROVE  ((Drained(q) /\ got[h] = << >>) \/ Fresh(q, Len(got[h])))'
    <3>1. CASE h = g /\ q = p
      <4>1. Drained(p) \/ Fresh(p, Len(got[g]))
        BY <1>4, <2>1 DEF PipelineInv, ContentsInv
      <4> QED
        BY <2>1, <2>2, <3>1, <4>1
    <3>2. CASE Holds(h, q)
      BY <2>2, <3>2 DEF PipelineInv, ContentsInv
    <3> QED
      BY <1>5, <2>4, <3>1, <3>2
  <2> QED
    BY <2>3, <2>4 DEF ContentsInv
<1>9. ReadersInv' /\ BodyIsPrefix'
  <2>1. ReadersInv'
    BY <1>1 DEF PipelineInv, ReadersInv, Ended
  <2>2. get'[g].state \notin {"body_done", "body_failed"} /\ got' = got /\ put' = put
    BY <1>1
  <2>3. BodyIsPrefix'
    <3> SUFFICES ASSUME NEW h \in Gets
                 PROVE  /\ got[h] = FirstChunks(Len(got[h]))
                        /\ get'[h].state = "body_done" => Len(got[h]) = Chunks
                        /\ get'[h].state = "body_failed" => put[get'[h].buf] = "failed"
      BY <2>2 DEF BodyIsPrefix
    <3>1. /\ got[h] = FirstChunks(Len(got[h]))
          /\ get[h].state = "body_done" => Len(got[h]) = Chunks
          /\ get[h].state = "body_failed" => put[get[h].buf] = "failed"
      BY DEF PipelineInv, BodyIsPrefix
    <3>2. get'[h] = get[h] \/ get'[h].state \notin {"body_done", "body_failed"}
      BY <1>1, <2>2
    <3> QED
      BY <3>1, <3>2
  <2> QED
    BY <2>1, <2>3
<1>10. WaitersInv'
  BY <1>1, OthersWait
<1> QED
  BY <1>3, <1>7, <1>8, <1>9, <1>10 DEF PipelineInv

\* The buffer of a download that streams.
LEMMA StreamedBuffer ==
  ASSUME PipelineInv, NEW g \in Gets, get[g].state = "streams"
  PROVE  LET p == get[g].buf IN
         /\ p \in Puts /\ buffer[p].reader /\ ~buffer[p].dropped /\ buffer[p] \in Buffer
         /\ Len(got[g]) \in Nat /\ buffer[p].bytes \in Nat
         /\ \A h \in Gets : Holds(h, p) <=> h = g
         /\ (Drained(p) /\ got[g] = << >>) \/ Fresh(p, Len(got[g]))
<1> DEFINE p == get[g].buf
<1>1. p \in Puts
  BY DEF PipelineInv, ReadersInv
<1>2. Holds(g, p)
  BY DEF Holds
<1> HIDE DEF p
<1>3. /\ buffer[p].reader /\ \A h \in Gets : Holds(h, p) <=> h = g
      /\ ~buffer[p].dropped
  BY <1>1, <1>2 DEF PipelineInv, HeldInv, ProducerInv
<1>4. buffer[p] \in Buffer /\ got[g] \in Seq(1..Chunks)
  BY <1>1 DEF PipelineInv, TypeOK
<1>5. Len(got[g]) \in Nat /\ buffer[p].bytes \in Nat
  BY <1>4, PipelineAssumption DEF Buffer
<1>6. (Drained(p) /\ got[g] = << >>) \/ Fresh(p, Len(got[g]))
  BY <1>1, <1>2 DEF PipelineInv, ContentsInv
<1> QED
  BY <1>1, <1>3, <1>4, <1>5, <1>6 DEF p

\* The next item is the next chunk, or the sentinel of an upload all of whose
\* chunks were handed over.
LEMMA NextItem ==
  ASSUME PipelineInv, NEW g \in Gets, get[g].state = "streams", buffer[get[g].buf].queue # << >>
  PROVE  LET p == get[g].buf
             item == Head(buffer[p].queue)
         IN  /\ Fresh(p, Len(got[g]))
             /\ \/ buffer[p].bytes > 0 /\ item = Len(got[g]) + 1 /\ item \in 1..Chunks /\ item \notin Sentinels
                \/ put[p] = "done" /\ item = DONE /\ Len(got[g]) = Chunks
                \/ put[p] = "failed" /\ item = FAILED
<1> DEFINE p == get[g].buf
           queue == buffer[p].queue
           k == Len(got[g])
           bytes == buffer[p].bytes
<1>1. Fresh(p, k) /\ p \in Puts /\ k \in Nat /\ bytes \in Nat
  BY StreamedBuffer DEF Drained
<1>2. queue \in Seq(1..Chunks \cup Sentinels)
  BY <1>1, StreamedBuffer DEF Buffer
<1>3. Len(queue) \in Nat /\ Len(queue) > 0 /\ Head(queue) = queue[1]
  BY <1>2
<1>4. /\ sent[p] \in 0..Chunks /\ Chunks \in Nat
      /\ put[p] = "done" => sent[p] = Chunks
  BY <1>1, PipelineAssumption DEF PipelineInv, TypeOK, ProducerInv
<1>5. put[p] \in {"new", "reading", "blocked", "stranded"} \cup Terminal
  BY <1>1 DEF PipelineInv, TypeOK
<1>6. put[p] = "blocked" => sent[p] > 0
  BY <1>1 DEF PipelineInv, ProducerInv
<1> HIDE DEF p, k
<1>7. CASE bytes > 0
  <2>1. queue[1] = k + 1 /\ k + bytes = Entered(p)
    BY <1>1, <1>7 DEF Fresh
  <2>2. Entered(p) \in 0..Chunks
    BY <1>4, <1>6 DEF Entered
  <2>3. k + 1 \in 1..Chunks
    BY <1>1, <1>4, <1>7, <2>1, <2>2
  <2>4. k + 1 \notin Sentinels
    BY <1>1 DEF Sentinels, DONE, FAILED, DROPPED
  <2> QED
    BY <1>1, <1>3, <1>7, <2>1, <2>3, <2>4 DEF p, k
<1>8. CASE bytes = 0
  <2>1. put[p] \in Terminal
    BY <1>1, <1>3, <1>8 DEF Fresh
  <2>2. queue[1] = IF put[p] = "done" THEN DONE ELSE FAILED
    BY <1>1, <1>8, <2>1 DEF Fresh
  <2>3. k = Entered(p) /\ Entered(p) = sent[p]
    BY <1>1, <1>4, <1>8, <2>1 DEF Fresh, Entered, Terminal
  <2> QED
    BY <1>1, <1>3, <1>4, <2>1, <2>2, <2>3 DEF p, k, Terminal
<1> QED
  BY <1>1, <1>7, <1>8

\* A body ends: its buffer is empty from now on, and abandoned if the upload goes on.
LEMMA EndBodyStep ==
  ASSUME PipelineInv, NEW g \in Gets, get[g].state = "streams", NEW p \in Puts, p = get[g].buf,
         NEW state \in Ended, EndBody(g, state),
         state = "body_done" => Len(got[g]) = Chunks,
         state = "body_failed" => put[p] = "failed"
  PROVE  PipelineInv'
<1> DEFINE b == buffer[p]
           a == Detached(p)
<1>1. /\ b.reader /\ ~b.dropped /\ b \in Buffer
      /\ \A h \in Gets : Holds(h, p) <=> h = g
  BY StreamedBuffer
<1>2. /\ buffer' = [buffer EXCEPT ![p] = a] /\ get' = [get EXCEPT ![g].state = state]
      /\ UNCHANGED <<put, sent, registered, waiter, fired, disk, got>>
  BY DEF EndBody, Goes
<1>3. /\ a \in Buffer /\ a.queue = << >> /\ a.bytes = 0 /\ ~a.reader /\ a.space
      /\ a.dropped <=> put[p] \notin Terminal
  <2>1. a = [b EXCEPT !.queue = << >>, !.bytes = 0, !.reader = FALSE, !.space = TRUE,
                      !.dropped = @ \/ put[p] \notin Terminal]
    BY <1>1 DEF Detached
  <2>2. << >> \in Seq(1..Chunks \cup Sentinels) /\ 0 \in 0..MaxBuffer
    BY PipelineAssumption
  <2>3. a = [queue |-> << >>, bytes |-> 0, space |-> TRUE, reader |-> FALSE,
             dropped |-> (b.dropped \/ put[p] \notin Terminal)]
    BY <1>1, <2>1 DEF Buffer
  <2>4. a.dropped = (b.dropped \/ put[p] \notin Terminal) /\ a.reader = FALSE /\ a.space = TRUE
    BY <2>3
  <2>5. a \in Buffer
    BY <2>2, <2>3 DEF Buffer
  <2>6. a.queue = << >> /\ a.bytes = 0
    BY <2>3
  <2>7. CASE put[p] \in Terminal
    <3>1. a.dropped = FALSE
      BY <1>1, <2>4, <2>7
    <3> QED
      BY <2>4, <2>5, <2>6, <2>7, <3>1
  <2>8. CASE put[p] \notin Terminal
    <3>1. a.dropped = TRUE
      BY <2>4, <2>8
    <3> QED
      BY <2>4, <2>5, <2>6, <2>8, <3>1
  <2> QED
    BY <2>7, <2>8
<1> HIDE DEF a
<1>4. /\ buffer'[p] = a /\ \A q \in Puts \ {p} : buffer'[q] = buffer[q]
      /\ get'[g].state = state /\ get'[g].buf = p /\ \A h \in Gets \ {g} : get'[h] = get[h]
  BY <1>1, <1>2 DEF PipelineInv, TypeOK
<1>5. TypeOK'
  <2>1. buffer' \in [Puts -> Buffer]
    BY <1>1, <1>2, <1>3 DEF PipelineInv, TypeOK
  <2>2. get' \in [Gets -> [state : GetStates, head : BOOLEAN, buf : Puts \cup {None}, event : Gets \cup {None}]]
    <3>1. state \in GetStates
      BY DEF Ended, GetStates
    <3> QED
      BY <1>2, <3>1 DEF PipelineInv, TypeOK
  <2> QED
    BY <1>2, <2>1, <2>2 DEF PipelineInv, TypeOK
<1>6. state \notin {"streams", "unread", "new", "waits_open", "sent_file", "not_found"}
  BY DEF Ended
<1>7. \A q \in Puts, h \in Gets : Holds(h, q)' <=> Holds(h, q) /\ h # g
  BY <1>4, <1>6 DEF Holds
<1>8. \A q \in Puts \ {p} : ~Holds(g, q)
  BY <1>1 DEF Holds
<1>9. \A q \in Puts : HeldInv(q)' /\ ProducerInv(q)'
  <2>1. HeldInv(p)' /\ ProducerInv(p)'
    BY <1>1, <1>2, <1>3, <1>4, <1>7 DEF PipelineInv, HeldInv, ProducerInv
  <2>2. ASSUME NEW q \in Puts \ {p} PROVE HeldInv(q)' /\ ProducerInv(q)'
    BY <1>2, <1>4, <1>7, <1>8, <2>2 DEF PipelineInv, HeldInv, ProducerInv
  <2> QED
    BY <2>1, <2>2
<1>10. ContentsInv'
  <2>1. put[p] \in Terminal => Drained(p)'
    BY <1>2, <1>3, <1>4 DEF Drained
  <2>2. ASSUME NEW q \in Puts \ {p}
        PROVE  /\ Drained(q) => Drained(q)'
               /\ Fresh(q, 0)' <=> Fresh(q, 0)
               /\ \A h \in Gets : Fresh(q, Len(got[h]))' <=> Fresh(q, Len(got[h]))
    BY <1>2, <1>4, <2>2 DEF Drained, Fresh, Entered, Ended
  <2>3. ASSUME NEW q \in Puts, ~buffer'[q].reader, ~buffer'[q].dropped
        PROVE  Drained(q)' \/ Fresh(q, 0)'
    BY <1>3, <1>4, <2>1, <2>2, <2>3 DEF PipelineInv, ContentsInv
  <2>4. ASSUME NEW q \in Puts, NEW h \in Gets, Holds(h, q)'
        PROVE  ((Drained(q) /\ got[h] = << >>) \/ Fresh(q, Len(got[h])))'
    <3>1. q # p /\ Holds(h, q) /\ got' = got
      BY <1>1, <1>2, <1>7, <2>4
    <3> QED
      BY <2>2, <3>1 DEF PipelineInv, ContentsInv
  <2> QED
    BY <2>3, <2>4 DEF ContentsInv
<1>11. ReadersInv'
  BY <1>1, <1>2, <1>4, <1>6 DEF PipelineInv, ReadersInv, Ended
<1>12. BodyIsPrefix'
  <2> SUFFICES ASSUME NEW h \in Gets
               PROVE  /\ got[h] = FirstChunks(Len(got[h]))
                      /\ get'[h].state = "body_done" => Len(got[h]) = Chunks
                      /\ get'[h].state = "body_failed" => put[get'[h].buf] = "failed"
    BY <1>2 DEF BodyIsPrefix
  <2>1. /\ got[h] = FirstChunks(Len(got[h]))
        /\ get[h].state = "body_done" => Len(got[h]) = Chunks
        /\ get[h].state = "body_failed" => put[get[h].buf] = "failed"
    BY DEF PipelineInv, BodyIsPrefix
  <2>2. h # g => get'[h] = get[h]
    BY <1>4
  <2> QED
    BY <1>4, <2>1, <2>2
<1>13. WaitersInv'
  BY <1>2, <1>4, <1>6, OthersWait
<1> QED
  BY <1>5, <1>9, <1>10, <1>11, <1>12, <1>13 DEF PipelineInv

LEMMA TailProperties ==
  ASSUME NEW S, NEW q \in Seq(S), q # << >>
  PROVE  /\ Tail(q) \in Seq(S) /\ Len(q) > 0 /\ Len(Tail(q)) = Len(q) - 1
         /\ \A i \in 1..(Len(q) - 1) : Tail(q)[i] = q[i + 1]
OBVIOUS

\* Of a record set that stands for Buffer.
LEMMA ShorterQueue ==
  ASSUME NEW Q, NEW N, NEW S, NEW R, NEW D, NEW queue \in Q, NEW bytes \in N,
         NEW b \in [queue : Q, bytes : N, space : S, reader : R, dropped : D]
  PROVE  LET left == [b EXCEPT !.queue = queue, !.bytes = bytes] IN
         /\ left \in [queue : Q, bytes : N, space : S, reader : R, dropped : D]
         /\ left.queue = queue /\ left.bytes = bytes
         /\ left.space = b.space /\ left.reader = b.reader /\ left.dropped = b.dropped
OBVIOUS

LEMMA TakenProperties ==
  ASSUME NEW b \in Buffer, b.queue # << >>, b.bytes > 0
  PROVE  LET a == Taken(b) IN
         /\ a \in Buffer /\ a.queue = Tail(b.queue) /\ a.bytes = b.bytes - 1 /\ a.space = TRUE
         /\ a.reader = b.reader /\ a.dropped = b.dropped
<1> DEFINE left == [b EXCEPT !.queue = Tail(b.queue), !.bytes = b.bytes - 1]
           a == Taken(b)
<1>1. b.queue \in Seq(1..Chunks \cup Sentinels) /\ b.bytes \in 0..MaxBuffer /\ MaxBuffer \in Nat
  BY PipelineAssumption DEF Buffer
<1>2. Tail(b.queue) \in Seq(1..Chunks \cup Sentinels)
  BY <1>1, TailProperties
<1>3. b.bytes - 1 \in 0..MaxBuffer /\ b.bytes - 1 < MaxBuffer
  BY <1>1
<1>4. /\ left \in Buffer /\ left.queue = Tail(b.queue) /\ left.bytes = b.bytes - 1
      /\ left.space = b.space /\ left.reader = b.reader /\ left.dropped = b.dropped
  BY <1>2, <1>3, ShorterQueue DEF Buffer
<1>5. a = [left EXCEPT !.space = left.space \/ left.bytes < MaxBuffer]
  BY DEF Taken
<1> HIDE DEF left
<1>6. (left.space \/ left.bytes < MaxBuffer) = TRUE
  BY <1>3, <1>4
<1>7. a = [left EXCEPT !.space = TRUE]
  BY <1>5, <1>6
<1> HIDE DEF a
<1>8. /\ a \in Buffer /\ a.queue = left.queue /\ a.bytes = left.bytes /\ a.space = TRUE
      /\ a.reader = left.reader /\ a.dropped = left.dropped
  BY <1>4, <1>7 DEF Buffer
<1> QED
  BY <1>4, <1>8 DEF a

\* A body gets one chunk longer.
LEMMA BodyGrows ==
  ASSUME NEW k \in Nat, NEW body \in Seq(1..Chunks), body = FirstChunks(k), Len(body) = k, k + 1 \in 1..Chunks
  PROVE  LET more == Append(body, k + 1) IN
         more \in Seq(1..Chunks) /\ Len(more) = k + 1 /\ more = FirstChunks(k + 1)
<1> DEFINE more == Append(body, k + 1)
<1>1. \A i \in 1..k : body[i] = i
  BY DEF FirstChunks
<1>2. more \in Seq(1..Chunks) /\ Len(more) = k + 1
  OBVIOUS
<1>3. \A i \in 1..(k + 1) : more[i] = i
  BY <1>1
<1> HIDE DEF more
<1>4. more = [i \in 1..Len(more) |-> more[i]]
  BY <1>2
<1> QED
  BY <1>2, <1>3, <1>4 DEF more, FirstChunks

\* The buffer then holds what follows one chunk more.
LEMMA FreshAfter ==
  ASSUME NEW k \in Nat, NEW bytes \in Nat, NEW queue \in Seq(1..Chunks \cup Sentinels), bytes > 0,
         NEW e \in {0, 1}, NEW last, Len(queue) = bytes + e,
         \A i \in 1..bytes : queue[i] = k + i, e = 1 => queue[bytes + 1] = last
  PROVE  /\ Len(Tail(queue)) = (bytes - 1) + e
         /\ \A i \in 1..(bytes - 1) : Tail(queue)[i] = (k + 1) + i
         /\ e = 1 => Tail(queue)[(bytes - 1) + 1] = last
<1>1. queue # << >>
  OBVIOUS
<1>2. Len(Tail(queue)) = Len(queue) - 1 /\ \A i \in 1..(Len(queue) - 1) : Tail(queue)[i] = queue[i + 1]
  BY <1>1, TailProperties
<1>3. \A i \in 1..(bytes - 1) : Tail(queue)[i] = queue[i + 1] /\ i + 1 \in 1..bytes
  BY <1>2
<1>4. e = 1 => Tail(queue)[bytes] = queue[bytes + 1]
  BY <1>2
<1>5. ASSUME NEW i \in 1..(bytes - 1) PROVE Tail(queue)[i] = (k + 1) + i
  <2>1. Tail(queue)[i] = queue[i + 1] /\ queue[i + 1] = k + (i + 1)
    BY <1>3
  <2> QED
    BY <2>1
<1>6. (bytes - 1) + 1 = bytes /\ Len(Tail(queue)) = (bytes - 1) + e
  BY <1>2
<1> QED
  BY <1>4, <1>5, <1>6

\* A chunk is handed over: the download has one more, the buffer one less.
Takes(g, p, k) ==
  /\ get[g].state = "streams" /\ get[g].buf = p /\ Len(got[g]) = k
  /\ buffer[p].queue # << >> /\ Head(buffer[p].queue) \notin Sentinels
  /\ buffer' = [buffer EXCEPT ![p] = Taken(@)]
  /\ got' = [got EXCEPT ![g] = Append(@, Head(buffer[p].queue))]
  /\ UNCHANGED <<put, sent, registered, waiter, fired, disk, get>>
LEMMA TakeStep ==
  ASSUME PipelineInv, NEW g \in Gets, NEW p \in Puts, NEW k \in Nat, Takes(g, p, k)
  PROVE  PipelineInv'
<1> DEFINE b == buffer[p]
           a == Taken(b)
<1>1. /\ b.reader /\ ~b.dropped /\ b \in Buffer /\ k \in Nat /\ b.bytes \in Nat
      /\ \A h \in Gets : Holds(h, p) <=> h = g
  BY StreamedBuffer DEF Takes
<1>2. Fresh(p, k) /\ b.bytes > 0 /\ Head(b.queue) = k + 1 /\ k + 1 \in 1..Chunks
  BY NextItem DEF Takes, Sentinels
<1>u. UNCHANGED <<put, sent, registered, waiter, fired, disk, get>> /\ b.queue # << >>
  BY DEF Takes
<1>3. /\ a \in Buffer /\ a.queue = Tail(b.queue) /\ a.bytes = b.bytes - 1 /\ a.space = TRUE
      /\ a.reader = b.reader /\ a.dropped = b.dropped
  BY <1>1, <1>2, <1>u, TakenProperties
<1> HIDE DEF a
<1>4. /\ buffer'[p] = a /\ \A q \in Puts \ {p} : buffer'[q] = buffer[q]
      /\ got'[g] = Append(got[g], k + 1) /\ \A h \in Gets \ {g} : got'[h] = got[h]
  BY <1>2 DEF PipelineInv, TypeOK, Takes, a
<1>5. Len(got'[g]) = k + 1 /\ got'[g] = FirstChunks(k + 1) /\ got'[g] \in Seq(1..Chunks)
  <2>1. got[g] \in Seq(1..Chunks) /\ got[g] = FirstChunks(k)
    BY DEF PipelineInv, TypeOK, BodyIsPrefix, Takes
  <2> DEFINE body == got[g]
  <2>2. body \in Seq(1..Chunks) /\ body = FirstChunks(k) /\ Len(body) = k /\ k + 1 \in 1..Chunks
    BY <1>2, <2>1 DEF Takes
  <2>3. got'[g] = Append(body, k + 1)
    BY <1>4
  <2> HIDE DEF body
  <2>4. /\ Append(body, k + 1) \in Seq(1..Chunks) /\ Len(Append(body, k + 1)) = k + 1
        /\ Append(body, k + 1) = FirstChunks(k + 1)
    BY <2>2, BodyGrows
  <2> QED
    BY <2>3, <2>4
<1>6. TypeOK'
  <2>1. buffer' \in [Puts -> Buffer]
    BY <1>3 DEF PipelineInv, TypeOK, Takes, a
  <2>2. got \in [Gets -> Seq(1..Chunks)]
    BY DEF PipelineInv, TypeOK
  <2>3. got' \in [Gets -> Seq(1..Chunks)]
    <3>1. got' = [got EXCEPT ![g] = got'[g]]
      BY <2>2 DEF Takes
    <3> QED
      BY <1>5, <2>2, <3>1
  <2> QED
    BY <1>u, <2>1, <2>3 DEF PipelineInv, TypeOK
<1>7. \A q \in Puts, h \in Gets : Holds(h, q)' <=> Holds(h, q)
  BY <1>u DEF Holds
<1>8. \A q \in Puts : HeldInv(q)' /\ ProducerInv(q)'
  <2>1. HeldInv(p)' /\ ProducerInv(p)'
    BY <1>1, <1>3, <1>4, <1>7, <1>u DEF PipelineInv, HeldInv, ProducerInv
  <2>2. ASSUME NEW q \in Puts \ {p} PROVE HeldInv(q)' /\ ProducerInv(q)'
    BY <1>4, <1>7, <1>u, <2>2 DEF PipelineInv, HeldInv, ProducerInv
  <2> QED
    BY <2>1, <2>2
<1>9. Fresh(p, k + 1)'
  <2> DEFINE e == IF put[p] \in Terminal THEN 1 ELSE 0
             last == IF put[p] = "done" THEN DONE ELSE FAILED
  <2>1. /\ k + b.bytes = Entered(p) /\ Len(b.queue) = b.bytes + e
        /\ \A i \in 1..b.bytes : b.queue[i] = k + i
        /\ e = 1 => b.queue[b.bytes + 1] = last
    BY <1>2 DEF Fresh
  <2>2. b.queue \in Seq(1..Chunks \cup Sentinels) /\ e \in {0, 1}
    BY <1>1 DEF Buffer
  <2>3. /\ Len(a.queue) = a.bytes + e /\ \A i \in 1..a.bytes : a.queue[i] = (k + 1) + i
        /\ e = 1 => a.queue[a.bytes + 1] = last
    <3> DEFINE queue == b.queue
               bytes == b.bytes
    <3>1. /\ bytes \in Nat /\ bytes > 0 /\ queue \in Seq(1..Chunks \cup Sentinels) /\ e \in {0, 1}
          /\ Len(queue) = bytes + e /\ \A i \in 1..bytes : queue[i] = k + i
          /\ e = 1 => queue[bytes + 1] = last
      BY <1>1, <1>2, <2>1, <2>2
    <3>2. a.queue = Tail(queue) /\ a.bytes = bytes - 1
      BY <1>3
    <3> HIDE DEF e, last, queue, bytes
    <3>3. /\ Len(Tail(queue)) = (bytes - 1) + e
          /\ \A i \in 1..(bytes - 1) : Tail(queue)[i] = (k + 1) + i
          /\ e = 1 => Tail(queue)[(bytes - 1) + 1] = last
      BY <3>1, FreshAfter
    <3> QED
      BY <3>2, <3>3
  <2>4. Entered(p)' = Entered(p)
    BY <1>u DEF Entered
  <2>5. (k + 1) + a.bytes = Entered(p)'
    <3>1. b.bytes \in Nat /\ a.bytes = b.bytes - 1
      BY <1>1, <1>3
    <3>2. k + b.bytes = Entered(p)
      BY <2>1
    <3> HIDE DEF b, e, last
    <3> QED
      BY <2>4, <3>1, <3>2
  <2> QED
    BY <1>4, <1>u, <2>3, <2>5 DEF Fresh
<1>10. ContentsInv'
  <2>1. ASSUME NEW q \in Puts \ {p}
        PROVE  /\ Drained(q) => Drained(q)'
               /\ Fresh(q, 0)' <=> Fresh(q, 0)
               /\ \A h \in Gets \ {g} : Fresh(q, Len(got[h]))' <=> Fresh(q, Len(got[h]))
    BY <1>4, <1>u, <2>1 DEF Drained, Fresh, Entered
  <2>2. buffer'[p].reader
    BY <1>1, <1>3, <1>4
  <2>3. ASSUME NEW q \in Puts, ~buffer'[q].reader, ~buffer'[q].dropped
        PROVE  Drained(q)' \/ Fresh(q, 0)'
    BY <1>4, <2>1, <2>2, <2>3 DEF PipelineInv, ContentsInv
  <2>4. ASSUME NEW q \in Puts, NEW h \in Gets, Holds(h, q)'
        PROVE  ((Drained(q) /\ got[h] = << >>) \/ Fresh(q, Len(got[h])))'
    <3>1. CASE q = p
      <4>1. h = g
        BY <1>1, <1>7, <2>4, <3>1
      <4>2. Fresh(q, Len(got[h]))'
        BY <1>5, <1>9, <3>1, <4>1 DEF Fresh
      <4> QED
        BY <4>2
    <3>2. CASE q # p
      <4>1. Holds(h, q) /\ h # g
        BY <1>7, <2>4, <3>2 DEF Holds, Takes
      <4>2. got'[h] = got[h]
        BY <1>4, <4>1
      <4>3. (Drained(q) /\ got[h] = << >>) \/ Fresh(q, Len(got[h]))
        BY <4>1 DEF PipelineInv, ContentsInv
      <4> QED
        BY <2>1, <3>2, <4>1, <4>2, <4>3
    <3> QED
      BY <3>1, <3>2
  <2> QED
    BY <2>3, <2>4 DEF ContentsInv
<1>11. ReadersInv'
  BY <1>4, <1>u DEF PipelineInv, ReadersInv, Takes
<1>12. BodyIsPrefix'
  <2>1. \A h \in Gets : got'[h] = FirstChunks(Len(got'[h]))
    BY <1>4, <1>5 DEF PipelineInv, BodyIsPrefix
  <2>2. get[g].state = "streams"
    BY DEF Takes
  <2>3. \A h \in Gets : /\ get'[h].state = "body_done" => Len(got'[h]) = Chunks
                        /\ get'[h].state = "body_failed" => put'[get'[h].buf] = "failed"
    BY <1>4, <1>u, <2>2 DEF PipelineInv, BodyIsPrefix
  <2> QED
    BY <2>1, <2>3 DEF BodyIsPrefix
<1> QED
  BY <1>u, <1>6, <1>8, <1>10, <1>11, <1>12, NobodyWakes DEF PipelineInv

\* get with the record of g changed as the handlers change it.
LEMMA GoesProperties ==
  ASSUME PipelineInv, NEW g \in Gets, NEW state \in GetStates, Goes(g, state)
  PROVE  /\ get'[g].state = state /\ get'[g].buf = get[g].buf /\ get'[g].event = get[g].event
         /\ \A h \in Gets \ {g} : get'[h] = get[h]
BY DEF PipelineInv, TypeOK, Goes

\* The answer of attach_reader, to a download that begins or was woken.
LEMMA AttachStep ==
  ASSUME PipelineInv, NEW g \in Gets, get[g].state \in {"new", "waits_open"}, NEW head \in BOOLEAN,
         Attach(g, head), UNCHANGED <<put, sent, registered, waiter, fired, disk, got>>
  PROVE  PipelineInv'
<1>1. registered \in Puts /\ waiter \in Gets \cup {None}
  BY DEF PipelineInv, TypeOK, Attach
<1> DEFINE b == buffer[registered]
<1>2. CASE /\ CanAttach(b) /\ buffer' = [buffer EXCEPT ![registered].reader = TRUE]
           /\ get' = [get EXCEPT ![g].state = IF head THEN "unread" ELSE "streams",
                                 ![g].head = head, ![g].buf = registered]
  BY <1>1, <1>2, ReaderStep
<1>3. CASE /\ get' = [get EXCEPT ![g].state = "waits_end", ![g].head = head, ![g].buf = registered]
           /\ UNCHANGED buffer
  <2>1. /\ get'[g].state = "waits_end" /\ get'[g].buf = registered
        /\ \A h \in Gets \ {g} : get'[h] = get[h]
    BY <1>3 DEF PipelineInv, TypeOK
  <2>2. get' \in [Gets -> [state : GetStates, head : BOOLEAN, buf : Puts \cup {None}, event : Gets \cup {None}]]
    <3> DEFINE d == [get[g] EXCEPT !.state = "waits_end", !.head = head, !.buf = registered]
    <3>1. d \in [state : GetStates, head : BOOLEAN, buf : Puts \cup {None}, event : Gets \cup {None}]
      BY <1>1 DEF PipelineInv, TypeOK, GetStates
    <3>2. get' = [get EXCEPT ![g] = d]
      BY <1>3
    <3> HIDE DEF d
    <3> QED
      BY <3>1, <3>2 DEF PipelineInv, TypeOK
  <2>3. TypeOK'
    BY <1>3, <2>2 DEF PipelineInv, TypeOK
  <2>4. WaitersInv'
    BY <2>1, OthersWait
  <2> QED
    BY <1>1, <1>3, <2>1, <2>3, <2>4, LookStep
<1>4. CASE FromDisk(g)
  <2>1. /\ get'[g].state \in {"sent_file", "not_found"}
        /\ \A h \in Gets \ {g} : get'[h] = get[h]
    BY <1>4, GoesProperties DEF FromDisk, GetStates
  <2>2. WaitersInv'
    BY <2>1, OthersWait
  <2> QED
    BY <1>1, <1>4, <2>2, FromDiskStep
<1> QED
  BY <1>2, <1>3, <1>4 DEF Attach

LEMMA RequestStep ==
  ASSUME PipelineInv, NEW g \in Gets, NEW head \in BOOLEAN, Request(g, head)
  PROVE  PipelineInv'
<1>1. get[g].state = "new" /\ UNCHANGED <<put, sent, registered, fired, disk, got>>
  BY DEF Request
<1>2. CASE Attach(g, head) /\ UNCHANGED waiter
  BY <1>1, <1>2, AttachStep
<1>3. CASE /\ registered = None /\ waiter' = (IF waiter = None THEN g ELSE waiter) /\ UNCHANGED buffer
           /\ get' = [get EXCEPT ![g].state = "waits_open", ![g].head = head, ![g].event = waiter']
  <2>1. waiter' \in Gets
    BY <1>3 DEF PipelineInv, TypeOK
  <2>2. /\ get'[g].state = "waits_open" /\ get'[g].event = waiter'
        /\ \A h \in Gets \ {g} : get'[h] = get[h]
    BY <1>3 DEF PipelineInv, TypeOK
  <2>3. get' \in [Gets -> [state : GetStates, head : BOOLEAN, buf : Puts \cup {None}, event : Gets \cup {None}]]
    <3> DEFINE d == [get[g] EXCEPT !.state = "waits_open", !.head = head, !.event = waiter']
    <3>1. d \in [state : GetStates, head : BOOLEAN, buf : Puts \cup {None}, event : Gets \cup {None}]
      BY <2>1 DEF PipelineInv, TypeOK, GetStates
    <3>2. get' = [get EXCEPT ![g] = d]
      BY <1>3
    <3> HIDE DEF d
    <3> QED
      BY <3>1, <3>2 DEF PipelineInv, TypeOK
  <2>4. TypeOK'
    BY <1>1, <1>3, <2>1, <2>3 DEF PipelineInv, TypeOK
  <2>5. WaitersInv'
    <3>1. ASSUME NEW h \in Gets, get'[h].state = "waits_open"
          PROVE  /\ get'[h].event \in Gets
                 /\ get'[h].event = waiter' \/ get'[h].event \in fired' \/ TimedOutWith(get[h].event)'
      <4>1. CASE h = g
        BY <2>1, <2>2, <4>1
      <4>2. CASE h # g
        <5>1. /\ get'[h] = get[h] /\ get[h].event \in Gets
              /\ get[h].event = waiter \/ get[h].event \in fired \/ TimedOutWith(get[h].event)
          BY <2>2, <3>1, <4>2 DEF PipelineInv, WaitersInv
        <5>2. get[h].event = waiter => waiter' = waiter
          BY <1>3, <5>1, PipelineAssumption
        <5>3. TimedOutWith(get[h].event) => TimedOutWith(get[h].event)'
          BY <1>1, <2>2, <5>1 DEF TimedOutWith
        <5> QED
          BY <1>1, <5>1, <5>2, <5>3
      <4> QED
        BY <4>1, <4>2
    <3>2. registered' = None
      BY <1>1, <1>3
    <3> QED
      BY <3>1, <3>2 DEF WaitersInv
  <2> QED
    BY <1>1, <1>3, <2>2, <2>4, <2>5, LookStep
<1> QED
  BY <1>1, <1>2, <1>3 DEF Request

LEMMA DiskStep ==
  ASSUME PipelineInv, NEW g \in Gets, get[g].state \in {"new", "waits_open", "waits_end"},
         FromDisk(g), UNCHANGED <<put, sent, registered, waiter, fired, disk, got>>
  PROVE  PipelineInv'
<1>1. /\ get'[g].state \in {"sent_file", "not_found"} /\ \A h \in Gets \ {g} : get'[h] = get[h]
  BY GoesProperties DEF FromDisk, GetStates
<1>2. WaitersInv'
  BY <1>1, OthersWait
<1>3. waiter \in Gets \cup {None}
  BY DEF PipelineInv, TypeOK
<1> QED
  BY <1>2, <1>3, FromDiskStep

LEMMA WokenStep ==
  ASSUME PipelineInv, NEW g \in Gets, Woken(g)
  PROVE  PipelineInv'
<1>1. get[g].state = "waits_open" /\ UNCHANGED <<put, sent, registered, waiter, fired, disk, got>>
  BY DEF Woken
<1>2. CASE Attach(g, get[g].head)
  BY <1>1, <1>2, TypeOfGet, AttachStep
<1>3. CASE FromDisk(g)
  BY <1>1, <1>3, DiskStep
<1> QED
  BY <1>2, <1>3 DEF Woken

\* A download that gives up takes its event out of the registry: it is the one
\* that the others with that event have to thank for missing the next upload.
LEMMA OpenTimeoutStep ==
  ASSUME PipelineInv, NEW g \in Gets, OpenTimeout(g)
  PROVE  PipelineInv'
<1>1. /\ get[g].state = "waits_open" /\ FromDisk(g) /\ UNCHANGED <<put, sent, registered, fired, disk, got>>
      /\ waiter' = IF waiter = get[g].event THEN None ELSE waiter
  BY DEF OpenTimeout
<1>2. /\ get'[g].state \in {"sent_file", "not_found"} /\ \A h \in Gets \ {g} : get'[h] = get[h]
      /\ get'[g].event = get[g].event
  BY <1>1, GoesProperties DEF FromDisk, GetStates
<1>3. waiter \in Gets \cup {None} /\ waiter' \in Gets \cup {None} /\ get[g].event \in Gets
  BY <1>1 DEF PipelineInv, TypeOK, WaitersInv
<1>4. TimedOutWith(get[g].event)'
  BY <1>2 DEF TimedOutWith
<1>5. WaitersInv'
  <2>1. waiter' # None => registered' = None
    BY <1>1 DEF PipelineInv, WaitersInv
  <2>2. ASSUME NEW h \in Gets, get'[h].state = "waits_open"
        PROVE  /\ get'[h].event \in Gets
               /\ get'[h].event = waiter' \/ get'[h].event \in fired' \/ TimedOutWith(get[h].event)'
    <3>1. h # g /\ get'[h] = get[h]
      BY <1>2, <2>2
    <3>2. /\ get[h].event \in Gets
          /\ get[h].event = waiter \/ get[h].event \in fired \/ TimedOutWith(get[h].event)
      BY <2>2, <3>1 DEF PipelineInv, WaitersInv
    <3>3. CASE get[h].event = get[g].event
      BY <1>2, <1>4, <3>1, <3>2, <3>3 DEF TimedOutWith
    <3>4. CASE get[h].event # get[g].event
      <4>1. get[h].event = waiter => waiter' = waiter
        BY <1>1, <3>4
      <4>2. TimedOutWith(get[h].event) => TimedOutWith(get[h].event)'
        BY <1>1, <1>2, <3>1 DEF TimedOutWith
      <4> QED
        BY <1>1, <3>1, <3>2, <4>1, <4>2
    <3> QED
      BY <3>3, <3>4
  <2> QED
    BY <2>1, <2>2 DEF WaitersInv
<1> QED
  BY <1>1, <1>3, <1>5, FromDiskStep

\* read_iter: a chunk, or the end that the sentinel tells.
LEMMA StreamStep ==
  ASSUME PipelineInv, NEW g \in Gets, Stream(g)
  PROVE  PipelineInv'
<1> DEFINE p == get[g].buf
           item == Head(buffer[p].queue)
<1>1. get[g].state = "streams" /\ buffer[p].queue # << >>
  BY DEF Stream
<1>2. p \in Puts /\ Len(got[g]) \in Nat
  BY <1>1, StreamedBuffer
<1>3. CASE /\ item \notin Sentinels
           /\ buffer' = [buffer EXCEPT ![p] = Taken(@)] /\ got' = [got EXCEPT ![g] = Append(@, item)]
           /\ UNCHANGED <<put, sent, registered, waiter, fired, disk, get>>
  <2>1. Takes(g, p, Len(got[g]))
    BY <1>1, <1>3 DEF Takes
  <2> QED
    BY <1>2, <2>1, TakeStep
<1>4. CASE item = DONE /\ EndBody(g, "body_done")
  <2>1. Len(got[g]) = Chunks
    BY <1>1, <1>4, NextItem DEF Sentinels, DONE, FAILED
  <2> QED
    BY <1>1, <1>2, <1>4, <2>1, EndBodyStep DEF Ended
<1>5. CASE item \in {FAILED, DROPPED} /\ EndBody(g, "body_failed")
  <2>1. put[p] = "failed"
    BY <1>1, <1>5, NextItem DEF Sentinels, DONE, FAILED, DROPPED
  <2> QED
    BY <1>1, <1>2, <1>5, <2>1, EndBodyStep DEF Ended
<1> QED
  BY <1>3, <1>4, <1>5 DEF Stream

\* The body ends without an answer of the buffer.
LEMMA QuitStep ==
  ASSUME PipelineInv, NEW g \in Gets, StreamIdle(g) \/ ClientLeaves(g)
  PROVE  PipelineInv'
<1>1. get[g].state = "streams" /\ \E state \in {"body_idle", "gone"} : EndBody(g, state)
  BY DEF StreamIdle, ClientLeaves
<1>2. get[g].buf \in Puts
  BY <1>1, StreamedBuffer
<1> QED
  BY <1>1, <1>2, EndBodyStep DEF Ended

------------------------------------------------------------------------------
LEMMA PipelineStep ==
  ASSUME PipelineInv, [Next]_vars
  PROVE  PipelineInv'
<1>1. ASSUME NEW p \in Puts, Receive(p) PROVE PipelineInv'
  <2>1. put[p] = "reading" /\ sent[p] \in 0..Chunks /\ sent[p] < Chunks
    BY <1>1 DEF PipelineInv, TypeOK, Receive
  <2>2. sent[p] + 1 \in 1..Chunks /\ sent[p] + 1 = Entered(p) + 1
    BY <2>1, PipelineAssumption DEF Entered
  <2>3. AppendTo(p, sent[p] + 1) /\ sent' = [sent EXCEPT ![p] = sent[p] + 1]
    BY <1>1 DEF Receive
  <2> QED
    BY <1>1, <2>1, <2>2, <2>3, AppendStep DEF Receive
<1>2. ASSUME NEW p \in Puts, Retry(p) PROVE PipelineInv'
  <2>1. put[p] = "blocked" /\ sent[p] \in 0..Chunks /\ sent[p] > 0
    BY <1>2 DEF PipelineInv, TypeOK, ProducerInv, Retry
  <2>2. sent[p] \in 1..Chunks /\ sent[p] = Entered(p) + 1
    BY <2>1, PipelineAssumption DEF Entered
  <2>3. AppendTo(p, sent[p]) /\ sent' = [sent EXCEPT ![p] = sent[p]]
    BY <1>2 DEF PipelineInv, TypeOK, Retry
  <2> QED
    BY <1>2, <2>1, <2>2, <2>3, AppendStep DEF Retry
<1>3. ASSUME NEW p \in Puts, Complete(p) PROVE PipelineInv'
  BY <1>3, MarkStep DEF Complete, Terminal
<1>4. ASSUME NEW p \in Puts, Break(p) PROVE PipelineInv'
  <2>1. disk \in Puts \cup {None}
    BY DEF PipelineInv, TypeOK
  <2> QED
    BY <1>4, <2>1, MarkStep DEF Break, Terminal
<1>5. ASSUME NEW g \in Gets, RequestRange(g) PROVE PipelineInv'
  BY <1>5, DiskStep DEF RequestRange
<1>6. ASSUME NEW g \in Gets, UploadEnded(g) PROVE PipelineInv'
  BY <1>6, DiskStep DEF UploadEnded
<1>7. CASE UNCHANGED vars
  <2>1. TypeOK' /\ WaitersInv'
    BY <1>7 DEF PipelineInv, TypeOK, WaitersInv, TimedOutWith, vars
  <2>2. (\A p \in Puts : HeldInv(p)' /\ ProducerInv(p)') /\ ContentsInv'
    BY <1>7 DEF PipelineInv, HeldInv, Holds, ProducerInv, ContentsInv, Drained, Fresh, Entered, vars
  <2>3. ReadersInv' /\ BodyIsPrefix'
    BY <1>7 DEF PipelineInv, ReadersInv, BodyIsPrefix, vars
  <2> QED
    BY <2>1, <2>2, <2>3 DEF PipelineInv
<1> QED
  BY <1>1, <1>2, <1>3, <1>4, <1>5, <1>6, <1>7, OpenStep, StrandStep, ForgetStep, RequestStep,
     WokenStep, OpenTimeoutStep, StreamStep, QuitStep DEF Next

LEMMA PipelineInvariant == Spec => []PipelineInv
<1>1. PipelineInv /\ [Next]_vars => PipelineInv'
  BY PipelineStep
<1> QED
  BY <1>1, InitPipeline, PTL DEF Spec

\* The state of the relay stays of its type, whatever is appended to a buffer,
\* taken from it and thrown away.
THEOREM TypeCorrectness == Spec => []TypeOK
<1>1. PipelineInv => TypeOK
  BY DEF PipelineInv
<1> QED
  BY <1>1, PipelineInvariant, PTL

\* has_reader is set exactly while one download holds the buffer, however the
\* uploads and downloads of the key overlap.
THEOREM ReaderIsAlwaysHeld == Spec => []ReaderIsHeld
<1>1. PipelineInv => ReaderIsHeld
  <2> SUFFICES ASSUME PipelineInv, NEW p \in Puts
               PROVE  /\ buffer[p].reader = \E g \in Gets : Holds(g, p)
                      /\ \A g, h \in Gets : Holds(g, p) /\ Holds(h, p) => g = h
    BY DEF ReaderIsHeld
  <2>1. buffer[p].reader \in BOOLEAN
    BY DEF PipelineInv, TypeOK, Buffer
  <2>2. HeldInv(p)
    BY DEF PipelineInv
  <2> QED
    BY <2>1, <2>2 DEF HeldInv
<1> QED
  BY <1>1, PipelineInvariant, PTL

\* A producer that waits for space and has not been woken has a reader with a
\* full buffer of chunks to take, so that reader wakes it.
THEOREM NoWakeupIsLost == Spec => []NoLostWakeup
<1>1. PipelineInv => NoLostWakeup
  <2> SUFFICES ASSUME PipelineInv, NEW p \in Puts, put[p] = "blocked", ~buffer[p].space
               PROVE  buffer[p].reader /\ buffer[p].bytes = MaxBuffer /\ Len(buffer[p].queue) = MaxBuffer
    BY DEF NoLostWakeup
  <2>1. buffer[p].reader /\ buffer[p].bytes = MaxBuffer
    BY DEF PipelineInv, ProducerInv
  <2>2. PICK g \in Gets : Holds(g, p)
    BY <2>1 DEF PipelineInv, HeldInv
  <2>3. Fresh(p, Len(got[g])) /\ put[p] \notin Terminal
    BY <2>2 DEF PipelineInv, ContentsInv, Drained, Terminal
  <2> QED
    BY <2>1, <2>3, PipelineAssumption DEF Fresh
<1> QED
  BY <1>1, PipelineInvariant, PTL

\* What a download gets from a buffer is the beginning of one body without a
\* gap, all of it when it is told so, and cut only by an upload that failed.
THEOREM BodyIsAlwaysPrefix == Spec => []BodyIsPrefix
<1>1. PipelineInv => BodyIsPrefix
  BY DEF PipelineInv
<1> QED
  BY <1>1, PipelineInvariant, PTL

\* Only a download that shares its event with one that timed out waits for a
\* buffer although one is registered.
THEOREM OnlySharedIsMissed == Spec => []MissedOnlyIfShared
<1>1. PipelineInv => MissedOnlyIfShared
  <2> SUFFICES ASSUME PipelineInv, NEW g \in Gets, get[g].state = "waits_open", registered # None,
                      get[g].event \notin fired
               PROVE  TimedOutWith(get[g].event)
    BY DEF MissedOnlyIfShared, TimedOutWith
  <2>1. waiter = None /\ get[g].event # None
    BY PipelineAssumption DEF PipelineInv, WaitersInv
  <2> QED
    BY <2>1 DEF PipelineInv, WaitersInv
<1> QED
  BY <1>1, PipelineInvariant, PTL


\* A step of another download, or one that begins, leaves the one that streams.
LEMMA OneDownload ==
  ASSUME PipelineInv, NEW g \in Gets, get[g].state = "streams", get'[g].state = "body_idle", Next
  PROVE  buffer[get[g].buf].queue = << >>
<1>1. get' # get
  OBVIOUS
<1>2. \A p \in Puts : ~(Open(p) \/ Receive(p) \/ Retry(p) \/ Complete(p) \/ Strand(p) \/ Break(p))
  BY <1>1 DEF Open, Receive, Retry, Complete, Strand, Break
<1>3. ~Forget
  BY <1>1 DEF Forget
<1>4. \A h \in Gets, state \in GetStates : Goes(h, state) => h = g /\ state = "body_idle"
  BY GoesProperties
<1>5. {"not_found", "sent_file", "body_done", "body_failed", "body_idle", "gone"} \subseteq GetStates
  BY DEF GetStates
<1>6. \A h \in Gets : ~FromDisk(h)
  BY <1>4, <1>5 DEF FromDisk
<1>7. \A h \in Gets, head \in BOOLEAN : get[h].state # "streams" => ~Attach(h, head)
  BY <1>6 DEF PipelineInv, TypeOK, Attach
<1>8. ASSUME NEW h \in Gets
      PROVE  /\ \A head \in BOOLEAN : ~Request(h, head)
             /\ ~RequestRange(h) /\ ~Woken(h) /\ ~OpenTimeout(h) /\ ~UploadEnded(h)
  <2>1. ASSUME NEW head \in BOOLEAN PROVE ~Request(h, head)
    BY <1>7 DEF PipelineInv, TypeOK, Request
  <2>2. ~RequestRange(h) /\ ~OpenTimeout(h) /\ ~UploadEnded(h)
    BY <1>6 DEF RequestRange, OpenTimeout, UploadEnded
  <2>3. ~Woken(h)
    BY <1>6, <1>7, TypeOfGet DEF Woken
  <2> QED
    BY <2>1, <2>2, <2>3
<1>9. PICK h \in Gets : Stream(h) \/ StreamIdle(h) \/ ClientLeaves(h)
  BY <1>2, <1>3, <1>8 DEF Next
<1>10. ~Stream(h) /\ ~ClientLeaves(h)
  BY <1>1, <1>4, <1>5 DEF Stream, ClientLeaves, EndBody
<1>11. StreamIdle(h) /\ h = g
  BY <1>4, <1>5, <1>9, <1>10 DEF StreamIdle, EndBody
<1> QED
  BY <1>11 DEF StreamIdle

\* A download whose upload has ended runs into the idle timeout only after
\* another one had the chunks, and the sentinel, of that buffer.
THEOREM OnlyDrainedIsIdle == Spec => DrainedByAnother
<1> DEFINE Idle(g) == get[g].state = "streams" /\ get'[g].state = "body_idle" /\ put[get[g].buf] \in Terminal
           ByAnother == \A g \in Gets : Idle(g) => \E h \in Gets : get[h].buf = get[g].buf /\ get[h].state \in Ended
<1>1. PipelineInv /\ [Next]_vars => [ByAnother]_vars
  <2> SUFFICES ASSUME PipelineInv, Next, NEW g \in Gets, Idle(g)
               PROVE  \E h \in Gets : get[h].buf = get[g].buf /\ get[h].state \in Ended
    OBVIOUS
  <2> DEFINE p == get[g].buf
  <2>1. buffer[p].queue = << >>
    BY OneDownload
  <2>2. buffer[p].bytes \in Nat /\ (Drained(p) \/ Fresh(p, Len(got[g])))
    BY StreamedBuffer
  <2>3. ~Fresh(p, Len(got[g]))
    BY <2>1, <2>2 DEF Fresh
  <2> QED
    BY <2>2, <2>3 DEF Drained
<1> QED
  BY <1>1, PipelineInvariant, PTL DEF Spec, DrainedByAnother
=============================================================================
