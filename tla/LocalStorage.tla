---------------------------- MODULE LocalStorage ----------------------------
(***************************************************************************)
(* The files of one key in local storage: <key>.part, <key> and <key>.meta *)
(* under overlapping uploads, the hourly purge, the dashboard's clear and  *)
(* crashes.  An upload keeps the file it opened: renaming or removing the  *)
(* name does not stop it from writing, so names and files are told apart.  *)
(*                                                                         *)
(* An upload switches greenlets only while it reads its request (or waits  *)
(* for the pipeline, which touches no file); the purge and the clear never *)
(* do.  What a file object buffers is taken as written.                    *)
(***************************************************************************)
EXTENDS Integers, Sequences

CONSTANTS
  Puts,     \* the uploads of the key; a file is named after the upload that created it
  Chunks,   \* the chunks of a body
  None

ASSUME StorageAssumption == Chunks \in Nat \ {0} /\ None \notin Puts

VARIABLES
  upload,       \* the state of each upload
  sent,         \* the chunks it has written
  file,         \* the file it has open or had open last
  content,      \* of each file: whose chunk is where, None for a hole
  part, data,   \* the files named <key>.part and <key>
  meta,         \* <key>.meta: fresh, more than an hour old, or not JSON
  partOld,      \* nothing was written to the .part file for an hour
  overlapped,   \* history: two uploads were running at once
  unrecorded    \* history: an upload replaced <key> and did not write <key>.meta

vars == <<upload, sent, file, content, part, data, meta, partOld, overlapped, unrecorded>>
names == <<part, data, meta, partOld>>

TypeOK ==
  /\ upload \in [Puts -> {"new", "writing", "done", "failed"}]
  /\ sent \in [Puts -> 0..Chunks]
  /\ file \in [Puts -> Puts \cup {None}]
  /\ content \in [Puts -> UNION {[1..n -> Puts \cup {None}] : n \in 0..Chunks}]
  /\ part \in Puts \cup {None} /\ data \in Puts \cup {None}
  /\ meta \in {"none", "fresh", "old", "broken"}
  /\ partOld \in BOOLEAN /\ overlapped \in BOOLEAN /\ unrecorded \in BOOLEAN

Init ==
  /\ upload = [p \in Puts |-> "new"] /\ sent = [p \in Puts |-> 0]
  /\ file = [p \in Puts |-> None] /\ content = [p \in Puts |-> << >>]
  /\ part = None /\ data = None /\ meta = "none"
  /\ partOld = FALSE /\ overlapped = FALSE /\ unrecorded = FALSE

Running == {p \in Puts : upload[p] = "writing"}
Ends(p, state) == upload' = [upload EXCEPT ![p] = state]

------------------------------------------------------------------------------
(* write_file_stream.                                                      *)

\* open(part_path, 'wb'): an existing file is emptied, whoever writes to it.
OpenPart(p) ==
  /\ upload[p] = "new"
  /\ Ends(p, "writing")
  /\ part' = IF part = None THEN p ELSE part
  /\ file' = [file EXCEPT ![p] = part']
  /\ content' = [content EXCEPT ![part'] = << >>]
  /\ partOld' = FALSE
  /\ overlapped' = (overlapped \/ Running # {})
  /\ UNCHANGED <<sent, data, meta, unrecorded>>

\* The bytes of p land at its own offset k + 1; a gap before them reads as zeros.
WrittenLast(bytes, k, p) == Append(bytes, p)      \* mutant: the file is opened to append
Written(bytes, k, p) ==
  [i \in 1..(IF Len(bytes) > k THEN Len(bytes) ELSE k + 1) |->
     IF i = k + 1 THEN p ELSE IF i \in DOMAIN bytes THEN bytes[i] ELSE None]

WriteChunk(p) ==
  /\ upload[p] = "writing" /\ sent[p] < Chunks
  /\ sent' = [sent EXCEPT ![p] = @ + 1]
  /\ content' = [content EXCEPT ![file[p]] = Written(@, sent[p], p)]
  /\ partOld' = (partOld /\ part # file[p])
  /\ UNCHANGED <<upload, file, part, data, meta, overlapped, unrecorded>>

\* The body of p has been read to its end.
AtEndSoon(p) == upload[p] = "writing" /\ sent[p] + 1 >= Chunks   \* mutant: a read comes back empty early
AtEnd(p) == upload[p] = "writing" /\ sent[p] = Chunks

\* os.replace, whatever file the name .part stands for by now, and the .meta.
Finish(p) ==
  /\ AtEnd(p) /\ part # None
  /\ Ends(p, "done")
  /\ data' = part /\ part' = None /\ meta' = "fresh" /\ partOld' = FALSE
  /\ UNCHANGED <<sent, file, content, overlapped, unrecorded>>

\* The server stops between the two, or the .meta cannot be opened or written.
FinishUnrecorded(p, stopped) ==
  /\ AtEnd(p) /\ part # None /\ p \in stopped
  /\ upload' = [q \in Puts |-> IF q \in stopped THEN "failed" ELSE upload[q]]
  /\ data' = part /\ part' = None /\ meta' \in {meta, "broken"} /\ partOld' = FALSE
  /\ unrecorded' = TRUE
  /\ UNCHANGED <<sent, file, content, overlapped>>

\* Reading or writing raises, or os.replace finds no .part: whatever has that
\* name is removed.
Fail(p) ==
  /\ upload[p] = "writing"
  /\ Ends(p, "failed")
  /\ part' = None /\ partOld' = FALSE
  /\ UNCHANGED <<sent, file, content, data, meta, overlapped, unrecorded>>

\* The server stops while it reads.
Crash ==
  /\ Running # {}
  /\ upload' = [p \in Puts |-> IF p \in Running THEN "failed" ELSE upload[p]]
  /\ UNCHANGED <<sent, file, content, names, overlapped, unrecorded>>

------------------------------------------------------------------------------
(* purge_old_files, its clock, and clear_storage.                          *)

HourPasses ==
  /\ meta' = IF meta = "fresh" THEN "old" ELSE meta
  /\ partOld' = (part # None)
  /\ <<meta, partOld>>' # <<meta, partOld>>
  /\ UNCHANGED <<upload, sent, file, content, part, data, overlapped, unrecorded>>

\* A .meta that cannot be read is passed over, and so is data without a .meta.
SweepMetasOnly ==               \* mutant: the .part files are not swept
  /\ data' = IF meta = "old" THEN None ELSE data
  /\ meta' = IF meta = "old" THEN "none" ELSE meta
  /\ UNCHANGED <<part, partOld>>
SweepNotData ==                 \* mutant: of an old file only the .meta is removed
  /\ meta' = IF meta = "old" THEN "none" ELSE meta
  /\ part' = IF partOld THEN None ELSE part
  /\ partOld' = FALSE
  /\ UNCHANGED data
Sweep ==
  /\ data' = IF meta = "old" THEN None ELSE data
  /\ meta' = IF meta = "old" THEN "none" ELSE meta
  /\ part' = IF partOld THEN None ELSE part
  /\ partOld' = FALSE
Purge ==
  /\ Sweep
  /\ names' # names
  /\ UNCHANGED <<upload, sent, file, content, overlapped, unrecorded>>

Clear ==
  /\ part' = None /\ data' = None /\ meta' = "none" /\ partOld' = FALSE
  /\ names' # names
  /\ UNCHANGED <<upload, sent, file, content, overlapped, unrecorded>>

Next ==
  \/ \E p \in Puts :
       \/ OpenPart(p) \/ WriteChunk(p) \/ Finish(p) \/ Fail(p)
       \/ \E stopped \in {{p}, Running} : FinishUnrecorded(p, stopped)
  \/ Crash \/ HourPasses \/ Purge \/ Clear

\* Time passes and the cleanup worker wakes up every hour.
Spec == Init /\ [][Next]_vars /\ WF_vars(HourPasses) /\ WF_vars(Purge)

------------------------------------------------------------------------------
\* The chunks of one upload, all of them and in order.
Whole(f) == \E p \in Puts : content[f] = [i \in 1..Chunks |-> p]

\* Without overlapping uploads, what a download sends is the whole body of one
\* upload, through any number of failed uploads, crashes, purges and clears.
TornNeedsOverlap == data # None => Whole(data) \/ overlapped

\* What an interrupted upload leaves behind does not stay on the disk.
PartIsSwept == part # None ~> part = None

\* A published file is purged in the end, unless its .meta was not written.
PublishedIsPurged == data # None ~> (data = None \/ unrecorded)

------------------------------------------------------------------------------
\* write_file_stream: 'atomically renames on success so readers never see a
\* half-written file'.
NeverHalfWritten == data # None => Whole(data)
=============================================================================
