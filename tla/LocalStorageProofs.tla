------------------------- MODULE LocalStorageProofs -------------------------
(***************************************************************************)
(* Proofs about LocalStorage, for any number of uploads and any length of  *)
(* their bodies.  A published file is torn only through overlapping        *)
(* uploads: without them one upload at most is running, it writes to a     *)
(* file that is not the published one, and that file holds what the upload *)
(* has read so far, or its name is gone and the upload cannot finish.      *)
(***************************************************************************)
EXTENDS LocalStorage, TLAPS

Bodies == UNION {[1..n -> Puts \cup {None}] : n \in 0..Chunks}

\* The files behind the names were created by uploads that have begun, no file
\* has both names, and an upload that has begun has opened a file.
NamesInv ==
  /\ \A p \in Puts : /\ upload[p] = "new" => sent[p] = 0
                     /\ upload[p] # "new" => file[p] \in Puts
  /\ part # None => upload[part] # "new" /\ part # data
  /\ data # None => upload[data] # "new"

\* One upload alone writes what it has read to the file that will be published.
Prefix(p, n) == [i \in 1..n |-> p]
AloneInv ==
  ~overlapped => \A p \in Running :
    /\ \A q \in Running : q = p
    /\ file[p] # data
    /\ part \in {None, file[p]}
    /\ content[file[p]] = Prefix(p, sent[p])

StorageInv == TypeOK /\ NamesInv /\ AloneInv /\ TornNeedsOverlap

LEMMA BodyProperties ==
  ASSUME NEW bytes \in Bodies
  PROVE  /\ Len(bytes) \in 0..Chunks /\ DOMAIN bytes = 1..Len(bytes)
         /\ \A i \in 1..Len(bytes) : bytes[i] \in Puts \cup {None}
<1>1. PICK n \in 0..Chunks : bytes \in [1..n -> Puts \cup {None}]
  BY DEF Bodies
<1>2. n \in Nat /\ DOMAIN bytes = 1..n
  BY <1>1, StorageAssumption
<1>3. Len(bytes) = n
  BY <1>2
<1> QED
  BY <1>1, <1>2, <1>3

\* What a write at the upload's own offset makes of a file: a body of no more
\* chunks than there are, and the next longer prefix of a prefix.
LEMMA WrittenProperties ==
  ASSUME NEW bytes \in Bodies, NEW k \in 0..(Chunks - 1), NEW p \in Puts
  PROVE  /\ Written(bytes, k, p) \in Bodies
         /\ bytes = Prefix(p, k) => Written(bytes, k, p) = Prefix(p, k + 1)
<1> DEFINE n == IF Len(bytes) > k THEN Len(bytes) ELSE k + 1
<1>1. n \in 0..Chunks
  BY BodyProperties, StorageAssumption
<1>2. Written(bytes, k, p) \in [1..n -> Puts \cup {None}]
  BY BodyProperties DEF Written
<1>3. Written(bytes, k, p) \in Bodies
  BY <1>1, <1>2 DEF Bodies
<1>4. ASSUME bytes = Prefix(p, k) PROVE Written(bytes, k, p) = Prefix(p, k + 1)
  <2>1. k \in Nat /\ DOMAIN bytes = 1..k
    BY <1>4, StorageAssumption DEF Prefix
  <2>2. Len(bytes) = k
    BY <2>1
  <2> QED
    BY <1>4, <2>1, <2>2 DEF Written, Prefix
<1> QED
  BY <1>3, <1>4

LEMMA EmptyBody ==
  /\ << >> \in Bodies
  /\ \A p \in Puts : << >> = Prefix(p, 0)
<1>1. << >> \in [1..0 -> Puts \cup {None}]
  OBVIOUS
<1>2. 0 \in 0..Chunks
  BY StorageAssumption
<1> QED
  BY <1>1, <1>2 DEF Bodies, Prefix

LEMMA InitStorage == Init => StorageInv
<1> SUFFICES ASSUME Init PROVE StorageInv
  OBVIOUS
<1>1. content \in [Puts -> Bodies]
  BY EmptyBody DEF Init
<1>2. sent \in [Puts -> 0..Chunks]
  BY StorageAssumption DEF Init
<1>3. TypeOK
  BY <1>1, <1>2 DEF Init, TypeOK, Bodies
<1> QED
  BY <1>3 DEF Init, StorageInv, NamesInv, AloneInv, Running, TornNeedsOverlap

------------------------------------------------------------------------------
(* Each step of an upload.                                                 *)

LEMMA OpenPartStep ==
  ASSUME StorageInv, NEW p \in Puts, OpenPart(p)
  PROVE  StorageInv'
<1> USE DEF StorageInv
<1>1. part' \in Puts /\ part' # None /\ part' # data /\ p # None
  BY StorageAssumption DEF OpenPart, TypeOK, NamesInv
<1>2. TypeOK'
  BY <1>1, EmptyBody DEF OpenPart, Ends, TypeOK, Bodies
<1>3. NamesInv'
  BY <1>1 DEF OpenPart, Ends, TypeOK, NamesInv
<1>4. AloneInv'
  <2> SUFFICES ASSUME ~overlapped' PROVE AloneInv'
    BY DEF AloneInv
  <2>1. Running = {}
    BY DEF OpenPart
  <2>2. Running' = {p}
    BY <2>1 DEF OpenPart, Ends, Running, TypeOK
  <2>3. file'[p] = part' /\ content'[part'] = << >> /\ sent'[p] = 0 /\ data' = data
    BY <1>1 DEF OpenPart, TypeOK, NamesInv
  <2> QED
    BY <1>1, <2>2, <2>3, EmptyBody DEF AloneInv
<1>5. TornNeedsOverlap'
  BY <1>1 DEF OpenPart, TornNeedsOverlap, Whole, TypeOK
<1> QED
  BY <1>2, <1>3, <1>4, <1>5

LEMMA WriteChunkStep ==
  ASSUME StorageInv, NEW p \in Puts, WriteChunk(p)
  PROVE  StorageInv'
<1> USE DEF StorageInv
<1>1. /\ p \in Running /\ file[p] \in Puts /\ sent[p] \in 0..(Chunks - 1)
      /\ content[file[p]] \in Bodies
  BY StorageAssumption DEF WriteChunk, TypeOK, NamesInv, Running, Bodies
<1>2. content' = [content EXCEPT ![file[p]] = Written(content[file[p]], sent[p], p)]
  BY DEF WriteChunk
<1>3. TypeOK'
  <2>1. content \in [Puts -> Bodies]
    BY DEF TypeOK, Bodies
  <2>2. content' \in [Puts -> Bodies]
    BY <1>1, <1>2, <2>1, WrittenProperties
  <2>3. sent' \in [Puts -> 0..Chunks]
    BY <1>1, StorageAssumption DEF WriteChunk, TypeOK
  <2> QED
    BY <2>2, <2>3 DEF WriteChunk, TypeOK, Bodies
<1>4. NamesInv'
  BY <1>1 DEF WriteChunk, TypeOK, NamesInv
<1>5. AloneInv'
  <2> SUFFICES ASSUME ~overlapped' PROVE AloneInv'
    BY DEF AloneInv
  <2>1. Running' = Running /\ sent'[p] = sent[p] + 1 /\ UNCHANGED <<file, part, data, overlapped>>
    BY <1>1 DEF WriteChunk, Running, TypeOK
  <2>2. content'[file[p]] = Prefix(p, sent[p] + 1)
    BY <1>1, <1>2, <2>1, WrittenProperties DEF AloneInv, TypeOK
  <2> QED
    BY <1>1, <2>1, <2>2 DEF AloneInv
<1>6. TornNeedsOverlap'
  BY <1>1, <1>2 DEF WriteChunk, AloneInv, TornNeedsOverlap, Whole, TypeOK
<1> QED
  BY <1>3, <1>4, <1>5, <1>6

\* The file that p publishes is its own, and whole.
LEMMA PublishedIsWhole ==
  ASSUME StorageInv, NEW p \in Puts, AtEnd(p), part # None, ~overlapped
  PROVE  Whole(part)
<1>1. p \in Running /\ part = file[p] /\ sent[p] = Chunks
  BY DEF StorageInv, AtEnd, Running, AloneInv
<1> QED
  BY <1>1 DEF StorageInv, AloneInv, Whole, Prefix

\* An upload that has read its body ends, alone or with all the others, and the
\* .part file gets the key's name.
LEMMA PublishStep ==
  ASSUME StorageInv, NEW p \in Puts, AtEnd(p), part # None,
         NEW ended \in SUBSET Running, p \in ended,
         \A q \in Puts : upload'[q] = IF q \in ended THEN upload'[p] ELSE upload[q],
         upload' \in [Puts -> {"new", "writing", "done", "failed"}], upload'[p] \in {"done", "failed"},
         data' = part, part' = None, partOld' = FALSE, meta' \in {"none", "fresh", "old", "broken"},
         unrecorded' \in BOOLEAN, UNCHANGED <<sent, file, content, overlapped>>
  PROVE  StorageInv'
<1>1. TypeOK'
  BY DEF StorageInv, TypeOK
<1>2. NamesInv'
  BY DEF StorageInv, NamesInv, TypeOK, Running
<1>3. AloneInv'
  <2> SUFFICES ASSUME ~overlapped', NEW q \in Running' PROVE FALSE
    BY DEF AloneInv
  <2>1. q \in Running /\ q # p /\ p \in Running
    BY DEF Running
  <2> QED
    BY <2>1 DEF StorageInv, AloneInv
<1>4. TornNeedsOverlap'
  BY PublishedIsWhole DEF TornNeedsOverlap, Whole
<1> QED
  BY <1>1, <1>2, <1>3, <1>4 DEF StorageInv

LEMMA FinishStep ==
  ASSUME StorageInv, NEW p \in Puts, Finish(p)
  PROVE  StorageInv'
<1>1. p \in Running /\ upload' = [upload EXCEPT ![p] = "done"]
  BY DEF Finish, AtEnd, Ends, Running
<1>2. upload \in [Puts -> {"new", "writing", "done", "failed"}] /\ unrecorded \in BOOLEAN
  BY DEF StorageInv, TypeOK
<1>3. /\ AtEnd(p) /\ part # None /\ data' = part /\ part' = None /\ partOld' = FALSE
      /\ meta' \in {"none", "fresh", "old", "broken"} /\ unrecorded' \in BOOLEAN
      /\ UNCHANGED <<sent, file, content, overlapped>>
  BY <1>2 DEF Finish
<1>4. /\ upload' \in [Puts -> {"new", "writing", "done", "failed"}] /\ upload'[p] \in {"done", "failed"}
      /\ \A q \in Puts : upload'[q] = IF q \in {p} THEN upload'[p] ELSE upload[q]
  BY <1>1, <1>2
<1>5. {p} \in SUBSET Running /\ p \in {p}
  BY <1>1
<1> QED
  BY <1>3, <1>4, <1>5, PublishStep

LEMMA FinishUnrecordedStep ==
  ASSUME StorageInv, NEW p \in Puts, NEW stopped \in {{p}, Running}, FinishUnrecorded(p, stopped)
  PROVE  StorageInv'
<1>1. /\ p \in Running /\ stopped \in SUBSET Running
      /\ upload' = [q \in Puts |-> IF q \in stopped THEN "failed" ELSE upload[q]]
  BY DEF FinishUnrecorded, AtEnd, Running
<1>2. /\ upload \in [Puts -> {"new", "writing", "done", "failed"}]
      /\ meta \in {"none", "fresh", "old", "broken"}
  BY DEF StorageInv, TypeOK
<1>3. /\ AtEnd(p) /\ part # None /\ data' = part /\ part' = None /\ partOld' = FALSE
      /\ meta' \in {"none", "fresh", "old", "broken"} /\ unrecorded' \in BOOLEAN
      /\ UNCHANGED <<sent, file, content, overlapped>> /\ p \in stopped
  BY <1>2 DEF FinishUnrecorded
<1>4. /\ upload' \in [Puts -> {"new", "writing", "done", "failed"}] /\ upload'[p] \in {"done", "failed"}
      /\ \A q \in Puts : upload'[q] = IF q \in stopped THEN upload'[p] ELSE upload[q]
  BY <1>1, <1>2, <1>3
<1> QED
  BY <1>1, <1>3, <1>4, PublishStep

\* Uploads stop, and names go away or grow old.
LEMMA StopStep ==
  ASSUME StorageInv, NEW stopped \in SUBSET Running,
         upload' = [q \in Puts |-> IF q \in stopped THEN "failed" ELSE upload[q]],
         part' \in {None, part}, data' \in {None, data}, meta' \in {"none", "fresh", "old", "broken"},
         partOld' \in BOOLEAN, UNCHANGED <<sent, file, content, overlapped, unrecorded>>
  PROVE  StorageInv'
<1>1. TypeOK'
  BY DEF StorageInv, TypeOK
<1>2. NamesInv'
  BY DEF StorageInv, NamesInv, TypeOK, Running
<1>3. AloneInv'
  <2> SUFFICES ASSUME ~overlapped', NEW q \in Running'
               PROVE  /\ \A x \in Running' : x = q
                      /\ file'[q] # data' /\ part' \in {None, file'[q]}
                      /\ content'[file'[q]] = Prefix(q, sent'[q])
    BY DEF AloneInv
  <2>1. Running' \subseteq Running /\ file[q] \in Puts
    BY DEF StorageInv, NamesInv, TypeOK, Running
  <2> QED
    BY <2>1, StorageAssumption DEF StorageInv, AloneInv
<1>4. TornNeedsOverlap'
  BY DEF StorageInv, TornNeedsOverlap, Whole
<1> QED
  BY <1>1, <1>2, <1>3, <1>4 DEF StorageInv

LEMMA StorageStep ==
  ASSUME StorageInv, [Next]_vars
  PROVE  StorageInv'
<1>1. ASSUME NEW p \in Puts, Fail(p) PROVE StorageInv'
  <2>1. upload' = [q \in Puts |-> IF q \in {p} THEN "failed" ELSE upload[q]]
    BY <1>1 DEF Fail, Ends, StorageInv, TypeOK
  <2>2. {p} \in SUBSET Running /\ meta \in {"none", "fresh", "old", "broken"}
    BY <1>1 DEF Fail, Running, StorageInv, TypeOK
  <2> QED
    BY <1>1, <2>1, <2>2, StopStep DEF Fail
<1>2. CASE Crash
  <2>1. meta \in {"none", "fresh", "old", "broken"} /\ partOld \in BOOLEAN
    BY DEF StorageInv, TypeOK
  <2>2. upload' = [q \in Puts |-> IF q \in Running THEN "failed" ELSE upload[q]]
    BY <1>2 DEF Crash
  <2> QED
    BY <1>2, <2>1, <2>2, StopStep DEF Crash, names
<1>3. CASE HourPasses \/ Purge \/ Clear
  <2>1. upload' = [q \in Puts |-> IF q \in {} THEN "failed" ELSE upload[q]]
    BY <1>3 DEF HourPasses, Purge, Clear, StorageInv, TypeOK
  <2>2. /\ part' \in {None, part} /\ data' \in {None, data} /\ partOld' \in BOOLEAN
        /\ meta' \in {"none", "fresh", "old", "broken"}
        /\ UNCHANGED <<sent, file, content, overlapped, unrecorded>>
    BY <1>3 DEF HourPasses, Purge, Sweep, Clear, StorageInv, TypeOK
  <2>3. {} \in SUBSET Running
    OBVIOUS
  <2> QED
    BY <2>1, <2>2, <2>3, StopStep
<1>4. CASE UNCHANGED vars
  BY <1>4 DEF vars, StorageInv, TypeOK, NamesInv, AloneInv, Running, TornNeedsOverlap, Whole
<1> QED
  BY <1>1, <1>2, <1>3, <1>4, OpenPartStep, WriteChunkStep, FinishStep, FinishUnrecordedStep DEF Next

LEMMA StorageInvariant == Spec => []StorageInv
BY InitStorage, StorageStep, PTL DEF Spec

------------------------------------------------------------------------------
\* The three files of a key and the uploads keep their types: a body never
\* grows beyond its chunks, also where uploads overwrite each other.
THEOREM TypeCorrectness == Spec => []TypeOK
<1>1. StorageInv => TypeOK
  BY DEF StorageInv
<1> QED
  BY <1>1, StorageInvariant, PTL

\* write_file_stream: without overlapping uploads readers never see a
\* half-written file, through any failures, crashes, purges and clears.
THEOREM TornOnlyByOverlap == Spec => []TornNeedsOverlap
<1>1. StorageInv => TornNeedsOverlap
  BY DEF StorageInv
<1> QED
  BY <1>1, StorageInvariant, PTL
=============================================================================
