-------------------------- MODULE RelayFilesProofs --------------------------
(***************************************************************************)
(* Proofs about Settings and RelayFiles, for any settings, files, pages    *)
(* and batches.  That an emptying leaves nothing of what it found needs    *)
(* the cursor of the listing: what is still to go is collected already, or *)
(* lies behind it.                                                         *)
(***************************************************************************)
EXTENDS RelayFiles, FiniteSetTheorems, WellFoundedInduction, TLAPS

(* Settings.                                                               *)

\* What a form posts for a key without an edit.
LEMMA ShownValue ==
  ASSUME NEW k \in Keys, NEW value \in Entries[k] \cup {Unset, Empty}, ~Skips(k, Shown(k, value))
  PROVE  \/ Shown(k, value) = value /\ value \in Entries[k] \cup {Empty}
         \/ value = Unset /\ Shown(k, value) = Empty /\ k \notin Required
BY SettingsAssumption DEF Shown, Skips

LEMMA KeysOfTheForm == Range(SettingsKeys) \subseteq Keys
BY SettingsAssumption DEF Range

LEMMA EnvironmentValue ==
  ASSUME NEW e \in Environments, NEW k \in Keys
  PROVE  e[k] \in Entries[k] \cup {Unset, Empty}
BY DEF Environments

LEMMA EntryOfSome ==
  ASSUME NEW k \in Keys, NEW value \in Entries[k] \cup {Unset, Empty}
  PROVE  value \in (UNION {Entries[x] : x \in Keys}) \cup {Unset, Empty}
<1> DEFINE All == {Entries[x] : x \in Keys}
<1>1. Entries[k] \in All
  OBVIOUS
<1> HIDE DEF All
<1>2. value \in (UNION All) \cup {Unset, Empty}
  BY <1>1
<1> QED
  BY <1>2 DEF All

\* What a save writes is what was typed, shown or there.
LEMMA WrittenValue ==
  ASSUME SettingsTypeOK, NEW t \in Tabs, NEW changes \in Changes, NEW keys, NEW k \in Keys
  PROVE  LET posted == [x \in Keys |-> IF x \in DOMAIN changes THEN changes[x] ELSE Shown(x, loaded[t][x])]
             value == Written(posted, keys)[k]
         IN  /\ value \in Entries[k] \cup {Unset, Empty}
             /\ k \notin DOMAIN changes /\ value # override[k] =>
                  \/ value = loaded[t][k]
                  \/ loaded[t][k] = Unset /\ value = Empty /\ k \notin Required
<1> DEFINE posted == [x \in Keys |-> IF x \in DOMAIN changes THEN changes[x] ELSE Shown(x, loaded[t][x])]
           value == Written(posted, keys)[k]
<1>1. loaded[t] \in Environments /\ override \in Environments
  BY DEF SettingsTypeOK
<1>2. loaded[t][k] \in Entries[k] \cup {Unset, Empty} /\ override[k] \in Entries[k] \cup {Unset, Empty}
  BY <1>1, EnvironmentValue
<1>3. k \in DOMAIN changes => changes[k] \in Entries[k] \cup {Empty}
  BY DEF Changes
<1>4. value = IF k \in keys /\ ~Skips(k, posted[k]) THEN posted[k] ELSE override[k]
  BY DEF Written
<1>5. posted[k] = IF k \in DOMAIN changes THEN changes[k] ELSE Shown(k, loaded[t][k])
  OBVIOUS
<1> HIDE DEF posted, value
<1>6. CASE value = override[k]
  BY <1>2, <1>6 DEF posted, value
<1>7. CASE value # override[k] /\ k \in DOMAIN changes
  BY <1>3, <1>4, <1>5, <1>7 DEF posted, value
<1>8. CASE value # override[k] /\ k \notin DOMAIN changes
  <2>1. value = Shown(k, loaded[t][k]) /\ ~Skips(k, Shown(k, loaded[t][k]))
    BY <1>4, <1>5, <1>8
  <2>2. \/ value = loaded[t][k] /\ value \in Entries[k] \cup {Empty}
        \/ loaded[t][k] = Unset /\ value = Empty /\ k \notin Required
    BY <1>2, <2>1, ShownValue
  <2> QED
    BY <2>2 DEF posted, value
<1> QED
  BY <1>6, <1>7, <1>8

LEMMA LoadedType ==
  ASSUME NEW file \in Environments
  PROVE  Loaded(file) \in Environments
<1> DEFINE All == (UNION {Entries[k] : k \in Keys}) \cup {Unset, Empty}
           e == Loaded(file)
<1>1. \A k \in Keys : e[k] = IF file[k] = Unset THEN Base[k] ELSE file[k]
  BY DEF Loaded
<1>2. \A k \in Keys : e[k] \in Entries[k] \cup {Unset, Empty}
  BY <1>1, EnvironmentValue, SettingsAssumption
<1>3. e = [k \in Keys |-> e[k]]
  BY DEF Loaded
<1> HIDE DEF e
<1>4. \A k \in Keys : e[k] \in All
  BY <1>2, EntryOfSome
<1>5. e \in [Keys -> All]
  BY <1>3, <1>4
<1> QED
  BY <1>2, <1>5 DEF Environments, e

\* Opening and saving forms.
LEMMA SettingsStepType ==
  ASSUME SettingsTypeOK, SettingsStep
  PROVE  SettingsTypeOK'
<1>1. ASSUME NEW t \in Tabs, OpenForm(t) PROVE SettingsTypeOK'
  BY <1>1 DEF SettingsTypeOK, OpenForm
<1>2. ASSUME NEW t \in Tabs, NEW changes \in Changes, Save(t, changes) PROVE SettingsTypeOK'
  <2> DEFINE posted == [x \in Keys |-> IF x \in DOMAIN changes THEN changes[x] ELSE Shown(x, loaded[t][x])]
             All == (UNION {Entries[k] : k \in Keys}) \cup {Unset, Empty}
  <2>1. PICK n \in 0..Len(SettingsKeys) :
          override' = Written(posted, Range(SubSeq(SettingsKeys, 1, n)))
    BY <1>2 DEF Save
  <2> DEFINE keys == Range(SubSeq(SettingsKeys, 1, n))
  <2>2. \A k \in Keys : override'[k] \in Entries[k] \cup {Unset, Empty}
    <3> HIDE DEF keys
    <3> QED
      BY <2>1, WrittenValue DEF keys
  <2>3. override' = [k \in Keys |-> override'[k]]
    BY <2>1 DEF Written
  <2>4. \A k \in Keys : override'[k] \in All
    BY <2>2, EntryOfSome
  <2>5. override' \in [Keys -> All]
    BY <2>3, <2>4
  <2>6. override' \in Environments
    BY <2>2, <2>5 DEF Environments
  <2>7. edited' \subseteq Keys
    BY <1>2, KeysOfTheForm DEF Save, Changes
  <2>8. saves' \in 0..MaxSaves
    BY <1>2, SettingsAssumption DEF Save, SettingsTypeOK
  <2> QED
    BY <1>2, <2>6, <2>7, <2>8 DEF SettingsTypeOK, Save
<1> QED
  BY <1>1, <1>2 DEF SettingsStep

LEMMA RestartType ==
  ASSUME SettingsTypeOK, RestartServer
  PROVE  SettingsTypeOK'
<1>1. environ' \in Environments
  BY LoadedType DEF SettingsTypeOK, RestartServer
<1>2. restarts' \in 0..MaxRestarts
  BY SettingsAssumption DEF SettingsTypeOK, RestartServer
<1> QED
  BY <1>1, <1>2 DEF SettingsTypeOK, RestartServer

LEMMA RestType ==
  ASSUME SettingsTypeOK, SettingsRest \/ UNCHANGED settings
  PROVE  SettingsTypeOK'
BY DEF SettingsTypeOK, SettingsRest, settings

\* Every step of the server is one of its settings.
LEMMA StepOfSettings ==
  ASSUME [Next]_vars
  PROVE  SettingsStep \/ RestartServer \/ SettingsRest \/ UNCHANGED settings
BY DEF Next, Restart, UploadAuth, Upload, Age, ReadPage, DeleteBatch, EndRun, FailRun, WorkerWakes,
       DashboardEmpties, vars

LEMMA SettingsInitType == SettingsInit => SettingsTypeOK
<1> SUFFICES ASSUME SettingsInit PROVE SettingsTypeOK
  OBVIOUS
<1>1. override \in Environments
  BY SettingsAssumption DEF SettingsInit
<1>2. environ \in Environments
  BY <1>1, LoadedType DEF SettingsInit
<1> QED
  BY <1>1, <1>2, SettingsAssumption DEF SettingsInit, SettingsTypeOK

LEMMA SettingsTypes == Spec => []SettingsTypeOK
<1>1. Init => SettingsTypeOK
  BY SettingsInitType DEF Init
<1>2. SettingsTypeOK /\ [Next]_vars => SettingsTypeOK'
  BY StepOfSettings, SettingsStepType, RestartType, RestType
<1> QED
  BY <1>1, <1>2, PTL DEF Spec

\* However many forms are open and wherever a save breaks off, a field nobody
\* edited is written with a value the process had when a form was loaded.
THEOREM OnlySeenIsWritten == Spec => UneditedIsSeen
<1> DEFINE Seen(k, t) == \/ override'[k] = loaded[t][k]
                         \/ loaded[t][k] = Unset /\ override'[k] = Empty /\ k \notin Required
           Unedited == \A k \in Keys \ edited' : override'[k] # override[k] => \E t \in Tabs : Seen(k, t)
<1>1. ASSUME SettingsTypeOK, [Next]_vars PROVE [Unedited]_settings
  <2>1. CASE override' = override
    BY <2>1
  <2>2. ASSUME NEW t \in Tabs, NEW changes \in Changes, Save(t, changes) PROVE Unedited
    <3> DEFINE posted == [x \in Keys |-> IF x \in DOMAIN changes THEN changes[x] ELSE Shown(x, loaded[t][x])]
    <3>1. PICK n \in 0..Len(SettingsKeys) :
            override' = Written(posted, Range(SubSeq(SettingsKeys, 1, n)))
      BY <2>2 DEF Save
    <3> DEFINE keys == Range(SubSeq(SettingsKeys, 1, n))
    <3>2. edited' = DOMAIN changes
      BY <2>2 DEF Save
    <3> SUFFICES ASSUME NEW k \in Keys \ edited', override'[k] # override[k] PROVE Seen(k, t)
      OBVIOUS
    <3> HIDE DEF keys
    <3> QED
      BY <1>1, <3>1, <3>2, WrittenValue DEF keys
  <2> HIDE DEF Unedited
  <2> QED
    BY <1>1, <2>1, <2>2, StepOfSettings DEF SettingsStep, OpenForm, RestartServer, SettingsRest, settings, Unedited
<1> QED
  BY <1>1, SettingsTypes, PTL DEF Spec, UneditedIsSeen

------------------------------------------------------------------------------
(* The pages of a listing.                                                 *)

LEMMA LeastNatural ==
  ASSUME NEW T \in SUBSET Nat, T # {}
  PROVE  \E x \in T : \A y \in T : x <= y
<1> DEFINE Less == {ss \in Nat \X Nat : ss[1] < ss[2]}
<1>1. IsWellFoundedOn(Less, Nat)
  BY NatLessThanWellFounded DEF OpToRel
<1>2. \A x, y \in Nat : y < x => <<y, x>> \in Less
  OBVIOUS
<1> HIDE DEF Less
<1>3. PICK x \in T : \A y \in T : ~(<<y, x>> \in Less)
  BY <1>1, WFMin
<1>4. x \in Nat /\ \A y \in T : y \in Nat
  OBVIOUS
<1>5. \A y \in T : ~(y < x)
  BY <1>2, <1>3, <1>4
<1>6. \A y \in T : x <= y
  BY <1>4, <1>5
<1> QED
  BY <1>6

\* The files of S whose names come before that of f.
Before(f, S) == {g \in S : g < f}

LEMMA BeforeProperties ==
  ASSUME NEW S \in SUBSET Nat, NEW f \in Nat
  PROVE  /\ IsFiniteSet(Before(f, S)) /\ Cardinality(Before(f, S)) \in Nat
         /\ \A g \in S : g < f => Cardinality(Before(g, S)) < Cardinality(Before(f, S))
<1> DEFINE B == Before(f, S)
<1>1. IsFiniteSet(B)
  <2>1. \A h \in B : h \in Nat /\ h < f
    BY DEF Before
  <2>2. B \in SUBSET (0..f)
    BY <2>1
  <2> HIDE DEF B
  <2>3. IsFiniteSet(0..f)
    BY FS_Interval
  <2> QED
    BY <2>2, <2>3, FS_Subset
<1>2. Cardinality(B) \in Nat
  BY <1>1, FS_CardinalityType
<1>3. ASSUME NEW g \in S, g < f PROVE Cardinality(Before(g, S)) < Cardinality(B)
  <2> DEFINE A == Before(g, S)
  <2>1. A \in SUBSET B /\ A # B
    <3>1. \A h \in S : h \in Nat
      OBVIOUS
    <3>2. \A h \in A : h \in B
      BY <1>3, <3>1 DEF Before
    <3>3. g \in B /\ g \notin A
      BY <1>3, <3>1 DEF Before
    <3> QED
      BY <3>2, <3>3
  <2> HIDE DEF A, B
  <2>2. Cardinality(A) <= Cardinality(B) /\ Cardinality(A) # Cardinality(B) /\ IsFiniteSet(A)
    BY <1>1, <2>1, FS_Subset
  <2>3. Cardinality(A) \in Nat
    BY <2>2, FS_CardinalityType
  <2> QED
    BY <1>2, <2>2, <2>3 DEF A, B
<1> QED
  BY <1>1, <1>2, <1>3

LEMMA SmallestMembers ==
  ASSUME NEW S \in SUBSET Nat, NEW n \in Nat
  PROVE  /\ Smallest(n, S) \subseteq S
         /\ \A f \in S : f \in Smallest(n, S) <=> Cardinality(Before(f, S)) < n
BY DEF Smallest, Before

\* A page has a last file, although nothing says that S is finite.
LEMMA PageHasLast ==
  ASSUME NEW S \in SUBSET Nat, NEW n \in Nat, NEW page, page = Smallest(n, S), page # {}
  PROVE  Max(page) \in page /\ \A g \in page : g <= Max(page)
<1> DEFINE Count(g) == Cardinality(Before(g, S))
           T == {n - Count(g) : g \in page}
<1>1. page \subseteq S /\ \A g \in page : Count(g) \in Nat /\ Count(g) < n
  BY SmallestMembers, BeforeProperties
<1>2. \A g, h \in page : g < h => Count(g) < Count(h)
  BY <1>1, BeforeProperties
<1> HIDE DEF Count
<1>3. T \in SUBSET Nat /\ T # {}
  <2>1. \A g \in page : n - Count(g) \in Nat
    BY <1>1
  <2> QED
    BY <2>1
<1>4. PICK x \in T : \A y \in T : x <= y
  BY <1>3, LeastNatural
<1>5. PICK last \in page : x = n - Count(last)
  BY <1>4
<1>6. ASSUME NEW g \in page PROVE g <= last
  <2>1. Count(g) <= Count(last)
    BY <1>1, <1>4, <1>5
  <2>2. g \in Nat /\ last \in Nat
    BY <1>1
  <2> QED
    BY <1>1, <1>2, <2>1, <2>2
<1>7. \E m \in page : \A g \in page : m >= g
  <2>1. \A g \in page : g \in Nat
    BY <1>1
  <2> QED
    BY <1>5, <1>6, <2>1
<1>8. Max(page) \in page /\ \A g \in page : Max(page) >= g
  BY <1>7 DEF Max
<1> QED
  BY <1>1, <1>8

\* What is not on the page comes after all that is.
LEMMA RestIsAfter ==
  ASSUME NEW S \in SUBSET Nat, NEW n \in Nat, NEW page, page = Smallest(n, S), page # {},
         NEW f \in S \ page
  PROVE  f > Max(page)
<1>1. Max(page) \in page
  BY PageHasLast
<1> DEFINE last == Max(page)
<1>2. last \in page
  BY <1>1
<1> HIDE DEF last
<1>3. last \in S /\ Cardinality(Before(last, S)) < n /\ Cardinality(Before(last, S)) \in Nat
  BY <1>2, SmallestMembers, BeforeProperties
<1>4. ~(Cardinality(Before(f, S)) < n) /\ Cardinality(Before(f, S)) \in Nat
  BY SmallestMembers, BeforeProperties
<1>5. f \in Nat /\ last \in Nat /\ f # last
  BY <1>2, <1>3
<1>6. ~(f < last)
  BY <1>3, <1>4, <1>5, BeforeProperties
<1>7. f > last
  BY <1>5, <1>6
<1> QED
  BY <1>7 DEF last

------------------------------------------------------------------------------
(* The relay files.                                                        *)

Runs == [state : {"idle", "runs"}, bucket : Buckets \cup {Nowhere}, cursor : Files \cup {-1},
         last : BOOLEAN, batch : SUBSET Files, due : SUBSET Files]
FilesType ==
  /\ place \in [Files -> Buckets \cup {"local", Nowhere}]
  /\ present \subseteq {f \in Files : place[f] # Nowhere}
  /\ uploads \in 0..MaxUploads
  /\ old \subseteq In("local")
RunsType ==
  /\ worker \in {"off", "sleeps", "empties"}
  /\ run \in [Callers -> Runs]
  /\ run["worker"].state = "runs" <=> worker = "empties"
  /\ failures \in 0..MaxFailures

\* What e found when it began and is still there was collected, or is yet to be
\* listed.
RunInv(e) ==
  run[e].state = "runs" =>
    \A f \in run[e].due \cap present :
      /\ place[f] = run[e].bucket
      /\ f \in run[e].batch \/ (~run[e].last /\ f > run[e].cursor)
RelayInv ==
  /\ SettingsTypeOK /\ FilesType /\ RunsType
  /\ worker # "off" => WorkerStarts
  /\ \A e \in Callers : RunInv(e)

LEMMA SettingValue ==
  ASSUME SettingsTypeOK, NEW k \in Keys
  PROVE  Setting(k) \in Entries[k] \cup {Empty, Default[k]}
<1>1. environ[k] \in Entries[k] \cup {Unset, Empty}
  BY EnvironmentValue DEF SettingsTypeOK
<1> QED
  BY <1>1 DEF Setting

LEMMA BucketSettings ==
  ASSUME SettingsTypeOK
  PROVE  /\ Setting("R2_BUCKET_NAME") # Empty => Setting("R2_BUCKET_NAME") \in Buckets
         /\ Setting("DASHBOARD_R2_BUCKET") # Empty => Setting("DASHBOARD_R2_BUCKET") \in Buckets
<1>1. "R2_BUCKET_NAME" \in Keys /\ "DASHBOARD_R2_BUCKET" \in Keys
  BY RelayAssumption
<1> QED
  BY <1>1, SettingValue DEF Buckets

LEMMA RestOfServer ==
  ASSUME RelayInv, SettingsRest \/ SettingsStep, NEW w \in {"off", "sleeps", "empties"},
         w # "off" => worker # "off", worker' = w
  PROVE  SettingsTypeOK' /\ (worker' # "off" => WorkerStarts')
<1>1. SettingsTypeOK'
  BY RestType, SettingsStepType DEF RelayInv
<1>2. environ' = environ
  BY DEF SettingsRest, SettingsStep, OpenForm, Save
<1>3. WorkerStarts' <=> WorkerStarts
  BY <1>2 DEF WorkerStarts, HasClient, IsLocal, Setting
<1> QED
  BY <1>1, <1>3 DEF RelayInv

\* Emptying goes on as it was if files go and the others stay where they are.
LEMMA RunKept ==
  ASSUME NEW e \in Callers, RunInv(e), run'[e] = run[e], present' \subseteq present,
         \A f \in present' : place'[f] = place[f]
  PROVE  RunInv(e)'
BY DEF RunInv

LEMMA FilesDeleted ==
  ASSUME FilesType, NEW gone, Deleted(gone), UNCHANGED <<place, uploads>>
  PROVE  FilesType' /\ present' \subseteq present
BY DEF FilesType, Deleted, In

LEMMA RunChanged ==
  ASSUME RunsType, NEW e \in Callers, NEW r \in Runs, run' = [run EXCEPT ![e] = r]
  PROVE  run' \in [Callers -> Runs] /\ run'[e] = r /\ \A d \in Callers \ {e} : run'[d] = run[d]
BY DEF RunsType

LEMMA NoRun == Idle \in Runs /\ Idle.state = "idle"
BY DEF Idle, Runs

\* A run that begins has everything before it.
LEMMA BegunRun ==
  ASSUME FilesType, NEW bucket \in Buckets
  PROVE  LET r == Begun(bucket) IN
         /\ r \in Runs /\ r.state = "runs" /\ r.bucket = bucket
         /\ r.cursor = -1 /\ r.last = FALSE /\ r.due = In(bucket)
<1>1. In(bucket) \in SUBSET Files
  BY DEF FilesType, In
<1> DEFINE found == In(bucket)
           r == [Idle EXCEPT !.state = "runs", !.bucket = bucket, !.due = found]
<1>2. found \in SUBSET Files
  BY <1>1
<1> HIDE DEF found
<1>3. r \in Runs
  BY <1>2, NoRun DEF Runs
<1>4. r.state = "runs" /\ r.bucket = bucket /\ r.cursor = -1 /\ r.last = FALSE /\ r.due = found
  BY DEF Idle
<1> QED
  BY <1>3, <1>4 DEF Begun, found

LEMMA InitRelay == Init => RelayInv
<1> SUFFICES ASSUME Init PROVE RelayInv
  OBVIOUS
<1>1. SettingsTypeOK
  BY SettingsInitType DEF Init
<1>2. FilesType
  BY RelayAssumption DEF Init, FilesType
<1>3. run \in [Callers -> Runs] /\ \A e \in Callers : run[e].state = "idle"
  BY NoRun DEF Init
<1>4. RunsType
  BY <1>3, RelayAssumption DEF Init, RunsType, Callers
<1>5. worker # "off" => WorkerStarts
  BY DEF Init
<1>6. \A e \in Callers : RunInv(e)
  BY <1>3 DEF RunInv
<1> QED
  BY <1>1, <1>2, <1>4, <1>5, <1>6 DEF RelayInv

\* The process ends: nobody empties anything.
LEMMA RestartStep ==
  ASSUME RelayInv, Restart
  PROVE  RelayInv'
<1>1. SettingsTypeOK'
  BY RestartType DEF RelayInv, Restart
<1>2. FilesType'
  BY DEF RelayInv, FilesType, Restart, files, In
<1>3. run' \in [Callers -> Runs] /\ \A e \in Callers : run'[e].state = "idle"
  BY NoRun DEF Restart
<1>4. worker' \in {"off", "sleeps"} /\ (worker' # "off" => WorkerStarts')
  BY DEF Restart
<1>5. RunsType'
  BY <1>3, <1>4 DEF RelayInv, RunsType, Restart, Callers
<1>6. \A e \in Callers : RunInv(e)'
  BY <1>3 DEF RunInv
<1> QED
  BY <1>1, <1>2, <1>4, <1>5, <1>6 DEF RelayInv

\* URLs are given for files that are not there yet.
LEMMA UploadAuthStep ==
  ASSUME RelayInv, NEW f \in Files, UploadAuth(f)
  PROVE  RelayInv'
<1>1. SettingsTypeOK' /\ (worker' # "off" => WorkerStarts')
  BY RestOfServer DEF UploadAuth, RelayInv, RunsType
<1>2. PICK where \in Buckets \cup {"local"} : place' = [place EXCEPT ![f] = where]
  BY BucketSettings DEF UploadAuth, RelayInv
<1>3. f \notin present /\ \A g \in present : place'[g] = place[g]
  BY <1>2 DEF UploadAuth, RelayInv, FilesType
<1>4. FilesType'
  <2>1. place' \in [Files -> Buckets \cup {"local", Nowhere}]
    BY <1>2 DEF RelayInv, FilesType
  <2>2. present' \subseteq {g \in Files : place'[g] # Nowhere}
    BY <1>3 DEF RelayInv, FilesType, UploadAuth
  <2>3. old' \subseteq In("local")'
    BY <1>3 DEF RelayInv, FilesType, UploadAuth, In
  <2> QED
    BY <2>1, <2>2, <2>3 DEF RelayInv, FilesType, UploadAuth
<1>5. RunsType'
  BY DEF RelayInv, RunsType, UploadAuth
<1>6. \A e \in Callers : RunInv(e)'
  BY <1>3, RunKept DEF RelayInv, UploadAuth
<1> QED
  BY <1>1, <1>4, <1>5, <1>6 DEF RelayInv

\* What arrives meanwhile is not what an emptying found.
LEMMA UploadStep ==
  ASSUME RelayInv, NEW f \in Files, Upload(f)
  PROVE  RelayInv'
<1>1. SettingsTypeOK' /\ (worker' # "off" => WorkerStarts')
  BY RestOfServer DEF Upload, RelayInv, RunsType
<1>2. FilesType'
  <2>1. present' \subseteq {g \in Files : place'[g] # Nowhere} /\ old' \subseteq In("local")'
    BY DEF RelayInv, FilesType, Upload, In
  <2>2. uploads' \in 0..MaxUploads
    BY RelayAssumption DEF RelayInv, FilesType, Upload
  <2> QED
    BY <2>1, <2>2 DEF RelayInv, FilesType, Upload
<1>3. ASSUME NEW e \in Callers
      PROVE  /\ run'[e] \in Runs /\ run'[e].state = run[e].state /\ run'[e].bucket = run[e].bucket
             /\ run'[e].cursor = run[e].cursor /\ run'[e].last = run[e].last
             /\ run'[e].batch = run[e].batch /\ run'[e].due = run[e].due \ {f}
  <2> DEFINE r == run[e]
  <2>1. r \in Runs
    BY DEF RelayInv, RunsType
  <2>2. run'[e] = [r EXCEPT !.due = r.due \ {f}]
    BY DEF Upload
  <2> HIDE DEF r
  <2>3. run'[e] \in Runs /\ run'[e].state = r.state /\ run'[e].bucket = r.bucket
        /\ run'[e].cursor = r.cursor /\ run'[e].last = r.last
        /\ run'[e].batch = r.batch /\ run'[e].due = r.due \ {f}
    BY <2>1, <2>2 DEF Runs
  <2> QED
    BY <2>3 DEF r
<1>4. run' \in [Callers -> Runs]
  BY <1>3 DEF Upload
<1>5. RunsType'
  BY <1>3, <1>4 DEF RelayInv, RunsType, Upload, Callers
<1>6. \A e \in Callers : RunInv(e)'
  BY <1>3 DEF RelayInv, RunInv, Upload
<1> QED
  BY <1>1, <1>2, <1>5, <1>6 DEF RelayInv

LEMMA AgeStep ==
  ASSUME RelayInv, NEW f \in Files, Age(f)
  PROVE  RelayInv'
<1>1. SettingsTypeOK' /\ (worker' # "off" => WorkerStarts')
  BY RestOfServer DEF Age, RelayInv, RunsType
<1>2. FilesType'
  BY DEF RelayInv, FilesType, Age, In
<1>3. RunsType'
  BY DEF RelayInv, RunsType, Age
<1>4. \A e \in Callers : RunInv(e)'
  BY RunKept DEF RelayInv, Age
<1> QED
  BY <1>1, <1>2, <1>3, <1>4 DEF RelayInv

\* The cursor moves past a page whose files are collected.
LEMMA ReadPageStep ==
  ASSUME RelayInv, NEW e \in Callers, ReadPage(e)
  PROVE  RelayInv'
<1> DEFINE r == run[e]
           rest == {f \in In(r.bucket) : f > r.cursor}
<1>1. SettingsTypeOK' /\ (worker' # "off" => WorkerStarts')
  BY RestOfServer DEF ReadPage, RelayInv, RunsType
<1>2. FilesType'
  BY DEF RelayInv, FilesType, ReadPage, files, In
<1>3. PICK n \in 1..Limit :
        run' = [run EXCEPT ![e].batch = @ \cup Smallest(n, rest),
                           ![e].cursor = IF Smallest(n, rest) = {} THEN @ ELSE Max(Smallest(n, rest)),
                           ![e].last = (Smallest(n, rest) = rest)]
  BY DEF ReadPage
<1> DEFINE page == Smallest(n, rest)
           cursor == IF page = {} THEN r.cursor ELSE Max(page)
           last == page = rest
<1>4. rest \in SUBSET Files /\ rest \in SUBSET Nat
  BY RelayAssumption DEF RelayInv, FilesType, In
<1>5. page \subseteq rest /\ n \in Nat
  BY <1>4, RelayAssumption DEF Smallest
<1>6. r \in Runs
  BY DEF RelayInv, RunsType
<1>7. cursor \in Files \cup {-1}
  <2>1. CASE page = {}
    BY <1>6, <2>1 DEF Runs
  <2>2. CASE page # {}
    <3>1. Max(page) \in page
      <4> HIDE DEF rest
      <4> QED
        BY <1>4, <1>5, <2>2, PageHasLast
    <3> QED
      BY <1>4, <1>5, <2>2, <3>1
  <2> QED
    BY <2>1, <2>2
<1>8. /\ run' \in [Callers -> Runs]
      /\ \A d \in Callers \ {e} : run'[d] = run[d]
      /\ run'[e].state = r.state /\ run'[e].bucket = r.bucket /\ run'[e].due = r.due
      /\ run'[e].batch = r.batch \cup page /\ run'[e].cursor = cursor /\ (run'[e].last <=> last)
  <2> DEFINE s == [r EXCEPT !.batch = r.batch \cup page, !.cursor = cursor, !.last = last]
  <2>1. last \in BOOLEAN /\ page \in SUBSET Files
    BY <1>4, <1>5
  <2>2. run' = [run EXCEPT ![e] = s]
    <3> HIDE DEF page
    <3> QED
      BY <1>3 DEF page, RelayInv, RunsType
  <2> HIDE DEF rest, page, cursor, last
  <2>3. s \in Runs
    BY <1>6, <1>7, <2>1 DEF Runs
  <2>4. s.state = r.state /\ s.bucket = r.bucket /\ s.due = r.due
        /\ s.batch = r.batch \cup page /\ s.cursor = cursor /\ s.last = last
    BY <1>6 DEF Runs
  <2> HIDE DEF s
  <2>5. run' \in [Callers -> Runs] /\ run'[e] = s /\ \A d \in Callers \ {e} : run'[d] = run[d]
    BY <2>2, <2>3, RunChanged DEF RelayInv
  <2> QED
    BY <2>4, <2>5
<1>9. RunsType'
  BY <1>8 DEF RelayInv, RunsType, ReadPage, Callers
<1>10. ASSUME NEW f \in r.due \cap present, r.state = "runs"
       PROVE  /\ place[f] = r.bucket
              /\ f \in r.batch \cup page \/ (~last /\ f > cursor)
  <2>1. place[f] = r.bucket /\ (f \in r.batch \/ (~r.last /\ f > r.cursor))
    BY <1>10 DEF RelayInv, RunInv
  <2>2. CASE f \notin r.batch /\ f \notin page
    <3>1. f \in rest \ page
      BY <2>1, <2>2 DEF In
    <3>2. CASE page = {}
      BY <2>1, <2>2, <3>1, <3>2
    <3>3. CASE page # {}
      <4> HIDE DEF rest
      <4>1. f > Max(page)
        BY <1>4, <1>5, <3>1, <3>3, RestIsAfter
      <4> QED
        BY <2>1, <3>1, <3>3, <4>1
    <3> QED
      BY <3>2, <3>3
  <2> QED
    BY <2>1, <2>2
<1>11. \A d \in Callers : RunInv(d)'
  <2>1. RunInv(e)'
    <3>1. UNCHANGED <<present, place>>
      BY DEF ReadPage, files
    <3> HIDE DEF cursor, last, page, rest
    <3> QED
      BY <1>8, <1>10, <3>1 DEF RunInv
  <2>2. \A d \in Callers \ {e} : RunInv(d)'
    BY <1>8, RunKept DEF RelayInv, ReadPage, files
  <2> QED
    BY <2>1, <2>2
<1> QED
  BY <1>1, <1>2, <1>9, <1>11 DEF RelayInv

LEMMA DeleteBatchStep ==
  ASSUME RelayInv, NEW e \in Callers, DeleteBatch(e)
  PROVE  RelayInv'
<1> DEFINE r == run[e]
           gone == Smallest(Limit, r.batch)
<1>1. SettingsTypeOK' /\ (worker' # "off" => WorkerStarts')
  BY RestOfServer DEF DeleteBatch, RelayInv, RunsType
<1>2. Deleted(gone) /\ UNCHANGED <<place, uploads, failures, worker>>
  BY DEF DeleteBatch
<1>3. FilesType' /\ present' = present \ gone
  BY <1>2, FilesDeleted DEF RelayInv, Deleted
<1>4. /\ run' \in [Callers -> Runs]
      /\ \A d \in Callers \ {e} : run'[d] = run[d]
      /\ run'[e].state = r.state /\ run'[e].bucket = r.bucket /\ run'[e].due = r.due
      /\ run'[e].batch = r.batch \ gone /\ run'[e].cursor = r.cursor /\ run'[e].last = r.last
  <2> DEFINE s == [r EXCEPT !.batch = r.batch \ gone]
  <2>1. r \in Runs
    BY DEF RelayInv, RunsType
  <2>2. run' = [run EXCEPT ![e] = s]
    BY DEF DeleteBatch, RelayInv, RunsType
  <2> HIDE DEF gone
  <2>3. s \in Runs
    BY <2>1 DEF Runs
  <2>4. s.state = r.state /\ s.bucket = r.bucket /\ s.due = r.due
        /\ s.batch = r.batch \ gone /\ s.cursor = r.cursor /\ s.last = r.last
    BY <2>1 DEF Runs
  <2> HIDE DEF s
  <2>5. run' \in [Callers -> Runs] /\ run'[e] = s /\ \A d \in Callers \ {e} : run'[d] = run[d]
    BY <2>2, <2>3, RunChanged DEF RelayInv
  <2> QED
    BY <2>4, <2>5
<1> HIDE DEF gone
<1>5. RunsType'
  BY <1>2, <1>4 DEF RelayInv, RunsType, Callers
<1>6. RunInv(e)'
  BY <1>2, <1>3, <1>4 DEF RelayInv, RunInv
<1>7. \A d \in Callers \ {e} : RunInv(d)'
  BY <1>2, <1>3, <1>4, RunKept DEF RelayInv
<1> QED
  BY <1>1, <1>3, <1>5, <1>6, <1>7 DEF RelayInv

\* A run of e is over, and nothing arrives.
LEMMA OverStep ==
  ASSUME RelayInv, NEW e \in Callers, run[e].state = "runs", run' = [run EXCEPT ![e] = Idle],
         Rests(e), SettingsRest, place' = place, present' \subseteq present, FilesType', failures' \in 0..MaxFailures
  PROVE  RelayInv'
<1>1. worker' \in {"off", "sleeps", "empties"} /\ (worker' # "off" => worker # "off")
  BY DEF Rests, RelayInv, RunsType
<1>2. SettingsTypeOK' /\ (worker' # "off" => WorkerStarts')
  BY <1>1, RestOfServer
<1>3. run' \in [Callers -> Runs] /\ run'[e].state = "idle" /\ \A d \in Callers \ {e} : run'[d] = run[d]
  BY NoRun, RunChanged DEF RelayInv
<1>4. RunsType'
  BY <1>1, <1>3 DEF RelayInv, RunsType, Rests, Callers
<1>5. RunInv(e)'
  BY <1>3 DEF RunInv
<1>6. \A d \in Callers \ {e} : RunInv(d)'
  BY <1>3, RunKept DEF RelayInv
<1> QED
  BY <1>2, <1>4, <1>5, <1>6 DEF RelayInv

LEMMA EndRunStep ==
  ASSUME RelayInv, NEW e \in Callers, EndRun(e)
  PROVE  RelayInv'
<1>1. FilesType' /\ present' \subseteq present
  BY FilesDeleted DEF EndRun, RelayInv
<1> QED
  BY <1>1, OverStep DEF EndRun, RelayInv, RunsType

LEMMA FailRunStep ==
  ASSUME RelayInv, NEW e \in Callers, FailRun(e)
  PROVE  RelayInv'
<1>1. FilesType' /\ present' \subseteq present
  BY DEF FailRun, RelayInv, FilesType, files, In
<1>2. failures' \in 0..MaxFailures
  BY RelayAssumption DEF FailRun, RelayInv, RunsType
<1> QED
  BY <1>1, <1>2, OverStep DEF FailRun, files

\* A run of e begins.
LEMMA BeginStep ==
  ASSUME RelayInv, NEW e \in Callers, run[e].state # "runs", NEW bucket \in Buckets,
         run' = [run EXCEPT ![e] = Begun(bucket)], SettingsRest,
         worker' = (IF e = "worker" THEN "empties" ELSE worker),
         e = "worker" => worker = "sleeps", UNCHANGED <<files, failures>>
  PROVE  RelayInv'
<1> DEFINE r == Begun(bucket)
<1>1. SettingsTypeOK' /\ (worker' # "off" => WorkerStarts')
  BY RestOfServer DEF RelayInv, RunsType
<1>2. FilesType'
  BY DEF RelayInv, FilesType, files, In
<1>3. r \in Runs /\ r.state = "runs" /\ r.bucket = bucket /\ r.cursor = -1 /\ r.last = FALSE
      /\ r.due = In(bucket)
  BY BegunRun DEF RelayInv
<1> HIDE DEF r
<1>4. run' \in [Callers -> Runs] /\ run'[e] = r /\ \A d \in Callers \ {e} : run'[d] = run[d]
  BY <1>3, RunChanged DEF RelayInv, r
<1>5. RunsType'
  BY <1>3, <1>4 DEF RelayInv, RunsType, Callers
<1>6. RunInv(e)'
  <2>1. \A f \in In(bucket) : place[f] = bucket /\ f > -1
    BY RelayAssumption DEF In, RelayInv, FilesType
  <2> QED
    BY <1>3, <1>4, <2>1 DEF RunInv, files
<1>7. \A d \in Callers \ {e} : RunInv(d)'
  BY <1>4, RunKept DEF RelayInv, files
<1> QED
  BY <1>1, <1>2, <1>5, <1>6, <1>7 DEF RelayInv

\* Local files go at once.
LEMMA PurgeStep ==
  ASSUME RelayInv, NEW gone, Deleted(gone), SettingsRest, UNCHANGED <<place, uploads, worker, run, failures>>
  PROVE  RelayInv'
<1>1. FilesType' /\ present' \subseteq present
  BY FilesDeleted DEF RelayInv
<1>2. SettingsTypeOK' /\ (worker' # "off" => WorkerStarts')
  BY RestOfServer DEF RelayInv, RunsType
<1>3. RunsType'
  BY DEF RelayInv, RunsType
<1>4. \A e \in Callers : RunInv(e)'
  BY <1>1, RunKept DEF RelayInv
<1> QED
  BY <1>1, <1>2, <1>3, <1>4 DEF RelayInv

LEMMA WorkerWakesStep ==
  ASSUME RelayInv, WorkerWakes
  PROVE  RelayInv'
<1>1. CASE IsLocal /\ Deleted(old) /\ UNCHANGED <<worker, run>>
  BY <1>1, PurgeStep DEF WorkerWakes
<1>2. CASE ~IsLocal /\ worker' = "empties" /\ run' = [run EXCEPT !["worker"] = Begun(CleanupBucket)]
           /\ UNCHANGED <<present, old>>
  <2>1. CleanupBucket \in Buckets
    BY <1>2, BucketSettings DEF CleanupBucket, WorkerWakes, WorkerStarts, IsLocal, RelayInv
  <2>2. run["worker"].state # "runs" /\ "worker" \in Callers
    BY DEF WorkerWakes, RelayInv, RunsType, Callers
  <2> QED
    BY <1>2, <2>1, <2>2, BeginStep DEF WorkerWakes, files
<1> QED
  BY <1>1, <1>2 DEF WorkerWakes

LEMMA DashboardEmptiesStep ==
  ASSUME RelayInv, DashboardEmpties
  PROVE  RelayInv'
<1>1. CASE IsLocal /\ Deleted(In("local")) /\ UNCHANGED run
  BY <1>1, PurgeStep DEF DashboardEmpties
<1>2. CASE run' = [run EXCEPT !["dashboard"] = Begun(Setting("DASHBOARD_R2_BUCKET"))]
           /\ Setting("DASHBOARD_R2_BUCKET") # Empty /\ UNCHANGED <<present, old>>
  <2>1. Setting("DASHBOARD_R2_BUCKET") \in Buckets
    BY <1>2, BucketSettings DEF RelayInv
  <2>2. "dashboard" \in Callers
    BY DEF Callers
  <2> QED
    BY <1>2, <2>1, <2>2, BeginStep DEF DashboardEmpties, files
<1> QED
  BY <1>1, <1>2 DEF DashboardEmpties

LEMMA FormStep ==
  ASSUME RelayInv, (SettingsStep /\ UNCHANGED <<files, worker, run, failures>>) \/ UNCHANGED vars
  PROVE  RelayInv'
<1>1. UNCHANGED <<files, worker, run, failures>>
  BY DEF vars
<1>2. SettingsTypeOK' /\ (worker' # "off" => WorkerStarts')
  <2>1. CASE SettingsStep
    BY <1>1, <2>1, RestOfServer DEF RelayInv, RunsType
  <2>2. CASE UNCHANGED settings
    BY <1>1, <2>2, RestType DEF RelayInv, WorkerStarts, HasClient, IsLocal, Setting, settings
  <2> QED
    BY <2>1, <2>2 DEF vars
<1>3. FilesType' /\ RunsType'
  BY <1>1 DEF RelayInv, FilesType, RunsType, files, In
<1>4. \A e \in Callers : RunInv(e)'
  BY <1>1, RunKept DEF RelayInv, files
<1> QED
  BY <1>2, <1>3, <1>4 DEF RelayInv

LEMMA RelayStep == RelayInv /\ [Next]_vars => RelayInv'
BY FormStep, RestartStep, UploadAuthStep, UploadStep, AgeStep, ReadPageStep, DeleteBatchStep, EndRunStep,
   FailRunStep, WorkerWakesStep, DashboardEmptiesStep DEF Next

LEMMA RelayInvariant == Spec => []RelayInv
BY InitRelay, RelayStep, PTL DEF Spec

\* The settings, the files and the emptyings are well formed, and only a worker
\* that was started empties.
THEOREM TypeCorrectness == Spec => []TypeOK
<1>1. RelayInv => TypeOK
  <2> SUFFICES ASSUME RelayInv PROVE TypeOK
    OBVIOUS
  <2>1. (run["worker"].state = "runs") = (worker = "empties")
    BY DEF RelayInv, RunsType
  <2> QED
    BY <2>1 DEF RelayInv, FilesType, RunsType, Runs, TypeOK
<1> QED
  BY <1>1, RelayInvariant, PTL

\* A page or a batch ends no emptying.
LEMMA RunGoesOn ==
  ASSUME RunsType, NEW e \in Callers, ReadPage(e) \/ DeleteBatch(e)
  PROVE  run'[e].state = run[e].state /\ \A d \in Callers \ {e} : run'[d] = run[d]
<1>1. run \in [Callers -> Runs] /\ run[e] \in Runs
  BY DEF RunsType
<1>2. CASE ReadPage(e)
  <2>1. PICK X, Y, Z : run' = [run EXCEPT ![e].batch = @ \cup X, ![e].cursor = Y, ![e].last = Z]
    <3>1. PICK n \in 1..Limit :
            LET page == Smallest(n, {f \in In(run[e].bucket) : f > run[e].cursor})
            IN  run' = [run EXCEPT ![e].batch = @ \cup page,
                                   ![e].cursor = IF page = {} THEN @ ELSE Max(page),
                                   ![e].last = (page = {f \in In(run[e].bucket) : f > run[e].cursor})]
      BY <1>2 DEF ReadPage
    <3> DEFINE rest == {f \in In(run[e].bucket) : f > run[e].cursor}
               page == Smallest(n, rest)
               Y == IF page = {} THEN run[e].cursor ELSE Max(page)
               Z == page = rest
    <3>2. run' = [run EXCEPT ![e].batch = @ \cup page, ![e].cursor = Y, ![e].last = Z]
      BY <1>1, <3>1 DEF Runs
    <3> HIDE DEF page, Y, Z
    <3> QED
      BY <3>2
  <2> QED
    BY <1>1, <2>1 DEF Runs
<1>3. CASE DeleteBatch(e)
  <2> DEFINE gone == Smallest(Limit, run[e].batch)
  <2>1. run' = [run EXCEPT ![e].batch = @ \ gone]
    BY <1>3 DEF DeleteBatch
  <2> HIDE DEF gone
  <2> QED
    BY <1>1, <2>1 DEF Runs
<1> QED
  BY <1>2, <1>3

\* Whatever the sizes of pages and batches, whoever else empties the bucket and
\* whatever is uploaded: an emptying that ends without an error leaves nothing
\* of what was there when it began.
THEOREM NothingIsLeftBehind == Spec => EmptiedAll
<1> DEFINE Emptied(e) == run[e].due \cap present' = {}
           Ends(e) == run[e].state = "runs" /\ run'[e].state = "idle" /\ UNCHANGED <<failures, restarts>>
           All == \A e \in Callers : Ends(e) => Emptied(e)
<1>1. ASSUME RelayInv, [Next]_vars PROVE [All]_vars
  <2>1. ASSUME NEW e \in Callers, EndRun(e) PROVE Emptied(e)
    <3>1. present' = present \ run[e].batch /\ run[e].last /\ run[e].state = "runs"
      BY <2>1 DEF EndRun, Deleted, Trailing
    <3>2. \A f \in run[e].due \cap present : f \in run[e].batch
      BY <1>1, <3>1 DEF RelayInv, RunInv
    <3> QED
      BY <3>1, <3>2
  <2>2. ASSUME NEW e \in Callers, Ends(e) PROVE EndRun(e)
    <3>1. ASSUME NEW d \in Callers, EndRun(d) PROVE d = e
      BY <1>1, <2>2, <3>1 DEF EndRun, RelayInv, RunsType
    <3>2. ASSUME NEW d \in Callers PROVE ~FailRun(d)
      BY <1>1, <2>2 DEF FailRun, RelayInv, RunsType
    <3>3. ~Restart
      BY <1>1, <2>2 DEF Restart, RestartServer, RelayInv, SettingsTypeOK
    <3>4. ASSUME NEW d \in Callers, ReadPage(d) \/ DeleteBatch(d) PROVE FALSE
      <4>1. run[d].state = "runs" /\ run'[d].state = run[d].state /\ (d # e => run'[e] = run[e])
        BY <1>1, <3>4, RunGoesOn DEF ReadPage, DeleteBatch, RelayInv
      <4> QED
        BY <2>2, <4>1
    <3>5. ASSUME NEW f \in Files, UploadAuth(f) \/ Upload(f) \/ Age(f) PROVE FALSE
      BY <1>1, <2>2, <3>5 DEF UploadAuth, Upload, Age, RelayInv, RunsType, Runs
    <3>6. ~WorkerWakes
      <4>1. ASSUME WorkerWakes PROVE run["worker"].state # "runs" /\ (run' = run \/ \E r : run' = [run EXCEPT !["worker"] = r])
        BY <1>1, <4>1 DEF WorkerWakes, RelayInv, RunsType
      <4> QED
        BY <1>1, <2>2, <4>1 DEF RelayInv, RunsType
    <3>7. ~DashboardEmpties
      <4>1. ASSUME DashboardEmpties PROVE run["dashboard"].state # "runs" /\ (run' = run \/ \E r : run' = [run EXCEPT !["dashboard"] = r])
        BY <4>1 DEF DashboardEmpties
      <4> QED
        BY <1>1, <2>2, <4>1 DEF RelayInv, RunsType
    <3>8. run' # run
      BY <2>2
    <3> QED
      BY <1>1, <3>1, <3>2, <3>3, <3>4, <3>5, <3>6, <3>7, <3>8 DEF Next, vars
  <2> QED
    BY <2>1, <2>2
<1> QED
  BY <1>1, RelayInvariant, PTL DEF Spec, EmptiedAll
=============================================================================
