----------------------------- MODULE RelayFiles -----------------------------
(***************************************************************************)
(* The relay files of all backends and what removes them, under settings   *)
(* that change: /api/file/upload_auth and /api/dashboard/r2_empty of       *)
(* route.py, empty_r2_bucket of r2_service.py, the cleanup worker of       *)
(* __init__.py.  LocalStorage has the local files in detail; here they are *)
(* there or not, and old or not.                                           *)
(*                                                                         *)
(* The object store is external: it lists the objects behind a key, in the *)
(* order of the keys and a page at a time, and any call of it may raise.   *)
(* Its calls wait for the network, and uploads go past the server.         *)
(***************************************************************************)
EXTENDS Settings, FiniteSetsExt

CONSTANTS
  Files,          \* file keys, numbered in the order of their names
  Limit,          \* 1000: the objects of a page and of one delete_objects
  MaxUploads,     \* bound: the uploads, first ones and retries
  MaxFailures,    \* bound: the calls of the object store that raise
  Nowhere

ASSUME RelayAssumption ==
  /\ Files \subseteq Nat /\ {Limit, MaxUploads, MaxFailures} \subseteq Nat /\ Limit > 0
  /\ {"STORAGE_BACKEND", "R2_ACCOUNT_ID", "R2_BUCKET_NAME", "DASHBOARD_R2_BUCKET"} \subseteq Keys

VARIABLES
  place,      \* where the URLs of each file point to: "local" or a bucket
  present,    \* the files that are there
  uploads,
  old,        \* the local files of more than an hour
  worker,     \* _cleanup_worker
  run,        \* empty_r2_bucket, for the worker and for the dashboard
  failures

files == <<place, present, uploads, old>>
vars == <<settings, files, worker, run, failures>>

Callers == {"worker", "dashboard"}
Buckets == Entries["R2_BUCKET_NAME"] \cup Entries["DASHBOARD_R2_BUCKET"]
             \cup {Default["R2_BUCKET_NAME"], Default["DASHBOARD_R2_BUCKET"]}
In(bucket) == {f \in present : place[f] = bucket}

TypeOK ==
  /\ SettingsTypeOK
  /\ place \in [Files -> Buckets \cup {"local", Nowhere}]
  /\ present \subseteq {f \in Files : place[f] # Nowhere}
  /\ uploads \in 0..MaxUploads
  /\ old \subseteq In("local")
  /\ worker \in {"off", "sleeps", "empties"}
  /\ run \in [Callers -> [state : {"idle", "runs"}, bucket : Buckets \cup {Nowhere},
                          cursor : Files \cup {-1}, last : BOOLEAN, batch : SUBSET Files, due : SUBSET Files]]
  /\ (run["worker"].state = "runs") = (worker = "empties")
  /\ failures \in 0..MaxFailures

\* Whether R2_ACCOUNT_ID makes a host name, so that there is an s3_client.
IsLocal == Setting("STORAGE_BACKEND") = "local"
HasClient == Setting("R2_ACCOUNT_ID") \in Entries["R2_ACCOUNT_ID"]

\* _r2_ready or _local_ready.
WorkerStarts ==
  \/ Setting("STORAGE_BACKEND") = "r2" /\ HasClient /\ Setting("R2_BUCKET_NAME") # Empty
  \/ IsLocal

Idle == [state |-> "idle", bucket |-> Nowhere, cursor |-> -1, last |-> FALSE,
         batch |-> {}, due |-> {}]       \* due, history: what was there when it began
Init ==
  /\ SettingsInit
  /\ place = [f \in Files |-> Nowhere] /\ present = {} /\ old = {}
  /\ uploads = 0
  /\ worker = IF WorkerStarts THEN "sleeps" ELSE "off"
  /\ run = [e \in Callers |-> Idle] /\ failures = 0

------------------------------------------------------------------------------
\* POST /api/file/upload_auth: the URLs name the present backend and bucket.
UploadAuth(f) ==
  /\ place[f] = Nowhere
  /\ \/ IsLocal /\ place' = [place EXCEPT ![f] = "local"]
     \/ /\ ~IsLocal /\ HasClient
        /\ Setting("R2_BUCKET_NAME") # Empty        \* boto3 signs no URL without a bucket
        /\ place' = [place EXCEPT ![f] = Setting("R2_BUCKET_NAME")]
  /\ SettingsRest /\ UNCHANGED <<present, uploads, old, worker, run, failures>>

\* The PUT of a client, which may try again: to the server, if it still stores
\* files, or to the bucket, past it.
Upload(f) ==
  /\ place[f] # Nowhere /\ uploads < MaxUploads
  /\ place[f] = "local" => IsLocal
  /\ present' = present \cup {f} /\ old' = old \ {f}
  /\ uploads' = uploads + 1
  /\ run' = [e \in Callers |-> [run[e] EXCEPT !.due = @ \ {f}]]
  /\ SettingsRest /\ UNCHANGED <<place, worker, failures>>

Age(f) ==
  /\ f \in In("local") \ old
  /\ old' = old \cup {f}
  /\ SettingsRest /\ UNCHANGED <<place, present, uploads, worker, run, failures>>

------------------------------------------------------------------------------
(* empty_r2_bucket, called by e.                                           *)

Begun(bucket) == [Idle EXCEPT !.state = "runs", !.bucket = bucket, !.due = In(bucket)]

Smallest(n, S) == {f \in S : Cardinality({g \in S : g < f}) < n}

\* The next page arrives; its keys are collected.
ReadPage(e) ==
  LET r == run[e]
      rest == {f \in In(r.bucket) : f > r.cursor}
  IN  /\ r.state = "runs" /\ ~r.last /\ Cardinality(r.batch) < Limit
      /\ \E n \in 1..Limit :
           LET page == Smallest(n, rest)
           IN  run' = [run EXCEPT ![e].batch = @ \cup page,
                                  ![e].cursor = IF page = {} THEN @ ELSE Max(page),
                                  ![e].last = (page = rest)]
      /\ SettingsRest /\ UNCHANGED <<files, worker, failures>>

\* The files are gone: by delete_objects, which raises or deletes all it is given
\* (an error of one object is not looked at), or by os.remove.
Deleted(gone) == present' = present \ gone /\ old' = old \ gone

\* Limit keys are collected: delete_objects, and the rest of the page.
DeleteBatch(e) ==
  LET gone == Smallest(Limit, run[e].batch)
  IN  /\ run[e].state = "runs" /\ Cardinality(run[e].batch) >= Limit
      /\ Deleted(gone)
      /\ run' = [run EXCEPT ![e].batch = @ \ gone]
      /\ SettingsRest /\ UNCHANGED <<place, uploads, worker, failures>>

RestsNot(e) == UNCHANGED worker   \* mutant: an error ends the worker
Rests(e) == IF e = "worker" THEN worker' = "sleeps" ELSE UNCHANGED worker

\* After the last page, what is left of the keys.
TrailingNone(e) == {}           \* mutant: only full batches are deleted
Trailing(e) == run[e].batch
EndRun(e) ==
  /\ run[e].state = "runs" /\ run[e].last /\ Cardinality(run[e].batch) < Limit
  /\ Deleted(Trailing(e))
  /\ run' = [run EXCEPT ![e] = Idle]
  /\ Rests(e)
  /\ SettingsRest /\ UNCHANGED <<place, uploads, failures>>

\* A call raises: the caller logs it or answers with a 500.
FailRun(e) ==
  /\ run[e].state = "runs" /\ failures < MaxFailures
  /\ failures' = failures + 1
  /\ run' = [run EXCEPT ![e] = Idle]
  /\ Rests(e)
  /\ SettingsRest /\ UNCHANGED <<files>>

------------------------------------------------------------------------------
\* The bucket the worker empties.
DashboardsBucket == Setting("DASHBOARD_R2_BUCKET")   \* mutant: that of the dashboard
CleanupBucket == Setting("R2_BUCKET_NAME")

\* An hour is over: purge_old_files, or empty_r2_bucket begins.
WorkerWakes ==
  /\ worker = "sleeps"
  /\ \/ /\ IsLocal /\ Deleted(old)
        /\ UNCHANGED <<worker, run>>
     \/ /\ ~IsLocal
        /\ worker' = "empties" /\ run' = [run EXCEPT !["worker"] = Begun(CleanupBucket)]
        /\ UNCHANGED <<present, old>>
  /\ SettingsRest /\ UNCHANGED <<place, uploads, failures>>

\* POST /api/dashboard/r2_empty.
DashboardEmpties ==
  /\ run["dashboard"].state # "runs"
  /\ \/ IsLocal /\ Deleted(In("local")) /\ UNCHANGED run
     \/ /\ ~IsLocal /\ HasClient /\ Setting("DASHBOARD_R2_BUCKET") # Empty
        /\ run' = [run EXCEPT !["dashboard"] = Begun(Setting("DASHBOARD_R2_BUCKET"))]
        /\ UNCHANGED <<present, old>>
  /\ SettingsRest /\ UNCHANGED <<place, uploads, worker, failures>>

\* The process ends, with what it was doing, and starts with the settings.
Restart ==
  /\ RestartServer
  /\ run' = [e \in Callers |-> Idle]
  /\ worker' = IF WorkerStarts' THEN "sleeps" ELSE "off"
  /\ UNCHANGED <<files, failures>>

Next ==
  \/ SettingsStep /\ UNCHANGED <<files, worker, run, failures>>
  \/ Restart
  \/ \E f \in Files : UploadAuth(f) \/ Upload(f) \/ Age(f)
  \/ \E e \in Callers : ReadPage(e) \/ DeleteBatch(e) \/ EndRun(e) \/ FailRun(e)
  \/ WorkerWakes \/ DashboardEmpties

\* Hours pass and the worker's calls are answered.
Fairness ==
  /\ WF_vars(WorkerWakes) /\ \A f \in Files : WF_vars(Age(f))
  /\ WF_vars(ReadPage("worker") \/ DeleteBatch("worker") \/ EndRun("worker"))

Spec == Init /\ [][Next]_vars /\ Fairness

------------------------------------------------------------------------------
\* An emptying that ends without an error has removed every object that was in
\* the bucket when it began, although pages and batches alternate and the other
\* caller empties the same bucket; only what was uploaded meanwhile may be left.
EmptiedAll ==
  [][\A e \in Callers : run[e].state = "runs" /\ run'[e].state = "idle" /\ UNCHANGED <<failures, restarts>> =>
       run[e].due \cap present' = {}]_vars

\* README, 'Every 60 minutes the server purges all relay files': a file goes, if
\* the settings do not move away from its backend and bucket while it is there.
\* (After such a change nobody removes it, and without a worker neither.)
Purges(f) ==
  worker # "off" /\ place[f] = IF IsLocal THEN "local" ELSE Setting("R2_BUCKET_NAME")
FilesArePurged == \A f \in Files : f \in present /\ Purges(f) ~> f \notin present \/ ~Purges(f)

------------------------------------------------------------------------------
\* The same sentence, of the worker: where R2 is set up and no field is ever
\* edited (MaxEdited = 0), it runs in every process.
AlwaysPurging == worker # "off"
=============================================================================
