------------------------------ MODULE Storage ------------------------------
(***************************************************************************)
(* The file storage of one workspace (storage.service.ts): records in a    *)
(* repository, bytes in an object store, a quota row that every operation  *)
(* writes back whole, signed URLs, and the nightly reconciliation job      *)
(* (storage-reconciliation.job.ts).  Every await is a step, and requests   *)
(* interleave at every await.                                              *)
(*                                                                         *)
(* The repositories are those the application wires: update merges the     *)
(* given fields into the row, archived or not; archive never refuses; no   *)
(* row has a unique key but its id.  Bytes are named by the upload that    *)
(* wrote them, which is what an etag stands for; 0 is no object.           *)
(***************************************************************************)
EXTENDS Integers, FiniteSets

CONSTANTS
  Callers,        \* requests that are served at one time
  Buckets, Keys, NoKey,
  Bucket,         \* the bucket a key lies in
  Sizes, LargestSize,   \* sizes of uploads, none above LargestSize
  QUOTA, DRIFT_THRESHOLD,
  DOWNLOAD_LIMIT,
  PAGE,           \* rows findMany gives when it is not told how many
  MaxFiles, MaxCalls, MaxFailures   \* bounds

ASSUME CallersAssumption == Callers # {} /\ IsFiniteSet(Callers)
ASSUME KeysAssumption == Bucket \in [Keys -> Buckets] /\ NoKey \notin Keys
ASSUME SizesAssumption ==
  /\ LargestSize \in Nat /\ Sizes \subseteq 0 .. LargestSize
  /\ QUOTA \in Nat /\ DRIFT_THRESHOLD \in Nat /\ DOWNLOAD_LIMIT \in Nat /\ PAGE \in Nat
ASSUME BoundsAssumption ==
  MaxFiles \in Nat \ {0} /\ MaxCalls \in Nat /\ MaxFailures \in Nat /\ MaxCalls <= MaxFiles

VARIABLES
  files,          \* file_records
  objects,        \* the object store: the bytes under a key
  bucketLive,     \* buckets that are not archived
  quota,          \* the row of storage_quotas
  urls,           \* the signed URL of a file
  call,           \* where a request stands, and what it read
  job,            \* the same for the reconciliation job
  begun, failures,\* requests begun, and failed steps, so far
  contested,      \* keys more than one record or request had to do with
  halfway,        \* keys where a step of a request failed
  ontoItself,     \* keys a file was moved onto that was already there
  drifted,        \* the quota row lost a change
  lost,           \* bytes the quota row, or a check of it, was thereby short of
  raced,          \* buckets archived while a request put a file there
  sent,           \* warnings sent
  miscounted,     \* files whose URL lost a count, or failed to write one
  served          \* downloads a URL gave

vars == <<files, objects, bucketLive, quota, urls, call, job, begun, failures,
          contested, halfway, ontoItself, drifted, lost, raced, sent, miscounted, served>>

Files   == 1..MaxFiles
NoFile  == 0
FileRow == [status : {"none", "available", "archived"}, key : Keys \cup {NoKey},
            etag : Nat, size : Nat, copied : BOOLEAN]
QuotaRow == [used : Nat, sent80 : BOOLEAN, sent95 : BOOLEAN]
UrlRow   == [state : {"none", "active", "revoked"}, count : Nat]
Ops      == {"none", "upload", "copy", "move", "delete", "tag", "deleteBucket", "resolve",
             "revoke"}
Places   == {"idle", "next", "bucket", "get", "put", "create", "archive", "unlink", "update",
             "quotaRead", "quotaWrite", "warn", "warn95", "warn80", "empty", "archiveBucket",
             "url", "serve"}
CallRow  == [op : Ops, at : Places, file : Files \cup {NoFile},
             src : Keys \cup {NoKey}, dest : Keys \cup {NoKey}, etag : Nat, size : Nat,
             quota : QuotaRow, bucket : SUBSET Buckets, todo : SUBSET Files]
JobRow   == [at : {"idle", "files", "write"}, seen : QuotaRow, actual : Nat,
             alone : Nat]   \* begun, if no request was under way; or else 0

NoQuota == [used |-> 0, sent80 |-> FALSE, sent95 |-> FALSE]
Idle == [op |-> "none", at |-> "idle", file |-> NoFile, src |-> NoKey, dest |-> NoKey,
         etag |-> 0, size |-> 0, quota |-> NoQuota, bucket |-> {}, todo |-> {}]
NoRun == [at |-> "idle", seen |-> NoQuota, actual |-> 0, alone |-> 0]

\* A first file was uploaded into the empty store, and a signed URL made for it.
Init ==
  /\ \E k \in Keys, s \in Sizes :
       /\ files = [f \in Files |->
            IF f = 1 THEN [status |-> "available", key |-> k, etag |-> 1, size |-> s,
                           copied |-> FALSE]
            ELSE [status |-> "none", key |-> NoKey, etag |-> 0, size |-> 0,
                  copied |-> FALSE]]
       /\ objects = [l \in Keys |-> IF l = k THEN 1 ELSE 0]
       /\ quota = [NoQuota EXCEPT !.used = s]
       /\ 100 * s < 80 * QUOTA
  /\ sent = [l \in {80, 95} |-> 0]
  /\ bucketLive = Buckets
  /\ urls = [f \in Files |-> [state |-> IF f = 1 THEN "active" ELSE "none", count |-> 0]]
  /\ call = [c \in Callers |-> Idle]
  /\ job = NoRun
  /\ begun = 1 /\ failures = 0
  /\ contested = {} /\ halfway = {} /\ ontoItself = {}
  /\ drifted = FALSE /\ lost = 0 /\ raced = {}
  /\ miscounted = {} /\ served = [f \in Files |-> 0]

Live      == {f \in Files : files[f].status = "available"}

\* The sum of size[x] over its domain, counted byte by byte.
Total(size) == Cardinality({p \in (DOMAIN size) \X (1 .. LargestSize) : p[2] <= size[p[1]]})
BytesIn(S) == Total([f \in Files |-> IF f \in S THEN files[f].size ELSE 0])
LiveBytes  == BytesIn(Live)
-----------------------------------------------------------------------------
\* What two requests may have in common.  It is judged when the second one has
\* read what it works on, and kept in contested, raced and miscounted.
KeysOf(c) == {call[c].src, call[c].dest} \cap Keys

InUse(k, c) ==
  \/ objects[k] # 0
  \/ \E f \in Live : files[f].key = k
  \/ \E d \in Callers \ {c} : k \in KeysOf(d)

\* Other requests that rewrite the record of f.
Meets(c, f) == {d \in Callers \ {c} :
                  call[d].file = f /\ call[d].op \in {"move", "delete", "tag"}}

Deleting(b) == \E d \in Callers : call[d].op = "deleteBucket" /\ b \in call[d].bucket

\* Request c goes on with file f, from src to dest.  Nothing stops a move onto the
\* key the file has: it puts the bytes there and then deletes them.
Touch(c, f, src, dest) ==
  LET keys   == {src, dest} \cap Keys
      met    == Meets(c, f)
      itself == IF call[c].op = "move" THEN {src} \cap {dest} ELSE {}
  IN /\ contested' = contested
          \cup {k \in keys \ itself : k = dest /\ (InUse(k, c) \/ k = src)}
          \cup (IF f # NoFile /\ met # {} THEN keys \cup UNION {KeysOf(d) : d \in met}
               ELSE {})
     /\ ontoItself' = ontoItself \cup itself
     /\ raced' = raced \cup {b \in {Bucket[k] : k \in keys} :
                               b \notin bucketLive \/ Deleting(b)}

Goto(c, place) == call' = [call EXCEPT ![c].at = place]
\* The request answers, or a bulk operation takes its next file.
Finish(c) ==
  LET r == call[c] IN
  call' = [call EXCEPT ![c] =
             IF r.todo = {} THEN Idle
             ELSE [Idle EXCEPT !.op = r.op, !.at = "next", !.bucket = r.bucket,
                               !.todo = r.todo]]
At(c, op, place) == call[c].op \in op /\ call[c].at = place

Fails == failures < MaxFailures /\ failures' = failures + 1
Begin(c) == call[c].at = "idle" /\ begun < MaxCalls /\ begun' = begun + 1
-----------------------------------------------------------------------------
\* Mutant: an upload does not look at the quota.
uploadFileUnchecked(c, k, s) ==
  /\ Begin(c)
  /\ call' = [call EXCEPT ![c] = [Idle EXCEPT !.op = "upload", !.at = "bucket",
                                   !.dest = k, !.size = s, !.etag = begun']]
  /\ Touch(c, NoFile, NoKey, k)
  /\ UNCHANGED <<files, objects, bucketLive, quota, urls, job, failures, halfway,
                 drifted, lost, sent, miscounted, served>>

\* _uploadFile begins with _enforceQuota; a refused upload changes nothing.  When
\* the row cannot be read, _ensureQuota takes it for a new one and 0 for used.
uploadFile(c, k, s) ==
  /\ Begin(c)
  /\ \/ quota.used + s <= QUOTA /\ UNCHANGED <<failures, lost>>
     \/ Fails /\ s <= QUOTA /\ lost' = lost + quota.used
  /\ call' = [call EXCEPT ![c] = [Idle EXCEPT !.op = "upload", !.at = "bucket",
                                   !.dest = k, !.size = s, !.etag = begun']]
  /\ Touch(c, NoFile, NoKey, k)
  /\ UNCHANGED <<files, objects, bucketLive, quota, urls, job, halfway, drifted, sent,
                 miscounted, served>>

uploadBucket(c) ==
  /\ At(c, {"upload"}, "bucket")
  /\ IF Bucket[call[c].dest] \in bucketLive THEN Goto(c, "put") ELSE Finish(c)
  /\ UNCHANGED <<files, objects, bucketLive, quota, urls, job, begun, failures,
                 contested, halfway, ontoItself, drifted, lost, raced, sent, miscounted,
                 served>>

\* The operations on files take them one after the other.  A file is there when
\* the request is sent; it may be gone when it is read.
onFiles(c, op, S, b) ==
  /\ Begin(c)
  /\ S \subseteq Live
  /\ call' = [call EXCEPT ![c] = [Idle EXCEPT !.op = op, !.at = "next",
                                   !.todo = S, !.bucket = b]]
  /\ UNCHANGED <<files, objects, bucketLive, quota, urls, job, failures, contested,
                 halfway, ontoItself, drifted, lost, raced, sent, miscounted, served>>

copyFile(c, f)    == onFiles(c, "copy", {f}, {})
\* _renameFile looks the file up for its place and moves it there.
moveFile(c, f, b) == onFiles(c, "move", {f}, {b})
renameFile(c, f)  == f \in Live /\ moveFile(c, f, Bucket[files[f].key])
deleteFile(c, f)  == onFiles(c, "delete", {f}, {})
setTags(c, f)     == onFiles(c, "tag", {f}, {})
setMetadata(c, f) == onFiles(c, "tag", {f}, {})
bulkDelete(c, S)  == S # {} /\ onFiles(c, "delete", S, {})
bulkMove(c, S, b) == S # {} /\ onFiles(c, "move", S, {b})
\* A folder here is all of a bucket.
Folder(b) == {f \in Live : Bucket[files[f].key] = b}
deleteFolder(c, b) == bulkDelete(c, Folder(b))
moveFolder(c, b)   == bulkMove(c, Folder(b), b)

\* The record is read; a file that is gone fails, and the next one is taken.
readFile(c, f, k) ==
  /\ At(c, {"copy", "move", "delete", "tag"}, "next")
  /\ f \in call[c].todo
  /\ LET r    == files[f]
         dest == IF call[c].op \in {"copy", "move"} THEN k ELSE NoKey
         next == CASE call[c].op \in {"copy", "move"} -> "get"
                   [] call[c].op = "delete" -> "archive"
                   [] call[c].op = "tag"    -> "update"
         rest == [call[c] EXCEPT !.todo = @ \ {f}]
     IN IF f \in Live
        THEN /\ call' = [call EXCEPT ![c] =
                  [rest EXCEPT !.at = next, !.file = f, !.src = r.key, !.dest = dest,
                               !.etag = r.etag, !.size = r.size]]
             /\ Touch(c, f, r.key, dest)
        ELSE /\ call' = [call EXCEPT ![c] =
                           IF rest.todo = {} THEN Idle ELSE rest]
             /\ UNCHANGED <<contested, ontoItself, raced>>
  /\ UNCHANGED <<files, objects, bucketLive, quota, urls, job, begun, failures, halfway,
                 drifted, lost, sent, miscounted, served>>

\* storage.get: the bytes the request will write again.
getObject(c) ==
  /\ call[c].at = "get"
  /\ IF objects[call[c].src] # 0
     THEN call' = [call EXCEPT ![c].at = "put", ![c].etag = objects[call[c].src]]
     ELSE Finish(c)
  /\ UNCHANGED <<files, objects, bucketLive, quota, urls, job, begun, failures,
                 contested, halfway, ontoItself, drifted, lost, raced, sent, miscounted,
                 served>>

\* storage.put; one that fails may have stored the bytes.
putObject(c) ==
  /\ call[c].at = "put"
  /\ LET stored == [objects EXCEPT ![call[c].dest] = call[c].etag] IN
     \/ /\ objects' = stored
        /\ Goto(c, IF call[c].op = "move" THEN "unlink" ELSE "create")
        /\ UNCHANGED <<failures, halfway>>
     \/ /\ Fails /\ Finish(c)
        /\ objects' \in {objects, stored}
        /\ halfway' = halfway \cup {call[c].dest}
  /\ UNCHANGED <<files, bucketLive, quota, urls, job, begun, contested, ontoItself,
                 drifted, lost, raced, sent, miscounted, served>>

\* The next record is the file c has stored.
NewRecord(c, f) ==
  /\ files[f].status = "none" /\ \A g \in Files : g < f => files[g].status # "none"
  /\ files' = [files EXCEPT ![f] =
       [status |-> "available", key |-> call[c].dest, etag |-> call[c].etag,
        size |-> call[c].size, copied |-> call[c].op = "copy"]]

\* Mutant: a copy is not counted.
createRecordUncounted(c) ==
  /\ call[c].at = "create"
  /\ \E f \in Files : NewRecord(c, f)
  /\ IF call[c].op = "copy" THEN Finish(c) ELSE Goto(c, "quotaRead")
  /\ UNCHANGED <<objects, bucketLive, quota, urls, job, begun, failures, contested,
                 halfway, ontoItself, drifted, lost, raced, sent, miscounted, served>>

\* The record of an upload or a copy; without it the object is an orphan, and
\* if it is there although create failed, nobody adds it to the quota.
createRecord(c) ==
  /\ call[c].at = "create"
  /\ \/ /\ \E f \in Files : NewRecord(c, f)
        /\ Goto(c, "quotaRead")
        /\ UNCHANGED <<failures, halfway, drifted, lost>>
     \/ /\ Fails /\ Finish(c)
        /\ halfway' = halfway \cup {call[c].dest}
        /\ \/ UNCHANGED <<files, drifted, lost>>
           \/ /\ \E f \in Files : NewRecord(c, f)
              /\ drifted' = TRUE /\ lost' = lost + call[c].size
  /\ UNCHANGED <<objects, bucketLive, quota, urls, job, begun, contested, ontoItself,
                 raced, sent, miscounted, served>>

\* Mutants: the new bytes are deleted; only a move deletes bytes.
deleteObjectDest(c) ==
  /\ call[c].at = "unlink"
  /\ objects' = [k \in Keys |->
                  IF k = (IF call[c].op = "move" THEN call[c].dest ELSE call[c].src)
                  THEN 0 ELSE objects[k]]
  /\ Goto(c, IF call[c].op = "move" THEN "update" ELSE "quotaRead")
  /\ UNCHANGED <<files, bucketLive, quota, urls, job, begun, failures, contested,
                 halfway, ontoItself, drifted, lost, raced, sent, miscounted, served>>
deleteObjectOfMoves(c) ==
  /\ call[c].at = "unlink"
  /\ objects' = IF call[c].op = "move" THEN [objects EXCEPT ![call[c].src] = 0] ELSE objects
  /\ Goto(c, IF call[c].op = "move" THEN "update" ELSE "quotaRead")
  /\ UNCHANGED <<files, bucketLive, quota, urls, job, begun, failures, contested,
                 halfway, ontoItself, drifted, lost, raced, sent, miscounted, served>>

\* storage.delete of the old bytes.  Nobody looks at its result: when it fails, the
\* request goes on and the bytes stay.
deleteObject(c) ==
  /\ call[c].at = "unlink"
  /\ \/ objects' = [objects EXCEPT ![call[c].src] = 0] /\ UNCHANGED <<failures, halfway>>
     \/ Fails /\ halfway' = halfway \cup {call[c].src} /\ UNCHANGED objects
  /\ Goto(c, IF call[c].op = "move" THEN "update" ELSE "quotaRead")
  /\ UNCHANGED <<files, bucketLive, quota, urls, job, begun, contested, ontoItself,
                 drifted, lost, raced, sent, miscounted, served>>

\* fileRecords.update: a move writes the whole record it read with its new place,
\* _setTags and _setMetadata write it back with the old one.  A failing write may
\* have been made.
updateRecord(c) ==
  /\ call[c].at = "update"
  /\ LET written == [files EXCEPT
               ![call[c].file].key  = IF call[c].op = "move" THEN call[c].dest ELSE call[c].src,
               ![call[c].file].etag = call[c].etag]
     IN \/ files' = written /\ UNCHANGED <<failures, halfway>>
        \/ Fails /\ files' \in {files, written} /\ halfway' = halfway \cup KeysOf(c)
  /\ Finish(c)
  /\ UNCHANGED <<objects, bucketLive, quota, urls, job, begun, contested, ontoItself,
                 drifted, lost, raced, sent, miscounted, served>>

\* _deleteFile archives the record before it deletes the bytes.  Of a file that
\* another request has deleted the bytes are taken off the quota again; an archive
\* that fails ends the request, made or not.
archiveRecord(c) ==
  /\ At(c, {"delete"}, "archive")
  /\ LET gone == call[c].file \notin Live
         made == [files EXCEPT ![call[c].file].status = "archived"]
     IN \/ /\ files' = made
           /\ drifted' = (drifted \/ gone)
           /\ lost' = lost + (IF gone THEN call[c].size ELSE 0)
           /\ Goto(c, "unlink")
           /\ UNCHANGED <<failures, halfway>>
        \/ /\ Fails /\ Finish(c)
           /\ \/ UNCHANGED <<files, halfway, drifted>>
              \/ /\ files' = made /\ halfway' = halfway \cup {call[c].src}
                 /\ drifted' = TRUE
           /\ UNCHANGED lost
  /\ UNCHANGED <<objects, bucketLive, quota, urls, job, begun, contested, ontoItself,
                 raced, sent, miscounted, served>>

-----------------------------------------------------------------------------
\* n, if it is more than nothing.
Above(n) == IF n > 0 THEN n ELSE 0
\* What the row is short of when used is written over what it says.
Undone(used) == Above(quota.used - used)

Counted(c) == IF call[c].op = "upload" THEN Goto(c, "warn") ELSE Finish(c)

\* _ensureQuota of _incrementQuota and _decrementQuota.  When the row cannot be
\* read it makes a second one, of no bytes, and the request counts there: the
\* repositories look a row up in the order they got them, so the second is never
\* read, and where the workspace is a unique key it is not even made.
readQuota(c) ==
  /\ call[c].at = "quotaRead"
  /\ \/ /\ call' = [call EXCEPT ![c].quota = quota, ![c].at = "quotaWrite"]
        /\ UNCHANGED <<failures, drifted, lost>>
     \/ /\ Fails /\ Counted(c) /\ drifted' = TRUE
        /\ lost' = lost + (IF call[c].op = "delete" THEN 0 ELSE call[c].size)
  /\ UNCHANGED <<files, objects, bucketLive, quota, urls, job, begun, contested, halfway,
                 ontoItself, raced, sent, miscounted, served>>

\* Mutant: without Math.max.
writeQuotaNegative(c) ==
  /\ call[c].at = "quotaWrite"
  /\ LET seen == call[c].quota
         s    == call[c].size
     IN /\ quota' = [seen EXCEPT !.used = IF call[c].op = "delete" THEN @ - s ELSE @ + s]
        /\ drifted' = (drifted \/ quota # seen)
        /\ lost' = lost + Undone(seen.used)
  /\ Counted(c)
  /\ UNCHANGED <<files, objects, bucketLive, urls, job, begun, failures, contested,
                 halfway, ontoItself, raced, sent, miscounted, served>>

\* The whole row as it was read, with another usedBytes (Math.max(0, ...)).  Nobody
\* looks whether it was written.
writeQuota(c) ==
  /\ call[c].at = "quotaWrite"
  /\ LET seen == call[c].quota
         s    == call[c].size
         used == IF call[c].op # "delete" THEN seen.used + s
                 ELSE IF seen.used < s THEN 0 ELSE seen.used - s
     IN \/ /\ quota' = [seen EXCEPT !.used = used]
           /\ drifted' = (drifted \/ quota # seen
                          \/ (call[c].op = "delete" /\ seen.used < s))
           /\ lost' = lost + Undone(seen.used)
           /\ UNCHANGED failures
        \/ /\ Fails /\ drifted' = TRUE
           /\ lost' = lost + (IF call[c].op = "delete" THEN 0 ELSE s)
           /\ UNCHANGED quota
  /\ Counted(c)
  /\ UNCHANGED <<files, objects, bucketLive, urls, job, begun, contested, halfway,
                 ontoItself, raced, sent, miscounted, served>>

Percent(q, p) == 100 * q.used >= p * QUOTA

\* Mutant: nobody remembers that the warning was sent.
checkWarningsAgain(c) ==
  /\ call[c].at = "warn"
  /\ IF Percent(quota, 95)
     THEN call' = [call EXCEPT ![c].quota = quota, ![c].at = "warn95"]
     ELSE Finish(c)
  /\ UNCHANGED <<files, objects, bucketLive, quota, urls, job, begun, failures,
                 contested, halfway, ontoItself, drifted, lost, raced, sent, miscounted,
                 served>>

\* _checkQuotaWarnings, after an upload only.  A row that cannot be read is taken
\* for a new one, of which there is nothing to report.
checkWarnings(c) ==
  /\ call[c].at = "warn"
  /\ \/ /\ IF Percent(quota, 95) /\ ~quota.sent95
           THEN call' = [call EXCEPT ![c].quota = quota, ![c].at = "warn95"]
           ELSE IF Percent(quota, 80) /\ ~quota.sent80
                THEN call' = [call EXCEPT ![c].quota = quota, ![c].at = "warn80"]
                ELSE Finish(c)
        /\ UNCHANGED failures
     \/ Fails /\ Finish(c)
  /\ UNCHANGED <<files, objects, bucketLive, quota, urls, job, begun, contested, halfway,
                 ontoItself, drifted, lost, raced, sent, miscounted, served>>

\* The flag is written and the warning sent, whether it was written or not.  Nothing
\* clears a flag.
warn(c, l) ==
  /\ call[c].at = (IF l = 95 THEN "warn95" ELSE "warn80")
  /\ \/ /\ quota' = [call[c].quota EXCEPT !.sent95 = @ \/ l = 95, !.sent80 = @ \/ l = 80]
        /\ drifted' = (drifted \/ quota # call[c].quota)
        /\ lost' = lost + Undone(call[c].quota.used)
        /\ UNCHANGED failures
     \/ Fails /\ drifted' = TRUE /\ UNCHANGED <<quota, lost>>
  /\ sent' = [sent EXCEPT ![l] = @ + 1]
  /\ Finish(c)
  /\ UNCHANGED <<files, objects, bucketLive, urls, job, begun, contested, halfway,
                 ontoItself, raced, miscounted, served>>

-----------------------------------------------------------------------------
\* _deleteBucket: the bucket, then its files, then the archive.
deleteBucket(c, b) ==
  /\ Begin(c)
  /\ b \in bucketLive
  /\ call' = [call EXCEPT ![c] = [Idle EXCEPT !.op = "deleteBucket", !.at = "empty",
                                   !.bucket = {b}]]
  /\ raced' = IF \E d \in Callers, k \in Keys : k \in KeysOf(d) /\ Bucket[k] = b
              THEN raced \cup {b} ELSE raced
  /\ UNCHANGED <<files, objects, bucketLive, quota, urls, job, failures, contested,
                 halfway, ontoItself, drifted, lost, sent, miscounted, served>>

\* Mutant: a bucket is archived with its files.
bucketIsEmptyUnchecked(c) ==
  /\ At(c, {"deleteBucket"}, "empty")
  /\ Goto(c, "archiveBucket")
  /\ UNCHANGED <<files, objects, bucketLive, quota, urls, job, begun, failures,
                 contested, halfway, ontoItself, drifted, lost, raced, sent, miscounted,
                 served>>

bucketIsEmpty(c) ==
  /\ At(c, {"deleteBucket"}, "empty")
  /\ IF \E f \in Live : Bucket[files[f].key] \in call[c].bucket
     THEN Finish(c) ELSE Goto(c, "archiveBucket")
  /\ UNCHANGED <<files, objects, bucketLive, quota, urls, job, begun, failures,
                 contested, halfway, ontoItself, drifted, lost, raced, sent, miscounted,
                 served>>

archiveBucket(c) ==
  /\ At(c, {"deleteBucket"}, "archiveBucket")
  /\ \/ bucketLive' = bucketLive \ call[c].bucket /\ UNCHANGED failures
     \/ Fails /\ UNCHANGED bucketLive
  /\ Finish(c)
  /\ UNCHANGED <<files, objects, quota, urls, job, begun, contested, halfway, ontoItself,
                 drifted, lost, raced, sent, miscounted, served>>

-----------------------------------------------------------------------------
\* _createSignedUrl; a second one of the same file would be a row of its own.
createSignedUrl(c, f) ==
  /\ Begin(c)
  /\ f \in Live /\ urls[f].state = "none"
  /\ urls' = [urls EXCEPT ![f].state = "active"]
  /\ UNCHANGED <<files, objects, bucketLive, quota, call, job, failures, contested,
                 halfway, ontoItself, drifted, lost, raced, sent, miscounted, served>>

\* Mutant: the limit is not looked at.
readUrlUnlimited(c, op, f) ==
  /\ Begin(c)
  /\ urls[f].state = "active"
  /\ call' = [call EXCEPT ![c] = [Idle EXCEPT !.op = op, !.at = "url", !.file = f,
                                   !.size = urls[f].count]]
  /\ UNCHANGED <<files, objects, bucketLive, quota, urls, job, failures, contested,
                 halfway, ontoItself, drifted, lost, raced, sent, miscounted, served>>

\* _resolveSignedUrl and _revokeSignedUrl read the row; a URL that is revoked,
\* or used up (resolve only), is refused.
readUrl(c, op, f) ==
  /\ Begin(c)
  /\ urls[f].state = "active"
  /\ op = "resolve" => urls[f].count < DOWNLOAD_LIMIT
  /\ call' = [call EXCEPT ![c] = [Idle EXCEPT !.op = op, !.at = "url", !.file = f,
                                   !.size = urls[f].count]]
  /\ UNCHANGED <<files, objects, bucketLive, quota, urls, job, failures, contested,
                 halfway, ontoItself, drifted, lost, raced, sent, miscounted, served>>

resolveSignedUrl(c, f) == readUrl(c, "resolve", f)
revokeSignedUrl(c, f)  == readUrl(c, "revoke", f)

\* They write the row back; the fields a row did not have are left alone.  A
\* failing write ends a revocation, but nobody looks whether a download was counted.
writeUrl(c) ==
  /\ At(c, {"resolve", "revoke"}, "url")
  /\ LET f == call[c].file IN
     \/ /\ urls' = [urls EXCEPT
             ![f].state = IF call[c].op = "revoke" THEN "revoked" ELSE @,
             ![f].count = IF call[c].op = "resolve" THEN call[c].size + 1 ELSE call[c].size]
        /\ miscounted' = IF urls[f].count # call[c].size THEN miscounted \cup {f}
                         ELSE miscounted
        /\ UNCHANGED failures
     \/ /\ Fails /\ UNCHANGED urls
        /\ miscounted' = IF call[c].op = "resolve" THEN miscounted \cup {f} ELSE miscounted
  /\ IF call[c].op = "resolve" THEN Goto(c, "serve") ELSE Finish(c)
  /\ UNCHANGED <<files, objects, bucketLive, quota, job, begun, contested, halfway,
                 ontoItself, drifted, lost, raced, sent, served>>

\* The file is looked up after it was counted.
serveUrl(c) ==
  /\ At(c, {"resolve"}, "serve")
  /\ served' = IF call[c].file \in Live THEN [served EXCEPT ![call[c].file] = @ + 1]
               ELSE served
  /\ Finish(c)
  /\ UNCHANGED <<files, objects, bucketLive, quota, urls, job, begun, failures,
                 contested, halfway, ontoItself, drifted, lost, raced, sent, miscounted>>

-----------------------------------------------------------------------------
\* What the requests under way have still to add to the quota row, or take off it.
Adds(c)    == call[c].op \in {"upload", "copy"} /\ call[c].at \in {"quotaRead", "quotaWrite"}
Removes(c) == call[c].op = "delete" /\ call[c].at \in {"unlink", "quotaRead", "quotaWrite"}
Pending == Total([c \in Callers |-> IF Adds(c) THEN call[c].size ELSE 0])
             - Total([c \in Callers |-> IF Removes(c) THEN call[c].size ELSE 0])

\* StorageReconciliationJob: the row, the files, and the row again.  A night
\* among the requests counts against their bound; the nights after do not.
jobStarts ==
  /\ job.at = "idle"
  /\ LET quiet == \A c \in Callers : call[c].at = "idle" IN
     /\ \/ begun < MaxCalls /\ begun' = begun + 1
        \/ begun = MaxCalls /\ quiet /\ UNCHANGED begun
     /\ job' = [job EXCEPT !.at = "files", !.seen = quota,
                           !.alone = IF quiet THEN begun' ELSE 0]
  /\ UNCHANGED <<files, objects, bucketLive, quota, urls, call, failures, contested,
                 halfway, ontoItself, drifted, lost, raced, sent, miscounted, served>>

Abs(n) == IF n < 0 THEN -n ELSE n

\* Mutant: the job finds no drift.
jobSumsNothing ==
  /\ job.at = "files"
  /\ job' = NoRun
  /\ UNCHANGED <<files, objects, bucketLive, quota, urls, call, begun, failures,
                 contested, halfway, ontoItself, drifted, lost, raced, sent, miscounted,
                 served>>

\* The job asks for the files without a page, and gets no more than PAGE of them.
jobSums ==
  /\ job.at = "files"
  /\ \/ \E S \in SUBSET Live :
          /\ S = Live \/ Cardinality(S) = PAGE
          /\ Cardinality(S) <= PAGE
          /\ job' = IF Abs(BytesIn(S) - job.seen.used) <= DRIFT_THRESHOLD
                    THEN NoRun
                    ELSE [job EXCEPT !.at = "write", !.actual = BytesIn(S)]
          /\ UNCHANGED failures
     \/ Fails /\ job' = NoRun
  /\ UNCHANGED <<files, objects, bucketLive, quota, urls, call, begun, contested,
                 halfway, ontoItself, drifted, lost, raced, sent, miscounted, served>>

\* Nobody looks whether the row was written.
jobWrites ==
  /\ job.at = "write"
  /\ \/ /\ quota' = [job.seen EXCEPT !.used = job.actual]
        /\ drifted' = (drifted \/ quota # job.seen \/ LiveBytes # job.actual \/ Pending # 0)
        /\ lost' = lost + Undone(job.actual)
        /\ UNCHANGED failures
     \/ Fails /\ UNCHANGED <<quota, drifted, lost>>
  /\ job' = NoRun
  /\ UNCHANGED <<files, objects, bucketLive, urls, call, begun, contested, halfway,
                 ontoItself, raced, sent, miscounted, served>>

FileStep(c) ==
  \/ uploadBucket(c) \/ getObject(c) \/ putObject(c) \/ createRecord(c)
  \/ deleteObject(c) \/ updateRecord(c) \/ archiveRecord(c)
  \/ \E f \in Files, k \in Keys :
       (call[c].bucket # {} => Bucket[k] \in call[c].bucket) /\ readFile(c, f, k)
QuotaStep(c) ==
  \/ readQuota(c) \/ writeQuota(c) \/ checkWarnings(c)
  \/ \E l \in {80, 95} : warn(c, l)
OtherStep(c) ==
  bucketIsEmpty(c) \/ archiveBucket(c) \/ writeUrl(c) \/ serveUrl(c)
jobStep == jobStarts \/ jobSums \/ jobWrites

Next ==
  \/ \E c \in Callers :
       \/ \E k \in Keys, s \in Sizes : uploadFile(c, k, s)
       \/ \E f \in Files : copyFile(c, f) \/ renameFile(c, f) \/ deleteFile(c, f)
                           \/ setTags(c, f) \/ setMetadata(c, f)
       \/ \E f \in Files, b \in Buckets : moveFile(c, f, b)
       \/ \E S \in SUBSET Files : bulkDelete(c, S)
       \/ \E S \in SUBSET Files, b \in Buckets : bulkMove(c, S, b)
       \/ \E b \in Buckets : deleteFolder(c, b) \/ moveFolder(c, b)
       \/ \E b \in Buckets : deleteBucket(c, b)
       \/ \E f \in Files : resolveSignedUrl(c, f) \/ revokeSignedUrl(c, f)
       \/ \E f \in Files : createSignedUrl(c, f)
       \/ FileStep(c) \/ QuotaStep(c) \/ OtherStep(c)
  \/ jobStep

Spec == Init /\ [][Next]_vars
-----------------------------------------------------------------------------
\* Every variable has its type.
TypeOK ==
  /\ files \in [Files -> FileRow] /\ objects \in [Keys -> Nat]
  /\ bucketLive \subseteq Buckets /\ quota \in QuotaRow
  /\ urls \in [Files -> UrlRow] /\ call \in [Callers -> CallRow] /\ job \in JobRow
  /\ begun \in Nat /\ failures \in Nat
  /\ contested \subseteq Keys /\ halfway \subseteq Keys /\ ontoItself \subseteq Keys
  /\ drifted \in BOOLEAN /\ lost \in Nat /\ raced \subseteq Buckets
  /\ sent \in [{80, 95} -> Nat] /\ miscounted \subseteq Files /\ served \in [Files -> Nat]

Busy(f) == \E c \in Callers : call[c].file = f /\ call[c].at \in {"unlink", "update"}

\* Keys of which nothing is promised: two requests or records had to do with them,
\* a step of a request failed there, or a file was moved onto the key it had.
Excused == contested \cup halfway \cup ontoItself

\* A record's key holds the bytes the record describes, except while a move is
\* between the bytes and the record, and but for the excused keys.  Of those a
\* move or rename onto the file's own key is the one that takes no second party
\* and no failure: the bytes are lost and the request succeeds.
RecordsHaveBytes ==
  \A f \in Live : files[f].key \notin Excused /\ ~Busy(f)
    => objects[files[f].key] = files[f].etag

\* The other direction: no bytes without a record, so that a deleted file is
\* gone from the object store; with the same exceptions, and while a request
\* that has to do with the key is under way.
ObjectsHaveRecords ==
  \A k \in Keys : objects[k] # 0 /\ k \notin Excused
    => (\E f \in Live : files[f].key = k) \/ (\E c \in Callers : k \in KeysOf(c))

\* usedBytes is the size of the files there are, but for the requests that have
\* still to count: it drifts only when a write of the row undoes another one's, two
\* requests delete one file, or a step that reads or writes row or record fails.
QuotaExact == ~drifted => quota.used + Pending = LiveBytes

UploadedBytes ==
  Total([f \in Files |-> IF f \in Live /\ ~files[f].copied THEN files[f].size ELSE 0])

\* Uploads that read the quota together each find room for themselves: they go over
\* it by one file for each other request at that time.  More gets in only as far
\* as writes of the row were undone or failed, and reads of it failed, and by no
\* more than the bytes they lost.
OverrunBounded ==
  UploadedBytes <= QUOTA + (Cardinality(Callers) - 1) * LargestSize + lost

\* A threshold is reported once, and for good, unless the flag was lost.
WarnedOnce == ~drifted => \A l \in {80, 95} : sent[l] <= 1

\* An archived bucket holds no files, unless the archive and a request that put
\* one there overlapped, or a copy or a move went to a bucket already archived.
FilesHaveBucket ==
  \A f \in Live : Bucket[files[f].key] \in bucketLive \cup raced

\* A signed URL gives no more downloads than its limit, unless two requests
\* wrote its count at once or a write of it failed.
DownloadsWithinLimit ==
  \A f \in Files \ miscounted : served[f] <= urls[f].count /\ served[f] <= DOWNLOAD_LIMIT

\* A run of the job that no request overlapped, over files that fit on one page,
\* leaves the row within its threshold, whatever was lost before.  Of the other
\* runs OverrunBounded says what they may do: the job can itself lose bytes.
JobCorrects ==
  [][/\ job.at # "idle" /\ job'.at = "idle"
     /\ job.alone = begun /\ Cardinality(Live) <= PAGE /\ failures' = failures
     => Abs(LiveBytes - quota'.used) <= DRIFT_THRESHOLD]_vars

\* Records, bytes and buckets agree.
StoreAgrees ==
  /\ TypeOK
  /\ RecordsHaveBytes
  /\ ObjectsHaveRecords
  /\ FilesHaveBucket

\* The quota row is right, and its thresholds are reported once.
QuotaAgrees == QuotaExact /\ WarnedOnce

\* Neither the quota nor a signed URL gives more than it may.
LimitsHold == OverrunBounded /\ DownloadsWithinLimit
=============================================================================
