------------------------------ MODULE OcrJobs ------------------------------
(***************************************************************************)
(* The reading of one scanned file (services/ocr_jobs.py) by the loops of  *)
(* several API replicas, its search entries (routers/workspace.py) and its *)
(* deletion.  Files do not touch each other's rows, so one is enough.      *)
(*                                                                         *)
(* Every commit of a worker goes through the row lock of _hold, so each is *)
(* one action; what lies between two commits - reading a page, writing the *)
(* search index - is not protected and may interleave with anything.       *)
(*                                                                         *)
(* A worker's pc: "idle", "claimed" (claim committed), "reading" (plan     *)
(* committed), "broken" and "refused" (an exception is being handled),     *)
(* "indexing", "recording" and "checking" (the steps of _reindex).         *)
(***************************************************************************)
EXTENDS Integers, FiniteSets

CONSTANTS
  Workers,       \* the reading loops, one per replica
  N,             \* the file has N pages to read
  Forms,         \* what it may be: a "pdf", a "mixed" one, which also has pages with
                 \* a text layer that the upload indexes, or a "picture" of N frames
  Limits,        \* the page limits an administrator may set
  MaxAttempts,   \* MAX_ATTEMPTS
  MaxCrashes,    \* bound on worker and deletion crashes
  MaxSlow,       \* bound on leases that pass while the holder lives
  MaxTunes       \* bound on changes of the page limit

ASSUME OcrAssumption ==
  /\ N \in Nat \ {0} /\ MaxAttempts \in Nat \ {0}
  /\ Forms \subseteq {"pdf", "mixed", "picture"}
  /\ Limits \subseteq Nat \ {0} /\ Limits # {}
  /\ MaxCrashes \in Nat /\ MaxSlow \in Nat /\ MaxTunes \in Nat

Pages == 1..N
Nothing == {0}   \* no entry in the index; an entry is the set of pages it has

VARIABLES
  state,               \* ocr_state, or "gone" for a deleted file
  age,                 \* ocr_claimed_at: "new" (null), "fresh", or "old": past
                       \* RETRY_AFTER when queued, past LEASE when running
  owner, attempts,     \* ocr_claim, 0 for null; ocr_attempts
  pages, done, total,  \* file_pages; ocr_done; ocr_total
  text,                \* the read pages that files.text has
  blob,                \* the bytes are on disk
  billed,              \* units on the ledger for each page
  index,               \* the search entry
  lapsed,              \* history: the last change of the pages' entry was reported as
                       \* failed
  locked,              \* a deletion holds the row lock
  wpc, wtok,           \* of a worker: where it is; its claim token
  wplan, wread, wtext, \* of a worker: pages planned, done; text to index
  upload,              \* the uploading request's own index write
  form,                \* what the file is, never changed
  limit,               \* the page limit in the settings
  crashes, slow, tunes

claimVars == <<state, age, owner, attempts>>
fileVars  == <<pages, done, total, text, blob, billed>>
indexVars == <<index, lapsed>>
workVars  == <<wpc, wtok, wplan, wread, wtext>>
envVars   == <<form, limit, crashes, slow, tunes>>
vars == <<claimVars, fileVars, indexVars, locked, workVars, upload, envVars>>

Picture == form = "picture"
Layered == form = "mixed"

\* ocr.plan: the first pages up to the limit; what lies beyond is counted, of
\* an image only one frame of it
Planned == {p \in Pages : p <= limit}

\* queue_if_scanned, committed with the upload
Init ==
  /\ state = "queued" /\ age = "new" /\ owner = 0 /\ attempts = 0
  /\ form \in Forms /\ limit \in Limits
  /\ pages = {} /\ done = 0 /\ total = Cardinality(Planned) /\ text = {} /\ blob = TRUE
  /\ billed = [p \in Pages |-> 0]
  /\ index = Nothing /\ lapsed = FALSE /\ locked = FALSE
  /\ wpc = [w \in Workers |-> "idle"] /\ wtok = [w \in Workers |-> 0]
  /\ wplan = [w \in Workers |-> {}] /\ wread = [w \in Workers |-> {}]
  /\ wtext = [w \in Workers |-> {}]
  /\ upload = IF Layered THEN "indexing" ELSE "over"
  /\ crashes = 0 /\ slow = 0 /\ tunes = 0

-----------------------------------------------------------------------------
(* The claim.  A token is new to every claim, as the number of claims is.  *)

\* Mutated: a job whose reader died is never taken over.
Claimable_QueuedOnly == state = "queued" /\ age # "fresh"

\* _claimable
Claimable ==
  \/ state = "queued" /\ age # "fresh"
  \/ state = "running" /\ age = "old"

\* claim: SKIP LOCKED passes over a file being deleted
Claim(w) ==
  /\ wpc[w] = "idle"
  /\ Claimable /\ ~locked
  /\ state' = "running" /\ age' = "fresh"
  /\ attempts' = attempts + 1
  /\ owner' = attempts'
  /\ wtok' = [wtok EXCEPT ![w] = attempts']
  /\ wpc' = [wpc EXCEPT ![w] = "claimed"]
  /\ UNCHANGED <<fileVars, indexVars, locked, wplan, wread, wtext, upload, envVars>>

\* Mutated: the gate looks at the state alone.
Holds_AnyToken(w) == state = "running" /\ ~locked

\* _hold: the row, locked, still carries this worker's claim
Holds(w) == state = "running" /\ owner = wtok[w] /\ ~locked

\* the worker's locals go with the job
Drop(w) ==
  /\ wpc' = [wpc EXCEPT ![w] = "idle"]
  /\ wtok' = [wtok EXCEPT ![w] = 0]
  /\ wplan' = [wplan EXCEPT ![w] = {}]
  /\ wread' = [wread EXCEPT ![w] = {}]
  /\ wtext' = [wtext EXCEPT ![w] = {}]

\* LostClaim: deleted or taken over; stop without writing
LostClaim(w) ==
  /\ wpc[w] \in {"claimed", "reading", "broken", "refused"}
  /\ ~locked /\ ~(state = "running" /\ owner = wtok[w])
  /\ Drop(w)
  /\ UNCHANGED <<claimVars, fileVars, indexVars, locked, upload, envVars>>

-----------------------------------------------------------------------------
(* The reading (process) and its failures (run_one).                       *)

\* Mutated: the pages beyond the limit are not counted.
PlanTotal_Kept == Cardinality(Planned)

PlanTotal == IF Picture /\ limit + 1 < N THEN limit + 1 ELSE N

\* Mutated: what the last reader stored is forgotten.
PlanPages_Restart(w) ==
  /\ wpc[w] = "claimed" /\ Holds(w) /\ blob
  /\ total' = PlanTotal /\ age' = "fresh"
  /\ wplan' = [wplan EXCEPT ![w] = Planned]
  /\ wread' = [wread EXCEPT ![w] = {}]
  /\ wpc' = [wpc EXCEPT ![w] = "reading"]
  /\ UNCHANGED <<state, owner, attempts, pages, done, text, blob, billed, indexVars,
                 locked, wtok, wtext, upload, envVars>>

PlanPages(w) ==
  /\ wpc[w] = "claimed" /\ Holds(w) /\ blob
  /\ total' = PlanTotal /\ age' = "fresh"
  /\ wplan' = [wplan EXCEPT ![w] = Planned]
  /\ wread' = [wread EXCEPT ![w] = pages \cap Planned]
  /\ wpc' = [wpc EXCEPT ![w] = "reading"]
  /\ UNCHANGED <<state, owner, attempts, pages, done, text, blob, billed, indexVars,
                 locked, wtok, wtext, upload, envVars>>

\* A page is read; its text, the progress and its ledger units commit together.
StorePage(w) ==
  /\ wpc[w] = "reading" /\ Holds(w)
  /\ \E p \in wplan[w] \ wread[w] :
       /\ \A q \in wplan[w] \ wread[w] : p <= q
       /\ pages' = pages \cup {p}
       /\ billed' = [billed EXCEPT ![p] = @ + 1]
       /\ wread' = [wread EXCEPT ![w] = @ \cup {p}]
       /\ done' = Cardinality(wread[w] \cup {p})
  /\ age' = "fresh"
  /\ UNCHANGED <<state, owner, attempts, total, text, blob, indexVars, locked,
                 wpc, wtok, wplan, wtext, upload, envVars>>

\* _finish: a photo with a stray word stays a picture
Finish(as) ==
  /\ state' = as /\ owner' = 0
  /\ text' \in (IF Picture THEN {pages, {}} ELSE {pages})
  /\ done' = Cardinality(pages)

\* _finish, then _reindex if there is text
FinishAndIndex(w, as) ==
  /\ Finish(as)
  /\ IF text' = {} /\ ~Layered
       THEN Drop(w)
       ELSE /\ wpc' = [wpc EXCEPT ![w] = "indexing"]
            /\ wtext' = [wtext EXCEPT ![w] = text']
            /\ UNCHANGED <<wtok, wplan, wread>>
  /\ UNCHANGED <<age, attempts, pages, total, blob, billed, indexVars, locked,
                 upload, envVars>>

FinishReading(w) ==
  /\ wpc[w] = "reading" /\ Holds(w)
  /\ wplan[w] \subseteq wread[w]
  /\ FinishAndIndex(w, "done")

\* Reading is turned off, the bytes are gone, or there is nothing to read in them.
CloseUnread(w) ==
  /\ wpc[w] = "claimed" /\ Holds(w)
  /\ Finish("failed") \/ Finish("done")
  /\ Drop(w)
  /\ UNCHANGED <<age, attempts, pages, total, blob, billed, indexVars, locked, upload, envVars>>

\* A reader fails, for now or for good.
ReadFails(w) ==
  /\ wpc[w] \in {"claimed", "reading"}
  /\ \E how \in {"broken", "refused"} : wpc' = [wpc EXCEPT ![w] = how]
  /\ UNCHANGED <<claimVars, fileVars, indexVars, locked, wtok, wplan, wread, wtext,
                 upload, envVars>>

LastAttempt(w) == wpc[w] = "refused" \/ (wpc[w] = "broken" /\ wtok[w] >= MaxAttempts)

GiveUp(w) == LastAttempt(w) /\ Holds(w) /\ FinishAndIndex(w, "failed")

Requeue(w) ==
  /\ wpc[w] = "broken" /\ ~LastAttempt(w) /\ Holds(w)
  /\ state' = "queued" /\ owner' = 0 /\ age' = "fresh"
  /\ Drop(w)
  /\ UNCHANGED <<attempts, fileVars, indexVars, locked, upload, envVars>>

-----------------------------------------------------------------------------
(* The search entry.  Requests to the index may fail, a write also after   *)
(* it was carried out; the row is not locked meanwhile.                    *)

PutPages(w) ==
  /\ wpc[w] = "indexing"
  /\ \/ index' = wtext[w] /\ lapsed' = FALSE /\ wpc' = [wpc EXCEPT ![w] = "recording"]
     \/ index' = wtext[w] /\ lapsed' = TRUE /\ wpc' = [wpc EXCEPT ![w] = "checking"]
     \/ UNCHANGED <<index, lapsed>> /\ wpc' = [wpc EXCEPT ![w] = "checking"]
  /\ UNCHANGED <<claimVars, fileVars, locked, wtok, wplan, wread, wtext,
                 upload, envVars>>

\* indexed_at is committed, which waits for the row lock; the update of a row that is
\* gone raises, which _reindex swallows.  The deletion forgets the entry either way.
RecordIndexed(w) ==
  /\ wpc[w] = "recording" /\ ~locked
  /\ wpc' = [wpc EXCEPT ![w] = "checking"]
  /\ UNCHANGED <<claimVars, fileVars, indexVars, locked, wtok, wplan, wread, wtext,
                 upload, envVars>>

\* forget_document: the entry is gone, or the service did not answer, which the
\* callers log at most
ForgetEntry ==
  \/ index' = Nothing /\ lapsed' = FALSE
  \/ index' = index /\ lapsed' = (index # Nothing)

\* Mutated: the worker does not look whether the file is still there.
CheckStillThere_Not(w) ==
  /\ wpc[w] = "checking"
  /\ Drop(w)
  /\ UNCHANGED <<claimVars, fileVars, indexVars, locked, upload, envVars>>

\* _still_there, and forget_document if it is not; a look that raises ends the
\* job like a delete that failed
CheckStillThere(w) ==
  /\ wpc[w] = "checking"
  /\ IF state = "gone" THEN ForgetEntry ELSE UNCHANGED <<index, lapsed>>
  /\ Drop(w)
  /\ UNCHANGED <<claimVars, fileVars, locked, upload, envVars>>

\* The uploading request indexes the text layer it stored.
UploadPut ==
  /\ upload = "indexing"
  /\ \/ index' = {} /\ lapsed' = FALSE /\ upload' \in {"recording", "over"}
     \/ UNCHANGED <<index, lapsed>> /\ upload' = "over"
  /\ UNCHANGED <<claimVars, fileVars, locked, workVars, envVars>>

UploadRecord ==
  /\ upload = "recording" /\ ~locked
  /\ upload' = "over"
  /\ UNCHANGED <<claimVars, fileVars, indexVars, locked, workVars, envVars>>

-----------------------------------------------------------------------------
(* The deletion (delete_file): under the row lock, the bytes go at once and *)
(* the entry if the index answers; the row goes with the commit, whether   *)
(* or not it did.                                                          *)

DeleteForget ==
  /\ state # "gone" /\ ~locked
  /\ locked' = TRUE /\ blob' = FALSE
  /\ ForgetEntry
  /\ UNCHANGED <<claimVars, pages, done, total, text, billed, workVars, upload, envVars>>

DeleteCommit ==
  /\ locked
  /\ locked' = FALSE
  /\ state' = "gone" /\ age' = "new" /\ owner' = 0
  /\ pages' = {} /\ done' = 0 /\ text' = {}
  /\ UNCHANGED <<attempts, total, blob, billed, indexVars, workVars, upload, envVars>>

DeleteCrashes ==
  /\ locked /\ crashes < MaxCrashes
  /\ locked' = FALSE /\ crashes' = crashes + 1
  /\ UNCHANGED <<claimVars, fileVars, indexVars, workVars, upload, form, limit, slow, tunes>>

-----------------------------------------------------------------------------
(* Time, the administrator and crashes.                                    *)

Working == {"claimed", "reading", "broken", "refused"}
HolderLives == \E w \in Workers : wtok[w] = owner /\ wpc[w] \in Working

\* RETRY_AFTER passes for a queued job, LEASE for a running one, which takes a
\* holder that is dead or slower with a page than that.
TimePasses ==
  /\ state \in {"queued", "running"} /\ age = "fresh"
  /\ age' = "old"
  /\ IF state = "running" /\ HolderLives
       THEN slow < MaxSlow /\ slow' = slow + 1
       ELSE UNCHANGED slow
  /\ UNCHANGED <<state, owner, attempts, fileVars, indexVars, locked, workVars, upload,
                 form, limit, crashes, tunes>>

SetLimit ==
  /\ tunes < MaxTunes /\ tunes' = tunes + 1
  /\ limit' \in Limits \ {limit}
  /\ UNCHANGED <<claimVars, fileVars, indexVars, locked, workVars, upload, form, crashes, slow>>

\* The process dies or is restarted, or the loop falls over an exception it
\* does not handle: the claim stays in the row.
Crash(w) ==
  /\ wpc[w] # "idle" /\ crashes < MaxCrashes
  /\ crashes' = crashes + 1
  /\ Drop(w)
  /\ UNCHANGED <<claimVars, fileVars, indexVars, locked, upload, form, limit, slow, tunes>>

-----------------------------------------------------------------------------

WorkerStep(w) ==
  \/ Claim(w) \/ LostClaim(w) \/ PlanPages(w) \/ StorePage(w) \/ FinishReading(w)
  \/ CloseUnread(w) \/ ReadFails(w) \/ GiveUp(w) \/ Requeue(w)
  \/ PutPages(w) \/ RecordIndexed(w) \/ CheckStillThere(w)

Next ==
  \/ \E w \in Workers : WorkerStep(w) \/ Crash(w)
  \/ UploadPut \/ UploadRecord
  \/ DeleteForget \/ DeleteCommit \/ DeleteCrashes
  \/ TimePasses \/ SetLimit

Spec == Init /\ [][Next]_vars

-----------------------------------------------------------------------------
(* Properties.                                                             *)

WorkerPcs == {"idle", "indexing", "recording", "checking"} \cup Working

\* Every variable has its type.
TypeOK ==
  /\ state \in {"queued", "running", "done", "failed", "gone"}
  /\ age \in {"new", "fresh", "old"}
  /\ owner \in Nat /\ attempts \in Nat
  /\ pages \in SUBSET Pages /\ done \in Nat /\ total \in Nat
  /\ text \in SUBSET Pages /\ blob \in BOOLEAN
  /\ billed \in [Pages -> Nat]
  /\ index \in SUBSET (0..N) /\ lapsed \in BOOLEAN
  /\ locked \in BOOLEAN
  /\ wpc \in [Workers -> WorkerPcs]
  /\ wtok \in [Workers -> Nat]
  /\ wplan \in [Workers -> SUBSET Pages]
  /\ wread \in [Workers -> SUBSET Pages]
  /\ wtext \in [Workers -> SUBSET Pages]
  /\ upload \in {"indexing", "recording", "over"}
  /\ form \in Forms /\ limit \in Nat
  /\ crashes \in Nat /\ slow \in Nat /\ tunes \in Nat

\* No two workers carry the same claim, and none carries one that was not given.
ClaimsDiffer ==
  /\ owner <= attempts
  /\ \A w \in Workers : wtok[w] <= attempts /\ (wpc[w] \in Working => wtok[w] # 0)
  /\ \A v, w \in Workers : wtok[v] = wtok[w] /\ wtok[w] # 0 => v = w

\* The worker that holds the claim knows what is stored of its plan, so it never
\* inserts a page that is there (uq_file_pages) nor skips one that is not.
HolderKnowsPages ==
  \A w \in Workers : wpc[w] = "reading" /\ state = "running" /\ owner = wtok[w]
    => wread[w] = pages \cap wplan[w]

\* A page is on the ledger as often as it is stored, at most once, however many
\* workers read it.
PagesAreBilledOnce ==
  \A p \in Pages : billed[p] <= 1 /\ (p \in pages => billed[p] = 1)

\* A page that is not stored is not billed, while the file is there.
UnreadIsUnbilled ==
  state # "gone" => \A p \in Pages \ pages : billed[p] = 0

\* A deletion holds the lock of a row that is there.
LockedIsThere == locked => state # "gone"

\* The inductive invariant.
OcrInv ==
  TypeOK /\ LockedIsThere /\ ClaimsDiffer /\ HolderKnowsPages /\ PagesAreBilledOnce /\ UnreadIsUnbilled

\* The file, its claims and leases forgotten, is read as PageReading says.
phase == IF state \in {"queued", "running"} THEN "open" ELSE state
Reading == INSTANCE PageReading WITH
             Pages <- Pages, phase <- phase, pages <- pages, billed <- billed
ReadingSpec == Reading!Spec

\* The progress a reader is shown never goes back while the file is there.
ProgressNeverGoesBack == [][state' # "gone" => done' >= done]_vars

\* _finish: "ocr_done < ocr_total shows skipped pages" - unless the limit changed
\* between two readings of a picture, of which one frame too many is counted.
SkippedPagesShow ==
  state = "done" /\ pages # Pages /\ (Picture => tunes = 0) => done < total

\* delete_file: a "concurrent page reader is seen here or sees the row gone": once
\* the file is gone and nobody is at its entry any more, none of the pages that were
\* read is in the index - unless a worker or a deletion died on the way, or the
\* index reported its last change of the entry as failed, which nobody tries again.
\* The entry of the text layer may stay: the upload does not look whether the file
\* is there.
NoEntryOutlivesItsFile ==
  crashes = 0 /\ state = "gone" /\ upload = "over"
    /\ (\A w \in Workers : wpc[w] \notin {"indexing", "recording", "checking"})
  => index \in {Nothing, {}} \/ lapsed

\* A worker goes on, its requests time out, and time passes; a deletion under
\* way ends.  Nobody owes a deletion, a settings change or a crash.
FairSpec ==
  /\ Spec
  /\ \A w \in Workers : WF_vars(WorkerStep(w))
  /\ WF_vars(TimePasses) /\ WF_vars(DeleteCommit)

\* Every file is read, given up or deleted in the end.
EveryFileIsClosed == <>(state \in {"done", "failed", "gone"})

=============================================================================
