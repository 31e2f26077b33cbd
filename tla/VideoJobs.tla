----------------------------- MODULE VideoJobs -----------------------------
(***************************************************************************)
(* One video job (routers/jobs.py): created by a request, watched by a     *)
(* poll loop on every replica that created or listed it, finished by one   *)
(* of them, cancelled by its owner.  The upstream service is external.     *)
(*                                                                         *)
(* _finish, the delivery and cancel_job read the row and write it later    *)
(* without a lock, so each is two actions; only the claim of a finished    *)
(* video is one conditional update.  A write changes the columns that      *)
(* differ from what was read (the unit of work of the ORM).                *)
(*                                                                         *)
(* A loop's pc: "off", "sleeping", "polling" (job read, poll under way),   *)
(* "completed" (to claim), "fetching", "fetched", "delivering" (job        *)
(* re-read as running, commit ahead), "finishing" and "writing" (_finish   *)
(* before and after its read).                                             *)
(***************************************************************************)
EXTENDS Naturals, FiniteSets

CONSTANTS
  Replicas,     \* API processes; each has at most one loop for the job (_watching)
  Cancels,      \* presses of the cancel button
  MaxPolls,     \* how many polls fit in _MAX_WAIT_SECONDS
  MaxFaults     \* bound on process crashes and loops ended by an exception

ASSUME VideoAssumption == MaxPolls \in Nat \ {0} /\ MaxFaults \in Nat

VARIABLES
  status, stage,      \* the row: status; stage "making", "saving" or "closed"
  charges,            \* deliveries committed: file, artifact, answer, ledger row
  upstream,           \* the job at the provider
  request,            \* the replica whose request has submitted it, as a set
  lpc, polls,         \* of a loop: where it is; polls made
  goal, sawSaving,    \* of its _finish: what to write; the stage it read
  cpc,                \* of a cancel press
  racing,             \* history: loops and presses that had read the job unsettled,
                      \* and were to write it, when it was settled
  abandoned,          \* history: who had the claim is gone, and left the stage at it
  faults

loops == <<lpc, polls, goal, sawSaving>>
row   == <<status, stage, charges>>
hist  == <<racing, abandoned, faults>>
vars  == <<row, upstream, request, loops, cpc, hist>>

Settled == {"succeeded", "failed", "canceled"}

\* What _finish closes a job for; a download that failed leaves the stage alone.
Failures == {"failed", "undelivered"}

Init ==
  /\ status = "none" /\ stage = "making" /\ charges = 0
  /\ upstream = "none" /\ request = {}
  /\ lpc = [r \in Replicas |-> "off"] /\ polls = [r \in Replicas |-> 0]
  /\ goal = [r \in Replicas |-> "none"] /\ sawSaving = [r \in Replicas |-> FALSE]
  /\ cpc = [c \in Cancels |-> "idle"]
  /\ racing = {} /\ abandoned = FALSE /\ faults = 0

Goto(r, pc) == lpc' = [lpc EXCEPT ![r] = pc]

\* the task ends: _done
Leave(r) ==
  /\ Goto(r, "off")
  /\ polls' = [polls EXCEPT ![r] = 0]
  /\ goal' = [goal EXCEPT ![r] = "none"]
  /\ sawSaving' = [sawSaving EXCEPT ![r] = FALSE]

\* _finish(...) is called to write this
Finishing(r, what) ==
  /\ Goto(r, "finishing")
  /\ goal' = [goal EXCEPT ![r] = what]

-----------------------------------------------------------------------------
(* Creating and listing.                                                   *)

\* create_job, up to the provider's answer
Submit(r) ==
  /\ upstream = "none"
  /\ upstream' = "making" /\ request' = {r}
  /\ UNCHANGED <<row, loops, cpc, hist>>

\* create_job, from the commit of the row on
CreateJob(r) ==
  /\ r \in request
  /\ request' = {}
  /\ status' = "running" /\ stage' = "making"
  /\ Goto(r, "sleeping")
  /\ UNCHANGED <<charges, upstream, polls, goal, sawSaving, cpc, hist>>

\* list_jobs: a running job nobody watches in this process is watched again
ListJobs(r) ==
  /\ status = "running" /\ lpc[r] = "off"
  /\ Goto(r, "sleeping")
  /\ UNCHANGED <<row, upstream, request, polls, goal, sawSaving, cpc, hist>>

-----------------------------------------------------------------------------
(* The poll loop (_poll_until_done).                                       *)

\* One turn of the loop: sleep, then read the job; success is not a reason to stop.
WakeUp(r) ==
  /\ lpc[r] = "sleeping" /\ polls[r] < MaxPolls
  /\ IF status \in {"canceled", "failed"}
       THEN Leave(r)
       ELSE /\ polls' = [polls EXCEPT ![r] = @ + 1]
            /\ Goto(r, "polling")
            /\ UNCHANGED <<goal, sawSaving>>
  /\ UNCHANGED <<row, upstream, request, cpc, hist>>

\* videogen.poll; an answer that is no answer counts as still running, one that
\* denies access as failed
Poll(r) ==
  /\ lpc[r] = "polling"
  /\ \/ upstream = "completed" /\ Goto(r, "completed") /\ UNCHANGED goal
     \/ Finishing(r, "failed")
     \/ Finishing(r, "progress")
  /\ UNCHANGED <<row, upstream, request, polls, sawSaving, cpc, hist>>

\* The first flip of the stage owns the video.
ClaimVideo(r) ==
  /\ lpc[r] = "completed"
  /\ IF status = "running" /\ stage # "saving"
       THEN /\ stage' = "saving" /\ abandoned' = FALSE
            /\ Goto(r, "fetching") /\ UNCHANGED <<polls, goal, sawSaving>>
       ELSE UNCHANGED <<stage, abandoned>> /\ Leave(r)
  /\ UNCHANGED <<status, charges, upstream, request, cpc, racing, faults>>

\* Mutated: a failed download is not written down.
Fetch_Silent(r) ==
  /\ lpc[r] = "fetching"
  /\ \/ Goto(r, "fetched") /\ UNCHANGED <<polls, goal, sawSaving>>
     \/ Leave(r)
  /\ UNCHANGED <<row, upstream, request, cpc, hist>>

Fetch(r) ==
  /\ lpc[r] = "fetching"
  /\ (Goto(r, "fetched") /\ UNCHANGED goal) \/ Finishing(r, "undelivered")
  /\ UNCHANGED <<row, upstream, request, polls, sawSaving, cpc, hist>>

\* Mutated: the download is delivered whatever became of the job.
LoadJob_Unchecked(r) ==
  /\ lpc[r] = "fetched"
  /\ Goto(r, "delivering")
  /\ UNCHANGED <<row, upstream, request, polls, goal, sawSaving, cpc, hist>>

\* cancelled mid-download: nothing stored or charged
LoadJob(r) ==
  /\ lpc[r] = "fetched"
  /\ IF status = "running" THEN Goto(r, "delivering") /\ UNCHANGED <<polls, goal, sawSaving>>
                           ELSE Leave(r)
  /\ UNCHANGED <<row, upstream, request, cpc, hist>>

\* who has read the job and is about to write it
Writers == {r \in Replicas : lpc[r] \in {"delivering", "writing"}}
             \cup {c \in Cancels : cpc[c] = "read"}

NoteRace == racing' = IF status \in Settled THEN racing ELSE Writers

\* One commit: file, artifact, answer, charge and the job's success.
Deliver(r) ==
  /\ lpc[r] = "delivering"
  /\ status' = "succeeded" /\ stage' = "closed" /\ charges' = charges + 1
  /\ Leave(r)
  /\ NoteRace
  /\ UNCHANGED <<upstream, request, cpc, abandoned, faults>>

\* _MAX_WAIT_SECONDS are over
TimeOut(r) ==
  /\ lpc[r] = "sleeping" /\ polls[r] = MaxPolls
  /\ Finishing(r, "failed")
  /\ UNCHANGED <<row, upstream, request, polls, sawSaving, cpc, hist>>

\* after _finish: a progress report goes on polling, anything else was the end
AfterFinish(r) ==
  IF goal[r] = "progress"
    THEN /\ Goto(r, "sleeping")
         /\ goal' = [goal EXCEPT ![r] = "none"]
         /\ sawSaving' = [sawSaving EXCEPT ![r] = FALSE]
         /\ UNCHANGED polls
    ELSE Leave(r)

\* Mutated: a settled job is written again.
FinishRead_Unchecked(r) ==
  /\ lpc[r] = "finishing"
  /\ Goto(r, "writing")
  /\ sawSaving' = [sawSaving EXCEPT ![r] = stage = "saving"]
  /\ UNCHANGED <<row, upstream, request, polls, goal, cpc, hist>>

\* _finish reads the row: settled = final
FinishRead(r) ==
  /\ lpc[r] = "finishing"
  /\ IF status \in Settled
       THEN AfterFinish(r)
       ELSE /\ Goto(r, "writing")
            /\ sawSaving' = [sawSaving EXCEPT ![r] = stage = "saving"]
            /\ UNCHANGED <<polls, goal>>
  /\ UNCHANGED <<row, upstream, request, cpc, hist>>

\* _finish writes what differs from the row it read
FinishWrite(r) ==
  /\ lpc[r] = "writing"
  /\ status' = IF goal[r] \in Failures THEN "failed" ELSE status
  /\ stage' = CASE goal[r] = "failed" -> "closed"
                [] goal[r] = "progress" /\ sawSaving[r] -> "making"
                [] OTHER -> stage
  /\ AfterFinish(r)
  /\ IF goal[r] \in Failures THEN NoteRace ELSE UNCHANGED racing
  /\ abandoned' = (abandoned /\ stage' = "saving")
  /\ UNCHANGED <<charges, upstream, request, cpc, faults>>

-----------------------------------------------------------------------------
(* The cancel button, the provider and faults.                             *)

CancelRead(c) ==
  /\ cpc[c] = "idle" /\ status # "none"
  /\ cpc' = [cpc EXCEPT ![c] = IF status \in Settled THEN "done" ELSE "read"]
  /\ UNCHANGED <<row, upstream, request, loops, hist>>

CancelWrite(c) ==
  /\ cpc[c] = "read"
  /\ cpc' = [cpc EXCEPT ![c] = "done"]
  /\ status' = "canceled" /\ stage' = "closed"
  /\ NoteRace
  /\ UNCHANGED <<charges, upstream, request, loops, abandoned, faults>>

UpstreamEnds ==
  /\ upstream = "making"
  /\ upstream' \in {"completed", "failed"}
  /\ UNCHANGED <<row, request, loops, cpc, hist>>

\* saves the video, or is about to write down why not
Owning == {"fetching", "fetched", "delivering"}
Owns(r) == lpc[r] \in Owning \/ goal[r] \in Failures

\* the loop is gone; the row stays as it is
Fall(r) ==
  /\ faults < MaxFaults
  /\ faults' = faults + 1
  /\ abandoned' = (abandoned \/ (Owns(r) /\ stage = "saving"))
  /\ Leave(r)
  /\ UNCHANGED <<row, upstream, cpc, racing>>

\* A process dies with its loop and its request.
Crash(r) == Fall(r) /\ request' = request \ {r}

\* The loop ends with an exception nobody handles (a write to the disk, a query, a
\* commit); _done forgets it, and the process lives on.
Raise(r) == lpc[r] # "off" /\ Fall(r) /\ UNCHANGED request

-----------------------------------------------------------------------------

LoopStep(r) ==
  \/ WakeUp(r) \/ Poll(r) \/ ClaimVideo(r) \/ Fetch(r) \/ LoadJob(r) \/ Deliver(r)
  \/ TimeOut(r) \/ FinishRead(r) \/ FinishWrite(r)

Next ==
  \/ \E r \in Replicas : Submit(r) \/ CreateJob(r) \/ ListJobs(r) \/ LoopStep(r)
                         \/ Crash(r) \/ Raise(r)
  \/ \E c \in Cancels : CancelRead(c) \/ CancelWrite(c)
  \/ UpstreamEnds

Spec == Init /\ [][Next]_vars

\* The loops run on (their waits are bounded); the conversation is opened again,
\* so its jobs are listed.  Nobody owes a cancel or a fault.
FairSpec ==
  /\ Spec
  /\ \A r \in Replicas : WF_vars(LoopStep(r)) /\ WF_vars(CreateJob(r)) /\ WF_vars(ListJobs(r))

-----------------------------------------------------------------------------
(* Properties.                                                             *)

\* Every variable has its type.
TypeOK ==
  /\ status \in {"none", "running"} \cup Settled
  /\ stage \in {"making", "saving", "closed"}
  /\ charges \in Nat
  /\ upstream \in {"none", "making", "completed", "failed"}
  /\ request \in SUBSET Replicas
  /\ lpc \in [Replicas -> {"off", "sleeping", "polling", "completed", "finishing", "writing"}
                            \cup Owning]
  /\ polls \in [Replicas -> 0..MaxPolls]
  /\ goal \in [Replicas -> {"none", "progress"} \cup Failures]
  /\ sawSaving \in [Replicas -> BOOLEAN]
  /\ cpc \in [Cancels -> {"idle", "read", "done"}]
  /\ racing \in SUBSET (Replicas \cup Cancels)
  /\ abandoned \in BOOLEAN /\ faults \in 0..MaxFaults

\* A running job marked as being saved has a loop that saves it or is about to write
\* down why not, unless that loop died or raised since the claim.
SavingHasOwner ==
  ~abandoned /\ status = "running" /\ stage = "saving" => \E r \in Replicas : Owns(r)

\* A cancel that landed before the finisher looked at the job again wins:
\* "cancelled mid-download: nothing stored or charged".
CancelBeatsDownload ==
  [][status = "canceled" /\ charges' > charges
       => \E r \in racing \cap Replicas : lpc[r] = "delivering"]_vars

\* _finish: "settled = final; post-restart duplicate loops possible": a settled job
\* becomes something else only by a loop or a press that had read it before it was
\* settled, and was to write it already.
RacerWrites ==
  \/ \E r \in racing \cap Replicas : lpc[r] \in {"delivering", "writing"} /\ lpc'[r] # lpc[r]
  \/ \E c \in racing \cap Cancels : cpc[c] = "read" /\ cpc'[c] = "done"
SettledUnlessRaced == [][(status \in Settled) /\ status' # status => RacerWrites]_vars

\* What keeps the two, and what keeps SavingHasOwner.
RacersAreKnown == status \in Settled => Writers \subseteq racing
FailuresAreWritten ==
  \A r \in Replicas : goal[r] \in Failures => lpc[r] \in {"finishing", "writing"}

\* Before the row is committed there is nothing to watch.
RowComesFirst ==
  /\ upstream = "none" => request = {}
  /\ upstream = "none" \/ request # {} =>
       /\ status = "none"
       /\ \A r \in Replicas : lpc[r] = "off"
       /\ \A c \in Cancels : cpc[c] = "idle"

\* The inductive invariant.
VideoInv ==
  TypeOK /\ RowComesFirst /\ RacersAreKnown /\ FailuresAreWritten /\ SavingHasOwner

\* A job that runs is settled in the end, whatever dies or raises before the claim or
\* after the stage was written back - unless its claim is abandoned, which no later
\* loop takes over.
JobSettlesUnlessAbandoned == (status = "running") ~> (status \in Settled \/ abandoned)

-----------------------------------------------------------------------------
(* What comments and docs say and the code does not keep.                  *)

\* architecture.md: "A finished video is claimed once across replicas", so it is
\* delivered and charged at most once.
VideoChargedOnce == charges <= 1

=============================================================================
