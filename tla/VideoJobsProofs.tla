-------------------------- MODULE VideoJobsProofs --------------------------
(***************************************************************************)
(* Facts about a video job for any number of replicas, loops, cancels,     *)
(* polls and faults: a cancel that landed before the finisher looked again *)
(* wins, a settled job changes only by who raced for it, and a claimed     *)
(* video is not forgotten unless its loop fell.                            *)
(***************************************************************************)
EXTENDS VideoJobs, TLAPS

\* The part of the type invariant that says where the loops are.
LoopsTyped ==
  /\ lpc \in [Replicas -> {"off", "sleeping", "polling", "completed", "finishing", "writing"}
                            \cup Owning]
  /\ goal \in [Replicas -> {"none", "progress"} \cup Failures]

\* The rest of it.
RestTyped ==
  /\ status \in {"none", "running"} \cup Settled
  /\ stage \in {"making", "saving", "closed"}
  /\ charges \in Nat
  /\ upstream \in {"none", "making", "completed", "failed"}
  /\ request \in SUBSET Replicas
  /\ polls \in [Replicas -> 0..MaxPolls]
  /\ sawSaving \in [Replicas -> BOOLEAN]
  /\ cpc \in [Cancels -> {"idle", "read", "done"}]
  /\ racing \in SUBSET (Replicas \cup Cancels)
  /\ abandoned \in BOOLEAN /\ faults \in 0..MaxFaults

\* What the loop actions do to where the loops are and what they are to write.
LEMMA LoopTypes == LoopsTyped /\ [Next]_vars => LoopsTyped'
<1> SUFFICES ASSUME LoopsTyped, [Next]_vars PROVE LoopsTyped'
  OBVIOUS
<1> USE DEF LoopsTyped, Owning, Failures
<1>1. ASSUME NEW r \in Replicas, Leave(r) PROVE LoopsTyped'
  BY <1>1 DEF Leave, Goto
<1>2. ASSUME NEW r \in Replicas, NEW what \in {"progress"} \cup Failures, Finishing(r, what)
      PROVE  LoopsTyped'
  BY <1>2 DEF Finishing, Goto
<1>3. ASSUME NEW r \in Replicas, AfterFinish(r) PROVE LoopsTyped'
  BY <1>1, <1>3 DEF AfterFinish, Goto
<1>4. ASSUME NEW r \in Replicas, LoopStep(r) PROVE LoopsTyped'
  <2>1. CASE WakeUp(r)
    BY <1>1, <2>1 DEF WakeUp, Goto
  <2>2. CASE Poll(r)
    BY <1>2, <2>2 DEF Poll, Goto
  <2>3. CASE ClaimVideo(r)
    BY <1>1, <2>3 DEF ClaimVideo, Goto
  <2>4. CASE Fetch(r)
    BY <1>2, <2>4 DEF Fetch, Goto
  <2>5. CASE LoadJob(r)
    BY <1>1, <2>5 DEF LoadJob, Goto
  <2>6. CASE Deliver(r)
    BY <1>1, <2>6 DEF Deliver
  <2>7. CASE TimeOut(r)
    BY <1>2, <2>7 DEF TimeOut
  <2>8. CASE FinishRead(r)
    BY <1>3, <2>8 DEF FinishRead, Goto
  <2>9. CASE FinishWrite(r)
    BY <1>3, <2>9 DEF FinishWrite
  <2> QED BY <1>4, <2>1, <2>2, <2>3, <2>4, <2>5, <2>6, <2>7, <2>8, <2>9 DEF LoopStep
<1>5. ASSUME NEW r \in Replicas, Submit(r) \/ CreateJob(r) \/ ListJobs(r) \/ Fall(r)
      PROVE  LoopsTyped'
  BY <1>1, <1>5 DEF Submit, CreateJob, ListJobs, Fall, Goto, loops
<1>6. ASSUME NEW c \in Cancels, CancelRead(c) \/ CancelWrite(c) PROVE LoopsTyped'
  BY <1>6 DEF CancelRead, CancelWrite, loops
<1>7. CASE UpstreamEnds \/ UNCHANGED vars
  BY <1>7 DEF UpstreamEnds, vars, loops
<1> QED BY <1>4, <1>5, <1>6, <1>7 DEF Next, Crash, Raise

\* What the actions do to everything else.
LEMMA RestTypes == RestTyped /\ [Next]_vars => RestTyped'
<1> SUFFICES ASSUME RestTyped, [Next]_vars PROVE RestTyped'
  OBVIOUS
<1> USE VideoAssumption DEF RestTyped, Settled, row, loops, hist
<1>1. ASSUME NEW r \in Replicas, Leave(r)
      PROVE  polls' \in [Replicas -> 0..MaxPolls] /\ sawSaving' \in [Replicas -> BOOLEAN]
  BY <1>1 DEF Leave
<1>2. ASSUME NEW r \in Replicas, AfterFinish(r)
      PROVE  polls' \in [Replicas -> 0..MaxPolls] /\ sawSaving' \in [Replicas -> BOOLEAN]
  BY <1>1, <1>2 DEF AfterFinish
<1>0. ASSUME NoteRace PROVE racing' \in SUBSET (Replicas \cup Cancels)
  BY <1>0 DEF NoteRace, Writers
<1>3. ASSUME NEW r \in Replicas, LoopStep(r) PROVE RestTyped'
  <2>1. CASE WakeUp(r)
    BY <1>1, <2>1 DEF WakeUp
  <2>2. CASE Poll(r) \/ Fetch(r) \/ TimeOut(r)
    BY <2>2 DEF Poll, Fetch, TimeOut, Finishing
  <2>3. CASE ClaimVideo(r)
    BY <1>1, <2>3 DEF ClaimVideo
  <2>4. CASE LoadJob(r)
    BY <1>1, <2>4 DEF LoadJob
  <2>5. CASE Deliver(r)
    BY <1>0, <1>1, <2>5 DEF Deliver
  <2>6. CASE FinishRead(r)
    <3>1. sawSaving' \in [Replicas -> BOOLEAN] /\ polls' \in [Replicas -> 0..MaxPolls]
      <4>1. CASE AfterFinish(r)
        BY <1>2, <4>1
      <4>2. CASE sawSaving' = [sawSaving EXCEPT ![r] = stage = "saving"] /\ UNCHANGED polls
        <5>1. (stage = "saving") \in BOOLEAN
          OBVIOUS
        <5> QED BY <4>2, <5>1
      <4> QED BY <2>6, <4>1, <4>2 DEF FinishRead
    <3> QED BY <2>6, <3>1 DEF FinishRead
  <2>7. CASE FinishWrite(r)
    <3>1. racing' \in SUBSET (Replicas \cup Cancels)
      BY <1>0, <2>7 DEF FinishWrite
    <3>2. (abandoned /\ stage' = "saving") \in BOOLEAN
      OBVIOUS
    <3> QED BY <1>2, <2>7, <3>1, <3>2 DEF FinishWrite
  <2> QED BY <1>3, <2>1, <2>2, <2>3, <2>4, <2>5, <2>6, <2>7 DEF LoopStep
<1>4. ASSUME NEW r \in Replicas, Submit(r) \/ CreateJob(r) \/ ListJobs(r) PROVE RestTyped'
  BY <1>4 DEF Submit, CreateJob, ListJobs
<1>5. ASSUME NEW r \in Replicas, Crash(r) \/ Raise(r) PROVE RestTyped'
  <2>1. (abandoned \/ (Owns(r) /\ stage = "saving")) \in BOOLEAN
    OBVIOUS
  <2>2. request' \in SUBSET Replicas /\ Fall(r)
    BY <1>5 DEF Crash, Raise
  <2> QED BY <1>1, <2>1, <2>2 DEF Fall
<1>6. ASSUME NEW c \in Cancels, CancelRead(c) \/ CancelWrite(c) PROVE RestTyped'
  BY <1>0, <1>6 DEF CancelRead, CancelWrite
<1>7. CASE UpstreamEnds \/ UNCHANGED vars
  BY <1>7 DEF UpstreamEnds, vars
<1> QED BY <1>3, <1>4, <1>5, <1>6, <1>7 DEF Next

\* Who writes a settled job had read it before: a look at a settled job leads to no
\* write (LoadJob, _finish, cancel_job), and what settles a job notes who is on the way.
LEMMA RacersStep == LoopsTyped /\ RestTyped /\ RacersAreKnown /\ [Next]_vars => RacersAreKnown'
<1> SUFFICES ASSUME LoopsTyped, RestTyped, RacersAreKnown, [Next]_vars, status' \in Settled
             PROVE  Writers' \subseteq racing'
  BY DEF RacersAreKnown
<1> USE DEF LoopsTyped, RestTyped, RacersAreKnown, Settled
<1>1. ASSUME status \in Settled, racing' = racing,
             \A q \in Replicas : lpc'[q] \in {"delivering", "writing"}
                                 => lpc[q] \in {"delivering", "writing"},
             \A c \in Cancels : cpc'[c] = "read" => cpc[c] = "read"
      PROVE  Writers' \subseteq racing'
  BY <1>1 DEF Writers
<1>2. ASSUME NoteRace,
             \A q \in Replicas : lpc'[q] \in {"delivering", "writing"}
                                 => lpc[q] \in {"delivering", "writing"},
             \A c \in Cancels : cpc'[c] = "read" => cpc[c] = "read"
      PROVE  Writers' \subseteq racing'
  BY <1>2 DEF NoteRace, Writers
<1>3. ASSUME NEW r \in Replicas,
             Submit(r) \/ ListJobs(r) \/ Fall(r)
      PROVE  Writers' \subseteq racing'
  BY <1>1, <1>3 DEF Submit, ListJobs, Fall, Leave, Goto, row, loops, hist
<1>4. ASSUME NEW r \in Replicas, CreateJob(r) PROVE Writers' \subseteq racing'
  BY <1>4 DEF CreateJob
<1>5. ASSUME NEW r \in Replicas, LoopStep(r) PROVE Writers' \subseteq racing'
  <2>1. CASE LoadJob(r)
    BY <1>1, <2>1 DEF LoadJob, Leave, Goto, row, hist
  <2>2. CASE Deliver(r)
    BY <1>2, <2>2 DEF Deliver, Leave, Goto
  <2>3. CASE WakeUp(r) \/ Poll(r) \/ ClaimVideo(r) \/ Fetch(r) \/ TimeOut(r)
    BY <1>1, <2>3 DEF WakeUp, Poll, ClaimVideo, Fetch, TimeOut, Finishing, Leave, Goto, row, hist
  <2>4. CASE FinishRead(r)
    BY <1>1, <2>4 DEF FinishRead, AfterFinish, Leave, Goto, row, hist
  <2>5. CASE FinishWrite(r)
    <3>1. /\ \A q \in Replicas : lpc'[q] \in {"delivering", "writing"}
                                  => lpc[q] \in {"delivering", "writing"}
          /\ cpc' = cpc
      BY <2>5 DEF FinishWrite, AfterFinish, Leave, Goto
    <3>2. CASE goal[r] \in Failures
      BY <1>2, <2>5, <3>1, <3>2 DEF FinishWrite
    <3>3. CASE goal[r] \notin Failures
      BY <1>1, <2>5, <3>1, <3>3 DEF FinishWrite
    <3> QED BY <3>2, <3>3
  <2> QED BY <1>5, <2>1, <2>2, <2>3, <2>4, <2>5 DEF LoopStep
<1>6. ASSUME NEW c \in Cancels, CancelRead(c) PROVE Writers' \subseteq racing'
  BY <1>1, <1>6 DEF CancelRead, row, loops, hist
<1>7. ASSUME NEW c \in Cancels, CancelWrite(c) PROVE Writers' \subseteq racing'
  BY <1>2, <1>7 DEF CancelWrite, loops
<1>8. CASE UpstreamEnds \/ UNCHANGED vars
  BY <1>1, <1>8 DEF UpstreamEnds, vars, row, loops, hist
<1> QED BY <1>3, <1>4, <1>5, <1>6, <1>7, <1>8 DEF Next, Crash, Raise

LEMMA InitKnown == Init => LoopsTyped /\ RestTyped /\ RacersAreKnown
<1> SUFFICES ASSUME Init PROVE LoopsTyped /\ RestTyped /\ RacersAreKnown
  OBVIOUS
<1>1. LoopsTyped
  BY DEF Init, LoopsTyped, Owning, Failures
<1>2. RestTyped
  <2>1. polls \in [Replicas -> 0..MaxPolls] /\ faults \in 0..MaxFaults
    BY VideoAssumption DEF Init
  <2>2. abandoned \in BOOLEAN /\ sawSaving \in [Replicas -> BOOLEAN]
    BY DEF Init
  <2> QED BY <2>1, <2>2 DEF Init, RestTyped, Settled
<1>3. RacersAreKnown
  BY DEF Init, RacersAreKnown, Settled
<1> QED BY <1>1, <1>2, <1>3

\* A charge comes from a loop at its commit.
LEMMA ChargeStep ==
  ASSUME LoopsTyped, RacersAreKnown, [Next]_vars, status = "canceled", charges' # charges
  PROVE  \E r \in racing \cap Replicas : lpc[r] = "delivering"
<1>1. ASSUME NEW r \in Replicas, Deliver(r)
      PROVE  \E q \in racing \cap Replicas : lpc[q] = "delivering"
  BY <1>1 DEF Deliver, RacersAreKnown, Writers, Settled
<1>2. ASSUME NEW r \in Replicas, ~Deliver(r),
             Submit(r) \/ CreateJob(r) \/ ListJobs(r) \/ LoopStep(r) \/ Crash(r) \/ Raise(r)
      PROVE  charges' = charges
  BY <1>2 DEF Submit, CreateJob, ListJobs, LoopStep, Crash, Raise, Fall, WakeUp, Poll, ClaimVideo,
     Fetch, LoadJob, TimeOut, FinishRead, FinishWrite, row
<1>3. ASSUME NEW c \in Cancels, CancelRead(c) \/ CancelWrite(c) PROVE charges' = charges
  BY <1>3 DEF CancelRead, CancelWrite, row
<1>4. CASE UpstreamEnds \/ UNCHANGED vars
  BY <1>4 DEF UpstreamEnds, vars, row
<1> QED BY <1>1, <1>2, <1>3, <1>4 DEF Next

\* A settled job is written by who had read it unsettled.
LEMMA SettledStep ==
  ASSUME LoopsTyped, RestTyped, RowComesFirst, RacersAreKnown, [Next]_vars,
         status \in Settled, status' # status
  PROVE  RacerWrites
<1> USE DEF LoopsTyped, RestTyped, RacersAreKnown, RacerWrites, Writers
<1>1. ASSUME NEW r \in Replicas, Deliver(r) PROVE RacerWrites
  BY <1>1 DEF Deliver, Leave, Goto
<1>2. ASSUME NEW r \in Replicas, FinishWrite(r) PROVE RacerWrites
  BY <1>2 DEF FinishWrite, AfterFinish, Leave, Goto
<1>3. ASSUME NEW r \in Replicas, CreateJob(r) PROVE FALSE
  BY <1>3 DEF CreateJob, RowComesFirst, Settled
<1>4. ASSUME NEW r \in Replicas, ~Deliver(r), ~FinishWrite(r),
             Submit(r) \/ ListJobs(r) \/ LoopStep(r) \/ Crash(r) \/ Raise(r)
      PROVE  status' = status
  BY <1>4 DEF Submit, ListJobs, LoopStep, Crash, Raise, Fall, WakeUp, Poll, ClaimVideo,
     Fetch, LoadJob, TimeOut, FinishRead, row
<1>5. ASSUME NEW c \in Cancels, CancelWrite(c) PROVE RacerWrites
  BY <1>5 DEF CancelWrite
<1>6. ASSUME NEW c \in Cancels, CancelRead(c) PROVE status' = status
  BY <1>6 DEF CancelRead, row
<1>7. CASE UpstreamEnds \/ UNCHANGED vars
  BY <1>7 DEF UpstreamEnds, vars, row
<1> QED BY <1>1, <1>2, <1>3, <1>4, <1>5, <1>6, <1>7 DEF Next

\* A cancel wins over every download that has not looked at the job again yet:
\* after it, only a loop that was at its commit already can charge.
THEOREM CancelWins == Spec => CancelBeatsDownload
<1> DEFINE Inv == LoopsTyped /\ RestTyped /\ RacersAreKnown
<1>1. Init => Inv
  BY InitKnown
<1>2. Inv /\ [Next]_vars => Inv'
  BY LoopTypes, RestTypes, RacersStep
<1>3. Inv /\ [Next]_vars =>
        [status = "canceled" /\ charges' > charges
           => \E r \in racing \cap Replicas : lpc[r] = "delivering"]_vars
  <2> SUFFICES ASSUME Inv, [Next]_vars, status = "canceled", charges' > charges, vars' # vars
               PROVE  \E r \in racing \cap Replicas : lpc[r] = "delivering"
    OBVIOUS
  <2>1. charges \in Nat /\ charges' \in Nat
    BY RestTypes DEF RestTyped
  <2>2. charges' # charges
    BY <2>1
  <2> QED BY <2>2, ChargeStep
<1> HIDE DEF Inv
<1> QED BY <1>1, <1>2, <1>3, PTL DEF Spec, CancelBeatsDownload

-----------------------------------------------------------------------------

\* The loops come after the row, the row after the request (create_job).
LEMMA RowFirstStep ==
  LoopsTyped /\ RestTyped /\ RowComesFirst /\ [Next]_vars => RowComesFirst'
<1> SUFFICES ASSUME LoopsTyped, RestTyped, RowComesFirst, [Next]_vars PROVE RowComesFirst'
  OBVIOUS
<1> USE DEF LoopsTyped, RestTyped, RowComesFirst, row, loops, Settled
<1>1. ASSUME NEW r \in Replicas, LoopStep(r) PROVE RowComesFirst'
  <2>1. lpc[r] # "off" /\ UNCHANGED <<upstream, request, cpc>>
    BY <1>1 DEF LoopStep, WakeUp, Poll, ClaimVideo, Fetch, LoadJob, Deliver, TimeOut,
       FinishRead, FinishWrite
  <2> QED BY <2>1
<1>2. ASSUME NEW r \in Replicas, Submit(r) \/ CreateJob(r) \/ ListJobs(r) PROVE RowComesFirst'
  BY <1>2 DEF Submit, CreateJob, ListJobs, Goto
<1>3. ASSUME NEW r \in Replicas, Crash(r) \/ Raise(r) PROVE RowComesFirst'
  BY <1>3 DEF Crash, Raise, Fall, Leave, Goto
<1>4. ASSUME NEW c \in Cancels, CancelRead(c) \/ CancelWrite(c) PROVE RowComesFirst'
  <2>1. UNCHANGED <<upstream, request, lpc>> /\ ~(upstream = "none" \/ request # {})
    BY <1>4 DEF CancelRead, CancelWrite
  <2> QED BY <2>1
<1>5. CASE UpstreamEnds \/ UNCHANGED vars
  BY <1>5 DEF UpstreamEnds, vars
<1> QED BY <1>1, <1>2, <1>3, <1>4, <1>5 DEF Next

\* Only a _finish that is still to be written holds a failure.
LEMMA FailuresStep ==
  LoopsTyped /\ RowComesFirst /\ FailuresAreWritten /\ [Next]_vars => FailuresAreWritten'
<1> SUFFICES ASSUME LoopsTyped, RowComesFirst, FailuresAreWritten, [Next]_vars,
                    NEW v \in Replicas, goal'[v] \in Failures
             PROVE  lpc'[v] \in {"finishing", "writing"}
  BY DEF FailuresAreWritten
<1> USE DEF LoopsTyped, FailuresAreWritten, Failures
<1>1. ASSUME NEW r \in Replicas, LoopStep(r) PROVE lpc'[v] \in {"finishing", "writing"}
  <2>1. CASE WakeUp(r) \/ ClaimVideo(r) \/ LoadJob(r) \/ Deliver(r)
    BY <2>1 DEF WakeUp, ClaimVideo, LoadJob, Deliver, Leave, Goto
  <2>2. CASE Poll(r) \/ Fetch(r) \/ TimeOut(r)
    BY <2>2 DEF Poll, Fetch, TimeOut, Finishing, Goto
  <2>3. CASE FinishRead(r) \/ FinishWrite(r)
    BY <2>3 DEF FinishRead, FinishWrite, AfterFinish, Leave, Goto
  <2> QED BY <1>1, <2>1, <2>2, <2>3 DEF LoopStep
<1>2. ASSUME NEW r \in Replicas, Submit(r) \/ CreateJob(r) \/ ListJobs(r) \/ Fall(r)
      PROVE  lpc'[v] \in {"finishing", "writing"}
  BY <1>2 DEF Submit, CreateJob, ListJobs, Fall, Leave, Goto, loops, RowComesFirst
<1>3. ASSUME NEW c \in Cancels, CancelRead(c) \/ CancelWrite(c)
      PROVE  lpc'[v] \in {"finishing", "writing"}
  BY <1>3 DEF CancelRead, CancelWrite, loops
<1>4. CASE UpstreamEnds \/ UNCHANGED vars
  BY <1>4 DEF UpstreamEnds, vars, loops
<1> QED BY <1>1, <1>2, <1>3, <1>4 DEF Next, Crash, Raise

\* A claim is handed from the loop that fetches to the one that delivers, or to a
\* _finish that closes the job; what closes the job or takes the mark off ends the
\* need for an owner.
LEMMA OwnerStep ==
  ASSUME LoopsTyped, RestTyped, FailuresAreWritten, SavingHasOwner, [Next]_vars
  PROVE  SavingHasOwner'
<1> SUFFICES ASSUME ~abandoned', status' = "running", stage' = "saving"
             PROVE  \E q \in Replicas : lpc'[q] \in Owning \/ goal'[q] \in Failures
  BY DEF SavingHasOwner, Owns
<1> USE DEF LoopsTyped, FailuresAreWritten, Failures, Owning, Settled, Owns
<1>1. ASSUME NEW r \in Replicas, ClaimVideo(r)
      PROVE  \E q \in Replicas : lpc'[q] \in Owning \/ goal'[q] \in Failures
  <2>1. CASE status = "running" /\ stage # "saving"
    BY <1>1, <2>1 DEF ClaimVideo, Goto
  <2>2. CASE ~(status = "running" /\ stage # "saving")
    <3>1. PICK q \in Replicas : Owns(q)
      BY <1>1, <2>2 DEF ClaimVideo, SavingHasOwner
    <3> QED BY <1>1, <2>2, <3>1 DEF ClaimVideo, Leave, Goto
  <2> QED BY <2>1, <2>2
<1>2. ASSUME ~abandoned, status = "running", stage = "saving",
             NEW r \in Replicas, LoopStep(r), ~ClaimVideo(r)
      PROVE  \E q \in Replicas : lpc'[q] \in Owning \/ goal'[q] \in Failures
  <2>1. PICK q \in Replicas : Owns(q)
    BY <1>2 DEF SavingHasOwner
  <2>2. CASE WakeUp(r) \/ Poll(r) \/ TimeOut(r)
    BY <2>1, <2>2 DEF WakeUp, Poll, TimeOut, Finishing, Leave, Goto
  <2>3. CASE Fetch(r) \/ LoadJob(r)
    BY <1>2, <2>1, <2>3 DEF Fetch, LoadJob, Finishing, Leave, Goto
  <2>4. CASE Deliver(r)
    BY <2>4 DEF Deliver
  <2>5. CASE FinishRead(r)
    BY <1>2, <2>1, <2>5 DEF FinishRead, AfterFinish, Leave, Goto
  <2>6. CASE FinishWrite(r)
    BY <1>2, <2>1, <2>6 DEF FinishWrite, AfterFinish, Leave, Goto
  <2> QED BY <1>2, <2>2, <2>3, <2>4, <2>5, <2>6 DEF LoopStep
<1>3. ASSUME NEW r \in Replicas, LoopStep(r), ~ClaimVideo(r)
      PROVE  ~abandoned /\ status = "running" /\ stage = "saving"
  <2>1. CASE FinishWrite(r)
    BY <2>1 DEF FinishWrite, RestTyped
  <2>2. CASE ~FinishWrite(r)
    BY <1>3, <2>2 DEF LoopStep, WakeUp, Poll, Fetch, LoadJob, Deliver, TimeOut, FinishRead, row, hist
  <2> QED BY <2>1, <2>2
<1>4. ASSUME NEW r \in Replicas, Submit(r) \/ ListJobs(r)
      PROVE  \E q \in Replicas : lpc'[q] \in Owning \/ goal'[q] \in Failures
  BY <1>4 DEF Submit, ListJobs, SavingHasOwner, Goto, row, loops, hist
<1>5. ASSUME NEW r \in Replicas, CreateJob(r) PROVE FALSE
  BY <1>5 DEF CreateJob
<1>6. ASSUME NEW r \in Replicas, Fall(r)
      PROVE  \E q \in Replicas : lpc'[q] \in Owning \/ goal'[q] \in Failures
  <2>1. ~abandoned /\ ~Owns(r) /\ status = "running" /\ stage = "saving"
    BY <1>6 DEF Fall, row
  <2>2. PICK q \in Replicas : Owns(q)
    BY <2>1 DEF SavingHasOwner
  <2>3. q # r /\ lpc'[q] = lpc[q] /\ goal'[q] = goal[q]
    BY <1>6, <2>1, <2>2 DEF Fall, Leave, Goto
  <2> QED BY <2>2, <2>3
<1>7. ASSUME NEW c \in Cancels, CancelRead(c) \/ CancelWrite(c)
      PROVE  \E q \in Replicas : lpc'[q] \in Owning \/ goal'[q] \in Failures
  BY <1>7 DEF CancelRead, CancelWrite, SavingHasOwner, row, loops, hist
<1>8. CASE UpstreamEnds \/ UNCHANGED vars
  BY <1>8 DEF UpstreamEnds, vars, SavingHasOwner, row, loops, hist
<1> QED BY <1>1, <1>2, <1>3, <1>4, <1>5, <1>6, <1>7, <1>8 DEF Next, Crash, Raise

\* VideoInv with its types in two parts, and why every step keeps it.
Parts ==
  LoopsTyped /\ RestTyped /\ RowComesFirst /\ RacersAreKnown /\ FailuresAreWritten /\ SavingHasOwner

LEMMA PartsHold == Spec => []Parts
<1>1. Init => Parts
  BY InitKnown DEF Parts, Init, RowComesFirst, FailuresAreWritten, SavingHasOwner, Failures
<1>2. Parts /\ [Next]_vars => Parts'
  BY LoopTypes, RestTypes, RowFirstStep, RacersStep, FailuresStep, OwnerStep DEF Parts
<1> QED BY <1>1, <1>2, PTL DEF Spec

\* A video that is marked as being saved is being saved, or the failure of that is
\* about to be written down (_poll_until_done, _finish), unless the loop that had the
\* claim died or raised.
THEOREM ClaimIsNotForgotten == Spec => []VideoInv
<1>1. Parts => VideoInv
  BY DEF Parts, VideoInv, TypeOK, LoopsTyped, RestTyped
<1> QED BY <1>1, PartsHold, PTL

\* _finish, "settled = final": a settled job changes only by a loop or a press that
\* had read it unsettled and was to write it already.
THEOREM SettledIsFinal == Spec => SettledUnlessRaced
<1>1. Parts /\ [Next]_vars => [(status \in Settled) /\ status' # status => RacerWrites]_vars
  BY SettledStep DEF Parts
<1> QED BY <1>1, PartsHold, PTL DEF Spec, SettledUnlessRaced

=============================================================================
