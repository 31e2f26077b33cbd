--------------------------- MODULE OcrJobsProofs ---------------------------
(***************************************************************************)
(* The reading of a file is safe for any number of workers, pages, crashes *)
(* and expired leases: the inductive invariant OcrInv, and with it the     *)
(* implementation of PageReading.                                          *)
(***************************************************************************)
EXTENDS OcrJobs, FiniteSetTheorems, TLAPS

\* A file's pages are finitely many, so the counts shown are numbers.
LEMMA PagesCount ==
  ASSUME NEW S \in SUBSET Pages
  PROVE  IsFiniteSet(S) /\ Cardinality(S) \in Nat
<1>1. IsFiniteSet(Pages)
  BY OcrAssumption, FS_Interval DEF Pages
<1> QED BY <1>1, FS_Subset, FS_CardinalityType

\* The upload leaves the file as the invariant wants it.
LEMMA InitTyped == Init => OcrInv
<1> SUFFICES ASSUME Init PROVE OcrInv
  OBVIOUS
<1>1. limit \in Nat
  BY OcrAssumption DEF Init
<1>2. total \in Nat
  BY PagesCount DEF Init, Planned
<1>3. index \in SUBSET (0..N)
  BY OcrAssumption DEF Init, Nothing
<1>4. TypeOK
  BY <1>1, <1>2, <1>3 DEF Init, TypeOK, WorkerPcs, Working
<1>5. ClaimsDiffer /\ HolderKnowsPages
  BY DEF Init, ClaimsDiffer, HolderKnowsPages, Working
<1>6. PagesAreBilledOnce /\ UnreadIsUnbilled /\ LockedIsThere
  BY DEF Init, PagesAreBilledOnce, UnreadIsUnbilled, LockedIsThere
<1> QED BY <1>4, <1>5, <1>6 DEF OcrInv

\* The type of the file's variables: one step per group of actions.
LEMMA TypeStep == TypeOK /\ [Next]_vars => TypeOK'
<1> SUFFICES ASSUME TypeOK, [Next]_vars PROVE TypeOK'
  OBVIOUS
<1> USE DEF TypeOK, WorkerPcs, Working
<1>1. ASSUME NEW w \in Workers, Claim(w) PROVE TypeOK'
  BY <1>1 DEF Claim, fileVars, indexVars, envVars
<1>2. ASSUME NEW w \in Workers, LostClaim(w) PROVE TypeOK'
  BY <1>2 DEF LostClaim, Drop, claimVars, fileVars, indexVars, envVars
<1>3. ASSUME NEW w \in Workers, PlanPages(w) PROVE TypeOK'
  <2>1. PlanTotal \in Nat
    BY OcrAssumption DEF PlanTotal
  <2>2. Planned \in SUBSET Pages
    BY DEF Planned
  <2> QED BY <1>3, <2>1, <2>2 DEF PlanPages, indexVars, envVars
<1>4. ASSUME NEW w \in Workers, StorePage(w) PROVE TypeOK'
  <2>1. PICK p \in wplan[w] \ wread[w] :
          /\ pages' = pages \cup {p}
          /\ billed' = [billed EXCEPT ![p] = @ + 1]
          /\ wread' = [wread EXCEPT ![w] = @ \cup {p}]
          /\ done' = Cardinality(wread[w] \cup {p})
    BY <1>4 DEF StorePage
  <2>2. p \in Pages
    BY <2>1
  <2>3. done' \in Nat
    BY <2>1, <2>2, PagesCount, wread[w] \cup {p} \in SUBSET Pages
  <2>4. pages' \in SUBSET Pages /\ billed' \in [Pages -> Nat]
        /\ wread' \in [Workers -> SUBSET Pages]
    BY <2>1, <2>2
  <2> QED BY <1>4, <2>3, <2>4 DEF StorePage, indexVars, envVars
<1>5. ASSUME NEW w \in Workers, NEW as \in {"done", "failed"}, Finish(as)
      PROVE  state' \in {"done", "failed"} /\ owner' = 0 /\ text' \in SUBSET Pages /\ done' \in Nat
  <2>1. text' \in SUBSET Pages
    BY <1>5 DEF Finish
  <2>2. done' \in Nat
    BY <1>5, PagesCount DEF Finish
  <2> QED BY <1>5, <2>1, <2>2 DEF Finish
<1>6. ASSUME NEW w \in Workers, NEW as \in {"done", "failed"}, FinishAndIndex(w, as) PROVE TypeOK'
  <2>1. Finish(as) BY <1>6 DEF FinishAndIndex
  <2>2. state' \in {"done", "failed"} /\ owner' = 0 /\ text' \in SUBSET Pages /\ done' \in Nat
    BY <2>1, <1>5
  <2>3. wpc' \in [Workers -> WorkerPcs] /\ wtok' \in [Workers -> Nat]
        /\ wplan' \in [Workers -> SUBSET Pages] /\ wread' \in [Workers -> SUBSET Pages]
        /\ wtext' \in [Workers -> SUBSET Pages]
    BY <1>6, <2>2 DEF FinishAndIndex, Drop
  <2> QED BY <1>6, <2>2, <2>3 DEF FinishAndIndex, indexVars, envVars
<1>7. ASSUME NEW w \in Workers, CloseUnread(w) PROVE TypeOK'
  <2>1. state' \in {"done", "failed"} /\ owner' = 0 /\ text' \in SUBSET Pages /\ done' \in Nat
    BY <1>7, <1>5 DEF CloseUnread
  <2> QED BY <1>7, <2>1 DEF CloseUnread, Drop, indexVars, envVars
<1>8. ASSUME NEW w \in Workers, ReadFails(w) PROVE TypeOK'
  BY <1>8 DEF ReadFails, claimVars, fileVars, indexVars, envVars
<1>9. ASSUME NEW w \in Workers, Requeue(w) PROVE TypeOK'
  BY <1>9 DEF Requeue, Drop, fileVars, indexVars, envVars
<1>10. ASSUME NEW w \in Workers, PutPages(w) PROVE TypeOK'
  <2>1. wtext[w] \in SUBSET (0..N)
    BY OcrAssumption DEF Pages
  <2>2. index' \in SUBSET (0..N) /\ lapsed' \in BOOLEAN /\ wpc' \in [Workers -> WorkerPcs]
    BY <1>10, <2>1 DEF PutPages
  <2> QED BY <1>10, <2>2 DEF PutPages, claimVars, fileVars, envVars
<1>11. ASSUME NEW w \in Workers, RecordIndexed(w) PROVE TypeOK'
  BY <1>11 DEF RecordIndexed, claimVars, fileVars, indexVars, envVars
<1>12. ASSUME NEW w \in Workers, CheckStillThere(w) PROVE TypeOK'
  <2>1. index' \in SUBSET (0..N) /\ lapsed' \in BOOLEAN
    <3>1. Nothing \in SUBSET (0..N)
      BY OcrAssumption DEF Nothing
    <3> QED BY <1>12, <3>1 DEF CheckStillThere, ForgetEntry
  <2> QED BY <1>12, <2>1 DEF CheckStillThere, Drop, claimVars, fileVars, envVars
<1>13. ASSUME NEW w \in Workers, Crash(w) PROVE TypeOK'
  BY <1>13 DEF Crash, Drop, claimVars, fileVars, indexVars
<1>14. CASE UploadPut \/ UploadRecord
  BY <1>14 DEF UploadPut, UploadRecord, claimVars, fileVars, indexVars, workVars, envVars
<1>15. CASE DeleteForget \/ DeleteCommit \/ DeleteCrashes
  <2>1. Nothing \in SUBSET (0..N)
    BY OcrAssumption DEF Nothing
  <2>2. CASE DeleteForget
    <3>1. index' \in SUBSET (0..N) /\ lapsed' \in BOOLEAN
      BY <2>1, <2>2 DEF DeleteForget, ForgetEntry
    <3> QED BY <2>2, <3>1 DEF DeleteForget, claimVars, workVars, envVars
  <2>3. CASE DeleteCommit
    BY <2>3 DEF DeleteCommit, indexVars, workVars, envVars
  <2>4. CASE DeleteCrashes
    <3>1. crashes' \in Nat
      <4>1. crashes' = crashes + 1
        BY <2>4 DEF DeleteCrashes
      <4> QED BY <4>1
    <3>2. UNCHANGED <<state, age, owner, attempts, pages, done, total, text, blob, billed,
                      index, lapsed, wpc, wtok, wplan, wread, wtext, upload, form, limit, slow, tunes>>
      BY <2>4 DEF DeleteCrashes, claimVars, fileVars, indexVars, workVars
    <3>3. locked' \in BOOLEAN
      BY <2>4, Zenon DEF DeleteCrashes
    <3> HIDE <2>4
    <3> QED BY <3>1, <3>2, <3>3
  <2> QED BY <1>15, <2>2, <2>3, <2>4
<1>16. CASE TimePasses
  BY <1>16 DEF TimePasses, fileVars, indexVars, workVars
<1>17. CASE SetLimit
  BY <1>17, OcrAssumption DEF SetLimit, claimVars, fileVars, indexVars, workVars
<1>18. CASE UNCHANGED vars
  BY <1>18 DEF vars, claimVars, fileVars, indexVars, workVars, envVars
<1>19. ASSUME NEW w \in Workers, FinishReading(w) \/ GiveUp(w) PROVE TypeOK'
  BY <1>19, <1>6 DEF FinishReading, GiveUp
<1> QED BY <1>1, <1>2, <1>3, <1>4, <1>7, <1>8, <1>9, <1>10, <1>11, <1>12, <1>13, <1>14,
           <1>15, <1>16, <1>17, <1>18, <1>19 DEF Next, WorkerStep

\* Between its steps, a worker's claim stays its own: a claim is given under a
\* number larger than every earlier one, and nothing but its end takes it away.
LEMMA ClaimsStayDifferent == OcrInv /\ [Next]_vars => ClaimsDiffer'
<1> SUFFICES ASSUME OcrInv, [Next]_vars PROVE ClaimsDiffer'
  OBVIOUS
<1> USE DEF OcrInv, TypeOK, ClaimsDiffer
<1>1. ASSUME NEW w \in Workers, Claim(w) PROVE ClaimsDiffer'
  <2>1. owner' = attempts + 1 /\ attempts' = attempts + 1
    BY <1>1 DEF Claim
  <2>2. wtok' = [wtok EXCEPT ![w] = attempts + 1] /\ wpc' = [wpc EXCEPT ![w] = "claimed"]
    BY <1>1 DEF Claim
  <2>3. \A v \in Workers : wtok'[v] <= attempts' /\ (wpc'[v] \in Working => wtok'[v] # 0)
    BY <2>1, <2>2
  <2>4. \A u, v \in Workers : wtok'[u] = wtok'[v] /\ wtok'[v] # 0 => u = v
    BY <2>1, <2>2
  <2> QED BY <2>1, <2>3, <2>4
<1>2. ASSUME NEW w \in Workers, Drop(w), owner' \in {0, owner}, attempts' = attempts
      PROVE  ClaimsDiffer'
  BY <1>2 DEF Drop, Working
<1>3. ASSUME NEW w \in Workers, wtok' = wtok, attempts' = attempts, owner' \in {0, owner},
             \A v \in Workers : wpc'[v] \in Working => wpc[v] \in Working
      PROVE  ClaimsDiffer'
  BY <1>3
<1>4. ASSUME NEW w \in Workers, LostClaim(w) \/ CloseUnread(w) \/ Requeue(w)
                                  \/ CheckStillThere(w) \/ Crash(w)
      PROVE  ClaimsDiffer'
  BY <1>2, <1>4 DEF LostClaim, CloseUnread, Requeue, CheckStillThere, Crash, Finish, claimVars
<1>5. ASSUME NEW w \in Workers, PlanPages(w) \/ StorePage(w) \/ ReadFails(w)
      PROVE  ClaimsDiffer'
  BY <1>3, <1>5 DEF PlanPages, StorePage, ReadFails, claimVars, Working
<1>6. ASSUME NEW w \in Workers, PutPages(w) \/ RecordIndexed(w) PROVE ClaimsDiffer'
  BY <1>3, <1>6 DEF PutPages, RecordIndexed, claimVars, Working
<1>7. ASSUME NEW w \in Workers, NEW as \in {"done", "failed"}, FinishAndIndex(w, as)
      PROVE  ClaimsDiffer'
  <2>1. owner' = 0 /\ attempts' = attempts
    BY <1>7 DEF FinishAndIndex, Finish
  <2>2. CASE Drop(w)
    BY <1>2, <2>1, <2>2
  <2>3. CASE wtok' = wtok /\ wpc' = [wpc EXCEPT ![w] = "indexing"]
    BY <1>3, <2>1, <2>3 DEF Working
  <2> QED BY <1>7, <2>2, <2>3 DEF FinishAndIndex
<1>8. CASE UploadPut \/ UploadRecord \/ DeleteForget \/ DeleteCommit \/ DeleteCrashes
           \/ TimePasses \/ SetLimit \/ UNCHANGED vars
  BY <1>8 DEF UploadPut, UploadRecord, DeleteForget, DeleteCommit, DeleteCrashes, TimePasses,
     SetLimit, vars, claimVars, workVars
<1> QED BY <1>1, <1>4, <1>5, <1>6, <1>7, <1>8 DEF Next, WorkerStep, FinishReading, GiveUp

\* A page is stored only by the worker that holds the claim, which is a page it
\* did not find stored; any other step leaves pages and ledger as they are.
LEMMA StoreStep ==
  ASSUME OcrInv, NEW w \in Workers, StorePage(w)
  PROVE  \E p \in Pages \ pages :
           /\ pages' = pages \cup {p}
           /\ billed' = [billed EXCEPT ![p] = @ + 1]
           /\ wread' = [wread EXCEPT ![w] = @ \cup {p}]
           /\ p \in wplan[w]
<1>1. wread[w] = pages \cap wplan[w]
  BY DEF StorePage, Holds, OcrInv, HolderKnowsPages
<1>2. wplan[w] \in SUBSET Pages
  BY DEF OcrInv, TypeOK
<1> QED BY <1>1, <1>2 DEF StorePage

LEMMA OtherSteps ==
  ASSUME OcrInv, [Next]_vars, ~(\E w \in Workers : StorePage(w)), ~DeleteCommit
  PROVE  pages' = pages /\ billed' = billed /\ (state' = "gone" <=> state = "gone")
<1> USE DEF OcrInv, TypeOK
<1>1. ASSUME NEW w \in Workers, WorkerStep(w) \/ Crash(w)
      PROVE  pages' = pages /\ billed' = billed /\ (state' = "gone" <=> state = "gone")
  BY <1>1 DEF WorkerStep, Claim, Claimable, LostClaim, PlanPages, FinishReading, CloseUnread, ReadFails,
     GiveUp, Requeue, PutPages, RecordIndexed, CheckStillThere, Crash, FinishAndIndex, Finish,
     Holds, claimVars, fileVars
<1>2. CASE UploadPut \/ UploadRecord \/ DeleteForget \/ DeleteCrashes \/ TimePasses
           \/ SetLimit \/ UNCHANGED vars
  BY <1>2 DEF UploadPut, UploadRecord, DeleteForget, DeleteCrashes, TimePasses, SetLimit,
     vars, claimVars, fileVars
<1> QED BY <1>1, <1>2 DEF Next

\* Only a deletion takes the row away, and it does so with its lock.
LEMMA LockStep == OcrInv /\ [Next]_vars => LockedIsThere'
<1> SUFFICES ASSUME OcrInv, [Next]_vars PROVE LockedIsThere'
  OBVIOUS
<1> USE DEF OcrInv, TypeOK, LockedIsThere
<1>1. ASSUME NEW w \in Workers, StorePage(w) PROVE LockedIsThere'
  BY <1>1 DEF StorePage, Holds
<1>2. CASE DeleteCommit
  BY <1>2 DEF DeleteCommit
<1>3. CASE ~(\E w \in Workers : StorePage(w)) /\ ~DeleteCommit
  <2>1. state' = "gone" <=> state = "gone"
    BY <1>3, OtherSteps
  <2>2. locked' => locked \/ state # "gone"
    BY <1>3 DEF Next, WorkerStep, Claim, LostClaim, PlanPages, FinishReading, CloseUnread,
       ReadFails, GiveUp, Requeue, PutPages, RecordIndexed, CheckStillThere, Crash,
       FinishAndIndex, UploadPut, UploadRecord, DeleteForget, DeleteCrashes, TimePasses,
       SetLimit, vars
  <2> QED BY <2>1, <2>2
<1> QED BY <1>1, <1>2, <1>3

\* What a file costs follows what is stored of it.
LEMMA BillingStep ==
  OcrInv /\ [Next]_vars => PagesAreBilledOnce' /\ UnreadIsUnbilled'
<1> SUFFICES ASSUME OcrInv, [Next]_vars PROVE PagesAreBilledOnce' /\ UnreadIsUnbilled'
  OBVIOUS
<1> USE DEF OcrInv, TypeOK, PagesAreBilledOnce, UnreadIsUnbilled
<1>1. ASSUME NEW w \in Workers, StorePage(w) PROVE PagesAreBilledOnce' /\ UnreadIsUnbilled'
  <2>1. PICK p \in Pages \ pages : /\ pages' = pages \cup {p}
                                   /\ billed' = [billed EXCEPT ![p] = @ + 1]
    BY <1>1, StoreStep
  <2>2. state = "running"
    BY <1>1 DEF StorePage, Holds
  <2>3. billed[p] = 0
    BY <2>1, <2>2
  <2> QED BY <2>1, <2>2, <2>3
<1>2. CASE DeleteCommit
  BY <1>2 DEF DeleteCommit
<1>3. CASE ~(\E w \in Workers : StorePage(w)) /\ ~DeleteCommit
  BY <1>3, OtherSteps
<1> QED BY <1>1, <1>2, <1>3

\* The holder's picture of the file: storing a page keeps it, taking a claim away
\* ends it, and no other step touches it.
LEMMA HolderStep == OcrInv /\ [Next]_vars => HolderKnowsPages'
<1> SUFFICES ASSUME OcrInv, [Next]_vars,
                    NEW v \in Workers,
                    wpc'[v] = "reading", state' = "running", owner' = wtok'[v]
             PROVE  wread'[v] = pages' \cap wplan'[v]
  BY DEF HolderKnowsPages
<1> USE DEF OcrInv, TypeOK
<1>1. ClaimsDiffer'
  BY ClaimsStayDifferent
<1>2. ASSUME NEW w \in Workers, Claim(w) PROVE wread'[v] = pages' \cap wplan'[v]
  <2>1. v # w
    BY <1>2 DEF Claim
  <2>2. wtok'[v] <= attempts /\ owner' = attempts + 1
    BY <1>2, <2>1 DEF Claim, ClaimsDiffer
  <2> QED BY <2>2
<1>3. ASSUME NEW w \in Workers, PlanPages(w) PROVE wread'[v] = pages' \cap wplan'[v]
  <2>1. Planned \in SUBSET Pages
    BY DEF Planned
  <2>2. CASE v = w
    BY <1>3, <2>1, <2>2 DEF PlanPages
  <2>3. CASE v # w
    BY <1>3, <2>3 DEF PlanPages, HolderKnowsPages
  <2> QED BY <2>2, <2>3
<1>4. ASSUME NEW w \in Workers, StorePage(w) PROVE wread'[v] = pages' \cap wplan'[v]
  <2>1. PICK p \in Pages \ pages : /\ pages' = pages \cup {p}
                                   /\ wread' = [wread EXCEPT ![w] = @ \cup {p}]
                                   /\ p \in wplan[w]
    BY <1>4, StoreStep
  <2>2. wtok[v] = wtok[w] /\ wtok[w] # 0 /\ wpc[w] = "reading" /\ owner = wtok[w]
    BY <1>4 DEF StorePage, Holds, ClaimsDiffer, Working
  <2>3. v = w
    BY <2>2 DEF ClaimsDiffer
  <2>4. wread[w] = pages \cap wplan[w]
    BY <1>4, <2>2 DEF StorePage, Holds, HolderKnowsPages
  <2> QED BY <1>4, <2>1, <2>3, <2>4 DEF StorePage
<1>5. ASSUME NEW w \in Workers,
             LostClaim(w) \/ ReadFails(w) \/ PutPages(w) \/ RecordIndexed(w)
               \/ CheckStillThere(w) \/ Crash(w)
      PROVE  wread'[v] = pages' \cap wplan'[v]
  BY <1>5 DEF LostClaim, ReadFails, PutPages, RecordIndexed, CheckStillThere, Crash, Drop,
     claimVars, fileVars, HolderKnowsPages
<1>6. ASSUME NEW w \in Workers, FinishReading(w) \/ GiveUp(w) \/ CloseUnread(w) \/ Requeue(w)
      PROVE  state' # "running"
  BY <1>6 DEF FinishReading, GiveUp, CloseUnread, Requeue, FinishAndIndex, Finish
<1>7. CASE DeleteCommit
  BY <1>7 DEF DeleteCommit
<1>8. CASE UploadPut \/ UploadRecord \/ DeleteForget \/ DeleteCrashes \/ TimePasses
           \/ SetLimit \/ UNCHANGED vars
  BY <1>8 DEF UploadPut, UploadRecord, DeleteForget, DeleteCrashes, TimePasses, SetLimit,
     vars, claimVars, fileVars, workVars, HolderKnowsPages
<1> QED BY <1>2, <1>3, <1>4, <1>5, <1>6, <1>7, <1>8 DEF Next, WorkerStep

\* OcrInv holds throughout: the claims differ, the holder knows what is stored,
\* and a page is billed with its text, once (_hold, process).
THEOREM ReadingIsFenced == Spec => []OcrInv
<1>1. OcrInv /\ [Next]_vars => OcrInv'
  BY TypeStep, LockStep, ClaimsStayDifferent, HolderStep, BillingStep DEF OcrInv
<1> QED BY InitTyped, <1>1, PTL DEF Spec

\* No page is ever put on the ledger twice, whatever crashes, takeovers and
\* retries the file goes through.
THEOREM BilledOnce == Spec => []PagesAreBilledOnce
<1>1. OcrInv => PagesAreBilledOnce
  BY DEF OcrInv
<1> QED BY ReadingIsFenced, <1>1, PTL

\* A step of the detailed system is a step of PageReading or leaves it alone.
LEMMA RefinementStep == OcrInv /\ [Next]_vars => [Reading!Next]_(Reading!vars)
<1> SUFFICES ASSUME OcrInv, [Next]_vars PROVE [Reading!Next]_(Reading!vars)
  OBVIOUS
<1> USE DEF phase
<1>1. ASSUME NEW w \in Workers, StorePage(w) PROVE Reading!Next
  <2>1. PICK p \in Pages \ pages : /\ pages' = pages \cup {p}
                                   /\ billed' = [billed EXCEPT ![p] = @ + 1]
    BY <1>1, StoreStep
  <2>2. phase = "open" /\ phase' = "open"
    BY <1>1 DEF StorePage, Holds
  <2>3. Reading!ReadPage(p)
    BY <2>1, <2>2 DEF Reading!ReadPage
  <2> QED BY <2>3 DEF Reading!Next
<1>2. CASE DeleteCommit
  <2>1. state # "gone"
    BY <1>2 DEF DeleteCommit, OcrInv, LockedIsThere
  <2>2. Reading!Delete
    BY <1>2, <2>1 DEF DeleteCommit, Reading!Delete
  <2> QED BY <2>2 DEF Reading!Next
<1>3. ASSUME NEW w \in Workers, FinishReading(w) \/ GiveUp(w) \/ CloseUnread(w)
      PROVE  Reading!Next
  <2>1. state = "running" /\ state' \in {"done", "failed"}
    BY <1>3 DEF FinishReading, GiveUp, CloseUnread, FinishAndIndex, Finish, Holds
  <2>2. pages' = pages /\ billed' = billed
    BY <1>3 DEF FinishReading, GiveUp, CloseUnread, FinishAndIndex
  <2>3. Reading!Close
    BY <2>1, <2>2 DEF Reading!Close
  <2> QED BY <2>3 DEF Reading!Next
<1>4. ASSUME NEW w \in Workers,
             Claim(w) \/ LostClaim(w) \/ PlanPages(w) \/ ReadFails(w) \/ Requeue(w)
               \/ PutPages(w) \/ RecordIndexed(w) \/ CheckStillThere(w) \/ Crash(w)
      PROVE  UNCHANGED Reading!vars
  BY <1>4 DEF Claim, Claimable, LostClaim, PlanPages, ReadFails, Requeue, Holds, PutPages,
     RecordIndexed, CheckStillThere, Crash, claimVars, fileVars, Reading!vars
<1>5. CASE UploadPut \/ UploadRecord \/ DeleteForget \/ DeleteCrashes \/ TimePasses
           \/ SetLimit \/ UNCHANGED vars
  BY <1>5 DEF UploadPut, UploadRecord, DeleteForget, DeleteCrashes, TimePasses, SetLimit,
     vars, claimVars, fileVars, Reading!vars
<1> QED BY <1>1, <1>2, <1>3, <1>4, <1>5 DEF Next, WorkerStep

\* The workers, with their claims, leases and crashes, implement PageReading: each
\* page read and billed once, a closed file never opened again.
THEOREM ReadingImplemented == Spec => ReadingSpec
<1>1. Init => Reading!Init
  BY DEF Init, Reading!Init, phase
<1>2. OcrInv /\ [Next]_vars => [Reading!Next]_(Reading!vars)
  BY RefinementStep
<1> QED BY ReadingIsFenced, <1>1, <1>2, PTL DEF Spec, ReadingSpec, Reading!Spec

-----------------------------------------------------------------------------
(* Pages are stored from the first on, whoever stores them.                *)

\* Every plan is of the first pages, and the progress shown counts the first pages.
PrefixInv ==
  /\ \A w \in Workers : \A p \in wplan[w], q \in Pages : q <= p => q \in wplan[w]
  /\ done \in 0..N /\ pages = 1..done

LEMMA CountPages ==
  ASSUME NEW n \in 0..N
  PROVE  Cardinality(1..n) = n
<1>1. n \in Int /\ 1 \in Int
  BY OcrAssumption
<1>2. Cardinality(1..n) = IF 1 > n THEN 0 ELSE n - 1 + 1
  BY <1>1, FS_Interval
<1> QED BY <1>2, OcrAssumption

\* The page that is stored is the next one.
LEMMA NextPage ==
  ASSUME OcrInv, PrefixInv, NEW w \in Workers, StorePage(w)
  PROVE  done' = done + 1 /\ done' \in 0..N /\ pages' = 1..done'
<1>1. wread[w] = pages \cap wplan[w] /\ wplan[w] \in SUBSET Pages
  BY DEF StorePage, Holds, OcrInv, HolderKnowsPages, TypeOK
<1>2. PICK p \in wplan[w] \ wread[w] :
        /\ \A q \in wplan[w] \ wread[w] : p <= q
        /\ pages' = pages \cup {p}
        /\ done' = Cardinality(wread[w] \cup {p})
  BY DEF StorePage
<1>3. done \in 0..N /\ pages = 1..done /\ N \in Nat /\ p \in 1..N
  BY <1>1, OcrAssumption DEF PrefixInv, Pages
<1>4. p > done
  BY <1>1, <1>2, <1>3
<1>5. \A q \in 1..p : q \in wplan[w]
  BY <1>2, <1>3 DEF PrefixInv, Pages
<1>6. p = done + 1
  <2>1. done + 1 \in 1..p /\ done + 1 \notin pages
    BY <1>3, <1>4
  <2>2. done + 1 \in wplan[w] \ wread[w]
    BY <1>1, <1>5, <2>1
  <2> QED BY <1>2, <1>3, <1>4, <2>2
<1>7. wread[w] = pages
  BY <1>1, <1>3, <1>5, <1>6
<1>8. pages \cup {p} = 1..(done + 1)
  BY <1>3, <1>6
<1>9. Cardinality(1..(done + 1)) = done + 1
  BY <1>3, <1>6, CountPages
<1>10. done' = done + 1
  BY <1>2, <1>7, <1>8, <1>9
<1>11. done + 1 \in 0..N
  BY <1>3, <1>6
<1> QED BY <1>2, <1>8, <1>10, <1>11

\* Nothing but the deletion takes the progress back.
LEMMA OtherProgress ==
  ASSUME OcrInv, PrefixInv, [Next]_vars, ~(\E w \in Workers : StorePage(w)), ~DeleteCommit
  PROVE  done' = done
<1>1. Cardinality(pages) = done
  BY CountPages DEF PrefixInv
<1>2. ASSUME NEW w \in Workers, WorkerStep(w) \/ Crash(w) PROVE done' = done
  BY <1>1, <1>2 DEF WorkerStep, Claim, LostClaim, PlanPages, FinishReading, CloseUnread, ReadFails,
     GiveUp, Requeue, PutPages, RecordIndexed, CheckStillThere, Crash, FinishAndIndex, Finish,
     fileVars
<1>3. CASE UploadPut \/ UploadRecord \/ DeleteForget \/ DeleteCrashes \/ TimePasses
           \/ SetLimit \/ UNCHANGED vars
  BY <1>3 DEF UploadPut, UploadRecord, DeleteForget, DeleteCrashes, TimePasses, SetLimit,
     vars, fileVars
<1> QED BY <1>2, <1>3 DEF Next

LEMMA PlanStep == OcrInv /\ PrefixInv /\ [Next]_vars =>
  \A w \in Workers : wplan'[w] \in {wplan[w], {}, Planned}
<1> SUFFICES ASSUME OcrInv, [Next]_vars, NEW w \in Workers
             PROVE  wplan'[w] \in {wplan[w], {}, Planned}
  OBVIOUS
<1> USE DEF OcrInv, TypeOK
<1>1. ASSUME NEW v \in Workers, WorkerStep(v) \/ Crash(v)
      PROVE  wplan'[w] \in {wplan[w], {}, Planned}
  BY <1>1 DEF WorkerStep, Claim, LostClaim, PlanPages, StorePage, FinishReading, CloseUnread,
     ReadFails, GiveUp, Requeue, PutPages, RecordIndexed, CheckStillThere, Crash,
     FinishAndIndex, Drop
<1>2. CASE UploadPut \/ UploadRecord \/ DeleteForget \/ DeleteCommit \/ DeleteCrashes
           \/ TimePasses \/ SetLimit \/ UNCHANGED vars
  BY <1>2 DEF UploadPut, UploadRecord, DeleteForget, DeleteCommit, DeleteCrashes, TimePasses,
     SetLimit, vars, workVars
<1> QED BY <1>1, <1>2 DEF Next

LEMMA PrefixStep == OcrInv /\ PrefixInv /\ [Next]_vars => PrefixInv'
<1> SUFFICES ASSUME OcrInv, PrefixInv, [Next]_vars PROVE PrefixInv'
  OBVIOUS
<1>1. \A w \in Workers : \A p \in wplan'[w], q \in Pages : q <= p => q \in wplan'[w]
  <2> SUFFICES ASSUME NEW w \in Workers, NEW p \in wplan'[w], NEW q \in Pages, q <= p
               PROVE  q \in wplan'[w]
    OBVIOUS
  <2>1. CASE wplan'[w] = Planned
    <3>1. p \in Nat /\ q \in Nat /\ limit \in Nat /\ p <= limit
      BY <2>1, OcrAssumption DEF Planned, Pages, OcrInv, TypeOK
    <3> QED BY <2>1, <3>1 DEF Planned
  <2>2. CASE wplan'[w] = wplan[w]
    BY <2>2 DEF PrefixInv
  <2> QED BY <2>1, <2>2, PlanStep
<1>2. done' \in 0..N /\ pages' = 1..done'
  <2>1. CASE \E w \in Workers : StorePage(w)
    BY <2>1, NextPage
  <2>2. CASE DeleteCommit
    BY <2>2, OcrAssumption DEF DeleteCommit
  <2>3. CASE ~(\E w \in Workers : StorePage(w)) /\ ~DeleteCommit
    BY <2>3, OtherProgress, OtherSteps DEF PrefixInv
  <2> QED BY <2>1, <2>2, <2>3
<1> QED BY <1>1, <1>2 DEF PrefixInv

LEMMA PrefixHolds == Spec => []PrefixInv
<1>1. Init => PrefixInv
  BY OcrAssumption DEF Init, PrefixInv
<1> QED BY <1>1, PrefixStep, ReadingIsFenced, PTL DEF Spec

\* The progress a reader is shown never goes back while the file is there, over
\* takeovers, retries and changes of the page limit.
THEOREM ProgressHolds == Spec => ProgressNeverGoesBack
<1>1. ASSUME OcrInv, PrefixInv, [Next]_vars, state' # "gone" PROVE done' >= done
  <2>1. done \in Nat
    BY <1>1, OcrAssumption DEF PrefixInv
  <2>2. CASE \E w \in Workers : StorePage(w)
    BY <1>1, <2>1, <2>2, NextPage
  <2>3. CASE ~(\E w \in Workers : StorePage(w)) /\ ~DeleteCommit
    BY <1>1, <2>1, <2>3, OtherProgress
  <2>4. ~DeleteCommit
    BY <1>1 DEF DeleteCommit
  <2> QED BY <2>2, <2>3, <2>4
<1>2. OcrInv /\ PrefixInv /\ [Next]_vars => [state' # "gone" => done' >= done]_vars
  BY <1>1
<1> QED BY <1>2, ReadingIsFenced, PrefixHolds, PTL DEF Spec, ProgressNeverGoesBack

-----------------------------------------------------------------------------
(* The pages beyond the limit are counted.                                 *)

\* The total of a file that was planned is what its plan counts; a picture's,
\* as long as the limit stays.
TotalInv ==
  /\ limit \in Limits /\ total >= 1
  /\ (Picture => tunes = 0) =>
       /\ pages # {} => total = PlanTotal
       /\ \A w \in Workers : wpc[w] = "reading" => total = PlanTotal
       /\ Picture => pages \subseteq Planned /\ \A w \in Workers : wplan[w] \subseteq Planned

LEMMA TotalInit == Init => TotalInv
<1> SUFFICES ASSUME Init PROVE TotalInv
  OBVIOUS
<1>1. limit \in Limits /\ 1 \in Planned
  BY OcrAssumption DEF Init, Planned, Pages
<1>2. total >= 1
  <2>1. IsFiniteSet(Planned) /\ Cardinality(Planned) \in Nat
    BY PagesCount DEF Planned
  <2>2. Cardinality(Planned) # 0
    BY <1>1, <2>1, FS_EmptySet
  <2> QED BY <2>1, <2>2 DEF Init
<1> QED BY <1>1, <1>2 DEF Init, TotalInv

\* A step that plans nothing and stores nothing.
LEMMA TotalKept ==
  ASSUME OcrInv, TotalInv, UNCHANGED <<total, limit, tunes, form>>, pages' \in {pages, {}},
         \A w \in Workers : wpc'[w] = "reading" => wpc[w] = "reading",
         \A w \in Workers : wplan'[w] \in {wplan[w], {}}
  PROVE  TotalInv'
BY DEF TotalInv, PlanTotal, Planned, Picture

LEMMA TotalStep == OcrInv /\ TotalInv /\ [Next]_vars => TotalInv'
<1> SUFFICES ASSUME OcrInv, TotalInv, [Next]_vars PROVE TotalInv'
  OBVIOUS
<1> USE DEF OcrInv, TypeOK
<1>1. ASSUME NEW w \in Workers, PlanPages(w) PROVE TotalInv'
  <2>1. PlanTotal >= 1
    BY OcrAssumption DEF PlanTotal, Picture, TotalInv
  <2>2. /\ total' = PlanTotal /\ UNCHANGED <<limit, tunes, form, pages>>
        /\ wplan' = [wplan EXCEPT ![w] = Planned]
    BY <1>1 DEF PlanPages, envVars
  <2>3. PlanTotal' = PlanTotal /\ Planned' = Planned /\ Picture' = Picture
    BY <2>2 DEF PlanTotal, Planned, Picture
  <2> QED BY <2>1, <2>2, <2>3 DEF TotalInv
<1>2. ASSUME NEW w \in Workers, StorePage(w) PROVE TotalInv'
  <2>1. PICK p \in Pages \ pages : pages' = pages \cup {p} /\ p \in wplan[w]
    BY <1>2, StoreStep
  <2>2. wpc[w] = "reading" /\ UNCHANGED <<total, limit, tunes, form, wpc, wplan>>
    BY <1>2 DEF StorePage, envVars
  <2>3. PlanTotal' = PlanTotal /\ Planned' = Planned /\ Picture' = Picture
    BY <2>2 DEF PlanTotal, Planned, Picture
  <2> QED BY <2>1, <2>2, <2>3 DEF TotalInv
<1>3. CASE SetLimit
  <2>1. /\ limit' \in Limits /\ tunes' = tunes + 1
        /\ UNCHANGED <<total, form, pages, wpc, wplan>>
    BY <1>3 DEF SetLimit, fileVars, workVars
  <2>2. tunes' # 0 /\ Picture' = Picture
    BY <2>1 DEF Picture
  <2>3. ~Picture => PlanTotal' = PlanTotal
    BY <2>2 DEF PlanTotal
  <2> QED BY <2>1, <2>2, <2>3 DEF TotalInv
<1>4. ASSUME NEW w \in Workers,
             Claim(w) \/ LostClaim(w) \/ FinishReading(w) \/ CloseUnread(w) \/ ReadFails(w)
               \/ GiveUp(w) \/ Requeue(w) \/ PutPages(w) \/ RecordIndexed(w)
               \/ CheckStillThere(w) \/ Crash(w)
      PROVE  TotalInv'
  <2>1. UNCHANGED <<total, limit, tunes, form, pages>>
    BY <1>4 DEF Claim, LostClaim, FinishReading, CloseUnread, ReadFails, GiveUp, Requeue, PutPages,
       RecordIndexed, CheckStillThere, Crash, FinishAndIndex, fileVars, envVars
  <2>2. \A v \in Workers : wpc'[v] = "reading" => wpc[v] = "reading"
    BY <1>4 DEF Claim, LostClaim, FinishReading, CloseUnread, ReadFails, GiveUp, Requeue, PutPages,
       RecordIndexed, CheckStillThere, Crash, FinishAndIndex, Drop
  <2>3. \A v \in Workers : wplan'[v] \in {wplan[v], {}}
    BY <1>4 DEF Claim, LostClaim, FinishReading, CloseUnread, ReadFails, GiveUp, Requeue, PutPages,
       RecordIndexed, CheckStillThere, Crash, FinishAndIndex, Drop
  <2> QED BY <2>1, <2>2, <2>3, TotalKept
<1>5. CASE UploadPut \/ UploadRecord \/ DeleteForget \/ DeleteCommit \/ DeleteCrashes
           \/ TimePasses \/ UNCHANGED vars
  <2>1. UNCHANGED <<total, limit, tunes, form, wpc, wplan>> /\ pages' \in {pages, {}}
    BY <1>5 DEF UploadPut, UploadRecord, DeleteForget, DeleteCommit, DeleteCrashes, TimePasses,
       vars, fileVars, workVars, envVars
  <2> QED BY <2>1, TotalKept
<1> QED BY <1>1, <1>2, <1>3, <1>4, <1>5 DEF Next, WorkerStep

\* _finish, "ocr_done < ocr_total shows skipped pages": for any limits, plans and
\* takeovers, but for a picture whose limit changed.
THEOREM SkippedPagesAreShown == Spec => []SkippedPagesShow
<1>1. OcrInv /\ PrefixInv /\ TotalInv => SkippedPagesShow
  <2> SUFFICES ASSUME OcrInv, PrefixInv, TotalInv, pages # Pages, Picture => tunes = 0
               PROVE  done < total
    BY DEF SkippedPagesShow
  <2>1. done \in 0..N /\ pages = 1..done /\ done # N /\ N \in Nat
    BY OcrAssumption DEF PrefixInv, Pages
  <2>2. CASE done = 0
    BY <2>2 DEF TotalInv, OcrInv, TypeOK
  <2>3. CASE done # 0
    <3>1. done \in pages
      BY <2>1, <2>3
    <3>2. total = PlanTotal /\ (Picture => done <= limit) /\ limit \in Nat
      BY <3>1, OcrAssumption DEF TotalInv, Planned
    <3>3. done < N
      BY <2>1
    <3> QED BY <2>1, <3>2, <3>3 DEF PlanTotal
  <2> QED BY <2>2, <2>3
<1> QED BY <1>1, PrefixHolds, ReadingIsFenced, TotalInit, TotalStep, PTL DEF Spec

-----------------------------------------------------------------------------
(* The search entry and the deletion.                                      *)

\* While nobody has died: an entry of read pages whose last change went through and
\* that a deletion will not take along has a worker that will look whether the file
\* is still there.
EntryInv ==
  crashes = 0 /\ ~lapsed /\ index \notin {Nothing, {}} =>
    \/ state # "gone" /\ ~locked
    \/ \E w \in Workers : wpc[w] = "recording" \/ (state = "gone" /\ wpc[w] = "checking")

LEMMA EntryStep == OcrInv /\ EntryInv /\ [Next]_vars => EntryInv'
<1> SUFFICES ASSUME OcrInv, EntryInv, [Next]_vars, crashes' = 0, ~lapsed',
                    index' \notin {Nothing, {}}
             PROVE  \/ state' # "gone" /\ ~locked'
                    \/ \E w \in Workers : wpc'[w] = "recording"
                                            \/ (state' = "gone" /\ wpc'[w] = "checking")
  BY DEF EntryInv
<1> DEFINE Watched == \/ state' # "gone" /\ ~locked'
                      \/ \E w \in Workers : wpc'[w] = "recording"
                                              \/ (state' = "gone" /\ wpc'[w] = "checking")
<1> USE DEF OcrInv, TypeOK
<1>0. crashes \in Nat
  OBVIOUS
<1>1. ASSUME crashes = 0, index' = index, lapsed' = lapsed,
             state # "gone" /\ ~locked => state' # "gone" /\ ~locked',
             state = "gone" => state' = "gone",
             \A w \in Workers : /\ wpc[w] = "recording" => wpc'[w] = "recording"
                                /\ state = "gone" /\ wpc[w] = "checking" => wpc'[w] = "checking"
      PROVE  Watched
  BY <1>1 DEF EntryInv
<1>2. ASSUME NEW v \in Workers, PutPages(v) PROVE Watched
  <2>1. CASE index' = wtext[v] /\ wpc' = [wpc EXCEPT ![v] = "recording"]
    BY <2>1
  <2>2. CASE UNCHANGED <<index, lapsed>> /\ wpc' = [wpc EXCEPT ![v] = "checking"]
    BY <1>1, <1>2, <2>2 DEF PutPages, claimVars, envVars
  <2> QED BY <1>2, <2>1, <2>2 DEF PutPages
<1>3. ASSUME NEW v \in Workers, RecordIndexed(v) PROVE Watched
  BY <1>3 DEF RecordIndexed, claimVars
<1>4. ASSUME NEW v \in Workers, CheckStillThere(v) PROVE Watched
  <2>1. state # "gone" /\ index' = index /\ lapsed' = lapsed
    BY <1>4 DEF CheckStillThere, ForgetEntry
  <2>2. \A w \in Workers : wpc[w] = "recording" => wpc'[w] = "recording"
    BY <1>4 DEF CheckStillThere, Drop
  <2> QED BY <1>1, <1>4, <2>1, <2>2 DEF CheckStillThere, claimVars, envVars
<1>5. ASSUME NEW v \in Workers,
             Claim(v) \/ LostClaim(v) \/ PlanPages(v) \/ StorePage(v) \/ FinishReading(v)
               \/ CloseUnread(v) \/ ReadFails(v) \/ GiveUp(v) \/ Requeue(v)
      PROVE  Watched
  <2>1. UNCHANGED <<crashes, index, lapsed, locked>>
    BY <1>5 DEF Claim, LostClaim, PlanPages, StorePage, FinishReading, CloseUnread, ReadFails,
       GiveUp, Requeue, FinishAndIndex, indexVars, envVars
  <2>2. state' = "gone" <=> state = "gone"
    <3>1. ~DeleteCommit
      BY <2>1 DEF DeleteCommit
    <3>2. CASE StorePage(v)
      BY <3>2 DEF StorePage
    <3>3. CASE ~StorePage(v)
      BY <1>5, <3>3 DEF Claim, Claimable, LostClaim, PlanPages, FinishReading, CloseUnread, ReadFails,
         GiveUp, Requeue, FinishAndIndex, Finish, Holds, claimVars
    <3> QED BY <3>2, <3>3
  <2>3. \A w \in Workers : wpc[w] \in {"recording", "checking"} => wpc'[w] = wpc[w]
    BY <1>5 DEF Claim, LostClaim, PlanPages, StorePage, FinishReading, CloseUnread, ReadFails,
       GiveUp, LastAttempt, Requeue, FinishAndIndex, Drop
  <2> QED BY <1>1, <2>1, <2>2, <2>3
<1>6. ASSUME NEW v \in Workers, Crash(v) PROVE Watched
  BY <1>0, <1>6 DEF Crash
<1>7. CASE UploadPut \/ UploadRecord \/ TimePasses \/ SetLimit \/ UNCHANGED vars
  <2>1. UNCHANGED <<crashes, locked, wpc, index, lapsed>> /\ (state' = "gone" <=> state = "gone")
    BY <1>7 DEF UploadPut, UploadRecord, TimePasses, SetLimit, vars, claimVars, indexVars,
       workVars, envVars
  <2> QED BY <1>1, <2>1
<1>8. CASE DeleteForget
  BY <1>8 DEF DeleteForget, ForgetEntry
<1>9. CASE DeleteCommit
  <2>1. locked /\ UNCHANGED <<crashes, index, lapsed, wpc>> /\ state' = "gone"
    BY <1>9 DEF DeleteCommit, indexVars, workVars, envVars
  <2>2. state # "gone"
    BY <2>1 DEF LockedIsThere
  <2> QED BY <2>1, <2>2 DEF EntryInv
<1>10. CASE DeleteCrashes
  BY <1>0, <1>10 DEF DeleteCrashes
<1> QED BY <1>2, <1>3, <1>4, <1>5, <1>6, <1>7, <1>8, <1>9, <1>10 DEF Next, WorkerStep

\* delete_file, "concurrent page reader is seen here or sees the row gone": no entry
\* of read pages outlives its file, unless somebody died on the way or the index
\* reported its last change as failed.
THEOREM NoEntryIsLeft == Spec => []NoEntryOutlivesItsFile
<1>1. Init => EntryInv
  BY DEF Init, EntryInv
<1>2. EntryInv => NoEntryOutlivesItsFile
  BY DEF EntryInv, NoEntryOutlivesItsFile
<1> QED BY <1>1, <1>2, EntryStep, ReadingIsFenced, PTL DEF Spec

=============================================================================
