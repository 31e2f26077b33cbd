--------------------------- MODULE CreditsProofs ---------------------------
(***************************************************************************)
(* The balance of an account follows its ledger, and the import of API key *)
(* calls leaves none behind that no pass passed over for another key's:    *)
(* for any number of requests, calls, keys, months and failures.           *)
(***************************************************************************)
EXTENDS Credits, FiniteSetTheorems, TLAPS

\* A month is never before its ticks' number allows, and time does not go back.
LEMMA MonthGrows ==
  ASSUME NEW t \in 0 .. MaxTime
  PROVE  /\ Month(t) \in Months
         /\ Month(t) * MonthLength <= t
         /\ Month(t) <= Month(t + 1)
BY CreditAssumption, SMTT(20) DEF Month, Months

\* The calls a pass charges for can be counted.
LEMMA PassIsFinite == \A S \in SUBSET Calls : Cardinality(S) \in Nat
BY CreditAssumption, FS_Subset, FS_CardinalityType

LEMMA InitOK == Init => CreditInv
<1> SUFFICES ASSUME Init PROVE CreditInv
  OBVIOUS
<1>1. Month(0) \in Nat /\ 0 \in Months
  BY CreditAssumption, MonthGrows DEF Months
<1>2. TypeOK
  BY <1>1, CreditAssumption DEF Init, TypeOK, Idle, Off, NotMade, Never
<1>3. EarlyRowsWait /\ BalanceFollowsLedger /\ RefillSeesRow /\ OneRefillACycle /\ resets <= Month(now) + 1
  BY <1>1 DEF Init, EarlyRowsWait, BalanceFollowsLedger, RefillSeesRow, OneRefillACycle, Idle, Months
<1> QED BY <1>2, <1>3 DEF CreditInv

\* n charges dated in month m, put on the ledger and on the balance.
LEMMA BookKeeps ==
  ASSUME CreditInv, NEW m \in Months, NEW n \in Nat, Book(m, n), used' = used + n,
         resets' = resets, refills' = refills, now' = now,
         overlapped' = IF m < resets - 1 THEN overlapped \cup {"import"} ELSE overlapped,
         \A r \in Requests : req'[r].pc \in {"refilling", "sweeping"} => req'[r] = req[r]
  PROVE  /\ EarlyRowsWait' /\ BalanceFollowsLedger' /\ RefillSeesRow' /\ OneRefillACycle'
         /\ resets' <= Month(now') + 1
         /\ used' \in Nat /\ sinceDue' \in Nat
         /\ ledger' \in [Months -> Nat] /\ early' \in [Months -> Nat]
<1>1. /\ ledger' \in [Months -> Nat] /\ early' \in [Months -> Nat]
      /\ used' \in Nat /\ sinceDue' \in Nat
  BY DEF CreditInv, TypeOK, Book
<1>2. EarlyRowsWait'
  BY <1>1 DEF CreditInv, TypeOK, Book, EarlyRowsWait
<1>3. BalanceFollowsLedger'
  <2> SUFFICES ASSUME overlapped' = {}
               PROVE  used' = (ledger'[resets - 1] - early'[resets - 1]) + sinceDue'
    BY DEF BalanceFollowsLedger
  <2>0. resets \in Nat \ {0} /\ m \in Nat /\ m <= MaxTime /\ sinceDue \in Nat /\ used \in Nat
        /\ ledger \in [Months -> Nat] /\ early \in [Months -> Nat]
    <3>1. m \in Nat /\ m <= MaxTime
      BY CreditAssumption DEF Months
    <3> QED BY <3>1 DEF CreditInv, TypeOK
  <2>1. ~(m < resets - 1) /\ overlapped = {}
    <3>1. overlapped \cup {"import"} # {}
      OBVIOUS
    <3> QED BY <3>1
  <2>2. used = (ledger[resets - 1] - early[resets - 1]) + sinceDue
    BY <2>1 DEF CreditInv, BalanceFollowsLedger
  <2>3. resets - 1 \in Months
    BY <2>0, <2>1, CreditAssumption DEF Months
  <2>4. CASE resets <= m
    BY <2>0, <2>2, <2>3, <2>4 DEF Book
  <2>5. CASE ~(resets <= m)
    <3>1. m = resets - 1
      BY <2>0, <2>1, <2>5
    <3> QED BY <2>0, <2>2, <2>3, <2>5, <3>1 DEF Book
  <2> QED BY <2>4, <2>5
<1>4. RefillSeesRow' /\ OneRefillACycle' /\ resets' <= Month(now') + 1
  BY DEF CreditInv, RefillSeesRow, OneRefillACycle, TypeOK
<1> QED BY <1>1, <1>2, <1>3, <1>4

\* A refill, of a cycle that was read as over.
LEMMA RefillKeeps ==
  ASSUME CreditInv, NEW r \in Requests, CommitRefill(r)
  PROVE  CreditInv'
<1>1. /\ req[r].used \in Nat /\ req[r].until \in Nat \ {0}
      /\ req[r].resets \in Months \ {0} /\ req[r].resets < req[r].until
      /\ req[r].until <= Month(now) + 1 /\ now' = now
  BY DEF CreditInv, TypeOK, RefillSeesRow, CommitRefill, Months
<1>2. req' \in [Requests -> [pc : {"idle", "refilling", "sweeping", "answering"},
                              used : Nat, resets : Nat, until : Nat]]
  <2> DEFINE RowSet == [pc : {"idle", "refilling", "sweeping", "answering"},
                        used : Nat, resets : Nat, until : Nat]
  <2>1. req \in [Requests -> RowSet]
    BY DEF CreditInv, TypeOK
  <2>2. Answering \in RowSet /\ Idle \in RowSet
    BY DEF Answering, Idle
  <2>3. \/ req' = [req EXCEPT ![r] = Answering]
        \/ req' = [req EXCEPT ![r] = Idle]
    BY <2>1 DEF CommitRefill
  <2> HIDE DEF RowSet
  <2>4. req' \in [Requests -> RowSet]
    BY <2>1, <2>2, <2>3
  <2> QED BY <2>4 DEF RowSet
<1>3. refills' \in [Months -> Nat]
  BY <1>1 DEF CreditInv, TypeOK, CommitRefill
<1>4. used' \in Nat /\ resets' \in Nat \ {0} /\ sinceDue' \in Nat
      /\ overlapped' \subseteq {"refill", "import"}
  BY <1>1 DEF CreditInv, TypeOK, CommitRefill
<1>5. TypeOK'
  BY <1>2, <1>3, <1>4 DEF CreditInv, TypeOK, CommitRefill, import
<1>6. "refill" \notin overlapped' =>
        resets = req[r].resets /\ used = req[r].used /\ "refill" \notin overlapped
  BY DEF CommitRefill
<1>7. EarlyRowsWait'
  BY <1>1, <1>6 DEF CreditInv, EarlyRowsWait, CommitRefill, TypeOK, Months
<1>8. BalanceFollowsLedger'
  <2> SUFFICES ASSUME overlapped' = {}
               PROVE  used' = (ledger'[resets' - 1] - early'[resets' - 1]) + sinceDue'
    BY DEF BalanceFollowsLedger
  <2>1. used' = 0 /\ sinceDue' = 0 /\ resets' = req[r].until /\ resets = req[r].resets
    BY <1>6 DEF CommitRefill
  <2>2. req[r].until - 1 \in Months /\ req[r].until - 1 >= resets
    <3>1. Month(now) \in Nat /\ Month(now) <= MaxTime
      BY MonthGrows, CreditAssumption DEF Months, CreditInv, TypeOK
    <3> QED BY <1>1, <2>1, <3>1, CreditAssumption DEF Months
  <2>3. early[req[r].until - 1] = ledger[req[r].until - 1]
    BY <1>6, <2>2 DEF CreditInv, EarlyRowsWait
  <2> QED BY <2>1, <2>2, <2>3 DEF CommitRefill, CreditInv, TypeOK
<1>9. RefillSeesRow'
  BY DEF CreditInv, RefillSeesRow, CommitRefill, Answering, Idle, TypeOK
<1>10. OneRefillACycle'
  BY <1>1, <1>6 DEF CreditInv, OneRefillACycle, CommitRefill, TypeOK, Months
<1>11. resets' <= Month(now') + 1
  BY <1>1 DEF CommitRefill
<1> QED BY <1>5, <1>7, <1>8, <1>9, <1>10, <1>11 DEF CreditInv

LEMMA CreditStep == CreditInv /\ [Next]_vars => CreditInv'
<1> SUFFICES ASSUME CreditInv, [Next]_vars PROVE CreditInv'
  OBVIOUS
<1>0. Month(now) \in Months /\ Month(now) <= Month(now + 1) /\ now \in 0 .. MaxTime
      /\ Month(now) \in Nat /\ now \in Nat /\ MaxTime \in Nat
  BY MonthGrows, CreditAssumption DEF CreditInv, TypeOK, Months
<1>1. CASE Tick
  <2>1. TypeOK'
    <3>1. now' \in 0 .. MaxTime
      BY <1>0, <1>1 DEF Tick
    <3> QED BY <1>1, <3>1 DEF CreditInv, TypeOK, Tick, row, import, history
  <2>2. Month(now') \in Months /\ Month(now') \in Nat /\ Month(now) <= Month(now')
    <3>1. now' \in 0 .. MaxTime /\ now' = now + 1
      BY <1>0, <1>1 DEF Tick
    <3> QED BY <1>0, <3>1, MonthGrows DEF Months
  <2>3. EarlyRowsWait' /\ BalanceFollowsLedger' /\ OneRefillACycle'
    BY <1>1 DEF CreditInv, Tick, row, history, EarlyRowsWait, BalanceFollowsLedger, OneRefillACycle
  <2>5. resets' <= Month(now') + 1
    BY <1>0, <1>1, <2>2 DEF CreditInv, TypeOK, Tick, row
  <2>4. RefillSeesRow'
    <3> SUFFICES ASSUME NEW q \in Requests, req[q].pc \in {"refilling", "sweeping"}
                 PROVE  /\ req[q].resets < req[q].until /\ req[q].until <= Month(now') + 1
                        /\ req[q].resets \in Months \ {0}
      BY <1>1 DEF RefillSeesRow, Tick
    <3>1. req[q].until \in Nat
      BY DEF CreditInv, TypeOK
    <3> QED BY <1>0, <2>2, <3>1 DEF CreditInv, RefillSeesRow
  <2> QED BY <2>1, <2>3, <2>4, <2>5 DEF CreditInv
<1>2. ASSUME UNCHANGED <<now, row, ledger, refills, req, history, charges>>,
             TypeOK'
      PROVE  CreditInv'
  BY <1>2 DEF CreditInv, row, history, EarlyRowsWait, BalanceFollowsLedger, RefillSeesRow, OneRefillACycle
<1>3. ASSUME NEW c \in Calls, CallApi(c) \/ LogCall(c) PROVE CreditInv'
  <2>1. TypeOK'
    <3>1. CASE CallApi(c)
      <4>1. callAt' \in [Calls -> Nat \cup {NotMade}]
        BY <1>0, <3>1 DEF CreditInv, TypeOK, CallApi
      <4> QED BY <3>1, <4>1 DEF CreditInv, TypeOK, CallApi, row, history
    <3>2. CASE LogCall(c)
      BY <3>2 DEF CreditInv, TypeOK, LogCall, row, history
    <3> QED BY <1>3, <3>1, <3>2
  <2> QED BY <1>2, <1>3, <2>1 DEF CallApi, LogCall
<1>4. ASSUME NEW r \in Requests, LoadIdentity(r) \/ LoadDue(r) \/ LoadOwner(r) \/ Leave(r)
      PROVE  CreditInv'
  <2>1. Held("refilling") \in [pc : {"refilling"}, used : Nat, resets : Nat, until : Nat]
        /\ Held("sweeping") \in [pc : {"sweeping"}, used : Nat, resets : Nat, until : Nat]
    <3>1. used \in Nat /\ resets \in Nat /\ Month(now) + 1 \in Nat
      BY <1>0 DEF CreditInv, TypeOK
    <3> QED BY <3>1 DEF Held
  <2>2. req' \in [Requests -> [pc : {"idle", "refilling", "sweeping", "answering"},
                                used : Nat, resets : Nat, until : Nat]]
    BY <1>4, <2>1 DEF CreditInv, TypeOK, LoadIdentity, LoadDue, LoadOwner, Leave, Answering, Idle
  <2>3. UNCHANGED <<now, row, ledger, refills, import, history, charges>>
    BY <1>4 DEF LoadIdentity, LoadDue, LoadOwner, Leave
  <2>4. TypeOK'
    BY <2>2, <2>3 DEF CreditInv, TypeOK, row, import, history
  <2>5. RefillSeesRow'
    <3> SUFFICES ASSUME NEW q \in Requests, req'[q].pc \in {"refilling", "sweeping"}
                 PROVE  /\ req'[q].resets < req'[q].until /\ req'[q].until <= Month(now) + 1
                        /\ req'[q].resets \in Months \ {0}
      BY <2>3 DEF RefillSeesRow
    <3>1. CASE req'[q] = req[q]
      BY <3>1 DEF CreditInv, RefillSeesRow
    <3>2. CASE req'[q] # req[q]
      <4>1. q = r /\ Due /\ (req'[q] = Held("refilling") \/ req'[q] = Held("sweeping"))
        BY <1>4, <3>2 DEF LoadIdentity, LoadDue, LoadOwner, Leave, CreditInv, TypeOK, Answering, Idle
      <4>2. resets \in Nat \ {0} /\ resets <= Month(now)
        BY <4>1 DEF Due, CreditInv, TypeOK
      <4>3. req'[q].resets = resets /\ req'[q].until = Month(now) + 1
        BY <4>1 DEF Held
      <4> QED BY <4>2, <4>3, <1>0 DEF Months
    <3> QED BY <3>1, <3>2
  <2> QED BY <2>3, <2>4, <2>5 DEF CreditInv, row, history, EarlyRowsWait, BalanceFollowsLedger, OneRefillACycle
<1>5. ASSUME NEW r \in Requests, CommitRefill(r) PROVE CreditInv'
  BY <1>5, RefillKeeps
<1>6. ASSUME NEW r \in Requests, Settle(r) PROVE CreditInv'
  <2>1. overlapped' = IF Month(now) < resets - 1 THEN overlapped \cup {"import"} ELSE overlapped
    BY <1>0, <1>6 DEF Settle, CreditInv, TypeOK, Months
  <2>2. \A q \in Requests : req'[q].pc \in {"refilling", "sweeping"} => req'[q] = req[q]
    BY <1>6 DEF Settle, CreditInv, TypeOK, Idle
  <2>3. /\ EarlyRowsWait' /\ BalanceFollowsLedger' /\ RefillSeesRow' /\ OneRefillACycle'
        /\ resets' <= Month(now') + 1 /\ used' \in Nat /\ sinceDue' \in Nat
        /\ ledger' \in [Months -> Nat] /\ early' \in [Months -> Nat]
    BY <1>0, <1>6, <2>1, <2>2, BookKeeps DEF Settle
  <2>4. req' \in [Requests -> [pc : {"idle", "refilling", "sweeping", "answering"},
                                used : Nat, resets : Nat, until : Nat]]
    BY <1>6 DEF Settle, CreditInv, TypeOK, Idle
  <2>5. TypeOK'
    BY <1>6, <2>3, <2>4 DEF CreditInv, TypeOK, Settle, import
  <2> QED BY <2>3, <2>5 DEF CreditInv
<1>7. CASE BeginPass \/ AbandonPass \/ \E got \in SUBSET Wanted : ReadLogs(got)
  <2>1. UNCHANGED <<now, row, ledger, refills, req, callAt, logged, billed, since, history, charges>>
    BY <1>7 DEF BeginPass, AbandonPass, ReadLogs
  <2>2. pass' \in [pc : {"off", "reading", "read"}, window : SUBSET Nat, end : Nat,
                   cycle : Months, fresh : SUBSET Calls]
    <3>1. CASE BeginPass
      <4> DEFINE W == {t \in 0 .. now - 1 : InReach(t)}
      <4>1. W \in SUBSET Nat
        BY <1>0
      <4> HIDE DEF W
      <4>2. pass' = [pc |-> "reading", window |-> W, end |-> now, cycle |-> Month(now), fresh |-> {}]
        BY <3>1 DEF BeginPass, W
      <4> QED BY <1>0, <4>1, <4>2
    <3>2. CASE AbandonPass
      <4>1. Off \in [pc : {"off"}, window : SUBSET Nat, end : Nat, cycle : Months, fresh : SUBSET Calls]
        BY CreditAssumption DEF Off, Months
      <4> QED BY <3>2, <4>1 DEF AbandonPass
    <3>3. ASSUME NEW got \in SUBSET Wanted, ReadLogs(got)
          PROVE  pass' \in [pc : {"off", "reading", "read"}, window : SUBSET Nat, end : Nat,
                            cycle : Months, fresh : SUBSET Calls]
      <4>1. got \ billed \in SUBSET Calls
        BY DEF CreditInv, TypeOK, Wanted
      <4>2. pass' = [pass EXCEPT !.pc = "read", !.fresh = got \ billed]
        BY <3>3 DEF ReadLogs
      <4> QED BY <4>1, <4>2 DEF CreditInv, TypeOK
    <3> QED BY <1>7, <3>1, <3>2, <3>3
  <2>3. missed' \subseteq Calls /\ failures' \in Nat
    <3>1. ASSUME NEW got \in SUBSET Wanted, ReadLogs(got)
          PROVE  missed' \subseteq Calls /\ failures' \in Nat
      <4>1. failures' \in Nat
        BY <3>1 DEF ReadLogs, CreditInv, TypeOK
      <4>2. Wanted \subseteq Calls
        BY DEF Wanted, CreditInv, TypeOK
      <4> QED BY <3>1, <4>1, <4>2 DEF ReadLogs, CreditInv, TypeOK
    <3> QED BY <1>7, <3>1 DEF BeginPass, AbandonPass, CreditInv, TypeOK
  <2>4. TypeOK'
    BY <2>1, <2>2, <2>3 DEF CreditInv, TypeOK, row, history
  <2> QED BY <1>2, <2>1, <2>4
<1>8. CASE CommitPass
  <2> DEFINE current == {c \in pass.fresh : callAt[c] >= pass.cycle * MonthLength}
  <2>1. Cardinality(current) \in Nat /\ pass.cycle \in Months
    <3>1. current \in SUBSET Calls
      BY DEF CreditInv, TypeOK
    <3> QED BY <3>1, PassIsFinite DEF CreditInv, TypeOK
  <2> HIDE DEF current
  <2>2. /\ Book(pass.cycle, Cardinality(current)) /\ used' = used + Cardinality(current)
        /\ overlapped' = IF pass.cycle < resets - 1 THEN overlapped \cup {"import"} ELSE overlapped
    BY <1>8 DEF CommitPass, current
  <2>3. /\ EarlyRowsWait' /\ BalanceFollowsLedger' /\ RefillSeesRow' /\ OneRefillACycle'
        /\ resets' <= Month(now') + 1 /\ used' \in Nat /\ sinceDue' \in Nat
        /\ ledger' \in [Months -> Nat] /\ early' \in [Months -> Nat]
    <3>1. resets' = resets /\ refills' = refills /\ now' = now /\ req' = req
      BY <1>8 DEF CommitPass
    <3> QED BY <2>1, <2>2, <3>1, BookKeeps
  <2>4. since' \in Nat
    <3>1. pass.cycle * MonthLength \in Nat
      BY <2>1, CreditAssumption DEF Months
    <3> QED BY <1>8, <3>1 DEF CommitPass, CreditInv, TypeOK
  <2>5. overlapped' \subseteq {"refill", "import"} /\ billed' \subseteq Calls
    <3>1. overlapped \subseteq {"refill", "import"}
      BY DEF CreditInv, TypeOK
    <3>2. overlapped' \subseteq {"refill", "import"}
      BY <2>2, <3>1
    <3>3. billed' = billed \cup pass.fresh
      BY <1>8 DEF CommitPass
    <3> QED BY <3>2, <3>3 DEF CreditInv, TypeOK
  <2>6. TypeOK'
    <3>1. Off \in [pc : {"off"}, window : SUBSET Nat, end : Nat, cycle : Months, fresh : SUBSET Calls]
      BY CreditAssumption DEF Off, Months
    <3> QED BY <1>8, <2>3, <2>4, <2>5, <3>1 DEF CreditInv, TypeOK, CommitPass
  <2> QED BY <2>3, <2>6 DEF CreditInv
<1>9. CASE UNCHANGED vars
  <2>1. TypeOK'
    BY <1>9 DEF CreditInv, TypeOK, vars, row, import, history
  <2> QED BY <1>2, <1>9, <2>1 DEF vars
<1> QED BY <1>1, <1>3, <1>4, <1>5, <1>6, <1>7, <1>8, <1>9 DEF Next

\* Between refills nothing is lost from the balance or charged to it twice: the
\* atomic increments and the read-then-write of a refill, unless they overlap.
THEOREM BalanceHolds == Spec => []CreditInv
<1>1. Init => CreditInv
  BY InitOK
<1>2. CreditInv /\ [Next]_vars => CreditInv'
  BY CreditStep
<1> QED BY <1>1, <1>2, PTL DEF Spec

-----------------------------------------------------------------------------
\* The calls, the spend log and the ledger rows of the calls.
CallsAreLogged ==
  /\ \A c \in Calls : callAt[c] # NotMade => callAt[c] <= now
  /\ \A c \in Calls \ logged : callAt[c] # NotMade => now <= callAt[c] + Overlap + 1
  /\ \A c \in logged : callAt[c] # NotMade
  /\ billed \subseteq logged
  /\ billed = {} <=> since = Never

\* What a pass knows: its window, and that what it leaves of it was made lately, or
\* not before what it takes, or is noted as missed.
PassSeesWindow ==
  pass.pc # "off" =>
    /\ pass.end <= now /\ pass.cycle * MonthLength <= now
    /\ pass.window \subseteq 0 .. pass.end - 1
    /\ \A t \in 0 .. pass.end - 1 :
         (IF billed = {} THEN pass.cycle * MonthLength <= t
                         ELSE \A b \in billed : callAt[b] - Overlap <= t) => t \in pass.window
    /\ pass.pc = "read" =>
         /\ \A c \in pass.fresh : c \in logged /\ callAt[c] \in pass.window
         /\ \A c \in Calls \ (billed \cup pass.fresh \cup missed) :
              callAt[c] \in pass.window =>
                \/ pass.end <= callAt[c] + Overlap + 1
                \/ \A d \in pass.fresh : callAt[d] <= callAt[c]

ImportInv == TypeOK /\ CallsAreLogged /\ PassSeesWindow /\ CallsStayInReach

LEMMA ImportInit == Init => ImportInv
<1> SUFFICES ASSUME Init PROVE ImportInv
  OBVIOUS
<1>1. TypeOK
  BY InitOK DEF CreditInv
<1> QED BY <1>1, CreditAssumption DEF Init, ImportInv, CallsAreLogged, PassSeesWindow,
           CallsStayInReach, Off, NotMade, Never

\* The last of a pass: what it leaves behind was made after what it takes.
LEMMA CommitKeepsUp ==
  ASSUME ImportInv, TypeOK', CommitPass
  PROVE  ImportInv'
<1>1. /\ pass.pc = "read" /\ billed' = billed \cup pass.fresh
      /\ UNCHANGED <<now, callAt, logged, missed>> /\ pass'.pc = "off"
      /\ since' = IF since = Never /\ pass.fresh # {} THEN pass.cycle * MonthLength ELSE since
  BY DEF CommitPass, Off
<1>2. /\ now \in Nat /\ now <= MaxTime /\ MaxTime \in Nat /\ Overlap \in Nat /\ since \in Nat
      /\ callAt \in [Calls -> Nat \cup {NotMade}] /\ billed \subseteq Calls /\ logged \subseteq Calls
      /\ pass.end \in Nat /\ pass.fresh \subseteq Calls
  BY CreditAssumption DEF ImportInv, TypeOK
<1>3. /\ pass.end <= now /\ pass.cycle * MonthLength <= now
      /\ pass.window \subseteq 0 .. pass.end - 1
      /\ \A c \in pass.fresh : c \in logged /\ callAt[c] \in pass.window
  BY <1>1 DEF ImportInv, PassSeesWindow
<1>4. pass.cycle * MonthLength \in Nat
  <2>1. pass.cycle \in Nat
    BY CreditAssumption DEF ImportInv, TypeOK, Months
  <2> QED BY <2>1, CreditAssumption
<1>5. CallsAreLogged'
  <2>1. billed' = {} <=> since' = Never
    BY <1>1, <1>2, <1>3, <1>4 DEF ImportInv, CallsAreLogged, Never
  <2> QED BY <1>1, <1>3, <2>1 DEF ImportInv, CallsAreLogged
<1>6. PassSeesWindow'
  BY <1>1 DEF PassSeesWindow
<1>7. CallsStayInReach'
  <2> SUFFICES ASSUME NEW c \in Calls \ (billed' \cup missed), callAt[c] # NotMade,
                      callAt[c] >= since', NEW b \in billed'
               PROVE  callAt[b] - Overlap <= callAt[c]
    <3>1. (billed' = {} => since' = Never) /\ \A c \in Calls : callAt[c] \in Nat => callAt[c] < Never
      <4>1. billed' = {} => since' = Never
        BY <1>5 DEF CallsAreLogged
      <4>2. \A k \in Calls : callAt[k] \in Nat => callAt[k] <= now
        BY DEF ImportInv, CallsAreLogged, NotMade
      <4> QED BY <1>2, <4>1, <4>2 DEF Never
    <3> QED BY <1>1, <1>2, <3>1 DEF CallsStayInReach, InReach, NotMade
  <2>1. callAt[c] \in Nat /\ callAt[b] \in Nat
    BY <1>1, <1>2, <1>3 DEF ImportInv, CallsAreLogged
  <2>2. CASE b \in billed
    <3>1. since' = since /\ billed # {}
      BY <1>1, <2>2 DEF ImportInv, CallsAreLogged
    <3> QED BY <1>1, <2>2, <3>1 DEF ImportInv, CallsStayInReach, InReach
  <2>3. CASE b \in pass.fresh
    <3>1. callAt[b] < pass.end
      BY <1>2, <1>3, <2>1, <2>3
    <3>2. CASE callAt[c] \in pass.window
      <4>1. pass.end <= callAt[c] + Overlap + 1 \/ callAt[b] <= callAt[c]
        BY <1>1, <2>3, <3>2 DEF ImportInv, PassSeesWindow
      <4> QED BY <1>2, <2>1, <3>1, <4>1
    <3>3. CASE callAt[c] >= pass.end
      BY <1>2, <2>1, <3>1, <3>3
    <3>4. CASE callAt[c] < pass.end /\ callAt[c] \notin pass.window
      <4>1. callAt[c] \in 0 .. pass.end - 1
        BY <1>2, <2>1, <3>4
      <4>2. CASE billed = {}
        <5>1. since' = pass.cycle * MonthLength
          BY <1>1, <2>3, <4>2 DEF ImportInv, CallsAreLogged
        <5> QED BY <1>1, <3>4, <4>1, <4>2, <5>1, <1>4, <2>1 DEF ImportInv, PassSeesWindow
      <4>3. CASE billed # {}
        <5>1. since' = since
          BY <1>1, <4>3 DEF ImportInv, CallsAreLogged
        <5>2. \A d \in billed : callAt[d] - Overlap <= callAt[c]
          BY <1>1, <4>3, <5>1 DEF ImportInv, CallsStayInReach, InReach
        <5> QED BY <1>1, <3>4, <4>1, <4>3, <5>2 DEF ImportInv, PassSeesWindow
      <4> QED BY <4>2, <4>3
    <3> QED BY <1>2, <2>1, <3>2, <3>3, <3>4
  <2> QED BY <1>1, <2>2, <2>3
<1> QED BY <1>5, <1>6, <1>7 DEF ImportInv

LEMMA ImportStep == ImportInv /\ TypeOK' /\ [Next]_vars => ImportInv'
<1> SUFFICES ASSUME ImportInv, TypeOK', [Next]_vars PROVE ImportInv'
  OBVIOUS
<1>0. /\ now \in Nat /\ now <= MaxTime /\ MaxTime \in Nat /\ Overlap \in Nat /\ since \in Nat
      /\ callAt \in [Calls -> Nat \cup {NotMade}] /\ billed \subseteq Calls /\ logged \subseteq Calls
      /\ pass.end \in Nat /\ pass.cycle * MonthLength \in Nat
      /\ pass.pc \in {"off", "reading", "read"}
  <2>1. pass.cycle \in Nat
    BY CreditAssumption DEF ImportInv, TypeOK, Months
  <2>2. pass.cycle * MonthLength \in Nat
    BY <2>1, CreditAssumption
  <2> QED BY <2>2, CreditAssumption DEF ImportInv, TypeOK
<1>1. ASSUME UNCHANGED <<callAt, logged, billed, pass, missed, since>>, now' = now
      PROVE  ImportInv'
  BY <1>1 DEF ImportInv, CallsAreLogged, PassSeesWindow, CallsStayInReach, InReach
<1>2. CASE Tick
  <2>1. UNCHANGED <<callAt, logged, billed, pass, missed, since>> /\ now' = now + 1
    BY <1>2 DEF Tick, import
  <2>2. CallsAreLogged'
    BY <1>0, <1>2, <2>1 DEF Tick, ImportInv, CallsAreLogged
  <2>3. PassSeesWindow'
    BY <1>0, <2>1 DEF ImportInv, PassSeesWindow
  <2>4. CallsStayInReach'
    BY <1>0, <2>1 DEF ImportInv, CallsAreLogged, CallsStayInReach, InReach, Never
  <2> QED BY <2>2, <2>3, <2>4 DEF ImportInv
<1>3. ASSUME NEW c \in Calls, CallApi(c) PROVE ImportInv'
  <2>1. /\ UNCHANGED <<now, logged, billed, pass, missed, since>>
        /\ callAt' = [callAt EXCEPT ![c] = now] /\ callAt[c] = NotMade
    BY <1>3 DEF CallApi
  <2>2. c \notin logged /\ c \notin billed /\ callAt'[c] = now
    BY <1>0, <2>1 DEF ImportInv, CallsAreLogged
  <2>3. CallsAreLogged'
    BY <1>0, <2>1, <2>2 DEF ImportInv, CallsAreLogged, NotMade
  <2>4. \A d \in billed : callAt'[d] = callAt[d]
    BY <1>0, <2>1, <2>2
  <2>5. PassSeesWindow'
    <3> SUFFICES ASSUME pass.pc # "off" PROVE PassSeesWindow'
      BY <2>1 DEF PassSeesWindow
    <3>1. pass.window \subseteq 0 .. pass.end - 1 /\ pass.end <= now
      BY DEF ImportInv, PassSeesWindow
    <3>2. now \notin pass.window
      BY <1>0, <3>1
    <3>3. pass.pc = "read" => c \notin pass.fresh
      BY <2>2 DEF ImportInv, PassSeesWindow
    <3>4. \A d \in Calls : d # c => callAt'[d] = callAt[d]
      BY <1>0, <2>1
    <3>5. pass.fresh \subseteq Calls
      BY DEF ImportInv, TypeOK
    <3>6. ASSUME pass.pc = "read"
          PROVE  /\ \A d \in pass.fresh : d \in logged /\ callAt'[d] \in pass.window
                 /\ \A d \in Calls \ (billed \cup pass.fresh \cup missed) :
                      callAt'[d] \in pass.window =>
                        \/ pass.end <= callAt'[d] + Overlap + 1
                        \/ \A e \in pass.fresh : callAt'[e] <= callAt'[d]
      <4>1. \A e \in pass.fresh : callAt'[e] = callAt[e]
        BY <3>3, <3>4, <3>5, <3>6
      <4> QED BY <2>2, <3>2, <3>4, <3>6, <4>1 DEF ImportInv, PassSeesWindow
    <3>7. \A t \in 0 .. pass.end - 1 :
            (IF billed = {} THEN pass.cycle * MonthLength <= t
                            ELSE \A b \in billed : callAt'[b] - Overlap <= t) => t \in pass.window
      BY <2>4 DEF ImportInv, PassSeesWindow
    <3>8. pass.cycle * MonthLength <= now
      BY DEF ImportInv, PassSeesWindow
    <3> QED BY <2>1, <3>1, <3>6, <3>7, <3>8 DEF PassSeesWindow
  <2>6. CallsStayInReach'
    <3> SUFFICES ASSUME NEW d \in Calls \ (billed \cup missed), callAt'[d] # NotMade,
                        callAt'[d] >= since
                 PROVE  billed # {} /\ \A b \in billed : callAt'[b] - Overlap <= callAt'[d]
      BY <2>1 DEF CallsStayInReach, InReach
    <3>1. billed # {}
      BY <1>0, <2>1 DEF ImportInv, CallsAreLogged, Never
    <3>2. CASE d = c
      <4>1. \A b \in billed : callAt[b] \in Nat /\ callAt[b] <= now
        BY <1>0 DEF ImportInv, CallsAreLogged
      <4> QED BY <1>0, <2>1, <2>2, <2>4, <3>1, <3>2, <4>1 DEF InReach
    <3>3. CASE d # c
      <4>1. callAt'[d] = callAt[d]
        BY <1>0, <2>1, <3>3
      <4>2. \A b \in billed : callAt[b] - Overlap <= callAt[d]
        BY <3>1, <4>1 DEF ImportInv, CallsStayInReach, InReach
      <4> QED BY <2>1, <2>4, <3>1, <4>1, <4>2 DEF InReach
    <3> QED BY <3>2, <3>3
  <2> QED BY <2>3, <2>5, <2>6 DEF ImportInv
<1>4. ASSUME NEW c \in Calls, LogCall(c) PROVE ImportInv'
  <2>1. /\ UNCHANGED <<now, callAt, billed, pass, missed, since>> /\ logged' = logged \cup {c}
        /\ callAt[c] # NotMade
    BY <1>4 DEF LogCall
  <2> QED BY <2>1 DEF ImportInv, CallsAreLogged, PassSeesWindow, CallsStayInReach, InReach
<1>5. ASSUME NEW r \in Requests,
             LoadIdentity(r) \/ LoadDue(r) \/ LoadOwner(r) \/ CommitRefill(r) \/ Leave(r) \/ Settle(r)
      PROVE  ImportInv'
  BY <1>1, <1>5 DEF LoadIdentity, LoadDue, LoadOwner, CommitRefill, Leave, Settle, import
<1>6. CASE BeginPass
  <2> DEFINE W == {t \in 0 .. now - 1 : InReach(t)}
  <2>1. /\ UNCHANGED <<now, callAt, logged, billed, missed, since>>
        /\ pass' = [pc |-> "reading", window |-> W, end |-> now, cycle |-> Month(now), fresh |-> {}]
    BY <1>6 DEF BeginPass
  <2>2. Month(now) * MonthLength <= now
    BY MonthGrows DEF ImportInv, TypeOK
  <2>3. PassSeesWindow'
    BY <1>0, <2>1, <2>2 DEF PassSeesWindow, InReach
  <2> QED BY <2>1, <2>3 DEF ImportInv, CallsAreLogged, CallsStayInReach, InReach
<1>7. CASE AbandonPass
  BY <1>7 DEF AbandonPass, Off, ImportInv, CallsAreLogged, PassSeesWindow, CallsStayInReach, InReach
<1>8. CASE CommitPass
  BY <1>8, CommitKeepsUp
<1>9. ASSUME NEW got \in SUBSET Wanted, ReadLogs(got) PROVE ImportInv'
  <2>1. /\ UNCHANGED <<now, callAt, logged, billed, since>> /\ missed \subseteq missed'
        /\ pass' = [pass EXCEPT !.pc = "read", !.fresh = got \ billed] /\ pass.pc = "reading"
    BY <1>9 DEF ReadLogs
  <2>2. /\ pass'.pc = "read" /\ pass'.fresh = got \ billed /\ pass'.end = pass.end
        /\ pass'.cycle = pass.cycle /\ pass'.window = pass.window
    BY <2>1 DEF ImportInv, TypeOK
  <2>3. /\ pass.end <= now /\ pass.window \subseteq 0 .. pass.end - 1
    BY <2>1 DEF ImportInv, PassSeesWindow
  <2>4. ASSUME NEW c \in Calls \ (billed \cup (got \ billed) \cup missed'), callAt[c] \in pass.window
        PROVE  \/ pass.end <= callAt[c] + Overlap + 1
               \/ \A d \in got \ billed : callAt[d] <= callAt[c]
    <3>1. callAt[c] \in Nat
      BY <1>0, <2>3, <2>4
    <3>2. CASE c \notin logged
      <4>1. now <= callAt[c] + Overlap + 1
        BY <3>1, <3>2 DEF ImportInv, CallsAreLogged, NotMade
      <4> QED BY <1>0, <2>3, <3>1, <4>1
    <3>3. CASE c \in logged
      <4>1. c \in Wanted \ (got \cup billed)
        BY <2>4, <3>3 DEF Wanted
      <4>2. \A d \in got : ~(KeyOf[d] # KeyOf[c] /\ callAt[d] > callAt[c])
        BY <1>9, <2>4, <4>1 DEF ReadLogs
      <4>3. \A d \in got : ~(KeyOf[d] = KeyOf[c] /\ callAt[c] < callAt[d])
        BY <1>9, <4>1 DEF ReadLogs, InOrder
      <4>4. ASSUME NEW d \in got PROVE callAt[d] <= callAt[c]
        <5>1. callAt[d] \in Nat
          BY <1>0, <2>3 DEF Wanted
        <5> QED BY <3>1, <4>2, <4>3, <5>1
      <4> QED BY <4>4
    <3> QED BY <3>2, <3>3
  <2>5. PassSeesWindow'
    <3>1. \A c \in pass'.fresh : c \in logged' /\ callAt'[c] \in pass'.window
      BY <2>1, <2>2 DEF Wanted
    <3> QED BY <2>1, <2>2, <2>4, <3>1 DEF ImportInv, PassSeesWindow
  <2>6. CallsAreLogged' /\ CallsStayInReach'
    BY <2>1 DEF ImportInv, CallsAreLogged, CallsStayInReach, InReach
  <2> QED BY <2>5, <2>6 DEF ImportInv
<1>10. CASE UNCHANGED vars
  BY <1>1, <1>10 DEF vars, import
<1> QED BY <1>2, <1>3, <1>4, <1>5, <1>6, <1>7, <1>8, <1>9, <1>10 DEF Next

\* The half hour that each pass reads again is enough for late rows, cut logs and
\* unreadable ones: a call falls out of the import only if a pass that left it out had
\* a newer call of another key.
THEOREM ImportKeepsUp == Spec => []CallsStayInReach
<1>1. Init => ImportInv
  BY ImportInit
<1>2. CreditInv => TypeOK
  BY DEF CreditInv
<1>3. ImportInv /\ TypeOK' /\ [Next]_vars => ImportInv'
  BY ImportStep
<1>4. ImportInv => CallsStayInReach
  BY DEF ImportInv
<1> QED BY <1>1, <1>2, <1>3, <1>4, BalanceHolds, PTL DEF Spec

=============================================================================
