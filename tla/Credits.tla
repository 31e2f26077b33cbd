------------------------------ MODULE Credits ------------------------------
(***************************************************************************)
(* The credits of one account (services/credits.py): the row with what was *)
(* used and when the cycle ends, the ledger, the refill that the first     *)
(* request after the cycle's end makes (core/deps.py), the charges, and    *)
(* the import of API key calls from the gateway's spend log                *)
(* (services/api_key_usage.py).                                            *)
(*                                                                         *)
(* A refill reads the row and writes the columns that differ when it       *)
(* commits; nothing locks the row in between.  A charge is one atomic      *)
(* increment beside its ledger row.                                        *)
(*                                                                         *)
(* A request's pc: "idle", "refilling" (the identity of a request was read *)
(* as due), "sweeping" (read by refill_due), "answering" (a turn or a job  *)
(* that will charge).  Every charge and every call costs one credit.       *)
(***************************************************************************)
EXTENDS Integers, FiniteSets

CONSTANTS
  Requests,     \* requests, turns and jobs that touch the account at a time
  Calls,        \* calls made with its API keys
  Keys, KeyOf,  \* the keys; the key of each call
  MonthLength,  \* ticks in a month
  Overlap,      \* _OVERLAP in ticks
  MaxTime, MaxCharges, MaxFailures   \* bounds: ticks, charges of turns, passes cut or abandoned

ASSUME CreditAssumption ==
  /\ MonthLength \in Nat \ {0} /\ Overlap \in Nat
  /\ MaxTime \in Nat /\ MaxCharges \in Nat /\ MaxFailures \in Nat
  /\ KeyOf \in [Calls -> Keys]
  /\ IsFiniteSet(Calls) /\ IsFiniteSet(Keys)

VARIABLES
  now,
  used, resets,             \* the row: credits_used, the month the cycle ends with
  ledger,                   \* charges on the ledger that belong to the balance, by month
  refills,                  \* "allowance.refill" rows, by the cycle end they answer
  req,                      \* of a request: pc and what it read
  callAt, logged, billed,   \* calls: when made, in the gateway's spend log, on the ledger
  pass,                     \* the import under way
  early, sinceDue,          \* history: charges of a month before its refill; since the cycle came due
  overlapped,               \* history: what a refill or an import met half way
  missed, since,            \* history: calls a pass passed over for another key's newer one;
                            \* start of the month whose pass found the first call
  charges, failures         \* bounded counters

row     == <<used, resets>>
history == <<early, sinceDue, overlapped>>
import  == <<callAt, logged, billed, pass, missed, since, failures>>
vars == <<now, row, ledger, refills, req, import, history, charges>>

Months == 0 .. MaxTime
Month(t) == t \div MonthLength
NotMade == -1
Never == MaxTime + 1
Off == [pc |-> "off", window |-> {}, end |-> 0, cycle |-> 0, fresh |-> {}]
Idle == [pc |-> "idle", used |-> 0, resets |-> 0, until |-> 0]
Answering == [Idle EXCEPT !.pc = "answering"]

Init ==
  /\ now = 0 /\ used = 0 /\ resets = 1
  /\ ledger = [m \in Months |-> 0] /\ refills = [m \in Months |-> 0]
  /\ req = [r \in Requests |-> Idle]
  /\ callAt = [c \in Calls |-> NotMade] /\ logged = {} /\ billed = {}
  /\ pass = Off
  /\ early = [m \in Months |-> 0] /\ sinceDue = 0 /\ overlapped = {}
  /\ missed = {} /\ since = Never
  /\ charges = 0 /\ failures = 0

-----------------------------------------------------------------------------
\* The gateway and time (external).

\* A call reaches the spend log within the overlap and the lag of one tick.
Tick ==
  /\ now < MaxTime
  /\ \A c \in Calls \ logged : callAt[c] = NotMade \/ now <= callAt[c] + Overlap
  /\ now' = now + 1
  /\ UNCHANGED <<row, ledger, refills, req, import, history, charges>>

CallApi(c) ==
  /\ callAt[c] = NotMade
  /\ callAt' = [callAt EXCEPT ![c] = now]
  /\ UNCHANGED <<now, row, ledger, refills, req, logged, billed, pass,
                 missed, since, failures, history, charges>>

LogCall(c) ==
  /\ callAt[c] # NotMade /\ c \notin logged
  /\ logged' = logged \cup {c}
  /\ UNCHANGED <<now, row, ledger, refills, req, callAt, billed, pass,
                 missed, since, failures, history, charges>>

-----------------------------------------------------------------------------
\* core/deps.py current_identity, credits.refill_due

Due == resets <= Month(now)

\* The row a request holds that will refill, decided at once by the clock of now.
Held(pc) == [pc |-> pc, used |-> used, resets |-> resets, until |-> Month(now) + 1]

\* current_identity: db.get and refill_if_due
LoadIdentity(r) ==
  /\ req[r].pc = "idle"
  /\ req' = [req EXCEPT ![r] = IF Due THEN Held("refilling") ELSE Answering]
  /\ UNCHANGED <<now, row, ledger, refills, import, history, charges>>

\* refill_due: the accounts whose cycle is over
LoadDue(r) ==
  /\ req[r].pc = "idle" /\ Due
  /\ req' = [req EXCEPT ![r] = Held("sweeping")]
  /\ UNCHANGED <<now, row, ledger, refills, import, history, charges>>

\* A published bot's turn or a job's loop reads its owner without a refill.
LoadOwner(r) ==
  /\ req[r].pc = "idle"
  /\ req' = [req EXCEPT ![r] = Answering]
  /\ UNCHANGED <<now, row, ledger, refills, import, history, charges>>

\* Mutated: what is left of the old cycle is carried over.
CommitRefill_CarriesOver(r) ==
  /\ req[r].pc \in {"refilling", "sweeping"}
  /\ resets' = req[r].until
  /\ refills' = [refills EXCEPT ![req[r].resets] = @ + 1]
  /\ sinceDue' = 0
  /\ overlapped' = overlapped
       \cup (IF <<used, resets>> = <<req[r].used, req[r].resets>> THEN {} ELSE {"refill"})
  /\ req' = [req EXCEPT ![r] = IF @.pc = "refilling" THEN Answering ELSE Idle]
  /\ UNCHANGED <<now, used, ledger, import, early, charges>>

\* The commit of a refill: credits_used is written only if it was read as used.
CommitRefill(r) ==
  /\ req[r].pc \in {"refilling", "sweeping"}
  /\ used' = IF req[r].used # 0 THEN 0 ELSE used
  /\ resets' = req[r].until
  /\ refills' = [refills EXCEPT ![req[r].resets] = @ + 1]
  /\ sinceDue' = 0
  /\ overlapped' = overlapped
       \cup (IF <<used, resets>> = <<req[r].used, req[r].resets>> THEN {} ELSE {"refill"})
  /\ req' = [req EXCEPT ![r] = IF @.pc = "refilling" THEN Answering ELSE Idle]
  /\ UNCHANGED <<now, ledger, import, early, charges>>

\* A request that costs nothing.
Leave(r) ==
  /\ req[r].pc = "answering"
  /\ req' = [req EXCEPT ![r] = Idle]
  /\ UNCHANGED <<now, row, ledger, refills, import, history, charges>>

\* n charges dated in month m enter the ledger; they are early before m's refill.
Book(m, n) ==
  /\ ledger' = [ledger EXCEPT ![m] = @ + n]
  /\ IF resets <= m
     THEN early' = [early EXCEPT ![m] = @ + n] /\ sinceDue' = sinceDue + n
     ELSE UNCHANGED <<early, sinceDue>>

\* settle and _apply_credit_deltas, committed: the increment is the database's.
Settle(r) ==
  /\ req[r].pc = "answering" /\ charges < MaxCharges
  /\ used' = used + 1
  /\ Book(Month(now), 1)
  /\ charges' = charges + 1
  /\ req' = [req EXCEPT ![r] = Idle]
  /\ UNCHANGED <<now, resets, refills, import, overlapped>>

-----------------------------------------------------------------------------
\* services/api_key_usage.py sync: one pass at a time (the advisory lock).

\* Mutated: from the newest row on.
InReach_NoOverlap(t) ==
  IF billed = {} THEN Month(now) * MonthLength <= t ELSE \A c \in billed : callAt[c] <= t

\* What the next pass reads back to: the overlap before the newest row of any
\* key, or the month's start before there is one.
InReach(t) ==
  IF billed = {} THEN Month(now) * MonthLength <= t ELSE \A c \in billed : callAt[c] - Overlap <= t

\* The ticks from there on; the calls of this tick are left for the next pass (_LAG).
BeginPass ==
  LET window == {t \in 0 .. now - 1 : InReach(t)}
  IN /\ pass.pc = "off" /\ window # {}
     /\ pass' = [pc |-> "reading", window |-> window, end |-> now, cycle |-> Month(now), fresh |-> {}]
     /\ UNCHANGED <<now, row, ledger, refills, req, callAt, logged, billed,
                    missed, since, failures, history, charges>>

\* The calls a pass would read if every key's log were whole.
Wanted == {c \in logged : callAt[c] \in pass.window}

\* Mutated: the newest rows come first.
InOrder_NewestFirst(got) ==
  \A c \in got, d \in Wanted : KeyOf[d] = KeyOf[c] /\ callAt[d] > callAt[c] => d \in got

\* sort_order "asc": of each key a part of the log from its oldest row on
InOrder(got) ==
  \A c \in got, d \in Wanted : KeyOf[d] = KeyOf[c] /\ callAt[d] < callAt[c] => d \in got

\* spend_logs of every key: the pages up to _MAX_PAGES or up to a body without rows,
\* nothing of a key whose log cannot be read; what is on the ledger is dropped.
ReadLogs(got) ==
  /\ pass.pc = "reading" /\ InOrder(got)
  /\ got = Wanted \/ failures < MaxFailures
  /\ pass' = [pass EXCEPT !.pc = "read", !.fresh = got \ billed]
  /\ missed' = missed \cup {c \in Wanted \ (got \cup billed) :
                             \E d \in got : KeyOf[d] # KeyOf[c] /\ callAt[d] > callAt[c]}
  /\ failures' = IF got = Wanted THEN failures ELSE failures + 1
  /\ UNCHANGED <<now, row, ledger, refills, req, callAt, logged, billed,
                 since, history, charges>>

\* the process dies in a pass: nothing of it was committed
AbandonPass ==
  /\ pass.pc # "off" /\ failures < MaxFailures
  /\ pass' = Off /\ failures' = failures + 1
  /\ UNCHANGED <<now, row, ledger, refills, req, callAt, logged, billed,
                 missed, since, history, charges>>

\* The commit: a call of an earlier month goes on the ledger, not into the balance.
CommitPass ==
  LET current == {c \in pass.fresh : callAt[c] >= pass.cycle * MonthLength}
  IN /\ pass.pc = "read"
     /\ billed' = billed \cup pass.fresh
     /\ used' = used + Cardinality(current)
     /\ Book(pass.cycle, Cardinality(current))
     /\ overlapped' = overlapped \cup (IF pass.cycle < resets - 1 THEN {"import"} ELSE {})
     /\ since' = IF since = Never /\ pass.fresh # {} THEN pass.cycle * MonthLength ELSE since
     /\ pass' = Off
     /\ UNCHANGED <<now, resets, refills, req, callAt, logged,
                    missed, failures, charges>>

-----------------------------------------------------------------------------
Next ==
  \/ Tick
  \/ \E c \in Calls : CallApi(c) \/ LogCall(c)
  \/ \E r \in Requests : \/ LoadIdentity(r) \/ LoadDue(r) \/ LoadOwner(r)
                         \/ CommitRefill(r) \/ Leave(r) \/ Settle(r)
  \/ BeginPass \/ AbandonPass \/ CommitPass
  \/ \E got \in SUBSET Wanted : ReadLogs(got)

Spec == Init /\ [][Next]_vars

-----------------------------------------------------------------------------
TypeOK ==
  /\ now \in 0 .. MaxTime /\ charges \in Nat /\ failures \in Nat
  /\ used \in Nat /\ resets \in Nat \ {0}
  /\ ledger \in [Months -> Nat] /\ early \in [Months -> Nat] /\ refills \in [Months -> Nat]
  /\ sinceDue \in Nat /\ overlapped \subseteq {"refill", "import"}
  /\ req \in [Requests -> [pc : {"idle", "refilling", "sweeping", "answering"},
                           used : Nat, resets : Nat, until : Nat]]
  /\ callAt \in [Calls -> Nat \cup {NotMade}] /\ logged \subseteq Calls /\ billed \subseteq Calls
  /\ pass \in [pc : {"off", "reading", "read"}, window : SUBSET Nat, end : Nat,
               cycle : Months, fresh : SUBSET Calls]
  /\ missed \subseteq Calls /\ since \in Nat

\* Nobody charges a month ahead: what is dated in or after the month the cycle
\* ends with came before its refill.
EarlyRowsWait ==
  /\ \A m \in Months : early[m] <= ledger[m]
  /\ "refill" \notin overlapped =>
       \A m \in Months : m >= resets => early[m] = ledger[m]

\* "Credit settlement is an atomic SQL increment; two turns of one account
\* settling at once both land": as long as no refill and no import met another
\* write half way, the balance is what the ledger holds of the cycle, less what
\* a month's refill found charged already.
BalanceFollowsLedger ==
  overlapped = {} =>
    used = (ledger[resets - 1] - early[resets - 1]) + sinceDue

\* A request that is about to refill read a cycle that is over.
RefillSeesRow ==
  \A r \in Requests : req[r].pc \in {"refilling", "sweeping"} =>
    /\ req[r].resets < req[r].until /\ req[r].until <= Month(now) + 1
    /\ req[r].resets \in Months \ {0}

\* refill_if_due, "idempotent": a cycle's end is answered by one refill, unless
\* two requests read it as due before either wrote.
OneRefillACycle ==
  "refill" \notin overlapped =>
    \A m \in Months : refills[m] <= 1 /\ (m >= resets => refills[m] = 0)

CreditInv ==
  /\ TypeOK /\ resets <= Month(now) + 1 /\ EarlyRowsWait /\ BalanceFollowsLedger
  /\ RefillSeesRow /\ OneRefillACycle

\* api_key_usage: "each successful request becomes one ledger row": once a pass has
\* found a call, no later call falls behind the window that the next pass reads -
\* whole logs, cut and unreadable ones alike - unless a pass that left it out had a
\* newer call of another key.
CallsStayInReach ==
  \A c \in Calls \ (billed \cup missed) :
    callAt[c] # NotMade /\ callAt[c] >= since => InReach(callAt[c])

=============================================================================
