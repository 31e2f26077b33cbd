------------------------------ MODULE ChatTurn ------------------------------
(***************************************************************************)
(* One chat conversation and the turns sent to it, as routers/sessions.py  *)
(* runs them over several API replicas: the pre-flight checks of           *)
(* send_message, the turn claim kept in the session row, the per-process   *)
(* maps _STOPPING and _CLAIMS, the streamed turn of _answer_turn with its  *)
(* single settling transaction, the stop button, and the stop broadcast of *)
(* services/stop_signal.py.                                                *)
(*                                                                         *)
(* A turn is one POST /sessions/{id}/messages request.  Its pc:            *)
(*   "idle"        not sent yet                                            *)
(*   "checked"     passed the in-process busy check                        *)
(*   "prepared"    read the history and passed the checks on it            *)
(*   "claimed"     claim and question committed, generator not started     *)
(*   "superseding" fired the earlier signals, own signal not registered    *)
(*   "streaming"   own signal registered, the model is writing             *)
(*   "settling"    the stream is over, the transaction is not committed    *)
(*   "closing"     nothing left but to give the claim back                 *)
(*   "releasing"   token taken from _CLAIMS, session row not updated yet   *)
(*   "ended"       finished, abandoned or dead with its process            *)
(***************************************************************************)
EXTENDS Integers, FiniteSets

CONSTANTS
  Sends,       \* the requests that ask a new question
  Reruns,      \* the requests that rerun one (retry_of)
  Replicas,    \* API processes
  Stops,       \* presses of the stop button
  None,        \* no turn, no replica
  MaxCrashes,  \* bound on process crashes
  Faults       \* which single steps may fail: "abandon", "settle", "release"

Turns == Sends \cup Reruns   \* a turn's claim token is named like the turn

ASSUME ChatTurnAssumption ==
  /\ Sends \cap Reruns = {}
  /\ None \notin Turns \cup Replicas
  /\ MaxCrashes \in Nat
  /\ Faults \subseteq {"abandon", "settle", "release"}

VARIABLES
  pc, home,            \* of a turn: where it is and the process that serves it
  target,              \* of a turn: the question it reruns (retry_of), or None
  seen,                \* of a turn: the rows it read from the question on
  drops, earlier,      \* of a turn: superseded_ids and earlier_answers
  fate,                \* of a turn: how its stream ended
  token,               \* of a turn: the token _release_turn took from _CLAIMS
  claim, stale,        \* the session row: running_turn; older than the TTL
  rows, now,           \* the messages table; the next created_at
  claims,              \* _CLAIMS of each process for this session
  stopping, signalled, \* _STOPPING of each process; the turns whose event is set
  pending,             \* how many stop broadcasts are on their way to each process
  stopPc, stopHome,    \* of a stop press
  crashes,
  loose                \* history: active turns that the claim no longer guards

local   == <<pc, home, target, seen, drops, earlier, fate, token>>
session == <<claim, stale, rows, now>>
process == <<claims, stopping, signalled, pending>>
vars    == <<local, session, process, stopPc, stopHome, crashes, loose>>

-----------------------------------------------------------------------------
(* The messages table.  A question is named by the turn that asked it and  *)
(* an answer by the turn that wrote it; created_at orders the rows.  A     *)
(* failure is set or not: on an answer stopped or interrupted, on a        *)
(* question stopped or no_answer.                                          *)

Row == [role : {"user", "assistant"}, id : Turns, at : Nat,
        failure : BOOLEAN,
        old : BOOLEAN,             \* created more than chat_stall_sec ago
        superseded : SUBSET Turns, \* answers this row carries
        of : Turns,                \* history: the question it answers
        alone : BOOLEAN]           \* history: written under the claim throughout

Question(t) ==
  [role |-> "user", id |-> t, at |-> now, failure |-> FALSE, old |-> FALSE,
   superseded |-> {}, of |-> t, alone |-> TRUE]

Complete(m) == m.role = "assistant" /\ ~m.failure
IsQuestion(m, q) == m.role = "user" /\ m.id = q
After(S, m) == {n \in S : n.at > m.at}

\* _answer_in_flight(history[-1]): the newest row is a fresh unmarked question
AnswerInFlight ==
  \E m \in rows : /\ After(rows, m) = {}
                  /\ m.role = "user" /\ ~m.failure /\ ~m.old

\* stop_signal.needed()
Needed == Cardinality(Replicas) > 1

\* the question row of a turn: reused by a rerun, its own otherwise
AskedBy(t) == IF t \in Sends THEN t ELSE target[t]

-----------------------------------------------------------------------------
(* Processes.                                                              *)

\* any(not signal.is_set() for signal in _STOPPING.get(session_id))
RunningHere(r) == ~(stopping[r] \subseteq signalled)

ActivePcs == {"claimed", "superseding", "streaming", "settling", "closing"}
Active == {t \in Turns : pc[t] \in ActivePcs}

Broadcast(from) ==
  pending' = [r \in Replicas |->
                IF Needed /\ r # from THEN pending[r] + 1 ELSE pending[r]]

\* the request is over: nothing of it is left but what it stored
Forget(t, next) ==
  /\ pc' = [pc EXCEPT ![t] = next]
  /\ home' = [home EXCEPT ![t] = None]
  /\ target' = [target EXCEPT ![t] = None]
  /\ seen' = [seen EXCEPT ![t] = {}]
  /\ drops' = [drops EXCEPT ![t] = {}]
  /\ earlier' = [earlier EXCEPT ![t] = {}]
  /\ fate' = [fate EXCEPT ![t] = "none"]
  /\ token' = [token EXCEPT ![t] = None]
  /\ loose' = loose \ {t}

Init ==
  /\ pc = [t \in Turns |-> "idle"]
  /\ home = [t \in Turns |-> None]
  /\ target = [t \in Turns |-> None]
  /\ seen = [t \in Turns |-> {}]
  /\ drops = [t \in Turns |-> {}]
  /\ earlier = [t \in Turns |-> {}]
  /\ fate = [t \in Turns |-> "none"]
  /\ token = [t \in Turns |-> None]
  /\ claim = None /\ stale = FALSE
  /\ rows = {} /\ now = 0
  /\ claims = [r \in Replicas |-> None]
  /\ stopping = [r \in Replicas |-> {}]
  /\ signalled = {}
  /\ pending = [r \in Replicas |-> 0]
  /\ stopPc = [s \in Stops |-> "idle"]
  /\ stopHome = [s \in Stops |-> None]
  /\ crashes = 0
  /\ loose = {}

-----------------------------------------------------------------------------
(* The request, up to the commit of its question (send_message).  A check  *)
(* that fails raises before anything is written: the request just ends.    *)

\* Process r takes the request: retry_of must name a question of the session,
\* and no unstopped answer may be running in this process.
Send(t, r) ==
  /\ pc[t] = "idle"
  /\ ~RunningHere(r)
  /\ IF t \in Sends THEN target' = target
     ELSE \E q \in rows : q.role = "user" /\ target' = [target EXCEPT ![t] = q.id]
  /\ pc' = [pc EXCEPT ![t] = "checked"]
  /\ home' = [home EXCEPT ![t] = r]
  /\ UNCHANGED <<seen, drops, earlier, fate, token, session, process,
                 stopPc, stopHome, crashes, loose>>

\* The history is read once; what is checked on it is not checked again.
ReadHistory(t) ==
  /\ pc[t] = "checked"
  /\ IF t \in Sends
       THEN /\ ~(Needed /\ AnswerInFlight)
            /\ seen' = seen
       ELSE \E q \in rows :
              /\ IsQuestion(q, target[t])
              /\ \A n \in After(rows, q) : n.role # "user"
              /\ seen' = [seen EXCEPT ![t] = {[q EXCEPT !.old = TRUE]} \cup After(rows, q)]
  /\ pc' = [pc EXCEPT ![t] = "prepared"]
  /\ UNCHANGED <<home, target, drops, earlier, fate, token, session, process,
                 stopPc, stopHome, crashes, loose>>

\* A check, the model catalogue, the policy or the claim refuses the request,
\* which leaves nothing behind and may be sent again.
Refuse(t) ==
  /\ pc[t] \in {"checked", "prepared"}
  /\ Forget(t, "idle")
  /\ UNCHANGED <<session, process, stopPc, stopHome, crashes>>

\* Mutated: the update loses its condition.
Claimable_Always == TRUE

\* _claim_turn's conditional update: nobody holds the turn, or since too long.
Claimable == claim = None \/ stale

\* superseded_ids and earlier_answers of a rerun, from the rows it read: every
\* complete answer is to be dropped, the last one is carried with what it carries
Replaced(t) == {m \in seen[t] : Complete(m)}
Carried(t) ==
  UNION {m.superseded \cup {m.id} : m \in {n \in Replaced(t) : After(Replaced(t), n) = {}}}

\* Mutated: a rerun deletes every reply to the question at once.
RowsAsked_DropsAll(t) ==
  IF t \in Sends THEN rows \cup {Question(t)} ELSE rows \ {m \in seen[t] : m.role = "assistant"}

\* The question's row after the commit: a new one, or the rerun one unmarked.
\* The failure is written only where the request read it as set.
Unmarks(t) == \E m \in seen[t] : m.role = "user" /\ m.failure
RowsAsked(t) ==
  IF t \in Sends THEN rows \cup {Question(t)}
  ELSE LET failed == {m \in seen[t] : m.role = "assistant" /\ ~Complete(m)}
       IN {IF IsQuestion(m, target[t]) /\ Unmarks(t) THEN [m EXCEPT !.failure = FALSE] ELSE m :
             m \in rows \ failed}

\* An update of a question that is gone raises, and the claim with it.

ClaimAndCommit(t) ==
  /\ pc[t] = "prepared"
  /\ Claimable
  /\ t \in Reruns /\ Unmarks(t) => \E m \in rows : IsQuestion(m, target[t])
  /\ claim' = t /\ stale' = FALSE
  /\ claims' = [claims EXCEPT ![home[t]] = t]
  /\ rows' = RowsAsked(t)
  /\ now' = IF t \in Sends THEN now + 1 ELSE now
  /\ drops' = [drops EXCEPT ![t] = {m.id : m \in Replaced(t)}]
  /\ earlier' = [earlier EXCEPT ![t] = Carried(t)]
  /\ seen' = [seen EXCEPT ![t] = {}]
  /\ pc' = [pc EXCEPT ![t] = "claimed"]
  /\ loose' = IF Active # {} /\ (stale \/ Active \cap loose # {})
                THEN loose \cup Active \cup {t} ELSE loose
  /\ UNCHANGED <<home, target, fate, token, stopping, signalled, pending,
                 stopPc, stopHome, crashes>>

\* The request raises after the commit, or the reader is gone before the
\* response starts: the generator never runs and the claim stays.
Abandon(t) ==
  /\ "abandon" \in Faults
  /\ pc[t] = "claimed"
  /\ Forget(t, "ended")
  /\ UNCHANGED <<session, process, stopPc, stopHome, crashes>>

-----------------------------------------------------------------------------
(* The turn (_answer_turn).                                                *)

\* A send that replaces no answer and meets a live turn of this process takes
\* its question row away.
BowOut(t) ==
  /\ pc[t] = "claimed"
  /\ RunningHere(home[t]) /\ drops[t] = {}
  /\ rows' = {m \in rows : ~IsQuestion(m, AskedBy(t))}
  /\ pc' = [pc EXCEPT ![t] = "closing"]
  /\ UNCHANGED <<home, target, seen, drops, earlier, fate, token, claim, stale, now,
                 process, stopPc, stopHome, crashes, loose>>

\* Any other turn stops the earlier ones, wherever they run.
Supersede(t) ==
  /\ pc[t] = "claimed"
  /\ ~(RunningHere(home[t]) /\ drops[t] = {})
  /\ signalled' = signalled \cup stopping[home[t]]
  /\ Broadcast(home[t])
  /\ pc' = [pc EXCEPT ![t] = "superseding"]
  /\ UNCHANGED <<home, target, seen, drops, earlier, fate, token, session,
                 claims, stopping, stopPc, stopHome, crashes, loose>>

Register(t) ==
  /\ pc[t] = "superseding"
  /\ stopping' = [stopping EXCEPT ![home[t]] = @ \cup {t}]
  /\ pc' = [pc EXCEPT ![t] = "streaming"]
  /\ UNCHANGED <<home, target, seen, drops, earlier, fate, token, session,
                 claims, signalled, pending, stopPc, stopHome, crashes, loose>>

\* Mutated: the claim goes back with the end of the stream, before the answer is stored.
EndStream_Releases(t) ==
  /\ pc[t] = "streaming"
  /\ \E end \in {"cut"} \cup (IF t \in signalled THEN {} ELSE {"whole"}) :
       fate' = [fate EXCEPT ![t] = end]
  /\ pc' = [pc EXCEPT ![t] = "settling"]
  /\ claim' = IF claim = t THEN None ELSE claim
  /\ UNCHANGED <<home, target, seen, drops, earlier, token, stale, rows, now, process,
                 stopPc, stopHome, crashes, loose>>

\* The stream ends by itself, by an error, or because the signal is set.
EndStream(t) ==
  /\ pc[t] = "streaming"
  /\ \E end \in {"cut"} \cup (IF t \in signalled THEN {} ELSE {"whole"}) :
       fate' = [fate EXCEPT ![t] = end]
  /\ pc' = [pc EXCEPT ![t] = "settling"]
  /\ UNCHANGED <<home, target, seen, drops, earlier, token, session, process,
                 stopPc, stopHome, crashes, loose>>

\* The single transaction: the answer with what it replaces, or the outcome on
\* the question.  A rerun without content leaves the replaced answer alone.
Answer(t) ==
  [role |-> "assistant", id |-> t, at |-> now, failure |-> fate[t] = "cut", old |-> TRUE,
   superseded |-> earlier[t], of |-> AskedBy(t), alone |-> t \notin loose]

\* Mutated: an empty answer leaves the question unmarked.
RowsSettled_NoMark(t, content) ==
  IF content
    THEN {m \in rows : ~(m.role = "assistant" /\ m.id \in drops[t])} \cup {Answer(t)}
  ELSE rows

RowsSettled(t, content) ==
  IF content
    THEN {m \in rows : ~(m.role = "assistant" /\ m.id \in drops[t])} \cup {Answer(t)}
  ELSE IF drops[t] # {} THEN rows
  ELSE {IF IsQuestion(m, AskedBy(t)) THEN [m EXCEPT !.failure = TRUE] ELSE m : m \in rows}

Settle(t) ==
  /\ pc[t] = "settling"
  /\ \E content \in BOOLEAN :
       /\ rows' = RowsSettled(t, content)
       /\ now' = IF content THEN now + 1 ELSE now
  /\ pc' = [pc EXCEPT ![t] = "closing"]
  /\ UNCHANGED <<home, target, seen, drops, earlier, fate, token, claim, stale, process,
                 stopPc, stopHome, crashes, loose>>

\* The transaction raises: the generator dies with its signal and claim in place.
SettleFails(t) ==
  /\ "settle" \in Faults
  /\ pc[t] = "settling"
  /\ Forget(t, "ended")
  /\ UNCHANGED <<session, process, stopPc, stopHome, crashes>>

\* Mutated: the turn stays in _STOPPING.
Close_KeepsSignal(t) ==
  /\ pc[t] = "closing"
  /\ claims' = [claims EXCEPT ![home[t]] = None]
  /\ IF claims[home[t]] = None
       THEN Forget(t, "ended")
       ELSE /\ token' = [token EXCEPT ![t] = claims[home[t]]]
            /\ pc' = [pc EXCEPT ![t] = "releasing"]
            /\ loose' = loose \ {t}
            /\ UNCHANGED <<home, target, seen, drops, earlier, fate>>
  /\ UNCHANGED <<session, stopping, signalled, pending, stopPc, stopHome, crashes>>

\* The turn leaves _STOPPING and takes whatever token _CLAIMS holds for the
\* session; without one there is nothing to release.
Close(t) ==
  /\ pc[t] = "closing"
  /\ stopping' = [stopping EXCEPT ![home[t]] = @ \ {t}]
  /\ signalled' = signalled \ {t}
  /\ claims' = [claims EXCEPT ![home[t]] = None]
  /\ IF claims[home[t]] = None
       THEN Forget(t, "ended")
       ELSE /\ token' = [token EXCEPT ![t] = claims[home[t]]]
            /\ pc' = [pc EXCEPT ![t] = "releasing"]
            /\ loose' = loose \ {t}
            /\ UNCHANGED <<home, target, seen, drops, earlier, fate>>
  /\ UNCHANGED <<session, pending, stopPc, stopHome, crashes>>

\* Mutated: the update does not ask whose claim it clears.
ReleaseTurn_Any(t) ==
  /\ pc[t] = "releasing"
  /\ claim' = None /\ stale' = FALSE
  /\ Forget(t, "ended")
  /\ UNCHANGED <<rows, now, process, stopPc, stopHome, crashes>>

\* The update clears the claim only where it still carries that token; its
\* failure is swallowed.
ReleaseTurn(t) ==
  /\ pc[t] = "releasing"
  /\ \/ /\ claim' = (IF claim = token[t] THEN None ELSE claim)
        /\ stale' = (IF claim = token[t] THEN FALSE ELSE stale)
     \/ /\ "release" \in Faults
        /\ UNCHANGED <<claim, stale>>
  /\ Forget(t, "ended")
  /\ UNCHANGED <<rows, now, process, stopPc, stopHome, crashes>>

-----------------------------------------------------------------------------
(* The stop button (stop_turn) and the stop broadcast (stop_signal).       *)

StopFire(s, r) ==
  /\ stopPc[s] = "idle"
  /\ signalled' = signalled \cup stopping[r]
  /\ Broadcast(r)
  /\ stopPc' = [stopPc EXCEPT ![s] = "fired"]
  /\ stopHome' = [stopHome EXCEPT ![s] = r]
  /\ UNCHANGED <<local, session, claims, stopping, crashes, loose>>

\* _release_turn(session_id, token=""): whoever holds the claim loses it.
StopRelease(s) ==
  /\ stopPc[s] = "fired"
  /\ claims' = [claims EXCEPT ![stopHome[s]] = None]
  /\ \/ claim' = None /\ stale' = FALSE
     \/ "release" \in Faults /\ UNCHANGED <<claim, stale>>
  /\ stopPc' = [stopPc EXCEPT ![s] = "done"]
  /\ stopHome' = [stopHome EXCEPT ![s] = None]
  /\ loose' = loose \cup Active
  /\ UNCHANGED <<local, rows, now, stopping, signalled, pending, crashes>>

\* A broadcast reaches another process, which stops what runs there by then,
\* or is lost: not sent, or sent while the listener was reconnecting.
Deliver(r) ==
  /\ pending[r] > 0
  /\ pending' = [pending EXCEPT ![r] = @ - 1]
  /\ \/ signalled' = signalled \cup stopping[r]
     \/ UNCHANGED signalled
  /\ UNCHANGED <<local, session, claims, stopping, stopPc, stopHome, crashes, loose>>

-----------------------------------------------------------------------------
(* Time and crashes.                                                       *)

\* chat_stall_sec passes for a question.
QuestionAges ==
  /\ \E q \in rows :
       /\ q.role = "user" /\ ~q.old
       /\ \A m \in rows : m.at < q.at => m.old
       /\ rows' = (rows \ {q}) \cup {[q EXCEPT !.old = TRUE]}
  /\ UNCHANGED <<local, claim, stale, now, process, stopPc, stopHome, crashes, loose>>

\* _CLAIM_TTL_SEC passes for the claim; it is longer than chat_stall_sec and no
\* question is younger than the claim.
ClaimExpires ==
  /\ claim # None /\ ~stale
  /\ \A m \in rows : m.old
  /\ stale' = TRUE
  /\ UNCHANGED <<local, claim, rows, now, process, stopPc, stopHome, crashes, loose>>

\* A process dies with its requests, its maps and its listener, and comes back.
Crash(r) ==
  /\ crashes < MaxCrashes
  /\ crashes' = crashes + 1
  /\ LET dead == {t \in Turns : home[t] = r}
     IN /\ pc' = [t \in Turns |-> IF t \in dead THEN "ended" ELSE pc[t]]
        /\ home' = [t \in Turns |-> IF t \in dead THEN None ELSE home[t]]
        /\ target' = [t \in Turns |-> IF t \in dead THEN None ELSE target[t]]
        /\ seen' = [t \in Turns |-> IF t \in dead THEN {} ELSE seen[t]]
        /\ drops' = [t \in Turns |-> IF t \in dead THEN {} ELSE drops[t]]
        /\ earlier' = [t \in Turns |-> IF t \in dead THEN {} ELSE earlier[t]]
        /\ fate' = [t \in Turns |-> IF t \in dead THEN "none" ELSE fate[t]]
        /\ token' = [t \in Turns |-> IF t \in dead THEN None ELSE token[t]]
        /\ loose' = loose \ dead
  /\ claims' = [claims EXCEPT ![r] = None]
  /\ stopping' = [stopping EXCEPT ![r] = {}]
  /\ signalled' = signalled \ stopping[r]
  /\ pending' = [pending EXCEPT ![r] = 0]
  /\ stopPc' = [s \in Stops |-> IF stopHome[s] = r THEN "done" ELSE stopPc[s]]
  /\ stopHome' = [s \in Stops |-> IF stopHome[s] = r THEN None ELSE stopHome[s]]
  /\ UNCHANGED session

-----------------------------------------------------------------------------

TurnStep(t) ==
  \/ BowOut(t) \/ Supersede(t) \/ Register(t) \/ EndStream(t)
  \/ Settle(t) \/ Close(t) \/ ReleaseTurn(t)

Next ==
  \/ \E t \in Turns : \/ \E r \in Replicas : Send(t, r)
                      \/ ReadHistory(t) \/ Refuse(t) \/ ClaimAndCommit(t) \/ Abandon(t)
                      \/ BowOut(t) \/ Supersede(t) \/ Register(t) \/ EndStream(t)
                      \/ Settle(t) \/ SettleFails(t) \/ Close(t) \/ ReleaseTurn(t)
  \/ \E s \in Stops : StopRelease(s) \/ \E r \in Replicas : StopFire(s, r)
  \/ \E r \in Replicas : Crash(r) \/ Deliver(r)
  \/ QuestionAges \/ ClaimExpires

Spec == Init /\ [][Next]_vars

-----------------------------------------------------------------------------
(* Properties.                                                             *)

Pcs == {"idle", "checked", "prepared", "releasing", "ended"} \cup ActivePcs

\* Every variable has its type.
TypeOK ==
  /\ pc \in [Turns -> Pcs]
  /\ home \in [Turns -> Replicas \cup {None}]
  /\ target \in [Turns -> Turns \cup {None}]
  /\ seen \in [Turns -> SUBSET Row]
  /\ drops \in [Turns -> SUBSET Turns]
  /\ earlier \in [Turns -> SUBSET Turns]
  /\ fate \in [Turns -> {"none", "whole", "cut"}]
  /\ token \in [Turns -> Turns \cup {None}]
  /\ claim \in Turns \cup {None}
  /\ stale \in BOOLEAN
  /\ rows \in SUBSET Row
  /\ now \in Nat
  /\ claims \in [Replicas -> Turns \cup {None}]
  /\ stopping \in [Replicas -> SUBSET Turns]
  /\ signalled \in SUBSET Turns
  /\ pending \in [Replicas -> Nat]
  /\ stopPc \in [Stops -> {"idle", "fired", "done"}]
  /\ stopHome \in [Stops -> Replicas \cup {None}]
  /\ crashes \in 0..MaxCrashes
  /\ loose \in SUBSET Turns

\* One answer at a time: while a turn is at work that no stop press and no
\* expired claim has stripped of its claim, no other turn is at work, in any
\* process (_claim_turn, _release_turn).
SoleTurn == \A t \in Active \ loose : Active = {t}

\* What keeps SoleTurn: such a turn holds the session row's claim and its
\* process remembers the token, and no other turn is about to release it.
ClaimGuards ==
  \A t \in Active \ loose :
    /\ claim = t
    /\ claims[home[t]] = t
    /\ \A u \in Turns : pc[u] = "releasing" => token[u] # t

\* A token in the session row, in a _CLAIMS or on its way to a release is of a
\* turn that has claimed; a turn past the first check is served by a process and,
\* if it reruns a question, names one.
BeforeClaim == {"idle", "checked", "prepared"}
TokensAreOfClaimants ==
  /\ claim # None => pc[claim] \notin BeforeClaim
  /\ \A r \in Replicas : claims[r] # None => pc[claims[r]] \notin BeforeClaim
  /\ \A u \in Turns : token[u] # None => pc[token[u]] \notin BeforeClaim
ServedTurnsAreKnown ==
  \A t \in Turns : pc[t] \notin {"idle", "ended"} =>
    home[t] \in Replicas /\ AskedBy(t) \in Turns

\* The inductive invariant behind SoleTurn.
ClaimInv ==
  TypeOK /\ TokensAreOfClaimants /\ ServedTurnsAreKnown /\ ClaimGuards /\ SoleTurn

\* The claim, however it is kept, is the lease that TurnLease describes: a turn
\* begins beside one that holds the conversation only when that one's claim has
\* expired, and turns that meet so leave nobody as its holder.
Lease == INSTANCE TurnLease WITH
           Turns <- Turns, atWork <- Active, holders <- Active \ loose, expired <- stale
LeaseSpec == Lease!Spec

\* The transcript stays question, answer: an answer to a new question, written
\* under its claim, has no other question between it and its own.
AnswerFollowsItsQuestion ==
  \A a, q, m \in rows :
    /\ a.role = "assistant" /\ a.alone /\ a.of = a.id
    /\ IsQuestion(q, a.of)
    /\ m.role = "user"
    => ~(q.at < m.at /\ m.at < a.at)

\* A rerun that dies leaves the answer it was going to replace: a complete
\* answer leaves the table only in a step that stores another turn's answer.
RerunKeepsAnswerUntilReplaced ==
  [][\A m \in rows : Complete(m) /\ m \notin rows'
        => \E n \in rows' \ rows : n.role = "assistant" /\ n.id # m.id]_vars

\* The other reruns that have claimed the conversation.
Others(t) == {u \in Reruns \ {t} : pc[u] \notin BeforeClaim}

\* A turn that settles leaves a trace the reader sees: its question is gone, or
\* marked, or an answer comes after it.  That is so beside one other rerun, which
\* may replace the answer this one is to replace by its own; of three, one may take
\* away the partial answer of another and the third finds nothing to mark.
SettledTurnLeavesATrace ==
  [][\A t \in Turns :
       /\ pc[t] = "settling" /\ pc'[t] = "closing"
       /\ \A u, v \in Others(t) : u = v
       => \A q \in rows' : IsQuestion(q, AskedBy(t)) =>
            q.failure \/ \E m \in rows' : m.role = "assistant" /\ m.at > q.at]_vars

-----------------------------------------------------------------------------
(* Liveness: a turn that runs goes on (the model's stream is bounded by    *)
(* chat_timeout_sec and max_tool_hops), time passes, a stop request that   *)
(* fired finishes.  Nobody owes a send, a stop press or a crash.           *)

Fairness ==
  /\ \A t \in Turns : WF_vars(TurnStep(t))
  /\ \A s \in Stops : WF_vars(StopRelease(s))
  /\ WF_vars(QuestionAges) /\ WF_vars(ClaimExpires)

FairSpec == Spec /\ Fairness

Accepting == Claimable /\ \A r \in Replicas : ~RunningHere(r)

\* Stops, crashes, abandoned requests and failed releases never lock the
\* conversation out for good: again and again every process accepts a message.
SessionReopens == []<>Accepting

=============================================================================
