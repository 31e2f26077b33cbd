--------------------------- MODULE ChatTurnProofs ---------------------------
(* Proofs about ChatTurn, for any number of requests, processes, stop      *)
(* presses and crashes.                                                    *)
EXTENDS ChatTurn, TLAPS

-----------------------------------------------------------------------------
(* What the helpers return.                                                *)

LEMMA QuestionType ==
  ASSUME NEW t \in Turns, now \in Nat
  PROVE  Question(t) \in Row
BY DEF Question, Row

LEMMA ReplacedType ==
  ASSUME NEW t \in Turns, seen[t] \in SUBSET Row
  PROVE  /\ {m.id : m \in Replaced(t)} \in SUBSET Turns
         /\ Carried(t) \in SUBSET Turns
BY DEF Replaced, Carried, Row

LEMMA RowsAskedType ==
  ASSUME NEW t \in Turns, rows \in SUBSET Row, now \in Nat
  PROVE  RowsAsked(t) \in SUBSET Row
<1>1. ASSUME NEW m \in Row
      PROVE  [m EXCEPT !.failure = FALSE] \in Row
  BY <1>1 DEF Row
<1>2. QED
  BY <1>1, QuestionType DEF RowsAsked

LEMMA RowsSettledType ==
  ASSUME NEW t \in Turns, NEW content \in BOOLEAN, TypeOK, AskedBy(t) \in Turns
  PROVE  RowsSettled(t, content) \in SUBSET Row
<1>1. ASSUME NEW m \in Row
      PROVE  [m EXCEPT !.failure = TRUE] \in Row
  BY <1>1 DEF Row
<1>2. Answer(t) \in Row
  BY DEF Answer, Row, TypeOK
<1>3. rows \in SUBSET Row
  BY DEF TypeOK
<1>4. QED
  BY <1>1, <1>2, <1>3 DEF RowsSettled

-----------------------------------------------------------------------------
(* Type correctness needs ServedTurnsAreKnown: a rerun settles the question *)
(* it names.                                                               *)

Typed == TypeOK /\ ServedTurnsAreKnown

LEMMA TypedInit == Init => Typed
<1> SUFFICES ASSUME Init
             PROVE  Typed
  OBVIOUS
<1>1. crashes \in 0..MaxCrashes
  BY ChatTurnAssumption DEF Init
<1>2. TypeOK
  BY <1>1 DEF Init, TypeOK, Pcs, ActivePcs
<1>3. ServedTurnsAreKnown
  BY DEF Init, ServedTurnsAreKnown
<1>4. QED
  BY <1>2, <1>3 DEF Typed

\* What a request leaves when it is over keeps the types.
LEMMA ForgetTyped ==
  ASSUME Typed, NEW t \in Turns, NEW next \in {"idle", "ended"}, Forget(t, next)
  PROVE  /\ pc' \in [Turns -> Pcs]
         /\ home' \in [Turns -> Replicas \cup {None}]
         /\ target' \in [Turns -> Turns \cup {None}]
         /\ seen' \in [Turns -> SUBSET Row]
         /\ drops' \in [Turns -> SUBSET Turns]
         /\ earlier' \in [Turns -> SUBSET Turns]
         /\ fate' \in [Turns -> {"none", "whole", "cut"}]
         /\ token' \in [Turns -> Turns \cup {None}]
         /\ loose' \in SUBSET Turns
         /\ ServedTurnsAreKnown'
<1>1. /\ pc' \in [Turns -> Pcs]
      /\ home' \in [Turns -> Replicas \cup {None}]
      /\ target' \in [Turns -> Turns \cup {None}]
      /\ seen' \in [Turns -> SUBSET Row]
      /\ drops' \in [Turns -> SUBSET Turns]
      /\ earlier' \in [Turns -> SUBSET Turns]
      /\ fate' \in [Turns -> {"none", "whole", "cut"}]
      /\ token' \in [Turns -> Turns \cup {None}]
      /\ loose' \in SUBSET Turns
  BY DEF Typed, TypeOK, Forget, Pcs
<1>2. ServedTurnsAreKnown'
  BY DEF Typed, TypeOK, Forget, ServedTurnsAreKnown, AskedBy
<1>3. QED
  BY <1>1, <1>2

LEMMA TypedStep == Typed /\ [Next]_vars => Typed'
<1> SUFFICES ASSUME Typed, [Next]_vars
             PROVE  Typed'
  OBVIOUS
<1> USE DEF session, process, local
<1>1. ASSUME NEW t \in Turns, NEW r \in Replicas, Send(t, r)
      PROVE  Typed'
  BY <1>1 DEF Send, Typed, TypeOK, ServedTurnsAreKnown, AskedBy, Pcs, ActivePcs, Row
<1>2. ASSUME NEW t \in Turns, ReadHistory(t)
      PROVE  Typed'
  <2>0. ASSUME NEW q \in rows
      PROVE  {[q EXCEPT !.old = TRUE]} \cup After(rows, q) \in SUBSET Row
    BY DEF Typed, TypeOK, Row, After
  <2>1. seen' \in [Turns -> SUBSET Row]
    BY <1>2, <2>0 DEF ReadHistory, Typed, TypeOK
  <2>2. QED
    BY <1>2, <2>1 DEF ReadHistory, Typed, TypeOK, ServedTurnsAreKnown, AskedBy, Pcs
<1>3. ASSUME NEW t \in Turns, Refuse(t)
      PROVE  Typed'
  BY <1>3, ForgetTyped DEF Refuse, Typed, TypeOK
<1>4. ASSUME NEW t \in Turns, ClaimAndCommit(t)
      PROVE  Typed'
  <2>1. rows' \in SUBSET Row
    BY <1>4, RowsAskedType DEF ClaimAndCommit, Typed, TypeOK
  <2>2. drops' \in [Turns -> SUBSET Turns] /\ earlier' \in [Turns -> SUBSET Turns]
    BY <1>4, ReplacedType DEF ClaimAndCommit, Typed, TypeOK
  <2>3. home[t] \in Replicas
    BY <1>4 DEF ClaimAndCommit, Typed, ServedTurnsAreKnown
  <2>4. TypeOK'
    <3>1. loose' \in SUBSET Turns
      BY <1>4 DEF ClaimAndCommit, Typed, TypeOK, Active
    <3>2. /\ pc' \in [Turns -> Pcs]
          /\ seen' \in [Turns -> SUBSET Row]
          /\ now' \in Nat
      BY <1>4 DEF ClaimAndCommit, Typed, TypeOK, Pcs, ActivePcs
    <3>3. /\ claim' \in Turns \cup {None}
          /\ stale' \in BOOLEAN
          /\ claims' \in [Replicas -> Turns \cup {None}]
      BY <1>4, <2>3 DEF ClaimAndCommit, Typed, TypeOK
    <3>4. QED
      BY <1>4, <2>1, <2>2, <3>1, <3>2, <3>3 DEF ClaimAndCommit, Typed, TypeOK
  <2>5. ServedTurnsAreKnown'
    BY <1>4 DEF ClaimAndCommit, Typed, TypeOK, ServedTurnsAreKnown, AskedBy
  <2>6. QED
    BY <2>4, <2>5 DEF Typed
<1>5. ASSUME NEW t \in Turns, Abandon(t)
      PROVE  Typed'
  BY <1>5, ForgetTyped DEF Abandon, Typed, TypeOK
<1>6. ASSUME NEW t \in Turns, BowOut(t)
      PROVE  Typed'
  BY <1>6 DEF BowOut, Typed, TypeOK, ServedTurnsAreKnown, AskedBy, Pcs, ActivePcs
<1>7. ASSUME NEW t \in Turns, Supersede(t)
      PROVE  Typed'
  BY <1>7 DEF Supersede, Broadcast, Typed, TypeOK, ServedTurnsAreKnown, AskedBy, Pcs, ActivePcs
<1>8. ASSUME NEW t \in Turns, Register(t)
      PROVE  Typed'
  BY <1>8 DEF Register, Typed, TypeOK, ServedTurnsAreKnown, AskedBy, Pcs, ActivePcs
<1>9. ASSUME NEW t \in Turns, EndStream(t)
      PROVE  Typed'
  BY <1>9 DEF EndStream, Typed, TypeOK, ServedTurnsAreKnown, AskedBy, Pcs, ActivePcs
<1>10. ASSUME NEW t \in Turns, Settle(t)
       PROVE  Typed'
  <2>1. AskedBy(t) \in Turns
    BY <1>10 DEF Settle, Typed, ServedTurnsAreKnown
  <2>2. rows' \in SUBSET Row
    BY <1>10, <2>1, RowsSettledType DEF Settle, Typed
  <2>3. QED
    BY <1>10, <2>2 DEF Settle, Typed, TypeOK, ServedTurnsAreKnown, AskedBy, Pcs, ActivePcs
<1>11. ASSUME NEW t \in Turns, SettleFails(t)
       PROVE  Typed'
  BY <1>11, ForgetTyped DEF SettleFails, Typed, TypeOK
<1>12. ASSUME NEW t \in Turns, Close(t)
       PROVE  Typed'
  <2>1. /\ stopping' \in [Replicas -> SUBSET Turns]
        /\ signalled' \in SUBSET Turns
        /\ claims' \in [Replicas -> Turns \cup {None}]
        /\ home[t] \in Replicas
    BY <1>12 DEF Close, Typed, TypeOK, ServedTurnsAreKnown
  <2>2. CASE claims[home[t]] = None
    BY <1>12, <2>1, <2>2, ForgetTyped DEF Close, Typed, TypeOK
  <2>3. CASE claims[home[t]] # None
    BY <1>12, <2>1, <2>3 DEF Close, Typed, TypeOK, ServedTurnsAreKnown, AskedBy, Pcs
  <2>4. QED
    BY <2>2, <2>3
<1>13. ASSUME NEW t \in Turns, ReleaseTurn(t)
       PROVE  Typed'
  BY <1>13, ForgetTyped DEF ReleaseTurn, Typed, TypeOK
<1>14. ASSUME NEW s \in Stops, NEW r \in Replicas, StopFire(s, r)
       PROVE  Typed'
  BY <1>14 DEF StopFire, Broadcast, Typed, TypeOK, ServedTurnsAreKnown, AskedBy
<1>15. ASSUME NEW s \in Stops, StopRelease(s)
       PROVE  Typed'
  BY <1>15 DEF StopRelease, Typed, TypeOK, ServedTurnsAreKnown, AskedBy, Active
<1>16. ASSUME NEW r \in Replicas, Deliver(r)
       PROVE  Typed'
  BY <1>16 DEF Deliver, Typed, TypeOK, ServedTurnsAreKnown, AskedBy
<1>17. ASSUME NEW r \in Replicas, Crash(r)
       PROVE  Typed'
  <2>1. TypeOK'
    BY <1>17, ChatTurnAssumption DEF Crash, Typed, TypeOK, Pcs
  <2>2. ServedTurnsAreKnown'
    BY <1>17 DEF Crash, Typed, TypeOK, ServedTurnsAreKnown, AskedBy
  <2>3. QED
    BY <2>1, <2>2 DEF Typed
<1>18. CASE QuestionAges
  <2>1. ASSUME NEW q \in Row
        PROVE  [q EXCEPT !.old = TRUE] \in Row
    BY <2>1 DEF Row
  <2>2. rows' \in SUBSET Row
    BY <1>18, <2>1 DEF QuestionAges, Typed, TypeOK
  <2>3. QED
    BY <1>18, <2>2 DEF QuestionAges, Typed, TypeOK, ServedTurnsAreKnown, AskedBy
<1>19. CASE ClaimExpires
  BY <1>19 DEF ClaimExpires, Typed, TypeOK, ServedTurnsAreKnown, AskedBy
<1>20. CASE UNCHANGED vars
  BY <1>20 DEF vars, Typed, TypeOK, ServedTurnsAreKnown, AskedBy
<1>21. QED
  BY <1>1, <1>2, <1>3, <1>4, <1>5, <1>6, <1>7, <1>8, <1>9, <1>10, <1>11, <1>12, <1>13,
     <1>14, <1>15, <1>16, <1>17, <1>18, <1>19, <1>20 DEF Next

\* Every variable keeps its type, whatever the requests, stops and crashes.
THEOREM TypeCorrect == Spec => []TypeOK
<1>1. Typed => TypeOK
  BY DEF Typed
<1>2. QED
  BY <1>1, TypedInit, TypedStep, PTL DEF Spec

-----------------------------------------------------------------------------
(* One answer at a time.  The claim is exclusive while nothing strips a    *)
(* turn of it: a claim is granted only where there is none or an expired   *)
(* one, a turn gives back only the token it finds in its own process, and  *)
(* a stop press or an expiry marks every turn at work as loose.            *)

Tokens == TokensAreOfClaimants
Guarded == ClaimGuards /\ SoleTurn

LEMMA GuardedInit == Init => Tokens /\ Guarded
BY DEF Init, Tokens, Guarded, TokensAreOfClaimants, ClaimGuards, SoleTurn, Active, ActivePcs

\* A step that leaves the claim, the tokens and who is at work alone keeps both.
LEMMA QuietStep ==
  ASSUME Tokens, Guarded, TypeOK,
         UNCHANGED <<claim, claims, token, home>>,
         loose \subseteq loose',
         \A t \in Turns : t \in Active' <=> t \in Active,
         \A t \in Turns : pc'[t] \in BeforeClaim => pc[t] \in BeforeClaim,
         \A t \in Turns : pc'[t] = "releasing" => pc[t] = "releasing"
  PROVE  Tokens' /\ Guarded'
<1>1. Tokens'
  BY DEF Tokens, TokensAreOfClaimants, TypeOK
<1>2. Active' = Active
  BY DEF Active
<1>3. Guarded'
  BY <1>2 DEF Guarded, ClaimGuards, SoleTurn, Active, TypeOK
<1>4. QED
  BY <1>1, <1>3

\* A request that ends keeps both, whatever it does to its own token.
LEMMA ForgetGuarded ==
  ASSUME Tokens, Guarded, Typed, NEW t \in Turns, NEW next \in {"idle", "ended"},
         Forget(t, next), UNCHANGED <<claim, claims>>,
         next = "idle" => pc[t] \in BeforeClaim
  PROVE  Tokens' /\ Guarded'
<1>1. \A u \in Turns : pc'[u] \in BeforeClaim => pc[u] \in BeforeClaim
  BY DEF Forget, Typed, TypeOK, BeforeClaim
<1>2. \A u \in Turns : token'[u] # None => token'[u] = token[u]
  BY DEF Forget, Typed, TypeOK
<1>3. Tokens'
  BY <1>1, <1>2 DEF Tokens, TokensAreOfClaimants, Typed, TypeOK
<1>4. \A u \in Active' : u \in Active /\ u # t
  BY DEF Forget, Typed, TypeOK, Active, ActivePcs
<1>5. Guarded'
  <2>1. ASSUME NEW u \in Active' \ loose'
        PROVE  u \in Active \ loose
    BY <2>1, <1>4 DEF Forget
  <2>2. ClaimGuards'
    BY <2>1, <1>4 DEF Guarded, ClaimGuards, Forget, Typed, TypeOK, Active
  <2>3. SoleTurn'
    BY <2>1, <1>4 DEF Guarded, SoleTurn
  <2>4. QED
    BY <2>2, <2>3 DEF Guarded
<1>6. QED
  BY <1>3, <1>5

LEMMA GuardedStep == Typed /\ Tokens /\ Guarded /\ [Next]_vars => Tokens' /\ Guarded'
<1> SUFFICES ASSUME Typed, Tokens, Guarded, [Next]_vars
             PROVE  Tokens' /\ Guarded'
  OBVIOUS
<1> TypeOK
  BY DEF Typed
<1> USE DEF session, process, local
<1>1. ASSUME NEW t \in Turns, NEW r \in Replicas, Send(t, r)
      PROVE  Tokens' /\ Guarded'
  <2>1. pc[t] \in BeforeClaim /\ pc' = [pc EXCEPT ![t] = "checked"]
    BY <1>1 DEF Send, BeforeClaim
  <2>2. Active' = Active
    BY <2>1 DEF Active, ActivePcs, TypeOK, BeforeClaim
  <2>3. Tokens'
    BY <1>1, <2>1 DEF Send, Tokens, TokensAreOfClaimants, TypeOK
  <2>4. t \notin Active
    BY <1>1 DEF Send, Active, ActivePcs
  <2>5. Guarded'
    BY <1>1, <2>2, <2>4 DEF Send, Guarded, ClaimGuards, SoleTurn, TypeOK, Active
  <2>6. QED
    BY <2>3, <2>5
<1>2. ASSUME NEW t \in Turns, ReadHistory(t)
      PROVE  Tokens' /\ Guarded'
  BY <1>2, QuietStep DEF ReadHistory, TypeOK, Active, ActivePcs, BeforeClaim
<1>3. ASSUME NEW t \in Turns, Refuse(t)
      PROVE  Tokens' /\ Guarded'
  BY <1>3, ForgetGuarded DEF Refuse, BeforeClaim
<1>4. ASSUME NEW t \in Turns, ClaimAndCommit(t)
      PROVE  Tokens' /\ Guarded'
  <2>1. /\ pc[t] = "prepared" /\ pc' = [pc EXCEPT ![t] = "claimed"]
        /\ claim' = t /\ claims' = [claims EXCEPT ![home[t]] = t]
        /\ UNCHANGED <<home, token>>
        /\ Claimable
        /\ loose' = IF Active # {} /\ (stale \/ Active \cap loose # {})
                      THEN loose \cup Active \cup {t} ELSE loose
    BY <1>4 DEF ClaimAndCommit
  <2>2. home[t] \in Replicas
    BY <2>1 DEF Typed, ServedTurnsAreKnown
  <2>3. Active' = Active \cup {t}
    BY <2>1 DEF Active, ActivePcs, TypeOK
  <2>4. \A u \in Turns : token[u] # t
    BY <2>1, ChatTurnAssumption DEF Tokens, TokensAreOfClaimants, BeforeClaim
  <2>5. Tokens'
    BY <2>1, <2>2, ChatTurnAssumption DEF Tokens, TokensAreOfClaimants, TypeOK, BeforeClaim
  <2>6. CASE Active = {}
    <3>1. Active' = {t}
      BY <2>3, <2>6
    <3>2. QED
      BY <2>1, <2>2, <2>4, <2>5, <3>1 DEF Guarded, ClaimGuards, SoleTurn, TypeOK
  <2>7. CASE Active # {}
    <3>1. stale \/ Active \cap loose # {}
      <4>1. SUFFICES ASSUME NEW u \in Active \ loose
                     PROVE  stale
        BY <2>7
      <4>2. claim = u /\ u \in Turns
        BY DEF Guarded, ClaimGuards, Active
      <4>3. QED
        BY <2>1, <4>2, ChatTurnAssumption DEF Claimable
    <3>2. Active' \subseteq loose'
      BY <2>1, <2>3, <2>7, <3>1
    <3>3. QED
      BY <2>5, <3>2 DEF Guarded, ClaimGuards, SoleTurn
  <2>8. QED
    BY <2>6, <2>7
<1>5. ASSUME NEW t \in Turns, Abandon(t)
      PROVE  Tokens' /\ Guarded'
  BY <1>5, ForgetGuarded DEF Abandon
<1>6. ASSUME NEW t \in Turns, BowOut(t) \/ Supersede(t) \/ Register(t) \/ EndStream(t) \/ Settle(t)
      PROVE  Tokens' /\ Guarded'
  <2>1. /\ UNCHANGED <<claim, claims, token, home, loose>>
        /\ pc[t] \in ActivePcs
        /\ \E p \in ActivePcs : pc' = [pc EXCEPT ![t] = p]
    BY <1>6 DEF BowOut, Supersede, Register, EndStream, Settle, ActivePcs
  <2>2. QED
    BY <2>1, QuietStep DEF TypeOK, Active, ActivePcs, BeforeClaim
<1>7. ASSUME NEW t \in Turns, SettleFails(t)
      PROVE  Tokens' /\ Guarded'
  BY <1>7, ForgetGuarded DEF SettleFails
<1>8. ASSUME NEW t \in Turns, Close(t)
      PROVE  Tokens' /\ Guarded'
  <2>1. /\ pc[t] = "closing"
        /\ claims' = [claims EXCEPT ![home[t]] = None]
        /\ claim' = claim
        /\ home[t] \in Replicas
    BY <1>8 DEF Close, Typed, ServedTurnsAreKnown
  <2>2. t \in Active
    BY <2>1 DEF Active, ActivePcs
  <2>3. pc' \in [Turns -> Pcs] /\ pc'[t] \in {"ended", "releasing"}
        /\ \A u \in Turns \ {t} : pc'[u] = pc[u]
    BY <1>8 DEF Close, Forget, TypeOK, Pcs
  <2>4. \A u \in Turns : token'[u] \in {None, token[u], claims[home[t]]}
    BY <1>8 DEF Close, Forget, TypeOK
  <2>5. Tokens'
    <3>1. \A u \in Turns : pc'[u] \in BeforeClaim => pc[u] \in BeforeClaim
      BY <2>3 DEF BeforeClaim
    <3>2. \A q \in Replicas : claims'[q] # None => claims'[q] = claims[q]
      BY <2>1 DEF TypeOK
    <3>3. claims[home[t]] # None => pc[claims[home[t]]] \notin BeforeClaim
      BY <2>1 DEF Tokens, TokensAreOfClaimants
    <3>4. \A u \in Turns : token'[u] # None => pc[token'[u]] \notin BeforeClaim
      BY <2>4, <3>3 DEF Tokens, TokensAreOfClaimants
    <3>5. /\ claim \in Turns \cup {None}
          /\ \A q \in Replicas : claims[q] \in Turns \cup {None}
          /\ \A u \in Turns : token'[u] \in Turns \cup {None}
      BY <2>1, <2>4 DEF TypeOK
    <3>6. claim' # None => pc'[claim'] \notin BeforeClaim
      BY <2>1, <3>1, <3>5 DEF Tokens, TokensAreOfClaimants
    <3>7. \A q \in Replicas : claims'[q] # None => pc'[claims'[q]] \notin BeforeClaim
      BY <3>1, <3>2, <3>5 DEF Tokens, TokensAreOfClaimants
    <3>8. \A u \in Turns : token'[u] # None => pc'[token'[u]] \notin BeforeClaim
      BY <3>1, <3>4, <3>5
    <3>9. QED
      BY <3>6, <3>7, <3>8 DEF Tokens, TokensAreOfClaimants
  <2>6. loose' = loose \ {t}
    BY <1>8 DEF Close, Forget
  <2>7. \A u \in Active' : u \in Active /\ u # t
    BY <2>3 DEF Active, ActivePcs
  <2>8. Active' \subseteq loose'
    BY <2>2, <2>6, <2>7 DEF Guarded, SoleTurn
  <2>9. QED
    BY <2>5, <2>8 DEF Guarded, ClaimGuards, SoleTurn
<1>9. ASSUME NEW t \in Turns, ReleaseTurn(t)
      PROVE  Tokens' /\ Guarded'
  <2>1. /\ pc[t] = "releasing"
        /\ Forget(t, "ended")
        /\ claim' \in {claim, None}
        /\ claim' # claim => claim = token[t]
        /\ claims' = claims
    BY <1>9 DEF ReleaseTurn
  <2>2. \A u \in Turns : pc'[u] \in BeforeClaim => pc[u] \in BeforeClaim
    BY <2>1 DEF Forget, TypeOK, BeforeClaim
  <2>3. \A u \in Turns : token'[u] # None => token'[u] = token[u]
    BY <2>1 DEF Forget, TypeOK
  <2>4. Tokens'
    BY <2>1, <2>2, <2>3 DEF Tokens, TokensAreOfClaimants, TypeOK
  <2>5. ASSUME NEW u \in Active' \ loose'
        PROVE  u \in Active \ loose /\ u # t
    BY <2>1, <2>5 DEF Forget, TypeOK, Active, ActivePcs
  <2>6. \A u \in Active' \ loose' : claim' = claim
    BY <2>1, <2>5 DEF Guarded, ClaimGuards
  <2>7. ClaimGuards'
    BY <2>1, <2>5, <2>6, <2>3, ChatTurnAssumption
       DEF Guarded, ClaimGuards, Forget, TypeOK, Active
  <2>8. \A u \in Active' : u \in Active
    BY <2>1 DEF Forget, TypeOK, Active, ActivePcs
  <2>9. SoleTurn'
    BY <2>5, <2>8 DEF Guarded, SoleTurn
  <2>10. QED
    BY <2>4, <2>7, <2>9 DEF Guarded
<1>10. ASSUME NEW s \in Stops, NEW r \in Replicas, StopFire(s, r)
       PROVE  Tokens' /\ Guarded'
  BY <1>10, QuietStep DEF StopFire, Active
<1>11. ASSUME NEW s \in Stops, StopRelease(s)
       PROVE  Tokens' /\ Guarded'
  <2>1. Active' = Active /\ loose' = loose \cup Active
    BY <1>11 DEF StopRelease, Active
  <2>2. Tokens'
    BY <1>11 DEF StopRelease, Tokens, TokensAreOfClaimants, TypeOK
  <2>3. QED
    BY <2>1, <2>2 DEF Guarded, ClaimGuards, SoleTurn
<1>12. ASSUME NEW r \in Replicas, Deliver(r)
       PROVE  Tokens' /\ Guarded'
  BY <1>12, QuietStep DEF Deliver, Active
<1>13. ASSUME NEW r \in Replicas, Crash(r)
       PROVE  Tokens' /\ Guarded'
  <2> DEFINE dead == {t \in Turns : home[t] = r}
  <2>1. /\ pc' = [t \in Turns |-> IF t \in dead THEN "ended" ELSE pc[t]]
        /\ token' = [t \in Turns |-> IF t \in dead THEN None ELSE token[t]]
        /\ home' = [t \in Turns |-> IF t \in dead THEN None ELSE home[t]]
        /\ loose' = loose \ dead
        /\ claims' = [claims EXCEPT ![r] = None]
        /\ claim' = claim
    BY <1>13 DEF Crash
  <2> HIDE DEF dead
  <2>2. Tokens'
    BY <2>1 DEF Tokens, TokensAreOfClaimants, TypeOK, BeforeClaim
  <2>3. \A t \in Active' : t \in Active /\ t \notin dead
    BY <2>1 DEF Active, ActivePcs
  <2>4. \A t \in Turns \ dead : home[t] # r
    BY DEF dead
  <2>5. ClaimGuards'
    <3>1. ASSUME NEW t \in Active' \ loose'
          PROVE  t \in Active \ loose /\ home'[t] = home[t] /\ home[t] # r /\ t \in Turns
      <4>1. t \in Active /\ t \notin dead
        BY <3>1, <2>3
      <4>2. t \in Turns
        BY <4>1 DEF Active
      <4>3. t \notin loose
        BY <3>1, <4>1, <2>1
      <4>4. home'[t] = home[t] /\ home[t] # r
        BY <4>1, <4>2, <2>1, <2>4
      <4>5. QED
        BY <4>1, <4>2, <4>3, <4>4
    <3>2. \A t \in Active' \ loose' : claims'[home'[t]] = claims[home[t]]
      <4>1. \A t \in Active : home[t] \in Replicas
        BY DEF Active, ActivePcs, Typed, ServedTurnsAreKnown
      <4>2. QED
        BY <3>1, <2>1, <4>1 DEF TypeOK
    <3>3. \A u \in Turns : pc'[u] = "releasing" => pc[u] = "releasing" /\ token'[u] = token[u]
      BY <2>1
    <3>4. ASSUME NEW t \in Active' \ loose'
          PROVE  /\ claim' = t
                 /\ claims'[home'[t]] = t
                 /\ \A u \in Turns : pc'[u] = "releasing" => token'[u] # t
      <4>1. t \in Active \ loose
        BY <3>1
      <4>2. /\ claim = t /\ claims[home[t]] = t
            /\ \A u \in Turns : pc[u] = "releasing" => token[u] # t
        BY <4>1 DEF Guarded, ClaimGuards
      <4>3. QED
        BY <4>2, <3>2, <3>3, <2>1
    <3>5. QED
      BY <3>4 DEF ClaimGuards
  <2>6. SoleTurn'
    BY <2>1, <2>3 DEF Guarded, SoleTurn
  <2>7. QED
    BY <2>2, <2>5, <2>6 DEF Guarded
<1>14. CASE QuestionAges \/ ClaimExpires
  BY <1>14, QuietStep DEF QuestionAges, ClaimExpires, Active
<1>15. CASE UNCHANGED vars
  BY <1>15, QuietStep DEF vars, Active
<1>16. QED
  BY <1>1, <1>2, <1>3, <1>4, <1>5, <1>6, <1>7, <1>8, <1>9, <1>10, <1>11, <1>12, <1>13,
     <1>14, <1>15 DEF Next

\* The inductive invariant holds: the claim of every guarded turn stands.
THEOREM ClaimInvariant == Spec => []ClaimInv
<1>1. Init => Typed /\ Tokens /\ Guarded
  BY TypedInit, GuardedInit
<1>2. Typed /\ Tokens /\ Guarded /\ [Next]_vars => (Typed /\ Tokens /\ Guarded)'
  BY TypedStep, GuardedStep
<1>3. Typed /\ Tokens /\ Guarded => ClaimInv
  BY DEF Typed, Tokens, Guarded, ClaimInv
<1>4. QED
  BY <1>1, <1>2, <1>3, PTL DEF Spec

\* One answer at a time: a turn at work that no stop press and no expired claim
\* stripped of its claim is the only turn at work, on any number of processes.
THEOREM OneAnswerAtATime == Spec => []SoleTurn
<1>1. ClaimInv => SoleTurn
  BY DEF ClaimInv
<1>2. QED
  BY <1>1, ClaimInvariant, PTL
-----------------------------------------------------------------------------
(* The transcript.  A guarded turn that asked a question keeps every other *)
(* question out until it has settled; rows are ordered by the clock; and a *)
(* turn never reads, nor replaces, an answer of its own.                   *)

Answered == {"closing", "releasing", "ended"}

RowsAreOld == \A m \in rows : m.at < now
QuestionsAreSent == \A m \in rows : m.role = "user" => m.id \in Sends /\ pc[m.id] \notin BeforeClaim
RerunsNameSends == \A t \in Reruns : target[t] \notin Reruns
NewestIsAsked ==
  \A t \in Sends \cap (Active \ loose) : \A q, m \in rows :
    IsQuestion(q, t) /\ m.role = "user" => m.at <= q.at
AnswersAreSettled == \A m \in rows : m.role = "assistant" => pc[m.id] \in Answered
OthersAreReplaced ==
  \A t \in Turns : t \notin drops[t] /\ \A m \in seen[t] : m.role = "assistant" => m.id # t

TranscriptInv ==
  /\ RowsAreOld /\ QuestionsAreSent /\ RerunsNameSends /\ NewestIsAsked
  /\ AnswersAreSettled /\ OthersAreReplaced /\ AnswerFollowsItsQuestion

\* Two states of one row: only its failure, its age or what it carries differ.
Like(m, n) ==
  m.role = n.role /\ m.id = n.id /\ m.at = n.at /\ m.of = n.of /\ m.alone = n.alone

LEMMA RowsAlike ==
  ASSUME NEW m \in Row, NEW b \in BOOLEAN
  PROVE  Like([m EXCEPT !.failure = b], m) /\ Like([m EXCEPT !.old = b], m) /\ Like(m, m)
BY DEF Like, Row

LEMMA TranscriptInit == Init => TranscriptInv
<1> SUFFICES ASSUME Init PROVE TranscriptInv
  OBVIOUS
<1>1. RowsAreOld /\ QuestionsAreSent /\ NewestIsAsked /\ AnswersAreSettled
      /\ AnswerFollowsItsQuestion
  BY DEF Init, RowsAreOld, QuestionsAreSent, NewestIsAsked, AnswersAreSettled,
         AnswerFollowsItsQuestion
<1>2. RerunsNameSends /\ OthersAreReplaced
  BY ChatTurnAssumption DEF Init, RerunsNameSends, OthersAreReplaced, Turns
<1>3. QED
  BY <1>1, <1>2 DEF TranscriptInv

\* A step that adds no row, sends and claims nothing keeps the transcript.
LEMMA SameRows ==
  ASSUME TypeOK, TranscriptInv,
         \A m \in rows' : \E n \in rows : Like(m, n), now' = now,
         \A t \in Turns : pc'[t] \in BeforeClaim => pc[t] \in BeforeClaim,
         \A t \in Turns : pc[t] \in Answered => pc'[t] \in Answered,
         \A t \in Turns : target'[t] \in {target[t], None},
         \A t \in Turns : t \in Active' \ loose' => t \in Active \ loose,
         \A t \in Turns : seen'[t] \subseteq seen[t] /\ drops'[t] \subseteq drops[t]
  PROVE  TranscriptInv'
<1>1. rows \subseteq Row /\ Sends \subseteq Turns /\ Reruns \subseteq Turns
  BY DEF TypeOK, Turns
<1>2. \A m \in rows : m.id \in Turns
  BY <1>1 DEF Row
<1>3. RowsAreOld'
  BY DEF TranscriptInv, RowsAreOld, Like
<1>4. QuestionsAreSent'
  BY <1>1 DEF TranscriptInv, QuestionsAreSent, Like
<1>5. RerunsNameSends'
  BY <1>1, ChatTurnAssumption DEF TranscriptInv, RerunsNameSends, Turns
<1>6. NewestIsAsked'
  <2> SUFFICES ASSUME NEW t \in Sends \cap (Active' \ loose'), NEW q \in rows', NEW m \in rows',
                      IsQuestion(q, t), m.role = "user"
               PROVE  m.at <= q.at
    BY DEF NewestIsAsked, IsQuestion
  <2>1. t \in Sends \cap (Active \ loose)
    BY <1>1
  <2>2. PICK p \in rows, n \in rows : Like(q, p) /\ Like(m, n)
    OBVIOUS
  <2>3. n.at <= p.at
    BY <2>1, <2>2 DEF TranscriptInv, NewestIsAsked, IsQuestion, Like
  <2>4. QED
    BY <2>2, <2>3 DEF Like
<1>7. AnswersAreSettled'
  BY <1>2 DEF TranscriptInv, AnswersAreSettled, Like
<1>8. OthersAreReplaced'
  BY DEF TranscriptInv, OthersAreReplaced
<1>9. AnswerFollowsItsQuestion'
  <2> SUFFICES ASSUME NEW a \in rows', NEW q \in rows', NEW m \in rows',
                      a.role = "assistant", a.alone, a.of = a.id, IsQuestion(q, a.of),
                      m.role = "user", q.at < m.at, m.at < a.at
               PROVE  FALSE
    BY DEF AnswerFollowsItsQuestion, IsQuestion
  <2>1. PICK b \in rows, p \in rows, n \in rows : Like(a, b) /\ Like(q, p) /\ Like(m, n)
    OBVIOUS
  <2>2. /\ b.role = "assistant" /\ b.alone /\ b.of = b.id /\ IsQuestion(p, b.of)
        /\ n.role = "user" /\ p.at < n.at /\ n.at < b.at
    BY <2>1 DEF Like, IsQuestion
  <2>3. QED
    BY <2>2 DEF TranscriptInv, AnswerFollowsItsQuestion
<1>10. QED
  BY <1>3, <1>4, <1>5, <1>6, <1>7, <1>8, <1>9 DEF TranscriptInv

\* A request that is over keeps it.
LEMMA ForgetTranscript ==
  ASSUME TypeOK, TranscriptInv, NEW t \in Turns, NEW next \in {"idle", "ended"},
         Forget(t, next), rows' = rows, now' = now,
         next = "idle" => pc[t] \in BeforeClaim
  PROVE  TranscriptInv'
<1>1. \A m \in rows' : \E n \in rows : Like(m, n)
  BY DEF Like
<1>2. \A u \in Turns : pc'[u] \in BeforeClaim => pc[u] \in BeforeClaim
  BY DEF Forget, TypeOK, BeforeClaim
<1>3. \A u \in Turns : pc[u] \in Answered => pc'[u] \in Answered
  BY DEF Forget, TypeOK, BeforeClaim, Answered
<1>4. \A u \in Turns : target'[u] \in {target[u], None}
  BY DEF Forget, TypeOK
<1>5. \A u \in Turns : u \in Active' \ loose' => u \in Active \ loose
  BY DEF Forget, TypeOK, Active, ActivePcs
<1>6. \A u \in Turns : seen'[u] \subseteq seen[u] /\ drops'[u] \subseteq drops[u]
  BY DEF Forget, TypeOK
<1>7. QED
  BY <1>1, <1>2, <1>3, <1>4, <1>5, <1>6, SameRows

\* The transcript keeps its order, one step per action.
LEMMA TranscriptStep ==
  Typed /\ Tokens /\ Guarded /\ TranscriptInv /\ [Next]_vars => TranscriptInv'
<1> SUFFICES ASSUME Typed, Tokens, Guarded, TranscriptInv, [Next]_vars
             PROVE  TranscriptInv'
  OBVIOUS
<1> TypeOK
  BY DEF Typed
<1> USE DEF session, process, local
<1>r. /\ rows \subseteq Row /\ Sends \subseteq Turns /\ Reruns \subseteq Turns
      /\ now \in Nat /\ Sends \cap Reruns = {}
      /\ \A m \in rows : m.at \in Nat /\ m.id \in Turns
  BY ChatTurnAssumption DEF TypeOK, Turns, Row
<1>s. \A m \in rows : Like(m, m)
  BY DEF Like
<1>1. ASSUME NEW t \in Turns, NEW r \in Replicas, Send(t, r)
      PROVE  TranscriptInv'
  <2>1. /\ pc[t] = "idle" /\ pc' = [pc EXCEPT ![t] = "checked"]
        /\ UNCHANGED <<rows, now, seen, drops, loose>>
        /\ \/ target' = target
           \/ t \in Reruns /\ \E q \in rows : q.role = "user" /\ target' = [target EXCEPT ![t] = q.id]
    BY <1>1 DEF Send, Turns
  <2>2. /\ \A u \in Turns : pc'[u] \in BeforeClaim <=> pc[u] \in BeforeClaim
        /\ \A u \in Turns : pc'[u] \in Answered <=> pc[u] \in Answered
        /\ \A u \in Turns : u \in Active' <=> u \in Active
    BY <2>1 DEF TypeOK, BeforeClaim, Answered, Active, ActivePcs
  <2>3. RerunsNameSends'
    BY <2>1, <1>r DEF TranscriptInv, RerunsNameSends, QuestionsAreSent, TypeOK
  <2>4. QuestionsAreSent' /\ AnswersAreSettled'
    BY <2>1, <2>2, <1>r DEF TranscriptInv, QuestionsAreSent, AnswersAreSettled
  <2>5. NewestIsAsked'
    BY <2>1, <2>2, <1>r DEF TranscriptInv, NewestIsAsked, IsQuestion
  <2>6. RowsAreOld' /\ OthersAreReplaced' /\ AnswerFollowsItsQuestion'
    BY <2>1 DEF TranscriptInv, RowsAreOld, OthersAreReplaced, AnswerFollowsItsQuestion, IsQuestion
  <2>7. QED
    BY <2>3, <2>4, <2>5, <2>6 DEF TranscriptInv
<1>2. ASSUME NEW t \in Turns, ReadHistory(t)
      PROVE  TranscriptInv'
  <2>1. /\ pc[t] = "checked" /\ pc' = [pc EXCEPT ![t] = "prepared"]
        /\ UNCHANGED <<rows, now, target, drops, loose>>
        /\ \/ seen' = seen
           \/ \E q \in rows :
                /\ IsQuestion(q, target[t])
                /\ seen' = [seen EXCEPT ![t] = {[q EXCEPT !.old = TRUE]} \cup After(rows, q)]
    BY <1>2 DEF ReadHistory
  <2>2. /\ \A u \in Turns : pc'[u] \in BeforeClaim <=> pc[u] \in BeforeClaim
        /\ \A u \in Turns : pc'[u] \in Answered <=> pc[u] \in Answered
        /\ \A u \in Turns : u \in Active' <=> u \in Active
    BY <2>1 DEF TypeOK, BeforeClaim, Answered, Active, ActivePcs
  <2>3. OthersAreReplaced'
    <3>1. CASE seen' = seen
      BY <2>1, <3>1 DEF TranscriptInv, OthersAreReplaced
    <3>2. CASE seen' # seen
      <4>1. PICK q \in rows :
              /\ IsQuestion(q, target[t])
              /\ seen' = [seen EXCEPT ![t] = {[q EXCEPT !.old = TRUE]} \cup After(rows, q)]
        BY <2>1, <3>2
      <4>2. [q EXCEPT !.old = TRUE].role = "user"
        BY <4>1, <1>r, RowsAlike DEF IsQuestion, Like
      <4>3. \A m \in After(rows, q) : m.role = "assistant" => m.id # t
        BY <2>1 DEF After, TranscriptInv, AnswersAreSettled, Answered
      <4>4. \A m \in seen'[t] : m.role = "assistant" => m.id # t
        BY <4>1, <4>2, <4>3 DEF TypeOK
      <4>5. \A u \in Turns \ {t} : seen'[u] = seen[u]
        BY <4>1 DEF TypeOK
      <4>6. QED
        BY <2>1, <4>4, <4>5 DEF TranscriptInv, OthersAreReplaced
    <3>3. QED
      BY <3>1, <3>2
  <2>4. QuestionsAreSent' /\ AnswersAreSettled'
    BY <2>1, <2>2, <1>r DEF TranscriptInv, QuestionsAreSent, AnswersAreSettled
  <2>5. NewestIsAsked'
    BY <2>1, <2>2, <1>r DEF TranscriptInv, NewestIsAsked, IsQuestion
  <2>6. RowsAreOld' /\ RerunsNameSends' /\ AnswerFollowsItsQuestion'
    BY <2>1 DEF TranscriptInv, RowsAreOld, RerunsNameSends, AnswerFollowsItsQuestion, IsQuestion
  <2>7. QED
    BY <2>3, <2>4, <2>5, <2>6 DEF TranscriptInv
<1>3. ASSUME NEW t \in Turns, Refuse(t)
      PROVE  TranscriptInv'
  <2>1. Forget(t, "idle") /\ rows' = rows /\ now' = now /\ pc[t] \in BeforeClaim
    BY <1>3 DEF Refuse, BeforeClaim
  <2>2. QED
    BY <2>1, ForgetTranscript
<1>4. ASSUME NEW t \in Turns, ClaimAndCommit(t)
      PROVE  TranscriptInv'
  <2>1. /\ pc[t] = "prepared" /\ pc' = [pc EXCEPT ![t] = "claimed"] /\ Claimable
        /\ rows' = RowsAsked(t) /\ target' = target
        /\ drops' = [drops EXCEPT ![t] = {m.id : m \in Replaced(t)}]
        /\ seen' = [seen EXCEPT ![t] = {}]
        /\ loose' = IF Active # {} /\ (stale \/ Active \cap loose # {})
                      THEN loose \cup Active \cup {t} ELSE loose
    BY <1>4 DEF ClaimAndCommit
  <2>2. now' = IF t \in Sends THEN now + 1 ELSE now
    BY <1>4 DEF ClaimAndCommit
  <2>3. Active' = Active \cup {t}
    BY <2>1 DEF Active, ActivePcs, TypeOK
  <2>4. /\ \A u \in Turns : pc'[u] \in BeforeClaim => pc[u] \in BeforeClaim
        /\ \A u \in Turns : pc'[u] \in Answered <=> pc[u] \in Answered
        /\ pc'[t] \notin BeforeClaim
    BY <2>1 DEF TypeOK, BeforeClaim, Answered
  <2>5. OthersAreReplaced'
    <3>1. t \notin {m.id : m \in Replaced(t)}
      BY DEF Replaced, Complete, TranscriptInv, OthersAreReplaced
    <3>2. QED
      BY <2>1, <3>1 DEF TranscriptInv, OthersAreReplaced, TypeOK
  <2>6. Active = {} \/ Active' \subseteq loose'
    <3> SUFFICES ASSUME Active # {} PROVE Active' \subseteq loose'
      OBVIOUS
    <3>1. stale \/ Active \cap loose # {}
      <4>1. SUFFICES ASSUME NEW u \in Active \ loose
                     PROVE  stale
        OBVIOUS
      <4>2. claim = u /\ u \in Turns
        BY DEF Guarded, ClaimGuards, Active
      <4>3. QED
        BY <2>1, <4>2, ChatTurnAssumption DEF Claimable
    <3>2. QED
      BY <2>1, <2>3, <3>1
  <2>7. CASE t \in Reruns
    <3>1. t \notin Sends /\ now' = now
      BY <2>2, <2>7, <1>r
    <3>2. \A m \in rows' : \E n \in rows : Like(m, n)
      <4>1. \A m \in rows : Like([m EXCEPT !.failure = FALSE], m)
        BY <1>r, RowsAlike
      <4>2. QED
        BY <2>1, <3>1, <4>1, <1>s DEF RowsAsked
    <3>3. RowsAreOld'
      BY <3>1, <3>2 DEF TranscriptInv, RowsAreOld, Like
    <3>4. QuestionsAreSent' /\ AnswersAreSettled'
      BY <3>2, <2>4, <1>r DEF TranscriptInv, QuestionsAreSent, AnswersAreSettled, Like
    <3>5. RerunsNameSends'
      BY <2>1 DEF TranscriptInv, RerunsNameSends
    <3>6. NewestIsAsked'
      <4> SUFFICES ASSUME NEW u \in Sends \cap (Active' \ loose'), NEW q \in rows', NEW m \in rows',
                          IsQuestion(q, u), m.role = "user"
                   PROVE  m.at <= q.at
        BY DEF NewestIsAsked, IsQuestion
      <4>1. FALSE
        BY <2>3, <2>6, <3>1
      <4>2. QED
        BY <4>1
    <3>7. AnswerFollowsItsQuestion'
      <4> SUFFICES ASSUME NEW a \in rows', NEW q \in rows', NEW m \in rows',
                          a.role = "assistant", a.alone, a.of = a.id, IsQuestion(q, a.of),
                          m.role = "user", q.at < m.at, m.at < a.at
                   PROVE  FALSE
        BY DEF AnswerFollowsItsQuestion, IsQuestion
      <4>1. PICK b \in rows, p \in rows, n \in rows : Like(a, b) /\ Like(q, p) /\ Like(m, n)
        BY <3>2
      <4>2. /\ b.role = "assistant" /\ b.alone /\ b.of = b.id /\ IsQuestion(p, b.of)
            /\ n.role = "user" /\ p.at < n.at /\ n.at < b.at
        BY <4>1 DEF Like, IsQuestion
      <4>3. QED
        BY <4>2 DEF TranscriptInv, AnswerFollowsItsQuestion
    <3>8. QED
      BY <2>5, <3>3, <3>4, <3>5, <3>6, <3>7 DEF TranscriptInv
  <2>8. CASE t \in Sends
    <3>1. rows' = rows \cup {Question(t)} /\ now' = now + 1
      BY <2>1, <2>2, <2>8 DEF RowsAsked
    <3>2. /\ Question(t).role = "user" /\ Question(t).id = t /\ Question(t).at = now
      BY DEF Question
    <3>3. RowsAreOld'
      BY <3>1, <3>2, <1>r DEF TranscriptInv, RowsAreOld
    <3>4. QuestionsAreSent' /\ AnswersAreSettled'
      BY <3>1, <3>2, <2>4, <2>8, <1>r DEF TranscriptInv, QuestionsAreSent, AnswersAreSettled
    <3>5. RerunsNameSends'
      BY <2>1 DEF TranscriptInv, RerunsNameSends
    <3>6. NewestIsAsked'
      <4> SUFFICES ASSUME NEW u \in Sends \cap (Active' \ loose'), NEW q \in rows', NEW m \in rows',
                          IsQuestion(q, u), m.role = "user"
                   PROVE  m.at <= q.at
        BY DEF NewestIsAsked, IsQuestion
      <4>1. u = t
        BY <2>3, <2>6
      <4>2. q \notin rows
        BY <4>1, <2>1 DEF IsQuestion, TranscriptInv, QuestionsAreSent, BeforeClaim
      <4>3. q.at = now
        BY <3>1, <3>2, <4>2
      <4>4. m.at <= now
        BY <3>1, <3>2, <1>r DEF TranscriptInv, RowsAreOld
      <4>5. QED
        BY <4>3, <4>4
    <3>7. AnswerFollowsItsQuestion'
      <4> SUFFICES ASSUME NEW a \in rows', NEW q \in rows', NEW m \in rows',
                          a.role = "assistant", a.alone, a.of = a.id, IsQuestion(q, a.of),
                          m.role = "user", q.at < m.at, m.at < a.at
                   PROVE  FALSE
        BY DEF AnswerFollowsItsQuestion, IsQuestion
      <4>1. a \in rows
        BY <3>1, <3>2
      <4>2. a.at < now /\ a.at \in Nat
        BY <4>1, <1>r DEF TranscriptInv, RowsAreOld
      <4>3. m \in rows
        BY <3>1, <3>2, <4>2, <1>r
      <4>4. m.at \in Nat /\ m.at < now
        BY <4>3, <1>r DEF TranscriptInv, RowsAreOld
      <4>5. q \in rows
        BY <3>1, <3>2, <4>4, <1>r
      <4>6. QED
        BY <4>1, <4>3, <4>5 DEF TranscriptInv, AnswerFollowsItsQuestion, IsQuestion
    <3>8. QED
      BY <2>5, <3>3, <3>4, <3>5, <3>6, <3>7 DEF TranscriptInv
  <2>9. QED
    BY <2>7, <2>8 DEF Turns
<1>5. ASSUME NEW t \in Turns, Abandon(t) \/ SettleFails(t)
      PROVE  TranscriptInv'
  <2>1. Forget(t, "ended") /\ rows' = rows /\ now' = now
    BY <1>5 DEF Abandon, SettleFails
  <2>2. QED
    BY <2>1, ForgetTranscript
<1>6. ASSUME NEW t \in Turns, BowOut(t) \/ Supersede(t) \/ Register(t) \/ EndStream(t)
      PROVE  TranscriptInv'
  <2>1. /\ UNCHANGED <<now, target, seen, drops, loose>> /\ rows' \subseteq rows
        /\ pc[t] \in ActivePcs \ {"closing"}
        /\ \E p \in ActivePcs : pc' = [pc EXCEPT ![t] = p]
    BY <1>6 DEF BowOut, Supersede, Register, EndStream, ActivePcs
  <2>2. /\ \A u \in Turns : pc'[u] \in BeforeClaim => pc[u] \in BeforeClaim
        /\ \A u \in Turns : pc[u] \in Answered => pc'[u] \in Answered
        /\ \A u \in Turns : u \in Active' \ loose' => u \in Active \ loose
    BY <2>1 DEF TypeOK, BeforeClaim, Answered, Active, ActivePcs
  <2>3. QED
    BY <2>1, <2>2, <1>s, SameRows
<1>7. ASSUME NEW t \in Turns, Settle(t)
      PROVE  TranscriptInv'
  <2>1. /\ pc[t] = "settling" /\ pc' = [pc EXCEPT ![t] = "closing"]
        /\ UNCHANGED <<target, seen, drops, loose>>
    BY <1>7 DEF Settle
  <2>2. /\ \A u \in Turns : pc'[u] \in BeforeClaim => pc[u] \in BeforeClaim
        /\ \A u \in Turns : pc[u] \in Answered => pc'[u] \in Answered
        /\ \A u \in Turns : u \in Active' \ loose' => u \in Active \ loose
        /\ pc'[t] \in Answered
    BY <2>1 DEF TypeOK, BeforeClaim, Answered, Active, ActivePcs
  <2>3. PICK content \in BOOLEAN : rows' = RowsSettled(t, content)
                                  /\ now' = IF content THEN now + 1 ELSE now
    BY <1>7 DEF Settle
  <2>4. CASE ~content
    <3>1. \A m \in rows : Like([m EXCEPT !.failure = TRUE], m)
      BY <1>r, RowsAlike
    <3>2. \A m \in rows' : \E n \in rows : Like(m, n)
      BY <2>3, <2>4, <3>1, <1>s DEF RowsSettled
    <3>3. now' = now
      BY <2>3, <2>4
    <3>4. QED
      BY <2>1, <2>2, <3>2, <3>3, SameRows
  <2>5. CASE content
    <3>1. \A m \in rows' : m \in rows \/ m = Answer(t)
      BY <2>3, <2>5 DEF RowsSettled
    <3>2. /\ Answer(t).role = "assistant" /\ Answer(t).id = t /\ Answer(t).at = now
          /\ Answer(t).of = AskedBy(t) /\ Answer(t).alone = (t \notin loose)
      BY DEF Answer
    <3>3. now' = now + 1
      BY <2>3, <2>5
    <3>4. RowsAreOld'
      BY <3>1, <3>2, <3>3, <1>r DEF TranscriptInv, RowsAreOld
    <3>5. QuestionsAreSent' /\ AnswersAreSettled'
      BY <3>1, <3>2, <2>2, <1>r DEF TranscriptInv, QuestionsAreSent, AnswersAreSettled
    <3>6. RerunsNameSends' /\ OthersAreReplaced'
      BY <2>1 DEF TranscriptInv, RerunsNameSends, OthersAreReplaced
    <3>7. NewestIsAsked'
      BY <3>1, <3>2, <2>2, <1>r DEF TranscriptInv, NewestIsAsked, IsQuestion
    <3>8. AnswerFollowsItsQuestion'
      <4> SUFFICES ASSUME NEW a \in rows', NEW q \in rows', NEW m \in rows',
                          a.role = "assistant", a.alone, a.of = a.id, IsQuestion(q, a.of),
                          m.role = "user", q.at < m.at, m.at < a.at
                   PROVE  FALSE
        BY DEF AnswerFollowsItsQuestion, IsQuestion
      <4>1. q \in rows /\ m \in rows
        BY <3>1, <3>2 DEF IsQuestion
      <4>2. CASE a \in rows
        BY <4>1, <4>2 DEF TranscriptInv, AnswerFollowsItsQuestion, IsQuestion
      <4>3. CASE a = Answer(t)
        <5>1. AskedBy(t) = t /\ t \notin loose
          BY <3>2, <4>3
        <5>2. t \in Sends
          BY <5>1, <1>r DEF AskedBy, Turns, TranscriptInv, RerunsNameSends
        <5>3. t \in Active
          BY <2>1 DEF Active, ActivePcs
        <5>4. m.at <= q.at
          BY <3>2, <4>1, <4>3, <5>1, <5>2, <5>3
             DEF TranscriptInv, NewestIsAsked, IsQuestion
        <5>5. QED
          BY <4>1, <5>4, <1>r
      <4>4. QED
        BY <3>1, <4>2, <4>3
    <3>9. QED
      BY <3>4, <3>5, <3>6, <3>7, <3>8 DEF TranscriptInv
  <2>6. QED
    BY <2>4, <2>5
<1>8. ASSUME NEW t \in Turns, Close(t)
      PROVE  TranscriptInv'
  <2>1. rows' = rows /\ now' = now /\ pc[t] = "closing"
    BY <1>8 DEF Close
  <2>2. CASE Forget(t, "ended")
    BY <2>1, <2>2, ForgetTranscript
  <2>3. CASE ~ Forget(t, "ended")
    <3>1. /\ pc' = [pc EXCEPT ![t] = "releasing"] /\ loose' = loose \ {t}
          /\ UNCHANGED <<target, seen, drops>>
      BY <1>8, <2>3 DEF Close
    <3>2. /\ \A u \in Turns : pc'[u] \in BeforeClaim => pc[u] \in BeforeClaim
          /\ \A u \in Turns : pc[u] \in Answered => pc'[u] \in Answered
          /\ \A u \in Turns : u \in Active' \ loose' => u \in Active \ loose
      BY <3>1 DEF TypeOK, BeforeClaim, Answered, Active, ActivePcs
    <3>3. QED
      BY <2>1, <3>1, <3>2, <1>s, SameRows
  <2>4. QED
    BY <2>2, <2>3
<1>9. ASSUME NEW t \in Turns, ReleaseTurn(t)
      PROVE  TranscriptInv'
  <2>1. Forget(t, "ended") /\ rows' = rows /\ now' = now
    BY <1>9 DEF ReleaseTurn
  <2>2. QED
    BY <2>1, ForgetTranscript
<1>10. CASE \/ \E s \in Stops : StopRelease(s) \/ \E r \in Replicas : StopFire(s, r)
            \/ \E r \in Replicas : Deliver(r)
            \/ ClaimExpires
  <2>1. /\ UNCHANGED <<pc, target, seen, drops, rows, now>> /\ loose \subseteq loose'
    BY <1>10 DEF StopRelease, StopFire, Deliver, ClaimExpires
  <2>2. \A u \in Turns : u \in Active' \ loose' => u \in Active \ loose
    BY <2>1 DEF Active
  <2>3. QED
    BY <2>1, <2>2, <1>s, SameRows
<1>11. ASSUME NEW r \in Replicas, Crash(r)
       PROVE  TranscriptInv'
  <2> DEFINE dead == {t \in Turns : home[t] = r}
  <2>1. /\ pc' = [t \in Turns |-> IF t \in dead THEN "ended" ELSE pc[t]]
        /\ target' = [t \in Turns |-> IF t \in dead THEN None ELSE target[t]]
        /\ seen' = [t \in Turns |-> IF t \in dead THEN {} ELSE seen[t]]
        /\ drops' = [t \in Turns |-> IF t \in dead THEN {} ELSE drops[t]]
        /\ loose' = loose \ dead /\ UNCHANGED <<rows, now>>
    BY <1>11 DEF Crash
  <2> HIDE DEF dead
  <2>2. /\ \A u \in Turns : pc'[u] \in BeforeClaim => pc[u] \in BeforeClaim
        /\ \A u \in Turns : pc[u] \in Answered => pc'[u] \in Answered
    BY <2>1 DEF BeforeClaim, Answered
  <2>3. \A u \in Turns : u \in Active' \ loose' => u \in Active \ loose
    BY <2>1 DEF Active, ActivePcs
  <2>4. \A u \in Turns : /\ target'[u] \in {target[u], None}
                        /\ seen'[u] \subseteq seen[u] /\ drops'[u] \subseteq drops[u]
    BY <2>1
  <2>5. QED
    BY <2>1, <2>2, <2>3, <2>4, <1>s, SameRows
<1>12. CASE QuestionAges
  <2>1. /\ UNCHANGED <<pc, target, seen, drops, now, loose>>
        /\ \E q \in rows : rows' = (rows \ {q}) \cup {[q EXCEPT !.old = TRUE]}
    BY <1>12 DEF QuestionAges
  <2>2. \A m \in rows : Like([m EXCEPT !.old = TRUE], m)
    BY <1>r, RowsAlike
  <2>3. \A m \in rows' : \E n \in rows : Like(m, n)
    BY <2>1, <2>2, <1>s
  <2>4. \A u \in Turns : u \in Active' \ loose' => u \in Active \ loose
    BY <2>1 DEF Active
  <2>5. QED
    BY <2>1, <2>3, <2>4, SameRows
<1>13. CASE UNCHANGED vars
  <2>1. UNCHANGED <<pc, target, seen, drops, rows, now, loose>>
    BY <1>13 DEF vars
  <2>2. \A u \in Turns : u \in Active' \ loose' => u \in Active \ loose
    BY <2>1 DEF Active
  <2>3. QED
    BY <2>1, <2>2, <1>s, SameRows
<1>14. QED
  BY <1>1, <1>2, <1>3, <1>4, <1>5, <1>6, <1>7, <1>8, <1>9, <1>10, <1>11, <1>12, <1>13 DEF Next

LEMMA TranscriptHolds == Spec => [](Typed /\ TranscriptInv)
<1>1. Init => Typed /\ Tokens /\ Guarded /\ TranscriptInv
  BY TypedInit, GuardedInit, TranscriptInit
<1>2. Typed /\ Tokens /\ Guarded /\ TranscriptInv /\ [Next]_vars
      => (Typed /\ Tokens /\ Guarded /\ TranscriptInv)'
  BY TypedStep, GuardedStep, TranscriptStep
<1>3. QED
  BY <1>1, <1>2, PTL DEF Spec

\* _answer_turn: the transcript stays question, answer: an answer to a new question,
\* written under its claim, has no other question between it and its own.
THEOREM TranscriptStaysInOrder == Spec => []AnswerFollowsItsQuestion
<1>1. TranscriptInv => AnswerFollowsItsQuestion
  BY DEF TranscriptInv
<1>2. QED
  BY <1>1, TranscriptHolds, PTL

\* The settling transaction: a complete answer leaves the table only in a step that
\* stores another turn's answer, whatever reruns, crashes and expired claims do.
THEOREM ReplacedAnswersStay == Spec => RerunKeepsAnswerUntilReplaced
<1> DEFINE Kept == \A m \in rows : Complete(m) /\ m \notin rows'
                     => \E n \in rows' \ rows : n.role = "assistant" /\ n.id # m.id
<1>1. ASSUME Typed, TranscriptInv, [Next]_vars
      PROVE  rows' = rows \/ Kept
  <2> SUFFICES ASSUME rows' # rows PROVE Kept
    OBVIOUS
  <2> USE DEF session, process, local
  <2>0. rows \subseteq Row /\ now \in Nat
    BY <1>1 DEF Typed, TypeOK
  <2>1. ASSUME NEW t \in Turns, ClaimAndCommit(t)
        PROVE  Kept
    <3> SUFFICES ASSUME NEW m \in rows, Complete(m) PROVE m \in rows'
      OBVIOUS
    <3>1. rows' = RowsAsked(t) /\ ~ IsQuestion(m, target[t])
      BY <2>1 DEF ClaimAndCommit, Complete, IsQuestion
    <3>2. QED
      BY <3>1 DEF RowsAsked
  <2>2. ASSUME NEW t \in Turns, BowOut(t)
        PROVE  Kept
    BY <2>2 DEF BowOut, Complete, IsQuestion
  <2>3. ASSUME NEW t \in Turns, Settle(t)
        PROVE  Kept
    <3>1. PICK content \in BOOLEAN : rows' = RowsSettled(t, content)
      BY <2>3 DEF Settle
    <3> SUFFICES ASSUME NEW m \in rows, Complete(m), m \notin rows'
                 PROVE  \E n \in rows' \ rows : n.role = "assistant" /\ n.id # m.id
      OBVIOUS
    <3>2. content
      BY <3>1 DEF RowsSettled, Complete, IsQuestion
    <3>3. m.id \in drops[t] /\ Answer(t) \in rows'
      BY <3>1, <3>2 DEF RowsSettled
    <3>4. Answer(t).role = "assistant" /\ Answer(t).id = t /\ Answer(t).at = now
      BY DEF Answer
    <3>5. Answer(t) \notin rows
      BY <1>1, <2>0, <3>4 DEF TranscriptInv, RowsAreOld
    <3>6. m.id # t
      BY <1>1, <3>3 DEF TranscriptInv, OthersAreReplaced
    <3>7. QED
      BY <3>3, <3>4, <3>5, <3>6
  <2>4. CASE QuestionAges
    BY <2>4 DEF QuestionAges, Complete
  <2>5. ASSUME NEW t \in Turns,
               \/ ReadHistory(t) \/ Refuse(t) \/ Abandon(t) \/ Supersede(t) \/ Register(t)
               \/ EndStream(t) \/ SettleFails(t) \/ Close(t) \/ ReleaseTurn(t)
               \/ \E r \in Replicas : Send(t, r)
        PROVE  FALSE
    BY <2>5 DEF ReadHistory, Refuse, Abandon, Supersede, Register, EndStream, SettleFails, Close,
                ReleaseTurn, Send
  <2>6. CASE \/ \E s \in Stops : StopRelease(s) \/ \E r \in Replicas : StopFire(s, r)
             \/ \E r \in Replicas : Crash(r) \/ Deliver(r)
             \/ ClaimExpires \/ UNCHANGED vars
    BY <2>6 DEF StopRelease, StopFire, Crash, Deliver, ClaimExpires, vars
  <2>7. QED
    BY <1>1, <2>1, <2>2, <2>3, <2>4, <2>5, <2>6 DEF Next
<1>2. Typed /\ TranscriptInv /\ [Next]_vars => [Kept]_vars
  <2>1. ASSUME Typed, TranscriptInv, [Next]_vars, rows' = rows PROVE Kept
    BY <2>1
  <2>2. QED
    BY <1>1, <2>1
<1>3. QED
  BY <1>2, TranscriptHolds, PTL DEF Spec, RerunKeepsAnswerUntilReplaced

-----------------------------------------------------------------------------
(* The trace of a settled turn.  A rerun that found a complete answer does *)
(* not mark its question, so while it is beside one other rerun at most,   *)
(* an answer must stand behind the question until it settles: the complete *)
(* one it is to replace, or one of the other rerun, which nobody is left   *)
(* to take away.                                                           *)

\* A rerun that will mark nothing when it ends empty.
Replacing(t) ==
  \/ pc[t] = "prepared" /\ Replaced(t) # {}
  \/ pc[t] \in {"claimed", "superseding", "streaming", "settling"} /\ drops[t] # {}

BesideOne(t) == \A u, v \in Others(t) : u = v

\* An answer behind row q that no claim can take away while t is beside one other.
AnswerBehind(t, q) ==
  \E m \in rows : /\ m.role = "assistant" /\ m.at > q.at
                  /\ Complete(m) \/ (m.id \in Others(t) /\ m \notin seen[t])

TraceStands ==
  \A t \in Reruns : Replacing(t) /\ BesideOne(t) =>
    \A q \in rows : IsQuestion(q, target[t]) => AnswerBehind(t, q)

SendsReplaceNothing == \A t \in Sends : seen[t] = {} /\ drops[t] = {}
SeenRowsAreOld == \A t \in Turns : \A m \in seen[t] : m.at < now
OneRowAQuestion == \A q, p \in rows : q.role = "user" /\ IsQuestion(p, q.id) => q.at = p.at
TargetsAreAsked == \A t \in Reruns : target[t] # None => pc[target[t]] \notin BeforeClaim

TraceInv ==
  /\ SendsReplaceNothing /\ SeenRowsAreOld /\ OneRowAQuestion /\ TargetsAreAsked
  /\ TraceStands

LEMMA TraceInit == Init => TraceInv
<1> SUFFICES ASSUME Init PROVE TraceInv
  OBVIOUS
<1>1. SendsReplaceNothing /\ SeenRowsAreOld /\ OneRowAQuestion /\ TargetsAreAsked
  BY DEF Init, SendsReplaceNothing, SeenRowsAreOld, OneRowAQuestion, TargetsAreAsked, Turns
<1>2. TraceStands
  BY DEF Init, TraceStands
<1> QED BY <1>1, <1>2 DEF TraceInv

\* Whoever has claimed has claimed for good.
LEMMA OthersStay ==
  ASSUME NEW t \in Reruns,
         \A u \in Turns : pc[u] \notin BeforeClaim => pc'[u] \notin BeforeClaim
  PROVE  Others(t) \subseteq Others(t)' /\ (BesideOne(t)' => BesideOne(t))
<1>1. Others(t) \subseteq Others(t)'
  BY DEF Others, Turns
<1> QED BY <1>1 DEF BesideOne

\* A step that takes no answer away, adds no question, claims nothing and reads
\* nothing keeps the trace.
LEMMA QuietTrace ==
  ASSUME TypeOK, TraceInv, now' = now,
         \A m \in rows' : m.role = "user" => \E n \in rows : Like(m, n),
         \A m \in rows : m.role = "assistant" => m \in rows',
         \A u \in Turns : pc[u] \notin BeforeClaim => pc'[u] \notin BeforeClaim,
         \A u \in Turns : target'[u] \in {target[u], None},
         \A u \in Turns : seen'[u] \subseteq seen[u] /\ drops'[u] \subseteq drops[u],
         \A u \in Reruns : Replacing(u)' => Replacing(u) /\ target'[u] = target[u]
  PROVE  TraceInv'
<1>1. SendsReplaceNothing' /\ SeenRowsAreOld'
  BY DEF TraceInv, SendsReplaceNothing, SeenRowsAreOld, Turns
<1>2. OneRowAQuestion'
  <2> SUFFICES ASSUME NEW q \in rows', NEW p \in rows', q.role = "user", IsQuestion(p, q.id)
               PROVE  q.at = p.at
    BY DEF OneRowAQuestion, IsQuestion
  <2>1. PICK a \in rows, b \in rows : Like(q, a) /\ Like(p, b)
    BY DEF IsQuestion
  <2> QED BY <2>1 DEF TraceInv, OneRowAQuestion, IsQuestion, Like
<1>3. TargetsAreAsked'
  BY DEF TraceInv, TargetsAreAsked, TypeOK, Turns
<1>4. TraceStands'
  <2> SUFFICES ASSUME NEW t \in Reruns, Replacing(t)', BesideOne(t)', NEW q \in rows',
                      IsQuestion(q, target'[t])
               PROVE  AnswerBehind(t, q)'
    BY DEF TraceStands, IsQuestion
  <2>1. BesideOne(t) /\ Others(t) \subseteq Others(t)' /\ t \in Turns
    BY OthersStay DEF Turns
  <2>2. PICK p \in rows : Like(q, p)
    BY DEF IsQuestion
  <2>3. IsQuestion(p, target[t]) /\ Replacing(t)
    BY <2>2 DEF IsQuestion, Like
  <2>4. AnswerBehind(t, p)
    BY <2>1, <2>3 DEF TraceInv, TraceStands
  <2> QED BY <2>1, <2>2, <2>4 DEF AnswerBehind, Like
<1> QED BY <1>1, <1>2, <1>3, <1>4 DEF TraceInv

LEMMA ForgetTrace ==
  ASSUME TypeOK, TraceInv, NEW t \in Turns, NEW next \in {"idle", "ended"},
         Forget(t, next), rows' = rows, now' = now,
         next = "idle" => pc[t] \in BeforeClaim
  PROVE  TraceInv'
<1>1. \A u \in Turns : pc[u] \notin BeforeClaim => pc'[u] \notin BeforeClaim
  BY DEF Forget, TypeOK, BeforeClaim
<1>2. \A u \in Turns : /\ target'[u] \in {target[u], None}
                      /\ seen'[u] \subseteq seen[u] /\ drops'[u] \subseteq drops[u]
  BY DEF Forget, TypeOK
<1>3. \A u \in Reruns : Replacing(u)' => Replacing(u) /\ target'[u] = target[u]
  BY DEF Forget, TypeOK, Replacing, Replaced, Turns
<1>4. \A m \in rows : Like(m, m)
  BY DEF Like
<1> QED BY <1>1, <1>2, <1>3, <1>4, QuietTrace

\* A rerun reads the complete answer it is to replace behind its question.
LEMMA ReadTrace ==
  ASSUME TypeOK, TranscriptInv, TraceInv, NEW t \in Turns, ReadHistory(t)
  PROVE  TraceInv'
<1>1. /\ pc[t] = "checked" /\ pc' = [pc EXCEPT ![t] = "prepared"]
      /\ UNCHANGED <<rows, now, target, drops>>
  BY DEF ReadHistory, session
<1>2. \A u \in Turns : pc'[u] \in BeforeClaim <=> pc[u] \in BeforeClaim
  BY <1>1 DEF TypeOK, BeforeClaim
<1>3. OneRowAQuestion' /\ TargetsAreAsked'
  BY <1>1, <1>2 DEF TraceInv, OneRowAQuestion, TargetsAreAsked, IsQuestion, TypeOK
<1>4. CASE t \in Sends
  <2>1. seen' = seen
    BY <1>4 DEF ReadHistory
  <2>2. \A u \in Reruns : Replacing(u)' => Replacing(u)
    BY <1>1, <1>4, <2>1, ChatTurnAssumption DEF Replacing, Replaced, TypeOK
  <2>3. \A m \in rows : Like(m, m)
    BY DEF Like
  <2> QED BY <1>1, <1>2, <2>1, <2>2, <2>3, QuietTrace
<1>5. CASE t \notin Sends
  <2>1. PICK q0 \in rows :
          /\ IsQuestion(q0, target[t])
          /\ seen' = [seen EXCEPT ![t] = {[q0 EXCEPT !.old = TRUE]} \cup After(rows, q0)]
    BY <1>5 DEF ReadHistory
  <2> DEFINE aged == [q0 EXCEPT !.old = TRUE]
  <2>2. q0 \in Row /\ aged.role = "user" /\ aged.at = q0.at
    BY <2>1, RowsAlike DEF TypeOK, Like, IsQuestion
  <2>3. seen'[t] = {aged} \cup After(rows, q0) /\ \A u \in Turns \ {t} : seen'[u] = seen[u]
    BY <2>1 DEF TypeOK
  <2> HIDE DEF aged
  <2>4. SendsReplaceNothing'
    BY <1>1, <1>5, <2>3 DEF TraceInv, SendsReplaceNothing, Turns
  <2>5. SeenRowsAreOld'
    BY <1>1, <2>1, <2>2, <2>3 DEF TraceInv, SeenRowsAreOld, TranscriptInv, RowsAreOld, After
  <2>6. TraceStands'
    <3> SUFFICES ASSUME NEW u \in Reruns, Replacing(u)', BesideOne(u)', NEW q \in rows',
                        IsQuestion(q, target'[u])
                 PROVE  AnswerBehind(u, q)'
      BY DEF TraceStands, IsQuestion
    <3>1. CASE u = t
      <4>1. PICK m \in seen'[t] : Complete(m)
        BY <1>1, <3>1 DEF Replacing, Replaced, TypeOK
      <4>2. m \in rows /\ m.at > q0.at /\ m.role = "assistant"
        BY <2>2, <2>3, <4>1 DEF Complete, After
      <4>3. q0.at = q.at
        BY <1>1, <2>1, <3>1 DEF TraceInv, OneRowAQuestion, IsQuestion
      <4> QED BY <1>1, <3>1, <4>1, <4>2, <4>3 DEF AnswerBehind, Complete
    <3>2. CASE u # t
      <4>1. Replacing(u) /\ BesideOne(u) /\ u \in Turns
        BY <1>1, <1>2, <2>3, <3>2, OthersStay DEF Replacing, Replaced, TypeOK, Turns
      <4>2. AnswerBehind(u, q)
        BY <1>1, <4>1 DEF TraceInv, TraceStands
      <4>3. Others(u)' = Others(u)
        BY <1>2 DEF Others, Turns
      <4> QED BY <1>1, <2>3, <3>2, <4>1, <4>2, <4>3 DEF AnswerBehind
    <3> QED BY <3>1, <3>2
  <2> QED BY <1>3, <2>4, <2>5, <2>6 DEF TraceInv
<1> QED BY <1>4, <1>5

\* A claim takes partial answers away.  A rerun that the claiming one is the only
\* other of had no other before, so what stands behind its question is complete.
LEMMA ClaimTrace ==
  ASSUME TypeOK, TranscriptInv, TraceInv, NEW t \in Turns, ClaimAndCommit(t)
  PROVE  TraceInv'
<1>1. /\ pc[t] = "prepared" /\ pc' = [pc EXCEPT ![t] = "claimed"]
      /\ rows' = RowsAsked(t) /\ target' = target
      /\ drops' = [drops EXCEPT ![t] = {m.id : m \in Replaced(t)}]
      /\ seen' = [seen EXCEPT ![t] = {}]
      /\ now' = IF t \in Sends THEN now + 1 ELSE now
  BY DEF ClaimAndCommit
<1>2. /\ \A u \in Turns : pc[u] \notin BeforeClaim => pc'[u] \notin BeforeClaim
      /\ pc[t] \in BeforeClaim /\ pc'[t] \notin BeforeClaim
  BY <1>1 DEF TypeOK, BeforeClaim
<1>3. /\ seen'[t] = {} /\ drops'[t] = {m.id : m \in Replaced(t)}
      /\ \A u \in Turns \ {t} : seen'[u] = seen[u] /\ drops'[u] = drops[u] /\ pc'[u] = pc[u]
  BY <1>1 DEF TypeOK
<1>r. /\ rows \subseteq Row /\ now \in Nat /\ Sends \cap Reruns = {}
      /\ \A m \in rows : m.at \in Nat /\ m.id \in Turns
      /\ \A u \in Turns : \A m \in seen[u] : m.at \in Nat
  BY ChatTurnAssumption DEF TypeOK, Row
<1>4. SendsReplaceNothing'
  <2>1. t \in Sends => Replaced(t) = {}
    BY DEF TraceInv, SendsReplaceNothing, Replaced
  <2> QED BY <1>3, <2>1 DEF TraceInv, SendsReplaceNothing, Turns
<1>5. SeenRowsAreOld'
  BY <1>1, <1>3, <1>r DEF TraceInv, SeenRowsAreOld
<1>6. TargetsAreAsked'
  BY <1>1, <1>2 DEF TraceInv, TargetsAreAsked, TypeOK, Turns
<1>7. \A u \in Reruns : Replacing(u)' => Replacing(u)
  BY <1>1, <1>3, ChatTurnAssumption DEF Replacing, Replaced, Turns, TypeOK
<1>8. CASE t \in Sends
  <2>1. rows' = rows \cup {Question(t)}
    BY <1>1, <1>8 DEF RowsAsked
  <2>2. Question(t).role = "user" /\ Question(t).id = t
    BY DEF Question
  <2>3. \A m \in rows : ~ IsQuestion(m, t)
    BY <1>2 DEF TranscriptInv, QuestionsAreSent, IsQuestion
  <2>4. OneRowAQuestion'
    <3> SUFFICES ASSUME NEW q \in rows', NEW p \in rows', q.role = "user", IsQuestion(p, q.id)
                 PROVE  q.at = p.at
      BY DEF OneRowAQuestion, IsQuestion
    <3>1. q = Question(t) <=> p = Question(t)
      BY <2>1, <2>2, <2>3 DEF IsQuestion
    <3> QED BY <2>1, <3>1 DEF TraceInv, OneRowAQuestion
  <2>5. TraceStands'
    <3> SUFFICES ASSUME NEW u \in Reruns, Replacing(u)', BesideOne(u)', NEW q \in rows',
                        IsQuestion(q, target'[u])
                 PROVE  AnswerBehind(u, q)'
      BY DEF TraceStands, IsQuestion
    <3>1. u # t /\ u \in Turns
      BY <1>8, <1>r DEF Turns
    <3>2. q # Question(t)
      <4>1. q.id # t
        BY <1>1, <1>2, <3>1, ChatTurnAssumption
           DEF TraceInv, TargetsAreAsked, IsQuestion
      <4> QED BY <2>2, <4>1
    <3>3. AnswerBehind(u, q)
      BY <1>1, <1>2, <1>7, <2>1, <3>1, <3>2, OthersStay DEF TraceInv, TraceStands
    <3>4. Others(u) \subseteq Others(u)' /\ seen'[u] = seen[u]
      BY <1>2, <1>3, <3>1, OthersStay
    <3> QED BY <2>1, <3>3, <3>4 DEF AnswerBehind
  <2> QED BY <1>4, <1>5, <1>6, <2>4, <2>5 DEF TraceInv
<1>9. CASE t \in Reruns
  <2>0. t \notin Sends
    BY <1>9, <1>r
  <2>1. \A m \in rows' : \E n \in rows : Like(m, n)
    <3>1. \A m \in rows : Like([m EXCEPT !.failure = FALSE], m) /\ Like(m, m)
      BY <1>r, RowsAlike
    <3> QED BY <1>1, <2>0, <3>1 DEF RowsAsked
  <2>2. \A m \in rows : m.role = "assistant" /\ (Complete(m) \/ m \notin seen[t]) => m \in rows'
    <3> SUFFICES ASSUME NEW m \in rows, m.role = "assistant", Complete(m) \/ m \notin seen[t]
                 PROVE  m \in rows'
      OBVIOUS
    <3>1. ~ IsQuestion(m, target[t])
      BY DEF IsQuestion
    <3> QED BY <1>1, <2>0, <3>1 DEF RowsAsked
  <2>3. OneRowAQuestion'
    <3> SUFFICES ASSUME NEW q \in rows', NEW p \in rows', q.role = "user", IsQuestion(p, q.id)
                 PROVE  q.at = p.at
      BY DEF OneRowAQuestion, IsQuestion
    <3>1. PICK a \in rows, b \in rows : Like(q, a) /\ Like(p, b)
      BY <2>1
    <3> QED BY <3>1 DEF TraceInv, OneRowAQuestion, IsQuestion, Like
  <2>4. TraceStands'
    <3> SUFFICES ASSUME NEW u \in Reruns, Replacing(u)', BesideOne(u)', NEW q \in rows',
                        IsQuestion(q, target'[u])
                 PROVE  AnswerBehind(u, q)'
      BY DEF TraceStands, IsQuestion
    <3>1. BesideOne(u) /\ Others(u) \subseteq Others(u)' /\ u \in Turns
      BY <1>2, OthersStay DEF Turns
    <3>2. PICK p \in rows : Like(q, p)
      BY <2>1
    <3>3. AnswerBehind(u, p)
      BY <1>1, <1>7, <3>1, <3>2 DEF TraceInv, TraceStands, IsQuestion, Like
    <3>4. PICK m \in rows : /\ m.role = "assistant" /\ m.at > p.at
                            /\ Complete(m) \/ (m.id \in Others(u) /\ m \notin seen[u])
      BY <3>3 DEF AnswerBehind
    <3>5. Complete(m) \/ m \notin seen[t]
      <4>1. CASE u = t
        BY <3>4, <4>1
      <4>2. CASE u # t
        <5>1. t \in Others(u)' /\ t \notin Others(u)
          BY <1>2, <1>9, <4>2 DEF Others
        <5>2. Others(u) = {}
          BY <3>1, <5>1 DEF BesideOne
        <5> QED BY <3>4, <5>2
      <4> QED BY <4>1, <4>2
    <3>6. m \in rows' /\ seen'[u] \subseteq seen[u]
      BY <1>3, <2>2, <3>1, <3>4, <3>5
    <3> QED BY <3>1, <3>2, <3>4, <3>6 DEF AnswerBehind, Like
  <2> QED BY <1>4, <1>5, <1>6, <2>3, <2>4 DEF TraceInv
<1> QED BY <1>8, <1>9 DEF Turns

\* A settlement that takes answers away stores a newer one.
LEMMA SettleTrace ==
  ASSUME TypeOK, TranscriptInv, TraceInv, NEW t \in Turns, Settle(t)
  PROVE  TraceInv'
<1>1. /\ pc[t] = "settling" /\ pc' = [pc EXCEPT ![t] = "closing"]
      /\ UNCHANGED <<target, seen, drops>>
  BY DEF Settle
<1>2. PICK content \in BOOLEAN : rows' = RowsSettled(t, content)
                                /\ now' = IF content THEN now + 1 ELSE now
  BY DEF Settle
<1>3. /\ \A u \in Turns : pc[u] \notin BeforeClaim => pc'[u] \notin BeforeClaim
      /\ \A u \in Reruns : Replacing(u)' => Replacing(u) /\ u # t
      /\ pc[t] \notin BeforeClaim
  BY <1>1 DEF TypeOK, BeforeClaim, Replacing, Replaced, Turns
<1>r. /\ rows \subseteq Row /\ now \in Nat
      /\ \A m \in rows : m.at \in Nat /\ m.id \in Turns
      /\ \A u \in Turns : \A m \in seen[u] : m.at \in Nat
  BY DEF TypeOK, Row
<1>4. CASE ~content
  <2>1. \A m \in rows : Like([m EXCEPT !.failure = TRUE], m) /\ Like(m, m)
    BY <1>r, RowsAlike
  <2>2. \A m \in rows' : \E n \in rows : Like(m, n)
    BY <1>2, <1>4, <2>1 DEF RowsSettled
  <2>3. \A m \in rows : m.role = "assistant" => m \in rows'
    BY <1>2, <1>4 DEF RowsSettled, IsQuestion
  <2> QED BY <1>1, <1>2, <1>3, <1>4, <2>2, <2>3, QuietTrace
<1>5. CASE content
  <2>1. /\ rows' = {m \in rows : ~(m.role = "assistant" /\ m.id \in drops[t])} \cup {Answer(t)}
        /\ now' = now + 1
    BY <1>2, <1>5 DEF RowsSettled
  <2>2. Answer(t).role = "assistant" /\ Answer(t).id = t /\ Answer(t).at = now
    BY DEF Answer
  <2>3. SendsReplaceNothing' /\ SeenRowsAreOld'
    BY <1>1, <1>r, <2>1 DEF TraceInv, SendsReplaceNothing, SeenRowsAreOld
  <2>4. OneRowAQuestion' /\ TargetsAreAsked'
    <3>1. \A m \in rows' : m.role = "user" => m \in rows
      BY <2>1, <2>2
    <3>2. OneRowAQuestion'
      BY <3>1 DEF TraceInv, OneRowAQuestion, IsQuestion
    <3> QED BY <1>1, <1>3, <3>2 DEF TraceInv, TargetsAreAsked, TypeOK, Turns
  <2>5. TraceStands'
    <3> SUFFICES ASSUME NEW u \in Reruns, Replacing(u)', BesideOne(u)', NEW q \in rows',
                        IsQuestion(q, target'[u])
                 PROVE  AnswerBehind(u, q)'
      BY DEF TraceStands, IsQuestion
    <3>1. Replacing(u) /\ u # t /\ u \in Turns
      BY <1>3 DEF Turns
    <3>2. BesideOne(u) /\ Others(u) \subseteq Others(u)'
      BY <1>3, OthersStay
    <3>3. q \in rows
      BY <2>1, <2>2 DEF IsQuestion
    <3>4. AnswerBehind(u, q)
      BY <1>1, <3>1, <3>2, <3>3 DEF TraceInv, TraceStands
    <3>5. PICK m \in rows : /\ m.role = "assistant" /\ m.at > q.at
                            /\ Complete(m) \/ (m.id \in Others(u) /\ m \notin seen[u])
      BY <3>4 DEF AnswerBehind
    <3>6. CASE m \in rows'
      BY <1>1, <3>2, <3>5, <3>6 DEF AnswerBehind
    <3>7. CASE m \notin rows'
      <4>1. drops[t] # {}
        BY <2>1, <3>7
      <4>2. t \in Others(u)'
        BY <1>3, <3>1, <4>1 DEF TraceInv, SendsReplaceNothing, Others, Turns
      <4>3. Answer(t) \in rows' /\ Answer(t).at > q.at
        BY <1>r, <2>1, <2>2, <3>3 DEF TranscriptInv, RowsAreOld
      <4>4. Answer(t) \notin seen'[u]
        BY <1>1, <1>r, <2>2, <3>1 DEF TraceInv, SeenRowsAreOld
      <4> QED BY <2>2, <4>2, <4>3, <4>4 DEF AnswerBehind
    <3> QED BY <3>6, <3>7
  <2> QED BY <2>3, <2>4, <2>5 DEF TraceInv
<1> QED BY <1>4, <1>5

\* The trace stands, one step per action.
LEMMA TraceStep ==
  TypeOK /\ TranscriptInv /\ TraceInv /\ [Next]_vars => TraceInv'
<1> SUFFICES ASSUME TypeOK, TranscriptInv, TraceInv, [Next]_vars
             PROVE  TraceInv'
  OBVIOUS
<1> USE DEF session, process, local
<1>s. \A m \in rows : Like(m, m) /\ m \in Row
  BY DEF Like, TypeOK
<1>1. ASSUME NEW t \in Turns, NEW r \in Replicas, Send(t, r)
      PROVE  TraceInv'
  <2>1. /\ pc[t] = "idle" /\ pc' = [pc EXCEPT ![t] = "checked"]
        /\ UNCHANGED <<rows, now, seen, drops>>
        /\ \/ target' = target
           \/ t \in Reruns /\ \E q \in rows : q.role = "user" /\ target' = [target EXCEPT ![t] = q.id]
    BY <1>1 DEF Send, Turns
  <2>2. \A u \in Turns : pc'[u] \in BeforeClaim <=> pc[u] \in BeforeClaim
    BY <2>1 DEF TypeOK, BeforeClaim
  <2>3. TargetsAreAsked'
    <3> SUFFICES ASSUME NEW u \in Reruns, target'[u] # None PROVE pc'[target'[u]] \notin BeforeClaim
      BY DEF TargetsAreAsked
    <3>1. u \in Turns /\ target[u] \in Turns \cup {None}
      BY DEF TypeOK, Turns
    <3>2. CASE target'[u] = target[u]
      BY <2>2, <3>1, <3>2 DEF TraceInv, TargetsAreAsked
    <3>3. CASE target'[u] # target[u]
      <4>1. PICK q \in rows : q.role = "user" /\ target'[u] = q.id
        BY <2>1, <3>1, <3>3 DEF TypeOK
      <4>2. q.id \in Turns /\ pc[q.id] \notin BeforeClaim
        BY <4>1 DEF TranscriptInv, QuestionsAreSent, Turns
      <4> QED BY <2>2, <4>1, <4>2
    <3> QED BY <3>2, <3>3
  <2>4. SendsReplaceNothing' /\ SeenRowsAreOld' /\ OneRowAQuestion'
    BY <2>1 DEF TraceInv, SendsReplaceNothing, SeenRowsAreOld, OneRowAQuestion, IsQuestion
  <2>5. TraceStands'
    <3> SUFFICES ASSUME NEW u \in Reruns, Replacing(u)', BesideOne(u)', NEW q \in rows',
                        IsQuestion(q, target'[u])
                 PROVE  AnswerBehind(u, q)'
      BY DEF TraceStands, IsQuestion
    <3>1. u # t /\ Replacing(u) /\ target'[u] = target[u] /\ u \in Turns
      BY <2>1 DEF Replacing, Replaced, TypeOK, Turns
    <3>2. Others(u)' = Others(u)
      BY <2>2 DEF Others, Turns
    <3>3. AnswerBehind(u, q)
      BY <2>1, <3>1, <3>2 DEF TraceInv, TraceStands, BesideOne
    <3> QED BY <2>1, <3>2, <3>3 DEF AnswerBehind
  <2> QED BY <2>3, <2>4, <2>5 DEF TraceInv
<1>2. ASSUME NEW t \in Turns,
             Refuse(t) \/ Abandon(t) \/ SettleFails(t) \/ ReleaseTurn(t)
      PROVE  TraceInv'
  <2>1. /\ rows' = rows /\ now' = now
        /\ \/ Forget(t, "idle") /\ pc[t] \in BeforeClaim
           \/ Forget(t, "ended")
    BY <1>2 DEF Refuse, Abandon, SettleFails, ReleaseTurn, BeforeClaim
  <2> QED BY <2>1, ForgetTrace
<1>3. ASSUME NEW t \in Turns, BowOut(t) \/ Supersede(t) \/ Register(t) \/ EndStream(t)
      PROVE  TraceInv'
  <2>1. /\ UNCHANGED <<now, target, seen, drops>> /\ rows' \subseteq rows
        /\ \A m \in rows : m.role = "assistant" => m \in rows'
        /\ \/ pc[t] \in ActivePcs /\ pc' = [pc EXCEPT ![t] = "closing"]
           \/ /\ pc[t] \in {"claimed", "superseding", "streaming"}
              /\ \E p \in {"superseding", "streaming", "settling"} : pc' = [pc EXCEPT ![t] = p]
    BY <1>3 DEF BowOut, Supersede, Register, EndStream, ActivePcs, IsQuestion
  <2>2. \A u \in Turns : pc[u] \notin BeforeClaim => pc'[u] \notin BeforeClaim
    BY <2>1 DEF TypeOK, BeforeClaim
  <2>3. \A u \in Reruns : Replacing(u)' => Replacing(u)
    BY <2>1 DEF Replacing, Replaced, TypeOK, Turns
  <2> QED BY <1>s, <2>1, <2>2, <2>3, QuietTrace
<1>4. ASSUME NEW t \in Turns, Close(t)
      PROVE  TraceInv'
  <2>1. rows' = rows /\ now' = now /\ pc[t] = "closing"
    BY <1>4 DEF Close
  <2>2. CASE Forget(t, "ended")
    BY <2>1, <2>2, ForgetTrace
  <2>3. CASE ~ Forget(t, "ended")
    <3>1. pc' = [pc EXCEPT ![t] = "releasing"] /\ UNCHANGED <<target, seen, drops>>
      BY <1>4, <2>3 DEF Close
    <3>2. \A u \in Turns : pc[u] \notin BeforeClaim => pc'[u] \notin BeforeClaim
      BY <3>1 DEF TypeOK, BeforeClaim
    <3>3. \A u \in Reruns : Replacing(u)' => Replacing(u)
      BY <3>1 DEF Replacing, Replaced, TypeOK, Turns
    <3> QED BY <1>s, <2>1, <3>1, <3>2, <3>3, QuietTrace
  <2> QED BY <2>2, <2>3
<1>5. CASE \/ \E s \in Stops : StopRelease(s) \/ \E r \in Replicas : StopFire(s, r)
           \/ \E r \in Replicas : Deliver(r)
           \/ ClaimExpires \/ UNCHANGED vars
  <2>1. UNCHANGED <<pc, target, seen, drops, rows, now>>
    BY <1>5 DEF StopRelease, StopFire, Deliver, ClaimExpires, vars
  <2>2. \A u \in Reruns : Replacing(u)' => Replacing(u)
    BY <2>1 DEF Replacing, Replaced
  <2> QED BY <1>s, <2>1, <2>2, QuietTrace
<1>6. ASSUME NEW r \in Replicas, Crash(r)
      PROVE  TraceInv'
  <2> DEFINE dead == {t \in Turns : home[t] = r}
  <2>1. /\ pc' = [t \in Turns |-> IF t \in dead THEN "ended" ELSE pc[t]]
        /\ target' = [t \in Turns |-> IF t \in dead THEN None ELSE target[t]]
        /\ seen' = [t \in Turns |-> IF t \in dead THEN {} ELSE seen[t]]
        /\ drops' = [t \in Turns |-> IF t \in dead THEN {} ELSE drops[t]]
        /\ UNCHANGED <<rows, now>>
    BY <1>6 DEF Crash
  <2> HIDE DEF dead
  <2>2. /\ \A u \in Turns : pc[u] \notin BeforeClaim => pc'[u] \notin BeforeClaim
        /\ \A u \in Turns : target'[u] \in {target[u], None}
        /\ \A u \in Turns : seen'[u] \subseteq seen[u] /\ drops'[u] \subseteq drops[u]
    BY <2>1 DEF BeforeClaim
  <2>3. \A u \in Reruns : Replacing(u)' => Replacing(u) /\ target'[u] = target[u]
    BY <2>1 DEF Replacing, Replaced, Turns
  <2> QED BY <1>s, <2>1, <2>2, <2>3, QuietTrace
<1>7. CASE QuestionAges
  <2>1. /\ UNCHANGED <<pc, target, seen, drops, now>>
        /\ \E q \in rows : q.role = "user" /\ rows' = (rows \ {q}) \cup {[q EXCEPT !.old = TRUE]}
    BY <1>7 DEF QuestionAges
  <2>2. /\ \A m \in rows' : \E n \in rows : Like(m, n)
        /\ \A m \in rows : m.role = "assistant" => m \in rows'
    BY <1>s, <2>1, RowsAlike
  <2>3. \A u \in Reruns : Replacing(u)' => Replacing(u)
    BY <2>1 DEF Replacing, Replaced
  <2> QED BY <2>1, <2>2, <2>3, QuietTrace
<1> QED
  BY <1>1, <1>2, <1>3, <1>4, <1>5, <1>6, <1>7, ReadTrace, ClaimTrace, SettleTrace DEF Next

\* What a settlement leaves when the trace stands.
LEMMA SettledLeaves ==
  ASSUME TypeOK, TranscriptInv, TraceInv, NEW t \in Turns, Settle(t), BesideOne(t),
         NEW q \in rows', IsQuestion(q, AskedBy(t))
  PROVE  q.failure \/ \E m \in rows' : m.role = "assistant" /\ m.at > q.at
<1>1. PICK content \in BOOLEAN : rows' = RowsSettled(t, content)
  BY DEF Settle
<1>2. pc[t] = "settling" /\ rows \subseteq Row /\ now \in Nat /\ \A m \in rows : m.at \in Nat
  BY DEF Settle, TypeOK, Row
<1>3. CASE content
  <2>1. Answer(t).role = "assistant" /\ Answer(t).at = now /\ Answer(t) \in rows'
    BY <1>1, <1>3 DEF Answer, RowsSettled
  <2>2. q \in rows
    BY <1>1, <1>3 DEF RowsSettled, Answer, IsQuestion
  <2> QED BY <1>2, <2>1, <2>2 DEF TranscriptInv, RowsAreOld
<1>4. CASE ~content /\ drops[t] = {}
  <2>1. PICK m \in rows : q = IF IsQuestion(m, AskedBy(t)) THEN [m EXCEPT !.failure = TRUE] ELSE m
    BY <1>1, <1>4 DEF RowsSettled
  <2>2. IsQuestion(m, AskedBy(t))
    BY <2>1
  <2> QED BY <1>2, <2>1, <2>2 DEF Row
<1>5. CASE ~content /\ drops[t] # {}
  <2>1. t \in Reruns /\ t \notin Sends /\ Replacing(t)
    BY <1>2, <1>5 DEF TraceInv, SendsReplaceNothing, Turns, Replacing
  <2>2. rows' = rows /\ IsQuestion(q, target[t])
    BY <1>1, <1>5, <2>1 DEF RowsSettled, AskedBy
  <2>3. AnswerBehind(t, q)
    BY <2>1, <2>2 DEF TraceInv, TraceStands
  <2> QED BY <2>2, <2>3 DEF AnswerBehind
<1> QED BY <1>3, <1>4, <1>5

\* _answer_turn's settling transaction: beside any number of sends, stops, crashes and
\* expired claims and one other rerun, a turn that settles leaves its question gone,
\* marked or answered.
THEOREM SettledTurnsLeaveATrace == Spec => SettledTurnLeavesATrace
<1> DEFINE Left ==
      \A t \in Turns :
        /\ pc[t] = "settling" /\ pc'[t] = "closing"
        /\ \A u, v \in Others(t) : u = v
        => \A q \in rows' : IsQuestion(q, AskedBy(t)) =>
             q.failure \/ \E m \in rows' : m.role = "assistant" /\ m.at > q.at
<1>1. Init => Typed /\ Tokens /\ Guarded /\ TranscriptInv /\ TraceInv
  BY TypedInit, GuardedInit, TranscriptInit, TraceInit
<1>2. Typed /\ Tokens /\ Guarded /\ TranscriptInv /\ TraceInv /\ [Next]_vars
      => (Typed /\ Tokens /\ Guarded /\ TranscriptInv /\ TraceInv)'
  BY TypedStep, GuardedStep, TranscriptStep, TraceStep DEF Typed
<1>3. ASSUME TypeOK, TranscriptInv, TraceInv, [Next]_vars PROVE Left
  <2> SUFFICES ASSUME NEW t \in Turns, pc[t] = "settling", pc'[t] = "closing",
                      \A u, v \in Others(t) : u = v,
                      NEW q \in rows', IsQuestion(q, AskedBy(t))
               PROVE  q.failure \/ \E m \in rows' : m.role = "assistant" /\ m.at > q.at
    OBVIOUS
  <2>1. Settle(t)
    <3> USE DEF local, TypeOK
    <3>1. ASSUME NEW u \in Turns,
                 \/ \E r \in Replicas : Send(u, r)
                 \/ ReadHistory(u) \/ Refuse(u) \/ ClaimAndCommit(u) \/ Abandon(u)
          PROVE  FALSE
      BY <3>1, <1>3 DEF Send, ReadHistory, Refuse, ClaimAndCommit, Abandon, Forget
    <3>2. ASSUME NEW u \in Turns,
                 \/ BowOut(u) \/ Supersede(u) \/ Register(u) \/ EndStream(u)
          PROVE  FALSE
      BY <3>2, <1>3 DEF BowOut, Supersede, Register, EndStream, Forget
    <3>3. ASSUME NEW u \in Turns, SettleFails(u) \/ Close(u) \/ ReleaseTurn(u)
          PROVE  FALSE
      BY <3>3, <1>3 DEF SettleFails, Close, ReleaseTurn, Forget
    <3>4. ASSUME NEW u \in Turns, Settle(u) PROVE u = t
      BY <3>4, <1>3 DEF Settle
    <3>5. ASSUME \/ \E s \in Stops : StopRelease(s) \/ \E r \in Replicas : StopFire(s, r)
                 \/ \E r \in Replicas : Crash(r) \/ Deliver(r)
                 \/ QuestionAges \/ ClaimExpires \/ UNCHANGED vars
          PROVE  FALSE
      BY <3>5 DEF StopRelease, StopFire, Crash, Deliver, QuestionAges, ClaimExpires, vars
    <3> HIDE DEF local, TypeOK
    <3> QED BY <1>3, <3>1, <3>2, <3>3, <3>4, <3>5 DEF Next
  <2> QED BY <1>3, <2>1, SettledLeaves DEF BesideOne
<1>4. Typed /\ TranscriptInv /\ TraceInv /\ [Next]_vars => [Left]_vars
  BY <1>3 DEF Typed
<1> QED
  BY <1>1, <1>2, <1>4, PTL DEF Spec, SettledTurnLeavesATrace

-----------------------------------------------------------------------------
(* The claim is TurnLease's lease.                                         *)

LooseAtWork == loose \subseteq Active

\* A request that is over is a turn that ends, or changes nothing of the lease.
LEMMA ForgetEnds ==
  ASSUME TypeOK, NEW t \in Turns, NEW next \in {"idle", "releasing", "ended"},
         pc' = [pc EXCEPT ![t] = next], loose' = loose \ {t}
  PROVE  Active' = Active \ {t} /\ (Active \ loose)' = (Active \ loose) \ {t}
BY DEF TypeOK, Active, ActivePcs

LEMMA LeaseInit == Init => LooseAtWork /\ Lease!Init
BY DEF Init, LooseAtWork, Lease!Init, Active, ActivePcs

\* A claim begins a turn as the lease does: whoever is in the way has lost the
\* conversation or let its claim expire.
LEMMA ClaimBegins ==
  ASSUME TypeOK, Guarded, LooseAtWork, NEW t \in Turns, ClaimAndCommit(t)
  PROVE  LooseAtWork' /\ Lease!Begin(t)
<1>1. /\ pc[t] = "prepared" /\ pc' = [pc EXCEPT ![t] = "claimed"] /\ Claimable /\ stale' = FALSE
      /\ loose' = IF Active # {} /\ (stale \/ Active \cap loose # {})
                    THEN loose \cup Active \cup {t} ELSE loose
  BY DEF ClaimAndCommit
<1>2. t \notin Active /\ Active' = Active \cup {t}
  BY <1>1 DEF TypeOK, Active, ActivePcs
<1>3. \A u \in Active \ loose : stale
  <2> SUFFICES ASSUME NEW u \in Active \ loose PROVE stale
    OBVIOUS
  <2>1. claim = u /\ u \in Turns
    BY DEF Guarded, ClaimGuards, Active
  <2> QED BY <1>1, <2>1, ChatTurnAssumption DEF Claimable
<1>4. CASE Active = {}
  BY <1>1, <1>2, <1>4 DEF LooseAtWork, Lease!Begin
<1>5. CASE Active # {}
  <2>1. stale \/ Active \cap loose # {}
    BY <1>3, <1>5
  <2>2. Active \ loose = {} \/ stale
    BY <1>3
  <2>3. loose' = loose \cup Active \cup {t}
    BY <1>1, <1>5, <2>1
  <2> QED BY <1>1, <1>2, <1>5, <2>2, <2>3 DEF LooseAtWork, Lease!Begin
<1> QED BY <1>4, <1>5

\* Every step is a step of the lease or leaves it alone.
LEMMA LeaseStep ==
  TypeOK /\ Guarded /\ LooseAtWork /\ [Next]_vars
    => LooseAtWork' /\ [Lease!Next]_(Lease!vars)
<1> SUFFICES ASSUME TypeOK, Guarded, LooseAtWork, [Next]_vars
             PROVE  LooseAtWork' /\ [Lease!Next]_(Lease!vars)
  OBVIOUS
<1> USE DEF session, process, local
<1> DEFINE holders == Active \ loose
<1>1. ASSUME Active' = Active, loose' = loose, stale' = stale
      PROVE  LooseAtWork' /\ [Lease!Next]_(Lease!vars)
  BY <1>1 DEF LooseAtWork, Lease!vars
<1>2. ASSUME NEW S \in SUBSET Turns, Active' = Active \ S, holders' = holders \ S,
             stale' = stale, loose' = loose \ S
      PROVE  LooseAtWork' /\ [Lease!Next]_(Lease!vars)
  <2>1. Lease!End(S \cap Active)
    BY <1>2 DEF Lease!End
  <2>2. LooseAtWork'
    BY <1>2 DEF LooseAtWork
  <2> QED BY <2>1, <2>2 DEF Lease!Next
<1>3. ASSUME NEW t \in Turns, ClaimAndCommit(t)
      PROVE  LooseAtWork' /\ [Lease!Next]_(Lease!vars)
  BY <1>3, ClaimBegins DEF Lease!Next
<1>4. ASSUME NEW t \in Turns, Refuse(t) \/ Abandon(t) \/ SettleFails(t) \/ Close(t)
      PROVE  LooseAtWork' /\ [Lease!Next]_(Lease!vars)
  <2>1. /\ \E next \in {"idle", "releasing", "ended"} : pc' = [pc EXCEPT ![t] = next]
        /\ loose' = loose \ {t} /\ stale' = stale
    BY <1>4 DEF Refuse, Abandon, SettleFails, Close, Forget
  <2>2. Active' = Active \ {t} /\ holders' = holders \ {t}
    BY <2>1, ForgetEnds
  <2> QED BY <1>2, <2>1, <2>2
<1>5. ASSUME NEW t \in Turns, ReleaseTurn(t)
      PROVE  LooseAtWork' /\ [Lease!Next]_(Lease!vars)
  <2>1. /\ pc[t] = "releasing" /\ pc' = [pc EXCEPT ![t] = "ended"] /\ loose' = loose \ {t}
        /\ stale' = stale \/ (claim = token[t] /\ stale' = FALSE)
    BY <1>5 DEF ReleaseTurn, Forget
  <2>2. Active' = Active \ {t} /\ holders' = holders \ {t} /\ t \notin Active
    BY <2>1, ForgetEnds DEF Active, ActivePcs
  <2>3. CASE stale' = stale
    BY <1>2, <2>1, <2>2, <2>3
  <2>4. CASE claim = token[t] /\ stale' = FALSE
    <3>1. holders = {}
      BY <2>1, <2>4 DEF Guarded, ClaimGuards
    <3>2. Lease!GiveBack
      BY <2>2, <2>4, <3>1 DEF Lease!GiveBack
    <3>3. LooseAtWork'
      BY <2>1, <2>2 DEF LooseAtWork
    <3> QED BY <3>2, <3>3 DEF Lease!Next
  <2> QED BY <2>1, <2>3, <2>4
<1>6. ASSUME NEW t \in Turns,
             \/ \E r \in Replicas : Send(t, r)
             \/ ReadHistory(t) \/ BowOut(t) \/ Supersede(t) \/ Register(t) \/ EndStream(t)
             \/ Settle(t)
      PROVE  LooseAtWork' /\ [Lease!Next]_(Lease!vars)
  <2>1. loose' = loose /\ stale' = stale
    BY <1>6 DEF Send, ReadHistory, BowOut, Supersede, Register, EndStream, Settle
  <2>2. \E p \in Pcs : pc' = [pc EXCEPT ![t] = p] /\ (p \in ActivePcs <=> pc[t] \in ActivePcs)
    BY <1>6 DEF Send, ReadHistory, BowOut, Supersede, Register, EndStream, Settle, Pcs, ActivePcs
  <2>3. Active' = Active
    BY <2>2 DEF Active, TypeOK
  <2> QED BY <1>1, <2>1, <2>3
<1>7. ASSUME NEW s \in Stops, StopRelease(s)
      PROVE  LooseAtWork' /\ [Lease!Next]_(Lease!vars)
  <2>1. Active' = Active /\ loose' = loose \cup Active /\ stale' \in {FALSE, stale}
    BY <1>7 DEF StopRelease, Active
  <2>2. Lease!Strip
    BY <2>1 DEF Lease!Strip
  <2>3. LooseAtWork'
    BY <2>1 DEF LooseAtWork
  <2> QED BY <2>2, <2>3 DEF Lease!Next
<1>8. ASSUME NEW r \in Replicas, Crash(r)
      PROVE  LooseAtWork' /\ [Lease!Next]_(Lease!vars)
  <2> DEFINE dead == {t \in Turns : home[t] = r}
  <2>1. /\ pc' = [t \in Turns |-> IF t \in dead THEN "ended" ELSE pc[t]]
        /\ loose' = loose \ dead /\ stale' = stale
    BY <1>8 DEF Crash
  <2>2. dead \in SUBSET Turns
    OBVIOUS
  <2> HIDE DEF dead
  <2>3. Active' = Active \ dead
    BY <2>1 DEF Active, ActivePcs
  <2>4. holders' = holders \ dead
    BY <2>1, <2>3
  <2> QED BY <1>2, <2>1, <2>2, <2>3, <2>4
<1>9. CASE ClaimExpires
  <2>1. Active' = Active /\ loose' = loose /\ stale' = TRUE
    BY <1>9 DEF ClaimExpires, Active
  <2>2. Lease!Expire
    BY <2>1 DEF Lease!Expire
  <2> QED BY <2>1, <2>2 DEF Lease!Next, LooseAtWork
<1>10. CASE \/ \E s \in Stops, r \in Replicas : StopFire(s, r)
            \/ \E r \in Replicas : Deliver(r)
            \/ QuestionAges \/ UNCHANGED vars
  <2>1. UNCHANGED <<pc, loose, stale>>
    BY <1>10 DEF StopFire, Deliver, QuestionAges, vars
  <2> QED BY <1>1, <2>1 DEF Active
<1> QED
  BY <1>3, <1>4, <1>5, <1>6, <1>7, <1>8, <1>9, <1>10 DEF Next

\* _claim_turn, _release_turn: with its two copies, its expiry and its release in two
\* steps, the claim is a lease: a turn begins beside one that holds the conversation
\* only when that one's claim has expired.
THEOREM LeaseImplemented == Spec => LeaseSpec
<1>1. Init => Typed /\ Tokens /\ Guarded /\ LooseAtWork /\ Lease!Init
  BY TypedInit, GuardedInit, LeaseInit
<1>2. Typed /\ Tokens /\ Guarded /\ LooseAtWork /\ [Next]_vars
      => (Typed /\ Tokens /\ Guarded /\ LooseAtWork)' /\ [Lease!Next]_(Lease!vars)
  BY TypedStep, GuardedStep, LeaseStep DEF Typed
<1> QED
  BY <1>1, <1>2, PTL DEF Spec, LeaseSpec, Lease!Spec

=============================================================================
