---------------------------- MODULE SignInProofs ----------------------------
(***************************************************************************)
(* The sign-in is safe for any number of tabs, tokens and families, any    *)
(* grace of at least twice what a refresh travels, and any lost answers:   *)
(* what was ended stays over, and racing tabs are not taken for reuse.     *)
(***************************************************************************)
EXTENDS SignIn, TLAPS

-----------------------------------------------------------------------------
\* The inductive invariant.

\* Whoever works with a token or a family works with one that was begun.
Begun ==
  /\ \A k \in 1 .. made : token[k].family # 0
  /\ \A r \in Requests :
       /\ req[r].pc \in {"sent", "rotating"} => req[r].cookie \in 1 .. made
       /\ req[r].pc \in {"rotating", "issuing"} => req[r].family # 0
       /\ req[r].pc = "ending" /\ req[r].kind = "suspended" => req[r].cookie \in 1 .. made
       /\ req[r].pc = "ending" /\ req[r].kind \in {"logout", "reuse"} => req[r].family # 0

\* No row is a token before it is issued, and a refresh issues in its cookie's family.
Carried ==
  /\ \A k \in Tokens : k \notin 1 .. made => token[k].state = "none" /\ token[k].family = 0
  /\ \A r \in Requests :
       /\ Issuing(r) /\ req[r].kind = "refresh" =>
            req[r].cookie \in 1 .. made /\ req[r].family = token[req[r].cookie].family
       /\ req[r].pc = "sent" => req[r].kind = "refresh"

\* An end revokes rows of the families it ends,
EndsRows ==
  \A r \in Requests : req[r].pc = "ending" =>
    \A k \in req[r].rows : token[k].family \in EndedBy(r)

\* and all of them that are live, but for those that came beside it.
EndsCover ==
  \A r \in Requests : req[r].pc = "ending" =>
    \A k \in Tokens : token[k].state = "live" /\ token[k].family \in EndedBy(r) =>
      k \in req[r].rows \/ k \in late

\* Who issues in a family that is over read before the end, or answers in the grace,
\* or refreshes a token that is late itself.
ReadBefore ==
  \A r \in Requests : Issuing(r) /\ req[r].family \in Over =>
    \/ r \in crossed
    \/ /\ req[r].pc = "issuing" /\ req[r].kind = "refresh"
       /\ token[req[r].cookie].state = "rotated"
    \/ req[r].pc = "rotating" /\ req[r].cookie \in late

EndsAreSound == EndsRows /\ EndsCover /\ EndedIsOver /\ ReadBefore

\* A refresh is at most Delay old, and stamps a rotation on its way.
OnTheWay ==
  \A t \in Tabs :
    /\ req[t].pc # "idle" /\ req[t].kind = "refresh" =>
         req[t].sent <= now /\ now <= req[t].sent + Delay
    /\ req[t].pc \in {"sent", "rotating"} => req[t].kind = "refresh"
    /\ req[t].pc = "rotating" => req[t].sent <= req[t].at /\ req[t].at <= now

\* The token of an answer is known to nobody before the answer is there.
AnswersAreFresh ==
  \A t \in Tabs : req[t].pc = "answered" /\ req[t].cookie # 0 =>
    /\ jar # req[t].cookie
    /\ token[req[t].cookie].state # "rotated"
    /\ \A u \in Tabs : u # t => req[u].cookie # req[t].cookie

\* While every answer arrives, the browser holds a rotated token only until the
\* answer is there, so what it sends was rotated at most Delay before.
OldCookies ==
  losses = 0 =>
    /\ jar # 0 /\ token[jar].state = "rotated" =>
         \E t \in Tabs : /\ req[t].pc = "answered" /\ req[t].kind = "refresh"
                         /\ req[t].sent <= token[jar].at
    /\ \A t \in Tabs : req[t].pc = "sent" /\ token[req[t].cookie].state = "rotated" =>
         req[t].sent <= token[req[t].cookie].at + Delay

\* Nobody finds a reuse.
NoReuseFound ==
  losses = 0 => /\ burnt = {}
                /\ \A r \in Requests : ~ (req[r].pc = "ending" /\ req[r].kind = "reuse")

SessionInv ==
  /\ TypeOK /\ Begun /\ Carried /\ EndsAreSound
  /\ OnTheWay /\ AnswersAreFresh /\ OldCookies /\ NoReuseFound

-----------------------------------------------------------------------------
\* Types.

\* A request, and a row, when so many tokens and families were begun.
Request(m, f) ==
  [pc: {"idle", "sent", "rotating", "issuing", "ending", "answered"},
   kind: {"refresh", "logout", "others", "password", "login", "reuse", "suspended", "admin"},
   cookie: 0 .. m, sent: 0 .. MaxTime, at: 0 .. MaxTime, family: 0 .. f, rows: SUBSET Tokens]
Row(f) == [state: {"none", "live", "rotated", "ended"}, at: 0 .. MaxTime, family: 0 .. f]

\* The type invariant in these terms.
LEMMA Typed ==
  /\ TypeOK <=>
       /\ now \in 0 .. MaxTime /\ made \in 0 .. MaxTokens /\ families \in Nat
       /\ suspended \in BOOLEAN /\ jar \in 0 .. made
       /\ token \in [Tokens -> Row(families)] /\ req \in [Requests -> Request(made, families)]
       /\ ended \subseteq 1 .. families /\ burnt \subseteq 1 .. families
       /\ crossed \subseteq Requests /\ late \subseteq Tokens /\ losses \in 0 .. MaxLosses
  /\ TypeOK' <=>
       /\ now' \in 0 .. MaxTime /\ made' \in 0 .. MaxTokens /\ families' \in Nat
       /\ suspended' \in BOOLEAN /\ jar' \in 0 .. made'
       /\ token' \in [Tokens -> Row(families')]
       /\ req' \in [Requests -> Request(made', families')]
       /\ ended' \subseteq 1 .. families' /\ burnt' \subseteq 1 .. families'
       /\ crossed' \subseteq Requests /\ late' \subseteq Tokens /\ losses' \in 0 .. MaxLosses
BY DEF TypeOK, Request, Row

\* What was begun stays begun.
LEMMA Widened ==
  ASSUME NEW m \in Nat, NEW n \in Nat, m <= n, NEW f \in Nat, NEW g \in Nat, f <= g
  PROVE  Request(m, f) \subseteq Request(n, g) /\ Row(f) \subseteq Row(g)
<1>1. 0 .. m \subseteq 0 .. n /\ 0 .. f \subseteq 0 .. g
  OBVIOUS
<1>2. ASSUME NEW x \in Request(m, f) PROVE x \in Request(n, g)
  BY <1>1 DEF Request
<1>3. ASSUME NEW x \in Row(f) PROVE x \in Row(g)
  BY <1>1 DEF Row
<1> QED BY <1>2, <1>3

\* The fields of a request.
LEMMA RequestIs ==
  ASSUME NEW m, NEW f, NEW q \in Request(m, f)
  PROVE  /\ q.pc \in {"idle", "sent", "rotating", "issuing", "ending", "answered"}
         /\ q.kind \in {"refresh", "logout", "others", "password", "login", "reuse",
                         "suspended", "admin"}
         /\ q.cookie \in 0 .. m /\ q.sent \in 0 .. MaxTime /\ q.at \in 0 .. MaxTime
         /\ q.family \in 0 .. f /\ q.rows \in SUBSET Tokens
BY DEF Request

\* The first state has every part.
LEMMA InitHolds == Init => SessionInv
<1> SUFFICES ASSUME Init PROVE SessionInv
  OBVIOUS
<1> USE SignInAssumption
<1>1. TypeOK
  <2>1. NoRow \in Row(0)
    BY DEF NoRow, Row
  <2>2. Idle \in Request(0, 0)
    BY DEF Idle, Request
  <2>3. token \in [Tokens -> Row(0)] /\ req \in [Requests -> Request(0, 0)]
    BY <2>1, <2>2 DEF Init
  <2>4. now = 0 /\ made = 0 /\ families = 0 /\ suspended = FALSE /\ jar = 0
        /\ ended = {} /\ burnt = {} /\ crossed = {} /\ late = {} /\ losses = 0
    BY DEF Init
  <2>5. token \in [Tokens -> Row(families)] /\ req \in [Requests -> Request(made, families)]
    BY <2>3, <2>4
  <2>6. now \in 0 .. MaxTime /\ made \in 0 .. MaxTokens /\ losses \in 0 .. MaxLosses
    BY <2>4
  <2>7. families \in Nat /\ jar \in 0 .. made
    BY <2>4
  <2> QED BY <2>4, <2>5, <2>6, <2>7, Typed
<1>2. Begun
  BY DEF Init, Begun, Idle, Requests
<1>3. EndsAreSound /\ OnTheWay /\ AnswersAreFresh
  BY DEF Init, EndsAreSound, EndsRows, EndsCover, EndedIsOver, ReadBefore, Issuing, Over,
         OnTheWay, AnswersAreFresh, Idle, Requests
<1>4. Carried /\ OldCookies /\ NoReuseFound
  BY DEF Init, Carried, Issuing, OldCookies, NoReuseFound, Idle, NoRow, Requests
<1> QED BY <1>1, <1>2, <1>3, <1>4 DEF SessionInv

\* The families an end ends were begun.
LEMMA EndedAreBegun ==
  ASSUME TypeOK, Begun, NEW r \in Requests, req[r].pc = "ending"
  PROVE  EndedBy(r) \subseteq 1 .. families
<1>1. req[r].family \in 0 .. families /\ families \in Nat
  BY DEF TypeOK
<1>2. CASE req[r].kind \in {"logout", "reuse"}
  BY <1>1, <1>2 DEF Begun, EndedBy
<1>3. CASE req[r].kind = "others"
  BY <1>3 DEF EndedBy
<1>4. CASE req[r].kind = "suspended"
  <2>1. req[r].cookie \in 1 .. made /\ made \in 0 .. MaxTokens
    BY <1>4 DEF Begun, TypeOK
  <2>2. req[r].cookie \in Tokens
    BY <2>1, SignInAssumption DEF Tokens
  <2>3. token[req[r].cookie].family \in 0 .. families /\ token[req[r].cookie].family # 0
    BY <2>1, <2>2 DEF TypeOK, Begun
  <2> QED BY <1>4, <2>3, <1>1 DEF EndedBy
<1>5. CASE req[r].kind \notin {"logout", "reuse", "others", "suspended"}
  BY <1>1, <1>5 DEF EndedBy, Begun
<1> QED BY <1>2, <1>3, <1>4, <1>5

\* The types, one step per action.
LEMMA TypeStep == TypeOK /\ Begun /\ [Next]_vars => TypeOK'
<1> SUFFICES ASSUME TypeOK, Begun, [Next]_vars PROVE TypeOK'
  OBVIOUS
<1> USE SignInAssumption
<1>t. /\ now \in 0 .. MaxTime /\ made \in 0 .. MaxTokens /\ families \in Nat
      /\ suspended \in BOOLEAN /\ jar \in 0 .. made /\ made \in Nat
      /\ token \in [Tokens -> Row(families)] /\ req \in [Requests -> Request(made, families)]
      /\ ended \subseteq 1 .. families /\ burnt \subseteq 1 .. families
      /\ crossed \subseteq Requests /\ late \subseteq Tokens /\ losses \in 0 .. MaxLosses
  BY Typed
<1>i. Idle \in Request(made, families)
  BY <1>t DEF Idle, Request
<1>a. \A t \in Tabs : t \in Requests
  BY DEF Requests
<1>b. ASSUME NEW k \in 1 .. made PROVE k \in Tokens /\ token[k].family \in 0 .. families
  BY <1>t DEF Tokens, Row
<1>f. /\ \A f : Live(f) \in SUBSET Tokens /\ AllLive \ Live(f) \in SUBSET Tokens
      /\ AllLive \in SUBSET Tokens
  BY DEF Live, AllLive
<1>1. CASE Tick
  <2>1. now' \in 0 .. MaxTime
    BY <1>1, <1>t DEF Tick
  <2> QED BY <1>1, <1>t, <2>1, Typed DEF Tick
<1>2. ASSUME NEW t \in Tabs, Send(t) PROVE TypeOK'
  <2>1. [Idle EXCEPT !.pc = "sent", !.cookie = jar, !.sent = now] \in Request(made, families)
    BY <1>t, <1>i DEF Request
  <2>2. req' \in [Requests -> Request(made, families)]
    BY <1>2, <1>t, <2>1 DEF Send
  <2> QED BY <1>2, <1>t, <2>2, Typed DEF Send
<1>3. ASSUME NEW t \in Tabs, Login(t) PROVE TypeOK'
  <2>1. families' = families + 1 /\ families + 1 \in Nat
    BY <1>3, <1>t DEF Login
  <2>2. /\ Request(made, families) \subseteq Request(made, families + 1)
        /\ Row(families) \subseteq Row(families + 1)
    BY <1>t, <2>1, Widened
  <2>3. [Idle EXCEPT !.pc = "issuing", !.kind = "login", !.family = families + 1]
          \in Request(made, families + 1)
    <3>1. Idle \in Request(made, families + 1) /\ families + 1 \in 0 .. families + 1
      BY <1>i, <1>t, <2>2
    <3> QED BY <3>1, <1>t DEF Request
  <2>4. req' \in [Requests -> Request(made, families + 1)]
    BY <1>3, <1>t, <2>2, <2>3 DEF Login
  <2>5. token \in [Tokens -> Row(families + 1)] /\ 1 .. families \subseteq 1 .. families + 1
    BY <1>t, <2>2
  <2> QED BY <1>3, <1>t, <2>1, <2>4, <2>5, Typed DEF Login
<1>4. ASSUME NEW t \in Tabs, Arrive(t) PROVE TypeOK'
  <2>1. req' \in [Requests -> Request(made, families)]
    BY <1>4, <1>t, <1>i DEF Arrive
  <2>2. jar' \in 0 .. made
    BY <1>4, <1>t, <1>a, RequestIs DEF Arrive
  <2> QED BY <1>4, <1>t, <2>1, <2>2, Typed DEF Arrive
<1>5. ASSUME NEW t \in Tabs, LoseAnswer(t) PROVE TypeOK'
  <2>1. req' \in [Requests -> Request(made, families)]
    BY <1>5, <1>t, <1>i DEF LoseAnswer
  <2>2. losses' \in 0 .. MaxLosses
    BY <1>5, <1>t DEF LoseAnswer
  <2> QED BY <1>5, <1>t, <2>1, <2>2, Typed DEF LoseAnswer
<1>6. ASSUME NEW t \in Tabs, ReadRefresh(t) PROVE TypeOK'
  <2>1. req[t].cookie \in 1 .. made
    BY <1>6, <1>a DEF ReadRefresh, Begun
  <2> DEFINE f == token[req[t].cookie].family
             q == req[t]
  <2>2. f \in 0 .. families
    BY <2>1, <1>b
  <2>3. Live(f) \in SUBSET Tokens
    BY <1>f
  <2>4. q \in Request(made, families)
    BY <1>t, <1>a
  <2>5. /\ [q EXCEPT !.pc = "ending", !.kind = "suspended", !.rows = Live(f)]
             \in Request(made, families)
        /\ [q EXCEPT !.pc = "rotating", !.at = now, !.family = f] \in Request(made, families)
        /\ [q EXCEPT !.pc = "issuing", !.family = f] \in Request(made, families)
        /\ [q EXCEPT !.pc = "ending", !.kind = "reuse", !.family = f, !.rows = Live(f)]
             \in Request(made, families)
    <3> HIDE DEF f, q
    <3> QED BY <2>2, <2>3, <2>4, <1>t DEF Request
  <2>6. \/ req' = [req EXCEPT ![t] = [q EXCEPT !.pc = "ending", !.kind = "suspended",
                                             !.rows = Live(f)]]
        \/ req' = [req EXCEPT ![t] = [q EXCEPT !.pc = "rotating", !.at = now, !.family = f]]
        \/ req' = [req EXCEPT ![t] = [q EXCEPT !.pc = "issuing", !.family = f]]
        \/ req' = [req EXCEPT ![t] = [q EXCEPT !.pc = "ending", !.kind = "reuse",
                                             !.family = f, !.rows = Live(f)]]
        \/ req' = [req EXCEPT ![t] = Idle]
    BY <1>6, <1>t, <1>a DEF ReadRefresh
  <2>7. req' \in [Requests -> Request(made, families)]
    <3> HIDE DEF f, q
    <3> QED BY <2>5, <2>6, <1>i, <1>t
  <2> QED BY <1>6, <1>t, <2>7, Typed DEF ReadRefresh
<1>7. ASSUME NEW t \in Tabs, IssueSession(t) PROVE TypeOK'
  <2>1. made' = made + 1 /\ made + 1 \in 0 .. MaxTokens
    BY <1>7, <1>t DEF IssueSession
  <2>2. req[t] \in Request(made, families)
    BY <1>t, <1>a
  <2>3. req[t].family \in 1 .. families
    <3>1. req[t].family \in 0 .. families
      BY <2>2, RequestIs
    <3> QED BY <1>7, <1>a, <1>t, <3>1 DEF IssueSession, Begun
  <2>4. crossed' \subseteq Requests /\ late' \subseteq Tokens
    <3>1. made + 1 \in Tokens
      BY <2>1, <1>t DEF Tokens
    <3> QED BY <1>7, <1>t, <3>1 DEF IssueSession
  <2>5. token' \in [Tokens -> Row(families)]
    <3> DEFINE row == [state |-> "live", at |-> 0, family |-> req[t].family]
               one == [token EXCEPT ![made + 1] = row]
    <3>1. row \in Row(families)
      BY <2>3, <1>t DEF Row
    <3>2. one \in [Tokens -> Row(families)]
      BY <3>1, <1>t
    <3>3. CASE req[t].pc # "rotating"
      BY <3>2, <3>3, <1>7 DEF IssueSession
    <3>4. CASE req[t].pc = "rotating"
      <4> DEFINE c == req[t].cookie
                 old == [one[c] EXCEPT !.state = "rotated", !.at = req[t].at]
      <4>1. c \in Tokens
        BY <3>4, <1>a, <1>b, <1>t DEF Begun
      <4>2. req[t].at \in 0 .. MaxTime
        BY <2>2, RequestIs
      <4>3. one[c] \in Row(families)
        BY <3>2, <4>1
      <4>4. old \in Row(families)
        <5> DEFINE x == one[c]
        <5> HIDE DEF x
        <5>1. [x EXCEPT !.state = "rotated", !.at = req[t].at] \in Row(families)
          BY <4>2, <4>3 DEF Row, x
        <5> QED BY <5>1 DEF x
      <4>5. token' = [one EXCEPT ![c].state = "rotated", ![c].at = req[t].at]
        BY <3>4, <1>7 DEF IssueSession
      <4>6. token' = [one EXCEPT ![c] = old]
        BY <4>5, <3>2, <4>1
      <4> HIDE DEF one, old, c
      <4> QED BY <4>6, <4>4, <3>2
    <3> QED BY <3>3, <3>4
  <2>6. Request(made, families) \subseteq Request(made + 1, families)
    BY Widened, <1>t
  <2>7. Answer(t, made + 1) \in Request(made + 1, families)
    <3>1. /\ req[t].kind \in {"refresh", "logout", "others", "password", "login", "reuse",
                              "suspended", "admin"}
          /\ req[t].sent \in 0 .. MaxTime
      BY <2>2, RequestIs
    <3>2. Idle \in Request(made + 1, families) /\ made + 1 \in 0 .. made + 1
      BY <1>i, <2>6, <1>t
    <3> QED BY <3>1, <3>2 DEF Answer, Request
  <2>8. req' \in [Requests -> Request(made + 1, families)]
    BY <1>7, <1>t, <2>6, <2>7 DEF IssueSession
  <2> QED BY <1>7, <1>t, <2>1, <2>4, <2>5, <2>8, Typed DEF IssueSession
<1>8. ASSUME NEW t \in Tabs, ReadEnd(t) PROVE TypeOK'
  <2> DEFINE f == token[jar].family
             q(kind, rows) == [Idle EXCEPT !.pc = "ending", !.kind = kind, !.cookie = jar,
                                           !.family = f, !.rows = rows]
  <2>1. f \in 0 .. families
    BY <1>8, <1>b, <1>t DEF ReadEnd
  <2>2. \E kind \in {"logout", "others", "password"}, rows \in SUBSET Tokens :
          req' = [req EXCEPT ![t] = q(kind, rows)]
    BY <1>8, <1>f DEF ReadEnd
  <2>3. \A kind \in {"logout", "others", "password"}, rows \in SUBSET Tokens :
          q(kind, rows) \in Request(made, families)
    <3> HIDE DEF f
    <3> QED BY <2>1, <1>t, <1>i DEF Request
  <2>4. req' \in [Requests -> Request(made, families)]
    <3> HIDE DEF q
    <3> QED BY <2>2, <2>3, <1>t
  <2> QED BY <1>8, <1>t, <2>4, Typed DEF ReadEnd
<1>9. CASE SuspendUser
  <2>1. [Idle EXCEPT !.pc = "ending", !.kind = "admin", !.rows = AllLive]
          \in Request(made, families)
    BY <1>i, <1>f DEF Request
  <2>2. req' \in [Requests -> Request(made, families)]
    BY <1>9, <1>t, <2>1 DEF SuspendUser
  <2> QED BY <1>9, <1>t, <2>2, Typed DEF SuspendUser
<1>10. ASSUME NEW r \in Requests, CommitEnd(r) PROVE TypeOK'
  <2>1. EndedBy(r) \subseteq 1 .. families
    BY <1>10, EndedAreBegun DEF CommitEnd
  <2>2. ended' \subseteq 1 .. families /\ burnt' \subseteq 1 .. families
    BY <1>10, <1>t, <2>1 DEF CommitEnd
  <2>4. token' \in [Tokens -> Row(families)]
    <3>1. \A k \in Tokens : [token[k] EXCEPT !.state = "ended"] \in Row(families)
      BY <1>t DEF Row
    <3> QED BY <1>10, <1>t, <3>1 DEF CommitEnd, Revoked
  <2>5. families' \in Nat /\ families <= families'
    BY <1>10, <1>t DEF CommitEnd
  <2>6. /\ Request(made, families) \subseteq Request(made, families')
        /\ Row(families) \subseteq Row(families') /\ 1 .. families \subseteq 1 .. families'
    BY <1>t, <2>5, Widened
  <2>7. req' \in [Requests -> Request(made, families')]
    <3>1. req[r] \in Request(made, families')
      BY <1>t, <2>6
    <3>2. CASE req[r].kind = "password"
      <4>1. families' = families + 1
        BY <1>10, <3>2 DEF CommitEnd
      <4>2. [req[r] EXCEPT !.pc = "issuing", !.family = families + 1, !.rows = {}]
              \in Request(made, families')
        <5> DEFINE q == req[r]
        <5> HIDE DEF q
        <5>1. q \in Request(made, families') /\ families + 1 \in 0 .. families'
          BY <3>1, <4>1, <1>t DEF q
        <5>2. [q EXCEPT !.pc = "issuing", !.family = families + 1, !.rows = {}]
                \in Request(made, families')
          BY <5>1 DEF Request
        <5> QED BY <5>2 DEF q
      <4>3. req' = [req EXCEPT ![r] = [req[r] EXCEPT !.pc = "issuing", !.family = families + 1,
                                                    !.rows = {}]]
        BY <1>10, <3>2, <1>t DEF CommitEnd
      <4> QED BY <4>2, <4>3, <2>6, <1>t
    <3>3. CASE req[r].kind # "password"
      <4>1. Answer(r, 0) \in Request(made, families)
        <5>1. /\ req[r].kind \in {"refresh", "logout", "others", "password", "login", "reuse",
                                  "suspended", "admin"}
              /\ req[r].sent \in 0 .. MaxTime
          BY <1>t, RequestIs
        <5>2. 0 \in 0 .. made
          BY <1>t
        <5> QED BY <5>1, <5>2, <1>i DEF Answer, Request
      <4>2. req' \in [Requests -> Request(made, families)]
        BY <1>10, <3>3, <4>1, <1>i, <1>t DEF CommitEnd
      <4> QED BY <4>2, <2>6
    <3> QED BY <3>2, <3>3
  <2>8. crossed' \subseteq Requests /\ late' \subseteq Tokens
    BY <1>10, <1>t DEF CommitEnd, Overtaken
  <2>9. token' \in [Tokens -> Row(families')]
    BY <2>4, <2>6
  <2> QED BY <1>10, <1>t, <2>2, <2>5, <2>6, <2>7, <2>8, <2>9, Typed DEF CommitEnd
<1>11. CASE UNCHANGED vars
  BY <1>11, <1>t, Typed DEF vars
<1> QED BY <1>1, <1>2, <1>3, <1>4, <1>5, <1>6, <1>7, <1>8, <1>9, <1>10, <1>11 DEF Next
-----------------------------------------------------------------------------
\* What is at work was begun.

\* The facts of the types that the steps below use.
LEMMA Facts ==
  ASSUME TypeOK
  PROVE  /\ now \in Nat /\ made \in Nat /\ families \in Nat /\ jar \in 0 .. made
         /\ 1 .. made \subseteq Tokens
         /\ \A t \in Tabs : t \in Requests
         /\ token \in [Tokens -> Row(families)]
         /\ req \in [Requests -> Request(made, families)]
         /\ \A k \in Tokens : DOMAIN token[k] = {"state", "at", "family"}
         /\ \A r \in Requests :
              /\ DOMAIN req[r] = {"pc", "kind", "cookie", "sent", "at", "family", "rows"}
              /\ req[r].cookie \in 0 .. made /\ req[r].sent \in Nat /\ req[r].at \in Nat
              /\ req[r].family \in 0 .. families
         /\ \A k \in Tokens : token[k].family \in 0 .. families /\ token[k].at \in Nat
<1>1. /\ now \in Nat /\ made \in Nat /\ families \in Nat /\ jar \in 0 .. made
      /\ 1 .. made \subseteq Tokens /\ \A t \in Tabs : t \in Requests
  BY SignInAssumption DEF TypeOK, Tokens, Requests
<1>2. /\ token \in [Tokens -> Row(families)]
      /\ req \in [Requests -> Request(made, families)]
  BY Typed
<1>3. \A k \in Tokens : /\ DOMAIN token[k] = {"state", "at", "family"}
                        /\ token[k].family \in 0 .. families /\ token[k].at \in Nat
  BY <1>2, SignInAssumption DEF Row
<1>4. \A r \in Requests :
        /\ DOMAIN req[r] = {"pc", "kind", "cookie", "sent", "at", "family", "rows"}
        /\ req[r].cookie \in 0 .. made /\ req[r].sent \in Nat /\ req[r].at \in Nat
        /\ req[r].family \in 0 .. families
  BY <1>2, SignInAssumption DEF Request
<1> QED BY <1>1, <1>2, <1>3, <1>4

\* An issued token: the rows and the request after it.
LEMMA IssueSessionIs ==
  ASSUME TypeOK, Begun, NEW t \in Tabs, IssueSession(t)
  PROVE  /\ req[t].pc \in {"rotating", "issuing"} /\ req[t].family # 0
         /\ made' = made + 1 /\ made + 1 \in Tokens /\ made + 1 \notin 1 .. made
         /\ token'[made + 1].state = "live" /\ token'[made + 1].family = req[t].family
         /\ \A k \in Tokens \ {made + 1} :
              /\ token'[k].family = token[k].family
              /\ ~ (req[t].pc = "rotating" /\ k = req[t].cookie) => token'[k] = token[k]
              /\ req[t].pc = "rotating" /\ k = req[t].cookie =>
                   token'[k].state = "rotated" /\ token'[k].at = req[t].at
         /\ req'[t].pc = "answered" /\ req'[t].kind = req[t].kind
         /\ req'[t].sent = req[t].sent /\ req'[t].cookie = made + 1
         /\ \A r \in Requests \ {t} : req'[r] = req[r]
<1> USE SignInAssumption
<1>0. req[t].pc \in {"rotating", "issuing"} /\ req[t].family # 0
  BY Facts DEF IssueSession, Begun
<1>1. made \in Nat /\ t \in Requests /\ token \in [Tokens -> Row(families)]
  BY Facts
<1>2. made + 1 \in Tokens /\ made + 1 \notin 1 .. made /\ made' = made + 1
  <2>1. made' = made + 1 /\ made < MaxTokens
    BY DEF IssueSession
  <2> QED BY <1>1, <2>1 DEF Tokens
<1>3. /\ req'[t].pc = "answered" /\ req'[t].kind = req[t].kind
      /\ req'[t].sent = req[t].sent /\ req'[t].cookie = made + 1
      /\ \A r \in Requests \ {t} : req'[r] = req[r]
  <2>1. req'[t] = Answer(t, made + 1) /\ \A r \in Requests \ {t} : req'[r] = req[r]
    BY <1>1 DEF IssueSession, TypeOK
  <2> QED BY <2>1 DEF Answer, Idle
<1> DEFINE row == [state |-> "live", at |-> 0, family |-> req[t].family]
           one == [token EXCEPT ![made + 1] = row]
           c == req[t].cookie
<1>4. one[made + 1] = row /\ (\A k \in Tokens \ {made + 1} : one[k] = token[k])
      /\ DOMAIN one = Tokens
  BY <1>1, <1>2
<1>5. CASE req[t].pc # "rotating"
  <2>1. token' = one
    BY <1>5 DEF IssueSession
  <2> QED BY <2>1, <1>0, <1>2, <1>3, <1>4, <1>5
<1>6. CASE req[t].pc = "rotating"
  <2>1. c \in 1 .. made /\ c \in Tokens /\ c # made + 1
    BY <1>1, <1>2, <1>6, Facts DEF Begun
  <2>2. token' = [one EXCEPT ![c].state = "rotated", ![c].at = req[t].at]
    BY <1>6 DEF IssueSession
  <2> HIDE DEF one, c
  <2>3. token'[c] = [one[c] EXCEPT !.state = "rotated", !.at = req[t].at]
    BY <2>1, <2>2, <1>4
  <2>4. \A k \in Tokens \ {c} : token'[k] = one[k]
    BY <2>1, <2>2, <1>4
  <2>5. DOMAIN one[c] = {"state", "at", "family"}
    BY <2>1, <1>4, Facts
  <2>6. token'[c].state = "rotated" /\ token'[c].at = req[t].at
        /\ token'[c].family = one[c].family
    BY <2>3, <2>5
  <2>7. token'[made + 1] = row
    BY <2>4, <1>4, <1>2, <2>1
  <2>8. \A k \in Tokens \ {made + 1} :
              /\ token'[k].family = token[k].family
              /\ k # c => token'[k] = token[k]
              /\ k = c => token'[k].state = "rotated" /\ token'[k].at = req[t].at
    BY <2>4, <2>6, <2>1, <1>4
  <2> QED BY <2>7, <2>8, <1>0, <1>2, <1>3, <1>6 DEF c
<1> QED BY <1>5, <1>6

\* An end: the rows and the request after it.
LEMMA CommitEndIs ==
  ASSUME TypeOK, NEW r \in Requests, CommitEnd(r)
  PROVE  /\ req[r].pc = "ending" /\ made' = made /\ now' = now /\ jar' = jar
         /\ losses' = losses
         /\ \A k \in Tokens : token'[k].family = token[k].family
         /\ \A k \in Tokens : k \in req[r].rows => token'[k].state = "ended"
         /\ \A k \in Tokens : k \notin req[r].rows => token'[k] = token[k]
         /\ \A s \in Requests \ {r} : req'[s] = req[s]
         /\ req[r].kind # "password" =>
              /\ families' = families /\ req'[r].cookie = 0
              /\ \/ req'[r].pc = "idle"
                 \/ req'[r].pc = "answered" /\ req'[r].kind = "logout"
         /\ req[r].kind = "password" =>
              /\ families' = families + 1
              /\ req'[r].pc = "issuing" /\ req'[r].kind = "password"
              /\ req'[r].cookie = req[r].cookie /\ req'[r].family = families + 1
<1>1. \A k \in Tokens : DOMAIN token[k] = {"state", "at", "family"}
  BY Facts
<1>2. req \in [Requests -> Request(made, families)]
      /\ DOMAIN req[r] = {"pc", "kind", "cookie", "sent", "at", "family", "rows"}
  BY Facts
<1>3. token' = Revoked(r)
  BY DEF CommitEnd
<1>4. \A k \in Tokens : /\ k \in req[r].rows => token'[k] = [token[k] EXCEPT !.state = "ended"]
                        /\ k \notin req[r].rows => token'[k] = token[k]
  BY <1>3 DEF Revoked
<1>5. /\ \A k \in Tokens : token'[k].family = token[k].family
      /\ \A k \in Tokens : k \in req[r].rows => token'[k].state = "ended"
      /\ \A k \in Tokens : k \notin req[r].rows => token'[k] = token[k]
  BY <1>4, <1>1
<1>0. /\ req[r].pc = "ending" /\ made' = made /\ now' = now /\ jar' = jar
      /\ losses' = losses
  BY DEF CommitEnd
<1>6. CASE req[r].kind = "password"
  <2>1. req' = [req EXCEPT ![r] = [req[r] EXCEPT !.pc = "issuing", !.family = families + 1,
                                                !.rows = {}]]
    BY <1>6, <1>2 DEF CommitEnd
  <2>2. req'[r] = [req[r] EXCEPT !.pc = "issuing", !.family = families + 1, !.rows = {}]
        /\ \A s \in Requests \ {r} : req'[s] = req[s]
    BY <2>1, <1>2
  <2>3. req'[r].pc = "issuing" /\ req'[r].kind = "password"
        /\ req'[r].cookie = req[r].cookie /\ req'[r].family = families + 1
    BY <2>2, <1>2, <1>6
  <2>4. families' = families + 1
    BY <1>6 DEF CommitEnd
  <2> QED BY <1>0, <1>5, <1>6, <2>2, <2>3, <2>4
<1>7. CASE req[r].kind # "password"
  <2>1. /\ req' = [req EXCEPT ![r] = IF req[r].kind = "logout" THEN Answer(r, 0) ELSE Idle]
        /\ families' = families
    BY <1>7 DEF CommitEnd
  <2>2. /\ req'[r] = IF req[r].kind = "logout" THEN Answer(r, 0) ELSE Idle
        /\ \A s \in Requests \ {r} : req'[s] = req[s]
    BY <2>1, <1>2
  <2>3. /\ req'[r].cookie = 0
        /\ \/ req'[r].pc = "idle"
           \/ req'[r].pc = "answered" /\ req'[r].kind = "logout"
    BY <2>2 DEF Answer, Idle
  <2> QED BY <1>0, <1>5, <1>7, <2>1, <2>2, <2>3
<1> QED BY <1>6, <1>7

\* A refresh's five outcomes.
LEMMA ReadRefreshIs ==
  ASSUME TypeOK, Begun, NEW t \in Tabs, ReadRefresh(t)
  PROVE  LET c == req[t].cookie  f == token[c].family  q == req'[t] IN
         /\ req[t].pc = "sent" /\ c \in 1 .. made /\ f # 0
         /\ \A r \in Requests \ {t} : req'[r] = req[r]
         /\ \/ q.pc = "ending" /\ q.kind = "suspended" /\ q.cookie = c /\ q.rows = Live(f)
            \/ /\ q.pc = "rotating" /\ q.kind = req[t].kind /\ q.cookie = c
               /\ q.sent = req[t].sent /\ q.at = now /\ q.family = f
               /\ token[c].state = "live"
            \/ /\ q.pc = "issuing" /\ q.kind = req[t].kind /\ q.cookie = c
               /\ q.sent = req[t].sent /\ q.family = f /\ token[c].state = "rotated"
            \/ /\ q.pc = "ending" /\ q.kind = "reuse" /\ q.cookie = c /\ q.family = f
               /\ q.rows = Live(f)
               /\ token[c].state = "rotated" /\ ~ WithinGrace(token[c])
            \/ q = Idle
<1> DEFINE c == req[t].cookie
           f == token[c].family
           p == req[t]
<1>1. t \in Requests /\ req \in [Requests -> Request(made, families)]
      /\ DOMAIN p = {"pc", "kind", "cookie", "sent", "at", "family", "rows"}
  BY Facts
<1>2. req[t].pc = "sent"
  BY DEF ReadRefresh
<1>3. c \in 1 .. made
  BY <1>1, <1>2 DEF Begun
<1>4. f # 0
  BY <1>3 DEF Begun
<1>5. \/ req' = [req EXCEPT ![t] = [p EXCEPT !.pc = "ending", !.kind = "suspended",
                                           !.rows = Live(f)]]
      \/ /\ req' = [req EXCEPT ![t] = [p EXCEPT !.pc = "rotating", !.at = now, !.family = f]]
         /\ token[c].state = "live"
      \/ /\ req' = [req EXCEPT ![t] = [p EXCEPT !.pc = "issuing", !.family = f]]
         /\ token[c].state = "rotated"
      \/ /\ req' = [req EXCEPT ![t] = [p EXCEPT !.pc = "ending", !.kind = "reuse",
                                               !.family = f, !.rows = Live(f)]]
         /\ token[c].state = "rotated" /\ ~ WithinGrace(token[c])
      \/ req' = [req EXCEPT ![t] = Idle]
  BY <1>1 DEF ReadRefresh, Usable
<1>6. \A r \in Requests \ {t} : req'[r] = req[r]
  BY <1>5, <1>1
<1>7. \/ req'[t] = [p EXCEPT !.pc = "ending", !.kind = "suspended", !.rows = Live(f)]
      \/ req'[t] = [p EXCEPT !.pc = "rotating", !.at = now, !.family = f] /\ token[c].state = "live"
      \/ req'[t] = [p EXCEPT !.pc = "issuing", !.family = f] /\ token[c].state = "rotated"
      \/ /\ req'[t] = [p EXCEPT !.pc = "ending", !.kind = "reuse", !.family = f,
                                !.rows = Live(f)]
         /\ token[c].state = "rotated" /\ ~ WithinGrace(token[c])
      \/ req'[t] = Idle
  BY <1>5, <1>1
<1> HIDE DEF f, p
<1>8. \/ /\ req'[t].pc = "ending" /\ req'[t].kind = "suspended"
         /\ req'[t].cookie = p.cookie /\ req'[t].rows = Live(f)
      \/ /\ req'[t].pc = "rotating" /\ req'[t].kind = p.kind /\ req'[t].cookie = p.cookie
         /\ req'[t].sent = p.sent /\ req'[t].at = now /\ req'[t].family = f
         /\ token[c].state = "live"
      \/ /\ req'[t].pc = "issuing" /\ req'[t].kind = p.kind /\ req'[t].cookie = p.cookie
         /\ req'[t].sent = p.sent /\ req'[t].family = f /\ token[c].state = "rotated"
      \/ /\ req'[t].pc = "ending" /\ req'[t].kind = "reuse" /\ req'[t].cookie = p.cookie
         /\ req'[t].family = f /\ req'[t].rows = Live(f)
         /\ token[c].state = "rotated" /\ ~ WithinGrace(token[c])
      \/ req'[t] = Idle
  BY <1>7, <1>1
<1> QED BY <1>2, <1>3, <1>4, <1>6, <1>8 DEF p, f
-----------------------------------------------------------------------------
\* The steps.

\* The requests that begin, and those that answers take away: what they are.
LEMMA OthersAre ==
  ASSUME TypeOK, NEW t \in Tabs
  PROVE  /\ Send(t) => /\ jar # 0 /\ (\A r \in Requests \ {t} : req'[r] = req[r])
                       /\ req'[t].pc = "sent" /\ req'[t].kind = "refresh"
                       /\ req'[t].cookie = jar /\ req'[t].sent = now
         /\ Login(t) => /\ (\A r \in Requests \ {t} : req'[r] = req[r])
                        /\ req'[t].pc = "issuing" /\ req'[t].kind = "login"
                        /\ req'[t].cookie = 0 /\ req'[t].family = families + 1
         /\ Arrive(t) \/ LoseAnswer(t) =>
              (\A r \in Requests \ {t} : req'[r] = req[r]) /\ req'[t] = Idle
         /\ ReadEnd(t) => /\ jar # 0 /\ (\A r \in Requests \ {t} : req'[r] = req[r])
                          /\ req'[t].pc = "ending" /\ req'[t].cookie = jar
                          /\ req'[t].family = token[jar].family
                          /\ \/ /\ req'[t].kind = "logout"
                                /\ req'[t].rows = Live(token[jar].family)
                             \/ /\ req'[t].kind = "others"
                                /\ req'[t].rows = AllLive \ Live(token[jar].family)
                             \/ /\ req'[t].kind = "password" /\ req'[t].rows = AllLive
<1>1. t \in Requests /\ Admin \in Requests /\ req \in [Requests -> Request(made, families)]
  BY Facts DEF Requests
<1>2. ASSUME Send(t)
      PROVE  /\ jar # 0 /\ (\A r \in Requests \ {t} : req'[r] = req[r])
             /\ req'[t].pc = "sent" /\ req'[t].kind = "refresh"
             /\ req'[t].cookie = jar /\ req'[t].sent = now
  BY <1>1, <1>2 DEF Send, Idle
<1>3. ASSUME Login(t)
      PROVE  /\ (\A r \in Requests \ {t} : req'[r] = req[r])
             /\ req'[t].pc = "issuing" /\ req'[t].kind = "login"
             /\ req'[t].cookie = 0 /\ req'[t].family = families + 1
  BY <1>1, <1>3 DEF Login, Idle
<1>4. ASSUME Arrive(t) \/ LoseAnswer(t)
      PROVE  (\A r \in Requests \ {t} : req'[r] = req[r]) /\ req'[t] = Idle
  BY <1>1, <1>4 DEF Arrive, LoseAnswer
<1>5. ASSUME ReadEnd(t)
      PROVE  /\ jar # 0 /\ (\A r \in Requests \ {t} : req'[r] = req[r])
             /\ req'[t].pc = "ending" /\ req'[t].cookie = jar
             /\ req'[t].family = token[jar].family
             /\ \/ /\ req'[t].kind = "logout" /\ req'[t].rows = Live(token[jar].family)
                \/ /\ req'[t].kind = "others"
                   /\ req'[t].rows = AllLive \ Live(token[jar].family)
                \/ /\ req'[t].kind = "password" /\ req'[t].rows = AllLive
  BY <1>1, <1>5 DEF ReadEnd, Idle
<1> QED BY <1>2, <1>3, <1>4, <1>5

\* An administrator's request as it begins.
LEMMA SuspendUserIs ==
  ASSUME TypeOK, SuspendUser
  PROVE  /\ Admin \in Requests /\ Admin \notin Tabs
         /\ \A r \in Requests \ {Admin} : req'[r] = req[r]
         /\ req'[Admin].pc = "ending" /\ req'[Admin].kind = "admin"
         /\ req'[Admin].cookie = 0 /\ req'[Admin].rows = AllLive
<1>1. Admin \in Requests /\ req \in [Requests -> Request(made, families)]
  BY Facts DEF Requests
<1> QED BY <1>1, SignInAssumption DEF SuspendUser, Idle

\* Begun, one step per action.
LEMMA BegunStep == TypeOK /\ Begun /\ [Next]_vars => Begun'
<1> SUFFICES ASSUME TypeOK, Begun, [Next]_vars PROVE Begun'
  OBVIOUS
<1>f. /\ made \in Nat /\ families \in Nat /\ jar \in 0 .. made
      /\ 1 .. made \subseteq Tokens /\ \A t \in Tabs : t \in Requests
  BY Facts
<1>1. CASE Tick
  BY <1>1 DEF Tick, Begun
<1>2. ASSUME NEW t \in Tabs, Send(t) PROVE Begun'
  <2>1. UNCHANGED <<token, made>>
    BY <1>2 DEF Send
  <2> QED BY <1>2, <1>f, <2>1, OthersAre DEF Begun
<1>3. ASSUME NEW t \in Tabs, Login(t) PROVE Begun'
  <2>1. UNCHANGED <<token, made>>
    BY <1>3 DEF Login
  <2> QED BY <1>3, <1>f, <2>1, OthersAre DEF Begun
<1>4. ASSUME NEW t \in Tabs, Arrive(t) \/ LoseAnswer(t) PROVE Begun'
  <2>1. UNCHANGED <<token, made>>
    BY <1>4 DEF Arrive, LoseAnswer
  <2> QED BY <1>4, <1>f, <2>1, OthersAre DEF Begun, Idle
<1>5. ASSUME NEW t \in Tabs, ReadRefresh(t) PROVE Begun'
  <2>1. UNCHANGED <<token, made>>
    BY <1>5 DEF ReadRefresh
  <2> QED BY <1>5, <1>f, <2>1, ReadRefreshIs DEF Begun, Idle
<1>6. ASSUME NEW t \in Tabs, IssueSession(t) PROVE Begun'
  <2>0. /\ made' = made + 1 /\ made + 1 \in Tokens /\ token'[made + 1].family = req[t].family
        /\ req[t].family # 0
    BY <1>6, IssueSessionIs
  <2>a. \A k \in Tokens \ {made + 1} : token'[k].family = token[k].family
    BY <1>6, IssueSessionIs
  <2>b. req'[t].pc = "answered" /\ \A r \in Requests \ {t} : req'[r] = req[r]
    BY <1>6, IssueSessionIs
  <2>1. /\ made' = made + 1 /\ made + 1 \in Tokens /\ token'[made + 1].family = req[t].family
        /\ req[t].family # 0
        /\ \A k \in Tokens \ {made + 1} : token'[k].family = token[k].family
        /\ req'[t].pc = "answered" /\ \A r \in Requests \ {t} : req'[r] = req[r]
    BY <2>0, <2>a, <2>b
  <2>2. \A k \in 1 .. made' : k \in 1 .. made \/ k = made + 1
    BY <2>1, <1>f
  <2>3. \A k \in 1 .. made' : token'[k].family # 0
    BY <1>f, <2>1, <2>2 DEF Begun
  <2>4. 1 .. made \subseteq 1 .. made'
    BY <2>1, <1>f
  <2> QED BY <1>f, <2>1, <2>3, <2>4 DEF Begun
<1>7. ASSUME NEW t \in Tabs, ReadEnd(t) PROVE Begun'
  <2>1. UNCHANGED <<token, made>>
    BY <1>7 DEF ReadEnd
  <2> QED BY <1>7, <1>f, <2>1, OthersAre DEF Begun
<1>8. CASE SuspendUser
  <2>1. UNCHANGED <<token, made>>
    BY <1>8 DEF SuspendUser
  <2> QED BY <1>8, <2>1, SuspendUserIs DEF Begun
<1>9. ASSUME NEW r \in Requests, CommitEnd(r) PROVE Begun'
  <2>a. made' = made /\ \A k \in Tokens : token'[k].family = token[k].family
    BY <1>9, CommitEndIs
  <2>b. \A s \in Requests \ {r} : req'[s] = req[s]
    BY <1>9, CommitEndIs
  <2>1. \/ req'[r].pc = "idle" \/ req'[r].pc = "answered"
        \/ /\ req'[r].pc = "issuing" /\ req'[r].kind = "password"
           /\ req'[r].family = families + 1
    BY <1>9, CommitEndIs
  <2>2. \/ req'[r].pc \in {"idle", "answered"}
        \/ req'[r].pc = "issuing" /\ req'[r].kind = "password" /\ req'[r].family # 0
    BY <2>1, <1>f
  <2> QED BY <1>f, <2>a, <2>b, <2>2 DEF Begun
<1>10. CASE UNCHANGED vars
  BY <1>10 DEF vars, Begun
<1> QED BY <1>1, <1>2, <1>3, <1>4, <1>5, <1>6, <1>7, <1>8, <1>9, <1>10 DEF Next

\* A refresh stays young, since the clock waits for it.
LEMMA OnTheWayStep == TypeOK /\ Begun /\ OnTheWay /\ [Next]_vars => OnTheWay'
<1> SUFFICES ASSUME TypeOK, Begun, OnTheWay, [Next]_vars PROVE OnTheWay'
  OBVIOUS
<1>f. /\ now \in Nat /\ Delay \in Nat /\ \A t \in Tabs : t \in Requests
  BY Facts, SignInAssumption
<1>g. \A t \in Tabs : req[t].sent \in Nat /\ req[t].at \in Nat
  BY Facts
<1>1. CASE Tick
  BY <1>1, <1>f, <1>g DEF Tick, OnTheWay
<1>2. ASSUME NEW t \in Tabs, Send(t) PROVE OnTheWay'
  <2>1. now' = now
    BY <1>2 DEF Send
  <2> QED BY <1>2, <1>f, <2>1, OthersAre DEF OnTheWay
<1>3. ASSUME NEW t \in Tabs, Login(t) PROVE OnTheWay'
  <2>1. now' = now
    BY <1>3 DEF Login
  <2> QED BY <1>3, <1>f, <2>1, OthersAre DEF OnTheWay
<1>4. ASSUME NEW t \in Tabs, Arrive(t) \/ LoseAnswer(t) PROVE OnTheWay'
  <2>1. now' = now
    BY <1>4 DEF Arrive, LoseAnswer
  <2> QED BY <1>4, <1>f, <2>1, OthersAre DEF OnTheWay, Idle
<1>5. ASSUME NEW t \in Tabs, ReadRefresh(t) PROVE OnTheWay'
  <2>1. now' = now
    BY <1>5 DEF ReadRefresh
  <2> QED BY <1>5, <1>f, <2>1, ReadRefreshIs DEF OnTheWay, Idle
<1>6. ASSUME NEW t \in Tabs, IssueSession(t) PROVE OnTheWay'
  <2>1. now' = now
    BY <1>6 DEF IssueSession
  <2>2. /\ req'[t].pc = "answered" /\ req'[t].kind = req[t].kind /\ req'[t].sent = req[t].sent
        /\ \A r \in Requests \ {t} : req'[r] = req[r]
        /\ req[t].pc \in {"rotating", "issuing"}
    BY <1>6, IssueSessionIs
  <2> QED BY <1>f, <2>1, <2>2 DEF OnTheWay
<1>7. ASSUME NEW t \in Tabs, ReadEnd(t) PROVE OnTheWay'
  <2>1. now' = now
    BY <1>7 DEF ReadEnd
  <2> QED BY <1>7, <1>f, <2>1, OthersAre DEF OnTheWay
<1>8. CASE SuspendUser
  <2>1. now' = now /\ \A t \in Tabs : req'[t] = req[t]
    BY <1>8, <1>f, SuspendUserIs DEF SuspendUser
  <2> QED BY <2>1 DEF OnTheWay
<1>9. ASSUME NEW r \in Requests, CommitEnd(r) PROVE OnTheWay'
  <2>1. now' = now /\ \A s \in Requests \ {r} : req'[s] = req[s]
    BY <1>9, CommitEndIs
  <2>2. \/ req'[r].pc = "idle"
        \/ req'[r].pc = "answered" /\ req'[r].kind = "logout"
        \/ req'[r].pc = "issuing" /\ req'[r].kind = "password"
    BY <1>9, CommitEndIs
  <2> QED BY <1>f, <2>1, <2>2 DEF OnTheWay
<1>10. CASE UNCHANGED vars
  BY <1>10 DEF vars, OnTheWay
<1> QED BY <1>1, <1>2, <1>3, <1>4, <1>5, <1>6, <1>7, <1>8, <1>9, <1>10 DEF Next
\* What is carried, one step per action.
LEMMA CarriedStep == TypeOK /\ Begun /\ Carried /\ EndsRows /\ [Next]_vars => Carried'
<1> SUFFICES ASSUME TypeOK, Begun, Carried, EndsRows, [Next]_vars PROVE Carried'
  OBVIOUS
<1>f. /\ made \in Nat /\ 1 .. made \subseteq Tokens /\ \A t \in Tabs : t \in Requests
  BY Facts
\* An action of one request that touches no row, and issues for no refresh.
<1>u. ASSUME UNCHANGED <<token, made>>,
             NEW r \in Requests, \A s \in Requests \ {r} : req'[s] = req[s],
             req'[r].pc \notin {"rotating", "issuing"} \/ req'[r].kind # "refresh",
             req'[r].pc = "sent" => req'[r].kind = "refresh"
      PROVE  Carried'
  <2>1. \A k \in Tokens : k \notin 1 .. made' => token'[k].state = "none" /\ token'[k].family = 0
    BY <1>u DEF Carried
  <2>2. \A s \in Requests : Issuing(s)' /\ req'[s].kind = "refresh" =>
          req'[s].cookie \in 1 .. made' /\ req'[s].family = token'[req'[s].cookie].family
    BY <1>u DEF Carried, Issuing
  <2>3. \A s \in Requests : req'[s].pc = "sent" => req'[s].kind = "refresh"
    BY <1>u DEF Carried
  <2> QED BY <2>1, <2>2, <2>3 DEF Carried, Issuing
<1>1. CASE Tick
  BY <1>1 DEF Tick, Carried, Issuing
<1>2. ASSUME NEW t \in Tabs, Send(t) PROVE Carried'
  <2>1. UNCHANGED <<token, made>>
    BY <1>2 DEF Send
  <2> QED BY <1>2, <1>f, <1>u, <2>1, OthersAre
<1>3. ASSUME NEW t \in Tabs, Login(t) PROVE Carried'
  <2>1. UNCHANGED <<token, made>>
    BY <1>3 DEF Login
  <2> QED BY <1>3, <1>f, <1>u, <2>1, OthersAre
<1>4. ASSUME NEW t \in Tabs, Arrive(t) \/ LoseAnswer(t) PROVE Carried'
  <2>1. UNCHANGED <<token, made>>
    BY <1>4 DEF Arrive, LoseAnswer
  <2>2. req'[t].pc = "idle" /\ \A s \in Requests \ {t} : req'[s] = req[s]
    BY <1>4, OthersAre DEF Idle
  <2> QED BY <1>f, <1>u, <2>1, <2>2
<1>5. ASSUME NEW t \in Tabs, ReadRefresh(t) PROVE Carried'
  <2>1. UNCHANGED <<token, made>>
    BY <1>5 DEF ReadRefresh
  <2>2. req[t].cookie \in 1 .. made /\ \A s \in Requests \ {t} : req'[s] = req[s]
    BY <1>5, ReadRefreshIs
  <2>3. \/ req'[t].pc \notin {"rotating", "issuing"}
        \/ /\ req'[t].cookie = req[t].cookie
           /\ req'[t].family = token[req[t].cookie].family
    BY <1>5, ReadRefreshIs DEF Idle
  <2>4. req'[t].pc # "sent"
    BY <1>5, ReadRefreshIs DEF Idle
  <2>5. \A k \in Tokens : k \notin 1 .. made' => token'[k].state = "none" /\ token'[k].family = 0
    BY <2>1 DEF Carried
  <2>6. \A s \in Requests : Issuing(s)' /\ req'[s].kind = "refresh" =>
          req'[s].cookie \in 1 .. made' /\ req'[s].family = token'[req'[s].cookie].family
    BY <2>1, <2>2, <2>3 DEF Carried, Issuing
  <2>7. \A s \in Requests : req'[s].pc = "sent" => req'[s].kind = "refresh"
    BY <2>2, <2>4 DEF Carried
  <2> QED BY <2>5, <2>6, <2>7 DEF Carried, Issuing
<1>6. ASSUME NEW t \in Tabs, IssueSession(t) PROVE Carried'
  <2> DEFINE n == made + 1
  <2>1. made' = n /\ n \in Tokens /\ n \notin 1 .. made
    BY <1>6, IssueSessionIs
  <2>2. \A k \in Tokens \ {n} : token'[k].family = token[k].family
    BY <1>6, IssueSessionIs
  <2>3. \A k \in Tokens \ {n} :
          ~ (req[t].pc = "rotating" /\ k = req[t].cookie) => token'[k] = token[k]
    BY <1>6, IssueSessionIs
  <2>4. req'[t].pc = "answered" /\ \A s \in Requests \ {t} : req'[s] = req[s]
    BY <1>6, IssueSessionIs
  <2>5. req[t].pc = "rotating" => req[t].cookie \in 1 .. made
    BY <1>f DEF Begun
  <2>6. \A k \in Tokens : k \notin 1 .. made' => k \notin 1 .. made /\ k # n
    BY <1>f, <2>1
  <2>7. 1 .. made \subseteq 1 .. made' /\ 1 .. made \subseteq Tokens \ {n}
    BY <1>f, <2>1
  <2>8. \A k \in Tokens : k \notin 1 .. made' => token'[k].state = "none" /\ token'[k].family = 0
    BY <2>3, <2>5, <2>6 DEF Carried
  <2>9. \A s \in Requests : Issuing(s)' /\ req'[s].kind = "refresh" =>
          req'[s].cookie \in 1 .. made' /\ req'[s].family = token'[req'[s].cookie].family
    BY <2>2, <2>4, <2>7 DEF Carried, Issuing
  <2>10. \A s \in Requests : req'[s].pc = "sent" => req'[s].kind = "refresh"
    BY <2>4 DEF Carried
  <2> QED BY <2>8, <2>9, <2>10 DEF Carried, Issuing
<1>7. ASSUME NEW t \in Tabs, ReadEnd(t) PROVE Carried'
  <2>1. UNCHANGED <<token, made>>
    BY <1>7 DEF ReadEnd
  <2> QED BY <1>7, <1>f, <1>u, <2>1, OthersAre
<1>8. CASE SuspendUser
  <2>1. UNCHANGED <<token, made>>
    BY <1>8 DEF SuspendUser
  <2> QED BY <1>8, <1>u, <2>1, SuspendUserIs
<1>9. ASSUME NEW r \in Requests, CommitEnd(r) PROVE Carried'
  <2>1. \A k \in Tokens : token'[k].family = token[k].family
    BY <1>9, CommitEndIs
  <2>2. \A k \in Tokens : k \notin req[r].rows => token'[k] = token[k]
    BY <1>9, CommitEndIs
  <2>3. made' = made /\ req[r].pc = "ending" /\ \A s \in Requests \ {r} : req'[s] = req[s]
    BY <1>9, CommitEndIs
  <2>4. \/ req'[r].pc \in {"idle", "answered"}
        \/ req'[r].pc = "issuing" /\ req'[r].kind = "password"
    BY <1>9, CommitEndIs
  <2>5. EndedBy(r) \subseteq 1 .. families /\ families \in Nat
    BY <2>3, EndedAreBegun, Facts
  <2>6. \A k \in Tokens : k \notin 1 .. made => k \notin req[r].rows
    BY <2>3, <2>5 DEF Carried, EndsRows
  <2> QED BY <1>f, <2>1, <2>2, <2>3, <2>4, <2>6 DEF Carried, Issuing
<1>10. CASE UNCHANGED vars
  BY <1>10 DEF vars, Carried, Issuing
<1> QED BY <1>1, <1>2, <1>3, <1>4, <1>5, <1>6, <1>7, <1>8, <1>9, <1>10 DEF Next

\* What an end ends it has seen, or knows as late; and what was ended is over.
LEMMA EndsStep ==
  TypeOK /\ Begun /\ Carried /\ EndsAreSound /\ [Next]_vars => EndsAreSound'
<1> SUFFICES ASSUME TypeOK, Begun, Carried, EndsAreSound, [Next]_vars PROVE EndsAreSound'
  OBVIOUS
<1>f. /\ made \in Nat /\ families \in Nat /\ jar \in 0 .. made
      /\ 1 .. made \subseteq Tokens /\ \A t \in Tabs : t \in Requests
  BY Facts
<1>g. \A k \in Tokens : token[k].family \in 0 .. families
  BY Facts
<1>h. EndsRows /\ EndsCover /\ EndedIsOver /\ ReadBefore
  BY DEF EndsAreSound
<1>o. Over \subseteq 1 .. families
  BY DEF Over, TypeOK
\* A live token's family was begun.
<1>l. \A k \in Tokens : token[k].state = "live" => token[k].family \in 1 .. families
  BY <1>f, <1>g DEF Carried, Begun
\* An action of one request that touches no row nor end, and may begin one.
<1>u. ASSUME UNCHANGED <<token, families, ended, burnt, crossed, late>>,
             NEW r \in Requests, \A s \in Requests \ {r} : req'[s] = req[s],
             req'[r].pc = "ending" =>
               /\ \A k \in req'[r].rows : token[k].family \in EndedBy(r)'
               /\ \A k \in Tokens : token[k].state = "live" /\ token[k].family \in EndedBy(r)' =>
                    k \in req'[r].rows,
             req'[r].pc \notin {"rotating", "issuing"}
      PROVE  EndsAreSound'
  <2>1. EndedIsOver'
    BY <1>u, <1>h DEF EndedIsOver, Over
  <2>2. \A s \in Requests \ {r} : EndedBy(s)' = EndedBy(s)
    BY <1>u DEF EndedBy
  <2>3. EndsCover' /\ EndsRows'
    BY <1>u, <1>h, <2>2 DEF EndsCover, EndsRows
  <2>4. ReadBefore'
    BY <1>u, <1>h DEF ReadBefore, Issuing, Over
  <2> QED BY <2>1, <2>3, <2>4 DEF EndsAreSound
<1>1. CASE Tick
  BY <1>1, <1>h DEF Tick, EndsAreSound, EndsRows, EndsCover, EndedIsOver, EndedBy, ReadBefore,
                    Issuing, Over
<1>2. ASSUME NEW t \in Tabs, Send(t) PROVE EndsAreSound'
  <2>1. UNCHANGED <<token, families, ended, burnt, crossed, late>>
    BY <1>2 DEF Send
  <2>2. req'[t].pc = "sent" /\ \A s \in Requests \ {t} : req'[s] = req[s]
    BY <1>2, OthersAre
  <2> QED BY <1>f, <1>u, <2>1, <2>2
<1>3. ASSUME NEW t \in Tabs, Login(t) PROVE EndsAreSound'
  <2>1. UNCHANGED <<token, ended, burnt, crossed, late>> /\ families' = families + 1
    BY <1>3 DEF Login
  <2>2. /\ req'[t].pc = "issuing" /\ req'[t].family = families + 1
        /\ \A s \in Requests \ {t} : req'[s] = req[s]
    BY <1>3, OthersAre
  <2>3. EndedIsOver'
    BY <1>h, <2>1 DEF EndedIsOver, Over
  <2>4. \A s \in Requests \ {t}, k \in Tokens :
          token[k].family \in EndedBy(s)' <=> token[k].family \in EndedBy(s)
    <3> SUFFICES ASSUME NEW s \in Requests \ {t}, NEW k \in Tokens
                 PROVE  token[k].family \in EndedBy(s)' <=> token[k].family \in EndedBy(s)
      OBVIOUS
    <3>1. token[k].family \in 1 .. families' <=> token[k].family \in 1 .. families
      BY <1>f, <1>g, <2>1
    <3> QED BY <2>1, <2>2, <3>1 DEF EndedBy
  <2>5. EndsCover'
    BY <1>f, <1>h, <2>1, <2>2, <2>4 DEF EndsCover
  <2>6. EndsRows'
    <3>1. \A s \in Requests : req[s].rows \subseteq Tokens
      BY DEF TypeOK
    <3> QED BY <1>f, <1>h, <2>1, <2>2, <2>4, <3>1 DEF EndsRows
  <2>7. families + 1 \notin Over
    BY <1>f, <1>o
  <2>8. ReadBefore'
    BY <1>f, <1>h, <2>1, <2>2, <2>7 DEF ReadBefore, Issuing, Over
  <2> QED BY <2>3, <2>5, <2>6, <2>8 DEF EndsAreSound
<1>4. ASSUME NEW t \in Tabs, Arrive(t) \/ LoseAnswer(t) PROVE EndsAreSound'
  <2>1. UNCHANGED <<token, families, ended, burnt, crossed, late>>
    BY <1>4 DEF Arrive, LoseAnswer
  <2>2. req'[t] = Idle /\ \A s \in Requests \ {t} : req'[s] = req[s]
    BY <1>4, OthersAre
  <2>3. req'[t].pc = "idle"
    BY <2>2 DEF Idle
  <2> QED BY <1>f, <1>u, <2>1, <2>2, <2>3
<1>5. ASSUME NEW t \in Tabs, ReadRefresh(t) PROVE EndsAreSound'
  <2> DEFINE c == req[t].cookie
  <2>1. UNCHANGED <<token, families, ended, burnt, crossed, late>>
    BY <1>5 DEF ReadRefresh
  <2>2. c \in 1 .. made /\ \A s \in Requests \ {t} : req'[s] = req[s]
    BY <1>5, ReadRefreshIs
  <2>3. CASE req'[t].pc = "ending"
    <3>1. /\ req'[t].cookie = c /\ req'[t].rows = Live(token[c].family)
          /\ \/ req'[t].kind = "suspended"
             \/ req'[t].kind = "reuse" /\ req'[t].family = token[c].family
      BY <1>5, <2>3, ReadRefreshIs DEF Idle
    <3>2. EndedBy(t)' = {token[c].family}
      BY <2>1, <3>1 DEF EndedBy
    <3> QED BY <1>f, <1>u, <2>1, <2>2, <2>3, <3>1, <3>2 DEF Live
  <2>4. CASE req'[t].pc \in {"rotating", "issuing"}
    <3>1. /\ req'[t].cookie = c /\ req'[t].family = token[c].family
          /\ \/ req'[t].pc = "rotating" /\ token[c].state = "live"
             \/ /\ req'[t].pc = "issuing" /\ req'[t].kind = req[t].kind
                /\ token[c].state = "rotated"
      BY <1>5, <2>4, ReadRefreshIs DEF Idle
    <3>2. req[t].kind = "refresh"
      <4>1. req[t].pc = "sent"
        BY <1>5, ReadRefreshIs
      <4> QED BY <1>f, <4>1 DEF Carried
    <3>3. token[c].state = "live" /\ token[c].family \in Over => c \in late
      BY <1>f, <1>h, <2>2 DEF EndedIsOver
    <3>4. ReadBefore'
      BY <1>h, <2>1, <2>2, <3>1, <3>2, <3>3 DEF ReadBefore, Issuing, Over
    <3>5. \A s \in Requests \ {t} : EndedBy(s)' = EndedBy(s)
      BY <2>1, <2>2 DEF EndedBy
    <3>6. EndsCover' /\ EndsRows'
      BY <1>h, <2>1, <2>2, <2>4, <3>5 DEF EndsCover, EndsRows
    <3>7. EndedIsOver'
      BY <1>h, <2>1 DEF EndedIsOver, Over
    <3> QED BY <3>4, <3>6, <3>7 DEF EndsAreSound
  <2>5. CASE req'[t].pc \notin {"rotating", "issuing", "ending"}
    BY <1>f, <1>u, <2>1, <2>2, <2>5
  <2> QED BY <2>3, <2>4, <2>5
<1>6. ASSUME NEW t \in Tabs, IssueSession(t) PROVE EndsAreSound'
  <2> DEFINE f == req[t].family
             n == made + 1
  <2>1. n \in Tokens /\ n \notin 1 .. made /\ token'[n].state = "live" /\ token'[n].family = f
        /\ req[t].pc \in {"rotating", "issuing"}
    BY <1>6, IssueSessionIs
  <2>2. \A k \in Tokens \ {n} : token'[k].family = token[k].family
    BY <1>6, IssueSessionIs
  <2>3. \A k \in Tokens \ {n} : /\ token'[k].state = "live" => token[k].state = "live"
                                /\ token[k].state = "rotated" => token'[k].state = "rotated"
    BY <1>6, IssueSessionIs
  <2>4. req'[t].pc = "answered" /\ \A s \in Requests \ {t} : req'[s] = req[s]
    BY <1>6, IssueSessionIs
  <2>5. /\ UNCHANGED <<families, ended, burnt>> /\ crossed' = crossed \ {t}
        /\ late \subseteq late' /\ (IsLate(t) => n \in late')
    BY <1>6 DEF IssueSession
  <2>6. \A s \in Requests \ {t} : req[s].pc = "ending" => EndedBy(s)' = EndedBy(s)
    <3> SUFFICES ASSUME NEW s \in Requests \ {t}, req[s].pc = "ending"
                 PROVE  EndedBy(s)' = EndedBy(s)
      OBVIOUS
    <3>1. CASE req[s].kind = "suspended"
      <4>1. req[s].cookie \in Tokens \ {n}
        BY <3>1, <1>f, <2>1 DEF Begun
      <4> QED BY <3>1, <4>1, <2>2, <2>4 DEF EndedBy
    <3>2. CASE req[s].kind # "suspended"
      BY <3>2, <2>4, <2>5 DEF EndedBy
    <3> QED BY <3>1, <3>2
  <2>7. f \in Over => n \in late'
    BY <1>f, <1>h, <2>1, <2>5 DEF ReadBefore, Issuing, IsLate
  <2>8. EndedIsOver'
    BY <1>h, <2>1, <2>2, <2>3, <2>5, <2>7 DEF EndedIsOver, Over
  <2>9. EndsCover'
    <3> SUFFICES ASSUME NEW s \in Requests, req'[s].pc = "ending",
                        NEW k \in Tokens, token'[k].state = "live",
                        token'[k].family \in EndedBy(s)'
                 PROVE  k \in req'[s].rows \/ k \in late'
      BY DEF EndsCover
    <3>1. s # t /\ req'[s] = req[s] /\ EndedBy(s)' = EndedBy(s)
      BY <2>4, <2>6
    <3>2. CASE k = n
      <4>1. IsLate(t)
        BY <3>1, <3>2, <2>1 DEF IsLate
      <4> QED BY <4>1, <3>2, <2>5
    <3>3. CASE k # n
      BY <3>1, <3>3, <1>h, <2>2, <2>3, <2>5 DEF EndsCover
    <3> QED BY <3>2, <3>3
  <2>10. EndsRows'
    <3> SUFFICES ASSUME NEW s \in Requests, req'[s].pc = "ending", NEW k \in req'[s].rows
                 PROVE  token'[k].family \in EndedBy(s)'
      BY DEF EndsRows
    <3>1. s # t /\ req'[s] = req[s] /\ EndedBy(s)' = EndedBy(s)
      BY <2>4, <2>6
    <3>2. token[k].family \in EndedBy(s) /\ k \in Tokens
      BY <1>h, <3>1 DEF EndsRows, TypeOK
    <3>3. EndedBy(s) \subseteq 1 .. families
      BY <3>1, EndedAreBegun
    <3>4. k # n
      BY <1>f, <2>1, <3>2, <3>3 DEF Carried
    <3> QED BY <2>2, <3>1, <3>2, <3>4
  <2>11. ReadBefore'
    <3> SUFFICES ASSUME NEW s \in Requests, Issuing(s)', req'[s].family \in Over'
                 PROVE  \/ s \in crossed'
                        \/ /\ req'[s].pc = "issuing" /\ req'[s].kind = "refresh"
                           /\ token'[req'[s].cookie].state = "rotated"
                        \/ req'[s].pc = "rotating" /\ req'[s].cookie \in late'
      BY DEF ReadBefore
    <3>1. s # t /\ req'[s] = req[s] /\ Issuing(s) /\ req[s].family \in Over
      BY <2>4, <2>5 DEF Issuing, Over
    <3>2. req[s].kind = "refresh" => req[s].cookie \in Tokens \ {n}
      BY <1>f, <2>1, <3>1 DEF Carried
    <3> QED BY <1>h, <2>3, <2>5, <3>1, <3>2 DEF ReadBefore
  <2> QED BY <2>8, <2>9, <2>10, <2>11 DEF EndsAreSound
<1>7. ASSUME NEW t \in Tabs, ReadEnd(t) PROVE EndsAreSound'
  <2> DEFINE f == token[jar].family
  <2>1. UNCHANGED <<token, families, ended, burnt, crossed, late>>
    BY <1>7 DEF ReadEnd
  <2>2. req'[t].pc = "ending" /\ \A s \in Requests \ {t} : req'[s] = req[s]
    BY <1>7, OthersAre
  <2>3. \/ /\ req'[t].kind = "logout" /\ req'[t].rows = Live(f) /\ EndedBy(t)' = {f}
        \/ /\ req'[t].kind = "others" /\ req'[t].rows = AllLive \ Live(f)
           /\ EndedBy(t)' = (1 .. families) \ {f}
        \/ /\ req'[t].kind = "password" /\ req'[t].rows = AllLive
           /\ EndedBy(t)' = 1 .. families
    BY <1>7, <2>1, OthersAre DEF EndedBy
  <2>4. /\ \A k \in req'[t].rows : token[k].family \in EndedBy(t)'
        /\ \A k \in Tokens : token[k].state = "live" /\ token[k].family \in EndedBy(t)' =>
             k \in req'[t].rows
    BY <1>l, <2>3 DEF Live, AllLive
  <2> QED BY <1>f, <1>u, <2>1, <2>2, <2>4
<1>8. CASE SuspendUser
  <2>1. UNCHANGED <<token, families, ended, burnt, crossed, late>>
    BY <1>8 DEF SuspendUser
  <2>2. /\ Admin \in Requests /\ req'[Admin].rows = AllLive /\ req'[Admin].pc = "ending"
        /\ req'[Admin].kind = "admin" /\ \A s \in Requests \ {Admin} : req'[s] = req[s]
    BY <1>8, SuspendUserIs
  <2>3. EndedBy(Admin)' = 1 .. families
    BY <2>1, <2>2 DEF EndedBy
  <2>4. /\ \A k \in req'[Admin].rows : token[k].family \in EndedBy(Admin)'
        /\ \A k \in Tokens : token[k].state = "live" => k \in req'[Admin].rows
    BY <1>l, <2>2, <2>3 DEF AllLive
  <2> QED BY <1>u, <2>1, <2>2, <2>4
<1>9. ASSUME NEW r \in Requests, CommitEnd(r) PROVE EndsAreSound'
  <2>1. \A k \in Tokens : token'[k].family = token[k].family
    BY <1>9, CommitEndIs
  <2>2. \A k \in Tokens : k \in req[r].rows => token'[k].state = "ended"
    BY <1>9, CommitEndIs
  <2>3. \A k \in Tokens : k \notin req[r].rows => token'[k] = token[k]
    BY <1>9, CommitEndIs
  <2>4. \A s \in Requests \ {r} : req'[s] = req[s]
    BY <1>9, CommitEndIs
  <2>5. req[r].pc = "ending" /\ req'[r].pc # "ending"
    BY <1>9, CommitEndIs
  <2>6. families' = families \/ families' = families + 1
    BY <1>9, CommitEndIs
  <2>7. late' = late /\ crossed' = crossed \cup Overtaken(r)
    BY <1>9 DEF CommitEnd
  <2>8. Over' = Over \cup EndedBy(r)
    BY <1>9 DEF CommitEnd, Over
  <2>9. EndedIsOver'
    BY <1>h, <2>1, <2>2, <2>3, <2>5, <2>7, <2>8 DEF EndedIsOver, EndsCover
  <2>10. \A s \in Requests \ {r}, k \in Tokens : req[s].pc = "ending" =>
           (token[k].family \in EndedBy(s)' <=> token[k].family \in EndedBy(s))
    <3> SUFFICES ASSUME NEW s \in Requests \ {r}, NEW k \in Tokens, req[s].pc = "ending"
                 PROVE  token[k].family \in EndedBy(s)' <=> token[k].family \in EndedBy(s)
      OBVIOUS
    <3>0. token[k].family \in 1 .. families' <=> token[k].family \in 1 .. families
      BY <1>f, <1>g, <2>6
    <3>1. CASE req[s].kind = "suspended"
      <4>1. req[s].cookie \in Tokens
        BY <3>1, <1>f DEF Begun
      <4> QED BY <3>1, <4>1, <2>1, <2>4 DEF EndedBy
    <3>2. CASE req[s].kind # "suspended"
      BY <3>0, <3>2, <2>4 DEF EndedBy
    <3> QED BY <3>1, <3>2
  <2>11. EndsCover'
    BY <1>h, <2>1, <2>2, <2>3, <2>4, <2>5, <2>7, <2>10 DEF EndsCover
  <2>12. EndsRows'
    <3>1. \A s \in Requests : req[s].rows \subseteq Tokens
      BY DEF TypeOK
    <3> QED BY <1>h, <2>1, <2>4, <2>5, <2>10, <3>1 DEF EndsRows
  <2>13. ReadBefore'
    <3> SUFFICES ASSUME NEW s \in Requests, Issuing(s)', req'[s].family \in Over'
                 PROVE  \/ s \in crossed'
                        \/ /\ req'[s].pc = "issuing" /\ req'[s].kind = "refresh"
                           /\ token'[req'[s].cookie].state = "rotated"
                        \/ req'[s].pc = "rotating" /\ req'[s].cookie \in late'
      BY DEF ReadBefore
    <3>1. s # r
      <4> SUFFICES ASSUME s = r PROVE FALSE
        OBVIOUS
      <4>1. req'[r].pc = "issuing" => req'[r].family = families + 1
        BY <1>9, CommitEndIs
      <4>2. req'[r].pc \in {"idle", "answered", "issuing"}
        BY <1>9, CommitEndIs
      <4>3. EndedBy(r) \subseteq 1 .. families
        BY <2>5, EndedAreBegun
      <4>4. families + 1 \notin 1 .. families
        BY <1>f
      <4> QED BY <1>o, <2>8, <4>1, <4>2, <4>3, <4>4 DEF Issuing
    <3>2. req'[s] = req[s] /\ Issuing(s)
      BY <2>4, <3>1 DEF Issuing
    <3>3. CASE req[s].family \in EndedBy(r)
      BY <2>7, <3>2, <3>3 DEF Overtaken
    <3>4. CASE req[s].family \notin EndedBy(r)
      <4>1. req[s].family \in Over
        BY <2>8, <3>2, <3>4
      <4>2. req[s].kind = "refresh" =>
              token'[req[s].cookie] = token[req[s].cookie]
        <5> SUFFICES ASSUME req[s].kind = "refresh"
                     PROVE  token'[req[s].cookie] = token[req[s].cookie]
          OBVIOUS
        <5>1. req[s].cookie \in Tokens /\ req[s].family = token[req[s].cookie].family
          BY <1>f, <3>2 DEF Carried
        <5> QED BY <1>h, <2>3, <2>5, <3>4, <5>1 DEF EndsRows
      <4> QED BY <1>h, <2>7, <3>2, <4>1, <4>2 DEF ReadBefore
    <3> QED BY <3>3, <3>4
  <2> QED BY <2>9, <2>11, <2>12, <2>13 DEF EndsAreSound
<1>10. CASE UNCHANGED vars
  BY <1>10, <1>h DEF vars, EndsAreSound, EndsRows, EndsCover, EndedIsOver, EndedBy, ReadBefore,
                     Issuing, Over
<1> QED BY <1>1, <1>2, <1>3, <1>4, <1>5, <1>6, <1>7, <1>8, <1>9, <1>10 DEF Next

\* An answer's token stays unknown until the answer is there.
LEMMA AnswersStep == TypeOK /\ Begun /\ AnswersAreFresh /\ [Next]_vars => AnswersAreFresh'
<1> SUFFICES ASSUME TypeOK, Begun, AnswersAreFresh, [Next]_vars PROVE AnswersAreFresh'
  OBVIOUS
<1>f. /\ made \in Nat /\ jar \in 0 .. made
      /\ 1 .. made \subseteq Tokens /\ \A t \in Tabs : t \in Requests
  BY Facts
<1>g. \A t \in Tabs : req[t].cookie \in 0 .. made
  BY Facts
\* An action of one request that answers nothing and knows no more than the browser.
<1>u. ASSUME NEW r \in Requests, \A s \in Requests \ {r} : req'[s] = req[s],
             req'[r].pc # "answered" \/ req'[r].cookie = 0,
             req'[r].cookie \in {0, jar, req[r].cookie}, jar' = jar,
             \A k \in Tokens : token'[k].state = "rotated" => token[k].state = "rotated"
      PROVE  AnswersAreFresh'
  <2> SUFFICES ASSUME NEW t \in Tabs, req'[t].pc = "answered", req'[t].cookie # 0
               PROVE  /\ jar' # req'[t].cookie
                      /\ token'[req'[t].cookie].state # "rotated"
                      /\ \A u \in Tabs : u # t => req'[u].cookie # req'[t].cookie
    BY DEF AnswersAreFresh
  <2>1. t # r /\ req'[t] = req[t]
    BY <1>u, <1>f
  <2>2. req[t].cookie \in Tokens
    BY <2>1, <1>f, <1>g
  <2>3. /\ jar # req[t].cookie /\ token[req[t].cookie].state # "rotated"
        /\ \A u \in Tabs : u # t => req[u].cookie # req[t].cookie
    BY <2>1 DEF AnswersAreFresh
  <2>4. \A u \in Tabs : u # t => req'[u].cookie # req'[t].cookie
    BY <1>u, <1>f, <2>1, <2>3
  <2> QED BY <1>u, <2>1, <2>2, <2>3, <2>4
<1>1. CASE Tick
  BY <1>1 DEF Tick, AnswersAreFresh
<1>2. ASSUME NEW t \in Tabs, Send(t) PROVE AnswersAreFresh'
  <2>1. UNCHANGED <<token, jar>>
    BY <1>2 DEF Send
  <2>2. req'[t].pc = "sent" /\ req'[t].cookie = jar
    BY <1>2, OthersAre
  <2>3. \A s \in Requests \ {t} : req'[s] = req[s]
    BY <1>2, OthersAre
  <2> QED BY <1>f, <1>u, <2>1, <2>2, <2>3
<1>3. ASSUME NEW t \in Tabs, Login(t) PROVE AnswersAreFresh'
  <2>1. UNCHANGED <<token, jar>>
    BY <1>3 DEF Login
  <2>2. req'[t].pc = "issuing" /\ req'[t].cookie = 0
    BY <1>3, OthersAre
  <2>3. \A s \in Requests \ {t} : req'[s] = req[s]
    BY <1>3, OthersAre
  <2> QED BY <1>f, <1>u, <2>1, <2>2, <2>3
<1>4. ASSUME NEW t \in Tabs, Arrive(t) PROVE AnswersAreFresh'
  <2>1. token' = token /\ jar' = req[t].cookie /\ req[t].pc = "answered"
    BY <1>4 DEF Arrive
  <2>2. req'[t] = Idle
    BY <1>4, OthersAre
  <2>3. \A s \in Requests \ {t} : req'[s] = req[s]
    BY <1>4, OthersAre
  <2>4. req'[t].pc = "idle" /\ req'[t].cookie = 0
    BY <2>2 DEF Idle
  <2> QED BY <1>f, <2>1, <2>3, <2>4 DEF AnswersAreFresh
<1>5. ASSUME NEW t \in Tabs, LoseAnswer(t) PROVE AnswersAreFresh'
  <2>1. UNCHANGED <<token, jar>>
    BY <1>5 DEF LoseAnswer
  <2>2. req'[t] = Idle
    BY <1>5, OthersAre
  <2>3. \A s \in Requests \ {t} : req'[s] = req[s]
    BY <1>5, OthersAre
  <2>4. req'[t].pc = "idle" /\ req'[t].cookie = 0
    BY <2>2 DEF Idle
  <2> QED BY <1>f, <1>u, <2>1, <2>3, <2>4
<1>6. ASSUME NEW t \in Tabs, ReadRefresh(t) PROVE AnswersAreFresh'
  <2>1. UNCHANGED <<token, jar>>
    BY <1>6 DEF ReadRefresh
  <2>2. req'[t].pc # "answered" /\ req'[t].cookie \in {0, req[t].cookie}
    BY <1>6, ReadRefreshIs DEF Idle
  <2>3. \A s \in Requests \ {t} : req'[s] = req[s]
    BY <1>6, ReadRefreshIs
  <2> QED BY <1>f, <1>u, <2>1, <2>2, <2>3
<1>7. ASSUME NEW t \in Tabs, IssueSession(t) PROVE AnswersAreFresh'
  <2> DEFINE n == made + 1
  <2>1. n \in Tokens /\ n \notin 1 .. made /\ token'[n].state = "live"
    BY <1>7, IssueSessionIs
  <2>2. req'[t].cookie = n /\ \A s \in Requests \ {t} : req'[s] = req[s]
    BY <1>7, IssueSessionIs
  <2>3. \A k \in Tokens \ {n} :
          ~ (req[t].pc = "rotating" /\ k = req[t].cookie) => token'[k] = token[k]
    BY <1>7, IssueSessionIs
  <2>4. jar' = jar
    BY <1>7 DEF IssueSession
  <2>5. jar # n /\ \A s \in Tabs : req[s].cookie # n
    BY <1>f, <1>g, <2>1
  <2> SUFFICES ASSUME NEW s \in Tabs, req'[s].pc = "answered", req'[s].cookie # 0
               PROVE  /\ jar' # req'[s].cookie
                      /\ token'[req'[s].cookie].state # "rotated"
                      /\ \A u \in Tabs : u # s => req'[u].cookie # req'[s].cookie
    BY DEF AnswersAreFresh
  <2>6. CASE s = t
    BY <1>f, <2>1, <2>2, <2>4, <2>5, <2>6
  <2>7. CASE s # t
    <3>1. req'[s] = req[s]
      BY <1>f, <2>2, <2>7
    <3>2. /\ jar # req[s].cookie /\ token[req[s].cookie].state # "rotated"
          /\ \A u \in Tabs : u # s => req[u].cookie # req[s].cookie
      BY <3>1 DEF AnswersAreFresh
    <3>3. req[s].cookie \in Tokens \ {n}
      BY <1>f, <1>g, <2>5, <3>1
    <3>4. token'[req[s].cookie] = token[req[s].cookie]
      BY <2>3, <2>7, <3>2, <3>3
    <3>5. \A u \in Tabs : u # s => req'[u].cookie # req[s].cookie
      BY <1>f, <2>2, <2>5, <3>2
    <3> QED BY <2>4, <3>1, <3>2, <3>4, <3>5
  <2> QED BY <2>6, <2>7
<1>8. ASSUME NEW t \in Tabs, ReadEnd(t) PROVE AnswersAreFresh'
  <2>1. UNCHANGED <<token, jar>>
    BY <1>8 DEF ReadEnd
  <2>2. req'[t].pc = "ending" /\ req'[t].cookie = jar
    BY <1>8, OthersAre
  <2>3. \A s \in Requests \ {t} : req'[s] = req[s]
    BY <1>8, OthersAre
  <2> QED BY <1>f, <1>u, <2>1, <2>2, <2>3
<1>9. CASE SuspendUser
  <2>1. UNCHANGED <<token, jar>>
    BY <1>9 DEF SuspendUser
  <2>2. Admin \in Requests /\ req'[Admin].pc = "ending" /\ req'[Admin].cookie = 0
    BY <1>9, SuspendUserIs
  <2>3. \A s \in Requests \ {Admin} : req'[s] = req[s]
    BY <1>9, SuspendUserIs
  <2> QED BY <1>u, <2>1, <2>2, <2>3
<1>10. ASSUME NEW r \in Requests, CommitEnd(r) PROVE AnswersAreFresh'
  <2>1. jar' = jar
    BY <1>10, CommitEndIs
  <2>2. \A k \in Tokens : k \in req[r].rows => token'[k].state = "ended"
    BY <1>10, CommitEndIs
  <2>3. \A k \in Tokens : k \notin req[r].rows => token'[k] = token[k]
    BY <1>10, CommitEndIs
  <2>4. \A s \in Requests \ {r} : req'[s] = req[s]
    BY <1>10, CommitEndIs
  <2>5. /\ req'[r].pc # "answered" \/ req'[r].cookie = 0
        /\ req'[r].cookie \in {0, req[r].cookie}
    BY <1>10, CommitEndIs
  <2> QED BY <1>u, <2>1, <2>2, <2>3, <2>4, <2>5
<1>11. CASE UNCHANGED vars
  BY <1>11 DEF vars, AnswersAreFresh
<1> QED BY <1>1, <1>2, <1>3, <1>4, <1>5, <1>6, <1>7, <1>8, <1>9, <1>10, <1>11 DEF Next

\* What the browser sends stays young enough for the grace, so nobody finds a reuse.
LEMMA ReuseStep ==
  /\ TypeOK /\ Begun /\ OnTheWay /\ AnswersAreFresh /\ OldCookies /\ NoReuseFound
  /\ [Next]_vars
  => OldCookies' /\ NoReuseFound'
<1> SUFFICES ASSUME TypeOK, Begun, OnTheWay, AnswersAreFresh, OldCookies, NoReuseFound,
                    [Next]_vars, losses' = 0
             PROVE  /\ jar' # 0 /\ token'[jar'].state = "rotated" =>
                         \E t \in Tabs : /\ req'[t].pc = "answered" /\ req'[t].kind = "refresh"
                                         /\ req'[t].sent <= token'[jar'].at
                    /\ \A t \in Tabs :
                         req'[t].pc = "sent" /\ token'[req'[t].cookie].state = "rotated" =>
                           req'[t].sent <= token'[req'[t].cookie].at + Delay
                    /\ burnt' = {}
                    /\ \A r \in Requests : ~ (req'[r].pc = "ending" /\ req'[r].kind = "reuse")
  BY DEF OldCookies, NoReuseFound
<1> DEFINE BrowserOK == jar # 0 /\ token[jar].state = "rotated" =>
             \E t \in Tabs : /\ req[t].pc = "answered" /\ req[t].kind = "refresh"
                             /\ req[t].sent <= token[jar].at
           SentOK == \A t \in Tabs :
             req[t].pc = "sent" /\ token[req[t].cookie].state = "rotated" =>
               req[t].sent <= token[req[t].cookie].at + Delay
           FoundOK == burnt = {}
             /\ \A r \in Requests : ~ (req[r].pc = "ending" /\ req[r].kind = "reuse")
<1> SUFFICES BrowserOK' /\ SentOK' /\ FoundOK'
  OBVIOUS
<1>f. /\ made \in Nat /\ jar \in 0 .. made /\ now \in Nat /\ Delay \in Nat /\ Grace \in Nat
      /\ 2 * Delay <= Grace
      /\ 1 .. made \subseteq Tokens /\ \A t \in Tabs : t \in Requests
  BY Facts, SignInAssumption
<1>g. \A t \in Tabs : req[t].cookie \in 0 .. made /\ req[t].sent \in Nat /\ req[t].at \in Nat
  BY Facts
<1>k. \A k \in Tokens : token[k].at \in Nat
  BY Facts
<1>l. losses \in Nat /\ (losses' = losses \/ losses' = losses + 1)
  <2>1. losses \in Nat
    BY SignInAssumption DEF TypeOK
  <2>2. CASE UNCHANGED vars
    BY <2>2 DEF vars
  <2>3. CASE Tick \/ SuspendUser
    BY <2>3 DEF Tick, SuspendUser
  <2>4. ASSUME NEW t \in Tabs,
               Send(t) \/ Login(t) \/ Arrive(t) \/ LoseAnswer(t) \/ ReadRefresh(t) \/ ReadEnd(t)
        PROVE  losses' = losses \/ losses' = losses + 1
    BY <2>4 DEF Send, Login, Arrive, LoseAnswer, ReadRefresh, ReadEnd
  <2>5. ASSUME NEW t \in Tabs, IssueSession(t) PROVE losses' = losses
    BY <2>5 DEF IssueSession
  <2>6. ASSUME NEW r \in Requests, CommitEnd(r) PROVE losses' = losses
    BY <2>6, CommitEndIs
  <2> QED BY <2>1, <2>2, <2>3, <2>4, <2>5, <2>6 DEF Next
<1>o. losses = 0 /\ BrowserOK /\ SentOK /\ FoundOK
  <2>1. losses = 0
    BY <1>l
  <2> QED BY <2>1 DEF OldCookies, NoReuseFound
<1>s. \A t \in Tabs : req[t].pc = "sent" => req[t].cookie \in Tokens
  BY <1>f DEF Begun
\* An action of one request that rotates nothing, answers nothing and sends nothing.
<1>u. ASSUME NEW r \in Requests, \A s \in Requests \ {r} : req'[s] = req[s],
             req[r].pc # "answered" \/ req[r].kind # "refresh", req'[r].pc # "sent",
             ~ (req'[r].pc = "ending" /\ req'[r].kind = "reuse"),
             jar' = jar, burnt' = burnt,
             \A k \in Tokens : token'[k].state = "rotated" => token'[k] = token[k]
      PROVE  BrowserOK' /\ SentOK' /\ FoundOK'
  <2>1. BrowserOK'
    <3> SUFFICES ASSUME jar' # 0, token'[jar'].state = "rotated"
                 PROVE  \E t \in Tabs : /\ req'[t].pc = "answered" /\ req'[t].kind = "refresh"
                                        /\ req'[t].sent <= token'[jar'].at
      OBVIOUS
    <3>1. jar \in Tokens
      BY <1>u, <1>f
    <3>2. token'[jar] = token[jar] /\ token[jar].state = "rotated"
      BY <1>u, <3>1
    <3>3. PICK t \in Tabs : /\ req[t].pc = "answered" /\ req[t].kind = "refresh"
                           /\ req[t].sent <= token[jar].at
      BY <1>o, <1>u, <3>2
    <3>4. req'[t] = req[t]
      BY <1>u, <1>f, <3>3
    <3> QED BY <1>u, <3>2, <3>3, <3>4
  <2>2. SentOK'
    BY <1>u, <1>o, <1>f, <1>s
  <2>3. FoundOK'
    BY <1>u, <1>o
  <2> QED BY <2>1, <2>2, <2>3
<1>1. CASE Tick
  BY <1>1, <1>o DEF Tick
<1>2. ASSUME NEW t \in Tabs, Send(t) PROVE BrowserOK' /\ SentOK' /\ FoundOK'
  <2>1. UNCHANGED <<token, jar, burnt>> /\ req[t].pc = "idle"
    BY <1>2 DEF Send
  <2>2. /\ req'[t].pc = "sent" /\ req'[t].cookie = jar /\ req'[t].sent = now /\ jar # 0
        /\ \A s \in Requests \ {t} : req'[s] = req[s]
    BY <1>2, OthersAre
  <2>3. BrowserOK'
    BY <1>o, <1>f, <2>1, <2>2
  <2>4. FoundOK'
    BY <1>o, <2>1, <2>2
  <2>5. token[jar].state = "rotated" => now <= token[jar].at + Delay
    <3> SUFFICES ASSUME token[jar].state = "rotated" PROVE now <= token[jar].at + Delay
      OBVIOUS
    <3>1. PICK u \in Tabs : /\ req[u].pc = "answered" /\ req[u].kind = "refresh"
                           /\ req[u].sent <= token[jar].at
      BY <1>o, <2>2
    <3>2. now <= req[u].sent + Delay
      BY <3>1 DEF OnTheWay
    <3>3. jar \in Tokens
      BY <1>f, <2>2
    <3> QED BY <1>f, <1>g, <1>k, <3>1, <3>2, <3>3
  <2>6. SentOK'
    BY <1>o, <1>f, <2>1, <2>2, <2>5
  <2> QED BY <2>3, <2>4, <2>6
<1>3. ASSUME NEW t \in Tabs, Login(t) PROVE BrowserOK' /\ SentOK' /\ FoundOK'
  <2>1. UNCHANGED <<token, jar, burnt>> /\ req[t].pc = "idle"
    BY <1>3 DEF Login
  <2>2. req'[t].pc = "issuing" /\ \A s \in Requests \ {t} : req'[s] = req[s]
    BY <1>3, OthersAre
  <2> QED BY <1>f, <1>u, <2>1, <2>2
<1>4. ASSUME NEW t \in Tabs, Arrive(t) PROVE BrowserOK' /\ SentOK' /\ FoundOK'
  <2>1. UNCHANGED <<token, burnt>> /\ jar' = req[t].cookie /\ req[t].pc = "answered"
    BY <1>4 DEF Arrive
  <2>2. req'[t] = Idle /\ \A s \in Requests \ {t} : req'[s] = req[s]
    BY <1>4, OthersAre
  <2>3. req'[t].pc = "idle"
    BY <2>2 DEF Idle
  <2>4. BrowserOK'
    BY <2>1 DEF AnswersAreFresh
  <2>5. SentOK' /\ FoundOK'
    BY <1>o, <1>f, <2>1, <2>2, <2>3
  <2> QED BY <2>4, <2>5
<1>5. ASSUME NEW t \in Tabs, LoseAnswer(t) PROVE FALSE
  BY <1>5, <1>o DEF LoseAnswer
<1>6. ASSUME NEW t \in Tabs, ReadRefresh(t) PROVE BrowserOK' /\ SentOK' /\ FoundOK'
  <2>1. UNCHANGED <<token, jar, burnt>> /\ req[t].pc = "sent"
    BY <1>6 DEF ReadRefresh
  <2>2. \A s \in Requests \ {t} : req'[s] = req[s]
    BY <1>6, ReadRefreshIs
  <2> DEFINE c == req[t].cookie
  <2>3. ~ (token[c].state = "rotated" /\ ~ WithinGrace(token[c]))
    <3> SUFFICES ASSUME token[c].state = "rotated" PROVE now <= token[c].at + Grace
      BY DEF WithinGrace
    <3>1. req[t].sent <= token[c].at + Delay
      BY <1>o, <2>1
    <3>2. now <= req[t].sent + Delay
      BY <2>1 DEF OnTheWay
    <3>3. token[c].at \in Nat
      BY <1>k, <1>s, <2>1
    <3> QED BY <1>f, <1>g, <3>1, <3>2, <3>3
  <2>4. req'[t].pc # "sent" /\ ~ (req'[t].pc = "ending" /\ req'[t].kind = "reuse")
    BY <1>6, <2>3, ReadRefreshIs DEF Idle
  <2> QED BY <1>f, <1>u, <2>1, <2>2, <2>4
<1>7. ASSUME NEW t \in Tabs, IssueSession(t) PROVE BrowserOK' /\ SentOK' /\ FoundOK'
  <2> DEFINE n == made + 1
             c == req[t].cookie
  <2>1. n \in Tokens /\ n \notin 1 .. made /\ token'[n].state = "live"
        /\ req[t].pc \in {"rotating", "issuing"}
    BY <1>7, IssueSessionIs
  <2>2. req'[t].pc = "answered" /\ req'[t].kind = req[t].kind /\ req'[t].sent = req[t].sent
    BY <1>7, IssueSessionIs
  <2>3. \A s \in Requests \ {t} : req'[s] = req[s]
    BY <1>7, IssueSessionIs
  <2>4. \A k \in Tokens \ {n} : ~ (req[t].pc = "rotating" /\ k = c) => token'[k] = token[k]
    BY <1>7, IssueSessionIs
  <2>5. \A k \in Tokens \ {n} : req[t].pc = "rotating" /\ k = c =>
          token'[k].state = "rotated" /\ token'[k].at = req[t].at
    BY <1>7, IssueSessionIs
  <2>6. UNCHANGED <<jar, burnt>>
    BY <1>7 DEF IssueSession
  <2>7. BrowserOK'
    <3> SUFFICES ASSUME jar # 0, token'[jar].state = "rotated"
                 PROVE  \E s \in Tabs : /\ req'[s].pc = "answered" /\ req'[s].kind = "refresh"
                                        /\ req'[s].sent <= token'[jar].at
      BY <2>6
    <3>1. jar \in Tokens \ {n}
      BY <1>f, <2>1
    <3>2. CASE req[t].pc = "rotating" /\ jar = c
      <4>1. token'[jar].at = req[t].at
        BY <2>5, <3>1, <3>2
      <4>2. req[t].kind = "refresh" /\ req[t].sent <= req[t].at
        BY <3>2 DEF OnTheWay
      <4> QED BY <2>2, <4>1, <4>2
    <3>3. CASE ~ (req[t].pc = "rotating" /\ jar = c)
      <4>1. token'[jar] = token[jar]
        BY <2>4, <3>1, <3>3
      <4>2. PICK s \in Tabs : /\ req[s].pc = "answered" /\ req[s].kind = "refresh"
                             /\ req[s].sent <= token[jar].at
        BY <1>o, <4>1
      <4>3. req'[s] = req[s]
        BY <1>f, <2>1, <2>3, <4>2
      <4> QED BY <4>1, <4>2, <4>3
    <3> QED BY <3>2, <3>3
  <2>8. SentOK'
    <3> SUFFICES ASSUME NEW s \in Tabs, req'[s].pc = "sent",
                        token'[req'[s].cookie].state = "rotated"
                 PROVE  req'[s].sent <= token'[req'[s].cookie].at + Delay
      OBVIOUS
    <3>1. req'[s] = req[s] /\ req[s].pc = "sent"
      BY <1>f, <2>2, <2>3
    <3>2. req[s].cookie \in Tokens \ {n}
      BY <1>f, <1>g, <1>s, <2>1, <3>1
    <3>3. CASE req[t].pc = "rotating" /\ req[s].cookie = c
      <4>1. token'[c].at = req[t].at
        BY <2>5, <3>2, <3>3
      <4>2. /\ req[s].sent <= now /\ now <= req[t].sent + Delay
            /\ req[t].sent <= req[t].at
        BY <3>1, <3>3 DEF OnTheWay
      <4>3. req[s].sent <= req[t].at + Delay
        BY <1>f, <1>g, <4>2
      <4> QED BY <3>1, <3>3, <4>1, <4>3
    <3>4. CASE ~ (req[t].pc = "rotating" /\ req[s].cookie = c)
      <4>1. token'[req[s].cookie] = token[req[s].cookie]
        BY <2>4, <3>2, <3>4
      <4> QED BY <1>o, <3>1, <4>1
    <3> QED BY <3>3, <3>4
  <2>9. FoundOK'
    BY <1>o, <2>2, <2>3, <2>6
  <2> QED BY <2>7, <2>8, <2>9
<1>8. ASSUME NEW t \in Tabs, ReadEnd(t) PROVE BrowserOK' /\ SentOK' /\ FoundOK'
  <2>1. UNCHANGED <<token, jar, burnt>> /\ req[t].pc = "idle"
    BY <1>8 DEF ReadEnd
  <2>2. /\ req'[t].pc = "ending" /\ req'[t].kind \in {"logout", "others", "password"}
        /\ \A s \in Requests \ {t} : req'[s] = req[s]
    BY <1>8, OthersAre
  <2> QED BY <1>f, <1>u, <2>1, <2>2
<1>9. CASE SuspendUser
  <2>1. UNCHANGED <<token, jar, burnt>> /\ req[Admin].pc = "idle"
    BY <1>9 DEF SuspendUser
  <2>2. /\ Admin \in Requests /\ req'[Admin].pc = "ending" /\ req'[Admin].kind = "admin"
        /\ \A s \in Requests \ {Admin} : req'[s] = req[s]
    BY <1>9, SuspendUserIs
  <2> QED BY <1>u, <2>1, <2>2
<1>10. ASSUME NEW r \in Requests, CommitEnd(r) PROVE BrowserOK' /\ SentOK' /\ FoundOK'
  <2>1. jar' = jar /\ req[r].pc = "ending"
    BY <1>10, CommitEndIs
  <2>2. \A k \in Tokens : k \in req[r].rows => token'[k].state = "ended"
    BY <1>10, CommitEndIs
  <2>3. \A k \in Tokens : k \notin req[r].rows => token'[k] = token[k]
    BY <1>10, CommitEndIs
  <2>4. \A s \in Requests \ {r} : req'[s] = req[s]
    BY <1>10, CommitEndIs
  <2>5. req'[r].pc \in {"idle", "answered", "issuing"}
    BY <1>10, CommitEndIs
  <2>6. req[r].kind # "reuse"
    BY <1>o, <2>1
  <2>7. burnt' = burnt
    BY <1>10, <2>6 DEF CommitEnd
  <2> QED BY <1>u, <2>1, <2>2, <2>3, <2>4, <2>5, <2>7
<1>11. CASE UNCHANGED vars
  BY <1>11, <1>o DEF vars
<1> QED BY <1>1, <1>2, <1>3, <1>4, <1>5, <1>6, <1>7, <1>8, <1>9, <1>10, <1>11 DEF Next

-----------------------------------------------------------------------------
\* The theorems.

\* The inductive invariant holds.
LEMMA SessionsHold == Spec => []SessionInv
<1>1. SessionInv /\ [Next]_vars => SessionInv'
  BY TypeStep, BegunStep, CarriedStep, EndsStep, OnTheWayStep, AnswersStep, ReuseStep
     DEF SessionInv, EndsAreSound
<1> QED BY InitHolds, <1>1, PTL DEF Spec

\* routers/auth.py refresh: the types, and while every answer arrives no family is
\* burnt as reused, however the tabs' refreshes, sign-outs and changes of password
\* cross - for any number of tabs and any grace of twice a refresh's way.
THEOREM TabsAreNotThieves == Spec => []SignInInv
<1>1. SessionInv => SignInInv
  BY DEF SessionInv, SignInInv, NoReuseFound, NeverTakenForReuse
<1> QED BY SessionsHold, <1>1, PTL

\* logout, change_password, suspend_user, refresh_reused: a family that was ended or burnt
\* holds no live token, but one that was issued beside the end or in the grace after
\* it, or for such a token; a token that an end revoked is never refreshed.
THEOREM EndsHold == Spec => []EndedIsOver
<1>1. SessionInv => EndedIsOver
  BY DEF SessionInv, EndsAreSound
<1> QED BY SessionsHold, <1>1, PTL

=============================================================================
