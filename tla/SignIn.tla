------------------------------- MODULE SignIn -------------------------------
(***************************************************************************)
(* The sign-in of one person in one browser (routers/auth.py): refresh     *)
(* tokens in families, rotated at every refresh, a grace for the tab that  *)
(* lost the race, sign-out, change of password and suspension.  The tabs   *)
(* of the browser share its cookie jar; an answer sets the cookie when it  *)
(* arrives.                                                                *)
(*                                                                         *)
(* A request's pc: "idle", "sent" (with the cookie of its sending),        *)
(* "rotating" (row read live, stamped), "issuing" (a token without a       *)
(* rotation), "ending" (live rows read, to be revoked), "answered".        *)
(* Token and family 0 are none.                                            *)
(***************************************************************************)
EXTENDS Naturals

CONSTANTS
  Tabs,                       \* tabs of the browser
  Admin,                      \* an administrator's request
  Grace,                      \* refresh_grace_sec in ticks
  Delay,                      \* ticks from a request's sending to its answer at most
  MaxTime, MaxTokens, MaxFamilies, MaxLosses
                              \* bounds: ticks, tokens and families begun, answers lost

\* A tab may send the old cookie until the answer that replaces it is there,
\* and its request travels as long again.
ASSUME SignInAssumption ==
  /\ Admin \notin Tabs
  /\ Grace \in Nat /\ Delay \in Nat /\ 2 * Delay <= Grace
  /\ MaxTime \in Nat /\ MaxTokens \in Nat /\ MaxFamilies \in Nat /\ MaxLosses \in Nat

VARIABLES
  now,
  token,          \* rows: state, stamp of the rotation, family
  made,           \* tokens issued
  families,       \* families begun
  suspended,      \* users.status is suspended
  jar,            \* the cookie of the browser
  req,            \* of a request: pc, what it is, its cookie, when it was sent,
                  \*   its stamp, the family it issues in, the rows it revokes
  ended,          \* history: families a person or an administrator ended
  burnt,          \* history: families revoked as reused
  crossed,        \* history: requests whose family was ended after they had read
  late,           \* history: tokens issued beside an end of their family, in the
                  \*   grace after it, or for such a token
  losses          \* bounded counter

vars == <<now, token, made, families, suspended, jar, req, ended, burnt, crossed, late, losses>>

Tokens == 1 .. MaxTokens
NoRow == [state |-> "none", at |-> 0, family |-> 0]
Idle == [pc |-> "idle", kind |-> "refresh", cookie |-> 0, sent |-> 0, at |-> 0,
         family |-> 0, rows |-> {}]
Requests == Tabs \cup {Admin}

Init ==
  /\ now = 0 /\ made = 0 /\ families = 0 /\ suspended = FALSE /\ jar = 0
  /\ token = [k \in Tokens |-> NoRow]
  /\ req = [r \in Requests |-> Idle]
  /\ ended = {} /\ burnt = {} /\ crossed = {} /\ late = {} /\ losses = 0

Live(family) == {k \in Tokens : token[k].state = "live" /\ token[k].family = family}
AllLive == {k \in Tokens : token[k].state = "live"}
Issuing(r) == req[r].pc \in {"rotating", "issuing"}

-----------------------------------------------------------------------------
\* The browser (external).

\* No refresh, nor its answer, travels longer than Delay.
Tick ==
  /\ now < MaxTime
  /\ \A t \in Tabs : req[t].pc # "idle" /\ req[t].kind = "refresh" => now < req[t].sent + Delay
  /\ now' = now + 1
  /\ UNCHANGED <<token, made, families, suspended, jar, req, ended, burnt, crossed, late, losses>>

Send(t) ==
  /\ req[t].pc = "idle" /\ jar # 0
  /\ req' = [req EXCEPT ![t] = [Idle EXCEPT !.pc = "sent", !.cookie = jar, !.sent = now]]
  /\ UNCHANGED <<now, token, made, families, suspended, jar, ended, burnt, crossed, late, losses>>

\* login, up to its own commit: a family of its own, whatever cookie the browser holds.
Login(t) ==
  /\ req[t].pc = "idle" /\ ~suspended /\ families < MaxFamilies
  /\ req' = [req EXCEPT ![t] = [Idle EXCEPT !.pc = "issuing", !.kind = "login",
                                            !.family = families + 1]]
  /\ families' = families + 1
  /\ UNCHANGED <<now, token, made, suspended, jar, ended, burnt, crossed, late, losses>>

\* The answer sets the cookie, or clears it.
Arrive(t) ==
  /\ req[t].pc = "answered"
  /\ jar' = req[t].cookie
  /\ req' = [req EXCEPT ![t] = Idle]
  /\ UNCHANGED <<now, token, made, families, suspended, ended, burnt, crossed, late, losses>>

LoseAnswer(t) ==
  /\ req[t].pc = "answered"
  /\ losses < MaxLosses /\ losses' = losses + 1
  /\ req' = [req EXCEPT ![t] = Idle]
  /\ UNCHANGED <<now, token, made, families, suspended, jar, ended, burnt, crossed, late>>

-----------------------------------------------------------------------------
\* refresh

\* An HTTPException loses the header that clears the cookie: a refusal leaves the
\* browser as it was, and its request is over.
Answer(r, cookie) == [Idle EXCEPT !.pc = "answered", !.kind = req[r].kind, !.cookie = cookie,
                                !.sent = req[r].sent]

\* Mutated: a rotated token is never answered again.
WithinGrace_Never(row) == FALSE

\* _within_grace
WithinGrace(row) == now <= row.at + Grace

\* Mutated: whether the row is revoked is not looked at, so a token that was ended is
\* refreshed like any other.
Usable_Always(row) == row.state # "rotated"

\* RefreshToken.is_usable
Usable(row) == row.state = "live"

\* refresh, up to its commit
ReadRefresh(t) ==
  LET row == token[req[t].cookie] IN
  /\ req[t].pc = "sent"
  /\ \/ /\ suspended                               \* before the replay check
        /\ req' = [req EXCEPT ![t] = [@ EXCEPT !.pc = "ending", !.kind = "suspended",
                                               !.rows = Live(row.family)]]
     \/ /\ ~suspended /\ Usable(row)
        /\ req' = [req EXCEPT ![t] = [@ EXCEPT !.pc = "rotating", !.at = now,
                                               !.family = row.family]]
     \/ /\ ~suspended /\ row.state = "rotated" /\ WithinGrace(row)
        /\ req' = [req EXCEPT ![t] = [@ EXCEPT !.pc = "issuing", !.family = row.family]]
     \/ /\ ~suspended /\ row.state = "rotated" /\ ~WithinGrace(row)
        /\ req' = [req EXCEPT ![t] = [@ EXCEPT !.pc = "ending", !.kind = "reuse",
                                               !.family = row.family,
                                               !.rows = Live(row.family)]]
     \/ /\ ~suspended /\ row.state = "ended" /\ ~Usable(row)
        /\ req' = [req EXCEPT ![t] = Idle]
  /\ UNCHANGED <<now, token, made, families, suspended, jar, ended, burnt, crossed, late, losses>>

\* The families whose end this is.
EndedBy(r) ==
  CASE req[r].kind \in {"logout", "reuse"} -> {req[r].family}
    [] req[r].kind = "others" -> (1 .. families) \ {req[r].family}
    [] req[r].kind = "suspended" -> {token[req[r].cookie].family}
    [] OTHER -> 1 .. families

Over == ended \cup burnt

\* No end saw, or could see, the token that this request issues: one is under way, one
\* was done since the request read, the answer is one in the grace, or the token
\* replaces one of this sort.
IsLate(t) ==
  \/ \E r \in Requests : req[r].pc = "ending" /\ req[t].family \in EndedBy(r)
  \/ t \in crossed
  \/ /\ req[t].pc = "issuing" /\ req[t].kind = "refresh"
     /\ token[req[t].cookie].state = "rotated" /\ req[t].family \in Over
  \/ req[t].pc = "rotating" /\ req[t].cookie \in late

\* _issue_session: its one commit holds the rotation too
IssueSession(t) ==
  LET row == [state |-> "live", at |-> 0, family |-> req[t].family] IN
  /\ req[t].pc \in {"rotating", "issuing"} /\ made < MaxTokens
  /\ made' = made + 1
  /\ token' = IF req[t].pc = "rotating"
              THEN [token EXCEPT ![made + 1] = row,
                                 ![req[t].cookie].state = "rotated",
                                 ![req[t].cookie].at = req[t].at]
              ELSE [token EXCEPT ![made + 1] = row]
  /\ req' = [req EXCEPT ![t] = Answer(t, made + 1)]
  /\ late' = IF IsLate(t) THEN late \cup {made + 1} ELSE late
  /\ crossed' = crossed \ {t}
  /\ UNCHANGED <<now, families, suspended, jar, ended, burnt, losses>>

-----------------------------------------------------------------------------
\* Ending: logout, change_password, admin.suspend_user

\* logout, end_other_sessions, change_password, reset_password: the live rows to revoke
ReadEnd(t) ==
  LET family == token[jar].family
      revoked(kind) == CASE kind = "logout" -> Live(family)
                         [] kind = "others" -> AllLive \ Live(family)
                         [] kind = "password" -> AllLive IN
  /\ req[t].pc = "idle" /\ jar # 0
  /\ \E kind \in {"logout", "others", "password"} :
       /\ kind = "password" => families < MaxFamilies
       /\ req' = [req EXCEPT ![t] = [Idle EXCEPT !.pc = "ending", !.kind = kind,
                                                 !.cookie = jar, !.family = family,
                                                 !.rows = revoked(kind)]]
  /\ UNCHANGED <<now, token, made, families, suspended, jar, ended, burnt, crossed, late, losses>>

SuspendUser ==
  /\ req[Admin].pc = "idle" /\ ~suspended
  /\ req' = [req EXCEPT ![Admin] = [Idle EXCEPT !.pc = "ending", !.kind = "admin",
                                                !.rows = AllLive]]
  /\ UNCHANGED <<now, token, made, families, suspended, jar, ended, burnt, crossed, late, losses>>

\* Mutated: the family's first row alone is revoked.
Revoked_OwnRow(r) ==
  [k \in Tokens |-> IF k = req[r].cookie THEN [token[k] EXCEPT !.state = "ended"]
                    ELSE token[k]]

\* The rows that were live when they were read, whatever they are now.
Revoked(r) ==
  [k \in Tokens |-> IF k \in req[r].rows THEN [token[k] EXCEPT !.state = "ended"]
                    ELSE token[k]]

\* The refreshes and sign-ins that have read already, in families this ends.
Overtaken(r) == {s \in Requests : Issuing(s) /\ req[s].family \in EndedBy(r)}

CommitEnd(r) ==
  /\ req[r].pc = "ending"
  /\ token' = Revoked(r)
  /\ crossed' = crossed \cup Overtaken(r)
  /\ IF req[r].kind = "reuse"
     THEN burnt' = burnt \cup EndedBy(r) /\ UNCHANGED ended
     ELSE ended' = ended \cup EndedBy(r) /\ UNCHANGED burnt
  /\ suspended' = (suspended \/ req[r].kind = "admin")
  /\ IF req[r].kind = "password"        \* this browser goes on with a family of its own
     THEN /\ families' = families + 1
          /\ req' = [req EXCEPT ![r] = [@ EXCEPT !.pc = "issuing", !.family = families + 1,
                                                 !.rows = {}]]
     ELSE /\ UNCHANGED families
          /\ req' = [req EXCEPT ![r] = IF req[r].kind = "logout" THEN Answer(r, 0) ELSE Idle]
  /\ UNCHANGED <<now, made, jar, late, losses>>

-----------------------------------------------------------------------------
Next ==
  \/ Tick
  \/ \E t \in Tabs : \/ Send(t) \/ Login(t) \/ Arrive(t) \/ LoseAnswer(t)
                     \/ ReadRefresh(t) \/ IssueSession(t) \/ ReadEnd(t)
  \/ SuspendUser
  \/ \E r \in Requests : CommitEnd(r)

Spec == Init /\ [][Next]_vars

-----------------------------------------------------------------------------
\* Properties.

TypeOK ==
  /\ now \in 0 .. MaxTime /\ made \in 0 .. MaxTokens /\ families \in Nat
  /\ suspended \in BOOLEAN /\ jar \in 0 .. made
  /\ token \in [Tokens -> [state: {"none", "live", "rotated", "ended"}, at: 0 .. MaxTime,
                           family: 0 .. families]]
  /\ req \in [Requests -> [pc: {"idle", "sent", "rotating", "issuing", "ending", "answered"},
                           kind: {"refresh", "logout", "others", "password", "login", "reuse",
                                  "suspended", "admin"},
                           cookie: 0 .. made, sent: 0 .. MaxTime, at: 0 .. MaxTime,
                           family: 0 .. families, rows: SUBSET Tokens]]
  /\ ended \subseteq 1 .. families /\ burnt \subseteq 1 .. families
  /\ crossed \subseteq Requests /\ late \subseteq Tokens /\ losses \in 0 .. MaxLosses

\* "Two tabs restoring a session at once send the same cookie; without the leeway
\* the loser is logged out of everything": while every answer arrives, no family
\* is burnt as reused, however its tabs' refreshes, sign-outs and changes of
\* password cross.
NeverTakenForReuse == losses = 0 => burnt = {}

\* "other sessions ended", "all sessions ended", refresh_reused: a family that was
\* ended, or burnt as reused, holds no live token but one whose refresh or sign-in ran
\* beside the end, one answered in the grace after it, or one that replaces such a
\* token.  A token that an end revoked buys none.
EndedIsOver ==
  \A k \in Tokens : token[k].state = "live" => token[k].family \notin Over \/ k \in late

SignInInv == TypeOK /\ NeverTakenForReuse

=============================================================================
