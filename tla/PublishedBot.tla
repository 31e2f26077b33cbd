---------------------------- MODULE PublishedBot ----------------------------
(***************************************************************************)
(* One published agent (routers/publications.py, services/publishing.py):  *)
(* its row, the requests of owner and administrators that change it, the   *)
(* owner sweep, and visitors' turns, which pause a bot that cannot answer. *)
(*                                                                         *)
(* Every handler reads the row, decides on what it read, and commits the   *)
(* columns it changed; sessions keep what they read (expire_on_commit is   *)
(* off) and nothing locks the row.  A turn decides up to 15 s after its    *)
(* read.                                                                   *)
(*                                                                         *)
(* A request's pc: "idle", "asking" (a turn that read the row), "queued"   *)
(* (admitted, waiting for its slot), "writing" (decided, commit ahead).    *)
(* Audiences: 0 internal, 1 link, 2 external.  Version 0 is none.          *)
(***************************************************************************)
EXTENDS Naturals

CONSTANTS
  Requests,       \* requests of owner, administrators and visitors at a time
  Sweeper,        \* the loop that checks owners
  MaxVersions, MaxRequests, MaxTroubles   \* bounds

ASSUME BotAssumption ==
  /\ Sweeper \notin Requests
  /\ MaxVersions \in Nat \ {0} /\ MaxRequests \in Nat /\ MaxTroubles \in Nat

VARIABLES
  bot,            \* the row
  approved,       \* versions with approved_at
  owes,           \* owner_blocks: "", "credits" or "account" (external)
  req,            \* of a request: pc, who made it, the row it read, the row it
                  \*   makes of it, the version it approves
  answered,       \* history: <<visitor, version>> of the turns answered
  raced,          \* history: columns that differed from what a commit had read
  begun, troubles \* bounded counters

vars == <<bot, approved, owes, req, answered, raced, begun, troubles>>

Columns == {"status", "reason", "vis", "asked", "review", "active", "pending", "made"}
Versions == 1 .. MaxVersions
Row == [status: {"approved", "paused", "revoked"},
        reason: {"", "owner", "admin", "credits", "account", "model"},
        vis: 0 .. 2, asked: 0 .. 2, review: {"none", "pending", "rejected"},
        active: Versions, pending: Versions \cup {0}, made: Versions]
Processes == Requests \cup {Sweeper}

\* publish: open to members as version 1, a wider audience requested at once
Published(v) ==
  [status |-> "approved", reason |-> "", vis |-> 0, asked |-> v,
   review |-> IF v = 0 THEN "none" ELSE "pending",
   active |-> 1, pending |-> 0, made |-> 1]

Idle == [pc |-> "idle", by |-> "owner", saw |-> Published(0), new |-> Published(0),
         approves |-> 0]

Init ==
  /\ \E v \in 0 .. 2 : bot = Published(v)
  /\ approved = {} /\ owes = ""
  /\ req = [r \in Processes |-> Idle]
  /\ answered = {} /\ raced = {}
  /\ begun = 0 /\ troubles = 0

-----------------------------------------------------------------------------
(* Reading, deciding, committing.                                          *)

\* A handler has read the row and will commit new, approving a version if not
\* 0.  A request that changes nothing is left out.
Decide(r, who, new, version) ==
  /\ req[r].pc = "idle" /\ new # bot
  /\ req' = [req EXCEPT ![r] = [pc |-> "writing", by |-> who, saw |-> bot,
                                new |-> new, approves |-> version]]
  /\ UNCHANGED <<bot, approved, owes, answered, raced, troubles>>

Request(r, who, new) ==
  /\ begun < MaxRequests /\ begun' = begun + 1
  /\ Decide(r, who, new, 0)

\* What the unit of work writes: the columns that differ from what was read.
Written(r) == {c \in Columns : req[r].new[c] # req[r].saw[c]}
Unseen(r) == {c \in Columns : bot[c] # req[r].saw[c]}

Commit(r) ==
  /\ req[r].pc = "writing"
  /\ req' = [req EXCEPT ![r] = Idle]
  /\ IF "made" \in Written(r) \cap Unseen(r)   \* ux_publication_versions_number
     THEN UNCHANGED <<bot, approved, raced>>
     ELSE /\ bot' = [c \in Columns |-> IF c \in Written(r) THEN req[r].new[c] ELSE bot[c]]
          /\ approved' = approved \cup ({req[r].approves} \ {0})
          /\ raced' = raced \cup Unseen(r)
  /\ UNCHANGED <<owes, answered, begun, troubles>>

-----------------------------------------------------------------------------
(* The owner.                                                              *)

\* publishing.pause
Paused(b, why) == [b EXCEPT !.status = "paused", !.reason = why]
Reopened(b) == [b EXCEPT !.status = "approved", !.reason = ""]

\* patch_publication with a status
OwnerPause(r) == bot.status = "approved" /\ Request(r, "owner", Paused(bot, "owner"))

OwnerResume(r) ==
  /\ bot.status = "paused" /\ bot.reason # "admin" /\ owes = ""
  /\ Request(r, "owner", Reopened(bot))

\* Mutated: the wider audience opens with the request.
Requested_AtOnce(b, v) == [b EXCEPT !.vis = v]

\* _request
Requested(b, v) == [b EXCEPT !.asked = v, !.review = "pending"]

\* set_scope, not wider: open to members only, the pending version needs no review
Narrowed(b, v) ==
  LET active == IF v = 0 /\ b.pending # 0 THEN b.pending ELSE b.active
      pending == IF v = 0 THEN 0 ELSE b.pending
  IN  [b EXCEPT !.vis = v, !.asked = 0, !.active = active, !.pending = pending,
                !.review = IF pending = 0 THEN "none" ELSE @]

SetScope(r, v) ==
  /\ bot.status # "revoked"
  /\ Request(r, "owner", IF v > bot.vis THEN Requested(bot, v) ELSE Narrowed(bot, v))

WithdrawRequest(r) ==
  Request(r, "owner", [bot EXCEPT !.asked = 0, !.pending = 0, !.review = "none"])

\* Mutated: a version takes over although the bot is open outside.
Proposed_Unreviewed(b, v, reviewed) == [b EXCEPT !.active = v]

\* Version v takes over, or waits for review.
Proposed(b, v, reviewed) ==
  IF reviewed THEN [b EXCEPT !.pending = v, !.review = "pending"] ELSE [b EXCEPT !.active = v]

\* new_version and make_version
NewVersion(r) ==
  /\ bot.status # "revoked" /\ owes = "" /\ bot.made < MaxVersions
  /\ Request(r, "owner",
       [Proposed(bot, bot.made + 1, bot.vis > 0) EXCEPT !.made = bot.made + 1])

ActivateVersion(r, v) ==
  /\ v <= bot.made
  /\ Request(r, "owner", Proposed(bot, v, bot.vis > 0 /\ v \notin approved))

-----------------------------------------------------------------------------
(* Administrators.                                                         *)

\* admin_decide: audience and version together
AdminApprove(r) ==
  LET version == IF bot.pending # 0 THEN bot.pending ELSE bot.active
  IN  /\ bot.review = "pending"
      /\ begun < MaxRequests /\ begun' = begun + 1
      /\ Decide(r, "admin",
           [bot EXCEPT !.active = version, !.pending = 0, !.asked = 0, !.review = "none",
                       !.vis = IF bot.asked # 0 THEN bot.asked ELSE @], version)

AdminReject(r) ==
  /\ bot.review = "pending"
  /\ Request(r, "admin", [bot EXCEPT !.review = "rejected", !.pending = 0])

\* admin_withdraw
AdminWithdraw(r) ==
  Request(r, "admin", [bot EXCEPT !.vis = 0, !.asked = 0, !.pending = 0, !.review = "none"])

\* admin_status
AdminStatus(r) ==
  \/ Request(r, "admin", Paused(bot, "admin"))
  \/ Request(r, "admin", [bot EXCEPT !.status = "revoked", !.reason = "admin"])
  \/ Request(r, "admin", Reopened(bot))

-----------------------------------------------------------------------------
(* The owner's account and its sweep.                                      *)

\* owner_blocks changes its answer.
Trouble ==
  /\ troubles < MaxTroubles /\ troubles' = troubles + 1
  /\ owes' \in {"", "credits", "account"} \ {owes}
  /\ UNCHANGED <<bot, approved, req, answered, raced, begun>>

\* Mutated: the sweep lifts any pause.
Cleared_Any(b) == IF b.status = "paused" THEN Reopened(b) ELSE b

\* resume_if_cleared: a "model" pause is never lifted
Cleared(b) ==
  IF b.status = "paused" /\ b.reason \in {"credits", "account"} THEN Reopened(b) ELSE b

\* check_owners
Sweep ==
  /\ Decide(Sweeper, "system",
       IF owes = "" THEN Cleared(bot)
       ELSE IF bot.status = "approved" THEN Paused(bot, owes) ELSE bot, 0)
  /\ UNCHANGED begun

-----------------------------------------------------------------------------
(* Visitors' turns.                                                        *)

Visitors == {"member", "anonymous"}

\* visitor_send: _bot, _open_to, _ready
ReadBot(r, who) ==
  /\ req[r].pc = "idle" /\ begun < MaxRequests /\ begun' = begun + 1
  /\ bot.status = "approved" /\ (who = "anonymous" => bot.vis > 0)
  /\ req' = [req EXCEPT ![r] = [pc |-> "asking", by |-> who, saw |-> bot,
                                new |-> bot, approves |-> 0]]
  /\ UNCHANGED <<bot, approved, owes, answered, raced, troubles>>

\* The turn pauses the row as it read it.
TurnPauses(r, why) ==
  req' = [req EXCEPT ![r].pc = "writing", ![r].new = Paused(req[r].saw, why)]

\* _answering: anonymous visitors only reach an approved version
MayAnswer(r) == req[r].by = "anonymous" => req[r].saw.active \in approved

\* run_published_turn, up to its commit; a refusal ends the turn
Admit(r) ==
  /\ req[r].pc = "asking"
  /\ \/ owes # "" /\ TurnPauses(r, owes)
     \/ owes = "" /\ MayAnswer(r) /\ req' = [req EXCEPT ![r].pc = "queued"]
     \/ owes = "" /\ req' = [req EXCEPT ![r] = Idle]
  /\ UNCHANGED <<bot, approved, owes, answered, raced, begun, troubles>>

\* The slot came: the turn answers, or its model is gone; or no slot came.
RunTurn(r) ==
  /\ req[r].pc = "queued"
  /\ \/ /\ req' = [req EXCEPT ![r] = Idle]
        /\ answered' = answered \cup {<<req[r].by, req[r].saw.active>>}
     \/ req' = [req EXCEPT ![r] = Idle] /\ UNCHANGED answered
     \/ TurnPauses(r, "model") /\ UNCHANGED answered
  /\ UNCHANGED <<bot, approved, owes, raced, begun, troubles>>

-----------------------------------------------------------------------------
OwnerActs(r) ==
  \/ OwnerPause(r) \/ OwnerResume(r)
  \/ (\E v \in 0 .. 2 : SetScope(r, v)) \/ WithdrawRequest(r)
  \/ NewVersion(r) \/ (\E v \in Versions : ActivateVersion(r, v))
AdminActs(r) == AdminApprove(r) \/ AdminReject(r) \/ AdminWithdraw(r) \/ AdminStatus(r)
TurnActs(r) == (\E who \in Visitors : ReadBot(r, who)) \/ Admit(r) \/ RunTurn(r)

Next ==
  \/ \E r \in Requests : OwnerActs(r) \/ AdminActs(r) \/ TurnActs(r)
  \/ \E r \in Processes : Commit(r)
  \/ Sweep \/ Trouble

Spec == Init /\ [][Next]_vars

-----------------------------------------------------------------------------
(* Properties.                                                             *)

\* A row closed by its owner or an administrator.
Closed(b) == b.status = "revoked" \/ (b.status = "paused" /\ b.reason \in {"owner", "admin"})

TypeOK ==
  /\ bot \in Row /\ approved \subseteq Versions /\ owes \in {"", "credits", "account"}
  /\ req \in [Processes -> [pc: {"idle", "asking", "queued", "writing"},
                            by: {"owner", "admin", "system"} \cup Visitors,
                            saw: Row, new: Row, approves: Versions \cup {0}]]
  /\ answered \subseteq Visitors \X Versions /\ raced \subseteq Columns
  /\ begun \in 0 .. MaxRequests /\ troubles \in 0 .. MaxTroubles

\* "once admin-opened outside", "anonymous only reach approved": whoever wrote
\* over whom, a visitor without an account was never answered by a version no
\* administrator approved.
AnonymousGetsApproved == \A v \in Versions : <<"anonymous", v>> \in answered => v \in approved

\* "approves the audience and the version together": what is open outside runs
\* an approved version, and what waits for an administrator can be decided: a
\* pending version is under review, a review has a subject, a requested audience
\* is a wider one.  A commit that had not seen a change of these columns may
\* leave otherwise.
ReviewInv ==
  raced \cap {"vis", "asked", "review", "active", "pending"} = {} =>
    /\ bot.vis > 0 => bot.active \in approved
    /\ bot.pending # 0 => bot.review = "pending"
    /\ bot.review = "pending" => bot.pending # 0 \/ bot.asked # 0
    /\ bot.asked # 0 => bot.asked > bot.vis /\ bot.review # "none"

BotInv == TypeOK /\ AnonymousGetsApproved /\ ReviewInv

\* The requests that had read the row as it stands.
Saw(r, columns) == \A c \in columns : req[r].saw[c] = bot[c]

\* "narrowing is the owner's; widening is reviewed": the audience grows only by
\* an administrator's approval, or by a commit that had read a wider one.
WideningIsReviewed ==
  [][bot'.vis > bot.vis =>
       \E r \in Processes : /\ req[r].pc = "writing" /\ req'[r].pc = "idle"
                            /\ req[r].by = "admin" \/ ~Saw(r, {"vis"})]_vars

\* "System pauses, auto-lifted; owner/admin pauses stay": what the owner or an
\* administrator closed is opened by them alone, and an administrator's closing
\* by an administrator, or by a commit that had not read the closing.
PausesStay ==
  [][Closed(bot) /\ <<bot'.status, bot'.reason>> # <<bot.status, bot.reason>> =>
       \E r \in Processes :
         /\ req[r].pc = "writing" /\ req'[r].pc = "idle"
         /\ \/ req[r].by = "admin"
            \/ req[r].by = "owner" /\ bot.reason = "owner"
            \/ ~Saw(r, {"status", "reason"})]_vars

\* The comment as it stands: no commit but an administrator's opens what an
\* administrator revoked or paused.
AdminPauseStays ==
  [][bot.reason = "admin" /\ bot'.reason # "admin" =>
       \E r \in Processes : req[r].pc = "writing" /\ req'[r].pc = "idle" /\ req[r].by = "admin"]_vars

=============================================================================
