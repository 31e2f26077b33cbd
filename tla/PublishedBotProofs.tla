------------------------- MODULE PublishedBotProofs -------------------------
(***************************************************************************)
(* Visitors without an account get approved versions only; what the owner  *)
(* or an administrator closed is opened, and the audience widened, by those*)
(* who may, or by a commit that had not read the closing or the audience:  *)
(* for any number of requests, versions and troubles.  And its turns keep  *)
(* to their limits: the rows of TurnSlots are a counting semaphore.        *)
(***************************************************************************)
EXTENDS PublishedBot, TurnSlots, FiniteSetTheorems, WellFoundedInduction, TLAPS

ReqSet == [pc: {"idle", "asking", "queued", "writing"},
           by: {"owner", "admin", "system"} \cup Visitors,
           saw: Row, new: Row, approves: Versions \cup {0}]

\* What new makes of the status and the audience that saw has is for who to decide.
Entitled(who, saw, new) ==
  /\ <<new.status, new.reason>> # <<saw.status, saw.reason>> =>
       \/ who = "admin" \/ ~Closed(saw)
       \/ who = "owner" /\ saw.reason = "owner"
  /\ new.vis = saw.vis \/ who = "admin" \/ new.vis < saw.vis

\* A request is entitled to what it will write; a turn read an open row, and one
\* that is admitted may answer its visitor.
RequestOK(q, reviewed) ==
  /\ q.pc = "writing" => Entitled(q.by, q.saw, q.new)
  /\ q.pc \in {"asking", "queued"} => q.saw.status = "approved" /\ q.by \in Visitors
  /\ q.pc = "queued" /\ q.by = "anonymous" => q.saw.active \in reviewed

IInv ==
  /\ TypeOK /\ AnonymousGetsApproved
  /\ \A r \in Processes : RequestOK(req[r], approved)

\* The row a commit leaves, part new and part as it was.
LEMMA Mix ==
  ASSUME NEW a \in Row, NEW b \in Row, NEW S,
         NEW m, m = [c \in Columns |-> IF c \in S THEN a[c] ELSE b[c]]
  PROVE  m \in Row
<1>1. m = [status |-> m.status, reason |-> m.reason, vis |-> m.vis, asked |-> m.asked, review |-> m.review, active |-> m.active, pending |-> m.pending, made |-> m.made]
  BY DEF Columns
<1>2. m.status \in {"approved", "paused", "revoked"} /\ m.reason \in {"", "owner", "admin", "credits", "account", "model"}
  BY DEF Columns, Row
<1>3. m.vis \in 0 .. 2 /\ m.asked \in 0 .. 2 /\ m.review \in {"none", "pending", "rejected"}
  BY DEF Columns, Row
<1>4. m.active \in Versions /\ m.pending \in Versions \cup {0} /\ m.made \in Versions
  BY DEF Columns, Row
<1> QED
  BY <1>1, <1>2, <1>3, <1>4 DEF Row

LEMMA Fields ==
  ASSUME NEW b \in Row
  PROVE  /\ b.vis \in 0 .. 2 /\ b.asked \in 0 .. 2
         /\ b.review \in {"none", "pending", "rejected"}
         /\ b.active \in Versions /\ b.pending \in Versions \cup {0} /\ b.made \in Versions
BY DEF Row

LEMMA Blank == 0 \in 0 .. 2 /\ 0 \in Versions \cup {0}
               /\ "none" \in {"none", "pending", "rejected"}
               /\ "pending" \in {"none", "pending", "rejected"}
OBVIOUS

\* The same row with other columns of audience, review and versions.
Rewrite(b, vis, asked, active, pending, review) ==
  [b EXCEPT !.vis = vis, !.asked = asked, !.active = active, !.pending = pending,
            !.review = review]

LEMMA Rewritten ==
  ASSUME NEW b \in Row, NEW x \in 0 .. 2, NEW y \in 0 .. 2, NEW a \in Versions,
         NEW p \in Versions \cup {0}, NEW q \in {"none", "pending", "rejected"}
  PROVE  /\ Rewrite(b, x, y, a, p, q) \in Row
         /\ Rewrite(b, x, y, a, p, q).status = b.status
         /\ Rewrite(b, x, y, a, p, q).reason = b.reason
<1>9. PICK n : n = [b EXCEPT !.vis = x, !.asked = y, !.active = a, !.pending = p, !.review = q]
  OBVIOUS
<1>0. DOMAIN b = Columns
  BY DEF Row, Columns
<1>1. n = [status |-> n.status, reason |-> n.reason, vis |-> n.vis, asked |-> n.asked,
           review |-> n.review, active |-> n.active, pending |-> n.pending, made |-> n.made]
  BY <1>0, <1>9 DEF Columns
<1>2. n.status = b.status /\ n.reason = b.reason /\ n.made = b.made
  BY <1>0, <1>9 DEF Columns
<1>3. n.vis = x /\ n.asked = y /\ n.active = a /\ n.pending = p /\ n.review = q
  BY <1>0, <1>9 DEF Columns
<1>4. n \in Row
  BY <1>1, <1>2, <1>3 DEF Row
<1> QED BY <1>2, <1>4, <1>9 DEF Rewrite

LEMMA InitOK == Init => IInv
<1> SUFFICES ASSUME Init PROVE IInv
  OBVIOUS
<1>1. 1 \in Versions /\ 0 \in 0 .. 2 /\ 0 \in 0 .. MaxRequests /\ 0 \in 0 .. MaxTroubles
  BY BotAssumption DEF Versions
<1>2. \A v \in 0 .. 2 : Published(v) \in Row
  BY <1>1 DEF Published, Row
<1>3. bot \in Row /\ Idle \in ReqSet
  BY <1>1, <1>2 DEF Init, Idle, ReqSet
<1>4. TypeOK
  BY <1>1, <1>3 DEF Init, TypeOK, ReqSet
<1>5. AnonymousGetsApproved /\ \A r \in Processes : RequestOK(req[r], approved)
  BY DEF Init, AnonymousGetsApproved, RequestOK, Idle
<1> QED BY <1>4, <1>5 DEF IInv

\* A step of one request that touches neither the row nor what was approved.
LEMMA OneRequest ==
  ASSUME IInv, NEW r \in Processes, NEW q \in ReqSet, RequestOK(q, approved),
         req' = [req EXCEPT ![r] = q],
         UNCHANGED <<bot, approved, owes, raced>>,
         answered' \subseteq Visitors \X Versions, AnonymousGetsApproved',
         begun' \in 0 .. MaxRequests, troubles' \in 0 .. MaxTroubles
  PROVE  IInv'
<1>1. TypeOK'
  BY DEF IInv, TypeOK, ReqSet
<1>2. \A p \in Processes : RequestOK(req'[p], approved')
  BY DEF IInv, TypeOK
<1> QED BY <1>1, <1>2 DEF IInv

\* A handler that decided on a row it was entitled to make of it.
LEMMA DecideOK ==
  ASSUME IInv, NEW r \in Processes, NEW who \in {"owner", "admin", "system"},
         NEW new \in Row, NEW version \in Versions \cup {0},
         Entitled(who, bot, new), Decide(r, who, new, version),
         begun' \in 0 .. MaxRequests
  PROVE  IInv'
<1> DEFINE q == [pc |-> "writing", by |-> who, saw |-> bot, new |-> new, approves |-> version]
<1>1. bot \in Row /\ q \in ReqSet
  BY DEF IInv, TypeOK, ReqSet
<1>2. RequestOK(q, approved)
  BY DEF RequestOK
<1>3. req' = [req EXCEPT ![r] = q] /\ UNCHANGED <<bot, approved, owes, answered, raced, troubles>>
  BY DEF Decide
<1>4. AnonymousGetsApproved' /\ answered' \subseteq Visitors \X Versions /\ troubles' \in 0 .. MaxTroubles
  BY <1>3 DEF IInv, TypeOK, AnonymousGetsApproved
<1> QED BY <1>1, <1>2, <1>3, <1>4, OneRequest

LEMMA RequestSafe ==
  ASSUME IInv, NEW r \in Requests, NEW who \in {"owner", "admin"},
         NEW new \in Row, Entitled(who, bot, new), Request(r, who, new)
  PROVE  IInv'
<1>1. begun' \in 0 .. MaxRequests
  <2>1. begun \in 0 .. MaxRequests /\ MaxRequests \in Nat
    BY BotAssumption DEF IInv, TypeOK
  <2> QED BY <2>1 DEF Request
<1>2. r \in Processes /\ Decide(r, who, new, 0)
  BY DEF Request, Processes
<1> QED BY <1>1, <1>2, DecideOK

\* The owner's handlers make rows of rows and leave a closed status alone, but
\* for a pause of the owner's own.
LEMMA OwnerOK ==
  ASSUME IInv, NEW r \in Requests, OwnerActs(r)
  PROVE  IInv'
<1>0. bot \in Row /\ "owner" \in {"owner", "admin"} /\ MaxVersions \in Nat
  BY BotAssumption DEF IInv, TypeOK
<1>9. DOMAIN bot = Columns
  BY <1>0 DEF Row, Columns
<1>1. CASE OwnerPause(r)
  <2>1. Paused(bot, "owner") \in Row /\ Entitled("owner", bot, Paused(bot, "owner"))
    BY <1>0, <1>1 DEF OwnerPause, Paused, Row, Entitled, Closed
  <2> QED BY <1>0, <1>1, <2>1, RequestSafe DEF OwnerPause
<1>2. CASE OwnerResume(r)
  <2>1. Reopened(bot) \in Row /\ Entitled("owner", bot, Reopened(bot))
    BY <1>0, <1>2 DEF OwnerResume, Reopened, Row, Entitled, Closed
  <2> QED BY <1>0, <1>2, <2>1, RequestSafe DEF OwnerResume
<1>3. ASSUME NEW v \in 0 .. 2, SetScope(r, v) PROVE IInv'
  <2>1. /\ Requested(bot, v) \in Row
        /\ Requested(bot, v).status = bot.status /\ Requested(bot, v).reason = bot.reason
        /\ Requested(bot, v).vis = bot.vis
    BY <1>0 DEF Requested, Row
  <2> DEFINE active == IF v = 0 /\ bot.pending # 0 THEN bot.pending ELSE bot.active
  <2> DEFINE pending == IF v = 0 THEN 0 ELSE bot.pending
  <2> DEFINE review == IF pending = 0 THEN "none" ELSE bot.review
  <2>2. /\ active \in Versions /\ pending \in Versions \cup {0}
        /\ review \in {"none", "pending", "rejected"}
    BY <1>0, Fields, Blank
  <2>3. /\ Narrowed(bot, v) \in Row
        /\ Narrowed(bot, v).status = bot.status /\ Narrowed(bot, v).reason = bot.reason
        /\ Narrowed(bot, v).vis = v
    <3>1. Narrowed(bot, v) = Rewrite(bot, v, 0, active, pending, review)
      BY DEF Narrowed, Rewrite
    <3> HIDE DEF active, pending, review
    <3>2. Rewrite(bot, v, 0, active, pending, review) \in Row
      BY <1>0, <2>2, Rewritten, Blank
    <3>3. /\ Narrowed(bot, v).status = bot.status /\ Narrowed(bot, v).reason = bot.reason
          /\ Narrowed(bot, v).vis = v
      BY <1>9 DEF Narrowed, Columns
    <3> QED BY <3>1, <3>2, <3>3
  <2>4. PICK new \in Row : Entitled("owner", bot, new) /\ Request(r, "owner", new)
    <3>1. CASE v > bot.vis
      BY <1>3, <2>1, <3>1 DEF SetScope, Entitled
    <3>2. CASE ~(v > bot.vis)
      <4>1. bot.vis \in 0 .. 2
        BY <1>0, Fields
      <4>2. v = bot.vis \/ v < bot.vis
        BY <3>2, <4>1
      <4> QED BY <1>3, <2>3, <3>2, <4>2 DEF SetScope, Entitled
    <3> QED BY <3>1, <3>2
  <2> QED BY <1>0, <2>4, RequestSafe
<1>4. CASE WithdrawRequest(r)
  <2> DEFINE new == [bot EXCEPT !.asked = 0, !.pending = 0, !.review = "none"]
  <2>1. new = Rewrite(bot, bot.vis, 0, bot.active, 0, "none")
    BY <1>9 DEF Columns, Rewrite
  <2>2. bot.vis \in 0 .. 2 /\ bot.active \in Versions
    BY <1>0, Fields
  <2>3. new \in Row /\ new.status = bot.status /\ new.reason = bot.reason /\ new.vis = bot.vis
    <3>1. Rewrite(bot, bot.vis, 0, bot.active, 0, "none") \in Row
      BY <1>0, <2>2, Rewritten, Blank
    <3>2. new.status = bot.status /\ new.reason = bot.reason /\ new.vis = bot.vis
      BY <1>9 DEF Columns
    <3> HIDE DEF new
    <3> QED BY <2>1, <3>1, <3>2
  <2>4. Entitled("owner", bot, new)
    BY <2>3 DEF Entitled
  <2>5. Request(r, "owner", new)
    BY <1>4 DEF WithdrawRequest
  <2> HIDE DEF new
  <2> QED BY <1>0, <2>3, <2>4, <2>5, RequestSafe
<1>5. ASSUME NEW v \in Versions, NEW reviewed \in BOOLEAN
      PROVE  /\ Proposed(bot, v, reviewed) \in Row
             /\ Proposed(bot, v, reviewed).status = bot.status
             /\ Proposed(bot, v, reviewed).reason = bot.reason
             /\ Proposed(bot, v, reviewed).vis = bot.vis
  <2>1. CASE reviewed
    <3>1. Proposed(bot, v, reviewed)
            = Rewrite(bot, bot.vis, bot.asked, bot.active, v, "pending")
      BY <1>9, <2>1 DEF Proposed, Columns, Rewrite
    <3>2. bot.vis \in 0 .. 2 /\ bot.asked \in 0 .. 2 /\ bot.active \in Versions
      BY <1>0, Fields
    <3>3. Rewrite(bot, bot.vis, bot.asked, bot.active, v, "pending") \in Row
      BY <1>0, <3>2, Rewritten, Blank
    <3>4. /\ Proposed(bot, v, reviewed).status = bot.status
          /\ Proposed(bot, v, reviewed).reason = bot.reason
          /\ Proposed(bot, v, reviewed).vis = bot.vis
      BY <1>9, <2>1 DEF Proposed, Columns
    <3> QED BY <3>1, <3>3, <3>4
  <2>2. CASE ~reviewed
    BY <1>0, <2>2 DEF Proposed, Row
  <2> QED BY <2>1, <2>2
<1>6. CASE NewVersion(r)
  <2>0. bot.made + 1 \in Versions /\ (bot.vis > 0) \in BOOLEAN
    <3>1. bot.made \in 1 .. MaxVersions
      BY <1>0, Fields DEF Versions
    <3>2. bot.made < MaxVersions
      BY <1>6 DEF NewVersion
    <3>4. bot.made + 1 \in Versions
      <4> DEFINE m == bot.made
      <4>1. m \in 1 .. MaxVersions /\ m < MaxVersions
        BY <3>1, <3>2
      <4> HIDE DEF m
      <4>2. m + 1 \in 1 .. MaxVersions
        BY <4>1, BotAssumption
      <4> QED BY <4>2 DEF m, Versions
    <3>3. (bot.vis > 0) \in BOOLEAN
      OBVIOUS
    <3> QED BY <3>4, <3>3
  <2> DEFINE old == Proposed(bot, bot.made + 1, bot.vis > 0)
  <2> DEFINE new == [old EXCEPT !.made = bot.made + 1]
  <2>1. old \in Row /\ old.status = bot.status /\ old.reason = bot.reason /\ old.vis = bot.vis
    BY <1>5, <2>0
  <2>2. new \in Row /\ Entitled("owner", bot, new)
    <3> HIDE DEF old
    <3> QED BY <2>0, <2>1 DEF Row, Entitled
  <2>3. Request(r, "owner", new)
    BY <1>6 DEF NewVersion
  <2> HIDE DEF new
  <2> QED BY <1>0, <2>2, <2>3, RequestSafe
<1>7. ASSUME NEW v \in Versions, ActivateVersion(r, v) PROVE IInv'
  <2> DEFINE reviewed == bot.vis > 0 /\ v \notin approved
  <2> DEFINE new == Proposed(bot, v, reviewed)
  <2>0. reviewed \in BOOLEAN
    OBVIOUS
  <2>1. new \in Row /\ new.status = bot.status /\ new.reason = bot.reason /\ new.vis = bot.vis
    BY <1>5, <2>0
  <2>2. Entitled("owner", bot, new)
    BY <2>1 DEF Entitled
  <2>3. Request(r, "owner", new)
    BY <1>7 DEF ActivateVersion
  <2> HIDE DEF new
  <2> QED BY <1>0, <2>1, <2>2, <2>3, RequestSafe
<1> QED BY <1>1, <1>2, <1>3, <1>4, <1>6, <1>7 DEF OwnerActs

LEMMA AdminOK ==
  ASSUME IInv, NEW r \in Requests, AdminActs(r)
  PROVE  IInv'
<1>0. bot \in Row /\ "admin" \in {"owner", "admin"} /\ \A new : Entitled("admin", bot, new)
  BY DEF IInv, TypeOK, Entitled
<1>9. DOMAIN bot = Columns
  BY <1>0 DEF Row, Columns
<1>1. CASE AdminApprove(r)
  <2> DEFINE version == IF bot.pending # 0 THEN bot.pending ELSE bot.active
  <2> DEFINE new == [bot EXCEPT !.active = version, !.pending = 0, !.asked = 0, !.review = "none",
                                !.vis = IF bot.asked # 0 THEN bot.asked ELSE @]
  <2>1. version \in Versions
    BY <1>0 DEF Row
  <2>2. new \in Row
    <3> DEFINE vis == IF bot.asked # 0 THEN bot.asked ELSE bot.vis
    <3>1. vis \in 0 .. 2
      BY <1>0, Fields
    <3>2. new = Rewrite(bot, vis, 0, version, 0, "none")
      BY <1>9 DEF Columns, Rewrite
    <3> HIDE DEF new, version, vis
    <3> QED BY <1>0, <2>1, <3>1, <3>2, Rewritten, Blank
  <2>3. Decide(r, "admin", new, version) /\ begun' \in 0 .. MaxRequests /\ r \in Processes
    <3>1. Decide(r, "admin", new, version) /\ begun < MaxRequests /\ begun' = begun + 1
      BY <1>1 DEF AdminApprove
    <3>2. begun \in 0 .. MaxRequests
      BY DEF IInv, TypeOK
    <3> HIDE DEF new, version
    <3> QED BY <3>1, <3>2, BotAssumption DEF Processes
  <2> HIDE DEF new, version
  <2> QED BY <1>0, <2>1, <2>2, <2>3, DecideOK
<1>2. CASE AdminReject(r)
  <2>1. [bot EXCEPT !.review = "rejected", !.pending = 0] \in Row
    BY <1>0 DEF Row
  <2> QED BY <1>0, <1>2, <2>1, RequestSafe DEF AdminReject
<1>3. CASE AdminWithdraw(r)
  <2> DEFINE new == [bot EXCEPT !.vis = 0, !.asked = 0, !.pending = 0, !.review = "none"]
  <2>1. new = Rewrite(bot, 0, 0, bot.active, 0, "none")
    BY <1>9 DEF Columns, Rewrite
  <2>2. bot.active \in Versions
    BY <1>0, Fields
  <2>3. new \in Row
    <3> HIDE DEF new
    <3> QED BY <1>0, <2>1, <2>2, Rewritten, Blank
  <2> QED BY <1>0, <1>3, <2>3, RequestSafe DEF AdminWithdraw
<1>4. CASE AdminStatus(r)
  <2>1. /\ Paused(bot, "admin") \in Row /\ Reopened(bot) \in Row
        /\ [bot EXCEPT !.status = "revoked", !.reason = "admin"] \in Row
    BY <1>0 DEF Row, Paused, Reopened
  <2> QED BY <1>0, <1>4, <2>1, RequestSafe DEF AdminStatus
<1> QED BY <1>1, <1>2, <1>3, <1>4 DEF AdminActs

LEMMA SweepOK == ASSUME IInv, Sweep PROVE IInv'
<1> DEFINE new == IF owes = "" THEN Cleared(bot)
                  ELSE IF bot.status = "approved" THEN Paused(bot, owes) ELSE bot
<1>0. bot \in Row /\ owes \in {"", "credits", "account"} /\ Sweeper \in Processes
  BY DEF IInv, TypeOK, Processes
<1>1. new \in Row
  BY <1>0 DEF Cleared, Paused, Reopened, Row
<1>2. Entitled("system", bot, new)
  BY <1>0 DEF Cleared, Paused, Reopened, Row, Entitled, Closed
<1>3. Decide(Sweeper, "system", new, 0) /\ begun' \in 0 .. MaxRequests
  BY DEF Sweep, IInv, TypeOK
<1> HIDE DEF new
<1> QED BY <1>0, <1>1, <1>2, <1>3, DecideOK

LEMMA TurnOK ==
  ASSUME IInv, NEW r \in Requests, TurnActs(r)
  PROVE  IInv'
<1>0. /\ r \in Processes /\ bot \in Row /\ req[r] \in ReqSet /\ RequestOK(req[r], approved)
      /\ begun \in 0 .. MaxRequests /\ troubles \in 0 .. MaxTroubles
      /\ answered \subseteq Visitors \X Versions /\ AnonymousGetsApproved
      /\ req = [p \in Processes |-> req[p]]
  BY DEF IInv, TypeOK, ReqSet, Processes
<1>1. 1 \in Versions /\ Published(0) \in Row /\ Idle \in ReqSet /\ RequestOK(Idle, approved)
  <2>1. 1 \in Versions
    BY BotAssumption DEF Versions
  <2>2. Published(0) \in Row
    BY <2>1 DEF Published, Row
  <2> QED BY <2>1, <2>2 DEF Idle, ReqSet, RequestOK
<1>2. ASSUME NEW who \in Visitors, ReadBot(r, who) PROVE IInv'
  <2> DEFINE q == [pc |-> "asking", by |-> who, saw |-> bot, new |-> bot, approves |-> 0]
  <2>1. q \in ReqSet /\ RequestOK(q, approved)
    BY <1>0, <1>2 DEF ReqSet, RequestOK, ReadBot
  <2>2. req' = [req EXCEPT ![r] = q] /\ begun' \in 0 .. MaxRequests
        /\ UNCHANGED <<bot, approved, owes, answered, raced, troubles>>
    BY <1>0, <1>2, BotAssumption DEF ReadBot
  <2>3. AnonymousGetsApproved'
    BY <1>0, <2>2 DEF AnonymousGetsApproved
  <2> HIDE DEF q
  <2> QED BY <1>0, <2>1, <2>2, <2>3, OneRequest
<1>3. ASSUME NEW why \in {"credits", "account", "model"}, TurnPauses(r, why),
             req[r].pc \in {"asking", "queued"},
             UNCHANGED <<bot, approved, owes, answered, raced, begun, troubles>>
      PROVE  IInv'
  <2> DEFINE q == [req[r] EXCEPT !.pc = "writing", !.new = Paused(req[r].saw, why)]
  <2>1. Paused(req[r].saw, why) \in Row /\ req[r].saw \in Row
    BY <1>0 DEF ReqSet, Row, Paused
  <2>2. q \in ReqSet
    BY <1>0, <2>1 DEF ReqSet
  <2>3. /\ q.pc = "writing" /\ q.saw = req[r].saw /\ q.new = Paused(req[r].saw, why)
        /\ q.saw.status = "approved"
    BY <1>0, <1>3 DEF ReqSet, RequestOK
  <2>7. Paused(req[r].saw, why).vis = req[r].saw.vis
    BY <2>1 DEF Paused, Row
  <2>4. RequestOK(q, approved)
    BY <2>3, <2>7 DEF RequestOK, Entitled, Closed
  <2>5. req' = [req EXCEPT ![r] = q]
    BY <1>0, <1>3 DEF TurnPauses, ReqSet
  <2>6. AnonymousGetsApproved'
    BY <1>0, <1>3 DEF AnonymousGetsApproved
  <2> HIDE DEF q
  <2> QED BY <1>0, <1>3, <2>2, <2>4, <2>5, <2>6, OneRequest
<1>4. ASSUME req' = [req EXCEPT ![r] = Idle],
             UNCHANGED <<bot, approved, owes, raced, begun, troubles>>,
             answered' \subseteq Visitors \X Versions, AnonymousGetsApproved'
      PROVE  IInv'
  BY <1>0, <1>1, <1>4, OneRequest
<1>5. CASE Admit(r)
  <2>0. owes \in {"", "credits", "account"} /\ AnonymousGetsApproved'
    BY <1>0, <1>5 DEF IInv, TypeOK, Admit, AnonymousGetsApproved
  <2>1. CASE owes # "" /\ TurnPauses(r, owes)
    BY <1>3, <1>5, <2>0, <2>1 DEF Admit
  <2>2. CASE MayAnswer(r) /\ req' = [req EXCEPT ![r].pc = "queued"]
    <3> DEFINE q == [req[r] EXCEPT !.pc = "queued"]
    <3>1. q \in ReqSet /\ req[r].pc = "asking"
      BY <1>0, <1>5 DEF ReqSet, Admit
    <3>2. RequestOK(q, approved)
      BY <1>0, <2>2, <3>1 DEF RequestOK, MayAnswer, ReqSet
    <3>3. req' = [req EXCEPT ![r] = q]
      BY <1>0, <2>2 DEF ReqSet
    <3> HIDE DEF q
    <3> QED BY <1>0, <1>5, <2>0, <3>1, <3>2, <3>3, OneRequest DEF Admit
  <2>3. CASE req' = [req EXCEPT ![r] = Idle]
    BY <1>0, <1>4, <1>5, <2>0, <2>3 DEF Admit
  <2> QED BY <1>5, <2>1, <2>2, <2>3 DEF Admit
<1>6. CASE RunTurn(r)
  <2>1. CASE req' = [req EXCEPT ![r] = Idle] /\ answered' = answered \cup {<<req[r].by, req[r].saw.active>>}
    <3>1. req[r].by \in Visitors /\ req[r].saw.active \in Versions
      BY <1>0, <1>6 DEF RunTurn, RequestOK, ReqSet, Row
    <3>2. AnonymousGetsApproved'
      <4> SUFFICES ASSUME NEW v \in Versions, <<"anonymous", v>> \in answered'
                   PROVE  v \in approved
        BY <1>6 DEF AnonymousGetsApproved, RunTurn
      <4>1. CASE <<"anonymous", v>> \in answered
        BY <1>0, <4>1 DEF AnonymousGetsApproved
      <4>2. CASE req[r].by = "anonymous" /\ req[r].saw.active = v
        BY <1>0, <1>6, <4>2 DEF RunTurn, RequestOK
      <4> QED BY <2>1, <4>1, <4>2
    <3> QED BY <1>0, <1>4, <1>6, <2>1, <3>1, <3>2 DEF RunTurn
  <2>2. CASE req' = [req EXCEPT ![r] = Idle] /\ UNCHANGED answered
    <3>1. AnonymousGetsApproved'
      BY <1>0, <1>6, <2>2 DEF AnonymousGetsApproved, RunTurn
    <3> QED BY <1>0, <1>4, <1>6, <2>2, <3>1 DEF RunTurn
  <2>3. CASE TurnPauses(r, "model") /\ UNCHANGED answered
    BY <1>3, <1>6, <2>3 DEF RunTurn
  <2> QED BY <1>6, <2>1, <2>2, <2>3 DEF RunTurn
<1> QED BY <1>2, <1>5, <1>6 DEF TurnActs

LEMMA CommitOK == ASSUME IInv, NEW r \in Processes, Commit(r) PROVE IInv'
<1>0. /\ bot \in Row /\ req[r] \in ReqSet /\ req[r].new \in Row
      /\ approved \subseteq Versions /\ req[r].approves \in Versions \cup {0}
  BY DEF IInv, TypeOK, ReqSet
<1>1. Idle \in ReqSet /\ RequestOK(Idle, approved')
  <2>1. 1 \in Versions
    BY BotAssumption DEF Versions
  <2>2. Published(0) \in Row
    BY <2>1 DEF Published, Row
  <2> QED BY <2>1, <2>2 DEF Idle, ReqSet, RequestOK
<1>2. approved \subseteq approved' /\ approved' \subseteq Versions
  BY <1>0 DEF Commit
<1>3. bot' \in Row
  <2>1. CASE bot' = [c \in Columns |-> IF c \in Written(r) THEN req[r].new[c] ELSE bot[c]]
    BY <1>0, <2>1, Mix
  <2> QED BY <1>0, <2>1 DEF Commit
<1>4. raced' \subseteq Columns
  BY DEF Commit, Unseen, IInv, TypeOK
<1>5. req' \in [Processes -> ReqSet]
  BY <1>1 DEF Commit, IInv, TypeOK, ReqSet
<1>6. TypeOK'
  BY <1>2, <1>3, <1>4, <1>5 DEF Commit, IInv, TypeOK, ReqSet
<1>7. AnonymousGetsApproved'
  BY <1>2 DEF Commit, IInv, AnonymousGetsApproved
<1>8. ASSUME NEW p \in Processes PROVE RequestOK(req'[p], approved')
  <2>1. CASE p = r
    BY <1>1, <2>1 DEF Commit, IInv, TypeOK
  <2>2. CASE p # r
    <3>1. req'[p] = req[p] /\ RequestOK(req[p], approved)
      BY <2>2 DEF Commit, IInv, TypeOK
    <3> QED BY <3>1, <1>2 DEF RequestOK
  <2> QED BY <2>1, <2>2
<1> QED BY <1>6, <1>7, <1>8 DEF IInv

LEMMA NextOK == IInv /\ [Next]_vars => IInv'
<1> SUFFICES ASSUME IInv, [Next]_vars PROVE IInv'
  OBVIOUS
<1>1. CASE UNCHANGED vars
  <2>1. TypeOK' /\ AnonymousGetsApproved'
    BY <1>1 DEF vars, IInv, TypeOK, AnonymousGetsApproved
  <2>2. \A r \in Processes : RequestOK(req'[r], approved')
    BY <1>1 DEF vars, IInv
  <2> QED BY <2>1, <2>2 DEF IInv
<1>2. CASE Trouble
  <2>1. TypeOK'
    <3>1. troubles' \in 0 .. MaxTroubles
      <4>1. troubles \in 0 .. MaxTroubles /\ MaxTroubles \in Nat
        BY BotAssumption DEF IInv, TypeOK
      <4>2. troubles < MaxTroubles /\ troubles' = troubles + 1
        BY <1>2 DEF Trouble
      <4> QED BY <4>1, <4>2
    <3>2. UNCHANGED <<bot, approved, req, answered, raced, begun>> /\ owes' \in {"", "credits", "account"}
      BY <1>2 DEF Trouble
    <3> QED BY <3>1, <3>2 DEF IInv, TypeOK
  <2> QED BY <1>2, <2>1 DEF Trouble, IInv, AnonymousGetsApproved
<1> QED BY <1>1, <1>2, OwnerOK, AdminOK, TurnOK, CommitOK, SweepOK DEF Next

LEMMA Invariant == Spec => []IInv
BY InitOK, NextOK, PTL DEF Spec

\* A visitor without an account is answered by approved versions only, however
\* the requests of owner and administrators overlap with the turn.
THEOREM AnonymousSafe == Spec => []AnonymousGetsApproved
<1>1. IInv => AnonymousGetsApproved
  BY DEF IInv
<1> QED BY <1>1, Invariant, PTL

\* Only a commit changes the row.
LEMMA OnlyCommits ==
  ASSUME Next, bot' # bot
  PROVE  \E r \in Processes : Commit(r)
BY DEF Next, OwnerActs, AdminActs, TurnActs, OwnerPause, OwnerResume, SetScope, WithdrawRequest,
       NewVersion, ActivateVersion, AdminApprove, AdminReject, AdminWithdraw, AdminStatus, Request,
       Decide, Sweep, Trouble, ReadBot, Admit, RunTurn

\* "System pauses, auto-lifted; owner/admin pauses stay": what the owner or an
\* administrator closed is opened only by those who may, or by a commit that had
\* not read the closing.
THEOREM ClosingsHold == Spec => PausesStay
<1> DEFINE Opened == Closed(bot) /\ <<bot'.status, bot'.reason>> # <<bot.status, bot.reason>>
<1> DEFINE By(r) ==
      /\ req[r].pc = "writing" /\ req'[r].pc = "idle"
      /\ \/ req[r].by = "admin"
         \/ req[r].by = "owner" /\ bot.reason = "owner"
         \/ ~Saw(r, {"status", "reason"})
<1>1. ASSUME IInv, [Next]_vars, Opened PROVE \E r \in Processes : By(r)
  <2>1. Next /\ bot' # bot
    BY <1>1 DEF vars
  <2>2. PICK r \in Processes : Commit(r)
    BY <2>1, OnlyCommits
  <2>3. req[r].pc = "writing" /\ req'[r].pc = "idle" /\ req[r] \in ReqSet /\ bot \in Row
    BY <1>1, <2>2 DEF Commit, IInv, TypeOK, Idle, ReqSet
  <2>4. ASSUME Saw(r, {"status", "reason"})
        PROVE  req[r].by = "admin" \/ (req[r].by = "owner" /\ bot.reason = "owner")
    <3>1. req[r].saw["status"] = bot["status"] /\ req[r].saw["reason"] = bot["reason"]
      BY <2>4 DEF Saw
    <3>2. bot' = [c \in Columns |-> IF c \in Written(r) THEN req[r].new[c] ELSE bot[c]]
      BY <2>1, <2>2 DEF Commit
    <3>3. bot'["status"] # bot["status"] \/ bot'["reason"] # bot["reason"]
      BY <1>1
    <3>4. \/ "status" \in Written(r) \/ "reason" \in Written(r)
      BY <3>2, <3>3 DEF Columns
    <3>5. \/ req[r].new["status"] # req[r].saw["status"]
          \/ req[r].new["reason"] # req[r].saw["reason"]
      BY <3>4 DEF Written
    <3>6. Closed(req[r].saw)
      BY <1>1, <3>1 DEF Closed
    <3>7. Entitled(req[r].by, req[r].saw, req[r].new)
      BY <1>1, <2>3 DEF IInv, RequestOK
    <3> QED BY <3>1, <3>5, <3>6, <3>7 DEF Entitled
  <2> QED BY <2>3, <2>4
<1>2. IInv /\ [Next]_vars => [Opened => \E r \in Processes : By(r)]_vars
  BY <1>1
<1> QED BY <1>2, Invariant, PTL DEF Spec, PausesStay

\* "narrowing is the owner's; widening is reviewed": the audience grows by an
\* administrator's commit, or by one that had read another audience.
THEOREM WideningsReviewed == Spec => WideningIsReviewed
<1> DEFINE By(r) == /\ req[r].pc = "writing" /\ req'[r].pc = "idle"
                    /\ req[r].by = "admin" \/ ~Saw(r, {"vis"})
<1>1. ASSUME IInv, [Next]_vars, bot'.vis > bot.vis PROVE \E r \in Processes : By(r)
  <2>0. bot \in Row /\ bot["vis"] \in 0 .. 2
    BY <1>1, Fields DEF IInv, TypeOK
  <2>1. Next /\ bot' # bot /\ bot'["vis"] # bot["vis"]
    BY <1>1, <2>0 DEF vars
  <2>2. PICK r \in Processes : Commit(r)
    BY <2>1, OnlyCommits
  <2>3. req[r].pc = "writing" /\ req'[r].pc = "idle" /\ req[r] \in ReqSet
    BY <1>1, <2>2 DEF Commit, IInv, TypeOK, Idle, ReqSet
  <2>4. ASSUME Saw(r, {"vis"}) PROVE req[r].by = "admin"
    <3>1. req[r].saw["vis"] = bot["vis"]
      BY <2>4 DEF Saw
    <3>2. bot' = [c \in Columns |-> IF c \in Written(r) THEN req[r].new[c] ELSE bot[c]]
      BY <2>1, <2>2 DEF Commit
    <3>3. "vis" \in Written(r)
      BY <2>1, <3>2 DEF Columns
    <3>4. bot'["vis"] = req[r].new["vis"] /\ req[r].new["vis"] # req[r].saw["vis"]
      BY <3>2, <3>3 DEF Columns, Written
    <3>5. Entitled(req[r].by, req[r].saw, req[r].new)
      BY <1>1, <2>3 DEF IInv, RequestOK
    <3>6. req[r].new.vis \in 0 .. 2
      BY <2>3, Fields DEF ReqSet
    <3> QED BY <1>1, <2>0, <3>1, <3>4, <3>5, <3>6 DEF Entitled
  <2> QED BY <2>3, <2>4
<1>2. IInv /\ [Next]_vars => [bot'.vis > bot.vis => \E r \in Processes : By(r)]_vars
  BY <1>1
<1> QED BY <1>2, Invariant, PTL DEF Spec, WideningIsReviewed

-----------------------------------------------------------------------------
(* The columns of audience, review and versions fit each other.            *)

ReviewColumns == {"vis", "asked", "review", "active", "pending"}

\* ReviewInv of a row b and the approved versions.
Fits(b, reviewed) ==
  /\ b.vis > 0 => b.active \in reviewed
  /\ b.pending # 0 => b.review = "pending"
  /\ b.review = "pending" => b.pending # 0 \/ b.asked # 0
  /\ b.asked # 0 => b.asked > b.vis /\ b.review # "none"

\* What a request will write fits, with what it approves; and so does the row a
\* turn has read.
ReqFits(q, reviewed) ==
  /\ q.pc = "writing" => Fits(q.new, reviewed \cup ({q.approves} \ {0}))
  /\ q.pc \in {"asking", "queued"} => Fits(q.saw, reviewed)

FitInv ==
  raced \cap ReviewColumns = {} =>
    /\ Fits(bot, approved)
    /\ \A r \in Processes : ReqFits(req[r], approved)

\* A row with the same columns, and more approved versions, fits as well.
LEMMA SameFits ==
  ASSUME NEW b, NEW c, NEW A, NEW B, A \subseteq B, Fits(b, A),
         c.vis = b.vis, c.asked = b.asked, c.review = b.review,
         c.active = b.active, c.pending = b.pending
  PROVE  Fits(c, B)
BY DEF Fits

LEMMA FitInit == Init => FitInv
<1> SUFFICES ASSUME Init PROVE Fits(bot, approved) /\ \A r \in Processes : ReqFits(req[r], approved)
  BY DEF FitInv
<1>1. PICK v \in 0 .. 2 : bot = Published(v)
  BY DEF Init
<1>2. /\ bot.vis = 0 /\ bot.asked = v /\ bot.pending = 0
      /\ bot.review = IF v = 0 THEN "none" ELSE "pending"
  BY <1>1 DEF Published
<1>3. v # 0 => v > 0
  OBVIOUS
<1>4. Fits(bot, approved)
  BY <1>2, <1>3 DEF Fits
<1> QED BY <1>4 DEF Init, ReqFits, Idle

\* A step of one request that touches neither the row nor what was approved.
LEMMA OneFits ==
  ASSUME IInv, FitInv, NEW r \in Processes, NEW q,
         Fits(bot, approved) /\ ReqFits(req[r], approved) => ReqFits(q, approved),
         req' = [req EXCEPT ![r] = q], UNCHANGED <<bot, approved, raced>>
  PROVE  FitInv'
<1> SUFFICES ASSUME raced \cap ReviewColumns = {}
             PROVE  Fits(bot, approved) /\ \A p \in Processes : ReqFits(req'[p], approved)
  BY DEF FitInv
<1>1. Fits(bot, approved) /\ \A p \in Processes : ReqFits(req[p], approved)
  BY DEF FitInv
<1>2. \A p \in Processes : req'[p] = IF p = r THEN q ELSE req[p]
  BY DEF IInv, TypeOK
<1> QED BY <1>1, <1>2

\* A handler that decides on a row that fits.
LEMMA DecideFits ==
  ASSUME IInv, FitInv, NEW r \in Processes, NEW who, NEW new, NEW version,
         Decide(r, who, new, version),
         Fits(bot, approved) => Fits(new, approved \cup ({version} \ {0}))
  PROVE  FitInv'
<1> DEFINE q == [pc |-> "writing", by |-> who, saw |-> bot, new |-> new, approves |-> version]
<1>1. Fits(bot, approved) => ReqFits(q, approved)
  BY DEF ReqFits
<1>2. req' = [req EXCEPT ![r] = q] /\ UNCHANGED <<bot, approved, raced>>
  BY DEF Decide
<1> HIDE DEF q
<1> QED BY <1>1, <1>2, OneFits

LEMMA RequestFits ==
  ASSUME IInv, FitInv, NEW r \in Requests, NEW who, NEW new, Request(r, who, new),
         Fits(bot, approved) => Fits(new, approved)
  PROVE  FitInv'
<1>1. Decide(r, who, new, 0) /\ r \in Processes /\ approved \cup ({0} \ {0}) = approved
  BY DEF Request, Processes
<1> QED BY <1>1, DecideFits

\* What a pause or its end makes of a row fits as the row did.
LEMMA StatusFits ==
  ASSUME NEW b \in Row, NEW A, Fits(b, A)
  PROVE  /\ \A why : Fits(Paused(b, why), A)
         /\ Fits(Reopened(b), A) /\ Fits(Cleared(b), A)
         /\ Fits([b EXCEPT !.status = "revoked", !.reason = "admin"], A)
<1>0. DOMAIN b = Columns
  BY DEF Row, Columns
<1>1. ASSUME NEW why PROVE Fits(Paused(b, why), A)
  <2> DEFINE c == Paused(b, why)
  <2>1. /\ c.vis = b.vis /\ c.asked = b.asked /\ c.review = b.review
        /\ c.active = b.active /\ c.pending = b.pending
    BY <1>0 DEF Paused, Columns
  <2> HIDE DEF c
  <2>2. Fits(c, A)
    BY <2>1, SameFits
  <2> QED BY <2>2 DEF c
<1>2. Fits(Reopened(b), A)
  <2> DEFINE c == Reopened(b)
  <2>1. /\ c.vis = b.vis /\ c.asked = b.asked /\ c.review = b.review
        /\ c.active = b.active /\ c.pending = b.pending
    BY <1>0 DEF Reopened, Columns
  <2> HIDE DEF c
  <2>2. Fits(c, A)
    BY <2>1, SameFits
  <2> QED BY <2>2 DEF c
<1>3. Fits([b EXCEPT !.status = "revoked", !.reason = "admin"], A)
  <2> DEFINE c == [b EXCEPT !.status = "revoked", !.reason = "admin"]
  <2>1. /\ c.vis = b.vis /\ c.asked = b.asked /\ c.review = b.review
        /\ c.active = b.active /\ c.pending = b.pending
    BY <1>0 DEF Columns
  <2> HIDE DEF c
  <2>2. Fits(c, A)
    BY <2>1, SameFits
  <2> QED BY <2>2 DEF c
<1> QED BY <1>1, <1>2, <1>3 DEF Cleared

LEMMA OwnerFits ==
  ASSUME IInv, FitInv, NEW r \in Requests, OwnerActs(r)
  PROVE  FitInv'
<1>0. bot \in Row /\ DOMAIN bot = Columns /\ bot.vis \in 0 .. 2
  BY Fields DEF IInv, TypeOK, Row, Columns
<1>1. CASE OwnerPause(r) \/ OwnerResume(r)
  BY <1>0, <1>1, StatusFits, RequestFits DEF OwnerPause, OwnerResume
<1>2. ASSUME NEW v \in 0 .. 2, SetScope(r, v) PROVE FitInv'
  <2>1. CASE v > bot.vis
    <3> DEFINE new == Requested(bot, v)
    <3>1. /\ new.vis = bot.vis /\ new.asked = v /\ new.review = "pending"
          /\ new.active = bot.active /\ new.pending = bot.pending
      BY <1>0 DEF Requested, Columns
    <3>2. Request(r, "owner", new)
      BY <1>2, <2>1 DEF SetScope
    <3> HIDE DEF new
    <3>3. Fits(bot, approved) => Fits(new, approved)
      BY <1>0, <2>1, <3>1 DEF Fits
    <3> QED BY <3>2, <3>3, RequestFits
  <2>2. CASE ~(v > bot.vis)
    <3> DEFINE new == Narrowed(bot, v)
    <3>1. /\ new.vis = v /\ new.asked = 0
          /\ new.active = IF v = 0 /\ bot.pending # 0 THEN bot.pending ELSE bot.active
          /\ new.pending = IF v = 0 THEN 0 ELSE bot.pending
          /\ new.review = IF new.pending = 0 THEN "none" ELSE bot.review
      BY <1>0 DEF Narrowed, Columns
    <3>2. Request(r, "owner", new)
      BY <1>2, <2>2 DEF SetScope
    <3> HIDE DEF new
    <3>3. Fits(bot, approved) => Fits(new, approved)
      BY <1>0, <2>2, <3>1 DEF Fits
    <3> QED BY <3>2, <3>3, RequestFits
  <2> QED BY <2>1, <2>2
<1>3. CASE WithdrawRequest(r)
  <2> DEFINE new == [bot EXCEPT !.asked = 0, !.pending = 0, !.review = "none"]
  <2>1. /\ new.vis = bot.vis /\ new.asked = 0 /\ new.review = "none"
        /\ new.active = bot.active /\ new.pending = 0
    BY <1>0 DEF Columns
  <2>2. Request(r, "owner", new)
    BY <1>3 DEF WithdrawRequest
  <2> HIDE DEF new
  <2>3. Fits(bot, approved) => Fits(new, approved)
    BY <2>1 DEF Fits
  <2> QED BY <2>2, <2>3, RequestFits
<1>4. ASSUME NEW v \in Versions, NEW reviewed \in BOOLEAN, NEW new,
             new.vis = bot.vis, new.asked = bot.asked,
             new.active = Proposed(bot, v, reviewed).active,
             new.pending = Proposed(bot, v, reviewed).pending,
             new.review = Proposed(bot, v, reviewed).review,
             ~reviewed => bot.vis = 0 \/ v \in approved,
             Fits(bot, approved)
      PROVE  Fits(new, approved)
  <2>1. v # 0
    BY BotAssumption DEF Versions
  <2>2. CASE reviewed
    <3>1. new.active = bot.active /\ new.pending = v /\ new.review = "pending"
      BY <1>0, <1>4, <2>2 DEF Proposed, Columns
    <3> QED BY <1>4, <2>1, <3>1 DEF Fits
  <2>3. CASE ~reviewed
    <3>1. new.active = v /\ new.pending = bot.pending /\ new.review = bot.review
      BY <1>0, <1>4, <2>3 DEF Proposed, Columns
    <3> QED BY <1>0, <1>4, <2>3, <3>1 DEF Fits
  <2> QED BY <2>2, <2>3
<1>5. ASSUME NEW v, NEW reviewed
      PROVE  /\ Proposed(bot, v, reviewed).vis = bot.vis
             /\ Proposed(bot, v, reviewed).asked = bot.asked
             /\ DOMAIN Proposed(bot, v, reviewed) = Columns
  <2>1. CASE reviewed
    BY <1>0, <2>1 DEF Proposed, Columns
  <2>2. CASE ~reviewed
    BY <1>0, <2>2 DEF Proposed, Columns
  <2> QED BY <2>1, <2>2
<1>6. CASE NewVersion(r)
  <2> DEFINE v == bot.made + 1
             reviewed == bot.vis > 0
             old == Proposed(bot, v, reviewed)
             new == [old EXCEPT !.made = v]
  <2>1. v \in Versions
    <3> DEFINE k == bot.made
    <3>1. k \in 1 .. MaxVersions /\ k < MaxVersions
      BY <1>0, <1>6, Fields DEF NewVersion, Versions
    <3> HIDE DEF k
    <3>2. k + 1 \in 1 .. MaxVersions
      BY <3>1, BotAssumption
    <3> QED BY <3>2 DEF k, Versions
  <2>2. Request(r, "owner", new)
    BY <1>6 DEF NewVersion
  <2>3. DOMAIN old = Columns /\ old.vis = bot.vis /\ old.asked = bot.asked
    BY <1>5
  <2>6. reviewed \in BOOLEAN /\ (~reviewed => bot.vis = 0)
    BY <1>0
  <2> HIDE DEF v, reviewed
  <2>4. /\ new.vis = bot.vis /\ new.asked = bot.asked /\ new.active = old.active
        /\ new.pending = old.pending /\ new.review = old.review
    <3> HIDE DEF old
    <3> QED BY <2>3 DEF Columns
  <2> HIDE DEF new
  <2>5. Fits(bot, approved) => Fits(new, approved)
    BY <1>4, <2>1, <2>4, <2>6
  <2> QED BY <2>2, <2>5, RequestFits
<1>7. ASSUME NEW v \in Versions, ActivateVersion(r, v) PROVE FitInv'
  <2> DEFINE reviewed == bot.vis > 0 /\ v \notin approved
             new == Proposed(bot, v, reviewed)
  <2>1. new.vis = bot.vis /\ new.asked = bot.asked
    BY <1>5
  <2>2. reviewed \in BOOLEAN /\ (~reviewed => bot.vis = 0 \/ v \in approved)
    BY <1>0
  <2>3. Request(r, "owner", new)
    BY <1>7 DEF ActivateVersion
  <2> HIDE DEF reviewed
  <2>4. Fits(bot, approved) => Fits(new, approved)
    BY <1>4, <2>1, <2>2
  <2> HIDE DEF new
  <2> QED BY <2>3, <2>4, RequestFits
<1> QED BY <1>1, <1>2, <1>3, <1>6, <1>7 DEF OwnerActs

LEMMA AdminFits ==
  ASSUME IInv, FitInv, NEW r \in Requests, AdminActs(r)
  PROVE  FitInv'
<1>0. bot \in Row /\ DOMAIN bot = Columns /\ r \in Processes
  BY DEF IInv, TypeOK, Row, Columns, Processes
<1>1. CASE AdminApprove(r)
  <2> DEFINE version == IF bot.pending # 0 THEN bot.pending ELSE bot.active
             new == [bot EXCEPT !.active = version, !.pending = 0, !.asked = 0, !.review = "none",
                                !.vis = IF bot.asked # 0 THEN bot.asked ELSE @]
  <2>1. /\ new.active = version /\ new.pending = 0 /\ new.asked = 0 /\ new.review = "none"
    BY <1>0 DEF Columns
  <2>2. version # 0
    BY <1>0, Fields, BotAssumption DEF Versions
  <2>3. Decide(r, "admin", new, version)
    BY <1>1 DEF AdminApprove
  <2> HIDE DEF new, version
  <2>4. Fits(new, approved \cup ({version} \ {0}))
    BY <2>1, <2>2 DEF Fits
  <2> QED BY <1>0, <2>3, <2>4, DecideFits
<1>2. CASE AdminReject(r)
  <2> DEFINE new == [bot EXCEPT !.review = "rejected", !.pending = 0]
  <2>1. /\ new.vis = bot.vis /\ new.asked = bot.asked /\ new.review = "rejected"
        /\ new.active = bot.active /\ new.pending = 0
    BY <1>0 DEF Columns
  <2>2. Request(r, "admin", new)
    BY <1>2 DEF AdminReject
  <2> HIDE DEF new
  <2>3. Fits(bot, approved) => Fits(new, approved)
    BY <2>1 DEF Fits
  <2> QED BY <2>2, <2>3, RequestFits
<1>3. CASE AdminWithdraw(r)
  <2> DEFINE new == [bot EXCEPT !.vis = 0, !.asked = 0, !.pending = 0, !.review = "none"]
  <2>1. new.vis = 0 /\ new.asked = 0 /\ new.review = "none" /\ new.pending = 0
    BY <1>0 DEF Columns
  <2>2. Request(r, "admin", new)
    BY <1>3 DEF AdminWithdraw
  <2> HIDE DEF new
  <2>3. Fits(new, approved)
    BY <2>1 DEF Fits
  <2> QED BY <2>2, <2>3, RequestFits
<1>4. CASE AdminStatus(r)
  BY <1>0, <1>4, StatusFits, RequestFits DEF AdminStatus
<1> QED BY <1>1, <1>2, <1>3, <1>4 DEF AdminActs

LEMMA SweepFits == ASSUME IInv, FitInv, Sweep PROVE FitInv'
<1> DEFINE new == IF owes = "" THEN Cleared(bot)
                  ELSE IF bot.status = "approved" THEN Paused(bot, owes) ELSE bot
<1>0. bot \in Row /\ Sweeper \in Processes /\ approved \cup ({0} \ {0}) = approved
  BY DEF IInv, TypeOK, Processes
<1>1. Fits(bot, approved) => Fits(new, approved)
  BY <1>0, StatusFits
<1>2. Decide(Sweeper, "system", new, 0)
  BY DEF Sweep
<1> HIDE DEF new
<1> QED BY <1>0, <1>1, <1>2, DecideFits

LEMMA TurnFits ==
  ASSUME IInv, FitInv, NEW r \in Requests, TurnActs(r)
  PROVE  FitInv'
<1>0. r \in Processes /\ req[r] \in ReqSet /\ req[r].saw \in Row /\ ReqFits(Idle, approved)
  BY DEF IInv, TypeOK, ReqSet, Processes, Idle, ReqFits
<1>1. ASSUME NEW who, ReadBot(r, who) PROVE FitInv'
  <2> DEFINE q == [pc |-> "asking", by |-> who, saw |-> bot, new |-> bot, approves |-> 0]
  <2>1. Fits(bot, approved) => ReqFits(q, approved)
    BY DEF ReqFits
  <2>2. req' = [req EXCEPT ![r] = q] /\ UNCHANGED <<bot, approved, raced>>
    BY <1>1 DEF ReadBot
  <2> HIDE DEF q
  <2> QED BY <1>0, <2>1, <2>2, OneFits
<1>2. ASSUME NEW why, TurnPauses(r, why), req[r].pc \in {"asking", "queued"},
             UNCHANGED <<bot, approved, raced>>
      PROVE  FitInv'
  <2> DEFINE q == [req[r] EXCEPT !.pc = "writing", !.new = Paused(req[r].saw, why)]
  <2>1. q.pc = "writing" /\ q.new = Paused(req[r].saw, why)
    BY <1>0 DEF ReqSet
  <2>2. req' = [req EXCEPT ![r] = q]
    BY <1>0, <1>2 DEF TurnPauses, ReqSet
  <2>3. ASSUME ReqFits(req[r], approved) PROVE ReqFits(q, approved)
    <3>1. Fits(req[r].saw, approved \cup ({q.approves} \ {0}))
      BY <1>2, <2>3 DEF ReqFits, Fits
    <3>2. Fits(q.new, approved \cup ({q.approves} \ {0}))
      BY <1>0, <2>1, <3>1, StatusFits
    <3> QED BY <2>1, <3>2 DEF ReqFits
  <2> HIDE DEF q
  <2> QED BY <1>0, <1>2, <2>2, <2>3, OneFits
<1>3. CASE Admit(r)
  <2>0. req[r].pc = "asking" /\ UNCHANGED <<bot, approved, raced>>
    BY <1>3 DEF Admit
  <2>1. CASE TurnPauses(r, owes)
    BY <1>2, <2>0, <2>1
  <2>2. CASE req' = [req EXCEPT ![r].pc = "queued"]
    <3> DEFINE q == [req[r] EXCEPT !.pc = "queued"]
    <3>1. q.pc = "queued" /\ q.saw = req[r].saw
      BY <1>0 DEF ReqSet
    <3>2. req' = [req EXCEPT ![r] = q]
      BY <1>0, <2>2 DEF ReqSet
    <3> HIDE DEF q
    <3>3. ReqFits(req[r], approved) => ReqFits(q, approved)
      BY <2>0, <3>1 DEF ReqFits
    <3> QED BY <1>0, <2>0, <3>2, <3>3, OneFits
  <2>3. CASE req' = [req EXCEPT ![r] = Idle]
    BY <1>0, <2>0, <2>3, OneFits
  <2> QED BY <1>3, <2>1, <2>2, <2>3 DEF Admit
<1>4. CASE RunTurn(r)
  <2>0. req[r].pc = "queued" /\ UNCHANGED <<bot, approved, raced>>
    BY <1>4 DEF RunTurn
  <2>1. CASE req' = [req EXCEPT ![r] = Idle]
    BY <1>0, <2>0, <2>1, OneFits
  <2>2. CASE TurnPauses(r, "model")
    BY <1>2, <2>0, <2>2
  <2> QED BY <1>4, <2>1, <2>2 DEF RunTurn
<1> QED BY <1>1, <1>3, <1>4 DEF TurnActs

\* A commit that has seen the columns leaves them as it decided.
LEMMA CommitFits == ASSUME IInv, FitInv, NEW r \in Processes, Commit(r) PROVE FitInv'
<1> SUFFICES ASSUME raced' \cap ReviewColumns = {}
             PROVE  Fits(bot', approved') /\ \A p \in Processes : ReqFits(req'[p], approved')
  BY DEF FitInv
<1>0. raced \subseteq raced' /\ approved \subseteq approved' /\ req[r].pc = "writing"
  BY DEF Commit
<1>1. Fits(bot, approved) /\ \A p \in Processes : ReqFits(req[p], approved)
  BY <1>0 DEF FitInv
<1>2. Fits(bot', approved')
  <2>1. CASE UNCHANGED <<bot, approved>>
    BY <1>1, <2>1
  <2>2. CASE /\ bot' = [c \in Columns |-> IF c \in Written(r) THEN req[r].new[c] ELSE bot[c]]
             /\ approved' = approved \cup ({req[r].approves} \ {0})
             /\ raced' = raced \cup Unseen(r)
    <3>1. \A c \in ReviewColumns : c \in Columns /\ c \notin Unseen(r)
      BY <2>2 DEF ReviewColumns, Columns
    <3>2. \A c \in ReviewColumns : bot'[c] = req[r].new[c]
      BY <2>2, <3>1 DEF Unseen, Written
    <3>3. /\ bot'["vis"] = req[r].new["vis"] /\ bot'["asked"] = req[r].new["asked"]
          /\ bot'["review"] = req[r].new["review"] /\ bot'["active"] = req[r].new["active"]
          /\ bot'["pending"] = req[r].new["pending"]
      BY <3>2 DEF ReviewColumns
    <3>4. Fits(req[r].new, approved')
      BY <1>0, <1>1, <2>2 DEF ReqFits
    <3> QED BY <3>3, <3>4, SameFits
  <2> QED BY <2>1, <2>2 DEF Commit
<1>3. ASSUME NEW p \in Processes PROVE ReqFits(req'[p], approved')
  <2>1. CASE p = r
    BY <2>1 DEF Commit, IInv, TypeOK, ReqFits, Idle
  <2>2. CASE p # r
    <3>1. req'[p] = req[p] /\ ReqFits(req[p], approved)
      BY <1>1, <2>2 DEF Commit, IInv, TypeOK
    <3> QED BY <1>0, <3>1 DEF ReqFits, Fits
  <2> QED BY <2>1, <2>2
<1> QED BY <1>2, <1>3

LEMMA FitNext == IInv /\ FitInv /\ [Next]_vars => FitInv'
<1> SUFFICES ASSUME IInv, FitInv, [Next]_vars PROVE FitInv'
  OBVIOUS
<1>1. CASE UNCHANGED vars
  BY <1>1 DEF vars, FitInv
<1>2. CASE Trouble
  BY <1>2 DEF Trouble, FitInv
<1> QED BY <1>1, <1>2, OwnerFits, AdminFits, TurnFits, CommitFits, SweepFits DEF Next

\* "approves the audience and the version together": while no commit wrote over a
\* change it had not seen, what is open outside runs an approved version, and what
\* waits for an administrator can be decided.
THEOREM ReviewsHold == Spec => []BotInv
<1>1. IInv /\ FitInv => BotInv
  BY DEF IInv, FitInv, BotInv, ReviewInv, ReviewColumns, Fits
<1> QED BY <1>1, Invariant, FitInit, FitNext, PTL DEF Spec

-----------------------------------------------------------------------------
(* The slots of visitors' turns.  What a turn counts is never the set that *)
(* is to be bounded, so the invariant bounds, for each turn that counted,  *)
(* the turns in line before it.                                            *)

Ahead(t) == {u \in rows \ late : at[u] < at[t]}

\* A turn has a row, and a stamp, from its insert to its withdrawal or release.
RowsAreOfTries ==
  \A t \in Turns :
    /\ pc[t] \in {"new", "waiting", "stamped", "over"} => t \notin rows
    /\ pc[t] \in Trying \cup {"running"} => at[t] > 0
    /\ t \in rows => at[t] > 0

StampsDiffer ==
  /\ \A t \in Turns : at[t] < clock
  /\ \A t, u \in Turns : at[t] = at[u] /\ at[t] > 0 => t = u

\* A turn that found room for its bot, and one that found room on the instance,
\* have it still, but for late turns.
BotHasRoom(t) ==
  t \in rows /\ (pc[t] = "running" \/ (pc[t] = "counted" /\ room[t])) =>
    Cardinality(Ahead(t) \cap SameBot(t)) < PerBot[botOf[t]]

InstanceHasRoom(t) ==
  t \in rows /\ pc[t] = "running" => Cardinality(Ahead(t)) < InstanceMax

RoomLasts == \A t \in Turns : BotHasRoom(t) /\ InstanceHasRoom(t)

LineInv == SlotTypeOK /\ RowsAreOfTries /\ StampsDiffer /\ RoomLasts

\* A set of turns has no more members than one that includes it.
LEMMA FewerTurns ==
  ASSUME NEW S \in SUBSET Turns, NEW T \in SUBSET S
  PROVE  /\ Cardinality(S) \in Nat /\ Cardinality(T) \in Nat
         /\ Cardinality(T) <= Cardinality(S)
<1>1. IsFiniteSet(S)
  BY FS_Subset, SlotAssumption
<1>2. IsFiniteSet(T) /\ Cardinality(T) <= Cardinality(S)
  BY <1>1, FS_Subset
<1> QED BY <1>1, <1>2, FS_CardinalityType

LEMMA LineInit == SlotInit => LineInv
<1> SUFFICES ASSUME SlotInit PROVE LineInv
  OBVIOUS
<1>1. SlotTypeOK
  BY SlotAssumption DEF SlotInit, SlotTypeOK
<1>2. RowsAreOfTries /\ StampsDiffer /\ RoomLasts
  BY DEF SlotInit, RowsAreOfTries, StampsDiffer, RoomLasts, BotHasRoom, InstanceHasRoom, Trying
<1> QED BY <1>1, <1>2 DEF LineInv

\* A turn keeps its room while nobody joins the line before it.
LEMMA RoomKept ==
  ASSUME SlotTypeOK, botOf' = botOf, NEW t \in Turns, Ahead(t)' \subseteq Ahead(t)
  PROVE  /\ Cardinality(Ahead(t)) < InstanceMax => Cardinality(Ahead(t)') < InstanceMax
         /\ Cardinality(Ahead(t) \cap SameBot(t)) < PerBot[botOf[t]] =>
              Cardinality((Ahead(t) \cap SameBot(t))') < PerBot[botOf[t]]'
<1>1. Ahead(t) \subseteq Turns /\ (Ahead(t) \cap SameBot(t))' \subseteq Ahead(t) \cap SameBot(t)
  BY DEF SlotTypeOK, Ahead, SameBot
<1>2. InstanceMax \in Nat /\ PerBot[botOf[t]] \in Nat
  BY SlotAssumption DEF SlotTypeOK
<1>3. /\ Cardinality(Ahead(t)) \in Nat /\ Cardinality(Ahead(t)') \in Nat
      /\ Cardinality(Ahead(t)') <= Cardinality(Ahead(t))
  BY <1>1, FewerTurns
<1>4. /\ Cardinality(Ahead(t) \cap SameBot(t)) \in Nat
      /\ Cardinality((Ahead(t) \cap SameBot(t))') \in Nat
      /\ Cardinality((Ahead(t) \cap SameBot(t))') <= Cardinality(Ahead(t) \cap SameBot(t))
  BY <1>1, FewerTurns
<1> QED BY <1>2, <1>3, <1>4

\* A step after which no turn has found room that had not, and the lines before
\* those that had are no longer, keeps all room.
LEMMA NobodyJoins ==
  ASSUME LineInv, botOf' = botOf,
         \A t \in Turns :
           t \in rows' /\ pc'[t] \in {"counted", "running"} =>
             /\ t \in rows /\ pc'[t] = pc[t] /\ (pc[t] = "counted" => room'[t] = room[t])
             /\ Ahead(t)' \subseteq Ahead(t)
  PROVE  RoomLasts'
<1> SUFFICES ASSUME NEW t \in Turns PROVE BotHasRoom(t)' /\ InstanceHasRoom(t)'
  BY DEF RoomLasts
<1>1. BotHasRoom(t) /\ InstanceHasRoom(t) /\ SlotTypeOK
  BY DEF LineInv, RoomLasts
<1>2. BotHasRoom(t)'
  <2> SUFFICES ASSUME t \in rows', pc'[t] = "running" \/ (pc'[t] = "counted" /\ room'[t])
               PROVE  Cardinality((Ahead(t) \cap SameBot(t))') < PerBot[botOf[t]]'
    BY DEF BotHasRoom
  <2>1. Cardinality(Ahead(t) \cap SameBot(t)) < PerBot[botOf[t]]
    BY <1>1 DEF BotHasRoom
  <2>2. Ahead(t)' \subseteq Ahead(t)
    OBVIOUS
  <2> QED BY <1>1, <2>1, <2>2, RoomKept
<1>3. InstanceHasRoom(t)'
  <2> SUFFICES ASSUME t \in rows', pc'[t] = "running"
               PROVE  Cardinality(Ahead(t)') < InstanceMax
    BY DEF InstanceHasRoom
  <2>1. Cardinality(Ahead(t)) < InstanceMax
    BY <1>1 DEF InstanceHasRoom
  <2>2. Ahead(t)' \subseteq Ahead(t)
    OBVIOUS
  <2> QED BY <1>1, <2>1, <2>2, RoomKept
<1> QED BY <1>2, <1>3

LEMMA StampLine == ASSUME LineInv, NEW t \in Turns, Stamp(t) PROVE LineInv'
<1>1. SlotTypeOK'
  BY SlotAssumption DEF LineInv, SlotTypeOK, Stamp, Trying
<1>2. /\ t \notin rows /\ rows' = rows /\ late' = late /\ room' = room
      /\ pc' = [pc EXCEPT ![t] = "stamped"] /\ at' = [at EXCEPT ![t] = clock]
      /\ \A u \in Turns \ {t} : at'[u] = at[u] /\ pc'[u] = pc[u]
      /\ at'[t] = clock /\ pc'[t] = "stamped" /\ clock \in Nat /\ clock > 0 /\ clock' = clock + 1
  BY SlotAssumption DEF LineInv, SlotTypeOK, RowsAreOfTries, Stamp
<1>3. RowsAreOfTries'
  BY <1>2 DEF LineInv, RowsAreOfTries, Trying
<1>4. StampsDiffer'
  <2>1. \A u \in Turns : at[u] \in Nat /\ at[u] < clock
    BY DEF LineInv, SlotTypeOK, StampsDiffer
  <2> QED BY <1>2, <2>1 DEF LineInv, StampsDiffer
<1>5. RoomLasts'
  <2>1. \A u \in Turns \ {t} : Ahead(u)' = Ahead(u)
    BY <1>2 DEF Ahead, LineInv, SlotTypeOK
  <2>2. botOf' = botOf
    BY DEF Stamp
  <2> QED BY <1>2, <2>1, <2>2, NobodyJoins
<1> QED BY <1>1, <1>3, <1>4, <1>5 DEF LineInv

\* A row that joins before one that was counted is late.
LEMMA InsertLine == ASSUME LineInv, NEW t \in Turns, Insert(t) PROVE LineInv'
<1>1. SlotTypeOK'
  BY SlotAssumption DEF LineInv, SlotTypeOK, Insert, Trying, Outdated
<1>2. /\ rows' \subseteq rows \cup {t} /\ late \subseteq late' /\ at' = at /\ clock' = clock
      /\ room' = room /\ pc'[t] = "counting" /\ botOf' = botOf
      /\ \A u \in Turns \ {t} : pc'[u] = pc[u]
      /\ t \notin rows /\ at[t] > 0
  BY DEF LineInv, SlotTypeOK, RowsAreOfTries, Insert, Trying
<1>3. RowsAreOfTries' /\ StampsDiffer'
  BY <1>2 DEF LineInv, RowsAreOfTries, StampsDiffer, Trying
<1>4. ASSUME NEW u \in Turns, u \in rows', pc'[u] \in {"counted", "running"}
      PROVE  /\ u \in rows /\ pc'[u] = pc[u] /\ Ahead(u)' \subseteq Ahead(u)
  <2>1. u # t /\ u \in rows /\ pc'[u] = pc[u]
    BY <1>2, <1>4
  <2>2. at[t] < at[u] => t \in late'
    BY <1>4, <2>1 DEF Insert, LineInv, SlotTypeOK
  <2> QED BY <1>2, <2>1, <2>2 DEF Ahead
<1>5. RoomLasts'
  BY <1>2, <1>4, NobodyJoins
<1> QED BY <1>1, <1>3, <1>5 DEF LineInv

\* Who is in line before a turn has an earlier row.
LEMMA LineIsCounted ==
  ASSUME SlotTypeOK, NEW t \in Turns
  PROVE  /\ Cardinality(Earlier(t)) < InstanceMax => Cardinality(Ahead(t)) < InstanceMax
         /\ Cardinality(Earlier(t) \cap SameBot(t)) < PerBot[botOf[t]] =>
              Cardinality(Ahead(t) \cap SameBot(t)) < PerBot[botOf[t]]
<1>1. /\ Ahead(t) \subseteq Earlier(t) /\ Earlier(t) \subseteq Turns
      /\ Ahead(t) \cap SameBot(t) \subseteq Earlier(t) \cap SameBot(t)
  BY DEF Ahead, Earlier, SlotTypeOK
<1>2. InstanceMax \in Nat /\ PerBot[botOf[t]] \in Nat
  BY SlotAssumption DEF SlotTypeOK
<1>3. /\ Cardinality(Ahead(t)) \in Nat /\ Cardinality(Earlier(t)) \in Nat
      /\ Cardinality(Ahead(t)) <= Cardinality(Earlier(t))
  BY <1>1, FewerTurns
<1>4. /\ Cardinality(Ahead(t) \cap SameBot(t)) \in Nat
      /\ Cardinality(Earlier(t) \cap SameBot(t)) \in Nat
      /\ Cardinality(Ahead(t) \cap SameBot(t)) <= Cardinality(Earlier(t) \cap SameBot(t))
  BY <1>1, FewerTurns
<1> QED BY <1>2, <1>3, <1>4

LEMMA CountBotLine == ASSUME LineInv, NEW t \in Turns, CountBot(t) PROVE LineInv'
<1>1. SlotTypeOK'
  BY DEF LineInv, SlotTypeOK, CountBot, Trying
<1>2. /\ rows' = rows /\ late' = late /\ at' = at /\ clock' = clock /\ botOf' = botOf
      /\ pc[t] = "counting" /\ pc'[t] = "counted"
      /\ room'[t] = (Cardinality(Earlier(t) \cap SameBot(t)) < PerBot[botOf[t]])
      /\ \A u \in Turns \ {t} : pc'[u] = pc[u] /\ room'[u] = room[u]
  BY DEF LineInv, SlotTypeOK, CountBot
<1>3. RowsAreOfTries' /\ StampsDiffer'
  BY <1>2 DEF LineInv, RowsAreOfTries, StampsDiffer, Trying
<1>4. \A u \in Turns : Ahead(u)' = Ahead(u) /\ SameBot(u)' = SameBot(u)
  BY <1>2 DEF Ahead, SameBot
<1>5. ASSUME NEW u \in Turns PROVE BotHasRoom(u)' /\ InstanceHasRoom(u)'
  <2>1. CASE u = t
    BY <1>2, <1>4, <2>1, LineIsCounted DEF LineInv, BotHasRoom, InstanceHasRoom
  <2>2. CASE u # t
    BY <1>2, <1>4, <2>2 DEF LineInv, RoomLasts, BotHasRoom, InstanceHasRoom
  <2> QED BY <2>1, <2>2
<1> QED BY <1>1, <1>3, <1>5 DEF LineInv, RoomLasts

LEMMA CountAllLine == ASSUME LineInv, NEW t \in Turns, CountAll(t) PROVE LineInv'
<1>1. SlotTypeOK'
  BY DEF LineInv, SlotTypeOK, CountAll, Trying
<1>2. /\ rows' = rows /\ late' = late /\ at' = at /\ clock' = clock /\ botOf' = botOf
      /\ pc[t] = "counted" /\ pc'[t] \in {"running", "withdrawing"}
      /\ pc'[t] = "running" => room[t] /\ Cardinality(Earlier(t)) < InstanceMax
      /\ \A u \in Turns \ {t} : pc'[u] = pc[u] /\ room'[u] = room[u]
  BY DEF LineInv, SlotTypeOK, CountAll, HasRoom
<1>3. RowsAreOfTries' /\ StampsDiffer'
  BY <1>2 DEF LineInv, RowsAreOfTries, StampsDiffer, Trying
<1>4. \A u \in Turns : Ahead(u)' = Ahead(u) /\ SameBot(u)' = SameBot(u)
  BY <1>2 DEF Ahead, SameBot
<1>5. ASSUME NEW u \in Turns PROVE BotHasRoom(u)' /\ InstanceHasRoom(u)'
  <2>1. CASE u = t
    <3>1. pc'[t] = "running" => Cardinality(Ahead(t)) < InstanceMax
      BY <1>2, LineIsCounted DEF LineInv
    <3>2. t \in rows /\ room[t] => Cardinality(Ahead(t) \cap SameBot(t)) < PerBot[botOf[t]]
      BY <1>2 DEF LineInv, RoomLasts, BotHasRoom
    <3> QED BY <1>2, <1>4, <2>1, <3>1, <3>2 DEF BotHasRoom, InstanceHasRoom
  <2>2. CASE u # t
    BY <1>2, <1>4, <2>2 DEF LineInv, RoomLasts, BotHasRoom, InstanceHasRoom
  <2> QED BY <2>1, <2>2
<1> QED BY <1>1, <1>3, <1>5 DEF LineInv, RoomLasts

\* A turn takes its row back.
LEMMA RowGoes ==
  ASSUME LineInv, NEW t \in Turns, Withdraw(t) \/ Release(t)
  PROVE  LineInv'
<1>1. SlotTypeOK'
  BY SlotAssumption DEF LineInv, SlotTypeOK, Withdraw, Release, NoRow, Trying
<1>2. /\ rows' = rows \ {t} /\ late' = late \ {t} /\ room' = room /\ clock' = clock
      /\ botOf' = botOf /\ pc'[t] \in {"waiting", "over"} /\ at'[t] = 0
      /\ \A u \in Turns \ {t} : pc'[u] = pc[u] /\ at'[u] = at[u]
  BY DEF LineInv, SlotTypeOK, Withdraw, Release, NoRow
<1>3. RowsAreOfTries'
  BY <1>2 DEF LineInv, RowsAreOfTries, Trying
<1>4. StampsDiffer'
  BY <1>2 DEF LineInv, SlotTypeOK, StampsDiffer
<1>5. \A u \in Turns \ {t} : Ahead(u)' \subseteq Ahead(u)
  BY <1>2 DEF Ahead, LineInv, SlotTypeOK
<1>6. RoomLasts'
  BY <1>2, <1>5, NobodyJoins
<1> QED BY <1>1, <1>3, <1>4, <1>6 DEF LineInv

LEMMA DieLine == ASSUME LineInv, NEW t \in Turns, Die(t) PROVE LineInv'
<1>1. SlotTypeOK'
  BY SlotAssumption DEF LineInv, SlotTypeOK, Die, Trying
<1>2. /\ rows' = rows /\ late' = late /\ room' = room /\ clock' = clock /\ at' = at
      /\ botOf' = botOf /\ pc'[t] = "dead" /\ \A u \in Turns \ {t} : pc'[u] = pc[u]
  BY DEF LineInv, SlotTypeOK, Die
<1>3. RowsAreOfTries' /\ StampsDiffer'
  BY <1>2 DEF LineInv, RowsAreOfTries, StampsDiffer, Trying
<1>4. RoomLasts'
  BY <1>2, NobodyJoins DEF Ahead
<1> QED BY <1>1, <1>3, <1>4 DEF LineInv

LEMMA TimeLine == ASSUME LineInv, Age \/ SweepSlots PROVE LineInv'
<1>1. SlotTypeOK'
  BY DEF LineInv, SlotTypeOK, Age, SweepSlots
<1>2. /\ rows' \subseteq rows /\ UNCHANGED <<late, room, clock, at, botOf, pc>>
  BY DEF Age, SweepSlots
<1>3. RowsAreOfTries' /\ StampsDiffer'
  BY <1>2 DEF LineInv, RowsAreOfTries, StampsDiffer
<1>4. RoomLasts'
  BY <1>2, NobodyJoins DEF Ahead
<1> QED BY <1>1, <1>3, <1>4 DEF LineInv

LEMMA LineNext == LineInv /\ [SlotNext]_slotVars => LineInv'
<1> SUFFICES ASSUME LineInv, [SlotNext]_slotVars PROVE LineInv'
  OBVIOUS
<1>1. CASE UNCHANGED slotVars
  BY <1>1 DEF slotVars, LineInv, SlotTypeOK, RowsAreOfTries, StampsDiffer, RoomLasts,
              BotHasRoom, InstanceHasRoom, Ahead, SameBot
<1> QED
  BY <1>1, StampLine, InsertLine, CountBotLine, CountAllLine, RowGoes, DieLine, TimeLine
     DEF SlotNext, TurnStep

\* Of some turns in line one has the latest stamp.
LEMMA LastInLine ==
  ASSUME LineInv, NEW S \in SUBSET InLine, S # {}
  PROVE  \E l \in S : S \subseteq Ahead(l) \cup {l}
<1> DEFINE N == {n \in Nat : \E t \in S : n = MaxStamps - at[t]}
<1>0. \A t \in S : t \in Turns /\ t \in rows \ late /\ at[t] \in 0 .. MaxStamps /\ MaxStamps \in Nat
  BY SlotAssumption DEF InLine, LineInv, SlotTypeOK
<1>1. N # {} /\ N \subseteq Nat
  <2>1. PICK t \in S : TRUE
    OBVIOUS
  <2>2. MaxStamps - at[t] \in Nat
    BY <1>0
  <2>3. MaxStamps - at[t] \in N
    BY <2>2
  <2> QED BY <2>3
<1>2. \E n \in N : \A m \in N : ~(<<m, n>> \in OpToRel(<, Nat))
  <2> HIDE DEF N
  <2> QED BY <1>1, NatLessThanWellFounded, WFMin, Zenon
<1>3. PICK n \in N : \A m \in N : ~(m < n)
  BY <1>1, <1>2 DEF OpToRel
<1>4. PICK l \in S : n = MaxStamps - at[l]
  OBVIOUS
<1>5. ASSUME NEW t \in S PROVE t \in Ahead(l) \cup {l}
  <2>1. MaxStamps - at[t] \in N
    BY <1>0
  <2>2. at[t] <= at[l]
    BY <1>0, <1>3, <1>4, <2>1
  <2>3. at[t] = at[l] => t = l
    BY <1>0 DEF LineInv, RowsAreOfTries, StampsDiffer
  <2> QED BY <1>0, <2>2, <2>3 DEF Ahead
<1> QED BY <1>5

LEMMA OneMoreTurn ==
  ASSUME NEW A \in SUBSET Turns, NEW l \in Turns, NEW n \in Nat, Cardinality(A) < n,
         NEW S, S \subseteq A \cup {l}
  PROVE  Cardinality(S) <= n
<1>1. IsFiniteSet(A) /\ Cardinality(A) \in Nat
  BY SlotAssumption, FS_Subset, FS_CardinalityType
<1>2. Cardinality(A \cup {l}) <= Cardinality(A) + 1
  BY <1>1, FS_AddElement
<1>3. Cardinality(S) <= Cardinality(A \cup {l}) /\ Cardinality(S) \in Nat /\ Cardinality(A \cup {l}) \in Nat
  BY FewerTurns
<1> QED BY <1>1, <1>2, <1>3

LEMMA LineIsShort == LineInv => LimitsHold
<1> SUFFICES ASSUME LineInv PROVE LimitsHold
  OBVIOUS
<1>0. /\ SlotTypeOK /\ InLine \subseteq Turns /\ Cardinality({}) = 0
      /\ InstanceMax \in Nat /\ \A b \in Bots : PerBot[b] \in Nat
  BY SlotAssumption, FS_EmptySet DEF LineInv, SlotTypeOK, InLine
<1>1. \A t \in InLine : t \in Turns /\ t \in rows /\ pc[t] = "running" /\ Ahead(t) \subseteq Turns
  BY DEF InLine, LineInv, SlotTypeOK, Ahead
<1>2. Cardinality(InLine) <= InstanceMax
  <2>1. CASE InLine = {}
    BY <1>0, <2>1
  <2>2. CASE InLine # {}
    <3>1. PICK l \in InLine : InLine \subseteq Ahead(l) \cup {l}
      BY <2>2, LastInLine
    <3>2. Cardinality(Ahead(l)) < InstanceMax
      BY <1>1 DEF LineInv, RoomLasts, InstanceHasRoom
    <3> QED BY <1>0, <1>1, <3>1, <3>2, OneMoreTurn
  <2> QED BY <2>1, <2>2
<1>3. ASSUME NEW b \in Bots PROVE Cardinality({t \in InLine : botOf[t] = b}) <= PerBot[b]
  <2> DEFINE S == {t \in InLine : botOf[t] = b}
  <2>1. CASE S = {}
    BY <1>0, <2>1
  <2>2. CASE S # {}
    <3>1. PICK l \in S : S \subseteq Ahead(l) \cup {l}
      BY <2>2, LastInLine
    <3>2. S \subseteq (Ahead(l) \cap SameBot(l)) \cup {l}
      BY <1>1, <3>1 DEF SameBot
    <3>3. Cardinality(Ahead(l) \cap SameBot(l)) < PerBot[b]
      BY <1>1 DEF LineInv, RoomLasts, BotHasRoom
    <3>4. Ahead(l) \cap SameBot(l) \subseteq Turns /\ l \in Turns
      BY <1>1
    <3>5. PerBot[b] \in Nat /\ Ahead(l) \cap SameBot(l) \in SUBSET Turns
      BY <1>0, <3>4
    <3> HIDE DEF S
    <3>6. Cardinality(S) <= PerBot[b]
      BY <3>2, <3>3, <3>4, <3>5, OneMoreTurn
    <3> QED BY <3>6 DEF S
  <2> QED BY <2>1, <2>2
<1> QED BY <1>2, <1>3 DEF LimitsHold

\* "Cross-replica concurrency limits": with any number of turns and bots and any
\* limits, however tries cross, no bot runs more turns in line than its limit and
\* the instance no more than its cap.
THEOREM LimitsAreKept == SlotSpec => []SlotsInv
<1>1. LineInv => SlotsInv
  BY LineIsShort DEF LineInv, SlotsInv
<1> QED BY <1>1, LineInit, LineNext, PTL DEF SlotSpec

\* A turn that is not in a set of turns makes it one larger.
LEMMA RoomForOne ==
  ASSUME NEW S \in SUBSET Turns, NEW t \in Turns \ S, NEW n \in Nat,
         Cardinality(S \cup {t}) <= n
  PROVE  Cardinality(S) < n
<1>1. IsFiniteSet(S) /\ Cardinality(S) \in Nat
  BY SlotAssumption, FS_Subset, FS_CardinalityType
<1>2. Cardinality(S \cup {t}) = Cardinality(S) + 1
  BY <1>1, FS_AddElement
<1> QED BY <1>1, <1>2

LEMMA SameCount == ASSUME NEW S PROVE Semaphore!Cardinality(S) = Cardinality(S)
BY DEF Semaphore!Cardinality, Cardinality

\* The limits leave room for a turn that gets in line.
LEMMA TakesSlot ==
  ASSUME LineInv, LimitsHold', botOf' = botOf, NEW t \in Turns, t \notin InLine,
         InLine' = InLine \cup {t}
  PROVE  Semaphore!Take(t)
<1>1. /\ InLine \subseteq Turns /\ botOf[t] \in Bots
      /\ InstanceMax \in Nat /\ PerBot[botOf[t]] \in Nat
  BY SlotAssumption DEF LineInv, SlotTypeOK, InLine
<1>2. Cardinality(InLine) < InstanceMax
  BY <1>1, RoomForOne DEF LimitsHold
<1> DEFINE S == {u \in InLine : botOf[u] = botOf[t]}
<1>3. {u \in InLine' : botOf'[u] = botOf[t]} = S \cup {t}
  OBVIOUS
<1>4. Cardinality(S \cup {t}) <= PerBot[botOf[t]]
  BY <1>1, <1>3 DEF LimitsHold
<1>5. S \in SUBSET Turns /\ t \notin S
  BY <1>1
<1>6. Cardinality(S) < PerBot[botOf[t]]
  <2> HIDE DEF S
  <2> QED BY <1>1, <1>4, <1>5, RoomForOne
<1> QED BY <1>2, <1>6, SameCount DEF Semaphore!Take

\* Every step takes a slot, frees some, or leaves them alone.
LEMMA SemaphoreStep ==
  LineInv /\ LineInv' /\ [SlotNext]_slotVars => [Semaphore!Next]_(Semaphore!vars)
<1> SUFFICES ASSUME LineInv, LineInv', [SlotNext]_slotVars
             PROVE  [Semaphore!Next]_(Semaphore!vars)
  OBVIOUS
<1>l. LimitsHold'
  BY LineIsShort, PTL
<1>1. ASSUME botOf' = botOf, InLine' \subseteq InLine
      PROVE  [Semaphore!Next]_(Semaphore!vars)
  <2>1. Semaphore!Free(InLine \ InLine')
    BY <1>1 DEF Semaphore!Free
  <2>2. InLine \ InLine' \in SUBSET InLine
    OBVIOUS
  <2> QED BY <2>1, <2>2 DEF Semaphore!Next
<1>2. ASSUME NEW t \in Turns, CountAll(t)
      PROVE  [Semaphore!Next]_(Semaphore!vars)
  <2>1. /\ UNCHANGED <<botOf, rows, late>> /\ pc[t] = "counted"
        /\ pc'[t] \in {"running", "withdrawing"} /\ \A u \in Turns \ {t} : pc'[u] = pc[u]
    BY <1>2 DEF CountAll, LineInv, SlotTypeOK
  <2>2. t \notin InLine /\ rows \subseteq Turns
    BY <2>1 DEF InLine, LineInv, SlotTypeOK
  <2>3. CASE t \in InLine'
    <3>1. InLine' = InLine \cup {t}
      BY <2>1, <2>2, <2>3 DEF InLine
    <3>2. Semaphore!Take(t)
      BY <1>l, <2>1, <2>2, <3>1, TakesSlot
    <3> QED BY <3>2 DEF Semaphore!Next
  <2>4. CASE t \notin InLine'
    <3>1. InLine' \subseteq InLine
      BY <2>1, <2>2, <2>4 DEF InLine
    <3> QED BY <1>1, <2>1, <3>1
  <2> QED BY <2>3, <2>4
<1>3. ASSUME NEW t \in Turns,
             Stamp(t) \/ Insert(t) \/ CountBot(t) \/ Withdraw(t) \/ Release(t) \/ Die(t)
      PROVE  botOf' = botOf /\ InLine' \subseteq InLine
  <2>1. /\ botOf' = botOf /\ rows' \subseteq rows \cup {t} /\ late \ {t} \subseteq late'
        /\ pc'[t] # "running" /\ \A u \in Turns \ {t} : pc'[u] = pc[u]
    BY <1>3 DEF Stamp, Insert, CountBot, Withdraw, Release, Die, NoRow, LineInv, SlotTypeOK
  <2> QED BY <2>1 DEF InLine, LineInv, SlotTypeOK
<1>4. CASE Age \/ SweepSlots \/ UNCHANGED slotVars
  <2>1. botOf' = botOf /\ rows' \subseteq rows /\ late' = late /\ pc' = pc
    BY <1>4 DEF Age, SweepSlots, slotVars
  <2> QED BY <1>1, <2>1 DEF InLine
<1> QED BY <1>1, <1>2, <1>3, <1>4 DEF SlotNext, TurnStep

\* The tries of turns, with their stamps, two counts and withdrawals, are a counting
\* semaphore for the turns in line, for any number of turns and bots and any limits.
THEOREM SemaphoreImplemented == SlotSpec => SemaphoreSpec
<1>1. SlotInit => Semaphore!Init
  BY DEF SlotInit, Semaphore!Init, InLine
<1> QED
  BY <1>1, LineInit, LineNext, SemaphoreStep, PTL DEF SlotSpec, SemaphoreSpec, Semaphore!Spec

=============================================================================
