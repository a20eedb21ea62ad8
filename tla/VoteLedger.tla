---------------------------- MODULE VoteLedger ----------------------------
(***************************************************************************)
(* The vote authority: the SQLite tables of the community backend and the  *)
(* service operations that change them.  One backend process serves HTTP   *)
(* requests and the snapshot timer; operator commands are other processes  *)
(* that open the same database.  Every SQL transaction is one step, and    *)
(* everything a handler does between two transactions (the business date   *)
(* it captured, the case it read, the totals it is about to publish) is    *)
(* kept in proc, so that another process may run in between.               *)
(*                                                                         *)
(* Tables that an operation touches and that are not here: the title queue *)
(* and the week and month archives (both filled by the day roll-over), the *)
(* admission tickets, and the one row of the broadcast.                    *)
(***************************************************************************)
EXTENDS Integers, FiniteSets, FiniteSetsExt

CONSTANTS
  Installation,    \* installation ids that have reached the backend
  Request,         \* request ids a client may put on a vote
  Device,          \* Device[i]: the fingerprint i registered, or NoDevice
  NoDevice,
  NoOne,           \* no installation: the grant of a device has not been made
  Server,          \* the HTTP process
  Operator,        \* operator command-line processes
  Reporter,        \* those that may run a command which begins with ensureActiveCase
  LastDay,         \* bound: business dates are 1 .. LastDay
  MaxPublish,      \* bound: operator publications in a behaviour
  MaxWipe,         \* bound: operator wipes (case reset, archive clear)
  MaxCount,        \* VOTE_COUNT_MAX: sticks one request may ask for
  TokenPerIncense,
  StarterIncense,  \* sticks given to a device on its first contact of a day
  AbsurdClaim,     \* ceiling on the growth of one claim; 0 is no ceiling
  ClaimTokens      \* totals a host may claim

ASSUME BoundsAssumption ==
  /\ LastDay \in Nat \ {0} /\ MaxPublish \in Nat /\ MaxWipe \in Nat
  /\ MaxCount \in Nat \ {0}
ASSUME PolicyAssumption ==
  /\ TokenPerIncense \in Nat \ {0}
  /\ StarterIncense \in Nat
  /\ AbsurdClaim \in Nat
  /\ ClaimTokens \subseteq Nat
ASSUME ActorAssumption ==
  /\ NoOne \notin Installation
  /\ Server \notin Operator
  /\ Reporter \subseteq Operator
  /\ DOMAIN Device = Installation

VARIABLES
  clock,       \* today, on the backend's clock
  caseStatus,  \* daily_liang_case
  published,   \* operator publications so far: names the next published case
  wipes,       \* operator wipes so far
  claimed,     \* daily_incense_state.claimed_effective_tokens
  used,        \* daily_incense_state.used_incense
  starter,     \* daily_incense_state.starter_tokens
  grant,       \* starter_incense_grant
  votes,       \* liang_vote
  receipts,    \* liang_vote_request
  stats,       \* daily_liang_stats
  snapshot,    \* newest row of public_liang_snapshot
  archive,     \* liang_day_archive
  proc         \* handlers in progress, and the server's in-memory flag

balances == <<claimed, used, starter, grant>>
ballots  == <<votes, receipts>>
tallies  == <<stats, snapshot>>
bounds   == <<clock, published, wipes>>
vars == <<bounds, caseStatus, balances, ballots, tallies, archive, proc>>
-----------------------------------------------------------------------------
Day         == 1 .. LastDay
CaseId      == Day \X (0 .. MaxPublish)
UnknownCase == <<0, 0>>
NoDay       == 0
Process     == {Server} \cup Operator
Fingerprint == {Device[i] : i \in Installation} \ {NoDevice}
Direction   == {"up", "down"}
Reason      == {"stale_case", "case_not_active", "insufficient_incense"}

\* `case-<date>` is <<date, 0>>; the n-th published case has a fresh random id.
CaseDate(c) == c[1]

Tally    == [up : Nat, down : Nat, voters : Nat]
Snapshot == [seq : Nat, up : Nat, down : Nat, voters : Nat]
Zero     == [up |-> 0, down |-> 0, voters |-> 0]
NoRow    == [seq |-> 0, up |-> 0, down |-> 0, voters |-> 0]
FirstRow == [NoRow EXCEPT !.seq = 1]
NoTally  == [seq |-> 0]
RowOf(n, t) == [seq |-> n, up |-> t.up, down |-> t.down, voters |-> t.voters]

Vote    == [inst : Installation, req : Request, case : CaseId, date : Day,
            dir : Direction, count : 1 .. MaxCount, spent : 1 .. MaxCount]
Receipt == [inst : Installation, req : Request,
            case : CaseId \cup {UnknownCase}, date : Day, dir : Direction,
            count : 1 .. MaxCount, status : {"accepted"} \cup Reason]

VoteOp  == [kind : {"vote"}, inst : Installation, req : Request,
            case : CaseId \cup {UnknownCase}, dir : Direction,
            count : 1 .. MaxCount, room : 1 .. MaxCount]
ClaimOp == [kind : {"claim"}, inst : Installation, date : Day,
            tokens : ClaimTokens]
BootOp  == [kind : {"bootstrap"}, inst : Installation]
BareOp  == [kind : {"none", "snapshot", "publish", "reset", "clear"}]
Op      == VoteOp \cup ClaimOp \cup BootOp \cup BareOp

Handler == [pc : {"idle", "ensure", "txn", "stats", "latest", "write"},
            op : Op, day : Day \cup {NoDay}, checked : Day \cup {NoDay},
            held : CaseId \cup {UnknownCase}, seen : Snapshot]
Idle    == [pc |-> "idle", op |-> [kind |-> "none"], day |-> NoDay,
            checked |-> NoDay, held |-> UnknownCase, seen |-> NoRow]

\* A handler that returns drops its locals.  The server keeps the date it has
\* finalised in memory; a command's process ends.
Done(p) == [Idle EXCEPT !.checked = IF p = Server THEN proc[p].checked ELSE NoDay]
Finish(p) == proc' = [proc EXCEPT ![p] = Done(p)]
At(p, pc, kinds) == proc[p].pc = pc /\ proc[p].op.kind \in kinds

ActiveOn(d)   == {c \in CaseId : CaseDate(c) = d /\ caseStatus[c] = "active"}
CasesOn(d)    == {c \in CaseId : CaseDate(c) = d /\ caseStatus[c] # "none"}
Opened        == {c \in CaseId : caseStatus[c] # "none"}
HasVoteRow(i, r) == \E v \in votes : v.inst = i /\ v.req = r  \* fault, for HasReceipt
HasReceipt(i, r) == \E x \in receipts : x.inst = i /\ x.req = r
HasVoted(i, c)   == \E v \in votes : v.inst = i /\ v.case = c
VotersOn(d)      == {i \in Installation : \E v \in votes : v.inst = i /\ v.date = d}
-----------------------------------------------------------------------------
Init ==
  /\ clock = 1 /\ published = 0 /\ wipes = 0
  /\ caseStatus = [c \in CaseId |-> "none"]
  /\ claimed = [i \in Installation |-> [d \in Day |-> 0]]
  /\ used    = [i \in Installation |-> [d \in Day |-> 0]]
  /\ starter = [i \in Installation |-> [d \in Day |-> 0]]
  /\ grant   = [f \in Fingerprint |-> [d \in Day |-> NoOne]]
  /\ votes = {} /\ receipts = {}
  /\ stats    = [c \in CaseId |-> Zero]
  /\ snapshot = [c \in CaseId |-> NoRow]
  /\ archive  = [d \in Day |-> NoTally]
  /\ proc = [p \in Process |-> Idle]

Midnight ==
  /\ clock < LastDay
  /\ clock' = clock + 1
  /\ UNCHANGED <<published, wipes, caseStatus, balances, ballots, tallies,
                 archive, proc>>
-----------------------------------------------------------------------------
(* A call starts by capturing the clock.  The work units a vote may spend   *)
(* come from the rate limiter, which a known request id bypasses.           *)

Begin(p, pc, op) ==
  /\ proc[p].pc = "idle"
  /\ proc' = [proc EXCEPT ![p] = [@ EXCEPT !.pc = pc, !.op = op, !.day = clock]]
  /\ UNCHANGED <<bounds, caseStatus, balances, ballots, tallies, archive>>

BeginVote ==
  \E i \in Installation, r \in Request, c \in Opened \cup {UnknownCase},
     dir \in Direction, n, room \in 1 .. MaxCount :
    /\ HasReceipt(i, r) => room = MaxCount
    /\ Begin(Server, "ensure", [kind |-> "vote", inst |-> i, req |-> r,
                                case |-> c, dir |-> dir, count |-> n, room |-> room])

BeginClaim ==
  \E i \in Installation, d \in Day, n \in ClaimTokens :
    Begin(Server, "ensure", [kind |-> "claim", inst |-> i, date |-> d, tokens |-> n])

BeginBootstrap ==
  \E i \in Installation : Begin(Server, "ensure", [kind |-> "bootstrap", inst |-> i])

BeginSnapshot(p) == Begin(p, "ensure", [kind |-> "snapshot"])

BeginCommand(p) ==
  \E k \in {"publish", "reset", "clear"} :
    /\ IF k = "publish" THEN published < MaxPublish ELSE wipes < MaxWipe
    /\ Begin(p, "txn", [kind |-> k])
-----------------------------------------------------------------------------
(* ensureActiveCase: the day roll-over.                                     *)

\* fault: the handler forgets the case it ensured
ProceedBlind(p, c, checked) ==
  proc' = [proc EXCEPT ![p] =
    [@ EXCEPT !.pc = IF proc[p].op.kind = "snapshot" THEN "stats" ELSE "txn",
              !.checked = checked]]

Proceed(p, c, checked) ==
  proc' = [proc EXCEPT ![p] =
    [@ EXCEPT !.pc = IF proc[p].op.kind = "snapshot" THEN "stats" ELSE "txn",
              !.held = c, !.checked = checked]]

FindActiveCase(p) ==
  /\ proc[p].pc = "ensure"
  /\ proc[p].checked = proc[p].day
  /\ \E c \in ActiveOn(proc[p].day) : Proceed(p, c, proc[p].checked)
  /\ UNCHANGED <<bounds, caseStatus, balances, ballots, tallies, archive>>

NeedsRollOver(p) ==
  /\ proc[p].pc = "ensure"
  /\ ~ (proc[p].checked = proc[p].day /\ ActiveOn(proc[p].day) # {})

DayTotal(d) ==
  [seq    |-> 1,
   up     |-> SumFunctionOnSet([c \in CasesOn(d) |-> stats[c].up], CasesOn(d)),
   down   |-> SumFunctionOnSet([c \in CasesOn(d) |-> stats[c].down], CasesOn(d)),
   voters |-> Cardinality(VotersOn(d))]

\* fault: the running day is frozen too
FinalizedEarly(today) ==
  [d \in Day |-> IF d <= today /\ archive[d] = NoTally /\ CasesOn(d) # {}
                 THEN DayTotal(d) ELSE archive[d]]

Finalized(today) ==
  [d \in Day |-> IF d < today /\ archive[d] = NoTally /\ CasesOn(d) # {}
                 THEN DayTotal(d) ELSE archive[d]]

EarlierActive(d) == {c \in CaseId : CaseDate(c) < d /\ caseStatus[c] = "active"}

\* Statuses after c is opened, or found open, and the cases in closing are closed.
Opening(c, closing) ==
  [x \in CaseId |-> IF x = c THEN "active"
                    ELSE IF x \in closing THEN "closed" ELSE caseStatus[x]]

\* Closes earlier cases, freezes ended days, and opens `case-<date>` unless a
\* case is active already.
RollOver(p) ==
  LET d == proc[p].day
      fresh == ActiveOn(d) = {}
  IN /\ NeedsRollOver(p)
     /\ fresh => caseStatus[<<d, 0>>] = "none"
     /\ \E c \in IF fresh THEN {<<d, 0>>} ELSE ActiveOn(d) :
          /\ caseStatus' = Opening(c, EarlierActive(d))
          /\ snapshot' = IF fresh THEN [snapshot EXCEPT ![c] = FirstRow] ELSE snapshot
          /\ Proceed(p, c, d)
     /\ archive' = Finalized(d)
     /\ UNCHANGED <<bounds, balances, ballots, stats>>

\* The id `case-<date>` is taken by a closed case: the insert fails, the
\* transaction rolls back and the call ends in an error.
RollOverFails(p) ==
  /\ NeedsRollOver(p)
  /\ ActiveOn(proc[p].day) = {}
  /\ caseStatus[<<proc[p].day, 0>>] # "none"
  /\ Finish(p)
  /\ UNCHANGED <<bounds, caseStatus, balances, ballots, tallies, archive>>
-----------------------------------------------------------------------------
(* ensureRow and the ledger: a device's gift, the claim ratchet.            *)

Gift(i, d) ==
  IF /\ Device[i] # NoDevice
     /\ grant[Device[i]][d] = NoOne
  THEN StarterIncense * TokenPerIncense
  ELSE 0

EnsureRow(i, d) ==
  /\ starter' = [starter EXCEPT ![i][d] = @ + Gift(i, d)]
  /\ grant' = IF Gift(i, d) > 0 THEN [grant EXCEPT ![Device[i]][d] = i] ELSE grant

Bootstrap(p) ==
  LET i == proc[p].op.inst
      d == proc[p].day
  IN /\ At(p, "txn", {"bootstrap"})
     /\ EnsureRow(i, d)
     /\ claimed' = [claimed EXCEPT ![i][d] = @ + Gift(i, d)]
     /\ proc' = [proc EXCEPT ![p].pc = "stats"]
     /\ UNCHANGED <<bounds, caseStatus, used, ballots, tallies, archive>>

RatchetReplaced(have, requested) == requested  \* fault: the claim overwrites

\* A smaller total never lowers the ledger; a jump is cut at the ceiling.
Ratchet(have, requested) ==
  IF requested <= have THEN have
  ELSE IF AbsurdClaim > 0 /\ requested - have > AbsurdClaim THEN have + AbsurdClaim
  ELSE requested

TokenClaim(p) ==
  LET i == proc[p].op.inst
      d == proc[p].day
  IN /\ At(p, "txn", {"claim"})
     /\ proc[p].op.date = d
     /\ EnsureRow(i, d)
     /\ claimed' = [claimed EXCEPT
          ![i][d] = Ratchet(@ + Gift(i, d), proc[p].op.tokens)]
     /\ Finish(p)
     /\ UNCHANGED <<bounds, caseStatus, used, ballots, tallies, archive>>

IgnoreClaim(p) ==
  /\ At(p, "txn", {"claim"})
  /\ proc[p].op.date # proc[p].day
  /\ Finish(p)
  /\ UNCHANGED <<bounds, caseStatus, balances, ballots, tallies, archive>>
-----------------------------------------------------------------------------
(* The vote transaction.                                                    *)

\* fault: a retry with another intent is recorded over the outcome
ReplayOverwrites(p) ==
  LET op == proc[p].op
      conflict(x) == x.inst = op.inst /\ x.req = op.req /\ x.dir # op.dir
  IN /\ At(p, "txn", {"vote"})
     /\ HasReceipt(op.inst, op.req)
     /\ receipts' = {IF conflict(x) THEN [x EXCEPT !.status = "idempotency_conflict"] ELSE x :
                      x \in receipts}
     /\ Finish(p)
     /\ UNCHANGED <<bounds, caseStatus, balances, votes, tallies, archive>>

\* Same request id: the stored outcome (or a conflict) is reported, nothing
\* is written.
ReplayVote(p) ==
  /\ At(p, "txn", {"vote"})
  /\ HasReceipt(proc[p].op.inst, proc[p].op.req)
  /\ Finish(p)
  /\ UNCHANGED <<bounds, caseStatus, balances, ballots, tallies, archive>>

Remaining(i, d) == (claimed[i][d] + Gift(i, d)) \div TokenPerIncense - used[i][d]

Least(a, b) == IF a <= b THEN a ELSE b

VoteSpend(op, d) == Least(op.count, Least(Remaining(op.inst, d), op.room))

\* The clamp to the remaining sticks, then the guard of the UPDATE itself.
CanSpend(op, d) ==
  LET n == VoteSpend(op, d)
  IN /\ n >= 1
     /\ (used[op.inst][d] + n) * TokenPerIncense <= claimed[op.inst][d] + Gift(op.inst, d)

TargetActive(p) ==
  LET c == proc[p].op.case
  IN c \in CaseId /\ caseStatus[c] = "active" /\ c = proc[p].held

\* fault: only rejections leave a receipt
ReceiveRejections(p, status) ==
  receipts' = IF status = "accepted" THEN receipts ELSE receipts \cup
    {[inst |-> proc[p].op.inst, req |-> proc[p].op.req, case |-> proc[p].op.case,
      date |-> proc[p].day, dir |-> proc[p].op.dir, count |-> proc[p].op.count,
      status |-> status]}

Receive(p, status) ==
  receipts' = receipts \cup
    {[inst |-> proc[p].op.inst, req |-> proc[p].op.req, case |-> proc[p].op.case,
      date |-> proc[p].day, dir |-> proc[p].op.dir, count |-> proc[p].op.count,
      status |-> status]}

RejectTarget(p) ==
  LET c == proc[p].op.case
  IN /\ At(p, "txn", {"vote"})
     /\ ~ HasReceipt(proc[p].op.inst, proc[p].op.req)
     /\ ~ TargetActive(p)
     /\ Receive(p, IF c \in CaseId /\ caseStatus[c] = "closed"
                   THEN "case_not_active" ELSE "stale_case")
     /\ Finish(p)
     /\ UNCHANGED <<bounds, caseStatus, balances, votes, tallies, archive>>

RejectPoor(p) ==
  LET op == proc[p].op
      d  == proc[p].day
  IN /\ At(p, "txn", {"vote"})
     /\ ~ HasReceipt(op.inst, op.req)
     /\ TargetActive(p)
     /\ ~ CanSpend(op, d)
     /\ EnsureRow(op.inst, d)
     /\ claimed' = [claimed EXCEPT ![op.inst][d] = @ + Gift(op.inst, d)]
     /\ Receive(p, "insufficient_incense")
     /\ Finish(p)
     /\ UNCHANGED <<bounds, caseStatus, used, votes, tallies, archive>>

Counted(t, dir, n, first) ==
  [up     |-> t.up + (IF dir = "up" THEN n ELSE 0),
   down   |-> t.down + (IF dir = "down" THEN n ELSE 0),
   voters |-> t.voters + (IF first THEN 1 ELSE 0)]

AcceptVote(p) ==
  LET op == proc[p].op
      d  == proc[p].day
      n  == VoteSpend(op, d)
      t  == Counted(stats[op.case], op.dir, n, ~ HasVoted(op.inst, op.case))
  IN /\ At(p, "txn", {"vote"})
     /\ ~ HasReceipt(op.inst, op.req)
     /\ TargetActive(p)
     /\ CanSpend(op, d)
     /\ EnsureRow(op.inst, d)
     /\ claimed' = [claimed EXCEPT ![op.inst][d] = @ + Gift(op.inst, d)]
     /\ used' = [used EXCEPT ![op.inst][d] = @ + n]
     /\ votes' = votes \cup
          {[inst |-> op.inst, req |-> op.req, case |-> op.case, date |-> d,
            dir |-> op.dir, count |-> op.count, spent |-> n]}
     /\ Receive(p, "accepted")
     /\ stats' = [stats EXCEPT ![op.case] = t]
     /\ snapshot' = [snapshot EXCEPT ![op.case] = RowOf(@.seq + 1, t)]
     /\ Finish(p)
     /\ UNCHANGED <<bounds, caseStatus, archive>>
-----------------------------------------------------------------------------
(* publishedSnapshot outside a vote: two reads, then a transaction.         *)

ReadStats(p) ==
  /\ proc[p].pc = "stats"
  /\ proc' = [proc EXCEPT ![p] =
       [@ EXCEPT !.pc = "latest", !.seen = RowOf(0, stats[proc[p].held])]]
  /\ UNCHANGED <<bounds, caseStatus, balances, ballots, tallies, archive>>

\* fault: published only when votes were added, not when they were wiped
PublishDueOnGrowth(latest, t, elapsed) ==
  \/ latest.seq = 0
  \/ t.up + t.down > latest.up + latest.down /\ elapsed

PublishDue(latest, t, elapsed) ==
  \/ latest.seq = 0
  \/ RowOf(latest.seq, t) # latest /\ elapsed

ReadLatest(p, elapsed) ==
  LET latest == snapshot[proc[p].held]
  IN /\ proc[p].pc = "latest"
     /\ IF PublishDue(latest, proc[p].seen, elapsed)
        THEN proc' = [proc EXCEPT ![p] =
               [@ EXCEPT !.pc = "write", !.seen = RowOf(latest.seq + 1, proc[p].seen)]]
        ELSE Finish(p)
     /\ UNCHANGED <<bounds, caseStatus, balances, ballots, tallies, archive>>

\* The insert is refused when another publisher has taken the sequence, or
\* when the case is gone.
PublishSnapshot(p) ==
  LET c == proc[p].held
  IN /\ proc[p].pc = "write"
     /\ snapshot' = IF caseStatus[c] # "none" /\ snapshot[c].seq < proc[p].seen.seq
                    THEN [snapshot EXCEPT ![c] = proc[p].seen] ELSE snapshot
     /\ Finish(p)
     /\ UNCHANGED <<bounds, caseStatus, balances, ballots, stats, archive>>
-----------------------------------------------------------------------------
(* Operator commands: one transaction each, at the date the command         *)
(* captured when it started.                                                *)

ForgivenNothing(d) == used  \* fault: charges survive
Forgiven(d) == [i \in Installation |-> [used[i] EXCEPT ![d] = 0]]

\* The cases a publication closes: those of earlier dates, then today's.
Outgoing(d) == EarlierActive(d) \cup ActiveOn(d)

\* The raw aggregates without those of some cases.
WithoutStatsKept(S) == stats  \* fault: the aggregate outlives its votes
WithoutStats(S) == [c \in CaseId |-> IF c \in S THEN Zero ELSE stats[c]]

PublishCase(p) ==
  LET d == proc[p].day
      c == <<d, published + 1>>
  IN /\ At(p, "txn", {"publish"})
     /\ published < MaxPublish
     /\ published' = published + 1
     /\ caseStatus' = Opening(c, Outgoing(d))
     /\ used' = Forgiven(d)
     /\ snapshot' = [snapshot EXCEPT ![c] = FirstRow]
     /\ Finish(p)
     /\ UNCHANGED <<clock, wipes, claimed, starter, grant, ballots, stats, archive>>

ResetToday(p) ==
  LET d == proc[p].day
  IN /\ At(p, "txn", {"reset"})
     /\ wipes < MaxWipe
     /\ ActiveOn(d) # {}
     /\ wipes' = wipes + 1
     /\ votes' = {v \in votes : v.date # d}
     /\ receipts' = {x \in receipts : x.date # d}
     /\ stats' = WithoutStats({c \in CaseId : CaseDate(c) = d})
     /\ snapshot' = [c \in CaseId |->
          IF c \in ActiveOn(d) THEN FirstRow
          ELSE IF CaseDate(c) = d THEN NoRow ELSE snapshot[c]]
     /\ caseStatus' = [c \in CaseId |->
          IF CaseDate(c) = d /\ caseStatus[c] = "closed" THEN "none" ELSE caseStatus[c]]
     /\ used' = Forgiven(d)
     /\ Finish(p)
     /\ UNCHANGED <<clock, published, claimed, starter, grant, archive>>

ClearHistory(p) ==
  LET d == proc[p].day
  IN /\ At(p, "txn", {"clear"})
     /\ wipes < MaxWipe
     /\ wipes' = wipes + 1
     /\ votes' = {v \in votes : v.date >= d}
     /\ receipts' = {x \in receipts : x.date >= d}
     /\ stats' = WithoutStats({c \in CaseId : CaseDate(c) < d})
     /\ snapshot' = [c \in CaseId |-> IF CaseDate(c) < d THEN NoRow ELSE snapshot[c]]
     /\ caseStatus' = [c \in CaseId |-> IF CaseDate(c) < d THEN "none" ELSE caseStatus[c]]
     /\ archive' = [x \in Day |-> NoTally]
     /\ Finish(p)
     /\ UNCHANGED <<clock, published, balances>>

\* A process dies between two transactions (or a command is refused): its
\* locals are gone, what it committed stays.
Crash(p) ==
  /\ proc[p] # Idle
  /\ proc' = [proc EXCEPT ![p] = Idle]
  /\ UNCHANGED <<bounds, caseStatus, balances, ballots, tallies, archive>>
-----------------------------------------------------------------------------
Call(p) ==
  \/ p \in {Server} \cup Reporter /\ BeginSnapshot(p)
  \/ p = Server /\ (BeginVote \/ BeginClaim \/ BeginBootstrap)
  \/ p \in Operator /\ BeginCommand(p)

EnsureActiveCase(p) == FindActiveCase(p) \/ RollOver(p) \/ RollOverFails(p)

CastVote(p) == ReplayVote(p) \/ RejectTarget(p) \/ RejectPoor(p) \/ AcceptVote(p)

Publish(p) ==
  \/ ReadStats(p)
  \/ \E elapsed \in BOOLEAN : ReadLatest(p, elapsed)
  \/ PublishSnapshot(p)

Command(p) == PublishCase(p) \/ ResetToday(p) \/ ClearHistory(p)

Step(p) ==
  \/ Call(p) \/ EnsureActiveCase(p) \/ Bootstrap(p)
  \/ TokenClaim(p) \/ IgnoreClaim(p) \/ CastVote(p)
  \/ Publish(p) \/ Command(p) \/ Crash(p)

Next == Midnight \/ \E p \in Process : Step(p)

Spec == Init /\ [][Next]_vars

\* What a handler does once it has started.
Progress(p) ==
  \/ EnsureActiveCase(p) \/ Bootstrap(p) \/ TokenClaim(p) \/ IgnoreClaim(p)
  \/ CastVote(p) \/ Publish(p)

\* The ledger seen as the promise: decisions are receipts, charged or not.
Accepted == {[inst |-> v.inst, req |-> v.req, day |-> v.date, spent |-> v.spent] : v \in votes}
Refused  == {<<x.inst, x.req>> : x \in {y \in receipts : y.status # "accepted"}}
Earned   == [i \in Installation |-> [d \in Day |-> claimed[i][d] \div TokenPerIncense]]

Promise == INSTANCE VotePromise
  WITH accepted <- Accepted, refused <- Refused, earned <- Earned, charged <- used

ImplementsPromise == Promise!PromiseSpec
-----------------------------------------------------------------------------
(* Properties.                                                              *)

\* A handler past its first step holds a date; past ensureActiveCase, a case;
\* only operator commands start with their transaction.
HandlerOK(h) ==
  /\ h.pc # "idle" => h.day \in Day
  /\ h.pc \in {"stats", "latest", "write"} => h.held \in CaseId
  /\ h.pc = "ensure" => h.op.kind \in {"vote", "claim", "bootstrap", "snapshot"}
  /\ h.pc = "txn" /\ h.op.kind \in {"vote", "claim", "bootstrap"} => h.held \in CaseId

TypeOK ==
  /\ clock \in Day /\ published \in 0 .. MaxPublish /\ wipes \in 0 .. MaxWipe
  /\ caseStatus \in [CaseId -> {"none", "active", "closed"}]
  /\ claimed \in [Installation -> [Day -> Nat]]
  /\ used \in [Installation -> [Day -> Nat]]
  /\ starter \in [Installation -> [Day -> Nat]]
  /\ grant \in [Fingerprint -> [Day -> Installation \cup {NoOne}]]
  /\ votes \subseteq Vote
  /\ receipts \subseteq Receipt
  /\ stats \in [CaseId -> Tally]
  /\ snapshot \in [CaseId -> Snapshot]
  /\ DOMAIN archive = Day
  /\ proc \in [Process -> Handler]
  /\ \A p \in Process : HandlerOK(proc[p])

\* A day's spending never exceeds the sticks the day's tokens pay for, whatever
\* interleaving of claims, votes, gifts and operator commands led there.
NoOverspend ==
  \A i \in Installation, d \in Day : used[i][d] * TokenPerIncense <= claimed[i][d]

\* At most one active case on a business date (the partial unique index never
\* has to refuse an insert).
OneActivePerDate ==
  \A d \in Day : \A c, e \in ActiveOn(d) : c = e

\* An installation and a request id have at most one receipt, and an accepted
\* receipt stands exactly where a vote row stands, for the same intent.
ReceiptsMatchVotes ==
  /\ \A x, y \in receipts : x.inst = y.inst /\ x.req = y.req => x = y
  /\ \A v, w \in votes : v.inst = w.inst /\ v.req = w.req => v = w
  /\ \A v \in votes : \E x \in receipts :
       /\ x.status = "accepted" /\ x.inst = v.inst /\ x.req = v.req
       /\ x.case = v.case /\ x.date = v.date /\ x.dir = v.dir /\ x.count = v.count
  /\ \A x \in receipts : x.status = "accepted" =>
       \E v \in votes : v.inst = x.inst /\ v.req = x.req

\* The sticks that a set of vote rows spent.
Sticks(rows) == SumFunctionOnSet([v \in rows |-> v.spent], rows)

\* What the vote rows of a case add up to.
TallyOf(c) ==
  [up     |-> Sticks({v \in votes : v.case = c /\ v.dir = "up"}),
   down   |-> Sticks({v \in votes : v.case = c /\ v.dir = "down"}),
   voters |-> Cardinality({i \in Installation : HasVoted(i, c)})]

\* A case's raw aggregate is what its vote rows add up to, and its voters are
\* the distinct installations among them.
StatsMatchVotes == \A c \in Opened : stats[c] = TallyOf(c)

Newest(d) == CHOOSE c \in CasesOn(d) : \A e \in CasesOn(d) : e[2] <= c[2]

\* Every stick counted for the newest case of a date was charged to the
\* installation that day, and today nothing else was: a republication forgives
\* exactly the votes on older cases, a retry charges nothing.
UsedMatchesVotes ==
  \A d \in Day : CasesOn(d) # {} =>
    \A i \in Installation :
      LET counted == Sticks({v \in votes : v.inst = i /\ v.case = Newest(d)})
      IN counted <= used[i][d] /\ (d = clock => counted = used[i][d])

\* A device is given its sticks once per date, whichever of its installations
\* asks and however often it is keyed anew.
OneGiftPerDevice ==
  \A i, j \in Installation, d \in Day :
    /\ starter[i][d] <= StarterIncense * TokenPerIncense
    /\ starter[i][d] > 0 /\ starter[j][d] > 0 /\ Device[i] = Device[j] => i = j

\* An ended day, once frozen in the archive, says what its cases say: no vote
\* or late roll-over of a process that started before midnight changes a day
\* behind its archive.  (An operator's wipe may: it deletes the cases, and a
\* call that still holds the old date then opens one of them anew.)
ArchiveMatchesDay ==
  wipes = 0 => \A d \in Day : archive[d] # NoTally => archive[d] = DayTotal(d)

\* A recorded outcome never changes: only an operator's wipe removes it.
OutcomeIsFinal ==
  [][ \/ receipts \subseteq receipts' /\ votes \subseteq votes'
      \/ \E p \in Operator : ResetToday(p) \/ ClearHistory(p) ]_vars

\* Again and again the published totals of every active case are those of its raw
\* aggregate, even when a publisher wrote totals that a reset had wiped.
SnapshotCatchesUp ==
  []<>(\A c \in CaseId :
         caseStatus[c] = "active" => RowOf(snapshot[c].seq, stats[c]) = snapshot[c])
=============================================================================
