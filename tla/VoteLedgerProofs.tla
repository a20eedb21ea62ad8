------------------------- MODULE VoteLedgerProofs -------------------------
(***************************************************************************)
(* Theorems about the vote ledger, for every number of installations,      *)
(* requests, days, devices and operator processes: its types and its       *)
(* safety, that it implements the promise, that its aggregates, charges    *)
(* and archives are the sums of its votes, and that its answers are read.  *)
(***************************************************************************)
EXTENDS VoteAnswers, SumTheorems

LEMMA Sorts ==
  /\ NoTally \notin Snapshot
  /\ \A c \in CaseId : CaseDate(c) \in Day
  /\ \A d \in Day, n \in 0 .. MaxPublish : <<d, n>> \in CaseId
  /\ Idle \in Handler /\ HandlerOK(Idle)
  /\ UnknownCase \notin CaseId
BY BoundsAssumption DEF NoTally, Snapshot, CaseId, CaseDate, Day, Idle, Handler,
   Op, BareOp, NoRow, NoDay, UnknownCase, HandlerOK

\* The type invariant holds at the start.
LEMMA TypeInit == Init => TypeOK
BY BoundsAssumption, Sorts DEF Init, TypeOK, CaseId, Day, Zero, NoRow, Tally, Snapshot,
  Process, HandlerOK, Idle, Fingerprint
-----------------------------------------------------------------------------
ProcOK == proc \in [Process -> Handler] /\ \A p \in Process : HandlerOK(proc[p])

\* A handler that returns, and one that captures the clock, stay well formed.
LEMMA FinishOK ==
  ASSUME TypeOK, NEW p \in Process, Finish(p)
  PROVE  ProcOK'
<1>1. PICK m \in Day \cup {NoDay} : Done(p) = [Idle EXCEPT !.checked = m]
  <2>1. proc[p].checked \in Day \cup {NoDay}
    BY DEF TypeOK, Handler
  <2> QED BY <2>1 DEF Done
<1>2. Done(p) = [pc |-> "idle", op |-> Idle.op, day |-> NoDay, checked |-> m,
                 held |-> UnknownCase, seen |-> NoRow]
  BY <1>1 DEF Idle
<1>3. Idle.op \in Op /\ NoRow \in Snapshot /\ Idle.op.kind = "none"
  BY DEF Idle, Op, BareOp, NoRow, Snapshot
<1>4. Done(p) \in Handler /\ HandlerOK(Done(p))
  BY <1>2, <1>3 DEF Handler, HandlerOK
<1> QED BY <1>4 DEF Finish, ProcOK, TypeOK

LEMMA BeginOK ==
  ASSUME TypeOK, NEW p \in Process, NEW pc, NEW op \in Op, Begin(p, pc, op),
         \/ pc = "ensure" /\ op.kind \in {"vote", "claim", "bootstrap", "snapshot"}
         \/ pc = "txn" /\ op.kind \in {"publish", "reset", "clear"}
  PROVE  ProcOK'
<1>1. proc[p] \in Handler
  BY DEF TypeOK
<1>2. proc'[p] = [pc |-> pc, op |-> op, day |-> clock, checked |-> proc[p].checked,
                  held |-> proc[p].held, seen |-> proc[p].seen]
  BY <1>1 DEF Begin, TypeOK, Handler
<1>3. proc'[p] \in Handler /\ HandlerOK(proc'[p])
  BY <1>1, <1>2 DEF Handler, HandlerOK, TypeOK
<1> QED BY <1>3 DEF Begin, ProcOK, TypeOK

LEMMA ProceedOK ==
  ASSUME TypeOK, NEW p \in Process, NEW c \in CaseId, NEW d \in Day,
         proc[p].pc = "ensure", Proceed(p, c, d)
  PROVE  ProcOK'
<1>1. proc[p] \in Handler /\ HandlerOK(proc[p])
  BY DEF TypeOK
<1>2. proc'[p] = [pc |-> IF proc[p].op.kind = "snapshot" THEN "stats" ELSE "txn",
                  op |-> proc[p].op, day |-> proc[p].day, checked |-> d,
                  held |-> c, seen |-> proc[p].seen]
  BY <1>1 DEF Proceed, TypeOK, Handler
<1>3. proc'[p] \in Handler /\ HandlerOK(proc'[p])
  BY <1>1, <1>2 DEF Handler, HandlerOK
<1> QED BY <1>3 DEF Proceed, ProcOK, TypeOK
-----------------------------------------------------------------------------
\* Everything but the handlers.
DataOK ==
  /\ clock \in Day /\ published \in 0 .. MaxPublish /\ wipes \in 0 .. MaxWipe
  /\ caseStatus \in [CaseId -> {"none", "active", "closed"}]
  /\ claimed \in [Installation -> [Day -> Nat]]
  /\ used \in [Installation -> [Day -> Nat]]
  /\ starter \in [Installation -> [Day -> Nat]]
  /\ grant \in [Fingerprint -> [Day -> Installation \cup {NoOne}]]
  /\ votes \subseteq Vote
  /\ receipts \subseteq Receipt
  /\ stats \in [CaseId -> Tally]
  /\ snapshot \in [CaseId -> Snapshot]
  /\ DOMAIN archive = Day

LEMMA Split == TypeOK <=> DataOK /\ ProcOK
BY DEF TypeOK, DataOK, ProcOK

LEMMA SplitNext == TypeOK' <=> DataOK' /\ ProcOK'
BY DEF TypeOK, DataOK, ProcOK

LEMMA StutterType ==
  ASSUME TypeOK, ProcOK',
         UNCHANGED <<bounds, caseStatus, balances, ballots, tallies, archive>>
  PROVE  TypeOK'
<1>1. DataOK'
  BY Split DEF DataOK, bounds, balances, ballots, tallies
<1> QED BY <1>1, SplitNext

\* What the handler of a vote, a claim or a bootstrap carries.
LEMMA OpOK ==
  ASSUME TypeOK, NEW p \in Process
  PROVE  /\ proc[p].op.kind = "vote" => proc[p].op \in VoteOp
         /\ proc[p].op.kind = "claim" => proc[p].op \in ClaimOp
         /\ proc[p].op.kind = "bootstrap" => proc[p].op \in BootOp
         /\ proc[p].pc # "idle" => proc[p].day \in Day
<1>1. proc[p] \in Handler /\ HandlerOK(proc[p])
  BY DEF TypeOK
<1>2. proc[p].op \in Op
  BY <1>1 DEF Handler
<1> QED BY <1>1, <1>2 DEF HandlerOK, Op, VoteOp, ClaimOp, BootOp, BareOp

LEMMA GiftType ==
  ASSUME TypeOK, NEW i \in Installation, NEW d \in Day
  PROVE  Gift(i, d) \in Nat
<1>1. StarterIncense * TokenPerIncense \in Nat
  BY PolicyAssumption
<1> QED BY <1>1 DEF Gift

LEMMA EnsureRowType ==
  ASSUME TypeOK, NEW i \in Installation, NEW d \in Day, EnsureRow(i, d)
  PROVE  /\ starter' \in [Installation -> [Day -> Nat]]
         /\ grant' \in [Fingerprint -> [Day -> Installation \cup {NoOne}]]
<1>1. Gift(i, d) \in Nat
  BY GiftType
<1>2. starter' \in [Installation -> [Day -> Nat]]
  BY <1>1 DEF EnsureRow, TypeOK
<1>3. CASE Gift(i, d) > 0
  <2>1. Device[i] \in Fingerprint
    BY <1>3, ActorAssumption DEF Gift, Fingerprint
  <2> QED BY <1>2, <1>3, <2>1 DEF EnsureRow, TypeOK
<1>4. CASE ~ (Gift(i, d) > 0)
  BY <1>2, <1>4 DEF EnsureRow, TypeOK
<1> QED BY <1>3, <1>4

LEMMA SpendType ==
  ASSUME TypeOK, NEW p \in Process, proc[p].op \in VoteOp, proc[p].day \in Day,
         CanSpend(proc[p].op, proc[p].day)
  PROVE  /\ VoteSpend(proc[p].op, proc[p].day) \in 1 .. MaxCount
         /\ VoteSpend(proc[p].op, proc[p].day) <= Remaining(proc[p].op.inst, proc[p].day)
<1> DEFINE op == proc[p].op
           d  == proc[p].day
<1>1. op.inst \in Installation /\ op.count \in 1 .. MaxCount /\ op.room \in 1 .. MaxCount
  BY DEF VoteOp
<1>2. Gift(op.inst, d) \in Nat /\ claimed[op.inst][d] \in Nat /\ used[op.inst][d] \in Nat
  BY <1>1, GiftType DEF TypeOK
<1>3. Remaining(op.inst, d) \in Int
  BY <1>2, PolicyAssumption DEF Remaining
<1>4. VoteSpend(op, d) >= 1
  BY DEF CanSpend
<1> QED BY <1>1, <1>3, <1>4, BoundsAssumption DEF VoteSpend, Least
-----------------------------------------------------------------------------
\* The type invariant is kept by the steps of a handler that write no table ...
LEMMA QuietStepType ==
  ASSUME TypeOK, NEW p \in Process,
         \/ FindActiveCase(p) \/ RollOverFails(p) \/ IgnoreClaim(p) \/ ReplayVote(p)
         \/ ReadStats(p) \/ (\E elapsed \in BOOLEAN : ReadLatest(p, elapsed)) \/ Crash(p)
  PROVE  TypeOK'
<1>1. proc[p] \in Handler /\ HandlerOK(proc[p])
  BY DEF TypeOK
<1>2. CASE FindActiveCase(p)
  <2>1. proc[p].checked \in Day
    BY <1>1, <1>2 DEF FindActiveCase, HandlerOK
  <2>2. PICK c \in ActiveOn(proc[p].day) : Proceed(p, c, proc[p].checked)
    BY <1>2 DEF FindActiveCase
  <2>3. c \in CaseId
    BY DEF ActiveOn
  <2> QED BY <1>2, <2>1, <2>2, <2>3, ProceedOK, StutterType DEF FindActiveCase
<1>3. CASE RollOverFails(p)
  BY <1>3, FinishOK, StutterType DEF RollOverFails
<1>4. CASE IgnoreClaim(p)
  BY <1>4, FinishOK, StutterType DEF IgnoreClaim
<1>5. CASE ReplayVote(p)
  BY <1>5, FinishOK, StutterType DEF ReplayVote
<1>6. CASE ReadStats(p)
  <2>1. RowOf(0, stats[proc[p].held]) \in Snapshot
    BY <1>1, <1>6 DEF ReadStats, HandlerOK, TypeOK, Tally, Snapshot, RowOf
  <2>2. proc'[p] = [pc |-> "latest", op |-> proc[p].op, day |-> proc[p].day,
                    checked |-> proc[p].checked, held |-> proc[p].held,
                    seen |-> RowOf(0, stats[proc[p].held])]
    BY <1>1, <1>6 DEF ReadStats, TypeOK, Handler
  <2>3. proc'[p] \in Handler /\ HandlerOK(proc'[p])
    BY <1>1, <1>6, <2>1, <2>2 DEF ReadStats, Handler, HandlerOK
  <2>4. ProcOK'
    BY <1>6, <2>3 DEF ReadStats, ProcOK, TypeOK
  <2> QED BY <1>6, <2>4, StutterType DEF ReadStats
<1>7. CASE \E elapsed \in BOOLEAN : ReadLatest(p, elapsed)
  <2>1. PICK elapsed \in BOOLEAN : ReadLatest(p, elapsed)
    BY <1>7
  <2> DEFINE n == snapshot[proc[p].held].seq + 1
  <2>2. n \in Nat
    BY <1>1, <2>1 DEF ReadLatest, HandlerOK, TypeOK, Snapshot
  <2>3. ProcOK'
    <3>1. CASE proc' = [proc EXCEPT ![p] =
                 [@ EXCEPT !.pc = "write", !.seen = RowOf(n, proc[p].seen)]]
      <4>1. proc'[p] = [pc |-> "write", op |-> proc[p].op, day |-> proc[p].day,
                        checked |-> proc[p].checked, held |-> proc[p].held,
                        seen |-> RowOf(n, proc[p].seen)]
        BY <1>1, <3>1 DEF TypeOK, Handler
      <4>2. RowOf(n, proc[p].seen) \in Snapshot
        BY <1>1, <2>2 DEF Handler, Snapshot, RowOf
      <4>3. proc'[p] \in Handler /\ HandlerOK(proc'[p])
        BY <1>1, <2>1, <4>1, <4>2 DEF ReadLatest, Handler, HandlerOK
      <4> QED BY <3>1, <4>3 DEF ProcOK, TypeOK
    <3>2. CASE Finish(p)
      BY <3>2, FinishOK
    <3> QED BY <2>1, <3>1, <3>2 DEF ReadLatest
  <2> QED BY <2>1, <2>3, StutterType DEF ReadLatest
<1>8. CASE Crash(p)
  <2>1. ProcOK'
    BY <1>8, Sorts DEF Crash, ProcOK, TypeOK
  <2> QED BY <1>8, <2>1, StutterType DEF Crash
<1> QED BY <1>2, <1>3, <1>4, <1>5, <1>6, <1>7, <1>8

\* ... by the steps of a handler that write one ...
LEMMA RollOverType ==
  ASSUME TypeOK, NEW p \in Process, RollOver(p)
  PROVE  TypeOK'
<1> DEFINE d == proc[p].day
           fresh == ActiveOn(d) = {}
<1>1. d \in Day /\ proc[p].pc = "ensure"
  BY OpOK DEF RollOver, NeedsRollOver
<1>2. PICK c \in (IF fresh THEN {<<d, 0>>} ELSE ActiveOn(d)) :
        /\ caseStatus' = Opening(c, EarlierActive(d))
        /\ snapshot' = IF fresh THEN [snapshot EXCEPT ![c] = FirstRow] ELSE snapshot
        /\ Proceed(p, c, d)
  BY DEF RollOver
<1>3. c \in CaseId
  BY <1>1, Sorts, BoundsAssumption DEF ActiveOn
<1>4. ProcOK'
  BY <1>1, <1>2, <1>3, ProceedOK
<1>5. caseStatus' \in [CaseId -> {"none", "active", "closed"}]
  BY <1>2, <1>3 DEF TypeOK, Opening
<1>6. snapshot' \in [CaseId -> Snapshot]
  BY <1>2, <1>3 DEF TypeOK, FirstRow, NoRow, Snapshot
<1>7. DOMAIN archive' = Day
  BY DEF RollOver, Finalized
<1>8. DataOK'
  BY <1>5, <1>6, <1>7 DEF RollOver, DataOK, TypeOK, bounds, balances, ballots
<1> QED BY <1>4, <1>8, SplitNext

LEMMA LedgerType ==
  ASSUME TypeOK, NEW p \in Process, Bootstrap(p) \/ TokenClaim(p)
  PROVE  TypeOK'
<1>1. proc[p] \in Handler /\ HandlerOK(proc[p]) /\ proc[p].pc = "txn" /\ proc[p].day \in Day
  BY OpOK DEF TypeOK, Bootstrap, TokenClaim, At
<1>2. CASE Bootstrap(p)
  <2> DEFINE i == proc[p].op.inst
             d == proc[p].day
  <2>1. i \in Installation /\ d \in Day /\ EnsureRow(i, d) /\ Gift(i, d) \in Nat
    BY <1>2, <1>1, OpOK, GiftType DEF Bootstrap, At, BootOp
  <2>2. claimed' \in [Installation -> [Day -> Nat]]
    BY <1>2, <2>1 DEF Bootstrap, TypeOK
  <2>3. proc'[p] \in Handler /\ HandlerOK(proc'[p])
    BY <1>1, <1>2 DEF Bootstrap, At, Handler, HandlerOK, TypeOK
  <2>4. ProcOK'
    BY <1>2, <2>3 DEF Bootstrap, ProcOK, TypeOK
  <2>5. DataOK'
    BY <1>2, <2>1, <2>2, EnsureRowType
      DEF Bootstrap, DataOK, TypeOK, bounds, ballots, tallies
  <2> QED BY <2>4, <2>5, SplitNext
<1>3. CASE TokenClaim(p)
  <2> DEFINE i == proc[p].op.inst
             d == proc[p].day
  <2>1. i \in Installation /\ d \in Day /\ EnsureRow(i, d) /\ Gift(i, d) \in Nat
    BY <1>3, <1>1, OpOK, GiftType DEF TokenClaim, At, ClaimOp
  <2>2. proc[p].op.tokens \in Nat
    BY <1>3, OpOK, PolicyAssumption DEF TokenClaim, At, ClaimOp
  <2>3. Ratchet(claimed[i][d] + Gift(i, d), proc[p].op.tokens) \in Nat
    BY <2>1, <2>2, PolicyAssumption DEF Ratchet, TypeOK
  <2>4. claimed' \in [Installation -> [Day -> Nat]]
    BY <1>3, <2>1, <2>3 DEF TokenClaim, TypeOK
  <2>5. DataOK'
    BY <1>3, <2>1, <2>4, EnsureRowType
      DEF TokenClaim, DataOK, TypeOK, bounds, ballots, tallies
  <2> QED BY <1>3, <2>5, FinishOK, SplitNext DEF TokenClaim
<1> QED BY <1>2, <1>3

LEMMA ReceiveType ==
  ASSUME TypeOK, NEW p \in Process, At(p, "txn", {"vote"}),
         NEW status \in {"accepted"} \cup Reason, Receive(p, status)
  PROVE  receipts' \subseteq Receipt
<1>1. proc[p].op \in VoteOp /\ proc[p].day \in Day
  BY OpOK DEF At
<1>2. [inst |-> proc[p].op.inst, req |-> proc[p].op.req, case |-> proc[p].op.case,
       date |-> proc[p].day, dir |-> proc[p].op.dir, count |-> proc[p].op.count,
       status |-> status] \in Receipt
  BY <1>1 DEF VoteOp, Receipt
<1> QED BY <1>2 DEF Receive, TypeOK

LEMMA VoteType ==
  ASSUME TypeOK, NEW p \in Process, RejectTarget(p) \/ RejectPoor(p) \/ AcceptVote(p)
  PROVE  TypeOK'
<1> DEFINE op == proc[p].op
           i  == op.inst
           d  == proc[p].day
           n  == VoteSpend(op, d)
<1>1. At(p, "txn", {"vote"})
  BY DEF RejectTarget, RejectPoor, AcceptVote
<1>2. op \in VoteOp /\ d \in Day
  BY <1>1, OpOK DEF At
<1>3. i \in Installation /\ Gift(i, d) \in Nat
  BY <1>2, GiftType DEF VoteOp
<1>4. CASE RejectTarget(p)
  <2>1. receipts' \subseteq Receipt
    BY <1>1, <1>4, ReceiveType DEF RejectTarget, Reason
  <2>2. DataOK'
    BY <1>4, <2>1 DEF RejectTarget, DataOK, TypeOK, bounds, balances, tallies
  <2> QED BY <1>4, <2>2, FinishOK, SplitNext DEF RejectTarget
<1>5. CASE RejectPoor(p)
  <2>1. receipts' \subseteq Receipt
    BY <1>1, <1>5, ReceiveType DEF RejectPoor, Reason
  <2>2. claimed' \in [Installation -> [Day -> Nat]]
    BY <1>2, <1>3, <1>5 DEF RejectPoor, TypeOK
  <2>3. EnsureRow(i, d)
    BY <1>5 DEF RejectPoor
  <2>4. DataOK'
    BY <1>2, <1>3, <1>5, <2>1, <2>2, <2>3, EnsureRowType
      DEF RejectPoor, DataOK, TypeOK, bounds, tallies
  <2> QED BY <1>5, <2>4, FinishOK, SplitNext DEF RejectPoor
<1>6. CASE AcceptVote(p)
  <2>1. n \in 1 .. MaxCount /\ op.case \in CaseId
    BY <1>2, <1>6, SpendType DEF AcceptVote, TargetActive
  <2>2. receipts' \subseteq Receipt
    BY <1>1, <1>6, ReceiveType DEF AcceptVote
  <2>3. claimed' \in [Installation -> [Day -> Nat]]
    BY <1>2, <1>3, <1>6 DEF AcceptVote, TypeOK
  <2>4. used' \in [Installation -> [Day -> Nat]]
    BY <1>2, <1>3, <1>6, <2>1 DEF AcceptVote, TypeOK
  <2>5. votes' \subseteq Vote
    <3>1. [inst |-> i, req |-> op.req, case |-> op.case, date |-> d,
           dir |-> op.dir, count |-> op.count, spent |-> n] \in Vote
      BY <1>2, <2>1 DEF VoteOp, Vote
    <3> QED BY <1>6, <3>1 DEF AcceptVote, TypeOK
  <2> DEFINE t == Counted(stats[op.case], op.dir, n, ~ HasVoted(i, op.case))
  <2>6. t \in Tally
    <3>1. stats[op.case] \in Tally
      BY <2>1 DEF TypeOK
    <3> HIDE DEF n
    <3> QED BY <2>1, <3>1, BoundsAssumption DEF Counted, Tally
  <2>7. stats' \in [CaseId -> Tally]
    <3>1. stats' = [stats EXCEPT ![op.case] = t]
      BY <1>6 DEF AcceptVote
    <3> HIDE DEF t
    <3> QED BY <2>1, <2>6, <3>1 DEF TypeOK
  <2>8. snapshot' \in [CaseId -> Snapshot]
    <3>1. snapshot' = [snapshot EXCEPT ![op.case] = RowOf(snapshot[op.case].seq + 1, t)]
      BY <1>6 DEF AcceptVote, TypeOK
    <3>2. snapshot[op.case].seq \in Nat
      BY <2>1 DEF TypeOK, Snapshot
    <3> HIDE DEF t
    <3>3. RowOf(snapshot[op.case].seq + 1, t) \in Snapshot
      BY <2>6, <3>2 DEF RowOf, Tally, Snapshot
    <3> QED BY <2>1, <3>1, <3>3 DEF TypeOK
  <2>9. EnsureRow(i, d)
    BY <1>6 DEF AcceptVote
  <2>10. DataOK'
    BY <1>2, <1>3, <1>6, <2>2, <2>3, <2>4, <2>5, <2>7, <2>8, <2>9, EnsureRowType
      DEF AcceptVote, DataOK, TypeOK, bounds
  <2> QED BY <1>6, <2>10, FinishOK, SplitNext DEF AcceptVote
<1> QED BY <1>4, <1>5, <1>6

LEMMA PublishSnapshotType ==
  ASSUME TypeOK, NEW p \in Process, PublishSnapshot(p)
  PROVE  TypeOK'
<1>1. proc[p] \in Handler /\ HandlerOK(proc[p])
  BY DEF TypeOK
<1>2. proc[p].held \in CaseId /\ proc[p].seen \in Snapshot
  BY <1>1 DEF PublishSnapshot, HandlerOK, Handler
<1>3. snapshot' \in [CaseId -> Snapshot]
  BY <1>2 DEF PublishSnapshot, TypeOK
<1>4. DataOK'
  BY <1>3 DEF PublishSnapshot, DataOK, TypeOK, bounds, balances, ballots
<1> QED BY <1>4, FinishOK, SplitNext DEF PublishSnapshot

\* ... by the operator's commands ...
LEMMA CommandType ==
  ASSUME TypeOK, NEW p \in Process, Command(p)
  PROVE  TypeOK'
<1>1. proc[p].pc = "txn" /\ proc[p].day \in Day
  BY OpOK DEF Command, PublishCase, ResetToday, ClearHistory, At
<1>2. Forgiven(proc[p].day) \in [Installation -> [Day -> Nat]]
  BY <1>1 DEF Forgiven, TypeOK
<1>3. FirstRow \in Snapshot /\ NoRow \in Snapshot /\ Zero \in Tally
  BY DEF FirstRow, NoRow, Snapshot, Zero, Tally
<1>4. CASE PublishCase(p)
  <2>1. published' \in 0 .. MaxPublish /\ <<proc[p].day, published + 1>> \in CaseId
    BY <1>1, <1>4, Sorts, BoundsAssumption DEF PublishCase, TypeOK
  <2>2. caseStatus' \in [CaseId -> {"none", "active", "closed"}]
    BY <1>4 DEF PublishCase, TypeOK, Opening
  <2>3. snapshot' \in [CaseId -> Snapshot]
    BY <1>3, <1>4, <2>1 DEF PublishCase, TypeOK
  <2>4. DataOK'
    BY <1>2, <1>4, <2>1, <2>2, <2>3 DEF PublishCase, DataOK, TypeOK, ballots
  <2> QED BY <1>4, <2>4, FinishOK, SplitNext DEF PublishCase
<1>5. CASE ResetToday(p)
  <2>1. wipes' \in 0 .. MaxWipe
    BY <1>5, BoundsAssumption DEF ResetToday, TypeOK
  <2>2. caseStatus' \in [CaseId -> {"none", "active", "closed"}]
    BY <1>5 DEF ResetToday, TypeOK
  <2>3. snapshot' \in [CaseId -> Snapshot] /\ stats' \in [CaseId -> Tally]
    BY <1>3, <1>5 DEF ResetToday, TypeOK, WithoutStats
  <2>4. DataOK'
    BY <1>2, <1>5, <2>1, <2>2, <2>3 DEF ResetToday, DataOK, TypeOK
  <2> QED BY <1>5, <2>4, FinishOK, SplitNext DEF ResetToday
<1>6. CASE ClearHistory(p)
  <2>1. wipes' \in 0 .. MaxWipe
    BY <1>6, BoundsAssumption DEF ClearHistory, TypeOK
  <2>2. caseStatus' \in [CaseId -> {"none", "active", "closed"}]
    BY <1>6 DEF ClearHistory, TypeOK
  <2>3. snapshot' \in [CaseId -> Snapshot] /\ stats' \in [CaseId -> Tally]
    BY <1>3, <1>6 DEF ClearHistory, TypeOK, WithoutStats
  <2>4. DataOK'
    BY <1>6, <2>1, <2>2, <2>3 DEF ClearHistory, DataOK, TypeOK, balances
  <2> QED BY <1>6, <2>4, FinishOK, SplitNext DEF ClearHistory
<1> QED BY <1>4, <1>5, <1>6 DEF Command

\* ... by a call that captures the clock ...
LEMMA CallType ==
  ASSUME TypeOK, NEW p \in Process, Call(p)
  PROVE  TypeOK'
<1>1. CASE BeginSnapshot(p)
  <2>1. [kind |-> "snapshot"] \in Op
    BY DEF Op, BareOp
  <2> QED BY <1>1, <2>1, BeginOK, StutterType DEF BeginSnapshot, Begin
<1>2. CASE p = Server /\ BeginVote
  <2>1. PICK i \in Installation, r \in Request, c \in Opened \cup {UnknownCase},
             dir \in Direction, n \in 1 .. MaxCount, room \in 1 .. MaxCount :
               Begin(p, "ensure", [kind |-> "vote", inst |-> i, req |-> r, case |-> c,
                                   dir |-> dir, count |-> n, room |-> room])
    BY <1>2 DEF BeginVote
  <2> DEFINE op == [kind |-> "vote", inst |-> i, req |-> r, case |-> c,
                    dir |-> dir, count |-> n, room |-> room]
  <2>2. op \in Op
    BY DEF Op, VoteOp, Opened
  <2>3. op.kind = "vote" /\ Begin(p, "ensure", op)
    BY <2>1
  <2> HIDE DEF op
  <2> QED BY <2>2, <2>3, BeginOK, StutterType DEF Begin
<1>3. CASE p = Server /\ BeginClaim
  <2>1. PICK i \in Installation, d \in Day, n \in ClaimTokens :
               Begin(p, "ensure", [kind |-> "claim", inst |-> i, date |-> d, tokens |-> n])
    BY <1>3 DEF BeginClaim
  <2> DEFINE op == [kind |-> "claim", inst |-> i, date |-> d, tokens |-> n]
  <2>2. op \in Op
    BY DEF Op, ClaimOp
  <2>3. op.kind = "claim" /\ Begin(p, "ensure", op)
    BY <2>1
  <2> HIDE DEF op
  <2> QED BY <2>2, <2>3, BeginOK, StutterType DEF Begin
<1>4. CASE p = Server /\ BeginBootstrap
  <2>1. PICK i \in Installation : Begin(p, "ensure", [kind |-> "bootstrap", inst |-> i])
    BY <1>4 DEF BeginBootstrap
  <2> DEFINE op == [kind |-> "bootstrap", inst |-> i]
  <2>2. op \in Op
    BY DEF Op, BootOp
  <2>3. op.kind = "bootstrap" /\ Begin(p, "ensure", op)
    BY <2>1
  <2> HIDE DEF op
  <2> QED BY <2>2, <2>3, BeginOK, StutterType DEF Begin
<1>5. CASE BeginCommand(p)
  <2>1. PICK k \in {"publish", "reset", "clear"} : Begin(p, "txn", [kind |-> k])
    BY <1>5 DEF BeginCommand
  <2> DEFINE op == [kind |-> k]
  <2>2. op \in Op
    BY DEF Op, BareOp
  <2>3. op.kind = k /\ Begin(p, "txn", op)
    BY <2>1
  <2> HIDE DEF op
  <2> QED BY <2>2, <2>3, BeginOK, StutterType DEF Begin
<1> QED BY <1>1, <1>2, <1>3, <1>4, <1>5 DEF Call

LEMMA MidnightType ==
  ASSUME TypeOK, Midnight
  PROVE  TypeOK'
BY BoundsAssumption DEF TypeOK, Midnight, Day, balances, ballots, tallies

\* ... and so by every step.
LEMMA TypeStep == TypeOK /\ [Next]_vars => TypeOK'
<1> SUFFICES ASSUME TypeOK, [Next]_vars PROVE TypeOK'
  OBVIOUS
<1>1. CASE Midnight
  BY <1>1, MidnightType
<1>2. ASSUME NEW p \in Process, Step(p) PROVE TypeOK'
  <2>1. CASE Call(p)
    BY <2>1, CallType
  <2>2. CASE RollOver(p)
    BY <2>2, RollOverType
  <2>3. CASE Bootstrap(p) \/ TokenClaim(p)
    BY <2>3, LedgerType
  <2>4. CASE RejectTarget(p) \/ RejectPoor(p) \/ AcceptVote(p)
    BY <2>4, VoteType
  <2>5. CASE PublishSnapshot(p)
    BY <2>5, PublishSnapshotType
  <2>6. CASE Command(p)
    BY <2>6, CommandType
  <2>7. CASE \/ FindActiveCase(p) \/ RollOverFails(p) \/ IgnoreClaim(p) \/ ReplayVote(p)
             \/ ReadStats(p) \/ (\E elapsed \in BOOLEAN : ReadLatest(p, elapsed)) \/ Crash(p)
    BY <2>7, QuietStepType
  <2> QED BY <1>2, <2>1, <2>2, <2>3, <2>4, <2>5, <2>6, <2>7
            DEF Step, EnsureActiveCase, CastVote, Publish
<1>3. CASE UNCHANGED vars
  BY <1>3 DEF vars, TypeOK, bounds, balances, ballots, tallies, HandlerOK
<1> QED BY <1>1, <1>2, <1>3 DEF Next

\* Every table and every handler keeps its type, whichever processes run and
\* wherever they crash (the code: the CHECK clauses of schema.ts and the row types
\* of store.ts never refuse a write).
THEOREM TypeInvariant == Spec => []TypeOK
BY TypeInit, TypeStep, PTL DEF Spec
-----------------------------------------------------------------------------
(* The frame: which steps write the balances, the ballots and the cases.    *)

LEMMA BalanceFrame ==
  ASSUME [Next]_vars
  PROVE  \/ UNCHANGED balances
         \/ \E p \in Process : \/ Bootstrap(p) \/ TokenClaim(p) \/ RejectPoor(p)
                               \/ AcceptVote(p) \/ PublishCase(p) \/ ResetToday(p)
BY DEF Next, Step, Call, EnsureActiveCase, CastVote, Publish, Command, Midnight,
  BeginSnapshot, BeginVote, BeginClaim, BeginBootstrap, BeginCommand, Begin,
  FindActiveCase, RollOver, RollOverFails, IgnoreClaim, ReplayVote, RejectTarget,
  ReadStats, ReadLatest, PublishSnapshot, ClearHistory, Crash, vars

LEMMA BallotFrame ==
  ASSUME [Next]_vars
  PROVE  \/ UNCHANGED ballots
         \/ \E p \in Process : \/ RejectTarget(p) \/ RejectPoor(p) \/ AcceptVote(p)
                               \/ ResetToday(p) \/ ClearHistory(p)
BY DEF Next, Step, Call, EnsureActiveCase, CastVote, Publish, Command, Midnight,
  BeginSnapshot, BeginVote, BeginClaim, BeginBootstrap, BeginCommand, Begin,
  FindActiveCase, RollOver, RollOverFails, IgnoreClaim, ReplayVote, Bootstrap,
  TokenClaim, ReadStats, ReadLatest, PublishSnapshot, PublishCase, Crash, vars

LEMMA CaseFrame ==
  ASSUME [Next]_vars
  PROVE  \/ UNCHANGED caseStatus
         \/ \E p \in Process : RollOver(p) \/ Command(p)
BY DEF Next, Step, Call, EnsureActiveCase, CastVote, Publish, Midnight,
  BeginSnapshot, BeginVote, BeginClaim, BeginBootstrap, BeginCommand, Begin,
  FindActiveCase, RollOverFails, IgnoreClaim, ReplayVote, Bootstrap, RejectTarget,
  RejectPoor, AcceptVote, TokenClaim, ReadStats, ReadLatest, PublishSnapshot, Crash, vars

\* Where a step of the ledger works: an installation and a date.
LEMMA Where ==
  ASSUME TypeOK, NEW p \in Process,
         \/ Bootstrap(p) \/ TokenClaim(p) \/ RejectPoor(p) \/ AcceptVote(p)
  PROVE  /\ proc[p].op.inst \in Installation
         /\ proc[p].day \in Day
         /\ Gift(proc[p].op.inst, proc[p].day) \in Nat
         /\ EnsureRow(proc[p].op.inst, proc[p].day)
<1>1. /\ proc[p].op.inst \in Installation
      /\ proc[p].day \in Day
      /\ EnsureRow(proc[p].op.inst, proc[p].day)
  BY OpOK DEF Bootstrap, TokenClaim, RejectPoor, AcceptVote, At, BootOp, ClaimOp, VoteOp
<1> QED BY <1>1, GiftType
-----------------------------------------------------------------------------
(* No installation ever spends more than its tokens of the day pay for.     *)

LEMMA OverspendStep == TypeOK /\ NoOverspend /\ [Next]_vars => NoOverspend'
<1> SUFFICES ASSUME TypeOK, NoOverspend, [Next]_vars,
                    NEW i \in Installation, NEW d \in Day
             PROVE  (used[i][d] * TokenPerIncense <= claimed[i][d])'
  BY DEF NoOverspend
<1>1. /\ used[i][d] \in Nat /\ claimed[i][d] \in Nat
      /\ used[i][d] * TokenPerIncense \in Nat
      /\ used[i][d] * TokenPerIncense <= claimed[i][d]
  BY PolicyAssumption DEF TypeOK, NoOverspend
<1>2. CASE UNCHANGED balances
  BY <1>1, <1>2 DEF balances
<1>3. ASSUME NEW p \in Process, Bootstrap(p) \/ TokenClaim(p) \/ RejectPoor(p)
      PROVE  (used[i][d] * TokenPerIncense <= claimed[i][d])'
  <2> DEFINE j == proc[p].op.inst
             e == proc[p].day
  <2>1. j \in Installation /\ e \in Day /\ Gift(j, e) \in Nat
    BY <1>3, Where
  <2>2. UNCHANGED used
    BY <1>3 DEF Bootstrap, TokenClaim, RejectPoor
  <2>3. PICK m \in Nat : m >= claimed[j][e] /\ claimed' = [claimed EXCEPT ![j][e] = m]
    <3>1. claimed[j][e] \in Nat
      BY <2>1 DEF TypeOK
    <3>2. CASE TokenClaim(p)
      <4> DEFINE m == Ratchet(claimed[j][e] + Gift(j, e), proc[p].op.tokens)
      <4>1. proc[p].op.tokens \in Nat
        BY <3>2, OpOK, PolicyAssumption DEF TokenClaim, At, ClaimOp
      <4>2. m \in Nat /\ m >= claimed[j][e]
        BY <2>1, <3>1, <4>1, PolicyAssumption DEF Ratchet
      <4>3. claimed' = [claimed EXCEPT ![j][e] = m]
        BY <3>2 DEF TokenClaim
      <4> HIDE DEF m
      <4> QED BY <4>2, <4>3
    <3>3. CASE Bootstrap(p) \/ RejectPoor(p)
      <4> DEFINE m == claimed[j][e] + Gift(j, e)
      <4>1. m \in Nat /\ m >= claimed[j][e]
        BY <2>1, <3>1
      <4>2. claimed' = [claimed EXCEPT ![j][e] = m]
        BY <3>3 DEF Bootstrap, RejectPoor
      <4> HIDE DEF m
      <4> QED BY <4>1, <4>2
    <3> QED BY <1>3, <3>2, <3>3
  <2>4. claimed'[i][d] \in Nat /\ claimed'[i][d] >= claimed[i][d]
    BY <1>1, <2>1, <2>3 DEF TypeOK
  <2> QED BY <1>1, <2>2, <2>4
<1>4. ASSUME NEW p \in Process, AcceptVote(p)
      PROVE  (used[i][d] * TokenPerIncense <= claimed[i][d])'
  <2> DEFINE j == proc[p].op.inst
             e == proc[p].day
             n == VoteSpend(proc[p].op, e)
             g == Gift(j, e)
  <2>1. j \in Installation /\ e \in Day /\ g \in Nat
    BY <1>4, Where
  <2>2. (used[j][e] + n) * TokenPerIncense <= claimed[j][e] + g
    BY <1>4 DEF AcceptVote, CanSpend
  <2>3. /\ used' = [used EXCEPT ![j][e] = used[j][e] + n]
        /\ claimed' = [claimed EXCEPT ![j][e] = claimed[j][e] + g]
    BY <1>4 DEF AcceptVote
  <2> HIDE DEF n, g
  <2>4. CASE i = j /\ d = e
    BY <2>1, <2>2, <2>3, <2>4 DEF TypeOK
  <2>5. CASE ~ (i = j /\ d = e)
    BY <1>1, <2>1, <2>3, <2>5 DEF TypeOK
  <2> QED BY <2>4, <2>5
<1>5. ASSUME NEW p \in Process, PublishCase(p) \/ ResetToday(p)
      PROVE  (used[i][d] * TokenPerIncense <= claimed[i][d])'
  <2>1. UNCHANGED claimed /\ (used'[i][d] = 0 \/ used'[i][d] = used[i][d])
    BY <1>5 DEF PublishCase, ResetToday, Forgiven, TypeOK
  <2> QED BY <1>1, <2>1, PolicyAssumption
<1> QED BY <1>2, <1>3, <1>4, <1>5, BalanceFrame

\* Whatever claims, votes, gifts, commands and crashes interleave, and however a
\* claim is cut or ignored, no day's spending exceeds what its tokens pay for.
THEOREM NeverOverspent == Spec => []NoOverspend
<1>1. Init => NoOverspend
  BY PolicyAssumption DEF Init, NoOverspend
<1> QED BY <1>1, TypeInvariant, OverspendStep, PTL DEF Spec
-----------------------------------------------------------------------------
(* One active case per date.                                                *)

LEMMA OneActiveStep == TypeOK /\ OneActivePerDate /\ [Next]_vars => OneActivePerDate'
<1> SUFFICES ASSUME TypeOK, OneActivePerDate, [Next]_vars,
                    NEW day \in Day, NEW c \in ActiveOn(day)', NEW e \in ActiveOn(day)'
             PROVE  c = e
  BY DEF OneActivePerDate
<1>1. /\ c \in CaseId /\ CaseDate(c) = day /\ caseStatus'[c] = "active"
      /\ e \in CaseId /\ CaseDate(e) = day /\ caseStatus'[e] = "active"
  BY DEF ActiveOn
<1>2. caseStatus[c] = "active" /\ caseStatus[e] = "active" => c = e
  BY <1>1 DEF OneActivePerDate, ActiveOn
<1>3. CASE UNCHANGED caseStatus
  BY <1>1, <1>2, <1>3
<1>4. ASSUME NEW p \in Process, RollOver(p) PROVE c = e
  <2> DEFINE d == proc[p].day
             fresh == ActiveOn(d) = {}
  <2>1. PICK x \in (IF fresh THEN {<<d, 0>>} ELSE ActiveOn(d)) :
          caseStatus' = Opening(x, EarlierActive(d))
    BY <1>4 DEF RollOver
  <2>2. CASE fresh
    <3>1. x = <<d, 0>> /\ CaseDate(x) = d
      BY <2>1, <2>2 DEF CaseDate
    <3>2. \A y \in CaseId : y # x /\ caseStatus'[y] = "active" =>
             caseStatus[y] = "active" /\ CaseDate(y) # d
      BY <2>1, <2>2 DEF ActiveOn, Opening
    <3> QED BY <1>1, <1>2, <3>1, <3>2
  <2>3. CASE ~ fresh
    <3>1. caseStatus[x] = "active"
      BY <2>1, <2>3 DEF ActiveOn
    <3>2. \A y \in CaseId : caseStatus'[y] = "active" => caseStatus[y] = "active"
      BY <2>1, <3>1 DEF Opening
    <3> QED BY <1>1, <1>2, <3>2
  <2> QED BY <2>2, <2>3
<1>5. ASSUME NEW p \in Process, Command(p) PROVE c = e
  <2>1. CASE PublishCase(p)
    <3> DEFINE d == proc[p].day
               x == <<d, published + 1>>
    <3>1. CaseDate(x) = d /\ d \in Day
      BY <2>1, OpOK DEF CaseDate, PublishCase, At
    <3>2. \A y \in CaseId : y # x /\ caseStatus'[y] = "active" =>
             caseStatus[y] = "active" /\ CaseDate(y) # d
      BY <2>1 DEF PublishCase, Opening, Outgoing, EarlierActive, ActiveOn
    <3> QED BY <1>1, <1>2, <3>1, <3>2 DEF Day
  <2>2. CASE ResetToday(p) \/ ClearHistory(p)
    <3>1. \A y \in CaseId : caseStatus'[y] = "active" => caseStatus[y] = "active"
      BY <2>2 DEF ResetToday, ClearHistory
    <3> QED BY <1>1, <1>2, <3>1
  <2> QED BY <1>5, <2>1, <2>2 DEF Command
<1> QED BY <1>3, <1>4, <1>5, CaseFrame

\* The partial unique index on the active case of a date never has to refuse a
\* statement, even when a command holds yesterday's date.
THEOREM OneActiveCasePerDate == Spec => []OneActivePerDate
<1>1. Init => OneActivePerDate
  BY DEF Init, OneActivePerDate, ActiveOn
<1> QED BY <1>1, TypeInvariant, OneActiveStep, PTL DEF Spec
-----------------------------------------------------------------------------
(* One gift per device and date.  The gift is inductive only with the row   *)
(* of the grant: it names the installation whose ledger carries the gift.   *)

GrantBacksGift ==
  \A i \in Installation, d \in Day :
    starter[i][d] = IF Device[i] # NoDevice /\ grant[Device[i]][d] = i
                    THEN StarterIncense * TokenPerIncense ELSE 0

LEMMA GiftStep == TypeOK /\ GrantBacksGift /\ [Next]_vars => GrantBacksGift'
<1> SUFFICES ASSUME TypeOK, GrantBacksGift, [Next]_vars
             PROVE  GrantBacksGift'
  OBVIOUS
<1>1. CASE UNCHANGED <<starter, grant>>
  BY <1>1 DEF GrantBacksGift
<1>2. ASSUME NEW p \in Process,
             Bootstrap(p) \/ TokenClaim(p) \/ RejectPoor(p) \/ AcceptVote(p)
      PROVE  GrantBacksGift'
  <2> DEFINE i == proc[p].op.inst
             d == proc[p].day
  <2>1. i \in Installation /\ d \in Day /\ Gift(i, d) \in Nat /\ EnsureRow(i, d)
    BY <1>2, Where
  <2>2. CASE ~ (Gift(i, d) > 0)
    <3>1. Gift(i, d) = 0
      BY <2>1, <2>2
    <3>2. starter[i][d] + 0 = starter[i][d]
      BY <2>1 DEF TypeOK
    <3>3. starter' = starter /\ grant' = grant
      BY <2>1, <2>2, <3>1, <3>2 DEF EnsureRow, TypeOK
    <3> QED BY <3>3 DEF GrantBacksGift
  <2>3. CASE Gift(i, d) > 0
    <3> DEFINE f == Device[i]
               g == StarterIncense * TokenPerIncense
    <3>1. f # NoDevice /\ grant[f][d] = NoOne /\ Gift(i, d) = g /\ f \in Fingerprint
      BY <2>1, <2>3 DEF Gift, Fingerprint
    <3>2. starter[i][d] = 0
      BY <2>1, <3>1, ActorAssumption DEF GrantBacksGift
    <3>3. /\ starter' = [starter EXCEPT ![i][d] = starter[i][d] + g]
          /\ grant' = [grant EXCEPT ![f][d] = i]
      BY <2>1, <2>3, <3>1 DEF EnsureRow
    <3>4. g \in Nat /\ starter[i][d] + g = g
      BY <3>2, PolicyAssumption
    <3> HIDE DEF g
    <3> SUFFICES ASSUME NEW j \in Installation, NEW e \in Day
                 PROVE  (starter[j][e] = IF Device[j] # NoDevice /\ grant[Device[j]][e] = j
                                         THEN g ELSE 0)'
      BY DEF GrantBacksGift, g
    <3>5. starter[j][e] = IF Device[j] # NoDevice /\ grant[Device[j]][e] = j THEN g ELSE 0
      BY DEF GrantBacksGift, g
    <3>6. CASE j = i /\ e = d
      <4>1. starter'[i][d] = starter[i][d] + g /\ grant'[f][d] = i
        BY <2>1, <3>1, <3>3 DEF TypeOK
      <4> QED BY <3>1, <3>4, <3>6, <4>1
    <3>7. CASE j # i /\ e = d /\ Device[j] = f
      BY <2>1, <3>1, <3>3, <3>5, <3>7, ActorAssumption DEF TypeOK
    <3>8. CASE e # d \/ Device[j] # f
      <4>1. starter'[j][e] = starter[j][e]
        BY <2>1, <3>3, <3>8 DEF TypeOK
      <4>2. Device[j] # NoDevice => grant'[Device[j]][e] = grant[Device[j]][e]
        BY <2>1, <3>1, <3>3, <3>8 DEF TypeOK, Fingerprint
      <4> QED BY <3>5, <4>1, <4>2
    <3> QED BY <3>6, <3>7, <3>8
  <2> QED BY <2>2, <2>3
<1>3. ASSUME NEW p \in Process, PublishCase(p) \/ ResetToday(p)
      PROVE  GrantBacksGift'
  BY <1>3 DEF PublishCase, ResetToday, GrantBacksGift
<1> QED BY <1>1, <1>2, <1>3, BalanceFrame DEF balances

LEMMA GiftIsOne == TypeOK /\ GrantBacksGift => OneGiftPerDevice
<1>1. StarterIncense * TokenPerIncense \in Nat
  BY PolicyAssumption
<1> QED BY <1>1 DEF TypeOK, GrantBacksGift, OneGiftPerDevice

\* A device gets its sticks of a date once, whichever installation id asks, also
\* after it was keyed anew.
THEOREM OneGift == Spec => []OneGiftPerDevice
<1>1. Init => GrantBacksGift
  BY ActorAssumption DEF Init, GrantBacksGift, Fingerprint
<1> QED BY <1>1, TypeInvariant, GiftStep, GiftIsOne, PTL DEF Spec
-----------------------------------------------------------------------------
(* A request id is decided once, and its receipt and its vote agree.        *)

LEMMA ReceiptStep == TypeOK /\ ReceiptsMatchVotes /\ [Next]_vars => ReceiptsMatchVotes'
<1> SUFFICES ASSUME TypeOK, ReceiptsMatchVotes, [Next]_vars
             PROVE  ReceiptsMatchVotes'
  OBVIOUS
<1>1. CASE UNCHANGED ballots
  BY <1>1 DEF ReceiptsMatchVotes, ballots
<1>2. ASSUME NEW p \in Process, RejectTarget(p) \/ RejectPoor(p)
      PROVE  ReceiptsMatchVotes'
  <2>1. ~ HasReceipt(proc[p].op.inst, proc[p].op.req) /\ UNCHANGED votes
    BY <1>2 DEF RejectTarget, RejectPoor
  <2>2. PICK status \in Reason : Receive(p, status)
    BY <1>2 DEF RejectTarget, RejectPoor, Reason
  <2> DEFINE x == [inst |-> proc[p].op.inst, req |-> proc[p].op.req,
                    case |-> proc[p].op.case, date |-> proc[p].day,
                    dir |-> proc[p].op.dir, count |-> proc[p].op.count,
                    status |-> status]
  <2>3. /\ receipts' = receipts \cup {x}
        /\ x.inst = proc[p].op.inst /\ x.req = proc[p].op.req /\ x.status # "accepted"
    BY <2>2 DEF Receive, Reason
  <2> HIDE DEF x
  <2> QED BY <2>1, <2>3 DEF ReceiptsMatchVotes, HasReceipt
<1>3. ASSUME NEW p \in Process, AcceptVote(p)
      PROVE  ReceiptsMatchVotes'
  <2> DEFINE op == proc[p].op
  <2>1. ~ HasReceipt(op.inst, op.req)
    BY <1>3 DEF AcceptVote
  <2> DEFINE x == [inst |-> proc[p].op.inst, req |-> proc[p].op.req,
                    case |-> proc[p].op.case, date |-> proc[p].day,
                    dir |-> proc[p].op.dir, count |-> proc[p].op.count,
                    status |-> "accepted"]
             v == [inst |-> op.inst, req |-> op.req, case |-> op.case,
                   date |-> proc[p].day, dir |-> op.dir, count |-> op.count,
                   spent |-> VoteSpend(op, proc[p].day)]
  <2>2. /\ receipts' = receipts \cup {x}
        /\ x.inst = op.inst /\ x.req = op.req /\ x.case = op.case
        /\ x.date = proc[p].day /\ x.dir = op.dir /\ x.count = op.count
        /\ x.status = "accepted"
    BY <1>3 DEF AcceptVote, Receive
  <2>3. /\ votes' = votes \cup {v}
        /\ v.inst = op.inst /\ v.req = op.req /\ v.case = op.case
        /\ v.date = proc[p].day /\ v.dir = op.dir /\ v.count = op.count
    BY <1>3 DEF AcceptVote
  <2> HIDE DEF x, v
  <2>4. \A w \in votes : ~ (w.inst = op.inst /\ w.req = op.req)
    BY <2>1 DEF ReceiptsMatchVotes, HasReceipt
  <2> QED BY <2>1, <2>2, <2>3, <2>4 DEF ReceiptsMatchVotes, HasReceipt
<1>4. ASSUME NEW p \in Process, ResetToday(p) \/ ClearHistory(p)
      PROVE  ReceiptsMatchVotes'
  <2>1. PICK Kept : /\ votes' = {v \in votes : v.date \in Kept}
                    /\ receipts' = {x \in receipts : x.date \in Kept}
    <3> DEFINE d == proc[p].day
    <3>1. /\ \A v \in votes : v.date \in Day
          /\ \A x \in receipts : x.date \in Day
      BY DEF TypeOK, Vote, Receipt
    <3>2. CASE ResetToday(p)
      <4> WITNESS Day \ {d}
      <4> QED BY <3>1, <3>2 DEF ResetToday
    <3>3. CASE ClearHistory(p)
      <4> WITNESS {x \in Day : x >= d}
      <4> QED BY <3>1, <3>3 DEF ClearHistory
    <3> QED BY <1>4, <3>2, <3>3
  <2>2. ASSUME NEW v \in votes' PROVE \E x \in receipts' :
       /\ x.status = "accepted" /\ x.inst = v.inst /\ x.req = v.req
       /\ x.case = v.case /\ x.date = v.date /\ x.dir = v.dir /\ x.count = v.count
    BY <2>1 DEF ReceiptsMatchVotes
  <2>3. ASSUME NEW x \in receipts', x.status = "accepted"
        PROVE  \E v \in votes' : v.inst = x.inst /\ v.req = x.req
    <3>1. PICK v \in votes : v.inst = x.inst /\ v.req = x.req
      BY <2>1, <2>3 DEF ReceiptsMatchVotes
    <3>2. PICK y \in receipts : y.inst = v.inst /\ y.req = v.req /\ y.date = v.date
      BY DEF ReceiptsMatchVotes
    <3>3. x = y
      BY <2>1, <3>1, <3>2 DEF ReceiptsMatchVotes
    <3> QED BY <2>1, <3>1, <3>2, <3>3
  <2> QED BY <2>1, <2>2, <2>3 DEF ReceiptsMatchVotes
<1> QED BY <1>1, <1>2, <1>3, <1>4, BallotFrame

\* Retries of a request id, also with another payload, after a rejection, on
\* another day or against another case, find the one receipt of its decision; the
\* receipt of an accepted vote always has its ledger row ("stored accepted vote is
\* missing its ledger row" is never answered).
THEOREM ReceiptsAndVotesAgree == Spec => []ReceiptsMatchVotes
<1>1. Init => ReceiptsMatchVotes
  BY DEF Init, ReceiptsMatchVotes
<1> QED BY <1>1, TypeInvariant, ReceiptStep, PTL DEF Spec
-----------------------------------------------------------------------------
(* Only a wipe removes an outcome.  The invariant says who runs commands.   *)

Commands == {"publish", "reset", "clear"}
Requests == {"vote", "claim", "bootstrap"}

\* Who runs what: requests reach the server, commands are an operator's.
OperatorsCommand ==
  \A p \in Process :
    /\ proc[p].op.kind \in Commands => p \in Operator
    /\ proc[p].op.kind \in Requests => p = Server

LEMMA OpFrame ==
  ASSUME TypeOK, NEW p \in Process, Step(p)
  PROVE  /\ \A q \in Process : q # p => proc'[q] = proc[q]
         /\ \/ proc'[p].op = proc[p].op
            \/ proc'[p].op.kind \notin Commands \cup Requests
            \/ p = Server /\ proc'[p].op.kind \in Requests
            \/ p \in Operator /\ proc'[p].op.kind \in Commands
<1>1. proc \in [Process -> Handler] /\ proc[p] \in Handler
  BY DEF TypeOK
<1>2. CASE Finish(p)
  BY <1>1, <1>2 DEF Finish, Done, Idle, Commands, Requests
<1>3. CASE Crash(p)
  BY <1>1, <1>3 DEF Crash, Idle, Commands, Requests
<1>4. CASE Bootstrap(p)
  BY <1>1, <1>4 DEF Bootstrap, Handler
<1>5. CASE ReadStats(p)
  BY <1>1, <1>5 DEF ReadStats, Handler
<1>6. ASSUME NEW c, NEW d, Proceed(p, c, d)
      PROVE  (\A q \in Process : q # p => proc'[q] = proc[q]) /\ proc'[p].op = proc[p].op
  BY <1>1, <1>6 DEF Proceed, Handler
<1>7. CASE FindActiveCase(p) \/ RollOver(p)
  BY <1>6, <1>7 DEF FindActiveCase, RollOver
<1>8. CASE \E elapsed \in BOOLEAN : ReadLatest(p, elapsed)
  <2>1. \/ Finish(p)
        \/ \E s : proc' = [proc EXCEPT ![p] = [@ EXCEPT !.pc = "write", !.seen = s]]
    BY <1>8 DEF ReadLatest
  <2> QED BY <1>1, <1>2, <2>1 DEF Handler
<1>9. ASSUME NEW pc, NEW op, Begin(p, pc, op)
      PROVE  (\A q \in Process : q # p => proc'[q] = proc[q]) /\ proc'[p].op = op
  BY <1>1, <1>9 DEF Begin, Handler
<1>10. CASE Call(p)
  <2>1. CASE BeginSnapshot(p)
    <3>1. Begin(p, "ensure", [kind |-> "snapshot"])
      BY <2>1 DEF BeginSnapshot
    <3> QED BY <1>9, <3>1 DEF Commands, Requests
  <2>2. CASE p = Server /\ BeginVote
    <3>1. PICK op : op.kind = "vote" /\ Begin(p, "ensure", op)
      BY <2>2 DEF BeginVote
    <3> QED BY <1>9, <2>2, <3>1 DEF Commands, Requests
  <2>3. CASE p = Server /\ BeginClaim
    <3>1. PICK op : op.kind = "claim" /\ Begin(p, "ensure", op)
      BY <2>3 DEF BeginClaim
    <3> QED BY <1>9, <2>3, <3>1 DEF Commands, Requests
  <2>4. CASE p = Server /\ BeginBootstrap
    <3>1. PICK op : op.kind = "bootstrap" /\ Begin(p, "ensure", op)
      BY <2>4 DEF BeginBootstrap
    <3> QED BY <1>9, <2>4, <3>1 DEF Commands, Requests
  <2>5. CASE p \in Operator /\ BeginCommand(p)
    <3>1. PICK k \in Commands : Begin(p, "txn", [kind |-> k])
      BY <2>5 DEF BeginCommand, Commands
    <3> QED BY <1>9, <2>5, <3>1
  <2> QED BY <1>10, <2>1, <2>2, <2>3, <2>4, <2>5 DEF Call
<1>11. CASE \/ RollOverFails(p) \/ TokenClaim(p) \/ IgnoreClaim(p) \/ CastVote(p)
            \/ PublishSnapshot(p) \/ Command(p)
  BY <1>2, <1>11 DEF RollOverFails, TokenClaim, IgnoreClaim, CastVote, ReplayVote,
     RejectTarget, RejectPoor, AcceptVote, PublishSnapshot, Command, PublishCase,
     ResetToday, ClearHistory
<1> QED BY <1>3, <1>4, <1>5, <1>7, <1>8, <1>10, <1>11 DEF Step, EnsureActiveCase, Publish

LEMMA OperatorsInit == Init => OperatorsCommand
BY DEF Init, OperatorsCommand, Idle, Commands, Requests

LEMMA OperatorsStep == TypeOK /\ OperatorsCommand /\ [Next]_vars => OperatorsCommand'
<1> SUFFICES ASSUME TypeOK, OperatorsCommand, [Next]_vars
             PROVE  OperatorsCommand'
  OBVIOUS
<1>1. CASE UNCHANGED proc
  BY <1>1 DEF OperatorsCommand
<1>2. ASSUME NEW p \in Process, Step(p)
      PROVE  OperatorsCommand'
  BY <1>2, OpFrame DEF OperatorsCommand, Commands, Requests
<1> QED BY <1>1, <1>2 DEF Next, Midnight, vars

\* A decision, once recorded, is never altered or dropped by votes, roll-overs,
\* publications or crashes; an operator's reset or clear is the only way.
THEOREM OutcomesAreFinal == Spec => OutcomeIsFinal
<1>1. Init => OperatorsCommand
  BY OperatorsInit
<1>2. TypeOK /\ OperatorsCommand /\ [Next]_vars =>
        [\/ receipts \subseteq receipts' /\ votes \subseteq votes'
         \/ \E p \in Operator : ResetToday(p) \/ ClearHistory(p)]_vars
  <2> SUFFICES ASSUME TypeOK, OperatorsCommand, [Next]_vars
               PROVE  \/ receipts \subseteq receipts' /\ votes \subseteq votes'
                      \/ \E p \in Operator : ResetToday(p) \/ ClearHistory(p)
    OBVIOUS
  <2>1. CASE UNCHANGED ballots
    BY <2>1 DEF ballots
  <2>2. ASSUME NEW p \in Process, RejectTarget(p) \/ RejectPoor(p) \/ AcceptVote(p)
        PROVE  receipts \subseteq receipts' /\ votes \subseteq votes'
    BY <2>2 DEF RejectTarget, RejectPoor, AcceptVote, Receive
  <2>3. ASSUME NEW p \in Process, ResetToday(p) \/ ClearHistory(p)
        PROVE  p \in Operator
    BY <2>3 DEF ResetToday, ClearHistory, At, OperatorsCommand, Commands
  <2> QED BY <2>1, <2>2, <2>3, BallotFrame
<1> QED BY <1>1, <1>2, TypeInvariant, OperatorsStep, PTL DEF Spec, OutcomeIsFinal
-----------------------------------------------------------------------------
(* The vote ledger implements the vote promise: every step of a handler, a  *)
(* command or the clock is a step of the promise or changes nothing it      *)
(* speaks of.                                                               *)

\* More tokens never pay for fewer sticks.
LEMMA DivMonotone ==
  ASSUME NEW a \in Nat, NEW b \in Nat, NEW t \in Nat \ {0}, a <= b
  PROVE  a \div t <= b \div t
<1> DEFINE q == a \div t
           r == b \div t
<1>1. q \in Int /\ r \in Int
  OBVIOUS
<1>2. t * q <= a /\ b < t * r + t
  OBVIOUS
<1> HIDE DEF q, r
<1>3. t * q < t * (r + 1)
  BY <1>1, <1>2
<1>4. q < r + 1
  BY <1>1, <1>3
<1> QED BY <1>1, <1>4 DEF q, r

LEMMA EarnedType ==
  ASSUME TypeOK
  PROVE  /\ Earned \in [Installation -> [Day -> Int]]
         /\ \A i \in Installation, d \in Day :
              Earned[i][d] = claimed[i][d] \div TokenPerIncense
BY PolicyAssumption DEF Earned, TypeOK

LEMMA PromiseStarts == Init => Promise!PromiseInit
<1> SUFFICES ASSUME Init PROVE Promise!PromiseInit
  OBVIOUS
<1>1. Accepted = {} /\ Refused = {}
  BY DEF Init, Accepted, Refused
<1>2. 0 \div TokenPerIncense = 0
  BY PolicyAssumption
<1>3. Earned = [i \in Installation |-> [d \in Day |-> 0]]
  BY <1>2 DEF Init, Earned
<1> QED BY <1>1, <1>3 DEF Init, Promise!PromiseInit

\* A claim at one place raises what that place has earned.
LEMMA ClaimGrows ==
  ASSUME TypeOK, NEW i \in Installation, NEW d \in Day, NEW m \in Nat,
         claimed' = [claimed EXCEPT ![i][d] = m], m >= claimed[i][d]
  PROVE  Promise!Grows(i, d) /\ Earned'[i][d] = m \div TokenPerIncense
<1>1. Earned' = [j \in Installation |-> [e \in Day |-> claimed'[j][e] \div TokenPerIncense]]
  BY DEF Earned
<1>2. claimed'[i][d] = m
  BY DEF TypeOK
<1>3. \A j \in Installation, e \in Day :
        ~ (j = i /\ e = d) => claimed'[j][e] = claimed[j][e]
  BY DEF TypeOK
<1>4. Earned'[i][d] = m \div TokenPerIncense
  BY <1>1, <1>2
<1>5. Earned[i][d] = claimed[i][d] \div TokenPerIncense /\ claimed[i][d] \in Nat
  BY DEF Earned, TypeOK
<1>6. Earned'[i][d] >= Earned[i][d]
  <2>1. m \div TokenPerIncense \in Int /\ claimed[i][d] \div TokenPerIncense \in Int
    BY <1>5, PolicyAssumption
  <2>2. claimed[i][d] \div TokenPerIncense <= m \div TokenPerIncense
    BY <1>5, DivMonotone, PolicyAssumption
  <2> QED BY <1>4, <1>5, <2>1, <2>2
<1>7. Earned' = [Earned EXCEPT ![i][d] = Earned'[i][d]]
  <2> DEFINE E == [Earned EXCEPT ![i][d] = Earned'[i][d]]
  <2>1. /\ Earned \in [Installation -> [Day -> Int]]
        /\ \A j \in Installation, e \in Day :
             Earned[j][e] = claimed[j][e] \div TokenPerIncense
    BY EarnedType
  <2>2. /\ E \in [Installation -> [Day -> Int]]
        /\ \A j \in Installation, e \in Day :
             E[j][e] = IF j = i /\ e = d THEN Earned'[i][d] ELSE Earned[j][e]
    BY <1>4, <2>1, PolicyAssumption
  <2>3. \A j \in Installation, e \in Day : Earned'[j][e] = E[j][e]
    BY <1>1, <1>3, <2>1, <2>2
  <2>4. /\ DOMAIN Earned' = Installation
        /\ \A j \in Installation : Earned'[j] = [e \in Day |-> Earned'[j][e]]
    BY <1>1
  <2> HIDE DEF E
  <2>5. \A j \in Installation : Earned'[j] = E[j]
    BY <2>2, <2>3, <2>4
  <2>6. Earned' = [j \in Installation |-> Earned'[j]]
    BY <1>1
  <2> QED BY <2>2, <2>5, <2>6 DEF E
<1> QED BY <1>4, <1>6, <1>7 DEF Promise!Grows

\* What a request without a receipt is to the promise.
LEMMA Undecided ==
  ASSUME ReceiptsMatchVotes, NEW i, NEW r, ~ HasReceipt(i, r)
  PROVE  ~ Promise!Decided(i, r)
<1>1. \A a \in Accepted : ~ (a.inst = i /\ a.req = r)
  BY DEF Accepted, ReceiptsMatchVotes, HasReceipt
<1>2. <<i, r>> \notin Refused
  BY DEF Refused, HasReceipt
<1> QED BY <1>1, <1>2 DEF Promise!Decided
-----------------------------------------------------------------------------
LEMMA StutterStep ==
  ASSUME UNCHANGED <<balances, ballots>>
  PROVE  UNCHANGED Promise!promiseVars
BY DEF balances, ballots, Promise!promiseVars, Accepted, Refused, Earned

\* A place that exists, and what its claim becomes.
LEMMA EarnStep ==
  ASSUME TypeOK, NEW p \in Process, Bootstrap(p) \/ TokenClaim(p)
  PROVE  Promise!PromiseNext
<1> DEFINE i == proc[p].op.inst
           d == proc[p].day
<1>1. i \in Installation /\ d \in Day /\ Gift(i, d) \in Nat /\ claimed[i][d] \in Nat
  BY Where DEF TypeOK
<1>2. PICK m \in Nat : m >= claimed[i][d] /\ claimed' = [claimed EXCEPT ![i][d] = m]
  <2>1. CASE TokenClaim(p)
    <3> DEFINE m == Ratchet(claimed[i][d] + Gift(i, d), proc[p].op.tokens)
    <3>1. proc[p].op.tokens \in Nat
      BY <2>1, OpOK, PolicyAssumption DEF TokenClaim, At, ClaimOp
    <3>2. m \in Nat /\ m >= claimed[i][d]
      BY <1>1, <3>1, PolicyAssumption DEF Ratchet
    <3>3. claimed' = [claimed EXCEPT ![i][d] = m]
      BY <2>1 DEF TokenClaim
    <3> HIDE DEF m
    <3> QED BY <3>2, <3>3
  <2>2. CASE Bootstrap(p)
    <3> DEFINE m == claimed[i][d] + Gift(i, d)
    <3>1. m \in Nat /\ m >= claimed[i][d]
      BY <1>1
    <3>2. claimed' = [claimed EXCEPT ![i][d] = m]
      BY <2>2 DEF Bootstrap
    <3> HIDE DEF m
    <3> QED BY <3>1, <3>2
  <2> QED BY <2>1, <2>2
<1>3. Promise!Grows(i, d)
  BY <1>1, <1>2, ClaimGrows
<1>4. UNCHANGED <<Accepted, Refused, used>>
  BY DEF Bootstrap, TokenClaim, ballots, Accepted, Refused
<1> QED BY <1>1, <1>3, <1>4 DEF Promise!Earn, Promise!PromiseNext

LEMMA RefuseStep ==
  ASSUME TypeOK, ReceiptsMatchVotes, NEW p \in Process, RejectTarget(p) \/ RejectPoor(p)
  PROVE  Promise!PromiseNext
<1> DEFINE op == proc[p].op
           i  == op.inst
           r  == op.req
           d  == proc[p].day
<1>1. op \in VoteOp /\ d \in Day
  BY OpOK DEF RejectTarget, RejectPoor, At
<1>2. i \in Installation /\ r \in Request /\ claimed[i][d] \in Nat
  BY <1>1 DEF VoteOp, TypeOK
<1>3. ~ Promise!Decided(i, r)
  BY Undecided DEF RejectTarget, RejectPoor
<1>4. Promise!Grows(i, d)
  <2>1. CASE RejectTarget(p)
    <3> DEFINE m == claimed[i][d]
    <3>1. m \in Nat /\ m >= claimed[i][d]
      BY <1>2
    <3>2. claimed' = [claimed EXCEPT ![i][d] = m]
      BY <1>1, <1>2, <2>1 DEF RejectTarget, balances, TypeOK
    <3> HIDE DEF m
    <3> QED BY <1>1, <1>2, <3>1, <3>2, ClaimGrows
  <2>2. CASE RejectPoor(p)
    <3> DEFINE m == claimed[i][d] + Gift(i, d)
    <3>1. m \in Nat /\ m >= claimed[i][d]
      BY <1>1, <1>2, GiftType
    <3>2. claimed' = [claimed EXCEPT ![i][d] = m]
      BY <2>2 DEF RejectPoor
    <3> HIDE DEF m
    <3> QED BY <1>1, <1>2, <3>1, <3>2, ClaimGrows
  <2> QED BY <2>1, <2>2
<1>5. PICK status \in Reason : Receive(p, status) /\ UNCHANGED <<votes, used>>
  BY DEF RejectTarget, RejectPoor, Reason, balances
<1>6. Refused' = Refused \cup {<<i, r>>}
  <2> DEFINE x == [inst |-> i, req |-> r, case |-> op.case, date |-> d, dir |-> op.dir,
                   count |-> op.count, status |-> status]
  <2>1. receipts' = receipts \cup {x}
    BY <1>5 DEF Receive
  <2>2. x.inst = i /\ x.req = r /\ x.status # "accepted"
    BY <1>5 DEF Reason
  <2> HIDE DEF x
  <2> QED BY <2>1, <2>2 DEF Refused
<1>7. UNCHANGED <<Accepted, used>>
  BY <1>5 DEF Accepted
<1> QED BY <1>1, <1>2, <1>3, <1>4, <1>6, <1>7 DEF Promise!Refuse, Promise!PromiseNext

LEMMA AcceptStep ==
  ASSUME TypeOK, ReceiptsMatchVotes, NEW p \in Process, AcceptVote(p)
  PROVE  Promise!PromiseNext
<1> DEFINE op == proc[p].op
           i  == op.inst
           r  == op.req
           d  == proc[p].day
           n  == VoteSpend(op, d)
           m  == claimed[i][d] + Gift(i, d)
<1>1. op \in VoteOp /\ d \in Day
  BY OpOK DEF AcceptVote, At
<1>2. /\ i \in Installation /\ r \in Request
      /\ claimed[i][d] \in Nat /\ used[i][d] \in Nat /\ m \in Nat /\ m >= claimed[i][d]
  BY <1>1, GiftType DEF VoteOp, TypeOK
<1>3. ~ Promise!Decided(i, r)
  BY Undecided DEF AcceptVote
<1>4. n \in 1 .. MaxCount /\ n <= Remaining(i, d)
  BY <1>1, SpendType DEF AcceptVote
<1>5. claimed' = [claimed EXCEPT ![i][d] = m]
  BY DEF AcceptVote
<1>6. used[i][d] + n <= m \div TokenPerIncense
  <2>1. Remaining(i, d) = m \div TokenPerIncense - used[i][d]
    BY DEF Remaining
  <2>2. m \div TokenPerIncense \in Int
    BY <1>2, PolicyAssumption
  <2> HIDE DEF m, n
  <2> QED BY <1>2, <1>4, <2>1, <2>2
<1>7. Promise!Grows(i, d) /\ Earned'[i][d] = m \div TokenPerIncense
  <2> HIDE DEF m
  <2> QED BY <1>1, <1>2, <1>5, ClaimGrows
<1>8. used' = [used EXCEPT ![i][d] = used[i][d] + n]
  BY DEF AcceptVote
<1>9. Accepted' = Accepted \cup {[inst |-> i, req |-> r, day |-> d, spent |-> n]}
  <2> DEFINE v == [inst |-> i, req |-> r, case |-> op.case, date |-> d,
                   dir |-> op.dir, count |-> op.count, spent |-> n]
  <2>1. votes' = votes \cup {v}
    BY DEF AcceptVote
  <2>2. v.inst = i /\ v.req = r /\ v.date = d /\ v.spent = n
    OBVIOUS
  <2> HIDE DEF v
  <2> QED BY <2>1, <2>2 DEF Accepted
<1>10. Refused' = Refused
  <2> DEFINE x == [inst |-> i, req |-> r, case |-> op.case, date |-> d, dir |-> op.dir,
                   count |-> op.count, status |-> "accepted"]
  <2>1. receipts' = receipts \cup {x}
    BY DEF AcceptVote, Receive
  <2>2. x.status = "accepted"
    OBVIOUS
  <2> HIDE DEF x
  <2> QED BY <2>1, <2>2 DEF Refused
<1>11. Promise!Accept(i, r, d, n)
  <2> HIDE DEF n, m
  <2> QED BY <1>3, <1>6, <1>7, <1>8, <1>9, <1>10 DEF Promise!Accept
<1> QED BY <1>1, <1>2, <1>4, <1>11 DEF Promise!PromiseNext

LEMMA InterveneStep ==
  ASSUME TypeOK, NEW p \in Process, PublishCase(p) \/ ResetToday(p) \/ ClearHistory(p)
  PROVE  Promise!PromiseNext
<1>1. proc[p].day \in Day
  BY OpOK DEF PublishCase, ResetToday, ClearHistory, At
<1>2. votes' \subseteq votes /\ receipts' \subseteq receipts /\ UNCHANGED claimed
  BY DEF PublishCase, ResetToday, ClearHistory, ballots, balances
<1>3. UNCHANGED used \/ used' = Forgiven(proc[p].day)
  BY DEF PublishCase, ResetToday, ClearHistory, balances
<1>4. Accepted' \subseteq Accepted /\ Refused' \subseteq Refused /\ Earned' = Earned
  BY <1>2 DEF Accepted, Refused, Earned
<1> QED BY <1>1, <1>3, <1>4 DEF Forgiven, Promise!Intervene, Promise!PromiseNext

LEMMA PromiseStep ==
  TypeOK /\ ReceiptsMatchVotes /\ [Next]_vars => [Promise!PromiseNext]_Promise!promiseVars
<1> SUFFICES ASSUME TypeOK, ReceiptsMatchVotes, [Next]_vars
             PROVE  Promise!PromiseNext \/ UNCHANGED Promise!promiseVars
  OBVIOUS
<1>1. CASE UNCHANGED <<balances, ballots>>
  BY <1>1, StutterStep
<1>2. ASSUME NEW p \in Process,
             \/ Bootstrap(p) \/ TokenClaim(p) \/ RejectTarget(p) \/ RejectPoor(p)
             \/ AcceptVote(p) \/ PublishCase(p) \/ ResetToday(p) \/ ClearHistory(p)
      PROVE  Promise!PromiseNext
  BY <1>2, EarnStep, RefuseStep, AcceptStep, InterveneStep
<1> QED BY <1>1, <1>2, BalanceFrame, BallotFrame

\* The authority keeps its promise: a request is decided once and charged once, to
\* one day and within that day's earnings, whatever handlers interleave or crash.
THEOREM LedgerImplementsPromise == Spec => ImplementsPromise
BY PromiseStarts, PromiseStep, TypeInvariant, ReceiptsAndVotesAgree, PTL
   DEF Spec, ImplementsPromise, Promise!PromiseSpec
-----------------------------------------------------------------------------
(* The sums: aggregates, charges and archives against the vote rows.       *)

\* The sticks of no row, of rows, and of one row more.
LEMMA SticksEmpty == Sticks({}) = 0
BY SumEmpty DEF Sticks

LEMMA SticksType ==
  ASSUME NEW S \in SUBSET Vote, IsFiniteSet(S)
  PROVE  Sticks(S) \in Nat
<1>1. \A v \in S : v.spent \in Nat
  BY BoundsAssumption DEF Vote
<1> DEFINE f == [v \in S |-> v.spent]
<1>2. \A v \in S : f[v] \in Nat
  BY <1>1
<1> HIDE DEF f
<1>3. SumFunctionOnSet(f, S) \in Nat
  BY <1>2, SumType
<1> QED BY <1>3 DEF f, Sticks

LEMMA SticksAdd ==
  ASSUME NEW S \in SUBSET Vote, IsFiniteSet(S), NEW v \in Vote, v \notin S
  PROVE  Sticks(S \cup {v}) = Sticks(S) + v.spent
<1> DEFINE f == [x \in S |-> x.spent]
           g == [x \in S \cup {v} |-> x.spent]
<1>1. \A x \in S \cup {v} : x.spent \in Int
  BY BoundsAssumption DEF Vote
<1>2. /\ \A x \in S \cup {v} : g[x] \in Int
      /\ \A x \in S : g[x] \in Int /\ g[x] = f[x]
      /\ g[v] = v.spent
  BY <1>1
<1>3. Sticks(S) = SumFunctionOnSet(f, S) /\ Sticks(S \cup {v}) = SumFunctionOnSet(g, S \cup {v})
  BY DEF Sticks
<1> HIDE DEF f, g
<1>4. SumFunctionOnSet(g, S \cup {v}) = SumFunctionOnSet(g, S) + g[v]
  BY <1>2, SumAdd
<1>5. SumFunctionOnSet(g, S) = SumFunctionOnSet(f, S)
  BY <1>2, SumSame
<1> QED BY <1>2, <1>3, <1>4, <1>5
-----------------------------------------------------------------------------
(* Which steps write the aggregates and the handlers.                       *)

LEMMA StatsFrame ==
  ASSUME [Next]_vars
  PROVE  \/ UNCHANGED <<votes, stats>>
         \/ \E p \in Process : AcceptVote(p) \/ ResetToday(p) \/ ClearHistory(p)
BY DEF Next, Step, Call, EnsureActiveCase, CastVote, Publish, Command, Midnight,
  BeginSnapshot, BeginVote, BeginClaim, BeginBootstrap, BeginCommand, Begin,
  FindActiveCase, RollOver, RollOverFails, IgnoreClaim, ReplayVote, Bootstrap,
  RejectTarget, RejectPoor, TokenClaim, ReadStats, ReadLatest, PublishSnapshot,
  PublishCase, Crash, vars, ballots, tallies

\* What a process holds between two transactions of a call: the case of its date.
Holding(h) ==
  \/ h.pc \in {"stats", "latest", "write"}
  \/ h.pc = "txn" /\ h.op.kind \notin Commands

HeldToday == \A p \in Process : Holding(proc[p]) => CaseDate(proc[p].held) = proc[p].day

\* What a step of a process does to its handler: the call ends; or a new one takes
\* the clock; or the handler goes on with what it holds; or it takes a case to hold.
Begins(p) ==
  /\ proc'[p].day = clock /\ ~ Holding(proc'[p]) /\ UNCHANGED caseStatus
  /\ proc'[p].op.kind = "vote" => proc'[p].op.case \in Opened \cup {UnknownCase}

GoesOn(p) ==
  /\ Holding(proc[p])
  /\ proc'[p].held = proc[p].held /\ proc'[p].day = proc[p].day /\ proc'[p].op = proc[p].op

TakesCase(p) ==
  /\ FindActiveCase(p) \/ RollOver(p)
  /\ proc[p].pc = "ensure"
  /\ proc'[p].held \in CaseId /\ caseStatus'[proc'[p].held] = "active"
  /\ CaseDate(proc'[p].held) = proc[p].day
  /\ proc'[p].day = proc[p].day /\ proc'[p].op = proc[p].op

LEMMA HandlerFrame ==
  ASSUME TypeOK, NEW p \in Process, Step(p)
  PROVE  /\ \A q \in Process : q # p => proc'[q] = proc[q]
         /\ \/ proc'[p].pc = "idle" /\ proc'[p].op.kind = "none"
            \/ Begins(p) \/ GoesOn(p) \/ TakesCase(p)
<1>1. proc \in [Process -> Handler] /\ proc[p] \in Handler /\ HandlerOK(proc[p])
  BY DEF TypeOK
<1>2. CASE Finish(p)
  BY <1>1, <1>2 DEF Finish, Done, Idle
<1>3. CASE Crash(p)
  BY <1>1, <1>3 DEF Crash, Idle
<1>4. CASE Bootstrap(p)
  <2>1. proc[p].pc = "txn" /\ proc[p].op.kind = "bootstrap"
    BY <1>4 DEF Bootstrap, At
  <2> QED BY <1>1, <1>4, <2>1 DEF Bootstrap, Handler, Holding, Commands, GoesOn
<1>5. CASE ReadStats(p)
  BY <1>1, <1>5 DEF ReadStats, Handler, Holding, GoesOn
<1>6. ASSUME NEW c, NEW d, Proceed(p, c, d), proc[p].pc = "ensure"
      PROVE  /\ \A q \in Process : q # p => proc'[q] = proc[q]
             /\ proc'[p].op = proc[p].op /\ proc'[p].held = c /\ proc'[p].day = proc[p].day
  BY <1>1, <1>6 DEF Proceed, Handler
<1>7. CASE FindActiveCase(p)
  <2>1. PICK c \in ActiveOn(proc[p].day) : Proceed(p, c, proc[p].checked)
    BY <1>7 DEF FindActiveCase
  <2>2. proc[p].pc = "ensure" /\ UNCHANGED caseStatus
    BY <1>7 DEF FindActiveCase
  <2> QED BY <1>6, <1>7, <2>1, <2>2 DEF ActiveOn, TakesCase
<1>8. CASE RollOver(p)
  <2> DEFINE d == proc[p].day
             fresh == ActiveOn(d) = {}
  <2>1. PICK c \in (IF fresh THEN {<<d, 0>>} ELSE ActiveOn(d)) :
          caseStatus' = Opening(c, EarlierActive(d)) /\ Proceed(p, c, d)
    BY <1>8 DEF RollOver
  <2>2. proc[p].pc = "ensure" /\ d \in Day
    BY <1>8, OpOK DEF RollOver, NeedsRollOver
  <2>3. c \in CaseId /\ CaseDate(c) = d
    BY <2>1, <2>2, Sorts, BoundsAssumption DEF ActiveOn, CaseDate
  <2>4. caseStatus'[c] = "active"
    BY <2>1, <2>3 DEF Opening
  <2>5. /\ proc'[p].held = c /\ proc'[p].day = d /\ proc'[p].op = proc[p].op
        /\ \A q \in Process : q # p => proc'[q] = proc[q]
    BY <1>6, <2>1, <2>2
  <2> QED BY <1>8, <2>2, <2>3, <2>4, <2>5 DEF TakesCase
<1>9. CASE \E elapsed \in BOOLEAN : ReadLatest(p, elapsed)
  <2>1. proc[p].pc = "latest"
    BY <1>9 DEF ReadLatest
  <2>2. \/ Finish(p)
        \/ \E s : proc' = [proc EXCEPT ![p] = [@ EXCEPT !.pc = "write", !.seen = s]]
    BY <1>9 DEF ReadLatest
  <2>3. ASSUME NEW s, proc' = [proc EXCEPT ![p] = [@ EXCEPT !.pc = "write", !.seen = s]]
        PROVE  /\ \A q \in Process : q # p => proc'[q] = proc[q]
               /\ proc'[p].held = proc[p].held /\ proc'[p].day = proc[p].day
               /\ proc'[p].op = proc[p].op
    BY <1>1, <2>3 DEF Handler
  <2> QED BY <1>2, <2>1, <2>2, <2>3 DEF Holding, GoesOn
<1>10. ASSUME NEW pc, NEW op, Begin(p, pc, op),
              pc = "ensure" \/ (pc = "txn" /\ op.kind \in Commands),
              op.kind = "vote" => op.case \in Opened \cup {UnknownCase}
       PROVE  (\A q \in Process : q # p => proc'[q] = proc[q]) /\ Begins(p)
  <2>1. /\ proc'[p].op = op /\ proc'[p].pc = pc /\ proc'[p].day = clock
        /\ \A q \in Process : q # p => proc'[q] = proc[q]
    BY <1>1, <1>10 DEF Begin, Handler
  <2>2. UNCHANGED caseStatus
    BY <1>10 DEF Begin
  <2> QED BY <1>10, <2>1, <2>2 DEF Begins, Holding
<1>11. CASE Call(p)
  <2>1. \E pc, op : /\ Begin(p, pc, op)
                    /\ pc = "ensure" \/ (pc = "txn" /\ op.kind \in Commands)
                    /\ op.kind = "vote" => op.case \in Opened \cup {UnknownCase}
    <3>1. CASE BeginSnapshot(p)
      BY <3>1 DEF BeginSnapshot
    <3>2. CASE p = Server /\ BeginVote
      <4>1. PICK i \in Installation, r \in Request, c \in Opened \cup {UnknownCase},
                 dir \in Direction, n \in 1 .. MaxCount, room \in 1 .. MaxCount :
                   Begin(p, "ensure", [kind |-> "vote", inst |-> i, req |-> r, case |-> c,
                                       dir |-> dir, count |-> n, room |-> room])
        BY <3>2 DEF BeginVote
      <4> QED BY <4>1
    <3>3. CASE p = Server /\ BeginClaim
      BY <3>3 DEF BeginClaim
    <3>4. CASE p = Server /\ BeginBootstrap
      BY <3>4 DEF BeginBootstrap
    <3>5. CASE BeginCommand(p)
      <4>1. PICK k \in Commands : Begin(p, "txn", [kind |-> k])
        BY <3>5 DEF BeginCommand, Commands
      <4> QED BY <4>1 DEF Commands
    <3> QED BY <1>11, <3>1, <3>2, <3>3, <3>4, <3>5 DEF Call
  <2> QED BY <1>10, <2>1
<1>12. CASE \/ RollOverFails(p) \/ TokenClaim(p) \/ IgnoreClaim(p) \/ CastVote(p)
            \/ PublishSnapshot(p) \/ Command(p)
  BY <1>2, <1>12 DEF RollOverFails, TokenClaim, IgnoreClaim, CastVote, ReplayVote,
     RejectTarget, RejectPoor, AcceptVote, PublishSnapshot, Command, PublishCase,
     ResetToday, ClearHistory
<1> QED BY <1>3, <1>4, <1>5, <1>7, <1>8, <1>9, <1>11, <1>12
        DEF Step, EnsureActiveCase, Publish

LEMMA HeldStep == TypeOK /\ HeldToday /\ [Next]_vars => HeldToday'
<1> SUFFICES ASSUME TypeOK, HeldToday, [Next]_vars PROVE HeldToday'
  OBVIOUS
<1>1. CASE UNCHANGED proc
  BY <1>1 DEF HeldToday, Holding
<1>2. ASSUME NEW p \in Process, Step(p) PROVE HeldToday'
  BY <1>2, HandlerFrame DEF HeldToday, Holding, Begins, GoesOn, TakesCase
<1> QED BY <1>1, <1>2 DEF Next, Midnight, vars
-----------------------------------------------------------------------------
(* The aggregates add up, for every case that a row may have.  Rows belong  *)
(* to opened cases and to the date of their case, which is what lets the    *)
(* commands delete rows by date and aggregates by case.                     *)

RowsDated == \A v \in votes : v.date = CaseDate(v.case) /\ v.case \in Opened

TalliesOK == \A c \in CaseId : stats[c] = TallyOf(c)

TallyInv == IsFiniteSet(votes) /\ RowsDated /\ HeldToday /\ TalliesOK

LEMMA VotersFinite ==
  ASSUME IsFiniteSet(votes), NEW V \in SUBSET Installation,
         \A i \in V : \E v \in votes : v.inst = i
  PROVE  IsFiniteSet(V)
<1> DEFINE f == [v \in votes |-> v.inst]
           I == {f[v] : v \in votes}
<1>1. V \in SUBSET I
  OBVIOUS
<1>2. IsFiniteSet(I)
  <2> HIDE DEF f
  <2> QED BY FiniteImage
<1> HIDE DEF I
<1> QED BY <1>1, <1>2, FS_Subset

\* A vote that is accepted is a row of its own.
LEMMA NewRow ==
  ASSUME TypeOK, ReceiptsMatchVotes, HeldToday, NEW p \in Process, AcceptVote(p)
  PROVE  \E v \in Vote :
           /\ v \notin votes /\ votes' = votes \cup {v}
           /\ v.inst = proc[p].op.inst /\ v.case = proc[p].op.case /\ v.dir = proc[p].op.dir
           /\ v.spent = VoteSpend(proc[p].op, proc[p].day)
           /\ v.date = proc[p].day /\ v.date = CaseDate(v.case)
           /\ caseStatus[v.case] = "active"
<1> DEFINE op == proc[p].op
           v == [inst |-> op.inst, req |-> op.req, case |-> op.case,
                 date |-> proc[p].day, dir |-> op.dir, count |-> op.count,
                 spent |-> VoteSpend(op, proc[p].day)]
<1>1. op \in VoteOp /\ proc[p].day \in Day
  BY OpOK DEF AcceptVote, At
<1>2. /\ op.case \in CaseId /\ caseStatus[op.case] = "active" /\ op.case = proc[p].held
      /\ VoteSpend(op, proc[p].day) \in 1 .. MaxCount
  BY <1>1, SpendType DEF AcceptVote, TargetActive
<1>3. v \in Vote
  BY <1>1, <1>2 DEF VoteOp, Vote
<1>4. v \notin votes
  <2>1. ~ HasReceipt(op.inst, op.req)
    BY DEF AcceptVote
  <2> QED BY <2>1 DEF ReceiptsMatchVotes, HasReceipt
<1>5. votes' = votes \cup {v}
  BY DEF AcceptVote
<1>6. CaseDate(op.case) = proc[p].day
  <2>1. proc[p].pc = "txn" /\ op.kind = "vote"
    BY DEF AcceptVote, At
  <2> QED BY <1>2, <2>1 DEF HeldToday, Holding, Commands
<1> QED BY <1>2, <1>3, <1>4, <1>5, <1>6

LEMMA TallyInit == Init => TallyInv
<1> SUFFICES ASSUME Init PROVE TallyInv
  OBVIOUS
<1>1. votes = {} /\ IsFiniteSet(votes) /\ RowsDated
  BY FS_EmptySet DEF Init, RowsDated
<1>2. HeldToday
  BY DEF Init, HeldToday, Holding, Idle
<1>3. ASSUME NEW c \in CaseId PROVE stats[c] = TallyOf(c)
  <2>1. /\ {v \in votes : v.case = c /\ v.dir = "up"} = {}
        /\ {v \in votes : v.case = c /\ v.dir = "down"} = {}
        /\ {i \in Installation : HasVoted(i, c)} = {}
    BY <1>1 DEF HasVoted
  <2>2. TallyOf(c) = Zero
    BY <2>1, SticksEmpty, FS_EmptySet DEF TallyOf, Zero
  <2> QED BY <2>2 DEF Init
<1> QED BY <1>1, <1>2, <1>3 DEF TallyInv, TalliesOK

LEMMA AcceptTally ==
  ASSUME TypeOK, ReceiptsMatchVotes, TallyInv, NEW p \in Process, AcceptVote(p)
  PROVE  IsFiniteSet(votes)' /\ RowsDated' /\ TalliesOK'
<1> DEFINE op == proc[p].op
           n  == VoteSpend(op, proc[p].day)
<1>1. PICK v \in Vote :
        /\ v \notin votes /\ votes' = votes \cup {v}
        /\ v.inst = op.inst /\ v.case = op.case /\ v.dir = op.dir /\ v.spent = n
        /\ v.date = proc[p].day /\ v.date = CaseDate(v.case)
        /\ caseStatus[v.case] = "active"
  BY NewRow DEF TallyInv
<1>2. UNCHANGED caseStatus
  BY DEF AcceptVote
<1>3. IsFiniteSet(votes')
  BY <1>1, FS_AddElement DEF TallyInv
<1>4. v.case \in CaseId /\ v.spent \in Nat /\ v.inst \in Installation /\ v.dir \in Direction
  BY BoundsAssumption DEF Vote
<1>5. RowsDated'
  BY <1>1, <1>2, <1>4 DEF RowsDated, TallyInv, Opened
<1>6. ASSUME NEW c \in CaseId PROVE stats'[c] = TallyOf(c)'
  <2> DEFINE U == {x \in votes : x.case = c /\ x.dir = "up"}
             D == {x \in votes : x.case = c /\ x.dir = "down"}
             V == {i \in Installation : HasVoted(i, c)}
             V1 == {i \in Installation : HasVoted(i, c)'}
             U1 == {x \in votes' : x.case = c /\ x.dir = "up"}
             D1 == {x \in votes' : x.case = c /\ x.dir = "down"}
  <2>1. /\ TallyOf(c) = [up |-> Sticks(U), down |-> Sticks(D), voters |-> Cardinality(V)]
        /\ TallyOf(c)' = [up |-> Sticks(U1), down |-> Sticks(D1), voters |-> Cardinality(V1)]
    BY DEF TallyOf
  <2>2. stats[c] = TallyOf(c)
    BY DEF TallyInv, TalliesOK
  <2>3. stats' = [stats EXCEPT ![op.case] =
                    Counted(stats[op.case], op.dir, n, ~ HasVoted(op.inst, op.case))]
    BY DEF AcceptVote
  <2>4. /\ U \in SUBSET Vote /\ IsFiniteSet(U) /\ v \notin U
        /\ D \in SUBSET Vote /\ IsFiniteSet(D) /\ v \notin D
    BY <1>1, FS_Subset DEF TallyInv, TypeOK
  <2>5. IsFiniteSet(V)
    <3>1. V \in SUBSET Installation /\ \A i \in V : \E x \in votes : x.inst = i
      BY DEF HasVoted
    <3> HIDE DEF V
    <3> QED BY <3>1, VotersFinite DEF TallyInv
  <2>6. CASE c # v.case
    <3>1. U1 = U /\ D1 = D /\ V1 = V
      BY <1>1, <2>6 DEF HasVoted
    <3>2. stats'[c] = stats[c]
      BY <1>1, <2>3, <2>6 DEF TypeOK
    <3> QED BY <2>1, <2>2, <3>1, <3>2
  <2>7. CASE c = v.case
    <3>1. stats'[c] = Counted(stats[c], v.dir, v.spent, ~ HasVoted(v.inst, c))
      BY <1>1, <2>3, <2>7 DEF TypeOK
    <3>2. V1 = V \cup {v.inst} /\ (HasVoted(v.inst, c) <=> v.inst \in V)
      BY <1>1, <1>4, <2>7 DEF HasVoted
    <3>3. Cardinality(V1) = Cardinality(V) + (IF ~ HasVoted(v.inst, c) THEN 1 ELSE 0)
      <4>1. Cardinality(V \cup {v.inst}) =
              IF v.inst \in V THEN Cardinality(V) ELSE Cardinality(V) + 1
        <5> HIDE DEF V
        <5> QED BY <2>5, FS_AddElement
      <4>2. Cardinality(V) \in Nat
        <5> HIDE DEF V
        <5> QED BY <2>5, FS_CardinalityType
      <4> HIDE DEF V, V1
      <4> QED BY <3>2, <4>1, <4>2
    <3>4. Sticks(U) \in Nat /\ Sticks(D) \in Nat
      <4> HIDE DEF U, D
      <4> QED BY <2>4, SticksType
    <3>5. Sticks(U1) = Sticks(U) + (IF v.dir = "up" THEN v.spent ELSE 0)
      <4>1. CASE v.dir = "up"
        <5>1. U1 = U \cup {v}
          BY <1>1, <2>7, <4>1
        <5>2. Sticks(U \cup {v}) = Sticks(U) + v.spent
          <6> HIDE DEF U
          <6> QED BY <2>4, SticksAdd
        <5> QED BY <4>1, <5>1, <5>2
      <4>2. CASE v.dir # "up"
        <5>1. U1 = U
          BY <1>1, <4>2
        <5> HIDE DEF U, U1
        <5> QED BY <3>4, <4>2, <5>1
      <4> QED BY <4>1, <4>2
    <3>6. Sticks(D1) = Sticks(D) + (IF v.dir = "down" THEN v.spent ELSE 0)
      <4>1. CASE v.dir = "down"
        <5>1. D1 = D \cup {v}
          BY <1>1, <2>7, <4>1
        <5>2. Sticks(D \cup {v}) = Sticks(D) + v.spent
          <6> HIDE DEF D
          <6> QED BY <2>4, SticksAdd
        <5> QED BY <4>1, <5>1, <5>2
      <4>2. CASE v.dir # "down"
        <5>1. D1 = D
          BY <1>1, <4>2
        <5> HIDE DEF D, D1
        <5> QED BY <3>4, <4>2, <5>1
      <4> QED BY <4>1, <4>2
    <3> HIDE DEF U, D, V, U1, D1, V1
    <3>7. stats[c].up = Sticks(U) /\ stats[c].down = Sticks(D) /\ stats[c].voters = Cardinality(V)
      BY <2>1, <2>2
    <3> QED BY <2>1, <3>1, <3>3, <3>5, <3>6, <3>7 DEF Counted
  <2> QED BY <2>6, <2>7
<1> QED BY <1>3, <1>5, <1>6 DEF TalliesOK

\* A wipe of some dates deletes rows, aggregates and cases of the same dates.
LEMMA WipeTally ==
  ASSUME TypeOK, TallyInv, NEW p \in Process, ResetToday(p) \/ ClearHistory(p)
  PROVE  IsFiniteSet(votes)' /\ RowsDated' /\ TalliesOK'
<1> DEFINE d == proc[p].day
<1>1. PICK Kept \in SUBSET Day :
        /\ votes' = {v \in votes : v.date \in Kept}
        /\ stats' = [c \in CaseId |-> IF CaseDate(c) \in Kept THEN stats[c] ELSE Zero]
        /\ \A c \in CaseId : CaseDate(c) \in Kept => caseStatus'[c] = caseStatus[c]
  <2>1. \A v \in votes : v.date \in Day
    BY DEF TypeOK, Vote
  <2>2. \A c \in CaseId : CaseDate(c) \in Day /\ CaseDate(c) \in Int
    BY Sorts DEF Day
  <2>3. d \in Day
    BY OpOK DEF ResetToday, ClearHistory, At
  <2>4. CASE ResetToday(p)
    <3> WITNESS Day \ {d} \in SUBSET Day
    <3>1. votes' = {v \in votes : v.date \in Day \ {d}}
      BY <2>1, <2>4 DEF ResetToday
    <3>2. stats' = [c \in CaseId |-> IF CaseDate(c) \in Day \ {d} THEN stats[c] ELSE Zero]
      BY <2>2, <2>4 DEF ResetToday, WithoutStats
    <3>3. \A c \in CaseId : CaseDate(c) \in Day \ {d} => caseStatus'[c] = caseStatus[c]
      BY <2>4 DEF ResetToday
    <3> QED BY <3>1, <3>2, <3>3
  <2>5. CASE ClearHistory(p)
    <3> WITNESS {x \in Day : x >= d} \in SUBSET Day
    <3>1. votes' = {v \in votes : v.date \in {x \in Day : x >= d}}
      BY <2>1, <2>5 DEF ClearHistory
    <3>2. stats' = [c \in CaseId |-> IF CaseDate(c) \in {x \in Day : x >= d}
                                     THEN stats[c] ELSE Zero]
      BY <2>2, <2>3, <2>5 DEF ClearHistory, WithoutStats, Day
    <3>3. \A c \in CaseId : CaseDate(c) \in {x \in Day : x >= d} => caseStatus'[c] = caseStatus[c]
      BY <2>2, <2>3, <2>5 DEF ClearHistory, Day
    <3> QED BY <3>1, <3>2, <3>3
  <2> QED BY <2>4, <2>5
<1>2. IsFiniteSet(votes')
  BY <1>1, FS_Subset DEF TallyInv
<1>3. RowsDated'
  BY <1>1 DEF RowsDated, TallyInv, Opened
<1>4. ASSUME NEW c \in CaseId PROVE stats'[c] = TallyOf(c)'
  <2>1. CASE CaseDate(c) \in Kept
    <3>1. /\ {v \in votes' : v.case = c /\ v.dir = "up"} = {v \in votes : v.case = c /\ v.dir = "up"}
          /\ {v \in votes' : v.case = c /\ v.dir = "down"} =
               {v \in votes : v.case = c /\ v.dir = "down"}
          /\ \A i \in Installation : HasVoted(i, c)' <=> HasVoted(i, c)
      BY <1>1, <2>1 DEF TallyInv, RowsDated, HasVoted
    <3>2. TallyOf(c)' = TallyOf(c)
      BY <3>1 DEF TallyOf
    <3> QED BY <1>1, <2>1, <3>2 DEF TallyInv, TalliesOK
  <2>2. CASE CaseDate(c) \notin Kept
    <3>1. /\ {v \in votes' : v.case = c /\ v.dir = "up"} = {}
          /\ {v \in votes' : v.case = c /\ v.dir = "down"} = {}
          /\ {i \in Installation : HasVoted(i, c)'} = {}
      BY <1>1, <2>2 DEF TallyInv, RowsDated, HasVoted
    <3>2. TallyOf(c)' = Zero
      BY <3>1, SticksEmpty, FS_EmptySet DEF TallyOf, Zero
    <3> QED BY <1>1, <2>2, <3>2
  <2> QED BY <2>1, <2>2
<1> QED BY <1>2, <1>3, <1>4 DEF TalliesOK

LEMMA TallyStep == TypeOK /\ ReceiptsMatchVotes /\ TallyInv /\ [Next]_vars => TallyInv'
<1> SUFFICES ASSUME TypeOK, ReceiptsMatchVotes, TallyInv, [Next]_vars PROVE TallyInv'
  OBVIOUS
<1>1. HeldToday'
  BY HeldStep DEF TallyInv
<1>2. CASE UNCHANGED <<votes, stats>>
  <2>1. \A c \in CaseId : caseStatus[c] # "none" =>
          caseStatus'[c] # "none" \/ \E p \in Process : ResetToday(p) \/ ClearHistory(p)
    <3>1. CASE UNCHANGED caseStatus
      BY <3>1
    <3>2. ASSUME NEW p \in Process, RollOver(p) \/ PublishCase(p)
          PROVE  \A c \in CaseId : caseStatus[c] # "none" => caseStatus'[c] # "none"
      BY <3>2 DEF RollOver, PublishCase, Opening
    <3> QED BY <3>1, <3>2, CaseFrame DEF Command
  <2>2. TalliesOK' /\ IsFiniteSet(votes)'
    BY <1>2 DEF TallyInv, TalliesOK, TallyOf, HasVoted
  <2>3. CASE \E p \in Process : ResetToday(p) \/ ClearHistory(p)
    BY <1>1, <2>3, WipeTally DEF TallyInv
  <2>4. CASE \A c \in CaseId : caseStatus[c] # "none" => caseStatus'[c] # "none"
    <3>1. RowsDated'
      BY <1>2, <2>4 DEF TallyInv, RowsDated, Opened
    <3> QED BY <1>1, <2>2, <3>1 DEF TallyInv
  <2> QED BY <2>1, <2>3, <2>4
<1>3. ASSUME NEW p \in Process, AcceptVote(p) PROVE TallyInv'
  BY <1>1, <1>3, AcceptTally DEF TallyInv
<1>4. ASSUME NEW p \in Process, ResetToday(p) \/ ClearHistory(p) PROVE TallyInv'
  BY <1>1, <1>4, WipeTally DEF TallyInv
<1> QED BY <1>2, <1>3, <1>4, StatsFrame

\* Incremental aggregates never drift from the vote rows, whatever is republished,
\* reset or cleared between two votes (store.ts: daily_liang_stats against liang_vote).
THEOREM TalliesAddUp == Spec => []StatsMatchVotes
<1>1. TallyInv => StatsMatchVotes
  BY DEF TallyInv, TalliesOK, StatsMatchVotes, Opened
<1> QED BY <1>1, TallyInit, TallyStep, TypeInvariant, ReceiptsAndVotesAgree, PTL DEF Spec
-----------------------------------------------------------------------------
(* What an installation is charged for.  The newest case of today is the    *)
(* active one, so today's votes are on it; an older date may get votes on   *)
(* an older case, which is why its charges are only bounded from below.     *)

Foremost(c, d) == c \in CasesOn(d) /\ \A x \in CasesOn(d) : x[2] <= c[2]

Spent(i, c) == Sticks({v \in votes : v.inst = i /\ v.case = c})

CasesNumbered == \A c \in Opened : c[2] <= published /\ CaseDate(c) <= clock
HandlersPast  == \A p \in Process : proc[p].pc # "idle" => proc[p].day <= clock
TodayOpen     == CasesOn(clock) # {} => \E c \in ActiveOn(clock) : Foremost(c, clock)
NothingAhead  == \A i \in Installation, d \in Day : d >= clock /\ CasesOn(d) = {} => used[i][d] = 0

\* The charge of one installation on one date, against the foremost case c.
ChargeMatches(i, c, d) ==
  /\ Spent(i, c) <= used[i][d]
  /\ d = clock => Spent(i, c) = used[i][d]

ChargesOK ==
  \A d \in Day, c \in CaseId : Foremost(c, d) => \A i \in Installation : ChargeMatches(i, c, d)

ChargeInv == CasesNumbered /\ HandlersPast /\ TodayOpen /\ NothingAhead /\ ChargesOK

LEMMA ClockFrame ==
  ASSUME [Next]_vars
  PROVE  \/ UNCHANGED <<clock, published>>
         \/ Midnight
         \/ UNCHANGED clock /\ \E p \in Process : PublishCase(p)
<1>1. ASSUME NEW p \in Process, Step(p)
      PROVE  UNCHANGED <<clock, published>> \/ (UNCHANGED clock /\ PublishCase(p))
  <2>1. CASE Call(p)
    BY <2>1 DEF Call, BeginSnapshot, BeginVote, BeginClaim, BeginBootstrap, BeginCommand,
       Begin, bounds
  <2>2. CASE EnsureActiveCase(p) \/ Bootstrap(p) \/ TokenClaim(p) \/ IgnoreClaim(p)
    BY <2>2 DEF EnsureActiveCase, FindActiveCase, RollOver, RollOverFails, Bootstrap,
       TokenClaim, IgnoreClaim, bounds
  <2>3. CASE CastVote(p)
    BY <2>3 DEF CastVote, ReplayVote, RejectTarget, RejectPoor, AcceptVote, bounds
  <2>4. CASE Publish(p) \/ Crash(p)
    BY <2>4 DEF Publish, ReadStats, ReadLatest, PublishSnapshot, Crash, bounds
  <2>5. CASE Command(p)
    BY <2>5 DEF Command, PublishCase, ResetToday, ClearHistory
  <2> QED BY <1>1, <2>1, <2>2, <2>3, <2>4, <2>5 DEF Step
<1> QED BY <1>1 DEF Next, vars, bounds

LEMMA ChargeFrame ==
  ASSUME [Next]_vars
  PROVE  \/ UNCHANGED <<clock, published, caseStatus, votes, used>>
         \/ Midnight
         \/ \E p \in Process : \/ RollOver(p) \/ AcceptVote(p) \/ PublishCase(p)
                               \/ ResetToday(p) \/ ClearHistory(p)
<1>1. \/ UNCHANGED caseStatus
      \/ \E p \in Process : RollOver(p) \/ PublishCase(p) \/ ResetToday(p) \/ ClearHistory(p)
  BY CaseFrame DEF Command
<1>2. \/ UNCHANGED votes
      \/ \E p \in Process : AcceptVote(p) \/ ResetToday(p) \/ ClearHistory(p)
  BY BallotFrame DEF ballots, RejectTarget, RejectPoor
<1>3. \/ UNCHANGED used
      \/ \E p \in Process : AcceptVote(p) \/ PublishCase(p) \/ ResetToday(p)
  BY BalanceFrame DEF balances, Bootstrap, TokenClaim, RejectPoor
<1> QED BY <1>1, <1>2, <1>3, ClockFrame

\* Cases are pairs of a date and a number.
LEMMA CasePairs ==
  /\ \A c \in CaseId : c = <<CaseDate(c), c[2]>> /\ c[2] \in 0 .. MaxPublish
  /\ \A d \in Day, n \in 0 .. MaxPublish : <<d, n>>[2] = n /\ CaseDate(<<d, n>>) = d
BY DEF CaseId, CaseDate

LEMMA ForemostIsOne ==
  ASSUME NEW c, NEW e, NEW d \in Day, Foremost(c, d), Foremost(e, d)
  PROVE  c = e
<1>1. c \in CaseId /\ e \in CaseId /\ CaseDate(c) = CaseDate(e)
  BY DEF Foremost, CasesOn
<1>2. c[2] \in Nat /\ e[2] \in Nat /\ c[2] <= e[2] /\ e[2] <= c[2]
  BY <1>1, CasePairs, BoundsAssumption DEF Foremost
<1> QED BY <1>1, <1>2, CasePairs

\* Where there is a case there is a newest one.
LEMMA NewestIsForemost ==
  ASSUME NEW d \in Day, CasesOn(d) # {}
  PROVE  Foremost(Newest(d), d)
<1> DEFINE B == {MaxPublish - c[2] : c \in CasesOn(d)}
<1>1. \A c \in CasesOn(d) : c[2] \in Nat /\ MaxPublish - c[2] \in Nat
  BY CasePairs, BoundsAssumption DEF CasesOn
<1>2. B \in SUBSET Nat /\ B # {}
  BY <1>1
<1>3. PICK m \in B : \A k \in B : m <= k
  <2> HIDE DEF B
  <2> QED BY <1>2, LeastNumber
<1>4. PICK c \in CasesOn(d) : m = MaxPublish - c[2]
  BY <1>3
<1>5. \A e \in CasesOn(d) : e[2] <= c[2]
  <2> TAKE e \in CasesOn(d)
  <2>1. m <= MaxPublish - e[2]
    BY <1>3
  <2> QED BY <1>1, <1>4, <2>1, BoundsAssumption
<1> QED BY <1>4, <1>5 DEF Newest, Foremost

\* On today's date the active case is the newest.
LEMMA ActiveIsForemost ==
  ASSUME TypeOK, OneActivePerDate, TodayOpen, NEW c \in ActiveOn(clock)
  PROVE  Foremost(c, clock)
<1>1. c \in CasesOn(clock)
  BY DEF ActiveOn, CasesOn
<1>2. PICK e \in ActiveOn(clock) : Foremost(e, clock)
  BY <1>1 DEF TodayOpen
<1>3. clock \in Day
  BY DEF TypeOK
<1> QED BY <1>2, <1>3 DEF OneActivePerDate

LEMMA SpentType ==
  ASSUME TypeOK, IsFiniteSet(votes), NEW i, NEW c
  PROVE  Spent(i, c) \in Nat
<1> DEFINE S == {v \in votes : v.inst = i /\ v.case = c}
<1>1. S \in SUBSET Vote /\ IsFiniteSet(S)
  BY FS_Subset DEF TypeOK
<1> HIDE DEF S
<1>2. Sticks(S) \in Nat
  BY <1>1, SticksType
<1> QED BY <1>2 DEF Spent, S

LEMMA SpentNothing ==
  ASSUME NEW i, NEW c, \A v \in votes : v.case # c
  PROVE  Spent(i, c) = 0
<1>1. {v \in votes : v.inst = i /\ v.case = c} = {}
  OBVIOUS
<1> QED BY <1>1, SticksEmpty DEF Spent

LEMMA ChargeInit == Init => ChargeInv
BY BoundsAssumption DEF Init, ChargeInv, CasesNumbered, HandlersPast, TodayOpen, NothingAhead,
   ChargesOK, Foremost, CasesOn, Opened, Idle

LEMMA PastStep == TypeOK /\ HandlersPast /\ [Next]_vars => HandlersPast'
<1> SUFFICES ASSUME TypeOK, HandlersPast, [Next]_vars PROVE HandlersPast'
  OBVIOUS
<1>1. clock \in Nat /\ clock' \in Nat /\ clock <= clock'
  <2>1. clock \in Day /\ clock' \in Day
    BY TypeStep DEF TypeOK
  <2>2. clock' = clock \/ clock' = clock + 1
    BY ClockFrame DEF Midnight
  <2> QED BY <2>1, <2>2, BoundsAssumption DEF Day
<1>2. \A q \in Process : proc[q].pc # "idle" => proc[q].day \in Nat /\ proc[q].day <= clock
  BY OpOK, BoundsAssumption DEF HandlersPast, Day
<1>3. CASE UNCHANGED proc
  BY <1>1, <1>2, <1>3 DEF HandlersPast
<1>4. ASSUME NEW p \in Process, Step(p) PROVE HandlersPast'
  <2>1. proc'[p].pc = "idle" \/ proc'[p].day = clock
        \/ (proc[p].pc # "idle" /\ proc'[p].day = proc[p].day)
    BY <1>4, HandlerFrame DEF Begins, GoesOn, TakesCase, Holding
  <2>2. \A q \in Process : q # p => proc'[q] = proc[q]
    BY <1>4, HandlerFrame
  <2> QED BY <1>1, <1>2, <2>1, <2>2 DEF HandlersPast
<1> QED BY <1>3, <1>4 DEF Next, Midnight, vars

LEMMA MidnightCharge ==
  ASSUME TypeOK, ChargeInv, Midnight
  PROVE  CasesNumbered' /\ TodayOpen' /\ NothingAhead' /\ ChargesOK'
<1>1. clock \in Nat /\ clock' = clock + 1 /\ UNCHANGED <<published, caseStatus, votes, used>>
  BY BoundsAssumption DEF Midnight, TypeOK, Day, balances, ballots
<1>2. \A c \in CaseId : CaseDate(c) \in Nat
  BY Sorts, BoundsAssumption DEF Day
<1>3. \A c \in Opened : CaseDate(c) \in Nat /\ CaseDate(c) <= clock
  BY <1>2 DEF ChargeInv, CasesNumbered, Opened
<1>4. CasesNumbered'
  BY <1>1, <1>3 DEF ChargeInv, CasesNumbered, Opened
<1>5. CasesOn(clock') = {}
  BY <1>1, <1>3 DEF CasesOn, Opened
<1>6. TodayOpen'
  BY <1>1, <1>5 DEF TodayOpen, CasesOn
<1>7. NothingAhead'
  BY <1>1, BoundsAssumption DEF ChargeInv, NothingAhead, CasesOn, Day
<1>8. ChargesOK'
  <2> SUFFICES ASSUME NEW d \in Day, NEW c \in CaseId, Foremost(c, d)', NEW i \in Installation
               PROVE  ChargeMatches(i, c, d)'
    BY DEF ChargesOK
  <2>1. Foremost(c, d) /\ d # clock'
    BY <1>1, <1>5 DEF Foremost, CasesOn
  <2>2. ChargeMatches(i, c, d)
    BY <2>1 DEF ChargeInv, ChargesOK
  <2> QED BY <1>1, <2>1, <2>2 DEF ChargeMatches, Spent
<1> QED BY <1>4, <1>6, <1>7, <1>8

LEMMA AcceptCharge ==
  ASSUME TypeOK, ReceiptsMatchVotes, OneActivePerDate, TallyInv, ChargeInv,
         NEW p \in Process, AcceptVote(p)
  PROVE  CasesNumbered' /\ TodayOpen' /\ NothingAhead' /\ ChargesOK'
<1> DEFINE j == proc[p].op.inst
           e == proc[p].day
           n == VoteSpend(proc[p].op, e)
<1>1. PICK v \in Vote :
        /\ v \notin votes /\ votes' = votes \cup {v}
        /\ v.inst = j /\ v.case = proc[p].op.case /\ v.spent = n
        /\ v.date = e /\ v.date = CaseDate(v.case)
        /\ caseStatus[v.case] = "active"
  BY NewRow DEF TallyInv
<1>2. UNCHANGED <<clock, published, caseStatus>> /\ used' = [used EXCEPT ![j][e] = @ + n]
  BY DEF AcceptVote, bounds
<1>3. j \in Installation /\ e \in Day /\ n \in Nat /\ v.case \in CaseId
  BY <1>1, Where, BoundsAssumption DEF Vote
<1>4. \A i \in Installation, d \in Day :
        used'[i][d] = used[i][d] + (IF i = j /\ d = e THEN n ELSE 0)
  <2>1. \A i \in Installation, d \in Day : used[i][d] \in Nat
    BY DEF TypeOK
  <2> HIDE DEF j, e, n
  <2> QED BY <1>2, <1>3, <2>1 DEF TypeOK
<1>5. v.case \in CasesOn(e)
  BY <1>1, <1>3 DEF CasesOn
<1>6. CasesNumbered' /\ TodayOpen'
  BY <1>2 DEF ChargeInv, CasesNumbered, Opened, TodayOpen, CasesOn, ActiveOn, Foremost
<1>7. NothingAhead'
  <2> SUFFICES ASSUME NEW i \in Installation, NEW d \in Day, d >= clock, CasesOn(d) = {}
               PROVE  used'[i][d] = 0
    BY <1>2 DEF NothingAhead, CasesOn
  <2>1. used[i][d] = 0 /\ d # e
    BY <1>5 DEF ChargeInv, NothingAhead
  <2> QED BY <1>4, <2>1
<1>8. ChargesOK'
  <2> SUFFICES ASSUME NEW d \in Day, NEW c \in CaseId, Foremost(c, d)', NEW i \in Installation
               PROVE  ChargeMatches(i, c, d)'
    BY DEF ChargesOK
  <2>1. Foremost(c, d)
    BY <1>2 DEF Foremost, CasesOn
  <2>2. ChargeMatches(i, c, d)
    BY <2>1 DEF ChargeInv, ChargesOK
  <2>3. Spent(i, c) \in Nat /\ used[i][d] \in Nat
    BY SpentType DEF TallyInv, TypeOK
  <2>4. Spent(i, c)' = Spent(i, c) + (IF i = j /\ c = v.case THEN n ELSE 0)
    <3> DEFINE S == {x \in votes : x.inst = i /\ x.case = c}
               S1 == {x \in votes' : x.inst = i /\ x.case = c}
    <3>1. S \in SUBSET Vote /\ IsFiniteSet(S) /\ v \notin S
      BY <1>1, FS_Subset DEF TypeOK, TallyInv
    <3>2. Spent(i, c) = Sticks(S) /\ Spent(i, c)' = Sticks(S1)
      BY DEF Spent
    <3>3. CASE i = j /\ c = v.case
      <4>1. S1 = S \cup {v}
        BY <1>1, <3>3
      <4> HIDE DEF S, S1
      <4>2. Sticks(S1) = Sticks(S) + v.spent
        BY <3>1, <4>1, SticksAdd
      <4> QED BY <1>1, <3>2, <3>3, <4>2
    <3>4. CASE ~ (i = j /\ c = v.case)
      <4>1. S1 = S
        BY <1>1, <3>4
      <4> QED BY <2>3, <3>2, <3>4, <4>1
    <3> QED BY <3>3, <3>4
  <2>5. c = v.case => d = e
    BY <1>1, <2>1 DEF Foremost, CasesOn
  <2>6. ASSUME d = clock, d = e PROVE c = v.case
    <3>1. v.case \in ActiveOn(clock)
      BY <1>1, <1>3, <2>6 DEF ActiveOn
    <3>2. Foremost(v.case, clock)
      BY <3>1, ActiveIsForemost DEF ChargeInv
    <3> QED BY <2>1, <2>6, <3>2, ForemostIsOne
  <2>7. used'[i][d] = used[i][d] + (IF i = j /\ d = e THEN n ELSE 0)
    BY <1>4
  <2> HIDE DEF j, e, n
  <2> QED BY <1>2, <1>3, <2>2, <2>3, <2>4, <2>5, <2>6, <2>7 DEF ChargeMatches
<1> QED BY <1>6, <1>7, <1>8

\* Opening a case that is the newest of its date, or the first: nothing is charged yet.
LEMMA OpenedUnspent ==
  ASSUME TypeOK, TallyInv, NEW c \in CaseId, caseStatus[c] = "none", NEW i
  PROVE  Spent(i, c) = 0
<1>1. \A v \in votes : v.case # c
  BY DEF TallyInv, RowsDated, Opened
<1> QED BY <1>1, SpentNothing

LEMMA RollOverCharge ==
  ASSUME TypeOK, TallyInv, ChargeInv, NEW p \in Process, RollOver(p)
  PROVE  CasesNumbered' /\ TodayOpen' /\ NothingAhead' /\ ChargesOK'
<1>0. PICK d \in Day : d = proc[p].day
  BY OpOK DEF RollOver, NeedsRollOver
<1> DEFINE c == <<d, 0>>
           fresh == ActiveOn(d) = {}
<1>1. d \in Day /\ d <= clock /\ clock \in Day
  BY <1>0 DEF RollOver, NeedsRollOver, ChargeInv, HandlersPast, TypeOK
<1>2. UNCHANGED <<clock, published, votes, used>>
  BY DEF RollOver, bounds, balances, ballots
<1>3. c \in CaseId /\ CaseDate(c) = d /\ c[2] = 0
  BY <1>1, CasePairs, Sorts, BoundsAssumption
<1>4. \A x \in CaseId :
        /\ caseStatus[x] # "none" => caseStatus'[x] # "none"
        /\ caseStatus'[x] # "none" => caseStatus[x] # "none" \/ (fresh /\ x = c)
        /\ caseStatus[x] = "active" /\ CaseDate(x) = clock => caseStatus'[x] = "active"
        /\ fresh => caseStatus'[c] = "active"
  <2>1. PICK y \in (IF fresh THEN {c} ELSE ActiveOn(d)) :
          caseStatus' = Opening(y, EarlierActive(d))
    BY <1>0 DEF RollOver
  <2>2. ~ fresh => caseStatus[y] # "none"
    BY <2>1 DEF ActiveOn
  <2>3. fresh => y = c
    BY <2>1
  <2>4. \A x \in EarlierActive(d) : CaseDate(x) # clock /\ caseStatus[x] # "none"
    BY <1>1 DEF EarlierActive, Day
  <2>5. \A x \in CaseId : caseStatus'[x] = IF x = y THEN "active"
                                         ELSE IF x \in EarlierActive(d) THEN "closed"
                                         ELSE caseStatus[x]
    BY <2>1 DEF Opening
  <2> HIDE DEF fresh, c
  <2> QED BY <1>3, <2>2, <2>3, <2>4, <2>5
<1>5. fresh => caseStatus[c] = "none"
  BY <1>0 DEF RollOver
<1>6. \A x \in Day : CasesOn(x)' = IF fresh /\ x = d THEN CasesOn(x) \cup {c} ELSE CasesOn(x)
  <2> HIDE DEF fresh
  <2> QED BY <1>3, <1>4 DEF CasesOn
<1>7. fresh /\ d = clock => CasesOn(d) = {}
  BY DEF ChargeInv, TodayOpen
<1>8. CasesNumbered'
  <2>1. 0 <= published
    BY BoundsAssumption DEF TypeOK
  <2> HIDE DEF fresh
  <2> QED BY <1>1, <1>2, <1>3, <1>4, <2>1 DEF ChargeInv, CasesNumbered, Opened
<1>9. TodayOpen'
  <2>1. CASE fresh /\ d = clock
    <3>1. CasesOn(clock)' = {c}
      BY <1>1, <1>2, <1>6, <1>7, <2>1
    <3>2. c \in ActiveOn(clock)' /\ Foremost(c, clock)'
      BY <1>2, <1>3, <1>4, <2>1, <3>1 DEF ActiveOn, Foremost
    <3> QED BY <3>2 DEF TodayOpen
  <2>2. CASE ~ (fresh /\ d = clock)
    <3>1. CasesOn(clock)' = CasesOn(clock)
      BY <1>1, <1>2, <1>6, <2>2
    <3>2. SUFFICES ASSUME CasesOn(clock) # {} PROVE \E x \in ActiveOn(clock)' : Foremost(x, clock)'
      BY <1>2, <3>1 DEF TodayOpen
    <3>3. PICK x \in ActiveOn(clock) : Foremost(x, clock)
      BY <3>2 DEF ChargeInv, TodayOpen
    <3>4. x \in ActiveOn(clock)' /\ Foremost(x, clock)'
      BY <1>2, <1>4, <3>1, <3>3 DEF ActiveOn, Foremost
    <3> QED BY <3>4
  <2> QED BY <2>1, <2>2
<1>10. NothingAhead'
  BY <1>2, <1>6 DEF ChargeInv, NothingAhead
<1>11. ChargesOK'
  <2> SUFFICES ASSUME NEW e \in Day, NEW x \in CaseId, Foremost(x, e)', NEW i \in Installation
               PROVE  ChargeMatches(i, x, e)'
    BY DEF ChargesOK
  <2>1. CASE Foremost(x, e)
    <3>1. ChargeMatches(i, x, e)
      BY <2>1 DEF ChargeInv, ChargesOK
    <3> QED BY <1>2, <3>1 DEF ChargeMatches, Spent
  <2>2. CASE ~ Foremost(x, e)
    <3>1. fresh /\ x = c /\ e = d
      BY <1>6, <2>2 DEF Foremost
    <3>2. Spent(i, x)' = 0
      BY <1>2, <1>3, <1>5, <3>1, OpenedUnspent DEF Spent
    <3>3. used'[i][e] \in Nat /\ (e = clock => used'[i][e] = 0)
      BY <1>1, <1>2, <1>7, <3>1 DEF ChargeInv, NothingAhead, TypeOK, Day
    <3> QED BY <1>2, <3>2, <3>3 DEF ChargeMatches
  <2> QED BY <2>1, <2>2
<1> QED BY <1>8, <1>9, <1>10, <1>11

LEMMA PublishCharge ==
  ASSUME TypeOK, TallyInv, ChargeInv, NEW p \in Process, PublishCase(p)
  PROVE  CasesNumbered' /\ TodayOpen' /\ NothingAhead' /\ ChargesOK'
<1>0. PICK d \in Day : d = proc[p].day
  BY OpOK DEF PublishCase, At
<1>c. PICK c : c = <<d, published + 1>>
  OBVIOUS
<1>1. d \in Day /\ d <= clock /\ clock \in Day
  BY <1>0 DEF PublishCase, At, ChargeInv, HandlersPast, TypeOK
<1>2. /\ published' = published + 1 /\ published \in Nat
      /\ caseStatus' = Opening(c, Outgoing(d)) /\ used' = Forgiven(d)
      /\ UNCHANGED <<clock, votes>>
  BY <1>0, <1>c, BoundsAssumption DEF PublishCase, ballots, TypeOK
<1>3. c \in CaseId /\ CaseDate(c) = d /\ c[2] = published + 1
  <2>1. published + 1 \in 0 .. MaxPublish
    BY BoundsAssumption DEF PublishCase, TypeOK
  <2> QED BY <1>c, <1>1, <2>1, CasePairs, Sorts
<1>4. caseStatus[c] = "none" /\ \A x \in Opened : x[2] \in Nat /\ x[2] <= published
  <2>1. \A x \in Opened : x[2] \in Nat /\ x[2] <= published
    BY CasePairs, BoundsAssumption DEF ChargeInv, CasesNumbered, Opened
  <2> QED BY <1>2, <1>3, <2>1 DEF Opened
<1>5. /\ \A x \in CaseId : caseStatus'[x] # "none" <=> caseStatus[x] # "none" \/ x = c
      /\ caseStatus'[c] = "active"
      /\ \A x \in CaseId : CaseDate(x) \notin {y \in Day : y <= d} => caseStatus'[x] = caseStatus[x]
  <2>1. \A x \in Outgoing(d) : caseStatus[x] = "active" /\ CaseDate(x) \in {y \in Day : y <= d}
    BY <1>1, Sorts DEF Outgoing, EarlierActive, ActiveOn, Day
  <2>2. CaseDate(c) \in {y \in Day : y <= d}
    BY <1>1, <1>3 DEF Day
  <2> QED BY <1>2, <1>3, <2>1, <2>2 DEF Opening
<1>6. \A x \in Day : CasesOn(x)' = IF x = d THEN CasesOn(x) \cup {c} ELSE CasesOn(x)
  BY <1>3, <1>5 DEF CasesOn
<1>7. Foremost(c, d)'
  <2>1. \A x \in CasesOn(d) : x[2] <= c[2]
    BY <1>2, <1>3, <1>4 DEF CasesOn, Opened
  <2>2. c[2] <= c[2]
    BY <1>2, <1>3
  <2>3. CasesOn(d)' = CasesOn(d) \cup {c}
    BY <1>1, <1>6
  <2> QED BY <2>1, <2>2, <2>3 DEF Foremost
<1>8. CasesNumbered'
  BY <1>1, <1>2, <1>3, <1>4, <1>5 DEF ChargeInv, CasesNumbered, Opened
<1>9. TodayOpen'
  <2>1. CASE d = clock
    <3>1. c \in ActiveOn(clock)'
      BY <1>2, <1>3, <1>5, <2>1 DEF ActiveOn
    <3> QED BY <1>2, <1>7, <2>1, <3>1 DEF TodayOpen
  <2>2. CASE d # clock
    <3>1. CasesOn(clock)' = CasesOn(clock)
      BY <1>1, <1>2, <1>6, <2>2
    <3>2. SUFFICES ASSUME CasesOn(clock) # {} PROVE \E x \in ActiveOn(clock)' : Foremost(x, clock)'
      BY <1>2, <3>1 DEF TodayOpen
    <3>3. PICK x \in ActiveOn(clock) : Foremost(x, clock)
      BY <3>2 DEF ChargeInv, TodayOpen
    <3>4. caseStatus'[x] = caseStatus[x]
      BY <1>1, <1>5, <2>2, <3>3 DEF ActiveOn, Day
    <3>5. x \in ActiveOn(clock)' /\ Foremost(x, clock)'
      BY <1>2, <3>1, <3>3, <3>4 DEF ActiveOn, Foremost
    <3> QED BY <3>5
  <2> QED BY <2>1, <2>2
<1>10. \A i \in Installation, x \in Day : used'[i][x] = IF x = d THEN 0 ELSE used[i][x]
  BY <1>2 DEF Forgiven, TypeOK
<1>11. NothingAhead'
  BY <1>2, <1>6, <1>10 DEF ChargeInv, NothingAhead
<1>12. ChargesOK'
  <2> SUFFICES ASSUME NEW e \in Day, NEW x \in CaseId, Foremost(x, e)', NEW i \in Installation
               PROVE  ChargeMatches(i, x, e)'
    BY DEF ChargesOK
  <2>1. CASE e = d
    <3>1. x \in CasesOn(d)' /\ c[2] <= x[2]
      BY <1>7, <2>1 DEF Foremost
    <3>2. x = c
      BY <1>2, <1>3, <1>4, <1>6, <3>1 DEF CasesOn, Opened
    <3>3. Spent(i, x)' = 0
      BY <1>2, <1>3, <1>4, <3>2, OpenedUnspent DEF Spent
    <3> QED BY <1>10, <2>1, <3>3 DEF ChargeMatches
  <2>2. CASE e # d
    <3>1. Foremost(x, e)
      BY <1>6, <2>2 DEF Foremost
    <3>2. ChargeMatches(i, x, e)
      BY <3>1 DEF ChargeInv, ChargesOK
    <3> QED BY <1>2, <1>10, <2>2, <3>2 DEF ChargeMatches, Spent
  <2> QED BY <2>1, <2>2
<1> QED BY <1>8, <1>9, <1>11, <1>12

\* A wipe deletes rows, cases and, for the date of a reset, charges.
LEMMA WipeCharge ==
  ASSUME TypeOK, OneActivePerDate, TallyInv, ChargeInv,
         NEW p \in Process, ResetToday(p) \/ ClearHistory(p)
  PROVE  CasesNumbered' /\ TodayOpen' /\ NothingAhead' /\ ChargesOK'
<1>0. PICK d \in Day : d = proc[p].day /\ proc[p].pc # "idle"
  BY OpOK DEF ResetToday, ClearHistory, At
<1>1. d \in Day /\ d <= clock /\ clock \in Day /\ d \in Nat
  BY <1>0, BoundsAssumption DEF ChargeInv, HandlersPast, TypeOK, Day
<1>2. UNCHANGED <<clock, published>>
  BY DEF ResetToday, ClearHistory
<1>3. \A c \in CaseId : CaseDate(c) \in Day /\ CaseDate(c) \in Nat
  BY Sorts, BoundsAssumption DEF Day
<1>4. \A c \in CaseId : /\ caseStatus'[c] # "none" => caseStatus[c] # "none"
                        /\ caseStatus'[c] = "active" => caseStatus[c] = "active"
  BY DEF ResetToday, ClearHistory
<1>5. CasesNumbered'
  BY <1>2, <1>4 DEF ChargeInv, CasesNumbered, Opened
<1>6. CASE ClearHistory(p)
  <2>1. \A c \in CaseId : caseStatus'[c] = IF CaseDate(c) < d THEN "none" ELSE caseStatus[c]
    BY <1>0, <1>6 DEF ClearHistory
  <2>2. \A x \in Day : CasesOn(x)' = IF x < d THEN {} ELSE CasesOn(x)
    BY <2>1 DEF CasesOn
  <2>3. ActiveOn(clock)' = ActiveOn(clock) /\ CasesOn(clock)' = CasesOn(clock)
    BY <1>1, <1>2, <2>1, <2>2 DEF ActiveOn, Day
  <2>4. TodayOpen'
    BY <1>2, <2>3 DEF ChargeInv, TodayOpen, Foremost
  <2>5. UNCHANGED used /\ votes' = {v \in votes : v.date >= d}
    BY <1>0, <1>6 DEF ClearHistory, balances
  <2>6. NothingAhead'
    BY <1>1, <1>2, <2>2, <2>5 DEF ChargeInv, NothingAhead, Day
  <2>7. ChargesOK'
    <3> SUFFICES ASSUME NEW e \in Day, NEW c \in CaseId, Foremost(c, e)', NEW i \in Installation
                 PROVE  ChargeMatches(i, c, e)'
      BY DEF ChargesOK
    <3>1. e >= d /\ Foremost(c, e) /\ CaseDate(c) = e
      BY <1>1, <2>2 DEF Foremost, CasesOn, Day
    <3>2. ChargeMatches(i, c, e)
      BY <3>1 DEF ChargeInv, ChargesOK
    <3>3. {v \in votes' : v.inst = i /\ v.case = c} = {v \in votes : v.inst = i /\ v.case = c}
      BY <2>5, <3>1 DEF TallyInv, RowsDated
    <3> QED BY <1>2, <2>5, <3>2, <3>3 DEF ChargeMatches, Spent
  <2> QED BY <1>5, <2>4, <2>6, <2>7
<1>7. CASE ResetToday(p)
  <2>1. \A c \in CaseId : caseStatus'[c] = IF CaseDate(c) = d /\ caseStatus[c] = "closed"
                                           THEN "none" ELSE caseStatus[c]
    BY <1>0, <1>7 DEF ResetToday
  <2>2. \A c \in CaseId : caseStatus[c] \in {"none", "active", "closed"}
    BY DEF TypeOK
  <2>3. \A x \in Day : /\ ActiveOn(x)' = ActiveOn(x)
                      /\ CasesOn(x)' = IF x = d THEN ActiveOn(x) ELSE CasesOn(x)
    BY <2>1, <2>2 DEF ActiveOn, CasesOn
  <2>4. ActiveOn(d) # {} /\ used' = Forgiven(d) /\ votes' = {v \in votes : v.date # d}
    BY <1>0, <1>7 DEF ResetToday
  <2>5. \A i \in Installation, x \in Day : used'[i][x] = IF x = d THEN 0 ELSE used[i][x]
    BY <2>4 DEF Forgiven, TypeOK
  <2>6. TodayOpen'
    <3>1. CASE d = clock
      <4>1. PICK c \in ActiveOn(clock) : TRUE
        BY <2>4, <3>1
      <4>2. ActiveOn(clock) = {c} /\ c[2] <= c[2]
        <5>1. c \in CaseId
          BY DEF ActiveOn
        <5>2. c[2] \in Nat
          BY <5>1, CasePairs, BoundsAssumption
        <5>3. \A e \in ActiveOn(clock) : e = c
          BY <1>1, <4>1 DEF OneActivePerDate
        <5> QED BY <4>1, <5>2, <5>3
      <4>3. c \in ActiveOn(clock)' /\ Foremost(c, clock)'
        BY <1>1, <1>2, <2>3, <3>1, <4>2 DEF Foremost
      <4> QED BY <4>3 DEF TodayOpen
    <3>2. CASE d # clock
      BY <1>1, <1>2, <2>3, <3>2 DEF ChargeInv, TodayOpen, Foremost
    <3> QED BY <3>1, <3>2
  <2>7. NothingAhead'
    BY <1>2, <2>3, <2>5 DEF ChargeInv, NothingAhead
  <2>8. ChargesOK'
    <3> SUFFICES ASSUME NEW e \in Day, NEW c \in CaseId, Foremost(c, e)', NEW i \in Installation
                 PROVE  ChargeMatches(i, c, e)'
      BY DEF ChargesOK
    <3>1. CASE e = d
      <4>1. CaseDate(c) = d
        BY <3>1 DEF Foremost, CasesOn
      <4>2. \A v \in votes' : v.case # c
        BY <2>4, <4>1 DEF TallyInv, RowsDated
      <4>3. Spent(i, c)' = 0
        BY <4>2, SticksEmpty DEF Spent
      <4> QED BY <2>5, <3>1, <4>3 DEF ChargeMatches
    <3>2. CASE e # d
      <4>1. Foremost(c, e) /\ CaseDate(c) = e
        BY <2>3, <3>2 DEF Foremost, CasesOn
      <4>2. ChargeMatches(i, c, e)
        BY <4>1 DEF ChargeInv, ChargesOK
      <4>3. {v \in votes' : v.inst = i /\ v.case = c} = {v \in votes : v.inst = i /\ v.case = c}
        BY <2>4, <3>2, <4>1 DEF TallyInv, RowsDated
      <4> QED BY <1>2, <2>5, <3>2, <4>2, <4>3 DEF ChargeMatches, Spent
    <3> QED BY <3>1, <3>2
  <2> QED BY <1>5, <2>6, <2>7, <2>8
<1> QED BY <1>6, <1>7

LEMMA ChargeStep ==
  TypeOK /\ ReceiptsMatchVotes /\ OneActivePerDate /\ TallyInv /\ ChargeInv /\ [Next]_vars
    => ChargeInv'
<1> SUFFICES ASSUME TypeOK, ReceiptsMatchVotes, OneActivePerDate, TallyInv, ChargeInv, [Next]_vars
             PROVE  ChargeInv'
  OBVIOUS
<1>1. HandlersPast'
  BY PastStep DEF ChargeInv
<1>2. CASE UNCHANGED <<clock, published, caseStatus, votes, used>>
  BY <1>1, <1>2 DEF ChargeInv, CasesNumbered, TodayOpen, NothingAhead, ChargesOK, Foremost,
     ChargeMatches, Spent, CasesOn, ActiveOn, Opened
<1>3. CASE Midnight
  BY <1>1, <1>3, MidnightCharge DEF ChargeInv
<1>4. ASSUME NEW p \in Process,
             \/ RollOver(p) \/ AcceptVote(p) \/ PublishCase(p) \/ ResetToday(p) \/ ClearHistory(p)
      PROVE  ChargeInv'
  BY <1>1, <1>4, RollOverCharge, AcceptCharge, PublishCharge, WipeCharge DEF ChargeInv
<1> QED BY <1>2, <1>3, <1>4, ChargeFrame

LEMMA ChargesMeanUsed == TypeOK /\ ChargeInv => UsedMatchesVotes
<1> SUFFICES ASSUME TypeOK, ChargeInv, NEW d \in Day, CasesOn(d) # {}, NEW i \in Installation
             PROVE  ChargeMatches(i, Newest(d), d)
  BY DEF UsedMatchesVotes, ChargeMatches, Spent
<1>1. Foremost(Newest(d), d) /\ Newest(d) \in CaseId
  BY NewestIsForemost DEF Foremost, CasesOn
<1> QED BY <1>1 DEF ChargeInv, ChargesOK

\* Every stick charged today is on today's newest case, and a republication, a reset or
\* a retry never leaves a charge without its vote (store.ts: used_incense against
\* liang_vote, service.ts:1090-1112).
THEOREM ChargesAreVotes == Spec => []UsedMatchesVotes
BY ChargeInit, ChargeStep, ChargesMeanUsed, TallyInit, TallyStep, TypeInvariant,
   ReceiptsAndVotesAgree, OneActiveCasePerDate, PTL DEF Spec
-----------------------------------------------------------------------------
(* The archive.  A date is frozen when it has no active case left.  A call  *)
(* that still holds the date may open a case on it, but no vote: a vote     *)
(* names a case that was open when the call began.                          *)

VotesOpened == \A p \in Process :
  proc[p].op.kind = "vote" => proc[p].op.case \in Opened \cup {UnknownCase}

FrozenShut == \A d \in Day : archive[d] # NoTally =>
  /\ d < clock
  /\ \A p \in Process :
       proc[p].op.kind = "vote" /\ proc[p].day = d => proc[p].op.case \notin ActiveOn(d)

FrozenRight == \A d \in Day : archive[d] # NoTally => archive[d] = DayTotal(d)

ArchiveInv == wipes = 0 => VotesOpened /\ FrozenShut /\ FrozenRight

LEMMA ArchiveFrame ==
  ASSUME TypeOK, [Next]_vars
  PROVE  \/ UNCHANGED <<archive, caseStatus, votes, stats, wipes>>
         \/ \E p \in Process : RollOver(p) \/ PublishCase(p) \/ AcceptVote(p)
         \/ wipes' # 0
<1>1. \/ UNCHANGED <<archive, wipes>>
      \/ \E p \in Process : RollOver(p) \/ PublishCase(p) \/ AcceptVote(p)
      \/ wipes' # 0
  <2>1. ASSUME NEW p \in Process, Step(p), ~ RollOver(p)
        PROVE  UNCHANGED <<archive, wipes>> \/ wipes' # 0
    <3>1. CASE Call(p)
      BY <3>1 DEF Call, BeginSnapshot, BeginVote, BeginClaim, BeginBootstrap, BeginCommand,
         Begin, bounds
    <3>2. CASE FindActiveCase(p) \/ RollOverFails(p) \/ Bootstrap(p) \/ TokenClaim(p)
               \/ IgnoreClaim(p)
      BY <3>2 DEF FindActiveCase, RollOverFails, Bootstrap, TokenClaim, IgnoreClaim, bounds
    <3>3. CASE CastVote(p)
      BY <3>3 DEF CastVote, ReplayVote, RejectTarget, RejectPoor, AcceptVote, bounds
    <3>4. CASE Publish(p) \/ Crash(p)
      BY <3>4 DEF Publish, ReadStats, ReadLatest, PublishSnapshot, Crash, bounds
    <3>5. CASE Command(p)
      <4>1. wipes \in Nat
        BY BoundsAssumption DEF TypeOK
      <4> QED BY <3>5, <4>1 DEF Command, PublishCase, ResetToday, ClearHistory
    <3> QED BY <2>1, <3>1, <3>2, <3>3, <3>4, <3>5 DEF Step, EnsureActiveCase
  <2>2. CASE UNCHANGED vars \/ Midnight
    BY <2>2 DEF vars, bounds, Midnight
  <2> QED BY <2>1, <2>2 DEF Next
<1>2. ASSUME NEW p \in Process, ResetToday(p) \/ ClearHistory(p) PROVE wipes' # 0
  <2>1. wipes \in Nat
    BY BoundsAssumption DEF TypeOK
  <2> QED BY <1>2, <2>1 DEF ResetToday, ClearHistory
<1> QED BY <1>1, <1>2, CaseFrame, StatsFrame DEF Command

\* The total of a date is kept when its voters and the aggregates of its cases are, and
\* when a case without votes joins them.
LEMMA DayTotalKept ==
  ASSUME TypeOK, NEW d \in Day, NEW c \in CaseId,
         VotersOn(d)' = VotersOn(d),
         \A x \in CasesOn(d) : stats'[x] = stats[x],
         \/ CasesOn(d)' = CasesOn(d)
         \/ CasesOn(d)' = CasesOn(d) \cup {c} /\ stats'[c] = Zero
  PROVE  DayTotal(d)' = DayTotal(d)
<1> DEFINE S  == CasesOn(d)
           T  == CasesOn(d)'
           u  == [x \in S |-> stats[x].up]
           u1 == [x \in T |-> stats'[x].up]
           w  == [x \in S |-> stats[x].down]
           w1 == [x \in T |-> stats'[x].down]
<1>1. IsFiniteSet(S)
  <2>1. 1 \in Int /\ 0 \in Int /\ LastDay \in Int /\ MaxPublish \in Int
    BY BoundsAssumption
  <2>2. IsFiniteSet(1 .. LastDay)
    BY <2>1, FS_Interval
  <2>3. IsFiniteSet(0 .. MaxPublish)
    BY <2>1, FS_Interval
  <2>4. IsFiniteSet(CaseId)
    BY <2>2, <2>3, FS_Product DEF CaseId, Day
  <2>5. S \in SUBSET CaseId
    BY DEF CasesOn
  <2> HIDE DEF S
  <2> QED BY <2>4, <2>5, FS_Subset
<1>2. \A x \in S : u[x] \in Int /\ w[x] \in Int
  BY DEF CasesOn, TypeOK, Tally
<1>3. /\ S \subseteq T
      /\ \A x \in S : u1[x] = u[x] /\ w1[x] = w[x]
      /\ T # S => T = S \cup {c} /\ c \notin S /\ u1[c] = 0 /\ w1[c] = 0
  <2>1. S \subseteq T /\ (T # S => T = S \cup {c} /\ c \notin S /\ stats'[c] = Zero)
    OBVIOUS
  <2>2. \A x \in S : u1[x] = u[x] /\ w1[x] = w[x]
    BY <2>1
  <2>3. stats'[c] = Zero /\ c \in T => u1[c] = 0 /\ w1[c] = 0
    BY DEF Zero
  <2> HIDE DEF S, T, u, u1, w, w1
  <2> QED BY <2>1, <2>2, <2>3
<1>4. /\ DayTotal(d) = [seq |-> 1, up |-> SumFunctionOnSet(u, S), down |-> SumFunctionOnSet(w, S),
                        voters |-> Cardinality(VotersOn(d))]
      /\ DayTotal(d)' = [seq |-> 1, up |-> SumFunctionOnSet(u1, T),
                         down |-> SumFunctionOnSet(w1, T), voters |-> Cardinality(VotersOn(d))]
  BY DEF DayTotal
<1> HIDE DEF S, T, u, u1, w, w1
<1>5. SumFunctionOnSet(u1, S) = SumFunctionOnSet(u, S) /\ SumFunctionOnSet(w1, S) = SumFunctionOnSet(w, S)
  BY <1>1, <1>2, <1>3, SumSame
<1>6. SumFunctionOnSet(u, S) \in Int /\ SumFunctionOnSet(w, S) \in Int
  BY <1>1, <1>2, SumType
<1>7. SumFunctionOnSet(u1, T) = SumFunctionOnSet(u1, S) /\ SumFunctionOnSet(w1, T) = SumFunctionOnSet(w1, S)
  <2>1. CASE T = S
    BY <2>1
  <2>2. CASE T # S
    <3>1. T = S \cup {c} /\ c \notin S /\ u1[c] = 0 /\ w1[c] = 0
      BY <1>3, <2>2
    <3>2. \A x \in S \cup {c} : u1[x] \in Int /\ w1[x] \in Int
      BY <1>2, <1>3, <3>1
    <3>3. SumFunctionOnSet(u1, S \cup {c}) = SumFunctionOnSet(u1, S) + u1[c]
      BY <1>1, <3>1, <3>2, SumAdd
    <3>4. SumFunctionOnSet(w1, S \cup {c}) = SumFunctionOnSet(w1, S) + w1[c]
      BY <1>1, <3>1, <3>2, SumAdd
    <3> QED BY <1>5, <1>6, <3>1, <3>3, <3>4
  <2> QED BY <2>1, <2>2
<1> QED BY <1>4, <1>5, <1>7

\* A case that is opened has no votes yet.
LEMMA OpenedEmpty ==
  ASSUME TypeOK, TallyInv, NEW c \in CaseId, caseStatus[c] = "none"
  PROVE  stats[c] = Zero
<1>1. \A v \in votes : v.case # c
  BY DEF TallyInv, RowsDated, Opened
<1>2. /\ {v \in votes : v.case = c /\ v.dir = "up"} = {}
      /\ {v \in votes : v.case = c /\ v.dir = "down"} = {}
      /\ {i \in Installation : HasVoted(i, c)} = {}
  BY <1>1 DEF HasVoted
<1>3. TallyOf(c) = Zero
  BY <1>2, SticksEmpty, FS_EmptySet DEF TallyOf, Zero
<1> QED BY <1>3 DEF TallyInv, TalliesOK

\* The steps that open a case, of the date of a process.
LEMMA OpenStep ==
  ASSUME TypeOK, TallyInv, ChargeInv, NEW p \in Process, RollOver(p) \/ PublishCase(p)
  PROVE  \E d \in Day, c \in CaseId :
           /\ d = proc[p].day /\ d <= clock /\ CaseDate(c) = d
           /\ \A x \in CaseId : caseStatus'[x] = "active" => caseStatus[x] = "active" \/ x = c
           /\ \/ caseStatus[c] = "none" /\ stats[c] = Zero
                 /\ \A x \in CaseId : caseStatus'[x] # "none" <=> (caseStatus[x] # "none" \/ x = c)
              \/ caseStatus[c] = "active"
                 /\ \A x \in CaseId : caseStatus'[x] # "none" <=> caseStatus[x] # "none"
           /\ RollOver(p) => \A x \in CaseId :
                caseStatus'[x] = "active" => ~ (CaseDate(x) < d)
<1>0. PICK d \in Day : d = proc[p].day /\ proc[p].pc # "idle"
  BY OpOK DEF RollOver, NeedsRollOver, PublishCase, At
<1>1. d <= clock
  BY <1>0 DEF ChargeInv, HandlersPast
<1>2. CASE RollOver(p)
  <2>1. PICK c \in (IF ActiveOn(d) = {} THEN {<<d, 0>>} ELSE ActiveOn(d)) :
          caseStatus' = Opening(c, EarlierActive(d))
    BY <1>0, <1>2 DEF RollOver
  <2>2. c \in CaseId /\ CaseDate(c) = d
    BY <2>1, CasePairs, Sorts, BoundsAssumption DEF ActiveOn
  <2>3. (caseStatus[c] = "none" /\ stats[c] = Zero) \/ caseStatus[c] = "active"
    <3>1. CASE ActiveOn(d) = {}
      <4>1. caseStatus[c] = "none"
        BY <1>0, <1>2, <2>1, <3>1 DEF RollOver
      <4> QED BY <2>2, <4>1, OpenedEmpty
    <3>2. CASE ActiveOn(d) # {}
      BY <2>1, <3>2 DEF ActiveOn
    <3> QED BY <3>1, <3>2
  <2>4. \A x \in CaseId : caseStatus'[x] = IF x = c THEN "active"
                                         ELSE IF x \in EarlierActive(d) THEN "closed"
                                         ELSE caseStatus[x]
    BY <2>1 DEF Opening
  <2>5. \A x \in CaseId : x \in EarlierActive(d) <=> CaseDate(x) < d /\ caseStatus[x] = "active"
    BY DEF EarlierActive
  <2>6. ~ (CaseDate(c) < d)
    BY <2>2, BoundsAssumption DEF Day
  <2>7. \A x \in CaseId : caseStatus'[x] = "active" => caseStatus[x] = "active" \/ x = c
    BY <2>4
  <2>8. \A x \in CaseId : caseStatus'[x] # "none" <=> (caseStatus[x] # "none" \/ x = c)
    BY <2>4, <2>5
  <2>9. \A x \in CaseId : caseStatus'[x] = "active" => ~ (CaseDate(x) < d)
    BY <2>4, <2>5, <2>6
  <2>10. caseStatus[c] = "active" =>
           \A x \in CaseId : caseStatus'[x] # "none" <=> caseStatus[x] # "none"
    BY <2>8
  <2> QED BY <1>0, <1>1, <2>2, <2>3, <2>7, <2>8, <2>9, <2>10
<1>3. CASE PublishCase(p)
  <2>c. PICK c : c = <<d, published + 1>>
    OBVIOUS
  <2>1. caseStatus' = Opening(c, Outgoing(d)) /\ published + 1 \in 0 .. MaxPublish
        /\ published \in Nat
    BY <1>0, <1>3, <2>c, BoundsAssumption DEF PublishCase, TypeOK
  <2>2. c \in CaseId /\ CaseDate(c) = d /\ c[2] = published + 1
    BY <2>c, <2>1, CasePairs, Sorts
  <2>3. caseStatus[c] = "none"
    BY <2>1, <2>2 DEF ChargeInv, CasesNumbered, Opened
  <2>4. stats[c] = Zero
    BY <2>2, <2>3, OpenedEmpty
  <2>5. \A x \in Outgoing(d) : caseStatus[x] = "active"
    BY DEF Outgoing, EarlierActive, ActiveOn
  <2>6. \A x \in CaseId : caseStatus'[x] = IF x = c THEN "active"
                                         ELSE IF x \in Outgoing(d) THEN "closed"
                                         ELSE caseStatus[x]
    BY <2>1 DEF Opening
  <2>7. \A x \in CaseId : caseStatus'[x] = "active" => caseStatus[x] = "active" \/ x = c
    BY <2>6
  <2>8. \A x \in CaseId : caseStatus'[x] # "none" <=> (caseStatus[x] # "none" \/ x = c)
    BY <2>5, <2>6
  <2>9. ~ RollOver(p)
    BY <1>3 DEF PublishCase, RollOver, NeedsRollOver, At
  <2> QED BY <1>0, <1>1, <2>2, <2>3, <2>4, <2>7, <2>8, <2>9
<1> QED BY <1>2, <1>3

\* Votes name cases that are open, as long as no command deletes any.
LEMMA OpenedStep ==
  ASSUME TypeOK, VotesOpened, [Next]_vars, Opened \subseteq Opened'
  PROVE  VotesOpened'
<1>1. CASE UNCHANGED proc
  BY <1>1 DEF VotesOpened
<1>2. ASSUME NEW p \in Process, Step(p) PROVE VotesOpened'
  BY <1>2, HandlerFrame DEF VotesOpened, Begins, GoesOn, TakesCase
<1> QED BY <1>1, <1>2 DEF Next, Midnight, vars

\* What a step does to the votes that are under way on a past date.
LEMMA PastVotes ==
  ASSUME TypeOK, [Next]_vars, NEW q \in Process, NEW d \in Day, d < clock,
         proc'[q].op.kind = "vote", proc'[q].day = d
  PROVE  proc[q].op = proc'[q].op /\ proc[q].day = d
<1>0. clock \in Nat /\ d \in Nat
  BY BoundsAssumption DEF TypeOK, Day
<1>1. CASE UNCHANGED proc
  BY <1>1
<1>2. ASSUME NEW p \in Process, Step(p) PROVE proc[q].op = proc'[q].op /\ proc[q].day = d
  BY <1>0, <1>2, HandlerFrame DEF Begins, GoesOn, TakesCase
<1> QED BY <1>1, <1>2 DEF Next, Midnight, vars

LEMMA ClockGrows ==
  ASSUME TypeOK, [Next]_vars
  PROVE  clock \in Nat /\ clock' \in Nat /\ clock <= clock'
<1>1. clock \in Day /\ clock' \in Day
  BY TypeStep DEF TypeOK
<1>2. clock' = clock \/ clock' = clock + 1
  BY ClockFrame DEF Midnight
<1> QED BY <1>1, <1>2, BoundsAssumption DEF Day

LEMMA OpenArchive ==
  ASSUME TypeOK, TallyInv, ChargeInv, VotesOpened, FrozenShut, FrozenRight, [Next]_vars,
         NEW p \in Process, RollOver(p) \/ PublishCase(p)
  PROVE  Opened \subseteq Opened' /\ FrozenShut' /\ FrozenRight'
<1>1. PICK d \in Day, c \in CaseId :
        /\ d = proc[p].day /\ d <= clock /\ CaseDate(c) = d
        /\ \A x \in CaseId : caseStatus'[x] = "active" => caseStatus[x] = "active" \/ x = c
        /\ \/ caseStatus[c] = "none" /\ stats[c] = Zero
              /\ \A x \in CaseId : caseStatus'[x] # "none" <=> (caseStatus[x] # "none" \/ x = c)
           \/ caseStatus[c] = "active"
              /\ \A x \in CaseId : caseStatus'[x] # "none" <=> caseStatus[x] # "none"
        /\ RollOver(p) => \A x \in CaseId : caseStatus'[x] = "active" => ~ (CaseDate(x) < d)
  BY OpenStep
<1>2. UNCHANGED <<votes, stats>> /\ ((archive' = Finalized(d) /\ RollOver(p)) \/ UNCHANGED archive)
  BY <1>1 DEF RollOver, PublishCase, ballots
<1>3. Opened \subseteq Opened'
  BY <1>1 DEF Opened
<1>4. ASSUME NEW e \in Day PROVE DayTotal(e)' = DayTotal(e)
  <2>1. VotersOn(e)' = VotersOn(e)
    BY <1>2 DEF VotersOn
  <2>2. \/ CasesOn(e)' = CasesOn(e)
        \/ CasesOn(e)' = CasesOn(e) \cup {c} /\ stats'[c] = Zero
    <3>1. CASE caseStatus[c] = "active" \/ e # d
      <4>1. CasesOn(e)' = CasesOn(e)
        BY <1>1, <3>1 DEF CasesOn
      <4> QED BY <4>1
    <3>2. CASE caseStatus[c] = "none" /\ e = d
      <4>1. CasesOn(e)' = CasesOn(e) \cup {c}
        BY <1>1, <3>2 DEF CasesOn
      <4>2. stats'[c] = Zero
        BY <1>1, <1>2, <3>2
      <4> QED BY <4>1, <4>2
    <3> QED BY <1>1, <3>1, <3>2
  <2> QED BY <1>2, <2>1, <2>2, DayTotalKept
<1>5. ASSUME NEW e \in Day, archive'[e] # NoTally
      PROVE  (archive[e] # NoTally /\ archive'[e] = archive[e])
             \/ (RollOver(p) /\ e < d /\ archive'[e] = DayTotal(e))
  BY <1>2, <1>5 DEF Finalized
<1>6. FrozenRight'
  BY <1>4, <1>5 DEF FrozenRight
<1>7. FrozenShut'
  <2> SUFFICES ASSUME NEW e \in Day, archive'[e] # NoTally
               PROVE  /\ e < clock'
                      /\ \A q \in Process : proc'[q].op.kind = "vote" /\ proc'[q].day = e
                           => proc'[q].op.case \notin ActiveOn(e)'
    BY DEF FrozenShut
  <2>1. e < clock /\ e < clock'
    <3>1. clock \in Nat /\ clock' \in Nat /\ clock <= clock' /\ d \in Nat /\ e \in Nat
      BY ClockGrows, BoundsAssumption DEF Day
    <3>2. e < clock
      BY <1>1, <1>5, <3>1 DEF FrozenShut
    <3> QED BY <3>1, <3>2
  <2>2. ASSUME NEW q \in Process, proc'[q].op.kind = "vote", proc'[q].day = e
        PROVE  proc'[q].op.case \notin ActiveOn(e)'
    <3>1. proc[q].op = proc'[q].op /\ proc[q].day = e
      BY <2>1, <2>2, PastVotes
    <3>2. CASE archive[e] # NoTally
      <4>1. proc[q].op.case \notin ActiveOn(e)
        BY <2>2, <3>1, <3>2 DEF FrozenShut
      <4>2. proc[q].op.case \in Opened \cup {UnknownCase}
        BY <2>2, <3>1 DEF VotesOpened
      <4>3. ASSUME proc[q].op.case \in ActiveOn(e)' PROVE FALSE
        <5>1. PICK x \in CaseId : x = proc[q].op.case
          BY <4>3 DEF ActiveOn
        <5>2. CaseDate(x) = e /\ caseStatus'[x] = "active" /\ caseStatus[x] # "active"
          BY <4>1, <4>3, <5>1 DEF ActiveOn
        <5>3. x = c /\ caseStatus[x] = "none"
          BY <1>1, <5>2
        <5> QED BY <4>2, <5>1, <5>3, Sorts DEF Opened
      <4> QED BY <3>1, <4>3
    <3>3. CASE RollOver(p) /\ e < d
      BY <1>1, <3>1, <3>3 DEF ActiveOn
    <3> QED BY <1>5, <3>2, <3>3
  <2> QED BY <2>1, <2>2
<1> QED BY <1>3, <1>6, <1>7

LEMMA VoteArchive ==
  ASSUME TypeOK, ReceiptsMatchVotes, TallyInv, FrozenShut, FrozenRight,
         NEW p \in Process, AcceptVote(p)
  PROVE  FrozenRight'
<1>1. PICK v \in Vote :
        /\ v \notin votes /\ votes' = votes \cup {v}
        /\ v.inst = proc[p].op.inst /\ v.case = proc[p].op.case /\ v.dir = proc[p].op.dir
        /\ v.spent = VoteSpend(proc[p].op, proc[p].day)
        /\ v.date = proc[p].day /\ v.date = CaseDate(v.case)
        /\ caseStatus[v.case] = "active"
  BY NewRow DEF TallyInv
<1>2. /\ UNCHANGED <<archive, caseStatus>> /\ proc[p].op.kind = "vote"
      /\ \A x \in CaseId : x # v.case => stats'[x] = stats[x]
  BY <1>1 DEF AcceptVote, At, TypeOK
<1>3. v.case \in CaseId /\ v.date \in Day
  BY <1>1 DEF Vote
<1>4. archive[v.date] = NoTally
  BY <1>1, <1>2, <1>3 DEF FrozenShut, ActiveOn
<1>5. ASSUME NEW e \in Day, archive'[e] # NoTally PROVE DayTotal(e)' = DayTotal(e)
  <2>1. e # v.date
    BY <1>2, <1>4, <1>5
  <2>2. VotersOn(e)' = VotersOn(e)
    BY <1>1, <2>1 DEF VotersOn
  <2>3. CasesOn(e)' = CasesOn(e)
    BY <1>2 DEF CasesOn
  <2>4. \A x \in CasesOn(e) : stats'[x] = stats[x]
    BY <1>1, <1>2, <2>1 DEF CasesOn
  <2> QED BY <1>3, <2>2, <2>3, <2>4, DayTotalKept
<1> QED BY <1>2, <1>5 DEF FrozenRight

LEMMA ArchiveStep ==
  TypeOK /\ ReceiptsMatchVotes /\ TallyInv /\ ChargeInv /\ ArchiveInv /\ [Next]_vars
    => ArchiveInv'
<1> SUFFICES ASSUME TypeOK, ReceiptsMatchVotes, TallyInv, ChargeInv, ArchiveInv, [Next]_vars,
                    wipes' = 0
             PROVE  (VotesOpened /\ FrozenShut /\ FrozenRight)'
  BY DEF ArchiveInv
<1>1. CASE \E p \in Process : RollOver(p) \/ PublishCase(p)
  <2>1. PICK p \in Process : RollOver(p) \/ PublishCase(p)
    BY <1>1
  <2>2. wipes = 0
    BY <2>1 DEF RollOver, PublishCase, bounds
  <2> QED BY <2>1, <2>2, OpenArchive, OpenedStep DEF ArchiveInv
<1>2. ASSUME UNCHANGED <<archive, caseStatus, wipes>> PROVE VotesOpened' /\ FrozenShut'
  <2>1. VotesOpened /\ FrozenShut
    BY <1>2 DEF ArchiveInv
  <2>2. VotesOpened'
    BY <1>2, <2>1, OpenedStep DEF Opened
  <2>3. ASSUME NEW e \in Day, archive'[e] # NoTally
        PROVE  /\ e < clock'
               /\ \A q \in Process : proc'[q].op.kind = "vote" /\ proc'[q].day = e
                    => proc'[q].op.case \notin ActiveOn(e)'
    <3>1. e < clock /\ e < clock'
      <4>1. clock \in Nat /\ clock' \in Nat /\ clock <= clock' /\ e \in Nat
        BY ClockGrows, BoundsAssumption DEF Day
      <4>2. e < clock
        BY <1>2, <2>1, <2>3 DEF FrozenShut
      <4> QED BY <4>1, <4>2
    <3>2. ActiveOn(e)' = ActiveOn(e)
      BY <1>2 DEF ActiveOn
    <3> QED BY <1>2, <2>1, <2>3, <3>1, <3>2, PastVotes DEF FrozenShut
  <2> QED BY <2>2, <2>3 DEF FrozenShut
<1>3. CASE \E p \in Process : AcceptVote(p)
  <2>1. PICK p \in Process : AcceptVote(p)
    BY <1>3
  <2>2. UNCHANGED <<archive, caseStatus, wipes>>
    BY <2>1 DEF AcceptVote, bounds
  <2>3. FrozenShut /\ FrozenRight
    BY <2>2 DEF ArchiveInv
  <2> QED BY <1>2, <2>1, <2>2, <2>3, VoteArchive
<1>4. CASE UNCHANGED <<archive, caseStatus, votes, stats, wipes>>
  <2>1. FrozenRight
    BY <1>4 DEF ArchiveInv
  <2>2. FrozenRight'
    BY <1>4, <2>1 DEF FrozenRight, DayTotal, CasesOn, VotersOn
  <2> QED BY <1>2, <1>4, <2>2
<1> QED BY <1>1, <1>3, <1>4, ArchiveFrame

LEMMA ArchiveInit == Init => ArchiveInv
BY DEF Init, ArchiveInv, VotesOpened, FrozenShut, FrozenRight, Idle

LEMMA FrozenMatches == ArchiveInv => ArchiveMatchesDay
BY DEF ArchiveInv, FrozenRight, ArchiveMatchesDay

\* A day that has been archived says for good what its cases say, although handlers that
\* started before midnight go on after it (store.ts: finalizeEndedDays; service.ts:1001-1120).
THEOREM ArchivesAreRight == Spec => []ArchiveMatchesDay
BY ArchiveInit, ArchiveStep, FrozenMatches, ChargeInit, ChargeStep, TallyInit, TallyStep,
   TypeInvariant, ReceiptsAndVotesAgree, OneActiveCasePerDate, PTL DEF Spec
-----------------------------------------------------------------------------
(* Every answer that the vote authority builds can be read at both hops.    *)

\* Every step of the two-step answers is a step of the ledger, or leaves it alone.
LEMMA StepsBelow == [AnswersNext]_answers => [Next]_vars
<1> SUFFICES ASSUME AnswersNext PROVE [Next]_vars
  BY DEF answers
<1>1. Server \in Process /\ Operator \subseteq Process
  BY DEF Process
<1>2. CASE VoteTransaction \/ Otherwise(Server) \/ Crash(Server)
  BY <1>1, <1>2 DEF VoteTransaction, Otherwise, Next, Step
<1>3. CASE \E p \in Operator : OperatorStep(p)
  BY <1>1, <1>3 DEF OperatorStep, Next
<1> QED BY <1>2, <1>3 DEF AnswersNext, AnswerVote, Next

LEMMA LedgerBelow == AnswersSpec => Spec
BY StepsBelow, PTL DEF AnswersSpec, AnswersInit, Spec
-----------------------------------------------------------------------------
(* The tables explain themselves: a gift is part of what was claimed, and   *)
(* every row of totals has a stick for each of its voters.                  *)

GiftsClaimed == \A i \in Installation, d \in Day : starter[i][d] <= claimed[i][d]

Fits(t) == t.voters <= t.up + t.down

TotalsFit ==
  /\ \A c \in CaseId : Fits(stats[c]) /\ Fits(snapshot[c])
  /\ \A p \in Process : proc[p].pc \in {"latest", "write"} => Fits(proc[p].seen)

LEMMA GiftsStep == TypeOK /\ GiftsClaimed /\ [Next]_vars => GiftsClaimed'
<1> SUFFICES ASSUME TypeOK, GiftsClaimed, [Next]_vars,
                    NEW i \in Installation, NEW d \in Day
             PROVE  (starter[i][d] <= claimed[i][d])'
  BY DEF GiftsClaimed
<1>1. starter[i][d] \in Nat /\ claimed[i][d] \in Nat /\ starter[i][d] <= claimed[i][d]
  BY DEF TypeOK, GiftsClaimed
<1>2. CASE UNCHANGED balances
  BY <1>1, <1>2 DEF balances
<1>3. ASSUME NEW p \in Process,
             Bootstrap(p) \/ TokenClaim(p) \/ RejectPoor(p) \/ AcceptVote(p)
      PROVE  (starter[i][d] <= claimed[i][d])'
  <2> DEFINE j == proc[p].op.inst
             e == proc[p].day
             g == Gift(j, e)
  <2>1. j \in Installation /\ e \in Day /\ g \in Nat /\ EnsureRow(j, e)
    BY <1>3, Where
  <2>2. claimed[j][e] \in Nat /\ starter' = [starter EXCEPT ![j][e] = starter[j][e] + g]
    BY <2>1 DEF TypeOK, EnsureRow
  <2>3. PICK m \in Nat : m >= claimed[j][e] + g /\ claimed' = [claimed EXCEPT ![j][e] = m]
    <3>1. CASE TokenClaim(p)
      <4> DEFINE m == Ratchet(claimed[j][e] + g, proc[p].op.tokens)
      <4>1. proc[p].op.tokens \in Nat
        BY <3>1, OpOK, PolicyAssumption DEF TokenClaim, At, ClaimOp
      <4>2. m \in Nat /\ m >= claimed[j][e] + g
        <5> HIDE DEF g
        <5> QED BY <2>1, <2>2, <4>1, PolicyAssumption DEF Ratchet
      <4>3. claimed' = [claimed EXCEPT ![j][e] = m]
        BY <3>1 DEF TokenClaim
      <4> HIDE DEF m
      <4> QED BY <4>2, <4>3
    <3>2. CASE Bootstrap(p) \/ RejectPoor(p) \/ AcceptVote(p)
      <4> DEFINE m == claimed[j][e] + g
      <4>1. m \in Nat /\ m >= claimed[j][e] + g
        BY <2>1, <2>2
      <4>2. claimed' = [claimed EXCEPT ![j][e] = m]
        BY <3>2 DEF Bootstrap, RejectPoor, AcceptVote
      <4> HIDE DEF m
      <4> QED BY <4>1, <4>2
    <3> QED BY <1>3, <3>1, <3>2
  <2> HIDE DEF g
  <2>4. CASE i = j /\ d = e
    BY <1>1, <2>1, <2>2, <2>3, <2>4 DEF TypeOK
  <2>5. CASE ~ (i = j /\ d = e)
    BY <1>1, <2>1, <2>2, <2>3, <2>5 DEF TypeOK
  <2> QED BY <2>4, <2>5
<1>4. ASSUME NEW p \in Process, PublishCase(p) \/ ResetToday(p)
      PROVE  (starter[i][d] <= claimed[i][d])'
  BY <1>1, <1>4 DEF PublishCase, ResetToday
<1> QED BY <1>2, <1>3, <1>4, BalanceFrame

\* Which steps write the totals or what a publisher has read of them.
LEMMA TotalsFrame ==
  ASSUME TypeOK, NEW p \in Process, Step(p)
  PROVE  \/ /\ UNCHANGED tallies
            /\ \/ proc'[p].pc \notin {"latest", "write"} /\ \A q \in Process : q # p => proc'[q] = proc[q]
               \/ ReadStats(p) \/ (\E elapsed \in BOOLEAN : ReadLatest(p, elapsed))
         \/ RollOver(p) \/ AcceptVote(p) \/ PublishSnapshot(p) \/ Command(p)
<1>1. proc \in [Process -> Handler] /\ proc[p] \in Handler
  BY DEF TypeOK
<1>2. ASSUME Finish(p)
      PROVE  proc'[p].pc = "idle" /\ \A q \in Process : q # p => proc'[q] = proc[q]
  BY <1>1, <1>2 DEF Finish, Done, Idle
<1>8. CASE RollOverFails(p) \/ TokenClaim(p) \/ IgnoreClaim(p)
  BY <1>2, <1>8 DEF RollOverFails, TokenClaim, IgnoreClaim
<1>9. CASE ReplayVote(p) \/ RejectTarget(p) \/ RejectPoor(p)
  BY <1>2, <1>9 DEF ReplayVote, RejectTarget, RejectPoor
<1>3. CASE FindActiveCase(p)
  BY <1>1, <1>3 DEF FindActiveCase, Proceed, Handler
<1>4. CASE Bootstrap(p)
  BY <1>1, <1>4 DEF Bootstrap, Handler
<1>5. CASE Crash(p)
  BY <1>1, <1>5 DEF Crash, Idle
<1>6. ASSUME NEW pc \in {"ensure", "txn"}, NEW op, Begin(p, pc, op)
      PROVE  /\ UNCHANGED tallies /\ proc'[p].pc \notin {"latest", "write"}
             /\ \A q \in Process : q # p => proc'[q] = proc[q]
  BY <1>1, <1>6 DEF Begin, Handler
<1>7. CASE Call(p)
  BY <1>6, <1>7 DEF Call, BeginSnapshot, BeginVote, BeginClaim, BeginBootstrap, BeginCommand
<1>10. CASE ReadStats(p) \/ (\E elapsed \in BOOLEAN : ReadLatest(p, elapsed))
  BY <1>10 DEF ReadStats, ReadLatest
<1> QED BY <1>3, <1>4, <1>5, <1>7, <1>8, <1>9, <1>10
        DEF Step, EnsureActiveCase, CastVote, Publish

LEMMA TotalsStep == TypeOK /\ TotalsFit /\ [Next]_vars => TotalsFit'
<1> SUFFICES ASSUME TypeOK, TotalsFit, [Next]_vars PROVE TotalsFit'
  OBVIOUS
<1>1. \A p \in Process : proc[p] \in Handler /\ HandlerOK(proc[p])
  BY DEF TypeOK
<1>2. CASE UNCHANGED <<tallies, proc>>
  BY <1>2 DEF TotalsFit, tallies
<1>3. ASSUME NEW p \in Process, UNCHANGED tallies, proc'[p].pc \notin {"latest", "write"},
             \A q \in Process : q # p => proc'[q] = proc[q]
      PROVE  TotalsFit'
  BY <1>3 DEF TotalsFit, tallies
<1>4. ASSUME NEW p \in Process, ReadStats(p) PROVE TotalsFit'
  <2>1. /\ UNCHANGED tallies
        /\ proc'[p].seen = RowOf(0, stats[proc[p].held])
        /\ \A q \in Process : q # p => proc'[q] = proc[q]
        /\ proc[p].held \in CaseId
    BY <1>1, <1>4 DEF ReadStats, TypeOK, Handler, HandlerOK
  <2>2. Fits(proc'[p].seen)
    BY <2>1 DEF TotalsFit, Fits, RowOf
  <2> QED BY <2>1, <2>2 DEF TotalsFit, tallies
<1>5. ASSUME NEW p \in Process, NEW elapsed \in BOOLEAN, ReadLatest(p, elapsed) PROVE TotalsFit'
  <2>1. proc[p].pc = "latest" /\ UNCHANGED tallies
    BY <1>5 DEF ReadLatest
  <2>2. CASE Finish(p)
    BY <2>1, <2>2, <1>1 DEF Finish, Done, Idle, TotalsFit, tallies, TypeOK
  <2>3. CASE \E n : proc' = [proc EXCEPT ![p] =
               [@ EXCEPT !.pc = "write", !.seen = RowOf(n, proc[p].seen)]]
    <3>1. PICK n : proc' = [proc EXCEPT ![p] =
               [@ EXCEPT !.pc = "write", !.seen = RowOf(n, proc[p].seen)]]
      BY <2>3
    <3>2. proc'[p].seen = RowOf(n, proc[p].seen) /\ \A q \in Process : q # p => proc'[q] = proc[q]
      BY <1>1, <3>1 DEF TypeOK, Handler
    <3>3. Fits(proc'[p].seen)
      BY <2>1, <3>2 DEF TotalsFit, Fits, RowOf
    <3> QED BY <2>1, <3>2, <3>3 DEF TotalsFit, tallies
  <2> QED BY <1>5, <2>2, <2>3 DEF ReadLatest
<1>6. Fits(Zero) /\ Fits(NoRow) /\ Fits(FirstRow)
  BY DEF Fits, Zero, NoRow, FirstRow
<1>7. ASSUME NEW p \in Process, RollOver(p) PROVE TotalsFit'
  <2>1. PICK k, d : Proceed(p, k, d)
    BY <1>7 DEF RollOver
  <2>2. proc'[p].pc \notin {"latest", "write"} /\ \A q \in Process : q # p => proc'[q] = proc[q]
    BY <1>1, <2>1 DEF Proceed, TypeOK, Handler
  <2>3. UNCHANGED stats /\ \A c \in CaseId : snapshot'[c] \in {snapshot[c], FirstRow}
    BY <1>7 DEF RollOver, TypeOK
  <2> QED BY <1>6, <2>2, <2>3 DEF TotalsFit
<1>8. ASSUME NEW p \in Process, Finish(p),
             \A c \in CaseId : Fits(stats'[c]) /\ Fits(snapshot'[c])
      PROVE  TotalsFit'
  BY <1>1, <1>8 DEF Finish, Done, Idle, TotalsFit, TypeOK
<1>9. ASSUME NEW p \in Process, AcceptVote(p) PROVE TotalsFit'
  <2> DEFINE op == proc[p].op
             n  == VoteSpend(op, proc[p].day)
             t  == Counted(stats[op.case], op.dir, n, ~ HasVoted(op.inst, op.case))
  <2>1. op \in VoteOp /\ proc[p].day \in Day
    BY <1>9, OpOK DEF AcceptVote, At
  <2>2. op.case \in CaseId /\ n \in 1 .. MaxCount /\ op.dir \in Direction
    BY <1>9, <2>1, SpendType DEF AcceptVote, TargetActive, VoteOp
  <2>3. stats[op.case] \in Tally /\ Fits(stats[op.case])
    BY <2>2 DEF TypeOK, TotalsFit
  <2>4. Fits(t)
    <3> HIDE DEF n
    <3> QED BY <2>2, <2>3, BoundsAssumption DEF Counted, Fits, Tally, Direction
  <2>5. stats' = [stats EXCEPT ![op.case] = t]
        /\ \E k : snapshot' = [snapshot EXCEPT ![op.case] = RowOf(k, t)]
    BY <1>9 DEF AcceptVote
  <2> HIDE DEF t
  <2>6. \A k : Fits(RowOf(k, t))
    BY <2>4 DEF Fits, RowOf
  <2>7. \A c \in CaseId : Fits(stats'[c]) /\ Fits(snapshot'[c])
    BY <2>4, <2>5, <2>6 DEF TotalsFit, TypeOK
  <2> QED BY <1>8, <1>9, <2>7 DEF AcceptVote
<1>10. ASSUME NEW p \in Process, PublishSnapshot(p) PROVE TotalsFit'
  <2>1. Fits(proc[p].seen)
    BY <1>10 DEF PublishSnapshot, TotalsFit
  <2>2. UNCHANGED stats /\ \A c \in CaseId : snapshot'[c] \in {snapshot[c], proc[p].seen}
    BY <1>10 DEF PublishSnapshot, TypeOK
  <2> QED BY <1>8, <1>10, <2>1, <2>2 DEF PublishSnapshot, TotalsFit
<1>11. ASSUME NEW p \in Process, Command(p) PROVE TotalsFit'
  <2>1. \A c \in CaseId : /\ stats'[c] \in {stats[c], Zero}
                          /\ snapshot'[c] \in {snapshot[c], FirstRow, NoRow}
    BY <1>11 DEF Command, PublishCase, ResetToday, ClearHistory, WithoutStats, TypeOK
  <2> QED BY <1>6, <1>8, <1>11, <2>1
          DEF TotalsFit, Command, PublishCase, ResetToday, ClearHistory
<1>12. CASE Midnight \/ UNCHANGED vars
  BY <1>2, <1>12 DEF Midnight, vars
<1>13. ASSUME NEW p \in Process, Step(p) PROVE TotalsFit'
  BY <1>3, <1>4, <1>5, <1>7, <1>9, <1>10, <1>11, <1>13, TotalsFrame
<1> QED BY <1>12, <1>13 DEF Next

LEMMA TablesInit == Init => GiftsClaimed /\ TotalsFit
BY DEF Init, GiftsClaimed, TotalsFit, Fits, Zero, NoRow, Idle
-----------------------------------------------------------------------------
(* What the parsers ask of a day's balance, of a row of totals, of a frame.  *)

\* As many whole sticks as the tokens pay for.
LEMMA WholeSticks ==
  ASSUME NEW n \in Nat, NEW u \in Nat, NEW t \in Nat \ {0}, u * t <= n
  PROVE  /\ n \div t \in Nat /\ n % t \in 0 .. (t - 1)
         /\ u <= n \div t
<1> DEFINE q == n \div t
           r == n % t
<1>1. q \in Int /\ r \in 0 .. (t - 1) /\ n = t * q + r
  OBVIOUS
<1> HIDE DEF q, r
<1>2. u <= q
  <2>1. t * u < t * (q + 1)
    BY <1>1
  <2>2. u < q + 1
    BY <1>1, <2>1
  <2> QED BY <1>1, <2>2
<1> QED BY <1>1, <1>2 DEF q, r

LEMMA PersonalParses ==
  ASSUME TypeOK, NoOverspend, GiftsClaimed, NEW i \in Installation, NEW d \in Day
  PROVE  PersonalAccepted(PersonalOf(i, d))
<1> DEFINE c == claimed[i][d]
           u == used[i][d]
           t == TokenPerIncense
<1>1. /\ c \in Nat /\ u \in Nat /\ starter[i][d] \in Nat /\ t \in Nat \ {0}
      /\ u * t <= c /\ starter[i][d] <= c
  BY PolicyAssumption DEF TypeOK, NoOverspend, GiftsClaimed
<1>2. PersonalOf(i, d) = [claimed |-> c, starter |-> starter[i][d], earned |-> c \div t, used |-> u,
        remaining |-> c \div t - u, remainder |-> c % t, toNext |-> t - (c % t), perStick |-> t]
  BY DEF PersonalOf, PersonalWire
<1> HIDE DEF c, u, t
<1>3. c \div t \in Nat /\ c % t \in 0 .. (t - 1) /\ u <= c \div t
  BY <1>1, WholeSticks
<1> DEFINE e == c \div t
           r == c % t
<1>4. e \in Nat /\ r \in 0 .. (t - 1) /\ u <= e
  BY <1>3
<1> HIDE DEF e, r
<1>5. e - u \in Nat /\ t - r \in Nat /\ r \in Nat /\ t > 0
  BY <1>1, <1>4
<1>6. PersonalOf(i, d) = [claimed |-> c, starter |-> starter[i][d], earned |-> e, used |-> u,
        remaining |-> e - u, remainder |-> r, toNext |-> t - r, perStick |-> t]
  BY <1>2 DEF e, r
<1>7. PersonalOf(i, d).earned = c \div t /\ PersonalOf(i, d).remainder = c % t
  BY <1>2
<1> QED BY <1>1, <1>4, <1>5, <1>6, <1>7 DEF PersonalAccepted

\* A state that is derived is one of the six, whichever policy derives it.
LEMMA StateKnown ==
  ASSUME NEW up \in Nat, NEW down \in Nat, NEW name \in DOMAIN Policy
  PROVE  Liangzi(up, down, Policy[name]) \in
           {"waiting"} \cup {ActiveState[n] : n \in DOMAIN ActiveState}
<1> DEFINE b == Policy[name]
           S == {n \in DOMAIN b : Below(<<up, up + down>>, b[n])} \cup {Len(b) + 1}
<1>1. Len(b) \in {4, 5} /\ DOMAIN b = 1 .. Len(b)
  BY DEF Policy
<1>2. Len(ActiveState) = 6 /\ DOMAIN ActiveState = 1 .. 6
  BY DEF ActiveState
<1> HIDE DEF b
<1>3. S \in SUBSET Nat /\ S # {} /\ S \subseteq 1 .. (Len(b) + 1)
  BY <1>1
<1>4. Min(S) \in S
  <2> HIDE DEF S
  <2>1. PICK m \in S : \A k \in S : m <= k
    BY <1>3, LeastNumber
  <2> QED BY <2>1 DEF Min
<1>5. PICK m : m = Min(S) /\ m \in 1 .. (Len(b) + 1)
  BY <1>3, <1>4
<1>6. StatesOf(b)[m] = ActiveState[m + 5 - Len(b)]
  <2>1. StatesOf(b) = SubSeq(ActiveState, 6 - Len(b), 6)
    BY <1>2 DEF StatesOf
  <2>2. CASE Len(b) = 4
    <3>1. m \in 1 .. 5 /\ StatesOf(b) = SubSeq(ActiveState, 2, 6)
      BY <1>5, <2>1, <2>2
    <3>2. SubSeq(ActiveState, 2, 6)[m] = ActiveState[m + 1]
      BY <1>2, <3>1
    <3> QED BY <2>2, <3>1, <3>2
  <2>3. CASE Len(b) = 5
    <3>1. m \in 1 .. 6 /\ StatesOf(b) = SubSeq(ActiveState, 1, 6)
      BY <1>5, <2>1, <2>3
    <3>2. SubSeq(ActiveState, 1, 6)[m] = ActiveState[m]
      BY <1>2, <3>1
    <3> QED BY <2>3, <3>1, <3>2
  <2> QED BY <1>1, <2>2, <2>3
<1>7. m + 5 - Len(b) \in DOMAIN ActiveState
  <2>1. CASE Len(b) = 4
    BY <1>2, <1>5, <2>1
  <2>2. CASE Len(b) = 5
    BY <1>2, <1>5, <2>2
  <2> QED BY <1>1, <2>1, <2>2
<1>8. StateFor(<<up, up + down>>, b) = StatesOf(b)[m]
  BY <1>5 DEF StateFor
<1> QED BY <1>6, <1>7, <1>8 DEF Liangzi, b

\* A row of totals with a stick for each voter.
LEMMA SnapshotParses ==
  ASSUME NEW row \in Snapshot, Fits(row)
  PROVE  /\ SnapshotAccepted(SnapshotWire(row))
         /\ SnapshotAccepted(LegacyView(SnapshotWire(row)))
         /\ SnapshotParsed(SnapshotWire(row)) = SnapshotWire(row)
<1> DEFINE s == SnapshotWire(row)
           total == row.up + row.down
<1>1. row.up \in Nat /\ row.down \in Nat /\ row.voters \in Nat /\ row.seq \in Nat
      /\ row.voters <= total
  BY DEF Snapshot, Fits
<1>2. /\ s.seq = row.seq /\ s.up = row.up /\ s.down = row.down /\ s.total = total
      /\ s.voters = row.voters
      /\ s.upRatio = (IF total = 0 THEN NoRatio ELSE <<row.up, total>>)
      /\ s.downRatio = (IF total = 0 THEN NoRatio ELSE <<row.down, total>>)
      /\ s.state = Liangzi(row.up, row.down, Policy["current"]) /\ s.policy = "current"
  BY DEF SnapshotWire
<1>3. s = [seq |-> row.seq, up |-> row.up, down |-> row.down, total |-> total,
           voters |-> row.voters, upRatio |-> s.upRatio, downRatio |-> s.downRatio,
           state |-> s.state, policy |-> "current"]
  BY DEF SnapshotWire
<1>4. DOMAIN Policy = {"current", "legacy"}
  BY DEF Policy
<1>5. /\ Liangzi(row.up, row.down, Policy["current"]) \in
           {"waiting"} \cup {ActiveState[n] : n \in DOMAIN ActiveState}
      /\ Liangzi(row.up, row.down, Policy["legacy"]) \in
           {"waiting"} \cup {ActiveState[n] : n \in DOMAIN ActiveState}
  BY <1>1, <1>4, StateKnown
<1>6. ASSUME NEW part \in {row.up, row.down}
      PROVE  Explains(IF total = 0 THEN NoRatio ELSE <<part, total>>, part, total)
  <2>1. part \in Nat /\ total \in Nat /\ part <= total
    BY <1>1
  <2> HIDE DEF total
  <2> QED BY <2>1 DEF Explains, NoRatio
<1> HIDE DEF s
<1>7. SnapshotAccepted(s)
  BY <1>1, <1>2, <1>5, <1>6 DEF SnapshotAccepted
<1>8. LegacyView(s) = [seq |-> row.seq, up |-> row.up, down |-> row.down, total |-> total,
           voters |-> row.voters, upRatio |-> s.upRatio, downRatio |-> s.downRatio,
           state |-> Liangzi(row.up, row.down, Policy["legacy"]), policy |-> "legacy"]
  <2>1. PICK l : l = Liangzi(row.up, row.down, Policy["legacy"])
    OBVIOUS
  <2>2. LegacyView(s) = [s EXCEPT !.state = l, !.policy = "legacy"]
    BY <1>2, <2>1 DEF LegacyView
  <2>3. PICK u, w, x : s = [seq |-> row.seq, up |-> row.up, down |-> row.down, total |-> total,
           voters |-> row.voters, upRatio |-> u, downRatio |-> w, state |-> x,
           policy |-> "current"]
    BY <1>3
  <2>4. u = s.upRatio /\ w = s.downRatio
    BY <2>3
  <2> QED BY <2>1, <2>2, <2>3, <2>4
<1>9. SnapshotAccepted(LegacyView(s))
  BY <1>1, <1>2, <1>5, <1>6, <1>8 DEF SnapshotAccepted
<1>10. SnapshotParsed(s) = s
  BY <1>2, <1>3, <1>4 DEF SnapshotParsed
<1> QED BY <1>7, <1>9, <1>10 DEF s

LEMMA LargerOfTwo ==
  ASSUME NEW a \in Nat, NEW b \in Nat
  PROVE  Max({a, b}) \in Nat /\ a <= Max({a, b}) /\ b <= Max({a, b})
<1>1. \E x \in {a, b} : \A y \in {a, b} : x >= y
  OBVIOUS
<1> QED BY <1>1 DEF Max

\* The frame that a Host makes of a day's balance and a row of totals.
LEMMA FrameParses ==
  ASSUME TypeOK, NoOverspend, GiftsClaimed, NEW i \in Installation, NEW d \in Day,
         NEW row \in Snapshot, Fits(row), NEW unclaimed \in Nat,
         NEW w, w = HostFrame(PersonalOf(i, d), SnapshotParsed(SnapshotWire(row)), unclaimed)
  PROVE  /\ StateAccepted(w)
         /\ View(w).earned <= View(w).observed
         /\ View(w).snapshot.state = SnapshotWire(row).state
<1> DEFINE c == claimed[i][d]
           u == used[i][d]
           t == TokenPerIncense
           e == c \div t
           tokens == Max({c + unclaimed, u * t})
           observed == tokens \div t
<1>1. c \in Nat /\ u \in Nat /\ t \in Nat \ {0} /\ u * t <= c /\ u * t \in Nat
  BY PolicyAssumption DEF TypeOK, NoOverspend
<1>2. tokens \in Nat /\ c + unclaimed <= tokens /\ u * t <= tokens
  <2>1. c + unclaimed \in Nat
    BY <1>1
  <2> HIDE DEF c, u, t
  <2> QED BY <1>1, <2>1, LargerOfTwo
<1>3. e \in Nat /\ u <= e
  <2> HIDE DEF c, u, t
  <2> QED BY <1>1, WholeSticks
<1>4. observed \in Nat /\ u <= observed /\ e <= observed
  <2> HIDE DEF c, u, t, tokens
  <2>1. c <= tokens
    BY <1>1, <1>2
  <2> QED BY <1>1, <1>2, <2>1, WholeSticks, DivMonotone
<1>5. w = [up |-> row.up, down |-> row.down, voters |-> row.voters, policy |-> "current",
           tokens |-> tokens, used |-> u, remaining |-> e - u, perStick |-> t]
  <2>1. SnapshotParsed(SnapshotWire(row)) = SnapshotWire(row)
    BY SnapshotParses
  <2>2. /\ SnapshotWire(row).up = row.up /\ SnapshotWire(row).down = row.down
        /\ SnapshotWire(row).voters = row.voters /\ SnapshotWire(row).policy = "current"
    BY DEF SnapshotWire
  <2> QED BY <2>1, <2>2 DEF HostFrame, Claimable, PersonalOf, PersonalWire
<1>6. row.up \in Nat /\ row.down \in Nat /\ row.voters \in Nat /\ row.voters <= row.up + row.down
  BY DEF Snapshot, Fits
<1> HIDE DEF c, u, t, e, tokens, observed
<1>7. e - u \in Nat /\ t > 0
  BY <1>1, <1>3
<1>8. StateAccepted(w)
  <2>1. KnownPolicy(w)
    BY <1>5 DEF KnownPolicy, Policy
  <2>2. \A f \in DOMAIN w \ {"policy"} : w[f] \in Nat
    BY <1>1, <1>2, <1>5, <1>6, <1>7
  <2>3. w.used <= w.tokens \div w.perStick
    BY <1>4, <1>5 DEF observed
  <2> QED BY <1>5, <1>6, <1>7, <2>1, <2>2, <2>3 DEF StateAccepted
<1>9. View(w).earned <= View(w).observed
  <2>1. View(w).earned = (e - u) + u /\ View(w).observed = observed
    BY <1>5 DEF View, observed
  <2> QED BY <1>1, <1>3, <1>4, <2>1
<1>10. View(w).snapshot.state = SnapshotWire(row).state
  <2>1. w.up = row.up /\ w.down = row.down /\ w.policy = "current" /\ "policy" \in DOMAIN w
    BY <1>5
  <2>2. PublicSnapshot(w).state = Liangzi(row.up, row.down, Policy["current"])
    BY <2>1 DEF PublicSnapshot
  <2> QED BY <2>2 DEF View, SnapshotWire
<1> QED BY <1>8, <1>9, <1>10
-----------------------------------------------------------------------------
(* The answers that a single step builds.                                   *)

LEMMA CaseParses == TypeOK => \A c \in Opened : CaseAccepted(V1Case(c))
BY PolicyAssumption DEF TypeOK, Opened, CaseAccepted, V1Case

LEMMA BoundariesValid == ValidBoundaries(Policy.current)
<1>1. Policy.current = <<25, 50, 70, 85, 95>>
  BY DEF Policy
<1> QED BY <1>1 DEF ValidBoundaries

LEMMA AnswersBuilt ==
  ASSUME TypeOK, NoOverspend, GiftsClaimed, TotalsFit
  PROVE  ReadsParse
<1>1. ASSUME NEW c \in Opened
      PROVE  /\ c \in CaseId /\ CaseDate(c) \in Day
             /\ SnapshotAccepted(SnapshotWire(snapshot[c]))
             /\ SnapshotAccepted(LegacyView(SnapshotWire(snapshot[c])))
             /\ snapshot[c] \in Snapshot /\ Fits(snapshot[c]) /\ CaseAccepted(V1Case(c))
  <2>1. c \in CaseId /\ CaseDate(c) \in Day
    BY Sorts DEF Opened
  <2>2. snapshot[c] \in Snapshot /\ Fits(snapshot[c])
    BY <2>1 DEF TypeOK, TotalsFit
  <2> QED BY <2>1, <2>2, SnapshotParses, CaseParses
<1>2. ASSUME NEW c \in Opened, NEW i \in Installation
      PROVE  BootstrapAccepted(BootstrapAnswer(i, c))
  <2>1. PersonalAccepted(PersonalOf(i, CaseDate(c)))
    BY <1>1, PersonalParses
  <2>2. TokenPolicyAccepted(V1Case(c).perStick)
    BY PolicyAssumption DEF TokenPolicyAccepted, V1Case
  <2> QED BY <1>1, <2>1, <2>2, BoundariesValid
          DEF BootstrapAccepted, BootstrapAnswer, PollAccepted, PollAnswer, DailyAccepted, DailyAnswer
<1>3. ASSUME NEW c \in Opened PROVE PollAccepted([PollAnswer(c) EXCEPT !.snapshot = LegacyView(@)])
  BY <1>1 DEF PollAccepted, PollAnswer
<1>4. ASSUME NEW c \in Opened PROVE PublishAccepted(PublishAnswer(c))
  <2>1. CasesOn(CaseDate(c)) \subseteq Opened
    BY DEF CasesOn, Opened
  <2> QED BY <1>1, <2>1 DEF PublishAccepted, PublishAnswer
<1>5. ASSUME NEW p \in Process, proc[p].pc = "write" PROVE SnapshotAccepted(SnapshotWire(proc[p].seen))
  <2>1. proc[p].seen \in Snapshot /\ Fits(proc[p].seen)
    BY <1>5 DEF TypeOK, Handler, TotalsFit
  <2> QED BY <2>1, SnapshotParses
<1>6. BackendAnswersParse
  BY <1>2, <1>3, <1>4, <1>5 DEF BackendAnswersParse
<1>7. HostFramesParse
  <2> SUFFICES ASSUME NEW c \in Opened, NEW i \in Installation, NEW w \in FramesOf(i, c)
               PROVE  /\ StateAccepted(w)
                      /\ View(w).earned <= View(w).observed
                      /\ View(w).snapshot.state = SnapshotWire(snapshot[c]).state
    BY DEF HostFramesParse
  <2>1. PICK unclaimed \in {0, TokenPerIncense} :
          w = HostFrame(PersonalOf(i, CaseDate(c)), SnapshotParsed(SnapshotWire(snapshot[c])), unclaimed)
    BY DEF FramesOf
  <2>2. unclaimed \in Nat
    BY PolicyAssumption
  <2> QED BY <1>1, <2>1, <2>2, FrameParses
<1> QED BY <1>6, <1>7 DEF ReadsParse

\* Whatever was claimed, spent, published anew or wiped, the Host can read every answer
\* and the browser every frame (backend-v1.ts:768-772, wire.ts:254-272): for every number
\* of installations and processes.
THEOREM EveryAnswerParses == AnswersSpec => []ReadsParse
<1>1. Spec => []ReadsParse
  BY TablesInit, GiftsStep, TotalsStep, AnswersBuilt, TypeInvariant, NeverOverspent, PTL DEF Spec
<1> QED BY <1>1, LedgerBelow, PTL
-----------------------------------------------------------------------------
(* The answer to a vote.  Its result is a value; what it is read together   *)
(* with moves on.  Between the transaction and the reads only an operator's *)
(* process runs, and of its commands only a publication and a reset change  *)
(* a counter.                                                               *)

\* A result that shows counters shows those of the day it is answered with.
ResultOK(r) ==
  \/ r.result.status = "rejected" /\ r.result.reason \in RejectionReason
  \/ /\ r.result.status = "accepted"
     /\ r.disturbed \/ (/\ r.result.used = PersonalOf(r.inst, r.date).used
                        /\ r.result.remaining = PersonalOf(r.inst, r.date).remaining)

ReplyInv == Answering =>
  reply.inst \in Installation /\ reply.date \in Day /\ reply.case \in CaseId /\ ResultOK(reply)

\* The transaction of a vote leaves a receipt, and its result is of that receipt.
LEMMA TransactionReplies ==
  ASSUME TypeOK, TypeOK', VoteTransaction
  PROVE  ReplyInv'
<1>1. PICK h : h = proc[Server]
  OBVIOUS
<1>2. /\ CastVote(Server)
      /\ reply' = [inst |-> h.op.inst, date |-> h.day, case |-> h.held,
                   result |-> Result(h.op, h.day)', disturbed |-> FALSE]
  BY <1>1 DEF VoteTransaction
<1>3. Server \in Process /\ At(Server, "txn", {"vote"})
  BY <1>2 DEF Process, CastVote, ReplayVote, RejectTarget, RejectPoor, AcceptVote
<1>4. h.op \in VoteOp /\ h.day \in Day /\ h.held \in CaseId /\ h.op.inst \in Installation
  <2>1. HandlerOK(h)
    BY <1>1, <1>3 DEF TypeOK
  <2> QED BY <1>1, <1>3, <2>1, OpOK DEF At, HandlerOK, VoteOp
<1>5. HasReceipt(h.op.inst, h.op.req)'
  <2>1. CASE ReplayVote(Server)
    BY <1>1, <2>1 DEF ReplayVote, HasReceipt, ballots
  <2>2. ASSUME NEW status, Receive(Server, status) PROVE HasReceipt(h.op.inst, h.op.req)'
    <3>1. PICK y : /\ receipts' = receipts \cup {y}
                   /\ y = [inst |-> h.op.inst, req |-> h.op.req, case |-> h.op.case,
                           date |-> h.day, dir |-> h.op.dir, count |-> h.op.count,
                           status |-> status]
      BY <1>1, <2>2 DEF Receive
    <3>2. y \in receipts' /\ y.inst = h.op.inst /\ y.req = h.op.req
      BY <3>1
    <3> QED BY <3>2 DEF HasReceipt
  <2> QED BY <1>2, <2>1, <2>2 DEF CastVote, RejectTarget, RejectPoor, AcceptVote
<1>6. PICK x : x = ReceiptOf(h.op)'
  OBVIOUS
<1>7. x \in Receipt /\ x.inst = h.op.inst
  <2>1. \E y \in receipts' : y.inst = h.op.inst /\ y.req = h.op.req
    BY <1>5 DEF HasReceipt
  <2>2. x \in receipts' /\ x.inst = h.op.inst
    BY <1>6, <2>1 DEF ReceiptOf
  <2> QED BY <2>2 DEF TypeOK
<1>8. PICK p : p = PersonalOf(h.op.inst, h.day)'
  OBVIOUS
<1>9. Result(h.op, h.day)' =
        IF ~ SameVoteIntent(x, h.op) THEN Rejected("idempotency_conflict")
        ELSE IF x.status # "accepted" THEN Rejected(x.status)
        ELSE [status |-> "accepted", used |-> p.used, remaining |-> p.remaining]
  BY <1>6, <1>7, <1>8 DEF Result, CountersShown, SameVoteIntent
<1>10. x.status \in {"accepted"} \cup Reason
  BY <1>7 DEF Receipt
<1>11. PICK res : res = Result(h.op, h.day)'
  OBVIOUS
<1>12. \/ res.status = "rejected" /\ res.reason \in RejectionReason
       \/ res.status = "accepted" /\ res.used = p.used /\ res.remaining = p.remaining
  BY <1>9, <1>10, <1>11 DEF Rejected, Reason, RejectionReason
<1>13. /\ reply'.inst = h.op.inst /\ reply'.date = h.day /\ reply'.case = h.held
       /\ reply'.result = res
  BY <1>2, <1>11
<1> QED BY <1>4, <1>8, <1>12, <1>13 DEF ReplyInv, ResultOK

\* What an operator's process leaves of the balances.
LEMMA OperatorBalances ==
  ASSUME TypeOK, OperatorsCommand, NEW p \in Operator, Step(p)
  PROVE  UNCHANGED balances \/ PublishCase(p) \/ ResetToday(p)
<1>1. p \in Process /\ p # Server
  BY ActorAssumption DEF Process
<1>2. proc[p].op.kind \notin Requests
  BY <1>1 DEF OperatorsCommand
<1>3. ~ Bootstrap(p) /\ ~ TokenClaim(p) /\ ~ RejectPoor(p) /\ ~ AcceptVote(p)
  BY <1>2 DEF Bootstrap, TokenClaim, RejectPoor, AcceptVote, At, Requests
<1>4. CASE Call(p) \/ EnsureActiveCase(p)
  BY <1>4 DEF Call, EnsureActiveCase, BeginSnapshot, BeginVote, BeginClaim, BeginBootstrap,
     BeginCommand, Begin, FindActiveCase, RollOver, RollOverFails
<1>5. CASE CastVote(p) \/ IgnoreClaim(p) \/ Publish(p) \/ Crash(p) \/ Command(p)
  BY <1>3, <1>5 DEF CastVote, ReplayVote, RejectTarget, IgnoreClaim, Publish, ReadStats,
     ReadLatest, PublishSnapshot, Crash, Command, ClearHistory
<1> QED BY <1>3, <1>4, <1>5 DEF Step

LEMMA ReplyStep ==
  TypeOK /\ OperatorsCommand /\ TypeOK' /\ ReplyInv /\ [AnswersNext]_answers => ReplyInv'
<1> SUFFICES ASSUME TypeOK, OperatorsCommand, TypeOK', ReplyInv, [AnswersNext]_answers
             PROVE  ReplyInv'
  OBVIOUS
<1>1. CASE VoteTransaction
  BY <1>1, TransactionReplies
<1>2. CASE ~ Answering' /\ ~ VoteTransaction
  BY <1>2 DEF ReplyInv
<1>3. CASE UNCHANGED <<reply, balances>>
  BY <1>3 DEF ReplyInv, Answering, ResultOK, PersonalOf, balances
<1>4. ASSUME NEW p \in Operator, OperatorStep(p), Answering PROVE ReplyInv'
  <2>1. CASE Disturbs(p)
    <3>1. reply' = [reply EXCEPT !.disturbed = TRUE]
      BY <1>4, <2>1 DEF OperatorStep
    <3> QED BY <1>4, <3>1 DEF ReplyInv, ResultOK
  <2>2. CASE ~ Disturbs(p)
    BY <1>3, <1>4, <2>2, OperatorBalances DEF OperatorStep, Disturbs
  <2> QED BY <2>1, <2>2
<1>5. CASE ~ Answering /\ UNCHANGED reply
  BY <1>5 DEF ReplyInv, Answering
<1>6. CASE Midnight /\ UNCHANGED reply
  BY <1>3, <1>6 DEF Midnight
<1>7. CASE reply' = NoReply
  BY <1>7 DEF ReplyInv, Answering
<1>8. CASE UNCHANGED answers
  BY <1>3, <1>8 DEF answers, vars
<1> QED BY <1>1, <1>4, <1>5, <1>6, <1>7, <1>8
        DEF AnswersNext, AnswerVote, OperatorStep

LEMMA ReplyInit == AnswersInit => ReplyInv
BY DEF AnswersInit, ReplyInv, Answering

LEMMA ReplyParses ==
  ASSUME TypeOK, NoOverspend, GiftsClaimed, TotalsFit, ReplyInv
  PROVE  VoteAnswerParses
<1> SUFFICES ASSUME Answering, ~ reply.disturbed
             PROVE  /\ VoteAccepted(VoteAnswer)
                    /\ WireVoteAccepted(VoteAnswer.result,
                          HostFrame(VoteAnswer.personal, SnapshotParsed(VoteAnswer.snapshot), 0))
  BY DEF VoteAnswerParses
<1>1. PICK i \in Installation, d \in Day, c \in CaseId :
        reply.inst = i /\ reply.date = d /\ reply.case = c /\ ResultOK(reply)
  BY DEF ReplyInv
<1>2. snapshot[c] \in Snapshot /\ Fits(snapshot[c])
  BY DEF TypeOK, TotalsFit
<1>3. PICK p : p = PersonalOf(i, d)
  OBVIOUS
<1>4. PersonalAccepted(p)
  BY <1>3, PersonalParses
<1>5. p.used \in Nat /\ p.remaining \in Nat
  BY <1>3, <1>4 DEF PersonalAccepted, PersonalOf, PersonalWire
<1>6. PICK s : s = SnapshotWire(snapshot[c])
  OBVIOUS
<1>7. SnapshotAccepted(s)
  BY <1>2, <1>6, SnapshotParses
<1>8. VoteAnswer = [result |-> reply.result, personal |-> p, snapshot |-> s, version |-> s.seq]
  BY <1>1, <1>3, <1>6 DEF VoteAnswer
<1>9. ResultAccepted(reply.result) /\
        (reply.result.status = "accepted" =>
           reply.result.used = p.used /\ reply.result.remaining = p.remaining)
  BY <1>1, <1>3, <1>5 DEF ResultOK, ResultAccepted
<1>10. VoteAccepted(VoteAnswer)
  BY <1>4, <1>7, <1>8, <1>9 DEF VoteAccepted
<1>11. PICK w : w = HostFrame(p, SnapshotParsed(s), 0)
  OBVIOUS
<1>12. StateAccepted(w)
  BY <1>2, <1>3, <1>6, <1>11, FrameParses
<1> QED BY <1>8, <1>9, <1>10, <1>11, <1>12 DEF WireVoteAccepted

\* A vote that was charged is not reported as an error, also when it was replayed after
\* midnight or its totals were published by another process; an operator's publication
\* or reset between the transaction and the reads is the one exception
\* (service.ts:987-999).
THEOREM VoteAnswersParse == AnswersSpec => []VoteAnswerParses
<1>1. [AnswersNext]_answers => [Next]_vars
  BY StepsBelow
<1>2. AnswersInit => Init
  BY DEF AnswersInit
<1> QED BY <1>1, <1>2, TablesInit, GiftsStep, TotalsStep, TypeInit, TypeStep, OperatorsInit,
           OperatorsStep, ReplyInit, ReplyStep, ReplyParses, LedgerBelow, NeverOverspent, PTL
        DEF AnswersSpec
=============================================================================
