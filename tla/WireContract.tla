--------------------------- MODULE WireContract ---------------------------
(***************************************************************************)
(* The figures one hop serves and the identities the next hop's parser     *)
(* enforces on them: backend to Host (backend-v1.ts), Host to browser      *)
(* (wire.ts).  A parser throws on a figure it cannot explain, and then the *)
(* whole answer is lost: a Host stays unconnected, a page stops updating,  *)
(* a vote that was charged is reported as an error.                        *)
(*                                                                         *)
(* Titles, names, times and the broadcast are left out, and so is what an  *)
(* older peer may omit.  A ratio is a pair <<part, whole>>.                *)
(***************************************************************************)
EXTENDS Integers, Sequences, FiniteSetsExt

NoRatio == <<0, 0>>
-----------------------------------------------------------------------------
(* The state of the community: the share of up votes against the           *)
(* boundaries of a policy, in hundredths.                                  *)

Policy == [current |-> <<25, 50, 70, 85, 95>>, legacy |-> <<50, 70, 85, 95>>]

ActiveState ==
  <<"xiao_nan_liang", "liang_gong", "liang_zong", "liang_shen", "liang_sheng", "liang_zu">>

\* assertValidThresholdPolicy; parseLiangziPolicy asks the same.
ValidBoundaries(b) ==
  /\ Len(b) \in {4, 5}
  /\ \A n \in DOMAIN b : b[n] \in 1 .. 99
  /\ \A n \in 2 .. Len(b) : b[n - 1] < b[n]

\* statesForPolicy: one more than there are boundaries, the oldest policy has no first.
StatesOf(b) == SubSeq(ActiveState, Len(ActiveState) - Len(b), Len(ActiveState))

Below(ratio, boundary) == 100 * ratio[1] < boundary * ratio[2]

\* liangziStateForUpRatio
StateFor(ratio, b) ==
  StatesOf(b)[Min({n \in DOMAIN b : Below(ratio, b[n])} \cup {Len(b) + 1})]

\* deriveLiangziState
Liangzi(up, down, b) == IF up + down = 0 THEN "waiting" ELSE StateFor(<<up, up + down>>, b)

\* liangziUpRatioBand: the first state has no least ratio, the last no limit.
Band(state, b) ==
  LET n == CHOOSE k \in DOMAIN StatesOf(b) : StatesOf(b)[k] = state
  IN [min |-> IF n = 1 THEN 0 ELSE b[n - 1], max |-> IF n > Len(b) THEN 101 ELSE b[n]]

InBand(ratio, band) == ~ Below(ratio, band.min) /\ Below(ratio, band.max)

\* Under either policy the share of up votes lies in the range that the calendar prints
\* for its state, up to "most" votes on a side (liangzi.ts:57-90).
StatesFitBands(most) ==
  \A name \in DOMAIN Policy, up \in 0 .. most, down \in 0 .. most :
    LET b == Policy[name]
    IN  up + down > 0 => InBand(<<up, up + down>>, Band(Liangzi(up, down, b), b))
-----------------------------------------------------------------------------
(* Backend to Host. *)

\* derivePersonalLiangQiState, which itself throws when used exceeds earned.
PersonalWire(claimed, starter, used, perStick) ==
  LET earned == claimed \div perStick
      part   == claimed % perStick
  IN [claimed |-> claimed, starter |-> starter, earned |-> earned, used |-> used,
      remaining |-> earned - used, remainder |-> part, toNext |-> perStick - part,
      perStick |-> perStick]

\* parseV1PersonalState
PersonalAccepted(p) ==
  /\ \A f \in DOMAIN p : p[f] \in Nat
  /\ p.perStick > 0
  /\ p.starter <= p.claimed
  /\ p.earned = p.claimed \div p.perStick
  /\ p.used <= p.earned
  /\ p.remaining = p.earned - p.used
  /\ p.remainder = p.claimed % p.perStick
  /\ p.toNext = p.perStick - p.remainder

\* toV1Snapshot, for a row [seq, up, down, voters].
SnapshotWire(row) ==
  LET total      == row.up + row.down
      ratio(part) == IF total = 0 THEN NoRatio ELSE <<part, total>>
  IN [seq |-> row.seq, up |-> row.up, down |-> row.down, total |-> total,
      voters |-> row.voters, upRatio |-> ratio(row.up), downRatio |-> ratio(row.down),
      state |-> Liangzi(row.up, row.down, Policy.current), policy |-> "current"]

\* legacyLiangziView, for a Host that does not name the current policy.
LegacyView(s) == [s EXCEPT !.state = Liangzi(s.up, s.down, Policy.legacy), !.policy = "legacy"]

\* A ratio in [0, 1] of the counts it comes with.
Explains(ratio, part, total) ==
  IF total = 0 THEN ratio = NoRatio
  ELSE ratio # NoRatio /\ ratio[1] <= ratio[2] /\ ratio[1] * total = part * ratio[2]

\* parseV1Snapshot
SnapshotAccepted(s) ==
  /\ \A f \in {"seq", "up", "down", "total", "voters"} : s[f] \in Nat
  /\ s.total = s.up + s.down
  /\ s.voters <= s.total
  /\ Explains(s.upRatio, s.up, s.total) /\ Explains(s.downRatio, s.down, s.total)
  /\ s.state \in {"waiting"} \cup {ActiveState[n] : n \in DOMAIN ActiveState}

\* parseV1Snapshot derives the state anew; a policy it does not know is the current one.
SnapshotParsed(s) ==
  LET known == IF s.policy \in DOMAIN Policy THEN s.policy ELSE "current"
  IN [s EXCEPT !.policy = known, !.state = Liangzi(s.up, s.down, Policy[known])]

\* parseCase, for a case [status, perStick].
CaseAccepted(c) == c.status \in {"active", "closed"} /\ c.perStick > 0

RejectionReason ==
  {"insufficient_incense", "case_not_active", "stale_case", "idempotency_conflict",
   "invalid_intent"}

\* parseVoteResult
ResultAccepted(r) ==
  \/ r.status = "accepted" /\ r.used \in Nat /\ r.remaining \in Nat
  \/ r.status = "rejected" /\ r.reason \in RejectionReason

\* parseV1VoteResponse, over parseV1VoteEnvelope: an accepted result shows the
\* counters of the ledger it comes with.
VoteAccepted(v) ==
  /\ PersonalAccepted(v.personal) /\ ResultAccepted(v.result) /\ SnapshotAccepted(v.snapshot)
  /\ v.result.status = "accepted" =>
       v.result.used = v.personal.used /\ v.result.remaining = v.personal.remaining
  /\ v.version = v.snapshot.seq

\* parseTokenPolicy
TokenPolicyAccepted(perStick) == perStick > 0

\* parseV1SnapshotResponse, parseV1PersonalStateResponse, parseV1Bootstrap and
\* parseV1PublishCaseResponse.
PollAccepted(a)  == SnapshotAccepted(a.snapshot) /\ CaseAccepted(a.case)
DailyAccepted(a) == PersonalAccepted(a.personal) /\ CaseAccepted(a.case)
BootstrapAccepted(b) ==
  /\ PollAccepted(b) /\ DailyAccepted(b)
  /\ ValidBoundaries(b.boundaries) /\ TokenPolicyAccepted(b.case.perStick)
PublishAccepted(a) ==
  SnapshotAccepted(a.snapshot) /\ CaseAccepted(a.case) /\ \A c \in a.archived : CaseAccepted(c)
-----------------------------------------------------------------------------
(* Host to browser. *)

\* claimableEffectiveTokens, when "unclaimed" tokens were observed since the last claim
Claimable(p, unclaimed) == Max({p.claimed + unclaimed, p.used * p.perStick})

\* getWireState, of a connected Host
HostFrame(p, s, unclaimed) ==
  [up |-> s.up, down |-> s.down, voters |-> s.voters, policy |-> s.policy,
   tokens |-> Claimable(p, unclaimed), used |-> p.used, remaining |-> p.remaining,
   perStick |-> p.perStick]

\* connectingWireState: before the first bootstrap
ConnectingFrame(observed, perStick) ==
  [up |-> 0, down |-> 0, voters |-> 0, tokens |-> observed, used |-> 0,
   remaining |-> observed \div perStick, perStick |-> perStick]

\* parseLiangziVersion
KnownPolicy(w) == "policy" \in DOMAIN w => w.policy \in DOMAIN Policy

\* parseWireState, for a frame [up, down, voters, tokens, used, remaining, perStick]
\* that may name a policy.
StateAccepted(w) ==
  /\ KnownPolicy(w)
  /\ \A f \in DOMAIN w \ {"policy"} : w[f] \in Nat
  /\ w.voters <= w.up + w.down
  /\ w.perStick > 0
  /\ w.used <= w.tokens \div w.perStick

\* parseWireVoteResponse, parseWireVoteResult
WireVoteAccepted(result, w) == ResultAccepted(result) /\ StateAccepted(w)

\* buildPublicSnapshot, of a frame's counts
PublicSnapshot(w) ==
  LET b == Policy[IF "policy" \in DOMAIN w THEN w.policy ELSE "current"]
  IN [total |-> w.up + w.down, state |-> Liangzi(w.up, w.down, b), boundaries |-> b]

\* A Host that has heard nothing yet shows what it has observed.
FirstFramesParse(most, perStick) ==
  \A observed \in 0 .. most : StateAccepted(ConnectingFrame(observed, perStick))

\* wireToViewState: what was observed fills the ring, what the ledger holds is spendable.
View(w) ==
  [observed |-> w.tokens \div w.perStick, earned |-> w.remaining + w.used,
   remaining |-> w.remaining, snapshot |-> PublicSnapshot(w)]
=============================================================================
