-------------------------- MODULE VoteRateLimiter --------------------------
(***************************************************************************)
(* The vote budget of the backend: one token bucket per installation in a  *)
(* map of bounded size, and what POST /v1/votes does with it.  The handler *)
(* inspects the bucket, casts the vote and charges the bucket without      *)
(* giving up the event loop, so a request is one step.  A bucket that was  *)
(* evicted, or lost in a restart, is rebuilt from the time of the last     *)
(* accepted vote, which the database keeps.                                *)
(*                                                                         *)
(* Stored requests bypass the limiter and are left out; so is a wall clock *)
(* that steps back.  A stick is BudgetWindow parts, and a tick of the      *)
(* clock refills Rate parts: exact where the code keeps fractions as       *)
(* floats.                                                                 *)
(***************************************************************************)
EXTENDS Integers, FiniteSets

CONSTANTS
  Voter,          \* installations
  Rate,           \* workUnitsPerMinute: sticks refilled in a window
  BudgetWindow,   \* ticks of the clock in VOTE_BUDGET_WINDOW_MS
  Burst,          \* VOTE_BURST_MINUTES: windows of refill a bucket may hold
  MaxActiveKeys,  \* maxActiveKeys: size of the map
  MaxCount,       \* VOTE_COUNT_MAX: sticks one request may spend
  LastTick        \* bound: the clock runs from 1 to LastTick

ASSUME LimiterAssumption ==
  /\ Rate \in Nat \ {0} /\ BudgetWindow \in Nat \ {0} /\ Burst \in Nat \ {0}
  /\ MaxActiveKeys \in Nat \ {0} /\ MaxCount \in Nat \ {0} /\ LastTick \in Nat \ {0}
ASSUME VoterAssumption == IsFiniteSet(Voter)

VARIABLES
  now,        \* Date.now
  keys,       \* installations that have a bucket in the map
  bucket,     \* tokens and updatedAt of each bucket
  lastVote,   \* MAX(liang_vote.created_at) of each installation
  budget      \* history: sticks an uninterrupted bucket would still allow

budgetVars == <<now, keys, bucket, lastVote, budget>>
-----------------------------------------------------------------------------
NoVote == 0
Minute == Rate * BudgetWindow
Cap    == Minute * Burst
Empty  == [tokens |-> 0, at |-> 0]

Lesser(a, b) == IF a <= b THEN a ELSE b

\* voteBudgetAvailable
VoteBudgetAvailable(tokens, since) == Lesser(Cap, tokens + (now - since) * Rate)

RebuiltFull(i) == Cap  \* fault, for Rebuilt: a missing bucket is a full one

\* A missing bucket refills from empty since the last accepted vote; an
\* installation that never voted starts with one window of refill.
Rebuilt(i) == IF lastVote[i] = NoVote THEN Minute ELSE VoteBudgetAvailable(0, lastVote[i])

Level(i) == IF i \in keys THEN VoteBudgetAvailable(bucket[i].tokens, bucket[i].at) ELSE Rebuilt(i)

Sticks(i) == Level(i) \div BudgetWindow

EvictAny == keys  \* fault, for Idle: whatever is in the map may go
Idle == {k \in keys : now - bucket[k].at >= BudgetWindow}

\* Room is made for a new key only when the map is full.
Surviving(i) == IF i \notin keys /\ Cardinality(keys) >= MaxActiveKeys THEN keys \ Idle ELSE keys

Admitted(i) == i \in keys \/ Cardinality(Surviving(i)) < MaxActiveKeys

BudgetInit ==
  /\ now = 1
  /\ keys = {}
  /\ bucket = [i \in Voter |-> Empty]
  /\ lastVote = [i \in Voter |-> NoVote]
  /\ budget = [i \in Voter |-> Cap]

TimePasses ==
  /\ now < LastTick
  /\ now' = now + 1
  /\ budget' = [i \in Voter |-> Lesser(Cap, budget[i] + Rate)]
  /\ UNCHANGED <<keys, bucket, lastVote>>

Keep(S) ==
  /\ keys' = S
  /\ bucket' = [i \in Voter |-> IF i \in S THEN bucket[i] ELSE Empty]

\* consume, after the handler has inspected the bucket of i.
Charge(i, n) ==
  IF Level(i) < n * BudgetWindow
  THEN /\ keys' = Surviving(i)
       /\ bucket' = [k \in Voter |->
            IF k \notin Surviving(i) THEN Empty
            ELSE IF k = i THEN [tokens |-> Level(i), at |-> now] ELSE bucket[k]]
  ELSE /\ keys' = Surviving(i) \cup {i}
       /\ bucket' = [k \in Voter |->
            IF k = i THEN [tokens |-> Level(i) - n * BudgetWindow, at |-> now]
            ELSE IF k \in Surviving(i) THEN bucket[k] ELSE Empty]

\* 429
Refuse(i) ==
  /\ ~ (Admitted(i) /\ Sticks(i) >= 1)
  /\ Keep(Surviving(i))
  /\ UNCHANGED <<now, lastVote, budget>>

\* The service fails (the day's case cannot be opened): nothing is charged.
Fail(i) ==
  /\ Admitted(i) /\ Sticks(i) >= 1
  /\ Keep(Surviving(i))
  /\ UNCHANGED <<now, lastVote, budget>>

\* The service accepts and spends n sticks, at most what it was given room for.
Accept(i, n) ==
  /\ Admitted(i)
  /\ n <= Sticks(i)
  /\ Charge(i, n)
  /\ lastVote' = [lastVote EXCEPT ![i] = now]
  /\ budget' = [budget EXCEPT ![i] = @ - n * BudgetWindow]
  /\ UNCHANGED now

\* A new rejection leaves a receipt and costs one unit.
Reject(i) ==
  /\ Admitted(i)
  /\ Sticks(i) >= 1
  /\ Charge(i, 1)
  /\ UNCHANGED <<now, lastVote, budget>>

ServerRestart ==
  /\ Keep({})
  /\ UNCHANGED <<now, lastVote, budget>>

\* An operator deletes vote rows: the newest that is left of i is older, or
\* there is none.  What the deleted votes spent is forgiven.
Wipe(i, t) ==
  /\ t < lastVote[i]
  /\ lastVote' = [lastVote EXCEPT ![i] = t]
  /\ budget' = [budget EXCEPT ![i] = Cap]
  /\ UNCHANGED <<now, keys, bucket>>

\* POST /v1/votes with a request id that has no receipt yet.
PostVotes(i) ==
  \/ Refuse(i) \/ Fail(i) \/ Reject(i)
  \/ \E n \in 1 .. MaxCount : Accept(i, n)

BudgetNext ==
  \/ TimePasses \/ ServerRestart
  \/ \E i \in Voter :
       \/ PostVotes(i)
       \/ \E t \in NoVote .. LastTick : Wipe(i, t)

BudgetSpec == BudgetInit /\ [][BudgetNext]_budgetVars
-----------------------------------------------------------------------------
(* Properties.                                                              *)

BudgetTypeOK ==
  /\ now \in 1 .. LastTick
  /\ keys \subseteq Voter
  /\ bucket \in [Voter -> [tokens : 0 .. Cap, at : 0 .. now]]
  /\ lastVote \in [Voter -> 0 .. now]
  /\ budget \in [Voter -> Int]

\* The sticks an installation gets accepted stay within one bucket of Burst
\* windows that refills Rate a window, whatever is evicted, restarted, rejected
\* or rebuilt in between; only an operator's wipe forgives what was spent.
NoOverdraw == \A i \in Voter : budget[i] >= 0

\* The map never holds more than MaxActiveKeys buckets.
KeysBounded == Cardinality(keys) <= MaxActiveKeys

\* An installation that loses its bucket to make room for another may spend at
\* least one window of refill right away: it cannot be locked out by eviction.
EvictedKeepMinute ==
  [][(\E i \in Voter : PostVotes(i))
       => \A k \in keys \ keys' : Level(k)' >= Minute]_budgetVars
=============================================================================
