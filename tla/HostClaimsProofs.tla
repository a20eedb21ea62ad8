--------------------------- MODULE HostClaimsProofs ---------------------------
(***************************************************************************)
(* Theorems about the claims of a Host, for any number of claims, tokens,  *)
(* days, faults, repairs and restarts.  What every figure that is held or  *)
(* on its way may be at most, the gift and the tokens observed on its day, *)
(* is the invariant behind OwnDay.                                         *)
(***************************************************************************)
EXTENDS HostClaims, TLAPS

Call == {"bootstrap"} \cup Calls

Claims ==
  [pc : {"free", "waiting", "resumed", "asked", "back"}, on : Task \cup {NoTask},
   target : Nat, date : Date, vote : BOOLEAN, answer : Answers]

CallStates == [pc : {"idle", "asked", "back"}, answer : Answers]

Rows == [1 .. LastDay -> Row \cup {Unmet}]

\* Who is in flight is a request, and who waits waits for a claim.
Queued(f, claim) ==
  /\ f \in Task \cup {NoTask}
  /\ f # NoTask => claim[f].pc \in {"asked", "back"}
  /\ \A t \in Task : claim[t].pc = "waiting" <=> claim[t].on # NoTask

(* The constants, and the values the module is built from. *)

LEMMA Constants ==
  /\ Starter \in Nat /\ Ceiling \in Nat /\ LastDay \in Nat /\ LastDay > 0
  /\ Skew \subseteq 0 .. 2 /\ Calls \subseteq {"daily", "vote"} /\ NoTask \notin Task
PROOF BY ClaimsAssumption

LEMMA Values ==
  /\ NoAnswer \in Answers /\ NoAnswer.date = 0 /\ NoRow \in Row /\ NoRow.claimed = 0
  /\ Free \in Claims /\ Free.pc = "free" /\ Free.on = NoTask /\ Free.date = 0 /\ ~ Free.vote
  /\ Free.answer.date = 0
  /\ Idle \in CallStates /\ Idle.pc = "idle" /\ Idle.answer.date = 0
  /\ Asked \in CallStates /\ Asked.pc = "asked" /\ Asked.answer.date = 0
PROOF
<1>1. NoRow \in Row /\ NoRow.claimed = 0  BY Constants DEF NoRow, Row
<1>2. NoAnswer \in Answers /\ NoAnswer.date = 0
  BY <1>1, Constants DEF NoAnswer, Answer, Answers
<1>3. /\ Idle \in CallStates /\ Idle.pc = "idle" /\ Idle.answer.date = 0
      /\ Asked \in CallStates /\ Asked.pc = "asked" /\ Asked.answer.date = 0
  BY <1>2 DEF Idle, Asked, CallStates
<1>4. /\ Free.pc = "free" /\ Free.on = NoTask /\ Free.date = 0 /\ ~ Free.vote
      /\ Free.answer.date = 0
  BY <1>2 DEF Free
<1>5. Free \in Claims
  BY <1>2, Constants DEF Free, Claims, Date
<1> QED  BY <1>1, <1>2, <1>3, <1>4, <1>5

LEMMA Lesser ==
  ASSUME NEW a \in Int, NEW b \in Int
  PROVE  /\ Least(a, b) \in {a, b} /\ Least(a, b) <= a /\ Least(a, b) <= b
         /\ Greatest(a, b) \in {a, b} /\ Greatest(a, b) >= a /\ Greatest(a, b) >= b
PROOF BY DEF Least, Greatest

LEMMA Ledger ==
  ASSUME NEW r \in Row
  PROVE  r.claimed \in Nat /\ r.starter \in Nat /\ r.starter <= Starter /\ r # Unmet
PROOF BY Constants DEF Row, Unmet

LEMMA AnswerParts ==
  ASSUME NEW a \in Answers
  PROVE  a.date \in 0 .. LastDay /\ a.ledger \in Row /\ a.applied \in BOOLEAN /\ a.date \in Date
PROOF BY Constants DEF Answers, Date

LEMMA ClaimParts ==
  ASSUME NEW c \in Claims
  PROVE  c.pc \in {"free", "waiting", "resumed", "asked", "back"} /\ c.on \in Task \cup {NoTask}
         /\ c.target \in Nat /\ c.date \in Date /\ c.vote \in BOOLEAN /\ c.answer \in Answers
PROOF BY DEF Claims

LEMMA RepresentedFits ==
  ASSUME NEW r \in Row, NEW n \in Nat
  PROVE  /\ Represented(r, n) \in Nat /\ Represented(r, n) <= n
         /\ r.claimed + Greatest(0, n - Represented(r, n))
              <= r.starter + Greatest(r.claimed - r.starter, n)
PROOF BY Ledger DEF Represented, Least, Greatest

(* What a first contact and a claim make of the day's row. *)

LEMMA GrantedFits ==
  ASSUME NEW r \in Row \cup {Unmet}
  PROVE  /\ Granted(r) \in Row
         /\ r = Unmet => Granted(r).claimed = Starter /\ Granted(r).starter = Starter
         /\ r # Unmet => Granted(r) = r
PROOF BY Constants DEF Granted, Row

LEMMA RaisedFits ==
  ASSUME NEW target \in Nat, NEW d, row \in Rows, day \in 1 .. LastDay
  PROVE  /\ Raised(target, d) \in Rows
         /\ \A e \in 1 .. LastDay : e # day \/ d # day => Raised(target, d)[e] = row[e]
         /\ d = day =>
              /\ Raised(target, d)[day] \in Row
              /\ Raised(target, d)[day].starter = Granted(row[day]).starter
              /\ \/ Raised(target, d)[day].claimed = Granted(row[day]).claimed
                 \/ Raised(target, d)[day].claimed <= target
PROOF
<1>1. CASE d # day  BY <1>1 DEF Raised
<1>2. CASE d = day
  <2> DEFINE r == Granted(row[day])
             n == IF Ceiling > 0 THEN Least(target, r.claimed + Ceiling) ELSE target
  <2>1. r \in Row  BY GrantedFits DEF Rows
  <2>2. n \in Nat /\ n <= target  BY <2>1, Ledger, Constants DEF Least
  <2> HIDE DEF n
  <2> DEFINE s == IF ~ Applied(target, d) THEN r ELSE [r EXCEPT !.claimed = n]
  <2>3. s \in Row /\ s.starter = r.starter /\ (s.claimed = r.claimed \/ s.claimed <= target)
    BY <2>1, <2>2, Ledger DEF Row
  <2>4. Raised(target, d) = [row EXCEPT ![day] = s]
    BY <1>2 DEF Raised, n
  <2> HIDE DEF s, r
  <2>5. /\ Raised(target, d) \in Rows
        /\ Raised(target, d)[day] = s
        /\ \A e \in 1 .. LastDay : e # day => Raised(target, d)[e] = row[e]
    BY <2>3, <2>4 DEF Rows
  <2> QED  BY <2>3, <2>5, <1>2 DEF r
<1> QED  BY <1>1, <1>2

(* The types, part by part. *)

Kept ==
  /\ day \in 1 .. LastDay /\ row \in Rows
  /\ late \subseteq [target : Nat, date : Date]
  /\ local \in [Date -> Nat] /\ label \in Date
  /\ observed \in [1 .. LastDay -> Nat]

Held ==
  /\ ready \in BOOLEAN /\ date \in 0 .. LastDay
  /\ personal \in Row \cup {Unknown}
  /\ baseline \in Nat /\ lastSent \in Nat \cup {-1}
  /\ up \in BOOLEAN /\ backoff \in BOOLEAN /\ timer \in BOOLEAN
  /\ lag \in {"none", "behind", "claimed", "moved"}

UnderWay ==
  /\ task \in [Task -> Claims] /\ Queued(flying, task)
  /\ call \in [Call -> CallStates]

LEMMA Types == TypeOK <=> Kept /\ Held /\ UnderWay
PROOF BY DEF TypeOK, Kept, Held, UnderWay, Rows, Claims, CallStates, Call, Queued

LEMMA TypesNext == Kept' /\ Held' /\ UnderWay' => TypeOK'
PROOF BY DEF TypeOK, Kept, Held, UnderWay, Rows, Claims, CallStates, Call, Queued

(* What the steps that several actions share do. *)

LEMMA RefreshedFits ==
  ASSUME UnderWay
  PROVE  /\ Refreshed \in [Call -> CallStates]
         /\ \A c \in Call : Refreshed[c] = call[c] \/ (c = "bootstrap" /\ Refreshed[c] = Asked)
PROOF BY Values DEF Refreshed, UnderWay, Call

LEMMA SetCall ==
  ASSUME UnderWay, NEW c, NEW v \in CallStates, NEW f \in [Call -> CallStates]
  PROVE  /\ [f EXCEPT ![c] = v] \in [Call -> CallStates]
         /\ \A b \in Call : [f EXCEPT ![c] = v][b] = IF b = c THEN v ELSE f[b]
PROOF OBVIOUS

LEMMA ClaimableFits ==
  ASSUME Kept, Held
  PROVE  /\ Claimable \in Nat
         /\ personal = Unknown => Claimable = local[IF date = 0 THEN label ELSE date]
         /\ personal # Unknown =>
              Claimable = personal.claimed + Greatest(0, local[date] - baseline)
PROOF
<1>1. (IF date = 0 THEN label ELSE date) \in Date /\ date \in Date
  BY Constants DEF Kept, Held, Date
<1>2. local[IF date = 0 THEN label ELSE date] \in Nat /\ local[date] \in Nat
  BY <1>1 DEF Kept
<1>3. personal # Unknown => personal.claimed \in Nat  BY Ledger DEF Held
<1>4. Greatest(0, local[date] - baseline) \in Nat  BY <1>2 DEF Greatest, Held
<1> QED  BY <1>2, <1>3, <1>4 DEF Claimable

\* The claim a submission sends.
Sent(t, forVote) ==
  [Free EXCEPT !.pc = "asked", !.target = Claimable,
               !.date = IF date = 0 THEN label ELSE date, !.vote = forVote]

LEMMA SentFits ==
  ASSUME Kept, Held, NEW t, NEW v \in BOOLEAN
  PROVE  /\ Sent(t, v) \in Claims
         /\ Sent(t, v).pc = "asked" /\ Sent(t, v).on = NoTask /\ Sent(t, v).target = Claimable
         /\ Sent(t, v).date = (IF date = 0 THEN label ELSE date) /\ Sent(t, v).vote = v
         /\ Sent(t, v).answer.date = 0
PROOF
<1> DEFINE d == IF date = 0 THEN label ELSE date
<1>1. d \in Date  BY Constants DEF Kept, Held, Date
<1>2. Claimable \in Nat  BY ClaimableFits
<1> HIDE DEF d
<1>3. Sent(t, v) = [Free EXCEPT !.pc = "asked", !.target = Claimable, !.date = d, !.vote = v]
  BY DEF Sent, d
<1>4. /\ Sent(t, v) \in Claims
      /\ Sent(t, v).pc = "asked" /\ Sent(t, v).on = Free.on /\ Sent(t, v).target = Claimable
      /\ Sent(t, v).date = d /\ Sent(t, v).vote = v /\ Sent(t, v).answer = Free.answer
  BY <1>1, <1>2, <1>3, Values DEF Claims
<1> QED  BY <1>4, Values DEF d

LEMMA Submitted ==
  ASSUME TypeOK, NEW t \in Task, NEW v \in BOOLEAN, Submit(t, v),
         task[t].pc \in {"free", "resumed"}
  PROVE  /\ UnderWay' /\ lastSent' \in Nat \cup {-1}
         /\ lag' = lag \/ (lag = "behind" /\ lag' = "claimed")
         /\ \A s \in Task : s # t => task'[s] = task[s]
         /\ \/ task'[t] = Free
            \/ task'[t] = Sent(t, v) /\ (lag = "behind" => lag' = "claimed")
         /\ \A c \in Call : call'[c] = call[c] \/ (v /\ c = "vote" /\ call'[c] = Asked)
PROOF
<1> USE Types
<1>1. Claimable \in Nat  BY ClaimableFits
<1>2. lastSent' \in Nat \cup {-1}  BY <1>1 DEF Submit, Greatest, Held
<1>3. lag' = lag \/ (lag = "behind" /\ lag' = "claimed")  BY DEF Submit
<1>4. \A c \in Call : call'[c] = call[c] \/ (v /\ c = "vote" /\ call'[c] = Asked)
  BY DEF Submit, UnderWay
<1>5. call' \in [Call -> CallStates]  BY Values DEF Submit, UnderWay
<1>6. \/ task' = [task EXCEPT ![t] = Free] /\ flying' = flying
      \/ /\ task' = [task EXCEPT ![t] = Sent(t, v)] /\ flying' = t
         /\ lag = "behind" => lag' = "claimed"
  BY DEF Submit, Sent
<1>7. task \in [Task -> Claims] /\ Queued(flying, task)  BY DEF UnderWay
<1>8. t # NoTask  BY Constants
<1>9. CASE task' = [task EXCEPT ![t] = Free] /\ flying' = flying
  <2>1. task' \in [Task -> Claims] /\ task'[t] = Free /\ \A s \in Task : s # t => task'[s] = task[s]
    BY <1>7, <1>9, Values
  <2>2. flying # t  BY <1>7, <1>8 DEF Queued
  <2>3. Queued(flying, task)'  BY <1>7, <1>9, <2>1, <2>2, Values DEF Queued
  <2> QED  BY <2>1, <2>3, <1>2, <1>3, <1>4, <1>5 DEF UnderWay
<1>10. CASE /\ task' = [task EXCEPT ![t] = Sent(t, v)] /\ flying' = t
            /\ lag = "behind" => lag' = "claimed"
  <2>1. /\ Sent(t, v) \in Claims /\ Sent(t, v).pc = "asked" /\ Sent(t, v).on = NoTask
    BY SentFits
  <2>2. /\ task' \in [Task -> Claims] /\ task'[t] = Sent(t, v)
        /\ \A s \in Task : s # t => task'[s] = task[s]
    BY <1>7, <1>10, <2>1
  <2>3. Queued(flying, task)'  BY <1>7, <1>8, <1>10, <2>1, <2>2 DEF Queued
  <2> QED  BY <2>2, <2>3, <1>2, <1>3, <1>4, <1>5, <1>10 DEF UnderWay
<1> QED  BY <1>6, <1>9, <1>10

LEMMA Awaited ==
  ASSUME TypeOK, NEW t \in Task, NEW v \in BOOLEAN, Await(t, v), task[t].pc = "free",
         flying # NoTask
  PROVE  /\ UnderWay' /\ UNCHANGED <<lastSent, call, lag>>
         /\ \A s \in Task : s # t => task'[s] = task[s]
         /\ task'[t].pc = "waiting" /\ task'[t].date = 0 /\ task'[t].vote = v
         /\ task'[t].answer.date = 0
PROOF
<1>1. task \in [Task -> Claims] /\ Queued(flying, task) /\ call \in [Call -> CallStates]
  BY Types DEF UnderWay
<1> DEFINE w == [Free EXCEPT !.pc = "waiting", !.on = flying, !.vote = v]
<1>2. flying \in Task  BY <1>1 DEF Queued
<1>3. /\ w \in Claims /\ w.pc = "waiting" /\ w.on = flying /\ w.vote = v /\ w.date = Free.date
      /\ w.answer = Free.answer
  BY <1>2, Values DEF Claims
<1>4. /\ task' = [task EXCEPT ![t] = w] /\ UNCHANGED <<lastSent, flying, call, lag>>
  BY DEF Await
<1> HIDE DEF w
<1>5. task' \in [Task -> Claims] /\ task'[t] = w /\ \A s \in Task : s # t => task'[s] = task[s]
  BY <1>1, <1>3, <1>4
<1>6. t # flying  BY <1>1, <1>2 DEF Queued
<1>7. Queued(flying, task)'  BY <1>1, <1>3, <1>4, <1>5, <1>6 DEF Queued
<1> QED  BY <1>1, <1>3, <1>4, <1>5, <1>7, Values DEF UnderWay

LEMMA Settled ==
  ASSUME TypeOK, NEW t \in Task, Settle(t)
  PROVE  /\ UnderWay' /\ task'[t] = Free
         /\ \A s \in Task : s # t =>
              \/ task'[s] = task[s]
              \/ /\ task'[s].pc = "resumed" /\ task'[s].date = task[s].date
                 /\ task'[s].vote = task[s].vote /\ task'[s].answer = task[s].answer
         /\ \A c \in Call : call'[c] = call[c] \/ (task[t].vote /\ c = "vote" /\ call'[c] = Asked)
PROOF
<1>1. task \in [Task -> Claims] /\ Queued(flying, task) /\ call \in [Call -> CallStates]
  BY Types DEF UnderWay
<1> DEFINE r(s) == [task[s] EXCEPT !.pc = "resumed", !.on = NoTask]
<1>2. ASSUME NEW s \in Task
      PROVE  /\ r(s) \in Claims /\ r(s).pc = "resumed" /\ r(s).on = NoTask
             /\ r(s).date = task[s].date /\ r(s).vote = task[s].vote
             /\ r(s).answer = task[s].answer
  BY <1>1 DEF Claims
<1>3. /\ flying' = NoTask
      /\ task' = [s \in Task |-> IF s = t THEN Free
                                 ELSE IF task[s].on = t THEN r(s) ELSE task[s]]
      /\ call' = IF task[t].vote THEN [call EXCEPT !["vote"] = Asked] ELSE call
  BY DEF Settle, Landed
<1> HIDE DEF r
<1>4. /\ task'[t] = Free
      /\ \A s \in Task : s # t => task'[s] = task[s] \/ task'[s] = r(s)
  BY <1>3
<1>5. task' \in [Task -> Claims]  BY <1>1, <1>2, <1>3, Values
<1>6. \A s \in Task : task'[s].pc = "waiting" <=> task'[s].on # NoTask
  BY <1>1, <1>2, <1>3, <1>4, Values DEF Queued
<1>7. Queued(flying, task)'  BY <1>3, <1>6 DEF Queued
<1>8. /\ call' \in [Call -> CallStates]
      /\ \A c \in Call : call'[c] = call[c] \/ (task[t].vote /\ c = "vote" /\ call'[c] = Asked)
  BY <1>1, <1>3, Values
<1> QED  BY <1>2, <1>4, <1>5, <1>7, <1>8 DEF UnderWay

(* What is asked of the authority, and what it answers. *)

LEMMA AnswerFits ==
  ASSUME day \in 1 .. LastDay, NEW rows \in Rows, NEW applied \in BOOLEAN
  PROVE  LET ledger == IF rows[day] = Unmet THEN NoRow ELSE rows[day] IN
         /\ Answer(day, ledger, applied) \in Answers
         /\ Answer(day, ledger, applied).date = day
         /\ Answer(day, ledger, applied).ledger = ledger
PROOF
<1> DEFINE ledger == IF rows[day] = Unmet THEN NoRow ELSE rows[day]
<1>1. ledger \in Row  BY Values DEF Rows
<1> HIDE DEF ledger
<1>2. /\ Answer(day, ledger, applied) \in Answers
      /\ Answer(day, ledger, applied).date = day
      /\ Answer(day, ledger, applied).ledger = ledger
  BY <1>1, Constants DEF Answer, Answers
<1> QED  BY <1>2 DEF ledger

LEMMA CallPc ==
  ASSUME UnderWay, NEW c \in Call
  PROVE  call[c].pc \in {"idle", "asked", "back"} /\ call[c].answer \in Answers
PROOF BY DEF UnderWay, CallStates

LEMMA TaskParts ==
  ASSUME UnderWay, NEW t \in Task
  PROVE  /\ task[t].pc \in {"free", "waiting", "resumed", "asked", "back"}
         /\ task[t].on \in Task \cup {NoTask}
         /\ task[t].target \in Nat /\ task[t].date \in Date /\ task[t].vote \in BOOLEAN
         /\ task[t].answer \in Answers
PROOF BY ClaimParts DEF UnderWay

\* What a claim that arrives leaves.
LEMMA Arrived ==
  ASSUME TypeOK, NEW t \in Task, ClaimArrives(t)
  PROVE  /\ UnderWay' /\ row' \in Rows
         /\ \A s \in Task : s # t => task'[s] = task[s]
         /\ task'[t].pc = "back" /\ task'[t].date = task[t].date /\ task'[t].vote = task[t].vote
         /\ task'[t].answer.date = day
         /\ task'[t].answer.ledger = IF row'[day] = Unmet THEN NoRow ELSE row'[day]
PROOF
<1> DEFINE ledger == IF row'[day] = Unmet THEN NoRow ELSE row'[day]
           applied == Applied(task[t].target, task[t].date)
           a == Answer(day, ledger, applied)
           w == [task[t] EXCEPT !.pc = "back", !.answer = a]
<1>1. Kept /\ UnderWay  BY Types
<1>2. task \in [Task -> Claims] /\ Queued(flying, task) /\ call \in [Call -> CallStates]
  BY <1>1 DEF UnderWay
<1>3. row' \in Rows
  BY <1>1, TaskParts, RaisedFits DEF ClaimArrives, Kept
<1>4. applied \in BOOLEAN  BY DEF Applied
<1> HIDE DEF applied
<1>5. a \in Answers /\ a.date = day /\ a.ledger = ledger
  BY <1>1, <1>3, <1>4, AnswerFits DEF Kept
<1>6. task' = [task EXCEPT ![t].pc = "back", ![t].answer = a]
  BY DEF ClaimArrives, applied
<1> HIDE DEF a
<1>7. /\ w \in Claims /\ w.pc = "back" /\ w.on = task[t].on /\ w.date = task[t].date
      /\ w.vote = task[t].vote /\ w.answer = a
  BY <1>2, <1>5 DEF Claims
<1>8. task' = [task EXCEPT ![t] = w]
  BY <1>2, <1>6
<1> HIDE DEF w
<1>9. task' \in [Task -> Claims] /\ task'[t] = w /\ \A s \in Task : s # t => task'[s] = task[s]
  BY <1>2, <1>7, <1>8
<1>10. task[t].pc = "asked" /\ UNCHANGED <<flying, call>>  BY DEF ClaimArrives, claims
<1>11. Queued(flying, task)'  BY <1>2, <1>7, <1>9, <1>10 DEF Queued
<1> QED  BY <1>2, <1>3, <1>5, <1>7, <1>9, <1>10, <1>11 DEF UnderWay

\* What a call that arrives leaves.
LEMMA Reached ==
  ASSUME TypeOK, NEW c \in Call, CallArrives(c)
  PROVE  /\ call' \in [Call -> CallStates] /\ row' \in Rows
         /\ row' = row \/ row' = [row EXCEPT ![day] = Granted(@)]
         /\ \A b \in Call : b # c => call'[b] = call[b]
         /\ call[c].pc = "asked" /\ call'[c].pc = "back" /\ call'[c].answer.date = day
         /\ call'[c].answer.ledger = IF row'[day] = Unmet THEN NoRow ELSE row'[day]
PROOF
<1> DEFINE ledger == IF row'[day] = Unmet THEN NoRow ELSE row'[day]
           a == Answer(day, ledger, FALSE)
           w == [pc |-> "back", answer |-> a]
<1>1. Kept /\ call \in [Call -> CallStates]  BY Types DEF UnderWay
<1>2. row' = row \/ row' = [row EXCEPT ![day] = Granted(@)]  BY DEF CallArrives
<1>3. row' \in Rows  BY <1>1, <1>2, GrantedFits DEF Kept, Rows
<1>4. a \in Answers /\ a.date = day /\ a.ledger = ledger
  BY <1>1, <1>3, AnswerFits DEF Kept
<1>5. call' = [call EXCEPT ![c] = w] /\ call[c].pc = "asked"  BY DEF CallArrives
<1> HIDE DEF a
<1>6. w \in CallStates /\ w.pc = "back" /\ w.answer = a  BY <1>4 DEF CallStates
<1> HIDE DEF w
<1>7. /\ call' \in [Call -> CallStates] /\ call'[c] = w
      /\ \A b \in Call : b # c => call'[b] = call[b]
  BY <1>1, <1>5, <1>6
<1> QED  BY <1>2, <1>3, <1>4, <1>5, <1>6, <1>7

\* Figures given up on are those that were asked.
LEMMA GivenUp ==
  ASSUME TypeOK, NEW S \in SUBSET Task
  PROVE  late \cup {[target |-> task[t].target, date |-> task[t].date] : t \in S}
           \subseteq [target : Nat, date : Date]
PROOF BY Types, TaskParts DEF Kept

-------------------------------------------------------------------------------
(* TypeOK. *)

LEMMA InitTypes == Init => TypeOK
PROOF
<1> SUFFICES ASSUME Init PROVE TypeOK  OBVIOUS
<1>1. Kept  BY Constants DEF Init, Kept, Rows, Date
<1>2. Held
  <2>1. ready \in BOOLEAN /\ up \in BOOLEAN /\ backoff \in BOOLEAN /\ timer \in BOOLEAN
    BY DEF Init
  <2>2. date \in 0 .. LastDay /\ baseline \in Nat /\ lastSent \in Nat \cup {-1}
    BY Constants DEF Init
  <2>3. personal \in Row \cup {Unknown} /\ lag \in {"none", "behind", "claimed", "moved"}
    BY DEF Init
  <2> QED  BY <2>1, <2>2, <2>3 DEF Held
<1>3. UnderWay  BY Constants, Values DEF Init, UnderWay, Queued, Call
<1> QED  BY <1>1, <1>2, <1>3, Types

LEMMA AuthorityTypes ==
  ASSUME TypeOK, Midnight \/ LabelTurns \/ Network
  PROVE  TypeOK'
PROOF
<1>0. Kept /\ Held /\ UnderWay  BY Types
<1>1. CASE Midnight
  <2>1. Kept'  BY <1>0, <1>1, Constants DEF Midnight, Kept, usage, history
  <2>2. Held'  BY <1>0, <1>1 DEF Midnight, Held, books, seen, link, claims, history
  <2>3. UnderWay'  BY <1>0, <1>1 DEF Midnight, UnderWay, claims
  <2> QED  BY <2>1, <2>2, <2>3, TypesNext
<1>2. CASE LabelTurns
  <2>1. Kept'  BY <1>0, <1>2, Constants DEF LabelTurns, Kept, authority, history, Date
  <2>2. Held'  BY <1>0, <1>2 DEF LabelTurns, Held, books, seen, link, claims, history
  <2>3. UnderWay'  BY <1>0, <1>2 DEF LabelTurns, UnderWay, claims
  <2> QED  BY <2>1, <2>2, <2>3, TypesNext
<1>3. ASSUME NEW t \in Task, ClaimArrives(t)  PROVE TypeOK'
  <2>1. Kept'  BY <1>0, <1>3, Arrived DEF ClaimArrives, Kept, usage, history
  <2>2. Held'  BY <1>0, <1>3 DEF ClaimArrives, Held, books, seen, link, history
  <2>3. UnderWay'  BY <1>3, Arrived
  <2> QED  BY <2>1, <2>2, <2>3, TypesNext
<1>4. ASSUME NEW c \in DOMAIN call, CallArrives(c)  PROVE TypeOK'
  <2>0. c \in Call  BY <1>0, <1>4 DEF UnderWay
  <2>1. Kept'  BY <1>0, <1>4, <2>0, Reached DEF CallArrives, Kept, usage, history
  <2>2. Held'  BY <1>0, <1>4 DEF CallArrives, Held, books, seen, link, claims, history
  <2>3. UnderWay'  BY <1>0, <1>4, <2>0, Reached DEF CallArrives, UnderWay, claims
  <2> QED  BY <2>1, <2>2, <2>3, TypesNext
<1>5. ASSUME NEW c \in late, LateClaim(c)  PROVE TypeOK'
  <2>0. c.target \in Nat  BY <1>0 DEF Kept
  <2>1. row' \in Rows  BY <1>0, <1>5, <2>0, RaisedFits DEF LateClaim, Kept
  <2>2. Kept'  BY <1>0, <1>5, <2>1 DEF LateClaim, Kept, usage, history
  <2>3. Held'  BY <1>0, <1>5 DEF LateClaim, Held, books, seen, link, claims, history
  <2>4. UnderWay'  BY <1>0, <1>5 DEF LateClaim, UnderWay, claims
  <2> QED  BY <2>2, <2>3, <2>4, TypesNext
<1> QED  BY <1>1, <1>2, <1>3, <1>4, <1>5 DEF Network

LEMMA ClaimTypes ==
  ASSUME TypeOK, NEW t \in Task,
         TimerFires(t) \/ Vote(t) \/ Resume(t) \/ ClaimAnswered(t) \/ ClaimFails(t)
  PROVE  TypeOK'
PROOF
<1>0. Kept /\ Held /\ UnderWay  BY Types
<1>1. ASSUME NEW v \in BOOLEAN, Submit(t, v), task[t].pc \in {"free", "resumed"}
      PROVE  UnderWay' /\ lastSent' \in Nat \cup {-1}
             /\ lag' \in {"none", "behind", "claimed", "moved"}
  BY <1>0, <1>1, Submitted DEF Held
<1>2. ASSUME NEW v \in BOOLEAN, Begin(t, v), task[t] = Free
      PROVE  UnderWay' /\ lastSent' \in Nat \cup {-1}
             /\ lag' \in {"none", "behind", "claimed", "moved"}
  <2>1. task[t].pc = "free"  BY <1>2, Values
  <2>2. CASE flying # NoTask /\ Await(t, v)  BY <1>0, <2>1, <2>2, Awaited DEF Held
  <2>3. CASE Submit(t, v)  BY <1>1, <2>1, <2>3
  <2> QED  BY <1>2, <2>2, <2>3 DEF Begin
<1>3. CASE TimerFires(t)
  <2>1. UnderWay' /\ lastSent' \in Nat \cup {-1} /\ lag' \in {"none", "behind", "claimed", "moved"}
    BY <1>2, <1>3 DEF TimerFires
  <2>2. Kept'  BY <1>0, <1>3 DEF TimerFires, Kept, authority, usage
  <2>3. Held'  BY <1>0, <1>3, <2>1 DEF TimerFires, Held, seen, link
  <2> QED  BY <2>1, <2>2, <2>3, TypesNext
<1>4. CASE Vote(t)
  <2>1. UnderWay' /\ lastSent' \in Nat \cup {-1} /\ lag' \in {"none", "behind", "claimed", "moved"}
    BY <1>2, <1>4 DEF Vote
  <2>2. Kept'  BY <1>0, <1>4 DEF Vote, Kept, authority, usage
  <2>3. Held'  BY <1>0, <1>4, <2>1 DEF Vote, Held, seen, link
  <2> QED  BY <2>1, <2>2, <2>3, TypesNext
<1>5. CASE Resume(t)
  <2>0. task[t].vote \in BOOLEAN  BY <1>0, TaskParts
  <2>1. UnderWay' /\ lastSent' \in Nat \cup {-1} /\ lag' \in {"none", "behind", "claimed", "moved"}
    BY <1>1, <1>5, <2>0 DEF Resume
  <2>2. Kept'  BY <1>0, <1>5 DEF Resume, Kept, authority, usage
  <2>3. Held'  BY <1>0, <1>5, <2>1 DEF Resume, Held, seen, link
  <2> QED  BY <2>1, <2>2, <2>3, TypesNext
<1>6. CASE ClaimAnswered(t)
  <2>1. UnderWay'  BY <1>6, Settled DEF ClaimAnswered
  <2>2. Kept'  BY <1>0, <1>6 DEF ClaimAnswered, Kept, authority, usage
  <2> DEFINE a == task[t].answer
  <2>3. /\ a.date \in 0 .. LastDay /\ a.ledger \in Row /\ a.ledger.claimed \in Nat
        /\ task[t].target \in Nat /\ local[a.date] \in Nat
    BY <1>0, TaskParts, AnswerParts, Ledger DEF Kept
  <2>4. Represented(a.ledger, local[a.date]) \in Nat  BY <2>3, RepresentedFits
  <2>5. InLedger(local[a.date], a.ledger) \in Nat  BY <2>3 DEF InLedger, Least
  <2>6. Greatest(lastSent, Least(task[t].target, a.ledger.claimed)) \in Nat \cup {-1}
    BY <1>0, <2>3 DEF Greatest, Least, Held
  <2>7. /\ Overtaken(a, a.date) \in {"none", "behind", "claimed", "moved"}
        /\ InStep \in {"none", "behind", "claimed", "moved"}
    BY <1>0 DEF Overtaken, InStep, Held
  <2> HIDE DEF a
  <2>8. /\ up' = TRUE /\ personal' = a.ledger /\ date' = a.date
        /\ UNCHANGED <<ready, backoff>> /\ timer' \in {timer, TRUE}
        /\ baseline' \in {baseline, Represented(a.ledger, local[a.date]),
                          InLedger(local[a.date], a.ledger)}
        /\ lag' \in {Overtaken(a, a.date), InStep}
        /\ lastSent' \in {FreshDay, task[t].target,
                          Greatest(lastSent, Least(task[t].target, a.ledger.claimed))}
    BY <1>6 DEF ClaimAnswered, a
  <2>9. Held'  BY <1>0, <2>3, <2>4, <2>5, <2>6, <2>7, <2>8 DEF Held, FreshDay
  <2> QED  BY <2>1, <2>2, <2>9, TypesNext
<1>7. CASE ClaimFails(t)
  <2>1. UnderWay'  BY <1>7, Settled DEF ClaimFails
  <2>2. late' \subseteq [target : Nat, date : Date]
    BY <1>0, <1>7, TaskParts DEF ClaimFails, Kept
  <2>3. Kept'  BY <1>0, <1>7, <2>2 DEF ClaimFails, Kept, usage, history
  <2>4. Held'  BY <1>0, <1>7 DEF ClaimFails, Held, books, seen, history
  <2> QED  BY <2>1, <2>3, <2>4, TypesNext
<1> QED  BY <1>3, <1>4, <1>5, <1>6, <1>7

LEMMA ReadTypes ==
  ASSUME TypeOK,
         \/ Adopt \/ BackoffEnds \/ Tick \/ Open \/ SnapshotFails \/ RefreshPersonal
         \/ \E c \in DOMAIN call : PersonalRead(c) \/ CallFails(c)
  PROVE  TypeOK'
PROOF
<1>0. Kept /\ Held /\ UnderWay  BY Types
<1>1. CASE Adopt
  <2> DEFINE a == call["bootstrap"].answer
  <2>1. a.date \in 0 .. LastDay /\ a.ledger \in Row /\ a.date \in Date
    BY <1>0, CallPc, AnswerParts DEF Call
  <2>2. Aligned(a.date) \in [Date -> Nat]
    BY <1>0, <2>1 DEF Aligned, Kept
  <2> HIDE DEF a
  <2>3. /\ ready' = TRUE /\ date' = a.date /\ personal' = a.ledger
        /\ local' = Aligned(a.date) /\ label' = a.date
        /\ baseline' = Represented(a.ledger, local'[a.date])
        /\ lag' \in {"moved", InStep} /\ lastSent' = FreshDay
        /\ up' = TRUE /\ backoff' = FALSE /\ timer' = TRUE
    BY <1>1 DEF Adopt, a
  <2>4. Kept'  BY <1>0, <1>1, <2>1, <2>2, <2>3 DEF Adopt, Kept, authority
  <2>5. baseline' \in Nat  BY <2>1, <2>2, <2>3, RepresentedFits
  <2>6. Held'  BY <1>0, <2>1, <2>3, <2>5 DEF Held, FreshDay, InStep
  <2>7. UnderWay'  BY <1>0, <1>1, Values DEF Adopt, UnderWay
  <2> QED  BY <2>4, <2>6, <2>7, TypesNext
<1>2. CASE BackoffEnds
  <2>1. Kept'  BY <1>0, <1>2 DEF BackoffEnds, Kept, authority, usage, history
  <2>2. Held'  BY <1>0, <1>2 DEF BackoffEnds, Held, books, seen, claims, history
  <2>3. UnderWay'  BY <1>0, <1>2 DEF BackoffEnds, UnderWay, claims
  <2> QED  BY <2>1, <2>2, <2>3, TypesNext
<1>3. CASE Tick \/ Open
  <2>1. call' = Refreshed
        /\ UNCHANGED <<authority, usage, books, seen, link, claims, history, used>>
    BY <1>3 DEF Tick, Open
  <2>2. Kept'  BY <1>0, <2>1 DEF Kept, authority, usage, history
  <2>3. Held'  BY <1>0, <2>1 DEF Held, books, seen, link, claims, history
  <2>4. UnderWay'  BY <1>0, <2>1, RefreshedFits DEF UnderWay, claims
  <2> QED  BY <2>2, <2>3, <2>4, TypesNext
<1>4. CASE SnapshotFails
  <2>1. Kept'  BY <1>0, <1>4 DEF SnapshotFails, Kept, authority, usage, history
  <2>2. Held'  BY <1>0, <1>4 DEF SnapshotFails, Held, books, seen, claims, history
  <2>3. UnderWay'  BY <1>0, <1>4 DEF SnapshotFails, UnderWay, claims
  <2> QED  BY <2>1, <2>2, <2>3, TypesNext
<1>5. CASE RefreshPersonal
  <2>1. Kept'  BY <1>0, <1>5 DEF RefreshPersonal, Kept, authority, usage, history
  <2>2. Held'  BY <1>0, <1>5 DEF RefreshPersonal, Held, books, seen, link, claims, history
  <2>3. UnderWay'  BY <1>0, <1>5, Values DEF RefreshPersonal, UnderWay, claims
  <2> QED  BY <2>1, <2>2, <2>3, TypesNext
<1>6. ASSUME NEW c \in DOMAIN call, PersonalRead(c)  PROVE TypeOK'
  <2> DEFINE a == call[c].answer
             f == IF a.date # date THEN Refreshed ELSE call
  <2>0. c \in Call  BY <1>0, <1>6 DEF UnderWay
  <2>1. a.ledger \in Row  BY <1>0, <2>0, CallPc, AnswerParts
  <2>2. f \in [Call -> CallStates]  BY <1>0, RefreshedFits DEF UnderWay
  <2>3. call' = [f EXCEPT ![c] = Idle]  BY <1>6 DEF PersonalRead
  <2>4. Kept'  BY <1>0, <1>6 DEF PersonalRead, Kept, authority, usage
  <2>5. Overtaken(a, date) \in {"none", "behind", "claimed", "moved"}  BY <1>0 DEF Overtaken, Held
  <2> HIDE DEF a
  <2>6. /\ personal' \in {personal, a.ledger} /\ up' \in {up, TRUE}
        /\ lag' \in {lag, Overtaken(a, date)}
        /\ UNCHANGED <<baseline, lastSent, seen, backoff, claims>>
    BY <1>6 DEF PersonalRead, a
  <2>7. Held'  BY <1>0, <2>1, <2>5, <2>6 DEF Held, seen, claims
  <2> HIDE DEF f
  <2>8. UnderWay'  BY <1>0, <2>2, <2>3, <2>6, Values DEF UnderWay, claims
  <2> QED  BY <2>4, <2>7, <2>8, TypesNext
<1>7. ASSUME NEW c \in DOMAIN call, CallFails(c)  PROVE TypeOK'
  <2>1. Kept'  BY <1>0, <1>7 DEF CallFails, Kept, authority, usage, history
  <2>2. Held'  BY <1>0, <1>7 DEF CallFails, Held, books, seen, claims, history
  <2>3. UnderWay'  BY <1>0, <1>7, Values DEF CallFails, UnderWay, claims
  <2> QED  BY <2>1, <2>2, <2>3, TypesNext
<1> QED  BY <1>1, <1>2, <1>3, <1>4, <1>5, <1>6, <1>7

LEMMA WorkTypes ==
  ASSUME TypeOK, Observe \/ Reconcile \/ Restart
  PROVE  TypeOK'
PROOF
<1>0. Kept /\ Held /\ UnderWay  BY Types
<1>1. CASE Observe
  <2>0. /\ observed' = [observed EXCEPT ![day] = @ + 1] /\ local' = [local EXCEPT ![label] = @ + 1]
        /\ call' \in {call, Refreshed} /\ timer' \in {timer, TRUE}
        /\ UNCHANGED <<authority, label, books, seen, link, task, flying, lag, used>>
    BY <1>1 DEF Observe
  <2>1. Kept'  BY <1>0, <2>0 DEF Kept, authority
  <2>2. Held'  BY <1>0, <2>0 DEF Held, books, seen, link
  <2>3. UnderWay'  BY <1>0, <2>0, RefreshedFits DEF UnderWay
  <2> QED  BY <2>1, <2>2, <2>3, TypesNext
<1>2. CASE Reconcile
  <2>1. Kept'  BY <1>0, <1>2 DEF Reconcile, Kept, authority, history
  <2>2. Held'  BY <1>0, <1>2 DEF Reconcile, Held, seen, link, claims, history
  <2>3. UnderWay'  BY <1>0, <1>2, RefreshedFits DEF Reconcile, UnderWay, claims
  <2> QED  BY <2>1, <2>2, <2>3, TypesNext
<1>3. CASE Restart
  <2>1. late' \subseteq [target : Nat, date : Date]  BY <1>3, GivenUp DEF Restart
  <2>2. label' \in Date
    <3>1. PICK s \in Skew : label' = day + s - 1  BY <1>3 DEF Restart
    <3>2. s \in 0 .. 2  BY Constants
    <3> QED  BY <1>0, <3>1, <3>2, Constants DEF Kept, Date
  <2>3. Kept'  BY <1>0, <1>3, <2>1, <2>2 DEF Restart, Kept
  <2>4. Held'
    <3>1. (ready \in BOOLEAN /\ up \in BOOLEAN /\ backoff \in BOOLEAN /\ timer \in BOOLEAN)'
      BY <1>3 DEF Restart
    <3>2. (date \in 0 .. LastDay /\ baseline \in Nat /\ lastSent \in Nat \cup {-1})'
      BY <1>3, Constants DEF Restart
    <3>3. (personal \in Row \cup {Unknown})'  BY <1>3 DEF Restart
    <3>4. (lag \in {"none", "behind", "claimed", "moved"})'  BY <1>0, <1>3 DEF Restart, InStep, Held
    <3> QED  BY <3>1, <3>2, <3>3, <3>4 DEF Held
  <2>5. UnderWay'  BY <1>0, <1>3, Constants, Values DEF Restart, UnderWay, Queued
  <2> QED  BY <2>3, <2>4, <2>5, TypesNext
<1> QED  BY <1>1, <1>2, <1>3

LEMMA StepTypes == TypeOK /\ [Next]_vars => TypeOK'
PROOF
<1> SUFFICES ASSUME TypeOK, [Next]_vars PROVE TypeOK'  OBVIOUS
<1>1. CASE UNCHANGED vars
  <2>0. Kept /\ Held /\ UnderWay  BY Types
  <2>1. Kept'  BY <2>0, <1>1 DEF vars, Kept, authority, usage, history
  <2>2. Held'  BY <2>0, <1>1 DEF vars, Held, books, seen, link, claims, history
  <2>3. UnderWay'  BY <2>0, <1>1 DEF vars, UnderWay, claims
  <2> QED  BY <2>1, <2>2, <2>3, TypesNext
<1>2. CASE Next
  BY <1>2, AuthorityTypes, ClaimTypes, ReadTypes, WorkTypes DEF Next, Host, User
<1> QED  BY <1>1, <1>2

\* The variables of a Host and of the authority keep their types, whatever is
\* lost, refused, overtaken or repaired; in particular only a request is in
\* flight, and who waits waits for a claim (submitClaim, claimOnce).
THEOREM TypeInvariant == Spec => []TypeOK
PROOF BY InitTypes, StepTypes, PTL DEF Spec

-------------------------------------------------------------------------------
(* OwnDay, of a Host whose clock is never a day ahead. *)

\* Every date that is held was the authority's once.
PastTask(c, d) ==
  c.date <= d /\ c.answer.date <= d /\ (c.pc = "back" => c.answer.date > 0)
PastCall(c, d) == c.answer.date <= d /\ (c.pc = "back" => c.answer.date > 0)

Past ==
  /\ label <= day /\ date <= day
  /\ \A c \in late : c.date <= day
  /\ \A t \in Task : PastTask(task[t], day)
  /\ \A c \in Call : PastCall(call[c], day)

\* A Host that knows no date has read no ledger, and asks for one by a
\* bootstrap or a claim only.
Unread ==
  date = 0 =>
    /\ personal = Unknown /\ ~ up
    /\ \A t \in Task : ~ task[t].vote
    /\ \A c \in Calls : call[c].pc = "idle"

Gifts == \A d \in 1 .. LastDay : row[d] # Unmet => row[d].starter = Starter

\* The most the ledger of today may hold.
Most == Starter + observed[day]

RowsFit == \A d \in 1 .. LastDay : row[d] # Unmet => row[d].claimed <= Starter + observed[d]

\* A bucket holds no more than was observed on its day, tomorrow's nothing.
BucketsFit == local[day] <= observed[day] /\ \A d \in Date : d > day => local[d] = 0

\* A figure made from books that are in step is no more than the most.
BooksFit ==
  lag = "none" /\ date = day /\ personal # Unknown =>
    personal.claimed + Greatest(0, local[day] - baseline) <= Most

\* Nor is a figure on its way, or a ledger on its way back.
TaskFits(c, d, most) ==
  /\ (c.pc = "asked" /\ c.date = d) => c.target <= most
  /\ (c.pc = "back" /\ c.answer.date = d) => c.answer.ledger.claimed <= most
CallFits(c, d, most) ==
  (c.pc = "back" /\ c.answer.date = d) => c.answer.ledger.claimed <= most

OnTheWayFits ==
  /\ \A c \in late : c.date = day => c.target <= Most
  /\ \A t \in Task : TaskFits(task[t], day, Most)
  /\ \A c \in Call : CallFits(call[c], day, Most)

Fit == RowsFit /\ BucketsFit /\ BooksFit /\ OnTheWayFits

Bounded == ~ Exempt => Fit

Inv == TypeOK /\ Past /\ Unread /\ Gifts /\ Bounded

(* A baseline that is not behind leaves no token counted twice. *)

LEMMA Learned ==
  ASSUME NEW r \in Row, NEW n \in Nat, NEW b \in Nat, NEW most \in Nat,
         r.claimed <= most, Starter + n <= most,
         b >= Represented(r, n) \/ b = InLedger(n, r)
  PROVE  r.claimed + Greatest(0, n - b) <= most
PROOF BY Ledger, Constants DEF Represented, InLedger, Least, Greatest

LEMMA Idling ==
  ASSUME NEW d \in Nat, NEW most \in Nat
  PROVE  /\ PastTask(Free, d) /\ TaskFits(Free, d, most) /\ ~ Free.vote
         /\ PastCall(Idle, d) /\ CallFits(Idle, d, most) /\ Idle.pc = "idle"
         /\ PastCall(Asked, d) /\ CallFits(Asked, d, most)
PROOF BY Values DEF PastTask, TaskFits, PastCall, CallFits

LEMMA Bounds ==
  ASSUME TypeOK
  PROVE  day \in Nat /\ day > 0 /\ day \in Date /\ Most \in Nat /\ local[day] \in Nat
         /\ observed[day] \in Nat /\ date \in Nat /\ label \in Nat /\ baseline \in Nat
PROOF
<1>0. Kept /\ Held  BY Types
<1>1. day \in Nat /\ day > 0 /\ day \in Date  BY <1>0, Constants DEF Kept, Date
<1>2. local[day] \in Nat /\ observed[day] \in Nat  BY <1>0, <1>1 DEF Kept
<1>3. date \in Nat /\ baseline \in Nat  BY <1>0, Constants DEF Held
<1>4. label \in Nat  BY <1>0, Constants DEF Kept, Date
<1> QED  BY <1>1, <1>2, <1>3, <1>4, Constants DEF Most

LEMMA InitInv == ASSUME 2 \notin Skew, Init PROVE Inv
PROOF
<1>1. TypeOK  BY InitTypes
<1>2. day = 1 /\ label \in 0 .. 1 /\ date = 0 /\ late = {}
  BY Constants DEF Init
<1>3. \A t \in Task : task[t] = Free  BY DEF Init
<1>4. \A c \in Call : call[c] \in {Idle, Asked}  BY DEF Init, Call
<1>5. \A c \in Calls : call[c] = Idle  BY Constants DEF Init
<1>6. Past
  <2>1. \A t \in Task : PastTask(task[t], day)  BY <1>2, <1>3, Idling
  <2>2. \A c \in Call : PastCall(call[c], day)  BY <1>2, <1>4, Idling
  <2> QED  BY <1>2, <2>1, <2>2 DEF Past
<1>7. personal = Unknown /\ ~ up /\ row = [d \in 1 .. LastDay |-> Unmet]
      /\ local = [d \in Date |-> 0]
  BY DEF Init
<1>8. Unread  BY <1>3, <1>5, <1>7, Idling DEF Unread
<1>9. Gifts /\ RowsFit  BY <1>7 DEF Gifts, RowsFit
<1>10. BucketsFit
  BY <1>1, <1>7, Bounds DEF BucketsFit
<1>11. BooksFit  BY <1>7 DEF BooksFit
<1>12. OnTheWayFits
  <2>1. day \in Nat /\ Most \in Nat  BY <1>1, Bounds
  <2>2. \A t \in Task : TaskFits(task[t], day, Most)  BY <1>3, <2>1, Idling
  <2>3. \A c \in Call : CallFits(call[c], day, Most)  BY <1>4, <2>1, Idling
  <2> QED  BY <1>2, <2>2, <2>3 DEF OnTheWayFits
<1> QED  BY <1>1, <1>6, <1>8, <1>9, <1>10, <1>11, <1>12 DEF Inv, Bounded, Fit

(* The authority. *)

LEMMA MidnightInv == ASSUME Inv, Midnight PROVE Inv'
PROOF
<1>0. TypeOK /\ TypeOK'  BY AuthorityTypes DEF Inv
<1>1. day' = day + 1 /\ UNCHANGED <<row, late, local, label, ready, date, personal, baseline,
                                    up, task, call, observed, lag>>
  BY DEF Midnight, usage, books, seen, link, claims, history
<1>2. Past /\ day \in Nat /\ label \in Nat /\ date \in Nat  BY <1>0, Bounds DEF Inv
<1>3. \A c \in late : c.date \in Nat /\ c.date <= day
  BY <1>0, <1>2, Types DEF Kept, Past, Date
<1>4. \A t \in Task : /\ task[t].date \in Nat /\ task[t].answer.date \in Nat
                      /\ task[t].date <= day /\ task[t].answer.date <= day
                      /\ task[t].pc = "back" => task[t].answer.date > 0
  <2> TAKE t \in Task
  <2>1. task[t].date \in Nat /\ task[t].answer.date \in Nat
    BY <1>0, Types, TaskParts, AnswerParts DEF Date
  <2> QED  BY <1>2, <2>1 DEF Past, PastTask
<1>5. \A c \in Call : /\ call[c].answer.date \in Nat /\ call[c].answer.date <= day
                      /\ call[c].pc = "back" => call[c].answer.date > 0
  <2> TAKE c \in Call
  <2>1. call[c].answer.date \in Nat  BY <1>0, Types, CallPc, AnswerParts
  <2> QED  BY <1>2, <2>1 DEF Past, PastCall
<1>6. Past'
  <2>1. \A t \in Task : PastTask(task[t], day')  BY <1>1, <1>2, <1>4 DEF PastTask
  <2>2. \A c \in Call : PastCall(call[c], day')  BY <1>1, <1>2, <1>5 DEF PastCall
  <2> QED  BY <1>1, <1>2, <1>3, <2>1, <2>2 DEF Past
<1>7. Unread'  BY <1>1 DEF Inv, Unread
<1>8. Gifts'  BY <1>1 DEF Inv, Gifts
<1>9. ASSUME ~ Exempt'  PROVE Fit'
  <2>1. Fit  BY <1>1, <1>9 DEF Inv, Bounded, Exempt
  <2>2. RowsFit'  BY <1>1, <2>1 DEF Fit, RowsFit
  <2>3. local[day'] = 0 /\ observed[day'] \in Nat
    <3>1. day' \in 1 .. LastDay /\ day' \in Date
      BY <1>0, <1>1, <1>2, Constants DEF Midnight, Date
    <3>2. observed[day'] \in Nat  BY <1>0, <3>1, Types DEF Kept
    <3> QED  BY <1>1, <1>2, <2>1, <3>1, <3>2 DEF Fit, BucketsFit
  <2>4. BucketsFit'
    BY <1>1, <1>2, <2>1, <2>3 DEF Fit, BucketsFit, Date
  <2>5. BooksFit'  BY <1>1, <1>2 DEF Past, BooksFit
  <2>6. OnTheWayFits'
    <3>1. \A t \in Task : TaskFits(task[t], day', Most')  BY <1>1, <1>2, <1>4 DEF TaskFits
    <3>2. \A c \in Call : CallFits(call[c], day', Most')  BY <1>1, <1>2, <1>5 DEF CallFits
    <3> QED  BY <1>1, <1>2, <1>3, <3>1, <3>2 DEF OnTheWayFits
  <2> QED  BY <2>2, <2>4, <2>5, <2>6 DEF Fit
<1> QED  BY <1>0, <1>6, <1>7, <1>8, <1>9 DEF Inv, Bounded

LEMMA LabelInv == ASSUME Inv, LabelTurns PROVE Inv'
PROOF
<1>0. TypeOK /\ TypeOK'  BY AuthorityTypes DEF Inv
<1>1. label' = label + 1 /\ label < day
      /\ UNCHANGED <<day, row, late, local, ready, date, personal, baseline,
                     up, task, call, observed, lag>>
  BY DEF LabelTurns, authority, books, seen, link, claims, history
<1>2. label \in Nat /\ day \in Nat  BY <1>0, Bounds
<1>3. Past'  BY <1>1, <1>2 DEF Inv, Past
<1>4. Unread' /\ Gifts'  BY <1>1 DEF Inv, Unread, Gifts
<1>5. Bounded'
  BY <1>1 DEF Inv, Bounded, Exempt, Fit, RowsFit, BucketsFit, BooksFit, OnTheWayFits, Most
<1> QED  BY <1>0, <1>3, <1>4, <1>5 DEF Inv

\* What a first contact or a claim makes of the rows fits, if the claim does.
LEMMA RaisedBounded ==
  ASSUME TypeOK, Gifts, RowsFit, NEW target \in Nat, NEW d, d = day => target <= Most,
         row' = Raised(target, d), UNCHANGED <<day, observed>>
  PROVE  Gifts' /\ RowsFit' /\ row' \in Rows
PROOF
<1>0. day \in 1 .. LastDay /\ row \in Rows  BY Types DEF Kept
<1>1. row' \in Rows  BY <1>0, RaisedFits
<1>2. Granted(row[day]).starter = Starter /\ Granted(row[day]).claimed <= Most
  BY <1>0, Bounds, Constants, GrantedFits DEF Rows, Gifts, RowsFit, Most
<1>3. /\ \A e \in 1 .. LastDay : e # day \/ d # day => row'[e] = row[e]
      /\ d = day => row'[day].starter = Starter /\ row'[day].claimed <= Most
  <2>1. /\ \A e \in 1 .. LastDay : e # day \/ d # day => row'[e] = row[e]
        /\ d = day =>
             /\ row'[day] \in Row
             /\ row'[day].starter = Granted(row[day]).starter
             /\ row'[day].claimed = Granted(row[day]).claimed \/ row'[day].claimed <= target
    BY <1>0, RaisedFits
  <2>2. d = day /\ row'[day].claimed <= target => row'[day].claimed <= Most
    BY <2>1, Bounds, Ledger
  <2> QED  BY <1>2, <2>1, <2>2
<1>4. Gifts'  BY <1>0, <1>3 DEF Gifts
<1>5. RowsFit'  BY <1>0, <1>3 DEF RowsFit, Most
<1> QED  BY <1>1, <1>4, <1>5

LEMMA RaisedGifts ==
  ASSUME TypeOK, Gifts, NEW target \in Nat, NEW d, row' = Raised(target, d)
  PROVE  Gifts'
PROOF
<1>0. day \in 1 .. LastDay /\ row \in Rows  BY Types DEF Kept
<1>1. Granted(row[day]).starter = Starter
  BY <1>0, GrantedFits DEF Rows, Gifts
<1>2. /\ \A e \in 1 .. LastDay : e # day \/ d # day => row'[e] = row[e]
      /\ d = day => row'[day].starter = Starter
  BY <1>0, <1>1, RaisedFits
<1> QED  BY <1>0, <1>2 DEF Gifts

LEMMA ClaimArrivesInv ==
  ASSUME Inv, NEW t \in Task, ClaimArrives(t)
  PROVE  Inv'
PROOF
<1>0. TypeOK /\ TypeOK' /\ UnderWay /\ day \in 1 .. LastDay
  BY AuthorityTypes, Types DEF Inv, Network, Kept
<1>1. UNCHANGED <<day, late, local, label, ready, date, personal, baseline, up, call, observed,
                  lag>>
      /\ row' = Raised(task[t].target, task[t].date) /\ task[t].pc = "asked"
  BY DEF ClaimArrives, usage, books, seen, link, history
<1>2. /\ row' \in Rows /\ \A s \in Task : s # t => task'[s] = task[s]
      /\ task'[t].pc = "back" /\ task'[t].date = task[t].date /\ task'[t].vote = task[t].vote
      /\ task'[t].answer.date = day
      /\ task'[t].answer.ledger = IF row'[day] = Unmet THEN NoRow ELSE row'[day]
  BY <1>0, Arrived
<1>3. day \in Nat /\ day > 0 /\ Most \in Nat  BY <1>0, Bounds
<1>4. task[t].target \in Nat  BY <1>0, TaskParts
<1>5. Past'  BY <1>1, <1>2, <1>3 DEF Inv, Past, PastTask
<1>6. Unread'  BY <1>1, <1>2 DEF Inv, Unread
<1>7. Gifts'  BY <1>0, <1>1, <1>4, RaisedGifts DEF Inv
<1>8. ASSUME ~ Exempt'  PROVE Fit'
  <2>1. Fit  BY <1>1, <1>8 DEF Inv, Bounded, Exempt
  <2>2. task[t].date = day => task[t].target <= Most
    BY <1>1, <2>1 DEF Fit, OnTheWayFits, TaskFits
  <2>3. RowsFit'  BY <1>0, <1>1, <1>4, <2>1, <2>2, RaisedBounded DEF Inv, Fit
  <2>4. Most' = Most  BY <1>1 DEF Most
  <2>5. BucketsFit' /\ BooksFit'  BY <1>1, <2>1, <2>4 DEF Fit, BucketsFit, BooksFit
  <2>6. task'[t].answer.ledger.claimed <= Most
    BY <1>0, <1>1, <1>2, <1>3, <2>3, Values DEF RowsFit, Most
  <2>7. TaskFits(task'[t], day, Most)  BY <1>2, <2>6 DEF TaskFits
  <2>8. OnTheWayFits'  BY <1>1, <1>2, <2>1, <2>4, <2>7 DEF Fit, OnTheWayFits
  <2> QED  BY <2>3, <2>5, <2>8 DEF Fit
<1> QED  BY <1>0, <1>5, <1>6, <1>7, <1>8 DEF Inv, Bounded

LEMMA LateClaimInv ==
  ASSUME Inv, NEW c \in late, LateClaim(c)
  PROVE  Inv'
PROOF
<1>0. TypeOK /\ TypeOK' /\ c.target \in Nat
  BY AuthorityTypes, Types DEF Inv, Network, Kept
<1>1. UNCHANGED <<day, local, label, ready, date, personal, baseline, up, task, call, observed,
                  lag>>
      /\ row' = Raised(c.target, c.date) /\ late' \subseteq late
  BY DEF LateClaim, usage, books, seen, link, claims, history
<1>2. Past' /\ Unread'  BY <1>1 DEF Inv, Past, Unread
<1>3. Gifts'  BY <1>0, <1>1, RaisedGifts DEF Inv
<1>4. ASSUME ~ Exempt'  PROVE Fit'
  <2>1. Fit  BY <1>1, <1>4 DEF Inv, Bounded, Exempt
  <2>2. c.date = day => c.target <= Most  BY <2>1 DEF Fit, OnTheWayFits
  <2>3. RowsFit'  BY <1>0, <1>1, <2>1, <2>2, RaisedBounded DEF Inv, Fit
  <2>4. BucketsFit' /\ BooksFit' /\ OnTheWayFits'
    BY <1>1, <2>1 DEF Fit, BucketsFit, BooksFit, OnTheWayFits, Most
  <2> QED  BY <2>3, <2>4 DEF Fit
<1> QED  BY <1>0, <1>2, <1>3, <1>4 DEF Inv, Bounded

LEMMA CallArrivesInv ==
  ASSUME Inv, NEW c \in Call, CallArrives(c)
  PROVE  Inv'
PROOF
<1>0. TypeOK /\ TypeOK' /\ day \in 1 .. LastDay /\ row \in Rows /\ UnderWay
  <2>1. c \in DOMAIN call  BY Types DEF Inv, UnderWay
  <2> QED  BY <2>1, AuthorityTypes, Types DEF Inv, Network, Kept
<1>1. UNCHANGED <<day, late, local, label, ready, date, personal, baseline, up, task, observed,
                  lag>>
  BY DEF CallArrives, usage, books, seen, link, claims, history
<1>2. /\ call[c].pc = "asked" /\ row' \in Rows
      /\ row' = row \/ row' = [row EXCEPT ![day] = Granted(@)]
      /\ \A b \in Call : b # c => call'[b] = call[b]
      /\ call'[c].pc = "back" /\ call'[c].answer.date = day
      /\ call'[c].answer.ledger = IF row'[day] = Unmet THEN NoRow ELSE row'[day]
  BY <1>0, Reached
<1>3. day \in Nat /\ day > 0 /\ Most \in Nat /\ observed[day] \in Nat  BY <1>0, Bounds
<1>4. Past'  BY <1>1, <1>2, <1>3 DEF Inv, Past, PastCall
<1>5. Unread'
  <2>1. Calls \subseteq Call  BY DEF Call
  <2> QED  BY <1>1, <1>2, <2>1 DEF Inv, Unread
<1>6. /\ row[day] = Unmet =>
           Granted(row[day]).starter = Starter /\ Granted(row[day]).claimed = Starter
      /\ row[day] # Unmet => Granted(row[day]) = row[day]
  BY <1>0, GrantedFits DEF Rows
<1>7. \A d \in 1 .. LastDay :
         row'[d] = row[d] \/ (d = day /\ row'[d].starter = Starter /\ row'[d].claimed = Starter)
  BY <1>0, <1>2, <1>6 DEF Rows
<1>8. Gifts'  BY <1>7 DEF Inv, Gifts
<1>9. ASSUME ~ Exempt'  PROVE Fit'
  <2>1. Fit  BY <1>1, <1>9 DEF Inv, Bounded, Exempt
  <2>2. RowsFit'  BY <1>1, <1>3, <1>7, <2>1, Constants DEF Fit, RowsFit
  <2>3. Most' = Most  BY <1>1 DEF Most
  <2>4. BucketsFit' /\ BooksFit'  BY <1>1, <2>1, <2>3 DEF Fit, BucketsFit, BooksFit
  <2>5. call'[c].answer.ledger.claimed <= Most
    BY <1>0, <1>1, <1>2, <1>3, <2>2, Values DEF RowsFit, Most
  <2>6. CallFits(call'[c], day, Most)  BY <2>5 DEF CallFits
  <2>7. OnTheWayFits'  BY <1>1, <1>2, <2>1, <2>3, <2>6 DEF Fit, OnTheWayFits
  <2> QED  BY <2>2, <2>4, <2>7 DEF Fit
<1> QED  BY <1>0, <1>4, <1>5, <1>8, <1>9 DEF Inv, Bounded

(* Submitting claims. *)

\* What a submission sends is no more than the most, unless it is exempt.
LEMMA SubmitInv ==
  ASSUME Inv, TypeOK', NEW t \in Task, NEW v \in BOOLEAN, Submit(t, v),
         task[t].pc \in {"free", "resumed"}, v => date # 0,
         UNCHANGED <<authority, usage, personal, baseline, seen, link, observed>>
  PROVE  Inv'
PROOF
<1>0. TypeOK /\ Kept /\ Held /\ UnderWay  BY Types DEF Inv
<1>1. UNCHANGED <<day, row, late, local, label, ready, date, personal, baseline, up, observed>>
  BY DEF authority, usage, seen, link
<1>2. /\ lag' = lag \/ (lag = "behind" /\ lag' = "claimed")
      /\ \A s \in Task : s # t => task'[s] = task[s]
      /\ \/ task'[t] = Free
         \/ task'[t] = Sent(t, v) /\ (lag = "behind" => lag' = "claimed")
      /\ \A c \in Call : call'[c] = call[c] \/ (v /\ c = "vote" /\ call'[c] = Asked)
  BY <1>0, Submitted
<1>3. day \in Nat /\ date \in Nat /\ label \in Nat /\ Most \in Nat
      /\ local[day] \in Nat /\ observed[day] \in Nat
  BY <1>0, Bounds
<1> DEFINE d == IF date = 0 THEN label ELSE date
<1>4. /\ Sent(t, v).pc = "asked" /\ Sent(t, v).target = Claimable
      /\ Sent(t, v).date = d /\ Sent(t, v).vote = v /\ Sent(t, v).answer.date = 0
  BY <1>0, SentFits
<1>5. d <= day  BY DEF Inv, Past
<1>6. Past'
  <2>1. PastTask(Sent(t, v), day)  BY <1>3, <1>4, <1>5 DEF PastTask
  <2>2. \A s \in Task : PastTask(task'[s], day)  BY <1>2, <1>3, <2>1, Idling DEF Inv, Past
  <2>3. \A c \in Call : PastCall(call'[c], day)  BY <1>2, <1>3, Idling DEF Inv, Past
  <2> QED  BY <1>1, <2>2, <2>3 DEF Inv, Past
<1>7. Unread'
  <2>1. SUFFICES ASSUME date = 0
                 PROVE  /\ \A s \in Task : ~ task'[s].vote
                        /\ \A c \in Calls : call'[c].pc = "idle"
    BY <1>1 DEF Inv, Unread
  <2>2. ~ v  BY <2>1
  <2>3. \A s \in Task : ~ task'[s].vote  BY <1>2, <1>3, <1>4, <2>1, <2>2, Idling DEF Inv, Unread
  <2>4. \A c \in Calls : call'[c] = call[c]  BY <1>2, <2>2 DEF Call
  <2> QED  BY <2>1, <2>3, <2>4 DEF Inv, Unread
<1>8. Gifts'  BY <1>1 DEF Inv, Gifts
<1>9. ASSUME ~ Exempt'  PROVE Fit'
  <2>1. lag' = lag /\ ~ Exempt  BY <1>2, <1>9 DEF Exempt
  <2>2. Fit  BY <2>1 DEF Inv, Bounded
  <2>3. Most' = Most  BY <1>1 DEF Most
  <2>4. RowsFit' /\ BucketsFit' /\ BooksFit'
    BY <1>1, <2>1, <2>2, <2>3 DEF Fit, RowsFit, BucketsFit, BooksFit
  <2>5. ASSUME task'[t] = Sent(t, v)  PROVE TaskFits(Sent(t, v), day, Most)
    <3>1. SUFFICES ASSUME d = day PROVE Claimable <= Most
      BY <1>4 DEF TaskFits
    <3>2. lag = "none"
      <4>1. Sent(t, v) # Free  BY <1>4, Values
      <4>2. lag \in {"none", "behind"}  BY <1>0, <2>1 DEF Exempt, Held
      <4> QED  BY <1>2, <2>1, <2>5, <4>1, <4>2
    <3>3. CASE personal = Unknown
      <4>1. Claimable = local[day]  BY <1>0, <3>1, <3>3, ClaimableFits
      <4>2. local[day] <= observed[day]  BY <2>2 DEF Fit, BucketsFit
      <4> QED  BY <1>3, <4>1, <4>2, Constants DEF Most
    <3>4. CASE personal # Unknown
      <4>1. date = day  BY <3>1, <3>4 DEF Inv, Unread
      <4>2. Claimable = personal.claimed + Greatest(0, local[day] - baseline)
        BY <1>0, <3>4, <4>1, ClaimableFits
      <4> QED  BY <2>2, <3>2, <3>4, <4>1, <4>2 DEF Fit, BooksFit
    <3> QED  BY <3>3, <3>4
  <2>6. \A s \in Task : TaskFits(task'[s], day, Most)
    BY <1>2, <1>3, <2>2, <2>5, Idling DEF Fit, OnTheWayFits
  <2>7. \A c \in Call : CallFits(call'[c], day, Most)
    BY <1>2, <1>3, <2>2, Idling DEF Fit, OnTheWayFits
  <2>8. OnTheWayFits'  BY <1>1, <2>2, <2>3, <2>6, <2>7 DEF Fit, OnTheWayFits
  <2> QED  BY <2>4, <2>8 DEF Fit
<1> QED  BY <1>6, <1>7, <1>8, <1>9 DEF Inv, Bounded

LEMMA BeginInv ==
  ASSUME Inv, TypeOK', NEW t \in Task, NEW v \in BOOLEAN, Begin(t, v), task[t] = Free,
         v => date # 0,
         UNCHANGED <<authority, usage, personal, baseline, seen, link, observed>>
  PROVE  Inv'
PROOF
<1>0. TypeOK /\ task[t].pc = "free"  BY Values DEF Inv
<1>1. CASE Submit(t, v)  BY <1>0, <1>1, SubmitInv
<1>2. CASE flying # NoTask /\ Await(t, v)
  <2>1. /\ UNCHANGED <<lastSent, call, lag>>
        /\ \A s \in Task : s # t => task'[s] = task[s]
        /\ task'[t].pc = "waiting" /\ task'[t].date = 0 /\ task'[t].vote = v
        /\ task'[t].answer.date = 0
    BY <1>0, <1>2, Awaited
  <2>2. UNCHANGED <<day, row, late, local, label, ready, date, personal, baseline, up, observed>>
    BY DEF authority, usage, seen, link
  <2>3. day \in Nat  BY <1>0, Bounds
  <2>4. PastTask(task'[t], day)  BY <2>1, <2>3 DEF PastTask
  <2>5. Past'  BY <2>1, <2>2, <2>4 DEF Inv, Past
  <2>6. Unread'  BY <2>1, <2>2 DEF Inv, Unread
  <2>7. Gifts'  BY <2>2 DEF Inv, Gifts
  <2>8. \A n : TaskFits(task'[t], day, n)  BY <2>1 DEF TaskFits
  <2>9. Bounded'
    BY <2>1, <2>2, <2>8
    DEF Inv, Bounded, Exempt, Fit, RowsFit, BucketsFit, BooksFit, OnTheWayFits, Most
  <2> QED  BY <2>5, <2>6, <2>7, <2>9 DEF Inv
<1> QED  BY <1>1, <1>2 DEF Begin

LEMMA SubmitsInv ==
  ASSUME Inv, NEW t \in Task, TimerFires(t) \/ Vote(t) \/ Resume(t)
  PROVE  Inv'
PROOF
<1>0. TypeOK /\ TypeOK'  BY ClaimTypes DEF Inv
<1>1. CASE TimerFires(t)  BY <1>0, <1>1, BeginInv DEF TimerFires
<1>2. CASE Vote(t)
  <2>1. date # 0  BY <1>2 DEF Vote, Inv, Unread
  <2> QED  BY <1>0, <1>2, <2>1, BeginInv DEF Vote
<1>3. CASE Resume(t)
  <2>1. task[t].vote \in BOOLEAN  BY <1>0, Types, TaskParts
  <2>2. task[t].vote => date # 0  BY DEF Inv, Unread
  <2> QED  BY <1>0, <1>3, <2>1, <2>2, SubmitInv DEF Resume
<1> QED  BY <1>1, <1>2, <1>3

\* Once a claim has ended, what is on its way is what was, without that claim.
LEMMA SettledFits ==
  ASSUME Inv, NEW t \in Task, Settle(t), UNCHANGED day
  PROVE  /\ \A s \in Task : PastTask(task'[s], day) /\ (task'[s].vote => task[s].vote)
         /\ \A c \in Call : PastCall(call'[c], day)
         /\ ~ task[t].vote => \A c \in Call : call'[c] = call[c]
         /\ OnTheWayFits =>
              /\ \A s \in Task : TaskFits(task'[s], day, Most)
              /\ \A c \in Call : CallFits(call'[c], day, Most)
PROOF
<1>0. day \in Nat /\ Most \in Nat  BY Bounds DEF Inv
<1>1. /\ task'[t] = Free
      /\ \A s \in Task : s # t =>
           \/ task'[s] = task[s]
           \/ /\ task'[s].pc = "resumed" /\ task'[s].date = task[s].date
              /\ task'[s].vote = task[s].vote /\ task'[s].answer = task[s].answer
      /\ \A c \in Call : call'[c] = call[c] \/ (task[t].vote /\ c = "vote" /\ call'[c] = Asked)
  BY Settled DEF Inv
<1>2. ASSUME NEW s \in Task  PROVE PastTask(task'[s], day) /\ (task'[s].vote => task[s].vote)
  <2>1. PastTask(task[s], day)  BY DEF Inv, Past
  <2> QED  BY <1>0, <1>1, <2>1, Idling DEF PastTask
<1>3. \A c \in Call : PastCall(call'[c], day)  BY <1>0, <1>1, Idling DEF Inv, Past
<1>4. ASSUME OnTheWayFits, NEW s \in Task  PROVE TaskFits(task'[s], day, Most)
  <2>1. TaskFits(task[s], day, Most)  BY <1>4 DEF OnTheWayFits
  <2> QED  BY <1>0, <1>1, <2>1, Idling DEF TaskFits
<1>5. ASSUME OnTheWayFits, NEW c \in Call  PROVE CallFits(call'[c], day, Most)
  BY <1>0, <1>1, <1>5, Idling DEF OnTheWayFits
<1> QED  BY <1>1, <1>2, <1>3, <1>4, <1>5

LEMMA ClaimAnsweredInv ==
  ASSUME Inv, NEW t \in Task, ClaimAnswered(t)
  PROVE  Inv'
PROOF
<1> DEFINE a == task[t].answer
<1>0. TypeOK /\ TypeOK' /\ UnderWay  BY ClaimTypes, Types DEF Inv
<1>1. /\ UNCHANGED <<day, row, late, local, label, observed>>
      /\ up' = TRUE /\ personal' = a.ledger /\ date' = a.date /\ task[t].pc = "back" /\ Settle(t)
  BY DEF ClaimAnswered, authority, usage
<1>2. /\ \A s \in Task : PastTask(task'[s], day)
      /\ \A c \in Call : PastCall(call'[c], day)
      /\ OnTheWayFits =>
           /\ \A s \in Task : TaskFits(task'[s], day, Most)
           /\ \A c \in Call : CallFits(call'[c], day, Most)
  BY <1>1, SettledFits
<1>3. a.date <= day /\ a.date > 0  BY <1>1 DEF Inv, Past, PastTask
<1>4. a.ledger \in Row  BY <1>0, TaskParts, AnswerParts
<1>5. Past'  BY <1>1, <1>2, <1>3 DEF Inv, Past
<1>6. Unread'  BY <1>1, <1>3 DEF Unread
<1>7. Gifts'  BY <1>1 DEF Inv, Gifts
<1>8. ASSUME ~ Exempt'  PROVE Fit'
  <2>1. Fit
    <3>1. \/ lag' = InStep \/ lag' = Overtaken(a, a.date)  BY DEF ClaimAnswered
    <3>2. ~ Exempt  BY <1>8, <3>1 DEF Exempt, InStep, Overtaken
    <3> QED  BY <3>2 DEF Inv, Bounded
  <2>2. Most' = Most  BY <1>1 DEF Most
  <2>3. RowsFit' /\ BucketsFit'  BY <1>1, <2>1 DEF Fit, RowsFit, BucketsFit
  <2>4. OnTheWayFits'  BY <1>1, <1>2, <2>1, <2>2 DEF Fit, OnTheWayFits
  <2>5. BooksFit'
    <3>1. SUFFICES ASSUME lag' = "none", a.date = day
                   PROVE  personal'.claimed + Greatest(0, local[day] - baseline') <= Most
      BY <1>1, <2>2 DEF BooksFit
    <3>2. a.ledger.claimed <= Most
      BY <1>1, <2>1, <3>1 DEF Fit, OnTheWayFits, TaskFits
    <3>3. /\ local[day] \in Nat /\ baseline \in Nat /\ Most \in Nat /\ observed[day] \in Nat
      BY <1>0, Bounds
    <3>4. Starter + local[day] <= Most  BY <2>1, <3>3, Constants DEF Fit, BucketsFit, Most
    <3>5. baseline' \in Nat  BY <1>0, Bounds, Types DEF Held, TypeOK
    <3>6. \/ baseline' = Represented(a.ledger, local[day])
          \/ baseline' = InLedger(local[day], a.ledger)
          \/ baseline' = baseline /\ lag' = Overtaken(a, day)
      BY <3>1 DEF ClaimAnswered
    <3>7. lag' = Overtaken(a, day) => ~ (baseline < Represented(a.ledger, local[day]))
      BY <3>1 DEF Overtaken
    <3>8. Represented(a.ledger, local[day]) \in Nat  BY <1>4, <3>3, RepresentedFits
    <3>9. \/ baseline' >= Represented(a.ledger, local[day])
          \/ baseline' = InLedger(local[day], a.ledger)
      BY <3>3, <3>5, <3>6, <3>7, <3>8
    <3> HIDE DEF a
    <3>10. a.ledger.claimed + Greatest(0, local[day] - baseline') <= Most
      BY <1>4, <3>2, <3>3, <3>4, <3>5, <3>9, Learned
    <3> QED  BY <1>1, <3>10
  <2> QED  BY <2>3, <2>4, <2>5 DEF Fit
<1> QED  BY <1>0, <1>5, <1>6, <1>7, <1>8 DEF Inv, Bounded

LEMMA ClaimFailsInv ==
  ASSUME Inv, NEW t \in Task, ClaimFails(t)
  PROVE  Inv'
PROOF
<1>0. TypeOK /\ TypeOK' /\ UnderWay  BY ClaimTypes, Types DEF Inv
<1>1. /\ UNCHANGED <<day, row, local, label, date, personal, baseline, observed, lag>>
      /\ up' = FALSE /\ Settle(t)
  BY DEF ClaimFails, usage, books, seen, history
<1>2. \A c \in late' : c \in late \/
        (task[t].pc = "asked" /\ c.target = task[t].target /\ c.date = task[t].date)
  BY DEF ClaimFails
<1>3. /\ \A s \in Task : PastTask(task'[s], day) /\ (task'[s].vote => task[s].vote)
      /\ \A c \in Call : PastCall(call'[c], day)
      /\ ~ task[t].vote => \A c \in Call : call'[c] = call[c]
      /\ OnTheWayFits =>
           /\ \A s \in Task : TaskFits(task'[s], day, Most)
           /\ \A c \in Call : CallFits(call'[c], day, Most)
  BY <1>1, SettledFits
<1>4. task[t].date <= day  BY DEF Inv, Past, PastTask
<1>5. Past'  BY <1>1, <1>2, <1>3, <1>4 DEF Inv, Past
<1>6. Unread'  BY <1>1, <1>3 DEF Inv, Unread, Call
<1>7. Gifts'  BY <1>1 DEF Inv, Gifts
<1>8. ASSUME ~ Exempt'  PROVE Fit'
  <2>1. Fit  BY <1>1, <1>8 DEF Inv, Bounded, Exempt
  <2>2. Most' = Most  BY <1>1 DEF Most
  <2>3. RowsFit' /\ BucketsFit' /\ BooksFit'
    BY <1>1, <2>1, <2>2 DEF Fit, RowsFit, BucketsFit, BooksFit
  <2>4. \A c \in late' : c.date = day => c.target <= Most
    BY <1>2, <2>1 DEF Fit, OnTheWayFits, TaskFits
  <2>5. OnTheWayFits'  BY <1>1, <1>3, <2>1, <2>2, <2>4 DEF Fit, OnTheWayFits, ClaimFails
  <2> QED  BY <2>3, <2>5 DEF Fit
<1> QED  BY <1>0, <1>5, <1>6, <1>7, <1>8 DEF Inv, Bounded

(* Reading the authority. *)

\* A step that asks, ends or loses calls, and leaves the books.
LEMMA CallsInv ==
  ASSUME Inv, TypeOK',
         UNCHANGED <<day, row, late, local, label, date, personal, baseline, task, observed, lag>>,
         up' => up \/ date # 0,
         \A c \in Call : call'[c] \in {call[c], Asked, Idle},
         \A c \in Calls : date = 0 => call'[c] \in {call[c], Idle}
  PROVE  Inv'
PROOF
<1>0. day \in Nat /\ Most \in Nat  BY Bounds DEF Inv
<1>1. Past'
  <2>1. \A c \in Call : PastCall(call'[c], day)  BY <1>0, Idling DEF Inv, Past
  <2> QED  BY <2>1 DEF Inv, Past
<1>2. Unread'  BY <1>0, Idling DEF Inv, Unread
<1>3. Gifts'  BY DEF Inv, Gifts
<1>4. ASSUME ~ Exempt'  PROVE Fit'
  <2>1. Fit  BY <1>4 DEF Inv, Bounded, Exempt
  <2>2. Most' = Most  BY DEF Most
  <2>3. \A c \in Call : CallFits(call'[c], day, Most)  BY <1>0, <2>1, Idling DEF Fit, OnTheWayFits
  <2> QED  BY <2>1, <2>2, <2>3 DEF Fit, RowsFit, BucketsFit, BooksFit, OnTheWayFits
<1> QED  BY <1>1, <1>2, <1>3, <1>4 DEF Inv, Bounded

LEMMA RefreshedCalls ==
  ASSUME TypeOK, call' = Refreshed
  PROVE  /\ \A c \in Call : call'[c] \in {call[c], Asked, Idle}
         /\ \A c \in Calls : call'[c] = call[c]
PROOF
<1>1. \A c \in Call : call'[c] = call[c] \/ (c = "bootstrap" /\ call'[c] = Asked)
  BY Types, RefreshedFits
<1> QED  BY <1>1, Constants DEF Call

LEMMA LinksInv ==
  ASSUME Inv,
         \/ BackoffEnds \/ Tick \/ Open \/ SnapshotFails \/ RefreshPersonal
         \/ \E c \in DOMAIN call : CallFails(c)
  PROVE  Inv'
PROOF
<1>0. TypeOK /\ TypeOK' /\ call \in [Call -> CallStates]
  BY ReadTypes, Types DEF Inv, UnderWay
<1>1. CASE BackoffEnds
  BY <1>0, <1>1, CallsInv DEF BackoffEnds, authority, usage, books, seen, claims, history, Call
<1>2. CASE SnapshotFails
  BY <1>0, <1>2, CallsInv DEF SnapshotFails, authority, usage, books, seen, claims, history, Call
<1>3. CASE Tick \/ Open
  <2>1. call' = Refreshed
        /\ UNCHANGED <<day, row, late, local, label, date, personal, baseline, up, task, observed,
                       lag>>
    BY <1>3 DEF Tick, Open, authority, usage, books, seen, link, claims, history
  <2>2. \A c \in Call : call'[c] \in {call[c], Asked, Idle}  BY <1>0, <2>1, RefreshedCalls
  <2>3. \A c \in Calls : call'[c] = call[c]  BY <1>0, <2>1, RefreshedCalls
  <2> QED  BY <1>0, <2>1, <2>2, <2>3, CallsInv
<1>4. CASE RefreshPersonal
  <2>1. up /\ call' = [call EXCEPT !["daily"] = Asked]
        /\ UNCHANGED <<day, row, late, local, label, date, personal, baseline, up, task, observed,
                       lag>>
    BY <1>4 DEF RefreshPersonal, authority, usage, books, seen, link, claims, history
  <2>2. \A c \in Call : call'[c] \in {call[c], Asked, Idle}  BY <1>0, <2>1
  <2>3. date # 0  BY <2>1 DEF Inv, Unread
  <2> QED  BY <1>0, <2>1, <2>2, <2>3, CallsInv
<1>5. ASSUME NEW c \in DOMAIN call, CallFails(c)  PROVE Inv'
  <2>1. call' = [call EXCEPT ![c] = Idle] /\ up' = FALSE
        /\ UNCHANGED <<day, row, late, local, label, date, personal, baseline, task, observed, lag>>
    BY <1>5 DEF CallFails, authority, usage, books, seen, claims, history
  <2>2. \A b \in Call : call'[b] \in {call[b], Idle}  BY <1>0, <2>1
  <2>3. Calls \subseteq Call  BY DEF Call
  <2> QED  BY <1>0, <2>1, <2>2, <2>3, CallsInv
<1> QED  BY <1>1, <1>2, <1>3, <1>4, <1>5

LEMMA AdoptInv == ASSUME Inv, Adopt PROVE Inv'
PROOF
<1> DEFINE a == call["bootstrap"].answer
<1>0. TypeOK /\ TypeOK' /\ UnderWay /\ local \in [Date -> Nat]
  BY ReadTypes, Types DEF Inv, Kept
<1>1. /\ date' = a.date /\ personal' = a.ledger /\ up' = TRUE /\ label' = a.date
      /\ local' = Aligned(a.date)
      /\ baseline' = Represented(a.ledger, local'[a.date])
      /\ lag' = IF label # a.date /\ local[label] > 0 THEN "moved" ELSE InStep
      /\ call["bootstrap"].pc = "back"
      /\ call' = [call EXCEPT !["bootstrap"] = Idle]
      /\ UNCHANGED <<day, row, late, task, observed>>
  BY DEF Adopt, authority
<1>2. "bootstrap" \in Call  BY DEF Call
<1>3. PastCall(call["bootstrap"], day) /\ day \in Nat /\ Most \in Nat
  BY <1>0, <1>2, Bounds DEF Inv, Past
<1>4. a.ledger \in Row /\ a.date \in Date /\ a.date <= day /\ a.date > 0
  BY <1>0, <1>1, <1>2, <1>3, CallPc, AnswerParts DEF PastCall
<1>5. \A c \in Call : call'[c] \in {call[c], Idle}  BY <1>0, <1>1 DEF UnderWay
<1>6. Past'
  <2>1. \A c \in Call : PastCall(call'[c], day)  BY <1>3, <1>5, Idling DEF Inv, Past
  <2> QED  BY <1>1, <1>4, <2>1 DEF Inv, Past
<1>7. Unread'  BY <1>1, <1>4 DEF Unread
<1>8. Gifts'  BY <1>1 DEF Inv, Gifts
<1>9. ASSUME ~ Exempt'  PROVE Fit'
  <2>1. ~ (label # a.date /\ local[label] > 0) /\ ~ Exempt
    BY <1>1, <1>9 DEF Exempt, InStep
  <2>2. Fit  BY <2>1 DEF Inv, Bounded
  <2>3. local' = local
    <3>1. CASE label = a.date  BY <1>1, <3>1 DEF Aligned
    <3>2. CASE label # a.date
      <4>1. local[label] = 0 /\ label \in Date
        BY <1>0, <2>1, <3>2, Types DEF Kept
      <4>2. local' = [local EXCEPT ![a.date] = @ + local[label], ![label] = 0]
        BY <1>1, <3>2 DEF Aligned
      <4> HIDE DEF a
      <4> QED  BY <1>0, <1>4, <4>1, <4>2
    <3> QED  BY <3>1, <3>2
  <2>4. Most' = Most  BY <1>1 DEF Most
  <2>5. RowsFit' /\ BucketsFit'  BY <1>1, <2>2, <2>3 DEF Fit, RowsFit, BucketsFit
  <2>6. \A c \in Call : CallFits(call'[c], day, Most)
    BY <1>3, <1>5, <2>2, Idling DEF Fit, OnTheWayFits
  <2>7. OnTheWayFits'  BY <1>1, <2>2, <2>4, <2>6 DEF Fit, OnTheWayFits
  <2>8. BooksFit'
    <3>1. SUFFICES ASSUME a.date = day
                   PROVE  a.ledger.claimed + Greatest(0, local[day] - baseline') <= Most
      BY <1>1, <2>3, <2>4 DEF BooksFit
    <3>2. a.ledger.claimed <= Most
      BY <1>1, <1>2, <2>2, <3>1 DEF Fit, OnTheWayFits, CallFits
    <3>3. local[day] \in Nat /\ observed[day] \in Nat  BY <1>0, Bounds
    <3>4. Starter + local[day] <= Most  BY <2>2, <3>3, Constants DEF Fit, BucketsFit, Most
    <3>5. baseline' = Represented(a.ledger, local[day])  BY <1>1, <2>3, <3>1
    <3> HIDE DEF a
    <3>6. baseline' \in Nat /\ baseline' >= Represented(a.ledger, local[day])
      BY <1>4, <3>3, <3>5, RepresentedFits
    <3> QED  BY <1>3, <1>4, <3>2, <3>3, <3>4, <3>6, Learned
  <2> QED  BY <2>5, <2>7, <2>8 DEF Fit
<1> QED  BY <1>0, <1>6, <1>7, <1>8, <1>9 DEF Inv, Bounded

LEMMA PersonalReadInv ==
  ASSUME Inv, NEW c \in DOMAIN call, PersonalRead(c)
  PROVE  Inv'
PROOF
<1> DEFINE a == call[c].answer
           f == IF a.date # date THEN Refreshed ELSE call
<1>0. TypeOK /\ TypeOK' /\ UnderWay /\ c \in Call /\ c \in Calls /\ call[c].pc = "back"
  BY ReadTypes, Types DEF Inv, PersonalRead, UnderWay
<1>1. /\ UNCHANGED <<day, row, late, local, label, date, baseline, task, observed>>
      /\ call' = [f EXCEPT ![c] = Idle]
      /\ \/ UNCHANGED <<personal, up, lag>>
         \/ personal' = a.ledger /\ up' = TRUE /\ lag' = Overtaken(a, date)
  BY DEF PersonalRead, authority, usage, seen, claims
<1>2. date # 0  BY <1>0 DEF Inv, Unread
<1>3. /\ f \in [Call -> CallStates]
      /\ \A b \in Call : f[b] \in {call[b], Asked}
  BY <1>0, RefreshedFits DEF UnderWay
<1>4. \A b \in Call : call'[b] \in {call[b], Asked, Idle}  BY <1>1, <1>3
<1>5. day \in Nat /\ Most \in Nat /\ local[day] \in Nat /\ observed[day] \in Nat /\ baseline \in Nat
  BY <1>0, Bounds
<1>6. Past'
  <2>1. \A b \in Call : PastCall(call'[b], day)  BY <1>4, <1>5, Idling DEF Inv, Past
  <2> QED  BY <1>1, <2>1 DEF Inv, Past
<1>7. Unread' /\ Gifts'  BY <1>1, <1>2 DEF Inv, Unread, Gifts
<1>8. ASSUME ~ Exempt'  PROVE Fit'
  <2>1. Fit
    <3>1. ~ Exempt  BY <1>1, <1>8 DEF Exempt, Overtaken
    <3> QED  BY <3>1 DEF Inv, Bounded
  <2>2. Most' = Most  BY <1>1 DEF Most
  <2>3. RowsFit' /\ BucketsFit'  BY <1>1, <2>1 DEF Fit, RowsFit, BucketsFit
  <2>4. \A b \in Call : CallFits(call'[b], day, Most)
    BY <1>4, <1>5, <2>1, Idling DEF Fit, OnTheWayFits
  <2>5. OnTheWayFits'  BY <1>1, <2>1, <2>2, <2>4 DEF Fit, OnTheWayFits
  <2>6. CASE UNCHANGED <<personal, up, lag>>
    BY <1>1, <2>1, <2>2, <2>3, <2>5, <2>6 DEF Fit, BooksFit
  <2>7. CASE personal' = a.ledger /\ up' = TRUE /\ lag' = Overtaken(a, date)
    <3>1. SUFFICES ASSUME lag' = "none", date = day
                   PROVE  a.ledger.claimed + Greatest(0, local[day] - baseline) <= Most
      BY <1>1, <2>2, <2>3, <2>5, <2>7 DEF Fit, BooksFit
    <3>2. a.date = day /\ ~ (baseline < Represented(a.ledger, local[day]))
      BY <2>7, <3>1 DEF Overtaken
    <3>3. a.ledger \in Row /\ a.ledger.claimed <= Most
      BY <1>0, <2>1, <3>2, CallPc, AnswerParts DEF Fit, OnTheWayFits, CallFits
    <3>4. Starter + local[day] <= Most  BY <1>5, <2>1, Constants DEF Fit, BucketsFit, Most
    <3> HIDE DEF a
    <3>5. baseline >= Represented(a.ledger, local[day])
      BY <1>5, <3>2, <3>3, RepresentedFits
    <3> QED  BY <1>5, <3>3, <3>4, <3>5, Learned
  <2> QED  BY <1>1, <2>6, <2>7
<1> QED  BY <1>0, <1>6, <1>7, <1>8 DEF Inv, Bounded

(* The user's work, repairs and restarts. *)

LEMMA ObserveInv == ASSUME Inv, Observe PROVE Inv'
PROOF
<1>0. TypeOK /\ TypeOK' /\ Kept  BY WorkTypes, Types DEF Inv
<1>1. /\ observed' = [observed EXCEPT ![day] = @ + 1] /\ local' = [local EXCEPT ![label] = @ + 1]
      /\ call' \in {call, Refreshed}
      /\ UNCHANGED <<day, row, late, label, date, personal, baseline, up, task, lag>>
  BY DEF Observe, authority, books, seen, link
<1>2. /\ \A c \in Call : call'[c] \in {call[c], Asked, Idle}
      /\ \A c \in Calls : call'[c] = call[c]
  BY <1>0, <1>1, RefreshedCalls
<1>3. /\ day \in 1 .. LastDay /\ day \in Date /\ label \in Date /\ label \in Nat /\ day \in Nat
      /\ label <= day /\ Most \in Nat /\ baseline \in Nat
      /\ local \in [Date -> Nat] /\ observed \in [1 .. LastDay -> Nat] /\ Date \subseteq Int
  BY <1>0, Bounds, Constants DEF Inv, Past, Kept, Date
<1>4. /\ observed'[day] = observed[day] + 1
      /\ \A d \in 1 .. LastDay : observed'[d] \in Nat /\ observed'[d] >= observed[d]
  BY <1>1, <1>3
<1>5. /\ local'[day] \in Nat /\ local'[day] <= local[day] + 1
      /\ \A d \in Date : d > day => local'[d] = local[d]
  BY <1>1, <1>3
<1>6. Past'
  <2>1. \A c \in Call : PastCall(call'[c], day)  BY <1>2, <1>3, Idling DEF Inv, Past
  <2> QED  BY <1>1, <2>1 DEF Inv, Past
<1>7. Unread' /\ Gifts'  BY <1>1, <1>2 DEF Inv, Unread, Gifts
<1>8. ASSUME ~ Exempt'  PROVE Fit'
  <2>1. Fit  BY <1>1, <1>8 DEF Inv, Bounded, Exempt
  <2>2. Most' = Most + 1  BY <1>1, <1>3, <1>4, Constants DEF Most
  <2>3. RowsFit'
    <3> SUFFICES ASSUME NEW d \in 1 .. LastDay, row[d] # Unmet
                 PROVE  row[d].claimed <= Starter + observed'[d]
      BY <1>1 DEF RowsFit
    <3>1. row[d] \in Row  BY <1>0 DEF Kept, Rows
    <3>2. row[d].claimed \in Nat /\ row[d].claimed <= Starter + observed[d]
      BY <2>1, <3>1, Ledger DEF Fit, RowsFit
    <3> QED  BY <1>3, <1>4, <3>2, Constants
  <2>4. BucketsFit'  BY <1>1, <1>3, <1>4, <1>5, <2>1 DEF Fit, BucketsFit
  <2>5. BooksFit'
    <3>1. SUFFICES ASSUME lag = "none", date = day, personal # Unknown
                   PROVE  personal.claimed + Greatest(0, local'[day] - baseline) <= Most + 1
      BY <1>1, <2>2 DEF BooksFit
    <3>2. personal.claimed + Greatest(0, local[day] - baseline) <= Most
      BY <2>1, <3>1 DEF Fit, BooksFit
    <3>3. personal.claimed \in Nat  BY <1>0, <3>1, Types, Ledger DEF Held
    <3> QED  BY <1>3, <1>5, <3>2, <3>3 DEF Greatest
  <2>6. OnTheWayFits'
    <3>1. \A c \in late : c.target \in Nat  BY <1>0 DEF Kept
    <3>2. ASSUME NEW t \in Task  PROVE TaskFits(task[t], day, Most + 1)
      <4>1. task[t].target \in Nat /\ task[t].answer.ledger.claimed \in Nat
        BY <1>0, Types, TaskParts, AnswerParts, Ledger
      <4>2. TaskFits(task[t], day, Most)  BY <2>1 DEF Fit, OnTheWayFits
      <4> QED  BY <1>3, <4>1, <4>2 DEF TaskFits
    <3>3. ASSUME NEW c \in Call  PROVE CallFits(call'[c], day, Most + 1)
      <4>1. call[c].answer.ledger.claimed \in Nat
        BY <1>0, Types, CallPc, AnswerParts, Ledger
      <4>2. CallFits(call[c], day, Most)  BY <2>1 DEF Fit, OnTheWayFits
      <4>3. CallFits(call[c], day, Most + 1)  BY <1>3, <4>1, <4>2 DEF CallFits
      <4> QED  BY <1>2, <1>3, <4>3, Idling
    <3> QED  BY <1>1, <1>3, <2>1, <2>2, <3>1, <3>2, <3>3 DEF Fit, OnTheWayFits
  <2> QED  BY <2>3, <2>4, <2>5, <2>6 DEF Fit
<1> QED  BY <1>0, <1>6, <1>7, <1>8 DEF Inv, Bounded

LEMMA ReconcileInv == ASSUME Inv, Reconcile PROVE Inv'
PROOF
<1>0. TypeOK /\ TypeOK'  BY WorkTypes DEF Inv
<1>1. /\ local' = [d \in Date |-> 0] /\ baseline' = 0 /\ call' = Refreshed
      /\ UNCHANGED <<day, row, late, label, date, personal, up, task, observed, lag>>
  BY DEF Reconcile, authority, seen, link, claims, history
<1>2. /\ \A c \in Call : call'[c] \in {call[c], Asked, Idle}
      /\ \A c \in Calls : call'[c] = call[c]
  BY <1>0, <1>1, RefreshedCalls
<1>3. day \in Nat /\ day \in Date /\ Most \in Nat /\ observed[day] \in Nat /\ baseline \in Nat
      /\ local[day] \in Nat
  BY <1>0, Bounds
<1>4. Past'
  <2>1. \A c \in Call : PastCall(call'[c], day)  BY <1>2, <1>3, Idling DEF Inv, Past
  <2> QED  BY <1>1, <2>1 DEF Inv, Past
<1>5. Unread' /\ Gifts'  BY <1>1, <1>2 DEF Inv, Unread, Gifts
<1>6. ASSUME ~ Exempt'  PROVE Fit'
  <2>1. Fit  BY <1>1, <1>6 DEF Inv, Bounded, Exempt
  <2>2. Most' = Most  BY <1>1 DEF Most
  <2>3. RowsFit' /\ BucketsFit'  BY <1>1, <1>3, <2>1 DEF Fit, RowsFit, BucketsFit
  <2>4. BooksFit'
    <3>1. SUFFICES ASSUME lag = "none", date = day, personal # Unknown
                   PROVE  personal.claimed + Greatest(0, 0 - 0) <= Most
      BY <1>1, <1>3, <2>2 DEF BooksFit
    <3>2. personal.claimed + Greatest(0, local[day] - baseline) <= Most
      BY <2>1, <3>1 DEF Fit, BooksFit
    <3>3. personal.claimed \in Nat  BY <1>0, <3>1, Types, Ledger DEF Held
    <3> QED  BY <1>3, <3>2, <3>3 DEF Greatest
  <2>5. \A c \in Call : CallFits(call'[c], day, Most)
    BY <1>2, <1>3, <2>1, Idling DEF Fit, OnTheWayFits
  <2> QED  BY <1>1, <2>1, <2>2, <2>3, <2>4, <2>5 DEF Fit, OnTheWayFits
<1> QED  BY <1>0, <1>4, <1>5, <1>6 DEF Inv, Bounded

LEMMA RestartInv == ASSUME 2 \notin Skew, Inv, Restart PROVE Inv'
PROOF
<1>0. TypeOK /\ TypeOK'  BY WorkTypes DEF Inv
<1>1. /\ date' = 0 /\ personal' = Unknown /\ baseline' = 0 /\ up' = FALSE /\ lag' = InStep
      /\ \A t \in Task : task'[t] = Free
      /\ \A c \in late' : c \in late \/
           \E t \in Task :
             task[t].pc = "asked" /\ c.target = task[t].target /\ c.date = task[t].date
      /\ UNCHANGED <<day, row, local, observed>>
  BY DEF Restart
<1>2. call' = [c \in Call |-> IF c = "bootstrap" THEN Asked ELSE Idle]
  BY <1>0, Types DEF Restart, UnderWay
<1>3. \A c \in Call : call'[c] \in {Asked, Idle}  BY <1>2
<1>4. \A c \in Calls : call'[c] = Idle  BY <1>2, Constants DEF Call
<1>5. day \in Nat /\ Most \in Nat  BY <1>0, Bounds
<1>6. label' <= day
  <2>1. PICK s \in Skew : label' = day + s - 1  BY DEF Restart
  <2>2. s \in 0 .. 1  BY Constants
  <2> QED  BY <1>5, <2>1, <2>2
<1>7. Past'
  <2>1. \A t \in Task : PastTask(task'[t], day)  BY <1>1, <1>5, Idling
  <2>2. \A c \in Call : PastCall(call'[c], day)  BY <1>3, <1>5, Idling
  <2>3. \A c \in late' : c.date <= day  BY <1>1 DEF Inv, Past, PastTask
  <2> QED  BY <1>1, <1>5, <1>6, <2>1, <2>2, <2>3 DEF Past
<1>8. Unread'  BY <1>1, <1>4, <1>5, Idling DEF Unread
<1>9. Gifts'  BY <1>1 DEF Inv, Gifts
<1>10. ASSUME ~ Exempt'  PROVE Fit'
  <2>1. Fit  BY <1>1, <1>10 DEF Inv, Bounded, Exempt, InStep
  <2>2. Most' = Most  BY <1>1 DEF Most
  <2>3. RowsFit' /\ BucketsFit' /\ BooksFit'
    BY <1>1, <2>1 DEF Fit, RowsFit, BucketsFit, BooksFit
  <2>4. \A c \in late' : c.date = day => c.target <= Most
    BY <1>1, <2>1 DEF Fit, OnTheWayFits, TaskFits
  <2>5. \A t \in Task : TaskFits(task'[t], day, Most)  BY <1>1, <1>5, Idling
  <2>6. \A c \in Call : CallFits(call'[c], day, Most)  BY <1>3, <1>5, Idling
  <2>7. OnTheWayFits'  BY <1>1, <2>2, <2>4, <2>5, <2>6 DEF OnTheWayFits
  <2> QED  BY <2>3, <2>7 DEF Fit
<1> QED  BY <1>0, <1>7, <1>8, <1>9, <1>10 DEF Inv, Bounded

LEMMA StepInv == ASSUME 2 \notin Skew, Inv, [Next]_vars PROVE Inv'
PROOF
<1>0. TypeOK' /\ Call = DOMAIN call  BY StepTypes, Types DEF Inv, UnderWay
<1>1. CASE UNCHANGED vars
  BY <1>0, <1>1, CallsInv DEF vars, authority, usage, books, seen, link, claims, history, Call
<1>2. CASE Next
  <2>1. CASE Midnight \/ LabelTurns  BY <2>1, MidnightInv, LabelInv
  <2>2. CASE Network
    BY <1>0, <2>2, ClaimArrivesInv, LateClaimInv, CallArrivesInv DEF Network
  <2>3. CASE Restart  BY <2>3, RestartInv
  <2>4. CASE \E t \in Task : Resume(t)  BY <2>4, SubmitsInv
  <2>5. CASE Host
    BY <2>5, AdoptInv, LinksInv, SubmitsInv, ClaimAnsweredInv, ClaimFailsInv, PersonalReadInv
    DEF Host
  <2>6. CASE User  BY <2>6, LinksInv, ObserveInv, ReconcileInv, SubmitsInv DEF User
  <2> QED  BY <1>2, <2>1, <2>2, <2>3, <2>4, <2>5, <2>6 DEF Next
<1> QED  BY <1>1, <1>2

\* The ledger of a day holds, besides the gift, no token of another day and
\* none twice, whatever was lost, late, refused, overtaken, repaired or cut
\* short by a restart, unless a claim was made from books that were behind or a
\* bucket was moved.  The clock may be a day behind and not a day ahead: a late
\* claim for tomorrow would be taken once tomorrow has come (submitClaim,
\* claimOnce, syncDisplayBaselineFromLedger).
THEOREM ClaimsOwnDay == ASSUME 2 \notin Skew PROVE Spec => []OwnDay
PROOF
<1>1. Init => Inv  BY InitInv
<1>2. Inv /\ [Next]_vars => Inv'  BY StepInv
<1>3. Inv => OwnDay
  <2> SUFFICES ASSUME Inv, NEW d \in 1 .. LastDay, row[d] # Unmet, ~ Exempt
               PROVE  row[d].claimed - row[d].starter <= observed[d]
    BY DEF OwnDay
  <2>1. row[d] \in Row /\ observed[d] \in Nat  BY Types DEF Inv, Kept, Rows
  <2>2. row[d].starter = Starter /\ row[d].claimed <= Starter + observed[d]
    BY DEF Inv, Gifts, Bounded, Fit, RowsFit
  <2> QED  BY <2>1, <2>2, Ledger, Constants
<1> QED  BY <1>1, <1>2, <1>3, PTL DEF Spec
===============================================================================
