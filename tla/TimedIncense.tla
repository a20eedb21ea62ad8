---------------------------- MODULE TimedIncense ----------------------------
(***************************************************************************)
(* The timed votes of the Host (DayEndService).  When the user has opted   *)
(* in, a timer casts a full dump after every cadence and one closing dump  *)
(* in the last minute of the business day.  Each mode keeps one durable    *)
(* intent: it is saved before it is sent, retried with the same id and     *)
(* payload, and marked done in the same write that counts its sticks.      *)
(*                                                                         *)
(* Handlers run to their next await; the user's votes share one queue with *)
(* the timed ones, settings and intents share one queue of writes.  The    *)
(* online authority is reached over a network that loses, delays and       *)
(* repeats; the local one is a call.  A restart loses all but the disk.    *)
(* Delays are abstracted: a timer fires any time after it is armed.        *)
(***************************************************************************)
EXTENDS Integers, Sequences, FiniteSetsExt

CONSTANTS
  Mode,          \* authorities the user may select, among "online", "local"
  Choice,        \* directions the user may select, among "up", "down"
  MaxCount,      \* VOTE_COUNT_MAX: sticks one request may carry
  MaxLeft,       \* bound: sticks an installation holds
  LastDay,       \* bound: business days
  LastCase,      \* bound: cases of one mode
  MaxJobs,       \* bound: intents ever prepared
  MaxManual,     \* bound: the user's own votes and gestures
  MaxToggles,    \* bound: changes of the settings
  MaxSwitches,   \* bound: changes of mode
  MaxRestarts    \* bound: restarts of the Host

ASSUME TimedAssumption ==
  /\ Mode \subseteq {"online", "local"} /\ Mode # {}
  /\ Choice \subseteq {"up", "down"}
  /\ \A n \in {MaxCount, MaxLeft, LastDay, LastCase, MaxJobs} : n \in Nat \ {0}
  /\ \A n \in {MaxManual, MaxToggles, MaxSwitches, MaxRestarts} : n \in Nat

VARIABLES
  day, phase,     \* business day, and how much of it is left
  case, left,     \* per mode: the active case, and the installation's sticks
  receipt,        \* per intent: NoReceipt, 0 when refused, else the sticks taken
  net,            \* every request ever sent; any of them may still arrive
  disk,           \* the durable DayEndState
  state,          \* the DayEndState in memory
  saves,          \* queue of writes (mutations)
  slot,           \* the authority in use
  changing,       \* a change of mode is under way
  generation,     \* of settings and authority: older work is void
  view,           \* what the Host last read from the online authority
  quiet,          \* no gesture, and the user's last vote is 2 s old
  periodicReady,  \* whether the cadence is unset, waiting or elapsed
  scheduleKey,    \* authority, date and case the cadence was started for
  timer,          \* context of the armed timer, or NoTimer
  votes,          \* queue of votes; only its head runs
  run,            \* the timed task
  used            \* bounded acts of the user and of the environment so far

clock     == <<day, phase, case>>
authority == <<clock, left, receipt, net>>
settings  == <<disk, state, saves>>
mode      == <<slot, changing, generation>>
attention == <<view, quiet>>
schedule  == <<periodicReady, scheduleKey, timer>>
work      == <<votes, run>>
host      == <<settings, mode, attention, schedule, work>>
vars      == <<authority, host, used>>
-----------------------------------------------------------------------------
Direction == {"up", "down"}
NoReceipt == -1
NoJob     == [id |-> 0, done |-> TRUE]
NoTimer   == [generation |-> -1]
NoTally   == [d \in Direction |-> 0]
Idle      == [pc |-> "idle", at |-> NoTimer, job |-> NoJob]
Unread    == [date |-> 0, case |-> 0, left |-> 0, up |-> FALSE]

Job == [id : 1 .. MaxJobs, mode : Mode, date : 1 .. LastDay, case : 1 .. LastCase,
        voteType : Direction, count : 1 .. MaxCount, kind : {"periodic", "closing"},
        done : BOOLEAN]

\* EMPTY_LOCAL_INCENSE.  "counted" is history: the intents counted so far.
NoIncense == [date |-> 0, today |-> NoTally, lifetime |-> NoTally, counted |-> {}]

\* DEFAULT_DAY_END
Default == [enabled |-> FALSE, voteType |-> "up",
            jobs |-> [m \in Mode |-> NoJob], incense |-> [m \in Mode |-> NoIncense]]

Least(a, b) == IF a <= b THEN a ELSE b

\* What getWireState and dayEndTiming show of an authority.
Truth(m) == [date |-> day, case |-> case[m], left |-> left[m], up |-> TRUE]
Seen(s)  == IF s.mode = "local" THEN Truth("local") ELSE view
Ready    == Seen(slot).date # 0
PhaseOf(s) == IF Seen(s).date = day THEN phase ELSE "shut"

ManualPending == \E i \in DOMAIN votes : votes[i].who = "manual"

InWindow(c) ==
  /\ state.enabled /\ slot = c.slot /\ ~ changing
  /\ generation = c.generation
  /\ Seen(c.slot).date = c.date /\ Seen(c.slot).case = c.case
  /\ PhaseOf(c.slot) # "shut"

NoCheck(c)        == TRUE  \* fault, for CanPrepareVote: what was checked earlier still holds
CanPrepareVote(c) == ~ ManualPending /\ quiet /\ InWindow(c)
-----------------------------------------------------------------------------
(* Scheduling. *)

Key     == [slot |-> slot, date |-> Seen(slot).date, case |-> Seen(slot).case]
Context == [slot |-> slot, date |-> Seen(slot).date, case |-> Seen(slot).case,
            generation |-> generation]
Watching == state.enabled /\ Ready /\ run.pc = "idle"

Overlooked(job) == job # NoJob /\ ~ job.done /\ job.kind = "closing"  \* fault, for Unsettled
Unsettled(job)  == job # NoJob /\ ~ job.done

\* fault, for JobToday: a settled intent counts as none
OpenToday(m, date) == IF Unsettled(state.jobs[m]) /\ state.jobs[m].date = date
                      THEN state.jobs[m] ELSE NoJob

\* The intent of the day the Host sees, if it has one.
JobToday(m, date) == IF state.jobs[m] # NoJob /\ state.jobs[m].date = date
                     THEN state.jobs[m] ELSE NoJob

\* updateSchedule leaves the cadence alone near the end of the day, when the
\* closing vote has been prepared, and while an intent waits to be settled.
CadenceKept ==
  LET job == JobToday(slot.mode, Seen(slot).date) IN
  \/ PhaseOf(slot) # "daytime"
  \/ job # NoJob /\ (job.kind = "closing" \/ Unsettled(job))

FullDump(s) == Seen(s).left >= MaxCount

Waiting(ready) == IF ready = "unset" THEN "waiting" ELSE ready

\* schedule(), the last thing a handler does; the handler left the cadence "ready".
Reschedule(ready) ==
  LET kept == IF Key' = scheduleKey THEN ready ELSE "unset" IN
  IF Watching'
  THEN /\ timer' = Context'
       /\ scheduleKey' = Key'
       /\ periodicReady' = IF CadenceKept' THEN kept
                           ELSE IF FullDump(slot)' THEN Waiting(kept) ELSE "unset"
  ELSE /\ timer' = NoTimer
       /\ periodicReady' = ready
       /\ UNCHANGED scheduleKey

Init ==
  /\ day = 1 /\ phase = "daytime"
  /\ case = [m \in Mode |-> 1]
  /\ left \in [Mode -> {0, MaxLeft}]
  /\ receipt = [i \in 1 .. MaxJobs |-> NoReceipt]
  /\ net = {}
  /\ disk = Default /\ state = Default /\ saves = <<>>
  /\ slot \in [mode : Mode, n : {0}]
  /\ changing = FALSE /\ generation = 0
  /\ view = Unread
  /\ quiet = TRUE
  /\ periodicReady = "unset" /\ timer = NoTimer
  /\ scheduleKey = [slot |-> slot, date |-> 0, case |-> 0]
  /\ votes = <<>> /\ run = Idle
  /\ used = [jobs |-> 0, manual |-> 0, toggles |-> 0, switches |-> 0, restarts |-> 0]
-----------------------------------------------------------------------------
(* The authority, and time. *)

Later ==
  /\ \/ phase = "daytime" /\ phase' = "closing"
     \/ phase = "closing" /\ phase' = "shut"
  /\ UNCHANGED <<host, day, case, left, receipt, net, used>>

NewDay ==
  /\ phase = "shut" /\ day < LastDay
  /\ \A m \in Mode : case[m] < LastCase
  /\ day' = day + 1 /\ phase' = "daytime"
  /\ case' = [m \in Mode |-> case[m] + 1]
  /\ left' = [m \in Mode |-> 0]
  /\ UNCHANGED <<host, receipt, net, used>>

\* The day's case is replaced, by an operator or by cycling the local ones.
NewCase(m) ==
  /\ case[m] < LastCase
  /\ case' = [case EXCEPT ![m] = @ + 1]
  /\ UNCHANGED <<host, day, phase, left, receipt, net, used>>

Earn(m) ==
  /\ left[m] < MaxLeft
  /\ left' = [left EXCEPT ![m] = MaxLeft]
  /\ UNCHANGED <<host, clock, receipt, net, used>>

\* The authority decides a request it has not seen: it refuses another case
\* and an empty balance, and otherwise takes what balance and limiter allow.
Rule(j) ==
  /\ receipt[j.id] = NoReceipt
  /\ IF j.case # case[j.mode] \/ left[j.mode] = 0
     THEN receipt' = [receipt EXCEPT ![j.id] = 0] /\ UNCHANGED left
     ELSE \E n \in 1 .. Least(j.count, left[j.mode]) :
            /\ receipt' = [receipt EXCEPT ![j.id] = n]
            /\ left' = [left EXCEPT ![j.mode] = @ - n]

\* A request reaches the online authority, which keeps the receipt of the first.
Decide(j) ==
  /\ j.mode = "online"
  /\ Rule(j)
  /\ UNCHANGED <<host, clock, net, used>>

CadenceElapses ==
  /\ periodicReady = "waiting"
  /\ periodicReady' = "elapsed"
  /\ UNCHANGED <<authority, settings, mode, attention, work, scheduleKey, timer, used>>
-----------------------------------------------------------------------------
(* The view of the online authority. *)

\* A poll, a bootstrap or an outage changes the view and wakes the subscribers.
PollGives(v) ==
  /\ slot.mode = "online"
  /\ view # v /\ view' = v
  /\ UNCHANGED <<authority, settings, mode, work, quiet, used>>
  /\ Reschedule(periodicReady)

Poll      == PollGives(Truth("online"))
PollFails == PollGives([view EXCEPT !.up = FALSE])

\* What a vote's answer does to the view of the authority that was asked.
AnswerSeen(s) ==
  IF s = slot /\ s.mode = "online"
  THEN view' = [view EXCEPT !.left = left["online"], !.up = TRUE]
  ELSE UNCHANGED view

FailureSeen(s) ==
  IF s = slot /\ s.mode = "online"
  THEN \E up \in BOOLEAN : view' = [view EXCEPT !.up = up]   \* a 429 proves it is up
  ELSE UNCHANGED view
-----------------------------------------------------------------------------
(* The user's own votes and gestures. *)

Vote ==
  /\ used.manual < MaxManual
  /\ used' = [used EXCEPT !.manual = @ + 1]
  /\ votes' = Append(votes, [who |-> "manual", slot |-> slot, sent |-> FALSE])
  /\ quiet' = FALSE
  /\ UNCHANGED <<authority, settings, mode, schedule, view, run>>

HeadIs(who) == votes # <<>> /\ Head(votes).who = who

\* The queued task starts; a request meant for another authority is dropped.
SendVote ==
  /\ HeadIs("manual") /\ ~ Head(votes).sent
  /\ Head(votes).slot = slot /\ ~ changing
  /\ votes' = [votes EXCEPT ![1].sent = TRUE]
  /\ \E n \in 0 .. Least(MaxCount, left[slot.mode]) :
       left' = [left EXCEPT ![slot.mode] = @ - n]
  /\ UNCHANGED <<clock, settings, mode, attention, schedule, receipt, net, run, used>>

VoteEnds ==
  /\ HeadIs("manual")
  /\ votes' = Tail(votes)
  /\ quiet' = FALSE
  /\ IF Head(votes).sent
     THEN AnswerSeen(Head(votes).slot) \/ FailureSeen(Head(votes).slot)
     ELSE (Head(votes).slot # slot \/ changing) /\ UNCHANGED view
  /\ UNCHANGED <<authority, settings, mode, run, used>>
  /\ Reschedule(periodicReady)

NoteManualGesture ==
  /\ used.manual < MaxManual
  /\ used' = [used EXCEPT !.manual = @ + 1]
  /\ quiet' = FALSE
  /\ UNCHANGED <<authority, settings, mode, work, view>>
  /\ Reschedule(periodicReady)

\* The lease of a gesture and the idle time after a vote run out.
QuietAgain ==
  /\ ~ quiet /\ ~ ManualPending
  /\ quiet' = TRUE
  /\ UNCHANGED <<authority, settings, mode, schedule, work, view, used>>
-----------------------------------------------------------------------------
(* Writes: save() applies a change to the state in memory, one at a time. *)

Preferences(on, d) == [what |-> "preferences", enabled |-> on, voteType |-> d, written |-> FALSE]
Prepared(j)        == [what |-> "prepared", job |-> j, written |-> FALSE]
AsAsked(j, n)      == [what |-> "completed", job |-> j, spent |-> j.count, written |-> FALSE]  \* fault, for Completed
Completed(j, n)    == [what |-> "completed", job |-> j, spent |-> n, written |-> FALSE]

\* recordLocalIncenseVote on the ledger of the job's day
Counted(ledger, j, n) ==
  LET today == IF ledger.date = j.date THEN ledger.today ELSE NoTally IN
  [date     |-> j.date,
   today    |-> [today EXCEPT ![j.voteType] = @ + n],
   lifetime |-> [ledger.lifetime EXCEPT ![j.voteType] = @ + n],
   counted  |-> ledger.counted \cup {j.id}]

Settle(s, j, n) ==
  IF s.jobs[j.mode].id # j.id \/ s.jobs[j.mode].done THEN s
  ELSE [s EXCEPT !.jobs[j.mode] = [j EXCEPT !.done = TRUE],
                 !.incense[j.mode] = Counted(s.incense[j.mode], j, n)]

Change(s, x) ==
  CASE x.what = "preferences" -> [s EXCEPT !.enabled = x.enabled, !.voteType = x.voteType]
    [] x.what = "prepared"    -> [s EXCEPT !.jobs[x.job.mode] = x.job]
    [] x.what = "completed"   -> Settle(s, x.job, x.spent)

SetDayEndPreferences(on, d) ==
  /\ used.toggles < MaxToggles
  /\ used' = [used EXCEPT !.toggles = @ + 1]
  /\ saves' = Append(saves, Preferences(on, d))
  /\ UNCHANGED <<authority, mode, attention, schedule, work, disk, state>>

WriteReachesDisk ==
  /\ saves # <<>> /\ ~ Head(saves).written
  /\ disk' = Change(state, Head(saves))
  /\ saves' = [saves EXCEPT ![1].written = TRUE]
  /\ UNCHANGED <<authority, mode, attention, schedule, work, state, used>>

\* fault, for Finish: nothing schedules the next task
FinishSilent(ready) ==
  run' = Idle /\ votes' = Tail(votes) /\ timer' = NoTimer /\ UNCHANGED <<periodicReady, scheduleKey>>

\* The timed task ends, in its finally block, and leaves the cadence "ready".
Finish(ready) ==
  /\ run' = Idle
  /\ votes' = Tail(votes)
  /\ Reschedule(ready)

\* The write resolves: memory follows the disk, and who waited for it resumes.
SaveReturns ==
  /\ saves # <<>> /\ Head(saves).written
  /\ LET x == Head(saves)
         ready == IF state.enabled = state'.enabled THEN periodicReady ELSE "unset" IN
     /\ state' = Change(state, x)
     /\ saves' = Tail(saves)
     /\ generation' = IF state.enabled = state'.enabled THEN generation ELSE generation + 1
     /\ UNCHANGED <<authority, attention, disk, slot, changing, used>>
     /\ CASE x.what = "preferences" ->
               UNCHANGED work /\ Reschedule(ready)
          [] x.what = "prepared" ->
               run' = [run EXCEPT !.pc = "prepared"] /\ UNCHANGED votes /\ Reschedule(ready)
          [] x.what = "completed" ->
               Finish(IF x.job.kind = "periodic" THEN "waiting" ELSE ready)

\* The write is reported failed; it may have reached the disk all the same.
SaveFails ==
  /\ saves # <<>>
  /\ saves' = Tail(saves)
  /\ UNCHANGED <<authority, mode, attention, disk, state, used>>
  /\ IF Head(saves).what = "preferences"
     THEN UNCHANGED <<schedule, work>>
     ELSE Finish(periodicReady)
-----------------------------------------------------------------------------
(* The timed task. *)

RunDayEnd ==
  /\ timer # NoTimer
  /\ UNCHANGED <<authority, settings, mode, attention, used>>
  /\ IF InWindow(timer)
     THEN /\ run' = [pc |-> "queued", at |-> timer, job |-> NoJob]
          /\ votes' = Append(votes, [who |-> "timed", slot |-> timer.slot, sent |-> FALSE])
     ELSE UNCHANGED work
  /\ Reschedule(periodicReady)

At(pc) == run.pc = pc /\ HeadIs("timed")

GivesUp ==
  /\ UNCHANGED <<authority, settings, mode, attention, used>>
  /\ Finish(periodicReady)

\* The task reaches the head of the queue and asks the authority for news.
StartRun ==
  /\ At("queued")
  /\ IF run.at.slot = slot /\ ~ changing /\ CanPrepareVote(run.at)
     THEN /\ run' = [run EXCEPT !.pc = "reading"]
          /\ UNCHANGED <<authority, settings, mode, attention, schedule, votes, used>>
     ELSE GivesUp

\* refreshNow: a bootstrap that succeeds, fails, or is skipped in a backoff.
RefreshReturns ==
  /\ At("reading")
  /\ run' = [run EXCEPT !.pc = "read"]
  /\ IF slot = run.at.slot /\ slot.mode = "online"
     THEN view' \in {Truth("online"), [view EXCEPT !.up = FALSE], view}
     ELSE UNCHANGED view
  /\ UNCHANGED <<authority, settings, mode, quiet, votes, used>>
  /\ Reschedule(periodicReady)

NewJob(seen, id) ==
  [id |-> id, mode |-> slot.mode, date |-> seen.date, case |-> seen.case,
   voteType |-> state.voteType, count |-> Least(MaxCount, seen.left),
   kind |-> IF phase = "closing" THEN "closing" ELSE "periodic", done |-> FALSE]

RetriedNow(job) == [job EXCEPT !.case = Seen(slot).case]  \* fault, for Retried
Retried(job)    == job

\* What the task finds after the refresh, and the vote that is to be sent.  Out
\* of ids (the bound MaxJobs) it gives up as it does without incense.
Prepare ==
  /\ At("read")
  /\ LET seen    == Seen(slot)
         closing == phase = "closing"
         job     == JobToday(slot.mode, seen.date)
         full    == periodicReady = "elapsed" /\ FullDump(slot)
         id      == used.jobs + 1 IN
     IF ~ CanPrepareVote(run.at) \/ ~ seen.up THEN GivesUp
     ELSE IF job # NoJob /\ job.done /\ job.kind = "closing" THEN GivesUp
     ELSE IF Unsettled(job) /\ job.kind = "closing" /\ ~ closing THEN GivesUp
     ELSE IF Unsettled(job)
     THEN /\ run' = [run EXCEPT !.pc = "prepared", !.job = Retried(job)]
          /\ UNCHANGED <<authority, settings, mode, attention, schedule, votes, used>>
     ELSE IF ~ closing /\ ~ full
     THEN /\ UNCHANGED <<authority, settings, mode, attention, used>>
          /\ Finish("unset")
     ELSE IF seen.left < 1 \/ id > MaxJobs THEN GivesUp
     ELSE /\ used' = [used EXCEPT !.jobs = id]
          /\ run' = [run EXCEPT !.pc = "saving", !.job = NewJob(seen, id)]
          /\ saves' = Append(saves, Prepared(NewJob(seen, id)))
          /\ UNCHANGED <<authority, mode, attention, schedule, disk, state, votes>>

\* authority.vote: the local authority rules in the call, the online one later,
\* and it throws at once while it is known to be away.
Send ==
  /\ At("prepared")
  /\ IF ~ CanPrepareVote(run.at) \/ ~ Seen(slot).up THEN GivesUp
     ELSE /\ run' = [run EXCEPT !.pc = "voting"]
          /\ net' = net \cup {run.job}
          /\ \/ run.job.mode = "local" /\ Rule(run.job)
             \/ UNCHANGED <<receipt, left>>
          /\ UNCHANGED <<clock, settings, mode, attention, schedule, votes, used>>

\* The authority's answer: the receipt, whether new or replayed.
VoteReturns ==
  /\ At("voting")
  /\ receipt[run.job.id] # NoReceipt
  /\ run' = [run EXCEPT !.pc = "completing"]
  /\ saves' = Append(saves, Completed(run.job, receipt[run.job.id]))
  /\ AnswerSeen(run.at.slot)
  /\ UNCHANGED <<authority, mode, disk, state, quiet, votes, used>>
  /\ Reschedule(periodicReady)

\* No answer, or none in time: the intent stays as it is.  A local vote that
\* has a receipt cannot fail.
VoteFails ==
  /\ At("voting")
  /\ run.job.mode = "online" \/ receipt[run.job.id] = NoReceipt
  /\ FailureSeen(run.at.slot)
  /\ UNCHANGED <<authority, settings, mode, quiet, used>>
  /\ Finish(periodicReady)
-----------------------------------------------------------------------------
(* Changes of mode, and restarts. *)

BeginSwitch ==
  /\ ~ changing /\ used.switches < MaxSwitches
  /\ used' = [used EXCEPT !.switches = @ + 1]
  /\ changing' = TRUE
  /\ UNCHANGED <<authority, settings, attention, schedule, work, slot, generation>>

\* use(next): the online mode gets a new service, which has read its bootstrap.
UseAuthority(m) ==
  /\ changing /\ m # slot.mode
  /\ changing' = FALSE
  /\ generation' = generation + 1
  /\ slot' = [mode |-> m, n |-> IF m = "online" THEN generation + 1 ELSE 0]
  /\ view' = IF m = "online" THEN Truth("online") ELSE Unread
  /\ UNCHANGED <<authority, settings, work, quiet, used>>
  /\ Reschedule("unset")

SwitchFails ==
  /\ changing
  /\ changing' = FALSE
  /\ UNCHANGED <<authority, settings, attention, schedule, work, slot, generation, used>>

\* The process dies and comes back with what the disk holds.  The authorities
\* keep their receipts: the local one's write-behind is not modelled.
Restart ==
  /\ used.restarts < MaxRestarts
  /\ used' = [used EXCEPT !.restarts = @ + 1]
  /\ state' = disk /\ saves' = <<>>
  /\ changing' = FALSE /\ generation' = 0
  /\ slot' = [slot EXCEPT !.n = 0]
  /\ view' = Unread /\ quiet' = TRUE
  /\ votes' = <<>> /\ run' = Idle
  /\ UNCHANGED <<authority, disk>>
  /\ Reschedule("unset")
-----------------------------------------------------------------------------
\* A continuation runs before the process takes another event.
Continues == run.pc \in {"read", "prepared"}

Host ==
  \/ SendVote \/ VoteEnds \/ WriteReachesDisk \/ SaveReturns \/ SaveFails
  \/ RunDayEnd \/ StartRun \/ RefreshReturns \/ VoteReturns \/ VoteFails
  \/ CadenceElapses \/ Poll \/ PollFails \/ QuietAgain \/ SwitchFails
  \/ \E m \in Mode : UseAuthority(m)

User ==
  \/ Vote \/ NoteManualGesture \/ BeginSwitch
  \/ \E on \in BOOLEAN, d \in Choice : SetDayEndPreferences(on, d)

World ==
  \/ Later \/ NewDay \/ Restart
  \/ \E m \in Mode : NewCase(m) \/ Earn(m)
  \/ \E j \in net : Decide(j)

Next ==
  \/ World
  \/ Prepare \/ Send
  \/ ~ Continues /\ (Host \/ User)

Spec == Init /\ [][Next]_vars
-----------------------------------------------------------------------------
Tally   == [Direction -> Nat]
Ledger  == [date : 0 .. LastDay, today : Tally, lifetime : Tally, counted : SUBSET (1 .. MaxJobs)]
Durable == [enabled : BOOLEAN, voteType : Direction,
            jobs : [Mode -> Job \cup {NoJob}], incense : [Mode -> Ledger]]
Slot    == [mode : Mode, n : Nat]
Timer   == [slot : Slot, date : 1 .. LastDay, case : 1 .. LastCase, generation : Nat]

TypeOK ==
  /\ day \in 1 .. LastDay /\ phase \in {"daytime", "closing", "shut"}
  /\ case \in [Mode -> 1 .. LastCase] /\ left \in [Mode -> 0 .. MaxLeft]
  /\ receipt \in [1 .. MaxJobs -> -1 .. MaxCount]
  /\ net \subseteq Job
  /\ disk \in Durable /\ state \in Durable
  /\ slot \in Slot /\ changing \in BOOLEAN /\ generation \in Nat
  /\ quiet \in BOOLEAN /\ periodicReady \in {"unset", "waiting", "elapsed"}
  /\ timer \in Timer \cup {NoTimer}
  /\ run.job \in Job \cup {NoJob} /\ run.at \in Timer \cup {NoTimer}
  /\ run.pc = "idle" <=> ~ \E i \in DOMAIN votes : votes[i].who = "timed"

Jobs(s, m)    == {j \in net : j.mode = m /\ j.id \in s.incense[m].counted}
Sticks(jobs)  == SumFunctionOnSet([j \in jobs |-> receipt[j.id]], jobs)

\* What the Host shows as its timed votes, on disk and in memory, is what the
\* authority took for the intents counted, each of them once, per direction
\* and per day (runDayEnd 208-224, across lost answers, failed writes and restarts).
CountedExactly ==
  \A s \in {disk, state}, m \in Mode, d \in Direction :
    LET ledger == s.incense[m]
        jobs   == {j \in Jobs(s, m) : j.voteType = d} IN
    /\ ledger.lifetime[d] = Sticks(jobs)
    /\ ledger.today[d] = Sticks({j \in jobs : j.date = ledger.date})

\* A vote the authority took is counted, or is still the day's unsettled
\* intent on disk; only the end of its day lets the Host forget it.
NothingForgotten ==
  \A j \in net : receipt[j.id] > 0 =>
    \/ j.id \in disk.incense[j.mode].counted
    \/ disk.jobs[j.mode] = j
    \/ j.date < day

\* One request id stands for one payload, whatever the settings, the balance
\* or the case became between two attempts.
OnePayload == \A a, b \in net : a.id = b.id => a = b

\* A mode sends one closing intent a day, however often it is retried and
\* whatever restarts, switches and toggles come between.
OneClosing ==
  \A a, b \in net :
    a.kind = "closing" /\ b.kind = "closing" /\ a.mode = b.mode /\ a.date = b.date
      => a.id = b.id

\* While the user has opted in and no timed task runs, a timer is armed: no
\* path through the handlers forgets to schedule the next attempt.
KeepsWatch == Watching => timer # NoTimer

\* A timed vote is handed to an authority only while the user's votes are at
\* rest, to the one in use, with the user's consent, for the day the Host sees,
\* and with its intent on disk, whatever changed during the three awaits of
\* runDayEnd (188, 190, 214).
Yields ==
  [][\A j \in net' \ net :
       /\ ~ ManualPending /\ quiet /\ ~ changing /\ state.enabled
       /\ j.mode = slot.mode /\ j.date = Seen(slot).date
       /\ disk.jobs[j.mode] = j]_vars

\* The queued and the timed work of the process, one step at a time.
Steps ==
  \/ SendVote \/ VoteEnds
  \/ RunDayEnd \/ StartRun \/ RefreshReturns \/ Prepare \/ Send \/ VoteReturns \/ VoteFails

\* What process and network are trusted with: handlers end, a timer fires, a
\* switch ends, and an outage of authority or disk does not last for ever.
Fairness ==
  /\ WF_vars(Steps) /\ WF_vars(QuietAgain)
  /\ WF_vars(SwitchFails \/ \E m \in Mode : UseAuthority(m))
  /\ WF_vars(\E j \in net : Decide(j))
  /\ SF_vars(Poll) /\ SF_vars(RefreshReturns /\ view' = Truth("online"))
  /\ SF_vars(VoteReturns) /\ SF_vars(WriteReachesDisk) /\ SF_vars(SaveReturns)

FairSpec == Spec /\ Fairness

\* An unsettled intent is settled in the end, unless its day runs out or the
\* user opts out or changes the mode.
Settles ==
  \A i \in 1 .. MaxJobs :
    (state.jobs["online"].id = i /\ Unsettled(state.jobs["online"]))
      ~> \/ i \in disk.incense["online"].counted
         \/ ~ state.enabled \/ slot.mode # "online"
         \/ phase = "shut" \/ JobToday("online", day) = NoJob
=============================================================================
