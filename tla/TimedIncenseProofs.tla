------------------------- MODULE TimedIncenseProofs -------------------------
(***************************************************************************)
(* Theorems about the timed votes, for any number of modes, days, cases,   *)
(* intents, settings changes, mode changes and restarts.                   *)
(***************************************************************************)
EXTENDS TimedIncense, SumTheorems, SequenceTheorems

Pcs == {"idle", "queued", "reading", "read", "saving", "prepared", "voting", "completing"}

\* The states of the task that carry an intent.
Carries == {"saving", "prepared", "voting", "completing"}

Views  == [date : 0 .. LastDay, case : 0 .. LastCase, left : 0 .. MaxLeft, up : BOOLEAN]
Writes ==
  [what : {"preferences"}, enabled : BOOLEAN, voteType : Direction, written : BOOLEAN]
  \cup [what : {"prepared"}, job : Job, written : BOOLEAN]
  \cup [what : {"completed"}, job : Job, spent : 0 .. MaxCount, written : BOOLEAN]
Acts == {"jobs", "manual", "toggles", "switches", "restarts"}

(* The types, by the variables that a step writes. *)

ClockOK    == /\ day \in 1 .. LastDay /\ case \in [Mode -> 1 .. LastCase]
              /\ left \in [Mode -> 0 .. MaxLeft]
ReceiptsOK == receipt \in [1 .. MaxJobs -> -1 .. MaxCount]
NetOK      == net \subseteq Job /\ IsFiniteSet(net)
DurablesOK == disk \in Durable /\ state \in Durable
SlotOK     == slot \in [mode : Mode, n : Nat] /\ generation \in Nat
ViewOK     == view \in Views /\ (view.date # 0 => view.case # 0)
RunOK      == /\ run = [pc |-> run.pc, at |-> run.at, job |-> run.job] /\ run.pc \in Pcs
              /\ run.pc \in Carries => run.job \in Job
              /\ run.pc \notin Carries => run.job = NoJob
SavesOK    == saves \in Seq(Writes)
UsedOK     == used \in [Acts -> Nat] /\ used.jobs <= MaxJobs
\* A timer is armed only while no timed task runs.
TimerOK    == timer # NoTimer => run.pc = "idle"

Types == /\ ClockOK /\ ReceiptsOK /\ NetOK /\ DurablesOK /\ SlotOK /\ ViewOK
         /\ RunOK /\ SavesOK /\ UsedOK /\ TimerOK

(* The queue of writes.  Only its head is ever on its way to the disk, and   *)
(* then the disk is what the write makes of the state in memory; and one of  *)
(* the writes at most is the timed task's, which waits for it.               *)

Work(x) == x.what # "preferences"

QueueOK ==
  /\ \A i \in DOMAIN saves : saves[i].written => i = 1
  /\ saves # <<>> /\ Head(saves).written => disk = Change(state, Head(saves))
  /\ \A i, k \in DOMAIN saves : Work(saves[i]) /\ Work(saves[k]) => i = k
  /\ \A i \in DOMAIN saves :
       /\ saves[i].what = "prepared" => run.pc = "saving" /\ saves[i].job = run.job
       /\ saves[i].what = "completed" =>
            /\ run.pc = "completing" /\ saves[i].job = run.job
            /\ saves[i].spent = receipt[run.job.id] /\ saves[i].spent # NoReceipt

LEMMA Numbers ==
  /\ MaxCount \in Nat \ {0} /\ MaxLeft \in Nat \ {0} /\ LastDay \in Nat \ {0}
  /\ LastCase \in Nat \ {0} /\ MaxJobs \in Nat \ {0}
  /\ MaxManual \in Nat /\ MaxToggles \in Nat /\ MaxSwitches \in Nat /\ MaxRestarts \in Nat
BY TimedAssumption

LEMMA TypesInit == Init => Types
<1> SUFFICES ASSUME Init PROVE Types
  OBVIOUS
<1>1. ClockOK /\ ReceiptsOK
  BY Numbers DEF Init, ClockOK, ReceiptsOK, NoReceipt
<1>2. NetOK
  BY FS_EmptySet DEF Init, NetOK
<1>3. DurablesOK
  <2>1. NoIncense \in Ledger
    BY Numbers DEF NoIncense, Ledger, NoTally, Tally
  <2> QED BY <2>1 DEF Init, DurablesOK, Default, Durable, Direction
<1>4. SlotOK /\ ViewOK
  BY Numbers DEF Init, SlotOK, ViewOK, Unread, Views
<1>5. RunOK /\ SavesOK /\ TimerOK
  BY DEF Init, RunOK, SavesOK, TimerOK, Idle, Pcs, Carries
<1>6. UsedOK
  BY Numbers DEF Init, UsedOK, Acts
<1> QED BY <1>1, <1>2, <1>3, <1>4, <1>5, <1>6 DEF Types

\* What a step leaves alone keeps its type.
LEMMA TypesFrame ==
  ASSUME Types
  PROVE  /\ UNCHANGED <<clock, left>> => ClockOK'
         /\ UNCHANGED receipt => ReceiptsOK'
         /\ UNCHANGED net => NetOK'
         /\ UNCHANGED <<disk, state>> => DurablesOK'
         /\ UNCHANGED <<slot, generation>> => SlotOK'
         /\ UNCHANGED view => ViewOK'
         /\ UNCHANGED run => RunOK'
         /\ UNCHANGED saves => SavesOK'
         /\ UNCHANGED used => UsedOK'
         /\ UNCHANGED <<timer, run>> => TimerOK'
BY DEF Types, ClockOK, ReceiptsOK, NetOK, DurablesOK, SlotOK, ViewOK, RunOK, SavesOK, UsedOK,
       TimerOK, clock

\* Whoever reschedules arms a timer only while no timed task runs.
LEMMA RescheduleOK == \A ready : Reschedule(ready) => TimerOK'
BY DEF Reschedule, TimerOK, Watching

LEMMA IdleOK == run' = Idle => RunOK'
BY DEF Idle, RunOK, Pcs, Carries

LEMMA MovesOK ==
  ASSUME Types, NEW pc \in Pcs, pc \in Carries <=> run.pc \in Carries, run' = [run EXCEPT !.pc = pc]
  PROVE  RunOK'
BY DEF Types, RunOK

\* What an authority shows for the business day.
LEMMA SeenOK ==
  ASSUME Types
  PROVE  /\ Seen(slot).date \in 0 .. LastDay /\ Seen(slot).left \in 0 .. MaxLeft
         /\ Seen(slot).date # 0 => Seen(slot).case \in 1 .. LastCase
<1>1. slot.mode \in Mode
  BY DEF Types, SlotOK
<1>2. CASE slot.mode = "local"
  BY <1>1, <1>2, Numbers DEF Types, ClockOK, Seen, Truth
<1>3. CASE slot.mode # "local"
  BY <1>3, Numbers DEF Types, ViewOK, Views, Seen
<1> QED BY <1>2, <1>3

LEMMA UsedMore ==
  ASSUME Types, NEW act \in Acts \ {"jobs"}, used' = [used EXCEPT ![act] = @ + 1]
  PROVE  UsedOK' /\ used'.jobs = used.jobs
BY DEF Types, UsedOK, Acts

LEMMA TruthOK ==
  ASSUME Types, "online" \in Mode
  PROVE  /\ Truth("online") \in Views /\ Truth("online").date # 0 /\ Truth("online").case # 0
         /\ left["online"] \in 0 .. MaxLeft
BY Numbers DEF Types, ClockOK, Truth, Views

\* A read, an outage or an answer leave the view a view.
LEMMA ViewChanged ==
  ASSUME Types,
         \/ view' = view
         \/ "online" \in Mode /\ view' = Truth("online")
         \/ \E up \in BOOLEAN : view' = [view EXCEPT !.up = up]
         \/ "online" \in Mode /\ view' = [view EXCEPT !.left = left["online"], !.up = TRUE]
  PROVE  ViewOK'
<1>1. CASE view' = view
  BY <1>1, TypesFrame
<1>2. CASE "online" \in Mode /\ view' = Truth("online")
  BY <1>2, TruthOK DEF ViewOK
<1>3. CASE \E up \in BOOLEAN : view' = [view EXCEPT !.up = up]
  BY <1>3 DEF Types, ViewOK, Views
<1>4. CASE "online" \in Mode /\ view' = [view EXCEPT !.left = left["online"], !.up = TRUE]
  BY <1>4, TruthOK DEF Types, ViewOK, Views
<1> QED BY <1>1, <1>2, <1>3, <1>4

LEMMA AnswersSeenOK ==
  ASSUME Types, NEW s, AnswerSeen(s) \/ FailureSeen(s)
  PROVE  ViewOK'
BY ViewChanged DEF AnswerSeen, FailureSeen, Types, SlotOK
-----------------------------------------------------------------------------
(* What a write makes of a durable state. *)

LEMMA DurableParts ==
  ASSUME NEW s \in Durable
  PROVE  /\ s = [enabled |-> s.enabled, voteType |-> s.voteType, jobs |-> s.jobs, incense |-> s.incense]
         /\ s.enabled \in BOOLEAN /\ s.voteType \in Direction
         /\ s.jobs \in [Mode -> Job \cup {NoJob}] /\ s.incense \in [Mode -> Ledger]
BY DEF Durable

LEMMA DurableMade ==
  ASSUME NEW s \in Durable
  PROVE  /\ \A e \in BOOLEAN, d \in Direction : [s EXCEPT !.enabled = e, !.voteType = d] \in Durable
         /\ \A m \in Mode, j \in Job : [s EXCEPT !.jobs[m] = j] \in Durable
         /\ \A m \in Mode, j \in Job, l \in Ledger : [s EXCEPT !.jobs[m] = j, !.incense[m] = l] \in Durable
<1>1. \A e \in BOOLEAN, d \in Direction : [s EXCEPT !.enabled = e, !.voteType = d] \in Durable
  BY DEF Durable
<1>2. \A m \in Mode, j \in Job : [s EXCEPT !.jobs[m] = j] \in Durable
  BY DEF Durable
<1>3. \A m \in Mode, j \in Job, l \in Ledger : [s EXCEPT !.jobs[m] = j, !.incense[m] = l] \in Durable
  BY DEF Durable
<1> QED BY <1>1, <1>2, <1>3

LEMMA Fields ==
  ASSUME NEW s \in Durable, NEW m, NEW j, NEW l
  PROVE  /\ [s EXCEPT !.jobs[m] = j].jobs = [s.jobs EXCEPT ![m] = j]
         /\ [s EXCEPT !.jobs[m] = j].incense = s.incense
         /\ [s EXCEPT !.jobs[m] = j, !.incense[m] = l].jobs = [s.jobs EXCEPT ![m] = j]
         /\ [s EXCEPT !.jobs[m] = j, !.incense[m] = l].incense = [s.incense EXCEPT ![m] = l]
<1>1. /\ [s EXCEPT !.jobs[m] = j].jobs = [s.jobs EXCEPT ![m] = j]
      /\ [s EXCEPT !.jobs[m] = j].incense = s.incense
  BY DEF Durable
<1>2. [s EXCEPT !.jobs[m] = j, !.incense[m] = l].jobs = [s.jobs EXCEPT ![m] = j]
  BY DEF Durable
<1>3. [s EXCEPT !.jobs[m] = j, !.incense[m] = l].incense = [s.incense EXCEPT ![m] = l]
  BY DEF Durable
<1> QED BY <1>1, <1>2, <1>3

LEMMA CountedOK ==
  ASSUME NEW ledger \in Ledger, NEW j \in Job, NEW n \in Nat
  PROVE  Counted(ledger, j, n) \in Ledger
<1>1. NoTally \in Tally
  BY DEF NoTally, Tally
<1>2. PICK today : today = IF ledger.date = j.date THEN ledger.today ELSE NoTally
  OBVIOUS
<1>3. /\ today \in Tally /\ ledger.lifetime \in Tally /\ j.voteType \in Direction
      /\ j.date \in 0 .. LastDay /\ ledger.counted \cup {j.id} \in SUBSET (1 .. MaxJobs)
  BY <1>1, <1>2, Numbers DEF Ledger, Job
<1>4. /\ [today EXCEPT ![j.voteType] = @ + n] \in Tally
      /\ [ledger.lifetime EXCEPT ![j.voteType] = @ + n] \in Tally
  BY <1>3 DEF Tally
<1> QED BY <1>2, <1>3, <1>4 DEF Counted, Ledger

DoneJob(j) == [j EXCEPT !.done = TRUE]

LEMMA DoneJobOK == \A j \in Job : DoneJob(j) \in Job /\ DoneJob(j).id = j.id /\ DoneJob(j).date = j.date
                                  /\ DoneJob(j).mode = j.mode /\ DoneJob(j).done
BY DEF DoneJob, Job

LEMMA SettleIs ==
  ASSUME NEW s \in Durable, NEW j \in Job, NEW n
  PROVE  \/ Settle(s, j, n) = s /\ (s.jobs[j.mode].id # j.id \/ s.jobs[j.mode].done)
         \/ /\ s.jobs[j.mode].id = j.id /\ ~ s.jobs[j.mode].done
            /\ Settle(s, j, n).jobs = [s.jobs EXCEPT ![j.mode] = DoneJob(j)]
            /\ Settle(s, j, n).incense = [s.incense EXCEPT ![j.mode] = Counted(s.incense[j.mode], j, n)]
<1>1. CASE s.jobs[j.mode].id # j.id \/ s.jobs[j.mode].done
  BY <1>1 DEF Settle
<1>2. CASE ~ (s.jobs[j.mode].id # j.id \/ s.jobs[j.mode].done)
  <2>1. Settle(s, j, n) = [s EXCEPT !.jobs[j.mode] = DoneJob(j),
                                    !.incense[j.mode] = Counted(s.incense[j.mode], j, n)]
    BY <1>2 DEF Settle, DoneJob
  <2> QED BY <1>2, <2>1, Fields
<1> QED BY <1>1, <1>2

LEMMA SettleOK ==
  ASSUME NEW s \in Durable, NEW j \in Job, NEW n \in Nat
  PROVE  Settle(s, j, n) \in Durable
<1>1. j.mode \in Mode /\ s.incense[j.mode] \in Ledger
  BY DurableParts DEF Job
<1>2. DoneJob(j) \in Job /\ Counted(s.incense[j.mode], j, n) \in Ledger
  BY <1>1, DoneJobOK, CountedOK
<1>3. [s EXCEPT !.jobs[j.mode] = DoneJob(j),
                !.incense[j.mode] = Counted(s.incense[j.mode], j, n)] \in Durable
  BY <1>1, <1>2, DurableMade
<1> QED BY <1>3 DEF Settle, DoneJob

LEMMA ChangeOK ==
  ASSUME NEW s \in Durable, NEW x \in Writes
  PROVE  Change(s, x) \in Durable
<1>1. CASE x.what = "preferences"
  <2>1. x.enabled \in BOOLEAN /\ x.voteType \in Direction
    BY <1>1 DEF Writes
  <2> QED BY <1>1, <2>1, DurableMade DEF Change
<1>2. CASE x.what = "prepared"
  <2>1. x.job \in Job /\ x.job.mode \in Mode
    BY <1>2 DEF Writes, Job
  <2> QED BY <1>2, <2>1, DurableMade DEF Change
<1>3. CASE x.what = "completed"
  <2>1. x.job \in Job /\ x.spent \in Nat
    BY <1>3, Numbers DEF Writes
  <2> QED BY <1>3, <2>1, SettleOK DEF Change
<1> QED BY <1>1, <1>2, <1>3 DEF Writes

\* The head of the queue reaches the disk: it keeps its kind and its content.
LEMMA MarkedOK ==
  ASSUME NEW q \in Seq(Writes), q # <<>>, NEW r, r = [q EXCEPT ![1].written = TRUE]
  PROVE  /\ r \in Seq(Writes) /\ Len(r) = Len(q)
         /\ \A i \in 1 .. Len(q) : i # 1 => r[i] = q[i]
         /\ r[1] = [q[1] EXCEPT !.written = TRUE]
<1>1. 1 \in 1 .. Len(q) /\ q[1] \in Writes
  OBVIOUS
<1>2. PICK x : x = [q[1] EXCEPT !.written = TRUE]
  OBVIOUS
<1>3. x \in Writes
  BY <1>1, <1>2 DEF Writes
<1>4. r = [q EXCEPT ![1] = x]
  BY <1>2
<1>5. r \in Seq(Writes)
  <2>1. [q EXCEPT ![1] = x] \in Seq(Writes)
    BY <1>1, <1>3, ExceptSeq, Zenon
  <2> QED BY <1>4, <2>1
<1>6. Len(r) = Len(q)
  BY <1>1, <1>3, <1>4
<1>7. \A i \in 1 .. Len(q) : i # 1 => r[i] = q[i]
  BY <1>1, <1>4
<1>8. r[1] = x
  BY <1>1, <1>4
<1> QED BY <1>2, <1>5, <1>6, <1>7, <1>8

LEMMA RuleOK ==
  ASSUME Types, NEW j \in Job, Rule(j)
  PROVE  /\ ReceiptsOK' /\ left' \in [Mode -> 0 .. MaxLeft]
         /\ receipt[j.id] = NoReceipt
         /\ \E n \in 0 .. MaxCount : receipt' = [receipt EXCEPT ![j.id] = n]
<1>1. j.id \in 1 .. MaxJobs /\ j.mode \in Mode /\ j.count \in 1 .. MaxCount
  BY DEF Job
<1>2. PICK n, k :
        /\ receipt' = [receipt EXCEPT ![j.id] = n] /\ n \in 0 .. MaxCount
        /\ left' = [left EXCEPT ![j.mode] = k] /\ k \in 0 .. MaxLeft
  <2>1. CASE receipt' = [receipt EXCEPT ![j.id] = 0] /\ UNCHANGED left
    <3>1. left' = [left EXCEPT ![j.mode] = left[j.mode]] /\ left[j.mode] \in 0 .. MaxLeft
      BY <1>1, <2>1 DEF Types, ClockOK
    <3>2. receipt' = [receipt EXCEPT ![j.id] = 0] /\ 0 \in 0 .. MaxCount
      BY <2>1, Numbers
    <3> QED BY <3>1, <3>2, Zenon
  <2>2. CASE \E n \in 1 .. Least(j.count, left[j.mode]) :
               /\ receipt' = [receipt EXCEPT ![j.id] = n]
               /\ left' = [left EXCEPT ![j.mode] = @ - n]
    <3>1. PICK n \in 1 .. Least(j.count, left[j.mode]) :
               /\ receipt' = [receipt EXCEPT ![j.id] = n]
               /\ left' = [left EXCEPT ![j.mode] = left[j.mode] - n]
      BY <2>2
    <3>2. n \in 0 .. MaxCount /\ left[j.mode] \in 0 .. MaxLeft /\ n <= left[j.mode]
      BY <1>1, <3>1, Numbers DEF Least, Types, ClockOK
    <3>3. left[j.mode] - n \in 0 .. MaxLeft
      BY <3>1, <3>2, Numbers
    <3> QED BY <3>1, <3>2, <3>3
  <2> QED BY <2>1, <2>2 DEF Rule
<1>3. receipt' \in [1 .. MaxJobs -> -1 .. MaxCount]
  BY <1>1, <1>2, Numbers DEF Types, ReceiptsOK
<1>4. left' \in [Mode -> 0 .. MaxLeft]
  BY <1>1, <1>2 DEF Types, ClockOK
<1> QED BY <1>2, <1>3, <1>4 DEF Rule, ReceiptsOK
-----------------------------------------------------------------------------
(* The steps keep the types. *)

LEMMA RuledOK ==
  ASSUME Types, NEW j \in Job, Rule(j), UNCHANGED clock
  PROVE  ClockOK' /\ ReceiptsOK'
BY RuleOK DEF Types, ClockOK, clock

LEMMA GivesUpOK ==
  ASSUME Types, NEW ready, Finish(ready)
  PROVE  RunOK' /\ TimerOK'
BY RescheduleOK, IdleOK DEF Finish

LEMMA TailOK ==
  ASSUME Types, saves # <<>>, saves' = Tail(saves)
  PROVE  SavesOK' /\ Head(saves) \in Writes
BY HeadTailProperties DEF Types, SavesOK

\* Whoever appends a well-formed write to the queue.
LEMMA AppendOK ==
  ASSUME Types, NEW x \in Writes, saves' = Append(saves, x)
  PROVE  SavesOK'
BY AppendProperties DEF Types, SavesOK

LEMMA WorldTypes ==
  ASSUME Types, World, ~ Restart
  PROVE  Types'
<1>1. UNCHANGED host
  BY DEF World, Later, NewDay, NewCase, Earn, Decide
<1>2. DurablesOK' /\ SlotOK' /\ ViewOK' /\ RunOK' /\ SavesOK' /\ TimerOK'
  BY <1>1, TypesFrame DEF host, settings, mode, attention, schedule, work
<1>3. UsedOK' /\ NetOK'
  BY TypesFrame DEF World, Later, NewDay, NewCase, Earn, Decide
<1>4. ClockOK' /\ ReceiptsOK'
  <2>1. CASE Later
    BY <2>1, TypesFrame DEF Later, Types, ClockOK
  <2>2. CASE NewDay
    <3>1. \A m \in Mode : case[m] + 1 \in 1 .. LastCase
      BY <2>2, Numbers DEF NewDay, Types, ClockOK
    <3> QED BY <2>2, <3>1, TypesFrame, Numbers DEF NewDay, Types, ClockOK
  <2>3. ASSUME NEW m \in Mode, NewCase(m) PROVE ClockOK' /\ ReceiptsOK'
    <3>1. case[m] + 1 \in 1 .. LastCase
      BY <2>3, Numbers DEF NewCase, Types, ClockOK
    <3> QED BY <2>3, <3>1, TypesFrame DEF NewCase, Types, ClockOK
  <2>4. ASSUME NEW m \in Mode, Earn(m) PROVE ClockOK' /\ ReceiptsOK'
    BY <2>4, TypesFrame, Numbers DEF Earn, Types, ClockOK, clock
  <2>5. ASSUME NEW j \in net, Decide(j) PROVE ClockOK' /\ ReceiptsOK'
    BY <2>5, RuledOK DEF Decide, Types, NetOK
  <2> QED BY <2>1, <2>2, <2>3, <2>4, <2>5 DEF World
<1> QED BY <1>2, <1>3, <1>4 DEF Types

LEMMA RestartTypes ==
  ASSUME Types, Restart
  PROVE  Types'
<1>1. UsedOK'
  BY UsedMore DEF Restart, Acts
<1>2. DurablesOK' /\ SlotOK'
  BY DEF Restart, Types, DurablesOK, SlotOK
<1>3. ViewOK'
  BY Numbers DEF Restart, ViewOK, Views, Unread
<1>4. RunOK' /\ TimerOK'
  BY IdleOK, RescheduleOK DEF Restart
<1>5. SavesOK'
  BY DEF Restart, SavesOK
<1>6. ClockOK' /\ ReceiptsOK' /\ NetOK'
  BY TypesFrame DEF Restart, authority, clock
<1> QED BY <1>1, <1>2, <1>3, <1>4, <1>5, <1>6 DEF Types

LEMMA UserTypes ==
  ASSUME Types, User
  PROVE  Types'
<1>1. UNCHANGED <<authority, disk, state, slot, generation, view, run>>
  BY DEF User, Vote, NoteManualGesture, BeginSwitch, SetDayEndPreferences, settings, mode, work, attention
<1>2. UsedOK'
  BY UsedMore DEF User, Vote, NoteManualGesture, BeginSwitch, SetDayEndPreferences, Acts
<1>3. SavesOK'
  <2>1. CASE \E on \in BOOLEAN, d \in Choice : SetDayEndPreferences(on, d)
    <3>1. PICK on \in BOOLEAN, d \in Choice : SetDayEndPreferences(on, d)
      BY <2>1
    <3>2. Preferences(on, d) \in Writes
      BY TimedAssumption DEF Preferences, Writes, Direction
    <3> QED BY <3>1, <3>2, AppendOK DEF SetDayEndPreferences
  <2>2. CASE ~ (\E on \in BOOLEAN, d \in Choice : SetDayEndPreferences(on, d))
    BY <2>2, TypesFrame DEF User, Vote, NoteManualGesture, BeginSwitch, settings
  <2> QED BY <2>1, <2>2
<1>4. TimerOK'
  BY <1>1, TypesFrame, RescheduleOK DEF User, Vote, NoteManualGesture, BeginSwitch, SetDayEndPreferences, schedule
<1> QED BY <1>1, <1>2, <1>3, <1>4, TypesFrame DEF Types, authority

LEMMA HostTypes ==
  ASSUME Types, QueueOK, Host
  PROVE  Types'
<1>1. UNCHANGED <<used, receipt, net>>
  BY DEF Host, SendVote, VoteEnds, WriteReachesDisk, SaveReturns, SaveFails, RunDayEnd, StartRun, GivesUp,
         RefreshReturns, VoteReturns, VoteFails, CadenceElapses, Poll, PollFails, PollGives, QuietAgain,
         SwitchFails, UseAuthority, authority
<1>2. ASSUME UNCHANGED <<authority, settings, slot, generation>> PROVE
        ClockOK' /\ ReceiptsOK' /\ NetOK' /\ DurablesOK' /\ SlotOK' /\ SavesOK' /\ UsedOK'
  BY <1>1, <1>2, TypesFrame DEF authority, settings
<1>3. CASE SendVote
  <2>1. PICK n \in 0 .. Least(MaxCount, left[slot.mode]) : left' = [left EXCEPT ![slot.mode] = left[slot.mode] - n]
    BY <1>3 DEF SendVote
  <2>2. left[slot.mode] \in 0 .. MaxLeft /\ slot.mode \in Mode
    BY DEF Types, ClockOK, SlotOK
  <2>3. left[slot.mode] - n \in 0 .. MaxLeft
    BY <2>1, <2>2, Numbers DEF Least
  <2>4. ClockOK'
    BY <1>3, <2>1, <2>2, <2>3 DEF SendVote, Types, ClockOK, clock
  <2> QED BY <1>1, <1>3, <2>4, TypesFrame DEF SendVote, settings, mode, attention, schedule, Types
<1>4. CASE VoteEnds
  BY <1>2, <1>4, AnswersSeenOK, RescheduleOK, TypesFrame DEF VoteEnds, settings, mode, Types
<1>5. CASE WriteReachesDisk
  <2>1. Head(saves) \in Writes
    BY <1>5 DEF WriteReachesDisk, Types, SavesOK
  <2>2. DurablesOK'
    BY <1>5, <2>1, ChangeOK DEF WriteReachesDisk, Types, DurablesOK
  <2>3. SavesOK'
    BY <1>5, MarkedOK DEF WriteReachesDisk, Types, SavesOK
  <2> QED BY <1>1, <1>5, <2>2, <2>3, TypesFrame
          DEF WriteReachesDisk, authority, mode, attention, schedule, work, Types
<1>6. CASE SaveReturns
  <2>1. Head(saves) \in Writes /\ SavesOK'
    BY <1>6, TailOK DEF SaveReturns
  <2>2. DurablesOK'
    BY <1>6, <2>1, ChangeOK DEF SaveReturns, Types, DurablesOK
  <2>3. SlotOK'
    BY <1>6 DEF SaveReturns, Types, SlotOK
  <2>4. CASE Head(saves).what = "preferences"
    <3>1. RunOK' /\ TimerOK'
      BY <1>6, <2>4, TypesFrame, RescheduleOK DEF SaveReturns, work
    <3> QED BY <1>1, <1>6, <2>1, <2>2, <2>3, <3>1, TypesFrame DEF SaveReturns, authority, attention, Types
  <2>5. CASE Head(saves).what = "prepared"
    <3>1. RunOK' /\ TimerOK'
      <4>1. run' = [run EXCEPT !.pc = "prepared"]
        BY <1>6, <2>5 DEF SaveReturns
      <4>2. run.pc = "saving"
        <5>1. 1 \in DOMAIN saves /\ Head(saves) = saves[1]
          BY <1>6 DEF SaveReturns, Types, SavesOK
        <5> QED BY <2>5, <5>1 DEF QueueOK
      <4>3. RunOK'
        BY <4>1, <4>2, MovesOK DEF Pcs, Carries
      <4> QED BY <1>6, <2>5, <4>3, RescheduleOK DEF SaveReturns
    <3> QED BY <1>1, <1>6, <2>1, <2>2, <2>3, <3>1, TypesFrame DEF SaveReturns, authority, attention, Types
  <2>6. CASE Head(saves).what = "completed"
    <3>1. \E ready : Finish(ready)
      BY <1>6, <2>6 DEF SaveReturns
    <3>2. RunOK' /\ TimerOK'
      BY <3>1, GivesUpOK
    <3> QED BY <1>1, <1>6, <2>1, <2>2, <2>3, <3>2, TypesFrame DEF SaveReturns, authority, attention, Types
  <2> QED BY <2>1, <2>4, <2>5, <2>6 DEF Writes
<1>7. CASE SaveFails
  <2>1. SavesOK' /\ DurablesOK' /\ SlotOK' /\ ViewOK'
    BY <1>7, TailOK, TypesFrame DEF SaveFails, mode, attention
  <2>2. RunOK' /\ TimerOK'
    <3>1. CASE Head(saves).what = "preferences"
      BY <1>7, <3>1, TypesFrame DEF SaveFails, schedule, work
    <3>2. CASE Head(saves).what # "preferences"
      BY <1>7, <3>2, GivesUpOK DEF SaveFails
    <3> QED BY <3>1, <3>2
  <2> QED BY <1>1, <1>7, <2>1, <2>2, TypesFrame DEF SaveFails, authority, Types
<1>8. CASE RunDayEnd
  <2>1. RunOK'
    <3>1. CASE InWindow(timer)
      <4>1. run' = [pc |-> "queued", at |-> timer, job |-> NoJob]
        BY <1>8, <3>1 DEF RunDayEnd
      <4> QED BY <4>1 DEF RunOK, Pcs, Carries
    <3>2. CASE ~ InWindow(timer)
      BY <1>8, <3>2, TypesFrame DEF RunDayEnd, work
    <3> QED BY <3>1, <3>2
  <2> QED BY <1>2, <1>8, <2>1, RescheduleOK, TypesFrame DEF RunDayEnd, mode, attention, Types
<1>9. CASE StartRun
  <2>1. CASE GivesUp
    BY <1>2, <2>1, GivesUpOK, TypesFrame DEF GivesUp, mode, attention, Types
  <2>2. CASE ~ GivesUp
    <3>1. /\ run' = [run EXCEPT !.pc = "reading"] /\ run.pc = "queued"
          /\ UNCHANGED <<authority, settings, mode, attention, schedule>>
      BY <1>9, <2>2 DEF StartRun, At
    <3>2. RunOK' /\ TimerOK'
      BY <3>1, MovesOK DEF Pcs, Carries, Types, TimerOK, schedule
    <3> QED BY <1>2, <3>1, <3>2, TypesFrame DEF mode, attention, Types
  <2> QED BY <2>1, <2>2
<1>10. CASE RefreshReturns
  <2>1. run' = [run EXCEPT !.pc = "read"] /\ run.pc = "reading"
    BY <1>10 DEF RefreshReturns, At
  <2>2. RunOK' /\ TimerOK'
    BY <1>10, <2>1, MovesOK, RescheduleOK DEF RefreshReturns, Pcs, Carries
  <2>3. ViewOK'
    <3>1. \/ view' = view
          \/ "online" \in Mode /\ view' = Truth("online")
          \/ view' = [view EXCEPT !.up = FALSE]
      BY <1>10 DEF RefreshReturns, Types, SlotOK
    <3> QED BY <3>1, ViewChanged
  <2> QED BY <1>2, <1>10, <2>2, <2>3, TypesFrame DEF RefreshReturns, mode, Types
<1>11. CASE VoteReturns
  <2>1. run' = [run EXCEPT !.pc = "completing"] /\ run.pc = "voting"
    BY <1>11 DEF VoteReturns, At
  <2>2. RunOK' /\ TimerOK'
    BY <1>11, <2>1, MovesOK, RescheduleOK DEF VoteReturns, Pcs, Carries
  <2>3. Completed(run.job, receipt[run.job.id]) \in Writes
    <3>1. run.job \in Job /\ receipt[run.job.id] \in 0 .. MaxCount
      BY <1>11, <2>1, Numbers DEF VoteReturns, NoReceipt, Types, RunOK, ReceiptsOK, Carries, Job
    <3> QED BY <3>1 DEF Completed, Writes
  <2>4. SavesOK'
    BY <1>11, <2>3, AppendOK DEF VoteReturns
  <2> QED BY <1>1, <1>11, <2>2, <2>4, AnswersSeenOK, TypesFrame DEF VoteReturns, authority, mode, Types
<1>12. CASE VoteFails
  BY <1>2, <1>12, GivesUpOK, AnswersSeenOK, TypesFrame DEF VoteFails, mode, Types
<1>13. CASE CadenceElapses \/ QuietAgain \/ SwitchFails
  BY <1>2, <1>13, TypesFrame DEF CadenceElapses, QuietAgain, SwitchFails, mode, attention, schedule, work, Types
<1>14. CASE Poll \/ PollFails
  <2>1. ViewOK'
    BY <1>14, ViewChanged DEF Poll, PollFails, PollGives, Types, SlotOK
  <2> QED BY <1>2, <1>14, <2>1, RescheduleOK, TypesFrame DEF Poll, PollFails, PollGives, mode, work, Types
<1>15. ASSUME NEW m \in Mode, UseAuthority(m) PROVE Types'
  <2>1. slot' = [mode |-> m, n |-> IF m = "online" THEN generation + 1 ELSE 0] /\ generation' = generation + 1
    BY <1>15 DEF UseAuthority
  <2>2. SlotOK'
    BY <2>1 DEF SlotOK, Types
  <2>3. ViewOK'
    <3>1. Unread \in Views
      BY Numbers DEF Unread, Views
    <3> QED BY <1>15, <3>1, TruthOK DEF UseAuthority, ViewOK, Unread
  <2> QED BY <1>1, <1>15, <2>2, <2>3, RescheduleOK, TypesFrame DEF UseAuthority, authority, settings, work, Types
<1> QED BY <1>3, <1>4, <1>5, <1>6, <1>7, <1>8, <1>9, <1>10, <1>11, <1>12, <1>13, <1>14, <1>15 DEF Host

\* The intent a task prepares.
LEMMA NewJobOK ==
  ASSUME Types, Seen(slot).date = day, Seen(slot).left >= 1, used.jobs + 1 <= MaxJobs
  PROVE  /\ NewJob(Seen(slot), used.jobs + 1) \in Job
         /\ NewJob(Seen(slot), used.jobs + 1).id = used.jobs + 1
         /\ NewJob(Seen(slot), used.jobs + 1).mode = slot.mode
         /\ NewJob(Seen(slot), used.jobs + 1).date = day
         /\ ~ NewJob(Seen(slot), used.jobs + 1).done
<1>1. used.jobs + 1 \in 1 .. MaxJobs
  BY Numbers DEF Types, UsedOK, Acts
<1>2. Seen(slot).date \in 1 .. LastDay /\ Seen(slot).case \in 1 .. LastCase /\ slot.mode \in Mode
  BY SeenOK DEF Types, ClockOK, SlotOK
<1>3. Least(MaxCount, Seen(slot).left) \in 1 .. MaxCount
  BY SeenOK, Numbers DEF Least
<1>4. state.voteType \in Direction
  BY DurableParts DEF Types, DurablesOK
<1> QED BY <1>1, <1>2, <1>3, <1>4 DEF NewJob, Job

LEMMA InWindowToday ==
  ASSUME Types, NEW c, InWindow(c)
  PROVE  Seen(slot).date = day /\ c.date = day /\ c.slot = slot
BY DEF InWindow, PhaseOf

\* What the task does after the refresh.
LEMMA PrepareIs ==
  ASSUME Types, Prepare
  PROVE  /\ run.pc = "read"
         /\ \/ UNCHANGED <<authority, settings, mode, attention, used>> /\ \E ready : Finish(ready)
            \/ /\ CanPrepareVote(run.at)
               /\ Unsettled(state.jobs[slot.mode]) /\ state.jobs[slot.mode].date = Seen(slot).date
               /\ run' = [run EXCEPT !.pc = "prepared", !.job = state.jobs[slot.mode]]
               /\ UNCHANGED <<authority, settings, mode, attention, schedule, used>>
            \/ /\ CanPrepareVote(run.at)
               /\ LET job == JobToday(slot.mode, Seen(slot).date) IN
                  job = NoJob \/ (job.done /\ job.kind # "closing")
               /\ Seen(slot).left >= 1 /\ used.jobs + 1 <= MaxJobs
               /\ used' = [used EXCEPT !.jobs = used.jobs + 1]
               /\ run' = [run EXCEPT !.pc = "saving", !.job = NewJob(Seen(slot), used.jobs + 1)]
               /\ saves' = Append(saves, Prepared(NewJob(Seen(slot), used.jobs + 1)))
               /\ UNCHANGED <<authority, mode, attention, schedule, disk, state>>
<1>1. run.pc = "read"
  BY DEF Prepare, At
<1> DEFINE job == JobToday(slot.mode, Seen(slot).date)
<1>2. CASE GivesUp
  BY <1>1, <1>2 DEF GivesUp
<1>3. CASE ~ GivesUp /\ Unsettled(job)
  <2>1. job = state.jobs[slot.mode] /\ state.jobs[slot.mode].date = Seen(slot).date
    BY <1>3 DEF JobToday, Unsettled
  <2> HIDE DEF job
  <2> QED BY <1>1, <1>3, <2>1 DEF Prepare, Retried, job
<1>4. CASE ~ GivesUp /\ ~ Unsettled(job)
  <2>1. CASE UNCHANGED <<authority, settings, mode, attention, used>> /\ Finish("unset")
    BY <1>1, <2>1
  <2>2. CASE ~ (UNCHANGED <<authority, settings, mode, attention, used>> /\ Finish("unset"))
    <3>1. job = NoJob \/ job.done
      BY <1>4 DEF Unsettled
    <3>2. used.jobs \in Nat /\ MaxJobs \in Nat /\ Seen(slot).left \in Nat
      BY Numbers, SeenOK DEF Types, UsedOK, Acts
    <3> HIDE DEF job
    <3> QED BY <1>1, <1>4, <2>2, <3>1, <3>2 DEF Prepare, job
  <2> QED BY <2>1, <2>2
<1> QED BY <1>2, <1>3, <1>4

LEMMA PrepareTypes ==
  ASSUME Types, Prepare
  PROVE  Types'
<1>1. CASE UNCHANGED <<authority, settings, mode, attention, used>> /\ \E ready : Finish(ready)
  BY <1>1, GivesUpOK, TypesFrame DEF authority, settings, mode, attention, Types
<1>2. CASE /\ CanPrepareVote(run.at)
           /\ Unsettled(state.jobs[slot.mode]) /\ state.jobs[slot.mode].date = Seen(slot).date
           /\ run' = [run EXCEPT !.pc = "prepared", !.job = state.jobs[slot.mode]]
           /\ UNCHANGED <<authority, settings, mode, attention, schedule, used>>
  <2>1. state.jobs[slot.mode] \in Job
    BY <1>2, DurableParts DEF Types, DurablesOK, SlotOK, Unsettled
  <2>2. RunOK'
    BY <1>2, <2>1 DEF RunOK, Types, Pcs, Carries
  <2>3. TimerOK'
    BY <1>2, PrepareIs DEF TimerOK, Types, schedule
  <2> QED BY <1>2, <2>2, <2>3, TypesFrame DEF authority, settings, mode, attention, Types
<1>3. CASE /\ CanPrepareVote(run.at)
           /\ Seen(slot).left >= 1 /\ used.jobs + 1 <= MaxJobs
           /\ used' = [used EXCEPT !.jobs = used.jobs + 1]
           /\ run' = [run EXCEPT !.pc = "saving", !.job = NewJob(Seen(slot), used.jobs + 1)]
           /\ saves' = Append(saves, Prepared(NewJob(Seen(slot), used.jobs + 1)))
           /\ UNCHANGED <<authority, mode, attention, schedule, disk, state>>
  <2>1. PICK j : j = NewJob(Seen(slot), used.jobs + 1)
    OBVIOUS
  <2>2. j \in Job
    BY <1>3, <2>1, NewJobOK, InWindowToday DEF CanPrepareVote
  <2>3. RunOK'
    BY <1>3, <2>1, <2>2 DEF RunOK, Types, Pcs, Carries
  <2>4. TimerOK'
    BY <1>3, PrepareIs DEF TimerOK, Types, schedule
  <2>5. SavesOK'
    <3>1. Prepared(j) \in Writes
      BY <2>2 DEF Prepared, Writes
    <3> QED BY <1>3, <2>1, <3>1, AppendOK
  <2>6. UsedOK'
    <3>1. used.jobs + 1 \in Nat
      BY DEF Types, UsedOK, Acts
    <3> QED BY <1>3, <3>1, Numbers DEF UsedOK, Types, Acts
  <2> QED BY <1>3, <2>3, <2>4, <2>5, <2>6, TypesFrame DEF authority, mode, attention, Types
<1> QED BY <1>1, <1>2, <1>3, PrepareIs

\* The intent is handed over: what the task has checked holds as it sends.
LEMMA SendIs ==
  ASSUME Types, Send
  PROVE  /\ run.pc = "prepared" /\ run.job \in Job
         /\ \/ UNCHANGED <<authority, settings, mode, attention, used>> /\ \E ready : Finish(ready)
            \/ /\ CanPrepareVote(run.at)
               /\ run' = [run EXCEPT !.pc = "voting"] /\ net' = net \cup {run.job}
               /\ Rule(run.job) \/ UNCHANGED <<receipt, left>>
               /\ UNCHANGED <<clock, settings, mode, attention, schedule, votes, used>>
<1>1. run.pc = "prepared" /\ run.job \in Job
  BY DEF Send, At, Types, RunOK, Carries
<1> QED BY <1>1 DEF Send, GivesUp

LEMMA SendTypes ==
  ASSUME Types, Send
  PROVE  Types'
<1>1. CASE UNCHANGED <<authority, settings, mode, attention, used>> /\ \E ready : Finish(ready)
  BY <1>1, GivesUpOK, TypesFrame DEF authority, settings, mode, attention, Types
<1>2. CASE /\ run' = [run EXCEPT !.pc = "voting"] /\ net' = net \cup {run.job}
           /\ Rule(run.job) \/ UNCHANGED <<receipt, left>>
           /\ UNCHANGED <<clock, settings, mode, attention, schedule, votes, used>>
  <2>1. run.pc = "prepared" /\ run.job \in Job
    BY SendIs
  <2>2. NetOK'
    BY <1>2, <2>1, FS_AddElement DEF NetOK, Types
  <2>3. RunOK'
    BY <1>2, <2>1, MovesOK DEF Pcs, Carries
  <2>4. TimerOK'
    BY <1>2, <2>1 DEF TimerOK, Types, schedule
  <2>5. ClockOK' /\ ReceiptsOK'
    BY <1>2, <2>1, RuledOK, TypesFrame
  <2> QED BY <1>2, <2>2, <2>3, <2>4, <2>5, TypesFrame DEF settings, mode, attention, Types
<1> QED BY <1>1, <1>2, SendIs

LEMMA TypesStep ==
  ASSUME Types, QueueOK, [Next]_vars
  PROVE  Types'
<1>1. CASE UNCHANGED vars
  BY <1>1, TypesFrame DEF vars, authority, host, settings, mode, attention, schedule, work, Types
<1> QED BY <1>1, WorldTypes, RestartTypes, UserTypes, HostTypes, PrepareTypes, SendTypes DEF Next, World
-----------------------------------------------------------------------------
(* While the user has opted in and nothing runs, a timer is armed.          *)

LEMMA WatchRearmed ==
  ASSUME SlotOK', NEW ready, Reschedule(ready)
  PROVE  KeepsWatch'
<1>1. generation' \in Nat
  BY DEF SlotOK
<1>2. Context' # NoTimer
  <2>1. (Context.generation)' = generation'
    BY DEF Context
  <2> QED BY <1>1, <2>1 DEF NoTimer
<1> QED BY <1>2 DEF Reschedule, KeepsWatch

\* A step that does not reschedule leaves alone what a timer is armed for.
LEMMA WatchSteps ==
  ASSUME Types, QueueOK, Next
  PROVE  \/ \E ready : Reschedule(ready)
         \/ UNCHANGED <<timer, state, slot, view, run>>
         \/ UNCHANGED timer /\ run'.pc # "idle"
<1>1. CASE Prepare
  <2>1. CASE \E ready : Finish(ready)
    BY <2>1 DEF Finish
  <2>2. CASE ~ \E ready : Finish(ready)
    <3>1. UNCHANGED timer /\ \E pc \in {"prepared", "saving"} : \E j : run' = [run EXCEPT !.pc = pc, !.job = j]
      BY <1>1, <2>2, PrepareIs DEF schedule
    <3> QED BY <3>1 DEF Types, RunOK
  <2> QED BY <2>1, <2>2
<1>2. CASE Send
  <2>1. CASE \E ready : Finish(ready)
    BY <2>1 DEF Finish
  <2>2. CASE ~ \E ready : Finish(ready)
    <3>1. UNCHANGED timer /\ run' = [run EXCEPT !.pc = "voting"]
      BY <1>2, <2>2, SendIs DEF schedule
    <3> QED BY <3>1 DEF Types, RunOK
  <2> QED BY <2>1, <2>2
<1>3. CASE World
  BY <1>3 DEF World, Later, NewDay, NewCase, Earn, Decide, Restart, host, settings, mode, attention, schedule, work
<1>4. CASE User
  BY <1>4 DEF User, Vote, NoteManualGesture, BeginSwitch, SetDayEndPreferences, settings, mode, attention, schedule, work
<1>5. CASE Host
  <2>1. CASE SendVote \/ WriteReachesDisk \/ CadenceElapses \/ QuietAgain \/ SwitchFails
    BY <2>1 DEF SendVote, WriteReachesDisk, CadenceElapses, QuietAgain, SwitchFails, settings, mode,
                attention, schedule, work
  <2>2. CASE VoteEnds \/ RunDayEnd \/ RefreshReturns \/ VoteReturns \/ Poll \/ PollFails
    BY <2>2 DEF VoteEnds, RunDayEnd, RefreshReturns, VoteReturns, Poll, PollFails, PollGives
  <2>3. ASSUME NEW m \in Mode, UseAuthority(m) PROVE \E ready : Reschedule(ready)
    BY <2>3 DEF UseAuthority
  <2>4. CASE SaveReturns
    <3>1. Head(saves) \in Writes
      BY <2>4, HeadTailProperties DEF SaveReturns, Types, SavesOK
    <3>2. Head(saves).what \in {"preferences", "prepared", "completed"}
      BY <3>1 DEF Writes
    <3> QED BY <2>4, <3>2 DEF SaveReturns, Finish
  <2>5. CASE SaveFails
    BY <2>5 DEF SaveFails, Finish, schedule, work, mode, attention
  <2>6. CASE VoteFails
    BY <2>6 DEF VoteFails, Finish
  <2>7. CASE StartRun
    <3>1. CASE GivesUp
      BY <3>1 DEF GivesUp, Finish
    <3>2. CASE ~ GivesUp
      BY <2>7, <3>2 DEF StartRun, schedule, Types, RunOK
    <3> QED BY <3>1, <3>2
  <2> QED BY <1>5, <2>1, <2>2, <2>3, <2>4, <2>5, <2>6, <2>7 DEF Host
<1> QED BY <1>1, <1>2, <1>3, <1>4, <1>5 DEF Next

LEMMA WatchStep ==
  ASSUME Types, QueueOK, Types', KeepsWatch, [Next]_vars
  PROVE  KeepsWatch'
<1>1. CASE \E ready : Reschedule(ready)
  BY <1>1, WatchRearmed DEF Types
<1>2. CASE UNCHANGED <<timer, state, slot, view, run>>
  <2>1. Watching' => Watching
    <3>1. CASE slot.mode = "local"
      BY <1>2, <3>1 DEF Watching, Ready, Seen, Truth, Types, ClockOK
    <3>2. CASE slot.mode # "local"
      BY <1>2, <3>2 DEF Watching, Ready, Seen
    <3> QED BY <3>1, <3>2
  <2> QED BY <1>2, <2>1 DEF KeepsWatch
<1>3. CASE UNCHANGED timer /\ run'.pc # "idle"
  BY <1>3 DEF KeepsWatch, Watching
<1>4. CASE UNCHANGED vars
  BY <1>2, <1>4 DEF vars, host, settings, mode, attention, schedule, work
<1> QED BY <1>1, <1>2, <1>3, <1>4, WatchSteps

LEMMA WatchInit == Init => KeepsWatch
BY DEF Init, KeepsWatch, Watching, Default
-----------------------------------------------------------------------------
(* Sums of receipts. *)

Total(jobs, r) == SumFunctionOnSet([j \in jobs |-> r[j.id]], jobs)

Receipts == [1 .. MaxJobs -> -1 .. MaxCount]

LEMMA ReceiptInt ==
  ASSUME NEW r \in Receipts, NEW j \in Job
  PROVE  r[j.id] \in Int
BY Numbers DEF Receipts, Job

LEMMA TotalAdd ==
  ASSUME NEW jobs, jobs \subseteq Job, IsFiniteSet(jobs), NEW j \in Job, j \notin jobs, NEW r \in Receipts
  PROVE  Total(jobs \cup {j}, r) = Total(jobs, r) + r[j.id]
<1> DEFINE f == [x \in jobs \cup {j} |-> r[x.id]]
           g == [x \in jobs |-> r[x.id]]
<1>1. \A x \in jobs \cup {j} : f[x] \in Int
  BY ReceiptInt
<1>2. \A x \in jobs : f[x] = g[x]
  OBVIOUS
<1>3. f[j] = r[j.id]
  OBVIOUS
<1> HIDE DEF f, g
<1>4. SumFunctionOnSet(f, jobs \cup {j}) = SumFunctionOnSet(f, jobs) + f[j]
  BY <1>1, SumAdd
<1>5. SumFunctionOnSet(f, jobs) = SumFunctionOnSet(g, jobs)
  BY <1>1, <1>2, SumSame
<1> QED BY <1>3, <1>4, <1>5 DEF Total, f, g

LEMMA TotalSame ==
  ASSUME NEW jobs, jobs \subseteq Job, IsFiniteSet(jobs), NEW r \in Receipts, NEW q \in Receipts,
         \A j \in jobs : r[j.id] = q[j.id]
  PROVE  Total(jobs, r) = Total(jobs, q)
<1> DEFINE f == [x \in jobs |-> r[x.id]]
           g == [x \in jobs |-> q[x.id]]
<1>1. \A x \in jobs : f[x] \in Int /\ f[x] = g[x]
  BY ReceiptInt
<1> HIDE DEF f, g
<1>2. SumFunctionOnSet(f, jobs) = SumFunctionOnSet(g, jobs)
  BY <1>1, SumSame
<1> QED BY <1>2 DEF Total, f, g

LEMMA TotalEmpty == \A r : Total({}, r) = 0
BY SumEmpty DEF Total
-----------------------------------------------------------------------------
(* What a durable state says of one mode: its intent, and the ledger of the *)
(* intents counted, beside the requests n that were sent, the receipts r of *)
(* the authority and the business day t.                                    *)

\* The intent is done when it is counted, and the ledger is no younger than it.
Shape(job, ledger, m) ==
  /\ job = NoJob => ledger = NoIncense
  /\ job # NoJob => job.mode = m /\ ledger.date <= job.date /\ (job.done <=> job.id \in ledger.counted)

\* What is counted was sent and decided.
Backed(ledger, m, n, r) ==
  \A i \in ledger.counted :
    \E j \in n : j.id = i /\ j.mode = m /\ r[i] # NoReceipt /\ j.date <= ledger.date

\* What was sent is counted, or is the day's intent, or of another day.
Held(job, ledger, m, n, t) ==
  \A j \in n : j.mode = m => j.id \in ledger.counted \/ job = j \/ j.date < t

\* After a closing intent nothing else of its day is prepared.
Closed(job, m, n) ==
  \A j \in n : j.mode = m /\ j.kind = "closing" =>
    job # NoJob /\ (j.date < job.date \/ j.id = job.id)

Booked(ledger, m, n, d) == {j \in n : j.mode = m /\ j.id \in ledger.counted /\ j.voteType = d}
BookedToday(ledger, m, n, d) == {j \in Booked(ledger, m, n, d) : j.date = ledger.date}

Summed(ledger, m, n, r) ==
  \A d \in Direction : /\ ledger.lifetime[d] = Total(Booked(ledger, m, n, d), r)
                       /\ ledger.today[d] = Total(BookedToday(ledger, m, n, d), r)

Whole(job, ledger, m, n, r, t) ==
  /\ Shape(job, ledger, m) /\ Backed(ledger, m, n, r) /\ Held(job, ledger, m, n, t)
  /\ Closed(job, m, n) /\ Summed(ledger, m, n, r)

Sound(s, n, r, t) == \A m \in Mode : Whole(s.jobs[m], s.incense[m], m, n, r, t)

LEMMA BookedIn ==
  ASSUME NEW n, n \subseteq Job, IsFiniteSet(n), NEW ledger, NEW m, NEW d
  PROVE  /\ Booked(ledger, m, n, d) \subseteq Job /\ IsFiniteSet(Booked(ledger, m, n, d))
         /\ BookedToday(ledger, m, n, d) \subseteq Job /\ IsFiniteSet(BookedToday(ledger, m, n, d))
<1>1. Booked(ledger, m, n, d) \in SUBSET n /\ BookedToday(ledger, m, n, d) \in SUBSET n
  BY DEF Booked, BookedToday
<1> QED BY <1>1, FS_Subset

LEMMA SoundNothing ==
  ASSUME NEW r, NEW t
  PROVE  Sound(Default, {}, r, t)
<1> SUFFICES ASSUME NEW m \in Mode PROVE Whole(NoJob, NoIncense, m, {}, r, t)
  BY DEF Sound, Default
<1>1. \A d : Booked(NoIncense, m, {}, d) = {} /\ BookedToday(NoIncense, m, {}, d) = {}
  BY DEF Booked, BookedToday
<1>2. Summed(NoIncense, m, {}, r)
  BY <1>1, TotalEmpty DEF Summed, NoIncense, NoTally
<1> QED BY <1>2 DEF Whole, Shape, Backed, Held, Closed, NoIncense

\* The clock goes on.
LEMMA SoundLater ==
  ASSUME NEW s, NEW n, n \subseteq Job, NEW r, NEW t \in Nat, NEW u \in Nat, t <= u, Sound(s, n, r, t)
  PROVE  Sound(s, n, r, u)
<1>1. \A j \in n : j.date \in Nat
  BY DEF Job
<1> QED BY <1>1 DEF Sound, Whole, Held

\* A request is decided, which was not.
LEMMA SoundDecided ==
  ASSUME NEW s, NEW n, n \subseteq Job, IsFiniteSet(n), NEW r \in Receipts, NEW t,
         NEW i \in 1 .. MaxJobs, NEW k \in 0 .. MaxCount, r[i] = NoReceipt, Sound(s, n, r, t)
  PROVE  Sound(s, n, [r EXCEPT ![i] = k], t)
<1> DEFINE q == [r EXCEPT ![i] = k]
<1>1. q \in Receipts /\ q[i] # NoReceipt /\ \A x \in 1 .. MaxJobs : x # i => q[x] = r[x]
  BY Numbers DEF Receipts, NoReceipt
<1> HIDE DEF q
<1> SUFFICES ASSUME NEW m \in Mode PROVE Whole(s.jobs[m], s.incense[m], m, n, q, t)
  BY DEF Sound, q
<1> DEFINE ledger == s.incense[m]
<1>2. Whole(s.jobs[m], ledger, m, n, r, t)
  BY DEF Sound
<1> HIDE DEF ledger
<1>3. \A x \in ledger.counted : x \in 1 .. MaxJobs /\ r[x] # NoReceipt /\ q[x] = r[x]
  BY <1>1, <1>2 DEF Whole, Backed, Job
<1>4. Backed(ledger, m, n, q)
  BY <1>2, <1>3 DEF Whole, Backed
<1>5. Summed(ledger, m, n, q)
  <2> SUFFICES ASSUME NEW d \in Direction
               PROVE  /\ Total(Booked(ledger, m, n, d), q) = Total(Booked(ledger, m, n, d), r)
                      /\ Total(BookedToday(ledger, m, n, d), q) = Total(BookedToday(ledger, m, n, d), r)
    BY <1>2 DEF Whole, Summed
  <2>1. /\ \A j \in Booked(ledger, m, n, d) : q[j.id] = r[j.id]
        /\ \A j \in BookedToday(ledger, m, n, d) : q[j.id] = r[j.id]
    BY <1>3 DEF Booked, BookedToday
  <2> QED BY <1>1, <2>1, BookedIn, TotalSame
<1> QED BY <1>2, <1>4, <1>5 DEF Whole, ledger

\* A request is sent that the state keeps as its intent, or was sent before.
LEMMA SoundSent ==
  ASSUME NEW s, NEW n, NEW r, NEW t, NEW j, j.mode \in Mode, Sound(s, n, r, t), ~ j.done, j # NoJob,
         j \notin n => s.jobs[j.mode] = j
  PROVE  Sound(s, n \cup {j}, r, t)
<1>1. CASE j \in n
  <2>1. n \cup {j} = n
    BY <1>1
  <2> QED BY <2>1
<1>2. CASE j \notin n
  <2> SUFFICES ASSUME NEW m \in Mode PROVE Whole(s.jobs[m], s.incense[m], m, n \cup {j}, r, t)
    BY DEF Sound
  <2> DEFINE ledger == s.incense[m]
             job == s.jobs[m]
  <2>1. Whole(job, ledger, m, n, r, t) /\ (m = j.mode => job = j)
    BY <1>2 DEF Sound
  <2> HIDE DEF ledger, job
  <2>2. m = j.mode => j.id \notin ledger.counted
    BY <2>1 DEF Whole, Shape
  <2>3. \A d : /\ Booked(ledger, m, n \cup {j}, d) = Booked(ledger, m, n, d)
               /\ BookedToday(ledger, m, n \cup {j}, d) = BookedToday(ledger, m, n, d)
    BY <2>2 DEF Booked, BookedToday
  <2>4. Summed(ledger, m, n \cup {j}, r)
    BY <2>1, <2>3 DEF Whole, Summed
  <2>5. Backed(ledger, m, n \cup {j}, r) /\ Held(job, ledger, m, n \cup {j}, t) /\ Closed(job, m, n \cup {j})
    BY <2>1 DEF Whole, Backed, Held, Closed
  <2> QED BY <2>1, <2>4, <2>5 DEF Whole, ledger, job
<1> QED BY <1>1, <1>2

\* An intent that may take the place of the last one of its mode.
Fresh(j, s, n) ==
  /\ \A a \in n : a.id # j.id
  /\ s.jobs[j.mode] # NoJob =>
       /\ s.jobs[j.mode].date <= j.date
       /\ s.jobs[j.mode].date = j.date => s.jobs[j.mode].done
  /\ \A a \in n : a.mode = j.mode /\ a.kind = "closing" => a.date < j.date

\* It is written.
LEMMA SoundPrepared ==
  ASSUME NEW s \in Durable, NEW n, n \subseteq Job, \A a \in n : ~ a.done, NEW r, NEW t \in Nat,
         Sound(s, n, r, t), NEW j \in Job, ~ j.done, j.date <= t, Fresh(j, s, n),
         NEW u, u.jobs = [s.jobs EXCEPT ![j.mode] = j], u.incense = s.incense
  PROVE  Sound(u, n, r, t)
<1> SUFFICES ASSUME NEW m \in Mode PROVE Whole(u.jobs[m], u.incense[m], m, n, r, t)
  BY DEF Sound
<1> DEFINE ledger == s.incense[m]
           job == s.jobs[m]
<1>1. /\ Whole(job, ledger, m, n, r, t) /\ u.incense[m] = ledger
      /\ u.jobs[m] = IF m = j.mode THEN j ELSE job
      /\ ledger \in Ledger /\ job \in Job \cup {NoJob}
  BY DurableParts DEF Sound
<1>2. CASE m # j.mode
  BY <1>1, <1>2
<1>3. CASE m = j.mode
  <2>1. /\ \A a \in n : a.id # j.id /\ a \in Job /\ a.date \in Nat
        /\ job # NoJob => job.date <= j.date /\ (job.date = j.date => job.done) /\ job.date \in Nat
        /\ \A a \in n : a.mode = m /\ a.kind = "closing" => a.date < j.date
        /\ j.id >= 1 /\ j.date \in Nat /\ ledger.date \in Nat /\ NoJob.id = 0
    <3>1. \A a \in n : a.id # j.id /\ a \in Job /\ a.date \in Nat
      BY DEF Fresh, Job
    <3>2. job # NoJob => job.date <= j.date /\ (job.date = j.date => job.done) /\ job.date \in Nat
      BY <1>1, <1>3 DEF Fresh, Job
    <3>3. \A a \in n : a.mode = m /\ a.kind = "closing" => a.date < j.date
      BY <1>3 DEF Fresh
    <3>4. j.id >= 1 /\ j.date \in Nat /\ ledger.date \in Nat /\ NoJob.id = 0
      BY <1>1 DEF Job, Ledger, NoJob
    <3> QED BY <3>1, <3>2, <3>3, <3>4
  <2> HIDE DEF ledger, job
  <2>2. Shape(j, ledger, m)
    <3>1. j.id \notin ledger.counted
      BY <1>1, <2>1 DEF Whole, Backed
    <3>2. ledger.date <= j.date
      BY <1>1, <2>1 DEF Whole, Shape, NoIncense
    <3> QED BY <1>3, <2>1, <3>1, <3>2 DEF Shape
  <2>3. Held(j, ledger, m, n, t)
    <3> SUFFICES ASSUME NEW a \in n, a.mode = m, a.id \notin ledger.counted PROVE a.date < t
      BY DEF Held
    <3>1. job = a \/ a.date < t
      BY <1>1 DEF Whole, Held
    <3>2. CASE job = a
      <4>1. ~ job.done /\ job # NoJob
        BY <3>2, <2>1 DEF Job, NoJob
      <4> QED BY <2>1, <3>2, <4>1
    <3> QED BY <3>1, <3>2
  <2>4. Closed(j, m, n)
    BY <2>1 DEF Closed
  <2> QED BY <1>1, <1>3, <2>2, <2>3, <2>4 DEF Whole
<1> QED BY <1>2, <1>3

\* The intent is settled: counted once, with what the authority took.
LEMMA SoundSettled ==
  ASSUME NEW s \in Durable, NEW n, n \subseteq Job, IsFiniteSet(n), \A a, b \in n : a.id = b.id => a = b,
         NEW r \in Receipts, NEW t, Sound(s, n, r, t),
         NEW j \in n, s.jobs[j.mode] = j, ~ j.done, r[j.id] # NoReceipt
  PROVE  Sound(Settle(s, j, r[j.id]), n, r, t)
<1> DEFINE u == Settle(s, j, r[j.id])
           new == Counted(s.incense[j.mode], j, r[j.id])
<1>1. /\ j \in Job /\ u.jobs = [s.jobs EXCEPT ![j.mode] = DoneJob(j)]
      /\ u.incense = [s.incense EXCEPT ![j.mode] = new]
  BY SettleIs
<1> SUFFICES ASSUME NEW m \in Mode PROVE Whole(u.jobs[m], u.incense[m], m, n, r, t)
  BY DEF Sound
<1> DEFINE ledger == s.incense[m]
<1>2. /\ Whole(s.jobs[m], ledger, m, n, r, t) /\ ledger \in Ledger
      /\ u.jobs[m] = IF m = j.mode THEN DoneJob(j) ELSE s.jobs[m]
      /\ u.incense[m] = IF m = j.mode THEN new ELSE ledger
  <2> HIDE DEF u, new
  <2> QED BY <1>1, DurableParts DEF Sound
<1>3. CASE m # j.mode
  <2> HIDE DEF u, new, ledger
  <2> QED BY <1>2, <1>3
<1>4. CASE m = j.mode
  <2>1. new = Counted(ledger, j, r[j.id])
    BY <1>4
  <2>2. Whole(j, ledger, m, n, r, t) /\ j # NoJob /\ j.id \notin ledger.counted /\ ledger.date <= j.date
    BY <1>1, <1>2, <1>4 DEF Whole, Shape, Job, NoJob
  <2>3. /\ new.date = j.date /\ new.counted = ledger.counted \cup {j.id}
        /\ j.date \in Nat /\ ledger.date \in Nat /\ \A a \in n : a.date \in Nat /\ a \in Job
    BY <1>1, <1>2, <2>1 DEF Counted, Job, Ledger
  <2>4. /\ DoneJob(j) # NoJob /\ DoneJob(j).mode = m /\ DoneJob(j).id = j.id /\ DoneJob(j).done
        /\ DoneJob(j).date = j.date
    BY <1>1, <1>4, DoneJobOK DEF Job, NoJob
  <2> HIDE DEF u, new, ledger
  <2>5. Shape(DoneJob(j), new, m)
    BY <2>3, <2>4 DEF Shape
  <2>6. Backed(new, m, n, r)
    <3> SUFFICES ASSUME NEW i \in new.counted
                 PROVE  \E a \in n : a.id = i /\ a.mode = m /\ r[i] # NoReceipt /\ a.date <= new.date
      BY DEF Backed
    <3>1. CASE i = j.id
      BY <1>4, <2>3, <3>1
    <3>2. CASE i # j.id
      <4>1. PICK a \in n : a.id = i /\ a.mode = m /\ r[i] # NoReceipt /\ a.date <= ledger.date
        BY <2>2, <2>3, <3>2 DEF Whole, Backed
      <4>2. a.date <= new.date
        BY <2>2, <2>3, <4>1
      <4> QED BY <4>1, <4>2
    <3> QED BY <3>1, <3>2
  <2>7. Held(DoneJob(j), new, m, n, t)
    BY <2>2, <2>3 DEF Whole, Held
  <2>8. Closed(DoneJob(j), m, n)
    BY <2>2, <2>4 DEF Whole, Closed
  <2>9. Summed(new, m, n, r)
    <3> SUFFICES ASSUME NEW d \in Direction
                 PROVE  /\ new.lifetime[d] = Total(Booked(new, m, n, d), r)
                        /\ new.today[d] = Total(BookedToday(new, m, n, d), r)
      BY DEF Summed
    <3>1. /\ ledger.lifetime[d] = Total(Booked(ledger, m, n, d), r)
          /\ ledger.today[d] = Total(BookedToday(ledger, m, n, d), r)
      BY <2>2 DEF Whole, Summed
    <3>2. ledger.lifetime \in Tally /\ ledger.today \in Tally /\ j.voteType \in Direction /\ NoTally \in Tally
      BY <1>1, <1>2 DEF Ledger, Job, NoTally, Tally
    <3>3. PICK base : base = IF ledger.date = j.date THEN ledger.today ELSE NoTally
      OBVIOUS
    <3>4. /\ new.lifetime = [ledger.lifetime EXCEPT ![j.voteType] = @ + r[j.id]]
          /\ new.today = [base EXCEPT ![j.voteType] = @ + r[j.id]]
      BY <2>1, <3>3 DEF Counted
    <3>5. base[d] = Total({a \in Booked(ledger, m, n, d) : a.date = j.date}, r)
      <4>1. CASE ledger.date = j.date
        <5>1. BookedToday(ledger, m, n, d) = {a \in Booked(ledger, m, n, d) : a.date = j.date}
          BY <4>1 DEF BookedToday
        <5> QED BY <3>1, <3>3, <4>1, <5>1
      <4>2. CASE ledger.date # j.date
        <5>1. ASSUME NEW a \in Booked(ledger, m, n, d), a.date = j.date PROVE FALSE
          <6>1. a \in n /\ a.id \in ledger.counted
            BY DEF Booked
          <6>2. PICK b \in n : b.id = a.id /\ b.date <= ledger.date
            BY <6>1, <2>2 DEF Whole, Backed
          <6>3. b = a
            BY <6>1, <6>2
          <6> QED BY <2>2, <2>3, <4>2, <5>1, <6>2, <6>3
        <5>2. {a \in Booked(ledger, m, n, d) : a.date = j.date} = {}
          BY <5>1
        <5>3. base[d] = 0
          BY <3>3, <4>2 DEF NoTally
        <5> QED BY <5>2, <5>3, TotalEmpty
      <4> QED BY <4>1, <4>2
    <3>6. CASE d # j.voteType
      <4>1. /\ Booked(new, m, n, d) = Booked(ledger, m, n, d)
            /\ BookedToday(new, m, n, d) = {a \in Booked(ledger, m, n, d) : a.date = j.date}
        BY <2>3, <3>6 DEF Booked, BookedToday
      <4>2. new.lifetime[d] = ledger.lifetime[d] /\ new.today[d] = base[d]
        BY <3>2, <3>3, <3>4, <3>6 DEF Tally
      <4> QED BY <3>1, <3>5, <4>1, <4>2
    <3>7. CASE d = j.voteType
      <4> DEFINE all == Booked(ledger, m, n, d)
                 sameday == {a \in all : a.date = j.date}
      <4>1. Booked(new, m, n, d) = all \cup {j} /\ BookedToday(new, m, n, d) = sameday \cup {j}
        BY <1>4, <2>3, <3>7 DEF Booked, BookedToday
      <4>2. /\ all \subseteq Job /\ IsFiniteSet(all) /\ j \notin all
            /\ sameday \subseteq Job /\ IsFiniteSet(sameday) /\ j \notin sameday
        <5>1. all \subseteq Job /\ IsFiniteSet(all)
          BY BookedIn
        <5>2. IsFiniteSet(sameday)
          BY <5>1, FS_Subset
        <5> QED BY <5>1, <5>2, <2>2 DEF Booked
      <4> HIDE DEF all, sameday
      <4>3. /\ Total(all \cup {j}, r) = Total(all, r) + r[j.id]
            /\ Total(sameday \cup {j}, r) = Total(sameday, r) + r[j.id]
        <5>0. j \in Job
          BY <1>1
        <5>1. Total(all \cup {j}, r) = Total(all, r) + r[j.id]
          BY <5>0, <4>2, TotalAdd
        <5>2. Total(sameday \cup {j}, r) = Total(sameday, r) + r[j.id]
          BY <5>0, <4>2, TotalAdd
        <5> QED BY <5>1, <5>2
      <4>4. new.lifetime[d] = ledger.lifetime[d] + r[j.id] /\ new.today[d] = base[d] + r[j.id]
        BY <3>2, <3>3, <3>4, <3>7 DEF Tally
      <4>5. ledger.lifetime[d] = Total(all, r) /\ base[d] = Total(sameday, r)
        BY <3>1, <3>5 DEF all, sameday
      <4> QED BY <4>1, <4>3, <4>4, <4>5
    <3> QED BY <3>6, <3>7
  <2> QED BY <1>2, <1>4, <2>5, <2>6, <2>7, <2>8, <2>9 DEF Whole
<1> QED BY <1>3, <1>4
-----------------------------------------------------------------------------
(* The invariant.  An intent is known from the moment the task prepares it; *)
(* one id is one intent, and both durable states are sound, though the disk *)
(* may be ahead of the memory when a write was reported failed.             *)

Plain(j) == [j EXCEPT !.done = FALSE]
Kept(s)  == {Plain(s.jobs[m]) : m \in {m \in Mode : s.jobs[m] # NoJob}}
Intents  == net \cup Kept(disk) \cup Kept(state) \cup ({run.job} \ {NoJob})

OneIntent ==
  /\ \A a, b \in Intents : a.id = b.id => a = b
  /\ \A a \in Intents : a.id <= used.jobs /\ a.date <= day /\ ~ a.done

\* The day's unsettled intent is on disk before it is sent.
OnDisk == \A m \in Mode :
  state.jobs[m] # NoJob /\ ~ state.jobs[m].done /\ state.jobs[m].date = day /\ state.jobs[m] \notin net
    => disk.jobs[m] = state.jobs[m]

TaskOK ==
  /\ run.pc \in Carries => run.job.mode = run.at.slot.mode /\ run.job.date = run.at.date
  /\ run.pc = "saving" => Fresh(run.job, state, net)
  /\ run.pc \in {"prepared", "voting", "completing"} => state.jobs[run.job.mode] = run.job
  /\ run.pc \in {"voting", "completing"} => run.job \in net

BooksOK == Sound(disk, net, receipt, day) /\ Sound(state, net, receipt, day)

Data == OneIntent /\ BooksOK /\ OnDisk /\ QueueOK /\ TaskOK

LEMMA PlainOK ==
  /\ \A j \in Job : /\ Plain(j) \in Job /\ Plain(j).id = j.id /\ Plain(j).date = j.date
                    /\ Plain(j).mode = j.mode /\ Plain(j).kind = j.kind /\ ~ Plain(j).done
                    /\ Plain(DoneJob(j)) = Plain(j)
  /\ \A j \in Job : ~ j.done => Plain(j) = j
<1>1. ASSUME NEW j \in Job
      PROVE  /\ Plain(j) \in Job /\ Plain(j).id = j.id /\ Plain(j).date = j.date
             /\ Plain(j).mode = j.mode /\ Plain(j).kind = j.kind /\ ~ Plain(j).done
  BY DEF Plain, Job
<1>2. ASSUME NEW j \in Job PROVE Plain(DoneJob(j)) = Plain(j)
  BY DEF Plain, DoneJob, Job
<1>3. ASSUME NEW j \in Job, ~ j.done PROVE Plain(j) = j
  BY <1>3 DEF Plain, Job
<1> QED BY <1>1, <1>2, <1>3

LEMMA KeptIn == ASSUME NEW s \in Durable PROVE Kept(s) \subseteq Job
BY PlainOK, DurableParts DEF Kept

LEMMA IntentsIn == ASSUME Types PROVE Intents \subseteq Job
BY KeptIn DEF Types, Intents, NetOK, DurablesOK, RunOK

LEMMA KeptJobs ==
  ASSUME Types, Data, NEW s \in {disk, state}, NEW m \in Mode, s.jobs[m] # NoJob
  PROVE  /\ s.jobs[m] \in Job /\ s.jobs[m].mode = m /\ s.jobs[m].date <= day
         /\ Plain(s.jobs[m]) \in Intents
<1>1. s \in Durable /\ s.jobs[m] \in Job
  BY DurableParts DEF Types, DurablesOK
<1>2. Plain(s.jobs[m]) \in Intents
  BY <1>1 DEF Intents, Kept
<1>3. s.jobs[m].mode = m
  BY DEF Data, BooksOK, Sound, Whole, Shape
<1> QED BY <1>1, <1>2, <1>3, PlainOK DEF Data, OneIntent

\* Nothing new is known.
LEMMA IntentsKept ==
  ASSUME Types, Types', OneIntent, Intents' \subseteq Intents, used'.jobs >= used.jobs, day' >= day
  PROVE  OneIntent'
<1>1. \A a \in Intents : a.id \in Nat /\ a.date \in Nat
  BY IntentsIn DEF Job
<1>2. used.jobs \in Nat /\ used'.jobs \in Nat /\ day \in Nat /\ day' \in Nat
  BY DEF Types, UsedOK, ClockOK, Acts
<1> QED BY <1>1, <1>2 DEF OneIntent

LEMMA HeadIsFirst ==
  ASSUME Types, saves # <<>>
  PROVE  1 \in DOMAIN saves /\ Head(saves) = saves[1] /\ Head(saves) \in Writes
BY DEF Types, SavesOK

\* The queue when only the receipts or the task change.
LEMMA QueueKept ==
  ASSUME Types, QueueOK, UNCHANGED <<saves, disk, state>>,
         \/ UNCHANGED run
         \/ run.pc \notin {"saving", "completing"},
         \A i \in 1 .. MaxJobs : receipt[i] # NoReceipt => receipt'[i] = receipt[i]
  PROVE  QueueOK'
<1>1. run.pc = "completing" => run.job.id \in 1 .. MaxJobs
  BY DEF Types, RunOK, Carries, Job
<1> QED BY <1>1 DEF QueueOK, Types, SavesOK

LEMMA DataQueue ==
  ASSUME Types, Types', Data, UNCHANGED <<day, receipt, net, disk, state, run>>, used'.jobs = used.jobs,
         QueueOK'
  PROVE  Data'
<1>2. Intents' = Intents /\ used'.jobs >= used.jobs /\ day' >= day
  BY DEF Intents, Kept, Types, UsedOK, ClockOK, Acts
<1>3. OneIntent'
  BY <1>2, IntentsKept DEF Data
<1> QED BY <1>3 DEF Data, BooksOK, OnDisk, TaskOK

LEMMA DataFrame ==
  ASSUME Types, Types', Data, UNCHANGED <<day, receipt, net, disk, state, saves, run>>, used'.jobs = used.jobs
  PROVE  Data'
<1>1. QueueOK'
  BY QueueKept DEF Data
<1> QED BY <1>1, DataQueue

\* The task gives up, or has not yet prepared anything.
LEMMA DataFree ==
  ASSUME Types, Types', Data, UNCHANGED <<day, receipt, net, disk, state>>, used'.jobs = used.jobs,
         run'.pc \notin Carries, QueueOK'
  PROVE  Data'
<1>1. run'.job = NoJob
  BY DEF Types, RunOK
<1>2. Intents' \subseteq Intents /\ used'.jobs >= used.jobs /\ day' >= day
  BY <1>1 DEF Intents, Kept, Types, UsedOK, ClockOK, Acts
<1>3. OneIntent'
  BY <1>2, IntentsKept DEF Data
<1>4. TaskOK'
  BY DEF TaskOK, Carries
<1> QED BY <1>3, <1>4 DEF Data, BooksOK, OnDisk

LEMMA TaskEnds ==
  ASSUME Types, Types', Data, UNCHANGED <<day, receipt, net, disk, state, saves>>, used'.jobs = used.jobs,
         run.pc \notin {"saving", "completing"}, run'.pc \notin Carries
  PROVE  Data'
<1>1. QueueOK'
  BY QueueKept DEF Data
<1> QED BY <1>1, DataFree

LEMMA QueueIdle ==
  ASSUME Types, QueueOK, run.pc \notin {"saving", "completing"}
  PROVE  \A i \in DOMAIN saves : ~ Work(saves[i])
<1>1. \A i \in DOMAIN saves : saves[i] \in Writes
  BY DEF Types, SavesOK
<1>2. \A x \in Writes : x.what \in {"preferences", "prepared", "completed"}
  BY DEF Writes
<1> QED BY <1>1, <1>2 DEF QueueOK, Work

\* A write joins the queue; only one of them may be the task's.
LEMMA QueueGrows ==
  ASSUME Types, QueueOK, NEW x \in Writes, ~ x.written, saves' = Append(saves, x),
         UNCHANGED <<disk, state, receipt>>,
         UNCHANGED run \/ run.pc \notin {"saving", "completing"},
         Work(x) => run.pc \notin {"saving", "completing"},
         x.what = "prepared" => run'.pc = "saving" /\ x.job = run'.job,
         x.what = "completed" =>
           run'.pc = "completing" /\ x.job = run'.job /\ x.spent = receipt[run'.job.id] /\ x.spent # NoReceipt
  PROVE  QueueOK'
<1>1. /\ DOMAIN saves = 1 .. Len(saves) /\ DOMAIN saves' = 1 .. Len(saves) + 1 /\ Len(saves) \in Nat
      /\ \A i \in 1 .. Len(saves) : saves'[i] = saves[i]
      /\ saves'[Len(saves) + 1] = x
  BY AppendProperties DEF Types, SavesOK
<1>2. saves # <<>> => Head(saves') = Head(saves)
  BY <1>1, HeadIsFirst, AppendProperties DEF Types, SavesOK
<1>3. saves = <<>> => Head(saves') = x
  BY DEF Types, SavesOK
<1>4. ~ UNCHANGED run \/ Work(x) => \A i \in DOMAIN saves : ~ Work(saves[i])
  BY QueueIdle
<1>5. \A i \in DOMAIN saves' : saves'[i].written => i = 1
  BY <1>1 DEF QueueOK
<1>6. saves' # <<>> /\ Head(saves').written => disk' = Change(state', Head(saves'))
  BY <1>2, <1>3 DEF QueueOK
<1>7. \A i, k \in DOMAIN saves' : Work(saves'[i]) /\ Work(saves'[k]) => i = k
  BY <1>1, <1>4 DEF QueueOK
<1>8. ASSUME NEW i \in DOMAIN saves'
      PROVE  /\ saves'[i].what = "prepared" => run'.pc = "saving" /\ saves'[i].job = run'.job
             /\ saves'[i].what = "completed" =>
                  /\ run'.pc = "completing" /\ saves'[i].job = run'.job
                  /\ saves'[i].spent = receipt'[run'.job.id] /\ saves'[i].spent # NoReceipt
  <2>1. CASE i = Len(saves) + 1
    BY <1>1, <2>1
  <2>2. CASE i \in DOMAIN saves
    <3>1. saves'[i] = saves[i]
      BY <1>1, <2>2
    <3>2. CASE UNCHANGED run
      BY <2>2, <3>1, <3>2 DEF QueueOK
    <3>3. CASE ~ UNCHANGED run
      BY <1>4, <2>2, <3>1, <3>3 DEF Work
    <3> QED BY <3>2, <3>3
  <2> QED BY <1>1, <2>1, <2>2
<1> QED BY <1>5, <1>6, <1>7, <1>8 DEF QueueOK

\* The head leaves the queue, and with it the task's write if it was that.
LEMMA QueueShrinks ==
  ASSUME Types, QueueOK, saves # <<>>, saves' = Tail(saves), UNCHANGED receipt,
         UNCHANGED run \/ Work(Head(saves))
  PROVE  QueueOK'
<1>1. /\ DOMAIN saves = 1 .. Len(saves) /\ Len(saves) \in Nat \ {0} /\ Head(saves) = saves[1]
      /\ DOMAIN saves' = 1 .. Len(saves) - 1
      /\ \A i \in 1 .. Len(saves) - 1 : saves'[i] = saves[i + 1]
      /\ saves' # <<>> => Head(saves') = saves'[1] /\ 1 \in DOMAIN saves'
  <2>1. /\ DOMAIN saves = 1 .. Len(saves) /\ Len(saves) \in Nat \ {0} /\ Head(saves) = saves[1]
        /\ saves' \in Seq(Writes) /\ Len(saves') = Len(saves) - 1
        /\ \A i \in 1 .. Len(saves) - 1 : saves'[i] = saves[i + 1]
    BY HeadTailProperties DEF Types, SavesOK
  <2> QED BY <2>1
<1>2. \A i \in DOMAIN saves' : i + 1 \in DOMAIN saves /\ saves'[i] = saves[i + 1] /\ i + 1 # 1
  BY <1>1
<1>3. \A i \in DOMAIN saves' : ~ saves'[i].written
  BY <1>2 DEF QueueOK
<1>4. saves' # <<>> => ~ Head(saves').written
  BY <1>1, <1>3
<1>5. \A i, k \in DOMAIN saves' : Work(saves'[i]) /\ Work(saves'[k]) => i = k
  <2> SUFFICES ASSUME NEW i \in DOMAIN saves', NEW k \in DOMAIN saves', Work(saves'[i]), Work(saves'[k])
               PROVE  i = k
    OBVIOUS
  <2>1. i + 1 = k + 1
    BY <1>2 DEF QueueOK
  <2> QED BY <1>1, <2>1
<1>6. ASSUME NEW i \in DOMAIN saves', Work(saves'[i])
      PROVE  UNCHANGED run
  <2>1. ~ Work(Head(saves))
    BY <1>1, <1>2, <1>6 DEF QueueOK
  <2> QED BY <2>1
<1>7. ASSUME NEW i \in DOMAIN saves'
      PROVE  /\ saves'[i].what = "prepared" => run'.pc = "saving" /\ saves'[i].job = run'.job
             /\ saves'[i].what = "completed" =>
                  /\ run'.pc = "completing" /\ saves'[i].job = run'.job
                  /\ saves'[i].spent = receipt'[run'.job.id] /\ saves'[i].spent # NoReceipt
  BY <1>2, <1>6 DEF QueueOK, Work
<1> QED BY <1>3, <1>4, <1>5, <1>7 DEF QueueOK

LEMMA DataInit == Init => Data
<1> SUFFICES ASSUME Init PROVE Data
  OBVIOUS
<1>1. BooksOK
  BY SoundNothing DEF Init, BooksOK
<1>2. Intents = {}
  BY DEF Init, Intents, Kept, Default, Idle
<1>3. OnDisk
  BY DEF Init, OnDisk
<1>4. QueueOK
  BY DEF Init, QueueOK
<1>5. TaskOK
  BY DEF Init, TaskOK, Idle, Carries
<1> QED BY <1>1, <1>2, <1>3, <1>4, <1>5 DEF Data, OneIntent

LEMMA WorldData ==
  ASSUME Types, Types', Data, World, ~ Restart
  PROVE  Data'
<1>1. UNCHANGED <<disk, state, saves, run, net, used>>
  BY DEF World, Later, NewDay, NewCase, Earn, Decide, host, settings, work
<1>2. CASE NewDay
  <2>1. day' = day + 1 /\ day \in Nat /\ day' \in Nat /\ UNCHANGED receipt
    BY <1>2 DEF NewDay, Types, ClockOK
  <2>2. BooksOK'
    <3>1. Sound(disk, net, receipt, day') /\ Sound(state, net, receipt, day')
      BY <2>1, SoundLater DEF Data, BooksOK, Types, NetOK
    <3> QED BY <1>1, <2>1, <3>1 DEF BooksOK
  <2>3. OnDisk'
    <3>1. \A m \in Mode : state.jobs[m] # NoJob => state.jobs[m].date \in Nat /\ state.jobs[m].date <= day
      BY KeptJobs DEF Job
    <3>2. \A m \in Mode : state.jobs[m] # NoJob => state.jobs[m].date # day'
      BY <2>1, <3>1
    <3> QED BY <1>1, <3>2 DEF OnDisk
  <2>4. OneIntent'
    <3>1. Intents' = Intents /\ used'.jobs >= used.jobs
      BY <1>1 DEF Intents, Kept, Types, UsedOK, Acts
    <3> QED BY <2>1, <3>1, IntentsKept DEF Data
  <2>5. QueueOK'
    BY <1>1, <2>1, QueueKept DEF Data
  <2>6. TaskOK'
    BY <1>1 DEF TaskOK, Data
  <2> QED BY <2>2, <2>3, <2>4, <2>5, <2>6 DEF Data
<1>3. ASSUME NEW j \in net, Decide(j) PROVE Data'
  <2>1. j \in Job /\ j.id \in 1 .. MaxJobs /\ day' = day
    BY <1>3 DEF Types, NetOK, Job, Decide, clock
  <2>2. PICK n \in 0 .. MaxCount : receipt' = [receipt EXCEPT ![j.id] = n] /\ receipt[j.id] = NoReceipt
    BY <1>3, <2>1, RuleOK DEF Decide
  <2>3. BooksOK'
    <3>1. receipt \in Receipts /\ net \subseteq Job /\ IsFiniteSet(net)
      BY DEF Types, ReceiptsOK, Receipts, NetOK
    <3>2. Sound(disk, net, receipt', day) /\ Sound(state, net, receipt', day)
      BY <2>1, <2>2, <3>1, SoundDecided DEF Data, BooksOK
    <3> QED BY <1>1, <2>1, <3>2 DEF BooksOK
  <2>4. QueueOK'
    BY <1>1, <2>1, <2>2, QueueKept DEF Data, Types, ReceiptsOK
  <2>5. OneIntent'
    <3>1. Intents' = Intents /\ used'.jobs >= used.jobs /\ day' >= day
      BY <1>1, <2>1 DEF Intents, Kept, Types, UsedOK, ClockOK, Acts
    <3> QED BY <3>1, IntentsKept DEF Data
  <2>6. OnDisk' /\ TaskOK'
    BY <1>1, <2>1 DEF OnDisk, TaskOK, Data
  <2> QED BY <2>3, <2>4, <2>5, <2>6 DEF Data
<1>4. CASE Later \/ \E m \in Mode : NewCase(m) \/ Earn(m)
  BY <1>1, <1>4, DataFrame DEF Later, NewCase, Earn, clock
<1> QED BY <1>2, <1>3, <1>4 DEF World

LEMMA RestartData ==
  ASSUME Types, Types', Data, Restart
  PROVE  Data'
<1>1. state' = disk /\ disk' = disk /\ saves' = <<>> /\ run' = Idle /\ UNCHANGED <<day, receipt, net>>
  BY DEF Restart, authority, clock
<1>2. BooksOK'
  BY <1>1 DEF Data, BooksOK
<1>3. OneIntent'
  <2>1. Intents' \subseteq Intents
    BY <1>1 DEF Intents, Kept, Idle
  <2>2. used'.jobs >= used.jobs /\ day' >= day
    BY <1>1, UsedMore DEF Restart, Types, UsedOK, ClockOK, Acts
  <2> QED BY <2>1, <2>2, IntentsKept DEF Data
<1>4. OnDisk'
  BY <1>1 DEF OnDisk
<1>5. QueueOK'
  BY <1>1 DEF QueueOK
<1>6. TaskOK'
  BY <1>1 DEF TaskOK, Idle, Carries
<1> QED BY <1>2, <1>3, <1>4, <1>5, <1>6 DEF Data

\* The user's changes of the settings wait in the queue like the task's.
LEMMA UserData ==
  ASSUME Types, Types', Data, User
  PROVE  Data'
<1>1. UNCHANGED <<day, receipt, net, disk, state, run>> /\ used'.jobs = used.jobs
  BY UsedMore DEF User, Vote, NoteManualGesture, BeginSwitch, SetDayEndPreferences, authority, clock,
     settings, work, Acts
<1>2. CASE UNCHANGED saves
  BY <1>1, <1>2, DataFrame
<1>3. ASSUME NEW on \in BOOLEAN, NEW d \in Choice, SetDayEndPreferences(on, d) PROVE Data'
  <2> DEFINE x == Preferences(on, d)
  <2>1. x \in Writes /\ x.what = "preferences" /\ ~ x.written /\ saves' = Append(saves, x)
    BY <1>3, TimedAssumption DEF SetDayEndPreferences, Preferences, Writes, Direction
  <2> HIDE DEF x
  <2>2. QueueOK'
    BY <1>1, <2>1, QueueGrows DEF Data, Work
  <2> QED BY <1>1, <2>2, DataQueue
<1> QED BY <1>2, <1>3 DEF User, Vote, NoteManualGesture, BeginSwitch, settings
-----------------------------------------------------------------------------
(* The steps of the Host. *)

\* How far a write has come does not change what it writes.
LEMMA MarkedSame ==
  ASSUME NEW s, NEW x \in Writes, NEW y, y = [x EXCEPT !.written = TRUE]
  PROVE  Change(s, y) = Change(s, x) /\ y.what = x.what
                        /\ (Work(x) => y.job = x.job) /\ (x.what = "completed" => y.spent = x.spent)
<1>1. CASE x.what = "preferences"
  <2>1. y.what = x.what /\ y.enabled = x.enabled /\ y.voteType = x.voteType
    BY <1>1 DEF Writes
  <2> QED BY <1>1, <2>1 DEF Change, Work
<1>2. CASE x.what = "prepared"
  <2>1. y.what = x.what /\ y.job = x.job
    BY <1>2 DEF Writes
  <2> QED BY <1>2, <2>1 DEF Change
<1>3. CASE x.what = "completed"
  <2>1. y.what = x.what /\ y.job = x.job /\ y.spent = x.spent
    BY <1>3 DEF Writes
  <2> QED BY <1>3, <2>1 DEF Change
<1> QED BY <1>1, <1>2, <1>3 DEF Writes

\* What the write at the head makes of the memory.
LEMMA HeadWrites ==
  ASSUME Types, Data, saves # <<>>
  PROVE  LET x == Head(saves)
             u == Change(state, x) IN
         /\ x \in Writes /\ x.what \in {"preferences", "prepared", "completed"}
         /\ x.what = "preferences" => u.jobs = state.jobs /\ u.incense = state.incense
         /\ x.what = "prepared" =>
              /\ run.pc = "saving" /\ run.job \in Job /\ run.job \in Intents
              /\ u.jobs = [state.jobs EXCEPT ![run.job.mode] = run.job] /\ u.incense = state.incense
         /\ x.what = "completed" =>
              /\ run.pc = "completing" /\ run.job \in net /\ state.jobs[run.job.mode] = run.job
              /\ run.job \in Job /\ ~ run.job.done /\ receipt[run.job.id] # NoReceipt
              /\ u = Settle(state, run.job, receipt[run.job.id])
              /\ u.jobs = [state.jobs EXCEPT ![run.job.mode] = DoneJob(run.job)]
<1> DEFINE x == Head(saves)
           u == Change(state, x)
<1>1. x \in Writes /\ 1 \in DOMAIN saves /\ x = saves[1] /\ state \in Durable
  BY HeadIsFirst DEF Types, DurablesOK
<1> HIDE DEF x
<1>2. x.what \in {"preferences", "prepared", "completed"}
  BY <1>1 DEF Writes
<1>3. CASE x.what = "preferences"
  <2>1. u.jobs = state.jobs /\ u.incense = state.incense
    BY <1>1, <1>3 DEF Change, Durable
  <2> QED BY <1>1, <1>3, <2>1 DEF x
<1>4. CASE x.what = "prepared"
  <2>1. run.pc = "saving" /\ x.job = run.job
    BY <1>1, <1>4 DEF Data, QueueOK
  <2>2. run.job \in Job /\ run.job # NoJob
    BY <2>1 DEF Types, RunOK, Carries, Job, NoJob
  <2>3. u = [state EXCEPT !.jobs[run.job.mode] = run.job]
    BY <1>4, <2>1 DEF Change
  <2>4. u.jobs = [state.jobs EXCEPT ![run.job.mode] = run.job] /\ u.incense = state.incense
    BY <1>1, <2>3, Fields
  <2> QED BY <1>1, <1>4, <2>1, <2>2, <2>4 DEF x, Intents
<1>5. CASE x.what = "completed"
  <2>1. run.pc = "completing" /\ x.job = run.job /\ x.spent = receipt[run.job.id] /\ x.spent # NoReceipt
    BY <1>1, <1>5 DEF Data, QueueOK
  <2>2. run.job \in net /\ state.jobs[run.job.mode] = run.job /\ run.job \in Job
    BY <2>1 DEF Data, TaskOK, Types, RunOK, Carries
  <2>3. ~ run.job.done
    BY <2>2 DEF Data, OneIntent, Intents
  <2>4. u = Settle(state, run.job, receipt[run.job.id])
    BY <1>5, <2>1 DEF Change
  <2>5. u.jobs = [state.jobs EXCEPT ![run.job.mode] = DoneJob(run.job)]
    <3> HIDE DEF u
    <3>1. state.jobs[run.job.mode].id = run.job.id /\ ~ state.jobs[run.job.mode].done
      BY <2>2, <2>3
    <3>2. \A n : Settle(state, run.job, n).jobs = [state.jobs EXCEPT ![run.job.mode] = DoneJob(run.job)]
      BY <1>1, <2>2, <3>1, SettleIs
    <3> QED BY <2>4, <3>2
  <2> QED BY <1>1, <1>5, <2>1, <2>2, <2>3, <2>4, <2>5 DEF x
<1> QED BY <1>1, <1>2, <1>3, <1>4, <1>5 DEF x

\* The disk may take the place of the memory: what the write makes of it is sound.
LEMMA WriteData ==
  ASSUME Types, Types', Data, WriteReachesDisk
  PROVE  Data'
<1> DEFINE x == Head(saves)
           u == Change(state, x)
<1>1. /\ saves # <<>> /\ disk' = u /\ saves' = [saves EXCEPT ![1].written = TRUE]
      /\ UNCHANGED <<day, receipt, net, state, run, used>>
  BY DEF WriteReachesDisk, authority, clock, work
<1>2. /\ x \in Writes /\ x.what \in {"preferences", "prepared", "completed"}
      /\ state \in Durable /\ net \subseteq Job /\ IsFiniteSet(net) /\ receipt \in Receipts
      /\ \A a \in net : ~ a.done
  BY <1>1, HeadWrites DEF Types, DurablesOK, NetOK, ReceiptsOK, Receipts, Data, OneIntent, Intents
<1>3. x.what = "preferences" => u.jobs = state.jobs /\ u.incense = state.incense
  BY <1>1, HeadWrites
<1>4. x.what = "prepared" =>
        /\ run.pc = "saving" /\ run.job \in Job /\ run.job \in Intents
        /\ u.jobs = [state.jobs EXCEPT ![run.job.mode] = run.job] /\ u.incense = state.incense
        /\ Fresh(run.job, state, net) /\ ~ run.job.done /\ run.job.date <= day
  BY <1>1, HeadWrites DEF Data, TaskOK, OneIntent
<1>5. x.what = "completed" =>
        /\ run.job \in net /\ state.jobs[run.job.mode] = run.job
        /\ run.job \in Job /\ ~ run.job.done /\ receipt[run.job.id] # NoReceipt
        /\ u = Settle(state, run.job, receipt[run.job.id])
        /\ u.jobs = [state.jobs EXCEPT ![run.job.mode] = DoneJob(run.job)]
  BY <1>1, HeadWrites
<1> HIDE DEF x, u
<1>6. Sound(state, net, receipt, day) /\ day \in Nat
  BY DEF Data, BooksOK, Types, ClockOK
<1>7. \A m \in Mode : state.jobs[m] \in Job \cup {NoJob}
  BY <1>2, DurableParts
<1>8. BooksOK'
  <2>1. CASE x.what = "preferences"
    BY <1>1, <1>3, <1>6, <2>1 DEF BooksOK, Sound
  <2>2. CASE x.what = "prepared"
    <3>1. Sound(u, net, receipt, day)
      BY <1>2, <1>4, <1>6, <2>2, SoundPrepared
    <3> QED BY <1>1, <1>6, <3>1 DEF BooksOK
  <2>3. CASE x.what = "completed"
    <3>1. \A a, b \in net : a.id = b.id => a = b
      BY DEF Data, OneIntent, Intents
    <3>2. Sound(Settle(state, run.job, receipt[run.job.id]), net, receipt, day)
      BY <1>2, <1>5, <1>6, <2>3, <3>1, SoundSettled
    <3> QED BY <1>1, <1>5, <1>6, <2>3, <3>2 DEF BooksOK
  <2> QED BY <1>2, <2>1, <2>2, <2>3
<1>9. OneIntent'
  <2>1. Kept(u) \subseteq Intents
    <3>1. CASE x.what = "preferences"
      BY <1>3, <3>1 DEF Kept, Intents
    <3>2. CASE x.what = "prepared"
      <4> SUFFICES ASSUME NEW m \in Mode, u.jobs[m] # NoJob PROVE Plain(u.jobs[m]) \in Intents
        BY DEF Kept
      <4>1. CASE m = run.job.mode
        <5>1. u.jobs[m] = run.job
          BY <1>2, <1>4, <3>2, <4>1, DurableParts
        <5> QED BY <1>4, <3>2, <5>1, PlainOK
      <4>2. CASE m # run.job.mode
        <5>1. u.jobs[m] = state.jobs[m]
          BY <1>2, <1>4, <3>2, <4>2, DurableParts
        <5> QED BY <5>1 DEF Intents, Kept
      <4> QED BY <4>1, <4>2
    <3>3. CASE x.what = "completed"
      <4> SUFFICES ASSUME NEW m \in Mode, u.jobs[m] # NoJob PROVE Plain(u.jobs[m]) \in Intents
        BY DEF Kept
      <4>1. CASE m = run.job.mode
        <5>1. u.jobs[m] = DoneJob(run.job)
          BY <1>2, <1>5, <3>3, <4>1, DurableParts
        <5>2. Plain(u.jobs[m]) = run.job
          BY <1>5, <3>3, <5>1, PlainOK
        <5> QED BY <1>5, <3>3, <5>2 DEF Intents
      <4>2. CASE m # run.job.mode
        <5>1. u.jobs[m] = state.jobs[m]
          BY <1>2, <1>5, <3>3, <4>2, DurableParts
        <5> QED BY <5>1 DEF Intents, Kept
      <4> QED BY <4>1, <4>2
    <3> QED BY <1>2, <3>1, <3>2, <3>3
  <2>2. Kept(disk)' = Kept(u) /\ Kept(state)' = Kept(state)
    BY <1>1 DEF Kept
  <2>3. Intents' \subseteq Intents
    BY <1>1, <2>1, <2>2 DEF Intents
  <2>4. used'.jobs >= used.jobs /\ day' >= day
    BY <1>1 DEF Types, UsedOK, ClockOK, Acts
  <2> QED BY <2>3, <2>4, IntentsKept DEF Data
<1>10. OnDisk'
  <2> SUFFICES ASSUME NEW m \in Mode, state.jobs[m] # NoJob, ~ state.jobs[m].done,
                      state.jobs[m].date = day, state.jobs[m] \notin net
               PROVE  u.jobs[m] = state.jobs[m]
    BY <1>1 DEF OnDisk
  <2>1. CASE x.what = "preferences"
    BY <1>3, <2>1
  <2>2. CASE x.what = "prepared"
    <3>1. m # run.job.mode
      <4> SUFFICES ASSUME m = run.job.mode PROVE FALSE
        OBVIOUS
      <4>1. state.jobs[m].date <= run.job.date /\ (state.jobs[m].date = run.job.date => state.jobs[m].done)
        BY <1>4, <2>2 DEF Fresh
      <4>2. run.job.date \in Nat /\ run.job.date <= day
        BY <1>4, <2>2 DEF Job
      <4> QED BY <1>6, <4>1, <4>2
    <3> QED BY <1>2, <1>4, <2>2, <3>1, DurableParts
  <2>3. CASE x.what = "completed"
    BY <1>2, <1>5, <2>3, DurableParts
  <2> QED BY <1>2, <2>1, <2>2, <2>3
<1>11. QueueOK'
  <2>1. /\ DOMAIN saves' = DOMAIN saves /\ 1 \in DOMAIN saves
        /\ \A i \in DOMAIN saves : i # 1 => saves'[i] = saves[i]
        /\ saves'[1] = [saves[1] EXCEPT !.written = TRUE] /\ Head(saves') = saves'[1] /\ x = saves[1]
    <3>1. saves \in Seq(Writes) /\ saves # <<>>
      BY <1>1 DEF Types, SavesOK
    <3>2. /\ saves' \in Seq(Writes) /\ Len(saves') = Len(saves)
          /\ \A i \in 1 .. Len(saves) : i # 1 => saves'[i] = saves[i]
          /\ saves'[1] = [saves[1] EXCEPT !.written = TRUE]
      BY <1>1, <3>1, MarkedOK
    <3>3. x = saves[1] /\ 1 \in DOMAIN saves
      BY <3>1 DEF x
    <3> QED BY <3>1, <3>2, <3>3
  <2>2. /\ Change(state, saves'[1]) = Change(state, x) /\ saves'[1].what = x.what
        /\ (Work(x) => saves'[1].job = x.job) /\ (x.what = "completed" => saves'[1].spent = x.spent)
    BY <1>2, <2>1, MarkedSame
  <2>3. Head(saves').written => disk' = Change(state', Head(saves'))
    BY <1>1, <2>1, <2>2 DEF u
  <2>4. \A i \in DOMAIN saves : saves'[i].written => i = 1
    BY <2>1 DEF Data, QueueOK
  <2>5. \A i \in DOMAIN saves :
          /\ saves'[i].what = saves[i].what
          /\ Work(saves[i]) => saves'[i].job = saves[i].job
          /\ saves[i].what = "completed" => saves'[i].spent = saves[i].spent
    BY <2>1, <2>2
  <2>6. \A i, k \in DOMAIN saves : Work(saves'[i]) /\ Work(saves'[k]) => i = k
    BY <2>5 DEF Data, QueueOK, Work
  <2>7. \A i \in DOMAIN saves :
       /\ saves'[i].what = "prepared" => run.pc = "saving" /\ saves'[i].job = run.job
       /\ saves'[i].what = "completed" =>
            /\ run.pc = "completing" /\ saves'[i].job = run.job
            /\ saves'[i].spent = receipt[run.job.id] /\ saves'[i].spent # NoReceipt
    BY <2>5 DEF Data, QueueOK, Work
  <2> QED BY <1>1, <2>1, <2>3, <2>4, <2>6, <2>7 DEF QueueOK
<1>12. TaskOK'
  BY <1>1 DEF TaskOK, Data
<1> QED BY <1>8, <1>9, <1>10, <1>11, <1>12 DEF Data

\* A write that returns makes memory what the disk is.
LEMMA SavedData ==
  ASSUME Types, Types', Data, SaveReturns
  PROVE  Data'
<1> DEFINE x == Head(saves)
<1>1. /\ saves # <<>> /\ x.written /\ state' = Change(state, x) /\ saves' = Tail(saves) /\ disk' = disk
      /\ UNCHANGED <<day, receipt, net, used>>
  BY DEF SaveReturns, authority, clock
<1>2. state' = disk
  BY <1>1 DEF Data, QueueOK
<1>3. x.what \in {"preferences", "prepared", "completed"}
  BY <1>1, HeadWrites
<1>4. /\ x.what = "preferences" => UNCHANGED run
      /\ x.what = "prepared" => run' = [run EXCEPT !.pc = "prepared"]
      /\ x.what = "completed" => run' = Idle
  BY DEF SaveReturns, Finish, work
<1>5. BooksOK' /\ OnDisk'
  BY <1>1, <1>2 DEF Data, BooksOK, OnDisk
<1>6. QueueOK'
  BY <1>1, <1>3, <1>4, QueueShrinks DEF Data, Work
<1>7. OneIntent'
  <2>1. run'.job = run.job \/ run'.job = NoJob
    BY <1>3, <1>4 DEF Idle, Types, RunOK
  <2>2. Intents' \subseteq Intents
    BY <1>1, <1>2, <2>1 DEF Intents, Kept
  <2>3. used'.jobs >= used.jobs /\ day' >= day
    BY <1>1 DEF Types, UsedOK, ClockOK, Acts
  <2> QED BY <2>2, <2>3, IntentsKept DEF Data
<1>8. TaskOK'
  <2>1. CASE x.what = "preferences"
    <3>1. state'.jobs = state.jobs /\ UNCHANGED <<run, net>>
      BY <1>1, <1>4, <2>1, HeadWrites
    <3> QED BY <3>1 DEF TaskOK, Data, Fresh
  <2>2. CASE x.what = "prepared"
    <3>1. run.pc = "saving" /\ run.job \in Job /\ state'.jobs = [state.jobs EXCEPT ![run.job.mode] = run.job]
      BY <1>1, <2>2, HeadWrites
    <3>2. run'.pc = "prepared" /\ run'.job = run.job /\ run'.at = run.at
      BY <1>4, <2>2 DEF Types, RunOK
    <3>3. state'.jobs[run.job.mode] = run.job
      BY <3>1, DurableParts DEF Types, DurablesOK, Job
    <3>4. run.job.mode = run.at.slot.mode /\ run.job.date = run.at.date
      BY <3>1 DEF Data, TaskOK, Carries
    <3> QED BY <3>2, <3>3, <3>4 DEF TaskOK
  <2>3. CASE x.what = "completed"
    BY <1>4, <2>3 DEF TaskOK, Idle, Carries
  <2> QED BY <1>3, <2>1, <2>2, <2>3
<1> QED BY <1>5, <1>6, <1>7, <1>8 DEF Data

LEMMA HostData ==
  ASSUME Types, Types', Data, Host
  PROVE  Data'
<1>1. UNCHANGED <<day, receipt, net, used>> /\ used'.jobs = used.jobs
  BY DEF Host, SendVote, VoteEnds, WriteReachesDisk, SaveReturns, SaveFails, RunDayEnd, StartRun, GivesUp,
         RefreshReturns, VoteReturns, VoteFails, CadenceElapses, Poll, PollFails, PollGives, QuietAgain,
         SwitchFails, UseAuthority, authority, clock
<1>2. CASE SendVote \/ VoteEnds \/ CadenceElapses \/ QuietAgain \/ SwitchFails \/ Poll \/ PollFails
           \/ \E m \in Mode : UseAuthority(m)
  <2>1. UNCHANGED <<disk, state, saves, run>>
    BY <1>2 DEF SendVote, VoteEnds, CadenceElapses, QuietAgain, SwitchFails, Poll, PollFails, PollGives,
                UseAuthority, settings, work
  <2> QED BY <1>1, <2>1, DataFrame
<1>3. CASE RunDayEnd
  <2>1. UNCHANGED <<disk, state, saves>> /\ run.pc = "idle"
    BY <1>3 DEF RunDayEnd, settings, Types, TimerOK
  <2>2. CASE InWindow(timer)
    <3>1. run'.pc \notin Carries
      BY <1>3, <2>2 DEF RunDayEnd, Carries
    <3> QED BY <1>1, <2>1, <3>1, TaskEnds
  <2>3. CASE ~ InWindow(timer)
    <3>1. UNCHANGED run
      BY <1>3, <2>3 DEF RunDayEnd, work
    <3> QED BY <1>1, <2>1, <3>1, DataFrame
  <2> QED BY <2>2, <2>3
<1>4. CASE StartRun \/ RefreshReturns \/ VoteFails
  <2>1. run.pc \in {"queued", "reading", "voting"} /\ UNCHANGED <<disk, state, saves>>
    BY <1>4 DEF StartRun, RefreshReturns, VoteFails, At, GivesUp, settings
  <2>2. run'.pc \in {"idle", "reading", "read"}
    BY <1>4 DEF StartRun, RefreshReturns, VoteFails, GivesUp, Finish, Idle, Types, RunOK
  <2> QED BY <1>1, <2>1, <2>2, TaskEnds DEF Carries
<1>5. CASE VoteReturns
  <2> DEFINE x == Completed(run.job, receipt[run.job.id])
  <2>1. /\ run.pc = "voting" /\ receipt[run.job.id] # NoReceipt /\ run' = [run EXCEPT !.pc = "completing"]
        /\ saves' = Append(saves, x) /\ UNCHANGED <<disk, state>>
    BY <1>5 DEF VoteReturns, At
  <2>2. run'.pc = "completing" /\ run'.job = run.job /\ run'.at = run.at
    BY <2>1 DEF Types, RunOK
  <2>3. x \in Writes /\ x.what = "completed" /\ ~ x.written /\ x.job = run.job /\ x.spent = receipt[run.job.id]
    <3>1. run.job \in Job /\ receipt[run.job.id] \in 0 .. MaxCount
      BY <2>1, Numbers DEF NoReceipt, Types, RunOK, ReceiptsOK, Carries, Job
    <3> QED BY <3>1 DEF Completed, Writes
  <2> HIDE DEF x
  <2>4. QueueOK'
    BY <1>1, <2>1, <2>2, <2>3, QueueGrows DEF Data
  <2>5. TaskOK'
    BY <1>1, <2>1, <2>2 DEF Data, TaskOK, Carries
  <2>6. OneIntent'
    <3>1. Intents' \subseteq Intents /\ used'.jobs >= used.jobs /\ day' >= day
      BY <1>1, <2>1, <2>2 DEF Intents, Kept, Types, UsedOK, ClockOK, Acts
    <3> QED BY <3>1, IntentsKept DEF Data
  <2>7. BooksOK' /\ OnDisk'
    BY <1>1, <2>1 DEF Data, BooksOK, OnDisk
  <2> QED BY <2>4, <2>5, <2>6, <2>7 DEF Data
<1>6. CASE SaveFails
  <2>1. saves # <<>> /\ saves' = Tail(saves) /\ UNCHANGED <<disk, state>>
    BY <1>6 DEF SaveFails
  <2>2. UNCHANGED run \/ (Work(Head(saves)) /\ run' = Idle)
    BY <1>6 DEF SaveFails, Finish, Work, work
  <2>3. QueueOK'
    BY <1>1, <2>1, <2>2, QueueShrinks DEF Data
  <2>4. run' = Idle => run'.pc \notin Carries
    BY DEF Idle, Carries
  <2> QED BY <1>1, <2>1, <2>2, <2>3, <2>4, DataQueue, DataFree
<1> QED BY <1>2, <1>3, <1>4, <1>5, <1>6, WriteData, SavedData DEF Host

\* A new intent has an id of its own, and follows what its mode did before.
LEMMA NewFresh ==
  ASSUME Types, Data, NEW j \in Job, j.id = used.jobs + 1, j.mode = slot.mode, j.date = day,
         Seen(slot).date = day,
         LET job == JobToday(slot.mode, Seen(slot).date) IN job = NoJob \/ (job.done /\ job.kind # "closing")
  PROVE  Fresh(j, state, net)
<1> DEFINE m == slot.mode
           job == state.jobs[m]
<1>1. m \in Mode /\ day \in Nat /\ used.jobs \in Nat
  BY DEF Types, SlotOK, ClockOK, UsedOK, Acts
<1>2. job # NoJob => /\ job \in Job /\ job.date <= day /\ job.date \in Nat /\ Plain(job) \in Intents
                     /\ Plain(job).id = job.id /\ Plain(job).date = job.date /\ Plain(job).kind = job.kind
  <2>1. job # NoJob => job \in Job /\ job.date <= day /\ Plain(job) \in Intents
    BY <1>1, KeptJobs
  <2> HIDE DEF job
  <2> QED BY <2>1, PlainOK DEF Job
<1>3. job # NoJob /\ job.date = day => job.done /\ job.kind # "closing"
  BY DEF JobToday
<1>4. \A a \in net : a \in Intents /\ a.id \in Nat /\ a.id <= used.jobs /\ a.date \in Nat
  BY DEF Types, NetOK, Data, OneIntent, Intents, Job
<1>5. Closed(job, m, net)
  BY <1>1 DEF Data, BooksOK, Sound, Whole
<1> HIDE DEF job, m
<1>6. \A a \in net : a.id # j.id
  BY <1>1, <1>4
<1>7. ASSUME NEW a \in net, a.mode = m, a.kind = "closing" PROVE a.date < day
  <2>1. job # NoJob /\ (a.date < job.date \/ a.id = job.id)
    BY <1>5, <1>7 DEF Closed
  <2>2. CASE a.date < job.date
    BY <1>1, <1>2, <1>4, <2>1, <2>2
  <2>3. CASE a.id = job.id
    <3>1. a = Plain(job)
      BY <1>2, <1>4, <2>1, <2>3 DEF Data, OneIntent
    <3> QED BY <1>1, <1>2, <1>3, <1>7, <2>1, <3>1
  <2> QED BY <2>1, <2>2, <2>3
<1>8. j.mode = m
  BY DEF m
<1>9. state.jobs[j.mode] = job
  BY DEF m, job
<1> QED BY <1>1, <1>2, <1>3, <1>6, <1>7, <1>8, <1>9 DEF Fresh

LEMMA PrepareData ==
  ASSUME Types, Types', Data, Prepare
  PROVE  Data'
<1>0. run.pc = "read" /\ used.jobs \in Nat
  BY PrepareIs DEF Types, UsedOK, Acts
<1>1. CASE UNCHANGED <<authority, settings, mode, attention, used>> /\ \E ready : Finish(ready)
  <2>1. run'.pc \notin Carries
    BY <1>1 DEF Finish, Idle, Carries
  <2> QED BY <1>0, <1>1, <2>1, TaskEnds DEF authority, clock, settings
<1>2. CASE /\ CanPrepareVote(run.at)
           /\ Unsettled(state.jobs[slot.mode]) /\ state.jobs[slot.mode].date = Seen(slot).date
           /\ run' = [run EXCEPT !.pc = "prepared", !.job = state.jobs[slot.mode]]
           /\ UNCHANGED <<authority, settings, mode, attention, schedule, used>>
  <2> DEFINE j == state.jobs[slot.mode]
  <2>1. run'.pc = "prepared" /\ run'.job = j /\ run'.at = run.at
    BY <1>2 DEF Types, RunOK
  <2>2. UNCHANGED <<day, receipt, net, disk, state, saves, used>>
    BY <1>2 DEF authority, clock, settings
  <2>3. slot.mode \in Mode /\ j # NoJob /\ ~ j.done /\ j \in Job /\ j.mode = slot.mode /\ Plain(j) \in Intents
    BY <1>2, KeptJobs DEF Unsettled, Types, SlotOK
  <2>4. Plain(j) = j /\ Plain(j) \in Kept(state)
    BY <2>3, PlainOK DEF Kept
  <2>5. Seen(slot).date = day /\ run.at.date = day /\ run.at.slot = slot
    BY <1>2, InWindowToday DEF CanPrepareVote
  <2>6. OneIntent'
    <3>1. Kept(state)' = Kept(state) /\ Kept(disk)' = Kept(disk)
      BY <2>2 DEF Kept
    <3>2. Intents' \subseteq Intents
      BY <2>1, <2>2, <2>4, <3>1 DEF Intents
    <3>3. used'.jobs >= used.jobs /\ day' >= day
      BY <2>2 DEF Types, UsedOK, ClockOK, Acts
    <3> QED BY <3>2, <3>3, IntentsKept DEF Data
  <2>7. TaskOK'
    <3>1. run'.job.mode = run'.at.slot.mode /\ run'.job.date = run'.at.date
      BY <1>2, <2>1, <2>3, <2>5
    <3>2. state'.jobs[run'.job.mode] = run'.job
      BY <2>1, <2>2, <2>3
    <3> QED BY <2>1, <3>1, <3>2 DEF TaskOK
  <2>8. QueueOK'
    BY <1>0, <2>2, QueueKept DEF Data
  <2> QED BY <2>2, <2>6, <2>7, <2>8 DEF Data, BooksOK, OnDisk
<1>3. CASE /\ CanPrepareVote(run.at)
           /\ LET job == JobToday(slot.mode, Seen(slot).date) IN
              job = NoJob \/ (job.done /\ job.kind # "closing")
           /\ Seen(slot).left >= 1 /\ used.jobs + 1 <= MaxJobs
           /\ used' = [used EXCEPT !.jobs = used.jobs + 1]
           /\ run' = [run EXCEPT !.pc = "saving", !.job = NewJob(Seen(slot), used.jobs + 1)]
           /\ saves' = Append(saves, Prepared(NewJob(Seen(slot), used.jobs + 1)))
           /\ UNCHANGED <<authority, mode, attention, schedule, disk, state>>
  <2> DEFINE j == NewJob(Seen(slot), used.jobs + 1)
             x == Prepared(j)
  <2>1. Seen(slot).date = day /\ run.at.date = day /\ run.at.slot = slot
    BY <1>3, InWindowToday DEF CanPrepareVote
  <2>2. j \in Job /\ j.id = used.jobs + 1 /\ j.mode = slot.mode /\ j.date = day /\ ~ j.done
    BY <1>3, <2>1, NewJobOK
  <2>3. /\ run'.pc = "saving" /\ run'.job = j /\ run'.at = run.at
        /\ UNCHANGED <<day, receipt, net, disk, state>> /\ used'.jobs = used.jobs + 1
        /\ saves' = Append(saves, x)
    BY <1>3 DEF Types, RunOK, UsedOK, Acts, authority, clock
  <2>4. x \in Writes /\ x.what = "prepared" /\ x.job = j /\ ~ x.written
    BY <2>2 DEF Prepared, Writes
  <2> HIDE DEF j, x
  <2>5. Fresh(j, state, net)
    BY <1>3, <2>1, <2>2, NewFresh
  <2>6. TaskOK'
    <3>1. Fresh(j, state', net')
      BY <2>3, <2>5
    <3> QED BY <2>1, <2>2, <2>3, <3>1 DEF TaskOK
  <2>7. QueueOK'
    BY <1>0, <2>3, <2>4, QueueGrows DEF Data
  <2>8. OneIntent'
    <3>1. Kept(state)' = Kept(state) /\ Kept(disk)' = Kept(disk)
      BY <2>3 DEF Kept
    <3>2. Intents' \subseteq Intents \cup {j}
      BY <2>3, <3>1 DEF Intents
    <3>3. \A a \in Intents : a.id \in Nat /\ a.id <= used.jobs /\ a.date <= day /\ ~ a.done
      BY IntentsIn DEF Data, OneIntent, Job
    <3>4. \A a, b \in Intents : a.id = b.id => a = b
      BY DEF Data, OneIntent
    <3>5. \A a, b \in Intents' : a.id = b.id => a = b
      BY <1>0, <2>2, <3>2, <3>3, <3>4
    <3>6. day \in Nat
      BY DEF Types, ClockOK
    <3>7. \A a \in Intents' : a.id <= used'.jobs /\ a.date <= day' /\ ~ a.done
      BY <1>0, <2>2, <2>3, <3>2, <3>3, <3>6
    <3> QED BY <3>5, <3>7 DEF OneIntent
  <2> QED BY <2>3, <2>6, <2>7, <2>8 DEF Data, BooksOK, OnDisk
<1> QED BY <1>1, <1>2, <1>3, PrepareIs

\* What is sent is the day's intent, which memory and disk hold.
LEMMA SentIs ==
  ASSUME Types, Data, run.pc = "prepared", CanPrepareVote(run.at)
  PROVE  /\ run.job \in Job /\ run.job # NoJob /\ ~ run.job.done /\ run.job \in Intents
         /\ run.job.mode = slot.mode /\ run.job.date = day /\ Seen(slot).date = day
         /\ state.jobs[run.job.mode] = run.job
         /\ run.job \notin net => disk.jobs[run.job.mode] = run.job
<1>1. run.job \in Job /\ run.job # NoJob
  BY DEF Types, RunOK, Carries, Job, NoJob
<1>2. run.job \in Intents /\ ~ run.job.done
  BY <1>1 DEF Intents, Data, OneIntent
<1>3. run.at.slot = slot /\ run.at.date = day /\ Seen(slot).date = day
  BY InWindowToday DEF CanPrepareVote
<1>4. run.job.mode = slot.mode /\ run.job.date = day /\ state.jobs[run.job.mode] = run.job
  BY <1>3 DEF Data, TaskOK, Carries
<1>5. run.job \notin net => disk.jobs[run.job.mode] = run.job
  BY <1>1, <1>2, <1>4 DEF Data, OnDisk, Job
<1> QED BY <1>1, <1>2, <1>3, <1>4, <1>5

LEMMA SendData ==
  ASSUME Types, Types', Data, Send
  PROVE  Data'
<1>0. run.pc = "prepared"
  BY SendIs
<1>1. CASE UNCHANGED <<authority, settings, mode, attention, used>> /\ \E ready : Finish(ready)
  <2>1. run'.pc \notin Carries
    BY <1>1 DEF Finish, Idle, Carries
  <2> QED BY <1>0, <1>1, <2>1, TaskEnds DEF authority, clock, settings
<1>2. CASE /\ CanPrepareVote(run.at)
           /\ run' = [run EXCEPT !.pc = "voting"] /\ net' = net \cup {run.job}
           /\ Rule(run.job) \/ UNCHANGED <<receipt, left>>
           /\ UNCHANGED <<clock, settings, mode, attention, schedule, votes, used>>
  <2>1. /\ run.job \in Job /\ run.job # NoJob /\ ~ run.job.done /\ run.job \in Intents
        /\ state.jobs[run.job.mode] = run.job /\ run.job.mode \in Mode
        /\ run.job \notin net => disk.jobs[run.job.mode] = run.job
    BY <1>0, <1>2, SentIs DEF Job
  <2>2. run'.pc = "voting" /\ run'.job = run.job /\ run'.at = run.at
    BY <1>2 DEF Types, RunOK
  <2>3. UNCHANGED <<day, disk, state, saves, used>>
    BY <1>2 DEF clock, settings
  <2>4. receipt' = receipt \/ \E k \in 0 .. MaxCount :
          receipt' = [receipt EXCEPT ![run.job.id] = k] /\ receipt[run.job.id] = NoReceipt
    BY <1>2, <2>1, RuleOK
  <2>5. BooksOK'
    <3>1. Sound(disk, net', receipt, day) /\ Sound(state, net', receipt, day)
      BY <1>2, <2>1, SoundSent DEF Data, BooksOK
    <3>2. net' \subseteq Job /\ IsFiniteSet(net') /\ receipt \in Receipts /\ run.job.id \in 1 .. MaxJobs
      BY <2>1 DEF Types, NetOK, ReceiptsOK, Receipts, Job
    <3>3. Sound(disk, net', receipt', day) /\ Sound(state, net', receipt', day)
      BY <2>4, <3>1, <3>2, SoundDecided
    <3> QED BY <2>3, <3>3 DEF BooksOK
  <2>6. OneIntent'
    <3>1. Kept(state)' = Kept(state) /\ Kept(disk)' = Kept(disk)
      BY <2>3 DEF Kept
    <3>2. Intents' \subseteq Intents
      BY <1>2, <2>1, <2>2, <3>1 DEF Intents
    <3>3. used'.jobs >= used.jobs /\ day' >= day
      BY <2>3 DEF Types, UsedOK, ClockOK, Acts
    <3> QED BY <3>2, <3>3, IntentsKept DEF Data
  <2>7. TaskOK'
    <3>1. run.job.mode = run.at.slot.mode /\ run.job.date = run.at.date
      BY <1>0 DEF Data, TaskOK, Carries
    <3> QED BY <1>2, <2>1, <2>2, <2>3, <3>1 DEF TaskOK
  <2>8. QueueOK'
    <3>1. \A i \in 1 .. MaxJobs : receipt[i] # NoReceipt => receipt'[i] = receipt[i]
      BY <2>4 DEF Types, ReceiptsOK
    <3> QED BY <1>0, <2>3, <3>1, QueueKept DEF Data
  <2>9. OnDisk'
    BY <1>2, <2>3 DEF Data, OnDisk
  <2> QED BY <2>5, <2>6, <2>7, <2>8, <2>9 DEF Data
<1> QED BY <1>1, <1>2, SendIs

LEMMA DataStep ==
  ASSUME Types, Data, [Next]_vars
  PROVE  Types' /\ Data'
<1>1. Types'
  BY TypesStep DEF Data
<1>2. CASE UNCHANGED vars
  BY <1>1, <1>2, DataFrame DEF vars, authority, clock, host, settings, work
<1> QED BY <1>1, <1>2, WorldData, RestartData, UserData, HostData, PrepareData, SendData DEF Next, World
-----------------------------------------------------------------------------
(* The theorems. *)

\* The invariant holds in every behaviour: the queue of writes, the timed task,
\* memory and disk agree with what was sent and what the authority decided.
THEOREM Invariant == Spec => [](Types /\ Data)
<1>1. Init => Types /\ Data
  BY TypesInit, DataInit
<1>2. Types /\ Data /\ [Next]_vars => (Types /\ Data)'
  BY DataStep
<1> QED BY <1>1, <1>2, PTL DEF Spec

\* The Host's own record of its timed votes is what the authority took for the
\* intents counted, each of them once.
THEOREM CountsExactly == Spec => []CountedExactly
<1>1. ASSUME Types, Data, NEW s \in {disk, state}, NEW m \in Mode, NEW d \in Direction
      PROVE  LET ledger == s.incense[m]
                 jobs   == {j \in Jobs(s, m) : j.voteType = d} IN
             /\ ledger.lifetime[d] = Sticks(jobs)
             /\ ledger.today[d] = Sticks({j \in jobs : j.date = ledger.date})
  <2> DEFINE ledger == s.incense[m]
             jobs   == {j \in Jobs(s, m) : j.voteType = d}
  <2>1. Summed(ledger, m, net, receipt)
    BY <1>1 DEF Data, BooksOK, Sound, Whole
  <2>2. Booked(ledger, m, net, d) = jobs
    BY DEF Booked, Jobs
  <2>3. BookedToday(ledger, m, net, d) = {j \in jobs : j.date = ledger.date}
    BY <2>2 DEF BookedToday
  <2>4. ledger.lifetime[d] = Total(jobs, receipt)
    BY <2>1, <2>2 DEF Summed
  <2>5. ledger.today[d] = Total({j \in jobs : j.date = ledger.date}, receipt)
    BY <2>1, <2>3 DEF Summed
  <2>6. \A x : Sticks(x) = Total(x, receipt)
    BY DEF Sticks, Total
  <2> QED BY <2>4, <2>5, <2>6
<1>2. Types /\ Data => CountedExactly
  BY <1>1 DEF CountedExactly
<1> QED BY <1>2, Invariant, PTL

\* What the authority took is counted, or is the day's unsettled intent on disk.
THEOREM ForgetsNothing == Spec => []NothingForgotten
<1>1. Types /\ Data => NothingForgotten
  <2> SUFFICES ASSUME Types, Data, NEW j \in net
               PROVE  \/ j.id \in disk.incense[j.mode].counted
                      \/ disk.jobs[j.mode] = j
                      \/ j.date < day
    BY DEF NothingForgotten
  <2>1. j.mode \in Mode
    BY DEF Types, NetOK, Job
  <2> QED BY <2>1 DEF Data, BooksOK, Sound, Whole, Held
<1> QED BY <1>1, Invariant, PTL

\* A request id stands for one payload, however often it is sent.
THEOREM SendsOnePayload == Spec => []OnePayload
<1>1. Types /\ Data => OnePayload
  BY DEF OnePayload, Data, OneIntent, Intents
<1> QED BY <1>1, Invariant, PTL

\* Only the task that has prepared an intent sends one.
LEMMA Sender ==
  ASSUME Types, Next, net' # net
  PROVE  Send
<1>1. World \/ User => UNCHANGED net
  BY DEF World, User, Later, NewDay, Restart, NewCase, Earn, Decide, Vote, NoteManualGesture,
         BeginSwitch, SetDayEndPreferences, authority
<1>2. Host => UNCHANGED net
  BY DEF Host, SendVote, VoteEnds, WriteReachesDisk, SaveReturns, SaveFails, RunDayEnd, StartRun,
         GivesUp, RefreshReturns, VoteReturns, VoteFails, CadenceElapses, Poll, PollFails, PollGives,
         QuietAgain, SwitchFails, UseAuthority, authority
<1>3. Prepare => UNCHANGED net
  BY PrepareIs DEF authority
<1> QED BY <1>1, <1>2, <1>3 DEF Next

\* A mode sends one closing intent a day: one that is sent is the mode's last
\* intent, and every closing intent before it is of an earlier day.
THEOREM ClosesOnce == Spec => []OneClosing
<1>1. Init => OneClosing
  BY DEF Init, OneClosing
<1>2. Types /\ Data /\ OneClosing /\ [Next]_vars => OneClosing'
  <2> SUFFICES ASSUME Types, Data, OneClosing, [Next]_vars, net' # net PROVE OneClosing'
    BY DEF OneClosing
  <2>1. Next
    BY DEF vars, authority
  <2>2. run.pc = "prepared" /\ CanPrepareVote(run.at) /\ net' = net \cup {run.job}
    BY <2>1, Sender, SendIs DEF authority
  <2> DEFINE j == run.job
  <2>3. j \in Job /\ state.jobs[j.mode] = j
    BY <2>2, SentIs
  <2>4. Closed(j, j.mode, net)
    BY <2>3 DEF Data, BooksOK, Sound, Whole, Job
  <2>5. \A a \in net : a.mode = j.mode /\ a.kind = "closing" /\ a.date = j.date => a.id = j.id
    BY <2>3, <2>4 DEF Closed, Job
  <2> HIDE DEF j
  <2>6. net' = net \cup {j}
    BY <2>2 DEF j
  <2> QED BY <2>5, <2>6 DEF OneClosing
<1> QED BY <1>1, <1>2, Invariant, PTL DEF Spec

\* No path through the handlers forgets to arm the timer.
THEOREM StaysOnWatch == Spec => []KeepsWatch
<1>1. Init => KeepsWatch
  BY WatchInit
<1>2. Types /\ Data /\ KeepsWatch /\ [Next]_vars => KeepsWatch'
  <2> SUFFICES ASSUME Types, Data, KeepsWatch, [Next]_vars PROVE KeepsWatch'
    OBVIOUS
  <2>1. Types' /\ QueueOK
    BY DataStep DEF Data
  <2> QED BY <2>1, WatchStep
<1> QED BY <1>1, <1>2, Invariant, PTL DEF Spec

\* What runDayEnd checked before its awaits still holds as the vote is sent.
THEOREM YieldsToTheUser == Spec => Yields
<1> DEFINE Sent ==
           \A j \in net' \ net :
             /\ ~ ManualPending /\ quiet /\ ~ changing /\ state.enabled
             /\ j.mode = slot.mode /\ j.date = Seen(slot).date
             /\ disk.jobs[j.mode] = j
<1>1. Types /\ Data /\ [Next]_vars => [Sent]_vars
  <2> SUFFICES ASSUME Types, Data, Next, NEW j \in net' \ net
               PROVE  /\ ~ ManualPending /\ quiet /\ ~ changing /\ state.enabled
                      /\ j.mode = slot.mode /\ j.date = Seen(slot).date
                      /\ disk.jobs[j.mode] = j
    OBVIOUS
  <2>1. Send
    BY Sender
  <2>2. run.pc = "prepared" /\ CanPrepareVote(run.at) /\ net' = net \cup {run.job}
    BY <2>1, SendIs DEF authority
  <2>3. j = run.job /\ run.job \notin net
    BY <2>2
  <2>4. ~ ManualPending /\ quiet /\ ~ changing /\ state.enabled
    BY <2>2 DEF CanPrepareVote, InWindow
  <2> QED BY <2>2, <2>3, <2>4, SentIs
<1> QED BY <1>1, Invariant, PTL DEF Spec, Yields
=============================================================================
