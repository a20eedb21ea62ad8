---------------------------- MODULE WireAnswers ----------------------------
(***************************************************************************)
(* What the vote authority answers, read from its tables by the step that  *)
(* ends a handler, and whether the Host and the browser can parse it.      *)
(* The answer to a vote, which is read later, is in VoteAnswers.           *)
(***************************************************************************)
EXTENDS VoteLedger, WireContract

PersonalOf(i, d) == PersonalWire(claimed[i][d], starter[i][d], used[i][d], TokenPerIncense)

V1Case(c) == [status |-> caseStatus[c], perStick |-> TokenPerIncense]

PollAnswer(c)     == [snapshot |-> SnapshotWire(snapshot[c]), case |-> V1Case(c)]
DailyAnswer(i, c) == [personal |-> PersonalOf(i, CaseDate(c)), case |-> V1Case(c)]

\* A bootstrap says what a poll and a daily-state answer say, and the policies.
BootstrapAnswer(i, c) ==
  [personal |-> DailyAnswer(i, c).personal, snapshot |-> PollAnswer(c).snapshot,
   case |-> V1Case(c), boundaries |-> Policy.current]

\* publishCase: the case it opened, and the day's case that it closed.
PublishAnswer(c) ==
  [snapshot |-> SnapshotWire(snapshot[c]), case |-> V1Case(c),
   archived |-> {V1Case(x) : x \in {x \in CasesOn(CaseDate(c)) : caseStatus[x] = "closed"}}]

\* The step that ends a handler builds its answer, from the tables it leaves.
Answers(p) == proc[p].pc = "idle"

\* What the Host shows of one installation's day, with tokens it has not claimed yet.
FramesOf(i, c) ==
  {HostFrame(PersonalOf(i, CaseDate(c)), SnapshotParsed(SnapshotWire(snapshot[c])), unclaimed) :
     unclaimed \in {0, TokenPerIncense}}
-----------------------------------------------------------------------------
BackendAnswersParse ==
  /\ Answers(Server) => \A c \in Opened :
       /\ \A i \in Installation : BootstrapAccepted(BootstrapAnswer(i, c))
       /\ PollAccepted([PollAnswer(c) EXCEPT !.snapshot = LegacyView(@)])
  /\ \A p \in Operator, c \in Opened :
       Answers(p) /\ c # <<CaseDate(c), 0>> => PublishAccepted(PublishAnswer(c))
  /\ \A p \in Process : proc[p].pc = "write" => SnapshotAccepted(SnapshotWire(proc[p].seen))

\* A frame shows at most what the ledger holds to be spendable, and the state of the
\* community as the backend derived it, in its range.
HostFramesParse ==
  Answers(Server) =>
    \A c \in Opened, i \in Installation : \A w \in FramesOf(i, c) :
      /\ StateAccepted(w)
      /\ View(w).earned <= View(w).observed
      /\ View(w).snapshot.state = SnapshotWire(snapshot[c]).state

\* Whatever was claimed, spent, published anew or wiped, the Host can read every answer
\* the authority builds, the row a publisher is about to return included, and the
\* browser can read every frame the Host makes of them
\* (service.ts:566-591, 1325-1406; backend-v1.ts:768-772; wire.ts:254-272).
ReadsParse == BackendAnswersParse /\ HostFramesParse
=============================================================================
