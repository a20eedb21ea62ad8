---------------------------- MODULE VoteAnswers ----------------------------
(***************************************************************************)
(* The answer to a vote, in two steps: the transaction of VoteLedger,      *)
(* which leaves a result, then the reads that build the answer around it.  *)
(* The server does nothing else in between, but an operator's process may  *)
(* commit a command.                                                       *)
(***************************************************************************)
EXTENDS WireAnswers

VARIABLE reply  \* the result of the vote transaction, until it is answered

NoReply == [inst |-> NoOne]
answers == <<vars, reply>>

Answering == reply # NoReply
-----------------------------------------------------------------------------
(* The result of a vote: a new one and a replay show the same row. *)

ReceiptOf(op) == CHOOSE x \in receipts : x.inst = op.inst /\ x.req = op.req

SameVoteIntent(x, op) == x.case = op.case /\ x.dir = op.dir /\ x.count = op.count

Rejected(reason) == [status |-> "rejected", reason |-> reason]

\* fault, for CountersShown: the counters of the day the vote was made
CountersStored(x, d) == PersonalOf(x.inst, x.date)

\* The accepted vote is of its own day, the counters are the answer's day's.
CountersShown(x, d) == PersonalOf(x.inst, d)

Result(op, d) ==
  LET x == ReceiptOf(op)
      p == CountersShown(x, d)
  IN  IF ~ SameVoteIntent(x, op) THEN Rejected("idempotency_conflict")
      ELSE IF x.status # "accepted" THEN Rejected(x.status)
      ELSE [status |-> "accepted", used |-> p.used, remaining |-> p.remaining]

VoteTransaction ==
  /\ CastVote(Server)
  /\ \E h \in {proc[Server]} :
       reply' = [inst |-> h.op.inst, date |-> h.day, case |-> h.held,
                 result |-> Result(h.op, h.day)', disturbed |-> FALSE]

AnswerVote == Answering /\ reply' = NoReply /\ UNCHANGED vars

\* The commands that change what the answer still has to read.
Disturbs(p) == PublishCase(p) \/ ResetToday(p)

OperatorStep(p) ==
  /\ Step(p)
  /\ reply' = IF Answering /\ Disturbs(p) THEN [reply EXCEPT !.disturbed = TRUE] ELSE reply

Otherwise(p) ==
  \/ Call(p) \/ EnsureActiveCase(p) \/ Bootstrap(p) \/ TokenClaim(p) \/ IgnoreClaim(p)
  \/ Publish(p)

AnswersNext ==
  \/ ~ Answering /\ VoteTransaction
  \/ ~ Answering /\ Otherwise(Server) /\ UNCHANGED reply
  \/ AnswerVote
  \/ Crash(Server) /\ reply' = NoReply
  \/ \E p \in Operator : OperatorStep(p)
  \/ Midnight /\ UNCHANGED reply

AnswersInit == Init /\ reply = NoReply
AnswersSpec == AnswersInit /\ [][AnswersNext]_answers

\* The server finishes the handlers it starts and answers its votes, its snapshot timer
\* fires again and again, sometimes with the cadence elapsed, and it crashes finitely often.
AnswersFairSpec ==
  /\ AnswersSpec
  /\ WF_answers(AnswerVote)
  /\ WF_vars(Progress(Server))
  /\ SF_vars(BeginSnapshot(Server))
  /\ SF_vars(ReadLatest(Server, TRUE))
  /\ <>[][~ Crash(Server)]_vars
-----------------------------------------------------------------------------
VoteAnswer ==
  LET s == SnapshotWire(snapshot[reply.case])
  IN  [result |-> reply.result, personal |-> PersonalOf(reply.inst, reply.date),
       snapshot |-> s, version |-> s.seq]

\* A vote that was charged is not reported as an error, whatever was claimed, spent,
\* replayed after midnight or wiped before: its answer parses at both hops unless an
\* operator's command came between the transaction and the reads
\* (service.ts:987-999; backend-v1.ts:538-545; wire.ts:254-272).
VoteAnswerParses ==
  Answering /\ ~ reply.disturbed =>
    /\ VoteAccepted(VoteAnswer)
    /\ WireVoteAccepted(VoteAnswer.result,
                        HostFrame(VoteAnswer.personal, SnapshotParsed(VoteAnswer.snapshot), 0))
=============================================================================
