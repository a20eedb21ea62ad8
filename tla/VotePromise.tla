---------------------------- MODULE VotePromise ----------------------------
(***************************************************************************)
(* What the vote authority promises its installations, whatever processes, *)
(* transactions and restarts stand behind it: a request id is decided at   *)
(* most once, an accepted request is charged once, at the moment it is     *)
(* accepted and to one day, and a day's charges never exceed what the day  *)
(* has earned.  Only an operator forgives charges or forgets decisions.    *)
(***************************************************************************)
EXTENDS Integers

CONSTANTS Installation, Request, Day, MaxCount

VARIABLES
  accepted,   \* decisions that spent sticks
  refused,    \* <<installation, request>> decided without spending
  earned,     \* earned[i][d]: sticks the tokens of day d pay for
  charged     \* charged[i][d]: sticks of day d already spent

promiseVars == <<accepted, refused, earned, charged>>

Decided(i, r) ==
  \/ \E a \in accepted : a.inst = i /\ a.req = r
  \/ <<i, r>> \in refused

PromiseInit ==
  /\ accepted = {} /\ refused = {}
  /\ earned  = [i \in Installation |-> [d \in Day |-> 0]]
  /\ charged = [i \in Installation |-> [d \in Day |-> 0]]

\* Earnings of one installation on one day may grow; nothing lowers them.
Grows(i, d) ==
  /\ earned' = [earned EXCEPT ![i][d] = earned'[i][d]]
  /\ earned'[i][d] >= earned[i][d]

Earn(i, d) ==
  /\ Grows(i, d)
  /\ UNCHANGED <<accepted, refused, charged>>

Accept(i, r, d, n) ==
  /\ ~ Decided(i, r)
  /\ Grows(i, d)
  /\ charged[i][d] + n <= earned'[i][d]
  /\ charged' = [charged EXCEPT ![i][d] = @ + n]
  /\ accepted' = accepted \cup {[inst |-> i, req |-> r, day |-> d, spent |-> n]}
  /\ UNCHANGED refused

Refuse(i, r, d) ==
  /\ ~ Decided(i, r)
  /\ Grows(i, d)
  /\ refused' = refused \cup {<<i, r>>}
  /\ UNCHANGED <<accepted, charged>>

\* An operator forgives the charges of a day, or forgets decisions, or both.
Intervene ==
  /\ accepted' \subseteq accepted
  /\ refused' \subseteq refused
  /\ \/ UNCHANGED charged
     \/ \E d \in Day :
          charged' = [i \in Installation |-> [charged[i] EXCEPT ![d] = 0]]
  /\ UNCHANGED earned

PromiseNext ==
  \/ \E i \in Installation, d \in Day : Earn(i, d)
  \/ \E i \in Installation, r \in Request, d \in Day :
       Refuse(i, r, d) \/ \E n \in 1 .. MaxCount : Accept(i, r, d, n)
  \/ Intervene

PromiseSpec == PromiseInit /\ [][PromiseNext]_promiseVars
=============================================================================
