----------------------------- MODULE Idempotency ------------------------------
(***************************************************************************)
(* The Idempotency-Key wrapper of the write endpoints                      *)
(* (base/security/idempotency.py): orders created, paid and cancelled,     *)
(* treasury transfers and expenses, inkassa.                               *)
(*                                                                         *)
(* One actor, scope and key, sent by several threads: the request and its  *)
(* retries.  Every database statement of the wrapper is a step of its own, *)
(* since no transaction spans them; the view between them is one step, its *)
(* service being one transaction.  A response is named by the thread whose *)
(* view gave it.  A request without the header or an actor runs its view   *)
(* unchanged and is left out.                                              *)
(***************************************************************************)
EXTENDS Naturals

CONSTANTS
  Threads,   \* threads that serve the request and its retries
  Faults,    \* the sets of faults to consider, see Fault
  TTL,       \* INFLIGHT_TTL_SECONDS
  Pks        \* bound: primary keys in use at once

\* The view raises; the process dies before the view commits, or after it; the
\* view takes longer than the TTL; the response is no JSON; the wrapper's own
\* closing statement fails.
Fault == {"raise", "crash", "late crash", "slow", "uncacheable", "closing"}

VARIABLES
  faults,  \* which faults this behaviour may meet
  row,     \* the IdempotencyKey row: its primary key, response and age
  thread,  \* where each thread is in the wrapper, and the row it goes by
  answer,  \* what it answered last, until the request is sent again
  acts     \* how often the view has committed its effect: 0, 1 or more

retryVars == <<faults, row, thread, answer, acts>>

Unanswered == "in flight"   \* response_status = 0
Busy == "409"
Error == "500"
Nobody == "nobody"

ASSUME IdempotencyAssumption ==
  /\ Faults \subseteq SUBSET Fault
  /\ TTL \in Nat \ {0}
  /\ Pks \subseteq Nat \ {0}
  /\ Threads \cap {Unanswered, Nobody, Busy, Error} = {}

NoRow == [pk |-> 0, response |-> Unanswered, age |-> 0]
Row == [pk : Pks \cup {0}, response : Threads \cup {Unanswered}, age : 0..TTL]
Phase == {"new", "lost", "stale", "own", "bare", "ran", "raised", "done", "dead"}

RetriesInit ==
  /\ faults \in Faults
  /\ row = NoRow
  /\ thread = [t \in Threads |-> [phase |-> "new", pk |-> 0]]
  /\ answer = [t \in Threads |-> Nobody]
  /\ acts = 0

RetriesTyped ==
  /\ faults \in Faults
  /\ row \in Row
  /\ thread \in [Threads -> [phase : Phase, pk : Pks \cup {0}]]
  /\ answer \in [Threads -> Threads \cup {Nobody, Busy, Error}]
  /\ acts \in 0..2

Exists == row.pk # 0
Claimed == Exists /\ row.response = Unanswered
FreePks == {n \in Pks : n # row.pk /\ \A t \in Threads : n # thread[t].pk}

Goes(t, phase) == thread' = [thread EXCEPT ![t].phase = phase]
Answers(t, a) ==
  /\ thread' = [thread EXCEPT ![t] = [phase |-> "done", pk |-> 0]]
  /\ answer' = [answer EXCEPT ![t] = a]

\* UPDATE and DELETE by primary key touch nothing when that row has gone.
UpdateRow(t, r) == row' = IF row.pk = thread[t].pk THEN r ELSE row
Closing(t, r) == UpdateRow(t, r) \/ ("closing" \in faults /\ UNCHANGED row)

-----------------------------------------------------------------------------
\* The unique constraint decides who inserts the claim.
Claim(t) ==
  /\ thread[t].phase = "new"
  /\ IF Exists
     THEN Goes(t, "lost") /\ UNCHANGED row
     ELSE \E n \in FreePks :
            /\ row' = [NoRow EXCEPT !.pk = n]
            /\ thread' = [thread EXCEPT ![t] = [phase |-> "own", pk |-> n]]
  /\ UNCHANGED <<faults, answer, acts>>

\* (mutant) a claim never grows stale
LookupAlwaysBusy(t) ==
  /\ thread[t].phase = "lost" /\ Exists
  /\ Answers(t, IF Claimed THEN Busy ELSE row.response)
  /\ UNCHANGED <<faults, row, acts>>
\* (mutant) a claim in flight is taken over at once
LookupImpatient(t) ==
  /\ thread[t].phase = "lost" /\ Exists
  /\ IF Claimed
     THEN thread' = [thread EXCEPT ![t] = [phase |-> "stale", pk |-> row.pk]] /\ UNCHANGED answer
     ELSE Answers(t, row.response)
  /\ UNCHANGED <<faults, row, acts>>
\* Who lost looks the row up: it may be gone, in flight, stale or answered.
Lookup(t) ==
  /\ thread[t].phase = "lost"
  /\ \/ ~Exists /\ Goes(t, "bare") /\ UNCHANGED answer
     \/ Claimed /\ row.age < TTL /\ Answers(t, Busy)
     \/ /\ Claimed /\ row.age >= TTL
        /\ thread' = [thread EXCEPT ![t] = [phase |-> "stale", pk |-> row.pk]]
        /\ UNCHANGED answer
     \/ Exists /\ ~Claimed /\ Answers(t, row.response)
  /\ UNCHANGED <<faults, row, acts>>

\* The row is reset by primary key, whatever has become of it since the lookup.
TakeOver(t) ==
  /\ thread[t].phase = "stale"
  /\ UpdateRow(t, [NoRow EXCEPT !.pk = row.pk])
  /\ Goes(t, "own")
  /\ UNCHANGED <<faults, answer, acts>>

\* The view takes effect and answers, or only answers (it refused).
Act == acts' = (IF acts = 0 THEN 1 ELSE 2) \/ UNCHANGED acts

Run(t) ==
  /\ thread[t].phase = "own"
  /\ \/ Act /\ Goes(t, "ran")
     \/ "raise" \in faults /\ UNCHANGED acts /\ Goes(t, "raised")
  /\ UNCHANGED <<faults, row, answer>>

\* Without a claim, because the row went away; nothing is stored.
RunBare(t) ==
  /\ thread[t].phase = "bare"
  /\ \/ Act /\ Answers(t, t)
     \/ "raise" \in faults /\ UNCHANGED acts /\ Answers(t, Error)
  /\ UNCHANGED <<faults, row>>

\* (mutant) the claim is dropped instead of answered
StoreNothing(t) ==
  /\ thread[t].phase = "ran" /\ UpdateRow(t, NoRow) /\ Answers(t, t) /\ UNCHANGED <<faults, acts>>
Store(t) ==
  /\ thread[t].phase = "ran"
  /\ \/ Closing(t, [row EXCEPT !.response = t])
     \/ "uncacheable" \in faults /\ Closing(t, NoRow)
  /\ Answers(t, t)
  /\ UNCHANGED <<faults, acts>>

\* An exception drops the claim, for a retry to run fresh.
Drop(t) ==
  /\ thread[t].phase = "raised"
  /\ Closing(t, NoRow)
  /\ Answers(t, Error)
  /\ UNCHANGED <<faults, acts>>

Die(t) ==
  /\ \/ "crash" \in faults /\ thread[t].phase \in {"new", "lost", "stale", "own", "bare", "raised"}
     \/ "late crash" \in faults /\ thread[t].phase = "ran"
  /\ thread' = [thread EXCEPT ![t] = [phase |-> "dead", pk |-> 0]]
  /\ UNCHANGED <<faults, row, answer, acts>>

\* The client sends it again: it was told to wait, or missed the answer.
Resend(t) ==
  /\ thread[t].phase = "done"
  /\ Goes(t, "new") /\ answer' = [answer EXCEPT ![t] = Nobody]
  /\ UNCHANGED <<faults, row, acts>>

\* Time passes.  A request that is not slow ends within the TTL.
Owner(t) == thread[t].phase \in {"own", "ran", "raised"} /\ thread[t].pk = row.pk
Tick ==
  /\ Claimed /\ row.age < TTL
  /\ "slow" \notin faults => \A t \in Threads : ~Owner(t)
  /\ row' = [row EXCEPT !.age = @ + 1]
  /\ UNCHANGED <<faults, thread, answer, acts>>

Serve(t) ==
  Claim(t) \/ Lookup(t) \/ TakeOver(t) \/ Run(t) \/ RunBare(t) \/ Store(t) \/ Drop(t)

RetriesNext == Tick \/ \E t \in Threads : Serve(t) \/ Die(t) \/ Resend(t)

RetriesSpec == RetriesInit /\ [][RetriesNext]_retryVars

\* A thread goes on with what it serves, time does not stand still, and the client
\* retries.
FairRetries ==
  /\ RetriesSpec
  /\ WF_retryVars(Tick)
  /\ \A t \in Threads : WF_retryVars(Serve(t)) /\ WF_retryVars(Resend(t))

-----------------------------------------------------------------------------
(* Properties.                                                             *)

\* A payment sent twice is taken once: when nothing fails, whatever the order in
\* which the request and its retries interleave, the view takes effect at most once.
ActsOnce == faults = {} => acts <= 1

\* ... and every retry that is answered, not told to wait, gets the one stored answer.
OneAnswer ==
  faults = {} => \A t \in Threads : answer[t] \in Threads => Exists /\ answer[t] = row.response

\* No claim wedges its key: unless the closing statement of the wrapper keeps failing
\* or every thread dies, a claim is answered or dropped, through a retry if need be.
NeverWedged ==
  "closing" \notin faults /\ Claimed ~> ~Claimed \/ \A t \in Threads : thread[t].phase = "dead"
=============================================================================
