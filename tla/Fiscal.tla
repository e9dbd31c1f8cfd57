-------------------------------- MODULE Fiscal --------------------------------
(***************************************************************************)
(* Fiscal receipts: FiscalizationService and the payload builder. The pay   *)
(* flows fiscalize inside their transaction; the button, the command and    *)
(* the retry sweep commit SENT, call the provider, and commit the answer.   *)
(***************************************************************************)
EXTENDS Integers, Sequences, FiniteSetsExt

CONSTANTS
  Sales, Types,    \* orders; SALE and REFUND
  Tickets,         \* what an order may come to: [lines, total], lines before its discount
  Callers,         \* processes that call the provider
  MaxAttempts,     \* the sweep leaves a receipt alone after that many
  MaxSends,        \* bound: attempts for a receipt
  MaxTaken         \* bound: times the provider takes a receipt on

VARIABLES
  mode,        \* the runtime toggle: "off" or "live"
  sale,        \* what an order comes to and whether it is paid
  receipt,     \* FiscalReceipt of an order and a type
  call,        \* what a process has sent and not heard of, or Idle
  reported,    \* how often the provider took a receipt on
  mishap       \* receipts with an answer that got lost, or two calls at once

fiscalVars == <<mode, sale, receipt, call, reported, mishap>>

Receipts == Sales \X Types
Unmade == [status |-> "none", attempts |-> 0, sign |-> FALSE]
Idle == [on |-> FALSE]

FiscalInit ==
  /\ mode = "live"
  /\ sale \in [Sales -> {[ticket |-> t, paid |-> FALSE] : t \in {t \in Tickets : t.total > 0}}]
  /\ receipt = [x \in Receipts |-> Unmade]
  /\ call = [w \in Callers |-> Idle]
  /\ reported = [x \in Receipts |-> 0] /\ mishap = {}

-----------------------------------------------------------------------------
(* build_receipt_payload: the lines share the discount, the last takes what *)
(* rounding left over.                                                      *)

SumOver(s, n) == SumFunctionOnSet(s, 1 .. n)
Apportioned(lines, total) ==
  LET gross == SumOver(lines, Len(lines))
      share == [i \in DOMAIN lines |-> (2 * lines[i] * total + gross) \div (2 * gross)]
      before == SumOver(share, Len(lines) - 1)
  IN IF gross = 0 \/ total = gross THEN lines ELSE [share EXCEPT ![Len(lines)] = total - before]

\* A ticket whose lines come to nothing is free: a discount takes no more than the lines.
ASSUME FiscalAssumption ==
  /\ "SALE" \in Types /\ MaxAttempts \in Nat /\ MaxSends \in Nat /\ MaxTaken \in Nat
  /\ \A t \in Tickets :
       /\ t.lines \in Seq(Nat) /\ t.total \in Nat
       /\ SumOver(t.lines, Len(t.lines)) = 0 => t.total = 0

-----------------------------------------------------------------------------
Sending(x) == {w \in Callers : call[w].on /\ call[w].of = x}
Paying(o) == {w \in Callers : call[w].on /\ call[w].pays /\ call[w].of[1] = o}

Send(w, x, pays) ==
  LET t == sale[x[1]].ticket
  IN /\ call[w] = Idle /\ Paying(x[1]) = {}
     /\ receipt[x].attempts < MaxSends
     /\ call' = [call EXCEPT ![w] =
          [on |-> TRUE, of |-> x, pays |-> pays, taken |-> FALSE,
           lines |-> Apportioned(t.lines, t.total), total |-> t.total]]
     /\ mishap' = IF Sending(x) # {} THEN mishap \cup {x} ELSE mishap
     /\ UNCHANGED <<mode, sale, reported>>

\* (mutant) a receipt that is confirmed is sent again
FiscalizeAgain(w, x) ==
  /\ mode # "off"
  /\ Send(w, x, FALSE)
  /\ receipt' = [receipt EXCEPT ![x].status = "SENT", ![x].attempts = @ + 1]
\* fiscalize_order by itself: the attempt is counted and committed before the call.
Fiscalize(w, x) ==
  /\ mode # "off" /\ receipt[x].status # "CONFIRMED"
  /\ Send(w, x, FALSE)
  /\ receipt' = [receipt EXCEPT ![x].status = "SENT", ![x].attempts = @ + 1]

\* retry_failed takes up what failed, up to a number of attempts.
Retry(w, x) ==
  /\ receipt[x].status = "FAILED" /\ receipt[x].attempts < MaxAttempts
  /\ Fiscalize(w, x)

\* _reap_stale_sent: SENT for 120 seconds; its call may be lost or merely slow.
Reap(x) ==
  /\ mode # "off" /\ receipt[x].status = "SENT" /\ Paying(x[1]) = {}
  /\ receipt' = [receipt EXCEPT ![x].status = IF receipt[x].sign THEN "CONFIRMED" ELSE "FAILED"]
  /\ UNCHANGED <<mode, sale, call, reported, mishap>>

\* mark_as_paid fiscalizes in its own transaction: nobody else sees the receipt until the
\* answer is there, and if the process dies there is neither a payment nor a receipt.
PayAndFiscalize(w, o) ==
  /\ ~sale[o].paid
  /\ mode # "off" /\ receipt[<<o, "SALE">>].status # "CONFIRMED"
  /\ Send(w, <<o, "SALE">>, TRUE)
  /\ UNCHANGED receipt
PayOnly(o) ==
  /\ ~sale[o].paid /\ Paying(o) = {}
  /\ mode = "off" \/ receipt[<<o, "SALE">>].status = "CONFIRMED"
  /\ sale' = [sale EXCEPT ![o].paid = TRUE]
  /\ UNCHANGED <<mode, receipt, call, reported, mishap>>

\* External: the provider takes a receipt on.
Take(w) ==
  /\ call[w].on /\ ~call[w].taken /\ reported[call[w].of] < MaxTaken
  /\ reported' = [reported EXCEPT ![call[w].of] = @ + 1]
  /\ call' = [call EXCEPT ![w].taken = TRUE]
  /\ UNCHANGED <<mode, sale, receipt, mishap>>

\* The answer is written over whatever the receipt says by then; a failure may also be an
\* answer that did not come in time.
Answered(w, ok) ==
  LET x == call[w].of
      pays == call[w].pays
  IN /\ call[w].on /\ (ok => call[w].taken)
     /\ pays \/ Paying(x[1]) = {}
     /\ receipt' = [receipt EXCEPT ![x] =
          [status |-> IF ok THEN "CONFIRMED" ELSE "FAILED",
           attempts |-> @.attempts + (IF pays THEN 1 ELSE 0),
           sign |-> ok \/ @.sign]]
     /\ sale' = IF pays THEN [sale EXCEPT ![x[1]].paid = TRUE] ELSE sale
     /\ mishap' = IF call[w].taken /\ ~ok THEN mishap \cup {x} ELSE mishap
     /\ call' = [call EXCEPT ![w] = Idle]
     /\ UNCHANGED <<mode, reported>>

\* The process dies before the answer is written.
CallerDies(w) ==
  /\ call[w].on
  /\ mishap' = IF call[w].taken THEN mishap \cup {call[w].of} ELSE mishap
  /\ call' = [call EXCEPT ![w] = Idle]
  /\ UNCHANGED <<mode, sale, receipt, reported>>

SetMode(m) ==
  /\ mode # m /\ mode' = m
  /\ UNCHANGED <<sale, receipt, call, reported, mishap>>
\* The lines of an order change until it is paid.
EditSale(o, t) ==
  /\ ~sale[o].paid /\ Paying(o) = {} /\ sale[o].ticket # t
  /\ sale' = [sale EXCEPT ![o].ticket = t]
  /\ UNCHANGED <<mode, receipt, call, reported, mishap>>

FiscalNext ==
  \/ \E w \in Callers, x \in Receipts : Fiscalize(w, x) \/ Retry(w, x)
  \/ \E x \in Receipts : Reap(x)
  \/ \E w \in Callers, o \in Sales : PayAndFiscalize(w, o)
  \/ \E o \in Sales : PayOnly(o)
  \/ \E w \in Callers : Take(w) \/ CallerDies(w)
  \/ \E w \in Callers, ok \in BOOLEAN : Answered(w, ok)
  \/ \E m \in {"off", "live"} : SetMode(m)
  \/ \E o \in Sales, t \in Tickets : EditSale(o, t)

-----------------------------------------------------------------------------
(* Properties                                                              *)

\* A receipt is confirmed only if the provider took it on, and as long as every answer arrived
\* and no two calls ran at once, a sale is reported once and its receipt says so, whatever
\* payments, buttons, sweeps, edits and deaths happened in between
\* (fiscalization_service.py:42, "Idempotent: re-calling ... is a no-op").
ReceiptsTell ==
  \A x \in Receipts :
    /\ receipt[x].status = "CONFIRMED" => receipt[x].sign /\ reported[x] > 0
    /\ x \notin mishap =>
         /\ reported[x] <= 1
         /\ reported[x] = 1 =>
              receipt[x].status = "CONFIRMED" \/ \E w \in Sending(x) : call[w].taken

\* The lines of what is sent sum to the amount that was charged (builder.py:33-34, "the line
\* totals sum to the amount actually charged").
LinesAddUp ==
  \A w \in Callers : call[w].on => SumOver(call[w].lines, Len(call[w].lines)) = call[w].total

\* Both: that a sale is reported, and what is reported of it.
ReceiptsAreTrue == ReceiptsTell /\ LinesAddUp
=============================================================================
