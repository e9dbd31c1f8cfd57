----------------------------- MODULE System_proof -----------------------------
(***************************************************************************)
(* What holds of the system around the office for every value of its        *)
(* constants: receipts, accounts, the licence, the desktop program, the     *)
(* menu, the floor and the catalogue of the stock. Each has an invariant of  *)
(* its own; the last section puts them side by side, as Office does.        *)
(***************************************************************************)
EXTENDS Office, Sums

-----------------------------------------------------------------------------
(* Fiscal receipts                                                         *)

ReceiptStatus == {"none", "SENT", "FAILED", "CONFIRMED"}
Receipt == [status : ReceiptStatus, attempts : Int, sign : BOOLEAN]
Call == [on : {TRUE}, of : Receipts, pays : BOOLEAN, taken : BOOLEAN, lines : Seq(Int), total : Nat]
FiscalTypes ==
  /\ mode \in {"off", "live"}
  /\ sale \in [Sales -> [ticket : Tickets, paid : BOOLEAN]]
  /\ receipt \in [Receipts -> Receipt]
  /\ reported \in [Receipts -> Nat]
  /\ call \in [Callers -> Call \cup {Idle}]

\* A receipt that nothing happened to is sent by one process at most, and by none once it is
\* confirmed; what it says is so, or is about to be said.
Sound(x) ==
  /\ receipt[x].status = "CONFIRMED" => receipt[x].sign
  /\ receipt[x].sign => reported[x] > 0
  /\ \A w \in Sending(x) : call[w].taken => reported[x] > 0
  /\ x \notin mishap =>
       /\ receipt[x].sign => receipt[x].status = "CONFIRMED"
       /\ \A w \in Sending(x) : receipt[x].status # "CONFIRMED" /\ \A v \in Sending(x) : v = w
       /\ reported[x] <= 1
       /\ reported[x] = 1 => receipt[x].status = "CONFIRMED" \/ \E w \in Sending(x) : call[w].taken
AllSound == \A x \in Receipts : Sound(x)
FiscalInv == FiscalTypes /\ AllSound /\ LinesAddUp

LEMMA GivenTickets ==
  \A t \in Tickets : /\ t.lines \in Seq(Nat) /\ t.total \in Nat
                     /\ SumOver(t.lines, Len(t.lines)) = 0 => t.total = 0
BY FiscalAssumption

LEMMA GivenTypes == "SALE" \in Types
BY FiscalAssumption

\* The last line takes what the others left of the total.
LEMMA ApportionedAddsUp ==
  ASSUME NEW lines \in Seq(Nat), NEW total \in Nat, SumOver(lines, Len(lines)) = 0 => total = 0
  PROVE  LET a == Apportioned(lines, total) IN a \in Seq(Int) /\ SumOver(a, Len(a)) = total
<1> DEFINE n == Len(lines)
           gross == SumOver(lines, n)
           share == [i \in DOMAIN lines |-> (2 * lines[i] * total + gross) \div (2 * gross)]
           before == SumOver(share, n - 1)
           a == [share EXCEPT ![n] = total - before]
<1>1. n \in Nat /\ DOMAIN lines = 1 .. n /\ \A i \in 1 .. n : lines[i] \in Nat
  OBVIOUS
<1>2. IsFiniteSet(1 .. n) /\ IsFiniteSet(1 .. n - 1)
  <2>1. 1 \in Int /\ n \in Int /\ n - 1 \in Int
    BY <1>1
  <2> QED BY <2>1, FS_Interval
<1>3. gross \in Nat
  BY <1>1, <1>2, SumIsNat DEF SumOver
<1>4. CASE gross = 0 \/ total = gross
  <2>1. Apportioned(lines, total) = lines
    BY <1>4 DEF Apportioned
  <2>2. gross = total
    BY <1>4
  <2>3. lines \in Seq(Int)
    OBVIOUS
  <2> QED BY <2>1, <2>2, <2>3
<1>5. CASE ~(gross = 0 \/ total = gross)
  <2>1. Apportioned(lines, total) = a
    BY <1>5 DEF Apportioned
  <2>2. n # 0
    <3>1. n = 0 => 1 .. n = {}
      OBVIOUS
    <3>2. n = 0 => gross = 0
      BY <3>1, SumOfNone DEF SumOver
    <3> QED BY <1>5, <3>2
  <2>3. ASSUME NEW i \in 1 .. n
        PROVE  share[i] \in Int
    <3> DEFINE x == 2 * lines[i] * total + gross
               y == 2 * gross
    <3>1. x \in Int /\ y \in Nat /\ y > 0
      <4> HIDE DEF gross, n
      <4>1. lines[i] \in Nat
        BY <1>1
      <4>2. gross > 0
        BY <1>3, <1>5
      <4>3. 2 * lines[i] * total \in Int
        BY <4>1
      <4> QED BY <1>3, <4>2, <4>3
    <3>2. share[i] = x \div y
      BY <1>1
    <3> HIDE DEF x, y, share
    <3>3. x \div y \in Int
      BY <3>1
    <3> QED BY <3>2, <3>3
  <2> HIDE DEF gross
  <2>4. /\ DOMAIN share = 1 .. n /\ a[n] = total - before /\ DOMAIN a = 1 .. n
        /\ \A i \in 1 .. n - 1 : a[i] = share[i]
    <3>1. DOMAIN share = 1 .. n /\ n \in 1 .. n
      BY <1>1, <2>2
    <3>2. a = [i \in 1 .. n |-> IF i = n THEN total - before ELSE share[i]]
      BY <3>1
    <3> HIDE DEF a, share, before, n
    <3> QED BY <1>1, <3>1, <3>2
  <2>5. a = [i \in 1 .. n |-> a[i]]
    BY <1>1
  <2> HIDE DEF share, a
  <2>6. before \in Int
    <3>1. \A i \in 1 .. n - 1 : share[i] \in Int
      BY <1>1, <2>3
    <3> QED BY <1>2, <3>1, SumIsInt DEF SumOver
  <2>7. SumOver(a, n - 1) = before
    BY <1>2, <2>4, SumSame DEF SumOver
  <2>8. /\ (1 .. n - 1) \cup {n} = 1 .. n /\ n \notin 1 .. n - 1
    BY <1>1, <2>2
  <2>9. \A i \in 1 .. n : a[i] \in Int
    <3> DEFINE b == before
    <3>1. b \in Int /\ total - b \in Int
      BY <2>6
    <3> HIDE DEF b
    <3>2. a[n] = total - b
      BY <2>4 DEF b
    <3>3. ASSUME NEW i \in 1 .. n, i # n
          PROVE  a[i] \in Int
      <4> HIDE DEF n
      <4>1. i \in 1 .. n - 1
        BY <1>1, <3>3
      <4> QED BY <2>3, <2>4, <4>1
    <3> QED BY <3>1, <3>2, <3>3
  <2>12. a \in Seq(Int) /\ Len(a) = n
    <3> HIDE DEF n
    <3>1. a \in [1 .. n -> Int]
      BY <2>5, <2>9
    <3> QED BY <1>1, <3>1
  <2>10. SumOver(a, n) = a[n] + SumOver(a, n - 1)
    <3>1. SumFunctionOnSet(a, (1 .. n - 1) \cup {n}) = a[n] + SumFunctionOnSet(a, 1 .. n - 1)
      <4> HIDE DEF n
      <4>1. \A i \in (1 .. n - 1) \cup {n} : a[i] \in Int
        BY <2>8, <2>9
      <4> QED BY <1>2, <2>8, <4>1, SumGains
    <3> QED BY <2>8, <3>1 DEF SumOver
  <2>11. SumOver(a, n) = total
    <3> DEFINE b == before
               c == a[n]
    <3>1. SumOver(a, n) = c + b /\ c = total - b /\ b \in Int
      BY <2>4, <2>6, <2>7, <2>10
    <3> HIDE DEF b, c
    <3>2. c + b = total
      BY <3>1
    <3> QED BY <3>1, <3>2
  <2> QED BY <2>1, <2>11, <2>12
<1> QED BY <1>4, <1>5

LEMMA CallIs ==
  ASSUME FiscalTypes, NEW w \in Callers, call[w].on
  PROVE  /\ call[w] \in Call /\ call[w].of \in Receipts
         /\ call[w].pays \in BOOLEAN /\ call[w].taken \in BOOLEAN
<1>1. call[w] \in Call
  BY DEF FiscalTypes, Idle
<1> QED BY <1>1 DEF Call

LEMMA FiscalBegins == FiscalInit => FiscalInv
<1> SUFFICES ASSUME FiscalInit PROVE FiscalInv
  OBVIOUS
<1>1. FiscalTypes
  <2>1. /\ sale \in [Sales -> [ticket : Tickets, paid : BOOLEAN]]
        /\ Unmade \in Receipt
    <3>1. {[ticket |-> t, paid |-> FALSE] : t \in {t \in Tickets : t.total > 0}} \subseteq
            [ticket : Tickets, paid : BOOLEAN]
      <4>1. \A t \in Tickets : [ticket |-> t, paid |-> FALSE] \in [ticket : Tickets, paid : BOOLEAN]
        OBVIOUS
      <4> QED BY <4>1
    <3>2. Unmade \in Receipt
      BY DEF Receipt, ReceiptStatus, Unmade
    <3> QED BY <3>1, <3>2 DEF FiscalInit
  <2> QED BY <2>1 DEF FiscalInit, FiscalTypes
<1>2. \A w \in Callers : ~call[w].on
  BY DEF FiscalInit, Idle
<1>3. AllSound
  BY <1>2 DEF FiscalInit, AllSound, Sound, Sending, Unmade
<1>4. LinesAddUp
  BY <1>2 DEF LinesAddUp
<1> QED BY <1>1, <1>3, <1>4 DEF FiscalInv

\* Where neither a receipt nor its calls change, it stays sound.
LEMMA SoundStays ==
  ASSUME FiscalTypes, NEW x \in Receipts, Sound(x),
         receipt'[x] = receipt[x], reported'[x] = reported[x], x \in mishap' <=> x \in mishap,
         DOMAIN call' = Callers,
         \A w \in Callers : \/ call'[w] = call[w]
                            \/ ~(call[w].on /\ call[w].of = x) /\ ~(call'[w].on /\ call'[w].of = x)
  PROVE  Sound(x)'
<1>1. Sending(x)' = Sending(x) /\ \A w \in Sending(x) : call'[w] = call[w]
  BY DEF Sending
<1> QED BY <1>1 DEF Sound

LEMMA SendKeeps ==
  ASSUME FiscalInv, NEW w \in Callers, NEW x \in Receipts, NEW pays \in BOOLEAN, Send(w, x, pays),
         receipt[x].status # "CONFIRMED",
         \/ UNCHANGED receipt
         \/ receipt' = [receipt EXCEPT ![x].status = "SENT", ![x].attempts = @ + 1]
  PROVE  FiscalInv'
<1> DEFINE t == sale[x[1]].ticket
           c == [on |-> TRUE, of |-> x, pays |-> pays, taken |-> FALSE,
                 lines |-> Apportioned(t.lines, t.total), total |-> t.total]
<1>1. t \in Tickets
  BY DEF FiscalInv, FiscalTypes, Receipts
<1>2. /\ call[w] = Idle /\ call' = [call EXCEPT ![w] = c] /\ UNCHANGED <<mode, sale, reported>>
      /\ mishap' = IF Sending(x) # {} THEN mishap \cup {x} ELSE mishap
  BY DEF Send
<1>3. /\ DOMAIN call = Callers /\ DOMAIN call' = Callers /\ call'[w] = c
      /\ \A v \in Callers : v # w => call'[v] = call[v]
  BY <1>2 DEF FiscalInv, FiscalTypes
<1>4. c.on /\ c.of = x /\ ~c.taken /\ c.lines = Apportioned(t.lines, t.total) /\ c.total = t.total
  OBVIOUS
<1>10. Apportioned(t.lines, t.total) \in Seq(Int) /\ t.total \in Nat
  BY <1>1, GivenTickets, ApportionedAddsUp
<1>11. c \in Call
  <2> HIDE DEF t
  <2> QED BY <1>10 DEF Call
<1> HIDE DEF t, c
<1>5. ~call[w].on
  BY <1>2 DEF Idle
<1>6. LinesAddUp'
  <2>1. SumOver(c.lines, Len(c.lines)) = c.total
    BY <1>1, <1>4, GivenTickets, ApportionedAddsUp
  <2> QED BY <1>3, <2>1 DEF LinesAddUp, FiscalInv
<1>7. /\ receipt' \in [Receipts -> Receipt]
      /\ receipt'[x].sign = receipt[x].sign /\ receipt'[x].status # "CONFIRMED"
      /\ \A y \in Receipts : y # x => receipt'[y] = receipt[y]
  BY DEF FiscalInv, FiscalTypes, Receipt, ReceiptStatus
<1>8. FiscalTypes'
  BY <1>2, <1>3, <1>11, <1>7 DEF FiscalInv, FiscalTypes
<1>9. ASSUME NEW y \in Receipts
      PROVE  Sound(y)'
  <2>1. CASE y # x
    BY <1>2, <1>3, <1>4, <1>5, <1>7, <2>1, SoundStays DEF FiscalInv, AllSound
  <2>2. CASE y = x
    <3>1. Sending(x)' = Sending(x) \cup {w} /\ w \notin Sending(x)
      BY <1>3, <1>4, <1>5 DEF Sending
    <3>2. \A v \in Sending(x) : call'[v] = call[v]
      BY <1>3, <3>1 DEF Sending
    <3>3. Sound(x) /\ reported[x] \in Nat
      BY DEF FiscalInv, AllSound, FiscalTypes
    <3>4. x \notin mishap' => Sending(x) = {} /\ x \notin mishap
      BY <1>2
    <3> QED BY <1>2, <1>3, <1>4, <1>7, <2>2, <3>1, <3>2, <3>3, <3>4 DEF Sound
  <2> QED BY <2>1, <2>2
<1> QED BY <1>6, <1>8, <1>9 DEF FiscalInv, AllSound

LEMMA TakeKeeps ==
  ASSUME FiscalInv, NEW w \in Callers, Take(w)
  PROVE  FiscalInv'
<1>1. PICK x \in Receipts :
      /\ x = call[w].of /\ call[w].on /\ ~call[w].taken
      /\ reported' = [reported EXCEPT ![x] = @ + 1] /\ call' = [call EXCEPT ![w].taken = TRUE]
      /\ UNCHANGED <<mode, sale, receipt, mishap>> /\ call[w] \in Call
  BY CallIs DEF Take, FiscalInv
<1>2. /\ DOMAIN call' = Callers /\ DOMAIN call = Callers
      /\ \A v \in Callers : v # w => call'[v] = call[v]
      /\ call'[w] = [call[w] EXCEPT !.taken = TRUE]
  BY <1>1 DEF FiscalInv, FiscalTypes
<1>3. /\ call'[w].on = call[w].on /\ call'[w].of = x /\ call'[w].lines = call[w].lines
      /\ call'[w].total = call[w].total /\ call'[w].taken /\ call'[w] \in Call
  <2> DEFINE c == call[w]
             d == call'[w]
  <2>1. c \in Call /\ d = [c EXCEPT !.taken = TRUE]
    BY <1>1, <1>2
  <2> HIDE DEF c, d
  <2>2. /\ d.on = c.on /\ d.of = c.of /\ d.lines = c.lines /\ d.total = c.total /\ d.taken
        /\ d \in Call
    BY <2>1 DEF Call
  <2> QED BY <1>1, <2>2 DEF c, d
<1>4. LinesAddUp'
  <2>1. ASSUME NEW v \in Callers, call'[v].on
        PROVE  SumOver(call'[v].lines, Len(call'[v].lines)) = call'[v].total
    <3>1. call[v].on /\ call'[v].lines = call[v].lines /\ call'[v].total = call[v].total
      BY <1>1, <1>2, <1>3, <2>1
    <3> QED BY <3>1 DEF LinesAddUp, FiscalInv
  <2> QED BY <2>1 DEF LinesAddUp
<1>5. reported' \in [Receipts -> Nat] /\ reported'[x] = reported[x] + 1 /\ reported[x] \in Nat
  BY <1>1 DEF FiscalInv, FiscalTypes
<1>6. FiscalTypes'
  <2>1. call' \in [Callers -> Call \cup {Idle}]
    BY <1>1, <1>3 DEF FiscalInv, FiscalTypes
  <2> QED BY <1>1, <1>5, <2>1 DEF FiscalInv, FiscalTypes
<1>7. ASSUME NEW y \in Receipts
      PROVE  Sound(y)'
  <2>1. CASE y # x
    <3>1. reported'[y] = reported[y]
      BY <1>1, <2>1 DEF FiscalInv, FiscalTypes
    <3> QED BY <1>1, <1>2, <1>3, <2>1, <3>1, SoundStays DEF FiscalInv, AllSound
  <2>2. CASE y = x
    <3>1. Sending(x)' = Sending(x) /\ w \in Sending(x)
      BY <1>1, <1>2, <1>3 DEF Sending
    <3>2. \A v \in Sending(x) : v # w => call'[v] = call[v]
      BY <1>2 DEF Sending
    <3>3. Sound(x)
      BY <1>1 DEF FiscalInv, AllSound
    <3>4. x \notin mishap => reported[x] = 0
      BY <1>1, <1>5, <3>1, <3>3 DEF Sound
    <3>5. reported'[x] > 0 /\ (x \notin mishap' => reported'[x] <= 1)
      BY <1>1, <1>5, <3>4
    <3>6. x \notin mishap' => \A v \in Sending(x) : receipt'[x].status # "CONFIRMED" /\ v = w
      BY <1>1, <3>1, <3>3 DEF Sound
    <3>7. receipt'[x] = receipt[x]
      BY <1>1
    <3>8. call'[w].taken /\ w \in Sending(x)'
      BY <1>3, <3>1
    <3>9. Sound(x)'
      BY <1>1, <3>3, <3>5, <3>6, <3>7, <3>8, <3>1 DEF Sound
    <3> QED BY <2>2, <3>9
  <2> QED BY <2>1, <2>2
<1> QED BY <1>4, <1>6, <1>7 DEF FiscalInv, AllSound

\* A call is over, and what it says of the receipt is written or not.
LEMMA CallEndsKeeps ==
  ASSUME FiscalInv, NEW w \in Callers, call[w].on, call' = [call EXCEPT ![w] = Idle],
         UNCHANGED <<mode, reported>>, sale' \in [Sales -> [ticket : Tickets, paid : BOOLEAN]],
         receipt' \in [Receipts -> Receipt],
         \A y \in Receipts : y # call[w].of => receipt'[y] = receipt[y],
         LET x == call[w].of IN
           \/ /\ call[w].taken /\ mishap' = mishap
              /\ receipt'[x].status = "CONFIRMED" /\ receipt'[x].sign
           \/ /\ mishap' = IF call[w].taken THEN mishap \cup {x} ELSE mishap
              /\ \/ receipt'[x] = receipt[x]
                 \/ receipt'[x].status = "FAILED" /\ receipt'[x].sign = receipt[x].sign
  PROVE  FiscalInv'
<1>1. PICK x \in Receipts : x = call[w].of
  BY CallIs DEF FiscalInv
<1>2. /\ \A v \in Callers : v # w => call'[v] = call[v]
      /\ call'[w] = Idle /\ ~call'[w].on /\ call' \in [Callers -> Call \cup {Idle}]
  BY DEF FiscalInv, FiscalTypes, Idle
<1>3. LinesAddUp'
  BY <1>2 DEF LinesAddUp, FiscalInv
<1>4. FiscalTypes'
  BY <1>2 DEF FiscalInv, FiscalTypes
<1>5. ASSUME NEW y \in Receipts, y # x
      PROVE  Sound(y)'
  <2>1. receipt'[y] = receipt[y] /\ reported'[y] = reported[y] /\ (y \in mishap' <=> y \in mishap)
    BY <1>1, <1>5
  <2>2. \A v \in Callers : \/ call'[v] = call[v]
                           \/ ~(call[v].on /\ call[v].of = y) /\ ~(call'[v].on /\ call'[v].of = y)
    BY <1>1, <1>2, <1>5
  <2>3. FiscalTypes /\ Sound(y) /\ DOMAIN call' = Callers
    BY <1>2 DEF FiscalInv, AllSound
  <2> QED BY <2>1, <2>2, <2>3, SoundStays
<1>6. Sound(x)'
  <2>1. Sending(x)' = Sending(x) \ {w} /\ w \in Sending(x)
    BY <1>1, <1>2 DEF Sending
  <2>2. \A v \in Sending(x)' : call'[v] = call[v] /\ v \in Sending(x)
    <3>1. \A v \in Sending(x) : v \in Callers
      BY DEF Sending
    <3> QED BY <1>2, <2>1, <3>1
  <2>3. Sound(x) /\ reported[x] \in Nat /\ receipt[x].sign \in BOOLEAN
    BY <1>1 DEF FiscalInv, AllSound, FiscalTypes, Receipt
  <2>4. x \notin mishap' => x \notin mishap
    BY <1>1
  <2>5. x \notin mishap => Sending(x)' = {}
    BY <2>1, <2>3 DEF Sound
  <2>6. call[w].taken => reported[x] > 0
    BY <2>1, <2>3 DEF Sound
  <2>7. CASE mishap' = mishap /\ call[w].taken /\ receipt'[x].status = "CONFIRMED" /\ receipt'[x].sign
    <3>1. reported'[x] = reported[x] /\ (x \notin mishap => reported[x] <= 1)
      BY <2>3 DEF Sound
    <3> QED BY <2>2, <2>3, <2>4, <2>5, <2>6, <2>7, <3>1 DEF Sound
  <2>8. CASE /\ mishap' = IF call[w].taken THEN mishap \cup {x} ELSE mishap
             /\ \/ receipt'[x] = receipt[x]
                \/ receipt'[x].status = "FAILED" /\ receipt'[x].sign = receipt[x].sign
    <3>1. reported'[x] = reported[x] /\ \A v \in Sending(x) : call[v].taken => reported[x] > 0
      BY <2>3 DEF Sound
    <3>2. x \notin mishap' => reported[x] = 0 /\ ~receipt[x].sign /\ receipt[x].status # "CONFIRMED"
      <4>1. x \notin mishap' => ~call[w].taken
        BY <2>8
      <4> QED BY <2>1, <2>3, <2>4, <4>1 DEF Sound
    <3>3. /\ receipt'[x].status = "CONFIRMED" => receipt'[x].sign
          /\ receipt'[x].sign => reported[x] > 0
      BY <2>3, <2>8 DEF Sound
    <3> QED BY <2>2, <2>3, <2>5, <2>4, <2>8, <3>1, <3>2, <3>3 DEF Sound
  <2> QED BY <1>1, <2>7, <2>8
<1> QED BY <1>3, <1>4, <1>5, <1>6 DEF FiscalInv, AllSound

LEMMA AnsweredKeeps ==
  ASSUME FiscalInv, NEW w \in Callers, NEW ok \in BOOLEAN, Answered(w, ok)
  PROVE  FiscalInv'
<1> DEFINE x == call[w].of
           n == [status |-> IF ok THEN "CONFIRMED" ELSE "FAILED",
                 attempts |-> receipt[x].attempts + (IF call[w].pays THEN 1 ELSE 0),
                 sign |-> ok \/ receipt[x].sign]
<1>1. /\ call[w].on /\ (ok => call[w].taken) /\ receipt' = [receipt EXCEPT ![x] = n]
      /\ call' = [call EXCEPT ![w] = Idle] /\ UNCHANGED <<mode, reported>>
      /\ mishap' = IF call[w].taken /\ ~ok THEN mishap \cup {x} ELSE mishap
      /\ sale' = IF call[w].pays THEN [sale EXCEPT ![x[1]].paid = TRUE] ELSE sale
  BY DEF Answered
<1>2. x \in Receipts /\ call[w].pays \in BOOLEAN /\ call[w].taken \in BOOLEAN
  BY <1>1, CallIs DEF FiscalInv
<1>3. receipt[x].attempts \in Int /\ receipt[x].sign \in BOOLEAN /\ receipt \in [Receipts -> Receipt]
  BY <1>2 DEF FiscalInv, FiscalTypes, Receipt
<1>4. n \in Receipt
  <2> DEFINE k == receipt[x].attempts + (IF call[w].pays THEN 1 ELSE 0)
             b == ok \/ receipt[x].sign
  <2>1. k \in Int /\ b \in BOOLEAN
    BY <1>3
  <2> HIDE DEF k, b
  <2>2. (IF ok THEN "CONFIRMED" ELSE "FAILED") \in ReceiptStatus
    BY DEF ReceiptStatus
  <2> QED BY <2>1, <2>2 DEF Receipt, k, b
<1>5. /\ n.status = (IF ok THEN "CONFIRMED" ELSE "FAILED") /\ (ok => n.sign)
      /\ ~ok => n.sign = receipt[x].sign
  BY <1>3
<1> HIDE DEF n
<1>6. /\ receipt' \in [Receipts -> Receipt] /\ receipt'[x] = n
      /\ \A y \in Receipts : y # x => receipt'[y] = receipt[y]
  BY <1>1, <1>2, <1>3, <1>4
<1>7. sale' \in [Sales -> [ticket : Tickets, paid : BOOLEAN]]
  BY <1>1 DEF FiscalInv, FiscalTypes
<1> HIDE DEF x
<1>8. CASE ok
  BY <1>1, <1>5, <1>6, <1>7, <1>8, CallEndsKeeps DEF x
<1>9. CASE ~ok
  BY <1>1, <1>5, <1>6, <1>7, <1>9, CallEndsKeeps DEF x
<1> QED BY <1>8, <1>9

LEMMA CallerDiesKeeps ==
  ASSUME FiscalInv, NEW w \in Callers, CallerDies(w)
  PROVE  FiscalInv'
<1>1. sale' \in [Sales -> [ticket : Tickets, paid : BOOLEAN]] /\ receipt' \in [Receipts -> Receipt]
  BY DEF CallerDies, FiscalInv, FiscalTypes
<1> QED BY <1>1, CallEndsKeeps DEF CallerDies

LEMMA ReapKeeps ==
  ASSUME FiscalInv, NEW x \in Receipts, Reap(x)
  PROVE  FiscalInv'
<1> DEFINE s == IF receipt[x].sign THEN "CONFIRMED" ELSE "FAILED"
<1>1. /\ receipt[x].status = "SENT" /\ receipt' = [receipt EXCEPT ![x].status = s]
      /\ UNCHANGED <<mode, sale, call, reported, mishap>>
  BY DEF Reap
<1>2. s \in ReceiptStatus /\ receipt[x] \in Receipt
  BY DEF ReceiptStatus, FiscalInv, FiscalTypes
<1>3. /\ receipt' \in [Receipts -> Receipt] /\ receipt'[x] = [receipt[x] EXCEPT !.status = s]
      /\ \A y \in Receipts : y # x => receipt'[y] = receipt[y]
  <2> HIDE DEF s
  <2>1. [receipt[x] EXCEPT !.status = s] \in Receipt
    BY <1>2 DEF Receipt
  <2> QED BY <1>1, <2>1 DEF FiscalInv, FiscalTypes
<1>4. receipt'[x].status = s /\ receipt'[x].sign = receipt[x].sign
  <2> HIDE DEF s
  <2> QED BY <1>2, <1>3 DEF Receipt
<1>5. Sound(x)'
  <2>1. Sound(x) /\ Sending(x)' = Sending(x)
    BY <1>1 DEF FiscalInv, AllSound, Sending
  <2>2. x \notin mishap => ~receipt[x].sign
    BY <1>1, <2>1 DEF Sound
  <2> QED BY <1>1, <1>4, <2>1, <2>2 DEF Sound
<1>6. ASSUME NEW y \in Receipts, y # x
      PROVE  Sound(y)'
  <2>1. FiscalTypes /\ Sound(y) /\ DOMAIN call' = Callers
    BY <1>1 DEF FiscalInv, AllSound, FiscalTypes
  <2> QED BY <1>1, <1>3, <1>6, <2>1, SoundStays
<1>7. FiscalTypes' /\ LinesAddUp'
  BY <1>1, <1>3 DEF FiscalInv, FiscalTypes, LinesAddUp
<1> QED BY <1>5, <1>6, <1>7 DEF FiscalInv, AllSound

\* Nothing happens to receipts, or calls.
LEMMA ReceiptsStay ==
  ASSUME FiscalInv, UNCHANGED <<receipt, call, reported, mishap>>, mode' \in {"off", "live"},
         sale' \in [Sales -> [ticket : Tickets, paid : BOOLEAN]]
  PROVE  FiscalInv'
<1>1. FiscalTypes' /\ LinesAddUp'
  BY DEF FiscalInv, FiscalTypes, LinesAddUp
<1>2. ASSUME NEW x \in Receipts
      PROVE  Sound(x)'
  BY SoundStays DEF FiscalInv, AllSound, FiscalTypes
<1> QED BY <1>1, <1>2 DEF FiscalInv, AllSound

LEMMA FiscalKeeps == FiscalInv /\ [FiscalNext]_fiscalVars => FiscalInv'
<1> SUFFICES ASSUME FiscalInv, [FiscalNext]_fiscalVars PROVE FiscalInv'
  OBVIOUS
<1>1. ASSUME NEW w \in Callers, NEW x \in Receipts, Fiscalize(w, x) \/ Retry(w, x)
      PROVE  FiscalInv'
  <2>1. Fiscalize(w, x)
    BY <1>1 DEF Retry
  <2> QED BY <2>1, SendKeeps DEF Fiscalize
<1>2. ASSUME NEW w \in Callers, NEW o \in Sales, PayAndFiscalize(w, o)
      PROVE  FiscalInv'
  <2>1. <<o, "SALE">> \in Receipts
    BY GivenTypes DEF Receipts
  <2> QED BY <1>2, <2>1, SendKeeps DEF PayAndFiscalize
<1>3. ASSUME NEW o \in Sales, PayOnly(o)
      PROVE  FiscalInv'
  <2>1. sale' \in [Sales -> [ticket : Tickets, paid : BOOLEAN]] /\ mode' \in {"off", "live"}
    BY <1>3 DEF PayOnly, FiscalInv, FiscalTypes
  <2> QED BY <1>3, <2>1, ReceiptsStay DEF PayOnly
<1>4. ASSUME NEW m \in {"off", "live"}, SetMode(m)
      PROVE  FiscalInv'
  BY <1>4, ReceiptsStay DEF SetMode, FiscalInv, FiscalTypes
<1>5. ASSUME NEW o \in Sales, NEW t \in Tickets, EditSale(o, t)
      PROVE  FiscalInv'
  <2>1. sale' \in [Sales -> [ticket : Tickets, paid : BOOLEAN]] /\ mode' \in {"off", "live"}
    BY <1>5 DEF EditSale, FiscalInv, FiscalTypes
  <2> QED BY <1>5, <2>1, ReceiptsStay DEF EditSale
<1>6. CASE UNCHANGED fiscalVars
  BY <1>6, ReceiptsStay DEF fiscalVars, FiscalInv, FiscalTypes
<1>7. CASE FiscalNext
  BY <1>1, <1>2, <1>3, <1>4, <1>5, <1>7, ReapKeeps, TakeKeeps, CallerDiesKeeps, AnsweredKeeps DEF FiscalNext
<1> QED BY <1>6, <1>7
-----------------------------------------------------------------------------
(* Accounts                                                                *)

CopyStands(s) ==
  cached[s].is = "copy" /\ ~cached[s].late =>
    /\ session[s].is = "live"
    /\ Owner(s) \in dropping \/ cached[s].user = user[Owner(s)]
SessionRow == [is : {"unused", "ended"}] \cup [is : {"live", "ended"}, of : Users]
AccountTypes ==
  /\ session \in [Sessions -> SessionRow] /\ DOMAIN cached = Sessions /\ DOMAIN user = Users
  /\ DOMAIN request = Requests
SessionsOwned == \A s \in Sessions : session[s].is = "live" => Owner(s) \in Users
Fits(j) ==
  \/ j = AtEase
  \/ \E u \in Users : j = [phase |-> "login", of |-> u]
  \/ \E phase \in {"put", "decide", "revoke"}, s \in Sessions : \E copied :
       j = [phase |-> phase, s |-> s, copy |-> copied]
RequestsFit == \A r \in Requests : Fits(request[r])
\* While the deletion of a session is signalled and not committed, no copy of it is in the cache
\* but one put there late.
EndingForgotten ==
  \A S \in ending : \A s \in S : s \in Sessions /\ (cached[s].is = "copy" => cached[s].late)
\* While the pull of a user is signalled and not committed, no copy of it is in the cache but one
\* put there late.
ArrivingForgotten ==
  \A s \in Sessions : cached[s].is = "copy" /\ ~cached[s].late => ~Pulled(Owner(s))
AllCurrent == \A s \in Sessions : CopyStands(s)
AccountsInv ==
  /\ AccountTypes /\ SessionsOwned /\ RequestsFit /\ EndingForgotten /\ ArrivingForgotten
  /\ AllCurrent

LEMMA AccountsBegin == AccountsInit => AccountsInv
<1> SUFFICES ASSUME AccountsInit PROVE AccountsInv
  OBVIOUS
<1>1. AccountTypes
  <2>1. session \in [Sessions -> SessionRow]
    BY DEF AccountsInit, SessionRow
  <2> QED BY <2>1 DEF AccountsInit, AccountTypes
<1>2. SessionsOwned /\ RequestsFit /\ EndingForgotten
  BY DEF AccountsInit, SessionsOwned, RequestsFit, Fits, EndingForgotten
<1>3. AllCurrent /\ ArrivingForgotten
  BY DEF AccountsInit, AllCurrent, ArrivingForgotten, CopyStands, NotCached
<1> QED BY <1>1, <1>2, <1>3 DEF AccountsInv

\* Copies may be dropped, and deletions signalled of sessions whose copies are.
LEMMA CopiesDrop ==
  ASSUME AccountsInv, UNCHANGED <<user, session>>, DOMAIN cached' = Sessions,
         \A s \in Sessions : cached'[s] = cached[s] \/ cached'[s] = NotCached,
         dropping \subseteq dropping', arriving' = arriving,
         \A S \in ending' : S \in ending \/ \A s \in S : s \in Sessions /\ cached'[s] = NotCached,
         DOMAIN request' = Requests, RequestsFit'
  PROVE  AccountsInv'
<1>1. AccountTypes' /\ SessionsOwned'
  BY DEF AccountsInv, AccountTypes, SessionsOwned, Owner
<1>2. NotCached.is # "copy"
  BY DEF NotCached
<1>3. EndingForgotten'
  BY <1>2 DEF AccountsInv, EndingForgotten
<1>4. AllCurrent'
  <2> SUFFICES ASSUME NEW s \in Sessions PROVE CopyStands(s)'
    BY DEF AllCurrent
  <2>1. CASE cached'[s] = NotCached
    BY <1>2, <2>1 DEF CopyStands
  <2>2. CASE cached'[s] = cached[s]
    BY <2>2 DEF AccountsInv, AllCurrent, CopyStands, Owner
  <2> QED BY <2>1, <2>2
<1>5. ArrivingForgotten'
  BY <1>2 DEF AccountsInv, ArrivingForgotten, Pulled, Owner
<1> QED BY <1>1, <1>3, <1>4, <1>5 DEF AccountsInv

LEMMA EndingKeeps ==
  ASSUME AccountsInv, NEW S, S \subseteq Sessions, EndSessions(S), UNCHANGED <<user, session>>,
         dropping \subseteq dropping', arriving' = arriving, DOMAIN request' = Requests, RequestsFit'
  PROVE  AccountsInv'
<1>1. DOMAIN cached' = Sessions /\ \A s \in Sessions : cached'[s] = IF s \in S THEN NotCached ELSE cached[s]
  BY DEF EndSessions, Dropped
<1>2. \A T \in ending' : T \in ending \/ \A s \in T : s \in Sessions /\ cached'[s] = NotCached
  BY <1>1 DEF EndSessions
<1> QED BY <1>1, <1>2, CopiesDrop

LEMMA RequestGoesOn ==
  ASSUME AccountsInv, NEW r \in Requests, NEW j, Fits(j), request' = [request EXCEPT ![r] = j]
  PROVE  DOMAIN request' = Requests /\ RequestsFit'
<1>1. DOMAIN request' = Requests /\ request'[r] = j /\ \A q \in Requests : q # r => request'[q] = request[q]
  BY DEF AccountsInv, AccountTypes
<1>2. \A q \in Requests : Fits(request[q])
  BY DEF AccountsInv, RequestsFit
<1>3. ASSUME NEW q \in Requests PROVE Fits(request'[q])
  <2>1. CASE q = r
    BY <1>1, <2>1, Zenon
  <2>2. CASE q # r
    BY <1>1, <1>2, <2>2, Zenon
  <2> QED BY <2>1, <2>2
<1>4. RequestsFit'
  BY <1>3 DEF RequestsFit, Fits
<1> QED BY <1>1, <1>4

LEMMA AtItsPhase ==
  ASSUME AccountsInv, NEW r \in Requests, request[r].phase \in {"put", "decide", "revoke"}
  PROVE  \E s \in Sessions : \E copied : request[r] = [phase |-> request[r].phase, s |-> s, copy |-> copied]
<1>1. Fits(request[r])
  BY DEF AccountsInv, RequestsFit
<1>2. request[r] # AtEase /\ \A u : request[r] # [phase |-> "login", of |-> u]
  BY DEF AtEase
<1>3. PICK phase \in {"put", "decide", "revoke"}, s \in Sessions : \E copied :
        request[r] = [phase |-> phase, s |-> s, copy |-> copied]
  BY <1>1, <1>2 DEF Fits
<1>4. PICK copied : request[r] = [phase |-> phase, s |-> s, copy |-> copied]
  BY <1>3
<1>5. request[r].phase = phase
  BY <1>4
<1> QED BY <1>4, <1>5

LEMMA SignalKeeps ==
  ASSUME AccountsInv, NEW u \in Users, SignalSaved(u)
  PROVE  AccountsInv'
<1>1. DOMAIN cached' = Sessions /\ \A s \in Sessions : cached'[s] = IF s \in SessionsOf(u) THEN NotCached ELSE cached[s]
  BY DEF SignalSaved, Dropped
<1>2. UNCHANGED <<user, session, expired, request, edit, ending, arriving>> /\ dropping' = dropping \ {u}
  BY DEF SignalSaved
<1>3. NotCached.is # "copy"
  BY DEF NotCached
<1>4. AccountTypes' /\ SessionsOwned' /\ RequestsFit' /\ EndingForgotten' /\ ArrivingForgotten'
  BY <1>1, <1>2, <1>3 DEF AccountsInv, AccountTypes, SessionsOwned, RequestsFit, Fits, EndingForgotten,
                          ArrivingForgotten, Pulled, Owner
<1>5. AllCurrent'
  <2> SUFFICES ASSUME NEW s \in Sessions PROVE CopyStands(s)'
    BY DEF AllCurrent
  <2>1. CASE s \in SessionsOf(u)
    BY <1>1, <1>3, <2>1 DEF CopyStands
  <2>2. CASE s \notin SessionsOf(u)
    <3>1. CopyStands(s) /\ cached'[s] = cached[s]
      BY <1>1, <2>2 DEF AccountsInv, AllCurrent
    <3>2. session[s].is = "live" => Owner(s) # u
      BY <2>2 DEF SessionsOf, Owner
    <3> QED BY <1>2, <3>1, <3>2 DEF CopyStands, Owner
  <2> QED BY <2>1, <2>2
<1> QED BY <1>4, <1>5 DEF AccountsInv

LEMMA CommitKeeps ==
  ASSUME AccountsInv, NEW S \in ending, CommitEnd(S)
  PROVE  AccountsInv'
<1>1. UNCHANGED <<user, cached, request, dropping, arriving>> /\ ending' = ending \ {S}
  BY DEF CommitEnd
<1>2. DOMAIN session' = Sessions /\ \A s \in Sessions \ S : session'[s] = session[s]
  BY DEF CommitEnd
<1>3. \A s \in S : s \in Sessions => session'[s].is = "ended" /\ session'[s] \in SessionRow
  <2> SUFFICES ASSUME NEW s \in S, s \in Sessions
               PROVE  session'[s].is = "ended" /\ session'[s] \in SessionRow
    OBVIOUS
  <2>1. session'[s] = [session[s] EXCEPT !.is = "ended"]
    BY DEF CommitEnd
  <2>2. session[s] \in SessionRow
    BY DEF AccountsInv, AccountTypes
  <2>3. CASE session[s] \in [is : {"unused", "ended"}]
    BY <2>1, <2>3 DEF SessionRow
  <2>4. CASE session[s] \in [is : {"live", "ended"}, of : Users]
    BY <2>1, <2>4 DEF SessionRow
  <2> QED BY <2>2, <2>3, <2>4 DEF SessionRow
<1>4. session' \in [Sessions -> SessionRow]
  <2>1. \A s \in Sessions : session'[s] \in SessionRow
    BY <1>2, <1>3 DEF AccountsInv, AccountTypes
  <2>2. session' = [s \in Sessions |-> session'[s]]
    BY DEF CommitEnd
  <2> QED BY <2>1, <2>2
<1>5. AccountTypes' /\ RequestsFit' /\ EndingForgotten'
  BY <1>1, <1>4 DEF AccountsInv, AccountTypes, RequestsFit, Fits, EndingForgotten
<1>6. SessionsOwned'
  BY <1>2, <1>3 DEF AccountsInv, SessionsOwned, Owner
<1>8. ArrivingForgotten'
  <2> SUFFICES ASSUME NEW s \in Sessions, cached[s].is = "copy", ~cached[s].late
               PROVE  ~Pulled(Owner(s)')
    BY <1>1 DEF ArrivingForgotten, Pulled
  <2>1. s \notin S /\ ~Pulled(Owner(s))
    BY DEF AccountsInv, EndingForgotten, ArrivingForgotten
  <2> QED BY <1>2, <2>1 DEF Owner
<1>7. AllCurrent'
  <2> SUFFICES ASSUME NEW s \in Sessions PROVE CopyStands(s)'
    BY DEF AllCurrent
  <2>1. CASE s \in S
    BY <1>1, <2>1 DEF AccountsInv, EndingForgotten, CopyStands
  <2>2. CASE s \notin S
    BY <1>1, <1>2, <2>2 DEF AccountsInv, AllCurrent, CopyStands, Owner
  <2> QED BY <2>1, <2>2
<1> QED BY <1>5, <1>6, <1>7, <1>8 DEF AccountsInv

LEMMA LoginOpensKeeps ==
  ASSUME AccountsInv, NEW r \in Requests, NEW s \in Sessions, LoginOpens(r, s)
  PROVE  AccountsInv'
<1>1. PICK u \in Users : request[r] = [phase |-> "login", of |-> u]
  <2>1. Fits(request[r]) /\ request[r].phase = "login"
    BY DEF LoginOpens, AccountsInv, RequestsFit
  <2>2. \A phase \in {"put", "decide", "revoke"} : \A s_1, copied : request[r] # [phase |-> phase, s |-> s_1, copy |-> copied]
    BY <2>1
  <2>3. request[r] # AtEase
    BY <2>1 DEF AtEase
  <2> QED BY <2>1, <2>2, <2>3 DEF Fits
<1>2. /\ session' = [session EXCEPT ![s] = [is |-> "live", of |-> u]] /\ session[s].is = "unused"
      /\ dropping' = dropping \cup {u} /\ UNCHANGED <<user, cached, ending, arriving>>
  BY <1>1 DEF LoginOpens
<1>3. DOMAIN request' = Requests /\ RequestsFit'
  <2>1. request' = [request EXCEPT ![r] = AtEase] /\ Fits(AtEase)
    BY DEF LoginOpens, Fits
  <2> QED BY <2>1, RequestGoesOn
<1>4. session' \in [Sessions -> SessionRow]
  BY <1>2 DEF AccountsInv, AccountTypes, SessionRow
<1>5. AccountTypes' /\ EndingForgotten'
  BY <1>2, <1>3, <1>4 DEF AccountsInv, AccountTypes, EndingForgotten
<1>6. SessionsOwned'
  BY <1>2 DEF AccountsInv, AccountTypes, SessionsOwned, Owner
<1>7. AllCurrent'
  <2> SUFFICES ASSUME NEW x \in Sessions PROVE CopyStands(x)'
    BY DEF AllCurrent
  <2>1. CopyStands(x) /\ (x # s => session'[x] = session[x])
    BY <1>2 DEF AccountsInv, AccountTypes, AllCurrent
  <2> QED BY <1>2, <2>1 DEF CopyStands, Owner
<1>8. ArrivingForgotten'
  <2> SUFFICES ASSUME NEW x \in Sessions, cached[x].is = "copy", ~cached[x].late
               PROVE  ~Pulled(Owner(x)')
    BY <1>2 DEF ArrivingForgotten, Pulled
  <2>1. x # s /\ ~Pulled(Owner(x))
    BY <1>2 DEF AccountsInv, AllCurrent, CopyStands, ArrivingForgotten
  <2> QED BY <1>2, <2>1 DEF Owner, AccountsInv, AccountTypes
<1> QED BY <1>3, <1>5, <1>6, <1>7, <1>8 DEF AccountsInv

LEMMA PutsKeeps ==
  ASSUME AccountsInv, NEW r \in Requests, Puts(r)
  PROVE  AccountsInv'
<1>1. PICK s \in Sessions : \E copied : request[r] = [phase |-> "put", s |-> s, copy |-> copied]
  BY AtItsPhase DEF Puts
<1>2. PICK read : request[r] = [phase |-> "put", s |-> s, copy |-> read]
  BY <1>1
<1>3. PICK entry : entry = [is |-> "copy", user |-> read, late |-> Late(s, read)]
  OBVIOUS
<1>4. /\ entry.is = "copy" /\ entry.user = read
      /\ ~entry.late => /\ session[s].is = "live" /\ user[Owner(s)] = read /\ ~Pulled(Owner(s))
                        /\ \A S \in ending : s \notin S
  BY <1>3 DEF Late
<1>5. /\ cached' = [cached EXCEPT ![s] = entry]
      /\ UNCHANGED <<user, session, dropping, ending, arriving>>
  BY <1>2, <1>3 DEF Puts
<1>6. DOMAIN request' = Requests /\ RequestsFit'
  <2>1. PICK j : j = [phase |-> "decide", s |-> s, copy |-> read]
    OBVIOUS
  <2>2. Fits(j)
    BY <2>1 DEF Fits
  <2>3. request' = [request EXCEPT ![r] = j]
    <3>1. [request[r] EXCEPT !.phase = "decide"] = j
      BY <1>2, <2>1
    <3>2. request' = [request EXCEPT ![r] = [request[r] EXCEPT !.phase = "decide"]]
      BY DEF Puts
    <3> QED BY <3>1, <3>2, Zenon
  <2> QED BY <2>2, <2>3, RequestGoesOn
<1>7. cached'[s] = entry /\ DOMAIN cached' = Sessions /\ \A x \in Sessions : x # s => cached'[x] = cached[x]
  BY <1>5 DEF AccountsInv, AccountTypes
<1>8. AccountTypes' /\ SessionsOwned'
  BY <1>5, <1>6, <1>7 DEF AccountsInv, AccountTypes, SessionsOwned, Owner
<1>9. EndingForgotten' /\ ArrivingForgotten'
  BY <1>4, <1>5, <1>7 DEF AccountsInv, EndingForgotten, ArrivingForgotten, Pulled, Owner
<1>10. AllCurrent'
  <2> SUFFICES ASSUME NEW x \in Sessions PROVE CopyStands(x)'
    BY DEF AllCurrent
  <2>1. CASE x = s
    BY <1>4, <1>5, <1>7, <2>1 DEF CopyStands, Owner
  <2>2. CASE x # s
    BY <1>5, <1>7, <2>2 DEF AccountsInv, AllCurrent, CopyStands, Owner
  <2> QED BY <2>1, <2>2
<1> QED BY <1>6, <1>8, <1>9, <1>10 DEF AccountsInv

\* A save of an account is a change that is still to be signalled.
LEMMA SaveKeeps ==
  ASSUME AccountsInv, NEW u, dropping' = dropping \cup {u}, DOMAIN user' = Users,
         \A v \in Users : v # u => user'[v] = user[v],
         UNCHANGED <<session, cached, request, ending, arriving>>
  PROVE  AccountsInv'
<1>1. AccountTypes' /\ SessionsOwned' /\ RequestsFit' /\ EndingForgotten' /\ ArrivingForgotten'
  BY DEF AccountsInv, AccountTypes, SessionsOwned, RequestsFit, Fits, EndingForgotten, ArrivingForgotten,
         Pulled, Owner
<1>2. AllCurrent'
  <2> SUFFICES ASSUME NEW s \in Sessions PROVE CopyStands(s)'
    BY DEF AllCurrent
  <2>1. CopyStands(s) /\ (session[s].is = "live" => Owner(s) \in Users)
    BY DEF AccountsInv, AllCurrent, SessionsOwned
  <2> QED BY <2>1 DEF CopyStands, Owner
<1> QED BY <1>1, <1>2 DEF AccountsInv

\* A pulled user is signalled first; by its commit no copy is left that was not put late.
LEMMA PullSavesKeeps ==
  ASSUME AccountsInv, NEW u \in Users, NEW fresh, PullSaves(u, fresh)
  PROVE  AccountsInv'
<1>1. DOMAIN cached' = Sessions /\ \A s \in Sessions : cached'[s] = IF s \in SessionsOf(u) THEN NotCached ELSE cached[s]
  BY DEF PullSaves, Dropped
<1>2. UNCHANGED <<user, session, request, dropping, ending>> /\ arriving' = arriving \cup {<<u, fresh>>}
  BY DEF PullSaves
<1>3. NotCached.is # "copy"
  BY DEF NotCached
<1>4. AccountTypes' /\ SessionsOwned' /\ RequestsFit' /\ EndingForgotten' /\ AllCurrent'
  BY <1>1, <1>2, <1>3 DEF AccountsInv, AccountTypes, SessionsOwned, RequestsFit, Fits, EndingForgotten,
                          AllCurrent, CopyStands, Owner
<1>5. ArrivingForgotten'
  <2> SUFFICES ASSUME NEW s \in Sessions, cached'[s].is = "copy", ~cached'[s].late
               PROVE  ~Pulled(Owner(s))'
    BY DEF ArrivingForgotten
  <2>1. s \notin SessionsOf(u) /\ cached'[s] = cached[s]
    BY <1>1, <1>3
  <2>2. CopyStands(s) /\ ~Pulled(Owner(s))
    BY <2>1 DEF AccountsInv, AllCurrent, ArrivingForgotten
  <2>3. Owner(s) # u
    BY <2>1, <2>2 DEF CopyStands, SessionsOf, Owner
  <2> QED BY <1>2, <2>2, <2>3 DEF Pulled, Owner
<1> QED BY <1>4, <1>5 DEF AccountsInv

LEMMA PullEndsKeeps ==
  ASSUME AccountsInv, NEW u \in Users, NEW fresh, PullEnds(u, fresh)
  PROVE  AccountsInv'
<1>1. /\ UNCHANGED <<session, cached, request, dropping, ending>> /\ arriving' = arriving \ {<<u, fresh>>}
      /\ user' \in {user, [user EXCEPT ![u] = fresh]} /\ Pulled(u)
  BY DEF PullEnds, Pulled
<1>2. DOMAIN user' = Users /\ \A v \in Users : v # u => user'[v] = user[v]
  BY <1>1 DEF AccountsInv, AccountTypes
<1>3. AccountTypes' /\ SessionsOwned' /\ RequestsFit' /\ EndingForgotten' /\ ArrivingForgotten'
  BY <1>1, <1>2 DEF AccountsInv, AccountTypes, SessionsOwned, RequestsFit, Fits, EndingForgotten,
                    ArrivingForgotten, Pulled, Owner
<1>4. AllCurrent'
  <2> SUFFICES ASSUME NEW s \in Sessions, cached[s].is = "copy", ~cached[s].late PROVE CopyStands(s)'
    BY <1>1 DEF AllCurrent, CopyStands
  <2>1. CopyStands(s) /\ ~Pulled(Owner(s)) /\ (session[s].is = "live" => Owner(s) \in Users)
    BY DEF AccountsInv, AllCurrent, ArrivingForgotten, SessionsOwned
  <2>2. Owner(s) # u
    BY <1>1, <2>1
  <2> QED BY <1>1, <1>2, <2>1, <2>2 DEF CopyStands, Owner
<1> QED BY <1>3, <1>4 DEF AccountsInv

LEMMA RequestKeeps ==
  ASSUME AccountsInv, NEW r \in Requests,
         \/ \E u \in Users : LoginReads(r, u)
         \/ \E s \in Sessions : LoginOpens(r, s) \/ Reads(r, s)
         \/ Puts(r) \/ SavesPassword(r) \/ RevokesOthers(r)
         \/ \E gate \in {"login", "managing"} : Turned(r, gate)
         \/ \E S \in SUBSET Sessions : Serves(r, S)
  PROVE  AccountsInv'
<1> DEFINE rested == request' = [request EXCEPT ![r] = AtEase]
<1>1. rested => DOMAIN request' = Requests /\ RequestsFit'
  <2>1. Fits(AtEase)
    BY DEF Fits
  <2> QED BY <2>1, RequestGoesOn
<1>2. ASSUME NEW s \in Sessions, NEW copied, NEW phase \in {"put", "decide", "revoke"}, NEW j,
             j = [phase |-> phase, s |-> s, copy |-> copied], request' = [request EXCEPT ![r] = j]
      PROVE  DOMAIN request' = Requests /\ RequestsFit'
  <2>1. Fits(j)
    BY <1>2 DEF Fits
  <2> QED BY <1>2, <2>1, RequestGoesOn
<1>3. UNCHANGED <<user, session, cached, ending, arriving>> /\ dropping \subseteq dropping' /\ DOMAIN request' = Requests
        /\ RequestsFit' => AccountsInv'
  BY CopiesDrop DEF AccountsInv, AccountTypes
<1>4. ASSUME NEW u \in Users, LoginReads(r, u) PROVE AccountsInv'
  <2>1. PICK j : j = [phase |-> "login", of |-> u]
    OBVIOUS
  <2>2. Fits(j) /\ request' = [request EXCEPT ![r] = j]
    BY <1>4, <2>1 DEF Fits, LoginReads
  <2>3. DOMAIN request' = Requests /\ RequestsFit'
    BY <2>2, RequestGoesOn
  <2> QED BY <1>3, <1>4, <2>3 DEF LoginReads
<1>5. ASSUME NEW s \in Sessions, Reads(r, s) PROVE AccountsInv'
  <2>1. PICK phase \in {"put", "decide", "revoke"} : \E copied :
          request' = [request EXCEPT ![r] = [phase |-> phase, s |-> s, copy |-> copied]]
    BY <1>5 DEF Reads
  <2>2. PICK copied : request' = [request EXCEPT ![r] = [phase |-> phase, s |-> s, copy |-> copied]]
    BY <2>1
  <2>3. DOMAIN request' = Requests /\ RequestsFit'
    BY <1>2, <2>2
  <2> QED BY <1>3, <1>5, <2>3 DEF Reads
<1>6. CASE SavesPassword(r)
  <2>1. PICK s \in Sessions : \E copied : request[r] = [phase |-> "decide", s |-> s, copy |-> copied]
    BY <1>6, AtItsPhase DEF SavesPassword
  <2>2. PICK copied : request[r] = [phase |-> "decide", s |-> s, copy |-> copied]
    BY <2>1
  <2>3. request' = [request EXCEPT ![r] = [phase |-> "revoke", s |-> s, copy |-> copied]]
    <3>1. [request[r] EXCEPT !.phase = "revoke"] = [phase |-> "revoke", s |-> s, copy |-> copied]
      BY <2>2
    <3>2. request' = [request EXCEPT ![r] = [request[r] EXCEPT !.phase = "revoke"]]
      BY <1>6 DEF SavesPassword
    <3> QED BY <3>1, <3>2, Zenon
  <2>4. DOMAIN request' = Requests /\ RequestsFit'
    BY <1>2, <2>3
  <2> QED BY <1>3, <1>6, <2>4 DEF SavesPassword
<1>7. CASE RevokesOthers(r)
  <2>1. Others(request[r].s) \subseteq Sessions
    BY DEF Others, SessionsOf
  <2>2. rested /\ EndSessions(Others(request[r].s)) /\ UNCHANGED <<user, session, dropping, arriving>>
    BY <1>7 DEF RevokesOthers
  <2> QED BY <1>1, <2>1, <2>2, EndingKeeps
<1>8. ASSUME NEW gate \in {"login", "managing"}, Turned(r, gate) PROVE AccountsInv'
  <2>1. PICK s \in Sessions : \E copied : request[r] = [phase |-> "decide", s |-> s, copy |-> copied]
    BY <1>8, AtItsPhase DEF Turned
  <2>2. request[r].s = s
    BY <2>1
  <2>3. rested /\ UNCHANGED <<user, session, dropping, arriving>> /\ (EndSessions({s}) \/ UNCHANGED <<cached, ending>>)
    BY <1>8, <2>2 DEF Turned
  <2> QED BY <1>1, <1>3, <2>3, EndingKeeps
<1>9. ASSUME NEW S \in SUBSET Sessions, Serves(r, S) PROVE AccountsInv'
  <2>1. rested /\ UNCHANGED <<user, session, dropping, arriving>> /\ (EndSessions(S) \/ UNCHANGED <<cached, ending>>)
    BY <1>9 DEF Serves
  <2> QED BY <1>1, <1>3, <2>1, EndingKeeps
<1> QED BY <1>4, <1>5, <1>6, <1>7, <1>8, <1>9, LoginOpensKeeps, PutsKeeps

LEMMA AccountsKeep == AccountsInv /\ [AccountsNext]_accountVars => AccountsInv'
<1> SUFFICES ASSUME AccountsInv, [AccountsNext]_accountVars PROVE AccountsInv'
  OBVIOUS
<1>1. UNCHANGED <<user, session, cached, request, dropping, ending, arriving>> => AccountsInv'
  BY CopiesDrop DEF AccountsInv, AccountTypes, RequestsFit, Fits
<1>2. ASSUME NEW u \in Users, DeleteUser(u) PROVE AccountsInv'
  <2>1. DOMAIN user' = Users /\ \A v \in Users : v # u => user'[v] = user[v]
    BY <1>2 DEF DeleteUser, AccountsInv, AccountTypes
  <2> QED BY <1>2, <2>1, SaveKeeps DEF DeleteUser
<1>3. ASSUME NEW s \in Sessions, Evict(s) PROVE AccountsInv'
  <2>1. DOMAIN cached' = Sessions /\ \A x \in Sessions : cached'[x] = cached[x] \/ cached'[x] = NotCached
    BY <1>3 DEF Evict, Dropped
  <2>2. UNCHANGED <<user, session, dropping, ending, arriving>> /\ DOMAIN request' = Requests /\ RequestsFit'
    BY <1>3 DEF Evict, AccountsInv, AccountTypes, RequestsFit, Fits
  <2> QED BY <2>1, <2>2, CopiesDrop
<1>4. ASSUME NEW s \in Sessions, Expire(s) PROVE AccountsInv'
  BY <1>1, <1>4 DEF Expire
<1>5. ASSUME NEW c \in Clerks, NEW u \in Users, EditReads(c, u) PROVE AccountsInv'
  BY <1>1, <1>5 DEF EditReads
<1>6. ASSUME NEW c \in Clerks, NEW role \in Roles, NEW status \in {"ACTIVE", "SUSPENDED"},
             EditSaves(c, role, status)
      PROVE  AccountsInv'
  <2>1. PICK u : u = edit[c].of
    OBVIOUS
  <2>2. DOMAIN user' = Users /\ \A v \in Users : v # u => user'[v] = user[v]
    BY <1>6, <2>1 DEF EditSaves, AccountsInv, AccountTypes
  <2> QED BY <1>6, <2>1, <2>2, SaveKeeps DEF EditSaves
<1> QED BY <1>1, <1>2, <1>3, <1>4, <1>5, <1>6, SignalKeeps, CommitKeeps, PullSavesKeeps, PullEndsKeeps,
      RequestKeeps
      DEF AccountsNext, accountVars
-----------------------------------------------------------------------------
(* The licence                                                             *)

LicenceRow == [status : {"UNREGISTERED", "ACTIVE", "SUSPENDED"}, key : Nat, ends : Nat, seen : Nat]
Answers == {"ACTIVE", "SUSPENDED", "other", "rejected"}
Called(a) ==
  \/ a = Silent
  \/ \E what \in {"heartbeat", "setup"}, where \in {Here, There} : a = [kind |-> what, place |-> where, at |-> 0]
  \/ \E what \in {"heartbeat", "setup"}, where \in {Here, There}, at \in Nat, status \in Answers, ends \in Nat :
       /\ a = [kind |-> what, place |-> where, at |-> at, status |-> status, ends |-> ends]
       /\ what = "setup" => status = "ACTIVE"
FormFits ==
  licenceForm # Empty =>
    \E where \in {Here, There}, kept \in LicenceRow : licenceForm = <<where, kept>>
LicenceTypes ==
  /\ row \in LicenceRow /\ now \in Nat /\ now > 0 /\ since \in Nat /\ fernet \in Nat
  /\ DOMAIN rowCache = {Here, There}
  /\ newest \in [at : Nat, status : Answers \cup {"UNREGISTERED"}, ends : Nat]
  /\ DOMAIN exchange = Threads /\ \A c \in Threads : Called(exchange[c])
  /\ FormFits

AnswerStands ==
  /\ newest.at <= row.seen
  /\ ~own => row.seen = newest.at /\ row.status = newest.status /\ row.ends = newest.ends
SinceTells == IF Blocks(row) THEN since > 0 /\ since <= now ELSE since = 0

\* A row that lets requests through while the stored one blocks is put away by then.
Within(r, until, life) == Blocks(row) /\ ~Blocks(r) => until <= since + life
\* What a request has in hand was put into the cache, or read, no longer ago than an entry lives.
ReadingTells ==
  reading # Empty =>
    stateCache = Empty /\ \E r \in LicenceRow : reading = <<r>> /\ Within(r, now, Ttl - 1)
StateCacheTells ==
  stateCache # Empty =>
    \E r \in LicenceRow, until \in Nat :
      stateCache = <<r, until>> /\ now < until /\ until <= now + Ttl /\ Within(r, until, 2 * Ttl - 1)
\* A copy that a slow request put back may be older, but the state that went with it outlives it.
RowCacheTells(where) ==
  rowCache[where] # Empty =>
    \E r \in LicenceRow, until \in Nat :
      /\ rowCache[where] = <<r, until>> /\ now < until /\ until <= now + Ttl
      /\ \/ Within(r, until, Ttl)
         \/ where = Here /\ stateCache # Empty /\ until <= stateCache[2] /\ Within(r, until, 2 * Ttl - 1)
CachesTell == ReadingTells /\ StateCacheTells /\ RowCacheTells(Here) /\ RowCacheTells(There)
LicenceInv == LicenceTypes /\ AnswerStands /\ SinceTells /\ CachesTell

LEMMA GivenLicence == Expiries \subseteq Nat /\ Grace \in Nat /\ Ttl \in Nat /\ Ttl > 0 /\ HostLag \in Nat
BY LicenceAssumption

\* What blocks goes on blocking.
LEMMA BlocksLater ==
  ASSUME NEW r \in LicenceRow, NEW t \in Nat, BlocksAt(r, t)
  PROVE  BlocksAt(r, t + 1)
<1>1. PICK saw, ends \in Nat : saw = r.seen /\ ends = r.ends
  BY DEF LicenceRow
<1>2. PICK a \in Int : a = Anchored(r, t)
  BY <1>1, GivenLicence DEF Anchored
<1>3. PICK b \in Int : b = Anchored(r, t + 1)
  BY <1>1, GivenLicence DEF Anchored
<1>4. a <= b
  BY <1>1, <1>2, <1>3, GivenLicence DEF Anchored
<1> HIDE DEF Anchored
<1> QED BY <1>1, <1>2, <1>3, <1>4, GivenLicence DEF BlocksAt

\* When the row blocks from, in the next state.
SinceMoves == since' = IF ~BlocksAt(row', now') THEN 0 ELSE IF since = 0 THEN now' ELSE since

LEMMA SinceStays ==
  ASSUME LicenceInv, SinceMoves, now' = now \/ now' = now + 1
  PROVE  SinceTells' /\ since' \in Nat /\ now' \in Nat /\ now' > 0
<1>1. now \in Nat /\ now > 0 /\ since \in Nat /\ since <= now
  BY DEF LicenceInv, LicenceTypes, SinceTells
<1> QED BY <1>1 DEF SinceMoves, SinceTells, Blocks

LEMMA WithinStays ==
  ASSUME LicenceInv, SinceMoves, now' = now \/ now' = now + 1, NEW r \in LicenceRow,
         NEW until \in Nat, NEW life \in Int, Within(r, until, life), until <= now' + life
  PROVE  Within(r, until, life)'
<1>1. now \in Nat /\ since \in Nat
  BY DEF LicenceInv, LicenceTypes
<1>2. BlocksAt(r, now) => BlocksAt(r, now')
  BY <1>1, BlocksLater
<1>3. SUFFICES ASSUME BlocksAt(row', now'), ~BlocksAt(r, now') PROVE until <= since' + life
  BY DEF Within, Blocks
<1>4. CASE since = 0
  BY <1>3, <1>4 DEF SinceMoves
<1>5. CASE since # 0
  <2>1. Blocks(row) /\ since' = since
    BY <1>3, <1>5 DEF SinceMoves, LicenceInv, SinceTells
  <2> QED BY <1>2, <1>3, <2>1 DEF Within, Blocks
<1> QED BY <1>4, <1>5

\* The caches after a step within an instant that puts no copy into them but that of the row.
LEMMA CachesStay ==
  ASSUME LicenceInv, SinceMoves, now' = now, reading' = reading,
         \A where \in {Here, There} :
           \/ rowCache'[where] = rowCache[where] \/ rowCache'[where] = Empty
           \/ row' = row /\ rowCache'[where] = <<row, now + Ttl>>,
         stateCache' = stateCache \/ (stateCache' = Empty /\ rowCache'[Here] = Empty)
  PROVE  CachesTell'
<1>1. now \in Nat /\ Ttl \in Nat /\ Ttl > 0 /\ row \in LicenceRow /\ CachesTell
  BY GivenLicence DEF LicenceInv, LicenceTypes
<1>2. ReadingTells'
  <2> SUFFICES ASSUME reading # Empty PROVE ReadingTells'
    BY DEF ReadingTells
  <2>1. PICK r \in LicenceRow : reading = <<r>> /\ Within(r, now, Ttl - 1) /\ stateCache = Empty
    BY <1>1 DEF CachesTell, ReadingTells
  <2>2. Ttl - 1 \in Int /\ now <= now' + (Ttl - 1)
    BY <1>1
  <2>3. Within(r, now, Ttl - 1)'
    <3>1. PICK t \in Nat : t = now
      BY <1>1
    <3>2. Within(r, t, Ttl - 1) /\ t <= now' + (Ttl - 1)
      BY <2>1, <2>2, <3>1
    <3>3. Within(r, t, Ttl - 1)'
      BY <2>2, <3>2, WithinStays
    <3> QED BY <3>1, <3>3 DEF Within
  <2> QED BY <2>1, <2>3 DEF ReadingTells
<1>3. StateCacheTells'
  <2> SUFFICES ASSUME stateCache' = stateCache, stateCache # Empty PROVE StateCacheTells'
    BY DEF StateCacheTells
  <2>1. PICK r \in LicenceRow, until \in Nat :
          stateCache = <<r, until>> /\ now < until /\ until <= now + Ttl /\ Within(r, until, 2 * Ttl - 1)
    BY <1>1 DEF CachesTell, StateCacheTells
  <2>2. 2 * Ttl - 1 \in Int /\ until <= now' + (2 * Ttl - 1)
    BY <1>1, <2>1
  <2>3. Within(r, until, 2 * Ttl - 1)'
    BY <2>1, <2>2, WithinStays
  <2> QED BY <2>1, <2>3 DEF StateCacheTells
<1>4. ASSUME NEW where \in {Here, There} PROVE RowCacheTells(where)'
  <2>0. RowCacheTells(where)
    BY <1>1 DEF CachesTell
  <2>1. CASE rowCache'[where] = Empty
    BY <2>1 DEF RowCacheTells
  <2>2. CASE row' = row /\ rowCache'[where] = <<row, now + Ttl>>
    <3>1. now + Ttl \in Nat /\ now < now + Ttl
      BY <1>1
    <3>2. PICK until \in Nat, r \in LicenceRow : until = now + Ttl /\ r = row
      BY <1>1, <3>1
    <3>3. Within(r, until, Ttl)'
      BY <2>2, <3>2 DEF Within
    <3> QED BY <2>2, <3>1, <3>2, <3>3 DEF RowCacheTells
  <2>3. CASE rowCache'[where] = rowCache[where] /\ rowCache[where] # Empty
    <3>1. PICK r \in LicenceRow, until \in Nat :
            /\ rowCache[where] = <<r, until>> /\ now < until /\ until <= now + Ttl
            /\ \/ Within(r, until, Ttl)
               \/ where = Here /\ stateCache # Empty /\ until <= stateCache[2] /\ Within(r, until, 2 * Ttl - 1)
      BY <2>0, <2>3 DEF RowCacheTells
    <3>2. CASE Within(r, until, Ttl)
      <4>1. Ttl \in Int /\ until <= now' + Ttl
        BY <1>1, <3>1
      <4>2. Within(r, until, Ttl)'
        BY <3>2, <4>1, WithinStays
      <4> QED BY <2>3, <3>1, <4>2 DEF RowCacheTells
    <3>3. CASE where = Here /\ stateCache # Empty /\ until <= stateCache[2] /\ Within(r, until, 2 * Ttl - 1)
      <4>1. 2 * Ttl - 1 \in Int /\ until <= now' + (2 * Ttl - 1)
        BY <1>1, <3>1
      <4>2. Within(r, until, 2 * Ttl - 1)'
        BY <3>3, <4>1, WithinStays
      <4>3. stateCache' = stateCache
        BY <2>3, <3>3
      <4> QED BY <2>3, <3>1, <3>3, <4>2, <4>3 DEF RowCacheTells
    <3> QED BY <3>1, <3>2, <3>3
  <2> QED BY <2>1, <2>2, <2>3
<1> QED BY <1>2, <1>3, <1>4 DEF CachesTell

\* The caches after an instant.
LEMMA CachesAge ==
  ASSUME LicenceInv, SinceMoves, TimeIs(now + 1), reading' = reading
  PROVE  CachesTell'
<1>1. /\ now' = now + 1 /\ reading = Empty
      /\ \A where \in {Here, There} :
           rowCache'[where] = IF rowCache[where] # Empty /\ now' < rowCache[where][2] THEN rowCache[where] ELSE Empty
      /\ stateCache' = IF stateCache # Empty /\ now' < stateCache[2] THEN stateCache ELSE Empty
  BY DEF TimeIs
<1>2. now \in Nat /\ Ttl \in Nat /\ Ttl > 0 /\ CachesTell
  BY GivenLicence DEF LicenceInv, LicenceTypes
<1>3. ReadingTells'
  BY <1>1 DEF ReadingTells
<1>4. StateCacheTells'
  <2> SUFFICES ASSUME stateCache' # Empty PROVE StateCacheTells'
    BY DEF StateCacheTells
  <2>1. stateCache # Empty /\ now' < stateCache[2] /\ stateCache' = stateCache
    BY <1>1
  <2>2. PICK r \in LicenceRow, until \in Nat :
          stateCache = <<r, until>> /\ now < until /\ until <= now + Ttl /\ Within(r, until, 2 * Ttl - 1)
    BY <1>2, <2>1 DEF CachesTell, StateCacheTells
  <2>3. 2 * Ttl - 1 \in Int /\ until <= now' + (2 * Ttl - 1) /\ until <= now' + Ttl /\ now' < until
    BY <1>1, <1>2, <2>1, <2>2
  <2>4. Within(r, until, 2 * Ttl - 1)'
    BY <1>1, <2>2, <2>3, WithinStays
  <2> QED BY <2>1, <2>2, <2>3, <2>4 DEF StateCacheTells
<1>5. ASSUME NEW where \in {Here, There} PROVE RowCacheTells(where)'
  <2> SUFFICES ASSUME rowCache'[where] # Empty PROVE RowCacheTells(where)'
    BY DEF RowCacheTells
  <2>1. rowCache[where] # Empty /\ now' < rowCache[where][2] /\ rowCache'[where] = rowCache[where]
    BY <1>1
  <2>2. PICK r \in LicenceRow, until \in Nat :
          /\ rowCache[where] = <<r, until>> /\ now < until /\ until <= now + Ttl
          /\ \/ Within(r, until, Ttl)
             \/ where = Here /\ stateCache # Empty /\ until <= stateCache[2] /\ Within(r, until, 2 * Ttl - 1)
    BY <1>2, <2>1 DEF CachesTell, RowCacheTells
  <2>3. until <= now' + Ttl /\ now' < until /\ until <= now' + (2 * Ttl - 1) /\ Ttl \in Int /\ 2 * Ttl - 1 \in Int
    BY <1>1, <1>2, <2>1, <2>2
  <2>4. CASE Within(r, until, Ttl)
    <3>1. Within(r, until, Ttl)'
      BY <1>1, <2>3, <2>4, WithinStays
    <3> QED BY <2>1, <2>2, <2>3, <3>1 DEF RowCacheTells
  <2>5. CASE where = Here /\ stateCache # Empty /\ until <= stateCache[2] /\ Within(r, until, 2 * Ttl - 1)
    <3>1. Within(r, until, 2 * Ttl - 1)'
      BY <1>1, <2>3, <2>5, WithinStays
    <3>2. stateCache' = stateCache
      <4>1. PICK r_1 \in LicenceRow, later \in Nat : stateCache = <<r_1, later>>
        BY <1>2, <2>5 DEF CachesTell, StateCacheTells
      <4>2. now' < stateCache[2]
        BY <1>1, <1>2, <2>3, <2>5, <4>1
      <4> QED BY <1>1, <2>5, <4>2
    <3> QED BY <2>1, <2>2, <2>3, <2>5, <3>1, <3>2 DEF RowCacheTells
  <2> QED BY <2>2, <2>4, <2>5
<1> QED BY <1>3, <1>4, <1>5 DEF CachesTell

LEMMA SaveIs ==
  ASSUME LicenceInv, NEW where, NEW r, Save(where, r)
  PROVE  /\ row' = r /\ DOMAIN rowCache' = {Here, There}
         /\ \A w \in {Here, There} : rowCache'[w] = rowCache[w] \/ rowCache'[w] = Empty
         /\ stateCache' = stateCache \/ (stateCache' = Empty /\ rowCache'[Here] = Empty)
BY DEF Save, LicenceInv, LicenceTypes

LEMMA PutIs ==
  ASSUME LicenceInv, NEW where, rowCache' = Put(where, Loaded(where)) \/ rowCache' = Put(where, row),
         rowCache' = Put(where, row) => rowCache[where] = Empty \/ UNCHANGED rowCache
  PROVE  /\ DOMAIN rowCache' = {Here, There}
         /\ \A w \in {Here, There} : rowCache'[w] = rowCache[w] \/ rowCache'[w] = <<row, now + Ttl>>
BY DEF Put, Loaded, LicenceInv, LicenceTypes

LEMMA LoadedIs ==
  ASSUME LicenceInv, NEW where \in {Here, There}
  PROVE  Loaded(where) \in LicenceRow
<1>1. row \in LicenceRow /\ RowCacheTells(where)
  BY DEF LicenceInv, LicenceTypes, CachesTell
<1>2. CASE rowCache[where] = Empty
  BY <1>1, <1>2 DEF Loaded
<1>3. CASE rowCache[where] # Empty
  <2>1. PICK r \in LicenceRow, until \in Nat : rowCache[where] = <<r, until>>
    BY <1>1, <1>3 DEF RowCacheTells
  <2> QED BY <1>3, <2>1 DEF Loaded
<1> QED BY <1>2, <1>3

\* A step that leaves the answers and the row as they are.
LEMMA RowStands ==
  ASSUME LicenceInv, SinceMoves, UNCHANGED <<row, newest, own>>, now' = now \/ now' = now + 1,
         fernet' \in Nat, DOMAIN rowCache' = {Here, There}, DOMAIN exchange' = Threads,
         \A c \in Threads : Called(exchange'[c]), FormFits', CachesTell'
  PROVE  LicenceInv'
<1>1. LicenceTypes'
  BY SinceStays DEF LicenceInv, LicenceTypes
<1>2. AnswerStands'
  BY DEF LicenceInv, AnswerStands
<1> QED BY <1>1, <1>2, SinceStays DEF LicenceInv

LEMMA CalledStays ==
  ASSUME LicenceInv, NEW c \in Threads, NEW a, Called(a), exchange' = [exchange EXCEPT ![c] = a]
  PROVE  DOMAIN exchange' = Threads /\ \A d \in Threads : Called(exchange'[d])
<1>1. DOMAIN exchange = Threads /\ \A d \in Threads : Called(exchange[d])
  BY DEF LicenceInv, LicenceTypes
<1> QED BY <1>1

LEMMA FormStays == LicenceInv /\ UNCHANGED licenceForm => FormFits'
BY DEF LicenceInv, LicenceTypes, FormFits

LEMMA ThreadsStay ==
  LicenceInv => /\ DOMAIN exchange = Threads /\ \A c \in Threads : Called(exchange[c])
                /\ fernet \in Nat /\ DOMAIN rowCache = {Here, There}
BY DEF LicenceInv, LicenceTypes

LEMMA PlacesAre == Places \subseteq {Here, There} /\ Here \in {Here, There}
BY DEF Places

LEMMA LookKeeps ==
  ASSUME LicenceInv, SinceMoves, NEW where \in Places, Look(where)
  PROVE  LicenceInv'
<1>1. /\ DOMAIN rowCache' = {Here, There}
      /\ \A w \in {Here, There} : rowCache'[w] = rowCache[w] \/ rowCache'[w] = <<row, now + Ttl>>
  BY PutIs DEF Look
<1>2. UNCHANGED <<row, stateCache, reading, exchange, licenceForm, fernet, now, newest, own>>
  BY DEF Look
<1>3. CachesTell'
  BY <1>1, <1>2, CachesStay
<1> QED BY <1>1, <1>2, <1>3, RowStands, FormStays, ThreadsStay

LEMMA OpenFormKeeps ==
  ASSUME LicenceInv, SinceMoves, NEW where \in Places, OpenForm(where)
  PROVE  LicenceInv'
<1>1. /\ DOMAIN rowCache' = {Here, There}
      /\ \A w \in {Here, There} : rowCache'[w] = rowCache[w] \/ rowCache'[w] = <<row, now + Ttl>>
  BY DEF OpenForm, Put, Loaded, LicenceInv, LicenceTypes
<1>2. UNCHANGED <<row, stateCache, reading, exchange, fernet, now, newest, own>>
  BY DEF OpenForm
<1>3. CachesTell'
  BY <1>1, <1>2, CachesStay
<1>4. FormFits'
  <2>1. where \in {Here, There}
    BY PlacesAre
  <2>2. Loaded(where) \in LicenceRow /\ licenceForm' = <<where, Loaded(where)>>
    BY <2>1, LoadedIs DEF OpenForm
  <2> QED BY <2>1, <2>2 DEF FormFits
<1> QED BY <1>1, <1>2, <1>3, <1>4, RowStands, ThreadsStay

LEMMA RequestLoadsKeeps ==
  ASSUME LicenceInv, SinceMoves, RequestLoads
  PROVE  LicenceInv'
<1>1. /\ stateCache = Empty /\ reading' = <<Loaded(Here)>>
      /\ UNCHANGED <<row, rowCache, stateCache, exchange, licenceForm, fernet, now, newest, own>>
  BY DEF RequestLoads
<1>2. now \in Nat /\ Ttl \in Nat /\ Ttl > 0 /\ CachesTell /\ SinceTells /\ since \in Nat
  BY GivenLicence DEF LicenceInv, LicenceTypes
<1>3. since' = since
  BY <1>1, <1>2 DEF SinceMoves, SinceTells, Blocks
<1>4. PICK r \in LicenceRow : r = Loaded(Here)
  BY LoadedIs, PlacesAre
<1>5. Within(r, now, Ttl - 1)
  <2>1. CASE rowCache[Here] = Empty
    BY <1>4, <2>1 DEF Loaded, Within
  <2>2. CASE rowCache[Here] # Empty
    <3>1. PICK kept \in LicenceRow, until \in Nat :
            rowCache[Here] = <<kept, until>> /\ now < until /\ Within(kept, until, Ttl)
      BY <1>1, <1>2, <2>2 DEF CachesTell, RowCacheTells
    <3>2. r = kept
      BY <1>4, <2>2, <3>1 DEF Loaded
    <3>3. until <= since + Ttl => now <= since + (Ttl - 1)
      BY <1>2, <3>1
    <3> QED BY <3>1, <3>2, <3>3 DEF Within
  <2> QED BY <2>1, <2>2
<1>6. ReadingTells'
  BY <1>1, <1>3, <1>4, <1>5 DEF ReadingTells, Within, Blocks
<1>7. StateCacheTells' /\ RowCacheTells(Here)' /\ RowCacheTells(There)'
  BY <1>1, <1>2, <1>3 DEF CachesTell, StateCacheTells, RowCacheTells, Within, Blocks
<1> QED BY <1>1, <1>6, <1>7, RowStands, FormStays, ThreadsStay DEF CachesTell

LEMMA RequestPutsKeeps ==
  ASSUME LicenceInv, SinceMoves, RequestPuts
  PROVE  LicenceInv'
<1>1. /\ reading # Empty /\ rowCache' = Put(Here, reading[1]) /\ stateCache' = <<reading[1], now + Ttl>>
      /\ reading' = Empty
      /\ UNCHANGED <<row, exchange, licenceForm, fernet, now, newest, own>>
  BY DEF RequestPuts
<1>2. now \in Nat /\ Ttl \in Nat /\ Ttl > 0 /\ CachesTell /\ SinceTells /\ since \in Nat /\ DOMAIN rowCache = {Here, There}
  BY GivenLicence DEF LicenceInv, LicenceTypes
<1>3. since' = since
  BY <1>1, <1>2 DEF SinceMoves, SinceTells, Blocks
<1>4. PICK r \in LicenceRow : reading = <<r>> /\ Within(r, now, Ttl - 1) /\ stateCache = Empty
  BY <1>1, <1>2 DEF CachesTell, ReadingTells
<1>5. PICK until \in Nat : until = now + Ttl /\ now < until
  BY <1>2
<1>6. Within(r, until, 2 * Ttl - 1)
  <2>1. now <= since + (Ttl - 1) => until <= since + (2 * Ttl - 1)
    BY <1>2, <1>5
  <2> QED BY <1>4, <2>1 DEF Within
<1>7. stateCache' = <<r, until>> /\ stateCache' # Empty /\ stateCache'[2] = until
  BY <1>1, <1>4, <1>5 DEF Empty
<1>8. StateCacheTells'
  BY <1>1, <1>3, <1>5, <1>6, <1>7 DEF StateCacheTells, Within, Blocks
<1>9. rowCache' = IF rowCache[Here] = Empty THEN [rowCache EXCEPT ![Here] = <<r, until>>] ELSE rowCache
  BY <1>1, <1>4, <1>5 DEF Put
<1>10. RowCacheTells(Here)'
  <2>1. CASE rowCache[Here] = Empty
    <3>1. rowCache'[Here] = <<r, until>>
      BY <1>2, <1>9, <2>1
    <3>2. Within(r, until, 2 * Ttl - 1)' /\ until <= until /\ until <= now' + Ttl /\ now' < until
      BY <1>1, <1>3, <1>5, <1>6 DEF Within, Blocks
    <3> QED BY <1>7, <3>1, <3>2 DEF RowCacheTells
  <2>2. CASE rowCache[Here] # Empty
    <3>1. PICK kept \in LicenceRow, u \in Nat :
            rowCache[Here] = <<kept, u>> /\ now < u /\ u <= now + Ttl /\ Within(kept, u, Ttl)
      BY <1>2, <1>4, <2>2 DEF CachesTell, RowCacheTells
    <3>2. Within(kept, u, Ttl)' /\ rowCache' = rowCache /\ now' = now
      BY <1>1, <1>3, <1>9, <2>2, <3>1 DEF Within, Blocks
    <3> QED BY <3>1, <3>2 DEF RowCacheTells
  <2> QED BY <2>1, <2>2
<1>11. RowCacheTells(There)'
  <2>1. There # Here
    BY DEF There, Here
  <2>2. rowCache'[There] = rowCache[There]
    BY <1>2, <1>9, <2>1
  <2> SUFFICES ASSUME rowCache[There] # Empty PROVE RowCacheTells(There)'
    BY <2>2 DEF RowCacheTells
  <2>3. PICK kept \in LicenceRow, u \in Nat :
          rowCache[There] = <<kept, u>> /\ now < u /\ u <= now + Ttl /\ Within(kept, u, Ttl)
    BY <1>2, <2>1 DEF CachesTell, RowCacheTells
  <2>4. Within(kept, u, Ttl)' /\ now' = now
    BY <1>1, <1>3, <2>3 DEF Within, Blocks
  <2> QED BY <2>2, <2>3, <2>4 DEF RowCacheTells
<1>12. CachesTell'
  BY <1>1, <1>8, <1>10, <1>11 DEF CachesTell, ReadingTells
<1>13. DOMAIN rowCache' = {Here, There}
  BY <1>2, <1>9
<1> QED BY <1>1, <1>12, <1>13, RowStands, FormStays, ThreadsStay

LEMMA BeginKeeps ==
  ASSUME LicenceInv, SinceMoves, NEW c \in Threads, NEW what \in {"heartbeat", "setup"}, NEW where \in {Here, There},
         Begin(c, what, where, Loaded(where))
  PROVE  LicenceInv'
<1>1. /\ DOMAIN rowCache' = {Here, There}
      /\ \A w \in {Here, There} : rowCache'[w] = rowCache[w] \/ rowCache'[w] = <<row, now + Ttl>>
  BY DEF Begin, Put, Loaded, LicenceInv, LicenceTypes
<1>2. UNCHANGED <<row, stateCache, reading, licenceForm, fernet, now, newest, own>>
  BY DEF Begin
<1>3. CachesTell'
  BY <1>1, <1>2, CachesStay
<1>4. DOMAIN exchange' = Threads /\ \A d \in Threads : Called(exchange'[d])
  <2>1. PICK a : a = [kind |-> what, place |-> where, at |-> 0]
    OBVIOUS
  <2>2. Called(a) /\ exchange' = [exchange EXCEPT ![c] = a]
    BY <2>1 DEF Called, Begin
  <2> QED BY <2>2, CalledStays
<1> QED BY <1>1, <1>2, <1>3, <1>4, RowStands, FormStays, ThreadsStay

\* A step of the clock.
LEMMA ClockKeeps ==
  ASSUME LicenceInv, SinceMoves, TimeIs(now + 1), UNCHANGED <<row, reading, licenceForm, fernet, newest, own>>,
         DOMAIN exchange' = Threads, \A c \in Threads : Called(exchange'[c])
  PROVE  LicenceInv'
<1>1. now' = now + 1 /\ DOMAIN rowCache' = {Here, There}
  BY DEF TimeIs
<1>2. CachesTell'
  BY CachesAge
<1> QED BY <1>1, <1>2, RowStands, FormStays, ThreadsStay

LEMMA AnswerKeeps ==
  ASSUME LicenceInv, SinceMoves, NEW c \in Threads, NEW status \in Answers, NEW ends \in Expiries,
         Answer(c, status, ends)
  PROVE  LicenceInv'
<1>1. Called(exchange[c]) /\ exchange[c].kind \in {"heartbeat", "setup"} /\ exchange[c].at = 0 /\ now \in Nat /\ ends \in Nat
  BY GivenLicence DEF LicenceInv, LicenceTypes, Answer
<1>2. PICK what \in {"heartbeat", "setup"}, where \in {Here, There} : what = exchange[c].kind /\ where = exchange[c].place
  <2>1. exchange[c] # Silent
    BY <1>1 DEF Silent
  <2>2. CASE \E what \in {"heartbeat", "setup"}, where \in {Here, There} :
               exchange[c] = [kind |-> what, place |-> where, at |-> 0]
    <3>1. PICK what \in {"heartbeat", "setup"}, where \in {Here, There} :
            exchange[c] = [kind |-> what, place |-> where, at |-> 0]
      BY <2>2
    <3> QED BY <3>1
  <2>3. CASE \E what \in {"heartbeat", "setup"}, where \in {Here, There}, at \in Nat, told \in Answers, ends_1 \in Nat :
               exchange[c] = [kind |-> what, place |-> where, at |-> at, status |-> told, ends |-> ends_1]
    <3>1. PICK what \in {"heartbeat", "setup"}, where \in {Here, There}, at \in Nat, told \in Answers, ends_1 \in Nat :
            exchange[c] = [kind |-> what, place |-> where, at |-> at, status |-> told, ends |-> ends_1]
      BY <2>3
    <3> QED BY <3>1
  <2> QED BY <1>1, <2>1, <2>2, <2>3 DEF Called
<1>3. PICK at \in Nat, told \in Answers, upto \in Nat : at = now + 1 /\ told = status /\ upto = ends
  BY <1>1
<1>4. PICK a : a = [kind |-> what, place |-> where, at |-> at, status |-> told, ends |-> upto]
  OBVIOUS
<1>6. what = "setup" => told = "ACTIVE"
  BY <1>2, <1>3 DEF Answer
<1>7. Called(a)
  <2>1. \E what_1 \in {"heartbeat", "setup"}, where_1 \in {Here, There}, at_1 \in Nat, status_1 \in Answers, ends_1 \in Nat :
          /\ a = [kind |-> what_1, place |-> where_1, at |-> at_1, status |-> status_1, ends |-> ends_1]
          /\ what_1 = "setup" => status_1 = "ACTIVE"
    BY <1>4, <1>6
  <2> QED BY <2>1 DEF Called
<1>5. exchange' = [exchange EXCEPT ![c] = a]
  BY <1>2, <1>3, <1>4 DEF Answer
<1> QED BY <1>5, <1>7, CalledStays, ClockKeeps DEF Answer

LEMMA GiveUpKeeps ==
  ASSUME LicenceInv, SinceMoves, NEW c \in Threads, GiveUp(c)
  PROVE  LicenceInv'
<1>1. Called(Silent)
  BY DEF Called
<1>2. DOMAIN exchange' = Threads /\ \A d \in Threads : Called(exchange'[d])
  BY <1>1, CalledStays DEF GiveUp
<1>3. UNCHANGED <<row, rowCache, stateCache, reading, licenceForm, fernet, now, newest, own>>
  BY DEF GiveUp
<1>4. CachesTell'
  BY <1>3, CachesStay
<1> QED BY <1>2, <1>3, <1>4, RowStands, FormStays, ThreadsStay

\* A save: what the row stands by is said of the new row.
LEMMA LicenceSaveKeeps ==
  ASSUME LicenceInv, SinceMoves, NEW where, NEW r \in LicenceRow, Save(where, r),
         UNCHANGED <<reading, fernet, now>>, AnswerStands',
         newest' \in [at : Nat, status : Answers \cup {"UNREGISTERED"}, ends : Nat],
         DOMAIN exchange' = Threads, \A c \in Threads : Called(exchange'[c]), FormFits'
  PROVE  LicenceInv'
<1>1. /\ row' = r /\ DOMAIN rowCache' = {Here, There}
      /\ \A w \in {Here, There} : rowCache'[w] = rowCache[w] \/ rowCache'[w] = Empty
      /\ stateCache' = stateCache \/ (stateCache' = Empty /\ rowCache'[Here] = Empty)
  BY SaveIs
<1>2. CachesTell'
  BY <1>1, CachesStay
<1>3. LicenceTypes'
  BY <1>1, SinceStays DEF LicenceInv, LicenceTypes
<1> QED BY <1>2, <1>3, SinceStays DEF LicenceInv

LEMMA KeyUnreadableKeeps ==
  ASSUME LicenceInv, SinceMoves, NEW where \in Places, KeyUnreadable(where)
  PROVE  LicenceInv'
<1>1. row \in LicenceRow /\ newest \in [at : Nat, status : Answers \cup {"UNREGISTERED"}, ends : Nat]
  BY DEF LicenceInv, LicenceTypes
<1>2. PICK r \in LicenceRow : r = [row EXCEPT !.status = "SUSPENDED"]
  BY <1>1 DEF LicenceRow
<1>3. Save(where, r) /\ own' /\ UNCHANGED <<reading, exchange, licenceForm, fernet, now, newest>>
  BY <1>2 DEF KeyUnreadable
<1>4. row' = r /\ r.seen = row.seen
  BY <1>1, <1>2, <1>3 DEF Save, LicenceRow
<1>5. AnswerStands'
  BY <1>3, <1>4 DEF LicenceInv, AnswerStands
<1> QED BY <1>1, <1>3, <1>5, LicenceSaveKeeps, FormStays, ThreadsStay

\* Called, when the answer is there.
LEMMA AnsweredIs ==
  ASSUME LicenceInv, NEW c \in Threads, exchange[c].kind \in {"heartbeat", "setup"}, exchange[c].at > 0
  PROVE  \E what \in {"heartbeat", "setup"}, where \in {Here, There}, at \in Nat, told \in Answers, upto \in Nat :
           /\ exchange[c] = [kind |-> what, place |-> where, at |-> at, status |-> told, ends |-> upto]
           /\ what = "setup" => told = "ACTIVE"
<1>1. Called(exchange[c])
  BY DEF LicenceInv, LicenceTypes
<1>2. exchange[c] # Silent
  BY DEF Silent
<1>3. CASE \E what \in {"heartbeat", "setup"}, where \in {Here, There} :
             exchange[c] = [kind |-> what, place |-> where, at |-> 0]
  BY <1>3
<1>4. CASE \E what \in {"heartbeat", "setup"}, where \in {Here, There}, at \in Nat, told \in Answers, upto \in Nat :
             /\ exchange[c] = [kind |-> what, place |-> where, at |-> at, status |-> told, ends |-> upto]
             /\ what = "setup" => told = "ACTIVE"
  BY <1>4
<1> QED BY <1>1, <1>2, <1>3, <1>4 DEF Called

\* A newer answer is applied, and is the newest; one that is not newer changes nothing.
LEMMA ApplyKeeps ==
  ASSUME LicenceInv, SinceMoves, NEW where, NEW a, NEW at \in Nat, at > 0, NEW told \in Answers, told # "rejected",
         NEW upto \in Nat, a.at = at, a.status = told, a.ends = upto,
         NEW r \in LicenceRow, r.seen = row.seen, r.status = row.status, r.ends = row.ends,
         IF Stale(r, a) THEN UNCHANGED <<row, rowCache, stateCache, own>>
         ELSE Save(where, AppliedTo(r, a)) /\ own' = (a.status = "other"),
         Heard(a), UNCHANGED <<reading, fernet, now, licenceForm>>,
         DOMAIN exchange' = Threads, \A c \in Threads : Called(exchange'[c])
  PROVE  LicenceInv'
<1>1. row \in LicenceRow /\ newest \in [at : Nat, status : Answers \cup {"UNREGISTERED"}, ends : Nat] /\ AnswerStands
  BY DEF LicenceInv, LicenceTypes
<1>2. PICK heard : heard = [at |-> at, status |-> told, ends |-> upto]
  OBVIOUS
<1>3. newest' = IF at > newest.at THEN heard ELSE newest
  BY <1>2 DEF Heard
<1>4. newest' \in [at : Nat, status : Answers \cup {"UNREGISTERED"}, ends : Nat]
  BY <1>1, <1>2, <1>3
<1>5. PICK saw, last \in Nat : saw = row.seen /\ last = newest.at /\ last <= saw
  BY <1>1 DEF LicenceRow, AnswerStands
<1>6. CASE Stale(r, a)
  <2>1. at <= saw /\ UNCHANGED <<row, rowCache, stateCache, own>>
    BY <1>5, <1>6 DEF Stale
  <2>2. newest'.at <= saw
    BY <1>2, <1>3, <1>5, <2>1
  <2>3. ~own => newest' = newest
    <3>1. ~own => last = saw
      BY <1>1, <1>5 DEF AnswerStands
    <3> QED BY <1>3, <1>5, <2>1, <3>1
  <2>4. AnswerStands'
    BY <1>1, <1>5, <2>1, <2>2, <2>3 DEF AnswerStands
  <2>5. CachesTell'
    BY <2>1, CachesStay
  <2>6. LicenceTypes'
    BY <1>4, <2>1, SinceStays, FormStays DEF LicenceInv, LicenceTypes
  <2> QED BY <2>4, <2>5, <2>6, SinceStays DEF LicenceInv
<1>7. CASE ~Stale(r, a)
  <2>1. saw = 0 \/ at > saw
    BY <1>5, <1>7 DEF Stale
  <2>2. newest' = heard
    BY <1>3, <1>5, <2>1
  <2>3. PICK stands \in {"UNREGISTERED", "ACTIVE", "SUSPENDED"} : stands = IF told = "other" THEN r.status ELSE told
    BY DEF LicenceRow, Answers
  <2>4. PICK s : s = [r EXCEPT !.status = stands, !.ends = upto, !.seen = at]
    OBVIOUS
  <2>9. s \in LicenceRow /\ s.status = stands /\ s.ends = upto /\ s.seen = at
    BY <2>3, <2>4 DEF LicenceRow
  <2>5. AppliedTo(r, a) = s
    BY <2>3, <2>4 DEF AppliedTo
  <2>6. Save(where, s) /\ own' = (told = "other")
    BY <1>7, <2>5
  <2>7. row' = s
    BY <2>6 DEF Save
  <2>8. AnswerStands'
    <3>1. newest'.at = at /\ newest'.status = told /\ newest'.ends = upto
      BY <1>2, <2>2
    <3>2. row'.seen = at /\ row'.ends = upto /\ row'.status = stands
      BY <2>7, <2>9
    <3>3. ~own' => stands = told
      BY <2>3, <2>6
    <3> QED BY <3>1, <3>2, <3>3 DEF AnswerStands
  <2> QED BY <1>4, <2>6, <2>8, <2>9, LicenceSaveKeeps, FormStays
<1> QED BY <1>6, <1>7

LEMMA SilentAgain ==
  ASSUME LicenceInv, NEW c \in Threads, exchange' = [exchange EXCEPT ![c] = Silent]
  PROVE  DOMAIN exchange' = Threads /\ \A d \in Threads : Called(exchange'[d])
<1>1. Called(Silent)
  BY DEF Called
<1> QED BY <1>1, CalledStays

LEMMA HeartbeatDoneKeeps ==
  ASSUME LicenceInv, SinceMoves, NEW c \in Threads, HeartbeatDone(c)
  PROVE  LicenceInv'
<1>1. PICK what \in {"heartbeat", "setup"}, where \in {Here, There}, at \in Nat, told \in Answers, upto \in Nat :
        /\ exchange[c] = [kind |-> what, place |-> where, at |-> at, status |-> told, ends |-> upto]
        /\ what = "setup" => told = "ACTIVE"
  <2>1. exchange[c].kind \in {"heartbeat", "setup"} /\ exchange[c].at > 0
    BY DEF HeartbeatDone
  <2> QED BY <2>1, AnsweredIs
<1>2. PICK a : a = exchange[c]
  OBVIOUS
<1>3. a.at = at /\ a.status = told /\ a.ends = upto /\ a.place = where
  BY <1>1, <1>2
<1>4. /\ at > 0 /\ UNCHANGED <<reading, fernet, now, licenceForm>>
      /\ DOMAIN exchange' = Threads /\ \A d \in Threads : Called(exchange'[d])
  BY <1>2, <1>3, SilentAgain DEF HeartbeatDone
<1>5. row \in LicenceRow /\ newest \in [at : Nat, status : Answers \cup {"UNREGISTERED"}, ends : Nat]
  BY DEF LicenceInv, LicenceTypes
<1>6. CASE told = "rejected"
  <2>1. PICK r \in LicenceRow : r = [row EXCEPT !.status = "SUSPENDED"]
    BY <1>5 DEF LicenceRow
  <2>2. Save(where, r) /\ own' /\ UNCHANGED newest
    BY <1>2, <1>3, <1>6, <2>1 DEF HeartbeatDone
  <2>3. row' = r /\ r.seen = row.seen
    BY <1>5, <2>1, <2>2 DEF Save, LicenceRow
  <2>4. AnswerStands'
    BY <2>2, <2>3 DEF LicenceInv, AnswerStands
  <2> QED BY <1>4, <1>5, <2>2, <2>4, LicenceSaveKeeps, FormStays
<1>7. CASE told # "rejected"
  <2>1. Apply(where, row, a) /\ Heard(a)
    BY <1>2, <1>3, <1>7 DEF HeartbeatDone
  <2> QED BY <1>3, <1>4, <1>5, <1>7, <2>1, ApplyKeeps DEF Apply
<1> QED BY <1>6, <1>7

LEMMA SetupDoneKeeps ==
  ASSUME LicenceInv, SinceMoves, NEW c \in Threads, SetupDone(c)
  PROVE  LicenceInv'
<1>1. PICK what \in {"heartbeat", "setup"}, where \in {Here, There}, at \in Nat, told \in Answers, upto \in Nat :
        /\ exchange[c] = [kind |-> what, place |-> where, at |-> at, status |-> told, ends |-> upto]
        /\ what = "setup" => told = "ACTIVE"
  BY AnsweredIs DEF SetupDone
<1>2. PICK a : a = exchange[c]
  OBVIOUS
<1>3. a.at = at /\ a.status = told /\ a.ends = upto /\ a.place = where /\ a.kind = what
  BY <1>1, <1>2
<1>4. /\ at > 0 /\ what = "setup" /\ UNCHANGED <<reading, fernet, now, licenceForm>>
      /\ DOMAIN exchange' = Threads /\ \A d \in Threads : Called(exchange'[d])
  BY <1>2, <1>3, SilentAgain DEF SetupDone
<1>5. told # "rejected"
  BY <1>1, <1>4
<1>6. row \in LicenceRow /\ fernet \in Nat
  BY DEF LicenceInv, LicenceTypes
<1>7. CASE row.status = "UNREGISTERED"
  <2>1. PICK r \in LicenceRow : r = [row EXCEPT !.key = fernet]
    BY <1>6 DEF LicenceRow
  <2>2. r.seen = row.seen /\ r.status = row.status /\ r.ends = row.ends
    BY <1>6, <2>1 DEF LicenceRow
  <2>3. Apply(where, r, a) /\ Heard(a)
    BY <1>2, <1>3, <1>7, <2>1 DEF SetupDone
  <2>4. IF Stale(r, a) THEN UNCHANGED <<row, rowCache, stateCache, own>>
        ELSE Save(where, AppliedTo(r, a)) /\ own' = (a.status = "other")
    BY <2>2, <2>3 DEF Apply, Stale
  <2> QED BY <1>3, <1>4, <1>5, <2>2, <2>3, <2>4, ApplyKeeps
<1>8. CASE row.status # "UNREGISTERED"
  <2>1. UNCHANGED <<row, rowCache, stateCache, own, newest>>
    BY <1>2, <1>8 DEF SetupDone
  <2>2. CachesTell'
    BY <1>4, <2>1, CachesStay
  <2> QED BY <1>4, <1>6, <2>1, <2>2, RowStands, FormStays, ThreadsStay
<1> QED BY <1>7, <1>8

LEMMA SaveFormKeeps ==
  ASSUME LicenceInv, SinceMoves, NEW r \in LicenceRow, SaveLicenceForm(r)
  PROVE  LicenceInv'
<1>1. newest \in [at : Nat, status : Answers \cup {"UNREGISTERED"}, ends : Nat] /\ newest.at <= row.seen
  BY DEF LicenceInv, LicenceTypes, AnswerStands
<1>2. /\ Save(licenceForm[1], r) /\ own' /\ licenceForm' = Empty /\ UNCHANGED <<reading, exchange, fernet, now>>
      /\ newest' = IF r.seen = row.seen THEN newest ELSE [newest EXCEPT !.at = r.seen]
  BY DEF SaveLicenceForm
<1>3. row' = r /\ r.seen \in Nat
  BY <1>2 DEF Save, LicenceRow
<1>4. newest' \in [at : Nat, status : Answers \cup {"UNREGISTERED"}, ends : Nat] /\ newest'.at <= row'.seen
  BY <1>1, <1>2, <1>3
<1>5. AnswerStands' /\ FormFits'
  BY <1>2, <1>4 DEF AnswerStands, FormFits
<1> QED BY <1>2, <1>4, <1>5, LicenceSaveKeeps, ThreadsStay

LEMMA FormsKeep ==
  ASSUME LicenceInv, SinceMoves, Deactivate \/ \E ends \in Expiries : ActivateOffline(ends)
  PROVE  LicenceInv'
<1>1. PICK where \in {Here, There}, r \in LicenceRow : licenceForm = <<where, r>>
  BY DEF LicenceInv, LicenceTypes, FormFits, Deactivate, ActivateOffline
<1>2. CASE Deactivate
  <2>1. [r EXCEPT !.status = "UNREGISTERED", !.ends = 0] \in LicenceRow
    BY DEF LicenceRow
  <2>2. SaveLicenceForm([r EXCEPT !.status = "UNREGISTERED", !.ends = 0])
    BY <1>1, <1>2 DEF Deactivate
  <2> QED BY <2>1, <2>2, SaveFormKeeps
<1>3. CASE \E ends \in Expiries : ActivateOffline(ends)
  <2>1. PICK ends \in Expiries : ActivateOffline(ends)
    BY <1>3
  <2>2. [r EXCEPT !.status = "ACTIVE", !.ends = ends] \in LicenceRow
    BY GivenLicence DEF LicenceRow
  <2>3. SaveLicenceForm([r EXCEPT !.status = "ACTIVE", !.ends = ends])
    BY <1>1, <2>1 DEF ActivateOffline
  <2> QED BY <2>2, <2>3, SaveFormKeeps
<1> QED BY <1>2, <1>3

LEMMA NewFernetKeyKeeps ==
  ASSUME LicenceInv, SinceMoves, NewFernetKey
  PROVE  LicenceInv'
<1>1. UNCHANGED <<row, rowCache, stateCache, reading, exchange, licenceForm, now, newest, own>> /\ fernet' \in Nat
  BY DEF NewFernetKey
<1>2. CachesTell'
  BY <1>1, CachesStay
<1> QED BY <1>1, <1>2, RowStands, FormStays, ThreadsStay

LEMMA LicenceBegins == LicenceInit => LicenceInv
<1> SUFFICES ASSUME LicenceInit PROVE LicenceInv
  OBVIOUS
<1>1. row \in LicenceRow
  BY GivenLicence DEF LicenceInit, LicenceRow, Unregistered
<1>2. /\ rowCache = [p \in {Here, There} |-> Empty] /\ stateCache = Empty /\ reading = Empty /\ licenceForm = Empty
      /\ now = 1 /\ newest = [at |-> row.seen, status |-> row.status, ends |-> row.ends] /\ fernet = 1
      /\ exchange = [c \in Threads |-> Silent]
  BY DEF LicenceInit
<1>3. newest \in [at : Nat, status : Answers \cup {"UNREGISTERED"}, ends : Nat]
  BY <1>1, <1>2 DEF LicenceRow, Answers
<1>4. SinceTells /\ since \in Nat
  <2>1. CASE row = Unregistered
    <3>2. own = TRUE
      BY <2>1 DEF LicenceInit
    <3>1. since = 1
      BY <3>2 DEF LicenceInit
    <3> QED BY <1>2, <2>1, <3>1 DEF SinceTells, Blocks, BlocksAt, Unregistered
  <2>2. CASE row # Unregistered
    <3>4. PICK e \in Expiries : row = [status |-> "ACTIVE", key |-> 1, ends |-> e, seen |-> 1]
      BY <2>2 DEF LicenceInit
    <3>5. own = FALSE
      BY <2>2 DEF LicenceInit
    <3>1. since = 0 /\ row.status = "ACTIVE" /\ row.seen = 1
      BY <3>4, <3>5 DEF LicenceInit
    <3>2. Anchored(row, 1) = 1
      BY <3>1, GivenLicence DEF Anchored
    <3>3. ~BlocksAt(row, 1)
      BY <1>1, <3>1, <3>2, GivenLicence DEF BlocksAt, LicenceRow
    <3> QED BY <1>2, <3>1, <3>3 DEF SinceTells, Blocks
  <2> QED BY <2>1, <2>2
<1>5. LicenceTypes
  BY <1>1, <1>2, <1>3, <1>4 DEF LicenceTypes, Called, FormFits
<1>6. AnswerStands
  BY <1>1, <1>2 DEF AnswerStands, LicenceRow
<1>7. CachesTell
  BY <1>2 DEF CachesTell, ReadingTells, StateCacheTells, RowCacheTells
<1> QED BY <1>4, <1>5, <1>6, <1>7 DEF LicenceInv

LEMMA LicenceKeeps == LicenceInv /\ [LicenceNext]_licenceVars => LicenceInv'
<1> SUFFICES ASSUME LicenceInv, [LicenceNext]_licenceVars PROVE LicenceInv'
  OBVIOUS
<1>1. CASE LicenceNext
  <2>1. SinceMoves
    BY <1>1 DEF LicenceNext, SinceMoves
  <2>2. LicenceStep
    BY <1>1 DEF LicenceNext
  <2>3. CASE \E where \in Places : Look(where) \/ KeyUnreadable(where) \/ OpenForm(where)
    BY <2>1, <2>3, LookKeeps, KeyUnreadableKeeps, OpenFormKeeps
  <2>4. CASE RequestLoads \/ RequestPuts \/ Deactivate \/ NewFernetKey \/ \E ends \in Expiries : ActivateOffline(ends)
    BY <2>1, <2>4, RequestLoadsKeeps, RequestPutsKeeps, FormsKeep, NewFernetKeyKeeps
  <2>5. CASE LicenceTimePasses
    <3>1. TimeIs(now + 1) /\ UNCHANGED <<row, reading, exchange, licenceForm, fernet, newest, own>>
      BY <2>5 DEF LicenceTimePasses
    <3> QED BY <2>1, <3>1, ClockKeeps, ThreadsStay
  <2>6. ASSUME NEW c \in Threads, NEW where \in Places, BeginHeartbeat(c, where) PROVE LicenceInv'
    <3>1. where \in {Here, There}
      BY PlacesAre
    <3>2. Begin(c, "heartbeat", where, Loaded(where))
      BY <2>6 DEF BeginHeartbeat
    <3> QED BY <2>1, <3>1, <3>2, BeginKeeps
  <2>7. ASSUME NEW c \in Threads, BeginSetup(c) PROVE LicenceInv'
    <3>1. Begin(c, "setup", Here, Loaded(Here)) /\ Here \in {Here, There}
      BY <2>7 DEF BeginSetup
    <3> QED BY <2>1, <3>1, BeginKeeps
  <2>8. ASSUME NEW c \in Threads, HeartbeatDone(c) \/ SetupDone(c) \/ GiveUp(c) PROVE LicenceInv'
    BY <2>1, <2>8, HeartbeatDoneKeeps, SetupDoneKeeps, GiveUpKeeps
  <2>9. ASSUME NEW c \in Threads, NEW status \in Answers, NEW ends \in Expiries, Answer(c, status, ends) PROVE LicenceInv'
    BY <2>1, <2>9, AnswerKeeps
  <2> QED BY <2>2, <2>3, <2>4, <2>5, <2>6, <2>7, <2>8, <2>9 DEF LicenceStep, Answers
<1>2. CASE UNCHANGED licenceVars
  <2>1. UNCHANGED <<row, rowCache, stateCache, reading, exchange, licenceForm, fernet, now, since, newest, own>>
    BY <1>2 DEF licenceVars
  <2>2. SinceMoves
    BY <2>1 DEF SinceMoves, LicenceInv, LicenceTypes, SinceTells, Blocks
  <2>3. CachesTell'
    BY <2>1, <2>2, CachesStay
  <2> QED BY <2>1, <2>2, <2>3, RowStands, FormStays, ThreadsStay
<1> QED BY <1>1, <1>2

LEMMA LicenceSays == LicenceInv => LicenceFollows
<1> SUFFICES ASSUME LicenceInv PROVE LicenceFollows
  OBVIOUS
<1>1. AnswerStands /\ now \in Nat /\ since \in Nat /\ Ttl \in Nat /\ StateCacheTells
  BY GivenLicence DEF LicenceInv, LicenceTypes, CachesTell
<1>2. SUFFICES ASSUME stateCache # Empty, ~Blocks(stateCache[1]), Blocks(row) PROVE now - since <= 2 * (Ttl - 1)
  BY <1>1 DEF LicenceFollows, AnswerStands
<1>3. PICK r \in LicenceRow, until \in Nat :
        stateCache = <<r, until>> /\ now < until /\ until <= now + Ttl /\ Within(r, until, 2 * Ttl - 1)
  BY <1>1, <1>2 DEF StateCacheTells
<1>4. until <= since + (2 * Ttl - 1)
  BY <1>2, <1>3 DEF Within
<1> QED BY <1>1, <1>3, <1>4
-----------------------------------------------------------------------------
(* The desktop program                                                     *)

ShellCalls == {"none", "serve", "setup", "start", "stop", "flush", "reset", "register", "config"}
ShellPcs ==
  {"rest", "boot", "finish", "key", "write", "env", "migrate", "look", "create", "note", "start", "stop",
   "forget", "flush", "reset", "arm", "config", "save", "register"}
ThreadRow == [pc : ShellPcs, call : ShellCalls, has : Nat]
DatabaseRow == [made : BOOLEAN, admin : Nat, key : Nat]
DiskRow == [fernet : Nat, creds : Nat, token : Nat, armed : BOOLEAN, db : DatabaseRow]
AppRow == [up : BOOLEAN, ready : BOOLEAN, fernet : Nat]
ServerRow == [serves : BOOLEAN, held : BOOLEAN]
ShellTypes ==
  /\ disk \in DiskRow /\ app \in AppRow /\ server \in ServerRow
  /\ doing \in [ShellThreads -> ThreadRow]
  /\ entered \in Nat /\ minted \in Nat

\* What no two threads were at once in the middle of, one is at most.
Sole(m) ==
  m \notin crossed =>
    \A t, u \in ShellThreads : m \in Middle(doing[t].pc) /\ m \in Middle(doing[u].pc) => t = u
AllSole == Sole("booting") /\ Sole("installing") /\ Sole("serving") /\ Sole("wiping")

ArmedSoon == disk.armed \/ Somebody({"arm"})
\* A thread that boots does so for a process that is not set up; the key it has is that of the
\* file, and of the database.
BootFits(t) ==
  /\ ~app.ready
  /\ "arm" \notin torn /\ disk.db.key # 0 =>
       /\ doing[t].pc # "write"
       /\ doing[t].pc = "key" => disk.db.key = disk.fernet
       /\ doing[t].pc = "env" => disk.db.key = doing[t].has
  /\ doing[t].pc = "env" => doing[t].has = disk.fernet \/ ArmedSoon
BootsRight(t) ==
  doing[t].pc \in {"finish", "key", "write", "env"} /\ "booting" \notin crossed => BootFits(t)
InstallsRight(t) ==
  crossed \cap {"booting", "installing"} = {} =>
    /\ doing[t].pc = "create" => disk.db.admin = 0
    /\ doing[t].pc = "note" => disk.db.admin \in {0, doing[t].has}
CallsRight(t) ==
  /\ doing[t].pc \in {"stop", "forget"} => doing[t].call \in {"stop", "flush", "reset"}
  /\ doing[t].pc = "register" => app.ready
  /\ doing[t].pc = "forget" /\ "serving" \notin crossed => ~server.serves
  /\ doing[t].pc = "save" /\ "wiping" \notin crossed => doing[t].has = disk.token
ThreadsRight == \A t \in ShellThreads : BootsRight(t) /\ InstallsRight(t) /\ CallsRight(t)

AtRestWhenDown == app.up \/ \A t \in ShellThreads : doing[t] = Rest
\* The key that the process knows is that of the file, or the file goes.
KnowsKey ==
  /\ ~app.ready => app.fernet = 0 /\ (Somebody({"arm"}) => disk.db.key = 0)
  /\ app.ready /\ "booting" \notin crossed /\ "arm" \notin torn => app.fernet = disk.fernet \/ ArmedSoon
ShellInv ==
  ShellTypes /\ AllSole /\ ThreadsRight /\ AtRestWhenDown /\ KnowsKey /\ ShellHolds

LEMMA GivenShell == IsFiniteSet(Panels) /\ Tokens \subseteq Nat \ {0}
BY ShellAssumption

LEMMA MiddleIs ==
  ASSUME NEW pc
  PROVE  /\ "booting" \in Middle(pc) <=> pc \in {"finish", "key", "write", "env"}
         /\ "installing" \in Middle(pc) <=> pc \in {"create", "note"}
         /\ "serving" \in Middle(pc) <=> pc \in {"forget", "start"}
         /\ "wiping" \in Middle(pc) <=> pc \in {"finish", "reset", "save"}
<1>1. CASE pc = "finish"
  BY <1>1 DEF Middle
<1>2. CASE pc \in {"key", "write", "env"}
  BY <1>2 DEF Middle
<1>3. CASE pc \in {"create", "note"}
  BY <1>3 DEF Middle
<1>4. CASE pc \in {"forget", "start"}
  BY <1>4 DEF Middle
<1>5. CASE pc \in {"reset", "save"}
  BY <1>5 DEF Middle
<1>6. CASE pc \notin {"finish", "key", "write", "env", "create", "note", "forget", "start", "reset", "save"}
  BY <1>6 DEF Middle
<1> QED BY <1>1, <1>2, <1>3, <1>4, <1>5, <1>6

LEMMA SoleAfter ==
  ASSUME crossed' = crossed \cup Shared(doing')
  PROVE  AllSole'
<1>1. ASSUME NEW m \in {"booting", "installing", "serving", "wiping"}, m \notin crossed',
             NEW t \in ShellThreads, NEW u \in ShellThreads,
             m \in Middle(doing'[t].pc), m \in Middle(doing'[u].pc), t # u
      PROVE  FALSE
  <2>1. PICK s : s = {v \in ShellThreads : m \in Middle(doing'[v].pc)}
    OBVIOUS
  <2>2. IsFiniteSet(ShellThreads)
    BY GivenShell, FS_AddElement DEF ShellThreads
  <2>3. s \subseteq ShellThreads /\ t \in s /\ u \in s
    BY <1>1, <2>1
  <2>4. IsFiniteSet(s) /\ {t, u} \subseteq s /\ Cardinality(s) \in Nat
    BY <2>2, <2>3, FS_Subset, FS_CardinalityType
  <2>5. Cardinality({t, u}) = 2
    <3>1. Cardinality({t}) = 1 /\ IsFiniteSet({t})
      BY FS_Singleton
    <3>2. {t, u} = {t} \cup {u} /\ u \notin {t}
      BY <1>1
    <3> QED BY <3>1, <3>2, FS_AddElement
  <2>6. Cardinality({t, u}) <= Cardinality(s)
    BY <2>4, FS_Subset
  <2>7. m \in Shared(doing')
    BY <2>1, <2>4, <2>5, <2>6 DEF Shared
  <2> QED BY <1>1, <2>7
<1>2. \A m \in {"booting", "installing", "serving", "wiping"} : Sole(m)'
  BY <1>1 DEF Sole
<1> QED BY <1>2 DEF AllSole

\* Two threads are not in the middle of the same thing, where it was not crossed.
LEMMA NobodyElse ==
  ASSUME ShellInv, NEW t \in ShellThreads, NEW u \in ShellThreads, t # u
  PROVE  /\ "booting" \notin crossed => ~(/\ doing[t].pc \in {"finish", "key", "write", "env"}
                                         /\ doing[u].pc \in {"finish", "key", "write", "env"})
         /\ "installing" \notin crossed => ~(doing[t].pc \in {"create", "note"} /\ doing[u].pc \in {"create", "note"})
         /\ "serving" \notin crossed => ~(doing[t].pc \in {"forget", "start"} /\ doing[u].pc \in {"forget", "start"})
         /\ "wiping" \notin crossed => ~(/\ doing[t].pc \in {"finish", "reset", "save"}
                                         /\ doing[u].pc \in {"finish", "reset", "save"})
BY MiddleIs DEF ShellInv, AllSole, Sole

LEMMA ShellBegins == ShellInit => ShellInv
<1> SUFFICES ASSUME ShellInit PROVE ShellInv
  OBVIOUS
<1>1. /\ \A t \in ShellThreads : doing[t] = Rest
      /\ Rest \in ThreadRow /\ Rest.pc = "rest"
  BY DEF ShellInit, Rest, ThreadRow, ShellPcs, ShellCalls
<1>2. /\ disk.armed = FALSE /\ disk.fernet = 0 /\ disk.token = 0 /\ disk.db.key = 0 /\ disk.db.admin = 0
      /\ app.ready = FALSE /\ app.fernet = 0 /\ server.serves = FALSE /\ entered = 0
  BY DEF ShellInit, Wiped, NoDatabase, Down
<1>3. ShellTypes
  BY <1>1 DEF ShellInit, ShellTypes, Wiped, NoDatabase, Down, DiskRow, DatabaseRow, AppRow, ServerRow
<1>4. AllSole
  BY <1>1, MiddleIs DEF AllSole, Sole
<1>5. ThreadsRight /\ AtRestWhenDown /\ KnowsKey
  BY <1>1, <1>2 DEF ThreadsRight, BootsRight, InstallsRight, CallsRight, AtRestWhenDown, KnowsKey, Somebody
<1>6. ShellHolds
  BY <1>2 DEF ShellHolds, KeysFit, CredsOpen, ServerIsHeld, SecretKept
<1> QED BY <1>3, <1>4, <1>5, <1>6 DEF ShellInv

\* A thread goes on, and at most the server changes: it is right where it goes, and has nothing to
\* mark.
LEMMA OneServes ==
  ASSUME ShellInv, NEW t \in ShellThreads, crossed' = crossed \cup Shared(doing'), UNCHANGED <<disk, app, entered, torn>>,
         server' \in ServerRow, ServerIsHeld',
         \A u \in ShellThreads \ {t} :
           doing[u].pc = "forget" /\ "serving" \notin crossed' => ~server'.serves,
         minted' \in Nat, NEW r \in ThreadRow, doing' = [doing EXCEPT ![t] = r],
         doing[t].pc \notin {"arm", "note"}, r.pc # "arm", app.up,
         BootsRight(t)', InstallsRight(t)', CallsRight(t)'
  PROVE  ShellInv'
<1>1. /\ doing \in [ShellThreads -> ThreadRow] /\ doing' \in [ShellThreads -> ThreadRow]
      /\ doing'[t] = r /\ \A u \in ShellThreads \ {t} : doing'[u] = doing[u]
  BY DEF ShellInv, ShellTypes
<1>2. ShellTypes'
  BY <1>1 DEF ShellInv, ShellTypes
<1>3. Somebody({"arm"})' = Somebody({"arm"}) /\ (Somebody({"arm", "note"}) => Somebody({"arm", "note"})')
  BY <1>1 DEF Somebody
<1>4. crossed \subseteq crossed' /\ ArmedSoon' = ArmedSoon
  BY <1>3 DEF ArmedSoon
<1>5. ASSUME NEW u \in ShellThreads \ {t} PROVE BootsRight(u)' /\ InstallsRight(u)' /\ CallsRight(u)'
  <2>1. BootsRight(u) /\ InstallsRight(u) /\ CallsRight(u) /\ doing'[u] = doing[u]
    BY <1>1 DEF ShellInv, ThreadsRight
  <2>2. BootFits(u) => BootFits(u)'
    BY <1>4, <2>1 DEF BootFits
  <2>3. BootsRight(u)'
    BY <1>4, <2>1, <2>2 DEF BootsRight
  <2>4. InstallsRight(u)'
    BY <1>4, <2>1 DEF InstallsRight
  <2>5. CallsRight(u)'
    BY <1>4, <2>1 DEF CallsRight
  <2> QED BY <2>3, <2>4, <2>5
<1>6. ThreadsRight'
  BY <1>5 DEF ThreadsRight
<1>7. KnowsKey'
  BY <1>3, <1>4 DEF ShellInv, KnowsKey
<1>8. KeysFit'
  BY <1>3, <1>4 DEF ShellInv, ShellHolds, KeysFit
<1>9. CredsOpen'
  BY <1>3, <1>4 DEF ShellInv, ShellHolds, CredsOpen
<1>10. SecretKept'
  BY <1>4 DEF ShellInv, ShellHolds, SecretKept
<1> QED BY <1>2, <1>6, <1>7, <1>8, <1>9, <1>10, SoleAfter DEF ShellInv, ShellHolds, AtRestWhenDown

LEMMA OneGoes ==
  ASSUME ShellInv, crossed' = crossed \cup Shared(doing'), UNCHANGED <<disk, app, server, entered, torn>>,
         minted' \in Nat, NEW t \in ShellThreads, NEW r \in ThreadRow, doing' = [doing EXCEPT ![t] = r],
         doing[t].pc \notin {"arm", "note"}, r.pc # "arm", app.up,
         BootsRight(t)', InstallsRight(t)', CallsRight(t)'
  PROVE  ShellInv'
<1>1. server' \in ServerRow /\ crossed \subseteq crossed'
  BY DEF ShellInv, ShellTypes
<1>2. ServerIsHeld'
  BY <1>1 DEF ShellInv, ShellHolds, ServerIsHeld
<1>3. \A u \in ShellThreads \ {t} :
        doing[u].pc = "forget" /\ "serving" \notin crossed' => ~server'.serves
  BY <1>1 DEF ShellInv, ThreadsRight, CallsRight
<1> QED BY <1>1, <1>2, <1>3, OneServes
-----------------------------------------------------------------------------
(* The desktop program: steps of a thread that only move it                *)

\* Where a thread that is about its call has nothing to be right about.
Easy == {"rest", "boot", "migrate", "look", "start", "flush", "reset", "config"}

LEMMA EasyMove ==
  ASSUME ShellInv, crossed' = crossed \cup Shared(doing'), UNCHANGED <<disk, app, server, entered, torn>>,
         minted' \in Nat, NEW t \in ShellThreads, NEW r \in ThreadRow, doing' = [doing EXCEPT ![t] = r],
         doing[t].pc \notin {"arm", "note"}, r.pc \in Easy, app.up
  PROVE  ShellInv'
<1>1. doing'[t] = r /\ r.pc \notin {"finish", "key", "write", "env", "create", "note", "stop", "forget", "register", "save", "arm"}
  BY DEF ShellInv, ShellTypes, Easy
<1>2. BootsRight(t)' /\ InstallsRight(t)' /\ CallsRight(t)'
  BY <1>1 DEF BootsRight, InstallsRight, CallsRight
<1> QED BY <1>1, <1>2, OneGoes

LEMMA ThreadIs ==
  ASSUME ShellInv, NEW t \in ShellThreads
  PROVE  /\ doing \in [ShellThreads -> ThreadRow] /\ doing[t] \in ThreadRow
         /\ doing[t].pc \in ShellPcs /\ doing[t].call \in ShellCalls /\ doing[t].has \in Nat
         /\ BootsRight(t) /\ InstallsRight(t) /\ CallsRight(t)
         /\ doing[t].pc # "rest" => app.up
<1>1. doing \in [ShellThreads -> ThreadRow]
  BY DEF ShellInv, ShellTypes
<1>2. doing[t] \in ThreadRow
  BY <1>1
<1>3. Rest.pc = "rest"
  BY DEF Rest
<1> QED BY <1>1, <1>2, <1>3 DEF ThreadRow, ShellInv, ThreadsRight, AtRestWhenDown

\* Where a call goes, as a thread.
LEMMA GoneTo ==
  ASSUME ShellInv, NEW t \in ShellThreads, NEW pc \in ShellPcs, NEW n \in Nat
  PROVE  /\ Goes(t, pc) => \E r \in ThreadRow : /\ r.pc = pc /\ r.call = doing[t].call /\ r.has = doing[t].has
                                                /\ doing' = [doing EXCEPT ![t] = r]
         /\ GoesWith(t, pc, n) => \E r \in ThreadRow : /\ r.pc = pc /\ r.call = doing[t].call /\ r.has = n
                                                       /\ doing' = [doing EXCEPT ![t] = r]
         /\ Ends(t) => \E r \in ThreadRow : /\ r.pc = "rest" /\ r.call = "none" /\ r.has = 0
                                            /\ doing' = [doing EXCEPT ![t] = r]
<1>1. doing \in [ShellThreads -> ThreadRow] /\ doing[t] \in ThreadRow
  BY ThreadIs
<1>2. ASSUME Goes(t, pc)
      PROVE  \E r \in ThreadRow : /\ r.pc = pc /\ r.call = doing[t].call /\ r.has = doing[t].has
                                  /\ doing' = [doing EXCEPT ![t] = r]
  <2>1. PICK r : r = [doing[t] EXCEPT !.pc = pc]
    OBVIOUS
  <2>2. r \in ThreadRow /\ r.pc = pc /\ r.call = doing[t].call /\ r.has = doing[t].has
    BY <1>1, <2>1 DEF ThreadRow
  <2>3. doing' = [doing EXCEPT ![t] = r]
    BY <1>2, <2>1 DEF Goes
  <2> QED BY <2>2, <2>3
<1>3. ASSUME GoesWith(t, pc, n)
      PROVE  \E r \in ThreadRow : /\ r.pc = pc /\ r.call = doing[t].call /\ r.has = n
                                  /\ doing' = [doing EXCEPT ![t] = r]
  <2>1. PICK r : r = [doing[t] EXCEPT !.pc = pc, !.has = n]
    OBVIOUS
  <2>2. r \in ThreadRow /\ r.pc = pc /\ r.call = doing[t].call /\ r.has = n
    BY <1>1, <2>1 DEF ThreadRow
  <2>3. doing' = [doing EXCEPT ![t] = r]
    BY <1>1, <1>3, <2>1, <2>2 DEF GoesWith, ThreadRow
  <2> QED BY <2>2, <2>3
<1>4. Rest \in ThreadRow /\ Rest.pc = "rest" /\ Rest.call = "none" /\ Rest.has = 0
  BY DEF Rest, ThreadRow, ShellPcs, ShellCalls
<1> QED BY <1>2, <1>3, <1>4 DEF Ends

LEMMA BootedTo ==
  ASSUME ShellInv, NEW t \in ShellThreads, Booted(t)
  PROVE  \E r \in ThreadRow : /\ doing' = [doing EXCEPT ![t] = r]
                              /\ r.pc \in {"rest", "register", "start", "migrate"}
<1>1. CASE doing[t].call = "config"
  <2>1. Ends(t)
    BY <1>1 DEF Booted
  <2> QED BY <2>1, GoneTo DEF ShellPcs
<1>2. CASE doing[t].call # "config"
  <2>1. AfterBoot(doing[t].call) \in {"register", "start", "migrate"}
    BY DEF AfterBoot
  <2>2. \A pc \in {"register", "start", "migrate"} : pc \in ShellPcs
    BY DEF ShellPcs
  <2>3. Goes(t, AfterBoot(doing[t].call))
    BY <1>2 DEF Booted
  <2> QED BY <2>1, <2>2, <2>3, GoneTo
<1> QED BY <1>1, <1>2

LEMMA InstalledTo ==
  ASSUME ShellInv, NEW t \in ShellThreads, Installed(t)
  PROVE  \E r \in ThreadRow : doing' = [doing EXCEPT ![t] = r] /\ r.pc \in {"rest", "start"}
<1>1. "start" \in ShellPcs
  BY DEF ShellPcs
<1>2. CASE doing[t].call = "setup"
  BY <1>1, <1>2, GoneTo DEF Installed
<1>3. CASE doing[t].call # "setup"
  BY <1>1, <1>3, GoneTo DEF Installed
<1> QED BY <1>2, <1>3

LEMMA ClickKeeps ==
  ASSUME ShellInv, crossed' = crossed \cup Shared(doing'), NEW t \in ShellThreads,
         \/ WatchServer /\ t = Autostart
         \/ \E c \in {"setup", "start", "stop", "flush", "reset", "register", "config"} : Click(t, c)
  PROVE  ShellInv'
<1>1. /\ doing[t] = Rest /\ app.up /\ UNCHANGED <<disk, app, server, entered, minted, torn>>
      /\ Rest.pc = "rest" /\ minted \in Nat
  BY DEF WatchServer, Click, Rest, ShellInv, ShellTypes
<1>2. CASE WatchServer /\ t = Autostart
  <2>1. PICK r \in ThreadRow : r = [pc |-> "start", call |-> "start", has |-> 0]
    BY DEF ThreadRow, ShellPcs, ShellCalls
  <2>2. doing' = [doing EXCEPT ![t] = r] /\ r.pc \in Easy
    BY <1>2, <2>1 DEF WatchServer, Easy
  <2> QED BY <1>1, <2>2, EasyMove
<1>3. ASSUME NEW c \in {"setup", "start", "stop", "flush", "reset", "register", "config"}, Click(t, c)
      PROVE  ShellInv'
  <2>1. \/ Entry(c) \in {"boot", "start", "config"}
        \/ Entry(c) = "stop" /\ c \in {"stop", "flush", "reset"}
    BY DEF Entry
  <2>2. Entry(c) \in ShellPcs /\ c \in ShellCalls
    BY <2>1 DEF ShellPcs, ShellCalls
  <2>3. PICK r : r = [pc |-> Entry(c), call |-> c, has |-> 0]
    OBVIOUS
  <2>4. r \in ThreadRow /\ r.pc = Entry(c) /\ r.call = c
    BY <2>2, <2>3 DEF ThreadRow
  <2>5. doing' = [doing EXCEPT ![t] = r]
    BY <1>3, <2>3 DEF Click
  <2>6. CASE r.pc \in Easy
    BY <1>1, <2>4, <2>5, <2>6, EasyMove
  <2>7. CASE r.pc = "stop"
    <3>1. doing'[t] = r
      BY <2>4, <2>5 DEF ShellInv, ShellTypes
    <3>2. r.call \in {"stop", "flush", "reset"}
      BY <2>1, <2>4, <2>7
    <3>3. BootsRight(t)' /\ InstallsRight(t)' /\ CallsRight(t)'
      BY <2>7, <3>1, <3>2 DEF BootsRight, InstallsRight, CallsRight
    <3> QED BY <1>1, <2>4, <2>5, <2>7, <3>3, OneGoes
  <2> QED BY <2>1, <2>4, <2>6, <2>7 DEF Easy
<1> QED BY <1>2, <1>3

\* A thread that boots what is set up goes on with its call.
LEMMA AfterBootKeeps ==
  ASSUME ShellInv, crossed' = crossed \cup Shared(doing'), NEW t \in ShellThreads, Booted(t),
         UNCHANGED <<disk, app, server, entered, minted, torn>>, app.ready, doing[t].pc = "boot"
  PROVE  ShellInv'
<1>1. minted' \in Nat /\ app.up
  BY ThreadIs DEF ShellInv, ShellTypes
<1>2. PICK r \in ThreadRow : /\ doing' = [doing EXCEPT ![t] = r]
                             /\ r.pc \in {"rest", "register", "start", "migrate"}
  BY BootedTo
<1>3. CASE r.pc = "register"
  <2>1. doing'[t] = r
    BY <1>2 DEF ShellInv, ShellTypes
  <2>2. BootsRight(t)' /\ InstallsRight(t)' /\ CallsRight(t)'
    BY <1>3, <2>1 DEF BootsRight, InstallsRight, CallsRight
  <2> QED BY <1>1, <1>2, <1>3, <2>2, OneGoes
<1>4. CASE r.pc # "register"
  BY <1>1, <1>2, <1>4, EasyMove DEF Easy
<1> QED BY <1>3, <1>4

LEMMA BootKeeps ==
  ASSUME ShellInv, crossed' = crossed \cup Shared(doing'), NEW t \in ShellThreads, Boot(t)
  PROVE  ShellInv'
<1>1. doing[t].pc = "boot" /\ UNCHANGED <<disk, app, server, entered, minted, torn>>
  BY DEF Boot, At
<1>2. CASE app.ready
  BY <1>1, <1>2, AfterBootKeeps DEF Boot
<1>3. CASE ~app.ready
  <2>1. minted' \in Nat /\ app.up
    BY <1>1, ThreadIs DEF ShellInv, ShellTypes
  <2>2. \/ Goes(t, "finish") /\ disk.armed
        \/ Goes(t, "key") /\ ~disk.armed
    BY <1>3 DEF Boot
  <2>3. "finish" \in ShellPcs /\ "key" \in ShellPcs
    BY DEF ShellPcs
  <2>4. PICK r \in ThreadRow : /\ r.pc \in {"finish", "key"} /\ (r.pc = "key" => ~disk.armed)
                               /\ doing' = [doing EXCEPT ![t] = r]
    BY <2>2, <2>3, GoneTo
  <2>5. doing'[t] = r
    BY <2>4 DEF ShellInv, ShellTypes
  <2>6. BootFits(t)' \/ "booting" \in crossed
    <3>1. "booting" \notin crossed /\ "arm" \notin torn /\ disk.db.key # 0 => (~disk.armed => disk.db.key = disk.fernet)
      BY <1>3 DEF ShellInv, KnowsKey, ShellHolds, KeysFit
    <3> QED BY <1>1, <1>3, <2>4, <2>5, <3>1 DEF BootFits
  <2>7. BootsRight(t)' /\ InstallsRight(t)' /\ CallsRight(t)'
    BY <2>4, <2>5, <2>6 DEF BootsRight, InstallsRight, CallsRight
  <2> QED BY <1>1, <2>1, <2>4, <2>7, OneGoes
<1> QED BY <1>2, <1>3

LEMMA LoadKeyKeeps ==
  ASSUME ShellInv, crossed' = crossed \cup Shared(doing'), NEW t \in ShellThreads, LoadKey(t)
  PROVE  ShellInv'
<1>1. doing[t].pc = "key" /\ UNCHANGED <<disk, app, server, entered, torn>>
  BY DEF LoadKey, At
<1>2. /\ minted' \in Nat /\ minted + 1 \in Nat /\ app.up /\ disk.fernet \in Nat /\ BootsRight(t)
      /\ "write" \in ShellPcs /\ "env" \in ShellPcs
  BY <1>1, ThreadIs DEF LoadKey, ShellInv, ShellTypes, DiskRow, ShellPcs
<1>3. \/ GoesWith(t, "env", disk.fernet)
      \/ disk.fernet = 0 /\ GoesWith(t, "write", minted + 1)
  BY DEF LoadKey
<1>4. PICK r \in ThreadRow : /\ r.pc \in {"write", "env"} /\ doing' = [doing EXCEPT ![t] = r]
                             /\ r.pc = "env" => r.has = disk.fernet
                             /\ r.pc = "write" => disk.fernet = 0
  BY <1>2, <1>3, GoneTo
<1>5. doing'[t] = r
  BY <1>4 DEF ShellInv, ShellTypes
<1>6. BootFits(t)' \/ "booting" \in crossed
  BY <1>1, <1>2, <1>4, <1>5 DEF BootsRight, BootFits
<1>7. BootsRight(t)' /\ InstallsRight(t)' /\ CallsRight(t)'
  BY <1>4, <1>5, <1>6 DEF BootsRight, InstallsRight, CallsRight
<1> QED BY <1>1, <1>2, <1>4, <1>7, OneGoes

LEMMA LookForUsersKeeps ==
  ASSUME ShellInv, crossed' = crossed \cup Shared(doing'), NEW t \in ShellThreads, LookForUsers(t)
  PROVE  ShellInv'
<1>1. doing[t].pc = "look" /\ UNCHANGED <<disk, app, server, entered, torn>>
  BY DEF LookForUsers, At
<1>2. minted' \in Nat /\ minted + 1 \in Nat /\ app.up /\ "create" \in ShellPcs
  BY <1>1, ThreadIs DEF LookForUsers, ShellInv, ShellTypes, ShellPcs
<1>3. CASE disk.db.admin = 0 /\ GoesWith(t, "create", minted + 1)
  <2>1. PICK r \in ThreadRow : r.pc = "create" /\ doing' = [doing EXCEPT ![t] = r]
    BY <1>2, <1>3, GoneTo
  <2>2. doing'[t] = r
    BY <2>1 DEF ShellInv, ShellTypes
  <2>3. BootsRight(t)' /\ InstallsRight(t)' /\ CallsRight(t)'
    BY <1>1, <1>3, <2>1, <2>2 DEF BootsRight, InstallsRight, CallsRight
  <2> QED BY <1>1, <1>2, <2>1, <2>3, OneGoes
<1>4. CASE Installed(t)
  BY <1>1, <1>2, <1>4, InstalledTo, EasyMove DEF Easy
<1> QED BY <1>3, <1>4 DEF LookForUsers

LEMMA ReadConfigKeeps ==
  ASSUME ShellInv, crossed' = crossed \cup Shared(doing'), NEW t \in ShellThreads, ReadConfig(t)
  PROVE  ShellInv'
<1>1. doing[t].pc = "config" /\ UNCHANGED <<disk, app, server, entered, minted, torn>>
  BY DEF ReadConfig, At
<1>2. minted' \in Nat /\ app.up /\ disk.token \in Nat /\ "save" \in ShellPcs
  BY <1>1, ThreadIs DEF ShellInv, ShellTypes, DiskRow, ShellPcs
<1>3. PICK r \in ThreadRow : r.pc = "save" /\ r.has = disk.token /\ doing' = [doing EXCEPT ![t] = r]
  BY <1>2, GoneTo DEF ReadConfig
<1>4. doing'[t] = r
  BY <1>3 DEF ShellInv, ShellTypes
<1>5. BootsRight(t)' /\ InstallsRight(t)' /\ CallsRight(t)'
  BY <1>1, <1>3, <1>4 DEF BootsRight, InstallsRight, CallsRight
<1> QED BY <1>1, <1>2, <1>3, <1>5, OneGoes
-----------------------------------------------------------------------------
(* The desktop program: its server                                         *)

LEMMA StartServerKeeps ==
  ASSUME ShellInv, crossed' = crossed \cup Shared(doing'), NEW t \in ShellThreads, StartServer(t)
  PROVE  ShellInv'
<1>1. doing[t].pc = "start" /\ UNCHANGED <<disk, app, entered, minted, torn>>
  BY DEF StartServer, At
<1>2. minted' \in Nat /\ app.up /\ crossed \subseteq crossed' /\ server \in ServerRow /\ doing[t] \in ThreadRow
  BY <1>1, ThreadIs DEF ShellInv, ShellTypes
<1>3. CASE IsRunning
  BY <1>1, <1>2, <1>3, GoneTo, EasyMove DEF StartServer, Easy, ShellPcs
<1>4. CASE ~IsRunning /\ ~app.ready
  <2>1. PICK r : r = [doing[t] EXCEPT !.pc = "boot", !.call = "start"]
    OBVIOUS
  <2>2. r \in ThreadRow /\ r.pc = "boot" /\ doing[t] \in ThreadRow
    BY <1>2, <2>1 DEF ThreadRow, ShellPcs, ShellCalls
  <2>3. doing' = [doing EXCEPT ![t].pc = "boot", ![t].call = "start"] /\ server' = server
    BY <1>4 DEF StartServer
  <2>4. doing' = [doing EXCEPT ![t] = r]
    BY <2>1, <2>2, <2>3, ThreadIs DEF ThreadRow
  <2> QED BY <1>1, <1>2, <2>2, <2>3, <2>4, EasyMove DEF Easy
<1>5. CASE ~IsRunning /\ app.ready
  <2>1. server' = (IF server.serves THEN server ELSE [serves |-> TRUE, held |-> TRUE]) /\ Ends(t)
    BY <1>5 DEF StartServer
  <2>2. server' \in ServerRow
    BY <1>2, <2>1 DEF ServerRow
  <2>3. ServerIsHeld'
    BY <1>2, <2>1 DEF ShellInv, ShellHolds, ServerIsHeld
  <2>4. PICK r \in ThreadRow : r.pc = "rest" /\ doing' = [doing EXCEPT ![t] = r]
    BY <2>1, GoneTo DEF ShellPcs
  <2>5. doing'[t] = r
    BY <2>4 DEF ShellInv, ShellTypes
  <2>6. BootsRight(t)' /\ InstallsRight(t)' /\ CallsRight(t)'
    BY <2>4, <2>5 DEF BootsRight, InstallsRight, CallsRight
  <2>7. \A u \in ShellThreads \ {t} :
          doing[u].pc = "forget" /\ "serving" \notin crossed' => ~server'.serves
    BY <1>1, <1>2, NobodyElse
  <2> QED BY <1>1, <1>2, <2>2, <2>3, <2>4, <2>6, <2>7, OneServes
<1> QED BY <1>3, <1>4, <1>5

LEMMA CloseServerKeeps ==
  ASSUME ShellInv, crossed' = crossed \cup Shared(doing'), NEW t \in ShellThreads,
         CloseServer(t) \/ ForgetServer(t)
  PROVE  ShellInv'
<1>1. doing[t].pc \in {"stop", "forget"} /\ UNCHANGED <<disk, app, entered, minted, torn>>
  BY DEF CloseServer, ForgetServer, At
<1>2. /\ minted' \in Nat /\ app.up /\ crossed \subseteq crossed' /\ server \in ServerRow
      /\ server.serves \in BOOLEAN /\ server.held \in BOOLEAN /\ CallsRight(t)
      /\ \A u \in ShellThreads : CallsRight(u)
  BY <1>1, ThreadIs DEF ShellInv, ShellTypes, ServerRow
<1>3. CASE CloseServer(t)
  <2>1. PICK s : s = [server EXCEPT !.serves = server.serves /\ ~server.held]
    OBVIOUS
  <2>2. s \in ServerRow /\ s.serves = (server.serves /\ ~server.held) /\ s.held = server.held
    BY <1>2, <2>1 DEF ServerRow
  <2>3. server' = s /\ Goes(t, "forget") /\ doing[t].pc = "stop"
    BY <1>3, <2>1 DEF CloseServer, At
  <2>4. "forget" \in ShellPcs
    BY DEF ShellPcs
  <2>5. PICK r \in ThreadRow : r.pc = "forget" /\ r.call = doing[t].call /\ doing' = [doing EXCEPT ![t] = r]
    BY <2>3, <2>4, GoneTo
  <2>6. doing'[t] = r
    BY <2>5 DEF ShellInv, ShellTypes
  <2>7. "serving" \notin crossed => ~s.serves
    BY <2>2 DEF ShellInv, ShellHolds, ServerIsHeld
  <2>8. ServerIsHeld'
    BY <1>2, <2>3, <2>7 DEF ServerIsHeld
  <2>9. BootsRight(t)' /\ InstallsRight(t)' /\ CallsRight(t)'
    BY <1>2, <2>3, <2>5, <2>6, <2>7 DEF BootsRight, InstallsRight, CallsRight
  <2>10. \A u \in ShellThreads \ {t} :
          doing[u].pc = "forget" /\ "serving" \notin crossed' => ~server'.serves
    BY <1>2, <2>3, <2>7
  <2> QED BY <1>1, <1>2, <2>2, <2>3, <2>5, <2>8, <2>9, <2>10, OneServes
<1>4. CASE ForgetServer(t)
  <2>1. PICK s : s = [server EXCEPT !.held = FALSE]
    OBVIOUS
  <2>2. s \in ServerRow /\ s.serves = server.serves
    BY <1>2, <2>1 DEF ServerRow
  <2>3. /\ server' = s /\ doing[t].pc = "forget"
        /\ IF doing[t].call = "stop" THEN Ends(t) ELSE Goes(t, doing[t].call)
    BY <1>4, <2>1 DEF ForgetServer, At
  <2>4. doing[t].call \in {"stop", "flush", "reset"} /\ ("serving" \notin crossed => ~server.serves)
    BY <1>2, <2>3 DEF CallsRight
  <2>5. "flush" \in ShellPcs /\ "reset" \in ShellPcs
    BY DEF ShellPcs
  <2>6. PICK r \in ThreadRow : r.pc \in {"rest", "flush", "reset"} /\ doing' = [doing EXCEPT ![t] = r]
    BY <2>3, <2>4, <2>5, GoneTo
  <2>7. doing'[t] = r
    BY <2>6 DEF ShellInv, ShellTypes
  <2>8. ServerIsHeld'
    BY <1>2, <2>2, <2>3, <2>4 DEF ServerIsHeld
  <2>9. BootsRight(t)' /\ InstallsRight(t)' /\ CallsRight(t)'
    BY <2>6, <2>7 DEF BootsRight, InstallsRight, CallsRight
  <2>10. \A u \in ShellThreads \ {t} :
          doing[u].pc = "forget" /\ "serving" \notin crossed' => ~server'.serves
    BY <1>2, <2>2, <2>3, <2>4
  <2> QED BY <1>1, <1>2, <2>2, <2>3, <2>6, <2>8, <2>9, <2>10, OneServes
<1> QED BY <1>3, <1>4

-----------------------------------------------------------------------------
(* The desktop program: its files                                          *)

LEMMA DiskIs ==
  ASSUME ShellInv
  PROVE  /\ disk \in DiskRow /\ disk.fernet \in Nat /\ disk.creds \in Nat /\ disk.token \in Nat
         /\ disk.armed \in BOOLEAN /\ disk.db \in DatabaseRow /\ disk.db.made \in BOOLEAN
         /\ disk.db.admin \in Nat /\ disk.db.key \in Nat
         /\ app.ready \in BOOLEAN /\ app.fernet \in Nat
BY DEF ShellInv, ShellTypes, DiskRow, DatabaseRow, AppRow

LEMMA Moved ==
  ASSUME ShellInv, NEW t \in ShellThreads, NEW r \in ThreadRow, doing' = [doing EXCEPT ![t] = r]
  PROVE  /\ doing' \in [ShellThreads -> ThreadRow] /\ doing'[t] = r
         /\ \A u \in ShellThreads \ {t} : doing'[u] = doing[u]
         /\ r.pc = "arm" => Somebody({"arm"})' /\ Somebody({"arm", "note"})'
         /\ r.pc = "note" => Somebody({"arm", "note"})'
         /\ doing[t].pc # "arm" /\ Somebody({"arm"}) => Somebody({"arm"})'
         /\ doing[t].pc \notin {"arm", "note"} /\ Somebody({"arm", "note"}) => Somebody({"arm", "note"})'
         /\ r.pc # "arm" /\ Somebody({"arm"})' => Somebody({"arm"})
BY DEF ShellInv, ShellTypes, Somebody

\* The database that is left.
LEMMA LeftIs ==
  ASSUME ShellInv, NEW db \in Left
  PROVE  /\ db \in DatabaseRow /\ db.key \in {0, disk.db.key} /\ db.admin \in {0, disk.db.admin}
         /\ ~app.ready => db.key = 0 /\ db.admin = 0
<1>1. NoDatabase \in DatabaseRow /\ NoDatabase.key = 0 /\ NoDatabase.admin = 0
  BY DEF NoDatabase, DatabaseRow
<1> QED BY <1>1, DiskIs DEF Left

\* A step on the files: what is left to show when the server and what died stay as they are.
LEMMA FilesKeep ==
  ASSUME ShellInv, crossed' = crossed \cup Shared(doing'), UNCHANGED <<server, torn>>,
         minted' \in Nat, entered' \in Nat, disk' \in DiskRow, app' \in AppRow, app'.up,
         NEW t \in ShellThreads, NEW r \in ThreadRow, doing' = [doing EXCEPT ![t] = r],
         r.pc # "forget",
         \A u \in ShellThreads : /\ BootsRight(u)' /\ InstallsRight(u)'
                                 /\ doing'[u].pc \in {"stop", "forget"} => doing'[u].call \in {"stop", "flush", "reset"}
                                 /\ doing'[u].pc = "register" => app'.ready
                                 /\ doing'[u].pc = "save" /\ "wiping" \notin crossed' => doing'[u].has = disk'.token,
         KnowsKey', KeysFit', CredsOpen', SecretKept'
  PROVE  ShellInv'
<1>1. crossed \subseteq crossed' /\ doing' \in [ShellThreads -> ThreadRow]
  BY Moved
<1>2. ShellTypes'
  BY <1>1 DEF ShellInv, ShellTypes
<1>3. ServerIsHeld'
  BY <1>1 DEF ShellInv, ShellHolds, ServerIsHeld
<1>4. ASSUME NEW u \in ShellThreads PROVE CallsRight(u)'
  <2>1. doing'[u].pc = "forget" => doing[u].pc = "forget"
    BY Moved
  <2>2. doing'[u].pc = "forget" /\ "serving" \notin crossed' => ~server'.serves
    BY <1>1, <2>1, ThreadIs DEF CallsRight
  <2> QED BY <2>2 DEF CallsRight
<1>5. ThreadsRight'
  BY <1>4 DEF ThreadsRight
<1> QED BY <1>2, <1>3, <1>5, SoleAfter DEF ShellInv, ShellHolds, AtRestWhenDown
LEMMA FinishResetKeeps ==
  ASSUME ShellInv, crossed' = crossed \cup Shared(doing'), NEW t \in ShellThreads, FinishReset(t)
  PROVE  ShellInv'
<1>1. /\ doing[t].pc = "finish" /\ UNCHANGED <<app, server, minted, torn>> /\ entered' = 0
      /\ Goes(t, "key") /\ "key" \in ShellPcs
  BY DEF FinishReset, At, ShellPcs
<1>2. PICK db \in Left : disk' = [Wiped EXCEPT !.db = db]
  BY DEF FinishReset
<1>3. /\ db \in DatabaseRow /\ db.key \in {0, disk.db.key} /\ db.admin \in {0, disk.db.admin}
      /\ ~app.ready => db.key = 0 /\ db.admin = 0
  BY LeftIs
<1>4. /\ disk' \in DiskRow /\ disk'.fernet = 0 /\ disk'.token = 0 /\ disk'.db = db
  BY <1>2, <1>3 DEF Wiped, DiskRow
<1>5. PICK r \in ThreadRow : r.pc = "key" /\ doing' = [doing EXCEPT ![t] = r]
  BY <1>1, GoneTo
<1>6. app.up /\ app \in AppRow /\ minted \in Nat /\ crossed \subseteq crossed' /\ BootsRight(t)
  BY <1>1, ThreadIs DEF ShellInv, ShellTypes
<1>7. "booting" \notin crossed => ~app.ready
  BY <1>1, <1>6 DEF BootsRight, BootFits
<1>8. ASSUME NEW u \in ShellThreads
      PROVE  /\ BootsRight(u)' /\ InstallsRight(u)'
             /\ doing'[u].pc \in {"stop", "forget"} => doing'[u].call \in {"stop", "flush", "reset"}
             /\ doing'[u].pc = "register" => app'.ready
             /\ doing'[u].pc = "save" /\ "wiping" \notin crossed' => doing'[u].has = disk'.token
  <2>1. (u # t /\ doing'[u] = doing[u]) \/ (u = t /\ doing'[u].pc = "key")
    BY <1>5, Moved
  <2>2. "booting" \notin crossed' /\ doing'[u].pc \in {"finish", "key", "write", "env"} => doing'[u].pc = "key"
    BY <1>1, <1>6, <2>1, NobodyElse
  <2>3. BootsRight(u)'
    BY <1>1, <1>3, <1>4, <1>6, <1>7, <2>2 DEF BootsRight, BootFits
  <2>4. InstallsRight(u)'
    BY <1>3, <1>4, <1>6, <1>7 DEF InstallsRight
  <2>5. doing'[u].pc = "save" /\ "wiping" \notin crossed' => FALSE
    BY <1>1, <1>6, <2>1, NobodyElse
  <2> QED BY <1>1, <2>1, <2>3, <2>4, <2>5, ThreadIs DEF CallsRight
<1>9. KnowsKey' /\ KeysFit' /\ CredsOpen' /\ SecretKept'
  <2>1. KnowsKey'
    BY <1>1, <1>3, <1>4, <1>6, <1>7 DEF ShellInv, KnowsKey
  <2>2. KeysFit' /\ CredsOpen'
    BY <1>3, <1>4, <1>6, <1>7 DEF KeysFit, CredsOpen
  <2> QED BY <1>1, <1>4, <2>1, <2>2 DEF SecretKept
<1> QED BY <1>1, <1>4, <1>5, <1>6, <1>8, <1>9, FilesKeep

LEMMA WriteKeyKeeps ==
  ASSUME ShellInv, crossed' = crossed \cup Shared(doing'), NEW t \in ShellThreads, WriteKey(t)
  PROVE  ShellInv'
<1>1. /\ doing[t].pc = "write" /\ UNCHANGED <<app, server, entered, minted, torn>>
      /\ Goes(t, "env") /\ "env" \in ShellPcs /\ disk' = [disk EXCEPT !.fernet = doing[t].has]
  BY DEF WriteKey, At, ShellPcs
<1>2. /\ app.up /\ app \in AppRow /\ minted \in Nat /\ entered \in Nat /\ crossed \subseteq crossed'
      /\ BootsRight(t) /\ doing[t].has \in Nat
  BY <1>1, ThreadIs DEF ShellInv, ShellTypes
<1>3. /\ disk' \in DiskRow /\ disk'.fernet = doing[t].has /\ disk'.token = disk.token /\ disk'.db = disk.db
      /\ disk'.creds = disk.creds /\ disk'.armed = disk.armed
  BY <1>1, <1>2, DiskIs DEF DiskRow
<1>4. PICK r \in ThreadRow : r.pc = "env" /\ r.has = doing[t].has /\ doing' = [doing EXCEPT ![t] = r]
  BY <1>1, GoneTo
<1>5. "booting" \notin crossed' => ~app.ready /\ ("arm" \notin torn => disk.db.key = 0)
  BY <1>1, <1>2 DEF BootsRight, BootFits
<1>6. ASSUME NEW u \in ShellThreads
      PROVE  /\ BootsRight(u)' /\ InstallsRight(u)'
             /\ doing'[u].pc \in {"stop", "forget"} => doing'[u].call \in {"stop", "flush", "reset"}
             /\ doing'[u].pc = "register" => app'.ready
             /\ doing'[u].pc = "save" /\ "wiping" \notin crossed' => doing'[u].has = disk'.token
  <2>1. (u # t /\ doing'[u] = doing[u]) \/ (u = t /\ doing'[u] = r)
    BY <1>4, Moved
  <2>2. "booting" \notin crossed' /\ doing'[u].pc \in {"finish", "key", "write", "env"} => doing'[u] = r
    BY <1>1, <1>2, <2>1, NobodyElse
  <2>3. BootsRight(u)'
    BY <1>1, <1>2, <1>3, <1>4, <1>5, <2>2 DEF BootsRight, BootFits
  <2>4. InstallsRight(u)'
    BY <1>2, <1>3, <1>4, <2>1, ThreadIs DEF InstallsRight
  <2> QED BY <1>1, <1>2, <1>3, <1>4, <2>1, <2>3, <2>4, ThreadIs DEF CallsRight
<1>7. KnowsKey' /\ KeysFit' /\ CredsOpen' /\ SecretKept'
  <2>1. /\ Somebody({"arm"})' => Somebody({"arm"})
        /\ Somebody({"arm", "note"}) => Somebody({"arm", "note"})'
    BY <1>1, <1>4, Moved
  <2>2. KnowsKey'
    BY <1>1, <1>3, <1>5, <2>1 DEF ShellInv, KnowsKey
  <2>3. KeysFit'
    BY <1>1, <1>3, <1>5 DEF KeysFit
  <2>4. CredsOpen'
    BY <1>1, <1>2, <1>3, <2>1 DEF ShellInv, ShellHolds, CredsOpen
  <2>5. SecretKept'
    BY <1>1, <1>2, <1>3 DEF ShellInv, ShellHolds, SecretKept
  <2> QED BY <2>2, <2>3, <2>4, <2>5
<1> QED BY <1>1, <1>2, <1>3, <1>4, <1>6, <1>7, FilesKeep

LEMMA SetEnvironmentKeeps ==
  ASSUME ShellInv, crossed' = crossed \cup Shared(doing'), NEW t \in ShellThreads, SetEnvironment(t)
  PROVE  ShellInv'
<1>1. /\ doing[t].pc = "env" /\ UNCHANGED <<disk, server, entered, minted, torn>> /\ Booted(t)
  BY DEF SetEnvironment, At
<1>2. /\ app.up /\ app \in AppRow /\ minted \in Nat /\ entered \in Nat /\ crossed \subseteq crossed'
      /\ BootsRight(t) /\ doing[t].has \in Nat /\ disk' \in DiskRow
  BY <1>1, ThreadIs DEF ShellInv, ShellTypes
<1>3. PICK known \in Nat : known = IF app.fernet = 0 THEN doing[t].has ELSE app.fernet
  BY <1>2, DiskIs
<1>4. PICK a : a = [app EXCEPT !.ready = TRUE, !.fernet = known]
  OBVIOUS
<1>5. a \in AppRow /\ a.ready = TRUE /\ a.fernet = known /\ a.up = app.up
  BY <1>2, <1>4 DEF AppRow
<1>6. app' = a
  BY <1>3, <1>4 DEF SetEnvironment
<1>7. PICK r \in ThreadRow : /\ doing' = [doing EXCEPT ![t] = r]
                             /\ r.pc \in {"rest", "register", "start", "migrate"}
  BY <1>1, BootedTo
<1>8. "booting" \notin crossed' => /\ known = doing[t].has
                                   /\ "arm" \notin torn /\ disk.db.key # 0 => disk.db.key = doing[t].has
                                   /\ doing[t].has = disk.fernet \/ ArmedSoon
  <2>1. "booting" \notin crossed' => BootFits(t)
    BY <1>1, <1>2 DEF BootsRight
  <2>2. ~app.ready => app.fernet = 0
    BY DEF ShellInv, KnowsKey
  <2> QED BY <1>1, <1>3, <2>1, <2>2 DEF BootFits
<1>9. ASSUME NEW u \in ShellThreads
      PROVE  /\ BootsRight(u)' /\ InstallsRight(u)'
             /\ doing'[u].pc \in {"stop", "forget"} => doing'[u].call \in {"stop", "flush", "reset"}
             /\ doing'[u].pc = "register" => app'.ready
             /\ doing'[u].pc = "save" /\ "wiping" \notin crossed' => doing'[u].has = disk'.token
  <2>1. (u # t /\ doing'[u] = doing[u]) \/ (u = t /\ doing'[u] = r)
    BY <1>7, Moved
  <2>2. "booting" \notin crossed' => doing'[u].pc \notin {"finish", "key", "write", "env"}
    BY <1>1, <1>2, <1>7, <2>1, NobodyElse
  <2>3. BootsRight(u)'
    BY <2>2 DEF BootsRight
  <2>4. InstallsRight(u)'
    BY <1>1, <1>2, <1>7, <2>1, ThreadIs DEF InstallsRight
  <2> QED BY <1>1, <1>2, <1>5, <1>6, <1>7, <2>1, <2>3, <2>4, ThreadIs DEF CallsRight
<1>10. KnowsKey' /\ KeysFit' /\ CredsOpen' /\ SecretKept'
  <2>1. /\ Somebody({"arm"}) => Somebody({"arm"})'
        /\ Somebody({"arm", "note"}) => Somebody({"arm", "note"})'
    BY <1>1, <1>7, Moved
  <2>2. KnowsKey'
    BY <1>1, <1>5, <1>6, <1>8, <2>1 DEF KnowsKey, ArmedSoon
  <2>3. KeysFit'
    BY <1>1, <1>2, <1>5, <1>6, <1>8, <2>1 DEF ShellInv, ShellHolds, KeysFit
  <2>4. CredsOpen'
    BY <1>1, <1>2, <2>1 DEF ShellInv, ShellHolds, CredsOpen
  <2>5. SecretKept'
    BY <1>1, <1>2 DEF ShellInv, ShellHolds, SecretKept
  <2> QED BY <2>2, <2>3, <2>4, <2>5
<1> QED BY <1>1, <1>2, <1>5, <1>6, <1>7, <1>9, <1>10, FilesKeep

\* While the key files and the process stay, and no thread that boots or resets is involved, the
\* keys fit.
LEMMA KeysStay ==
  ASSUME ShellInv, crossed \subseteq crossed', UNCHANGED <<app, torn>>, disk'.fernet = disk.fernet,
         disk'.db.key \in {0, disk.db.key}, disk'.armed = disk.armed,
         Somebody({"arm"})' = Somebody({"arm"})
  PROVE  /\ KnowsKey' /\ KeysFit'
         /\ \A u \in ShellThreads : doing'[u] = doing[u] => BootsRight(u)'
<1>1. ArmedSoon' = ArmedSoon
  BY DEF ArmedSoon
<1>2. KnowsKey'
  BY <1>1 DEF ShellInv, KnowsKey
<1>3. KeysFit'
  BY <1>1 DEF ShellInv, ShellHolds, KeysFit
<1>4. ASSUME NEW u \in ShellThreads, doing'[u] = doing[u] PROVE BootsRight(u)'
  <2>1. BootsRight(u)
    BY ThreadIs
  <2>2. BootFits(u) => BootFits(u)'
    BY <1>1, <1>4 DEF BootFits
  <2> QED BY <1>4, <2>1, <2>2 DEF BootsRight
<1> QED BY <1>2, <1>3, <1>4
LEMMA InstallingKeeps ==
  ASSUME ShellInv, crossed' = crossed \cup Shared(doing'), NEW t \in ShellThreads,
         Migrate(t) \/ BootstrapAdmin(t) \/ WriteAdminCreds(t)
  PROVE  ShellInv'
<1>1. doing[t].pc \in {"migrate", "create", "note"} /\ UNCHANGED <<app, server, entered, minted, torn>>
  BY DEF Migrate, BootstrapAdmin, WriteAdminCreds, At
<1>2. /\ app.up /\ app \in AppRow /\ minted \in Nat /\ entered \in Nat /\ crossed \subseteq crossed'
      /\ doing[t].has \in Nat /\ InstallsRight(t)
  BY <1>1, ThreadIs DEF ShellInv, ShellTypes
<1>3. CASE BootstrapAdmin(t) /\ ~disk.db.made
  <2>1. Installed(t) /\ disk' = disk /\ doing[t].pc = "create"
    BY <1>3 DEF BootstrapAdmin, At
  <2> QED BY <1>1, <1>2, <2>1, InstalledTo, EasyMove DEF Easy
<1>4. ASSUME NEW admin \in Nat, NEW creds \in Nat, NEW r \in ThreadRow,
             doing' = [doing EXCEPT ![t] = r], r.pc \in {"look", "note", "rest", "start"},
             disk' \in DiskRow, disk'.fernet = disk.fernet, disk'.db.key = disk.db.key,
             disk'.armed = disk.armed, disk'.token = disk.token, disk'.db.admin = admin, disk'.creds = creds,
             admin = disk.db.admin \/ doing[t].pc = "create",
             \/ creds = disk.creds /\ doing[t].pc # "note"
             \/ /\ doing[t].pc = "note"
                /\ creds = admin \/ admin = 0 \/ crossed \cap {"booting", "installing"} # {},
             crossed \cap {"booting", "installing"} = {} /\ r.pc = "note" => admin \in {0, r.has},
             doing[t].pc = "create" => r.pc = "note"
      PROVE  ShellInv'
    <2>1. Somebody({"arm"})' = Somebody({"arm"})
      BY <1>1, <1>4, Moved DEF Somebody
    <2>2. KnowsKey' /\ KeysFit' /\ \A u \in ShellThreads : doing'[u] = doing[u] => BootsRight(u)'
      BY <1>1, <1>2, <1>4, <2>1, KeysStay
    <2>3. ASSUME NEW u \in ShellThreads
          PROVE  /\ BootsRight(u)' /\ InstallsRight(u)'
                 /\ doing'[u].pc \in {"stop", "forget"} => doing'[u].call \in {"stop", "flush", "reset"}
                 /\ doing'[u].pc = "register" => app'.ready
                 /\ doing'[u].pc = "save" /\ "wiping" \notin crossed' => doing'[u].has = disk'.token
      <3>1. CASE u = t
        <4>1. doing'[u] = r
          BY <1>4, <3>1, Moved
        <4> QED BY <1>2, <1>4, <4>1 DEF BootsRight, InstallsRight
      <3>2. CASE u # t
        <4>1. doing'[u] = doing[u]
          BY <1>4, <3>2, Moved
        <4>2. admin # disk.db.admin /\ "installing" \notin crossed => doing[u].pc \notin {"create", "note"}
          BY <1>4, <3>2, NobodyElse
        <4>3. InstallsRight(u)'
          BY <1>2, <1>4, <4>1, <4>2, ThreadIs DEF InstallsRight
        <4> QED BY <1>1, <1>2, <1>4, <2>2, <4>1, <4>3, ThreadIs DEF CallsRight
      <3> QED BY <3>1, <3>2
    <2>4. CredsOpen'
      <3>1. CASE r.pc = "note"
        BY <1>4, <3>1, Moved DEF CredsOpen
      <3>2. CASE r.pc # "note" /\ doing[t].pc = "note"
        BY <1>1, <1>2, <1>4, <3>2 DEF CredsOpen
      <3>3. CASE doing[t].pc = "migrate"
        <4>1. Somebody({"arm", "note"}) => Somebody({"arm", "note"})'
          BY <1>4, <3>3, Moved
        <4> QED BY <1>1, <1>2, <1>4, <3>3, <4>1 DEF ShellInv, ShellHolds, CredsOpen
      <3> QED BY <1>1, <1>4, <3>1, <3>2, <3>3
    <2>5. SecretKept'
      BY <1>1, <1>2, <1>4 DEF ShellInv, ShellHolds, SecretKept
    <2> QED BY <1>1, <1>2, <1>4, <2>2, <2>3, <2>4, <2>5, FilesKeep
<1>5. CASE Migrate(t)
  <2>1. disk' = [disk EXCEPT !.db.made = TRUE] /\ Goes(t, "look") /\ "look" \in ShellPcs /\ doing[t].pc = "migrate"
    BY <1>5 DEF Migrate, At, ShellPcs
  <2>2. PICK db : db = [disk.db EXCEPT !.made = TRUE]
    OBVIOUS
  <2>3. db \in DatabaseRow /\ db.admin = disk.db.admin /\ db.key = disk.db.key
    BY <2>2, DiskIs DEF DatabaseRow
  <2>4. disk' = [disk EXCEPT !.db = db]
    BY <2>1, <2>2, DiskIs DEF DiskRow
  <2>5. /\ disk' \in DiskRow /\ disk'.fernet = disk.fernet /\ disk'.db = db /\ disk'.armed = disk.armed
        /\ disk'.token = disk.token /\ disk'.creds = disk.creds
    BY <2>3, <2>4, DiskIs DEF DiskRow
  <2>6. PICK r \in ThreadRow : r.pc = "look" /\ doing' = [doing EXCEPT ![t] = r]
    BY <2>1, GoneTo
  <2> QED BY <1>4, <2>1, <2>3, <2>5, <2>6, DiskIs
<1>6. CASE BootstrapAdmin(t) /\ disk.db.made
  <2>1. PICK admin \in Nat : admin = IF disk.db.admin = 0 THEN doing[t].has ELSE disk.db.admin
    BY <1>2, DiskIs
  <2>2. disk' = [disk EXCEPT !.db.admin = admin] /\ Goes(t, "note") /\ "note" \in ShellPcs /\ doing[t].pc = "create"
    BY <1>6, <2>1 DEF BootstrapAdmin, At, ShellPcs
  <2>3. PICK db : db = [disk.db EXCEPT !.admin = admin]
    OBVIOUS
  <2>4. db \in DatabaseRow /\ db.admin = admin /\ db.key = disk.db.key
    BY <2>3, DiskIs DEF DatabaseRow
  <2>5. disk' = [disk EXCEPT !.db = db]
    BY <2>2, <2>3, DiskIs DEF DiskRow
  <2>6. /\ disk' \in DiskRow /\ disk'.fernet = disk.fernet /\ disk'.db = db /\ disk'.armed = disk.armed
        /\ disk'.token = disk.token /\ disk'.creds = disk.creds
    BY <2>4, <2>5, DiskIs DEF DiskRow
  <2>7. PICK r \in ThreadRow : r.pc = "note" /\ r.has = doing[t].has /\ doing' = [doing EXCEPT ![t] = r]
    BY <2>2, GoneTo
  <2>8. crossed \cap {"booting", "installing"} = {} => disk.db.admin = 0
    BY <1>2, <2>2 DEF InstallsRight
  <2>9. crossed \cap {"booting", "installing"} = {} => admin \in {0, r.has}
    BY <2>1, <2>7, <2>8
  <2> QED BY <1>4, <2>2, <2>4, <2>6, <2>7, <2>9, DiskIs
<1>7. CASE WriteAdminCreds(t)
  <2>1. disk' = [disk EXCEPT !.creds = doing[t].has] /\ Installed(t) /\ doing[t].pc = "note"
    BY <1>7 DEF WriteAdminCreds, At
  <2>2. /\ disk' \in DiskRow /\ disk'.fernet = disk.fernet /\ disk'.db = disk.db /\ disk'.armed = disk.armed
        /\ disk'.token = disk.token /\ disk'.creds = doing[t].has
    BY <1>2, <2>1, DiskIs DEF DiskRow
  <2>3. PICK r \in ThreadRow : r.pc \in {"rest", "start"} /\ doing' = [doing EXCEPT ![t] = r]
    BY <2>1, InstalledTo
  <2>4. crossed \cap {"booting", "installing"} = {} => disk.db.admin \in {0, doing[t].has}
    BY <1>2, <2>1 DEF InstallsRight
  <2> QED BY <1>2, <1>4, <2>1, <2>2, <2>3, <2>4, DiskIs
<1> QED BY <1>3, <1>5, <1>6, <1>7

LEMMA FlushKeeps ==
  ASSUME ShellInv, crossed' = crossed \cup Shared(doing'), NEW t \in ShellThreads, FlushDatabase(t)
  PROVE  ShellInv'
<1>1. /\ doing[t].pc = "flush" /\ UNCHANGED <<app, server, entered, minted, torn>>
      /\ Goes(t, "boot") /\ "boot" \in ShellPcs
  BY DEF FlushDatabase, At, ShellPcs
<1>2. PICK db \in Left : disk' = [disk EXCEPT !.db = db]
  BY DEF FlushDatabase
<1>3. db \in DatabaseRow /\ db.key \in {0, disk.db.key} /\ db.admin \in {0, disk.db.admin}
  BY LeftIs
<1>4. /\ disk' \in DiskRow /\ disk'.fernet = disk.fernet /\ disk'.db = db /\ disk'.armed = disk.armed
      /\ disk'.token = disk.token /\ disk'.creds = disk.creds
  BY <1>2, <1>3, DiskIs DEF DiskRow
<1>5. PICK r \in ThreadRow : r.pc = "boot" /\ doing' = [doing EXCEPT ![t] = r]
  BY <1>1, GoneTo
<1>6. /\ app.up /\ app \in AppRow /\ minted \in Nat /\ entered \in Nat /\ crossed \subseteq crossed'
  BY <1>1, ThreadIs DEF ShellInv, ShellTypes
<1>7. /\ Somebody({"arm"})' = Somebody({"arm"})
      /\ Somebody({"arm", "note"}) => Somebody({"arm", "note"})'
  BY <1>1, <1>5, Moved DEF Somebody
<1>8. KnowsKey' /\ KeysFit' /\ \A u \in ShellThreads : doing'[u] = doing[u] => BootsRight(u)'
  BY <1>1, <1>3, <1>4, <1>6, <1>7, KeysStay
<1>9. ASSUME NEW u \in ShellThreads
      PROVE  /\ BootsRight(u)' /\ InstallsRight(u)'
             /\ doing'[u].pc \in {"stop", "forget"} => doing'[u].call \in {"stop", "flush", "reset"}
             /\ doing'[u].pc = "register" => app'.ready
             /\ doing'[u].pc = "save" /\ "wiping" \notin crossed' => doing'[u].has = disk'.token
  <2>1. CASE doing'[u] = r
    BY <1>5, <2>1 DEF BootsRight, InstallsRight
  <2>2. CASE doing'[u] = doing[u]
    <3>1. InstallsRight(u)'
      BY <1>3, <1>4, <1>6, <2>2, ThreadIs DEF InstallsRight
    <3> QED BY <1>1, <1>4, <1>6, <1>8, <2>2, <3>1, ThreadIs DEF CallsRight
  <2> QED BY <1>5, <2>1, <2>2, Moved
<1>10. CredsOpen'
  BY <1>1, <1>3, <1>4, <1>6, <1>7 DEF ShellInv, ShellHolds, CredsOpen
<1>11. SecretKept'
  BY <1>1, <1>4, <1>6 DEF ShellInv, ShellHolds, SecretKept
<1> QED BY <1>1, <1>4, <1>5, <1>6, <1>8, <1>9, <1>10, <1>11, FilesKeep

LEMMA WipeKeeps ==
  ASSUME ShellInv, crossed' = crossed \cup Shared(doing'), NEW t \in ShellThreads, WipeData(t)
  PROVE  ShellInv'
<1>1. /\ doing[t].pc = "reset" /\ UNCHANGED <<app, server, minted, torn>> /\ entered' = 0
      /\ Goes(t, "arm") /\ "arm" \in ShellPcs
  BY DEF WipeData, At, ShellPcs
<1>2. PICK db \in Left : disk' = [Wiped EXCEPT !.db = db, !.armed = disk.armed]
  BY DEF WipeData
<1>3. /\ db \in DatabaseRow /\ db.key \in {0, disk.db.key} /\ db.admin \in {0, disk.db.admin}
      /\ ~app.ready => db.key = 0 /\ db.admin = 0
  BY LeftIs
<1>4. disk' \in DiskRow /\ disk'.db = db /\ disk'.token = 0
  BY <1>2, <1>3, DiskIs DEF DiskRow, Wiped
<1>5. PICK r \in ThreadRow : r.pc = "arm" /\ doing' = [doing EXCEPT ![t] = r]
  BY <1>1, GoneTo
<1>6. /\ app.up /\ app \in AppRow /\ minted \in Nat /\ crossed \subseteq crossed'
  BY <1>1, ThreadIs DEF ShellInv, ShellTypes
<1>7. Somebody({"arm"})' /\ Somebody({"arm", "note"})' /\ ArmedSoon'
  BY <1>5, Moved DEF ArmedSoon
<1>8. ASSUME NEW u \in ShellThreads
      PROVE  /\ BootsRight(u)' /\ InstallsRight(u)'
             /\ doing'[u].pc \in {"stop", "forget"} => doing'[u].call \in {"stop", "flush", "reset"}
             /\ doing'[u].pc = "register" => app'.ready
             /\ doing'[u].pc = "save" /\ "wiping" \notin crossed' => doing'[u].has = disk'.token
  <2>1. CASE u = t
    <3>1. doing'[u] = r
      BY <1>5, <2>1, Moved
    <3> QED BY <1>5, <3>1 DEF BootsRight, InstallsRight
  <2>2. CASE u # t
    <3>1. doing'[u] = doing[u]
      BY <1>5, <2>2, Moved
    <3>2. BootFits(u) => BootFits(u)'
      BY <1>1, <1>3, <1>4, <1>7, <3>1 DEF BootFits
    <3>3. BootsRight(u)'
      BY <1>6, <3>1, <3>2, ThreadIs DEF BootsRight
    <3>4. InstallsRight(u)'
      BY <1>3, <1>4, <1>6, <3>1, ThreadIs DEF InstallsRight
    <3>5. doing'[u].pc = "save" /\ "wiping" \notin crossed' => FALSE
      BY <1>1, <1>6, <2>2, <3>1, NobodyElse
    <3> QED BY <1>1, <3>1, <3>3, <3>4, <3>5, ThreadIs DEF CallsRight
  <2> QED BY <2>1, <2>2
<1>9. KnowsKey'
  BY <1>1, <1>3, <1>4, <1>6, <1>7 DEF ShellInv, KnowsKey
<1>10. KeysFit'
  BY <1>1, <1>3, <1>4, <1>6, <1>7 DEF ShellInv, ShellHolds, KeysFit
<1>11. CredsOpen' /\ SecretKept'
  BY <1>1, <1>4, <1>7 DEF CredsOpen, SecretKept
<1> QED BY <1>1, <1>4, <1>5, <1>6, <1>8, <1>9, <1>10, <1>11, FilesKeep

LEMMA ArmKeeps ==
  ASSUME ShellInv, crossed' = crossed \cup Shared(doing'), NEW t \in ShellThreads, ArmReset(t)
  PROVE  ShellInv'
<1>1. /\ doing[t].pc = "arm" /\ UNCHANGED <<app, server, entered, minted, torn>>
      /\ Ends(t) /\ disk' = [disk EXCEPT !.armed = TRUE]
  BY DEF ArmReset, At
<1>2. /\ disk' \in DiskRow /\ disk'.armed /\ disk'.fernet = disk.fernet /\ disk'.db = disk.db
      /\ disk'.token = disk.token
  BY <1>1, DiskIs DEF DiskRow
<1>3. PICK r \in ThreadRow : r.pc = "rest" /\ doing' = [doing EXCEPT ![t] = r]
  BY <1>1, GoneTo DEF ShellPcs
<1>4. /\ app.up /\ app \in AppRow /\ minted \in Nat /\ entered \in Nat /\ crossed \subseteq crossed'
  BY <1>1, ThreadIs DEF ShellInv, ShellTypes
<1>5. ArmedSoon' /\ (Somebody({"arm"})' => Somebody({"arm"}))
  BY <1>2, <1>3, Moved DEF ArmedSoon
<1>6. ASSUME NEW u \in ShellThreads
      PROVE  /\ BootsRight(u)' /\ InstallsRight(u)'
             /\ doing'[u].pc \in {"stop", "forget"} => doing'[u].call \in {"stop", "flush", "reset"}
             /\ doing'[u].pc = "register" => app'.ready
             /\ doing'[u].pc = "save" /\ "wiping" \notin crossed' => doing'[u].has = disk'.token
  <2>1. CASE doing'[u] = r
    BY <1>3, <2>1 DEF BootsRight, InstallsRight
  <2>2. CASE doing'[u] = doing[u]
    <3>1. BootFits(u) => BootFits(u)'
      BY <1>1, <1>2, <1>5, <2>2 DEF BootFits
    <3>2. BootsRight(u)'
      BY <1>4, <2>2, <3>1, ThreadIs DEF BootsRight
    <3>3. InstallsRight(u)'
      BY <1>2, <1>4, <2>2, ThreadIs DEF InstallsRight
    <3> QED BY <1>1, <1>2, <1>4, <2>2, <3>2, <3>3, ThreadIs DEF CallsRight
  <2> QED BY <1>3, <2>1, <2>2, Moved
<1>7. KnowsKey'
  BY <1>1, <1>2, <1>4, <1>5 DEF ShellInv, KnowsKey
<1>8. KeysFit' /\ CredsOpen' /\ SecretKept'
  BY <1>1, <1>2, <1>4 DEF ShellInv, ShellHolds, KeysFit, CredsOpen, SecretKept
<1> QED BY <1>1, <1>2, <1>3, <1>4, <1>6, <1>7, <1>8, FilesKeep

LEMMA WriteConfigKeeps ==
  ASSUME ShellInv, crossed' = crossed \cup Shared(doing'), NEW t \in ShellThreads,
         NEW value \in Tokens \cup {Mask}, SaveConfig(t, value) \/ ImportConfig(t, value)
  PROVE  ShellInv'
<1>1. /\ doing[t].pc = "save" /\ UNCHANGED <<app, server, minted, torn>>
      /\ disk' = [disk EXCEPT !.token = IF value = Mask THEN doing[t].has ELSE value]
      /\ entered' = (IF value = Mask THEN entered ELSE value)
      /\ Goes(t, "boot") \/ Ends(t)
  BY DEF SaveConfig, ImportConfig, WriteConfig, At
<1>2. /\ app.up /\ app \in AppRow /\ minted \in Nat /\ entered \in Nat /\ crossed \subseteq crossed'
      /\ doing[t].has \in Nat /\ CallsRight(t)
      /\ value # Mask => value \in Nat
  BY <1>1, ThreadIs, GivenShell DEF ShellInv, ShellTypes
<1>3. PICK n \in Nat : n = IF value = Mask THEN doing[t].has ELSE value
  BY <1>2
<1>4. /\ disk' \in DiskRow /\ disk'.token = n /\ disk'.fernet = disk.fernet /\ disk'.db = disk.db
      /\ disk'.armed = disk.armed /\ disk'.creds = disk.creds
  BY <1>1, <1>3, DiskIs DEF DiskRow
<1>5. PICK r \in ThreadRow : r.pc \in {"boot", "rest"} /\ doing' = [doing EXCEPT ![t] = r]
  BY <1>1, GoneTo DEF ShellPcs
<1>6. /\ Somebody({"arm"})' = Somebody({"arm"})
      /\ Somebody({"arm", "note"}) => Somebody({"arm", "note"})'
  BY <1>1, <1>5, Moved DEF Somebody
<1>7. KnowsKey' /\ KeysFit' /\ \A u \in ShellThreads : doing'[u] = doing[u] => BootsRight(u)'
  BY <1>1, <1>2, <1>4, <1>6, KeysStay
<1>8. ASSUME NEW u \in ShellThreads
      PROVE  /\ BootsRight(u)' /\ InstallsRight(u)'
             /\ doing'[u].pc \in {"stop", "forget"} => doing'[u].call \in {"stop", "flush", "reset"}
             /\ doing'[u].pc = "register" => app'.ready
             /\ doing'[u].pc = "save" /\ "wiping" \notin crossed' => doing'[u].has = disk'.token
  <2>1. CASE u = t
    <3>1. doing'[u] = r
      BY <1>5, <2>1, Moved
    <3> QED BY <1>5, <3>1 DEF BootsRight, InstallsRight
  <2>2. CASE u # t
    <3>1. doing'[u] = doing[u]
      BY <1>5, <2>2, Moved
    <3>2. InstallsRight(u)'
      BY <1>2, <1>4, <3>1, ThreadIs DEF InstallsRight
    <3>3. doing'[u].pc = "save" /\ "wiping" \notin crossed' => FALSE
      BY <1>1, <1>2, <2>2, <3>1, NobodyElse
    <3> QED BY <1>1, <1>7, <3>1, <3>2, <3>3, ThreadIs DEF CallsRight
  <2> QED BY <2>1, <2>2
<1>9. CredsOpen'
  BY <1>1, <1>2, <1>4, <1>6 DEF ShellInv, ShellHolds, CredsOpen
<1>10. SecretKept'
  <2>1. "wiping" \notin crossed' => doing[t].has = disk.token /\ disk.token = entered
    BY <1>1, <1>2 DEF CallsRight, ShellInv, ShellHolds, SecretKept
  <2> QED BY <1>1, <1>3, <1>4, <2>1 DEF SecretKept
<1>11. entered' \in Nat
  BY <1>1, <1>2
<1> QED BY <1>1, <1>2, <1>4, <1>5, <1>7, <1>8, <1>9, <1>10, <1>11, FilesKeep
LEMMA RegisterKeeps ==
  ASSUME ShellInv, crossed' = crossed \cup Shared(doing'), NEW t \in ShellThreads, RegisterLicence(t)
  PROVE  ShellInv'
<1>1. /\ doing[t].pc = "register" /\ UNCHANGED <<app, server, entered, minted, torn>> /\ Ends(t)
      /\ disk' = IF disk.db.made /\ disk.db.key = 0 THEN [disk EXCEPT !.db.key = app.fernet] ELSE disk
  BY DEF RegisterLicence, At
<1>2. /\ app.up /\ app \in AppRow /\ minted \in Nat /\ entered \in Nat /\ crossed \subseteq crossed'
      /\ app.ready
  BY <1>1, ThreadIs DEF ShellInv, ShellTypes, CallsRight
<1>3. PICK r \in ThreadRow : r.pc = "rest" /\ doing' = [doing EXCEPT ![t] = r]
  BY <1>1, GoneTo DEF ShellPcs
<1>4. CASE ~(disk.db.made /\ disk.db.key = 0)
  BY <1>1, <1>2, <1>3, <1>4, EasyMove DEF Easy
<1>5. CASE disk.db.made /\ disk.db.key = 0
  <2>1. PICK db : db = [disk.db EXCEPT !.key = app.fernet]
    OBVIOUS
  <2>2. db \in DatabaseRow /\ db.admin = disk.db.admin /\ db.key = app.fernet
    BY <2>1, DiskIs DEF DatabaseRow
  <2>3. disk' = [disk EXCEPT !.db = db]
    BY <1>1, <1>5, <2>1, DiskIs DEF DiskRow
  <2>4. /\ disk' \in DiskRow /\ disk'.fernet = disk.fernet /\ disk'.db = db /\ disk'.armed = disk.armed
        /\ disk'.token = disk.token /\ disk'.creds = disk.creds
    BY <2>2, <2>3, DiskIs DEF DiskRow
  <2>5. /\ Somebody({"arm"})' = Somebody({"arm"}) /\ ArmedSoon' = ArmedSoon
        /\ Somebody({"arm", "note"}) => Somebody({"arm", "note"})'
    <3>1. Somebody({"arm"})' = Somebody({"arm"})
      BY <1>1, <1>3, Moved DEF Somebody
    <3> QED BY <1>1, <1>3, <2>4, <3>1, Moved DEF ArmedSoon
  <2>6. ASSUME NEW u \in ShellThreads
        PROVE  /\ BootsRight(u)' /\ InstallsRight(u)'
               /\ doing'[u].pc \in {"stop", "forget"} => doing'[u].call \in {"stop", "flush", "reset"}
               /\ doing'[u].pc = "register" => app'.ready
               /\ doing'[u].pc = "save" /\ "wiping" \notin crossed' => doing'[u].has = disk'.token
    <3>1. CASE doing'[u] = r
      BY <1>3, <3>1 DEF BootsRight, InstallsRight
    <3>2. CASE doing'[u] = doing[u]
      <4>1. BootsRight(u)'
        <5>1. "booting" \notin crossed => doing[u].pc \notin {"finish", "key", "write", "env"}
          BY <1>2, ThreadIs DEF BootsRight, BootFits
        <5> QED BY <1>2, <3>2, <5>1 DEF BootsRight
      <4>2. InstallsRight(u)'
        BY <1>2, <2>2, <2>4, <3>2, ThreadIs DEF InstallsRight
      <4> QED BY <1>1, <1>2, <2>4, <3>2, <4>1, <4>2, ThreadIs DEF CallsRight
    <3> QED BY <1>3, <3>1, <3>2, Moved
  <2>7. KnowsKey'
    BY <1>1, <1>2, <2>4, <2>5 DEF ShellInv, KnowsKey
  <2>8. KeysFit'
    BY <1>1, <1>2, <2>2, <2>4, <2>5 DEF ShellInv, KnowsKey, KeysFit, ArmedSoon
  <2>9. CredsOpen' /\ SecretKept'
    BY <1>1, <1>2, <2>2, <2>4, <2>5 DEF ShellInv, ShellHolds, CredsOpen, SecretKept
  <2> QED BY <1>1, <1>2, <1>3, <2>4, <2>6, <2>7, <2>8, <2>9, FilesKeep
<1> QED BY <1>4, <1>5

LEMMA LaunchKeeps ==
  ASSUME ShellInv, crossed' = crossed \cup Shared(doing'), LaunchApp
  PROVE  ShellInv'
<1>1. /\ UNCHANGED <<disk, server, entered, minted, torn>> /\ crossed \subseteq crossed'
      /\ doing' = [doing EXCEPT ![Autostart] = [pc |-> "boot", call |-> "serve", has |-> 0]]
      /\ app' = [Down EXCEPT !.up = TRUE] /\ ~app.up
  BY DEF LaunchApp
<1>2. app' \in AppRow /\ app'.up /\ ~app'.ready /\ app'.fernet = 0
  BY <1>1 DEF Down, AppRow
<1>3. PICK r \in ThreadRow : r = [pc |-> "boot", call |-> "serve", has |-> 0]
  BY DEF ThreadRow, ShellPcs, ShellCalls
<1>4. \A t \in ShellThreads : doing[t].pc = "rest"
  BY <1>1 DEF ShellInv, AtRestWhenDown, Rest
<1>5. /\ doing' \in [ShellThreads -> ThreadRow]
      /\ \A t \in ShellThreads : doing'[t].pc \in {"rest", "boot"}
  BY <1>1, <1>3, <1>4 DEF ShellInv, ShellTypes
<1>6. /\ ~Somebody({"arm"}) /\ ~Somebody({"arm"})' /\ ~Somebody({"arm", "note"}) /\ ~Somebody({"arm", "note"})'
  BY <1>4, <1>5 DEF Somebody
<1>7. ShellTypes'
  BY <1>1, <1>2, <1>5 DEF ShellInv, ShellTypes
<1>8. ThreadsRight'
  BY <1>5 DEF ThreadsRight, BootsRight, InstallsRight, CallsRight
<1>9. AtRestWhenDown' /\ KnowsKey'
  BY <1>2, <1>6 DEF AtRestWhenDown, KnowsKey
<1>10. ShellHolds'
  BY <1>1, <1>2, <1>6 DEF ShellInv, ShellHolds, KeysFit, CredsOpen, ServerIsHeld, SecretKept
<1> QED BY <1>7, <1>8, <1>9, <1>10, SoleAfter DEF ShellInv

LEMMA QuitKeeps ==
  ASSUME ShellInv, crossed' = crossed \cup Shared(doing'), QuitApp
  PROVE  ShellInv'
<1>1. /\ UNCHANGED <<disk, entered, minted>> /\ crossed \subseteq crossed'
      /\ doing' = [t \in ShellThreads |-> Rest] /\ app' = Down
      /\ server' = [serves |-> FALSE, held |-> FALSE]
      /\ torn' = torn \cup ({"arm", "note"} \cap {doing[t].pc : t \in ShellThreads})
  BY DEF QuitApp
<1>2. app' \in AppRow /\ ~app'.ready /\ app'.fernet = 0
  BY <1>1 DEF Down, AppRow
<1>3. server' \in ServerRow /\ ~server'.serves
  BY <1>1 DEF ServerRow
<1>4. Rest \in ThreadRow /\ Rest.pc = "rest"
  BY DEF Rest, ThreadRow, ShellPcs, ShellCalls
<1>5. /\ doing' \in [ShellThreads -> ThreadRow]
      /\ \A t \in ShellThreads : doing'[t] = Rest /\ doing'[t].pc = "rest"
  BY <1>1, <1>4
<1>6. ~Somebody({"arm"})'
  BY <1>5 DEF Somebody
<1>7. /\ torn \subseteq torn' /\ (Somebody({"arm"}) => "arm" \in torn')
      /\ Somebody({"arm", "note"}) => torn' # {}
  BY <1>1 DEF Somebody
<1>8. ShellTypes'
  BY <1>1, <1>2, <1>3, <1>5 DEF ShellInv, ShellTypes
<1>9. ThreadsRight'
  BY <1>5 DEF ThreadsRight, BootsRight, InstallsRight, CallsRight
<1>10. AtRestWhenDown' /\ KnowsKey'
  BY <1>2, <1>5, <1>6 DEF AtRestWhenDown, KnowsKey
<1>11. KeysFit'
  BY <1>1, <1>2, <1>7 DEF ShellInv, ShellHolds, KeysFit
<1>12. CredsOpen'
  BY <1>1, <1>7 DEF ShellInv, ShellHolds, CredsOpen
<1>13. ServerIsHeld' /\ SecretKept'
  BY <1>1, <1>3 DEF ShellInv, ShellHolds, ServerIsHeld, SecretKept
<1> QED BY <1>8, <1>9, <1>10, <1>11, <1>12, <1>13, SoleAfter DEF ShellInv, ShellHolds

LEMMA ThreadKeeps ==
  ASSUME ShellInv, crossed' = crossed \cup Shared(doing'), NEW t \in ShellThreads,
         \/ Boot(t) \/ FinishReset(t) \/ LoadKey(t) \/ WriteKey(t) \/ SetEnvironment(t)
         \/ Migrate(t) \/ LookForUsers(t) \/ BootstrapAdmin(t) \/ WriteAdminCreds(t)
         \/ StartServer(t) \/ CloseServer(t) \/ ForgetServer(t)
         \/ FlushDatabase(t) \/ WipeData(t) \/ ArmReset(t) \/ ReadConfig(t) \/ RegisterLicence(t)
         \/ \E value \in Tokens \cup {Mask} : SaveConfig(t, value) \/ ImportConfig(t, value)
  PROVE  ShellInv'
<1>1. CASE Boot(t) \/ FinishReset(t) \/ LoadKey(t) \/ WriteKey(t) \/ SetEnvironment(t)
  BY <1>1, BootKeeps, FinishResetKeeps, LoadKeyKeeps, WriteKeyKeeps, SetEnvironmentKeeps
<1>2. CASE Migrate(t) \/ LookForUsers(t) \/ BootstrapAdmin(t) \/ WriteAdminCreds(t)
  BY <1>2, InstallingKeeps, LookForUsersKeeps
<1>3. CASE StartServer(t) \/ CloseServer(t) \/ ForgetServer(t)
  BY <1>3, StartServerKeeps, CloseServerKeeps
<1>4. CASE FlushDatabase(t) \/ WipeData(t) \/ ArmReset(t) \/ ReadConfig(t) \/ RegisterLicence(t)
  BY <1>4, FlushKeeps, WipeKeeps, ArmKeeps, ReadConfigKeeps, RegisterKeeps
<1>5. CASE \E value \in Tokens \cup {Mask} : SaveConfig(t, value) \/ ImportConfig(t, value)
  BY <1>5, WriteConfigKeeps
<1> QED BY <1>1, <1>2, <1>3, <1>4, <1>5

LEMMA ShellKeeps == ShellInv /\ [ShellNext]_shellVars => ShellInv'
<1> SUFFICES ASSUME ShellInv, [ShellNext]_shellVars PROVE ShellInv'
  OBVIOUS
<1>1. CASE ShellNext
  <2>1. ShellStep /\ crossed' = crossed \cup Shared(doing')
    BY <1>1 DEF ShellNext
  <2>2. CASE LaunchApp
    BY <2>1, <2>2, LaunchKeeps
  <2>3. CASE QuitApp
    BY <2>1, <2>3, QuitKeeps
  <2>4. CASE WatchServer
    <3>1. Autostart \in ShellThreads
      BY DEF ShellThreads
    <3> QED BY <2>1, <2>4, <3>1, ClickKeeps
  <2>5. CASE \E t \in Panels, c \in {"setup", "start", "stop", "flush", "reset", "register", "config"} : Click(t, c)
    <3>1. Panels \subseteq ShellThreads
      BY DEF ShellThreads
    <3> QED BY <2>1, <2>5, <3>1, ClickKeeps
  <2> QED BY <2>1, <2>2, <2>3, <2>4, <2>5, ThreadKeeps DEF ShellStep
<1>2. CASE UNCHANGED shellVars
  <2>1. UNCHANGED <<disk, app, server, doing, entered, minted, crossed, torn>>
    BY <1>2 DEF shellVars
  <2>2. ShellTypes' /\ AtRestWhenDown'
    BY <2>1 DEF ShellInv, ShellTypes, AtRestWhenDown
  <2>3. AllSole'
    BY <2>1 DEF ShellInv, AllSole, Sole
  <2>4. ThreadsRight'
    BY <2>1 DEF ShellInv, ThreadsRight, BootsRight, BootFits, InstallsRight, CallsRight, ArmedSoon, Somebody
  <2>5. KnowsKey' /\ ShellHolds'
    BY <2>1 DEF ShellInv, KnowsKey, ArmedSoon, Somebody, ShellHolds, KeysFit, CredsOpen, ServerIsHeld, SecretKept
  <2> QED BY <2>2, <2>3, <2>4, <2>5 DEF ShellInv
<1> QED BY <1>1, <1>2

-----------------------------------------------------------------------------
(* The floor                                                               *)

FloorPlaceRow == [is : {"unused", "live", "dead"}, name : Labels]
FloorTableRow ==
  [is : {"unused", "live", "dead"}, in : FloorPlaces, number : Labels, on : BOOLEAN, status : TableStatus]
PlaceDeed == [op : {"create", "rename", "delete"}, x : FloorPlaces, row : FloorPlaceRow, blanks : BOOLEAN]
TableDeed ==
  [op : {"create", "rename", "move", "switch", "delete"}, x : FloorTables, row : FloorTableRow, blanks : BOOLEAN]
SittingRow == [is : {"unused", "open", "over", "off"}, at : FloorTables]
FloorTypes ==
  /\ place \in [FloorPlaces -> FloorPlaceRow] /\ table \in [FloorTables -> FloorTableRow]
  /\ sitting \in [Sittings -> SittingRow]
  /\ host \in [Hosts -> {NoDeed} \cup PlaceDeed \cup TableDeed]
  /\ saidBy \in [FloorTables -> {"nobody", "order", "called_off", "hand"}]

\* What two requests are busy with at once is stirred.
HostsApart == \A h, k \in Hosts : h # k => Busy(host[h]) \cap Busy(host[k]) \subseteq stirred

Uprooted(t, p) == t \in revived \/ <<"row", t>> \in stirred \/ <<"row", p>> \in stirred
TablesStand ==
  \A t \in FloorTables :
    InService(t) /\ table[t].on => place[table[t].in].is = "live" \/ Uprooted(t, table[t].in)
\* uniq_table_place_number_active
NumbersDiffer ==
  \A t, u \in FloorTables :
    t # u /\ InService(t) /\ InService(u) /\ table[t].in = table[u].in => table[t].number # table[u].number
NamesApart ==
  \A p, q \in FloorPlaces :
    p # q /\ place[p].is = "live" /\ place[q].is = "live" /\ place[p].name = place[q].name =>
      {p, q} \cap blank # {} \/ <<"name", place[p].name>> \in stirred
SaidTells ==
  /\ \A t \in FloorTables :
       /\ table[t].is = "unused" => saidBy[t] = "nobody"
       /\ saidBy[t] = "order" /\ table[t].status = "AVAILABLE" => <<"row", t>> \in stirred
  /\ \A o \in Sittings : sitting[o].is = "open" => saidBy[sitting[o].at] # "nobody"

\* What a request checked before it saves still holds, or was stirred.
PlaceDeedFits(d) ==
  /\ d.op # "delete" /\ ~d.blanks =>
       \A q \in FloorPlaces \ {d.x} :
         place[q].is = "live" /\ place[q].name = d.row.name => <<"name", d.row.name>> \in stirred
  /\ d.op = "delete" =>
       \A t \in FloorTables : InService(t) /\ table[t].on /\ table[t].in = d.x => Uprooted(t, d.x)
TableDeedFits(d) ==
  d.op # "delete" =>
    /\ d.op # "switch" /\ d.row.on => place[d.row.in].is = "live" \/ Uprooted(d.x, d.row.in)
    /\ d.op # "move" /\ ~d.blanks =>
         \A u \in FloorTables \ {d.x} :
           InService(u) /\ table[u].in = d.row.in /\ table[u].number = d.row.number => Busy(d) \cap stirred # {}
    /\ saidBy[d.x] = "order" /\ d.row.status = "AVAILABLE" => <<"row", d.x>> \in stirred
DeedFits(d) ==
  d # NoDeed =>
    /\ d.row.is = "live"
    /\ d.x \in FloorPlaces => PlaceDeedFits(d)
    /\ d.x \in FloorTables => TableDeedFits(d)
FloorInv ==
  /\ FloorTypes /\ HostsApart /\ TablesStand /\ NumbersDiffer /\ NamesApart /\ SaidTells
  /\ NumbersAreChecked /\ \A h \in Hosts : DeedFits(host[h])

LEMMA GivenFloor ==
  /\ FloorPlaces # {} /\ FloorTables # {} /\ Labels # {}
  /\ FloorPlaces \cap FloorTables = {} /\ IsFiniteSet(Hosts)
BY FloorAssumption

LEMMA FloorStandsSo == FloorInv => FloorStands
<1> SUFFICES ASSUME FloorInv PROVE FloorStands
  OBVIOUS
<1>1. NamesDiffer
  BY DEF FloorInv, NamesApart, NamesDiffer
<1>2. TablesHavePlaces
  BY DEF FloorInv, TablesStand, TablesHavePlaces, Uprooted, Stirred
<1>3. GuestsAreSeen
  <2> SUFFICES ASSUME NEW o \in Sittings, sitting[o].is = "open", table[sitting[o].at].status = "AVAILABLE"
               PROVE  \/ saidBy[sitting[o].at] \in {"hand", "called_off"} \/ ~InService(sitting[o].at)
                      \/ <<"row", sitting[o].at>> \in stirred
    BY DEF GuestsAreSeen
  <2>1. sitting[o].at \in FloorTables
    BY DEF FloorInv, FloorTypes, SittingRow
  <2>2. saidBy[sitting[o].at] \in {"nobody", "order", "called_off", "hand"}
    BY <2>1 DEF FloorInv, FloorTypes
  <2>3. saidBy[sitting[o].at] # "nobody"
    BY DEF FloorInv, SaidTells
  <2> QED BY <2>1, <2>2, <2>3 DEF FloorInv, SaidTells
<1> QED BY <1>1, <1>2, <1>3 DEF FloorInv, FloorStands

LEMMA BusyIs ==
  ASSUME NEW d \in PlaceDeed \cup TableDeed
  PROVE  /\ d # NoDeed /\ <<"row", d.x>> \in Busy(d)
         /\ d.x \in FloorPlaces => d \in PlaceDeed /\ <<"name", d.row.name>> \in Busy(d)
         /\ d.x \in FloorTables => /\ d \in TableDeed
                                   /\ <<"row", d.row.in>> \in Busy(d) /\ <<d.row.in, d.row.number>> \in Busy(d)
         /\ d.x \in FloorPlaces \/ d.x \in FloorTables
<1>1. d # NoDeed
  <2>1. d.op # "none"
    BY DEF PlaceDeed, TableDeed
  <2>2. NoDeed.op = "none"
    BY DEF NoDeed
  <2> QED BY <2>1, <2>2
<1>2. (d \in PlaceDeed /\ d.x \in FloorPlaces) \/ (d \in TableDeed /\ d.x \in FloorTables)
  BY DEF PlaceDeed, TableDeed
<1> QED BY <1>1, <1>2, GivenFloor DEF Busy

\* What two requests meet at, and a table somebody is about to save while its status changes.
LEMMA StirredAfter ==
  ASSUME FloorNext
  PROVE  /\ HostsApart' /\ stirred \subseteq stirred'
         /\ \A h \in Hosts, t \in FloorTables :
              saidBy'[t] # saidBy[t] /\ <<"row", t>> \in Busy(host'[h]) => <<"row", t>> \in stirred'
<1>1. PICK all : all = UNION {Busy(host'[h]) : h \in Hosts}
  OBVIOUS
<1>2. PICK seated : seated = {<<"row", t>> : t \in {u \in FloorTables : saidBy'[u] # saidBy[u]}}
  OBVIOUS
<1>3. stirred' = stirred \cup {x \in all : Cardinality(BusyWith(x)) > 1} \cup (all \cap seated)
  BY <1>1, <1>2 DEF FloorNext
<1>4. ASSUME NEW h \in Hosts, NEW k \in Hosts, h # k, NEW x \in Busy(host'[h]) \cap Busy(host'[k])
      PROVE  x \in stirred'
  <2>1. PICK s : s = BusyWith(x)
    OBVIOUS
  <2>2. s \subseteq Hosts /\ h \in s /\ k \in s
    BY <2>1 DEF BusyWith
  <2>3. IsFiniteSet(s) /\ {h, k} \subseteq s /\ Cardinality(s) \in Nat
    BY <2>2, GivenFloor, FS_Subset, FS_CardinalityType
  <2>4. Cardinality({h, k}) = 2
    <3>1. Cardinality({h}) = 1 /\ IsFiniteSet({h})
      BY FS_Singleton
    <3>2. PICK one : one = {h}
      OBVIOUS
    <3>3. Cardinality(one \cup {k}) = Cardinality(one) + 1
      BY <1>4, <3>1, <3>2, FS_AddElement
    <3>4. {h, k} = one \cup {k}
      BY <3>2
    <3> QED BY <3>1, <3>2, <3>3, <3>4
  <2>5. Cardinality({h, k}) <= Cardinality(s)
    BY <2>3, FS_Subset
  <2>6. x \in all
    BY <1>1
  <2> QED BY <1>3, <2>1, <2>3, <2>4, <2>5, <2>6
<1>5. HostsApart'
  BY <1>4 DEF HostsApart
<1>6. ASSUME NEW h \in Hosts, NEW t \in FloorTables, saidBy'[t] # saidBy[t], <<"row", t>> \in Busy(host'[h])
      PROVE  <<"row", t>> \in stirred'
  BY <1>1, <1>2, <1>3, <1>6
<1> QED BY <1>3, <1>5, <1>6


LEMMA FloorBegins == FloorInit => FloorInv
<1> SUFFICES ASSUME FloorInit PROVE FloorInv
  OBVIOUS
<1>1. FirstPlace \in FloorPlaces /\ FirstTable \in FloorTables /\ FirstLabel \in Labels
  BY GivenFloor DEF FirstPlace, FirstTable, FirstLabel
<1>2. place = [p \in FloorPlaces |->
                 [is |-> IF p = FirstPlace THEN "live" ELSE "unused", name |-> FirstLabel]]
  BY DEF FloorInit, NoPlace
<1>3. /\ table \in [FloorTables -> FloorTableRow]
      /\ \A t \in FloorTables : table[t].in = FirstPlace /\ (InService(t) => t = FirstTable)
  <2>1. NoTable \in FloorTableRow /\ NoTable.is = "unused" /\ NoTable.in = FirstPlace
    BY <1>1 DEF NoTable, FloorTableRow, TableStatus
  <2>2. \A b \in {"unused", "live"} :
          /\ [NoTable EXCEPT !.is = b] \in FloorTableRow
          /\ [NoTable EXCEPT !.is = b].is = b /\ [NoTable EXCEPT !.is = b].in = FirstPlace
    BY <2>1 DEF FloorTableRow
  <2>3. table = [t \in FloorTables |-> [NoTable EXCEPT !.is = IF t = FirstTable THEN "live" ELSE "unused"]]
    BY <2>1 DEF FloorInit
  <2> QED BY <2>2, <2>3 DEF InService
<1>4. FloorTypes
  <2>1. place \in [FloorPlaces -> FloorPlaceRow]
    BY <1>1, <1>2 DEF FloorPlaceRow
  <2>2. table \in [FloorTables -> FloorTableRow]
    BY <1>3
  <2>3. sitting \in [Sittings -> SittingRow]
    BY <1>1 DEF FloorInit, SittingRow
  <2>4. host \in [Hosts -> {NoDeed} \cup PlaceDeed \cup TableDeed]
    BY DEF FloorInit
  <2>5. saidBy \in [FloorTables -> {"nobody", "order", "called_off", "hand"}]
    BY DEF FloorInit
  <2> QED BY <2>1, <2>2, <2>3, <2>4, <2>5 DEF FloorTypes
<1>5. HostsApart
  BY DEF FloorInit, HostsApart, Busy
<1>6. TablesStand
  BY <1>1, <1>2, <1>3 DEF TablesStand
<1>7. NumbersDiffer
  BY <1>3 DEF NumbersDiffer
<1>8. NamesApart
  BY <1>1, <1>2 DEF NamesApart
<1>9. SaidTells
  BY DEF FloorInit, SaidTells
<1>10. NumbersAreChecked /\ \A h \in Hosts : DeedFits(host[h])
  BY DEF FloorInit, NumbersAreChecked, DeedFits
<1> QED BY <1>4, <1>5, <1>6, <1>7, <1>8, <1>9, <1>10 DEF FloorInv

\* What requests check of the tables does not change.
TablesAlike ==
  \A t \in FloorTables :
    /\ table'[t].is = table[t].is /\ table'[t].in = table[t].in
    /\ table'[t].number = table[t].number /\ table'[t].on = table[t].on

LEMMA DeedStands ==
  ASSUME NEW d, DeedFits(d), place' = place, TablesAlike, revived' = revived, stirred \subseteq stirred',
         d.x \in FloorTables /\ saidBy'[d.x] # saidBy[d.x] => <<"row", d.x>> \in stirred'
  PROVE  DeedFits(d)'
<1>1. ASSUME PlaceDeedFits(d) PROVE PlaceDeedFits(d)'
  BY <1>1 DEF PlaceDeedFits, TablesAlike, InService, Uprooted
<1>2. ASSUME TableDeedFits(d), d.x \in FloorTables PROVE TableDeedFits(d)'
  <2>1. (Busy(d) \cap stirred # {}) => (Busy(d) \cap stirred' # {})
    OBVIOUS
  <2>2. ASSUME d.op # "delete", d.op # "switch", d.row.on
        PROVE  place'[d.row.in].is = "live" \/ Uprooted(d.x, d.row.in)'
    BY <1>2, <2>2 DEF TableDeedFits, Uprooted
  <2>3. ASSUME d.op # "delete", d.op # "move", ~d.blanks, NEW u \in FloorTables \ {d.x}, InService(u)',
               table'[u].in = d.row.in, table'[u].number = d.row.number
        PROVE  Busy(d) \cap stirred' # {}
    BY <1>2, <2>1, <2>3 DEF TableDeedFits, TablesAlike, InService
  <2>4. ASSUME d.op # "delete", saidBy'[d.x] = "order", d.row.status = "AVAILABLE"
        PROVE  <<"row", d.x>> \in stirred'
    BY <1>2, <2>4 DEF TableDeedFits
  <2>5. Busy(d)' = Busy(d)
    BY DEF Busy
  <2> QED BY <2>2, <2>3, <2>4, <2>5 DEF TableDeedFits
<1> QED BY <1>1, <1>2 DEF DeedFits

-----------------------------------------------------------------------------
(* Requests of the back office.                                            *)

Undertakes(h, d) ==
  /\ host' = [host EXCEPT ![h] = d]
  /\ UNCHANGED <<place, table, sitting, saidBy, blank, revived, rebuffed>>

LEMMA UndertakenStands ==
  ASSUME FloorInv, FloorNext, NEW h \in Hosts, NEW d \in PlaceDeed \cup TableDeed, Undertakes(h, d), DeedFits(d)
  PROVE  FloorInv'
<1>1. /\ host' = [host EXCEPT ![h] = d] /\ place' = place /\ table' = table /\ sitting' = sitting
      /\ saidBy' = saidBy /\ blank' = blank /\ revived' = revived /\ rebuffed' = rebuffed
  BY DEF Undertakes
<1>2. HostsApart' /\ stirred \subseteq stirred'
  BY StirredAfter
<1>3. FloorTypes'
  BY <1>1 DEF FloorInv, FloorTypes
<1>4. TablesStand' /\ NamesApart' /\ SaidTells' /\ NumbersDiffer'
  <2>1. TablesStand'
    BY <1>1, <1>2 DEF FloorInv, TablesStand, Uprooted, InService
  <2>2. NamesApart'
    BY <1>1, <1>2 DEF FloorInv, NamesApart
  <2>3. SaidTells'
    BY <1>1, <1>2 DEF FloorInv, SaidTells
  <2>4. NumbersDiffer'
    BY <1>1 DEF FloorInv, NumbersDiffer, InService
  <2> QED BY <2>1, <2>2, <2>3, <2>4
<1>5. NumbersAreChecked'
  <2>1. ASSUME NEW e \in rebuffed PROVE e.op = "move" \/ e.blanks \/ Busy(e) \cap stirred' # {}
    BY <1>2 DEF FloorInv, NumbersAreChecked
  <2>2. \A e : Busy(e)' = Busy(e)
    BY DEF Busy
  <2> QED BY <1>1, <2>1, <2>2 DEF NumbersAreChecked
<1>6. ASSUME NEW k \in Hosts PROVE DeedFits(host[k])'
  <2>1. PICK e : e = host'[k]
    OBVIOUS
  <2>2. DeedFits(e)
    BY <1>1, <2>1 DEF FloorInv, FloorTypes
  <2>3. DeedFits(e)'
    BY <1>1, <1>2, <2>2, DeedStands DEF TablesAlike
  <2> QED BY <2>1, <2>3 DEF DeedFits, PlaceDeedFits, TableDeedFits, Busy
<1> QED BY <1>2, <1>3, <1>4, <1>5, <1>6 DEF FloorInv

LEMMA PreparesIs ==
  ASSUME NEW h \in Hosts, NEW op, NEW x, NEW r, NEW blanks, Prepares(h, op, x, r, blanks)
  PROVE  Undertakes(h, [op |-> op, x |-> x, row |-> r, blanks |-> blanks])
BY DEF Prepares, Undertakes

LEMMA CreatePlaceKeeps ==
  ASSUME FloorInv, FloorNext, NEW h \in Hosts, NEW p \in FloorPlaces, NEW n \in Labels, NEW b \in BOOLEAN,
         CreatePlace(h, p, n, b)
  PROVE  FloorInv'
<1>1. PICK d : d = [op |-> "create", x |-> p, row |-> [is |-> "live", name |-> n], blanks |-> b]
  OBVIOUS
<1>2. d \in PlaceDeed /\ d.row.is = "live" /\ d.row.name = n /\ d.x = p /\ d.blanks = b /\ d.op = "create"
  BY <1>1 DEF PlaceDeed, FloorPlaceRow
<1>3. Undertakes(h, d)
  BY <1>1, PreparesIs DEF CreatePlace
<1>4. PlaceDeedFits(d)
  BY <1>2 DEF PlaceDeedFits, CreatePlace, NameExists
<1>5. DeedFits(d)
  BY <1>2, <1>4, GivenFloor DEF DeedFits
<1> QED BY <1>2, <1>3, <1>5, UndertakenStands

LEMMA UpdatePlaceKeeps ==
  ASSUME FloorInv, FloorNext, NEW h \in Hosts, NEW p \in FloorPlaces, NEW n \in Labels, NEW b \in BOOLEAN,
         UpdatePlace(h, p, n, b)
  PROVE  FloorInv'
<1>1. PICK r : r = [place[p] EXCEPT !.name = n]
  OBVIOUS
<1>2. r \in FloorPlaceRow /\ r.is = "live" /\ r.name = n
  BY <1>1 DEF UpdatePlace, FloorInv, FloorTypes, FloorPlaceRow
<1>3. PICK d : d = [op |-> "rename", x |-> p, row |-> r, blanks |-> b]
  OBVIOUS
<1>4. d \in PlaceDeed /\ d.row = r /\ d.x = p /\ d.blanks = b /\ d.op = "rename"
  BY <1>2, <1>3 DEF PlaceDeed
<1>5. Undertakes(h, d)
  BY <1>1, <1>3, PreparesIs DEF UpdatePlace
<1>6. PlaceDeedFits(d)
  BY <1>2, <1>4 DEF PlaceDeedFits, UpdatePlace, NameExists
<1>7. DeedFits(d)
  BY <1>2, <1>4, <1>6, GivenFloor DEF DeedFits
<1> QED BY <1>4, <1>5, <1>7, UndertakenStands

LEMMA DeletePlaceKeeps ==
  ASSUME FloorInv, FloorNext, NEW h \in Hosts, NEW p \in FloorPlaces, DeletePlace(h, p)
  PROVE  FloorInv'
<1>1. PICK d : d = [op |-> "delete", x |-> p, row |-> place[p], blanks |-> FALSE]
  OBVIOUS
<1>2. d \in PlaceDeed /\ d.row.is = "live" /\ d.x = p /\ d.op = "delete"
  BY <1>1 DEF PlaceDeed, DeletePlace, FloorInv, FloorTypes
<1>3. Undertakes(h, d)
  BY <1>1, PreparesIs DEF DeletePlace
<1>4. PlaceDeedFits(d)
  BY <1>2 DEF PlaceDeedFits, DeletePlace, TablesOf
<1>5. DeedFits(d)
  BY <1>2, <1>4, GivenFloor DEF DeedFits
<1> QED BY <1>2, <1>3, <1>5, UndertakenStands

\* A deed about a table that is checked and about to be saved.
LEMMA TableUndertaken ==
  ASSUME FloorInv, FloorNext, NEW h \in Hosts, NEW t \in FloorTables, NEW r \in FloorTableRow,
         NEW op \in {"create", "rename", "move", "switch", "delete"}, NEW b \in BOOLEAN,
         Prepares(h, op, t, r, b), r.is = "live",
         op \notin {"switch", "delete"} /\ r.on => place[r.in].is = "live" \/ Uprooted(t, r.in),
         op \notin {"move", "delete"} /\ ~b =>
           \A u \in FloorTables \ {t} : ~(InService(u) /\ table[u].in = r.in /\ table[u].number = r.number),
         op # "delete" /\ saidBy[t] = "order" /\ r.status = "AVAILABLE" => <<"row", t>> \in stirred
  PROVE  FloorInv'
<1>1. PICK d : d = [op |-> op, x |-> t, row |-> r, blanks |-> b]
  OBVIOUS
<1>2. d \in TableDeed /\ d.row = r /\ d.x = t /\ d.op = op /\ d.blanks = b
  BY <1>1 DEF TableDeed
<1>3. Undertakes(h, d)
  BY <1>1, PreparesIs
<1>4. TableDeedFits(d)
  BY <1>2 DEF TableDeedFits
<1>5. DeedFits(d)
  BY <1>2, <1>4, GivenFloor DEF DeedFits
<1> QED BY <1>2, <1>3, <1>5, UndertakenStands

LEMMA TableIs ==
  ASSUME FloorInv, NEW t \in FloorTables, InService(t)
  PROVE  /\ table[t] \in FloorTableRow /\ table[t].is = "live" /\ table[t].in \in FloorPlaces
         /\ table[t].on => place[table[t].in].is = "live" \/ Uprooted(t, table[t].in)
         /\ \A u \in FloorTables \ {t} :
              ~(InService(u) /\ table[u].in = table[t].in /\ table[u].number = table[t].number)
         /\ saidBy[t] = "order" /\ table[t].status = "AVAILABLE" => <<"row", t>> \in stirred
<1>1. table[t] \in FloorTableRow /\ table[t].is = "live" /\ table[t].in \in FloorPlaces
  BY DEF FloorInv, FloorTypes, FloorTableRow, InService
<1>2. table[t].on => place[table[t].in].is = "live" \/ Uprooted(t, table[t].in)
  BY DEF FloorInv, TablesStand
<1>3. \A u \in FloorTables \ {t} :
        ~(InService(u) /\ table[u].in = table[t].in /\ table[u].number = table[t].number)
  BY DEF FloorInv, NumbersDiffer
<1> QED BY <1>1, <1>2, <1>3 DEF FloorInv, SaidTells

LEMMA CreateTableKeeps ==
  ASSUME FloorInv, FloorNext, NEW h \in Hosts, NEW t \in FloorTables, NEW p \in FloorPlaces,
         NEW n \in Labels, NEW b \in BOOLEAN, CreateTable(h, t, p, n, b)
  PROVE  FloorInv'
<1>1. PICK r : r = [NoTable EXCEPT !.is = "live", !.in = p, !.number = n]
  OBVIOUS
<1>2. /\ r \in FloorTableRow /\ r.is = "live" /\ r.in = p /\ r.number = n
      /\ r = [is |-> "live", in |-> p, number |-> n, on |-> TRUE, status |-> "AVAILABLE"]
  BY <1>1 DEF NoTable, FloorTableRow, TableStatus
<1>3. Prepares(h, "create", t, r, b) /\ place[p].is = "live" /\ ~NumberExists(t, p, n, b)
  BY <1>1 DEF CreateTable
<1>4. saidBy[t] = "nobody"
  BY DEF CreateTable, FloorInv, SaidTells
<1>5. ~b => \A u \in FloorTables \ {t} : ~(InService(u) /\ table[u].in = r.in /\ table[u].number = r.number)
  BY <1>2, <1>3 DEF NumberExists, TablesOf
<1> QED BY <1>2, <1>3, <1>4, <1>5, TableUndertaken

LEMMA RenumberTableKeeps ==
  ASSUME FloorInv, FloorNext, NEW h \in Hosts, NEW t \in FloorTables, NEW n \in Labels, NEW b \in BOOLEAN,
         RenumberTable(h, t, n, b)
  PROVE  FloorInv'
<1>1. PICK r : r = [table[t] EXCEPT !.number = n]
  OBVIOUS
<1>2. InService(t) /\ Prepares(h, "rename", t, r, b) /\ ~NumberExists(t, table[t].in, n, b)
  BY <1>1 DEF RenumberTable
<1>3. /\ r \in FloorTableRow /\ r.is = "live" /\ r.in = table[t].in /\ r.number = n
      /\ r.on = table[t].on /\ r.status = table[t].status
  BY <1>1, <1>2, TableIs DEF FloorTableRow
<1>4. ~b => \A u \in FloorTables \ {t} : ~(InService(u) /\ table[u].in = r.in /\ table[u].number = r.number)
  BY <1>2, <1>3 DEF NumberExists, TablesOf
<1> QED BY <1>2, <1>3, <1>4, TableIs, TableUndertaken

LEMMA MoveTableKeeps ==
  ASSUME FloorInv, FloorNext, NEW h \in Hosts, NEW t \in FloorTables, NEW p \in FloorPlaces, MoveTable(h, t, p)
  PROVE  FloorInv'
<1>1. PICK r : r = [table[t] EXCEPT !.in = p]
  OBVIOUS
<1>2. InService(t) /\ Prepares(h, "move", t, r, FALSE) /\ place[p].is = "live"
  BY <1>1 DEF MoveTable
<1>3. r \in FloorTableRow /\ r.is = "live" /\ r.in = p /\ r.status = table[t].status
  BY <1>1, <1>2, TableIs DEF FloorTableRow
<1> QED BY <1>2, <1>3, TableIs, TableUndertaken

LEMMA SwitchTableKeeps ==
  ASSUME FloorInv, FloorNext, NEW h \in Hosts, NEW t \in FloorTables, SwitchTable(h, t)
  PROVE  FloorInv'
<1>1. PICK r : r = [table[t] EXCEPT !.on = ~@]
  OBVIOUS
<1>2. InService(t) /\ Prepares(h, "switch", t, r, FALSE)
  BY <1>1 DEF SwitchTable
<1>3. /\ r \in FloorTableRow /\ r.is = "live" /\ r.in = table[t].in /\ r.number = table[t].number
      /\ r.status = table[t].status
  BY <1>1, <1>2, TableIs DEF FloorTableRow
<1> QED BY <1>2, <1>3, TableIs, TableUndertaken

LEMMA DeleteTableKeeps ==
  ASSUME FloorInv, FloorNext, NEW h \in Hosts, NEW t \in FloorTables, DeleteTable(h, t)
  PROVE  FloorInv'
BY TableIs, TableUndertaken DEF DeleteTable

-----------------------------------------------------------------------------
(* It saves.                                                               *)

\* What a deed about another row is about to write, and who else is busy with that.
LEMMA OthersBusy ==
  ASSUME FloorInv, NEW h \in Hosts, NEW d \in PlaceDeed \cup TableDeed, host[h] = d,
         NEW k \in Hosts, k # h, NEW e \in PlaceDeed \cup TableDeed, host[k] = e
  PROVE  /\ d.x = e.x => <<"row", d.x>> \in stirred
         /\ d.x \in FloorPlaces /\ e.x \in FloorPlaces /\ d.row.name = e.row.name => <<"name", d.row.name>> \in stirred
         /\ d.x \in FloorPlaces /\ e.x \in FloorTables /\ e.row.in = d.x => <<"row", d.x>> \in stirred
         /\ d.x \in FloorTables /\ e.x \in FloorPlaces /\ d.row.in = e.x => <<"row", e.x>> \in stirred
         /\ d.x \in FloorTables /\ e.x \in FloorTables /\ d.row.in = e.row.in /\ d.row.number = e.row.number
              => Busy(e) \cap stirred # {}
<1>1. Busy(d) \cap Busy(e) \subseteq stirred
  BY DEF FloorInv, HostsApart
<1> QED BY <1>1, BusyIs

\* A request is done, and the rest stands.
SavesAs(h) ==
  /\ host' = [host EXCEPT ![h] = NoDeed] /\ UNCHANGED <<sitting, saidBy>>
LEMMA Saved ==
  ASSUME FloorInv, FloorNext, NEW h \in Hosts, SavesAs(h),
         place' \in [FloorPlaces -> FloorPlaceRow], table' \in [FloorTables -> FloorTableRow],
         TablesStand', NumbersDiffer', NamesApart', SaidTells', NumbersAreChecked',
         \A k \in Hosts \ {h} : DeedFits(host[k])'
  PROVE  FloorInv'
<1>1. FloorTypes'
  BY DEF FloorInv, FloorTypes, SavesAs
<1>2. ASSUME NEW k \in Hosts PROVE DeedFits(host[k])'
  <2>1. CASE k = h
    BY <2>1 DEF SavesAs, FloorInv, FloorTypes, DeedFits
  <2> QED BY <2>1
<1> QED BY <1>1, <1>2, StirredAfter DEF FloorInv

\* A deed of another request, which is as it was.
LEMMA HostIs ==
  ASSUME FloorInv, NEW h \in Hosts, SavesAs(h), NEW k \in Hosts \ {h}, NEW e, e = host[k]
  PROVE  /\ DeedFits(e) /\ (e = NoDeed \/ e \in PlaceDeed \cup TableDeed)
         /\ DeedFits(e)' => DeedFits(host[k])'
<1>1. host'[k] = e
  BY DEF SavesAs, FloorInv, FloorTypes
<1>2. DeedFits(e)' => DeedFits(host[k])'
  BY <1>1 DEF DeedFits, PlaceDeedFits, TableDeedFits, Busy
<1>3. DeedFits(e) /\ (e = NoDeed \/ e \in PlaceDeed \cup TableDeed)
  BY DEF FloorInv, FloorTypes
<1> QED BY <1>2, <1>3

LEMMA ClashKeeps ==
  ASSUME FloorInv, FloorNext, NEW h \in Hosts, SaveFloor(h), Clashes(host[h])
  PROVE  FloorInv'
<1>1. PICK d : d = host[h]
  OBVIOUS
<1>2. d # NoDeed /\ d \in PlaceDeed \cup TableDeed /\ DeedFits(d)
  BY <1>1 DEF SaveFloor, FloorInv, FloorTypes
<1>3. /\ SavesAs(h) /\ rebuffed' = rebuffed \cup {d}
      /\ place' = place /\ table' = table /\ blank' = blank /\ revived' = revived
      /\ sitting' = sitting /\ saidBy' = saidBy
  BY <1>1 DEF SaveFloor, SavesAs
<1>4. stirred \subseteq stirred'
  BY StirredAfter
<1>5. d.op = "move" \/ d.blanks \/ Busy(d) \cap stirred # {}
  <2>1. /\ d.x \in FloorTables /\ d.op # "delete"
        /\ NumberExists(d.x, d.row.in, d.row.number, FALSE)
    BY <1>1 DEF Clashes
  <2>2. PICK u \in FloorTables \ {d.x} : InService(u) /\ table[u].in = d.row.in /\ table[u].number = d.row.number
    BY <2>1 DEF NumberExists, TablesOf
  <2>3. TableDeedFits(d)
    BY <1>2, <2>1 DEF DeedFits
  <2> QED BY <2>1, <2>2, <2>3 DEF TableDeedFits
<1>6. NumbersAreChecked'
  <2>1. ASSUME NEW e \in rebuffed' PROVE e.op = "move" \/ e.blanks \/ Busy(e) \cap stirred' # {}
    <3>1. e \in rebuffed => (e.op = "move" \/ e.blanks \/ Busy(e) \cap stirred # {})
      BY DEF FloorInv, NumbersAreChecked
    <3> QED BY <1>3, <1>4, <1>5, <2>1, <3>1
  <2>2. \A e : Busy(e)' = Busy(e)
    BY DEF Busy
  <2> QED BY <2>1, <2>2 DEF NumbersAreChecked
<1>7. TablesStand' /\ NamesApart' /\ SaidTells' /\ NumbersDiffer'
  <2>1. TablesStand'
    BY <1>3, <1>4 DEF FloorInv, TablesStand, Uprooted, InService
  <2>2. NamesApart'
    BY <1>3, <1>4 DEF FloorInv, NamesApart
  <2>3. SaidTells'
    BY <1>3, <1>4 DEF FloorInv, SaidTells
  <2>4. NumbersDiffer'
    BY <1>3 DEF FloorInv, NumbersDiffer, InService
  <2> QED BY <2>1, <2>2, <2>3, <2>4
<1>8. ASSUME NEW k \in Hosts \ {h} PROVE DeedFits(host[k])'
  <2>1. PICK e : e = host[k]
    OBVIOUS
  <2>2. DeedFits(e)'
    BY <1>3, <1>4, <2>1, HostIs, DeedStands DEF TablesAlike
  <2> QED BY <1>3, <2>1, <2>2, HostIs
<1>9. place' \in [FloorPlaces -> FloorPlaceRow] /\ table' \in [FloorTables -> FloorTableRow]
  BY <1>3 DEF FloorInv, FloorTypes
<1> QED BY <1>3, <1>6, <1>7, <1>8, <1>9, Saved

LEMMA RebuffedStands ==
  ASSUME FloorInv, FloorNext, rebuffed' = rebuffed
  PROVE  NumbersAreChecked'
<1>1. ASSUME NEW e \in rebuffed PROVE e.op = "move" \/ e.blanks \/ Busy(e) \cap stirred' # {}
  BY StirredAfter DEF FloorInv, NumbersAreChecked
<1>2. \A e : Busy(e)' = Busy(e)
  BY DEF Busy
<1> QED BY <1>1, <1>2 DEF NumbersAreChecked

LEMMA SavePlaceKeeps ==
  ASSUME FloorInv, FloorNext, NEW h \in Hosts, SaveFloor(h), ~Clashes(host[h]), host[h].x \in FloorPlaces
  PROVE  FloorInv'
<1>1. PICK d : d = host[h]
  OBVIOUS
<1>2. d # NoDeed /\ d \in PlaceDeed /\ DeedFits(d) /\ d.x \in FloorPlaces
  <2>1. d # NoDeed /\ d \in PlaceDeed \cup TableDeed
    BY <1>1 DEF SaveFloor, FloorInv, FloorTypes
  <2> QED BY <1>1, <2>1, BusyIs DEF FloorInv
<1>3. PlaceDeedFits(d) /\ d.row \in FloorPlaceRow /\ d.row.is = "live" /\ d.x \notin FloorTables
  BY <1>2, GivenFloor DEF DeedFits, PlaceDeed
<1>4. PICK r : r = IF d.op = "delete" THEN [place[d.x] EXCEPT !.is = "dead"] ELSE d.row
  OBVIOUS
<1>5. r \in FloorPlaceRow /\ (d.op = "delete" => r.is = "dead") /\ (d.op # "delete" => r = d.row)
  BY <1>2, <1>3, <1>4 DEF FloorInv, FloorTypes, FloorPlaceRow
<1>6. /\ SavesAs(h) /\ rebuffed' = rebuffed
      /\ place' = [p \in FloorPlaces |-> IF p = d.x THEN r ELSE place[p]]
      /\ blank' = IF d.blanks THEN blank \cup {d.x} ELSE blank
      /\ sitting' = sitting /\ saidBy' = saidBy
  BY <1>1, <1>2, <1>4 DEF SaveFloor, SavesAs
<1>7. table' = table /\ revived' = revived
  <2>1. /\ table' = [t \in FloorTables |-> IF t = d.x THEN IF d.op = "delete" THEN [table[t] EXCEPT !.is = "dead"]
                                                            ELSE d.row
                                           ELSE table[t]]
        /\ revived' = revived \cup {t \in {d.x} \cap FloorTables :
                         d.op = "switch" /\ d.row.on /\ place[d.row.in].is # "live"}
    BY <1>1 DEF SaveFloor
  <2>2. \A t \in FloorTables : t # d.x
    BY <1>3
  <2> QED BY <1>3, <2>1, <2>2 DEF FloorInv, FloorTypes
<1>8. stirred \subseteq stirred'
  BY StirredAfter
<1>9. TablesStand'
  <2> SUFFICES ASSUME NEW t \in FloorTables, InService(t), table[t].on, place'[table[t].in].is # "live"
               PROVE  Uprooted(t, table[t].in)'
    BY <1>7 DEF TablesStand, InService
  <2>1. table[t].in \in FloorPlaces
    BY TableIs
  <2>2. CASE table[t].in # d.x
    BY <1>6, <1>7, <1>8, <2>1, <2>2 DEF FloorInv, TablesStand, Uprooted
  <2>3. CASE table[t].in = d.x
    <3>1. d.op = "delete"
      BY <1>3, <1>5, <1>6, <2>1, <2>3
    <3> QED BY <1>3, <1>7, <1>8, <2>3, <3>1 DEF PlaceDeedFits, Uprooted
  <2> QED BY <2>2, <2>3
<1>10. NumbersDiffer' /\ SaidTells'
  <2>1. NumbersDiffer'
    BY <1>7 DEF FloorInv, NumbersDiffer, InService
  <2>2. SaidTells'
    BY <1>6, <1>7, <1>8 DEF FloorInv, SaidTells
  <2> QED BY <2>1, <2>2
<1>11. NamesApart'
  <2>1. ASSUME NEW q \in FloorPlaces \ {d.x}, r.is = "live", place[q].is = "live", place[q].name = r.name
        PROVE  d.x \in blank' \/ <<"name", r.name>> \in stirred'
    BY <1>3, <1>5, <1>6, <1>8, <2>1 DEF PlaceDeedFits
  <2> SUFFICES ASSUME NEW p \in FloorPlaces, NEW q \in FloorPlaces, p # q, place'[p].is = "live",
                      place'[q].is = "live", place'[p].name = place'[q].name
               PROVE  {p, q} \cap blank' # {} \/ <<"name", place'[p].name>> \in stirred'
    BY DEF NamesApart
  <2>2. CASE p = d.x
    BY <1>6, <2>1, <2>2
  <2>3. CASE q = d.x
    BY <1>6, <2>1, <2>3
  <2>4. CASE p # d.x /\ q # d.x
    <3>1. {p, q} \cap blank # {} \/ <<"name", place[p].name>> \in stirred
      BY <1>6, <2>4 DEF FloorInv, NamesApart
    <3> QED BY <1>6, <1>8, <2>4, <3>1
  <2> QED BY <2>2, <2>3, <2>4
<1>12. ASSUME NEW k \in Hosts \ {h} PROVE DeedFits(host[k])'
  <2>1. PICK e : e = host[k]
    OBVIOUS
  <2>2. DeedFits(e)
    BY <1>6, <2>1, HostIs
  <2>3. ASSUME e = NoDeed PROVE DeedFits(e)'
    BY <2>3 DEF DeedFits
  <2>4. ASSUME e # NoDeed PROVE DeedFits(e)'
    <3>1. e \in PlaceDeed \cup TableDeed
      BY <1>6, <2>1, <2>4, HostIs
    <3>2. ASSUME e.x \in FloorPlaces PROVE PlaceDeedFits(e)'
      <4>1. PlaceDeedFits(e)
        BY <2>2, <2>4, <3>2 DEF DeedFits
      <4>2. ASSUME e.op # "delete", ~e.blanks, NEW q \in FloorPlaces \ {e.x}, place'[q].is = "live",
                   place'[q].name = e.row.name
            PROVE  <<"name", e.row.name>> \in stirred'
        <5>1. CASE q # d.x
          BY <1>6, <1>8, <4>1, <4>2, <5>1 DEF PlaceDeedFits
        <5>2. CASE q = d.x
          <6>1. d.row.name = e.row.name
            BY <1>5, <1>6, <4>2, <5>2
          <6>2. <<"name", d.row.name>> \in stirred
            BY <1>1, <1>2, <2>1, <3>1, <3>2, <6>1, OthersBusy
          <6> QED BY <1>8, <6>1, <6>2
        <5> QED BY <5>1, <5>2
      <4>3. ASSUME e.op = "delete", NEW t \in FloorTables, InService(t)', table'[t].on, table'[t].in = e.x
            PROVE  Uprooted(t, e.x)'
        BY <1>7, <1>8, <4>1, <4>3 DEF PlaceDeedFits, Uprooted, InService
      <4> QED BY <4>2, <4>3 DEF PlaceDeedFits
    <3>3. ASSUME e.x \in FloorTables PROVE TableDeedFits(e)'
      <4>1. TableDeedFits(e) /\ e.row.in \in FloorPlaces
        BY <2>2, <2>4, <3>1, <3>3, BusyIs DEF DeedFits, TableDeed, FloorTableRow
      <4>2. ASSUME e.op # "delete", e.op # "switch", e.row.on
            PROVE  place'[e.row.in].is = "live" \/ Uprooted(e.x, e.row.in)'
        <5>1. place[e.row.in].is = "live" \/ Uprooted(e.x, e.row.in)
          BY <4>1, <4>2 DEF TableDeedFits
        <5>2. CASE e.row.in # d.x
          BY <1>6, <1>7, <1>8, <4>1, <5>1, <5>2 DEF Uprooted
        <5>3. CASE e.row.in = d.x
          BY <1>1, <1>2, <1>8, <2>1, <3>1, <3>3, <5>3, OthersBusy DEF Uprooted
        <5> QED BY <5>2, <5>3
      <4>3. ASSUME e.op # "delete", e.op # "move", ~e.blanks, NEW u \in FloorTables \ {e.x}, InService(u)',
                   table'[u].in = e.row.in, table'[u].number = e.row.number
            PROVE  Busy(e) \cap stirred' # {}
        <5>1. Busy(e) \cap stirred # {}
          BY <1>7, <4>1, <4>3 DEF TableDeedFits, InService
        <5> QED BY <1>8, <5>1
      <4>4. ASSUME e.op # "delete", saidBy'[e.x] = "order", e.row.status = "AVAILABLE"
            PROVE  <<"row", e.x>> \in stirred'
        BY <1>6, <1>8, <4>1, <4>4 DEF TableDeedFits
      <4>5. Busy(e)' = Busy(e)
        BY DEF Busy
      <4> QED BY <4>2, <4>3, <4>4, <4>5 DEF TableDeedFits
    <3> QED BY <2>2, <2>4, <3>2, <3>3 DEF DeedFits
  <2> QED BY <1>6, <2>1, <2>3, <2>4, HostIs
<1>13. place' \in [FloorPlaces -> FloorPlaceRow] /\ table' \in [FloorTables -> FloorTableRow]
  BY <1>5, <1>6, <1>7 DEF FloorInv, FloorTypes
<1> QED BY <1>6, <1>9, <1>10, <1>11, <1>12, <1>13, Saved, RebuffedStands

LEMMA SaveTableKeeps ==
  ASSUME FloorInv, FloorNext, NEW h \in Hosts, SaveFloor(h), ~Clashes(host[h]), host[h].x \in FloorTables
  PROVE  FloorInv'
<1>1. PICK d : d = host[h]
  OBVIOUS
<1>2. d # NoDeed /\ d \in TableDeed /\ DeedFits(d) /\ d.x \in FloorTables
  <2>1. d # NoDeed /\ d \in PlaceDeed \cup TableDeed
    BY <1>1 DEF SaveFloor, FloorInv, FloorTypes
  <2> QED BY <1>1, <2>1, BusyIs DEF FloorInv
<1>3. /\ TableDeedFits(d) /\ d.row \in FloorTableRow /\ d.row.is = "live" /\ d.row.in \in FloorPlaces
      /\ d.x \notin FloorPlaces
  BY <1>2, GivenFloor DEF DeedFits, TableDeed, FloorTableRow
<1>4. PICK r : r = IF d.op = "delete" THEN [table[d.x] EXCEPT !.is = "dead"] ELSE d.row
  OBVIOUS
<1>5. /\ r \in FloorTableRow /\ (d.op = "delete" => r.is = "dead" /\ r.status = table[d.x].status)
      /\ (d.op # "delete" => r = d.row)
  BY <1>2, <1>3, <1>4 DEF FloorInv, FloorTypes, FloorTableRow
<1>6. /\ SavesAs(h) /\ rebuffed' = rebuffed
      /\ table' = [t \in FloorTables |-> IF t = d.x THEN r ELSE table[t]]
      /\ blank' = (IF d.blanks THEN blank \cup {d.x} ELSE blank)
      /\ revived \subseteq revived'
      /\ (d.op = "switch" /\ d.row.on /\ place[d.row.in].is # "live" => d.x \in revived')
      /\ sitting' = sitting /\ saidBy' = saidBy
  BY <1>1, <1>2, <1>4 DEF SaveFloor, SavesAs
<1>7. place' = place
  <2>1. /\ place' = [p \in FloorPlaces |-> IF p = d.x THEN IF d.op = "delete" THEN [place[p] EXCEPT !.is = "dead"]
                                                            ELSE d.row
                                           ELSE place[p]]
    BY <1>1 DEF SaveFloor
  <2>2. \A p \in FloorPlaces : p # d.x
    BY <1>3
  <2> QED BY <2>1, <2>2 DEF FloorInv, FloorTypes
<1>8. stirred \subseteq stirred'
  BY StirredAfter
<1>9. TablesStand'
  <2> SUFFICES ASSUME NEW t \in FloorTables, InService(t)', table'[t].on, place[table'[t].in].is # "live"
               PROVE  Uprooted(t, table[t].in)'
    BY <1>7 DEF TablesStand
  <2>1. CASE t # d.x
    BY <1>6, <1>8, <2>1 DEF FloorInv, TablesStand, Uprooted, InService
  <2>2. CASE t = d.x
    <3>1. d.op # "delete" /\ table'[t] = d.row /\ d.row.on
      BY <1>5, <1>6, <2>2 DEF InService
    <3>2. d.op # "switch" => Uprooted(d.x, d.row.in)
      BY <1>3, <3>1 DEF TableDeedFits
    <3>3. CASE d.op # "switch"
      BY <1>6, <1>8, <2>2, <3>1, <3>2, <3>3 DEF Uprooted
    <3>4. CASE d.op = "switch"
      BY <1>6, <2>2, <3>1, <3>4 DEF Uprooted
    <3> QED BY <3>3, <3>4
  <2> QED BY <2>1, <2>2
<1>10. NumbersDiffer'
  <2>1. ASSUME NEW u \in FloorTables \ {d.x}, r.is = "live", InService(u), table[u].in = r.in
        PROVE  table[u].number # r.number
    <3>1. d.op # "delete" /\ r = d.row
      BY <1>5, <2>1
    <3>2. ~NumberExists(d.x, d.row.in, d.row.number, FALSE)
      BY <1>1, <1>2, <3>1 DEF Clashes
    <3> QED BY <2>1, <3>1, <3>2 DEF NumberExists, TablesOf
  <2> SUFFICES ASSUME NEW t \in FloorTables, NEW u \in FloorTables, t # u, InService(t)', InService(u)',
                      table'[t].in = table'[u].in
               PROVE  table'[t].number # table'[u].number
    BY DEF NumbersDiffer
  <2>2. CASE t = d.x
    BY <1>6, <2>1, <2>2 DEF InService
  <2>3. CASE u = d.x
    BY <1>6, <2>1, <2>3 DEF InService
  <2>4. CASE t # d.x /\ u # d.x
    BY <1>6, <2>4 DEF InService, FloorInv, NumbersDiffer
  <2> QED BY <2>2, <2>3, <2>4
<1>11. SaidTells' /\ NamesApart'
  <2>1. ASSUME NEW t \in FloorTables
        PROVE  /\ table'[t].is = "unused" => saidBy'[t] = "nobody"
               /\ saidBy'[t] = "order" /\ table'[t].status = "AVAILABLE" => <<"row", t>> \in stirred'
    <3>1. CASE t # d.x
      BY <1>6, <1>8, <3>1 DEF FloorInv, SaidTells
    <3>2. CASE t = d.x
      <4>1. r.is # "unused"
        BY <1>3, <1>5
      <4>2. saidBy[t] = "order" /\ r.status = "AVAILABLE" => <<"row", t>> \in stirred
        BY <1>3, <1>5, <3>2 DEF TableDeedFits, FloorInv, SaidTells
      <4> QED BY <1>6, <1>8, <3>2, <4>1, <4>2
    <3> QED BY <3>1, <3>2
  <2>2. SaidTells'
    BY <1>6, <2>1 DEF SaidTells, FloorInv
  <2>3. blank \subseteq blank'
    BY <1>6
  <2>4. NamesApart'
    BY <1>7, <1>8, <2>3 DEF FloorInv, NamesApart
  <2> QED BY <2>2, <2>4
<1>12. ASSUME NEW k \in Hosts \ {h} PROVE DeedFits(host[k])'
  <2>1. PICK e : e = host[k]
    OBVIOUS
  <2>2. DeedFits(e)
    BY <1>6, <2>1, HostIs
  <2>3. ASSUME e = NoDeed PROVE DeedFits(e)'
    BY <2>3 DEF DeedFits
  <2>4. ASSUME e # NoDeed PROVE DeedFits(e)'
    <3>1. e \in PlaceDeed \cup TableDeed
      BY <1>6, <2>1, <2>4, HostIs
    <3>2. ASSUME e.x \in FloorPlaces PROVE PlaceDeedFits(e)'
      <4>1. PlaceDeedFits(e)
        BY <2>2, <2>4, <3>2 DEF DeedFits
      <4>2. ASSUME e.op # "delete", ~e.blanks, NEW q \in FloorPlaces \ {e.x}, place'[q].is = "live",
                   place'[q].name = e.row.name
            PROVE  <<"name", e.row.name>> \in stirred'
        BY <1>7, <1>8, <4>1, <4>2 DEF PlaceDeedFits
      <4>3. ASSUME e.op = "delete", NEW t \in FloorTables, InService(t)', table'[t].on, table'[t].in = e.x
            PROVE  Uprooted(t, e.x)'
        <5>1. CASE t # d.x
          BY <1>6, <1>8, <4>1, <4>3, <5>1 DEF PlaceDeedFits, Uprooted, InService
        <5>2. CASE t = d.x
          <6>1. d.row.in = e.x
            BY <1>5, <1>6, <4>3, <5>2 DEF InService
          <6> QED BY <1>1, <1>2, <1>8, <2>1, <3>1, <3>2, <6>1, OthersBusy DEF Uprooted
        <5> QED BY <5>1, <5>2
      <4> QED BY <4>2, <4>3 DEF PlaceDeedFits
    <3>3. ASSUME e.x \in FloorTables PROVE TableDeedFits(e)'
      <4>1. TableDeedFits(e)
        BY <2>2, <2>4, <3>3 DEF DeedFits
      <4>2. ASSUME e.op # "delete", e.op # "switch", e.row.on
            PROVE  place'[e.row.in].is = "live" \/ Uprooted(e.x, e.row.in)'
        BY <1>6, <1>7, <1>8, <4>1, <4>2 DEF TableDeedFits, Uprooted
      <4>3. ASSUME e.op # "delete", e.op # "move", ~e.blanks, NEW u \in FloorTables \ {e.x}, InService(u)',
                   table'[u].in = e.row.in, table'[u].number = e.row.number
            PROVE  Busy(e) \cap stirred' # {}
        <5>1. CASE u # d.x
          <6>1. Busy(e) \cap stirred # {}
            BY <1>6, <4>1, <4>3, <5>1 DEF TableDeedFits, InService
          <6> QED BY <1>8, <6>1
        <5>2. CASE u = d.x
          <6>1. d.row.in = e.row.in /\ d.row.number = e.row.number
            BY <1>5, <1>6, <4>3, <5>2 DEF InService
          <6>2. Busy(e) \cap stirred # {}
            BY <1>1, <1>2, <2>1, <3>1, <3>3, <6>1, OthersBusy
          <6> QED BY <1>8, <6>2
        <5> QED BY <5>1, <5>2
      <4>4. ASSUME e.op # "delete", saidBy'[e.x] = "order", e.row.status = "AVAILABLE"
            PROVE  <<"row", e.x>> \in stirred'
        BY <1>6, <1>8, <4>1, <4>4 DEF TableDeedFits
      <4>5. Busy(e)' = Busy(e)
        BY DEF Busy
      <4> QED BY <4>2, <4>3, <4>4, <4>5 DEF TableDeedFits
    <3> QED BY <2>2, <2>4, <3>2, <3>3 DEF DeedFits
  <2> QED BY <1>6, <2>1, <2>3, <2>4, HostIs
<1>13. place' \in [FloorPlaces -> FloorPlaceRow] /\ table' \in [FloorTables -> FloorTableRow]
  BY <1>5, <1>6, <1>7 DEF FloorInv, FloorTypes
<1> QED BY <1>6, <1>9, <1>10, <1>11, <1>12, <1>13, Saved, RebuffedStands

LEMMA SaveFloorKeeps ==
  ASSUME FloorInv, FloorNext, NEW h \in Hosts, SaveFloor(h)
  PROVE  FloorInv'
<1>1. host[h].x \in FloorPlaces \/ host[h].x \in FloorTables
  BY BusyIs DEF SaveFloor, FloorInv, FloorTypes
<1> QED BY <1>1, ClashKeeps, SavePlaceKeeps, SaveTableKeeps

-----------------------------------------------------------------------------
(* Waiters.                                                                *)

\* A table may be given another status, by somebody.
Seats(t, status, who) ==
  /\ SetStatus(t, status, who) /\ who # "nobody" /\ (who = "order" => status = "OCCUPIED")

LEMMA SeatsKeep ==
  ASSUME FloorInv, FloorNext, NEW t \in FloorTables, NEW status \in TableStatus,
         NEW who \in {"order", "called_off", "hand"}, Seats(t, status, who),
         sitting' \in [Sittings -> SittingRow],
         \A o \in Sittings : sitting'[o].is = "open" =>
           \/ sitting[o].is = "open" /\ sitting'[o].at = sitting[o].at
           \/ sitting'[o].at = t /\ InService(t)
  PROVE  FloorInv'
<1>1. /\ table' = IF InService(t) THEN [table EXCEPT ![t].status = status] ELSE table
      /\ saidBy' = IF InService(t) THEN [saidBy EXCEPT ![t] = who] ELSE saidBy
      /\ place' = place /\ host' = host /\ blank' = blank /\ revived' = revived /\ rebuffed' = rebuffed
  BY DEF Seats, SetStatus
<1>2. HostsApart' /\ stirred \subseteq stirred'
  BY StirredAfter
<1>3. table' \in [FloorTables -> FloorTableRow] /\ TablesAlike
  <2>1. \A u \in FloorTables : table[u] \in FloorTableRow
    BY DEF FloorInv, FloorTypes
  <2>2. [table[t] EXCEPT !.status = status] \in FloorTableRow
    BY <2>1 DEF FloorTableRow
  <2>3. InService(t) => table' = [table EXCEPT ![t] = [table[t] EXCEPT !.status = status]]
    BY <1>1, <2>1 DEF FloorTableRow, FloorInv, FloorTypes
  <2>4. table' \in [FloorTables -> FloorTableRow]
    BY <1>1, <2>2, <2>3 DEF FloorInv, FloorTypes
  <2>5. TablesAlike
    BY <1>1, <2>1, <2>3 DEF TablesAlike, FloorInv, FloorTypes, FloorTableRow
  <2> QED BY <2>4, <2>5
<1>4. saidBy' \in [FloorTables -> {"nobody", "order", "called_off", "hand"}]
  BY <1>1 DEF FloorInv, FloorTypes
<1>5. FloorTypes'
  BY <1>1, <1>3, <1>4 DEF FloorInv, FloorTypes
<1>6. TablesStand' /\ NumbersDiffer' /\ NamesApart'
  <2>1. TablesStand'
    BY <1>1, <1>2, <1>3 DEF FloorInv, TablesStand, TablesAlike, InService, Uprooted
  <2>2. NumbersDiffer'
    BY <1>3 DEF FloorInv, NumbersDiffer, TablesAlike, InService
  <2>3. NamesApart'
    BY <1>1, <1>2 DEF FloorInv, NamesApart
  <2> QED BY <2>1, <2>2, <2>3
<1>7. SaidTells'
  <2>1. ASSUME NEW u \in FloorTables
        PROVE  /\ table'[u].is = "unused" => saidBy'[u] = "nobody"
               /\ saidBy'[u] = "order" /\ table'[u].status = "AVAILABLE" => <<"row", u>> \in stirred'
    <3>1. CASE u = t /\ InService(t)
      <4>1. saidBy'[u] = who /\ table'[u].status = status /\ table'[u].is = "live"
        BY <1>1, <3>1 DEF FloorInv, FloorTypes, FloorTableRow, InService
      <4>2. who = "order" => status = "OCCUPIED"
        BY DEF Seats
      <4> QED BY <4>1, <4>2
    <3>2. CASE ~(u = t /\ InService(t))
      <4>1. saidBy'[u] = saidBy[u] /\ table'[u] = table[u]
        BY <1>1, <3>2 DEF FloorInv, FloorTypes
      <4> QED BY <1>2, <4>1 DEF FloorInv, SaidTells
    <3> QED BY <3>1, <3>2
  <2>2. ASSUME NEW o \in Sittings, sitting'[o].is = "open" PROVE saidBy'[sitting'[o].at] # "nobody"
    <3>1. \A u \in FloorTables : saidBy'[u] = saidBy[u] \/ saidBy'[u] = who
      BY <1>1 DEF FloorInv, FloorTypes
    <3>2. sitting'[o].at \in FloorTables
      BY DEF SittingRow
    <3>3. CASE sitting[o].is = "open" /\ sitting'[o].at = sitting[o].at
      BY <3>1, <3>2, <3>3 DEF FloorInv, SaidTells
    <3>4. CASE sitting'[o].at = t /\ InService(t)
      BY <1>1, <3>4 DEF FloorInv, FloorTypes
    <3> QED BY <2>2, <3>3, <3>4
  <2> QED BY <2>1, <2>2 DEF SaidTells
<1>8. NumbersAreChecked'
  BY <1>1, RebuffedStands
<1>9. ASSUME NEW k \in Hosts PROVE DeedFits(host[k])'
  <2>1. PICK e : e = host[k]
    OBVIOUS
  <2>2. DeedFits(e) /\ (e = NoDeed \/ e \in PlaceDeed \cup TableDeed)
    BY <2>1 DEF FloorInv, FloorTypes
  <2>3. CASE e = NoDeed
    BY <1>1, <2>1, <2>3 DEF DeedFits
  <2>4. CASE e # NoDeed
    <3>1. e.x \in FloorTables /\ saidBy'[e.x] # saidBy[e.x] => <<"row", e.x>> \in stirred'
      <4>1. <<"row", e.x>> \in Busy(host'[k])
        BY <1>1, <2>1, <2>2, <2>4, BusyIs
      <4> QED BY <4>1, StirredAfter
    <3>2. DeedFits(e)'
      BY <1>1, <1>2, <1>3, <2>2, <3>1, DeedStands
    <3>3. host'[k] = e
      BY <1>1, <2>1
    <3> QED BY <3>2, <3>3 DEF DeedFits, PlaceDeedFits, TableDeedFits, Busy
  <2> QED BY <2>3, <2>4
<1> QED BY <1>2, <1>5, <1>6, <1>7, <1>8, <1>9 DEF FloorInv

LEMMA SitDownKeeps ==
  ASSUME FloorInv, FloorNext, NEW o \in Sittings, NEW t \in FloorTables, SitDown(o, t)
  PROVE  FloorInv'
<1>1. PICK s : s = [is |-> "open", at |-> t]
  OBVIOUS
<1>2. s \in SittingRow /\ s.at = t /\ sitting' = [sitting EXCEPT ![o] = s] /\ InService(t)
  BY <1>1 DEF SittingRow, SitDown
<1>3. Seats(t, "OCCUPIED", "order")
  BY DEF SitDown, Seats
<1>4. sitting' \in [Sittings -> SittingRow]
  BY <1>2 DEF FloorInv, FloorTypes
<1>5. \A p \in Sittings : sitting'[p] = sitting[p] \/ sitting'[p] = s
  BY <1>2 DEF FloorInv, FloorTypes
<1> QED BY <1>2, <1>3, <1>4, <1>5, SeatsKeep DEF TableStatus

\* An order that leaves the state it was in, and not for an open one.
LEMMA SittingEnds ==
  ASSUME FloorInv, NEW o \in Sittings, NEW is \in {"over", "off"},
         sitting' = [sitting EXCEPT ![o].is = is]
  PROVE  /\ sitting' \in [Sittings -> SittingRow]
         /\ \A p \in Sittings : sitting'[p].is = "open" => sitting'[p] = sitting[p]
<1>1. PICK s : s = [sitting[o] EXCEPT !.is = is]
  OBVIOUS
<1>2. s \in SittingRow /\ s.is = is
  BY <1>1 DEF FloorInv, FloorTypes, SittingRow
<1>3. sitting' = [sitting EXCEPT ![o] = s]
  BY <1>1
<1> QED BY <1>2, <1>3 DEF FloorInv, FloorTypes

LEMMA GetUpKeeps ==
  ASSUME FloorInv, FloorNext, NEW o \in Sittings, GetUp(o)
  PROVE  FloorInv'
<1>1. /\ sitting' = [sitting EXCEPT ![o].is = "over"]
      /\ place' = place /\ table' = table /\ saidBy' = saidBy /\ host' = host /\ blank' = blank
      /\ revived' = revived /\ rebuffed' = rebuffed
  BY DEF GetUp
<1>2. HostsApart' /\ stirred \subseteq stirred'
  BY StirredAfter
<1>3. FloorTypes'
  BY <1>1, SittingEnds DEF FloorInv, FloorTypes
<1>4. TablesStand' /\ NumbersDiffer' /\ NamesApart' /\ SaidTells' /\ NumbersAreChecked'
  <2>1. TablesStand'
    BY <1>1, <1>2 DEF FloorInv, TablesStand, InService, Uprooted
  <2>2. NumbersDiffer'
    BY <1>1 DEF FloorInv, NumbersDiffer, InService
  <2>3. NamesApart'
    BY <1>1, <1>2 DEF FloorInv, NamesApart
  <2>4. SaidTells'
    BY <1>1, <1>2, SittingEnds DEF FloorInv, SaidTells
  <2> QED BY <1>1, <2>1, <2>2, <2>3, <2>4, RebuffedStands
<1>5. ASSUME NEW k \in Hosts PROVE DeedFits(host[k])'
  <2>1. PICK e : e = host[k] /\ e = host'[k]
    BY <1>1
  <2>2. DeedFits(e)'
    BY <1>1, <1>2, <2>1, DeedStands DEF FloorInv, TablesAlike
  <2> QED BY <2>1, <2>2 DEF DeedFits, PlaceDeedFits, TableDeedFits, Busy
<1> QED BY <1>2, <1>3, <1>4, <1>5 DEF FloorInv

LEMMA CallOffKeeps ==
  ASSUME FloorInv, FloorNext, NEW o \in Sittings, CallOff(o)
  PROVE  FloorInv'
<1>1. sitting[o].at \in FloorTables
  BY DEF FloorInv, FloorTypes, SittingRow
<1>2. Seats(sitting[o].at, "AVAILABLE", "called_off") /\ sitting' = [sitting EXCEPT ![o].is = "off"]
  BY DEF CallOff, Seats
<1> QED BY <1>1, <1>2, SittingEnds, SeatsKeep DEF TableStatus

LEMMA HandKeeps ==
  ASSUME FloorInv, FloorNext, NEW t \in FloorTables, NEW status \in TableStatus,
         UpdateTableStatus(t, status) \/ SetTableStatus(t, status)
  PROVE  FloorInv'
<1>1. Seats(t, status, "hand") /\ sitting' = sitting
  BY DEF UpdateTableStatus, SetTableStatus, Seats
<1>2. sitting' \in [Sittings -> SittingRow]
  BY <1>1 DEF FloorInv, FloorTypes
<1> QED BY <1>1, <1>2, SeatsKeep

LEMMA FloorKeeps == FloorInv /\ [FloorNext]_floorVars => FloorInv'
<1>1. ASSUME FloorInv, FloorNext PROVE FloorInv'
  <2>1. FloorStep
    BY <1>1 DEF FloorNext
  <2>2. CASE \E h \in Hosts, blanks \in BOOLEAN, n \in Labels :
               \/ \E p \in FloorPlaces : CreatePlace(h, p, n, blanks) \/ UpdatePlace(h, p, n, blanks)
               \/ \E t \in FloorTables, p \in FloorPlaces : CreateTable(h, t, p, n, blanks)
               \/ \E t \in FloorTables : RenumberTable(h, t, n, blanks)
    BY <1>1, <2>2, CreatePlaceKeeps, UpdatePlaceKeeps, CreateTableKeeps, RenumberTableKeeps
  <2>3. CASE \E h \in Hosts :
               \/ \E p \in FloorPlaces : DeletePlace(h, p)
               \/ \E t \in FloorTables, p \in FloorPlaces : MoveTable(h, t, p)
               \/ \E t \in FloorTables : SwitchTable(h, t) \/ DeleteTable(h, t)
               \/ SaveFloor(h)
    BY <1>1, <2>3, DeletePlaceKeeps, MoveTableKeeps, SwitchTableKeeps, DeleteTableKeeps, SaveFloorKeeps
  <2>4. CASE \E o \in Sittings, t \in FloorTables : SitDown(o, t)
    BY <1>1, <2>4, SitDownKeeps
  <2>5. CASE \E o \in Sittings : GetUp(o) \/ CallOff(o)
    BY <1>1, <2>5, GetUpKeeps, CallOffKeeps
  <2>6. CASE \E t \in FloorTables, status \in TableStatus :
               UpdateTableStatus(t, status) \/ SetTableStatus(t, status)
    BY <1>1, <2>6, HandKeeps
  <2> QED BY <2>1, <2>2, <2>3, <2>4, <2>5, <2>6 DEF FloorStep
<1>2. ASSUME FloorInv, UNCHANGED floorVars PROVE FloorInv'
  BY <1>2 DEF floorVars, FloorInv, FloorTypes, HostsApart, TablesStand, NumbersDiffer, NamesApart, SaidTells,
              NumbersAreChecked, DeedFits, PlaceDeedFits, TableDeedFits, Busy, Uprooted, InService
<1> QED BY <1>1, <1>2
-----------------------------------------------------------------------------
(* The menu                                                                *)

MenuRow ==
  [is : {"unused", "live", "dead", "gone"}, slug : Slugs \cup {0}, on : BOOLEAN, in : SUBSET MenuCategories,
   price : MenuPrices \cup {0}]
MenuOps == {"none", "create", "update", "delete", "erase", "restore", "switch", "status", "bulk", "price"}
DeskRow ==
  [pc : {"free", "fill", "read", "save", "drop", "note"}, op : MenuOps, x : MenuRows \cup {ActiveList},
   row : MenuRow, old : MenuPrices \cup {0}, found : SUBSET (MenuRow \cup SUBSET MenuCategories)]
MenuTypes ==
  /\ catalog \in [MenuRows -> MenuRow]
  /\ shown \in [Lookups -> SUBSET (MenuRow \cup SUBSET MenuCategories)]
  /\ desk \in [Desks -> DeskRow]
  /\ audited \in [MenuProducts -> MenuPrices \cup {0}]

\* What two requests touch at once is disturbed.
DesksApart ==
  \A e, f \in Desks : e # f => Touches(desk[e]) \cap Touches(desk[f]) \subseteq disturbed

\* A product that went with its category, or with one that came back in between.
WentWith(p, c) ==
  /\ catalog[p].is = "gone" /\ c \in catalog[p].in
  /\ catalog[c].is = "gone" \/ c \in disturbed
Swept(l) == l \in MenuProducts /\ \E c \in MenuCategories : WentWith(l, c)
\* What a lookup may show: the rows as they are, under the name their category has, or had.
Looks(l, v) == v = Current(l) \/ (l \in renamed /\ Own(v) = Own(Current(l)))
Shows(l) == shown[l] = {} \/ Looks(l, shown[l]) \/ l \in disturbed \/ In(l, {"drop"}) \/ Swept(l)
\* A price that the log does not end with is about to be noted.
Noting(p) == \E e \in Editors : desk[e].op = "price" /\ desk[e].x = p /\ desk[e].pc \in {"drop", "note"}
AuditTells == \A p \in MenuProducts : catalog[p].price = audited[p] \/ p \in disturbed \/ Noting(p)
\* No product stands in a category that is gone.
Housed ==
  /\ \A c \in MenuCategories : catalog[c].in = {}
  /\ \A p \in MenuProducts : Found(p) => \A c \in catalog[p].in : catalog[c].is # "gone"

\* What a request checked before it saves still holds, or was disturbed.
SaveFits(d) ==
  /\ d.x \in MenuRows /\ d.op # "none"
  /\ IF d.op = "create" THEN catalog[d.x].is = "unused" \/ d.x \in disturbed ELSE catalog[d.x].is # "unused"
  /\ WholeRow(d) =>
       /\ d.row.is = "live"
       /\ \A c \in d.row.in : catalog[c].is # "gone" \/ c \in disturbed
       /\ d.op # "create" /\ d.op # "price" => d.row.price = catalog[d.x].price \/ d.x \in disturbed
       /\ d.x \in MenuCategories => /\ d.row.slug \in FreeSlugs(d.x) \/ ActiveList \in disturbed
                                    /\ d.op = "create" \/ Found(d.x) \/ d.x \in disturbed
  /\ d.op \in {"delete", "switch"} =>
       /\ d.row.in = catalog[d.x].in \/ d.x \in disturbed
       /\ Found(d.x) \/ Touches(d) \cap disturbed # {}
PriceFits(d) ==
  /\ d.x \in MenuProducts
  /\ \/ d.x \in disturbed
     \/ d.pc \in {"read", "save"} /\ d.old = audited[d.x] /\ catalog[d.x].price = audited[d.x]
     \/ d.pc \in {"drop", "note"} /\ d.old = audited[d.x] /\ catalog[d.x].price = d.row.price
DeskFits(d) ==
  /\ d.pc = "free" => d.op = "none"
  /\ d.pc = "fill" => d.op = "none" /\ d.x \in Lookups
                      /\ (Looks(d.x, d.found) \/ d.x \in disturbed \/ Swept(d.x))
  /\ d.pc \in {"read", "note"} => d.op = "price"
  /\ d.pc = "save" => SaveFits(d)
  /\ d.op = "price" => PriceFits(d)
  /\ d.pc \in {"save", "drop"} => d.x \in MenuRows /\ (d.x \in MenuCategories => d.row.in = {})
MenuInv ==
  /\ MenuTypes /\ DesksApart /\ (\A l \in Lookups : Shows(l)) /\ AuditTells /\ Housed /\ ChecksSuffice
  /\ \A e \in Desks : DeskFits(desk[e])

LEMMA GivenMenu ==
  /\ 0 \notin MenuPrices /\ 0 \notin Slugs
  /\ MenuCategories # {} /\ MenuPrices # {} /\ Slugs # {} /\ MenuCategories \cap MenuProducts = {}
  /\ ActiveList \notin MenuRows /\ IsFiniteSet(Desks)
BY MenuAssumption DEF ActiveList, MenuRows, Desks

LEMMA MenuStandsSo == MenuInv => MenuStands
<1> SUFFICES ASSUME MenuInv PROVE MenuStands
  OBVIOUS
<1>1. ShownIsCurrent
  <2> SUFFICES ASSUME NEW l \in Lookups, l \notin disturbed, ~In(l, {"drop"}), shown[l] # {},
                      ~Looks(l, shown[l])
               PROVE  \E p \in {l} \cap MenuProducts, c \in MenuCategories :
                        /\ catalog[p].is = "gone" /\ c \in catalog[p].in
                        /\ catalog[c].is = "gone" \/ c \in disturbed
    BY DEF ShownIsCurrent, Looks
  <2>1. Swept(l)
    BY DEF MenuInv, Shows
  <2> QED BY <2>1 DEF Swept, WentWith
<1>2. PricesAreAudited
  <2> SUFFICES ASSUME NEW p \in MenuProducts, p \notin disturbed, catalog[p].price # audited[p]
               PROVE  In(p, {"drop", "note"})
    BY DEF PricesAreAudited
  <2>1. PICK e \in Editors : desk[e].x = p /\ desk[e].pc \in {"drop", "note"}
    BY DEF MenuInv, AuditTells, Noting
  <2>2. p \in Touches(desk[e])
    BY <2>1 DEF Touches
  <2> QED BY <2>1, <2>2 DEF In
<1> QED BY <1>1, <1>2 DEF MenuInv, MenuStands

LEMMA BlankRow ==
  /\ NoMenuRow \in MenuRow /\ NoMenuRow.is = "unused" /\ NoMenuRow.in = {} /\ NoMenuRow.price = 0
  /\ Free \in DeskRow /\ Free.pc = "free" /\ Free.op = "none" /\ Free.row = NoMenuRow
<1>1. NoMenuRow \in MenuRow /\ NoMenuRow.is = "unused" /\ NoMenuRow.in = {} /\ NoMenuRow.price = 0
  BY DEF NoMenuRow, MenuRow
<1>2. Free \in DeskRow /\ Free.pc = "free" /\ Free.op = "none" /\ Free.row = NoMenuRow
  BY <1>1 DEF Free, DeskRow, MenuOps
<1> QED BY <1>1, <1>2

LEMMA TouchesIs ==
  ASSUME NEW d \in DeskRow
  PROVE  /\ d.pc = "free" => Touches(d) = {}
         /\ d.pc # "free" => d.x \in Touches(d)
         /\ d.pc = "fill" => Touches(d) = {d.x}
         /\ d.pc \notin {"free", "fill"} =>
              Touches(d) = {d.x} \cup d.row.in \cup (IF d.x \in MenuCategories THEN {ActiveList} ELSE {})
         /\ Touches(d) \subseteq MenuRows \cup {ActiveList}
<1>1. d.x \in MenuRows \cup {ActiveList} /\ d.row.in \subseteq MenuRows
  BY DEF DeskRow, MenuRow, MenuRows
<1>2. CASE d.pc = "free"
  BY <1>2 DEF Touches
<1>3. CASE d.pc = "fill"
  BY <1>1, <1>3 DEF Touches
<1>4. CASE d.pc \notin {"free", "fill"}
  BY <1>1, <1>4 DEF Touches
<1> QED BY <1>2, <1>3, <1>4

LEMMA DisturbedAfter ==
  ASSUME MenuInv, MenuNext, desk' \in [Desks -> DeskRow]
  PROVE  /\ disturbed \subseteq disturbed'
         /\ MenuStep => DesksApart'
<1>1. disturbed \subseteq disturbed'
  BY DEF MenuNext
<1>2. ASSUME MenuStep, disturbed' = disturbed \cup Contended(desk'),
             NEW e \in Desks, NEW f \in Desks, e # f, NEW x \in Touches(desk'[e]) \cap Touches(desk'[f])
      PROVE  x \in disturbed'
  <2>1. x \in MenuRows \cup {ActiveList}
    BY <1>2, TouchesIs
  <2>2. PICK s : s = {g \in Desks : x \in Touches(desk'[g])}
    OBVIOUS
  <2>3. s \subseteq Desks /\ e \in s /\ f \in s
    BY <1>2, <2>2
  <2>4. IsFiniteSet(s) /\ {e, f} \subseteq s /\ Cardinality(s) \in Nat
    BY <2>3, GivenMenu, FS_Subset, FS_CardinalityType
  <2>5. Cardinality({e, f}) = 2
    <3>1. Cardinality({e}) = 1 /\ IsFiniteSet({e})
      BY FS_Singleton
    <3>2. PICK one : one = {e}
      OBVIOUS
    <3>3. Cardinality(one \cup {f}) = Cardinality(one) + 1
      BY <1>2, <3>1, <3>2, FS_AddElement
    <3>4. {e, f} = one \cup {f}
      BY <3>2
    <3> QED BY <3>1, <3>2, <3>3, <3>4
  <2>6. Cardinality({e, f}) <= Cardinality(s)
    BY <2>4, FS_Subset
  <2> QED BY <1>2, <2>1, <2>2, <2>4, <2>5, <2>6 DEF Contended
<1>3. ASSUME NEW e, MenuStep, ~(disturbed' = disturbed \cup Contended(desk')), e \in Editors, RequestDies(e),
             disturbed' = disturbed \cup Touches(desk[e])
      PROVE  DesksApart'
  <2>1. desk' = [desk EXCEPT ![e] = Free]
    BY <1>3 DEF RequestDies
  <2> QED BY <1>1, <2>1, BlankRow, TouchesIs DEF MenuInv, MenuTypes, DesksApart
<1>4. (disturbed' = disturbed \cup Contended(desk')) /\ MenuStep => DesksApart'
  BY <1>2 DEF DesksApart
<1> QED BY <1>1, <1>3, <1>4 DEF MenuNext

LEMMA DeskStands ==
  ASSUME NEW d, DeskFits(d), catalog' = catalog, disturbed \subseteq disturbed',
         d.op = "price" => audited'[d.x] = audited[d.x] \/ d.x \in disturbed',
         d.pc = "fill" /\ d.x \in renamed => d.x \in renamed' \/ d.x \in disturbed'
  PROVE  DeskFits(d)'
<1>1. /\ \A l : Current(l)' = Current(l)
      /\ \A x : Found(x)' = Found(x) /\ FreeSlugs(x)' = FreeSlugs(x)
      /\ Touches(d)' = Touches(d)
  BY DEF Current, Joined, Found, FreeSlugs, IsLive, Touches
<1>5. d.pc = "fill" /\ Looks(d.x, d.found) => Looks(d.x, d.found)' \/ d.x \in disturbed'
  BY <1>1 DEF Looks, Own
<1>2. \A l : Swept(l) => Swept(l)'
  BY DEF Swept, WentWith
<1>3. SaveFits(d) => SaveFits(d)'
  BY <1>1 DEF SaveFits, WholeRow
<1>4. d.op = "price" /\ PriceFits(d) => PriceFits(d)'
  BY DEF PriceFits
<1> QED BY <1>1, <1>2, <1>3, <1>4, <1>5 DEF DeskFits

TurnsTo(e, d) == desk' = [desk EXCEPT ![e] = d] /\ catalog' = catalog

\* A step that saves nothing.
LEMMA UnsavedKeeps ==
  ASSUME MenuInv, disturbed \subseteq disturbed', DesksApart', NEW e \in Desks, NEW d \in DeskRow, TurnsTo(e, d),
         audited' = audited, DeskFits(d)', shown' \in [Lookups -> SUBSET (MenuRow \cup SUBSET MenuCategories)],
         \A l \in Lookups : Shows(l)', AuditTells', ChecksSuffice',
         \A k \in Desks : k # e /\ desk[k].pc = "fill" /\ desk[k].x \in renamed =>
           desk[k].x \in renamed' \/ desk[k].x \in disturbed'
  PROVE  MenuInv'
<1>1. MenuTypes'
  BY DEF MenuInv, MenuTypes, TurnsTo
<1>2. Housed'
  BY DEF MenuInv, Housed, Found, TurnsTo
<1>3. ASSUME NEW k \in Desks PROVE DeskFits(desk[k])'
  <2>1. PICK f : f = desk'[k]
    OBVIOUS
  <2>2. DeskFits(f)'
    <3>1. CASE k = e
      BY <2>1, <3>1 DEF TurnsTo, MenuInv, MenuTypes
    <3>2. CASE k # e
      <4>1. f = desk[k] /\ DeskFits(f)
        BY <2>1, <3>2 DEF TurnsTo, MenuInv, MenuTypes
      <4>2. f.pc = "fill" /\ f.x \in renamed => f.x \in renamed' \/ f.x \in disturbed'
        BY <3>2, <4>1
      <4> QED BY <4>1, <4>2, DeskStands DEF TurnsTo
    <3> QED BY <3>1, <3>2
  <2> QED BY <2>1, <2>2 DEF DeskFits, SaveFits, PriceFits, WholeRow, Touches, Current, FreeSlugs, Swept, Looks, Own, Joined
<1> QED BY <1>1, <1>2, <1>3 DEF MenuInv

\* What a lookup shows, and what the log says, when a desk that was not saving goes on.
LEMMA ShowsStand ==
  ASSUME MenuInv, disturbed \subseteq disturbed', NEW e \in Desks, NEW d \in DeskRow, TurnsTo(e, d), shown' = shown,
         desk[e].pc # "drop", \A l \in Lookups : l \in renamed => l \in renamed' \/ shown[l] = {}
  PROVE  \A l \in Lookups : Shows(l)'
<1> SUFFICES ASSUME NEW l \in Lookups PROVE Shows(l)'
  OBVIOUS
<1>1. Current(l)' = Current(l) /\ (Swept(l) => Swept(l)')
  BY DEF TurnsTo, Current, Joined, IsLive, Swept, WentWith
<1>2. In(l, {"drop"}) => In(l, {"drop"})'
  <2> SUFFICES ASSUME NEW k \in Editors, l \in Touches(desk[k]), desk[k].pc = "drop" PROVE In(l, {"drop"})'
    BY DEF In
  <2>1. desk'[k] = desk[k]
    BY DEF TurnsTo, MenuInv, MenuTypes, Desks
  <2>2. l \in Touches(desk[k])'
    BY <2>1 DEF Touches
  <2> QED BY <2>1, <2>2 DEF In
<1>3. Shows(l)
  BY DEF MenuInv
<1> QED BY <1>1, <1>2, <1>3 DEF Shows, Looks, Own

LEMMA AuditStands ==
  ASSUME MenuInv, disturbed \subseteq disturbed', NEW e \in Desks, NEW d \in DeskRow, TurnsTo(e, d), audited' = audited,
         desk[e].op = "price" /\ desk[e].pc \in {"drop", "note"} =>
           \/ desk[e].x \in disturbed'
           \/ d.op = "price" /\ d.x = desk[e].x /\ d.pc \in {"drop", "note"}
  PROVE  AuditTells'
<1> SUFFICES ASSUME NEW p \in MenuProducts, catalog[p].price # audited[p], p \notin disturbed'
             PROVE  Noting(p)'
  BY DEF AuditTells, TurnsTo
<1>1. PICK k \in Editors : desk[k].op = "price" /\ desk[k].x = p /\ desk[k].pc \in {"drop", "note"}
  BY DEF MenuInv, AuditTells, Noting
<1>2. k \in Desks
  BY DEF Desks
<1>3. CASE k = e
  BY <1>1, <1>3 DEF TurnsTo, MenuInv, MenuTypes, Noting
<1>4. CASE k # e
  BY <1>1, <1>2, <1>4 DEF TurnsTo, MenuInv, MenuTypes, Noting
<1> QED BY <1>3, <1>4

LEMMA RefusalsStand ==
  ASSUME MenuInv, disturbed \subseteq disturbed', refused' = refused
  PROVE  ChecksSuffice'
BY DEF MenuInv, ChecksSuffice

LEMMA MenuBegins == MenuInit => MenuInv
<1> SUFFICES ASSUME MenuInit PROVE MenuInv
  OBVIOUS
<1>1. catalog \in [MenuRows -> MenuRow]
  <2>1. CASE catalog = [x \in MenuRows |-> NoMenuRow]
    BY <2>1, BlankRow
  <2>2. CASE catalog = FirstMenu
    <3>1. PICK c : c = CHOOSE k \in MenuCategories : TRUE
      OBVIOUS
    <3>2. PICK s : s = CHOOSE k \in Slugs : TRUE
      OBVIOUS
    <3>3. PICK q : q = CHOOSE k \in MenuPrices : TRUE
      OBVIOUS
    <3>4. c \in MenuCategories /\ s \in Slugs /\ q \in MenuPrices
      BY <3>1, <3>2, <3>3, GivenMenu
    <3>5. FirstMenu = [x \in MenuRows |->
            IF x \in MenuProducts THEN [[NoMenuRow EXCEPT !.is = "live"] EXCEPT !.in = {c}, !.price = q]
            ELSE [[NoMenuRow EXCEPT !.is = "live"] EXCEPT !.is = IF x = c THEN "live" ELSE "dead", !.slug = s]]
      BY <3>1, <3>2, <3>3 DEF FirstMenu
    <3>6. [[NoMenuRow EXCEPT !.is = "live"] EXCEPT !.in = {c}, !.price = q] \in MenuRow
      BY <3>4, BlankRow DEF MenuRow
    <3>7. \A b \in {"live", "dead"} : [[NoMenuRow EXCEPT !.is = "live"] EXCEPT !.is = b, !.slug = s] \in MenuRow
      BY <3>4, BlankRow DEF MenuRow
    <3> QED BY <2>2, <3>5, <3>6, <3>7
  <2> QED BY <2>1, <2>2 DEF MenuInit
<1>2. \A l \in Lookups : shown[l] = {}
  BY DEF MenuInit
<1>3. \A e \in Desks : desk[e] = Free /\ Touches(desk[e]) = {}
  BY BlankRow, TouchesIs DEF MenuInit
<1>4. MenuTypes
  <2>1. shown \in [Lookups -> SUBSET (MenuRow \cup SUBSET MenuCategories)]
    BY DEF MenuInit
  <2>2. desk \in [Desks -> DeskRow]
    BY BlankRow DEF MenuInit
  <2>3. audited \in [MenuProducts -> MenuPrices \cup {0}]
    <3>1. \A p \in MenuProducts : catalog[p] \in MenuRow
      BY <1>1 DEF MenuRows
    <3> QED BY <3>1 DEF MenuInit, MenuRow
  <2> QED BY <1>1, <2>1, <2>2, <2>3 DEF MenuTypes
<1>5. DesksApart /\ \A l \in Lookups : Shows(l)
  BY <1>2, <1>3 DEF DesksApart, Shows
<1>6. AuditTells /\ ChecksSuffice
  BY DEF MenuInit, AuditTells, ChecksSuffice
<1>7. Housed
  <2>1. \A c \in MenuCategories : catalog[c].is # "gone" /\ catalog[c].in = {}
    <3>1. CASE catalog = [x \in MenuRows |-> NoMenuRow]
      BY <3>1, BlankRow DEF MenuRows
    <3>2. CASE catalog = FirstMenu
      <4> SUFFICES ASSUME NEW c \in MenuCategories PROVE catalog[c].is # "gone" /\ catalog[c].in = {}
        OBVIOUS
      <4>1. c \notin MenuProducts /\ c \in MenuRows
        BY GivenMenu DEF MenuRows
      <4>2. PICK b \in {"live", "dead"}, s \in Slugs : catalog[c] = [[NoMenuRow EXCEPT !.is = "live"] EXCEPT !.is = b, !.slug = s]
        BY <3>2, <4>1, GivenMenu DEF FirstMenu
      <4> QED BY <4>2, BlankRow DEF MenuRow
    <3> QED BY <3>1, <3>2 DEF MenuInit
  <2>2. \A p \in MenuProducts : catalog[p].in \subseteq MenuCategories
    BY <1>1 DEF MenuRow, MenuRows
  <2> QED BY <2>1, <2>2 DEF Housed
<1>8. \A e \in Desks : DeskFits(desk[e])
  BY <1>3, BlankRow DEF DeskFits
<1> QED BY <1>4, <1>5, <1>6, <1>7, <1>8 DEF MenuInv

-----------------------------------------------------------------------------
(* Editors read and check.                                                 *)

\* What a request found when it checked.
ChecksOut(op, x, r) ==
  /\ x \in MenuRows /\ r \in MenuRow /\ (x \in MenuCategories => r.in = {})
  /\ IF op = "create" THEN catalog[x].is = "unused" ELSE catalog[x].is # "unused"
  /\ op \in {"create", "update", "restore"} =>
       /\ r.is = "live" /\ \A c \in r.in : catalog[c].is # "gone"
       /\ op # "create" => r.price = catalog[x].price
       /\ x \in MenuCategories => r.slug \in FreeSlugs(x) /\ (op = "create" \/ Found(x))
  /\ op \in {"delete", "switch"} => r.in = catalog[x].in /\ Found(x)

LEMMA StartKeeps ==
  ASSUME MenuInv, MenuNext, MenuStep, NEW e \in Editors,
         NEW op \in {"create", "update", "delete", "erase", "restore", "switch", "status", "bulk"},
         NEW x, NEW r, Starts(e, op, x, r), ChecksOut(op, x, r)
  PROVE  MenuInv'
<1>1. /\ e \in Desks /\ desk[e] = Free /\ catalog' = catalog /\ shown' = shown /\ audited' = audited /\ refused' = refused
      /\ renamed' = renamed
  BY DEF Starts, Desks
<1>2. PICK d : d = [Free EXCEPT !.pc = "save", !.op = op, !.x = x, !.row = r]
  OBVIOUS
<1>3. /\ d \in DeskRow /\ d.pc = "save" /\ d.op = op /\ d.x = x /\ d.row = r
  BY <1>2, BlankRow DEF DeskRow, MenuOps, ChecksOut
<1>4. TurnsTo(e, d)
  BY <1>1, <1>2 DEF Starts, TurnsTo
<1>5. desk' \in [Desks -> DeskRow]
  BY <1>3, <1>4 DEF TurnsTo, MenuInv, MenuTypes
<1>6. disturbed \subseteq disturbed' /\ DesksApart'
  BY <1>5, DisturbedAfter
<1>7. SaveFits(d)
  BY <1>3 DEF SaveFits, ChecksOut, WholeRow
<1>8. DeskFits(d)
  BY <1>3, <1>7 DEF DeskFits, ChecksOut
<1>9. DeskFits(d)'
  BY <1>1, <1>6, <1>8, DeskStands
<1>10. (\A l \in Lookups : Shows(l)') /\ AuditTells' /\ ChecksSuffice'
  BY <1>1, <1>3, <1>4, <1>6, BlankRow, ShowsStand, AuditStands, RefusalsStand
<1>11. shown' \in [Lookups -> SUBSET (MenuRow \cup SUBSET MenuCategories)]
  BY <1>1 DEF MenuInv, MenuTypes
<1> QED BY <1>1, <1>3, <1>4, <1>6, <1>9, <1>10, <1>11, UnsavedKeeps

LEMMA MenuRowIs ==
  ASSUME MenuInv
  PROVE  /\ \A x \in MenuRows : catalog[x] \in MenuRow /\ catalog[x].in \subseteq MenuCategories
         /\ MenuCategories \subseteq MenuRows /\ MenuProducts \subseteq MenuRows
         /\ \A c \in MenuCategories : c \notin MenuProducts
BY GivenMenu DEF MenuInv, MenuTypes, MenuRow, MenuRows

LEMMA CategoryEditKeeps ==
  ASSUME MenuInv, MenuNext, MenuStep, NEW e \in Editors, NEW c \in MenuCategories, NEW s \in Slugs, NEW on \in BOOLEAN,
         \/ CreateMenuCategory(e, c, s) \/ RestoreMenuCategory(e, c, s) \/ UpdateMenuCategory(e, c, s, on)
         \/ SetCategoryStatus(e, c, on) \/ DeleteMenuCategory(e, c) \/ EraseMenuCategory(e, c)
         \/ ToggleMenuCategory(e, c)
  PROVE  MenuInv'
<1>1. /\ c \in MenuRows /\ catalog[c] \in MenuRow /\ catalog[c].in = {} /\ c \notin MenuProducts
      /\ catalog[c].on \in BOOLEAN
  BY MenuRowIs DEF MenuInv, Housed, MenuRow
<1>2. CASE CreateMenuCategory(e, c, s)
  <2>1. PICK r : r = [NoMenuRow EXCEPT !.is = "live", !.slug = s]
    OBVIOUS
  <2>2. r \in MenuRow /\ r.is = "live" /\ r.slug = s /\ r.in = {}
    BY <2>1, BlankRow DEF MenuRow
  <2>3. ChecksOut("create", c, r)
    BY <1>1, <1>2, <2>2, BlankRow DEF ChecksOut, CreateMenuCategory
  <2> QED BY <1>2, <2>1, <2>3, StartKeeps DEF CreateMenuCategory
<1>3. CASE RestoreMenuCategory(e, c, s)
  <2>1. PICK r : r = [catalog[c] EXCEPT !.is = "live", !.slug = s]
    OBVIOUS
  <2>2. r \in MenuRow /\ r.is = "live" /\ r.slug = s /\ r.in = {} /\ r.price = catalog[c].price
    BY <1>1, <2>1 DEF MenuRow
  <2>3. ChecksOut("restore", c, r)
    BY <1>1, <1>3, <2>2 DEF ChecksOut, RestoreMenuCategory, Found
  <2> QED BY <1>3, <2>1, <2>3, StartKeeps DEF RestoreMenuCategory
<1>4. CASE UpdateMenuCategory(e, c, s, on)
  <2>1. PICK r : r = [catalog[c] EXCEPT !.slug = s, !.on = on]
    OBVIOUS
  <2>2. r \in MenuRow /\ r.is = catalog[c].is /\ r.slug = s /\ r.in = {} /\ r.price = catalog[c].price
    BY <1>1, <2>1 DEF MenuRow
  <2>3. ChecksOut("update", c, r)
    BY <1>1, <1>4, <2>2 DEF ChecksOut, UpdateMenuCategory, Found, IsLive
  <2> QED BY <1>4, <2>1, <2>3, StartKeeps DEF UpdateMenuCategory
<1>5. CASE SetCategoryStatus(e, c, on)
  <2>1. PICK r : r = [catalog[c] EXCEPT !.on = on]
    OBVIOUS
  <2>2. r \in MenuRow /\ r.in = {}
    BY <1>1, <2>1 DEF MenuRow
  <2>3. ChecksOut("status", c, r)
    BY <1>1, <1>5, <2>2 DEF ChecksOut, SetCategoryStatus, IsLive
  <2> QED BY <1>5, <2>1, <2>3, StartKeeps DEF SetCategoryStatus
<1>6. CASE DeleteMenuCategory(e, c)
  <2>1. ChecksOut("delete", c, catalog[c])
    BY <1>1, <1>6 DEF ChecksOut, DeleteMenuCategory, IsLive, Found
  <2> QED BY <1>6, <2>1, StartKeeps DEF DeleteMenuCategory
<1>7. CASE EraseMenuCategory(e, c)
  <2>1. ChecksOut("erase", c, catalog[c])
    BY <1>1, <1>7 DEF ChecksOut, EraseMenuCategory, Found
  <2> QED BY <1>7, <2>1, StartKeeps DEF EraseMenuCategory
<1>8. CASE ToggleMenuCategory(e, c)
  <2>1. PICK r : r = [catalog[c] EXCEPT !.on = ~@]
    OBVIOUS
  <2>2. r \in MenuRow /\ r.in = {}
    BY <1>1, <2>1 DEF MenuRow
  <2>3. ChecksOut("switch", c, r)
    BY <1>1, <1>8, <2>2 DEF ChecksOut, ToggleMenuCategory, IsLive, Found
  <2> QED BY <1>8, <2>1, <2>3, StartKeeps DEF ToggleMenuCategory
<1> QED BY <1>2, <1>3, <1>4, <1>5, <1>6, <1>7, <1>8

LEMMA ProductEditKeeps ==
  ASSUME MenuInv, MenuNext, MenuStep, NEW e \in Editors, NEW p \in MenuProducts, NEW c \in MenuCategories,
         NEW price \in MenuPrices,
         \/ CreateProduct(e, p, c, price) \/ MoveProduct(e, p, c) \/ RestoreProduct(e, p)
         \/ DeleteProduct(e, p) \/ EraseProduct(e, p)
  PROVE  MenuInv'
<1>1. p \in MenuRows /\ catalog[p] \in MenuRow /\ p \notin MenuCategories /\ catalog[p].in \subseteq MenuCategories
  BY MenuRowIs
<1>2. CASE CreateProduct(e, p, c, price)
  <2>1. PICK r : r = [NoMenuRow EXCEPT !.is = "live", !.in = {c}, !.price = price]
    OBVIOUS
  <2>2. r \in MenuRow /\ r.is = "live" /\ r.in = {c}
    BY <2>1, BlankRow DEF MenuRow
  <2>3. ChecksOut("create", p, r)
    BY <1>1, <1>2, <2>2, BlankRow DEF ChecksOut, CreateProduct, IsLive
  <2> QED BY <1>2, <2>1, <2>3, StartKeeps DEF CreateProduct
<1>3. CASE MoveProduct(e, p, c)
  <2>1. PICK r : r = [catalog[p] EXCEPT !.in = {c}]
    OBVIOUS
  <2>2. r \in MenuRow /\ r.is = catalog[p].is /\ r.in = {c} /\ r.price = catalog[p].price
    BY <1>1, <2>1 DEF MenuRow
  <2>3. ChecksOut("update", p, r)
    BY <1>1, <1>3, <2>2 DEF ChecksOut, MoveProduct, IsLive
  <2> QED BY <1>3, <2>1, <2>3, StartKeeps DEF MoveProduct
<1>4. CASE RestoreProduct(e, p)
  <2>1. PICK r : r = [catalog[p] EXCEPT !.is = "live"]
    OBVIOUS
  <2>2. r \in MenuRow /\ r.is = "live" /\ r.in = catalog[p].in /\ r.price = catalog[p].price
    BY <1>1, <2>1 DEF MenuRow
  <2>3. \A k \in catalog[p].in : catalog[k].is # "gone"
    BY <1>4 DEF RestoreProduct, Found, MenuInv, Housed
  <2>4. ChecksOut("restore", p, r)
    BY <1>1, <1>4, <2>2, <2>3 DEF ChecksOut, RestoreProduct
  <2> QED BY <1>4, <2>1, <2>4, StartKeeps DEF RestoreProduct
<1>5. CASE DeleteProduct(e, p)
  <2>1. ChecksOut("delete", p, catalog[p])
    BY <1>1, <1>5 DEF ChecksOut, DeleteProduct, IsLive, Found
  <2> QED BY <1>5, <2>1, StartKeeps DEF DeleteProduct
<1>6. CASE EraseProduct(e, p)
  <2>1. ChecksOut("erase", p, catalog[p])
    BY <1>1, <1>6 DEF ChecksOut, EraseProduct, Found
  <2> QED BY <1>6, <2>1, StartKeeps DEF EraseProduct
<1> QED BY <1>2, <1>3, <1>4, <1>5, <1>6

LEMMA BulkKeeps ==
  ASSUME MenuInv, MenuNext, MenuStep, NEW e \in Editors, NEW x \in MenuRows, BulkDelete(e, x)
  PROVE  MenuInv'
<1>1. catalog[x] \in MenuRow /\ (x \in MenuCategories => catalog[x].in = {})
  BY MenuRowIs DEF MenuInv, Housed
<1>2. ChecksOut("bulk", x, catalog[x])
  BY <1>1 DEF ChecksOut, BulkDelete, IsLive
<1> QED BY <1>2, StartKeeps DEF BulkDelete

-----------------------------------------------------------------------------
(* Prices, lookups, and the end of a request.                              *)

\* Two requests that have to do with one row.
LEMMA MetAt ==
  ASSUME MenuInv, NEW e \in Desks, NEW f \in Desks, e # f,
         NEW x \in Touches(desk[e]) \cap Touches(desk[f])
  PROVE  x \in disturbed
BY DEF MenuInv, DesksApart

LEMMA OpenPriceKeeps ==
  ASSUME MenuInv, MenuNext, MenuStep, NEW e \in Editors, NEW p \in MenuProducts, NEW price \in MenuPrices,
         OpenPrice(e, p, price)
  PROVE  MenuInv'
<1>1. /\ e \in Desks /\ desk[e] = Free /\ catalog' = catalog /\ shown' = shown /\ audited' = audited
      /\ refused' = refused /\ renamed' = renamed
  BY DEF OpenPrice, Desks
<1>2. PICK d : d = [Free EXCEPT !.pc = "read", !.op = "price", !.x = p, !.row.price = price, !.old = catalog[p].price]
  OBVIOUS
<1>3. PICK r : r = [NoMenuRow EXCEPT !.price = price]
  OBVIOUS
<1>4. r \in MenuRow
  BY <1>3, BlankRow DEF MenuRow
<1>5. d = [Free EXCEPT !.pc = "read", !.op = "price", !.x = p, !.row = r, !.old = catalog[p].price]
  BY <1>2, <1>3, BlankRow DEF DeskRow, MenuRow
<1>6. p \in MenuRows /\ catalog[p].price \in MenuPrices \cup {0} /\ p \notin MenuCategories
  BY MenuRowIs DEF MenuRow
<1>7. d \in DeskRow /\ d.pc = "read" /\ d.op = "price" /\ d.x = p /\ d.row = r /\ d.old = catalog[p].price
  BY <1>4, <1>5, <1>6, BlankRow DEF DeskRow, MenuOps
<1>8. TurnsTo(e, d)
  BY <1>1, <1>2 DEF OpenPrice, TurnsTo
<1>9. desk' \in [Desks -> DeskRow] /\ desk'[e] = d
  BY <1>1, <1>7, <1>8 DEF TurnsTo, MenuInv, MenuTypes
<1>10. disturbed \subseteq disturbed' /\ DesksApart'
  BY <1>9, DisturbedAfter
<1>11. catalog[p].price = audited[p] \/ p \in disturbed'
  <2> SUFFICES ASSUME Noting(p) PROVE p \in disturbed'
    BY <1>10 DEF MenuInv, AuditTells
  <2>1. PICK k \in Editors : desk[k].op = "price" /\ desk[k].x = p /\ desk[k].pc \in {"drop", "note"}
    BY DEF Noting
  <2>2. k \in Desks /\ k # e /\ desk'[k] = desk[k]
    BY <1>1, <1>8, <2>1, BlankRow DEF Desks, TurnsTo, MenuInv, MenuTypes
  <2>3. p \in Touches(desk'[k]) /\ p \in Touches(desk'[e])
    BY <1>7, <1>9, <2>1, <2>2, TouchesIs
  <2>4. \A k1 \in Desks : Touches(desk[k1])' = Touches(desk'[k1])
    BY DEF Touches
  <2> QED BY <1>1, <1>10, <2>2, <2>3, <2>4 DEF DesksApart
<1>12. DeskFits(d)'
  <2>1. PriceFits(d)'
    BY <1>1, <1>7, <1>11 DEF PriceFits
  <2> QED BY <1>7, <2>1 DEF DeskFits
<1>13. (\A l \in Lookups : Shows(l)') /\ AuditTells' /\ ChecksSuffice'
  BY <1>1, <1>7, <1>8, <1>10, BlankRow, ShowsStand, AuditStands, RefusalsStand
<1>14. shown' \in [Lookups -> SUBSET (MenuRow \cup SUBSET MenuCategories)]
  BY <1>1 DEF MenuInv, MenuTypes
<1> QED BY <1>1, <1>7, <1>8, <1>10, <1>12, <1>13, <1>14, UnsavedKeeps

LEMMA PriceProductKeeps ==
  ASSUME MenuInv, MenuNext, MenuStep, NEW e \in Editors, PriceProduct(e)
  PROVE  MenuInv'
<1>1. /\ e \in Desks /\ desk[e].pc = "read" /\ catalog' = catalog /\ shown' = shown /\ audited' = audited
      /\ refused' = refused /\ renamed' = renamed
  BY DEF PriceProduct, Desks
<1>2. PICK b : b = desk[e]
  OBVIOUS
<1>3. b \in DeskRow /\ DeskFits(b) /\ b.op = "price" /\ PriceFits(b) /\ b.x \in MenuProducts /\ b.row \in MenuRow
  <2>1. b \in DeskRow /\ DeskFits(b)
    BY <1>1, <1>2 DEF MenuInv, MenuTypes
  <2> QED BY <1>1, <1>2, <2>1 DEF DeskFits, PriceFits, DeskRow
<1>4. PICK r : r = [catalog[b.x] EXCEPT !.price = b.row.price]
  OBVIOUS
<1>5. /\ b.x \in MenuRows /\ b.x \notin MenuCategories /\ catalog[b.x] \in MenuRow
      /\ r \in MenuRow /\ r.is = catalog[b.x].is /\ r.in = catalog[b.x].in
  BY <1>3, <1>4, MenuRowIs DEF MenuRow
<1>6. PICK d : d = IF ~IsLive(b.x) THEN Free ELSE [b EXCEPT !.pc = "save", !.row = r]
  OBVIOUS
<1>7. TurnsTo(e, d)
  BY <1>1, <1>2, <1>4, <1>6 DEF PriceProduct, TurnsTo
<1>8. d \in DeskRow /\ (d.op = "price" \/ d = Free)
  BY <1>3, <1>5, <1>6, BlankRow DEF DeskRow
<1>9. desk' \in [Desks -> DeskRow]
  BY <1>7, <1>8 DEF TurnsTo, MenuInv, MenuTypes
<1>10. disturbed \subseteq disturbed' /\ DesksApart'
  BY <1>9, DisturbedAfter
<1>11. DeskFits(d)
  <2>1. CASE ~IsLive(b.x)
    BY <1>6, <2>1, BlankRow DEF DeskFits
  <2>2. CASE IsLive(b.x)
    <3>1. d.pc = "save" /\ d.op = "price" /\ d.x = b.x /\ d.row = r /\ d.old = b.old
      BY <1>3, <1>6, <2>2 DEF DeskRow
    <3>2. PriceFits(d)
      BY <1>1, <1>2, <1>3, <3>1 DEF PriceFits
    <3>3. \A c \in r.in : catalog[c].is # "gone"
      BY <1>3, <1>5, <2>2 DEF MenuInv, Housed, IsLive, Found
    <3>4. SaveFits(d)
      BY <1>5, <2>2, <3>1, <3>3 DEF SaveFits, WholeRow, IsLive
    <3> QED BY <1>5, <3>1, <3>2, <3>4 DEF DeskFits
  <2> QED BY <2>1, <2>2
<1>12. DeskFits(d)'
  BY <1>1, <1>10, <1>11, DeskStands
<1>13. (\A l \in Lookups : Shows(l)') /\ AuditTells' /\ ChecksSuffice'
  BY <1>1, <1>7, <1>8, <1>10, ShowsStand, AuditStands, RefusalsStand
<1>14. shown' \in [Lookups -> SUBSET (MenuRow \cup SUBSET MenuCategories)]
  BY <1>1 DEF MenuInv, MenuTypes
<1> QED BY <1>1, <1>7, <1>8, <1>10, <1>12, <1>13, <1>14, UnsavedKeeps

LEMMA LookUpKeeps ==
  ASSUME MenuInv, MenuNext, MenuStep, NEW v \in Viewers, NEW l \in Lookups, LookUp(v, l)
  PROVE  MenuInv'
<1>1. /\ v \in Desks /\ desk[v] = Free /\ catalog' = catalog /\ shown' = shown /\ audited' = audited
      /\ refused' = refused /\ renamed' = renamed \ {l} /\ shown[l] = {}
  BY DEF LookUp, Desks
<1>2. PICK d : d = [Free EXCEPT !.pc = "fill", !.x = l, !.found = Current(l)]
  OBVIOUS
<1>3. Current(l) \subseteq MenuRow \cup SUBSET MenuCategories /\ l \in MenuRows \cup {ActiveList}
  <2>1. l \in MenuRows \cup {ActiveList}
    BY DEF Lookups, MenuRows
  <2>2. \A p \in MenuProducts : Joined(p) \subseteq MenuRow
    BY MenuRowIs DEF Joined, MenuRow
  <2> QED BY <2>1, <2>2 DEF Current
<1>4. d \in DeskRow /\ d.pc = "fill" /\ d.op = "none" /\ d.x = l /\ d.found = Current(l)
  BY <1>2, <1>3, BlankRow DEF DeskRow
<1>5. TurnsTo(v, d)
  BY <1>1, <1>2 DEF LookUp, TurnsTo
<1>6. desk' \in [Desks -> DeskRow]
  BY <1>4, <1>5 DEF TurnsTo, MenuInv, MenuTypes
<1>7. disturbed \subseteq disturbed' /\ DesksApart'
  BY <1>6, DisturbedAfter
<1>9. DeskFits(d)'
  <2>1. Current(l)' = Current(l)
    BY <1>1 DEF Current, Joined, IsLive
  <2> QED BY <1>4, <2>1 DEF DeskFits, Looks
<1>8. ASSUME NEW k \in Desks, k # v, desk[k].pc = "fill", desk[k].x \in renamed
      PROVE  desk[k].x \in renamed' \/ desk[k].x \in disturbed'
  <2>1. desk'[k] = desk[k] /\ desk'[v] = d
    BY <1>1, <1>4, <1>5, <1>8 DEF TurnsTo, MenuInv, MenuTypes
  <2>2. PICK f : f = desk[k]
    OBVIOUS
  <2>3. f \in DeskRow /\ Touches(f) = {f.x} /\ Touches(d) = {l}
    BY <1>4, <1>8, <2>2, TouchesIs DEF MenuInv, MenuTypes
  <2>4. Touches(desk[k])' = Touches(f) /\ Touches(desk[v])' = Touches(d)
    BY <2>1, <2>2 DEF Touches
  <2>5. f.x = l => l \in disturbed'
    BY <1>1, <1>7, <1>8, <2>3, <2>4 DEF DesksApart
  <2> QED BY <1>1, <1>8, <2>2, <2>5
<1>10. (\A k \in Lookups : Shows(k)') /\ AuditTells' /\ ChecksSuffice'
  BY <1>1, <1>4, <1>5, <1>7, BlankRow, ShowsStand, AuditStands, RefusalsStand
<1>11. shown' \in [Lookups -> SUBSET (MenuRow \cup SUBSET MenuCategories)]
  BY <1>1 DEF MenuInv, MenuTypes
<1> QED BY <1>1, <1>4, <1>5, <1>7, <1>8, <1>9, <1>10, <1>11, UnsavedKeeps

\* A request that is through.
LEMMA FreeFits == DeskFits(Free)'
BY BlankRow DEF DeskFits, Free

LEMMA PutFoundKeeps ==
  ASSUME MenuInv, MenuNext, MenuStep, NEW v \in Viewers, PutFound(v)
  PROVE  MenuInv'
<1>1. /\ v \in Desks /\ desk[v].pc = "fill" /\ catalog' = catalog /\ audited' = audited /\ refused' = refused
      /\ shown' = [shown EXCEPT ![desk[v].x] = desk[v].found] /\ TurnsTo(v, Free) /\ renamed' = renamed
  BY DEF PutFound, Desks, TurnsTo
<1>2. PICK b : b = desk[v]
  OBVIOUS
<1>3. /\ b \in DeskRow /\ b.op = "none" /\ b.x \in Lookups
      /\ Looks(b.x, b.found) \/ b.x \in disturbed \/ Swept(b.x)
  BY <1>1, <1>2 DEF MenuInv, MenuTypes, DeskFits
<1>4. desk' \in [Desks -> DeskRow]
  BY <1>1, BlankRow DEF TurnsTo, MenuInv, MenuTypes
<1>5. disturbed \subseteq disturbed' /\ DesksApart'
  BY <1>4, DisturbedAfter
<1>6. shown' \in [Lookups -> SUBSET (MenuRow \cup SUBSET MenuCategories)]
  BY <1>1, <1>2, <1>3 DEF MenuInv, MenuTypes, DeskRow
<1>7. ASSUME NEW l \in Lookups PROVE Shows(l)'
  <2>1. Current(l)' = Current(l) /\ (Swept(l) => Swept(l)')
    BY <1>1, <1>5 DEF Current, Joined, IsLive, Swept, WentWith
  <2>2. CASE l = b.x
    <3>1. shown'[l] = b.found
      BY <1>1, <1>2, <2>2 DEF MenuInv, MenuTypes
    <3>2. Looks(b.x, b.found) => Looks(l, shown[l])'
      BY <1>1, <2>1, <2>2, <3>1 DEF Looks, Own
    <3> QED BY <1>3, <1>5, <2>1, <2>2, <3>2 DEF Shows
  <2>3. CASE l # b.x
    <3>1. shown'[l] = shown[l]
      BY <1>1, <1>2, <2>3 DEF MenuInv, MenuTypes
    <3>2. In(l, {"drop"}) => In(l, {"drop"})'
      <4> SUFFICES ASSUME NEW k \in Editors, l \in Touches(desk[k]), desk[k].pc = "drop" PROVE In(l, {"drop"})'
        BY DEF In
      <4>1. desk'[k] = desk[k]
        BY <1>1 DEF TurnsTo, MenuInv, MenuTypes, Desks
      <4>2. l \in Touches(desk[k])'
        BY <4>1 DEF Touches
      <4> QED BY <4>1, <4>2 DEF In
    <3> QED BY <1>1, <1>5, <2>1, <3>1, <3>2 DEF MenuInv, Shows, Looks, Own
  <2> QED BY <2>2, <2>3
<1>8. AuditTells' /\ ChecksSuffice'
  BY <1>1, <1>2, <1>3, <1>5, BlankRow, AuditStands, RefusalsStand
<1> QED BY <1>1, <1>5, <1>6, <1>7, <1>8, BlankRow, FreeFits, UnsavedKeeps

LEMMA DropCacheKeeps ==
  ASSUME MenuInv, MenuNext, MenuStep, NEW e \in Editors, DropCache(e)
  PROVE  MenuInv'
<1>1. /\ e \in Desks /\ desk[e].pc = "drop" /\ catalog' = catalog /\ audited' = audited /\ refused' = refused
      /\ renamed' = renamed
  BY DEF DropCache, AfterDrop, Desks
<1>2. PICK b : b = desk[e]
  OBVIOUS
<1>3. /\ b \in DeskRow /\ DeskFits(b) /\ b.pc = "drop" /\ b.x \in MenuRows /\ (b.x \in MenuCategories => b.row.in = {})
  BY <1>1, <1>2 DEF MenuInv, MenuTypes, DeskFits
<1>4. PICK d : d = IF b.op = "price" THEN [b EXCEPT !.pc = "note"] ELSE Free
  OBVIOUS
<1>5. /\ d \in DeskRow /\ (b.op # "price" => d = Free)
      /\ (b.op = "price" => d.pc = "note" /\ d.op = "price" /\ d.x = b.x /\ d.old = b.old /\ d.row = b.row)
  BY <1>3, <1>4, BlankRow DEF DeskRow
<1>6. TurnsTo(e, d)
  BY <1>1, <1>2, <1>4 DEF DropCache, AfterDrop, TurnsTo
<1>7. desk' \in [Desks -> DeskRow]
  BY <1>5, <1>6 DEF TurnsTo, MenuInv, MenuTypes
<1>8. disturbed \subseteq disturbed' /\ DesksApart'
  BY <1>7, DisturbedAfter
<1>9. DeskFits(d)
  <2>1. CASE b.op # "price"
    BY <1>5, <2>1, BlankRow DEF DeskFits
  <2>2. CASE b.op = "price"
    <3>1. PriceFits(d)
      BY <1>3, <1>5, <2>2 DEF DeskFits, PriceFits
    <3> QED BY <1>5, <2>2, <3>1 DEF DeskFits
  <2> QED BY <2>1, <2>2
<1>10. DeskFits(d)'
  BY <1>1, <1>8, <1>9, DeskStands
<1>11. PICK stale : stale = IF b.x \in MenuCategories THEN {ActiveList} ELSE MenuProducts
  OBVIOUS
<1>12. shown' = [l \in Lookups |-> IF l \in stale THEN {} ELSE shown[l]]
  BY <1>2, <1>11 DEF DropCache
<1>13. shown' \in [Lookups -> SUBSET (MenuRow \cup SUBSET MenuCategories)]
  BY <1>12 DEF MenuInv, MenuTypes
<1>14. ASSUME NEW l \in Lookups PROVE Shows(l)'
  <2>1. CASE l \in stale
    BY <1>12, <2>1 DEF Shows
  <2>2. CASE l \notin stale
    <3>1. Current(l)' = Current(l) /\ (Swept(l) => Swept(l)') /\ shown'[l] = shown[l]
      BY <1>1, <1>8, <1>12, <2>2 DEF Current, Joined, IsLive, Swept, WentWith
    <3>2. l \notin Touches(b)
      <4>1. Touches(b) = {b.x} \cup b.row.in \cup (IF b.x \in MenuCategories THEN {ActiveList} ELSE {})
        BY <1>3, TouchesIs
      <4>2. CASE b.x \in MenuCategories
        BY <1>3, <1>11, <2>2, <4>1, <4>2, MenuRowIs DEF Lookups
      <4>3. CASE b.x \notin MenuCategories
        <5>1. b.x \in MenuProducts /\ l = ActiveList
          BY <1>3, <1>11, <2>2, <4>3 DEF Lookups, MenuRows
        <5>2. b.row.in \subseteq MenuCategories
          BY <1>3 DEF DeskRow, MenuRow
        <5> QED BY <4>1, <4>3, <5>1, <5>2, GivenMenu DEF MenuRows
      <4> QED BY <4>2, <4>3
    <3>3. In(l, {"drop"}) => In(l, {"drop"})'
      <4> SUFFICES ASSUME NEW k \in Editors, l \in Touches(desk[k]), desk[k].pc = "drop" PROVE In(l, {"drop"})'
        BY DEF In
      <4>1. desk'[k] = desk[k]
        BY <1>2, <1>6, <3>2 DEF TurnsTo, MenuInv, MenuTypes, Desks
      <4>2. l \in Touches(desk[k])'
        BY <4>1 DEF Touches
      <4> QED BY <4>1, <4>2 DEF In
    <3> QED BY <1>1, <1>8, <3>1, <3>3 DEF MenuInv, Shows, Looks, Own
  <2> QED BY <2>1, <2>2
<1>15. AuditTells' /\ ChecksSuffice'
  BY <1>1, <1>2, <1>5, <1>6, <1>8, AuditStands, RefusalsStand
<1> QED BY <1>1, <1>5, <1>6, <1>8, <1>10, <1>13, <1>14, <1>15, UnsavedKeeps

LEMMA RequestDiesKeeps ==
  ASSUME MenuInv, NEW e \in Editors, RequestDies(e), disturbed' = disturbed \cup Touches(desk[e])
  PROVE  MenuInv'
<1>1. /\ e \in Desks /\ desk[e].pc \in {"drop", "note"} /\ catalog' = catalog /\ audited' = audited
      /\ refused' = refused /\ shown' = shown /\ TurnsTo(e, Free) /\ renamed' = renamed
  BY DEF RequestDies, Desks, TurnsTo
<1>2. desk[e] \in DeskRow /\ desk[e].x \in Touches(desk[e])
  BY <1>1, TouchesIs DEF MenuInv, MenuTypes
<1>3. disturbed \subseteq disturbed' /\ desk[e].x \in disturbed' /\ Touches(desk[e]) \subseteq disturbed'
  BY <1>2
<1>4. DesksApart'
  <2>1. ASSUME NEW k \in Desks, NEW j \in Desks, k # j
        PROVE  Touches(desk'[k]) \cap Touches(desk'[j]) \subseteq disturbed'
    BY <1>1, <1>3, <2>1, BlankRow, TouchesIs DEF TurnsTo, MenuInv, MenuTypes, DesksApart
  <2>2. \A k \in Desks : Touches(desk[k])' = Touches(desk'[k])
    BY DEF Touches
  <2> QED BY <2>1, <2>2 DEF DesksApart
<1>5. ASSUME NEW l \in Lookups PROVE Shows(l)'
  <2>1. Current(l)' = Current(l) /\ (Swept(l) => Swept(l)')
    BY <1>1, <1>3 DEF Current, Joined, IsLive, Swept, WentWith
  <2>2. In(l, {"drop"}) => In(l, {"drop"})' \/ l \in disturbed'
    <3> SUFFICES ASSUME NEW k \in Editors, l \in Touches(desk[k]), desk[k].pc = "drop", k # e PROVE In(l, {"drop"})'
      BY <1>3 DEF In
    <3>1. desk'[k] = desk[k]
      BY <1>1 DEF TurnsTo, MenuInv, MenuTypes, Desks
    <3>2. l \in Touches(desk[k])'
      BY <3>1 DEF Touches
    <3> QED BY <3>1, <3>2 DEF In
  <2> QED BY <1>1, <1>3, <2>1, <2>2 DEF MenuInv, Shows, Looks, Own
<1>6. AuditTells' /\ ChecksSuffice'
  BY <1>1, <1>3, BlankRow, AuditStands, RefusalsStand
<1>7. shown' \in [Lookups -> SUBSET (MenuRow \cup SUBSET MenuCategories)]
  BY <1>1 DEF MenuInv, MenuTypes
<1> QED BY <1>1, <1>3, <1>4, <1>5, <1>6, <1>7, BlankRow, FreeFits, UnsavedKeeps

LEMMA NotePriceKeeps ==
  ASSUME MenuInv, MenuNext, MenuStep, NEW e \in Editors, NotePrice(e)
  PROVE  MenuInv'
<1>1. /\ e \in Desks /\ desk[e].pc = "note" /\ catalog' = catalog /\ refused' = refused /\ shown' = shown
      /\ TurnsTo(e, Free) /\ renamed' = renamed
  BY DEF NotePrice, Desks, TurnsTo
<1>2. PICK d : d = desk[e]
  OBVIOUS
<1>3. /\ d \in DeskRow /\ DeskFits(d) /\ d.pc = "note" /\ d.op = "price" /\ PriceFits(d) /\ d.x \in MenuProducts
      /\ d.row \in MenuRow
  <2>1. d \in DeskRow /\ DeskFits(d) /\ d.pc = "note"
    BY <1>1, <1>2 DEF MenuInv, MenuTypes
  <2> QED BY <2>1 DEF DeskFits, PriceFits, DeskRow
<1>4. PICK q : q = IF d.old = d.row.price THEN audited[d.x] ELSE d.row.price
  OBVIOUS
<1>5. audited' = [audited EXCEPT ![d.x] = q]
  BY <1>2, <1>4 DEF NotePrice
<1>6. q \in MenuPrices \cup {0}
  BY <1>3, <1>4 DEF MenuInv, MenuTypes, MenuRow
<1>7. desk' \in [Desks -> DeskRow]
  BY <1>1, BlankRow DEF TurnsTo, MenuInv, MenuTypes
<1>8. disturbed \subseteq disturbed' /\ DesksApart'
  BY <1>7, DisturbedAfter
<1>9. MenuTypes'
  BY <1>1, <1>5, <1>6, <1>7 DEF MenuInv, MenuTypes
<1>10. \A l \in Lookups : Shows(l)'
  BY <1>1, <1>8, BlankRow, ShowsStand
<1>11. AuditTells'
  <2> SUFFICES ASSUME NEW p \in MenuProducts, p \notin disturbed' PROVE catalog[p].price = audited'[p] \/ Noting(p)'
    BY <1>1 DEF AuditTells
  <2>1. CASE p = d.x
    BY <1>3, <1>4, <1>5, <1>8, <2>1 DEF PriceFits, MenuInv, MenuTypes
  <2>2. CASE p # d.x
    <3>1. audited'[p] = audited[p]
      BY <1>5, <2>2 DEF MenuInv, MenuTypes
    <3>2. Noting(p) => Noting(p)'
      BY <1>1, <1>2, <2>2 DEF Noting, TurnsTo, MenuInv, MenuTypes, Desks
    <3> QED BY <1>8, <3>1, <3>2 DEF MenuInv, AuditTells
  <2> QED BY <2>1, <2>2
<1>12. Housed' /\ ChecksSuffice'
  BY <1>1, <1>8, RefusalsStand DEF MenuInv, Housed, Found
<1>13. ASSUME NEW k \in Desks PROVE DeskFits(desk[k])'
  <2>1. PICK f : f = desk'[k]
    OBVIOUS
  <2>2. DeskFits(f)'
    <3>1. CASE k = e
      BY <1>1, <2>1, <3>1, FreeFits DEF TurnsTo, MenuInv, MenuTypes
    <3>2. CASE k # e
      <4>1. f = desk[k] /\ DeskFits(f) /\ f \in DeskRow
        BY <1>1, <2>1, <3>2 DEF TurnsTo, MenuInv, MenuTypes
      <4>2. f.op = "price" => audited'[f.x] = audited[f.x] \/ f.x \in disturbed'
        <5>1. CASE f.op = "price" /\ f.x = d.x
          <6>1. f.pc # "free"
            BY <4>1, <5>1 DEF DeskFits
          <6>2. d.x \in Touches(desk[e]) /\ d.x \in Touches(desk[k])
            BY <1>2, <1>3, <4>1, <5>1, <6>1, TouchesIs
          <6> QED BY <1>1, <1>8, <3>2, <5>1, <6>2, MetAt
        <5>2. CASE f.op = "price" /\ f.x # d.x
          BY <1>5, <4>1, <5>2 DEF DeskFits, PriceFits, MenuInv, MenuTypes
        <5> QED BY <5>1, <5>2
      <4> QED BY <1>1, <1>8, <4>1, <4>2, DeskStands
    <3> QED BY <3>1, <3>2
  <2> QED BY <2>1, <2>2 DEF DeskFits, SaveFits, PriceFits, WholeRow, Touches, Current, FreeSlugs, Swept, Looks, Own, Joined
<1> QED BY <1>8, <1>9, <1>10, <1>11, <1>12, <1>13 DEF MenuInv

-----------------------------------------------------------------------------
(* Saving.                                                                 *)

LEMMA RefusedKeeps ==
  ASSUME MenuInv, MenuNext, MenuStep, NEW e \in Editors, SaveMenuRow(e), Refuses(desk[e])
  PROVE  MenuInv'
<1>1. /\ e \in Desks /\ desk[e].pc = "save" /\ catalog' = catalog /\ audited' = audited /\ shown' = shown
      /\ refused' = refused \cup {Touches(desk[e])} /\ TurnsTo(e, Free) /\ renamed' = renamed
  BY DEF SaveMenuRow, Desks, TurnsTo
<1>2. PICK d : d = desk[e]
  OBVIOUS
<1>3. d \in DeskRow /\ d.pc = "save" /\ SaveFits(d) /\ d.x \in MenuRows
  BY <1>1, <1>2 DEF MenuInv, MenuTypes, DeskFits
<1>4. desk' \in [Desks -> DeskRow]
  BY <1>1, BlankRow DEF TurnsTo, MenuInv, MenuTypes
<1>5. disturbed \subseteq disturbed' /\ DesksApart'
  BY <1>4, DisturbedAfter
<1>6. Touches(d) = {d.x} \cup d.row.in \cup (IF d.x \in MenuCategories THEN {ActiveList} ELSE {})
  BY <1>3, TouchesIs
<1>7. Touches(d) \cap disturbed # {}
  <2>1. CASE WholeRow(d) /\ d.x \in MenuCategories /\ d.row.is = "live" /\ d.row.slug \notin FreeSlugs(d.x)
    BY <1>3, <1>6, <2>1 DEF SaveFits
  <2>2. CASE \E c \in d.row.in : WholeRow(d) /\ catalog[c].is = "gone"
    BY <1>3, <1>6, <2>2 DEF SaveFits
  <2>3. CASE d.op \in {"delete", "switch"} /\ ~Found(d.x)
    BY <1>3, <2>3 DEF SaveFits
  <2> QED BY <1>2, <2>1, <2>2, <2>3 DEF Refuses
<1>8. ChecksSuffice'
  BY <1>1, <1>2, <1>5, <1>7 DEF MenuInv, ChecksSuffice
<1>9. (\A l \in Lookups : Shows(l)') /\ AuditTells'
  BY <1>1, <1>5, BlankRow, ShowsStand, AuditStands
<1>10. shown' \in [Lookups -> SUBSET (MenuRow \cup SUBSET MenuCategories)]
  BY <1>1 DEF MenuInv, MenuTypes
<1> QED BY <1>1, <1>5, <1>8, <1>9, <1>10, BlankRow, FreeFits, UnsavedKeeps

\* What a save that is not refused leaves of the rows.
SavedAs(d) ==
  /\ catalog' \in [MenuRows -> MenuRow]
  /\ \A c \in MenuCategories : c # d.x => catalog'[c] = catalog[c]
  /\ \A p \in MenuProducts : p # d.x =>
       \/ catalog'[p] = catalog[p] /\ ~(d.op = "erase" /\ d.x \in catalog[p].in /\ Found(p))
       \/ /\ d.op = "erase" /\ d.x \in catalog[p].in /\ Found(p)
          /\ catalog'[p].is = "gone" /\ catalog'[p].in = catalog[p].in /\ catalog'[p].price = catalog[p].price
  /\ WholeRow(d) => catalog'[d.x] = d.row
  /\ ~WholeRow(d) =>
       /\ catalog'[d.x].in = catalog[d.x].in /\ catalog'[d.x].slug = catalog[d.x].slug
       /\ catalog'[d.x].price = catalog[d.x].price /\ catalog'[d.x].is # "unused"
       /\ catalog'[d.x].is # "gone" => catalog[d.x].is # "gone"
       /\ d.op = "erase" => catalog'[d.x].is = "gone"
       /\ d.op # "erase" /\ catalog'[d.x].is = "gone" => catalog[d.x].is = "gone"
       /\ catalog'[d.x].is = "live" => catalog[d.x].is = "live"

LEMMA SavedIs ==
  ASSUME MenuInv, NEW e \in Editors, SaveMenuRow(e), ~Refuses(desk[e])
  PROVE  SavedAs(desk[e])
<1>1. PICK d : d = desk[e]
  OBVIOUS
<1>2. d \in DeskRow /\ d.pc = "save" /\ SaveFits(d) /\ d.x \in MenuRows /\ d.row \in MenuRow
  <2>1. d \in DeskRow /\ d.pc = "save" /\ DeskFits(d)
    BY <1>1 DEF SaveMenuRow, Desks, MenuInv, MenuTypes
  <2> QED BY <2>1 DEF DeskFits, SaveFits, DeskRow
<1>3. PICK lost : lost = {p \in MenuProducts : d.op = "erase" /\ d.x \in catalog[p].in}
  OBVIOUS
<1>4. catalog' = [x \in MenuRows |-> CASE x = d.x /\ ~Misses(d) -> SavedRow(d)
                                       [] x \in lost /\ Found(x) -> [catalog[x] EXCEPT !.is = "gone"]
                                       [] OTHER -> catalog[x]]
  BY <1>1, <1>3 DEF SaveMenuRow
<1>5. d.x \notin lost
  BY <1>3, MenuRowIs
<1>6. \A x \in MenuRows : /\ [catalog[x] EXCEPT !.is = "gone"] \in MenuRow
                          /\ [catalog[x] EXCEPT !.is = "gone"].is = "gone"
                          /\ [catalog[x] EXCEPT !.is = "gone"].in = catalog[x].in
                          /\ [catalog[x] EXCEPT !.is = "gone"].price = catalog[x].price
                          /\ [catalog[x] EXCEPT !.is = "gone"].slug = catalog[x].slug
  BY MenuRowIs DEF MenuRow
<1>7. catalog[d.x] \in MenuRow
  BY <1>2, MenuRowIs
<1>8. PICK r : r = IF Misses(d) THEN catalog[d.x] ELSE SavedRow(d)
  OBVIOUS
<1>9. catalog'[d.x] = r
  BY <1>2, <1>4, <1>5, <1>8
<1>10. \A x \in MenuRows : x # d.x =>
         catalog'[x] = IF x \in lost /\ Found(x) THEN [catalog[x] EXCEPT !.is = "gone"] ELSE catalog[x]
  BY <1>4
<1>11. CASE WholeRow(d)
  <2>1. ~Misses(d) /\ SavedRow(d) = d.row
    BY <1>11 DEF WholeRow, Misses, SavedRow
  <2>2. r = d.row
    BY <1>8, <2>1
  <2>3. catalog' \in [MenuRows -> MenuRow]
    BY <1>2, <1>4, <1>6, <1>9, <1>10, <2>2, MenuRowIs
  <2> QED BY <1>1, <1>3, <1>6, <1>9, <1>10, <1>11, <2>2, <2>3, MenuRowIs DEF SavedAs
<1>12. CASE ~WholeRow(d)
  <2>1. catalog[d.x].is # "unused" /\ d.op \in {"delete", "erase", "switch", "status", "bulk"}
    BY <1>2, <1>12 DEF SaveFits, WholeRow, DeskRow, MenuOps
  <2>2. /\ r \in MenuRow /\ r.in = catalog[d.x].in /\ r.slug = catalog[d.x].slug /\ r.price = catalog[d.x].price
        /\ r.is # "unused" /\ (r.is # "gone" => catalog[d.x].is # "gone")
        /\ (d.op = "erase" => r.is = "gone") /\ (d.op # "erase" /\ r.is = "gone" => catalog[d.x].is = "gone")
        /\ (r.is = "live" => catalog[d.x].is = "live")
    <3>1. CASE Misses(d)
      <4>1. r = catalog[d.x]
        BY <1>8, <3>1
      <4>2. d.op = "erase" => catalog[d.x].is = "gone"
        BY <1>7, <2>1, <3>1 DEF Misses, Found, MenuRow
      <4> QED BY <1>7, <2>1, <4>1, <4>2
    <3>2. CASE ~Misses(d) /\ d.op = "erase"
      <4>1. r = [catalog[d.x] EXCEPT !.is = "gone"]
        BY <1>8, <3>2 DEF SavedRow, WholeRow
      <4> QED BY <1>2, <1>6, <2>1, <3>2, <4>1 DEF Misses, Found
    <3>3. CASE ~Misses(d) /\ d.op \in {"delete", "bulk"}
      <4>1. r = [catalog[d.x] EXCEPT !.is = "dead"]
        BY <1>8, <3>3 DEF SavedRow, WholeRow
      <4>2. catalog[d.x].is \in {"live", "dead"}
        BY <1>1, <3>3 DEF Misses, IsLive, Refuses, Found
      <4>3. /\ r \in MenuRow /\ r.in = catalog[d.x].in /\ r.slug = catalog[d.x].slug
            /\ r.price = catalog[d.x].price /\ r.is = "dead"
        BY <1>7, <4>1 DEF MenuRow
      <4> QED BY <3>3, <4>2, <4>3
    <3>4. CASE ~Misses(d) /\ d.op \in {"switch", "status"}
      <4>1. r = [catalog[d.x] EXCEPT !.on = d.row.on] /\ d.row.on \in BOOLEAN
        BY <1>2, <1>8, <3>4 DEF SavedRow, WholeRow, MenuRow
      <4>2. /\ r \in MenuRow /\ r.in = catalog[d.x].in /\ r.slug = catalog[d.x].slug
            /\ r.price = catalog[d.x].price /\ r.is = catalog[d.x].is
        BY <1>7, <4>1 DEF MenuRow
      <4> QED BY <2>1, <3>4, <4>2
    <3> QED BY <2>1, <3>1, <3>2, <3>3, <3>4
  <2>3. catalog' \in [MenuRows -> MenuRow]
    BY <1>2, <1>4, <1>6, <1>9, <1>10, <2>2, MenuRowIs
  <2>4. \A p \in MenuProducts : p # d.x =>
          \/ catalog'[p] = catalog[p] /\ ~(d.op = "erase" /\ d.x \in catalog[p].in /\ Found(p))
          \/ /\ d.op = "erase" /\ d.x \in catalog[p].in /\ Found(p)
             /\ catalog'[p].is = "gone" /\ catalog'[p].in = catalog[p].in /\ catalog'[p].price = catalog[p].price
    BY <1>3, <1>6, <1>10, MenuRowIs
  <2>5. \A c \in MenuCategories : c # d.x => catalog'[c] = catalog[c]
    BY <1>3, <1>10, MenuRowIs
  <2> QED BY <1>1, <1>9, <1>12, <2>2, <2>3, <2>4, <2>5 DEF SavedAs
<1> QED BY <1>11, <1>12

\* A save leaves what a lookup shows of a product it does not write: at most its category is renamed.
Renames ==
  renamed' = renamed \cup {p \in MenuProducts : \E c \in catalog[p].in : catalog'[c].slug # catalog[c].slug}

LEMMA LooksOn ==
  ASSUME MenuInv, Renames, NEW l \in MenuProducts, catalog'[l] = catalog[l], NEW v, Looks(l, v)
  PROVE  Looks(l, v)'
<1>1. l # ActiveList /\ l \in MenuRows
  BY GivenMenu DEF MenuRows
<1>2. PICK q : q = catalog[l]
  OBVIOUS
<1>3. q \in MenuRow /\ catalog'[l] = q
  BY <1>1, <1>2 DEF MenuInv, MenuTypes
<1>4. /\ Current(l) = IF q.is = "live" THEN {[q EXCEPT !.slug = catalog[c].slug] : c \in q.in} ELSE {}
      /\ Current(l)' = IF q.is = "live" THEN {[q EXCEPT !.slug = catalog'[c].slug] : c \in q.in} ELSE {}
  BY <1>1, <1>2, <1>3 DEF Current, Joined, IsLive
<1>5. CASE \A c \in q.in : catalog'[c].slug = catalog[c].slug
  <2>2. {[q EXCEPT !.slug = catalog'[c].slug] : c \in q.in} = {[q EXCEPT !.slug = catalog[c].slug] : c \in q.in}
    BY <1>5
  <2>1. Current(l)' = Current(l)
    BY <1>4, <2>2
  <2> QED BY <2>1 DEF Looks, Own, Renames
<1>6. CASE \E c \in q.in : catalog'[c].slug # catalog[c].slug
  <2>1. l \in renamed'
    BY <1>2, <1>6 DEF Renames
  <2>2. PICK bare : bare = [q EXCEPT !.slug = 0]
    OBVIOUS
  <2>3. \A n : [[q EXCEPT !.slug = n] EXCEPT !.slug = 0] = bare
    BY <1>3, <2>2 DEF MenuRow
  <2>4. \A S : S # {} /\ (\A x \in S : [x EXCEPT !.slug = 0] = bare) => Own(S) = {bare}
    BY DEF Own
  <2>5. PICK was, is : was = Current(l) /\ is = Current(l)'
    OBVIOUS
  <2>6. /\ \A x \in was : \E n : x = [q EXCEPT !.slug = n]
        /\ \A x \in is : \E n : x = [q EXCEPT !.slug = n]
        /\ was # {} <=> is # {}
    <3>1. q.in # {}
      BY <1>6
    <3>2. CASE q.is = "live"
      <4>1. /\ was = {[q EXCEPT !.slug = catalog[c].slug] : c \in q.in}
            /\ is = {[q EXCEPT !.slug = catalog'[c].slug] : c \in q.in}
        BY <1>4, <2>5, <3>2
      <4>2. PICK c \in q.in : TRUE
        BY <3>1
      <4>3. [q EXCEPT !.slug = catalog[c].slug] \in was /\ [q EXCEPT !.slug = catalog'[c].slug] \in is
        BY <4>1, <4>2
      <4>4. ASSUME NEW x \in was PROVE \E n : x = [q EXCEPT !.slug = n]
        BY <4>1
      <4>5. ASSUME NEW x \in is PROVE \E n : x = [q EXCEPT !.slug = n]
        BY <4>1
      <4> QED BY <4>3, <4>4, <4>5
    <3>3. CASE q.is # "live"
      BY <1>4, <2>5, <3>3
    <3> QED BY <3>2, <3>3
  <2>7. Own(was) = Own(is)
    <3>1. (\A x \in was : [x EXCEPT !.slug = 0] = bare) /\ (\A x \in is : [x EXCEPT !.slug = 0] = bare)
      <4>1. ASSUME NEW x, NEW n, x = [q EXCEPT !.slug = n] PROVE [x EXCEPT !.slug = 0] = bare
        BY <2>3, <4>1
      <4> QED BY <2>6, <4>1
    <3>2. CASE was = {} /\ is = {}
      BY <3>2
    <3>3. CASE was # {} /\ is # {}
      BY <2>4, <3>1, <3>3
    <3> QED BY <2>6, <3>2, <3>3
  <2>8. Own(v) = Own(was)
    BY <2>5 DEF Looks
  <2>9. Own(v)' = Own(v) /\ Own(Current(l))' = Own(is)
    BY <2>5 DEF Own
  <2> QED BY <2>1, <2>7, <2>8, <2>9 DEF Looks
<1> QED BY <1>5, <1>6

\* The save of one request, and what others were about to do with other rows.
LEMMA OthersStand ==
  ASSUME MenuInv, disturbed \subseteq disturbed', NEW e \in Desks, NEW d \in DeskRow, d = desk[e], d.pc = "save",
         SaveFits(d), SavedAs(d), d.x \in MenuCategories => d.row.in = {},
         audited' = [p \in MenuProducts |-> IF p = d.x /\ d.op = "create" THEN d.row.price ELSE audited[p]],
         Renames, NEW k \in Desks, k # e, NEW f \in DeskRow, f = desk[k], DeskFits(f)
  PROVE  DeskFits(f)'
<1>1. Touches(d) = {d.x} \cup d.row.in \cup (IF d.x \in MenuCategories THEN {ActiveList} ELSE {})
  BY TouchesIs
<1>2. \A y : y \in Touches(d) /\ y \in Touches(f) => y \in disturbed /\ y \in disturbed'
  BY MetAt
<1>3. f.pc # "free" => f.x \in Touches(f)
  BY TouchesIs
<1>4. f.pc # "free" /\ f.x = d.x => f.x \in disturbed'
  BY <1>1, <1>2, <1>3
<1>5. \A l \in Lookups : l # d.x /\ Swept(l) => Swept(l)' \/ d.x \in disturbed'
  <2> SUFFICES ASSUME NEW l \in MenuProducts, l # d.x, NEW c \in MenuCategories, WentWith(l, c), d.x \notin disturbed'
               PROVE  WentWith(l, c)'
    BY DEF Swept
  <2>1. catalog'[l].is = "gone" /\ catalog'[l].in = catalog[l].in
    BY DEF SavedAs, WentWith
  <2>2. catalog'[c].is = "gone" \/ c \in disturbed'
    <3>1. CASE c # d.x
      BY <3>1 DEF SavedAs, WentWith
    <3>2. CASE c = d.x
      <4>1. catalog[d.x].is = "gone" /\ d.x \notin disturbed
        BY <3>2 DEF WentWith
      <4>2. ~WholeRow(d)
        BY <3>2, <4>1 DEF SaveFits, Found
      <4> QED BY <3>2, <4>1, <4>2 DEF SavedAs
    <3> QED BY <3>1, <3>2
  <2> QED BY <2>1, <2>2 DEF WentWith
<1>6. ASSUME f.pc = "fill" PROVE Looks(f.x, f.found)' \/ f.x \in disturbed' \/ Swept(f.x)'
  <2>1. f.x \in Lookups /\ (Looks(f.x, f.found) \/ f.x \in disturbed \/ Swept(f.x))
    BY <1>6 DEF DeskFits
  <2>2. CASE f.x = d.x
    BY <1>4, <1>6, <2>2
  <2>3. CASE f.x = ActiveList
    <3>1. CASE d.x \in MenuCategories
      BY <1>1, <1>2, <1>3, <1>6, <2>3, <3>1
    <3>2. CASE d.x \notin MenuCategories
      <4>1. \A c \in MenuCategories : catalog'[c] = catalog[c]
        BY <3>2 DEF SavedAs
      <4>2. Current(ActiveList)' = Current(ActiveList)
        BY <4>1 DEF Current, Joined, IsLive
      <4>3. ~Swept(ActiveList)
        BY GivenMenu DEF Swept, MenuRows
      <4> QED BY <2>1, <2>3, <4>2, <4>3 DEF Looks, Own, Renames
    <3> QED BY <3>1, <3>2
  <2>4. CASE f.x \in MenuProducts /\ f.x # d.x
    <3>1. CASE catalog'[f.x] = catalog[f.x]
      <4>1. Looks(f.x, f.found) => Looks(f.x, f.found)'
        <5>1. PICK at, v : at = f.x /\ v = f.found
          OBVIOUS
        <5>2. Looks(at, v) => Looks(at, v)'
          BY <2>4, <3>1, <5>1, LooksOn
        <5> QED BY <5>1, <5>2
      <4>2. Swept(f.x) => Swept(f.x)' \/ f.x \in disturbed'
        <5> SUFFICES ASSUME NEW c \in MenuCategories, WentWith(f.x, c), f.x \notin disturbed' PROVE WentWith(f.x, c)'
          BY <2>4 DEF Swept
        <5>1. catalog'[c].is = "gone" \/ c \in disturbed'
          <6>1. CASE c # d.x
            BY <6>1 DEF SavedAs, WentWith
          <6>2. CASE c = d.x
            <7>1. catalog[d.x].is = "gone" \/ c \in disturbed'
              BY <6>2 DEF WentWith
            <7>2. CASE ~WholeRow(d)
              BY <6>2, <7>1, <7>2 DEF SavedAs
            <7>3. CASE WholeRow(d)
              BY <6>2, <7>1, <7>3 DEF SaveFits, Found
            <7> QED BY <7>2, <7>3
          <6> QED BY <6>1, <6>2
        <5> QED BY <3>1, <5>1 DEF WentWith
      <4> QED BY <2>1, <4>1, <4>2
    <3>2. CASE catalog'[f.x] # catalog[f.x]
      <4>1. /\ d.op = "erase" /\ d.x \in catalog[f.x].in
            /\ catalog'[f.x].is = "gone" /\ catalog'[f.x].in = catalog[f.x].in
        BY <2>4, <3>2 DEF SavedAs
      <4>2. d.x \in MenuCategories
        BY <2>4, <4>1, MenuRowIs
      <4>3. catalog'[d.x].is = "gone"
        BY <4>1 DEF SavedAs, WholeRow
      <4> QED BY <2>4, <4>1, <4>2, <4>3 DEF Swept, WentWith
    <3> QED BY <3>1, <3>2
  <2> QED BY <2>1, <2>2, <2>3, <2>4 DEF Lookups
<1>7. ASSUME f.op = "price" PROVE PriceFits(f)'
  <2>1. PriceFits(f) /\ f.x \in MenuProducts /\ f.pc # "free"
    BY <1>7 DEF DeskFits, PriceFits
  <2>2. CASE f.x = d.x
    BY <1>4, <2>1, <2>2 DEF PriceFits
  <2>3. CASE f.x # d.x
    <3>1. audited'[f.x] = audited[f.x] /\ catalog'[f.x].price = catalog[f.x].price
      BY <2>1, <2>3 DEF SavedAs
    <3> QED BY <2>1, <3>1 DEF PriceFits
  <2> QED BY <2>2, <2>3
<1>8. ASSUME f.pc = "save" PROVE SaveFits(f)'
  <2>1. SaveFits(f) /\ f.x \in MenuRows /\ f.row.in \subseteq MenuCategories
    BY <1>8 DEF DeskFits, SaveFits, DeskRow, MenuRow
  <2>2. Touches(f) = {f.x} \cup f.row.in \cup (IF f.x \in MenuCategories THEN {ActiveList} ELSE {})
    BY <1>8, TouchesIs
  <2>3. f.x # d.x =>
          \/ catalog'[f.x] = catalog[f.x]
          \/ /\ f.x \in MenuProducts /\ d.op = "erase" /\ d.x \in catalog[f.x].in /\ Found(f.x)
             /\ catalog'[f.x].is = "gone" /\ catalog'[f.x].in = catalog[f.x].in
             /\ catalog'[f.x].price = catalog[f.x].price
    BY <2>1 DEF SavedAs, MenuRows
  <2>4. IF f.op = "create" THEN catalog'[f.x].is = "unused" \/ f.x \in disturbed' ELSE catalog'[f.x].is # "unused"
    <3>1. CASE f.x = d.x
      <4>1. catalog'[d.x].is # "unused"
        BY DEF SavedAs, SaveFits
      <4> QED BY <1>4, <1>8, <3>1, <4>1
    <3>2. CASE f.x # d.x
      BY <2>1, <2>3, <3>2 DEF SaveFits, Found
    <3> QED BY <3>1, <3>2
  <2>5. ASSUME WholeRow(f), NEW c \in f.row.in PROVE catalog'[c].is # "gone" \/ c \in disturbed'
    <3>1. catalog[c].is # "gone" \/ c \in disturbed
      BY <2>1, <2>5 DEF SaveFits
    <3>2. CASE c # d.x
      BY <2>1, <3>1, <3>2 DEF SavedAs
    <3>3. CASE c = d.x
      BY <1>1, <1>2, <2>2, <3>3
    <3> QED BY <3>2, <3>3
  <2>6. ASSUME WholeRow(f), f.op # "create", f.op # "price"
        PROVE  f.row.price = catalog'[f.x].price \/ f.x \in disturbed'
    BY <1>4, <1>8, <2>1, <2>3, <2>6 DEF SaveFits
  <2>7. ASSUME WholeRow(f), f.x \in MenuCategories
        PROVE  /\ f.row.slug \in FreeSlugs(f.x)' \/ ActiveList \in disturbed'
               /\ f.op = "create" \/ Found(f.x)' \/ f.x \in disturbed'
    <3>1. CASE d.x \in MenuCategories
      <4>1. ActiveList \in disturbed'
        BY <1>1, <1>2, <2>2, <2>7, <3>1
      <4>2. f.op = "create" \/ Found(f.x)' \/ f.x \in disturbed'
        <5>1. CASE f.x = d.x
          BY <1>4, <1>8, <5>1
        <5>2. CASE f.x # d.x
          BY <2>1, <2>7, <5>2 DEF SavedAs, SaveFits, Found
        <5> QED BY <5>1, <5>2
      <4> QED BY <4>1, <4>2
    <3>2. CASE d.x \notin MenuCategories
      <4>1. \A c \in MenuCategories : catalog'[c] = catalog[c]
        BY <3>2 DEF SavedAs
      <4>2. FreeSlugs(f.x)' = FreeSlugs(f.x) /\ Found(f.x)' = Found(f.x)
        BY <2>7, <4>1 DEF FreeSlugs, IsLive, Found
      <4> QED BY <2>1, <2>7, <4>2 DEF SaveFits
    <3> QED BY <3>1, <3>2
  <2>8. ASSUME f.op \in {"delete", "switch"}
        PROVE  /\ f.row.in = catalog'[f.x].in \/ f.x \in disturbed'
               /\ Found(f.x)' \/ Touches(f) \cap disturbed' # {}
    <3>1. CASE f.x = d.x
      BY <1>3, <1>4, <1>8, <3>1
    <3>2. CASE f.x # d.x
      <4>1. f.row.in = catalog'[f.x].in \/ f.x \in disturbed'
        BY <2>1, <2>3, <2>8, <3>2 DEF SaveFits
      <4>2. CASE catalog'[f.x] = catalog[f.x]
        BY <2>1, <2>8, <4>1, <4>2 DEF SaveFits, Found
      <4>3. CASE catalog'[f.x] # catalog[f.x]
        <5>1. d.x \in catalog'[f.x].in
          BY <2>3, <3>2, <4>3
        <5> QED BY <1>1, <1>2, <2>2, <4>1, <5>1
      <4> QED BY <4>1, <4>2, <4>3
    <3> QED BY <3>1, <3>2
  <2>9. WholeRow(f) => f.row.is = "live"
    BY <2>1 DEF SaveFits
  <2>10. Touches(f)' = Touches(f) /\ f.op # "none"
    BY <2>1 DEF Touches, SaveFits
  <2> QED BY <2>1, <2>4, <2>5, <2>6, <2>7, <2>8, <2>9, <2>10 DEF SaveFits, WholeRow
<1> QED BY <1>6, <1>7, <1>8 DEF DeskFits

LEMMA SavedKeeps ==
  ASSUME MenuInv, MenuNext, MenuStep, NEW e \in Editors, SaveMenuRow(e), ~Refuses(desk[e])
  PROVE  MenuInv'
<1>1. PICK d : d = desk[e]
  OBVIOUS
<1>2. /\ e \in Desks /\ d \in DeskRow /\ d.pc = "save" /\ DeskFits(d) /\ SaveFits(d) /\ d.x \in MenuRows
      /\ d.row \in MenuRow /\ (d.x \in MenuCategories => d.row.in = {})
  <2>1. e \in Desks /\ d \in DeskRow /\ d.pc = "save" /\ DeskFits(d)
    BY <1>1 DEF SaveMenuRow, Desks, MenuInv, MenuTypes
  <2> QED BY <2>1 DEF DeskFits, SaveFits, DeskRow
<1>3. SavedAs(d)
  BY <1>1, SavedIs
<1>4. /\ audited' = [p \in MenuProducts |-> IF p = d.x /\ d.op = "create" THEN d.row.price ELSE audited[p]]
      /\ desk' = [desk EXCEPT ![e].pc = "drop"] /\ refused' = refused /\ shown' = shown /\ Renames
  BY <1>1 DEF SaveMenuRow, Renames
<1>5. PICK b : b = [d EXCEPT !.pc = "drop"]
  OBVIOUS
<1>6. b \in DeskRow /\ b.pc = "drop" /\ b.op = d.op /\ b.x = d.x /\ b.row = d.row /\ b.old = d.old
  BY <1>2, <1>5 DEF DeskRow
<1>7. desk' = [desk EXCEPT ![e] = b]
  BY <1>1, <1>4, <1>5 DEF MenuInv, MenuTypes
<1>8. desk' \in [Desks -> DeskRow] /\ desk'[e] = b /\ \A k \in Desks : k # e => desk'[k] = desk[k]
  BY <1>2, <1>6, <1>7 DEF MenuInv, MenuTypes
<1>9. disturbed \subseteq disturbed' /\ DesksApart'
  BY <1>8, DisturbedAfter
<1>10. MenuTypes'
  <2>1. audited' \in [MenuProducts -> MenuPrices \cup {0}]
    BY <1>2, <1>4 DEF MenuInv, MenuTypes, MenuRow
  <2> QED BY <1>3, <1>4, <1>8, <2>1 DEF MenuInv, MenuTypes, SavedAs
<1>11. \A y : y \in Touches(b) => In(y, {"drop"})'
  <2> SUFFICES ASSUME NEW y \in Touches(b) PROVE In(y, {"drop"})'
    OBVIOUS
  <2>1. y \in Touches(desk[e])'
    BY <1>8 DEF Touches
  <2> QED BY <1>6, <1>8, <2>1 DEF In
<1>12. Touches(b) = {d.x} \cup d.row.in \cup (IF d.x \in MenuCategories THEN {ActiveList} ELSE {})
  BY <1>6, TouchesIs
<1>13. ASSUME NEW l \in Lookups PROVE Shows(l)'
  <2>1. In(l, {"drop"}) => In(l, {"drop"})'
    <3> SUFFICES ASSUME NEW k \in Editors, l \in Touches(desk[k]), desk[k].pc = "drop" PROVE In(l, {"drop"})'
      BY DEF In
    <3>1. desk'[k] = desk[k]
      BY <1>1, <1>2, <1>8 DEF Desks
    <3>2. l \in Touches(desk[k])'
      BY <3>1 DEF Touches
    <3> QED BY <3>1, <3>2 DEF In
  <2>2. CASE l \in Touches(b)
    BY <1>11, <2>2 DEF Shows
  <2>3. CASE l \notin Touches(b)
    <3>1. l # d.x /\ (d.x \in MenuCategories => l # ActiveList)
      BY <1>12, <2>3
    <3>2. Looks(l, shown[l]) => Looks(l, shown[l])' \/ Swept(l)'
      <4>1. CASE l = ActiveList
        <5>1. \A c \in MenuCategories : catalog'[c] = catalog[c]
          BY <1>3, <3>1, <4>1 DEF SavedAs
        <5>2. Current(l)' = Current(l)
          BY <4>1, <5>1 DEF Current, Joined, IsLive
        <5> QED BY <1>4, <5>2 DEF Looks, Own, Renames
      <4>2. CASE l \in MenuProducts /\ catalog'[l] = catalog[l]
        <5>1. PICK v : v = shown[l] /\ v = shown'[l]
          BY <1>4
        <5>2. Looks(l, v) => Looks(l, v)'
          BY <1>4, <4>2, LooksOn
        <5>3. Looks(l, v)' = Looks(l, shown[l])'
          BY <5>1 DEF Looks, Own
        <5> QED BY <5>1, <5>2, <5>3
      <4>3. CASE l \in MenuProducts /\ catalog'[l] # catalog[l]
        <5>1. /\ d.op = "erase" /\ d.x \in catalog[l].in
              /\ catalog'[l].is = "gone" /\ catalog'[l].in = catalog[l].in
          BY <1>3, <3>1, <4>3 DEF SavedAs
        <5>2. d.x \in MenuCategories
          BY <4>3, <5>1, MenuRowIs
        <5>3. catalog'[d.x].is = "gone"
          BY <1>3, <5>1 DEF SavedAs, WholeRow
        <5> QED BY <4>3, <5>1, <5>2, <5>3 DEF Swept, WentWith
      <4> QED BY <4>1, <4>2, <4>3 DEF Lookups
    <3>3. Swept(l) => Swept(l)'
      <4> SUFFICES ASSUME l \in MenuProducts, NEW c \in MenuCategories, WentWith(l, c) PROVE WentWith(l, c)'
        BY DEF Swept
      <4>1. catalog'[l].is = "gone" /\ catalog'[l].in = catalog[l].in
        BY <1>3, <3>1 DEF SavedAs, WentWith
      <4>2. catalog'[c].is = "gone" \/ c \in disturbed'
        <5>1. CASE c # d.x
          BY <1>3, <1>9, <5>1 DEF SavedAs, WentWith
        <5>2. CASE c = d.x /\ ~WholeRow(d)
          BY <1>3, <1>9, <5>2 DEF SavedAs, WentWith
        <5>3. CASE c = d.x /\ WholeRow(d)
          <6>1. CASE c \in disturbed
            BY <1>9, <6>1
          <6>2. CASE c \notin disturbed
            BY <1>2, <5>3, <6>2 DEF SaveFits, Found, WentWith
          <6> QED BY <6>1, <6>2
        <5> QED BY <5>1, <5>2, <5>3
      <4> QED BY <4>1, <4>2 DEF WentWith
    <3>4. Shows(l)
      BY DEF MenuInv
    <3> QED BY <1>4, <1>9, <2>1, <3>2, <3>3, <3>4 DEF Shows
  <2> QED BY <2>2, <2>3
<1>14. AuditTells'
  <2> SUFFICES ASSUME NEW p \in MenuProducts, p \notin disturbed'
               PROVE  catalog'[p].price = audited'[p] \/ Noting(p)'
    BY DEF AuditTells
  <2>1. Noting(p) => Noting(p)'
    BY <1>1, <1>2, <1>8 DEF Noting, Desks
  <2>2. catalog[p].price = audited[p] \/ Noting(p)
    BY <1>9 DEF MenuInv, AuditTells
  <2>3. CASE p # d.x
    BY <1>3, <1>4, <2>1, <2>2, <2>3 DEF SavedAs
  <2>4. CASE p = d.x /\ d.op = "create"
    BY <1>3, <1>4, <2>4 DEF SavedAs, WholeRow
  <2>5. CASE p = d.x /\ d.op = "price"
    BY <1>6, <1>8, <2>5 DEF Noting
  <2>6. CASE p = d.x /\ d.op \notin {"create", "price"}
    <3>1. catalog'[p].price = catalog[p].price
      BY <1>2, <1>3, <1>9, <2>6 DEF SavedAs, SaveFits
    <3> QED BY <1>4, <2>1, <2>2, <2>6, <3>1
  <2> QED BY <2>3, <2>4, <2>5, <2>6
<1>15. Housed'
  <2>1. ASSUME NEW c \in MenuCategories PROVE catalog'[c].in = {}
    BY <1>2, <1>3 DEF SavedAs, MenuInv, Housed
  <2>2. ASSUME NEW p \in MenuProducts, Found(p)', NEW c \in catalog'[p].in PROVE catalog'[c].is # "gone"
    <3>1. c \in MenuCategories /\ c # p
      BY <1>3, <2>2, MenuRowIs DEF SavedAs, MenuRow
    <3>2. CASE p = d.x
      <4>1. catalog'[c] = catalog[c]
        BY <1>3, <3>1, <3>2 DEF SavedAs
      <4>2. CASE WholeRow(d)
        BY <1>1, <1>3, <2>2, <3>2, <4>1, <4>2 DEF SavedAs, Refuses
      <4>3. CASE ~WholeRow(d)
        <5>1. catalog'[p].is # "gone" /\ catalog'[p].is # "unused" /\ catalog[p].is # "unused"
          BY <1>2, <1>3, <2>2, <3>2, <4>3 DEF SavedAs, SaveFits, Found, WholeRow
        <5>2. Found(p)
          BY <1>3, <3>2, <4>3, <5>1, MenuRowIs DEF SavedAs, Found, MenuRow
        <5> QED BY <1>3, <2>2, <3>2, <4>1, <4>3, <5>2 DEF SavedAs, MenuInv, Housed
      <4> QED BY <4>2, <4>3
    <3>3. CASE p # d.x
      <4>1. catalog'[p] = catalog[p] /\ ~(d.op = "erase" /\ d.x \in catalog[p].in /\ Found(p))
        BY <1>3, <2>2, <3>3 DEF SavedAs, Found
      <4>2. Found(p) /\ catalog[c].is # "gone"
        BY <2>2, <4>1 DEF Found, MenuInv, Housed
      <4>3. CASE c # d.x
        BY <1>3, <3>1, <4>2, <4>3 DEF SavedAs
      <4>4. CASE c = d.x
        <5>1. d.op # "erase"
          BY <2>2, <4>1, <4>2, <4>4
        <5> QED BY <1>2, <1>3, <4>2, <4>4, <5>1 DEF SavedAs, SaveFits
      <4> QED BY <4>3, <4>4
    <3> QED BY <3>2, <3>3
  <2> QED BY <2>1, <2>2 DEF Housed
<1>16. ChecksSuffice'
  BY <1>4, <1>9, RefusalsStand
<1>17. ASSUME NEW k \in Desks PROVE DeskFits(desk[k])'
  <2>1. PICK f : f = desk'[k]
    OBVIOUS
  <2>2. DeskFits(f)'
    <3>1. CASE k = e
      <4>1. f = b
        BY <1>8, <2>1, <3>1
      <4>2. b.op = "price" => PriceFits(b)'
        <5> SUFFICES ASSUME b.op = "price", b.x \notin disturbed' PROVE PriceFits(b)'
          BY <1>2, <1>6 DEF PriceFits, DeskFits
        <5>1. d.x \in MenuProducts /\ d.old = audited[d.x]
          BY <1>2, <1>6, <1>9 DEF DeskFits, PriceFits
        <5>2. catalog'[d.x] = d.row /\ audited'[d.x] = audited[d.x]
          BY <1>3, <1>4, <1>6, <5>1 DEF SavedAs, WholeRow
        <5> QED BY <1>6, <5>1, <5>2 DEF PriceFits
      <4> QED BY <1>2, <1>6, <4>1, <4>2 DEF DeskFits
    <3>2. CASE k # e
      <4>1. f = desk[k] /\ DeskFits(f) /\ f \in DeskRow
        BY <1>8, <2>1, <3>2 DEF MenuInv, MenuTypes
      <4> QED BY <1>1, <1>2, <1>3, <1>4, <1>9, <3>2, <4>1, OthersStand
    <3> QED BY <3>1, <3>2
  <2> QED BY <2>1, <2>2 DEF DeskFits, SaveFits, PriceFits, WholeRow, Touches, Current, FreeSlugs, Swept, Looks, Own, Joined
<1> QED BY <1>9, <1>10, <1>13, <1>14, <1>15, <1>16, <1>17 DEF MenuInv

LEMMA MenuKeeps == MenuInv /\ [MenuNext]_menuVars => MenuInv'
<1>1. ASSUME MenuInv, MenuNext PROVE MenuInv'
  <2>1. CASE MenuStep
    <3>1. ASSUME NEW e \in Editors, NEW c \in MenuCategories,
                 \/ \E s \in Slugs : CreateMenuCategory(e, c, s) \/ RestoreMenuCategory(e, c, s)
                 \/ \E s \in Slugs, on \in BOOLEAN : UpdateMenuCategory(e, c, s, on)
                 \/ \E on \in BOOLEAN : SetCategoryStatus(e, c, on)
                 \/ DeleteMenuCategory(e, c) \/ EraseMenuCategory(e, c) \/ ToggleMenuCategory(e, c)
          PROVE  MenuInv'
      <4>1. Slugs # {} /\ BOOLEAN # {}
        BY GivenMenu
      <4>2. PICK s \in Slugs, on \in BOOLEAN :
              \/ CreateMenuCategory(e, c, s) \/ RestoreMenuCategory(e, c, s) \/ UpdateMenuCategory(e, c, s, on)
              \/ SetCategoryStatus(e, c, on) \/ DeleteMenuCategory(e, c) \/ EraseMenuCategory(e, c)
              \/ ToggleMenuCategory(e, c)
        BY <3>1, <4>1
      <4> QED BY <1>1, <2>1, <4>2, CategoryEditKeeps
    <3>2. ASSUME NEW e \in Editors, NEW p \in MenuProducts, NEW c \in MenuCategories,
                 \/ MoveProduct(e, p, c) \/ \E price \in MenuPrices : CreateProduct(e, p, c, price)
          PROVE  MenuInv'
      <4>1. PICK price \in MenuPrices : MoveProduct(e, p, c) \/ CreateProduct(e, p, c, price)
        BY <3>2, GivenMenu
      <4> QED BY <1>1, <2>1, <4>1, ProductEditKeeps
    <3>3. ASSUME NEW e \in Editors, NEW p \in MenuProducts,
                 DeleteProduct(e, p) \/ EraseProduct(e, p) \/ RestoreProduct(e, p)
          PROVE  MenuInv'
      <4>1. PICK c \in MenuCategories, price \in MenuPrices : TRUE
        BY GivenMenu
      <4> QED BY <1>1, <2>1, <3>3, ProductEditKeeps
    <3>4. ASSUME NEW e \in Editors, NEW p \in MenuProducts, NEW price \in MenuPrices, OpenPrice(e, p, price)
          PROVE  MenuInv'
      BY <1>1, <2>1, <3>4, OpenPriceKeeps
    <3>5. ASSUME NEW e \in Editors, PriceProduct(e) \/ SaveMenuRow(e) \/ DropCache(e) \/ NotePrice(e)
          PROVE  MenuInv'
      BY <1>1, <2>1, <3>5, PriceProductKeeps, RefusedKeeps, SavedKeeps, DropCacheKeeps, NotePriceKeeps
    <3>6. ASSUME NEW e \in Editors, NEW x \in MenuRows, BulkDelete(e, x) PROVE MenuInv'
      BY <1>1, <2>1, <3>6, BulkKeeps
    <3>7. ASSUME NEW v \in Viewers, PutFound(v) \/ \E l \in Lookups : LookUp(v, l) PROVE MenuInv'
      BY <1>1, <2>1, <3>7, PutFoundKeeps, LookUpKeeps
    <3>8. \/ \E v \in Viewers : PutFound(v) \/ \E l \in Lookups : LookUp(v, l)
          \/ \E e \in Editors :
               \/ \E c \in MenuCategories :
                    \/ \E s \in Slugs : CreateMenuCategory(e, c, s) \/ RestoreMenuCategory(e, c, s)
                    \/ \E s \in Slugs, on \in BOOLEAN : UpdateMenuCategory(e, c, s, on)
                    \/ \E on \in BOOLEAN : SetCategoryStatus(e, c, on)
                    \/ DeleteMenuCategory(e, c) \/ EraseMenuCategory(e, c) \/ ToggleMenuCategory(e, c)
                    \/ \E p \in MenuProducts : MoveProduct(e, p, c)
                    \/ \E p \in MenuProducts, price \in MenuPrices : CreateProduct(e, p, c, price)
               \/ \E x \in MenuRows : BulkDelete(e, x)
               \/ \E p \in MenuProducts :
                    \/ DeleteProduct(e, p) \/ EraseProduct(e, p) \/ RestoreProduct(e, p)
                    \/ \E price \in MenuPrices : OpenPrice(e, p, price)
               \/ PriceProduct(e) \/ SaveMenuRow(e) \/ DropCache(e) \/ NotePrice(e)
      BY <2>1 DEF MenuStep
    <3> QED BY <3>1, <3>2, <3>3, <3>4, <3>5, <3>6, <3>7, <3>8
  <2>2. CASE ~MenuStep
    <3>1. PICK e \in Editors : RequestDies(e) /\ disturbed' = disturbed \cup Touches(desk[e])
      BY <1>1, <2>2 DEF MenuNext
    <3> QED BY <1>1, <3>1, RequestDiesKeeps
  <2> QED BY <2>1, <2>2
<1>2. ASSUME MenuInv, UNCHANGED menuVars PROVE MenuInv'
  <2>1. /\ catalog' = catalog /\ shown' = shown /\ desk' = desk /\ audited' = audited
        /\ disturbed' = disturbed /\ refused' = refused /\ renamed' = renamed
    BY <1>2 DEF menuVars
  <2>2. MenuTypes' /\ AuditTells' /\ Housed' /\ ChecksSuffice'
    BY <1>2, <2>1 DEF MenuInv, MenuTypes, AuditTells, Noting, Housed, Found, ChecksSuffice
  <2>3. \A k : Touches(desk[k])' = Touches(desk[k])
    BY <2>1 DEF Touches
  <2>4. DesksApart'
    BY <1>2, <2>1, <2>3 DEF MenuInv, DesksApart
  <2>5. ASSUME NEW l \in Lookups PROVE Shows(l)'
    <3>1. Current(l)' = Current(l) /\ (Swept(l) => Swept(l)')
      BY <2>1 DEF Current, Joined, IsLive, Swept, WentWith
    <3>2. In(l, {"drop"}) => In(l, {"drop"})'
      BY <2>1, <2>3 DEF In
    <3> QED BY <1>2, <2>1, <3>1, <3>2 DEF MenuInv, Shows, Looks, Own
  <2>6. ASSUME NEW k \in Desks PROVE DeskFits(desk[k])'
    <3>1. PICK f : f = desk[k] /\ f = desk'[k]
      BY <2>1
    <3>2. DeskFits(f)'
      BY <1>2, <2>1, <3>1, DeskStands DEF MenuInv
    <3> QED BY <3>1, <3>2 DEF DeskFits, SaveFits, PriceFits, WholeRow, Touches, Current, FreeSlugs, Swept, Looks, Own, Joined
  <2> QED BY <2>2, <2>4, <2>5, <2>6 DEF MenuInv
<1> QED BY <1>1, <1>2
-----------------------------------------------------------------------------
(* Catalogue of the stock: its trees                                       *)

LEMMA GivenCatalogue ==
  /\ IsFiniteSet(StockCategories) /\ IsFiniteSet(StockLocations) /\ StockUnits # {}
  /\ NoRow \notin StockCategories /\ NoRow \notin StockLocations /\ NoRow \notin StockUnits
BY CatalogueAssumption

Parents(t, S) == S \cup ({t[y].parent : y \in S} \ {NoRow})
\* Nothing hangs from what is not there, and nothing below itself.
TreeFits(t) == \A x \in Rows(t) : t[x].parent \in Rows(t) \cup {NoRow}
Rooted(t) == \A S \in (SUBSET Rows(t)) \ {{}} : \E x \in S : t[x].parent \notin S
UpClosed(t, S) == \A y \in S : t[y].parent \in S \cup {NoRow}

\* Climbing is a function there is, for it may lead to the least set of rows that is closed.
Climbs(t, f) == f = [S \in SUBSET Rows(t) |-> IF Parents(t, S) = S THEN S ELSE f[Parents(t, S)]]
LEMMA ClimbIs ==
  ASSUME NEW t, TreeFits(t)
  PROVE  \E f : Climbs(t, f) /\ \A x : Above(t, x) = f[{x}]
<1> DEFINE All == SUBSET Rows(t)
           Least(S) == {y \in Rows(t) : \A T \in All : S \subseteq T /\ UpClosed(t, T) => y \in T}
           g == [S \in All |-> Least(S)]
           climb == CHOOSE f : Climbs(t, f)
<1>1. \A S \in All : /\ Parents(t, S) \in All /\ S \subseteq Parents(t, S)
                     /\ Parents(t, S) = S <=> UpClosed(t, S)
  BY DEF Parents, UpClosed, TreeFits
<1>2. ASSUME NEW S \in All, UpClosed(t, S) PROVE Least(S) = S
  BY <1>2
<1>3. ASSUME NEW S \in All PROVE Least(Parents(t, S)) = Least(S)
  <2>1. ASSUME NEW T \in All, UpClosed(t, T) PROVE S \subseteq T <=> Parents(t, S) \subseteq T
    BY <2>1 DEF Parents, UpClosed
  <2> QED BY <2>1
<1>4. \A S \in All : g[S] = IF Parents(t, S) = S THEN S ELSE g[Parents(t, S)]
  <2> SUFFICES ASSUME NEW S \in All PROVE g[S] = IF Parents(t, S) = S THEN S ELSE g[Parents(t, S)]
    OBVIOUS
  <2>1. g[S] = Least(S) /\ g[Parents(t, S)] = Least(Parents(t, S))
    BY <1>1
  <2> HIDE DEF g, Least
  <2> QED BY <2>1, <1>1, <1>2, <1>3
<1>5. Climbs(t, g)
  <2>1. g = [S \in All |-> g[S]]
    OBVIOUS
  <2> HIDE DEF g
  <2>2. [S \in All |-> g[S]] = [S \in All |-> IF Parents(t, S) = S THEN S ELSE g[Parents(t, S)]]
    BY <1>4
  <2> QED BY <2>1, <2>2 DEF Climbs
<1> HIDE DEF g
<1>6. Climbs(t, climb)
  BY <1>5
<1>7. \A x : Above(t, x) = climb[{x}]
  BY DEF Above, Climbs, Parents
<1> HIDE DEF climb
<1> QED BY <1>6, <1>7

\* What climbing comes to is closed, whatever function does it: of the sets of rows for which it
\* were not, a greatest one would climb to a greater.
LEMMA AboveIs ==
  ASSUME NEW t, TreeFits(t), IsFiniteSet(Rows(t)), NEW x \in Rows(t)
  PROVE  x \in Above(t, x) /\ UpClosed(t, Above(t, x))
<1> DEFINE All == SUBSET Rows(t)
<1>1. PICK f : Climbs(t, f) /\ \A y : Above(t, y) = f[{y}]
  BY ClimbIs
<1>2. \A S \in All : f[S] = IF Parents(t, S) = S THEN S ELSE f[Parents(t, S)]
  BY <1>1 DEF Climbs
<1>3. \A S \in All : /\ Parents(t, S) \in All /\ S \subseteq Parents(t, S)
                     /\ Parents(t, S) = S => UpClosed(t, S)
  BY DEF Parents, UpClosed, TreeFits
<1> DEFINE Reaches(S) == S \subseteq f[S] /\ UpClosed(t, f[S])
           bad == {S \in All : ~Reaches(S)}
<1>4. bad = {}
  <2> SUFFICES ASSUME bad # {} PROVE FALSE
    OBVIOUS
  <2> DEFINE rest == {Rows(t) \ S : S \in bad}
  <2>1. rest \subseteq SUBSET Rows(t) /\ rest # {}
    OBVIOUS
  <2>2. PICK m \in rest : \A n \in rest : n \subseteq m => n = m
    <3> HIDE DEF rest
    <3> QED BY <2>1, Minimal
  <2>3. PICK S \in bad : m = Rows(t) \ S
    OBVIOUS
  <2>4. CASE Parents(t, S) = S
    BY <1>2, <1>3, <2>4
  <2>5. CASE Parents(t, S) # S
    <3>1. f[S] = f[Parents(t, S)] /\ Parents(t, S) \in All /\ S \subseteq Parents(t, S)
      BY <1>2, <1>3, <2>5
    <3>2. Parents(t, S) \notin bad
      <4>1. Rows(t) \ Parents(t, S) \subseteq m /\ Rows(t) \ Parents(t, S) # m
        BY <2>3, <2>5, <3>1
      <4> QED BY <2>2, <4>1
    <3> QED BY <3>1, <3>2
  <2> QED BY <2>4, <2>5
<1>5. {x} \in All
  OBVIOUS
<1>6. Reaches({x})
  BY <1>4, <1>5
<1>7. Above(t, x) = f[{x}]
  BY <1>1
<1> QED BY <1>6, <1>7

LEMMA StillRooted ==
  ASSUME NEW t, NEW u, Rows(u) = Rows(t), \A x \in Rows(t) : u[x].parent = t[x].parent, TreeFits(t), Rooted(t)
  PROVE  TreeFits(u) /\ Rooted(u)
<1>1. TreeFits(u)
  BY DEF TreeFits
<1>2. ASSUME NEW S \in (SUBSET Rows(u)) \ {{}} PROVE \E x \in S : u[x].parent \notin S
  <2>1. PICK x \in S : t[x].parent \notin S
    BY DEF Rooted
  <2> QED BY <2>1
<1> QED BY <1>1, <1>2 DEF Rooted

LEMMA GrownRooted ==
  ASSUME NEW t, NEW u, NEW x, x \notin Rows(t), x # NoRow, Rows(u) = Rows(t) \cup {x},
         \A y \in Rows(t) : u[y].parent = t[y].parent, u[x].parent \in Rows(t) \cup {NoRow},
         TreeFits(t), Rooted(t)
  PROVE  TreeFits(u) /\ Rooted(u)
<1>1. TreeFits(u)
  BY DEF TreeFits
<1>2. ASSUME NEW S \in (SUBSET Rows(u)) \ {{}} PROVE \E y \in S : u[y].parent \notin S
  <2> DEFINE T == S \ {x}
  <2>1. CASE T = {}
    <3>1. S = {x}
      <4>1. S # {}
        OBVIOUS
      <4>2. ASSUME NEW y \in S, y # x PROVE FALSE
        <5>1. y \in T
          BY <4>2
        <5> QED BY <2>1, <5>1
      <4> QED BY <4>1, <4>2
    <3>2. u[x].parent # x
      OBVIOUS
    <3> QED BY <3>1, <3>2
  <2>2. CASE T # {}
    <3>1. T \in (SUBSET Rows(t)) \ {{}}
      BY <2>2
    <3>2. PICK y \in T : t[y].parent \notin T
      BY <3>1 DEF Rooted
    <3>3. t[y].parent # x /\ u[y].parent = t[y].parent /\ y \in S
      BY <3>1, <3>2 DEF TreeFits
    <3> QED BY <3>2, <3>3
  <2> QED BY <2>1, <2>2
<1> QED BY <1>1, <1>2 DEF Rooted

\* A row that is hung from what is not below it closes no circle.
LEMMA HungRooted ==
  ASSUME NEW t, NEW u, NEW x \in Rows(t), NEW p, MayHang(t, x, p), IsFiniteSet(Rows(t)), NoRow \notin Rows(t),
         Rows(u) = Rows(t), \A y \in Rows(t) : y # x => u[y].parent = t[y].parent, u[x].parent = p,
         TreeFits(t), Rooted(t)
  PROVE  TreeFits(u) /\ Rooted(u)
<1>1. p \in Rows(t) \cup {NoRow}
  BY DEF MayHang
<1>2. TreeFits(u)
  BY <1>1 DEF TreeFits
<1>3. ASSUME NEW S \in (SUBSET Rows(u)) \ {{}}, \A y \in S : u[y].parent \in S PROVE FALSE
  <2>1. CASE x \notin S
    <3>1. PICK y \in S : t[y].parent \notin S
      BY DEF Rooted
    <3> QED BY <1>3, <2>1, <3>1
  <2>2. CASE x \in S
    <3>1. p \in S /\ p \in Rows(t)
      BY <1>3, <2>2
    <3>2. p \in Above(t, p) /\ UpClosed(t, Above(t, p)) /\ x \notin Above(t, p)
      BY <3>1, AboveIs DEF MayHang
    <3> DEFINE T == S \cap Above(t, p)
    <3>3. T \in (SUBSET Rows(t)) \ {{}}
      BY <3>1, <3>2
    <3>4. PICK y \in T : t[y].parent \notin T
      BY <3>3 DEF Rooted
    <3>5. u[y].parent = t[y].parent /\ u[y].parent \in S
      BY <1>3, <3>2, <3>4
    <3>6. t[y].parent \in Above(t, p)
      BY <3>2, <3>4, <3>5 DEF UpClosed
    <3> QED BY <3>4, <3>5, <3>6
  <2> QED BY <2>1, <2>2
<1> QED BY <1>2, <1>3 DEF Rooted

-----------------------------------------------------------------------------
(* Catalogue: shelves                                                      *)

LEMMA WithIs ==
  ASSUME NEW t, NEW x, NEW q
  PROVE  /\ Rows(With(t, x, q)) = Rows(t) \cup {x} /\ With(t, x, q)[x] = q
         /\ \A y \in Rows(t) : y # x => With(t, x, q)[y] = t[y]
BY DEF With, Rows

LEMMA RetiredIs ==
  ASSUME NEW t, NEW S
  PROVE  /\ Rows(Retired(t, S)) = Rows(t)
         /\ \A y \in Rows(t) : Retired(t, S)[y] = IF y \in S THEN [t[y] EXCEPT !.active = FALSE] ELSE t[y]
BY DEF Retired, Rows

CategoryRow == [active : BOOLEAN, parent : StockCategories \cup {NoRow}]
UnitRow == [type : UnitTypes, of : StockUnits \cup {NoRow}, active : BOOLEAN]
ItemRow == [unit : StockUnits, category : StockCategories \cup {NoRow}, active : BOOLEAN, moved : BOOLEAN]
ShelfTypes ==
  /\ Rows(category) \subseteq StockCategories /\ \A c \in Rows(category) : category[c] \in CategoryRow
  /\ Rows(unit) \subseteq StockUnits /\ \A u \in Rows(unit) : unit[u] \in UnitRow
  /\ Rows(stockItem) \subseteq StockItems /\ \A i \in Rows(stockItem) : stockItem[i] \in ItemRow

IsBase(u, t) == unit[u].type = t /\ unit[u].of = NoRow /\ unit[u].active
OneBase == \A t : \A a, b \in Rows(unit) : IsBase(a, t) /\ IsBase(b, t) => a = b
Housed1(i) ==
  stockItem[i].active =>
    /\ Activated(unit, stockItem[i].unit)
    /\ stockItem[i].category # NoRow => Activated(category, stockItem[i].category)
ShelvesInv == ShelfTypes /\ TreeFits(category) /\ Rooted(category) /\ ItemsAreHoused /\ OneBase

LEMMA HousedIs == ItemsAreHoused <=> \A i \in Rows(stockItem) : Housed1(i)
BY DEF ItemsAreHoused, Housed1

\* What a step has to show of the shelves.
LEMMA CategoriesMove ==
  ASSUME ShelvesInv, UNCHANGED <<unit, stockItem>>,
         Rows(category)' \subseteq StockCategories, \A c \in Rows(category)' : category'[c] \in CategoryRow,
         TreeFits(category)', Rooted(category)',
         \A c : Activated(category, c) => Activated(category, c)'
  PROVE  ShelvesInv'
<1>1. ShelfTypes'
  BY DEF ShelvesInv, ShelfTypes
<1>2. ItemsAreHoused'
  BY DEF ShelvesInv, ItemsAreHoused
<1>3. OneBase'
  BY DEF ShelvesInv, OneBase, IsBase
<1> QED BY <1>1, <1>2, <1>3 DEF ShelvesInv

LEMMA CreateCategoryKeeps ==
  ASSUME ShelvesInv, NEW c \in StockCategories, NEW p \in StockCategories \cup {NoRow}, CreateCategory(c, p)
  PROVE  ShelvesInv'
<1> DEFINE q == [active |-> TRUE, parent |-> p]
<1>1. /\ c \notin Rows(category) /\ p \in Rows(category) \cup {NoRow}
      /\ category' = With(category, c, q) /\ UNCHANGED <<unit, stockItem>>
  BY DEF CreateCategory, Fresh, MayGrow, Activated
<1>2. q \in CategoryRow /\ q.parent = p
  BY DEF CategoryRow
<1> HIDE DEF q
<1>3. /\ Rows(category)' = Rows(category) \cup {c} /\ category'[c] = q
      /\ \A y \in Rows(category) : category'[y] = category[y]
  BY <1>1, WithIs
<1>4. TreeFits(category)' /\ Rooted(category)'
  <2>1. c # NoRow /\ Rows(category') = Rows(category) \cup {c}
    BY <1>3, GivenCatalogue DEF Rows
  <2>2. TreeFits(category') /\ Rooted(category')
    BY <1>1, <1>2, <1>3, <2>1, GrownRooted DEF ShelvesInv
  <2> QED BY <2>2 DEF TreeFits, Rooted, Rows
<1>5. \A d \in Rows(category)' : category'[d] \in CategoryRow
  BY <1>2, <1>3 DEF ShelvesInv, ShelfTypes
<1>6. \A d : Activated(category, d) => Activated(category, d)'
  BY <1>3 DEF Activated
<1>7. Rows(category)' \subseteq StockCategories
  BY <1>3 DEF ShelvesInv, ShelfTypes
<1> QED BY <1>1, <1>4, <1>5, <1>6, <1>7, CategoriesMove

LEMMA UpdateCategoryKeeps ==
  ASSUME ShelvesInv, NEW c \in StockCategories, NEW p \in StockCategories \cup {NoRow}, UpdateCategory(c, p)
  PROVE  ShelvesInv'
<1>1. /\ c \in Rows(category) /\ MayHang(category, c, p)
      /\ category' = [category EXCEPT ![c].parent = p] /\ UNCHANGED <<unit, stockItem>>
  BY DEF UpdateCategory
<1>2. /\ Rows(category') = Rows(category) /\ category'[c] = [category[c] EXCEPT !.parent = p]
      /\ \A y \in Rows(category) : y # c => category'[y] = category[y]
  BY <1>1 DEF Rows
<1>3. /\ category'[c] \in CategoryRow /\ category'[c].parent = p /\ category'[c].active = category[c].active
  <2>1. category[c] \in CategoryRow
    BY <1>1 DEF ShelvesInv, ShelfTypes
  <2> QED BY <1>2, <2>1 DEF CategoryRow
<1>4. TreeFits(category)' /\ Rooted(category)'
  <2>1. IsFiniteSet(Rows(category)) /\ NoRow \notin Rows(category)
    BY GivenCatalogue, FS_Subset DEF ShelvesInv, ShelfTypes
  <2>2. TreeFits(category) /\ Rooted(category)
    BY DEF ShelvesInv
  <2> DEFINE t == category
             n == category'
  <2>3. /\ TreeFits(t) /\ Rooted(t) /\ MayHang(t, c, p) /\ c \in Rows(t) /\ IsFiniteSet(Rows(t)) /\ NoRow \notin Rows(t)
        /\ Rows(n) = Rows(t) /\ \A y \in Rows(t) : y # c => n[y].parent = t[y].parent
        /\ n[c].parent = p
    BY <1>1, <1>2, <1>3, <2>1, <2>2
  <2> HIDE DEF t, n
  <2>4. TreeFits(n) /\ Rooted(n)
    BY <2>3, HungRooted
  <2> QED BY <2>4 DEF TreeFits, Rooted, Rows, n
<1>5. Rows(category)' = Rows(category)
  BY <1>2 DEF Rows
<1>6. \A d \in Rows(category)' : category'[d] \in CategoryRow
  BY <1>2, <1>3, <1>5 DEF ShelvesInv, ShelfTypes
<1>7. \A d : Activated(category, d) => Activated(category, d)'
  BY <1>2, <1>3, <1>5 DEF Activated
<1> QED BY <1>1, <1>4, <1>5, <1>6, <1>7, CategoriesMove DEF ShelvesInv, ShelfTypes

\* Whatever a cascade reaches: who was in use in one of those is in none now.
LEMMA DeactivateCategoryKeeps ==
  ASSUME ShelvesInv, NEW c, NEW cascade \in BOOLEAN, DeactivateCategory(c, cascade)
  PROVE  ShelvesInv'
<1>1. PICK gone : category' = Retired(category, gone) /\ stockItem' = Emptied(gone) /\ unit' = unit
  BY DEF DeactivateCategory
<1>2. /\ Rows(category') = Rows(category)
      /\ \A y \in Rows(category) : category'[y] = IF y \in gone THEN [category[y] EXCEPT !.active = FALSE] ELSE category[y]
  BY <1>1, RetiredIs
<1>3. \A y \in Rows(category) : category'[y] \in CategoryRow /\ category'[y].parent = category[y].parent
  <2> SUFFICES ASSUME NEW y \in Rows(category) PROVE category'[y] \in CategoryRow /\ category'[y].parent = category[y].parent
    OBVIOUS
  <2>1. category[y] \in CategoryRow
    BY DEF ShelvesInv, ShelfTypes
  <2> QED BY <1>2, <2>1 DEF CategoryRow
<1>4. TreeFits(category)' /\ Rooted(category)'
  <2>1. TreeFits(category') /\ Rooted(category')
    BY <1>2, <1>3, StillRooted DEF ShelvesInv
  <2> QED BY <2>1 DEF TreeFits, Rooted, Rows
<1>5. /\ Rows(stockItem)' = Rows(stockItem)
      /\ \A i \in Rows(stockItem) : stockItem'[i] =
           IF stockItem[i].category \in gone /\ HasActiveItems(stockItem[i].category)
           THEN [stockItem[i] EXCEPT !.category = NoRow] ELSE stockItem[i]
  BY <1>1 DEF Emptied, Rows
<1>6. ASSUME NEW i \in Rows(stockItem)
      PROVE  /\ stockItem'[i] \in ItemRow /\ stockItem'[i].unit = stockItem[i].unit
             /\ stockItem'[i].active = stockItem[i].active
             /\ stockItem'[i].category \in {NoRow, stockItem[i].category}
             /\ stockItem[i].active /\ stockItem[i].category \in gone => stockItem'[i].category = NoRow
  <2>1. stockItem[i] \in ItemRow
    BY DEF ShelvesInv, ShelfTypes
  <2>2. stockItem[i].active => HasActiveItems(stockItem[i].category)
    BY DEF HasActiveItems, ItemsIn
  <2>3. [stockItem[i] EXCEPT !.category = NoRow] \in ItemRow /\ [stockItem[i] EXCEPT !.category = NoRow].category = NoRow
        /\ [stockItem[i] EXCEPT !.category = NoRow].unit = stockItem[i].unit
        /\ [stockItem[i] EXCEPT !.category = NoRow].active = stockItem[i].active
    BY <2>1 DEF ItemRow
  <2> QED BY <1>5, <2>1, <2>2, <2>3
<1>7. ItemsAreHoused'
  <2>1. \A u : Activated(unit, u) => Activated(unit, u)'
    BY <1>1 DEF Activated
  <2>2. \A d : d \notin gone /\ Activated(category, d) => Activated(category, d)'
    BY <1>2 DEF Activated, Rows
  <2>3. ASSUME NEW i \in Rows(stockItem) PROVE Housed1(i)'
    <3>1. Housed1(i)
      BY HousedIs DEF ShelvesInv
    <3>2. PICK d : d = stockItem'[i].category
      OBVIOUS
    <3>3. PICK u : u = stockItem'[i].unit
      OBVIOUS
    <3>4. stockItem'[i].active => Activated(unit, u)'
      BY <1>6, <2>1, <3>1, <3>3 DEF Housed1
    <3>5. stockItem'[i].active /\ d # NoRow => Activated(category, d)'
      BY <1>6, <2>2, <3>1, <3>2 DEF Housed1
    <3> QED BY <3>2, <3>3, <3>4, <3>5 DEF Housed1, Activated, Rows
  <2> QED BY <1>5, <2>3 DEF ItemsAreHoused, Housed1
<1>8. ShelfTypes'
  BY <1>1, <1>2, <1>3, <1>5, <1>6 DEF ShelvesInv, ShelfTypes, Rows
<1>9. OneBase'
  BY <1>1 DEF ShelvesInv, OneBase, IsBase
<1> QED BY <1>4, <1>7, <1>8, <1>9 DEF ShelvesInv

LEMMA UnitsMove ==
  ASSUME ShelvesInv, UNCHANGED <<category, stockItem>>,
         Rows(unit)' \subseteq StockUnits, \A u \in Rows(unit)' : unit'[u] \in UnitRow,
         \A i \in Rows(stockItem) : Activated(unit, stockItem[i].unit) => Activated(unit, stockItem[i].unit)',
         OneBase'
  PROVE  ShelvesInv'
<1>1. ShelfTypes'
  BY DEF ShelvesInv, ShelfTypes
<1>2. ItemsAreHoused'
  BY DEF ShelvesInv, ItemsAreHoused, Activated, Rows
<1>3. TreeFits(category)' /\ Rooted(category)'
  BY DEF ShelvesInv, TreeFits, Rooted, Rows
<1> QED BY <1>1, <1>2, <1>3 DEF ShelvesInv

LEMMA CreateUnitKeeps ==
  ASSUME ShelvesInv, NEW u \in StockUnits, NEW t \in UnitTypes, NEW of \in StockUnits \cup {NoRow}, CreateUnit(u, t, of)
  PROVE  ShelvesInv'
<1> DEFINE q == [type |-> t, of |-> of, active |-> TRUE]
<1>1. /\ u \notin Rows(unit) /\ unit' = With(unit, u, q) /\ UNCHANGED <<category, stockItem>>
      /\ \/ of = NoRow /\ ~\E b \in Rows(unit) : IsBase(b, t)
         \/ of # NoRow
  BY GivenCatalogue DEF CreateUnit, Fresh, IsBase, ShelvesInv, ShelfTypes
<1>2. q \in UnitRow /\ q.type = t /\ q.of = of
  BY DEF UnitRow
<1> HIDE DEF q
<1>3. /\ Rows(unit)' = Rows(unit) \cup {u} /\ unit'[u] = q
      /\ \A y \in Rows(unit) : unit'[y] = unit[y]
  BY <1>1, WithIs
<1>4. \A y \in Rows(unit)' : unit'[y] \in UnitRow
  BY <1>2, <1>3 DEF ShelvesInv, ShelfTypes
<1>5. Rows(unit)' \subseteq StockUnits
  BY <1>3 DEF ShelvesInv, ShelfTypes
<1>6. \A i : Activated(unit, i) => Activated(unit, i)'
  BY <1>3 DEF Activated
<1>7. OneBase'
  <2> SUFFICES ASSUME NEW k, NEW a \in Rows(unit)', NEW b \in Rows(unit)', IsBase(a, k)', IsBase(b, k)' PROVE a = b
    BY DEF OneBase
  <2>1. \A y \in Rows(unit) : IsBase(y, k)' <=> IsBase(y, k)
    BY <1>3 DEF IsBase
  <2>2. IsBase(u, k)' => k = t /\ of = NoRow
    BY <1>2, <1>3 DEF IsBase
  <2>3. \A c, d \in Rows(unit) : IsBase(c, k) /\ IsBase(d, k) => c = d
    BY DEF ShelvesInv, OneBase
  <2> QED BY <1>1, <1>3, <2>1, <2>2, <2>3
<1>8. \A i \in Rows(stockItem) : Activated(unit, stockItem[i].unit) => Activated(unit, stockItem[i].unit)'
  BY <1>1, <1>6 DEF Activated
<1> QED BY <1>1, <1>4, <1>5, <1>7, <1>8, UnitsMove

LEMMA DeactivateUnitKeeps == ASSUME ShelvesInv, NEW u, DeactivateUnit(u) PROVE ShelvesInv'
<1>1. /\ u \in Rows(unit) /\ Measured(u) = {} /\ unit' = Retired(unit, {u})
      /\ UNCHANGED <<category, stockItem>>
  BY DEF DeactivateUnit
<1>2. /\ Rows(unit') = Rows(unit) /\ unit'[u] = [unit[u] EXCEPT !.active = FALSE]
      /\ \A y \in Rows(unit) : y # u => unit'[y] = unit[y]
  <2> DEFINE S == {u}
             n == Retired(unit, S)
  <2>1. /\ Rows(n) = Rows(unit)
        /\ \A y \in Rows(unit) : n[y] = IF y \in S THEN [unit[y] EXCEPT !.active = FALSE] ELSE unit[y]
    BY RetiredIs
  <2>2. unit' = n /\ u \in Rows(unit)
    BY <1>1
  <2> HIDE DEF n
  <2> QED BY <2>1, <2>2
<1>3. unit'[u] \in UnitRow /\ ~unit'[u].active
  <2>1. unit[u] \in UnitRow
    BY <1>1 DEF ShelvesInv, ShelfTypes
  <2> QED BY <1>2, <2>1 DEF UnitRow
<1>4. \A y \in Rows(unit)' : unit'[y] \in UnitRow
  BY <1>2, <1>3 DEF ShelvesInv, ShelfTypes, Rows
<1>5. Rows(unit)' = Rows(unit)
  BY <1>2 DEF Rows
<1>6. \A i \in Rows(stockItem) : Activated(unit, stockItem[i].unit) => Activated(unit, stockItem[i].unit)'
  <2> SUFFICES ASSUME NEW i \in Rows(stockItem), Activated(unit, stockItem[i].unit)
               PROVE  Activated(unit, stockItem[i].unit)'
    OBVIOUS
  <2>1. stockItem[i].unit # u
    BY <1>1 DEF Measured
  <2> QED BY <1>1, <1>2, <1>5, <2>1 DEF Activated
<1>7. OneBase'
  <2>1. \A k : \A y \in Rows(unit) : IsBase(y, k)' => IsBase(y, k)
    BY <1>2, <1>3, <1>5 DEF IsBase
  <2>2. OneBase
    BY DEF ShelvesInv
  <2> QED BY <1>5, <2>1, <2>2 DEF OneBase
<1>8. Rows(unit)' \subseteq StockUnits
  BY <1>5 DEF ShelvesInv, ShelfTypes
<1> QED BY <1>1, <1>4, <1>6, <1>7, <1>8, UnitsMove

LEMMA ItemsMove ==
  ASSUME ShelvesInv, UNCHANGED <<category, unit>>,
         Rows(stockItem)' \subseteq StockItems, \A i \in Rows(stockItem)' : stockItem'[i] \in ItemRow /\ Housed1(i)'
  PROVE  ShelvesInv'
<1>1. ShelfTypes'
  BY DEF ShelvesInv, ShelfTypes
<1>2. ItemsAreHoused'
  BY DEF ItemsAreHoused, Housed1
<1>3. TreeFits(category)' /\ Rooted(category)'
  BY DEF ShelvesInv, TreeFits, Rooted, Rows
<1>4. OneBase'
  BY DEF ShelvesInv, OneBase, IsBase
<1> QED BY <1>1, <1>2, <1>3, <1>4 DEF ShelvesInv

LEMMA CreateItemKeeps ==
  ASSUME ShelvesInv, NEW i \in StockItems, NEW u \in StockUnits, NEW c \in StockCategories \cup {NoRow}, CreateItem(i, u, c)
  PROVE  ShelvesInv'
<1> DEFINE q == [unit |-> u, category |-> c, active |-> TRUE, moved |-> FALSE]
<1>1. /\ i \notin Rows(stockItem) /\ Activated(unit, u) /\ (c = NoRow \/ Activated(category, c))
      /\ stockItem' = With(stockItem, i, q) /\ UNCHANGED <<category, unit>>
  BY DEF CreateItem, Fresh, MayGrow
<1>2. q \in ItemRow /\ q.unit = u /\ q.category = c
  BY DEF ItemRow
<1> HIDE DEF q
<1>3. /\ Rows(stockItem)' = Rows(stockItem) \cup {i} /\ stockItem'[i] = q
      /\ \A y \in Rows(stockItem) : stockItem'[y] = stockItem[y]
  BY <1>1, WithIs
<1>4. Housed1(i)'
  BY <1>1, <1>2, <1>3 DEF Housed1, Activated
<1>5. ASSUME NEW y \in Rows(stockItem) PROVE Housed1(y)'
  <2>1. Housed1(y)
    BY HousedIs DEF ShelvesInv
  <2> QED BY <1>1, <1>3, <2>1 DEF Housed1, Activated
<1>6. \A y \in Rows(stockItem)' : stockItem'[y] \in ItemRow /\ Housed1(y)'
  BY <1>2, <1>3, <1>4, <1>5 DEF ShelvesInv, ShelfTypes
<1>7. Rows(stockItem)' \subseteq StockItems
  BY <1>3 DEF ShelvesInv, ShelfTypes
<1> QED BY <1>1, <1>6, <1>7, ItemsMove

\* One item is written.
LEMMA ItemMoves ==
  ASSUME ShelvesInv, UNCHANGED <<category, unit>>, NEW i \in Rows(stockItem), Rows(stockItem') = Rows(stockItem),
         stockItem'[i] \in ItemRow, \A y \in Rows(stockItem) : y # i => stockItem'[y] = stockItem[y],
         stockItem'[i].active => stockItem[i].active,
         Activated(unit, stockItem'[i].unit) \/ stockItem'[i].unit = stockItem[i].unit,
         \/ stockItem'[i].category \in {NoRow, stockItem[i].category}
         \/ Activated(category, stockItem'[i].category)
  PROVE  ShelvesInv'
<1>1. Rows(stockItem)' = Rows(stockItem)
  BY DEF Rows
<1>2. ASSUME NEW y \in Rows(stockItem) PROVE Housed1(y)' /\ stockItem'[y] \in ItemRow
  <2>1. Housed1(y) /\ stockItem[y] \in ItemRow
    BY HousedIs DEF ShelvesInv, ShelfTypes
  <2>2. CASE y # i
    BY <2>1, <2>2 DEF Housed1, Activated
  <2>3. CASE y = i
    BY <2>1, <2>3 DEF Housed1, Activated
  <2> QED BY <2>2, <2>3
<1>3. Rows(stockItem)' \subseteq StockItems
  BY <1>1 DEF ShelvesInv, ShelfTypes
<1> QED BY <1>1, <1>2, <1>3, ItemsMove

LEMMA UpdateItemKeeps ==
  ASSUME ShelvesInv, NEW i \in StockItems, NEW u \in StockUnits, NEW c \in StockCategories \cup {NoRow}, UpdateItem(i, u, c)
  PROVE  ShelvesInv'
<1>1. /\ i \in Rows(stockItem) /\ (Activated(unit, u) \/ u = stockItem[i].unit)
      /\ c \in {NoRow, stockItem[i].category} \/ Activated(category, c)
      /\ stockItem' = [stockItem EXCEPT ![i].unit = u, ![i].category = c] /\ UNCHANGED <<category, unit>>
  BY DEF UpdateItem
<1>2. stockItem[i] \in ItemRow
  BY <1>1 DEF ShelvesInv, ShelfTypes
<1>3. /\ Rows(stockItem') = Rows(stockItem) /\ \A y \in Rows(stockItem) : y # i => stockItem'[y] = stockItem[y]
      /\ stockItem'[i] = [stockItem[i] EXCEPT !.unit = u, !.category = c]
  BY <1>1 DEF Rows
<1>4. /\ stockItem'[i] \in ItemRow /\ stockItem'[i].unit = u /\ stockItem'[i].category = c
      /\ stockItem'[i].active = stockItem[i].active
  BY <1>2, <1>3 DEF ItemRow
<1> QED BY <1>1, <1>3, <1>4, ItemMoves

LEMMA DeactivateItemKeeps == ASSUME ShelvesInv, NEW i, DeactivateItem(i) PROVE ShelvesInv'
<1>1. i \in Rows(stockItem) /\ stockItem' = Retired(stockItem, {i}) /\ UNCHANGED <<category, unit>>
  BY DEF DeactivateItem
<1>2. stockItem[i] \in ItemRow
  BY <1>1 DEF ShelvesInv, ShelfTypes
<1>3. /\ Rows(stockItem') = Rows(stockItem) /\ \A y \in Rows(stockItem) : y # i => stockItem'[y] = stockItem[y]
      /\ stockItem'[i] = [stockItem[i] EXCEPT !.active = FALSE]
  <2>1. /\ Rows(stockItem') = Rows(stockItem)
        /\ \A y \in Rows(stockItem) : stockItem'[y] =
             IF y \in {i} THEN [stockItem[y] EXCEPT !.active = FALSE] ELSE stockItem[y]
    BY <1>1, RetiredIs
  <2> QED BY <1>1, <2>1
<1>4. /\ stockItem'[i] \in ItemRow /\ stockItem'[i].unit = stockItem[i].unit
      /\ stockItem'[i].category = stockItem[i].category /\ ~stockItem'[i].active
  BY <1>2, <1>3 DEF ItemRow
<1> QED BY <1>1, <1>3, <1>4, ItemMoves

LEMMA StockMovesKeeps == ASSUME ShelvesInv, NEW i, StockMoves(i) PROVE ShelvesInv'
<1>1. i \in Rows(stockItem) /\ stockItem' = [stockItem EXCEPT ![i].moved = TRUE] /\ UNCHANGED <<category, unit>>
  BY DEF StockMoves
<1>2. stockItem[i] \in ItemRow
  BY <1>1 DEF ShelvesInv, ShelfTypes
<1>3. /\ Rows(stockItem') = Rows(stockItem) /\ \A y \in Rows(stockItem) : y # i => stockItem'[y] = stockItem[y]
      /\ stockItem'[i] = [stockItem[i] EXCEPT !.moved = TRUE]
  BY <1>1 DEF Rows
<1>4. /\ stockItem'[i] \in ItemRow /\ stockItem'[i].unit = stockItem[i].unit
      /\ stockItem'[i].category = stockItem[i].category /\ stockItem'[i].active = stockItem[i].active
  BY <1>2, <1>3 DEF ItemRow
<1> QED BY <1>1, <1>3, <1>4, ItemMoves

LEMMA ShelvesKeep == ASSUME ShelvesInv, ShelvesNext PROVE ShelvesInv'
<1>1. ASSUME NEW c \in StockCategories, NEW p \in StockCategories \cup {NoRow},
             CreateCategory(c, p) \/ UpdateCategory(c, p)
      PROVE  ShelvesInv'
  BY <1>1, CreateCategoryKeeps, UpdateCategoryKeeps
<1>2. ASSUME NEW c, NEW cascade \in BOOLEAN, DeactivateCategory(c, cascade) PROVE ShelvesInv'
  BY <1>2, DeactivateCategoryKeeps
<1>3. ASSUME NEW u \in StockUnits, NEW t \in UnitTypes, NEW of \in StockUnits \cup {NoRow}, CreateUnit(u, t, of)
      PROVE  ShelvesInv'
  BY <1>3, CreateUnitKeeps
<1>4. ASSUME NEW u, DeactivateUnit(u) PROVE ShelvesInv'
  BY <1>4, DeactivateUnitKeeps
<1>5. ASSUME NEW i \in StockItems, NEW u \in StockUnits, NEW c \in StockCategories \cup {NoRow},
             CreateItem(i, u, c) \/ UpdateItem(i, u, c)
      PROVE  ShelvesInv'
  BY <1>5, CreateItemKeeps, UpdateItemKeeps
<1>6. ASSUME NEW i, DeactivateItem(i) \/ StockMoves(i) PROVE ShelvesInv'
  BY <1>6, DeactivateItemKeeps, StockMovesKeeps
<1> QED BY <1>1, <1>2, <1>3, <1>4, <1>5, <1>6 DEF ShelvesNext

-----------------------------------------------------------------------------
(* Catalogue: rooms, trade, dishes                                         *)

LocationRow == [active : BOOLEAN, parent : StockLocations \cup {NoRow}, default : BOOLEAN]
RoomTypes == Rows(location) \subseteq StockLocations /\ \A l \in Rows(location) : location[l] \in LocationRow
OneDefault == \A a, b \in Rows(location) : location[a].default /\ location[b].default => a = b
RoomsInv == RoomTypes /\ TreeFits(location) /\ Rooted(location) /\ OneDefault

\* Before a row is made the default, those that were are not.
LEMMA ClearedIs ==
  ASSUME RoomTypes, NEW l
  PROVE  /\ Rows(Cleared(l)) = Rows(location)
         /\ l \in Rows(location) => Cleared(l)[l] = location[l]
         /\ \A m \in Rows(location) : /\ Cleared(l)[m] \in LocationRow /\ Cleared(l)[m].parent = location[m].parent
                                      /\ m # l => ~Cleared(l)[m].default
<1>1. /\ Rows(Cleared(l)) = Rows(location)
      /\ \A m \in Rows(location) :
           Cleared(l)[m] = IF m = l THEN location[m] ELSE [location[m] EXCEPT !.default = FALSE]
  BY DEF Cleared, Rows
<1>2. ASSUME NEW m \in Rows(location)
      PROVE  /\ [location[m] EXCEPT !.default = FALSE] \in LocationRow
             /\ [location[m] EXCEPT !.default = FALSE].parent = location[m].parent
             /\ ~[location[m] EXCEPT !.default = FALSE].default
             /\ location[m] \in LocationRow
  <2>1. location[m] \in LocationRow
    BY DEF RoomTypes
  <2> QED BY <2>1 DEF LocationRow
<1> QED BY <1>1, <1>2


LEMMA RoomsMove ==
  ASSUME RoomsInv, RoomTypes', TreeFits(location)', Rooted(location)', OneDefault' PROVE RoomsInv'
BY DEF RoomsInv

LEMMA CreateLocationKeeps ==
  ASSUME RoomsInv, NEW l \in StockLocations, NEW p \in StockLocations \cup {NoRow}, NEW default \in BOOLEAN,
         CreateLocation(l, p, default)
  PROVE  RoomsInv'
<1> DEFINE t == IF default THEN Cleared(NoRow) ELSE location
           q == [active |-> TRUE, parent |-> p, default |-> default]
<1>1. l \notin Rows(location) /\ p \in Rows(location) \cup {NoRow} /\ location' = With(t, l, q)
  BY DEF CreateLocation, Fresh, MayGrow, Activated
<1>2. q \in LocationRow /\ q.parent = p /\ q.default = default
  BY DEF LocationRow
<1>3. NoRow \notin Rows(location)
  BY GivenCatalogue DEF RoomsInv, RoomTypes
<1>4. /\ Rows(t) = Rows(location)
      /\ \A m \in Rows(location) : /\ t[m] \in LocationRow /\ t[m].parent = location[m].parent
                                   /\ IF default THEN ~t[m].default ELSE t[m].default = location[m].default
  <2>1. CASE default
    BY <1>3, <2>1, ClearedIs DEF RoomsInv
  <2>2. CASE ~default
    BY <2>2 DEF RoomsInv, RoomTypes
  <2> QED BY <2>1, <2>2
<1> HIDE DEF t, q
<1>5. /\ Rows(location') = Rows(location) \cup {l} /\ location'[l] = q
      /\ \A m \in Rows(location) : location'[m] = t[m]
  BY <1>1, <1>4, WithIs
<1>6. RoomTypes'
  BY <1>2, <1>4, <1>5 DEF RoomsInv, RoomTypes, Rows
<1>7. TreeFits(location)' /\ Rooted(location)'
  <2> DEFINE o == location
             n == location'
  <2>1. /\ TreeFits(o) /\ Rooted(o) /\ l \notin Rows(o) /\ l # NoRow /\ Rows(n) = Rows(o) \cup {l}
        /\ \A m \in Rows(o) : n[m].parent = o[m].parent
        /\ n[l].parent \in Rows(o) \cup {NoRow}
    BY <1>1, <1>2, <1>4, <1>5, GivenCatalogue DEF RoomsInv
  <2> HIDE DEF o, n
  <2>2. TreeFits(n) /\ Rooted(n)
    BY <2>1, GrownRooted
  <2> QED BY <2>2 DEF TreeFits, Rooted, Rows, n
<1>8. OneDefault'
  <2>1. \A m \in Rows(location) : IF default THEN ~location'[m].default ELSE location'[m].default = location[m].default
    BY <1>4, <1>5
  <2>2. location'[l].default = default /\ Rows(location)' = Rows(location) \cup {l}
    BY <1>2, <1>5 DEF Rows
  <2>3. OneDefault
    BY DEF RoomsInv
  <2> QED BY <2>1, <2>2, <2>3 DEF OneDefault
<1> QED BY <1>6, <1>7, <1>8, RoomsMove

LEMMA UpdateLocationKeeps ==
  ASSUME RoomsInv, NEW l \in StockLocations, NEW p \in StockLocations \cup {NoRow}, NEW default \in BOOLEAN,
         UpdateLocation(l, p, default)
  PROVE  RoomsInv'
<1> DEFINE t == IF default THEN Cleared(l) ELSE location
<1>1. /\ l \in Rows(location) /\ MayHang(location, l, p)
      /\ location' = [t EXCEPT ![l].parent = p, ![l].default = default]
  BY DEF UpdateLocation
<1>2. NoRow \notin Rows(location) /\ IsFiniteSet(Rows(location))
  BY GivenCatalogue, FS_Subset DEF RoomsInv, RoomTypes
<1>3. /\ Rows(t) = Rows(location)
      /\ \A m \in Rows(location) : /\ t[m] \in LocationRow /\ t[m].parent = location[m].parent
                                   /\ m # l => IF default THEN ~t[m].default ELSE t[m].default = location[m].default
  <2>1. CASE default
    BY <2>1, ClearedIs DEF RoomsInv
  <2>2. CASE ~default
    BY <2>2 DEF RoomsInv, RoomTypes
  <2> QED BY <2>1, <2>2
<1> HIDE DEF t
<1>4. /\ Rows(location') = Rows(location) /\ location'[l] = [t[l] EXCEPT !.parent = p, !.default = default]
      /\ \A m \in Rows(location) : m # l => location'[m] = t[m]
  BY <1>1, <1>3 DEF Rows
<1>5. location'[l] \in LocationRow /\ location'[l].parent = p /\ location'[l].default = default
  <2>1. t[l] \in LocationRow
    BY <1>1, <1>3
  <2> QED BY <1>4, <2>1 DEF LocationRow
<1>6. RoomTypes'
  <2>1. \A m \in Rows(location) : location'[m] \in LocationRow
    BY <1>3, <1>4, <1>5
  <2> QED BY <1>4, <2>1 DEF RoomsInv, RoomTypes, Rows
<1>7. TreeFits(location)' /\ Rooted(location)'
  <2> DEFINE o == location
             n == location'
  <2>1. /\ TreeFits(o) /\ Rooted(o) /\ MayHang(o, l, p) /\ l \in Rows(o) /\ IsFiniteSet(Rows(o)) /\ NoRow \notin Rows(o)
        /\ Rows(n) = Rows(o) /\ \A m \in Rows(o) : m # l => n[m].parent = o[m].parent
        /\ n[l].parent = p
    BY <1>1, <1>2, <1>3, <1>4, <1>5 DEF RoomsInv
  <2> HIDE DEF o, n
  <2>2. TreeFits(n) /\ Rooted(n)
    BY <2>1, HungRooted
  <2> QED BY <2>2 DEF TreeFits, Rooted, Rows, n
<1>8. OneDefault'
  <2>1. \A m \in Rows(location) : m # l =>
          IF default THEN ~location'[m].default ELSE location'[m].default = location[m].default
    BY <1>3, <1>4
  <2>2. location'[l].default = default /\ Rows(location)' = Rows(location)
    BY <1>4, <1>5 DEF Rows
  <2>3. OneDefault
    BY DEF RoomsInv
  <2> QED BY <2>1, <2>2, <2>3 DEF OneDefault
<1> QED BY <1>6, <1>7, <1>8, RoomsMove

\* Only flags change.
LEMMA RoomsStay ==
  ASSUME RoomsInv, Rows(location') = Rows(location),
         \A m \in Rows(location) : location'[m] \in LocationRow /\ location'[m].parent = location[m].parent,
         OneDefault'
  PROVE  RoomsInv'
<1>1. RoomTypes'
  BY DEF RoomsInv, RoomTypes, Rows
<1>2. TreeFits(location)' /\ Rooted(location)'
  <2> DEFINE o == location
             n == location'
  <2>1. TreeFits(o) /\ Rooted(o) /\ Rows(n) = Rows(o) /\ \A m \in Rows(o) : n[m].parent = o[m].parent
    BY DEF RoomsInv
  <2> HIDE DEF o, n
  <2>2. TreeFits(n) /\ Rooted(n)
    BY <2>1, StillRooted
  <2> QED BY <2>2 DEF TreeFits, Rooted, Rows, n
<1> QED BY <1>1, <1>2, RoomsMove

LEMMA DeactivateLocationKeeps == ASSUME RoomsInv, NEW l, DeactivateLocation(l) PROVE RoomsInv'
<1>1. PICK S : location' = Retired(location, S)
  BY DEF DeactivateLocation
<1>2. /\ Rows(location') = Rows(location)
      /\ \A m \in Rows(location) : location'[m] = IF m \in S THEN [location[m] EXCEPT !.active = FALSE] ELSE location[m]
  BY <1>1, RetiredIs
<1>3. ASSUME NEW m \in Rows(location)
      PROVE  /\ location'[m] \in LocationRow /\ location'[m].parent = location[m].parent
             /\ location'[m].default = location[m].default
  <2>1. location[m] \in LocationRow
    BY DEF RoomsInv, RoomTypes
  <2> QED BY <1>2, <2>1 DEF LocationRow
<1>4. OneDefault'
  BY <1>2, <1>3 DEF RoomsInv, OneDefault, Rows
<1> QED BY <1>2, <1>3, <1>4, RoomsStay

LEMMA SetDefaultLocationKeeps == ASSUME RoomsInv, NEW l, SetDefaultLocation(l) PROVE RoomsInv'
<1> DEFINE t == Cleared(l)
<1>1. l \in Rows(location) /\ location' = [t EXCEPT ![l].default = TRUE]
  BY DEF SetDefaultLocation, Activated
<1>2. /\ Rows(t) = Rows(location)
      /\ \A m \in Rows(location) : /\ t[m] \in LocationRow /\ t[m].parent = location[m].parent
                                   /\ m # l => ~t[m].default
  BY ClearedIs DEF RoomsInv
<1> HIDE DEF t
<1>3. /\ Rows(location') = Rows(location) /\ location'[l] = [t[l] EXCEPT !.default = TRUE]
      /\ \A m \in Rows(location) : m # l => location'[m] = t[m]
  BY <1>1, <1>2 DEF Rows
<1>4. location'[l] \in LocationRow /\ location'[l].parent = location[l].parent
  <2>1. t[l] \in LocationRow /\ t[l].parent = location[l].parent
    BY <1>1, <1>2
  <2> QED BY <1>3, <2>1 DEF LocationRow
<1>5. OneDefault'
  <2>1. \A m \in Rows(location)' : m # l => ~location'[m].default
    BY <1>2, <1>3 DEF Rows
  <2> QED BY <2>1 DEF OneDefault
<1>6. \A m \in Rows(location) : location'[m] \in LocationRow /\ location'[m].parent = location[m].parent
  BY <1>2, <1>3, <1>4
<1> QED BY <1>3, <1>5, <1>6, RoomsStay

LEMMA RoomsSame == ASSUME RoomsInv, UNCHANGED location PROVE RoomsInv'
BY DEF RoomsInv, RoomTypes, TreeFits, Rooted, OneDefault, Rows

LEMMA RoomsKeep == ASSUME RoomsInv, RoomsNext PROVE RoomsInv'
<1>1. PICK l \in StockLocations :
        \/ \E p \in StockLocations \cup {NoRow}, default \in BOOLEAN :
             CreateLocation(l, p, default) \/ UpdateLocation(l, p, default)
        \/ DeactivateLocation(l) \/ SetDefaultLocation(l) \/ RoomFills(l)
  BY DEF RoomsNext
<1>2. ASSUME NEW p \in StockLocations \cup {NoRow}, NEW default \in BOOLEAN,
             CreateLocation(l, p, default) \/ UpdateLocation(l, p, default)
      PROVE  RoomsInv'
  BY <1>2, CreateLocationKeeps, UpdateLocationKeeps
<1>3. CASE RoomFills(l)
  BY <1>3, RoomsSame DEF RoomFills
<1> QED BY <1>1, <1>2, <1>3, DeactivateLocationKeeps, SetDefaultLocationKeeps

OfferRow == Suppliers \X StockItems
TradeInv ==
  /\ Rows(offer) \subseteq OfferRow
  /\ \A a, b \in Rows(offer) : a[2] = b[2] /\ offer[a] = TRUE /\ offer[b] = TRUE => a = b
  /\ \A x \in Rows(offer) : offer[x] \in BOOLEAN

LEMMA TradeSame == ASSUME TradeInv, UNCHANGED offer PROVE TradeInv'
BY DEF TradeInv, Rows

LEMMA AddOfferKeeps ==
  ASSUME TradeInv, NEW s \in Suppliers, NEW i \in StockItems, NEW preferred \in BOOLEAN, AddOffer(s, i, preferred)
  PROVE  TradeInv'
<1> DEFINE t == IF preferred THEN NotPreferred(i) ELSE offer
           x == <<s, i>>
<1>1. x \notin Rows(offer) /\ offer' = With(t, x, preferred)
  BY DEF AddOffer, Fresh
<1>2. x \in OfferRow /\ x[2] = i
  BY DEF OfferRow
<1> HIDE DEF x
<1>3. /\ Rows(t) = Rows(offer)
      /\ \A y \in Rows(offer) : t[y] \in BOOLEAN /\ t[y] = IF preferred /\ y[2] = i THEN FALSE ELSE offer[y]
  <2>1. CASE preferred
    BY <2>1 DEF NotPreferred, Rows, TradeInv
  <2>2. CASE ~preferred
    BY <2>2 DEF TradeInv
  <2> QED BY <2>1, <2>2
<1> HIDE DEF t
<1>4. /\ Rows(offer') = Rows(offer) \cup {x} /\ offer'[x] = preferred
      /\ \A y \in Rows(offer) : offer'[y] = t[y]
  BY <1>1, <1>3, WithIs
<1>5. Rows(offer)' = Rows(offer) \cup {x}
  BY <1>4 DEF Rows
<1>6. ASSUME NEW a \in Rows(offer)', NEW b \in Rows(offer)', a[2] = b[2], offer'[a] = TRUE, offer'[b] = TRUE
      PROVE  a = b
  <2>1. CASE a \in Rows(offer) /\ b \in Rows(offer)
    <3>1. offer[a] = TRUE /\ offer[b] = TRUE
      BY <1>3, <1>4, <1>6, <2>1
    <3> QED BY <1>6, <2>1, <3>1 DEF TradeInv
  <2>2. ASSUME NEW y \in Rows(offer), y[2] = i, offer'[y] = TRUE, offer'[x] = TRUE PROVE FALSE
    BY <1>3, <1>4, <2>2
  <2> QED BY <1>2, <1>5, <1>6, <2>1, <2>2
<1> QED BY <1>2, <1>3, <1>4, <1>5, <1>6 DEF TradeInv

LEMMA TradeKeeps == ASSUME TradeInv, TradeNext PROVE TradeInv'
<1>1. ASSUME NEW s \in Suppliers, CreateSupplier(s) \/ DeactivateSupplier(s) PROVE TradeInv'
  BY <1>1, TradeSame DEF CreateSupplier, DeactivateSupplier
<1>2. ASSUME NEW s \in Suppliers, NEW i \in StockItems, NEW preferred \in BOOLEAN, AddOffer(s, i, preferred) PROVE TradeInv'
  BY <1>2, AddOfferKeeps
<1> QED BY <1>1, <1>2 DEF TradeNext

\* A product has one link for ever, whatever it is of.
LinkFits(q) == q \in [product : {q.product}, of : {q.of}, active : BOOLEAN, live : BOOLEAN]
DishesInv ==
  /\ \A l \in Rows(link) : LinkFits(link[l])
  /\ \A a, b \in Rows(link) : link[a].product = link[b].product => a = b

LEMMA DishesSame == ASSUME DishesInv, UNCHANGED link PROVE DishesInv'
BY DEF DishesInv, Rows

LEMMA NewLinkKeeps == ASSUME DishesInv, NEW l, NEW p, NEW of, MayLink(l, p), NewLink(l, p, of) PROVE DishesInv'
<1> DEFINE q == [product |-> p, of |-> of, active |-> TRUE, live |-> TRUE]
<1>1. l \notin Rows(link) /\ link' = With(link, l, q) /\ \A m \in Rows(link) : link[m].product # p
  BY DEF MayLink, NewLink, Fresh
<1>2. LinkFits(q) /\ q.product = p
  BY DEF LinkFits
<1> HIDE DEF q
<1>3. /\ Rows(link') = Rows(link) \cup {l} /\ link'[l] = q
      /\ \A y \in Rows(link) : link'[y] = link[y]
  BY <1>1, WithIs
<1> QED BY <1>1, <1>2, <1>3 DEF DishesInv, Rows

LEMMA LinkStays ==
  ASSUME DishesInv, NEW l \in Rows(link), NEW q, LinkFits(q), q.product = link[l].product, link' = [link EXCEPT ![l] = q]
  PROVE  DishesInv'
<1>1. /\ Rows(link') = Rows(link) /\ link'[l] = q
      /\ \A y \in Rows(link) : y # l => link'[y] = link[y]
  BY DEF Rows
<1> QED BY <1>1 DEF DishesInv, Rows

LEMMA UpdateLinkKeeps == ASSUME DishesInv, NEW l, NEW active \in BOOLEAN, UpdateLink(l, active) PROVE DishesInv'
<1>1. l \in Rows(link) /\ link' = [link EXCEPT ![l] = [link[l] EXCEPT !.active = active]]
  BY DEF UpdateLink
<1>2. LinkFits(link[l])
  BY <1>1 DEF DishesInv
<1>3. LinkFits([link[l] EXCEPT !.active = active]) /\ [link[l] EXCEPT !.active = active].product = link[l].product
  BY <1>2 DEF LinkFits
<1> QED BY <1>1, <1>3, LinkStays

LEMMA UnlinkKeeps == ASSUME DishesInv, NEW p, Unlink(p) PROVE DishesInv'
<1>1. PICK l \in LiveLinks(p) : link' = [link EXCEPT ![l].live = FALSE]
  BY DEF Unlink
<1>2. l \in Rows(link) /\ link' = [link EXCEPT ![l] = [link[l] EXCEPT !.live = FALSE]]
  BY <1>1 DEF LiveLinks
<1>3. LinkFits(link[l])
  BY <1>2 DEF DishesInv
<1>4. LinkFits([link[l] EXCEPT !.live = FALSE]) /\ [link[l] EXCEPT !.live = FALSE].product = link[l].product
  BY <1>3 DEF LinkFits
<1> QED BY <1>2, <1>4, LinkStays

LEMMA DishesKeep == ASSUME DishesInv, DishesNext PROVE DishesInv'
<1>1. CASE UNCHANGED link
  BY <1>1, DishesSame
<1>2. ASSUME NEW l, NEW p, NEW of, MayLink(l, p), NewLink(l, p, of) PROVE DishesInv'
  BY <1>2, NewLinkKeeps
<1>3. ASSUME NEW l, NEW active \in BOOLEAN, UpdateLink(l, active) PROVE DishesInv'
  BY <1>3, UpdateLinkKeeps
<1>4. ASSUME NEW p, Unlink(p) PROVE DishesInv'
  BY <1>4, UnlinkKeeps
<1>5. DishesNext => \/ UNCHANGED link
                    \/ \E l, p, of : MayLink(l, p) /\ NewLink(l, p, of)
                    \/ \E l : \E active \in BOOLEAN : UpdateLink(l, active)
                    \/ \E p : Unlink(p)
  BY DEF DishesNext, CreateRecipe, DeactivateRecipe, AddIngredient, RemoveIngredient, UpdateIngredient,
         LinkToRecipe, LinkToItem, LinkWithComponents
<1> QED BY <1>1, <1>2, <1>3, <1>4, <1>5

-----------------------------------------------------------------------------
(* Catalogue: the four together                                            *)

CatalogueInv == ShelvesInv /\ RoomsInv /\ TradeInv /\ DishesInv

LEMMA CatalogueBegins == CatalogueInit => CatalogueInv
<1> SUFFICES ASSUME CatalogueInit PROVE CatalogueInv
  OBVIOUS
<1>1. /\ Rows(category) = {} /\ Rows(unit) = {} /\ Rows(stockItem) = {} /\ Rows(location) = {}
      /\ Rows(offer) = {} /\ Rows(link) = {}
  BY DEF CatalogueInit, Nothing, Rows
<1>2. ShelvesInv
  BY <1>1 DEF ShelvesInv, ShelfTypes, TreeFits, Rooted, ItemsAreHoused, OneBase
<1>3. RoomsInv
  BY <1>1 DEF RoomsInv, RoomTypes, TreeFits, Rooted, OneDefault
<1> QED BY <1>1, <1>2, <1>3 DEF CatalogueInv, TradeInv, DishesInv

LEMMA ShelvesSame == ASSUME ShelvesInv, UNCHANGED shelfVars PROVE ShelvesInv'
BY DEF ShelvesInv, ShelfTypes, TreeFits, Rooted, ItemsAreHoused, OneBase, IsBase, Activated, Rows, shelfVars

LEMMA ShelveKeeps == ASSUME ShelvesInv, Shelve PROVE ShelvesInv'
<1>1. PICK u : u = CHOOSE v \in StockUnits : TRUE
  OBVIOUS
<1>2. u \in StockUnits
  BY <1>1, GivenCatalogue
<1>3. \/ \E t \in UnitTypes : CreateUnit(u, t, NoRow)
      \/ \E i \in StockItems : CreateItem(i, u, NoRow)
  BY <1>1 DEF Shelve
<1> QED BY <1>2, <1>3, CreateUnitKeeps, CreateItemKeeps

LEMMA CatalogueKeeps == CatalogueInv /\ [CatalogueScene]_catalogueVars => CatalogueInv'
<1> SUFFICES ASSUME CatalogueInv, [CatalogueScene]_catalogueVars PROVE CatalogueInv'
  OBVIOUS
<1>1. CatalogueScene \/ UNCHANGED catalogueVars =>
        /\ ShelvesNext \/ Shelve \/ (\E i : DeactivateItem(i)) \/ UNCHANGED shelfVars
        /\ RoomsNext \/ UNCHANGED location
        /\ TradeNext \/ UNCHANGED offer
        /\ DishesNext \/ UNCHANGED link
  BY DEF CatalogueScene, catalogueVars, shelfVars, roomVars, tradeVars, dishVars
<1>2. ShelvesInv'
  BY <1>1, ShelvesKeep, ShelveKeeps, DeactivateItemKeeps, ShelvesSame DEF CatalogueInv
<1>3. RoomsInv' /\ TradeInv' /\ DishesInv'
  BY <1>1, RoomsKeep, RoomsSame, TradeKeeps, TradeSame, DishesKeep, DishesSame DEF CatalogueInv
<1> QED BY <1>2, <1>3 DEF CatalogueInv

LEMMA FewIs == ASSUME NEW S, \A a, b \in S : a = b PROVE AtMostOne(S)
<1>1. CASE S = {}
  BY <1>1, FS_EmptySet DEF AtMostOne
<1>2. CASE S # {}
  <2>1. PICK a : a \in S
    BY <1>2
  <2>2. S = {a}
    BY <2>1
  <2>3. Cardinality({a}) = 1
    BY FS_Singleton
  <2> QED BY <2>2, <2>3 DEF AtMostOne
<1> QED BY <1>1, <1>2

LEMMA CatalogueSays == CatalogueInv => CatalogueStands
<1> SUFFICES ASSUME CatalogueInv PROVE CatalogueStands
  OBVIOUS
<1>1. TreesHaveRoots
  BY DEF CatalogueInv, ShelvesInv, RoomsInv, TreesHaveRoots, Rooted
<1>2. ItemsAreHoused
  BY DEF CatalogueInv, ShelvesInv
<1>3. AtMostOne({l \in Rows(location) : location[l].default})
  <2> DEFINE S == {l \in Rows(location) : location[l].default}
  <2>1. \A a, b \in S : a = b
    BY DEF CatalogueInv, RoomsInv, OneDefault
  <2> QED BY <2>1, FewIs
<1>4. ASSUME NEW i \in StockItems PROVE AtMostOne({x \in Rows(offer) : x[2] = i /\ offer[x]})
  <2> DEFINE S == {x \in Rows(offer) : x[2] = i /\ offer[x]}
  <2>1. \A a, b \in S : a = b
    BY DEF CatalogueInv, TradeInv
  <2> QED BY <2>1, FewIs
<1>5. ASSUME NEW t \in UnitTypes
      PROVE  AtMostOne({u \in Rows(unit) : unit[u].type = t /\ unit[u].of = NoRow /\ unit[u].active})
  <2> DEFINE S == {u \in Rows(unit) : unit[u].type = t /\ unit[u].of = NoRow /\ unit[u].active}
  <2>1. \A a, b \in S : a = b
    BY DEF CatalogueInv, ShelvesInv, OneBase, IsBase
  <2> QED BY <2>1, FewIs
<1>6. ASSUME NEW p \in Products PROVE AtMostOne(LiveLinks(p))
  <2>1. \A a, b \in LiveLinks(p) : a = b
    BY DEF CatalogueInv, DishesInv, LiveLinks
  <2> QED BY <2>1, FewIs
<1> QED BY <1>1, <1>2, <1>3, <1>4, <1>5, <1>6 DEF CatalogueStands, OneOfEach
-----------------------------------------------------------------------------
(* Side by side: a step of Office is a step of each component, or leaves it. *)

LEMMA SystemBegins ==
  Init => FiscalInv /\ AccountsInv /\ LicenceInv /\ ShellInv /\ MenuInv /\ FloorInv /\ CatalogueInv
BY FiscalBegins, AccountsBegin, LicenceBegins, ShellBegins, MenuBegins, FloorBegins, CatalogueBegins DEF Init

LEMMA SystemSteps ==
  [Next]_vars => /\ [FiscalNext]_fiscalVars /\ [AccountsNext]_accountVars
                 /\ [LicenceNext]_licenceVars /\ [ShellNext]_shellVars
                 /\ [MenuNext]_menuVars /\ [FloorNext]_floorVars
                 /\ [CatalogueScene]_catalogueVars
BY DEF Next, vars, systemVars, SystemScene

-----------------------------------------------------------------------------
(* What always holds.                                                      *)

\* Whatever payments, buttons, sweeps, edits and deaths happened in between, a receipt is confirmed
\* only if the provider took it on, a sale that nothing happened to is reported once, and the lines
\* of what is sent sum to its total (fiscalization_service.py, builder.py).
THEOREM ReceiptsAreAlwaysTrue == Spec => []ReceiptsAreTrue
<1>1. FiscalInv => ReceiptsAreTrue
  BY DEF FiscalInv, AllSound, Sound, ReceiptsAreTrue, ReceiptsTell
<1> QED BY <1>1, SystemBegins, SystemSteps, FiscalKeeps, PTL DEF Spec

\* Whoever saves an account or ends a session, in whatever order the signals, commits and lookups
\* come, a copy in the cache is the account as it stands and its session is alive, but for copies
\* put there late and the moment before a save is signalled (repositories/session.py, signals.py).
THEOREM CopiesAreAlwaysCurrent == Spec => []CopiesAreCurrent
<1>1. AccountsInv => CopiesAreCurrent
  BY DEF AccountsInv, AllCurrent, CopyStands, CopiesAreCurrent
<1> QED BY <1>1, SystemBegins, SystemSteps, AccountsKeep, PTL DEF Spec

\* Whatever order answers, setups, saves by hand, requests and the clock come in, the licence stands
\* as the newest answer said unless the install changed it itself, and a licence that blocks is
\* let through for no longer than the two caches live (heartbeat.py, state.py, models.py).
THEOREM LicenceAlwaysFollows == Spec => []LicenceFollows
BY LicenceSays, SystemBegins, SystemSteps, LicenceKeeps, PTL DEF Spec

\* Whatever is clicked, wherever the program dies and however often it comes up again, the keys, the
\* password that is shown, the server and the secret belong together, but for two threads in the
\* middle of the same thing and two deaths at the wrong moment (server_manager.py, config_store.py).
THEOREM ShellAlwaysHolds == Spec => []ShellHolds
<1>1. ShellInv => ShellHolds
  BY DEF ShellInv
<1> QED BY <1>1, SystemBegins, SystemSteps, ShellKeeps, PTL DEF Spec

\* Whoever edits, looks up, sits down and calls off at once, and wherever a request dies: what is
\* shown of the menu is what is in the database, a price is the one the log ends with, two places do
\* not share a name, a table that is switched on has a place, one where guests sit is not shown as
\* free, and the database need not refuse what was checked; but for rows that two requests were in
\* the middle of at once (product_service.py, category_service.py, place_service.py,
\* table_service.py).
THEOREM HouseAlwaysStands == Spec => []HouseStands
<1>1. MenuInv /\ FloorInv => HouseStands
  BY MenuStandsSo, FloorStandsSo DEF HouseStands
<1> QED BY <1>1, SystemBegins, SystemSteps, MenuKeeps, FloorKeeps, PTL DEF Spec

\* However categories and locations are hung elsewhere they stay trees, what is in use keeps a unit
\* and a category that are, and there is one default location, one preferred offer of an item, one
\* base unit of a type and one link of a product, whoever asks for what in whatever order
\* (category_service.py, location_service.py, supplier_service.py, product_link_service.py).
THEOREM CatalogueAlwaysStands == Spec => []CatalogueStands
BY CatalogueSays, SystemBegins, SystemSteps, CatalogueKeeps, PTL DEF Spec
=============================================================================
