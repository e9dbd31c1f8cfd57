----------------------------- MODULE Office_proof -----------------------------
(***************************************************************************)
(* What holds of the office for every value of its constants: discounts,   *)
(* payroll, leave and files, loyalty, carts and notices. Each has an         *)
(* invariant of its own; the last section puts them side by side, as Office does. *)
(***************************************************************************)
EXTENDS Office, Sums, NaturalsInduction

-----------------------------------------------------------------------------
(* Helpers                                                                 *)

\* A set of numbers has a least one.
LEMMA LeastIs ==
  ASSUME NEW S, S \subseteq Nat, S # {}
  PROVE  Min(S) \in S
<1>1. PICK n \in S : \A m \in S : ~(<<m, n>> \in OpToRel(<, Nat))
  BY NatLessThanWellFounded, WFMin
<1>2. \A m \in S : ~(m < n)
  BY <1>1, Zenon DEF OpToRel
<1>3. \A m \in S : n <= m
  BY <1>2
<1> QED BY <1>3 DEF Min

\* A sum over a longer sequence.
LEMMA SumOfOneMore ==
  ASSUME NEW n \in Nat, NEW f, NEW g, DOMAIN f = 1 .. n, DOMAIN g = 1 .. n + 1,
         \A i \in 1 .. n : f[i] \in Int /\ g[i] = f[i], g[n + 1] \in Int
  PROVE  /\ SumFunction(f) \in Int
         /\ SumFunction(g) = SumFunction(f) + g[n + 1]
<1>1. IsFiniteSet(1 .. n) /\ n + 1 \notin 1 .. n /\ (1 .. n) \cup {n + 1} = 1 .. n + 1
  <2>1. 1 \in Int /\ n \in Int
    OBVIOUS
  <2>2. IsFiniteSet(1 .. n)
    BY <2>1, FS_Interval
  <2> QED BY <2>2
<1>2. SumFunctionOnSet(g, 1 .. n) = SumFunctionOnSet(f, 1 .. n)
  BY <1>1, SumSame
<1>3. SumFunctionOnSet(f, 1 .. n) \in Int
  BY <1>1, SumIsInt
<1>4. SumFunctionOnSet(g, (1 .. n) \cup {n + 1}) = g[n + 1] + SumFunctionOnSet(g, 1 .. n)
  BY <1>1, SumGains
<1>5. SumFunctionOnSet(g, 1 .. n + 1) = SumFunctionOnSet(f, 1 .. n) + g[n + 1]
  <2> DEFINE A == 1 .. n
             B == 1 .. n + 1
             x == g[n + 1]
             y == SumFunctionOnSet(f, A)
             z == SumFunctionOnSet(g, B)
  <2>1. z = x + y /\ x \in Int /\ y \in Int
    BY <1>1, <1>2, <1>3, <1>4
  <2> HIDE DEF A, B, x, y, z
  <2>2. z = y + x
    BY <2>1
  <2> QED BY <2>2 DEF A, B, x, y, z
<1> QED BY <1>3, <1>5, Zenon DEF SumFunction

\* A longer sequence.
LEMMA OneMore ==
  ASSUME NEW S, NEW list \in Seq(S), NEW e \in S
  PROVE  /\ Append(list, e) \in Seq(S) /\ Len(list) \in Nat
         /\ DOMAIN list = 1 .. Len(list) /\ DOMAIN Append(list, e) = 1 .. Len(list) + 1
         /\ \A i \in 1 .. Len(list) : list[i] \in S /\ Append(list, e)[i] = list[i]
         /\ Append(list, e)[Len(list) + 1] = e
OBVIOUS

-----------------------------------------------------------------------------
(* Loyalty                                                                 *)

Credit == [of : Meals, stamps : Nat]
StampAccount == [balance : Int, earned : Int, redeemed : Int]
Reward == [to : Phones, spent : Nat]
LoyaltyTypes ==
  /\ meal \in [Meals -> [status : {"OPEN", "COMPLETED", "CANCELED"}, paid : BOOLEAN]]
  /\ loyal \in [on : BOOLEAN, each : Stamps, cost : Rewards]
  /\ account \in [Phones -> StampAccount]
  /\ credits \in Seq(Credit) /\ rewards \in Seq(Reward)
  /\ owing \subseteq Meals /\ turns \in Nat
LoyaltyInv == LoyaltyTypes /\ StampsAddUp

\* What a credit, or a reward, adds to the sum of a phone.
EarnedAt(p, list) == [i \in DOMAIN list |-> IF PhoneOf[list[i].of] = p THEN list[i].stamps ELSE 0]
SpentAt(p, list) == [i \in DOMAIN list |-> IF list[i].to = p THEN list[i].spent ELSE 0]

LEMMA GivenLoyalty ==
  /\ Stamps \subseteq Nat /\ Stamps # {} /\ Rewards \subseteq Nat /\ Rewards # {}
  /\ PhoneOf \in [Meals -> Phones \cup {NoPhone}] /\ NoPhone \notin Phones
BY LoyaltyAssumption

Earning(a, n) == [balance |-> a.balance + n, earned |-> a.earned + n, redeemed |-> a.redeemed]
Spending(a, n) == [balance |-> a.balance - n, earned |-> a.earned, redeemed |-> a.redeemed + n]

LEMMA StampAccountIs ==
  ASSUME NEW a \in StampAccount, NEW n \in Nat
  PROVE  /\ a.balance \in Int /\ a.earned \in Int /\ a.redeemed \in Int
         /\ Earning(a, n) \in StampAccount /\ Spending(a, n) \in StampAccount
         /\ Earning(a, n).balance = a.balance + n /\ Earning(a, n).earned = a.earned + n
         /\ Earning(a, n).redeemed = a.redeemed
         /\ Spending(a, n).balance = a.balance - n /\ Spending(a, n).earned = a.earned
         /\ Spending(a, n).redeemed = a.redeemed + n
BY DEF StampAccount, Earning, Spending

LEMMA OneMoreCredit ==
  ASSUME NEW list \in Seq(Credit), NEW m \in Meals, NEW n \in Nat, NEW p
  PROVE  /\ SumFunction(EarnedAt(p, list)) \in Int
         /\ SumFunction(EarnedAt(p, Append(list, [of |-> m, stamps |-> n]))) =
              SumFunction(EarnedAt(p, list)) + (IF PhoneOf[m] = p THEN n ELSE 0)
<1> DEFINE more == Append(list, [of |-> m, stamps |-> n])
           k == Len(list)
           f == EarnedAt(p, list)
           g == EarnedAt(p, more)
<1>1. /\ k \in Nat /\ DOMAIN list = 1 .. k /\ DOMAIN more = 1 .. k + 1
      /\ \A i \in 1 .. k : more[i] = list[i] /\ list[i].stamps \in Int
      /\ more[k + 1] = [of |-> m, stamps |-> n]
  <2>1. [of |-> m, stamps |-> n] \in Credit
    BY DEF Credit
  <2>2. \A e \in Credit : e.stamps \in Int
    BY DEF Credit
  <2> QED BY <2>1, <2>2, OneMore
<1>2. DOMAIN f = 1 .. k /\ DOMAIN g = 1 .. k + 1
  BY <1>1 DEF EarnedAt
<1>3. \A i \in 1 .. k : f[i] \in Int /\ g[i] = f[i]
  BY <1>1 DEF EarnedAt
<1>4. g[k + 1] = IF PhoneOf[m] = p THEN n ELSE 0
  BY <1>1 DEF EarnedAt
<1>5. g[k + 1] \in Int
  BY <1>4
<1> HIDE DEF f, g, k, more
<1>6. SumFunction(f) \in Int /\ SumFunction(g) = SumFunction(f) + g[k + 1]
  BY <1>1, <1>2, <1>3, <1>5, SumOfOneMore
<1> QED BY <1>4, <1>6 DEF f, g, more

LEMMA OneMoreReward ==
  ASSUME NEW list \in Seq(Reward), NEW to \in Phones, NEW n \in Nat, NEW p
  PROVE  /\ SumFunction(SpentAt(p, list)) \in Int
         /\ SumFunction(SpentAt(p, Append(list, [to |-> to, spent |-> n]))) =
              SumFunction(SpentAt(p, list)) + (IF to = p THEN n ELSE 0)
<1> DEFINE more == Append(list, [to |-> to, spent |-> n])
           k == Len(list)
           f == SpentAt(p, list)
           g == SpentAt(p, more)
<1>1. /\ k \in Nat /\ DOMAIN list = 1 .. k /\ DOMAIN more = 1 .. k + 1
      /\ \A i \in 1 .. k : more[i] = list[i] /\ list[i].spent \in Int
      /\ more[k + 1] = [to |-> to, spent |-> n]
  <2>1. [to |-> to, spent |-> n] \in Reward
    BY DEF Reward
  <2>2. \A e \in Reward : e.spent \in Int
    BY DEF Reward
  <2> QED BY <2>1, <2>2, OneMore
<1>2. DOMAIN f = 1 .. k /\ DOMAIN g = 1 .. k + 1
  BY <1>1 DEF SpentAt
<1>3. \A i \in 1 .. k : f[i] \in Int /\ g[i] = f[i]
  BY <1>1 DEF SpentAt
<1>4. g[k + 1] = IF to = p THEN n ELSE 0
  BY <1>1 DEF SpentAt
<1>5. g[k + 1] \in Int
  BY <1>4
<1> HIDE DEF f, g, k, more
<1>6. SumFunction(f) \in Int /\ SumFunction(g) = SumFunction(f) + g[k + 1]
  BY <1>1, <1>2, <1>3, <1>5, SumOfOneMore
<1> QED BY <1>4, <1>6 DEF f, g, more

LEMMA SumsOfPhone ==
  /\ \A p : EarnedBy(p) = SumFunction(EarnedAt(p, credits))
  /\ \A p : SpentBy(p) = SumFunction(SpentAt(p, rewards))
BY DEF EarnedBy, SpentBy, EarnedAt, SpentAt

LEMMA SumsOfPhoneNext ==
  /\ \A p : EarnedBy(p)' = SumFunction(EarnedAt(p, credits'))
  /\ \A p : SpentBy(p)' = SumFunction(SpentAt(p, rewards'))
BY DEF EarnedBy, SpentBy, EarnedAt, SpentAt

\* Nothing that the books of the stamps are made of changes.
LEMMA StampsStay ==
  ASSUME StampsAddUp, UNCHANGED <<credits, rewards, account>>, owing' \subseteq owing \cup {m \in Meals : Credited(m)}
  PROVE  StampsAddUp'
<1>1. \A p : EarnedBy(p)' = EarnedBy(p) /\ SpentBy(p)' = SpentBy(p)
  <2>1. /\ \A p : EarnedAt(p, credits') = EarnedAt(p, credits)
        /\ \A p : SpentAt(p, rewards') = SpentAt(p, rewards)
    OBVIOUS
  <2> QED BY <2>1, SumsOfPhone, SumsOfPhoneNext
<1> QED BY <1>1 DEF StampsAddUp, Credited

LEMMA LoyaltyBegins == LoyaltyInit => LoyaltyInv
<1> SUFFICES ASSUME LoyaltyInit PROVE LoyaltyInv
  OBVIOUS
<1>1. Min(Stamps) \in Stamps /\ Min(Rewards) \in Rewards
  BY GivenLoyalty, LeastIs
<1>2. LoyaltyTypes
  BY <1>1 DEF LoyaltyInit, LoyaltyTypes, NoStamps, StampAccount
<1>3. DOMAIN credits = {} /\ DOMAIN rewards = {}
  BY DEF LoyaltyInit
<1>4. \A p \in Phones : EarnedBy(p) = 0 /\ SpentBy(p) = 0
  BY <1>3, SumOfNone DEF EarnedBy, SpentBy, SumFunction
<1>5. StampsAddUp
  BY <1>3, <1>4 DEF StampsAddUp, LoyaltyInit, NoStamps
<1> QED BY <1>2, <1>5 DEF LoyaltyInv

\* A meal changes, and is credited or not.
LEMMA AccrueKeeps ==
  ASSUME LoyaltyInv, NEW m \in Meals,
         NEW to \in [status : {"OPEN", "COMPLETED", "CANCELED"}, paid : BOOLEAN],
         SetMeal(m, to), Accrue(m, to)
  PROVE  LoyaltyInv'
<1> USE DEF LoyaltyInv, LoyaltyTypes
<1>1. /\ meal' \in [Meals -> [status : {"OPEN", "COMPLETED", "CANCELED"}, paid : BOOLEAN]]
      /\ UNCHANGED <<loyal, rewards>> /\ turns' \in Nat
  BY DEF SetMeal, Turn
<1>2. CASE ~Eligible(m, to)
  <2>1. UNCHANGED <<credits, account, owing>>
    BY <1>2 DEF Accrue
  <2> QED BY <1>1, <2>1, StampsStay
<1>3. CASE Eligible(m, to) /\ Credited(m)
  <2>1. UNCHANGED <<credits, account>> /\ owing' = owing \cup {m}
    BY <1>3 DEF Accrue
  <2> QED BY <1>1, <1>3, <2>1, StampsStay
<1>4. CASE Eligible(m, to) /\ ~Credited(m)
  <2>2. PhoneOf[m] \in Phones /\ loyal.each \in Nat
    BY <1>4, GivenLoyalty DEF Eligible
  <2>1. PICK q \in Phones, n \in Nat :
        /\ q = PhoneOf[m]
        /\ credits' = Append(credits, [of |-> m, stamps |-> n])
        /\ account' = [account EXCEPT ![q] =
             Earning(account[q], n)]
        /\ owing' = owing \cup {m}
    BY <1>4, <2>2 DEF Accrue, Earning
  <2>3. credits' \in Seq(Credit)
    BY <2>1, <2>2 DEF Credit
  <2>4. /\ DOMAIN credits' = 1 .. Len(credits) + 1 /\ DOMAIN credits = 1 .. Len(credits)
        /\ \A i \in DOMAIN credits : credits'[i] = credits[i]
        /\ credits'[Len(credits) + 1].of = m
    BY <2>1, <2>3 DEF Credit
  <2>5. \A i, j \in DOMAIN credits' : credits'[i].of = credits'[j].of => i = j
    BY <1>4, <2>4 DEF StampsAddUp, Credited
  <2>6. ASSUME NEW k \in owing'
        PROVE  \E i \in DOMAIN credits' : credits'[i].of = k
    <3>1. CASE k = m
      BY <2>4, <3>1, <2>3, OneMore
    <3>2. CASE k # m
      <4>1. PICK i \in DOMAIN credits : credits[i].of = k
        BY <2>1, <3>2 DEF StampsAddUp
      <4> QED BY <2>4, <4>1
    <3> QED BY <3>1, <3>2
  <2>7. ASSUME NEW p \in Phones
        PROVE  /\ p = q => account'[p] = Earning(account[p], n)
               /\ p # q => account'[p] = account[p]
               /\ account[p] \in StampAccount
    BY <2>1, <2>2
  <2>8. account' \in [Phones -> StampAccount]
    <3>1. ASSUME NEW p \in Phones
          PROVE  account'[p] \in StampAccount
      <4>1. CASE p = q
        <5> HIDE DEF LoyaltyInv, LoyaltyTypes
        <5>1. account[p] \in StampAccount /\ account'[p] = Earning(account[p], n)
          BY <2>7, <4>1
        <5>2. Earning(account[p], n) \in StampAccount
          BY <2>1, <5>1, StampAccountIs
        <5> QED BY <5>1, <5>2
      <4>2. CASE p # q
        BY <2>7, <4>2
      <4> QED BY <4>1, <4>2
    <3>2. account' = [p \in Phones |-> account'[p]]
      BY <2>1
    <3> QED BY <3>1, <3>2
  <2>9. ASSUME NEW p \in Phones
        PROVE  /\ account'[p].balance >= 0
               /\ account'[p].balance = EarnedBy(p)' - SpentBy(p)'
               /\ account'[p].earned = EarnedBy(p)' /\ account'[p].redeemed = SpentBy(p)'
    <3>1. /\ EarnedBy(p) = SumFunction(EarnedAt(p, credits)) /\ SpentBy(p)' = SpentBy(p)
          /\ EarnedBy(p)' = SumFunction(EarnedAt(p, credits'))
      BY <1>1, SumsOfPhone, SumsOfPhoneNext DEF SpentBy
    <3>2. /\ EarnedBy(p) \in Int /\ EarnedBy(p)' = EarnedBy(p) + (IF q = p THEN n ELSE 0)
      BY <2>1, <3>1, OneMoreCredit
    <3>3. /\ account[p].balance >= 0
          /\ account[p].balance = EarnedBy(p) - SpentBy(p)
          /\ account[p].earned = EarnedBy(p) /\ account[p].redeemed = SpentBy(p)
      BY DEF StampsAddUp
    <3>4. CASE p = q
      <4>1. /\ account'[p].balance = account[p].balance + n
            /\ account'[p].earned = account[p].earned + n /\ account'[p].redeemed = account[p].redeemed
        <5> HIDE DEF LoyaltyInv, LoyaltyTypes
        <5> QED BY <2>7, <3>4, StampAccountIs
      <4>2. account[p].balance \in Int /\ account[p].redeemed \in Int /\ SpentBy(p) = account[p].redeemed
        BY <2>7, <3>3, StampAccountIs
      <4> HIDE DEF LoyaltyInv, LoyaltyTypes
      <4> QED BY <3>1, <3>2, <3>3, <3>4, <4>1, <4>2
    <3>5. CASE p # q
      <4>1. account'[p] = account[p]
        BY <2>7, <3>5
      <4>2. EarnedBy(p)' = EarnedBy(p)
        BY <3>2, <3>5
      <4> QED BY <3>1, <3>3, <4>1, <4>2
    <3> QED BY <3>4, <3>5
  <2> QED BY <1>1, <2>1, <2>3, <2>5, <2>6, <2>8, <2>9 DEF StampsAddUp
<1> QED BY <1>2, <1>3, <1>4

LEMMA RedeemKeeps ==
  ASSUME LoyaltyInv, NEW q \in Phones, Redeem(q)
  PROVE  LoyaltyInv'
<1> USE DEF LoyaltyInv, LoyaltyTypes
<1> DEFINE n == loyal.cost
<1>1. /\ account' = [account EXCEPT ![q] =
           Spending(account[q], n)]
      /\ rewards' = Append(rewards, [to |-> q, spent |-> n])
      /\ account[q].balance >= n /\ UNCHANGED <<meal, loyal, credits, owing>> /\ turns' \in Nat
  BY DEF Redeem, Turn, Spending
<1>2. n \in Nat
  BY GivenLoyalty
<1>3. rewards' \in Seq(Reward)
  BY <1>1, <1>2 DEF Reward
<1>4. ASSUME NEW p \in Phones
      PROVE  /\ p = q => account'[p] = Spending(account[p], n)
             /\ p # q => account'[p] = account[p]
             /\ account[p] \in StampAccount
  BY <1>1, <1>2
<1>5. account' \in [Phones -> StampAccount]
  <2>1. ASSUME NEW p \in Phones
        PROVE  account'[p] \in StampAccount
    <3> HIDE DEF n
    <3>1. CASE p = q
      <4> HIDE DEF LoyaltyInv, LoyaltyTypes
      <4>1. account[p] \in StampAccount /\ account'[p] = Spending(account[p], n)
        BY <1>4, <3>1
      <4>2. Spending(account[p], n) \in StampAccount
        BY <1>2, <4>1, StampAccountIs
      <4> QED BY <4>1, <4>2
    <3>2. CASE p # q
      BY <1>4, <3>2
    <3> QED BY <3>1, <3>2
  <2>2. account' = [p \in Phones |-> account'[p]]
    BY <1>1
  <2> HIDE DEF n
  <2> QED BY <2>1, <2>2
<1>6. ASSUME NEW p \in Phones
      PROVE  /\ account'[p].balance >= 0
             /\ account'[p].balance = EarnedBy(p)' - SpentBy(p)'
             /\ account'[p].earned = EarnedBy(p)' /\ account'[p].redeemed = SpentBy(p)'
  <2>1. /\ SpentBy(p) = SumFunction(SpentAt(p, rewards)) /\ EarnedBy(p)' = EarnedBy(p)
        /\ SpentBy(p)' = SumFunction(SpentAt(p, rewards'))
    BY <1>1, SumsOfPhone, SumsOfPhoneNext DEF EarnedBy
  <2>2. SpentBy(p) \in Int /\ SpentBy(p)' = SpentBy(p) + (IF q = p THEN n ELSE 0)
    BY <1>1, <1>2, <2>1, OneMoreReward
  <2>3. /\ account[p].balance >= 0
        /\ account[p].balance = EarnedBy(p) - SpentBy(p)
        /\ account[p].earned = EarnedBy(p) /\ account[p].redeemed = SpentBy(p)
    BY DEF StampsAddUp
  <2>4. p = q => account[p].balance >= n
    BY <1>1
  <2> HIDE DEF n
  <2>5. CASE p = q
    <3>1. /\ account'[p].balance = account[p].balance - n
          /\ account'[p].redeemed = account[p].redeemed + n /\ account'[p].earned = account[p].earned
      <4> HIDE DEF LoyaltyInv, LoyaltyTypes
      <4> QED BY <1>2, <1>4, <2>5, StampAccountIs
    <3>2. account[p].balance \in Int /\ account[p].earned \in Int
      BY <1>4, StampAccountIs
    <3> HIDE DEF LoyaltyInv, LoyaltyTypes
    <3> QED BY <1>2, <2>1, <2>2, <2>3, <2>4, <2>5, <3>1, <3>2
  <2>6. CASE p # q
    <3>1. account'[p] = account[p]
      BY <1>4, <2>6
    <3>2. SpentBy(p)' = SpentBy(p)
      BY <2>2, <2>6
    <3> QED BY <2>1, <2>3, <3>1, <3>2
  <2> QED BY <2>5, <2>6
<1> QED BY <1>1, <1>3, <1>5, <1>6 DEF StampsAddUp

LEMMA LoyaltyKeeps == LoyaltyInv /\ [LoyaltyNext]_loyaltyVars => LoyaltyInv'
<1> SUFFICES ASSUME LoyaltyInv, [LoyaltyNext]_loyaltyVars PROVE LoyaltyInv'
  OBVIOUS
<1>1. ASSUME NEW m \in Meals, NEW status \in {"OPEN", "COMPLETED", "CANCELED"}, SetMealStatus(m, status)
      PROVE  LoyaltyInv'
  <2>1. [meal[m] EXCEPT !.status = status] \in [status : {"OPEN", "COMPLETED", "CANCELED"}, paid : BOOLEAN]
    BY DEF LoyaltyInv, LoyaltyTypes
  <2> QED BY <1>1, <2>1, AccrueKeeps DEF SetMealStatus
<1>2. ASSUME NEW m \in Meals, PayMeal(m)
      PROVE  LoyaltyInv'
  <2>1. [meal[m] EXCEPT !.paid = TRUE] \in [status : {"OPEN", "COMPLETED", "CANCELED"}, paid : BOOLEAN]
    BY DEF LoyaltyInv, LoyaltyTypes
  <2> QED BY <1>2, <2>1, AccrueKeeps DEF PayMeal
<1>3. ASSUME NEW m \in Meals, UnpayMeal(m) \/ TillClosesMeal(m)
      PROVE  LoyaltyInv'
  <2>1. /\ UNCHANGED <<loyal, rewards, credits, account, owing>> /\ turns' \in Nat
        /\ meal' \in [Meals -> [status : {"OPEN", "COMPLETED", "CANCELED"}, paid : BOOLEAN]]
    <3>1. PICK to \in [status : {"OPEN", "COMPLETED", "CANCELED"}, paid : BOOLEAN] :
            SetMeal(m, to) /\ UNCHANGED <<credits, account, owing>>
      <4>1. /\ [meal[m] EXCEPT !.paid = FALSE] \in [status : {"OPEN", "COMPLETED", "CANCELED"}, paid : BOOLEAN]
            /\ [status |-> "COMPLETED", paid |-> TRUE] \in
                 [status : {"OPEN", "COMPLETED", "CANCELED"}, paid : BOOLEAN]
        BY DEF LoyaltyInv, LoyaltyTypes
      <4> QED BY <1>3, <4>1 DEF UnpayMeal, TillClosesMeal
    <3> QED BY <3>1 DEF SetMeal, Turn, LoyaltyInv, LoyaltyTypes
  <2> QED BY <2>1, StampsStay DEF LoyaltyInv, LoyaltyTypes
<1>4. ASSUME NEW on \in BOOLEAN, NEW each \in Stamps, NEW cost \in Rewards, SetLoyalty(on, each, cost)
      PROVE  LoyaltyInv'
  BY <1>4, StampsStay DEF SetLoyalty, Turn, LoyaltyInv, LoyaltyTypes
<1>5. CASE UNCHANGED loyaltyVars
  BY <1>5, StampsStay DEF loyaltyVars, LoyaltyInv, LoyaltyTypes
<1>6. CASE LoyaltyNext
  BY <1>1, <1>2, <1>3, <1>4, <1>6, RedeemKeeps DEF LoyaltyNext
<1> QED BY <1>5, <1>6

-----------------------------------------------------------------------------
(* Carts                                                                   *)

Piece == [qty : Nat, price : Nat]
CartLines == [Goods -> Piece]
ACart == [status : {"ACTIVE", "CHECKED_OUT"}, lines : CartLines]
AnOrder == [from : Nat, lines : CartLines]

\* What a handler holds on to: a cart there is, a good, and for a decrement a row with pieces.
Fitting(j) ==
  /\ j.what # "none" => j.cart \in DOMAIN cart
  /\ j.what \in {"add", "rm", "dec", "decrement"} => j.good \in Goods
  /\ j.what = "add" => j.qty \in Nat /\ j.price \in Nat
  /\ j.what = "decrement" => j.read \in Piece /\ j.read.qty > 0
CartTypes ==
  /\ menu \in [Goods -> [live : BOOLEAN, price : GoodPrices]]
  /\ cart \in Seq(ACart) /\ placed \in Seq(AnOrder)
  /\ guest \in [phone : BOOLEAN, blocked : BOOLEAN]
  /\ seen \subseteq Updates /\ handled \in [Updates -> Nat]
  /\ put \in [Goods -> Int] /\ overtaken \in BOOLEAN
  /\ DOMAIN hand = Handlers
AllFitting == \A h \in Handlers : Fitting(hand[h])
OnceTaken == \A u \in Updates : handled[u] <= 1 /\ (u \notin seen => handled[u] = 0)
OneActive == \A i, j \in ActiveCarts : i = j
\* An order is of a cart that was checked out, and no other is.
OnceOrdered ==
  /\ \A k \in DOMAIN placed :
       placed[k].from \in DOMAIN cart /\ cart[placed[k].from].status = "CHECKED_OUT"
  /\ \A k, l \in DOMAIN placed : placed[k].from = placed[l].from => k = l
AllKept ==
  ~overtaken =>
    /\ \A g \in Goods : InCarts(g) + InOrders(g) = put[g]
    /\ \A k \in DOMAIN placed : placed[k].lines = cart[placed[k].from].lines
CartsInv == CartTypes /\ AllFitting /\ OnceTaken /\ OneActive /\ OnceOrdered /\ AllKept

LEMMA GivenCarts == GoodPrices \subseteq Nat /\ GoodPrices # {} /\ LineCap \in Nat
BY CartAssumption

\* The pieces of a good in the active ones of some carts, and in some orders.
ActiveOnes(carts) == {i \in DOMAIN carts : carts[i].status = "ACTIVE"}
PiecesIn(carts, g) == [i \in ActiveOnes(carts) |-> carts[i].lines[g].qty]
PiecesOrdered(orders, g) == [k \in DOMAIN orders |-> orders[k].lines[g].qty]

LEMMA PiecesAre ==
  /\ ActiveCarts = ActiveOnes(cart)
  /\ \A g : InCarts(g) = SumFunction(PiecesIn(cart, g))
  /\ \A g : InOrders(g) = SumFunction(PiecesOrdered(placed, g))
BY DEF ActiveCarts, ActiveOnes, InCarts, InOrders, PiecesIn, PiecesOrdered

LEMMA PiecesAreNext ==
  /\ ActiveCarts' = ActiveOnes(cart')
  /\ \A g : InCarts(g)' = SumFunction(PiecesIn(cart', g))
  /\ \A g : InOrders(g)' = SumFunction(PiecesOrdered(placed', g))
BY DEF ActiveCarts, ActiveOnes, InCarts, InOrders, PiecesIn, PiecesOrdered

\* With one active cart its pieces are all, without one there are none.
LEMMA InOneCart ==
  ASSUME NEW carts \in Seq(ACart), NEW g \in Goods, \A i, j \in ActiveOnes(carts) : i = j
  PROVE  /\ ActiveOnes(carts) = {} => SumFunction(PiecesIn(carts, g)) = 0
         /\ \A i \in ActiveOnes(carts) :
              /\ carts[i].lines[g].qty \in Nat
              /\ SumFunction(PiecesIn(carts, g)) = carts[i].lines[g].qty
<1> DEFINE f == PiecesIn(carts, g)
<1>1. DOMAIN f = ActiveOnes(carts)
  BY DEF PiecesIn
<1>2. ASSUME ActiveOnes(carts) = {}
      PROVE  SumFunction(f) = 0
  BY <1>1, <1>2, SumOfNone DEF SumFunction
<1>3. ASSUME NEW i \in ActiveOnes(carts)
      PROVE  carts[i].lines[g].qty \in Nat /\ SumFunction(f) = carts[i].lines[g].qty
  <2>1. ActiveOnes(carts) = {i} /\ i \in DOMAIN carts
    BY <1>3 DEF ActiveOnes
  <2>2. carts[i] \in ACart
    BY <2>1
  <2>3. carts[i].lines[g].qty \in Nat
    BY <2>2 DEF ACart, CartLines, Piece
  <2>4. f[i] = carts[i].lines[g].qty
    BY <1>3 DEF PiecesIn
  <2> HIDE DEF f
  <2>5. IsFiniteSet({i}) /\ {i} \ {i} = {}
    BY FS_Singleton
  <2>6. \A x \in {i} : f[x] \in Int
    BY <2>3, <2>4
  <2>7. SumFunctionOnSet(f, {i}) = f[i] + SumFunctionOnSet(f, {i} \ {i})
    BY <2>5, <2>6, SumTakes
  <2>8. SumFunctionOnSet(f, {i} \ {i}) = 0
    BY <2>5, SumOfNone
  <2>9. SumFunctionOnSet(f, {i}) = f[i]
    BY <2>6, <2>7, <2>8
  <2> QED BY <1>1, <2>1, <2>3, <2>4, <2>9 DEF SumFunction
<1> HIDE DEF f
<1> QED BY <1>2, <1>3 DEF f

LEMMA OneMoreOrder ==
  ASSUME NEW orders \in Seq(AnOrder), NEW order \in AnOrder, NEW g \in Goods
  PROVE  /\ SumFunction(PiecesOrdered(orders, g)) \in Int /\ order.lines[g].qty \in Nat
         /\ SumFunction(PiecesOrdered(Append(orders, order), g)) =
              SumFunction(PiecesOrdered(orders, g)) + order.lines[g].qty
<1> DEFINE more == Append(orders, order)
           n == Len(orders)
           f == PiecesOrdered(orders, g)
           k == PiecesOrdered(more, g)
<1>1. \A o \in AnOrder : o.lines[g].qty \in Nat
  BY DEF AnOrder, CartLines, Piece
<1>2. /\ n \in Nat /\ DOMAIN orders = 1 .. n /\ DOMAIN more = 1 .. n + 1
      /\ \A i \in 1 .. n : more[i] = orders[i] /\ orders[i] \in AnOrder
      /\ more[n + 1] = order
  BY OneMore
<1>3. DOMAIN f = 1 .. n /\ DOMAIN k = 1 .. n + 1
  BY <1>2 DEF PiecesOrdered
<1>4. ASSUME NEW i \in 1 .. n
      PROVE  f[i] \in Int /\ k[i] = f[i]
  <2>1. f[i] = orders[i].lines[g].qty /\ k[i] = more[i].lines[g].qty
    BY <1>2 DEF PiecesOrdered
  <2> HIDE DEF f, k, more, n
  <2> QED BY <1>1, <1>2, <2>1
<1>5. k[n + 1] = order.lines[g].qty
  BY <1>2 DEF PiecesOrdered
<1> HIDE DEF f, k, n, more
<1>6. k[n + 1] \in Int
  BY <1>1, <1>5
<1>7. SumFunction(f) \in Int /\ SumFunction(k) = SumFunction(f) + k[n + 1]
  BY <1>2, <1>3, <1>4, <1>6, SumOfOneMore
<1> QED BY <1>1, <1>5, <1>7 DEF f, k, more

\* Neither carts nor orders change.
LEMMA CartsStay ==
  ASSUME CartsInv, UNCHANGED <<cart, placed, put, overtaken>>,
         menu' \in [Goods -> [live : BOOLEAN, price : GoodPrices]],
         guest' \in [phone : BOOLEAN, blocked : BOOLEAN],
         \/ UNCHANGED <<seen, handled>>
         \/ \E u \in Updates : TakeUp(u),
         DOMAIN hand' = Handlers,
         \A h \in Handlers : hand'[h] = hand[h] \/ Fitting(hand'[h])
  PROVE  CartsInv'
<1>1. seen' \subseteq Updates /\ handled' \in [Updates -> Nat] /\ OnceTaken'
  BY DEF CartsInv, CartTypes, OnceTaken, TakeUp
<1>2. AllFitting'
  BY DEF CartsInv, AllFitting, Fitting
<1>3. ActiveCarts' = ActiveCarts /\ \A g : InCarts(g)' = InCarts(g) /\ InOrders(g)' = InOrders(g)
  BY PiecesAre, PiecesAreNext
<1>4. OneActive' /\ AllKept' /\ OnceOrdered'
  BY <1>3 DEF CartsInv, OneActive, AllKept, OnceOrdered
<1> QED BY <1>1, <1>2, <1>4 DEF CartsInv, CartTypes

LEMMA CartsBegin == CartsInit => CartsInv
<1> SUFFICES ASSUME CartsInit PROVE CartsInv
  OBVIOUS
<1>1. Min(GoodPrices) \in GoodPrices
  BY GivenCarts, LeastIs
<1>2. CartTypes
  <2> DEFINE first == {[live |-> TRUE, price |-> p] : p \in {Min(GoodPrices)}}
             any == [live : BOOLEAN, price : GoodPrices]
  <2>1. first \subseteq any
    <3> DEFINE least == Min(GoodPrices)
    <3> SUFFICES {[live |-> TRUE, price |-> p] : p \in {least}} \subseteq any
      OBVIOUS
    <3> HIDE DEF least
    <3>1. [live |-> TRUE, price |-> least] \in any
      BY <1>1 DEF least
    <3> QED BY <3>1
  <2>2. menu \in [Goods -> first]
    BY DEF CartsInit
  <2> HIDE DEF first, any
  <2>3. menu \in [Goods -> any]
    BY <2>1, <2>2
  <2> USE DEF any
  <2>4. cart \in Seq(ACart) /\ placed \in Seq(AnOrder)
    BY DEF CartsInit
  <2>5. guest \in [phone : BOOLEAN, blocked : BOOLEAN] /\ seen \subseteq Updates /\ overtaken \in BOOLEAN
    BY DEF CartsInit
  <2>6. handled \in [Updates -> Nat] /\ put \in [Goods -> Int] /\ DOMAIN hand = Handlers
    BY DEF CartsInit
  <2> QED BY <2>3, <2>4, <2>5, <2>6, Zenon DEF CartTypes
<1>3. AllFitting /\ OnceTaken /\ OnceOrdered
  BY DEF CartsInit, AllFitting, Fitting, AtRest, OnceTaken, OnceOrdered
<1>4. DOMAIN cart = {} /\ ActiveOnes(cart) = {} /\ DOMAIN placed = {} /\ cart \in Seq(ACart)
  BY DEF CartsInit, ActiveOnes
<1>5. OneActive
  BY <1>4 DEF OneActive, ActiveCarts
<1>6. ASSUME NEW g \in Goods
      PROVE  InCarts(g) + InOrders(g) = put[g]
  <2>1. InCarts(g) = 0
    BY <1>4, PiecesAre, InOneCart
  <2>2. DOMAIN PiecesOrdered(placed, g) = {}
    BY <1>4 DEF PiecesOrdered
  <2>3. InOrders(g) = 0
    BY <2>2, PiecesAre, SumOfNone DEF SumFunction
  <2> QED BY <2>1, <2>3 DEF CartsInit
<1>7. AllKept
  BY <1>4, <1>6 DEF AllKept
<1> QED BY <1>2, <1>3, <1>5, <1>7 DEF CartsInv

\* The lines of a cart change, and what the guest was told with them.
LEMMA LinesChangeKeeps ==
  ASSUME CartsInv, NEW h \in Handlers, NEW i \in DOMAIN cart, NEW lines \in CartLines,
         cart' = [cart EXCEPT ![i].lines = lines], put' \in [Goods -> Int], overtaken' \in BOOLEAN,
         ~overtaken' => ~overtaken /\ cart[i].status = "ACTIVE",
         ~overtaken' => \A g \in Goods : put'[g] = put[g] + lines[g].qty - cart[i].lines[g].qty,
         TurnEnds(h), UNCHANGED <<menu, placed, guest, seen, handled>>
  PROVE  CartsInv'
<1> DEFINE n == Len(cart)
<1>1. n \in Nat /\ DOMAIN cart = 1 .. n /\ cart \in Seq(ACart)
  BY DEF CartsInv, CartTypes
<1>2. cart[i] \in ACart
  BY <1>1
<1>3. /\ DOMAIN cart' = DOMAIN cart
      /\ \A j \in DOMAIN cart : j # i => cart'[j] = cart[j]
      /\ cart'[i] = [cart[i] EXCEPT !.lines = lines]
  BY <1>1
<1>4. cart'[i] \in ACart /\ cart'[i].lines = lines /\ cart'[i].status = cart[i].status
  <2> DEFINE c == cart[i]
             d == cart'[i]
  <2>1. c \in ACart /\ d = [c EXCEPT !.lines = lines]
    BY <1>2, <1>3
  <2> HIDE DEF c, d
  <2>2. d \in ACart /\ d.lines = lines /\ d.status = c.status
    BY <2>1 DEF ACart
  <2> QED BY <2>2 DEF c, d
<1>5. cart' \in Seq(ACart)
  <2>1. \A j \in 1 .. n : cart'[j] \in ACart
    BY <1>1, <1>3, <1>4
  <2>2. cart' = [j \in 1 .. n |-> cart'[j]]
    BY <1>1
  <2> HIDE DEF n
  <2> QED BY <1>1, <2>1, <2>2
<1>6. \A j \in DOMAIN cart : cart'[j].status = cart[j].status
  BY <1>3, <1>4
<1>7. CartTypes'
  BY <1>5 DEF CartsInv, CartTypes, TurnEnds
<1>8. AllFitting' /\ OnceTaken'
  BY <1>3 DEF CartsInv, CartTypes, AllFitting, Fitting, OnceTaken, TurnEnds, AtRest
<1>9. ActiveOnes(cart') = ActiveOnes(cart)
  BY <1>3, <1>6 DEF ActiveOnes
<1>10. OneActive' /\ OnceOrdered'
  BY <1>3, <1>6, <1>9, PiecesAre, PiecesAreNext DEF CartsInv, OneActive, OnceOrdered
<1>11. ASSUME ~overtaken', NEW k \in DOMAIN placed
       PROVE  placed[k].lines = cart'[placed[k].from].lines
  <2>1. placed[k].from # i
    BY <1>11 DEF CartsInv, OnceOrdered
  <2> QED BY <1>3, <1>11, <2>1 DEF CartsInv, OnceOrdered, AllKept
<1>12. ASSUME ~overtaken', NEW g \in Goods
       PROVE  InCarts(g)' + InOrders(g)' = put'[g]
  <2>1. i \in ActiveOnes(cart)
    BY <1>12 DEF ActiveOnes
  <2>2. \A a, b \in ActiveOnes(cart) : a = b
    BY PiecesAre DEF CartsInv, OneActive
  <2>3. SumFunction(PiecesIn(cart, g)) = cart[i].lines[g].qty /\ cart[i].lines[g].qty \in Nat
    BY <1>1, <2>1, <2>2, InOneCart
  <2>4. SumFunction(PiecesIn(cart', g)) = cart'[i].lines[g].qty /\ cart'[i].lines[g].qty \in Nat
    BY <1>5, <1>9, <2>1, <2>2, InOneCart
  <2>5. InCarts(g) = cart[i].lines[g].qty /\ InCarts(g)' = lines[g].qty
    BY <1>4, <2>3, <2>4, PiecesAre, PiecesAreNext
  <2>6. InOrders(g)' = InOrders(g)
    BY PiecesAre, PiecesAreNext
  <2>7. InOrders(g) \in Int
    <3>1. placed \in Seq(AnOrder) /\ DOMAIN PiecesOrdered(placed, g) = DOMAIN placed
      BY DEF CartsInv, CartTypes, PiecesOrdered
    <3>2. \A k \in DOMAIN placed : PiecesOrdered(placed, g)[k] \in Int
      <4>1. \A k \in DOMAIN placed : placed[k] \in AnOrder
        BY <3>1
      <4>2. \A o \in AnOrder : o.lines[g].qty \in Nat
        BY DEF AnOrder, CartLines, Piece
      <4> QED BY <4>1, <4>2 DEF PiecesOrdered
    <3>3. IsFiniteSet(DOMAIN placed)
      <4>1. 1 \in Int /\ Len(placed) \in Int /\ DOMAIN placed = 1 .. Len(placed)
        BY <3>1
      <4> QED BY <4>1, FS_Interval
    <3>4. SumFunctionOnSet(PiecesOrdered(placed, g), DOMAIN placed) \in Int
      BY <3>2, <3>3, SumIsInt
    <3> QED BY <3>1, <3>4, PiecesAre DEF SumFunction
  <2>8. InCarts(g) + InOrders(g) = put[g]
    BY <1>12 DEF CartsInv, AllKept
  <2>9. put'[g] = put[g] + lines[g].qty - cart[i].lines[g].qty
    BY <1>12
  <2> DEFINE a == cart[i].lines[g].qty
             b == lines[g].qty
             c == InOrders(g)
             p == put[g]
             q == put'[g]
             x == InCarts(g)
  <2>10. /\ a \in Nat /\ b \in Nat /\ c \in Int /\ x = a /\ x + c = p /\ q = p + b - a
    BY <1>4, <2>3, <2>4, <2>5, <2>7, <2>8, <2>9
  <2>11. b + c = q
    <3> HIDE DEF a, b, c, p, q, x
    <3> QED BY <2>10
  <2> QED BY <2>5, <2>6, <2>11
<1>13. AllKept'
  BY <1>11, <1>12 DEF AllKept
<1> QED BY <1>7, <1>8, <1>10, <1>13 DEF CartsInv

\* The cart that a handler finds, or opens.
LEMMA OpenedIs ==
  ASSUME CartsInv
  PROVE  /\ Opened \in Seq(ACart) /\ OpenCart \in DOMAIN Opened
         /\ \A i \in DOMAIN cart : i \in DOMAIN Opened /\ Opened[i] = cart[i]
         /\ \A i, j \in ActiveOnes(Opened) : i = j
         /\ \A g \in Goods : SumFunction(PiecesIn(Opened, g)) = SumFunction(PiecesIn(cart, g))
<1> DEFINE new == [status |-> "ACTIVE", lines |-> NoLines]
           n == Len(cart)
           more == Append(cart, new)
<1>1. cart \in Seq(ACart) /\ \A i, j \in ActiveOnes(cart) : i = j
  BY PiecesAre DEF CartsInv, CartTypes, OneActive
<1>2. new \in ACart /\ new.status = "ACTIVE" /\ \A g \in Goods : new.lines[g].qty = 0
  BY DEF ACart, CartLines, Piece, NoLines, NoPiece
<1>3. CASE ActiveOnes(cart) = {}
  <2>1. Opened = more
    BY <1>3, PiecesAre DEF Opened
  <2> HIDE DEF new
  <2>2. /\ more \in Seq(ACart) /\ n \in Nat /\ DOMAIN cart = 1 .. n /\ DOMAIN more = 1 .. n + 1
        /\ \A i \in 1 .. n : more[i] = cart[i]
        /\ more[n + 1] = new
    BY <1>1, <1>2, OneMore
  <2> HIDE DEF more, n
  <2>3. n + 1 \in DOMAIN more /\ more[n + 1].status = "ACTIVE"
    BY <1>2, <2>2
  <2>4. \A i \in 1 .. n : more[i].status # "ACTIVE"
    BY <1>3, <2>2 DEF ActiveOnes
  <2>5. \A i \in DOMAIN more : more[i].status = "ACTIVE" => i = n + 1
    BY <2>2, <2>4
  <2>6. ActiveOnes(more) = {n + 1}
    BY <2>3, <2>5 DEF ActiveOnes
  <2>7. OpenCart = n + 1
    BY <2>1, <2>3, <2>5 DEF OpenCart
  <2>8. ASSUME NEW g \in Goods
        PROVE  SumFunction(PiecesIn(more, g)) = SumFunction(PiecesIn(cart, g))
    <3>1. SumFunction(PiecesIn(cart, g)) = 0
      BY <1>1, <1>3, InOneCart
    <3>2. SumFunction(PiecesIn(more, g)) = more[n + 1].lines[g].qty
      BY <2>2, <2>6, InOneCart
    <3> QED BY <1>2, <2>2, <3>1, <3>2
  <2> QED BY <2>1, <2>2, <2>3, <2>6, <2>7, <2>8
<1>4. CASE ActiveOnes(cart) # {}
  <2>1. Opened = cart
    BY <1>4, PiecesAre DEF Opened
  <2>2. \E i \in DOMAIN Opened : Opened[i].status = "ACTIVE"
    BY <1>4, <2>1 DEF ActiveOnes
  <2>3. OpenCart \in DOMAIN Opened
    BY <2>2, Zenon DEF OpenCart
  <2> QED BY <1>1, <2>1, <2>3
<1> QED BY <1>3, <1>4

\* A handler takes up an update, and finds the cart.
LEMMA HandlerBegins ==
  ASSUME CartsInv, NEW h \in Handlers, NEW u \in Updates, NEW job, Begins(h, u, job),
         job.what \notin {"none", "decrement"}, job.cart \in DOMAIN Opened,
         job.what \in {"add", "rm", "dec"} => job.good \in Goods,
         job.what = "add" => job.qty \in Nat /\ job.price \in Nat
  PROVE  CartsInv'
<1>1. cart' = Opened /\ UNCHANGED <<menu, placed, guest, put, overtaken>>
  BY DEF Begins
<1>2. DOMAIN hand' = Handlers /\ hand'[h] = job /\ \A x \in Handlers : x # h => hand'[x] = hand[x]
  BY DEF Begins, CartsInv, CartTypes
<1>3. seen' \subseteq Updates /\ handled' \in [Updates -> Nat] /\ OnceTaken'
  BY DEF CartsInv, CartTypes, OnceTaken, TakeUp, Begins
<1>4. CartTypes'
  BY <1>1, <1>2, <1>3, OpenedIs DEF CartsInv, CartTypes
<1>5. \A i \in DOMAIN cart : i \in DOMAIN cart' /\ cart'[i] = cart[i]
  BY <1>1, OpenedIs
<1>6. ASSUME NEW x \in Handlers
      PROVE  Fitting(hand[x])'
  <2>1. CASE x = h
    BY <1>1, <1>2, <2>1 DEF Fitting
  <2>2. CASE x # h
    BY <1>2, <1>5, <2>2 DEF CartsInv, AllFitting, Fitting
  <2> QED BY <2>1, <2>2
<1>7. OneActive'
  BY <1>1, OpenedIs, PiecesAreNext DEF OneActive
<1>8. OnceOrdered'
  BY <1>1, <1>5 DEF CartsInv, OnceOrdered
<1>9. \A g \in Goods : InCarts(g)' = InCarts(g) /\ InOrders(g)' = InOrders(g)
  BY <1>1, OpenedIs, PiecesAre, PiecesAreNext
<1>10. ASSUME NEW k \in DOMAIN placed
       PROVE  cart'[placed[k].from] = cart[placed[k].from]
  BY <1>5 DEF CartsInv, OnceOrdered
<1>11. AllKept'
  BY <1>1, <1>9, <1>10 DEF CartsInv, AllKept
<1> QED BY <1>3, <1>4, <1>6, <1>7, <1>8, <1>11 DEF CartsInv, AllFitting

\* A handler ends its turn and leaves the lines as they were.
LEMMA TurnEndsKeeps ==
  ASSUME CartsInv, NEW h \in Handlers, TurnEnds(h),
         UNCHANGED <<menu, cart, placed, guest, seen, put, handled, overtaken>>
  PROVE  CartsInv'
<1>1. DOMAIN hand' = Handlers /\ \A x \in Handlers : hand'[x] = hand[x] \/ hand'[x] = AtRest
  BY DEF TurnEnds, CartsInv, CartTypes
<1>2. \A x \in Handlers : hand'[x] = hand[x] \/ Fitting(hand'[x])
  BY <1>1 DEF AtRest, Fitting
<1>3. /\ menu' \in [Goods -> [live : BOOLEAN, price : GoodPrices]]
      /\ guest' \in [phone : BOOLEAN, blocked : BOOLEAN]
  BY DEF CartsInv, CartTypes
<1> QED BY <1>1, <1>2, <1>3, CartsStay

\* What a handler that holds a cart and a good finds there.
LEMMA AtHand ==
  ASSUME CartsInv, NEW h \in Handlers, hand[h].what \in {"add", "rm", "clear", "dec", "decrement", "checkout"}
  PROVE  /\ hand[h].cart \in DOMAIN cart /\ cart[hand[h].cart] \in ACart
         /\ cart[hand[h].cart].lines \in CartLines
         /\ Fitting(hand[h])
<1>1. Fitting(hand[h])
  BY DEF CartsInv, AllFitting
<1>2. hand[h].cart \in DOMAIN cart
  BY <1>1 DEF Fitting
<1>3. cart[hand[h].cart] \in ACart
  BY <1>2 DEF CartsInv, CartTypes
<1> QED BY <1>1, <1>2, <1>3 DEF ACart

LEMMA AddKeeps ==
  ASSUME CartsInv, NEW h \in Handlers, AddItem(h)
  PROVE  CartsInv'
<1> DEFINE j == hand[h]
           c == j.cart
           g == j.good
           old == cart[c].lines
           entry == old[g]
           qty == Smallest(entry.qty + j.qty, LineCap)
           piece == [qty |-> qty, price |-> IF entry.qty = 0 THEN j.price ELSE entry.price]
           full == entry.qty = 0 /\ Cardinality(LinesIn(cart[j.cart].lines)) >= CartCap
<1>1. /\ c \in DOMAIN cart /\ cart[c] \in ACart /\ old \in CartLines
      /\ g \in Goods /\ j.qty \in Nat /\ j.price \in Nat
  BY AtHand DEF AddItem, Fitting
<1>2. CASE full
  BY <1>2, TurnEndsKeeps DEF AddItem
<1>3. CASE ~full
  <2>1. /\ cart' = [cart EXCEPT ![c].lines[g] = piece]
        /\ put' = [put EXCEPT ![g] = @ + qty - entry.qty]
        /\ overtaken' = (overtaken \/ TooLate(c)) /\ TurnEnds(h)
        /\ UNCHANGED <<menu, placed, guest, seen, handled>>
    BY <1>3 DEF AddItem, SetLine
  <2>2. entry \in Piece /\ entry.qty \in Nat /\ entry.price \in Nat
    BY <1>1 DEF CartLines, Piece
  <2>3. qty \in Nat
    <3> DEFINE a == entry.qty
               b == j.qty
    <3>1. a \in Nat /\ b \in Nat /\ LineCap \in Nat
      BY <1>1, <2>2, GivenCarts
    <3> HIDE DEF a, b
    <3>2. Smallest(a + b, LineCap) \in Nat
      BY <3>1 DEF Smallest
    <3> QED BY <3>2 DEF a, b
  <2> HIDE DEF qty
  <2>4. piece \in Piece /\ piece.qty = qty
    BY <1>1, <2>2, <2>3 DEF Piece
  <2> HIDE DEF piece
  <2> DEFINE lines == [old EXCEPT ![g] = piece]
  <2>5. lines \in CartLines /\ lines[g] = piece /\ \A x \in Goods : x # g => lines[x] = old[x]
    BY <1>1, <2>4 DEF CartLines
  <2>6. cart' = [cart EXCEPT ![c].lines = lines]
    BY <2>1
  <2> HIDE DEF lines
  <2>7. \A x \in Goods : old[x].qty \in Nat
    BY <1>1 DEF CartLines, Piece
  <2>8. put \in [Goods -> Int] /\ overtaken \in BOOLEAN
    BY DEF CartsInv, CartTypes
  <2>9. put' \in [Goods -> Int] /\ put'[g] = put[g] + qty - entry.qty
        /\ \A x \in Goods : x # g => put'[x] = put[x]
    BY <1>1, <2>1, <2>2, <2>3, <2>8
  <2>10. ASSUME NEW x \in Goods
         PROVE  put'[x] = put[x] + lines[x].qty - old[x].qty
    <3>1. CASE x = g
      BY <2>4, <2>5, <2>9, <3>1
    <3>2. CASE x # g
      <4>1. put'[x] = put[x] /\ lines[x] = old[x] /\ put[x] \in Int /\ old[x].qty \in Nat
        BY <2>5, <2>7, <2>8, <2>9, <3>2
      <4> DEFINE p == put[x]
                 q == old[x].qty
      <4>2. p = p + q - q
        <5>1. p \in Int /\ q \in Nat
          BY <4>1
        <5> HIDE DEF p, q
        <5> QED BY <5>1
      <4> QED BY <4>1, <4>2
    <3> QED BY <3>1, <3>2
  <2>11. overtaken' \in BOOLEAN /\ (~overtaken' => ~overtaken /\ cart[c].status = "ACTIVE")
    BY <2>1, <2>8 DEF TooLate
  <2> HIDE DEF j, c, g, entry
  <2> QED BY <1>1, <2>1, <2>5, <2>6, <2>9, <2>10, <2>11, LinesChangeKeeps
<1> QED BY <1>2, <1>3

LEMMA RemoveKeeps ==
  ASSUME CartsInv, NEW h \in Handlers, RemoveLines(h)
  PROVE  CartsInv'
<1> DEFINE j == hand[h]
           c == j.cart
           old == cart[c].lines
           gone == IF j.what = "rm" THEN {j.good} ELSE Goods
           lines == [g \in Goods |-> IF g \in gone THEN NoPiece ELSE old[g]]
<1>1. c \in DOMAIN cart /\ cart[c] \in ACart /\ old \in CartLines
  BY AtHand DEF RemoveLines
<1>2. /\ cart' = [cart EXCEPT ![c].lines = lines]
      /\ put' = [g \in Goods |-> IF g \in gone THEN put[g] - old[g].qty ELSE put[g]]
      /\ overtaken' = (overtaken \/ TooLate(c)) /\ TurnEnds(h)
      /\ UNCHANGED <<menu, placed, guest, seen, handled>>
  BY DEF RemoveLines
<1> HIDE DEF gone
<1>3. \A g \in Goods : old[g] \in Piece /\ old[g].qty \in Nat
  BY <1>1 DEF CartLines, Piece
<1>4. NoPiece \in Piece /\ NoPiece.qty = 0
  BY DEF NoPiece, Piece
<1>5. lines \in CartLines
  BY <1>3, <1>4 DEF CartLines
<1>6. put \in [Goods -> Int] /\ overtaken \in BOOLEAN
  BY DEF CartsInv, CartTypes
<1>7. put' \in [Goods -> Int]
  BY <1>2, <1>3, <1>6
<1>8. ASSUME NEW g \in Goods
      PROVE  put'[g] = put[g] + lines[g].qty - old[g].qty
  <2> DEFINE p == put[g]
             q == old[g].qty
             r == lines[g].qty
             s == put'[g]
  <2>1. p \in Int /\ q \in Nat
    BY <1>3, <1>6
  <2>2. /\ g \in gone => r = 0 /\ s = p - q
        /\ g \notin gone => r = q /\ s = p
    BY <1>2, <1>4
  <2> HIDE DEF p, q, r, s
  <2>3. s = p + r - q
    BY <2>1, <2>2
  <2> QED BY <2>3 DEF p, q, r, s
<1>9. overtaken' \in BOOLEAN /\ (~overtaken' => ~overtaken /\ cart[c].status = "ACTIVE")
  BY <1>2, <1>6 DEF TooLate
<1> HIDE DEF j, c, lines
<1> QED BY <1>1, <1>2, <1>5, <1>7, <1>8, <1>9, LinesChangeKeeps

LEMMA DecrementKeeps ==
  ASSUME CartsInv, NEW h \in Handlers, Decrement(h)
  PROVE  CartsInv'
<1> DEFINE j == hand[h]
           c == j.cart
           g == j.good
           old == cart[c].lines
           entry == old[g]
           read == j.read
           piece == IF read.qty <= 1 THEN NoPiece ELSE [entry EXCEPT !.qty = read.qty - 1]
<1>1. /\ c \in DOMAIN cart /\ cart[c] \in ACart /\ old \in CartLines
      /\ g \in Goods /\ read \in Piece /\ read.qty > 0
  BY AtHand DEF Decrement, Fitting
<1>2. /\ entry.qty = 0 => cart' = cart
      /\ entry.qty # 0 => cart' = [cart EXCEPT ![c].lines[g] = piece]
      /\ put' = [put EXCEPT ![g] = @ - 1]
      /\ overtaken' = (overtaken \/ TooLate(c) \/ entry # read) /\ TurnEnds(h)
      /\ UNCHANGED <<menu, placed, guest, seen, handled>>
  BY DEF Decrement, SetLine
<1>3. entry \in Piece /\ entry.qty \in Nat /\ read.qty \in Nat
  BY <1>1 DEF CartLines, Piece
<1>4. piece \in Piece /\ (entry = read => piece.qty = entry.qty - 1)
  <2>1. NoPiece \in Piece /\ NoPiece.qty = 0
    BY DEF NoPiece, Piece
  <2>2. CASE read.qty <= 1
    <3>1. piece = NoPiece
      BY <2>2
    <3>2. read.qty = 1
      BY <1>1, <1>3, <2>2
    <3> HIDE DEF piece
    <3> QED BY <2>1, <3>1, <3>2
  <2>3. CASE ~(read.qty <= 1)
    <3>1. read.qty - 1 \in Nat
      BY <1>3, <2>3
    <3>2. piece = [entry EXCEPT !.qty = read.qty - 1]
      BY <2>3
    <3> HIDE DEF piece
    <3>3. piece \in Piece /\ piece.qty = read.qty - 1
      BY <1>3, <3>1, <3>2 DEF Piece
    <3> QED BY <3>3
  <2> QED BY <2>2, <2>3
<1> HIDE DEF piece
<1>5. put \in [Goods -> Int] /\ overtaken \in BOOLEAN
  BY DEF CartsInv, CartTypes
<1>6. put' \in [Goods -> Int] /\ put'[g] = put[g] - 1 /\ \A x \in Goods : x # g => put'[x] = put[x]
  BY <1>1, <1>2, <1>5
<1>7. \A x \in Goods : old[x].qty \in Nat
  BY <1>1 DEF CartLines, Piece
<1>8. /\ overtaken' \in BOOLEAN
      /\ ~overtaken' => ~overtaken /\ cart[c].status = "ACTIVE" /\ entry = read
  BY <1>2, <1>5 DEF TooLate
<1>9. CASE entry.qty = 0
  <2>1. cart' = [cart EXCEPT ![c].lines = old]
    <3>1. cart[c] = [cart[c] EXCEPT !.lines = old]
      BY <1>1 DEF ACart
    <3>2. cart = [cart EXCEPT ![c] = cart[c]]
      BY DEF CartsInv, CartTypes
    <3>3. [cart EXCEPT ![c].lines = old] = [cart EXCEPT ![c] = [cart[c] EXCEPT !.lines = old]]
      OBVIOUS
    <3> QED BY <1>2, <1>9, <3>1, <3>2, <3>3
  <2>2. overtaken'
    BY <1>1, <1>8, <1>9
  <2> HIDE DEF j, c, g, old, entry, read
  <2> QED BY <1>1, <1>2, <1>6, <1>8, <2>1, <2>2, LinesChangeKeeps
<1>10. CASE entry.qty # 0
  <2> DEFINE lines == [old EXCEPT ![g] = piece]
  <2>1. lines \in CartLines /\ lines[g] = piece /\ \A x \in Goods : x # g => lines[x] = old[x]
    BY <1>1, <1>4 DEF CartLines
  <2>2. cart' = [cart EXCEPT ![c].lines = lines]
    BY <1>2, <1>10
  <2> HIDE DEF lines
  <2>3. ASSUME ~overtaken', NEW x \in Goods
        PROVE  put'[x] = put[x] + lines[x].qty - old[x].qty
    <3> DEFINE p == put[x]
               q == old[x].qty
               r == lines[x].qty
               s == put'[x]
    <3>1. p \in Int /\ q \in Nat
      BY <1>5, <1>7
    <3>2. CASE x = g
      <4>1. r = q - 1 /\ s = p - 1
        BY <1>4, <1>6, <1>8, <2>1, <2>3, <3>2
      <4>2. s = p + r - q
        <5> HIDE DEF p, q, r, s
        <5> QED BY <3>1, <4>1
      <4> QED BY <4>2
    <3>3. CASE x # g
      <4>1. r = q /\ s = p
        BY <1>6, <2>1, <3>3
      <4>2. s = p + r - q
        <5> HIDE DEF p, q, r, s
        <5> QED BY <3>1, <4>1
      <4> QED BY <4>2
    <3> QED BY <3>2, <3>3
  <2> HIDE DEF j, c, g, entry, read
  <2> QED BY <1>1, <1>2, <1>6, <1>8, <2>1, <2>2, <2>3, LinesChangeKeeps
<1> QED BY <1>9, <1>10

LEMMA ReadKeeps ==
  ASSUME CartsInv, NEW h \in Handlers, ReadRow(h)
  PROVE  CartsInv'
<1> DEFINE j == hand[h]
           entry == cart[j.cart].lines[j.good]
           next == [what |-> "decrement", good |-> j.good, cart |-> j.cart, read |-> entry]
<1>1. /\ j.cart \in DOMAIN cart /\ cart[j.cart].lines \in CartLines /\ j.good \in Goods
      /\ UNCHANGED <<menu, cart, placed, guest, seen, put, handled, overtaken>>
  BY AtHand DEF ReadRow, Fitting
<1>2. CASE entry.qty = 0
  BY <1>1, <1>2, TurnEndsKeeps DEF ReadRow
<1>3. CASE entry.qty # 0
  <2>1. hand' = [hand EXCEPT ![h] = next]
    BY <1>3 DEF ReadRow
  <2>2. entry \in Piece /\ entry.qty \in Nat
    BY <1>1 DEF CartLines, Piece
  <2>3. entry.qty > 0
    BY <1>3, <2>2
  <2> HIDE DEF entry
  <2>4. /\ next.what = "decrement" /\ next.cart \in DOMAIN cart' /\ next.good \in Goods
        /\ next.read \in Piece /\ next.read.qty > 0
    BY <1>1, <2>2, <2>3
  <2> HIDE DEF next
  <2>5. Fitting(next)
    BY <1>1, <2>4 DEF Fitting
  <2>6. DOMAIN hand' = Handlers /\ \A x \in Handlers : hand'[x] = hand[x] \/ hand'[x] = next
    BY <2>1 DEF CartsInv, CartTypes
  <2>7. /\ menu' \in [Goods -> [live : BOOLEAN, price : GoodPrices]]
        /\ guest' \in [phone : BOOLEAN, blocked : BOOLEAN]
    BY <1>1 DEF CartsInv, CartTypes
  <2> QED BY <1>1, <2>5, <2>6, <2>7, CartsStay
<1> QED BY <1>2, <1>3

\* The cart becomes an order: what was in it is in the order now.
LEMMA CheckoutKeeps ==
  ASSUME CartsInv, NEW h \in Handlers, Checkout(h)
  PROVE  CartsInv'
<1> DEFINE c == hand[h].cart
           order == [from |-> c, lines |-> cart[c].lines]
           n == Len(placed)
<1>1. /\ c \in DOMAIN cart /\ cart[c] \in ACart /\ cart[c].lines \in CartLines
      /\ TurnEnds(h) /\ UNCHANGED <<menu, guest, seen, put, handled, overtaken>>
  BY AtHand DEF Checkout
<1>2. CASE ~(Convertible(c) /\ hand[h].phone)
  BY <1>1, <1>2, TurnEndsKeeps DEF Checkout
<1>3. CASE Convertible(c) /\ hand[h].phone
  <2>1. /\ cart' = [cart EXCEPT ![c].status = "CHECKED_OUT"]
        /\ placed' = Append(placed, order)
        /\ cart[c].status = "ACTIVE"
    BY <1>3 DEF Checkout, Convertible
  <2>2. cart \in Seq(ACart) /\ placed \in Seq(AnOrder) /\ c \in Nat
    BY <1>1 DEF CartsInv, CartTypes
  <2>3. order \in AnOrder /\ order.from = c /\ order.lines = cart[c].lines
    BY <1>1, <2>2 DEF AnOrder
  <2> HIDE DEF order
  <2>4. /\ placed' \in Seq(AnOrder) /\ n \in Nat
        /\ DOMAIN placed = 1 .. n /\ DOMAIN placed' = 1 .. n + 1
        /\ \A k \in 1 .. n : placed'[k] = placed[k]
        /\ placed'[n + 1] = order
    BY <2>1, <2>2, <2>3, OneMore
  <2> HIDE DEF n
  <2>5. /\ DOMAIN cart' = DOMAIN cart /\ \A i \in DOMAIN cart : i # c => cart'[i] = cart[i]
        /\ cart'[c] = [cart[c] EXCEPT !.status = "CHECKED_OUT"]
    BY <1>1, <2>1, <2>2
  <2>6. cart'[c] \in ACart /\ cart'[c].lines = cart[c].lines /\ cart'[c].status = "CHECKED_OUT"
    <3> DEFINE a == cart[c]
               b == cart'[c]
    <3>1. a \in ACart /\ b = [a EXCEPT !.status = "CHECKED_OUT"]
      BY <1>1, <2>5
    <3> HIDE DEF a, b
    <3>2. b \in ACart /\ b.lines = a.lines /\ b.status = "CHECKED_OUT"
      BY <3>1 DEF ACart
    <3> QED BY <3>2 DEF a, b
  <2>7. cart' \in Seq(ACart)
    <3>1. \A i \in DOMAIN cart : cart[i] \in ACart
      BY <2>2
    <3>2. \A i \in DOMAIN cart : cart'[i] \in ACart
      BY <2>5, <2>6, <3>1
    <3>3. Len(cart) \in Nat /\ DOMAIN cart = 1 .. Len(cart)
      BY <2>2
    <3>4. cart' = [i \in 1 .. Len(cart) |-> cart'[i]]
      <4>1. cart' = [i \in DOMAIN cart |-> cart'[i]]
        BY <2>1
      <4> QED BY <3>3, <4>1
    <3> QED BY <3>2, <3>3, <3>4
  <2>8. \A i \in DOMAIN cart : cart[i].status = "ACTIVE" => i = c
    BY <1>1, <2>1 DEF CartsInv, OneActive, ActiveCarts
  <2>9. ActiveOnes(cart') = {}
    BY <2>5, <2>6, <2>8 DEF ActiveOnes
  <2>10. CartTypes'
    BY <1>1, <2>4, <2>7 DEF CartsInv, CartTypes, TurnEnds
  <2>11. AllFitting'
    <3>1. \A x \in Handlers : hand'[x] = hand[x] \/ hand'[x] = AtRest
      BY <1>1 DEF TurnEnds, CartsInv, CartTypes
    <3> QED BY <2>5, <3>1 DEF CartsInv, AllFitting, Fitting, AtRest
  <2>12. OnceTaken' /\ OneActive'
    BY <1>1, <2>9, PiecesAreNext DEF CartsInv, OnceTaken, OneActive
  <2>13. \A k \in 1 .. n : placed[k].from \in DOMAIN cart /\ placed[k].from # c
                            /\ cart[placed[k].from].status = "CHECKED_OUT"
    BY <2>1, <2>4 DEF CartsInv, OnceOrdered
  <2>14. \A k \in 1 .. n + 1 : k \in 1 .. n \/ k = n + 1
    BY <2>4
  <2>15. OnceOrdered'
    <3>1. ASSUME NEW k \in DOMAIN placed'
          PROVE  placed'[k].from \in DOMAIN cart' /\ cart'[placed'[k].from].status = "CHECKED_OUT"
      <4>1. CASE k \in 1 .. n
        BY <2>4, <2>5, <2>13, <4>1
      <4>2. CASE k = n + 1
        BY <1>1, <2>3, <2>4, <2>5, <2>6, <4>2
      <4> QED BY <2>4, <2>14, <3>1, <4>1, <4>2
    <3>2. ASSUME NEW k \in DOMAIN placed', NEW l \in DOMAIN placed',
                 placed'[k].from = placed'[l].from
          PROVE  k = l
      <4>1. CASE k \in 1 .. n /\ l \in 1 .. n
        <5>1. placed[k].from = placed[l].from /\ k \in DOMAIN placed /\ l \in DOMAIN placed
          BY <2>4, <3>2, <4>1
        <5> QED BY <5>1 DEF CartsInv, OnceOrdered
      <4>2. CASE k \in 1 .. n /\ l = n + 1
        BY <2>3, <2>4, <2>13, <3>2, <4>2
      <4>3. CASE k = n + 1 /\ l \in 1 .. n
        BY <2>3, <2>4, <2>13, <3>2, <4>3
      <4> QED BY <2>4, <2>14, <3>2, <4>1, <4>2, <4>3
    <3> QED BY <3>1, <3>2 DEF OnceOrdered
  <2>16. ASSUME ~overtaken, NEW g \in Goods
         PROVE  InCarts(g)' + InOrders(g)' = put[g]
    <3>1. InCarts(g)' = 0
      BY <2>7, <2>9, PiecesAreNext, InOneCart
    <3>2. /\ InOrders(g) \in Int /\ order.lines[g].qty \in Nat
          /\ InOrders(g)' = InOrders(g) + order.lines[g].qty
      BY <2>1, <2>2, <2>3, OneMoreOrder, PiecesAre, PiecesAreNext
    <3>3. InCarts(g) = order.lines[g].qty
      <4>1. c \in ActiveOnes(cart) /\ \A i, j \in ActiveOnes(cart) : i = j
        BY <1>1, <2>1, <2>8 DEF ActiveOnes
      <4> QED BY <2>2, <2>3, <4>1, InOneCart, PiecesAre
    <3>4. InCarts(g) + InOrders(g) = put[g]
      BY <2>16 DEF CartsInv, AllKept
    <3> DEFINE a == InOrders(g)
               b == order.lines[g].qty
               x == InOrders(g)'
    <3>5. a \in Int /\ b \in Nat /\ x = a + b /\ b + a = put[g]
      BY <3>2, <3>3, <3>4
    <3>6. 0 + x = put[g]
      <4> HIDE DEF a, b, x
      <4> QED BY <3>5
    <3> QED BY <3>1, <3>6
  <2>17. ASSUME ~overtaken, NEW k \in DOMAIN placed'
         PROVE  placed'[k].lines = cart'[placed'[k].from].lines
    <3>1. CASE k \in 1 .. n
      <4>1. placed[k].lines = cart[placed[k].from].lines
        BY <2>4, <2>17, <3>1 DEF CartsInv, AllKept
      <4> QED BY <2>4, <2>5, <2>13, <3>1, <4>1
    <3>2. CASE k = n + 1
      BY <2>3, <2>4, <2>6, <3>2
    <3> QED BY <2>4, <2>14, <2>17, <3>1, <3>2
  <2>18. AllKept'
    BY <1>1, <2>16, <2>17 DEF AllKept
  <2> QED BY <2>10, <2>11, <2>12, <2>15, <2>18 DEF CartsInv
<1> QED BY <1>2, <1>3

LEMMA CartsKeeps == CartsInv /\ [CartsNext]_cartVars => CartsInv'
<1> SUFFICES ASSUME CartsInv, [CartsNext]_cartVars PROVE CartsInv'
  OBVIOUS
<1>t. /\ menu \in [Goods -> [live : BOOLEAN, price : GoodPrices]]
      /\ guest \in [phone : BOOLEAN, blocked : BOOLEAN] /\ DOMAIN hand = Handlers
  BY DEF CartsInv, CartTypes
<1>1. ASSUME NEW u \in Updates, Ignore(u) \/ ShareContact(u)
      PROVE  CartsInv'
  <2>1. guest' \in [phone : BOOLEAN, blocked : BOOLEAN]
    BY <1>t, <1>1 DEF Ignore, ShareContact
  <2>2. TakeUp(u) /\ UNCHANGED <<menu, cart, placed, hand, put, overtaken>>
    BY <1>1 DEF Ignore, ShareContact
  <2> QED BY <1>t, <2>1, <2>2, CartsStay
<1>2. ASSUME NEW h \in Handlers, NEW u \in Updates, NEW g \in Goods, NEW n \in 1 .. LineCap,
             BeginAdd(h, u, g, n)
      PROVE  CartsInv'
  <2> DEFINE job == [what |-> "add", cart |-> OpenCart, good |-> g, qty |-> n, price |-> menu[g].price]
  <2>1. Begins(h, u, job)
    BY <1>2 DEF BeginAdd
  <2>2. menu[g].price \in Nat /\ n \in Nat
    <3>1. menu[g] \in [live : BOOLEAN, price : GoodPrices]
      BY <1>t
    <3>2. menu[g].price \in GoodPrices
      BY <3>1
    <3>3. n \in Nat
      BY GivenCarts
    <3>4. \A p \in GoodPrices : p \in Nat
      BY GivenCarts
    <3> HIDE DEF job
    <3> QED BY <3>2, <3>3, <3>4, Zenon
  <2>3. /\ job.what = "add" /\ job.cart \in DOMAIN Opened /\ job.good \in Goods
        /\ job.qty \in Nat /\ job.price \in Nat
    BY <2>2, OpenedIs
  <2> HIDE DEF job
  <2> QED BY <2>1, <2>3, HandlerBegins
<1>3. ASSUME NEW h \in Handlers, NEW u \in Updates, NEW g \in Goods, NEW what \in {"dec", "rm"},
             BeginTake(h, u, g, what)
      PROVE  CartsInv'
  <2> DEFINE job == [what |-> what, cart |-> OpenCart, good |-> g]
  <2>1. Begins(h, u, job)
    BY <1>3 DEF BeginTake
  <2>2. job.what \in {"dec", "rm"} /\ job.cart \in DOMAIN Opened /\ job.good \in Goods
    BY OpenedIs
  <2> HIDE DEF job
  <2> QED BY <2>1, <2>2, HandlerBegins
<1>4. ASSUME NEW h \in Handlers, NEW u \in Updates, NEW what \in {"clear", "checkout"},
             BeginAll(h, u, what)
      PROVE  CartsInv'
  <2> DEFINE job == [what |-> what, cart |-> OpenCart, phone |-> guest.phone]
  <2>1. Begins(h, u, job)
    BY <1>4 DEF BeginAll
  <2>2. job.what \in {"clear", "checkout"} /\ job.cart \in DOMAIN Opened
    BY OpenedIs
  <2> HIDE DEF job
  <2> QED BY <2>1, <2>2, HandlerBegins
<1>5. ASSUME NEW h \in Handlers, HandlerDies(h)
      PROVE  CartsInv'
  BY <1>5, TurnEndsKeeps DEF HandlerDies
<1>6. CASE ReplyRefused
  <2>1. guest' \in [phone : BOOLEAN, blocked : BOOLEAN]
    BY <1>t, <1>6 DEF ReplyRefused
  <2> QED BY <1>t, <1>6, <2>1, CartsStay DEF ReplyRefused
<1>7. ASSUME NEW g \in Goods, NEW live \in BOOLEAN, NEW price \in GoodPrices,
             ChangeMenu(g, live, price)
      PROVE  CartsInv'
  <2>1. menu' \in [Goods -> [live : BOOLEAN, price : GoodPrices]]
    BY <1>t, <1>7 DEF ChangeMenu
  <2> QED BY <1>t, <1>7, <2>1, CartsStay DEF ChangeMenu
<1>8. CASE UNCHANGED cartVars
  BY <1>t, <1>8, CartsStay DEF cartVars
<1> QED BY <1>1, <1>2, <1>3, <1>4, <1>5, <1>6, <1>7, <1>8,
           AddKeeps, RemoveKeeps, ReadKeeps, DecrementKeeps, CheckoutKeeps DEF CartsNext, Delivered

LEMMA CartsSay == CartsInv => CartsBecomeOrders
<1> SUFFICES ASSUME CartsInv PROVE CartsBecomeOrders
  OBVIOUS
<1>1. Cardinality(ActiveCarts) <= 1
  <2>1. CASE ActiveCarts = {}
    BY <2>1, FS_EmptySet
  <2>2. CASE ActiveCarts # {}
    <3>1. PICK i \in ActiveCarts : TRUE
      BY <2>2
    <3>2. ActiveCarts = {i}
      BY <3>1 DEF CartsInv, OneActive
    <3> QED BY <3>2, FS_Singleton
  <2> QED BY <2>1, <2>2
<1> QED BY <1>1 DEF CartsInv, OnceTaken, OnceOrdered, AllKept, CartsBecomeOrders

-----------------------------------------------------------------------------
(* Notices                                                                 *)

ANote == [note : Notes, chats : SUBSET Chats]
ARun == [on : BOOLEAN, left : Seq(ANote), failed : Seq(ANote)]
NoticeTypes ==
  /\ line \in Seq(Notes) /\ pending \in Seq(ANote) /\ Len(pending) <= MaxPending
  /\ run \in [Offices -> ARun]
  /\ \A o \in Offices : /\ Len(run[o].left) + Len(run[o].failed) <= MaxPending
                        /\ run[o].on \/ (run[o].left = <<>> /\ run[o].failed = <<>>)
  /\ due \in [Notes -> SUBSET Chats] /\ received \in [Notes -> [Chats -> Nat]]

\* A note is in a sequence of items once at most.
OnceIn(items, n) ==
  \A i, j \in DOMAIN items : items[i].note = n /\ items[j].note = n => i = j
Lined(n) ==
  /\ \A i, j \in DOMAIN line : line[i] = n /\ line[j] = n => i = j
  /\ (\E i \in DOMAIN line : line[i] = n) => due[n] = Undecided
\* Before it is decided whom a note is for it is nowhere but in the line.
Unsent(n) == due[n] = Undecided => n \notin NotesIn(pending) /\ \A c \in Chats : received[n][c] = 0
InRun(o, n) == n \in NotesIn(run[o].left) \cup NotesIn(run[o].failed)
\* A note that an office is about to send is still in the list, and no other office is at work.
Alone(n) ==
  \A o \in Offices : InRun(o, n) => n \in NotesIn(pending) /\ \A q \in Offices : run[q].on => q = o
Listed(n) ==
  /\ OnceIn(pending, n)
  /\ \A o \in Offices :
       /\ OnceIn(run[o].left, n) /\ OnceIn(run[o].failed, n)
       /\ n \notin NotesIn(run[o].left) \cap NotesIn(run[o].failed)
ToBeSent(o, n, c) == Waits(run[o].left, n, c) \/ Waits(run[o].failed, n, c)
\* What is still to be sent was not received, and what was not received is to be sent; only while
\* an office is at work the list has what it has sent already.
Awaited(n, c) ==
  /\ received[n][c] <= 1
  /\ \A o \in Offices : ToBeSent(o, n, c) => received[n][c] = 0
  /\ Waits(pending, n, c) /\ received[n][c] # 0 => \E q \in Offices : run[q].on
  /\ received[n][c] = 0 =>
       \/ \E o \in Offices : ToBeSent(o, n, c)
       \/ (\A o \in Offices : ~InRun(o, n)) /\ Waits(pending, n, c)
Tracked(n) == Lined(n) /\ Unsent(n) /\ Alone(n) /\ Listed(n) /\ \A c \in due[n] : Awaited(n, c)
NoticesInv == NoticeTypes /\ \A n \in Notes \ excused : Tracked(n)

LEMMA GivenNotices == MaxPending \in Nat /\ MaxPending > 0
BY NoticeAssumption

LEMMA NoItems == \A n : n \notin NotesIn(<<>>) /\ OnceIn(<<>>, n) /\ \A c : ~Waits(<<>>, n, c)
<1>1. DOMAIN <<>> = {}
  OBVIOUS
<1> QED BY <1>1 DEF NotesIn, OnceIn, Waits

LEMMA InNotes == \A items, n : n \in NotesIn(items) <=> \E i \in DOMAIN items : items[i].note = n
BY DEF NotesIn

LEMMA WaitsIn == \A items, n, c : Waits(items, n, c) => n \in NotesIn(items)
BY DEF Waits, NotesIn

LEMMA NoticesBegin == NoticesInit => NoticesInv
<1> SUFFICES ASSUME NoticesInit PROVE NoticesInv
  OBVIOUS
<1>1. <<>> \in Seq(Notes) /\ <<>> \in Seq(ANote) /\ Len(<<>>) = 0 /\ DOMAIN <<>> = {}
  OBVIOUS
<1>2. \A o \in Offices : run[o] = NoRun
  BY DEF NoticesInit
<1>3. NoRun \in ARun /\ NoRun.left = <<>> /\ NoRun.failed = <<>> /\ ~NoRun.on
  BY <1>1 DEF NoRun, ARun
<1>4. NoticeTypes
  <2>1. line \in Seq(Notes) /\ pending \in Seq(ANote) /\ Len(pending) <= MaxPending
    BY <1>1, GivenNotices DEF NoticesInit
  <2>2. run \in [Offices -> ARun]
    BY <1>3 DEF NoticesInit
  <2>3. \A o \in Offices : /\ Len(run[o].left) + Len(run[o].failed) <= MaxPending
                           /\ run[o].on \/ (run[o].left = <<>> /\ run[o].failed = <<>>)
    <3>1. 0 + 0 <= MaxPending
      BY GivenNotices
    <3>2. \A o \in Offices : run[o].left = <<>> /\ run[o].failed = <<>>
      BY <1>2, <1>3, Zenon
    <3>3. \A o \in Offices : Len(run[o].left) = 0 /\ Len(run[o].failed) = 0
      BY <1>1, <3>2, Zenon
    <3> QED BY <3>1, <3>2, <3>3
  <2>4. due \in [Notes -> SUBSET Chats] /\ received \in [Notes -> [Chats -> Nat]]
    BY DEF NoticesInit, Undecided
  <2> QED BY <2>1, <2>2, <2>3, <2>4 DEF NoticeTypes
<1>5. ASSUME NEW n \in Notes PROVE Tracked(n)
  <2>1. Lined(n)
    BY <1>1 DEF NoticesInit, Lined
  <2>2. Unsent(n)
    BY <1>1, NoItems DEF NoticesInit, Unsent
  <2>3. Alone(n) /\ Listed(n)
    BY <1>2, <1>3, NoItems DEF NoticesInit, Alone, Listed, InRun
  <2> QED BY <2>1, <2>2, <2>3 DEF Tracked, NoticesInit, Undecided
<1> QED BY <1>4, <1>5 DEF NoticesInv

\* One more item, and one less.
LEMMA OneMoreItem ==
  ASSUME NEW items \in Seq(ANote), NEW e \in ANote
  PROVE  /\ Append(items, e) \in Seq(ANote) /\ Len(Append(items, e)) = Len(items) + 1
         /\ \A n : n \in NotesIn(Append(items, e)) <=> n \in NotesIn(items) \/ n = e.note
         /\ \A n, c : Waits(Append(items, e), n, c) <=> Waits(items, n, c) \/ (n = e.note /\ c \in e.chats)
         /\ \A n : OnceIn(items, n) /\ (n = e.note => n \notin NotesIn(items)) => OnceIn(Append(items, e), n)
<1>1. PICK k \in Nat : k = Len(items)
  OBVIOUS
<1>2. PICK more : more = Append(items, e)
  OBVIOUS
<1>3. /\ more \in Seq(ANote) /\ Len(more) = k + 1 /\ DOMAIN items = 1 .. k /\ DOMAIN more = 1 .. k + 1
      /\ more[k + 1] = e /\ \A i \in 1 .. k : more[i] = items[i]
  BY <1>1, <1>2
<1>4. \A i \in 1 .. k + 1 : i \in 1 .. k \/ i = k + 1
  BY <1>1
<1>5. k + 1 \in 1 .. k + 1 /\ \A i \in 1 .. k : i \in 1 .. k + 1
  BY <1>1
<1>6. \A n : n \in NotesIn(more) <=> n \in NotesIn(items) \/ n = e.note
  BY <1>3, <1>4, <1>5 DEF NotesIn
<1>7. \A n, c : Waits(more, n, c) <=> Waits(items, n, c) \/ (n = e.note /\ c \in e.chats)
  BY <1>3, <1>4, <1>5 DEF Waits
<1>8. ASSUME NEW n, OnceIn(items, n), n = e.note => n \notin NotesIn(items) PROVE OnceIn(more, n)
  <2>1. \A i \in 1 .. k : items[i].note = n => n # e.note
    BY <1>3, <1>8 DEF NotesIn
  <2> QED BY <1>3, <1>4, <1>8, <2>1 DEF OnceIn
<1> QED BY <1>1, <1>2, <1>3, <1>6, <1>7, <1>8

LEMMA OneItemLess ==
  ASSUME NEW items \in Seq(ANote), items # <<>>
  PROVE  /\ Tail(items) \in Seq(ANote) /\ Len(Tail(items)) = Len(items) - 1 /\ Head(items) \in ANote
         /\ \A n : n \in NotesIn(items) <=> n \in NotesIn(Tail(items)) \/ n = Head(items).note
         /\ \A n, c : Waits(items, n, c) <=> Waits(Tail(items), n, c) \/ (n = Head(items).note /\ c \in Head(items).chats)
         /\ \A n : OnceIn(items, n) => /\ OnceIn(Tail(items), n)
                                       /\ n = Head(items).note => n \notin NotesIn(Tail(items))
         /\ items[1] = Head(items)
<1>1. PICK k \in Nat : k + 1 = Len(items)
  <2>1. Len(items) \in Nat /\ Len(items) # 0
    OBVIOUS
  <2>2. Len(items) - 1 \in Nat /\ (Len(items) - 1) + 1 = Len(items)
    BY <2>1
  <2> QED BY <2>2
<1>2. PICK less : less = Tail(items)
  OBVIOUS
<1>3. PICK e : e = Head(items)
  OBVIOUS
<1>4. /\ less \in Seq(ANote) /\ Len(less) = k /\ DOMAIN items = 1 .. k + 1 /\ DOMAIN less = 1 .. k
      /\ items[1] = e /\ e \in ANote /\ \A i \in 1 .. k : less[i] = items[i + 1]
  BY <1>1, <1>2, <1>3
<1>5. /\ 1 \in 1 .. k + 1 /\ \A i \in 1 .. k : i + 1 \in 1 .. k + 1 /\ i + 1 # 1
      /\ \A i, j \in 1 .. k : i + 1 = j + 1 => i = j
  BY <1>1
<1>6. \A i \in 1 .. k + 1 : i = 1 \/ \E j \in 1 .. k : i = j + 1
  <2> SUFFICES ASSUME NEW i \in 1 .. k + 1, i # 1 PROVE \E j \in 1 .. k : i = j + 1
    OBVIOUS
  <2>1. i - 1 \in 1 .. k /\ i = (i - 1) + 1
    BY <1>1
  <2> QED BY <2>1
<1>7. /\ \A i \in DOMAIN items : items[i] = e \/ \E j \in DOMAIN less : items[i] = less[j]
      /\ \A j \in DOMAIN less : \E i \in DOMAIN items : less[j] = items[i]
      /\ \E i \in DOMAIN items : items[i] = e
  <2>1. ASSUME NEW i \in DOMAIN items, items[i] # e PROVE \E j \in DOMAIN less : items[i] = less[j]
    <3>1. PICK j \in 1 .. k : i = j + 1
      BY <1>4, <1>6, <2>1
    <3> QED BY <1>4, <3>1
  <2>2. ASSUME NEW j \in DOMAIN less PROVE \E i \in DOMAIN items : less[j] = items[i]
    <3>1. j + 1 \in DOMAIN items /\ less[j] = items[j + 1]
      BY <1>4, <1>5
    <3> QED BY <3>1
  <2> QED BY <1>4, <1>5, <2>1, <2>2
<1>8. /\ \A n : n \in NotesIn(items) <=> n \in NotesIn(less) \/ n = e.note
      /\ \A n, c : Waits(items, n, c) <=> Waits(less, n, c) \/ (n = e.note /\ c \in e.chats)
  <2>1. ASSUME NEW n PROVE n \in NotesIn(items) <=> n \in NotesIn(less) \/ n = e.note
    <3>1. ASSUME NEW i \in DOMAIN items, items[i].note = n
          PROVE  n = e.note \/ \E j \in DOMAIN less : less[j].note = n
      BY <1>7, <3>1
    <3>2. (\E j \in DOMAIN less : less[j].note = n) => \E i \in DOMAIN items : items[i].note = n
      BY <1>7
    <3>3. n = e.note => \E i \in DOMAIN items : items[i].note = n
      BY <1>7
    <3>4. /\ n \in NotesIn(items) <=> \E i \in DOMAIN items : items[i].note = n
          /\ n \in NotesIn(less) <=> \E i \in DOMAIN less : less[i].note = n
      BY InNotes
    <3> QED BY <3>1, <3>2, <3>3, <3>4
  <2>2. ASSUME NEW n, NEW c PROVE Waits(items, n, c) <=> Waits(less, n, c) \/ (n = e.note /\ c \in e.chats)
    BY <1>7, Zenon DEF Waits
  <2> QED BY <2>1, <2>2
<1>9. ASSUME NEW n, OnceIn(items, n)
      PROVE  OnceIn(less, n) /\ (n = e.note => n \notin NotesIn(less))
  <2>1. ASSUME NEW i \in DOMAIN less, NEW j \in DOMAIN less, less[i].note = n, less[j].note = n PROVE i = j
    <3>1. i + 1 \in DOMAIN items /\ j + 1 \in DOMAIN items /\ items[i + 1].note = n /\ items[j + 1].note = n
      BY <1>4, <1>5, <2>1
    <3>2. i + 1 = j + 1
      BY <1>9, <3>1 DEF OnceIn
    <3> QED BY <1>4, <1>5, <3>2
  <2>2. ASSUME n = e.note, NEW j \in DOMAIN less, less[j].note = n PROVE FALSE
    <3>1. 1 \in DOMAIN items /\ items[1].note = n /\ j + 1 \in DOMAIN items /\ items[j + 1].note = n /\ j + 1 # 1
      BY <1>4, <1>5, <2>2
    <3> QED BY <1>9, <3>1 DEF OnceIn
  <2> QED BY <2>1, <2>2 DEF OnceIn, NotesIn
<1>10. Len(less) = Len(items) - 1
  BY <1>1, <1>4
<1> QED BY <1>2, <1>3, <1>4, <1>8, <1>9, <1>10

\* add: all that was there is, but for the head of a list that is full.
LEMMA AddedIs ==
  ASSUME NEW items \in Seq(ANote), Len(items) <= MaxPending, NEW e \in ANote
  PROVE  /\ Added(items, e) \in Seq(ANote) /\ Len(Added(items, e)) <= MaxPending
         /\ \A n : n \notin DroppedBy(items) =>
              /\ n \in NotesIn(Added(items, e)) <=> n \in NotesIn(items) \/ n = e.note
              /\ \A c : Waits(Added(items, e), n, c) <=> Waits(items, n, c) \/ (n = e.note /\ c \in e.chats)
              /\ OnceIn(items, n) /\ (n = e.note => n \notin NotesIn(items)) => OnceIn(Added(items, e), n)
<1>1. PICK all : all = Append(items, e)
  OBVIOUS
<1>2. /\ all \in Seq(ANote) /\ Len(all) = Len(items) + 1 /\ Len(items) \in Nat
      /\ \A n : n \in NotesIn(all) <=> n \in NotesIn(items) \/ n = e.note
      /\ \A n, c : Waits(all, n, c) <=> Waits(items, n, c) \/ (n = e.note /\ c \in e.chats)
      /\ \A n : OnceIn(items, n) /\ (n = e.note => n \notin NotesIn(items)) => OnceIn(all, n)
  BY <1>1, OneMoreItem
<1>3. MaxPending \in Nat /\ MaxPending > 0
  BY GivenNotices
<1>4. CASE Len(items) < MaxPending
  <2>1. Added(items, e) = all
    BY <1>1, <1>2, <1>3, <1>4 DEF Added
  <2> QED BY <1>2, <1>3, <1>4, <2>1
<1>5. CASE Len(items) = MaxPending
  <2>1. Added(items, e) = SubSeq(all, 2, Len(all))
    BY <1>1, <1>2, <1>3, <1>5 DEF Added
  <2>2. SubSeq(all, 2, Len(all)) = Tail(all)
    BY <1>2
  <2>3. all # <<>> /\ Head(all) = items[1] /\ DroppedBy(items) = {items[1].note}
    BY <1>1, <1>2, <1>3, <1>5 DEF DroppedBy
  <2>4. /\ Tail(all) \in Seq(ANote) /\ Len(Tail(all)) = Len(items)
        /\ \A n : n # items[1].note =>
             /\ n \in NotesIn(all) <=> n \in NotesIn(Tail(all))
             /\ \A c : Waits(all, n, c) <=> Waits(Tail(all), n, c)
             /\ OnceIn(all, n) => OnceIn(Tail(all), n)
    BY <1>2, <2>3, OneItemLess
  <2> HIDE DEF Added, DroppedBy
  <2>5. \A n : n \notin DroppedBy(items) => n # items[1].note
    BY <2>3
  <2> QED BY <1>2, <1>3, <1>5, <2>1, <2>2, <2>4, <2>5, Zenon
<1> QED BY <1>2, <1>3, <1>4, <1>5

\* A note stays tracked where the list keeps it and nothing else about it changes.
LEMMA NoteStays ==
  ASSUME NEW n, Tracked(n), UNCHANGED run, due'[n] = due[n], received'[n] = received[n], Lined(n)',
         n \in NotesIn(pending') <=> n \in NotesIn(pending),
         \A c : Waits(pending', n, c) <=> Waits(pending, n, c),
         OnceIn(pending, n) => OnceIn(pending', n)
  PROVE  Tracked(n)'
<1>1. Unsent(n)'
  BY DEF Tracked, Unsent, Undecided
<1>2. Alone(n)'
  BY DEF Tracked, Alone, InRun
<1>3. Listed(n)'
  BY DEF Tracked, Listed
<1>4. ASSUME NEW c \in due[n] PROVE Awaited(n, c)'
  BY DEF Tracked, Awaited, ToBeSent, InRun
<1> QED BY <1>1, <1>2, <1>3, <1>4 DEF Tracked

LEMMA SentIs ==
  ASSUME NoticesInv, NEW n \in Notes, NEW chats, NEW failed, NEW late, Sent(n, chats, failed, late)
  PROVE  /\ received' \in [Notes -> [Chats -> Nat]]
         /\ \A m \in Notes : m # n => received'[m] = received[m]
         /\ \A c \in Chats : received'[n][c] = IF c \in (chats \ failed) \cup late THEN received[n][c] + 1 ELSE received[n][c]
         /\ \A c \in Chats : received[n][c] \in Nat
<1>1. received \in [Notes -> [Chats -> Nat]]
  BY DEF NoticesInv, NoticeTypes
<1>2. PICK tally : tally = [c \in Chats |-> IF c \in (chats \ failed) \cup late THEN received[n][c] + 1 ELSE received[n][c]]
  OBVIOUS
<1>3. received' = [received EXCEPT ![n] = tally]
  BY <1>2 DEF Sent
<1>4. tally \in [Chats -> Nat]
  BY <1>1, <1>2
<1> QED BY <1>1, <1>2, <1>3, <1>4

LEMMA LineIs ==
  ASSUME NoticesInv
  PROVE  /\ \A n \in Notes : /\ Append(line, n) \in Seq(Notes)
                             /\ DOMAIN Append(line, n) = 1 .. Len(line) + 1 /\ Append(line, n)[Len(line) + 1] = n
                             /\ \A i \in DOMAIN line : Append(line, n)[i] = line[i]
         /\ Len(line) \in Nat /\ DOMAIN line = 1 .. Len(line)
         /\ line # <<>> => /\ Tail(line) \in Seq(Notes) /\ Head(line) \in Notes /\ line[1] = Head(line)
                           /\ 1 \in DOMAIN line
                           /\ \A i \in DOMAIN Tail(line) : i + 1 \in DOMAIN line /\ i + 1 # 1 /\ Tail(line)[i] = line[i + 1]
                           /\ \A i, j \in DOMAIN Tail(line) : i + 1 = j + 1 => i = j
<1>1. line \in Seq(Notes)
  BY DEF NoticesInv, NoticeTypes
<1>2. PICK k \in Nat : k = Len(line) /\ DOMAIN line = 1 .. k
  BY <1>1
<1>3. ASSUME NEW n \in Notes
      PROVE  /\ Append(line, n) \in Seq(Notes)
             /\ DOMAIN Append(line, n) = 1 .. Len(line) + 1 /\ Append(line, n)[Len(line) + 1] = n
             /\ \A i \in DOMAIN line : Append(line, n)[i] = line[i]
  BY <1>1, OneMore
<1>4. ASSUME line # <<>>
      PROVE  /\ Tail(line) \in Seq(Notes) /\ Head(line) \in Notes /\ line[1] = Head(line)
             /\ 1 \in DOMAIN line
             /\ \A i \in DOMAIN Tail(line) : i + 1 \in DOMAIN line /\ i + 1 # 1 /\ Tail(line)[i] = line[i + 1]
             /\ \A i, j \in DOMAIN Tail(line) : i + 1 = j + 1 => i = j
  <2>1. k # 0
    BY <1>1, <1>2, <1>4
  <2>2. Tail(line) \in Seq(Notes) /\ DOMAIN Tail(line) = 1 .. k - 1 /\ \A i \in 1 .. k - 1 : Tail(line)[i] = line[i + 1]
    BY <1>1, <1>2, <1>4
  <2>3. 1 \in 1 .. k /\ \A i \in 1 .. k - 1 : i + 1 \in 1 .. k /\ i + 1 # 1
    BY <2>1
  <2>4. \A i, j \in 1 .. k - 1 : i + 1 = j + 1 => i = j
    OBVIOUS
  <2> QED BY <1>1, <1>2, <1>4, <2>2, <2>3, <2>4
<1> QED BY <1>2, <1>3, <1>4

LEMMA LineShortens ==
  ASSUME NoticesInv, line # <<>>, line' = Tail(line), NEW n, Lined(n)
  PROVE  /\ due'[n] = due[n] => Lined(n)'
         /\ n = Head(line) => Lined(n)' /\ due[n] = Undecided
<1>1. /\ line[1] = Head(line) /\ 1 \in DOMAIN line
      /\ \A i \in DOMAIN line' : i + 1 \in DOMAIN line /\ i + 1 # 1 /\ line'[i] = line[i + 1]
      /\ \A i, j \in DOMAIN line' : i + 1 = j + 1 => i = j
  BY LineIs
<1>2. \A i, j \in DOMAIN line' : line'[i] = n /\ line'[j] = n => i = j
  <2> SUFFICES ASSUME NEW i \in DOMAIN line', NEW j \in DOMAIN line', line'[i] = n, line'[j] = n PROVE i = j
    OBVIOUS
  <2>1. i + 1 \in DOMAIN line /\ j + 1 \in DOMAIN line /\ line[i + 1] = n /\ line[j + 1] = n
    BY <1>1
  <2>2. i + 1 = j + 1
    BY <2>1 DEF Lined
  <2> QED BY <1>1, <2>2
<1>3. due'[n] = due[n] => Lined(n)'
  BY <1>1, <1>2 DEF Lined, Undecided
<1>4. ASSUME n = Head(line) PROVE Lined(n)' /\ due[n] = Undecided
  <2>1. \A i \in DOMAIN line' : line'[i] # n
    <3> SUFFICES ASSUME NEW i \in DOMAIN line', line'[i] = n PROVE FALSE
      OBVIOUS
    <3>1. i + 1 \in DOMAIN line /\ i + 1 # 1 /\ line[i + 1] = n /\ line[1] = n
      BY <1>1, <1>4
    <3> QED BY <1>1, <3>1 DEF Lined
  <2>2. due[n] = Undecided
    BY <1>1, <1>4 DEF Lined
  <2> QED BY <2>1, <2>2 DEF Lined
<1> QED BY <1>3, <1>4

LEMMA NotifyKeeps ==
  ASSUME NoticesInv, NEW n \in Notes, Notify(n)
  PROVE  NoticesInv'
<1>1. /\ line' = Append(line, n) /\ due[n] = Undecided /\ \A i \in DOMAIN line : line[i] # n
      /\ UNCHANGED <<pending, run, due, received, excused>>
  BY DEF Notify
<1>2. /\ line' \in Seq(Notes) /\ DOMAIN line' = 1 .. Len(line) + 1 /\ line'[Len(line) + 1] = n
      /\ \A i \in DOMAIN line : line'[i] = line[i]
      /\ Len(line) \in Nat /\ DOMAIN line = 1 .. Len(line)
  BY <1>1, LineIs
<1>3. NoticeTypes'
  BY <1>1, <1>2 DEF NoticesInv, NoticeTypes, ARun
<1>4. ASSUME NEW m \in Notes \ excused PROVE Tracked(m)'
  <2>1. Tracked(m)
    BY DEF NoticesInv
  <2>2. \A i \in DOMAIN line' : i \in DOMAIN line \/ i = Len(line) + 1
    BY <1>2
  <2>3. Lined(m)'
    BY <1>1, <1>2, <2>1, <2>2 DEF Lined, Tracked, Undecided
  <2> QED BY <1>1, <2>1, <2>3, NoteStays, Zenon
<1> QED BY <1>1, <1>3, <1>4 DEF NoticesInv

\* A note is sent for the first time: what failed goes to the list.
LEMMA DispatchKeeps ==
  ASSUME NoticesInv, line # <<>>, NEW x \in Outcomes(RecipientsFor(Head(line))), Dispatch(x[1], x[2])
  PROVE  NoticesInv'
<1>1. PICK n \in Notes, chats \in SUBSET Chats, failed \in SUBSET Chats, late \in SUBSET Chats :
        /\ n = Head(line) /\ chats = RecipientsFor(n) /\ failed = x[1] /\ late = x[2]
        /\ failed \subseteq chats /\ late \subseteq failed
  <2>1. Head(line) \in Notes
    BY LineIs
  <2> QED BY <2>1 DEF Outcomes, RecipientsFor
<1>2. /\ line' = Tail(line) /\ due' = [due EXCEPT ![n] = chats] /\ Sent(n, chats, failed, late)
      /\ pending' = IF failed = {} THEN pending ELSE Added(pending, Item(n, failed))
      /\ excused' = excused \cup (IF chats = {} \/ late # {} THEN {n} ELSE {})
                            \cup (IF failed = {} THEN {} ELSE DroppedBy(pending))
      /\ UNCHANGED run
  BY <1>1 DEF Dispatch, Still
<1>3. PICK e \in ANote : e = Item(n, failed) /\ e.note = n /\ e.chats = failed
  <2>1. PICK f : f = [note |-> n, chats |-> failed]
    OBVIOUS
  <2>2. f \in ANote /\ f.note = n /\ f.chats = failed
    BY <2>1 DEF ANote
  <2>3. f = Item(n, failed)
    BY <2>1 DEF Item
  <2> QED BY <2>2, <2>3
<1>4. pending \in Seq(ANote) /\ Len(pending) <= MaxPending
  BY DEF NoticesInv, NoticeTypes
<1>5. /\ pending' \in Seq(ANote) /\ Len(pending') <= MaxPending
      /\ \A m : m \notin excused' =>
           /\ m \in NotesIn(pending') <=> m \in NotesIn(pending) \/ (m = n /\ failed # {})
           /\ \A c : Waits(pending', m, c) <=> Waits(pending, m, c) \/ (m = n /\ c \in failed)
           /\ OnceIn(pending, m) /\ (m = n => m \notin NotesIn(pending)) => OnceIn(pending', m)
  <2>1. CASE failed = {}
    BY <1>2, <1>4, <2>1
  <2>2. CASE failed # {}
    <3>1. pending' = Added(pending, e) /\ \A m : m \notin excused' => m \notin DroppedBy(pending)
      BY <1>2, <1>3, <2>2
    <3> QED BY <1>3, <1>4, <2>2, <3>1, AddedIs
  <2> QED BY <2>1, <2>2
<1>6. /\ received' \in [Notes -> [Chats -> Nat]]
      /\ \A m \in Notes : m # n => received'[m] = received[m]
      /\ \A c \in Chats : received'[n][c] = IF c \in (chats \ failed) \cup late THEN received[n][c] + 1 ELSE received[n][c]
  BY <1>2, SentIs
<1>7. due \in [Notes -> SUBSET Chats] /\ line' \in Seq(Notes)
  BY <1>2, LineIs DEF NoticesInv, NoticeTypes
<1>8. NoticeTypes'
  BY <1>2, <1>5, <1>6, <1>7 DEF NoticesInv, NoticeTypes
<1>9. ASSUME NEW m \in Notes \ excused' PROVE Tracked(m)'
  <2>1. Tracked(m) /\ m \notin excused'
    BY <1>2 DEF NoticesInv
  <2>2. CASE m # n
    <3>1. due'[m] = due[m] /\ received'[m] = received[m]
      BY <1>2, <1>6, <1>7, <2>2
    <3>2. Lined(m)'
      BY <1>2, <2>1, <3>1, LineShortens DEF Tracked
    <3>3. /\ m \in NotesIn(pending') <=> m \in NotesIn(pending)
          /\ \A c : Waits(pending', m, c) <=> Waits(pending, m, c)
          /\ OnceIn(pending, m) => OnceIn(pending', m)
      BY <1>5, <2>1, <2>2
    <3> QED BY <1>2, <2>1, <3>1, <3>2, <3>3, NoteStays, Zenon
  <2>3. CASE m = n
    <3>1. Lined(m)' /\ due[m] = Undecided
      BY <1>1, <1>2, <2>1, <2>3, LineShortens DEF Tracked
    <3>2. due'[m] = chats /\ chats # {} /\ late = {}
      BY <1>2, <1>7, <2>1, <2>3
    <3>3. m \notin NotesIn(pending) /\ \A c \in Chats : received[m][c] = 0
      BY <2>1, <3>1 DEF Tracked, Unsent
    <3>4. \A o \in Offices : ~InRun(o, m)
      BY <2>1, <3>3 DEF Tracked, Alone
    <3>5. Unsent(m)' /\ Alone(m)'
      BY <1>2, <3>2, <3>4 DEF Unsent, Undecided, Alone, InRun
    <3>6. Listed(m)'
      BY <1>2, <1>5, <2>1, <3>3 DEF Tracked, Listed
    <3>7. ASSUME NEW c \in chats PROVE Awaited(m, c)'
      <4>1. /\ Waits(pending', m, c) <=> c \in failed
            /\ received'[m][c] = IF c \in failed THEN 0 ELSE 1
        BY <1>5, <1>6, <2>1, <2>3, <3>2, <3>3, WaitsIn
      <4>2. \A o \in Offices : ~ToBeSent(o, m, c)' /\ ~InRun(o, m)'
        BY <1>2, <3>4, WaitsIn DEF ToBeSent, InRun
      <4> QED BY <4>1, <4>2 DEF Awaited
    <3> QED BY <3>1, <3>2, <3>5, <3>6, <3>7 DEF Tracked
  <2> QED BY <2>2, <2>3
<1> QED BY <1>8, <1>9 DEF NoticesInv

LEMMA DispatchFailsKeeps ==
  ASSUME NoticesInv, line # <<>>, NEW requeued \in BOOLEAN, DispatchFails(requeued)
  PROVE  NoticesInv'
<1>1. PICK n \in Notes, chats \in SUBSET Chats : n = Head(line) /\ chats = RecipientsFor(n)
  BY LineIs DEF RecipientsFor
<1>2. /\ line' = Tail(line) /\ due' = [due EXCEPT ![n] = chats] /\ Sent(n, chats, {}, {})
      /\ pending' = IF requeued THEN Added(pending, Item(n, Chats)) ELSE pending
      /\ excused' = excused \cup {n} \cup (IF requeued THEN DroppedBy(pending) ELSE {})
      /\ UNCHANGED run
  BY <1>1 DEF DispatchFails
<1>3. PICK e \in ANote : e = Item(n, Chats) /\ e.note = n
  <2>1. PICK f : f = [note |-> n, chats |-> Chats]
    OBVIOUS
  <2>2. f \in ANote /\ f.note = n /\ f.chats = Chats
    BY <2>1 DEF ANote
  <2>3. f = Item(n, Chats)
    BY <2>1 DEF Item
  <2> QED BY <2>2, <2>3
<1>4. pending \in Seq(ANote) /\ Len(pending) <= MaxPending
  BY DEF NoticesInv, NoticeTypes
<1>5. /\ pending' \in Seq(ANote) /\ Len(pending') <= MaxPending
      /\ \A m : m \notin excused' =>
           /\ m \in NotesIn(pending') <=> m \in NotesIn(pending)
           /\ \A c : Waits(pending', m, c) <=> Waits(pending, m, c)
           /\ OnceIn(pending, m) => OnceIn(pending', m)
  <2>1. CASE ~requeued
    BY <1>2, <1>4, <2>1
  <2>2. CASE requeued
    <3>1. pending' = Added(pending, e) /\ \A m : m \notin excused' => m \notin DroppedBy(pending) /\ m # n
      BY <1>2, <1>3, <2>2
    <3> QED BY <1>3, <1>4, <3>1, AddedIs
  <2> QED BY <2>1, <2>2
<1>6. /\ received' \in [Notes -> [Chats -> Nat]]
      /\ \A m \in Notes : m # n => received'[m] = received[m]
  BY <1>2, SentIs
<1>7. due \in [Notes -> SUBSET Chats] /\ line' \in Seq(Notes)
  BY <1>2, LineIs DEF NoticesInv, NoticeTypes
<1>8. NoticeTypes'
  BY <1>2, <1>5, <1>6, <1>7 DEF NoticesInv, NoticeTypes
<1>9. ASSUME NEW m \in Notes \ excused' PROVE Tracked(m)'
  <2>1. Tracked(m) /\ m \notin excused' /\ m # n
    BY <1>2 DEF NoticesInv
  <2>2. due'[m] = due[m] /\ received'[m] = received[m]
    BY <1>2, <1>6, <1>7, <2>1
  <2>3. Lined(m)'
    BY <1>2, <2>1, <2>2, LineShortens DEF Tracked
  <2> QED BY <1>2, <1>5, <2>1, <2>2, <2>3, NoteStays, Zenon
<1> QED BY <1>8, <1>9 DEF NoticesInv

LEMMA RunsAre ==
  ASSUME NoticesInv
  PROVE  /\ pending \in Seq(ANote) /\ Len(pending) <= MaxPending /\ Len(pending) \in Nat
         /\ run \in [Offices -> ARun]
         /\ \A o \in Offices : /\ run[o].left \in Seq(ANote) /\ run[o].failed \in Seq(ANote)
                               /\ Len(run[o].left) + Len(run[o].failed) <= MaxPending
                               /\ \A n : ~run[o].on => ~InRun(o, n)
<1>1. /\ pending \in Seq(ANote) /\ Len(pending) <= MaxPending /\ run \in [Offices -> ARun]
      /\ \A o \in Offices : /\ Len(run[o].left) + Len(run[o].failed) <= MaxPending
                            /\ run[o].on \/ (run[o].left = <<>> /\ run[o].failed = <<>>)
  BY DEF NoticesInv, NoticeTypes
<1>2. \A o \in Offices : run[o].left \in Seq(ANote) /\ run[o].failed \in Seq(ANote)
  BY <1>1 DEF ARun
<1>3. \A o \in Offices : \A n : ~run[o].on => ~InRun(o, n)
  <2> SUFFICES ASSUME NEW o \in Offices, NEW n, ~run[o].on PROVE ~InRun(o, n)
    OBVIOUS
  <2>1. run[o].left = <<>> /\ run[o].failed = <<>>
    BY <1>1
  <2> QED BY <2>1, NoItems DEF InRun
<1>4. Len(pending) \in Nat
  BY <1>1
<1> QED BY <1>1, <1>2, <1>3, <1>4, Zenon

LEMMA WorkerDiesKeeps ==
  ASSUME NoticesInv, WorkerDies
  PROVE  NoticesInv'
<1>1. line' = <<>> /\ UNCHANGED <<pending, run, due, received>> /\ excused \subseteq excused'
  BY DEF WorkerDies
<1>2. NoticeTypes'
  <2>1. line' \in Seq(Notes)
    BY <1>1
  <2> QED BY <1>1, <2>1 DEF NoticesInv, NoticeTypes
<1>3. ASSUME NEW m \in Notes \ excused' PROVE Tracked(m)'
  <2>1. Tracked(m)
    BY <1>1 DEF NoticesInv
  <2>2. Lined(m)'
    BY <1>1, <2>1 DEF Lined
  <2> QED BY <1>1, <2>1, <2>2, NoteStays, Zenon
<1> QED BY <1>2, <1>3 DEF NoticesInv

\* What is no longer in the list but excused was in it, or at any office, before.
LEMMA ClearedKeeps ==
  ASSUME NoticesInv, pending' = <<>> \/ UNCHANGED pending, excused' = excused \cup NotesIn(pending),
         UNCHANGED <<line, due, received>>, NoticeTypes',
         \A o \in Offices : \/ run'[o] = run[o]
                            \/ run'[o].left = <<>> /\ run'[o].failed = <<>> /\ ~run'[o].on
  PROVE  NoticesInv'
<1>1. ASSUME NEW m \in Notes \ excused' PROVE Tracked(m)'
  <2>1. Tracked(m) /\ m \notin NotesIn(pending)
    BY DEF NoticesInv
  <2>2. m \notin NotesIn(pending')
    BY <2>1, NoItems
  <2>3. \A o \in Offices : ~InRun(o, m) /\ ~InRun(o, m)'
    <3>1. \A o \in Offices : ~InRun(o, m)
      BY <2>1 DEF Tracked, Alone
    <3> QED BY <3>1, NoItems DEF InRun
  <2>4. Lined(m)' /\ Unsent(m)' /\ Alone(m)'
    BY <2>1, <2>2, <2>3 DEF Tracked, Lined, Unsent, Alone, Undecided
  <2>5. Listed(m)'
    <3>1. OnceIn(pending', m)
      BY <2>2, InNotes DEF OnceIn
    <3>2. \A o \in Offices : m \notin NotesIn(run'[o].left) /\ m \notin NotesIn(run'[o].failed)
      BY <2>3 DEF InRun
    <3>3. \A o \in Offices : OnceIn(run'[o].left, m) /\ OnceIn(run'[o].failed, m)
      BY <3>2, InNotes DEF OnceIn
    <3> QED BY <3>1, <3>2, <3>3 DEF Listed
  <2>6. ASSUME NEW c \in due[m] PROVE Awaited(m, c)'
    <3>1. ~Waits(pending, m, c) /\ ~Waits(pending', m, c)
      BY <2>1, <2>2, WaitsIn
    <3>2. \A o \in Offices : ~ToBeSent(o, m, c) /\ ~ToBeSent(o, m, c)'
      BY <2>3, WaitsIn DEF InRun, ToBeSent
    <3> QED BY <2>1, <3>1, <3>2 DEF Tracked, Awaited
  <2> QED BY <2>4, <2>5, <2>6 DEF Tracked
<1> QED BY <1>1 DEF NoticesInv

LEMMA ClearPendingKeeps ==
  ASSUME NoticesInv, ClearPending
  PROVE  NoticesInv'
<1>1. NoticeTypes'
  <2>1. <<>> \in Seq(ANote) /\ Len(<<>>) = 0
    OBVIOUS
  <2>2. pending' \in Seq(ANote) /\ Len(pending') <= MaxPending
    BY <2>1, GivenNotices DEF ClearPending
  <2> QED BY <2>2 DEF ClearPending, NoticesInv, NoticeTypes
<1> QED BY <1>1, ClearedKeeps DEF ClearPending

LEMMA AtRestTyped ==
  ASSUME NEW o, run' = [run EXCEPT ![o] = NoRun], NoticesInv
  PROVE  /\ run' \in [Offices -> ARun]
         /\ \A q \in Offices : /\ Len(run'[q].left) + Len(run'[q].failed) <= MaxPending
                               /\ run'[q].on \/ (run'[q].left = <<>> /\ run'[q].failed = <<>>)
         /\ o \in Offices => run'[o].left = <<>> /\ run'[o].failed = <<>> /\ ~run'[o].on
         /\ \A q \in Offices : q # o => run'[q] = run[q]
<1>1. <<>> \in Seq(ANote) /\ Len(<<>>) = 0 /\ 0 + 0 <= MaxPending
  BY GivenNotices
<1>2. NoRun \in ARun /\ NoRun.left = <<>> /\ NoRun.failed = <<>> /\ ~NoRun.on
  BY <1>1 DEF NoRun, ARun
<1>3. /\ run \in [Offices -> ARun]
      /\ \A q \in Offices : /\ Len(run[q].left) + Len(run[q].failed) <= MaxPending
                            /\ run[q].on \/ (run[q].left = <<>> /\ run[q].failed = <<>>)
  BY DEF NoticesInv, NoticeTypes
<1>4. run' \in [Offices -> ARun] /\ (o \in Offices => run'[o] = NoRun) /\ \A q \in Offices : q # o => run'[q] = run[q]
  BY <1>2, <1>3
<1>5. ASSUME NEW q \in Offices
      PROVE  /\ Len(run'[q].left) + Len(run'[q].failed) <= MaxPending
             /\ run'[q].on \/ (run'[q].left = <<>> /\ run'[q].failed = <<>>)
  <2>1. CASE q = o
    <3>1. run'[q].left = <<>> /\ run'[q].failed = <<>>
      BY <1>2, <1>4, <2>1
    <3> QED BY <1>1, <3>1
  <2>2. CASE q # o
    BY <1>3, <1>4, <2>2
  <2> QED BY <2>1, <2>2
<1> QED BY <1>2, <1>4, <1>5

LEMMA RunDiesKeeps ==
  ASSUME NoticesInv, NEW o \in Offices, RunDies(o)
  PROVE  NoticesInv'
<1>1. /\ run' = [run EXCEPT ![o] = NoRun] /\ excused' = excused \cup NotesIn(pending)
      /\ UNCHANGED <<line, pending, due, received>>
  BY DEF RunDies
<1>2. /\ run' \in [Offices -> ARun]
      /\ \A q \in Offices : /\ Len(run'[q].left) + Len(run'[q].failed) <= MaxPending
                            /\ run'[q].on \/ (run'[q].left = <<>> /\ run'[q].failed = <<>>)
      /\ run'[o].left = <<>> /\ run'[o].failed = <<>> /\ ~run'[o].on
      /\ \A q \in Offices : q # o => run'[q] = run[q]
  BY <1>1, AtRestTyped
<1>3. NoticeTypes'
  BY <1>1, <1>2 DEF NoticesInv, NoticeTypes
<1> QED BY <1>1, <1>2, <1>3, ClearedKeeps

LEMMA StartRunKeeps ==
  ASSUME NoticesInv, NEW o \in Offices, StartRun(o)
  PROVE  NoticesInv'
<1>1. PICK r \in ARun : r = [on |-> TRUE, left |-> pending, failed |-> <<>>] /\ r.on /\ r.left = pending /\ r.failed = <<>>
  <2>1. PICK q : q = [on |-> TRUE, left |-> pending, failed |-> <<>>]
    OBVIOUS
  <2>2. pending \in Seq(ANote) /\ <<>> \in Seq(ANote)
    BY RunsAre
  <2>3. q \in ARun
    BY <2>1, <2>2 DEF ARun
  <2>4. q.on /\ q.left = pending /\ q.failed = <<>>
    BY <2>1
  <2> QED BY <2>1, <2>3, <2>4
<1>2. /\ run' = [run EXCEPT ![o] = r] /\ ~run[o].on /\ UNCHANGED <<line, pending, due, received>>
      /\ excused' = excused \cup IF \E q \in Offices : run[q].on THEN NotesIn(pending) ELSE {}
  BY <1>1 DEF StartRun
<1>3. run \in [Offices -> ARun]
  BY RunsAre
<1>4. run'[o] = r /\ run' \in [Offices -> ARun] /\ \A q \in Offices : q # o => run'[q] = run[q]
  BY <1>2, <1>3
<1>5. NoticeTypes'
  <2>1. Len(run'[o].left) + Len(run'[o].failed) <= MaxPending
    <3>1. Len(pending) <= MaxPending /\ Len(pending) \in Nat /\ Len(<<>>) = 0
      BY RunsAre
    <3> QED BY <1>1, <1>4, <3>1, GivenNotices
  <2>2. \A q \in Offices : /\ Len(run'[q].left) + Len(run'[q].failed) <= MaxPending
                           /\ run'[q].on \/ (run'[q].left = <<>> /\ run'[q].failed = <<>>)
    BY <1>1, <1>4, <2>1 DEF NoticesInv, NoticeTypes
  <2> QED BY <1>2, <1>4, <2>2 DEF NoticesInv, NoticeTypes
<1>6. ASSUME NEW m \in Notes \ excused' PROVE Tracked(m)'
  <2>1. Tracked(m)
    BY <1>2 DEF NoticesInv
  <2>2. ~InRun(o, m)
    BY <1>2, RunsAre
  <2>3. CASE m \notin NotesIn(pending)
    <3>1. \A q \in Offices : ~InRun(q, m)
      BY <2>1, <2>3 DEF Tracked, Alone
    <3>2. \A q \in Offices : ~InRun(q, m)'
      BY <1>1, <1>4, <2>3, <3>1, NoItems DEF InRun
    <3>3. Lined(m)' /\ Unsent(m)' /\ Alone(m)'
      BY <1>2, <2>1, <3>2 DEF Tracked, Lined, Unsent, Alone, Undecided
    <3>4. Listed(m)'
      <4>1. \A q \in Offices : m \notin NotesIn(run'[q].left) /\ m \notin NotesIn(run'[q].failed)
        BY <3>2 DEF InRun
      <4>2. \A q \in Offices : OnceIn(run'[q].left, m) /\ OnceIn(run'[q].failed, m)
        BY <4>1, InNotes DEF OnceIn
      <4> QED BY <1>2, <2>1, <4>1, <4>2 DEF Listed, Tracked
    <3>5. ASSUME NEW c \in due[m] PROVE Awaited(m, c)'
      <4>1. ~Waits(pending, m, c) /\ \A q \in Offices : ~ToBeSent(q, m, c) /\ ~ToBeSent(q, m, c)'
        BY <2>3, <3>1, <3>2, WaitsIn DEF InRun, ToBeSent
      <4> QED BY <1>2, <2>1, <4>1 DEF Tracked, Awaited
    <3> QED BY <1>2, <3>3, <3>4, <3>5 DEF Tracked
  <2>4. CASE m \in NotesIn(pending)
    <3>1. \A q \in Offices : ~run[q].on /\ ~InRun(q, m)
      BY <1>2, <2>4, RunsAre
    <3>2. /\ \A q \in Offices : q # o => ~InRun(q, m)' /\ ~run'[q].on
          /\ run'[o].on /\ run'[o].left = pending /\ run'[o].failed = <<>>
      BY <1>1, <1>4, <3>1 DEF InRun
    <3>3. Lined(m)' /\ Unsent(m)' /\ Alone(m)'
      BY <1>2, <2>1, <2>4, <3>2 DEF Tracked, Lined, Unsent, Alone, Undecided
    <3>4. Listed(m)'
      <4>1. OnceIn(pending, m) /\ OnceIn(<<>>, m) /\ m \notin NotesIn(<<>>)
        BY <2>1, NoItems DEF Tracked, Listed
      <4>2. \A q \in Offices : q # o => run'[q] = run[q]
        BY <1>4
      <4> QED BY <1>2, <2>1, <3>2, <4>1, <4>2 DEF Tracked, Listed
    <3>5. ASSUME NEW c \in due[m] PROVE Awaited(m, c)'
      <4>1. \A q \in Offices : ~ToBeSent(q, m, c)
        BY <3>1, WaitsIn DEF InRun, ToBeSent
      <4>2. \A q \in Offices : ToBeSent(q, m, c)' <=> q = o /\ Waits(pending, m, c)
        BY <1>4, <3>2, <4>1, NoItems DEF ToBeSent
      <4>3. Awaited(m, c)
        BY <2>1 DEF Tracked
      <4>4. /\ received[m][c] <= 1 /\ (Waits(pending, m, c) => received[m][c] = 0)
            /\ received[m][c] = 0 => Waits(pending, m, c)
        BY <3>1, <4>1, <4>3 DEF Awaited
      <4> QED BY <1>2, <4>2, <4>4 DEF Awaited
    <3> QED BY <1>2, <3>3, <3>4, <3>5 DEF Tracked
  <2> QED BY <2>3, <2>4
<1> QED BY <1>5, <1>6 DEF NoticesInv

\* An office sends the first note it has left: it is then where it was, or nowhere.
Sends(o, n, chats, failed, late, r) ==
  /\ failed \subseteq chats /\ Sent(n, chats, failed, late) /\ run' = [run EXCEPT ![o] = r]
  /\ r.on = run[o].on /\ Len(r.left) + Len(r.failed) <= MaxPending
  /\ n \in NotesIn(run[o].left)
  /\ excused' = excused \cup (IF late = {} THEN {} ELSE {n})
  /\ \A m : /\ m \in NotesIn(run[o].left) <=> m \in NotesIn(r.left) \/ m = n
            /\ m \in NotesIn(r.failed) <=> m \in NotesIn(run[o].failed) \/ (m = n /\ failed # {})
            /\ OnceIn(run[o].left, m) => OnceIn(r.left, m) /\ (m = n => m \notin NotesIn(r.left))
            /\ OnceIn(run[o].failed, m) /\ (m = n => m \notin NotesIn(run[o].failed)) => OnceIn(r.failed, m)
            /\ \A c : /\ Waits(run[o].left, m, c) <=> Waits(r.left, m, c) \/ (m = n /\ c \in chats)
                      /\ Waits(r.failed, m, c) <=> Waits(run[o].failed, m, c) \/ (m = n /\ c \in failed)

LEMMA RunSendsIs ==
  ASSUME NoticesInv, NEW o \in Offices, run[o].left # <<>>,
         NEW x \in Outcomes(Head(run[o].left).chats), RunSends(o, x[1], x[2])
  PROVE  \E n \in Notes : \E chats, failed, late \in SUBSET Chats : \E r \in ARun :
           Sends(o, n, chats, failed, late, r)
<1>1. PICK e \in ANote, less \in Seq(ANote) :
        /\ e = Head(run[o].left) /\ less = Tail(run[o].left) /\ Len(less) = Len(run[o].left) - 1
        /\ \A n : n \in NotesIn(run[o].left) <=> n \in NotesIn(less) \/ n = e.note
        /\ \A n, c : Waits(run[o].left, n, c) <=> Waits(less, n, c) \/ (n = e.note /\ c \in e.chats)
        /\ \A n : OnceIn(run[o].left, n) => OnceIn(less, n) /\ (n = e.note => n \notin NotesIn(less))
  <2>1. run[o].left \in Seq(ANote)
    BY RunsAre
  <2> QED BY <2>1, OneItemLess
<1>2. PICK n \in Notes, chats \in SUBSET Chats : n = e.note /\ chats = e.chats
  BY DEF ANote
<1>3. PICK failed \in SUBSET Chats, late \in SUBSET Chats :
        failed = x[1] /\ late = x[2] /\ failed \subseteq chats
  BY <1>1, <1>2 DEF Outcomes
<1>4. /\ Sent(n, chats, failed, late)
      /\ run' = [run EXCEPT ![o].left = less,
          ![o].failed = IF failed = {} THEN @ ELSE Append(@, Item(n, failed))]
      /\ excused' = excused \cup (IF late = {} THEN {} ELSE {n})
  BY <1>1, <1>2, <1>3 DEF RunSends, Still
<1>5. PICK kept \in Seq(ANote) :
        /\ kept = IF failed = {} THEN run[o].failed ELSE Append(run[o].failed, Item(n, failed))
        /\ Len(kept) <= Len(run[o].failed) + 1
        /\ \A m : /\ m \in NotesIn(kept) <=> m \in NotesIn(run[o].failed) \/ (m = n /\ failed # {})
                  /\ OnceIn(run[o].failed, m) /\ (m = n => m \notin NotesIn(run[o].failed)) => OnceIn(kept, m)
                  /\ \A c : Waits(kept, m, c) <=> Waits(run[o].failed, m, c) \/ (m = n /\ c \in failed)
  <2>1. run[o].failed \in Seq(ANote) /\ Len(run[o].failed) \in Nat
    <3>1. run[o].failed \in Seq(ANote)
      BY RunsAre
    <3> QED BY <3>1
  <2>2. CASE failed = {}
    BY <2>1, <2>2
  <2>3. CASE failed # {}
    <3>1. PICK f : f = [note |-> n, chats |-> failed]
      OBVIOUS
    <3>2. f \in ANote /\ f.note = n /\ f.chats = failed
      BY <3>1 DEF ANote
    <3>3. f = Item(n, failed)
      BY <3>1 DEF Item
    <3>4. PICK more : more = Append(run[o].failed, f)
      OBVIOUS
    <3>5. /\ more \in Seq(ANote) /\ Len(more) = Len(run[o].failed) + 1
          /\ \A m : m \in NotesIn(more) <=> m \in NotesIn(run[o].failed) \/ m = n
          /\ \A m, c : Waits(more, m, c) <=> Waits(run[o].failed, m, c) \/ (m = n /\ c \in failed)
          /\ \A m : OnceIn(run[o].failed, m) /\ (m = n => m \notin NotesIn(run[o].failed)) => OnceIn(more, m)
      BY <2>1, <3>2, <3>4, OneMoreItem
    <3>6. Len(more) <= Len(run[o].failed) + 1
      BY <2>1, <3>5
    <3> QED BY <2>3, <3>3, <3>4, <3>5, <3>6
  <2> QED BY <2>2, <2>3
<1>6. PICK r : r = [on |-> run[o].on, left |-> less, failed |-> kept]
  OBVIOUS
<1>7. run[o] \in ARun /\ run \in [Offices -> ARun]
  BY RunsAre
<1>8. r \in ARun /\ r.on = run[o].on /\ r.left = less /\ r.failed = kept
  BY <1>6, <1>7 DEF ARun
<1>9. run' = [run EXCEPT ![o] = r]
  <2>1. run' = [run EXCEPT ![o] = [[run[o] EXCEPT !.left = less] EXCEPT !.failed = kept]]
    BY <1>4, <1>5, <1>7 DEF ARun
  <2>2. [[run[o] EXCEPT !.left = less] EXCEPT !.failed = kept] = r
    <3>1. PICK a, b, d : run[o] = [on |-> a, left |-> b, failed |-> d]
      BY <1>7 DEF ARun
    <3>2. a = run[o].on
      BY <3>1
    <3>3. [run[o] EXCEPT !.left = less] = [on |-> a, left |-> less, failed |-> d]
      BY <3>1
    <3>4. [[on |-> a, left |-> less, failed |-> d] EXCEPT !.failed = kept] = [on |-> a, left |-> less, failed |-> kept]
      OBVIOUS
    <3> QED BY <1>6, <3>2, <3>3, <3>4
  <2> QED BY <2>1, <2>2
<1>10. Len(r.left) + Len(r.failed) <= MaxPending
  <2>1. PICK a, b \in Nat : a = Len(run[o].left) /\ b = Len(run[o].failed)
    <3>1. run[o].left \in Seq(ANote) /\ run[o].failed \in Seq(ANote)
      BY RunsAre
    <3> QED BY <3>1
  <2>2. a + b <= MaxPending
    BY <2>1, RunsAre
  <2>3. Len(r.left) = a - 1 /\ Len(r.failed) <= b + 1 /\ Len(r.failed) \in Nat
    BY <1>1, <1>5, <1>8, <2>1
  <2> QED BY <2>2, <2>3, GivenNotices
<1>11. n \in NotesIn(run[o].left)
  BY <1>1, <1>2
<1>12. /\ \A m : /\ m \in NotesIn(run[o].left) <=> m \in NotesIn(r.left) \/ m = n
                 /\ m \in NotesIn(r.failed) <=> m \in NotesIn(run[o].failed) \/ (m = n /\ failed # {})
                 /\ OnceIn(run[o].left, m) => OnceIn(r.left, m) /\ (m = n => m \notin NotesIn(r.left))
                 /\ OnceIn(run[o].failed, m) /\ (m = n => m \notin NotesIn(run[o].failed)) => OnceIn(r.failed, m)
                 /\ \A c : /\ Waits(run[o].left, m, c) <=> Waits(r.left, m, c) \/ (m = n /\ c \in chats)
                           /\ Waits(r.failed, m, c) <=> Waits(run[o].failed, m, c) \/ (m = n /\ c \in failed)
  BY <1>1, <1>2, <1>5, <1>8
<1>13. Sends(o, n, chats, failed, late, r)
  BY <1>3, <1>4, <1>8, <1>9, <1>10, <1>11, <1>12, Zenon DEF Sends
<1> QED BY <1>8, <1>13

LEMMA RunSendsKeeps ==
  ASSUME NoticesInv, NEW o \in Offices, run[o].left # <<>>,
         NEW x \in Outcomes(Head(run[o].left).chats), RunSends(o, x[1], x[2])
  PROVE  NoticesInv'
<1>0. PICK n \in Notes, chats \in SUBSET Chats, failed \in SUBSET Chats, late \in SUBSET Chats, r \in ARun :
        Sends(o, n, chats, failed, late, r)
  BY RunSendsIs
<1>1. /\ failed \subseteq chats /\ Sent(n, chats, failed, late) /\ run' = [run EXCEPT ![o] = r]
      /\ r.on = run[o].on /\ Len(r.left) + Len(r.failed) <= MaxPending
      /\ n \in NotesIn(run[o].left)
      /\ excused' = excused \cup (IF late = {} THEN {} ELSE {n})
      /\ \A m : /\ m \in NotesIn(run[o].left) <=> m \in NotesIn(r.left) \/ m = n
                /\ m \in NotesIn(r.failed) <=> m \in NotesIn(run[o].failed) \/ (m = n /\ failed # {})
                /\ OnceIn(run[o].left, m) => OnceIn(r.left, m) /\ (m = n => m \notin NotesIn(r.left))
                /\ OnceIn(run[o].failed, m) /\ (m = n => m \notin NotesIn(run[o].failed)) => OnceIn(r.failed, m)
                /\ \A c : /\ Waits(run[o].left, m, c) <=> Waits(r.left, m, c) \/ (m = n /\ c \in chats)
                          /\ Waits(r.failed, m, c) <=> Waits(run[o].failed, m, c) \/ (m = n /\ c \in failed)
  BY <1>0 DEF Sends
<1>2. UNCHANGED <<line, pending, due>>
  BY DEF RunSends
<1>3. /\ received' \in [Notes -> [Chats -> Nat]]
      /\ \A m \in Notes : m # n => received'[m] = received[m]
      /\ \A c \in Chats : received'[n][c] = IF c \in (chats \ failed) \cup late THEN received[n][c] + 1 ELSE received[n][c]
      /\ \A c \in Chats : received[n][c] \in Nat
  BY <1>1, SentIs
<1>4. run'[o] = r /\ run' \in [Offices -> ARun] /\ \A q \in Offices : q # o => run'[q] = run[q]
  <2>1. run \in [Offices -> ARun]
    BY RunsAre
  <2> QED BY <1>1, <2>1
<1>5. InRun(o, n) /\ run[o].on
  <2>1. InRun(o, n)
    BY <1>1 DEF InRun
  <2> QED BY <2>1, RunsAre
<1>6. NoticeTypes'
  <2>1. \A q \in Offices : /\ Len(run'[q].left) + Len(run'[q].failed) <= MaxPending
                           /\ run'[q].on \/ (run'[q].left = <<>> /\ run'[q].failed = <<>>)
    BY <1>1, <1>4, <1>5 DEF NoticesInv, NoticeTypes
  <2> QED BY <1>2, <1>3, <1>4, <2>1 DEF NoticesInv, NoticeTypes
<1>7. \A q \in Offices : run'[q].on = run[q].on
  BY <1>1, <1>4
<1>8. ASSUME NEW m \in Notes \ excused' PROVE Tracked(m)'
  <2>1. Tracked(m) /\ m \notin excused'
    BY <1>1 DEF NoticesInv
  <2>2. Lined(m)'
    BY <1>2, <2>1 DEF Tracked, Lined, Undecided
  <2>3. \A q \in Offices : InRun(q, m)' => InRun(q, m)
    BY <1>1, <1>4 DEF InRun
  <2>4. Alone(m)'
    BY <1>2, <1>7, <2>1, <2>3 DEF Tracked, Alone
  <2>5. CASE m # n
    <3>1. \A q \in Offices : (InRun(q, m)' <=> InRun(q, m)) /\ \A c : ToBeSent(q, m, c)' <=> ToBeSent(q, m, c)
      BY <1>1, <1>4, <2>5 DEF InRun, ToBeSent
    <3>2. Unsent(m)'
      BY <1>2, <1>3, <2>1, <2>5 DEF Tracked, Unsent, Undecided
    <3>3. Listed(m)'
      <4>1. ASSUME NEW q \in Offices
            PROVE  /\ OnceIn(run'[q].left, m) /\ OnceIn(run'[q].failed, m)
                   /\ m \notin NotesIn(run'[q].left) \cap NotesIn(run'[q].failed)
        BY <1>1, <1>4, <2>1, <2>5 DEF Tracked, Listed
      <4> QED BY <1>2, <2>1, <4>1 DEF Tracked, Listed
    <3>4. ASSUME NEW c \in due[m] PROVE Awaited(m, c)'
      <4>1. received'[m][c] = received[m][c] /\ Awaited(m, c)
        BY <1>3, <2>1, <2>5 DEF Tracked
      <4> QED BY <1>2, <1>7, <3>1, <4>1 DEF Awaited
    <3> QED BY <1>2, <2>2, <2>4, <3>2, <3>3, <3>4 DEF Tracked
  <2>6. CASE m = n
    <3>1. late = {} /\ n \in NotesIn(pending) /\ \A q \in Offices : q # o => ~InRun(q, n)
      BY <1>1, <1>5, <2>1, <2>6 DEF Tracked, Alone
    <3>2. due[n] # Undecided
      BY <2>1, <2>6, <3>1 DEF Tracked, Unsent
    <3>3. Unsent(m)'
      BY <1>2, <2>6, <3>2 DEF Unsent, Undecided
    <3>4. OnceIn(run[o].left, n) /\ OnceIn(run[o].failed, n) /\ n \notin NotesIn(run[o].failed) /\ OnceIn(pending, n)
      BY <1>1, <2>1, <2>6 DEF Tracked, Listed
    <3>5. n \notin NotesIn(r.left)
      BY <1>1, <3>4
    <3>6. Listed(m)'
      <4>1. ASSUME NEW q \in Offices
            PROVE  /\ OnceIn(run'[q].left, n) /\ OnceIn(run'[q].failed, n)
                   /\ n \notin NotesIn(run'[q].left) \cap NotesIn(run'[q].failed)
        <5>1. CASE q = o
          BY <1>1, <1>4, <3>4, <3>5, <5>1
        <5>2. CASE q # o
          BY <1>4, <2>1, <2>6, <5>2 DEF Tracked, Listed
        <5> QED BY <5>1, <5>2
      <4> QED BY <1>2, <2>6, <3>4, <4>1 DEF Listed
    <3>7. ASSUME NEW c \in due[n] PROVE Awaited(n, c)'
      <4>1. c \in Chats /\ Awaited(n, c) /\ received[n][c] \in Nat
        BY <1>3, <2>1, <2>6 DEF Tracked, NoticesInv, NoticeTypes
      <4>2. received'[n][c] = IF c \in chats \ failed THEN received[n][c] + 1 ELSE received[n][c]
        BY <1>3, <3>1, <4>1
      <4>3. \A q \in Offices : q # o => ~ToBeSent(q, n, c) /\ ~ToBeSent(q, n, c)'
        BY <1>4, <3>1, WaitsIn DEF InRun, ToBeSent
      <4>4. (ToBeSent(o, n, c) <=> c \in chats) /\ (ToBeSent(o, n, c)' <=> c \in failed)
        BY <1>1, <1>4, <3>4, <3>5, WaitsIn DEF ToBeSent
      <4>5. received[n][c] <= 1 /\ (c \in chats => received[n][c] = 0) /\ (received[n][c] = 0 => c \in chats)
        <5>1. received[n][c] <= 1 /\ (ToBeSent(o, n, c) => received[n][c] = 0)
          BY <4>1 DEF Awaited
        <5>2. received[n][c] = 0 => \E q \in Offices : ToBeSent(q, n, c)
          BY <1>5, <4>1 DEF Awaited
        <5> QED BY <4>3, <4>4, <5>1, <5>2
      <4>6. received'[n][c] <= 1 /\ (c \in failed <=> received'[n][c] = 0)
        BY <1>1, <4>1, <4>2, <4>5
      <4>7. run'[o].on
        BY <1>5, <1>7
      <4> QED BY <4>3, <4>4, <4>6, <4>7 DEF Awaited
    <3> QED BY <1>2, <2>2, <2>4, <2>6, <3>3, <3>6, <3>7 DEF Tracked
  <2> QED BY <2>5, <2>6
<1> QED BY <1>6, <1>8 DEF NoticesInv

LEMMA EndRunKeeps ==
  ASSUME NoticesInv, NEW o \in Offices, EndRun(o)
  PROVE  NoticesInv'
<1>1. /\ run[o].on /\ run[o].left = <<>> /\ pending' = run[o].failed
      /\ excused' = excused \cup {n \in NotesIn(pending) :
           \E c \in Chats : Waits(pending, n, c) /\ ~Waits(run[o].failed, n, c) /\ received[n][c] = 0}
      /\ run' = [run EXCEPT ![o] = NoRun]
      /\ UNCHANGED <<line, due, received>>
  BY DEF EndRun
<1>2. /\ run' \in [Offices -> ARun]
      /\ \A q \in Offices : /\ Len(run'[q].left) + Len(run'[q].failed) <= MaxPending
                            /\ run'[q].on \/ (run'[q].left = <<>> /\ run'[q].failed = <<>>)
      /\ run'[o].left = <<>> /\ run'[o].failed = <<>> /\ ~run'[o].on
      /\ \A q \in Offices : q # o => run'[q] = run[q]
  BY <1>1, AtRestTyped
<1>3. NoticeTypes'
  <2>1. pending' \in Seq(ANote) /\ Len(pending') <= MaxPending
    <3>1. run[o].failed \in Seq(ANote) /\ Len(run[o].left) + Len(run[o].failed) <= MaxPending /\ Len(run[o].left) = 0
      BY <1>1, RunsAre
    <3> QED BY <1>1, <3>1
  <2> QED BY <1>1, <1>2, <2>1 DEF NoticesInv, NoticeTypes
<1>4. ASSUME NEW m \in Notes \ excused' PROVE Tracked(m)'
  <2>1. Tracked(m) /\ m \notin excused'
    BY <1>1 DEF NoticesInv
  <2>2. Lined(m)'
    BY <1>1, <2>1 DEF Tracked, Lined, Undecided
  <2>3. \A q \in Offices : q # o => ~InRun(q, m)
    BY <1>1, <2>1 DEF Tracked, Alone
  <2>4. \A q \in Offices : ~InRun(q, m)'
    BY <1>2, <2>3, NoItems DEF InRun
  <2>5. InRun(o, m) <=> m \in NotesIn(pending')
    BY <1>1, NoItems DEF InRun
  <2>6. Unsent(m)' /\ Alone(m)'
    <3>1. due[m] = Undecided => ~InRun(o, m)
      BY <2>1 DEF Tracked, Unsent, Alone
    <3> QED BY <1>1, <2>1, <2>4, <2>5, <3>1 DEF Tracked, Unsent, Alone, Undecided
  <2>7. Listed(m)'
    <3>1. \A q \in Offices : m \notin NotesIn(run'[q].left) /\ m \notin NotesIn(run'[q].failed)
      BY <2>4 DEF InRun
    <3>2. \A q \in Offices : OnceIn(run'[q].left, m) /\ OnceIn(run'[q].failed, m)
      BY <3>1, InNotes DEF OnceIn
    <3>3. OnceIn(pending', m)
      BY <1>1, <2>1 DEF Tracked, Listed
    <3> QED BY <3>1, <3>2, <3>3 DEF Listed
  <2>8. ASSUME NEW c \in due[m] PROVE Awaited(m, c)'
    <3>1. Awaited(m, c) /\ c \in Chats
      BY <2>1 DEF Tracked, NoticesInv, NoticeTypes
    <3>2. \A q \in Offices : q # o => ~ToBeSent(q, m, c)
      BY <2>3, WaitsIn DEF InRun, ToBeSent
    <3>3. \A q \in Offices : ~ToBeSent(q, m, c)'
      BY <2>4, WaitsIn DEF InRun, ToBeSent
    <3>4. ToBeSent(o, m, c) <=> Waits(pending', m, c)
      BY <1>1, NoItems DEF ToBeSent
    <3>5. Waits(pending', m, c) => received[m][c] = 0
      BY <3>1, <3>4 DEF Awaited
    <3>6. received[m][c] = 0 => Waits(pending', m, c)
      <4> SUFFICES ASSUME received[m][c] = 0, ~Waits(pending', m, c) PROVE FALSE
        OBVIOUS
      <4>1. \A q \in Offices : ~ToBeSent(q, m, c)
        BY <3>2, <3>4
      <4>2. Waits(pending, m, c) /\ m \in NotesIn(pending)
        BY <3>1, <4>1, WaitsIn DEF Awaited
      <4> QED BY <1>1, <2>1, <3>1, <4>2
    <3> QED BY <1>1, <2>4, <3>1, <3>3, <3>5, <3>6 DEF Awaited
  <2> QED BY <1>1, <2>2, <2>6, <2>7, <2>8 DEF Tracked
<1> QED BY <1>3, <1>4 DEF NoticesInv

LEMMA NoticesKeep == NoticesInv /\ [NoticesNext]_noticeVars => NoticesInv'
<1> SUFFICES ASSUME NoticesInv, [NoticesNext]_noticeVars PROVE NoticesInv'
  OBVIOUS
<1>1. ASSUME UNCHANGED <<line, pending, run, due, received, excused>> PROVE NoticesInv'
  <2>1. NoticeTypes'
    BY <1>1 DEF NoticesInv, NoticeTypes
  <2>2. ASSUME NEW m \in Notes \ excused PROVE Tracked(m)'
    <3>1. Tracked(m) /\ Lined(m)'
      BY <1>1 DEF NoticesInv, Tracked, Lined, Undecided
    <3> QED BY <1>1, <3>1, NoteStays, Zenon
  <2> QED BY <1>1, <2>1, <2>2 DEF NoticesInv
<1>2. ASSUME NEW c \in Chats, NEW bucket, SetRouting(c, bucket) PROVE NoticesInv'
  BY <1>1, <1>2 DEF SetRouting
<1> QED BY <1>1, <1>2, NotifyKeeps, DispatchKeeps, DispatchFailsKeeps, WorkerDiesKeeps, ClearPendingKeeps,
      StartRunKeeps, EndRunKeeps, RunDiesKeeps, RunSendsKeeps DEF NoticesNext, noticeVars

LEMMA TheyArrive == NoticesInv => NoticesArrive
<1> SUFFICES ASSUME NoticesInv, NEW n \in Notes \ excused, NEW c \in due[n]
             PROVE  received[n][c] <= 1 /\ (received[n][c] = 0 => Held(n, c))
  BY DEF NoticesArrive
<1>1. Awaited(n, c)
  BY DEF NoticesInv, Tracked
<1>2. \A o \in Offices : ToBeSent(o, n, c) => run[o].on
  <2>1. \A o \in Offices : ToBeSent(o, n, c) => InRun(o, n)
    BY WaitsIn DEF ToBeSent, InRun
  <2> QED BY <2>1, RunsAre
<1> QED BY <1>1, <1>2 DEF Awaited, Held, ToBeSent
-----------------------------------------------------------------------------
(* Payroll                                                                 *)

SalaryRow == [is : {"live", "deleted"}, status : {"PENDING", "APPROVED", "PAID"},
              base : Int, bonus : Int, deduction : Int, net : Int]
ExpenseRow == [is : {"live", "deleted"}, status : {"PENDING", "APPROVED", "REJECTED", "PAID"},
               amount : Int, category : Categories \cup {NoCategory}]
ItemRow == [id : Nat, of : Salaries, kind : {"bonus", "deduction"}, amount : Int, is : {"live", "deleted"}]
CashRow == [type : {"DEPOSIT", "WITHDRAWAL", "SALARY_PAYMENT", "EXPENSE_PAYMENT"}, doc : Docs \cup {<<>>},
            amount : Int, method : PayMethods, before : Int, after : Int]
PayrollTypes ==
  /\ salary \in [Salaries -> {Absent} \cup SalaryRow]
  /\ expense \in [Expenses -> {Absent} \cup ExpenseRow]
  /\ IsFiniteSet(item) /\ item \subseteq ItemRow
  /\ till \in Int /\ ledger \in Seq(CashRow)

\* A copy is of a row that there is.
ReadsRow ==
  copy # NoCopy =>
    \E d \in Docs : \E r : /\ copy = <<d, r>> /\ DocRow(d).is # "none"
                           /\ d \in Salaries => r \in SalaryRow
                           /\ d \in Expenses => r \in ExpenseRow
IsPaid(d) == DocRow(d).is # "none" /\ DocRow(d).status = "PAID"
Booked(d) ==
  IF IsPaid(d) THEN \E i \in RowsFor(d) : RowsFor(d) = {i} /\ ledger[i].amount = Owed(d)
  ELSE RowsFor(d) = {}
AllBooked == \A d \in Docs \ spoiled : Booked(d)

MovedBy(e) ==
  CASE e.type = "DEPOSIT" -> e.amount
    [] e.type = "WITHDRAWAL" -> -e.amount
    [] OTHER -> IF e.method = "CASH" THEN -e.amount ELSE 0
Moves == [i \in DOMAIN ledger |-> MovedBy(ledger[i])]
OutOfHand(e) == e.type = "WITHDRAWAL" /\ e.method # "CASH"
TillTells ==
  /\ till = TillAtFirst + SumFunction(Moves)
  /\ till < 0 => \E i \in DOMAIN ledger : OutOfHand(ledger[i])
PayrollInv == PayrollTypes /\ ReadsRow /\ AllBooked /\ TillTells

LEMMA GivenPayroll ==
  /\ Wage \in [Employees -> Nat] /\ Amounts \subseteq Nat /\ Costs \subseteq Int /\ TillAtFirst \in Nat
  /\ Salaries \subseteq Employees \X Nat /\ Salaries \cap Expenses = {} /\ <<>> \notin Docs
BY PayrollAssumption DEF Salaries, Months, Docs

LEMMA PayrollSays == AllBooked /\ TillTells => PaidOnce
<1> SUFFICES ASSUME AllBooked, TillTells PROVE PaidOnce
  OBVIOUS
<1>1. \A d \in Docs \ spoiled : DocRow(d).is # "none" =>
        IF DocRow(d).status = "PAID" THEN \E i \in RowsFor(d) : RowsFor(d) = {i} /\ ledger[i].amount = Owed(d)
        ELSE RowsFor(d) = {}
  BY DEF AllBooked, Booked, IsPaid
<1>2. till = TillAtFirst + SumFunction([i \in DOMAIN ledger |->
        CASE ledger[i].type = "DEPOSIT" -> ledger[i].amount
          [] ledger[i].type = "WITHDRAWAL" -> -ledger[i].amount
          [] OTHER -> IF ledger[i].method = "CASH" THEN -ledger[i].amount ELSE 0])
  BY Zenon DEF TillTells, Moves, MovedBy
<1>3. till < 0 => \E i \in DOMAIN ledger : ledger[i].type = "WITHDRAWAL" /\ ledger[i].method # "CASH"
  BY DEF TillTells, OutOfHand
<1> QED BY <1>1, <1>2, <1>3, Zenon DEF PaidOnce

LEMMA NothingMoved == ledger = <<>> => SumFunction(Moves) = 0
<1> SUFFICES ASSUME ledger = <<>> PROVE SumFunction(Moves) = 0
  OBVIOUS
<1>1. DOMAIN Moves = {}
  BY DEF Moves
<1>2. SumFunctionOnSet(Moves, {}) = 0
  BY SumOfNone
<1> QED BY <1>1, <1>2 DEF SumFunction

\* Nothing has been paid yet.
PayrollIdle ==
  /\ salary = [s \in Salaries |-> Absent] /\ expense = [x \in Expenses |-> Absent]
  /\ item = {} /\ till = TillAtFirst /\ ledger = <<>>

LEMMA IdleIs == PayrollIdle => PayrollTypes /\ AllBooked /\ TillTells
<1> SUFFICES ASSUME PayrollIdle PROVE PayrollTypes /\ AllBooked /\ TillTells
  OBVIOUS
<1>1. PayrollTypes
  BY GivenPayroll, FS_EmptySet DEF PayrollIdle, PayrollTypes
<1>2. ASSUME NEW d \in Docs PROVE Booked(d)
  <2>1. DocRow(d) = Absent
    BY DEF PayrollIdle, DocRow, Docs
  <2> QED BY <2>1 DEF Booked, IsPaid, RowsFor, PayrollIdle, Absent
<1>3. TillTells
  BY NothingMoved, GivenPayroll DEF TillTells, PayrollIdle
<1> QED BY <1>1, <1>2, <1>3 DEF AllBooked

LEMMA PayrollBegins == PayrollInit => PayrollIdle /\ PayrollInv
BY IdleIs DEF PayrollInit, PayrollIdle, PayrollInv, ReadsRow, StaleInit

\* A step that books nothing.
LEMMA QuietKeeps ==
  ASSUME PayrollInv, UNCHANGED <<till, ledger>>,
         salary' \in [Salaries -> {Absent} \cup SalaryRow], expense' \in [Expenses -> {Absent} \cup ExpenseRow],
         IsFiniteSet(item'), item' \subseteq ItemRow, ReadsRow', spoiled \subseteq spoiled',
         \A d \in Docs \ spoiled' : \/ DocRow(d)' = DocRow(d)
                                    \/ ~IsPaid(d) /\ ~IsPaid(d)'
  PROVE  PayrollInv'
<1>1. PayrollTypes'
  BY DEF PayrollInv, PayrollTypes
<1>2. TillTells'
  BY DEF PayrollInv, TillTells, Moves
<1>3. ASSUME NEW d \in Docs \ spoiled' PROVE Booked(d)'
  <2>1. Booked(d) /\ RowsFor(d)' = RowsFor(d)
    BY DEF PayrollInv, AllBooked, RowsFor
  <2>2. CASE ~IsPaid(d) /\ ~IsPaid(d)'
    BY <2>1, <2>2 DEF Booked
  <2>3. CASE DocRow(d)' = DocRow(d)
    <3>1. Owed(d)' = Owed(d)
      BY <2>3 DEF Owed, DocRow
    <3>2. IsPaid(d)' = IsPaid(d)
      BY <2>3, Zenon DEF IsPaid
    <3> QED BY <2>1, <3>1, <3>2 DEF Booked
  <2> QED BY <1>3, <2>2, <2>3
<1> QED BY <1>1, <1>2, <1>3 DEF PayrollInv, AllBooked

\* A row of the ledger more.
LEMMA RowKeeps ==
  ASSUME PayrollInv, NEW e \in CashRow, ledger' = Append(ledger, e), till' \in Int, till' = till + MovedBy(e),
         till' < 0 => till' >= till \/ OutOfHand(e),
         salary' \in [Salaries -> {Absent} \cup SalaryRow], expense' \in [Expenses -> {Absent} \cup ExpenseRow],
         item' = item, ReadsRow', spoiled \subseteq spoiled',
         \A d \in Docs \ spoiled' : \/ DocRow(d)' = DocRow(d) /\ e.doc # d
                                    \/ ~IsPaid(d) /\ IsPaid(d)' /\ e.doc = d /\ e.amount = Owed(d)'
  PROVE  PayrollInv'
<1>1. PICK n \in Nat : n = Len(ledger)
  BY DEF PayrollInv, PayrollTypes
<1>2. /\ ledger \in Seq(CashRow) /\ DOMAIN ledger = 1 .. n /\ ledger' \in Seq(CashRow) /\ DOMAIN ledger' = 1 .. n + 1
      /\ \A i \in 1 .. n : ledger[i] \in CashRow /\ ledger'[i] = ledger[i]
      /\ ledger'[n + 1] = e
  <2>1. ledger \in Seq(CashRow)
    BY DEF PayrollInv, PayrollTypes
  <2>2. /\ Append(ledger, e) \in Seq(CashRow) /\ DOMAIN ledger = 1 .. Len(ledger)
        /\ DOMAIN Append(ledger, e) = 1 .. Len(ledger) + 1
        /\ \A i \in 1 .. Len(ledger) : ledger[i] \in CashRow /\ Append(ledger, e)[i] = ledger[i]
        /\ Append(ledger, e)[Len(ledger) + 1] = e
    BY <2>1, OneMore
  <2> QED BY <1>1, <2>1, <2>2
<1>3. PayrollTypes'
  BY <1>2 DEF PayrollInv, PayrollTypes
<1>4. till' = TillAtFirst + SumFunction(Moves')
  <2>1. \A f \in CashRow : MovedBy(f) \in Int
    BY DEF MovedBy, CashRow
  <2>2. PICK f, g : f = Moves /\ g = Moves'
    OBVIOUS
  <2>3. DOMAIN f = 1 .. n /\ \A i \in 1 .. n : f[i] = MovedBy(ledger[i])
    BY <1>2, <2>2 DEF Moves
  <2>4. DOMAIN g = 1 .. n + 1 /\ \A i \in 1 .. n + 1 : g[i] = MovedBy(ledger'[i])
    BY <1>2, <2>2 DEF Moves, MovedBy
  <2>5. \A i \in 1 .. n : f[i] \in Int /\ g[i] = f[i]
    BY <1>2, <2>1, <2>3, <2>4
  <2>6. g[n + 1] = MovedBy(e) /\ g[n + 1] \in Int
    BY <1>2, <2>1, <2>4
  <2>7. SumFunction(f) \in Int /\ SumFunction(g) = SumFunction(f) + g[n + 1]
    BY <2>3, <2>4, <2>5, <2>6, SumOfOneMore
  <2>8. till = TillAtFirst + SumFunction(f) /\ TillAtFirst \in Int
    BY <2>2, GivenPayroll DEF PayrollInv, TillTells
  <2>9. till' = TillAtFirst + SumFunction(g)
    BY <2>6, <2>7, <2>8
  <2> QED BY <2>2, <2>9
<1>5. till' < 0 => \E i \in DOMAIN ledger' : OutOfHand(ledger'[i])
  <2> SUFFICES ASSUME till' < 0 PROVE \E i \in DOMAIN ledger' : OutOfHand(ledger'[i])
    OBVIOUS
  <2>1. CASE OutOfHand(e)
    BY <1>2, <2>1
  <2>2. CASE till' >= till
    <3>1. till < 0
      BY <2>2 DEF PayrollInv, PayrollTypes
    <3>2. PICK i \in DOMAIN ledger : OutOfHand(ledger[i])
      BY <3>1 DEF PayrollInv, TillTells
    <3>3. i \in 1 .. n + 1 /\ ledger'[i] = ledger[i]
      BY <1>2, <3>2
    <3> QED BY <1>2, <3>2, <3>3
  <2> QED BY <2>1, <2>2
<1>6. TillTells'
  BY <1>4, <1>5 DEF TillTells, OutOfHand
<1>7. ASSUME NEW d \in Docs \ spoiled' PROVE Booked(d)'
  <2>0. Booked(d)
    BY DEF PayrollInv, AllBooked
  <2>1. RowsFor(d)' = RowsFor(d) \cup (IF e.doc = d THEN {n + 1} ELSE {})
    <3>1. RowsFor(d) = {i \in 1 .. n : ledger[i].doc = d} /\ RowsFor(d)' = {i \in 1 .. n + 1 : ledger'[i].doc = d}
      BY <1>2 DEF RowsFor
    <3> QED BY <1>2, <3>1
  <2>2. CASE DocRow(d)' = DocRow(d) /\ e.doc # d
    <3>1. Owed(d)' = Owed(d)
      BY <2>2 DEF Owed, DocRow
    <3>2. IsPaid(d)' = IsPaid(d)
      BY <2>2, Zenon DEF IsPaid
    <3>3. \A i \in RowsFor(d) : ledger'[i] = ledger[i]
      BY <1>2 DEF RowsFor
    <3> QED BY <2>0, <2>1, <2>2, <3>1, <3>2, <3>3 DEF Booked
  <2>3. CASE ~IsPaid(d) /\ IsPaid(d)' /\ e.doc = d /\ e.amount = Owed(d)'
    <3>1. RowsFor(d)' = {n + 1}
      BY <2>0, <2>1, <2>3 DEF Booked
    <3> QED BY <1>2, <2>3, <3>1 DEF Booked
  <2> QED BY <1>7, <2>2, <2>3
<1> QED BY <1>3, <1>6, <1>7 DEF PayrollInv, AllBooked

LEMMA ReadsStay ==
  ASSUME ReadsRow, copy' = copy \/ copy' = NoCopy, \A d \in Docs : DocRow(d).is # "none" => DocRow(d)'.is # "none"
  PROVE  ReadsRow'
<1> SUFFICES ASSUME copy' = copy, copy # NoCopy PROVE ReadsRow'
  BY DEF ReadsRow
<1>1. PICK d \in Docs : \E r : /\ copy = <<d, r>> /\ DocRow(d).is # "none"
                               /\ d \in Salaries => r \in SalaryRow
                               /\ d \in Expenses => r \in ExpenseRow
  BY DEF ReadsRow
<1>2. PICK r : /\ copy = <<d, r>> /\ DocRow(d).is # "none"
               /\ d \in Salaries => r \in SalaryRow
               /\ d \in Expenses => r \in ExpenseRow
  BY <1>1
<1>3. DocRow(d)'.is # "none"
  BY <1>2
<1> QED BY <1>2, <1>3 DEF ReadsRow

\* What a handler works from.
LEMMA RowUsed ==
  ASSUME PayrollInv, NEW d \in Docs, NEW read \in Seen(d, DocRow(d)), read.is = "live"
  PROVE  /\ d \in Salaries => read \in SalaryRow /\ salary[d] \in SalaryRow
         /\ d \in Expenses => read \in ExpenseRow /\ expense[d] \in ExpenseRow
<1>1. /\ d \in Salaries => DocRow(d) = salary[d] /\ salary[d] \in {Absent} \cup SalaryRow
      /\ d \in Expenses => DocRow(d) = expense[d] /\ expense[d] \in {Absent} \cup ExpenseRow
  BY GivenPayroll DEF PayrollInv, PayrollTypes, DocRow
<1>2. CASE read = DocRow(d)
  BY <1>1, <1>2 DEF Absent
<1>3. CASE copy # NoCopy /\ copy[1] = d /\ read = copy[2]
  <2>1. PICK e \in Docs : \E r : /\ copy = <<e, r>> /\ DocRow(e).is # "none"
                                 /\ e \in Salaries => r \in SalaryRow
                                 /\ e \in Expenses => r \in ExpenseRow
    BY <1>3 DEF PayrollInv, ReadsRow
  <2>2. PICK r : /\ copy = <<e, r>> /\ DocRow(e).is # "none"
                 /\ e \in Salaries => r \in SalaryRow
                 /\ e \in Expenses => r \in ExpenseRow
    BY <2>1
  <2>3. e = d /\ r = read
    BY <1>3, <2>2
  <2> QED BY <1>1, <2>2, <2>3 DEF Absent
<1> QED BY <1>2, <1>3 DEF Seen

\* One document gets another row: it is neither paid now nor then, or it is spoiled.
LEMMA SalaryChanges ==
  ASSUME PayrollInv, NEW s \in Salaries, NEW r \in SalaryRow, salary' = [salary EXCEPT ![s] = r],
         UNCHANGED <<expense, till, ledger>>, IsFiniteSet(item'), item' \subseteq ItemRow,
         \/ UNCHANGED <<copy, spoiled>> /\ ~IsPaid(s) /\ r.status # "PAID"
         \/ copy' = NoCopy /\ spoiled' = spoiled \cup {s}
  PROVE  PayrollInv'
<1>1. salary \in [Salaries -> {Absent} \cup SalaryRow] /\ expense \in [Expenses -> {Absent} \cup ExpenseRow]
  BY DEF PayrollInv, PayrollTypes
<1>2. salary' \in [Salaries -> {Absent} \cup SalaryRow] /\ salary'[s] = r
  BY <1>1
<1>3. \A d \in Docs \ {s} : DocRow(d)' = DocRow(d)
  BY <1>1 DEF DocRow
<1>4. DocRow(s)' = r /\ r.is # "none"
  BY <1>2 DEF DocRow, SalaryRow
<1>5. ReadsRow'
  BY <1>3, <1>4, ReadsStay DEF PayrollInv
<1>6. \A d \in Docs \ spoiled' : DocRow(d)' = DocRow(d) \/ (~IsPaid(d) /\ ~IsPaid(d)')
  BY <1>3, <1>4 DEF IsPaid
<1> QED BY <1>1, <1>2, <1>5, <1>6, QuietKeeps

LEMMA ExpenseChanges ==
  ASSUME PayrollInv, NEW x \in Expenses, NEW r \in ExpenseRow, expense' = [expense EXCEPT ![x] = r],
         UNCHANGED <<salary, item, till, ledger>>,
         \/ UNCHANGED <<copy, spoiled>> /\ ~IsPaid(x) /\ r.status # "PAID"
         \/ copy' = NoCopy /\ spoiled' = spoiled \cup {x}
  PROVE  PayrollInv'
<1>1. /\ salary \in [Salaries -> {Absent} \cup SalaryRow] /\ expense \in [Expenses -> {Absent} \cup ExpenseRow]
      /\ IsFiniteSet(item) /\ item \subseteq ItemRow
  BY DEF PayrollInv, PayrollTypes
<1>2. expense' \in [Expenses -> {Absent} \cup ExpenseRow] /\ expense'[x] = r
  BY <1>1
<1>3. \A d \in Docs \ {x} : DocRow(d)' = DocRow(d)
  BY <1>1 DEF DocRow, Docs
<1>4. DocRow(x)' = r /\ r.is # "none"
  BY <1>2, GivenPayroll DEF DocRow, ExpenseRow
<1>5. ReadsRow'
  BY <1>3, <1>4, ReadsStay DEF PayrollInv
<1>6. \A d \in Docs \ spoiled' : DocRow(d)' = DocRow(d) \/ (~IsPaid(d) /\ ~IsPaid(d)')
  BY <1>3, <1>4 DEF IsPaid
<1> QED BY <1>1, <1>2, <1>5, <1>6, QuietKeeps

LEMMA SalaryIs ==
  ASSUME PayrollInv, NEW s \in Salaries
  PROVE  /\ s \in Docs /\ DocRow(s) = salary[s] /\ salary[s] \in {Absent} \cup SalaryRow
         /\ salary[s].is = "live" => salary[s] \in SalaryRow
         /\ IsFiniteSet(item) /\ item \subseteq ItemRow
BY DEF PayrollInv, PayrollTypes, Docs, DocRow, Absent

LEMMA ExpenseIs ==
  ASSUME PayrollInv, NEW x \in Expenses
  PROVE  /\ x \in Docs /\ DocRow(x) = expense[x] /\ expense[x] \in {Absent} \cup ExpenseRow
         /\ expense[x].is = "live" => expense[x] \in ExpenseRow
BY GivenPayroll DEF PayrollInv, PayrollTypes, Docs, DocRow, Absent

LEMMA CreateSalaryKeeps ==
  ASSUME PayrollInv, NEW s \in Salaries, NEW b \in Amounts, NEW up \in Amounts \cup {0}, NEW down \in Amounts \cup {0},
         CreateSalary(s, b, up, down)
  PROVE  PayrollInv'
<1>0. b \in Int /\ up \in Int /\ down \in Int /\ b + up - down \in Int
  BY GivenPayroll
<1>3. Salary(b, up, down) \in SalaryRow /\ Salary(b, up, down).status # "PAID"
  BY <1>0 DEF Salary, SalaryRow
<1>1. PICK r \in SalaryRow : r = Salary(b, up, down) /\ r.status # "PAID"
  BY <1>3
<1>2. salary' = [salary EXCEPT ![s] = r] /\ UNCHANGED <<item, expense, till, ledger, copy, spoiled>> /\ ~IsPaid(s)
  BY <1>1, SalaryIs DEF CreateSalary, IsPaid
<1> QED BY <1>1, <1>2, SalaryIs, SalaryChanges

LEMMA UpdateSalaryKeeps ==
  ASSUME PayrollInv, NEW s \in Salaries, NEW read \in Seen(s, salary[s]),
         NEW field \in {"base", "bonus", "deduction"}, NEW n \in Amounts, UpdateSalary(s, read, field, n)
  PROVE  PayrollInv'
<1>1. read \in SalaryRow /\ salary[s] \in SalaryRow /\ read.status = "PENDING"
  BY SalaryIs, RowUsed DEF UpdateSalary, Is
<1>2. PICK net \in Int : net = [read EXCEPT ![field] = n].base + [read EXCEPT ![field] = n].bonus
                               - [read EXCEPT ![field] = n].deduction
  BY <1>1, GivenPayroll DEF SalaryRow
<1>3. PICK r : r = [salary[s] EXCEPT ![field] = n, !.net = net]
  OBVIOUS
<1>4. r \in SalaryRow /\ r.status = salary[s].status
  <2>1. n \in Int
    BY GivenPayroll
  <2>2. CASE field = "base"
    BY <1>1, <1>2, <1>3, <2>1, <2>2 DEF SalaryRow
  <2>3. CASE field = "bonus"
    BY <1>1, <1>2, <1>3, <2>1, <2>3 DEF SalaryRow
  <2>4. CASE field = "deduction"
    BY <1>1, <1>2, <1>3, <2>1, <2>4 DEF SalaryRow
  <2> QED BY <2>2, <2>3, <2>4
<1>5. salary' = [salary EXCEPT ![s] = r] /\ UNCHANGED <<item, expense, till, ledger>> /\ Worked(s, salary[s], read)
  BY <1>2, <1>3 DEF UpdateSalary
<1>6. \/ UNCHANGED <<copy, spoiled>> /\ ~IsPaid(s) /\ r.status # "PAID"
      \/ copy' = NoCopy /\ spoiled' = spoiled \cup {s}
  BY <1>1, <1>4, <1>5, SalaryIs DEF Worked, IsPaid
<1> QED BY <1>4, <1>5, <1>6, SalaryIs, SalaryChanges

LEMMA DeleteSalaryKeeps ==
  ASSUME PayrollInv, NEW s \in Salaries, NEW read \in Seen(s, salary[s]), DeleteSalary(s, read)
  PROVE  PayrollInv'
<1>1. read \in SalaryRow /\ salary[s] \in SalaryRow /\ read.status = "PENDING"
  BY SalaryIs, RowUsed DEF DeleteSalary, Is
<1>5. PICK r : r = [salary[s] EXCEPT !.is = "deleted"]
  OBVIOUS
<1>2. r \in SalaryRow /\ r = [salary[s] EXCEPT !.is = "deleted"] /\ r.status = salary[s].status
  BY <1>1, <1>5 DEF SalaryRow
<1>3. salary' = [salary EXCEPT ![s] = r] /\ UNCHANGED <<item, expense, till, ledger>> /\ Worked(s, salary[s], read)
  BY <1>2 DEF DeleteSalary
<1>4. \/ UNCHANGED <<copy, spoiled>> /\ ~IsPaid(s) /\ r.status # "PAID"
      \/ copy' = NoCopy /\ spoiled' = spoiled \cup {s}
  BY <1>1, <1>2, <1>3, SalaryIs DEF Worked, IsPaid
<1> QED BY <1>2, <1>3, <1>4, SalaryIs, SalaryChanges

LEMMA ApproveSalaryKeeps ==
  ASSUME PayrollInv, NEW s \in Salaries, ApproveSalary(s)
  PROVE  PayrollInv'
<1>1. salary[s] \in SalaryRow /\ salary[s].status = "PENDING"
  BY SalaryIs DEF ApproveSalary, Is
<1>4. PICK r : r = [salary[s] EXCEPT !.status = "APPROVED"]
  OBVIOUS
<1>2. r \in SalaryRow /\ r = [salary[s] EXCEPT !.status = "APPROVED"] /\ r.status # "PAID"
  BY <1>1, <1>4 DEF SalaryRow
<1>3. /\ salary' = [salary EXCEPT ![s] = r] /\ UNCHANGED <<item, expense, till, ledger, copy, spoiled>>
      /\ ~IsPaid(s)
  BY <1>1, <1>2, SalaryIs DEF ApproveSalary, IsPaid
<1> QED BY <1>2, <1>3, SalaryIs, SalaryChanges

\* Salaries of a month are made, or approved, together.
LEMMA GeneratePayrollKeeps ==
  ASSUME PayrollInv, NEW month, GeneratePayroll(month)
  PROVE  PayrollInv'
<1>1. /\ salary \in [Salaries -> {Absent} \cup SalaryRow] /\ expense \in [Expenses -> {Absent} \cup ExpenseRow]
      /\ IsFiniteSet(item) /\ item \subseteq ItemRow
  BY DEF PayrollInv, PayrollTypes
<1>2. salary' = [s \in Salaries |-> IF s[2] = month /\ salary[s].is = "none" THEN Salary(Base(s), 0, 0) ELSE salary[s]]
  BY DEF GeneratePayroll
<1>3. ASSUME NEW s \in Salaries PROVE Salary(Base(s), 0, 0) \in SalaryRow /\ ~(Salary(Base(s), 0, 0).status = "PAID")
  <2>1. s[1] \in Employees /\ s[2] \in 1 .. LastMonth /\ LastMonth \in Nat
    BY PayrollAssumption DEF Salaries, Months
  <2>2. Base(s) \in Int
    <3>1. CASE s[2] > 1 /\ salary[<<s[1], s[2] - 1>>].is = "live"
      <4>1. <<s[1], s[2] - 1>> \in Salaries
        BY <2>1, <3>1 DEF Salaries, Months
      <4>2. salary[<<s[1], s[2] - 1>>] \in SalaryRow
        BY <3>1, <4>1, SalaryIs
      <4> QED BY <3>1, <4>2 DEF Base, SalaryRow
    <3>2. CASE ~(s[2] > 1 /\ salary[<<s[1], s[2] - 1>>].is = "live")
      BY <2>1, <3>2, GivenPayroll DEF Base
    <3> QED BY <3>1, <3>2
  <2>3. PICK b \in Int : b = Base(s)
    BY <2>2
  <2> QED BY <2>3 DEF Salary, SalaryRow
<1>4. salary' \in [Salaries -> {Absent} \cup SalaryRow]
  BY <1>1, <1>2, <1>3
<1>5. UNCHANGED <<item, expense, till, ledger, copy, spoiled>>
  BY DEF GeneratePayroll
<1>6. ASSUME NEW d \in Docs
      PROVE  /\ DocRow(d)' = DocRow(d) \/ (~IsPaid(d) /\ ~IsPaid(d)')
             /\ DocRow(d).is # "none" => DocRow(d)' = DocRow(d)
  <2>1. CASE d \in Salaries
    <3>1. DocRow(d) = salary[d] /\ DocRow(d)' = salary'[d]
      BY <2>1 DEF DocRow
    <3>2. CASE salary[d].is = "none"
      <4>1. ~IsPaid(d)
        BY <3>1, <3>2 DEF IsPaid
      <4>2. salary'[d] = salary[d] \/ ~(salary'[d].status = "PAID")
        BY <1>2, <1>3, <2>1
      <4> QED BY <3>1, <3>2, <4>1, <4>2 DEF IsPaid
    <3>3. CASE salary[d].is # "none"
      BY <1>2, <2>1, <3>1, <3>3
    <3> QED BY <3>2, <3>3
  <2>2. CASE d \notin Salaries
    BY <1>5, <2>2 DEF DocRow
  <2> QED BY <2>1, <2>2
<1>7. ReadsRow'
  BY <1>5, <1>6, ReadsStay DEF PayrollInv
<1> QED BY <1>1, <1>4, <1>5, <1>6, <1>7, QuietKeeps

LEMMA ApproveAllKeeps ==
  ASSUME PayrollInv, NEW month, NEW first, ApproveAll(month, first)
  PROVE  PayrollInv'
<1>1. /\ salary \in [Salaries -> {Absent} \cup SalaryRow] /\ expense \in [Expenses -> {Absent} \cup ExpenseRow]
      /\ IsFiniteSet(item) /\ item \subseteq ItemRow
  BY DEF PayrollInv, PayrollTypes
<1>2. PICK Read : Read = [s \in Salaries |-> IF first /\ copy # NoCopy /\ copy[1] = s THEN copy[2] ELSE salary[s]]
  OBVIOUS
<1>3. PICK chosen : chosen = {s \in Salaries : s[2] = month /\ Is(Read[s], {"PENDING"})}
  OBVIOUS
<1>4. PICK late : late = {s \in chosen : Read[s] # salary[s]}
  OBVIOUS
<1>5. chosen = {s \in Salaries : /\ s[2] = month
                                  /\ Is(IF first /\ copy # NoCopy /\ copy[1] = s THEN copy[2] ELSE salary[s], {"PENDING"})}
  BY <1>2, <1>3
<1>6. late = {s \in chosen : (IF first /\ copy # NoCopy /\ copy[1] = s THEN copy[2] ELSE salary[s]) # salary[s]}
  BY <1>2, <1>3, <1>4
<1>7. /\ salary' = [s \in Salaries |-> IF s \in chosen THEN [salary[s] EXCEPT !.status = "APPROVED"] ELSE salary[s]]
      /\ IF late = {} THEN UNCHANGED <<copy, spoiled>> ELSE copy' = NoCopy /\ spoiled' = spoiled \cup late
      /\ UNCHANGED <<item, expense, till, ledger>>
  BY <1>5, <1>6 DEF ApproveAll
<1>8. ASSUME NEW s \in chosen
      PROVE  /\ s \in Salaries /\ salary[s] \in SalaryRow /\ [salary[s] EXCEPT !.status = "APPROVED"] \in SalaryRow
             /\ s \notin late => salary[s].status = "PENDING"
  <2>1. s \in Salaries /\ Read[s].is = "live" /\ Read[s].status = "PENDING"
    BY <1>3 DEF Is
  <2>2. Read[s] \in Seen(s, salary[s])
    BY <1>2, <2>1 DEF Seen
  <2>3. PICK read : read = Read[s] /\ read \in Seen(s, DocRow(s)) /\ read.is = "live"
    BY <2>1, <2>2, SalaryIs
  <2>4. salary[s] \in SalaryRow
    BY <2>1, <2>3, SalaryIs, RowUsed
  <2>5. [salary[s] EXCEPT !.status = "APPROVED"] \in SalaryRow
    BY <2>4 DEF SalaryRow
  <2> QED BY <1>4, <2>1, <2>4, <2>5
<1>9. salary' \in [Salaries -> {Absent} \cup SalaryRow]
  BY <1>1, <1>7, <1>8
<1>10. spoiled \subseteq spoiled' /\ late \subseteq spoiled' /\ (copy' = copy \/ copy' = NoCopy)
  BY <1>7
<1>11. ASSUME NEW d \in Docs
       PROVE  /\ d \notin spoiled' => DocRow(d)' = DocRow(d) \/ (~IsPaid(d) /\ ~IsPaid(d)')
              /\ DocRow(d).is # "none" => DocRow(d)'.is # "none"
  <2>1. CASE d \in chosen
    <3>1. d \in Salaries /\ DocRow(d) = salary[d] /\ DocRow(d)' = [salary[d] EXCEPT !.status = "APPROVED"] /\ salary[d] \in SalaryRow
      BY <1>7, <1>8, <2>1 DEF DocRow
    <3>2. DocRow(d)'.is # "none" /\ DocRow(d)'.status = "APPROVED"
      BY <3>1 DEF SalaryRow
    <3>3. d \notin spoiled' => DocRow(d).status = "PENDING"
      BY <1>8, <1>10, <2>1, <3>1
    <3> QED BY <3>2, <3>3 DEF IsPaid
  <2>2. CASE d \notin chosen
    BY <1>7, <2>2 DEF DocRow
  <2> QED BY <2>1, <2>2
<1>12. ReadsRow'
  BY <1>10, <1>11, ReadsStay DEF PayrollInv
<1> QED BY <1>1, <1>7, <1>9, <1>10, <1>11, <1>12, QuietKeeps

LEMMA ReadDocKeeps ==
  ASSUME PayrollInv, NEW d \in Docs, ReadDoc(d)
  PROVE  PayrollInv'
<1>1. /\ salary \in [Salaries -> {Absent} \cup SalaryRow] /\ expense \in [Expenses -> {Absent} \cup ExpenseRow]
      /\ IsFiniteSet(item) /\ item \subseteq ItemRow
  BY DEF PayrollInv, PayrollTypes
<1>2. UNCHANGED <<salary, item, expense, till, ledger, spoiled>> /\ copy' = <<d, DocRow(d)>> /\ DocRow(d).is = "live"
  BY DEF ReadDoc, Fetch
<1>3. PICK r : r = DocRow(d)
  OBVIOUS
<1>4. DocRow(d)' = r /\ copy' = <<d, r>> /\ r.is = "live"
  BY <1>2, <1>3 DEF DocRow
<1>5. /\ d \in Salaries => r \in SalaryRow
      /\ d \in Expenses => r \in ExpenseRow
  BY <1>3, <1>4, SalaryIs, ExpenseIs
<1>6. ReadsRow'
  BY <1>4, <1>5 DEF ReadsRow
<1>7. \A e \in Docs : DocRow(e)' = DocRow(e)
  BY <1>2 DEF DocRow
<1> QED BY <1>1, <1>2, <1>6, <1>7, QuietKeeps

\* Sums over the rows of a salary.
LEMMA RecomputedIs ==
  ASSUME NEW r \in SalaryRow, NEW s, NEW rows, IsFiniteSet(rows), rows \subseteq ItemRow
  PROVE  Recomputed(r, s, rows) \in SalaryRow /\ Recomputed(r, s, rows).status = r.status
<1> DEFINE Sum(k) == SumFunction([i \in RowsOf(rows, s, k) |-> i.amount])
<1>1. ASSUME NEW k PROVE Sum(k) \in Int
  <2>1. RowsOf(rows, s, k) \subseteq rows
    BY DEF RowsOf
  <2>2. PICK S, f : S = RowsOf(rows, s, k) /\ f = [i \in S |-> i.amount]
    OBVIOUS
  <2>3. IsFiniteSet(S)
    BY <2>1, <2>2, FS_Subset
  <2>4. \A i \in S : f[i] \in Int
    BY <2>1, <2>2 DEF ItemRow
  <2>5. SumFunctionOnSet(f, S) \in Int
    BY <2>3, <2>4, SumIsInt
  <2>6. DOMAIN f = S /\ Sum(k) = SumFunction(f)
    BY <2>2
  <2> QED BY <2>5, <2>6 DEF SumFunction
<1>2. PICK up, down \in Int : up = Sum("bonus") /\ down = Sum("deduction")
  BY <1>1
<1>3. Recomputed(r, s, rows) = [r EXCEPT !.bonus = up, !.deduction = down, !.net = r.base + up - down]
  BY <1>2, Zenon DEF Recomputed
<1>4. PICK net \in Int : net = r.base + up - down
  BY DEF SalaryRow
<1>5. PICK q : q = [r EXCEPT !.bonus = up, !.deduction = down, !.net = net]
  OBVIOUS
<1>6. q \in SalaryRow /\ q.status = r.status
  BY <1>5 DEF SalaryRow
<1> QED BY <1>3, <1>4, <1>5, <1>6

LEMMA AddToSalaryKeeps ==
  ASSUME PayrollInv, NEW s \in Salaries, NEW what \in {"bonus", "deduction"}, NEW n \in Amounts, AddToSalary(s, what, n)
  PROVE  PayrollInv'
<1>1. salary[s] \in SalaryRow /\ salary[s].status # "PAID" /\ IsFiniteSet(item) /\ item \subseteq ItemRow
  BY SalaryIs DEF AddToSalary, Is
<1>2. PICK e : e = [id |-> Cardinality(item) + 1, of |-> s, kind |-> what, amount |-> n, is |-> "live"]
  OBVIOUS
<1>3. e \in ItemRow
  <2>1. Cardinality(item) + 1 \in Nat /\ n \in Int
    BY <1>1, FS_CardinalityType, GivenPayroll
  <2> QED BY <1>2, <2>1 DEF ItemRow
<1>4. /\ item' = item \cup {e} /\ salary' = [salary EXCEPT ![s] = Recomputed(salary[s], s, item')]
      /\ UNCHANGED <<expense, till, ledger, copy, spoiled>>
  BY <1>2 DEF AddToSalary
<1>5. IsFiniteSet(item') /\ item' \subseteq ItemRow
  BY <1>1, <1>3, <1>4, FS_AddElement
<1>6. PICK r \in SalaryRow : r = Recomputed(salary[s], s, item') /\ r.status = salary[s].status
  BY <1>1, <1>5, RecomputedIs
<1>7. ~IsPaid(s)
  BY <1>1, SalaryIs DEF IsPaid
<1> QED BY <1>1, <1>4, <1>5, <1>6, <1>7, SalaryChanges

LEMMA RemoveItemKeeps ==
  ASSUME PayrollInv, NEW i \in item, RemoveItem(i)
  PROVE  PayrollInv'
<1>1. IsFiniteSet(item) /\ item \subseteq ItemRow
  BY DEF PayrollInv, PayrollTypes
<1>2. PICK s \in Salaries : s = i.of
  BY <1>1 DEF ItemRow
<1>3. salary[s] \in SalaryRow /\ salary[s].status # "PAID"
  BY <1>2, SalaryIs DEF RemoveItem, Is
<1>4. PICK e : e = [i EXCEPT !.is = "deleted"]
  OBVIOUS
<1>5. e \in ItemRow
  BY <1>1, <1>4 DEF ItemRow
<1>6. /\ item' = (item \ {i}) \cup {e} /\ salary' = [salary EXCEPT ![s] = Recomputed(salary[s], s, item')]
      /\ UNCHANGED <<expense, till, ledger, copy, spoiled>>
  BY <1>2, <1>4 DEF RemoveItem
<1>7. IsFiniteSet(item') /\ item' \subseteq ItemRow
  <2>1. IsFiniteSet(item \ {i})
    BY <1>1, FS_Subset
  <2>2. IsFiniteSet((item \ {i}) \cup {e})
    BY <2>1, FS_AddElement
  <2> QED BY <1>1, <1>5, <1>6, <2>2
<1>8. PICK r \in SalaryRow : r = Recomputed(salary[s], s, item') /\ r.status = salary[s].status
  BY <1>3, <1>7, RecomputedIs
<1>9. ~IsPaid(s)
  BY <1>3, SalaryIs DEF IsPaid
<1> QED BY <1>3, <1>6, <1>7, <1>8, <1>9, SalaryChanges

LEMMA SetBaseKeeps ==
  ASSUME PayrollInv, NEW s \in Salaries, NEW n \in Amounts, SetBase(s, n)
  PROVE  PayrollInv'
<1>1. salary[s] \in SalaryRow /\ salary[s].status # "PAID" /\ IsFiniteSet(item) /\ item \subseteq ItemRow
  BY SalaryIs DEF SetBase, Is
<1>2. PICK b : b = [salary[s] EXCEPT !.base = n]
  OBVIOUS
<1>3. b \in SalaryRow /\ b.status = salary[s].status
  BY <1>1, <1>2, GivenPayroll DEF SalaryRow
<1>4. PICK r \in SalaryRow : r = Recomputed(b, s, item) /\ r.status = salary[s].status
  BY <1>1, <1>3, RecomputedIs
<1>5. salary' = [salary EXCEPT ![s] = r] /\ UNCHANGED <<item, expense, till, ledger, copy, spoiled>>
  BY <1>2, <1>4 DEF SetBase
<1>6. ~IsPaid(s)
  BY <1>1, SalaryIs DEF IsPaid
<1> QED BY <1>1, <1>4, <1>5, <1>6, SalaryChanges

\* Cash that leaves the register for a document, and the row that says so.
LEMMA PayOutIs ==
  ASSUME PayrollInv, NEW what \in {"SALARY_PAYMENT", "EXPENSE_PAYMENT"}, NEW d \in Docs, NEW amount \in Int,
         NEW method \in PayMethods, PayOut(what, d, amount, method)
  PROVE  \E e \in CashRow :
           /\ ledger' = Append(ledger, e) /\ till' \in Int /\ till' = till + MovedBy(e)
           /\ till' < 0 => till' >= till
           /\ e.doc = d /\ e.amount = amount
<1>1. till \in Int
  BY DEF PayrollInv, PayrollTypes
<1>2. till' \in Int /\ (till' < 0 => till' >= till)
  BY <1>1 DEF PayOut
<1>3. PICK e : e = [type |-> what, doc |-> d, amount |-> amount, method |-> method, before |-> till, after |-> till']
  OBVIOUS
<1>4. e \in CashRow
  BY <1>1, <1>2, <1>3 DEF CashRow
<1>5. till' = till + MovedBy(e)
  BY <1>1, <1>3 DEF MovedBy, PayOut
<1>6. ledger' = Append(ledger, e)
  BY <1>3 DEF PayOut, Row
<1> QED BY <1>2, <1>3, <1>4, <1>5, <1>6

LEMMA PaySalaryKeeps ==
  ASSUME PayrollInv, NEW s \in Salaries, NEW method \in PayMethods, PaySalary(s, method)
  PROVE  PayrollInv'
<1>1. salary[s] \in SalaryRow /\ salary[s].status = "APPROVED" /\ s \in Docs
  BY SalaryIs DEF PaySalary, Is
<1>2. PICK net \in Int : net = salary[s].net
  BY <1>1 DEF SalaryRow
<1>3. PayOut("SALARY_PAYMENT", s, net, method)
  BY <1>2 DEF PaySalary
<1>4. PICK e \in CashRow :
        /\ ledger' = Append(ledger, e) /\ till' \in Int /\ till' = till + MovedBy(e)
        /\ till' < 0 => till' >= till
        /\ e.doc = s /\ e.amount = net
  BY <1>1, <1>3, PayOutIs
<1>5. PICK r : r = [salary[s] EXCEPT !.status = "PAID"]
  OBVIOUS
<1>6. r \in SalaryRow /\ r.net = net /\ r.status = "PAID"
  BY <1>1, <1>2, <1>5 DEF SalaryRow
<1>7. salary' = [salary EXCEPT ![s] = r] /\ UNCHANGED <<item, expense, copy, spoiled>>
  BY <1>5 DEF PaySalary
<1>8. salary \in [Salaries -> {Absent} \cup SalaryRow] /\ expense \in [Expenses -> {Absent} \cup ExpenseRow]
  BY DEF PayrollInv, PayrollTypes
<1>9. salary' \in [Salaries -> {Absent} \cup SalaryRow] /\ salary'[s] = r
  BY <1>6, <1>7, <1>8
<1>10. DocRow(s)' = r /\ ~IsPaid(s) /\ r.is # "none"
  BY <1>1, <1>6, <1>9, SalaryIs DEF DocRow, IsPaid, SalaryRow
<1>11. IsPaid(s)' /\ Owed(s)' = net
  BY <1>6, <1>9, <1>10 DEF IsPaid, Owed
<1>12. \A d \in Docs \ {s} : DocRow(d)' = DocRow(d)
  BY <1>7, <1>8 DEF DocRow
<1>13. ReadsRow'
  BY <1>7, <1>10, <1>12, ReadsStay DEF PayrollInv
<1>14. \A d \in Docs \ spoiled' : \/ DocRow(d)' = DocRow(d) /\ e.doc # d
                                  \/ ~IsPaid(d) /\ IsPaid(d)' /\ e.doc = d /\ e.amount = Owed(d)'
  BY <1>4, <1>10, <1>11, <1>12
<1> QED BY <1>4, <1>7, <1>8, <1>9, <1>13, <1>14, RowKeeps

\* Expenses: what a handler writes over an outdated copy is spoiled.
LEMMA SetExpenseKeeps ==
  ASSUME PayrollInv, NEW x \in Expenses, NEW read \in Seen(x, expense[x]), read.status # "PAID",
         NEW r \in ExpenseRow, read = expense[x] => r.status # "PAID",
         expense' = [expense EXCEPT ![x] = r], Worked(x, expense[x], read), UNCHANGED <<salary, item, till, ledger>>
  PROVE  PayrollInv'
<1>1. CASE read = expense[x]
  <2>1. ~IsPaid(x) /\ UNCHANGED <<copy, spoiled>>
    BY <1>1, ExpenseIs DEF IsPaid, Worked
  <2> QED BY <1>1, <2>1, ExpenseChanges
<1>2. CASE read # expense[x]
  <2>1. copy' = NoCopy /\ spoiled' = spoiled \cup {x}
    BY <1>2 DEF Worked
  <2> QED BY <2>1, ExpenseChanges
<1> QED BY <1>1, <1>2

LEMMA ExpenseUsed ==
  ASSUME PayrollInv, NEW x \in Expenses, NEW read \in Seen(x, expense[x]), read.is = "live"
  PROVE  read \in ExpenseRow /\ expense[x] \in ExpenseRow
<1>1. x \in Docs /\ read \in Seen(x, DocRow(x))
  BY ExpenseIs
<1> QED BY <1>1, RowUsed

LEMMA CreateExpenseKeeps ==
  ASSUME PayrollInv, NEW x \in Expenses, NEW amount \in Costs, NEW c \in Categories \cup {NoCategory},
         CreateExpense(x, amount, c)
  PROVE  PayrollInv'
<1>1. Expense(amount, c) \in ExpenseRow /\ Expense(amount, c).status # "PAID"
  BY GivenPayroll DEF Expense, ExpenseRow
<1>2. PICK r \in ExpenseRow : r = Expense(amount, c) /\ r.status # "PAID"
  BY <1>1
<1>3. expense' = [expense EXCEPT ![x] = r] /\ UNCHANGED <<salary, item, till, ledger, copy, spoiled>> /\ ~IsPaid(x)
  BY <1>2, ExpenseIs DEF CreateExpense, IsPaid
<1> QED BY <1>2, <1>3, ExpenseChanges

LEMMA UpdateExpenseKeeps ==
  ASSUME PayrollInv, NEW x \in Expenses, NEW read \in Seen(x, expense[x]), NEW amount \in Costs,
         NEW c \in Categories \cup {NoCategory}, UpdateExpense(x, read, amount, c)
  PROVE  PayrollInv'
<1>1. read \in ExpenseRow /\ expense[x] \in ExpenseRow /\ read.status \in {"PENDING", "APPROVED", "REJECTED"}
  BY ExpenseUsed DEF UpdateExpense, Is
<1>2. PICK r : r = [expense[x] EXCEPT !.amount = amount, !.category = c]
  OBVIOUS
<1>3. r \in ExpenseRow /\ r.status = expense[x].status
  BY <1>1, <1>2, GivenPayroll DEF ExpenseRow
<1>4. expense' = [expense EXCEPT ![x] = r] /\ Worked(x, expense[x], read) /\ UNCHANGED <<salary, item, till, ledger>>
  BY <1>2 DEF UpdateExpense
<1> QED BY <1>1, <1>3, <1>4, SetExpenseKeeps

LEMMA DeleteExpenseKeeps ==
  ASSUME PayrollInv, NEW x \in Expenses, NEW read \in Seen(x, expense[x]), DeleteExpense(x, read)
  PROVE  PayrollInv'
<1>1. read \in ExpenseRow /\ expense[x] \in ExpenseRow /\ read.status \in {"PENDING", "APPROVED", "REJECTED"}
  BY ExpenseUsed DEF DeleteExpense, Is
<1>2. PICK r : r = [expense[x] EXCEPT !.is = "deleted"]
  OBVIOUS
<1>3. r \in ExpenseRow /\ r.status = expense[x].status
  BY <1>1, <1>2 DEF ExpenseRow
<1>4. expense' = [expense EXCEPT ![x] = r] /\ Worked(x, expense[x], read) /\ UNCHANGED <<salary, item, till, ledger>>
  BY <1>2 DEF DeleteExpense, SetExpense
<1> QED BY <1>1, <1>3, <1>4, SetExpenseKeeps

LEMMA ApproveExpenseKeeps ==
  ASSUME PayrollInv, NEW x \in Expenses, NEW read \in Seen(x, expense[x]), NEW approved \in BOOLEAN,
         ApproveExpense(x, read, approved)
  PROVE  PayrollInv'
<1>1. read \in ExpenseRow /\ expense[x] \in ExpenseRow /\ read.status = "PENDING"
  BY ExpenseUsed DEF ApproveExpense, Is
<1>2. PICK status \in {"APPROVED", "REJECTED"} : status = IF approved THEN "APPROVED" ELSE "REJECTED"
  OBVIOUS
<1>3. PICK r : r = [expense[x] EXCEPT !.status = status]
  OBVIOUS
<1>4. r \in ExpenseRow /\ r.status # "PAID"
  BY <1>1, <1>2, <1>3 DEF ExpenseRow
<1>5. expense' = [expense EXCEPT ![x] = r] /\ Worked(x, expense[x], read) /\ UNCHANGED <<salary, item, till, ledger>>
  BY <1>2, <1>3 DEF ApproveExpense, SetExpense
<1> QED BY <1>1, <1>4, <1>5, SetExpenseKeeps

LEMMA MarkPaidKeeps ==
  ASSUME PayrollInv, NEW x \in Expenses, NEW read \in Seen(x, expense[x]), NEW method \in PayMethods,
         MarkPaid(x, read, method)
  PROVE  PayrollInv'
<1>1. read \in ExpenseRow /\ expense[x] \in ExpenseRow /\ read.status = "APPROVED" /\ x \in Docs
  BY ExpenseUsed, ExpenseIs DEF MarkPaid, Is
<1>2. PICK amount \in Int : amount = read.amount
  BY <1>1 DEF ExpenseRow
<1>3. PayOut("EXPENSE_PAYMENT", x, amount, method)
  BY <1>2 DEF MarkPaid
<1>4. PICK e \in CashRow :
        /\ ledger' = Append(ledger, e) /\ till' \in Int /\ till' = till + MovedBy(e)
        /\ till' < 0 => till' >= till
        /\ e.doc = x /\ e.amount = amount
  BY <1>1, <1>3, PayOutIs
<1>5. PICK r : r = [expense[x] EXCEPT !.status = "PAID"]
  OBVIOUS
<1>6. r \in ExpenseRow /\ r.amount = expense[x].amount /\ r.status = "PAID"
  BY <1>1, <1>5 DEF ExpenseRow
<1>7. expense' = [expense EXCEPT ![x] = r] /\ Worked(x, expense[x], read) /\ UNCHANGED <<salary, item>>
  BY <1>5 DEF MarkPaid, SetExpense
<1>8. salary \in [Salaries -> {Absent} \cup SalaryRow] /\ expense \in [Expenses -> {Absent} \cup ExpenseRow]
  BY DEF PayrollInv, PayrollTypes
<1>9. expense' \in [Expenses -> {Absent} \cup ExpenseRow] /\ expense'[x] = r
  BY <1>6, <1>7, <1>8
<1>10. DocRow(x)' = r /\ r.is # "none" /\ Owed(x)' = expense[x].amount /\ IsPaid(x)'
  BY <1>6, <1>9, GivenPayroll DEF DocRow, ExpenseRow, Owed, IsPaid
<1>11. \A d \in Docs \ {x} : DocRow(d)' = DocRow(d)
  BY <1>7, <1>8 DEF DocRow, Docs
<1>12. spoiled \subseteq spoiled' /\ (copy' = copy \/ copy' = NoCopy) /\ (x \notin spoiled' => read = expense[x])
  BY <1>7 DEF Worked
<1>13. ReadsRow'
  BY <1>10, <1>11, <1>12, ReadsStay DEF PayrollInv
<1>14. x \notin spoiled' => ~IsPaid(x) /\ amount = Owed(x)'
  BY <1>1, <1>2, <1>10, <1>12, ExpenseIs DEF IsPaid
<1>15. \A d \in Docs \ spoiled' : \/ DocRow(d)' = DocRow(d) /\ e.doc # d
                                  \/ ~IsPaid(d) /\ IsPaid(d)' /\ e.doc = d /\ e.amount = Owed(d)'
  BY <1>4, <1>10, <1>11, <1>14
<1> QED BY <1>4, <1>7, <1>8, <1>9, <1>12, <1>13, <1>15, RowKeeps

\* Cash that moves by hand is of no document.
LEMMA CashKeeps ==
  ASSUME PayrollInv, NEW n \in Amounts, NEW method \in PayMethods, DepositCash(n, method) \/ WithdrawCash(n, method)
  PROVE  PayrollInv'
<1>1. till \in Int /\ n \in Nat
  BY GivenPayroll DEF PayrollInv, PayrollTypes
<1>2. till' \in Int
  BY <1>1 DEF DepositCash, WithdrawCash
<1>3. PICK what \in {"DEPOSIT", "WITHDRAWAL"} :
        /\ what = "DEPOSIT" => DepositCash(n, method)
        /\ what = "WITHDRAWAL" => WithdrawCash(n, method)
  OBVIOUS
<1>4. PICK e : e = [type |-> what, doc |-> <<>>, amount |-> n, method |-> method, before |-> till, after |-> till']
  OBVIOUS
<1>5. e \in CashRow
  BY <1>1, <1>2, <1>4 DEF CashRow
<1>6. ledger' = Append(ledger, e)
  BY <1>3, <1>4 DEF DepositCash, WithdrawCash, Row
<1>7. till' = till + MovedBy(e) /\ (till' < 0 => till' >= till \/ OutOfHand(e))
  BY <1>1, <1>3, <1>4 DEF DepositCash, WithdrawCash, MovedBy, OutOfHand, PayMethods
<1>8. /\ salary \in [Salaries -> {Absent} \cup SalaryRow] /\ expense \in [Expenses -> {Absent} \cup ExpenseRow]
      /\ UNCHANGED <<salary, item, expense, copy, spoiled>>
  BY DEF PayrollInv, PayrollTypes, DepositCash, WithdrawCash
<1>9. \A d \in Docs : DocRow(d)' = DocRow(d) /\ e.doc # d
  BY <1>4, <1>8, GivenPayroll DEF DocRow
<1>10. ReadsRow'
  BY <1>8, <1>9, ReadsStay DEF PayrollInv
<1> QED BY <1>2, <1>5, <1>6, <1>7, <1>8, <1>9, <1>10, RowKeeps

\* A step that leaves the documents and the register alone.
LEMMA PayrollStays ==
  ASSUME PayrollInv, UNCHANGED <<salary, item, expense, till, ledger, copy, spoiled>>
  PROVE  PayrollInv'
<1>1. /\ salary \in [Salaries -> {Absent} \cup SalaryRow] /\ expense \in [Expenses -> {Absent} \cup ExpenseRow]
      /\ IsFiniteSet(item) /\ item \subseteq ItemRow
  BY DEF PayrollInv, PayrollTypes
<1>2. \A d \in Docs : DocRow(d)' = DocRow(d)
  BY DEF DocRow
<1>3. ReadsRow'
  BY <1>2, ReadsStay DEF PayrollInv
<1> QED BY <1>1, <1>2, <1>3, QuietKeeps

PayrollNext == WagesNext \/ ExpensesNext \/ CashNext
LEMMA PayrollKeeps ==
  ASSUME PayrollInv, PayrollNext
  PROVE  PayrollInv'
<1>0. Salaries \subseteq Docs /\ Expenses \subseteq Docs
  BY DEF Docs
<1>1. CASE WagesNext
  <2>1. ASSUME NEW s \in Salaries, NEW b \in Amounts, NEW up \in Amounts \cup {0}, NEW down \in Amounts \cup {0},
               CreateSalary(s, b, up, down)
        PROVE  PayrollInv'
    BY <2>1, CreateSalaryKeeps
  <2>2. ASSUME NEW month \in Months, GeneratePayroll(month) \/ \E first \in BOOLEAN : ApproveAll(month, first)
        PROVE  PayrollInv'
    BY <2>2, GeneratePayrollKeeps, ApproveAllKeeps
  <2>3. ASSUME NEW s \in Salaries, NEW read \in Seen(s, salary[s]),
               \/ \E field \in {"base", "bonus", "deduction"}, n \in Amounts : UpdateSalary(s, read, field, n)
               \/ DeleteSalary(s, read)
        PROVE  PayrollInv'
    BY <2>3, UpdateSalaryKeeps, DeleteSalaryKeeps
  <2>4. ASSUME NEW s \in Salaries,
               \/ ReadDoc(s) \/ ApproveSalary(s)
               \/ \E method \in PayMethods : PaySalary(s, method)
               \/ \E what \in {"bonus", "deduction"}, n \in Amounts : AddToSalary(s, what, n)
               \/ \E n \in Amounts : SetBase(s, n)
        PROVE  PayrollInv'
    BY <1>0, <2>4, ReadDocKeeps, ApproveSalaryKeeps, PaySalaryKeeps, AddToSalaryKeeps, SetBaseKeeps
  <2>5. ASSUME NEW i \in item, RemoveItem(i) PROVE PayrollInv'
    BY <2>5, RemoveItemKeeps
  <2> QED BY <1>1, <2>1, <2>2, <2>3, <2>4, <2>5 DEF WagesNext
<1>2. CASE ExpensesNext
  <2>1. ASSUME NEW c, DeleteCategory(c) \/ \E status \in {"active", "inactive"} : SetCategory(c, status) PROVE PayrollInv'
    BY <2>1, PayrollStays DEF DeleteCategory, SetCategory
  <2>2. ASSUME NEW x \in Expenses, NEW c \in Categories \cup {NoCategory}, NEW n \in Costs, CreateExpense(x, n, c)
        PROVE  PayrollInv'
    BY <2>2, CreateExpenseKeeps
  <2>3. ASSUME NEW x \in Expenses, NEW read \in Seen(x, expense[x]),
               \/ \E c \in Categories \cup {NoCategory}, n \in Costs : UpdateExpense(x, read, n, c)
               \/ DeleteExpense(x, read)
               \/ \E approved \in BOOLEAN : ApproveExpense(x, read, approved)
               \/ \E method \in PayMethods : MarkPaid(x, read, method)
        PROVE  PayrollInv'
    BY <2>3, UpdateExpenseKeeps, DeleteExpenseKeeps, ApproveExpenseKeeps, MarkPaidKeeps
  <2>4. ASSUME NEW x \in Expenses, ReadDoc(x) PROVE PayrollInv'
    BY <1>0, <2>4, ReadDocKeeps
  <2> QED BY <1>2, <2>1, <2>2, <2>3, <2>4 DEF ExpensesNext
<1>3. CASE CashNext
  BY <1>3, CashKeeps DEF CashNext
<1> QED BY <1>1, <1>2, <1>3 DEF PayrollNext
-----------------------------------------------------------------------------
(* Leave                                                                   *)

LeaveRow == [is : {"live"}, who : Staff, type : LeaveTypes, from : Calendar, to : Calendar, days : Nat,
             status : {"PENDING", "APPROVED", "REJECTED", "CANCELED"}, untracked : BOOLEAN]
TypeRow == [is : {"live"}, active : BOOLEAN, quota : Nat, carry : Nat]
BalanceRow == [is : {"live"}, allocated : Nat, used : Nat, carried : Nat]
MadeRequests == {r \in Leaves : leave[r].is = "live"}
LeaveFits ==
  /\ leaveType \in [LeaveTypes -> {NoLeave} \cup TypeRow]
  /\ leave \in [Leaves -> {NoLeave} \cup LeaveRow]
  /\ balance \in [Accounts -> {NoLeave} \cup BalanceRow]
  /\ IsFiniteSet(MadeRequests)

\* What a copy of a request says of whom and when does not go out of date.
SameRequest(q, p) == q.who = p.who /\ q.type = p.type /\ q.from = p.from /\ q.days = p.days
CopyFits ==
  copy # NoCopy =>
    \/ \E r \in Leaves, q \in LeaveRow : copy = <<r, q>> /\ leave[r].is = "live" /\ SameRequest(q, leave[r])
    \/ \E a \in Accounts, b \in BalanceRow : copy = <<a, b>>

Taken(a) == {r \in Against(a) : Approved(r)}
DaysOf == [r \in Leaves |-> leave[r].days]
Whole(a) ==
  /\ balance[a].is = "live" /\ a \notin spoiled /\ Against(a) \cap spoiled = {}
  /\ \A r \in Against(a) : ~leave[r].untracked
\* What is taken of a balance; what is approved without one says so, and what is not decided does not.
Charged(a) ==
  /\ Whole(a) => Remaining(balance[a]) >= 0 /\ balance[a].used = SumFunctionOnSet(DaysOf, Taken(a))
  /\ balance[a].is # "live" => \A r \in Taken(a) : leave[r].untracked
StillTracked == \A r \in Leaves : leave[r].is = "live" /\ leave[r].status = "PENDING" => ~leave[r].untracked
LeaveInv == LeaveFits /\ CopyFits /\ StillTracked /\ \A a \in Accounts : Charged(a)

LEMMA GivenLeave ==
  /\ Quotas \subseteq Nat /\ Carryovers \subseteq Nat /\ Calendar \subseteq Nat
  /\ \A d \in Calendar : YearOf[d] \in Years
  /\ Leaves \cap Accounts = {}
BY LeaveAssumption DEF Calendar, Years, Accounts

LEMMA AccountIs == ASSUME NEW q \in LeaveRow PROVE Account(q) \in Accounts
BY GivenLeave DEF Account, Accounts, LeaveRow

LEMMA RequestIs ==
  ASSUME LeaveInv, NEW r \in Leaves
  PROVE  /\ leave[r] \in {NoLeave} \cup LeaveRow
         /\ leave[r].is = "live" => leave[r] \in LeaveRow /\ Account(leave[r]) \in Accounts
         /\ leave[r].is = "none" => leave[r] = NoLeave
BY AccountIs DEF LeaveInv, LeaveFits, NoLeave, LeaveRow

LEMMA BalanceIs ==
  ASSUME LeaveInv, NEW a \in Accounts
  PROVE  /\ balance[a] \in {NoLeave} \cup BalanceRow
         /\ balance[a].is = "live" => balance[a] \in BalanceRow
         /\ balance[a].is # "live" => balance[a] = NoLeave
BY DEF LeaveInv, LeaveFits, NoLeave, BalanceRow

LEMMA AgainstIs ==
  ASSUME LeaveInv, NEW a \in Accounts
  PROVE  /\ IsFiniteSet(Against(a)) /\ IsFiniteSet(Taken(a)) /\ Taken(a) \subseteq Against(a)
         /\ Against(a) \subseteq Leaves
         /\ \A r \in Taken(a) : DaysOf[r] \in Nat
<1>1. Against(a) \subseteq MadeRequests /\ Taken(a) \subseteq MadeRequests
  BY DEF Against, Taken, MadeRequests
<1>2. IsFiniteSet(Against(a)) /\ IsFiniteSet(Taken(a))
  BY <1>1, FS_Subset DEF LeaveInv, LeaveFits
<1>3. ASSUME NEW r \in Taken(a) PROVE DaysOf[r] \in Nat
  <2>1. r \in Leaves /\ leave[r] \in LeaveRow
    BY <1>1, RequestIs DEF MadeRequests
  <2> QED BY <2>1 DEF DaysOf, LeaveRow
<1> QED BY <1>1, <1>2, <1>3 DEF Taken, Against

LEMMA LeaveSays == LeaveInv => LeaveBooks
<1> SUFFICES ASSUME LeaveInv PROVE LeaveBooks
  OBVIOUS
<1> SUFFICES ASSUME NEW a \in Accounts, Whole(a)
             PROVE  /\ Remaining(balance[a]) >= 0
                    /\ balance[a].used = SumFunction([r \in {r \in Against(a) : Approved(r)} |-> leave[r].days])
  BY DEF LeaveBooks, Whole
<1>1. Remaining(balance[a]) >= 0 /\ balance[a].used = SumFunctionOnSet(DaysOf, Taken(a))
  BY DEF LeaveInv, Charged
<1>2. PICK f : f = [r \in Taken(a) |-> leave[r].days]
  OBVIOUS
<1>3. DOMAIN f = Taken(a) /\ \A r \in Taken(a) : f[r] = DaysOf[r]
  BY <1>2, AgainstIs DEF DaysOf
<1>4. SumFunctionOnSet(f, Taken(a)) = SumFunctionOnSet(DaysOf, Taken(a))
  BY <1>3, AgainstIs, SumSame
<1>5. SumFunction(f) = SumFunctionOnSet(f, Taken(a))
  BY <1>3 DEF SumFunction
<1>6. [r \in {r \in Against(a) : Approved(r)} |-> leave[r].days] = f
  BY <1>2 DEF Taken
<1> QED BY <1>1, <1>4, <1>5, <1>6

\* Nobody has asked for leave yet.
LeaveIdle ==
  /\ leaveType = [t \in LeaveTypes |-> NoLeave] /\ leave = [r \in Leaves |-> NoLeave]
  /\ balance = [a \in Accounts |-> NoLeave]

LEMMA NoLeaveIs == LeaveIdle => LeaveFits /\ StillTracked /\ \A a \in Accounts : Charged(a)
<1> SUFFICES ASSUME LeaveIdle PROVE LeaveFits /\ StillTracked /\ \A a \in Accounts : Charged(a)
  OBVIOUS
<1>1. MadeRequests = {}
  BY DEF LeaveIdle, MadeRequests, NoLeave
<1>2. LeaveFits
  BY <1>1, FS_EmptySet DEF LeaveFits, LeaveIdle
<1>3. ASSUME NEW a \in Accounts PROVE Charged(a)
  BY <1>1 DEF Charged, Whole, Taken, Against, MadeRequests, LeaveIdle, NoLeave
<1> QED BY <1>1, <1>2, <1>3 DEF StillTracked, MadeRequests

LEMMA LeaveBegins == LeaveInit => LeaveIdle /\ LeaveInv
BY NoLeaveIs DEF LeaveInit, LeaveIdle, LeaveInv, CopyFits, StaleInit

LEMMA IdleBooks == LeaveIdle => LeaveBooks
BY DEF LeaveIdle, LeaveBooks, NoLeave

\* What a handler works from.
LEMMA RequestSeen ==
  ASSUME LeaveInv, NEW r \in Leaves, NEW read \in Seen(r, leave[r]), read.is = "live"
  PROVE  read \in LeaveRow /\ leave[r] \in LeaveRow /\ SameRequest(read, leave[r]) /\ Account(read) = Account(leave[r])
<1>1. CASE read = leave[r]
  BY <1>1, RequestIs DEF SameRequest
<1>2. CASE copy # NoCopy /\ copy[1] = r /\ read = copy[2]
  <2>1. CASE \E s \in Leaves, q \in LeaveRow : copy = <<s, q>> /\ leave[s].is = "live" /\ SameRequest(q, leave[s])
    <3>1. PICK s \in Leaves, q \in LeaveRow : copy = <<s, q>> /\ leave[s].is = "live" /\ SameRequest(q, leave[s])
      BY <2>1
    <3>2. s = r /\ q = read
      BY <1>2, <3>1
    <3> QED BY <3>1, <3>2, RequestIs DEF SameRequest, Account
  <2>2. CASE \E a \in Accounts, b \in BalanceRow : copy = <<a, b>>
    BY <1>2, <2>2, GivenLeave
  <2> QED BY <1>2, <2>1, <2>2 DEF LeaveInv, CopyFits
<1> QED BY <1>1, <1>2 DEF Seen

LEMMA BalanceSeen ==
  ASSUME LeaveInv, NEW a \in Accounts, balance[a].is = "live", NEW read \in Seen(a, balance[a])
  PROVE  read \in BalanceRow
<1>1. CASE read = balance[a]
  BY <1>1, BalanceIs
<1>2. CASE copy # NoCopy /\ copy[1] = a /\ read = copy[2]
  <2>1. CASE \E s \in Leaves, q \in LeaveRow : copy = <<s, q>> /\ leave[s].is = "live" /\ SameRequest(q, leave[s])
    BY <1>2, <2>1, GivenLeave
  <2>2. CASE \E e \in Accounts, b \in BalanceRow : copy = <<e, b>>
    BY <1>2, <2>2
  <2> QED BY <1>2, <2>1, <2>2 DEF LeaveInv, CopyFits
<1> QED BY <1>1, <1>2 DEF Seen

LEMMA CopyStays ==
  ASSUME LeaveInv, copy' = copy \/ copy' = NoCopy,
         \A r \in Leaves : leave[r].is = "live" => leave'[r].is = "live" /\ SameRequest(leave[r], leave'[r])
  PROVE  CopyFits'
<1> SUFFICES ASSUME copy' = copy, copy # NoCopy PROVE CopyFits'
  BY DEF CopyFits
<1>1. CASE \E s \in Leaves, q \in LeaveRow : copy = <<s, q>> /\ leave[s].is = "live" /\ SameRequest(q, leave[s])
  <2>1. PICK s \in Leaves, q \in LeaveRow : copy = <<s, q>> /\ leave[s].is = "live" /\ SameRequest(q, leave[s])
    BY <1>1
  <2>2. leave'[s].is = "live" /\ SameRequest(q, leave'[s])
    BY <2>1 DEF SameRequest
  <2> QED BY <2>1, <2>2 DEF CopyFits
<1>2. CASE \E a \in Accounts, b \in BalanceRow : copy = <<a, b>>
  BY <1>2 DEF CopyFits
<1> QED BY <1>1, <1>2 DEF LeaveInv, CopyFits

\* An account that a step does not charge.
LEMMA ChargeStays ==
  ASSUME LeaveInv, NEW a \in Accounts, balance'[a] = balance[a], Against(a) \subseteq Against(a)',
         spoiled \subseteq spoiled', \A r \in Against(a) : leave'[r].untracked = leave[r].untracked,
         Taken(a)' = Taken(a), \A r \in Taken(a) : leave'[r].days = leave[r].days
  PROVE  Charged(a)'
<1>0. Charged(a)
  BY DEF LeaveInv
<1>1. Whole(a)' => Whole(a)
  BY DEF Whole
<1>2. SumFunctionOnSet(DaysOf', Taken(a)) = SumFunctionOnSet(DaysOf, Taken(a))
  <2>1. PICK f, g : f = DaysOf /\ g = DaysOf'
    OBVIOUS
  <2>2. \A r \in Taken(a) : f[r] = g[r]
    BY <2>1, AgainstIs DEF DaysOf
  <2> QED BY <2>1, <2>2, AgainstIs, SumSame
<1>3. Whole(a)' => Remaining(balance'[a]) >= 0 /\ balance'[a].used = SumFunctionOnSet(DaysOf', Taken(a)')
  BY <1>0, <1>1, <1>2 DEF Charged
<1>4. balance'[a].is # "live" => \A r \in Taken(a)' : leave'[r].untracked
  BY <1>0, AgainstIs DEF Charged
<1> QED BY <1>3, <1>4 DEF Charged

\* A request moves on; what it says of whom and when stays.
LEMMA RequestMoves ==
  ASSUME LeaveInv, NEW r \in Leaves, leave[r] \in LeaveRow, NEW q \in LeaveRow, SameRequest(leave[r], q),
         leave' = [leave EXCEPT ![r] = q]
  PROVE  /\ leave' \in [Leaves -> {NoLeave} \cup LeaveRow] /\ MadeRequests' = MadeRequests
         /\ leave'[r] = q /\ \A s \in Leaves \ {r} : leave'[s] = leave[s]
         /\ \A s \in Leaves : leave[s].is = "live" => leave'[s].is = "live" /\ SameRequest(leave[s], leave'[s])
         /\ \A a \in Accounts : Against(a)' = Against(a)
         /\ \A a \in Accounts : a # Account(q) => Taken(a)' = Taken(a) /\ r \notin Against(a)
         /\ r \in Against(Account(q)) /\ Account(q) = Account(leave[r])
         /\ Taken(Account(q))' = IF q.status = "APPROVED" THEN Taken(Account(q)) \cup {r} ELSE Taken(Account(q)) \ {r}
<1>1. leave \in [Leaves -> {NoLeave} \cup LeaveRow]
  BY DEF LeaveInv, LeaveFits
<1>2. leave' \in [Leaves -> {NoLeave} \cup LeaveRow] /\ leave'[r] = q /\ \A s \in Leaves \ {r} : leave'[s] = leave[s]
  BY <1>1
<1>3. q.is = "live" /\ leave[r].is = "live" /\ Account(q) = Account(leave[r])
  BY DEF LeaveRow, SameRequest, Account
<1>4. MadeRequests' = MadeRequests
  BY <1>2, <1>3 DEF MadeRequests
<1>5. \A s \in Leaves : leave[s].is = "live" => leave'[s].is = "live" /\ SameRequest(leave[s], leave'[s])
  BY <1>2, <1>3 DEF SameRequest
<1>6. ASSUME NEW a \in Accounts PROVE Against(a)' = Against(a)
  <2>1. \A s \in Leaves \ {r} : Account(leave'[s]) = Account(leave[s])
    BY <1>2
  <2>2. Account(leave'[r]) = Account(leave[r])
    BY <1>2, <1>3
  <2>3. Against(a) = {s \in Leaves : leave[s].is = "live" /\ Account(leave[s]) = a}
    BY DEF Against
  <2>4. Against(a)' = {s \in Leaves : leave'[s].is = "live" /\ Account(leave'[s]) = a}
    BY DEF Against, Account
  <2> QED BY <1>2, <1>3, <2>1, <2>2, <2>3, <2>4
<1>7. ASSUME NEW a \in Accounts
      PROVE  /\ a # Account(q) => Taken(a)' = Taken(a) /\ r \notin Against(a)
             /\ a = Account(q) => r \in Against(a)
             /\ a = Account(q) => Taken(a)' = IF q.status = "APPROVED" THEN Taken(a) \cup {r} ELSE Taken(a) \ {r}
  <2>1. Taken(a) = {s \in Against(a) : leave[s].status = "APPROVED"}
    BY DEF Taken, Approved
  <2>2. Taken(a)' = {s \in Against(a) : leave'[s].status = "APPROVED"}
    BY <1>6 DEF Taken, Approved
  <2>3. r \in Against(a) <=> a = Account(q)
    BY <1>3 DEF Against
  <2>4. Against(a) \subseteq Leaves
    BY DEF Against
  <2> QED BY <1>2, <2>1, <2>2, <2>3, <2>4
<1>8. Account(q) \in Accounts
  BY AccountIs
<1>9. r \in Against(Account(q))
  BY <1>7, <1>8
<1>10. Taken(Account(q))' = IF q.status = "APPROVED" THEN Taken(Account(q)) \cup {r} ELSE Taken(Account(q)) \ {r}
  <2>1. PICK a \in Accounts : a = Account(q)
    BY <1>8
  <2>2. Taken(a)' = IF q.status = "APPROVED" THEN Taken(a) \cup {r} ELSE Taken(a) \ {r}
    BY <1>7, <2>1
  <2>3. Taken(Account(q))' = Taken(a)'
    BY <1>6, <2>1 DEF Taken, Against
  <2> QED BY <2>1, <2>2, <2>3
<1> QED BY <1>2, <1>3, <1>4, <1>5, <1>6, <1>7, <1>9, <1>10

\* A request that is not approved any more, its balance left alone: it never was, nothing was taken,
\* or the request is spoiled.
LEMMA StatusKeeps ==
  ASSUME LeaveInv, NEW r \in Leaves, leave[r] \in LeaveRow, NEW q \in LeaveRow, SameRequest(leave[r], q),
         leave' = [leave EXCEPT ![r] = q], UNCHANGED <<leaveType, balance>>, q.status \notin {"PENDING", "APPROVED"},
         q.untracked = leave[r].untracked, spoiled \subseteq spoiled', copy' = copy \/ copy' = NoCopy,
         r \in spoiled' \/ leave[r].status # "APPROVED" \/ balance[Account(q)].is # "live"
  PROVE  LeaveInv'
<1>1. /\ leave' \in [Leaves -> {NoLeave} \cup LeaveRow] /\ MadeRequests' = MadeRequests
      /\ leave'[r] = q /\ \A s \in Leaves \ {r} : leave'[s] = leave[s]
      /\ \A s \in Leaves : leave[s].is = "live" => leave'[s].is = "live" /\ SameRequest(leave[s], leave'[s])
      /\ \A a \in Accounts : Against(a)' = Against(a)
      /\ \A a \in Accounts : a # Account(q) => Taken(a)' = Taken(a) /\ r \notin Against(a)
      /\ r \in Against(Account(q)) /\ Account(q) = Account(leave[r])
      /\ Taken(Account(q))' = IF q.status = "APPROVED" THEN Taken(Account(q)) \cup {r} ELSE Taken(Account(q)) \ {r}
  BY RequestMoves
<1>2. LeaveFits'
  BY <1>1 DEF LeaveInv, LeaveFits
<1>3. CopyFits'
  BY <1>1, CopyStays
<1>4. StillTracked'
  BY <1>1 DEF LeaveInv, StillTracked
<1>5. \A s \in Leaves : leave'[s].untracked = leave[s].untracked /\ (leave[s].is = "live" => leave'[s].days = leave[s].days)
  BY <1>1 DEF SameRequest
<1>6. ASSUME NEW a \in Accounts PROVE Charged(a)'
  <2>1. /\ Against(a)' = Against(a) /\ Against(a) \subseteq Leaves /\ balance'[a] = balance[a] /\ Charged(a)
        /\ \A s \in Taken(a) : s \in Against(a) /\ leave[s].is = "live"
    BY <1>1, AgainstIs DEF LeaveInv, Taken, Against
  <2>2. CASE Taken(a)' = Taken(a)
    BY <1>5, <2>1, <2>2, ChargeStays
  <2>3. CASE Taken(a)' # Taken(a)
    <3>1. a = Account(q)
      BY <1>1, <2>3
    <3>2. Taken(a)' = Taken(a) \ {r} /\ r \in Against(a)
      BY <1>1, <3>1
    <3>3. r \in Taken(a)
      BY <2>3, <3>2
    <3>4. leave[r].status = "APPROVED"
      BY <3>3 DEF Taken, Approved
    <3>5. ~Whole(a)'
      <4>1. r \in spoiled' \/ balance'[a].is # "live"
        BY <2>1, <3>1, <3>4
      <4> QED BY <2>1, <3>2, <4>1 DEF Whole
    <3>6. balance'[a].is # "live" => \A s \in Taken(a)' : leave'[s].untracked
      BY <1>5, <2>1, <3>2 DEF Charged
    <3> QED BY <3>5, <3>6 DEF Charged
  <2> QED BY <2>2, <2>3
<1> QED BY <1>2, <1>3, <1>4, <1>6 DEF LeaveInv

LEMMA RejectKeeps ==
  ASSUME LeaveInv, NEW r \in Leaves, NEW read \in Seen(r, leave[r]), Reject(r, read)
  PROVE  LeaveInv'
<1>1. read.is = "live" /\ read.status = "PENDING" /\ Worked(r, leave[r], read) /\ UNCHANGED <<leaveType, balance>>
  BY DEF Reject
<1>2. leave[r] \in LeaveRow
  BY <1>1, RequestSeen
<1>3. PICK q : q = [leave[r] EXCEPT !.status = "REJECTED"]
  OBVIOUS
<1>4. q \in LeaveRow /\ SameRequest(leave[r], q) /\ q.status = "REJECTED" /\ q.untracked = leave[r].untracked
  BY <1>2, <1>3 DEF LeaveRow, SameRequest
<1>5. leave' = [leave EXCEPT ![r] = q]
  BY <1>3 DEF Reject
<1>6. /\ spoiled \subseteq spoiled' /\ (copy' = copy \/ copy' = NoCopy)
      /\ r \in spoiled' \/ leave[r].status # "APPROVED"
  BY <1>1 DEF Worked
<1> QED BY <1>1, <1>2, <1>4, <1>5, <1>6, StatusKeeps

LEMMA LargerIs ==
  ASSUME NEW x \in Int
  PROVE  Max({0, x}) \in Nat /\ (x >= 0 => Max({0, x}) = x)
<1>1. PICK y \in {0, x} : \A z \in {0, x} : y >= z
  <2>1. CASE x >= 0
    <3>1. \A z \in {0, x} : x >= z
      BY <2>1
    <3> QED BY <3>1
  <2>2. CASE x < 0
    <3>1. \A z \in {0, x} : 0 >= z
      BY <2>2
    <3> QED BY <3>1
  <2> QED BY <2>1, <2>2
<1>2. Max({0, x}) \in {0, x} /\ \A z \in {0, x} : Max({0, x}) >= z
  BY <1>1, Zenon DEF Max
<1> QED BY <1>2

LEMMA SmallerIs ==
  ASSUME NEW x \in Int, NEW y \in Int
  PROVE  Min({x, y}) \in Int
<1>1. PICK u \in {x, y} : \A z \in {x, y} : u <= z
  <2>1. CASE x <= y
    <3>1. \A z \in {x, y} : x <= z
      BY <2>1
    <3> QED BY <3>1
  <2>2. CASE y <= x
    <3>1. \A z \in {x, y} : y <= z
      BY <2>2
    <3> QED BY <3>1
  <2> QED BY <2>1, <2>2
<1>2. Min({x, y}) \in {x, y}
  BY <1>1, Zenon DEF Min
<1> QED BY <1>2

LEMMA ApproveKeeps ==
  ASSUME LeaveInv, NEW r \in Leaves, Approve(r)
  PROVE  LeaveInv'
<1>1. leave[r] \in LeaveRow /\ leave[r].status = "PENDING" /\ leave[r].is = "live" /\ ~leave[r].untracked
  BY RequestIs DEF Approve, LeaveInv, StillTracked
<1>2. PICK b \in Accounts : b = Account(leave[r])
  BY <1>1, AccountIs
<1>3. PICK n \in Nat : n = leave[r].days
  BY <1>1 DEF LeaveRow
<1>4. PICK bare \in BOOLEAN : bare = (balance[b].is # "live")
  OBVIOUS
<1>5. PICK q : q = [leave[r] EXCEPT !.status = "APPROVED", !.untracked = bare]
  OBVIOUS
<1>6. q \in LeaveRow /\ SameRequest(leave[r], q) /\ q.status = "APPROVED" /\ q.untracked = bare
  BY <1>1, <1>5 DEF LeaveRow, SameRequest
<1>7. /\ Covered(n, leave[r].type, balance[b])
      /\ leave' = [leave EXCEPT ![r].status = "APPROVED", ![r].untracked = bare]
      /\ balance' = IF balance[b].is = "live" THEN [balance EXCEPT ![b].used = @ + n] ELSE balance
      /\ UNCHANGED <<leaveType, copy, spoiled>>
  BY <1>2, <1>3, <1>4 DEF Approve
<1>8. leave' = [leave EXCEPT ![r] = q]
  BY <1>5, <1>7 DEF LeaveInv, LeaveFits
<1>9. Account(q) = b
  BY <1>2, <1>6 DEF SameRequest, Account
<1>10. /\ leave' \in [Leaves -> {NoLeave} \cup LeaveRow] /\ MadeRequests' = MadeRequests
       /\ leave'[r] = q /\ \A s \in Leaves \ {r} : leave'[s] = leave[s]
       /\ \A s \in Leaves : leave[s].is = "live" => leave'[s].is = "live" /\ SameRequest(leave[s], leave'[s])
       /\ \A a \in Accounts : Against(a)' = Against(a)
       /\ \A a \in Accounts : a # b => Taken(a)' = Taken(a) /\ r \notin Against(a)
       /\ r \in Against(b) /\ Taken(b)' = Taken(b) \cup {r}
  <2>1. /\ leave' \in [Leaves -> {NoLeave} \cup LeaveRow] /\ MadeRequests' = MadeRequests
        /\ leave'[r] = q /\ \A s \in Leaves \ {r} : leave'[s] = leave[s]
        /\ \A s \in Leaves : leave[s].is = "live" => leave'[s].is = "live" /\ SameRequest(leave[s], leave'[s])
        /\ \A a \in Accounts : Against(a)' = Against(a)
        /\ \A a \in Accounts : a # Account(q) => Taken(a)' = Taken(a) /\ r \notin Against(a)
        /\ r \in Against(Account(q)) /\ Account(q) = Account(leave[r])
        /\ Taken(Account(q))' = IF q.status = "APPROVED" THEN Taken(Account(q)) \cup {r} ELSE Taken(Account(q)) \ {r}
    BY <1>1, <1>6, <1>8, RequestMoves
  <2>2. Taken(Account(q))' = Taken(b)'
    BY <1>9, <2>1 DEF Taken, Against
  <2> QED BY <1>6, <1>9, <2>1, <2>2
<1>11. balance' \in [Accounts -> {NoLeave} \cup BalanceRow]
  <2>1. CASE balance[b].is = "live"
    <3>1. PICK e : e = [balance[b] EXCEPT !.used = balance[b].used + n]
      OBVIOUS
    <3>2. e \in BalanceRow
      BY <2>1, <3>1, BalanceIs DEF BalanceRow
    <3>3. balance' = [balance EXCEPT ![b] = e]
      BY <1>7, <2>1, <3>1 DEF LeaveInv, LeaveFits
    <3> QED BY <3>2, <3>3 DEF LeaveInv, LeaveFits
  <2>2. CASE balance[b].is # "live"
    BY <1>7, <2>2 DEF LeaveInv, LeaveFits
  <2> QED BY <2>1, <2>2
<1>12. LeaveFits'
  BY <1>7, <1>10, <1>11 DEF LeaveInv, LeaveFits
<1>13. CopyFits'
  BY <1>7, <1>10, CopyStays
<1>14. StillTracked'
  BY <1>6, <1>10 DEF LeaveInv, StillTracked
<1>15. ASSUME NEW a \in Accounts, a # b PROVE Charged(a)'
  <2>1. balance'[a] = balance[a] /\ Against(a)' = Against(a) /\ Taken(a)' = Taken(a) /\ r \notin Against(a)
    BY <1>7, <1>10, <1>15 DEF LeaveInv, LeaveFits
  <2>2. \A s \in Against(a) : leave'[s] = leave[s]
    BY <1>10, <2>1, AgainstIs
  <2>3. Taken(a) \subseteq Against(a) /\ spoiled \subseteq spoiled'
    BY <1>7, AgainstIs
  <2> QED BY <2>1, <2>2, <2>3, ChargeStays
<1>16. Charged(b)'
  <2>1. CASE balance[b].is = "live"
    <3>1. balance[b] \in BalanceRow /\ balance'[b] = [balance[b] EXCEPT !.used = balance[b].used + n]
      BY <1>7, <2>1, BalanceIs DEF LeaveInv, LeaveFits
    <3>2. PICK most, used, kept \in Nat : most = balance[b].allocated /\ used = balance[b].used /\ kept = balance[b].carried
      BY <3>1 DEF BalanceRow
    <3>3. /\ balance'[b].is = "live" /\ balance'[b].used = used + n
          /\ balance'[b].allocated = most /\ balance'[b].carried = kept
      BY <3>1, <3>2 DEF BalanceRow
    <3>4. n <= most + kept - used
      BY <1>7, <2>1, <3>2 DEF Covered, Remaining
    <3>5. Remaining(balance'[b]) >= 0
      BY <3>2, <3>3, <3>4 DEF Remaining
    <3>6. Whole(b)' => Whole(b)
      <4>1. \A s \in Against(b) : leave'[s].untracked \/ ~leave[s].untracked
        BY <1>1, <1>10, AgainstIs
      <4>2. \A s \in Against(b) : ~leave'[s].untracked => ~leave[s].untracked
        BY <4>1
      <4> QED BY <1>7, <1>10, <2>1, <4>2 DEF Whole
    <3>7. r \notin Taken(b) /\ IsFiniteSet(Taken(b)) /\ \A s \in Taken(b) : DaysOf[s] \in Nat
      BY <1>1, AgainstIs DEF Taken, Approved
    <3>8. SumFunctionOnSet(DaysOf', Taken(b) \cup {r}) = n + SumFunctionOnSet(DaysOf, Taken(b))
      <4>1. PICK f, g : f = DaysOf /\ g = DaysOf'
        OBVIOUS
      <4>2. \A s \in Taken(b) : g[s] = f[s] /\ g[s] \in Int
        BY <1>10, <3>7, <4>1, AgainstIs DEF DaysOf
      <4>3. g[r] = n
        BY <1>3, <1>6, <1>10, <4>1 DEF DaysOf, SameRequest
      <4>4. SumFunctionOnSet(g, Taken(b) \cup {r}) = g[r] + SumFunctionOnSet(g, Taken(b))
        BY <3>7, <4>2, <4>3, SumGains
      <4>5. SumFunctionOnSet(g, Taken(b)) = SumFunctionOnSet(f, Taken(b))
        BY <3>7, <4>2, SumSame
      <4> QED BY <4>1, <4>3, <4>4, <4>5
    <3>9. Whole(b)' => balance'[b].used = SumFunctionOnSet(DaysOf', Taken(b)')
      <4> SUFFICES ASSUME Whole(b)' PROVE balance'[b].used = SumFunctionOnSet(DaysOf', Taken(b)')
        OBVIOUS
      <4>1. used = SumFunctionOnSet(DaysOf, Taken(b))
        BY <3>2, <3>6 DEF LeaveInv, Charged
      <4>2. Taken(b)' = Taken(b) \cup {r}
        BY <1>10
      <4> QED BY <3>2, <3>3, <3>8, <4>1, <4>2
    <3> QED BY <3>3, <3>5, <3>9 DEF Charged
  <2>2. CASE balance[b].is # "live"
    <3>1. balance' = balance /\ q.untracked
      BY <1>4, <1>6, <1>7, <2>2
    <3>2. \A s \in Taken(b) : leave[s].untracked /\ s \in Leaves
      BY <2>2, AgainstIs DEF LeaveInv, Charged
    <3>3. \A s \in Taken(b)' : leave'[s].untracked
      BY <1>10, <3>1, <3>2
    <3> QED BY <2>2, <3>1, <3>3 DEF Charged, Whole
  <2> QED BY <2>1, <2>2
<1>17. \A a \in Accounts : Charged(a)'
  BY <1>15, <1>16
<1> QED BY <1>12, <1>13, <1>14, <1>17 DEF LeaveInv

LEMMA CancelKeeps ==
  ASSUME LeaveInv, NEW r \in Leaves, NEW gone \in Seen(r, leave[r]), gone.is = "live",
         NEW read \in Seen(Account(gone), balance[Account(gone)]), Cancel(r, gone, read)
  PROVE  LeaveInv'
<1>1. gone \in LeaveRow /\ leave[r] \in LeaveRow /\ SameRequest(gone, leave[r]) /\ Account(gone) = Account(leave[r])
  BY RequestSeen
<1>2. PICK b \in Accounts : b = Account(leave[r]) /\ b = Account(gone)
  BY <1>1, AccountIs
<1>3. PICK q : q = [leave[r] EXCEPT !.status = "CANCELED"]
  OBVIOUS
<1>4. q \in LeaveRow /\ SameRequest(leave[r], q) /\ q.status = "CANCELED" /\ q.untracked = leave[r].untracked
  BY <1>1, <1>3 DEF LeaveRow, SameRequest
<1>5. Account(q) = b
  BY <1>2, <1>4 DEF SameRequest, Account
<1>6. /\ leave' = [leave EXCEPT ![r] = q] /\ UNCHANGED leaveType /\ gone.status \in {"PENDING", "APPROVED"}
      /\ IF gone.status = "APPROVED" /\ balance[b].is = "live"
           THEN /\ balance' = [balance EXCEPT ![b].used = Max({0, read.used - gone.days})]
                /\ IF gone # leave[r] THEN Worked(r, leave[r], gone) ELSE Worked(b, balance[b], read)
           ELSE Worked(r, leave[r], gone) /\ UNCHANGED balance
  BY <1>2, <1>3 DEF Cancel, Standing
<1>7. CASE ~(gone.status = "APPROVED" /\ balance[b].is = "live")
  <2>1. /\ spoiled \subseteq spoiled' /\ (copy' = copy \/ copy' = NoCopy)
        /\ gone # leave[r] => r \in spoiled'
        /\ UNCHANGED balance
    BY <1>6, <1>7 DEF Worked
  <2>2. r \in spoiled' \/ leave[r].status # "APPROVED" \/ balance[Account(q)].is # "live"
    BY <1>5, <1>7, <2>1
  <2> QED BY <1>1, <1>4, <1>6, <2>1, <2>2, StatusKeeps
<1>8. CASE gone.status = "APPROVED" /\ balance[b].is = "live"
  <2>1. balance[b] \in BalanceRow /\ read \in BalanceRow
    BY <1>2, <1>8, BalanceIs, BalanceSeen
  <2>2. PICK n, was, used, most, kept \in Nat :
          /\ n = gone.days /\ n = leave[r].days /\ was = read.used
          /\ used = balance[b].used /\ most = balance[b].allocated /\ kept = balance[b].carried
    BY <1>1, <2>1 DEF LeaveRow, BalanceRow, SameRequest
  <2>3. PICK left \in Nat : left = Max({0, was - n}) /\ (was - n >= 0 => left = was - n)
    BY LargerIs
  <2>4. PICK e : e = [balance[b] EXCEPT !.used = left]
    OBVIOUS
  <2>5. e \in BalanceRow /\ e.is = "live" /\ e.used = left /\ e.allocated = most /\ e.carried = kept
    BY <2>1, <2>2, <2>4 DEF BalanceRow
  <2>6. balance \in [Accounts -> {NoLeave} \cup BalanceRow] /\ balance' = [balance EXCEPT ![b] = e]
    BY <1>6, <1>8, <2>2, <2>3, <2>4 DEF LeaveInv, LeaveFits
  <2>7. /\ spoiled \subseteq spoiled' /\ (copy' = copy \/ copy' = NoCopy)
        /\ gone # leave[r] => r \in spoiled'
        /\ gone = leave[r] /\ read # balance[b] => b \in spoiled'
    BY <1>6, <1>8 DEF Worked
  <2>8. /\ leave' \in [Leaves -> {NoLeave} \cup LeaveRow] /\ MadeRequests' = MadeRequests
        /\ leave'[r] = q /\ \A s \in Leaves \ {r} : leave'[s] = leave[s]
        /\ \A s \in Leaves : leave[s].is = "live" => leave'[s].is = "live" /\ SameRequest(leave[s], leave'[s])
        /\ \A a \in Accounts : Against(a)' = Against(a)
        /\ \A a \in Accounts : a # b => Taken(a)' = Taken(a) /\ r \notin Against(a)
        /\ r \in Against(b) /\ Taken(b)' = Taken(b) \ {r}
    <3>1. /\ leave' \in [Leaves -> {NoLeave} \cup LeaveRow] /\ MadeRequests' = MadeRequests
          /\ leave'[r] = q /\ \A s \in Leaves \ {r} : leave'[s] = leave[s]
          /\ \A s \in Leaves : leave[s].is = "live" => leave'[s].is = "live" /\ SameRequest(leave[s], leave'[s])
          /\ \A a \in Accounts : Against(a)' = Against(a)
          /\ \A a \in Accounts : a # Account(q) => Taken(a)' = Taken(a) /\ r \notin Against(a)
          /\ r \in Against(Account(q)) /\ Account(q) = Account(leave[r])
          /\ Taken(Account(q))' = IF q.status = "APPROVED" THEN Taken(Account(q)) \cup {r} ELSE Taken(Account(q)) \ {r}
      BY <1>1, <1>4, <1>6, RequestMoves
    <3>2. Taken(Account(q))' = Taken(b)'
      BY <1>5, <3>1 DEF Taken, Against
    <3> QED BY <1>4, <1>5, <3>1, <3>2
  <2>9. LeaveFits'
    BY <1>6, <2>5, <2>6, <2>8 DEF LeaveInv, LeaveFits
  <2>10. CopyFits'
    BY <2>7, <2>8, CopyStays
  <2>11. StillTracked'
    BY <1>4, <2>8 DEF LeaveInv, StillTracked
  <2>12. ASSUME NEW a \in Accounts, a # b PROVE Charged(a)'
    <3>1. balance'[a] = balance[a] /\ Against(a)' = Against(a) /\ Taken(a)' = Taken(a) /\ r \notin Against(a)
      BY <2>6, <2>8, <2>12
    <3>2. \A s \in Against(a) : leave'[s] = leave[s]
      BY <2>8, <3>1, AgainstIs
    <3>3. Taken(a) \subseteq Against(a)
      BY AgainstIs
    <3> QED BY <2>7, <3>1, <3>2, <3>3, ChargeStays
  <2>13. Charged(b)'
    <3>1. balance'[b] = e
      BY <2>6
    <3>2. SUFFICES ASSUME Whole(b)'
                   PROVE  Remaining(balance'[b]) >= 0 /\ balance'[b].used = SumFunctionOnSet(DaysOf', Taken(b)')
      BY <2>5, <3>1 DEF Charged
    <3>3. gone = leave[r] /\ read = balance[b]
      BY <2>7, <2>8, <3>2 DEF Whole
    <3>4. Whole(b)
      <4>1. \A s \in Against(b) : leave'[s].untracked = leave[s].untracked
        BY <1>4, <2>8, AgainstIs
      <4> QED BY <1>8, <2>7, <2>8, <3>2, <4>1 DEF Whole
    <3>5. used = SumFunctionOnSet(DaysOf, Taken(b)) /\ most + kept - used >= 0
      BY <2>2, <3>4 DEF LeaveInv, Charged, Remaining
    <3>6. r \in Taken(b) /\ IsFiniteSet(Taken(b)) /\ \A s \in Taken(b) : DaysOf[s] \in Nat
      BY <1>8, <2>8, <3>3, AgainstIs DEF Taken, Approved
    <3>7. PICK rest \in Nat : rest = SumFunctionOnSet(DaysOf, Taken(b) \ {r})
      <4>1. IsFiniteSet(Taken(b) \ {r})
        BY <3>6, FS_Subset
      <4> QED BY <3>6, <4>1, SumIsNat
    <3>8. used = n + rest
      <4>1. SumFunctionOnSet(DaysOf, Taken(b)) = DaysOf[r] + SumFunctionOnSet(DaysOf, Taken(b) \ {r})
        BY <3>6, SumTakes
      <4>2. DaysOf[r] = n
        BY <2>2 DEF DaysOf
      <4> QED BY <3>5, <3>7, <4>1, <4>2
    <3>9. left = rest
      BY <2>2, <2>3, <3>3, <3>8
    <3>10. SumFunctionOnSet(DaysOf', Taken(b) \ {r}) = rest
      <4>1. PICK f, g : f = DaysOf /\ g = DaysOf'
        OBVIOUS
      <4>2. \A s \in Taken(b) \ {r} : f[s] = g[s]
        BY <2>8, <4>1, AgainstIs DEF DaysOf
      <4>3. IsFiniteSet(Taken(b) \ {r})
        BY <3>6, FS_Subset
      <4>4. SumFunctionOnSet(g, Taken(b) \ {r}) = SumFunctionOnSet(f, Taken(b) \ {r})
        BY <4>2, <4>3, SumSame
      <4> QED BY <3>7, <4>1, <4>4
    <3>11. Remaining(e) >= 0
      BY <2>5, <3>5, <3>8, <3>9 DEF Remaining
    <3> QED BY <2>5, <2>8, <3>1, <3>9, <3>10, <3>11
  <2>14. \A a \in Accounts : Charged(a)'
    BY <2>12, <2>13
  <2> QED BY <2>9, <2>10, <2>11, <2>14 DEF LeaveInv
<1> QED BY <1>7, <1>8

LEMMA CreateRequestKeeps ==
  ASSUME LeaveInv, NEW r \in Leaves, NEW e \in Staff, NEW t \in LeaveTypes, NEW from \in Calendar, NEW to \in Calendar,
         CreateRequest(r, e, t, from, to)
  PROVE  LeaveInv'
<1>1. leave[r] = NoLeave /\ from <= to /\ UNCHANGED <<leaveType, balance, copy, spoiled>>
  BY RequestIs DEF CreateRequest
<1>2. PICK q : q = Asked(e, t, from, to)
  OBVIOUS
<1>3. q \in LeaveRow /\ q.status = "PENDING" /\ q.untracked = FALSE
  <2>1. to - from + 1 \in Nat
    BY <1>1, GivenLeave
  <2> QED BY <1>2, <2>1 DEF Asked, LeaveRow
<1>4. leave' = [leave EXCEPT ![r] = q] /\ leave \in [Leaves -> {NoLeave} \cup LeaveRow]
  BY <1>2 DEF CreateRequest, LeaveInv, LeaveFits
<1>5. leave' \in [Leaves -> {NoLeave} \cup LeaveRow] /\ leave'[r] = q /\ \A s \in Leaves \ {r} : leave'[s] = leave[s]
  BY <1>3, <1>4
<1>6. MadeRequests' = MadeRequests \cup {r}
  BY <1>3, <1>5 DEF MadeRequests, LeaveRow
<1>7. IsFiniteSet(MadeRequests')
  BY <1>6, FS_AddElement DEF LeaveInv, LeaveFits
<1>8. LeaveFits'
  BY <1>1, <1>5, <1>7 DEF LeaveInv, LeaveFits
<1>9. CopyFits'
  BY <1>1, <1>5, CopyStays DEF NoLeave, SameRequest
<1>10. StillTracked'
  BY <1>3, <1>5 DEF LeaveInv, StillTracked
<1>11. ASSUME NEW a \in Accounts PROVE Charged(a)'
  <2>1. Against(a) \subseteq Against(a)' /\ r \notin Against(a) /\ r \notin Taken(a)
    <3>1. \A s \in Against(a) : s \in Leaves \ {r} /\ leave[s].is = "live" /\ Account(leave[s]) = a
      BY <1>1 DEF Against, NoLeave
    <3>2. \A s \in Against(a) : leave'[s].is = "live" /\ Account(leave'[s]) = a
      BY <1>5, <3>1
    <3> QED BY <3>1, <3>2 DEF Against, Taken, Account
  <2>2. Taken(a)' = Taken(a)
    <3>1. Taken(a) = {s \in Leaves : leave[s].is = "live" /\ Account(leave[s]) = a /\ leave[s].status = "APPROVED"}
      BY DEF Taken, Against, Approved
    <3>2. Taken(a)' = {s \in Leaves : leave'[s].is = "live" /\ Account(leave'[s]) = a /\ leave'[s].status = "APPROVED"}
      BY DEF Taken, Against, Approved, Account
    <3>3. ~(leave'[r].status = "APPROVED") /\ ~(leave[r].is = "live")
      BY <1>1, <1>3, <1>5 DEF NoLeave
    <3> QED BY <1>5, <3>1, <3>2, <3>3
  <2>3. \A s \in Against(a) : leave'[s] = leave[s]
    BY <1>5, <2>1, AgainstIs
  <2>4. Taken(a) \subseteq Against(a) /\ balance'[a] = balance[a] /\ spoiled \subseteq spoiled'
    BY <1>1, AgainstIs
  <2> QED BY <2>1, <2>2, <2>3, <2>4, ChargeStays
<1> QED BY <1>8, <1>9, <1>10, <1>11 DEF LeaveInv

\* A step that leaves requests and balances alone.
LEMMA BooksStay ==
  ASSUME LeaveInv, UNCHANGED <<leave, balance, spoiled>>, leaveType' \in [LeaveTypes -> {NoLeave} \cup TypeRow],
         CopyFits'
  PROVE  LeaveInv'
<1>1. LeaveFits' /\ StillTracked'
  BY DEF LeaveInv, LeaveFits, MadeRequests, StillTracked
<1>2. ASSUME NEW a \in Accounts PROVE Charged(a)'
  BY DEF LeaveInv, Charged, Whole, Taken, Against, Approved, DaysOf, Account, Remaining
<1> QED BY <1>1, <1>2 DEF LeaveInv

LEMMA TypesKeep ==
  ASSUME LeaveInv, NEW t \in LeaveTypes, NEW quota \in Quotas,
         \/ \E carry \in Carryovers : CreateType(t, quota, carry)
         \/ \E active \in BOOLEAN : UpdateType(t, quota, active)
  PROVE  LeaveInv'
<1>1. leaveType \in [LeaveTypes -> {NoLeave} \cup TypeRow] /\ quota \in Nat
  BY GivenLeave DEF LeaveInv, LeaveFits
<1>2. leaveType[t].is = "live" => leaveType[t] \in TypeRow
  BY <1>1 DEF NoLeave
<1>3. UNCHANGED <<leave, balance, spoiled, copy>>
  BY DEF CreateType, UpdateType
<1>4. leaveType' \in [LeaveTypes -> {NoLeave} \cup TypeRow]
  <2>1. ASSUME NEW carry \in Carryovers, CreateType(t, quota, carry) PROVE leaveType' \in [LeaveTypes -> {NoLeave} \cup TypeRow]
    <3>1. Type(quota, carry) \in TypeRow
      BY <1>1, GivenLeave DEF Type, TypeRow
    <3> QED BY <1>1, <2>1, <3>1 DEF CreateType
  <2>2. ASSUME NEW active \in BOOLEAN, UpdateType(t, quota, active) PROVE leaveType' \in [LeaveTypes -> {NoLeave} \cup TypeRow]
    <3>1. PICK q : q = [leaveType[t] EXCEPT !.quota = quota, !.active = active]
      OBVIOUS
    <3>2. q \in TypeRow
      BY <1>1, <1>2, <2>2, <3>1 DEF UpdateType, TypeRow
    <3>3. leaveType' = [leaveType EXCEPT ![t] = q]
      BY <1>1, <2>2, <3>1 DEF UpdateType
    <3> QED BY <1>1, <3>2, <3>3
  <2> QED BY <2>1, <2>2
<1>5. CopyFits'
  BY <1>3, CopyStays DEF SameRequest
<1> QED BY <1>3, <1>4, <1>5, BooksStay

LEMMA ReadsKeep ==
  ASSUME LeaveInv, (\E r \in Leaves : ReadRequest(r)) \/ (\E a \in Accounts : ReadBalance(a))
  PROVE  LeaveInv'
<1>1. UNCHANGED <<leaveType, leave, balance, spoiled>> /\ leaveType \in [LeaveTypes -> {NoLeave} \cup TypeRow]
  BY DEF ReadRequest, ReadBalance, Fetch, LeaveInv, LeaveFits
<1>2. CopyFits'
  <2>1. ASSUME NEW r \in Leaves, ReadRequest(r) PROVE CopyFits'
    <3>1. copy' = <<r, leave[r]>> /\ leave[r].is = "live" /\ leave[r] \in LeaveRow
      BY <2>1, RequestIs DEF ReadRequest, Fetch
    <3>2. PICK q \in LeaveRow : q = leave[r] /\ q = leave'[r]
      BY <1>1, <3>1
    <3>3. copy' = <<r, q>> /\ leave'[r].is = "live" /\ SameRequest(q, leave'[r])
      BY <3>1, <3>2 DEF SameRequest
    <3> QED BY <3>3 DEF CopyFits
  <2>2. ASSUME NEW a \in Accounts, ReadBalance(a) PROVE CopyFits'
    <3>1. copy' = <<a, balance[a]>> /\ balance[a] \in BalanceRow
      BY <2>2, BalanceIs DEF ReadBalance, Fetch
    <3>2. PICK b \in BalanceRow : b = balance[a]
      BY <3>1
    <3>3. copy' = <<a, b>>
      BY <3>1, <3>2
    <3> QED BY <3>3 DEF CopyFits
  <2> QED BY <2>1, <2>2
<1> QED BY <1>1, <1>2, BooksStay

\* A new year.
LEMMA CarriedIs ==
  ASSUME LeaveInv, NEW a \in Accounts, leaveType[a[2]] \in TypeRow
  PROVE  CarriedOver(a) \in Nat
<1>1. PICK last : last = <<a[1], a[2], a[3] - 1>>
  OBVIOUS
<1>2. CASE last \in Accounts /\ balance[last].is = "live"
  <2>1. PICK x, y \in Int : x = Remaining(balance[last]) /\ y = leaveType[a[2]].carry
    BY <1>2, BalanceIs DEF Remaining, BalanceRow, TypeRow
  <2>2. PICK z \in Int : z = Min({x, y})
    BY SmallerIs
  <2>3. CarriedOver(a) = Max({0, z})
    BY <1>1, <1>2, <2>1, <2>2 DEF CarriedOver
  <2> QED BY <2>3, LargerIs
<1>3. CASE ~(last \in Accounts /\ balance[last].is = "live")
  BY <1>1, <1>3 DEF CarriedOver
<1> QED BY <1>2, <1>3

LEMMA InitializeKeeps ==
  ASSUME LeaveInv, NEW year, InitializeBalances(year)
  PROVE  LeaveInv'
<1>1. PICK new : new = {a \in Accounts : /\ a[3] = year /\ balance[a].is = "none"
                                          /\ leaveType[a[2]].is = "live" /\ leaveType[a[2]].active}
  OBVIOUS
<1>2. /\ balance' = [a \in Accounts |->
           IF a \in new THEN Allotted(leaveType[a[2]].quota, CarriedOver(a)) ELSE balance[a]]
      /\ UNCHANGED <<leaveType, leave, copy, spoiled>>
  BY <1>1 DEF InitializeBalances
<1>3. leaveType \in [LeaveTypes -> {NoLeave} \cup TypeRow] /\ balance \in [Accounts -> {NoLeave} \cup BalanceRow]
  BY DEF LeaveInv, LeaveFits
<1>4. ASSUME NEW a \in new
      PROVE  \E quota, carried \in Nat : balance'[a] = Allotted(quota, carried)
  <2>1. a \in Accounts /\ leaveType[a[2]].is = "live" /\ a[2] \in LeaveTypes
    BY <1>1 DEF Accounts
  <2>2. leaveType[a[2]] \in TypeRow
    BY <1>3, <2>1 DEF NoLeave
  <2>3. PICK quota, carried \in Nat : quota = leaveType[a[2]].quota /\ carried = CarriedOver(a)
    BY <2>1, <2>2, CarriedIs DEF TypeRow
  <2> QED BY <1>2, <2>1, <2>3
<1>5. \A quota, carried \in Nat : Allotted(quota, carried) \in BalanceRow
  BY DEF Allotted, BalanceRow
<1>6. LeaveFits'
  <2>1. \A a \in Accounts : balance'[a] \in {NoLeave} \cup BalanceRow
    BY <1>2, <1>3, <1>4, <1>5
  <2>2. balance' = [a \in Accounts |-> balance'[a]]
    BY <1>2
  <2> QED BY <1>2, <2>1, <2>2 DEF LeaveInv, LeaveFits, MadeRequests
<1>7. CopyFits'
  BY <1>2, CopyStays DEF SameRequest
<1>8. StillTracked'
  BY <1>2 DEF LeaveInv, StillTracked
<1>9. ASSUME NEW a \in Accounts PROVE Charged(a)'
  <2>0. /\ Against(a)' = Against(a) /\ Taken(a)' = Taken(a) /\ Taken(a) \subseteq Against(a)
        /\ \A r \in Against(a) : leave'[r] = leave[r]
    BY <1>2, AgainstIs DEF Against, Taken, Approved, Account
  <2>1. CASE a \in new
    <3>1. PICK quota, carried \in Nat : balance'[a] = Allotted(quota, carried)
      BY <1>4, <2>1
    <3>2. balance'[a].is = "live" /\ Remaining(balance'[a]) = quota + carried /\ balance'[a].used = 0
      BY <3>1 DEF Allotted, Remaining
    <3>3. balance[a].is # "live"
      BY <1>1, <2>1
    <3>4. Whole(a)' => Taken(a) = {}
      <4>1. \A r \in Taken(a) : leave[r].untracked
        BY <3>3 DEF LeaveInv, Charged
      <4> QED BY <2>0, <4>1 DEF Whole
    <3>5. SumFunctionOnSet(DaysOf', {}) = 0
      BY SumOfNone
    <3> QED BY <2>0, <3>2, <3>4, <3>5 DEF Charged
  <2>2. CASE a \notin new
    <3>1. balance'[a] = balance[a] /\ spoiled \subseteq spoiled'
      BY <1>2, <2>2
    <3> QED BY <2>0, <3>1, ChargeStays
  <2> QED BY <2>1, <2>2
<1> QED BY <1>6, <1>7, <1>8, <1>9 DEF LeaveInv

LEMMA LeaveKeeps ==
  ASSUME LeaveInv, LeaveNext
  PROVE  LeaveInv'
<1>1. ASSUME NEW t \in LeaveTypes, NEW quota \in Quotas,
             \/ \E carry \in Carryovers : CreateType(t, quota, carry)
             \/ \E active \in BOOLEAN : UpdateType(t, quota, active)
      PROVE  LeaveInv'
  BY <1>1, TypesKeep
<1>2. ASSUME NEW t \in LeaveTypes, DeleteType(t) PROVE LeaveInv'
  <2>1. leaveType \in [LeaveTypes -> {NoLeave} \cup TypeRow] /\ UNCHANGED <<leave, balance, spoiled, copy>>
    BY <1>2 DEF DeleteType, LeaveInv, LeaveFits
  <2>2. leaveType[t] \in TypeRow
    BY <1>2, <2>1 DEF DeleteType, NoLeave
  <2>3. PICK q : q = [leaveType[t] EXCEPT !.active = FALSE]
    OBVIOUS
  <2>4. q \in TypeRow
    BY <2>2, <2>3 DEF TypeRow
  <2>5. leaveType' = [leaveType EXCEPT ![t] = q]
    BY <1>2, <2>1, <2>3 DEF DeleteType
  <2>6. CopyFits'
    BY <2>1, CopyStays DEF SameRequest
  <2> QED BY <2>1, <2>4, <2>5, <2>6, BooksStay
<1>3. ASSUME NEW year \in Years, InitializeBalances(year) PROVE LeaveInv'
  BY <1>3, InitializeKeeps
<1>4. ASSUME NEW r \in Leaves, NEW e \in Staff, NEW t \in LeaveTypes, NEW from \in Calendar, NEW to \in Calendar,
             CreateRequest(r, e, t, from, to)
      PROVE  LeaveInv'
  BY <1>4, CreateRequestKeeps
<1>5. ASSUME NEW r \in Leaves, Approve(r) PROVE LeaveInv'
  BY <1>5, ApproveKeeps
<1>6. ASSUME NEW r \in Leaves, NEW gone \in Seen(r, leave[r]),
             \/ Reject(r, gone)
             \/ /\ gone.is = "live"
                /\ \E read \in Seen(Account(gone), balance[Account(gone)]) : Cancel(r, gone, read)
      PROVE  LeaveInv'
  BY <1>6, RejectKeeps, CancelKeeps
<1>7. ASSUME (\E r \in Leaves : ReadRequest(r)) \/ (\E a \in Accounts : ReadBalance(a)) PROVE LeaveInv'
  BY <1>7, ReadsKeep
<1> QED BY <1>1, <1>2, <1>3, <1>4, <1>5, <1>6, <1>7 DEF LeaveNext
-----------------------------------------------------------------------------
(* Discounts: what a code takes off                                        *)

DishLines == [Dishes -> Nat]

LEMMA GivenDiscounts ==
  /\ IsFiniteSet(Codes) /\ IsFiniteSet(Bills) /\ IsFiniteSet(Dishes)
  /\ FirstKind \in Kinds /\ \A c \in DOMAIN Printed : Printed[c] \in TermRow
  /\ \A c \in Codes : Offers[c] \subseteq TermRow
  /\ Price \in [Dishes -> Nat] /\ Baskets \subseteq DishLines
BY DiscountAssumption DEF DishLines

LEMMA LesserIs ==
  ASSUME NEW x \in Int, NEW y \in Int
  PROVE  Smaller(x, y) \in Int /\ Smaller(x, y) <= x /\ Smaller(x, y) <= y /\ Smaller(x, y) \in {x, y}
BY DEF Smaller

LEMMA GreaterIs ==
  ASSUME NEW x \in Int, NEW y \in Int
  PROVE  Larger(x, y) \in Int /\ Larger(x, y) >= x /\ Larger(x, y) >= y /\ Larger(x, y) \in {x, y}
BY DEF Larger

LEMMA WorthIs ==
  ASSUME NEW lines \in DishLines
  PROVE  Worth(lines) \in Nat /\ Pieces(lines) \in Nat
<1>1. IsFiniteSet(Dishes) /\ \A p \in Dishes : lines[p] \in Nat /\ Price[p] \in Nat
  BY GivenDiscounts DEF DishLines
<1>2. \A x, y \in Nat : x * y \in Nat
  OBVIOUS
<1>3. Worth(lines) \in Nat
  <2>1. PICK f : f = [p \in Dishes |-> Price[p] * lines[p]]
    OBVIOUS
  <2>2. DOMAIN f = Dishes /\ \A p \in Dishes : f[p] \in Nat
    BY <1>1, <1>2, <2>1
  <2>3. SumFunctionOnSet(f, Dishes) \in Nat
    BY <1>1, <2>2, SumIsNat
  <2> QED BY <2>1, <2>2, <2>3 DEF Worth, SumFunction
<1>4. Pieces(lines) \in Nat
  <2>1. SumFunctionOnSet(lines, Dishes) \in Nat
    BY <1>1, SumIsNat
  <2> QED BY <2>1 DEF Pieces, SumFunction, DishLines
<1> QED BY <1>3, <1>4

LEMMA AimedIs ==
  ASSUME NEW terms, NEW lines \in DishLines
  PROVE  Aimed(terms, lines) \in DishLines
BY DEF Aimed, DishLines

LEMMA NothingIs == Basket0 \in DishLines /\ Worth(Basket0) = 0 /\ Pieces(Basket0) = 0
<1>1. IsFiniteSet(Dishes) /\ \A p \in Dishes : Price[p] \in Nat
  BY GivenDiscounts DEF DishLines
<1>2. Basket0 \in DishLines /\ DOMAIN Basket0 = Dishes /\ \A p \in Dishes : Basket0[p] = 0
  BY DEF Basket0, DishLines
<1>3. Pieces(Basket0) = 0
  BY <1>1, <1>2, SumOfZeros DEF Pieces, SumFunction
<1>4. PICK f : f = [p \in Dishes |-> Price[p] * Basket0[p]]
  OBVIOUS
<1>5. DOMAIN f = Dishes /\ \A p \in Dishes : f[p] = 0
  BY <1>1, <1>2, <1>4
<1>6. SumFunctionOnSet(f, Dishes) = 0
  BY <1>1, <1>5, SumOfZeros
<1> QED BY <1>2, <1>3, <1>4, <1>5, <1>6 DEF Worth, SumFunction

\* Of a basket any number of pieces can be taken.
Part(f, lines) == f \in DishLines /\ \A p \in Dishes : f[p] <= lines[p]

LEMMA OnePieceMore ==
  ASSUME NEW lines \in DishLines, NEW f, Part(f, lines), Pieces(f) < Pieces(lines)
  PROVE  \E g : Part(g, lines) /\ Pieces(g) = Pieces(f) + 1
<1>1. /\ IsFiniteSet(Dishes) /\ DOMAIN f = Dishes /\ DOMAIN lines = Dishes
      /\ \A p \in Dishes : f[p] \in Nat /\ lines[p] \in Nat /\ f[p] <= lines[p]
  BY GivenDiscounts DEF Part, DishLines
<1>2. Pieces(f) = SumFunctionOnSet(f, Dishes) /\ Pieces(lines) = SumFunctionOnSet(lines, Dishes)
  BY <1>1 DEF Pieces, SumFunction
<1>3. Pieces(f) \in Nat /\ Pieces(lines) \in Nat
  BY WorthIs DEF Part
<1>4. PICK p \in Dishes : f[p] # lines[p]
  <2>1. (\A p \in Dishes : f[p] = lines[p]) => Pieces(f) = Pieces(lines)
    BY <1>1, <1>2, SumSame
  <2> QED BY <1>3, <2>1
<1>5. PICK g : g = [f EXCEPT ![p] = f[p] + 1]
  OBVIOUS
<1>6. /\ DOMAIN g = Dishes /\ g[p] = f[p] + 1
      /\ \A d \in Dishes \ {p} : g[d] = f[d]
  BY <1>1, <1>5
<1>7. \A d \in Dishes : g[d] \in Nat /\ g[d] <= lines[d]
  BY <1>1, <1>4, <1>6
<1>8. Part(g, lines)
  BY <1>1, <1>5, <1>7 DEF Part, DishLines
<1>9. SumFunctionOnSet(g, Dishes) = SumFunctionOnSet(f, Dishes) - f[p] + g[p]
  <2>1. \A d \in Dishes : f[d] \in Int /\ g[d] \in Int
    BY <1>1, <1>7
  <2>2. \A d \in Dishes \ {p} : f[d] = g[d]
    BY <1>6
  <2> QED BY <1>1, <2>1, <2>2, SumChanges
<1>10. Pieces(g) = Pieces(f) + 1
  <2>1. Pieces(g) = SumFunctionOnSet(g, Dishes)
    BY <1>6 DEF Pieces, SumFunction
  <2>2. f[p] \in Nat
    BY <1>1
  <2> QED BY <1>2, <1>3, <1>6, <1>9, <2>1, <2>2
<1> QED BY <1>8, <1>10

LEMMA SomePieces ==
  ASSUME NEW lines \in DishLines, NEW n \in Nat, n <= Pieces(lines)
  PROVE  \E f : Part(f, lines) /\ Pieces(f) = n
<1> DEFINE Bad == {m \in Nat : m <= Pieces(lines) /\ ~\E f : Part(f, lines) /\ Pieces(f) = m}
<1>1. SUFFICES ASSUME Bad # {} PROVE FALSE
  OBVIOUS
<1>2. PICK m \in Bad : \A l \in Bad : ~(<<l, m>> \in OpToRel(<, Nat))
  <2>1. Bad \subseteq Nat
    OBVIOUS
  <2> HIDE DEF Bad
  <2> QED BY <1>1, <2>1, NatLessThanWellFounded, WFMin
<1>3. m \in Nat /\ m <= Pieces(lines) /\ ~\E f : Part(f, lines) /\ Pieces(f) = m
  OBVIOUS
<1>4. Pieces(lines) \in Nat
  BY WorthIs
<1>5. m # 0
  <2>1. \A p \in Dishes : Basket0[p] <= lines[p]
    BY DEF Basket0, DishLines
  <2> QED BY <1>3, <2>1, NothingIs DEF Part
<1>6. m - 1 \in Nat /\ m - 1 < m /\ m - 1 < Pieces(lines)
  BY <1>3, <1>4, <1>5
<1>7. m - 1 \notin Bad
  <2>1. <<m - 1, m>> \in OpToRel(<, Nat)
    BY <1>3, <1>6, Zenon DEF OpToRel
  <2> QED BY <1>2, <2>1
<1>8. PICK f : Part(f, lines) /\ Pieces(f) = m - 1
  BY <1>4, <1>6, <1>7
<1>9. PICK g : Part(g, lines) /\ Pieces(g) = Pieces(f) + 1
  BY <1>6, <1>8, OnePieceMore
<1>10. Pieces(g) = m
  BY <1>3, <1>8, <1>9
<1> QED BY <1>3, <1>9, <1>10

LEMMA CheapestIs ==
  ASSUME NEW lines \in DishLines, NEW n \in Nat, n <= Pieces(lines)
  PROVE  CheapestOf(lines, n) \in Nat
<1> DEFINE Takes == {f \in [Dishes -> 0 .. n] : /\ \A p \in Dishes : f[p] <= lines[p]
                                               /\ Pieces(f) = n}
           Costing == {Worth(f) : f \in Takes}
<1>1. PICK f : Part(f, lines) /\ Pieces(f) = n
  BY SomePieces
<1>2. \A p \in Dishes : f[p] \in 0 .. n
  <2> TAKE p \in Dishes
  <2>1. /\ IsFiniteSet(Dishes) /\ DOMAIN f = Dishes /\ IsFiniteSet(Dishes \ {p})
        /\ \A d \in Dishes : f[d] \in Nat
    BY <1>1, GivenDiscounts, FS_RemoveElement DEF Part, DishLines
  <2>2. SumFunctionOnSet(f, Dishes \ {p}) \in Nat
    BY <2>1, SumIsNat
  <2>3. SumFunctionOnSet(f, Dishes) = f[p] + SumFunctionOnSet(f, Dishes \ {p})
    <3>1. \A d \in Dishes : f[d] \in Int
      BY <2>1
    <3> QED BY <2>1, <3>1, SumTakes
  <2>4. n = SumFunctionOnSet(f, Dishes)
    BY <1>1, <2>1 DEF Pieces, SumFunction
  <2> QED BY <2>1, <2>2, <2>3, <2>4
<1>3. f \in Takes
  BY <1>1, <1>2 DEF Part, DishLines
<1>4. Worth(f) \in Costing
  BY <1>3
<1>5. Costing \subseteq Nat
  <2>1. ASSUME NEW g \in Takes PROVE Worth(g) \in Nat
    <3>1. g \in DishLines
      BY DEF DishLines
    <3> QED BY <3>1, WorthIs
  <2> QED BY <2>1
<1>6. Min(Costing) \in Costing
  <2> HIDE DEF Costing
  <2> QED BY <1>4, <1>5, LeastIs
<1> QED BY <1>5, <1>6 DEF CheapestOf

\* As many sets of buy and get as there are hold no more free pieces than pieces.
LEMMA SetsFit ==
  ASSUME NEW n \in Nat, NEW buys \in Nat, buys > 0, NEW gets \in Nat
  PROVE  (n \div (buys + gets)) * gets \in Nat /\ (n \div (buys + gets)) * gets <= n
<1>1. PICK s \in Nat : s = buys + gets /\ s > 0 /\ gets <= s
  OBVIOUS
<1>2. n \div s \in Nat /\ (n \div s) * s <= n
  BY <1>1
<1>3. PICK q \in Nat : q = n \div s
  BY <1>2
<1>4. q * gets \in Nat /\ q * gets <= q * s
  BY <1>1
<1>5. q * s <= n /\ q * s \in Nat
  BY <1>1, <1>2, <1>3
<1> QED BY <1>1, <1>3, <1>4, <1>5

LEMMA FreeAre ==
  ASSUME NEW terms \in TermRow, NEW lines \in DishLines
  PROVE  FreePieces(terms, lines) \in Nat /\ FreePieces(terms, lines) <= Pieces(lines)
<1>1. terms.buy \in Nat /\ terms.get \in Nat /\ Pieces(lines) \in Nat
  BY WorthIs DEF TermRow
<1>2. CASE terms.buy > 0 /\ Pieces(lines) >= terms.buy
  BY <1>1, <1>2, SetsFit DEF FreePieces
<1>3. CASE ~(terms.buy > 0 /\ Pieces(lines) >= terms.buy)
  BY <1>1, <1>3 DEF FreePieces
<1> QED BY <1>2, <1>3

LEMMA RuleIs ==
  ASSUME NEW method, NEW terms \in TermRow, NEW lines \in DishLines
  PROVE  RuleGives(method, terms, lines) \in Int
<1>1. PICK aimed : aimed = Aimed(terms, lines)
  OBVIOUS
<1>2. aimed \in DishLines /\ Worth(aimed) \in Int
  BY <1>1, AimedIs, WorthIs
<1>3. terms.value \in Int /\ terms.cap \in Int /\ terms.free \subseteq Dishes
  BY DEF TermRow
<1>4. Percent(terms, aimed) \in Int
  <2>1. (Worth(aimed) * terms.value) \div 100 \in Int
    BY <1>2, <1>3
  <2> QED BY <1>3, <2>1, LesserIs DEF Percent, Capped
<1>5. Smaller(terms.value, Worth(aimed)) \in Int
  BY <1>2, <1>3, LesserIs
<1>6. CheapestOf(aimed, FreePieces(terms, aimed)) \in Int
  BY <1>2, FreeAre, CheapestIs
<1>7. PICK f : f = [p \in terms.free |-> IF lines[p] > 0 THEN Price[p] ELSE 0]
  OBVIOUS
<1>8. SumFunction(f) \in Int
  <2>1. IsFiniteSet(terms.free)
    BY <1>3, GivenDiscounts, FS_Subset
  <2>2. DOMAIN f = terms.free /\ \A p \in terms.free : f[p] \in Int
    BY <1>3, <1>7, GivenDiscounts DEF DishLines
  <2> QED BY <2>1, <2>2, SumIsInt DEF SumFunction
<1>9. CASE method \in {"PERCENTAGE", "CUSTOM"}
  BY <1>1, <1>4, <1>9 DEF RuleGives
<1>10. CASE method = "FIXED_AMOUNT"
  BY <1>1, <1>5, <1>10 DEF RuleGives
<1>11. CASE method = "BUY_X_GET_Y"
  BY <1>1, <1>6, <1>11 DEF RuleGives
<1>12. CASE method = "FREE_ITEM"
  BY <1>1, <1>7, <1>8, <1>12 DEF RuleGives
<1>13. CASE method = "SECRET_WORD"
  BY <1>1, <1>4, <1>5, <1>13 DEF RuleGives
<1>14. CASE method \notin {"PERCENTAGE", "CUSTOM", "FIXED_AMOUNT", "BUY_X_GET_Y", "FREE_ITEM", "SECRET_WORD"}
  BY <1>14 DEF RuleGives
<1> QED BY <1>9, <1>10, <1>11, <1>12, <1>13, <1>14

\* What a code takes off is neither negative nor more than what is left of the bill.
LEMMA AmountIs ==
  ASSUME NEW c \in Codes, discount[c].terms \in TermRow, NEW lines \in DishLines, NEW already \in Nat
  PROVE  /\ AmountOff(c, lines, already) \in Nat
         /\ AmountOff(c, lines, already) <= Worth(lines)
<1>1. PICK rule \in Int : rule = RuleGives(kind[discount[c].kind].method, discount[c].terms, lines)
  BY RuleIs
<1>2. PICK w \in Nat : w = Worth(lines)
  BY WorthIs
<1>3. PICK a \in Nat : a = Worth(Aimed(discount[c].terms, lines))
  BY AimedIs, WorthIs
<1>4. AmountOff(c, lines, already) = Smaller(Larger(0, Smaller(rule, a)), Larger(0, w - already))
  BY <1>1, <1>2, <1>3 DEF AmountOff
<1>5. PICK x \in Int : x = Larger(0, Smaller(rule, a)) /\ x >= 0
  <2>1. Smaller(rule, a) \in Int
    BY LesserIs
  <2> QED BY <2>1, GreaterIs
<1>6. PICK y \in Int : y = Larger(0, w - already) /\ y >= 0 /\ y <= w
  <2>1. w - already \in Int /\ w - already <= w
    OBVIOUS
  <2> QED BY <2>1, GreaterIs
<1>7. Smaller(x, y) \in Nat /\ Smaller(x, y) <= w
  BY <1>5, <1>6 DEF Smaller
<1> QED BY <1>2, <1>4, <1>5, <1>6, <1>7

LEMMA OffIs ==
  ASSUME NEW amounts \in [Codes -> Nat \cup {NotGiven}]
  PROVE  /\ Off(amounts) \in Nat
         /\ (\A c \in Codes : amounts[c] = NotGiven) => Off(amounts) = 0
<1>1. PICK f : f = [c \in Codes |-> Larger(0, amounts[c])]
  OBVIOUS
<1>2. IsFiniteSet(Codes) /\ DOMAIN f = Codes /\ Off(amounts) = SumFunctionOnSet(f, Codes)
  BY <1>1, GivenDiscounts DEF Off, SumFunction
<1>3. \A c \in Codes : amounts[c] \in Int /\ f[c] = Larger(0, amounts[c])
  BY <1>1 DEF NotGiven
<1>4. \A c \in Codes : f[c] \in Nat
  BY <1>3, GreaterIs
<1>5. (\A c \in Codes : amounts[c] = NotGiven) => \A c \in Codes : f[c] = 0
  BY <1>3 DEF NotGiven, Larger
<1>6. (\A c \in Codes : f[c] = 0) => SumFunctionOnSet(f, Codes) = 0
  BY <1>2, SumOfZeros
<1> QED BY <1>2, <1>4, <1>5, <1>6, SumIsNat
-----------------------------------------------------------------------------
(* Discounts: the invariant                                                *)

NoCode == [is |-> "none"]
CodeRow == [is : {"live", "deleted"}, active : BOOLEAN, kind : Kinds, terms : TermRow, used : Nat]
BillRow == [lines : DishLines, off : Int, due : Int, paid : BOOLEAN, status : {"none", "open", "canceled"}]

Known(c) == discount[c].is # "none"
FilledFits == form = Nobody \/ \E c \in Codes, r \in CodeRow : form = <<c, r>> /\ Known(c)
DiscountTypes ==
  /\ discount \in [Codes -> {NoCode} \cup CodeRow]
  /\ bill \in [Bills -> BillRow]
  /\ given \in [Bills -> [Codes -> Nat \cup {NotGiven}]]
  /\ uses \subseteq Guests \X Codes \X Bills /\ IsFiniteSet(uses)
  /\ asked \in [Guests -> {Nobody} \cup Bills \X Codes]
  /\ FilledFits

\* A code that stands on a bill is one there is, and one guest used it there; nobody used another.
UsedOnce(c, b) ==
  IF c \in On(b) THEN /\ Known(c) /\ bill[b].status # "none"
                      /\ \E g \in Guests : \A u \in uses : (u[2] = c /\ u[3] = b) <=> u = <<g, c, b>>
                      /\ \E u \in uses : u[2] = c /\ u[3] = b
  ELSE ~\E u \in uses : u[2] = c /\ u[3] = b
AllUsedOnce == \A c \in Codes, b \in Bills : UsedOnce(c, b)

BillsOf(c) == {b \in Bills : c \in On(b)}
UsesOf(c) == {u \in uses : u[2] = c}
Counting(c) ==
  /\ Cardinality(UsesOf(c)) = Cardinality(BillsOf(c))
  /\ (Known(c) /\ c \notin outdated) => discount[c].used = Cardinality(BillsOf(c))
AllCounting == \A c \in Codes : Counting(c)

DiscountsInv == DiscountTypes /\ AllUsedOnce /\ AllCounting /\ BillsAddUp

LEMMA DiscountsSay == DiscountsInv => DiscountsAddUp
<1> SUFFICES ASSUME DiscountsInv PROVE CodesAreCounted /\ BillsAddUp
  BY DEF DiscountsAddUp
<1>1. BillsAddUp /\ AllCounting
  BY DEF DiscountsInv
<1>2. CodesAreCounted
  BY <1>1 DEF AllCounting, Counting, Known, BillsOf, UsesOf, CodesAreCounted
<1> QED BY <1>1, <1>2

LEMMA CodeRowIs ==
  /\ \A c \in Codes : DiscountTypes =>
       /\ Known(c) => discount[c] \in CodeRow
       /\ discount[c] \in CodeRow => Known(c)
       /\ ~Known(c) => discount[c] = NoCode
  /\ \A r \in CodeRow : r.used \in Nat /\ r.terms \in TermRow /\ r.is # "none"
<1>1. \A r \in CodeRow : r.used \in Nat /\ r.terms \in TermRow /\ r.is # "none"
  BY DEF CodeRow
<1>2. \A r \in {NoCode} : r.is = "none"
  BY DEF NoCode
<1>3. DiscountTypes => \A c \in Codes : discount[c] \in {NoCode} \cup CodeRow
  BY DEF DiscountTypes
<1> QED BY <1>1, <1>2, <1>3 DEF Known

LEMMA BillRowIs ==
  \A r \in BillRow : r.lines \in DishLines /\ r.due \in Int /\ r.off \in Int
BY DEF BillRow

LEMMA NewDiscountIs ==
  ASSUME NEW k \in Kinds, NEW terms \in TermRow
  PROVE  NewDiscount(k, terms) \in CodeRow /\ NewDiscount(k, terms).used = 0
BY DEF NewDiscount, CodeRow

LEMMA DiscountsBegin == DiscountsInit => DiscountsInv
<1> SUFFICES ASSUME DiscountsInit PROVE DiscountsInv
  OBVIOUS
<1>1. \A b \in Bills : given[b] \in [Codes -> Nat \cup {NotGiven}] /\ On(b) = {}
  BY DEF DiscountsInit, On
<1>2. NoBill \in BillRow /\ NoBill.lines = Basket0 /\ NoBill.due = 0
  BY NothingIs DEF NoBill, BillRow
<1>3. \A c \in Codes : discount[c] \in {NoCode} \cup CodeRow
  <2> TAKE c \in Codes
  <2>1. CASE c \in DOMAIN Printed
    BY <2>1, GivenDiscounts, NewDiscountIs DEF DiscountsInit
  <2>2. CASE c \notin DOMAIN Printed
    BY <2>2 DEF DiscountsInit, NoCode
  <2> QED BY <2>1, <2>2
<1>4. DiscountTypes
  <2>1. bill \in [Bills -> BillRow] /\ given \in [Bills -> [Codes -> Nat \cup {NotGiven}]]
    BY <1>2 DEF DiscountsInit
  <2>2. discount \in [Codes -> {NoCode} \cup CodeRow]
    BY <1>3 DEF DiscountsInit
  <2>3. uses = {} /\ form = Nobody /\ asked \in [Guests -> {Nobody} \cup Bills \X Codes]
    BY DEF DiscountsInit
  <2> QED BY <2>1, <2>2, <2>3, FS_EmptySet DEF DiscountTypes, FilledFits
<1>5. AllUsedOnce
  BY <1>1 DEF DiscountsInit, AllUsedOnce, UsedOnce
<1>6. AllCounting
  <2> SUFFICES ASSUME NEW c \in Codes PROVE Counting(c)
    BY DEF AllCounting
  <2>1. UsesOf(c) = {} /\ BillsOf(c) = {} /\ Cardinality({}) = 0
    BY <1>1, FS_EmptySet DEF DiscountsInit, UsesOf, BillsOf
  <2>2. CASE c \in DOMAIN Printed
    <3>1. discount[c].used = 0
      BY <2>2, GivenDiscounts, NewDiscountIs DEF DiscountsInit
    <3> QED BY <2>1, <3>1 DEF Counting
  <2>3. CASE c \notin DOMAIN Printed
    BY <2>1, <2>3 DEF DiscountsInit, Counting, Known
  <2> QED BY <2>2, <2>3
<1>7. BillsAddUp
  <2> SUFFICES ASSUME NEW b \in Bills PROVE bill[b].due = Larger(0, Worth(bill[b].lines) - Off(given[b]))
    BY <1>1 DEF BillsAddUp
  <2>1. Off(given[b]) = 0
    <3>1. \A c \in Codes : given[b][c] = NotGiven
      BY DEF DiscountsInit
    <3> QED BY <1>1, <3>1, OffIs
  <2>2. bill[b] = NoBill
    BY DEF DiscountsInit
  <2> QED BY <1>2, <2>1, <2>2, NothingIs DEF Larger
<1> QED BY <1>4, <1>5, <1>6, <1>7 DEF DiscountsInv

\* While no bill and no use changes, it is enough that a code goes on being one, and that its
\* count stands, or is that of a new code, or is outdated.
LEMMA CodesStay ==
  ASSUME DiscountsInv, UNCHANGED <<bill, given, uses>>, DiscountTypes',
         \A c \in Codes : Known(c) => Known(c)',
         \A c \in Codes : Known(c)' =>
           \/ c \in outdated'
           \/ Known(c) /\ c \notin outdated /\ discount'[c].used = discount[c].used
           \/ ~Known(c) /\ discount'[c].used = 0
  PROVE  DiscountsInv'
<1>1. \A b \in Bills : On(b)' = On(b)
  BY DEF On
<1>2. AllUsedOnce'
  <2> SUFFICES ASSUME NEW c \in Codes, NEW b \in Bills PROVE UsedOnce(c, b)'
    BY DEF AllUsedOnce
  <2>1. UsedOnce(c, b)
    BY DEF DiscountsInv, AllUsedOnce
  <2>2. On(b)' = On(b) /\ bill' = bill /\ uses' = uses /\ (Known(c) => Known(c)')
    BY <1>1
  <2> QED BY <2>1, <2>2 DEF UsedOnce
<1>3. AllCounting'
  <2> SUFFICES ASSUME NEW c \in Codes PROVE Counting(c)'
    BY DEF AllCounting
  <2>1. Counting(c) /\ \A b \in Bills : UsedOnce(c, b)
    BY DEF DiscountsInv, AllCounting, AllUsedOnce
  <2>2. UsesOf(c)' = UsesOf(c) /\ BillsOf(c)' = BillsOf(c)
    BY <1>1 DEF UsesOf, BillsOf
  <2>3. ~Known(c) => BillsOf(c) = {}
    BY <2>1 DEF BillsOf, UsedOnce
  <2>4. Cardinality({}) = 0
    BY FS_EmptySet
  <2> QED BY <2>1, <2>2, <2>3, <2>4 DEF Counting
<1>4. BillsAddUp'
  BY <1>1 DEF DiscountsInv, BillsAddUp
<1> QED BY <1>2, <1>3, <1>4 DEF DiscountsInv

LEMMA OneCodeStays ==
  ASSUME DiscountsInv, UNCHANGED <<bill, given, uses, form, asked>>, outdated' = outdated,
         NEW c \in Codes, NEW r \in CodeRow, discount' = [discount EXCEPT ![c] = r],
         IF Known(c) THEN r.used = discount[c].used ELSE r.used = 0
  PROVE  DiscountsInv'
<1>1. /\ discount \in [Codes -> {NoCode} \cup CodeRow] /\ DiscountTypes
      /\ r.is # "none" /\ r \in CodeRow
  BY CodeRowIs DEF DiscountsInv, DiscountTypes
<1>2. discount' \in [Codes -> {NoCode} \cup CodeRow]
  BY <1>1
<1>3. discount'[c] = r /\ \A d \in Codes \ {c} : discount'[d] = discount[d]
  BY <1>1
<1>4. \A d \in Codes : Known(d) => Known(d)'
  BY <1>1, <1>3 DEF Known
<1>5. FilledFits'
  BY <1>1, <1>4 DEF DiscountTypes, FilledFits
<1>6. DiscountTypes'
  BY <1>1, <1>2, <1>5 DEF DiscountTypes
<1>7. ASSUME NEW d \in Codes, Known(d)'
      PROVE  \/ d \in outdated'
             \/ Known(d) /\ d \notin outdated /\ discount'[d].used = discount[d].used
             \/ ~Known(d) /\ discount'[d].used = 0
  <2>1. CASE d = c
    BY <1>3, <2>1
  <2>2. CASE d # c
    BY <1>3, <1>7, <2>2 DEF Known
  <2> QED BY <2>1, <2>2
<1> QED BY <1>4, <1>6, <1>7, CodesStay

LEMMA NoCodeChanges ==
  ASSUME DiscountsInv, UNCHANGED <<discount, bill, given, uses>>, outdated' = outdated, DiscountTypes'
  PROVE  DiscountsInv'
<1>1. \A c \in Codes : Known(c)' <=> Known(c)
  BY DEF Known
<1> QED BY <1>1, CodesStay
-----------------------------------------------------------------------------
(* Discounts: the back office                                              *)

LEMMA RowsKeep ==
  ASSUME DiscountsInv,
         \/ \E k \in Kinds, m \in TypesOfDiscount : CreateKind(k, m) \/ UpdateKind(k, m)
         \/ \E k \in Kinds : DeleteKind(k)
         \/ NextDay
  PROVE  DiscountsInv'
<1>1. UNCHANGED <<discount, bill, given, uses, outdated, asked, form>>
  BY DEF CreateKind, UpdateKind, DeleteKind, NextDay
<1>2. DiscountTypes'
  BY <1>1 DEF DiscountsInv, DiscountTypes, FilledFits, Known
<1> QED BY <1>1, <1>2, NoCodeChanges

LEMMA CodesKeep ==
  ASSUME DiscountsInv, NEW c \in Codes,
         \/ \E k \in Kinds : \E terms \in Offers[c] : CreateDiscount(c, k, terms)
         \/ Toggle(c) \/ DeleteDiscount(c)
  PROVE  DiscountsInv'
<1>1. UNCHANGED <<bill, given, uses, form, outdated, asked>>
  BY DEF CreateDiscount, Toggle, DeleteDiscount
<1>2. discount \in [Codes -> {NoCode} \cup CodeRow] /\ DiscountTypes
  BY DEF DiscountsInv, DiscountTypes
<1>3. ASSUME NEW k \in Kinds, NEW terms \in Offers[c], CreateDiscount(c, k, terms) PROVE DiscountsInv'
  <2>1. PICK r : r = NewDiscount(k, terms)
    OBVIOUS
  <2>2. r \in CodeRow /\ r.used = 0
    BY <2>1, GivenDiscounts, NewDiscountIs
  <2>3. discount' = [discount EXCEPT ![c] = r] /\ ~Known(c)
    BY <1>3, <2>1 DEF CreateDiscount, Known
  <2> QED BY <1>1, <2>2, <2>3, OneCodeStays
<1>4. CASE Toggle(c)
  <2>1. Known(c) /\ discount[c] \in CodeRow
    BY <1>2, <1>4, CodeRowIs DEF Toggle, Live, Known
  <2>2. PICK r : r = [discount[c] EXCEPT !.active = ~discount[c].active]
    OBVIOUS
  <2>3. r \in CodeRow /\ r.used = discount[c].used
    BY <2>1, <2>2 DEF CodeRow
  <2>4. discount' = [discount EXCEPT ![c] = r]
    BY <1>2, <1>4, <2>1, <2>2 DEF Toggle
  <2> QED BY <1>1, <2>1, <2>3, <2>4, OneCodeStays
<1>5. CASE DeleteDiscount(c)
  <2>1. Known(c) /\ discount[c] \in CodeRow
    BY <1>2, <1>5, CodeRowIs DEF DeleteDiscount, Live, Known
  <2>2. PICK r : r = [discount[c] EXCEPT !.is = "deleted"]
    OBVIOUS
  <2>3. r \in CodeRow /\ r.used = discount[c].used
    BY <2>1, <2>2 DEF CodeRow
  <2>4. discount' = [discount EXCEPT ![c] = r]
    BY <1>2, <1>5, <2>1, <2>2 DEF DeleteDiscount
  <2> QED BY <1>1, <2>1, <2>3, <2>4, OneCodeStays
<1> QED BY <1>3, <1>4, <1>5

LEMMA FillKeeps ==
  ASSUME DiscountsInv, NEW c \in Codes, FillForm(c)
  PROVE  DiscountsInv'
<1>1. /\ UNCHANGED <<discount, bill, given, uses, outdated, asked>> /\ form' = <<c, discount[c]>>
      /\ Known(c)
  BY DEF FillForm, Live, Known
<1>2. discount[c] \in CodeRow
  BY <1>1, CodeRowIs DEF DiscountsInv
<1>3. FilledFits'
  <2>1. Known(c)'
    BY <1>1 DEF Known
  <2> QED BY <1>1, <1>2, <2>1 DEF FilledFits
<1>4. DiscountTypes'
  BY <1>1, <1>3 DEF DiscountsInv, DiscountTypes
<1> QED BY <1>1, <1>4, NoCodeChanges

LEMMA FilledFormKeeps ==
  ASSUME DiscountsInv, form # Nobody, NEW active \in BOOLEAN, NEW terms \in Offers[form[1]],
         SaveForm(terms, active)
  PROVE  DiscountsInv'
<1>1. PICK c \in Codes, r \in CodeRow : form = <<c, r>> /\ Known(c)
  BY DEF DiscountsInv, DiscountTypes, FilledFits
<1>2. PICK q : q = [r EXCEPT !.terms = terms, !.active = active]
  OBVIOUS
<1>3. q \in CodeRow /\ q.used = r.used /\ q.is # "none"
  <2>1. terms \in TermRow
    BY <1>1, GivenDiscounts
  <2>2. r.used = q.used /\ q \in CodeRow
    BY <1>2, <2>1 DEF CodeRow
  <2> QED BY <2>2, CodeRowIs
<1>4. discount \in [Codes -> {NoCode} \cup CodeRow] /\ discount[c] \in CodeRow
  BY <1>1, CodeRowIs DEF DiscountsInv, DiscountTypes
<1>5. /\ discount' = [discount EXCEPT ![c] = q]
      /\ outdated' = IF discount[c].used # r.used THEN outdated \cup {c} ELSE outdated
      /\ form' = Nobody /\ UNCHANGED <<bill, given, uses, asked>>
  BY <1>1, <1>2 DEF SaveForm
<1>6. discount'[c] = q /\ \A d \in Codes \ {c} : discount'[d] = discount[d]
  BY <1>4, <1>5
<1>7. \A d \in Codes : Known(d) => Known(d)'
  BY <1>3, <1>6 DEF Known
<1>8. DiscountTypes'
  <2>1. FilledFits'
    BY <1>5 DEF FilledFits
  <2>2. discount' \in [Codes -> {NoCode} \cup CodeRow]
    BY <1>3, <1>4, <1>5
  <2> QED BY <1>5, <2>1, <2>2 DEF DiscountsInv, DiscountTypes
<1>9. ASSUME NEW d \in Codes, Known(d)'
      PROVE  \/ d \in outdated'
             \/ Known(d) /\ d \notin outdated /\ discount'[d].used = discount[d].used
             \/ ~Known(d) /\ discount'[d].used = 0
  <2>1. CASE d = c
    BY <1>1, <1>3, <1>5, <1>6, <2>1
  <2>2. CASE d # c
    BY <1>5, <1>6, <1>9, <2>2 DEF Known
  <2> QED BY <2>1, <2>2
<1> QED BY <1>5, <1>7, <1>8, <1>9, CodesStay

LEMMA AskingKeeps ==
  ASSUME DiscountsInv, NEW g \in Guests,
         \/ \E b \in Bills, c \in Codes : Validate(g, b, c)
         \/ RefuseToApply(g)
  PROVE  DiscountsInv'
<1>1. UNCHANGED <<discount, bill, given, uses, outdated, form>>
  BY DEF Validate, RefuseToApply
<1>2. asked' \in [Guests -> {Nobody} \cup Bills \X Codes]
  BY DEF Validate, RefuseToApply, DiscountsInv, DiscountTypes
<1>3. FilledFits'
  BY <1>1 DEF DiscountsInv, DiscountTypes, FilledFits, Known
<1>4. DiscountTypes'
  BY <1>1, <1>2, <1>3 DEF DiscountsInv, DiscountTypes
<1> QED BY <1>1, <1>4, NoCodeChanges
-----------------------------------------------------------------------------
(* Discounts: the bills                                                    *)

BillBecomes(b, q, amounts) == bill' = [bill EXCEPT ![b] = q] /\ given' = [given EXCEPT ![b] = amounts]

\* A bill takes new lines, or amounts, that add up.
LEMMA OneBill ==
  ASSUME DiscountsInv, NEW b \in Bills, NEW q \in BillRow,
         NEW amounts \in [Codes -> Nat \cup {NotGiven}], BillBecomes(b, q, amounts),
         q.due = Larger(0, Worth(q.lines) - Off(amounts)),
         \A c \in Codes : amounts[c] = NotGiven \/ amounts[c] <= Worth(q.lines)
  PROVE  /\ bill' \in [Bills -> BillRow] /\ given' \in [Bills -> [Codes -> Nat \cup {NotGiven}]]
         /\ BillsAddUp'
         /\ bill'[b] = q /\ given'[b] = amounts
         /\ \A d \in Bills \ {b} : bill'[d] = bill[d] /\ given'[d] = given[d] /\ On(d)' = On(d)
         /\ On(b)' = {c \in Codes : amounts[c] # NotGiven}
<1>1. bill \in [Bills -> BillRow] /\ given \in [Bills -> [Codes -> Nat \cup {NotGiven}]] /\ BillsAddUp
  BY DEF DiscountsInv, DiscountTypes
<1>2. bill' \in [Bills -> BillRow] /\ given' \in [Bills -> [Codes -> Nat \cup {NotGiven}]]
  BY <1>1 DEF BillBecomes
<1>3. bill'[b] = q /\ given'[b] = amounts
  BY <1>1 DEF BillBecomes
<1>4. \A d \in Bills \ {b} : bill'[d] = bill[d] /\ given'[d] = given[d]
  BY <1>1 DEF BillBecomes
<1>5. \A d \in Bills \ {b} : On(d)' = On(d)
  BY <1>4 DEF On
<1>6. On(b)' = {c \in Codes : amounts[c] # NotGiven}
  BY <1>3 DEF On
<1>7. BillsAddUp'
  <2>1. ASSUME NEW d \in Bills
        PROVE  /\ bill'[d].due = Larger(0, Worth(bill'[d].lines) - Off(given'[d]))
               /\ \A c \in On(d)' : given'[d][c] <= Worth(bill'[d].lines)
    <3>1. CASE d = b
      BY <1>3, <1>6, <3>1
    <3>2. CASE d # b
      BY <1>1, <1>4, <1>5, <3>2 DEF BillsAddUp
    <3> QED BY <3>1, <3>2
  <2> QED BY <2>1 DEF BillsAddUp
<1> QED BY <1>2, <1>3, <1>4, <1>5, <1>6, <1>7

LEMMA SameCodesOn ==
  ASSUME DiscountsInv, UNCHANGED <<discount, uses, outdated, asked, form>>,
         bill' \in [Bills -> BillRow], given' \in [Bills -> [Codes -> Nat \cup {NotGiven}]], BillsAddUp',
         \A b \in Bills : On(b)' = On(b) /\ (bill[b].status # "none" => bill'[b].status # "none")
  PROVE  DiscountsInv'
<1>1. \A c \in Codes : Known(c)' = Known(c)
  BY DEF Known
<1>2. DiscountTypes'
  <2>1. FilledFits'
    BY <1>1 DEF DiscountsInv, DiscountTypes, FilledFits
  <2> QED BY <2>1 DEF DiscountsInv, DiscountTypes
<1>3. AllUsedOnce'
  <2> SUFFICES ASSUME NEW c \in Codes, NEW b \in Bills PROVE UsedOnce(c, b)'
    BY DEF AllUsedOnce
  <2>1. UsedOnce(c, b)
    BY DEF DiscountsInv, AllUsedOnce
  <2>2. /\ On(b)' = On(b) /\ uses' = uses /\ (Known(c) => Known(c)')
        /\ (bill[b].status # "none" => bill'[b].status # "none")
    BY <1>1
  <2> QED BY <2>1, <2>2 DEF UsedOnce
<1>4. AllCounting'
  <2> SUFFICES ASSUME NEW c \in Codes PROVE Counting(c)'
    BY DEF AllCounting
  <2>1. UsesOf(c)' = UsesOf(c) /\ BillsOf(c)' = BillsOf(c) /\ Known(c)' = Known(c)
    BY <1>1 DEF UsesOf, BillsOf
  <2> QED BY <2>1 DEF DiscountsInv, AllCounting, Counting
<1> QED BY <1>2, <1>3, <1>4 DEF DiscountsInv

LEMMA OpenKeeps ==
  ASSUME DiscountsInv, NEW b \in Bills, NEW lines \in Baskets, OpenBill(b, lines)
  PROVE  DiscountsInv'
<1>1. lines \in DishLines /\ Worth(lines) \in Nat
  BY GivenDiscounts, WorthIs
<1>2. PICK q : q = [NoBill EXCEPT !.status = "open", !.lines = lines, !.due = Worth(lines)]
  OBVIOUS
<1>3. q \in BillRow /\ q.lines = lines /\ q.due = Worth(lines) /\ q.status = "open"
  <2>1. PICK w \in Nat : w = Worth(lines)
    BY <1>1
  <2>2. PICK e : e = Basket0
    OBVIOUS
  <2>3. q = [lines |-> lines, off |-> 0, due |-> w, paid |-> FALSE, status |-> "open"]
    BY <1>2, <2>1, <2>2 DEF NoBill
  <2> QED BY <1>1, <2>1, <2>3 DEF BillRow
<1>4. given[b] \in [Codes -> Nat \cup {NotGiven}] /\ given \in [Bills -> [Codes -> Nat \cup {NotGiven}]]
  BY DEF DiscountsInv, DiscountTypes
<1>5. \A c \in Codes : given[b][c] = NotGiven
  <2>1. \A c \in Codes : UsedOnce(c, b)
    BY DEF DiscountsInv, AllUsedOnce
  <2>2. bill[b].status = "none"
    BY DEF OpenBill
  <2> QED BY <2>1, <2>2 DEF UsedOnce, On
<1>6. Off(given[b]) = 0
  BY <1>4, <1>5, OffIs
<1>7. q.due = Larger(0, Worth(q.lines) - Off(given[b]))
  BY <1>1, <1>3, <1>6 DEF Larger
<1>8. BillBecomes(b, q, given[b])
  BY <1>2, <1>4 DEF OpenBill, BillBecomes
<1>9. /\ bill' \in [Bills -> BillRow] /\ given' \in [Bills -> [Codes -> Nat \cup {NotGiven}]]
      /\ BillsAddUp' /\ bill'[b] = q /\ \A d \in Bills \ {b} : bill'[d] = bill[d]
  BY <1>3, <1>4, <1>5, <1>7, <1>8, OneBill
<1>10. \A d \in Bills : On(d)' = On(d) /\ (bill[d].status # "none" => bill'[d].status # "none")
  BY <1>3, <1>9 DEF OpenBill, On
<1> QED BY <1>9, <1>10, SameCodesOn DEF OpenBill

LEMMA EndKeeps ==
  ASSUME DiscountsInv, NEW b \in Bills, NEW paid \in BOOLEAN, EndBill(b, paid)
  PROVE  DiscountsInv'
<1>1. /\ bill[b] \in BillRow /\ bill \in [Bills -> BillRow] /\ given[b] \in [Codes -> Nat \cup {NotGiven}]
      /\ given \in [Bills -> [Codes -> Nat \cup {NotGiven}]]
  BY DEF DiscountsInv, DiscountTypes
<1>2. PICK q : q = IF paid THEN [bill[b] EXCEPT !.paid = TRUE] ELSE [bill[b] EXCEPT !.status = "canceled"]
  OBVIOUS
<1>3. q \in BillRow /\ q.lines = bill[b].lines /\ q.due = bill[b].due /\ q.status \in {"canceled", bill[b].status}
  <2>1. CASE paid
    BY <1>1, <1>2, <2>1 DEF BillRow
  <2>2. CASE ~paid
    BY <1>1, <1>2, <2>2 DEF BillRow
  <2> QED BY <2>1, <2>2
<1>4. /\ q.due = Larger(0, Worth(q.lines) - Off(given[b]))
      /\ \A c \in Codes : given[b][c] = NotGiven \/ given[b][c] <= Worth(q.lines)
  BY <1>3 DEF DiscountsInv, BillsAddUp, On
<1>5. BillBecomes(b, q, given[b])
  BY <1>1, <1>2 DEF EndBill, BillBecomes
<1>6. /\ bill' \in [Bills -> BillRow] /\ given' \in [Bills -> [Codes -> Nat \cup {NotGiven}]]
      /\ BillsAddUp' /\ bill'[b] = q /\ \A d \in Bills \ {b} : bill'[d] = bill[d]
  BY <1>1, <1>3, <1>4, <1>5, OneBill
<1>7. \A d \in Bills : On(d)' = On(d) /\ (bill[d].status # "none" => bill'[d].status # "none")
  BY <1>3, <1>6 DEF EndBill, On
<1> QED BY <1>6, <1>7, SameCodesOn DEF EndBill

LEMMA ReworkedIs ==
  ASSUME DiscountsInv, NEW b \in Bills, NEW lines \in DishLines
  PROVE  /\ Reworked(b, lines) \in [Codes -> Nat \cup {NotGiven}]
         /\ \A c \in Codes : /\ Reworked(b, lines)[c] = NotGiven <=> c \notin On(b)
                             /\ c \in On(b) => Reworked(b, lines)[c] <= Worth(lines)
<1>1. ASSUME NEW c \in On(b)
      PROVE  AmountOff(c, lines, 0) \in Nat /\ AmountOff(c, lines, 0) <= Worth(lines)
  <2>1. c \in Codes /\ UsedOnce(c, b) /\ DiscountTypes
    BY DEF On, DiscountsInv, AllUsedOnce
  <2>2. discount[c].terms \in TermRow
    BY <2>1, CodeRowIs DEF UsedOnce
  <2> QED BY <2>1, <2>2, AmountIs
<1>2. \A n \in Nat : n # NotGiven
  BY DEF NotGiven
<1> QED BY <1>1, <1>2 DEF Reworked

LEMMA LinesKeep ==
  ASSUME DiscountsInv, NEW b \in Bills, NEW lines \in Baskets, ChangeLines(b, lines)
  PROVE  DiscountsInv'
<1>1. lines \in DishLines /\ bill[b] \in BillRow
  BY GivenDiscounts DEF DiscountsInv, DiscountTypes
<1>2. PICK amounts \in [Codes -> Nat \cup {NotGiven}] : amounts = Reworked(b, lines)
  BY <1>1, ReworkedIs
<1>3. PICK w \in Nat : w = Worth(lines)
  BY <1>1, WorthIs
<1>4. PICK o \in Nat : o = Off(amounts)
  BY OffIs
<1>5. PICK q : q = [bill[b] EXCEPT !.lines = lines, !.off = Smaller(o, w), !.due = Larger(0, w - Smaller(o, w))]
  OBVIOUS
<1>6. Smaller(o, w) \in Int /\ Larger(0, w - Smaller(o, w)) \in Int
  BY DEF Smaller, Larger
<1>7. q \in BillRow /\ q.lines = lines /\ q.due = Larger(0, w - Smaller(o, w)) /\ q.status = bill[b].status
  BY <1>1, <1>5, <1>6 DEF BillRow
<1>8. q.due = Larger(0, Worth(q.lines) - Off(amounts))
  <2>1. Larger(0, w - Smaller(o, w)) = Larger(0, w - o)
    BY DEF Smaller, Larger
  <2> QED BY <1>3, <1>4, <1>7, <2>1
<1>9. BillBecomes(b, q, amounts)
  BY <1>2, <1>3, <1>4, <1>5 DEF ChangeLines, BillBecomes
<1>10. \A c \in Codes : amounts[c] = NotGiven \/ amounts[c] <= Worth(q.lines)
  BY <1>1, <1>2, <1>7, ReworkedIs
<1>11. /\ bill' \in [Bills -> BillRow] /\ given' \in [Bills -> [Codes -> Nat \cup {NotGiven}]]
       /\ BillsAddUp' /\ bill'[b] = q
       /\ \A d \in Bills \ {b} : bill'[d] = bill[d] /\ On(d)' = On(d)
       /\ On(b)' = {c \in Codes : amounts[c] # NotGiven}
  BY <1>7, <1>8, <1>9, <1>10, OneBill
<1>12. On(b)' = On(b)
  BY <1>1, <1>2, <1>11, ReworkedIs DEF On
<1>13. \A d \in Bills : On(d)' = On(d) /\ (bill[d].status # "none" => bill'[d].status # "none")
  BY <1>7, <1>11, <1>12
<1> QED BY <1>11, <1>13, SameCodesOn DEF ChangeLines
-----------------------------------------------------------------------------
(* Discounts: a code is put on a bill, or taken off it                     *)

LEMMA SettleIs ==
  ASSUME DiscountsInv, NEW b \in Bills, NEW amounts \in [Codes -> Nat \cup {NotGiven}]
  PROVE  /\ Settle(b, amounts) \in BillRow /\ Settle(b, amounts).lines = bill[b].lines
         /\ Settle(b, amounts).status = bill[b].status
         /\ Settle(b, amounts).due = Larger(0, Worth(bill[b].lines) - Off(amounts))
<1>1. bill[b] \in BillRow
  BY DEF DiscountsInv, DiscountTypes
<1>2. PICK w \in Nat : w = Worth(bill[b].lines)
  BY <1>1, BillRowIs, WorthIs
<1>3. PICK o \in Nat : o = Off(amounts)
  BY OffIs
<1>4. Larger(0, w - o) \in Int
  BY DEF Larger
<1>5. PICK q : q = [bill[b] EXCEPT !.off = o, !.due = Larger(0, w - o)]
  OBVIOUS
<1>6. /\ q \in BillRow /\ q.lines = bill[b].lines /\ q.status = bill[b].status
      /\ q.due = Larger(0, w - o)
  <2>1. bill[b] = [lines |-> bill[b].lines, off |-> bill[b].off, due |-> bill[b].due, paid |-> bill[b].paid,
                   status |-> bill[b].status]
    BY <1>1 DEF BillRow
  <2>2. q = [lines |-> bill[b].lines, off |-> o, due |-> Larger(0, w - o), paid |-> bill[b].paid,
             status |-> bill[b].status]
    BY <1>5, <2>1
  <2>3. bill[b].lines \in DishLines /\ bill[b].paid \in BOOLEAN /\ bill[b].status \in {"none", "open", "canceled"}
    BY <1>1 DEF BillRow
  <2>4. o \in Int
    BY <1>3
  <2> QED BY <1>4, <2>2, <2>3, <2>4 DEF BillRow
<1> QED BY <1>2, <1>3, <1>5, <1>6 DEF Settle

LEMMA CountedIs ==
  ASSUME DiscountsInv, NEW c \in Codes, Known(c), NEW n \in Int
  PROVE  /\ Counted(c, n) \in [Codes -> {NoCode} \cup CodeRow]
         /\ Counted(c, n)[c] \in CodeRow
         /\ Counted(c, n)[c].used = Larger(0, discount[c].used + n)
         /\ Counted(c, n)[c].terms = discount[c].terms
         /\ \A d \in Codes \ {c} : Counted(c, n)[d] = discount[d]
<1>1. discount \in [Codes -> {NoCode} \cup CodeRow] /\ discount[c] \in CodeRow
  BY CodeRowIs DEF DiscountsInv, DiscountTypes
<1>2. PICK m \in Nat : m = discount[c].used
  BY <1>1, CodeRowIs
<1>3. Larger(0, m + n) \in Nat
  BY DEF Larger
<1>4. PICK q : q = [discount[c] EXCEPT !.used = Larger(0, m + n)]
  OBVIOUS
<1>5. q \in CodeRow /\ q.used = Larger(0, m + n) /\ q.terms = discount[c].terms
  BY <1>1, <1>3, <1>4 DEF CodeRow
<1>6. Counted(c, n) = [discount EXCEPT ![c] = q]
  BY <1>1, <1>2, <1>4 DEF Counted
<1> QED BY <1>1, <1>2, <1>5, <1>6

\* What is left to show once the bill adds up: who used what, and how often.
LEMMA UsesStay ==
  ASSUME DiscountsInv, NEW c \in Codes, NEW b \in Bills, NEW n \in Int, Known(c),
         discount' = Counted(c, n), outdated' = outdated, form' = form,
         asked' \in [Guests -> {Nobody} \cup Bills \X Codes],
         bill' \in [Bills -> BillRow], given' \in [Bills -> [Codes -> Nat \cup {NotGiven}]], BillsAddUp',
         \A d \in Bills : bill'[d].status = bill[d].status,
         \A d \in Codes, e \in Bills : <<d, e>> # <<c, b>> => (d \in On(e)' <=> d \in On(e)),
         uses' \subseteq Guests \X Codes \X Bills, IsFiniteSet(uses'),
         \A u : ~(u[2] = c /\ u[3] = b) => (u \in uses' <=> u \in uses),
         UsedOnce(c, b)',
         Cardinality(UsesOf(c)') = Cardinality(BillsOf(c)'),
         c \notin outdated => discount'[c].used = Cardinality(BillsOf(c)')
  PROVE  DiscountsInv'
<1>1. \A d \in Codes : Known(d)' = Known(d)
  <2>1. DiscountTypes
    BY DEF DiscountsInv
  <2>2. \A d \in Codes : discount'[d] = discount[d] \/ (d = c /\ discount'[d] \in CodeRow)
    BY CountedIs
  <2> QED BY <2>1, <2>2, CodeRowIs DEF Known
<1>2. DiscountTypes'
  <2>1. FilledFits'
    BY <1>1 DEF DiscountsInv, DiscountTypes, FilledFits
  <2>2. discount' \in [Codes -> {NoCode} \cup CodeRow]
    BY CountedIs
  <2> QED BY <2>1, <2>2 DEF DiscountTypes
<1>3. AllUsedOnce'
  <2> SUFFICES ASSUME NEW d \in Codes, NEW e \in Bills PROVE UsedOnce(d, e)'
    BY DEF AllUsedOnce
  <2>1. CASE <<d, e>> = <<c, b>>
    BY <2>1
  <2>2. CASE <<d, e>> # <<c, b>>
    <3>1. UsedOnce(d, e) /\ (d \in On(e)' <=> d \in On(e)) /\ bill'[e].status = bill[e].status
      BY <2>2 DEF DiscountsInv, AllUsedOnce
    <3>2. \A u : (u[2] = d /\ u[3] = e) => (u \in uses' <=> u \in uses)
      BY <2>2
    <3>3. Known(d)' = Known(d)
      BY <1>1
    <3>4. \A g \in Guests : (\A u \in uses : (u[2] = d /\ u[3] = e) <=> u = <<g, d, e>>)
                         => (\A u \in uses' : (u[2] = d /\ u[3] = e) <=> u = <<g, d, e>>)
      BY <3>2
    <3>5. (\E u \in uses' : u[2] = d /\ u[3] = e) <=> (\E u \in uses : u[2] = d /\ u[3] = e)
      BY <3>2
    <3> QED BY <3>1, <3>3, <3>4, <3>5 DEF UsedOnce
  <2> QED BY <2>1, <2>2
<1>4. AllCounting'
  <2> SUFFICES ASSUME NEW d \in Codes PROVE Counting(d)'
    BY DEF AllCounting
  <2>1. CASE d = c
    BY <2>1 DEF Counting
  <2>2. CASE d # c
    <3>1. UsesOf(d)' = UsesOf(d)
      BY <2>2 DEF UsesOf
    <3>2. BillsOf(d)' = BillsOf(d)
      BY <2>2 DEF BillsOf
    <3>3. discount'[d] = discount[d] /\ Known(d)' = Known(d) /\ Counting(d)
      BY <1>1, <2>2, CountedIs DEF DiscountsInv, AllCounting
    <3> QED BY <3>1, <3>2, <3>3 DEF Counting
  <2> QED BY <2>1, <2>2
<1> QED BY <1>2, <1>3, <1>4 DEF DiscountsInv

LEMMA PuttingOnKeeps ==
  ASSUME DiscountsInv, NEW g \in Guests, ApplyToOrder(g)
  PROVE  DiscountsInv'
<1>1. PICK b \in Bills, c \in Codes : asked[g] = <<b, c>>
  <2>1. asked[g] \in Bills \X Codes
    BY DEF ApplyToOrder, DiscountsInv, DiscountTypes
  <2> QED BY <2>1
<1>2. PICK off : off = AmountOff(c, bill[b].lines, Off(given[b]))
  OBVIOUS
<1>3. PICK amounts : amounts = [given[b] EXCEPT ![c] = off]
  OBVIOUS
<1>4. /\ MayApply(g, b, c) /\ given' = [given EXCEPT ![b] = amounts]
      /\ uses' = uses \cup {<<g, c, b>>} /\ discount' = Counted(c, 1)
      /\ bill' = [bill EXCEPT ![b] = Settle(b, amounts)]
      /\ asked' = [asked EXCEPT ![g] = Nobody] /\ form' = form /\ outdated' = outdated
  BY <1>1, <1>2, <1>3 DEF ApplyToOrder, Usage
<1>5. Known(c) /\ c \notin On(b) /\ bill[b].status = "open"
  BY <1>4 DEF MayApply, Live, Known
<1>6. /\ bill[b].lines \in DishLines /\ given[b] \in [Codes -> Nat \cup {NotGiven}] /\ DiscountTypes
      /\ discount[c].terms \in TermRow /\ discount[c].used \in Nat
  BY <1>5, CodeRowIs, BillRowIs DEF DiscountsInv, DiscountTypes
<1>7. off \in Nat /\ off <= Worth(bill[b].lines) /\ off # NotGiven
  <2>1. off \in Nat /\ off <= Worth(bill[b].lines)
    BY <1>2, <1>6, OffIs, AmountIs
  <2> QED BY <2>1 DEF NotGiven
<1>8. /\ amounts \in [Codes -> Nat \cup {NotGiven}] /\ amounts[c] = off
      /\ \A d \in Codes \ {c} : amounts[d] = given[b][d]
  BY <1>3, <1>6, <1>7
<1>9. \A d \in Codes : amounts[d] = NotGiven \/ amounts[d] <= Worth(bill[b].lines)
  BY <1>7, <1>8 DEF DiscountsInv, BillsAddUp, On
<1>10. /\ bill' \in [Bills -> BillRow] /\ given' \in [Bills -> [Codes -> Nat \cup {NotGiven}]]
       /\ BillsAddUp' /\ bill'[b] = Settle(b, amounts) /\ Settle(b, amounts).status = bill[b].status
       /\ \A d \in Bills \ {b} : bill'[d] = bill[d] /\ On(d)' = On(d)
       /\ On(b)' = {d \in Codes : amounts[d] # NotGiven}
  <2>1. PICK q \in BillRow : q = Settle(b, amounts)
    BY SettleIs, <1>8
  <2>2. q.lines = bill[b].lines /\ q.status = bill[b].status /\ q.due = Larger(0, Worth(q.lines) - Off(amounts))
    BY <2>1, SettleIs, <1>8
  <2>3. BillBecomes(b, q, amounts)
    BY <1>4, <2>1 DEF BillBecomes
  <2>4. \A d \in Codes : amounts[d] = NotGiven \/ amounts[d] <= Worth(q.lines)
    BY <1>9, <2>2
  <2>5. amounts \in [Codes -> Nat \cup {NotGiven}]
    BY <1>8
  <2>6. /\ bill' \in [Bills -> BillRow] /\ given' \in [Bills -> [Codes -> Nat \cup {NotGiven}]]
        /\ BillsAddUp' /\ bill'[b] = q
        /\ \A d \in Bills \ {b} : bill'[d] = bill[d] /\ On(d)' = On(d)
        /\ On(b)' = {d \in Codes : amounts[d] # NotGiven}
    BY <2>1, <2>2, <2>3, <2>4, <2>5, OneBill
  <2> QED BY <2>1, <2>2, <2>6
<1>11. On(b)' = On(b) \cup {c}
  BY <1>7, <1>8, <1>10 DEF On
<1>12. UsedOnce(c, b) /\ Counting(c)
  BY DEF DiscountsInv, AllUsedOnce, AllCounting
<1>13. UsedOnce(c, b)'
  <2>1. ~\E u \in uses : u[2] = c /\ u[3] = b
    BY <1>5, <1>12 DEF UsedOnce
  <2>2. \A u \in uses' : (u[2] = c /\ u[3] = b) <=> u = <<g, c, b>>
    BY <1>4, <2>1
  <2>3. \E u \in uses' : u[2] = c /\ u[3] = b
    <3>1. PICK u : u = <<g, c, b>>
      OBVIOUS
    <3>2. u \in uses' /\ u[2] = c /\ u[3] = b
      BY <1>4, <3>1
    <3> QED BY <3>2
  <2>4. c \in On(b)' /\ bill'[b].status # "none"
    BY <1>5, <1>10, <1>11
  <2>5. Known(c)'
    <3>1. discount'[c] \in CodeRow
      BY <1>4, <1>5, CountedIs
    <3> QED BY <3>1, CodeRowIs DEF Known
  <2> QED BY <2>2, <2>3, <2>4, <2>5 DEF UsedOnce
<1>14. BillsOf(c)' = BillsOf(c) \cup {b} /\ b \notin BillsOf(c)
  BY <1>5, <1>10, <1>11 DEF BillsOf
<1>15. UsesOf(c)' = UsesOf(c) \cup {<<g, c, b>>} /\ <<g, c, b>> \notin UsesOf(c)
  BY <1>4, <1>5, <1>12 DEF UsesOf, UsedOnce
<1>16. IsFiniteSet(BillsOf(c)) /\ IsFiniteSet(UsesOf(c)) /\ IsFiniteSet(uses)
  BY <1>6, GivenDiscounts, FS_Subset DEF BillsOf, UsesOf, DiscountTypes
<1>17. /\ Cardinality(BillsOf(c)') = Cardinality(BillsOf(c)) + 1 /\ Cardinality(BillsOf(c)) \in Nat
       /\ Cardinality(UsesOf(c)') = Cardinality(UsesOf(c)) + 1
  BY <1>14, <1>15, <1>16, FS_AddElement, FS_CardinalityType
<1>18. c \notin outdated => discount'[c].used = Cardinality(BillsOf(c)')
  <2>1. discount'[c].used = Larger(0, discount[c].used + 1)
    BY <1>4, <1>5, CountedIs
  <2>2. discount'[c].used = discount[c].used + 1
    BY <1>6, <2>1 DEF Larger
  <2> QED BY <1>5, <1>12, <1>17, <2>2 DEF Counting
<1>19. IsFiniteSet(uses') /\ uses' \subseteq Guests \X Codes \X Bills
  <2>1. IsFiniteSet(uses')
    BY <1>4, <1>16, FS_AddElement
  <2>2. uses \subseteq Guests \X Codes \X Bills
    BY <1>6 DEF DiscountTypes
  <2>3. <<g, c, b>> \in Guests \X Codes \X Bills
    OBVIOUS
  <2> QED BY <1>4, <2>1, <2>2, <2>3
<1>20. asked' \in [Guests -> {Nobody} \cup Bills \X Codes]
  BY <1>4, <1>6 DEF DiscountTypes
<1>21. \A d \in Bills : bill'[d].status = bill[d].status
  BY <1>10
<1>22. \A d \in Codes, e \in Bills : <<d, e>> # <<c, b>> => (d \in On(e)' <=> d \in On(e))
  BY <1>10, <1>11
<1>23. \A u : ~(u[2] = c /\ u[3] = b) => (u \in uses' <=> u \in uses)
  BY <1>4
<1>24. Cardinality(UsesOf(c)') = Cardinality(BillsOf(c)')
  BY <1>12, <1>17 DEF Counting
<1>25. /\ discount' = Counted(c, 1) /\ outdated' = outdated /\ form' = form /\ Known(c) /\ 1 \in Int
       /\ bill' \in [Bills -> BillRow] /\ given' \in [Bills -> [Codes -> Nat \cup {NotGiven}]] /\ BillsAddUp'
  BY <1>4, <1>5, <1>10
<1> QED BY <1>13, <1>18, <1>19, <1>20, <1>21, <1>22, <1>23, <1>24, <1>25, UsesStay

LEMMA TakingOffKeeps ==
  ASSUME DiscountsInv, NEW b \in Bills, NEW c \in Codes, RemoveFromOrder(b, c)
  PROVE  DiscountsInv'
<1>1. PICK amounts : amounts = [given[b] EXCEPT ![c] = NotGiven]
  OBVIOUS
<1>2. /\ c \in On(b) /\ given' = [given EXCEPT ![b] = amounts]
      /\ uses' = {u \in uses : ~(u[2] = c /\ u[3] = b)} /\ discount' = Counted(c, -1)
      /\ bill' = [bill EXCEPT ![b] = Settle(b, amounts)]
      /\ asked' = asked /\ form' = form /\ outdated' = outdated
  BY <1>1 DEF RemoveFromOrder
<1>3. UsedOnce(c, b) /\ Counting(c) /\ DiscountTypes
  BY DEF DiscountsInv, AllUsedOnce, AllCounting
<1>4. Known(c)
  BY <1>2, <1>3 DEF UsedOnce
<1>5. /\ bill[b].lines \in DishLines /\ given[b] \in [Codes -> Nat \cup {NotGiven}]
      /\ discount[c].used \in Nat
  BY <1>3, <1>4, CodeRowIs, BillRowIs DEF DiscountTypes
<1>6. /\ amounts \in [Codes -> Nat \cup {NotGiven}] /\ amounts[c] = NotGiven
      /\ \A d \in Codes \ {c} : amounts[d] = given[b][d]
  BY <1>1, <1>5
<1>7. \A d \in Codes : amounts[d] = NotGiven \/ amounts[d] <= Worth(bill[b].lines)
  BY <1>6 DEF DiscountsInv, BillsAddUp, On
<1>8. /\ bill' \in [Bills -> BillRow] /\ given' \in [Bills -> [Codes -> Nat \cup {NotGiven}]]
      /\ BillsAddUp' /\ bill'[b] = Settle(b, amounts) /\ Settle(b, amounts).status = bill[b].status
      /\ \A d \in Bills \ {b} : bill'[d] = bill[d] /\ On(d)' = On(d)
      /\ On(b)' = {d \in Codes : amounts[d] # NotGiven}
  <2>1. PICK q \in BillRow : q = Settle(b, amounts)
    BY SettleIs, <1>6
  <2>2. q.lines = bill[b].lines /\ q.status = bill[b].status /\ q.due = Larger(0, Worth(q.lines) - Off(amounts))
    BY <2>1, SettleIs, <1>6
  <2>3. BillBecomes(b, q, amounts)
    BY <1>2, <2>1 DEF BillBecomes
  <2>4. \A d \in Codes : amounts[d] = NotGiven \/ amounts[d] <= Worth(q.lines)
    BY <1>7, <2>2
  <2>5. amounts \in [Codes -> Nat \cup {NotGiven}]
    BY <1>6
  <2>6. /\ bill' \in [Bills -> BillRow] /\ given' \in [Bills -> [Codes -> Nat \cup {NotGiven}]]
        /\ BillsAddUp' /\ bill'[b] = q
        /\ \A d \in Bills \ {b} : bill'[d] = bill[d] /\ On(d)' = On(d)
        /\ On(b)' = {d \in Codes : amounts[d] # NotGiven}
    BY <2>1, <2>2, <2>3, <2>4, <2>5, OneBill
  <2> QED BY <2>1, <2>2, <2>6
<1>9. On(b)' = On(b) \ {c}
  BY <1>6, <1>8 DEF On
<1>10. UsedOnce(c, b)'
  BY <1>2, <1>9 DEF UsedOnce
<1>11. PICK g \in Guests : /\ \A u \in uses : (u[2] = c /\ u[3] = b) <=> u = <<g, c, b>>
                           /\ <<g, c, b>> \in uses
  BY <1>2, <1>3 DEF UsedOnce
<1>12. BillsOf(c)' = BillsOf(c) \ {b} /\ b \in BillsOf(c)
  BY <1>2, <1>8, <1>9 DEF BillsOf
<1>13. UsesOf(c)' = UsesOf(c) \ {<<g, c, b>>} /\ <<g, c, b>> \in UsesOf(c)
  BY <1>2, <1>11 DEF UsesOf
<1>14. IsFiniteSet(BillsOf(c)) /\ IsFiniteSet(UsesOf(c)) /\ IsFiniteSet(uses)
  BY <1>3, GivenDiscounts, FS_Subset DEF BillsOf, UsesOf, DiscountTypes
<1>15. /\ Cardinality(BillsOf(c)') = Cardinality(BillsOf(c)) - 1 /\ Cardinality(BillsOf(c)) \in Nat
       /\ Cardinality(UsesOf(c)') = Cardinality(UsesOf(c)) - 1 /\ Cardinality(BillsOf(c)') \in Nat
  <2>1. Cardinality(BillsOf(c)') = Cardinality(BillsOf(c)) - 1 /\ IsFiniteSet(BillsOf(c)')
    BY <1>12, <1>14, FS_RemoveElement
  <2>2. Cardinality(UsesOf(c)') = Cardinality(UsesOf(c)) - 1
    BY <1>13, <1>14, FS_RemoveElement
  <2> QED BY <1>14, <2>1, <2>2, FS_CardinalityType
<1>16. c \notin outdated => discount'[c].used = Cardinality(BillsOf(c)')
  <2>1. discount'[c].used = Larger(0, discount[c].used + -1)
    BY <1>2, <1>4, CountedIs
  <2>2. c \notin outdated => discount[c].used = Cardinality(BillsOf(c))
    BY <1>3, <1>4 DEF Counting
  <2> QED BY <1>15, <2>1, <2>2 DEF Larger
<1>17. IsFiniteSet(uses') /\ uses' \subseteq Guests \X Codes \X Bills
  BY <1>2, <1>3, <1>14, FS_Subset DEF DiscountTypes
<1>18. asked' \in [Guests -> {Nobody} \cup Bills \X Codes]
  BY <1>2, <1>3 DEF DiscountTypes
<1>19. \A d \in Bills : bill'[d].status = bill[d].status
  BY <1>8
<1>20. \A d \in Codes, e \in Bills : <<d, e>> # <<c, b>> => (d \in On(e)' <=> d \in On(e))
  BY <1>8, <1>9
<1>21. \A u : ~(u[2] = c /\ u[3] = b) => (u \in uses' <=> u \in uses)
  BY <1>2
<1>22. Cardinality(UsesOf(c)') = Cardinality(BillsOf(c)')
  BY <1>3, <1>15 DEF Counting
<1> QED BY <1>2, <1>4, <1>8, <1>10, <1>16, <1>17, <1>18, <1>19, <1>20, <1>21, <1>22, UsesStay

LEMMA DiscountsKeep == DiscountsInv /\ [DiscountsNext]_discountVars => DiscountsInv'
<1> SUFFICES ASSUME DiscountsInv, [DiscountsNext]_discountVars PROVE DiscountsInv'
  OBVIOUS
<1>1. CASE UNCHANGED discountVars
  <2>1. UNCHANGED <<discount, bill, given, uses, asked, form, outdated>>
    BY <1>1 DEF discountVars
  <2>2. DiscountTypes'
    BY <2>1 DEF DiscountsInv, DiscountTypes, FilledFits, Known
  <2> QED BY <2>1, <2>2, NoCodeChanges
<1>2. ASSUME NEW c \in Codes, \/ \E k \in Kinds : \E terms \in Offers[c] : CreateDiscount(c, k, terms)
                              \/ Toggle(c) \/ DeleteDiscount(c)
      PROVE  DiscountsInv'
  BY <1>2, CodesKeep
<1>3. ASSUME NEW c \in Codes, FillForm(c) PROVE DiscountsInv'
  BY <1>3, FillKeeps
<1>4. ASSUME NEW active \in BOOLEAN, form # Nobody, NEW terms \in Offers[form[1]], SaveForm(terms, active)
      PROVE  DiscountsInv'
  BY <1>4, FilledFormKeeps
<1>5. ASSUME NEW g \in Guests, \/ \E b \in Bills, c \in Codes : Validate(g, b, c)
                               \/ RefuseToApply(g)
      PROVE  DiscountsInv'
  BY <1>5, AskingKeeps
<1>6. ASSUME NEW g \in Guests, ApplyToOrder(g) PROVE DiscountsInv'
  BY <1>6, PuttingOnKeeps
<1>7. ASSUME NEW b \in Bills, NEW c \in Codes, RemoveFromOrder(b, c) PROVE DiscountsInv'
  BY <1>7, TakingOffKeeps
<1>8. ASSUME NEW b \in Bills, NEW lines \in Baskets, OpenBill(b, lines) \/ ChangeLines(b, lines)
      PROVE  DiscountsInv'
  BY <1>8, OpenKeeps, LinesKeep
<1>9. ASSUME NEW b \in Bills, NEW paid \in BOOLEAN, EndBill(b, paid) PROVE DiscountsInv'
  BY <1>9, EndKeeps
<1>10. ASSUME \/ \E k \in Kinds, m \in TypesOfDiscount : CreateKind(k, m) \/ UpdateKind(k, m)
              \/ \E k \in Kinds : DeleteKind(k)
              \/ NextDay
       PROVE  DiscountsInv'
  BY <1>10, RowsKeep
<1> QED BY <1>1, <1>2, <1>3, <1>4, <1>5, <1>6, <1>7, <1>8, <1>9, <1>10 DEF DiscountsNext
-----------------------------------------------------------------------------
(* Discounts: the limits                                                   *)

\* Nothing but apply_to_order puts a code on a bill.
LEMMA OnlyApplying ==
  ASSUME DiscountsInv, DiscountsNext, NEW c \in Codes, NEW b \in Bills,
         given[b][c] = NotGiven, given'[b][c] # NotGiven
  PROVE  \E g \in Guests : ApplyToOrder(g)
<1>1. given \in [Bills -> [Codes -> Nat \cup {NotGiven}]]
  BY DEF DiscountsInv, DiscountTypes
<1>2. given' # given
  OBVIOUS
<1>3. ASSUME NEW d \in Bills, NEW lines \in Baskets, ChangeLines(d, lines) PROVE FALSE
  <2>1. given' = [given EXCEPT ![d] = Reworked(d, lines)]
    BY <1>3 DEF ChangeLines
  <2>2. d = b /\ given'[b] = Reworked(b, lines)
    BY <1>1, <2>1
  <2>3. lines \in DishLines
    BY GivenDiscounts
  <2> QED BY <2>2, <2>3, ReworkedIs DEF On
<1>4. ASSUME NEW d \in Bills, NEW e \in Codes, RemoveFromOrder(d, e) PROVE FALSE
  <2>1. given' = [given EXCEPT ![d] = [given[d] EXCEPT ![e] = NotGiven]]
    BY <1>4 DEF RemoveFromOrder
  <2> QED BY <1>1, <2>1
<1>5. /\ \A k \in Kinds, m \in TypesOfDiscount : ~CreateKind(k, m) /\ ~UpdateKind(k, m)
      /\ \A k \in Kinds : ~DeleteKind(k)
  BY <1>2 DEF CreateKind, UpdateKind, DeleteKind
<1>6. \A d \in Codes : /\ \A k \in Kinds : \A terms \in Offers[d] : ~CreateDiscount(d, k, terms)
                       /\ ~FillForm(d) /\ ~Toggle(d) /\ ~DeleteDiscount(d)
  BY <1>2 DEF CreateDiscount, FillForm, Toggle, DeleteDiscount
<1>7. /\ \A active \in BOOLEAN : \A terms \in Offers[form[1]] : ~SaveForm(terms, active)
      /\ \A g \in Guests, d \in Bills, e \in Codes : ~Validate(g, d, e)
      /\ \A g \in Guests : ~RefuseToApply(g)
  BY <1>2 DEF SaveForm, Validate, RefuseToApply
<1>8. /\ \A d \in Bills, lines \in Baskets : ~OpenBill(d, lines)
      /\ \A d \in Bills, paid \in BOOLEAN : ~EndBill(d, paid)
      /\ ~NextDay
  BY <1>2 DEF OpenBill, EndBill, NextDay
<1> QED BY <1>3, <1>4, <1>5, <1>6, <1>7, <1>8 DEF DiscountsNext

LEMMA ApplyingIsLimited ==
  ASSUME DiscountsInv, NEW c \in Codes, NEW b \in Bills, NEW g \in Guests, ApplyToOrder(g),
         given[b][c] = NotGiven, given'[b][c] # NotGiven
  PROVE  /\ asked[g] = <<b, c>> /\ MayApply(g, b, c)
         /\ uses' = uses \cup {<<g, c, b>>} /\ discount' = Counted(c, 1)
<1>1. asked[g] \in Bills \X Codes /\ given \in [Bills -> [Codes -> Nat \cup {NotGiven}]]
  BY DEF ApplyToOrder, DiscountsInv, DiscountTypes
<1>2. PICK d \in Bills, e \in Codes : asked[g] = <<d, e>>
  BY <1>1
<1>3. PICK off : off = AmountOff(e, bill[d].lines, Off(given[d]))
  OBVIOUS
<1>4. /\ MayApply(g, d, e) /\ given' = [given EXCEPT ![d] = [given[d] EXCEPT ![e] = off]]
      /\ uses' = uses \cup {<<g, e, d>>} /\ discount' = Counted(e, 1)
  BY <1>2, <1>3 DEF ApplyToOrder, Usage
<1>5. d = b /\ e = c
  BY <1>1, <1>4
<1> QED BY <1>2, <1>4, <1>5

LEMMA LimitsKeep == DiscountsInv /\ DiscountsNext => LimitsAreKept
<1> SUFFICES ASSUME DiscountsInv, DiscountsNext, NEW c \in Codes, NEW b \in Bills,
                    given[b][c] = NotGiven, given'[b][c] # NotGiven
             PROVE  /\ discount[c].terms.limit = 0 \/ discount'[c].used <= discount[c].terms.limit
                    /\ discount[c].terms.each = 0 \/ \A h \in Guests :
                         Cardinality({u \in uses' : u[1] = h /\ u[2] = c}) <= Larger(discount[c].terms.each,
                         Cardinality({u \in uses : u[1] = h /\ u[2] = c}))
                    /\ On(b) # {} => \A d \in On(b) \cup {c} : discount[d].terms.stackable
  BY DEF LimitsAreKept
<1>1. PICK g \in Guests : ApplyToOrder(g)
  BY OnlyApplying
<1>2. MayApply(g, b, c) /\ uses' = uses \cup {<<g, c, b>>} /\ discount' = Counted(c, 1)
  BY <1>1, ApplyingIsLimited
<1>3. Known(c) /\ DiscountTypes
  BY <1>2 DEF MayApply, Live, Known, DiscountsInv
<1>4. discount[c].terms \in TermRow /\ discount[c].used \in Nat
  BY <1>3, CodeRowIs
<1>5. PICK limit, each \in Nat : limit = discount[c].terms.limit /\ each = discount[c].terms.each
  BY <1>4 DEF TermRow
<1>6. limit = 0 \/ discount'[c].used <= limit
  <2>1. ~Used(c)
    BY <1>2 DEF MayApply
  <2>2. discount'[c].used = Larger(0, discount[c].used + 1)
    BY <1>2, <1>3, CountedIs
  <2>3. discount'[c].used = discount[c].used + 1
    BY <1>4, <2>2 DEF Larger
  <2> QED BY <1>4, <1>5, <2>1, <2>3 DEF Used
<1>7. ASSUME each # 0, NEW h \in Guests
      PROVE  Cardinality({u \in uses' : u[1] = h /\ u[2] = c}) <= Larger(each,
             Cardinality({u \in uses : u[1] = h /\ u[2] = c}))
  <2>1. PICK before : before = {u \in uses : u[1] = h /\ u[2] = c}
    OBVIOUS
  <2>2. IsFiniteSet(before) /\ Cardinality(before) \in Nat
    <3>1. IsFiniteSet(uses) /\ before \subseteq uses
      BY <1>3, <2>1 DEF DiscountTypes
    <3> QED BY <3>1, FS_Subset, FS_CardinalityType
  <2>3. CASE h = g
    <3>1. {u \in uses' : u[1] = h /\ u[2] = c} = before \cup {<<g, c, b>>}
      BY <1>2, <2>1, <2>3
    <3>2. Cardinality(before \cup {<<g, c, b>>}) <= Cardinality(before) + 1
      <4>1. \/ Cardinality(before \cup {<<g, c, b>>}) = Cardinality(before)
            \/ Cardinality(before \cup {<<g, c, b>>}) = Cardinality(before) + 1
        BY <2>2, FS_AddElement
      <4> QED BY <2>2, <4>1
    <3>3. Cardinality(before) < each
      BY <1>2, <1>5, <1>7, <2>1, <2>2, <2>3 DEF MayApply, UsedBy
    <3>4. Cardinality(before \cup {<<g, c, b>>}) \in Nat
      BY <2>2, FS_AddElement, FS_CardinalityType
    <3>5. Cardinality(before \cup {<<g, c, b>>}) <= Larger(each, Cardinality(before))
      BY <2>2, <3>2, <3>3, <3>4 DEF Larger
    <3> QED BY <2>1, <3>1, <3>5
  <2>4. CASE h # g
    <3>1. {u \in uses' : u[1] = h /\ u[2] = c} = before
      BY <1>2, <2>1, <2>4
    <3>2. Cardinality(before) <= Larger(each, Cardinality(before))
      BY <2>2 DEF Larger
    <3> QED BY <2>1, <3>1, <3>2
  <2> QED BY <2>3, <2>4
<1>8. On(b) # {} => \A d \in On(b) \cup {c} : discount[d].terms.stackable
  BY <1>2 DEF MayApply
<1> QED BY <1>5, <1>6, <1>7, <1>8
-----------------------------------------------------------------------------
(* Files of HR: contracts and the events they leave, reviews, attendance   *)

ContractStatus == {"DRAFT", "ACTIVE", "TERMINATED", "RENEWED"}
ContractRow == [is : {"live"}, who : People, terms : Texts, status : ContractStatus,
                from : Contracts \cup {NoContract}]
ReviewRow == [is : {"live"}, status : {"DRAFT", "SUBMITTED", "ACKNOWLEDGED"}, text : Texts]
EventRow == {"HIRED", "CONTRACT_RENEWED", "CONTRACT_TERMINATED"}
              \X (Contracts \cup {NoContract}) \X (Contracts \cup {NoContract})
CameInRow == [is : {"in"}, from : Nat]
WentOutRow == [is : {"out"}, from : Nat, hours : Nat, overtime : Nat]
StaffTypes ==
  /\ contract \in [Contracts -> {Gone} \cup ContractRow]
  /\ review \in [Reviews -> {Gone} \cup ReviewRow]
  /\ events \in Seq(EventRow)
  /\ clock \in Nat
  /\ attendance \in [People \X Days -> {Gone} \cup CameInRow \cup WentOutRow]

OnFile(c) == contract[c].is = "live"
\* What a handler has read is a row that is still there.
FileCopyFits ==
  \/ copy = NoCopy
  \/ \E c \in Contracts : \E s \in ContractRow : copy = <<c, s>> /\ OnFile(c)
  \/ \E r \in Reviews : \E s \in ReviewRow : copy = <<r, s>> /\ review[r].is = "live"
\* Nobody came in, or was counted, later than it is.
InTime(x) ==
  /\ attendance[x].is \in {"in", "out"} => attendance[x].from <= clock
  /\ attendance[x].is = "out" => attendance[x].hours <= clock - attendance[x].from
AllInTime == \A x \in People \X Days : InTime(x)
\* The events and the heirs of a contract come after it.
EventsTell ==
  \A i \in DOMAIN events : \A c \in Contracts : c \in {events[i][2], events[i][3]} => OnFile(c)
HeirsTell == \A d \in Contracts : OnFile(d) /\ contract[d].from \in Contracts => OnFile(contract[d].from)
StaffInv ==
  StaffTypes /\ FileCopyFits /\ AllInTime /\ EventsTell /\ HeirsTell /\ ContractsChain
StaffKept == StaffInv' /\ FilesAreKept

LEMMA GivenStaff ==
  /\ Hours \subseteq Nat /\ Hours # {} /\ NoContract \notin Contracts /\ Contracts \cap Reviews = {}
BY PersonnelAssumption

\* The course of one contract.
Chained(c) ==
  contract[c].is = "live" =>
    /\ contract[c].status = "DRAFT" <=> Signed(c) = {}
    /\ contract[c].status \in {"DRAFT", "ACTIVE"} <=> Ended(c) = {}
    /\ \A i, j \in Ended(c) : i = j
    /\ \A i, j \in Signed(c) : i = j
    /\ contract[c].status = "RENEWED" <=> Heirs(c) # {}
    /\ \A d, e \in Heirs(c) : d = e
    /\ \A d \in Heirs(c) : contract[d].who = contract[c].who /\ contract[d].status # "DRAFT"

LEMMA ChainIs == ContractsChain <=> \A c \in Contracts \ spoiled : Chained(c)
BY DEF ContractsChain, Chained

\* Contracts stay where they are and are drafts once.
Lasts(d) ==
  OnFile(d) => /\ OnFile(d)' /\ contract'[d].who = contract[d].who /\ contract'[d].from = contract[d].from
             /\ (contract'[d].status = "DRAFT" => contract[d].status = "DRAFT")

\* A contract nobody touches goes on as it was.
LEMMA ChainedStays ==
  ASSUME NEW c \in Contracts, Chained(c), OnFile(c)' => OnFile(c) /\ contract'[c].status = contract[c].status,
         Signed(c)' = Signed(c), Ended(c)' = Ended(c), Heirs(c)' = Heirs(c),
         \A d \in Contracts : Lasts(d)
  PROVE  Chained(c)'
<1>1. \A d \in Heirs(c) : d \in Contracts /\ OnFile(d)
  BY DEF Heirs, OnFile
<1>2. ASSUME OnFile(c)' PROVE contract'[c].who = contract[c].who /\ contract'[c].status = contract[c].status
  BY <1>2 DEF Lasts
<1>3. \A d \in Heirs(c) : /\ contract'[d].who = contract[d].who
                          /\ contract[d].status # "DRAFT" => contract'[d].status # "DRAFT"
  BY <1>1 DEF Lasts
<1> QED BY <1>2, <1>3 DEF Chained, OnFile

\* What an event adds to the file.
LEMMA OneMoreEvent ==
  ASSUME events \in Seq(EventRow), NEW what, NEW old, NEW new, <<what, old, new>> \in EventRow,
         events' = Logged(what, old, new)
  PROVE  /\ events' \in Seq(EventRow)
         /\ DOMAIN events' = DOMAIN events \cup {Len(events) + 1}
         /\ Len(events) + 1 \notin DOMAIN events
         /\ \A i \in DOMAIN events : events'[i] = events[i]
         /\ events'[Len(events) + 1] = <<what, old, new>>
<1> DEFINE e == <<what, old, new>>
<1>1. e \in EventRow
  OBVIOUS
<1> HIDE DEF e
<1>2. events' = Append(events, e)
  BY DEF Logged, e
<1>3. /\ Append(events, e) \in Seq(EventRow) /\ Len(events) \in Nat
      /\ DOMAIN events = 1 .. Len(events) /\ DOMAIN Append(events, e) = 1 .. Len(events) + 1
      /\ \A i \in 1 .. Len(events) : Append(events, e)[i] = events[i]
      /\ Append(events, e)[Len(events) + 1] = e
  BY <1>1, OneMore
<1> QED BY <1>2, <1>3 DEF e

LEMMA EventsOf ==
  ASSUME events \in Seq(EventRow), NEW what, NEW old, NEW new, <<what, old, new>> \in EventRow,
         events' = Logged(what, old, new), NEW c
  PROVE  /\ Signed(c)' = IF new = c THEN Signed(c) \cup {Len(events) + 1} ELSE Signed(c)
         /\ Ended(c)' = IF old = c THEN Ended(c) \cup {Len(events) + 1} ELSE Ended(c)
         /\ Len(events) + 1 \notin Signed(c) /\ Len(events) + 1 \notin Ended(c)
<1> DEFINE m == Len(events) + 1
<1>1. /\ DOMAIN events' = DOMAIN events \cup {m} /\ m \notin DOMAIN events
      /\ \A i \in DOMAIN events : events'[i] = events[i]
      /\ events'[m] = <<what, old, new>>
  BY OneMoreEvent
<1>2. events'[m][3] = new /\ events'[m][2] = old
  BY <1>1
<1> HIDE DEF m
<1>3. Signed(c)' = {i \in DOMAIN events' : events'[i][3] = c} /\ Ended(c)' = {i \in DOMAIN events' : events'[i][2] = c}
  BY DEF Signed, Ended
<1> QED BY <1>1, <1>2, <1>3 DEF Signed, Ended, m

LEMMA SeenOnFile ==
  ASSUME StaffInv, NEW c \in Contracts, NEW s \in Seen(c, contract[c]), s.is = "live"
  PROVE  s \in ContractRow /\ OnFile(c)
<1>1. CASE s = contract[c]
  BY <1>1 DEF StaffInv, StaffTypes, OnFile, Gone
<1>2. CASE s # contract[c]
  <2>1. copy # NoCopy /\ copy[1] = c /\ s = copy[2]
    BY <1>2 DEF Seen
  <2>2. CASE \E r \in Reviews : \E q \in ReviewRow : copy = <<r, q>> /\ review[r].is = "live"
    <3>1. PICK r \in Reviews : \E q \in ReviewRow : copy = <<r, q>>
      BY <2>2
    <3>2. c = r
      BY <2>1, <3>1
    <3> QED BY <3>2, GivenStaff
  <2>3. CASE \E d \in Contracts : \E q \in ContractRow : copy = <<d, q>> /\ OnFile(d)
    <3>1. PICK d \in Contracts : \E q \in ContractRow : copy = <<d, q>> /\ OnFile(d)
      BY <2>3
    <3> QED BY <2>1, <3>1
  <2> QED BY <2>1, <2>2, <2>3 DEF StaffInv, FileCopyFits
<1> QED BY <1>1, <1>2

LEMMA WorkedSo ==
  ASSUME NEW doc, NEW old, NEW s, Worked(doc, old, s)
  PROVE  /\ spoiled \subseteq spoiled' /\ copy' \in {copy, NoCopy}
         /\ doc \notin spoiled' => s = old
BY DEF Worked

LEMMA FileCopyStays ==
  ASSUME FileCopyFits, copy' \in {copy, NoCopy}, \A c \in Contracts : OnFile(c) => OnFile(c)',
         \A r \in Reviews : review[r].is = "live" => review'[r].is = "live"
  PROVE  FileCopyFits'
<1>1. CASE copy' = NoCopy
  BY <1>1 DEF FileCopyFits
<1>2. CASE copy' = copy
  BY <1>2 DEF FileCopyFits
<1> QED BY <1>1, <1>2

\* Attendance as it was is attendance in time, however late it gets.
LEMMA TimesStay ==
  ASSUME StaffTypes, AllInTime, attendance' = attendance, clock' \in Nat, clock <= clock'
  PROVE  /\ AllInTime'
         /\ \A x \in DOMAIN attendance :
              /\ attendance[x].is \in {"in", "out"} => attendance'[x].from = attendance[x].from
              /\ attendance[x].is = "out" => attendance'[x].hours >= attendance[x].hours
<1>1. \A x \in People \X Days : attendance[x] \in {Gone} \cup CameInRow \cup WentOutRow
  BY DEF StaffTypes
<1>2. /\ \A r \in CameInRow : r.is = "in" /\ r.from \in Nat
      /\ \A r \in WentOutRow : r.is = "out" /\ r.from \in Nat /\ r.hours \in Nat
      /\ Gone.is = "none"
  BY DEF CameInRow, WentOutRow, Gone
<1>3. DOMAIN attendance = People \X Days /\ clock \in Nat
  BY DEF StaffTypes
<1>4. ASSUME NEW x \in People \X Days
      PROVE  /\ InTime(x)'
             /\ attendance[x].is = "out" => attendance[x].hours >= attendance[x].hours
  <2>1. InTime(x)
    BY DEF AllInTime
  <2>2. CASE attendance[x] = Gone
    BY <1>2, <2>2 DEF InTime
  <2>3. CASE attendance[x] \in CameInRow
    BY <1>2, <1>3, <2>1, <2>3 DEF InTime
  <2>4. CASE attendance[x] \in WentOutRow
    BY <1>2, <1>3, <2>1, <2>4 DEF InTime
  <2> QED BY <1>1, <2>2, <2>3, <2>4
<1> QED BY <1>3, <1>4 DEF AllInTime

KeepsTerms(c) ==
  OnFile(c) /\ contract[c].status # "DRAFT" =>
    contract'[c].terms = contract[c].terms /\ contract'[c].status # "DRAFT"
KeepsText(r) ==
  review[r].is = "live" /\ review[r].status # "DRAFT" =>
    review'[r].text = review[r].text /\ review'[r].status # "DRAFT"

\* What a step has to show that works on contracts ...
LEMMA ContractsMove ==
  ASSUME StaffInv, contract' \in [Contracts -> {Gone} \cup ContractRow], events' \in Seq(EventRow),
         UNCHANGED <<review, attendance, clock>>, copy' \in {copy, NoCopy},
         \A d \in Contracts : Lasts(d), EventsTell', HeirsTell',
         \A c \in Contracts \ spoiled' : Chained(c)' /\ KeepsTerms(c)
  PROVE  StaffKept
<1>1. StaffTypes'
  BY DEF StaffInv, StaffTypes
<1>2. FileCopyFits'
  BY FileCopyStays DEF StaffInv, Lasts
<1>3. clock' \in Nat /\ clock <= clock'
  BY DEF StaffInv, StaffTypes
<1>4. /\ AllInTime'
      /\ \A x \in DOMAIN attendance :
           /\ attendance[x].is \in {"in", "out"} => attendance'[x].from = attendance[x].from
           /\ attendance[x].is = "out" => attendance'[x].hours >= attendance[x].hours
  BY <1>3, TimesStay DEF StaffInv
<1>5. ContractsChain'
  BY DEF ContractsChain, Chained
<1> QED BY <1>1, <1>2, <1>4, <1>5 DEF StaffKept, StaffInv, FilesAreKept, KeepsTerms, OnFile

\* ... and one that works elsewhere.
LEMMA OthersMove ==
  ASSUME StaffInv, review' \in [Reviews -> {Gone} \cup ReviewRow], UNCHANGED <<contract, events>>,
         clock' \in Nat, clock <= clock', spoiled \subseteq spoiled', FileCopyFits',
         attendance' \in [People \X Days -> {Gone} \cup CameInRow \cup WentOutRow], AllInTime',
         \A r \in Reviews \ spoiled' : KeepsText(r),
         \A x \in DOMAIN attendance :
           /\ attendance[x].is \in {"in", "out"} => attendance'[x].from = attendance[x].from
           /\ attendance[x].is = "out" => attendance'[x].hours >= attendance[x].hours
  PROVE  StaffKept
<1>1. StaffTypes'
  BY DEF StaffInv, StaffTypes
<1>2. EventsTell' /\ HeirsTell'
  BY DEF StaffInv, EventsTell, HeirsTell, OnFile
<1>3. ContractsChain'
  <2>1. \A c : Heirs(c)' = Heirs(c) /\ Signed(c)' = Signed(c) /\ Ended(c)' = Ended(c)
    BY DEF Heirs, Signed, Ended
  <2>2. \A c \in Contracts \ spoiled' : c \in Contracts \ spoiled
    OBVIOUS
  <2> QED BY <2>1, <2>2 DEF StaffInv, ContractsChain
<1> QED BY <1>1, <1>2, <1>3 DEF StaffKept, StaffInv, FilesAreKept, KeepsText

LEMMA ContractRowIs ==
  ASSUME NEW r \in ContractRow, NEW t \in Texts, NEW s \in ContractStatus
  PROVE  /\ r.is = "live" /\ r.who \in People /\ r.terms \in Texts /\ r.status \in ContractStatus
         /\ r.from \in Contracts \cup {NoContract}
         /\ [r EXCEPT !.terms = t] \in ContractRow /\ [r EXCEPT !.status = s] \in ContractRow
         /\ [r EXCEPT !.terms = t].who = r.who /\ [r EXCEPT !.status = s].who = r.who
         /\ [r EXCEPT !.terms = t].from = r.from /\ [r EXCEPT !.status = s].from = r.from
         /\ [r EXCEPT !.terms = t].status = r.status /\ [r EXCEPT !.status = s].status = s
         /\ [r EXCEPT !.status = s].terms = r.terms
BY DEF ContractRow

LEMMA ContractSays ==
  ASSUME NEW r \in ContractRow
  PROVE  r.is = "live" /\ r.who \in People /\ r.terms \in Texts /\ {"ACTIVE", "TERMINATED", "RENEWED"} \subseteq ContractStatus
BY DEF ContractRow, ContractStatus

\* Nothing is said of a contract that is not there yet.
LEMMA NothingSaid ==
  ASSUME StaffInv, NEW c \in Contracts, ~OnFile(c)
  PROVE  Signed(c) = {} /\ Ended(c) = {} /\ Heirs(c) = {}
<1>1. \A i \in DOMAIN events : events[i][3] # c /\ events[i][2] # c
  BY DEF StaffInv, EventsTell
<1>2. \A d \in Contracts : ~(contract[d].is = "live" /\ contract[d].from = c)
  BY DEF StaffInv, HeirsTell, OnFile
<1> QED BY <1>1, <1>2 DEF Signed, Ended, Heirs

\* One contract changes its row and stays where it is.
RowMoves(c, q) ==
  /\ OnFile(c) /\ q \in ContractRow
  /\ q.who = contract[c].who /\ q.from = contract[c].from
  /\ q.status = "DRAFT" => contract[c].status = "DRAFT"
  /\ contract' = [contract EXCEPT ![c] = q]

LEMMA RowMoved ==
  ASSUME StaffInv, NEW c \in Contracts, NEW q, RowMoves(c, q)
  PROVE  /\ contract' \in [Contracts -> {Gone} \cup ContractRow]
         /\ contract'[c] = q /\ \A d \in Contracts : d # c => contract'[d] = contract[d]
         /\ \A d \in Contracts : Lasts(d) /\ Heirs(d)' = Heirs(d)
         /\ HeirsTell'
<1>1. /\ contract \in [Contracts -> {Gone} \cup ContractRow]
      /\ contract' \in [Contracts -> {Gone} \cup ContractRow]
      /\ contract'[c] = q /\ \A d \in Contracts : d # c => contract'[d] = contract[d]
  BY DEF RowMoves, StaffInv, StaffTypes
<1>2. q.is = "live" /\ OnFile(c)'
  BY <1>1 DEF RowMoves, ContractRow, OnFile
<1>3. \A d \in Contracts : /\ OnFile(d)' <=> OnFile(d)
                           /\ contract'[d].from = contract[d].from
                           /\ contract'[d].who = contract[d].who
                           /\ contract'[d].status = "DRAFT" => contract[d].status = "DRAFT"
  BY <1>1, <1>2 DEF RowMoves, OnFile
<1>4. \A d \in Contracts : Lasts(d)
  BY <1>3 DEF Lasts
<1>5. \A d \in Contracts : Heirs(d)' = Heirs(d)
  BY <1>3 DEF Heirs, OnFile
<1>6. HeirsTell'
  BY <1>3 DEF HeirsTell, StaffInv
<1> QED BY <1>1, <1>4, <1>5, <1>6

LEMMA CreateContractKeeps ==
  ASSUME StaffInv, NEW c \in Contracts, NEW p \in People, NEW terms \in Texts,
         CreateContract(c, p, terms)
  PROVE  StaffKept
<1> DEFINE q == Drawn(p, terms, "DRAFT", NoContract)
<1>1. q \in ContractRow /\ q.is = "live" /\ q.status = "DRAFT" /\ q.from = NoContract
  BY DEF Drawn, ContractRow, ContractStatus
<1>2. /\ contract' = [contract EXCEPT ![c] = q] /\ ~OnFile(c)
      /\ UNCHANGED <<events, review, copy, spoiled, attendance, clock>>
  BY DEF CreateContract, OnFile, fileVars
<1> HIDE DEF q
<1>3. /\ contract' \in [Contracts -> {Gone} \cup ContractRow]
      /\ contract'[c] = q /\ \A d \in Contracts : d # c => contract'[d] = contract[d]
  BY <1>1, <1>2 DEF StaffInv, StaffTypes
<1>4. \A d \in Contracts : Lasts(d)
  BY <1>2, <1>3 DEF Lasts, OnFile
<1>5. EventsTell'
  BY <1>2, <1>4 DEF EventsTell, Lasts, StaffInv
<1>6. HeirsTell'
  <2> SUFFICES ASSUME NEW d \in Contracts, OnFile(d)', contract'[d].from \in Contracts
               PROVE  contract'[contract'[d].from].is = "live"
    BY DEF HeirsTell, OnFile
  <2>1. d # c
    BY <1>1, <1>3, GivenStaff
  <2> QED BY <1>3, <1>4, <2>1 DEF StaffInv, HeirsTell, OnFile, Lasts
<1>7. \A d \in Contracts : Signed(d)' = Signed(d) /\ Ended(d)' = Ended(d)
  BY <1>2 DEF Signed, Ended
<1>8. \A d \in Contracts : Heirs(d)' = Heirs(d)
  BY <1>1, <1>2, <1>3, GivenStaff DEF Heirs, OnFile
<1>9. ASSUME NEW d \in Contracts \ spoiled' PROVE Chained(d)' /\ KeepsTerms(d)
  <2>1. CASE d = c
    <3>1. Signed(c) = {} /\ Ended(c) = {} /\ Heirs(c) = {}
      BY <1>2, NothingSaid
    <3> QED BY <1>1, <1>2, <1>3, <1>7, <1>8, <2>1, <3>1 DEF Chained, KeepsTerms
  <2>2. CASE d # c
    <3>1. Chained(d) /\ contract'[d] = contract[d]
      BY <1>2, <1>3, <2>2, ChainIs DEF StaffInv
    <3>2. Chained(d)'
      BY <1>4, <1>7, <1>8, <3>1, ChainedStays DEF OnFile
    <3> QED BY <3>1, <3>2 DEF KeepsTerms
  <2> QED BY <2>1, <2>2
<1>10. events' \in Seq(EventRow) /\ copy' \in {copy, NoCopy}
  BY <1>2 DEF StaffInv, StaffTypes
<1> QED BY <1>2, <1>3, <1>4, <1>5, <1>6, <1>9, <1>10, ContractsMove

LEMMA UpdateContractKeeps ==
  ASSUME StaffInv, NEW c \in Contracts, NEW s \in Seen(c, contract[c]), NEW terms \in Texts,
         UpdateContract(c, s, terms)
  PROVE  StaffKept
<1> DEFINE q == [contract[c] EXCEPT !.terms = terms]
<1>1. s \in ContractRow /\ OnFile(c) /\ s.status = "DRAFT"
  BY SeenOnFile DEF UpdateContract, ContractIs
<1>2. contract[c] \in ContractRow
  BY <1>1 DEF StaffInv, StaffTypes, OnFile, Gone
<1>3. /\ q \in ContractRow /\ q.who = contract[c].who /\ q.from = contract[c].from
      /\ q.status = contract[c].status
  <2>1. "DRAFT" \in ContractStatus
    BY DEF ContractStatus
  <2> QED BY <1>2, <2>1, ContractRowIs
<1>4. contract' = [contract EXCEPT ![c] = q]
  BY DEF UpdateContract
<1> HIDE DEF q
<1>5. RowMoves(c, q)
  BY <1>1, <1>3, <1>4 DEF RowMoves
<1>6. /\ UNCHANGED <<events, review, attendance, clock>>
      /\ spoiled \subseteq spoiled' /\ copy' \in {copy, NoCopy} /\ (c \notin spoiled' => s = contract[c])
  BY WorkedSo DEF UpdateContract, fileVars
<1>7. EventsTell'
  BY <1>5, <1>6, RowMoved DEF EventsTell, Lasts, StaffInv
<1>8. \A d \in Contracts : Signed(d)' = Signed(d) /\ Ended(d)' = Ended(d)
  BY <1>6 DEF Signed, Ended
<1>9. ASSUME NEW d \in Contracts \ spoiled' PROVE Chained(d)' /\ KeepsTerms(d)
  <2>1. contract'[d].status = contract[d].status /\ (OnFile(d)' => OnFile(d))
    BY <1>1, <1>3, <1>5, RowMoved DEF OnFile
  <2>2. Chained(d)
    BY <1>6, ChainIs DEF StaffInv
  <2>3. Chained(d)'
    BY <1>5, <1>8, <2>1, <2>2, RowMoved, ChainedStays
  <2>4. d = c => contract[c].status = "DRAFT"
    BY <1>1, <1>6
  <2> QED BY <1>5, <2>3, <2>4, RowMoved DEF KeepsTerms
<1>10. events' \in Seq(EventRow)
  BY <1>6 DEF StaffInv, StaffTypes
<1> QED BY <1>5, <1>6, <1>7, <1>9, <1>10, RowMoved, ContractsMove

LEMMA ActivateContractKeeps ==
  ASSUME StaffInv, NEW c \in Contracts, NEW s \in Seen(c, contract[c]), ActivateContract(c, s)
  PROVE  StaffKept
<1> DEFINE q == [contract[c] EXCEPT !.status = "ACTIVE"]
           what == IF s.from = NoContract THEN "HIRED" ELSE "CONTRACT_RENEWED"
           m == Len(events) + 1
<1>1. s \in ContractRow /\ OnFile(c) /\ s.status = "DRAFT"
  BY SeenOnFile DEF ActivateContract, ContractIs
<1>2. contract[c] \in ContractRow
  BY <1>1 DEF StaffInv, StaffTypes, OnFile, Gone
<1>3. /\ q \in ContractRow /\ q.who = contract[c].who /\ q.from = contract[c].from
      /\ q.status = "ACTIVE" /\ q.is = "live"
  <2>1. "ACTIVE" \in ContractStatus /\ contract[c].terms \in Texts
    BY <1>2, ContractSays
  <2> QED BY <1>2, <2>1, ContractRowIs
<1>4. contract' = [contract EXCEPT ![c] = q] /\ events' = Logged(what, NoContract, c)
  BY DEF ActivateContract
<1>5. <<what, NoContract, c>> \in EventRow /\ events \in Seq(EventRow)
  BY DEF EventRow, StaffInv, StaffTypes
<1> HIDE DEF q, what
<1>6. RowMoves(c, q)
  BY <1>1, <1>3, <1>4 DEF RowMoves
<1>7. /\ UNCHANGED <<review, attendance, clock>>
      /\ spoiled \subseteq spoiled' /\ copy' \in {copy, NoCopy} /\ (c \notin spoiled' => s = contract[c])
  BY WorkedSo DEF ActivateContract, fileVars
<1>8. /\ events' \in Seq(EventRow) /\ DOMAIN events' = DOMAIN events \cup {m}
      /\ \A i \in DOMAIN events : events'[i] = events[i]
      /\ events'[m] = <<what, NoContract, c>>
  BY <1>4, <1>5, OneMoreEvent
<1>9. \A d \in Contracts : /\ Signed(d)' = IF c = d THEN Signed(d) \cup {m} ELSE Signed(d)
                           /\ Ended(d)' = Ended(d)
  BY <1>4, <1>5, EventsOf, GivenStaff
<1> HIDE DEF m
<1>10. EventsTell'
  <2>1. \A d \in Contracts : OnFile(d) => OnFile(d)'
    BY <1>6, RowMoved DEF Lasts
  <2>2. \A i \in DOMAIN events : \A d \in Contracts : d \in {events[i][2], events[i][3]} => OnFile(d)
    BY DEF StaffInv, EventsTell
  <2>3. events'[m][2] = NoContract /\ events'[m][3] = c
    BY <1>8
  <2>4. \A i \in DOMAIN events' : \A d \in Contracts : d \in {events'[i][2], events'[i][3]} => OnFile(d)'
    BY <1>1, <1>8, <2>1, <2>2, <2>3, GivenStaff
  <2> QED BY <2>4 DEF EventsTell
<1>11. ASSUME NEW d \in Contracts \ spoiled' PROVE Chained(d)' /\ KeepsTerms(d)
  <2>1. Chained(d)
    BY <1>7, ChainIs DEF StaffInv
  <2>2. CASE d = c
    <3>1. contract[c].status = "DRAFT"
      BY <1>1, <1>7, <2>2
    <3>2. Signed(c) = {} /\ Ended(c) = {} /\ Heirs(c) = {}
      BY <1>1, <2>1, <2>2, <3>1 DEF Chained, OnFile
    <3>3. contract'[c] = q /\ Signed(c)' = {m} /\ Ended(c)' = {} /\ Heirs(c)' = {}
      BY <1>6, <1>9, <3>2, RowMoved
    <3> QED BY <1>3, <2>2, <3>1, <3>3 DEF Chained, KeepsTerms
  <2>3. CASE d # c
    <3>1. contract'[d] = contract[d] /\ (OnFile(d)' => OnFile(d))
      BY <1>6, <2>3, RowMoved DEF OnFile
    <3>2. Chained(d)'
      BY <1>6, <1>9, <2>1, <2>3, <3>1, RowMoved, ChainedStays
    <3> QED BY <3>1, <3>2 DEF KeepsTerms
  <2> QED BY <2>2, <2>3
<1> QED BY <1>6, <1>7, <1>8, <1>10, <1>11, RowMoved, ContractsMove

LEMMA TerminateContractKeeps ==
  ASSUME StaffInv, NEW c \in Contracts, NEW s \in Seen(c, contract[c]), TerminateContract(c, s)
  PROVE  StaffKept
<1> DEFINE q == [contract[c] EXCEPT !.status = "TERMINATED"]
           m == Len(events) + 1
<1>1. s \in ContractRow /\ OnFile(c) /\ s.status = "ACTIVE"
  BY SeenOnFile DEF TerminateContract, ContractIs
<1>2. contract[c] \in ContractRow
  BY <1>1 DEF StaffInv, StaffTypes, OnFile, Gone
<1>3. /\ q \in ContractRow /\ q.who = contract[c].who /\ q.from = contract[c].from
      /\ q.status = "TERMINATED" /\ q.is = "live" /\ q.terms = contract[c].terms
  <2>1. "TERMINATED" \in ContractStatus /\ contract[c].terms \in Texts
    BY <1>2, ContractSays
  <2> QED BY <1>2, <2>1, ContractRowIs
<1>4. contract' = [contract EXCEPT ![c] = q] /\ events' = Logged("CONTRACT_TERMINATED", c, NoContract)
  BY DEF TerminateContract
<1>5. <<"CONTRACT_TERMINATED", c, NoContract>> \in EventRow /\ events \in Seq(EventRow)
  BY DEF EventRow, StaffInv, StaffTypes
<1> HIDE DEF q
<1>6. RowMoves(c, q)
  BY <1>1, <1>3, <1>4 DEF RowMoves
<1>7. /\ UNCHANGED <<review, attendance, clock>>
      /\ spoiled \subseteq spoiled' /\ copy' \in {copy, NoCopy} /\ (c \notin spoiled' => s = contract[c])
  BY WorkedSo DEF TerminateContract, fileVars
<1>8. /\ events' \in Seq(EventRow) /\ DOMAIN events' = DOMAIN events \cup {m}
      /\ \A i \in DOMAIN events : events'[i] = events[i]
      /\ events'[m] = <<"CONTRACT_TERMINATED", c, NoContract>>
  BY <1>4, <1>5, OneMoreEvent
<1>9. \A d \in Contracts : /\ Signed(d)' = Signed(d)
                           /\ Ended(d)' = IF c = d THEN Ended(d) \cup {m} ELSE Ended(d)
  BY <1>4, <1>5, EventsOf, GivenStaff
<1> HIDE DEF m
<1>10. EventsTell'
  <2>1. \A d \in Contracts : OnFile(d) => OnFile(d)'
    BY <1>6, RowMoved DEF Lasts
  <2>2. \A i \in DOMAIN events : \A d \in Contracts : d \in {events[i][2], events[i][3]} => OnFile(d)
    BY DEF StaffInv, EventsTell
  <2>3. events'[m][2] = c /\ events'[m][3] = NoContract
    BY <1>8
  <2>4. \A i \in DOMAIN events' : \A d \in Contracts : d \in {events'[i][2], events'[i][3]} => OnFile(d)'
    BY <1>1, <1>8, <2>1, <2>2, <2>3, GivenStaff
  <2> QED BY <2>4 DEF EventsTell
<1>11. ASSUME NEW d \in Contracts \ spoiled' PROVE Chained(d)' /\ KeepsTerms(d)
  <2>1. Chained(d)
    BY <1>7, ChainIs DEF StaffInv
  <2>2. CASE d = c
    <3>1. contract[c].status = "ACTIVE"
      BY <1>1, <1>7, <2>2
    <3>2. Signed(c) # {} /\ Ended(c) = {} /\ Heirs(c) = {} /\ \A i, j \in Signed(c) : i = j
      BY <1>1, <2>1, <2>2, <3>1 DEF Chained, OnFile
    <3>3. contract'[c] = q /\ Signed(c)' = Signed(c) /\ Ended(c)' = {m} /\ Heirs(c)' = {}
      BY <1>6, <1>9, <3>2, RowMoved
    <3> QED BY <1>3, <2>2, <3>2, <3>3 DEF Chained, KeepsTerms
  <2>3. CASE d # c
    <3>1. contract'[d] = contract[d] /\ (OnFile(d)' => OnFile(d))
      BY <1>6, <2>3, RowMoved DEF OnFile
    <3>2. Chained(d)'
      BY <1>6, <1>9, <2>1, <2>3, <3>1, RowMoved, ChainedStays
    <3> QED BY <3>1, <3>2 DEF KeepsTerms
  <2> QED BY <2>2, <2>3
<1> QED BY <1>6, <1>7, <1>8, <1>10, <1>11, RowMoved, ContractsMove

LEMMA RenewContractKeeps ==
  ASSUME StaffInv, NEW c \in Contracts, NEW s \in Seen(c, contract[c]), NEW new \in Contracts,
         RenewContract(c, s, new)
  PROVE  StaffKept
<1> DEFINE q == [contract[c] EXCEPT !.status = "RENEWED"]
           h == Drawn(s.who, s.terms, "ACTIVE", c)
           m == Len(events) + 1
<1>1. s \in ContractRow /\ OnFile(c) /\ s.status = "ACTIVE" /\ ~OnFile(new) /\ new # c
  BY SeenOnFile DEF RenewContract, ContractIs, OnFile
<1>2. contract[c] \in ContractRow
  BY <1>1 DEF StaffInv, StaffTypes, OnFile, Gone
<1>3. /\ q \in ContractRow /\ q.who = contract[c].who /\ q.from = contract[c].from
      /\ q.status = "RENEWED" /\ q.is = "live" /\ q.terms = contract[c].terms
  <2>1. "RENEWED" \in ContractStatus /\ contract[c].terms \in Texts
    BY <1>2, ContractSays
  <2> QED BY <1>2, <2>1, ContractRowIs
<1>4. h \in ContractRow /\ h.is = "live" /\ h.who = s.who /\ h.status = "ACTIVE" /\ h.from = c
  BY <1>1 DEF Drawn, ContractRow, ContractStatus
<1>5. /\ contract' = [contract EXCEPT ![c] = q, ![new] = h]
      /\ events' = Logged("CONTRACT_RENEWED", c, new)
  BY DEF RenewContract
<1>6. <<"CONTRACT_RENEWED", c, new>> \in EventRow /\ events \in Seq(EventRow)
  BY DEF EventRow, StaffInv, StaffTypes
<1> HIDE DEF q, h
<1>7. /\ contract' \in [Contracts -> {Gone} \cup ContractRow]
      /\ contract'[c] = q /\ contract'[new] = h
      /\ \A d \in Contracts \ {c, new} : contract'[d] = contract[d]
  BY <1>1, <1>3, <1>4, <1>5 DEF StaffInv, StaffTypes
<1>8. /\ UNCHANGED <<review, attendance, clock>>
      /\ spoiled \subseteq spoiled' /\ copy' \in {copy, NoCopy} /\ (c \notin spoiled' => s = contract[c])
  BY WorkedSo DEF RenewContract, fileVars
<1>9. /\ events' \in Seq(EventRow) /\ DOMAIN events' = DOMAIN events \cup {m}
      /\ \A i \in DOMAIN events : events'[i] = events[i]
      /\ events'[m] = <<"CONTRACT_RENEWED", c, new>>
  BY <1>5, <1>6, OneMoreEvent
<1>10. \A d \in Contracts : /\ Signed(d)' = IF new = d THEN Signed(d) \cup {m} ELSE Signed(d)
                            /\ Ended(d)' = IF c = d THEN Ended(d) \cup {m} ELSE Ended(d)
  BY <1>5, <1>6, EventsOf
<1> HIDE DEF m
<1>11. \A d \in Contracts : Lasts(d)
  <2>1. Lasts(c) /\ Lasts(new)
    BY <1>1, <1>3, <1>7 DEF Lasts, OnFile
  <2>2. ASSUME NEW d \in Contracts \ {c, new} PROVE Lasts(d)
    BY <1>7 DEF Lasts, OnFile
  <2> QED BY <2>1, <2>2
<1>12. OnFile(c)' /\ OnFile(new)' /\ \A d \in Contracts \ {new} : OnFile(d)' <=> OnFile(d)
  BY <1>1, <1>3, <1>4, <1>7 DEF OnFile
<1>13. EventsTell'
  <2>1. \A i \in DOMAIN events : \A d \in Contracts : d \in {events[i][2], events[i][3]} => OnFile(d)
    BY DEF StaffInv, EventsTell
  <2>2. events'[m][2] = c /\ events'[m][3] = new
    BY <1>9
  <2>3. \A d \in Contracts : OnFile(d) => OnFile(d)'
    BY <1>11 DEF Lasts
  <2>4. \A i \in DOMAIN events' : \A d \in Contracts : d \in {events'[i][2], events'[i][3]} => OnFile(d)'
    BY <1>9, <1>12, <2>1, <2>2, <2>3
  <2> QED BY <2>4 DEF EventsTell
<1>14. HeirsTell'
  <2> SUFFICES ASSUME NEW d \in Contracts, OnFile(d)', contract'[d].from \in Contracts
               PROVE  contract'[contract'[d].from].is = "live"
    BY DEF HeirsTell, OnFile
  <2>1. CASE d = new
    BY <1>4, <1>7, <1>12, <2>1 DEF OnFile
  <2>2. CASE d # new
    <3>1. OnFile(d) /\ contract'[d].from = contract[d].from
      BY <1>3, <1>7, <1>12, <2>2
    <3> QED BY <1>11, <3>1 DEF StaffInv, HeirsTell, OnFile, Lasts
  <2> QED BY <2>1, <2>2
<1>15. ASSUME NEW d \in Contracts PROVE Heirs(d)' = IF d = c THEN Heirs(d) \cup {new} ELSE Heirs(d)
  <2>1. /\ contract'[new].is = "live" /\ contract'[new].from = c /\ ~(contract[new].is = "live")
        /\ \A e \in Contracts \ {new} : /\ contract'[e].is = "live" <=> contract[e].is = "live"
                                        /\ contract'[e].from = contract[e].from
    BY <1>1, <1>3, <1>4, <1>7, <1>12 DEF OnFile
  <2>2. \A e \in Contracts : (contract'[e].is = "live" /\ contract'[e].from = d) <=>
          ((contract[e].is = "live" /\ contract[e].from = d) \/ (d = c /\ e = new))
    BY <2>1
  <2> QED BY <2>2 DEF Heirs
<1>16. ASSUME NEW d \in Contracts \ spoiled' PROVE Chained(d)' /\ KeepsTerms(d)
  <2>1. Chained(d)
    BY <1>8, ChainIs DEF StaffInv
  <2>2. CASE d = c
    <3>1. contract[c].status = "ACTIVE" /\ s = contract[c]
      BY <1>1, <1>8, <2>2
    <3>2. Signed(c) # {} /\ Ended(c) = {} /\ Heirs(c) = {} /\ \A i, j \in Signed(c) : i = j
      BY <1>1, <2>1, <2>2, <3>1 DEF Chained, OnFile
    <3>3. Signed(c)' = Signed(c) /\ Ended(c)' = {m} /\ Heirs(c)' = {new}
      BY <1>1, <1>10, <1>15, <3>2
    <3>4. contract'[new].who = contract'[c].who /\ contract'[new].status # "DRAFT"
      BY <1>3, <1>4, <1>7, <3>1
    <3>5. /\ contract'[c].status = "RENEWED" /\ contract'[c].terms = contract[c].terms
      BY <1>3, <1>7
    <3> QED BY <2>2, <3>2, <3>3, <3>4, <3>5 DEF Chained, KeepsTerms
  <2>3. CASE d = new
    <3>1. Signed(new) = {} /\ Ended(new) = {} /\ Heirs(new) = {}
      BY <1>1, NothingSaid
    <3>2. Signed(new)' = {m} /\ Ended(new)' = {} /\ Heirs(new)' = {}
      BY <1>1, <1>10, <1>15, <3>1
    <3>3. contract'[new].status = "ACTIVE"
      BY <1>4, <1>7
    <3> QED BY <1>1, <2>3, <3>2, <3>3 DEF Chained, KeepsTerms
  <2>4. CASE d \notin {c, new}
    <3>1. contract'[d] = contract[d] /\ (OnFile(d)' => OnFile(d))
      BY <1>7, <2>4 DEF OnFile
    <3>2. Signed(d)' = Signed(d) /\ Ended(d)' = Ended(d) /\ Heirs(d)' = Heirs(d)
      BY <1>10, <1>15, <2>4
    <3>3. Chained(d)'
      BY <1>11, <2>1, <3>1, <3>2, ChainedStays
    <3> QED BY <3>1, <3>3 DEF KeepsTerms
  <2> QED BY <2>2, <2>3, <2>4
<1> QED BY <1>7, <1>8, <1>9, <1>11, <1>13, <1>14, <1>16, ContractsMove

\* Reading a row, of a contract or a review.
LEMMA ReadFileKeeps ==
  ASSUME StaffInv,
         \/ \E c \in Contracts : ReadFile(c, contract[c])
         \/ \E r \in Reviews : ReadFile(r, review[r])
  PROVE  StaffKept
<1>1. UNCHANGED <<contract, events, review, attendance, clock, spoiled>>
  BY DEF ReadFile, Fetch, fileVars
<1>2. FileCopyFits'
  <2>1. ASSUME NEW c \in Contracts, ReadFile(c, contract[c]) PROVE FileCopyFits'
    <3>1. copy' = <<c, contract[c]>> /\ OnFile(c) /\ OnFile(c)' /\ contract[c] \in ContractRow
      BY <1>1, <2>1 DEF ReadFile, Fetch, OnFile, StaffInv, StaffTypes, Gone
    <3> QED BY <3>1 DEF FileCopyFits
  <2>2. ASSUME NEW r \in Reviews, ReadFile(r, review[r]) PROVE FileCopyFits'
    <3>1. copy' = <<r, review[r]>> /\ review[r].is = "live" /\ review'[r].is = "live" /\ review[r] \in ReviewRow
      BY <1>1, <2>2 DEF ReadFile, Fetch, StaffInv, StaffTypes, Gone
    <3> QED BY <3>1 DEF FileCopyFits
  <2> QED BY <2>1, <2>2
<1>3. clock' \in Nat /\ clock <= clock'
  BY <1>1 DEF StaffInv, StaffTypes
<1>4. /\ AllInTime'
      /\ \A x \in DOMAIN attendance :
           /\ attendance[x].is \in {"in", "out"} => attendance'[x].from = attendance[x].from
           /\ attendance[x].is = "out" => attendance'[x].hours >= attendance[x].hours
  BY <1>1, <1>3, TimesStay DEF StaffInv
<1>5. \A r \in Reviews : KeepsText(r)
  BY <1>1 DEF KeepsText
<1> QED BY <1>1, <1>2, <1>3, <1>4, <1>5, OthersMove DEF StaffInv, StaffTypes

\* A review keeps its words once it is no draft, and goes on from there.
LEMMA ReviewMoves ==
  ASSUME StaffInv, UNCHANGED <<contract, events, attendance, clock>>, spoiled \subseteq spoiled',
         copy' \in {copy, NoCopy}, review' \in [Reviews -> {Gone} \cup ReviewRow],
         \A r \in Reviews : review[r].is = "live" => review'[r].is = "live",
         \A r \in Reviews \ spoiled' : KeepsText(r)
  PROVE  StaffKept
<1>1. clock' \in Nat /\ clock <= clock'
  BY DEF StaffInv, StaffTypes
<1>2. /\ AllInTime'
      /\ \A x \in DOMAIN attendance :
           /\ attendance[x].is \in {"in", "out"} => attendance'[x].from = attendance[x].from
           /\ attendance[x].is = "out" => attendance'[x].hours >= attendance[x].hours
  BY <1>1, TimesStay DEF StaffInv
<1>3. FileCopyFits'
  BY FileCopyStays DEF StaffInv, OnFile
<1>4. attendance' \in [People \X Days -> {Gone} \cup CameInRow \cup WentOutRow]
  BY DEF StaffInv, StaffTypes
<1> QED BY <1>1, <1>2, <1>3, <1>4, OthersMove

LEMMA CreateReviewKeeps ==
  ASSUME StaffInv, NEW r \in Reviews, NEW p \in People, NEW text \in Texts, CreateReview(r, p, text)
  PROVE  StaffKept
<1>1. /\ review[r].is = "none" /\ review' = [review EXCEPT ![r] = Review(text)]
      /\ UNCHANGED <<contract, events, attendance, clock, copy, spoiled>>
  BY DEF CreateReview, fileVars
<1>2. Review(text) \in ReviewRow
  BY DEF Review, ReviewRow
<1>3. /\ review \in [Reviews -> {Gone} \cup ReviewRow] /\ review' \in [Reviews -> {Gone} \cup ReviewRow]
      /\ \A d \in Reviews : d # r => review'[d] = review[d]
  BY <1>1, <1>2 DEF StaffInv, StaffTypes
<1>4. \A d \in Reviews : KeepsText(d) /\ (review[d].is = "live" => review'[d].is = "live")
  BY <1>1, <1>3 DEF KeepsText
<1> QED BY <1>1, <1>3, <1>4, ReviewMoves

\* Whoever works on a review works on a live one, and what he read is what it is or it is marked.
LEMMA SeenReview ==
  ASSUME StaffInv, NEW r \in Reviews, NEW s \in Seen(r, review[r]), s.is = "live"
  PROVE  review[r] \in ReviewRow
<1>1. review[r] \in {Gone} \cup ReviewRow
  BY DEF StaffInv, StaffTypes
<1>2. review[r].is = "live"
  <2>1. CASE s = review[r]
    BY <2>1
  <2>2. CASE s # review[r]
    <3>1. copy # NoCopy /\ copy[1] = r
      BY <2>2 DEF Seen
    <3>2. CASE \E c \in Contracts : \E q \in ContractRow : copy = <<c, q>> /\ OnFile(c)
      <4>1. PICK c \in Contracts : \E q \in ContractRow : copy = <<c, q>>
        BY <3>2
      <4>2. c = r
        BY <3>1, <4>1
      <4> QED BY <4>2, GivenStaff
    <3>3. CASE \E d \in Reviews : \E q \in ReviewRow : copy = <<d, q>> /\ review[d].is = "live"
      <4>1. PICK d \in Reviews : \E q \in ReviewRow : copy = <<d, q>> /\ review[d].is = "live"
        BY <3>3
      <4> QED BY <3>1, <4>1
    <3> QED BY <3>1, <3>2, <3>3 DEF StaffInv, FileCopyFits
  <2> QED BY <2>1, <2>2
<1> QED BY <1>1, <1>2 DEF Gone

ReviewGoes(r, s, q) ==
  /\ s.is = "live" /\ q \in ReviewRow
  /\ s = review[r] /\ s.status # "DRAFT" => q.text = review[r].text /\ q.status # "DRAFT"
  /\ review' = [review EXCEPT ![r] = q]
  /\ Worked(r, review[r], s)
  /\ UNCHANGED <<contract, events, attendance, clock>>

LEMMA ReviewGoesOn ==
  ASSUME StaffInv, NEW r \in Reviews, NEW s \in Seen(r, review[r]), NEW q, ReviewGoes(r, s, q)
  PROVE  StaffKept
<1>1. spoiled \subseteq spoiled' /\ copy' \in {copy, NoCopy} /\ (r \notin spoiled' => s = review[r])
  BY WorkedSo DEF ReviewGoes
<1>2. /\ review \in [Reviews -> {Gone} \cup ReviewRow] /\ review' \in [Reviews -> {Gone} \cup ReviewRow]
      /\ review'[r] = q /\ \A d \in Reviews : d # r => review'[d] = review[d]
  BY DEF StaffInv, StaffTypes, ReviewGoes
<1>3. q.is = "live"
  BY DEF ReviewGoes, ReviewRow
<1>4. \A d \in Reviews : review[d].is = "live" => review'[d].is = "live"
  BY <1>2, <1>3
<1>5. \A d \in Reviews \ spoiled' : KeepsText(d)
  BY <1>1, <1>2 DEF KeepsText, ReviewGoes
<1> QED BY <1>1, <1>2, <1>4, <1>5, ReviewMoves DEF ReviewGoes

LEMMA ReviewStepKeeps ==
  ASSUME StaffInv, NEW r \in Reviews, NEW s \in Seen(r, review[r]),
         (\E text \in Texts : UpdateReview(r, s, text)) \/ SubmitReview(r, s) \/ AcknowledgeReview(r, s)
  PROVE  StaffKept
<1>1. s.is = "live" /\ Worked(r, review[r], s) /\ UNCHANGED <<contract, events, attendance, clock>>
  BY DEF UpdateReview, SubmitReview, AcknowledgeReview, fileVars
<1>2. review[r] \in ReviewRow
  BY <1>1, SeenReview
<1>3. \A t \in Texts : /\ [review[r] EXCEPT !.text = t] \in ReviewRow
      /\ [review[r] EXCEPT !.status = "SUBMITTED"] \in ReviewRow
      /\ [review[r] EXCEPT !.status = "SUBMITTED"].status = "SUBMITTED"
      /\ [review[r] EXCEPT !.status = "SUBMITTED"].text = review[r].text
      /\ [review[r] EXCEPT !.status = "ACKNOWLEDGED"] \in ReviewRow
      /\ [review[r] EXCEPT !.status = "ACKNOWLEDGED"].status = "ACKNOWLEDGED"
      /\ [review[r] EXCEPT !.status = "ACKNOWLEDGED"].text = review[r].text
  BY <1>2 DEF ReviewRow
<1>4. review[r].text \in Texts
  BY <1>2 DEF ReviewRow
<1>5. ASSUME NEW text \in Texts, UpdateReview(r, s, text) PROVE StaffKept
  <2>1. ReviewGoes(r, s, [review[r] EXCEPT !.text = text])
    BY <1>1, <1>3, <1>5 DEF UpdateReview, ReviewGoes
  <2> QED BY <2>1, ReviewGoesOn
<1>6. CASE SubmitReview(r, s)
  <2>1. ReviewGoes(r, s, [review[r] EXCEPT !.status = "SUBMITTED"])
    BY <1>1, <1>3, <1>4, <1>6 DEF SubmitReview, ReviewGoes
  <2> QED BY <2>1, ReviewGoesOn
<1>7. CASE AcknowledgeReview(r, s)
  <2>1. ReviewGoes(r, s, [review[r] EXCEPT !.status = "ACKNOWLEDGED"])
    BY <1>1, <1>3, <1>4, <1>7 DEF AcknowledgeReview, ReviewGoes
  <2> QED BY <2>1, ReviewGoesOn
<1> QED BY <1>5, <1>6, <1>7

\* Departments, employees, goals and documents stand beside all of this.
LEMMA AsideKeeps ==
  ASSUME StaffInv, UNCHANGED <<contract, events, review, attendance, clock, copy, spoiled>>
  PROVE  StaffKept
<1>1. review' \in [Reviews -> {Gone} \cup ReviewRow]
  BY DEF StaffInv, StaffTypes
<1>2. \A r \in Reviews : KeepsText(r)
  BY DEF KeepsText
<1>3. copy' \in {copy, NoCopy} /\ spoiled \subseteq spoiled'
  OBVIOUS
<1> QED BY <1>1, <1>2, <1>3, ReviewMoves

LEMMA OfficesKeep == ASSUME StaffInv, OfficesNext PROVE StaffKept
<1>1. UNCHANGED <<contract, events, review, attendance, clock, copy, spoiled>>
  BY DEF OfficesNext, SetDepartment, DeleteDepartment, Hire, MoveTo, DeleteEmployee
<1> QED BY <1>1, AsideKeeps

LEMMA ReviewsKeep == ASSUME StaffInv, ReviewsNext PROVE StaffKept
<1>1. ASSUME NEW r \in Reviews, NEW p \in People, NEW text \in Texts, CreateReview(r, p, text) PROVE StaffKept
  BY <1>1, CreateReviewKeeps
<1>2. ASSUME NEW r \in Reviews, NEW s \in Seen(r, review[r]),
             (\E text \in Texts : UpdateReview(r, s, text)) \/ SubmitReview(r, s) \/ AcknowledgeReview(r, s)
      PROVE  StaffKept
  BY <1>2, ReviewStepKeeps
<1>3. ASSUME NEW r \in Reviews, ReadFile(r, review[r]) PROVE StaffKept
  BY <1>3, ReadFileKeeps
<1>4. ASSUME \/ \E g \in Goals, p \in People, status \in {"PENDING", "COMPLETED"}, n \in Steps :
                  SetGoal(g, p, status, n)
             \/ \E d \in Papers, p \in People, file \in Texts : AddPaper(d, p, file)
             \/ \E d \in Papers, file \in Texts : paper[d].is = "live" /\ UpdatePaper(d, file)
             \/ \E d \in Papers : paper[d].is = "live" /\ (VerifyPaper(d) \/ DeletePaper(d))
      PROVE  StaffKept
  <2>1. UNCHANGED <<contract, events, review, attendance, clock, copy, spoiled>>
    BY <1>4 DEF SetGoal, AddPaper, UpdatePaper, VerifyPaper, DeletePaper, ChangePaper
  <2> QED BY <2>1, AsideKeeps
<1> QED BY <1>1, <1>2, <1>3, <1>4 DEF ReviewsNext

LEMMA ContractsKeep == ASSUME StaffInv, ContractsNext PROVE StaffKept
<1>1. ASSUME NEW c \in Contracts, NEW p \in People, NEW terms \in Texts, CreateContract(c, p, terms) PROVE StaffKept
  BY <1>1, CreateContractKeeps
<1>2. ASSUME NEW c \in Contracts, NEW s \in Seen(c, contract[c]), NEW terms \in Texts, UpdateContract(c, s, terms)
      PROVE  StaffKept
  BY <1>2, UpdateContractKeeps
<1>3. ASSUME NEW c \in Contracts, NEW s \in Seen(c, contract[c]), ActivateContract(c, s) PROVE StaffKept
  BY <1>3, ActivateContractKeeps
<1>4. ASSUME NEW c \in Contracts, NEW s \in Seen(c, contract[c]), TerminateContract(c, s) PROVE StaffKept
  BY <1>4, TerminateContractKeeps
<1>5. ASSUME NEW c \in Contracts, NEW s \in Seen(c, contract[c]), NEW n \in Contracts, RenewContract(c, s, n)
      PROVE  StaffKept
  BY <1>5, RenewContractKeeps
<1>6. ASSUME NEW c \in Contracts, ReadFile(c, contract[c]) PROVE StaffKept
  BY <1>6, ReadFileKeeps
<1> QED BY <1>1, <1>2, <1>3, <1>4, <1>5, <1>6 DEF ContractsNext

\* What a step has to show that works on attendance.
BookedStays ==
  \A x \in DOMAIN attendance :
    /\ attendance[x].is \in {"in", "out"} => attendance'[x].from = attendance[x].from
    /\ attendance[x].is = "out" => attendance'[x].hours >= attendance[x].hours

LEMMA TimesMove ==
  ASSUME StaffInv, UNCHANGED <<contract, events, review, copy, spoiled>>, clock' \in Nat, clock <= clock',
         attendance' \in [People \X Days -> {Gone} \cup CameInRow \cup WentOutRow], AllInTime', BookedStays
  PROVE  StaffKept
<1>1. review' \in [Reviews -> {Gone} \cup ReviewRow] /\ spoiled \subseteq spoiled'
  BY DEF StaffInv, StaffTypes
<1>2. \A r \in Reviews : KeepsText(r)
  BY DEF KeepsText
<1>3. FileCopyFits'
  BY FileCopyStays DEF StaffInv, OnFile
<1> QED BY <1>1, <1>2, <1>3, OthersMove DEF BookedStays

\* One day of one employee is written.
LEMMA DayMoves ==
  ASSUME StaffInv, UNCHANGED <<contract, events, review, clock, copy, spoiled>>, NEW x, NEW q,
         attendance' = [attendance EXCEPT ![x] = q],
         x \in People \X Days => /\ q \in CameInRow \cup WentOutRow
                                 /\ q.from <= clock
                                 /\ q.is = "out" => q.hours <= clock - q.from
                                 /\ attendance[x].is \in {"in", "out"} => q.from = attendance[x].from
                                 /\ attendance[x].is = "out" => q.hours >= attendance[x].hours
  PROVE  StaffKept
<1>1. /\ attendance \in [People \X Days -> {Gone} \cup CameInRow \cup WentOutRow]
      /\ clock \in Nat /\ clock' \in Nat /\ clock <= clock'
  BY DEF StaffInv, StaffTypes
<1>2. /\ attendance' \in [People \X Days -> {Gone} \cup CameInRow \cup WentOutRow]
      /\ x \in People \X Days => attendance'[x] = q
      /\ \A y \in People \X Days : y # x => attendance'[y] = attendance[y]
      /\ DOMAIN attendance = People \X Days
  BY <1>1
<1>3. ASSUME NEW y \in People \X Days
      PROVE  /\ InTime(y)'
             /\ attendance[y].is \in {"in", "out"} => attendance'[y].from = attendance[y].from
             /\ attendance[y].is = "out" => attendance'[y].hours >= attendance[y].hours
  <2>1. InTime(y)
    BY DEF StaffInv, AllInTime
  <2>2. CASE y = x
    BY <1>2, <2>2 DEF InTime
  <2>3. CASE y # x
    <3>1. attendance'[y] = attendance[y]
      BY <1>2, <2>3
    <3>2. attendance[y].is = "out" => attendance[y].hours \in Nat
      BY <1>1 DEF CameInRow, WentOutRow, Gone
    <3>3. attendance[y].is = "out" => attendance'[y].hours >= attendance[y].hours
      BY <3>1, <3>2
    <3>4. InTime(y)'
      BY <2>1, <3>1 DEF InTime
    <3> QED BY <3>1, <3>3, <3>4
  <2> QED BY <2>2, <2>3
<1>4. AllInTime' /\ BookedStays
  BY <1>2, <1>3 DEF AllInTime, BookedStays
<1> QED BY <1>1, <1>2, <1>4, TimesMove

LEMMA CheckInKeeps == ASSUME StaffInv, NEW p \in People, CheckIn(p) PROVE StaffKept
<1> DEFINE x == <<p, Today>>
<1>1. /\ attendance[x].is = "none" /\ attendance' = [attendance EXCEPT ![x] = CameIn(clock)]
      /\ UNCHANGED <<contract, events, review, clock, copy, spoiled>>
  BY DEF CheckIn
<1>2. clock \in Nat
  BY DEF StaffInv, StaffTypes
<1> DEFINE q == CameIn(clock)
<1>3. q \in CameInRow /\ q.from = clock /\ q.is = "in"
  BY <1>2 DEF CameIn, CameInRow
<1>4. attendance' = [attendance EXCEPT ![x] = q]
  BY <1>1
<1> HIDE DEF x, q
<1>5. q.from <= clock /\ q.is # "out" /\ ~(attendance[x].is \in {"in", "out"})
  BY <1>1, <1>2, <1>3
<1> QED BY <1>1, <1>3, <1>4, <1>5, DayMoves

LEMMA CheckOutKeeps == ASSUME StaffInv, NEW p \in People, CheckOut(p) PROVE StaffKept
<1> DEFINE x == <<p, Today>>
           worked == clock - attendance[x].from
           more == IF worked > FullDay THEN worked - FullDay ELSE 0
           q == [is |-> "out", from |-> attendance[x].from, hours |-> worked, overtime |-> more]
<1>1. /\ attendance[x].is \in {"in", "out"} /\ attendance' = [attendance EXCEPT ![x] = q]
      /\ UNCHANGED <<contract, events, review, clock, copy, spoiled>>
  BY DEF CheckOut
<1> HIDE DEF x
<1>2. ASSUME x \in People \X Days
      PROVE  /\ q \in WentOutRow /\ q.from <= clock /\ q.hours <= clock - q.from
             /\ q.from = attendance[x].from /\ (attendance[x].is = "out" => q.hours >= attendance[x].hours)
  <2>1. attendance[x] \in {Gone} \cup CameInRow \cup WentOutRow /\ clock \in Nat /\ InTime(x)
    BY <1>2 DEF StaffInv, StaffTypes, AllInTime
  <2>2. attendance[x].from \in Nat /\ (attendance[x].is = "out" => attendance[x].hours \in Nat)
    BY <1>1, <2>1 DEF CameInRow, WentOutRow, Gone
  <2>3. attendance[x].from <= clock /\ (attendance[x].is = "out" => attendance[x].hours <= worked)
    BY <1>1, <2>1 DEF InTime
  <2>4. worked \in Nat
    BY <2>1, <2>2, <2>3
  <2> HIDE DEF worked
  <2>5. more \in Nat
    BY <2>4 DEF FullDay
  <2> HIDE DEF more
  <2>6. q \in WentOutRow /\ q.from = attendance[x].from /\ q.hours = worked
    BY <2>2, <2>4, <2>5 DEF WentOutRow
  <2>7. worked = clock - attendance[x].from
    BY DEF worked
  <2> HIDE DEF q
  <2> QED BY <2>1, <2>2, <2>3, <2>4, <2>6, <2>7
<1> HIDE DEF q
<1> QED BY <1>1, <1>2, DayMoves

LEMMA TimePassesKeeps == ASSUME StaffInv, TimePasses PROVE StaffKept
<1>1. /\ clock' \in Hours /\ clock' > clock /\ attendance' = attendance
      /\ UNCHANGED <<contract, events, review, copy, spoiled>>
  BY DEF TimePasses
<1>2. clock \in Nat /\ clock' \in Nat /\ clock <= clock'
  BY <1>1, GivenStaff DEF StaffInv, StaffTypes
<1>3. attendance' \in [People \X Days -> {Gone} \cup CameInRow \cup WentOutRow]
  BY <1>1 DEF StaffInv, StaffTypes
<1>4. AllInTime' /\ BookedStays
  BY <1>1, <1>2, TimesStay DEF StaffInv, BookedStays
<1> QED BY <1>1, <1>2, <1>3, <1>4, TimesMove

LEMMA TimesKeep == ASSUME StaffInv, TimesNext PROVE StaffKept
BY CheckInKeeps, CheckOutKeeps, TimePassesKeeps DEF TimesNext

\* Recruiting is work of the offices.
LEMMA RecruitKeeps == ASSUME StaffInv, Recruit PROVE StaffKept
<1>1. UNCHANGED <<contract, events, review, attendance, clock, copy, spoiled>>
  BY DEF Recruit, SetDepartment, Hire
<1> QED BY <1>1, AsideKeeps

StaffIdle ==
  /\ contract = [c \in Contracts |-> Gone] /\ events = <<>> /\ review = [r \in Reviews |-> Gone]
  /\ attendance = [x \in People \X Days |-> Gone]
LEMMA StaffBegins == PersonnelInit => StaffInv /\ StaffIdle
<1> SUFFICES ASSUME PersonnelInit PROVE StaffInv /\ StaffIdle
  OBVIOUS
<1>1. StaffIdle /\ copy = NoCopy
  BY DEF PersonnelInit, StaffIdle, StaleInit
<1>2. StaffTypes
  <2>1. events \in Seq(EventRow)
    BY <1>1 DEF StaffIdle
  <2>2. clock \in Nat
    BY GivenStaff DEF PersonnelInit
  <2> QED BY <1>1, <2>1, <2>2 DEF StaffTypes, StaffIdle
<1>3. \A x \in People \X Days : attendance[x].is = "none"
  BY <1>1 DEF StaffIdle, Gone
<1>4. \A c \in Contracts : ~OnFile(c)
  BY <1>1 DEF StaffIdle, Gone, OnFile
<1>5. DOMAIN events = {}
  BY <1>1 DEF StaffIdle
<1>6. ContractsChain
  BY <1>4 DEF ContractsChain, OnFile
<1> QED BY <1>1, <1>2, <1>3, <1>4, <1>5, <1>6 DEF StaffInv, FileCopyFits, AllInTime, InTime, EventsTell, HeirsTell

\* While no handler of files is at work nothing is on file, whoever else holds a copy.
LEMMA IdleKeeps == ASSUME StaffIdle, UNCHANGED <<contract, events, review, attendance>> PROVE StaffIdle' /\ FilesAreKept
<1>1. StaffIdle'
  BY DEF StaffIdle
<1>2. \A c \in Contracts : contract[c].is = "none" /\ contract'[c].is = "none"
  BY <1>1 DEF StaffIdle, Gone
<1>3. \A r \in Reviews : review[r].is = "none"
  BY DEF StaffIdle, Gone
<1>4. \A x \in DOMAIN attendance : attendance[x].is = "none"
  BY DEF StaffIdle, Gone
<1>5. ContractsChain'
  BY <1>2 DEF ContractsChain
<1> QED BY <1>1, <1>2, <1>3, <1>4, <1>5 DEF FilesAreKept
-----------------------------------------------------------------------------
(* Side by side: a step of Office is a step of each component, or leaves it. *)

LEMMA ChatBegins == Init => LoyaltyInv /\ CartsInv /\ NoticesInv
BY LoyaltyBegins, CartsBegin, NoticesBegin DEF Init

LEMMA ChatSteps ==
  [Next]_vars => [LoyaltyNext]_loyaltyVars /\ [CartsNext]_cartVars /\ [NoticesNext]_noticeVars
BY DEF Next, vars, chatVars, ChatScene

\* The copy that a handler of HR has read is the payroll's own in its scenes only: in the others
\* nothing has been paid.
PayrollScene == scene \in {"wages", "expenses"}
PayrollHolds == IF PayrollScene THEN PayrollInv ELSE PayrollIdle

LEMMA PayrollSettles == Init => PayrollHolds
BY PayrollBegins DEF Init, PayrollHolds

LEMMA PayrollMoves ==
  [Next]_vars => /\ scene' = scene
                 /\ \/ PayrollScene /\ PayrollNext
                    \/ UNCHANGED salaryVars /\ (PayrollScene => UNCHANGED <<copy, spoiled>>)
<1>1. Next => \/ WagesScene \/ LeaveScene \/ StaffScene \/ DiscountsScene
              \/ UNCHANGED officeVars
  BY DEF Next
<1>2. Next => scene' = scene
  BY DEF Next
<1>3. WagesScene => PayrollScene /\ PayrollNext
  BY DEF WagesScene, PayrollScene, PayrollNext
<1>4. LeaveScene \/ StaffScene \/ DiscountsScene => ~PayrollScene /\ UNCHANGED salaryVars
  BY DEF LeaveScene, StaffScene, DiscountsScene, PayrollScene
<1>5. UNCHANGED officeVars => UNCHANGED <<salaryVars, copy, spoiled>>
  BY DEF officeVars
<1>6. UNCHANGED vars => UNCHANGED <<scene, officeVars>>
  BY DEF vars
<1> QED BY <1>1, <1>2, <1>3, <1>4, <1>5, <1>6

LEMMA PayrollHeld == PayrollHolds /\ [Next]_vars => PayrollHolds'
<1> SUFFICES ASSUME PayrollHolds, [Next]_vars PROVE PayrollHolds'
  OBVIOUS
<1>1. PayrollScene' = PayrollScene
  BY PayrollMoves DEF PayrollScene
<1>2. CASE PayrollScene
  <2>1. PayrollInv
    BY <1>2 DEF PayrollHolds
  <2>2. PayrollInv'
    BY <1>2, <2>1, PayrollMoves, PayrollKeeps, PayrollStays DEF salaryVars
  <2> QED BY <1>1, <1>2, <2>2 DEF PayrollHolds
<1>3. CASE ~PayrollScene
  <2>1. PayrollIdle /\ UNCHANGED salaryVars
    BY <1>3, PayrollMoves DEF PayrollHolds
  <2>2. PayrollIdle'
    BY <2>1 DEF PayrollIdle, salaryVars
  <2> QED BY <1>1, <1>3, <2>2 DEF PayrollHolds
<1> QED BY <1>2, <1>3

LeaveHolds == IF scene = "leave" THEN LeaveInv ELSE LeaveIdle

LEMMA LeaveSettles == Init => LeaveHolds
BY LeaveBegins DEF Init, LeaveHolds

LEMMA LeaveMoves ==
  [Next]_vars => /\ scene' = scene
                 /\ \/ scene = "leave" /\ LeaveNext
                    \/ UNCHANGED absenceVars /\ (scene = "leave" => UNCHANGED <<copy, spoiled>>)
<1>1. Next => \/ WagesScene \/ LeaveScene \/ StaffScene \/ DiscountsScene
              \/ UNCHANGED officeVars
  BY DEF Next
<1>2. Next => scene' = scene
  BY DEF Next
<1>3. LeaveScene => scene = "leave" /\ LeaveNext
  BY DEF LeaveScene
<1>4. WagesScene \/ StaffScene \/ DiscountsScene => scene # "leave" /\ UNCHANGED absenceVars
  BY DEF WagesScene, StaffScene, DiscountsScene
<1>5. UNCHANGED officeVars => UNCHANGED <<absenceVars, copy, spoiled>>
  BY DEF officeVars
<1>6. UNCHANGED vars => UNCHANGED <<scene, officeVars>>
  BY DEF vars
<1> QED BY <1>1, <1>2, <1>3, <1>4, <1>5, <1>6

LEMMA LeaveHeld == LeaveHolds /\ [Next]_vars => LeaveHolds'
<1> SUFFICES ASSUME LeaveHolds, [Next]_vars PROVE LeaveHolds'
  OBVIOUS
<1>1. scene' = scene
  BY LeaveMoves
<1>2. CASE scene = "leave"
  <2>1. LeaveInv
    BY <1>2 DEF LeaveHolds
  <2>2. CASE LeaveNext
    <3>1. LeaveInv'
      BY <2>1, <2>2, LeaveKeeps
    <3> QED BY <1>1, <1>2, <3>1 DEF LeaveHolds
  <2>3. CASE UNCHANGED <<absenceVars, copy, spoiled>>
    <3>1. UNCHANGED <<leaveType, leave, balance, copy, spoiled>> /\ leaveType \in [LeaveTypes -> {NoLeave} \cup TypeRow]
      BY <2>1, <2>3 DEF absenceVars, LeaveInv, LeaveFits
    <3>2. CopyFits'
      BY <2>1, <3>1, CopyStays DEF SameRequest
    <3>3. LeaveInv'
      BY <2>1, <3>1, <3>2, BooksStay
    <3> QED BY <1>1, <1>2, <3>3 DEF LeaveHolds
  <2> QED BY <1>2, <2>2, <2>3, LeaveMoves
<1>3. CASE scene # "leave"
  <2>1. LeaveIdle /\ UNCHANGED absenceVars
    BY <1>3, LeaveMoves DEF LeaveHolds
  <2>2. LeaveIdle'
    BY <2>1 DEF LeaveIdle, absenceVars
  <2> QED BY <1>1, <1>3, <2>2 DEF LeaveHolds
<1> QED BY <1>2, <1>3

LEMMA DiscountsMove == [Next]_vars => [DiscountsNext]_discountVars
<1>1. Next => \/ WagesScene \/ LeaveScene \/ StaffScene \/ DiscountsScene
              \/ UNCHANGED officeVars
  BY DEF Next
<1>2. WagesScene \/ LeaveScene \/ StaffScene => UNCHANGED discountVars
  BY DEF WagesScene, LeaveScene, StaffScene
<1>3. DiscountsScene => DiscountsNext
  BY DEF DiscountsScene
<1>4. UNCHANGED officeVars => UNCHANGED discountVars
  BY DEF officeVars
<1>5. UNCHANGED vars => UNCHANGED officeVars
  BY DEF vars
<1> QED BY <1>1, <1>2, <1>3, <1>4, <1>5

LEMMA DiscountsSettle == Init => DiscountsInv
BY DiscountsBegin DEF Init

-----------------------------------------------------------------------------
(* What always holds.                                                      *)

\* Whatever order completing, paying, unpaying, redeeming and changing the settings came in, an
\* order earned its stamps once, every order the back office closed has earned them, and an
\* account is what its rows say (loyalty_service.py).
THEOREM StampsAlwaysAddUp == Spec => []StampsAddUp
<1>1. LoyaltyInv => StampsAddUp
  BY DEF LoyaltyInv
<1> QED BY <1>1, ChatBegins, ChatSteps, LoyaltyKeeps, PTL DEF Spec

\* Whatever was tapped twice, delivered twice or handled at once, a guest has one active cart, a
\* cart becomes one order, and what was put into carts is in the cart or in the order
\* (cart_service.py, telegram_bot.py).
THEOREM CartsAlwaysBecomeOrders == Spec => []CartsBecomeOrders
BY CartsSay, ChatBegins, ChatSteps, CartsKeeps, PTL DEF Spec

\* However often sending fails, whoever takes the list at once and wherever a process dies, a note
\* to the staff reaches each chat it is for once, or is kept for it, but for the notes that
\* something happened to that the code does not guard against (worker.py, queue_service.py).
THEOREM NoticesAlwaysArrive == Spec => []NoticesArrive
BY TheyArrive, ChatBegins, ChatSteps, NoticesKeep, PTL DEF Spec

\* Whoever edits, approves, pays or deletes a salary or an expense, in whatever order, it is paid
\* once and in the amount it still says, unless a handler wrote over it what it had read before;
\* and the register is what its transactions moved (salary_service.py, expense_service.py,
\* cash_transaction_service.py).
THEOREM AlwaysPaidOnce == Spec => []PaidOnce
<1>1. PayrollHolds => PaidOnce
  BY IdleIs, PayrollSays DEF PayrollHolds, PayrollInv
<1> QED BY <1>1, PayrollSettles, PayrollHeld, PTL DEF Spec

\* Whatever order requests, decisions, cancellations, changes of the types and new years come in, a
\* balance is charged with the days that are approved against it and never with more than there
\* are, but for what a handler wrote over, or what was approved before there was a balance
\* (leave_service.py).
THEOREM LeaveAlwaysBooks == Spec => []LeaveBooks
<1>1. LeaveHolds => LeaveBooks
  BY LeaveSays, IdleBooks DEF LeaveHolds
<1> QED BY <1>1, LeaveSettles, LeaveHeld, PTL DEF Spec

\* Whoever applies, removes, edits or deletes codes and changes the lines of bills, in whatever
\* order, a code has been used as often as it stands on bills, unless an edit form wrote over its
\* count, and a bill asks for what its lines are worth less what is on it (discount_service.py).
THEOREM DiscountsAlwaysAddUp == Spec => []DiscountsAddUp
BY DiscountsSay, DiscountsSettle, DiscountsMove, DiscountsKeep, PTL DEF Spec

\* However many guests ask at once, no code is applied past its limit or past what one guest may
\* have of it, nor beside one that stands alone (DiscountService.apply_to_order).
THEOREM LimitsAlwaysHold == Spec => LimitsHold
<1>1. DiscountsInv /\ [DiscountsNext]_discountVars => [LimitsAreKept]_discountVars
  BY LimitsKeep
<1> QED BY <1>1, DiscountsSettle, DiscountsMove, DiscountsKeep, PTL DEF Spec, LimitsHold

\* The copy that a handler of HR has read is one of the files in their scenes only.
FilesScene == scene \in {"offices", "contracts", "reviews"}
FilesStand == IF FilesScene THEN StaffInv ELSE StaffIdle

LEMMA StaffSettles == Init => FilesStand
BY StaffBegins DEF Init, FilesStand

LEMMA StaffMoves ==
  [Next]_vars => /\ scene' = scene
                 /\ \/ FilesScene /\ (OfficesNext \/ TimesNext \/ Recruit \/ ContractsNext \/ ReviewsNext)
                    \/ UNCHANGED staffVars /\ (FilesScene => UNCHANGED <<copy, spoiled>>)
<1>1. Next => \/ WagesScene \/ LeaveScene \/ StaffScene \/ DiscountsScene
              \/ UNCHANGED officeVars
  BY DEF Next
<1>2. Next => scene' = scene
  BY DEF Next
<1>3. StaffScene => FilesScene /\ (OfficesNext \/ TimesNext \/ Recruit \/ ContractsNext \/ ReviewsNext)
  BY DEF StaffScene, FilesScene
<1>4. WagesScene \/ LeaveScene \/ DiscountsScene =>
        UNCHANGED staffVars /\ (FilesScene => UNCHANGED <<copy, spoiled>>)
  BY DEF WagesScene, LeaveScene, DiscountsScene, FilesScene
<1>5. UNCHANGED officeVars => UNCHANGED <<staffVars, copy, spoiled>>
  BY DEF officeVars
<1>6. UNCHANGED vars => UNCHANGED <<scene, officeVars>>
  BY DEF vars
<1> QED BY <1>1, <1>2, <1>3, <1>4, <1>5, <1>6

LEMMA StaffHeld == FilesStand /\ [Next]_vars => FilesStand' /\ FilesAreKept
<1> SUFFICES ASSUME FilesStand, [Next]_vars PROVE FilesStand' /\ FilesAreKept
  OBVIOUS
<1>1. FilesScene' = FilesScene
  BY StaffMoves DEF FilesScene
<1>2. CASE FilesScene
  <2>1. StaffInv
    BY <1>2 DEF FilesStand
  <2>2. StaffKept
    <3>1. CASE OfficesNext \/ TimesNext \/ Recruit \/ ContractsNext \/ ReviewsNext
      BY <2>1, <3>1, OfficesKeep, TimesKeep, RecruitKeeps, ContractsKeep, ReviewsKeep
    <3>2. CASE UNCHANGED staffVars /\ UNCHANGED <<copy, spoiled>>
      BY <2>1, <3>2, AsideKeeps DEF staffVars
    <3> QED BY <1>2, <3>1, <3>2, StaffMoves
  <2> QED BY <1>1, <1>2, <2>2 DEF FilesStand, StaffKept
<1>3. CASE ~FilesScene
  <2>1. StaffIdle /\ UNCHANGED <<contract, events, review, attendance>>
    BY <1>3, StaffMoves DEF FilesStand, staffVars
  <2>2. StaffIdle' /\ FilesAreKept
    BY <2>1, IdleKeeps
  <2> QED BY <1>1, <1>3, <2>2 DEF FilesStand
<1> QED BY <1>2, <1>3

\* Whoever drafts, activates, renews and ends contracts, in whatever order, their events tell their
\* course; the terms of a contract in force, a submitted review and the hour somebody came in stay
\* as they were and booked hours only grow, but for what a handler wrote over that it had read
\* before (contract_service.py, review_service.py, attendance_service.py).
THEOREM FilesAlwaysHold == Spec => FilesHold
<1>1. FilesStand /\ [Next]_vars => [FilesAreKept]_personnelVars
  BY StaffHeld
<1> QED BY <1>1, StaffSettles, StaffHeld, PTL DEF Spec, FilesHold
=============================================================================
