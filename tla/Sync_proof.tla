------------------------------ MODULE Sync_proof ------------------------------
EXTENDS Sync, Sums, FiniteSetTheorems, TLAPS

-----------------------------------------------------------------------------
(* What the constants are, fact by fact.                                   *)

LEMMA GivenRecords ==
  /\ IsFiniteSet(Records) /\ None \notin Records
  /\ \A u \in Records : Parent[u] \in Records \cup {None} /\ Origin[u] \in Nodes
                        /\ (Parent[u] # None => Parent[Parent[u]] = None)
  BY SyncAssumption
LEMMA GivenBudget == \A x \in DOMAIN Budget : Budget[x] \in Nat /\ x \subseteq Complication
  BY SyncAssumption
LEMMA GivenCatalogue ==
  /\ Len(Catalogue) \in Nat /\ DOMAIN Catalogue = 1 .. Len(Catalogue)
  /\ \A k \in DOMAIN Catalogue :
       /\ Catalogue[k] \in Records /\ Origin[Catalogue[k]] = "hub"
       /\ Parent[Catalogue[k]] # None => \E j \in DOMAIN Catalogue : Parent[Catalogue[k]] = Catalogue[j]
<1>1. Catalogue \in Seq(Records)
  BY SyncAssumption
<1>2. /\ Len(Catalogue) \in Nat /\ DOMAIN Catalogue = 1 .. Len(Catalogue)
      /\ \A k \in DOMAIN Catalogue : Catalogue[k] \in Records
  BY <1>1
<1>3. LET installed == {Catalogue[k] : k \in DOMAIN Catalogue}
      IN  \A u \in installed : Origin[u] = "hub" /\ Parent[u] \in installed \cup {None}
  BY SyncAssumption
<1> QED BY <1>2, <1>3
LEMMA GivenBounds ==
  /\ MaxRetries \in Nat \ {0} /\ MaxAttempts \in Nat \ {0} /\ MaxClock \in Nat
  /\ PerPage \in Nat \ {0} /\ None \notin Pushers
  BY PushAssumption, PullAssumption

LEMMA LeastPart ==
  ASSUME NEW S, IsFiniteSet(S), S # {}, NEW part \in [S -> SUBSET S]
  PROVE  \E s \in S : \A y \in S : part[y] \subseteq part[s] => part[y] = part[s]
<1> DEFINE parts == {part[s] : s \in S}
<1>1. parts \subseteq SUBSET S /\ parts # {}
  OBVIOUS
<1>2. PICK t \in parts : \A u \in parts : u \subseteq t => u = t
  <2> HIDE DEF parts
  <2> QED BY <1>1, Minimal
<1> QED BY <1>2

LEMMA Largest ==
  ASSUME NEW S, IsFiniteSet(S), S # {}
  PROVE  S \in SUBSET Int => \E x \in S : \A y \in S : x >= y
<1> DEFINE above == [s \in S |-> {x \in S : x > s}]
<1>1. PICK s \in S : \A y \in S : above[y] \subseteq above[s] => above[y] = above[s]
  <2>1. above \in [S -> SUBSET S]
    OBVIOUS
  <2> HIDE DEF above
  <2> QED BY <2>1, LeastPart
<1> HAVE S \in SUBSET Int
<1>2. ASSUME NEW y \in S, y > s PROVE FALSE
  <2>1. y \in Int /\ s \in Int
    OBVIOUS
  <2>2. \A x \in S : x \in Int /\ (x > y => x > s)
    BY <1>2, <2>1
  <2>3. above[y] \subseteq above[s] /\ y \in above[s]
    BY <1>2, <2>2
  <2>4. y \notin above[y]
    BY <2>1
  <2> QED BY <1>1, <2>3, <2>4
<1> QED BY <1>2

LEMMA Least ==
  ASSUME NEW S, IsFiniteSet(S), S # {}
  PROVE  S \in SUBSET Int => \E x \in S : \A y \in S : x <= y
<1> DEFINE below == [s \in S |-> {x \in S : x < s}]
<1>1. PICK s \in S : \A y \in S : below[y] \subseteq below[s] => below[y] = below[s]
  <2>1. below \in [S -> SUBSET S]
    OBVIOUS
  <2> HIDE DEF below
  <2> QED BY <2>1, LeastPart
<1> HAVE S \in SUBSET Int
<1>2. ASSUME NEW y \in S, y < s PROVE FALSE
  <2>1. y \in Int /\ s \in Int
    OBVIOUS
  <2>2. \A x \in S : x \in Int /\ (x < y => x < s)
    BY <1>2, <2>1
  <2>3. below[y] \subseteq below[s] /\ y \in below[s]
    BY <1>2, <2>2
  <2>4. y \notin below[y]
    BY <2>1
  <2> QED BY <1>1, <2>3, <2>4
<1> QED BY <1>2

LEMMA FrontierIsAStamp ==
  ASSUME hub \in [Records -> Row], IsFiniteSet(Records),
         NEW us, us \subseteq Records, Cardinality(us) > PerPage
  PROVE  Frontier(us) \in {hub[u].synced : u \in us}
<1> DEFINE stamps == {hub[u].synced : u \in us}
           upTo(s) == Cardinality({u \in us : hub[u].synced <= s})
           Good == {s \in stamps : upTo(s) >= PerPage}
<1>1. IsFiniteSet(us)
  BY FS_Subset
<1>2. stamps \subseteq Int /\ IsFiniteSet(stamps)
  <2>1. \A u \in us : hub[u].synced \in Nat
    BY DEF Row
  <2>2. [u \in us |-> hub[u].synced] \in Surjection(us, stamps)
    BY DEF Surjection
  <2> QED BY <1>1, <2>1, <2>2, FS_Surjection
<1>3. us # {}
  BY FS_EmptySet, GivenBounds
<1>4. PICK m \in stamps : \A y \in stamps : m >= y
  <2>1. stamps # {}
    BY <1>3
  <2> HIDE DEF stamps
  <2> QED BY <1>2, <2>1, Largest
<1>5. {u \in us : hub[u].synced <= m} = us
  BY <1>2, <1>4
<1>6. Good # {}
  <2>1. upTo(m) = Cardinality(us)
    BY <1>5
  <2>2. Cardinality(us) \in Nat
    BY <1>1, FS_CardinalityType
  <2>3. upTo(m) >= PerPage
    BY <2>1, <2>2, GivenBounds 
  <2> HIDE DEF upTo, stamps
  <2> QED BY <2>3, <1>4
<1>7. Good \subseteq Int /\ IsFiniteSet(Good)
  BY <1>2, FS_Subset
<1>8. \E x \in Good : \A y \in Good : x <= y
  <2> HIDE DEF Good
  <2> QED BY <1>6, <1>7, Least
<1>9. Frontier(us) = CHOOSE x \in Good : \A y \in Good : x <= y
  BY ZenonT(30) DEF Frontier, Min
<1>10. Frontier(us) \in Good
  <2> HIDE DEF Good
  <2> QED BY <1>8, <1>9
<1> QED BY <1>10
-----------------------------------------------------------------------------
(* Rows.                                                                   *)

LEMMA RowsAre ==
  ASSUME NEW f
  PROVE  f \in Rows <=> /\ f = [u \in DOMAIN f |-> f[u]]
                        /\ DOMAIN f \subseteq Records
                        /\ \A u \in DOMAIN f : f[u] \in Row
  BY DEF Rows

LEMMA ARow ==
  ASSUME NEW row \in Row
  PROVE  /\ row.version \in Nat /\ row.val \in Value /\ row.price \in Value
         /\ row.deleted \in BOOLEAN /\ row.branch \in Nodes /\ row.synced \in Nat
  BY DEF Row

LEMMA NoRowIsARow == NoRow \in Row /\ ~Exists(NoRow) /\ ~NoRow.deleted /\ NoRow.version = 0
  BY DEF NoRow, Row, Value, Nodes, Exists

LEMMA SavedIs ==
  ASSUME NEW node \in Nodes, NEW row \in Row, NEW what \in Change, NEW stamp \in Nat,
         edits \in Nat
  PROVE  LET new == Saved(node, row, what, stamp) IN
         /\ new \in Row /\ new.version = row.version + 1 /\ new.synced = stamp
         /\ new.branch = IF Exists(row) THEN row.branch ELSE node
         /\ row.deleted => new.deleted
         /\ ~Exists(row) => new.deleted = row.deleted
         /\ new.price = row.price \/ new.price[1] = node
<1> DEFINE value == <<node, edits + 1>>
<1>1. value \in Value /\ value[1] = node
  BY DEF Value
<1>2. row = [version |-> row.version, val |-> row.val, price |-> row.price,
             deleted |-> row.deleted, branch |-> row.branch, synced |-> row.synced]
  BY DEF Row
<1>3. row.version + 1 \in Nat
  BY ARow
<1> HIDE DEF value
<1>4. CASE ~Exists(row)
  <2>1. Saved(node, row, what, stamp) =
          [version |-> row.version + 1, val |-> value, price |-> value,
           deleted |-> row.deleted, branch |-> node, synced |-> stamp]
    BY <1>2, <1>4 DEF Saved, value
  <2> QED BY <2>1, <1>1, <1>3, <1>4, ARow DEF Row, Nodes
<1>5. CASE Exists(row)
  <2>1. Saved(node, row, what, stamp) =
          [version |-> row.version + 1,
           val |-> IF what = "val" THEN value ELSE row.val,
           price |-> IF what = "price" THEN value ELSE row.price,
           deleted |-> row.deleted \/ what = "deleted",
           branch |-> row.branch, synced |-> stamp]
    BY <1>2, <1>5 DEF Saved, value
  <2> QED BY <2>1, <1>1, <1>3, <1>5, ARow DEF Row, Nodes
<1> QED BY <1>4, <1>5

LEMMA MergedIs ==
  ASSUME NEW node \in Nodes, NEW u \in Records, NEW row \in Row, NEW p \in Row, NEW stamp \in Nat
  PROVE  LET new == Merged(node, u, row, p, stamp) IN
         /\ new \in Row /\ new.version = p.version /\ new.val = p.val
         /\ new.deleted = p.deleted /\ new.synced = stamp
         /\ new.branch = IF Exists(row) THEN row.branch
                         ELSE IF node = "hub" THEN "branch" ELSE p.branch
         /\ new.price = IF Exists(row) /\ node = "hub" /\ Origin[u] = "hub"
                        THEN row.price ELSE p.price
<1>1. p = [version |-> p.version, val |-> p.val, price |-> p.price,
           deleted |-> p.deleted, branch |-> p.branch, synced |-> p.synced]
  BY DEF Row
<1> DEFINE owner == IF Exists(row) THEN row.branch
                    ELSE IF node = "hub" THEN "branch" ELSE p.branch
           price == IF Exists(row) /\ node = "hub" /\ Origin[u] = "hub"
                      THEN row.price ELSE p.price
<1>2. Merged(node, u, row, p, stamp) = [p EXCEPT !.branch = owner, !.price = price, !.synced = stamp]
  BY DEF Merged
<1>3. owner \in Nodes /\ price \in Value
  BY ARow DEF Nodes
<1> HIDE DEF owner, price
<1>4. Merged(node, u, row, p, stamp) =
        [version |-> p.version, val |-> p.val, price |-> price, deleted |-> p.deleted,
         branch |-> owner, synced |-> stamp]
  BY <1>1, <1>2
<1> QED BY <1>3, <1>4, ARow DEF Row, owner, price

\* What the hub makes of a row it is sent.
HubRow(u, row, p, stamp) == Merged("hub", u, row, p, stamp)
LEMMA HubRowIs ==
  ASSUME NEW u \in Records, NEW row \in Row, NEW p \in Row, NEW stamp \in Nat
  PROVE  LET new == HubRow(u, row, p, stamp) IN
         /\ new \in Row /\ new.version = p.version /\ new.val = p.val
         /\ new.deleted = p.deleted /\ new.synced = stamp
         /\ new.branch = IF Exists(row) THEN row.branch ELSE "branch"
         /\ new.price = IF Exists(row) /\ Origin[u] = "hub" THEN row.price ELSE p.price
<1> DEFINE node == "hub"
<1>1. node \in Nodes
  BY DEF Nodes
<1> HIDE DEF node
<1>2. LET n == Merged(node, u, row, p, stamp) IN
         /\ n \in Row /\ n.version = p.version /\ n.val = p.val
         /\ n.deleted = p.deleted /\ n.synced = stamp
         /\ n.branch = IF Exists(row) THEN row.branch
                         ELSE IF node = "hub" THEN "branch" ELSE p.branch
         /\ n.price = IF Exists(row) /\ node = "hub" /\ Origin[u] = "hub"
                        THEN row.price ELSE p.price
  BY <1>1, MergedIs
<1>3. HubRow(u, row, p, stamp) = Merged(node, u, row, p, stamp) /\ node = "hub"
  BY DEF node, HubRow
<1> QED BY <1>2, <1>3
-----------------------------------------------------------------------------
(* Batches.                                                                *)

LEMMA Levels ==
  ASSUME NEW u \in Records
  PROVE  /\ Level(u) \in {1, 2}
         /\ Parent[u] # None => /\ Parent[u] \in Records /\ Parent[Parent[u]] = None
                                /\ Level(u) = 2 /\ Level(Parent[u]) = 1
         /\ Parent[u] = None => Level(u) = 1
         /\ Origin[u] \in Nodes
  BY GivenRecords DEF Level

LEMMA SomeOf ==
  ASSUME NEW rows, rows \in Rows, NEW us, us \subseteq DOMAIN rows
  PROVE  LET some == [u \in us |-> rows[u]] IN
         some \in Rows /\ DOMAIN some = us /\ \A u \in us : some[u] = rows[u]
<1>1. us \in SUBSET Records /\ \A u \in us : rows[u] \in Row
  BY RowsAre
<1>2. [u \in us |-> rows[u]] \in [us -> Row]
  BY <1>1
<1> QED BY <1>1, <1>2 DEF Rows

\* What a node makes of a record in a batch of one model.
Made(node, t, batch, stamp, u) ==
  IF u \in DOMAIN batch /\ ~Missing(t, u) /\ Accepts(node, u, t[u], batch[u])
    THEN Merged(node, u, t[u], batch[u], stamp)
    ELSE t[u]
LEMMA AppliedIs ==
  ASSUME NEW node \in Nodes, NEW t \in [Records -> Row], NEW batch, batch \in Rows,
         NEW stamp \in Nat
  PROVE  /\ Applied(node, t, batch, stamp) \in [Records -> Row]
         /\ \A u \in Records :
              Applied(node, t, batch, stamp)[u] = Made(node, t, batch, stamp, u)
<1>1. \A u \in DOMAIN batch : u \in Records /\ batch[u] \in Row
  BY RowsAre
<1>2. \A u \in Records : u \in DOMAIN batch => Merged(node, u, t[u], batch[u], stamp) \in Row
  BY <1>1, MergedIs
<1> QED BY <1>2 DEF Applied, Made

\* What the branch makes of rows of all models.
Takes(rows, table, u) ==
  u \in DOMAIN rows /\ ~Missing(table, u) /\ Accepts("branch", u, till[u], rows[u])
LEMMA IngestedIs ==
  ASSUME till \in [Records -> Row], NEW rows, rows \in Rows
  PROVE  /\ Ingested(rows) \in [Records -> Row]
         /\ \A u \in Records :
              Ingested(rows)[u] = IF Takes(rows, Ingested(rows), u)
                                    THEN Merged("branch", u, till[u], rows[u], 1)
                                    ELSE till[u]
         /\ Deferred(rows) \in Rows
         /\ DOMAIN Deferred(rows) = {u \in DOMAIN rows : Missing(Ingested(rows), u)}
         /\ \A u \in DOMAIN Deferred(rows) : Deferred(rows)[u] = rows[u]
<1> DEFINE parents == Applied("branch", till, OfLevel(rows, 1), 1)
           all == Applied("branch", parents, OfLevel(rows, 2), 1)
<1>1. \A u \in DOMAIN rows : u \in Records /\ rows[u] \in Row
  BY RowsAre
<1>2. ASSUME NEW l \in {1, 2}
      PROVE  /\ OfLevel(rows, l) \in Rows
             /\ DOMAIN OfLevel(rows, l) = {u \in DOMAIN rows : Level(u) = l}
             /\ \A u \in DOMAIN OfLevel(rows, l) : OfLevel(rows, l)[u] = rows[u]
  BY SomeOf DEF OfLevel
<1>3. "branch" \in Nodes /\ 1 \in Nat
  BY DEF Nodes
<1>4. /\ parents \in [Records -> Row]
      /\ \A u \in Records :
           parents[u] = IF Level(u) = 1 /\ u \in DOMAIN rows /\ ~Missing(till, u)
                           /\ Accepts("branch", u, till[u], rows[u])
                          THEN Merged("branch", u, till[u], rows[u], 1)
                          ELSE till[u]
  <2> DEFINE batch == OfLevel(rows, 1)
  <2>1. /\ batch \in Rows
        /\ \A u \in Records : u \in DOMAIN batch <=> Level(u) = 1 /\ u \in DOMAIN rows
        /\ \A u \in DOMAIN batch : batch[u] = rows[u]
    BY <1>1, <1>2
  <2>9. batch \in Rows
    BY <2>1
  <2> HIDE DEF batch, parents, all
  <2>2. /\ Applied("branch", till, batch, 1) \in [Records -> Row]
        /\ \A u \in Records :
              Applied("branch", till, batch, 1)[u] = Made("branch", till, batch, 1, u)
    BY <2>9, <1>3, AppliedIs
  <2>3. parents = Applied("branch", till, batch, 1)
    BY DEF batch, parents
  <2> QED BY <2>1, <2>2, <2>3 DEF Made
<1> HIDE DEF parents
<1>5. /\ all \in [Records -> Row]
      /\ \A u \in Records :
           all[u] = IF Level(u) = 2 /\ u \in DOMAIN rows /\ ~Missing(parents, u)
                       /\ Accepts("branch", u, parents[u], rows[u])
                      THEN Merged("branch", u, parents[u], rows[u], 1)
                      ELSE parents[u]
  <2> DEFINE batch == OfLevel(rows, 2)
  <2>1. /\ batch \in Rows
        /\ \A u \in Records : u \in DOMAIN batch <=> Level(u) = 2 /\ u \in DOMAIN rows
        /\ \A u \in DOMAIN batch : batch[u] = rows[u]
    BY <1>1, <1>2
  <2>9. batch \in Rows /\ parents \in [Records -> Row]
    BY <2>1, <1>4
  <2> HIDE DEF batch, all
  <2>2. /\ Applied("branch", parents, batch, 1) \in [Records -> Row]
        /\ \A u \in Records :
              Applied("branch", parents, batch, 1)[u] = Made("branch", parents, batch, 1, u)
    BY <2>9, <1>3, AppliedIs
  <2>3. all = Applied("branch", parents, batch, 1)
    BY DEF batch, all
  <2> QED BY <2>1, <2>2, <2>3 DEF Made
<1>6. Ingested(rows) = all
  BY DEF Ingested, parents
<1> HIDE DEF all
<1>7. \A u \in Records : Missing(all, u) <=> Missing(parents, u)
  BY <1>4, <1>5, Levels DEF Missing
<1>8. \A u \in Records : Level(u) = 1 => ~Missing(till, u) /\ ~Missing(all, u)
  BY Levels DEF Missing
<1>9. ASSUME NEW u \in Records
      PROVE  all[u] = IF Takes(rows, all, u)
                        THEN Merged("branch", u, till[u], rows[u], 1)
                        ELSE till[u]
  <2>1. CASE Level(u) = 1
    BY <2>1, <1>4, <1>5, <1>8 DEF Takes
  <2>2. CASE Level(u) = 2
    BY <2>2, <1>4, <1>5, <1>7 DEF Takes
  <2> QED BY <2>1, <2>2, Levels
<1>10. /\ Deferred(rows) = [u \in {x \in DOMAIN rows : Missing(all, x)} |-> rows[u]]
  BY <1>1, <1>7 DEF Deferred, parents
<1> QED BY <1>5, <1>6, <1>9, <1>10, SomeOf
-----------------------------------------------------------------------------
(* Types.                                                                  *)

LEMMA Budgeted == TypeOK => Budget[world] \in Nat
  BY GivenBudget DEF TypeOK

LEMMA MarkOfCatalogue ==
  ASSUME NEW u \in Records
  PROVE  /\ Max({0} \cup {k \in DOMAIN Catalogue : u = Catalogue[k]}) \in 0 .. Len(Catalogue)
         /\ \A k \in DOMAIN Catalogue :
              u = Catalogue[k] => Max({0} \cup {x \in DOMAIN Catalogue : u = Catalogue[x]}) > 0
<1> DEFINE S == {0} \cup {k \in DOMAIN Catalogue : u = Catalogue[k]}
<1>1. Len(Catalogue) \in Nat /\ DOMAIN Catalogue = 1 .. Len(Catalogue)
  BY GivenCatalogue
<1>2. S \in SUBSET (0 .. Len(Catalogue)) /\ S \in SUBSET Int /\ S # {}
  BY <1>1
<1>3. IsFiniteSet(0 .. Len(Catalogue))
  BY <1>1, FS_Interval
<1>4. IsFiniteSet(S)
  BY <1>2, <1>3, FS_Subset
<1> HIDE DEF S
<1>5. \E x \in S : \A y \in S : x >= y
  BY <1>2, <1>4, Largest
<1>6. Max(S) \in S /\ \A y \in S : Max(S) >= y
  BY <1>5 DEF Max
<1>7. \A k \in DOMAIN Catalogue : u = Catalogue[k] => k \in S /\ k > 0
  BY <1>1 DEF S
<1>8. Max(S) \in 0 .. Len(Catalogue)
  BY <1>2, <1>6
<1>9. ASSUME NEW k \in DOMAIN Catalogue, u = Catalogue[k] PROVE Max(S) > 0
  <2>1. k > 0 /\ Max(S) >= k /\ k \in Nat
    BY <1>1, <1>6, <1>7, <1>9
  <2> QED BY <1>1, <1>8, <2>1
<1> QED BY <1>8, <1>9 DEF S

LEMMA NoRows == <<>> \in Rows /\ DOMAIN <<>> = {}
<1>1. <<>> \in [{} -> Row]
  OBVIOUS
<1> QED BY <1>1 DEF Rows

LEMMA TypesAtFirst == Init => TypeOK
<1> SUFFICES ASSUME Init PROVE TypeOK
  OBVIOUS
<1>1. till \in [Records -> Row] /\ saving \in [Records -> Row]
  BY NoRowIsARow DEF Init, RecordsInit, PullInit
<1>2. hub \in [Records -> Row]
  <2> DEFINE stamp(u) == Max({0} \cup {k \in DOMAIN Catalogue : u = Catalogue[k]})
             version(u) == IF \E k \in DOMAIN Catalogue : u = Catalogue[k] THEN 1 ELSE 0
             row(u) == [NoRow EXCEPT !.version = version(u), !.synced = stamp(u)]
  <2>1. hub = [u \in Records |-> row(u)]
    BY DEF Init, RecordsInit
  <2>2. ASSUME NEW u \in Records PROVE row(u) \in Row
    <3>1. stamp(u) \in Nat
      <4>1. stamp(u) \in 0 .. Len(Catalogue)
        BY MarkOfCatalogue
      <4> HIDE DEF stamp
      <4> QED BY <4>1, GivenCatalogue
    <3>2. version(u) \in Nat
      OBVIOUS
    <3> HIDE DEF stamp, version
    <3> QED BY <3>1, <3>2, NoRowIsARow DEF Row
  <2> HIDE DEF row
  <2> QED BY <2>1, <2>2
<1>3. clock \in Nat /\ world \in DOMAIN Budget /\ edits \in 0 .. Budget[world] /\ cursor = 0
  <2>1. clock = Len(Catalogue) /\ world \in DOMAIN Budget /\ edits = 0 /\ cursor = 0
    BY DEF Init, RecordsInit, PullInit
  <2> QED BY <2>1, GivenBudget, GivenCatalogue
<1>4. PushTypeOK
  <2>1. queue \in [Records -> [row : Row, attempts : 0 .. MaxAttempts]]
    <3>1. queue = [u \in Records |-> NotQueued]
      BY DEF Init, PushInit
    <3> QED BY <3>1, NoRowIsARow, GivenBounds DEF NotQueued
  <2>2. push \in [Pushers -> Push]
    <3>1. push = [w \in Pushers |-> Idle]
      BY DEF Init, PushInit
    <3>2. Idle \in Push
      BY NoRows, GivenBounds DEF Push, Idle, States
    <3> QED BY <3>1, <3>2
  <2>3. hooks = {} /\ lock = None /\ missed = {}
    BY DEF Init, PushInit
  <2> QED BY <2>1, <2>2, <2>3 DEF PushTypeOK
<1>5. PullTypeOK
  <2>1. pull = Idling
    BY DEF Init, PullInit
  <2> QED BY <2>1, <1>1, <1>3, NoRows DEF PullTypeOK, Idling
<1> QED BY <1>1, <1>2, <1>3, <1>4, <1>5 DEF TypeOK

LEMMA EnqueuedIs ==
  ASSUME TypeOK, NEW rows, rows \in Rows
  PROVE  /\ Enqueued(queue, rows) \in [Records -> [row : Row, attempts : 0 .. MaxAttempts]]
         /\ \A u \in Records : Enqueued(queue, rows)[u].row =
                                 IF u \in DOMAIN rows THEN rows[u] ELSE queue[u].row
<1>1. \A u \in DOMAIN rows : u \in Records /\ rows[u] \in Row
  BY RowsAre
<1> QED BY <1>1 DEF Enqueued, TypeOK, PushTypeOK

LEMMA OnlyIs ==
  ASSUME NEW u \in Records, NEW row \in Row
  PROVE  Only(u, row) \in Rows /\ DOMAIN Only(u, row) = {u} /\ Only(u, row)[u] = row
<1>1. Only(u, row) \in [{u} -> Row] /\ {u} \in SUBSET Records
  BY DEF Only
<1> QED BY <1>1 DEF Only, Rows
-----------------------------------------------------------------------------
(* What the steps come to, and that they keep the types.                   *)

Own(u) == Origin[u] = "branch"
Theirs(u) == Origin[u] = "hub"
Queues == [Records -> [row : Row, attempts : 0 .. MaxAttempts]]

\* A user saved u at the branch.
TillSaved(u) ==
  /\ till' \in [Records -> Row]
  /\ \A x \in Records \ {u} : till'[x] = till[x]
  /\ till'[u].version = till[u].version + 1 /\ till'[u].synced = 0
  /\ ~till[u].deleted
  /\ IF Exists(till[u]) THEN till'[u].branch = till[u].branch
                        ELSE till'[u].branch = "branch" /\ Own(u) /\ ~till'[u].deleted
  /\ Theirs(u) => "shared" \in world
  /\ Parent[u] # None => Exists(till[Parent[u]])
  /\ Reading => "busy" \in world
  /\ queue' \in Queues /\ \A x \in Records \ {u} : queue'[x] = queue[x]
  /\ \/ "delayed_hook" \notin world /\ queue'[u].row = till'[u] /\ hooks' = hooks
     \/ "delayed_hook" \in world /\ queue' = queue /\ hooks' = hooks \cup {<<u, till'[u]>>}
     \/ "lost_hook" \in world /\ (Queued(u) => u \in missed') /\ queue' = queue /\ hooks' = hooks
  /\ missed' \subseteq Records /\ \A x \in Records \ {u} : x \in missed => x \in missed'
  /\ UNCHANGED <<world, hub, clock, lock, push, pullVars>>

LEMMA TillSaveIs ==
  ASSUME TypeOK, NEW u \in Records, NEW what \in Change, TillSave(u, what), UNCHANGED pullVars
  PROVE  TillSaved(u) /\ TypeOK'
<1> DEFINE row == Saved("branch", till[u], what, 0)
<1>1. /\ till \in [Records -> Row] /\ till[u] \in Row /\ edits \in Nat
      /\ queue \in Queues
  BY Budgeted DEF TypeOK, PushTypeOK, Queues
<1>2. /\ row \in Row /\ row.version = till[u].version + 1 /\ row.synced = 0
      /\ row.branch = IF Exists(till[u]) THEN till[u].branch ELSE "branch"
      /\ ~Exists(till[u]) => row.deleted = till[u].deleted
  <2>1. "branch" \in Nodes /\ 0 \in Nat
    BY DEF Nodes
  <2> QED BY <1>1, <2>1, SavedIs
<1>3. /\ till' = [till EXCEPT ![u] = row] /\ edits' = edits + 1
      /\ ~till[u].deleted /\ edits < Budget[world]
      /\ ~Exists(till[u]) => Own(u)
      /\ Theirs(u) => "shared" \in world
      /\ Parent[u] # None => Exists(till[Parent[u]])
      /\ Reading => "busy" \in world
      /\ UNCHANGED <<world, hub, clock, lock, push, pullVars>>
  BY DEF TillSave, Editable, Own, Theirs
<1>4. /\ queue' \in Queues /\ \A x \in Records \ {u} : queue'[x] = queue[x]
      /\ \/ "delayed_hook" \notin world /\ queue'[u].row = row /\ hooks' = hooks
         \/ "delayed_hook" \in world /\ queue' = queue /\ hooks' = hooks \cup {<<u, row>>}
         \/ "lost_hook" \in world /\ (Queued(u) => u \in missed') /\ queue' = queue /\ hooks' = hooks
      /\ missed' \subseteq Records /\ \A x \in Records \ {u} : x \in missed => x \in missed'
  <2>0. missed \subseteq Records
    BY DEF TypeOK, PushTypeOK
  <2>1. CASE "delayed_hook" \notin world /\ queue' = Enqueued(queue, Only(u, row)) /\ hooks' = hooks
             /\ missed' = missed \ {u}
    <3>1. Only(u, row) \in Rows /\ DOMAIN Only(u, row) = {u} /\ Only(u, row)[u] = row
      BY <1>2, OnlyIs
    <3>2. queue'[u].row = row /\ queue' \in Queues
      BY <2>1, <3>1, EnqueuedIs DEF Queues
    <3>3. \A x \in Records \ {u} : queue'[x] = queue[x]
      BY <2>1, <3>1 DEF Enqueued
    <3> QED BY <2>0, <2>1, <3>2, <3>3
  <2>2. CASE "delayed_hook" \in world /\ hooks' = hooks \cup {<<u, row>>} /\ queue' = queue
             /\ missed' = missed \ {u}
    BY <2>0, <2>2, <1>1
  <2>3. CASE "lost_hook" \in world /\ UNCHANGED <<queue, hooks>>
             /\ missed' = IF Queued(u) THEN missed \cup {u} ELSE missed \ {u}
    BY <2>0, <2>3, <1>1
  <2> QED BY <2>1, <2>2, <2>3 DEF TillSave
<1> HIDE DEF row
<1>5. till'[u] = row /\ till' \in [Records -> Row] /\ \A x \in Records \ {u} : till'[x] = till[x]
  BY <1>1, <1>2, <1>3
<1>6. TillSaved(u)
  BY <1>2, <1>3, <1>4, <1>5 DEF TillSaved
<1>7. TypeOK'
  <2>1. edits' \in 0 .. Budget[world]' /\ world' \in DOMAIN Budget
    BY <1>1, <1>3, Budgeted DEF TypeOK
  <2>2. hooks' \subseteq Records \X Row
    <3>1. <<u, row>> \in Records \X Row
      BY <1>2
    <3> QED BY <1>4, <3>1 DEF TypeOK, PushTypeOK
  <2>3. PushTypeOK'
    BY <1>3, <1>4, <2>2 DEF TypeOK, PushTypeOK, Queues
  <2>4. PullTypeOK'
    BY <1>3 DEF TypeOK, PullTypeOK, pullVars
  <2> QED BY <1>3, <1>5, <2>1, <2>3, <2>4 DEF TypeOK
<1> QED BY <1>6, <1>7

Sending(w) == push[w].pc \in {"send", "answer", "unqueue", "stamp"}
\* w has a row of u to send, or has sent it.
Sent(w, u) == Sending(w) /\ u \in DOMAIN push[w].sent
\* The hub confirmed u to w, or its answer that does is on the way.
Taken(w, u) ==
  /\ Sending(w)
  /\ \/ u \in push[w].confirmed
     \/ push[w].pc = "answer" /\ u \in DOMAIN Batch(w) \ push[w].failed
\* A push has sent nothing before it read the queue, and confirms what it sent.
Pushing(w) ==
  /\ push[w].pc \in {"idle", "reconcile", "read"} => DOMAIN push[w].sent = {} /\ push[w].confirmed = {}
  /\ push[w].confirmed \subseteq DOMAIN push[w].sent

\* Pushes go on: nothing new is sent, and nothing is taken that was not.
GoesOn ==
  /\ \A w \in Pushers, u \in Records :
       /\ u \in DOMAIN push'[w].sent => u \in DOMAIN push[w].sent /\ push'[w].sent[u] = push[w].sent[u]
       /\ Sent(w, u)' => Sent(w, u)
       /\ Taken(w, u)' => Taken(w, u)
  /\ \A w \in Pushers : Pushing(w) => Pushing(w)'
\* The queue loses what was taken, or what an operator clears, and gains rows of the branch.
Requeued ==
  \A u \in Records :
    \/ queue'[u].row = queue[u].row
    \/ queue'[u].row = till[u] /\ Exists(till[u]) /\ till[u].branch = "branch"
    \/ queue'[u].row = NoRow /\ "cleared" \in world
    \/ queue'[u].row = NoRow /\ \E w \in Pushers : Taken(w, u)
Kept == UNCHANGED <<world, till, hub, clock, edits, hooks, missed, pullVars>>

LEMMA BatchIs ==
  ASSUME TypeOK, NEW w \in Pushers
  PROVE  /\ Batch(w) \in Rows
         /\ DOMAIN Batch(w) = {u \in DOMAIN push[w].sent : Level(u) = push[w].level}
         /\ \A u \in DOMAIN Batch(w) : Batch(w)[u] = push[w].sent[u]
<1>1. push[w].sent \in Rows
  BY DEF TypeOK, PushTypeOK, Push
<1> QED BY <1>1, SomeOf DEF Batch

LEMMA KeptTypes ==
  ASSUME TypeOK, Kept, queue' \in Queues, lock' \in Pushers \cup {None}, push' \in [Pushers -> Push]
  PROVE  TypeOK'
<1>1. PushTypeOK'
  BY DEF TypeOK, PushTypeOK, Kept, Queues
<1>2. PullTypeOK'
  BY DEF TypeOK, PullTypeOK, Kept, pullVars
<1> QED BY <1>1, <1>2 DEF TypeOK, Kept

Underway == {"send", "answer", "unqueue", "stamp"}
\* A push that goes on as p sends nothing new, and keeps what is taken.
After(w, p) ==
  /\ p \in Push /\ p.pc # "answer"
  /\ p.sent = push[w].sent \/ DOMAIN p.sent = {}
  /\ p.pc \in Underway => Sending(w) /\ \A u \in p.confirmed : Taken(w, u)
  /\ p.confirmed \subseteq push[w].confirmed \/ p.pc \in Underway
  /\ p.sent = push[w].sent \/ p.confirmed = {}
  /\ p.pc \in {"idle", "reconcile", "read"} =>
       (DOMAIN p.sent = {} /\ p.confirmed = {}) \/ push[w].pc \in {"idle", "reconcile", "read"}
LEMMA OneGoesOn ==
  ASSUME TypeOK, NEW w \in Pushers, NEW p, After(w, p), push' = [push EXCEPT ![w] = p]
  PROVE  push' \in [Pushers -> Push] /\ GoesOn
<1>1. push \in [Pushers -> Push] /\ p \in Push
  BY DEF TypeOK, PushTypeOK, After
<1>2. push'[w] = p /\ \A v \in Pushers : v # w => push'[v] = push[v]
  BY <1>1
<1>3. ASSUME NEW v \in Pushers, NEW u \in Records
      PROVE  /\ u \in DOMAIN push'[v].sent => u \in DOMAIN push[v].sent /\ push'[v].sent[u] = push[v].sent[u]
             /\ Sent(v, u)' => Sent(v, u)
             /\ Taken(v, u)' => Taken(v, u)
  <2>1. CASE v = w
    BY <1>2, <2>1 DEF After, Sent, Taken, Sending, Underway
  <2>2. CASE v # w
    <3>1. push'[v] = push[v]
      BY <1>2, <2>2
    <3> QED BY <3>1 DEF Sent, Taken, Sending, Batch
  <2> QED BY <2>1, <2>2
<1>4. ASSUME NEW v \in Pushers, Pushing(v) PROVE Pushing(v)'
  <2>1. CASE v = w
    <3>1. push[w].confirmed \subseteq DOMAIN push[w].sent
      BY <1>4, <2>1 DEF Pushing
    <3>2. \A u : Taken(w, u) => u \in DOMAIN push[w].sent
      BY <3>1, BatchIs DEF Taken
    <3> QED BY <1>2, <1>4, <2>1, <3>1, <3>2 DEF Pushing, After, Underway
  <2>2. CASE v # w
    BY <1>2, <1>4, <2>2 DEF Pushing
  <2> QED BY <2>1, <2>2
<1> QED BY <1>1, <1>2, <1>3, <1>4 DEF GoesOn

LEMMA PushHas ==
  ASSUME TypeOK, NEW w \in Pushers
  PROVE  /\ push[w] \in Push
         /\ push[w] = [pc |-> push[w].pc, level |-> push[w].level, sent |-> push[w].sent,
                       failed |-> push[w].failed, confirmed |-> push[w].confirmed,
                       left |-> push[w].left]
         /\ queue \in Queues /\ lock \in Pushers \cup {None}
  BY DEF TypeOK, PushTypeOK, Push, Queues

LEMMA StartPushIs ==
  ASSUME TypeOK, NEW w \in Pushers, StartPush(w), UNCHANGED pullVars
  PROVE  TypeOK' /\ GoesOn /\ Requeued /\ Kept
<1> DEFINE p == [push[w] EXCEPT !.pc = "reconcile"]
<1>1. push' = [push EXCEPT ![w] = p] /\ lock' = w /\ queue' = queue /\ Kept /\ push[w] = Idle
  BY DEF StartPush, Kept
<1>2. After(w, p)
  BY <1>1, PushHas DEF After, Push, States, Underway, Idle
<1> HIDE DEF p
<1> QED BY <1>1, <1>2, OneGoesOn, KeptTypes, PushHas DEF Requeued

LEMMA ReconcileIs ==
  ASSUME TypeOK, NEW w \in Pushers, Reconcile(w), UNCHANGED pullVars
  PROVE  TypeOK' /\ GoesOn /\ Requeued /\ Kept
<1> DEFINE p == [push[w] EXCEPT !.pc = "read"]
           us == {x \in OwnRows : till[x].synced = 0 /\ ~Queued(x)}
           rows == [u \in us |-> till[u]]
<1>1. push' = [push EXCEPT ![w] = p] /\ lock' = lock /\ queue' = Enqueued(queue, rows) /\ Kept
      /\ push[w].pc = "reconcile"
  BY DEF Reconcile, Kept
<1>2. After(w, p)
  BY <1>1, PushHas DEF After, Push, States, Underway
<1>3. rows \in Rows /\ \A u \in us : u \in OwnRows /\ rows[u] = till[u]
  <2>1. us \in SUBSET Records /\ \A u \in us : till[u] \in Row
    BY DEF OwnRows, TypeOK
  <2>2. rows \in [us -> Row]
    BY <2>1
  <2> QED BY <2>1, <2>2 DEF Rows
<1> HIDE DEF p
<1>4. queue' \in Queues /\ Requeued
  <2> HIDE DEF us
  <2>1. DOMAIN rows = us
    OBVIOUS
  <2> HIDE DEF rows
  <2>2. queue' \in Queues /\ \A u \in Records : queue'[u].row = IF u \in us THEN rows[u] ELSE queue[u].row
    BY <1>1, <1>3, <2>1, EnqueuedIs DEF Queues
  <2> QED BY <1>3, <2>2 DEF Requeued, OwnRows
<1> QED BY <1>1, <1>2, <1>4, OneGoesOn, KeptTypes, PushHas

\* A step of the queue or of a push that touches no table.
Plods == GoesOn /\ Requeued /\ Kept

LEMMA FailedIs ==
  ASSUME TypeOK, NEW us
  PROVE  Failed(us) \in Queues /\ \A u \in Records : Failed(us)[u].row = queue[u].row
<1>1. queue \in Queues
  BY DEF TypeOK, PushTypeOK, Queues
<1> QED BY <1>1, GivenBounds DEF Failed, Queues

LEMMA MoveIs ==
  ASSUME TypeOK, NEW w \in Pushers, NEW p, After(w, p), push' = [push EXCEPT ![w] = p],
         Kept, Requeued, queue' \in Queues, lock' \in Pushers \cup {None}
  PROVE  TypeOK' /\ Plods
  BY OneGoesOn, KeptTypes DEF Plods

LEMMA NextModelIs ==
  ASSUME NEW p \in Push, p.level # 3
  PROVE  /\ NextModel(p) \in Push /\ NextModel(p).pc \in {"send", "unqueue"}
         /\ NextModel(p).sent = p.sent /\ NextModel(p).confirmed = p.confirmed
<1> DEFINE level == p.level + 1
           pc == IF p.level = 2 THEN "unqueue" ELSE "send"
<1>1. p.level \in {1, 2}
  BY DEF Push
<1>2. level \in 1 .. 3 /\ pc \in {"send", "unqueue"} /\ (level = 3 => pc = "unqueue")
  BY <1>1
<1>3. NextModel(p) = [p EXCEPT !.level = level, !.pc = pc, !.left = MaxRetries]
  BY DEF NextModel
<1> HIDE DEF level, pc
<1>4. p = [pc |-> p.pc, level |-> p.level, sent |-> p.sent, failed |-> p.failed,
           confirmed |-> p.confirmed, left |-> p.left]
  BY DEF Push
<1>5. NextModel(p) = [pc |-> pc, level |-> level, sent |-> p.sent, failed |-> p.failed,
                      confirmed |-> p.confirmed, left |-> MaxRetries]
  BY <1>3, <1>4
<1>6. /\ p.sent \in Rows /\ p.failed \in SUBSET Records /\ p.confirmed \in SUBSET Records
      /\ MaxRetries \in 0 .. MaxRetries
  BY GivenBounds DEF Push
<1> QED BY <1>2, <1>5, <1>6 DEF Push, States

LEMMA NoBatchIs ==
  ASSUME TypeOK, NEW w \in Pushers, NoBatch(w), UNCHANGED pullVars
  PROVE  TypeOK' /\ Plods
<1> DEFINE p == NextModel(push[w])
<1>1. push' = [push EXCEPT ![w] = p] /\ lock' = lock /\ queue' = queue /\ Kept /\ push[w].pc = "send"
  BY PushHas DEF NoBatch, Kept
<1>2. After(w, p)
  <2>1. \A u \in push[w].confirmed : Taken(w, u)
    BY <1>1 DEF Taken, Sending
  <2>2. push[w] \in Push /\ push[w].level # 3
    BY <1>1, PushHas DEF Push
  <2>3. /\ p \in Push /\ p.pc \in {"send", "unqueue"}
        /\ p.sent = push[w].sent /\ p.confirmed = push[w].confirmed
    BY <2>2, NextModelIs
  <2> HIDE DEF p
  <2> QED BY <1>1, <2>1, <2>3 DEF After, Underway, Sending
<1> HIDE DEF p
<1> QED BY <1>1, <1>2, MoveIs, PushHas DEF Requeued

LEMMA AnswerIs ==
  ASSUME TypeOK, NEW w \in Pushers, Answer(w), UNCHANGED pullVars
  PROVE  TypeOK' /\ Plods
<1> DEFINE us == DOMAIN Batch(w)
           q == [push[w] EXCEPT !.confirmed = @ \cup (us \ push[w].failed), !.failed = {}]
           p == IF us = push[w].failed THEN StopPush(q) ELSE NextModel(q)
<1>1. /\ push' = [push EXCEPT ![w] = p] /\ lock' = lock /\ queue' = Failed(push[w].failed) /\ Kept
      /\ push[w].pc = "answer"
  BY DEF Answer, Kept
<1>2. After(w, p)
  <2>1. us \subseteq Records
    BY BatchIs, RowsAre
  <2>2. \A u \in push[w].confirmed \cup (us \ push[w].failed) : Taken(w, u)
    BY <1>1 DEF Taken, Sending
  <2> HIDE DEF us
  <2>3. q \in Push /\ q.pc = "answer" /\ q.level # 3 /\ q.sent = push[w].sent /\ q.confirmed = push[w].confirmed \cup (us \ push[w].failed)
    BY <1>1, <2>1, PushHas DEF Push
  <2> HIDE DEF q
  <2>4. /\ p \in Push /\ p.pc \in {"send", "unqueue"}
        /\ p.sent = q.sent /\ p.confirmed = q.confirmed
    <3>1. /\ StopPush(q) \in Push /\ StopPush(q).pc = "unqueue"
          /\ StopPush(q).sent = q.sent /\ StopPush(q).confirmed = q.confirmed
      BY <2>3 DEF Push, States, StopPush
    <3> QED BY <2>3, <3>1, NextModelIs
  <2> HIDE DEF p
  <2> QED BY <1>1, <2>2, <2>3, <2>4 DEF After, Underway, Sending
<1> HIDE DEF p
<1>3. queue' \in Queues /\ Requeued
  BY <1>1, FailedIs DEF Requeued
<1> QED BY <1>1, <1>2, <1>3, MoveIs, PushHas

LEMMA NoAnswerIs ==
  ASSUME TypeOK, NEW w \in Pushers, NoAnswer(w), UNCHANGED pullVars
  PROVE  TypeOK' /\ Plods
<1> DEFINE left == IF push[w].pc = "send" THEN push[w].left - 1 ELSE push[w].left
           p == [push[w] EXCEPT !.pc = "send", !.failed = {}, !.left = left]
<1>1. /\ push' = [push EXCEPT ![w] = p]
  BY PushHas DEF NoAnswer
<1>2. /\ lock' = lock /\ queue' = queue /\ Kept
      /\ push[w].pc \in {"send", "answer"} /\ (push[w].pc = "send" => push[w].left > 0)
  BY DEF NoAnswer, Kept
<1>3. After(w, p)
  <2>1. \A u \in push[w].confirmed : Taken(w, u)
    BY <1>2 DEF Taken, Sending
  <2>2. left \in 0 .. MaxRetries
    <3>1. push[w].left \in 0 .. MaxRetries
      BY PushHas DEF Push
    <3>2. CASE push[w].pc = "send"
      BY <1>2, <3>1, <3>2, GivenBounds
    <3>3. CASE push[w].pc # "send"
      BY <3>1, <3>3
    <3> QED BY <3>2, <3>3
  <2> HIDE DEF left
  <2> QED BY <1>2, <2>1, <2>2, PushHas DEF After, Push, States, Underway, Sending
<1> HIDE DEF p
<1> QED BY <1>1, <1>2, <1>3, MoveIs, PushHas DEF Requeued

LEMMA GiveUpIs ==
  ASSUME TypeOK, NEW w \in Pushers, GiveUp(w), UNCHANGED pullVars
  PROVE  TypeOK' /\ Plods
<1> DEFINE p == StopPush(push[w])
<1>1. /\ push' = [push EXCEPT ![w] = p] /\ lock' = lock /\ queue' = Failed(DOMAIN Batch(w)) /\ Kept
      /\ push[w].pc = "send"
  BY PushHas DEF GiveUp, Kept
<1>2. After(w, p)
  <2>1. \A u \in push[w].confirmed : Taken(w, u)
    BY <1>1 DEF Taken, Sending
  <2> QED BY <1>1, <2>1, PushHas DEF After, Push, States, Underway, Sending, StopPush
<1> HIDE DEF p
<1>3. queue' \in Queues /\ Requeued
  BY <1>1, FailedIs DEF Requeued
<1> QED BY <1>1, <1>2, <1>3, MoveIs, PushHas

LEMMA UnqueueIs ==
  ASSUME TypeOK, NEW w \in Pushers, Unqueue(w), UNCHANGED pullVars
  PROVE  TypeOK' /\ Plods
<1> DEFINE p == [push[w] EXCEPT !.pc = "stamp"]
<1>1. /\ push' = [push EXCEPT ![w] = p] /\ lock' = lock /\ Kept
      /\ queue' = [u \in Records |-> IF u \in push[w].confirmed THEN NotQueued ELSE queue[u]]
      /\ push[w].pc = "unqueue"
  BY DEF Unqueue, Kept
<1>2. \A u \in push[w].confirmed : Taken(w, u)
  BY <1>1 DEF Taken, Sending
<1>3. After(w, p)
  BY <1>1, <1>2, PushHas DEF After, Push, States, Underway, Sending
<1> HIDE DEF p
<1>4. queue' \in Queues /\ \A u \in Records : queue'[u].row = IF u \in push[w].confirmed THEN NoRow ELSE queue[u].row
  <2>1. NotQueued \in [row : Row, attempts : 0 .. MaxAttempts] /\ NotQueued.row = NoRow
    BY NoRowIsARow, GivenBounds DEF NotQueued
  <2> QED BY <1>1, <2>1, PushHas DEF Queues
<1>5. Requeued
  BY <1>2, <1>4 DEF Requeued
<1> QED BY <1>1, <1>3, <1>4, <1>5, MoveIs, PushHas

LEMMA EndIs ==
  ASSUME TypeOK, NEW w \in Pushers, push' = [push EXCEPT ![w] = Idle], Kept, queue' = queue,
         lock' \in Pushers \cup {None}
  PROVE  TypeOK' /\ Plods
<1>1. Idle \in Push
  BY NoRows, GivenBounds DEF Push, Idle, States
<1>2. After(w, Idle)
  BY <1>1, NoRows DEF After, Idle, Underway
<1> QED BY <1>2, MoveIs, PushHas DEF Requeued

LEMMA ReleaseIs ==
  ASSUME TypeOK, NEW w \in Pushers, Release(w), UNCHANGED pullVars
  PROVE  TypeOK' /\ Plods
  BY EndIs, PushHas DEF Release, Kept

LEMMA PushDiesIs ==
  ASSUME TypeOK, NEW w \in Pushers, PushDies(w), UNCHANGED pullVars
  PROVE  TypeOK' /\ Plods
  BY EndIs, PushHas DEF PushDies, Kept

\* Steps that only move the queue or the lock.
LEMMA StillIs ==
  ASSUME TypeOK, Kept, push' = push, queue' \in Queues, lock' \in Pushers \cup {None}, Requeued
  PROVE  TypeOK' /\ Plods
<1>1. push \in [Pushers -> Push]
  BY DEF TypeOK, PushTypeOK
<1>2. GoesOn
  BY DEF GoesOn, Sent, Taken, Sending, Pushing, Batch
<1> QED BY <1>1, <1>2, KeptTypes DEF Plods

LEMMA LockExpiresIs ==
  ASSUME TypeOK, LockExpires, UNCHANGED pullVars
  PROVE  TypeOK' /\ Plods
<1>1. queue \in Queues
  BY DEF TypeOK, PushTypeOK, Queues
<1> QED BY <1>1, StillIs DEF LockExpires, Kept, Requeued

LEMMA ClearQueueIs ==
  ASSUME TypeOK, ClearQueue, UNCHANGED pullVars
  PROVE  TypeOK' /\ Plods
<1>1. queue' \in Queues /\ \A u \in Records : queue'[u].row = NoRow
  BY NoRowIsARow, GivenBounds DEF ClearQueue, Queues, NotQueued
<1>2. lock \in Pushers \cup {None}
  BY DEF TypeOK, PushTypeOK
<1> QED BY <1>1, <1>2, StillIs DEF ClearQueue, Kept, Requeued

LEMMA FullPushIs ==
  ASSUME TypeOK, FullPush, UNCHANGED pullVars
  PROVE  TypeOK' /\ Plods
<1> DEFINE rows == [u \in OwnRows |-> till[u]]
<1>1. rows \in Rows /\ DOMAIN rows = OwnRows /\ \A u \in OwnRows : rows[u] = till[u]
  <2>1. OwnRows \in SUBSET Records /\ \A u \in OwnRows : till[u] \in Row
    BY DEF OwnRows, TypeOK
  <2>2. rows \in [OwnRows -> Row]
    BY <2>1
  <2> QED BY <2>1, <2>2 DEF Rows
<1>2. queue' = Enqueued(queue, rows) /\ Kept /\ lock' = lock /\ push' = push
  BY DEF FullPush, Kept
<1> HIDE DEF rows
<1>3. queue' \in Queues /\ \A u \in Records : queue'[u].row = IF u \in OwnRows THEN till[u] ELSE queue[u].row
  BY <1>1, <1>2, EnqueuedIs DEF Queues
<1>4. lock \in Pushers \cup {None}
  BY DEF TypeOK, PushTypeOK
<1>5. Requeued
  BY <1>3 DEF Requeued, OwnRows
<1> QED BY <1>2, <1>3, <1>4, <1>5, StillIs

\* A push that reads the queue, and one that hears of a batch, keep their type.
LEMMA PushReads ==
  ASSUME NEW p \in Push, p.level # 3, NEW pc \in States, NEW sent \in Rows,
         NEW left \in 0 .. MaxRetries
  PROVE  [p EXCEPT !.pc = pc, !.sent = sent, !.left = left] \in Push
  BY DEF Push
LEMMA PushHears ==
  ASSUME NEW p \in Push, p.level # 3, NEW left \in 0 .. MaxRetries, NEW failed \in SUBSET Records
  PROVE  [p EXCEPT !.pc = "answer", !.left = left, !.failed = failed] \in Push
  BY DEF Push, States

\* A hook queued a row.
Hooked(u, row) ==
  /\ <<u, row>> \in hooks /\ u \in Records /\ row \in Row
  /\ hooks' \subseteq hooks
  /\ queue' \in Queues /\ queue'[u].row = row /\ \A x \in Records \ {u} : queue'[x] = queue[x]
  /\ UNCHANGED <<world, till, hub, clock, edits, lock, push, missed, pullVars>>

LEMMA HookIs ==
  ASSUME TypeOK, NEW u \in Records, NEW row, Hook(u, row), UNCHANGED pullVars
  PROVE  Hooked(u, row) /\ TypeOK'
<1>1. row \in Row /\ hooks' \subseteq hooks
  BY DEF Hook, TypeOK, PushTypeOK
<1>2. Only(u, row) \in Rows /\ DOMAIN Only(u, row) = {u} /\ Only(u, row)[u] = row
  BY <1>1, OnlyIs
<1>3. queue' = Enqueued(queue, Only(u, row))
  BY DEF Hook
<1>4. queue' \in Queues /\ queue'[u].row = row
  BY <1>2, <1>3, EnqueuedIs DEF Queues
<1>5. \A x \in Records \ {u} : queue'[x] = queue[x]
  BY <1>2, <1>3, PushHas DEF Enqueued, TypeOK, PushTypeOK
<1>6. Hooked(u, row)
  BY <1>1, <1>4, <1>5 DEF Hooked, Hook
<1>7. PushTypeOK' /\ PullTypeOK'
  BY <1>6 DEF Hooked, TypeOK, PushTypeOK, PullTypeOK, Queues, pullVars
<1> QED BY <1>6, <1>7 DEF Hooked, TypeOK

\* w read the queue.
ReadOff(w) ==
  /\ push' \in [Pushers -> Push]
  /\ \A v \in Pushers : v # w => push'[v] = push[v]
  /\ ~Sending(w)
  /\ \A u \in DOMAIN push'[w].sent :
       u \in Records /\ Queued(u) /\ push'[w].sent[u] = queue[u].row
  /\ push[w].pc = "read" /\ push'[w].pc \in {"send", "release"} /\ push'[w].confirmed = push[w].confirmed
  /\ UNCHANGED <<world, till, hub, clock, edits, hooks, queue, lock, missed, pullVars>>

LEMMA ReadIs ==
  ASSUME TypeOK, NEW w \in Pushers, Read(w), UNCHANGED pullVars
  PROVE  ReadOff(w) /\ TypeOK'
<1> DEFINE us == {x \in Records : Queued(x) /\ queue[x].attempts < MaxAttempts}
           rows == [u \in us |-> queue[u].row]
           pc == IF DOMAIN rows = {} THEN "release" ELSE "send"
           p == [push[w] EXCEPT !.pc = pc, !.sent = rows, !.left = MaxRetries]
<1>1. push' = [push EXCEPT ![w].pc = IF DOMAIN rows = {} THEN "release" ELSE "send",
                           ![w].sent = rows, ![w].left = MaxRetries]
      /\ push[w].pc = "read" /\ UNCHANGED <<world, till, hub, clock, edits, hooks, queue, lock, missed, pullVars>>
  BY DEF Read
<1>2. us \in SUBSET Records /\ DOMAIN rows = us /\ (\A u \in us : Queued(u) /\ rows[u] = queue[u].row)
  OBVIOUS
<1>3. rows \in Rows
  <2>1. \A u \in us : queue[u].row \in Row
    BY DEF TypeOK, PushTypeOK
  <2>2. rows \in [us -> Row]
    BY <2>1
  <2> QED BY <1>2, <2>2 DEF Rows
<1> HIDE DEF us, rows
<1>4. push' = [push EXCEPT ![w] = p]
  BY <1>1, PushHas
<1>5. pc \in {"send", "release"}
  OBVIOUS
<1> HIDE DEF pc
<1>6. push[w] \in Push /\ push[w].level # 3
  BY <1>1, PushHas DEF Push
<1>7. p \in Push /\ p.pc = pc /\ p.sent = rows /\ p.confirmed = push[w].confirmed
  <2>1. p \in Push
    <3>1. MaxRetries \in 0 .. MaxRetries
      BY GivenBounds
    <3> QED BY <1>3, <1>5, <1>6, <3>1, PushReads DEF States
  <2> QED BY <2>1, <1>6 DEF Push
<1> HIDE DEF p
<1>8. push' \in [Pushers -> Push] /\ push'[w] = p /\ \A v \in Pushers : v # w => push'[v] = push[v]
  BY <1>4, <1>7 DEF TypeOK, PushTypeOK
<1>9. ReadOff(w)
  BY <1>1, <1>2, <1>5, <1>7, <1>8 DEF ReadOff, Sending
<1>10. PushTypeOK' /\ PullTypeOK'
  BY <1>1, <1>8 DEF TypeOK, PushTypeOK, PullTypeOK, pullVars
<1> QED BY <1>1, <1>9, <1>10 DEF TypeOK

\* The confirmed rows of the branch got their stamp.
Marked ==
  /\ till' \in [Records -> Row]
  /\ \A u \in Records :
       /\ till'[u].version = till[u].version /\ till'[u].val = till[u].val
       /\ till'[u].price = till[u].price /\ till'[u].deleted = till[u].deleted
       /\ till'[u].branch = till[u].branch
       /\ till'[u].synced = till[u].synced \/ \E w \in Pushers : Taken(w, u)
  /\ GoesOn
  /\ UNCHANGED <<world, hub, clock, edits, hooks, queue, lock, missed, pullVars>>

LEMMA StampIs ==
  ASSUME TypeOK, NEW w \in Pushers, Stamp(w), UNCHANGED pullVars
  PROVE  Marked /\ TypeOK'
<1> DEFINE p == [push[w] EXCEPT !.pc = "release"]
<1>1. /\ push' = [push EXCEPT ![w] = p] /\ push[w].pc = "stamp"
      /\ till' = [u \in Records |-> IF u \in push[w].confirmed
                                      THEN [till[u] EXCEPT !.synced = 1] ELSE till[u]]
      /\ UNCHANGED <<world, hub, clock, edits, hooks, queue, lock, missed, pullVars>>
  BY DEF Stamp
<1>2. \A u \in push[w].confirmed : Taken(w, u)
  BY <1>1 DEF Taken, Sending
<1>3. After(w, p)
  BY <1>1, PushHas DEF After, Push, States, Underway
<1> HIDE DEF p
<1>4. push' \in [Pushers -> Push] /\ GoesOn
  BY <1>1, <1>3, OneGoesOn
<1>5. \A u \in Records : till[u] \in Row /\ [till[u] EXCEPT !.synced = 1] \in Row
  BY DEF TypeOK, Row
<1>6. till' \in [Records -> Row]
  BY <1>1, <1>5
<1>7. ASSUME NEW u \in Records
      PROVE  /\ till'[u].version = till[u].version /\ till'[u].val = till[u].val
             /\ till'[u].price = till[u].price /\ till'[u].deleted = till[u].deleted
             /\ till'[u].branch = till[u].branch
             /\ till'[u].synced = till[u].synced \/ \E v \in Pushers : Taken(v, u)
  BY <1>1, <1>2, <1>5 DEF Row
<1>8. Marked
  BY <1>1, <1>4, <1>6, <1>7 DEF Marked
<1>9. PushTypeOK' /\ PullTypeOK'
  BY <1>1, <1>4 DEF TypeOK, PushTypeOK, PullTypeOK, pullVars
<1> QED BY <1>1, <1>6, <1>8, <1>9 DEF TypeOK

\* The row w has sent of u was written at the hub.
Landed(w, u) ==
  /\ u \in DOMAIN push[w].sent /\ ~Missing(hub, u) /\ Accepts("hub", u, hub[u], push[w].sent[u])
  /\ hub'[u] = Merged("hub", u, hub[u], push[w].sent[u], clock')
  /\ Exists(hub[u]) /\ hub[u].branch = "hub" => clock' = clock + 1
\* What w has sent of u was applied, or needed not to be.
Passed(w, u) ==
  /\ u \in DOMAIN push[w].sent
  /\ Missing(hub, u) => push[w].sent[u].deleted
  /\ ~Missing(hub, u) /\ Accepts("hub", u, hub[u], push[w].sent[u]) => Landed(w, u)
\* The hub received a batch of w.
Delivered(w) ==
  /\ Sending(w)
  /\ hub' \in [Records -> Row]
  /\ clock' \in Nat /\ clock' \in {clock, clock + 1}
  /\ \A u \in Records : hub'[u] = hub[u] \/ Landed(w, u)
  /\ \A u \in Records : Taken(w, u)' => Taken(w, u) \/ Passed(w, u)
  /\ push' \in [Pushers -> Push]
  /\ \A v \in Pushers : /\ v # w => push'[v] = push[v]
                        /\ push'[v].sent = push[v].sent /\ (Sending(v)' => Sending(v))
                        /\ push'[v].confirmed = push[v].confirmed
  /\ push'[w].pc = "answer"
  /\ ServesStill /\ LocksHold
  /\ UNCHANGED <<world, till, edits, hooks, queue, lock, missed, pullVars>>

LEMMA DeliverIs ==
  ASSUME TypeOK, NEW w \in Pushers, NEW bad, Deliver(w, bad), UNCHANGED pullVars, ServesStill, LocksHold
  PROVE  Delivered(w) /\ TypeOK'
<1> DEFINE batch == Batch(w)
           failed == Unapplied(batch, bad)
           good == [u \in DOMAIN batch \ failed |-> batch[u]]
           written == Written(good)
           told == IF failed # {} /\ written = {} THEN DOMAIN batch ELSE failed
           feeds == \E u \in written : hub[u].branch = "hub" /\ Exists(hub[u])
           p == [push[w] EXCEPT !.pc = "answer", !.left = push[w].left - 1, !.failed = told]
<1>1. /\ push[w].pc = "send" /\ push[w].left > 0 /\ bad \subseteq DOMAIN batch
      /\ clock' = clock + (IF feeds THEN 1 ELSE 0)
      /\ hub' = Applied("hub", hub, good, clock')
      /\ push' = [push EXCEPT ![w] = p]
      /\ UNCHANGED <<world, till, edits, hooks, queue, lock, missed, pullVars>>
  <2>1. /\ push[w].pc = "send" /\ push[w].left > 0 /\ bad \subseteq DOMAIN batch
        /\ clock' = clock + (IF feeds THEN 1 ELSE 0)
        /\ hub' = Applied("hub", hub, good, clock + (IF feeds THEN 1 ELSE 0))
        /\ push' = [push EXCEPT ![w].pc = "answer", ![w].left = @ - 1, ![w].failed = told]
        /\ UNCHANGED <<world, till, edits, hooks, queue, lock, missed>>
    BY DEF Deliver
  <2>2. push' = [push EXCEPT ![w] = p]
    BY <2>1, PushHas
  <2> QED BY <2>1, <2>2
<1>2. /\ batch \in Rows /\ \A u \in DOMAIN batch : u \in DOMAIN push[w].sent /\ batch[u] = push[w].sent[u]
  BY BatchIs
<1>3. DOMAIN batch \subseteq Records
  BY <1>2, RowsAre
<1> HIDE DEF batch
<1>4. failed \subseteq DOMAIN batch /\ \A u \in DOMAIN batch \ failed : Missing(hub, u) => batch[u].deleted
  BY <1>1 DEF Unapplied
<1> HIDE DEF failed
<1>5. good \in Rows /\ DOMAIN good = DOMAIN batch \ failed /\ \A u \in DOMAIN good : good[u] = batch[u]
  BY <1>2, SomeOf
<1> HIDE DEF good
<1>6. clock \in Nat /\ hub \in [Records -> Row] /\ push \in [Pushers -> Push] /\ "hub" \in Nodes
  BY DEF TypeOK, PushTypeOK, Nodes
<1>7. clock' \in Nat /\ clock' \in {clock, clock + 1} /\ (feeds => clock' = clock + 1)
  BY <1>1, <1>6
<1>8. /\ hub' \in [Records -> Row]
      /\ \A u \in Records : hub'[u] = Made("hub", hub, good, clock', u)
  BY <1>1, <1>5, <1>6, <1>7, AppliedIs
<1>9. Sending(w) /\ \A u \in DOMAIN good : u \in DOMAIN push[w].sent /\ good[u] = push[w].sent[u]
  BY <1>1, <1>2, <1>5 DEF Sending
<1>10. ASSUME NEW u \in Records
       PROVE  /\ hub'[u] = hub[u] \/ (u \in written /\ Landed(w, u))
              /\ u \in DOMAIN good => Passed(w, u)
  <2>1. u \in written <=> u \in DOMAIN good /\ ~Missing(hub, u) /\ Accepts("hub", u, hub[u], good[u])
    BY DEF Written
  <2> HIDE DEF written
  <2>2. CASE u \in written
    <3>1. Exists(hub[u]) /\ hub[u].branch = "hub" => clock' = clock + 1
      BY <1>7, <2>2
    <3> QED BY <1>8, <1>9, <2>1, <2>2, <3>1 DEF Made, Landed, Passed
  <2>3. CASE u \notin written
    <3>1. hub'[u] = hub[u]
      BY <1>8, <2>1, <2>3 DEF Made
    <3> QED BY <1>4, <1>5, <1>9, <2>1, <2>3, <3>1 DEF Passed
  <2> QED BY <2>2, <2>3
<1>11. told \subseteq DOMAIN batch /\ DOMAIN batch \ told \subseteq DOMAIN good
  BY <1>4, <1>5
<1> HIDE DEF written, feeds, told
<1>12. push[w].left - 1 \in 0 .. MaxRetries
  <2>1. push[w].left \in 0 .. MaxRetries
    BY PushHas DEF Push
  <2> QED BY <1>1, <2>1, GivenBounds
<1>13. /\ p \in Push /\ p.pc = "answer" /\ p.sent = push[w].sent /\ p.confirmed = push[w].confirmed
       /\ p.failed = told /\ p.level = push[w].level
  <2>1. push[w] \in Push /\ push[w].level # 3 /\ told \in SUBSET Records
    BY <1>1, <1>3, <1>11, PushHas DEF Push
  <2>2. p \in Push
    BY <2>1, <1>12, PushHears
  <2> QED BY <2>1, <2>2 DEF Push
<1> HIDE DEF p
<1>14. push' \in [Pushers -> Push] /\ push'[w] = p /\ \A v \in Pushers : v # w => push'[v] = push[v]
  BY <1>1, <1>6, <1>13
<1>15. ASSUME NEW u \in Records, Taken(w, u)' PROVE Taken(w, u) \/ Passed(w, u)
  <2>1. Batch(w)' = batch
    BY <1>13, <1>14 DEF Batch, batch
  <2>2. u \in push[w].confirmed \/ u \in DOMAIN batch \ told
    BY <1>15, <2>1, <1>13, <1>14 DEF Taken
  <2> QED BY <2>2, <1>9, <1>10, <1>11 DEF Taken
<1>16. Delivered(w)
  <2>1. ASSUME NEW v \in Pushers
        PROVE  /\ v # w => push'[v] = push[v]
               /\ push'[v].sent = push[v].sent /\ (Sending(v)' => Sending(v))
               /\ push'[v].confirmed = push[v].confirmed
    BY <1>9, <1>13, <1>14 DEF Sending
  <2> QED BY <1>1, <1>7, <1>8, <1>9, <1>10, <1>13, <1>14, <1>15, <2>1 DEF Delivered
<1>17. cursor \in 0 .. clock' /\ pull.next \in 0 .. clock'
  BY <1>6, <1>7 DEF TypeOK, PullTypeOK
<1>18. PullTypeOK'
  BY <1>1, <1>17 DEF TypeOK, PullTypeOK, pullVars
<1>19. PushTypeOK'
  BY <1>1, <1>14 DEF TypeOK, PushTypeOK
<1> QED BY <1>1, <1>7, <1>8, <1>16, <1>18, <1>19 DEF TypeOK
\* A user saved u at the hub as new.
HubSaved(u, new) ==
  /\ new \in Row /\ new.version = hub[u].version + 1 /\ new.synced = clock + 1
  /\ new.branch = IF Exists(hub[u]) THEN hub[u].branch ELSE "hub"
  /\ new.price = hub[u].price \/ new.price[1] = "hub"
  /\ ~hub[u].deleted
  /\ ~Exists(hub[u]) => Theirs(u) /\ ~new.deleted
  /\ Own(u) => "overreach" \in world
  /\ Parent[u] # None => Exists(hub[Parent[u]])
  /\ ~Exists(saving[u])
  /\ Serving => "late_commit" \in world
  /\ clock' = clock + 1
  /\ hub' \in [Records -> Row] /\ saving' \in [Records -> Row]
  /\ \A x \in Records \ {u} : hub'[x] = hub[x] /\ saving'[x] = saving[x]
  /\ \/ hub'[u] = new /\ saving' = saving
     \/ "late_commit" \in world /\ saving'[u] = new /\ hub' = hub
  /\ UNCHANGED <<world, till, cursor, pull, pushVars>>

LEMMA HubSaveIs ==
  ASSUME TypeOK, NEW u \in Records, NEW what \in Change, HubSave(u, what), UNCHANGED pushVars
  PROVE  TypeOK' /\ \E new : HubSaved(u, new)
<1> DEFINE new == Saved("hub", hub[u], what, clock + 1)
<1>1. /\ hub \in [Records -> Row] /\ hub[u] \in Row /\ edits \in Nat /\ clock \in Nat
      /\ saving \in [Records -> Row]
  BY Budgeted DEF TypeOK, PullTypeOK
<1>2. /\ new \in Row /\ new.version = hub[u].version + 1 /\ new.synced = clock + 1
      /\ new.branch = IF Exists(hub[u]) THEN hub[u].branch ELSE "hub"
      /\ ~Exists(hub[u]) => new.deleted = hub[u].deleted
      /\ new.price = hub[u].price \/ new.price[1] = "hub"
  <2>1. "hub" \in Nodes /\ clock + 1 \in Nat
    BY <1>1 DEF Nodes
  <2> QED BY <1>1, <2>1, SavedIs
<1>3. /\ clock' = clock + 1 /\ edits' = edits + 1
      /\ ~hub[u].deleted /\ edits < Budget[world]
      /\ ~Exists(hub[u]) => Theirs(u)
      /\ Own(u) => "overreach" \in world
      /\ Parent[u] # None => Exists(hub[Parent[u]])
      /\ ~Exists(saving[u])
      /\ Serving => "late_commit" \in world
      /\ \/ hub' = [hub EXCEPT ![u] = new] /\ saving' = saving
         \/ "late_commit" \in world /\ saving' = [saving EXCEPT ![u] = new] /\ hub' = hub
      /\ UNCHANGED <<world, till, cursor, pull, pushVars>>
  BY DEF HubSave, Editable, Own, Theirs
<1> HIDE DEF new
<1>4. /\ hub' \in [Records -> Row] /\ saving' \in [Records -> Row]
      /\ \A x \in Records \ {u} : hub'[x] = hub[x] /\ saving'[x] = saving[x]
      /\ \/ hub'[u] = new /\ saving' = saving
         \/ "late_commit" \in world /\ saving'[u] = new /\ hub' = hub
  BY <1>1, <1>2, <1>3
<1>5. HubSaved(u, new)
  BY <1>2, <1>3, <1>4 DEF HubSaved
<1>6. TypeOK'
  <2>1. edits' \in 0 .. Budget[world]' /\ world' \in DOMAIN Budget /\ clock' \in Nat
    BY <1>1, <1>3, Budgeted DEF TypeOK
  <2>2. PushTypeOK'
    BY <1>3 DEF TypeOK, PushTypeOK, pushVars
  <2>3. cursor \in 0 .. clock' /\ pull.next \in 0 .. clock'
    BY <1>1, <1>3 DEF TypeOK, PullTypeOK
  <2>4. PullTypeOK'
    BY <1>3, <1>4, <2>3 DEF TypeOK, PullTypeOK
  <2> QED BY <1>3, <1>4, <2>1, <2>2, <2>4 DEF TypeOK
<1> QED BY <1>5, <1>6

\* The save of u that was under way at the hub committed.
HubCommitted(u) ==
  /\ Exists(saving[u])
  /\ hub' \in [Records -> Row] /\ saving' \in [Records -> Row]
  /\ hub'[u] = saving[u] /\ saving'[u] = NoRow
  /\ \A x \in Records \ {u} : hub'[x] = hub[x] /\ saving'[x] = saving[x]
  /\ UNCHANGED <<world, till, clock, edits, cursor, pull, pushVars>>

LEMMA HubCommitIs ==
  ASSUME TypeOK, NEW u \in Records, HubCommit(u), UNCHANGED pushVars
  PROVE  TypeOK' /\ HubCommitted(u)
<1>1. hub \in [Records -> Row] /\ saving \in [Records -> Row]
  BY DEF TypeOK, PullTypeOK
<1>2. HubCommitted(u)
  BY <1>1, NoRowIsARow DEF HubCommit, HubCommitted
<1>3. PushTypeOK' /\ PullTypeOK'
  BY <1>2 DEF HubCommitted, TypeOK, PushTypeOK, PullTypeOK, pushVars
<1> QED BY <1>2, <1>3 DEF HubCommitted, TypeOK

-----------------------------------------------------------------------------
(* The pull.                                                               *)

\* All but the branch's table, the cursor and the pull.
OnlyPulls == UNCHANGED <<world, hub, clock, edits, saving, pushVars>>
Pulls ==
  [pc : {"idle", "changes", "apply", "advance", "retry"}, level : 1 .. 3,
   page : Rows, more : BOOLEAN, next : 0 .. clock, deferred : Rows]

LEMMA PullTypes ==
  ASSUME TypeOK, OnlyPulls, till' \in [Records -> Row], cursor' \in 0 .. clock, pull' \in Pulls
  PROVE  TypeOK'
<1>1. PushTypeOK'
  BY DEF TypeOK, PushTypeOK, OnlyPulls, pushVars
<1>2. PullTypeOK'
  BY DEF TypeOK, PullTypeOK, OnlyPulls, Pulls
<1> QED BY <1>1, <1>2 DEF TypeOK, OnlyPulls

LEMMA PullHas ==
  ASSUME TypeOK
  PROVE  /\ pull \in Pulls /\ cursor \in 0 .. clock /\ clock \in Nat
         /\ pull.page \in Rows /\ pull.deferred \in Rows
         /\ till \in [Records -> Row] /\ hub \in [Records -> Row] /\ saving \in [Records -> Row]
  BY DEF TypeOK, PullTypeOK, Pulls

\* A pull begins.
PullStarted ==
  /\ pull.pc = "idle" /\ pull'.pc = "changes" /\ pull'.level = 1
  /\ DOMAIN pull'.page = {} /\ DOMAIN pull'.deferred = {} /\ ~pull'.more /\ pull'.next = 0
  /\ till' = till /\ cursor' = cursor /\ OnlyPulls

LEMMA StartPullIs ==
  ASSUME TypeOK, StartPull, UNCHANGED pushVars
  PROVE  TypeOK' /\ PullStarted
<1>1. pull = Idling /\ pull' = [Idling EXCEPT !.pc = "changes"]
      /\ till' = till /\ cursor' = cursor /\ OnlyPulls
  BY DEF StartPull, OnlyPulls
<1>2. pull' = [pc |-> "changes", level |-> 1, page |-> <<>>, more |-> FALSE, next |-> 0,
               deferred |-> <<>>]
  BY <1>1 DEF Idling
<1>3. pull' \in Pulls
  BY <1>2, NoRows, PullHas DEF Pulls
<1>4. TypeOK'
  BY <1>1, <1>3, PullHas, PullTypes
<1>5. PullStarted
  BY <1>1, <1>2, NoRows DEF PullStarted, Idling
<1> QED BY <1>4, <1>5

\* The pull is over.
PullEnded ==
  /\ pull'.pc = "idle" /\ pull'.level = 1 /\ DOMAIN pull'.page = {} /\ DOMAIN pull'.deferred = {}
  /\ ~pull'.more /\ pull'.next = 0
  /\ cursor' = cursor /\ OnlyPulls
LEMMA IdlingIs ==
  ASSUME TypeOK, pull' = Idling, cursor' = cursor, OnlyPulls, till' \in [Records -> Row]
  PROVE  TypeOK' /\ PullEnded
<1>1. Idling \in Pulls
  BY NoRows, PullHas DEF Pulls, Idling
<1>2. PullEnded
  BY NoRows DEF PullEnded, Idling
<1> QED BY <1>1, <1>2, PullHas, PullTypes

LEMMA PullEndsIs ==
  ASSUME TypeOK, PullEnds, UNCHANGED pushVars
  PROVE  /\ TypeOK' /\ PullEnded /\ till' = till
         /\ DOMAIN pull.deferred = {} \/ "deferred_lost" \in world
  BY IdlingIs, PullHas DEF PullEnds, OnlyPulls

\* The frontier of the pages read so far, if there is one, is ahead of the cursor.
Paging == IF pull.more THEN pull.next > cursor ELSE pull.next = 0
\* A model was read: of its feed, the rows in us.
PageRead(us) ==
  /\ pull.pc = "changes" /\ pull'.pc = "changes"
  /\ pull.level \in {1, 2} /\ pull'.level = pull.level + 1
  /\ us \subseteq Feed(pull.level)
  /\ DOMAIN pull'.page = DOMAIN pull.page \cup us
  /\ \A u \in us : pull'.page[u] = hub[u]
  /\ \A u \in DOMAIN pull.page \ us : pull'.page[u] = pull.page[u]
  /\ \A u \in Feed(pull.level) : (pull'.more => hub[u].synced <= pull'.next) => u \in us
  /\ pull.more => pull'.more /\ (pull.next > 0 => pull'.next <= pull.next)
  /\ Paging => Paging'
  /\ pull'.deferred = pull.deferred
  /\ till' = till /\ cursor' = cursor /\ OnlyPulls

Turned(p, q, level, page, more, next) ==
  q = [p EXCEPT !.level = level, !.page = page, !.more = more, !.next = next]
LEMMA PullReads ==
  ASSUME NEW p \in Pulls, NEW level \in 1 .. 3, NEW page \in Rows, NEW more \in BOOLEAN,
         NEW next \in 0 .. clock, NEW q, Turned(p, q, level, page, more, next)
  PROVE  /\ q \in Pulls /\ q.pc = p.pc /\ q.level = level /\ q.page = page /\ q.more = more
         /\ q.next = next /\ q.deferred = p.deferred
<1> DEFINE q1 == [p EXCEPT !.level = level]
           q2 == [q1 EXCEPT !.page = page]
           q3 == [q2 EXCEPT !.more = more]
<1>1. /\ q1 \in Pulls /\ q1.level = level /\ q1.pc = p.pc /\ q1.deferred = p.deferred
  BY DEF Pulls
<1> HIDE DEF q1
<1>2. /\ q2 \in Pulls /\ q2.level = level /\ q2.page = page /\ q2.pc = q1.pc /\ q2.deferred = q1.deferred
  BY <1>1 DEF Pulls
<1> HIDE DEF q2
<1>3. /\ q3 \in Pulls /\ q3.level = level /\ q3.page = page /\ q3.more = more /\ q3.pc = q2.pc
      /\ q3.deferred = q2.deferred
  BY <1>1, <1>2 DEF Pulls
<1> HIDE DEF q3
<1>4. q = [q3 EXCEPT !.next = next]
  BY DEF q1, q2, q3, Turned
<1> QED BY <1>1, <1>2, <1>3, <1>4 DEF Pulls
LEMMA PullTurns ==
  ASSUME NEW p \in Pulls, NEW pc \in {"changes", "retry"}, clock \in Nat, NEW q,
         q = [p EXCEPT !.pc = pc, !.level = 1, !.more = FALSE, !.next = 0]
  PROVE  /\ q \in Pulls /\ q.pc = pc /\ q.level = 1 /\ q.page = p.page /\ q.more = FALSE
         /\ q.next = 0 /\ q.deferred = p.deferred
<1> DEFINE q1 == [p EXCEPT !.pc = pc]
           q2 == [q1 EXCEPT !.level = 1]
           q3 == [q2 EXCEPT !.more = FALSE]
<1>1. /\ q1 \in Pulls /\ q1.pc = pc /\ q1.page = p.page /\ q1.deferred = p.deferred
  BY DEF Pulls
<1> HIDE DEF q1
<1>2. /\ q2 \in Pulls /\ q2.level = 1 /\ q2.page = q1.page /\ q2.pc = q1.pc /\ q2.deferred = q1.deferred
  BY <1>1 DEF Pulls
<1> HIDE DEF q2
<1>3. /\ q3 \in Pulls /\ q3.level = 1 /\ q3.page = q2.page /\ q3.more = FALSE /\ q3.pc = q2.pc
      /\ q3.deferred = q2.deferred
  BY <1>1, <1>2 DEF Pulls
<1> HIDE DEF q3
<1>4. q = [q3 EXCEPT !.next = 0]
  BY DEF q1, q2, q3
<1> QED BY <1>1, <1>2, <1>3, <1>4 DEF Pulls

\* The hub has stamped no row later than now.
Stamped == \A u \in Records : hub[u].synced <= clock /\ saving[u].synced <= clock

LEMMA ReadModelIs ==
  ASSUME TypeOK, Stamped, ReadModel, UNCHANGED pushVars
  PROVE  TypeOK' /\ \E us : PageRead(us)
<1> DEFINE feed == Feed(pull.level)
           full == Cardinality(feed) > PerPage
           frontier == Frontier(feed)
           us == IF full THEN {u \in feed : hub[u].synced <= frontier} ELSE feed
           level == pull.level + 1
           page == [u \in DOMAIN pull.page \cup us |-> IF u \in us THEN hub[u] ELSE pull.page[u]]
           more == pull.more \/ full
           next == IF full /\ (pull.next = 0 \/ frontier < pull.next) THEN frontier ELSE pull.next
<1>1. /\ Serving /\ pull.level < 3
      /\ pull' = [pull EXCEPT !.level = level, !.page = page, !.more = more, !.next = next]
      /\ till' = till /\ cursor' = cursor /\ OnlyPulls
  BY PullHas DEF ReadModel, OnlyPulls, Pulls
<1>2. feed \subseteq Records /\ us \subseteq feed
  BY DEF Feed
<1>3. full => frontier \in Nat /\ frontier > cursor /\ frontier <= clock
  <2> SUFFICES ASSUME full PROVE frontier \in Nat /\ frontier > cursor /\ frontier <= clock
    OBVIOUS
  <2>1. frontier \in {hub[u].synced : u \in feed}
    BY <1>2, GivenRecords, PullHas, FrontierIsAStamp
  <2>2. \A u \in feed : hub[u].synced \in Nat /\ hub[u].synced > cursor /\ hub[u].synced <= clock
    BY <1>2, PullHas, ARow DEF Feed, Stamped
  <2> HIDE DEF feed, frontier
  <2> QED BY <2>1, <2>2
<1>4. /\ cursor \in Nat /\ clock \in Nat /\ pull.next \in 0 .. clock /\ pull.more \in BOOLEAN
      /\ pull.level \in 1 .. 3 /\ pull.page \in Rows /\ pull \in Pulls
      /\ hub \in [Records -> Row] /\ cursor <= clock
  BY PullHas DEF Pulls
<1>5. full => us = {u \in feed : hub[u].synced <= frontier}
  OBVIOUS
<1>6. ~full => us = feed
  OBVIOUS
<1>7. page \in Rows /\ DOMAIN page = DOMAIN pull.page \cup us
      /\ (\A u \in us : page[u] = hub[u]) /\ \A u \in DOMAIN pull.page \ us : page[u] = pull.page[u]
  <2> HIDE DEF us
  <2>1. \A u \in DOMAIN pull.page : u \in Records /\ pull.page[u] \in Row
    BY <1>4, RowsAre
  <2>2. DOMAIN pull.page \cup us \in SUBSET Records
    BY <1>2, <2>1
  <2>3. page \in [DOMAIN pull.page \cup us -> Row]
    BY <1>2, <1>4, <2>1, <2>2
  <2> QED BY <2>2, <2>3 DEF Rows
<1>8. \A u \in feed : hub[u].synced \in Nat
  BY <1>2, <1>4, ARow
<1> HIDE DEF feed, frontier, us, full
<1>9. next \in 0 .. clock /\ more \in BOOLEAN /\ level \in 1 .. 3
  BY <1>1, <1>3, <1>4
<1>10. /\ full => more /\ next <= frontier
       /\ pull.more => more /\ (pull.next > 0 => next <= pull.next)
       /\ Paging => IF more THEN next > cursor ELSE next = 0
  <2>1. CASE full
    <3>1. more = TRUE /\ next = IF pull.next = 0 \/ frontier < pull.next THEN frontier ELSE pull.next
      BY <2>1
    <3> HIDE DEF more, next
    <3>2. next \in {frontier, pull.next} /\ next <= frontier /\ (pull.next > 0 => next <= pull.next)
      BY <2>1, <3>1, <1>3, <1>4
    <3>3. Paging => next > cursor
      BY <2>1, <3>1, <1>3, <1>4 DEF Paging
    <3> QED BY <2>1, <3>1, <3>2, <3>3
  <2>2. CASE ~full
    <3>1. more = pull.more /\ next = pull.next
      BY <2>2, <1>4
    <3> QED BY <2>2, <3>1, <1>4 DEF Paging
  <2> QED BY <2>1, <2>2
<1>11. pull.level \in {1, 2}
  BY <1>1, <1>4
<1> HIDE DEF page, more, next
<1>12. \A u \in feed : (more => hub[u].synced <= next) => u \in us
  <2> SUFFICES ASSUME NEW u \in feed, more => hub[u].synced <= next PROVE u \in us
    OBVIOUS
  <2>1. CASE full
    <3>1. hub[u].synced <= next /\ next <= frontier /\ frontier \in Nat /\ next \in Nat
      BY <2>1, <1>3, <1>4, <1>9, <1>10
    <3>2. hub[u].synced <= frontier
      BY <3>1, <1>8
    <3> QED BY <2>1, <3>2, <1>5
  <2>2. CASE ~full
    BY <2>2, <1>6
  <2> QED BY <2>1, <2>2
<1> HIDE DEF level
<1>13. /\ pull' \in Pulls /\ pull'.pc = pull.pc /\ pull'.level = level /\ pull'.page = page
       /\ pull'.more = more /\ pull'.next = next /\ pull'.deferred = pull.deferred
  <2>1. pull \in Pulls /\ level \in 1 .. 3 /\ page \in Rows /\ more \in BOOLEAN /\ next \in 0 .. clock
    BY <1>4, <1>7, <1>9
  <2>2. Turned(pull, pull', level, page, more, next)
    BY <1>1 DEF Turned
  <2> QED BY <2>1, <2>2, PullReads
<1>14. TypeOK'
  BY <1>1, <1>13, PullHas, PullTypes
<1>15. PageRead(us)
  <2>1. pull.pc = "changes" /\ level = pull.level + 1
    BY <1>1 DEF Serving, level
  <2>2. \A u \in Feed(pull.level) : (pull'.more => hub[u].synced <= pull'.next) => u \in us
    BY <1>12, <1>13 DEF feed
  <2>3. us \subseteq Feed(pull.level)
    BY <1>2 DEF feed
  <2> QED BY <1>1, <1>7, <1>10, <1>11, <1>13, <2>1, <2>2, <2>3 DEF PageRead, Paging
<1> QED BY <1>14, <1>15

\* The response came.
Responded ==
  /\ pull.pc = "changes" /\ pull.level = 3
  /\ pull'.pc = "apply" /\ pull'.page = pull.page /\ pull'.more = pull.more
  /\ pull'.deferred = pull.deferred
  /\ pull'.next = IF pull.more THEN pull.next ELSE clock
  /\ till' = till /\ cursor' = cursor /\ OnlyPulls

LEMMA RespondIs ==
  ASSUME TypeOK, Respond, UNCHANGED pushVars
  PROVE  TypeOK' /\ Responded
<1> DEFINE next == IF pull.more THEN pull.next ELSE clock
<1>1. /\ pull.pc = "changes" /\ pull.level = 3
      /\ pull' = [pull EXCEPT !.pc = "apply", !.next = next]
      /\ till' = till /\ cursor' = cursor /\ OnlyPulls
  BY PullHas DEF Respond, OnlyPulls, Serving, Pulls
<1>2. next \in 0 .. clock
  BY PullHas DEF Pulls
<1> HIDE DEF next
<1>3. /\ pull' \in Pulls /\ pull'.pc = "apply" /\ pull'.page = pull.page /\ pull'.more = pull.more
      /\ pull'.deferred = pull.deferred /\ pull'.next = next
  BY <1>1, <1>2, PullHas DEF Pulls
<1>4. TypeOK'
  BY <1>1, <1>3, PullHas, PullTypes
<1> QED BY <1>1, <1>3, <1>4 DEF Responded, next

\* What the branch made of rows.
TookIn(rows) ==
  /\ till' \in [Records -> Row]
  /\ \A u \in Records :
       till'[u] = IF Takes(rows, till', u) THEN Merged("branch", u, till[u], rows[u], 1) ELSE till[u]

\* The page was applied; what has no parent yet waits.
PageApplied ==
  /\ pull.pc = "apply" /\ TookIn(pull.page)
  /\ pull'.pc = "advance" /\ DOMAIN pull'.page = {} /\ pull'.more = pull.more /\ pull'.next = pull.next
  /\ \A u : u \in DOMAIN pull'.deferred <=>
              u \in DOMAIN pull.deferred \/ (u \in DOMAIN pull.page /\ Missing(till', u))
  /\ \A u \in DOMAIN pull'.deferred :
       pull'.deferred[u] = IF u \in DOMAIN pull.page /\ Missing(till', u)
                             THEN pull.page[u] ELSE pull.deferred[u]
  /\ cursor' = cursor /\ OnlyPulls

LEMMA JoinedIs ==
  ASSUME NEW rows, rows \in Rows, NEW others, others \in Rows
  PROVE  /\ Joined(rows, others) \in Rows
         /\ DOMAIN Joined(rows, others) = DOMAIN rows \cup DOMAIN others
         /\ \A u \in DOMAIN rows \cup DOMAIN others :
              Joined(rows, others)[u] = IF u \in DOMAIN others THEN others[u] ELSE rows[u]
<1>1. \A u \in DOMAIN rows : u \in Records /\ rows[u] \in Row
  BY RowsAre
<1>2. \A u \in DOMAIN others : u \in Records /\ others[u] \in Row
  BY RowsAre
<1>3. Joined(rows, others) \in [DOMAIN rows \cup DOMAIN others -> Row]
  BY <1>1, <1>2 DEF Joined
<1>4. DOMAIN rows \cup DOMAIN others \in SUBSET Records
  BY <1>1, <1>2
<1> QED BY <1>3, <1>4 DEF Rows, Joined

LEMMA ApplyIs ==
  ASSUME TypeOK, Apply, UNCHANGED pushVars
  PROVE  TypeOK' /\ PageApplied
<1> DEFINE deferred == Joined(pull.deferred, Deferred(pull.page))
<1>1. /\ pull.pc = "apply" /\ till' = Ingested(pull.page)
      /\ pull' = [pull EXCEPT !.pc = "advance", !.page = <<>>, !.deferred = deferred]
      /\ cursor' = cursor /\ OnlyPulls
  BY PullHas DEF Apply, OnlyPulls, Pulls
<1>2. /\ till' \in [Records -> Row] /\ Deferred(pull.page) \in Rows
      /\ DOMAIN Deferred(pull.page) = {u \in DOMAIN pull.page : Missing(till', u)}
      /\ \A u \in DOMAIN Deferred(pull.page) : Deferred(pull.page)[u] = pull.page[u]
      /\ TookIn(pull.page)
  BY <1>1, PullHas, IngestedIs DEF TookIn
<1>3. /\ deferred \in Rows /\ DOMAIN deferred = DOMAIN pull.deferred \cup DOMAIN Deferred(pull.page)
      /\ \A u \in DOMAIN deferred : deferred[u] =
           IF u \in DOMAIN Deferred(pull.page) THEN Deferred(pull.page)[u] ELSE pull.deferred[u]
  <2> DEFINE late == Deferred(pull.page)
  <2>1. late \in Rows /\ pull.deferred \in Rows
    BY <1>2, PullHas
  <2> HIDE DEF late
  <2>2. /\ Joined(pull.deferred, late) \in Rows
        /\ DOMAIN Joined(pull.deferred, late) = DOMAIN pull.deferred \cup DOMAIN late
        /\ \A u \in DOMAIN pull.deferred \cup DOMAIN late :
             Joined(pull.deferred, late)[u] = IF u \in DOMAIN late THEN late[u] ELSE pull.deferred[u]
    BY <2>1, JoinedIs
  <2> QED BY <2>2 DEF late
<1> HIDE DEF deferred
<1>4. /\ pull' \in Pulls /\ pull'.pc = "advance" /\ pull'.page = <<>> /\ pull'.more = pull.more
      /\ pull'.next = pull.next /\ pull'.deferred = deferred
  <2>1. <<>> \in Rows
    BY NoRows
  <2> QED BY <1>1, <1>3, <2>1, PullHas DEF Pulls
<1>5. TypeOK'
  BY <1>1, <1>2, <1>4, PullHas, PullTypes
<1>6. \A u : u \in DOMAIN deferred <=>
              u \in DOMAIN pull.deferred \/ (u \in DOMAIN pull.page /\ Missing(till', u))
  BY <1>2, <1>3
<1>7. \A u \in DOMAIN deferred :
       deferred[u] = IF u \in DOMAIN pull.page /\ Missing(till', u)
                       THEN pull.page[u] ELSE pull.deferred[u]
  BY <1>2, <1>3
<1>8. PageApplied
  BY <1>1, <1>2, <1>4, <1>6, <1>7, NoRows DEF PageApplied
<1> QED BY <1>5, <1>8

\* The cursor moved.
Advanced ==
  /\ pull.pc = "advance" /\ cursor' = pull.next
  /\ pull'.pc = (IF pull.more THEN "changes" ELSE "retry") /\ pull'.level = 1
  /\ pull'.page = pull.page /\ ~pull'.more /\ pull'.next = 0 /\ pull'.deferred = pull.deferred
  /\ till' = till /\ OnlyPulls

LEMMA AdvanceIs ==
  ASSUME TypeOK, Advance, UNCHANGED pushVars
  PROVE  TypeOK' /\ Advanced
<1> DEFINE pc == IF pull.more THEN "changes" ELSE "retry"
<1>1. /\ pull.pc = "advance" /\ cursor' = pull.next
      /\ pull' = [pull EXCEPT !.pc = pc, !.level = 1, !.more = FALSE, !.next = 0]
      /\ till' = till /\ OnlyPulls
  BY DEF Advance, OnlyPulls
<1>2. pc \in {"changes", "retry"}
  OBVIOUS
<1> HIDE DEF pc
<1>3. /\ pull' \in Pulls /\ pull'.pc = pc /\ pull'.level = 1 /\ pull'.page = pull.page
      /\ pull'.more = FALSE /\ pull'.next = 0 /\ pull'.deferred = pull.deferred
  <2>1. pull \in Pulls /\ clock \in Nat
    BY PullHas
  <2>2. pull' = [pull EXCEPT !.pc = pc, !.level = 1, !.more = FALSE, !.next = 0]
    BY <1>1
  <2> QED BY <1>2, <2>1, <2>2, PullTurns, Zenon
<1>4. cursor' \in 0 .. clock
  BY <1>1, PullHas DEF Pulls
<1>5. TypeOK'
  BY <1>1, <1>3, <1>4, PullHas, PullTypes
<1> QED BY <1>1, <1>3, <1>5 DEF Advanced, pc

LEMMA RetryIs ==
  ASSUME TypeOK, Retry, UNCHANGED pushVars
  PROVE  TypeOK' /\ PullEnded /\ pull.pc = "retry" /\ TookIn(pull.deferred)
<1>1. TookIn(pull.deferred) /\ till' \in [Records -> Row]
  BY PullHas, IngestedIs DEF Retry, TookIn
<1> QED BY <1>1, IdlingIs DEF Retry, OnlyPulls
-----------------------------------------------------------------------------
(* The steps, by what they come to.                                        *)

\* The deferred records were tried again.
Retried == PullEnded /\ pull.pc = "retry" /\ TookIn(pull.deferred)
\* The pull died, or failed.
Stopped ==
  PullEnded /\ till' = till /\ (DOMAIN pull.deferred = {} \/ "deferred_lost" \in world)

AtTheTill ==
  \/ \E u \in Records : TillSaved(u)
  \/ \E u \in Records : \E row : Hooked(u, row)
  \/ Plods
  \/ \E w \in Pushers : ReadOff(w)
  \/ Marked
Arriving == \E w \in Pushers : Delivered(w)
AtTheHub ==
  \/ \E u \in Records : \E new : HubSaved(u, new)
  \/ \E u \in Records : HubCommitted(u)
Pulled ==
  \/ PullStarted
  \/ \E us : PageRead(us)
  \/ Responded
  \/ PageApplied
  \/ Advanced
  \/ Retried
  \/ Stopped
Step == AtTheTill \/ Arriving \/ AtTheHub \/ Pulled

LEMMA StepIs ==
  ASSUME TypeOK, Stamped, Next
  PROVE  TypeOK' /\ Step
<1>1. CASE /\ UNCHANGED pullVars
           /\ \/ \E u \in Records, what \in Change : TillSave(u, what)
              \/ \E u \in Records : \E row \in {h[2] : h \in hooks} : Hook(u, row)
              \/ ClearQueue
              \/ FullPush
              \/ \E w \in Pushers : PushStep(w)
              \/ \E w \in Pushers : NoAnswer(w)
              \/ \E w \in Pushers : PushDies(w)
              \/ LockExpires
           /\ ServesStill /\ LocksHold
  <2>1. CASE \E u \in Records, what \in Change : TillSave(u, what)
    BY <1>1, <2>1, TillSaveIs DEF Step, AtTheTill
  <2>2. CASE \E u \in Records : \E row \in {h[2] : h \in hooks} : Hook(u, row)
    BY <1>1, <2>2, HookIs DEF Step, AtTheTill
  <2>3. CASE ClearQueue \/ FullPush \/ LockExpires
    BY <1>1, <2>3, ClearQueueIs, FullPushIs, LockExpiresIs DEF Step, AtTheTill
  <2>4. CASE \E w \in Pushers : PushStep(w)
    <3>1. PICK w \in Pushers : PushStep(w)
      BY <2>4
    <3>2. CASE StartPush(w) \/ Reconcile(w) \/ NoBatch(w) \/ Answer(w) \/ GiveUp(w) \/ Unqueue(w) \/ Release(w)
      <4>1. TypeOK' /\ Plods
        BY <1>1, <3>2, StartPushIs, ReconcileIs, NoBatchIs, AnswerIs, GiveUpIs, UnqueueIs, ReleaseIs DEF Plods
      <4> QED BY <4>1 DEF Step, AtTheTill
    <3>3. CASE Read(w)
      BY <1>1, <3>3, ReadIs DEF Step, AtTheTill
    <3>4. CASE \E bad \in SUBSET Rejectable : Deliver(w, bad)
      BY <1>1, <3>4, DeliverIs DEF Step, Arriving
    <3>5. CASE Stamp(w)
      BY <1>1, <3>5, StampIs DEF Step, AtTheTill
    <3> QED BY <3>1, <3>2, <3>3, <3>4, <3>5 DEF PushStep
  <2>5. CASE \E w \in Pushers : NoAnswer(w) \/ PushDies(w)
    <3>1. TypeOK' /\ Plods
      BY <1>1, <2>5, NoAnswerIs, PushDiesIs
    <3> QED BY <3>1 DEF Step, AtTheTill
  <2> QED BY <1>1, <2>1, <2>2, <2>3, <2>4, <2>5
<1>2. CASE /\ UNCHANGED pushVars
           /\ \/ \E u \in Records, what \in Change : HubSave(u, what)
              \/ \E u \in Records : HubCommit(u)
              \/ PullStep
              \/ PullEnds
  <2>1. CASE \E u \in Records, what \in Change : HubSave(u, what)
    <3>1. PICK u \in Records, what \in Change : HubSave(u, what)
      BY <2>1
    <3>2. TypeOK' /\ \E new : HubSaved(u, new)
      BY <1>2, <3>1, HubSaveIs
    <3> QED BY <3>2 DEF Step, AtTheHub
  <2>2. CASE \E u \in Records : HubCommit(u)
    BY <1>2, <2>2, HubCommitIs DEF Step, AtTheHub
  <2>3. CASE StartPull \/ Respond \/ Apply \/ Advance
    <3>1. TypeOK' /\ (PullStarted \/ Responded \/ PageApplied \/ Advanced)
      BY <1>2, <2>3, StartPullIs, RespondIs, ApplyIs, AdvanceIs
    <3> QED BY <3>1 DEF Step, Pulled
  <2>4. CASE ReadModel
    <3>1. TypeOK' /\ \E us : PageRead(us)
      BY <1>2, <2>4, ReadModelIs
    <3> QED BY <3>1 DEF Step, Pulled
  <2>5. CASE Retry \/ PullEnds
    <3>1. TypeOK' /\ (Retried \/ Stopped)
      BY <1>2, <2>5, RetryIs, PullEndsIs DEF Retried, Stopped
    <3> QED BY <3>1 DEF Step, Pulled
  <2> QED BY <1>2, <2>1, <2>2, <2>3, <2>4, <2>5 DEF PullStep
<1> QED BY <1>1, <1>2 DEF Next

\* What a step makes of the branch's row of u.
Grown(u) ==
  \/ till'[u] = till[u]
  \/ Marked
  \/ TillSaved(u)
  \/ \E rows \in {pull.page, pull.deferred} :
       /\ Takes(rows, till', u)
       /\ till'[u] = Merged("branch", u, till[u], rows[u], 1)
\* What it makes of the hub's, and of the save of it that is under way.
Moved(u) ==
  \/ hub'[u] = hub[u] /\ saving'[u] = saving[u]
  \/ saving' = saving /\ \E w \in Pushers : Delivered(w) /\ Landed(w, u)
  \/ saving' = saving /\ \E new : HubSaved(u, new) /\ hub'[u] = new
  \/ hub' = hub /\ \E new : HubSaved(u, new) /\ saving'[u] = new
  \/ HubCommitted(u)

LEMMA RowMoves ==
  ASSUME Step, NEW u \in Records
  PROVE  /\ Grown(u) /\ Moved(u)
         /\ \/ hub' = hub /\ saving' = saving
            \/ till' = till
         /\ world' = world
<1>1. CASE AtTheTill
  <2>1. CASE \E x \in Records : TillSaved(x)
    BY <2>1 DEF TillSaved, Grown, Moved, pullVars
  <2>2. CASE \E x \in Records : \E row : Hooked(x, row)
    BY <2>2 DEF Hooked, Grown, Moved, pullVars
  <2>3. CASE Plods
    BY <2>3 DEF Plods, Kept, Grown, Moved, pullVars
  <2>4. CASE \E w \in Pushers : ReadOff(w)
    BY <2>4 DEF ReadOff, Grown, Moved, pullVars
  <2>5. CASE Marked
    BY <2>5 DEF Marked, Grown, Moved, pullVars
  <2> QED BY <1>1, <2>1, <2>2, <2>3, <2>4, <2>5 DEF AtTheTill
<1>2. CASE Arriving
  <2>1. PICK w \in Pushers : Delivered(w)
    BY <1>2 DEF Arriving
  <2>2. /\ hub'[u] = hub[u] \/ Landed(w, u)
        /\ saving' = saving /\ till' = till /\ world' = world
    BY <2>1 DEF Delivered, pullVars
  <2> QED BY <2>1, <2>2 DEF Grown, Moved
<1>3. CASE AtTheHub
  <2>1. CASE \E x \in Records : \E new : HubSaved(x, new)
    <3> PICK x \in Records : \E new : HubSaved(x, new)
      BY <2>1
    <3>1. PICK new : HubSaved(x, new)
      OBVIOUS
    <3>2. till' = till /\ world' = world
      BY <3>1 DEF HubSaved
    <3>3. CASE x = u
      <4>1. (saving' = saving /\ hub'[u] = new) \/ (hub' = hub /\ saving'[u] = new)
        <5>1. HubSaved(u, new)
          BY <3>1, <3>3
        <5> QED BY <5>1, Zenon DEF HubSaved
      <4> QED BY <3>1, <3>2, <3>3, <4>1 DEF Grown, Moved
    <3>4. CASE x # u
      <4>1. hub'[u] = hub[u] /\ saving'[u] = saving[u]
        BY <3>1, <3>4 DEF HubSaved
      <4> QED BY <3>2, <4>1 DEF Grown, Moved
    <3> QED BY <3>3, <3>4
  <2>2. CASE \E x \in Records : HubCommitted(x)
    <3>1. PICK x \in Records : HubCommitted(x)
      BY <2>2
    <3>2. till' = till /\ world' = world /\ (x # u => hub'[u] = hub[u] /\ saving'[u] = saving[u])
      BY <3>1 DEF HubCommitted
    <3> QED BY <3>1, <3>2 DEF Grown, Moved
  <2> QED BY <1>3, <2>1, <2>2 DEF AtTheHub
<1>4. CASE Pulled
  <2>1. hub' = hub /\ saving' = saving /\ world' = world
    BY <1>4 DEF Pulled, PullStarted, PageRead, Responded, PageApplied, Advanced, Retried, Stopped,
                PullEnded, OnlyPulls
  <2>2. Grown(u)
    <3>1. CASE PullStarted \/ (\E us : PageRead(us)) \/ Responded \/ Advanced \/ Stopped
      <4>1. till' = till
        BY <3>1 DEF PullStarted, PageRead, Responded, Advanced, Stopped
      <4> QED BY <4>1 DEF Grown
    <3>2. CASE PageApplied \/ Retried
      <4>1. PICK rows \in {pull.page, pull.deferred} : TookIn(rows)
        BY <3>2 DEF PageApplied, Retried
      <4> QED BY <4>1 DEF TookIn, Grown
    <3> QED BY <1>4, <3>1, <3>2 DEF Pulled
  <2> QED BY <2>1, <2>2 DEF Moved
<1> QED BY <1>1, <1>2, <1>3, <1>4 DEF Step
-----------------------------------------------------------------------------
(* What holds of a record whatever goes wrong.                             *)

Settled(row) == ~Exists(row) => ~row.deleted
\* Whose the record is, and where it can be.
Owned(u) ==
  /\ Exists(till[u]) => till[u].branch = Origin[u]
  /\ Exists(hub[u]) => hub[u].branch = Origin[u]
  /\ Settled(till[u]) /\ Settled(hub[u])
  /\ Own(u) /\ Exists(hub[u]) => Exists(till[u])
  /\ Theirs(u) /\ Exists(till[u]) => Exists(hub[u])
Priced(u) == (Own(u) => ~Exists(hub[u])) => hub[u].price[1] = "hub"
Rooted(u) ==
  Parent[u] # None =>
    /\ Exists(till[u]) => Exists(till[Parent[u]])
    /\ Exists(hub[u]) \/ Exists(saving[u]) => Exists(hub[Parent[u]])
\* A row being saved at the hub follows the one that is there.
Follows(u) ==
  Exists(saving[u]) =>
    /\ saving[u].version > hub[u].version
    /\ hub[u].deleted => saving[u].deleted
    /\ saving[u].branch = Origin[u]
    /\ Own(u) => Exists(hub[u])
    /\ Theirs(u) => saving[u].price[1] = "hub"
\* What is queued, or waits for its hook, or is sent, is a row the branch has.
Known(u) ==
  /\ Queued(u) => Exists(till[u])
  /\ \A row : <<u, row>> \in hooks => Exists(row) /\ Exists(till[u])
  /\ \A w \in Pushers : u \in DOMAIN push[w].sent => Exists(push[w].sent[u]) /\ Exists(till[u])
\* A row that came from the hub.
Copy(u, row) ==
  /\ Exists(row) /\ Theirs(u) /\ row.branch = "hub" /\ Exists(hub[u])
  /\ row.version <= hub[u].version
Copied(u) ==
  /\ u \in DOMAIN pull.page => Copy(u, pull.page[u])
  /\ u \in DOMAIN pull.deferred => Copy(u, pull.deferred[u]) /\ Parent[u] # None
Sound(u) == Owned(u) /\ Priced(u) /\ Rooted(u) /\ Follows(u) /\ Known(u) /\ Copied(u)
\* A pull has read nothing where it begins, and keeps no page it has applied.
Pulling ==
  /\ pull.pc = "idle" => DOMAIN pull.page = {} /\ DOMAIN pull.deferred = {}
  /\ pull.pc \in {"advance", "retry"} => DOMAIN pull.page = {}
  /\ pull.pc = "changes" => Paging
  /\ pull.pc = "changes" /\ pull.level = 1 => DOMAIN pull.page = {} /\ ~pull.more
  /\ pull.pc \in {"apply", "advance"} => cursor <= pull.next
Base ==
  /\ TypeOK /\ Stamped /\ Pulling
  /\ \A u \in Records : Sound(u)
  /\ \A w \in Pushers : Pushing(w)

LEMMA BaseRows ==
  ASSUME Base, NEW u \in Records
  PROVE  /\ TypeOK /\ Stamped /\ Sound(u)
         /\ till[u] \in Row /\ hub[u] \in Row /\ saving[u] \in Row
         /\ u \in DOMAIN pull.page => pull.page[u] \in Row
         /\ u \in DOMAIN pull.deferred => pull.deferred[u] \in Row
         /\ \A w \in Pushers : u \in DOMAIN push[w].sent => push[w].sent[u] \in Row
         /\ clock \in Nat
  BY RowsAre DEF Base, TypeOK, PushTypeOK, PullTypeOK, Push

LEMMA ExistsIs ==
  ASSUME NEW row \in Row
  PROVE  Exists(row) <=> row.version > 0
  BY DEF Exists

\* A row the hub was sent and accepted.
LEMMA LandedIs ==
  ASSUME Base, NEW u \in Records, NEW w \in Pushers, Delivered(w), Landed(w, u)
  PROVE  LET sent == push[w].sent[u] IN
         /\ sent \in Row /\ Exists(sent) /\ Exists(till[u])
         /\ Parent[u] # None => Exists(hub[Parent[u]])
         /\ Accepts("hub", u, hub[u], sent)
         /\ hub'[u] \in Row /\ hub'[u].version = sent.version /\ hub'[u].val = sent.val
         /\ hub'[u].deleted = sent.deleted /\ hub'[u].synced = clock'
         /\ hub'[u].branch = IF Exists(hub[u]) THEN hub[u].branch ELSE "branch"
         /\ hub'[u].price = IF Exists(hub[u]) /\ Origin[u] = "hub" THEN hub[u].price ELSE sent.price
<1> DEFINE sent == push[w].sent[u]
           stamp == clock'
           row == hub[u]
           new == HubRow(u, row, sent, stamp)
<1>1. /\ sent \in Row /\ Exists(sent) /\ Exists(till[u])
      /\ Parent[u] # None => Exists(hub[Parent[u]])
      /\ Accepts("hub", u, hub[u], sent)
      /\ hub'[u] = Merged("hub", u, hub[u], sent, clock')
  BY BaseRows DEF Landed, Missing, Sound, Known
<1>2. row \in Row /\ sent \in Row /\ stamp \in Nat
  BY <1>1, BaseRows DEF Delivered
<1>3. new = hub'[u]
  BY <1>1 DEF HubRow
<1> HIDE DEF sent, stamp, row
<1>4. new \in Row /\ new.version = sent.version
  BY <1>2, HubRowIs
<1>5. new.price = IF Exists(row) /\ Origin[u] = "hub" THEN row.price ELSE sent.price
  BY <1>2, HubRowIs
<1>6. new.deleted = sent.deleted
  BY <1>2, HubRowIs
<1>7. new.synced = stamp
  BY <1>2, HubRowIs
<1>8. new.branch = IF Exists(row) THEN row.branch ELSE "branch"
  BY <1>2, HubRowIs
<1>9. new.val = sent.val
  BY <1>2, HubRowIs
<1> HIDE DEF new
<1> QED BY <1>1, <1>3, <1>4, <1>5, <1>6, <1>7, <1>8, <1>9 DEF row, stamp, sent

\* A row the branch was sent and accepted.
LEMMA TakenInIs ==
  ASSUME Base, NEW u \in Records, NEW rows \in {pull.page, pull.deferred}, Takes(rows, till', u),
         till'[u] = Merged("branch", u, till[u], rows[u], 1)
  PROVE  /\ rows[u] \in Row /\ Copy(u, rows[u])
         /\ Parent[u] # None => Exists(till'[Parent[u]])
         /\ Accepts("branch", u, till[u], rows[u])
         /\ till'[u] \in Row /\ till'[u].version = rows[u].version /\ till'[u].val = rows[u].val
         /\ till'[u].deleted = rows[u].deleted /\ till'[u].price = rows[u].price
         /\ till'[u].branch = IF Exists(till[u]) THEN till[u].branch ELSE rows[u].branch
<1>0. Sound(u) /\ till[u] \in Row
  BY BaseRows
<1>1. /\ rows[u] \in Row /\ Copy(u, rows[u])
      /\ Parent[u] # None => Exists(till'[Parent[u]])
      /\ Accepts("branch", u, till[u], rows[u])
  BY <1>0, BaseRows DEF Takes, Missing, Sound, Copied
<1>2. "branch" \in Nodes /\ 1 \in Nat
  BY DEF Nodes
<1>3. \A new : new = Merged("branch", u, till[u], rows[u], 1) =>
         /\ new \in Row /\ new.version = rows[u].version /\ new.val = rows[u].val
         /\ new.deleted = rows[u].deleted /\ new.price = rows[u].price
         /\ new.branch = IF Exists(till[u]) THEN till[u].branch ELSE rows[u].branch
  BY <1>0, <1>1, <1>2, MergedIs
<1> QED BY <1>1, <1>3

\* How the branch's row of u may change.
TillMoves(u) ==
  /\ Exists(till[u]) => Exists(till'[u])
  /\ till'[u].version >= till[u].version
  /\ till[u].deleted => till'[u].deleted \/ Revivable("branch", u)
  /\ Exists(till'[u]) => till'[u].branch = Origin[u]
  /\ Settled(till'[u])
  /\ Theirs(u) /\ Exists(till'[u]) => Exists(hub[u])
  /\ Parent[u] # None /\ Exists(till'[u]) => Exists(till[Parent[u]]) \/ Exists(till'[Parent[u]])
LEMMA GrownIs ==
  ASSUME Base, NEW u \in Records, Grown(u)
  PROVE  TillMoves(u)
<1> USE ExistsIs
<1>0. Sound(u) /\ till[u] \in Row
  BY BaseRows
<1>1. CASE till'[u] = till[u]
  BY <1>0, <1>1, ARow DEF Sound, Owned, Rooted, TillMoves
<1>2. CASE Marked
  <2>1. /\ till'[u].version = till[u].version /\ till'[u].deleted = till[u].deleted
        /\ till'[u].branch = till[u].branch /\ till'[u] \in Row
    BY <1>2 DEF Marked
  <2> QED BY <1>0, <2>1, ARow DEF Sound, Owned, Rooted, Settled, TillMoves
<1>3. CASE TillSaved(u)
  <2>1. /\ till'[u] \in Row /\ till'[u].version = till[u].version + 1 /\ ~till[u].deleted
        /\ IF Exists(till[u]) THEN till'[u].branch = till[u].branch
                              ELSE till'[u].branch = "branch" /\ Own(u) /\ ~till'[u].deleted
        /\ Parent[u] # None => Exists(till[Parent[u]])
    BY <1>3 DEF TillSaved
  <2>2. Exists(till'[u])
    BY <1>0, <2>1, ARow
  <2> QED BY <1>0, <2>1, <2>2, ARow DEF Sound, Owned, Settled, Own, Theirs, TillMoves
<1>4. ASSUME NEW rows \in {pull.page, pull.deferred}, Takes(rows, till', u),
             till'[u] = Merged("branch", u, till[u], rows[u], 1)
      PROVE  TillMoves(u)
  <2>1. /\ rows[u] \in Row /\ Copy(u, rows[u])
        /\ Parent[u] # None => Exists(till'[Parent[u]])
        /\ Accepts("branch", u, till[u], rows[u])
    BY <1>4, TakenInIs
  <2>2. /\ till'[u] \in Row /\ till'[u].version = rows[u].version
        /\ till'[u].deleted = rows[u].deleted
        /\ till'[u].branch = IF Exists(till[u]) THEN till[u].branch ELSE rows[u].branch
    BY <1>4, TakenInIs
  <2>3. Exists(till'[u])
    BY <2>1, <2>2 DEF Copy
  <2>4. rows[u].version >= till[u].version /\ (till[u].deleted => rows[u].deleted \/ Revivable("branch", u))
    BY <1>0, <2>1, ARow DEF Accepts, ShouldReplace, Sound, Owned, Settled
  <2> QED BY <1>0, <2>1, <2>2, <2>3, <2>4 DEF Copy, Sound, Owned, Settled, Theirs, TillMoves
<1> QED BY <1>1, <1>2, <1>3, <1>4 DEF Grown

\* How the hub's row of u, and the save of it that is under way, may change.
HubMoves(u) ==
  /\ Exists(hub[u]) => Exists(hub'[u])
  /\ hub'[u].version >= hub[u].version
  /\ hub[u].deleted => hub'[u].deleted
  /\ Exists(hub'[u]) => hub'[u].branch = Origin[u]
  /\ Settled(hub'[u])
  /\ Own(u) /\ Exists(hub'[u]) => Exists(till[u])
  /\ (Own(u) => ~Exists(hub'[u])) => hub'[u].price[1] = "hub"
  /\ Parent[u] # None /\ (Exists(hub'[u]) \/ Exists(saving'[u])) => Exists(hub[Parent[u]])
  /\ Exists(saving'[u]) =>
       /\ saving'[u].version > hub'[u].version
       /\ hub'[u].deleted => saving'[u].deleted
       /\ saving'[u].branch = Origin[u]
       /\ Own(u) => Exists(hub'[u])
       /\ Theirs(u) => saving'[u].price[1] = "hub"
  /\ clock' \in Nat /\ clock' >= clock
  /\ hub'[u].synced <= clock' /\ saving'[u].synced <= clock'
ClockMoves == clock' \in {clock, clock + 1}
LEMMA MovedIs ==
  ASSUME Base, NEW u \in Records, Moved(u), ClockMoves
  PROVE  HubMoves(u)
<1> USE ExistsIs
<1>0. /\ Sound(u) /\ till[u] \in Row /\ hub[u] \in Row /\ saving[u] \in Row
      /\ hub[u].synced <= clock /\ saving[u].synced <= clock
      /\ clock \in Nat /\ clock' \in Nat /\ clock' >= clock
  BY BaseRows DEF Stamped, ClockMoves
<1>1. CASE hub'[u] = hub[u] /\ saving'[u] = saving[u]
  BY <1>0, <1>1, ARow DEF Sound, Owned, Rooted, Priced, Follows, HubMoves
<1>2. ASSUME NEW w \in Pushers, saving' = saving, Delivered(w), Landed(w, u)
      PROVE  HubMoves(u)
  <2> DEFINE sent == push[w].sent[u]
  <2>1. /\ sent \in Row /\ Exists(sent) /\ Exists(till[u])
        /\ Parent[u] # None => Exists(hub[Parent[u]])
        /\ Accepts("hub", u, hub[u], sent)
    BY <1>2, LandedIs
  <2>2. LocksHold
    BY <1>2 DEF Delivered
  <2>3. /\ hub'[u] \in Row /\ hub'[u].version = sent.version
        /\ hub'[u].deleted = sent.deleted /\ hub'[u].synced = clock'
        /\ hub'[u].branch = IF Exists(hub[u]) THEN hub[u].branch ELSE "branch"
        /\ Exists(hub[u]) /\ Theirs(u) => hub'[u].price = hub[u].price
    BY <1>2, LandedIs DEF Theirs
  <2> HIDE DEF sent
  <2>4. Exists(hub'[u])
    BY <2>1, <2>3
  <2>5. sent.version >= hub[u].version /\ (hub[u].deleted => sent.deleted)
    BY <1>0, <2>1, ARow DEF Accepts, ShouldReplace, Sound, Owned, Settled, Revivable
  <2>6. Own(u) \/ Theirs(u)
    BY Levels DEF Own, Theirs, Nodes
  <2>7. Theirs(u) => Exists(hub[u])
    BY <1>0, <2>1 DEF Sound, Owned
  <2>8. Exists(saving[u]) => hub'[u] = hub[u]
    BY <2>2 DEF LocksHold
  <2>9. ~(Own(u) /\ Theirs(u))
    BY DEF Own, Theirs
  <2>10. hub'[u].branch = Origin[u]
    BY <1>0, <2>3, <2>6, <2>7 DEF Sound, Owned, Own
  <2>11. (Own(u) => ~Exists(hub'[u])) => hub'[u].price[1] = "hub"
    BY <1>0, <2>3, <2>4, <2>6, <2>7, <2>9 DEF Sound, Priced
  <2> QED BY <1>0, <1>2, <2>1, <2>3, <2>4, <2>5, <2>8, <2>10, <2>11, ARow DEF Sound, Follows, Settled, HubMoves
<1>3. ASSUME NEW new, HubSaved(u, new)
      PROVE  /\ new \in Row /\ Exists(new) /\ new.version > hub[u].version /\ ~hub[u].deleted
             /\ new.branch = Origin[u] /\ (Own(u) => Exists(hub[u])) /\ new.synced = clock'
             /\ Theirs(u) => new.price[1] = "hub"
             /\ Parent[u] # None => Exists(hub[Parent[u]])
             /\ ~Exists(saving[u])
  <2>1. /\ new \in Row /\ new.version = hub[u].version + 1 /\ ~hub[u].deleted
        /\ new.branch = (IF Exists(hub[u]) THEN hub[u].branch ELSE "hub")
        /\ (new.price = hub[u].price \/ new.price[1] = "hub")
        /\ (~Exists(hub[u]) => Theirs(u))
        /\ Parent[u] # None => Exists(hub[Parent[u]])
        /\ ~Exists(saving[u]) /\ new.synced = clock'
    BY <1>3 DEF HubSaved
  <2>2. ~(Own(u) /\ Theirs(u))
    BY DEF Own, Theirs
  <2> QED BY <1>0, <2>1, <2>2, ARow DEF Sound, Owned, Priced, Theirs
<1>4. CASE saving' = saving /\ \E new : HubSaved(u, new) /\ hub'[u] = new
  <2>1. PICK new : HubSaved(u, new) /\ hub'[u] = new
    BY <1>4
  <2>2. Own(u) => Exists(till[u])
    BY <1>0, <1>3, <2>1 DEF Sound, Owned
  <2>3. Own(u) \/ Theirs(u)
    BY Levels DEF Own, Theirs, Nodes
  <2> QED BY <1>0, <1>3, <1>4, <2>1, <2>2, <2>3, ARow DEF Settled, HubMoves
<1>5. CASE hub' = hub /\ \E new : HubSaved(u, new) /\ saving'[u] = new
  BY <1>0, <1>3, <1>5, ARow DEF Sound, Owned, Priced, Rooted, HubMoves
<1>6. CASE HubCommitted(u)
  <2>1. Exists(saving[u]) /\ hub'[u] = saving[u] /\ saving'[u] = NoRow
    BY <1>6 DEF HubCommitted
  <2>2. Own(u) \/ Theirs(u)
    BY Levels DEF Own, Theirs, Nodes
  <2>3. NoRow.synced = 0
    BY DEF NoRow
  <2> QED BY <1>0, <2>1, <2>2, <2>3, NoRowIsARow, ARow DEF Sound, Owned, Priced, Rooted, Follows, Settled, HubMoves
<1> QED BY <1>1, <1>2, <1>4, <1>5, <1>6 DEF Moved
LEMMA AllMove ==
  ASSUME Base, Step
  PROVE  /\ \A u \in Records : TillMoves(u) /\ HubMoves(u)
         /\ clock' \in Nat /\ clock' >= clock
<1>1. clock \in Nat
  BY DEF Base, TypeOK
<1>2. ClockMoves
  <2>1. CASE AtTheTill
    BY <2>1, <1>1 DEF AtTheTill, TillSaved, Hooked, Plods, Kept, ReadOff, Marked, ClockMoves
  <2>2. CASE Arriving
    BY <2>2 DEF Arriving, Delivered, ClockMoves
  <2>3. CASE AtTheHub
    BY <2>3, <1>1 DEF AtTheHub, HubSaved, HubCommitted, ClockMoves
  <2>4. CASE Pulled
    BY <2>4 DEF Pulled, PullStarted, PageRead, Responded, PageApplied, Advanced, Retried, Stopped,
                PullEnded, OnlyPulls, ClockMoves
  <2> QED BY <2>1, <2>2, <2>3, <2>4 DEF Step
<1>3. clock' \in Nat /\ clock' >= clock
  BY <1>1, <1>2 DEF ClockMoves
<1> QED BY <1>2, <1>3, RowMoves, GrownIs, MovedIs

LEMMA TablesStay ==
  ASSUME Base, TypeOK', Step, \A u \in Records : TillMoves(u) /\ HubMoves(u), NEW u \in Records
  PROVE  (Owned(u) /\ Priced(u) /\ Rooted(u) /\ Follows(u))'
<1>1. Sound(u) /\ TillMoves(u) /\ HubMoves(u)
  BY BaseRows
<1>2. Owned(u)'
  BY <1>1 DEF Sound, Owned, TillMoves, HubMoves, Own, Theirs
<1>3. Priced(u)'
  BY <1>1 DEF HubMoves, Priced, Own
<1>4. Rooted(u)'
  <2> SUFFICES ASSUME Parent[u] # None
               PROVE  /\ Exists(till'[u]) => Exists(till'[Parent[u]])
                      /\ Exists(hub'[u]) \/ Exists(saving'[u]) => Exists(hub'[Parent[u]])
    BY DEF Rooted
  <2>1. TillMoves(Parent[u]) /\ HubMoves(Parent[u])
    BY Levels
  <2> QED BY <1>1, <2>1 DEF TillMoves, HubMoves
<1>5. Follows(u)'
  BY <1>1 DEF HubMoves, Follows, Own, Theirs
<1> QED BY <1>2, <1>3, <1>4, <1>5

LEMMA KnownStays ==
  ASSUME Base, TypeOK', Step, \A u \in Records : TillMoves(u) /\ HubMoves(u), NEW u \in Records
  PROVE  Known(u)'
<1>1. Known(u) /\ (Exists(till[u]) => Exists(till'[u]))
  BY BaseRows DEF Sound, TillMoves
<1>2. CASE \E x \in Records : TillSaved(x)
  <2>1. PICK x \in Records : TillSaved(x)
    BY <1>2
  <2>2. Exists(till'[x])
    <3>1. till[x] \in Row /\ till'[x] \in Row /\ till'[x].version = till[x].version + 1
      BY <2>1, BaseRows DEF TillSaved
    <3> QED BY <3>1, ARow DEF Exists
  <2>3. push' = push
    BY <2>1 DEF TillSaved
  <2>4. Queued(u)' => Exists(till'[u])
    <3>1. queue'[u].row = queue[u].row \/ u = x
      BY <2>1 DEF TillSaved
    <3> QED BY <1>1, <2>2, <3>1 DEF Known, Queued
  <2>5. \A row : <<u, row>> \in hooks' => Exists(row) /\ Exists(till'[u])
    <3>1. \A h \in hooks' : h \in hooks \/ h = <<x, till'[x]>>
      BY <2>1 DEF TillSaved
    <3> QED BY <1>1, <2>2, <3>1 DEF Known
  <2> QED BY <1>1, <2>3, <2>4, <2>5 DEF Known
<1>3. CASE \E x \in Records : \E row : Hooked(x, row)
  <2>1. PICK x \in Records : \E row : Hooked(x, row)
    BY <1>3
  <2>2. PICK row : Hooked(x, row)
    BY <2>1
  <2>3. Known(x)
    BY BaseRows DEF Sound
  <2>4. /\ <<x, row>> \in hooks /\ hooks' \subseteq hooks /\ push' = push /\ till' = till
        /\ queue'[x].row = row /\ (u # x => queue'[u] = queue[u])
    BY <2>2 DEF Hooked
  <2> QED BY <1>1, <2>3, <2>4 DEF Known, Queued
<1>4. CASE Plods
  <2>1. Kept /\ Requeued /\ GoesOn
    BY <1>4 DEF Plods
  <2>2. till' = till /\ hooks' = hooks
    BY <2>1 DEF Kept
  <2>3. Queued(u)' => Exists(till[u])
    BY <1>1, <2>1, NoRowIsARow DEF Requeued, Known, Queued
  <2>4. \A w \in Pushers : u \in DOMAIN push'[w].sent => Exists(push'[w].sent[u]) /\ Exists(till[u])
    BY <1>1, <2>1 DEF GoesOn, Known
  <2> QED BY <1>1, <2>2, <2>3, <2>4 DEF Known
<1>5. CASE \E w \in Pushers : ReadOff(w)
  <2>1. PICK w \in Pushers : ReadOff(w)
    BY <1>5
  <2>2. /\ till' = till /\ hooks' = hooks /\ queue' = queue
        /\ \A v \in Pushers : v # w => push'[v] = push[v]
        /\ \A x \in DOMAIN push'[w].sent : Queued(x) /\ push'[w].sent[x] = queue[x].row
    BY <2>1 DEF ReadOff
  <2>3. \A v \in Pushers : u \in DOMAIN push'[v].sent => Exists(push'[v].sent[u]) /\ Exists(till[u])
    BY <1>1, <2>2 DEF Known, Queued
  <2> QED BY <1>1, <2>2, <2>3 DEF Known, Queued
<1>6. CASE Marked
  <2>1. GoesOn /\ hooks' = hooks /\ queue' = queue
    BY <1>6 DEF Marked
  <2>2. \A w \in Pushers : u \in DOMAIN push'[w].sent => Exists(push'[w].sent[u]) /\ Exists(till[u])
    BY <1>1, <2>1 DEF GoesOn, Known
  <2> QED BY <1>1, <2>1, <2>2 DEF Known, Queued
<1>7. CASE Arriving
  <2>1. PICK w \in Pushers : Delivered(w)
    BY <1>7 DEF Arriving
  <2>2. /\ till' = till /\ hooks' = hooks /\ queue' = queue
        /\ \A v \in Pushers : push'[v].sent = push[v].sent
    BY <2>1 DEF Delivered
  <2> QED BY <1>1, <2>2 DEF Known, Queued
<1>8. CASE AtTheHub \/ Pulled
  <2>1. UNCHANGED pushVars
    BY <1>8 DEF AtTheHub, Pulled, HubSaved, HubCommitted, PullStarted, PageRead, Responded,
                PageApplied, Advanced, Retried, Stopped, PullEnded, OnlyPulls
  <2> QED BY <1>1, <2>1 DEF Known, Queued, pushVars
<1> QED BY <1>2, <1>3, <1>4, <1>5, <1>6, <1>7, <1>8 DEF Step, AtTheTill
\* Where the rows on their way to the branch come from.
PageOf(u) ==
  /\ u \in DOMAIN pull'.page =>
       \/ u \in DOMAIN pull.page /\ pull'.page[u] = pull.page[u]
       \/ u \in Feed(pull.level) /\ pull'.page[u] = hub[u]
  /\ u \in DOMAIN pull'.deferred =>
       \/ u \in DOMAIN pull.deferred /\ pull'.deferred[u] = pull.deferred[u]
       \/ u \in DOMAIN pull.page /\ Missing(till', u) /\ pull'.deferred[u] = pull.page[u]
LEMMA PageIs ==
  ASSUME Step, NEW u \in Records
  PROVE  PageOf(u)
<1>1. CASE AtTheTill \/ Arriving \/ AtTheHub
  <2>1. pull' = pull
    BY <1>1 DEF AtTheTill, Arriving, AtTheHub, TillSaved, Hooked, Plods, Kept, ReadOff, Marked,
                Delivered, HubSaved, HubCommitted, pullVars
  <2> QED BY <2>1 DEF PageOf
<1>2. CASE PullStarted \/ Retried \/ Stopped
  BY <1>2 DEF PullStarted, Retried, Stopped, PullEnded, PageOf
<1>3. CASE \E us : PageRead(us)
  BY <1>3 DEF PageRead, PageOf
<1>4. CASE Responded \/ Advanced
  BY <1>4 DEF Responded, Advanced, PageOf
<1>5. CASE PageApplied
  BY <1>5 DEF PageApplied, PageOf
<1> QED BY <1>1, <1>2, <1>3, <1>4, <1>5 DEF Step, Pulled

LEMMA CopiedStays ==
  ASSUME Base, TypeOK', Step, \A u \in Records : TillMoves(u) /\ HubMoves(u), NEW u \in Records
  PROVE  Copied(u)'
<1>1. Copied(u) /\ Owned(u) /\ HubMoves(u) /\ hub[u] \in Row /\ hub'[u] \in Row /\ PageOf(u)
  BY BaseRows, PageIs DEF Sound, TypeOK
<1>2. ASSUME NEW row \in Row, Copy(u, row)
      PROVE  /\ Exists(row) /\ Theirs(u) /\ row.branch = "hub" /\ Exists(hub'[u])
             /\ row.version <= hub'[u].version
  BY <1>1, <1>2, ARow DEF Copy, HubMoves
<1>3. u \in Feed(pull.level) => Copy(u, hub[u])
  <2> SUFFICES ASSUME u \in Feed(pull.level) PROVE Copy(u, hub[u])
    OBVIOUS
  <2>1. Exists(hub[u]) /\ hub[u].branch # "branch"
    BY DEF Feed
  <2> QED BY <1>1, <2>1, ARow, Levels DEF Owned, Copy, Theirs, Nodes
<1>4. u \in DOMAIN pull'.page =>
        \E row \in Row : Copy(u, row) /\ pull'.page[u] = row
  BY <1>1, <1>3, BaseRows DEF PageOf, Copied
<1>5. u \in DOMAIN pull'.deferred =>
        (\E row \in Row : Copy(u, row) /\ pull'.deferred[u] = row) /\ Parent[u] # None
  BY <1>1, BaseRows DEF PageOf, Copied, Missing
<1> QED BY <1>2, <1>4, <1>5 DEF Copied, Copy, Theirs

LEMMA PullingStays ==
  ASSUME Base, TypeOK', Step, clock' \in Nat, clock' >= clock
  PROVE  Pulling'
<1>1. Pulling /\ cursor \in 0 .. clock /\ clock \in Nat /\ pull.next \in 0 .. clock /\ pull.level \in 1 .. 3
  BY DEF Base, TypeOK, PullTypeOK
<1>2. CASE AtTheTill \/ Arriving \/ AtTheHub
  <2>1. pull' = pull /\ cursor' = cursor
    BY <1>2 DEF AtTheTill, Arriving, AtTheHub, TillSaved, Hooked, Plods, Kept, ReadOff, Marked,
                Delivered, HubSaved, HubCommitted, pullVars
  <2> QED BY <1>1, <2>1 DEF Pulling, Paging
<1>3. CASE PullStarted
  BY <1>3 DEF PullStarted, Pulling, Paging
<1>4. CASE Retried \/ Stopped
  BY <1>4 DEF Retried, Stopped, PullEnded, Pulling
<1>5. CASE \E us : PageRead(us)
  <2>1. /\ pull.pc = "changes" /\ pull'.pc = "changes" /\ (Paging => Paging')
        /\ pull.level \in {1, 2} /\ pull'.level = pull.level + 1 /\ cursor' = cursor
    BY <1>5 DEF PageRead
  <2>2. pull'.level # 1
    BY <2>1
  <2> QED BY <1>1, <2>1, <2>2 DEF Pulling
<1>6. CASE Responded
  BY <1>1, <1>6 DEF Responded, Pulling, Paging
<1>7. CASE PageApplied
  BY <1>1, <1>7 DEF PageApplied, Pulling
<1>8. CASE Advanced
  BY <1>1, <1>8 DEF Advanced, Pulling, Paging
<1> QED BY <1>2, <1>3, <1>4, <1>5, <1>6, <1>7, <1>8 DEF Step, Pulled

LEMMA PushingStays ==
  ASSUME Base, Step, NEW w \in Pushers
  PROVE  Pushing(w)'
<1>1. Pushing(w) /\ push[w] \in Push
  BY PushHas DEF Base
<1>2. CASE Plods \/ Marked
  BY <1>1, <1>2 DEF Plods, Marked, GoesOn
<1>3. CASE \E v \in Pushers : ReadOff(v)
  BY <1>1, <1>3 DEF ReadOff, Pushing
<1>4. CASE Arriving
  <2>1. PICK v \in Pushers : Delivered(v)
    BY <1>4 DEF Arriving
  <2>2. /\ push'[w].sent = push[w].sent /\ push'[w].confirmed = push[w].confirmed
        /\ (w # v => push'[w] = push[w]) /\ push'[v].pc = "answer"
    BY <2>1 DEF Delivered
  <2> QED BY <1>1, <2>2 DEF Pushing
<1>5. CASE (\E x \in Records : TillSaved(x)) \/ (\E x \in Records : \E row : Hooked(x, row))
           \/ AtTheHub \/ Pulled
  <2>1. push' = push
    BY <1>5 DEF AtTheHub, Pulled, HubSaved, HubCommitted, PullStarted, PageRead, Responded,
                PageApplied, Advanced, Retried, Stopped, PullEnded, OnlyPulls, pushVars, TillSaved, Hooked
  <2> QED BY <1>1, <2>1 DEF Pushing
<1> QED BY <1>2, <1>3, <1>4, <1>5 DEF Step, AtTheTill

LEMMA BaseStays ==
  ASSUME Base, Next
  PROVE  /\ Base' /\ Step
         /\ \A u \in Records : TillMoves(u) /\ HubMoves(u)
<1>1. TypeOK' /\ Step
  BY StepIs DEF Base
<1>2. \A u \in Records : TillMoves(u) /\ HubMoves(u)
  BY <1>1, AllMove
<1>3. \A u \in Records : Sound(u)'
  BY <1>1, <1>2, TablesStay, KnownStays, CopiedStays DEF Sound
<1>4. Stamped'
  BY <1>2 DEF HubMoves, Stamped
<1>5. clock' \in Nat /\ clock' >= clock
  BY <1>1, AllMove
<1>6. Pulling'
  BY <1>1, <1>5, PullingStays
<1>7. \A w \in Pushers : Pushing(w)'
  BY <1>1, PushingStays
<1> QED BY <1>1, <1>2, <1>3, <1>4, <1>6, <1>7 DEF Base
LEMMA BaseStutters ==
  ASSUME Base, UNCHANGED vars
  PROVE  Base'
<1>1. /\ UNCHANGED <<world, till, hub, clock, edits>> /\ UNCHANGED <<hooks, queue, lock, push, missed>>
      /\ UNCHANGED <<saving, cursor, pull>>
  BY DEF vars, recordVars, pushVars, pullVars
<1>2. TypeOK'
  BY <1>1 DEF Base, TypeOK, PushTypeOK, PullTypeOK
<1>3. \A u \in Records : Sound(u)'
  <2>1. \A u \in Records : (Owned(u) /\ Priced(u) /\ Rooted(u) /\ Follows(u))'
    BY <1>1 DEF Base, Sound, Owned, Priced, Rooted, Follows, Own, Theirs
  <2>2. \A u \in Records : Known(u)' /\ Copied(u)'
    BY <1>1 DEF Base, Sound, Known, Copied, Queued, Copy
  <2> QED BY <2>1, <2>2 DEF Sound
<1>4. Stamped' /\ Pulling' /\ \A w \in Pushers : Pushing(w)'
  BY <1>1 DEF Base, Stamped, Pulling, Pushing, Paging
<1> QED BY <1>2, <1>3, <1>4 DEF Base

LEMMA BaseAtFirst == Init => Base
<1> SUFFICES ASSUME Init PROVE Base
  OBVIOUS
<1>1. TypeOK
  BY TypesAtFirst
<1>2. /\ till = [u \in Records |-> NoRow] /\ saving = [u \in Records |-> NoRow]
      /\ hooks = {} /\ queue = [u \in Records |-> NotQueued] /\ push = [w \in Pushers |-> Idle]
      /\ pull = Idling /\ cursor = 0 /\ clock = Len(Catalogue)
  BY DEF Init, RecordsInit, PushInit, PullInit
<1>3. ASSUME NEW u \in Records
      PROVE  /\ hub[u].synced \in 0 .. Len(Catalogue)
             /\ hub[u].price = <<"hub", 0>> /\ ~hub[u].deleted /\ hub[u].branch = "hub"
             /\ Exists(hub[u]) <=> \E k \in DOMAIN Catalogue : u = Catalogue[k]
  <2> DEFINE stamp == Max({0} \cup {k \in DOMAIN Catalogue : u = Catalogue[k]})
             version == IF \E k \in DOMAIN Catalogue : u = Catalogue[k] THEN 1 ELSE 0
  <2>1. hub[u] = [NoRow EXCEPT !.version = version, !.synced = stamp]
    BY DEF Init, RecordsInit
  <2>2. stamp \in 0 .. Len(Catalogue)
    BY MarkOfCatalogue
  <2>3. version > 0 <=> \E k \in DOMAIN Catalogue : u = Catalogue[k]
    OBVIOUS
  <2> HIDE DEF stamp, version
  <2> QED BY <2>1, <2>2, <2>3 DEF NoRow, Exists
<1>4. Stamped
  <2>1. \A u \in Records : hub[u].synced <= clock
    BY <1>2, <1>3, GivenCatalogue
  <2>2. \A u \in Records : saving[u].synced <= clock
    BY <1>2, GivenCatalogue DEF NoRow
  <2> QED BY <2>1, <2>2 DEF Stamped
<1>5. ASSUME NEW u \in Records PROVE Sound(u)
  <2>1. /\ ~Exists(till[u]) /\ ~till[u].deleted /\ ~Exists(saving[u]) /\ ~Queued(u)
    BY <1>2, NoRowIsARow DEF Queued, NotQueued
  <2>2. Exists(hub[u]) => Theirs(u)
    BY <1>3, GivenCatalogue DEF Theirs
  <2>3. Owned(u)
    BY <2>1, <2>2, <1>3 DEF Owned, Settled, Own, Theirs
  <2>4. Priced(u)
    BY <1>3 DEF Priced
  <2>5. Exists(hub[u]) /\ Parent[u] # None => Exists(hub[Parent[u]])
    BY <1>3, GivenCatalogue, Levels
  <2>6. Rooted(u) /\ Follows(u)
    BY <2>1, <2>5 DEF Rooted, Follows
  <2>7. Known(u)
    BY <1>2, <2>1, NoRows DEF Known, Idle
  <2>8. Copied(u)
    BY <1>2, NoRows DEF Copied, Idling
  <2> QED BY <2>3, <2>4, <2>6, <2>7, <2>8 DEF Sound
<1>6. Pulling
  BY <1>2, NoRows DEF Pulling, Idling
<1>7. \A w \in Pushers : Pushing(w)
  BY <1>2, NoRows DEF Pushing, Idle
<1> QED BY <1>1, <1>4, <1>5, <1>6, <1>7 DEF Base

\* Every variable keeps its type, and the cursor is never ahead of the hub's clock, whatever
\* goes wrong: the states pushes, pulls, saves, crashes and lost answers reach are all rows,
\* payloads and pages of known records.
THEOREM SyncTypeCorrect == Spec => []TypeOK
<1>1. Base /\ [Next]_vars => Base'
  BY BaseStays, BaseStutters
<1>2. Base => TypeOK
  BY DEF Base
<1> QED BY <1>1, <1>2, BaseAtFirst, PTL DEF Spec

\* A row's version never goes back and a deleted row never comes back, on either side.
THEOREM RowsGoForward == Spec => OnlyForward
<1>1. Base /\ [Next]_vars => Base'
  BY BaseStays, BaseStutters
<1>2. Base /\ [Next]_vars => [AllForward]_vars
  <2>1. ASSUME Base, Next PROVE AllForward
    BY <2>1, BaseStays DEF TillMoves, HubMoves, Forward, AllForward
  <2> QED BY <2>1
<1> QED BY <1>1, <1>2, BaseAtFirst, PTL DEF Spec, OnlyForward
-----------------------------------------------------------------------------
(* On the way up: the branch's own records.                                *)

Calm == world \cap {"busy", "delayed_hook", "overreach"} = {}
\* What was pushed of u, or stamped as pushed, the hub has; what is to be pushed is the row.
Pushed(u) ==
  /\ hub[u].version <= till[u].version
  /\ hub[u].deleted => till[u].deleted
  /\ ~Exists(saving[u])
  /\ Queued(u) => Content(queue[u].row) = Content(till[u])
  /\ till[u].synced # 0 => Same(u)
  /\ \A w \in Pushers : /\ Sent(w, u) => Content(push[w].sent[u]) = Content(till[u])
                        /\ Taken(w, u) => Same(u)
\* What is under way of u is no later than the row, and is not deleted if the row is not.
Under(r, row) == r.version <= row.version /\ (r.deleted => row.deleted)
Trails(u) ==
  /\ Under(hub[u], till[u]) /\ ~Exists(saving[u])
  /\ Queued(u) => Under(queue[u].row, till[u])
  /\ \A w \in Pushers : u \in DOMAIN push[w].sent => Under(push[w].sent[u], till[u])
Up ==
  Calm => /\ hooks = {}
          /\ \A u \in Records : Own(u) => Trails(u) /\ (u \notin missed => Pushed(u))

LEMMA WorldStays == ASSUME Step PROVE world' = world
  BY DEF Step, AtTheTill, Arriving, AtTheHub, Pulled, TillSaved, Hooked, Plods, Kept, ReadOff, Marked,
         Delivered, HubSaved, HubCommitted, PullStarted, PageRead, Responded, PageApplied, Advanced,
         Retried, Stopped, PullEnded, OnlyPulls

LEMMA ContentIs ==
  ASSUME NEW r \in Row, NEW s \in Row
  PROVE  /\ Content(r) = Content(s) <=> /\ r.version = s.version /\ r.val = s.val
                                        /\ r.price = s.price /\ r.deleted = s.deleted
         /\ Content(r) = Content(s) => (Exists(r) <=> Exists(s))
<1>1. Content(r) = Content(s) <=> /\ r.version = s.version /\ r.val = s.val
                                  /\ r.price = s.price /\ r.deleted = s.deleted
  BY DEF Content
<1> QED BY <1>1 DEF Exists

\* Two rows are the same to both sides.
Alike(r, s) == Content(r) = Content(s) \/ ((Exists(r) => r.deleted) /\ (Exists(s) => s.deleted))
LEMMA SameIs == ASSUME NEW u PROVE Same(u) <=> Alike(till[u], hub[u])
  BY DEF Same, Alike
LEMMA AlikeIs ==
  ASSUME NEW r \in Row, NEW s \in Row, NEW t \in Row, Content(r) = Content(s)
  PROVE  Alike(r, t) <=> Alike(s, t)
<1>1. (Exists(r) <=> Exists(s)) /\ r.deleted = s.deleted
  BY ContentIs
<1> QED BY <1>1 DEF Alike

\* Pushes that go on, over rows whose content stays.
LEMMA PushedGoesOn ==
  ASSUME Base, Base', GoesOn, NEW u \in Records, Pushed(u),
         Content(till'[u]) = Content(till[u]), hub' = hub, saving' = saving,
         Queued(u)' => queue'[u].row = queue[u].row \/ queue'[u].row = till[u],
         till'[u].synced = till[u].synced \/ Same(u)
  PROVE  Pushed(u)'
<1>1. /\ till[u] \in Row /\ till'[u] \in Row /\ hub[u] \in Row /\ queue[u].row \in Row
  BY DEF Base, TypeOK, PushTypeOK
<1>2. till'[u].version = till[u].version /\ till'[u].deleted = till[u].deleted
  BY <1>1, ContentIs
<1>3. Same(u)' <=> Same(u)
  <2>1. Alike(till'[u], hub[u]) <=> Alike(till[u], hub[u])
    BY <1>1, AlikeIs
  <2> QED BY <2>1 DEF Same, Alike
<1>4. Queued(u)' => Content(queue'[u].row) = Content(till'[u])
  BY DEF Pushed, Queued
<1>5. \A w \in Pushers : /\ Sent(w, u)' => Content(push'[w].sent[u]) = Content(till'[u])
                         /\ Taken(w, u)' => Same(u)
  <2> SUFFICES ASSUME NEW w \in Pushers
               PROVE  /\ Sent(w, u)' => Content(push'[w].sent[u]) = Content(till'[u])
                      /\ Taken(w, u)' => Same(u)
    OBVIOUS
  <2>1. Sent(w, u)' => Sent(w, u) /\ push'[w].sent[u] = push[w].sent[u]
    BY DEF GoesOn, Sent
  <2> QED BY <2>1 DEF GoesOn, Pushed
<1> QED BY <1>2, <1>3, <1>4, <1>5 DEF Pushed

\* What is under way never gets ahead of the row.
LEMMA TrailsStays ==
  ASSUME Base, Base', Step, Calm, hooks = {}, NEW u \in Records, Own(u), Trails(u), TillMoves(u)
  PROVE  Trails(u)'
<1>1. /\ till[u] \in Row /\ till'[u] \in Row /\ hub[u] \in Row /\ hub'[u] \in Row
      /\ queue[u].row \in Row /\ queue'[u].row \in Row /\ Sound(u)
      /\ \A w \in Pushers : u \in DOMAIN push[w].sent => push[w].sent[u] \in Row
  BY BaseRows DEF Base, TypeOK, PushTypeOK
<1>2. \A r \in Row : Under(r, till[u]) => Under(r, till'[u])
  <2>1. ~Revivable("branch", u)
    BY DEF Own, Revivable
  <2> QED BY <1>1, <2>1, ARow DEF Under, TillMoves
<1>3. Under(till[u], till'[u]) /\ Under(till'[u], till'[u])
  BY <1>1, <1>2, ARow DEF Under
<1>4. ASSUME saving'[u] = saving[u],
             hub'[u] = hub[u] \/ Under(hub'[u], till[u]),
             Queued(u)' => queue'[u].row = queue[u].row \/ queue'[u].row \in {till[u], till'[u]},
             \A w \in Pushers : u \in DOMAIN push'[w].sent =>
               \/ u \in DOMAIN push[w].sent /\ push'[w].sent[u] = push[w].sent[u]
               \/ Queued(u) /\ push'[w].sent[u] = queue[u].row
      PROVE  Trails(u)'
  <2>1. Under(hub'[u], till'[u])
    BY <1>1, <1>2, <1>4 DEF Trails
  <2>2. Queued(u)' => Under(queue'[u].row, till'[u])
    BY <1>1, <1>2, <1>3, <1>4 DEF Trails, Queued
  <2>3. \A w \in Pushers : u \in DOMAIN push'[w].sent => Under(push'[w].sent[u], till'[u])
    BY <1>1, <1>2, <1>4 DEF Trails
  <2> QED BY <1>4, <2>1, <2>2, <2>3 DEF Trails
<1>5. CASE \E x \in Records : TillSaved(x)
  <2> PICK x \in Records : TillSaved(x)
    BY <1>5
  <2>1. /\ hub' = hub /\ saving' = saving /\ push' = push
        /\ queue'[u].row \in {queue[u].row, till'[u]}
    BY DEF TillSaved, Calm, pullVars
  <2> QED BY <1>4, <2>1
<1>6. ~ \E x \in Records : \E row : Hooked(x, row)
  BY DEF Hooked
<1>7. CASE Plods
  <2>1. GoesOn /\ Requeued /\ till' = till /\ hub' = hub /\ saving' = saving
    BY <1>7 DEF Plods, Kept, pullVars
  <2>2. Queued(u)' => queue'[u].row = queue[u].row \/ queue'[u].row = till[u]
    BY <2>1, NoRowIsARow DEF Requeued, Queued
  <2> QED BY <1>4, <2>1, <2>2 DEF GoesOn
<1>8. CASE \E w \in Pushers : ReadOff(w)
  <2> PICK w \in Pushers : ReadOff(w)
    BY <1>8
  <2>1. /\ hub' = hub /\ saving' = saving /\ queue' = queue
        /\ \A v \in Pushers : v # w => push'[v] = push[v]
        /\ \A y \in DOMAIN push'[w].sent : Queued(y) /\ push'[w].sent[y] = queue[y].row
    BY DEF ReadOff, pullVars
  <2> QED BY <1>4, <2>1
<1>9. CASE Marked
  <2>1. GoesOn /\ hub' = hub /\ saving' = saving /\ queue' = queue
    BY <1>9 DEF Marked, pullVars
  <2> QED BY <1>4, <2>1 DEF GoesOn
<1>10. CASE Arriving
  <2> PICK w \in Pushers : Delivered(w)
    BY <1>10 DEF Arriving
  <2>1. /\ saving' = saving /\ queue' = queue /\ (hub'[u] = hub[u] \/ Landed(w, u))
        /\ \A v \in Pushers : push'[v].sent = push[v].sent
    BY DEF Delivered, pullVars
  <2>2. Landed(w, u) => Under(hub'[u], till[u])
    <3> SUFFICES ASSUME Landed(w, u) PROVE Under(hub'[u], till[u])
      OBVIOUS
    <3>1. push[w].sent[u] \in Row /\ Under(push[w].sent[u], till[u])
      BY <1>1 DEF Landed, Trails
    <3>2. hub'[u].version = push[w].sent[u].version /\ hub'[u].deleted = push[w].sent[u].deleted
      BY <1>1, <3>1, LandedIs DEF Landed
    <3> QED BY <3>1, <3>2 DEF Under
  <2> QED BY <1>4, <2>1, <2>2
<1>11. CASE AtTheHub
  <2>1. queue' = queue /\ push' = push
    BY <1>11 DEF AtTheHub, HubSaved, HubCommitted, pushVars
  <2>2. hub'[u] = hub[u] /\ saving'[u] = saving[u]
    BY <1>11 DEF AtTheHub, HubSaved, HubCommitted, Calm, Trails
  <2> QED BY <1>4, <2>1, <2>2
<1>12. CASE Pulled
  <2>1. hub' = hub /\ saving' = saving /\ queue' = queue /\ push' = push
    BY <1>12 DEF Pulled, PullStarted, PageRead, Responded, PageApplied, Advanced, Retried, Stopped,
                 PullEnded, OnlyPulls, pushVars
  <2> QED BY <1>4, <2>1
<1> QED BY <1>5, <1>6, <1>7, <1>8, <1>9, <1>10, <1>11, <1>12 DEF Step, AtTheTill

LEMMA PushedStays ==
  ASSUME Base, Base', Step, Up, Calm
  PROVE  hooks' = {} /\ \A u \in Records : Own(u) /\ u \notin missed' => Pushed(u)'
<1>0. /\ hooks = {}
      /\ \A u \in Records : Own(u) => Trails(u) /\ (u \notin missed => Pushed(u))
  BY DEF Up
<1>1. CASE \E x \in Records : TillSaved(x)
  <2> PICK x \in Records : TillSaved(x)
    BY <1>1
  <2>1. /\ \A y \in Records \ {x} : till'[y] = till[y] /\ queue'[y] = queue[y]
        /\ hooks' = {} /\ hub' = hub /\ saving' = saving /\ push' = push
        /\ ~Reading /\ till'[x].synced = 0 /\ ~till[x].deleted
        /\ till'[x].version = till[x].version + 1
        /\ queue'[x].row = till'[x] \/ (queue' = queue /\ (Queued(x) => x \in missed'))
        /\ \A y \in Records \ {x} : y \in missed => y \in missed'
    BY <1>0 DEF TillSaved, Calm, pullVars
  <2>2. \A w \in Pushers : ~Sending(w)
    BY <2>1 DEF Reading, Sending
  <2>3. \A w \in Pushers : ~Sending(w)'
    BY <2>1, <2>2 DEF Sending
  <2>4. ASSUME NEW u \in Records, Own(u), u \notin missed' PROVE Pushed(u)'
    <3>1. Trails(u) /\ (u # x => Pushed(u)) /\ till[u] \in Row /\ hub[u] \in Row
      BY <1>0, <2>1, <2>4, BaseRows
    <3>2. CASE u = x
      <4>1. Queued(u)' => Content(queue'[u].row) = Content(till'[u])
        BY <2>1, <2>4, <3>2 DEF Queued
      <4> QED BY <2>1, <2>3, <3>1, <3>2, <4>1, ARow DEF Pushed, Trails, Under, Sent, Taken
    <3>3. CASE u # x
      BY <2>1, <2>3, <3>1, <3>3 DEF Pushed, Sent, Taken, Queued, Same
    <3> QED BY <3>2, <3>3
  <2> QED BY <2>1, <2>4
<1>2. CASE \E x \in Records : \E row : Hooked(x, row)
  BY <1>0, <1>2 DEF Hooked
<1>3. CASE Plods
  <2>1. /\ GoesOn /\ Requeued /\ missed' = missed /\ till' = till /\ hub' = hub /\ saving' = saving /\ hooks' = hooks
    BY <1>3 DEF Plods, Kept, pullVars
  <2>2. \A u \in Records : Queued(u)' => queue'[u].row = queue[u].row \/ queue'[u].row = till[u]
    BY <2>1, NoRowIsARow DEF Requeued, Queued
  <2> QED BY <1>0, <2>1, <2>2, PushedGoesOn
<1>4. CASE \E w \in Pushers : ReadOff(w)
  <2> PICK w \in Pushers : ReadOff(w)
    BY <1>4
  <2>1. /\ till' = till /\ hub' = hub /\ saving' = saving /\ hooks' = hooks /\ queue' = queue
        /\ missed' = missed
        /\ \A v \in Pushers : v # w => push'[v] = push[v]
        /\ \A y \in DOMAIN push'[w].sent : Queued(y) /\ push'[w].sent[y] = queue[y].row
        /\ push[w].pc = "read" /\ push'[w].confirmed = push[w].confirmed /\ push'[w].pc # "answer"
    BY DEF ReadOff, pullVars
  <2>2. push[w].confirmed = {}
    BY <2>1 DEF Base, Pushing
  <2>3. ASSUME NEW u \in Records, Own(u), u \notin missed' PROVE Pushed(u)'
    <3>1. Pushed(u)
      BY <1>0, <2>1, <2>3
    <3>2. ASSUME NEW v \in Pushers
          PROVE  /\ Sent(v, u)' => Content(push'[v].sent[u]) = Content(till'[u])
                 /\ Taken(v, u)' => Same(u)'
      <4>1. CASE v = w
        BY <2>1, <2>2, <3>1, <4>1 DEF Sent, Taken, Pushed
      <4>2. CASE v # w
        <5>1. push'[v] = push[v]
          BY <2>1, <4>2
        <5> QED BY <2>1, <3>1, <5>1 DEF Sent, Taken, Sending, Batch, Pushed, Same
      <4> QED BY <4>1, <4>2
    <3> QED BY <2>1, <3>1, <3>2 DEF Pushed, Queued, Same
  <2> QED BY <1>0, <2>1, <2>3
<1>5. CASE Marked
  <2>1. GoesOn /\ missed' = missed /\ hub' = hub /\ saving' = saving /\ hooks' = hooks /\ queue' = queue
    BY <1>5 DEF Marked, pullVars
  <2>2. ASSUME NEW u \in Records, Own(u), u \notin missed' PROVE Pushed(u)'
    <3>1. Pushed(u) /\ till[u] \in Row /\ till'[u] \in Row
      BY <1>0, <2>1, <2>2 DEF Base, TypeOK
    <3>2. Content(till'[u]) = Content(till[u])
      BY <1>5, <3>1, ContentIs DEF Marked
    <3>3. till'[u].synced = till[u].synced \/ Same(u)
      BY <1>5, <3>1 DEF Marked, Pushed
    <3> QED BY <2>1, <3>1, <3>2, <3>3, PushedGoesOn
  <2> QED BY <1>0, <2>1, <2>2
<1>6. CASE Arriving
  <2> PICK w \in Pushers : Delivered(w)
    BY <1>6 DEF Arriving
  <2>1. /\ till' = till /\ saving' = saving /\ hooks' = hooks /\ queue' = queue /\ missed' = missed
        /\ \A v \in Pushers : v # w => push'[v] = push[v]
        /\ \A v \in Pushers : push'[v].sent = push[v].sent /\ (Sending(v)' => Sending(v))
    BY DEF Delivered, pullVars
  <2>2. Sending(w) /\ \A u \in Records : hub'[u] = hub[u] \/ Landed(w, u)
    BY DEF Delivered
  <2>3. \A u \in Records : Taken(w, u)' => Taken(w, u) \/ Passed(w, u)
    BY DEF Delivered
  <2>4. ASSUME NEW u \in Records, Own(u), u \notin missed' PROVE Pushed(u)'
    <3>1. Pushed(u) /\ till[u] \in Row /\ hub[u] \in Row /\ Sound(u)
      BY <1>0, <2>1, <2>4, BaseRows
    <3>2. u \in DOMAIN push[w].sent =>
            push[w].sent[u] \in Row /\ Content(push[w].sent[u]) = Content(till[u])
      BY <2>2, <3>1, BaseRows DEF Pushed, Sent
    <3>3. Landed(w, u) => hub'[u] \in Row /\ Content(hub'[u]) = Content(till[u])
      BY <2>4, <3>1, <3>2, LandedIs, ContentIs DEF Landed, Own
    <3>4. Passed(w, u) => Landed(w, u) \/ (hub'[u] = hub[u] /\ ~Exists(hub[u]) /\ till[u].deleted)
      <4> SUFFICES ASSUME Passed(w, u), ~Landed(w, u)
                   PROVE  ~Exists(hub[u]) /\ till[u].deleted
        BY <2>2
      <4> DEFINE sent == push[w].sent[u]
      <4>1. sent \in Row /\ sent.version = till[u].version /\ sent.deleted = till[u].deleted
        BY <3>1, <3>2, ContentIs DEF Passed
      <4> HIDE DEF sent
      <4>2. CASE Missing(hub, u)
        BY <3>1, <4>1, <4>2 DEF Passed, Missing, Sound, Rooted, sent
      <4>3. CASE ~Missing(hub, u)
        <5>1. Accepts("hub", u, hub[u], sent)
          BY <3>1, <4>1, ARow DEF Pushed, Accepts, ShouldReplace
        <5> QED BY <4>3, <5>1 DEF Passed, sent
      <4> QED BY <4>2, <4>3
    <3>5. Same(u) \/ Passed(w, u) => Same(u)'
      BY <2>1, <2>2, <3>3, <3>4 DEF Same
    <3>6. hub'[u].version <= till'[u].version /\ (hub'[u].deleted => till'[u].deleted)
      BY <2>1, <2>2, <3>1, <3>3, ContentIs, ARow DEF Pushed
    <3>7. ASSUME NEW v \in Pushers
          PROVE  /\ Sent(v, u)' => Content(push'[v].sent[u]) = Content(till'[u])
                 /\ Taken(v, u)' => Same(u)'
      <4>1. Sent(v, u)' => Content(push'[v].sent[u]) = Content(till'[u])
        BY <2>1, <3>1 DEF Sent, Pushed
      <4>2. Taken(v, u)' => Taken(v, u) \/ (v = w /\ Passed(w, u))
        BY <2>1, <2>3 DEF Taken, Sending, Batch
      <4> QED BY <3>1, <3>5, <4>1, <4>2 DEF Pushed
    <3> QED BY <2>1, <3>1, <3>5, <3>6, <3>7 DEF Pushed, Queued
  <2> QED BY <1>0, <2>1, <2>4
<1>7. CASE AtTheHub
  <2>1. /\ till' = till /\ hooks' = hooks /\ queue' = queue /\ push' = push /\ missed' = missed
    BY <1>7 DEF AtTheHub, HubSaved, HubCommitted, pushVars
  <2>2. ASSUME NEW u \in Records, Own(u) PROVE hub'[u] = hub[u] /\ saving'[u] = saving[u]
    BY <1>0, <1>7, <2>2 DEF AtTheHub, HubSaved, HubCommitted, Calm, Trails
  <2>3. ASSUME NEW u \in Records, Own(u), u \notin missed' PROVE Pushed(u)'
    BY <1>0, <2>1, <2>2, <2>3 DEF Pushed, Sent, Taken, Sending, Batch, Queued, Same
  <2> QED BY <1>0, <2>1, <2>3
<1>8. CASE Pulled
  <2>1. /\ hub' = hub /\ saving' = saving /\ hooks' = hooks /\ queue' = queue /\ push' = push
        /\ missed' = missed
    BY <1>8 DEF Pulled, PullStarted, PageRead, Responded, PageApplied, Advanced, Retried, Stopped,
                PullEnded, OnlyPulls, pushVars
  <2>2. ASSUME NEW u \in Records, Own(u) PROVE till'[u] = till[u]
    <3>1. CASE PullStarted \/ (\E us : PageRead(us)) \/ Responded \/ Advanced \/ Stopped
      BY <3>1 DEF PullStarted, PageRead, Responded, Advanced, Stopped
    <3>2. CASE PageApplied \/ Retried
      <4>1. PICK rows \in {pull.page, pull.deferred} : TookIn(rows)
        BY <3>2 DEF PageApplied, Retried
      <4>2. ~Takes(rows, till', u)
        BY <2>2, BaseRows DEF Takes, Sound, Copied, Copy, Own, Theirs
      <4> QED BY <4>1, <4>2 DEF TookIn
    <3> QED BY <1>8, <3>1, <3>2 DEF Pulled
  <2>3. ASSUME NEW u \in Records, Own(u), u \notin missed' PROVE Pushed(u)'
    BY <1>0, <2>1, <2>2, <2>3 DEF Pushed, Sent, Taken, Sending, Batch, Queued, Same
  <2> QED BY <1>0, <2>1, <2>3
<1> QED BY <1>1, <1>2, <1>3, <1>4, <1>5, <1>6, <1>7, <1>8 DEF Step, AtTheTill

LEMMA UpStays ==
  ASSUME Base, Base', Step, Up, \A u \in Records : TillMoves(u)
  PROVE  Up'
<1> SUFFICES ASSUME Calm
             PROVE  /\ hooks' = {}
                    /\ \A u \in Records : Own(u) => Trails(u)' /\ (u \notin missed' => Pushed(u)')
  BY WorldStays DEF Up, Calm, Own
<1>1. hooks = {} /\ \A u \in Records : Own(u) => Trails(u)
  BY DEF Up
<1>2. \A u \in Records : Own(u) => Trails(u)'
  BY <1>1, TrailsStays
<1> QED BY <1>2, PushedStays
-----------------------------------------------------------------------------
(* On the way down: the hub's records.                                     *)

Steady == world \cap {"late_commit", "deferred_lost"} = {}
\* How far the branch has taken in what the hub stamped.
Upto == IF pull.pc = "advance" THEN pull.next ELSE cursor
\* The branch has the row, or a later one, or had it deleted for good.
Outrun(u) ==
  \/ till[u].version >= hub[u].version
  \/ till[u].deleted /\ ~Revivable("branch", u)
Held(u) == u \in DOMAIN pull.deferred /\ Content(pull.deferred[u]) = Content(hub[u])
Current(u) == u \in DOMAIN pull.page /\ pull.page[u] = hub[u]
\* The row has come as far as the pull has.
Reached(u) ==
  /\ hub[u].synced <= Upto => Outrun(u) \/ Held(u)
  /\ pull.pc = "changes" /\ Level(u) < pull.level /\ hub[u].synced > cursor
     /\ (pull.more => hub[u].synced <= pull.next) => Current(u)
  /\ pull.pc = "apply" /\ hub[u].synced > cursor /\ hub[u].synced <= pull.next => Current(u)
\* The parent of a record comes no later than the last page.
Kin ==
  /\ pull.pc = "apply" /\ ~pull.more =>
       \A u \in DOMAIN pull.page \cup DOMAIN pull.deferred :
         Parent[u] # None => Exists(till[Parent[u]]) \/ Parent[u] \in DOMAIN pull.page
  /\ (pull.pc = "advance" /\ ~pull.more) \/ pull.pc = "retry" =>
       \A u \in DOMAIN pull.deferred : Parent[u] # None => Exists(till[Parent[u]])
Coming ==
  /\ \A u \in Records : ~Exists(saving[u])
  /\ \A u \in Records : Theirs(u) /\ Exists(hub[u]) => Reached(u)
  /\ \A u \in DOMAIN pull.page : hub[u].synced > cursor
  /\ Kin
Down == Steady => Coming

LEMMA OutrunStays ==
  ASSUME Base, Step, NEW u \in Records, TillMoves(u), Base', hub'[u] = hub[u], Outrun(u)
  PROVE  Outrun(u)'
<1>1. till[u] \in Row /\ till'[u] \in Row /\ hub[u] \in Row /\ world' = world
  BY WorldStays DEF Base, TypeOK
<1> QED BY <1>1, ARow DEF TillMoves, Outrun, Revivable

\* A row of the hub that changes is stamped anew, and not while /changes is served.
Restamped(u) ==
  /\ hub'[u].synced > clock /\ pull.pc # "changes" /\ Exists(hub'[u])
  /\ pull' = pull /\ cursor' = cursor /\ till' = till
LEMMA HubStamps ==
  ASSUME Base, Base', Step, Steady, \A u \in Records : ~Exists(saving[u]), NEW u \in Records, Theirs(u)
  PROVE  (hub'[u] = hub[u] \/ Restamped(u)) /\ ~Exists(saving'[u])
<1>1. /\ Sound(u) /\ hub[u] \in Row /\ hub'[u] \in Row /\ clock \in Nat
      /\ ~Exists(saving[u]) /\ "late_commit" \notin world
  BY BaseRows DEF Steady, Base, TypeOK
<1>2. Moved(u)
  BY RowMoves
<1>3. CASE hub'[u] = hub[u] /\ saving'[u] = saving[u]
  BY <1>1, <1>3
<1>4. ASSUME NEW w \in Pushers, saving' = saving, Delivered(w), Landed(w, u)
      PROVE  hub'[u] = hub[u] \/ Restamped(u)
  <2>1. /\ Exists(till[u]) /\ hub'[u].synced = clock' /\ hub'[u].version = push[w].sent[u].version
        /\ Exists(push[w].sent[u])
    BY <1>4, LandedIs
  <2>2. Exists(hub[u]) /\ hub[u].branch = "hub"
    BY <1>1, <2>1 DEF Sound, Owned, Theirs
  <2>3. clock' = clock + 1
    BY <1>4, <2>2 DEF Landed
  <2>4. hub'[u] = hub[u] \/ pull.pc # "changes"
    BY <1>1, <1>4, <2>2 DEF Delivered, ServesStill, Serving
  <2>5. pull' = pull /\ cursor' = cursor /\ till' = till
    BY <1>4 DEF Delivered, pullVars
  <2> QED BY <1>1, <2>1, <2>3, <2>4, <2>5 DEF Restamped, Exists
<1>5. ASSUME NEW new, HubSaved(u, new) PROVE saving' = saving /\ Restamped(u)
  <2>1. /\ new \in Row /\ new.version = hub[u].version + 1 /\ new.synced = clock + 1
        /\ pull.pc # "changes" /\ hub'[u] = new /\ saving' = saving
        /\ pull' = pull /\ cursor' = cursor /\ till' = till
    BY <1>1, <1>5 DEF HubSaved, Serving
  <2> QED BY <1>1, <2>1, ARow DEF Restamped, Exists
<1>6. ~HubCommitted(u)
  BY <1>1 DEF HubCommitted
<1>7. (\E new : HubSaved(u, new)) => saving' = saving /\ Restamped(u)
  BY <1>5
<1> QED BY <1>1, <1>2, <1>3, <1>4, <1>6, <1>7 DEF Moved

\* A row of the hub that was taken in leaves the branch with it, or ahead of it.
LEMMA TakenOrOutrun ==
  ASSUME Base, Base', NEW rows \in {pull.page, pull.deferred}, TookIn(rows), NEW u \in Records,
         u \in DOMAIN rows, Content(rows[u]) = Content(hub[u]), ~Missing(till', u),
         hub'[u] = hub[u], world' = world
  PROVE  Outrun(u)'
<1>1. /\ till[u] \in Row /\ till'[u] \in Row /\ hub[u] \in Row /\ rows[u] \in Row
      /\ rows[u].version = hub[u].version /\ Exists(rows[u])
  BY BaseRows, ContentIs DEF Base, TypeOK, Sound, Copied, Copy
<1>2. CASE Takes(rows, till', u)
  <2>1. till'[u].version = rows[u].version
    BY <1>2, TakenInIs DEF TookIn
  <2> QED BY <1>1, <2>1, ARow DEF Outrun
<1>3. CASE ~Takes(rows, till', u)
  <2>1. till'[u] = till[u]
    BY <1>3 DEF TookIn
  <2>2. ~Accepts("branch", u, till[u], rows[u])
    BY <1>3 DEF Takes
  <2>3. Outrun(u)
    BY <1>1, <2>2, ARow DEF Accepts, ShouldReplace, Outrun
  <2> QED BY <2>1, <2>3 DEF Outrun, Revivable
<1> QED BY <1>2, <1>3

\* Where no pull moves, the rows stay as far as they came.
LEMMA ReachedElsewhere ==
  ASSUME Base, Base', Step, Steady, Coming, pull' = pull, cursor' = cursor,
         \A u \in Records : TillMoves(u)
  PROVE  Coming'
<1>1. /\ cursor \in 0 .. clock /\ clock \in Nat /\ pull.next \in 0 .. clock
  BY DEF Base, TypeOK, PullTypeOK
<1>2. \A u \in Records : Theirs(u) => (hub'[u] = hub[u] \/ Restamped(u))
  BY HubStamps DEF Coming
<1>3. ASSUME NEW u \in Records PROVE ~Exists(saving'[u])
  <2>1. Own(u) \/ Theirs(u)
    BY Levels DEF Own, Theirs, Nodes
  <2>2. CASE Theirs(u)
    BY <2>2, HubStamps DEF Coming
  <2>3. CASE Own(u)
    <3>1. ~Exists(saving[u]) /\ "late_commit" \notin world /\ Moved(u)
      BY RowMoves DEF Coming, Steady
    <3> QED BY <3>1 DEF Moved, HubSaved, HubCommitted
  <2> QED BY <2>1, <2>2, <2>3
<1>4. ASSUME NEW u \in Records, Theirs(u), Exists(hub'[u]) PROVE Reached(u)'
  <2>1. hub'[u] \in Row /\ hub[u] \in Row
    BY DEF Base, TypeOK
  <2>2. CASE hub'[u] = hub[u]
    <3>1. Reached(u) /\ (Outrun(u) => Outrun(u)')
      BY <1>4, <2>2, OutrunStays DEF Coming
    <3> QED BY <2>2, <3>1 DEF Reached, Held, Current, Upto, Level
  <2>3. CASE Restamped(u)
    <3>1. hub'[u].synced > cursor /\ hub'[u].synced > pull.next /\ hub'[u].synced > Upto
      BY <1>1, <2>1, <2>3, ARow DEF Restamped, Upto
    <3> QED BY <1>1, <2>1, <2>3, <3>1, ARow DEF Reached, Upto, Restamped
  <2> QED BY <1>2, <1>4, <2>2, <2>3
<1>5. ASSUME NEW u \in DOMAIN pull.page PROVE hub'[u].synced > cursor
  <2>1. u \in Records /\ Theirs(u)
    BY RowsAre, BaseRows DEF Base, TypeOK, PullTypeOK, Sound, Copied, Copy
  <2>2. hub'[u] \in Row
    BY <2>1 DEF Base, TypeOK
  <2> QED BY <1>1, <1>2, <2>1, <2>2, ARow DEF Coming, Restamped
<1>6. Kin'
  <2>1. \A u \in DOMAIN pull.page \cup DOMAIN pull.deferred : u \in Records
    BY RowsAre DEF Base, TypeOK, PullTypeOK
  <2>2. \A u \in Records : Parent[u] # None /\ Exists(till[Parent[u]]) => Exists(till'[Parent[u]])
    BY Levels DEF TillMoves
  <2> QED BY <2>1, <2>2 DEF Coming, Kin
<1> QED BY <1>3, <1>4, <1>5, <1>6 DEF Coming

LEMMA DownStays ==
  ASSUME Base, Base', Step, \A u \in Records : TillMoves(u), Down
  PROVE  Down'
<1> SUFFICES ASSUME Steady PROVE Coming'
  BY WorldStays DEF Down, Steady
<1>0. /\ Coming /\ Pulling /\ cursor \in 0 .. clock /\ clock \in Nat /\ pull.next \in 0 .. clock
      /\ pull.level \in 1 .. 3
  BY DEF Down, Base, TypeOK, PullTypeOK
<1>1. CASE AtTheTill \/ Arriving \/ AtTheHub
  <2>1. pull' = pull /\ cursor' = cursor
    BY <1>1 DEF AtTheTill, Arriving, AtTheHub, TillSaved, Hooked, Plods, Kept, ReadOff, Marked,
                Delivered, HubSaved, HubCommitted, pullVars
  <2> QED BY <1>0, <2>1, ReachedElsewhere
<1> USE DEF Coming
<1>2. ASSUME Pulled PROVE hub' = hub /\ saving' = saving /\ world' = world
  BY <1>2 DEF Pulled, PullStarted, PageRead, Responded, PageApplied, Advanced, Retried, Stopped,
              PullEnded, OnlyPulls
<1>3. \A u \in Records : hub'[u] = hub[u] /\ Outrun(u) => Outrun(u)'
  BY OutrunStays
<1>4. \A u \in Records : hub[u] \in Row /\ hub[u].synced \in Nat
  BY ARow DEF Base, TypeOK
<1>5. CASE PullStarted
  <2>1. /\ pull.pc = "idle" /\ pull'.pc = "changes" /\ pull'.level = 1 /\ cursor' = cursor
        /\ DOMAIN pull'.page = {} /\ DOMAIN pull.deferred = {} /\ till' = till
    BY <1>0, <1>5 DEF PullStarted, Pulling
  <2>2. ASSUME NEW u \in Records, Theirs(u), Exists(hub'[u]) PROVE Reached(u)'
    <3>1. Reached(u) /\ hub'[u] = hub[u] /\ Level(u) \in {1, 2}
      BY <1>0, <1>2, <1>5, <2>2, Levels DEF Pulled
    <3> QED BY <1>3, <2>1, <3>1 DEF Reached, Upto, Held, Level
  <2> QED BY <1>0, <1>2, <1>5, <2>1, <2>2 DEF Pulled, Kin
<1>6. CASE \E us : PageRead(us)
  <2> PICK us : PageRead(us)
    BY <1>6
  <2>1. /\ pull.pc = "changes" /\ pull'.pc = "changes" /\ pull'.level = pull.level + 1
        /\ cursor' = cursor /\ till' = till /\ pull'.deferred = pull.deferred
        /\ us \subseteq Feed(pull.level) /\ DOMAIN pull'.page = DOMAIN pull.page \cup us
        /\ \A u \in us : pull'.page[u] = hub[u]
        /\ \A u \in DOMAIN pull.page \ us : pull'.page[u] = pull.page[u]
        /\ \A u \in Feed(pull.level) : (pull'.more => hub[u].synced <= pull'.next) => u \in us
        /\ pull.more => pull'.more /\ (pull.next > 0 => pull'.next <= pull.next)
        /\ pull.level \in {1, 2}
    BY DEF PageRead
  <2>2. pull.more => pull.next > cursor
    BY <1>0, <2>1 DEF Pulling, Paging
  <2>3. ASSUME NEW u \in Records, Theirs(u), Exists(hub'[u]) PROVE Reached(u)'
    <3>1. Reached(u) /\ hub'[u] = hub[u] /\ Level(u) \in {1, 2} /\ Level(u)' = Level(u)
          /\ hub[u].branch = "hub"
      BY <1>0, <1>2, <1>6, <2>3, Levels, BaseRows DEF Pulled, Level, Sound, Owned, Theirs
    <3>2. hub[u].synced <= Upto' => Outrun(u)' \/ Held(u)'
      BY <1>3, <2>1, <3>1 DEF Reached, Upto, Held
    <3>3. ASSUME Level(u) < pull.level + 1, hub[u].synced > cursor,
                 pull'.more => hub[u].synced <= pull'.next
          PROVE  Current(u)'
      <4>1. CASE Level(u) = pull.level
        <5>1. u \in Feed(pull.level)
          BY <1>2, <1>6, <2>3, <3>1, <3>3, <4>1 DEF Feed, Pulled
        <5> QED BY <2>1, <3>1, <3>3, <5>1 DEF Current
      <4>2. CASE Level(u) # pull.level
        <5>1. Level(u) < pull.level
          BY <2>1, <3>1, <3>3, <4>2
        <5>2. pull.more => hub[u].synced <= pull.next
          <6> SUFFICES ASSUME pull.more PROVE hub[u].synced <= pull.next
            OBVIOUS
          <6>1. pull.next > 0 /\ hub[u].synced <= pull'.next /\ pull'.next <= pull.next
            BY <1>0, <2>1, <2>2, <3>3
          <6>2. pull'.next \in Nat
            BY DEF Base, TypeOK, PullTypeOK
          <6> QED BY <1>0, <1>4, <6>1, <6>2
        <5>3. Current(u)
          BY <2>1, <3>1, <3>3, <5>1, <5>2 DEF Reached
        <5> QED BY <2>1, <3>1, <5>3 DEF Current
      <4> QED BY <4>1, <4>2
    <3> QED BY <2>1, <3>1, <3>2, <3>3 DEF Reached
  <2>4. \A u \in DOMAIN pull'.page : hub'[u].synced > cursor'
    BY <1>0, <1>2, <1>6, <2>1 DEF Pulled, Feed
  <2> QED BY <1>0, <1>2, <1>6, <2>1, <2>3, <2>4 DEF Pulled, Kin
<1>7. CASE Responded
  <2>1. /\ pull.pc = "changes" /\ pull.level = 3 /\ pull'.pc = "apply" /\ pull'.page = pull.page
        /\ pull'.more = pull.more /\ pull'.deferred = pull.deferred
        /\ pull'.next = (IF pull.more THEN pull.next ELSE clock)
        /\ till' = till /\ cursor' = cursor
    BY <1>7 DEF Responded
  <2>2. ASSUME NEW u \in Records, Theirs(u), Exists(hub'[u]) PROVE Reached(u)'
    <3>1. Reached(u) /\ hub'[u] = hub[u] /\ Level(u) \in {1, 2}
      BY <1>0, <1>2, <1>7, <2>2, Levels DEF Pulled
    <3> QED BY <1>3, <2>1, <3>1 DEF Reached, Upto, Held, Current
  <2>3. ASSUME ~pull.more, NEW u \in DOMAIN pull.page \cup DOMAIN pull.deferred, Parent[u] # None
        PROVE  Exists(till[Parent[u]]) \/ Parent[u] \in DOMAIN pull.page
    <3> DEFINE p == Parent[u]
    <3>1. u \in Records /\ Copied(u) /\ Rooted(u)
      BY RowsAre, BaseRows DEF Base, TypeOK, PullTypeOK, Sound
    <3>2. p \in Records /\ Parent[p] = None /\ Level(p) = 1 /\ Exists(hub[p]) /\ Sound(p)
      BY <2>3, <3>1, Levels, BaseRows DEF Rooted, Copied, Copy
    <3>3. Own(p) \/ Theirs(p)
      BY <3>2, Levels DEF Own, Theirs, Nodes
    <3> HIDE DEF p
    <3>4. CASE Own(p)
      BY <3>2, <3>4 DEF Sound, Owned, p
    <3>5. CASE Theirs(p)
      <4>1. Reached(p) /\ hub[p] \in Row /\ till[p] \in Row
        BY <1>0, <3>2, <3>5, BaseRows
      <4>2. ~Held(p)
        BY <3>2 DEF Held, Sound, Copied
      <4>3. Outrun(p) => Exists(till[p])
        BY <3>2, <4>1, ARow DEF Outrun, Sound, Owned, Settled, Exists
      <4>4. hub[p].synced <= cursor => Exists(till[p])
        BY <2>1, <4>1, <4>2, <4>3 DEF Reached, Upto
      <4>5. hub[p].synced > cursor => p \in DOMAIN pull.page
        BY <2>1, <2>3, <3>2, <4>1 DEF Reached, Current
      <4> QED BY <1>0, <1>4, <3>2, <4>4, <4>5 DEF p
    <3> QED BY <3>3, <3>4, <3>5
  <2> QED BY <1>0, <1>2, <1>7, <2>1, <2>2, <2>3 DEF Pulled, Kin
<1>8. CASE PageApplied
  <2>1. /\ pull.pc = "apply" /\ TookIn(pull.page) /\ pull'.pc = "advance" /\ DOMAIN pull'.page = {}
        /\ pull'.more = pull.more /\ pull'.next = pull.next /\ cursor' = cursor
        /\ \A u : u \in DOMAIN pull'.deferred <=>
                    u \in DOMAIN pull.deferred \/ (u \in DOMAIN pull.page /\ Missing(till', u))
        /\ \A u \in DOMAIN pull'.deferred :
             pull'.deferred[u] = IF u \in DOMAIN pull.page /\ Missing(till', u)
                                   THEN pull.page[u] ELSE pull.deferred[u]
        /\ hub' = hub /\ saving' = saving /\ world' = world
    BY <1>2, <1>8 DEF PageApplied, Pulled
  <2>2. ASSUME NEW u \in Records, Theirs(u), Exists(hub'[u]) PROVE Reached(u)'
    <3>1. Reached(u)
      BY <1>0, <2>1, <2>2
    <3>2. CASE hub[u].synced <= cursor
      <4>1. u \notin DOMAIN pull.page
        BY <1>0, <1>4, <3>2
      <4>2. Held(u) => Held(u)'
        BY <2>1, <4>1 DEF Held
      <4>3. Outrun(u) \/ Held(u)
        BY <2>1, <3>1, <3>2 DEF Reached, Upto
      <4> QED BY <1>3, <2>1, <4>2, <4>3 DEF Reached
    <3>3. CASE hub[u].synced > cursor /\ hub[u].synced <= pull.next
      <4>1. Current(u)
        BY <2>1, <3>1, <3>3 DEF Reached
      <4>2. CASE Missing(till', u)
        <5>1. Held(u)'
          BY <2>1, <4>1, <4>2 DEF Held, Current
        <5> QED BY <2>1, <5>1 DEF Reached
      <4>3. CASE ~Missing(till', u)
        <5>1. Outrun(u)'
          BY <2>1, <4>1, <4>3, TakenOrOutrun DEF Current
        <5> QED BY <2>1, <5>1 DEF Reached
      <4> QED BY <4>2, <4>3
    <3>4. hub[u].synced > cursor /\ ~(hub[u].synced <= pull.next) => Reached(u)'
      BY <2>1 DEF Reached, Upto
    <3> QED BY <1>0, <1>4, <3>2, <3>3, <3>4
  <2>3. ASSUME ~pull.more, NEW u \in DOMAIN pull'.deferred, Parent[u] # None
        PROVE  Exists(till'[Parent[u]])
    <3> DEFINE p == Parent[u]
    <3>1. u \in Records
      BY RowsAre DEF Base, TypeOK, PullTypeOK
    <3>2. p \in Records /\ Parent[p] = None
      BY <2>3, <3>1, Levels
    <3>3. Exists(till[p]) \/ p \in DOMAIN pull.page
      BY <1>0, <2>1, <2>3 DEF Kin
    <3> HIDE DEF p
    <3>4. CASE Exists(till[p])
      BY <3>2, <3>4 DEF TillMoves, p
    <3>5. CASE p \in DOMAIN pull.page /\ ~Exists(till[p])
      <4>1. Takes(pull.page, till', p)
        BY <3>2, <3>5 DEF Takes, Missing, Accepts
      <4>2. till'[p].version = pull.page[p].version /\ Exists(pull.page[p])
        BY <2>1, <3>2, <4>1, TakenInIs DEF TookIn, Copy
      <4> QED BY <4>2 DEF Exists, p
    <3> QED BY <3>3, <3>4, <3>5
  <2> QED BY <1>0, <2>1, <2>2, <2>3 DEF Kin
<1>9. CASE Advanced
  <2>1. /\ pull.pc = "advance" /\ cursor' = pull.next /\ pull'.level = 1
        /\ pull'.pc = (IF pull.more THEN "changes" ELSE "retry")
        /\ DOMAIN pull'.page = {} /\ pull'.deferred = pull.deferred /\ till' = till
        /\ hub' = hub /\ saving' = saving /\ world' = world
    BY <1>0, <1>2, <1>9 DEF Advanced, Pulling, Pulled
  <2>2. ASSUME NEW u \in Records, Theirs(u), Exists(hub'[u]) PROVE Reached(u)'
    <3>1. Reached(u) /\ Level(u) \in {1, 2} /\ Level(u)' = Level(u)
      BY <1>0, <2>1, <2>2, Levels DEF Level
    <3> QED BY <1>3, <2>1, <3>1 DEF Reached, Upto, Held
  <2> QED BY <1>0, <2>1, <2>2 DEF Kin
<1>10. CASE Retried
  <2>1. /\ pull.pc = "retry" /\ TookIn(pull.deferred) /\ pull'.pc = "idle" /\ DOMAIN pull'.page = {}
        /\ cursor' = cursor /\ hub' = hub /\ saving' = saving /\ world' = world
    BY <1>2, <1>10 DEF Retried, PullEnded, Pulled
  <2>2. ASSUME NEW u \in Records, Theirs(u), Exists(hub'[u]) PROVE Reached(u)'
    <3>1. Reached(u)
      BY <1>0, <2>1, <2>2
    <3>2. Held(u) => Outrun(u)'
      <4> SUFFICES ASSUME Held(u) PROVE Outrun(u)'
        OBVIOUS
      <4>1. ~Missing(till', u)
        BY <1>0, <2>1, Levels DEF Missing, Kin, Held, TillMoves
      <4> QED BY <2>1, <4>1, TakenOrOutrun DEF Held
    <3> QED BY <1>3, <2>1, <3>1, <3>2 DEF Reached, Upto
  <2> QED BY <1>0, <2>1, <2>2 DEF Kin
<1>11. CASE Stopped
  <2>1. /\ DOMAIN pull.deferred = {} /\ pull'.pc = "idle" /\ DOMAIN pull'.page = {} /\ till' = till
        /\ cursor' = cursor /\ hub' = hub /\ saving' = saving /\ world' = world
    BY <1>2, <1>11 DEF Stopped, PullEnded, Pulled, Steady
  <2>2. pull.pc = "advance" => cursor <= pull.next
    BY <1>0 DEF Pulling
  <2>3. ASSUME NEW u \in Records, Theirs(u), Exists(hub'[u]) PROVE Reached(u)'
    <3>1. Reached(u) /\ ~Held(u)
      BY <1>0, <2>1, <2>3 DEF Held
    <3>2. hub[u].synced <= cursor => Outrun(u)
      BY <1>0, <1>4, <2>2, <3>1 DEF Reached, Upto
    <3> QED BY <1>3, <2>1, <3>2 DEF Reached, Upto
  <2> QED BY <1>0, <2>1, <2>3 DEF Kin
<1> QED BY <1>1, <1>5, <1>6, <1>7, <1>8, <1>9, <1>10, <1>11 DEF Step, Pulled

\* At first the branch is empty, and the hub's rows all wait to be pulled.
LEMMA AtFirst ==
  ASSUME Init
  PROVE  /\ till = [u \in Records |-> NoRow] /\ hooks = {} /\ Upto = 0 /\ cursor = 0
         /\ pull.pc = "idle" /\ DOMAIN pull.page = {} /\ DOMAIN pull.deferred = {}
         /\ \A u \in Records :
              /\ ~Exists(saving[u]) /\ ~Queued(u) /\ ~hub[u].deleted
              /\ Exists(hub[u]) => hub[u].synced > 0 /\ Origin[u] = "hub"
         /\ \A w \in Pushers : DOMAIN push[w].sent = {} /\ ~Sending(w)
<1>1. /\ till = [u \in Records |-> NoRow] /\ saving = [u \in Records |-> NoRow]
      /\ hooks = {} /\ queue = [u \in Records |-> NotQueued] /\ push = [w \in Pushers |-> Idle]
      /\ pull = Idling /\ cursor = 0
  BY DEF Init, RecordsInit, PushInit, PullInit
<1>2. ASSUME NEW u \in Records
      PROVE  /\ ~hub[u].deleted
             /\ Exists(hub[u]) => hub[u].synced > 0 /\ Origin[u] = "hub"
  <2> DEFINE stamp == Max({0} \cup {k \in DOMAIN Catalogue : u = Catalogue[k]})
             version == IF \E k \in DOMAIN Catalogue : u = Catalogue[k] THEN 1 ELSE 0
  <2>1. hub[u] = [NoRow EXCEPT !.version = version, !.synced = stamp]
    BY DEF Init, RecordsInit
  <2>2. version > 0 => \E k \in DOMAIN Catalogue : u = Catalogue[k]
    OBVIOUS
  <2>3. version > 0 => stamp > 0
    BY <2>2, MarkOfCatalogue
  <2>4. version > 0 => Origin[u] = "hub"
    BY <2>2, GivenCatalogue
  <2> HIDE DEF stamp, version
  <2> QED BY <2>1, <2>3, <2>4 DEF NoRow, Exists
<1>3. pull.pc = "idle" /\ DOMAIN pull.page = {} /\ DOMAIN pull.deferred = {} /\ Upto = 0
  BY <1>1, NoRows DEF Idling, Upto
<1>4. \A u \in Records : ~Exists(saving[u]) /\ ~Queued(u)
  BY <1>1, NoRowIsARow DEF Queued, NotQueued
<1>5. \A w \in Pushers : DOMAIN push[w].sent = {} /\ ~Sending(w)
  BY <1>1, NoRows DEF Sending, Idle
<1> QED BY <1>1, <1>2, <1>3, <1>4, <1>5

LEMMA LossAtFirst == Init => Up /\ Down
<1> SUFFICES ASSUME Init PROVE Up /\ Down
  OBVIOUS
<1>0. Base
  BY BaseAtFirst
<1>1. ASSUME NEW u \in Records, Own(u) PROVE Pushed(u) /\ Trails(u)
  <2>1. /\ till[u] = NoRow /\ ~Exists(saving[u]) /\ ~Queued(u) /\ ~Exists(hub[u]) /\ hub[u] \in Row
        /\ ~hub[u].deleted
    BY <1>0, <1>1, AtFirst, BaseRows DEF Own
  <2>2. NoRow.synced = 0
    BY DEF NoRow
  <2> QED BY <2>1, <2>2, AtFirst, NoRowIsARow, ARow DEF Pushed, Trails, Under, Sent, Taken, Exists
<1>2. Coming
  <2>1. ASSUME NEW u \in Records, Exists(hub[u]) PROVE Reached(u)
    <3>1. hub[u].synced > 0 /\ hub[u].synced \in Nat
      BY <1>0, <2>1, AtFirst, BaseRows, ARow
    <3> QED BY <3>1, AtFirst DEF Reached
  <2> QED BY <2>1, AtFirst DEF Coming, Kin
<1> QED BY <1>1, <1>2, AtFirst DEF Up, Down

LEMMA LossStutters ==
  ASSUME Up, Down, UNCHANGED vars
  PROVE  Up' /\ Down'
<1>1. /\ UNCHANGED <<world, till, hub, clock, edits>> /\ UNCHANGED <<hooks, queue, lock, push, missed>>
      /\ UNCHANGED <<saving, cursor, pull>>
  BY DEF vars, recordVars, pushVars, pullVars
<1>2. Up'
  BY <1>1 DEF Up, Calm, Own, Pushed, Trails, Under, Queued, Same, Sent, Taken, Sending, Batch
<1>3. Down'
  BY <1>1 DEF Down, Steady, Coming, Theirs, Reached, Outrun, Held, Current, Upto, Kin, Level, Revivable
<1> QED BY <1>2, <1>3

\* Nothing is lost on the way up: a row of the branch that carries a stamp is at the hub as it
\* is, whatever answers were lost, pushes died, locks expired or records were rejected, unless
\* the hook of its last save was lost while an older payload of it was queued; nor on the way
\* down: what the hub stamped up to the cursor the branch has, defers, or has outrun,
\* wherever a pull was cut and however its pages fell.
THEOREM NothingIsEverLost == Spec => []NothingIsLost
<1>1. Init => Base /\ Up /\ Down
  BY BaseAtFirst, LossAtFirst
<1>2. ASSUME Base, Up, Down, Next PROVE (Base /\ Up /\ Down)'
  <2>1. Base' /\ Step /\ \A u \in Records : TillMoves(u)
    BY <1>2, BaseStays
  <2> QED BY <1>2, <2>1, UpStays, DownStays
<1>3. ASSUME Base, Up, Down, UNCHANGED vars PROVE (Base /\ Up /\ Down)'
  BY <1>3, BaseStutters, LossStutters
<1>4. Base /\ Up /\ Down => NothingIsLost
  <2> SUFFICES ASSUME Base, Up, Down PROVE SyncedMeansPushed /\ CursorCovers
    BY DEF NothingIsLost
  <2>1. SyncedMeansPushed
    <3> SUFFICES ASSUME Calm, NEW u \in Records \ missed, Exists(till[u]),
                        till[u].branch = "branch", ~Same(u)
                 PROVE  till[u].synced = 0
      BY DEF SyncedMeansPushed, Covered, Calm
    <3>1. Own(u)
      BY BaseRows DEF Sound, Owned, Own
    <3> QED BY <3>1 DEF Up, Pushed
  <2>2. CursorCovers
    <3> SUFFICES ASSUME Steady, NEW u \in Records, Exists(hub[u]), hub[u].branch = "hub",
                        hub[u].synced <= cursor
                 PROVE  \/ till[u].version >= hub[u].version
                        \/ till[u].deleted /\ ~Revivable("branch", u)
                        \/ u \in DOMAIN pull.deferred
      BY DEF CursorCovers, Steady
    <3>1. Theirs(u) /\ hub[u].synced \in Nat
      BY BaseRows, ARow DEF Sound, Owned, Theirs
    <3>2. cursor <= Upto /\ Upto \in Nat /\ cursor \in Nat
      BY DEF Upto, Base, Pulling, TypeOK, PullTypeOK
    <3>3. Reached(u)
      BY <3>1 DEF Down, Coming
    <3>4. hub[u].synced <= Upto
      BY <3>1, <3>2
    <3> QED BY <3>3, <3>4 DEF Reached, Outrun, Held
  <2> QED BY <2>1, <2>2
<1> QED BY <1>1, <1>2, <1>3, <1>4, PTL DEF Spec
-----------------------------------------------------------------------------
(* The hub's records that only the hub writes.                             *)

Apart == "shared" \notin world
\* row is the same as the hub's, or an earlier one.
Faithful(row, hubs) ==
  /\ row.version <= hubs.version
  /\ row.version = hubs.version => Content(row) = Content(hubs)
  /\ row.deleted => hubs.deleted
Followed(u) ==
  /\ Exists(till[u]) => Faithful(till[u], hub[u])
  /\ u \in DOMAIN pull.page => Faithful(pull.page[u], hub[u])
  /\ u \in DOMAIN pull.deferred => Faithful(pull.deferred[u], hub[u])
  /\ ~Queued(u) /\ \A row : <<u, row>> \notin hooks
  /\ \A w \in Pushers : u \notin DOMAIN push[w].sent
Alone == Apart => \A u \in Records : Theirs(u) => Followed(u)

\* Nobody at the branch queues or sends the row.
LEMMA UnsentStays ==
  ASSUME Base, Step, Apart, NEW u \in Records, Theirs(u), Followed(u)
  PROVE  /\ ~Queued(u)' /\ \A row : <<u, row>> \notin hooks'
         /\ \A w \in Pushers : u \notin DOMAIN push'[w].sent
         /\ ~TillSaved(u) /\ \A w \in Pushers : ~Landed(w, u)
<1>0. ~TillSaved(u) /\ \A w \in Pushers : ~Landed(w, u)
  BY DEF Apart, TillSaved, Landed, Followed
<1>1. CASE \E x \in Records : TillSaved(x)
  <2> PICK x \in Records : TillSaved(x)
    BY <1>1
  <2>1. /\ queue'[u] = queue[u] /\ push' = push
        /\ hooks' = hooks \/ hooks' = hooks \cup {<<x, till'[x]>>}
        /\ x # u
    BY <1>0 DEF TillSaved
  <2> QED BY <1>0, <2>1 DEF Followed, Queued
<1>2. CASE \E x \in Records : \E row : Hooked(x, row)
  <2> PICK x \in Records : \E row : Hooked(x, row)
    BY <1>2
  <2>1. x # u
    BY DEF Hooked, Followed
  <2>2. queue'[u] = queue[u] /\ push' = push /\ hooks' \subseteq hooks
    BY <2>1 DEF Hooked
  <2> QED BY <1>0, <2>2 DEF Followed, Queued
<1>3. CASE Plods
  <2>1. GoesOn /\ Requeued /\ hooks' = hooks
    BY <1>3 DEF Plods, Kept
  <2>2. ~Queued(u)'
    BY <2>1, NoRowIsARow, BaseRows DEF Requeued, Followed, Queued, Sound, Owned, Theirs
  <2> QED BY <1>0, <2>1, <2>2 DEF GoesOn, Followed
<1>4. CASE \E w \in Pushers : ReadOff(w)
  <2> PICK w \in Pushers : ReadOff(w)
    BY <1>4
  <2>1. /\ queue' = queue /\ hooks' = hooks /\ \A v \in Pushers : v # w => push'[v] = push[v]
        /\ \A y \in DOMAIN push'[w].sent : Queued(y)
    BY DEF ReadOff
  <2> QED BY <1>0, <2>1 DEF Followed, Queued
<1>5. CASE Marked
  BY <1>0, <1>5 DEF Marked, GoesOn, Followed, Queued
<1>6. CASE Arriving
  <2> PICK w \in Pushers : Delivered(w)
    BY <1>6 DEF Arriving
  <2>1. queue' = queue /\ hooks' = hooks /\ \A v \in Pushers : push'[v].sent = push[v].sent
    BY DEF Delivered
  <2> QED BY <1>0, <2>1 DEF Followed, Queued
<1>7. CASE AtTheHub \/ Pulled
  <2>1. hooks' = hooks /\ queue' = queue /\ push' = push
    BY <1>7 DEF AtTheHub, Pulled, HubSaved, HubCommitted, PullStarted, PageRead, Responded,
                PageApplied, Advanced, Retried, Stopped, PullEnded, OnlyPulls, pushVars
  <2> QED BY <1>0, <2>1 DEF Followed, Queued
<1> QED BY <1>1, <1>2, <1>3, <1>4, <1>5, <1>6, <1>7 DEF Step, AtTheTill

LEMMA FollowedStays ==
  ASSUME Base, Base', Step, Apart, NEW u \in Records, Theirs(u), Followed(u),
         TillMoves(u), HubMoves(u)
  PROVE  Followed(u)'
<1>0. /\ ~Queued(u)' /\ \A row : <<u, row>> \notin hooks'
      /\ \A w \in Pushers : u \notin DOMAIN push'[w].sent
      /\ ~TillSaved(u) /\ \A w \in Pushers : ~Landed(w, u)
  BY UnsentStays
<1>1. Sound(u) /\ till[u] \in Row /\ till'[u] \in Row /\ hub[u] \in Row /\ hub'[u] \in Row /\ saving[u] \in Row
  BY BaseRows DEF Base, TypeOK
<1>2. Grown(u) /\ Moved(u) /\ PageOf(u)
  BY RowMoves, PageIs
<1>3. hub'[u] = hub[u] \/ hub'[u].version > hub[u].version
  <2>1. (\E new : HubSaved(u, new) /\ hub'[u] = new) => hub'[u].version > hub[u].version
    BY <1>1, ARow DEF HubSaved
  <2>2. HubCommitted(u) => hub'[u].version > hub[u].version
    BY <1>1 DEF HubCommitted, Sound, Follows
  <2>3. (hub' = hub \/ hub'[u] = hub[u]) => hub'[u] = hub[u]
    OBVIOUS
  <2> QED BY <1>0, <1>2, <2>1, <2>2, <2>3 DEF Moved
<1>4. ASSUME NEW row \in Row, NEW old \in Row, Faithful(old, hub[u]), Content(row) = Content(old)
      PROVE  Faithful(row, hub'[u])
  <2>1. row.version = old.version /\ row.deleted = old.deleted
    BY <1>4, ContentIs
  <2>2. CASE hub'[u] = hub[u]
    BY <1>4, <2>1, <2>2 DEF Faithful
  <2>3. CASE hub'[u].version > hub[u].version
    BY <1>1, <1>4, <2>1, <2>3, ARow DEF Faithful, HubMoves
  <2> QED BY <1>3, <2>2, <2>3
<1>5. Faithful(hub[u], hub[u])
  BY <1>1, ARow DEF Faithful
<1>6. Exists(till'[u]) => Faithful(till'[u], hub'[u])
  <2>1. CASE till'[u] = till[u]
    BY <1>1, <1>4, <2>1 DEF Followed
  <2>2. CASE Marked
    <3>1. Content(till'[u]) = Content(till[u]) /\ (Exists(till'[u]) => Exists(till[u]))
      BY <1>1, <2>2, ContentIs DEF Marked
    <3> QED BY <1>1, <1>4, <3>1 DEF Followed
  <2>3. ASSUME NEW rows \in {pull.page, pull.deferred}, Takes(rows, till', u),
               till'[u] = Merged("branch", u, till[u], rows[u], 1)
        PROVE  Faithful(till'[u], hub'[u])
    <3>1. /\ rows[u] \in Row /\ till'[u].version = rows[u].version /\ till'[u].val = rows[u].val
          /\ till'[u].deleted = rows[u].deleted /\ till'[u].price = rows[u].price
      BY <2>3, TakenInIs
    <3>2. Content(till'[u]) = Content(rows[u])
      BY <1>1, <3>1, ContentIs
    <3>3. Faithful(rows[u], hub[u])
      BY <2>3 DEF Takes, Followed
    <3> QED BY <1>1, <1>4, <3>1, <3>2, <3>3
  <2> QED BY <1>0, <1>2, <2>1, <2>2, <2>3 DEF Grown
<1>7. u \in DOMAIN pull'.page => Faithful(pull'.page[u], hub'[u])
  <2>1. \A row \in Row : Faithful(row, hub[u]) => Faithful(row, hub'[u])
    BY <1>4
  <2> QED BY <1>1, <1>2, <1>5, <2>1, BaseRows DEF PageOf, Followed
<1>8. u \in DOMAIN pull'.deferred => Faithful(pull'.deferred[u], hub'[u])
  <2>1. \A row \in Row : Faithful(row, hub[u]) => Faithful(row, hub'[u])
    BY <1>4
  <2> QED BY <1>1, <1>2, <2>1, BaseRows DEF PageOf, Followed
<1> QED BY <1>0, <1>6, <1>7, <1>8 DEF Followed

LEMMA AloneStays ==
  ASSUME Base, Base', Step, \A u \in Records : TillMoves(u) /\ HubMoves(u), Alone
  PROVE  Alone'
  BY WorldStays, FollowedStays DEF Alone, Apart, Theirs
-----------------------------------------------------------------------------
(* The hub's records that both sides write.                                *)

Shared == "shared" \in world /\ Calm /\ Steady /\ ~Forgets
\* The hub deleted the row, or the branch did for good.
Lost(u) == hub[u].deleted \/ (till[u].deleted /\ ~Revivable("branch", u))
\* The branch has yet to take the hub's row in.
Due(u) == hub[u].synced > Upto \/ Held(u)
Joint(u) == Due(u) \/ Content(till[u]) = Content(hub[u]) \/ Lost(u)
\* The branch has yet to bring its row to the hub.
Pending(u) == Queued(u) /\ \A w \in Pushers : ~Taken(w, u)
Edited(u) ==
  /\ Pending(u)
  /\ Content(queue[u].row) = Content(till[u])
  /\ \A w \in Pushers : Sent(w, u) => Content(push[w].sent[u]) = Content(till[u])
Merging(u) ==
  /\ till[u].version > hub[u].version => Edited(u) \/ Lost(u)
  /\ Joint(u) \/ Pending(u)
  /\ Queued(u) /\ queue[u].row.version < till[u].version => Joint(u)
  /\ \A w \in Pushers : /\ Sent(w, u) /\ push[w].sent[u].version < till[u].version => Joint(u)
                        /\ Taken(w, u) => Joint(u)
\* What is queued and sent is no later than the row.
Behind(u) ==
  /\ Queued(u) => queue[u].row.version <= till[u].version
  /\ \A w \in Pushers : u \in DOMAIN push[w].sent => push[w].sent[u].version <= till[u].version
\* A row that waits for its parent was not yet at the branch, and is not mistaken for what
\* either side wrote later.
Matches(row, old) == row.version = old.version => Content(row) = Content(old)
Waiting(u) ==
  /\ u \in DOMAIN pull.page /\ ~Exists(till[u]) => Matches(hub[u], pull.page[u])
  /\ u \in DOMAIN pull.deferred =>
       /\ Matches(hub[u], pull.deferred[u])
       /\ Exists(till[u]) => till[u].version >= pull.deferred[u].version
       /\ u \in DOMAIN pull.page => pull.page[u].version >= pull.deferred[u].version
       /\ Queued(u) => queue[u].row.version > pull.deferred[u].version
       /\ \A w \in Pushers : u \in DOMAIN push[w].sent =>
            push[w].sent[u].version > pull.deferred[u].version
Both ==
  Shared => \A u \in Records : Theirs(u) =>
              Behind(u) /\ Waiting(u) /\ (Exists(hub[u]) => Merging(u))

\* Of a record of the hub, users queue what they saved, and a push sends what is queued.
Resent(u) ==
  /\ queue'[u].row \in {queue[u].row, NoRow}
  /\ \A w \in Pushers : u \in DOMAIN push'[w].sent =>
       \/ u \in DOMAIN push[w].sent /\ push'[w].sent[u] = push[w].sent[u]
       \/ Queued(u) /\ push'[w].sent[u] = queue[u].row
Saves(u) == TillSaved(u) /\ queue'[u].row = till'[u] /\ push' = push /\ ~Reading
LEMMA QueueMoves ==
  ASSUME Base, Step, Shared, hooks = {}, NEW u \in Records, Theirs(u)
  PROVE  Saves(u) \/ Resent(u)
<1>1. CASE \E x \in Records : TillSaved(x)
  <2> PICK x \in Records : TillSaved(x)
    BY <1>1
  <2>1. push' = push /\ ~Reading /\ queue'[x].row = till'[x] /\ \A y \in Records \ {x} : queue'[y] = queue[y]
    BY DEF TillSaved, Shared, Calm, Forgets
  <2> QED BY <2>1 DEF Saves, Resent
<1>2. ~ \E x \in Records : \E row : Hooked(x, row)
  BY DEF Hooked
<1>3. CASE Plods
  <2>1. GoesOn /\ Requeued
    BY <1>3 DEF Plods
  <2> QED BY <2>1, BaseRows DEF Requeued, GoesOn, Resent, Sound, Owned, Theirs
<1>4. CASE \E w \in Pushers : ReadOff(w)
  <2> PICK w \in Pushers : ReadOff(w)
    BY <1>4
  <2>1. /\ queue' = queue /\ \A v \in Pushers : v # w => push'[v] = push[v]
        /\ \A y \in DOMAIN push'[w].sent : Queued(y) /\ push'[w].sent[y] = queue[y].row
    BY DEF ReadOff
  <2> QED BY <2>1 DEF Resent
<1>5. CASE Marked
  BY <1>5 DEF Marked, GoesOn, Resent
<1>6. CASE Arriving
  BY <1>6 DEF Arriving, Delivered, Resent
<1>7. CASE AtTheHub \/ Pulled
  <2>1. queue' = queue /\ push' = push
    BY <1>7 DEF AtTheHub, Pulled, HubSaved, HubCommitted, PullStarted, PageRead, Responded,
                PageApplied, Advanced, Retried, Stopped, PullEnded, OnlyPulls, pushVars
  <2> QED BY <2>1 DEF Resent
<1> QED BY <1>1, <1>2, <1>3, <1>4, <1>5, <1>6, <1>7 DEF Step, AtTheTill

\* A version that what is queued and sent is under, or over, it stays under, or over.
LEMMA BehindStays ==
  ASSUME Base, Base', Step, Shared, hooks = {}, NEW u \in Records, Theirs(u), TillMoves(u), Behind(u)
  PROVE  Behind(u)'
<1>1. till[u] \in Row /\ till'[u] \in Row /\ queue[u].row \in Row /\ queue'[u].row \in Row
  BY DEF Base, TypeOK, PushTypeOK
<1>2. /\ \A w \in Pushers : u \in DOMAIN push[w].sent => push[w].sent[u] \in Row
      /\ till'[u].version >= till[u].version
  BY BaseRows DEF TillMoves
<1>3. CASE Saves(u)
  BY <1>1, <1>2, <1>3, ARow DEF Saves, Behind
<1>4. CASE Resent(u)
  BY <1>1, <1>2, <1>4, NoRowIsARow, ARow DEF Resent, Behind, Queued
<1> QED BY <1>3, <1>4, QueueMoves

LEMMA WaitingStays ==
  ASSUME Base, Base', Step, Shared, hooks = {}, NEW u \in Records, Theirs(u), TillMoves(u), HubMoves(u),
         \A x \in Records : ~Exists(saving[x]), Behind(u), Waiting(u)
  PROVE  Waiting(u)'
<1>1. /\ till[u] \in Row /\ till'[u] \in Row /\ queue[u].row \in Row /\ queue'[u].row \in Row
      /\ hub[u] \in Row /\ hub'[u] \in Row /\ Sound(u) /\ Sound(u)'
  BY BaseRows DEF Base, TypeOK, PushTypeOK
<1>2. /\ \A w \in Pushers : u \in DOMAIN push[w].sent => push[w].sent[u] \in Row
      /\ u \in DOMAIN pull.page => pull.page[u] \in Row /\ Copy(u, pull.page[u])
      /\ u \in DOMAIN pull.deferred => pull.deferred[u] \in Row /\ Copy(u, pull.deferred[u])
      /\ till'[u].version >= till[u].version /\ (Exists(till[u]) => Exists(till'[u]))
  BY BaseRows DEF TillMoves, Sound, Copied
<1>3. CASE AtTheTill \/ Arriving \/ AtTheHub
  <2>1. pull' = pull
    BY <1>3 DEF AtTheTill, Arriving, AtTheHub, TillSaved, Hooked, Plods, Kept, ReadOff, Marked,
                Delivered, HubSaved, HubCommitted, pullVars
  <2>2. Exists(till'[u]) => Exists(till[u])
    <3>1. CASE \E x \in Records : TillSaved(x)
      <4> PICK x \in Records : TillSaved(x)
        BY <3>1
      <4>1. x = u => Exists(till[u])
        BY DEF TillSaved, Own, Theirs
      <4> QED BY <4>1 DEF TillSaved
    <3>2. CASE Marked
      BY <3>2 DEF Marked, Exists
    <3>3. CASE (\E x \in Records : \E row : Hooked(x, row)) \/ Plods \/ (\E w \in Pushers : ReadOff(w))
               \/ Arriving \/ AtTheHub
      <4>1. till' = till
        BY <3>3 DEF Arriving, AtTheHub, Hooked, Plods, Kept, ReadOff, Delivered, HubSaved, HubCommitted
      <4> QED BY <4>1
    <3> QED BY <1>3, <3>1, <3>2, <3>3 DEF AtTheTill
  <2>3. \/ hub'[u] = hub[u]
        \/ hub'[u].version = hub[u].version + 1
        \/ \E w \in Pushers : u \in DOMAIN push[w].sent /\ hub'[u].version = push[w].sent[u].version
    <3>1. Moved(u) /\ ~Exists(saving[u])
      BY RowMoves
    <3>2. ASSUME NEW w \in Pushers, Delivered(w), Landed(w, u)
          PROVE  u \in DOMAIN push[w].sent /\ hub'[u].version = push[w].sent[u].version
      BY <3>2, LandedIs DEF Landed
    <3> QED BY <3>1, <3>2 DEF Moved, HubSaved, HubCommitted
  <2>4. u \in DOMAIN pull.page /\ ~Exists(till'[u]) => Matches(hub'[u], pull.page[u])
    <3> SUFFICES ASSUME u \in DOMAIN pull.page, ~Exists(till'[u])
                 PROVE  Matches(hub'[u], pull.page[u])
      OBVIOUS
    <3>1. \A w \in Pushers : u \notin DOMAIN push[w].sent
      BY <1>1, <1>2 DEF Sound, Known
    <3>2. Matches(hub[u], pull.page[u]) /\ pull.page[u].version <= hub[u].version
      BY <1>2 DEF Waiting, Copy
    <3> QED BY <1>1, <1>2, <2>3, <3>1, <3>2, ARow DEF Matches
  <2>5. ASSUME u \in DOMAIN pull.deferred
        PROVE  /\ Matches(hub'[u], pull.deferred[u])
               /\ Exists(till'[u]) => till'[u].version >= pull.deferred[u].version
               /\ u \in DOMAIN pull.page => pull.page[u].version >= pull.deferred[u].version
               /\ Queued(u)' => queue'[u].row.version > pull.deferred[u].version
               /\ \A w \in Pushers : u \in DOMAIN push'[w].sent =>
                    push'[w].sent[u].version > pull.deferred[u].version
    <3> DEFINE old == pull.deferred[u]
    <3>1. /\ Matches(hub[u], old) /\ old.version <= hub[u].version /\ old \in Row
          /\ Exists(till[u]) => till[u].version >= old.version
          /\ u \in DOMAIN pull.page => pull.page[u].version >= old.version
          /\ Queued(u) => queue[u].row.version > old.version
          /\ \A w \in Pushers : u \in DOMAIN push[w].sent => push[w].sent[u].version > old.version
      BY <1>2, <2>5 DEF Waiting, Copy
    <3> HIDE DEF old
    <3>2. Matches(hub'[u], old)
      BY <1>1, <1>2, <2>3, <3>1, ARow DEF Matches
    <3>3. Exists(till'[u]) => till'[u].version >= old.version
      BY <1>1, <1>2, <2>2, <3>1, ARow
    <3>4. CASE Saves(u)
      <4>1. /\ queue'[u].row = till'[u] /\ till'[u].version = till[u].version + 1 /\ push' = push
            /\ Exists(till[u])
        BY <3>4 DEF Saves, TillSaved, Own, Theirs
      <4>2. queue'[u].row.version > old.version
        BY <1>1, <3>1, <4>1, ARow
      <4> QED BY <3>1, <3>2, <3>3, <4>1, <4>2 DEF old
    <3>5. CASE Resent(u)
      <4>1. Queued(u)' => queue'[u].row.version > old.version
        BY <3>1, <3>5, NoRowIsARow DEF Resent, Queued
      <4>2. \A w \in Pushers : u \in DOMAIN push'[w].sent => push'[w].sent[u].version > old.version
        BY <3>1, <3>5 DEF Resent
      <4> QED BY <3>1, <3>2, <3>3, <4>1, <4>2 DEF old
    <3> QED BY <3>4, <3>5, QueueMoves
  <2> QED BY <2>1, <2>4, <2>5 DEF Waiting
<1>4. CASE Pulled
  <2>0. hub' = hub /\ queue' = queue /\ push' = push
    BY <1>4 DEF Pulled, PullStarted, PageRead, Responded, PageApplied, Advanced, Retried, Stopped,
                PullEnded, OnlyPulls, pushVars
  <2>1. CASE PullStarted \/ Retried \/ Stopped
    <3>1. DOMAIN pull'.page = {} /\ DOMAIN pull'.deferred = {}
      BY <2>1 DEF PullStarted, Retried, Stopped, PullEnded
    <3> QED BY <3>1 DEF Waiting
  <2>2. CASE \E us : PageRead(us)
    <3>1. till' = till /\ pull'.deferred = pull.deferred
      BY <2>2 DEF PageRead
    <3>2. u \in DOMAIN pull'.page =>
            (u \in DOMAIN pull.page /\ pull'.page[u] = pull.page[u]) \/ pull'.page[u] = hub[u]
      BY PageIs DEF PageOf
    <3>3. u \in DOMAIN pull.deferred => hub[u].version >= pull.deferred[u].version
      BY <1>1, <1>2, ARow DEF Copy
    <3> QED BY <2>0, <3>1, <3>2, <3>3 DEF Waiting, Matches, Queued
  <2>3. CASE Responded \/ Advanced
    <3>1. till' = till /\ pull'.deferred = pull.deferred /\ pull'.page = pull.page
      BY <2>3 DEF Responded, Advanced
    <3> QED BY <2>0, <3>1 DEF Waiting, Queued
  <2>4. CASE PageApplied
    <3>1. /\ TookIn(pull.page) /\ DOMAIN pull'.page = {}
      BY <2>4 DEF PageApplied
    <3>2. CASE u \in DOMAIN pull'.deferred /\ u \in DOMAIN pull.deferred
               /\ pull'.deferred[u] = pull.deferred[u]
      <4>1. Exists(till'[u]) => till'[u].version >= pull.deferred[u].version
        <5>1. CASE Takes(pull.page, till', u)
          <6>1. till'[u].version = pull.page[u].version /\ u \in DOMAIN pull.page
            BY <3>1, <5>1, TakenInIs DEF TookIn, Takes
          <6> QED BY <3>2, <6>1 DEF Waiting
        <5>2. CASE ~Takes(pull.page, till', u)
          BY <3>1, <3>2, <5>2 DEF Waiting, TookIn
        <5> QED BY <5>1, <5>2
      <4> QED BY <2>0, <3>1, <3>2, <4>1 DEF Waiting, Queued
    <3>3. CASE u \in DOMAIN pull'.deferred /\ u \in DOMAIN pull.page
               /\ Missing(till', u) /\ pull'.deferred[u] = pull.page[u]
      <4>1. ~Exists(till'[u]) /\ ~Exists(till[u])
        BY <1>1, <1>2, <3>3 DEF Sound, Rooted, Missing
      <4>2. ~Queued(u) /\ \A w \in Pushers : u \notin DOMAIN push[w].sent
        BY <1>1, <4>1 DEF Sound, Known
      <4> QED BY <2>0, <3>1, <3>3, <4>1, <4>2 DEF Waiting, Queued
    <3> QED BY <3>1, <3>2, <3>3, PageIs DEF PageOf, Waiting
  <2> QED BY <1>4, <2>1, <2>2, <2>3, <2>4 DEF Pulled
<1> QED BY <1>3, <1>4 DEF Step

LEMMA LostStays ==
  ASSUME Step, NEW u \in Records, TillMoves(u), HubMoves(u), Lost(u)
  PROVE  Lost(u)'
<1>1. world' = world
  BY WorldStays
<1> QED BY <1>1 DEF Lost, TillMoves, HubMoves, Revivable

\* A row both sides will have is merging, unless the branch is ahead with nothing queued.
LEMMA JointIsMerging ==
  ASSUME NEW u \in Records, Joint(u)', till'[u].version > hub'[u].version => Edited(u)' \/ Lost(u)'
  PROVE  Merging(u)'
  BY DEF Merging
LEMMA EditedIsMerging ==
  ASSUME Base', NEW u \in Records, Edited(u)'
  PROVE  Merging(u)'
<1>1. /\ till'[u] \in Row /\ queue'[u].row \in Row
      /\ \A w \in Pushers : u \in DOMAIN push'[w].sent => push'[w].sent[u] \in Row
  BY RowsAre DEF Base, TypeOK, PushTypeOK, Push
<1>2. queue'[u].row.version = till'[u].version
  BY <1>1, ContentIs DEF Edited
<1>3. \A w \in Pushers : Sent(w, u)' => push'[w].sent[u].version = till'[u].version
  BY <1>1, ContentIs DEF Edited, Sent
<1> QED BY <1>1, <1>2, <1>3, ARow DEF Edited, Pending, Merging

\* Pushes and the queue that have nothing new of u.
Rests(u) ==
  /\ queue'[u].row = queue[u].row
  /\ \A w \in Pushers : /\ Sent(w, u)' => Sent(w, u) /\ push'[w].sent[u] = push[w].sent[u]
                        /\ Taken(w, u)' => Taken(w, u)
LEMMA EditedRests ==
  ASSUME NEW u \in Records, Rests(u), Content(till'[u]) = Content(till[u])
  PROVE  (Pending(u) => Pending(u)') /\ (Edited(u) => Edited(u)')
<1>1. Pending(u) => Pending(u)'
  BY DEF Rests, Pending, Queued
<1> QED BY <1>1 DEF Rests, Edited
LEMMA MergingRests ==
  ASSUME Base, Base', Step, NEW u \in Records, TillMoves(u), HubMoves(u), Merging(u), Rests(u),
         Content(till'[u]) = Content(till[u]), hub'[u] = hub[u], Due(u) => Joint(u)'
  PROVE  Merging(u)'
<1>1. till[u] \in Row /\ till'[u] \in Row
  BY DEF Base, TypeOK
<1>2. till'[u].version = till[u].version
  BY <1>1, ContentIs
<1>3. Joint(u) => Joint(u)'
  <2>1. Lost(u) => Lost(u)'
    BY LostStays
  <2> QED BY <2>1 DEF Joint
<1>4. (Pending(u) => Pending(u)') /\ (Edited(u) => Edited(u)') /\ (Lost(u) => Lost(u)')
  BY EditedRests, LostStays
<1> QED BY <1>2, <1>3, <1>4 DEF Merging, Rests, Queued

LEMMA MergingAtTheTill ==
  ASSUME Base, Base', Step, Shared, hooks = {}, AtTheTill, NEW u \in Records, Theirs(u),
         TillMoves(u), HubMoves(u), Merging(u)
  PROVE  Merging(u)'
<1>1. hub' = hub /\ pull' = pull /\ cursor' = cursor /\ world' = world
  BY WorldStays DEF AtTheTill, TillSaved, Hooked, Plods, Kept, ReadOff, Marked, pullVars
<1>2. Due(u) => Joint(u)'
  BY <1>1 DEF Due, Upto, Held, Joint
<1>3. till[u] \in Row /\ till'[u] \in Row
  BY DEF Base, TypeOK
<1>4. CASE \E x \in Records : TillSaved(x)
  <2> PICK x \in Records : TillSaved(x)
    BY <1>4
  <2>1. /\ push' = push /\ ~Reading /\ queue'[x].row = till'[x]
        /\ \A y \in Records \ {x} : queue'[y] = queue[y] /\ till'[y] = till[y]
        /\ till'[x].version = till[x].version + 1
    BY DEF TillSaved, Shared, Calm, Forgets
  <2>2. CASE x = u
    <3>1. Queued(u)'
      BY <1>3, <2>1, <2>2, ARow DEF Queued, Exists
    <3>2. \A w \in Pushers : ~Sending(w)'
      BY <2>1 DEF Sending, Reading
    <3>3. Edited(u)'
      BY <2>1, <2>2, <3>1, <3>2 DEF Edited, Pending, Taken, Sent
    <3> QED BY <3>3, EditedIsMerging
  <2>3. CASE x # u
    <3>1. Rests(u)
      BY <2>1, <2>3 DEF Rests, Sent, Taken, Sending, Batch
    <3> QED BY <1>1, <1>2, <2>1, <2>3, <3>1, MergingRests
  <2> QED BY <2>2, <2>3
<1>5. ~ \E x \in Records : \E row : Hooked(x, row)
  BY DEF Hooked
<1>6. CASE Plods
  <2>1. GoesOn /\ Requeued /\ till' = till
    BY <1>6 DEF Plods, Kept
  <2>2. CASE queue'[u].row = queue[u].row
    <3>1. Rests(u)
      BY <2>1, <2>2 DEF Rests, GoesOn, Sent
    <3> QED BY <1>1, <1>2, <2>1, <3>1, MergingRests
  <2>3. CASE queue'[u].row = NoRow /\ \E w \in Pushers : Taken(w, u)
    <3>1. Joint(u) /\ ~Edited(u)
      BY <2>3 DEF Merging, Edited, Pending
    <3>2. Joint(u)' /\ (Lost(u) => Lost(u)')
      BY <1>1, <1>2, <2>1, <3>1 DEF Joint, Lost, Revivable
    <3>3. till'[u].version > hub'[u].version => Lost(u)'
      BY <1>1, <2>1, <3>1, <3>2 DEF Merging
    <3> QED BY <3>2, <3>3, JointIsMerging
  <2>4. "cleared" \notin world /\ ~(Exists(till[u]) /\ till[u].branch = "branch")
    BY BaseRows DEF Shared, Forgets, Sound, Owned, Theirs
  <2> QED BY <2>1, <2>2, <2>3, <2>4 DEF Requeued
<1>7. CASE \E w \in Pushers : ReadOff(w)
  <2> PICK w \in Pushers : ReadOff(w)
    BY <1>7
  <2>1. /\ till' = till /\ queue' = queue /\ \A v \in Pushers : v # w => push'[v] = push[v]
        /\ \A y \in DOMAIN push'[w].sent : Queued(y) /\ push'[w].sent[y] = queue[y].row
        /\ push[w].pc = "read" /\ push'[w].confirmed = push[w].confirmed /\ push'[w].pc # "answer"
    BY DEF ReadOff
  <2>2. push[w].confirmed = {}
    BY <2>1 DEF Base, Pushing
  <2>3. ~Taken(w, u)'
    BY <2>1, <2>2 DEF Taken
  <2>4. ASSUME NEW v \in Pushers, v # w
        PROVE  /\ Taken(v, u)' <=> Taken(v, u)
               /\ Sent(v, u)' => Sent(v, u) /\ push'[v].sent[u] = push[v].sent[u]
    <3>1. push'[v] = push[v]
      BY <2>1, <2>4
    <3> QED BY <3>1 DEF Taken, Sent, Sending, Batch
  <2>5. Sent(w, u)' => Queued(u) /\ push'[w].sent[u] = queue[u].row
    BY <2>1 DEF Sent
  <2>6. Pending(u) => Pending(u)'
    BY <2>1, <2>3, <2>4 DEF Pending, Queued
  <2>7. Edited(u) => Edited(u)'
    BY <2>1, <2>4, <2>5, <2>6 DEF Edited
  <2>8. (Joint(u) => Joint(u)') /\ (Lost(u) => Lost(u)')
    BY <1>1, <1>2, <2>1 DEF Joint, Lost, Revivable
  <2>9. \A v \in Pushers : /\ Sent(v, u)' /\ push'[v].sent[u].version < till'[u].version => Joint(u)'
                           /\ Taken(v, u)' => Joint(u)'
    BY <2>1, <2>3, <2>4, <2>5, <2>8 DEF Merging
  <2> QED BY <1>1, <2>1, <2>6, <2>7, <2>8, <2>9 DEF Merging, Queued
<1>8. CASE Marked
  <2>1. Rests(u)
    BY <1>8 DEF Marked, GoesOn, Rests, Sent
  <2>2. Content(till'[u]) = Content(till[u])
    BY <1>3, <1>8, ContentIs DEF Marked
  <2> QED BY <1>1, <1>2, <2>1, <2>2, MergingRests
<1> QED BY <1>4, <1>5, <1>6, <1>7, <1>8 DEF AtTheTill

LEMMA MergingArriving ==
  ASSUME Base, Base', Step, Shared, Down, Arriving, NEW u \in Records, Theirs(u), Exists(hub[u]),
         TillMoves(u), HubMoves(u), Behind(u), Merging(u)
  PROVE  Merging(u)'
<1> PICK w \in Pushers : Delivered(w)
  BY DEF Arriving
<1>1. /\ till' = till /\ queue' = queue /\ pull' = pull /\ cursor' = cursor /\ world' = world
      /\ \A v \in Pushers : v # w => push'[v] = push[v]
      /\ \A v \in Pushers : push'[v].sent = push[v].sent /\ (Sending(v)' => Sending(v))
  BY DEF Delivered, pullVars
<1>2. /\ Sending(w) /\ (hub'[u] = hub[u] \/ Landed(w, u)) /\ (Taken(w, u)' => Taken(w, u) \/ Passed(w, u))
  BY DEF Delivered
<1>3. /\ till[u] \in Row /\ hub[u] \in Row /\ hub'[u] \in Row /\ Sound(u) /\ clock \in Nat
      /\ u \in DOMAIN push[w].sent => push[w].sent[u] \in Row
      /\ hub[u].branch = "hub"
  BY BaseRows DEF Base, TypeOK, Sound, Owned, Theirs
<1>4. \A v \in Pushers : Sent(v, u)' => Sent(v, u) /\ push'[v].sent[u] = push[v].sent[u]
  BY <1>1 DEF Sent
<1>5. \A v \in Pushers : Taken(v, u)' => Taken(v, u) \/ (v = w /\ Passed(w, u))
  BY <1>1, <1>2 DEF Taken, Sending, Batch
<1>6. Lost(u) => Lost(u)'
  BY LostStays
<1>7. u \in DOMAIN push[w].sent /\ push[w].sent[u].version < till[u].version => ~Edited(u)
  <2> SUFFICES ASSUME u \in DOMAIN push[w].sent, Edited(u)
               PROVE  push[w].sent[u].version = till[u].version
    BY <1>3, ARow
  <2>1. Content(push[w].sent[u]) = Content(till[u])
    BY <1>2 DEF Edited, Sent
  <2> QED BY <1>3, <2>1, ContentIs
<1>8. CASE Landed(w, u)
  <2> DEFINE sent == push[w].sent[u]
  <2>1. /\ hub'[u].synced = clock + 1 /\ hub'[u].version = sent.version /\ sent \in Row
        /\ Accepts("hub", u, hub[u], sent) /\ u \in DOMAIN push[w].sent
    BY <1>3, <1>8, LandedIs DEF Landed
  <2>2. Upto \in 0 .. clock
    BY DEF Base, TypeOK, PullTypeOK, Upto
  <2>3. Joint(u)'
    BY <1>1, <1>3, <2>1, <2>2 DEF Joint, Due, Upto
  <2>4. till'[u].version > hub'[u].version => Lost(u)'
    <3> SUFFICES ASSUME till[u].version > sent.version PROVE Lost(u)
      BY <1>1, <1>6, <2>1
    <3>1. ~Edited(u)
      BY <1>3, <1>7, <2>1, ARow
    <3>2. sent.version >= hub[u].version
      BY <1>3, <2>1, ARow DEF Accepts, ShouldReplace
    <3> HIDE DEF sent
    <3>3. till[u].version > hub[u].version
      BY <1>3, <2>1, <3>2, ARow
    <3> QED BY <3>1, <3>3 DEF Merging
  <2> QED BY <2>3, <2>4, JointIsMerging
<1>9. CASE ~Landed(w, u)
  <2>1. hub'[u] = hub[u]
    BY <1>2, <1>9
  <2>2. Due(u) => Joint(u)'
    BY <1>1, <2>1 DEF Due, Upto, Held, Joint
  <2>3. CASE Passed(w, u)
    <3> DEFINE sent == push[w].sent[u]
    <3>1. u \in DOMAIN push[w].sent /\ sent \in Row /\ ~Accepts("hub", u, hub[u], sent)
      BY <1>3, <1>9, <2>3 DEF Passed, Missing, Sound, Rooted
    <3>2. sent.version < hub[u].version \/ Lost(u)
      BY <1>3, <3>1, ARow DEF Accepts, ShouldReplace, Lost
    <3>3. sent.version <= till[u].version
      BY <3>1 DEF Behind
    <3>4. Sent(w, u)
      BY <1>2, <3>1 DEF Sent
    <3>5. Joint(u)
      <4>1. CASE sent.version < till[u].version
        BY <3>4, <4>1 DEF Merging
      <4>2. CASE sent.version = till[u].version /\ ~Lost(u)
        <5> HIDE DEF sent
        <5>1. ~(till[u].version >= hub[u].version)
          BY <1>3, <3>1, <3>2, <4>2, ARow
        <5>2. Reached(u)
          BY DEF Down, Shared, Coming
        <5>3. hub[u].synced <= Upto => Held(u)
          BY <4>2, <5>1, <5>2 DEF Reached, Outrun, Lost
        <5>4. Upto \in Nat /\ hub[u].synced \in Nat
          BY <1>3, ARow DEF Base, TypeOK, PullTypeOK, Upto
        <5> QED BY <5>3, <5>4 DEF Joint, Due
      <4>3. CASE Lost(u)
        BY <4>3 DEF Joint
      <4> HIDE DEF sent
      <4> QED BY <1>3, <3>1, <3>3, <4>1, <4>2, <4>3, ARow
    <3>6. till[u].version > hub[u].version => Lost(u)
      <4> SUFFICES ASSUME till[u].version > hub[u].version, ~Lost(u) PROVE FALSE
        OBVIOUS
      <4>1. Edited(u)
        BY DEF Merging
      <4>2. sent.version < till[u].version
        BY <1>3, <3>1, <3>2, ARow
      <4> QED BY <1>7, <3>1, <4>1, <4>2
    <3>7. Joint(u)'
      BY <1>1, <1>6, <2>1, <2>2, <3>5 DEF Joint
    <3> QED BY <1>1, <1>6, <2>1, <3>6, <3>7, JointIsMerging
  <2>4. CASE ~Passed(w, u)
    <3>1. Rests(u)
      BY <1>1, <1>4, <1>5, <2>4 DEF Rests
    <3> QED BY <1>1, <2>1, <2>2, <3>1, MergingRests
  <2> QED BY <2>3, <2>4
<1> QED BY <1>8, <1>9

LEMMA MergingAtTheHub ==
  ASSUME Base, Base', Step, Shared, Down, AtTheHub, NEW u \in Records, Theirs(u), Exists(hub'[u]),
         TillMoves(u), HubMoves(u), Exists(hub[u]) => Merging(u)
  PROVE  Merging(u)'
<1>1. till' = till /\ queue' = queue /\ push' = push /\ pull' = pull /\ cursor' = cursor
  BY DEF AtTheHub, HubSaved, HubCommitted, pushVars
<1>2. /\ till[u] \in Row /\ hub[u] \in Row /\ hub'[u] \in Row /\ Sound(u)
      /\ clock \in Nat /\ Upto \in 0 .. clock
  BY BaseRows DEF Base, TypeOK, PullTypeOK, Upto
<1>3. Rests(u)
  BY <1>1 DEF Rests, Sent, Taken, Sending, Batch
<1>4. CASE hub'[u] = hub[u]
  <2>1. Due(u) => Joint(u)'
    BY <1>1, <1>4 DEF Due, Upto, Held, Joint
  <2> QED BY <1>1, <1>3, <1>4, <2>1, MergingRests
<1>5. CASE Restamped(u)
  <2>1. Joint(u)'
    BY <1>1, <1>2, <1>5, ARow DEF Joint, Due, Upto, Restamped
  <2>2. till[u].version > hub'[u].version => till[u].version > hub[u].version /\ Exists(hub[u])
    BY <1>2, ARow DEF HubMoves, Sound, Owned, Theirs, Exists
  <2>3. till'[u].version > hub'[u].version => Edited(u)' \/ Lost(u)'
    BY <1>1, <1>3, <2>2, EditedRests, LostStays DEF Merging
  <2> QED BY <2>1, <2>3, JointIsMerging
<1> QED BY <1>4, <1>5, HubStamps DEF Down, Shared, Coming

\* What taking rows in makes of u: if both sides will have it, or if the row is the hub's.
LEMMA MergingTakenIn ==
  ASSUME Base, Base', Step, NEW u \in Records, Theirs(u), TillMoves(u), HubMoves(u), Merging(u),
         Rests(u), hub' = hub, NEW rows \in {pull.page, pull.deferred}, TookIn(rows), u \in DOMAIN rows,
         Joint(u)' \/ (Content(rows[u]) = Content(hub[u]) /\ ~Missing(till', u))
  PROVE  Merging(u)'
<1>1. /\ till[u] \in Row /\ till'[u] \in Row /\ hub[u] \in Row /\ rows[u] \in Row
      /\ Copy(u, rows[u]) /\ Sound(u)
  BY BaseRows DEF Base, TypeOK, Sound, Copied
<1>2. (Lost(u) => Lost(u)') /\ (till'[u] = till[u] => (Edited(u) => Edited(u)'))
  BY LostStays, EditedRests
<1>3. CASE Takes(rows, till', u)
  <2>1. /\ till'[u].version = rows[u].version /\ till'[u].val = rows[u].val
        /\ till'[u].deleted = rows[u].deleted /\ till'[u].price = rows[u].price
    BY <1>3, TakenInIs DEF TookIn
  <2>2. Content(till'[u]) = Content(rows[u])
    BY <1>1, <2>1, ContentIs
  <2>3. Joint(u)'
    BY <2>2 DEF Joint
  <2>4. ~(till'[u].version > hub'[u].version)
    BY <1>1, <2>1, ARow DEF Copy
  <2> QED BY <2>3, <2>4, JointIsMerging
<1>4. CASE ~Takes(rows, till', u)
  <2>1. till'[u] = till[u]
    BY <1>4 DEF TookIn
  <2>2. till'[u].version > hub'[u].version => Edited(u)' \/ Lost(u)'
    BY <1>2, <2>1 DEF Merging
  <2>3. CASE Joint(u)'
    BY <2>2, <2>3, JointIsMerging
  <2>4. CASE Content(rows[u]) = Content(hub[u]) /\ ~Missing(till', u)
    <3>1. ~Accepts("branch", u, till[u], rows[u])
      BY <1>4, <2>4 DEF Takes
    <3>2. rows[u].version = hub[u].version /\ rows[u].deleted = hub[u].deleted
      BY <1>1, <2>4, ContentIs
    <3>3. till[u].version > hub[u].version \/ Lost(u)
      <4> DEFINE row == rows[u]
      <4>1. row.version = hub[u].version /\ row.deleted = hub[u].deleted
        BY <3>2
      <4>2. /\ Exists(till[u])
            /\ ~ShouldReplace("branch", till[u], row)
               \/ (till[u].deleted /\ ~row.deleted /\ ~Revivable("branch", u))
        BY <3>1 DEF Accepts
      <4> HIDE DEF row
      <4>3. till[u].branch = "hub"
        BY <1>1, <4>2 DEF Sound, Owned, Theirs
      <4> QED BY <1>1, <4>1, <4>2, <4>3, ARow DEF ShouldReplace, Lost
    <3>4. CASE Lost(u)
      BY <1>2, <2>2, <3>4, JointIsMerging DEF Joint
    <3>5. CASE till[u].version > hub[u].version /\ ~Lost(u)
      BY <1>2, <2>1, <3>5, EditedIsMerging DEF Merging
    <3> QED BY <3>3, <3>4, <3>5
  <2> QED BY <2>3, <2>4
<1> QED BY <1>3, <1>4

LEMMA MergingPulled ==
  ASSUME Base, Base', Step, Shared, Down, Pulled, NEW u \in Records, Theirs(u), Exists(hub[u]),
         \A x \in Records : TillMoves(x), HubMoves(u), Merging(u), Waiting(u)
  PROVE  Merging(u)'
<1>1. hub' = hub /\ queue' = queue /\ push' = push /\ world' = world
  BY DEF Pulled, PullStarted, PageRead, Responded, PageApplied, Advanced, Retried, Stopped,
         PullEnded, OnlyPulls, pushVars
<1>2. /\ Pulling /\ Coming /\ Reached(u) /\ Sound(u)
      /\ till[u] \in Row /\ hub[u] \in Row /\ hub[u].synced \in Nat
      /\ cursor \in Nat /\ pull.next \in Nat
  BY BaseRows, ARow DEF Base, TypeOK, PullTypeOK, Down, Coming, Shared
<1>3. Rests(u)
  BY <1>1 DEF Rests, Sent, Taken, Sending, Batch
<1>4. ASSUME Content(till'[u]) = Content(till[u]), Due(u) => Joint(u)'
      PROVE  Merging(u)'
  BY <1>1, <1>3, <1>4, MergingRests
<1>5. ASSUME NEW rows \in {pull.page, pull.deferred}, TookIn(rows), u \in DOMAIN rows,
             Joint(u)' \/ (Content(rows[u]) = Content(hub[u]) /\ ~Missing(till', u))
      PROVE  Merging(u)'
  BY <1>1, <1>3, <1>5, MergingTakenIn
<1>6. Lost(u) => Joint(u)'
  BY LostStays DEF Joint
<1>7. CASE PullStarted
  <2>1. till' = till /\ cursor' = cursor /\ pull.pc = "idle" /\ pull'.pc = "changes" /\ DOMAIN pull.deferred = {}
    BY <1>2, <1>7 DEF PullStarted, Pulling
  <2> QED BY <1>1, <1>4, <2>1 DEF Due, Upto, Held, Joint
<1>8. CASE (\E us : PageRead(us)) \/ Responded
  <2>1. /\ till' = till /\ cursor' = cursor /\ pull.pc = "changes" /\ pull'.pc \in {"changes", "apply"}
        /\ pull'.deferred = pull.deferred
    BY <1>8 DEF PageRead, Responded
  <2> QED BY <1>1, <1>4, <2>1 DEF Due, Upto, Held, Joint
<1>9. CASE Advanced
  <2>1. /\ till' = till /\ cursor' = pull.next /\ pull.pc = "advance" /\ pull'.pc \in {"changes", "retry"}
        /\ pull'.deferred = pull.deferred
    BY <1>9 DEF Advanced
  <2> QED BY <1>1, <1>4, <2>1 DEF Due, Upto, Held, Joint
<1>10. CASE Stopped
  <2>1. till' = till /\ cursor' = cursor /\ pull'.pc = "idle" /\ DOMAIN pull.deferred = {}
    BY <1>10 DEF Stopped, PullEnded, Shared, Steady
  <2>2. Upto' = cursor /\ Upto \in Nat /\ cursor <= Upto
    BY <1>2, <2>1 DEF Upto, Pulling
  <2>3. Due(u) => hub'[u].synced > Upto'
    BY <1>1, <1>2, <2>1, <2>2 DEF Due, Held
  <2> QED BY <1>1, <1>4, <2>1, <2>3 DEF Due, Joint
<1>11. CASE PageApplied
  <2>1. /\ pull.pc = "apply" /\ TookIn(pull.page) /\ pull'.pc = "advance" /\ pull'.next = pull.next
        /\ \A x : x \in DOMAIN pull'.deferred <=>
                    x \in DOMAIN pull.deferred \/ (x \in DOMAIN pull.page /\ Missing(till', x))
        /\ \A x \in DOMAIN pull'.deferred :
             pull'.deferred[x] = IF x \in DOMAIN pull.page /\ Missing(till', x)
                                   THEN pull.page[x] ELSE pull.deferred[x]
    BY <1>11 DEF PageApplied
  <2>2. hub[u].synced > pull.next => Joint(u)'
    BY <1>1, <2>1 DEF Joint, Due, Upto
  <2>3. hub[u].synced > cursor /\ hub[u].synced <= pull.next => Current(u)
    BY <1>2, <2>1 DEF Reached
  <2>4. CASE u \notin DOMAIN pull.page
    <3>1. till'[u] = till[u]
      BY <2>1, <2>4 DEF TookIn, Takes
    <3>2. Held(u) => Joint(u)'
      BY <1>1, <2>1, <2>4 DEF Held, Joint, Due
    <3>3. Due(u) => Joint(u)'
      BY <1>2, <2>1, <2>2, <2>3, <2>4, <3>2 DEF Due, Upto, Current
    <3> QED BY <1>4, <3>1, <3>3
  <2>5. CASE u \in DOMAIN pull.page
    <3>1. hub[u].synced > cursor
      BY <1>2, <2>5 DEF Coming
    <3>2. CASE hub[u].synced > pull.next
      BY <1>5, <2>1, <2>2, <2>5, <3>2
    <3>3. CASE hub[u].synced <= pull.next
      <4>1. pull.page[u] = hub[u]
        BY <2>3, <3>1, <3>3 DEF Current
      <4>2. Missing(till', u) => Joint(u)'
        BY <1>1, <2>1, <2>5, <4>1 DEF Joint, Due, Held
      <4> QED BY <1>5, <2>1, <2>5, <4>1, <4>2
    <3> QED BY <1>2, <3>2, <3>3
  <2> QED BY <2>4, <2>5
<1>12. CASE Retried
  <2>1. /\ pull.pc = "retry" /\ TookIn(pull.deferred) /\ pull'.pc = "idle" /\ cursor' = cursor
    BY <1>12 DEF Retried, PullEnded
  <2>2. hub[u].synced > cursor => Joint(u)'
    BY <1>1, <2>1 DEF Joint, Due, Upto
  <2>3. CASE u \notin DOMAIN pull.deferred
    <3>1. till'[u] = till[u]
      BY <2>1, <2>3 DEF TookIn, Takes
    <3>2. Due(u) => Joint(u)'
      BY <2>1, <2>2, <2>3 DEF Due, Held, Upto
    <3> QED BY <1>4, <3>1, <3>2
  <2>4. CASE u \in DOMAIN pull.deferred
    <3>1. CASE hub[u].synced > cursor
      BY <1>5, <2>1, <2>2, <2>4, <3>1
    <3>2. CASE Held(u)
      <4>1. ~Missing(till', u)
        BY <1>2, <2>1, <2>4, Levels DEF Missing, Kin, Coming, TillMoves
      <4> QED BY <1>5, <2>1, <2>4, <3>2, <4>1 DEF Held
    <3>3. CASE Lost(u)
      BY <1>5, <1>6, <2>1, <2>4, <3>3
    <3>4. CASE hub[u].synced <= cursor /\ ~Held(u) /\ ~Lost(u)
      <4> DEFINE old == pull.deferred[u]
      <4>1. till[u].version >= hub[u].version
        BY <1>2, <2>1, <3>4 DEF Reached, Upto, Outrun, Lost
      <4>2. old \in Row /\ old.version <= hub[u].version /\ Matches(hub[u], old)
        BY <2>4, BaseRows DEF Waiting, Sound, Copied, Copy
      <4>3. old.version # hub[u].version
        BY <2>4, <3>4, <4>2 DEF Matches, Held
      <4>4. ~Accepts("branch", u, till[u], old)
        <5> HIDE DEF old
        <5> QED BY <1>2, <4>1, <4>2, <4>3, ARow DEF Accepts, ShouldReplace, Exists
      <4>5. till'[u] = till[u]
        BY <2>1, <4>4 DEF TookIn, Takes
      <4>6. ~Due(u)
        BY <1>2, <2>1, <3>4 DEF Due, Upto
      <4> QED BY <1>4, <4>5, <4>6
    <3> QED BY <1>2, <3>1, <3>2, <3>3, <3>4
  <2> QED BY <2>3, <2>4
<1> QED BY <1>7, <1>8, <1>9, <1>10, <1>11, <1>12 DEF Pulled

LEMMA BothStays ==
  ASSUME Base, Base', Step, \A u \in Records : TillMoves(u) /\ HubMoves(u), Up, Down, Both
  PROVE  Both'
<1> SUFFICES ASSUME Shared, NEW u \in Records, Theirs(u)
             PROVE  Behind(u)' /\ Waiting(u)' /\ (Exists(hub'[u]) => Merging(u)')
  BY WorldStays DEF Both, Shared, Calm, Steady, Forgets, Theirs
<1>1. hooks = {} /\ (\A x \in Records : ~Exists(saving[x]))
  BY DEF Up, Down, Coming, Shared
<1>2. Behind(u) /\ Waiting(u) /\ (Exists(hub[u]) => Merging(u)) /\ Sound(u)
  BY BaseRows DEF Both
<1>3. Behind(u)' /\ Waiting(u)'
  BY <1>1, <1>2, BehindStays, WaitingStays
<1>4. ASSUME Exists(hub'[u]) PROVE Merging(u)'
  <2>1. CASE AtTheHub
    BY <1>2, <1>4, <2>1, MergingAtTheHub
  <2>2. CASE ~AtTheHub
    <3>1. Exists(hub[u])
      <4>1. hub'[u] = hub[u] \/ \E w \in Pushers : Delivered(w) /\ Landed(w, u)
        BY <2>2, RowMoves DEF Moved, AtTheHub
      <4>2. (\E w \in Pushers : Delivered(w) /\ Landed(w, u)) => Exists(till[u])
        BY LandedIs
      <4> QED BY <1>2, <1>4, <4>1, <4>2 DEF Sound, Owned
    <3> QED BY <1>1, <1>2, <2>2, <3>1, MergingAtTheTill, MergingArriving, MergingPulled DEF Step
  <2> QED BY <2>1, <2>2
<1> QED BY <1>3, <1>4

LEMMA SharingAtFirst == Init => Alone /\ Both
<1> SUFFICES ASSUME Init PROVE Alone /\ Both
  OBVIOUS
<1>0. Base
  BY BaseAtFirst
<1>1. ASSUME NEW u \in Records, Theirs(u) PROVE Followed(u)
  BY AtFirst, NoRowIsARow DEF Followed
<1>2. ASSUME NEW u \in Records, Theirs(u) PROVE Behind(u) /\ Waiting(u)
  BY AtFirst DEF Behind, Waiting
<1>3. ASSUME NEW u \in Records, Exists(hub[u]) PROVE Merging(u)
  <2>1. till[u].version = 0 /\ hub[u].version > 0 /\ Joint(u)
    BY <1>3, AtFirst, NoRowIsARow DEF Joint, Due, Exists
  <2>2. \A w \in Pushers : ~Sent(w, u) /\ ~Taken(w, u)
    BY AtFirst DEF Sent, Taken
  <2>3. hub[u].version \in Nat
    BY <1>0, BaseRows, ARow
  <2> QED BY <2>1, <2>2, <2>3 DEF Merging
<1> QED BY <1>1, <1>2, <1>3 DEF Alone, Both

LEMMA SharingStutters ==
  ASSUME Alone, Both, UNCHANGED vars
  PROVE  Alone' /\ Both'
<1>1. /\ UNCHANGED <<world, till, hub, clock, edits>> /\ UNCHANGED <<hooks, queue, lock, push, missed>>
      /\ UNCHANGED <<saving, cursor, pull>>
  BY DEF vars, recordVars, pushVars, pullVars
<1>2. Alone'
  BY <1>1 DEF Alone, Apart, Theirs, Followed, Queued
<1>3. \A u \in Records : /\ Behind(u) => Behind(u)'
                         /\ Waiting(u) => Waiting(u)'
                         /\ Merging(u) => Merging(u)'
  BY <1>1 DEF Behind, Waiting, Merging, Joint, Due, Lost, Held, Upto, Edited, Pending, Queued, Sent,
              Taken, Sending, Batch, Revivable
<1>4. Both'
  BY <1>1, <1>3 DEF Both, Shared, Calm, Steady, Forgets, Theirs
<1> QED BY <1>2, <1>4

\* When all is quiet, a record that was not missed is the same on both sides, or one that both wrote is deleted.
LEMMA QuietAgrees ==
  ASSUME Base, Up, Down, Alone, Both, Calm, Steady, ~Forgets, Quiet, NEW u \in Records \ missed
  PROVE  Same(u) \/ ("shared" \in world /\ Lost(u))
<1>1. /\ Sound(u) /\ till[u] \in Row /\ hub[u] \in Row /\ ~Queued(u)
      /\ till[u].branch = "branch" => till[u].synced # 0 \/ ~Exists(till[u])
      /\ pull = Idling /\ Feed(1) \cup Feed(2) = {} /\ cursor \in Nat
  BY BaseRows DEF Quiet, Base, TypeOK, PullTypeOK
<1>2. CASE ~Exists(till[u]) /\ ~Exists(hub[u])
  BY <1>2 DEF Same
<1>3. CASE Own(u) /\ Exists(till[u])
  BY <1>1, <1>3 DEF Sound, Owned, Own, Up, Pushed
<1>4. CASE Theirs(u) /\ Exists(hub[u])
  <2>1. ~(hub[u].synced > cursor)
    BY <1>1, <1>4, Levels DEF Feed, Sound, Owned, Theirs
  <2>2. Upto = cursor /\ ~Held(u)
    BY <1>1, NoRows DEF Upto, Idling, Held
  <2>3. Outrun(u)
    BY <1>1, <1>4, <2>1, <2>2, ARow DEF Down, Coming, Reached
  <2>4. CASE Apart
    <3>1. Exists(till[u])
      BY <1>1, <1>4, <2>3, ARow DEF Outrun, Exists, Sound, Owned, Settled
    <3>2. Faithful(till[u], hub[u])
      BY <1>4, <2>4, <3>1 DEF Alone, Followed
    <3>3. CASE till[u].version >= hub[u].version
      <4>1. Content(till[u]) = Content(hub[u])
        BY <1>1, <3>2, <3>3, ARow DEF Faithful
      <4> QED BY <4>1 DEF Same
    <3>4. CASE till[u].deleted
      BY <3>2, <3>4 DEF Faithful, Same
    <3> QED BY <2>3, <3>3, <3>4 DEF Outrun
  <2>5. CASE ~Apart
    <3>1. Joint(u)
      BY <1>1, <1>4, <2>5 DEF Both, Shared, Apart, Merging, Pending
    <3>2. ~Due(u)
      BY <2>1, <2>2 DEF Due
    <3> QED BY <2>5, <3>1, <3>2 DEF Joint, Same, Apart
  <2> QED BY <2>4, <2>5
<1>5. Own(u) \/ Theirs(u)
  BY Levels DEF Own, Theirs, Nodes
<1> QED BY <1>1, <1>2, <1>3, <1>4, <1>5 DEF Sound, Owned

\* Both sides are sound at any time and equal in the end: neither ever has a row without its
\* parent, the hub's prices are only ever set at the hub, and once all is pushed and pulled the
\* tables agree, save for a row that both sides wrote and one deleted, and one that was missed.
THEOREM RowsAlwaysAgree == Spec => []RowsAgree
<1> DEFINE All == Base /\ Up /\ Down /\ Alone /\ Both
<1>1. Init => All
  BY BaseAtFirst, LossAtFirst, SharingAtFirst
<1>2. ASSUME All, Next PROVE All'
  <2>1. Base' /\ Step /\ \A u \in Records : TillMoves(u) /\ HubMoves(u)
    BY <1>2, BaseStays
  <2> QED BY <1>2, <2>1, UpStays, DownStays, AloneStays, BothStays
<1>3. ASSUME All, UNCHANGED vars PROVE All'
  BY <1>3, BaseStutters, LossStutters, SharingStutters
<1>4. All => RowsAgree
  <2> SUFFICES ASSUME All PROVE Converged /\ NoOrphans /\ PricesAreTheHubs
    BY DEF RowsAgree
  <2>1. Converged
    BY QuietAgrees DEF Converged, Calm, Steady, Lost
  <2>2. NoOrphans
    BY BaseRows DEF NoOrphans, Sound, Rooted
  <2>3. PricesAreTheHubs
    BY BaseRows DEF PricesAreTheHubs, Sound, Priced, Owned, Own, Exists
  <2> QED BY <2>1, <2>2, <2>3
<1> HIDE DEF All
<1> QED BY <1>1, <1>2, <1>3, <1>4, PTL DEF Spec
===============================================================================
