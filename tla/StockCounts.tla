----------------------------- MODULE StockCounts -----------------------------
(***************************************************************************)
(* Stock counts: StockCountService. What really lies at a place may be     *)
(* less than its level says (goods are lost); a count that is applied sets *)
(* the levels to what was counted. A count lists the goods of its scope,   *)
(* each tracked one by the batches that hold something.                    *)
(***************************************************************************)
EXTENDS StockLevels

CONSTANTS
  Counts,     \* stock counts
  Scopes,     \* what a count may be of: a category, some items, all
  Handled,    \* the goods whose levels are adjusted by hand
  MaxLost     \* bound: pieces of a good lost at a place

ASSUME CountAssumption ==
  /\ Scopes \subseteq SUBSET Goods /\ Goods \cap BatchIds = {}
  /\ Handled \subseteq Goods \ Tracked /\ MaxLost \in Nat

VARIABLES
  count,      \* the counts
  astray,     \* what lies at a place beyond its level, of each untracked good
  lost,       \* what was lost of it
  corrected   \* its count and hand adjustments there, summed

countVars == <<count, astray, lost, corrected>>

\* A line of a count is a good or a batch; counted is -1 before it is recorded.
Lines == (Goods \ Tracked) \cup BatchIds
Count == [status : {"none", "DRAFT", "IN_PROGRESS", "PENDING_APPROVAL", "APPROVED", "CANCELED"},
          place : Places, auto : BOOLEAN, lines : SUBSET Lines,
          counted : [Lines -> Nat \cup {-1}]]
NoCount == [status |-> "none", place |-> CHOOSE p \in Places : TRUE, auto |-> FALSE,
            lines |-> {}, counted |-> [l \in Lines |-> -1]]

Recorded(c) == {line \in count[c].lines : count[c].counted[line] >= 0}

CountsInit ==
  /\ count = [c \in Counts |-> NoCount]
  /\ astray = [x \in Goods \X Places |-> 0]
  /\ lost = [x \in Goods \X Places |-> 0]
  /\ corrected = [x \in Goods \X Places |-> 0]

CountOnly(c, row) ==
  /\ count' = [count EXCEPT ![c] = row]
  /\ UNCHANGED <<astray, lost, corrected, levelVars, batch>>

\* Someone breaks, eats or takes a piece.
Lose(g, p) ==
  /\ g \notin Tracked
  /\ level[<<g, p>>].qty + astray[<<g, p>>] > 0
  /\ lost[<<g, p>>] < MaxLost
  /\ astray' = [astray EXCEPT ![<<g, p>>] = @ - 1]
  /\ lost' = [lost EXCEPT ![<<g, p>>] = @ + 1]
  /\ UNCHANGED <<count, corrected, levelVars, batch>>

\* _populate_count_items, with those of which there is nothing (include_zero_stock).
Populated(p, scope) ==
  (scope \ Tracked)
    \cup {i \in DOMAIN batch : batch[i].good \in scope /\ batch[i].place = p /\ batch[i].qty > 0}
\* create: one count that is being taken at a place.
CreateCount(c, p, scope, auto) ==
  /\ count[c].status = "none"
  /\ \A d \in Counts :
       count[d].place = p => count[d].status \notin {"DRAFT", "IN_PROGRESS"}
  /\ CountOnly(c, [NoCount EXCEPT !.status = "DRAFT", !.place = p, !.auto = auto,
                   !.lines = Populated(p, scope)])

StartCount(c) ==
  /\ count[c].status = "DRAFT"
  /\ CountOnly(c, [count[c] EXCEPT !.status = "IN_PROGRESS"])

\* record_count: a line is counted, or again. What a batch holds, someone may have eaten.
There(c, line) ==
  IF line \in Goods
    THEN {level[<<line, count[c].place>>].qty + astray[<<line, count[c].place>>]}
    ELSE 0 .. batch[line].qty
RecordCount(c, line) ==
  /\ count[c].status \in {"DRAFT", "IN_PROGRESS"}
  /\ line \in count[c].lines
  /\ \E n \in There(c, line) :
       /\ n >= 0
       /\ CountOnly(c, [count[c] EXCEPT
            !.status = "IN_PROGRESS",
            !.counted[line] = n])

\* What the levels and batches say of a line now.
OnBooks(c, line) ==
  IF line \in Goods THEN level[<<line, count[c].place>>].qty ELSE batch[line].qty
\* (mutant) the difference is taken the wrong way round
DeltaReversed(c, line) == OnBooks(c, line) - count[c].counted[line]
\* _apply_adjustments: against the levels and batches of now, not of when it was counted.
Delta(c, line) == count[c].counted[line] - OnBooks(c, line)
Correction(c) ==
  [g \in Goods |-> SumFunction([line \in Recorded(c) |->
     IF line = g \/ (line \in BatchIds /\ batch[line].good = g) THEN Delta(c, line) ELSE 0])]
BatchesSet(c) ==
  [i \in DOMAIN batch |-> IF i \in Recorded(c)
                            THEN [batch[i] EXCEPT !.qty = count[c].counted[i]] ELSE batch[i]]
Apply(c, status) ==
  /\ CanTake(level, count[c].place, Minus(Nothing, Correction(c)))
  /\ count' = [count EXCEPT ![c].status = status]
  /\ level' = Put(level, count[c].place, Correction(c))
  /\ batch' = BatchesSet(c)
  /\ corrected' = [x \in DOMAIN corrected |->
                     IF x[2] = count[c].place THEN corrected[x] + Correction(c)[x[1]]
                     ELSE corrected[x]]
  /\ astray' = [x \in DOMAIN astray |->
                  IF x[2] = count[c].place /\ x[1] \notin Tracked
                    THEN astray[x] - Correction(c)[x[1]] ELSE astray[x]]
  /\ UNCHANGED <<lost, setting>>

CompleteCount(c) ==
  /\ count[c].status = "IN_PROGRESS"
  /\ Recorded(c) = count[c].lines
  /\ IF setting.approval
       THEN CountOnly(c, [count[c] EXCEPT !.status = "PENDING_APPROVAL"])
     ELSE IF count[c].auto
       THEN Apply(c, "APPROVED")
       ELSE CountOnly(c, [count[c] EXCEPT !.status = "APPROVED"])

ApproveCount(c, apply) ==
  /\ count[c].status = "PENDING_APPROVAL"
  /\ IF apply
       THEN Apply(c, "APPROVED")
       ELSE CountOnly(c, [count[c] EXCEPT !.status = "APPROVED"])

CancelCount(c) ==
  /\ count[c].status \in {"DRAFT", "IN_PROGRESS", "PENDING_APPROVAL"}
  /\ CountOnly(c, [count[c] EXCEPT !.status = "CANCELED"])

\* A count has numbers that are not applied yet.
Counting ==
  \E c \in Counts : /\ Recorded(c) # {}
                    /\ count[c].status \in {"IN_PROGRESS", "PENDING_APPROVAL"}

-----------------------------------------------------------------------------
(* StockLevelService's own endpoint.                                       *)

\* adjust, by hand: it changes what the books say, with the goods.
AdjustByHand(g, p, n) ==
  /\ setting.negative \/ level[<<g, p>>].qty + n >= 0
  /\ level' = [level EXCEPT ![<<g, p>>].qty = @ + n]
  /\ corrected' = [corrected EXCEPT ![<<g, p>>] = @ + n]
  /\ UNCHANGED <<count, astray, lost, setting, batch>>
=============================================================================
