------------------------------- MODULE SyncPull -------------------------------
(***************************************************************************)
(* The branch pulls: users saving at the hub, the /changes endpoint, which *)
(* reads one model after the other, and SyncService.pull_from_cloud, which *)
(* pages through it with a durable cursor.                                 *)
(*                                                                         *)
(* One pull at a time: it runs under sync:lock:pull, which works as the    *)
(* push lock of SyncPush does.                                             *)
(***************************************************************************)
EXTENDS SyncRecords

CONSTANTS PerPage   \* rows of a model in a page, 1000

ASSUME PullAssumption == PerPage \in Nat \ {0}

VARIABLES
  saving,    \* rows hub transactions have stamped and not yet committed
  cursor,    \* SyncState last_pull, durable
  pull       \* the pull under way and the request it makes

pullVars == <<saving, cursor, pull>>

Idling == [pc |-> "idle", level |-> 1, page |-> <<>>, more |-> FALSE, next |-> 0,
           deferred |-> <<>>]

PullInit ==
  /\ saving = [u \in Records |-> NoRow]
  /\ cursor = 0
  /\ pull = Idling

PullTypeOK ==
  /\ saving \in [Records -> Row]
  /\ cursor \in 0 .. clock
  /\ pull \in [pc : {"idle", "changes", "apply", "advance", "retry"}, level : 1 .. 3,
               page : Rows, more : BOOLEAN, next : 0 .. clock, deferred : Rows]

Serving == pull.pc = "changes"

-----------------------------------------------------------------------------
(* Users at the hub.                                                       *)

\* A save: stamped now, committed now or later.
HubSave(u, what) ==
  LET row == Saved("hub", hub[u], what, clock + 1) IN
  /\ Editable("hub", hub, u, what)
  /\ ~Exists(saving[u])                     \* its row is locked
  /\ Serving => "late_commit" \in world
  /\ edits' = edits + 1
  /\ clock' = clock + 1
  /\ \/ hub' = [hub EXCEPT ![u] = row] /\ UNCHANGED saving
     \/ "late_commit" \in world /\ saving' = [saving EXCEPT ![u] = row] /\ UNCHANGED hub
  /\ UNCHANGED <<world, till, cursor, pull>>

HubCommit(u) ==
  /\ Exists(saving[u])
  /\ hub' = [hub EXCEPT ![u] = saving[u]]
  /\ saving' = [saving EXCEPT ![u] = NoRow]
  /\ UNCHANGED <<world, till, clock, edits, cursor, pull>>

-----------------------------------------------------------------------------
(* The change feed.                                                        *)

\* What /changes has for this branch in one model.
Feed(level) ==
  {u \in Records : /\ Exists(hub[u]) /\ Level(u) = level
                   /\ hub[u].synced > cursor /\ hub[u].branch # "branch"}

\* The stamp of the last row of a full page: as many rows as fit have at most this stamp.
Frontier(us) ==
  LET stamps == {hub[u].synced : u \in us}
      upTo(s) == Cardinality({u \in us : hub[u].synced <= s})
  IN  Min({s \in stamps : upTo(s) >= PerPage})

StartPull ==
  /\ pull = Idling
  /\ pull' = [pull EXCEPT !.pc = "changes"]
  /\ UNCHANGED <<world, till, hub, clock, edits, saving, cursor>>

\* /changes reads a model: when more rows than a page holds, all up to the frontier.
ReadModel ==
  LET us == Feed(pull.level)
      full == Cardinality(us) > PerPage
      frontier == Frontier(us)
      page == IF full THEN {u \in us : hub[u].synced <= frontier} ELSE us
  IN  /\ Serving /\ pull.level < 3
      /\ pull' = [pull EXCEPT
           !.level = @ + 1,
           !.page = [u \in DOMAIN @ \cup page |-> IF u \in page THEN hub[u] ELSE @[u]],
           !.more = @ \/ full,
           !.next = IF full /\ (@ = 0 \/ frontier < @) THEN frontier ELSE @]
      /\ UNCHANGED <<world, till, hub, clock, edits, saving, cursor>>

\* The response comes, with the hub's time; without a next page the pull will go there.
Respond ==
  /\ Serving /\ pull.level = 3
  /\ pull' = [pull EXCEPT !.pc = "apply", !.next = IF pull.more THEN @ ELSE clock]
  /\ UNCHANGED <<world, till, hub, clock, edits, saving, cursor>>

-----------------------------------------------------------------------------
(* pull_from_cloud.                                                        *)

OfLevel(rows, l) == [u \in {x \in DOMAIN rows : Level(x) = l} |-> rows[u]]
\* The branch's table after rows, model by model.
Ingested(rows) ==
  Applied("branch", Applied("branch", till, OfLevel(rows, 1), 1), OfLevel(rows, 2), 1)
\* Those whose parent is still missing after them.
Deferred(rows) ==
  LET parents == Applied("branch", till, OfLevel(rows, 1), 1)
  IN  [u \in {x \in DOMAIN rows : Missing(parents, x)} |-> rows[u]]
Joined(rows, others) ==
  [u \in DOMAIN rows \cup DOMAIN others |->
     IF u \in DOMAIN others THEN others[u] ELSE rows[u]]

\* (mutant) what cannot be applied yet is dropped
ApplyForgetting ==
  /\ pull.pc = "apply"
  /\ till' = Ingested(pull.page)
  /\ pull' = [pull EXCEPT !.pc = "advance", !.page = <<>>]
  /\ UNCHANGED <<world, hub, clock, edits, saving, cursor>>
Apply ==
  /\ pull.pc = "apply"
  /\ till' = Ingested(pull.page)
  /\ pull' = [pull EXCEPT !.pc = "advance", !.page = <<>>,
                          !.deferred = Joined(@, Deferred(pull.page))]
  /\ UNCHANGED <<world, hub, clock, edits, saving, cursor>>

\* The cursor is persisted: to the frontier and on to the next page, or to the hub's time.
Advance ==
  /\ pull.pc = "advance"
  /\ cursor' = pull.next
  /\ pull' = [pull EXCEPT !.pc = IF pull.more THEN "changes" ELSE "retry",
                          !.level = 1, !.more = FALSE, !.next = 0]
  /\ UNCHANGED <<world, till, hub, clock, edits, saving>>

\* The deferred records again; those still without a parent are given up.
Retry ==
  /\ pull.pc = "retry"
  /\ till' = Ingested(pull.deferred)
  /\ pull' = Idling
  /\ UNCHANGED <<world, hub, clock, edits, saving, cursor>>

\* The request fails for good, or the process dies: the next pull starts at the cursor.
PullEnds ==
  /\ \/ Serving /\ "unreachable" \in world
     \/ pull # Idling /\ "crash" \in world
  /\ DOMAIN pull.deferred = {} \/ "deferred_lost" \in world
  /\ pull' = Idling
  /\ UNCHANGED <<world, till, hub, clock, edits, saving, cursor>>

PullStep ==
  \/ StartPull
  \/ ReadModel
  \/ Respond
  \/ Apply
  \/ Advance
  \/ Retry
=============================================================================
