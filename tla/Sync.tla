--------------------------------- MODULE Sync ---------------------------------
(***************************************************************************)
(* A branch and the cloud, pushing and pulling at the same time.           *)
(***************************************************************************)
EXTENDS SyncPush, SyncPull

vars == <<recordVars, pushVars, pullVars>>

Init == RecordsInit /\ PushInit /\ PullInit

\* While the hub serves /changes its catalogue stands still, or "late_commit" holds.
ServesStill ==
  Serving => \/ "late_commit" \in world
             \/ \A u \in Records : Exists(hub[u]) /\ hub[u].branch = "hub" => hub'[u] = hub[u]
\* receive_batch waits for the lock of a row that is being saved (select_for_update).
LocksHold == \A u \in Records : Exists(saving[u]) => hub'[u] = hub[u]

Next ==
  \/ /\ UNCHANGED pullVars
     /\ \/ \E u \in Records, what \in Change : TillSave(u, what)
        \/ \E u \in Records : \E row \in {h[2] : h \in hooks} : Hook(u, row)
        \/ ClearQueue
        \/ FullPush
        \/ \E w \in Pushers : PushStep(w)
        \/ \E w \in Pushers : NoAnswer(w)
        \/ \E w \in Pushers : PushDies(w)
        \/ LockExpires
     /\ ServesStill /\ LocksHold
  \/ /\ UNCHANGED pushVars
     /\ \/ \E u \in Records, what \in Change : HubSave(u, what)
        \/ \E u \in Records : HubCommit(u)
        \/ PullStep
        \/ PullEnds

Spec == Init /\ [][Next]_vars

\* The sync worker loops over push and pull, a request that triggers either runs to its
\* end, hooks and transactions end, and the cache drops an expired lock.
FairSpec ==
  /\ Spec
  /\ \A w \in Pushers : WF_vars(PushStep(w) /\ UNCHANGED pullVars)
  /\ WF_vars(LockExpires /\ UNCHANGED pullVars)
  /\ WF_vars(PullStep /\ UNCHANGED pushVars)

-----------------------------------------------------------------------------

\* Every variable keeps its type; the cursor is never ahead of the hub's clock.
TypeOK ==
  /\ world \in DOMAIN Budget
  /\ till \in [Records -> Row] /\ hub \in [Records -> Row]
  /\ clock \in Nat /\ edits \in 0 .. Budget[world]
  /\ PushTypeOK
  /\ PullTypeOK

\* A synced_at that is set means the hub has the row (service.py:145-147): a row of the
\* branch that the hub has not is unsynced, queued as it is, or about to be queued.  Two
\* things break it, and both lose an edit until the row is next saved or pushed in full:
\* an edit during a push, and an edit whose hook is lost (base/models.py:132-141) while an
\* older payload of its row is queued: _reconcile_unsynced passes over a queued row
\* (service.py:433-436), and push stamps it when the old payload is confirmed.
Covered(u) ==
  Exists(till[u]) /\ till[u].branch = "branch" /\ ~Same(u) =>
    till[u].synced = 0 \/ queue[u].row.version = till[u].version \/ <<u, till[u]>> \in hooks
PushedIfStamped == \A u \in Records : Covered(u)
SyncedMeansPushed ==
  world \cap {"busy", "delayed_hook", "overreach"} = {} =>
    \A u \in Records \ missed : Covered(u)

\* What the hub stamped up to the cursor for this branch, the branch has, or defers, or
\* has outrun with saves of its own, or had deleted for good.
CursorCovers ==
  world \cap {"late_commit", "deferred_lost"} = {} =>
    \A u \in Records :
      Exists(hub[u]) /\ hub[u].branch = "hub" /\ hub[u].synced <= cursor =>
        \/ till[u].version >= hub[u].version
        \/ till[u].deleted /\ ~Revivable("branch", u)
        \/ u \in DOMAIN pull.deferred

\* Both: nothing is lost on the way up or on the way down.
NothingIsLost == SyncedMeansPushed /\ CursorCovers

Quiet ==
  /\ \A u \in Records : ~Queued(u) /\ ~Exists(saving[u])
                        /\ (till[u].branch = "branch" => till[u].synced # 0 \/ ~Exists(till[u]))
  /\ hooks = {} /\ pull = Idling /\ \A w \in Pushers : push[w] = Idle
  /\ Feed(1) \cup Feed(2) = {}
\* The branch's edits of the hub's rows are lost with their hook or their queue entry.
Forgets == "shared" \in world /\ world \cap {"lost_hook", "cleared"} # {}
\* When all is pushed and pulled, both sides have the same rows; only a row that both
\* sides wrote may differ where the hub deleted it, or the branch did for good, and a row
\* whose last edit was missed.
Converged ==
  world \cap {"busy", "delayed_hook", "overreach", "late_commit", "deferred_lost"} = {}
  /\ ~Forgets =>
    (Quiet => \A u \in Records \ missed :
                \/ Same(u)
                \/ "shared" \in world
                   /\ \/ hub[u].deleted
                      \/ till[u].deleted /\ ~Revivable("branch", u))

\* Neither side ever stores a row without its parent.
NoOrphans ==
  \A u \in Records, t \in {till, hub} :
    Exists(t[u]) /\ Parent[u] # None => Exists(t[Parent[u]])

\* The hub's prices are only ever set at the hub.
PricesAreTheHubs == \A u \in Records : hub[u].branch = "hub" => hub[u].price[1] = "hub"

\* The three together: what both sides have is sound at any time and equal in the end.
RowsAgree == Converged /\ NoOrphans /\ PricesAreTheHubs

\* When users pause, what they saved at either side is soon the same on both, though
\* locks expired and hooks were lost: the sweep repairs all of them but the missed ones.
EventuallySame ==
  world \subseteq {"lost_hook", "lock_expires", "delete"} =>
    <>[](\A u \in Records \ missed : Same(u))

\* A row's version never goes back, and a deleted row never comes back, on either side;
\* a product the branch deleted may come back there.
Forward(node, u, row, next) ==
  /\ next.version >= row.version
  /\ row.deleted => next.deleted \/ Revivable(node, u)
AllForward ==
  \A u \in Records : /\ Forward("branch", u, till[u], till'[u])
                     /\ Forward("hub", u, hub[u], hub'[u])
OnlyForward == [][AllForward]_vars
=============================================================================
