------------------------------- MODULE SyncPush -------------------------------
(***************************************************************************)
(* The branch pushes: the on_commit hook that queues a saved row, the      *)
(* durable queue (SyncQueueRecord), SyncService.push under its cache lock, *)
(* send_batch with its retries, and receive_batch at the hub.              *)
(*                                                                         *)
(* A push is a process of its own steps: it reads the queue, sends a batch *)
(* per model, then unqueues and stamps what the hub confirmed.  A batch    *)
(* holds all queued rows of a model (SYNC_BATCH_SIZE is 500).              *)
(***************************************************************************)
EXTENDS SyncRecords

CONSTANTS
  Pushers,       \* the sync worker, the trigger endpoint, ...
  MaxRetries,    \* SYNC_MAX_RETRIES, sends of one batch
  MaxAttempts,   \* SYNC_MAX_QUEUE_ATTEMPTS, failures before the dead letter
  MaxClock       \* bound: stamps of the hub

ASSUME PushAssumption ==
  {MaxRetries, MaxAttempts, MaxClock} \subseteq Nat \ {0} /\ None \notin Pushers

VARIABLES
  hooks,     \* rows saved and committed, as their on_commit hooks will queue them
  queue,     \* the queued payload of each record and its failed attempts
  lock,      \* who holds sync:lock:push
  push,      \* the pushes under way
  missed     \* (history) rows whose last save lost its hook with an older payload queued

pushVars == <<hooks, queue, lock, push, missed>>

NotQueued == [row |-> NoRow, attempts |-> 0]
Queued(u) == Exists(queue[u].row)
Idle == [pc |-> "idle", level |-> 1, sent |-> <<>>, failed |-> {}, confirmed |-> {},
         left |-> 0]
States == {"idle", "reconcile", "read", "send", "answer", "unqueue", "stamp", "release"}

PushInit ==
  /\ hooks = {}
  /\ queue = [u \in Records |-> NotQueued]
  /\ lock = None
  /\ push = [w \in Pushers |-> Idle]
  /\ missed = {}

\* A push is past the last model when it is done sending.
Push ==
  {p \in [pc : States, level : 1 .. 3, sent : Rows, failed : SUBSET Records,
          confirmed : SUBSET Records, left : 0 .. MaxRetries] :
     p.level = 3 => p.pc \in {"unqueue", "stamp", "release"}}

PushTypeOK ==
  /\ hooks \subseteq Records \X Row
  /\ queue \in [Records -> [row : Row, attempts : 0 .. MaxAttempts]]
  /\ lock \in Pushers \cup {None}
  /\ push \in [Pushers -> Push]
  /\ missed \subseteq Records

\* SyncQueue.add: update_or_create of the payload; the attempts stay.
Enqueued(q, rows) ==
  [u \in Records |-> IF u \in DOMAIN rows THEN [q[u] EXCEPT !.row = rows[u]] ELSE q[u]]
Only(u, row) == [x \in {u} |-> row]
Reading == \E w \in Pushers : push[w].pc \in {"send", "answer", "unqueue", "stamp"}

-----------------------------------------------------------------------------
(* Users at the branch.                                                    *)

\* A request saves u and commits.  Its hook queues the row: at once, later, or never, as
\* when it raises or SYNC_ON_SAVE is off.
TillSave(u, what) ==
  LET row == Saved("branch", till[u], what, 0) IN
  /\ Editable("branch", till, u, what)
  /\ Reading => "busy" \in world
  /\ till' = [till EXCEPT ![u] = row]
  /\ edits' = edits + 1
  /\ \/ "delayed_hook" \notin world /\ queue' = Enqueued(queue, Only(u, row))
        /\ hooks' = hooks /\ missed' = missed \ {u}
     \/ "delayed_hook" \in world /\ hooks' = hooks \cup {<<u, row>>}
        /\ queue' = queue /\ missed' = missed \ {u}
     \/ "lost_hook" \in world /\ UNCHANGED <<queue, hooks>>
        /\ missed' = IF Queued(u) THEN missed \cup {u} ELSE missed \ {u}
  /\ UNCHANGED <<world, hub, clock, lock, push>>

Hook(u, row) ==
  /\ <<u, row>> \in hooks
  /\ hooks' = hooks \ {<<u, row>>}
  /\ queue' = Enqueued(queue, Only(u, row))
  /\ UNCHANGED <<world, till, hub, clock, edits, lock, push, missed>>

\* The queue/clear endpoint.
ClearQueue ==
  /\ "cleared" \in world /\ ~Reading
  /\ queue' = [u \in Records |-> NotQueued]
  /\ UNCHANGED <<world, till, hub, clock, edits, hooks, lock, push, missed>>

\* The branch's own rows, as full_push and the reconcile sweep read them.
OwnRows == {u \in Records : Exists(till[u]) /\ till[u].branch = "branch"}
\* full_push fills the queue and then calls push.
FullPush ==
  /\ "cleared" \in world /\ ~Reading
  /\ queue' = Enqueued(queue, [u \in OwnRows |-> till[u]])
  /\ UNCHANGED <<world, till, hub, clock, edits, hooks, lock, push, missed>>

-----------------------------------------------------------------------------
(* SyncService.push.                                                       *)

StartPush(w) ==
  /\ push[w] = Idle /\ lock = None
  /\ lock' = w
  /\ push' = [push EXCEPT ![w].pc = "reconcile"]
  /\ UNCHANGED <<world, till, hub, clock, edits, hooks, queue, missed>>

\* (mutant) the sweep is not run
ReconcileNothing(w) ==
  /\ push[w].pc = "reconcile"
  /\ push' = [push EXCEPT ![w].pc = "read"]
  /\ UNCHANGED <<world, till, hub, clock, edits, hooks, queue, lock, missed>>
\* _reconcile_unsynced queues the branch's own unsynced rows that are not queued.
Reconcile(w) ==
  /\ push[w].pc = "reconcile"
  /\ queue' = Enqueued(queue, [u \in {x \in OwnRows : till[x].synced = 0 /\ ~Queued(x)}
                                 |-> till[u]])
  /\ push' = [push EXCEPT ![w].pc = "read"]
  /\ UNCHANGED <<world, till, hub, clock, edits, hooks, lock, missed>>

\* get_grouped: everything queued that is no dead letter.
Read(w) ==
  LET rows == [u \in {x \in Records : Queued(x) /\ queue[x].attempts < MaxAttempts}
                 |-> queue[u].row] IN
  /\ push[w].pc = "read"
  /\ push' = [push EXCEPT ![w].pc = IF DOMAIN rows = {} THEN "release" ELSE "send",
                          ![w].sent = rows, ![w].left = MaxRetries]
  /\ UNCHANGED <<world, till, hub, clock, edits, hooks, queue, lock, missed>>

\* The batch of the model w is at.
Batch(w) ==
  LET sent == push[w].sent
  IN  [u \in {x \in DOMAIN sent : Level(x) = push[w].level} |-> sent[u]]
\* push[w] goes on to the next model, or to what follows the last.
NextModel(p) ==
  [p EXCEPT !.level = @ + 1, !.pc = IF p.level = 2 THEN "unqueue" ELSE "send",
            !.left = MaxRetries]
StopPush(p) == [p EXCEPT !.pc = "unqueue"]

NoBatch(w) ==
  /\ push[w].pc = "send" /\ DOMAIN Batch(w) = {}
  /\ push' = [push EXCEPT ![w] = NextModel(@)]
  /\ UNCHANGED <<world, till, hub, clock, edits, hooks, queue, lock, missed>>

Rejectable == {u \in Records : "rejects" \in world /\ Level(u) = 1}
\* receive_batch: what fails of the batch when the records in bad raise, and what it writes.
Unapplied(batch, bad) == bad \cup {u \in DOMAIN batch : Missing(hub, u) /\ ~batch[u].deleted}
Written(good) == {u \in DOMAIN good : ~Missing(hub, u) /\ Accepts("hub", u, hub[u], good[u])}
\* The hub receives the batch.  Its stamps matter, and the clock moves, only for rows it
\* feeds back to branches.
Deliver(w, bad) ==
  LET batch == Batch(w)
      failed == Unapplied(batch, bad)
      good == [u \in DOMAIN batch \ failed |-> batch[u]]
      written == Written(good)
      stamp == clock + IF \E u \in written : hub[u].branch = "hub" /\ Exists(hub[u]) THEN 1 ELSE 0
  IN  /\ push[w].pc = "send" /\ DOMAIN batch # {} /\ push[w].left > 0
      /\ bad \subseteq DOMAIN batch
      /\ stamp <= MaxClock
      /\ hub' = Applied("hub", hub, good, stamp)
      /\ clock' = stamp
      /\ push' = [push EXCEPT ![w].pc = "answer", ![w].left = @ - 1,
                    ![w].failed = IF failed # {} /\ written = {} THEN DOMAIN batch ELSE failed]
      /\ UNCHANGED <<world, till, edits, hooks, queue, lock, missed>>

Failed(us) ==
  [u \in Records |-> IF u \in us /\ Queued(u)
                       THEN [queue[u] EXCEPT !.attempts = IF @ < MaxAttempts THEN @ + 1 ELSE @]
                       ELSE queue[u]]

\* The answer arrives.  What the hub could not apply stays queued, with an attempt more;
\* when it applied nothing, the push stops here.
Answer(w) ==
  LET us == DOMAIN Batch(w)
      p == [push[w] EXCEPT !.confirmed = @ \cup (us \ push[w].failed), !.failed = {}]
  IN  /\ push[w].pc = "answer"
      /\ push' = [push EXCEPT ![w] = IF us = push[w].failed THEN StopPush(p) ELSE NextModel(p)]
      /\ queue' = Failed(push[w].failed)
      /\ UNCHANGED <<world, till, hub, clock, edits, hooks, lock, missed>>

\* No connection, or the answer comes after the timeout: send_batch tries again.
NoAnswer(w) ==
  /\ \/ push[w].pc = "send" /\ DOMAIN Batch(w) # {} /\ "unreachable" \in world /\ push[w].left > 0
     \/ push[w].pc = "answer" /\ "late_answer" \in world
  /\ push' = [push EXCEPT ![w].pc = "send", ![w].failed = {},
                          ![w].left = IF push[w].pc = "send" THEN @ - 1 ELSE @]
  /\ UNCHANGED <<world, till, hub, clock, edits, hooks, queue, lock, missed>>

\* send_batch gave up: the whole batch failed, the push stops.
GiveUp(w) ==
  /\ push[w].pc = "send" /\ push[w].left = 0
  /\ push' = [push EXCEPT ![w] = StopPush(@)]
  /\ queue' = Failed(DOMAIN Batch(w))
  /\ UNCHANGED <<world, till, hub, clock, edits, hooks, lock, missed>>

\* SyncQueue.remove, by model and uuid.
Unqueue(w) ==
  /\ push[w].pc = "unqueue"
  /\ queue' = [u \in Records |-> IF u \in push[w].confirmed THEN NotQueued ELSE queue[u]]
  /\ push' = [push EXCEPT ![w].pc = "stamp"]
  /\ UNCHANGED <<world, till, hub, clock, edits, hooks, lock, missed>>

\* filter(uuid__in=confirmed).update(synced_at=now)
Stamp(w) ==
  /\ push[w].pc = "stamp"
  /\ till' = [u \in Records |-> IF u \in push[w].confirmed
                                  THEN [till[u] EXCEPT !.synced = 1] ELSE till[u]]
  /\ push' = [push EXCEPT ![w].pc = "release"]
  /\ UNCHANGED <<world, hub, clock, edits, hooks, queue, lock, missed>>

\* _release_lock gives up only the lock it holds.
Release(w) ==
  /\ push[w].pc = "release"
  /\ push' = [push EXCEPT ![w] = Idle]
  /\ lock' = IF lock = w THEN None ELSE lock
  /\ UNCHANGED <<world, till, hub, clock, edits, hooks, queue, missed>>

\* The process dies; its lock stays until it expires.
PushDies(w) ==
  /\ "crash" \in world /\ push[w] # Idle
  /\ push' = [push EXCEPT ![w] = Idle]
  /\ UNCHANGED <<world, till, hub, clock, edits, hooks, queue, lock, missed>>

\* LOCK_TTL passes: its holder has died, or is slower than that.
LockExpires ==
  /\ lock # None
  /\ push[lock] = Idle \/ "lock_expires" \in world
  /\ lock' = None
  /\ UNCHANGED <<world, till, hub, clock, edits, hooks, queue, push, missed>>

PushStep(w) ==
  \/ StartPush(w)
  \/ Reconcile(w)
  \/ Read(w)
  \/ NoBatch(w)
  \/ \E bad \in SUBSET Rejectable : Deliver(w, bad)
  \/ Answer(w)
  \/ GiveUp(w)
  \/ Unqueue(w)
  \/ Stamp(w)
  \/ Release(w)
=============================================================================
