-------------------------------- MODULE Notices --------------------------------
(***************************************************************************)
(* Messages of the staff to their Telegram chats: the in-memory line that   *)
(* one worker thread empties (worker.py), and the list in the cache of what *)
(* could not be delivered, which the back office processes                  *)
(* (queue_service.py).                                                      *)
(***************************************************************************)
EXTENDS Integers, Sequences, SequencesExt

CONSTANTS
  Notes, Chats,
  BucketOf,     \* bucket_for: the category of each note
  MaxPending,   \* MAX_PENDING
  Offices,      \* requests that process the list
  MaxMutes,     \* bound: changes of the routing
  MaxRuns       \* bound: times the list is processed

ASSUME NoticeAssumption == MaxPending \in Nat \ {0} /\ MaxMutes \in Nat /\ MaxRuns \in Nat

VARIABLES
  line,       \* notes handed to the worker
  pending,    \* the list in the cache: a note and the chats it is still to go to
  run,        \* of an office: what it still has of the list it read, and what failed again
  muted,      \* chats that do not want a category
  due,        \* the chats a note is for, once that was decided
  received,   \* how often a chat got a note
  excused,    \* notes that something happened to
  mutes, runs

noticeVars == <<line, pending, run, muted, due, received, excused, mutes, runs>>

NoRun == [on |-> FALSE, left |-> <<>>, failed |-> <<>>]
Undecided == {}
Item(n, chats) == [note |-> n, chats |-> chats]
NotesIn(items) == {items[i].note : i \in DOMAIN items}
Waits(items, n, c) == \E i \in DOMAIN items : items[i].note = n /\ c \in items[i].chats
RecipientsFor(n) == {c \in Chats : <<c, BucketOf[n]>> \notin muted}

NoticesInit ==
  /\ line = <<>> /\ pending = <<>>
  /\ run = [o \in Offices |-> NoRun]
  /\ muted = {} /\ excused = {}
  /\ due = [n \in Notes |-> Undecided]
  /\ received = [n \in Notes |-> [c \in Chats |-> 0]]
  /\ mutes = 0 /\ runs = 0

-----------------------------------------------------------------------------
\* send_to_chats: the chats in failed report an error; those in late of them got the note.
Sent(n, chats, failed, late) ==
  received' = [received EXCEPT ![n] = [c \in Chats |->
    IF c \in (chats \ failed) \cup late THEN received[n][c] + 1 ELSE received[n][c]]]
Outcomes(chats) == {x \in (SUBSET chats) \X (SUBSET chats) : x[2] \subseteq x[1]}

\* add: what is too much is dropped from the head.
Added(items, item) ==
  LET all == Append(items, item)
  IN IF Len(all) > MaxPending THEN SubSeq(all, Len(all) - MaxPending + 1, Len(all)) ELSE all
DroppedBy(items) == IF Len(items) >= MaxPending THEN {items[1].note} ELSE {}

\* (mutant) the whole note is queued again
StillAll(chats, failed) == IF failed = {} THEN {} ELSE chats
Still(chats, failed) == failed

Notify(n) ==
  /\ due[n] = Undecided /\ n \notin excused /\ \A i \in DOMAIN line : line[i] # n
  /\ \A c \in Chats : received[n][c] = 0
  /\ line' = Append(line, n)
  /\ UNCHANGED <<pending, run, muted, due, received, excused, mutes, runs>>

\* _dispatch: whom it is for is decided now; what failed goes to the list.
Dispatch(failed, late) ==
  LET n == Head(line)
      chats == RecipientsFor(n)
      still == Still(chats, failed)
  IN /\ line' = Tail(line)
     /\ due' = [due EXCEPT ![n] = chats]
     /\ Sent(n, chats, failed, late)
     /\ pending' = IF still = {} THEN pending ELSE Added(pending, Item(n, still))
     /\ excused' = excused \cup (IF chats = {} \/ late # {} THEN {n} ELSE {})
                           \cup (IF still = {} THEN {} ELSE DroppedBy(pending))
     /\ UNCHANGED <<run, muted, mutes, runs>>
\* The log row cannot be written: the note is queued for every chat there is, or, when that
\* fails too, not at all.
DispatchFails(requeued) ==
  LET n == Head(line)
  IN /\ line' = Tail(line)
     /\ due' = [due EXCEPT ![n] = RecipientsFor(n)]
     /\ Sent(n, RecipientsFor(n), {}, {})
     /\ pending' = IF requeued THEN Added(pending, Item(n, Chats)) ELSE pending
     /\ excused' = excused \cup {n} \cup (IF requeued THEN DroppedBy(pending) ELSE {})
     /\ UNCHANGED <<run, muted, mutes, runs>>

\* The process ends: what is in its memory is gone.
WorkerDies ==
  /\ line # <<>>
  /\ line' = <<>> /\ excused' = excused \cup ToSet(line)
  /\ UNCHANGED <<pending, run, muted, due, received, mutes, runs>>

-----------------------------------------------------------------------------
\* process: the list is read,
StartRun(o) ==
  /\ ~run[o].on /\ pending # <<>> /\ runs < MaxRuns
  /\ run' = [run EXCEPT ![o] = [on |-> TRUE, left |-> pending, failed |-> <<>>]]
  /\ runs' = runs + 1
  /\ excused' = excused \cup IF \E q \in Offices : run[q].on THEN NotesIn(pending) ELSE {}
  /\ UNCHANGED <<line, pending, muted, due, received, mutes>>
\* sent one by one,
RunSends(o, failed, late) ==
  LET item == Head(run[o].left)
      still == Still(item.chats, failed)
  IN /\ Sent(item.note, item.chats, failed, late)
     /\ run' = [run EXCEPT ![o].left = Tail(@),
          ![o].failed = IF still = {} THEN @ ELSE Append(@, Item(item.note, still))]
     /\ excused' = IF late = {} THEN excused ELSE excused \cup {item.note}
     /\ UNCHANGED <<line, pending, muted, due, mutes, runs>>
\* and what failed is written over whatever the list is by then: a note that was put there
\* meanwhile is lost.
EndRun(o) ==
  /\ run[o].on /\ run[o].left = <<>>
  /\ pending' = run[o].failed
  /\ excused' = excused \cup {n \in NotesIn(pending) :
       \E c \in Chats : Waits(pending, n, c) /\ ~Waits(run[o].failed, n, c) /\ received[n][c] = 0}
  /\ run' = [run EXCEPT ![o] = NoRun]
  /\ UNCHANGED <<line, muted, due, received, mutes, runs>>
\* The request dies: the list is what it was, sent notes included.
RunDies(o) ==
  /\ run[o].on
  /\ excused' = excused \cup NotesIn(pending)
  /\ run' = [run EXCEPT ![o] = NoRun]
  /\ UNCHANGED <<line, pending, muted, due, received, mutes, runs>>

\* clear, and the day after which the cache forgets the list.
ClearPending ==
  /\ pending # <<>>
  /\ pending' = <<>> /\ excused' = excused \cup NotesIn(pending)
  /\ UNCHANGED <<line, run, muted, due, received, mutes, runs>>

SetRouting(c, bucket) ==
  /\ mutes < MaxMutes /\ mutes' = mutes + 1
  /\ muted' = IF <<c, bucket>> \in muted THEN muted \ {<<c, bucket>>}
                                        ELSE muted \cup {<<c, bucket>>}
  /\ UNCHANGED <<line, pending, run, due, received, excused, runs>>

NoticesNext ==
  \/ \E n \in Notes : Notify(n)
  \/ line # <<>> /\ \E x \in Outcomes(RecipientsFor(Head(line))) : Dispatch(x[1], x[2])
  \/ line # <<>> /\ \E requeued \in BOOLEAN : DispatchFails(requeued)
  \/ WorkerDies \/ ClearPending
  \/ \E o \in Offices :
       \/ StartRun(o) \/ EndRun(o) \/ RunDies(o)
       \/ run[o].left # <<>> /\ \E x \in Outcomes(Head(run[o].left).chats) : RunSends(o, x[1], x[2])
  \/ \E c \in Chats, bucket \in {BucketOf[n] : n \in Notes} : SetRouting(c, bucket)

-----------------------------------------------------------------------------
(* Properties                                                              *)

Held(n, c) ==
  \/ Waits(pending, n, c)
  \/ \E o \in Offices : run[o].on /\ (Waits(run[o].left, n, c) \/ Waits(run[o].failed, n, c))

\* A note reaches each chat it is for once, or is kept for it, however often sending fails and
\* whatever is queued in between (worker.py:122-123, "so the retry doesn't duplicate the message
\* to chats that already received it"). Left out: notes something happened to that the code
\* does not guard against.
NoticesArrive ==
  \A n \in Notes \ excused : \A c \in due[n] :
    /\ received[n][c] <= 1
    /\ received[n][c] = 0 => Held(n, c)
=============================================================================
