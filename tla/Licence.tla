-------------------------------- MODULE Licence --------------------------------
(***************************************************************************)
(* The licence: the singleton row, the two caches in front of it, the       *)
(* heartbeats and setups that change it after asking the control center,    *)
(* the offline activation, and the switch that every request passes.        *)
(* An instant is an answer of the control center or the passing of time;    *)
(* a request is short against the time a cache entry lives.                 *)
(***************************************************************************)
EXTENDS Integers

CONSTANTS
  Threads,     \* threads that talk to the control center
  Expiries,        \* expires_at of an answer or an offline activation; 0 is none
  Grace,       \* LICENSE_GRACE_DAYS, in instants
  Ttl,         \* LICENSE_STATE_CACHE_TTL, in instants
  HostLag,     \* how far the host's clock is behind the control center's
  LastInstant, \* bound
  MaxCalls,    \* bound: calls to the control center
  MaxLicenceDeeds     \* bound: offline activations, resets and changes of the Fernet key

ASSUME LicenceAssumption ==
  /\ Expiries \subseteq Nat /\ Grace \in Nat /\ Ttl \in Nat \ {0} /\ HostLag \in Nat
  /\ LastInstant \in Nat /\ MaxCalls \in Nat /\ MaxLicenceDeeds \in Nat

VARIABLES
  row,         \* License; seen is last_server_now and last_heartbeat_at, 0 is none
  rowCache,    \* license:row:v1, in the cache of the server and in another process's
  stateCache,  \* license:state:v1 in the server's cache
  apart,       \* each process has a cache of its own (LocMem), or all share one (Redis)
  reading,     \* a request that missed the cache: the row it has in hand
  exchange,    \* a call of a thread to the control center
  licenceForm, \* the row that activate_offline has in hand, and where
  fernet,      \* the key that the licence key is encrypted with
  now,
  since,       \* since when the row blocks, or 0
  newest,      \* the newest answer that came home
  own,         \* the row's status was last set by the install itself
  calls, licenceDeeds

licenceVars == <<row, rowCache, stateCache, apart, reading, exchange, licenceForm, fernet, now, since,
                 newest, own, calls, licenceDeeds>>

Here == "here"
There == "there"
Places == IF apart THEN {Here, There} ELSE {Here}
Empty == <<>>
Silent == [kind |-> "none"]
Unregistered == [status |-> "UNREGISTERED", key |-> 0, ends |-> 0, seen |-> 0]

\* A new install, or one that the control center has just let in.
LicenceInit ==
  /\ row \in {Unregistered} \cup
       {[status |-> "ACTIVE", key |-> 1, ends |-> e, seen |-> 1] : e \in Expiries}
  /\ rowCache = [p \in {Here, There} |-> Empty] /\ stateCache = Empty
  /\ apart \in BOOLEAN
  /\ reading = Empty /\ licenceForm = Empty
  /\ exchange = [c \in Threads |-> Silent]
  /\ fernet = 1 /\ now = 1
  /\ own = (row = Unregistered) /\ since = IF own THEN 1 ELSE 0
  /\ newest = [at |-> row.seen, status |-> row.status, ends |-> row.ends]
  /\ calls = 0 /\ licenceDeeds = 0

-----------------------------------------------------------------------------
(* LicenseState.is_blocked                                                 *)

\* _now_anchored: the later of the host's clock and the last known clock of the control center.
Anchored(r, t) == IF t - HostLag > r.seen THEN t - HostLag ELSE r.seen
BlocksAt(r, t) ==
  \/ r.status # "ACTIVE"
  \/ r.ends > 0 /\ Anchored(r, t) > r.ends
  \/ r.seen > 0 /\ Anchored(r, t) > r.seen + Grace
Blocks(r) == BlocksAt(r, now)

-----------------------------------------------------------------------------
(* License.load and License.save                                           *)

Loaded(place) == IF rowCache[place] = Empty THEN row ELSE rowCache[place][1]
Put(place, r) ==
  IF rowCache[place] = Empty THEN [rowCache EXCEPT ![place] = <<r, now + Ttl>>] ELSE rowCache

\* Both entries of the cache of whoever saved are dropped.
Save(place, r) ==
  /\ row' = r
  /\ rowCache' = [rowCache EXCEPT ![place] = Empty]
  /\ stateCache' = IF place = Here THEN Empty ELSE stateCache

\* A call that is not made after all: a heartbeat or a change of plan before the setup, a setup
\* after it. It has loaded the row.
Look(place) ==
  /\ rowCache[place] = Empty /\ calls < MaxCalls
  /\ rowCache' = Put(place, row)
  /\ calls' = calls + 1
  /\ UNCHANGED <<row, stateCache, apart, reading, exchange, licenceForm, fernet, now, newest,
                 own, licenceDeeds>>

\* get_state: on a miss the row is loaded; meanwhile it may be saved; then both entries are put.
RequestLoads ==
  /\ stateCache = Empty /\ reading = Empty
  /\ reading' = <<Loaded(Here)>>
  /\ UNCHANGED <<row, rowCache, stateCache, apart, exchange, licenceForm, fernet, now, newest, own,
                 calls, licenceDeeds>>
RequestPuts ==
  /\ reading # Empty
  /\ rowCache' = Put(Here, reading[1])
  /\ stateCache' = <<reading[1], now + Ttl>>
  /\ reading' = Empty
  /\ UNCHANGED <<row, apart, exchange, licenceForm, fernet, now, newest, own, calls,
                 licenceDeeds>>

-----------------------------------------------------------------------------
(* Calls to the control center                                             *)

Begin(c, kind, place, r) ==
  /\ exchange[c] = Silent /\ calls < MaxCalls
  /\ exchange' = [exchange EXCEPT ![c] = [kind |-> kind, place |-> place, at |-> 0]]
  /\ calls' = calls + 1
  /\ rowCache' = Put(place, r)
  /\ UNCHANGED <<row, stateCache, apart, reading, licenceForm, fernet, now, newest, own,
                 licenceDeeds>>
BeginHeartbeat(c, place) ==
  LET r == Loaded(place)
  IN /\ r.status # "UNREGISTERED" /\ r.key = fernet
     /\ Begin(c, "heartbeat", place, r)
BeginSetup(c) ==
  LET r == Loaded(Here)
  IN r.status = "UNREGISTERED" /\ Begin(c, "setup", Here, r)

\* The licence key cannot be decrypted, or there is none.
KeyUnreadable(place) ==
  LET r == Loaded(place)
  IN /\ r.status # "UNREGISTERED" /\ r.key # fernet
     /\ row.status # "SUSPENDED"
     /\ Save(place, [row EXCEPT !.status = "SUSPENDED"])
     /\ own' = TRUE
     /\ UNCHANGED <<apart, reading, exchange, licenceForm, fernet, now, newest, calls,
                    licenceDeeds>>

TimeIs(t) ==
  /\ t <= LastInstant /\ reading = Empty
  /\ now' = t
  /\ rowCache' = [p \in {Here, There} |-> IF rowCache[p] # Empty /\ t < rowCache[p][2]
                                          THEN rowCache[p] ELSE Empty]
  /\ stateCache' = IF stateCache # Empty /\ t < stateCache[2] THEN stateCache ELSE Empty

\* External: the control center says how things stand (EXPIRED blocks as SUSPENDED does, and is
\* left out), or that it does not know the key.
Answer(c, status, ends) ==
  /\ exchange[c].kind \in {"heartbeat", "setup"} /\ exchange[c].at = 0
  /\ exchange[c].kind = "setup" => status = "ACTIVE"
  /\ TimeIs(now + 1)
  /\ exchange' = [exchange EXCEPT ![c] = [kind |-> exchange[c].kind, place |-> exchange[c].place, at |-> now + 1,
                                  status |-> status, ends |-> ends]]
  /\ UNCHANGED <<row, apart, reading, licenceForm, fernet, newest, own, calls, licenceDeeds>>

\* No answer, one that is not signed, or an error of the control center.
GiveUp(c) ==
  /\ exchange[c] # Silent
  /\ exchange' = [exchange EXCEPT ![c] = Silent]
  /\ UNCHANGED <<row, rowCache, stateCache, apart, reading, licenceForm, fernet, now, newest, own,
                 calls, licenceDeeds>>

\* _apply_heartbeat_response, unless it is no newer than what was applied; a status that is
\* not known leaves the one there is.
Stale(r, a) == r.seen > 0 /\ a.at <= r.seen
AppliedTo(r, a) ==
  [r EXCEPT !.status = IF a.status = "other" THEN @ ELSE a.status, !.ends = a.ends, !.seen = a.at]
\* (mutant) answers are applied as they come
ApplyAny(place, r, a) ==
  /\ Save(place, AppliedTo(r, a))
  /\ own' = (a.status = "other")
Apply(place, r, a) ==
  IF Stale(row, a) THEN UNCHANGED <<row, rowCache, stateCache, own>>
  ELSE /\ Save(place, AppliedTo(r, a))
       /\ own' = (a.status = "other")
Heard(a) ==
  newest' = IF a.at > newest.at THEN [at |-> a.at, status |-> a.status, ends |-> a.ends] ELSE newest

\* The row is locked, but its status is not looked at again.
HeartbeatDone(c) ==
  LET a == exchange[c]
  IN /\ a.kind = "heartbeat" /\ a.at > 0
     /\ IF a.status = "rejected"
          THEN /\ Save(a.place, [row EXCEPT !.status = "SUSPENDED"])
               /\ own' = TRUE /\ UNCHANGED newest
          ELSE Apply(a.place, row, a) /\ Heard(a)
     /\ exchange' = [exchange EXCEPT ![c] = Silent]
     /\ UNCHANGED <<apart, reading, licenceForm, fernet, now, calls, licenceDeeds>>

\* register looks again under the lock: another setup, or a heartbeat, may have been first.
SetupDone(c) ==
  LET a == exchange[c]
  IN /\ a.kind = "setup" /\ a.at > 0
     /\ IF row.status = "UNREGISTERED"
          THEN Apply(a.place, [row EXCEPT !.key = fernet], a) /\ Heard(a)
          ELSE UNCHANGED <<row, rowCache, stateCache, own, newest>>
     /\ exchange' = [exchange EXCEPT ![c] = Silent]
     /\ UNCHANGED <<apart, reading, licenceForm, fernet, now, calls, licenceDeeds>>

-----------------------------------------------------------------------------
(* activate_offline: loads the row, maybe out of the cache, and saves it whole *)

OpenForm(place) ==
  /\ licenceForm = Empty /\ licenceDeeds < MaxLicenceDeeds
  /\ licenceForm' = <<place, Loaded(place)>>
  /\ rowCache' = Put(place, Loaded(place))
  /\ licenceDeeds' = licenceDeeds + 1
  /\ UNCHANGED <<row, stateCache, apart, reading, exchange, fernet, now, newest, own, calls>>
\* An install that saved over a newer answer has no answer to stand by any more.
SaveLicenceForm(changed) ==
  /\ Save(licenceForm[1], changed)
  /\ own' = TRUE
  /\ newest' = IF changed.seen = row.seen THEN newest ELSE [newest EXCEPT !.at = changed.seen]
  /\ licenceForm' = Empty
  /\ UNCHANGED <<apart, reading, exchange, fernet, now, calls, licenceDeeds>>
Deactivate ==
  licenceForm # Empty /\ SaveLicenceForm([licenceForm[2] EXCEPT !.status = "UNREGISTERED", !.ends = 0])
ActivateOffline(ends) ==
  licenceForm # Empty /\ SaveLicenceForm([licenceForm[2] EXCEPT !.status = "ACTIVE", !.ends = ends])

\* LICENSE_FERNET_KEY is not what it was.
NewFernetKey ==
  /\ fernet = 1 /\ licenceDeeds < MaxLicenceDeeds
  /\ fernet' = 2 /\ licenceDeeds' = licenceDeeds + 1
  /\ UNCHANGED <<row, rowCache, stateCache, apart, reading, exchange, licenceForm, now, newest,
                 own, calls>>

LicenceTimePasses ==
  /\ TimeIs(now + 1)
  /\ UNCHANGED <<row, apart, reading, exchange, licenceForm, fernet, newest, own, calls,
                 licenceDeeds>>

LicenceStep ==
  \/ \E place \in Places : Look(place) \/ KeyUnreadable(place) \/ OpenForm(place)
  \/ RequestLoads \/ RequestPuts
  \/ \E c \in Threads :
       \/ \E place \in Places : BeginHeartbeat(c, place)
       \/ BeginSetup(c) \/ HeartbeatDone(c) \/ SetupDone(c) \/ GiveUp(c)
       \/ \E status \in {"ACTIVE", "SUSPENDED", "other", "rejected"}, ends \in Expiries :
            Answer(c, status, ends)
  \/ \E ends \in Expiries : ActivateOffline(ends)
  \/ Deactivate \/ NewFernetKey \/ LicenceTimePasses

LicenceNext ==
  /\ LicenceStep
  /\ since' = IF ~BlocksAt(row', now') THEN 0 ELSE IF since = 0 THEN now' ELSE since

-----------------------------------------------------------------------------
(* Properties                                                              *)

\* Whatever order answers come home in, the row stands as the newest of them said, and goes on
\* from there, unless the install itself changed it since: a late answer revives nothing
\* (heartbeat.py:252-260). And a request is let through against a row that blocks for no longer
\* than an entry of each of the two caches lives, one after the other, whoever saved the row in
\* whichever process and whatever a slow request put back after it (state.py:166, models.py:113).
LicenceFollows ==
  /\ newest.at <= row.seen
  /\ ~own => /\ row.seen = newest.at
             /\ row.status = newest.status /\ row.ends = newest.ends
  /\ stateCache # Empty /\ ~Blocks(stateCache[1]) /\ Blocks(row) =>
       now - since <= 2 * (Ttl - 1)
=============================================================================
