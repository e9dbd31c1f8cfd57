------------------------------- MODULE Accounts -------------------------------
(***************************************************************************)
(* Users, their sessions, and the cache in front of them.  A lookup caches  *)
(* a session together with a copy of its user; a signal drops the copies    *)
(* when the user is saved or the session is deleted.  A deletion, and the    *)
(* save of a user pulled from the hub, are signalled inside a transaction,   *)
(* before they commit; every other save commits by itself, and is signalled  *)
(* after that.                                                               *)
(***************************************************************************)
EXTENDS FiniteSets

CONSTANTS
  Users,
  Sessions,    \* bound: sessions ever opened
  Requests,    \* threads that serve requests
  Clerks,      \* threads that serve the user editor
  Roles, Managing   \* roles, and those the managing endpoints admit

ASSUME AccountsAssumption == Managing \subseteq Roles

VARIABLES
  user,        \* User rows: status, is_deleted, role
  session,     \* Session rows: "unused" | "live" | "ended", and whose they are
  expired,     \* the sessions whose expires_at has passed
  cached,      \* of a session: the copy of its user kept for SESSION_CACHE_TTL, or NotCached
  request,     \* of a request: AtEase, or what it has read
  edit,        \* of a clerk: AtEase, or the whole row read
  dropping,    \* users saved whose post_save signal is still to come
  ending,      \* sets of sessions deleted, signalled, and not yet committed
  arriving     \* pulled users, each with its new row: saved, signalled, and not yet committed

accountVars == <<user, session, expired, cached, request, edit, dropping, ending, arriving>>

NotCached == [is |-> "not_cached"]
AnyUser == [status : {"ACTIVE", "SUSPENDED"}, deleted : BOOLEAN, role : Roles]
AtEase == [phase |-> "idle"]
Active(u) == u.status = "ACTIVE" /\ ~u.deleted
SessionsOf(u) == {s \in Sessions : session[s].is = "live" /\ session[s].of = u}
Owner(s) == session[s].of
Pulled(u) == \E a \in arriving : a[1] = u
Dropped(S) == [s \in Sessions |-> IF s \in S THEN NotCached ELSE cached[s]]

AccountsInit ==
  /\ user \in [Users -> {[status |-> "ACTIVE", deleted |-> FALSE, role |-> r] : r \in Roles}]
  /\ session = [s \in Sessions |-> [is |-> "unused"]]
  /\ expired = {}
  /\ cached = [s \in Sessions |-> NotCached]
  /\ request = [r \in Requests |-> AtEase]
  /\ edit = [c \in Clerks |-> AtEase]
  /\ dropping = {} /\ ending = {} /\ arriving = {}

-----------------------------------------------------------------------------
(* Signals, commits, time.                                                 *)

\* (mutant) the copies of an account that was saved are left in the cache
SavedUnheard(u) ==
  /\ u \in dropping
  /\ dropping' = dropping \ {u}
  /\ UNCHANGED <<user, session, expired, cached, request, edit, ending, arriving>>
\* post_save of a user: the copies kept for the sessions the user has are dropped.
SignalSaved(u) ==
  /\ u \in dropping
  /\ cached' = Dropped(SessionsOf(u)) /\ dropping' = dropping \ {u}
  /\ UNCHANGED <<user, session, expired, request, edit, ending, arriving>>
\* Sessions are deleted: the cache is told (by the caller and by post_delete) inside the
\* transaction of the deletion, ...
EndSessions(S) == cached' = Dropped(S) /\ ending' = ending \cup {S}
\* ... which commits after that.
CommitEnd(S) ==
  /\ S \in ending
  /\ session' = [s \in Sessions |->
       IF s \in S THEN [session[s] EXCEPT !.is = "ended"] ELSE session[s]]
  /\ ending' = ending \ {S}
  /\ UNCHANGED <<user, expired, cached, request, edit, dropping, arriving>>
\* A pull holds the row of the user while it compares, saves and signals (one that is deleted
\* here stays so), ...
PullSaves(u, fresh) ==
  /\ ~Pulled(u) /\ (user[u].deleted => fresh.deleted)
  /\ cached' = Dropped(SessionsOf(u)) /\ arriving' = arriving \cup {<<u, fresh>>}
  /\ UNCHANGED <<user, session, expired, request, edit, dropping, ending>>
\* ... and then commits, or is rolled back.
PullEnds(u, fresh) ==
  /\ <<u, fresh>> \in arriving /\ arriving' = arriving \ {<<u, fresh>>}
  /\ user' \in {user, [user EXCEPT ![u] = fresh]}
  /\ UNCHANGED <<session, expired, cached, request, edit, dropping, ending>>
\* SESSION_CACHE_TTL passes.
Evict(s) ==
  /\ cached[s].is = "copy" /\ cached' = Dropped({s})
  /\ UNCHANGED <<user, session, expired, request, edit, dropping, ending, arriving>>
Expire(s) ==
  /\ session[s].is = "live" /\ s \notin expired /\ expired' = expired \cup {s}
  /\ UNCHANGED <<user, session, cached, request, edit, dropping, ending, arriving>>

-----------------------------------------------------------------------------
(* Signing in.                                                             *)

\* The account is checked as read ...
LoginReads(r, u) ==
  /\ request[r] = AtEase /\ Active(user[u])
  /\ request' = [request EXCEPT ![r] = [phase |-> "login", of |-> u]]
  /\ UNCHANGED <<user, session, expired, cached, edit, dropping, ending, arriving>>
\* ... and the session opened; last_login_at alone is saved.
LoginOpens(r, s) ==
  /\ request[r].phase = "login" /\ session[s].is = "unused"
  /\ session' = [session EXCEPT ![s] = [is |-> "live", of |-> request[r].of]]
  /\ dropping' = dropping \cup {request[r].of}
  /\ request' = [request EXCEPT ![r] = AtEase]
  /\ UNCHANGED <<user, expired, cached, edit, ending, arriving>>

-----------------------------------------------------------------------------
(* Requests with a session.                                                *)

\* What the gates decide on a copy: login_required ends the session of an account that is
\* not active; both end an expired one.
EndsIt(s, copy, gate) ==
  ~copy.deleted /\ (s \in expired \/ (gate = "login" /\ copy.status # "ACTIVE"))
Admits(s, copy, gate) ==
  Active(copy) /\ s \notin expired /\ (gate = "managing" => copy.role \in Managing)

\* get_by_session_key: the cached copy, or else the row, ...
Reads(r, s) ==
  /\ request[r] = AtEase
  /\ \/ /\ cached[s].is = "copy"
        /\ request' = [request EXCEPT ![r] = [phase |-> "decide", s |-> s, copy |-> cached[s].user]]
     \/ /\ cached[s].is # "copy" /\ session[s].is = "live"
        /\ request' = [request EXCEPT ![r] = [phase |-> "put", s |-> s, copy |-> user[Owner(s)]]]
  /\ UNCHANGED <<user, session, expired, cached, edit, dropping, ending, arriving>>
\* ... which is then cached, whatever happened to it since.  History: late says that the
\* row has changed, or that its deletion or its pull has been signalled and not committed.
Late(s, copy) ==
  session[s].is # "live" \/ user[Owner(s)] # copy \/ Pulled(Owner(s)) \/ \E S \in ending : s \in S
Puts(r) ==
  /\ request[r].phase = "put"
  /\ LET s == request[r].s
         copy == request[r].copy
     IN cached' = [cached EXCEPT ![s] = [is |-> "copy", user |-> copy, late |-> Late(s, copy)]]
  /\ request' = [request EXCEPT ![r].phase = "decide"]
  /\ UNCHANGED <<user, session, expired, edit, dropping, ending, arriving>>

Turned(r, gate) ==
  /\ request[r].phase = "decide"
  /\ LET s == request[r].s
         copy == request[r].copy
     IN /\ ~Admits(s, copy, gate)
        /\ IF EndsIt(s, copy, gate) THEN EndSessions({s}) ELSE UNCHANGED <<cached, ending>>
  /\ request' = [request EXCEPT ![r] = AtEase]
  /\ UNCHANGED <<user, session, expired, edit, dropping, arriving>>

\* What an admitted request does to sessions: nothing, logout, logout_all, revoke_session.
Others(s) == SessionsOf(Owner(s)) \ {s}
Serves(r, S) ==
  /\ request[r].phase = "decide" /\ Admits(request[r].s, request[r].copy, "login")
  /\ LET s == request[r].s IN S \in {{}, {s}, SessionsOf(Owner(s))} \cup {{o} : o \in Others(s)}
  /\ IF S = {} THEN UNCHANGED <<cached, ending>> ELSE EndSessions(S)
  /\ request' = [request EXCEPT ![r] = AtEase]
  /\ UNCHANGED <<user, session, expired, edit, dropping, arriving>>
\* change_password saves the password alone, and then ends the other sessions.
SavesPassword(r) ==
  /\ request[r].phase = "decide" /\ Admits(request[r].s, request[r].copy, "login")
  /\ ~Pulled(Owner(request[r].s))
  /\ dropping' = dropping \cup {Owner(request[r].s)}
  /\ request' = [request EXCEPT ![r].phase = "revoke"]
  /\ UNCHANGED <<user, session, expired, cached, edit, ending, arriving>>
RevokesOthers(r) ==
  /\ request[r].phase = "revoke" /\ Owner(request[r].s) \notin dropping
  /\ EndSessions(Others(request[r].s))
  /\ request' = [request EXCEPT ![r] = AtEase]
  /\ UNCHANGED <<user, session, expired, edit, dropping, arriving>>

-----------------------------------------------------------------------------
(* The user editor.  A save waits while a pull holds the row.              *)

EditReads(c, u) ==
  /\ edit[c] = AtEase /\ ~user[u].deleted
  /\ edit' = [edit EXCEPT ![c] = [phase |-> "save", of |-> u, row |-> user[u]]]
  /\ UNCHANGED <<user, session, expired, cached, request, dropping, ending, arriving>>
\* update_user saves every column, those it did not change as it read them.
EditSaves(c, role, status) ==
  /\ edit[c].phase = "save" /\ ~Pulled(edit[c].of)
  /\ user' = [user EXCEPT ![edit[c].of] = [edit[c].row EXCEPT !.role = role, !.status = status]]
  /\ dropping' = dropping \cup {edit[c].of}
  /\ edit' = [edit EXCEPT ![c] = AtEase]
  /\ UNCHANGED <<session, expired, cached, request, ending, arriving>>
\* delete_user saves the two columns it sets.
DeleteUser(u) ==
  /\ ~user[u].deleted /\ ~Pulled(u)
  /\ user' = [user EXCEPT ![u].status = "SUSPENDED", ![u].deleted = TRUE]
  /\ dropping' = dropping \cup {u}
  /\ UNCHANGED <<session, expired, cached, request, edit, ending, arriving>>

-----------------------------------------------------------------------------
AccountsNext ==
  \/ \E u \in Users : SignalSaved(u) \/ DeleteUser(u)
  \/ \E u \in Users, fresh \in AnyUser : PullSaves(u, fresh) \/ PullEnds(u, fresh)
  \/ \E S \in ending : CommitEnd(S)
  \/ \E s \in Sessions : Evict(s) \/ Expire(s)
  \/ \E r \in Requests :
       \/ \E u \in Users : LoginReads(r, u)
       \/ \E s \in Sessions : LoginOpens(r, s) \/ Reads(r, s)
       \/ Puts(r) \/ SavesPassword(r) \/ RevokesOthers(r)
       \/ \E gate \in {"login", "managing"} : Turned(r, gate)
       \/ \E S \in SUBSET Sessions : Serves(r, S)
  \/ \E c \in Clerks :
       \/ \E u \in Users : EditReads(c, u)
       \/ \E role \in Roles, status \in {"ACTIVE", "SUSPENDED"} : EditSaves(c, role, status)

-----------------------------------------------------------------------------
(* Properties.                                                             *)

\* Whoever saves an account or ends a session, and in whatever order the signals, commits
\* and lookups come: a copy in the cache is the account as it stands and its session is
\* alive, but for the moment between a save and its signal, for copies read before a change
\* and put after it, and for copies put between the signal of a deletion or a pull and its
\* commit; those two kinds stay until SESSION_CACHE_TTL passes, or the next signal.
CopiesAreCurrent ==
  \A s \in Sessions :
    cached[s].is = "copy" /\ ~cached[s].late =>
      /\ session[s].is = "live"
      /\ Owner(s) \in dropping \/ cached[s].user = user[Owner(s)]
=============================================================================
