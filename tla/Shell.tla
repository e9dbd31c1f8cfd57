-------------------------------- MODULE Shell --------------------------------
(***************************************************************************)
(* The desktop program around the till: the files it keeps, the server it   *)
(* runs in its own process, the thread that keeps that server up, and the   *)
(* control panel, each call of which has a thread of its own.  No call      *)
(* takes a lock, and the program may be closed or die at any step.          *)
(***************************************************************************)
EXTENDS Integers, FiniteSets

CONSTANTS
  Panels,       \* threads of the control panel
  Tokens,       \* the secrets an operator may enter
  MaxLaunches, MaxClicks  \* bounds

ASSUME ShellAssumption ==
  IsFiniteSet(Panels) /\ Tokens \subseteq Nat \ {0} /\ MaxLaunches \in Nat /\ MaxClicks \in Nat

VARIABLES
  disk,         \* the data directory
  app,          \* the process: is it up, has Django been set up, the Fernet key it knows
  server,       \* does the server serve, and does the manager know of it
  doing,        \* of a thread: the call it serves, and how far it is
  entered,      \* the secret that was entered last
  minted,       \* keys and passwords made so far
  launches, clicks,
  crossed,      \* kinds of steps that two threads were at once in the middle of
  torn          \* kinds of steps in the middle of which the program died

shellVars == <<disk, app, server, doing, entered, minted, launches, clicks, crossed, torn>>

Autostart == "autostart"
ShellThreads == Panels \cup {Autostart}
Mask == -1
Rest == [pc |-> "rest", call |-> "none", has |-> 0]
NoDatabase == [made |-> FALSE, admin |-> 0, key |-> 0]
\* A new install, or what is left of one.
Wiped == [fernet |-> 0, creds |-> 0, token |-> 0, armed |-> FALSE, db |-> NoDatabase]
Down == [up |-> FALSE, ready |-> FALSE, fernet |-> 0]

ShellInit ==
  /\ disk = Wiped /\ app = Down /\ server = [serves |-> FALSE, held |-> FALSE]
  /\ doing = [t \in ShellThreads |-> Rest]
  /\ entered = 0 /\ minted = 0 /\ launches = 0 /\ clicks = 0
  /\ crossed = {} /\ torn = {}

Goes(t, pc) == doing' = [doing EXCEPT ![t].pc = pc]
GoesWith(t, pc, v) == doing' = [doing EXCEPT ![t].pc = pc, ![t].has = v]
Ends(t) == doing' = [doing EXCEPT ![t] = Rest]
At(t, pc) == doing[t].pc = pc
IsRunning == server.held /\ server.serves

-----------------------------------------------------------------------------
(* The process                                                             *)

\* main: single instance; the server is brought up in the background.
LaunchApp ==
  /\ ~app.up /\ launches < MaxLaunches
  /\ app' = [Down EXCEPT !.up = TRUE] /\ launches' = launches + 1
  /\ doing' = [doing EXCEPT ![Autostart] = [pc |-> "boot", call |-> "serve", has |-> 0]]
  /\ UNCHANGED <<disk, server, entered, minted, clicks, torn>>
\* The window is closed, or the program dies: its threads go with it.
QuitApp ==
  /\ app.up /\ app' = Down
  /\ server' = [serves |-> FALSE, held |-> FALSE]
  /\ doing' = [t \in ShellThreads |-> Rest]
  /\ torn' = torn \cup ({"arm", "note"} \cap {doing[t].pc : t \in ShellThreads})
  /\ UNCHANGED <<disk, entered, minted, launches, clicks>>
\* The watchdog of _autostart_backend.
WatchServer ==
  /\ app.up /\ doing[Autostart] = Rest /\ ~IsRunning
  /\ doing' = [doing EXCEPT ![Autostart] = [pc |-> "start", call |-> "start", has |-> 0]]
  /\ UNCHANGED <<disk, app, server, entered, minted, launches, clicks, torn>>
Entry(call) ==
  CASE call \in {"setup", "register"} -> "boot"
    [] call \in {"stop", "flush", "reset"} -> "stop"
    [] OTHER -> call
Click(t, call) ==
  /\ app.up /\ doing[t] = Rest /\ clicks < MaxClicks /\ clicks' = clicks + 1
  /\ doing' = [doing EXCEPT ![t] = [pc |-> Entry(call), call |-> call, has |-> 0]]
  /\ UNCHANGED <<disk, app, server, entered, minted, launches, torn>>

-----------------------------------------------------------------------------
(* ensure_django                                                           *)

AfterBoot(call) ==
  CASE call = "register" -> "register"
    [] call = "start" -> "start"
    [] OTHER -> "migrate"
Booted(t) == IF doing[t].call = "config" THEN Ends(t) ELSE Goes(t, AfterBoot(doing[t].call))

Boot(t) ==
  /\ At(t, "boot")
  /\ IF app.ready THEN Booted(t) ELSE Goes(t, IF disk.armed THEN "finish" ELSE "key")
  /\ UNCHANGED <<disk, app, server, entered, minted, launches, clicks, torn>>
\* A database that somebody has open cannot be deleted, and is left.
Left == {NoDatabase} \cup IF app.ready THEN {disk.db} ELSE {}
\* consume_reset_pending
FinishReset(t) ==
  /\ At(t, "finish")
  /\ \E db \in Left : disk' = [Wiped EXCEPT !.db = db]
  /\ entered' = 0 /\ Goes(t, "key")
  /\ UNCHANGED <<app, server, minted, launches, clicks, torn>>
\* load_or_generate_fernet
LoadKey(t) ==
  /\ At(t, "key")
  /\ IF disk.fernet # 0 THEN GoesWith(t, "env", disk.fernet) /\ UNCHANGED minted
     ELSE GoesWith(t, "write", minted + 1) /\ minted' = minted + 1
  /\ UNCHANGED <<disk, app, server, entered, launches, clicks, torn>>
WriteKey(t) ==
  /\ At(t, "write")
  /\ disk' = [disk EXCEPT !.fernet = doing[t].has] /\ Goes(t, "env")
  /\ UNCHANGED <<app, server, entered, minted, launches, clicks, torn>>
\* The environment keeps the key it has.
SetEnvironment(t) ==
  /\ At(t, "env")
  /\ app' = [app EXCEPT !.ready = TRUE, !.fernet = IF @ = 0 THEN doing[t].has ELSE @]
  /\ Booted(t)
  /\ UNCHANGED <<disk, server, entered, minted, launches, clicks, torn>>

-----------------------------------------------------------------------------
(* first_time_install                                                      *)

Installed(t) == IF doing[t].call = "setup" THEN Ends(t) ELSE Goes(t, "start")

Migrate(t) ==
  /\ At(t, "migrate")
  /\ disk' = [disk EXCEPT !.db.made = TRUE] /\ Goes(t, "look")
  /\ UNCHANGED <<app, server, entered, minted, launches, clicks, torn>>
\* With no user yet, a password is chosen here and not by bootstrap_admin.
LookForUsers(t) ==
  /\ At(t, "look")
  /\ IF disk.db.made /\ disk.db.admin = 0
       THEN GoesWith(t, "create", minted + 1) /\ minted' = minted + 1
       ELSE Installed(t) /\ UNCHANGED minted
  /\ UNCHANGED <<disk, app, server, entered, launches, clicks, torn>>
\* bootstrap_admin looks again, and says nothing when it finds a user.
BootstrapAdmin(t) ==
  /\ At(t, "create")
  /\ IF ~disk.db.made THEN Installed(t) /\ UNCHANGED disk
     ELSE /\ disk' = [disk EXCEPT !.db.admin = IF @ = 0 THEN doing[t].has ELSE @]
          /\ Goes(t, "note")
  /\ UNCHANGED <<app, server, entered, minted, launches, clicks, torn>>
WriteAdminCreds(t) ==
  /\ At(t, "note")
  /\ disk' = [disk EXCEPT !.creds = doing[t].has] /\ Installed(t)
  /\ UNCHANGED <<app, server, entered, minted, launches, clicks, torn>>

-----------------------------------------------------------------------------
(* ServerManager.start and stop                                            *)

\* A port that is in use is not bound again.
StartServer(t) ==
  /\ At(t, "start")
  /\ IF IsRunning THEN Ends(t) /\ UNCHANGED server
     ELSE IF ~app.ready
       THEN doing' = [doing EXCEPT ![t].pc = "boot", ![t].call = "start"] /\ UNCHANGED server
     ELSE /\ server' = IF server.serves THEN server ELSE [serves |-> TRUE, held |-> TRUE]
          /\ Ends(t)
  /\ UNCHANGED <<disk, app, entered, minted, launches, clicks, torn>>
\* stop closes the server it knows of, and then forgets it.
CloseServer(t) ==
  /\ At(t, "stop")
  /\ server' = [server EXCEPT !.serves = @ /\ ~server.held] /\ Goes(t, "forget")
  /\ UNCHANGED <<disk, app, entered, minted, launches, clicks, torn>>
ForgetServer(t) ==
  /\ At(t, "forget")
  /\ server' = [server EXCEPT !.held = FALSE]
  /\ IF doing[t].call = "stop" THEN Ends(t) ELSE Goes(t, doing[t].call)
  /\ UNCHANGED <<disk, app, entered, minted, launches, clicks, torn>>

-----------------------------------------------------------------------------
(* flush_database, factory_reset, save_config, license_register            *)

FlushDatabase(t) ==
  /\ At(t, "flush")
  /\ \E db \in Left : disk' = [disk EXCEPT !.db = db]
  /\ Goes(t, "boot")
  /\ UNCHANGED <<app, server, entered, minted, launches, clicks, torn>>
\* Everything is deleted, and then what is left marked for the next launch.
WipeData(t) ==
  /\ At(t, "reset")
  /\ \E db \in Left : disk' = [Wiped EXCEPT !.db = db, !.armed = disk.armed]
  /\ entered' = 0 /\ Goes(t, "arm")
  /\ UNCHANGED <<app, server, minted, launches, clicks, torn>>
\* (mutant) what is left is left
ArmNothing(t) ==
  /\ At(t, "arm") /\ Ends(t)
  /\ UNCHANGED <<disk, app, server, entered, minted, launches, clicks, torn>>
ArmReset(t) ==
  /\ At(t, "arm")
  /\ disk' = [disk EXCEPT !.armed = TRUE] /\ Ends(t)
  /\ UNCHANGED <<app, server, entered, minted, launches, clicks, torn>>

\* A secret that comes back masked is the one there is.
ReadConfig(t) ==
  /\ At(t, "config") /\ GoesWith(t, "save", disk.token)
  /\ UNCHANGED <<disk, app, server, entered, minted, launches, clicks, torn>>
WriteConfig(t, value) ==
  /\ At(t, "save")
  /\ disk' = [disk EXCEPT !.token = IF value = Mask THEN doing[t].has ELSE value]
  /\ entered' = IF value = Mask THEN entered ELSE value
  /\ UNCHANGED <<app, server, minted, launches, clicks, torn>>
\* save_config goes on to apply what it can; import_config does not.
SaveConfig(t, value) == WriteConfig(t, value) /\ Goes(t, "boot")
ImportConfig(t, value) == WriteConfig(t, value) /\ Ends(t)

\* The licence key is stored encrypted with the key that the process knows.
RegisterLicence(t) ==
  /\ At(t, "register")
  /\ disk' = IF disk.db.made /\ disk.db.key = 0 THEN [disk EXCEPT !.db.key = app.fernet] ELSE disk
  /\ Ends(t)
  /\ UNCHANGED <<app, server, entered, minted, launches, clicks, torn>>

-----------------------------------------------------------------------------
\* What a thread is in the middle of.
Middle(pc) ==
  CASE pc = "finish" -> {"booting", "wiping"}
    [] pc \in {"key", "write", "env"} -> {"booting"}
    [] pc \in {"create", "note"} -> {"installing"}
    [] pc \in {"forget", "start"} -> {"serving"}
    [] pc \in {"reset", "save"} -> {"wiping"}
    [] OTHER -> {}
Shared(d) ==
  {m \in {"booting", "installing", "serving", "wiping"} :
     Cardinality({t \in ShellThreads : m \in Middle(d[t].pc)}) > 1}

ShellStep ==
  \/ LaunchApp \/ QuitApp \/ WatchServer
  \/ \E t \in Panels, call \in {"setup", "start", "stop", "flush", "reset", "register", "config"} :
       Click(t, call)
  \/ \E t \in ShellThreads :
       \/ Boot(t) \/ FinishReset(t) \/ LoadKey(t) \/ WriteKey(t) \/ SetEnvironment(t)
       \/ Migrate(t) \/ LookForUsers(t) \/ BootstrapAdmin(t) \/ WriteAdminCreds(t)
       \/ StartServer(t) \/ CloseServer(t) \/ ForgetServer(t)
       \/ FlushDatabase(t) \/ WipeData(t) \/ ArmReset(t) \/ ReadConfig(t) \/ RegisterLicence(t)
       \/ \E value \in Tokens \cup {Mask} : SaveConfig(t, value) \/ ImportConfig(t, value)
ShellNext == ShellStep /\ crossed' = crossed \cup Shared(doing')

-----------------------------------------------------------------------------
(* Properties                                                              *)

Somebody(pcs) == \E t \in ShellThreads : doing[t].pc \in pcs

\* The licence key in the database can be read: by this process, and by the next one, which
\* knows the key in the file, unless it is going to start from nothing.
KeysFit ==
  disk.db.key # 0 /\ "booting" \notin crossed /\ "arm" \notin torn =>
    /\ app.ready => disk.db.key = app.fernet
    /\ disk.db.key = disk.fernet \/ disk.armed \/ Somebody({"arm"})
\* The password the panel shows opens the account of the first administrator.
CredsOpen ==
  disk.db.admin # 0 /\ crossed \cap {"booting", "installing"} = {} /\ torn = {} =>
    disk.creds = disk.db.admin \/ disk.armed \/ Somebody({"arm", "note"})
\* The server that serves is the one that stop would close.
ServerIsHeld ==
  server.serves /\ "serving" \notin crossed => server.held
\* The secret in the file is the one that was entered last.
SecretKept == "wiping" \in crossed \/ disk.token = entered

\* Whatever is clicked, wherever the program dies and however often it comes up again: files,
\* database and process belong together (config_store.py:4-6, "generated once and persisted"),
\* but for two threads in the middle of the same thing, a death between creating the
\* administrator and noting the password, and one between wiping and marking the reset.
ShellHolds == KeysFit /\ CredsOpen /\ ServerIsHeld /\ SecretKept
=============================================================================
