------------------------------ MODULE Installer ------------------------------
(***************************************************************************)
(* The life of an installation of the server on one machine: the install   *)
(* pipeline with its rollback (installer/core/install.ts, rollback.ts,     *)
(* secrets.ts, scripts/lib/production-init.ts), the service adapters of    *)
(* Linux (systemd) and Windows (NSSM), and the manager that starts, stops, *)
(* backs up, restores and uninstalls (installer/core/manager.ts,           *)
(* src/lib/backup.ts).                                                     *)
(*                                                                         *)
(* What lasts is on disk or in the service manager: the code in appDir,    *)
(* the .env, the database, the registered units, the processes.  The       *)
(* registry of what a run created is only in the memory of that run: a     *)
(* crash loses it.  Any external command of a phase may fail (a fault).    *)
(***************************************************************************)
EXTENDS Integers, FiniteSets, Sequences

CONSTANTS
    Platforms,    \* the adapters to consider: "linux", "windows"
    Versions,     \* versions of the payload, also of its last migration
    Ports,        \* web ports an installation may be asked to use
    DefaultPort,  \* what the server listens on when .env names no PORT
    MaxJobs,      \* bound: installs and uninstalls together
    MaxFaults,    \* bound: failed commands, crashes and reboots together
    MaxEdits,     \* bound: edits of the content by an administrator
    None,         \* absent
    Mixed,        \* appDir while, or after, a copy that did not complete
    Torn          \* a database file overwritten only in part

ASSUME InstallerAssumption ==
    /\ Platforms \subseteq {"linux", "windows"}
    /\ Versions \subseteq Nat \ {0}
    /\ DefaultPort \in Ports
    /\ MaxJobs \in Nat /\ MaxFaults \in Nat /\ MaxEdits \in Nat
    /\ None \notin Versions \cup Ports \cup {Mixed, Torn}
    /\ Mixed \notin Versions
    /\ None \notin [secret : Nat, port : Ports]
    /\ {None, Torn} \cap [schema : Nat, content : Nat] = {}

VARIABLES
    platform,   \* which adapter runs; never changes
    code,       \* what appDir holds
    env,        \* the .env file: its secrets (by the job that wrote them), port
    db,         \* the database: last migration, content
    units,      \* units (services of NSSM) registered with the system
    auto,       \* those of them that start with the machine
    running,    \* the code each service process was started from
    listening,  \* the port the app process was started with
    backups,    \* databases kept by backups and by the copies before a restore
    phase,      \* phase of the job in progress, "idle" when there is none
    job,        \* its parameters
    registry,   \* RollbackRegistry of the job, in memory
    next,       \* unit the services phase registers next, 0 before it begins
    jobs, faults, edits

disk == <<platform, code, env, db, backups>>
system == <<units, auto, running, listening>>
memory == <<phase, job, registry, next>>
counters == <<jobs, faults, edits>>
vars == <<disk, system, memory, counters>>

Services == {"app", "realtime", "stream"}
UnitNames == Services \cup {"target"}
Targets == {"services", "database", "backups", "config", "application"}

\* The order in which the adapter registers its units.
UnitOrder == IF platform = "linux" THEN <<"app", "realtime", "stream", "target">>
             ELSE <<"app", "realtime", "stream">>

InstallPhase == {"preflight", "deploy", "deploying", "environment", "database",
                 "services", "health", "admin", "finalize",
                 "rollbackServices", "rollbackFiles"}
ManagerPhase == {"removeServices", "removeDatabase", "removeBackups",
                 "removeConfig", "removeApplication", "restoreStop", "restoreSafety",
                 "restoreCopy", "restoring", "restoreStart"}

\* failed holds the phases in which a command of the job failed.
NoJob == [payload |-> None, port |-> None, built |-> TRUE, before |-> {},
          over |-> None, remove |-> {}, source |-> None, failed |-> {}]
EmptyRegistry == [units |-> {}, envCreated |-> FALSE, envBefore |-> FALSE]

Database == [schema : Nat, content : Nat]
EnvFile == [secret : Nat, port : Ports]

Job == [payload : Versions \cup {None}, port : Ports \cup {None},
        built : BOOLEAN, before : SUBSET UnitNames,
        over : Versions \cup {None, Mixed}, remove : SUBSET Targets,
        source : Database \cup {None}, failed : SUBSET (InstallPhase \cup ManagerPhase)]
Registry == [units : SUBSET UnitNames, envCreated : BOOLEAN, envBefore : BOOLEAN]

DiskType ==
    /\ platform \in Platforms
    /\ code \in Versions \cup {None, Mixed}
    /\ env \in EnvFile \cup {None}
    /\ db \in Database \cup {None, Torn}
    /\ backups \subseteq Database

SystemType ==
    /\ units \subseteq UnitNames /\ auto \subseteq units
    /\ running \in [Services -> Versions \cup {None, Mixed}]
    /\ listening \in Ports \cup {None}

MemoryType ==
    /\ phase \in InstallPhase \cup ManagerPhase \cup {"idle"}
    /\ job \in Job /\ registry \in Registry /\ next \in 0..5

CounterType == jobs \in 0..MaxJobs /\ faults \in 0..MaxFaults /\ edits \in 0..MaxEdits

TypeOK == DiskType /\ SystemType /\ MemoryType /\ CounterType

Init ==
    /\ platform \in Platforms
    /\ code = None /\ env = None /\ db = None /\ backups = {}
    /\ units = {} /\ auto = {}
    /\ running = [s \in Services |-> None] /\ listening = None
    /\ phase = "idle" /\ job = NoJob /\ registry = EmptyRegistry
    /\ next = 0
    /\ jobs = 0 /\ faults = 0 /\ edits = 0

-----------------------------------------------------------------------------
(***************************************************************************)
(* Processes.  A service serves only from a complete copy of the code; one *)
(* started from a half-copied appDir dies and is started again.            *)
(***************************************************************************)
Alive(s) == running[s] \in Versions

\* What a process becomes when it is started now.
Launched == IF env = None THEN None ELSE code

Launch(S) ==
    /\ running' = [s \in Services |-> IF s \in S THEN Launched ELSE running[s]]
    /\ listening' = IF "app" \notin S THEN listening
                    ELSE IF Launched = None THEN None ELSE env.port

Stop(S) ==
    /\ running' = [s \in Services |-> IF s \in S THEN None ELSE running[s]]
    /\ listening' = IF "app" \in S THEN None ELSE listening

\* What the system starts by itself: the target wants the three services.
StartedAtBoot == IF platform = "windows" THEN auto
                 ELSE IF "target" \in auto THEN units \cap Services ELSE {}

\* A service dies and the system restarts it (Restart=always, AppRestartDelay).
ServiceDies(s) ==
    /\ running[s] # None
    /\ IF s \in units THEN Launch({s}) ELSE Stop({s})
    /\ UNCHANGED <<disk, units, auto, memory, counters>>

\* An administrator changes the content through the running app.
Edit ==
    /\ Alive("app") /\ db \in Database /\ edits < MaxEdits
    /\ edits' = edits + 1
    /\ db' = [db EXCEPT !.content = edits + 1]
    /\ UNCHANGED <<platform, code, env, backups, system, memory, jobs, faults>>

-----------------------------------------------------------------------------
(***************************************************************************)
(* Jobs.  One runs at a time; fault is a command of it that fails.         *)
(***************************************************************************)
Begin(p, j) ==
    /\ phase = "idle"
    /\ phase' = p /\ job' = j
    /\ registry' = EmptyRegistry /\ next' = 0
    /\ UNCHANGED <<disk, system, faults, edits>>

\* The job keeps its memory as it was, but for its phase.
GoTo(p) ==
    /\ phase' = p
    /\ UNCHANGED <<next, jobs, edits>>

NoFault == UNCHANGED <<faults, job>>
Fault ==
    /\ faults < MaxFaults /\ faults' = faults + 1
    /\ job' = [job EXCEPT !.failed = @ \cup {phase}]

\* The last phase of a job, with a command that fails.
LastFault == faults < MaxFaults /\ faults' = faults + 1 /\ UNCHANGED <<jobs, edits>>

Idle == phase' = "idle" /\ job' = NoJob /\ registry' = EmptyRegistry /\ next' = 0
End == Idle /\ UNCHANGED counters

\* runInstall, for a new installation, an update or a repair: the mode
\* changes messages and the environment of children, not what is done.
StartInstall(v, p) ==
    /\ jobs < MaxJobs /\ jobs' = jobs + 1
    /\ Begin("preflight", [NoJob EXCEPT !.payload = v, !.port = p,
                                     !.before = units, !.over = code])

(***************************************************************************)
(* Preflight: the ports must be free unless they are taken by services of  *)
(* this installation.  The adapter of Windows, called without a runner,    *)
(* never finds its services active.                                        *)
(***************************************************************************)
\* Seeded fault: the services running are not asked for.
OwnServicesActive_NeverAsked == FALSE

OwnServicesActive == platform = "linux" /\ \E s \in Services : Alive(s)
PortsBusy == \/ Alive("app") /\ listening = job.port
             \/ Alive("realtime") \/ Alive("stream")

Preflight ==
    /\ phase = "preflight"
    /\ \/ (PortsBusy => OwnServicesActive) /\ GoTo("deploy") /\ NoFault
       \/ PortsBusy /\ ~OwnServicesActive /\ GoTo("rollbackServices") /\ NoFault
       \/ Fault /\ GoTo("rollbackServices")
    /\ UNCHANGED <<disk, system, registry>>

\* Copies the payload over appDir, services running or not.
Deploy ==
    /\ phase = "deploy"
    /\ \/ code' = Mixed /\ GoTo("deploying") /\ NoFault
       \/ code' = code /\ Fault /\ GoTo("rollbackServices")
    /\ UNCHANGED <<platform, env, db, backups, system, registry>>

\* Dependencies, runtime, Prisma client, build: then the code is complete.  A
\* payload that comes without a build, and is not to be built here, only gives
\* a warning: what is served is the build of the installation copied over.
OldBuild == IF job.over \in Versions THEN job.over ELSE Mixed

DeployEnds ==
    /\ phase = "deploying"
    /\ \/ code' = job.payload /\ GoTo("environment") /\ NoFault
       \/ /\ code' = OldBuild /\ GoTo("environment")
          /\ job' = [job EXCEPT !.built = FALSE] /\ faults' = faults
       \/ code' = code /\ Fault /\ GoTo("rollbackServices")
    /\ UNCHANGED <<platform, env, db, backups, system, registry>>

(***************************************************************************)
(* The .env: an existing one keeps its values, a new one gets fresh        *)
(* secrets.  A write that breaks off may leave a file nobody registered,   *)
(* without its last lines.                                                 *)
(***************************************************************************)
Environment ==
    /\ phase = "environment"
    /\ \/ /\ env # None /\ NoFault /\ GoTo("database")
          /\ env' = env
          /\ registry' = [registry EXCEPT !.envBefore = TRUE]
       \/ /\ env = None /\ NoFault /\ GoTo("database")
          /\ env' = [secret |-> jobs, port |-> job.port]
          /\ registry' = [registry EXCEPT !.envCreated = TRUE]
       \/ /\ Fault /\ GoTo("rollbackServices")
          /\ env' \in {env} \cup IF env = None
                                 THEN {[secret |-> jobs, port |-> DefaultPort]}
                                 ELSE {}
          /\ registry' = [registry EXCEPT !.envBefore = (env # None)]
    /\ UNCHANGED <<platform, code, db, backups, system>>

(***************************************************************************)
(* initializeProduction without administrator: the datasource is probed,   *)
(* the migrations are applied, the settings row is created.  The seed may  *)
(* fail after them.  A torn database cannot be probed.                     *)
(***************************************************************************)
Migrated(d, v) ==
    IF d = None THEN [schema |-> v, content |-> 0]
    ELSE [d EXCEPT !.schema = IF d.schema < v THEN v ELSE d.schema]

InitDatabase ==
    /\ phase = "database"
    /\ \/ /\ db # Torn /\ NoFault /\ GoTo("services")
          /\ db' = Migrated(db, job.payload)
       \/ /\ db = Torn /\ NoFault /\ GoTo("rollbackServices")
          /\ db' = db
       \/ /\ Fault /\ GoTo("rollbackServices")
          /\ db' \in {db} \cup IF db = Torn THEN {} ELSE {Migrated(db, job.payload)}
    /\ UNCHANGED <<platform, code, env, backups, system, registry>>

-----------------------------------------------------------------------------
(***************************************************************************)
(* The services phase.  Linux creates the user and sets permissions, then  *)
(* writes the unit files, registering each after its write; the processes  *)
(* go on.  Windows stops, removes and installs each service in turn.       *)
(***************************************************************************)
ServicesBegin ==
    /\ phase = "services" /\ next = 0
    /\ \/ NoFault /\ next' = 1 /\ UNCHANGED <<phase, jobs, edits>>
       \/ Fault /\ GoTo("rollbackServices")
    /\ UNCHANGED <<disk, system, registry>>

\* Seeded fault: what was written is not remembered.
Registered_Forgotten(u) == registry' = registry

Registered(u) == registry' = [registry EXCEPT !.units = @ \cup {u}]

\* A unit file whose write breaks off may be there, unregistered.
InstallUnitLinux(u) ==
    /\ \/ /\ NoFault /\ phase' = phase /\ next' = next + 1
          /\ units' = units \cup {u} /\ Registered(u)
       \/ /\ Fault /\ phase' = "rollbackServices" /\ next' = next
          /\ units' \in {units, units \cup {u}} /\ registry' = registry
    /\ UNCHANGED <<auto, running, listening>>

\* A removal that fails leaves the service, and its process, as they were;
\* the installation then answers "already" and is taken for a success.
InstallUnitWindows(u) ==
    \/ /\ NoFault /\ phase' = phase /\ next' = next + 1
       /\ Stop({u}) /\ Registered(u)
       /\ units' = units \cup {u} /\ auto' = auto \cup {u}
    \/ /\ u \in units /\ Fault /\ phase' = phase /\ next' = next + 1
       /\ Registered(u) /\ auto' = auto \cup {u}
       /\ UNCHANGED <<units, running, listening>>
    \/ /\ Fault /\ phase' = "rollbackServices" /\ next' = next
       /\ Stop({u}) /\ registry' = registry
       /\ units' = units \ {u} /\ auto' = auto \ {u}

InstallUnit ==
    /\ phase = "services" /\ next \in DOMAIN UnitOrder
    /\ IF platform = "linux" THEN InstallUnitLinux(UnitOrder[next])
                             ELSE InstallUnitWindows(UnitOrder[next])
    /\ UNCHANGED <<disk, jobs, edits>>

\* daemon-reload, enable and restart of the target (PartOf restarts the
\* three services).  Enabling that fails only warns, and a service that does
\* not come up is not noticed here.
StartServicesLinux ==
    \/ /\ NoFault /\ GoTo("health")
       /\ auto' = auto \cup {"target"} /\ Launch(Services)
    \/ /\ Fault /\ (GoTo("health") \/ GoTo("rollbackServices"))
       /\ auto' \in {auto, auto \cup {"target"}}
       /\ \E down \in SUBSET Services :
            /\ running' = [s \in Services |-> IF s \in down THEN None ELSE Launched]
            /\ listening' = IF "app" \in down \/ Launched = None THEN None ELSE env.port
    \/ /\ Fault /\ GoTo("rollbackServices")
       /\ UNCHANGED <<auto, running, listening>>

\* nssm start of stream, realtime and app: one that fails only warns.
StartServicesWindows ==
    /\ GoTo("health") /\ auto' = auto
    /\ \/ NoFault /\ Launch({s \in Services : running[s] = None})
       \/ /\ Fault
          /\ \E S \in SUBSET {s \in Services : running[s] = None} : Launch(S)

StartServices ==
    /\ phase = "services" /\ next > Len(UnitOrder)
    /\ IF platform = "linux" THEN StartServicesLinux ELSE StartServicesWindows
    /\ UNCHANGED <<disk, units, registry>>

\* The health of the app decides: without realtime or stream it is only
\* degraded.  waitForHealth asks the port of the configuration.
\* Seeded fault: any port will do.
Healthy_AnyPort == Alive("app") /\ db \in Database

Healthy == Alive("app") /\ listening = job.port /\ db \in Database

\* Seeded fault: the wait has no deadline.
Health_NoDeadline ==
    /\ phase = "health"
    /\ \/ Healthy /\ NoFault /\ GoTo("admin")
       \/ Fault /\ GoTo("rollbackServices")
    /\ UNCHANGED <<disk, system, registry>>

Health ==
    /\ phase = "health"
    /\ \/ Healthy /\ NoFault /\ GoTo("admin")
       \/ ~Healthy /\ NoFault /\ GoTo("rollbackServices")
       \/ Fault /\ GoTo("rollbackServices")
    /\ UNCHANGED <<disk, system, registry>>

\* The first administrator, when asked for and there is none: no property
\* tells a database with one from a database without, but it may fail.
CreateAdmin ==
    /\ phase = "admin"
    /\ \/ NoFault /\ GoTo("finalize")
       \/ Fault /\ GoTo("rollbackServices")
    /\ UNCHANGED <<disk, system, registry>>

Finalize ==
    /\ phase = "finalize" /\ End
    /\ UNCHANGED <<disk, system>>

-----------------------------------------------------------------------------
(***************************************************************************)
(* Rollback: the units this run registered are stopped and removed (on     *)
(* Linux the target is stopped first, which stops the three services), and *)
(* then the .env, only if this run wrote it.  Data is never touched.       *)
(*                                                                         *)
(* The adapters do not look at what systemctl and nssm answer, and what    *)
(* they throw is caught: with a command that fails, some units (left) stay,*)
(* and of the processes none, theirs, or all (up) go on.  On Linux a unit  *)
(* that stays may be disabled; on Windows a service stays enabled, and is  *)
(* not removed before its process ends.                                    *)
(***************************************************************************)
\* Seeded fault: the units stay enabled, or are only disabled.
TakeDown_StillEnabled(S, U) == Stop(S) /\ units' = units \ U /\ auto' = auto
TakeDown_Disabled(S, U) == Stop(S) /\ units' = units /\ auto' = auto \ U

TakeDown(S, U) ==
    Stop(S) /\ units' = units \ U /\ auto' = auto \ U

TakeDownInPart(S, U) ==
    \E left \in SUBSET (units \cap U) : \E up \in {{}, S \cap left, S} :
        /\ Stop(S \ up) /\ units' = units \ (U \ left)
        /\ auto' \in {auto \ U, auto \ (U \ left)}
        /\ platform = "windows" => up \cap units \subseteq left /\ auto' = auto \ (U \ left)

RolledBack == IF registry.units # {} /\ platform = "linux" /\ "target" \in units
              THEN Services ELSE registry.units \cap Services

RollbackServices ==
    /\ phase = "rollbackServices" /\ GoTo("rollbackFiles")
    /\ \/ NoFault /\ TakeDown(RolledBack, registry.units)
       \/ registry.units # {} /\ Fault /\ TakeDownInPart(RolledBack, registry.units)
    /\ UNCHANGED <<disk, registry>>

\* Seeded fault: an .env is removed whoever wrote it.
OwnEnv_AnyEnv == TRUE

OwnEnv == registry.envCreated /\ ~registry.envBefore

RollbackFiles ==
    /\ phase = "rollbackFiles" /\ Idle
    /\ \/ env' = (IF OwnEnv THEN None ELSE env) /\ UNCHANGED counters
       \/ OwnEnv /\ env' = env /\ LastFault
    /\ UNCHANGED <<platform, code, db, backups, system>>

(***************************************************************************)
(* The manager.  It needs an installation: an .env or code.                *)
(***************************************************************************)
Found == env # None \/ code # None

\* servicesAction: start, stop or restart, one service after the other; a
\* command that fails goes unnoticed and the others follow.
Stopped == {s \in Services \cap units : running[s] = None}

ManageServices ==
    /\ phase = "idle" /\ Found
    /\ \/ UNCHANGED counters /\ (Stop(Services) \/ Launch(Stopped) \/ Launch(Services \cap units))
       \/ LastFault /\ \E S \in SUBSET Services :
            Stop(S) \/ Launch(S \cap Stopped) \/ Launch(S \cap units)
    /\ UNCHANGED <<disk, units, auto, memory>>

\* VACUUM INTO a new file of the backup directory, then verified.  The
\* retention, of fourteen files, is beyond the bounds.
Backup ==
    /\ phase = "idle" /\ code \in Versions /\ db \in Database
    /\ backups' = backups \cup {db}
    /\ UNCHANGED <<platform, code, env, db, system, memory, counters>>

\* uninstallAction, which asks for at least one of application, services and
\* configuration.
StartUninstall(R) ==
    /\ Found /\ R \ {"database", "backups"} # {}
    /\ jobs < MaxJobs /\ jobs' = jobs + 1
    /\ Begin("removeServices", [NoJob EXCEPT !.remove = R])

\* Linux stops only the target, which takes the three services with it.  As in
\* a rollback, a command that fails is not noticed, and nothing stops the rest
\* of the uninstallation.
Removed == IF platform = "windows" \/ "target" \in units THEN Services ELSE {}

RemoveServices ==
    /\ phase = "removeServices" /\ GoTo("removeDatabase")
    /\ IF "services" \notin job.remove THEN NoFault /\ UNCHANGED system
       ELSE \/ NoFault /\ TakeDown(Removed, UnitNames)
            \/ Fault /\ TakeDownInPart(Removed, UnitNames)
    /\ UNCHANGED <<disk, registry>>

RemoveDatabase ==
    /\ phase = "removeDatabase" /\ GoTo("removeBackups")
    /\ \/ NoFault /\ db' = IF "database" \in job.remove THEN None ELSE db
       \/ Fault /\ db' = db
    /\ UNCHANGED <<platform, code, env, backups, system, registry>>

\* A directory is removed file by file.
RemoveBackups ==
    /\ phase = "removeBackups" /\ GoTo("removeConfig")
    /\ \/ NoFault /\ backups' = IF "backups" \in job.remove THEN {} ELSE backups
       \/ "backups" \in job.remove /\ Fault /\ backups' \in SUBSET backups
    /\ UNCHANGED <<platform, code, env, db, system, registry>>

RemoveConfig ==
    /\ phase = "removeConfig" /\ GoTo("removeApplication")
    /\ \/ NoFault /\ env' = IF "config" \in job.remove THEN None ELSE env
       \/ Fault /\ env' = env
    /\ UNCHANGED <<platform, code, db, backups, system, registry>>

\* On Windows the .env lives in appDir and goes with it, and files in use
\* keep part of the directory.
RemoveApplication ==
    /\ phase = "removeApplication"
    /\ IF "application" \notin job.remove THEN UNCHANGED <<code, env, faults>>
       ELSE \/ /\ code' = None /\ faults' = faults
               /\ env' = IF platform = "windows" THEN None ELSE env
            \/ /\ faults < MaxFaults /\ faults' = faults + 1
               /\ code' = IF code = None THEN None ELSE Mixed
               /\ env' \in {env} \cup IF platform = "windows" THEN {None} ELSE {}
    /\ Idle
    /\ UNCHANGED <<platform, db, backups, system, jobs, edits>>

(***************************************************************************)
(* restoreAction: stop everything, restore.ts in a process of its own      *)
(* (verify the backup, copy the present database aside, overwrite it), and *)
(* start everything whatever came of it.                                   *)
(***************************************************************************)
StartRestore(b) ==
    /\ Found /\ b \in backups /\ jobs' = jobs
    /\ Begin("restoreStop", [NoJob EXCEPT !.source = b])

RestoreStop ==
    /\ phase = "restoreStop" /\ GoTo("restoreSafety")
    /\ \/ NoFault /\ Stop(Services)
       \/ Fault /\ \E S \in SUBSET Services : Stop(S)
    /\ UNCHANGED <<disk, units, auto, registry>>

\* pre-restore-*.db
\* Seeded fault: nothing is copied aside.
SafetyCopy_None == {}

SafetyCopy == {db} \cap Database

\* The copy aside may fail without a word; a backup that does not verify
\* ends the script.
RestoreSafety ==
    /\ phase = "restoreSafety"
    /\ \/ /\ NoFault /\ GoTo("restoreCopy")
          /\ backups' = backups \cup SafetyCopy
       \/ Fault /\ GoTo("restoreCopy") /\ backups' = backups
       \/ Fault /\ GoTo("restoreStart") /\ backups' = backups
    /\ UNCHANGED <<platform, code, env, db, system, registry>>

RestoreCopy ==
    /\ \/ /\ phase = "restoreCopy" /\ db' = Torn /\ NoFault /\ GoTo("restoring")
       \/ /\ phase = "restoring" /\ db' = job.source /\ NoFault /\ GoTo("restoreStart")
       \/ /\ phase = "restoring" /\ db' = db /\ Fault /\ GoTo("restoreStart")
    /\ UNCHANGED <<platform, code, env, backups, system, registry>>

RestoreStart ==
    /\ phase = "restoreStart" /\ Idle
    /\ \/ UNCHANGED counters /\ Launch(Stopped)
       \/ LastFault /\ \E S \in SUBSET Stopped : Launch(S)
    /\ UNCHANGED <<disk, units, auto>>

-----------------------------------------------------------------------------
\* The installer is killed, or the machine loses power and boots again.
Crash ==
    /\ phase # "idle" /\ faults < MaxFaults /\ faults' = faults + 1
    /\ Idle
    /\ UNCHANGED <<disk, system, jobs, edits>>

Reboot ==
    /\ faults < MaxFaults /\ faults' = faults + 1
    /\ running' = [s \in Services |-> IF s \in StartedAtBoot THEN Launched ELSE None]
    /\ listening' = IF "app" \in StartedAtBoot /\ Launched # None
                    THEN env.port ELSE None
    /\ Idle
    /\ UNCHANGED <<disk, units, auto, jobs, edits>>

InstallStep ==
    \/ Preflight \/ Deploy \/ DeployEnds \/ Environment \/ InitDatabase
    \/ ServicesBegin \/ InstallUnit \/ StartServices \/ Health
    \/ CreateAdmin \/ Finalize \/ RollbackServices \/ RollbackFiles

ManagerStep ==
    \/ RemoveServices \/ RemoveDatabase \/ RemoveBackups \/ RemoveConfig \/ RemoveApplication
    \/ RestoreStop \/ RestoreSafety \/ RestoreCopy \/ RestoreStart

Next ==
    \/ \E v \in Versions, p \in Ports : StartInstall(v, p)
    \/ \E R \in SUBSET Targets : StartUninstall(R)
    \/ \E b \in backups : StartRestore(b)
    \/ InstallStep \/ ManagerStep
    \/ ManageServices \/ Backup \/ Edit \/ Crash \/ Reboot
    \/ \E s \in Services : ServiceDies(s)

Spec == Init /\ [][Next]_vars
\* A job that is running goes on: nothing in it waits for anybody.
FairSpec == Spec /\ WF_vars(InstallStep) /\ WF_vars(ManagerStep)

-----------------------------------------------------------------------------
(***************************************************************************)
(* Properties.                                                             *)
(***************************************************************************)
\* What an installation reports as complete is: the app serves the code just
\* deployed (the build it found, when it deployed none), on the port asked for,
\* over a database migrated for it, from units that the system will start
\* again.  On Windows a removal that failed may leave the old process answering
\* the health question.
SuccessMeansServing ==
    phase = "finalize" /\ (platform = "linux" \/ job.failed = {}) =>
        /\ running["app"] = (IF job.built THEN job.payload ELSE job.over)
        /\ listening = job.port
        /\ db \in Database /\ db.schema >= job.payload
        /\ Services \subseteq units

\* A run in which no command fails is rolled back for four reasons only: the
\* .env it found names another port than the one asked for (the health of the
\* app is looked for on the latter), there is no build to serve, the database
\* was torn by a restore, or the services of a Windows installation were left
\* running.
FaultFreeRunSucceeds ==
    [][phase' = "rollbackServices" /\ phase # phase' /\ job'.failed = {} =>
        \/ env # None /\ env.port # job.port
        \/ ~job.built /\ job.over \notin Versions
        \/ db = Torn
        \/ platform = "windows" /\ PortsBusy]_vars

\* Whatever fails in a run and in its rollback, a unit that was not there before
\* is one that the rollback was told to remove and could not, or the single
\* one whose file broke off; and what a rollback without failures was told to
\* remove is gone from the system and does not run.
LeftoversExplained ==
    phase = "rollbackFiles" =>
        /\ \A u \in units \ job.before :
             \/ u \in registry.units /\ "rollbackServices" \in job.failed
             \/ next \in DOMAIN UnitOrder /\ UnitOrder[next] = u /\ "services" \in job.failed
        /\ "rollbackServices" \notin job.failed =>
             /\ registry.units \cap units = {}
             /\ \A u \in registry.units \cap Services : running[u] = None

\* The secrets of an installation, which sign its sessions and its tokens,
\* outlive every update, repair, failed run and crash: an .env goes only with
\* an uninstallation, or with the rollback of the very run that wrote it.
SecretsStable ==
    [][env # None =>
        \/ env' = env
        \/ env' = None /\ phase \in {"removeConfig", "removeApplication"}
        \/ env' = None /\ phase = "rollbackFiles" /\ env.secret = jobs]_vars

\* Content leaves the database only because an administrator changes it,
\* because an uninstallation was asked to remove the data, or because a
\* backup is restored over it; then a copy of it stays behind, unless the
\* services could not be stopped or the copy aside failed.
UnsafeRestore == job.failed \cap {"restoreStop", "restoreSafety"} # {}

DataSafe ==
    [][(db \in Database) /\ (db' \in Database => db'.content # db.content) =>
        \/ edits' = edits + 1
        \/ phase = "removeDatabase" /\ "database" \in job.remove
        \/ phase = "restoreCopy" /\ (db \in backups \/ UnsafeRestore)]_vars

\* A complete installation is never taken back by a later run that failed:
\* the code its units run stays in appDir, whole or overwritten, until an
\* uninstallation that removes the application, and one asked to remove the
\* services too has removed them by then, unless that removal itself failed.
CodeOutlivesUnits ==
    [][code # None /\ code' = None =>
        /\ phase = "removeApplication"
        /\ "services" \in job.remove =>
             (units = {} /\ auto = {}) \/ "removeServices" \in job.failed]_vars

\* Every job ends: there is a way out of each phase, whatever fails in it.
RunEnds == phase # "idle" ~> phase = "idle"
=============================================================================
