--------------------------- MODULE Installer_proofs ---------------------------
(***************************************************************************)
(* Proofs about Installer, for any versions, ports, bounds and sets of     *)
(* platforms.                                                              *)
(*                                                                         *)
(* TInv is the inductive part they share: the types, what the job in       *)
(* progress must have, and how far its services phase has come.  On top of *)
(* it each property has an invariant of its own, which says what a phase   *)
(* leaves for the next ones: whose the .env is, that a restore has stopped *)
(* the services and saved what it overwrites, that the removed services    *)
(* stay removed, which units are new, and what the processes run.          *)
(***************************************************************************)
EXTENDS Installer, TLAPS

\* What the job in progress needs is there: an installation has a payload and
\* a port, a restore its backup, and from the services phase on there is a
\* database.
JobFits ==
  /\ phase \in InstallPhase => job.payload \in Versions /\ job.port \in Ports
  /\ phase \in {"restoreStop", "restoreSafety", "restoreCopy", "restoring"}
       => job.source \in Database
  /\ phase \in {"services", "health", "admin", "finalize"} => db \in Database

\* The services phase begins with the first unit, and what it has passed is
\* registered with the system and with the rollback.
UnitsInstalled ==
  /\ phase \in {"preflight", "deploy", "deploying", "environment", "database"}
       => next = 0
  /\ phase = "services" =>
       \A i \in DOMAIN UnitOrder : i < next =>
         UnitOrder[i] \in units /\ UnitOrder[i] \in registry.units

TInv == TypeOK /\ JobFits /\ UnitsInstalled

-----------------------------------------------------------------------------
\* The positions in the order of the units.
LEMMA UnitOrderType ==
  /\ DOMAIN UnitOrder = 1..Len(UnitOrder)
  /\ Len(UnitOrder) \in {3, 4}
  /\ \A i \in DOMAIN UnitOrder : UnitOrder[i] \in UnitNames
<1>1. CASE platform = "linux"
  BY <1>1 DEF UnitOrder, UnitNames, Services
<1>2. CASE platform # "linux"
  BY <1>2 DEF UnitOrder, UnitNames, Services
<1>3. QED
  BY <1>1, <1>2

\* No job is a job without anything.
LEMMA NoJobType == NoJob \in Job /\ EmptyRegistry \in Registry
BY DEF NoJob, Job, EmptyRegistry, Registry

\* The jobs of the manager.
LEMMA ManagerJobType ==
  /\ \A R \in SUBSET Targets : [NoJob EXCEPT !.remove = R] \in Job
  /\ \A b \in Database : /\ [NoJob EXCEPT !.source = b] \in Job
                          /\ [NoJob EXCEPT !.source = b].source = b
BY DEF NoJob, Job

\* A failed command changes nothing of the job but that, and is remembered.
LEMMA FaultyType ==
  ASSUME job \in Job, NoFault \/ Fault
  PROVE  /\ phase \in InstallPhase \cup ManagerPhase => job' \in Job
         /\ job'.payload = job.payload /\ job'.port = job.port
         /\ job'.source = job.source /\ job'.before = job.before
         /\ job'.remove = job.remove /\ job'.over = job.over
         /\ job'.built = job.built
         /\ job'.failed = job.failed \/ (Fault /\ job'.failed = job.failed \cup {phase})
         /\ Fault => phase \in job'.failed
BY DEF Job, NoFault, Fault

\* What a process can be started from.
LEMMA LaunchedType ==
  ASSUME TypeOK
  PROVE  /\ Launched \in Versions \cup {None, Mixed}
         /\ Launched # None => env # None /\ env.port \in Ports
<1>1. Launched # None => env # None
  BY DEF Launched
<1>2. QED
  BY <1>1 DEF TypeOK, DiskType, EnvFile, Launched

\* Starting and stopping services keeps the types.
LEMMA LaunchType ==
  ASSUME TypeOK, NEW S, Launch(S)
  PROVE  /\ running' \in [Services -> Versions \cup {None, Mixed}]
         /\ listening' \in Ports \cup {None}
BY LaunchedType DEF Launch, TypeOK, SystemType

LEMMA StopType ==
  ASSUME TypeOK, NEW S, Stop(S)
  PROVE  /\ running' \in [Services -> Versions \cup {None, Mixed}]
         /\ listening' \in Ports \cup {None}
BY DEF Stop, TypeOK, SystemType

\* A migration leaves a database, with the content it had.
LEMMA MigratedType ==
  ASSUME NEW d \in Database \cup {None}, NEW v \in Versions
  PROVE  /\ Migrated(d, v) \in Database
         /\ Migrated(d, v).schema >= v
         /\ d # None => Migrated(d, v).content = d.content
<1>. USE InstallerAssumption
<1>1. CASE d = None
  BY <1>1 DEF Migrated, Database
<1>2. CASE d # None
  BY <1>2 DEF Migrated, Database
<1>3. QED
  BY <1>1, <1>2

\* TInv is inductive.
LEMMA TypeInductive ==
  /\ Init => TInv
  /\ TInv /\ [Next]_vars => TInv'
<1>. USE InstallerAssumption
<1>1. Init => TInv
  BY NoJobType DEF Init, TInv, JobFits, UnitsInstalled, TypeOK, DiskType, SystemType, MemoryType,
     CounterType, Services, InstallPhase
<1>2. TInv /\ [Next]_vars => TInv'
  <2> SUFFICES ASSUME TInv, [Next]_vars PROVE TInv'
    OBVIOUS
  <2>. USE DEF TInv
  <2>1. ASSUME NEW s \in Services, ServiceDies(s) PROVE TInv'
    <3>. USE <2>1 DEF ServiceDies
    <3>1. DiskType'
      BY DEF TypeOK, DiskType, disk, system, memory, counters
    <3>2. SystemType'
      BY UnitOrderType, LaunchType, StopType, LaunchedType DEF TypeOK, SystemType, disk, system, memory, counters
    <3>3. MemoryType'
      BY NoJobType, FaultyType DEF TypeOK, MemoryType, disk, system, memory, counters, GoTo, End, Idle, InstallPhase, ManagerPhase
    <3>4. CounterType'
      BY DEF TypeOK, CounterType, disk, system, memory, counters, GoTo, Fault, NoFault, End, Idle
    <3>5. JobFits'
      BY NoJobType, FaultyType DEF TypeOK, MemoryType, JobFits, disk, system, memory, counters, GoTo, End, Idle, InstallPhase, Database
    <3>6. UnitsInstalled'
      BY DEF TypeOK, UnitsInstalled, UnitOrder, disk, system, memory, counters, GoTo, End, Idle
    <3>7. QED
      BY <3>1, <3>2, <3>3, <3>4, <3>5, <3>6 DEF TypeOK
  <2>2. CASE Edit
    <3>. USE <2>2 DEF Edit
    <3>1. DiskType'
      BY DEF TypeOK, DiskType, CounterType, disk, system, memory, counters, Database
    <3>2. SystemType'
      BY UnitOrderType, LaunchType, StopType, LaunchedType DEF TypeOK, SystemType, disk, system, memory, counters
    <3>3. MemoryType'
      BY NoJobType, FaultyType DEF TypeOK, MemoryType, disk, system, memory, counters, GoTo, End, Idle, InstallPhase, ManagerPhase
    <3>4. CounterType'
      BY DEF TypeOK, CounterType, disk, system, memory, counters, GoTo, Fault, NoFault, End, Idle
    <3>5. JobFits'
      BY DEF TypeOK, DiskType, CounterType, JobFits, disk, system, memory, counters, Database
    <3>6. UnitsInstalled'
      BY DEF TypeOK, UnitsInstalled, UnitOrder, disk, system, memory, counters, GoTo, End, Idle
    <3>7. QED
      BY <3>1, <3>2, <3>3, <3>4, <3>5, <3>6 DEF TypeOK
  <2>3. ASSUME NEW v \in Versions, NEW p \in Ports, StartInstall(v, p) PROVE TInv'
    <3>. USE <2>3 DEF StartInstall, Begin
    <3>1. DiskType'
      BY DEF TypeOK, DiskType, disk, system, memory, counters
    <3>2. SystemType'
      BY UnitOrderType, LaunchType, StopType, LaunchedType DEF TypeOK, SystemType, disk, system, memory, counters
    <3>3. MemoryType'
      <4>1. units \in SUBSET UnitNames
        BY DEF TypeOK, SystemType
      <4>2. job' \in Job
        BY <4>1 DEF NoJob, Job, TypeOK, DiskType
      <4>3. QED
        BY <4>2, NoJobType DEF TypeOK, MemoryType, disk, system, memory, counters, InstallPhase
    <3>4. CounterType'
      BY DEF TypeOK, CounterType, disk, system, memory, counters, GoTo, Fault, NoFault, End, Idle
    <3>5. JobFits'
      <4>1. units \in SUBSET UnitNames
        BY DEF TypeOK, SystemType
      <4>2. job'.payload \in Versions /\ job'.port \in Ports
        BY <4>1 DEF NoJob
      <4>3. QED
        BY <4>2 DEF JobFits, disk, system, memory, counters
    <3>6. UnitsInstalled'
      BY DEF TypeOK, UnitsInstalled, UnitOrder, disk, system, memory, counters, GoTo, End, Idle
    <3>7. QED
      BY <3>1, <3>2, <3>3, <3>4, <3>5, <3>6 DEF TypeOK
  <2>4. CASE Preflight
    <3>. USE <2>4 DEF Preflight
    <3>1. DiskType'
      BY DEF TypeOK, DiskType, disk, system, memory, counters
    <3>2. SystemType'
      BY UnitOrderType, LaunchType, StopType, LaunchedType DEF TypeOK, SystemType, disk, system, memory, counters
    <3>3. MemoryType'
      BY NoJobType, FaultyType DEF TypeOK, MemoryType, disk, system, memory, counters, GoTo, End, Idle, InstallPhase, ManagerPhase
    <3>4. CounterType'
      BY DEF TypeOK, CounterType, disk, system, memory, counters, GoTo, Fault, NoFault, End, Idle
    <3>5. JobFits'
      BY NoJobType, FaultyType DEF TypeOK, MemoryType, JobFits, disk, system, memory, counters, GoTo, End, Idle, InstallPhase, Database
    <3>6. UnitsInstalled'
      BY DEF TypeOK, UnitsInstalled, UnitOrder, disk, system, memory, counters, GoTo, End, Idle
    <3>7. QED
      BY <3>1, <3>2, <3>3, <3>4, <3>5, <3>6 DEF TypeOK
  <2>5. CASE Deploy
    <3>. USE <2>5 DEF Deploy
    <3>1. DiskType'
      BY DEF TypeOK, DiskType, disk, system, memory, counters
    <3>2. SystemType'
      BY UnitOrderType, LaunchType, StopType, LaunchedType DEF TypeOK, SystemType, disk, system, memory, counters
    <3>3. MemoryType'
      BY NoJobType, FaultyType DEF TypeOK, MemoryType, disk, system, memory, counters, GoTo, End, Idle, InstallPhase, ManagerPhase
    <3>4. CounterType'
      BY DEF TypeOK, CounterType, disk, system, memory, counters, GoTo, Fault, NoFault, End, Idle
    <3>5. JobFits'
      BY NoJobType, FaultyType DEF TypeOK, MemoryType, JobFits, disk, system, memory, counters, GoTo, End, Idle, InstallPhase, Database
    <3>6. UnitsInstalled'
      BY DEF TypeOK, UnitsInstalled, UnitOrder, disk, system, memory, counters, GoTo, End, Idle
    <3>7. QED
      BY <3>1, <3>2, <3>3, <3>4, <3>5, <3>6 DEF TypeOK
  <2>6. CASE DeployEnds
    <3>. USE <2>6 DEF DeployEnds
    <3>0. /\ job' \in Job /\ job'.payload = job.payload /\ job'.port = job.port
          /\ job'.source = job.source
      <4>1. ASSUME NoFault \/ Fault
            PROVE  /\ job' \in Job /\ job'.payload = job.payload /\ job'.port = job.port
                   /\ job'.source = job.source
        BY <4>1, FaultyType DEF TypeOK, MemoryType, InstallPhase
      <4>2. ASSUME job' = [job EXCEPT !.built = FALSE]
            PROVE  /\ job' \in Job /\ job'.payload = job.payload /\ job'.port = job.port
                   /\ job'.source = job.source
        BY <4>2 DEF TypeOK, MemoryType, Job
      <4>3. QED
        BY <4>1, <4>2
    <3>1. DiskType'
      BY DEF TypeOK, DiskType, disk, system, memory, counters, JobFits, InstallPhase, OldBuild
    <3>2. SystemType'
      BY UnitOrderType, LaunchType, StopType, LaunchedType DEF TypeOK, SystemType, disk, system, memory, counters
    <3>3. MemoryType'
      BY <3>0 DEF TypeOK, MemoryType, disk, system, memory, counters, GoTo, InstallPhase
    <3>4. CounterType'
      BY DEF TypeOK, CounterType, disk, system, memory, counters, GoTo, Fault, NoFault, End, Idle
    <3>5. JobFits'
      BY <3>0 DEF JobFits, disk, GoTo, InstallPhase
    <3>6. UnitsInstalled'
      BY DEF TypeOK, UnitsInstalled, UnitOrder, disk, system, memory, counters, GoTo, End, Idle
    <3>7. QED
      BY <3>1, <3>2, <3>3, <3>4, <3>5, <3>6 DEF TypeOK
  <2>7. CASE Environment
    <3>. USE <2>7 DEF Environment
    <3>1. DiskType'
      <4>1. jobs \in Nat /\ job.port \in Ports
        BY DEF TypeOK, CounterType, JobFits, InstallPhase
      <4>2. env' \in EnvFile \cup {None}
        BY <4>1 DEF TypeOK, DiskType, EnvFile
      <4>3. QED
        BY <4>2 DEF TypeOK, DiskType, disk, system, memory, counters
    <3>2. SystemType'
      BY UnitOrderType, LaunchType, StopType, LaunchedType DEF TypeOK, SystemType, disk, system, memory, counters
    <3>3. MemoryType'
      <4>1. registry' \in Registry
        BY DEF TypeOK, MemoryType, Registry
      <4>2. QED
        BY <4>1, FaultyType DEF TypeOK, MemoryType, disk, system, memory, counters, GoTo, InstallPhase
    <3>4. CounterType'
      BY DEF TypeOK, CounterType, disk, system, memory, counters, GoTo, Fault, NoFault, End, Idle
    <3>5. JobFits'
      BY NoJobType, FaultyType DEF TypeOK, MemoryType, JobFits, disk, system, memory, counters, GoTo, End, Idle, InstallPhase, Database
    <3>6. UnitsInstalled'
      BY DEF TypeOK, UnitsInstalled, UnitOrder, disk, system, memory, counters, GoTo, End, Idle
    <3>7. QED
      BY <3>1, <3>2, <3>3, <3>4, <3>5, <3>6 DEF TypeOK
  <2>8. CASE InitDatabase
    <3>. USE <2>8 DEF InitDatabase
    <3>1. DiskType'
      <4>1. db # Torn => Migrated(db, job.payload) \in Database
        BY MigratedType DEF TypeOK, DiskType, JobFits, InstallPhase
      <4>2. QED
        BY <4>1 DEF TypeOK, DiskType, disk, system, memory, counters
    <3>2. SystemType'
      BY UnitOrderType, LaunchType, StopType, LaunchedType DEF TypeOK, SystemType, disk, system, memory, counters
    <3>3. MemoryType'
      BY NoJobType, FaultyType DEF TypeOK, MemoryType, disk, system, memory, counters, GoTo, End, Idle, InstallPhase, ManagerPhase
    <3>4. CounterType'
      BY DEF TypeOK, CounterType, disk, system, memory, counters, GoTo, Fault, NoFault, End, Idle
    <3>5. JobFits'
      <4>1. db # Torn => Migrated(db, job.payload) \in Database
        BY MigratedType DEF TypeOK, DiskType, JobFits, InstallPhase
      <4>2. QED
        BY <4>1, FaultyType DEF TypeOK, MemoryType, JobFits, disk, system, memory, counters, GoTo, InstallPhase
    <3>6. UnitsInstalled'
      BY DEF TypeOK, UnitsInstalled, UnitOrder, disk, system, memory, counters, GoTo, End, Idle
    <3>7. QED
      BY <3>1, <3>2, <3>3, <3>4, <3>5, <3>6 DEF TypeOK
  <2>9. CASE ServicesBegin
    <3>. USE <2>9 DEF ServicesBegin
    <3>1. DiskType'
      BY DEF TypeOK, DiskType, disk, system, memory, counters
    <3>2. SystemType'
      BY UnitOrderType, LaunchType, StopType, LaunchedType DEF TypeOK, SystemType, disk, system, memory, counters
    <3>3. MemoryType'
      BY FaultyType DEF TypeOK, MemoryType, disk, system, memory, counters, GoTo, InstallPhase
    <3>4. CounterType'
      BY DEF TypeOK, CounterType, disk, system, memory, counters, GoTo, Fault, NoFault, End, Idle
    <3>5. JobFits'
      BY NoJobType, FaultyType DEF TypeOK, MemoryType, JobFits, disk, system, memory, counters, GoTo, End, Idle, InstallPhase, Database
    <3>6. UnitsInstalled'
      BY DEF TypeOK, UnitsInstalled, UnitOrder, disk, system, memory, counters, GoTo, End, Idle
    <3>7. QED
      BY <3>1, <3>2, <3>3, <3>4, <3>5, <3>6 DEF TypeOK
  <2>10. CASE InstallUnit
    <3>. USE <2>10 DEF InstallUnit, InstallUnitLinux, InstallUnitWindows, Registered
    <3>1. DiskType'
      BY DEF TypeOK, DiskType, disk, system, memory, counters
    <3>2. SystemType'
      BY UnitOrderType, LaunchType, StopType, LaunchedType DEF TypeOK, SystemType, disk, system, memory, counters
    <3>3. MemoryType'
      <4>1. UnitOrder[next] \in UnitNames /\ next + 1 \in 0..5
        BY UnitOrderType
      <4>2. registry' \in Registry
        BY <4>1 DEF TypeOK, MemoryType, Registry
      <4>3. QED
        BY <4>1, <4>2, FaultyType DEF TypeOK, MemoryType, disk, system, memory, counters, InstallPhase
    <3>4. CounterType'
      BY DEF TypeOK, CounterType, disk, system, memory, counters, GoTo, Fault, NoFault, End, Idle
    <3>5. JobFits'
      BY NoJobType, FaultyType DEF TypeOK, MemoryType, JobFits, disk, system, memory, counters, GoTo, End, Idle, InstallPhase, Database
    <3>6. UnitsInstalled'
      <4>1. platform' = platform /\ UnitOrder' = UnitOrder
        BY DEF UnitOrder, disk
      <4>2. next \in Nat /\ \A i \in DOMAIN UnitOrder : i < next + 1 => i < next \/ i = next
        BY UnitOrderType DEF TypeOK, MemoryType
      <4>3. ASSUME phase' = "services"
            PROVE  /\ next' = next + 1
                   /\ units \subseteq units' /\ UnitOrder[next] \in units'
                   /\ registry.units \subseteq registry'.units
                   /\ UnitOrder[next] \in registry'.units
        BY <4>3 DEF TypeOK, MemoryType, Registry
      <4>4. phase' \in {"services", "rollbackServices"}
        OBVIOUS
      <4>5. QED
        BY <4>1, <4>2, <4>3, <4>4 DEF UnitsInstalled
    <3>7. QED
      BY <3>1, <3>2, <3>3, <3>4, <3>5, <3>6 DEF TypeOK
  <2>11. CASE StartServices
    <3>. USE <2>11 DEF StartServices, StartServicesLinux, StartServicesWindows
    <3>1. DiskType'
      BY DEF TypeOK, DiskType, disk, system, memory, counters
    <3>2. SystemType'
      <4>1. running' \in [Services -> Versions \cup {None, Mixed}]
        BY LaunchType, LaunchedType DEF TypeOK, SystemType
      <4>2. listening' \in Ports \cup {None}
        BY LaunchType, LaunchedType DEF TypeOK, SystemType
      <4>3. auto' \subseteq units' /\ units' \subseteq UnitNames
        BY UnitOrderType DEF TypeOK, SystemType, UnitsInstalled, UnitOrder, UnitNames
      <4>4. QED
        BY <4>1, <4>2, <4>3 DEF SystemType
    <3>3. MemoryType'
      BY NoJobType, FaultyType DEF TypeOK, MemoryType, disk, system, memory, counters, GoTo, End, Idle, InstallPhase, ManagerPhase
    <3>4. CounterType'
      BY DEF TypeOK, CounterType, disk, system, memory, counters, GoTo, Fault, NoFault, End, Idle
    <3>5. JobFits'
      BY NoJobType, FaultyType DEF TypeOK, MemoryType, JobFits, disk, system, memory, counters, GoTo, End, Idle, InstallPhase, Database
    <3>6. UnitsInstalled'
      BY DEF TypeOK, UnitsInstalled, UnitOrder, disk, system, memory, counters, GoTo, End, Idle
    <3>7. QED
      BY <3>1, <3>2, <3>3, <3>4, <3>5, <3>6 DEF TypeOK
  <2>12. CASE Health
    <3>. USE <2>12 DEF Health
    <3>1. DiskType'
      BY DEF TypeOK, DiskType, disk, system, memory, counters
    <3>2. SystemType'
      BY UnitOrderType, LaunchType, StopType, LaunchedType DEF TypeOK, SystemType, disk, system, memory, counters
    <3>3. MemoryType'
      BY NoJobType, FaultyType DEF TypeOK, MemoryType, disk, system, memory, counters, GoTo, End, Idle, InstallPhase, ManagerPhase
    <3>4. CounterType'
      BY DEF TypeOK, CounterType, disk, system, memory, counters, GoTo, Fault, NoFault, End, Idle
    <3>5. JobFits'
      BY NoJobType, FaultyType DEF TypeOK, MemoryType, JobFits, disk, system, memory, counters, GoTo, End, Idle, InstallPhase, Database
    <3>6. UnitsInstalled'
      BY DEF TypeOK, UnitsInstalled, UnitOrder, disk, system, memory, counters, GoTo, End, Idle
    <3>7. QED
      BY <3>1, <3>2, <3>3, <3>4, <3>5, <3>6 DEF TypeOK
  <2>13. CASE CreateAdmin
    <3>. USE <2>13 DEF CreateAdmin
    <3>1. DiskType'
      BY DEF TypeOK, DiskType, disk, system, memory, counters
    <3>2. SystemType'
      BY UnitOrderType, LaunchType, StopType, LaunchedType DEF TypeOK, SystemType, disk, system, memory, counters
    <3>3. MemoryType'
      BY NoJobType, FaultyType DEF TypeOK, MemoryType, disk, system, memory, counters, GoTo, End, Idle, InstallPhase, ManagerPhase
    <3>4. CounterType'
      BY DEF TypeOK, CounterType, disk, system, memory, counters, GoTo, Fault, NoFault, End, Idle
    <3>5. JobFits'
      BY NoJobType, FaultyType DEF TypeOK, MemoryType, JobFits, disk, system, memory, counters, GoTo, End, Idle, InstallPhase, Database
    <3>6. UnitsInstalled'
      BY DEF TypeOK, UnitsInstalled, UnitOrder, disk, system, memory, counters, GoTo, End, Idle
    <3>7. QED
      BY <3>1, <3>2, <3>3, <3>4, <3>5, <3>6 DEF TypeOK
  <2>14. CASE Finalize
    <3>. USE <2>14 DEF Finalize
    <3>1. DiskType'
      BY DEF TypeOK, DiskType, disk, system, memory, counters
    <3>2. SystemType'
      BY UnitOrderType, LaunchType, StopType, LaunchedType DEF TypeOK, SystemType, disk, system, memory, counters
    <3>3. MemoryType'
      BY NoJobType, FaultyType DEF TypeOK, MemoryType, disk, system, memory, counters, GoTo, End, Idle, InstallPhase, ManagerPhase
    <3>4. CounterType'
      BY DEF TypeOK, CounterType, disk, system, memory, counters, GoTo, Fault, NoFault, End, Idle
    <3>5. JobFits'
      BY NoJobType, FaultyType DEF TypeOK, MemoryType, JobFits, disk, system, memory, counters, GoTo, End, Idle, InstallPhase, Database
    <3>6. UnitsInstalled'
      BY DEF TypeOK, UnitsInstalled, UnitOrder, disk, system, memory, counters, GoTo, End, Idle
    <3>7. QED
      BY <3>1, <3>2, <3>3, <3>4, <3>5, <3>6 DEF TypeOK
  <2>15. CASE RollbackServices
    <3>. USE <2>15 DEF RollbackServices, TakeDown, TakeDownInPart
    <3>1. DiskType'
      BY DEF TypeOK, DiskType, disk, system, memory, counters
    <3>2. SystemType'
      BY UnitOrderType, LaunchType, StopType, LaunchedType DEF TypeOK, SystemType, disk, system, memory, counters
    <3>3. MemoryType'
      BY NoJobType, FaultyType DEF TypeOK, MemoryType, disk, system, memory, counters, GoTo, End, Idle, InstallPhase, ManagerPhase
    <3>4. CounterType'
      BY DEF TypeOK, CounterType, disk, system, memory, counters, GoTo, Fault, NoFault, End, Idle
    <3>5. JobFits'
      BY NoJobType, FaultyType DEF TypeOK, MemoryType, JobFits, disk, system, memory, counters, GoTo, End, Idle, InstallPhase, Database
    <3>6. UnitsInstalled'
      BY DEF TypeOK, UnitsInstalled, UnitOrder, disk, system, memory, counters, GoTo, End, Idle
    <3>7. QED
      BY <3>1, <3>2, <3>3, <3>4, <3>5, <3>6 DEF TypeOK
  <2>16. CASE RollbackFiles
    <3>. USE <2>16 DEF RollbackFiles, LastFault
    <3>1. DiskType'
      BY DEF TypeOK, DiskType, disk, system, memory, counters
    <3>2. SystemType'
      BY UnitOrderType, LaunchType, StopType, LaunchedType DEF TypeOK, SystemType, disk, system, memory, counters
    <3>3. MemoryType'
      BY NoJobType, FaultyType DEF TypeOK, MemoryType, disk, system, memory, counters, GoTo, End, Idle, InstallPhase, ManagerPhase
    <3>4. CounterType'
      BY DEF TypeOK, CounterType, disk, system, memory, counters, GoTo, Fault, NoFault, End, Idle
    <3>5. JobFits'
      BY NoJobType, FaultyType DEF TypeOK, MemoryType, JobFits, disk, system, memory, counters, GoTo, End, Idle, InstallPhase, Database
    <3>6. UnitsInstalled'
      BY DEF TypeOK, UnitsInstalled, UnitOrder, disk, system, memory, counters, GoTo, End, Idle
    <3>7. QED
      BY <3>1, <3>2, <3>3, <3>4, <3>5, <3>6 DEF TypeOK
  <2>17. CASE ManageServices
    <3>. USE <2>17 DEF ManageServices, LastFault
    <3>1. DiskType'
      BY DEF TypeOK, DiskType, disk, system, memory, counters
    <3>2. SystemType'
      BY UnitOrderType, LaunchType, StopType, LaunchedType DEF TypeOK, SystemType, disk, system, memory, counters
    <3>3. MemoryType'
      BY NoJobType, FaultyType DEF TypeOK, MemoryType, disk, system, memory, counters, GoTo, End, Idle, InstallPhase, ManagerPhase
    <3>4. CounterType'
      BY DEF TypeOK, CounterType, disk, system, memory, counters, GoTo, Fault, NoFault, End, Idle
    <3>5. JobFits'
      BY NoJobType, FaultyType DEF TypeOK, MemoryType, JobFits, disk, system, memory, counters, GoTo, End, Idle, InstallPhase, Database
    <3>6. UnitsInstalled'
      BY DEF TypeOK, UnitsInstalled, UnitOrder, disk, system, memory, counters, GoTo, End, Idle
    <3>7. QED
      BY <3>1, <3>2, <3>3, <3>4, <3>5, <3>6 DEF TypeOK
  <2>18. CASE Backup
    <3>. USE <2>18 DEF Backup
    <3>1. DiskType'
      BY DEF TypeOK, DiskType, disk, system, memory, counters
    <3>2. SystemType'
      BY UnitOrderType, LaunchType, StopType, LaunchedType DEF TypeOK, SystemType, disk, system, memory, counters
    <3>3. MemoryType'
      BY NoJobType, FaultyType DEF TypeOK, MemoryType, disk, system, memory, counters, GoTo, End, Idle, InstallPhase, ManagerPhase
    <3>4. CounterType'
      BY DEF TypeOK, CounterType, disk, system, memory, counters, GoTo, Fault, NoFault, End, Idle
    <3>5. JobFits'
      BY NoJobType, FaultyType DEF TypeOK, MemoryType, JobFits, disk, system, memory, counters, GoTo, End, Idle, InstallPhase, Database
    <3>6. UnitsInstalled'
      BY DEF TypeOK, UnitsInstalled, UnitOrder, disk, system, memory, counters, GoTo, End, Idle
    <3>7. QED
      BY <3>1, <3>2, <3>3, <3>4, <3>5, <3>6 DEF TypeOK
  <2>19. ASSUME NEW R \in SUBSET Targets, StartUninstall(R) PROVE TInv'
    <3>. USE <2>19 DEF StartUninstall, Begin
    <3>1. DiskType'
      BY DEF TypeOK, DiskType, disk, system, memory, counters
    <3>2. SystemType'
      BY UnitOrderType, LaunchType, StopType, LaunchedType DEF TypeOK, SystemType, disk, system, memory, counters
    <3>3. MemoryType'
      <4>1. job' \in Job
        BY ManagerJobType
      <4>2. QED
        BY <4>1, NoJobType DEF TypeOK, MemoryType, disk, system, memory, counters, ManagerPhase
    <3>4. CounterType'
      BY DEF TypeOK, CounterType, disk, system, memory, counters, GoTo, Fault, NoFault, End, Idle
    <3>5. JobFits'
      BY NoJobType, FaultyType DEF TypeOK, MemoryType, JobFits, disk, system, memory, counters, GoTo, End, Idle, InstallPhase, Database
    <3>6. UnitsInstalled'
      BY DEF TypeOK, UnitsInstalled, UnitOrder, disk, system, memory, counters, GoTo, End, Idle
    <3>7. QED
      BY <3>1, <3>2, <3>3, <3>4, <3>5, <3>6 DEF TypeOK
  <2>20. CASE RemoveServices
    <3>. USE <2>20 DEF RemoveServices, TakeDown, TakeDownInPart
    <3>1. DiskType'
      BY DEF TypeOK, DiskType, disk, system, memory, counters
    <3>2. SystemType'
      BY UnitOrderType, LaunchType, StopType, LaunchedType DEF TypeOK, SystemType, disk, system, memory, counters
    <3>3. MemoryType'
      BY NoJobType, FaultyType DEF TypeOK, MemoryType, disk, system, memory, counters, GoTo, End, Idle, InstallPhase, ManagerPhase
    <3>4. CounterType'
      BY DEF TypeOK, CounterType, disk, system, memory, counters, GoTo, Fault, NoFault, End, Idle
    <3>5. JobFits'
      BY NoJobType, FaultyType DEF TypeOK, MemoryType, JobFits, disk, system, memory, counters, GoTo, End, Idle, InstallPhase, Database
    <3>6. UnitsInstalled'
      BY DEF TypeOK, UnitsInstalled, UnitOrder, disk, system, memory, counters, GoTo, End, Idle
    <3>7. QED
      BY <3>1, <3>2, <3>3, <3>4, <3>5, <3>6 DEF TypeOK
  <2>21. CASE RemoveDatabase
    <3>. USE <2>21 DEF RemoveDatabase
    <3>1. DiskType'
      BY DEF TypeOK, DiskType, disk, system, memory, counters
    <3>2. SystemType'
      BY UnitOrderType, LaunchType, StopType, LaunchedType DEF TypeOK, SystemType, disk, system, memory, counters
    <3>3. MemoryType'
      BY NoJobType, FaultyType DEF TypeOK, MemoryType, disk, system, memory, counters, GoTo, End, Idle, InstallPhase, ManagerPhase
    <3>4. CounterType'
      BY DEF TypeOK, CounterType, disk, system, memory, counters, GoTo, Fault, NoFault, End, Idle
    <3>5. JobFits'
      BY NoJobType, FaultyType DEF TypeOK, MemoryType, JobFits, disk, system, memory, counters, GoTo, End, Idle, InstallPhase, Database
    <3>6. UnitsInstalled'
      BY DEF TypeOK, UnitsInstalled, UnitOrder, disk, system, memory, counters, GoTo, End, Idle
    <3>7. QED
      BY <3>1, <3>2, <3>3, <3>4, <3>5, <3>6 DEF TypeOK
  <2>21b. CASE RemoveBackups
    <3>. USE <2>21b DEF RemoveBackups
    <3>1. DiskType'
      BY DEF TypeOK, DiskType, disk, system, memory, counters
    <3>2. SystemType'
      BY UnitOrderType, LaunchType, StopType, LaunchedType DEF TypeOK, SystemType, disk, system, memory, counters
    <3>3. MemoryType'
      BY NoJobType, FaultyType DEF TypeOK, MemoryType, disk, system, memory, counters, GoTo, End, Idle, InstallPhase, ManagerPhase
    <3>4. CounterType'
      BY DEF TypeOK, CounterType, disk, system, memory, counters, GoTo, Fault, NoFault, End, Idle
    <3>5. JobFits'
      BY NoJobType, FaultyType DEF TypeOK, MemoryType, JobFits, disk, system, memory, counters, GoTo, End, Idle, InstallPhase, Database
    <3>6. UnitsInstalled'
      BY DEF TypeOK, UnitsInstalled, UnitOrder, disk, system, memory, counters, GoTo, End, Idle
    <3>7. QED
      BY <3>1, <3>2, <3>3, <3>4, <3>5, <3>6 DEF TypeOK
  <2>22. CASE RemoveConfig
    <3>. USE <2>22 DEF RemoveConfig
    <3>1. DiskType'
      BY DEF TypeOK, DiskType, disk, system, memory, counters
    <3>2. SystemType'
      BY UnitOrderType, LaunchType, StopType, LaunchedType DEF TypeOK, SystemType, disk, system, memory, counters
    <3>3. MemoryType'
      BY NoJobType, FaultyType DEF TypeOK, MemoryType, disk, system, memory, counters, GoTo, End, Idle, InstallPhase, ManagerPhase
    <3>4. CounterType'
      BY DEF TypeOK, CounterType, disk, system, memory, counters, GoTo, Fault, NoFault, End, Idle
    <3>5. JobFits'
      BY NoJobType, FaultyType DEF TypeOK, MemoryType, JobFits, disk, system, memory, counters, GoTo, End, Idle, InstallPhase, Database
    <3>6. UnitsInstalled'
      BY DEF TypeOK, UnitsInstalled, UnitOrder, disk, system, memory, counters, GoTo, End, Idle
    <3>7. QED
      BY <3>1, <3>2, <3>3, <3>4, <3>5, <3>6 DEF TypeOK
  <2>23. CASE RemoveApplication
    <3>. USE <2>23 DEF RemoveApplication
    <3>1. DiskType'
      BY DEF TypeOK, DiskType, disk, system, memory, counters
    <3>2. SystemType'
      BY UnitOrderType, LaunchType, StopType, LaunchedType DEF TypeOK, SystemType, disk, system, memory, counters
    <3>3. MemoryType'
      BY NoJobType, FaultyType DEF TypeOK, MemoryType, disk, system, memory, counters, GoTo, End, Idle, InstallPhase, ManagerPhase
    <3>4. CounterType'
      BY DEF TypeOK, CounterType, disk, system, memory, counters, GoTo, Fault, NoFault, End, Idle
    <3>5. JobFits'
      BY NoJobType, FaultyType DEF TypeOK, MemoryType, JobFits, disk, system, memory, counters, GoTo, End, Idle, InstallPhase, Database
    <3>6. UnitsInstalled'
      BY DEF TypeOK, UnitsInstalled, UnitOrder, disk, system, memory, counters, GoTo, End, Idle
    <3>7. QED
      BY <3>1, <3>2, <3>3, <3>4, <3>5, <3>6 DEF TypeOK
  <2>24. ASSUME NEW b \in backups, StartRestore(b) PROVE TInv'
    <3>. USE <2>24 DEF StartRestore, Begin
    <3>1. DiskType'
      BY DEF TypeOK, DiskType, disk, system, memory, counters
    <3>2. SystemType'
      BY UnitOrderType, LaunchType, StopType, LaunchedType DEF TypeOK, SystemType, disk, system, memory, counters
    <3>3. MemoryType'
      <4>1. job' \in Job
        BY ManagerJobType DEF TypeOK, DiskType
      <4>2. QED
        BY <4>1, NoJobType DEF TypeOK, MemoryType, disk, system, memory, counters, ManagerPhase
    <3>4. CounterType'
      BY DEF TypeOK, CounterType, disk, system, memory, counters, GoTo, Fault, NoFault, End, Idle
    <3>5. JobFits'
      <4>1. job'.source \in Database
        BY ManagerJobType DEF TypeOK, DiskType
      <4>2. QED
        BY <4>1 DEF JobFits, disk, system, memory, counters, InstallPhase
    <3>6. UnitsInstalled'
      BY DEF TypeOK, UnitsInstalled, UnitOrder, disk, system, memory, counters, GoTo, End, Idle
    <3>7. QED
      BY <3>1, <3>2, <3>3, <3>4, <3>5, <3>6 DEF TypeOK
  <2>25. CASE RestoreStop
    <3>. USE <2>25 DEF RestoreStop
    <3>1. DiskType'
      BY DEF TypeOK, DiskType, disk, system, memory, counters
    <3>2. SystemType'
      BY UnitOrderType, LaunchType, StopType, LaunchedType DEF TypeOK, SystemType, disk, system, memory, counters
    <3>3. MemoryType'
      BY NoJobType, FaultyType DEF TypeOK, MemoryType, disk, system, memory, counters, GoTo, End, Idle, InstallPhase, ManagerPhase
    <3>4. CounterType'
      BY DEF TypeOK, CounterType, disk, system, memory, counters, GoTo, Fault, NoFault, End, Idle
    <3>5. JobFits'
      BY NoJobType, FaultyType DEF TypeOK, MemoryType, JobFits, disk, system, memory, counters, GoTo, End, Idle, InstallPhase, Database
    <3>6. UnitsInstalled'
      BY DEF TypeOK, UnitsInstalled, UnitOrder, disk, system, memory, counters, GoTo, End, Idle
    <3>7. QED
      BY <3>1, <3>2, <3>3, <3>4, <3>5, <3>6 DEF TypeOK
  <2>26. CASE RestoreSafety
    <3>. USE <2>26 DEF RestoreSafety, SafetyCopy
    <3>1. DiskType'
      BY DEF TypeOK, DiskType, disk, system, memory, counters
    <3>2. SystemType'
      BY UnitOrderType, LaunchType, StopType, LaunchedType DEF TypeOK, SystemType, disk, system, memory, counters
    <3>3. MemoryType'
      BY NoJobType, FaultyType DEF TypeOK, MemoryType, disk, system, memory, counters, GoTo, End, Idle, InstallPhase, ManagerPhase
    <3>4. CounterType'
      BY DEF TypeOK, CounterType, disk, system, memory, counters, GoTo, Fault, NoFault, End, Idle
    <3>5. JobFits'
      BY NoJobType, FaultyType DEF TypeOK, MemoryType, JobFits, disk, system, memory, counters, GoTo, End, Idle, InstallPhase, Database
    <3>6. UnitsInstalled'
      BY DEF TypeOK, UnitsInstalled, UnitOrder, disk, system, memory, counters, GoTo, End, Idle
    <3>7. QED
      BY <3>1, <3>2, <3>3, <3>4, <3>5, <3>6 DEF TypeOK
  <2>27. CASE RestoreCopy
    <3>. USE <2>27 DEF RestoreCopy
    <3>1. DiskType'
      BY DEF TypeOK, DiskType, JobFits, disk, system, memory, counters
    <3>2. SystemType'
      BY UnitOrderType, LaunchType, StopType, LaunchedType DEF TypeOK, SystemType, disk, system, memory, counters
    <3>3. MemoryType'
      BY NoJobType, FaultyType DEF TypeOK, MemoryType, disk, system, memory, counters, GoTo, End, Idle, InstallPhase, ManagerPhase
    <3>4. CounterType'
      BY DEF TypeOK, CounterType, disk, system, memory, counters, GoTo, Fault, NoFault, End, Idle
    <3>5. JobFits'
      BY NoJobType, FaultyType DEF TypeOK, MemoryType, JobFits, disk, system, memory, counters, GoTo, End, Idle, InstallPhase, Database
    <3>6. UnitsInstalled'
      BY DEF TypeOK, UnitsInstalled, UnitOrder, disk, system, memory, counters, GoTo, End, Idle
    <3>7. QED
      BY <3>1, <3>2, <3>3, <3>4, <3>5, <3>6 DEF TypeOK
  <2>28. CASE RestoreStart
    <3>. USE <2>28 DEF RestoreStart, LastFault
    <3>1. DiskType'
      BY DEF TypeOK, DiskType, disk, system, memory, counters
    <3>2. SystemType'
      BY UnitOrderType, LaunchType, StopType, LaunchedType DEF TypeOK, SystemType, disk, system, memory, counters
    <3>3. MemoryType'
      BY NoJobType, FaultyType DEF TypeOK, MemoryType, disk, system, memory, counters, GoTo, End, Idle, InstallPhase, ManagerPhase
    <3>4. CounterType'
      BY DEF TypeOK, CounterType, disk, system, memory, counters, GoTo, Fault, NoFault, End, Idle
    <3>5. JobFits'
      BY NoJobType, FaultyType DEF TypeOK, MemoryType, JobFits, disk, system, memory, counters, GoTo, End, Idle, InstallPhase, Database
    <3>6. UnitsInstalled'
      BY DEF TypeOK, UnitsInstalled, UnitOrder, disk, system, memory, counters, GoTo, End, Idle
    <3>7. QED
      BY <3>1, <3>2, <3>3, <3>4, <3>5, <3>6 DEF TypeOK
  <2>29. CASE Crash
    <3>. USE <2>29 DEF Crash
    <3>1. DiskType'
      BY DEF TypeOK, DiskType, disk, system, memory, counters
    <3>2. SystemType'
      BY UnitOrderType, LaunchType, StopType, LaunchedType DEF TypeOK, SystemType, disk, system, memory, counters
    <3>3. MemoryType'
      BY NoJobType, FaultyType DEF TypeOK, MemoryType, disk, system, memory, counters, GoTo, End, Idle, InstallPhase, ManagerPhase
    <3>4. CounterType'
      BY DEF TypeOK, CounterType, disk, system, memory, counters, GoTo, Fault, NoFault, End, Idle
    <3>5. JobFits'
      BY NoJobType, FaultyType DEF TypeOK, MemoryType, JobFits, disk, system, memory, counters, GoTo, End, Idle, InstallPhase, Database
    <3>6. UnitsInstalled'
      BY DEF TypeOK, UnitsInstalled, UnitOrder, disk, system, memory, counters, GoTo, End, Idle
    <3>7. QED
      BY <3>1, <3>2, <3>3, <3>4, <3>5, <3>6 DEF TypeOK
  <2>30. CASE Reboot
    <3>. USE <2>30 DEF Reboot, StartedAtBoot
    <3>1. DiskType'
      BY DEF TypeOK, DiskType, disk, system, memory, counters
    <3>2. SystemType'
      <4>1. running' \in [Services -> Versions \cup {None, Mixed}]
        BY LaunchedType
      <4>2. listening' \in Ports \cup {None}
        BY LaunchedType
      <4>3. QED
        BY <4>1, <4>2 DEF TypeOK, SystemType
    <3>3. MemoryType'
      BY NoJobType, FaultyType DEF TypeOK, MemoryType, disk, system, memory, counters, GoTo, End, Idle, InstallPhase, ManagerPhase
    <3>4. CounterType'
      BY DEF TypeOK, CounterType, disk, system, memory, counters, GoTo, Fault, NoFault, End, Idle
    <3>5. JobFits'
      BY NoJobType, FaultyType DEF TypeOK, MemoryType, JobFits, disk, system, memory, counters, GoTo, End, Idle, InstallPhase, Database
    <3>6. UnitsInstalled'
      BY DEF TypeOK, UnitsInstalled, UnitOrder, disk, system, memory, counters, GoTo, End, Idle
    <3>7. QED
      BY <3>1, <3>2, <3>3, <3>4, <3>5, <3>6 DEF TypeOK
  <2>31. CASE UNCHANGED vars
    BY <2>31 DEF vars, disk, system, memory, counters, TypeOK, DiskType, SystemType,
       MemoryType, CounterType, JobFits, UnitsInstalled, UnitOrder
  <2>32. QED
    BY <2>1, <2>2, <2>3, <2>4, <2>5, <2>6, <2>7, <2>8, <2>9, <2>10, <2>11, <2>12, <2>13, <2>14, <2>15, <2>16, <2>17, <2>18, <2>19, <2>20, <2>21, <2>21b, <2>22, <2>23, <2>24, <2>25, <2>26, <2>27, <2>28, <2>29, <2>30, <2>31
    DEF Next, InstallStep, ManagerStep
<1>3. QED
  BY <1>1, <1>2

\* The types hold, for any versions, ports and number of runs.
THEOREM TypeInvariant == Spec => []TypeOK
<1>1. TInv => TypeOK
  BY DEF TInv
<1>2. QED
  BY <1>1, TypeInductive, PTL DEF Spec

-----------------------------------------------------------------------------
\* The .env that the run in progress created is the one that is there.
OwnSecret == registry.envCreated /\ env # None => env.secret = jobs

SecretsStep ==
  env # None =>
    \/ env' = env
    \/ env' = None /\ phase \in {"removeConfig", "removeApplication"}
    \/ env' = None /\ phase = "rollbackFiles" /\ env.secret = jobs

\* Every step keeps OwnSecret, and changes the .env as allowed.
LEMMA SecretsInductive ==
  ASSUME TInv, OwnSecret, [Next]_vars
  PROVE  OwnSecret' /\ SecretsStep
<1>. USE InstallerAssumption DEF OwnSecret, SecretsStep, EmptyRegistry, Registry
<1>0. job \in Job /\ registry \in Registry
  BY DEF TInv, TypeOK, MemoryType
<1>1. ASSUME NEW s \in Services, ServiceDies(s) PROVE OwnSecret' /\ SecretsStep
  BY <1>0, <1>1, FaultyType
  DEF ServiceDies, Launch, Stop, Launched, disk, system, memory, counters, GoTo, End, Idle
<1>2. CASE Edit
  BY <1>0, <1>2, FaultyType
  DEF Edit, disk, system, memory, counters, GoTo, End, Idle
<1>3. ASSUME NEW v \in Versions, NEW p \in Ports, StartInstall(v, p) PROVE OwnSecret' /\ SecretsStep
  BY <1>0, <1>3, FaultyType
  DEF StartInstall, Begin, disk, system, memory, counters, GoTo, End, Idle
<1>4. CASE Preflight
  BY <1>0, <1>4, FaultyType
  DEF Preflight, disk, system, memory, counters, GoTo, End, Idle
<1>5. CASE Deploy
  BY <1>0, <1>5, FaultyType
  DEF Deploy, disk, system, memory, counters, GoTo, End, Idle
<1>6. CASE DeployEnds
  BY <1>0, <1>6, FaultyType
  DEF DeployEnds, disk, system, memory, counters, GoTo, End, Idle
<1>7. CASE Environment
  BY <1>0, <1>7, FaultyType
  DEF Environment, disk, system, memory, counters, GoTo, End, Idle
<1>8. CASE InitDatabase
  BY <1>0, <1>8, FaultyType
  DEF InitDatabase, disk, system, memory, counters, GoTo, End, Idle
<1>9. CASE ServicesBegin
  BY <1>0, <1>9, FaultyType
  DEF ServicesBegin, disk, system, memory, counters, GoTo, End, Idle
<1>10. CASE InstallUnit
  BY <1>0, <1>10, FaultyType
  DEF InstallUnit, InstallUnitLinux, InstallUnitWindows, Registered, Stop, disk, system, memory, counters, GoTo, End, Idle
<1>11. CASE StartServices
  BY <1>0, <1>11, FaultyType
  DEF StartServices, StartServicesLinux, StartServicesWindows, Launch, Launched, disk, system, memory, counters, GoTo, End, Idle
<1>12. CASE Health
  BY <1>0, <1>12, FaultyType
  DEF Health, disk, system, memory, counters, GoTo, End, Idle
<1>13. CASE CreateAdmin
  BY <1>0, <1>13, FaultyType
  DEF CreateAdmin, disk, system, memory, counters, GoTo, End, Idle
<1>14. CASE Finalize
  BY <1>0, <1>14, FaultyType
  DEF Finalize, disk, system, memory, counters, GoTo, End, Idle
<1>15. CASE RollbackServices
  BY <1>0, <1>15, FaultyType
  DEF RollbackServices, TakeDown, TakeDownInPart, Stop, disk, system, memory, counters, GoTo, End, Idle
<1>16. CASE RollbackFiles
  BY <1>0, <1>16, FaultyType
  DEF RollbackFiles, LastFault, OwnEnv, disk, system, memory, counters, GoTo, End, Idle
<1>17. CASE ManageServices
  BY <1>0, <1>17, FaultyType
  DEF ManageServices, LastFault, Launch, Launched, Stop, disk, system, memory, counters, GoTo, End, Idle
<1>18. CASE Backup
  BY <1>0, <1>18, FaultyType
  DEF Backup, disk, system, memory, counters, GoTo, End, Idle
<1>19. ASSUME NEW R \in SUBSET Targets, StartUninstall(R) PROVE OwnSecret' /\ SecretsStep
  BY <1>0, <1>19, FaultyType
  DEF StartUninstall, Begin, disk, system, memory, counters, GoTo, End, Idle
<1>20. CASE RemoveServices
  BY <1>0, <1>20, FaultyType
  DEF RemoveServices, TakeDown, TakeDownInPart, Stop, disk, system, memory, counters, GoTo, End, Idle
<1>21. CASE RemoveDatabase
  BY <1>0, <1>21, FaultyType
  DEF RemoveDatabase, disk, system, memory, counters, GoTo, End, Idle
<1>21b. CASE RemoveBackups
  BY <1>0, <1>21b, FaultyType
  DEF RemoveBackups, disk, system, memory, counters, GoTo, End, Idle
<1>22. CASE RemoveConfig
  BY <1>0, <1>22, FaultyType
  DEF RemoveConfig, disk, system, memory, counters, GoTo, End, Idle
<1>23. CASE RemoveApplication
  BY <1>0, <1>23, FaultyType
  DEF RemoveApplication, disk, system, memory, counters, GoTo, End, Idle
<1>24. ASSUME NEW b \in backups, StartRestore(b) PROVE OwnSecret' /\ SecretsStep
  BY <1>0, <1>24, FaultyType
  DEF StartRestore, Begin, disk, system, memory, counters, GoTo, End, Idle
<1>25. CASE RestoreStop
  BY <1>0, <1>25, FaultyType
  DEF RestoreStop, Stop, disk, system, memory, counters, GoTo, End, Idle
<1>26. CASE RestoreSafety
  BY <1>0, <1>26, FaultyType
  DEF RestoreSafety, SafetyCopy, disk, system, memory, counters, GoTo, End, Idle
<1>27. CASE RestoreCopy
  BY <1>0, <1>27, FaultyType
  DEF RestoreCopy, disk, system, memory, counters, GoTo, End, Idle
<1>28. CASE RestoreStart
  BY <1>0, <1>28, FaultyType
  DEF RestoreStart, LastFault, Launch, disk, system, memory, counters, GoTo, End, Idle
<1>29. CASE Crash
  BY <1>0, <1>29, FaultyType
  DEF Crash, disk, system, memory, counters, GoTo, End, Idle
<1>30. CASE Reboot
  BY <1>0, <1>30, FaultyType
  DEF Reboot, StartedAtBoot, disk, system, memory, counters, GoTo, End, Idle
<1>31. CASE UNCHANGED vars
  BY <1>31 DEF vars, disk, system, memory, counters, GoTo, End, Idle
<1>32. QED
  BY <1>1, <1>2, <1>3, <1>4, <1>5, <1>6, <1>7, <1>8, <1>9, <1>10, <1>11, <1>12, <1>13, <1>14, <1>15, <1>16, <1>17, <1>18, <1>19, <1>20, <1>21, <1>21b, <1>22, <1>23, <1>24, <1>25, <1>26, <1>27, <1>28, <1>29, <1>30, <1>31
  DEF Next, InstallStep, ManagerStep

\* SecretsStable, for any versions, ports and number of runs.
THEOREM Secrets == Spec => SecretsStable
<1>1. Init => OwnSecret
  BY DEF Init, OwnSecret, SecretsStep, EmptyRegistry
<1>2. QED
  BY <1>1, TypeInductive, SecretsInductive, PTL DEF Spec, SecretsStable, SecretsStep

-----------------------------------------------------------------------------
\* While a restore copies, no service runs, so nobody edits what it has saved,
\* unless the services could not be stopped; what it is about to overwrite has a
\* copy, unless that copy failed too.
RestoreSafe ==
  /\ phase \in {"restoreSafety", "restoreCopy", "restoring"}
       /\ "restoreStop" \notin job.failed => \A s \in Services : running[s] = None
  /\ phase = "restoreCopy" /\ db \in Database /\ ~UnsafeRestore => db \in backups
  /\ phase = "restoring" => db = Torn

DataStep ==
  (db \in Database) /\ (db' \in Database => db'.content # db.content) =>
    \/ edits' = edits + 1
    \/ phase = "removeDatabase" /\ "database" \in job.remove
    \/ phase = "restoreCopy" /\ (db \in backups \/ UnsafeRestore)

\* Every step keeps RestoreSafe, and changes the content as allowed.
LEMMA DataInductive ==
  ASSUME TInv, RestoreSafe, [Next]_vars
  PROVE  RestoreSafe' /\ DataStep
<1>. USE InstallerAssumption DEF RestoreSafe, DataStep, UnsafeRestore
<1>0. job \in Job /\ registry \in Registry
  BY DEF TInv, TypeOK, MemoryType
<1>1. ASSUME NEW s \in Services, ServiceDies(s) PROVE RestoreSafe' /\ DataStep
  BY <1>0, <1>1, FaultyType
  DEF ServiceDies, Launch, Stop, Launched, disk, system, memory, counters, GoTo, End, Idle
<1>2. CASE Edit
  <2>1. "restoreStop" \in job.failed \/ phase \notin {"restoreSafety", "restoreCopy", "restoring"}
    BY <1>2 DEF Edit, Alive, Services
  <2>2. "restoreStop" \in job.failed => UnsafeRestore
    OBVIOUS
  <2>3. QED
    BY <2>1, <2>2, <1>2 DEF Edit, Database, system, memory
<1>3. ASSUME NEW v \in Versions, NEW p \in Ports, StartInstall(v, p) PROVE RestoreSafe' /\ DataStep
  BY <1>0, <1>3, FaultyType
  DEF StartInstall, Begin, disk, system, memory, counters, GoTo, End, Idle
<1>4. CASE Preflight
  BY <1>0, <1>4, FaultyType
  DEF Preflight, disk, system, memory, counters, GoTo, End, Idle
<1>5. CASE Deploy
  BY <1>0, <1>5, FaultyType
  DEF Deploy, disk, system, memory, counters, GoTo, End, Idle
<1>6. CASE DeployEnds
  BY <1>0, <1>6, FaultyType
  DEF DeployEnds, disk, system, memory, counters, GoTo, End, Idle
<1>7. CASE Environment
  BY <1>0, <1>7, FaultyType
  DEF Environment, disk, system, memory, counters, GoTo, End, Idle
<1>8. CASE InitDatabase
  <2>1. db # Torn => Migrated(db, job.payload) \in Database
    BY <1>8, MigratedType DEF TInv, TypeOK, DiskType, JobFits, InstallPhase, InitDatabase
  <2>2. db \in Database => Migrated(db, job.payload).content = db.content
    BY <1>8, MigratedType DEF TInv, JobFits, InstallPhase, Database, InitDatabase
  <2>3. db \in Database => db # Torn
    BY DEF Database
  <2>4. QED
    BY <2>1, <2>2, <2>3, <1>8 DEF InitDatabase, disk, system, memory, counters, GoTo, End, Idle
<1>9. CASE ServicesBegin
  BY <1>0, <1>9, FaultyType
  DEF ServicesBegin, disk, system, memory, counters, GoTo, End, Idle
<1>10. CASE InstallUnit
  BY <1>0, <1>10, FaultyType
  DEF InstallUnit, InstallUnitLinux, InstallUnitWindows, Registered, Stop, disk, system, memory, counters, GoTo, End, Idle
<1>11. CASE StartServices
  BY <1>0, <1>11, FaultyType
  DEF StartServices, StartServicesLinux, StartServicesWindows, Launch, Launched, disk, system, memory, counters, GoTo, End, Idle
<1>12. CASE Health
  BY <1>0, <1>12, FaultyType
  DEF Health, disk, system, memory, counters, GoTo, End, Idle
<1>13. CASE CreateAdmin
  BY <1>0, <1>13, FaultyType
  DEF CreateAdmin, disk, system, memory, counters, GoTo, End, Idle
<1>14. CASE Finalize
  BY <1>0, <1>14, FaultyType
  DEF Finalize, disk, system, memory, counters, GoTo, End, Idle
<1>15. CASE RollbackServices
  BY <1>0, <1>15, FaultyType
  DEF RollbackServices, TakeDown, TakeDownInPart, Stop, disk, system, memory, counters, GoTo, End, Idle
<1>16. CASE RollbackFiles
  BY <1>0, <1>16, FaultyType
  DEF RollbackFiles, LastFault, OwnEnv, disk, system, memory, counters, GoTo, End, Idle
<1>17. CASE ManageServices
  BY <1>0, <1>17, FaultyType
  DEF ManageServices, LastFault, Launch, Launched, Stop, disk, system, memory, counters, GoTo, End, Idle
<1>18. CASE Backup
  BY <1>0, <1>18, FaultyType
  DEF Backup, disk, system, memory, counters, GoTo, End, Idle
<1>19. ASSUME NEW R \in SUBSET Targets, StartUninstall(R) PROVE RestoreSafe' /\ DataStep
  BY <1>0, <1>19, FaultyType
  DEF StartUninstall, Begin, disk, system, memory, counters, GoTo, End, Idle
<1>20. CASE RemoveServices
  BY <1>0, <1>20, FaultyType
  DEF RemoveServices, TakeDown, TakeDownInPart, Stop, disk, system, memory, counters, GoTo, End, Idle
<1>21. CASE RemoveDatabase
  BY <1>0, <1>21, FaultyType
  DEF RemoveDatabase, disk, system, memory, counters, GoTo, End, Idle
<1>21b. CASE RemoveBackups
  BY <1>0, <1>21b, FaultyType
  DEF RemoveBackups, disk, system, memory, counters, GoTo, End, Idle
<1>22. CASE RemoveConfig
  BY <1>0, <1>22, FaultyType
  DEF RemoveConfig, disk, system, memory, counters, GoTo, End, Idle
<1>23. CASE RemoveApplication
  BY <1>0, <1>23, FaultyType
  DEF RemoveApplication, disk, system, memory, counters, GoTo, End, Idle
<1>24. ASSUME NEW b \in backups, StartRestore(b) PROVE RestoreSafe' /\ DataStep
  BY <1>0, <1>24, FaultyType
  DEF StartRestore, Begin, disk, system, memory, counters, GoTo, End, Idle
<1>25. CASE RestoreStop
  BY <1>0, <1>25, FaultyType
  DEF RestoreStop, Stop, disk, system, memory, counters, GoTo, End, Idle
<1>26. CASE RestoreSafety
  <2>1. /\ job.failed \subseteq job'.failed
        /\ Fault => "restoreSafety" \in job'.failed
    BY <1>0, <1>26, FaultyType DEF RestoreSafety
  <2>2. QED
    BY <2>1, <1>26 DEF RestoreSafety, SafetyCopy, disk, system, memory, counters, GoTo, End, Idle
<1>27. CASE RestoreCopy
  <2>1. Torn \notin Database
    BY DEF Database
  <2>2. QED
    BY <1>0, <2>1, <1>27, FaultyType DEF RestoreCopy, disk, system, memory, counters, GoTo, End, Idle
<1>28. CASE RestoreStart
  BY <1>0, <1>28, FaultyType
  DEF RestoreStart, LastFault, Launch, disk, system, memory, counters, GoTo, End, Idle
<1>29. CASE Crash
  BY <1>0, <1>29, FaultyType
  DEF Crash, disk, system, memory, counters, GoTo, End, Idle
<1>30. CASE Reboot
  BY <1>0, <1>30, FaultyType
  DEF Reboot, StartedAtBoot, disk, system, memory, counters, GoTo, End, Idle
<1>31. CASE UNCHANGED vars
  BY <1>31 DEF vars, disk, system, memory, counters, GoTo, End, Idle
<1>32. QED
  BY <1>1, <1>2, <1>3, <1>4, <1>5, <1>6, <1>7, <1>8, <1>9, <1>10, <1>11, <1>12, <1>13, <1>14, <1>15, <1>16, <1>17, <1>18, <1>19, <1>20, <1>21, <1>21b, <1>22, <1>23, <1>24, <1>25, <1>26, <1>27, <1>28, <1>29, <1>30, <1>31
  DEF Next, InstallStep, ManagerStep

\* DataSafe, for any versions, ports and number of runs.
THEOREM Data == Spec => DataSafe
<1>1. Init => RestoreSafe
  BY DEF Init, RestoreSafe, NoJob
<1>2. QED
  BY <1>1, TypeInductive, DataInductive, PTL DEF Spec, DataSafe, DataStep

-----------------------------------------------------------------------------
\* An uninstallation of the services has removed them once it goes on, unless a
\* command of that removal failed.
ServicesGone ==
  phase \in {"removeDatabase", "removeBackups", "removeConfig", "removeApplication"}
  /\ "services" \in job.remove =>
       (units = {} /\ auto = {}) \/ "removeServices" \in job.failed

CodeStep ==
  code # None /\ code' = None =>
    /\ phase = "removeApplication"
    /\ "services" \in job.remove =>
         (units = {} /\ auto = {}) \/ "removeServices" \in job.failed

\* Every step keeps ServicesGone, and takes the code away as allowed.
LEMMA CodeInductive ==
  ASSUME TInv, ServicesGone, [Next]_vars
  PROVE  ServicesGone' /\ CodeStep
<1>. USE InstallerAssumption DEF ServicesGone, CodeStep
<1>0. job \in Job /\ registry \in Registry
  BY DEF TInv, TypeOK, MemoryType
<1>1. ASSUME NEW s \in Services, ServiceDies(s) PROVE ServicesGone' /\ CodeStep
  BY <1>0, <1>1, FaultyType
  DEF ServiceDies, Launch, Stop, Launched, disk, system, memory, counters, GoTo, End, Idle
<1>2. CASE Edit
  BY <1>0, <1>2, FaultyType
  DEF Edit, disk, system, memory, counters, GoTo, End, Idle
<1>3. ASSUME NEW v \in Versions, NEW p \in Ports, StartInstall(v, p) PROVE ServicesGone' /\ CodeStep
  BY <1>0, <1>3, FaultyType
  DEF StartInstall, Begin, disk, system, memory, counters, GoTo, End, Idle
<1>4. CASE Preflight
  BY <1>0, <1>4, FaultyType
  DEF Preflight, disk, system, memory, counters, GoTo, End, Idle
<1>5. CASE Deploy
  BY <1>0, <1>5, FaultyType
  DEF Deploy, disk, system, memory, counters, GoTo, End, Idle
<1>6. CASE DeployEnds
  BY <1>6 DEF DeployEnds, OldBuild, disk, system, memory, counters, GoTo, End, Idle, TInv, JobFits, InstallPhase
<1>7. CASE Environment
  BY <1>0, <1>7, FaultyType
  DEF Environment, disk, system, memory, counters, GoTo, End, Idle
<1>8. CASE InitDatabase
  BY <1>0, <1>8, FaultyType
  DEF InitDatabase, disk, system, memory, counters, GoTo, End, Idle
<1>9. CASE ServicesBegin
  BY <1>0, <1>9, FaultyType
  DEF ServicesBegin, disk, system, memory, counters, GoTo, End, Idle
<1>10. CASE InstallUnit
  BY <1>0, <1>10, FaultyType
  DEF InstallUnit, InstallUnitLinux, InstallUnitWindows, Registered, Stop, disk, system, memory, counters, GoTo, End, Idle
<1>11. CASE StartServices
  BY <1>0, <1>11, FaultyType
  DEF StartServices, StartServicesLinux, StartServicesWindows, Launch, Launched, disk, system, memory, counters, GoTo, End, Idle
<1>12. CASE Health
  BY <1>0, <1>12, FaultyType
  DEF Health, disk, system, memory, counters, GoTo, End, Idle
<1>13. CASE CreateAdmin
  BY <1>0, <1>13, FaultyType
  DEF CreateAdmin, disk, system, memory, counters, GoTo, End, Idle
<1>14. CASE Finalize
  BY <1>0, <1>14, FaultyType
  DEF Finalize, disk, system, memory, counters, GoTo, End, Idle
<1>15. CASE RollbackServices
  BY <1>0, <1>15, FaultyType
  DEF RollbackServices, TakeDown, TakeDownInPart, Stop, disk, system, memory, counters, GoTo, End, Idle
<1>16. CASE RollbackFiles
  BY <1>0, <1>16, FaultyType
  DEF RollbackFiles, LastFault, OwnEnv, disk, system, memory, counters, GoTo, End, Idle
<1>17. CASE ManageServices
  BY <1>0, <1>17, FaultyType
  DEF ManageServices, LastFault, Launch, Launched, Stop, disk, system, memory, counters, GoTo, End, Idle
<1>18. CASE Backup
  BY <1>0, <1>18, FaultyType
  DEF Backup, disk, system, memory, counters, GoTo, End, Idle
<1>19. ASSUME NEW R \in SUBSET Targets, StartUninstall(R) PROVE ServicesGone' /\ CodeStep
  BY <1>0, <1>19, FaultyType
  DEF StartUninstall, Begin, disk, system, memory, counters, GoTo, End, Idle
<1>20. CASE RemoveServices
  <2>1. phase' = "removeDatabase" /\ code' = code
    BY <1>20 DEF RemoveServices, GoTo, disk
  <2>2. job'.remove = job.remove /\ (Fault => "removeServices" \in job'.failed)
    BY <1>0, <1>20, FaultyType DEF RemoveServices
  <2>3. TakeDown(Removed, UnitNames) => units' = {} /\ auto' = {}
    BY DEF TakeDown, TInv, TypeOK, SystemType
  <2>4. QED
    BY <2>1, <2>2, <2>3, <1>20 DEF RemoveServices
<1>21. CASE RemoveDatabase
  BY <1>0, <1>21, FaultyType
  DEF RemoveDatabase, disk, system, memory, counters, GoTo, End, Idle
<1>21b. CASE RemoveBackups
  BY <1>0, <1>21b, FaultyType
  DEF RemoveBackups, disk, system, memory, counters, GoTo, End, Idle
<1>22. CASE RemoveConfig
  BY <1>0, <1>22, FaultyType
  DEF RemoveConfig, disk, system, memory, counters, GoTo, End, Idle
<1>23. CASE RemoveApplication
  BY <1>0, <1>23, FaultyType
  DEF RemoveApplication, disk, system, memory, counters, GoTo, End, Idle
<1>24. ASSUME NEW b \in backups, StartRestore(b) PROVE ServicesGone' /\ CodeStep
  BY <1>0, <1>24, FaultyType
  DEF StartRestore, Begin, disk, system, memory, counters, GoTo, End, Idle
<1>25. CASE RestoreStop
  BY <1>0, <1>25, FaultyType
  DEF RestoreStop, Stop, disk, system, memory, counters, GoTo, End, Idle
<1>26. CASE RestoreSafety
  BY <1>0, <1>26, FaultyType
  DEF RestoreSafety, SafetyCopy, disk, system, memory, counters, GoTo, End, Idle
<1>27. CASE RestoreCopy
  BY <1>0, <1>27, FaultyType
  DEF RestoreCopy, disk, system, memory, counters, GoTo, End, Idle
<1>28. CASE RestoreStart
  BY <1>0, <1>28, FaultyType
  DEF RestoreStart, LastFault, Launch, disk, system, memory, counters, GoTo, End, Idle
<1>29. CASE Crash
  BY <1>0, <1>29, FaultyType
  DEF Crash, disk, system, memory, counters, GoTo, End, Idle
<1>30. CASE Reboot
  BY <1>0, <1>30, FaultyType
  DEF Reboot, StartedAtBoot, disk, system, memory, counters, GoTo, End, Idle
<1>31. CASE UNCHANGED vars
  BY <1>31 DEF vars, disk, system, memory, counters, GoTo, End, Idle
<1>32. QED
  BY <1>1, <1>2, <1>3, <1>4, <1>5, <1>6, <1>7, <1>8, <1>9, <1>10, <1>11, <1>12, <1>13, <1>14, <1>15, <1>16, <1>17, <1>18, <1>19, <1>20, <1>21, <1>21b, <1>22, <1>23, <1>24, <1>25, <1>26, <1>27, <1>28, <1>29, <1>30, <1>31
  DEF Next, InstallStep, ManagerStep

\* CodeOutlivesUnits, for any versions, ports and number of runs.
THEOREM CodeOutlives == Spec => CodeOutlivesUnits
<1>1. Init => ServicesGone
  BY DEF Init, ServicesGone
<1>2. QED
  BY <1>1, TypeInductive, CodeInductive, PTL DEF Spec, CodeOutlivesUnits, CodeStep

-----------------------------------------------------------------------------
\* A unit that was not there before the run is one it registered, but for the
\* single one whose file broke off; what the rollback leaves of them is explained.
Unregistered(u) ==
  next \in DOMAIN UnitOrder /\ UnitOrder[next] = u /\ "services" \in job.failed

UnitsAccounted ==
  /\ phase \in InstallPhase \ {"rollbackServices", "rollbackFiles"}
       => units \subseteq job.before \cup registry.units
  /\ phase = "rollbackServices" =>
       \A u \in units \ job.before : u \in registry.units \/ Unregistered(u)
  /\ LeftoversExplained

\* Every step keeps UnitsAccounted.
LEMMA UnitsInductive ==
  ASSUME TInv, UnitsAccounted, [Next]_vars
  PROVE  UnitsAccounted'
<1>. USE InstallerAssumption DEF UnitsAccounted, Unregistered, LeftoversExplained, InstallPhase
<1>0. job \in Job /\ registry \in Registry
  BY DEF TInv, TypeOK, MemoryType
<1>1. ASSUME NEW s \in Services, ServiceDies(s) PROVE UnitsAccounted'
  BY <1>0, <1>1 DEF ServiceDies, UnitOrder, Launch, Stop, Launched, disk, system, memory, counters, GoTo, End, Idle
<1>2. CASE Edit
  BY <1>2 DEF Edit, UnitOrder, disk, system, memory, counters, GoTo, End, Idle
<1>3. ASSUME NEW v \in Versions, NEW p \in Ports, StartInstall(v, p) PROVE UnitsAccounted'
  BY <1>0, <1>3, FaultyType
  DEF StartInstall, Begin, disk, system, memory, counters, GoTo, End, Idle
<1>4. CASE Preflight
  BY <1>0, <1>4, FaultyType
  DEF Preflight, disk, system, memory, counters, GoTo, End, Idle
<1>5. CASE Deploy
  BY <1>0, <1>5, FaultyType
  DEF Deploy, disk, system, memory, counters, GoTo, End, Idle
<1>6. CASE DeployEnds
  <2>1. job'.before = job.before /\ phase = "deploying"
    BY <1>0, <1>6, FaultyType DEF DeployEnds, Job
  <2>2. phase' \in {"environment", "rollbackServices"}
    BY <1>6 DEF DeployEnds, GoTo
  <2>3. QED
    BY <2>1, <2>2, <1>6 DEF DeployEnds, system
<1>7. CASE Environment
  BY <1>0, <1>7, FaultyType DEF Environment, disk, system, memory, counters, GoTo, End, Idle, Registry
<1>8. CASE InitDatabase
  BY <1>0, <1>8, FaultyType
  DEF InitDatabase, disk, system, memory, counters, GoTo, End, Idle
<1>9. CASE ServicesBegin
  BY <1>0, <1>9, FaultyType
  DEF ServicesBegin, disk, system, memory, counters, GoTo, End, Idle
<1>10. CASE InstallUnit
  <2>1. registry.units \subseteq registry'.units
    BY <1>0, <1>10 DEF InstallUnit, InstallUnitLinux, InstallUnitWindows, Registered, Stop, Registry
  <2>2. CASE phase' = "services"
    <3>1. units' \subseteq units \cup registry'.units
      BY <1>0, <1>10, <2>2 DEF InstallUnit, InstallUnitLinux, InstallUnitWindows, Registered, Registry
    <3>2. job'.before = job.before /\ phase = "services"
      BY <1>0, <1>10, FaultyType DEF InstallUnit, InstallUnitLinux, InstallUnitWindows
    <3>3. QED
      BY <2>1, <2>2, <3>1, <3>2
  <2>3. CASE phase' = "rollbackServices"
    <3>1. /\ phase = "services" /\ next \in DOMAIN UnitOrder
          /\ units' \subseteq units \cup {UnitOrder[next]}
          /\ next' = next /\ job'.before = job.before /\ "services" \in job'.failed
      BY <1>0, <1>10, <2>3, FaultyType DEF InstallUnit, InstallUnitLinux, InstallUnitWindows
    <3>2. UnitOrder' = UnitOrder
      BY <1>10 DEF InstallUnit, UnitOrder, disk
    <3>3. QED
      BY <2>1, <2>3, <3>1, <3>2
  <2>4. phase' \in {"services", "rollbackServices"}
    BY <1>10 DEF InstallUnit, InstallUnitLinux, InstallUnitWindows
  <2>5. QED
    BY <2>2, <2>3, <2>4
<1>11. CASE StartServices
  BY <1>0, <1>11, FaultyType
  DEF StartServices, StartServicesLinux, StartServicesWindows, Launch, Launched, disk, system, memory, counters, GoTo, End, Idle
<1>12. CASE Health
  BY <1>0, <1>12, FaultyType
  DEF Health, disk, system, memory, counters, GoTo, End, Idle
<1>13. CASE CreateAdmin
  BY <1>0, <1>13, FaultyType
  DEF CreateAdmin, disk, system, memory, counters, GoTo, End, Idle
<1>14. CASE Finalize
  BY <1>0, <1>14, FaultyType
  DEF Finalize, disk, system, memory, counters, GoTo, End, Idle
<1>15. CASE RollbackServices
  <2>1. /\ phase = "rollbackServices" /\ phase' = "rollbackFiles"
        /\ registry' = registry /\ next' = next /\ UnitOrder' = UnitOrder
    BY <1>15 DEF RollbackServices, GoTo, UnitOrder, disk
  <2>2. job'.before = job.before /\ job.failed \subseteq job'.failed
    BY <1>0, <1>15, FaultyType DEF RollbackServices
  <2>3. CASE TakeDown(RolledBack, registry.units)
    <3>1. units' = units \ registry.units /\ registry.units \cap Services \subseteq RolledBack
      BY <2>3 DEF TakeDown, RolledBack
    <3>2. \A u \in registry.units \cap Services : running'[u] = None
      BY <2>3, <3>1 DEF TakeDown, Stop
    <3>3. QED
      BY <2>1, <2>2, <3>1, <3>2
  <2>4. CASE Fault /\ TakeDownInPart(RolledBack, registry.units)
    <3>1. units' \subseteq units
      BY <2>4 DEF TakeDownInPart
    <3>2. "rollbackServices" \in job'.failed
      BY <1>0, <2>1, <2>4, FaultyType
    <3>3. QED
      BY <2>1, <2>2, <3>1, <3>2
  <2>5. QED
    BY <1>15, <2>3, <2>4 DEF RollbackServices
<1>16. CASE RollbackFiles
  BY <1>0, <1>16, FaultyType
  DEF RollbackFiles, LastFault, OwnEnv, disk, system, memory, counters, GoTo, End, Idle
<1>17. CASE ManageServices
  BY <1>0, <1>17, FaultyType
  DEF ManageServices, LastFault, Launch, Launched, Stop, disk, system, memory, counters, GoTo, End, Idle
<1>18. CASE Backup
  BY <1>0, <1>18, FaultyType
  DEF Backup, disk, system, memory, counters, GoTo, End, Idle
<1>19. ASSUME NEW R \in SUBSET Targets, StartUninstall(R) PROVE UnitsAccounted'
  BY <1>0, <1>19, FaultyType
  DEF StartUninstall, Begin, disk, system, memory, counters, GoTo, End, Idle
<1>20. CASE RemoveServices
  BY <1>0, <1>20, FaultyType
  DEF RemoveServices, TakeDown, TakeDownInPart, Stop, disk, system, memory, counters, GoTo, End, Idle
<1>21. CASE RemoveDatabase
  BY <1>0, <1>21, FaultyType
  DEF RemoveDatabase, disk, system, memory, counters, GoTo, End, Idle
<1>21b. CASE RemoveBackups
  BY <1>0, <1>21b, FaultyType
  DEF RemoveBackups, disk, system, memory, counters, GoTo, End, Idle
<1>22. CASE RemoveConfig
  BY <1>0, <1>22, FaultyType
  DEF RemoveConfig, disk, system, memory, counters, GoTo, End, Idle
<1>23. CASE RemoveApplication
  BY <1>0, <1>23, FaultyType
  DEF RemoveApplication, disk, system, memory, counters, GoTo, End, Idle
<1>24. ASSUME NEW b \in backups, StartRestore(b) PROVE UnitsAccounted'
  BY <1>0, <1>24, FaultyType
  DEF StartRestore, Begin, disk, system, memory, counters, GoTo, End, Idle
<1>25. CASE RestoreStop
  BY <1>0, <1>25, FaultyType
  DEF RestoreStop, Stop, disk, system, memory, counters, GoTo, End, Idle
<1>26. CASE RestoreSafety
  BY <1>0, <1>26, FaultyType
  DEF RestoreSafety, SafetyCopy, disk, system, memory, counters, GoTo, End, Idle
<1>27. CASE RestoreCopy
  BY <1>0, <1>27, FaultyType
  DEF RestoreCopy, disk, system, memory, counters, GoTo, End, Idle
<1>28. CASE RestoreStart
  BY <1>0, <1>28, FaultyType
  DEF RestoreStart, LastFault, Launch, disk, system, memory, counters, GoTo, End, Idle
<1>29. CASE Crash
  BY <1>0, <1>29, FaultyType
  DEF Crash, disk, system, memory, counters, GoTo, End, Idle
<1>30. CASE Reboot
  BY <1>0, <1>30, FaultyType
  DEF Reboot, StartedAtBoot, disk, system, memory, counters, GoTo, End, Idle
<1>31. CASE UNCHANGED vars
  BY <1>31 DEF vars, UnitOrder, disk, system, memory, counters, GoTo, End, Idle
<1>32. QED
  BY <1>1, <1>2, <1>3, <1>4, <1>5, <1>6, <1>7, <1>8, <1>9, <1>10, <1>11, <1>12, <1>13, <1>14, <1>15, <1>16, <1>17, <1>18, <1>19, <1>20, <1>21, <1>21b, <1>22, <1>23, <1>24, <1>25, <1>26, <1>27, <1>28, <1>29, <1>30, <1>31
  DEF Next, InstallStep, ManagerStep

\* LeftoversExplained, for any versions, ports and number of runs.
THEOREM Leftovers == Spec => []LeftoversExplained
<1>1. Init => UnitsAccounted
  BY DEF Init, UnitsAccounted, InstallPhase, LeftoversExplained
<1>2. TInv /\ UnitsAccounted => LeftoversExplained
  BY DEF UnitsAccounted
<1>3. QED
  BY <1>1, <1>2, TypeInductive, UnitsInductive, PTL DEF Spec

-----------------------------------------------------------------------------
\* What each phase of an installation leaves for the next.  The units of
\* Windows whose old process could not be removed are those of a run with a
\* failed command.
Trusted == platform = "linux" \/ job.failed = {}

\* What the run has put in appDir.
Served == IF job.built THEN job.payload ELSE OldBuild

Deployed ==
  /\ phase \in {"preflight", "deploy", "deploying"} => job.built
  /\ phase \in {"environment", "database", "services", "health", "admin", "finalize"}
       => code = Served

Configured ==
  phase \in {"database", "services", "health", "admin", "finalize"} => env # None

MigratedInv ==
  phase \in {"services", "health", "admin", "finalize"} => db.schema >= job.payload

OldStopped ==
  phase = "services" /\ platform = "windows" /\ job.failed = {} =>
    \A i \in DOMAIN UnitOrder : i < next => running[UnitOrder[i]] = None

Started ==
  phase \in {"health", "admin", "finalize"} =>
    /\ Services \subseteq units
    /\ Trusted /\ running["app"] # None
         => running["app"] = Served /\ listening = env.port
    /\ job.failed = {} => running["app"] # None

Answered ==
  phase \in {"admin", "finalize"} /\ Trusted =>
    running["app"] \in Versions /\ env.port = job.port

PhaseInv == Deployed /\ Configured /\ MigratedInv /\ OldStopped /\ Started /\ Answered

SuccessStep ==
  phase' = "rollbackServices" /\ phase # phase' /\ job'.failed = {} =>
    \/ env # None /\ env.port # job.port
    \/ ~job.built /\ job.over \notin Versions
    \/ db = Torn
    \/ platform = "windows" /\ PortsBusy

\* Every service has its place in the order, and only one.
LEMMA UnitOrderServices ==
  /\ \A s \in Services : \E i \in DOMAIN UnitOrder : UnitOrder[i] = s
  /\ platform = "windows" => \A i \in DOMAIN UnitOrder : UnitOrder[i] \in Services
  /\ \A i, j \in DOMAIN UnitOrder : UnitOrder[i] = UnitOrder[j] => i = j
<1>1. CASE platform = "linux"
  BY <1>1 DEF UnitOrder, Services
<1>2. CASE platform # "linux"
  BY <1>2 DEF UnitOrder, Services
<1>3. QED
  BY <1>1, <1>2

\* Every step keeps PhaseInv, and rolls back a run without a fault only for
\* the reasons SuccessStep names.
LEMMA PhaseInductive ==
  ASSUME TInv, PhaseInv, [Next]_vars
  PROVE  PhaseInv' /\ SuccessStep
<1>. USE InstallerAssumption DEF PhaseInv, SuccessStep
<1>0. /\ job \in Job /\ registry \in Registry /\ platform \in {"linux", "windows"}
      /\ running \in [Services -> Versions \cup {None, Mixed}]
      /\ Torn \notin Database /\ None \notin Database
  BY DEF TInv, TypeOK, DiskType, SystemType, MemoryType, Database
<1>1. ASSUME NEW s \in Services, ServiceDies(s) PROVE PhaseInv' /\ SuccessStep
  <2>. USE <1>0, <1>1, FaultyType
  <2>1. Deployed'
    BY DEF Deployed, Served, OldBuild, ServiceDies, Launch, Stop, Launched, disk, system, memory, counters, GoTo, End, Idle
  <2>2. Configured'
    BY DEF Configured, ServiceDies, Launch, Stop, Launched, disk, system, memory, counters, GoTo, End, Idle
  <2>3. MigratedInv'
    BY DEF MigratedInv, ServiceDies, Launch, Stop, Launched, disk, system, memory, counters, GoTo, End, Idle
  <2>4. OldStopped'
    <3>1. UnitOrder' = UnitOrder
      BY DEF ServiceDies, disk, UnitOrder
    <3>2. \A t \in Services : running[t] = None => running'[t] = None
      BY DEF ServiceDies, Launch, Stop
    <3>3. QED
      BY <3>1, <3>2, UnitOrderServices DEF OldStopped, ServiceDies, disk, memory
  <2>5. Started'
    <3>1. CASE phase \notin {"health", "admin", "finalize"}
      BY <3>1 DEF Started, ServiceDies, memory
    <3>2. CASE phase \in {"health", "admin", "finalize"}
      <4>1. s \in units /\ Launched = Served /\ Served # None
        BY <3>2 DEF Started, Deployed, Configured, Launched, TInv, JobFits, InstallPhase, Served, OldBuild
      <4>2. QED
        BY <3>2, <4>1 DEF Started, Served, OldBuild, ServiceDies, Launch, Trusted, disk, memory, Services
    <3>3. QED
      BY <3>1, <3>2
  <2>6. Answered'
    <3>1. CASE phase \notin {"admin", "finalize"}
      BY <3>1 DEF Answered, ServiceDies, memory
    <3>2. CASE phase \in {"admin", "finalize"}
      <4>1. s \in units /\ Launched = Served
        BY <3>2 DEF Started, Deployed, Configured, Launched
      <4>2. Trusted => running["app"] = Served /\ Served \in Versions
        BY <3>2 DEF Answered, Started
      <4>3. QED
        BY <3>2, <4>1, <4>2 DEF Answered, ServiceDies, Launch, Trusted, disk, memory, Services
    <3>3. QED
      BY <3>1, <3>2
  <2>7. SuccessStep
    BY DEF SuccessStep, ServiceDies, Launch, Stop, Launched, disk, system, memory, counters, GoTo, End, Idle
  <2>8. QED
    BY <2>1, <2>2, <2>3, <2>4, <2>5, <2>6, <2>7
<1>2. CASE Edit
  <2>. USE <1>0, <1>2, FaultyType
  <2>1. Deployed'
    BY DEF Deployed, Served, OldBuild, Edit, disk, system, memory, counters, GoTo, End, Idle
  <2>2. Configured'
    BY DEF Configured, Edit, disk, system, memory, counters, GoTo, End, Idle
  <2>3. MigratedInv'
    BY DEF MigratedInv, Edit, disk, system, memory, counters, GoTo, End, Idle
  <2>4. OldStopped'
    BY DEF OldStopped, Edit, disk, system, memory, counters, GoTo, End, Idle, UnitOrder
  <2>5. Started'
    BY DEF Started, Served, OldBuild, Edit, disk, system, memory, counters, GoTo, End, Idle, Trusted
  <2>6. Answered'
    BY DEF Answered, Edit, disk, system, memory, counters, GoTo, End, Idle, Trusted
  <2>7. SuccessStep
    BY DEF SuccessStep, Edit, disk, system, memory, counters, GoTo, End, Idle
  <2>8. QED
    BY <2>1, <2>2, <2>3, <2>4, <2>5, <2>6, <2>7
<1>3. ASSUME NEW v \in Versions, NEW p \in Ports, StartInstall(v, p) PROVE PhaseInv' /\ SuccessStep
  <2>. USE <1>0, <1>3, FaultyType
  <2>1. Deployed'
    <3>1. phase' = "preflight" /\ job'.built = NoJob.built
      BY DEF StartInstall, Begin, NoJob
    <3>2. QED
      BY <3>1 DEF Deployed, NoJob
  <2>2. Configured'
    BY DEF Configured, StartInstall, Begin, disk, system, memory, counters, GoTo, End, Idle
  <2>3. MigratedInv'
    BY DEF MigratedInv, StartInstall, Begin, disk, system, memory, counters, GoTo, End, Idle
  <2>4. OldStopped'
    BY DEF OldStopped, StartInstall, Begin, disk, system, memory, counters, GoTo, End, Idle, UnitOrder
  <2>5. Started'
    BY DEF Started, Served, OldBuild, StartInstall, Begin, disk, system, memory, counters, GoTo, End, Idle, Trusted
  <2>6. Answered'
    BY DEF Answered, StartInstall, Begin, disk, system, memory, counters, GoTo, End, Idle, Trusted
  <2>7. SuccessStep
    BY DEF SuccessStep, StartInstall, Begin, disk, system, memory, counters, GoTo, End, Idle
  <2>8. QED
    BY <2>1, <2>2, <2>3, <2>4, <2>5, <2>6, <2>7
<1>4. CASE Preflight
  <2>. USE <1>0, <1>4, FaultyType
  <2>1. Deployed'
    BY DEF Deployed, Served, OldBuild, Preflight, disk, system, memory, counters, GoTo, End, Idle
  <2>2. Configured'
    BY DEF Configured, Preflight, disk, system, memory, counters, GoTo, End, Idle
  <2>3. MigratedInv'
    BY DEF MigratedInv, Preflight, disk, system, memory, counters, GoTo, End, Idle
  <2>4. OldStopped'
    BY DEF OldStopped, Preflight, disk, system, memory, counters, GoTo, End, Idle, UnitOrder
  <2>5. Started'
    BY DEF Started, Served, OldBuild, Preflight, disk, system, memory, counters, GoTo, End, Idle, Trusted
  <2>6. Answered'
    BY DEF Answered, Preflight, disk, system, memory, counters, GoTo, End, Idle, Trusted
  <2>7. SuccessStep
    BY DEF SuccessStep, Preflight, PortsBusy, OwnServicesActive, Alive, Services, GoTo
  <2>8. QED
    BY <2>1, <2>2, <2>3, <2>4, <2>5, <2>6, <2>7
<1>5. CASE Deploy
  <2>. USE <1>0, <1>5, FaultyType
  <2>1. Deployed'
    BY DEF Deployed, Served, OldBuild, Deploy, disk, system, memory, counters, GoTo, End, Idle
  <2>2. Configured'
    BY DEF Configured, Deploy, disk, system, memory, counters, GoTo, End, Idle
  <2>3. MigratedInv'
    BY DEF MigratedInv, Deploy, disk, system, memory, counters, GoTo, End, Idle
  <2>4. OldStopped'
    BY DEF OldStopped, Deploy, disk, system, memory, counters, GoTo, End, Idle, UnitOrder
  <2>5. Started'
    BY DEF Started, Served, OldBuild, Deploy, disk, system, memory, counters, GoTo, End, Idle, Trusted
  <2>6. Answered'
    BY DEF Answered, Deploy, disk, system, memory, counters, GoTo, End, Idle, Trusted
  <2>7. SuccessStep
    BY DEF SuccessStep, Deploy, disk, system, memory, counters, GoTo, End, Idle
  <2>8. QED
    BY <2>1, <2>2, <2>3, <2>4, <2>5, <2>6, <2>7
<1>6. CASE DeployEnds
  <2>. USE <1>0, <1>6, FaultyType
  <2>0. Deployed'
    <3>1. CASE phase' = "rollbackServices"
      BY <3>1 DEF Deployed
    <3>2. CASE phase' = "environment" /\ NoFault
      <4>1. code' = job.payload /\ job.built
        BY <3>2 DEF Deployed, DeployEnds, NoFault, GoTo, Job
      <4>2. QED
        BY <3>2, <4>1 DEF Deployed, NoFault, Served
    <3>3. CASE phase' = "environment" /\ job' = [job EXCEPT !.built = FALSE]
      BY <3>3 DEF Deployed, DeployEnds, NoFault, Served, OldBuild, GoTo, Job
    <3>4. QED
      BY <3>1, <3>2, <3>3 DEF DeployEnds, GoTo
  <2>1. phase' \in {"environment", "rollbackServices"} /\ phase = "deploying"
    BY DEF DeployEnds, GoTo
  <2>2. phase' = "rollbackServices" => Fault
    BY DEF DeployEnds, GoTo
  <2>3. Configured' /\ MigratedInv' /\ OldStopped' /\ Started' /\ Answered'
    BY <2>1 DEF Configured, MigratedInv, OldStopped, Started, Answered
  <2>4. QED
    BY <2>0, <2>2, <2>3
<1>7. CASE Environment
  <2>. USE <1>0, <1>7, FaultyType
  <2>1. Deployed'
    BY DEF Deployed, Served, OldBuild, Environment, disk, system, memory, counters, GoTo, End, Idle
  <2>2. Configured'
    <3>1. CASE env # None
      BY <3>1 DEF Configured, Environment, GoTo
    <3>2. CASE env = None /\ phase' = "database"
      <4>1. jobs \in Nat /\ job.port \in Ports
        BY DEF Environment, TInv, TypeOK, CounterType, JobFits, InstallPhase
      <4>2. env' \in [secret : Nat, port : Ports]
        BY <3>2, <4>1 DEF Environment, GoTo
      <4>3. QED
        BY <4>2 DEF Configured
    <3>3. phase' \in {"database", "rollbackServices"}
      BY DEF Environment, GoTo
    <3>4. QED
      BY <3>1, <3>2, <3>3 DEF Configured
  <2>3. MigratedInv'
    BY DEF MigratedInv, Environment, disk, system, memory, counters, GoTo, End, Idle
  <2>4. OldStopped'
    BY DEF OldStopped, Environment, disk, system, memory, counters, GoTo, End, Idle, UnitOrder
  <2>5. Started'
    BY DEF Started, Served, OldBuild, Environment, disk, system, memory, counters, GoTo, End, Idle, Trusted
  <2>6. Answered'
    BY DEF Answered, Environment, disk, system, memory, counters, GoTo, End, Idle, Trusted
  <2>7. SuccessStep
    BY DEF SuccessStep, Environment, disk, system, memory, counters, GoTo, End, Idle
  <2>8. QED
    BY <2>1, <2>2, <2>3, <2>4, <2>5, <2>6, <2>7
<1>8. CASE InitDatabase
  <2>. USE <1>0, <1>8, FaultyType
  <2>1. Deployed'
    BY DEF Deployed, Served, OldBuild, InitDatabase, disk, system, memory, counters, GoTo, End, Idle
  <2>2. Configured'
    BY DEF Configured, InitDatabase, disk, system, memory, counters, GoTo, End, Idle
  <2>3. MigratedInv'
    <3>1. db # Torn => Migrated(db, job.payload).schema >= job.payload
      BY MigratedType DEF InitDatabase, TInv, TypeOK, DiskType, JobFits, InstallPhase
    <3>2. QED
      BY <3>1 DEF MigratedInv, InitDatabase, disk, system, memory, counters, GoTo, End, Idle
  <2>4. OldStopped'
    <3>1. next' = 0 /\ UnitOrder' = UnitOrder
      BY DEF InitDatabase, GoTo, TInv, UnitsInstalled, UnitOrder
    <3>2. \A i \in DOMAIN UnitOrder : ~(i < 0)
      BY UnitOrderType
    <3>3. QED
      BY <3>1, <3>2 DEF OldStopped
  <2>5. Started'
    BY DEF Started, Served, OldBuild, InitDatabase, disk, system, memory, counters, GoTo, End, Idle, Trusted
  <2>6. Answered'
    BY DEF Answered, InitDatabase, disk, system, memory, counters, GoTo, End, Idle, Trusted
  <2>7. SuccessStep
    BY DEF SuccessStep, InitDatabase, disk, system, memory, counters, GoTo, End, Idle
  <2>8. QED
    BY <2>1, <2>2, <2>3, <2>4, <2>5, <2>6, <2>7
<1>9. CASE ServicesBegin
  <2>. USE <1>0, <1>9, FaultyType
  <2>1. Deployed'
    BY DEF Deployed, Served, OldBuild, ServicesBegin, disk, system, memory, counters, GoTo, End, Idle
  <2>2. Configured'
    BY DEF Configured, ServicesBegin, disk, system, memory, counters, GoTo, End, Idle
  <2>3. MigratedInv'
    BY DEF MigratedInv, ServicesBegin, disk, system, memory, counters, GoTo, End, Idle
  <2>4. OldStopped'
    BY DEF OldStopped, ServicesBegin, disk, system, memory, counters, GoTo, End, Idle, UnitOrder
  <2>5. Started'
    BY DEF Started, Served, OldBuild, ServicesBegin, disk, system, memory, counters, GoTo, End, Idle, Trusted
  <2>6. Answered'
    BY DEF Answered, ServicesBegin, disk, system, memory, counters, GoTo, End, Idle, Trusted
  <2>7. SuccessStep
    BY DEF SuccessStep, ServicesBegin, disk, system, memory, counters, GoTo, End, Idle
  <2>8. QED
    BY <2>1, <2>2, <2>3, <2>4, <2>5, <2>6, <2>7
<1>10. CASE InstallUnit
  <2>. USE <1>0, <1>10, FaultyType
  <2>1. Deployed'
    BY DEF Deployed, Served, OldBuild, InstallUnit, InstallUnitLinux, InstallUnitWindows, Registered, Stop, disk, system, memory, counters, GoTo, End, Idle
  <2>2. Configured'
    BY DEF Configured, InstallUnit, InstallUnitLinux, InstallUnitWindows, Registered, Stop, disk, system, memory, counters, GoTo, End, Idle
  <2>3. MigratedInv'
    BY DEF MigratedInv, InstallUnit, InstallUnitLinux, InstallUnitWindows, Registered, Stop, disk, system, memory, counters, GoTo, End, Idle
  <2>4. OldStopped'
    <3>1. platform' = platform /\ UnitOrder' = UnitOrder
      BY DEF InstallUnit, disk, UnitOrder
    <3>2. ASSUME phase' = "services", platform = "windows", job'.failed = {}
          PROVE  Stop({UnitOrder[next]}) /\ next' = next + 1 /\ job.failed = {}
      BY <3>2 DEF InstallUnit, InstallUnitWindows
    <3>3. \A i \in DOMAIN UnitOrder : i < next + 1 => i < next \/ i = next
      BY UnitOrderType DEF TInv, TypeOK, MemoryType
    <3>4. platform = "windows" => \A i \in DOMAIN UnitOrder : UnitOrder[i] \in Services
      BY UnitOrderServices
    <3>5. QED
      BY <3>1, <3>2, <3>3, <3>4 DEF OldStopped, InstallUnit, Stop
  <2>5. Started'
    BY DEF Started, Served, OldBuild, InstallUnit, InstallUnitLinux, InstallUnitWindows, Registered, Stop, disk, system, memory, counters, GoTo, End, Idle, Trusted
  <2>6. Answered'
    BY DEF Answered, InstallUnit, InstallUnitLinux, InstallUnitWindows, Registered, Stop, disk, system, memory, counters, GoTo, End, Idle, Trusted
  <2>7. SuccessStep
    BY DEF SuccessStep, InstallUnit, InstallUnitLinux, InstallUnitWindows, Registered, Stop, disk, system, memory, counters, GoTo, End, Idle
  <2>8. QED
    BY <2>1, <2>2, <2>3, <2>4, <2>5, <2>6, <2>7
<1>11. CASE StartServices
  <2>. USE <1>0, <1>11, FaultyType
  <2>1. Deployed'
    BY DEF Deployed, Served, OldBuild, StartServices, StartServicesLinux, StartServicesWindows, Launch, Launched, disk, system, memory, counters, GoTo, End, Idle
  <2>2. Configured'
    BY DEF Configured, StartServices, StartServicesLinux, StartServicesWindows, Launch, Launched, disk, system, memory, counters, GoTo, End, Idle
  <2>3. MigratedInv'
    BY DEF MigratedInv, StartServices, StartServicesLinux, StartServicesWindows, Launch, Launched, disk, system, memory, counters, GoTo, End, Idle
  <2>4. OldStopped'
    BY DEF OldStopped, StartServices, StartServicesLinux, StartServicesWindows, Launch, Launched, disk, system, memory, counters, GoTo, End, Idle, UnitOrder
  <2>5. Started'
    <3>1. Launched = Served /\ Served # None /\ env # None
      BY DEF StartServices, Deployed, Configured, Launched, TInv, JobFits, InstallPhase, Served, OldBuild
    <3>2. \A s \in Services : \E i \in DOMAIN UnitOrder : UnitOrder[i] = s /\ i < next
      <4>1. next > Len(UnitOrder) /\ next \in Nat
        BY DEF StartServices, TInv, TypeOK, MemoryType
      <4>2. \A i \in DOMAIN UnitOrder : i < next
        BY <4>1, UnitOrderType
      <4>3. QED
        BY <4>2, UnitOrderServices
    <3>3. Services \subseteq units
      BY <3>2 DEF StartServices, TInv, UnitsInstalled
    <3>4. CASE platform = "linux"
      BY <3>1, <3>3, <3>4
      DEF Started, Served, OldBuild, StartServices, StartServicesLinux, Launch, Trusted, Services, disk, system, memory, counters, GoTo, End, Idle
    <3>5. CASE platform = "windows"
      <4>1. ASSUME job'.failed = {} PROVE NoFault /\ job.failed = {}
        BY <3>5, <4>1 DEF StartServices, StartServicesWindows
      <4>2. ASSUME job'.failed = {} PROVE Launch(Services)
        <5>1. {t \in Services : running[t] = None} = Services
          BY <3>2, <3>5, <4>1, <4>2 DEF OldStopped, StartServices
        <5>2. QED
          BY <4>1, <4>2, <5>1, <3>5 DEF StartServices, StartServicesWindows
      <4>3. platform' = platform /\ units' = units /\ env' = env
        BY DEF StartServices, disk
      <4>4. NoFault \/ Fault
        BY <3>5 DEF StartServices, StartServicesWindows
      <4>5. Served' = Served
        BY <4>4 DEF Served, OldBuild
      <4>6. QED
        BY <3>1, <3>3, <3>5, <4>2, <4>3, <4>5 DEF Started, Served, OldBuild, Trusted, Launch, Services
    <3>6. QED
      BY <3>4, <3>5
  <2>6. Answered'
    BY DEF Answered, StartServices, StartServicesLinux, StartServicesWindows, Launch, Launched, disk, system, memory, counters, GoTo, End, Idle, Trusted
  <2>7. SuccessStep
    BY DEF SuccessStep, StartServices, StartServicesLinux, StartServicesWindows, Launch, Launched, disk, system, memory, counters, GoTo, End, Idle
  <2>8. QED
    BY <2>1, <2>2, <2>3, <2>4, <2>5, <2>6, <2>7
<1>12. CASE Health
  <2>. USE <1>0, <1>12, FaultyType
  <2>1. Deployed'
    BY DEF Deployed, Served, OldBuild, Health, disk, system, memory, counters, GoTo, End, Idle
  <2>2. Configured'
    BY DEF Configured, Health, disk, system, memory, counters, GoTo, End, Idle
  <2>3. MigratedInv'
    BY DEF MigratedInv, Health, disk, system, memory, counters, GoTo, End, Idle
  <2>4. OldStopped'
    BY DEF OldStopped, Health, disk, system, memory, counters, GoTo, End, Idle, UnitOrder
  <2>5. Started'
    BY DEF Started, Served, OldBuild, Health, disk, system, memory, counters, GoTo, End, Idle, Trusted
  <2>6. Answered'
    <3>1. CASE phase' # "admin"
      BY <3>1 DEF Answered, Health, GoTo
    <3>2. CASE phase' = "admin"
      BY <3>2 DEF Answered, Started, Health, Healthy, Alive, GoTo, NoFault, Trusted, disk, system
    <3>3. QED
      BY <3>1, <3>2
  <2>7. SuccessStep
    <3>1. ASSUME phase' = "rollbackServices", job'.failed = {} PROVE ~Healthy /\ job.failed = {}
      BY <3>1 DEF Health, GoTo
    <3>2. ASSUME job.failed = {}, env.port = job.port, job.built \/ job.over \in Versions
          PROVE  Healthy
      <4>1. Served \in Versions
        BY <3>2 DEF Health, Served, OldBuild, TInv, JobFits, InstallPhase
      <4>2. QED
        BY <3>2, <4>1 DEF Health, Healthy, Alive, Started, Trusted, TInv, JobFits
    <3>3. env # None
      BY DEF Health, Configured
    <3>4. QED
      BY <3>1, <3>2, <3>3 DEF SuccessStep
  <2>8. QED
    BY <2>1, <2>2, <2>3, <2>4, <2>5, <2>6, <2>7
<1>13. CASE CreateAdmin
  <2>. USE <1>0, <1>13, FaultyType
  <2>1. Deployed'
    BY DEF Deployed, Served, OldBuild, CreateAdmin, disk, system, memory, counters, GoTo, End, Idle
  <2>2. Configured'
    BY DEF Configured, CreateAdmin, disk, system, memory, counters, GoTo, End, Idle
  <2>3. MigratedInv'
    BY DEF MigratedInv, CreateAdmin, disk, system, memory, counters, GoTo, End, Idle
  <2>4. OldStopped'
    BY DEF OldStopped, CreateAdmin, disk, system, memory, counters, GoTo, End, Idle, UnitOrder
  <2>5. Started'
    BY DEF Started, Served, OldBuild, CreateAdmin, disk, system, memory, counters, GoTo, End, Idle, Trusted
  <2>6. Answered'
    BY DEF Answered, CreateAdmin, disk, system, memory, counters, GoTo, End, Idle, Trusted
  <2>7. SuccessStep
    BY DEF SuccessStep, CreateAdmin, disk, system, memory, counters, GoTo, End, Idle
  <2>8. QED
    BY <2>1, <2>2, <2>3, <2>4, <2>5, <2>6, <2>7
<1>14. CASE Finalize
  <2>. USE <1>0, <1>14, FaultyType
  <2>1. Deployed'
    BY DEF Deployed, Served, OldBuild, Finalize, disk, system, memory, counters, GoTo, End, Idle
  <2>2. Configured'
    BY DEF Configured, Finalize, disk, system, memory, counters, GoTo, End, Idle
  <2>3. MigratedInv'
    BY DEF MigratedInv, Finalize, disk, system, memory, counters, GoTo, End, Idle
  <2>4. OldStopped'
    BY DEF OldStopped, Finalize, disk, system, memory, counters, GoTo, End, Idle, UnitOrder
  <2>5. Started'
    BY DEF Started, Served, OldBuild, Finalize, disk, system, memory, counters, GoTo, End, Idle, Trusted
  <2>6. Answered'
    BY DEF Answered, Finalize, disk, system, memory, counters, GoTo, End, Idle, Trusted
  <2>7. SuccessStep
    BY DEF SuccessStep, Finalize, disk, system, memory, counters, GoTo, End, Idle
  <2>8. QED
    BY <2>1, <2>2, <2>3, <2>4, <2>5, <2>6, <2>7
<1>15. CASE RollbackServices
  <2>. USE <1>0, <1>15, FaultyType
  <2>1. Deployed'
    BY DEF Deployed, Served, OldBuild, RollbackServices, TakeDown, TakeDownInPart, Stop, disk, system, memory, counters, GoTo, End, Idle
  <2>2. Configured'
    BY DEF Configured, RollbackServices, TakeDown, TakeDownInPart, Stop, disk, system, memory, counters, GoTo, End, Idle
  <2>3. MigratedInv'
    BY DEF MigratedInv, RollbackServices, TakeDown, TakeDownInPart, Stop, disk, system, memory, counters, GoTo, End, Idle
  <2>4. OldStopped'
    BY DEF OldStopped, RollbackServices, TakeDown, TakeDownInPart, Stop, disk, system, memory, counters, GoTo, End, Idle, UnitOrder
  <2>5. Started'
    BY DEF Started, Served, OldBuild, RollbackServices, TakeDown, TakeDownInPart, Stop, disk, system, memory, counters, GoTo, End, Idle, Trusted
  <2>6. Answered'
    BY DEF Answered, RollbackServices, TakeDown, TakeDownInPart, Stop, disk, system, memory, counters, GoTo, End, Idle, Trusted
  <2>7. SuccessStep
    BY DEF SuccessStep, RollbackServices, TakeDown, TakeDownInPart, Stop, disk, system, memory, counters, GoTo, End, Idle
  <2>8. QED
    BY <2>1, <2>2, <2>3, <2>4, <2>5, <2>6, <2>7
<1>16. CASE RollbackFiles
  <2>. USE <1>0, <1>16, FaultyType
  <2>1. Deployed'
    BY DEF Deployed, Served, OldBuild, RollbackFiles, LastFault, OwnEnv, disk, system, memory, counters, GoTo, End, Idle
  <2>2. Configured'
    BY DEF Configured, RollbackFiles, LastFault, OwnEnv, disk, system, memory, counters, GoTo, End, Idle
  <2>3. MigratedInv'
    BY DEF MigratedInv, RollbackFiles, LastFault, OwnEnv, disk, system, memory, counters, GoTo, End, Idle
  <2>4. OldStopped'
    BY DEF OldStopped, RollbackFiles, LastFault, OwnEnv, disk, system, memory, counters, GoTo, End, Idle, UnitOrder
  <2>5. Started'
    BY DEF Started, Served, OldBuild, RollbackFiles, LastFault, OwnEnv, disk, system, memory, counters, GoTo, End, Idle, Trusted
  <2>6. Answered'
    BY DEF Answered, RollbackFiles, LastFault, OwnEnv, disk, system, memory, counters, GoTo, End, Idle, Trusted
  <2>7. SuccessStep
    BY DEF SuccessStep, RollbackFiles, LastFault, OwnEnv, disk, system, memory, counters, GoTo, End, Idle
  <2>8. QED
    BY <2>1, <2>2, <2>3, <2>4, <2>5, <2>6, <2>7
<1>17. CASE ManageServices
  <2>. USE <1>0, <1>17, FaultyType
  <2>1. Deployed'
    BY DEF Deployed, Served, OldBuild, ManageServices, LastFault, Launch, Launched, Stop, disk, system, memory, counters, GoTo, End, Idle
  <2>2. Configured'
    BY DEF Configured, ManageServices, LastFault, Launch, Launched, Stop, disk, system, memory, counters, GoTo, End, Idle
  <2>3. MigratedInv'
    BY DEF MigratedInv, ManageServices, LastFault, Launch, Launched, Stop, disk, system, memory, counters, GoTo, End, Idle
  <2>4. OldStopped'
    BY DEF OldStopped, ManageServices, LastFault, Launch, Launched, Stop, disk, system, memory, counters, GoTo, End, Idle, UnitOrder
  <2>5. Started'
    BY DEF Started, Served, OldBuild, ManageServices, LastFault, Launch, Launched, Stop, disk, system, memory, counters, GoTo, End, Idle, Trusted
  <2>6. Answered'
    BY DEF Answered, ManageServices, LastFault, Launch, Launched, Stop, disk, system, memory, counters, GoTo, End, Idle, Trusted
  <2>7. SuccessStep
    BY DEF SuccessStep, ManageServices, LastFault, Launch, Launched, Stop, disk, system, memory, counters, GoTo, End, Idle
  <2>8. QED
    BY <2>1, <2>2, <2>3, <2>4, <2>5, <2>6, <2>7
<1>18. CASE Backup
  <2>. USE <1>0, <1>18, FaultyType
  <2>1. Deployed'
    BY DEF Deployed, Served, OldBuild, Backup, disk, system, memory, counters, GoTo, End, Idle
  <2>2. Configured'
    BY DEF Configured, Backup, disk, system, memory, counters, GoTo, End, Idle
  <2>3. MigratedInv'
    BY DEF MigratedInv, Backup, disk, system, memory, counters, GoTo, End, Idle
  <2>4. OldStopped'
    BY DEF OldStopped, Backup, disk, system, memory, counters, GoTo, End, Idle, UnitOrder
  <2>5. Started'
    BY DEF Started, Served, OldBuild, Backup, disk, system, memory, counters, GoTo, End, Idle, Trusted
  <2>6. Answered'
    BY DEF Answered, Backup, disk, system, memory, counters, GoTo, End, Idle, Trusted
  <2>7. SuccessStep
    BY DEF SuccessStep, Backup, disk, system, memory, counters, GoTo, End, Idle
  <2>8. QED
    BY <2>1, <2>2, <2>3, <2>4, <2>5, <2>6, <2>7
<1>19. ASSUME NEW R \in SUBSET Targets, StartUninstall(R) PROVE PhaseInv' /\ SuccessStep
  <2>. USE <1>0, <1>19, FaultyType
  <2>1. Deployed'
    BY DEF Deployed, Served, OldBuild, StartUninstall, Begin, disk, system, memory, counters, GoTo, End, Idle
  <2>2. Configured'
    BY DEF Configured, StartUninstall, Begin, disk, system, memory, counters, GoTo, End, Idle
  <2>3. MigratedInv'
    BY DEF MigratedInv, StartUninstall, Begin, disk, system, memory, counters, GoTo, End, Idle
  <2>4. OldStopped'
    BY DEF OldStopped, StartUninstall, Begin, disk, system, memory, counters, GoTo, End, Idle, UnitOrder
  <2>5. Started'
    BY DEF Started, Served, OldBuild, StartUninstall, Begin, disk, system, memory, counters, GoTo, End, Idle, Trusted
  <2>6. Answered'
    BY DEF Answered, StartUninstall, Begin, disk, system, memory, counters, GoTo, End, Idle, Trusted
  <2>7. SuccessStep
    BY DEF SuccessStep, StartUninstall, Begin, disk, system, memory, counters, GoTo, End, Idle
  <2>8. QED
    BY <2>1, <2>2, <2>3, <2>4, <2>5, <2>6, <2>7
<1>20. CASE RemoveServices
  <2>. USE <1>0, <1>20, FaultyType
  <2>1. Deployed'
    BY DEF Deployed, Served, OldBuild, RemoveServices, TakeDown, TakeDownInPart, Stop, disk, system, memory, counters, GoTo, End, Idle
  <2>2. Configured'
    BY DEF Configured, RemoveServices, TakeDown, TakeDownInPart, Stop, disk, system, memory, counters, GoTo, End, Idle
  <2>3. MigratedInv'
    BY DEF MigratedInv, RemoveServices, TakeDown, TakeDownInPart, Stop, disk, system, memory, counters, GoTo, End, Idle
  <2>4. OldStopped'
    BY DEF OldStopped, RemoveServices, TakeDown, TakeDownInPart, Stop, disk, system, memory, counters, GoTo, End, Idle, UnitOrder
  <2>5. Started'
    BY DEF Started, Served, OldBuild, RemoveServices, TakeDown, TakeDownInPart, Stop, disk, system, memory, counters, GoTo, End, Idle, Trusted
  <2>6. Answered'
    BY DEF Answered, RemoveServices, TakeDown, TakeDownInPart, Stop, disk, system, memory, counters, GoTo, End, Idle, Trusted
  <2>7. SuccessStep
    BY DEF SuccessStep, RemoveServices, TakeDown, TakeDownInPart, Stop, disk, system, memory, counters, GoTo, End, Idle
  <2>8. QED
    BY <2>1, <2>2, <2>3, <2>4, <2>5, <2>6, <2>7
<1>21. CASE RemoveDatabase
  <2>. USE <1>0, <1>21, FaultyType
  <2>1. Deployed'
    BY DEF Deployed, Served, OldBuild, RemoveDatabase, disk, system, memory, counters, GoTo, End, Idle
  <2>2. Configured'
    BY DEF Configured, RemoveDatabase, disk, system, memory, counters, GoTo, End, Idle
  <2>3. MigratedInv'
    BY DEF MigratedInv, RemoveDatabase, disk, system, memory, counters, GoTo, End, Idle
  <2>4. OldStopped'
    BY DEF OldStopped, RemoveDatabase, disk, system, memory, counters, GoTo, End, Idle, UnitOrder
  <2>5. Started'
    BY DEF Started, Served, OldBuild, RemoveDatabase, disk, system, memory, counters, GoTo, End, Idle, Trusted
  <2>6. Answered'
    BY DEF Answered, RemoveDatabase, disk, system, memory, counters, GoTo, End, Idle, Trusted
  <2>7. SuccessStep
    BY DEF SuccessStep, RemoveDatabase, disk, system, memory, counters, GoTo, End, Idle
  <2>8. QED
    BY <2>1, <2>2, <2>3, <2>4, <2>5, <2>6, <2>7
<1>21b. CASE RemoveBackups
  <2>. USE <1>0, <1>21b, FaultyType
  <2>1. Deployed'
    BY DEF Deployed, Served, OldBuild, RemoveBackups, disk, system, memory, counters, GoTo, End, Idle
  <2>2. Configured'
    BY DEF Configured, RemoveBackups, disk, system, memory, counters, GoTo, End, Idle
  <2>3. MigratedInv'
    BY DEF MigratedInv, RemoveBackups, disk, system, memory, counters, GoTo, End, Idle
  <2>4. OldStopped'
    BY DEF OldStopped, RemoveBackups, disk, system, memory, counters, GoTo, End, Idle, UnitOrder
  <2>5. Started'
    BY DEF Started, Served, OldBuild, RemoveBackups, disk, system, memory, counters, GoTo, End, Idle, Trusted
  <2>6. Answered'
    BY DEF Answered, RemoveBackups, disk, system, memory, counters, GoTo, End, Idle, Trusted
  <2>7. SuccessStep
    BY DEF SuccessStep, RemoveBackups, disk, system, memory, counters, GoTo, End, Idle
  <2>8. QED
    BY <2>1, <2>2, <2>3, <2>4, <2>5, <2>6, <2>7
<1>22. CASE RemoveConfig
  <2>. USE <1>0, <1>22, FaultyType
  <2>1. Deployed'
    BY DEF Deployed, Served, OldBuild, RemoveConfig, disk, system, memory, counters, GoTo, End, Idle
  <2>2. Configured'
    BY DEF Configured, RemoveConfig, disk, system, memory, counters, GoTo, End, Idle
  <2>3. MigratedInv'
    BY DEF MigratedInv, RemoveConfig, disk, system, memory, counters, GoTo, End, Idle
  <2>4. OldStopped'
    BY DEF OldStopped, RemoveConfig, disk, system, memory, counters, GoTo, End, Idle, UnitOrder
  <2>5. Started'
    BY DEF Started, Served, OldBuild, RemoveConfig, disk, system, memory, counters, GoTo, End, Idle, Trusted
  <2>6. Answered'
    BY DEF Answered, RemoveConfig, disk, system, memory, counters, GoTo, End, Idle, Trusted
  <2>7. SuccessStep
    BY DEF SuccessStep, RemoveConfig, disk, system, memory, counters, GoTo, End, Idle
  <2>8. QED
    BY <2>1, <2>2, <2>3, <2>4, <2>5, <2>6, <2>7
<1>23. CASE RemoveApplication
  <2>. USE <1>0, <1>23, FaultyType
  <2>1. Deployed'
    BY DEF Deployed, Served, OldBuild, RemoveApplication, disk, system, memory, counters, GoTo, End, Idle
  <2>2. Configured'
    BY DEF Configured, RemoveApplication, disk, system, memory, counters, GoTo, End, Idle
  <2>3. MigratedInv'
    BY DEF MigratedInv, RemoveApplication, disk, system, memory, counters, GoTo, End, Idle
  <2>4. OldStopped'
    BY DEF OldStopped, RemoveApplication, disk, system, memory, counters, GoTo, End, Idle, UnitOrder
  <2>5. Started'
    BY DEF Started, Served, OldBuild, RemoveApplication, disk, system, memory, counters, GoTo, End, Idle, Trusted
  <2>6. Answered'
    BY DEF Answered, RemoveApplication, disk, system, memory, counters, GoTo, End, Idle, Trusted
  <2>7. SuccessStep
    BY DEF SuccessStep, RemoveApplication, disk, system, memory, counters, GoTo, End, Idle
  <2>8. QED
    BY <2>1, <2>2, <2>3, <2>4, <2>5, <2>6, <2>7
<1>24. ASSUME NEW b \in backups, StartRestore(b) PROVE PhaseInv' /\ SuccessStep
  <2>. USE <1>0, <1>24, FaultyType
  <2>1. Deployed'
    BY DEF Deployed, Served, OldBuild, StartRestore, Begin, disk, system, memory, counters, GoTo, End, Idle
  <2>2. Configured'
    BY DEF Configured, StartRestore, Begin, disk, system, memory, counters, GoTo, End, Idle
  <2>3. MigratedInv'
    BY DEF MigratedInv, StartRestore, Begin, disk, system, memory, counters, GoTo, End, Idle
  <2>4. OldStopped'
    BY DEF OldStopped, StartRestore, Begin, disk, system, memory, counters, GoTo, End, Idle, UnitOrder
  <2>5. Started'
    BY DEF Started, Served, OldBuild, StartRestore, Begin, disk, system, memory, counters, GoTo, End, Idle, Trusted
  <2>6. Answered'
    BY DEF Answered, StartRestore, Begin, disk, system, memory, counters, GoTo, End, Idle, Trusted
  <2>7. SuccessStep
    BY DEF SuccessStep, StartRestore, Begin, disk, system, memory, counters, GoTo, End, Idle
  <2>8. QED
    BY <2>1, <2>2, <2>3, <2>4, <2>5, <2>6, <2>7
<1>25. CASE RestoreStop
  <2>. USE <1>0, <1>25, FaultyType
  <2>1. Deployed'
    BY DEF Deployed, Served, OldBuild, RestoreStop, Stop, disk, system, memory, counters, GoTo, End, Idle
  <2>2. Configured'
    BY DEF Configured, RestoreStop, Stop, disk, system, memory, counters, GoTo, End, Idle
  <2>3. MigratedInv'
    BY DEF MigratedInv, RestoreStop, Stop, disk, system, memory, counters, GoTo, End, Idle
  <2>4. OldStopped'
    BY DEF OldStopped, RestoreStop, Stop, disk, system, memory, counters, GoTo, End, Idle, UnitOrder
  <2>5. Started'
    BY DEF Started, Served, OldBuild, RestoreStop, Stop, disk, system, memory, counters, GoTo, End, Idle, Trusted
  <2>6. Answered'
    BY DEF Answered, RestoreStop, Stop, disk, system, memory, counters, GoTo, End, Idle, Trusted
  <2>7. SuccessStep
    BY DEF SuccessStep, RestoreStop, Stop, disk, system, memory, counters, GoTo, End, Idle
  <2>8. QED
    BY <2>1, <2>2, <2>3, <2>4, <2>5, <2>6, <2>7
<1>26. CASE RestoreSafety
  <2>. USE <1>0, <1>26, FaultyType
  <2>1. Deployed'
    BY DEF Deployed, Served, OldBuild, RestoreSafety, SafetyCopy, disk, system, memory, counters, GoTo, End, Idle
  <2>2. Configured'
    BY DEF Configured, RestoreSafety, SafetyCopy, disk, system, memory, counters, GoTo, End, Idle
  <2>3. MigratedInv'
    BY DEF MigratedInv, RestoreSafety, SafetyCopy, disk, system, memory, counters, GoTo, End, Idle
  <2>4. OldStopped'
    BY DEF OldStopped, RestoreSafety, SafetyCopy, disk, system, memory, counters, GoTo, End, Idle, UnitOrder
  <2>5. Started'
    BY DEF Started, Served, OldBuild, RestoreSafety, SafetyCopy, disk, system, memory, counters, GoTo, End, Idle, Trusted
  <2>6. Answered'
    BY DEF Answered, RestoreSafety, SafetyCopy, disk, system, memory, counters, GoTo, End, Idle, Trusted
  <2>7. SuccessStep
    BY DEF SuccessStep, RestoreSafety, SafetyCopy, disk, system, memory, counters, GoTo, End, Idle
  <2>8. QED
    BY <2>1, <2>2, <2>3, <2>4, <2>5, <2>6, <2>7
<1>27. CASE RestoreCopy
  <2>. USE <1>0, <1>27, FaultyType
  <2>1. Deployed'
    BY DEF Deployed, Served, OldBuild, RestoreCopy, disk, system, memory, counters, GoTo, End, Idle
  <2>2. Configured'
    BY DEF Configured, RestoreCopy, disk, system, memory, counters, GoTo, End, Idle
  <2>3. MigratedInv'
    BY DEF MigratedInv, RestoreCopy, disk, system, memory, counters, GoTo, End, Idle
  <2>4. OldStopped'
    BY DEF OldStopped, RestoreCopy, disk, system, memory, counters, GoTo, End, Idle, UnitOrder
  <2>5. Started'
    BY DEF Started, Served, OldBuild, RestoreCopy, disk, system, memory, counters, GoTo, End, Idle, Trusted
  <2>6. Answered'
    BY DEF Answered, RestoreCopy, disk, system, memory, counters, GoTo, End, Idle, Trusted
  <2>7. SuccessStep
    BY DEF SuccessStep, RestoreCopy, disk, system, memory, counters, GoTo, End, Idle
  <2>8. QED
    BY <2>1, <2>2, <2>3, <2>4, <2>5, <2>6, <2>7
<1>28. CASE RestoreStart
  <2>. USE <1>0, <1>28, FaultyType
  <2>1. Deployed'
    BY DEF Deployed, Served, OldBuild, RestoreStart, LastFault, Launch, disk, system, memory, counters, GoTo, End, Idle
  <2>2. Configured'
    BY DEF Configured, RestoreStart, LastFault, Launch, disk, system, memory, counters, GoTo, End, Idle
  <2>3. MigratedInv'
    BY DEF MigratedInv, RestoreStart, LastFault, Launch, disk, system, memory, counters, GoTo, End, Idle
  <2>4. OldStopped'
    BY DEF OldStopped, RestoreStart, LastFault, Launch, disk, system, memory, counters, GoTo, End, Idle, UnitOrder
  <2>5. Started'
    BY DEF Started, Served, OldBuild, RestoreStart, LastFault, Launch, disk, system, memory, counters, GoTo, End, Idle, Trusted
  <2>6. Answered'
    BY DEF Answered, RestoreStart, LastFault, Launch, disk, system, memory, counters, GoTo, End, Idle, Trusted
  <2>7. SuccessStep
    BY DEF SuccessStep, RestoreStart, LastFault, Launch, disk, system, memory, counters, GoTo, End, Idle
  <2>8. QED
    BY <2>1, <2>2, <2>3, <2>4, <2>5, <2>6, <2>7
<1>29. CASE Crash
  <2>. USE <1>0, <1>29, FaultyType
  <2>1. Deployed'
    BY DEF Deployed, Served, OldBuild, Crash, disk, system, memory, counters, GoTo, End, Idle
  <2>2. Configured'
    BY DEF Configured, Crash, disk, system, memory, counters, GoTo, End, Idle
  <2>3. MigratedInv'
    BY DEF MigratedInv, Crash, disk, system, memory, counters, GoTo, End, Idle
  <2>4. OldStopped'
    BY DEF OldStopped, Crash, disk, system, memory, counters, GoTo, End, Idle, UnitOrder
  <2>5. Started'
    BY DEF Started, Served, OldBuild, Crash, disk, system, memory, counters, GoTo, End, Idle, Trusted
  <2>6. Answered'
    BY DEF Answered, Crash, disk, system, memory, counters, GoTo, End, Idle, Trusted
  <2>7. SuccessStep
    BY DEF SuccessStep, Crash, disk, system, memory, counters, GoTo, End, Idle
  <2>8. QED
    BY <2>1, <2>2, <2>3, <2>4, <2>5, <2>6, <2>7
<1>30. CASE Reboot
  <2>. USE <1>0, <1>30, FaultyType
  <2>1. Deployed'
    BY DEF Deployed, Served, OldBuild, Reboot, StartedAtBoot, disk, system, memory, counters, GoTo, End, Idle
  <2>2. Configured'
    BY DEF Configured, Reboot, StartedAtBoot, disk, system, memory, counters, GoTo, End, Idle
  <2>3. MigratedInv'
    BY DEF MigratedInv, Reboot, StartedAtBoot, disk, system, memory, counters, GoTo, End, Idle
  <2>4. OldStopped'
    BY DEF OldStopped, Reboot, StartedAtBoot, disk, system, memory, counters, GoTo, End, Idle, UnitOrder
  <2>5. Started'
    BY DEF Started, Served, OldBuild, Reboot, StartedAtBoot, disk, system, memory, counters, GoTo, End, Idle, Trusted
  <2>6. Answered'
    BY DEF Answered, Reboot, StartedAtBoot, disk, system, memory, counters, GoTo, End, Idle, Trusted
  <2>7. SuccessStep
    BY DEF SuccessStep, Reboot, StartedAtBoot, disk, system, memory, counters, GoTo, End, Idle
  <2>8. QED
    BY <2>1, <2>2, <2>3, <2>4, <2>5, <2>6, <2>7
<1>31. CASE UNCHANGED vars
  BY <1>31 DEF vars, disk, system, memory, counters, GoTo, End, Idle, Trusted, UnitOrder, Deployed, Served, OldBuild, Configured, MigratedInv, OldStopped, Started, Answered
<1>32. QED
  BY <1>1, <1>2, <1>3, <1>4, <1>5, <1>6, <1>7, <1>8, <1>9, <1>10, <1>11, <1>12, <1>13, <1>14, <1>15, <1>16, <1>17, <1>18, <1>19, <1>20, <1>21, <1>21b, <1>22, <1>23, <1>24, <1>25, <1>26, <1>27, <1>28, <1>29, <1>30, <1>31
  DEF Next, InstallStep, ManagerStep

\* SuccessMeansServing, for any versions, ports and number of runs.
THEOREM Serving == Spec => []SuccessMeansServing
<1>1. Init => PhaseInv
  BY DEF Init, PhaseInv, Deployed, Configured, MigratedInv, OldStopped, Started, Answered
<1>2. TInv /\ PhaseInv => SuccessMeansServing
  BY InstallerAssumption
  DEF SuccessMeansServing, TInv, JobFits, PhaseInv, Trusted, Started, Answered, MigratedInv, Served, OldBuild
<1>3. QED
  BY <1>1, <1>2, TypeInductive, PhaseInductive, PTL DEF Spec

\* FaultFreeRunSucceeds, for any versions, ports and number of runs.
THEOREM FaultFree == Spec => FaultFreeRunSucceeds
<1>1. Init => PhaseInv
  BY DEF Init, PhaseInv, Deployed, Configured, MigratedInv, OldStopped, Started, Answered
<1>2. QED
  BY <1>1, TypeInductive, PhaseInductive, PTL DEF Spec, FaultFreeRunSucceeds, SuccessStep

-----------------------------------------------------------------------------
\* How many steps a job has at most before it, in phase p with unit n to come: those
\* of its longest way from here, a rollback included.
StepsFrom(p, n) ==
  CASE p = "preflight" -> 15
    [] p = "deploy" -> 14
    [] p = "deploying" -> 13
    [] p = "environment" -> 12
    [] p = "database" -> 11
    [] p = "services" -> 10 - n
    [] p = "health" -> 4
    [] p = "admin" -> 3
    [] p \in {"removeDatabase", "restoreSafety"} -> 4
    [] p \in {"removeBackups", "restoreCopy"} -> 3
    [] p \in {"rollbackServices", "removeConfig", "restoring"} -> 2
    [] p \in {"finalize", "rollbackFiles", "removeApplication", "restoreStart"} -> 1
    [] p \in {"removeServices", "restoreStop"} -> 5
    [] p = "idle" -> 0

StepsLeft == StepsFrom(phase, next)

\* Every step of the job takes it nearer to its end, and whatever else happens
\* meanwhile (services that die, a user who edits, a crash) takes it no
\* further away: no phase is entered twice, and there is no retry without end.
RunShrinks ==
  [][/\ InstallStep \/ ManagerStep => StepsLeft' < StepsLeft
     /\ phase # "idle" => StepsLeft' <= StepsLeft]_vars

\* The count is a number, and zero at the end only.
LEMMA StepsFromType ==
  ASSUME NEW p \in InstallPhase \cup ManagerPhase \cup {"idle"}, NEW n \in 0..5
  PROVE  /\ StepsFrom(p, n) \in 0..15
         /\ StepsFrom(p, n) = 0 <=> p = "idle"
<1>1. CASE p = "services"
  BY <1>1 DEF StepsFrom
<1>2. CASE p \in {"preflight", "deploy", "deploying", "environment", "database"}
  BY <1>2 DEF StepsFrom
<1>3. CASE p \in {"health", "admin", "finalize", "rollbackServices", "rollbackFiles"}
  BY <1>3 DEF StepsFrom
<1>4. CASE p \in ManagerPhase
  BY <1>4 DEF StepsFrom, ManagerPhase
<1>5. CASE p = "idle"
  BY <1>5 DEF StepsFrom
<1> QED BY <1>1, <1>2, <1>3, <1>4, <1>5 DEF InstallPhase

\* The steps of an installation.
LEMMA InstallShrinks ==
  ASSUME TInv, InstallStep PROVE StepsLeft' < StepsLeft
<1>0. next \in 0..5 /\ DOMAIN UnitOrder \subseteq 1..4 /\ Len(UnitOrder) \in {3, 4}
  BY UnitOrderType DEF TInv, TypeOK, MemoryType
<1>. USE DEF StepsLeft, StepsFrom, GoTo, End, Idle
<1>1. CASE Preflight
  BY <1>1 DEF Preflight
<1>2. CASE Deploy \/ DeployEnds
  BY <1>2 DEF Deploy, DeployEnds
<1>3. CASE Environment
  BY <1>3 DEF Environment
<1>4. CASE InitDatabase
  <2>1. phase = "database" /\ next = 0
    BY <1>4 DEF InitDatabase, TInv, UnitsInstalled
  <2>2. phase' \in {"services", "rollbackServices"} /\ next' = next
    BY <1>4 DEF InitDatabase
  <2> QED BY <2>1, <2>2
<1>5. CASE ServicesBegin
  BY <1>0, <1>5 DEF ServicesBegin
<1>6. CASE InstallUnit
  <2>1. phase = "services" /\ next \in 1..4
    BY <1>0, <1>6 DEF InstallUnit
  <2>2. (phase' = "services" /\ next' = next + 1) \/ phase' = "rollbackServices"
    BY <1>6, <2>1 DEF InstallUnit, InstallUnitLinux, InstallUnitWindows
  <2> QED BY <2>1, <2>2
<1>7. CASE StartServices
  <2>1. phase = "services" /\ next \in 4..5
    BY <1>0, <1>7 DEF StartServices
  <2>2. phase' \in {"health", "rollbackServices"}
    BY <1>7 DEF StartServices, StartServicesLinux, StartServicesWindows
  <2> QED BY <2>1, <2>2
<1>8. CASE Health \/ CreateAdmin \/ Finalize
  BY <1>8 DEF Health, CreateAdmin, Finalize
<1>9. CASE RollbackServices \/ RollbackFiles
  BY <1>9 DEF RollbackServices, RollbackFiles
<1> QED BY <1>1, <1>2, <1>3, <1>4, <1>5, <1>6, <1>7, <1>8, <1>9 DEF InstallStep

\* ... and those of the manager.
LEMMA ManagerShrinks ==
  ASSUME ManagerStep PROVE StepsLeft' < StepsLeft
<1>. USE DEF StepsLeft, StepsFrom, GoTo, End, Idle
<1>1. CASE RemoveServices \/ RemoveDatabase \/ RemoveBackups \/ RemoveConfig
         \/ RemoveApplication
  BY <1>1 DEF RemoveServices, RemoveDatabase, RemoveBackups, RemoveConfig, RemoveApplication
<1>2. CASE RestoreStop \/ RestoreSafety \/ RestoreCopy \/ RestoreStart
  BY <1>2 DEF RestoreStop, RestoreSafety, RestoreCopy, RestoreStart
<1> QED BY <1>1, <1>2 DEF ManagerStep

\* A job of the installer or of the manager takes at most fifteen steps, whatever
\* fails in it (install.ts runInstall, rollback.ts, manager.ts). That each of them is
\* taken is fairness, and RunEnds.
THEOREM RunIsBounded == Spec => RunShrinks
<1>1. ASSUME TInv, [Next]_vars
      PROVE  /\ InstallStep \/ ManagerStep => StepsLeft' < StepsLeft
             /\ phase # "idle" => StepsLeft' <= StepsLeft
  <2>1. InstallStep \/ ManagerStep => StepsLeft' < StepsLeft
    BY <1>1, InstallShrinks, ManagerShrinks
  <2>2. TInv' /\ StepsLeft \in Nat /\ StepsLeft' \in Nat
    <3>1. TInv'
      BY <1>1, TypeInductive
    <3> QED BY <1>1, <3>1, StepsFromType DEF TInv, TypeOK, MemoryType, StepsLeft
  <2>3. ASSUME phase # "idle" PROVE StepsLeft' <= StepsLeft
    <3>1. CASE InstallStep \/ ManagerStep
      BY <2>1, <2>2, <3>1
    <3>2. CASE Crash \/ Reboot
      <4>1. phase' = "idle"
        BY <3>2 DEF Crash, Reboot, Idle
      <4>2. StepsLeft' = 0
        BY <4>1 DEF StepsLeft, StepsFrom
      <4> QED BY <2>2, <4>2
    <3>3. CASE UNCHANGED memory
      <4>1. StepsLeft' = StepsLeft
        BY <3>3 DEF StepsLeft, memory
      <4> QED BY <2>2, <4>1
    <3>4. ~(\E v \in Versions, p \in Ports : StartInstall(v, p))
      BY <2>3 DEF StartInstall, Begin
    <3>5. ~(\E R \in SUBSET Targets : StartUninstall(R))
      BY <2>3 DEF StartUninstall, Begin
    <3>6. ~(\E b \in backups : StartRestore(b))
      BY <2>3 DEF StartRestore, Begin
    <3>7. CASE ManageServices \/ Backup \/ Edit \/ \E s \in Services : ServiceDies(s)
      BY <3>3, <3>7 DEF ManageServices, Backup, Edit, ServiceDies
    <3>8. CASE UNCHANGED vars
      BY <3>3, <3>8 DEF vars
    <3> QED BY <1>1, <3>1, <3>2, <3>4, <3>5, <3>6, <3>7, <3>8 DEF Next
  <2> QED BY <2>1, <2>3
<1>2. TInv /\ [Next]_vars
        => [/\ InstallStep \/ ManagerStep => StepsLeft' < StepsLeft
            /\ phase # "idle" => StepsLeft' <= StepsLeft]_vars
  BY <1>1
<1> QED BY <1>2, TypeInductive, PTL DEF Spec, RunShrinks
=============================================================================
