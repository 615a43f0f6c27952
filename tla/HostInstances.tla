---------------------------- MODULE HostInstances ----------------------------
(* The host command over several instance directories of one machine: start,  *)
(* apply, restart and stop, and the boot units of startup on and off.  Every  *)
(* instance has a process manager of its own (OXMGR_HOME, OXMGR_DAEMON_ADDR); *)
(* a listing made without those variables asks the manager of the user.       *)
EXTENDS Naturals, Sequences, FiniteSets

CONSTANTS
  Dirs,            \* instance directories
  HostApps,        \* apps a configuration may name besides the agent
  NoDir,
  MaxHostCommands, \* bound: commands run
  MaxEdits,        \* bound: changes of a host.toml
  MaxOxFails       \* bound: failures of the process manager and of the unit directory

Agent == "agent"
ASSUME HostInstancesAssumption ==
  /\ Agent \notin HostApps /\ NoDir \notin Dirs
  /\ MaxHostCommands \in Nat /\ MaxEdits \in Nat /\ MaxOxFails \in Nat

VARIABLES
  samePort,       \* the directories' local_port is the same
  instanceToml,   \* instanceToml[d]: the apps of etc/host.toml
  instanceOxfile, \* instanceOxfile[d]: the apps of run/instanceOxfile.toml, or {} before the first
  listed,         \* listed[d]: apps the manager of d knows
  up,             \* up[d]: those that run
  units,          \* directories with a boot unit
  unitsMissed,    \* ghost: those whose unit a take-over left there, unseen or not removed
  hcmd,           \* the running command: verb, dir, the steps left, whether one
                  \*   failed, and the instance it takes over
  hostReport,     \* how the last command ended
  nHostCommands, nEdits, nOxFails

bootUnits == <<units, unitsMissed>>
hostVars == <<samePort, instanceToml, instanceOxfile, listed, up, bootUnits, hcmd, hostReport,
              nHostCommands, nEdits, nOxFails>>

Verbs == {"start", "apply", "restart", "stop", "on", "off"}
NoCommand == [verb |-> "none", dir |-> NoDir, steps |-> <<>>, failed |-> FALSE, old |-> NoDir]
Report(v, d, ok) == [verb |-> v, dir |-> d, ok |-> ok]
HostIdle == hcmd = NoCommand

HostTypeOK ==
  /\ \A d \in Dirs : /\ Agent \in instanceToml[d] /\ instanceToml[d] \subseteq HostApps \cup {Agent}
                     /\ up[d] \subseteq listed[d] /\ listed[d] \subseteq HostApps \cup {Agent}
  /\ units \subseteq Dirs /\ unitsMissed \subseteq Dirs /\ hcmd.verb \in Verbs \cup {"none"} /\ hcmd.old \in Dirs \cup {NoDir}

InstancesInit ==
  /\ samePort \in BOOLEAN /\ instanceToml \in [Dirs -> {a \cup {Agent} : a \in SUBSET HostApps}]
  /\ instanceOxfile = [d \in Dirs |-> {}] /\ listed = [d \in Dirs |-> {}] /\ up = [d \in Dirs |-> {}]
  /\ units = {} /\ unitsMissed = {} /\ hcmd = NoCommand /\ hostReport = Report("none", NoDir, TRUE)
  /\ nHostCommands = 0 /\ nEdits = 0 /\ nOxFails = 0

EditToml(d, apps) ==
  /\ nEdits < MaxEdits /\ nEdits' = nEdits + 1 /\ instanceToml' = [instanceToml EXCEPT ![d] = apps \cup {Agent}]
  /\ UNCHANGED <<samePort, instanceOxfile, listed, up, bootUnits, hcmd, hostReport, nHostCommands, nOxFails>>

Run(v, d, steps, old) ==
  /\ HostIdle /\ nHostCommands < MaxHostCommands /\ nHostCommands' = nHostCommands + 1
  /\ hcmd' = [verb |-> v, dir |-> d, steps |-> steps, failed |-> FALSE, old |-> old]
Refuse(v, d) ==
  /\ HostIdle /\ nHostCommands < MaxHostCommands /\ nHostCommands' = nHostCommands + 1
  /\ hostReport' = Report(v, d, FALSE)
OxFail == nOxFails < MaxOxFails /\ nOxFails' = nOxFails + 1
Apps == <<samePort, instanceToml, instanceOxfile, listed, up, nEdits>>
Others == <<Apps, bootUnits, nOxFails>>

-----------------------------------------------------------------------------
(* agent_port_in_use: some agent answers on the port of d, its own included.  *)
PortInUse(d) == \E e \in Dirs : (e = d \/ samePort) /\ Agent \in up[e]

(* find_other_instance_dir: the directory of some agent process, or none when *)
(* a process cannot be looked at.                                             *)
FoundDirs == {e \in Dirs : Agent \in up[e]} \cup {NoDir}

Start(d) ==
  \/ ~PortInUse(d) /\ Run("start", d, <<"write", "apply">>, NoDir) /\ UNCHANGED <<hostReport, Others>>
  \/ PortInUse(d) /\ Refuse("start", d) /\ UNCHANGED <<hcmd, Others>>     \* no terminal, or not y
  \/ /\ PortInUse(d) /\ UNCHANGED <<hostReport, Others>>
     /\ \E old \in FoundDirs :
          Run("start", d, (IF old = NoDir THEN <<>> ELSE <<"stopOld", "deleteOld">>) \o <<"write", "apply">>, old)

Apply(d) == Run("apply", d, <<"write", "apply">>, NoDir) /\ UNCHANGED <<hostReport, Others>>

RestartAll(d) ==
  \/ instanceOxfile[d] # {} /\ Run("restart", d, <<"stop", "write", "apply">>, NoDir) /\ UNCHANGED <<hostReport, Others>>
  \/ instanceOxfile[d] = {} /\ Refuse("restart", d) /\ UNCHANGED <<hcmd, Others>>

StopAllApps(d) ==
  Run("stop", d, (IF instanceOxfile[d] = {} THEN <<>> ELSE <<"stop", "delete">>) \o <<"leftovers">>, NoDir)
  /\ UNCHANGED <<hostReport, Others>>

(* startup on: with a unit of another instance, only after y.  When the       *)
(* directory of the units cannot be read, it takes it that there is none.     *)
StartupOn(d) ==
  \/ units \subseteq {d} /\ Run("on", d, <<"install">>, NoDir) /\ UNCHANGED <<hostReport, Others>>
  \/ ~(units \subseteq {d}) /\ Refuse("on", d) /\ UNCHANGED <<hcmd, Others>>
  \/ ~(units \subseteq {d}) /\ Run("on", d, <<"removeUnits", "install">>, NoDir)
     /\ UNCHANGED <<hostReport, Others>>
  \/ /\ ~(units \subseteq {d}) /\ Run("on", d, <<"install">>, NoDir) /\ OxFail
     /\ unitsMissed' = unitsMissed \cup (units \ {d}) /\ UNCHANGED <<hostReport, Apps, units>>

StartupOff(d) == Run("off", d, <<"uninstall">>, NoDir) /\ UNCHANGED <<hostReport, Others>>

-----------------------------------------------------------------------------
NextStep(s) == hcmd.steps # <<>> /\ Head(hcmd.steps) = s
Stepped(failed) == hcmd' = [hcmd EXCEPT !.steps = Tail(@), !.failed = @ \/ failed]
Aborted == hcmd' = [hcmd EXCEPT !.steps = <<>>, !.failed = TRUE]
StateKept == <<samePort, instanceToml, bootUnits, hostReport, nHostCommands, nEdits>>

(* oxmgr stop and delete of an oxfile.                                        *)
StopOxfile ==
  /\ NextStep("stop") /\ up' = [up EXCEPT ![hcmd.dir] = @ \ instanceOxfile[hcmd.dir]] /\ Stepped(FALSE)
  /\ UNCHANGED <<StateKept, instanceOxfile, listed, nOxFails>>

DeleteOxfile ==
  /\ NextStep("delete") /\ listed' = [listed EXCEPT ![hcmd.dir] = @ \ instanceOxfile[hcmd.dir]]
  /\ up' = [up EXCEPT ![hcmd.dir] = @ \ instanceOxfile[hcmd.dir]] /\ Stepped(FALSE)
  /\ UNCHANGED <<StateKept, instanceOxfile, nOxFails>>

StopOld ==
  /\ NextStep("stopOld") /\ up' = [up EXCEPT ![hcmd.old] = @ \ instanceOxfile[hcmd.old]] /\ Stepped(FALSE)
  /\ UNCHANGED <<StateKept, instanceOxfile, listed, nOxFails>>

DeleteOld ==
  /\ NextStep("deleteOld") /\ listed' = [listed EXCEPT ![hcmd.old] = @ \ instanceOxfile[hcmd.old]]
  /\ up' = [up EXCEPT ![hcmd.old] = @ \ instanceOxfile[hcmd.old]] /\ Stepped(FALSE)
  /\ UNCHANGED <<StateKept, instanceOxfile, nOxFails>>

(* A failed call or write: restart gives up, stop goes on with an error, *)
(* and a take-over does not look at the result.                               *)
OxmgrCallFails ==
  /\ OxFail
  /\ \/ /\ \E s \in {"stop", "delete", "leftovers", "write", "apply"} : NextStep(s)
        /\ IF hcmd.verb = "stop" THEN Stepped(TRUE) ELSE Aborted
     \/ (NextStep("stopOld") \/ NextStep("deleteOld")) /\ Stepped(FALSE)
  /\ UNCHANGED <<StateKept, instanceOxfile, listed, up>>

(* write_oxfile, and oxmgr apply: what the file names is added or restarted.  *)
(* What it no longer names would be deleted by name, from the list of another *)
(* manager.                                                                   *)
WriteApps ==
  /\ NextStep("write") /\ instanceOxfile' = [instanceOxfile EXCEPT ![hcmd.dir] = instanceToml[hcmd.dir]] /\ Stepped(FALSE)
  /\ UNCHANGED <<StateKept, listed, up, nOxFails>>

ApplyApps ==
  /\ NextStep("apply") /\ listed' = [listed EXCEPT ![hcmd.dir] = @ \cup instanceOxfile[hcmd.dir]]
  /\ up' = [up EXCEPT ![hcmd.dir] = @ \cup instanceOxfile[hcmd.dir]] /\ Stepped(FALSE)
  /\ UNCHANGED <<StateKept, instanceOxfile, nOxFails>>

(* live_host_apps lists the apps of the user's manager, which has none.       *)
Leftovers ==
  /\ NextStep("leftovers") /\ Stepped(FALSE) /\ UNCHANGED <<StateKept, instanceOxfile, listed, up, nOxFails>>

(* The units of the other instances are removed, but for those whose file     *)
(* cannot be: nobody looks at the result.  The directory is never read from a *)
(* unit, which has no line of the name that is looked for: nothing is stopped.*)
RemoveUnits ==
  /\ NextStep("removeUnits") /\ Stepped(FALSE)
  /\ \E left \in SUBSET (units \ {hcmd.dir}) :
       /\ units' = (units \cap {hcmd.dir}) \cup left /\ unitsMissed' = left
       /\ IF left = {} THEN UNCHANGED nOxFails ELSE OxFail
  /\ UNCHANGED <<Apps, hostReport, nHostCommands>>

(* The unit is written, and stays there when systemd refuses it; or it cannot *)
(* be written, and the command ends with an error.                            *)
InstallUnit ==
  /\ NextStep("install")
  /\ \/ units' = units \cup {hcmd.dir} /\ unitsMissed' = unitsMissed \ {hcmd.dir}
        /\ \E failed \in BOOLEAN : Stepped(failed)
     \/ UNCHANGED bootUnits /\ Stepped(TRUE)
  /\ UNCHANGED <<Apps, hostReport, nHostCommands, nOxFails>>

(* Nobody looks whether the file went.                                        *)
UninstallUnit ==
  /\ NextStep("uninstall") /\ Stepped(FALSE)
  /\ \/ units' = units \ {hcmd.dir} /\ unitsMissed' = unitsMissed \ {hcmd.dir} /\ UNCHANGED nOxFails
     \/ UNCHANGED bootUnits /\ OxFail
  /\ UNCHANGED <<Apps, hostReport, nHostCommands>>

CommandDone ==
  /\ ~HostIdle /\ hcmd.steps = <<>> /\ hcmd' = NoCommand
  /\ hostReport' = Report(hcmd.verb, hcmd.dir, ~hcmd.failed)
  /\ UNCHANGED Others /\ UNCHANGED nHostCommands

(* The command is interrupted between two steps.                              *)
CommandKilled ==
  /\ ~HostIdle /\ hcmd' = NoCommand /\ hostReport' = Report(hcmd.verb, hcmd.dir, FALSE)
  /\ UNCHANGED Others /\ UNCHANGED nHostCommands

HostNext ==
  \/ \E d \in Dirs : Start(d) \/ Apply(d) \/ RestartAll(d) \/ StopAllApps(d) \/ StartupOn(d) \/ StartupOff(d)
  \/ \E d \in Dirs, apps \in SUBSET HostApps : EditToml(d, apps)
  \/ StopOxfile \/ DeleteOxfile \/ StopOld \/ DeleteOld \/ OxmgrCallFails \/ WriteApps \/ ApplyApps
  \/ Leftovers \/ RemoveUnits \/ InstallUnit \/ UninstallUnit \/ CommandDone \/ CommandKilled

HostSpec == InstancesInit /\ [][HostNext]_hostVars

-----------------------------------------------------------------------------
(* Only one instance starts at boot, whatever the operator ran before and     *)
(* whichever command was interrupted; a unit that a take-over did not see, or *)
(* could not remove, is one more.                                             *)
OneStartupUnit == Cardinality(units \ unitsMissed) <= 1

(* host.rs lets one instance only start at boot.                              *)
(* Does not hold: startup on installs its unit also when the units of the     *)
(* others could not be listed or removed.                                     *)
NoSecondUnit == Cardinality(units) <= 1

(* A stop that reported success leaves no app of the instance behind: host.rs *)
(* promises that the namespace is empty then.                                 *)
(* Does not hold: the apps that host.toml no longer names are in no oxfile,   *)
(* and the last listing asks a manager that has none of them.                 *)
StopEmptiesNamespace ==
  [][\A d \in Dirs : hostReport' = Report("stop", d, TRUE) /\ hcmd.verb = "stop" /\ hcmd.dir = d
       => listed[d] = {}]_hostVars
=============================================================================
