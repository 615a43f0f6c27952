----------------------------- MODULE ConfigPush -----------------------------
(* Cloud configuration on the vehicle: the one-slot mailbox of the gateway,   *)
(* the applier of host-agent, the files it writes, `host apply` run by hand   *)
(* beside it, and the agent's death and restart at any step.                  *)
EXTENDS Naturals, FiniteSets

CONSTANTS
  Instances,      \* capturer and streamer apps a configuration may name
  FixedApps,      \* the apps every oxfile has
  FirstConfig,    \* host.toml as `host init` wrote it
  IllegalIds,     \* names check_id refuses, and names given twice
  NoPush,         \* an empty mailbox
  MaxVersion,     \* bound: versions an administrator chooses from
  MaxPushes,      \* bound: pushes sent
  MaxFaults,      \* bound: crashes and failing writes, calls and deletes
  MaxCli          \* bound: runs of `host apply`

ASSUME ConfigAssumption ==
  /\ FirstConfig \subseteq Instances
  /\ IllegalIds \cap Instances = {}
  /\ MaxVersion \in Nat /\ MaxPushes \in Nat /\ MaxFaults \in Nat /\ MaxCli \in Nat

Configs == SUBSET Instances
Valid(c) == c \cap IllegalIds = {}
Versions == 0 .. MaxVersion
Pushes == [version : Versions, config : SUBSET (Instances \cup IllegalIds)]
Appliers == {"agent", "cli"}

VARIABLES
  hostToml,       \* etc/host.toml
  tomlVersion,    \* ghost: the push that wrote it, 0 for FirstConfig
  oxfile,         \* the configuration run/oxfile.toml was generated from
  backups,        \* versions v with a file host.toml.bak-<v>
  liveApps,       \* what OxMgr runs
  agentUp,        \* the agent process is alive
  mailbox,        \* State.pending_config
  configVersion,  \* the version StatusReport carries
  at,             \* at[p]: what applier p does next
  job,            \* job[p]: the push, or the configuration, it is working on
  doomed,         \* doomed[p]: apps it has still to delete
  pushes, faults, cliRuns   \* counters for the bounds

agentVars == <<agentUp, mailbox, configVersion>>
diskVars == <<hostToml, tomlVersion, oxfile, backups>>
boundVars == <<pushes, faults, cliRuns>>
configVars == <<diskVars, liveApps, agentVars, at, job, doomed, boundVars>>

OxfileApps(c) == FixedApps \cup c

ConfigTypeOK ==
  /\ hostToml \in Configs /\ oxfile \in Configs
  /\ tomlVersion \in Versions /\ configVersion \in Versions
  /\ backups \subseteq Versions
  /\ liveApps \subseteq FixedApps \cup Instances
  /\ agentUp \in BOOLEAN
  /\ mailbox \in Pushes \cup {NoPush}
  /\ at \in [Appliers -> {"idle", "backup", "toml", "oxfile", "start", "list", "delete"}]
  /\ at["cli"] \notin {"backup", "toml"}
  /\ ~agentUp => at["agent"] = "idle"
  /\ \A p \in Appliers : doomed[p] \subseteq Instances \cup FixedApps
  /\ pushes \in 0 .. MaxPushes /\ faults \in 0 .. MaxFaults /\ cliRuns \in 0 .. MaxCli

ConfigInit ==
  /\ hostToml = FirstConfig /\ oxfile = FirstConfig
  /\ tomlVersion = 0 /\ backups = {}
  /\ liveApps = OxfileApps(FirstConfig)
  /\ agentUp = TRUE /\ mailbox = NoPush /\ configVersion = 0
  /\ at = [p \in Appliers |-> "idle"]
  /\ job = [p \in Appliers |-> NoPush]
  /\ doomed = [p \in Appliers |-> {}]
  /\ pushes = 0 /\ faults = 0 /\ cliRuns = 0

Goto(p, step) == at' = [at EXCEPT ![p] = step]
Fault == faults < MaxFaults /\ faults' = faults + 1 /\ UNCHANGED <<pushes, cliRuns>>
----------------------------------------------------------------------------
(* The administrator pushes; the newest push replaces one not taken yet.      *)
PushConfig ==
  /\ agentUp                        \* else push_config finds no host in the room
  /\ pushes < MaxPushes
  /\ pushes' = pushes + 1
  /\ mailbox' \in Pushes
  /\ UNCHANGED <<diskVars, liveApps, agentUp, configVersion, at, job, doomed, faults, cliRuns>>

Stale(p) == p.version <= configVersion

(* A tick of the applier that finds a push takes it, and drops it when it is  *)
(* stale or its text does not validate; nothing was written then.             *)
TakePush ==
  /\ agentUp /\ at["agent"] = "idle" /\ mailbox # NoPush
  /\ mailbox' = NoPush
  /\ IF Stale(mailbox) \/ ~Valid(mailbox.config)
       THEN UNCHANGED <<at, job>>
       ELSE Goto("agent", "backup") /\ job' = [job EXCEPT !["agent"] = mailbox]
  /\ UNCHANGED <<diskVars, liveApps, agentUp, configVersion, doomed, boundVars>>

(* host.toml is copied to host.toml.bak-<v> before anything is replaced.      *)
Backup ==
  /\ at["agent"] = "backup"
  /\ backups' = backups \cup {job["agent"].version}
  /\ Goto("agent", "toml")
  /\ UNCHANGED <<hostToml, tomlVersion, oxfile, liveApps, agentVars, job, doomed, boundVars>>

(* The new host.toml takes the place of the old one in one rename.            *)
WriteToml ==
  /\ at["agent"] = "toml"
  /\ hostToml' = job["agent"].config
  /\ tomlVersion' = job["agent"].version
  /\ Goto("agent", "oxfile")
  /\ UNCHANGED <<oxfile, backups, liveApps, agentVars, job, doomed, boundVars>>

(* The oxfile is generated from the same text; only then is the version kept. *)
WriteOxfile ==
  /\ at["agent"] = "oxfile"
  /\ oxfile' = job["agent"].config
  /\ configVersion' = job["agent"].version
  /\ Goto("agent", "start")
  /\ UNCHANGED <<hostToml, tomlVersion, backups, liveApps, agentUp, mailbox, job,
                 doomed, boundVars>>

(* A write that fails ends handle_config_push with an error. A failed copy    *)
(* may leave its target file behind.                                          *)
WriteFailsHere ==
  /\ at["agent"] \in {"backup", "toml", "oxfile"}
  /\ Fault
  /\ Goto("agent", "idle")
  /\ \/ UNCHANGED backups
     \/ at["agent"] = "backup" /\ backups' = backups \cup {job["agent"].version}
  /\ UNCHANGED <<hostToml, tomlVersion, oxfile, liveApps, agentVars, job, doomed>>
----------------------------------------------------------------------------
(* oxmgr_apply, by the agent or by `host apply`: start what the oxfile adds,  *)
(* list what runs, delete what the oxfile no longer has, one app at a time.   *)
StartApps(p) ==
  /\ at[p] = "start"
  /\ liveApps' = liveApps \cup OxfileApps(oxfile)
  /\ Goto(p, "list")
  /\ UNCHANGED <<diskVars, agentVars, job, doomed, boundVars>>

(* Wrong variant: nothing is taken for removed.                              *)
NothingRemoved == {}

RemovedApps == liveApps \ OxfileApps(oxfile)

(* The list and the deletes go to the manager that the environment names: the *)
(* agent's is its own, but a `host apply` run in a plain shell asks, and      *)
(* deletes from, another one, where it finds nothing of this instance.        *)
ListApps(p) ==
  /\ at[p] = "list"
  /\ \E found \in {RemovedApps} \cup (IF p = "cli" THEN {{}} ELSE {}) :
       /\ doomed' = [doomed EXCEPT ![p] = found]
       /\ Goto(p, IF found = {} THEN "idle" ELSE "delete")
  /\ UNCHANGED <<diskVars, liveApps, agentVars, job, boundVars>>

(* A failed delete is a warning, and the next app is deleted all the same.    *)
DeleteApp(p) == \E a \in doomed[p] :
  /\ at[p] = "delete"
  /\ \/ liveApps' = liveApps \ {a} /\ UNCHANGED boundVars
     \/ UNCHANGED liveApps /\ Fault
  /\ doomed' = [doomed EXCEPT ![p] = @ \ {a}]
  /\ Goto(p, IF doomed[p] = {a} THEN "idle" ELSE "delete")
  /\ UNCHANGED <<diskVars, agentVars, job>>

(* OxMgr refuses the apply or the list: the error is logged, nothing repeats. *)
OxmgrFails(p) ==
  /\ at[p] \in {"start", "list"}
  /\ Fault
  /\ Goto(p, "idle")
  /\ UNCHANGED <<diskVars, liveApps, agentVars, job, doomed>>
----------------------------------------------------------------------------
(* `host apply`: read host.toml, write the oxfile, apply it.                  *)
ReadToml ==
  /\ at["cli"] = "idle" /\ cliRuns < MaxCli
  /\ cliRuns' = cliRuns + 1
  /\ job' = [job EXCEPT !["cli"] = [version |-> tomlVersion, config |-> hostToml]]
  /\ Goto("cli", "oxfile")
  /\ UNCHANGED <<diskVars, liveApps, agentVars, doomed, pushes, faults>>

CliWriteOxfile ==
  /\ at["cli"] = "oxfile"
  /\ oxfile' = job["cli"].config
  /\ Goto("cli", "start")
  /\ UNCHANGED <<hostToml, tomlVersion, backups, liveApps, agentVars, job, doomed, boundVars>>

(* The agent dies: of a fault, or because OxMgr's watch restarts it one       *)
(* second after it changed host.toml. Mailbox and version die with it.        *)
Crash ==
  /\ agentUp
  /\ Fault
  /\ agentUp' = FALSE /\ mailbox' = NoPush
  /\ Goto("agent", "idle")
  /\ doomed' = [doomed EXCEPT !["agent"] = {}]
  /\ UNCHANGED <<diskVars, liveApps, configVersion, job>>

RecoveredVersion == IF backups = {} THEN 0 ELSE CHOOSE v \in backups : \A w \in backups : w <= v

(* Wrong variant: the version is not read back from the backups.             *)
RestartFromZero ==
  /\ ~agentUp
  /\ agentUp' = TRUE
  /\ configVersion' = 0
  /\ UNCHANGED <<diskVars, liveApps, mailbox, at, job, doomed, boundVars>>

Restart ==
  /\ ~agentUp
  /\ agentUp' = TRUE
  /\ configVersion' = RecoveredVersion
  /\ UNCHANGED <<diskVars, liveApps, mailbox, at, job, doomed, boundVars>>

ApplyStep ==
  \/ TakePush \/ Backup \/ WriteToml \/ WriteOxfile \/ Restart
  \/ StartApps("agent") \/ ListApps("agent") \/ DeleteApp("agent")

CliStep ==
  \/ ReadToml \/ CliWriteOxfile
  \/ StartApps("cli") \/ ListApps("cli") \/ DeleteApp("cli") \/ OxmgrFails("cli")

ConfigNext ==
  \/ PushConfig \/ ApplyStep \/ CliStep
  \/ WriteFailsHere \/ OxmgrFails("agent") \/ Crash

ConfigSpec == ConfigInit /\ [][ConfigNext]_configVars
----------------------------------------------------------------------------
(* The vehicle never leaves a version it has reported for an older one, and   *)
(* the version it reports never goes back: not through a restart, a failed    *)
(* write, or a late or repeated push. (The stale guard compares with a version*)
(* that is in memory only and rebuilt from the names of the backups.)         *)
NoDowngrade ==
  [][/\ configVersion' >= configVersion
     /\ tomlVersion' < tomlVersion => tomlVersion > configVersion]_configVars

(* Without faults, and with nobody running `host apply` at the same time, an  *)
(* applier that waits for a push has left exactly the apps running that       *)
(* host.toml asks for, whatever was pushed over what before.                  *)
SettledWhenIdle ==
  at["agent"] = "idle" /\ faults = 0 /\ cliRuns = 0 => liveApps = OxfileApps(hostToml)

(* And it does come to that in the end.                                       *)
Settles == <>[](faults = 0 /\ cliRuns = 0) => <>[](liveApps = OxfileApps(hostToml))

(* An agent with nothing in hand reports the version that is in host.toml     *)
(* (translate.rs: a refused push leaves the files alone, and the version      *)
(* recovered after a restart is the one applied on disk).                     *)
(* Does not hold: an agent killed between backup and file reports, after      *)
(* its restart, a version it has not applied.                                 *)
ReportMatchesDisk == agentUp /\ at["agent"] = "idle" => configVersion = tomlVersion
=============================================================================
