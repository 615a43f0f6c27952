------------------------------ MODULE HostInit ------------------------------
(* host init and host token issue --all: the files of an instance directory,  *)
(* made one after the other, each skipped when it is already there, with a    *)
(* line of the issuance log before each token.  A command may be killed, or a *)
(* write may fail, between the creation of a file and its contents.           *)
EXTENDS Naturals, Sequences, SequencesExt, FiniteSets

CONSTANTS
  TokenApps,      \* the apps that need a token: records with id and role,
  AppOrder,       \*   in the order the command issues them
  MaxCommands,    \* bound: commands run
  MaxRemoved      \* bound: files removed by the operator

SetupFile(f) == [id |-> f, role |-> "setup"]
SetupNames == <<"host.toml", "signing.pem", "identity.json", "ros_bridge.yaml">>
SetupOrder == [i \in 1 .. 4 |-> SetupFile(SetupNames[i])]
TokenFiles == {a.id : a \in TokenApps}
InstanceFiles == ToSet(SetupNames) \cup TokenFiles
FirstHalf(a) == a.role \in {"capture", "pusher"}     \* one for each camera and stream

ASSUME HostInitAssumption ==
  /\ MaxCommands \in Nat /\ MaxRemoved \in Nat
  /\ IsInjective(AppOrder) /\ ToSet(AppOrder) = TokenApps
  /\ \A a \in TokenApps : /\ a.role # "setup" /\ a.id # "none"
                         /\ a.id \notin ToSet(SetupNames)     \* tokens have a directory of their own

VARIABLES
  present,        \* present[f]: "no", "cut" (created, not all written) or "whole"
  hostKey,        \* which key signing.pem holds: the number of keys made so far
  signedFor,      \* signedFor[f]: app and key of the token in f
  issuance,       \* the lines of issuance.jsonl
  todoFiles,      \* what the running command has still to make
  writing,        \* the file it has created and not written yet
  initExit,       \* how the last command ended
  nCommands, nRemoved

initVars == <<present, hostKey, signedFor, issuance, todoFiles, writing, initExit, nCommands, nRemoved>>
initUser == <<nCommands, nRemoved>>

NoApp == [app |-> [id |-> "none", role |-> "none"], key |-> 0]
NoWrite == "none"

HostInitTypeOK ==
  /\ present \in [InstanceFiles -> {"no", "cut", "whole"}] /\ hostKey \in Nat
  /\ \A f \in TokenFiles : signedFor[f] = NoApp \/ signedFor[f].app \in TokenApps
  /\ writing \in InstanceFiles \cup {NoWrite}
  /\ initExit \in {"none", "running", "ok", "error", "killed"}

HostInitInit ==
  /\ present = [f \in InstanceFiles |-> "no"] /\ hostKey = 0
  /\ signedFor = [f \in TokenFiles |-> NoApp] /\ issuance = <<>>
  /\ todoFiles = <<>> /\ writing = NoWrite /\ initExit = "none"
  /\ nCommands = 0 /\ nRemoved = 0

CommandRuns == initExit = "running"
Command(todo) ==
  /\ ~CommandRuns /\ nCommands < MaxCommands /\ nCommands' = nCommands + 1
  /\ todoFiles' = todo /\ initExit' = "running"
  /\ UNCHANGED <<present, hostKey, signedFor, issuance, writing, nRemoved>>

InitCommand == Command(Append(SetupOrder, SetupFile("tokens")))
IssueAll == present["host.toml"] # "no" /\ Command(<<SetupFile("tokens")>>)

EndCommand(how) == /\ todoFiles' = <<>> /\ writing' = NoWrite /\ initExit' = how

-----------------------------------------------------------------------------
(* A file of the setup: kept when it is there, except ros_bridge.yaml, which   *)
(* is written every time.                                                     *)
Setup(f) ==
  /\ CommandRuns /\ writing = NoWrite /\ todoFiles # <<>> /\ Head(todoFiles) = SetupFile(f)
  /\ f # "identity.json"
  /\ \/ /\ present[f] # "no" /\ f # "ros_bridge.yaml"
        /\ todoFiles' = Tail(todoFiles) /\ UNCHANGED <<present, writing>>
     \/ /\ present[f] = "no" \/ f = "ros_bridge.yaml"
        /\ present' = [present EXCEPT ![f] = "cut"] /\ writing' = f /\ UNCHANGED todoFiles
  /\ UNCHANGED <<hostKey, signedFor, issuance, initExit, initUser>>

(* ensure_identity: the identity that is there must parse, or init ends.      *)
EnsureIdentity ==
  LET f == "identity.json" IN
  /\ CommandRuns /\ writing = NoWrite /\ todoFiles # <<>> /\ Head(todoFiles) = SetupFile(f)
  /\ \/ present[f] = "whole" /\ todoFiles' = Tail(todoFiles) /\ UNCHANGED <<present, writing, initExit>>
     \/ present[f] = "cut" /\ EndCommand("error") /\ UNCHANGED present
     \/ /\ present[f] = "no" /\ present' = [present EXCEPT ![f] = "cut"] /\ writing' = f
        /\ UNCHANGED <<todoFiles, initExit>>
  /\ UNCHANGED <<hostKey, signedFor, issuance, initUser>>

(* issue_all reads the configuration: of one that was cut short it may see    *)
(* only the first cameras and streams, or refuse it.                          *)
ReadApps ==
  /\ CommandRuns /\ todoFiles # <<>> /\ Head(todoFiles) = SetupFile("tokens")
  /\ \/ /\ present["host.toml"] # "no"
        /\ \E n \in 0 .. Len(AppOrder) :
             /\ present["host.toml"] = "whole" => n = Len(AppOrder)
             /\ LET seen == {AppOrder[i] : i \in 1 .. n} \cup {a \in TokenApps : ~FirstHalf(a)}
                IN  todoFiles' = SelectSeq(AppOrder, LAMBDA a : a \in seen)
        /\ UNCHANGED <<writing, initExit>>
     \/ present["host.toml"] # "whole" /\ EndCommand("error")
  /\ UNCHANGED <<present, hostKey, signedFor, issuance, initUser>>

NextApp(a) == /\ CommandRuns /\ writing = NoWrite /\ todoFiles # <<>> /\ Head(todoFiles) = a

SkipToken(a) ==
  /\ NextApp(a) /\ present[a.id] # "no" /\ todoFiles' = Tail(todoFiles)
  /\ UNCHANGED <<present, hostKey, signedFor, issuance, writing, initExit, initUser>>

(* Wrong variant: the token without its line in the log.                      *)
IssueUnrecorded(a) ==
  /\ NextApp(a) /\ present[a.id] = "no" /\ present["signing.pem"] = "whole"
  /\ present' = [present EXCEPT ![a.id] = "cut"] /\ writing' = a.id
  /\ signedFor' = [signedFor EXCEPT ![a.id] = [app |-> a, key |-> hostKey]]
  /\ UNCHANGED <<hostKey, issuance, todoFiles, initExit, initUser>>

(* issue_one: the log line, then the token file.                              *)
IssueToken(a) ==
  /\ NextApp(a) /\ present[a.id] = "no" /\ present["signing.pem"] = "whole"
  /\ issuance' = Append(issuance, a)
  /\ present' = [present EXCEPT ![a.id] = "cut"] /\ writing' = a.id
  /\ signedFor' = [signedFor EXCEPT ![a.id] = [app |-> a, key |-> hostKey]]
  /\ UNCHANGED <<hostKey, todoFiles, initExit, initUser>>

(* The first error ends the command, and the tokens that follow are not      *)
(* tried: it leaves the whole block, the recorder's and the agent's included. *)
AfterError == todoFiles' = <<>> /\ initExit' = "error"

TokenFails(a) ==
  /\ NextApp(a) /\ present[a.id] = "no" /\ AfterError
  /\ \/ present["signing.pem"] # "whole" /\ UNCHANGED issuance     \* no key to sign with
     \/ UNCHANGED issuance                                         \* the log refused the line
     \/ present["signing.pem"] = "whole" /\ issuance' = Append(issuance, a)  \* the file did
  /\ UNCHANGED <<present, hostKey, signedFor, writing, initUser>>

(* The token's file was created and could not be written.                     *)
TokenCutShort(a) ==
  /\ CommandRuns /\ writing = a.id /\ Head(todoFiles) = a /\ writing' = NoWrite /\ AfterError
  /\ UNCHANGED <<present, hostKey, signedFor, issuance, initUser>>

-----------------------------------------------------------------------------
(* The contents of the file that was created: the next of the list follows.   *)
Written(f) ==
  /\ CommandRuns /\ writing = f /\ present' = [present EXCEPT ![f] = "whole"]
  /\ hostKey' = IF f = "signing.pem" THEN hostKey + 1 ELSE hostKey
  /\ writing' = NoWrite /\ todoFiles' = Tail(todoFiles)
  /\ UNCHANGED <<signedFor, issuance, initExit, initUser>>

(* The command is killed, or the write fails: the file stays cut.             *)
CommandCut ==
  /\ CommandRuns /\ EndCommand("killed")
  /\ UNCHANGED <<present, hostKey, signedFor, issuance, initUser>>

CommandEnds ==
  /\ CommandRuns /\ todoFiles = <<>> /\ initExit' = "ok"
  /\ UNCHANGED <<present, hostKey, signedFor, issuance, todoFiles, writing, initUser>>

(* The operator removes a token, to have it issued again.                     *)
RemoveToken(f) ==
  /\ ~CommandRuns /\ nRemoved < MaxRemoved /\ nRemoved' = nRemoved + 1 /\ present[f] # "no"
  /\ present' = [present EXCEPT ![f] = "no"] /\ signedFor' = [signedFor EXCEPT ![f] = NoApp]
  /\ UNCHANGED <<hostKey, issuance, todoFiles, writing, initExit, nCommands>>

HostInitNext ==
  \/ InitCommand \/ IssueAll \/ EnsureIdentity \/ ReadApps \/ CommandCut \/ CommandEnds
  \/ \E f \in ToSet(SetupNames) : Setup(f)
  \/ \E f \in InstanceFiles : Written(f)
  \/ \E a \in TokenApps : SkipToken(a) \/ IssueToken(a) \/ TokenFails(a) \/ TokenCutShort(a)
  \/ \E f \in TokenFiles : RemoveToken(f)

HostInitSpec == HostInitInit /\ [][HostInitNext]_initVars

-----------------------------------------------------------------------------
(* A token in the instance directory, even one that was cut short, has its    *)
(* line in the issuance log and is signed with the key that is on disk,       *)
(* however often init was run, killed and run again.                          *)
TokensAccountedFor ==
  \A f \in TokenFiles : present[f] # "no" =>
     /\ \E i \in 1 .. Len(issuance) : issuance[i] = signedFor[f].app
     /\ signedFor[f].key = hostKey /\ present["signing.pem"] = "whole"
=============================================================================
