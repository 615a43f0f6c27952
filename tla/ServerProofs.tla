---------------------------- MODULE ServerProofs ----------------------------
(* Theorems about the server process and what it keeps - its drain, the       *)
(* backups, the administration interface - and about two of those at the other *)
(* end of its sessions: the operator client and the field session.            *)
EXTENDS ServerLife, Backup, AdminApi, OperatorClient, FieldSession, QueueLemmas

-----------------------------------------------------------------------------
(* The drain.                                                                 *)

(* Sessions that were there at ctrl-C only go on towards their end, and a     *)
(* plain server that is past its drain in time has waited for all of them.    *)
DrainInv ==
  /\ sess \in [Conns -> SessStates] /\ there \subseteq Conns
  /\ proc \in {"starting", "refused", "serving", "draining", "ending", "exited"}
  /\ proc \in {"starting", "refused", "serving"} => there = {}
  /\ \A c \in there : sess[c] \in {"psk", "room", "relay", "leaving", "closed"}
  /\ listener = "plain" /\ proc \in {"ending", "exited"} /\ ~timeUp =>
       \A c \in there : sess[c] = "closed"

LEMMA DrainInit == LifeInit => DrainInv
BY DEF LifeInit, DrainInv, SessStates

LEMMA DrainStep == DrainInv /\ [LifeNext]_lifeVars => DrainInv'
<1> SUFFICES ASSUME DrainInv, [LifeNext]_lifeVars PROVE DrainInv'
  OBVIOUS
<1> USE DEF DrainInv, SessStates
<1>1. CASE StartServer
  BY <1>1 DEF StartServer
<1>2. CASE CtrlC
  BY <1>2 DEF CtrlC, Counted
<1>3. CASE LifeStep
  BY <1>3 DEF LifeStep, Deadline, Drain250ms, ExitServer, Counted
<1>4. ASSUME NEW c \in Conns, SessStep(c) PROVE DrainInv'
  <2>1. PICK here, next \in SessStates :
          /\ sess[c] = here /\ sess' = [sess EXCEPT ![c] = next] /\ UNCHANGED procVars
          /\ here \in {"psk", "room", "relay", "leaving", "closed"} =>
               next \in {"psk", "room", "relay", "leaving", "closed"}
          /\ here = "closed" => next = "closed"
    BY <1>4 DEF SessStep, AcceptConn, BeginSession, AnswerPsk, RoomMessage, RelayMessage, Hangup,
                CleanUp, At, Goes, lifeVars, procVars
  <2> QED
    BY <2>1 DEF procVars
<1>5. CASE UNCHANGED lifeVars
  BY <1>5 DEF lifeVars
<1> QED
  BY <1>1, <1>2, <1>3, <1>4, <1>5 DEF LifeNext

(* No session that was there at ctrl-C is cut off by a plain server that      *)
(* exits before its deadline (main.rs, the drain): for any number of          *)
(* connections and whatever tokens they carry.                                *)
THEOREM NoSessionIsCut == LifeSpec => []NoSessionCut
<1>1. DrainInv => NoSessionCut
  BY DEF DrainInv, NoSessionCut
<1> QED
  BY DrainInit, DrainStep, <1>1, PTL DEF LifeSpec

-----------------------------------------------------------------------------
(* Backups, with one manager on the path: with two, one of them renames what  *)
(* the other one is still writing.                                            *)

(* The backup is the newest snapshot whose save() returned Ok, whole, and it  *)
(* is missing only before the first of them or after a delete(); what is      *)
(* renamed next is whole too.                                                 *)
BackupInv ==
  /\ snaps \in Nat /\ age \in Nat
  /\ saver \in [Savers -> [step : {"idle", "open", "write", "rename"}, snap : Nat]]
  /\ \A w \in Savers : saver[w].step # "idle" => saver[w].snap # 0
  /\ \A w \in Savers : saver[w].step = "rename" => backupTmp = Whole(saver[w].snap)
  /\ savedLast \in Nat
  /\ \/ backupFile = NoFile /\ (savedLast = 0 \/ deletedLast)
     \/ backupFile = Whole(savedLast) /\ savedLast # 0 /\ ~deletedLast

LEMMA WholeIsFile == \A n \in Nat : Whole(n) # NoFile
<1>1. \A n \in Nat : Whole(n) \in [snap : Nat, whole : BOOLEAN]
  BY DEF Whole
<1> QED
  BY <1>1, BackupAssumption

LEMMA BackupInitInv == BackupInit => BackupInv
BY DEF BackupInit, BackupInv, SaverIdle

LEMMA BackupStep ==
  ASSUME \A v, w \in Savers : v = w, BackupInv, [BackupNext]_backupVars
  PROVE  BackupInv'
<1> USE DEF BackupInv, backupDisk
<1>1. ASSUME NEW w \in Savers, TakeSnapshot(w) PROVE BackupInv'
  BY <1>1 DEF TakeSnapshot, SaverAt
<1>2. ASSUME NEW w \in Savers, OpenTmp(w) PROVE BackupInv'
  BY <1>2 DEF OpenTmp, SaverAt, SaverGoes
<1>3. ASSUME NEW w \in Savers, WriteTmp(w) PROVE BackupInv'
  BY <1>3 DEF WriteTmp, SaverAt, SaverGoes
<1>4. ASSUME NEW w \in Savers, RenameTmp(w) PROVE BackupInv'
  BY <1>4 DEF RenameTmp, SaverAt, SaverGoes
<1>5. ASSUME NEW w \in Savers, SaveFails(w) PROVE BackupInv'
  BY <1>5 DEF SaveFails, SaverGoes
<1>6. CASE DeleteBackup
  BY <1>6 DEF DeleteBackup
<1>7. CASE ProcessDies
  BY <1>7 DEF ProcessDies, SaverIdle
<1>8. CASE TimePasses
  BY <1>8 DEF TimePasses
<1>9. CASE StartAndLoad
  BY <1>9 DEF StartAndLoad
<1>10. CASE UNCHANGED backupVars
  BY <1>10 DEF backupVars
<1> QED
  BY <1>1, <1>2, <1>3, <1>4, <1>5, <1>6, <1>7, <1>8, <1>9, <1>10 DEF BackupNext, SaveStep

(* A start of the process finds the newest snapshot saved, whole, or nothing  *)
(* when there is none young enough (backup.rs: write, then rename): for any   *)
(* number of snapshots, wherever the process died.                            *)
THEOREM LoadIsLastSave ==
  ASSUME \A v, w \in Savers : v = w
  PROVE  BackupSpec => LoadFindsLastSave
<1> DEFINE Found ==
      \/ savedLast # 0 /\ ~deletedLast /\ age <= MaxStale /\ loaded' = savedLast
      \/ (savedLast = 0 \/ deletedLast \/ age > MaxStale) /\ loaded' = Nothing
<1>1. BackupInv /\ [BackupNext]_backupVars => BackupInv'
  BY BackupStep
<1>2. ASSUME BackupInv, StartAndLoad PROVE Found
  <2>1. Whole(savedLast) # NoFile
    BY <1>2, WholeIsFile DEF BackupInv
  <2>2. CASE backupFile = NoFile
    <3>1. LoadResult = Nothing /\ (savedLast = 0 \/ deletedLast)
      BY <1>2, <2>1, <2>2 DEF LoadResult, BackupInv
    <3> QED
      BY <1>2, <3>1 DEF StartAndLoad
  <2>3. CASE backupFile = Whole(savedLast) /\ savedLast # 0 /\ ~deletedLast
    <3>1. age > MaxStale \/ age <= MaxStale
      BY <1>2, BackupAssumption DEF BackupInv
    <3> QED
      BY <1>2, <2>1, <2>3, <3>1 DEF StartAndLoad, LoadResult, Whole, Nothing
  <2> QED
    BY <1>2, <2>2, <2>3 DEF BackupInv
<1>3. BackupInv /\ [BackupNext]_backupVars => [StartAndLoad => Found]_backupVars
  BY <1>2
<1> QED
  BY BackupInitInv, <1>1, <1>3, PTL DEF BackupSpec, LoadFindsLastSave

-----------------------------------------------------------------------------
(* Changes through the administration interface.                              *)

(* Tokens carry the role of a registry that was loaded, but for those printed *)
(* at a start; an admitted request carries a token that was in time, and an   *)
(* administrator's for a change.                                              *)
AdminInv ==
  /\ serverUp => \A u \in Users : <<u, accounts[u]>> \in loadedAccounts
  /\ \A t \in tokens : <<t.user, t.role>> \in loadedAccounts \/ t.user = Bootstrap
  /\ calls = [c \in Clients |-> calls[c]]
  /\ \A c \in Clients : calls[c] # NoCall =>
       /\ calls[c].tok \in tokens /\ calls[c].at <= calls[c].tok.exp + Leeway
       /\ calls[c].op \in Changes => calls[c].tok.role = "admin"
  /\ ChangesByAdmins

LEMMA AdminInitInv == AdminInit => AdminInv
BY DEF AdminInit, AdminInv, ChangesByAdmins

LEMMA AdminStep == AdminInv /\ [AdminNext]_adminVars => AdminInv'
<1> SUFFICES ASSUME AdminInv, [AdminNext]_adminVars PROVE AdminInv'
  OBVIOUS
<1> USE DEF AdminInv, ChangesByAdmins, adminFiles
<1>1. ASSUME NEW f, EditAccounts(f) PROVE AdminInv'
  BY <1>1 DEF EditAccounts
<1>2. CASE StartAdminServer
  BY <1>2 DEF StartAdminServer, SetupToken
<1>3. CASE StopServer
  BY <1>3 DEF StopServer
<1>4. CASE ClockTicks
  BY <1>4 DEF ClockTicks
<1>5. ASSUME NEW c \in Clients, LoginLimited(c) \/ LoginUnavailable(c) PROVE AdminInv'
  BY <1>5 DEF LoginLimited, LoginUnavailable
<1>6. ASSUME NEW c \in Clients, NEW u \in Users, LoginRefused(c, u) PROVE AdminInv'
  BY <1>6 DEF LoginRefused
<1>7. ASSUME NEW c \in Clients, NEW u \in Users, LoginAccepted(c, u) PROVE AdminInv'
  BY <1>7 DEF LoginAccepted, Called
<1>8. ASSUME NEW c \in Clients, NEW op \in Ops, NEW t \in tokens, Admitted(c, op, t)
      PROVE  AdminInv'
  BY <1>8 DEF Admitted, ValidToken, MayPerform, Ops, Changes, IsGet
<1>9. ASSUME NEW c \in Clients, NEW op \in Ops, NEW t \in tokens, NotAdmitted(c, op, t)
      PROVE  AdminInv'
  BY <1>9 DEF NotAdmitted
<1>10. ASSUME NEW c \in Clients, Perform(c) PROVE AdminInv'
  BY <1>10 DEF Perform
<1>11. ASSUME NEW k \in Consoles, NEW t \in tokens, OpenConsole(k, t) PROVE AdminInv'
  BY <1>11 DEF OpenConsole
<1>12. ASSUME NEW k \in Consoles, ConsoleReceives(k) \/ CloseConsole(k) PROVE AdminInv'
  BY <1>12 DEF ConsoleReceives, CloseConsole
<1>13. CASE UNCHANGED adminVars
  BY <1>13 DEF adminVars
<1> QED
  BY <1>1, <1>2, <1>3, <1>4, <1>5, <1>6, <1>7, <1>8, <1>9, <1>10, <1>11, <1>12, <1>13
  DEF AdminNext

(* Every change goes back to a token the server gave out and checked before   *)
(* its end, to an administrator of a registry it had loaded or printed at a   *)
(* start (admin.rs, auth_middleware, print_setup_token): for any number of    *)
(* users, clients, restarts and edits of the file.                            *)
THEOREM OnlyAdminsChange == AdminSpec => []ChangesByAdmins
<1>1. AdminInv => ChangesByAdmins
  BY DEF AdminInv
<1> QED
  BY AdminInitInv, AdminStep, <1>1, PTL DEF AdminSpec

-----------------------------------------------------------------------------
(* Types of the server process and the backups.                               *)

LifeSessions ==
  /\ listener \in {"plain", "tls"} /\ proc \in {"starting", "refused", "serving", "draining", "ending", "exited"}
  /\ there \subseteq Conns /\ sess \in [Conns -> SessStates]
LifeFlags == (psk \in BOOLEAN) /\ (jwt \in BOOLEAN) /\ (timeUp \in BOOLEAN)
LifeStops ==
  \/ stop = TRUE /\ proc \in {"draining", "ending", "exited"}
  \/ stop = FALSE /\ proc \notin {"draining", "ending", "exited"}

LEMMA LifeTypesStep == LifeSessions /\ [LifeNext]_lifeVars => LifeSessions'
<1> SUFFICES ASSUME LifeSessions, [LifeNext]_lifeVars PROVE LifeSessions'
  OBVIOUS
<1> USE DEF LifeSessions
<1>1. CASE StartServer \/ CtrlC \/ LifeStep \/ UNCHANGED lifeVars
  BY <1>1 DEF StartServer, CtrlC, LifeStep, Deadline, Drain250ms, ExitServer, Counted, lifeVars
<1>2. ASSUME NEW c \in Conns, SessStep(c) PROVE LifeSessions'
  <2>1. UNCHANGED lifeVars \/ \E next \in SessStates : sess' = [sess EXCEPT ![c] = next] /\ UNCHANGED procVars
    BY <1>2 DEF SessStep, AcceptConn, BeginSession, AnswerPsk, RoomMessage, RelayMessage, Hangup, CleanUp, Goes, SessStates
  <2> QED
    BY <2>1 DEF lifeVars, procVars
<1> QED
  BY <1>1, <1>2 DEF LifeNext

LEMMA LifeFlagsStep ==
  ASSUME [LifeNext]_lifeVars
  PROVE  /\ UNCHANGED <<psk, jwt>> /\ (UNCHANGED timeUp \/ timeUp' = TRUE)
         /\ LifeStops => LifeStops'
<1>1. ASSUME NEW c \in Conns, SessStep(c) PROVE UNCHANGED procVars
  BY <1>1 DEF SessStep, AcceptConn, BeginSession, AnswerPsk, RoomMessage, RelayMessage, Hangup, CleanUp, Goes, lifeVars, procVars
<1>2. CASE UNCHANGED procVars \/ UNCHANGED lifeVars
  BY <1>2 DEF procVars, lifeVars, LifeStops
<1>3. CASE StartServer \/ CtrlC \/ LifeStep
  BY <1>3 DEF StartServer, CtrlC, LifeStep, Deadline, Drain250ms, ExitServer, LifeStops
<1> QED
  BY <1>1, <1>2, <1>3 DEF LifeNext

(* The server process and its sessions keep their types; the shutdown watch   *)
(* says what the process does (main.rs).                                      *)
THEOREM LifeKeepsTypes == LifeSpec => []LifeTypeOK
<1>1. LifeInit => LifeSessions
  BY DEF LifeInit, LifeSessions, SessStates
<1>6. LifeInit => LifeStops
  BY DEF LifeInit, LifeStops
<1>7. LifeStops => stop = (proc \in {"draining", "ending", "exited"})
  <2> SUFFICES ASSUME LifeStops PROVE stop = (proc \in {"draining", "ending", "exited"})
    OBVIOUS
  <2>1. stop \in BOOLEAN
    BY DEF LifeStops
  <2>2. stop <=> proc \in {"draining", "ending", "exited"}
    BY DEF LifeStops
  <2> QED
    BY <2>1, <2>2
<1>2. LifeInit => LifeFlags
  BY DEF LifeInit, LifeFlags
<1>3. LifeFlags /\ [LifeNext]_lifeVars => LifeFlags'
  BY LifeFlagsStep DEF LifeFlags
<1>4. LifeStops /\ [LifeNext]_lifeVars => LifeStops'
  BY LifeFlagsStep
<1>5. LifeSessions /\ LifeFlags /\ LifeStops => LifeTypeOK
  BY <1>7 DEF LifeSessions, LifeFlags, LifeTypeOK
<1> QED
  BY LifeTypesStep, <1>1, <1>2, <1>3, <1>4, <1>5, <1>6, PTL DEF LifeSpec

SaverSteps == {"idle", "open", "write", "rename"}
Snapshots == [snap : 0 .. snaps, whole : BOOLEAN]
BackupFiles ==
  /\ snaps \in 0 .. MaxSnaps /\ savedLast \in 0 .. snaps
  /\ saver \in [Savers -> [step : SaverSteps, snap : 0 .. snaps]]
  /\ backupTmp \in Snapshots \cup {NoFile} /\ backupFile \in Snapshots \cup {NoFile}
  /\ loaded \in (0 .. snaps) \cup {Damaged}
BackupAge == age \in 0 .. MaxAge
BackupFlags == (running \in BOOLEAN) /\ (deletedLast \in BOOLEAN)

LEMMA BackupFilesStep == BackupFiles /\ [BackupNext]_backupVars => BackupFiles'
<1> SUFFICES ASSUME BackupFiles, [BackupNext]_backupVars PROVE BackupFiles'
  OBVIOUS
<1> USE DEF BackupFiles, backupDisk, SaverSteps
<1>0. MaxSnaps \in Nat /\ snaps \in Nat
  BY BackupAssumption
<1>1. ASSUME NEW w \in Savers, TakeSnapshot(w) PROVE BackupFiles'
  <2>1. /\ snaps' = snaps + 1 /\ snaps < MaxSnaps
        /\ saver' = [saver EXCEPT ![w] = [step |-> "open", snap |-> snaps']]
        /\ UNCHANGED <<savedLast, backupTmp, backupFile, loaded>>
    BY <1>1 DEF TakeSnapshot
  <2>2. snaps' \in 0 .. MaxSnaps /\ 0 .. snaps \subseteq 0 .. snaps' /\ snaps' \in 0 .. snaps'
    BY <1>0, <2>1
  <2>3. savedLast' \in 0 .. snaps' /\ loaded' \in (0 .. snaps') \cup {Damaged}
    BY <2>1, <2>2
  <2>4. Snapshots \subseteq Snapshots'
    BY <2>2 DEF Snapshots
  <2>5. saver \in [Savers -> [step : SaverSteps, snap : 0 .. snaps']]
    BY <2>2
  <2>6. saver' \in [Savers -> [step : SaverSteps, snap : 0 .. snaps']]
    BY <2>1, <2>2, <2>5
  <2> QED
    BY <2>1, <2>2, <2>3, <2>4, <2>6
<1>2. ASSUME NEW w \in Savers, NEW to \in SaverSteps, SaverGoes(w, to), UNCHANGED snaps
      PROVE  saver' \in [Savers -> [step : SaverSteps, snap : 0 .. snaps']]
  BY <1>2 DEF SaverGoes
<1>3. ASSUME NEW w \in Savers, OpenTmp(w) \/ WriteTmp(w) PROVE BackupFiles'
  <2>1. saver[w].snap \in 0 .. snaps
    OBVIOUS
  <2>2. Part(saver[w].snap) \in Snapshots /\ Whole(saver[w].snap) \in Snapshots
    BY <2>1 DEF Part, Whole, Snapshots
  <2>3. /\ UNCHANGED <<snaps, savedLast, backupFile, loaded>> /\ backupTmp' \in Snapshots
        /\ \E to \in SaverSteps : SaverGoes(w, to)
    BY <1>3, <2>2 DEF OpenTmp, WriteTmp
  <2> QED
    BY <1>2, <2>3 DEF Snapshots
<1>4. ASSUME NEW w \in Savers, RenameTmp(w) PROVE BackupFiles'
  <2>1. /\ UNCHANGED <<snaps, loaded>> /\ SaverGoes(w, "idle") /\ backupFile' = backupTmp /\ backupTmp' = NoFile
        /\ savedLast' = saver[w].snap
    BY <1>4 DEF RenameTmp
  <2>2. saver[w].snap \in 0 .. snaps
    OBVIOUS
  <2> QED
    BY <1>2, <2>1, <2>2 DEF Snapshots
<1>5. ASSUME NEW w \in Savers, SaveFails(w) PROVE BackupFiles'
  BY <1>2, <1>5 DEF SaveFails, Snapshots
<1>6. CASE DeleteBackup \/ TimePasses \/ UNCHANGED backupVars
  BY <1>6 DEF DeleteBackup, TimePasses, backupVars, Snapshots
<1>7. CASE ProcessDies
  <2>1. UNCHANGED <<snaps, savedLast, backupTmp, backupFile, loaded>> /\ saver' = [w \in Savers |-> SaverIdle]
    BY <1>7 DEF ProcessDies
  <2>2. SaverIdle \in [step : SaverSteps, snap : 0 .. snaps]
    BY <1>0 DEF SaverIdle
  <2> QED
    BY <2>1, <2>2 DEF Snapshots
<1>8. CASE StartAndLoad
  <2>1. LoadResult \in (0 .. snaps) \cup {Damaged}
    BY <1>0 DEF LoadResult, Nothing, Snapshots
  <2> QED
    BY <1>8, <2>1 DEF StartAndLoad, Snapshots
<1> QED
  BY <1>1, <1>3, <1>4, <1>5, <1>6, <1>7, <1>8 DEF BackupNext, SaveStep

(* The backup's files, its age and its savers keep their types, with any      *)
(* number of managers on the path (backup.rs).                                *)
THEOREM BackupKeepsTypes == BackupSpec => []BackupTypeOK
<1>1. BackupInit => BackupFiles /\ BackupAge
  BY BackupAssumption DEF BackupInit, BackupFiles, BackupAge, SaverIdle, Nothing, SaverSteps
<1>2. BackupInit => BackupFlags
  BY DEF BackupInit, BackupFlags
<1>3. BackupAge /\ [BackupNext]_backupVars => BackupAge'
  <2> SUFFICES ASSUME BackupAge, [BackupNext]_backupVars PROVE BackupAge'
    OBVIOUS
  <2>1. UNCHANGED age \/ age' = 0 \/ (age < MaxAge /\ age' = age + 1)
    BY DEF BackupNext, SaveStep, TakeSnapshot, OpenTmp, WriteTmp, RenameTmp, SaveFails, DeleteBackup, ProcessDies,
       TimePasses, StartAndLoad, backupDisk, backupVars
  <2> QED
    BY <2>1, BackupAssumption DEF BackupAge
<1>4. BackupFlags /\ [BackupNext]_backupVars => BackupFlags'
  <2> SUFFICES ASSUME BackupFlags, [BackupNext]_backupVars PROVE BackupFlags'
    OBVIOUS
  <2>1. /\ UNCHANGED running \/ running' = TRUE \/ running' = FALSE
        /\ UNCHANGED deletedLast \/ deletedLast' = TRUE \/ deletedLast' = FALSE
    BY DEF BackupNext, SaveStep, TakeSnapshot, OpenTmp, WriteTmp, RenameTmp, SaveFails, DeleteBackup, ProcessDies,
       TimePasses, StartAndLoad, backupVars
  <2> QED
    BY <2>1 DEF BackupFlags
<1>5. BackupFiles /\ BackupAge /\ BackupFlags => BackupTypeOK
  <2> SUFFICES ASSUME BackupFiles, BackupAge, BackupFlags PROVE BackupTypeOK
    OBVIOUS
  <2>1. \A w \in Savers : saver[w].step \in SaverSteps /\ saver[w].snap \in 0 .. snaps
    BY DEF BackupFiles
  <2>2. \A n \in 0 .. snaps : n <= snaps
    BY BackupAssumption DEF BackupFiles
  <2> QED
    BY <2>1, <2>2 DEF BackupFiles, BackupAge, BackupFlags, BackupTypeOK, SaverSteps
<1> QED
  BY BackupFilesStep, <1>1, <1>2, <1>3, <1>4, <1>5, PTL DEF BackupSpec

-----------------------------------------------------------------------------
(* What the administration interface keeps, and what its consoles receive.    *)

AdminEvents ==
  /\ events \in Seq(Nat) /\ \A i \in 1 .. Len(events) : events[i] = i
  /\ consoleAt \in [Consoles -> Int] /\ consoleGot \in [Consoles -> Seq(Int)]
  /\ \A k \in Consoles : consoleAt[k] \in Closed .. Len(events)

(* A console has received events in their order, none it has not come to.     *)
AdminHeard ==
  \A k \in Consoles : /\ Rises(consoleGot[k]) /\ Between(consoleGot[k], 0, consoleAt[k])
                      /\ consoleAt[k] = Closed => consoleGot[k] = <<>>

AdminConsoles == AdminEvents /\ AdminHeard

LEMMA ConsolesInit == AdminInit => AdminConsoles
<1> SUFFICES ASSUME AdminInit PROVE AdminConsoles
  OBVIOUS
<1>1. AdminEvents
  BY EmptyQueue DEF AdminInit, AdminEvents, Closed
<1>2. AdminHeard
  BY EmptyRises DEF AdminInit, AdminHeard
<1> QED
  BY <1>1, <1>2 DEF AdminConsoles

LEMMA ConsolesStep == AdminConsoles /\ [AdminNext]_adminVars => AdminConsoles'
<1> SUFFICES ASSUME AdminConsoles, [AdminNext]_adminVars PROVE AdminConsoles'
  OBVIOUS
<1>0. AdminEvents /\ AdminHeard /\ Len(events) \in Nat
  BY QueueDomain DEF AdminConsoles, AdminEvents
<1>1. CASE UNCHANGED <<events, consoleAt, consoleGot>>
  BY <1>0, <1>1 DEF AdminConsoles, AdminEvents, AdminHeard
<1>2. CASE StopServer
  <2>1. /\ events' = <<>> /\ consoleAt' = [k \in Consoles |-> Closed] /\ consoleGot' = [k \in Consoles |-> <<>>]
    BY <1>2 DEF StopServer
  <2>2. AdminEvents'
    BY <2>1, EmptyQueue DEF AdminEvents, Closed
  <2>3. AdminHeard'
    BY <2>1, EmptyRises DEF AdminHeard
  <2> QED
    BY <2>2, <2>3 DEF AdminConsoles
<1>3. CASE events' = Append(events, Len(events) + 1) /\ UNCHANGED adminConsoles
  <2>1. /\ events' \in Seq(Nat) /\ Len(events') = Len(events) + 1
        /\ \A i \in 1 .. Len(events) : events'[i] = events[i]
        /\ events'[Len(events) + 1] = Len(events) + 1
    BY <1>0, <1>3, AppendFacts DEF AdminEvents
  <2>2. \A i \in 1 .. Len(events') : i \in 1 .. Len(events) \/ i = Len(events) + 1
    BY <1>0, <2>1
  <2>3. \A i \in 1 .. Len(events') : events'[i] = i
    BY <1>0, <2>1, <2>2 DEF AdminEvents
  <2>4. \A k \in Consoles : consoleAt[k] \in Closed .. Len(events')
    BY <1>0, <2>1 DEF AdminEvents, Closed
  <2> QED
    BY <1>0, <1>3, <2>1, <2>3, <2>4 DEF AdminConsoles, AdminEvents, AdminHeard, adminConsoles
<1>4. ASSUME NEW k \in Consoles, NEW at \in Closed .. Len(events), UNCHANGED events,
             consoleAt' = [consoleAt EXCEPT ![k] = at], consoleGot' = [consoleGot EXCEPT ![k] = <<>>]
      PROVE  AdminConsoles'
  <2>1. at \in Int
    BY <1>0 DEF Closed
  <2>2. AdminEvents'
    BY <1>0, <1>4, <2>1, EmptyQueue DEF AdminEvents
  <2>3. AdminHeard'
    BY <1>0, <1>4, EmptyRises DEF AdminHeard, AdminEvents
  <2> QED
    BY <2>2, <2>3 DEF AdminConsoles
<1>5. ASSUME NEW k \in Consoles, ConsoleReceives(k) PROVE AdminConsoles'
  <2> DEFINE here == consoleAt[k]
             next == IF Len(events) - here > EventCap THEN Len(events) - EventCap ELSE here + 1
  <2>1. /\ here # Closed /\ here < Len(events) /\ UNCHANGED events
        /\ consoleAt' = [consoleAt EXCEPT ![k] = next]
        /\ consoleGot' = IF Len(events) - here > EventCap THEN consoleGot
                         ELSE [consoleGot EXCEPT ![k] = Append(@, events[next])]
    BY <1>5 DEF ConsoleReceives
  <2>2. /\ here \in Int /\ here \in Closed .. Len(events) /\ consoleGot[k] \in Seq(Int)
        /\ Rises(consoleGot[k]) /\ Between(consoleGot[k], 0, here)
    BY <1>0 DEF AdminEvents, AdminHeard
  <2>3. EventCap \in Nat \ {0}
    BY AdminApiAssumption
  <2>4. next \in Nat /\ here < next /\ next <= Len(events) /\ 0 < next
    BY <1>0, <2>1, <2>2, <2>3 DEF Closed
  <2>5. events[next] = next
    BY <1>0, <2>4 DEF AdminEvents
  <2>6. /\ Rises(consoleGot'[k]) /\ Between(consoleGot'[k], 0, next)
        /\ consoleGot' \in [Consoles -> Seq(Int)]
        /\ \A j \in Consoles : j # k => consoleGot'[j] = consoleGot[j]
    <3> HIDE DEF next
    <3>1. next \in Int /\ 0 \in Int /\ 0 <= 0 /\ here <= next
      BY <2>2, <2>4
    <3>2. CASE consoleGot' = consoleGot
      <4>1. Between(consoleGot[k], 0, next)
        BY <2>2, <3>1, BetweenWidens
      <4> QED
        BY <1>0, <2>2, <3>2, <4>1 DEF AdminEvents
    <3>3. CASE consoleGot' = [consoleGot EXCEPT ![k] = Append(@, events[next])]
      <4>1. consoleGot'[k] = Append(consoleGot[k], next)
        BY <1>0, <2>5, <3>3 DEF AdminEvents
      <4>2. Rises(Append(consoleGot[k], next)) /\ Between(Append(consoleGot[k], next), 0, next)
        BY <2>2, <2>4, <3>1, AppendRises
      <4>3. Append(consoleGot[k], next) \in Seq(Int)
        BY <2>2, <3>1, AppendFacts
      <4> QED
        BY <1>0, <2>5, <3>3, <4>1, <4>2, <4>3 DEF AdminEvents
    <3> QED
      BY <2>1, <3>2, <3>3
  <2>7. consoleAt' \in [Consoles -> Int] /\ consoleAt'[k] = next
        /\ \A j \in Consoles : j # k => consoleAt'[j] = consoleAt[j]
    <3> HIDE DEF next
    <3> QED
      BY <1>0, <2>1, <2>4 DEF AdminEvents
  <2>8. next \in Closed .. Len(events) /\ next # Closed
    <3> HIDE DEF next
    <3> QED
      BY <1>0, <2>4 DEF Closed
  <2>9. AdminEvents'
    <3> HIDE DEF next
    <3> QED
      BY <1>0, <2>1, <2>6, <2>7, <2>8 DEF AdminEvents
  <2>10. AdminHeard'
    <3> HIDE DEF next
    <3> QED
      BY <1>0, <2>6, <2>7, <2>8 DEF AdminHeard
  <2> QED
    BY <2>9, <2>10 DEF AdminConsoles
<1>6. ASSUME NEW k \in Consoles, NEW t \in tokens, OpenConsole(k, t) PROVE AdminConsoles'
  <2>1. Len(events) \in Closed .. Len(events)
    BY <1>0 DEF Closed
  <2> QED
    BY <1>4, <1>6, <2>1 DEF OpenConsole
<1>7. ASSUME NEW k \in Consoles, CloseConsole(k) PROVE AdminConsoles'
  <2>1. Closed \in Closed .. Len(events)
    BY <1>0 DEF Closed
  <2> QED
    BY <1>4, <1>7, <2>1 DEF CloseConsole
<1>8. ASSUME NEW c \in Clients, Perform(c) PROVE AdminConsoles'
  BY <1>1, <1>3, <1>8 DEF Perform, adminConsoles
<1>9. ASSUME \/ \E f : EditAccounts(f)
             \/ StartAdminServer \/ ClockTicks \/ \E c : LoginLimited(c) \/ LoginUnavailable(c)
             \/ \E c, u : LoginRefused(c, u) \/ LoginAccepted(c, u)
             \/ \E c, op, t : Admitted(c, op, t) \/ NotAdmitted(c, op, t)
             \/ UNCHANGED adminVars
      PROVE  AdminConsoles'
  BY <1>1, <1>9 DEF EditAccounts, StartAdminServer, ClockTicks, LoginLimited, LoginUnavailable, LoginRefused,
     LoginAccepted, Admitted, NotAdmitted, adminVars, adminConsoles
<1> QED
  BY <1>2, <1>5, <1>6, <1>7, <1>8, <1>9 DEF AdminNext

(* Every console hears the events in order and once: for any number of        *)
(* consoles, callers, lags and restarts of the server.                        *)
THEOREM ConsolesHearInOrder == AdminSpec => []ConsolesInOrder
<1>1. AdminConsoles => ConsolesInOrder
  BY DEF AdminConsoles, AdminHeard, ConsolesInOrder, Rises, Between
<1> QED
  BY ConsolesInit, ConsolesStep, <1>1, PTL DEF AdminSpec

-----------------------------------------------------------------------------
AuditEntries == {"auth_failure", "auth_success", "authorization_denied"} \X (Users \cup {Bootstrap})

AdminState ==
  /\ accountFile \in AccountFiles \/ accountFile = [u \in Users |-> DamagedFile]
  /\ accounts \in AccountFiles
  /\ clock \in 0 .. MaxTime /\ loginTokens \in 0 .. LoginBurst
  /\ \A t \in tokens : t.user \in Users \cup {Bootstrap} /\ t.role \in CockpitRoles
  /\ auditRing \in Seq(AuditEntries) /\ Len(auditRing) <= AuditCap

AdminCalls == calls = [c \in Clients |-> calls[c]] /\ \A c \in Clients : calls[c] = NoCall \/ calls[c].op \in Ops

LEMMA AuditKept ==
  ASSUME NEW kind \in {"auth_failure", "auth_success", "authorization_denied"}, NEW who \in Users \cup {Bootstrap},
         auditRing \in Seq(AuditEntries), Len(auditRing) <= AuditCap, LogEvent(kind, who)
  PROVE  auditRing' \in Seq(AuditEntries) /\ Len(auditRing') <= AuditCap
<1> DEFINE all == Append(auditRing, <<kind, who>>)
<1>1. <<kind, who>> \in AuditEntries
  BY DEF AuditEntries
<1>2. all \in Seq(AuditEntries) /\ Len(all) = Len(auditRing) + 1 /\ Len(auditRing) \in Nat /\ all # <<>>
  BY <1>1, AppendFacts
<1>3. auditRing' = IF Len(all) > AuditCap THEN Tail(all) ELSE all
  BY DEF LogEvent
<1> HIDE DEF all
<1>4. Tail(all) \in Seq(AuditEntries) /\ Len(Tail(all)) = Len(all) - 1
  BY <1>2, TailFacts
<1>5. AuditCap \in Nat
  BY AdminApiAssumption
<1> QED
  BY <1>2, <1>3, <1>4, <1>5

LEMMA AdminCallsKept ==
  /\ AdminInit => AdminCalls
  /\ AdminCalls /\ [AdminNext]_adminVars => AdminCalls'
<1>1. AdminInit => AdminCalls
  BY DEF AdminInit, AdminCalls
<1>2. ASSUME AdminCalls, [AdminNext]_adminVars PROVE AdminCalls'
  <2>1. \/ UNCHANGED calls \/ calls' = [c \in Clients |-> NoCall]
        \/ \E c \in Clients : calls' = [calls EXCEPT ![c] = NoCall]
        \/ \E c \in Clients, op \in Ops, t \in tokens : calls' = [calls EXCEPT ![c] = [op |-> op, tok |-> t, at |-> clock]]
    BY <1>2 DEF AdminNext, EditAccounts, StartAdminServer, StopServer, ClockTicks, LoginLimited, LoginUnavailable,
       LoginRefused, LoginAccepted, Admitted, NotAdmitted, Perform, OpenConsole, ConsoleReceives, CloseConsole,
       adminVars
  <2> QED
    BY <1>2, <2>1 DEF AdminCalls
<1> QED
  BY <1>1, <1>2

LEMMA AdminStateKept ==
  /\ AdminInit => AdminState
  /\ AdminState /\ [AdminNext]_adminVars => AdminState'
<1>1. ASSUME AdminInit PROVE AdminState
  <2>1. Nobody \in AccountFiles
    BY DEF Nobody, AccountFiles
  <2>2. MaxTime \in Nat /\ LoginBurst \in Nat /\ AuditCap \in Nat
    BY AdminApiAssumption
  <2> QED
    BY <1>1, <2>1, <2>2, EmptyQueue DEF AdminInit, AdminState
<1>2. ASSUME AdminState, [AdminNext]_adminVars PROVE AdminState'
  <2> DEFINE Limited == loginTokens' = loginTokens \/ (loginTokens > 0 /\ loginTokens' = loginTokens - 1)
             AccountsStay == UNCHANGED <<accountFile, accounts, clock>>
  <2>0. MaxTime \in Nat /\ LoginBurst \in Nat /\ loginTokens \in Nat /\ clock \in Nat
    BY <1>2, AdminApiAssumption DEF AdminState
  <2>1. ASSUME AccountsStay, Limited, UNCHANGED <<tokens, auditRing>> PROVE AdminState'
    BY <1>2, <2>0, <2>1 DEF AdminState
  <2>2. ASSUME NEW f \in AccountFiles \cup {[u \in Users |-> DamagedFile]}, EditAccounts(f) PROVE AdminState'
    BY <1>2, <2>2 DEF EditAccounts, AdminState
  <2>3. CASE StartAdminServer
    <3>1. SetupToken.user = Bootstrap /\ SetupToken.role \in CockpitRoles
      BY DEF SetupToken, CockpitRoles
    <3>2. \A t \in tokens' : t.user \in Users \cup {Bootstrap} /\ t.role \in CockpitRoles
      BY <1>2, <2>3, <3>1 DEF StartAdminServer, AdminState
    <3>3. accounts' \in AccountFiles /\ loginTokens' \in 0 .. LoginBurst
      BY <1>2, <2>0, <2>3 DEF StartAdminServer, AdminState
    <3> QED
      BY <1>2, <2>3, <3>2, <3>3 DEF StartAdminServer, AdminState
  <2>4. CASE StopServer
    <3>1. /\ auditRing' = <<>> /\ UNCHANGED <<accountFile, accounts, clock, loginTokens, tokens>>
      BY <2>4 DEF StopServer
    <3>2. AuditCap \in Nat
      BY AdminApiAssumption
    <3> QED
      BY <1>2, <3>1, <3>2, EmptyQueue DEF AdminState
  <2>5. CASE ClockTicks
    <3>1. clock' \in 0 .. MaxTime /\ loginTokens' \in 0 .. LoginBurst
      BY <1>2, <2>0, <2>5 DEF ClockTicks, AdminState
    <3> QED
      BY <1>2, <2>5, <3>1 DEF ClockTicks, AdminState, adminFiles
  <2>6. ASSUME NEW u \in Users \cup {Bootstrap}, NEW kind \in {"auth_failure", "auth_success", "authorization_denied"},
               LogEvent(kind, u), AccountsStay, Limited, UNCHANGED tokens
        PROVE  AdminState'
    <3>1. auditRing' \in Seq(AuditEntries) /\ Len(auditRing') <= AuditCap
      BY <1>2, <2>6, AuditKept DEF AdminState
    <3>2. loginTokens' \in 0 .. LoginBurst
      BY <1>2, <2>0, <2>6 DEF AdminState
    <3> QED
      BY <1>2, <2>6, <3>1, <3>2 DEF AdminState
  <2>7. ASSUME NEW c \in Clients, NEW u \in Users, LoginAccepted(c, u) PROVE AdminState'
    <3>1. /\ LogEvent("auth_success", u) /\ AccountsStay /\ Limited /\ accounts[u] # NoAccount
          /\ tokens' = tokens \cup {[user |-> u, role |-> accounts[u], exp |-> clock + TokenLife]}
      BY <2>7 DEF LoginAccepted, adminFiles
    <3>2. auditRing' \in Seq(AuditEntries) /\ Len(auditRing') <= AuditCap
      BY <1>2, <3>1, AuditKept DEF AdminState
    <3>3. accounts[u] \in CockpitRoles
      BY <1>2, <3>1 DEF AdminState, AccountFiles, CockpitRoles, NoAccount
    <3>4. \A t \in tokens' : t.user \in Users \cup {Bootstrap} /\ t.role \in CockpitRoles
      BY <1>2, <3>1, <3>3 DEF AdminState
    <3>5. loginTokens' \in 0 .. LoginBurst
      BY <1>2, <2>0, <3>1 DEF AdminState
    <3> QED
      BY <1>2, <3>1, <3>2, <3>4, <3>5 DEF AdminState
  <2>8. ASSUME NEW c \in Clients, NEW u \in Users, LoginRefused(c, u) PROVE AdminState'
    BY <2>6, <2>8 DEF LoginRefused, adminFiles
  <2>9. ASSUME NEW c \in Clients, NEW op \in Ops, NEW t \in tokens, NotAdmitted(c, op, t) PROVE AdminState'
    <3>1. t.user \in Users \cup {Bootstrap}
      BY <1>2 DEF AdminState
    <3> QED
      BY <2>1, <2>6, <2>9, <3>1 DEF NotAdmitted, adminFiles
  <2>10. ASSUME NEW c \in Clients, LoginLimited(c) \/ LoginUnavailable(c) \/ Perform(c) PROVE AdminState'
    BY <2>1, <2>10 DEF LoginLimited, LoginUnavailable, Perform, adminFiles
  <2>11. ASSUME \/ \E c, op, t : Admitted(c, op, t)
                \/ \E k, t : OpenConsole(k, t)
                \/ \E k : ConsoleReceives(k) \/ CloseConsole(k)
                \/ UNCHANGED adminVars
         PROVE  AdminState'
    BY <2>1, <2>11 DEF Admitted, OpenConsole, ConsoleReceives, CloseConsole, adminFiles, adminVars
  <2> QED
    BY <1>2, <2>2, <2>3, <2>4, <2>5, <2>7, <2>8, <2>9, <2>10, <2>11 DEF AdminNext
<1> QED
  BY <1>1, <1>2

(* The administration interface keeps its types: the audit ring stays within  *)
(* its bound and every token names a role that can sign in.                   *)
THEOREM AdminKeepsTypes == AdminSpec => []AdminTypeOK
<1>1. AdminConsoles /\ AdminState /\ AdminCalls => AdminTypeOK
  BY DEF AdminConsoles, AdminEvents, AdminState, AdminCalls, AdminTypeOK
<1> QED
  BY ConsolesInit, ConsolesStep, AdminStateKept, AdminCallsKept, <1>1, PTL DEF AdminSpec

-----------------------------------------------------------------------------
(* Whose answer a field session takes.                                        *)

Answers == {"created", "connected", "produced", "consumed", "refused"}
Wanting == Producers \cup {NoProducer}
Numbered(kinds) == [kind : kinds, try : 1 .. MaxTries, producer : Wanting]
Stray == [kind : {"other"} \cup SessionLosses, try : {0}, producer : {NoProducer}]
Heard == Numbered(Answers) \cup Stray

FieldQueues == wire \in Seq(Numbered(Requests)) /\ back \in Seq(Heard) /\ receiver \in Seq(Heard)
FieldCalls ==
  /\ role \in {"push", "pull"} /\ doing \in {"idle", "transport", "consumed", "done"}
  /\ try \in 0 .. MaxTries /\ wanted \in Wanting /\ (doing # "idle" => try # 0)
  /\ role = "push" => doing # "consumed" /\ wanted = NoProducer

(* Undisturbed: what is under way is for this call, and nothing is when there *)
(* is none.                                                                   *)
ForThis(m) == m.try \in {0, try} /\ (m.kind \in {"consume", "consumed"} => m.producer = wanted)
FieldAgrees ==
  ~disturbed =>
    /\ doing = "idle" => \A m \in Range(wire) \cup Range(back) : m.try = 0
    /\ doing \in {"transport", "consumed"} => \A m \in Range(wire) \cup Range(back) \cup Range(receiver) : ForThis(m)
    /\ doing = "consumed" => transport = try
    /\ doing = "done" => bound = [transport |-> try, consumer |-> wanted]

(* No message is numbered past the call under way.                            *)
FieldNumbers == \A m \in Range(wire) \cup Range(back) \cup Range(receiver) : m.try <= try

FieldInv == FieldQueues /\ FieldCalls /\ FieldNumbers /\ FieldAgrees

LEMMA AwaitedRange == ASSUME FieldQueues PROVE AwaitedBy = {m \in Range(wire) \cup Range(back) : m.try = try}
BY DEF AwaitedBy, Range

LEMMA AnswerKind ==
  ASSUME NEW r \in Numbered(Requests), NEW k \in Answers, k = "refused" \/ k = AnswerOf(r.kind)
  PROVE  /\ [r EXCEPT !.kind = k] \in Numbered(Answers) /\ [r EXCEPT !.kind = k].kind = k
         /\ [r EXCEPT !.kind = k].try = r.try /\ [r EXCEPT !.kind = k].producer = r.producer
         /\ k = "consumed" => r.kind = "consume"
BY DEF Numbered, Requests, Answers, AnswerOf

LEMMA HearsSome ==
  ASSUME FieldQueues, NEW e \in Heard, Hear(e)
  PROVE  receiver' \in Seq(Heard) /\ Range(receiver') \subseteq Range(receiver) \cup {e}
<1>1. CASE UNCHANGED receiver
  BY <1>1 DEF FieldQueues
<1>2. CASE receiver' = Append(receiver, e)
  BY <1>2, AppendFacts, AppendRange DEF FieldQueues
<1>3. CASE receiver' = Append(Tail(receiver), e) /\ ~(Len(receiver) < EventsKept)
  <2>1. receiver # <<>>
    BY <1>3, FieldAssumption, EmptyQueue
  <2>2. Tail(receiver) \in Seq(Heard) /\ Range(Tail(receiver)) \subseteq Range(receiver)
    BY <2>1, TailFacts, TailRange DEF FieldQueues
  <2> DEFINE t == Tail(receiver)
  <2> HIDE DEF t
  <2>4. t \in Seq(Heard)
    BY <2>2 DEF t
  <2>3. Append(t, e) \in Seq(Heard) /\ Range(Append(t, e)) = Range(t) \cup {e}
    BY <2>4, AppendFacts, AppendRange
  <2> QED
    BY <1>3, <2>2, <2>3 DEF t
<1> QED
  BY <1>1, <1>2, <1>3 DEF Hear

LEMMA HeadTaken ==
  ASSUME FieldQueues, NEW k, Take(k)
  PROVE  /\ receiver # <<>> /\ Head(receiver) \in Heard /\ Head(receiver) \in Range(receiver)
         /\ Head(receiver).kind = k
         /\ Tail(receiver) \in Seq(Heard) /\ Range(Tail(receiver)) \subseteq Range(receiver)
BY TailFacts, TailRange DEF FieldQueues, Take

LEMMA GaveUp ==
  ASSUME FieldInv, GiveUpCall, UNCHANGED Rest, doing \in {"transport", "consumed"}
  PROVE  FieldInv'
<1>1. /\ doing' = "idle" /\ receiver' = <<>> /\ disturbed' = (disturbed \/ AwaitedBy # {})
      /\ UNCHANGED <<wire, bound, role, try, wanted, signal, back, refusals, others>>
  BY DEF GiveUpCall, Rest
<1>2. FieldQueues' /\ FieldCalls'
  BY <1>1 DEF FieldInv, FieldQueues, FieldCalls
<1>4. FieldNumbers'
  <2>1. Range(<<>>) = {}
    BY EmptyQueue DEF Range
  <2> QED
    BY <1>1, <2>1 DEF FieldInv, FieldNumbers
<1>3. ASSUME ~disturbed', NEW m \in Range(wire) \cup Range(back) PROVE m.try = 0
  <2>1. ~disturbed /\ AwaitedBy = {}
    BY <1>1, <1>3
  <2>2. m.try \in {0, try}
    BY <2>1 DEF FieldInv, FieldAgrees, ForThis
  <2> QED
    BY <2>1, <2>2, AwaitedRange DEF FieldInv
<1> QED
  BY <1>1, <1>2, <1>3, <1>4 DEF FieldInv, FieldAgrees

LEMMA FieldStepInv ==
  ASSUME FieldInv, [FieldNext]_fieldVars PROVE FieldInv'
<1> USE DEF FieldInv
<1>0. MaxTries \in Nat /\ try \in Nat
  BY FieldAssumption DEF FieldCalls
<1>01. \A m \in Range(wire) \cup Range(back) \cup Range(receiver) : m.try \in Nat
  <2>1. \A m \in Numbered(Requests) \cup Heard : m.try \in Nat
    BY DEF Numbered, Heard, Stray
  <2> QED
    BY <2>1, RangeOfQueue DEF FieldQueues
<1>02. Range(<<>>) = {}
  BY EmptyQueue DEF Range
<1>1. CASE UNCHANGED fieldVars
  BY <1>1 DEF fieldVars, FieldQueues, FieldCalls, FieldNumbers, FieldAgrees, ForThis
<1>2. CASE Call
  <2>1. /\ doing = "idle" /\ try < MaxTries /\ try' = try + 1 /\ receiver' = <<>>
        /\ wanted' \in IF role = "pull" THEN Producers ELSE {NoProducer}
        /\ UNCHANGED <<role, signal, back, bound, disturbed, refusals, others>>
    BY <1>2 DEF Call
  <2>2. try' \in 1 .. MaxTries
    BY <1>0, <2>1
  <2>5. \A m \in Range(wire) \cup Range(back) : m.try <= try'
    BY <1>0, <1>01, <2>1 DEF FieldNumbers
  <2>3. CASE UNCHANGED <<doing, wire>>
    BY <1>02, <2>1, <2>2, <2>3, <2>5 DEF FieldQueues, FieldCalls, FieldNumbers, FieldAgrees, Wanting
  <2>4. CASE doing' = "transport" /\ wire' = Append(wire, Msg("create", try', NoProducer))
    <3> DEFINE m == Msg("create", try', NoProducer)
    <3>1. m \in Numbered(Requests) /\ m.try = try' /\ m.kind = "create"
      BY <2>2 DEF Msg, Numbered, Requests, Wanting
    <3> HIDE DEF m
    <3>2. wire' \in Seq(Numbered(Requests)) /\ Range(wire') = Range(wire) \cup {m}
      BY <2>4, <3>1, AppendFacts, AppendRange DEF FieldQueues, m
    <3>3. FieldQueues' /\ FieldCalls'
      BY <2>1, <2>2, <2>4, <3>2 DEF FieldQueues, FieldCalls, Wanting
    <3>4. Range(receiver') = {}
      BY <2>1, EmptyQueue DEF Range
    <3>5. ASSUME ~disturbed', NEW x \in Range(wire') \cup Range(back') \cup Range(receiver') PROVE ForThis(x)'
      <4>1. CASE x = m
        BY <3>1, <4>1 DEF ForThis
      <4>2. CASE x \in Range(wire) \cup Range(back)
        <5>1. x.try = 0
          BY <2>1, <3>5, <4>2 DEF FieldAgrees
        <5>2. x \in Numbered(Requests) \/ x \in Heard
          BY <4>2, RangeOfQueue DEF FieldQueues
        <5>3. x.kind \notin {"consume", "consumed"}
          BY <5>1, <5>2, FieldAssumption DEF Numbered, Heard, Stray
        <5> QED
          BY <5>1, <5>3 DEF ForThis
      <4> QED
        BY <2>1, <3>2, <3>4, <3>5, <4>1, <4>2
    <3>6. FieldNumbers'
      BY <1>0, <2>1, <2>5, <3>1, <3>2, <3>4 DEF FieldNumbers
    <3> QED
      BY <2>4, <3>3, <3>5, <3>6 DEF FieldAgrees
  <2> QED
    BY <1>2, <2>3, <2>4 DEF Call
<1>3. CASE Lagged \/ Refused
  BY <1>3, GaveUp DEF Lagged, Refused
<1>4. CASE TransportCreated
  <2>1. doing = "transport" /\ Take("created") /\ UNCHANGED Rest
    BY <1>4 DEF TransportCreated
  <2>2. CASE GiveUpCall
    BY <2>1, <2>2, GaveUp
  <2> DEFINE h == Head(receiver)
  <2>3. /\ h \in Heard /\ h \in Range(receiver) /\ h.kind = "created"
        /\ Tail(receiver) \in Seq(Heard) /\ Range(Tail(receiver)) \subseteq Range(receiver)
    BY <2>1, HeadTaken
  <2>4. h.try \in 1 .. MaxTries
    BY <2>3, FieldAssumption DEF Heard, Numbered, Stray
  <2>5. ~disturbed => h.try = try
    BY <1>0, <2>1, <2>3, <2>4 DEF FieldAgrees, ForThis
  <2>6. try \in 1 .. MaxTries
    BY <1>0, <2>1 DEF FieldCalls
  <2> HIDE DEF h
  <2>7. CASE /\ role = "push" /\ wire' = wire \o <<Msg("connect", try, NoProducer), Msg("produce", try, NoProducer)>>
             /\ bound' = [transport |-> h.try, consumer |-> NoProducer]
             /\ doing' = "done" /\ receiver' = <<>> /\ UNCHANGED <<lagged, disturbed>>
    <3>1. FieldCalls'
      BY <2>1, <2>6, <2>7 DEF FieldCalls, Rest
    <3>2. FieldAgrees'
      BY <2>1, <2>5, <2>7 DEF FieldAgrees, FieldCalls, Rest
    <3>3. FieldQueues'
      <4> DEFINE a == Msg("connect", try, NoProducer)
                 b == Msg("produce", try, NoProducer)
                 S == Numbered(Requests)
      <4>1. a \in S /\ b \in S
        BY <2>6 DEF Msg, Numbered, Requests, Wanting
      <4> HIDE DEF a, b, S
      <4>2. <<a, b>> \in Seq(S)
        BY <4>1
      <4>3. wire \in Seq(S)
        BY DEF FieldQueues, S
      <4>4. wire \o <<a, b>> \in Seq(S)
        BY <4>2, <4>3, ConcatProperties
      <4> QED
        BY <2>1, <2>7, <4>4 DEF FieldQueues, Rest, a, b, S
    <3>4. FieldNumbers'
      <4> DEFINE a == Msg("connect", try, NoProducer)
                 b == Msg("produce", try, NoProducer)
                 S == Numbered(Requests)
      <4>1. a \in S /\ b \in S /\ a.try = try /\ b.try = try
        BY <2>6 DEF Msg, Numbered, Requests, Wanting
      <4> HIDE DEF a, b, S
      <4>2. wire' = Append(Append(wire, a), b)
        BY <2>7, <4>1 DEF FieldQueues, S, a, b
      <4>3. Append(wire, a) \in Seq(S) /\ Range(Append(wire, a)) = Range(wire) \cup {a}
        BY <4>1, AppendFacts, AppendRange DEF FieldQueues, S
      <4>4. Range(wire') = Range(wire) \cup {a, b}
        <5> DEFINE c == Append(wire, a)
        <5> HIDE DEF c
        <5>1. c \in Seq(S) /\ wire' = Append(c, b) /\ Range(c) = Range(wire) \cup {a}
          BY <4>2, <4>3 DEF c
        <5>2. Range(wire') = Range(c) \cup {b}
          BY <4>1, <5>1, AppendRange
        <5> QED
          BY <5>1, <5>2
      <4> QED
        BY <1>0, <1>02, <2>1, <2>7, <4>1, <4>4 DEF FieldNumbers, Rest
    <3> QED
      BY <3>1, <3>2, <3>3, <3>4
  <2>8. CASE /\ role = "pull" /\ wire' = Append(wire, Msg("consume", try, wanted))
             /\ transport' = h.try
             /\ doing' = "consumed" /\ receiver' = Tail(receiver) /\ UNCHANGED <<bound, lagged, disturbed>>
    <3> DEFINE m == Msg("consume", try, wanted)
    <3>1. m \in Numbered(Requests) /\ m.try = try /\ m.producer = wanted
      BY <2>6 DEF Msg, Numbered, Requests, FieldCalls
    <3> HIDE DEF m
    <3>2. wire' \in Seq(Numbered(Requests)) /\ Range(wire') = Range(wire) \cup {m}
      BY <2>8, <3>1, AppendFacts, AppendRange DEF FieldQueues, m
    <3>3. receiver' \in Seq(Heard) /\ Range(receiver') \subseteq Range(receiver)
      BY <2>3, <2>8
    <3>4. FieldQueues'
      BY <2>1, <3>2, <3>3 DEF FieldQueues, Rest
    <3>5. FieldCalls'
      BY <2>1, <2>6, <2>8 DEF FieldCalls, Rest
    <3>6. ASSUME ~disturbed', NEW x \in Range(wire') \cup Range(back') \cup Range(receiver') PROVE ForThis(x)'
      <4>1. CASE x = m
        BY <2>1, <3>1, <4>1 DEF ForThis, Rest
      <4>2. CASE x \in Range(wire) \cup Range(back) \cup Range(receiver)
        BY <2>1, <2>8, <3>6, <4>2 DEF FieldAgrees, ForThis, Rest
      <4> QED
        BY <2>1, <3>2, <3>3, <3>6, <4>1, <4>2 DEF Rest
    <3>7. FieldNumbers'
      BY <1>0, <2>1, <3>1, <3>2, <3>3 DEF FieldNumbers, Rest
    <3> QED
      BY <2>1, <2>5, <2>8, <3>4, <3>5, <3>6, <3>7 DEF FieldAgrees, Rest
  <2> QED
    BY <1>4, <2>2, <2>7, <2>8 DEF TransportCreated, h
<1>5. CASE ConsumerCreated
  <2>1. doing = "consumed" /\ Take("consumed") /\ UNCHANGED Rest
    BY <1>5 DEF ConsumerCreated
  <2>2. CASE GiveUpCall
    BY <2>1, <2>2, GaveUp
  <2> DEFINE h == Head(receiver)
  <2>3. h \in Range(receiver) /\ h.kind = "consumed"
    BY <2>1, HeadTaken
  <2>4. ~disturbed => h.producer = wanted /\ transport = try
    BY <2>1, <2>3 DEF FieldAgrees, ForThis
  <2>5. try \in 1 .. MaxTries
    BY <1>0, <2>1 DEF FieldCalls
  <2> HIDE DEF h
  <2>6. CASE /\ wire' = Append(wire, Msg("connect", try, NoProducer))
             /\ bound' = [transport |-> transport, consumer |-> h.producer]
             /\ doing' = "done" /\ receiver' = <<>> /\ UNCHANGED <<lagged, disturbed>>
    <3>1. FieldCalls'
      BY <2>1, <2>5, <2>6 DEF FieldCalls, Rest
    <3>2. FieldAgrees'
      BY <2>1, <2>4, <2>6 DEF FieldAgrees, Rest
    <3>3. Msg("connect", try, NoProducer) \in Numbered(Requests)
      BY <2>5 DEF Msg, Numbered, Requests, Wanting
    <3>4. wire' \in Seq(Numbered(Requests))
      BY <2>6, <3>3, AppendFacts DEF FieldQueues
    <3>5. FieldQueues'
      BY <2>1, <2>6, <3>4 DEF FieldQueues, Rest
    <3>6. FieldNumbers'
      <4> DEFINE m == Msg("connect", try, NoProducer)
      <4>1. m.try = try /\ m \in Numbered(Requests) /\ wire' = Append(wire, m)
        BY <2>6, <3>3 DEF Msg
      <4> HIDE DEF m
      <4>2. Range(wire') = Range(wire) \cup {m}
        BY <4>1, AppendRange DEF FieldQueues
      <4> QED
        BY <1>0, <1>02, <2>1, <2>6, <4>1, <4>2 DEF FieldNumbers, Rest
    <3> QED
      BY <3>1, <3>2, <3>5, <3>6
  <2> QED
    BY <1>5, <2>2, <2>6 DEF ConsumerCreated, h
<1>6. CASE Skipped
  <2>1. /\ receiver # <<>> /\ receiver' = Tail(receiver)
        /\ UNCHANGED <<doing, wire, bound, disturbed, role, try, wanted, transport, back>>
    BY <1>6 DEF Skipped, Rest
  <2>2. receiver' \in Seq(Heard) /\ Range(receiver') \subseteq Range(receiver)
    BY <2>1, TailFacts, TailRange DEF FieldQueues
  <2>3. FieldQueues' /\ FieldCalls'
    BY <2>1, <2>2 DEF FieldQueues, FieldCalls
  <2> QED
    BY <2>1, <2>2, <2>3 DEF FieldNumbers, FieldAgrees, ForThis
<1>7. CASE ServerAnswers
  <2>1. PICK k \in Answers :
          /\ k = "refused" \/ k = AnswerOf(Head(wire).kind)
          /\ back' = Append(back, [Head(wire) EXCEPT !.kind = k])
    <3>1. Head(wire).kind \in Requests
      <4>1. wire # <<>> /\ wire \in Seq(Numbered(Requests))
        BY <1>7 DEF ServerAnswers, FieldQueues
      <4>2. Head(wire) \in Numbered(Requests)
        BY <4>1, TailFacts
      <4> QED
        BY <4>2 DEF Numbered
    <3>2. AnswerOf(Head(wire).kind) \in Answers /\ "refused" \in Answers
      BY <3>1 DEF Answers, AnswerOf, Requests
    <3>3. \/ back' = Append(back, [Head(wire) EXCEPT !.kind = AnswerOf(Head(wire).kind)])
          \/ back' = Append(back, [Head(wire) EXCEPT !.kind = "refused"])
      BY <1>7 DEF ServerAnswers
    <3> QED
      BY <3>2, <3>3
  <2>2. wire # <<>> /\ wire' = Tail(wire) /\ UNCHANGED <<role, doing, try, wanted, transport, receiver, bound, disturbed>>
    BY <1>7 DEF ServerAnswers
  <2> DEFINE r == Head(wire)
             a == [Head(wire) EXCEPT !.kind = k]
  <2>3. /\ r \in Numbered(Requests) /\ r \in Range(wire)
        /\ wire' \in Seq(Numbered(Requests)) /\ Range(wire') \subseteq Range(wire)
    BY <2>2, TailFacts, TailRange DEF FieldQueues
  <2>4. /\ a \in Numbered(Answers) /\ a.kind = k /\ a.try = r.try /\ a.producer = r.producer
        /\ k = "consumed" => r.kind = "consume"
    BY <2>1, <2>3, AnswerKind
  <2>5. back' = Append(back, a)
    BY <2>1
  <2> HIDE DEF r, a
  <2>6. back' \in Seq(Heard) /\ Range(back') = Range(back) \cup {a}
    <3>1. a \in Heard
      BY <2>4 DEF Heard
    <3> QED
      BY <2>5, <3>1, AppendFacts, AppendRange DEF FieldQueues
  <2>7. FieldQueues' /\ FieldCalls'
    BY <2>2, <2>3, <2>6 DEF FieldQueues, FieldCalls
  <2>8. ForThis(r) => ForThis(a)
    BY <2>4, FieldAssumption DEF ForThis, Answers
  <2>9. r.try = 0 => a.try = 0
    BY <2>4
  <2>10. \A x : ForThis(x)' <=> ForThis(x)
    BY <2>2 DEF ForThis
  <2> QED
    <3>1. FieldNumbers'
      BY <2>2, <2>3, <2>4, <2>6 DEF FieldNumbers
    <3>2. FieldAgrees'
      BY <2>2, <2>3, <2>6, <2>8, <2>9, <2>10 DEF FieldAgrees
    <3> QED
      BY <2>7, <3>1, <3>2
<1>8. CASE OtherMessage
  <2> DEFINE m == Msg("other", 0, NoProducer)
  <2>1. m \in Heard /\ m.try = 0 /\ m.kind = "other"
    BY DEF Msg, Heard, Stray
  <2>2. /\ back' = Append(back, m) /\ UNCHANGED <<role, doing, try, wanted, transport, receiver, wire, bound, disturbed>>
    BY <1>8 DEF OtherMessage
  <2> HIDE DEF m
  <2>3. back' \in Seq(Heard) /\ Range(back') = Range(back) \cup {m}
    BY <2>1, <2>2, AppendFacts, AppendRange DEF FieldQueues
  <2>4. FieldQueues' /\ FieldCalls'
    BY <2>2, <2>3 DEF FieldQueues, FieldCalls
  <2>5. ForThis(m)
    BY <2>1 DEF ForThis
  <2>6. \A x : ForThis(x)' <=> ForThis(x)
    BY <2>2 DEF ForThis
  <2> QED
    BY <1>0, <2>1, <2>2, <2>3, <2>4, <2>5, <2>6 DEF FieldNumbers, FieldAgrees
<1>9. CASE Arrives
  <2>1. /\ back # <<>> /\ back' = Tail(back) /\ Hear(Head(back))
        /\ UNCHANGED <<role, doing, try, wanted, transport, wire, bound, disturbed>>
    BY <1>9 DEF Arrives
  <2>2. /\ Head(back) \in Heard /\ Head(back) \in Range(back)
        /\ back' \in Seq(Heard) /\ Range(back') \subseteq Range(back)
    BY <2>1, TailFacts, TailRange DEF FieldQueues
  <2>3. receiver' \in Seq(Heard) /\ Range(receiver') \subseteq Range(receiver) \cup {Head(back)}
    BY <2>1, <2>2, HearsSome
  <2>4. FieldQueues' /\ FieldCalls'
    BY <2>1, <2>2, <2>3 DEF FieldQueues, FieldCalls
  <2>6. \A x : ForThis(x)' <=> ForThis(x)
    BY <2>1 DEF ForThis
  <2> QED
    BY <2>1, <2>2, <2>3, <2>4, <2>6 DEF FieldNumbers, FieldAgrees
<1>10. CASE SessionLost
  <2>1. PICK how \in SessionLosses :
          /\ wire' = <<>> /\ back' = <<>>
          /\ IF how = "mute" THEN UNCHANGED <<receiver, lagged>> ELSE Hear(Msg(how, 0, NoProducer))
          /\ UNCHANGED <<role, doing, try, wanted, transport, bound, disturbed>>
    BY <1>10 DEF SessionLost
  <2> DEFINE m == Msg(how, 0, NoProducer)
  <2>2. m \in Heard /\ m.try = 0 /\ m.kind = how
    BY DEF Msg, Heard, Stray
  <2>3. UNCHANGED receiver \/ Hear(m)
    BY <2>1
  <2> HIDE DEF m
  <2>4. receiver' \in Seq(Heard) /\ Range(receiver') \subseteq Range(receiver) \cup {m}
    BY <2>2, <2>3, HearsSome DEF FieldQueues
  <2>5. Range(<<>>) = {} /\ <<>> \in Seq(Numbered(Requests)) /\ <<>> \in Seq(Heard)
    BY EmptyQueue DEF Range
  <2>6. FieldQueues' /\ FieldCalls'
    BY <2>1, <2>4, <2>5 DEF FieldQueues, FieldCalls
  <2>7. ForThis(m)
    BY <2>2, FieldAssumption DEF ForThis
  <2>8. \A x : ForThis(x)' <=> ForThis(x)
    BY <2>1 DEF ForThis
  <2>9. Range(wire') = {} /\ Range(back') = {}
    BY <2>1, <2>5
  <2> QED
    BY <1>0, <2>1, <2>2, <2>4, <2>6, <2>7, <2>8, <2>9 DEF FieldNumbers, FieldAgrees
<1> QED
  BY <1>1, <1>2, <1>3, <1>4, <1>5, <1>6, <1>7, <1>8, <1>9, <1>10 DEF FieldNext, FieldStep, FieldEnv

LEMMA FieldInitInv == FieldInit => FieldInv
<1> SUFFICES ASSUME FieldInit PROVE FieldInv
  OBVIOUS
<1>1. /\ role \in {"push", "pull"} /\ doing = "idle" /\ try = 0 /\ wanted = NoProducer
      /\ receiver = <<>> /\ wire = <<>> /\ back = <<>>
  BY DEF FieldInit
<1>2. Range(<<>>) = {} /\ <<>> \in Seq(Numbered(Requests)) /\ <<>> \in Seq(Heard)
  BY EmptyQueue DEF Range
<1>3. 0 \in 0 .. MaxTries
  BY FieldAssumption
<1> QED
  BY <1>1, <1>2, <1>3 DEF FieldInv, FieldQueues, FieldCalls, FieldNumbers, FieldAgrees, Wanting

(* What else FieldTypeOK says: of the call's receiver, of what it ended up    *)
(* with, and of the counters.                                                 *)
FieldRest ==
  /\ Len(receiver) <= EventsKept
  /\ doing \in {"idle", "done"} => receiver = <<>> /\ lagged = FALSE
  /\ IF doing = "consumed" THEN transport \in 1 .. try ELSE transport = 0
  /\ signal \in {"up"} \cup SessionLosses
  /\ bound.transport \in 0 .. try /\ (doing = "done" => bound.transport # 0)
  /\ doing # "done" => bound = Unbound
  /\ refusals \in 0 .. MaxRefusals /\ others \in 0 .. MaxOthers

LEMMA FieldRestInit == FieldInit => FieldRest
<1>1. Len(<<>>) = 0
  OBVIOUS
<1> QED
  BY <1>1, FieldAssumption DEF FieldInit, FieldRest, Unbound

LEMMA HearsWithin ==
  ASSUME FieldQueues, FieldRest, doing' = doing, NEW e \in Heard, Hear(e)
  PROVE  /\ Len(receiver') <= EventsKept
         /\ doing \in {"idle", "done"} => receiver' = <<>> /\ lagged' = FALSE
<1>1. EventsKept \in Nat \ {0} /\ receiver \in Seq(Heard) /\ Len(receiver) \in Nat /\ Len(receiver) <= EventsKept
  BY FieldAssumption DEF FieldQueues, FieldRest
<1>2. CASE doing \notin {"transport", "consumed"}
  BY <1>1, <1>2 DEF Hear, FieldRest
<1>3. CASE doing \in {"transport", "consumed"} /\ Len(receiver) < EventsKept
  <2>1. receiver' = Append(receiver, e)
    BY <1>3 DEF Hear
  <2> QED
    BY <1>1, <1>3, <2>1
<1>4. CASE doing \in {"transport", "consumed"} /\ ~(Len(receiver) < EventsKept)
  <2>1. receiver' = Append(Tail(receiver), e) /\ receiver # <<>>
    BY <1>1, <1>4, EmptyQueue DEF Hear
  <2>2. Tail(receiver) \in Seq(Heard) /\ Len(Tail(receiver)) = Len(receiver) - 1
    BY <1>1, <2>1, TailFacts
  <2>3. Len(receiver') = Len(Tail(receiver)) + 1
    BY <2>1, <2>2
  <2> QED
    BY <1>1, <1>4, <2>2, <2>3
<1> QED
  BY <1>2, <1>3, <1>4

LEMMA FieldRestStep == FieldInv /\ FieldRest /\ [FieldNext]_fieldVars => FieldRest'
<1> SUFFICES ASSUME FieldInv, FieldRest, [FieldNext]_fieldVars PROVE FieldRest'
  OBVIOUS
<1>0. /\ MaxTries \in Nat /\ MaxRefusals \in Nat /\ MaxOthers \in Nat /\ EventsKept \in Nat \ {0}
      /\ try \in Nat /\ receiver \in Seq(Heard) /\ Len(<<>>) = 0 /\ Len(receiver) \in Nat
  BY FieldAssumption DEF FieldInv, FieldCalls, FieldQueues
<1>1. CASE UNCHANGED fieldVars
  BY <1>1 DEF fieldVars, FieldRest
<1>2. CASE Call
  BY <1>0, <1>2 DEF Call, FieldRest, Unbound
<1>3. ASSUME GiveUpCall, UNCHANGED Rest, doing \in {"transport", "consumed"} PROVE FieldRest'
  BY <1>0, <1>3 DEF GiveUpCall, FieldRest, Rest
<1>4. CASE Lagged \/ Refused
  BY <1>3, <1>4 DEF Lagged, Refused
<1>5. CASE TransportCreated
  <2>1. doing = "transport" /\ Take("created") /\ UNCHANGED Rest
    BY <1>5 DEF TransportCreated
  <2> DEFINE h == Head(receiver)
  <2>2. /\ receiver # <<>> /\ h \in Heard /\ h \in Range(receiver) /\ h.kind = "created"
    BY <2>1, HeadTaken DEF FieldInv
  <2>3. h.try \in 1 .. MaxTries /\ h.try <= try
    BY <2>2, FieldAssumption DEF Heard, Numbered, Stray, FieldInv, FieldNumbers
  <2>4. Len(Tail(receiver)) = Len(receiver) - 1
    BY <1>0, <2>2, TailFacts
  <2> HIDE DEF h
  <2>5. CASE /\ bound' = [transport |-> h.try, consumer |-> NoProducer]
             /\ doing' = "done" /\ receiver' = <<>> /\ UNCHANGED <<transport, lagged>>
    BY <1>0, <2>1, <2>3, <2>5 DEF FieldRest, Rest, Take
  <2>6. CASE doing' = "consumed" /\ transport' = h.try /\ receiver' = Tail(receiver) /\ UNCHANGED bound
    BY <1>0, <2>1, <2>3, <2>4, <2>6 DEF FieldRest, Rest
  <2> QED
    BY <1>3, <1>5, <2>1, <2>5, <2>6 DEF TransportCreated, h
<1>6. CASE ConsumerCreated
  <2>1. doing = "consumed" /\ Take("consumed") /\ UNCHANGED Rest
    BY <1>6 DEF ConsumerCreated
  <2>2. try # 0
    BY <2>1 DEF FieldInv, FieldCalls
  <2>3. CASE /\ bound' = [transport |-> transport, consumer |-> Head(receiver).producer]
             /\ doing' = "done" /\ transport' = 0 /\ receiver' = <<>> /\ UNCHANGED lagged
    BY <1>0, <2>1, <2>2, <2>3 DEF FieldRest, Rest, Take
  <2> QED
    BY <1>3, <1>6, <2>1, <2>3 DEF ConsumerCreated
<1>7. CASE Skipped
  <2>1. receiver # <<>> /\ receiver' = Tail(receiver) /\ doing \in {"transport", "consumed"}
        /\ UNCHANGED <<doing, transport, bound, Rest>>
    BY <1>7 DEF Skipped
  <2>2. Len(Tail(receiver)) = Len(receiver) - 1
    BY <1>0, <2>1, TailFacts
  <2> QED
    BY <1>0, <2>1, <2>2 DEF FieldRest, Rest
<1>8. CASE ServerAnswers
  BY <1>0, <1>8 DEF ServerAnswers, FieldRest
<1>9. CASE OtherMessage
  BY <1>0, <1>9 DEF OtherMessage, FieldRest
<1>10. CASE Arrives
  <2>1. back # <<>> /\ Hear(Head(back))
        /\ UNCHANGED <<role, doing, try, wanted, transport, signal, wire, bound, disturbed, refusals, others>>
    BY <1>10 DEF Arrives
  <2>2. Head(back) \in Heard
    BY <2>1, TailFacts DEF FieldInv, FieldQueues
  <2> QED
    BY <2>1, <2>2, HearsWithin DEF FieldInv, FieldRest
<1>11. CASE SessionLost
  <2>1. PICK how \in SessionLosses :
          /\ signal' = how
          /\ IF how = "mute" THEN UNCHANGED <<receiver, lagged>> ELSE Hear(Msg(how, 0, NoProducer))
          /\ UNCHANGED <<role, doing, try, wanted, transport, bound, disturbed, refusals, others>>
    BY <1>11 DEF SessionLost
  <2>2. Msg(how, 0, NoProducer) \in Heard
    BY DEF Msg, Heard, Stray
  <2> QED
    BY <2>1, <2>2, HearsWithin DEF FieldInv, FieldRest
<1> QED
  BY <1>1, <1>2, <1>4, <1>5, <1>6, <1>7, <1>8, <1>9, <1>10, <1>11 DEF FieldNext, FieldStep, FieldEnv

LEMMA FieldTypesFollow == FieldInv /\ FieldRest => FieldTypeOK
<1> SUFFICES ASSUME FieldInv, FieldRest PROVE FieldTypeOK
  OBVIOUS
<1>1. \A i \in DOMAIN wire : wire[i].kind \in Requests /\ wire[i].try <= try
  <2>1. \A i \in DOMAIN wire : wire[i] \in Numbered(Requests) /\ wire[i] \in Range(wire)
    BY DEF FieldInv, FieldQueues, Range
  <2> QED
    BY <2>1 DEF Numbered, FieldInv, FieldNumbers
<1>2. doing = "done" <=> bound # Unbound
  BY DEF FieldRest, Unbound
<1> QED
  BY <1>1, <1>2 DEF FieldInv, FieldCalls, FieldRest, FieldTypeOK, Wanting

(* A field session whose calls never gave up with an answer still on its way  *)
(* ends up with the transport its call asked for and, if it pulls, with the   *)
(* consumer of the producer it named (mediaservo-field, whose answers are told*)
(* apart by their kind alone): for any producers, capacity of the event       *)
(* channel, losses of the session, refusals and number of calls.              *)
THEOREM AnswersReachTheirCall == FieldSpec => [](FieldTypeOK /\ ShowsWhatWasAsked)
<1>1. FieldInv => ShowsWhatWasAsked
  BY DEF FieldInv, FieldAgrees, ShowsWhatWasAsked
<1> QED
  BY FieldInitInv, FieldStepInv, FieldRestInit, FieldRestStep, FieldTypesFollow, <1>1, PTL DEF FieldSpec

(* What a waiting call waits for, as entries of the three queues.             *)
Coming ==
  \/ lagged
  \/ \E e \in Range(receiver) : EndsTheWait(e)
  \/ signal = "up" /\ \E e \in Range(back) : EndsTheWait(e)
  \/ signal = "up" /\ \E m \in Range(wire) : m.kind = IF doing = "transport" THEN "create" ELSE "consume"
CallComing == doing \in {"transport", "consumed"} /\ signal \in {"up", "disconnected"} => Coming

LEMMA ComingIsAwaited == CallComing <=> CallAwaited
BY DEF CallComing, Coming, CallAwaited, Range

LEMMA HearsAll ==
  ASSUME FieldQueues, NEW e \in Heard, Hear(e), doing \in {"transport", "consumed"}
  PROVE  lagged' \/ (UNCHANGED lagged /\ Range(receiver') = Range(receiver) \cup {e})
<1>1. CASE receiver' = Append(receiver, e) /\ UNCHANGED lagged
  BY <1>1, AppendRange DEF FieldQueues
<1>2. CASE lagged' = TRUE
  BY <1>2
<1> QED
  BY <1>1, <1>2 DEF Hear

LEMMA CallComingStep == ASSUME FieldInv, CallComing, [FieldNext]_fieldVars PROVE CallComing'
<1> USE DEF FieldInv
<1> SUFFICES ASSUME doing' \in {"transport", "consumed"}, signal' \in {"up", "disconnected"} PROVE Coming'
  BY DEF CallComing
<1>1. CASE UNCHANGED fieldVars
  BY <1>1 DEF fieldVars, CallComing, Coming, EndsTheWait
<1>2. CASE Call
  <2> DEFINE m == Msg("create", try', NoProducer)
  <2>1. doing = "idle" /\ try < MaxTries /\ try' = try + 1 /\ signal' = signal
    BY <1>2 DEF Call
  <2>2. doing' = "transport" /\ signal = "up" /\ wire' = Append(wire, m)
    BY <1>2, <2>1 DEF Call
  <2>3. m \in Numbered(Requests) /\ m.kind = "create"
    BY <2>1, FieldAssumption DEF Msg, Numbered, Requests, Wanting, FieldCalls
  <2> HIDE DEF m
  <2>4. m \in Range(wire')
    BY <2>2, <2>3, AppendRange DEF FieldQueues
  <2> QED
    BY <2>1, <2>2, <2>3, <2>4 DEF Coming
<1>3. CASE Lagged \/ Refused
  BY <1>3 DEF Lagged, Refused, GiveUpCall
<1>4. CASE TransportCreated
  <2> DEFINE m == Msg("consume", try, wanted)
  <2>1. signal = "up" /\ signal' = "up" /\ doing' = "consumed" /\ wire' = Append(wire, m)
        /\ doing = "transport"
    BY <1>4 DEF TransportCreated, GiveUpCall, Rest
  <2>2. m \in Numbered(Requests) /\ m.kind = "consume"
    BY <2>1, FieldAssumption DEF Msg, Numbered, Requests, FieldCalls
  <2> HIDE DEF m
  <2>3. m \in Range(wire')
    BY <2>1, <2>2, AppendRange DEF FieldQueues
  <2> QED
    BY <2>1, <2>2, <2>3 DEF Coming
<1>5. CASE ConsumerCreated
  BY <1>5 DEF ConsumerCreated, GiveUpCall
<1>6. CASE Skipped
  <2>1. /\ receiver # <<>> /\ receiver' = Tail(receiver) /\ ~EndsTheWait(Head(receiver))
        /\ UNCHANGED <<doing, lagged, wire, back, signal>>
    BY <1>6 DEF Skipped, Rest, Take, EndsTheWait
  <2>2. Range(receiver) = {Head(receiver)} \cup Range(receiver')
    BY <2>1, TailRange DEF FieldQueues
  <2> QED
    BY <2>1, <2>2 DEF CallComing, Coming, EndsTheWait
<1>7. CASE ServerAnswers
  <2> DEFINE r == Head(wire)
             a == [Head(wire) EXCEPT !.kind = AnswerOf(Head(wire).kind)]
             f == [Head(wire) EXCEPT !.kind = "refused"]
  <2>1. /\ wire # <<>> /\ wire' = Tail(wire) /\ signal = "up" /\ UNCHANGED <<doing, receiver, lagged, signal>>
        /\ back' = Append(back, a) \/ back' = Append(back, f)
    BY <1>7 DEF ServerAnswers
  <2>2. r \in Numbered(Requests) /\ Range(wire) = {r} \cup Range(wire')
    BY <2>1, TailFacts, TailRange DEF FieldQueues
  <2>3. AnswerOf(r.kind) \in Answers /\ "refused" \in Answers
    BY <2>2 DEF Answers, AnswerOf, Requests, Numbered
  <2>4. a \in Heard /\ a.kind = AnswerOf(r.kind) /\ f \in Heard /\ f.kind = "refused"
    BY <2>2, <2>3, AnswerKind DEF Heard
  <2>5. r.kind = "create" => a.kind = "created"
    BY <2>4 DEF AnswerOf
  <2>6. r.kind = "consume" => a.kind = "consumed"
    BY <2>4 DEF AnswerOf
  <2> HIDE DEF r, a, f
  <2>7. PICK b \in {a, f} : Range(back') = Range(back) \cup {b}
    <3>1. PICK b \in {a, f} : back' = Append(back, b)
      BY <2>1
    <3>2. b \in Heard
      BY <2>4, <3>1
    <3>3. Range(Append(back, b)) = Range(back) \cup {b}
      BY <3>2, AppendRange DEF FieldQueues
    <3> QED
      BY <3>1, <3>3
  <2>8. (r.kind = IF doing = "transport" THEN "create" ELSE "consume") => EndsTheWait(b)
    BY <2>1, <2>4, <2>5, <2>6, <2>7 DEF EndsTheWait
  <2>9. \A e : EndsTheWait(e)' <=> EndsTheWait(e)
    BY <2>1 DEF EndsTheWait
  <2> QED
    BY <2>1, <2>2, <2>7, <2>8, <2>9 DEF CallComing, Coming
<1>8. CASE OtherMessage
  <2> DEFINE m == Msg("other", 0, NoProducer)
  <2>1. m \in Heard
    BY DEF Msg, Heard, Stray
  <2>2. back' = Append(back, m) /\ UNCHANGED <<doing, receiver, lagged, wire, signal>>
    BY <1>8 DEF OtherMessage
  <2> HIDE DEF m
  <2>3. Range(back') = Range(back) \cup {m}
    BY <2>1, <2>2, AppendRange DEF FieldQueues
  <2> QED
    BY <2>2, <2>3 DEF CallComing, Coming, EndsTheWait
<1>9. CASE Arrives
  <2>1. /\ back # <<>> /\ back' = Tail(back) /\ Hear(Head(back)) /\ signal = "up"
        /\ UNCHANGED <<doing, wire, signal>>
    BY <1>9 DEF Arrives
  <2>2. Head(back) \in Heard /\ Range(back) = {Head(back)} \cup Range(back')
    BY <2>1, TailFacts, TailRange DEF FieldQueues
  <2>3. lagged' \/ (UNCHANGED lagged /\ Range(receiver') = Range(receiver) \cup {Head(back)})
    BY <2>1, <2>2, HearsAll
  <2>4. \A e : EndsTheWait(e)' <=> EndsTheWait(e)
    BY <2>1 DEF EndsTheWait
  <2> QED
    BY <2>1, <2>2, <2>3, <2>4 DEF CallComing, Coming
<1>10. CASE SessionLost
  <2> DEFINE m == Msg("disconnected", 0, NoProducer)
  <2>1. "disconnected" \in SessionLosses /\ Hear(m) /\ doing' = doing
    <3>1. PICK how \in SessionLosses :
            /\ signal = "up" /\ signal' = how /\ doing' = doing
            /\ how = "mute" \/ Hear(Msg(how, 0, NoProducer))
      BY <1>10 DEF SessionLost
    <3>2. how = "disconnected"
      BY <3>1, FieldAssumption
    <3> QED
      BY <3>1, <3>2
  <2>2. m \in Heard /\ m.kind = "disconnected"
    BY <2>1 DEF Msg, Heard, Stray
  <2> HIDE DEF m
  <2>3. lagged' \/ Range(receiver') = Range(receiver) \cup {m}
    BY <2>1, <2>2, HearsAll
  <2> QED
    BY <2>2, <2>3 DEF Coming, EndsTheWait
<1> QED
  BY <1>1, <1>2, <1>3, <1>4, <1>5, <1>6, <1>7, <1>8, <1>9, <1>10 DEF FieldNext, FieldStep, FieldEnv

(* A publish_video or subscribe that waits never waits for nothing: what it   *)
(* asked for, its answer or the news that ends it is on its way, although     *)
(* answers are told apart by kind only, an earlier call's may be taken for it *)
(* and the event channel forgets (session.rs): for any capacity, any number   *)
(* of calls, refusals and other messages.                                     *)
THEOREM CallsAreAwaited == FieldSpec => []CallAwaited
<1>1. FieldInit => CallAwaited
  BY DEF FieldInit, CallAwaited
<1>2. FieldInv /\ [FieldNext]_fieldVars => FieldInv'
  BY FieldStepInv
<1>3. FieldInv /\ CallAwaited /\ [FieldNext]_fieldVars => CallAwaited'
  <2>1. FieldInv /\ CallComing /\ [FieldNext]_fieldVars => CallComing'
    BY CallComingStep
  <2>2. CallComing' <=> CallAwaited'
    BY DEF CallComing, Coming, CallAwaited, Range
  <2> QED
    BY <2>1, <2>2, ComingIsAwaited
<1> QED
  BY FieldInitInv, <1>1, <1>2, <1>3, PTL DEF FieldSpec

-----------------------------------------------------------------------------
(* The operator client.                                                       *)

ClientMessages == [kind : {"offer", "cand"}, gen : Nat] \cup [kind : {"frame"}, gen : {0}, n : Nat]
ClientFrames == [gen : 0 .. MaxOffers, n : Nat]
ServerMessages == [kind : {"answer", "cand"}, gen : Nat]
ClientQueues ==
  /\ clientIn \in Seq(ClientMessages) /\ iceQueue \in Seq(Gens) /\ toServer \in Seq(ServerMessages)
  /\ decoded \in Seq(ClientFrames) /\ frameQueue \in Seq(ClientFrames)
  /\ Len(frameQueue) <= FrameCap /\ Len(iceQueue) <= IceCap
  /\ pcUsed \in Nat /\ pcNew \in Nat /\ nOffers \in 0 .. MaxOffers
  /\ nFrames \in [0 .. MaxOffers -> 0 .. MaxClientFrames]

ClientSpools ==
  /\ channelOf \in [Gens -> {"none", "open", "closed"}] /\ spooled \in [Gens -> Seq(Int)]
  /\ readerHas \in [Gens -> 0 .. MaxClientFrames] /\ readers \subseteq Gens
  /\ \A g \in Gens : Rises(spooled[g]) /\ Between(spooled[g], readerHas[g], nFrames[g]) /\ readerHas[g] <= nFrames[g]
  /\ \A g \in Gens : channelOf[g] = "none" => nFrames[g] = 0 /\ spooled[g] = <<>>

(* The loop waits for room with the frame it took at the head of its queue.   *)
ClientGives == client = "give" => clientIn # <<>> /\ Head(clientIn).kind = "frame"

ClientStates ==
  client \in {"connect", "auth", "join", "sleep", "gaveup", "relay", "answer", "give", "done"}

ClientTries == joinAttempt \in 1 .. MaxAttempts

LEMMA ClientStatesKept ==
  /\ ClientInit => ClientStates
  /\ ClientStates /\ [ClientNext]_clientVars => ClientStates'
<1>1. ClientInit => ClientStates
  BY DEF ClientInit, ClientStates
<1>2. ASSUME ClientStates, [ClientNext]_clientVars PROVE ClientStates'
  BY <1>2 DEF ClientStates, ClientNext, ClientProceeds, ClientConnectFails, ClientTriesAgain, ClientLosesLink, LoopEnds,
     OfferComes, CandidateComes, FrameComes, Takes, TakeOffer, FinishOffer, TakeCandidate, TakeFrameMessage,
     RoomForFrame, SendIce, OwnCandidate, ClientChannelOpens, ChannelDelivers, ReaderTakes, ReaderGives, DecodeFrame,
     clientVars
<1> QED
  BY <1>1, <1>2

LEMMA ClientTriesKept ==
  /\ ClientInit => ClientTries
  /\ ClientTries /\ [ClientNext]_clientVars => ClientTries'
<1>0. MaxAttempts \in Nat \ {0}
  BY OperatorClientAssumption
<1>1. ClientInit => ClientTries
  BY <1>0 DEF ClientInit, ClientTries
<1>2. ASSUME ClientTries, [ClientNext]_clientVars PROVE ClientTries'
  <2>1. UNCHANGED joinAttempt \/ (joinAttempt < MaxAttempts /\ joinAttempt' = joinAttempt + 1)
    BY <1>2 DEF ClientNext, ClientProceeds, ClientConnectFails, ClientTriesAgain, ClientLosesLink, LoopEnds,
       OfferComes, CandidateComes, FrameComes, Takes, TakeOffer, FinishOffer, TakeCandidate, TakeFrameMessage,
       RoomForFrame, SendIce, OwnCandidate, ClientChannelOpens, ChannelDelivers, ReaderTakes, ReaderGives, DecodeFrame,
       clientVars
  <2> QED
    BY <1>0, <1>2, <2>1 DEF ClientTries
<1> QED
  BY <1>1, <1>2

-----------------------------------------------------------------------------
(* What the queues carry.                                                     *)
LEMMA ClientQueuesKept ==
  ASSUME ClientQueues, ClientSpools, ClientGives, [ClientNext]_clientVars
  PROVE  ClientQueues'
<1> DEFINE Pcs == <<pcUsed, pcNew>>
           Frames == <<decoded, frameQueue>>
           Signals == <<iceQueue, toServer>>
<1>0. /\ MaxOffers \in Nat /\ MaxClientFrames \in Nat /\ FrameCap \in Nat /\ IceCap \in Nat /\ nOffers \in Nat
      /\ Len(frameQueue) \in Nat /\ Len(iceQueue) \in Nat
  BY OperatorClientAssumption, QueueDomain DEF ClientQueues
<1> USE DEF ClientQueues
<1>1. ASSUME UNCHANGED <<clientIn, Signals, Frames, nOffers, nFrames>>, pcUsed' \in Nat, pcNew' \in Nat PROVE ClientQueues'
  BY <1>1
<1>2. ASSUME NEW m \in ClientMessages, clientIn' = Append(clientIn, m), UNCHANGED <<Signals, Frames, Pcs>>,
             nOffers' \in 0 .. MaxOffers, nFrames' \in [0 .. MaxOffers -> 0 .. MaxClientFrames]
      PROVE  ClientQueues'
  BY <1>2, AppendFacts
<1>3. ASSUME NEW f \in ClientFrames, frameQueue' = Append(frameQueue, f), Len(frameQueue) < FrameCap,
             UNCHANGED <<Signals, decoded, Pcs, nOffers, nFrames>>, clientIn' \in Seq(ClientMessages)
      PROVE  ClientQueues'
  <2>1. frameQueue' \in Seq(ClientFrames) /\ Len(frameQueue') = Len(frameQueue) + 1
    BY <1>3, AppendFacts
  <2>2. Len(frameQueue') <= FrameCap
    BY <1>0, <1>3, <2>1
  <2> QED
    BY <1>3, <2>1, <2>2
<1>4. ASSUME NEW m \in ServerMessages, toServer' = Append(toServer, m), UNCHANGED <<clientIn, Frames, nOffers, nFrames>>,
             iceQueue' = iceQueue \/ (iceQueue # <<>> /\ iceQueue' = Tail(iceQueue)), pcUsed' \in Nat, pcNew' \in Nat
      PROVE  ClientQueues'
  <2>1. toServer' \in Seq(ServerMessages)
    BY <1>4, AppendFacts
  <2>2. iceQueue' \in Seq(Gens) /\ Len(iceQueue') <= IceCap
    <3>1. CASE iceQueue' = iceQueue
      BY <3>1
    <3>2. CASE iceQueue # <<>> /\ iceQueue' = Tail(iceQueue)
      <4>1. Tail(iceQueue) \in Seq(Gens) /\ Len(Tail(iceQueue)) = Len(iceQueue) - 1
        BY <3>2, TailFacts
      <4> QED
        BY <1>0, <3>2, <4>1
    <3> QED
      BY <1>4, <3>1, <3>2
  <2> QED
    BY <1>4, <2>1, <2>2
<1>5. CASE ClientProceeds \/ ClientConnectFails \/ ClientTriesAgain \/ ClientLosesLink \/ UNCHANGED clientVars
  BY <1>1, <1>5 DEF ClientProceeds, ClientConnectFails, ClientTriesAgain, ClientLosesLink, LoopEnds, ClientLoopRest,
     clientCounts, clientVars
<1>6. CASE OfferComes
  <2>1. nOffers' \in 0 .. MaxOffers /\ nOffers' \in Nat
    BY <1>0, <1>6 DEF OfferComes
  <2>2. Sent("offer", nOffers') \in ClientMessages
    BY <2>1 DEF Sent, ClientMessages
  <2> QED
    BY <1>2, <1>6, <2>1, <2>2 DEF OfferComes
<1>7. CASE CandidateComes
  <2>1. Sent("cand", nOffers) \in ClientMessages
    BY <1>0 DEF Sent, ClientMessages
  <2> QED
    BY <1>2, <1>7, <2>1 DEF CandidateComes, ClientLoopRest, clientCounts
<1>8. CASE FrameComes
  <2>1. nFrames[0] \in 0 .. MaxClientFrames /\ 0 \in 0 .. MaxOffers
    BY <1>0
  <2>2. nFrames[0] + 1 \in 0 .. MaxClientFrames
    BY <1>0, <1>8, <2>1 DEF FrameComes
  <2>3. nFrames' = [nFrames EXCEPT ![0] = @ + 1]
    BY <1>8 DEF FrameComes
  <2>4. nFrames' \in [0 .. MaxOffers -> 0 .. MaxClientFrames] /\ nFrames'[0] \in Nat
    BY <1>0, <2>1, <2>2, <2>3
  <2>5. [kind |-> "frame", gen |-> 0, n |-> nFrames'[0]] \in ClientMessages
    BY <2>4 DEF ClientMessages
  <2> QED
    BY <1>2, <1>8, <2>4, <2>5 DEF FrameComes
<1>9. ASSUME clientIn # <<>> PROVE Head(clientIn) \in ClientMessages /\ Tail(clientIn) \in Seq(ClientMessages)
  BY <1>9, TailFacts
<1>10. CASE TakeOffer
  <2>1. Head(clientIn).gen \in Nat
    BY <1>9, <1>10 DEF TakeOffer, Takes, ClientMessages
  <2> QED
    BY <1>9, <1>10, <2>1 DEF TakeOffer, Takes, clientCounts
<1>11. CASE FinishOffer
  <2>1. Sent("answer", pcNew) \in ServerMessages
    BY DEF Sent, ServerMessages
  <2>2. UNCHANGED <<clientIn, iceQueue, Frames, nOffers, nFrames>> /\ pcUsed' \in Nat /\ pcNew' \in Nat
    BY <1>11 DEF FinishOffer, LoopEnds, clientCounts
  <2>3. toServer' = Append(toServer, Sent("answer", pcNew)) \/ UNCHANGED toServer
    BY <1>11 DEF FinishOffer
  <2> QED
    BY <1>1, <1>4, <2>1, <2>2, <2>3
<1>12. CASE TakeCandidate
  BY <1>9, <1>12 DEF TakeCandidate, Takes, clientCounts
<1>13. ASSUME clientIn # <<>>, Head(clientIn).kind = "frame" PROVE Framed(0, Head(clientIn).n) \in ClientFrames
  BY <1>0, <1>9, <1>13 DEF Framed, ClientFrames, ClientMessages
<1>14. CASE TakeFrameMessage
  <2>1. CASE Len(frameQueue) < FrameCap
    BY <1>3, <1>9, <1>13, <1>14, <2>1 DEF TakeFrameMessage, clientCounts
  <2>2. CASE ~(Len(frameQueue) < FrameCap)
    BY <1>1, <1>14, <2>2 DEF TakeFrameMessage, clientCounts
  <2> QED
    BY <2>1, <2>2
<1>15. CASE RoomForFrame
  BY <1>3, <1>9, <1>13, <1>15 DEF RoomForFrame, ClientGives, clientCounts
<1>16. CASE SendIce
  <2>1. iceQueue # <<>> /\ Head(iceQueue) \in Gens /\ iceQueue' = Tail(iceQueue)
    BY <1>16, TailFacts DEF SendIce
  <2>2. Sent("cand", Head(iceQueue)) \in ServerMessages
    BY <2>1 DEF Sent, ServerMessages, Gens
  <2>3. UNCHANGED <<clientIn, Frames, nOffers, nFrames>> /\ pcUsed' \in Nat /\ pcNew' \in Nat
    BY <1>16 DEF SendIce, LoopEnds, clientCounts
  <2>4. CASE toServer' = Append(toServer, Sent("cand", Head(iceQueue)))
    BY <1>4, <2>1, <2>2, <2>3, <2>4
  <2>5. CASE UNCHANGED toServer
    <3>1. Tail(iceQueue) \in Seq(Gens) /\ Len(Tail(iceQueue)) = Len(iceQueue) - 1
      BY <2>1, TailFacts
    <3>2. Len(iceQueue') <= IceCap
      BY <1>0, <2>1, <3>1
    <3> QED
      BY <2>1, <2>3, <2>5, <3>1, <3>2
  <2> QED
    BY <1>16, <2>4, <2>5 DEF SendIce
<1>17. ASSUME NEW g \in Gens, OwnCandidate(g) PROVE ClientQueues'
  <2>1. iceQueue' = (IF Len(iceQueue) < IceCap THEN Append(iceQueue, g) ELSE iceQueue)
    BY <1>17 DEF OwnCandidate
  <2>2. Append(iceQueue, g) \in Seq(Gens) /\ Len(Append(iceQueue, g)) = Len(iceQueue) + 1
    BY AppendFacts
  <2>3. iceQueue' \in Seq(Gens) /\ Len(iceQueue') <= IceCap
    BY <1>0, <2>1, <2>2
  <2> QED
    BY <1>17, <2>3 DEF OwnCandidate
<1>18. ASSUME NEW g \in Gens, ClientChannelOpens(g) \/ ReaderTakes(g) PROVE ClientQueues'
  BY <1>18 DEF ClientChannelOpens, ReaderTakes, clientCounts
<1>19. ASSUME NEW g \in Gens, ChannelDelivers(g) PROVE ClientQueues'
  <2>1. nFrames[g] \in 0 .. MaxClientFrames /\ g \in 0 .. MaxOffers /\ nFrames[g] < MaxClientFrames
        /\ nFrames' = [nFrames EXCEPT ![g] = @ + 1]
    BY <1>0, <1>19 DEF ChannelDelivers, Gens
  <2>2. nFrames[g] + 1 \in 0 .. MaxClientFrames
    BY <1>0, <2>1
  <2>3. nFrames' \in [0 .. MaxOffers -> 0 .. MaxClientFrames]
    BY <2>1, <2>2
  <2> QED
    BY <1>19, <2>3 DEF ChannelDelivers
<1>20. ASSUME NEW g \in Gens, ReaderGives(g) PROVE ClientQueues'
  <2>1. Framed(g, readerHas[g]) \in ClientFrames
    BY <1>0 DEF Framed, ClientFrames, Gens, ClientSpools
  <2> QED
    BY <1>3, <1>20, <2>1 DEF ReaderGives, clientCounts
<1>21. CASE DecodeFrame
  <2>1. /\ Head(frameQueue) \in ClientFrames /\ Tail(frameQueue) \in Seq(ClientFrames)
        /\ Len(Tail(frameQueue)) = Len(frameQueue) - 1
    BY <1>21, TailFacts DEF DecodeFrame
  <2>2. Append(decoded, Head(frameQueue)) \in Seq(ClientFrames) /\ Len(Tail(frameQueue)) <= FrameCap
    BY <1>0, <2>1, AppendFacts
  <2> QED
    BY <1>21, <2>1, <2>2 DEF DecodeFrame, clientCounts
<1> QED
  BY <1>5, <1>6, <1>7, <1>8, <1>10, <1>11, <1>12, <1>14, <1>15, <1>16, <1>17, <1>18, <1>19, <1>20, <1>21 DEF ClientNext

LEMMA ClientGivesKept ==
  ASSUME ClientQueues, ClientGives, [ClientNext]_clientVars
  PROVE  ClientGives'
<1>1. CASE client' # "give"
  BY <1>1 DEF ClientGives
<1>2. ASSUME client' = client, clientIn' = clientIn PROVE ClientGives'
  BY <1>2 DEF ClientGives
<1>3. ASSUME NEW m \in ClientMessages, clientIn' = Append(clientIn, m), client' = client PROVE ClientGives'
  <2>1. CASE clientIn # <<>>
    <3>1. Head(clientIn') = Head(clientIn) /\ clientIn' # <<>>
      <4>1. clientIn \in Seq(ClientMessages) /\ Len(clientIn) \in Nat \ {0}
        BY <2>1 DEF ClientQueues
      <4>2. Len(clientIn') = Len(clientIn) + 1 /\ clientIn'[1] = clientIn[1] /\ clientIn' \in Seq(ClientMessages)
        BY <1>3, <4>1, AppendFacts
      <4> QED
        BY <4>1, <4>2
    <3> QED
      BY <1>3, <2>1, <3>1 DEF ClientGives
  <2>2. CASE clientIn = <<>>
    BY <1>3, <2>2 DEF ClientGives
  <2> QED
    BY <2>1, <2>2
<1>4. CASE OfferComes
  <2>1. Sent("offer", nOffers') \in ClientMessages
    BY <1>4 DEF OfferComes, Sent, ClientMessages, ClientQueues
  <2> QED
    BY <1>3, <1>4, <2>1 DEF OfferComes
<1>5. CASE CandidateComes
  <2>1. Sent("cand", nOffers) \in ClientMessages
    BY <1>5 DEF Sent, ClientMessages, ClientQueues
  <2> QED
    BY <1>3, <1>5, <2>1 DEF CandidateComes
<1>6. CASE FrameComes
  <2>1. nFrames'[0] \in Nat
    <3>1. MaxOffers \in Nat /\ MaxClientFrames \in Nat
      BY OperatorClientAssumption
    <3>2. 0 \in 0 .. MaxOffers /\ nFrames[0] \in Nat
      BY <3>1 DEF ClientQueues
    <3> QED
      BY <1>6, <3>2 DEF FrameComes, ClientQueues
  <2>2. [kind |-> "frame", gen |-> 0, n |-> nFrames'[0]] \in ClientMessages
    BY <2>1 DEF ClientMessages
  <2> QED
    BY <1>3, <1>6, <2>2 DEF FrameComes
<1>7. CASE TakeFrameMessage
  BY <1>7 DEF TakeFrameMessage, ClientGives
<1>8. CASE \/ ClientProceeds \/ ClientConnectFails \/ ClientTriesAgain \/ ClientLosesLink \/ TakeOffer \/ FinishOffer
           \/ TakeCandidate \/ RoomForFrame \/ SendIce
  BY <1>1, <1>8 DEF ClientProceeds, ClientConnectFails, ClientTriesAgain, ClientLosesLink, TakeOffer, FinishOffer,
     TakeCandidate, RoomForFrame, SendIce, LoopEnds, Takes
<1>9. CASE \/ DecodeFrame \/ UNCHANGED clientVars
           \/ \E g \in Gens : \/ OwnCandidate(g) \/ ClientChannelOpens(g) \/ ChannelDelivers(g)
                              \/ ReaderTakes(g) \/ ReaderGives(g)
  BY <1>2, <1>9 DEF DecodeFrame, OwnCandidate, ClientChannelOpens, ChannelDelivers, ReaderTakes, ReaderGives, clientVars
<1> QED
  BY <1>4, <1>5, <1>6, <1>7, <1>8, <1>9 DEF ClientNext

LEMMA ClientSpoolsKept ==
  ASSUME ClientQueues, ClientSpools, [ClientNext]_clientVars
  PROVE  ClientSpools'
<1>0. MaxOffers \in Nat /\ MaxClientFrames \in Nat /\ Gens \subseteq 0 .. MaxOffers /\ 0 \notin Gens
  BY OperatorClientAssumption DEF Gens
<1>1. \A g \in Gens : /\ nFrames[g] \in 0 .. MaxClientFrames /\ readerHas[g] \in 0 .. MaxClientFrames
                      /\ spooled[g] \in Seq(Int) /\ Rises(spooled[g]) /\ Between(spooled[g], readerHas[g], nFrames[g])
                      /\ readerHas[g] <= nFrames[g]
                      /\ Between(spooled[g], 0, nFrames[g])
  <2> SUFFICES ASSUME NEW g \in Gens
               PROVE  /\ nFrames[g] \in 0 .. MaxClientFrames /\ readerHas[g] \in 0 .. MaxClientFrames
                      /\ spooled[g] \in Seq(Int) /\ Rises(spooled[g]) /\ Between(spooled[g], readerHas[g], nFrames[g])
                      /\ readerHas[g] <= nFrames[g]
                      /\ Between(spooled[g], 0, nFrames[g])
    OBVIOUS
  <2>1. nFrames[g] \in 0 .. MaxClientFrames /\ readerHas[g] \in 0 .. MaxClientFrames /\ spooled[g] \in Seq(Int)
        /\ Rises(spooled[g]) /\ Between(spooled[g], readerHas[g], nFrames[g]) /\ readerHas[g] <= nFrames[g]
    BY <1>0 DEF ClientQueues, ClientSpools
  <2>2. Between(spooled[g], 0, nFrames[g])
    BY <1>0, <2>1, BetweenWidens
  <2> QED
    BY <2>1, <2>2
<1>2. CASE UNCHANGED <<clientDcState, nFrames>>
  BY <1>2 DEF clientDcState, ClientSpools
<1>3. ASSUME UNCHANGED <<spooled, nFrames>>, readers' \subseteq Gens, readerHas' = [g \in Gens |-> 0],
             channelOf' \in [Gens -> {"none", "open", "closed"}],
             \A g \in Gens : channelOf'[g] = "none" => channelOf[g] = "none"
      PROVE  ClientSpools'
  <2>1. \A g \in Gens : readerHas'[g] = 0 /\ 0 \in 0 .. MaxClientFrames /\ 0 <= nFrames[g]
    BY <1>0, <1>1, <1>3
  <2>2. readerHas' \in [Gens -> 0 .. MaxClientFrames]
    BY <1>3, <2>1
  <2> QED
    BY <1>1, <1>3, <2>1, <2>2 DEF ClientSpools
<1>4. CASE LoopEnds /\ UNCHANGED nFrames
  <2>1. channelOf' \in [Gens -> {"none", "open", "closed"}] /\ \A g \in Gens : channelOf'[g] = "none" => channelOf[g] = "none"
    BY <1>4 DEF LoopEnds, ClientSpools
  <2> QED
    BY <1>3, <1>4, <2>1 DEF LoopEnds
<1>5. CASE FinishOffer
  <2>1. CASE LoopEnds
    BY <1>4, <1>5, <2>1 DEF FinishOffer, clientCounts
  <2>2. CASE ~LoopEnds
    BY <1>5, <2>2 DEF FinishOffer, clientCounts, ClientSpools
  <2> QED
    BY <2>1, <2>2
<1>6. CASE SendIce
  BY <1>2, <1>4, <1>6 DEF SendIce, clientCounts
<1>7. CASE ClientLosesLink
  BY <1>4, <1>7 DEF ClientLosesLink, clientCounts
<1>8. ASSUME NEW g \in Gens, ClientChannelOpens(g) PROVE ClientSpools'
  <2>1. /\ channelOf[g] = "none" /\ channelOf' = [channelOf EXCEPT ![g] = "open"] /\ readers' = {g}
        /\ readerHas' = [h \in Gens |-> 0] /\ UNCHANGED <<spooled, nFrames>>
    BY <1>8 DEF ClientChannelOpens, ReadInstead, clientCounts
  <2>2. channelOf' \in [Gens -> {"none", "open", "closed"}] /\ \A h \in Gens : channelOf'[h] = "none" => channelOf[h] = "none"
    BY <2>1 DEF ClientSpools
  <2> QED
    BY <1>3, <2>1, <2>2
<1>9. ASSUME NEW g \in Gens, ChannelDelivers(g) PROVE ClientSpools'
  <2>1. /\ channelOf[g] = "open" /\ nFrames' = [nFrames EXCEPT ![g] = @ + 1]
        /\ spooled' = [spooled EXCEPT ![g] = Append(@, nFrames'[g])] /\ UNCHANGED <<channelOf, readers, readerHas>>
    BY <1>9 DEF ChannelDelivers
  <2>2. nFrames'[g] = nFrames[g] + 1 /\ \A h \in Gens : h # g => nFrames'[h] = nFrames[h]
    BY <1>0, <2>1 DEF ClientQueues
  <2>3. spooled'[g] = Append(spooled[g], nFrames[g] + 1) /\ \A h \in Gens : h # g => spooled'[h] = spooled[h]
    BY <2>1, <2>2 DEF ClientSpools
  <2>4. nFrames[g] \in Int /\ readerHas[g] \in Int /\ nFrames[g] + 1 \in Int /\ nFrames[g] < nFrames[g] + 1
        /\ readerHas[g] < nFrames[g] + 1 /\ readerHas[g] <= nFrames[g] + 1
    BY <1>1
  <2>5. /\ Rises(spooled'[g]) /\ Between(spooled'[g], readerHas[g], nFrames'[g])
    BY <1>1, <2>2, <2>3, <2>4, AppendRises
  <2>6. Append(spooled[g], nFrames[g] + 1) \in Seq(Int)
    BY <1>1, <2>4, AppendFacts
  <2>7. spooled' \in [Gens -> Seq(Int)]
    BY <2>1, <2>2, <2>6 DEF ClientSpools
  <2> QED
    BY <1>1, <2>1, <2>2, <2>3, <2>4, <2>5, <2>7 DEF ClientSpools
<1>10. ASSUME NEW g \in Gens, ReaderTakes(g) PROVE ClientSpools'
  <2>1. CASE /\ spooled[g] # <<>> /\ readerHas' = [readerHas EXCEPT ![g] = Head(spooled[g])]
             /\ spooled' = [spooled EXCEPT ![g] = Tail(@)] /\ UNCHANGED <<readers, channelOf, nFrames>>
    <3>1. /\ Rises(Tail(spooled[g])) /\ Between(Tail(spooled[g]), Head(spooled[g]), nFrames[g])
          /\ readerHas[g] < Head(spooled[g]) /\ Head(spooled[g]) <= nFrames[g] /\ Head(spooled[g]) \in Int
      BY <1>1, <2>1, TailRises
    <3>2. Tail(spooled[g]) \in Seq(Int) /\ Head(spooled[g]) \in 0 .. MaxClientFrames
      BY <1>0, <1>1, <2>1, <3>1, TailFacts
    <3>3. spooled'[g] = Tail(spooled[g]) /\ readerHas'[g] = Head(spooled[g])
          /\ \A h \in Gens : h # g => spooled'[h] = spooled[h] /\ readerHas'[h] = readerHas[h]
      BY <2>1 DEF ClientSpools
    <3>4. spooled' \in [Gens -> Seq(Int)] /\ readerHas' \in [Gens -> 0 .. MaxClientFrames]
      BY <2>1, <3>2 DEF ClientSpools
    <3> QED
      BY <1>1, <2>1, <3>1, <3>3, <3>4 DEF ClientSpools
  <2>2. CASE readers' = readers \ {g} /\ UNCHANGED <<spooled, readerHas, channelOf, nFrames>>
    BY <2>2 DEF ClientSpools
  <2> QED
    BY <1>10, <2>1, <2>2 DEF ReaderTakes, clientCounts
<1>11. ASSUME NEW g \in Gens, ReaderGives(g) PROVE ClientSpools'
  <2>1. readerHas' = [readerHas EXCEPT ![g] = 0] /\ UNCHANGED <<spooled, readers, channelOf, nFrames>>
    BY <1>11 DEF ReaderGives, clientCounts
  <2>2. /\ readerHas'[g] = 0 /\ \A h \in Gens : h # g => readerHas'[h] = readerHas[h]
        /\ readerHas' \in [Gens -> 0 .. MaxClientFrames] /\ 0 <= nFrames[g]
    BY <1>0, <1>1, <2>1 DEF ClientSpools
  <2> QED
    BY <1>1, <2>1, <2>2 DEF ClientSpools
<1>12. CASE FrameComes
  <2>1. UNCHANGED clientDcState /\ \A g \in Gens : nFrames'[g] = nFrames[g]
    BY <1>0, <1>12 DEF FrameComes, ClientQueues
  <2> QED
    BY <1>12, <2>1 DEF FrameComes, ClientSpools, clientDcState
<1>13. CASE \/ ClientProceeds \/ ClientConnectFails \/ ClientTriesAgain \/ OfferComes \/ CandidateComes
            \/ TakeOffer \/ TakeCandidate \/ TakeFrameMessage \/ RoomForFrame \/ DecodeFrame
            \/ (\E g \in Gens : OwnCandidate(g)) \/ UNCHANGED clientVars
  <2>1. UNCHANGED <<channelOf, spooled, readers, readerHas, nFrames>>
    BY <1>13 DEF ClientProceeds, ClientConnectFails, ClientTriesAgain, OfferComes, CandidateComes, TakeOffer,
       TakeCandidate, TakeFrameMessage, RoomForFrame, DecodeFrame, OwnCandidate, ClientLoopRest, clientCounts,
       clientDcState, clientVars
  <2> QED
    BY <1>2, <2>1 DEF clientDcState
<1> QED
  BY <1>5, <1>6, <1>7, <1>8, <1>9, <1>10, <1>11, <1>12, <1>13 DEF ClientNext

-----------------------------------------------------------------------------
(* Candidates and answers.  The peer connection kept has had its answer, and  *)
(* so has every one whose candidate waits, but for the one being made.        *)
AnsweredIn(sent, g) == \E j \in 1 .. Len(sent) : sent[j] = Sent("answer", g)
AnswersFirst ==
  \A i \in 1 .. Len(toServer) : toServer[i].kind = "cand" =>
    \E j \in 1 .. i : toServer[j] = Sent("answer", toServer[i].gen)
ClientPeers ==
  /\ pcUsed # 0 => AnsweredIn(toServer, pcUsed)
  /\ client # "answer" => pcNew = 0
  /\ client # "done" => \A i \in 1 .. Len(iceQueue) : iceQueue[i] = pcNew \/ AnsweredIn(toServer, iceQueue[i])
  /\ AnswersFirst

LEMMA OneMoreSent ==
  ASSUME ClientQueues, AnswersFirst, NEW m \in ServerMessages, toServer' = Append(toServer, m),
         m.kind = "cand" => AnsweredIn(toServer, m.gen)
  PROVE  AnswersFirst' /\ (\A g : AnsweredIn(toServer, g) => AnsweredIn(toServer', g)) /\ \A g : m = Sent("answer", g) => AnsweredIn(toServer', g)
<1>1. /\ Len(toServer') = Len(toServer) + 1 /\ Len(toServer) \in Nat /\ toServer'[Len(toServer) + 1] = m
      /\ \A i \in 1 .. Len(toServer) : toServer'[i] = toServer[i]
  BY AppendFacts DEF ClientQueues
<1>2. \A i \in 1 .. Len(toServer') : i \in 1 .. Len(toServer) \/ i = Len(toServer) + 1
  BY <1>1
<1>3. \A i \in 1 .. Len(toServer) : i \in 1 .. Len(toServer') /\ i \in 1 .. Len(toServer) + 1
  BY <1>1
<1>4. Len(toServer) + 1 \in 1 .. Len(toServer')
  BY <1>1
<1>5. \A g : AnsweredIn(toServer, g) => AnsweredIn(toServer', g)
  BY <1>1, <1>3 DEF AnsweredIn, Sent
<1>6. \A g : m = Sent("answer", g) => AnsweredIn(toServer', g)
  BY <1>1, <1>4 DEF AnsweredIn, Sent
<1>7. ASSUME NEW i \in 1 .. Len(toServer'), toServer'[i].kind = "cand"
      PROVE  \E j \in 1 .. i : toServer'[j] = Sent("answer", toServer'[i].gen)
  <2>1. CASE i \in 1 .. Len(toServer)
    <3>1. PICK j \in 1 .. i : toServer[j] = Sent("answer", toServer[i].gen)
      BY <1>1, <1>7, <2>1 DEF AnswersFirst
    <3>2. j \in 1 .. Len(toServer)
      BY <1>1, <2>1
    <3> QED
      BY <1>1, <2>1, <3>1, <3>2
  <2>2. CASE i = Len(toServer) + 1
    <3>1. toServer'[i] = m
      BY <1>1, <2>2
    <3>2. PICK j \in 1 .. Len(toServer) : toServer[j] = Sent("answer", m.gen)
      BY <1>7, <3>1 DEF AnsweredIn
    <3>3. j \in 1 .. i
      BY <1>1, <2>2
    <3> QED
      BY <1>1, <3>1, <3>2, <3>3
  <2> QED
    BY <1>2, <2>1, <2>2
<1> QED
  BY <1>5, <1>6, <1>7 DEF AnswersFirst, Sent

LEMMA ClientPeersKept ==
  ASSUME ClientQueues, ClientPeers, [ClientNext]_clientVars
  PROVE  ClientPeers'
<1>0. Len(iceQueue) \in Nat /\ \A i \in 1 .. Len(iceQueue) : iceQueue[i] \in Gens
  BY QueueDomain DEF ClientQueues
<1>1. ASSUME UNCHANGED <<pcUsed, pcNew, iceQueue, toServer>>, client' = "answer" <=> client = "answer",
             client = "done" => client' = "done"
      PROVE  ClientPeers'
  BY <1>1 DEF ClientPeers, AnsweredIn, AnswersFirst
<1>2. CASE LoopEnds /\ UNCHANGED toServer
  BY <1>2 DEF LoopEnds, ClientPeers, AnswersFirst, AnsweredIn
<1>3. CASE FinishOffer
  <2>1. CASE /\ client = "answer" /\ client' = "relay" /\ pcUsed' = pcNew /\ pcNew' = 0
             /\ toServer' = Append(toServer, Sent("answer", pcNew)) /\ UNCHANGED iceQueue
    <3>1. Sent("answer", pcNew) \in ServerMessages /\ Sent("answer", pcNew).kind # "cand"
      BY DEF Sent, ServerMessages, ClientQueues
    <3>2. AnswersFirst' /\ (\A g : AnsweredIn(toServer, g) => AnsweredIn(toServer', g)) /\ AnsweredIn(toServer', pcNew)
      <4>1. AnswersFirst
        BY DEF ClientPeers
      <4> HIDE DEF Sent
      <4>2. AnswersFirst' /\ (\A g : AnsweredIn(toServer, g) => AnsweredIn(toServer', g)) /\ \A g : Sent("answer", pcNew) = Sent("answer", g) => AnsweredIn(toServer', g)
        BY <2>1, <3>1, <4>1, OneMoreSent
      <4> QED
        BY <4>2
    <3>3. \A i \in 1 .. Len(iceQueue') : AnsweredIn(toServer', iceQueue'[i])
      BY <2>1, <3>2 DEF ClientPeers
    <3> QED
      BY <2>1, <3>2, <3>3 DEF ClientPeers
  <2> QED
    BY <1>2, <1>3, <2>1 DEF FinishOffer
<1>4. CASE SendIce
  <2> DEFINE g == Head(iceQueue)
  <2>1. /\ client = "relay" /\ iceQueue # <<>> /\ g \in Gens /\ g = iceQueue[1] /\ iceQueue' = Tail(iceQueue)
        /\ Len(Tail(iceQueue)) = Len(iceQueue) - 1 /\ \A i \in 1 .. Len(iceQueue) - 1 : Tail(iceQueue)[i] = iceQueue[i + 1]
    BY <1>4, TailFacts DEF SendIce, ClientQueues
  <2>2. \A i \in 1 .. Len(iceQueue) - 1 : i + 1 \in 1 .. Len(iceQueue)
    BY <1>0
  <2>3. 1 \in 1 .. Len(iceQueue) /\ 0 \notin Gens
    BY <1>0, <2>1, QueueDomain DEF ClientQueues, Gens
  <2>4. pcNew = 0 /\ \A i \in 1 .. Len(iceQueue) : AnsweredIn(toServer, iceQueue[i])
    BY <1>0, <2>1, <2>3 DEF ClientPeers
  <2>5. CASE toServer' = Append(toServer, Sent("cand", g)) /\ UNCHANGED <<client, pcUsed, pcNew>>
    <3>1. Sent("cand", g) \in ServerMessages /\ Sent("cand", g).gen = g /\ AnsweredIn(toServer, g)
      BY <2>1, <2>3, <2>4 DEF Sent, ServerMessages, Gens
    <3>2. AnswersFirst' /\ \A h : AnsweredIn(toServer, h) => AnsweredIn(toServer', h)
      BY <2>5, <3>1, OneMoreSent DEF ClientPeers
    <3>3. \A i \in 1 .. Len(iceQueue') : AnsweredIn(toServer', iceQueue'[i])
      BY <2>1, <2>2, <2>4, <3>2
    <3> QED
      BY <2>1, <2>4, <2>5, <3>2, <3>3 DEF ClientPeers
  <2>6. CASE LoopEnds /\ UNCHANGED toServer
    BY <1>2, <2>6
  <2> QED
    BY <1>4, <2>5, <2>6 DEF SendIce, clientDcState
<1>5. ASSUME NEW g \in Gens, OwnCandidate(g) PROVE ClientPeers'
  <2>1. UNCHANGED <<client, pcUsed, pcNew, toServer>> /\ g \in {pcUsed, pcNew} /\ g # 0
        /\ (iceQueue' = iceQueue \/ iceQueue' = Append(iceQueue, g))
    BY <1>5 DEF OwnCandidate
  <2>2. g = pcNew \/ AnsweredIn(toServer, g)
    BY <2>1 DEF ClientPeers
  <2>3. CASE iceQueue' = Append(iceQueue, g)
    <3>1. /\ Len(iceQueue') = Len(iceQueue) + 1 /\ iceQueue'[Len(iceQueue) + 1] = g
          /\ \A i \in 1 .. Len(iceQueue) : iceQueue'[i] = iceQueue[i]
      BY <2>3, AppendFacts DEF ClientQueues
    <3>2. \A i \in 1 .. Len(iceQueue') : i \in 1 .. Len(iceQueue) \/ i = Len(iceQueue) + 1
      BY <1>0, <3>1
    <3> QED
      BY <2>1, <2>2, <3>1, <3>2 DEF ClientPeers, AnsweredIn, AnswersFirst
  <2>4. CASE iceQueue' = iceQueue
    BY <1>1, <2>1, <2>4
  <2> QED
    BY <2>1, <2>3, <2>4
<1>6. CASE TakeOffer
  <2>1. /\ client = "relay" /\ UNCHANGED <<pcUsed, iceQueue, toServer>>
        /\ (client' = "answer" \/ UNCHANGED <<client, pcNew>>)
    BY <1>6 DEF TakeOffer, Takes
  <2>2. pcNew = 0 /\ 0 \notin Gens
    BY <2>1 DEF ClientPeers, Gens
  <2>3. \A i \in 1 .. Len(iceQueue) : AnsweredIn(toServer, iceQueue[i])
    BY <1>0, <2>1, <2>2 DEF ClientPeers
  <2> QED
    BY <2>1, <2>2, <2>3 DEF ClientPeers, AnsweredIn, AnswersFirst
<1>7. CASE ClientLosesLink
  BY <1>2, <1>7 DEF ClientLosesLink
<1>8. CASE \/ ClientProceeds \/ ClientConnectFails \/ ClientTriesAgain \/ OfferComes \/ CandidateComes
           \/ FrameComes \/ TakeCandidate \/ TakeFrameMessage \/ RoomForFrame \/ DecodeFrame
  BY <1>1, <1>8 DEF ClientProceeds, ClientConnectFails, ClientTriesAgain, OfferComes, CandidateComes, FrameComes,
     TakeCandidate, TakeFrameMessage, RoomForFrame, DecodeFrame, Takes, ClientLoopRest
<1>9. CASE \/ UNCHANGED clientVars
           \/ \E g \in Gens : ClientChannelOpens(g) \/ ChannelDelivers(g) \/ ReaderTakes(g) \/ ReaderGives(g)
  BY <1>1, <1>9 DEF ClientChannelOpens, ChannelDelivers, ReaderTakes, ReaderGives, clientVars
<1> QED
  BY <1>3, <1>4, <1>5, <1>6, <1>7, <1>8, <1>9 DEF ClientNext

-----------------------------------------------------------------------------
(* Offers and frames arrive in the order they were sent, and offers only for  *)
(* peer connections still to be made.                                         *)
Key(m) == IF m.kind = "frame" THEN m.n ELSE m.gen
MessagesInOrder(q) ==
  \A i, j \in 1 .. Len(q) : i < j /\ q[i].kind = q[j].kind /\ q[i].kind # "cand" => Key(q[i]) < Key(q[j])
ClientIncoming ==
  /\ MessagesInOrder(clientIn)
  /\ \A i \in 1 .. Len(clientIn) :
       /\ clientIn[i].kind = "offer" => pcUsed < clientIn[i].gen /\ pcNew < clientIn[i].gen /\ clientIn[i].gen <= nOffers
       /\ clientIn[i].kind = "frame" => 0 < clientIn[i].n /\ clientIn[i].n <= nFrames[0]
  /\ pcUsed <= nOffers /\ pcNew <= nOffers
  /\ client = "answer" => pcUsed < pcNew

LEMMA MessageKeys ==
  ASSUME ClientQueues, NEW m \in ClientMessages
  PROVE  /\ m.gen \in Nat /\ m.kind \in {"offer", "cand", "frame"} /\ (m.kind = "frame" => m.n \in Nat /\ m.gen = 0)
         /\ Key(m) \in Nat
BY DEF ClientMessages, Key

LEMMA OneMoreMessage ==
  ASSUME ClientQueues, ClientIncoming, NEW m \in ClientMessages, clientIn' = Append(clientIn, m),
         nOffers <= nOffers', nFrames[0] <= nFrames'[0], nOffers' \in Nat, nFrames'[0] \in Nat, nFrames[0] \in Nat,
         UNCHANGED <<pcUsed, pcNew, client>>,
         m.kind = "offer" => nOffers < m.gen /\ m.gen <= nOffers',
         m.kind = "frame" => nFrames[0] < m.n /\ m.n <= nFrames'[0]
  PROVE  ClientIncoming'
<1>1. /\ Len(clientIn') = Len(clientIn) + 1 /\ Len(clientIn) \in Nat /\ clientIn'[Len(clientIn) + 1] = m
      /\ \A i \in 1 .. Len(clientIn) : clientIn'[i] = clientIn[i] /\ clientIn[i] \in ClientMessages
  BY AppendFacts DEF ClientQueues
<1>2. \A i \in 1 .. Len(clientIn') : i \in 1 .. Len(clientIn) \/ i = Len(clientIn) + 1
  BY <1>1
<1>3. nOffers \in Nat /\ pcUsed \in Nat /\ pcNew \in Nat
  <2>1. MaxOffers \in Nat
    BY OperatorClientAssumption
  <2> QED
    BY <2>1 DEF ClientQueues
<1>4. pcUsed <= nOffers /\ pcNew <= nOffers
  BY DEF ClientIncoming
<1>5. \A i \in 1 .. Len(clientIn) :
        /\ Key(clientIn[i]) \in Nat
        /\ clientIn[i].kind = "offer" => clientIn[i].gen \in Nat /\ Key(clientIn[i]) = clientIn[i].gen
        /\ clientIn[i].kind = "frame" => clientIn[i].n \in Nat /\ Key(clientIn[i]) = clientIn[i].n
  BY <1>1, MessageKeys DEF Key
<1>6. \A i \in 1 .. Len(clientIn) :
        /\ clientIn[i].kind = "offer" => pcUsed < clientIn[i].gen /\ pcNew < clientIn[i].gen /\ clientIn[i].gen <= nOffers
        /\ clientIn[i].kind = "frame" => 0 < clientIn[i].n /\ clientIn[i].n <= nFrames[0]
  BY DEF ClientIncoming
<1>7. m.gen \in Nat /\ m.kind \in {"offer", "cand", "frame"} /\ (m.kind = "frame" => m.n \in Nat) /\ Key(m) \in Nat
  BY MessageKeys
<1>8. /\ m.kind = "offer" => pcUsed < m.gen /\ pcNew < m.gen /\ Key(m) = m.gen
      /\ m.kind = "frame" => 0 < m.n /\ Key(m) = m.n
  BY <1>3, <1>4, <1>7 DEF Key
<1>9. \A i \in 1 .. Len(clientIn') :
        /\ clientIn'[i].kind = "offer" => pcUsed < clientIn'[i].gen /\ pcNew < clientIn'[i].gen /\ clientIn'[i].gen <= nOffers'
        /\ clientIn'[i].kind = "frame" => 0 < clientIn'[i].n /\ clientIn'[i].n <= nFrames'[0]
  <2> SUFFICES ASSUME NEW i \in 1 .. Len(clientIn')
               PROVE  /\ clientIn'[i].kind = "offer" => pcUsed < clientIn'[i].gen /\ pcNew < clientIn'[i].gen /\ clientIn'[i].gen <= nOffers'
                      /\ clientIn'[i].kind = "frame" => 0 < clientIn'[i].n /\ clientIn'[i].n <= nFrames'[0]
    OBVIOUS
  <2>1. CASE i \in 1 .. Len(clientIn)
    BY <1>1, <1>3, <1>5, <1>6, <2>1
  <2>2. CASE i = Len(clientIn) + 1
    BY <1>1, <1>8, <2>2
  <2> QED
    BY <1>2, <2>1, <2>2
<1>10. \A i \in 1 .. Len(clientIn) : m.kind = clientIn[i].kind /\ m.kind # "cand" => Key(clientIn[i]) < Key(m)
  BY <1>3, <1>5, <1>6, <1>7, <1>8
<1>11. MessagesInOrder(clientIn')
  <2> SUFFICES ASSUME NEW i \in 1 .. Len(clientIn'), NEW j \in 1 .. Len(clientIn'), i < j,
                      clientIn'[i].kind = clientIn'[j].kind, clientIn'[i].kind # "cand"
               PROVE  Key(clientIn'[i]) < Key(clientIn'[j])
    BY DEF MessagesInOrder
  <2>1. i \in 1 .. Len(clientIn)
    BY <1>1
  <2>2. CASE j \in 1 .. Len(clientIn)
    BY <1>1, <2>1, <2>2 DEF ClientIncoming, MessagesInOrder
  <2>3. CASE j = Len(clientIn) + 1
    BY <1>1, <1>10, <2>1, <2>3
  <2> QED
    BY <1>2, <2>2, <2>3
<1>12. pcUsed <= nOffers' /\ pcNew <= nOffers'
  BY <1>3, <1>4
<1> QED
  BY <1>9, <1>11, <1>12 DEF ClientIncoming

LEMMA OneMessageLess ==
  ASSUME ClientQueues, ClientIncoming, clientIn # <<>>
  PROVE  /\ MessagesInOrder(Tail(clientIn)) /\ Len(Tail(clientIn)) \in Nat /\ Head(clientIn) \in ClientMessages
         /\ Head(clientIn) = clientIn[1] /\ 1 \in 1 .. Len(clientIn)
         /\ \A i \in 1 .. Len(Tail(clientIn)) :
              /\ i + 1 \in 1 .. Len(clientIn) /\ Tail(clientIn)[i] = clientIn[i + 1]
              /\ clientIn[1].kind = clientIn[i + 1].kind /\ clientIn[1].kind # "cand" => Key(clientIn[1]) < Key(clientIn[i + 1])
<1>1. /\ Len(clientIn) \in Nat \ {0} /\ Len(Tail(clientIn)) = Len(clientIn) - 1 /\ Head(clientIn) = clientIn[1]
      /\ \A i \in 1 .. Len(clientIn) - 1 : Tail(clientIn)[i] = clientIn[i + 1]
      /\ Head(clientIn) \in ClientMessages
  BY TailFacts DEF ClientQueues
<1>2. 1 \in 1 .. Len(clientIn) /\ \A i \in 1 .. Len(Tail(clientIn)) : i + 1 \in 1 .. Len(clientIn) /\ 1 < i + 1
  BY <1>1
<1>3. \A i, j \in 1 .. Len(Tail(clientIn)) : i < j => i + 1 < j + 1
  BY <1>1
<1>4. MessagesInOrder(clientIn)
  BY DEF ClientIncoming
<1>5. MessagesInOrder(Tail(clientIn))
  BY <1>1, <1>2, <1>3, <1>4 DEF MessagesInOrder
<1> QED
  BY <1>1, <1>2, <1>4, <1>5 DEF MessagesInOrder

LEMMA ClientIncomingKept ==
  ASSUME ClientQueues, ClientGives, ClientPeers, ClientIncoming, [ClientNext]_clientVars, ClientQueues'
  PROVE  ClientIncoming'
<1>0. /\ MaxOffers \in Nat /\ MaxClientFrames \in Nat /\ nOffers \in Nat /\ nFrames[0] \in Nat /\ nFrames'[0] \in Nat
      /\ nOffers' \in Nat /\ pcUsed \in Nat /\ pcNew \in Nat
  <2>1. MaxOffers \in Nat /\ MaxClientFrames \in Nat
    BY OperatorClientAssumption
  <2>2. 0 \in 0 .. MaxOffers
    BY <2>1
  <2> QED
    BY <2>1, <2>2 DEF ClientQueues
<1>1. ASSUME UNCHANGED <<clientIn, nOffers>>, nFrames'[0] = nFrames[0],
             UNCHANGED <<pcUsed, pcNew>> \/ (pcUsed' = 0 /\ pcNew' = 0),
             client' = "answer" => client = "answer" /\ UNCHANGED <<pcUsed, pcNew>>
      PROVE  ClientIncoming'
  <2>1. CASE UNCHANGED <<pcUsed, pcNew>>
    BY <1>1, <2>1 DEF ClientIncoming
  <2>2. CASE pcUsed' = 0 /\ pcNew' = 0
    <3>1. \A i \in 1 .. Len(clientIn) : clientIn[i].kind = "offer" => 0 < clientIn[i].gen
      <4>1. \A i \in 1 .. Len(clientIn) : clientIn[i] \in ClientMessages
        BY DEF ClientQueues
      <4>2. \A i \in 1 .. Len(clientIn) : clientIn[i].gen \in Nat
        BY <4>1, MessageKeys
      <4> QED
        BY <1>0, <4>2 DEF ClientIncoming
    <3> QED
      BY <1>0, <1>1, <2>2, <3>1 DEF ClientIncoming
  <2> QED
    BY <1>1, <2>1, <2>2
<1>2. ASSUME clientIn # <<>>, clientIn' = Tail(clientIn), UNCHANGED <<pcUsed, pcNew, nOffers>>, nFrames'[0] = nFrames[0],
             client' = "answer" => client = "answer"
      PROVE  ClientIncoming'
  BY <1>2, OneMessageLess DEF ClientIncoming
<1>3. CASE OfferComes
  <2>1. nOffers' = nOffers + 1 /\ clientIn' = Append(clientIn, Sent("offer", nOffers'))
        /\ UNCHANGED <<pcUsed, pcNew, client, nFrames>>
    BY <1>3 DEF OfferComes
  <2>2. Sent("offer", nOffers') \in ClientMessages /\ Sent("offer", nOffers').kind = "offer"
        /\ Sent("offer", nOffers').gen = nOffers'
    BY <1>0, <2>1 DEF Sent, ClientMessages
  <2>3. nOffers < nOffers' /\ nOffers <= nOffers' /\ nOffers' <= nOffers' /\ nFrames[0] <= nFrames'[0]
    BY <1>0, <2>1
  <2> HIDE DEF Sent
  <2> QED
    BY <1>0, <2>1, <2>2, <2>3, OneMoreMessage
<1>4. CASE CandidateComes
  <2>1. clientIn' = Append(clientIn, Sent("cand", nOffers)) /\ UNCHANGED <<pcUsed, pcNew, client, nFrames, nOffers>>
    BY <1>4 DEF CandidateComes, ClientLoopRest, clientCounts
  <2>2. Sent("cand", nOffers) \in ClientMessages /\ Sent("cand", nOffers).kind = "cand"
    BY <1>0 DEF Sent, ClientMessages
  <2>3. nOffers <= nOffers' /\ nFrames[0] <= nFrames'[0]
    BY <1>0, <2>1
  <2> QED
    BY <1>0, <2>1, <2>2, <2>3, OneMoreMessage
<1>5. CASE FrameComes
  <2> DEFINE m == [kind |-> "frame", gen |-> 0, n |-> nFrames'[0]]
  <2>1. nFrames' = [nFrames EXCEPT ![0] = @ + 1] /\ clientIn' = Append(clientIn, m)
        /\ UNCHANGED <<pcUsed, pcNew, client, nOffers>>
    BY <1>5 DEF FrameComes
  <2>2. nFrames'[0] = nFrames[0] + 1
    BY <1>0, <2>1 DEF ClientQueues
  <2>3. m \in ClientMessages /\ m.kind = "frame" /\ m.n = nFrames'[0]
    BY <1>0 DEF ClientMessages
  <2>4. nFrames[0] < nFrames'[0] /\ nFrames[0] <= nFrames'[0] /\ nFrames'[0] <= nFrames'[0] /\ nOffers <= nOffers'
    BY <1>0, <2>1, <2>2
  <2> HIDE DEF m
  <2> QED
    BY <1>0, <2>1, <2>3, <2>4, OneMoreMessage
<1>6. CASE TakeOffer
  <2>1. /\ client = "relay" /\ clientIn # <<>> /\ Head(clientIn).kind = "offer" /\ clientIn' = Tail(clientIn)
        /\ UNCHANGED <<pcUsed, nOffers, nFrames>>
        /\ \/ client' = "answer" /\ pcNew' = Head(clientIn).gen
           \/ UNCHANGED <<client, pcNew>>
    BY <1>6 DEF TakeOffer, Takes, clientCounts
  <2>2. CASE UNCHANGED <<client, pcNew>>
    BY <1>2, <2>1, <2>2
  <2>3. CASE client' = "answer" /\ pcNew' = Head(clientIn).gen
    <3>1. /\ pcUsed < pcNew' /\ pcNew' <= nOffers /\ pcNew' = Key(clientIn[1]) /\ clientIn[1].kind = "offer"
      BY <2>1, <2>3, OneMessageLess DEF ClientIncoming, Key
    <3>2. \A i \in 1 .. Len(Tail(clientIn)) : Tail(clientIn)[i].kind = "offer" => pcNew' < Tail(clientIn)[i].gen
      BY <2>1, <3>1, OneMessageLess DEF Key
    <3> QED
      BY <2>1, <2>3, <3>1, <3>2, OneMessageLess DEF ClientIncoming
  <2> QED
    BY <2>1, <2>2, <2>3
<1>7. CASE FinishOffer
  <2>1. CASE LoopEnds
    BY <1>1, <1>7, <2>1 DEF FinishOffer, LoopEnds, clientCounts
  <2>2. CASE client = "answer" /\ client' = "relay" /\ pcUsed' = pcNew /\ pcNew' = 0
    <3>1. UNCHANGED <<clientIn, nOffers, nFrames>>
      BY <1>7 DEF FinishOffer, clientCounts
    <3>2. \A i \in 1 .. Len(clientIn) : clientIn[i].kind = "offer" => 0 < clientIn[i].gen
      <4>1. \A i \in 1 .. Len(clientIn) : clientIn[i] \in ClientMessages
        BY DEF ClientQueues
      <4>2. \A i \in 1 .. Len(clientIn) : clientIn[i].gen \in Nat
        BY <4>1, MessageKeys
      <4> QED
        BY <1>0, <4>2 DEF ClientIncoming
    <3> QED
      BY <1>0, <2>2, <3>1, <3>2 DEF ClientIncoming
  <2> QED
    BY <1>7, <2>1, <2>2 DEF FinishOffer
<1>8. CASE TakeCandidate
  BY <1>2, <1>8 DEF TakeCandidate, Takes, clientCounts
<1>9. CASE TakeFrameMessage \/ RoomForFrame
  BY <1>1, <1>2, <1>9 DEF TakeFrameMessage, RoomForFrame, ClientGives, clientCounts
<1>10. CASE SendIce
  BY <1>1, <1>10 DEF SendIce, LoopEnds, clientCounts
<1>11. CASE ClientLosesLink \/ ClientProceeds \/ ClientConnectFails \/ ClientTriesAgain \/ DecodeFrame \/ UNCHANGED clientVars
  BY <1>1, <1>11 DEF ClientLosesLink, LoopEnds, ClientProceeds, ClientConnectFails, ClientTriesAgain, DecodeFrame,
     ClientLoopRest, clientCounts, clientVars
<1>12. ASSUME NEW g \in Gens, OwnCandidate(g) \/ ClientChannelOpens(g) \/ ReaderTakes(g) \/ ReaderGives(g) \/ ChannelDelivers(g)
       PROVE  ClientIncoming'
  <2>1. /\ UNCHANGED nFrames \/ nFrames' = [nFrames EXCEPT ![g] = @ + 1]
        /\ UNCHANGED <<clientIn, nOffers, pcUsed, pcNew, client>>
    BY <1>12 DEF OwnCandidate, ClientChannelOpens, ReaderTakes, ReaderGives, ChannelDelivers, clientCounts
  <2>2. g # 0
    BY DEF Gens
  <2>3. nFrames'[0] = nFrames[0]
    BY <1>0, <2>1, <2>2 DEF ClientQueues
  <2> QED
    BY <1>1, <2>1, <2>3
<1> QED
  BY <1>3, <1>4, <1>5, <1>6, <1>7, <1>8, <1>9, <1>10, <1>11, <1>12 DEF ClientNext

-----------------------------------------------------------------------------
(* The frames on their way to the decode chain and through it.                *)
ClientF == decoded \o frameQueue
Before(e, f) == e.gen < f.gen \/ (e.gen = f.gen /\ e.n < f.n)
FramesInOrder(q) == \A i, j \in 1 .. Len(q) : i < j /\ (q[i].gen = 0 <=> q[j].gen = 0) => Before(q[i], q[j])

(* A reader's frames are behind all that other channels delivered.            *)
Delivered(q) ==
  /\ FramesInOrder(q)
  /\ \A i \in 1 .. Len(q) : 0 < q[i].n /\ q[i].n <= nFrames[q[i].gen]
  /\ \A i \in 1 .. Len(q), j \in 1 .. Len(clientIn) :
       q[i].gen = 0 /\ clientIn[j].kind = "frame" => q[i].n < clientIn[j].n
  /\ client # "done" => \A i \in 1 .. Len(q) : q[i].gen <= pcUsed
  /\ \A r \in readers, i \in 1 .. Len(q) :
       /\ q[i].gen <= r
       /\ q[i].gen = r => (readerHas[r] # 0 => q[i].n < readerHas[r]) /\ Between(spooled[r], q[i].n, nFrames[r])
OneReader == \A r, s \in readers : r = s /\ r <= pcUsed /\ client # "done"
ClientFrameInv == Delivered(ClientF) /\ OneReader

LEMMA ClientFTyped ==
  ASSUME ClientQueues
  PROVE  /\ ClientF \in Seq(ClientFrames) /\ Len(ClientF) \in Nat /\ MaxOffers \in Nat
         /\ \A i \in 1 .. Len(ClientF) : ClientF[i].gen \in 0 .. MaxOffers /\ ClientF[i].n \in Nat
<1>1. ClientF \in Seq(ClientFrames) /\ Len(ClientF) \in Nat
  BY ConcatProperties DEF ClientF, ClientQueues
<1>2. \A i \in 1 .. Len(ClientF) : ClientF[i] \in ClientFrames
  BY <1>1
<1> QED
  BY <1>1, <1>2, OperatorClientAssumption DEF ClientFrames

(* One frame more in the queue: behind those of its source, and of a channel  *)
(* no older than any.                                                         *)
LEMMA OneMoreFrame ==
  ASSUME ClientQueues, FramesInOrder(ClientF), NEW f \in ClientFrames, frameQueue' = Append(frameQueue, f), UNCHANGED decoded,
         \A i \in 1 .. Len(ClientF) : (ClientF[i].gen = 0 <=> f.gen = 0) => Before(ClientF[i], f)
  PROVE  /\ FramesInOrder(ClientF') /\ Len(ClientF') = Len(ClientF) + 1 /\ ClientF'[Len(ClientF) + 1] = f
         /\ \A i \in 1 .. Len(ClientF) : ClientF'[i] = ClientF[i]
         /\ \A i \in 1 .. Len(ClientF') : i \in 1 .. Len(ClientF) \/ i = Len(ClientF) + 1
<1>1. ClientF' = Append(ClientF, f)
  BY AppendAfter DEF ClientF, ClientQueues
<1>2. /\ Len(ClientF') = Len(ClientF) + 1 /\ ClientF'[Len(ClientF) + 1] = f /\ Len(ClientF) \in Nat
      /\ \A i \in 1 .. Len(ClientF) : ClientF'[i] = ClientF[i]
  BY <1>1, ClientFTyped, AppendFacts
<1>3. \A i \in 1 .. Len(ClientF') : i \in 1 .. Len(ClientF) \/ i = Len(ClientF) + 1
  BY <1>2
<1>4. ASSUME NEW i \in 1 .. Len(ClientF'), NEW j \in 1 .. Len(ClientF'), i < j,
             ClientF'[i].gen = 0 <=> ClientF'[j].gen = 0
      PROVE  Before(ClientF'[i], ClientF'[j])
  <2>1. i \in 1 .. Len(ClientF)
    BY <1>2, <1>4
  <2>2. CASE j \in 1 .. Len(ClientF)
    BY <1>2, <1>4, <2>1, <2>2 DEF FramesInOrder
  <2>3. CASE j = Len(ClientF) + 1
    BY <1>2, <1>4, <2>1, <2>3
  <2> QED
    BY <1>3, <2>2, <2>3
<1> QED
  BY <1>2, <1>3, <1>4 DEF FramesInOrder

LEMMA ClientFrameInvKept ==
  ASSUME ClientQueues, ClientSpools, ClientGives, ClientPeers, ClientIncoming, ClientFrameInv, [ClientNext]_clientVars,
         ClientQueues', ClientSpools'
  PROVE  ClientFrameInv'
<1>0. /\ MaxOffers \in Nat /\ MaxClientFrames \in Nat /\ pcUsed \in Nat /\ pcNew \in Nat /\ Len(ClientF) \in Nat
      /\ Gens \subseteq Nat \ {0} /\ Gens \subseteq 0 .. MaxOffers /\ 0 \in 0 .. MaxOffers
      /\ \A i \in 1 .. Len(ClientF) : ClientF[i].gen \in 0 .. MaxOffers /\ ClientF[i].gen \in Nat /\ ClientF[i].n \in Nat
      /\ \A g \in 0 .. MaxOffers : nFrames[g] \in Nat
  <2>1. MaxOffers \in Nat /\ MaxClientFrames \in Nat
    BY OperatorClientAssumption
  <2>2. Gens \subseteq Nat \ {0} /\ Gens \subseteq 0 .. MaxOffers /\ 0 \in 0 .. MaxOffers
    BY <2>1 DEF Gens
  <2>3. \A g \in 0 .. MaxOffers : nFrames[g] \in Nat
    <3>1. \A g \in 0 .. MaxOffers : nFrames[g] \in 0 .. MaxClientFrames
      BY DEF ClientQueues
    <3>2. \A k \in 0 .. MaxClientFrames : k \in Nat
      BY <2>1
    <3> QED
      BY <3>1, <3>2
  <2>4. \A g \in 0 .. MaxOffers : g \in Nat
    BY <2>1
  <2> QED
    BY <2>1, <2>2, <2>3, <2>4, ClientFTyped DEF ClientQueues
<1>00. Delivered(ClientF) /\ OneReader
  BY DEF ClientFrameInv
(* Nothing but the state of the loop changes, and its queue gets shorter.     *)
<1>1. ASSUME UNCHANGED <<ClientF, spooled, readers, readerHas, nFrames>>, pcUsed' \in Nat,
             pcUsed <= pcUsed', client' = "done" => client = "done", client = "done" => client' = "done",
             UNCHANGED clientIn \/ (clientIn # <<>> /\ clientIn' = Tail(clientIn))
      PROVE  ClientFrameInv'
  <2>1. ClientF' = ClientF
    BY <1>1
  <2>2. \A j \in 1 .. Len(clientIn') : \E k \in 1 .. Len(clientIn) : clientIn'[j] = clientIn[k]
    <3>1. CASE UNCHANGED clientIn
      BY <3>1
    <3>2. CASE clientIn # <<>> /\ clientIn' = Tail(clientIn)
      BY <3>2, OneMessageLess
    <3> QED
      BY <1>1, <3>1, <3>2
  <2>3. \A i \in 1 .. Len(ClientF), j \in 1 .. Len(clientIn') :
          ClientF[i].gen = 0 /\ clientIn'[j].kind = "frame" => ClientF[i].n < clientIn'[j].n
    BY <1>00, <2>2 DEF Delivered
  <2>4. client' # "done" => \A i \in 1 .. Len(ClientF) : ClientF[i].gen <= pcUsed'
    BY <1>00, <1>0, <1>1 DEF Delivered
  <2>5. Delivered(ClientF)'
    <3>1. /\ FramesInOrder(ClientF)
          /\ \A i \in 1 .. Len(ClientF) : 0 < ClientF[i].n /\ ClientF[i].n <= nFrames[ClientF[i].gen]
          /\ \A r \in readers, i \in 1 .. Len(ClientF) :
               /\ ClientF[i].gen <= r
               /\ ClientF[i].gen = r => (readerHas[r] # 0 => ClientF[i].n < readerHas[r])
                                        /\ Between(spooled[r], ClientF[i].n, nFrames[r])
      BY <1>00 DEF Delivered
    <3> QED
      BY <1>1, <2>1, <2>3, <2>4, <3>1 DEF Delivered
  <2>6. OneReader'
    <3>1. \A r \in readers : r \in Nat
      BY <1>0 DEF ClientSpools
    <3> QED
      BY <1>00, <1>0, <1>1, <3>1 DEF OneReader
  <2> QED
    BY <2>5, <2>6 DEF ClientFrameInv
<1>01. UNCHANGED <<decoded, frameQueue>> => UNCHANGED ClientF
  BY DEF ClientF
<1>02. \A g \in Gens : /\ spooled[g] \in Seq(Int) /\ Rises(spooled[g]) /\ Between(spooled[g], readerHas[g], nFrames[g])
                       /\ readerHas[g] \in Nat /\ readerHas[g] <= nFrames[g] /\ nFrames[g] \in Nat
  BY <1>0 DEF ClientSpools
(* The loop ends: nothing more will be read.                                  *)
<1>2. ASSUME LoopEnds, UNCHANGED <<decoded, frameQueue, nFrames, clientIn>> PROVE ClientFrameInv'
  <2>1. UNCHANGED ClientF /\ readers' = {} /\ client' = "done"
    BY <1>01, <1>2 DEF LoopEnds
  <2> QED
    BY <1>00, <1>2, <2>1 DEF ClientFrameInv, Delivered, OneReader
(* The server sends something.                                                *)
<1>3. ASSUME NEW m \in ClientMessages, clientIn' = Append(clientIn, m), m.kind = "frame" => nFrames[0] < m.n,
             UNCHANGED <<client, pcUsed, spooled, readers, readerHas, decoded, frameQueue>>,
             nFrames[0] <= nFrames'[0], nFrames'[0] \in Nat, \A g \in Gens : nFrames'[g] = nFrames[g]
      PROVE  ClientFrameInv'
  <2>1. /\ Len(clientIn') = Len(clientIn) + 1 /\ Len(clientIn) \in Nat /\ clientIn'[Len(clientIn) + 1] = m
        /\ \A i \in 1 .. Len(clientIn) : clientIn'[i] = clientIn[i]
    BY <1>3, AppendFacts DEF ClientQueues
  <2>2. \A i \in 1 .. Len(clientIn') : i \in 1 .. Len(clientIn) \/ i = Len(clientIn) + 1
    BY <2>1
  <2>3. UNCHANGED ClientF
    BY <1>01, <1>3
  <2>4. \A g \in 0 .. MaxOffers : nFrames[g] <= nFrames'[g] /\ nFrames'[g] \in Nat
    <3>1. \A g \in 0 .. MaxOffers : g = 0 \/ g \in Gens
      BY <1>0 DEF Gens
    <3> QED
      BY <1>0, <1>3, <3>1
  <2>5. \A i \in 1 .. Len(ClientF) : 0 < ClientF[i].n /\ ClientF[i].n <= nFrames[ClientF[i].gen]
    BY <1>00 DEF Delivered
  <2>6. \A i \in 1 .. Len(ClientF) : ClientF[i].n <= nFrames'[ClientF[i].gen]
    BY <1>0, <2>4, <2>5
  <2>7. \A i \in 1 .. Len(ClientF) : ClientF[i].gen = 0 /\ m.kind = "frame" => ClientF[i].n < m.n
    <3>1. m.kind = "frame" => m.n \in Nat
      BY MessageKeys
    <3> QED
      BY <1>0, <1>3, <2>5, <3>1
  <2>8. \A i \in 1 .. Len(ClientF), j \in 1 .. Len(clientIn') :
          ClientF[i].gen = 0 /\ clientIn'[j].kind = "frame" => ClientF[i].n < clientIn'[j].n
    BY <1>00, <2>1, <2>2, <2>7 DEF Delivered
  <2>9. \A r \in readers, i \in 1 .. Len(ClientF) :
          /\ ClientF[i].gen <= r
          /\ ClientF[i].gen = r => (readerHas[r] # 0 => ClientF[i].n < readerHas[r])
                                   /\ Between(spooled[r], ClientF[i].n, nFrames'[r])
    <3>1. readers \subseteq Gens
      BY DEF ClientSpools
    <3> QED
      BY <1>00, <1>3, <3>1 DEF Delivered
  <2>10. FramesInOrder(ClientF) /\ (client # "done" => \A i \in 1 .. Len(ClientF) : ClientF[i].gen <= pcUsed)
    BY <1>00 DEF Delivered
  <2>11. Delivered(ClientF)'
    BY <1>3, <2>3, <2>5, <2>6, <2>8, <2>9, <2>10 DEF Delivered
  <2>12. OneReader'
    BY <1>00, <1>3 DEF OneReader
  <2> QED
    BY <2>11, <2>12 DEF ClientFrameInv
<1>4. CASE OfferComes
  <2>1. Sent("offer", nOffers') \in ClientMessages /\ Sent("offer", nOffers').kind # "frame"
    BY <1>0, <1>4 DEF OfferComes, Sent, ClientMessages, ClientQueues
  <2> QED
    BY <1>0, <1>3, <1>4, <2>1 DEF OfferComes, clientDcState
<1>5. CASE CandidateComes
  <2>1. Sent("cand", nOffers) \in ClientMessages /\ Sent("cand", nOffers).kind # "frame"
    BY <1>0 DEF Sent, ClientMessages, ClientQueues
  <2> QED
    BY <1>0, <1>3, <1>5, <2>1 DEF CandidateComes, ClientLoopRest, clientDcState, clientCounts
<1>6. CASE FrameComes
  <2> DEFINE m == [kind |-> "frame", gen |-> 0, n |-> nFrames'[0]]
  <2>1. nFrames' = [nFrames EXCEPT ![0] = @ + 1] /\ clientIn' = Append(clientIn, m)
        /\ UNCHANGED <<client, pcUsed, clientDcState, decoded, frameQueue>>
    BY <1>6 DEF FrameComes
  <2>2. nFrames'[0] = nFrames[0] + 1 /\ \A g \in Gens : nFrames'[g] = nFrames[g]
    BY <1>0, <2>1 DEF ClientQueues
  <2>3. nFrames'[0] \in Nat /\ nFrames[0] < nFrames'[0] /\ nFrames[0] <= nFrames'[0]
    BY <1>0, <2>2
  <2>4. m \in ClientMessages /\ m.n = nFrames'[0]
    BY <2>3 DEF ClientMessages
  <2> HIDE DEF m
  <2> QED
    BY <1>3, <2>1, <2>2, <2>3, <2>4 DEF clientDcState
(* A frame of the socket enters the queue.                                    *)
<1>7. CASE TakeFrameMessage \/ RoomForFrame
  <2> DEFINE f == Framed(0, Head(clientIn).n)
  <2>1. CASE client' = "give" /\ UNCHANGED <<frameQueue, clientIn>>
    BY <1>0, <1>01, <1>1, <1>7, <2>1 DEF TakeFrameMessage, RoomForFrame, clientDcState, clientCounts
  <2>2. CASE frameQueue' = Append(frameQueue, f) /\ clientIn' = Tail(clientIn)
    <3>1. /\ clientIn # <<>> /\ Head(clientIn).kind = "frame" /\ client # "done" /\ client' # "done"
          /\ UNCHANGED <<pcUsed, channelOf, spooled, readers, readerHas, decoded, nFrames>>
      BY <1>7 DEF TakeFrameMessage, RoomForFrame, ClientGives, clientDcState, clientCounts
    <3>2. /\ Head(clientIn) = clientIn[1] /\ 1 \in 1 .. Len(clientIn) /\ Head(clientIn).n \in Nat
          /\ 0 < Head(clientIn).n /\ Head(clientIn).n <= nFrames[0]
      BY <3>1, OneMessageLess, MessageKeys DEF ClientIncoming
    <3>3. f \in ClientFrames /\ f.gen = 0 /\ f.n = Head(clientIn).n
      BY <1>0, <3>2 DEF Framed, ClientFrames
    <3> HIDE DEF f
    <3>4. \A i \in 1 .. Len(ClientF) : (ClientF[i].gen = 0 <=> f.gen = 0) => Before(ClientF[i], f)
      BY <1>00, <3>1, <3>2, <3>3 DEF Delivered, Before
    <3>5. /\ FramesInOrder(ClientF') /\ Len(ClientF') = Len(ClientF) + 1 /\ ClientF'[Len(ClientF) + 1] = f
          /\ \A i \in 1 .. Len(ClientF) : ClientF'[i] = ClientF[i]
          /\ \A i \in 1 .. Len(ClientF') : i \in 1 .. Len(ClientF) \/ i = Len(ClientF) + 1
      BY <1>00, <2>2, <3>1, <3>3, <3>4, OneMoreFrame DEF Delivered
    <3>6. \A j \in 1 .. Len(clientIn') :
            /\ clientIn'[j].kind = "frame" => f.n < clientIn'[j].n
            /\ \E k \in 1 .. Len(clientIn) : clientIn'[j] = clientIn[k]
      BY <2>2, <3>1, <3>2, <3>3, OneMessageLess DEF Key
    <3>7. \A i \in 1 .. Len(ClientF'), j \in 1 .. Len(clientIn') :
            ClientF'[i].gen = 0 /\ clientIn'[j].kind = "frame" => ClientF'[i].n < clientIn'[j].n
      BY <1>00, <3>5, <3>6 DEF Delivered
    <3>8. \A i \in 1 .. Len(ClientF') : 0 < ClientF'[i].n /\ ClientF'[i].n <= nFrames[ClientF'[i].gen]
      BY <1>00, <3>2, <3>3, <3>5 DEF Delivered
    <3>9. \A i \in 1 .. Len(ClientF') : ClientF'[i].gen <= pcUsed
      BY <1>00, <1>0, <3>1, <3>3, <3>5 DEF Delivered
    <3>10. \A r \in readers, i \in 1 .. Len(ClientF') :
             /\ ClientF'[i].gen <= r
             /\ ClientF'[i].gen = r => (readerHas[r] # 0 => ClientF'[i].n < readerHas[r])
                                       /\ Between(spooled[r], ClientF'[i].n, nFrames[r])
      <4>1. \A r \in readers : r \in Nat \ {0}
        BY <1>0 DEF ClientSpools
      <4>2. \A r \in readers : f.gen <= r /\ f.gen # r
        BY <3>3, <4>1
      <4> QED
        BY <1>00, <3>5, <4>2 DEF Delivered
    <3>11. Delivered(ClientF)'
      BY <3>1, <3>5, <3>7, <3>8, <3>9, <3>10 DEF Delivered
    <3>12. OneReader'
      BY <1>00, <3>1 DEF OneReader
    <3> QED
      BY <3>11, <3>12 DEF ClientFrameInv
  <2> QED
    BY <1>7, <2>1, <2>2 DEF TakeFrameMessage, RoomForFrame
(* A frame of a data channel enters the queue.                                *)
<1>8. ASSUME NEW g \in Gens, ReaderGives(g) PROVE ClientFrameInv'
  <2> DEFINE f == Framed(g, readerHas[g])
  <2>1. /\ g \in readers /\ readerHas[g] # 0 /\ frameQueue' = Append(frameQueue, f)
        /\ readerHas' = [readerHas EXCEPT ![g] = 0]
        /\ UNCHANGED <<client, clientIn, pcUsed, spooled, readers, decoded, nFrames>>
    BY <1>8 DEF ReaderGives, clientCounts
  <2>2. f \in ClientFrames /\ f.gen = g /\ f.n = readerHas[g] /\ g # 0
    BY <1>0, <1>02 DEF Framed, ClientFrames
  <2> HIDE DEF f
  <2>3. \A i \in 1 .. Len(ClientF) : (ClientF[i].gen = 0 <=> f.gen = 0) => Before(ClientF[i], f)
    <3>1. \A i \in 1 .. Len(ClientF) : ClientF[i].gen <= g /\ (ClientF[i].gen = g => ClientF[i].n < readerHas[g])
      BY <1>00, <2>1 DEF Delivered
    <3> QED
      BY <1>0, <2>2, <3>1 DEF Before
  <2>4. /\ FramesInOrder(ClientF') /\ Len(ClientF') = Len(ClientF) + 1 /\ ClientF'[Len(ClientF) + 1] = f
        /\ \A i \in 1 .. Len(ClientF) : ClientF'[i] = ClientF[i]
        /\ \A i \in 1 .. Len(ClientF') : i \in 1 .. Len(ClientF) \/ i = Len(ClientF) + 1
    BY <1>00, <2>1, <2>2, <2>3, OneMoreFrame DEF Delivered
  <2>5. \A i \in 1 .. Len(ClientF') : 0 < ClientF'[i].n /\ ClientF'[i].n <= nFrames[ClientF'[i].gen]
    <3>1. 0 < f.n /\ f.n <= nFrames[f.gen]
      BY <1>02, <2>1, <2>2
    <3> QED
      BY <1>00, <2>4, <3>1 DEF Delivered
  <2>6. \A i \in 1 .. Len(ClientF'), j \in 1 .. Len(clientIn) :
          ClientF'[i].gen = 0 /\ clientIn[j].kind = "frame" => ClientF'[i].n < clientIn[j].n
    BY <1>00, <2>2, <2>4 DEF Delivered
  <2>7. client # "done" => \A i \in 1 .. Len(ClientF') : ClientF'[i].gen <= pcUsed
    BY <1>00, <2>1, <2>2, <2>4 DEF Delivered, OneReader
  <2>8. \A r \in readers, i \in 1 .. Len(ClientF') :
          /\ ClientF'[i].gen <= r
          /\ ClientF'[i].gen = r => (readerHas'[r] # 0 => ClientF'[i].n < readerHas'[r])
                                    /\ Between(spooled[r], ClientF'[i].n, nFrames[r])
    <3> SUFFICES ASSUME NEW r \in readers, NEW i \in 1 .. Len(ClientF')
                 PROVE  /\ ClientF'[i].gen <= r
                        /\ ClientF'[i].gen = r => (readerHas'[r] # 0 => ClientF'[i].n < readerHas'[r])
                                                  /\ Between(spooled[r], ClientF'[i].n, nFrames[r])
      OBVIOUS
    <3>1. r = g /\ readerHas'[g] = 0
      BY <1>00, <2>1 DEF OneReader, ClientSpools
    <3>2. CASE i \in 1 .. Len(ClientF)
      BY <1>00, <2>1, <2>4, <3>1, <3>2 DEF Delivered
    <3>3. CASE i = Len(ClientF) + 1
      BY <1>0, <1>02, <2>2, <2>4, <3>1, <3>3
    <3> QED
      BY <2>4, <3>2, <3>3
  <2>9. Delivered(ClientF)'
    BY <2>1, <2>4, <2>5, <2>6, <2>7, <2>8 DEF Delivered
  <2>10. OneReader'
    BY <1>00, <2>1 DEF OneReader
  <2> QED
    BY <2>9, <2>10 DEF ClientFrameInv
<1>9. ASSUME NEW g \in Gens, ChannelDelivers(g) PROVE ClientFrameInv'
  <2>1. /\ nFrames' = [nFrames EXCEPT ![g] = @ + 1] /\ spooled' = [spooled EXCEPT ![g] = Append(@, nFrames'[g])]
        /\ UNCHANGED <<client, clientIn, pcUsed, readers, readerHas, decoded, frameQueue>>
    BY <1>9 DEF ChannelDelivers
  <2>2. nFrames'[g] = nFrames[g] + 1 /\ \A h \in 0 .. MaxOffers : h # g => nFrames'[h] = nFrames[h]
    BY <1>0, <2>1 DEF ClientQueues
  <2>3. spooled'[g] = Append(spooled[g], nFrames[g] + 1) /\ \A h \in Gens : h # g => spooled'[h] = spooled[h]
    BY <2>1, <2>2 DEF ClientSpools
  <2>4. UNCHANGED ClientF
    BY <1>01, <2>1
  <2>5. \A i \in 1 .. Len(ClientF) : 0 < ClientF[i].n /\ ClientF[i].n <= nFrames[ClientF[i].gen]
    BY <1>00 DEF Delivered
  <2>6. \A h \in 0 .. MaxOffers : nFrames[h] <= nFrames'[h] /\ nFrames'[h] \in Nat
    BY <1>0, <2>2
  <2>7. \A i \in 1 .. Len(ClientF) : ClientF[i].n <= nFrames'[ClientF[i].gen]
    <3> SUFFICES ASSUME NEW i \in 1 .. Len(ClientF) PROVE ClientF[i].n <= nFrames'[ClientF[i].gen]
      OBVIOUS
    <3>1. /\ ClientF[i].n \in Nat /\ ClientF[i].n <= nFrames[ClientF[i].gen] /\ nFrames[ClientF[i].gen] \in Nat
          /\ nFrames[ClientF[i].gen] <= nFrames'[ClientF[i].gen] /\ nFrames'[ClientF[i].gen] \in Nat
      BY <1>0, <2>5, <2>6
    <3> QED
      BY <3>1
  <2>8. \A r \in readers, i \in 1 .. Len(ClientF) :
          /\ ClientF[i].gen <= r
          /\ ClientF[i].gen = r => (readerHas[r] # 0 => ClientF[i].n < readerHas[r])
                                   /\ Between(spooled'[r], ClientF[i].n, nFrames'[r])
    <3> SUFFICES ASSUME NEW r \in readers, NEW i \in 1 .. Len(ClientF)
                 PROVE  /\ ClientF[i].gen <= r
                        /\ ClientF[i].gen = r => (readerHas[r] # 0 => ClientF[i].n < readerHas[r])
                                                 /\ Between(spooled'[r], ClientF[i].n, nFrames'[r])
      OBVIOUS
    <3>1. /\ ClientF[i].gen <= r /\ r \in Gens
          /\ ClientF[i].gen = r => (readerHas[r] # 0 => ClientF[i].n < readerHas[r])
                                   /\ Between(spooled[r], ClientF[i].n, nFrames[r])
      BY <1>00 DEF Delivered, ClientSpools
    <3>2. CASE r # g
      BY <1>0, <2>2, <2>3, <3>1, <3>2
    <3>3. CASE r = g /\ ClientF[i].gen = g
      <4>1. /\ ClientF[i].n \in Int /\ nFrames[g] \in Int /\ nFrames[g] + 1 \in Int /\ nFrames[g] < nFrames[g] + 1
            /\ ClientF[i].n < nFrames[g] + 1
        BY <1>0, <1>02, <2>5, <3>3
      <4>2. Between(spooled'[g], ClientF[i].n, nFrames'[g])
        BY <1>02, <2>2, <2>3, <3>1, <3>3, <4>1, AppendRises
      <4> QED
        BY <3>1, <3>3, <4>2
    <3> QED
      BY <3>1, <3>2, <3>3
  <2>9. /\ FramesInOrder(ClientF) /\ (client # "done" => \A i \in 1 .. Len(ClientF) : ClientF[i].gen <= pcUsed)
        /\ \A i \in 1 .. Len(ClientF), j \in 1 .. Len(clientIn) :
             ClientF[i].gen = 0 /\ clientIn[j].kind = "frame" => ClientF[i].n < clientIn[j].n
    BY <1>00 DEF Delivered
  <2>10. Delivered(ClientF)'
    BY <2>1, <2>4, <2>5, <2>7, <2>8, <2>9 DEF Delivered
  <2>11. OneReader'
    BY <1>00, <2>1 DEF OneReader
  <2> QED
    BY <2>10, <2>11 DEF ClientFrameInv
(* The reader takes what its channel spooled, or has read all of it.          *)
<1>10. ASSUME NEW g \in Gens, ReaderTakes(g) PROVE ClientFrameInv'
  <2>1. g \in readers /\ readerHas[g] = 0 /\ UNCHANGED <<client, clientIn, pcUsed, decoded, frameQueue, nFrames, ClientF>>
    BY <1>01, <1>10 DEF ReaderTakes, clientCounts
  <2>2. /\ FramesInOrder(ClientF) /\ (client # "done" => \A i \in 1 .. Len(ClientF) : ClientF[i].gen <= pcUsed)
        /\ \A i \in 1 .. Len(ClientF), j \in 1 .. Len(clientIn) :
             ClientF[i].gen = 0 /\ clientIn[j].kind = "frame" => ClientF[i].n < clientIn[j].n
        /\ \A i \in 1 .. Len(ClientF) : 0 < ClientF[i].n /\ ClientF[i].n <= nFrames[ClientF[i].gen]
    BY <1>00 DEF Delivered
  <2>3. CASE readers' = readers \ {g} /\ UNCHANGED <<readerHas, spooled>>
    <3>1. \A r \in readers', i \in 1 .. Len(ClientF) :
            /\ ClientF[i].gen <= r
            /\ ClientF[i].gen = r => (readerHas[r] # 0 => ClientF[i].n < readerHas[r])
                                     /\ Between(spooled[r], ClientF[i].n, nFrames[r])
      BY <1>00, <2>3 DEF Delivered
    <3>2. Delivered(ClientF)'
      BY <2>1, <2>2, <2>3, <3>1 DEF Delivered
    <3>3. OneReader'
      BY <1>00, <2>1, <2>3 DEF OneReader
    <3> QED
      BY <3>2, <3>3 DEF ClientFrameInv
  <2>4. CASE /\ spooled[g] # <<>> /\ readerHas' = [readerHas EXCEPT ![g] = Head(spooled[g])]
             /\ spooled' = [spooled EXCEPT ![g] = Tail(@)] /\ UNCHANGED readers
    <3>1. readerHas'[g] = Head(spooled[g]) /\ spooled'[g] = Tail(spooled[g])
      BY <2>4 DEF ClientSpools
    <3>2. \A r \in readers, i \in 1 .. Len(ClientF) :
            /\ ClientF[i].gen <= r
            /\ ClientF[i].gen = r => (readerHas'[r] # 0 => ClientF[i].n < readerHas'[r])
                                     /\ Between(spooled'[r], ClientF[i].n, nFrames[r])
      <4> SUFFICES ASSUME NEW r \in readers, NEW i \in 1 .. Len(ClientF)
                   PROVE  /\ ClientF[i].gen <= r
                          /\ ClientF[i].gen = r => (readerHas'[r] # 0 => ClientF[i].n < readerHas'[r])
                                                   /\ Between(spooled'[r], ClientF[i].n, nFrames[r])
        OBVIOUS
      <4>1. r = g /\ ClientF[i].gen <= r /\ (ClientF[i].gen = g => Between(spooled[g], ClientF[i].n, nFrames[g]))
        BY <1>00, <2>1 DEF Delivered, OneReader
      <4>2. CASE ClientF[i].gen = g
        <5>1. ClientF[i].n \in Int /\ nFrames[g] \in Int
          BY <1>0, <1>02
        <5>2. Between(Tail(spooled[g]), ClientF[i].n, nFrames[g]) /\ ClientF[i].n < Head(spooled[g])
          BY <1>02, <2>4, <4>1, <4>2, <5>1, TailRises
        <5> QED
          BY <3>1, <4>1, <5>2
      <4> QED
        BY <4>1, <4>2
    <3>3. Delivered(ClientF)'
      BY <2>1, <2>2, <2>4, <3>2 DEF Delivered
    <3>4. OneReader'
      BY <1>00, <2>1, <2>4 DEF OneReader
    <3> QED
      BY <3>3, <3>4 DEF ClientFrameInv
  <2> QED
    BY <1>10, <2>3, <2>4 DEF ReaderTakes
(* A channel opens: its reader replaces the one there was.                    *)
<1>11. ASSUME NEW g \in Gens, ClientChannelOpens(g) PROVE ClientFrameInv'
  <2>1. /\ g = pcUsed /\ client # "done" /\ channelOf[g] = "none" /\ readers' = {g} /\ readerHas' = [h \in Gens |-> 0]
        /\ UNCHANGED <<client, clientIn, pcUsed, spooled, decoded, frameQueue, nFrames, ClientF>>
    BY <1>01, <1>11 DEF ClientChannelOpens, ReadInstead, ClientInSession, clientCounts
  <2>2. /\ FramesInOrder(ClientF) /\ (\A i \in 1 .. Len(ClientF) : ClientF[i].gen <= pcUsed)
        /\ \A i \in 1 .. Len(ClientF), j \in 1 .. Len(clientIn) :
             ClientF[i].gen = 0 /\ clientIn[j].kind = "frame" => ClientF[i].n < clientIn[j].n
        /\ \A i \in 1 .. Len(ClientF) : 0 < ClientF[i].n /\ ClientF[i].n <= nFrames[ClientF[i].gen]
    BY <1>00, <2>1 DEF Delivered
  <2>3. nFrames[g] = 0
    BY <2>1 DEF ClientSpools
  <2>4. \A i \in 1 .. Len(ClientF) : ClientF[i].gen # g
    BY <1>0, <2>2, <2>3
  <2>5. Delivered(ClientF)'
    BY <2>1, <2>2, <2>4 DEF Delivered
  <2>6. OneReader'
    BY <1>0, <2>1 DEF OneReader
  <2> QED
    BY <2>5, <2>6 DEF ClientFrameInv
<1>12. CASE DecodeFrame
  <2>1. UNCHANGED ClientF
    BY <1>12, MoveHead, SMTT(30) DEF DecodeFrame, ClientF, ClientQueues
  <2> QED
    BY <1>0, <1>1, <1>12, <2>1 DEF DecodeFrame, clientDcState, clientCounts
<1>13. CASE FinishOffer
  <2>1. CASE LoopEnds
    BY <1>2, <1>13, <2>1 DEF FinishOffer, clientCounts
  <2>2. CASE /\ client = "answer" /\ client' = "relay" /\ pcUsed' = pcNew /\ UNCHANGED <<spooled, readers, readerHas>>
    <3>1. UNCHANGED <<ClientF, clientIn, nFrames>>
      BY <1>01, <1>13 DEF FinishOffer, clientCounts
    <3>2. pcUsed <= pcUsed' /\ pcUsed' \in Nat
      BY <1>0, <2>2 DEF ClientIncoming
    <3> QED
      BY <1>1, <2>2, <3>1, <3>2
  <2> QED
    BY <1>13, <2>1, <2>2 DEF FinishOffer
<1>14. CASE SendIce \/ ClientLosesLink
  <2>1. CASE LoopEnds
    BY <1>2, <1>14, <2>1 DEF SendIce, ClientLosesLink, clientCounts
  <2>2. CASE UNCHANGED <<client, pcUsed, pcNew, clientDcState>>
    BY <1>0, <1>01, <1>1, <1>14, <2>2 DEF SendIce, ClientLosesLink, clientDcState, clientCounts
  <2> QED
    BY <1>14, <2>1, <2>2 DEF SendIce, ClientLosesLink
<1>15. CASE TakeOffer \/ TakeCandidate
  BY <1>0, <1>01, <1>1, <1>15 DEF TakeOffer, TakeCandidate, Takes, clientDcState, clientCounts
<1>16. CASE ClientProceeds \/ ClientConnectFails \/ ClientTriesAgain \/ UNCHANGED clientVars \/ \E g \in Gens : OwnCandidate(g)
  BY <1>0, <1>01, <1>1, <1>16 DEF ClientProceeds, ClientConnectFails, ClientTriesAgain, OwnCandidate, ClientLoopRest, clientDcState,
     clientCounts, clientVars
<1> QED
  BY <1>4, <1>5, <1>6, <1>7, <1>8, <1>9, <1>10, <1>11, <1>12, <1>13, <1>14, <1>15, <1>16 DEF ClientNext

-----------------------------------------------------------------------------
ClientInv ==
  /\ ClientQueues /\ ClientSpools /\ ClientGives /\ ClientPeers /\ ClientIncoming /\ ClientFrameInv

LEMMA ClientInitInv == ClientInit => ClientInv
<1> SUFFICES ASSUME ClientInit PROVE ClientInv
  OBVIOUS
<1>0. MaxOffers \in Nat /\ MaxClientFrames \in Nat /\ FrameCap \in Nat /\ IceCap \in Nat /\ Gens \subseteq 0 .. MaxOffers
  BY OperatorClientAssumption DEF Gens
<1>1. ClientQueues
  BY <1>0, EmptyQueue DEF ClientInit, ClientQueues
<1>2. ClientSpools
  <2>1. \A g \in Gens : spooled[g] = <<>> /\ readerHas[g] = 0 /\ nFrames[g] = 0 /\ channelOf[g] = "none"
    BY <1>0 DEF ClientInit
  <2>2. \A g \in Gens : Rises(spooled[g]) /\ Between(spooled[g], readerHas[g], nFrames[g])
    BY <2>1, EmptyRises
  <2>3. channelOf \in [Gens -> {"none", "open", "closed"}] /\ spooled \in [Gens -> Seq(Int)] /\ readers = {}
    BY EmptyQueue DEF ClientInit
  <2>4. readerHas \in [Gens -> 0 .. MaxClientFrames]
    BY <1>0 DEF ClientInit
  <2> QED
    BY <2>1, <2>2, <2>3, <2>4 DEF ClientSpools
<1>3. ClientGives
  BY DEF ClientInit, ClientGives
<1>4. ClientPeers
  BY EmptyQueue DEF ClientInit, ClientPeers, AnswersFirst
<1>5. ClientIncoming
  BY EmptyQueue DEF ClientInit, ClientIncoming, MessagesInOrder
<1>6. ClientFrameInv
  <2>1. ClientF = <<>> /\ Len(ClientF) = 0 /\ readers = {}
    BY EmptyQueue, ConcatEmptySeq DEF ClientInit, ClientF
  <2> QED
    BY <2>1 DEF ClientFrameInv, Delivered, FramesInOrder, OneReader
<1> QED
  BY <1>1, <1>2, <1>3, <1>4, <1>5, <1>6 DEF ClientInv

LEMMA ClientStep == ClientInv /\ [ClientNext]_clientVars => ClientInv'
<1> SUFFICES ASSUME ClientInv, [ClientNext]_clientVars PROVE ClientInv'
  OBVIOUS
<1> USE DEF ClientInv
<1>1. ClientQueues'
  BY ClientQueuesKept
<1>2. ClientSpools'
  BY ClientSpoolsKept
<1> QED
  BY <1>1, <1>2, ClientGivesKept, ClientPeersKept, ClientIncomingKept, ClientFrameInvKept

LEMMA ClientOrder == ClientInv => ClientInOrder
<1> SUFFICES ASSUME ClientInv PROVE ClientInOrder
  OBVIOUS
<1>1. AnswersFirst /\ FramesInOrder(ClientF) /\ ClientQueues
  BY DEF ClientInv, ClientPeers, ClientFrameInv, Delivered
<1>2. /\ Len(decoded) \in Nat /\ Len(frameQueue) \in Nat /\ Len(ClientF) = Len(decoded) + Len(frameQueue)
      /\ \A i \in 1 .. Len(decoded) + Len(frameQueue) : i <= Len(decoded) => ClientF[i] = decoded[i]
  BY <1>1, ConcatProperties DEF ClientF, ClientQueues
<1>3. \A i \in 1 .. Len(decoded) : i \in 1 .. Len(ClientF) /\ ClientF[i] = decoded[i]
  BY <1>2
<1>4. \A i, j \in 1 .. Len(decoded) : i < j /\ (decoded[i].gen = 0 <=> decoded[j].gen = 0) => Before(decoded[i], decoded[j])
  BY <1>1, <1>3 DEF FramesInOrder
<1> QED
  BY <1>1, <1>4 DEF AnswersFirst, ClientInOrder, Before

LEMMA ClientTypes == ClientInv /\ ClientStates /\ ClientTries => ClientTypeOK
<1> SUFFICES ASSUME ClientInv, ClientStates, ClientTries PROVE ClientTypeOK
  OBVIOUS
<1>1. pcUsed \in 0 .. nOffers /\ pcNew \in 0 .. nOffers
  <2>1. MaxOffers \in Nat
    BY OperatorClientAssumption
  <2> QED
    BY <2>1 DEF ClientInv, ClientQueues, ClientIncoming
<1>2. \A g \in Gens : channelOf[g] \in {"none", "open", "closed"} /\ readerHas[g] <= MaxClientFrames
  <2>1. MaxClientFrames \in Nat
    BY OperatorClientAssumption
  <2> QED
    BY <2>1 DEF ClientInv, ClientSpools
<1> QED
  BY <1>1, <1>2 DEF ClientInv, ClientQueues, ClientSpools, ClientStates, ClientTries, ClientTypeOK

(* The operator client sends no candidate before its answer and decodes the   *)
(* frames of each source in order (webrtc_transport.rs): for any number of    *)
(* offers, frames and candidates and any sizes of its channels.               *)
THEOREM ClientKeepsOrder == ClientSpec => [](ClientTypeOK /\ ClientInOrder)
BY ClientInitInv, ClientStep, ClientOrder, ClientTypes, ClientStatesKept, ClientTriesKept, PTL DEF ClientSpec
=============================================================================
