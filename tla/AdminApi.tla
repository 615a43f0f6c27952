------------------------------ MODULE AdminApi ------------------------------
(* The administration interface of the signalling server: the account file    *)
(* read at each start, login for a token that names a role and an end, the    *)
(* check of every request, the audit ring, and the consoles that follow the   *)
(* events.  What a removal does to the rooms is in SignalingServer.           *)
EXTENDS Integers, Sequences, FiniteSets

CONSTANTS
  Users,                         \* user names
  Clients,                       \* callers, each with one request at a time
  Consoles,                      \* event sockets
  Secrets,                       \* admin_jwt_secret: {TRUE} configured, {FALSE} not
  TokenLife,                     \* ttl of a login token, in ticks
  SetupLife,                     \* ttl of the token printed at a start (a year)
  Leeway,                        \* by which a token may be past its end
  LoginBurst,                    \* LOGIN_RATE_BURST
  AuditCap,                      \* AUDIT_RING_CAP
  EventCap,                      \* events the channel keeps for a slow console
  MaxTime, MaxCalls, MaxRestarts \* bounds: ticks, requests, starts of the server

(* The subject of the token printed at a start, which no account stands       *)
(* behind; an account of that name is a user of another name here.            *)
Bootstrap == "bootstrap"

ASSUME AdminApiAssumption ==
  /\ Secrets \subseteq BOOLEAN /\ AuditCap \in Nat \ {0} /\ EventCap \in Nat \ {0}
  /\ Bootstrap \notin Users
  /\ TokenLife \in Nat /\ SetupLife \in Nat /\ Leeway \in Nat /\ LoginBurst \in Nat
  /\ MaxTime \in Nat /\ MaxCalls \in Nat /\ MaxRestarts \in Nat

CockpitRoles == {"viewer", "operator", "admin", "dispatcher"}
NoAccount == "none"
Ops == {"list", "config", "push", "remove"}
IsGet(op) == op \in {"list", "config"}
ConfigPath(op) == op \in {"config", "push"}
Changes == {"push", "remove"}

VARIABLES
  accountFile,        \* accounts.yaml: damaged, or the role of each user
  accounts,           \* the registry loaded at the last start
  serverUp, hasSecret,
  clock, loginTokens, \* limiter: calls left
  tokens,             \* tokens issued
  calls,              \* calls[c]: the admitted request of a client
  performed,          \* changes made: operation, token, when the request was checked
  loadedAccounts,     \* ghost: the roles of users in every registry loaded
  auditRing,
  events,             \* events sent so far
  consoleAt,          \* consoleAt[k]: events it has received or passed, or Closed
  consoleGot,         \* consoleGot[k]: what it received, in order
  nCalls, nRestarts

adminVars == <<accountFile, accounts, serverUp, hasSecret, clock, loginTokens, tokens, calls,
               performed, loadedAccounts, auditRing, events, consoleAt, consoleGot, nCalls, nRestarts>>
adminFiles == <<accountFile, accounts, serverUp, hasSecret, loadedAccounts, nRestarts>>
adminConsoles == <<consoleAt, consoleGot>>

Closed == -1
DamagedFile == "damaged"
AccountFiles == [Users -> {"admin", "dispatcher", "viewer", NoAccount}]
Nobody == [u \in Users |-> NoAccount]
NoCall == [op |-> "none", tok |-> [user |-> "none", role |-> "none", exp |-> 0], at |-> 0]

AdminTypeOK ==
  /\ accountFile \in AccountFiles \cup {Nobody} \/ accountFile = [u \in Users |-> DamagedFile]
  /\ accounts \in AccountFiles /\ clock \in 0 .. MaxTime /\ loginTokens \in 0 .. LoginBurst
  /\ \A t \in tokens : t.user \in Users \cup {Bootstrap} /\ t.role \in CockpitRoles
  /\ \A c \in Clients : calls[c] = NoCall \/ calls[c].op \in Ops
  /\ Len(auditRing) <= AuditCap /\ \A k \in Consoles : consoleAt[k] \in Closed .. Len(events)

AdminInit ==
  /\ accountFile \in AccountFiles /\ accounts = Nobody /\ serverUp = FALSE /\ hasSecret \in Secrets
  /\ clock = 0 /\ loginTokens = LoginBurst /\ tokens = {} /\ calls = [c \in Clients |-> NoCall]
  /\ performed = {} /\ loadedAccounts = {} /\ auditRing = <<>> /\ events = <<>>
  /\ consoleAt = [k \in Consoles |-> Closed] /\ consoleGot = [k \in Consoles |-> <<>>]
  /\ nCalls = 0 /\ nRestarts = 0

-----------------------------------------------------------------------------
(* The operator changes the file while the server runs or not.                *)
EditAccounts(f) ==
  /\ f # accountFile /\ nRestarts < MaxRestarts /\ accountFile' = f
  /\ UNCHANGED <<accounts, serverUp, hasSecret, clock, loginTokens, tokens, calls, performed, loadedAccounts,
                 auditRing, events, adminConsoles, nCalls, nRestarts>>

(* print_setup_token.                                                         *)
SetupToken == [user |-> Bootstrap, role |-> "admin", exp |-> clock + SetupLife]

(* main: a damaged file, or one with the development accounts, stops the      *)
(* start; a missing one is an empty registry.  With a secret, a token with    *)
(* the role of an administrator is printed, of no account and for a year.     *)
StartAdminServer ==
  /\ ~serverUp /\ nRestarts < MaxRestarts /\ nRestarts' = nRestarts + 1
  /\ accountFile \in AccountFiles
  /\ serverUp' = TRUE /\ accounts' = accountFile
  /\ loadedAccounts' = loadedAccounts \cup {<<u, accountFile[u]>> : u \in Users}
  /\ loginTokens' = LoginBurst
  /\ tokens' = IF hasSecret THEN tokens \cup {SetupToken} ELSE tokens
  /\ UNCHANGED <<accountFile, hasSecret, clock, calls, performed, auditRing, events,
                 adminConsoles, nCalls>>

(* Everything kept in memory goes; tokens are valid as long as the secret is. *)
StopServer ==
  /\ serverUp /\ serverUp' = FALSE /\ calls' = [c \in Clients |-> NoCall]
  /\ auditRing' = <<>> /\ events' = <<>> /\ consoleAt' = [k \in Consoles |-> Closed]
  /\ consoleGot' = [k \in Consoles |-> <<>>]
  /\ UNCHANGED <<accountFile, accounts, hasSecret, clock, loginTokens, tokens, performed, loadedAccounts,
                 nCalls, nRestarts>>

(* A tick of the clock, in which the limiter gets a call back.                *)
ClockTicks ==
  /\ clock < MaxTime /\ clock' = clock + 1
  /\ loginTokens' = IF loginTokens < LoginBurst THEN loginTokens + 1 ELSE loginTokens
  /\ UNCHANGED <<adminFiles, tokens, calls, performed, auditRing, events, adminConsoles, nCalls>>

LogEvent(kind, who) ==
  auditRing' = LET all == Append(auditRing, <<kind, who>>)
               IN  IF Len(all) > AuditCap THEN Tail(all) ELSE all

-----------------------------------------------------------------------------
Called(c) == serverUp /\ calls[c] = NoCall /\ nCalls < MaxCalls /\ nCalls' = nCalls + 1

(* login behind its limiter.  A refusal is audited when an account was tried. *)
LoginLimited(c) ==
  /\ Called(c) /\ loginTokens = 0
  /\ UNCHANGED <<adminFiles, clock, loginTokens, tokens, calls, performed, auditRing, events, adminConsoles>>

LoginUnavailable(c) ==
  /\ Called(c) /\ loginTokens > 0 /\ loginTokens' = loginTokens - 1
  /\ ~hasSecret \/ accounts = Nobody
  /\ UNCHANGED <<adminFiles, clock, tokens, calls, performed, auditRing, events, adminConsoles>>

LoginRefused(c, u) ==
  /\ Called(c) /\ loginTokens > 0 /\ loginTokens' = loginTokens - 1
  /\ hasSecret /\ accounts # Nobody /\ LogEvent("auth_failure", u)
  /\ UNCHANGED <<adminFiles, clock, tokens, calls, performed, events, adminConsoles>>

LoginAccepted(c, u) ==
  /\ Called(c) /\ loginTokens > 0 /\ loginTokens' = loginTokens - 1
  /\ hasSecret /\ accounts[u] # NoAccount
  /\ tokens' = tokens \cup {[user |-> u, role |-> accounts[u], exp |-> clock + TokenLife]}
  /\ LogEvent("auth_success", u)
  /\ UNCHANGED <<adminFiles, clock, calls, performed, events, adminConsoles>>

-----------------------------------------------------------------------------
ValidToken(t) == hasSecret /\ clock <= t.exp + Leeway

(* Wrong variant: everything that is not under the configuration path reads.  *)
MayPerformByPath(role, op) == role = "admin" \/ (role = "dispatcher" /\ ~ConfigPath(op))

(* auth_middleware: an administrator all, a dispatcher what only reads.       *)
MayPerform(role, op) ==
  role = "admin" \/ (role = "dispatcher" /\ IsGet(op) /\ ~ConfigPath(op))

Admitted(c, op, t) ==
  /\ Called(c) /\ ValidToken(t) /\ MayPerform(t.role, op)
  /\ calls' = [calls EXCEPT ![c] = [op |-> op, tok |-> t, at |-> clock]]
  /\ UNCHANGED <<adminFiles, clock, loginTokens, tokens, performed, auditRing, events, adminConsoles>>

(* A dispatcher's refusal is audited, an invalid token or another role is not. *)
NotAdmitted(c, op, t) ==
  /\ Called(c) /\ ~(ValidToken(t) /\ MayPerform(t.role, op))
  /\ IF ValidToken(t) /\ t.role = "dispatcher" THEN LogEvent("authorization_denied", t.user)
     ELSE UNCHANGED auditRing
  /\ UNCHANGED <<adminFiles, clock, loginTokens, tokens, calls, performed, events, adminConsoles>>

(* The handler.  A removal that found something tells the consoles.           *)
Perform(c) ==
  /\ calls[c] # NoCall /\ calls' = [calls EXCEPT ![c] = NoCall]
  /\ IF calls[c].op \in Changes THEN performed' = performed \cup {calls[c]} ELSE UNCHANGED performed
  /\ \/ calls[c].op = "remove" /\ events' = Append(events, Len(events) + 1)
     \/ UNCHANGED events
  /\ UNCHANGED <<adminFiles, clock, loginTokens, tokens, auditRing, adminConsoles, nCalls>>

-----------------------------------------------------------------------------
(* handle_ws_events: an admitted request for the event socket subscribes.     *)
OpenConsole(k, t) ==
  /\ serverUp /\ consoleAt[k] = Closed /\ t \in tokens /\ ValidToken(t) /\ MayPerform(t.role, "list")
  /\ consoleAt' = [consoleAt EXCEPT ![k] = Len(events)]
  /\ consoleGot' = [consoleGot EXCEPT ![k] = <<>>]
  /\ UNCHANGED <<adminFiles, clock, loginTokens, tokens, calls, performed, auditRing, events, nCalls>>

ConsoleReceives(k) ==
  /\ consoleAt[k] # Closed /\ consoleAt[k] < Len(events)
  /\ LET lagged == Len(events) - consoleAt[k] > EventCap
         next == IF lagged THEN Len(events) - EventCap ELSE consoleAt[k] + 1
     IN  /\ consoleAt' = [consoleAt EXCEPT ![k] = next]
         /\ consoleGot' = IF lagged THEN consoleGot
                          ELSE [consoleGot EXCEPT ![k] = Append(@, events[next])]
  /\ UNCHANGED <<adminFiles, clock, loginTokens, tokens, calls, performed, auditRing, events, nCalls>>

CloseConsole(k) ==
  /\ consoleAt[k] # Closed /\ consoleAt' = [consoleAt EXCEPT ![k] = Closed]
  /\ consoleGot' = [consoleGot EXCEPT ![k] = <<>>]
  /\ UNCHANGED <<adminFiles, clock, loginTokens, tokens, calls, performed, auditRing, events, nCalls>>

AdminNext ==
  \/ \E f \in AccountFiles \cup {[u \in Users |-> DamagedFile]} : EditAccounts(f)
  \/ StartAdminServer \/ StopServer \/ ClockTicks
  \/ \E c \in Clients : LoginLimited(c) \/ LoginUnavailable(c) \/ Perform(c)
  \/ \E c \in Clients, u \in Users : LoginRefused(c, u) \/ LoginAccepted(c, u)
  \/ \E c \in Clients, op \in Ops, t \in tokens : Admitted(c, op, t) \/ NotAdmitted(c, op, t)
  \/ \E k \in Consoles, t \in tokens : OpenConsole(k, t)
  \/ \E k \in Consoles : ConsoleReceives(k) \/ CloseConsole(k)

AdminSpec == AdminInit /\ [][AdminNext]_adminVars

-----------------------------------------------------------------------------
(* A change made through the interface goes back to a token the server gave   *)
(* out and checked before its end: to an account that was an administrator in *)
(* a registry the server loaded, or the token printed at a start; whatever    *)
(* was restarted, edited or in flight in between (admin.rs, auth_middleware). *)
ChangesByAdmins ==
  \A d \in performed :
    /\ d.tok \in tokens /\ d.at <= d.tok.exp + Leeway
    /\ <<d.tok.user, "admin">> \in loadedAccounts \/ d.tok.user = Bootstrap

(* That an account stands behind every change does not hold: the token that   *)
(* print_setup_token prints is of none, and no edit of the accounts ends it   *)
(* (admin.rs:669-688).                                                        *)
ChangesByAccounts == \A d \in performed : d.tok.user \in Users

(* A console receives the events in the order they were sent, each once.      *)
ConsolesInOrder ==
  \A k \in Consoles : /\ \A i, j \in 1 .. Len(consoleGot[k]) : i < j => consoleGot[k][i] < consoleGot[k][j]
                      /\ \A i \in 1 .. Len(consoleGot[k]) : consoleGot[k][i] <= consoleAt[k]
=============================================================================
