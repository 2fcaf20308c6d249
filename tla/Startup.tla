------------------------------ MODULE Startup -------------------------------
(***************************************************************************)
(* main.run from configuration to Listen, with the first-run bootstrap of  *)
(* the administrator, for two processes on one database: the one systemd   *)
(* restarts for ever, and one an operator starts by hand (`orvixpanel      *)
(* --bootstrap`).  It is composed with UserLogin: logins are served only   *)
(* while a process listens, and end with it.                               *)
(*                                                                         *)
(* The row of UserLogin is that of the first administrator whose address   *)
(* Login can match: it lowers and trims what it is given, while bootstrap  *)
(* stores the address as it was typed.                                     *)
(***************************************************************************)
EXTENDS UserLogin, FiniteSets

CONSTANTS
    Process,    \* processes of the panel on this host
    Unit,       \* the one systemd keeps running, with the installer's environment
    MaxFaults   \* bound on failed calls, kills and stops

ASSUME StartupAssumption ==
    /\ Unit \in Process
    /\ MaxFaults \in Nat

VARIABLES
    at,         \* where each process is in run()
    email,      \* the administrator address the process will store
    tenant,     \* the tenant row with slug "default" is there
    admins,     \* addresses in the users table
    collided,   \* history: two processes have counted no user at the same time
    faults      \* failed calls, kills and stops so far

startVars == <<at, email, tenant, admins, collided, faults>>

Label == {"down", "prompt", "tenant", "create_tenant", "create_user", "listen", "listening"}

DevEmail == "admin@orvixpanel.local"
Typed == {"ops@example.com", "Ops@Example.com"}
Email == {DevEmail} \cup Typed

\* strings.ToLower(strings.TrimSpace(email)) in Login.
Lowered(e) == IF e = "Ops@Example.com" THEN "ops@example.com" ELSE e

\* Passwords by their length in bytes and the kinds of characters in them.
Password == [length : {7, 8, 9, 10, 16, 72, 73, 128, 129}, lower : BOOLEAN,
             upper : BOOLEAN, digit : BOOLEAN]

\* validatePassword of the wizard.
WizardAccepts(pw) == pw.length \in 8..128 /\ pw.lower /\ pw.upper /\ pw.digit

\* HashPassword: ValidatePassword, then bcrypt, which takes at most 72 bytes.
HashAccepts(pw) == pw.length \in 10..72 /\ (pw.lower \/ pw.upper) /\ pw.digit

\* What randomPassword(16) may return.
RandomPassword == {pw \in Password : pw.length = 16 /\ (pw.lower \/ pw.upper \/ pw.digit)}

\* The environment, its env file and the TOML file, as far as run() looks at them.
Environment ==
    [dev : BOOLEAN, file : {"absent", "good", "broken"}, secret : {0, 16, 44},
     key : {"none", "malformed", "signed"}]
InstallerEnvironment ==
    {e \in Environment : e.dev /\ e.file = "absent" /\ e.secret = 44}

\* config.Load: no file is fine, and secret and key are demanded outside dev mode.
ConfigLoads(e) == e.file # "broken" /\ (e.dev \/ (e.secret > 0 /\ e.key # "none"))

\* The length of server.secret_key: dev mode makes one up when there is none.
SecretLength(e) == IF e.secret = 0 /\ e.dev THEN 88 ELSE e.secret

\* auth.New refuses a short one.
AuthNew(e) == SecretLength(e) >= 32

\* ParseWithPublicKey: the shape of the key, then its signature unless dev is allowed.
ParseWithPublicKey(key, pub, allowDev) == key = "signed" /\ (allowDev \/ pub)

\* Parse knows no public key and allows no dev key, so it accepts none.
Parse(key) == ParseWithPublicKey(key, FALSE, FALSE)

\* config.Load, license.Parse and auth.New: only dev mode goes on without a license.
Starts(e) == ConfigLoads(e) /\ (Parse(e.key) \/ e.dev) /\ AuthNew(e)

\* ORVIX_ALLOW_DEV=1 or not, for the environments with which run() gets past them.
StartModes(environments) == {e.dev : e \in {x \in environments : Starts(x)}}
UnitModes == StartModes(InstallerEnvironment)
OperatorModes == StartModes(Environment)

\* Passwords are accepted, or refused, by the wizard and by HashPassword.
SomePasswordAccepted == \E pw \in Password : WizardAccepts(pw) /\ HashAccepts(pw)
SomePasswordRefused == \E pw \in Password : ~(WizardAccepts(pw) /\ HashAccepts(pw))
SomeRandomAccepted == \E pw \in RandomPassword : HashAccepts(pw)

Serving == \E p \in Process : at[p] = "listening"
LoginFinds == \E e \in admins : Lowered(e) = e

StartupInit ==
    /\ Init
    /\ at = [p \in Process |-> "down"]
    /\ email = [p \in Process |-> DevEmail]
    /\ tenant = FALSE
    /\ admins = {}
    /\ collided = FALSE
    /\ faults = 0

\* Process p counted no user and has not stored one yet.
PastCount(p) == at[p] \in {"prompt", "tenant", "create_tenant", "create_user"}

Goto(p, label) ==
    /\ at' = [at EXCEPT ![p] = label]
    /\ collided' = IF \E q \in Process \ {p} : PastCount(p)' /\ PastCount(q) THEN TRUE ELSE collided

\* run() returns an error, and what the process had in memory is gone.
Refuse(p) ==
    /\ Goto(p, "down")
    /\ email' = [email EXCEPT ![p] = DevEmail]

-----------------------------------------------------------------------------
\* The default address with a random password, which has to have a digit.
DefaultAdmin(p, dev) ==
    /\ dev
    /\ SomeRandomAccepted
    /\ Goto(p, "tenant")
    /\ UNCHANGED email

\* Slip: an error of the count is taken for an empty table.
RunBootstrapWizardIgnoresError(p, dev) ==
    \/ admins # {} /\ Goto(p, "listen") /\ UNCHANGED email
    \/ DefaultAdmin(p, dev)
    \/ p # Unit /\ Goto(p, "prompt") /\ UNCHANGED email

(***************************************************************************)
(* RunBootstrapWizard counts the users.  Without any, the arguments decide: *)
(* none (default credentials, in dev mode only), --skip, or credentials    *)
(* from flags or the prompt.  The service has no arguments.                *)
(***************************************************************************)
RunBootstrapWizard(p, dev) ==
    \/ admins # {} /\ Goto(p, "listen") /\ UNCHANGED email
    \/ admins = {} /\ DefaultAdmin(p, dev)
    \/ admins = {} /\ p # Unit /\ Goto(p, "listen") /\ UNCHANGED email
    \/ admins = {} /\ p # Unit /\ Goto(p, "prompt") /\ UNCHANGED email

(***************************************************************************)
(* systemd or the operator starts the process, and run() gets as far as    *)
(* the count of users, the first thing it shares with others.  A start     *)
(* that ends before (configuration, license, secret, database, a random    *)
(* password without a digit) leaves no trace: opening, migrating and       *)
(* reading the last audit row can be repeated.                             *)
(***************************************************************************)
Start(p) ==
    /\ at[p] = "down"
    /\ \E dev \in IF p = Unit THEN UnitModes ELSE OperatorModes : RunBootstrapWizard(p, dev)
    /\ UNCHANGED <<vars, tenant, admins, faults>>

(***************************************************************************)
(* The operator's address and password.  The prompt repeats the question   *)
(* where flags end the process, and a password the wizard accepts may      *)
(* still be refused by HashPassword, which ends either.                    *)
(***************************************************************************)
GiveCredentials(p) ==
    /\ at[p] = "prompt"
    /\ \/ /\ SomePasswordAccepted
          /\ \E e \in Typed : email' = [email EXCEPT ![p] = e]
          /\ Goto(p, "tenant")
       \/ SomePasswordRefused /\ Refuse(p)
    /\ UNCHANGED <<vars, tenant, admins, faults>>

\* Slip: the tenant is taken to be missing because there is no user.
FindTenantNever(p) ==
    /\ at[p] = "tenant"
    /\ Goto(p, "create_tenant")
    /\ UNCHANGED <<vars, email, tenant, admins, faults>>

\* The tenant with slug "default"; any error counts as not found.
FindTenant(p) ==
    /\ at[p] = "tenant"
    /\ \/ Goto(p, IF tenant THEN "create_user" ELSE "create_tenant") /\ UNCHANGED faults
       \/ tenant /\ faults < MaxFaults /\ faults' = faults + 1 /\ Goto(p, "create_tenant")
    /\ UNCHANGED <<vars, email, tenant, admins>>

\* INSERT the tenant; its slug is unique.
CreateTenant(p) ==
    /\ at[p] = "create_tenant"
    /\ IF tenant THEN Refuse(p)
       ELSE Goto(p, "create_user") /\ UNCHANGED email
    /\ tenant' = TRUE
    /\ UNCHANGED <<vars, admins, faults>>

\* Slip: the address is read from the flags, where the wizard left none.
CreateUserFromFlags(p) ==
    /\ at[p] = "create_user"
    /\ Goto(p, "listen")
    /\ admins' = admins \cup {""}
    /\ UNCHANGED <<vars, email, tenant, faults>>

\* INSERT the administrator; the address is unique.
CreateUser(p) ==
    /\ at[p] = "create_user"
    /\ IF email[p] \in admins THEN Refuse(p)
       ELSE Goto(p, "listen") /\ email' = [email EXCEPT ![p] = DevEmail]
    /\ admins' = admins \cup {email[p]}
    /\ UNCHANGED <<vars, tenant, faults>>

(***************************************************************************)
(* Master key, license store and directories, whose errors are only        *)
(* logged; then server.Listen, which fails when the port is taken.         *)
(***************************************************************************)
Listen(p) ==
    /\ at[p] = "listen"
    /\ IF Serving THEN Refuse(p)
       ELSE Goto(p, "listening") /\ UNCHANGED email
    /\ UNCHANGED <<vars, tenant, admins, faults>>

(***************************************************************************)
(* A call of run() fails, the process is killed, or a signal stops it: it  *)
(* is gone, with the logins it was serving.                                *)
(***************************************************************************)
Exit(p) ==
    /\ at[p] # "down"
    /\ faults < MaxFaults
    /\ faults' = faults + 1
    /\ Refuse(p)
    /\ IF at[p] = "listening" THEN Crash ELSE UNCHANGED vars
    /\ UNCHANGED <<tenant, admins>>

\* The steps of run() that are no fault.
Run(p) == Start(p) \/ FindTenant(p) \/ CreateTenant(p) \/ CreateUser(p) \/ Listen(p)

(***************************************************************************)
(* Logins: only a process that listens takes one, and only an address that *)
(* Login can match leads to the row.                                       *)
(***************************************************************************)
Login ==
    /\ \/ Tick
       \/ \E r \in Request : Serving /\ LoginFinds /\ LoadUser(r)
       \/ \E r \in Request : WrongPassword(r) \/ RightPassword(r) \/ SaveUser(r) \/ IssueTokens(r)
       \/ \E role \in Role : Serving /\ LoginFinds /\ AssignRole(role)
       \/ LoginFinds /\ SetStatus
    /\ UNCHANGED startVars

StartupNext ==
    \/ \E p \in Process : Run(p) \/ GiveCredentials(p) \/ Exit(p)
    \/ Login

allVars == <<vars, startVars>>

(***************************************************************************)
(* Time passes.  systemd restarts its process without limit (RestartSec=5  *)
(* stays below the start limit) and run() goes on as long as it may; the   *)
(* operator's process need not.  Random passwords are drawn anew at each   *)
(* start, so one that has a digit, hence a start that gets on, comes       *)
(* eventually.                                                             *)
(***************************************************************************)
StartupSpec ==
    /\ StartupInit /\ [][StartupNext]_allVars
    /\ WF_allVars(Tick /\ UNCHANGED startVars)
    /\ WF_allVars(Run(Unit))

-----------------------------------------------------------------------------
\* Every variable of login and start-up has its type.
StartupTypeOK ==
    /\ TypeOK
    /\ at \in [Process -> Label]
    /\ email \in [Process -> Email]
    /\ tenant \in BOOLEAN
    /\ admins \subseteq Email
    /\ collided \in BOOLEAN
    /\ faults \in 0..MaxFaults

(***************************************************************************)
(* The bootstrap makes one administrator, however often it fails half way, *)
(* is killed or is repeated with other credentials.  Two exist only where  *)
(* two processes were between the count and the INSERT at the same time:   *)
(* the wizard may wait for an answer while the service creates its own.    *)
(***************************************************************************)
OneAdminUnlessCollided == ~collided => Cardinality(admins) <= 1

(***************************************************************************)
(* As long as faults are finite the panel serves with an administrator in  *)
(* the end: no failure or kill between the tenant and the administrator,   *)
(* and no other process, leaves tables with which no start succeeds.       *)
(***************************************************************************)
PanelComesUp == []<>(Serving /\ admins # {})
=============================================================================
