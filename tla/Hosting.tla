------------------------------ MODULE Hosting -------------------------------
(***************************************************************************)
(* One hosting account with its one domain: the accounts row, the system   *)
(* user, the document root, the nginx vhost and the php-fpm pool           *)
(* (internal/hosting, api/v1/accounts.go, domains.go).                     *)
(*                                                                         *)
(* A handler is a sequence of database statements, commands and file       *)
(* operations; handlers overlap, every operation may fail, and the process *)
(* may die between two of them.  Other accounts matter only because the    *)
(* username and the domain are unique, so that any INSERT or UPDATE may be *)
(* refused, and because their handlers reload the same services.           *)
(***************************************************************************)
EXTENDS Integers

CONSTANTS
    Request,    \* concurrent requests
    NoRow,      \* no accounts row
    Attempts,   \* userdel calls of DeleteAccount: 6 in the code
    MaxRows     \* bound: accounts rows inserted

ASSUME HostingAssumption ==
    /\ Attempts \in Nat \ {0} /\ MaxRows \in Nat
    /\ NoRow \notin [id : Nat, named : BOOLEAN, status : {"active", "suspended"}]

VARIABLES
    row,        \* the accounts row: its id, whether it names the domain, its status
    ids,        \* ids given to rows so far
    user,       \* the system user: "absent", "unlocked" or "locked"
    site,       \* whether the document root exists
    vhost, pool,  \* whether the vhost and the pool file are on disk
    served,     \* whether nginx and php-fpm have loaded them
    pc,         \* where each request is
    copy,       \* the row it loaded
    left,       \* userdel calls it has left
    overlapped, \* history: two requests have been under way at once
    ignored     \* history: the process died, or a failure was half done or ignored

disk == <<site, vhost, pool, served>>
account == <<row, ids, user>>
vars == <<account, disk, pc, copy, left, overlapped, ignored>>

Row == [id : Nat, named : BOOLEAN, status : {"active", "suspended"}]
MakeRow(id, named, status) == [id |-> id, named |-> named, status |-> status]

Init ==
    /\ row = NoRow /\ ids = 0 /\ user = "absent"
    /\ site = FALSE /\ vhost = FALSE /\ pool = FALSE
    /\ served = [nginx |-> FALSE, php |-> FALSE]
    /\ pc = [r \in Request |-> "idle"]
    /\ copy = [r \in Request |-> NoRow]
    /\ left = [r \in Request |-> 0]
    /\ overlapped = FALSE /\ ignored = FALSE

-----------------------------------------------------------------------------
\* Every step keeps the history.
Overlap == \E r, q \in Request : r # q /\ pc[r] # "idle" /\ pc[q] # "idle"
WatchOverlap == overlapped' = IF Overlap' THEN TRUE ELSE overlapped
Watch == WatchOverlap /\ UNCHANGED ignored
Ignore == WatchOverlap /\ ignored' = TRUE

At(r, label) == pc[r] = label
Goto(r, label) ==
    /\ pc' = [pc EXCEPT ![r] = label]
    /\ UNCHANGED <<copy, left>>
Return(r) ==
    /\ pc' = [pc EXCEPT ![r] = "idle"]
    /\ copy' = [copy EXCEPT ![r] = NoRow]
    /\ left' = [left EXCEPT ![r] = 0]

\* An operation failed without effect and the handler answers with an error.
Fails(r) ==
    /\ pc[r] \in {"useradd", "provision", "usermod_L", "usermod_U", "docroot", "vhost", "pool",
                  "rm_root", "reload_nginx", "reload_php"}
    /\ Return(r)
    /\ UNCHANGED <<account, disk>>
    /\ Watch

-----------------------------------------------------------------------------
(***************************************************************************)
(* POST /accounts: provision the system user, then store the row.          *)
(***************************************************************************)
\* user.Lookup: an existing user is answered with 409.
CreateLookup(r) ==
    /\ At(r, "idle")
    /\ user = "absent"
    /\ Goto(r, "useradd")
    /\ UNCHANGED <<account, disk>>
    /\ Watch

\* groupadd -f and useradd -m; useradd refuses a user that exists by now.
Useradd(r) ==
    /\ At(r, "useradd")
    /\ user = "absent"
    /\ user' = "unlocked"
    /\ Goto(r, "provision")
    /\ UNCHANGED <<row, ids, disk>>
    /\ Watch

\* Owner and mode of the home directory and of public_html.
Provision(r) ==
    /\ At(r, "provision")
    /\ user # "absent"
    /\ Goto(r, "insert")
    /\ UNCHANGED <<account, disk>>
    /\ Watch

InsertRow(r) ==
    /\ At(r, "insert")
    /\ row = NoRow /\ ids < MaxRows
    /\ \E named \in BOOLEAN : row' = MakeRow(ids + 1, named, "active")
    /\ ids' = ids + 1
    /\ Return(r)
    /\ UNCHANGED <<user, disk>>
    /\ Watch

\* The INSERT is refused: the handler deletes the system user again.
InsertRefused(r) ==
    /\ At(r, "insert")
    /\ Goto(r, "rollback")
    /\ UNCHANGED <<account, disk>>
    /\ Watch

-----------------------------------------------------------------------------
(***************************************************************************)
(* The handlers that start from the row: suspend, unsuspend, delete,       *)
(* create a domain, delete a domain.                                       *)
(***************************************************************************)
FirstRow(r, label) ==
    /\ At(r, "idle")
    /\ row # NoRow
    /\ pc' = [pc EXCEPT ![r] = label]
    /\ copy' = [copy EXCEPT ![r] = row]
    /\ UNCHANGED <<account, disk, left>>
    /\ Watch

\* Slip: the row is stored without locking the user first.
UsermodSkipped(r) ==
    /\ pc[r] \in {"usermod_L", "usermod_U"}
    /\ Goto(r, IF At(r, "usermod_L") THEN "save_suspended" ELSE "save_active")
    /\ UNCHANGED <<account, disk>>
    /\ Watch

\* usermod -L or -U.
Usermod(r) ==
    /\ pc[r] \in {"usermod_L", "usermod_U"}
    /\ user # "absent"
    /\ user' = IF At(r, "usermod_L") THEN "locked" ELSE "unlocked"
    /\ Goto(r, IF At(r, "usermod_L") THEN "save_suspended" ELSE "save_active")
    /\ UNCHANGED <<row, ids, disk>>
    /\ Watch

Saving(r) == pc[r] \in {"save_suspended", "save_active", "save_domain"}
Changed(r) ==
    IF At(r, "save_domain") THEN MakeRow(copy[r].id, TRUE, copy[r].status)
    ELSE MakeRow(copy[r].id, copy[r].named,
                 IF At(r, "save_suspended") THEN "suspended" ELSE "active")

(***************************************************************************)
(* Save writes the whole loaded row.  A row deleted meanwhile is stored    *)
(* again; a newer row of that username refuses it.                         *)
(***************************************************************************)
SaveRow(r) ==
    /\ Saving(r)
    /\ IF row = NoRow THEN TRUE ELSE row.id = copy[r].id
    /\ row' = Changed(r)
    /\ Return(r)
    /\ UNCHANGED <<ids, user, disk>>
    /\ Watch

\* The handlers ignore the error of Save.
SaveFails(r) ==
    /\ Saving(r)
    /\ Return(r)
    /\ UNCHANGED <<account, disk>>
    /\ Ignore

-----------------------------------------------------------------------------
(***************************************************************************)
(* DeleteAccount, from DELETE /accounts/:id and from the rollback: a user  *)
(* that is not there counts as deleted, otherwise pkill and up to Attempts *)
(* calls of userdel with a second between them.                            *)
(***************************************************************************)
DeleteLookup(r) ==
    /\ pc[r] \in {"rollback", "delete"}
    /\ IF user # "absent"
       THEN /\ pc' = [pc EXCEPT ![r] = IF At(r, "delete") THEN "userdel" ELSE "userdel_rb"]
            /\ left' = [left EXCEPT ![r] = Attempts]
            /\ UNCHANGED copy
       ELSE IF At(r, "delete") THEN Goto(r, "delete_row") ELSE Return(r)
    /\ UNCHANGED <<account, disk>>
    /\ Watch

\* userdel -r takes the home directory with it, and the document root.
Userdel(r) ==
    /\ pc[r] \in {"userdel", "userdel_rb"}
    /\ user # "absent"
    /\ user' = "absent"
    /\ site' = FALSE
    /\ IF At(r, "userdel") THEN Goto(r, "delete_row") ELSE Return(r)
    /\ UNCHANGED <<row, ids, vhost, pool, served>>
    /\ Watch

\* Slip: after the last call the user is taken to be gone.
UserdelFailsAsDone(r) ==
    /\ pc[r] \in {"userdel", "userdel_rb"}
    /\ IF left[r] > 1
       THEN left' = [left EXCEPT ![r] = left[r] - 1] /\ UNCHANGED <<pc, copy>>
       ELSE IF At(r, "userdel") THEN Goto(r, "delete_row") ELSE Return(r)
    /\ UNCHANGED <<account, disk>>
    /\ Watch

\* A call fails; after the last one the handler gives up.
UserdelFails(r) ==
    /\ pc[r] \in {"userdel", "userdel_rb"}
    /\ IF left[r] > 1
       THEN left' = [left EXCEPT ![r] = left[r] - 1] /\ UNCHANGED <<pc, copy>>
       ELSE Return(r)
    /\ UNCHANGED <<account, disk>>
    /\ Watch

\* userdel removes the user, fails on the home directory and reports an error.
UserdelHalf(r) ==
    /\ pc[r] \in {"userdel", "userdel_rb"}
    /\ user # "absent"
    /\ user' = "absent"
    /\ IF left[r] > 1
       THEN left' = [left EXCEPT ![r] = left[r] - 1] /\ UNCHANGED <<pc, copy>>
       ELSE Return(r)
    /\ UNCHANGED <<row, ids, disk>>
    /\ Ignore

\* The row is removed for good, whatever became of the user since.
DeleteRow(r) ==
    /\ At(r, "delete_row")
    /\ row' = IF row # NoRow /\ row.id = copy[r].id THEN NoRow ELSE row
    /\ Return(r)
    /\ UNCHANGED <<ids, user, disk>>
    /\ Watch

\* Its error is ignored.
DeleteRowFails(r) ==
    /\ At(r, "delete_row")
    /\ Return(r)
    /\ UNCHANGED <<account, disk>>
    /\ Ignore

-----------------------------------------------------------------------------
(***************************************************************************)
(* POST /accounts/:id/domains.                                             *)
(***************************************************************************)
\* CreateDomain: mkdir -p, then chown, which fails without the user.
CreateDocRoot(r) ==
    /\ At(r, "docroot")
    /\ site' = TRUE
    /\ \/ user # "absent" /\ Goto(r, "vhost")
       \/ Return(r)
    /\ UNCHANGED <<account, vhost, pool, served>>
    /\ Watch

WriteVHostConfig(r) ==
    /\ At(r, "vhost")
    /\ vhost' = TRUE
    /\ Goto(r, "pool")
    /\ UNCHANGED <<account, site, pool, served>>
    /\ Watch

WriteFPMPool(r) ==
    /\ At(r, "pool")
    /\ pool' = TRUE
    /\ Goto(r, "nginx_t")
    /\ UNCHANGED <<account, site, vhost, served>>
    /\ Watch

\* nginx -t: on failure the vhost is removed, if that works, and the pool stays.
TestNginx(r) ==
    /\ At(r, "nginx_t")
    /\ \/ Goto(r, "php_t") /\ UNCHANGED vhost
       \/ Return(r) /\ vhost' \in {FALSE, vhost}
    /\ UNCHANGED <<account, site, pool, served>>
    /\ Watch

\* php-fpm -t refuses a pool whose user does not exist; both files go.
TestPHP(r) ==
    /\ At(r, "php_t")
    /\ \/ (pool => user # "absent") /\ Goto(r, "reload_nginx") /\ UNCHANGED <<vhost, pool>>
       \/ Return(r) /\ vhost' \in {FALSE, vhost} /\ pool' \in {FALSE, pool}
    /\ UNCHANGED <<account, site, served>>
    /\ Watch

\* Slip: nginx is left with the configuration it has.
ReloadNginxSkipped(r) ==
    /\ At(r, "reload_nginx")
    /\ Goto(r, "reload_php")
    /\ UNCHANGED <<account, disk>>
    /\ Watch

ReloadNginx(r) ==
    /\ At(r, "reload_nginx")
    /\ served' = [nginx |-> vhost, php |-> served.php]
    /\ Goto(r, "reload_php")
    /\ UNCHANGED <<account, site, vhost, pool>>
    /\ Watch

ReloadPHP(r) ==
    /\ At(r, "reload_php")
    /\ pool => user # "absent"
    /\ served' = [nginx |-> served.nginx, php |-> pool]
    /\ Goto(r, "save_domain")
    /\ UNCHANGED <<account, site, vhost, pool>>
    /\ Watch

-----------------------------------------------------------------------------
(***************************************************************************)
(* DELETE /accounts/:id/domains/:domain: errors of the two removals and of *)
(* the reloads are ignored.                                                *)
(***************************************************************************)
RemoveVHostConfig(r) ==
    /\ At(r, "rm_vhost")
    /\ vhost' = FALSE
    /\ Goto(r, "rm_pool")
    /\ UNCHANGED <<account, site, pool, served>>
    /\ Watch

RemoveFPMPool(r) ==
    /\ At(r, "rm_pool")
    /\ pool' = FALSE
    /\ Goto(r, "rm_root")
    /\ UNCHANGED <<account, site, vhost, served>>
    /\ Watch

RemoveDocRoot(r) ==
    /\ At(r, "rm_root")
    /\ site' = FALSE
    /\ Goto(r, "unload_nginx")
    /\ UNCHANGED <<account, vhost, pool, served>>
    /\ Watch

UnloadNginx(r) ==
    /\ At(r, "unload_nginx")
    /\ served' = [nginx |-> vhost, php |-> served.php]
    /\ Goto(r, "unload_php")
    /\ UNCHANGED <<account, site, vhost, pool>>
    /\ Watch

UnloadPHP(r) ==
    /\ At(r, "unload_php")
    /\ pool => user # "absent"
    /\ served' = [nginx |-> served.nginx, php |-> pool]
    /\ Return(r)
    /\ UNCHANGED <<account, site, vhost, pool>>
    /\ Watch

IgnoredFailure(r) ==
    /\ \/ At(r, "rm_vhost") /\ Goto(r, "rm_pool")
       \/ At(r, "rm_pool") /\ Goto(r, "rm_root")
       \/ At(r, "unload_nginx") /\ Goto(r, "unload_php")
       \/ At(r, "unload_php") /\ Return(r)
    /\ UNCHANGED <<account, disk>>
    /\ Ignore

-----------------------------------------------------------------------------
\* A handler of another account reloads nginx and php-fpm.
ReloadElsewhere ==
    /\ pool => user # "absent"
    /\ served' \in {[nginx |-> vhost, php |-> served.php], [nginx |-> vhost, php |-> pool]}
    /\ UNCHANGED <<account, site, vhost, pool, pc, copy, left>>
    /\ Watch

\* The server dies; disk and database stay as they are.
Crash ==
    /\ pc' = [r \in Request |-> "idle"]
    /\ copy' = [r \in Request |-> NoRow]
    /\ left' = [r \in Request |-> 0]
    /\ UNCHANGED <<account, disk>>
    /\ Ignore

AccountStep(r) ==
    \/ CreateLookup(r) \/ Useradd(r) \/ Provision(r) \/ InsertRow(r) \/ InsertRefused(r)
    \/ \E h \in {"usermod_L", "usermod_U", "delete", "docroot", "rm_vhost"} : FirstRow(r, h)
    \/ Usermod(r) \/ SaveRow(r) \/ SaveFails(r)
    \/ DeleteLookup(r) \/ Userdel(r) \/ UserdelFails(r) \/ UserdelHalf(r)
    \/ DeleteRow(r) \/ DeleteRowFails(r)

DomainStep(r) ==
    \/ CreateDocRoot(r) \/ WriteVHostConfig(r) \/ WriteFPMPool(r)
    \/ TestNginx(r) \/ TestPHP(r) \/ ReloadNginx(r) \/ ReloadPHP(r)
    \/ RemoveVHostConfig(r) \/ RemoveFPMPool(r) \/ RemoveDocRoot(r)
    \/ UnloadNginx(r) \/ UnloadPHP(r) \/ IgnoredFailure(r)

Next ==
    \/ \E r \in Request : AccountStep(r) \/ DomainStep(r) \/ Fails(r)
    \/ ReloadElsewhere
    \/ Crash

Spec == Init /\ [][Next]_vars

-----------------------------------------------------------------------------
\* Every variable has its type.
TypeOK ==
    /\ row \in Row \cup {NoRow}
    /\ ids \in Nat
    /\ user \in {"absent", "unlocked", "locked"}
    /\ site \in BOOLEAN /\ vhost \in BOOLEAN /\ pool \in BOOLEAN
    /\ served \in [nginx : BOOLEAN, php : BOOLEAN]
    /\ pc \in [Request -> {"idle", "useradd", "provision", "insert", "rollback", "userdel_rb",
                "usermod_L", "usermod_U", "save_suspended", "save_active", "delete", "userdel",
                "delete_row", "docroot", "vhost", "pool", "nginx_t", "php_t", "reload_nginx",
                "reload_php", "save_domain", "rm_vhost", "rm_pool", "rm_root",
                "unload_nginx", "unload_php"}]
    /\ copy \in [Request -> Row \cup {NoRow}]
    /\ left \in [Request -> 0..Attempts]
    /\ overlapped \in BOOLEAN /\ ignored \in BOOLEAN

\* The state of the system user that a row's status stands for.
UserFor(a) == IF a.status = "suspended" THEN "locked" ELSE "unlocked"

(***************************************************************************)
(* When no handler is under way, an accounts row has its system user, and  *)
(* the user is locked exactly when the row says suspended, through every   *)
(* failure a handler reports: refused inserts, failed commands, a userdel  *)
(* that gives up.  It takes handlers that do not overlap and no failure    *)
(* that is ignored (CreateAccountHandler, SuspendAccountHandler,           *)
(* DeleteAccountHandler).                                                  *)
(***************************************************************************)
RowMatchesUser ==
    (~overlapped /\ ~ignored /\ \A r \in Request : pc[r] = "idle") =>
        (row # NoRow => user = UserFor(row))

(***************************************************************************)
(* What the domain handlers answer is so, as long as they do not overlap   *)
(* and no failure is ignored: 201 means a document root, a vhost and a     *)
(* pool that both services have loaded and that the row names; 204 means   *)
(* none of them is left (CreateDomainHandler, DeleteDomainHandler).        *)
(***************************************************************************)
DomainAnswersHold ==
    [][\A r \in Request :
         (~overlapped' /\ ~ignored' /\ pc'[r] = "idle") =>
           /\ pc[r] = "save_domain" => /\ site /\ vhost /\ pool
                                       /\ served.nginx /\ served.php
                                       /\ row' # NoRow /\ row'.named
           /\ pc[r] = "unload_php" => /\ ~site /\ ~vhost /\ ~pool
                                      /\ ~served'.nginx /\ ~served'.php]_vars

(***************************************************************************)
(* The row of an account goes only after its system user: however often    *)
(* userdel fails, half works or is given up, and whatever was ignored or   *)
(* cut off before, no deletion answers 204 and leaves a user that nothing  *)
(* in the panel knows of.  It takes handlers that do not overlap: one that *)
(* creates the user anew in between would lose its row                     *)
(* (DeleteAccountHandler, DeleteAccount).                                  *)
(***************************************************************************)
RowOutlivesUser ==
    [][~overlapped' /\ row # NoRow /\ row' = NoRow => user = "absent"]_vars
=============================================================================
