--------------------------- MODULE HostingProofs ----------------------------
(***************************************************************************)
(* Proofs about Hosting, for any number of requests and of userdel calls:  *)
(* its type invariant, that a row goes only after its system user, that    *)
(* row and user agree between handlers, and that the domain handlers       *)
(* answer what is so.                                                      *)
(***************************************************************************)
EXTENDS Hosting, TLAPS

USE HostingAssumption

\* Handlers that have not overlapped: at most one request is under way.
Alone == \A r, q \in Request : pc[r] # "idle" /\ pc[q] # "idle" => r = q

\* Who deletes the row has seen its user gone, or has removed it.
GoneInv == Alone /\ \A r \in Request : At(r, "delete_row") => user = "absent"

\* Labels of the domain handlers, and of all handlers that hold a copy of the row.
DomainLabel == {"docroot", "vhost", "pool", "nginx_t", "php_t", "reload_nginx", "reload_php",
                "save_domain", "rm_vhost", "rm_pool", "rm_root", "unload_nginx", "unload_php"}
LoadedLabel == DomainLabel \cup {"usermod_L", "usermod_U", "save_suspended", "save_active",
                                 "delete", "userdel", "delete_row"}
CreateLabel == {"useradd", "provision", "insert", "rollback", "userdel_rb"}

(***************************************************************************)
(* What a request knows of row and user at each label, while handlers do   *)
(* not overlap and no failure was ignored.  Only between a command and the *)
(* statement that follows it do row and user disagree.                     *)
(***************************************************************************)
AccountInv ==
    /\ \A r \in Request :
         /\ pc[r] \in CreateLabel => row = NoRow
         /\ pc[r] \in {"provision", "insert"} => user = "unlocked"
         /\ pc[r] \in LoadedLabel => row # NoRow /\ copy[r] = row
         /\ At(r, "save_suspended") => user = "locked"
         /\ At(r, "save_active") => user = "unlocked"
    /\ row # NoRow /\ user # UserFor(row) =>
         \E r \in Request : pc[r] \in {"save_suspended", "save_active", "delete_row"}

\* What a domain handler has made or removed at each label, on the same condition.
DomainInv ==
    \A r \in Request :
      /\ pc[r] \in {"vhost", "pool", "nginx_t", "php_t", "reload_nginx", "reload_php",
                    "save_domain"} => site
      /\ pc[r] \in {"pool", "nginx_t", "php_t", "reload_nginx", "reload_php",
                    "save_domain"} => vhost
      /\ pc[r] \in {"nginx_t", "php_t", "reload_nginx", "reload_php", "save_domain"} => pool
      /\ pc[r] \in {"reload_php", "save_domain"} => served.nginx
      /\ At(r, "save_domain") => served.php
      /\ pc[r] \in {"rm_pool", "rm_root", "unload_nginx", "unload_php"} => ~vhost
      /\ pc[r] \in {"rm_root", "unload_nginx", "unload_php"} => ~pool
      /\ pc[r] \in {"unload_nginx", "unload_php"} => ~site
      /\ At(r, "unload_php") => ~served.nginx

-----------------------------------------------------------------------------
\* Every step keeps the history: what has overlapped or was ignored stays so.
LEMMA HistoryStep ==
    ASSUME [Next]_vars
    PROVE  /\ overlapped' = overlapped \/ overlapped' = TRUE
           /\ ignored' = ignored \/ ignored' = TRUE
  BY DEF Next, AccountStep, DomainStep, vars, Watch, WatchOverlap, Ignore,
         CreateLookup, Useradd, Provision, InsertRow, InsertRefused, Usermod, SaveRow,
         SaveFails, DeleteLookup, Userdel, UserdelFails, UserdelHalf, DeleteRow,
         DeleteRowFails, FirstRow, CreateDocRoot, WriteVHostConfig, WriteFPMPool,
         TestNginx, TestPHP, ReloadNginx, ReloadPHP, RemoveVHostConfig, RemoveFPMPool,
         RemoveDocRoot, UnloadNginx, UnloadPHP, IgnoredFailure, Fails, ReloadElsewhere, Crash

\* As long as no overlap was noted, no two requests are under way.
LEMMA AloneStep ==
    ASSUME Alone, [Next]_vars, ~overlapped'
    PROVE  Alone' /\ ~overlapped
<1>1. CASE Next
  <2>1. WatchOverlap
    BY <1>1 DEF Next, AccountStep, DomainStep, Watch, Ignore,
           CreateLookup, Useradd, Provision, InsertRow, InsertRefused, Usermod, SaveRow,
           SaveFails, DeleteLookup, Userdel, UserdelFails, UserdelHalf, DeleteRow,
           DeleteRowFails, FirstRow, CreateDocRoot, WriteVHostConfig, WriteFPMPool,
           TestNginx, TestPHP, ReloadNginx, ReloadPHP, RemoveVHostConfig, RemoveFPMPool,
           RemoveDocRoot, UnloadNginx, UnloadPHP, IgnoredFailure, Fails, ReloadElsewhere, Crash
  <2> QED
    BY <2>1, Zenon DEF WatchOverlap, Overlap, Alone
<1>2. CASE UNCHANGED vars
  BY <1>2 DEF vars, Alone
<1> QED
  BY <1>1, <1>2

\* The document root, the two files and what the services have loaded are Booleans.
LEMMA DiskStep ==
    ASSUME TypeOK, [Next]_vars
    PROVE  /\ site' \in BOOLEAN /\ vhost' \in BOOLEAN /\ pool' \in BOOLEAN
           /\ served' \in [nginx : BOOLEAN, php : BOOLEAN]
<1>1. /\ site \in BOOLEAN /\ vhost \in BOOLEAN /\ pool \in BOOLEAN
      /\ served \in [nginx : BOOLEAN, php : BOOLEAN]
  BY Zenon DEF TypeOK
<1>2. /\ site' = site \/ site' = TRUE \/ site' = FALSE
      /\ vhost' = vhost \/ vhost' = TRUE \/ vhost' = FALSE
      /\ pool' = pool \/ pool' = TRUE \/ pool' = FALSE
  BY DEF Next, AccountStep, DomainStep, vars, disk,
         CreateLookup, Useradd, Provision, InsertRow, InsertRefused, Usermod, SaveRow,
         SaveFails, DeleteLookup, Userdel, UserdelFails, UserdelHalf, DeleteRow,
         DeleteRowFails, FirstRow, CreateDocRoot, WriteVHostConfig, WriteFPMPool,
         TestNginx, TestPHP, ReloadNginx, ReloadPHP, RemoveVHostConfig, RemoveFPMPool,
         RemoveDocRoot, UnloadNginx, UnloadPHP, IgnoredFailure, Fails, ReloadElsewhere, Crash
<1>3. \/ served' = served
      \/ served' \in {[nginx |-> vhost, php |-> served.php], [nginx |-> served.nginx, php |-> pool],
                      [nginx |-> vhost, php |-> pool]}
  BY DEF Next, AccountStep, DomainStep, vars, disk,
         CreateLookup, Useradd, Provision, InsertRow, InsertRefused, Usermod, SaveRow,
         SaveFails, DeleteLookup, Userdel, UserdelFails, UserdelHalf, DeleteRow,
         DeleteRowFails, FirstRow, CreateDocRoot, WriteVHostConfig, WriteFPMPool,
         TestNginx, TestPHP, ReloadNginx, ReloadPHP, RemoveVHostConfig, RemoveFPMPool,
         RemoveDocRoot, UnloadNginx, UnloadPHP, IgnoredFailure, Fails, ReloadElsewhere, Crash
<1>4. site' \in BOOLEAN /\ vhost' \in BOOLEAN /\ pool' \in BOOLEAN
  BY <1>1, <1>2, Zenon
<1>5. served' \in [nginx : BOOLEAN, php : BOOLEAN]
  <2>1. served.nginx \in BOOLEAN /\ served.php \in BOOLEAN
    BY <1>1, Zenon
  <2>2. \A a, b \in BOOLEAN : [nginx |-> a, php |-> b] \in [nginx : BOOLEAN, php : BOOLEAN]
    BY Zenon
  <2>3. CASE served' = [nginx |-> vhost, php |-> served.php]
    BY <1>1, <2>1, <2>2, <2>3, Zenon
  <2>4. CASE served' = [nginx |-> served.nginx, php |-> pool]
    BY <1>1, <2>1, <2>2, <2>4, Zenon
  <2>5. CASE served' = [nginx |-> vhost, php |-> pool]
    BY <1>1, <2>2, <2>5, Zenon
  <2> QED
    BY <1>1, <1>3, <2>3, <2>4, <2>5, Zenon
<1> QED
  BY <1>4, <1>5

-----------------------------------------------------------------------------
\* A request that works on a row has loaded one.
CopyInv == \A r \in Request : pc[r] \in LoadedLabel => copy[r] \in Row

\* MakeRow makes a row.
LEMMA MadeRow ==
    ASSUME NEW id \in Nat, NEW named \in BOOLEAN, NEW status \in {"active", "suspended"}
    PROVE  MakeRow(id, named, status) \in Row
  BY Zenon DEF MakeRow, Row

\* What is saved is a row, with the id of the copy.
LEMMA ChangedRow ==
    ASSUME NEW r \in Request, copy[r] \in Row
    PROVE  Changed(r) \in Row /\ Changed(r).id = copy[r].id
<1>1. copy[r].id \in Nat /\ copy[r].named \in BOOLEAN /\ copy[r].status \in {"active", "suspended"}
  BY Zenon DEF Row
<1>2. Changed(r) \in Row
  <2>1. CASE At(r, "save_domain")
    <3>1. MakeRow(copy[r].id, TRUE, copy[r].status) \in Row
      BY <1>1, MadeRow, Zenon
    <3> QED
      BY <2>1, <3>1, Zenon DEF Changed
  <2>2. CASE ~At(r, "save_domain")
    <3> DEFINE status == IF At(r, "save_suspended") THEN "suspended" ELSE "active"
    <3>1. status \in {"active", "suspended"}
      OBVIOUS
    <3> HIDE DEF status
    <3>2. MakeRow(copy[r].id, copy[r].named, status) \in Row
      BY <1>1, <3>1, MadeRow, Zenon
    <3> QED
      BY <2>2, <3>2, Zenon DEF Changed, status
  <2> QED
    BY <2>1, <2>2
<1>3. Changed(r).id = copy[r].id
  BY DEF Changed, MakeRow
<1> QED
  BY <1>2, <1>3

\* One step of a handler, a reload or a crash keeps every variable in its type.
LEMMA TypeStep == ASSUME TypeOK, CopyInv, [Next]_vars PROVE TypeOK' /\ CopyInv'
<1>1. /\ site' \in BOOLEAN /\ vhost' \in BOOLEAN /\ pool' \in BOOLEAN
      /\ served' \in [nginx : BOOLEAN, php : BOOLEAN]
  BY DiskStep
<1>2. overlapped' \in BOOLEAN /\ ignored' \in BOOLEAN
  <2>1. overlapped \in BOOLEAN /\ ignored \in BOOLEAN
    BY Zenon DEF TypeOK
  <2> QED
    BY <2>1, HistoryStep, Zenon
<1>3. TypeOK /\ CopyInv
  OBVIOUS
<1> USE DEF TypeOK, CopyInv, LoadedLabel, DomainLabel, account, disk
<1>4. ASSUME NEW r \in Request, AccountStep(r) PROVE TypeOK' /\ CopyInv'
  <2>1. CASE CreateLookup(r)
    BY <2>1, <1>1, <1>2, <1>3 DEF CreateLookup, Goto, Return, At
  <2>2. CASE Useradd(r)
    BY <2>2, <1>1, <1>2, <1>3 DEF Useradd, Goto, Return, At
  <2>3. CASE Provision(r)
    BY <2>3, <1>1, <1>2, <1>3 DEF Provision, Goto, Return, At
  <2>4. CASE InsertRow(r)
    <3>1. row' \in Row
      <4>1. PICK named \in BOOLEAN : row' = MakeRow(ids + 1, named, "active")
        BY <2>4, Zenon DEF InsertRow
      <4>2. ids + 1 \in Nat
        BY <1>3
      <4> QED
        BY <4>1, <4>2, MadeRow, Zenon
    <3>2. ids' \in Nat
      BY <1>3, <2>4 DEF InsertRow
    <3> HIDE DEF Row
    <3> QED
      BY <2>4, <3>1, <3>2, <1>1, <1>2, <1>3 DEF InsertRow, Goto, Return, At
  <2>5. CASE InsertRefused(r)
    BY <2>5, <1>1, <1>2, <1>3 DEF InsertRefused, Goto, Return, At
  <2>6. CASE Usermod(r)
    BY <2>6, <1>1, <1>2, <1>3 DEF Usermod, Goto, Return, At
  <2>7. CASE SaveRow(r)
    <3>1. Saving(r) /\ row' = Changed(r)
      BY <2>7 DEF SaveRow
    <3>2. pc[r] \in LoadedLabel
      BY <3>1 DEF Saving
    <3>3. row' \in Row
      BY <3>1, <3>2, <1>3, ChangedRow DEF CopyInv
    <3> HIDE DEF Row
    <3> QED
      BY <2>7, <3>3, <1>1, <1>2, <1>3 DEF SaveRow, Goto, Return, At
  <2>8. CASE SaveFails(r)
    BY <2>8, <1>1, <1>2, <1>3 DEF SaveFails, Goto, Return, At
  <2>9. CASE DeleteLookup(r)
    BY <2>9, <1>1, <1>2, <1>3 DEF DeleteLookup, Goto, Return, At
  <2>10. CASE Userdel(r)
    BY <2>10, <1>1, <1>2, <1>3 DEF Userdel, Goto, Return, At
  <2>11. CASE UserdelFails(r)
    BY <2>11, <1>1, <1>2, <1>3 DEF UserdelFails, Goto, Return, At
  <2>12. CASE UserdelHalf(r)
    BY <2>12, <1>1, <1>2, <1>3 DEF UserdelHalf, Goto, Return, At
  <2>13. CASE DeleteRow(r)
    BY <2>13, <1>1, <1>2, <1>3 DEF DeleteRow, Goto, Return, At
  <2>14. CASE DeleteRowFails(r)
    BY <2>14, <1>1, <1>2, <1>3 DEF DeleteRowFails, Goto, Return, At
  <2>20. ASSUME NEW h \in {"usermod_L", "usermod_U", "delete", "docroot", "rm_vhost"},
               FirstRow(r, h)
         PROVE  TypeOK' /\ CopyInv'
    BY <2>20, <1>1, <1>2, <1>3 DEF FirstRow, At
  <2> QED
    BY <1>4, <2>1, <2>2, <2>3, <2>4, <2>5, <2>6, <2>7, <2>8, <2>9, <2>10, <2>11, <2>12,
       <2>13, <2>14,
       <2>20 DEF AccountStep
<1>5. ASSUME NEW r \in Request, DomainStep(r) PROVE TypeOK' /\ CopyInv'
  <2>1. CASE CreateDocRoot(r)
    BY <2>1, <1>1, <1>2, <1>3 DEF CreateDocRoot, Goto, Return, At
  <2>2. CASE WriteVHostConfig(r)
    BY <2>2, <1>1, <1>2, <1>3 DEF WriteVHostConfig, Goto, Return, At
  <2>3. CASE WriteFPMPool(r)
    BY <2>3, <1>1, <1>2, <1>3 DEF WriteFPMPool, Goto, Return, At
  <2>4. CASE TestNginx(r)
    <3>1. \/ Goto(r, "php_t")
          \/ Return(r)
      BY <2>4, Zenon DEF TestNginx
    <3>2. UNCHANGED account
      BY <2>4 DEF TestNginx
    <3>3. CASE Return(r)
      BY <3>2, <3>3, <1>1, <1>2, <1>3 DEF Return
    <3>4. CASE Goto(r, "php_t")
      BY <2>4, <3>2, <3>4, <1>1, <1>2, <1>3 DEF Goto, TestNginx, At
    <3> QED
      BY <3>1, <3>3, <3>4
  <2>5. CASE TestPHP(r)
    <3>1. \/ Goto(r, "reload_nginx")
          \/ Return(r)
      BY <2>5, Zenon DEF TestPHP
    <3>2. UNCHANGED account
      BY <2>5 DEF TestPHP
    <3>3. CASE Return(r)
      BY <3>2, <3>3, <1>1, <1>2, <1>3 DEF Return
    <3>4. CASE Goto(r, "reload_nginx")
      BY <2>5, <3>2, <3>4, <1>1, <1>2, <1>3 DEF Goto, TestPHP, At
    <3> QED
      BY <3>1, <3>3, <3>4
  <2>6. CASE ReloadNginx(r)
    BY <2>6, <1>1, <1>2, <1>3 DEF ReloadNginx, Goto, Return, At
  <2>7. CASE ReloadPHP(r)
    BY <2>7, <1>1, <1>2, <1>3 DEF ReloadPHP, Goto, Return, At
  <2>8. CASE RemoveVHostConfig(r)
    BY <2>8, <1>1, <1>2, <1>3 DEF RemoveVHostConfig, Goto, Return, At
  <2>9. CASE RemoveFPMPool(r)
    BY <2>9, <1>1, <1>2, <1>3 DEF RemoveFPMPool, Goto, Return, At
  <2>10. CASE RemoveDocRoot(r)
    BY <2>10, <1>1, <1>2, <1>3 DEF RemoveDocRoot, Goto, Return, At
  <2>11. CASE UnloadNginx(r) \/ UnloadPHP(r)
    BY <2>11, <1>1, <1>2, <1>3 DEF UnloadNginx, UnloadPHP, Goto, Return, At
  <2>12. CASE IgnoredFailure(r)
    BY <2>12, <1>1, <1>2, <1>3 DEF IgnoredFailure, Goto, Return, At
  <2> QED
    BY <1>5, <2>1, <2>2, <2>3, <2>4, <2>5, <2>6, <2>7, <2>8, <2>9, <2>10, <2>11, <2>12
       DEF DomainStep
<1>6. ASSUME NEW r \in Request, Fails(r) PROVE TypeOK' /\ CopyInv'
  BY <1>1, <1>2, <1>3, <1>6 DEF Fails, Return
<1>7. CASE ReloadElsewhere
  BY <1>1, <1>2, <1>3, <1>7 DEF ReloadElsewhere
<1>8. CASE Crash
  BY <1>1, <1>2, <1>3, <1>8 DEF Crash
<1>9. CASE UNCHANGED vars
  BY <1>1, <1>2, <1>3, <1>9 DEF vars
<1> QED
  BY <1>4, <1>5, <1>6, <1>7, <1>8, <1>9 DEF Next

(***************************************************************************)
(* Type correctness of the hosting state, and that every handler that      *)
(* works on a row has loaded one.                                          *)
(***************************************************************************)
THEOREM TypeCorrect == Spec => [](TypeOK /\ CopyInv)
<1>1. Init => TypeOK /\ CopyInv
  <2> SUFFICES ASSUME Init PROVE TypeOK /\ CopyInv
    OBVIOUS
  <2>1. /\ site \in BOOLEAN /\ vhost \in BOOLEAN /\ pool \in BOOLEAN
        /\ served \in [nginx : BOOLEAN, php : BOOLEAN]
        /\ overlapped \in BOOLEAN /\ ignored \in BOOLEAN
    BY Zenon DEF Init
  <2> QED
    BY <2>1 DEF Init, TypeOK, CopyInv, LoadedLabel, DomainLabel
<1>2. QED
  BY <1>1, TypeStep, PTL DEF Spec

-----------------------------------------------------------------------------
\* While handlers do not overlap, who deletes the row keeps its user gone.
LEMMA GoneStep ==
    ASSUME TypeOK, GoneInv, [Next]_vars, ~overlapped'
    PROVE  GoneInv' /\ ~overlapped
<1>1. Alone' /\ ~overlapped
  BY AloneStep DEF GoneInv
<1>2. \A r \in Request : At(r, "delete_row")' => (user = "absent")'
  <2> SUFFICES ASSUME NEW q \in Request, pc'[q] = "delete_row" PROVE user' = "absent"
    BY DEF At
  <2> USE DEF GoneInv, Alone, TypeOK, At, account
  <2>1. CASE \E r \in Request : AccountStep(r)
    <3>1. PICK r \in Request : AccountStep(r)
      BY <2>1
    <3>2. CASE pc[q] = "delete_row"
      <4>1. user = "absent" /\ (pc[r] # "idle" => r = q)
        BY <3>2
      <4> QED
        BY <3>1, <3>2, <4>1, <1>1 DEF AccountStep, CreateLookup, Useradd, Provision, InsertRow,
           InsertRefused, FirstRow, Usermod, SaveRow, SaveFails, Saving, DeleteLookup, Userdel,
           UserdelFails, UserdelHalf, DeleteRow, DeleteRowFails, Goto, Return
    <3>3. CASE pc[q] # "delete_row"
      <4>1. r = q /\ (DeleteLookup(r) \/ Userdel(r))
        BY <3>1, <3>3 DEF AccountStep, CreateLookup, Useradd, Provision, InsertRow,
           InsertRefused, FirstRow, Usermod, SaveRow, SaveFails, Saving, DeleteLookup, Userdel,
           UserdelFails, UserdelHalf, DeleteRow, DeleteRowFails, Goto, Return
      <4> QED
        BY <4>1, <3>3 DEF DeleteLookup, Userdel, Goto, Return
    <3> QED
      BY <3>2, <3>3
  <2>2. CASE \E r \in Request : DomainStep(r) \/ Fails(r)
    <3>1. PICK r \in Request : DomainStep(r) \/ Fails(r)
      BY <2>2
    <3>2. user' = user /\ pc[q] = "delete_row"
      BY <3>1 DEF DomainStep, CreateDocRoot, WriteVHostConfig, WriteFPMPool, TestNginx, TestPHP,
         ReloadNginx, ReloadPHP, RemoveVHostConfig, RemoveFPMPool, RemoveDocRoot, UnloadNginx,
         UnloadPHP, IgnoredFailure, Fails, Goto, Return
    <3> QED
      BY <3>2
  <2>3. CASE ReloadElsewhere \/ Crash \/ UNCHANGED vars
    BY <2>3 DEF ReloadElsewhere, Crash, vars
  <2> QED
    BY <2>1, <2>2, <2>3 DEF Next
<1> QED
  BY <1>1, <1>2 DEF GoneInv

\* Only DeleteRow makes a row disappear.
LEMMA RowGoes ==
    ASSUME TypeOK, CopyInv, [Next]_vars, row # NoRow, row' = NoRow
    PROVE  \E r \in Request : At(r, "delete_row")
<1>1. ASSUME NEW r \in Request, SaveRow(r) PROVE FALSE
  <2>1. pc[r] \in LoadedLabel /\ row' = Changed(r)
    BY <1>1 DEF SaveRow, Saving, LoadedLabel, DomainLabel
  <2>2. Changed(r) \in Row
    BY <2>1, ChangedRow DEF CopyInv
  <2> QED
    BY <2>1, <2>2 DEF Row
<1>2. ASSUME NEW r \in Request, InsertRow(r) PROVE FALSE
  BY <1>2 DEF InsertRow
<1> QED
  BY <1>1, <1>2 DEF Next, AccountStep, DomainStep, vars, account,
         CreateLookup, Useradd, Provision, InsertRefused, Usermod, SaveFails,
         DeleteLookup, Userdel, UserdelFails, UserdelHalf, DeleteRow, DeleteRowFails,
         FirstRow, CreateDocRoot, WriteVHostConfig, WriteFPMPool, TestNginx, TestPHP,
         ReloadNginx, ReloadPHP, RemoveVHostConfig, RemoveFPMPool, RemoveDocRoot,
         UnloadNginx, UnloadPHP, IgnoredFailure, Fails, ReloadElsewhere, Crash

(***************************************************************************)
(* However often userdel fails, half works or is given up, a row goes only *)
(* after its system user, as long as handlers do not overlap.              *)
(***************************************************************************)
THEOREM OutlivesTheorem == Spec => RowOutlivesUser
<1> DEFINE Inv == ~overlapped => GoneInv
<1>1. Init => Inv
  BY DEF Init, GoneInv, Alone, At
<1>2. TypeOK /\ Inv /\ [Next]_vars => Inv'
  <2> SUFFICES ASSUME TypeOK, Inv, [Next]_vars, ~overlapped' PROVE GoneInv'
    OBVIOUS
  <2>1. ~overlapped
    BY HistoryStep, Zenon
  <2> QED
    BY <2>1, GoneStep
<1>3. TypeOK /\ CopyInv /\ Inv /\ [Next]_vars =>
        [~overlapped' /\ row # NoRow /\ row' = NoRow => user = "absent"]_vars
  <2> SUFFICES ASSUME TypeOK, CopyInv, Inv, [Next]_vars, ~overlapped', row # NoRow, row' = NoRow
               PROVE  user = "absent"
    OBVIOUS
  <2>1. ~overlapped
    BY HistoryStep, Zenon
  <2> QED
    BY <2>1, RowGoes DEF GoneInv
<1> QED
  BY <1>1, <1>2, <1>3, TypeCorrect, PTL DEF Spec, RowOutlivesUser

-----------------------------------------------------------------------------
\* While handlers do not overlap and no failure is ignored, row and user agree.
LEMMA AccountInvStep ==
    ASSUME TypeOK, CopyInv, Alone, Alone', AccountInv, [Next]_vars, ~ignored'
    PROVE  AccountInv'
<1>1. TypeOK /\ CopyInv /\ Alone /\ AccountInv
  OBVIOUS
<1>2. Alone'
  OBVIOUS
<1>3. ~Ignore
  BY Zenon DEF Ignore
<1> USE DEF TypeOK, CopyInv, Alone, AccountInv, CreateLabel, LoadedLabel, DomainLabel, At, account
<1> HIDE DEF Row, UserFor
<1>4. ASSUME NEW r \in Request, AccountStep(r) PROVE AccountInv'
  <2>1. CASE CreateLookup(r)
    <3>1. \A q \in Request : pc[q] \notin {"save_suspended", "save_active", "delete_row"}
      BY <2>1, <1>2 DEF CreateLookup, Goto
    <3>2. row = NoRow
      BY <2>1, <3>1, <1>1 DEF CreateLookup, UserFor
    <3> QED
      BY <2>1, <3>2, <1>1, <1>2 DEF CreateLookup, Goto
  <2>2. CASE Useradd(r)
    BY <2>2, <1>1, <1>2 DEF Useradd, Goto, Return
  <2>3. CASE Provision(r)
    BY <2>3, <1>1, <1>2 DEF Provision, Goto, Return
  <2>4. CASE InsertRow(r)
    <3>1. PICK named \in BOOLEAN : row' = MakeRow(ids + 1, named, "active")
      BY <2>4, Zenon DEF InsertRow
    <3>2. row'.status = "active"
      BY <3>1 DEF MakeRow
    <3>3. user' = "unlocked" /\ UserFor(row') = "unlocked" /\ pc' = [pc EXCEPT ![r] = "idle"]
      BY <2>4, <3>2, <1>1 DEF InsertRow, Return, UserFor
    <3> QED
      BY <2>4, <3>3, <1>1 DEF InsertRow
  <2>5. CASE InsertRefused(r)
    BY <2>5, <1>1, <1>2 DEF InsertRefused, Goto, Return
  <2>6. CASE Usermod(r)
    BY <2>6, <1>1, <1>2 DEF Usermod, Goto, Return
  <2>7. CASE SaveRow(r)
    <3>1. Saving(r) /\ row' = Changed(r) /\ user' = user /\ pc' = [pc EXCEPT ![r] = "idle"]
      BY <2>7 DEF SaveRow, Return
    <3>2. copy[r] = row /\ row \in Row
      BY <3>1, <1>1 DEF Saving
    <3>3. Changed(r) \in Row /\ UserFor(Changed(r)) = user
      <4>1. Changed(r) \in Row
        BY <3>2, ChangedRow
      <4>2. At(r, "save_domain") => user = UserFor(row)
        BY <3>1, <1>1 DEF Saving
      <4>3. Changed(r).status = IF At(r, "save_domain") THEN row.status
                                ELSE IF At(r, "save_suspended") THEN "suspended" ELSE "active"
        BY <3>2 DEF Changed, MakeRow
      <4>4. CASE At(r, "save_domain")
        <5>1. Changed(r).status = row.status
          BY <4>3, <4>4
        <5> QED
          BY <4>1, <4>2, <4>4, <5>1 DEF UserFor
      <4>5. CASE At(r, "save_suspended")
        <5>1. Changed(r).status = "suspended" /\ user = "locked"
          BY <4>3, <4>5, <1>1
        <5> QED
          BY <4>1, <5>1 DEF UserFor
      <4>6. CASE At(r, "save_active")
        <5>1. Changed(r).status = "active" /\ user = "unlocked"
          BY <4>3, <4>6, <1>1
        <5> QED
          BY <4>1, <5>1 DEF UserFor
      <4> QED
        BY <3>1, <4>4, <4>5, <4>6 DEF Saving
    <3>4. \A q \in Request : pc'[q] = "idle"
      BY <3>1, <1>1 DEF Saving
    <3>5. user' = UserFor(row')
      BY <3>1, <3>3
    <3> QED
      BY <3>4, <3>5
  <2>8. CASE DeleteLookup(r)
    BY <2>8, <1>1, <1>2 DEF DeleteLookup, Goto, Return
  <2>9. CASE Userdel(r)
    BY <2>9, <1>1, <1>2 DEF Userdel, Goto, Return
  <2>10. CASE UserdelFails(r)
    BY <2>10, <1>1, <1>2 DEF UserdelFails, Goto, Return
  <2>11. CASE DeleteRow(r)
    BY <2>11, <1>1, <1>2 DEF DeleteRow, Goto, Return
  <2>20. ASSUME NEW h \in {"usermod_L", "usermod_U", "delete", "docroot", "rm_vhost"},
               FirstRow(r, h)
         PROVE  AccountInv'
    BY <2>20, <1>1, <1>2 DEF FirstRow
  <2>21. CASE SaveFails(r) \/ UserdelHalf(r) \/ DeleteRowFails(r)
    BY <2>21, <1>3 DEF SaveFails, UserdelHalf, DeleteRowFails
  <2> QED
    BY <1>4, <2>1, <2>2, <2>3, <2>4, <2>5, <2>6, <2>7, <2>8, <2>9, <2>10, <2>11, <2>20, <2>21
       DEF AccountStep
<1>5. ASSUME NEW r \in Request, DomainStep(r) PROVE AccountInv'
  <2>1. ~IgnoredFailure(r)
    BY <1>3 DEF IgnoredFailure
  <2>2. /\ UNCHANGED account
        /\ pc[r] \in DomainLabel \ {"save_domain"}
        /\ \E l \in DomainLabel \cup {"idle"} :
             pc' = [pc EXCEPT ![r] = l] /\ (l # "idle" => copy' = copy)
    BY <1>5, <2>1 DEF DomainStep, Goto, Return,
           CreateDocRoot, WriteVHostConfig, WriteFPMPool, TestNginx, TestPHP,
           ReloadNginx, ReloadPHP, RemoveVHostConfig, RemoveFPMPool, RemoveDocRoot,
           UnloadNginx, UnloadPHP
  <2>3. PICK l \in DomainLabel \cup {"idle"} :
          pc' = [pc EXCEPT ![r] = l] /\ (l # "idle" => copy' = copy)
    BY <2>2
  <2> QED
    BY <2>2, <2>3, <1>1
<1>6. ASSUME NEW r \in Request, Fails(r) PROVE AccountInv'
  BY <1>1, <1>6 DEF Fails, Return
<1>7. CASE ReloadElsewhere
  BY <1>1, <1>7 DEF ReloadElsewhere
<1>8. CASE Crash
  BY <1>3, <1>8 DEF Crash
<1>9. CASE UNCHANGED vars
  BY <1>1, <1>9 DEF vars
<1> QED
  BY <1>4, <1>5, <1>6, <1>7, <1>8, <1>9 DEF Next

(***************************************************************************)
(* As long as handlers do not overlap and no failure is ignored, whenever  *)
(* none is under way an accounts row has its system user, locked exactly   *)
(* when the row says suspended.                                            *)
(***************************************************************************)
THEOREM AccountTheorem == Spec => []RowMatchesUser
<1> DEFINE Inv == (~overlapped => Alone) /\ (~overlapped /\ ~ignored => AccountInv)
<1>1. Init => Inv
  BY DEF Init, Alone, AccountInv, CreateLabel, LoadedLabel, DomainLabel, At
<1>2. TypeOK /\ CopyInv /\ Inv /\ [Next]_vars => Inv'
  <2> SUFFICES ASSUME TypeOK, CopyInv, Inv, [Next]_vars, ~overlapped'
               PROVE  Alone' /\ (~ignored' => AccountInv')
    OBVIOUS
  <2>1. ~overlapped
    BY HistoryStep, Zenon
  <2>2. Alone /\ Alone'
    BY <2>1, AloneStep
  <2>3. ~ignored' => ~ignored
    BY HistoryStep, Zenon
  <2> QED
    BY <2>1, <2>2, <2>3, AccountInvStep
<1>3. Inv => RowMatchesUser
  BY DEF AccountInv, RowMatchesUser
<1> QED
  BY <1>1, <1>2, <1>3, TypeCorrect, PTL DEF Spec

-----------------------------------------------------------------------------
\* While handlers do not overlap and no failure is ignored, each step of a domain
\* handler leaves what it was to make or remove for the steps that follow.
LEMMA DomainInvStep ==
    ASSUME TypeOK, Alone, DomainInv, [Next]_vars, Alone', ~ignored'
    PROVE  DomainInv'
<1>1. TypeOK /\ Alone /\ DomainInv
  OBVIOUS
<1>2. ~Ignore
  BY Zenon DEF Ignore
<1> USE DEF TypeOK, Alone, DomainInv, At, disk
<1>3. ASSUME NEW r \in Request, AccountStep(r) PROVE DomainInv'
  <2> DEFINE NoDomainStep ==
        /\ UNCHANGED <<vhost, pool, served>>
        /\ \/ UNCHANGED site
           \/ Userdel(r)
        /\ pc'[r] \notin {"vhost", "pool", "nginx_t", "php_t", "reload_nginx", "reload_php",
                        "save_domain", "rm_pool", "rm_root", "unload_nginx", "unload_php"}
        /\ \A q \in Request : q # r => pc'[q] = pc[q]
  <2>1. NoDomainStep
    <3> USE DEF Goto, Return, account
    <3>1. CASE CreateLookup(r)
      BY <1>1, <3>1 DEF CreateLookup
    <3>2. CASE Useradd(r)
      BY <1>1, <3>2 DEF Useradd
    <3>3. CASE Provision(r)
      BY <1>1, <3>3 DEF Provision
    <3>4. CASE InsertRow(r)
      BY <1>1, <3>4 DEF InsertRow
    <3>5. CASE InsertRefused(r)
      BY <1>1, <3>5 DEF InsertRefused
    <3>6. CASE Usermod(r)
      BY <1>1, <3>6 DEF Usermod
    <3>7. CASE SaveRow(r)
      BY <1>1, <3>7 DEF SaveRow, Saving
    <3>8. CASE SaveFails(r)
      BY <1>1, <3>8 DEF SaveFails, Saving
    <3>9. CASE DeleteLookup(r)
      BY <1>1, <3>9 DEF DeleteLookup
    <3>10. CASE Userdel(r)
      BY <1>1, <3>10 DEF Userdel
    <3>11. CASE UserdelFails(r)
      BY <1>1, <3>11 DEF UserdelFails
    <3>12. CASE UserdelHalf(r)
      BY <1>1, <3>12 DEF UserdelHalf
    <3>13. CASE DeleteRow(r)
      BY <1>1, <3>13 DEF DeleteRow
    <3>14. CASE DeleteRowFails(r)
      BY <1>1, <3>14 DEF DeleteRowFails
    <3>15. ASSUME NEW h \in {"usermod_L", "usermod_U", "delete", "docroot", "rm_vhost"},
                FirstRow(r, h)
         PROVE  NoDomainStep
      BY <1>1, <3>15 DEF FirstRow
    <3> HIDE DEF NoDomainStep, Goto, Return, TypeOK, Alone, DomainInv
    <3> QED
      BY <1>3, <3>1, <3>2, <3>3, <3>4, <3>5, <3>6, <3>7, <3>8, <3>9, <3>10, <3>11, <3>12,
         <3>13, <3>14, <3>15
         DEF AccountStep
  <2>2. CASE UNCHANGED site
    BY <1>1, <2>1, <2>2
  <2>3. CASE Userdel(r)
    <3>1. \A q \in Request : q # r => pc[q] = "idle"
      BY <1>1, <2>3 DEF Userdel
    <3> QED
      BY <1>1, <2>1, <3>1
  <2> QED
    BY <2>1, <2>2, <2>3
<1>4. ASSUME NEW r \in Request, DomainStep(r) PROVE DomainInv'
  <2>1. CASE CreateDocRoot(r)
    BY <2>1, <1>1 DEF CreateDocRoot, Goto, Return
  <2>2. CASE WriteVHostConfig(r)
    BY <2>2, <1>1 DEF WriteVHostConfig, Goto, Return
  <2>3. CASE WriteFPMPool(r)
    BY <2>3, <1>1 DEF WriteFPMPool, Goto, Return
  <2>4. CASE TestNginx(r)
    <3>1. CASE Goto(r, "php_t") /\ UNCHANGED vhost
      BY <2>4, <3>1, <1>1 DEF TestNginx, Goto
    <3>2. CASE Return(r)
      <4>1. \A q \in Request : pc'[q] = "idle"
        BY <2>4, <3>2, <1>1 DEF TestNginx, Return
      <4> QED
        BY <4>1
    <3> QED
      BY <2>4, <3>1, <3>2 DEF TestNginx
  <2>5. CASE TestPHP(r)
    <3>1. CASE Goto(r, "reload_nginx") /\ UNCHANGED <<vhost, pool>>
      BY <2>5, <3>1, <1>1 DEF TestPHP, Goto
    <3>2. CASE Return(r)
      <4>1. \A q \in Request : pc'[q] = "idle"
        BY <2>5, <3>2, <1>1 DEF TestPHP, Return
      <4> QED
        BY <4>1
    <3> QED
      BY <2>5, <3>1, <3>2 DEF TestPHP
  <2>6. CASE ReloadNginx(r)
    BY <2>6, <1>1 DEF ReloadNginx, Goto, Return
  <2>7. CASE ReloadPHP(r)
    BY <2>7, <1>1 DEF ReloadPHP, Goto, Return
  <2>8. CASE RemoveVHostConfig(r)
    BY <2>8, <1>1 DEF RemoveVHostConfig, Goto, Return
  <2>9. CASE RemoveFPMPool(r)
    BY <2>9, <1>1 DEF RemoveFPMPool, Goto, Return
  <2>10. CASE RemoveDocRoot(r)
    BY <2>10, <1>1 DEF RemoveDocRoot, Goto, Return
  <2>11. CASE UnloadNginx(r) \/ UnloadPHP(r)
    BY <2>11, <1>1 DEF UnloadNginx, UnloadPHP, Goto, Return
  <2> QED
    BY <1>2, <1>4, <2>1, <2>2, <2>3, <2>4, <2>5, <2>6, <2>7, <2>8, <2>9, <2>10, <2>11
       DEF DomainStep, IgnoredFailure
<1>5. ASSUME NEW r \in Request, Fails(r) PROVE DomainInv'
  BY <1>1, <1>5 DEF Fails, Return
<1>6. CASE ReloadElsewhere
  BY <1>1, <1>6 DEF ReloadElsewhere
<1>7. CASE Crash
  BY <1>2, <1>7 DEF Crash
<1>8. CASE UNCHANGED vars
  BY <1>1, <1>8 DEF vars
<1> QED
  BY <1>3, <1>4, <1>5, <1>6, <1>7, <1>8 DEF Next

\* A handler of the domain that answers has taken its last step itself.
LEMMA AnswerStep ==
    ASSUME TypeOK, Next, ~Ignore, NEW r \in Request,
           pc[r] \in {"save_domain", "unload_php"}, pc'[r] # pc[r]
    PROVE  SaveRow(r) \/ UnloadPHP(r)
<1> USE DEF At
<1>1. pc = [q \in Request |-> pc[q]]
  BY DEF TypeOK
<1>2. ASSUME NEW q \in Request, AccountStep(q) \/ DomainStep(q) \/ Fails(q)
      PROVE  SaveRow(r) \/ UnloadPHP(r)
  <2>1. pc = [p \in Request |-> pc[p]] /\ pc[r] \in {"save_domain", "unload_php"} /\ pc'[r] # pc[r]
    BY <1>1
  <2>2. CASE AccountStep(q) \/ DomainStep(q)
    <3>1. CASE CreateLookup(q)
      BY <3>1, <2>1 DEF CreateLookup, Goto, Return
    <3>2. CASE Useradd(q)
      BY <3>2, <2>1 DEF Useradd, Goto, Return
    <3>3. CASE Provision(q)
      BY <3>3, <2>1 DEF Provision, Goto, Return
    <3>4. CASE InsertRow(q)
      BY <3>4, <2>1 DEF InsertRow, Goto, Return
    <3>5. CASE InsertRefused(q)
      BY <3>5, <2>1 DEF InsertRefused, Goto, Return
    <3>6. CASE Usermod(q)
      BY <3>6, <2>1 DEF Usermod, Goto, Return
    <3>7. CASE DeleteLookup(q)
      BY <3>7, <2>1 DEF DeleteLookup, Goto, Return
    <3>8. CASE Userdel(q)
      BY <3>8, <2>1 DEF Userdel, Goto, Return
    <3>9. CASE UserdelFails(q)
      BY <3>9, <2>1 DEF UserdelFails, Goto, Return
    <3>10. CASE UserdelHalf(q)
      BY <3>10, <2>1 DEF UserdelHalf, Goto, Return
    <3>11. CASE DeleteRow(q)
      BY <3>11, <2>1 DEF DeleteRow, Goto, Return
    <3>12. CASE CreateDocRoot(q)
      BY <3>12, <2>1 DEF CreateDocRoot, Goto, Return
    <3>13. CASE WriteVHostConfig(q)
      BY <3>13, <2>1 DEF WriteVHostConfig, Goto, Return
    <3>14. CASE WriteFPMPool(q)
      BY <3>14, <2>1 DEF WriteFPMPool, Goto, Return
    <3>15. CASE TestNginx(q)
      BY <3>15, <2>1 DEF TestNginx, Goto, Return
    <3>16. CASE TestPHP(q)
      BY <3>16, <2>1 DEF TestPHP, Goto, Return
    <3>17. CASE ReloadNginx(q)
      BY <3>17, <2>1 DEF ReloadNginx, Goto, Return
    <3>18. CASE ReloadPHP(q)
      BY <3>18, <2>1 DEF ReloadPHP, Goto, Return
    <3>19. CASE RemoveVHostConfig(q)
      BY <3>19, <2>1 DEF RemoveVHostConfig, Goto, Return
    <3>20. CASE RemoveFPMPool(q)
      BY <3>20, <2>1 DEF RemoveFPMPool, Goto, Return
    <3>21. CASE RemoveDocRoot(q)
      BY <3>21, <2>1 DEF RemoveDocRoot, Goto, Return
    <3>22. ASSUME NEW h \in {"usermod_L", "usermod_U", "delete", "docroot", "rm_vhost"},
                  FirstRow(q, h)
           PROVE  SaveRow(r) \/ UnloadPHP(r)
      BY <2>1, <3>22 DEF FirstRow
    <3>23. CASE SaveRow(q)
      BY <2>1, <3>23 DEF SaveRow, Return
    <3>24. CASE UnloadNginx(q) \/ UnloadPHP(q)
      BY <2>1, <3>24 DEF UnloadNginx, UnloadPHP, Goto, Return
    <3> QED
      BY <2>2, <3>1, <3>2, <3>3, <3>4, <3>5, <3>6, <3>7, <3>8, <3>9, <3>10, <3>11, <3>12,
         <3>13, <3>14, <3>15, <3>16, <3>17, <3>18, <3>19, <3>20, <3>21, <3>22, <3>23, <3>24
         DEF AccountStep, DomainStep, SaveFails, DeleteRowFails, IgnoredFailure
  <2>3. CASE Fails(q)
    BY <2>1, <2>3 DEF Fails, Return
  <2> QED
    BY <1>2, <2>2, <2>3
<1> QED
  BY <1>2 DEF Next, ReloadElsewhere, Crash

(***************************************************************************)
(* As long as handlers do not overlap and no failure is ignored, what the  *)
(* domain handlers answer is so: after 201 the domain is on disk, loaded   *)
(* by both services and named by the row; after 204 none of it is left.    *)
(***************************************************************************)
THEOREM DomainTheorem == Spec => DomainAnswersHold
<1> DEFINE Inv == /\ ~overlapped => Alone
                  /\ ~overlapped /\ ~ignored => AccountInv /\ DomainInv
<1>1. Init => Inv
  BY DEF Init, Alone, AccountInv, DomainInv, CreateLabel, LoadedLabel, DomainLabel, At
<1>2. TypeOK /\ CopyInv /\ Inv /\ [Next]_vars => Inv'
  <2> SUFFICES ASSUME TypeOK, CopyInv, Inv, [Next]_vars, ~overlapped'
               PROVE  Alone' /\ (~ignored' => AccountInv' /\ DomainInv')
    OBVIOUS
  <2>1. ~overlapped
    BY HistoryStep, Zenon
  <2>2. Alone /\ Alone'
    BY <2>1, AloneStep
  <2>3. ~ignored' => ~ignored
    BY HistoryStep, Zenon
  <2> QED
    BY <2>1, <2>2, <2>3, AccountInvStep, DomainInvStep
<1>3. TypeOK /\ CopyInv /\ Inv /\ [Next]_vars =>
        [\A r \in Request :
           (~overlapped' /\ ~ignored' /\ pc'[r] = "idle") =>
             /\ pc[r] = "save_domain" => /\ site /\ vhost /\ pool
                                         /\ served.nginx /\ served.php
                                         /\ row' # NoRow /\ row'.named
             /\ pc[r] = "unload_php" => /\ ~site /\ ~vhost /\ ~pool
                                        /\ ~served'.nginx /\ ~served'.php]_vars
  <2> SUFFICES ASSUME TypeOK, CopyInv, Inv, Next, NEW r \in Request,
                      ~overlapped', ~ignored', pc'[r] = "idle"
               PROVE  /\ pc[r] = "save_domain" => /\ site /\ vhost /\ pool
                                                  /\ served.nginx /\ served.php
                                                  /\ row' # NoRow /\ row'.named
                      /\ pc[r] = "unload_php" => /\ ~site /\ ~vhost /\ ~pool
                                                 /\ ~served'.nginx /\ ~served'.php
    BY DEF vars
  <2>1. ~overlapped /\ ~ignored
    <3>1. /\ overlapped' = overlapped \/ overlapped' = TRUE
          /\ ignored' = ignored \/ ignored' = TRUE
      BY HistoryStep
    <3> HIDE DEF Inv
    <3>2. ~overlapped
      BY <3>1, Zenon
    <3>3. ~ignored
      BY <3>1, Zenon
    <3> QED
      BY <3>2, <3>3
  <2>2. AccountInv /\ DomainInv
    BY <2>1
  <2>3. ~Ignore
    BY Zenon DEF Ignore
  <2>4. TypeOK /\ pc'[r] # pc[r] => \/ pc[r] \notin {"save_domain", "unload_php"}
                                    \/ SaveRow(r) \/ UnloadPHP(r)
    BY <2>3, AnswerStep
  <2>5. ASSUME pc[r] = "save_domain" PROVE SaveRow(r)
    BY <2>4, <2>5 DEF UnloadPHP, At
  <2>6. ASSUME pc[r] = "save_domain"
        PROVE  /\ site /\ vhost /\ pool /\ served.nginx /\ served.php
               /\ row' # NoRow /\ row'.named
    <3>1. row' = MakeRow(copy[r].id, TRUE, copy[r].status)
      BY <2>5, <2>6 DEF SaveRow, Changed, At
    <3>2. copy[r] \in Row
      BY <2>6 DEF CopyInv, LoadedLabel, DomainLabel
    <3>3. row' \in Row /\ row'.named = TRUE
      BY <3>1, <3>2 DEF Row, MakeRow
    <3> QED
      BY <2>2, <2>6, <3>3, HostingAssumption DEF DomainInv, At, Row
  <2>7. ASSUME pc[r] = "unload_php" PROVE UnloadPHP(r)
    BY <2>4, <2>7 DEF SaveRow, Saving, At
  <2>8. ASSUME pc[r] = "unload_php"
        PROVE  ~site /\ ~vhost /\ ~pool /\ ~served'.nginx /\ ~served'.php
    BY <2>2, <2>7, <2>8 DEF DomainInv, At, UnloadPHP
  <2> QED
    BY <2>6, <2>8
<1> QED
  BY <1>1, <1>2, <1>3, TypeCorrect, PTL DEF Spec, DomainAnswersHold

=============================================================================
