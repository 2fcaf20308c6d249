-------------------------- MODULE UserLoginProofs ---------------------------
(***************************************************************************)
(* Login's counter and lock for any number of overlapping requests, and    *)
(* the bootstrap of the administrator for any number of processes that     *)
(* start, fail and are killed on one database.                             *)
(***************************************************************************)
EXTENDS Startup, TLAPS, FiniteSetTheorems

USE LoginAssumption

\* A counter stays between 0 and the threshold, and counting is monotonic.
LEMMA CountProperties ==
    ASSUME NEW m \in 0..MaxFailed, NEW n \in 0..MaxFailed
    PROVE  /\ Count(m) \in 0..MaxFailed
           /\ m <= Count(m)
           /\ m <= n => Count(m) <= Count(n)
  BY DEF Count

\* Every change Login or the clock makes to a user value yields a user value.
LEMMA UserTypes ==
    ASSUME NEW u \in User
    PROVE  Age(u) \in User /\ AfterWrong(u) \in User /\ AfterRight(u) \in User
  BY CountProperties DEF User, Age, AfterWrong, AfterRight, MakeUser, NoLock

\* A fresh row, and the value that stands for no copy, are user values.
LEMMA BlankType == Blank \in User /\ \A role \in Role : Fresh(role) \in User
  BY DEF Blank, Fresh, User, MakeUser, NoLock

\* Type correctness of the login component.
THEOREM TypeCorrect == Spec => []TypeOK
<1>1. Init => TypeOK
  <2> SUFFICES ASSUME Init PROVE TypeOK
    OBVIOUS
  <2>1. user \in User /\ assigned \in Role /\ wrong \in 0..MaxFailed
    BY BlankType DEF Init
  <2>2. raced \in BOOLEAN
    BY Zenon DEF Init
  <2> QED
    BY <2>1, <2>2, BlankType DEF Init, TypeOK
<1>2. TypeOK /\ [Next]_vars => TypeOK'
  <2> SUFFICES ASSUME TypeOK, [Next]_vars PROVE TypeOK'
    OBVIOUS
  <2>1. CASE Tick
    BY <2>1, UserTypes DEF Tick, TypeOK
  <2>2. ASSUME NEW r \in Request, LoadUser(r) PROVE TypeOK'
    BY <2>2 DEF LoadUser, TypeOK
  <2>3. ASSUME NEW r \in Request, WrongPassword(r) PROVE TypeOK'
    BY <2>3, UserTypes, CountProperties DEF WrongPassword, TypeOK
  <2>4. ASSUME NEW r \in Request, RightPassword(r) PROVE TypeOK'
    BY <2>4, UserTypes DEF RightPassword, TypeOK
  <2>5. ASSUME NEW r \in Request, SaveUser(r) PROVE TypeOK'
    BY <2>5, BlankType DEF SaveUser, TypeOK
  <2>6. ASSUME NEW r \in Request, IssueTokens(r) PROVE TypeOK'
    BY <2>6 DEF IssueTokens, TypeOK
  <2>7. ASSUME NEW role \in Role, AssignRole(role) PROVE TypeOK'
    <3>1. raced' \in BOOLEAN
      <4>1. raced' = TRUE \/ raced' = raced
        BY <2>7 DEF AssignRole
      <4> QED
        BY <4>1, Zenon DEF TypeOK
    <3> QED
      BY <2>7, <3>1 DEF AssignRole, TypeOK, User, MakeUser
  <2>8. CASE SetStatus
    BY <2>8 DEF SetStatus, TypeOK, User, MakeUser
  <2>9. CASE Crash
    BY <2>9, BlankType DEF Crash, TypeOK
  <2>10. CASE UNCHANGED vars
    BY <2>10 DEF vars, TypeOK
  <2> QED
    BY <2>1, <2>2, <2>3, <2>4, <2>5, <2>6, <2>7, <2>8, <2>9, <2>10 DEF Next
<1> QED
  BY <1>1, <1>2, PTL DEF Spec

-----------------------------------------------------------------------------
(***************************************************************************)
(* The counter of a row or of a copy never exceeds the wrong passwords     *)
(* sent, a lock needs MaxFailed of them, and the threshold comes with a    *)
(* lock.  It has to be said of every copy too: any of them may be saved.   *)
(***************************************************************************)
Sound(u) ==
    /\ u.failed <= wrong
    /\ u.locked # NoLock => wrong >= MaxFailed
    /\ u.failed >= MaxFailed => u.locked # NoLock

CounterInv == Sound(user) /\ \A r \in Request : Sound(copy[r])

\* The steps of a request on its copy, and of the clock, keep it sound.
LEMMA SoundStep ==
    ASSUME NEW u \in User, wrong \in 0..MaxFailed, Sound(u)
    PROVE  /\ Sound(Age(u))
           /\ Sound(AfterRight(u))
           /\ AfterWrong(u).failed <= Count(wrong)
           /\ AfterWrong(u).locked # NoLock => Count(wrong) >= MaxFailed
           /\ AfterWrong(u).failed >= MaxFailed => AfterWrong(u).locked # NoLock
  BY DEF User, Sound, Age, AfterRight, AfterWrong, MakeUser, NoLock, Count

\* No copy is a sound one.
LEMMA BlankSound ==
    ASSUME wrong \in 0..MaxFailed
    PROVE  Blank.failed = 0 /\ Blank.locked = NoLock /\ Sound(Blank)
  BY DEF Blank, Fresh, Sound, MakeUser, NoLock

\* Every step keeps the row and all copies sound.
LEMMA CounterStep ==
    ASSUME TypeOK, CounterInv, [Next]_vars
    PROVE  CounterInv'
<1>1. CASE Tick
  <2>1. Sound(Age(user)) /\ \A r \in Request : Sound(Age(copy[r]))
    BY SoundStep DEF TypeOK, CounterInv
  <2>2. user' = Age(user) /\ copy' = [r \in Request |-> Age(copy[r])] /\ wrong' = wrong
    BY <1>1 DEF Tick
  <2> QED
    BY <2>1, <2>2 DEF CounterInv, Sound
<1>2. ASSUME NEW r \in Request, LoadUser(r) PROVE CounterInv'
  BY <1>2 DEF LoadUser, CounterInv, Sound, TypeOK
<1>3. ASSUME NEW r \in Request, WrongPassword(r) PROVE CounterInv'
  <2>1. wrong' = Count(wrong) /\ user' = user /\ copy' = [copy EXCEPT ![r] = AfterWrong(copy[r])]
    BY <1>3 DEF WrongPassword
  <2>2. /\ AfterWrong(copy[r]).failed <= wrong'
        /\ AfterWrong(copy[r]).locked # NoLock => wrong' >= MaxFailed
        /\ AfterWrong(copy[r]).failed >= MaxFailed => AfterWrong(copy[r]).locked # NoLock
    BY <2>1, SoundStep DEF TypeOK, CounterInv
  <2>3. \A u \in User : Sound(u) => Sound(u)'
    BY <2>1, CountProperties DEF TypeOK, Sound, User
  <2> QED
    BY <2>1, <2>2, <2>3 DEF CounterInv, Sound, TypeOK
<1>4. ASSUME NEW r \in Request, RightPassword(r) PROVE CounterInv'
  <2>1. Sound(AfterRight(copy[r]))
    BY SoundStep DEF TypeOK, CounterInv
  <2> QED
    BY <1>4, <2>1 DEF RightPassword, CounterInv, Sound, TypeOK
<1>5. ASSUME NEW r \in Request, SaveUser(r) PROVE CounterInv'
  BY <1>5, BlankSound DEF SaveUser, CounterInv, Sound, TypeOK
<1>6. ASSUME NEW r \in Request, IssueTokens(r) PROVE CounterInv'
  BY <1>6 DEF IssueTokens, CounterInv, Sound
<1>7. ASSUME NEW role \in Role, AssignRole(role) PROVE CounterInv'
  BY <1>7 DEF AssignRole, CounterInv, Sound, MakeUser
<1>8. CASE SetStatus
  BY <1>8 DEF SetStatus, CounterInv, Sound, MakeUser
<1>9. CASE Crash
  BY <1>9, BlankSound DEF Crash, CounterInv, Sound, TypeOK
<1>10. CASE UNCHANGED vars
  BY <1>10 DEF vars, CounterInv, Sound
<1> QED
  BY <1>1, <1>2, <1>3, <1>4, <1>5, <1>6, <1>7, <1>8, <1>9, <1>10 DEF Next

(***************************************************************************)
(* However many logins overlap, nobody is locked out before MaxFailed      *)
(* wrong passwords, and a counter at the threshold comes with a lock.      *)
(***************************************************************************)
THEOREM LockTheorem == Spec => []LockMatchesFailures
<1>1. Init => CounterInv
  BY DEF Init, CounterInv, Sound, Blank, Fresh, MakeUser, NoLock
<1>2. TypeOK /\ CounterInv /\ [Next]_vars => CounterInv'
  BY CounterStep
<1>3. CounterInv => LockMatchesFailures
  BY DEF CounterInv, Sound, LockMatchesFailures
<1> QED
  BY <1>1, <1>2, <1>3, TypeCorrect, PTL DEF Spec

-----------------------------------------------------------------------------
(***************************************************************************)
(* The role that every copy under way would write back is the one that was *)
(* assigned last, as long as none was assigned behind such a copy.         *)
(***************************************************************************)
RoleInv ==
    ~raced => /\ user.role = assigned
              /\ \A r \in Request : Holds(r) => copy[r].role = assigned

\* No change that Login or the clock makes to a user value touches its role.
LEMMA RoleKept ==
    ASSUME NEW u \in User
    PROVE  Age(u).role = u.role /\ AfterWrong(u).role = u.role /\ AfterRight(u).role = u.role
  BY DEF Age, AfterWrong, AfterRight, MakeUser

(***************************************************************************)
(* A role that was not assigned behind the back of a login stays assigned, *)
(* however many logins fail, succeed or lock the user meanwhile.           *)
(***************************************************************************)
THEOREM RoleTheorem == Spec => []AssignedRoleSticks
<1>1. Init => RoleInv
  BY DEF Init, RoleInv, Holds, Fresh, MakeUser
<1>2. TypeOK /\ RoleInv /\ [Next]_vars => RoleInv'
  <2> SUFFICES ASSUME TypeOK, RoleInv, [Next]_vars PROVE RoleInv'
    OBVIOUS
  <2>1. CASE Tick
    <3>1. \A r \in Request : Age(copy[r]).role = copy[r].role
      BY RoleKept DEF TypeOK
    <3>2. Age(user).role = user.role
      BY RoleKept DEF TypeOK
    <3> QED
      BY <2>1, <3>1, <3>2 DEF Tick, RoleInv, Holds
  <2>2. ASSUME NEW r \in Request, LoadUser(r) PROVE RoleInv'
    BY <2>2 DEF LoadUser, RoleInv, Holds, TypeOK
  <2>3. ASSUME NEW r \in Request, WrongPassword(r) PROVE RoleInv'
    <3>1. AfterWrong(copy[r]).role = copy[r].role
      BY RoleKept DEF TypeOK
    <3> QED
      BY <2>3, <3>1 DEF WrongPassword, RoleInv, Holds, TypeOK
  <2>4. ASSUME NEW r \in Request, RightPassword(r) PROVE RoleInv'
    <3>1. AfterRight(copy[r]).role = copy[r].role
      BY RoleKept DEF TypeOK
    <3> QED
      BY <2>4, <3>1 DEF RightPassword, RoleInv, Holds, TypeOK
  <2>5. ASSUME NEW r \in Request, SaveUser(r) PROVE RoleInv'
    BY <2>5 DEF SaveUser, RoleInv, Holds, TypeOK
  <2>6. ASSUME NEW r \in Request, IssueTokens(r) PROVE RoleInv'
    BY <2>6 DEF IssueTokens, RoleInv, Holds, TypeOK
  <2>7. ASSUME NEW role \in Role, AssignRole(role) PROVE RoleInv'
    BY <2>7 DEF AssignRole, RoleInv, Holds, MakeUser
  <2>8. CASE SetStatus
    BY <2>8 DEF SetStatus, RoleInv, Holds, MakeUser
  <2>9. CASE Crash
    BY <2>9 DEF Crash, RoleInv, Holds
  <2>10. CASE UNCHANGED vars
    BY <2>10 DEF vars, RoleInv, Holds
  <2> QED
    BY <2>1, <2>2, <2>3, <2>4, <2>5, <2>6, <2>7, <2>8, <2>9, <2>10 DEF Next
<1>3. RoleInv => AssignedRoleSticks
  BY DEF RoleInv, AssignedRoleSticks
<1> QED
  BY <1>1, <1>2, <1>3, TypeCorrect, PTL DEF Spec

-----------------------------------------------------------------------------
(***************************************************************************)
(* What start-up does to the users row is what the login component allows: *)
(* a process that stops is its Crash, and a process that does not listen   *)
(* takes no login.  The theorems above therefore hold while processes come *)
(* and go.                                                                 *)
(***************************************************************************)
LEMMA LoginStep == ASSUME [StartupNext]_allVars PROVE [Next]_vars
<1>1. ASSUME NEW p \in Process, Run(p) \/ GiveCredentials(p) PROVE UNCHANGED vars
  BY <1>1 DEF Run, Start, FindTenant, CreateTenant, CreateUser, Listen, GiveCredentials
<1>2. ASSUME NEW p \in Process, Exit(p) PROVE Crash \/ UNCHANGED vars
  BY <1>2 DEF Exit
<1>3. CASE Login
  BY <1>3 DEF Login, Next
<1>4. CASE UNCHANGED allVars
  BY <1>4 DEF allVars
<1> QED
  BY <1>1, <1>2, <1>3, <1>4 DEF StartupNext, Next

\* Start-up and login together implement the login component.
THEOREM LoginRefined == StartupSpec => Spec
<1>1. StartupInit => Init
  BY DEF StartupInit
<1>2. [StartupNext]_allVars => [Next]_vars
  BY LoginStep
<1> QED
  BY <1>1, <1>2, PTL DEF StartupSpec, Spec

-----------------------------------------------------------------------------
\* What start-up keeps besides the login component.
StartType ==
    /\ at \in [Process -> Label]
    /\ email \in [Process -> Email]
    /\ tenant \in BOOLEAN
    /\ admins \subseteq Email
    /\ collided \in BOOLEAN
    /\ faults \in 0..MaxFaults

\* A process that moves on stays within run(), and a collision is not forgotten.
LEMMA GotoType ==
    ASSUME StartType, NEW p \in Process, NEW label \in Label, Goto(p, label)
    PROVE  at' \in [Process -> Label] /\ collided' \in BOOLEAN
<1>1. at' \in [Process -> Label]
  BY DEF Goto, StartType
<1>2. collided' = TRUE \/ collided' = collided
  BY DEF Goto
<1>3. collided' \in BOOLEAN
  BY <1>2, Zenon DEF StartType
<1> QED
  BY <1>1, <1>3

\* The address a stopped process goes back to is an address.
LEMMA RefuseType ==
    ASSUME StartType, NEW p \in Process, Refuse(p)
    PROVE  /\ at' \in [Process -> Label] /\ collided' \in BOOLEAN
           /\ email' \in [Process -> Email]
<1>1. Goto(p, "down")
  BY DEF Refuse
<1>2. email' \in [Process -> Email]
  BY DEF Refuse, StartType, Email
<1> QED
  BY <1>1, <1>2, GotoType DEF Label

\* Every step of start-up keeps the types.
LEMMA StartTypeStep == ASSUME StartType, [StartupNext]_allVars PROVE StartType'
<1> USE DEF Label
<1>1. ASSUME NEW p \in Process, Start(p) PROVE StartType'
  <2>1. UNCHANGED <<email, tenant, admins, faults>>
    BY <1>1 DEF Start, RunBootstrapWizard, DefaultAdmin
  <2>2. Goto(p, "listen") \/ Goto(p, "tenant") \/ Goto(p, "prompt")
    BY <1>1 DEF Start, RunBootstrapWizard, DefaultAdmin
  <2>3. at' \in [Process -> Label] /\ collided' \in BOOLEAN
    BY <2>2, GotoType
  <2> QED
    BY <2>1, <2>3 DEF StartType
<1>2. ASSUME NEW p \in Process, GiveCredentials(p) PROVE StartType'
  <2>1. UNCHANGED <<tenant, admins, faults>>
    BY <1>2 DEF GiveCredentials
  <2>2. CASE Refuse(p)
    BY <2>1, <2>2, RefuseType DEF StartType
  <2>3. CASE Goto(p, "tenant") /\ \E e \in Typed : email' = [email EXCEPT ![p] = e]
    <3>1. at' \in [Process -> Label] /\ collided' \in BOOLEAN
      BY <2>3, GotoType
    <3>2. email' \in [Process -> Email]
      BY <2>3 DEF StartType, Email
    <3> QED
      BY <2>1, <3>1, <3>2 DEF StartType
  <2> QED
    BY <1>2, <2>2, <2>3 DEF GiveCredentials
<1>3. ASSUME NEW p \in Process, FindTenant(p) PROVE StartType'
  <2>1. UNCHANGED <<email, tenant, admins>>
    BY <1>3 DEF FindTenant
  <2>2. Goto(p, "create_user") \/ Goto(p, "create_tenant")
    BY <1>3 DEF FindTenant
  <2>3. at' \in [Process -> Label] /\ collided' \in BOOLEAN
    BY <2>2, GotoType
  <2>4. faults' \in 0..MaxFaults
    BY <1>3, StartupAssumption DEF FindTenant, StartType
  <2> QED
    BY <2>1, <2>3, <2>4 DEF StartType
<1>4. ASSUME NEW p \in Process, CreateTenant(p) PROVE StartType'
  <2>1. UNCHANGED <<admins, faults>> /\ tenant' = TRUE
    BY <1>4 DEF CreateTenant
  <2>2. Refuse(p) \/ (Goto(p, "create_user") /\ UNCHANGED email)
    BY <1>4 DEF CreateTenant
  <2>3. /\ at' \in [Process -> Label] /\ collided' \in BOOLEAN
        /\ email' \in [Process -> Email]
    BY <2>2, GotoType, RefuseType DEF StartType
  <2>4. tenant' \in BOOLEAN
    BY <2>1, Zenon
  <2> QED
    BY <2>1, <2>3, <2>4 DEF StartType
<1>5. ASSUME NEW p \in Process, CreateUser(p) PROVE StartType'
  <2>1. UNCHANGED <<tenant, faults>> /\ admins' = admins \cup {email[p]}
    BY <1>5 DEF CreateUser
  <2>2. Refuse(p) \/ (Goto(p, "listen") /\ email' = [email EXCEPT ![p] = DevEmail])
    BY <1>5 DEF CreateUser
  <2>3. at' \in [Process -> Label] /\ collided' \in BOOLEAN
    BY <2>2, GotoType, RefuseType
  <2>4. email' \in [Process -> Email]
    BY <2>2, RefuseType DEF StartType, Email
  <2>5. admins' \subseteq Email
    BY <2>1 DEF StartType
  <2> QED
    BY <2>1, <2>3, <2>4, <2>5 DEF StartType
<1>6. ASSUME NEW p \in Process, Listen(p) PROVE StartType'
  <2>1. UNCHANGED <<tenant, admins, faults>>
    BY <1>6 DEF Listen
  <2>2. Refuse(p) \/ (Goto(p, "listening") /\ UNCHANGED email)
    BY <1>6 DEF Listen
  <2>3. /\ at' \in [Process -> Label] /\ collided' \in BOOLEAN
        /\ email' \in [Process -> Email]
    BY <2>2, GotoType, RefuseType DEF StartType
  <2> QED
    BY <2>1, <2>3 DEF StartType
<1>7. ASSUME NEW p \in Process, Exit(p) PROVE StartType'
  <2>1. UNCHANGED <<tenant, admins>> /\ Refuse(p)
    BY <1>7 DEF Exit
  <2>2. faults' \in 0..MaxFaults
    BY <1>7, StartupAssumption DEF Exit, StartType
  <2> QED
    BY <2>1, <2>2, RefuseType DEF StartType
<1>8. CASE UNCHANGED startVars
  BY <1>8 DEF startVars, StartType
<1> QED
  BY <1>1, <1>2, <1>3, <1>4, <1>5, <1>6, <1>7, <1>8 DEF StartupNext, Run, Login, allVars

\* Type correctness of start-up and login, from that of login alone.
THEOREM StartupTypeCorrect == StartupSpec => []StartupTypeOK
<1>1. StartupInit => StartType
  <2> SUFFICES ASSUME StartupInit PROVE StartType
    OBVIOUS
  <2>1. tenant \in BOOLEAN /\ collided \in BOOLEAN
    BY Zenon DEF StartupInit
  <2> QED
    BY <2>1, StartupAssumption DEF StartupInit, StartType, Label, Email
<1>2. StartType /\ [StartupNext]_allVars => StartType'
  BY StartTypeStep
<1>3. TypeOK /\ StartType => StartupTypeOK
  BY DEF StartType, StartupTypeOK
<1> QED
  BY <1>1, <1>2, <1>3, LoginRefined, TypeCorrect, PTL DEF StartupSpec

-----------------------------------------------------------------------------
(***************************************************************************)
(* Why the count suffices where no two processes overlap: whoever is past  *)
(* it is alone there and the table is still empty.  The address it goes on *)
(* with and the tenant row do not matter.                                  *)
(***************************************************************************)
AdminInv ==
    ~collided =>
      /\ \A x, y \in admins : x = y
      /\ \A p \in Process : PastCount(p) => admins = {}
      /\ \A p, q \in Process : PastCount(p) /\ PastCount(q) => p = q

(***************************************************************************)
(* A move of p that adds no administrator and does not cross the count,    *)
(* and one that crosses it with the table empty.                           *)
(***************************************************************************)
LEMMA MoveKeeps ==
    ASSUME StartType, AdminInv, NEW p \in Process, NEW label \in Label, Goto(p, label),
           admins' = admins, PastCount(p)' => PastCount(p) \/ admins = {}
    PROVE  AdminInv'
<1>1. \A q \in Process \ {p} : PastCount(q)' <=> PastCount(q)
  BY DEF Goto, PastCount, StartType
<1>2. ~collided' => ~collided /\ \A q \in Process \ {p} : ~(PastCount(p)' /\ PastCount(q))
  BY DEF Goto
<1> QED
  BY <1>1, <1>2 DEF AdminInv

\* Every step keeps the administrators apart from the processes past the count.
LEMMA AdminStep == ASSUME StartType, AdminInv, [StartupNext]_allVars PROVE AdminInv'
<1>1. ASSUME NEW p \in Process, Start(p) PROVE AdminInv'
  <2>1. admins' = admins
    BY <1>1 DEF Start
  <2>2. \/ Goto(p, "listen")
        \/ admins = {} /\ Goto(p, "tenant")
        \/ admins = {} /\ Goto(p, "prompt")
    BY <1>1 DEF Start, RunBootstrapWizard, DefaultAdmin
  <2>3. Goto(p, "listen") => ~PastCount(p)'
    BY DEF Goto, PastCount, StartType
  <2> QED
    BY <2>1, <2>2, <2>3, MoveKeeps DEF Label
<1>2. ASSUME NEW p \in Process, GiveCredentials(p) \/ FindTenant(p) \/ CreateTenant(p)
      PROVE  AdminInv'
  <2>1. admins' = admins /\ PastCount(p)
    BY <1>2 DEF GiveCredentials, FindTenant, CreateTenant, PastCount
  <2>2. Goto(p, "down") \/ Goto(p, "tenant") \/ Goto(p, "create_tenant") \/ Goto(p, "create_user")
    BY <1>2 DEF GiveCredentials, FindTenant, CreateTenant, Refuse
  <2> QED
    BY <2>1, <2>2, MoveKeeps DEF Label
<1>3. ASSUME NEW p \in Process, CreateUser(p) PROVE AdminInv'
  <2>1. PastCount(p) /\ admins' = admins \cup {email[p]}
    BY <1>3 DEF CreateUser, PastCount
  <2>2. Goto(p, "down") \/ Goto(p, "listen")
    BY <1>3 DEF CreateUser, Refuse
  <2>3. ~PastCount(p)' /\ \A q \in Process \ {p} : PastCount(q)' <=> PastCount(q)
    BY <2>2 DEF Goto, PastCount, StartType
  <2>4. ~collided' => ~collided
    BY <2>2 DEF Goto
  <2> QED
    BY <2>1, <2>3, <2>4 DEF AdminInv
<1>4. ASSUME NEW p \in Process, Listen(p) \/ Exit(p) PROVE AdminInv'
  <2>1. admins' = admins /\ (Goto(p, "down") \/ Goto(p, "listening"))
    BY <1>4 DEF Listen, Exit, Refuse
  <2>2. ~PastCount(p)'
    BY <2>1 DEF Goto, PastCount, StartType
  <2> QED
    BY <2>1, <2>2, MoveKeeps DEF Label
<1>5. CASE UNCHANGED startVars
  BY <1>5 DEF startVars, AdminInv, PastCount
<1> QED
  BY <1>1, <1>2, <1>3, <1>4, <1>5 DEF StartupNext, Run, Login, allVars

(***************************************************************************)
(* For any number of processes and faults there is at most one             *)
(* administrator, unless two processes were between the count and the      *)
(* INSERT at the same time.                                                *)
(***************************************************************************)
THEOREM AdminTheorem == StartupSpec => []OneAdminUnlessCollided
<1>1. StartupInit => StartType /\ AdminInv
  <2> SUFFICES ASSUME StartupInit PROVE StartType /\ AdminInv
    OBVIOUS
  <2>1. tenant \in BOOLEAN /\ collided \in BOOLEAN
    BY Zenon DEF StartupInit
  <2>2. StartType
    BY <2>1, StartupAssumption DEF StartupInit, StartType, Label, Email
  <2> QED
    BY <2>2 DEF StartupInit, AdminInv, PastCount
<1>2. StartType /\ AdminInv /\ [StartupNext]_allVars => StartType' /\ AdminInv'
  BY StartTypeStep, AdminStep
<1>3. AdminInv => OneAdminUnlessCollided
  <2> SUFFICES ASSUME AdminInv, ~collided PROVE Cardinality(admins) <= 1
    BY DEF OneAdminUnlessCollided
  <2>1. CASE admins = {}
    BY <2>1, FS_EmptySet
  <2>2. CASE admins # {}
    <3>1. PICK x \in admins : TRUE
      BY <2>2
    <3>2. admins = {x}
      BY <3>1 DEF AdminInv
    <3>3. Cardinality({x}) = 1
      BY FS_Singleton
    <3> QED
      BY <3>2, <3>3
  <2> QED
    BY <2>1, <2>2
<1> QED
  BY <1>1, <1>2, <1>3, PTL DEF StartupSpec

(***************************************************************************)
(* What was proved of login alone, for logins served by processes that     *)
(* start, stop and are killed: through LoginRefined.                       *)
(***************************************************************************)
THEOREM LoginWhileServing == StartupSpec => [](LockMatchesFailures /\ AssignedRoleSticks)
  BY LoginRefined, LockTheorem, RoleTheorem, PTL
=============================================================================
