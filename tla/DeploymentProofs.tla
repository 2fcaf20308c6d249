-------------------------- MODULE DeploymentProofs --------------------------
(***************************************************************************)
(* Proofs about Deployment, for any number of deployments and releases.    *)
(***************************************************************************)
EXTENDS Deployment, TLAPS

USE DeploymentAssumption

(***************************************************************************)
(* What every swap knows: its release exists, and so does the one that the *)
(* temporary link leads to.  The temporary link has an owner.              *)
(***************************************************************************)
LinkInv ==
    /\ \A d \in Deploy : pc[d] # "idle" => rel[d] \in releases
    /\ tmp \in releases \cup {NoRelease}
    /\ LinksToRelease
    /\ NoLinkLeftBehind

(***************************************************************************)
(* Without overlap at most one deployment is under way, and the temporary  *)
(* link is its own when it comes to rename it.                             *)
(***************************************************************************)
OwnInv ==
    ~overlapped =>
        /\ ~Overlap
        /\ \A d \in Deploy : pc[d] = "rename" => tmp \in {rel[d], NoRelease}

-----------------------------------------------------------------------------
(***************************************************************************)
(* Every step keeps every variable in its type.                            *)
(***************************************************************************)
LEMMA TypeStep == ASSUME TypeOK, LinkInv, [Next]_vars PROVE TypeOK'
<1>1. public' \in BOOLEAN /\ overlapped' \in BOOLEAN /\ abandoned' \in BOOLEAN
  <2>1. public \in BOOLEAN /\ overlapped \in BOOLEAN /\ abandoned \in BOOLEAN
    BY Zenon DEF TypeOK
  <2>2. /\ public' = public \/ public' = TRUE \/ public' = FALSE
        /\ overlapped' = overlapped \/ overlapped' = TRUE
        /\ abandoned' = abandoned \/ abandoned' = TRUE
    BY DEF Next, DeployStep, vars, files, Watch, CreateReleaseDir, SwapLstat, SwapLink,
           SwapRemoveTmp, SwapSymlink, SymlinkFails, SwapRename, SwapRenameFails, SwapCleanUp,
           Crash, CreateDomain, DeleteDomain, DeleteAccount
  <2> QED BY <2>1, <2>2, Zenon
<1>2. TypeOK /\ LinkInv
  OBVIOUS
<1> USE DEF TypeOK, Goto, Return, files
<1>3. ASSUME NEW d \in Deploy, DeployStep(d) PROVE TypeOK'
  <2>1. CASE CreateReleaseDir(d)  BY <1>1, <1>2, <2>1 DEF CreateReleaseDir
  <2>2. CASE SwapLstat(d)         BY <1>1, <1>2, <2>2 DEF SwapLstat
  <2>3. CASE SwapLink(d)          BY <1>1, <1>2, <2>3 DEF SwapLink, LinkInv
  <2>4. CASE SwapRemoveTmp(d)     BY <1>1, <1>2, <2>4 DEF SwapRemoveTmp
  <2>5. CASE SwapSymlink(d)       BY <1>1, <1>2, <2>5 DEF SwapSymlink
  <2>6. CASE SymlinkFails(d)      BY <1>1, <1>2, <2>6 DEF SymlinkFails
  <2>7. CASE SwapRename(d)        BY <1>1, <1>2, <2>7 DEF SwapRename
  <2>8. CASE SwapRenameFails(d)   BY <1>1, <1>2, <2>8 DEF SwapRenameFails
  <2>9. CASE SwapCleanUp(d)       BY <1>1, <1>2, <2>9 DEF SwapCleanUp
  <2>10. CASE Crash(d)            BY <1>1, <1>2, <2>10 DEF Crash
  <2> QED BY <1>3, <2>1, <2>2, <2>3, <2>4, <2>5, <2>6, <2>7, <2>8, <2>9, <2>10 DEF DeployStep
<1>4. CASE CreateDomain \/ DeleteDomain \/ DeleteAccount
  BY <1>1, <1>2, <1>4 DEF CreateDomain, DeleteDomain, DeleteAccount
<1>5. CASE UNCHANGED vars
  BY <1>1, <1>2, <1>5 DEF vars
<1> QED BY <1>3, <1>4, <1>5 DEF Next

-----------------------------------------------------------------------------
(***************************************************************************)
(* Every step keeps the links on existing releases and the temporary one   *)
(* with an owner.                                                          *)
(***************************************************************************)
LEMMA LinkStep == ASSUME TypeOK, LinkInv, [Next]_vars PROVE LinkInv'
<1>1. TypeOK /\ LinkInv
  OBVIOUS
<1> USE DEF TypeOK, LinkInv, LinksToRelease, NoLinkLeftBehind, Goto, Return, files
<1>2. ASSUME NEW d \in Deploy, DeployStep(d) PROVE LinkInv'
  <2>1. CASE CreateReleaseDir(d)  BY <1>1, <2>1 DEF CreateReleaseDir
  <2>2. CASE SwapLstat(d)         BY <1>1, <2>2 DEF SwapLstat
  <2>3. CASE SwapLink(d)          BY <1>1, <2>3 DEF SwapLink
  <2>4. CASE SwapRemoveTmp(d)     BY <1>1, <2>4 DEF SwapRemoveTmp
  <2>5. CASE SwapSymlink(d)       BY <1>1, <2>5 DEF SwapSymlink
  <2>6. CASE SymlinkFails(d)      BY <1>1, <2>6 DEF SymlinkFails
  <2>7. CASE SwapRename(d)        BY <1>1, <2>7 DEF SwapRename
  <2>8. CASE SwapRenameFails(d)   BY <1>1, <2>8 DEF SwapRenameFails
  <2>9. CASE SwapCleanUp(d)       BY <1>1, <2>9 DEF SwapCleanUp
  <2>10. CASE Crash(d)            BY <1>1, <2>10 DEF Crash
  <2> QED BY <1>2, <2>1, <2>2, <2>3, <2>4, <2>5, <2>6, <2>7, <2>8, <2>9, <2>10 DEF DeployStep
<1>3. CASE CreateDomain \/ DeleteDomain \/ DeleteAccount
  BY <1>1, <1>3 DEF CreateDomain, DeleteDomain, DeleteAccount
<1>4. CASE UNCHANGED vars
  BY <1>1, <1>4 DEF vars
<1> QED BY <1>2, <1>3, <1>4 DEF Next

(***************************************************************************)
(* Type correctness of deployments; a swap's release exists.               *)
(***************************************************************************)
THEOREM TypeCorrect == Spec => [](TypeOK /\ LinkInv)
<1>1. Init => TypeOK
  <2> SUFFICES ASSUME Init PROVE TypeOK
    OBVIOUS
  <2>1. public \in BOOLEAN /\ overlapped \in BOOLEAN /\ abandoned \in BOOLEAN
    BY Zenon DEF Init
  <2> QED BY <2>1 DEF Init, TypeOK
<1>2. Init => LinkInv
  BY DEF Init, LinkInv, LinksToRelease, NoLinkLeftBehind
<1>3. QED BY <1>1, <1>2, TypeStep, LinkStep, PTL DEF Spec

(***************************************************************************)
(* The document root links to a release that exists, and the temporary     *)
(* link always has an owner unless a deployment died.                      *)
(***************************************************************************)
THEOREM LinkTheorem == Spec => [](LinksToRelease /\ NoLinkLeftBehind)
<1>1. LinkInv => LinksToRelease /\ NoLinkLeftBehind
  BY DEF LinkInv
<1>2. QED BY <1>1, TypeCorrect, PTL

-----------------------------------------------------------------------------
(***************************************************************************)
(* No step of a deployment takes away or replaces what it must not.        *)
(***************************************************************************)
LEMMA SwapStep ==
    ASSUME TypeOK, [Next]_vars, \E d \in Deploy : pc'[d] # pc[d]
    PROVE  (site # "none" => site' # "none") /\ (site = "dir" => site' = "dir")
<1>1. PICK d \in Deploy : DeployStep(d)
  BY DEF Next, vars, CreateDomain, DeleteDomain, DeleteAccount
<1>2. CASE SwapLink(d)
  BY <1>2 DEF SwapLink
<1>3. CASE SwapRename(d)
  BY <1>3 DEF SwapRename, TypeOK
<1>4. CASE site' = site
  BY <1>4
<1> QED
  BY <1>1, <1>2, <1>3, <1>4 DEF DeployStep, CreateReleaseDir, SwapLstat, SwapRemoveTmp,
     SwapSymlink, SymlinkFails, SwapRenameFails, SwapCleanUp, Crash, files

(***************************************************************************)
(* The document root is swapped atomically.                                *)
(***************************************************************************)
THEOREM AtomicTheorem == Spec => DocRootSwapsAtomically
<1>1. TypeOK /\ [Next]_vars =>
        [(\E d \in Deploy : pc'[d] # pc[d]) =>
           /\ site # "none" => site' # "none"
           /\ site = "dir" => site' = "dir"]_vars
  BY SwapStep
<1>2. QED BY <1>1, TypeCorrect, PTL DEF Spec, DocRootSwapsAtomically

-----------------------------------------------------------------------------
(***************************************************************************)
(* Without overlap the temporary link stays the renaming swap's own.       *)
(***************************************************************************)
LEMMA OwnStep == ASSUME TypeOK, OwnInv, [Next]_vars PROVE OwnInv'
<1> SUFFICES ASSUME ~overlapped' PROVE OwnInv'
  BY DEF OwnInv
<1>1. TypeOK /\ OwnInv /\ ~overlapped'
  OBVIOUS
<1>2. ASSUME NEW d \in Deploy, DeployStep(d) PROVE OwnInv'
  <2>1. CASE CreateReleaseDir(d)
    BY <1>1, <2>1 DEF CreateReleaseDir, OwnInv, Overlap
  <2>2. Watch \/ CreateReleaseDir(d)
    BY <1>2 DEF DeployStep, SwapLstat, SwapLink, SwapRemoveTmp, SwapSymlink, SymlinkFails,
                SwapRename, SwapRenameFails, SwapCleanUp, Crash
  <2>3. CASE Watch
    <3>1. ~Overlap' /\ ~overlapped
      BY <1>1, <2>3 DEF Watch
    <3>2. ~Overlap
      BY <1>1, <3>1 DEF OwnInv
    <3>3. \A e \in Deploy \ {d} : pc'[e] = pc[e]
      BY <1>1, <1>2 DEF TypeOK, DeployStep, CreateReleaseDir, SwapLstat, SwapLink, SwapRemoveTmp,
         SwapSymlink, SymlinkFails, SwapRename, SwapRenameFails, SwapCleanUp, Crash, Goto, Return
    <3>4. \A e \in Deploy \ {d} : pc'[e] # "rename" \/ pc'[d] = "idle"
      BY <3>1 DEF Overlap
    <3>5. \A e \in Deploy \ {d} : pc[e] # "idle" => pc[d] = "idle"
      BY <3>2 DEF Overlap
    <3>6. ASSUME NEW e \in Deploy, pc'[e] = "rename" PROVE (tmp \in {rel[e], NoRelease})'
      <4>1. CASE e = d
        BY <1>1, <1>2, <3>1, <3>6, <4>1 DEF TypeOK, OwnInv, DeployStep, CreateReleaseDir, SwapLstat,
           SwapLink, SwapRemoveTmp, SwapSymlink, SymlinkFails, SwapRename, SwapRenameFails,
           SwapCleanUp, Crash, Goto, Return, files
      <4>2. CASE e # d
        <5>1. pc[e] = "rename" /\ pc[d] = "idle" /\ pc'[d] = "idle"
          BY <3>3, <3>4, <3>5, <3>6, <4>2
        <5>2. tmp \in {rel[e], NoRelease}
          BY <1>1, <3>1, <5>1 DEF OwnInv
        <5> QED
          BY <1>1, <1>2, <4>2, <5>1, <5>2 DEF TypeOK, DeployStep, CreateReleaseDir, SwapLstat,
             SwapLink, SwapRemoveTmp, SwapSymlink, SymlinkFails, SwapRename, SwapRenameFails,
             SwapCleanUp, Crash, Goto, Return, files
      <4> QED BY <4>1, <4>2
    <3> QED BY <3>1, <3>6 DEF OwnInv
  <2> QED BY <2>1, <2>2, <2>3
<1>3. CASE CreateDomain \/ DeleteDomain \/ DeleteAccount
  BY <1>1, <1>3 DEF CreateDomain, DeleteDomain, DeleteAccount, OwnInv, Overlap
<1>4. CASE UNCHANGED vars
  BY <1>1, <1>4 DEF vars, files, OwnInv, Overlap
<1> QED BY <1>2, <1>3, <1>4 DEF Next

(***************************************************************************)
(* A swap that does not overlap with another installs its own release.     *)
(***************************************************************************)
THEOREM OwnTheorem == Spec => SwapInstallsOwn
<1>1. Init => OwnInv
  BY DEF Init, OwnInv, Overlap
<1>2. TypeOK /\ OwnInv /\ [Next]_vars =>
        [\A d \in Deploy :
           (~overlapped' /\ pc[d] = "rename" /\ pc'[d] = "idle" /\ site' # site)
             => site' = rel[d]]_vars
  <2> SUFFICES ASSUME TypeOK, OwnInv, [Next]_vars, NEW d \in Deploy,
                      ~overlapped', pc[d] = "rename", pc'[d] = "idle", site' # site
               PROVE  site' = rel[d]
    OBVIOUS
  <2>1. PICK e \in Deploy : DeployStep(e)
    BY DEF Next, vars, CreateDomain, DeleteDomain, DeleteAccount, TypeOK
  <2>2. e = d
    BY <2>1 DEF TypeOK, DeployStep, CreateReleaseDir, SwapLstat, SwapLink, SwapRemoveTmp,
       SwapSymlink, SymlinkFails, SwapRename, SwapRenameFails, SwapCleanUp, Crash, Goto, Return
  <2>3. SwapRename(d)
    BY <2>1, <2>2 DEF DeployStep, CreateReleaseDir, SwapLstat, SwapLink, SwapRemoveTmp,
       SwapSymlink, SymlinkFails, SwapRenameFails, SwapCleanUp, Crash, files
  <2>4. ~overlapped
    BY <2>3 DEF SwapRename, Watch
  <2> QED BY <2>3, <2>4 DEF SwapRename, OwnInv
<1>3. QED BY <1>1, <1>2, OwnStep, TypeCorrect, PTL DEF Spec, SwapInstallsOwn
=============================================================================
