----------------------------- MODULE Deployment -----------------------------
(***************************************************************************)
(* Deployments to one domain (internal/hosting/deploy_linux.go): release   *)
(* directories and the document root that AtomicSwap links to one of them, *)
(* through a temporary link whose name all swaps share.                    *)
(*                                                                         *)
(* A deployment is a process of its own: each file operation is a step,    *)
(* deployments overlap with each other and with the panel's handlers, any  *)
(* operation may fail and a deployment may die between two of them.        *)
(* Release names are milliseconds, so two deployments may share one; a     *)
(* release directory is never removed.                                     *)
(***************************************************************************)
EXTENDS Naturals

CONSTANTS
    Deploy,             \* deployment processes
    Release, NoRelease  \* release names; no link

ASSUME DeploymentAssumption ==
    /\ NoRelease \notin Release
    /\ {"none", "dir"} \cap Release = {}

VARIABLES
    public,     \* whether the account's public_html exists
    site,       \* the document root in it: "none", "dir", or the release it links to
    tmp,        \* what the temporary link in it links to
    releases,   \* release directories
    pc,         \* where each deployment is
    rel,        \* the release it installs
    overlapped, \* history: two deployments have been under way at once
    abandoned   \* history: a deployment died or could not remove the temporary link

files == <<public, site, tmp, releases>>
vars == <<files, pc, rel, overlapped, abandoned>>

Init ==
    /\ public = FALSE /\ site = "none" /\ tmp = NoRelease /\ releases = {}
    /\ pc = [d \in Deploy |-> "idle"]
    /\ rel = [d \in Deploy |-> NoRelease]
    /\ overlapped = FALSE /\ abandoned = FALSE

\* Every step of a deployment keeps the history.
Overlap == \E d, e \in Deploy : d # e /\ pc[d] # "idle" /\ pc[e] # "idle"
Watch == overlapped' = IF Overlap' THEN TRUE ELSE overlapped

Goto(d, label) == pc' = [pc EXCEPT ![d] = label] /\ rel' = rel
Return(d) == pc' = [pc EXCEPT ![d] = "idle"] /\ rel' = [rel EXCEPT ![d] = NoRelease]

-----------------------------------------------------------------------------
\* mkdir -p of a release directory named after the current millisecond.
CreateReleaseDir(d) ==
    /\ pc[d] = "idle"
    /\ \E n \in Release : releases' = releases \cup {n}
    /\ UNCHANGED <<public, site, tmp, pc, rel, overlapped, abandoned>>

\* AtomicSwap: the release exists; is there a document root yet?
SwapLstat(d) ==
    /\ pc[d] = "idle"
    /\ \E n \in releases : rel' = [rel EXCEPT ![d] = n]
    /\ pc' = [pc EXCEPT ![d] = IF site = "none" THEN "link" ELSE "rm_tmp"]
    /\ UNCHANGED <<files, abandoned>>
    /\ Watch

\* The first link; symlink(2) refuses a path that exists by now.
SwapLink(d) ==
    /\ pc[d] = "link"
    /\ public /\ site = "none"
    /\ site' = rel[d]
    /\ Return(d)
    /\ UNCHANGED <<public, tmp, releases, abandoned>>
    /\ Watch

\* Slip: a link that is there already is used as it is.
SwapReuseTmp(d) ==
    /\ pc[d] = "rm_tmp"
    /\ Goto(d, IF tmp = NoRelease THEN "mk_tmp" ELSE "rename")
    /\ UNCHANGED <<files, abandoned>>
    /\ Watch

\* A link that another swap left behind is removed, or that fails unnoticed.
SwapRemoveTmp(d) ==
    /\ pc[d] = "rm_tmp"
    /\ tmp' \in {NoRelease, tmp}
    /\ Goto(d, "mk_tmp")
    /\ UNCHANGED <<public, site, releases, abandoned>>
    /\ Watch

\* Slip: the link goes to the directory of all releases.
SwapSymlinkToParent(d) ==
    /\ pc[d] = "mk_tmp"
    /\ public /\ tmp = NoRelease
    /\ tmp' = releases
    /\ Goto(d, "rename")
    /\ UNCHANGED <<public, site, releases, abandoned>>
    /\ Watch

\* symlink(2) refuses a name that exists.
SwapSymlink(d) ==
    /\ pc[d] = "mk_tmp"
    /\ public /\ tmp = NoRelease
    /\ tmp' = rel[d]
    /\ Goto(d, "rename")
    /\ UNCHANGED <<public, site, releases, abandoned>>
    /\ Watch

\* symlink(2) fails: the swap returns its error.
SymlinkFails(d) ==
    /\ pc[d] \in {"link", "mk_tmp"}
    /\ Return(d)
    /\ UNCHANGED <<files, abandoned>>
    /\ Watch

\* Slip: the old link is removed first and the new one put in its place.
SwapRenameInTwo(d) ==
    /\ pc[d] = "rename"
    /\ tmp # NoRelease
    /\ site' = "none"
    /\ tmp' = NoRelease
    /\ Goto(d, "link")
    /\ UNCHANGED <<public, releases, abandoned>>
    /\ Watch

\* rename(2) puts whatever tmp links to in place of a link, never of a directory.
SwapRename(d) ==
    /\ pc[d] = "rename"
    /\ tmp # NoRelease /\ site # "dir"
    /\ site' = tmp
    /\ tmp' = NoRelease
    /\ Return(d)
    /\ UNCHANGED <<public, releases, abandoned>>
    /\ Watch

\* Slip: a swap that fails does not remove its link.
SwapRenameFailsDirty(d) ==
    /\ pc[d] = "rename"
    /\ Return(d)
    /\ UNCHANGED <<files, abandoned>>
    /\ Watch

\* tmp is gone, the document root is a directory, or another error.
SwapRenameFails(d) ==
    /\ pc[d] = "rename"
    /\ Goto(d, "clean_tmp")
    /\ UNCHANGED <<files, abandoned>>
    /\ Watch

\* os.Remove(tmp), whose own error is dropped.
SwapCleanUp(d) ==
    /\ pc[d] = "clean_tmp"
    /\ \/ tmp' = NoRelease /\ UNCHANGED abandoned
       \/ tmp' = tmp /\ abandoned' = TRUE
    /\ Return(d)
    /\ UNCHANGED <<public, site, releases>>
    /\ Watch

\* A deployment dies; what it did to the files stays.
Crash(d) ==
    /\ pc[d] # "idle"
    /\ Return(d)
    /\ abandoned' = TRUE
    /\ UNCHANGED files
    /\ Watch

-----------------------------------------------------------------------------
(***************************************************************************)
(* What the panel's handlers do to the same files (see Hosting).           *)
(***************************************************************************)
\* CreateAccount makes public_html; CreateDomain makes it and the document root.
CreateDomain ==
    /\ public' = TRUE
    /\ site' \in {site, IF site = "none" THEN "dir" ELSE site}
    /\ UNCHANGED <<tmp, releases, pc, rel, overlapped, abandoned>>

\* DeleteDomain removes the document root, a directory or a link.
DeleteDomain ==
    /\ site' = "none"
    /\ UNCHANGED <<public, tmp, releases, pc, rel, overlapped, abandoned>>

\* userdel -r removes the home directory and all that is in it.
DeleteAccount ==
    /\ public' = FALSE /\ site' = "none" /\ tmp' = NoRelease
    /\ UNCHANGED <<releases, pc, rel, overlapped, abandoned>>

DeployStep(d) ==
    \/ CreateReleaseDir(d) \/ SwapLstat(d) \/ SwapLink(d) \/ SwapRemoveTmp(d)
    \/ SwapSymlink(d) \/ SymlinkFails(d) \/ SwapRename(d) \/ SwapRenameFails(d)
    \/ SwapCleanUp(d) \/ Crash(d)

Next ==
    \/ \E d \in Deploy : DeployStep(d)
    \/ CreateDomain \/ DeleteDomain \/ DeleteAccount

Spec == Init /\ [][Next]_vars

-----------------------------------------------------------------------------
\* Every variable has its type.
TypeOK ==
    /\ public \in BOOLEAN
    /\ site \in {"none", "dir"} \cup Release
    /\ tmp \in Release \cup {NoRelease}
    /\ releases \subseteq Release
    /\ pc \in [Deploy -> {"idle", "link", "rm_tmp", "mk_tmp", "rename", "clean_tmp"}]
    /\ rel \in [Deploy -> Release \cup {NoRelease}]
    /\ overlapped \in BOOLEAN /\ abandoned \in BOOLEAN

(***************************************************************************)
(* However swaps overlap with each other and with the panel, fail or die,  *)
(* no step of theirs takes away a document root that is there ("update the *)
(* symlink atomically with rename(2)") and none replaces a directory.      *)
(***************************************************************************)
DocRootSwapsAtomically ==
    [][(\E d \in Deploy : pc'[d] # pc[d]) =>
         /\ site # "none" => site' # "none"
         /\ site = "dir" => site' = "dir"]_vars

(***************************************************************************)
(* What a document root links to is a release that exists, whoever made    *)
(* the link and whoever took over its temporary name.                      *)
(***************************************************************************)
LinksToRelease == site \in {"none", "dir"} \cup releases

(***************************************************************************)
(* A swap that renames has made its own release the current one, also over *)
(* the temporary link of a swap that died, as long as swaps do not         *)
(* overlap: with two, one installs the release of the other.               *)
(***************************************************************************)
SwapInstallsOwn ==
    [][\A d \in Deploy :
         (~overlapped' /\ pc[d] = "rename" /\ pc'[d] = "idle" /\ site' # site) => site' = rel[d]]_vars

(***************************************************************************)
(* The temporary link belongs to a swap that is under way, even when swaps *)
(* take it from each other; only a swap that died or could not remove it   *)
(* leaves it behind (AtomicSwap).                                          *)
(***************************************************************************)
NoLinkLeftBehind ==
    tmp # NoRelease => abandoned \/ \E d \in Deploy : pc[d] \in {"rename", "clean_tmp"}
=============================================================================
