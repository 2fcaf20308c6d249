---------------------------- MODULE SessionLife -----------------------------
(***************************************************************************)
(* What a client may rely on of sessions: each is usable from its birth    *)
(* until it ends, and never again; and one that was exchanged for another  *)
(* had ended before the other was born.  Requests, tables and failures do  *)
(* not appear here.                                                        *)
(***************************************************************************)
CONSTANTS
    Id,     \* sessions
    None    \* no session

VARIABLES
    born,   \* sessions there have been
    ended,  \* those that are over
    from    \* the session each was exchanged for, or None

lifeVars == <<born, ended, from>>

InitLife == born = {} /\ ended = {} /\ from = [s \in Id |-> None]

\* A session is born of a login (p = None) or in exchange for one that has ended.
Birth(s) ==
    /\ s \notin born
    /\ born' = born \cup {s}
    /\ \E p \in ended \cup {None} : from' = [from EXCEPT ![s] = p]
    /\ UNCHANGED ended

\* A session is revoked or expires.
End(s) ==
    /\ s \in born /\ s \notin ended
    /\ ended' = ended \cup {s}
    /\ UNCHANGED <<born, from>>

NextLife == \E s \in Id : Birth(s) \/ End(s)

SpecLife == InitLife /\ [][NextLife]_lifeVars
=============================================================================
