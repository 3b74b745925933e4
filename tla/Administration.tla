--------------------------- MODULE Administration ---------------------------
(***************************************************************************)
(* Who administers the lab: the status and the role of every account, as   *)
(* registration, activation, the administrators' code and the              *)
(* administrators themselves change them.  Links and memberships are in    *)
(* module Access.  TA and INSTRUCTOR grant what STUDENT does.              *)
(***************************************************************************)
CONSTANT Users     \* the addresses accounts may have

VARIABLES
    account,       \* User.status, or "none"
    role,          \* User.globalRole
    verified       \* the accounts with emailVerifiedAt

adminVars == <<account, role, verified>>

Administers(u) == account[u] = "ACTIVE" /\ role[u] = "ADMIN"

AdminTypeOK ==
    /\ account \in [Users -> {"none", "PENDING", "ACTIVE", "DISABLED"}]
    /\ role \in [Users -> {"ADMIN", "STUDENT"}]
    /\ verified \subseteq Users

AdminInit ==
    /\ account = [u \in Users |-> "none"]
    /\ role = [u \in Users |-> "STUDENT"]
    /\ verified = {}

-----------------------------------------------------------------------------
\* With the code an administrator, with a class's link a student.
Register(u, r) ==
    /\ account[u] \in {"none", "PENDING"}
    /\ account' = [account EXCEPT ![u] = "PENDING"]
    /\ role' = [role EXCEPT ![u] = r]
    /\ UNCHANGED verified

Activate(u) ==
    /\ account[u] = "PENDING"
    /\ account' = [account EXCEPT ![u] = "ACTIVE"]
    /\ verified' = verified \cup {u}
    /\ UNCHANGED role

\* A signed-in account presents the code.
Elevate(u) ==
    /\ account[u] = "ACTIVE"
    /\ role' = [role EXCEPT ![u] = "ADMIN"]
    /\ UNCHANGED <<account, verified>>

\* Mutant: administrators who are blocked or unconfirmed count.
FinalOneByRole(u) == \A v \in Users \ {u} : role[v] # "ADMIN"

\* Asked of an active administrator: the count is one.
FinalOne(u) == \A v \in Users \ {u} : ~Administers(v)

Losing(u, s, r) == Administers(u) /\ (s = "DISABLED" \/ r # "ADMIN")

\* Administrator a sets u's status and, or to what it is, u's role.
Change(a, u, s, r) ==
    /\ Administers(a)
    /\ account[u] # "none"
    /\ ~(account[u] = "PENDING" /\ s = "ACTIVE")
    /\ ~(Losing(u, s, r) /\ FinalOne(u))
    /\ account' = [account EXCEPT ![u] =
                      IF s = "ACTIVE" /\ u \notin verified THEN "PENDING" ELSE s]
    /\ role' = [role EXCEPT ![u] = r]
    /\ UNCHANGED verified

AdminNext == \E u \in Users :
    \/ Activate(u) \/ Elevate(u)
    \/ \E r \in {"ADMIN", "STUDENT"} :
          \/ Register(u, r)
          \/ \E a \in Users, s \in {"ACTIVE", "DISABLED"} : Change(a, u, s, r)

AdminSpec == AdminInit /\ [][AdminNext]_adminVars

-----------------------------------------------------------------------------
\* api.ts:1051: once the lab has an active administrator it keeps one, whoever
\* blocks, demotes or re-enables whom, with accounts blocked, unconfirmed or
\* registered over that still carry the role.
AdminRemains == [][(\E u \in Users : Administers(u)) =>
                      (\E u \in Users : Administers(u)')]_adminVars
=============================================================================
