-------------------------------- MODULE Access --------------------------------
(***************************************************************************)
(* Who may work in a class: accounts and their emailed links, the row of   *)
(* the roster an account is attached to, the class's signup link, browser  *)
(* sessions, and the workspace (tickets, gateway sessions and WebSockets). *)
(*                                                                         *)
(* One class with one roster row, whose address the administrator may      *)
(* change.  An account is identified by its address, as userByEmail does.  *)
(* Handlers of the web process are synchronous between their awaits, and   *)
(* gateway handlers are transactions, so an action is a stretch between    *)
(* two awaits: the password check of a login and the delivery of a mail    *)
(* are the awaits after which a handler still changes state.               *)
(***************************************************************************)
EXTENDS Integers

CONSTANTS
    Addresses,    \* canonical email addresses
    Returning,    \* bound: who ever signs in again, or asks for a new password
    Passes,       \* bound: ways into the workspace open at once
    MaxVersion,   \* bound: how often the signup link is generated
    None          \* no address

ASSUME AccessAssumption ==
    /\ MaxVersion \in Nat
    /\ Returning \subseteq Addresses
    /\ None \notin Addresses

VARIABLES
    account,      \* users, by address
    proof,        \* history: signup version a PENDING account registered with
    link,         \* verifications with purpose ACTIVATE, one per address
    reset,        \* whether there is a verification with purpose RESET
    checking,     \* login: the password verified before its transaction
    sessions,     \* sessions, by the password that opened them
    class,        \* classes, with the version of its one signup token
    row,          \* the enrollment
    pass          \* workspace_tickets, gateway_sessions and `clients`

people == <<account, proof, link, reset, checking, sessions>>
vars == <<people, class, row, pass>>

Code == 0                       \* registered with the administrator code
Versions == 0..MaxVersion
NoLink == [state |-> "none", version |-> Code]
Passwords == {"current", "old"} \* as seen from the account's present password
NoPass == [user |-> None, ticket |-> FALSE, session |-> FALSE,
           socket |-> FALSE, stale |-> FALSE]

AccountType == [status : {"NONE", "PENDING", "ACTIVE", "DISABLED"},
                verified : BOOLEAN]
LinkType == [state : {"none", "sending", "sent", "expired"}, version : Versions]
ClassType == [active : BOOLEAN, signupEnabled : BOOLEAN, version : Versions]
RowType == [rosterEmail : Addresses, userId : Addresses \cup {None},
            status : {"INVITED", "ACTIVE", "ARCHIVED"}]
PassType == [user : Addresses \cup {None}, ticket : BOOLEAN, session : BOOLEAN,
             socket : BOOLEAN, stale : BOOLEAN]

TypeOK ==
    /\ account \in [Addresses -> AccountType]
    /\ proof \in [Addresses -> Versions]
    /\ link \in [Addresses -> LinkType]
    /\ reset \in [Addresses -> BOOLEAN]
    /\ checking \in [Addresses -> Passwords \cup {"none"}]
    /\ sessions \in [Addresses -> SUBSET Passwords]
    /\ class \in ClassType
    /\ row \in RowType
    /\ pass \in [Passes -> PassType]

\* A class just created, with an imported roster; signup was never opened.
Init ==
    /\ account = [a \in Addresses |-> [status |-> "NONE", verified |-> FALSE]]
    /\ proof = [a \in Addresses |-> Code]
    /\ link = [a \in Addresses |-> NoLink]
    /\ reset = [a \in Addresses |-> FALSE]
    /\ checking = [a \in Addresses |-> "none"]
    /\ sessions = [a \in Addresses |-> {}]
    /\ class = [active |-> TRUE, signupEnabled |-> FALSE, version |-> 0]
    /\ row \in [rosterEmail : Addresses, userId : {None}, status : {"INVITED"}]
    /\ pass = [p \in Passes |-> NoPass]

-----------------------------------------------------------------------------
(* What the handlers ask of the database. *)

\* validateSignupToken for the token of version v: older tokens are deleted.
SignupOpen(v) ==
    v # Code /\ class.active /\ class.signupEnabled /\ class.version = v

\* The roster row an address may take.
Eligible(a) == row.rosterEmail = a /\ row.status # "ARCHIVED"

\* activeMembership
Member(a) ==
    /\ account[a].status = "ACTIVE" /\ class.active
    /\ row.userId = a /\ row.status = "ACTIVE"

\* currentUser: a session of an active account.
SignedIn(a) == sessions[a] # {} /\ account[a].status = "ACTIVE"

\* A pass of which no ticket, gateway session or socket is left is free again.
Kept(r) == IF r.ticket \/ r.session \/ r.socket THEN r ELSE NoPass

\* Mutant of CloseWorkspace: the tickets are forgotten.
CloseWorkspaceSessions(a) ==
    [p \in Passes |->
        IF pass[p].user # a THEN pass[p]
        ELSE Kept([pass[p] EXCEPT !.session = FALSE, !.stale = TRUE])]

\* Deletes the gateway sessions and tickets of a user; sockets stay until swept.
\* What is left of the passes is marked as older than this moment.
CloseWorkspace(a) ==
    [p \in Passes |->
        IF pass[p].user # a THEN pass[p]
        ELSE Kept([pass[p] EXCEPT !.ticket = FALSE, !.session = FALSE, !.stale = TRUE])]

\* Mutant of CarriedOver: the class's version is read instead of the old link's.
CarriedOverAnew(a) == IF link[a].version = Code THEN Code ELSE class.version

\* The link that replaces the previous one keeps its class, if there is one.
\* A consumed link is forgotten by Activate: nothing reads its row again.
CarriedOver(a) == link[a].version

-----------------------------------------------------------------------------
(* Accounts: apps/web/lib/api.ts. *)

\* register: over nothing or an unconfirmed account, never over another.
Register(a, v) ==
    /\ account[a].status \in {"NONE", "PENDING"}
    /\ v # Code => SignupOpen(v) /\ Eligible(a) /\ row.userId = None
    /\ account' = [account EXCEPT ![a].status = "PENDING"]
    /\ proof' = [proof EXCEPT ![a] = v]
    /\ link' = [link EXCEPT ![a] = [state |-> "sending", version |-> v]]
    /\ UNCHANGED <<reset, checking, sessions, class, row, pass>>

\* resendActivation, and requestPasswordReset of a PENDING account.
Resend(a) ==
    /\ account[a].status = "PENDING"
    /\ link' = [link EXCEPT ![a] = [state |-> "sending", version |-> CarriedOver(a)]]
    /\ UNCHANGED <<account, proof, reset, checking, sessions, class, row, pass>>

\* The mail of the newest link is delivered, or fails and takes the link along.
\* (That of an older link finds its row deleted either way.)
LinkDelivered(a) ==
    /\ link[a].state = "sending"
    /\ \/ link' = [link EXCEPT ![a].state = "sent"]
       \/ link' = [link EXCEPT ![a] = NoLink]
    /\ UNCHANGED <<account, proof, reset, checking, sessions, class, row, pass>>

LinkExpires(a) ==
    /\ link[a].state = "sent"
    /\ link' = [link EXCEPT ![a].state = "expired"]
    /\ UNCHANGED <<account, proof, reset, checking, sessions, class, row, pass>>

\* What activate requires of the link's class context, read again at the click.
StillEligible(a) ==
    link[a].version # Code => SignupOpen(link[a].version) /\ Eligible(a)

\* activate: it proves the address, attaches the row and signs in.
Activate(a) ==
    /\ link[a].state \in {"sending", "sent"}
    /\ account[a].status # "DISABLED"
    /\ StillEligible(a)
    /\ account' = [account EXCEPT ![a] = [status |-> "ACTIVE", verified |-> TRUE]]
    /\ row' = IF link[a].version = Code THEN row
              ELSE [row EXCEPT !.userId = a, !.status = "ACTIVE"]
    /\ link' = [link EXCEPT ![a] = NoLink]
    /\ proof' = [proof EXCEPT ![a] = Code]
    /\ sessions' = [sessions EXCEPT ![a] = @ \cup {"current"}]
    /\ UNCHANGED <<reset, checking, class, pass>>

\* login: the account is read and its password verified, which takes a while...
BeginLogin(a) ==
    /\ a \in Returning /\ account[a].status = "ACTIVE" /\ checking[a] = "none"
    /\ checking' = [checking EXCEPT ![a] = "current"]
    /\ UNCHANGED <<account, proof, link, reset, sessions, class, row, pass>>

\* ...and then the status is read again, in the transaction that signs in.
FinishLogin(a) ==
    /\ checking[a] # "none"
    /\ sessions' = IF account[a].status = "ACTIVE"
                   THEN [sessions EXCEPT ![a] = @ \cup {checking[a]}] ELSE sessions
    /\ checking' = [checking EXCEPT ![a] = "none"]
    /\ UNCHANGED <<account, proof, link, reset, class, row, pass>>

RequestReset(a) ==
    /\ a \in Returning /\ account[a].status = "ACTIVE"
    /\ reset' = [reset EXCEPT ![a] = TRUE]
    /\ UNCHANGED <<account, proof, link, checking, sessions, class, row, pass>>

\* The mail fails and takes the link along, or the link expires: an expired one
\* is refused, and replaced, like one that is not there.
ResetGone(a) ==
    /\ reset[a]
    /\ reset' = [reset EXCEPT ![a] = FALSE]
    /\ UNCHANGED <<account, proof, link, checking, sessions, class, row, pass>>

\* confirmPasswordReset: a new password ends every session, workspace included.
\* A login that verified the password before verified what is now the old one.
ConfirmReset(a) ==
    /\ reset[a]
    /\ account[a].status = "ACTIVE"
    /\ account' = [account EXCEPT ![a].verified = TRUE]
    /\ reset' = [reset EXCEPT ![a] = FALSE]
    /\ sessions' = [sessions EXCEPT ![a] = {}]
    /\ checking' = [checking EXCEPT ![a] = IF @ = "none" THEN @ ELSE "old"]
    /\ pass' = CloseWorkspace(a)
    /\ UNCHANGED <<proof, link, class, row>>

\* destroySessionByCookie: this browser's session, every workspace of the user.
Logout(a, s) ==
    /\ s \in sessions[a]
    /\ sessions' = [sessions EXCEPT ![a] = @ \ {s}]
    /\ pass' = CloseWorkspace(a)
    /\ UNCHANGED <<account, proof, link, reset, checking, class, row>>

SessionExpires(a, s) ==
    /\ s \in sessions[a]
    /\ sessions' = [sessions EXCEPT ![a] = @ \ {s}]
    /\ UNCHANGED <<account, proof, link, reset, checking, class, row, pass>>

\* POST /api/enroll: a proven account joins through the class's link.
Enroll(a) ==
    /\ SignedIn(a) /\ SignupOpen(class.version)
    /\ Eligible(a) /\ row.userId \in {None, a}
    /\ row' = [row EXCEPT !.userId = a, !.status = "ACTIVE"]
    /\ UNCHANGED <<people, class, pass>>

-----------------------------------------------------------------------------
(* Administration: api.ts and signup.ts. *)

\* PATCH /api/admin/users
Disable(a) ==
    /\ account[a].status \in {"PENDING", "ACTIVE"}
    /\ account' = [account EXCEPT ![a].status = "DISABLED"]
    /\ UNCHANGED <<proof, link, reset, checking, sessions, class, row, pass>>

\* Mutant of Enable: the status the administrator asked for is kept.
EnableAlways(a) ==
    /\ account[a].status = "DISABLED"
    /\ account' = [account EXCEPT ![a].status = "ACTIVE"]
    /\ UNCHANGED <<proof, link, reset, checking, sessions, class, row, pass>>

\* Mutant of Enable: an unproven account gets the status of an unproven row.
EnableInvited(a) ==
    /\ account[a].status = "DISABLED"
    /\ account' = [account EXCEPT
           ![a].status = IF account[a].verified THEN "ACTIVE" ELSE "INVITED"]
    /\ UNCHANGED <<proof, link, reset, checking, sessions, class, row, pass>>

\* An administrator confirms no address: unproven accounts become PENDING again.
Enable(a) ==
    /\ account[a].status = "DISABLED"
    /\ account' = [account EXCEPT
           ![a].status = IF account[a].verified THEN "ACTIVE" ELSE "PENDING"]
    /\ UNCHANGED <<proof, link, reset, checking, sessions, class, row, pass>>

\* generateSignupUrl
Regenerate ==
    /\ class.version < MaxVersion
    /\ class' = [class EXCEPT !.version = @ + 1, !.signupEnabled = TRUE]
    /\ UNCHANGED <<people, row, pass>>

\* setSignupEnabled, and PATCH of the class's `active`.
SetClass ==
    /\ \E b \in BOOLEAN : class' \in {[class EXCEPT !.signupEnabled = b],
                                      [class EXCEPT !.active = b]}
    /\ UNCHANGED <<people, row, pass>>

\* Mutant of Reimport: the account stays attached.
ReimportAttached(a) ==
    /\ row' = IF row.rosterEmail = a THEN row
              ELSE [row EXCEPT !.rosterEmail = a, !.status = "INVITED"]
    /\ UNCHANGED <<people, class, pass>>

\* rosterCommit of a row with the student's ID and the address a: a changed
\* address detaches the account, and the status is kept otherwise.
Reimport(a) ==
    /\ row' = IF row.rosterEmail = a THEN row
              ELSE [rosterEmail |-> a, userId |-> None, status |-> "INVITED"]
    /\ UNCHANGED <<people, class, pass>>

\* PATCH .../enrollments, and the archiving of missing rows in rosterCommit.
SetRow ==
    /\ \E status \in {"ARCHIVED", "INVITED"} : row' = [row EXCEPT !.status = status]
    /\ UNCHANGED <<people, class, pass>>

-----------------------------------------------------------------------------
(* The workspace: api.ts and apps/gateway/src/index.ts. *)

\* POST /api/workspace/session
IssueTicket(a, p) ==
    /\ SignedIn(a) /\ Member(a) /\ pass[p] = NoPass
    /\ pass' = [pass EXCEPT ![p] = [NoPass EXCEPT !.user = a, !.ticket = TRUE]]
    /\ UNCHANGED <<people, class, row>>

TicketExpires(p) ==
    /\ pass[p].ticket
    /\ pass' = [pass EXCEPT ![p] = Kept([@ EXCEPT !.ticket = FALSE])]
    /\ UNCHANGED <<people, class, row>>

\* GET /auth/exchange, a transaction: a ticket that is consumed or expired is
\* refused like one that is not there.
Exchange(p) ==
    /\ pass[p].ticket /\ Member(pass[p].user)
    /\ pass' = [pass EXCEPT ![p].ticket = FALSE, ![p].session = TRUE]
    /\ UNCHANGED <<people, class, row>>

GatewaySessionExpires(p) ==
    /\ pass[p].session
    /\ pass' = [pass EXCEPT ![p] = Kept([@ EXCEPT !.session = FALSE])]
    /\ UNCHANGED <<people, class, row>>

\* session() of the gateway: the row is there and the membership still holds.
Admitted(p) == pass[p].session /\ Member(pass[p].user)

\* The upgrade of attachWs.
Connect(p) ==
    /\ Admitted(p) /\ ~pass[p].socket
    /\ pass' = [pass EXCEPT ![p].socket = TRUE]
    /\ UNCHANGED <<people, class, row>>

Disconnect(p) ==
    /\ pass[p].socket
    /\ pass' = [pass EXCEPT ![p] = Kept([@ EXCEPT !.socket = FALSE])]
    /\ UNCHANGED <<people, class, row>>

\* Mutant of MayStay: the timer looks at the membership only, as notify does.
MayStayAsMember(p) == Member(pass[p].user)

\* The timer of attachWs looks at every client, each second.
MayStay(p) == Admitted(p)

Sweep ==
    /\ \E p \in Passes : pass[p].socket /\ ~MayStay(p)
    /\ pass' = [p \in Passes |-> IF MayStay(p) THEN pass[p]
                                ELSE Kept([pass[p] EXCEPT !.socket = FALSE])]
    /\ UNCHANGED <<people, class, row>>

-----------------------------------------------------------------------------
AccountStep(a) ==
    \/ \E v \in Versions : Register(a, v)
    \/ Resend(a) \/ LinkDelivered(a) \/ LinkExpires(a) \/ Activate(a)
    \/ BeginLogin(a) \/ FinishLogin(a)
    \/ RequestReset(a) \/ ResetGone(a) \/ ConfirmReset(a)
    \/ \E s \in Passwords : Logout(a, s) \/ SessionExpires(a, s)
    \/ Enroll(a)

AdminStep ==
    \/ \E a \in Addresses : Disable(a) \/ Enable(a) \/ Reimport(a)
    \/ Regenerate \/ SetClass \/ SetRow

WorkspaceStep ==
    \/ \E p \in Passes :
          \/ \E a \in Addresses : IssueTicket(a, p)
          \/ TicketExpires(p) \/ Exchange(p) \/ GatewaySessionExpires(p)
          \/ Connect(p) \/ Disconnect(p)
    \/ Sweep

Next == (\E a \in Addresses : AccountStep(a)) \/ AdminStep \/ WorkspaceStep

Spec == Init /\ [][Next]_vars

\* The timer fires for as long as the gateway's server listens.
LiveSpec == Spec /\ WF_vars(Sweep)

-----------------------------------------------------------------------------
(* Properties. *)

\* Whoever takes part in the class has proven the address the roster names for
\* the row, however registrations, re-sent links, roster imports, and disabled
\* and re-enabled accounts follow each other (activate, enroll, rosterCommit,
\* and the users route's return to PENDING).
MembersAreProven ==
    row.status = "ACTIVE" =>
        row.userId = row.rosterEmail /\ account[row.rosterEmail].verified

\* A row stays attached only to the account of its present address: a changed
\* roster email detaches the previous account, also while the row is archived
\* or invited again (rosterCommit, against activate and enroll).
RowFollowsAddress == row.userId \in {None, row.rosterEmail}

\* Regenerating the signup link revokes outstanding challenges: an account that
\* is activated into the class has registered with the present version of the
\* link, whatever links were re-sent, expired or failed to be delivered since
\* (issueActivation carries the context over, activate reads it again).
RevokedProofNeverEnrolls ==
    [][\A a \in Addresses :
          account[a].status = "PENDING" /\ account'[a].status = "ACTIVE"
              /\ row'.status = "ACTIVE" /\ row' # row
          => proof[a] = class.version /\ class.active /\ class.signupEnabled]_vars

\* Signing out or a new password ends the workspace: no ticket or gateway
\* session from before survives it, even if the ticket is exchanged by the other
\* process at that moment (confirmPasswordReset, destroySessionByCookie).
NothingOutlivesSignOut ==
    \A p \in Passes : pass[p].stale => ~pass[p].ticket /\ ~pass[p].session

\* An established WebSocket does not outlive the right to it: sign-out, expiry,
\* a disabled account, an archived row or class close it (attachWs's timer).
RevokedSocketsClose ==
    \A p \in Passes :
        pass[p].socket /\ ~Admitted(p) ~> ~pass[p].socket \/ Admitted(p)

\* "A new password ends every established session" (api.ts:413): no session
\* signed in with a password the account no longer has.  Claimed, not kept: a
\* login that verified the old password before the reset finishes after it.
NewPasswordEndsSessions == \A a \in Addresses : "old" \notin sessions[a]

=============================================================================
