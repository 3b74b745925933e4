----------------------------- MODULE AccessProofs -----------------------------
(***************************************************************************)
(* Proofs about Access, for any addresses, passes and signup versions.     *)
(*                                                                         *)
(* AccessInv is inductive.  It falls into three parts, and a step disturbs *)
(* few of them: what is known of the people, of the class and its row, and *)
(* of the passes.  Only ActiveIsProven is needed beyond the properties.    *)
(***************************************************************************)
EXTENDS Access, TLAPS

\* An account that can sign in has proven its address: this is what makes
\* Enroll safe, which asks for nothing but a signed-in account.
ActiveIsProven ==
    \A a \in Addresses : account[a].status = "ACTIVE" => account[a].verified = TRUE

PeopleOK ==
    /\ account \in [Addresses -> AccountType]
    /\ proof \in [Addresses -> Versions]
    /\ link \in [Addresses -> LinkType]
    /\ reset \in [Addresses -> BOOLEAN]
    /\ checking \in [Addresses -> Passwords \cup {"none"}]
    /\ sessions \in [Addresses -> SUBSET Passwords]
    /\ ActiveIsProven

\* The row in terms of its fields.
Proven(r) ==
    /\ r.userId \in {None, r.rosterEmail}
    /\ r.status = "ACTIVE" =>
           r.userId = r.rosterEmail /\ account[r.rosterEmail].verified = TRUE

RowOK == class \in ClassType /\ row \in RowType /\ Proven(row)

\* One pass: what is left of it after a sign-out is at most a socket.
PassOK(r) == r \in PassType /\ (r.stale => ~r.ticket /\ ~r.session)

PassesOK == pass \in [Passes -> PassType] /\ \A p \in Passes : PassOK(pass[p])

AccessInv == PeopleOK /\ RowOK /\ PassesOK

-----------------------------------------------------------------------------
\* The codes and sentinels are of their types.
LEMMA Sentinels ==
    /\ Code \in Versions
    /\ NoLink \in LinkType
    /\ NoPass \in PassType
    /\ PassOK(NoPass)
BY AccessAssumption DEF Code, Versions, NoLink, NoPass, LinkType, PassType, PassOK

\* Updates of one account.
LEMMA AccountUpdate ==
    ASSUME NEW r \in AccountType,
           NEW s \in {"NONE", "PENDING", "ACTIVE", "DISABLED"}
    PROVE  /\ [r EXCEPT !.status = s] \in AccountType
           /\ [r EXCEPT !.status = s].status = s
           /\ [r EXCEPT !.status = s].verified = r.verified
           /\ [r EXCEPT !.verified = TRUE] \in AccountType
           /\ [r EXCEPT !.verified = TRUE].status = r.status
           /\ [r EXCEPT !.verified = TRUE].verified = TRUE
BY DEF AccountType

\* Every update of a pass that an action makes keeps it in order: losing a
\* ticket, a session or the socket, the exchange of a ticket that is there,
\* a new connection, the end of a user's workspace, and a new ticket.
LEMMA PassUpdate ==
    ASSUME NEW r, PassOK(r)
    PROVE  /\ PassOK(Kept([r EXCEPT !.ticket = FALSE]))
           /\ PassOK(Kept([r EXCEPT !.session = FALSE]))
           /\ PassOK(Kept([r EXCEPT !.socket = FALSE]))
           /\ PassOK([r EXCEPT !.socket = TRUE])
           /\ r.ticket => PassOK([r EXCEPT !.ticket = FALSE, !.session = TRUE])
           /\ PassOK(Kept([r EXCEPT !.ticket = FALSE, !.session = FALSE,
                                    !.stale = TRUE]))
<1>1. ASSUME NEW s, PassOK(s) PROVE PassOK(Kept(s))
  BY <1>1, Sentinels DEF Kept
<1>2. PassOK([r EXCEPT !.ticket = FALSE])
  BY DEF PassOK, PassType
<1>3. PassOK([r EXCEPT !.session = FALSE])
  BY DEF PassOK, PassType
<1>4. PassOK([r EXCEPT !.socket = FALSE]) /\ PassOK([r EXCEPT !.socket = TRUE])
  BY DEF PassOK, PassType
<1>5. r.ticket => PassOK([r EXCEPT !.ticket = FALSE, !.session = TRUE])
  BY DEF PassOK, PassType
<1>6. PassOK([r EXCEPT !.ticket = FALSE, !.session = FALSE, !.stale = TRUE])
  BY DEF PassOK, PassType
<1>. QED BY <1>1, <1>2, <1>3, <1>4, <1>5, <1>6

\* A new ticket is in order.
LEMMA NewTicket ==
    ASSUME NEW a \in Addresses
    PROVE  PassOK([NoPass EXCEPT !.user = a, !.ticket = TRUE])
BY DEF PassOK, PassType, NoPass

\* Ending a workspace keeps the passes in order.
LEMMA ClosedInOrder ==
    ASSUME PassesOK, NEW a \in Addresses
    PROVE  /\ CloseWorkspace(a) \in [Passes -> PassType]
           /\ \A p \in Passes : PassOK(CloseWorkspace(a)[p])
<1>1. ASSUME NEW p \in Passes PROVE PassOK(CloseWorkspace(a)[p])
  BY Zenon, PassUpdate DEF CloseWorkspace, PassesOK
<1>2. \A p \in Passes : CloseWorkspace(a)[p] \in PassType
  BY <1>1 DEF PassOK
<1>. QED BY <1>1, <1>2 DEF CloseWorkspace

\* Every handler keeps what is known of the accounts, links and sessions.
LEMMA PeopleStep == PeopleOK /\ RowOK /\ [Next]_vars => PeopleOK'
<1>. SUFFICES ASSUME PeopleOK, RowOK, [Next]_vars PROVE PeopleOK'
  OBVIOUS
<1>. USE Sentinels DEF PeopleOK, ActiveIsProven
<1>1. ASSUME NEW a \in Addresses, NEW v \in Versions, Register(a, v) PROVE PeopleOK'
  <2>1. /\ account'[a] \in AccountType
        /\ account'[a].status = "PENDING"
        /\ account'[a].verified = account[a].verified
    BY <1>1 DEF Register, AccountType
  <2>2. \A b \in Addresses \ {a} : account'[b] = account[b]
    BY <1>1 DEF Register
  <2>. QED BY <1>1, <2>1, <2>2 DEF Register, LinkType
<1>2. ASSUME NEW a \in Addresses, Resend(a) PROVE PeopleOK'
  BY <1>2 DEF Resend, LinkType, CarriedOver
<1>3. ASSUME NEW a \in Addresses, LinkDelivered(a) PROVE PeopleOK'
  BY <1>3 DEF LinkDelivered, LinkType
<1>4. ASSUME NEW a \in Addresses, LinkExpires(a) PROVE PeopleOK'
  BY <1>4 DEF LinkExpires, LinkType
<1>5. ASSUME NEW a \in Addresses, Activate(a) PROVE PeopleOK'
  BY <1>5 DEF Activate, AccountType, Passwords
<1>6. ASSUME NEW a \in Addresses, BeginLogin(a) PROVE PeopleOK'
  BY <1>6 DEF BeginLogin, Passwords
<1>7. ASSUME NEW a \in Addresses, FinishLogin(a) PROVE PeopleOK'
  BY <1>7 DEF FinishLogin, Passwords
<1>8. ASSUME NEW a \in Addresses, RequestReset(a) PROVE PeopleOK'
  BY <1>8 DEF RequestReset
<1>9. ASSUME NEW a \in Addresses, ResetGone(a) PROVE PeopleOK'
  BY <1>9 DEF ResetGone
<1>10. ASSUME NEW a \in Addresses, ConfirmReset(a) PROVE PeopleOK'
  <2>1. /\ account'[a] \in AccountType
        /\ account'[a].verified = TRUE
        /\ account'[a].status = account[a].status
    BY <1>10 DEF ConfirmReset, AccountType
  <2>2. \A b \in Addresses \ {a} : account'[b] = account[b]
    BY <1>10 DEF ConfirmReset
  <2>. QED BY <1>10, <2>1, <2>2 DEF ConfirmReset, Passwords
<1>11. ASSUME NEW a \in Addresses, NEW s \in Passwords, Logout(a, s) PROVE PeopleOK'
  BY <1>11 DEF Logout
<1>12. ASSUME NEW a \in Addresses, NEW s \in Passwords, SessionExpires(a, s) PROVE PeopleOK'
  BY <1>12 DEF SessionExpires
<1>13. ASSUME NEW a \in Addresses, Disable(a) PROVE PeopleOK'
  <2>1. /\ account'[a] \in AccountType
        /\ account'[a].status = "DISABLED"
        /\ account'[a].verified = account[a].verified
    BY <1>13 DEF Disable, AccountType
  <2>2. \A b \in Addresses \ {a} : account'[b] = account[b]
    BY <1>13 DEF Disable
  <2>. QED BY <1>13, <2>1, <2>2 DEF Disable
<1>14. ASSUME NEW a \in Addresses, Enable(a) PROVE PeopleOK'
  <2>1. /\ account'[a] \in AccountType
        /\ account'[a].status = "ACTIVE" => account[a].verified = TRUE
        /\ account'[a].verified = account[a].verified
    BY <1>14 DEF Enable, AccountType
  <2>2. \A b \in Addresses \ {a} : account'[b] = account[b]
    BY <1>14 DEF Enable
  <2>. QED BY <1>14, <2>1, <2>2 DEF Enable
<1>15. CASE UNCHANGED people
  BY <1>15 DEF people
<1>. QED
  BY Zenon, <1>1, <1>2, <1>3, <1>4, <1>5, <1>6, <1>7, <1>8, <1>9, <1>10, <1>11,
     <1>12, <1>13, <1>14, <1>15 DEF Next, vars, AccountStep, AdminStep,
     WorkspaceStep, Enroll, Regenerate, SetClass, Reimport, SetRow,
     IssueTicket, TicketExpires, Exchange, GatewaySessionExpires, Connect,
     Disconnect, Sweep

\* Every handler keeps the row and the proof behind it.
LEMMA RowStep == PeopleOK /\ RowOK /\ [Next]_vars => RowOK'
<1>. SUFFICES ASSUME PeopleOK, RowOK, [Next]_vars PROVE RowOK'
  OBVIOUS
<1>. USE DEF PeopleOK, RowOK, Proven
<1>1. ASSUME NEW a \in Addresses, NEW v \in Versions, Register(a, v) PROVE RowOK'
  BY <1>1, AccountUpdate DEF Register, RowType
<1>2. ASSUME NEW a \in Addresses, Activate(a) PROVE RowOK'
  BY <1>2 DEF Activate, StillEligible, Eligible, SignupOpen, RowType, AccountType
<1>3. ASSUME NEW a \in Addresses, ConfirmReset(a) PROVE RowOK'
  BY <1>3, AccountUpdate DEF ConfirmReset, RowType
<1>4. ASSUME NEW a \in Addresses, Enroll(a) PROVE RowOK'
  BY <1>4 DEF Enroll, SignedIn, Eligible, ActiveIsProven, people, RowType
<1>5. ASSUME NEW a \in Addresses, Disable(a) PROVE RowOK'
  BY <1>5, AccountUpdate DEF Disable, RowType
<1>6. ASSUME NEW a \in Addresses, Enable(a) PROVE RowOK'
  BY <1>6, AccountUpdate DEF Enable, RowType, AccountType
<1>7. ASSUME Regenerate PROVE RowOK'
  <2>1. class.version \in Nat /\ class.version + 1 \in Versions
    BY <1>7, AccessAssumption DEF Regenerate, ClassType, Versions
  <2>2. class' \in ClassType
    BY <1>7, <2>1 DEF Regenerate, ClassType
  <2>. QED BY <1>7, <2>2 DEF Regenerate, people
<1>8. ASSUME SetClass PROVE RowOK'
  BY <1>8 DEF SetClass, people, ClassType
<1>9. ASSUME NEW a \in Addresses, Reimport(a) PROVE RowOK'
  BY <1>9 DEF Reimport, people, RowType
<1>10. ASSUME SetRow PROVE RowOK'
  BY <1>10 DEF SetRow, people, RowType
<1>11. CASE UNCHANGED <<account, class, row>>
  BY <1>11
<1>. QED
  BY Zenon, <1>1, <1>2, <1>3, <1>4, <1>5, <1>6, <1>7, <1>8, <1>9, <1>10, <1>11 DEF
     Next, vars, people, AccountStep, AdminStep, WorkspaceStep, Resend,
     LinkDelivered, LinkExpires, BeginLogin, FinishLogin, RequestReset,
     ResetGone, Logout, SessionExpires, IssueTicket, TicketExpires, Exchange,
     GatewaySessionExpires, Connect, Disconnect, Sweep

\* Every handler keeps the passes in order.
LEMMA PassStep == PassesOK /\ [Next]_vars => PassesOK'
<1>. SUFFICES ASSUME PassesOK, [Next]_vars PROVE PassesOK'
  OBVIOUS
<1>. USE DEF PassesOK
<1>1. ASSUME NEW a \in Addresses, ConfirmReset(a) PROVE PassesOK'
  BY <1>1, ClosedInOrder DEF ConfirmReset
<1>2. ASSUME NEW a \in Addresses, NEW s \in Passwords, Logout(a, s) PROVE PassesOK'
  BY <1>2, ClosedInOrder DEF Logout
<1>3. ASSUME NEW a \in Addresses, NEW p \in Passes, IssueTicket(a, p) PROVE PassesOK'
  BY <1>3, NewTicket DEF IssueTicket, PassOK
<1>4. ASSUME NEW p \in Passes, TicketExpires(p) PROVE PassesOK'
  <2>1. PassOK(pass'[p]) /\ \A q \in Passes \ {p} : pass'[q] = pass[q]
    BY Zenon, <1>4, PassUpdate DEF TicketExpires
  <2>. QED BY <1>4, <2>1 DEF TicketExpires, PassOK
<1>5. ASSUME NEW p \in Passes, Exchange(p) PROVE PassesOK'
  <2>1. PassOK(pass'[p]) /\ \A q \in Passes \ {p} : pass'[q] = pass[q]
    BY <1>5, PassUpdate DEF Exchange
  <2>. QED BY <1>5, <2>1 DEF Exchange, PassOK
<1>6. ASSUME NEW p \in Passes, GatewaySessionExpires(p) PROVE PassesOK'
  <2>1. PassOK(pass'[p]) /\ \A q \in Passes \ {p} : pass'[q] = pass[q]
    BY Zenon, <1>6, PassUpdate DEF GatewaySessionExpires
  <2>. QED BY <1>6, <2>1 DEF GatewaySessionExpires, PassOK
<1>7. ASSUME NEW p \in Passes, Connect(p) PROVE PassesOK'
  <2>1. PassOK(pass'[p]) /\ \A q \in Passes \ {p} : pass'[q] = pass[q]
    BY Zenon, <1>7, PassUpdate DEF Connect
  <2>. QED BY <1>7, <2>1 DEF Connect, PassOK
<1>8. ASSUME NEW p \in Passes, Disconnect(p) PROVE PassesOK'
  <2>1. PassOK(pass'[p]) /\ \A q \in Passes \ {p} : pass'[q] = pass[q]
    BY Zenon, <1>8, PassUpdate DEF Disconnect
  <2>. QED BY <1>8, <2>1 DEF Disconnect, PassOK
<1>9. ASSUME Sweep PROVE PassesOK'
  <2>1. ASSUME NEW p \in Passes PROVE PassOK(pass'[p])
    BY Zenon, <1>9, PassUpdate DEF Sweep
  <2>. QED BY <1>9, <2>1 DEF Sweep, PassOK
<1>10. CASE UNCHANGED pass
  BY <1>10
<1>. QED
  BY <1>1, <1>2, <1>3, <1>4, <1>5, <1>6, <1>7, <1>8, <1>9, <1>10 DEF Next,
     vars, AccountStep, AdminStep, WorkspaceStep, Register, Resend,
     LinkDelivered, LinkExpires, Activate, BeginLogin, FinishLogin,
     RequestReset, ResetGone, SessionExpires, Enroll, Disable, Enable,
     Regenerate, SetClass, Reimport, SetRow

\* AccessInv holds in every state.
LEMMA Invariance == Spec => []AccessInv
<1>1. Init => AccessInv
  <2>. SUFFICES ASSUME Init PROVE AccessInv
    OBVIOUS
  <2>1. PeopleOK
    BY Sentinels DEF Init, PeopleOK, ActiveIsProven, AccountType, Passwords
  <2>2. RowOK
    BY Sentinels DEF Init, RowOK, Proven, ClassType, RowType, Code
  <2>3. PassesOK
    BY Sentinels DEF Init, PassesOK
  <2>. QED BY <2>1, <2>2, <2>3 DEF AccessInv
<1>2. AccessInv /\ [Next]_vars => AccessInv'
  BY PeopleStep, RowStep, PassStep DEF AccessInv
<1>. QED BY <1>1, <1>2, PTL DEF Spec

-----------------------------------------------------------------------------
\* Every variable keeps its type, whatever the interleaving of the handlers.
THEOREM TypeCorrect == Spec => []TypeOK
<1>1. AccessInv => TypeOK
  BY DEF AccessInv, PeopleOK, RowOK, PassesOK, TypeOK
<1>. QED BY <1>1, Invariance, PTL

\* Whoever takes part in the class has proven the address on the roster, for any
\* number of people and any order of registrations, links, imports and blocks.
THEOREM ParticipantsAreProven == Spec => []MembersAreProven
<1>1. AccessInv => MembersAreProven
  BY DEF AccessInv, RowOK, Proven, MembersAreProven
<1>. QED BY <1>1, Invariance, PTL

\* The roster row is attached to no account but the one of its present address.
THEOREM AttachmentFollowsAddress == Spec => []RowFollowsAddress
<1>1. AccessInv => RowFollowsAddress
  BY DEF AccessInv, RowOK, Proven, RowFollowsAddress
<1>. QED BY <1>1, Invariance, PTL

\* No ticket or gateway session survives a sign-out or a new password of its
\* user, for any number of open workspaces.
THEOREM WorkspaceEndsWithSignOut == Spec => []NothingOutlivesSignOut
<1>1. AccessInv => NothingOutlivesSignOut
  BY DEF AccessInv, PassesOK, PassOK, NothingOutlivesSignOut
<1>. QED BY <1>1, Invariance, PTL

-----------------------------------------------------------------------------
\* What a link leads to is what the account last registered with, or nothing.
LinksMatchProofs ==
    \A a \in Addresses : link[a].version \in {Code, proof[a]}

LEMMA LinksStep == PeopleOK /\ LinksMatchProofs /\ [Next]_vars => LinksMatchProofs'
<1>. SUFFICES ASSUME PeopleOK, LinksMatchProofs, [Next]_vars PROVE LinksMatchProofs'
  OBVIOUS
<1>. USE DEF PeopleOK, LinksMatchProofs
<1>1. ASSUME NEW a \in Addresses, NEW v \in Versions, Register(a, v)
      PROVE  LinksMatchProofs'
  BY <1>1 DEF Register
<1>2. ASSUME NEW a \in Addresses, Resend(a) PROVE LinksMatchProofs'
  BY <1>2 DEF Resend, CarriedOver
<1>3. ASSUME NEW a \in Addresses, LinkDelivered(a) PROVE LinksMatchProofs'
  BY <1>3 DEF LinkDelivered, NoLink, LinkType
<1>4. ASSUME NEW a \in Addresses, LinkExpires(a) PROVE LinksMatchProofs'
  BY <1>4 DEF LinkExpires, LinkType
<1>5. ASSUME NEW a \in Addresses, Activate(a) PROVE LinksMatchProofs'
  BY <1>5 DEF Activate, NoLink
<1>6. CASE UNCHANGED <<link, proof>>
  BY <1>6
<1>. QED
  BY Zenon, <1>1, <1>2, <1>3, <1>4, <1>5, <1>6 DEF Next, vars, people, AccountStep,
     AdminStep, WorkspaceStep, BeginLogin, FinishLogin, RequestReset,
     ResetGone, ConfirmReset, Logout, SessionExpires, Enroll, Disable, Enable,
     Regenerate, SetClass, Reimport, SetRow, IssueTicket, TicketExpires,
     Exchange, GatewaySessionExpires, Connect, Disconnect, Sweep

\* Nobody is activated into the class with a link that was revoked since the
\* registration: not through re-sent, failed or expired mails either.
THEOREM RevocationHolds == Spec => RevokedProofNeverEnrolls
<1>. DEFINE Entry(a) ==
       account[a].status = "PENDING" /\ account'[a].status = "ACTIVE"
         /\ row'.status = "ACTIVE" /\ row' # row
       => proof[a] = class.version /\ class.active /\ class.signupEnabled
<1>1. Init => LinksMatchProofs
  <2>1. NoLink.version = Code
    BY DEF NoLink
  <2>. QED BY <2>1 DEF Init, LinksMatchProofs
<1>2. ASSUME PeopleOK, LinksMatchProofs, [Next]_vars, NEW a \in Addresses
      PROVE  Entry(a)
  <2>. SUFFICES ASSUME row' # row, account' # account PROVE Entry(a)
    OBVIOUS
  <2>1. PICK b \in Addresses : Activate(b)
    BY <1>2 DEF Next, vars, people, AccountStep, AdminStep, WorkspaceStep,
       Register, Resend, LinkDelivered, LinkExpires, BeginLogin, FinishLogin,
       RequestReset, ResetGone, ConfirmReset, Logout, SessionExpires, Enroll,
       Disable, Enable, Regenerate, SetClass, Reimport, SetRow, IssueTicket,
       TicketExpires, Exchange, GatewaySessionExpires, Connect, Disconnect,
       Sweep
  <2>2. link[b].version # Code /\ StillEligible(b)
    BY <2>1 DEF Activate
  <2>3. class.version = link[b].version /\ class.active /\ class.signupEnabled
    BY <2>2 DEF StillEligible, SignupOpen
  <2>4. CASE a = b
    BY <2>2, <2>3, <2>4, <1>2 DEF LinksMatchProofs
  <2>5. CASE a # b
    BY <2>1, <2>5, <1>2 DEF Activate, PeopleOK
  <2>. QED BY <2>4, <2>5
<1>3. PeopleOK /\ LinksMatchProofs /\ [Next]_vars
        => [\A a \in Addresses : Entry(a)]_vars
  BY <1>2
<1>4. AccessInv => PeopleOK
  BY DEF AccessInv
<1>. QED
  BY <1>1, <1>3, <1>4, LinksStep, Invariance, PTL
     DEF Spec, RevokedProofNeverEnrolls
=============================================================================
