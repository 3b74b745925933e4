---------------------------- MODULE MCComponents ----------------------------
(***************************************************************************)
(* Seven components that share no state in these models, each with its own *)
(* behaviours: part says which of them moves.                              *)
(***************************************************************************)
EXTENDS ClassDeletion, Workspace, Fleet, Administration, Roster, JobList, RateLimit

VARIABLE part

CsvRow(email, id) == [email |-> email, org |-> id, valid |-> TRUE]
Invalid  == <<[email |-> "a", org |-> 1, valid |-> FALSE]>>
BadFile  == <<[email |-> "a", org |-> 2, valid |-> FALSE]>>
CsvFiles == {<<>>, Invalid, BadFile, <<CsvRow("a", 1)>>, <<CsvRow("b", 1)>>,
             <<CsvRow("a", 1), CsvRow("b", 2)>>, <<CsvRow("a", 1), CsvRow("b", 1)>>}

Everything == {"pending", "in_progress", "completed", "failed", "cancelled"}
Panels     == {Everything, {"completed"}}

ComponentsInit ==
    /\ part \in {"roster", "jobs", "limit", "archive", "workspace", "fleet", "admin"}
    /\ RosterInit /\ JobListInit /\ LimitInit
    /\ DeletionInit /\ WorkspaceInit /\ FleetInit /\ AdminInit
    /\ freeOnly => part = "fleet"
    /\ retention => part = "archive"

ComponentsNext ==
    \/ /\ part = "roster" /\ RosterNext
       /\ UNCHANGED <<part, jobListVars, limitVars, deletionVars, workspaceVars, fleetVars,
                      adminVars>>
    \/ /\ part = "jobs" /\ JobListNext
       /\ UNCHANGED <<part, rosterVars, limitVars, deletionVars, workspaceVars, fleetVars,
                      adminVars>>
    \/ /\ part = "limit" /\ LimitNext
       /\ UNCHANGED <<part, rosterVars, jobListVars, deletionVars, workspaceVars, fleetVars,
                      adminVars>>
    \/ /\ part = "archive" /\ DeletionNext
       /\ UNCHANGED <<part, rosterVars, jobListVars, limitVars, workspaceVars, fleetVars,
                      adminVars>>
    \/ /\ part = "workspace" /\ WorkspaceNext
       /\ UNCHANGED <<part, rosterVars, jobListVars, limitVars, deletionVars, fleetVars,
                      adminVars>>
    \/ /\ part = "fleet" /\ FleetNext
       /\ UNCHANGED <<part, rosterVars, jobListVars, limitVars, deletionVars, workspaceVars,
                      adminVars>>
    \/ /\ part = "admin" /\ AdminNext
       /\ UNCHANGED <<part, rosterVars, jobListVars, limitVars, deletionVars, workspaceVars,
                      fleetVars>>

componentsVars == <<part, rosterVars, jobListVars, limitVars, deletionVars, workspaceVars,
                    fleetVars, adminVars>>

\* The reaper keeps polling; a unit that is started again and again does not
\* fail each time before it is up, seen by the gateway's tick and given a job.
FleetFairness ==
    /\ WF_fleetVars(part = "fleet" /\ Reaper)
    /\ SF_fleetVars(part = "fleet" /\ Start)
    /\ SF_fleetVars(part = "fleet" /\ ComesUp)
    /\ SF_fleetVars(part = "fleet" /\ HealthChecked /\ online')
    /\ SF_fleetVars(part = "fleet" /\ \E j \in Jobs : Claim(j))

\* Nothing obliges an administrator to delete a class, nor the deletion to go on.
ArchiveFairness ==
    /\ WF_deletionVars(part = "archive" /\ Rows /\ Gateway /\ UNCHANGED <<deletion, staging>>)
    /\ WF_deletionVars(part = "archive" /\ Rows /\ PickExpired /\ UNCHANGED <<deletion, staging>>)
    /\ WF_deletionVars(part = "archive" /\ Rows /\ Expire /\ UNCHANGED <<deletion, staging>>)

ComponentsSpec ==
    /\ ComponentsInit /\ [][ComponentsNext]_componentsVars
    /\ FleetFairness /\ ArchiveFairness

ComponentsTypeOK ==
    /\ RosterTypeOK /\ JobListTypeOK /\ LimitTypeOK
    /\ DeletionTypeOK /\ WorkspaceTypeOK /\ FleetTypeOK /\ AdminTypeOK
=============================================================================
