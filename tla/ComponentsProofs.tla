--------------------------- MODULE ComponentsProofs ---------------------------
(***************************************************************************)
(* The run of MCComponents checks seven components next to each other.     *)
(* What is proved of each of them alone holds there too: a behaviour of    *)
(* all of them is, seen by one of them, a behaviour of its own             *)
(* specification.                                                          *)
(***************************************************************************)
EXTENDS MCComponents, AdministrationProofs, WorkspaceProofs, RequestProofs, RosterProofs

LEMMA StepsOfRoster == [ComponentsNext]_componentsVars => [RosterNext]_rosterVars
  BY DEF ComponentsNext, componentsVars
LEMMA StepsOfJobList == [ComponentsNext]_componentsVars => [JobListNext]_jobListVars
  BY DEF ComponentsNext, componentsVars
LEMMA StepsOfLimit == [ComponentsNext]_componentsVars => [LimitNext]_limitVars
  BY DEF ComponentsNext, componentsVars
LEMMA StepsOfDeletion == [ComponentsNext]_componentsVars => [DeletionNext]_deletionVars
  BY DEF ComponentsNext, componentsVars
LEMMA StepsOfWorkspace == [ComponentsNext]_componentsVars => [WorkspaceNext]_workspaceVars
  BY DEF ComponentsNext, componentsVars
LEMMA StepsOfFleet == [ComponentsNext]_componentsVars => [FleetNext]_fleetVars
  BY DEF ComponentsNext, componentsVars
LEMMA StepsOfAdmin == [ComponentsNext]_componentsVars => [AdminNext]_adminVars
  BY DEF ComponentsNext, componentsVars

\* The composition implements the specification of every component.
THEOREM SideBySide == ComponentsSpec =>
    /\ RosterSpec /\ JobListSpec /\ LimitSpec
    /\ DeletionSpec /\ WorkspaceSpec /\ FleetSpec /\ AdminSpec
<1>1. ComponentsInit => /\ RosterInit /\ JobListInit /\ LimitInit
                        /\ DeletionInit /\ WorkspaceInit /\ FleetInit /\ AdminInit
  BY DEF ComponentsInit
<1> QED
  BY <1>1, StepsOfRoster, StepsOfJobList, StepsOfLimit, StepsOfDeletion, StepsOfWorkspace,
     StepsOfFleet, StepsOfAdmin, PTL
  DEF ComponentsSpec, RosterSpec, JobListSpec, LimitSpec, DeletionSpec, WorkspaceSpec,
      FleetSpec, AdminSpec

\* The type invariant of the run, from those of the components.
THEOREM ComponentsTypeCorrect == ComponentsSpec => []ComponentsTypeOK
<1>1. /\ PagingInv => JobListTypeOK
      /\ LimitInv => LimitTypeOK
      /\ AdminInv => AdminTypeOK
  BY DEF PagingInv, LimitInv, AdminInv
<1> QED
  BY <1>1, SideBySide, RosterTypeCorrect, PagingInvariant, WindowsInvariant,
     DeletionTypeCorrect, WorkspaceTypeCorrect, FleetTypeCorrect, AdminInvariant, PTL
  DEF ComponentsTypeOK
=============================================================================
