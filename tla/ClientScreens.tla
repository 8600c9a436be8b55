--------------------------- MODULE ClientScreens ---------------------------
(***************************************************************************)
(* The pages of an organization's workspace as the cache sees them: the    *)
(* queries each component mounts, the hooks whose acts it offers, and the  *)
(* components that are mounted together.                                   *)
(*                                                                         *)
(* Source: the pages and components of frontend/src/features/ghg and the   *)
(* routes of frontend/src/app/App.tsx.                                     *)
(***************************************************************************)
EXTENDS ClientQueries

Component(shows, acts) == [shows |-> shows, acts |-> acts]

\* The shell around every page of an organization.
OrganizationLayout == Component({organizationsKey, organizationKey, factorPackNoticesKey}, {})

OrganizationsPage == Component({organizationsKey, organizationCapabilitiesKey}, {"useCreateOrganization"})
OrganizationSettingsPage == Component({organizationKey, organizationEventsKey}, {"useUpdateOrganization"})
MembersCard == Component({membersKey}, MemberHooks)
BaseYearPage == Component({baseYearKey, inventoriesKey, organizationKey, runsKey}, BaseYearHooks)
OverviewPage == Component({organizationKey, facilitiesKey, activityPageKey, factorPageKey, inventoriesKey, runsKey}, {})

EntitiesPage == Component({entitiesKey, organizationKey}, {"useDeleteEntity"})
EntityFormPage == Component({entitiesKey}, {"useCreateEntity", "useUpdateEntity"})
FacilitiesPage == Component({facilitiesKey, entitiesKey, organizationKey}, {"useDeleteFacility"})
FacilityFormPage == Component({facilitiesKey, entitiesKey}, {"useCreateFacility", "useUpdateFacility"})
EmissionSourcesPage == Component({facilitiesKey, streamsKey, organizationKey}, {"useCreateStream", "useDeleteStream"})
EmissionSourceFormPage == Component({facilitiesKey, streamsKey}, {"useUpdateStream"})

EmissionFactorsPage == Component({factorPacksKey, organizationKey, factorPageKey}, FactorHooks)
FactorPackUpdatesPage == Component({factorPackNoticesKey, organizationKey}, {})
AdoptionDiffDrawer == Component({factorPackDiffKey}, AdoptionHooks)
UnitsPage == Component({organizationKey, customUnitsKey, organizationUnitsKey, densitiesKey},
                       {"useCreateCustomUnit", "useDeleteCustomUnit", "useCreateDensity", "useDeleteDensity"})

ActivityPage == Component({activityPageKey, facilitiesKey, streamsKey, organizationKey},
                          {"useDeleteActivity", "useBulkActivities"})
ActivityDrawer == Component({activityKey, organizationUnitsKey, streamsKey}, {"useCreateActivity", "useUpdateActivity"})
ActivityHistoryModal == Component({revisionsKey}, {})
EvidencePanel == Component({evidenceKey}, EvidenceHooks)
SourceDocumentsPage == Component({organizationKey, evidencePageKey, importBatchesKey, facilitiesKey}, {"useDeleteEvidence"})
ImportActivitiesPage == Component({organizationKey, streamsKey, facilitiesKey}, {"useImportActivities"})

InventoriesPage == Component({inventoriesKey, organizationKey}, {"useDeleteInventory"})
InventoryFormPage == Component({organizationKey, inventoryKey, inventoriesKey}, {"useCreateInventory", "useUpdateInventory"})
\* The workbench asks for what its tabs ask for before they mount.
InventoryDetailPage ==
  Component({inventoryKey, boundaryKey, inheritanceKey, organizationKey, validationKey, runsKey,
             assignmentPageKey, coverageKey}, {})
LifecycleBar == Component({validationKey, boundaryVersionsKey},
                          {"useFreezeInventory", "useReopenInventory", "useWithdrawFinal", "useReturnToPreparer",
                           "usePublishInventory", "useSupersedeInventory"})
AssignmentsSection ==
  Component({assignmentPageKey, facilitiesKey, streamsKey, coverageKey, densitiesKey, organizationUnitsKey, factorPageKey},
            AssignmentHooks)
BoundarySection == Component({boundaryKey, boundaryVersionsKey}, BoundaryHooks)
OperationalBoundaryCard == Component({}, {"useSetOperationalBoundary"})
MarketFactorsCard == Component({marketFactorsKey, facilitiesKey}, InstrumentHooks)
UpstreamRulesCard == Component({upstreamRulesKey, factorPageKey}, RuleHooks)
SignOffCard == Component({membersKey}, {"useSaveSignOff"})
LaunchSection == Component({validationKey, runsKey, auditEventsKey},
                           {"useExecuteRun", "useFinalizeRun", "useSubmitForReview", "useVoidRun"})
ReportMetadataCard == Component({}, {"useSetReportMetadata"})
RunDetailPage == Component({reportKey}, {})

-----------------------------------------------------------------------------
Workbench == {OrganizationLayout, InventoryDetailPage, LifecycleBar}

\* What is mounted together; a tab of the inventory's workbench is a screen of its own.
ScreenComponents ==
  [organizations |-> {OrganizationsPage},
   overview |-> {OrganizationLayout, OverviewPage},
   settings |-> {OrganizationLayout, OrganizationSettingsPage, MembersCard},
   baseline |-> {OrganizationLayout, BaseYearPage},
   entities |-> {OrganizationLayout, EntitiesPage},
   entity |-> {OrganizationLayout, EntityFormPage},
   facilities |-> {OrganizationLayout, FacilitiesPage},
   facility |-> {OrganizationLayout, FacilityFormPage},
   sources |-> {OrganizationLayout, EmissionSourcesPage},
   source |-> {OrganizationLayout, EmissionSourceFormPage},
   factors |-> {OrganizationLayout, EmissionFactorsPage},
   updates |-> {OrganizationLayout, FactorPackUpdatesPage, AdoptionDiffDrawer},
   units |-> {OrganizationLayout, UnitsPage},
   activity |-> {OrganizationLayout, ActivityPage, ActivityDrawer, EvidencePanel},
   history |-> {OrganizationLayout, ActivityPage, ActivityHistoryModal},
   documents |-> {OrganizationLayout, SourceDocumentsPage},
   import |-> {OrganizationLayout, ImportActivitiesPage},
   inventories |-> {OrganizationLayout, InventoriesPage},
   inventory |-> {OrganizationLayout, InventoryFormPage},
   records |-> Workbench \cup {AssignmentsSection},
   boundary |-> Workbench \cup {BoundarySection, OperationalBoundaryCard},
   method |-> Workbench \cup {MarketFactorsCard, UpstreamRulesCard, EvidencePanel},
   runs |-> Workbench \cup {SignOffCard, LaunchSection},
   report |-> Workbench \cup {ReportMetadataCard},
   run |-> {OrganizationLayout, RunDetailPage}]

ScreenNames == DOMAIN ScreenComponents
ScreenShows(screen) == UNION {c.shows : c \in ScreenComponents[screen]}
ScreenActs(screen) == UNION {c.acts : c \in ScreenComponents[screen]}

-----------------------------------------------------------------------------
(* The views that the hooks leave as they were although the act changes what they show, on a page *)
(* where both are mounted. Every other view of the page is brought up to date.                     *)
LeftStale ==
  \* The caller's own role, and the list behind the shell's organization switch.
  (MemberHooks \X {organizationKey, organizationsKey})
    \cup ({"useCreateFacility", "useDeleteFacility"} \X {organizationsKey})
  \* A source's count of records; the open record's history and documents after a bulk act.
    \cup ({"useDeleteActivity", "useBulkActivities"} \X {streamsKey, revisionsKey})
    \cup {<<"useBulkActivities", evidenceKey>>}
  \* What the inventory inherited, counted against its own decisions.
    \cup ((AssignmentHooks \cup BoundaryHooks \cup {"useSetResidualMix"}) \X {inheritanceKey})
  \* The freeze is a row of the history; so is a launch, which also withdraws a submission in review.
    \cup {<<"useFreezeInventory", auditEventsKey>>, <<"useExecuteRun", auditEventsKey>>,
          <<"useExecuteRun", inventoryKey>>}
  \* The declaration's answer replaces the inventory; a request under way may still bring the older one.
    \cup {<<"useSetOperationalBoundary", inventoryKey>>}
  \* Creating an inventory does not touch another one's answer.
    \cup {<<"useCreateInventory", inventoryKey>>}
=============================================================================
