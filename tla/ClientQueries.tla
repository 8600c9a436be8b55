--------------------------- MODULE ClientQueries ---------------------------
(***************************************************************************)
(* What the web client asks the server for and what it asks again: the     *)
(* query keys, the facts each answer carries, the facts each call changes, *)
(* and the keys each mutation hook invalidates once its call succeeded.    *)
(*                                                                         *)
(* Source: frontend/src/features/ghg/useGhg.ts (keys and hooks) and api.ts *)
(* (calls and the types of their answers), with the pages that mount them. *)
(*                                                                         *)
(* One organization "org", one inventory "inv", one run "run", one record  *)
(* "act" stand for any; a page, a filter or a search term is "page".       *)
(***************************************************************************)
EXTENDS SequencesExt

organizationsKey == <<"ghg", "organizations">>
organizationCapabilitiesKey == <<"ghg", "organizations", "capabilities">>
organizationKey == <<"ghg", "organization", "org">>
organizationEventsKey == <<"ghg", "organization-events", "org">>
membersKey == <<"ghg", "members", "org">>
entitiesKey == <<"ghg", "entities", "org">>
facilitiesKey == <<"ghg", "facilities", "org">>
streamsKey == <<"ghg", "streams", "org">>
factorsKey == <<"ghg", "emission-factors", "org">>
factorPageKey == Append(factorsKey, "page")
factorPacksKey == <<"ghg", "factor-packs">>
factorPackNoticesKey == <<"ghg", "factor-pack-notices", "org">>
factorPackDiffKey == <<"ghg", "factor-pack-diff", "notice">>
organizationUnitsKey == <<"ghg", "units", "org">>
customUnitsKey == <<"ghg", "custom-units", "org">>
densitiesKey == <<"ghg", "densities", "org">>
activitiesKey == <<"ghg", "activities", "org">>
activityPageKey == Append(activitiesKey, "page")
activityKey == <<"ghg", "activity", "act">>
revisionsKey == <<"ghg", "revisions", "act">>
evidenceKey == <<"ghg", "evidence", "act">>
evidencePageKey == <<"ghg", "evidence-page", "org", "page">>
importBatchesKey == <<"ghg", "import-batches", "org">>
inventoriesKey == <<"ghg", "inventories", "org">>
inventoryKey == <<"ghg", "inventory", "inv">>
inheritanceKey == <<"ghg", "inheritance", "inv">>
boundaryKey == <<"ghg", "boundary", "inv">>
boundaryVersionsKey == <<"ghg", "boundary-versions", "inv">>
marketFactorsKey == <<"ghg", "market-factors", "inv">>
upstreamRulesKey == <<"ghg", "upstream-rules", "inv">>
assignmentsKey == <<"ghg", "assignments", "inv">>
assignmentPageKey == Append(assignmentsKey, "page")
coverageKey == <<"ghg", "coverage", "inv">>
validationKey == <<"ghg", "validation", "inv">>
runsKey == <<"ghg", "runs", "inv">>
auditEventsKey == <<"ghg", "events", "inv">>
runKey == <<"ghg", "run", "run">>
reportKey == <<"ghg", "report", "run">>
baseYearKey == <<"ghg", "base-year", "org">>

-----------------------------------------------------------------------------
(* The facts an answer carries: a relation between keys and facts. *)

OrganizationReads ==
  ({organizationsKey, organizationKey} \X {"organization", "members", "facilityCount"})
    \cup {<<membersKey, "members">>, <<organizationEventsKey, "history">>}

StructureReads ==
  {<<entitiesKey, "entities">>, <<entitiesKey, "organization">>}
    \cup ({facilitiesKey} \X {"facilities", "entities"})
    \cup ({streamsKey} \X {"streams", "facilities"})

FactorReads == {<<factorPageKey, "factors">>}
\* The diff weighs an edition against the factors that came from the one before.
PackReads ==
  {<<factorPacksKey, "packs">>, <<factorPackNoticesKey, "notices">>, <<factorPackDiffKey, "notices">>,
   <<factorPackDiffKey, "factors">>}

UnitReads ==
  {<<organizationUnitsKey, "units">>, <<customUnitsKey, "units">>, <<densitiesKey, "densities">>}

\* A record's answer counts its documents and its revisions and names its facility and source.
RecordReads ==
  ({activityPageKey, activityKey} \X {"records", "evidence", "streams", "facilities"})
    \cup {<<revisionsKey, "revisions">>, <<evidenceKey, "evidence">>}
DocumentReads ==
  {<<importBatchesKey, "batches">>}
    \cup ({evidencePageKey} \X {"evidence", "records", "streams", "facilities"})

\* The sign-off is part of an inventory's answer, and so is whether the submitter may sign.
InventoryReads ==
  ({inventoriesKey, inventoryKey} \X {"header", "status", "declaration", "metadata", "members"})
    \cup ({inheritanceKey} \X {"header", "assignments", "boundary"})

BoundaryReads ==
  ({boundaryKey} \X {"boundary", "entities", "facilities", "header"})
    \cup {<<boundaryVersionsKey, "versions">>}

AssignmentReads ==
  {assignmentPageKey} \X {"assignments", "records", "streams", "facilities", "boundary", "factors", "densities"}
ReviewReads ==
  ({coverageKey} \X {"records", "streams", "facilities", "boundary", "header", "assignments"})
    \cup ({validationKey} \X {"assignments", "records", "boundary", "instruments", "rules", "factors",
                              "densities", "header", "declaration", "baseYear", "facilities", "entities"})

RunReads == {runsKey} \X {"runs", "final"}
HistoryReads == {<<auditEventsKey, "events">>}
\* A published report is read as it was stored; before that it carries the run and the inventory's header.
ReportReads == {reportKey} \X {"runs", "header", "status", "declaration", "metadata", "versions", "baseYear"}

InstrumentReads ==
  {<<marketFactorsKey, "instruments">>, <<upstreamRulesKey, "rules">>, <<upstreamRulesKey, "assignments">>}
BaseYearReads == {<<baseYearKey, "baseYear">>}

Reads == UNION {OrganizationReads, StructureReads, FactorReads, PackReads, UnitReads, RecordReads, DocumentReads,
                InventoryReads, BoundaryReads, AssignmentReads, ReviewReads, RunReads, HistoryReads, ReportReads,
                InstrumentReads, BaseYearReads}

-----------------------------------------------------------------------------
(* The facts a call changes at the server, by the hook that makes the call. *)

OrganizationWrites ==
  {<<"useCreateOrganization", "organization">>, <<"useDeleteOrganization", "organization">>}
    \cup ({"useUpdateOrganization"} \X {"organization", "entities", "history"})

MemberHooks == {"useAddMember", "useChangeMemberRole", "useRemoveMember"}
MemberWrites == MemberHooks \X {"members", "history"}

EntityHooks == {"useCreateEntity", "useUpdateEntity", "useDeleteEntity"}
FacilityHooks == {"useCreateFacility", "useUpdateFacility", "useDeleteFacility"}
StreamHooks == {"useCreateStream", "useUpdateStream", "useDeleteStream"}
StructureWrites ==
  (EntityHooks \X {"entities", "history"}) \cup (FacilityHooks \X {"facilities", "history"})
    \cup ({"useCreateFacility", "useDeleteFacility"} \X {"facilityCount"})
    \cup (StreamHooks \X {"streams", "history"})

FactorHooks == {"useCreateEmissionFactor", "useUpdateEmissionFactor", "useSetFactorApproval",
                "useDeleteEmissionFactor", "useImportFactorPack"}
AdoptionHooks == {"useAcceptFactorPackNotice", "useDeclineFactorPackNotice"}
LibraryWrites ==
  (FactorHooks \X {"factors"}) \cup (AdoptionHooks \X {"notices", "history"})
    \cup ({"useAcceptFactorPackNotice"} \X {"factors", "baseYear"})

UnitHooks == {"useCreateCustomUnit", "useUpdateCustomUnit", "useDeleteCustomUnit"}
DensityHooks == {"useCreateDensity", "useUpdateDensity", "useDeleteDensity"}
UnitWrites == (UnitHooks \X {"units"}) \cup (DensityHooks \X {"densities"})

\* A record may bring a new source with it, and its source counts it.
RecordHooks == {"useCreateActivity", "useUpdateActivity", "useDeleteActivity", "useBulkActivities",
                "useImportActivities"}
EvidenceHooks == {"useUploadEvidence", "useAddEvidenceLink", "useDeleteEvidence"}
RecordWrites ==
  (RecordHooks \X {"records", "streams"}) \cup (EvidenceHooks \X {"evidence"})
    \cup ({"useUpdateActivity", "useDeleteActivity", "useBulkActivities"} \X {"revisions"})
    \cup {<<"useBulkActivities", "evidence">>, <<"useImportActivities", "batches">>}

InventoryWrites ==
  ({"useCreateInventory", "useUpdateInventory", "useDeleteInventory"} \X {"header"})
    \cup {<<"useUpdateInventory", "boundary">>, <<"useSetOperationalBoundary", "declaration">>,
          <<"useSetReportMetadata", "metadata">>, <<"useSetReportMetadata", "events">>}

BoundaryHooks == {"useSetBoundaryTreatment", "useRemoveBoundaryTreatment", "useSetEntityTreatment",
                  "useRemoveEntityTreatment", "useExcludeEntity", "useClearEntityExclusion",
                  "useExcludeFacility", "useClearFacilityExclusion"}
InstrumentHooks == {"useSetMarketFactor", "useRemoveMarketFactor", "useSetResidualMix"}
RuleHooks == {"useAddUpstreamRule", "useRemoveUpstreamRule"}
AssignmentHooks == {"useSyncAssignments", "useClassifyAssignment", "useExcludeAssignment", "useIncludeAssignment"}
ReviewWrites ==
  (BoundaryHooks \X {"boundary"}) \cup (InstrumentHooks \X {"instruments"})
    \cup (RuleHooks \X {"rules", "events"}) \cup (AssignmentHooks \X {"assignments", "events"}) \cup {<<"useSetResidualMix", "header">>}

\* Every act of the lifecycle moves the status or the sign-off and adds a row to the history.
LifecycleHooks == {"useReopenInventory", "useWithdrawFinal", "usePublishInventory", "useSupersedeInventory",
                   "useSubmitForReview", "useReturnToPreparer", "useSaveSignOff", "useFinalizeRun"}
LifecycleWrites ==
  ((LifecycleHooks \cup {"useFreezeInventory"}) \X {"status", "events"})
    \cup ({"useFreezeInventory", "useReopenInventory"} \X {"versions"})
    \cup ({"useWithdrawFinal", "useFinalizeRun"} \X {"final"})
    \cup {<<"useFreezeInventory", "baseYear">>}

\* A run executed while another is in review withdraws that submission (the status and the history move).
RunWrites ==
  ({"useExecuteRun"} \X {"runs", "status", "events"}) \cup ({"useVoidRun"} \X {"runs", "status", "events"})

BaseYearHooks == {"useSetBaseYear", "useClearBaseYear", "useRaiseRecalculation", "useDecideRecalculation"}
BaseYearWrites == BaseYearHooks \X {"baseYear"}

Writes == UNION {OrganizationWrites, MemberWrites, StructureWrites, LibraryWrites, UnitWrites, RecordWrites,
                 InventoryWrites, ReviewWrites, LifecycleWrites, RunWrites, BaseYearWrites}

-----------------------------------------------------------------------------
(* What a hook refreshes once its call succeeded: a relation between hooks and key prefixes. A hook *)
(* that failed refreshes nothing.                                                                   *)

OrganizationRefreshes ==
  ({"useCreateOrganization", "useUpdateOrganization", "useDeleteOrganization"} \X {organizationsKey})
    \cup ({"useUpdateOrganization"} \X {organizationKey, entitiesKey, organizationEventsKey})

MemberRefreshes == MemberHooks \X {membersKey, organizationEventsKey}

StructureRefreshes ==
  (EntityHooks \X {entitiesKey, facilitiesKey}) \cup (FacilityHooks \X {facilitiesKey})
    \cup ({"useCreateFacility", "useDeleteFacility"} \X {organizationKey})
    \cup ({"useUpdateFacility", "useDeleteFacility"} \X {activitiesKey})
    \cup (StreamHooks \X {streamsKey})

LibraryRefreshes ==
  (FactorHooks \X {factorsKey})
    \cup (AdoptionHooks \X {factorPackNoticesKey, <<"ghg", "factor-pack-diff">>, factorsKey, baseYearKey,
                            <<"ghg", "validation">>})

UnitRefreshes == (UnitHooks \cup DensityHooks) \X {customUnitsKey, organizationUnitsKey, densitiesKey}

\* Everything that reads the records, every inventory's coverage, review list and gates included.
ActivityReaders ==
  {activitiesKey, <<"ghg", "activity">>, <<"ghg", "evidence-page", "org">>, <<"ghg", "coverage">>,
   <<"ghg", "assignments">>, <<"ghg", "validation">>}

\* An import that created a source refreshes the sources too; a dry run is no call of this hook here.
RecordRefreshes ==
  (RecordHooks \X ActivityReaders)
    \cup ({"useCreateActivity", "useUpdateActivity", "useImportActivities"} \X {streamsKey})
    \cup {<<"useUpdateActivity", revisionsKey>>, <<"useImportActivities", importBatchesKey>>}
    \cup (EvidenceHooks \X {evidenceKey, activitiesKey, <<"ghg", "evidence-page", "org">>, activityKey})

InventoryRefreshes ==
  ({"useCreateInventory", "useUpdateInventory", "useDeleteInventory"} \X {inventoriesKey})
    \cup ({"useUpdateInventory"} \X {inventoryKey, validationKey, boundaryKey})
    \cup {<<"useSetOperationalBoundary", validationKey>>}

ScopedHooks == UNION {BoundaryHooks, InstrumentHooks, RuleHooks, AssignmentHooks}
ScopedRefreshes ==
  ScopedHooks \X {boundaryKey, assignmentsKey, coverageKey, validationKey, marketFactorsKey, upstreamRulesKey,
                  inventoryKey}

\* A freeze that forgets the inventory itself, and lifecycle acts that do.
FreezeWithoutInventory ==
  ((LifecycleHooks \cup {"useSetReportMetadata", "useVoidRun"})
     \X {inventoryKey, validationKey, runsKey, auditEventsKey, <<"ghg", "inventories">>})
    \cup {<<"useReopenInventory", boundaryVersionsKey>>}
    \cup ({"useFreezeInventory"} \X {validationKey, boundaryVersionsKey, <<"ghg", "base-year">>})
LifecycleWithoutInventory ==
  ((LifecycleHooks \cup {"useSetReportMetadata", "useVoidRun"})
     \X {validationKey, runsKey, auditEventsKey, <<"ghg", "inventories">>})
    \cup {<<"useReopenInventory", boundaryVersionsKey>>}
    \cup ({"useFreezeInventory"} \X {inventoryKey, validationKey, boundaryVersionsKey, <<"ghg", "base-year">>})
LifecycleRefreshes ==
  ((LifecycleHooks \cup {"useSetReportMetadata", "useVoidRun"})
     \X {inventoryKey, validationKey, runsKey, auditEventsKey, <<"ghg", "inventories">>})
    \cup {<<"useReopenInventory", boundaryVersionsKey>>}
    \cup ({"useFreezeInventory"} \X {inventoryKey, validationKey, boundaryVersionsKey, <<"ghg", "base-year">>})

RunRefreshes == {<<"useExecuteRun", runsKey>>}
BaseYearRefreshes == BaseYearHooks \X {baseYearKey, <<"ghg", "validation">>}

Refreshes == UNION {OrganizationRefreshes, MemberRefreshes, StructureRefreshes, LibraryRefreshes, UnitRefreshes,
                    RecordRefreshes, InventoryRefreshes, ScopedRefreshes, LifecycleRefreshes, RunRefreshes,
                    BaseYearRefreshes}

\* Hooks that put the call's own answer in the cache, without asking again.
StoresRunList == {<<"useSetOperationalBoundary", inventoryKey>>, <<"useExecuteRun", runsKey>>}
Stores == {<<"useSetOperationalBoundary", inventoryKey>>, <<"useExecuteRun", runKey>>}

-----------------------------------------------------------------------------
Changes(hook, key) == \E fact \in {r[2] : r \in {w \in Writes : w[1] = hook}} : <<key, fact>> \in Reads
Refreshed(hook, key) == \E r \in Refreshes : r[1] = hook /\ IsPrefix(r[2], key)
=============================================================================
