---------------------------- MODULE QaVocabulary ----------------------------
(***************************************************************************)
(* The vocabulary of the QA procedures: for every verb what it does to the *)
(* rows of the product and the outcomes verified after it, and for every   *)
(* outcome which driver can tell whether it holds.                         *)
(*                                                                         *)
(* Source: qa/src/vocabulary (verbs and outcomes, each with its projection *)
(* to the API and to the screen) and runtime/ui/driver.ts.                 *)
(***************************************************************************)
EXTENDS TLC

\* What an accepted verb does to the number of rows; "page" acts never leave the page.
Adds(outcomes) == [act |-> "adds", outcomes |-> outcomes]
Removes(outcomes) == [act |-> "removes", outcomes |-> outcomes]
Changes(outcomes) == [act |-> "changes", outcomes |-> outcomes]
Reads == [act |-> "reads", outcomes |-> {}]
OnPage(outcomes) == [act |-> "page", outcomes |-> outcomes]

-----------------------------------------------------------------------------
AuthVerbs == [signIn |-> Changes({"signedIn"}), signOut |-> Changes({"sessionEnded"}),
              requestAccess |-> Adds({"accessRequestSubmitted"})]

\* An approved request becomes an account; a link is a token of its own.
AccountVerbs ==
  [createUser |-> Adds({"userListed"}), changeUserRole |-> Changes({"userListed"}),
   disableUser |-> Changes({"userListed"}), enableUser |-> Changes({"userListed"}),
   deleteUser |-> Removes({"userAbsent"}),
   approveAccessRequest |-> Adds({"accessRequestStatus", "userListed", "emailReceived"}),
   sendResetLink |-> Adds({"emailReceived"})]

\* Every password act is a row of the account's history.
PasswordVerbs ==
  [setPasswordFromLink |-> Adds({"userListed", "signedIn"}), openSetupLink |-> Reads,
   renameProfile |-> Changes({"displayName"}), changePassword |-> Adds({"otherSessionsEnded", "emailReceived"}),
   requestPasswordReset |-> Adds({"resetRequestAccepted"}), resetPasswordFromLink |-> Adds({"allSessionsEnded"}),
   openResetLink |-> Reads]

SettingsVerbs == [changeSettings |-> Adds({"settings"})]

OrganizationVerbs ==
  [createOrganization |-> Adds({"organizationListed"}), renameOrganization |-> Changes({"organizationListed"}),
   deleteOrganization |-> Removes({"organizationAbsent"}), openOrganization |-> Reads,
   addMember |-> Adds({"memberListed"}), changeMemberRole |-> Changes({"memberListed"}),
   removeMember |-> Removes({"memberAbsent"})]

EntityVerbs ==
  [addEntity |-> Adds({"entityListed"}), editEntity |-> Changes({"entityListed"}),
   removeEntity |-> Removes({"entityAbsent"}), addFacility |-> Adds({"facilityListed"})]
StreamVerbs ==
  [addStream |-> Adds({"streamListed"}), removeStream |-> Removes({"streamAbsent"}),
   editStream |-> Changes({"streamListed"})]

UnitVerbs == [addCustomUnit |-> Adds({"customUnitListed"}), addDensity |-> Adds({"densityListed"}),
              importPack |-> Adds({}), addFactor |-> Adds({"factorListed"})]
FactorVerbs == [retireFactor |-> Changes({"factorListed"}), approveFactor |-> Changes({"factorListed"})]

\* A preview writes nothing; a decided import writes the records it kept.
ImportVerbs ==
  [previewImport |-> Reads, decideImport |-> Reads, importDecided |-> Adds({}), importActivities |-> Adds({})]
RecordVerbs ==
  [addActivity |-> Adds({"activityExists"}), resolveAttention |-> Reads,
   addActivityDraft |-> Adds({"activityExists"})]
\* A change of a record is a revision of its own.
RevisionVerbs ==
  [enterActivity |-> Adds({"activityExists", "activityHistoryHas"}),
   correctActivity |-> Adds({"activityHistoryHas"}), attachFile |-> Adds({"evidenceListed"}),
   attachLink |-> Adds({"evidenceListed"}), removeActivity |-> Removes({"activityRemoved"}),
   removeActivities |-> Removes({"activityRemoved"})]
SourceVerbs == [assignSourceToActivities |-> Adds({"activityHasSource"}),
                removeFacility |-> Removes({"facilityAbsent"})]

InventoryVerbs ==
  [createInventory |-> Adds({"inventoryStatus"}), startNewInventory |-> OnPage({}), cancelDialog |-> OnPage({}),
   openInventory |-> Reads, setFacilityInBoundary |-> Adds({"facilityInBoundary"})]
BoundaryVerbs ==
  [excludeEntity |-> Adds({"boundaryRow"}), setEntityShare |-> Adds({"boundaryRow"}),
   setMembershipWindow |-> Adds({"boundaryRow"}), declareScope3 |-> Changes({"declarationHas"}),
   reviewActivityData |-> Adds({}), freezeInventory |-> Adds({}), openInventoryForm |-> Reads]

RecordViewVerbs ==
  [classifyRecord |-> Changes({"recordView"}), openRecord |-> Reads,
   classifyWithSuggestion |-> Changes({"recordView"}), pickFactorWithoutDensity |-> OnPage({"recordView"})]
ExclusionVerbs ==
  [excludeRecord |-> Changes({"recordView"}), includeRecord |-> Changes({"recordView"}),
   excludeSelected |-> Changes({"recordView"}), setStraddleTreatment |-> Changes({"inventoryStraddle"})]
MethodVerbs ==
  [addUpstreamRule |-> Adds({"upstreamRuleListed"}), addInstrument |-> Adds({"instrumentListed"}),
   editInstrument |-> Changes({"instrumentListed"}), setResidualMix |-> Changes({"residualMix"}),
   reopenInventory |-> Changes({})]

RunVerbs ==
  [launchRun |-> Adds({}), openRun |-> Reads, voidRun |-> Changes({"runListed"}), markFinal |-> Changes({}),
   submitForReview |-> Changes({}), returnToPreparer |-> Changes({}), assignSignOff |-> Changes({})]
PublicationVerbs ==
  [withdrawFinal |-> Changes({}), publishInventory |-> Changes({}), createCorrection |-> Adds({}),
   saveReportHeader |-> Changes({"reportHeaderSaved"}), setGwpSet |-> Changes({"inventoryGwpSet"}),
   unapproveFactor |-> Changes({"factorListed"})]
CorrectionVerbs == [recordActivity |-> Adds({"activityExists"}), showInheritance |-> Reads]

BaseYearVerbs ==
  [designateBaseYear |-> Adds({"baseYearReads"}), raiseCandidate |-> Adds({}), recordRecalculatedBase |-> Changes({}),
   declineCandidate |-> Changes({}), deleteFactor |-> Removes({"factorAbsent"}), tryDeleteOrganization |-> Removes({})]

EditionVerbs ==
  [openFactorPacks |-> Reads, openEdition |-> Reads, cloneEdition |-> Adds({"editionListed"}),
   editPackRow |-> Changes({"packRowReads"}), attachSourceDocument |-> Adds({"editionListed"})]
PublishVerbs ==
  [publishEdition |-> Adds({}), readBlastRadius |-> Reads, withdrawEdition |-> Adds({}),
   deleteDraft |-> Removes({"editionAbsent"}), openUpdates |-> Reads, reviewNotice |-> Reads, acceptNotice |-> Adds({})]
SupportVerbs ==
  [declineNotice |-> Changes({}), assumeSupportAccess |-> Adds({"supportAccess"}),
   endSupportAccess |-> Changes({"supportAccess"})]

Verbs == AuthVerbs @@ AccountVerbs @@ PasswordVerbs @@ SettingsVerbs @@ OrganizationVerbs @@ EntityVerbs @@ StreamVerbs
           @@ UnitVerbs @@ FactorVerbs @@ ImportVerbs @@ RecordVerbs @@ RevisionVerbs @@ SourceVerbs @@ InventoryVerbs
           @@ BoundaryVerbs @@ RecordViewVerbs @@ ExclusionVerbs @@ MethodVerbs @@ RunVerbs @@ PublicationVerbs
           @@ CorrectionVerbs @@ BaseYearVerbs @@ EditionVerbs @@ PublishVerbs @@ SupportVerbs

-----------------------------------------------------------------------------
(* Who can tell whether an outcome holds. "both": the API's answer and the screen; "screen": n/a for the *)
(* API; "api": n/a on the screen; "unread": the screen is not asked and passes it; "mailbox": by hand on *)
(* the screen's side, read in the mailbox by the API; "hand": a tester's judgement; "refusal": the act   *)
(* of the step is expected to be refused.                                                                *)

Both(outcomes) == [o \in outcomes |-> "both"]
Screen(outcomes) == [o \in outcomes |-> "screen"]
Api(outcomes) == [o \in outcomes |-> "api"]
Refusal(outcomes) == [o \in outcomes |-> "refusal"]

GeneralOutcomes == ("observe" :> "hand") @@ Refusal({"refused"})
AccountOutcomes == Both({"userListed", "userAbsent", "userCount", "accessRequestStatus", "accessRequestSubmitted",
                         "accessRequestsPending", "displayName", "platformRole", "platformAccess"})
SessionOutcomes ==
  Both({"signedIn", "sessionEnded", "otherSessionsEnded", "allSessionsEnded", "resetRequestAccepted",
        "organizationCount", "canCreateOrganization"})
    @@ [o \in {"emailReceived", "noEmail"} |-> "mailbox"]
SettingsOutcomes == Both({"settings", "settingHistoryHas", "settingHistoryCount", "supportAccessWindow", "platformSummary"})

MemberOutcomes == Both({"organizationListed", "organizationAbsent", "myRole", "memberListed", "memberAbsent",
                        "historyHas", "cannotWrite"}) @@ Api({"historyCount"})
StructureOutcomes == Both({"entityListed", "entityAbsent", "facilityListed", "streamListed", "customUnitListed"})
                       @@ Api({"streamAbsent"})
LibraryOutcomes == Both({"densityListed", "factorListed", "factorsEmpty", "importResult"})

ImportOutcomes == Both({"importPreview", "importRejected", "importUnknownSources", "importResolved", "activityHasSource"})
RecordOutcomes == Both({"attentionListed", "activityCount", "activityRefs", "activityExists", "activityRemoved"})
                    @@ Api({"monthlyTemplateRows", "activityOrder", "activityHistoryHas"})
DocumentOutcomes == Both({"attentionCount", "evidenceListed", "sourceDocumentListed", "importBatchListed", "facilityAbsent"})
                      @@ Api({"evidenceIndexHeader", "importTemplateHeader"})

InventoryOutcomes == Both({"inventoryListed", "inventoryStatus", "boundaryRow", "facilityInBoundary"})
                       @@ Screen({"workbenchTabs", "formHint", "formOffers"})
GateOutcomes == Both({"gateFinding", "declarationHas"}) @@ Refusal({"freezeBlocked"})
RecordViewOutcomes == Both({"recordView", "recordCounts"}) @@ Screen({"screenReads"})
                        @@ ("inventoryStraddle" :> "unread")
MethodOutcomes == Both({"upstreamRuleListed", "instrumentListed", "residualMix", "boundaryVersion"})
                    @@ Api({"noGateErrors"}) @@ Refusal({"dialogButtonDisabled"})
RunOutcomes == Both({"runListed", "runLine", "runExclusions", "runByGas", "reportHeader"})
ReportOutcomes == Both({"reportIntensity", "reportStatementHas"}) @@ Api({"csvHas", "inputsHas"})
                    @@ Refusal({"roleDisabled", "ruleDisabled", "optionWithheld"})
                    @@ Screen({"controlDisabled", "buttonsOffered"})
CorrectionOutcomes == Both({"reportHeaderSaved", "inventoryGwpSet", "inheritanceDropped", "runCount",
                            "reportCorrection", "inventoryHistoryHas"})
BaseYearOutcomes == Both({"baseYearReads", "noBaseYear", "candidateListed", "recalculationRunsOffered"})
DeletionOutcomes == Both({"reportBaseYearGwp", "factorAbsent"}) @@ Refusal({"deletionBlocked"})
EditionOutcomes == Both({"editionListed", "editionAbsent", "packRowReads", "editionValidation", "publishGate"})
BlastOutcomes == Both({"blastRadius", "editionMetadata", "noticeListed", "noticeDiff"})
NoticeOutcomes == Both({"updatesBadge", "organizationNotListed", "supportAccess"}) @@ Screen({"answersOffered"})
                    @@ Api({"reportCites"})

Outcomes == GeneralOutcomes @@ AccountOutcomes @@ SessionOutcomes @@ SettingsOutcomes @@ MemberOutcomes
              @@ StructureOutcomes @@ LibraryOutcomes @@ ImportOutcomes @@ RecordOutcomes @@ DocumentOutcomes
              @@ InventoryOutcomes @@ GateOutcomes @@ RecordViewOutcomes @@ MethodOutcomes @@ RunOutcomes @@ ReportOutcomes
              @@ CorrectionOutcomes @@ BaseYearOutcomes @@ DeletionOutcomes @@ EditionOutcomes @@ BlastOutcomes
              @@ NoticeOutcomes

\* Outcomes the UI driver also asks the API about, the mailbox among them.
CrossChecked ==
  {"userListed", "userAbsent", "userCount", "accessRequestStatus", "accessRequestsPending", "displayName",
   "platformRole", "settings", "settingHistoryHas", "settingHistoryCount", "platformSummary", "emailReceived",
   "noEmail", "organizationListed", "organizationAbsent", "memberListed", "memberAbsent", "historyHas",
   "historyCount", "entityListed", "entityAbsent", "facilityListed", "streamListed", "customUnitListed",
   "densityListed", "factorListed", "factorsEmpty", "activityCount", "activityRefs", "activityExists",
   "activityRemoved", "attentionCount", "evidenceListed", "sourceDocumentListed", "importBatchListed",
   "facilityAbsent"}

SeenBy(driver, o) ==
  CASE driver = "api" -> Outcomes[o] \in {"both", "api", "unread", "mailbox"}
    [] driver = "ui" -> Outcomes[o] \in {"both", "screen"} \/ (Outcomes[o] \in {"mailbox", "api"} /\ o \in CrossChecked)

\* A step that names the verb and expects what the verb itself promises.
StepOf(verb) ==
  [act |-> IF Verbs[verb].act = "page" THEN "reads" ELSE Verbs[verb].act,
   page |-> Verbs[verb].act = "page",
   expects |-> "effect",
   shown |-> {d \in {"api", "ui"} : \E o \in Verbs[verb].outcomes : SeenBy(d, o)}]
=============================================================================
