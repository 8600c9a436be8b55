# Carbonos, specified

Carbonos keeps greenhouse-gas inventories: organizations record activities, an
accountant draws a boundary and classifies the records, runs calculate the
emissions, a run is reviewed, signed and issued as a report. This directory holds
TLA+ models of the backend where that record is made and kept
(`src/backend/.../ghg/internal`), of the web client that shows it and offers the
acts (`src/frontend/src/features/ghg`), and of the QA procedures that exercise both
(`src/qa/src`); the TLC configurations that check them; and TLAPS proofs about
them. Java files below are of that backend package, `.ts` and `.tsx` files of the
client's or the QA's directory, unless a path says otherwise.

## 1. The system

### Components

| component | state it keeps | operations | talks to |
|---|---|---|---|
| inventory lifecycle (`InventoryService`, `Inventory`, `GhgRun`, `BoundaryVersion`) | a row per inventory (status, submission, signature, assignments of the sign-off, current version, pointer to its correction), the runs, the boundary versions | create, update, edit the view, freeze, reopen, launch, void, submit, return, assign, sign, withdraw, publish, correct, delete | asks *access* who may, *base year* whether it holds, tells *base year* of each version cut |
| membership and support access (`GhgAccess`, `GhgService`, `SupportAccessService`) | members with a role, support grants with a window, the organization's tombstone | add, change role, remove, assume, end, expire, remove the organization | every handler's first guard |
| base year and recalculation (`BaseYearService`, `BaseYear`, `BaseYearRecalculation`) | the designated inventory, the policy, the candidates with their decisions | designate, sweep, raise, decide, clear; weigh a version when it is cut | reads runs and versions; holds sign-off and publication |
| organization structure (`GhgService`: entities, facilities, streams) | the legal entities and their facilities | create, edit, divest, delete | boundaries cite it |
| boundary and activity view | boundary treatments, assignments, exclusions, instruments of one inventory | classify, review, exclude, set instruments | read by the gates and the runs |
| published report (`web/ReportAssembler`) | the stored report of a published inventory | snapshot after publication, assemble | a second transaction after *publish* |
| activity records and imports | records with numbers, revisions, batches, decisions | record, revise, approve, import | facts the views read |
| evidence | rows and files | attach, download, delete | database and object store |
| factor library (`EmissionFactor`, `GhgService`) | an organization's versions of each factor: dates, successor, approval, edits | edit, approve, retire | classifications point at versions; approvals hold views |
| factor pack editions (`FactorPackAdminService`, `FactorPackPublication`) | the editions of a pack family: rows, evidence, status, first day | write a draft, attach its source, publish, withdraw | a publication supersedes an edition and raises notices |
| factor pack adoption (`FactorPackAdoptionService`, `FactorPackImportService`, `EditionLock`) | a notice for each organization and edition | import, accept, decline | writes versions, moves open drafts, stopped by locked periods |
| run arithmetic (`LineMath`, `UnitConverter`) | none | pure functions | called by the launch |
| accounts, access requests, passwords | users, requests, tokens | register, approve, deny, reset | mail |
| web client: queries and mutations (`useGhg.ts`, `api.ts`) | a cache of the server's answers, the requests and calls under way | ask for a view, call, refresh what a call changed | the backend's API |
| web client: pages (`roles.ts`, `LifecycleBar`, `InventoryDetailPage`, ...) | the role, the rows and the report as last answered | enable or disable each control | the cache; the calls |
| QA procedures (`runtime`, `vocabulary`, `record`) | the state file of each driver's chain, the results of each run, the committed records | run a procedure through the API or the screen, record it, reset the stack | the product, as a whole |
| help, media, mail, exports, settings | | adapters and rendering | |

### What is hard here

* **Two requests at a time.** Every handler is one Spring transaction at READ
  COMMITTED. It loads rows, decides on them, and writes every column of what it
  changed when it commits. There is no version column and no row lock on
  inventories, so two requests that overlap each act on what they loaded. Only the
  unique constraints of the database see both.
* **A long protocol with many ways back.** Six requests lead out of review, each
  clearing columns; a column left behind shows only several requests later, in a
  published report.
* **Facts that move under a decision.** Factors lose approval, members change
  role, support access expires, candidates are raised between a submission, its
  signature and its publication.
* **Answers out of order.** A page shows what the server said some time ago. Its
  user's own calls, the requests for views, other users' acts and page changes
  overlap, and each hook lists by hand the views its call made out of date.
* **Rules written twice.** A page decides from its copy of the rows which controls
  work; the service decides again.
* **Tests about tests.** A QA run may be cut short, refused or run on a stack
  another run has used, and what it leaves behind is what a record certifies.
* **Vintages in any order.** Editions are published, corrected and withdrawn for days
  past and future, and each organization imports them when it likes, between edits of
  its own; every import cuts, fills or corrects versions that classifications use.
* **Things that must never change.** Published inventories, runs, versions and
  their numbers, through deletes that cascade and corrections of corrections.

`PROJECT.json` lists each hazard at its line with the property that covers it.

### What makes each component correct

* lifecycle: a signature is of the run that was put forward, by somebody else
  unless nobody else may, disclosed when not; the numbers never repeat; a run
  reads the view its version was cut with; a published inventory is a record;
* membership: an owner remains; nobody is seated but by addition;
* base year: no figure is put forward, signed or issued while a recalculation
  holds it; every structural change since the base year stays accounted for;
* client: once the user was told that something is saved, an idle page shows it, or
  says that it could not ask; what is shown never goes back; a page left open
  catches up;
* pages: an enabled control does what it says, and nobody is kept from an act that
  the server would accept;
* QA: a passed step says what the product did, a record is of a whole green run,
  two drivers' records that agree saw the same, and a run comes to its end;
* published report: the report stored is the one of the publication;
* factor packs: the versions of a row are one chain whichever way the vintages arrive,
  one importable edition stands for a day, an import prices its own days only and
  leaves a locked period's factor as it is;
* structure, records, evidence (later): what is cited is not deleted, numbers are
  dense, files and rows agree.

## 2. The modules

| module | models | stands on |
|---|---|---|
| `OrganizationAccess` | members, roles, support grants, the tombstone; the guards of every handler | |
| `InventoryState` | the rows of inventories, runs and versions, and the private helpers of `InventoryService` | `OrganizationAccess` |
| `InventoryLifecycle` | the handlers, one action each, and the properties of the lifecycle | `InventoryState` |
| `SignOff` | the abstract workflow of specs 05.2 and 05.8: put forward, sign, issue, take back | |
| `SignOffCase` | a row of the inventory read as a case of that workflow | |
| `InventorySignOff` | the refinement mapping from the lifecycle to `SignOff` | `InventoryLifecycle`, `SignOffCase`, instance of `SignOff` |
| `InventoryRaces` | the same handlers, each split into its load and its commit, over one inventory | |
| `InventoryRacesSignOff` | the mapping from overlapping requests to `SignOff`, and the two hypotheses they need to implement it | `InventoryRaces`, `SignOffCase`, instance of `SignOff` |
| `OrganizationRaces` | the member handlers, split the same way | |
| `BaseYear` | the recalculation candidates: weighing, put-backs, sweeps, decisions | |
| `ClientQueries` | which facts each view reads and each call changes, and which views each hook refreshes | |
| `ClientScreens` | which views and acts each page mounts; the views known to be left behind | `ClientQueries` |
| `ClientCache` | one view in the client's cache: pages, requests, calls, other users | |
| `InventoryOffers` | what each page offers its reader, next to what the server accepts | `InventoryLifecycle` |
| `QaVocabulary` | the verbs and outcomes of the procedures, reduced to the shape of a step | |
| `QaChain` | the chain of procedures by two drivers: runs, state files, results, records | |
| `FactorLineage` | the versions of one publication row, and what the import of an edition makes of them | |
| `FactorPacks` | the editions of a family, the notices and the imports of one organization, its edits and its inventories | `FactorLineage` |
| `InventoryRaceClaims`, `BaseYearClaims` | statements of the specs that the code does not keep | the `MC` modules |
| `InventoryLifecycleProofs`, `SignOffProofs`, `InventoryRacesProofs`, `OrganizationRacesProofs`, `BaseYearProofs`, `ClientCacheProofs`, `QaChainProofs`, `FactorPacksProofs` | the theorems; the first is about `InventoryOffers` too | their module, `TLAPS` |
| `MCInventoryLifecycle`, `MCInventoryRaces`, `MCOrganizationRaces`, `MCRaces`, `MCBaseYear`, `MCClientCache`, `MCQaChain`, `MCFactorPacks` | the small instances TLC checks; `MCRaces` puts the two races side by side, `MCClientCache` composes the cache with the pages and the queries, `MCQaChain` the chain with the vocabulary | |

### How they correspond to the code

**`OrganizationAccess`.** `role` is the table `ghg_organization_members` of one
organization, `grants` the open rows of `ghg_support_grants`, `removed` the
tombstone. `RoleIn` is `GhgAccess.roleIn`: a member's role first, then OWNER under
support access, and nothing in a removed organization. `AddMember`,
`ChangeMemberRole`, `RemoveMember`, `AssumeSupportAccess`, `EndSupportAccess` are
the handlers; `SupportAccessExpires` is the clock, which may run out at any
moment.

**`InventoryState` and `InventoryLifecycle`.** `inv[i]` is the row of
`ghg_inventories`, `runs` and `versions` the tables keyed by inventory and number.
An absent row has a status of its own. Each handler of `InventoryService` is an
action named after it; its conjuncts are the checks in the order of the code, and
a refusal is the action not being enabled. Three abstractions matter:

* *The gates.* `boundaryGateFailures`, `factorGateFailures` and `finalHolds` look
  at classifications, factors, densities and drafts. Here `holds[v]` says which of
  freezing, running and signing the facts on file stop for a view `v`, and
  `ChangeFacts` changes it at any time, as edits of records and factors do.
* *The view.* Boundary, assignments and exclusions are one opaque value. A run
  keeps the view its lines were made from, a version the one it was cut with. A
  constant names the views whose boundary holds no facility (`Unsited`) and, among
  them, those without any entity (`Unbounded`): the freeze refuses the second and not
  the first. A correction starts with the published view less what was removed from
  the organization since, which may be any view.
* *The base year.* `candidates` is the set of the kinds of recalculation candidate
  on file: undecided and above the threshold, undecided and below it, decided. A
  freeze may raise some and supersede others; `BaseYear` says which. A decision takes
  any candidate, one that was decided before too.

**`SignOff`.** Per inventory, a *case*: open, put forward, signed, issued, with
the run, who put it forward and who signed. It knows nothing of freezing, roles,
holds or base years. The mapping reads the final run once there is a signature,
because that is the run the report is made of: that it is still the one put
forward is what the refinement shows.

**`InventoryRaces`.** A request is a unit of work in `tx[q]`: the row it loaded,
the row its session holds, and the rows it will insert, void or delete. A launch
and a freeze read a second time after their guards (the last number, the
assignments). `Commit` writes the whole row, as the ORM does without
`@DynamicUpdate`; it needs the row to be there and the numbers not to clash, as
the foreign keys and the unique constraints of V9 and V22 demand. `Abort` stands
for every failure. Handlers that write no column another action looks at are one
action (`Update`). Submitting writes even when it repeats what is there, for its
timestamp.

**`OrganizationRaces`.** The reads of a handler are one step, its commit another;
the count of owners is stale in between. An update of a deleted row fails even if
the account was added again, for the new row has an identity of its own.

**`BaseYear`.** A boundary gives each facility a membership window or leaves it
out. `cut[i]` is the last version of inventory `i`, with whether it was cut while
the present base year was on file (the code compares the version's time stamp with
the base year's `getCreatedAt`). `Evaluate` is `evaluateStructuralChange`, with the hash order of
the changes as a choice; `Sweep` is `sweep`. A candidate's *reason* is the set of
changes it lists, and "f removed" is searched in that text, so a facility whose
name ends another's is found too (`Suffix`). A facility either emitted in the base
year or did not; how much, and the threshold, are left out. The base-year
inventory is signed, so neither its boundary nor its final run moves.

**`ClientQueries` and `ClientScreens`.** Three relations read off the client's code:
a view (a query key) *reads* facts, as the type of its answer in `api.ts` says; a
hook *writes* facts, as the call behind it does; a hook *refreshes* key prefixes, as
its `onSuccess` does. A hook *changes* a view when it writes a fact the view reads.
`ClientScreens` says which components a page mounts and which hooks they hold.
`LeftStale` is the list of the pairs where a hook changes a view of its own page and
leaves it as it was; each is named. Every view is checked of every hook: a pair outside
`LeftStale` owes its user the change, and a pair in it (an *excused* act) still happens, so
that what it does to the others' answers is checked.

**`ClientCache`.** One view: the answer the cache holds, the request under way, the
user's calls under way, and the server's version of what the view shows. The cache
is a library (TanStack Query), modelled from how `providers.tsx` configures it and the
hooks use it: stale after 30 s, one retry, an invalidated view on a page is asked for
again and the request under way dropped, unless it is the view's first. `told` is
what the user was told has been saved. One excused hook, `useSetOperationalBoundary`, puts
its call's answer in the place of the inventory's own and stops no request under way;
`placed` holds from there until the server is next read for that view, and that time alone
is set apart from the three properties. `MCClientCache` turns the pairs of the two modules
above into the views of the instance; views that the same kinds of act touch are one.

**`InventoryOffers`.** Each `...Offers` operator is the set of acts a component
enables, read from its conditions; each `...Accepts` operator asks whether the handler's
checks pass, the guard `May...` that the action of `InventoryLifecycle` or
`OrganizationAccess` begins with. `...Unseen` names the few reasons for a refusal that no page can
tell: the named preparer and approver, a hold on the figure, the last owner. `OfferedTo`
leaves out the four acts that the server takes and no page offers: settings after the
draft, a freeze of a boundary that holds entities and no facility, putting the run in
review forward again, and deciding a decided candidate again. Pages are
read up to date here, since an older answer is `ClientCache`'s subject, and reason
fields are taken as filled in.

**`QaVocabulary` and `QaChain`.** A verb of the vocabulary is reduced to what an
accepted act does to the rows (adds, removes, changes, reads), whether the page does it
without the API driver, and which drivers can tell that it took effect; an outcome to
which driver can observe it. A step of `QaChain` is such a shape and what closes it: an
effect, a refusal, a control withheld, or a capture alone (`measured`). The last one is
not asked whether its act was accepted, so that a refused one passes through the API; and
that a control is withheld is read from the page after the step, which says nothing of
the act. The product accepts or refuses any act. `acted`, `sound` and
`fresh` are ghosts: what the product really accepted, whether anything cut the run
short, and whether the stack held the chain before it and no more.

**`FactorLineage` and `FactorPacks`.** A *lineage* is the sequence of an organization's
versions of one publication row, in the order they were written; none is deleted. What
a version is priced at, with all its other facts, is one value. `Imported` is the part
of `importPack` that handles one row, with a disjunct for each of its rules: the first
version, a gap filled behind the earliest, an edited version left alone, the same
edition again, the same values tagged, a correction in place, a cut. `ImportPack` is
the whole method: the refusal while a locked period covers the edition's first day,
the import, the unique index of V42 that fails it whole, and the open drafts that
follow. `Publish` finds the edition it supersedes as `predecessorOf` does and raises the
organization's notice; `Accept` imports, `Decline` changes nothing, `Withdraw` closes
an open notice. An edition has one row or none, so that it may leave the code out. An
inventory is its status, its period and the version one of its classifications or
rules is pinned to; the guards of its moves are those of `InventoryLifecycle` and are
not repeated.

## 3. The runs

`CHECK_DEADLOCK FALSE` is in every configuration but `qa_chain` because the system
may really stop: everything is published and corrected, or the organization is
removed, or the bound on runs, versions or calls is reached.

No fairness is assumed of people: nobody has to make a request. Two specifications
have steps that no person takes.

* `ClientCache`: a request that was sent is read by the server (`WF` of `Read`) and
  its answer lands or it fails (`SF` of `Arrive`: a browser ends a request that
  hangs, and a user does not drop every one of them just before its answer lands, by
  calling again within that moment for ever). Calls, focus and page changes need
  never happen.
* `QaChain`: the test runner goes on with a run it has begun (`WF` of `RunStep`).
  Playwright runs the steps one after the other in one worker, ends a step at its
  timeout and calls `afterAll` whatever happened. Runs need not be started, and the
  process may die.

| run | what it asks | bounds |
|---|---|---|
| `lifecycle_signoff` | the sign-off under every change of members, roles and support access; the refinement of `SignOff` | three accounts, one of them an administrator; one inventory, two runs, one version |
| `lifecycle_versions` | freezing, reopening, running and voiding in every order | one owner, three views of which one straddles and one holds no facility, two versions, two runs |
| `lifecycle_records` | publication, corrections of corrections, deletion, removal of the organization, the base year's hold | one owner, three inventories of which the first may be the base year, one run and one version each; candidates above and below the threshold, decided or not |
| `races` | two overlapping requests on an inventory: rows written whole, numbers dense; or on the members: nobody enters but by addition | two accounts, two requests, two runs, two versions; three accounts, two roles |
| `base_year` | three versions weighed against the base year, before and after it is named | three facilities of which two emitted, two windows, one name ending another's, a second year under another approach |
| `client_cache` | own writes shown, never back, caught up with in the end, for every view of the pages | 24 kinds of view, two calls under way, two changes of the answer |
| `qa_chain` | what passed steps, results and records of two drivers say; a run ends | two procedures, two runs, steps of every shape the vocabulary has and one that only measures |
| `factor_packs` | the chain of versions, the succession of editions, what an import reaches, locked periods and open drafts | three editions over three days, two values, two administrators, three versions, one inventory with a period of two days |
| `factor_edits` | the chain of versions beside the versions people edit | two editions over two days, three versions of which two are edited at will |
| `race_voided_final`, `race_last_owner`, `base_year_removals` | a statement of a spec, violated | as small as the counterexample allows |

The three lifecycle runs also compare the pages' offers with the server's answers
in every state they reach. `OfferedIsAccepted` is in all three: the roles and the
sign-off in the first, the gates in the second, corrections and the base year in the
third. The other direction is stated of the steps the server takes: `ActsOnPeopleAreOffered`
in the first run, with its several people, and `ActsAreOffered` in the other two. Both are
theorems as well.

Why these bounds are enough to mean something:

* Who may sign depends on the submitter, one other approver and one who is neither;
  an administrator outside the organization is the third account. Two roles above
  and one below the approval line are offered; a verifier writes nothing.
* Two runs are the smallest number in which the run submitted, the run voided and
  the run launched in review can differ. Two versions are the smallest in which a
  run's version can be an old one.
* A chain of corrections needs a published inventory, its published correction
  and a third; a deleted correction that is created again uses the same three.
* Overlap is a matter of pairs: an update from a stale read, against one other
  commit. The theorems of `InventoryRacesProofs` and
  `OrganizationRacesProofs` carry these properties to any number of requests.
* In the base year, two facilities that emitted are needed for one candidate to
  name two removals; a third one that came later tells additions from put-backs.
  Three versions allow a removal, a return and something after it.
* In the cache, one call's refresh has to meet another's, a request under way and an
  act of somebody else: two calls and two changes of the answer. The theorems carry
  the safety properties to any number of both.
* In the QA chain a second procedure is the first to depend on another's state
  file, and a second run is the first on a used stack: the same procedure again, or the
  next, or the other driver's. Two records to compare take one run of each
  driver.
* A late vintage needs a version on each side of its day: three days and three
  versions. Three editions allow a correction of one day, or a withdrawal between
  two publications, next to the edition that was seeded. A period of the first two days
  has vintages at its start, within it and after it; the property asks nothing of an
  edition from before it. The theorems carry the chain and the succession to any number of all of these.

The bounds themselves are `MaxRuns`, `MaxVersions`, `OfferedRoles`, `Treatments`,
`Bases`, `Unsited` and `Unbounded` and, in `BaseYear`, `Drafts`, `Later` and `MaxVersions`. The properties of
one module were spread over several runs, where a run only keeps the dimension its
properties need. Accounts are symmetric where no constant tells them apart, and so
are the requests and, in `lifecycle_records`, the two later years. That run
keeps the base year at one inventory; that a held figure stays where it moves is one of
the theorems. `MaxVersion` and `MaxCalls` bound the cache, `MaxRuns` and `Last`
the QA chain. In the factor packs they are `MaxDrafts`, `MaxVersions`, `Curators` (one
administrator writes, the other publishes) and `Handled` (the versions people edit
or approve: none in `factor_packs`, two in `factor_edits`, which has no inventory);
`Bounded` lets one edition be withdrawn or declined and has the seeded one apply from the
first day with an approved row. In `races` one half of the state stays as it began while the other
works: no handler writes both tables, so nothing is lost.

### What the violated runs show

1. `race_voided_final`. A void loads the inventory while its run is only one of
   several, a submission and a sign-off of that run commit, and the void commits: the
   final run is voided. `voidRun` writes the run's row only, so nothing notices.
2. `race_last_owner`. Two owners leave, or are demoted, at once: each request
   counts two.
3. `base_year_removals`. Two facilities are removed by one version, one is put
   back by the next: the candidate that names both is superseded whole, and the
   other facility's removal holds nothing any more.

Each is a finding in `PROJECT.json` with the sentence it goes against. Other ways in
which the code is known to go wrong have no run of their own and are listed as
hazards with the steps that lead there: a request that loaded the row before a
publication commits over it; a run launched before a reopen is signed although
its lines are held; saving the policy flags a removal twice; a launch or a freeze leaves
the history card of its own page as it was; an import of an edition from before a locked
period closes or corrects the version that period uses. Two acts go further on the server than on
its pages: a boundary that treats entities and holds no facility is frozen
(`InventoryService.java:702`) where the workbench disables the control (`LifecycleBar.tsx:138`),
and a decided candidate is decided again (`BaseYearService.java:173`) where the history shows
no buttons for it (`BaseYearPage.tsx:431`); `OfferedTo` sets both apart. One control of the modelled
pages does not look at the role: the list of inventories shows its Delete enabled to a
verifier (`InventoriesPage.tsx:113`), the server refuses it, and `OfferedIsAccepted` sets
this control apart for such a reader.

## 4. The proofs

TLC checks small instances. The theorems below hold for any number of accounts,
inventories, requests, runs, versions and facilities. They assume the named
assumptions on the constants in the modules (the null values are not members of
the sets they stand beside, bounds are naturals, the offered roles are roles), and
nothing else unless said.

**`InventoryLifecycleProofs`.** The properties are not inductive by themselves. A
withdrawal clears the submission of whatever row it finds, so one must know that a
frozen row has no final run; a void compares numbers, so one must know that a
number names one run. The argument has two layers.

* `Base` types the tables and says that each row is *tidy*: status, submission,
  signature, disclosure and correction pointer agree within the row. Each handler
  maps a tidy row to a tidy row (the lemmas on rows), hence `TypeCorrect`,
  `SignOffIsWhole` and `SelfApprovalsAreDisclosed`.
* `Tables`, inductive over `Base`, relates rows to the other tables: the submitted
  run is on file and not voided, the version of a frozen row is on file with the
  row's view, a run reads the view of its version, numbers are unique. `RowEffect`
  lists once what any request can do to any row, and each part of `Tables` is
  proved against that list. It gives `SubmissionsStand`, `NumbersStayUnique` and
  `RunsReadTheirVersions`.

The action properties (`SignaturesAreAnothers`, `HeldFiguresAreHeld`,
`PublicationsAreRecords`, `RunsStayOnRecord`) follow from the two and one case per
handler. `SignaturesAreAnothers` also needs `OwnersRemain`: an administrator under
support access cannot sign their own submission because some owner by membership
could. `CorrectionsNeverCycle` is an invariant of its own: a correction is a row
that was absent, which nothing points to.

That the pages lock nobody out (`ServerActsAreOffered`, `ServerActsOnPeopleAreOffered`) follows,
act by act, from the handler's guard to the control's condition. One fact closes the distance: the
page reads the rights of a role where the server reads the member's row or the support grant
(`RightsAreShown`). The acts that `OfferedTo` sets apart are set apart in the theorem too.

That the server accepts what they enable (`OffersAreAccepted`) goes the other way, from the control's
condition to the handler's guard. The rights a role shows are rights the server grants
(`RightsShownAreHeld`), and a run in review is not voided, which the page does not look at and the
handler does (`Tables`).

`SignedRunsReadTheViewWhereCurrent` has a hypothesis that the code does not ensure: only runs of the
inventory's current version are put forward (`SubmitsCurrentVersion`). Then the run that is signed
read the view on file, and the holds the sign-off looked at were those of its own lines. The version
of a submitted run stays the current one until the submission is withdrawn (`SubmittedRunIsCurrent`),
and a cut version carries the view on file (`Tables`). On the instance of `lifecycle_versions` TLC
finds an earlier version's run signed without the hypothesis, and no counterexample with it.

**`SignOffProofs`.** Every step of the lifecycle is a step of `SignOff` or leaves
it alone. It needs `Base`, `Tables` and that numbers stay within the bound the
abstract specification is given.

**`InventoryRacesProofs`.** `RowIsWhole` is inductive only with the rows the
requests hold in memory, because a commit writes such a row however old it is.
Numbers stay dense because what a request is about to insert follows a number that
is still on file (`InFlight`); an insert that does not clash is then the next one.
Both hold for any number of overlapping requests.

Three more theorems are about what overlapping requests do break. Each has a hypothesis
that the code does not ensure, named for the one overlap that does the harm, and says that
every other one is harmless, so that a lock taken there would be enough:

* `FinalRunStandsWhereVoidsKeepApart`: a voided run is not final, if no run is voided
  beside a request about to write a row that puts it forward (`VoidsApart`). What is invariant is
  that the row on file and every row about to be written put forward no voided run, and that a
  void leaves a row that does not name the run it voids (`Submissions`).
* `PublicationsStandWhereAlone`: nothing of a published inventory changes, if nothing else was
  under way beside its publication (`PublishesAlone`), because no handler begins on a published
  row (`Settled`).
* `RunsReadVersionsWhereEditsAreAlone`: a run reads the view of its version, if nothing
  overlaps an edit of the view (`EditsAlone`). Freezes, launches, reopens and stale updates may
  overlap as they like: whatever row a request holds, the version it names was cut from the view
  as it is, or the request cuts one itself (`Carries`).

A fourth, `OverlapsImplementSignOff`, is the refinement of `SignOff` by overlapping requests, with
two hypotheses: whatever a request writes, it decided on the row that is still on file at its
commit (`CommitsAreFresh`), and `VoidsApart`. Each unit of work keeps what its handler decided
about the row it loaded (`Decided`: the case moves, a launch, or a void), and the run a row puts
forward is on file (`Named`), so a commit on the row it loaded is the step of the workflow that
was decided. Neither hypothesis is enough alone. A stale withdrawal reverses a publication that no
void overlaps; and a void that commits first leaves the row as a submission of the same run loaded
it. A version column checked where the row is written would stop the first and not the second, nor
the void of `race_voided_final`, for a void of a run not put forward writes no column of the row:
voids and launches would have to check the version, and voids to raise it.

With two requests and each hypothesis as a constraint TLC finds no counterexample to the
four, and without the hypothesis it finds one to each. The hypotheses leave overlap in
place: a signed inventory with a voided run, a second void and an update under way are
reached under `VoidsApart`.

**`OrganizationRacesProofs`.** `EntryIsByAddition`: the commit of an update needs the row it
loaded, so no overlap seats anybody who was not added. `OwnerRemainsWithoutOverlap`
is the other half of `race_last_owner`: where no two requests about to take an owner's role away
overlap (`OneDeparture`), an owner remains, because another one stands beside the one
that a pending request takes away (`AnotherStands`). It assumes finitely many accounts, for the code
counts them, and that having no role is not being an owner.

**`BaseYearProofs`.** Two facts about the candidates on file carry the rest: they
exist only under a base year and name versions that were cut, and once a year has
one its last version counts as measured, so that the next freeze is weighed
against it and no earlier removal is lost. What a freeze and a sweep do to the
candidates is stated once (`EvaluateEffect`, `SweepEffect`).
`NoChangeGoesUnseen` has the hypothesis `OneApproach`: each year is drawn up under
one consolidation approach. Without it the statement is false of the code (a version
measured under another approach becomes the baseline of one that is comparable),
which `PROJECT.json` lists as a hazard. `RemovalsNamedAloneCount` is the other half of
`base_year_removals`: while no candidate names two removals (`OneRemovalEach`) and no
facility's name ends another's (`NamesApart`), each facility that a weighed year leaves out has a
candidate that was not superseded, because what a freeze supersedes is a removal of a
facility it puts back (`FreezeSpares`).

**`ClientCacheProofs`.** A view that lacks a change its user was told of is not
itself an invariant of anything; what is invariant is that it is *mended*: it is being
asked for, by a request that will read no less than the user was told, or it is
marked so that the next mount asks (`Mended`). An excused hook that puts its own answer in the
view's place breaks that, and the next reading of the server restores it (`ReadMends`), so the
invariant is `Mended` outside the time that `placed` marks. The hypothesis `HooksDoTheirPart` says
that a hook that changes the view refreshes it and does not put its own answer in its
place, the excused acts apart; every view of `MCClientCache` meets it, the inventory's own
included, and `CacheTypes` does without it. `CacheShowsOwnWrites` and `CacheNeverGoesBack` follow for
any number of calls and changes.

**`QaChainProofs`.** Three layers, each resting on the one before. A run that nothing
cut short has ended every step before the one it is at, and one that began in the
middle never ends the first (`Whole`), so results that look like a whole green run are
of one. What is in place during a clean run is of the chain so far and of the steps the
run had accepted (`Passing`), so a check that reads the stack reads the run's own act.
For `CleanPairsAgree` the stack is counted (`Counted`): where a chain only adds, and expects
each addition to take effect, its rows are the additions in place; the API's driver has every
one of them in place, the screen's driver none beside them, so two equal counts leave no room
for a difference. A chain with an addition that only a capture closes is set apart: there the
API may pass one that was refused, and the counts may cancel out. The
one assumption beyond the constants' types is that a procedure has a step, which the
scenario schema demands.

**`FactorPacksProofs`.** That a lineage is one chain is inductive only
with what holds beside it while the organization edits versions of its own (`InOrder`):
starts are unique, no version ends before it begins, successors are on file, and a
version of the publisher's that nothing superseded is open (`Sound`); and no two of the
publisher's share a day (`Apart`). A cut and a fill are one operation, a version
spliced in before the next one (`SplicedSound`, `SplicedChain`); where it goes is settled by
what the lookups return (`SubjectFacts`, `NoSubjectFacts`), which choose the latest or the
earliest of some versions and find one because starts are days (`LeastExists`,
`LatestFacts`). `OneVintageEach` needs the order of publication: where an edition stands
on the day of an importable one, it was published before it (`Succession`), so the next
publication for that day supersedes the importable one.

What an import does to the prices is compared through one lookup, the version a day is in
force of (`LastBegun`): an import reprices a version in place, splices one in, or changes no
price at all (`Repriced`, `Inserted`, `ImportedOutcome`), and each of them moves the version in
force only on days that its edition's day reaches (`Reaches`). `ImportsStayInTheirVintage`
is that for each day. For `PeriodsKeepFactors` the versions of earlier days stand as they are
(`EarlierDaysStand`), which a locked period's is (`LockedPeriodStands`), and a draft whose version
was cut moves on to the piece that covers its day (`DraftStaysCovered`). All of it holds for any
number of editions, days, versions and inventories, beyond the bounds of the runs.

Some theorems state what no run checks by itself: `NumbersStayUnique`, `OwnersRemain` (of
requests that do not overlap), `RacesTypeCorrect` and `CacheInvariant`, on which others rest, and the seven
with a hypothesis on the behaviour, which say how far the code keeps what it does not keep throughout.

What is only model-checked: liveness under fairness (`OwnWritesArrive`, `RunsClose`), which is out of
the prover's reach. The three claims of the violation runs are false of the code and have
the conditional theorems above instead.

## 5. What is not modelled

* The gates and holds from the inside, the arithmetic of a run and the drawing up
  of a boundary: the lifecycle sees only which acts they stop and which view they
  produced. A change of the straddle treatment while frozen is in the model, and
  that it moves a gate under a frozen inventory is a hazard without a property.
* The stored report, which a second transaction writes after the publication; the
  audit lines; the report header.
* Entities, facilities and streams; activity records, imports and evidence; accounts;
  settings. The plan below takes most of them up.
* In the factor packs, an edition's metadata, the validation of its rows, its change log
  and trail, the figures of a notice, the candidate for a recalculation that an
  acceptance raises, the roles of the tenant, and the rows of other codes; two requests at
  a time, so that an inventory frozen between the lock's read and the import's commit is
  a hazard noted and not covered. Factors entered by hand, blends and the search.
* Mail, media, exports, the help centre: adapters and rendering.
* In the web client, the forms and tables from the inside (a form sends the whole
  record it was opened with), the accounts' and settings' pages, and a dialog left
  open on an older answer: `InventoryOffers` reads pages that are up to date, `ClientCache`
  says when they are, and nothing composes the two.
* In the QA procedures, the mailbox, captured counts and changed passwords, and the
  product itself, which accepts or refuses any act.
* In `BaseYear`, percentages and thresholds, candidates raised by hand, and a base
  year that is moved to another inventory.
* In `InventoryRaces`, corrections and the base year: requests that write the row
  of another inventory.

## 6. The plan

Done: the lifecycle with its access rules, the sign-off's abstract specification
and refinement, the races on one inventory and on the members, the base year, the
client's cache, its pages' offers, the QA chain, the factor packs, and proofs about all of
them: every safety and action property of a passing run is a theorem.
To come, the most important first:

1. **Published report.** Publication, the snapshot transaction that may fail, the
   live assembly in its place; the report stored is the one of the publication.
   Composes with `InventoryLifecycle`.
2. **Organization structure.** Entities, facilities and streams with the deletions
   that what cites them must stop; the equity chain as a recursive function,
   checked against the product along the path. Theorem: no cited facility is
   deleted.
3. **Activity records and imports.** Numbers under the row lock of the
   organization, drafts, revisions, the import's preview and its commit as two
   requests. Theorem: record numbers are dense for any number of requests.
4. **More of the factor packs.** The import split into its load and its commit beside
   the freeze of an inventory; the answer to the recalculation question, composed
   with `BaseYear`.
5. **Boundary and activity view.** The inside of `EditView` and of the gates, in
   place of `holds`.
6. **Evidence** (rows and files), **accounts** (an access request decided twice),
   and the coverage of instruments in `LineMath` over small integers.
7. More of what the models already hold: a base-year inventory that moves, a year
   that changes its approach, the claims whose hazards have no property yet (an
   earlier version's run signed, a factor that loses its approval between the
   signature and the publication, a recalculated base whose run is voided).
