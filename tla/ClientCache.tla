---------------------------- MODULE ClientCache ----------------------------
(***************************************************************************)
(* One view of the web client: an answer of the server kept in the query   *)
(* cache, while its user acts, others act, pages come and go, and requests *)
(* are slow, lost or refused.                                              *)
(*                                                                         *)
(* Source: the mutation hooks of frontend/src/features/ghg/useGhg.ts over  *)
(* the query cache of app/providers.tsx. The cache itself is a library:    *)
(*  - a view is asked for when a page mounts it, and again when it is      *)
(*    mounted or the window takes the focus while it is stale (30 s old,   *)
(*    or invalidated);                                                     *)
(*  - invalidating a mounted view asks for it again and drops the request  *)
(*    under way, unless that one is its first;                             *)
(*  - a request outlives the page that made it; a failed one keeps what    *)
(*    the view had.                                                        *)
(*                                                                         *)
(* A version stands for what the server would answer: it moves when an act *)
(* changes something the view shows.                                       *)
(***************************************************************************)
EXTENDS Integers, FiniteSets

CONSTANTS
  Views,        \* a view is the set of acts that touch it, as records of Act
  MaxVersion,   \* how often the view's answer changes
  MaxCalls      \* how many of the user's own calls are under way at once

\* affects: the act changes what the view shows; refreshes: its hook invalidates the view; stores: its
\* hook puts the call's answer in the cache; excused: the hook is known to leave the view as it was;
\* here: offered on a page that shows the view; away: offered on one that does not.
Act == [affects : BOOLEAN, refreshes : BOOLEAN, stores : BOOLEAN, excused : BOOLEAN, here : BOOLEAN, away : BOOLEAN]

ASSUME CacheAssumption == Views \subseteq SUBSET Act /\ MaxVersion \in Nat /\ MaxCalls \in Nat

VARIABLES
  watched,   \* the view
  shown,     \* a mounted page shows it
  version,   \* the server's version of it
  entry,     \* what the cache holds
  fetch,     \* the request under way for it
  calls,     \* the user's own calls under way
  told,      \* the newest version the user was told had been written
  placed     \* an excused hook put its own answer in the view's place, and the server was not read since

vars == <<watched, shown, version, entry, fetch, calls, told, placed>>

Nothing == -1     \* the cache holds no answer yet
Versions == 0..MaxVersion
Entry == [version : Versions \cup {Nothing}, stale : BOOLEAN, failed : BOOLEAN]
Fetch == [stage : {"idle", "sent", "read"}, version : Versions]
Call == [act : Act, committed : BOOLEAN, version : Versions]

Idle == [stage |-> "idle", version |-> 0]
Sent == [stage |-> "sent", version |-> 0]
UnflaggedAnswer(v) == [version |-> v, stale |-> FALSE]
Answered(v) == [version |-> v, stale |-> FALSE, failed |-> FALSE]
Loaded == entry.version # Nothing

Init ==
  /\ watched \in Views
  /\ shown = FALSE
  /\ version = 0
  /\ entry = [version |-> Nothing, stale |-> FALSE, failed |-> FALSE]
  /\ fetch = Idle
  /\ calls = {}
  /\ told = 0
  /\ placed = FALSE

-----------------------------------------------------------------------------
(* Pages. *)

\* A mount or the focus asks for a view that is missing or stale, unless it is being asked for.
Asked == IF fetch = Idle /\ (~Loaded \/ entry.stale \/ entry.failed) THEN Sent ELSE fetch

Open ==
  /\ ~shown
  /\ shown' = TRUE
  /\ fetch' = Asked
  /\ UNCHANGED <<watched, version, entry, calls, told, placed>>

\* The window takes the focus, or another page that shows the view replaces this one.
Focus ==
  /\ shown
  /\ fetch' = Asked
  /\ UNCHANGED <<watched, shown, version, entry, calls, told, placed>>

Leave ==
  /\ shown
  /\ shown' = FALSE
  /\ UNCHANGED <<watched, version, entry, fetch, calls, told, placed>>

Age ==
  /\ Loaded
  /\ entry' = [entry EXCEPT !.stale = TRUE]
  /\ UNCHANGED <<watched, shown, version, fetch, calls, told, placed>>

-----------------------------------------------------------------------------
(* The request for the view. *)

Read ==
  /\ fetch.stage = "sent"
  /\ fetch' = [stage |-> "read", version |-> version]
  /\ placed' = FALSE
  /\ UNCHANGED <<watched, shown, version, entry, calls, told>>

Arrive ==
  /\ fetch.stage = "read"
  /\ entry' = Answered(fetch.version)
  /\ fetch' = Idle
  /\ UNCHANGED <<watched, shown, version, calls, told, placed>>

\* The request and its one retry failed.
FetchFails ==
  /\ fetch # Idle
  /\ entry' = [entry EXCEPT !.failed = TRUE]
  /\ fetch' = Idle
  /\ UNCHANGED <<watched, shown, version, calls, told, placed>>

-----------------------------------------------------------------------------
(* Calls. *)

\* A hook's own call is not repeated while it is under way: its button is busy.
Send(act) ==
  /\ IF shown THEN act.here ELSE act.away
  /\ Cardinality(calls) < MaxCalls
  /\ \A call \in calls : call.act # act
  /\ calls' = calls \cup {[act |-> act, committed |-> FALSE, version |-> 0]}
  /\ UNCHANGED <<watched, shown, version, entry, fetch, told, placed>>

Commit(call) ==
  /\ ~call.committed
  /\ call.act.affects => version < MaxVersion
  /\ version' = IF call.act.affects THEN version + 1 ELSE version
  /\ calls' = (calls \ {call}) \cup {[call EXCEPT !.committed = TRUE, !.version = version']}
  /\ UNCHANGED <<watched, shown, entry, fetch, told, placed>>

\* The first request of a view is never dropped: what it read before the act arrives after it. Nor is one
\* that a page left under way.
Overtaken == fetch # Idle /\ ~(shown /\ Loaded)
Owed(call) == call.act.affects /\ ~call.act.excused /\ ~Overtaken

\* The entry after the answer of a call: the answer itself, or the mark that the view is out of date.
Marked(call) ==
  LET e == IF call.act.stores THEN Answered(call.version) ELSE entry
  IN  IF call.act.refreshes THEN [e EXCEPT !.stale = TRUE] ELSE e

\* Invalidating a mounted view asks for it again at once.
Restarted(call) == IF call.act.refreshes /\ shown /\ (Loaded \/ fetch = Idle) THEN Sent ELSE fetch

Succeed(call) ==
  /\ call.committed
  /\ calls' = calls \ {call}
  /\ entry' = Marked(call)
  /\ fetch' = Restarted(call)
  /\ told' = IF Owed(call) /\ call.version > told THEN call.version ELSE told
  /\ placed' = (placed \/ (call.act.stores /\ call.act.excused))
  /\ UNCHANGED <<watched, shown, version>>

\* Refused, or its answer lost after it was written: the hooks refresh nothing.
Fail(call) ==
  /\ calls' = calls \ {call}
  /\ UNCHANGED <<watched, shown, version, entry, fetch, told, placed>>

OthersAct ==
  /\ version < MaxVersion
  /\ version' = version + 1
  /\ UNCHANGED <<watched, shown, entry, fetch, calls, told, placed>>

Next ==
  \/ Open \/ Focus \/ Leave \/ Age
  \/ Read \/ Arrive \/ FetchFails
  \/ \E act \in watched : Send(act)
  \/ \E call \in calls : Commit(call) \/ Succeed(call) \/ Fail(call)
  \/ OthersAct

\* A request is answered in the end, or fails: the browser ends one that hangs. An answer takes far less than
\* a user's next act, so a user does not drop every request just before its answer lands. Nothing is assumed
\* of the users: calls, focus and page changes need never happen.
Fairness == WF_vars(Read) /\ SF_vars(Arrive)

Spec == Init /\ [][Next]_vars
FairSpec == Spec /\ Fairness

-----------------------------------------------------------------------------
TypeOK ==
  /\ watched \subseteq Act /\ shown \in BOOLEAN /\ version \in Versions
  /\ entry \in Entry /\ fetch \in Fetch /\ calls \subseteq Call /\ told \in Versions /\ placed \in BOOLEAN

\* A view a page shows and nothing is asking for holds every change its user was told of, whatever the
\* order in which calls, refreshes, other users' acts and page changes happened - unless asking again
\* failed, which the page can tell. Set apart is the time between an excused hook's putting its own answer
\* in the view's place and the next reading of the server: such a hook does not stop a request under way,
\* whose older answer then replaces the newer one, and it may itself answer late.
OwnWritesShown ==
  ~placed /\ shown /\ fetch = Idle => entry.version >= told \/ entry.failed

\* What a page shows never goes back to an older answer, that same time set apart.
NeverBack == [][~placed' => entry'.version >= entry.version]_vars

\* A page left open while its user's own change is missing from it comes to show it, or to say that it
\* could not be asked for.
OwnWritesArrive ==
  (~placed /\ shown /\ entry.version < told)
    ~> (~shown \/ entry.version >= told \/ (fetch = Idle /\ entry.failed))
=============================================================================
