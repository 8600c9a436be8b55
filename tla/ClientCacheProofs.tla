-------------------------- MODULE ClientCacheProofs --------------------------
(***************************************************************************)
(* What the cache guarantees of every view whose hooks do their part:      *)
(* whatever is answered is shown, and nothing older comes back.            *)
(***************************************************************************)
EXTENDS ClientCache, TLAPS

\* A hook that changes a view refreshes it and does not put its own answer in the view's place, the excused
\* hooks apart.
HooksDoTheirPart ==
  \A view \in Views : \A act \in view :
    /\ ~act.excused => ~act.stores
    /\ act.affects /\ ~act.excused => act.refreshes

InOrder ==
  /\ TypeOK
  /\ watched \in Views
  /\ told <= version /\ entry.version <= version /\ fetch.version <= version
  /\ \A call \in calls : call.act \in watched /\ call.version <= version

\* What a request has read is no older than what the view holds and what its user was told of; a view that
\* lacks a told change is being asked for, or will be when a page shows it again.
Mended ==
  /\ fetch.stage = "read" => fetch.version >= told /\ fetch.version >= entry.version
  /\ entry.version < told /\ fetch = Idle =>
       /\ entry.stale \/ entry.failed \/ ~Loaded
       /\ shown => entry.failed

\* An excused hook's own answer may break that until the server is read again.
CacheInv == InOrder /\ (~placed => Mended)

-----------------------------------------------------------------------------
\* The cache starts in the invariant.
LEMMA CacheInit == Init => CacheInv
  <1> SUFFICES ASSUME Init PROVE CacheInv
    OBVIOUS
  <1> USE CacheAssumption DEF Init, Versions, Nothing
  <1>1. watched \in Views /\ watched \subseteq Act /\ version \in Versions /\ told \in Versions
    OBVIOUS
  <1>2. entry \in Entry /\ entry.version = -1 /\ ~entry.stale
    BY DEF Entry
  <1>3. fetch \in Fetch /\ fetch.stage = "idle" /\ fetch.version = 0
    BY DEF Fetch, Idle
  <1>4. TypeOK
    BY <1>1, <1>2, <1>3 DEF TypeOK
  <1>5. InOrder
    BY <1>1, <1>2, <1>3, <1>4 DEF InOrder
  <1>6. Mended
    BY <1>1, <1>2, <1>3 DEF Mended, Loaded
  <1> QED
    BY <1>5, <1>6 DEF CacheInv

\* What keeps the versions in order: everything new was the server's, and no call is added.
LEMMA StaysInOrder ==
  ASSUME InOrder, UNCHANGED watched, shown' \in BOOLEAN, version' \in Versions, version' >= version,
         entry' \in Entry, entry'.version <= version, fetch' \in Fetch, fetch'.version <= version,
         told' \in Versions, told' <= version, calls' \subseteq calls, placed' \in BOOLEAN
  PROVE  InOrder'
  <1> USE CacheAssumption DEF InOrder, TypeOK, Versions
  <1>1. TypeOK' /\ watched' \in Views
    OBVIOUS
  <1>2. told' <= version' /\ entry'.version <= version' /\ fetch'.version <= version'
    BY DEF Entry, Nothing, Fetch
  <1>3. ASSUME NEW call \in calls' PROVE call.act \in watched' /\ call.version <= version'
    <2>1. call \in calls /\ call.version \in Versions
      BY DEF Call
    <2> QED BY <2>1
  <1> QED BY <1>1, <1>2, <1>3

\* No step puts a version ahead of the server's.
LEMMA InOrderStep == InOrder /\ [Next]_vars => InOrder'
  <1> SUFFICES ASSUME InOrder, [Next]_vars PROVE InOrder'
    OBVIOUS
  <1>0. /\ watched \in Views /\ watched \subseteq Act /\ shown \in BOOLEAN
        /\ version \in Versions /\ told \in Versions /\ told <= version
        /\ entry \in Entry /\ entry.version <= version /\ fetch \in Fetch /\ fetch.version <= version
        /\ calls \subseteq Call
        /\ \A call \in calls : call.act \in watched /\ call.version <= version
        /\ version <= version /\ MaxVersion \in Nat
    BY CacheAssumption DEF InOrder, TypeOK, Versions
  <1>i. Idle \in Fetch /\ Sent \in Fetch /\ Idle.version <= version /\ Sent.version <= version
    BY <1>0 DEF Fetch, Idle, Sent, Versions
  <1>p. placed' \in BOOLEAN
    <2>1. placed \in BOOLEAN
      BY DEF InOrder, TypeOK
    <2>2. placed' = placed \/ placed' \in BOOLEAN
      BY DEF Next, vars, Open, Focus, Leave, Age, Read, Arrive, FetchFails, Send, Commit, Succeed, Fail, OthersAct
    <2> QED BY <2>1, <2>2
  <1>1. CASE Open \/ Focus \/ Leave
    <2>1. UNCHANGED <<watched, version, entry, calls, told>> /\ shown' \in BOOLEAN
      BY <1>0, <1>1 DEF Open, Focus, Leave
    <2>2. fetch' \in Fetch /\ fetch'.version <= version
      BY <1>0, <1>1, <1>i DEF Open, Focus, Leave, Asked
    <2> QED BY <1>0, <2>1, <2>2, <1>p, StaysInOrder
  <1>2. CASE Age
    <2>1. UNCHANGED <<watched, shown, version, fetch, calls, told>>
      BY <1>2 DEF Age
    <2>2. entry' \in Entry /\ entry'.version = entry.version
      BY <1>0, <1>2 DEF Age, Entry
    <2> QED BY <1>0, <2>1, <2>2, <1>p, StaysInOrder
  <1>3. CASE Read
    <2>1. UNCHANGED <<watched, shown, version, entry, calls, told>>
      BY <1>3 DEF Read
    <2>2. fetch' \in Fetch /\ fetch'.version <= version
      BY <1>0, <1>3 DEF Read, Fetch
    <2> QED BY <1>0, <2>1, <2>2, <1>p, StaysInOrder
  <1>4. CASE Arrive
    <2>1. UNCHANGED <<watched, shown, version, calls, told>> /\ fetch' = Idle
      BY <1>4 DEF Arrive
    <2>2. fetch.version \in Versions /\ fetch.version <= version /\ entry' = Answered(fetch.version)
      BY <1>0, <1>4 DEF Arrive, Fetch
    <2>3. entry' \in Entry /\ entry'.version = fetch.version
      BY <2>2 DEF Answered, Entry
    <2> QED BY <1>0, <1>i, <2>1, <2>2, <2>3, <1>p, StaysInOrder
  <1>5. CASE FetchFails
    <2>1. UNCHANGED <<watched, shown, version, calls, told>> /\ fetch' = Idle
      BY <1>5 DEF FetchFails
    <2>2. entry' \in Entry /\ entry'.version = entry.version
      BY <1>0, <1>5 DEF FetchFails, Entry
    <2> QED BY <1>0, <1>i, <2>1, <2>2, <1>p, StaysInOrder
  <1>6. CASE OthersAct
    <2>1. UNCHANGED <<watched, shown, entry, fetch, calls, told>>
      BY <1>6 DEF OthersAct
    <2>2. version' \in Versions /\ version' >= version
      BY <1>0, <1>6 DEF OthersAct, Versions
    <2> QED BY <1>0, <2>1, <2>2, <1>p, StaysInOrder
  <1>7. ASSUME NEW act \in watched, Send(act) PROVE InOrder'
    <2> DEFINE new == [act |-> act, committed |-> FALSE, version |-> 0]
    <2>1. new \in Call /\ new.act \in watched /\ new.version <= version
      BY <1>0 DEF Call, Versions
    <2>2. calls' = calls \cup {new} /\ UNCHANGED <<watched, shown, version, entry, fetch, told>>
      BY <1>7 DEF Send
    <2> HIDE DEF new
    <2>3. calls' \subseteq Call /\ \A call \in calls' : call.act \in watched /\ call.version <= version
      BY <1>0, <2>1, <2>2
    <2> QED BY <1>0, <1>p, <2>2, <2>3 DEF InOrder, TypeOK
  <1>8. ASSUME NEW call \in calls, Commit(call) PROVE InOrder'
    <2> DEFINE done == [call EXCEPT !.committed = TRUE, !.version = version']
    <2>1. version' \in Versions /\ version' >= version
      BY <1>0, <1>8 DEF Commit, Versions
    <2>2. call \in Call /\ call.act \in watched
      BY <1>0
    <2>3. done \in Call /\ done.act \in watched /\ done.version = version'
      BY <2>1, <2>2 DEF Call
    <2>4. calls' = (calls \ {call}) \cup {done} /\ UNCHANGED <<watched, shown, entry, fetch, told>>
      BY <1>8 DEF Commit
    <2> HIDE DEF done
    <2>5. ASSUME NEW c \in calls' PROVE c \in Call /\ c.act \in watched /\ c.version <= version'
      <3>1. CASE c = done
        BY <2>1, <2>3, <3>1 DEF Versions
      <3>2. CASE c \in calls
        <4>1. c \in Call /\ c.act \in watched /\ c.version <= version /\ c.version \in Versions
          BY <1>0, <3>2 DEF Call
        <4> QED BY <1>0, <2>1, <4>1 DEF Versions
      <3> QED BY <2>4, <3>1, <3>2
    <2>6. told' <= version' /\ entry'.version <= version' /\ fetch'.version <= version'
      BY <1>0, <2>1, <2>4 DEF Versions, Entry, Nothing, Fetch
    <2> QED BY <1>0, <1>p, <2>1, <2>4, <2>5, <2>6 DEF InOrder, TypeOK
  <1>9. ASSUME NEW call \in calls, Succeed(call) PROVE InOrder'
    <2>1. call.version \in Versions /\ call.version <= version
      BY <1>0 DEF Call
    <2>2. Answered(call.version) \in Entry /\ Answered(call.version).version = call.version
      BY <2>1 DEF Answered, Entry
    <2>3. entry' \in Entry /\ entry'.version <= version
      BY <1>0, <1>9, <2>1, <2>2 DEF Succeed, Marked, Entry
    <2>4. fetch' \in Fetch /\ fetch'.version <= version
      BY <1>0, <1>9, <1>i DEF Succeed, Restarted
    <2>5. told' \in Versions /\ told' <= version
      BY <1>0, <1>9, <2>1 DEF Succeed
    <2>6. UNCHANGED <<watched, shown, version>> /\ calls' \subseteq calls
      BY <1>9 DEF Succeed
    <2> QED BY <1>0, <2>3, <2>4, <2>5, <2>6, <1>p, StaysInOrder
  <1>10. ASSUME NEW call \in calls, Fail(call) PROVE InOrder'
    <2>1. UNCHANGED <<watched, shown, version, entry, fetch, told>> /\ calls' \subseteq calls
      BY <1>10 DEF Fail
    <2> QED BY <1>0, <2>1, <1>p, StaysInOrder
  <1>11. CASE UNCHANGED vars
    BY <1>0, <1>11, <1>p, StaysInOrder DEF vars
  <1> QED BY <1>1, <1>2, <1>3, <1>4, <1>5, <1>6, <1>7, <1>8, <1>9, <1>10, <1>11 DEF Next

\* The answer of a call: the told change is in the view, or the view is asked for after it; an excused hook
\* that puts its answer in the view's place leaves its mark.
LEMMA SucceedMends ==
  ASSUME HooksDoTheirPart, InOrder, ~placed', Mended, NEW call \in calls, Succeed(call)
  PROVE  Mended' /\ entry'.version = entry.version
  <1> USE CacheAssumption DEF InOrder, TypeOK, Versions, Entry, Fetch, Idle, Sent, Nothing, Loaded
  <1>0. ~(call.act.stores /\ call.act.excused) /\ call.act \in watched /\ watched \in Views /\ call \in Call
    BY DEF Succeed
  <1>1. /\ call.version \in Versions
        /\ ~call.act.stores
        /\ call.act.affects /\ ~call.act.excused => call.act.refreshes
    BY <1>0 DEF HooksDoTheirPart, Call
  <1>2. /\ entry'.version = entry.version /\ entry'.failed = entry.failed
        /\ IF call.act.refreshes THEN entry'.stale ELSE entry' = entry
    BY <1>1 DEF Succeed, Marked
  <1>3. fetch' = IF call.act.refreshes /\ shown /\ (Loaded \/ fetch = Idle) THEN Sent ELSE fetch
    BY DEF Succeed, Restarted
  <1>4. told' = told \/ (told' = call.version /\ call.act.refreshes /\ (fetch = Idle \/ (shown /\ Loaded)))
    BY <1>1 DEF Succeed, Owed, Overtaken
  <1>5. UNCHANGED shown
    BY DEF Succeed
  <1>6. CASE told' = told
    BY <1>2, <1>3, <1>5, <1>6 DEF Mended
  <1>7. CASE call.act.refreshes /\ (fetch = Idle \/ (shown /\ Loaded))
    BY <1>2, <1>3, <1>5, <1>7 DEF Mended
  <1> QED BY <1>2, <1>4, <1>6, <1>7

\* The reading of the server mends whatever was placed: what it read is as new as anything told or shown.
LEMMA ReadMends == ASSUME InOrder, Read PROVE Mended' /\ entry' = entry
  BY CacheAssumption DEF InOrder, TypeOK, Versions, Entry, Idle, Nothing, Mended, Read

\* A view that is behind stays mended, and no step takes a view back, but for an answer put in its place.
LEMMA MendedStep ==
  ASSUME HooksDoTheirPart, InOrder, ~placed => Mended, ~placed', [Next]_vars
  PROVE  Mended' /\ entry'.version >= entry.version
  <1> USE CacheAssumption DEF InOrder, TypeOK, Versions, Entry, Fetch, Idle, Sent, Nothing, Loaded
  <1>1. CASE Read
    BY <1>1, ReadMends
  <1>2. CASE ~Read
    <2>1. ~placed
      BY <1>2 DEF Next, vars, Open, Focus, Leave, Age, Arrive, FetchFails, Send, Commit, Succeed, Fail, OthersAct
    <2>2. Mended
      BY <2>1
    <2>3. CASE Open \/ Focus \/ Leave
      BY <2>2, <2>3 DEF Mended, Open, Focus, Leave, Asked
    <2>4. CASE Age
      BY <2>2, <2>4 DEF Mended, Age
    <2>5. CASE Arrive
      BY <2>2, <2>5 DEF Mended, Arrive, Answered
    <2>6. CASE FetchFails
      BY <2>2, <2>6 DEF Mended, FetchFails
    <2>7. CASE UNCHANGED <<shown, entry, fetch, told>>
      BY <2>2, <2>7 DEF Mended
    <2>8. CASE \E call \in calls : Succeed(call)
      <3>1. PICK call \in calls : Succeed(call)
        BY <2>8
      <3>2. Mended' /\ entry'.version = entry.version
        BY <2>2, <3>1, SucceedMends
      <3> QED BY <3>2
    <2>9. CASE OthersAct \/ (\E act \in watched : Send(act)) \/ (\E call \in calls : Commit(call) \/ Fail(call))
      BY <2>7, <2>9 DEF OthersAct, Send, Commit, Fail
    <2> QED BY <1>2, <2>3, <2>4, <2>5, <2>6, <2>7, <2>8, <2>9 DEF Next, vars
  <1> QED BY <1>1, <1>2

LEMMA CacheStep == ASSUME HooksDoTheirPart, CacheInv, [Next]_vars PROVE CacheInv'
  BY InOrderStep, MendedStep DEF CacheInv

\* The inductive invariant holds in every reachable state, whatever the views.
THEOREM CacheInvariant == ASSUME HooksDoTheirPart PROVE Spec => []CacheInv
  <1>1. CacheInv /\ [Next]_vars => CacheInv'
    BY CacheStep
  <1> QED BY CacheInit, <1>1, PTL DEF Spec

\* The cache keeps its types (the hooks of useGhg.ts over the query cache).
THEOREM CacheTypes == Spec => []TypeOK
  <1>1. Init => InOrder
    BY CacheInit DEF CacheInv
  <1>2. InOrder => TypeOK
    BY DEF InOrder
  <1> QED BY InOrderStep, <1>1, <1>2, PTL DEF Spec

\* A settled view that a page shows holds every change its user was told of, whichever hook made it; only from
\* an excused hook's own answer to the next reading of the server nothing is promised.
THEOREM CacheShowsOwnWrites == ASSUME HooksDoTheirPart PROVE Spec => []OwnWritesShown
  <1>1. CacheInv => OwnWritesShown
    BY CacheAssumption DEF CacheInv, InOrder, TypeOK, Entry, Versions, Nothing, Mended, OwnWritesShown
  <1> QED BY CacheInvariant, <1>1, PTL

\* What a page shows never goes back to an older answer, that same time set apart.
THEOREM CacheNeverGoesBack == ASSUME HooksDoTheirPart PROVE Spec => NeverBack
  <1>1. CacheInv /\ [Next]_vars => [~placed' => entry'.version >= entry.version]_vars
    BY MendedStep DEF CacheInv
  <1> QED BY CacheInvariant, <1>1, PTL DEF Spec, NeverBack
=============================================================================
