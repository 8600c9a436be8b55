----------------------- MODULE OrganizationRacesProofs -----------------------
(***************************************************************************)
(* Proofs about OrganizationRaces, for any accounts, roles and number of   *)
(* requests at a time: how members enter, and what overlap it takes to     *)
(* leave an organization without an owner.                                 *)
(***************************************************************************)
EXTENDS OrganizationRaces, FiniteSetTheorems, TLAPS

\* A write a request is about to commit.
Write ==
  [does : {"INSERT", "UPDATE", "DELETE"}, member : Accounts, role : Roles \cup {NotAMember}]

RaceTypes ==
  /\ role \in [Accounts -> Roles \cup {"OWNER", NotAMember}]
  /\ tx \in [Requests -> Write \cup {Idle}]

LEMMA WriteFacts ==
  ASSUME NEW w \in Write
  PROVE  /\ w # Idle /\ w.member \in Accounts /\ w.role \in Roles \cup {NotAMember}
         /\ w = [does |-> w.does, member |-> w.member, role |-> w.role]
<1>1. w.does # "IDLE" /\ Idle.does = "IDLE"
  BY DEF Write, Idle
<1> QED BY <1>1 DEF Write

LEMMA RequestTypes ==
  ASSUME RaceTypes, NEW q \in Requests, NEW p, NEW w \in Write, Request(q, p, w)
  PROVE  RaceTypes'
BY DEF RaceTypes, Request

LEMMA RaceTypesStep ==
  ASSUME RaceTypes, [Next]_vars
  PROVE  RaceTypes'
<1>1. ASSUME NEW q \in Requests, NEW p \in Accounts, NEW m \in Accounts, NEW r \in Roles, AddMember(q, p, m, r)
      PROVE  RaceTypes'
  BY <1>1, RequestTypes DEF AddMember, Write
<1>2. ASSUME NEW q \in Requests, NEW p \in Accounts, NEW m \in Accounts, NEW r \in Roles, ChangeMemberRole(q, p, m, r)
      PROVE  RaceTypes'
  BY <1>2, RequestTypes DEF ChangeMemberRole, Write
<1>3. ASSUME NEW q \in Requests, NEW p \in Accounts, NEW m \in Accounts, RemoveMember(q, p, m)
      PROVE  RaceTypes'
  BY <1>3, RequestTypes DEF RemoveMember, Write
<1>4. ASSUME NEW q \in Requests, Commit(q)
      PROVE  RaceTypes'
  <2>1. tx[q] \in Write
    BY <1>4 DEF Commit, RaceTypes
  <2>2. role' = [role EXCEPT ![tx[q].member] = tx[q].role] /\ tx[q].role \in Roles \cup {NotAMember}
    BY <1>4, <2>1, WriteFacts DEF Commit
  <2>3. role' \in [Accounts -> Roles \cup {"OWNER", NotAMember}]
    BY <2>2 DEF RaceTypes
  <2>4. tx' \in [Requests -> Write \cup {Idle}]
    BY <1>4 DEF Commit, RaceTypes
  <2> QED BY <2>3, <2>4 DEF RaceTypes
<1>5. ASSUME NEW q \in Requests, Abort(q)
      PROVE  RaceTypes'
  BY <1>5 DEF Abort, RaceTypes
<1>6. CASE UNCHANGED vars
  BY <1>6 DEF vars, RaceTypes
<1> QED BY <1>1, <1>2, <1>3, <1>4, <1>5, <1>6 DEF Next

\* In every reachable state the member rows and the pending writes are of their types.
THEOREM RaceTyped == Spec => []RaceTypes
<1>1. Init => RaceTypes
  BY DEF Init, RaceTypes
<1>2. RaceTypes /\ [Next]_vars => RaceTypes'
  BY RaceTypesStep
<1> QED BY <1>1, <1>2, PTL DEF Spec

-----------------------------------------------------------------------------
(* Entering. *)

\* Only a commit writes a row, and only its own member's.
LEMMA OnlyCommitsWrite ==
  ASSUME RaceTypes, Next, NEW m \in Accounts, role'[m] # role[m]
  PROVE  \E c \in Requests : Commit(c) /\ tx[c] \in Write /\ tx[c].member = m /\ role'[m] = tx[c].role
<1>1. \A q, p, w : Request(q, p, w) => UNCHANGED role
  BY DEF Request
<1>2. PICK c \in Requests : Commit(c)
  BY <1>1 DEF Next, AddMember, ChangeMemberRole, RemoveMember, Abort
<1>3. tx[c] \in Write
  BY <1>2 DEF Commit, RaceTypes
<1>4. role' = [role EXCEPT ![tx[c].member] = tx[c].role]
  BY <1>2 DEF Commit
<1>5. tx[c].member = m /\ role'[m] = tx[c].role
  BY <1>4 DEF RaceTypes
<1> QED BY <1>2, <1>3, <1>5

\* However many requests overlap, whoever enters enters by an addition with the role it gave, and no addition
\* rewrites a member's role: neither a late role change nor a late removal seats anybody (addMember,
\* changeMemberRole and removeMember of GhgService).
THEOREM EntryIsByAddition == Spec => MembersEnterByAddition
<1> DEFINE Enters == \A m \in Accounts, q \in Requests :
                       tx[q] # Idle /\ tx'[q] = Idle /\ role'[m] # role[m] =>
                         (role[m] = NotAMember <=> tx[q] = [does |-> "INSERT", member |-> m, role |-> role'[m]])
<1>1. ASSUME RaceTypes, Next PROVE Enters
  <2> SUFFICES ASSUME NEW m \in Accounts, NEW q \in Requests, tx[q] # Idle, tx'[q] = Idle, role'[m] # role[m]
               PROVE  role[m] = NotAMember <=> tx[q] = [does |-> "INSERT", member |-> m, role |-> role'[m]]
    OBVIOUS
  <2>1. PICK c \in Requests : Commit(c) /\ tx[c] \in Write /\ tx[c].member = m /\ role'[m] = tx[c].role
    BY <1>1, OnlyCommitsWrite
  <2>2. tx[c].does = "INSERT" <=> role[m] = NotAMember
    BY <2>1 DEF Commit
  <2>3. CASE q = c
    <3>1. tx[c] = [does |-> tx[c].does, member |-> m, role |-> role'[m]]
      BY <2>1, WriteFacts
    <3> QED BY <2>2, <2>3, <3>1
  <2>4. CASE q # c
    <3>1. tx[c].does = "DELETE" /\ WritesRowOf(q, m)
      BY <2>1, <2>4 DEF Commit
    <3> QED BY <2>2, <3>1 DEF WritesRowOf
  <2> QED BY <2>3, <2>4
<1>2. RaceTypes /\ [Next]_vars => [Enters]_vars
  BY <1>1
<1> QED BY <1>2, RaceTyped, PTL DEF Spec, MembersEnterByAddition

-----------------------------------------------------------------------------
(* The last owner. *)

\* A request about to take the role of an owner away.
Departs(q) ==
  tx[q] # Idle /\ tx[q].does # "INSERT" /\ tx[q].role # "OWNER" /\ role[tx[q].member] = "OWNER"

\* What the handlers do not ensure: at most one of them at a time.
OneDeparture == \A c, d \in Requests : Departs(c) /\ Departs(d) => c = d

\* Beside the owner that a pending request takes the role of stands another.
AnotherStands ==
  \A q \in Requests : Departs(q) => \E p \in Accounts : p # tx[q].member /\ role[p] = "OWNER"

OwnerInv == RaceTypes /\ (\E p \in Accounts : role[p] = "OWNER") /\ AnotherStands

\* The count the guards read (countByOrganizationIdAndRole): more than one owner is another owner.
LEMMA AnotherOwner ==
  ASSUME IsFiniteSet(Accounts), NEW m \in Accounts, ~(Cardinality(Owners) <= 1)
  PROVE  \E p \in Accounts : p # m /\ role[p] = "OWNER"
<1> SUFFICES ASSUME Owners \subseteq {m} PROVE FALSE
  BY DEF Owners
<1>1. IsFiniteSet({m}) /\ Cardinality({m}) = 1
  BY FS_Singleton
<1>2. Cardinality(Owners) <= 1
  BY <1>1, FS_Subset
<1> QED BY <1>2

\* A request that would take an owner's role away has counted another owner when it is written down.
LEMMA AnotherStandsAtRequest ==
  ASSUME OwnerInv, NEW q \in Requests, NEW p, NEW w \in Write, Request(q, p, w),
         w.does # "INSERT" /\ w.role # "OWNER" /\ role[w.member] = "OWNER" =>
           \E o \in Accounts : o # w.member /\ role[o] = "OWNER"
  PROVE  OwnerInv'
<1>1. RaceTypes'
  BY RequestTypes DEF OwnerInv
<1>2. role' = role /\ tx' = [tx EXCEPT ![q] = w] /\ tx \in [Requests -> Write \cup {Idle}]
  BY DEF Request, OwnerInv, RaceTypes
<1>3. tx'[q] = w /\ \A c \in Requests : c # q => tx'[c] = tx[c]
  BY <1>2
<1>4. ASSUME NEW c \in Requests, Departs(c)'
      PROVE  \E o \in Accounts : o # tx'[c].member /\ role'[o] = "OWNER"
  <2>1. CASE c = q
    BY <1>2, <1>3, <1>4, <2>1 DEF Departs
  <2>2. CASE c # q
    BY <1>2, <1>3, <1>4, <2>2 DEF Departs, OwnerInv, AnotherStands
  <2> QED BY <2>1, <2>2
<1>5. AnotherStands'
  BY <1>4 DEF AnotherStands
<1> QED BY <1>1, <1>2, <1>5 DEF OwnerInv

\* A commit takes an owner's role away only where another owner stands, who cannot be leaving as well.
LEMMA OwnerStandsAfterCommit ==
  ASSUME OwnerInv, OneDeparture, NotAMember # "OWNER", NEW q \in Requests, Commit(q)
  PROVE  OwnerInv'
<1> DEFINE t == tx[q]
           m == t.member
<1>1. RaceTypes /\ RaceTypes'
  BY RaceTypesStep DEF OwnerInv, Next
<1>2. t \in Write /\ m \in Accounts
  BY <1>1, WriteFacts DEF Commit, RaceTypes
<1>3. role'[m] = t.role /\ \A p \in Accounts : p # m => role'[p] = role[p]
  BY <1>1, <1>2 DEF Commit, RaceTypes
<1>4. \A c \in Requests : tx'[c] = Idle \/ (c # q /\ tx'[c] = tx[c])
  BY DEF Commit
<1> HIDE DEF m
<1>5. CASE role[m] = "OWNER" /\ t.role # "OWNER"
  <2>1. Departs(q)
    BY <1>5 DEF Commit, Departs, m
  <2>2. PICK o \in Accounts : o # m /\ role[o] = "OWNER"
    BY <2>1 DEF OwnerInv, AnotherStands, m
  <2>3. role'[o] = "OWNER"
    BY <1>3, <2>2
  <2>4. ASSUME NEW c \in Requests, Departs(c)'
        PROVE  FALSE
    <3>1. tx'[c] # Idle /\ tx'[c].does # "INSERT" /\ tx'[c].role # "OWNER" /\ role'[tx'[c].member] = "OWNER"
      BY <2>4 DEF Departs
    <3>2. c # q /\ tx'[c] = tx[c] /\ tx[c] \in Write
      BY <1>1, <1>4, <3>1 DEF RaceTypes
    <3>3. tx[c].member \in Accounts /\ tx[c].member # m
      BY <1>3, <1>5, <3>1, <3>2, WriteFacts
    <3>4. Departs(c)
      BY <1>3, <3>1, <3>2, <3>3 DEF Departs
    <3> QED BY <2>1, <3>2, <3>4 DEF OneDeparture
  <2> QED BY <1>1, <2>3, <2>4 DEF OwnerInv, AnotherStands
<1>6. CASE role[m] # "OWNER" \/ t.role = "OWNER"
  <2>1. \A p \in Accounts : role[p] = "OWNER" => role'[p] = "OWNER"
    BY <1>3, <1>6
  <2>2. ASSUME NEW c \in Requests, Departs(c)'
        PROVE  \E o \in Accounts : o # tx'[c].member /\ role'[o] = "OWNER"
    <3>1. tx'[c] # Idle /\ tx'[c].does # "INSERT" /\ tx'[c].role # "OWNER" /\ role'[tx'[c].member] = "OWNER"
      BY <2>2 DEF Departs
    <3>2. tx'[c] = tx[c] /\ tx[c] # Idle
      BY <1>4, <3>1
    <3>3. CASE role[tx[c].member] = "OWNER"
      <4>1. Departs(c)
        BY <3>1, <3>2, <3>3 DEF Departs
      <4> QED BY <2>1, <3>2, <4>1 DEF OwnerInv, AnotherStands
    <3>4. CASE role[tx[c].member] # "OWNER"
      BY <2>1, <3>2, <3>4 DEF OwnerInv
    <3> QED BY <3>3, <3>4
  <2> QED BY <1>1, <2>1, <2>2 DEF OwnerInv, AnotherStands
<1> QED BY <1>5, <1>6

\* The last owner can be lost to overlapping requests only: while no two requests that each take an owner's
\* role away are in flight together, whatever else overlaps, an owner remains.  The count that guards
\* changeMemberRole and removeMember is right, and what it lacks is a lock.
THEOREM OwnerRemainsWithoutOverlap ==
  ASSUME IsFiniteSet(Accounts), NotAMember # "OWNER"
  PROVE  Spec /\ []OneDeparture => []OwnerRemains
<1>1. Init => OwnerInv
  <2> SUFFICES ASSUME Init PROVE OwnerInv
    OBVIOUS
  <2>1. RaceTypes /\ \E p \in Accounts : role[p] = "OWNER"
    BY DEF Init, RaceTypes
  <2>2. AnotherStands
    BY DEF Init, AnotherStands, Departs
  <2> QED BY <2>1, <2>2 DEF OwnerInv
<1>2. OwnerInv /\ OneDeparture /\ [Next]_vars => OwnerInv'
  <2> SUFFICES ASSUME OwnerInv, OneDeparture, [Next]_vars PROVE OwnerInv'
    OBVIOUS
  <2>1. ASSUME NEW q \in Requests, NEW p \in Accounts, NEW m \in Accounts, NEW r \in Roles, AddMember(q, p, m, r)
        PROVE  OwnerInv'
    <3> DEFINE w == [does |-> "INSERT", member |-> m, role |-> r]
    <3>1. w \in Write /\ w.does = "INSERT" /\ Request(q, p, w)
      BY <2>1 DEF AddMember, Write
    <3> HIDE DEF w
    <3> QED BY <3>1, AnotherStandsAtRequest
  <2>2. ASSUME NEW q \in Requests, NEW p \in Accounts, NEW m \in Accounts, NEW r \in Roles,
               ChangeMemberRole(q, p, m, r)
        PROVE  OwnerInv'
    <3> DEFINE w == [does |-> "UPDATE", member |-> m, role |-> r]
    <3>1. w \in Write /\ w.member = m /\ w.role = r /\ Request(q, p, w)
      BY <2>2 DEF ChangeMemberRole, Write
    <3>2. r # "OWNER" /\ role[m] = "OWNER" => \E o \in Accounts : o # m /\ role[o] = "OWNER"
      BY <2>2, AnotherOwner DEF ChangeMemberRole
    <3> HIDE DEF w
    <3> QED BY <3>1, <3>2, AnotherStandsAtRequest
  <2>3. ASSUME NEW q \in Requests, NEW p \in Accounts, NEW m \in Accounts, RemoveMember(q, p, m)
        PROVE  OwnerInv'
    <3> DEFINE w == [does |-> "DELETE", member |-> m, role |-> NotAMember]
    <3>1. w \in Write /\ w.member = m /\ Request(q, p, w)
      BY <2>3 DEF RemoveMember, Write
    <3>2. role[m] = "OWNER" => \E o \in Accounts : o # m /\ role[o] = "OWNER"
      BY <2>3, AnotherOwner DEF RemoveMember
    <3> HIDE DEF w
    <3> QED BY <3>1, <3>2, AnotherStandsAtRequest
  <2>4. ASSUME NEW q \in Requests, Commit(q)
        PROVE  OwnerInv'
    BY <2>4, OwnerStandsAfterCommit
  <2>5. ASSUME NEW q \in Requests, Abort(q)
        PROVE  OwnerInv'
    <3>1. RaceTypes'
      BY <2>5, RaceTypesStep DEF OwnerInv, Next
    <3>2. role' = role /\ \A c \in Requests : tx'[c] = Idle \/ tx'[c] = tx[c]
      BY <2>5 DEF Abort, OwnerInv, RaceTypes
    <3>3. AnotherStands'
      BY <3>2 DEF AnotherStands, Departs, OwnerInv
    <3> QED BY <3>1, <3>2, <3>3 DEF OwnerInv
  <2>6. CASE UNCHANGED vars
    BY <2>6 DEF vars, OwnerInv, RaceTypes, AnotherStands, Departs
  <2> QED BY <2>1, <2>2, <2>3, <2>4, <2>5, <2>6 DEF Next
<1>3. OwnerInv => OwnerRemains
  BY DEF OwnerInv, OwnerRemains, Owners
<1> QED BY <1>1, <1>2, <1>3, PTL DEF Spec
=============================================================================
