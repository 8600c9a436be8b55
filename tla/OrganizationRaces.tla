-------------------------- MODULE OrganizationRaces --------------------------
(***************************************************************************)
(* The members of one organization under concurrent requests.  A handler   *)
(* reads the caller's row, the member's row and the count of the owners,   *)
(* and writes the member's row at its commit (READ COMMITTED, no lock).    *)
(*                                                                         *)
(* Source: the member handlers of ghg/internal/GhgService.java and the     *)
(* unique constraint of V28.                                               *)
(***************************************************************************)
EXTENDS Naturals, FiniteSets

CONSTANTS
  Requests,   \* the connections serving requests at one time (a bound)
  Accounts,
  Roles,      \* the roles the form offers (a bound: OWNER and one other stand for all four)
  NotAMember

VARIABLES
  role,   \* the committed member rows
  tx      \* the write each request is about to commit

vars == <<role, tx>>

Idle == [does |-> "IDLE"]
Owners == {p \in Accounts : role[p] = "OWNER"}

Init ==
  /\ \E first \in Accounts : role = [p \in Accounts |-> IF p = first THEN "OWNER" ELSE NotAMember]
  /\ tx = [q \in Requests |-> Idle]

\* A request of the owner p about the account m, all its reads done and its guards passed.
Request(q, p, work) ==
  /\ tx[q] = Idle
  /\ role[p] = "OWNER"
  /\ tx' = [tx EXCEPT ![q] = work]
  /\ UNCHANGED role

AddMember(q, p, m, r) ==
  /\ role[m] = NotAMember
  /\ Request(q, p, [does |-> "INSERT", member |-> m, role |-> r])

\* Setting the role a member has writes nothing.
ChangeMemberRole(q, p, m, r) ==
  /\ role[m] \notin {NotAMember, r}
  /\ ~(role[m] = "OWNER" /\ r # "OWNER" /\ Cardinality(Owners) <= 1)
  /\ Request(q, p, [does |-> "UPDATE", member |-> m, role |-> r])

RemoveMember(q, p, m) ==
  /\ role[m] # NotAMember
  /\ ~(role[m] = "OWNER" /\ Cardinality(Owners) <= 1)
  /\ Request(q, p, [does |-> "DELETE", member |-> m, role |-> NotAMember])

\* A faulty variant of the commit, used by no definition: an update that inserts the row it does not find.
CommitUpserts(q) ==
  LET t == tx[q] IN
  /\ t # Idle
  /\ t.does = "INSERT" => role[t.member] = NotAMember
  /\ role' = [role EXCEPT ![t.member] = t.role]
  /\ tx' = [tx EXCEPT ![q] = Idle]

WritesRowOf(q, m) == tx[q] # Idle /\ tx[q].member = m /\ tx[q].does # "INSERT"

\* UNIQUE (organization_id, user_id); an update or a delete of a row that is gone fails, also when the
\* account has since been added again with a row of its own.
Commit(q) ==
  LET t == tx[q] IN
  /\ t # Idle
  /\ t.does = "INSERT" <=> role[t.member] = NotAMember
  /\ role' = [role EXCEPT ![t.member] = t.role]
  /\ tx' = [c \in Requests |->
              IF c = q \/ (t.does = "DELETE" /\ WritesRowOf(c, t.member)) THEN Idle ELSE tx[c]]

Abort(q) ==
  /\ tx[q] # Idle
  /\ tx' = [tx EXCEPT ![q] = Idle]
  /\ UNCHANGED role

Next ==
  \E q \in Requests :
    \/ \E p, m \in Accounts :
         \/ \E r \in Roles : AddMember(q, p, m, r) \/ ChangeMemberRole(q, p, m, r)
         \/ RemoveMember(q, p, m)
    \/ Commit(q)
    \/ Abort(q)

Spec == Init /\ [][Next]_vars

-----------------------------------------------------------------------------
\* Whatever overlaps, whoever enters the organization enters by addMember with the role it gave, and an
\* addition never rewrites the role of a member who is in already: a role change that commits after the
\* member's removal does not seat them again (spec 01.2).
MembersEnterByAddition ==
  [][\A m \in Accounts, q \in Requests :
       tx[q] # Idle /\ tx'[q] = Idle /\ role'[m] # role[m] =>
         (role[m] = NotAMember <=> tx[q] = [does |-> "INSERT", member |-> m, role |-> role'[m]])]_vars

\* specs/01.2: the last owner cannot be removed or demoted.  Two requests that each leave the other's
\* owner standing both count two owners before either commits.
OwnerRemains == Owners # {}
=============================================================================
