-------------------------------- MODULE Tenancy ---------------------------------
(***************************************************************************)
(* The members of one organization and their roles: OrganizationService,   *)
(* and the deletion of an account, which ends its membership.  Each        *)
(* request reads, awaits and writes: what it read may be out of date when  *)
(* it writes.                                                              *)
(***************************************************************************)
EXTENDS Integers, FiniteSets

CONSTANTS
  People,       \* users; one of them made the organization
  Founder,
  Asks          \* requests handled at once, each one after the other

Nobody == "nobody"
ASSUME TenancyAssumption ==
  /\ IsFiniteSet(People) /\ Founder \in People /\ Nobody \notin People

VARIABLES
  people,     \* users who have an account
  role,       \* role[u] in the organization, none for who is not a member
  ask         \* ask[k]: a request, where it stands and what it has read

tenancyVars == <<people, role, ask>>

MemberRoles == {"OWNER", "ADMIN", "MEMBER"}   \* DEVELOPER, MEMBER and VIEWER: alike here
Owners == {u \in People : role[u] = "OWNER"}
Errands == {"add", "change", "remove"}
Stops == {"idle", "count", "write"}
Asked(errand, at, who, as) ==
  [errand |-> errand, at |-> at, who |-> who, as |-> as, owners |-> {}]
NoAsk == Asked("add", "idle", Nobody, "none")

TenancyInit ==
  /\ people = People
  /\ role = [u \in People |-> IF u = Founder THEN "OWNER" ELSE "none"]
  /\ ask = [k \in Asks |-> NoAsk]

TenancyTypeOK ==
  /\ people \subseteq People
  /\ role \in [People -> MemberRoles \cup {"none"}]
  /\ ask \in [Asks -> [errand : Errands, at : Stops, who : People \cup {Nobody},
                       as : MemberRoles \cup {"none"}, owners : SUBSET People]]

-------------------------------------------------------------------------------
Waits(k, stop) == ask[k].at = stop
Comes(k, request) == Waits(k, "idle") /\ ask' = [ask EXCEPT ![k] = request]
Leaves(k) == ask' = [ask EXCEPT ![k] = NoAsk]
OnlyAsk == UNCHANGED <<people, role>>

(* checkPermission.                                                        *)
Manages(u) == u \in people /\ role[u] \in {"OWNER", "ADMIN"}

(* addMember: anybody who manages may give any role.                       *)
AskAdd(k, u, v, r) ==
  /\ Manages(u) /\ v \in people
  /\ Comes(k, Asked("add", "write", v, r)) /\ OnlyAsk

(* updateMemberRole: the owners are counted unless the new role is OWNER.  *)
AskChange(k, u, v, r) ==
  /\ Manages(u)
  /\ Comes(k, Asked("change", IF r = "OWNER" THEN "write" ELSE "count", v, r)) /\ OnlyAsk

(* removeMember: a member may always ask to leave.                         *)
AskRemove(k, u, v) ==
  /\ u \in people /\ (u # v => Manages(u))
  /\ Comes(k, Asked("remove", "count", v, "none")) /\ OnlyAsk

(* Mutant: the last owner is not looked for.                               *)
CountOwners_Not(k) ==
  /\ Waits(k, "count")
  /\ ask' = [ask EXCEPT ![k].at = "write", ![k].owners = Owners]
  /\ OnlyAsk

(* Cannot remove the last owner; cannot change the role of the last owner. *)
CountOwners(k) ==
  /\ Waits(k, "count")
  /\ IF Owners = {ask[k].who} THEN Leaves(k)
     ELSE ask' = [ask EXCEPT ![k].at = "write", ![k].owners = Owners]
  /\ OnlyAsk

(* A member is added once (the unique index); a change or a removal of a   *)
(* member who is gone fails.                                               *)
WriteMember(k) ==
  /\ Waits(k, "write")
  /\ LET v == ask[k].who IN
       IF v \in people /\ (ask[k].errand = "add" <=> role[v] = "none")
       THEN role' = [role EXCEPT ![v] = ask[k].as]
       ELSE UNCHANGED role
  /\ Leaves(k)
  /\ UNCHANGED people

(* DELETE /gdpr/delete-account: every membership goes with the account,    *)
(* the last owner's too.                                                   *)
DeleteAccount(u) ==
  /\ u \in people
  /\ people' = people \ {u}
  /\ role' = [role EXCEPT ![u] = "none"]
  /\ UNCHANGED ask

TenancyNext ==
  \/ \E k \in Asks, u, v \in People, r \in MemberRoles : AskAdd(k, u, v, r) \/ AskChange(k, u, v, r)
  \/ \E k \in Asks, u, v \in People : AskRemove(k, u, v)
  \/ \E k \in Asks : CountOwners(k) \/ WriteMember(k)
  \/ \E u \in People : DeleteAccount(u)

TenancySpec == TenancyInit /\ [][TenancyNext]_tenancyVars

-------------------------------------------------------------------------------
Writes(k) == Waits(k, "write") /\ ask'[k] = NoAsk

(* An organization does not lose its last owner (updateMemberRole and      *)
(* removeMember refuse it), unless with the account or by a request that   *)
(* another one overtook: the owners it counted are not those it met.       *)
LastOwnerKept ==
  [][(Owners # {} /\ \A u \in People : role'[u] # "OWNER") =>
        \/ people' # people
        \/ \E k \in Asks : Writes(k) /\ ask[k].owners # Owners]_tenancyVars
===============================================================================
