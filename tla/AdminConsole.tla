---------------------------- MODULE AdminConsole ---------------------------
(***************************************************************************)
(* The administrators' accounts, roles and permissions                     *)
(* (apps/admin_dashboard/services.py, permissions.py, serializers.py,      *)
(* views.py, models.py).                                                   *)
(*                                                                         *)
(* No handler runs in a transaction.  What it reads before its first write *)
(* (authentication, permission, the row it fetches, validation) is one     *)
(* step, its writes another; two handlers may be between them.  Of an      *)
(* account's columns, role and is_staff follow from is_superuser for every *)
(* administrator (User.save) and are left out, so all accounts here pass   *)
(* user_is_admin_dashboard_user while they are active.                     *)
(***************************************************************************)
EXTENDS Integers, FiniteSets

CONSTANTS
  Admins,          \* accounts that are, or may become, administrators'
  SuperRole,       \* the role super_admin
  SystemRoles, CustomRoles,
  Perms,           \* AdminPermission rows; all stay active
  PermSets,        \* the sets of permissions a role may be given
  DefaultPerms,    \* DEFAULT_ROLES: [SystemRoles -> SUBSET Perms]
  AdminRequests,   \* handlers at a time
  FirstAdmins,     \* states to start from: records [account, holds]
  MaxServed        \* bound: requests in a behaviour

Roles == SystemRoles \cup CustomRoles
AdminRow == [live: BOOLEAN, made: BOOLEAN, active: BOOLEAN, super: BOOLEAN]

ASSUME AdminAssumption ==
  /\ SuperRole \in SystemRoles /\ SystemRoles \cap CustomRoles = {}
  /\ DefaultPerms \in [SystemRoles -> SUBSET Perms]
  /\ PermSets \subseteq SUBSET Perms
  /\ \A first \in FirstAdmins :
       first.account \in [Admins -> AdminRow] /\ first.holds \in [Admins -> SUBSET SystemRoles]
  /\ MaxServed \in Nat

VARIABLES
  admin,      \* User rows
  holds,      \* active AdminUserRole rows: [Admins -> SUBSET Roles]
  role,       \* AdminRole rows
  asked,      \* what each handler read and does next
  served,     \* requests so far
  handed      \* history: permissions given out by whom may give any, or
              \* added to a role that has holders

adminVars == <<admin, holds, role, asked, served, handed>>

NoAdmin  == [live |-> FALSE, made |-> FALSE, active |-> FALSE, super |-> FALSE]
NoRole   == [live |-> FALSE, active |-> FALSE, perms |-> {}]
RoleRow  == [live: BOOLEAN, active: BOOLEAN, perms: SUBSET Perms]
Waiting  == [op |-> "waiting"]

AdminOps == {"create", "patch", "manage", "suspend", "activate", "destroy", "assign"}
RoleOps  == {"role_create", "role_update", "role_delete"}

AdminTypeOK ==
  /\ admin \in [Admins -> AdminRow]
  /\ holds \in [Admins -> SUBSET Roles]
  /\ role \in [Roles -> RoleRow]
  /\ DOMAIN asked = AdminRequests
  /\ \A c \in AdminRequests : asked[c] = Waiting \/ asked[c].op \in AdminOps \cup RoleOps
  /\ \A u \in Admins : \A r \in holds[u] : role[r].live     \* foreign keys
  /\ served \in 0 .. MaxServed
  /\ handed \subseteq Perms

SeededRole(r) == [live |-> TRUE, active |-> TRUE, perms |-> DefaultPerms[r]]

(* seed_default_rbac has run; FirstAdmins says who administers. *)
AdminInit ==
  /\ role = [r \in Roles |-> IF r \in SystemRoles THEN SeededRole(r) ELSE NoRole]
  /\ \E first \in FirstAdmins : admin = first.account /\ holds = first.holds
  /\ asked = [c \in AdminRequests |-> Waiting]
  /\ served = 0
  /\ handed = UNION {role[r].perms : r \in UNION {holds[u] : u \in Admins}}

----------------------------------------------------------------------------
(* Permissions *)

ActiveRolesOf(u) == {r \in holds[u] : role[r].active}

(* is_super_admin_user *)
IsSuper(u) == admin[u].live /\ admin[u].active /\ (admin[u].super \/ SuperRole \in ActiveRolesOf(u))

(* get_user_admin_permissions *)
Rights(u) ==
  IF ~ (admin[u].live /\ admin[u].active) THEN {}
  ELSE IF IsSuper(u) THEN Perms
  ELSE UNION {role[r].perms : r \in ActiveRolesOf(u)}

(* count_super_admins does not ask whether the role is active. *)
OtherSupers(t) == {u \in Admins \ {t} : /\ admin[u].live /\ admin[u].active
                                        /\ admin[u].super \/ SuperRole \in holds[u]}

(* permission_map of AdminUserViewSet, ManagedUserViewSet, AdminRoleViewSet *)
PermissionMap ==
  [create  |-> "admins.create", patch |-> "admins.update", destroy |-> "admins.delete",
   assign  |-> "admins.assign_roles",
   manage  |-> "users.update", suspend |-> "users.suspend", activate |-> "users.activate",
   role_create |-> "roles.create", role_update |-> "roles.update", role_delete |-> "roles.delete"]

(* HasAdminPermission *)
May(u, op) == PermissionMap[op] \in Rights(u)

(* Mutant: super_admin is the only role that is looked at. *)
MayGiveAny(u, rs) == IsSuper(u) \/ SuperRole \notin rs

(* AdminUserCreateSerializer.validate, AssignRolesSerializer.validate: who *)
(* is no super admin gives no role that holds more than he has ...         *)
MayGive(u, rs) == IsSuper(u) \/ (SuperRole \notin rs /\ \A r \in rs : role[r].perms \subseteq Rights(u))

(* ... and leaves a super admin's account alone. *)
MayTouch(u, t) == IsSuper(t) => IsSuper(u)

PermsOf(rs) == UNION {role[r].perms : r \in rs}
Giveable  == {r \in Roles : role[r].live /\ role[r].active}

----------------------------------------------------------------------------
(* What a handler reads *)

Enter(c, u, job) ==
  /\ May(u, job.op)
  /\ asked' = [asked EXCEPT ![c] = job]
  /\ served' = served + 1
  /\ UNCHANGED <<admin, holds, role, handed>>

AskCreate(c, u, t, super, rs) ==
  /\ ~ admin[t].made
  /\ super => IsSuper(u)
  /\ MayGive(u, rs)
  /\ Enter(c, u, [op |-> "create", target |-> t, super |-> super, roles |-> rs,
                  any |-> IsSuper(u), perms |-> PermsOf(rs)])

(* AdminUserUpdateSerializer.validate; the row that will be saved. *)
AskPatch(c, u, t, row) ==
  /\ admin[t].live /\ MayTouch(u, t)
  /\ row.super # admin[t].super => IsSuper(u)
  /\ Enter(c, u, [op |-> "patch", target |-> t, row |-> row])

(* ManagedUserViewSet serves every account, an administrator's too. *)
AskManage(c, u, t, active) ==
  /\ admin[t].live
  /\ Enter(c, u, [op |-> "manage", target |-> t, row |-> [admin[t] EXCEPT !.active = active]])

AskActive(c, u, t, op) == admin[t].live /\ Enter(c, u, [op |-> op, target |-> t])

Supers        == {u \in Admins : IsSuper(u)}
Destroying(t) == [op |-> "destroy", target |-> t, supers |-> Supers]

(* Mutant: anybody with the permission deletes anybody. *)
AskDestroyUnchecked(c, u, t) == admin[t].live /\ Enter(c, u, Destroying(t))

(* AdminUserViewSet.destroy *)
AskDestroy(c, u, t) ==
  /\ admin[t].live /\ t # u
  /\ MayTouch(u, t)
  /\ IsSuper(t) => OtherSupers(t) # {}
  /\ Enter(c, u, Destroying(t))

AskAssign(c, u, t, rs) ==
  /\ admin[t].live /\ rs # {}
  /\ MayTouch(u, t) /\ MayGive(u, rs)
  /\ Enter(c, u, [op |-> "assign", target |-> t, roles |-> rs,
                  any |-> IsSuper(u), perms |-> PermsOf(rs)])

(* AdminRoleSerializer *)
AskRoleCreate(c, u, r, ps) ==
  /\ r \in CustomRoles /\ ~ role[r].live
  /\ Enter(c, u, [op |-> "role_create", target |-> r, perms |-> ps])

AskRoleUpdate(c, u, r, active, ps) ==
  /\ role[r].live
  /\ r = SuperRole => IsSuper(u)
  /\ r \in SystemRoles => ps # {}
  /\ Enter(c, u, [op |-> "role_update", target |-> r, active |-> active, perms |-> ps])

AskRoleDelete(c, u, r) ==
  /\ role[r].live
  /\ Enter(c, u, [op |-> "role_delete", target |-> r])

----------------------------------------------------------------------------
(* What a handler writes *)

Serve(c, op) == asked[c].op = op /\ asked' = [asked EXCEPT ![c] = Waiting] /\ UNCHANGED served

(* Rows of role are written for those that are still there; a role that is *)
(* gone stops the loop of assign_roles_to_user.                            *)
Granted(j, had) ==
  LET there == {r \in j.roles : role[r].live} IN
  {(had \cap j.roles) \cup got : got \in IF there = j.roles THEN {j.roles} ELSE SUBSET there}

HandedBy(j) == handed' = handed \cup (IF j.any THEN PermsOf(j.roles) ELSE PermsOf(j.roles) \ j.perms)

Create(c) ==
  LET j == asked[c] IN
  /\ Serve(c, "create")
  /\ ~ admin[j.target].made                        \* the address is unique
  /\ admin' = [admin EXCEPT ![j.target] = [live |-> TRUE, made |-> TRUE, active |-> TRUE, super |-> j.super]]
  /\ holds' \in {[holds EXCEPT ![j.target] = rs] : rs \in Granted(j, {})}
  /\ HandedBy(j)
  /\ UNCHANGED role

(* serializer.save: every column of the row that was fetched. *)
SaveRow(c) ==
  LET j == asked[c] IN
  /\ Serve(c, "patch") \/ Serve(c, "manage")
  /\ admin' = [admin EXCEPT ![j.target] = j.row]
  /\ UNCHANGED <<holds, role, handed>>

(* suspend, activate: is_active alone. *)
SetAdminActive(c) ==
  /\ Serve(c, "suspend") \/ Serve(c, "activate")
  /\ admin' = [admin EXCEPT ![asked[c].target].active = asked[c].op = "activate"]
  /\ UNCHANGED <<holds, role, handed>>

(* User.delete hides the row and leaves is_active and the roles. *)
Destroy(c) ==
  /\ Serve(c, "destroy")
  /\ admin' = [admin EXCEPT ![asked[c].target].live = FALSE]
  /\ UNCHANGED <<holds, role, handed>>

(* assign_roles_to_user; the columns saved then are role and is_staff. *)
Assign(c) ==
  LET j == asked[c] IN
  /\ Serve(c, "assign")
  /\ holds' \in {[holds EXCEPT ![j.target] = rs] : rs \in Granted(j, holds[j.target])}
  /\ HandedBy(j)
  /\ UNCHANGED <<admin, role>>

(* A role's row is saved whole, inserted again when it is gone, then its  *)
(* permissions are set.                                                   *)
SaveRole(c) ==
  LET j == asked[c] IN
  /\ Serve(c, "role_create") \/ Serve(c, "role_update")
  /\ j.op = "role_create" => ~ role[j.target].live
  /\ role' = [role EXCEPT ![j.target] =
                [live |-> TRUE, active |-> IF j.op = "role_create" THEN TRUE ELSE j.active, perms |-> j.perms]]
  /\ handed' = IF \E u \in Admins : j.target \in holds[u] THEN handed \cup j.perms ELSE handed
  /\ UNCHANGED <<admin, holds>>

DeleteRole(c) ==
  LET r == asked[c].target IN
  /\ Serve(c, "role_delete")
  /\ role' = [role EXCEPT ![r] = NoRole]
  /\ holds' = [u \in Admins |-> holds[u] \ {r}]      \* CASCADE
  /\ UNCHANGED <<admin, handed>>

(* The handler dies, or its insertion meets a row that is there already. *)
Fail(c) ==
  /\ asked[c] # Waiting
  /\ asked' = [asked EXCEPT ![c] = Waiting]
  /\ UNCHANGED <<admin, holds, role, served, handed>>

(* The command seed_rbac, in one transaction. *)
SeedDefaultRbac ==
  /\ role' = [r \in Roles |-> IF r \in SystemRoles THEN SeededRole(r) ELSE role[r]]
  /\ handed' = handed \cup UNION {DefaultPerms[r] : r \in SystemRoles}
  /\ UNCHANGED <<admin, holds, asked, served>>

----------------------------------------------------------------------------
AskStep(c, u) ==
  /\ asked[c] = Waiting /\ served < MaxServed /\ Rights(u) # {}
  /\ \/ \E t \in Admins :
          \/ \E super \in BOOLEAN, rs \in SUBSET Giveable : AskCreate(c, u, t, super, rs)
          \/ \E a, s \in BOOLEAN : AskPatch(c, u, t, [admin[t] EXCEPT !.active = a, !.super = s])
          \/ \E a \in BOOLEAN : AskManage(c, u, t, a)
          \/ \E op \in {"suspend", "activate"} : AskActive(c, u, t, op)
          \/ AskDestroy(c, u, t)
          \/ \E rs \in SUBSET Giveable : AskAssign(c, u, t, rs)
     \/ \E r \in Roles, ps \in PermSets :
          \/ AskRoleCreate(c, u, r, ps)
          \/ \E a \in BOOLEAN : AskRoleUpdate(c, u, r, a, ps)
     \/ \E r \in CustomRoles : AskRoleDelete(c, u, r)

WriteStep(c) ==
  \/ Create(c) \/ SaveRow(c) \/ SetAdminActive(c) \/ Destroy(c) \/ Assign(c)
  \/ SaveRole(c) \/ DeleteRole(c) \/ Fail(c)

AdminNext ==
  \/ \E c \in AdminRequests : WriteStep(c) \/ \E u \in Admins : AskStep(c, u)
  \/ SeedDefaultRbac

AdminSpec == AdminInit /\ [][AdminNext]_adminVars

----------------------------------------------------------------------------
(* Properties *)

(* Who is no super admin hands on only what he has: through any chain of   *)
(* creations and assignments, whatever is taken away in between, nobody's  *)
(* roles hold a permission that neither a super admin, a change of a held  *)
(* role nor the seed gave out.                                             *)
NothingFromNowhere == \A u \in Admins : PermsOf(holds[u]) \subseteq handed

(* A deletion leaves a super admin, unless another request made or unmade  *)
(* one between its check and its write.                                    *)
DeletionLeavesSuperAdmin ==
  [][\A c \in AdminRequests :
       (asked[c].op = "destroy" /\ asked'[c] = Waiting /\ Supers # {} /\ asked[c].supers = Supers)
       => Supers' # {}]_adminVars

=============================================================================
