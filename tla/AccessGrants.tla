---------------------------- MODULE AccessGrants ----------------------------
(***************************************************************************)
(* Roles and custom permissions in one workspace, and the rules by which   *)
(* members who are not the owner hand them on.  A request acts for its     *)
(* caller as the context has read it: owner or not, with these effective   *)
(* permissions.  It reads the target, then the roles it is about to        *)
(* assign, and then writes; each read and write is a step, and the caller, *)
(* the target and the roles may change in between.                         *)
(*                                                                         *)
(* The transfer of ownership is one step here, as Ownership shows that no  *)
(* state between is seen; the status of a member is left to Ownership too. *)
(***************************************************************************)
EXTENDS Naturals

CONSTANTS
  Members,            \* user ids; they are random UUIDs and never used twice
  FirstOwner,         \* the user that signup created
  Roles,              \* role ids
  Admin,              \* the system role of that name
  Permissions,        \* ALL_PERMISSIONS
  ManageRoles, ManagePermissions, CreateUsers, EditRoles,
                      \* users.manageRoles, users.managePermissions, users.create, roles.*
  Grants,             \* requests of all API instances
  MaxWrites           \* bound: changes of members and roles

ASSUME GrantsAssumption ==
  /\ FirstOwner \in Members /\ Admin \in Roles
  /\ {ManageRoles, ManagePermissions, CreateUsers, EditRoles} \subseteq Permissions
  /\ MaxWrites \in Nat

VARIABLES
  owner,      \* the member whose userType is OWNER
  present,    \* the members that have a row
  past,       \* history: those that have or had one
  custom,     \* User.customPermissions
  held,       \* the roles of a member
  rolePerms,  \* Role.permissions
  live,       \* the roles that have a row
  grant,      \* the requests
  released,   \* history: the permissions that an owner gave out or a role editor wrote
  writes      \* history: changes so far

grantVars == <<owner, present, past, custom, held, rolePerms, live, grant, released, writes>>
memberVars == <<owner, present, past, custom, held>>
roleVars == <<rolePerms, live>>

GrantOps == {"setRoles", "addRoles", "dropRoles", "setCustom", "create"}
GrantLabels == {"idle", "target", "roles", "write"}

\* asOwner, mine: the caller as the context has read it.
NoGrant == [op |-> "create", at |-> "idle", asOwner |-> FALSE, mine |-> {}, target |-> FirstOwner,
            roles |-> {}, perms |-> {}]

GrantsTypeOK ==
  /\ owner \in present /\ present \subseteq past /\ past \subseteq Members
  /\ custom \in [Members -> SUBSET Permissions]
  /\ held \in [Members -> SUBSET Roles]
  /\ rolePerms \in [Roles -> SUBSET Permissions]
  /\ live \subseteq Roles
  /\ grant \in [Grants -> [op : GrantOps, at : GrantLabels, asOwner : BOOLEAN,
                           mine : SUBSET Permissions, target : Members,
                           roles : SUBSET Roles, perms : SUBSET Permissions]]
  /\ released \subseteq Permissions
  /\ writes \in 0..MaxWrites

\* Signup gives the founder no role.
InitGrants ==
  /\ owner = FirstOwner /\ present = {FirstOwner} /\ past = {FirstOwner}
  /\ custom = [u \in Members |-> {}]
  /\ held = [u \in Members |-> {}]
  /\ rolePerms = [r \in Roles |-> IF r = Admin THEN Permissions ELSE {}]
  /\ live = {Admin}
  /\ grant = [p \in Grants |-> NoGrant]
  /\ released = {} /\ writes = 0

\* computeEffectivePermissions
Effective(u) ==
  IF u = owner THEN Permissions ELSE custom[u] \cup UNION {rolePerms[r] : r \in held[u]}

GrantAt(p, label) == grant[p].at = label
GrantGoto(p, label) == grant' = [grant EXCEPT ![p].at = label]
GrantEnds(p) == grant' = [grant EXCEPT ![p] = NoGrant]
Changes == writes < MaxWrites /\ writes' = writes + 1

\* actorHasPermission, assertCanGrantPermissions
Allows(u, permission) == permission \in Effective(u)
MayGive(u, perms) == u = owner \/ perms \subseteq Effective(u)

\* The requests that have not come in.
Free == {p \in Grants : grant[p] = NoGrant}

Ask(p, u, op, label, target, roles, perms) ==
  /\ p \in Free /\ u \in present
  /\ grant' = [grant EXCEPT ![p] = [op |-> op, at |-> label, asOwner |-> (u = owner),
                                    mine |-> Effective(u), target |-> target,
                                    roles |-> roles, perms |-> perms]]
  /\ UNCHANGED <<memberVars, roleVars, released, writes>>
-----------------------------------------------------------------------------
\* Faulty: the Admin role is skipped like any other that is allowed.
CheckRolesSkipAdmin(p) ==
  LET roles == grant[p].roles IN
  /\ GrantAt(p, "roles")
  /\ IF /\ roles \subseteq live
        /\ \A r \in roles \ {Admin} : grant[p].asOwner \/ rolePerms[r] \subseteq grant[p].mine
     THEN GrantGoto(p, "write")
     ELSE GrantEnds(p)
  /\ UNCHANGED <<memberVars, roleVars, released, writes>>

\* Faulty: any permission may be given.
AskSetCustomAny(p, u, target, perms) ==
  /\ Allows(u, ManagePermissions)
  /\ u = owner \/ u # target
  /\ Ask(p, u, "setCustom", "target", target, {}, perms)
-----------------------------------------------------------------------------
(***************************************************************************)
(* setUserRoles, assignRoles, removeRoles, setUserPermissions, createUser: *)
(* what the guard of the resolver and the checks without a read decide     *)
(***************************************************************************)
AskRoles(p, u, op, target, roles) ==
  /\ Allows(u, ManageRoles)
  /\ u = owner \/ u # target
  /\ Ask(p, u, op, "target", target, roles, {})

AskSetCustom(p, u, target, perms) ==
  /\ Allows(u, ManagePermissions) /\ MayGive(u, perms)
  /\ u = owner \/ u # target
  /\ Ask(p, u, "setCustom", "target", target, {}, perms)

AskCreate(p, u, new, roles, perms) ==
  /\ Allows(u, CreateUsers) /\ new \notin past
  /\ roles # {} => Allows(u, ManageRoles)
  /\ perms # {} => Allows(u, ManagePermissions) /\ MayGive(u, perms)
  /\ Ask(p, u, "create", "roles", new, roles, perms)

\* getWorkspaceMember and assertNotOwnerTarget
ReadMember(p) ==
  LET target == grant[p].target IN
  /\ GrantAt(p, "target")
  /\ IF target \in present /\ target # owner
     THEN GrantGoto(p, IF grant[p].op = "setCustom" THEN "write" ELSE "roles")
     ELSE GrantEnds(p)
  /\ UNCHANGED <<memberVars, roleVars, released, writes>>

\* assertCanAssignRoles; to take roles away only Admin matters.
CheckRoles(p) ==
  LET roles == grant[p].roles IN
  /\ GrantAt(p, "roles")
  /\ IF \/ grant[p].asOwner /\ (grant[p].op = "dropRoles" \/ roles \subseteq live)
        \/ grant[p].op = "dropRoles" /\ Admin \notin roles
        \/ /\ roles \subseteq live /\ Admin \notin roles
           /\ \A r \in roles : rolePerms[r] \subseteq grant[p].mine
     THEN GrantGoto(p, "write")
     ELSE GrantEnds(p)
  /\ UNCHANGED <<memberVars, roleVars, released, writes>>

\* The write fails if the member, or a role to connect, is gone.
Write(p) ==
  LET op == grant[p].op  target == grant[p].target  roles == grant[p].roles  perms == grant[p].perms
      roles2 == CASE op \in {"setRoles", "create"} -> roles
                  [] op = "addRoles" -> held[target] \cup roles
                  [] op = "dropRoles" -> held[target] \ roles
                  [] OTHER -> held[target] IN
  /\ GrantAt(p, "write")
  /\ Changes
  /\ IF /\ IF op = "create" THEN target \notin past ELSE target \in present
        /\ op = "dropRoles" \/ roles \subseteq live
     THEN /\ present' = present \cup {target} /\ past' = past \cup {target}
          /\ held' = [held EXCEPT ![target] = roles2]
          /\ custom' = IF op \in {"setCustom", "create"} THEN [custom EXCEPT ![target] = perms] ELSE custom
          /\ released' = IF grant[p].asOwner
                         THEN released \cup perms \cup UNION {rolePerms[r] : r \in roles2}
                         ELSE released
     ELSE UNCHANGED <<present, past, held, custom, released>>
  /\ GrantEnds(p)
  /\ UNCHANGED <<owner, roleVars>>
-----------------------------------------------------------------------------
(***************************************************************************)
(* createRole, updateRole and deleteRole.  No rule limits the permissions  *)
(* that an editor writes into a role.  What the request read of the role   *)
(* cannot change: the system role is immutable.  What it read of its       *)
(* caller can, yet the write is the same for every caller and the owner    *)
(* may make it in every state: a guard of long before adds no behaviour.   *)
(***************************************************************************)
EditRole(u, r, perms) ==
  /\ u \in present /\ Allows(u, EditRoles) /\ r # Admin
  /\ Changes
  /\ rolePerms' = [rolePerms EXCEPT ![r] = perms]
  /\ live' = live \cup {r}
  /\ released' = released \cup perms
  /\ UNCHANGED <<memberVars, grant>>

\* The rows that connect the role to members go with it.
DeleteRole(u, r) ==
  /\ u \in present /\ Allows(u, EditRoles) /\ r \in live \ {Admin}
  /\ Changes
  /\ live' = live \ {r}
  /\ held' = [v \in Members |-> held[v] \ {r}]
  /\ UNCHANGED <<owner, present, past, custom, rolePerms, grant, released>>

Transfer(u) ==
  /\ u \in present \ {owner}
  /\ Changes
  /\ owner' = u
  /\ UNCHANGED <<present, past, custom, held, roleVars, grant, released>>

\* deleteUser
Leave(u) ==
  /\ u \in present \ {owner}
  /\ present' = present \ {u}
  /\ custom' = [custom EXCEPT ![u] = {}] /\ held' = [held EXCEPT ![u] = {}]
  /\ Changes
  /\ UNCHANGED <<owner, past, roleVars, grant, released>>
-----------------------------------------------------------------------------
NextGrants ==
  \/ \E p \in Free, u \in present, target \in Members, roles \in SUBSET Roles :
       \E op \in {"setRoles", "addRoles", "dropRoles"} : AskRoles(p, u, op, target, roles)
  \/ \E p \in Free, u \in present, target \in Members, perms \in SUBSET Permissions :
       \/ AskSetCustom(p, u, target, perms)
       \/ \E roles \in SUBSET Roles : AskCreate(p, u, target, roles, perms)
  \/ \E p \in Grants : ReadMember(p) \/ CheckRoles(p) \/ Write(p)
  \/ \E u \in Members, r \in Roles : DeleteRole(u, r) \/ \E perms \in SUBSET Permissions : EditRole(u, r, perms)
  \/ \E u \in Members : Transfer(u) \/ Leave(u)

GrantsSpec == InitGrants /\ [][NextGrants]_grantVars
-----------------------------------------------------------------------------
\* "Cannot grant a permission they do not possess", "cannot assign a role
\* containing permissions they cannot grant": what a member other than the
\* owner may do was at some time given out by an owner, or written into a
\* role by someone entitled to edit roles; no chain of grants among the
\* others, and no change of roles or owner between check and write, brings
\* up more.
PermissionsHaveSource == \A u \in present \ {owner} : Effective(u) \subseteq released

\* "Cannot assign the system Admin role": a member comes to hold it only by
\* a request whose caller was the owner when it came in.
AdminFromOwner ==
  [][\A u \in Members : Admin \in held'[u] \ held[u]
       => \E p \in Grants : grant[p].asOwner /\ grant'[p] = NoGrant]_grantVars

\* "Only the workspace owner can modify Admin role assignment": it is taken
\* from a member who stays only by such a request.
AdminTakenByOwner ==
  [][\A u \in present \cap present' : Admin \in held[u] \ held'[u]
       => \E p \in Grants : grant[p].asOwner /\ grant'[p] = NoGrant]_grantVars
=============================================================================
