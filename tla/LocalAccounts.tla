--------------------------- MODULE LocalAccounts ----------------------------
(***************************************************************************)
(* Local accounts and the mapping of provider groups to roles:             *)
(* admin/accounts_service.py behind admin/router.py, and the seeding at    *)
(* start (main.py).  A change reads in its transaction and commits later;  *)
(* the process keeps a copy of the mapping that it updates after the       *)
(* commit.  One replica, as the code's own note on that copy says.         *)
(***************************************************************************)
EXTENDS Naturals, FiniteSets

CONSTANTS Usernames, Groups, Roles,
          Operators,       \* concurrent requests
          SeedAccounts,    \* SKILLSCAN_LOCAL_ACCOUNTS_JSON, [name -> role]
          SeedGroups,      \* group_role_map.yaml, [group -> role]
          MaxRestarts      \* bound

\* The seeds name known roles (load_local_accounts_from_json and
\* load_group_role_map refuse others), and an administrator among them.
ASSUME SeedsAssumption ==
    /\ SeedAccounts \in [DOMAIN SeedAccounts -> Roles]
    /\ SeedGroups \in [DOMAIN SeedGroups -> Roles]
    /\ \E u \in Usernames \cap DOMAIN SeedAccounts : SeedAccounts[u] = "admin"

VARIABLES account,         \* rows of local_account, [role, status] or NoRow
          group,           \* rows of group_role_mapping, a role or NoRole
          liveMap,         \* AuthRuntime.group_role_map of the process
          change,          \* what each operator's request is about to do
          up, restarts,
          outdated         \* {"count", "map"}: which reads were overtaken (ghost)

accountVars == <<account, group, liveMap, change, up, restarts, outdated>>

NoRow == [role |-> "none", status |-> "none"]
NoRole == "none"
Keep == "keep"             \* a field that the request leaves out
NoChange == [kind |-> "none", on |-> "none", role |-> NoRole, status |-> "none",
             overtaken |-> FALSE]

Change(kind, on, role, status) ==
    [kind |-> kind, on |-> on, role |-> role, status |-> status, overtaken |-> FALSE]

ActiveAdmin(u) == account[u] = [role |-> "admin", status |-> "active"]

AccountsInit ==
    /\ account = [u \in Usernames |-> NoRow]
    /\ group = [g \in Groups |-> NoRole] /\ liveMap = group
    /\ change = [o \in Operators |-> NoChange]
    /\ up = FALSE /\ restarts = 0 /\ outdated = {}

\* _seed_admin_tables_if_empty: a table without rows is seeded, at every start.
Boot ==
    /\ ~up /\ up' = TRUE
    /\ account' = IF \E u \in Usernames : account[u] # NoRow THEN account
                  ELSE [u \in Usernames |->
                           IF u \in DOMAIN SeedAccounts
                           THEN [role |-> SeedAccounts[u], status |-> "active"] ELSE NoRow]
    /\ group' = IF \E g \in Groups : group[g] # NoRole THEN group
                ELSE [g \in Groups |-> IF g \in DOMAIN SeedGroups THEN SeedGroups[g] ELSE NoRole]
    /\ liveMap' = group'
    /\ outdated' = outdated \ {"map"}
    /\ UNCHANGED <<change, restarts>>

ProcessStops ==
    /\ up /\ restarts < MaxRestarts
    /\ up' = FALSE /\ restarts' = restarts + 1
    /\ change' = [o \in Operators |-> NoChange]
    /\ UNCHANGED <<account, group, liveMap, outdated>>

-----------------------------------------------------------------------------
\* create_account up to the look for the name
CreateAccount(o, u, r) ==
    /\ up /\ change[o] = NoChange /\ account[u] = NoRow
    /\ change' = [change EXCEPT ![o] = Change("create", u, r, "active")]
    /\ UNCHANGED <<account, group, liveMap, up, restarts, outdated>>

\* The unique name makes the second of two equal requests fail.
CreateCommit(o) ==
    /\ change[o].kind = "create"
    /\ account' = [account EXCEPT ![change[o].on] =
           IF @ = NoRow THEN [role |-> change[o].role, status |-> "active"] ELSE @]
    /\ change' = [change EXCEPT ![o] = NoChange]
    /\ UNCHANGED <<group, liveMap, up, restarts, outdated>>

\* Counts every active admin, the one it is about to disable included.
LastAdminCountsSelf(u) == Cardinality({v \in Usernames : ActiveAdmin(v)}) = 0

LastAdmin(u) == \A v \in Usernames \ {u} : ~ActiveAdmin(v)

\* set_account_role_status up to its flush: r and s are values or Keep, and a
\* request that changes nothing ends without an audit row.
SetRoleStatus(o, u, r, s) ==
    /\ up /\ change[o] = NoChange /\ account[u] # NoRow
    /\ r \notin {Keep, account[u].role} \/ s \notin {Keep, account[u].status}
    /\ ActiveAdmin(u) /\ (r \notin {Keep, "admin"} \/ s \notin {Keep, "active"})
           => ~LastAdmin(u)
    /\ change' = [change EXCEPT ![o] =
           Change("patch", u, IF r = account[u].role THEN Keep ELSE r,
                              IF s = account[u].status THEN Keep ELSE s)]
    /\ UNCHANGED <<account, group, liveMap, up, restarts, outdated>>

\* Only the changed columns are written.  A row of audit_intent goes with them.
SetRoleStatusCommit(o) ==
    /\ change[o].kind = "patch"
    /\ LET c == change[o]
       IN  account' = [account EXCEPT ![c.on] =
               [role |-> IF c.role = Keep THEN @.role ELSE c.role,
                status |-> IF c.status = Keep THEN @.status ELSE c.status]]
    /\ change' = [p \in Operators |->
           IF p = o THEN NoChange
           ELSE [change[p] EXCEPT !.overtaken = @ \/ change[p].kind = "patch"]]
    /\ outdated' = IF change[o].overtaken THEN outdated \cup {"count"} ELSE outdated
    /\ UNCHANGED <<group, liveMap, up, restarts>>

-----------------------------------------------------------------------------
\* upsert_group_role_mapping or, with NoRole, delete_group_role_mapping.
ChangeGroup(o, g, r) ==
    /\ up /\ change[o] = NoChange /\ (r = NoRole => group[g] # NoRole)
    /\ group' = [group EXCEPT ![g] = r]
    /\ change' = [p \in Operators |->
           IF p = o THEN Change("live", g, r, "none")
           ELSE [change[p] EXCEPT !.overtaken = @ \/ (change[p].kind = "live" /\ change[p].on = g)]]
    /\ UNCHANGED <<account, liveMap, up, restarts, outdated>>

\* A removed mapping stays in the process.
KeepRemoved(o) ==
    /\ change[o].kind = "live"
    /\ liveMap' = IF change[o].role = NoRole THEN liveMap
                  ELSE [liveMap EXCEPT ![change[o].on] = change[o].role]
    /\ change' = [change EXCEPT ![o] = NoChange]
    /\ outdated' = IF change[o].overtaken THEN outdated \cup {"map"} ELSE outdated
    /\ UNCHANGED <<account, group, up, restarts>>

\* After the commit: auth_runtime.group_role_map[group_name] = role, or pop.
UpdateLiveMap(o) ==
    /\ change[o].kind = "live"
    /\ liveMap' = [liveMap EXCEPT ![change[o].on] = change[o].role]
    /\ change' = [change EXCEPT ![o] = NoChange]
    /\ outdated' = IF change[o].overtaken THEN outdated \cup {"map"} ELSE outdated
    /\ UNCHANGED <<account, group, up, restarts>>

OperatorStep(o) ==
    \/ \E u \in Usernames, r \in Roles : CreateAccount(o, u, r)
    \/ \E u \in Usernames, r \in Roles \cup {Keep}, s \in {Keep, "active", "disabled"} :
           SetRoleStatus(o, u, r, s)
    \/ \E g \in Groups, r \in Roles \cup {NoRole} : ChangeGroup(o, g, r)
    \/ CreateCommit(o) \/ SetRoleStatusCommit(o) \/ UpdateLiveMap(o)

AccountsNext == Boot \/ ProcessStops \/ \E o \in Operators : OperatorStep(o)

AccountsSpec == AccountsInit /\ [][AccountsNext]_accountVars

-----------------------------------------------------------------------------
\* An active administrator is always left: no sequence of role and status
\* changes, by any operators, locks everyone out, unless one commits on a
\* count of the other administrators that another commit has overtaken.
AdminRemains ==
    up /\ "count" \notin outdated => \E u \in Usernames : ActiveAdmin(u)

\* The roles of a login follow the stored mapping: between requests the copy
\* in the process agrees with the rows, after restarts too, unless the copies
\* of two changes to one group were written in the other order than the rows.
MapFollowsRows ==
    up /\ "map" \notin outdated /\ (\A o \in Operators : change[o].kind # "live")
        => liveMap = group
=============================================================================
