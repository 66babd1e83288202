---------------------------- MODULE RequestProofs ----------------------------
(***************************************************************************)
(* The safety of the modules about requests and those who make them:       *)
(* LocalAccounts (the last-administrator guard and the copy of the group   *)
(* mapping), BreakGlass (single use of an arming), BrowserSession (the     *)
(* CSRF cookie and the cached introspection answer) and Submission (what a *)
(* submission's answer is worth), for any names, operators, logins,        *)
(* lifetimes, requests, tiers, keys and failed transactions.               *)
(***************************************************************************)
EXTENDS LocalAccounts, BreakGlass, BrowserSession, Submission, TLAPS

(***************************************************************************)
(* LocalAccounts                                                           *)
(***************************************************************************)

RoleValues == Roles \cup {NoRole, Keep}
Statuses == {"none", "active", "disabled", Keep}
Changes == [kind : {"none", "create", "patch", "live"},
            on : Usernames \cup Groups \cup {"none"},
            role : RoleValues, status : Statuses, overtaken : BOOLEAN]

AccountsTyped ==
    /\ account \in [Usernames -> [role : RoleValues, status : Statuses]]
    /\ group \in [Groups -> RoleValues] /\ liveMap \in [Groups -> RoleValues]
    /\ change \in [Operators -> Changes]
    /\ up \in BOOLEAN
    /\ up \/ change = [o \in Operators |-> NoChange]
    /\ \A o \in Operators :
           /\ change[o].kind \in {"create", "patch"} => change[o].on \in Usernames
           /\ change[o].kind = "live" => change[o].on \in Groups

Removes(c) == c.role \notin {Keep, "admin"} \/ c.status \notin {Keep, "active"}
OtherAdmin(u) == \E v \in Usernames : v # u /\ ActiveAdmin(v)

\* A change of a row that no commit has overtaken still has what its count
\* found: the row, and another administrator if it takes the role from one.
PatchOK(o) ==
    change[o].kind = "patch" /\ ~change[o].overtaken =>
        /\ account[change[o].on] # NoRow
        /\ ActiveAdmin(change[o].on) /\ Removes(change[o]) => OtherAdmin(change[o].on)

PatchesOK == \A o \in Operators : PatchOK(o)

\* Where there are rows there is an administrator, also while the process is
\* down: that is what makes the seeding of the next start harmless.
AdminsOK ==
    "count" \notin outdated /\ (up \/ \E u \in Usernames : account[u] # NoRow)
        => \E v \in Usernames : ActiveAdmin(v)

\* An update of the copy that no later change of its group has overtaken
\* carries the stored role, and a group whose copy differs has one.
LiveOK(o) ==
    change[o].kind = "live" /\ ~change[o].overtaken => change[o].role = group[change[o].on]

Due(o, g) == change[o].kind = "live" /\ change[o].on = g /\ ~change[o].overtaken

CopyOK ==
    /\ \A o \in Operators : LiveOK(o)
    /\ up /\ "map" \notin outdated =>
           \A g \in Groups : liveMap[g] = group[g] \/ \E o \in Operators : Due(o, g)

AccountsInv == AccountsTyped /\ PatchesOK /\ AdminsOK /\ CopyOK

\* The tables are empty and the process is down.
LEMMA AccountsInitially == AccountsInit => AccountsInv
<1> SUFFICES ASSUME AccountsInit PROVE AccountsInv
  BY Zenon
<1>1. NoChange \in Changes /\ NoChange.kind = "none"
  BY Zenon DEF NoChange, Changes, RoleValues, Statuses, NoRole
<1>2. \A o \in Operators : change[o] = NoChange
  BY Zenon DEF AccountsInit
<1>3. NoRow \in [role : RoleValues, status : Statuses] /\ NoRole \in RoleValues
  BY Zenon DEF NoRow, NoRole, RoleValues, Statuses
<1>4. AccountsTyped
  BY <1>1, <1>2, <1>3, Zenon DEF AccountsInit, AccountsTyped
<1>5. PatchesOK /\ CopyOK
  BY <1>1, <1>2, Zenon DEF AccountsInit, PatchesOK, PatchOK, CopyOK, LiveOK
<1>6. AdminsOK
  BY Zenon DEF AccountsInit, AdminsOK
<1>7. QED
  BY <1>4, <1>5, <1>6, Zenon DEF AccountsInv

\* The start: an empty table gets the seeds, an administrator among them.
LEMMA BootKeeps ==
    ASSUME AccountsInv, Boot
    PROVE  AccountsInv'
<1>1. change' = change /\ change = [o \in Operators |-> NoChange]
  BY Zenon DEF AccountsInv, AccountsTyped, Boot
<1>2. \A o \in Operators : change[o].kind = "none"
  BY <1>1, Zenon DEF NoChange
<1>3. account' \in [Usernames -> [role : RoleValues, status : Statuses]]
  BY SeedsAssumption, Zenon DEF AccountsInv, AccountsTyped, Boot, RoleValues, Statuses, NoRow, NoRole
<1>4. group' \in [Groups -> RoleValues] /\ liveMap' = group'
  BY SeedsAssumption, Zenon DEF AccountsInv, AccountsTyped, Boot, RoleValues, NoRole
<1>5. AccountsTyped'
  BY <1>1, <1>2, <1>3, <1>4, Zenon DEF AccountsInv, AccountsTyped, Boot
<1>6. PatchesOK'
  BY <1>1, <1>2, Zenon DEF PatchesOK, PatchOK
<1>7. AdminsOK'
  <2>1. CASE \E u \in Usernames : account[u] # NoRow
    BY <2>1, Zenon DEF AccountsInv, AdminsOK, ActiveAdmin, Boot
  <2>2. CASE ~ \E u \in Usernames : account[u] # NoRow
    <3>1. PICK u \in Usernames : u \in DOMAIN SeedAccounts /\ SeedAccounts[u] = "admin"
      BY SeedsAssumption, Zenon
    <3>2. account'[u] = [role |-> "admin", status |-> "active"]
      BY <2>2, <3>1, Zenon DEF Boot
    <3>3. QED
      BY <3>2, Zenon DEF AdminsOK, ActiveAdmin
  <2>3. QED
    BY <2>1, <2>2, Zenon
<1>8. CopyOK'
  BY <1>1, <1>2, <1>4, Zenon DEF CopyOK, LiveOK, Due
<1>9. QED
  BY <1>5, <1>6, <1>7, <1>8, Zenon DEF AccountsInv

\* A stop loses the requests under way, and no row.
LEMMA StopKeeps ==
    ASSUME AccountsInv, ProcessStops
    PROVE  AccountsInv'
<1>1. \A o \in Operators : change'[o] = NoChange
  BY Zenon DEF ProcessStops
<1>2. AccountsTyped'
  BY <1>1, Zenon DEF AccountsInv, AccountsTyped, ProcessStops, NoChange, Changes, RoleValues, Statuses, NoRole
<1>3. PatchesOK' /\ CopyOK'
  BY <1>1, Zenon DEF PatchesOK, PatchOK, CopyOK, LiveOK, NoChange, ProcessStops
<1>4. AdminsOK'
  BY Zenon DEF AccountsInv, AdminsOK, ActiveAdmin, ProcessStops
<1>5. QED
  BY <1>2, <1>3, <1>4, Zenon DEF AccountsInv

\* A request has read and is about to commit.
LEMMA ReadsTyped ==
    ASSUME AccountsInv, up, NEW o \in Operators, NEW c \in Changes,
           c.kind \in {"create", "patch"}, c.on \in Usernames,
           change' = [change EXCEPT ![o] = c],
           UNCHANGED <<account, group, liveMap, up, restarts, outdated>>,
           change[o] = NoChange, PatchOK(o)'
    PROVE  AccountsInv'
<1>1. \A p \in Operators : change'[p] = IF p = o THEN c ELSE change[p]
  BY Zenon DEF AccountsInv, AccountsTyped
<1>2. AccountsTyped'
  BY <1>1, Zenon DEF AccountsInv, AccountsTyped
<1>3. PatchesOK'
  BY <1>1 DEF AccountsInv, PatchesOK, PatchOK, ActiveAdmin, OtherAdmin
<1>4. AdminsOK'
  BY Zenon DEF AccountsInv, AdminsOK, ActiveAdmin
<1>5. CopyOK'
  <2>1. \A p \in Operators : LiveOK(p)'
    BY <1>1 DEF AccountsInv, CopyOK, LiveOK
  <2>2. \A p \in Operators, g \in Groups : Due(p, g) => Due(p, g)'
    BY <1>1 DEF Due, NoChange
  <2>3. QED
    BY <2>1, <2>2, Zenon DEF AccountsInv, CopyOK
<1>6. QED
  BY <1>2, <1>3, <1>4, <1>5, Zenon DEF AccountsInv

\* create_account changes no row that is there.
LEMMA CreateKeeps ==
    ASSUME AccountsInv, NEW o \in Operators, NEW u \in Usernames, NEW r \in Roles,
           CreateAccount(o, u, r)
    PROVE  AccountsInv'
<1> DEFINE c == Change("create", u, r, "active")
<1>1. c \in Changes /\ c.kind = "create" /\ c.on = u
  BY Zenon DEF Change, Changes, RoleValues, Statuses
<1> HIDE DEF c
<1>2. change' = [change EXCEPT ![o] = c]
  BY Zenon DEF CreateAccount, c
<1>3. PatchOK(o)'
  BY <1>1, <1>2, Zenon DEF AccountsInv, AccountsTyped, PatchOK
<1>4. QED
  BY <1>1, <1>2, <1>3, ReadsTyped, Zenon DEF CreateAccount

\* set_account_role_status refuses to take the role from the last one.
LEMMA PatchKeeps ==
    ASSUME AccountsInv, NEW o \in Operators, NEW u \in Usernames,
           NEW r \in Roles \cup {Keep}, NEW s \in {Keep, "active", "disabled"},
           SetRoleStatus(o, u, r, s)
    PROVE  AccountsInv'
<1>1. PICK c \in Changes :
          /\ c = Change("patch", u, IF r = account[u].role THEN Keep ELSE r,
                                    IF s = account[u].status THEN Keep ELSE s)
          /\ change' = [change EXCEPT ![o] = c]
  <2>1. PICK cr \in RoleValues, cs \in Statuses :
            /\ cr = IF r = account[u].role THEN Keep ELSE r
            /\ cs = IF s = account[u].status THEN Keep ELSE s
    BY Zenon DEF RoleValues, Statuses
  <2>2. Change("patch", u, cr, cs) \in Changes
    BY Zenon DEF Change, Changes
  <2>3. QED
    BY <2>1, <2>2, Zenon DEF SetRoleStatus
<1>2. c.kind = "patch" /\ c.on = u /\ change'[o] = c
  BY <1>1, Zenon DEF Change, AccountsInv, AccountsTyped
<1>3. ASSUME ActiveAdmin(u), Removes(c) PROVE OtherAdmin(u)
  <2>1. r \notin {Keep, "admin"} \/ s \notin {Keep, "active"}
    BY <1>1, <1>3, Zenon DEF Removes, Change
  <2>2. QED
    BY <1>3, <2>1, Zenon DEF SetRoleStatus, LastAdmin, OtherAdmin
<1>4. account[u] # NoRow /\ account' = account
  BY Zenon DEF SetRoleStatus
<1>5. PatchOK(o)'
  <2>1. /\ ActiveAdmin(u)' => ActiveAdmin(u)
        /\ OtherAdmin(u) => OtherAdmin(u)'
    BY <1>4, Zenon DEF ActiveAdmin, OtherAdmin
  <2>2. QED
    BY <1>2, <1>3, <1>4, <2>1, Zenon DEF PatchOK, Removes
<1>6. QED
  BY <1>1, <1>2, <1>5, ReadsTyped, Zenon DEF SetRoleStatus

\* The insert fails on a name that is taken, and adds a row otherwise.
LEMMA CreateCommitKeeps ==
    ASSUME AccountsInv, NEW o \in Operators, CreateCommit(o)
    PROVE  AccountsInv'
<1>1. \A p \in Operators : change'[p] = IF p = o THEN NoChange ELSE change[p]
  BY Zenon DEF AccountsInv, AccountsTyped, CreateCommit
<1>2. \A u \in Usernames : account[u] # NoRow => account'[u] = account[u]
  BY Zenon DEF AccountsInv, AccountsTyped, CreateCommit
<1>3. NoChange \in Changes /\ NoChange.kind = "none"
  BY Zenon DEF NoChange, Changes, RoleValues, Statuses, NoRole
<1>4. account' \in [Usernames -> [role : RoleValues, status : Statuses]]
  <2>1. [role |-> change[o].role, status |-> "active"] \in [role : RoleValues, status : Statuses]
    BY Zenon DEF AccountsInv, AccountsTyped, Changes, Statuses
  <2>2. QED
    BY <2>1, Zenon DEF AccountsInv, AccountsTyped, CreateCommit
<1>5. up
  BY <1>3, Zenon DEF AccountsInv, AccountsTyped, CreateCommit
<1>6. AccountsTyped'
  <2>1. change' \in [Operators -> Changes] /\ UNCHANGED <<group, liveMap, up>>
    BY <1>3, Zenon DEF AccountsInv, AccountsTyped, CreateCommit
  <2>2. QED
    BY <1>1, <1>3, <1>4, <1>5, <2>1, Zenon DEF AccountsInv, AccountsTyped
<1>7. \A u \in Usernames : ActiveAdmin(u) => ActiveAdmin(u)'
  BY <1>2 DEF ActiveAdmin, NoRow
<1>8. PatchesOK'
  <2> SUFFICES ASSUME NEW p \in Operators PROVE PatchOK(p)'
    BY Zenon DEF PatchesOK
  <2>1. CASE p = o
    BY <1>1, <1>3, <2>1, Zenon DEF PatchOK
  <2>2. CASE p # o
    <3>1. change'[p] = change[p] /\ PatchOK(p)
      BY <1>1, <2>2, Zenon DEF AccountsInv, PatchesOK
    <3>2. CASE change[p].kind = "patch" /\ ~change[p].overtaken
      <4>1. change[p].on \in Usernames /\ account[change[p].on] # NoRow
        BY <3>1, <3>2, Zenon DEF PatchOK, AccountsInv, AccountsTyped
      <4>2. account'[change[p].on] = account[change[p].on]
        BY <1>2, <4>1, Zenon
      <4>3. OtherAdmin(change[p].on) => OtherAdmin(change[p].on)'
        BY <1>7, <3>1, Zenon DEF OtherAdmin
      <4>4. QED
        BY <3>1, <3>2, <4>1, <4>2, <4>3, Zenon DEF PatchOK, ActiveAdmin
    <3>3. QED
      BY <3>1, <3>2, Zenon DEF PatchOK
  <2>3. QED
    BY <2>1, <2>2, Zenon
<1>9. AdminsOK'
  BY <1>5, <1>7, Zenon DEF AccountsInv, AdminsOK, CreateCommit
<1>10. CopyOK'
  <2>1. \A p \in Operators : LiveOK(p)'
    BY <1>1, <1>3 DEF AccountsInv, CopyOK, LiveOK, CreateCommit
  <2>2. \A p \in Operators, g \in Groups : Due(p, g) => Due(p, g)'
    BY <1>1, Zenon DEF Due, CreateCommit
  <2>3. QED
    BY <2>1, <2>2, Zenon DEF AccountsInv, CopyOK, CreateCommit
<1>11. QED
  BY <1>6, <1>8, <1>9, <1>10, Zenon DEF AccountsInv

\* The commit of a change of a row: it acts on its own count, or is marked as
\* overtaken, and overtakes every other such change.
LEMMA PatchCommitKeeps ==
    ASSUME AccountsInv, NEW o \in Operators, SetRoleStatusCommit(o)
    PROVE  AccountsInv'
<1>1. PICK c \in Changes : c = change[o]
  BY Zenon DEF AccountsInv, AccountsTyped
<1>2. c.kind = "patch" /\ c.on \in Usernames
  BY <1>1, Zenon DEF AccountsInv, AccountsTyped, SetRoleStatusCommit
<1>3. \A p \in Operators :
          /\ change'[p] \in Changes
          /\ p = o => change'[p].kind = "none"
          /\ p # o => /\ change'[p].kind = change[p].kind /\ change'[p].on = change[p].on
                      /\ change'[p].role = change[p].role
                      /\ change'[p].overtaken = (change[p].overtaken \/ change[p].kind = "patch")
  <2> TAKE p \in Operators
  <2>1. NoChange \in Changes /\ NoChange.kind = "none"
    BY Zenon DEF NoChange, Changes, RoleValues, Statuses, NoRole
  <2>2. PICK d \in Changes : d = change[p]
    BY Zenon DEF AccountsInv, AccountsTyped
  <2>3. change'[p] = IF p = o THEN NoChange
                     ELSE [d EXCEPT !.overtaken = d.overtaken \/ d.kind = "patch"]
    BY <2>2, Zenon DEF SetRoleStatusCommit, Changes
  <2>4. QED
    BY <2>1, <2>2, <2>3, Zenon DEF Changes
<1>4. account'[c.on] = [role |-> IF c.role = Keep THEN account[c.on].role ELSE c.role,
                        status |-> IF c.status = Keep THEN account[c.on].status ELSE c.status]
  BY <1>1, <1>2, Zenon DEF AccountsInv, AccountsTyped, SetRoleStatusCommit
<1>5. \A u \in Usernames : u # c.on => account'[u] = account[u]
  BY <1>1, <1>2, Zenon DEF AccountsInv, AccountsTyped, SetRoleStatusCommit
<1>6. account' \in [Usernames -> [role : RoleValues, status : Statuses]]
  <2>1. account'[c.on] \in [role : RoleValues, status : Statuses]
    BY <1>2, <1>4 DEF AccountsInv, AccountsTyped, Changes
  <2>2. DOMAIN account' = Usernames /\ account' = [u \in Usernames |-> account'[u]]
    BY Zenon DEF AccountsInv, AccountsTyped, SetRoleStatusCommit
  <2>3. QED
    BY <1>5, <2>1, <2>2, Zenon DEF AccountsInv, AccountsTyped
<1>7. up
  BY <1>1, <1>2 DEF AccountsInv, AccountsTyped, NoChange
<1>8. AccountsTyped'
  <2>1. change' \in [Operators -> Changes]
    BY <1>3, Zenon DEF SetRoleStatusCommit
  <2>2. UNCHANGED <<group, liveMap, up>>
    BY Zenon DEF SetRoleStatusCommit
  <2>3. QED
    BY <1>3, <1>6, <1>7, <2>1, <2>2, Zenon DEF AccountsInv, AccountsTyped
<1>9. PatchesOK'
  BY <1>3, Zenon DEF PatchesOK, PatchOK
<1>10. AdminsOK'
  <2> SUFFICES ASSUME "count" \notin outdated' PROVE \E v \in Usernames : ActiveAdmin(v)'
    BY Zenon DEF AdminsOK
  <2>1. "count" \notin outdated /\ ~c.overtaken
    BY <1>1, Zenon DEF SetRoleStatusCommit
  <2>2. PICK v \in Usernames : ActiveAdmin(v)
    BY <1>7, <2>1, Zenon DEF AccountsInv, AdminsOK
  <2>3. CASE v # c.on
    BY <1>5, <2>2, <2>3, Zenon DEF ActiveAdmin
  <2>4. CASE v = c.on /\ Removes(c)
    <3>1. OtherAdmin(c.on)
      BY <1>1, <1>2, <2>1, <2>2, <2>4, Zenon DEF AccountsInv, PatchesOK, PatchOK
    <3>2. QED
      BY <1>5, <3>1, Zenon DEF OtherAdmin, ActiveAdmin
  <2>5. CASE v = c.on /\ ~Removes(c)
    BY <1>4, <2>2, <2>5 DEF Removes, ActiveAdmin
  <2>6. QED
    BY <2>3, <2>4, <2>5, Zenon
<1>11. CopyOK'
  <2>1. UNCHANGED <<group, liveMap, up>> /\ ("map" \in outdated => "map" \in outdated')
    BY Zenon DEF SetRoleStatusCommit
  <2>2. \A p \in Operators : LiveOK(p)'
    BY <1>3, <2>1, Zenon DEF AccountsInv, CopyOK, LiveOK
  <2>3. \A p \in Operators, g \in Groups : Due(p, g) => Due(p, g)'
    BY <1>1, <1>2, <1>3, Zenon DEF Due, Changes
  <2>4. QED
    BY <2>1, <2>2, <2>3, Zenon DEF AccountsInv, CopyOK
<1>12. QED
  BY <1>8, <1>9, <1>10, <1>11, Zenon DEF AccountsInv

\* A row of the mapping changes: the update of the copy is due, and those of
\* earlier changes of the group are overtaken.
LEMMA GroupKeeps ==
    ASSUME AccountsInv, NEW o \in Operators, NEW g \in Groups, NEW r \in Roles \cup {NoRole},
           ChangeGroup(o, g, r)
    PROVE  AccountsInv'
<1>1. PICK c \in Changes : c = Change("live", g, r, "none")
  BY Zenon DEF Change, Changes, RoleValues, Statuses
<1>2. c.kind = "live" /\ c.on = g /\ c.role = r /\ c.overtaken = FALSE
  BY <1>1, Zenon DEF Change
<1>3. \A p \in Operators :
          /\ change'[p] \in Changes
          /\ p = o => change'[p] = c
          /\ p # o => /\ change'[p].kind = change[p].kind /\ change'[p].on = change[p].on
                      /\ change'[p].role = change[p].role /\ change'[p].status = change[p].status
                      /\ change'[p].overtaken = (\/ change[p].overtaken
                                                 \/ change[p].kind = "live" /\ change[p].on = g)
  <2> TAKE p \in Operators
  <2>1. PICK d \in Changes : d = change[p]
    BY Zenon DEF AccountsInv, AccountsTyped
  <2>2. change'[p] = IF p = o THEN c
                     ELSE [d EXCEPT !.overtaken = d.overtaken \/ (d.kind = "live" /\ d.on = g)]
    BY <1>1, <2>1, Zenon DEF ChangeGroup, Changes
  <2>3. QED
    BY <1>1, <2>1, <2>2, Zenon DEF Changes
<1>4. /\ group' \in [Groups -> RoleValues]
      /\ \A h \in Groups : group'[h] = IF h = g THEN r ELSE group[h]
  BY Zenon DEF AccountsInv, AccountsTyped, ChangeGroup, RoleValues
<1>5. up /\ UNCHANGED <<account, liveMap, up, outdated>>
  BY Zenon DEF ChangeGroup
<1>6. AccountsTyped'
  <2>1. change' \in [Operators -> Changes]
    BY <1>3, Zenon DEF ChangeGroup
  <2>2. QED
    BY <1>2, <1>3, <1>4, <1>5, <2>1, Zenon DEF AccountsInv, AccountsTyped
<1>7. PatchesOK'
  <2> SUFFICES ASSUME NEW p \in Operators PROVE PatchOK(p)'
    BY Zenon DEF PatchesOK
  <2>1. CASE p = o
    BY <1>2, <1>3, <2>1, Zenon DEF PatchOK
  <2>2. CASE p # o
    <3>1. PatchOK(p)
      BY Zenon DEF AccountsInv, PatchesOK
    <3>2. QED
      BY <1>3, <1>5, <2>2, <3>1, Zenon DEF PatchOK, ActiveAdmin, OtherAdmin, Removes
  <2>3. QED
    BY <2>1, <2>2, Zenon
<1>8. AdminsOK'
  BY <1>5, Zenon DEF AccountsInv, AdminsOK, ActiveAdmin
<1>9. CopyOK'
  <2>1. ASSUME NEW p \in Operators PROVE LiveOK(p)'
    <3>1. CASE p = o
      BY <1>2, <1>3, <1>4, <3>1, Zenon DEF LiveOK
    <3>2. CASE p # o
      <4>1. LiveOK(p) /\ (change[p].kind = "live" => change[p].on \in Groups)
        BY Zenon DEF AccountsInv, AccountsTyped, CopyOK
      <4>2. change'[p].kind = "live" /\ ~change'[p].overtaken
                => change[p].kind = "live" /\ ~change[p].overtaken /\ change[p].on # g
        BY <1>3, <3>2, Zenon
      <4>3. change'[p].on = change[p].on /\ change'[p].role = change[p].role
        BY <1>3, <3>2, Zenon
      <4>4. QED
        BY <1>4, <4>1, <4>2, <4>3, Zenon DEF LiveOK
    <3>3. QED
      BY <3>1, <3>2
  <2>2. Due(o, g)'
    BY <1>2, <1>3, Zenon DEF Due
  <2>3. \A p \in Operators, h \in Groups : h # g /\ Due(p, h) => Due(p, h)'
    <3>1. change[o].kind # "live"
      BY DEF ChangeGroup, NoChange
    <3>2. SUFFICES ASSUME NEW p \in Operators, NEW h \in Groups, h # g, Due(p, h)
                   PROVE  Due(p, h)'
      BY Zenon
    <3>3. p # o
      BY <3>1, <3>2, Zenon DEF Due
    <3>4. QED
      BY <1>3, <3>2, <3>3, Zenon DEF Due
  <2>4. QED
    BY <1>4, <1>5, <2>1, <2>2, <2>3, Zenon DEF AccountsInv, CopyOK
<1>10. QED
  BY <1>6, <1>7, <1>8, <1>9, Zenon DEF AccountsInv

\* The copy gets the role of a change that is still the latest of its group, or
\* the step is marked as overtaken.
LEMMA UpdateKeeps ==
    ASSUME AccountsInv, NEW o \in Operators, UpdateLiveMap(o)
    PROVE  AccountsInv'
<1>1. \A p \in Operators : change'[p] = IF p = o THEN NoChange ELSE change[p]
  BY Zenon DEF AccountsInv, AccountsTyped, UpdateLiveMap
<1>2. NoChange \in Changes /\ NoChange.kind = "none"
  BY DEF NoChange, Changes, RoleValues, Statuses, NoRole
<1>3. PICK c \in Changes : c = change[o]
  BY DEF AccountsInv, AccountsTyped
<1>4. c.kind = "live" /\ c.on \in Groups
  BY <1>3, Zenon DEF AccountsInv, AccountsTyped, UpdateLiveMap
<1>5. /\ liveMap' \in [Groups -> RoleValues]
      /\ \A g \in Groups : liveMap'[g] = IF g = c.on THEN c.role ELSE liveMap[g]
  BY <1>3, <1>4, Zenon DEF AccountsInv, AccountsTyped, UpdateLiveMap, Changes
<1>6. UNCHANGED <<account, group, up>>
  BY Zenon DEF UpdateLiveMap
<1>7. up
  BY <1>2, <1>3, <1>4, Zenon DEF AccountsInv, AccountsTyped
<1>8. AccountsTyped'
  <2>1. change' \in [Operators -> Changes]
    BY <1>2, Zenon DEF AccountsInv, AccountsTyped, UpdateLiveMap
  <2>2. QED
    BY <1>1, <1>2, <1>5, <1>6, <1>7, <2>1, Zenon DEF AccountsInv, AccountsTyped
<1>9. PatchesOK'
  <2> SUFFICES ASSUME NEW p \in Operators PROVE PatchOK(p)'
    BY Zenon DEF PatchesOK
  <2>1. CASE p = o
    BY <1>1, <1>2, <2>1, Zenon DEF PatchOK
  <2>2. CASE p # o
    <3>1. PatchOK(p)
      BY Zenon DEF AccountsInv, PatchesOK
    <3>2. QED
      BY <1>1, <1>6, <2>2, <3>1, Zenon DEF PatchOK, ActiveAdmin, OtherAdmin
  <2>3. QED
    BY <2>1, <2>2, Zenon
<1>10. AdminsOK'
  <2>1. "count" \in outdated => "count" \in outdated'
    BY Zenon DEF UpdateLiveMap
  <2>2. QED
    BY <1>6, <2>1, Zenon DEF AccountsInv, AdminsOK, ActiveAdmin
<1>11. CopyOK'
  <2>1. \A p \in Operators : LiveOK(p)'
    BY <1>1, <1>2, <1>6, Zenon DEF AccountsInv, CopyOK, LiveOK
  <2>2. ASSUME "map" \notin outdated', NEW g \in Groups
        PROVE  liveMap'[g] = group[g] \/ \E p \in Operators : Due(p, g)'
    <3>1. "map" \notin outdated /\ ~c.overtaken
      BY <1>3, <2>2, Zenon DEF UpdateLiveMap
    <3>2. CASE g = c.on
      BY <1>3, <1>4, <1>5, <3>1, <3>2, Zenon DEF AccountsInv, CopyOK, LiveOK
    <3>3. CASE g # c.on
      <4>1. \A p \in Operators : Due(p, g) => Due(p, g)'
        BY <1>1, <1>3, <3>3, Zenon DEF Due
      <4>2. QED
        BY <1>5, <1>7, <3>1, <3>3, <4>1, Zenon DEF AccountsInv, CopyOK
    <3>4. QED
      BY <3>2, <3>3, Zenon
  <2>3. QED
    BY <1>6, <2>1, <2>2, Zenon DEF CopyOK
<1>12. QED
  BY <1>8, <1>9, <1>10, <1>11 DEF AccountsInv

\* The invariant holds throughout.
LEMMA AccountsAlways == AccountsSpec => []AccountsInv
<1>1. AccountsInv /\ UNCHANGED accountVars => AccountsInv'
  <2> SUFFICES ASSUME AccountsInv, UNCHANGED accountVars PROVE AccountsInv'
    BY Zenon
  <2>1. UNCHANGED <<account, group, liveMap, change, up, restarts, outdated>>
    BY Zenon DEF accountVars
  <2>2. AccountsTyped'
    BY <2>1, Zenon DEF AccountsInv, AccountsTyped
  <2>3. PatchesOK'
    BY <2>1, Zenon DEF AccountsInv, PatchesOK, PatchOK, ActiveAdmin, OtherAdmin
  <2>4. AdminsOK'
    BY <2>1, Zenon DEF AccountsInv, AdminsOK, ActiveAdmin
  <2>5. CopyOK'
    BY <2>1, Zenon DEF AccountsInv, CopyOK, LiveOK, Due
  <2> QED
    BY <2>2, <2>3, <2>4, <2>5, Zenon DEF AccountsInv
<1>2. ASSUME AccountsInv, NEW o \in Operators, OperatorStep(o) PROVE AccountsInv'
  BY <1>2, CreateKeeps, PatchKeeps, GroupKeeps, CreateCommitKeeps, PatchCommitKeeps, UpdateKeeps, Zenon
  DEF OperatorStep
<1>3. AccountsInv /\ AccountsNext => AccountsInv'
  BY <1>2, BootKeeps, StopKeeps, Zenon DEF AccountsNext
<1>4. QED
  BY <1>1, <1>3, AccountsInitially, PTL DEF AccountsSpec

\* Whatever the operators change and however often the process restarts, an
\* active administrator is left, unless a commit acts on an overtaken count.
THEOREM AnAdministratorRemains == AccountsSpec => []AdminRemains
<1>1. AccountsInv => AdminRemains
  BY Zenon DEF AccountsInv, AdminsOK, AdminRemains
<1>2. QED
  BY <1>1, AccountsAlways, PTL

\* With no update of the copy under way, the copy of the mapping in the
\* process is the stored one, unless an update was overtaken.
THEOREM TheCopyFollows == AccountsSpec => []MapFollowsRows
<1>1. AccountsInv => MapFollowsRows
  <2> SUFFICES ASSUME AccountsInv, up, "map" \notin outdated,
                      \A o \in Operators : change[o].kind # "live"
               PROVE  liveMap = group
    BY Zenon DEF MapFollowsRows
  <2>1. \A g \in Groups : liveMap[g] = group[g]
    BY Zenon DEF AccountsInv, CopyOK, Due
  <2>2. QED
    BY <2>1 DEF AccountsInv, AccountsTyped
<1>2. QED
  BY <1>1, AccountsAlways, PTL

-----------------------------------------------------------------------------
(***************************************************************************)
(* BreakGlass                                                              *)
(***************************************************************************)

Armings == 1 .. MaxArmings

GlassTyped ==
    /\ armings \in 0 .. MaxArmings
    /\ armed \in 0 .. armings /\ used \in 0 .. armings
    /\ activating \in [Activators -> {"idle", "arm", "clear"}]
    /\ attempt \in [Logins -> 0 .. armings]
    /\ sessions \in [Armings -> Nat] /\ wiped \in [Armings -> Nat]

\* The arming a claim would go to: the one that stands or, when its key has
\* expired, one that a login under way has seen.
Usable(n) == n = armed \/ (armed = 0 /\ \E l \in Logins : attempt[l] = n)

\* Of a usable arming each session but the one under the present claim was
\* paid for by a wiped claim; others get no session any more.
SessionsOK ==
    \A n \in Armings :
        /\ Usable(n) => sessions[n] <= wiped[n] + (IF used = n THEN 1 ELSE 0)
        /\ sessions[n] <= 1 + wiped[n]
        /\ n > armings => sessions[n] = 0 /\ wiped[n] = 0

\* The arming of an activation that has its DELETE before it still stands, or a
\* later one does.
ClearsOK == \A a \in Activators : activating[a] = "clear" => armed # 0

GlassInv == GlassTyped /\ SessionsOK /\ ClearsOK

\* Nothing is armed at first.
LEMMA GlassInitially == GlassInit => GlassInv
BY ArmingsAssumption DEF GlassInit, GlassInv, GlassTyped, SessionsOK, ClearsOK, Armings, Usable

\* Arming takes a number that no session was opened under.
LEMMA ArmKeeps ==
    ASSUME GlassInv, NEW a \in Activators, Arm(a)
    PROVE  GlassInv'
<1>1. GlassTyped'
  BY ArmingsAssumption DEF GlassInv, GlassTyped, Arm
<1>2. SessionsOK'
  <2> SUFFICES ASSUME NEW n \in Armings
               PROVE  /\ Usable(n)' => sessions[n] <= wiped[n] + (IF used = n THEN 1 ELSE 0)
                      /\ sessions[n] <= 1 + wiped[n]
                      /\ n > armings + 1 => sessions[n] = 0 /\ wiped[n] = 0
    BY Zenon DEF SessionsOK, Arm
  <2>1. Usable(n)' => n > armings
    BY DEF Usable, Arm, GlassInv, GlassTyped, Armings
  <2>2. sessions[n] \in Nat /\ wiped[n] \in Nat /\ armings \in Nat /\ n \in Nat
    BY DEF GlassInv, GlassTyped, Armings
  <2>3. QED
    BY <2>1, <2>2 DEF GlassInv, SessionsOK
<1>3. ClearsOK'
  BY DEF GlassInv, GlassTyped, ClearsOK, Arm
<1>4. QED
  BY <1>1, <1>2, <1>3, Zenon DEF GlassInv

\* The DELETE takes a claim away: of the arming that stands, and then it is
\* counted, or of one that no claim can go to.
LEMMA ClearKeeps ==
    ASSUME GlassInv, NEW a \in Activators, ClearUsed(a)
    PROVE  GlassInv'
<1>1. armed # 0 /\ armed \in Armings /\ used \in 0 .. MaxArmings
  BY ArmingsAssumption DEF GlassInv, GlassTyped, ClearsOK, ClearUsed, Armings
<1>2. wiped' \in [Armings -> Nat]
  BY <1>1 DEF GlassInv, GlassTyped, ClearUsed
<1>3. GlassTyped'
  BY <1>2 DEF GlassInv, GlassTyped, ClearUsed
<1>4. \A n \in Armings : wiped'[n] = IF n = used /\ used = armed THEN wiped[n] + 1 ELSE wiped[n]
  BY <1>1, Zenon DEF GlassInv, GlassTyped, ClearUsed, Armings
<1>5. SessionsOK'
  <2> SUFFICES ASSUME NEW n \in Armings
               PROVE  /\ n = armed => sessions[n] <= wiped'[n]
                      /\ sessions[n] <= 1 + wiped'[n]
                      /\ n > armings => sessions[n] = 0 /\ wiped'[n] = 0
    <3>1. used' = 0 /\ sessions' = sessions /\ armings' = armings
      BY Zenon DEF ClearUsed
    <3>2. \A k \in Armings : k # 0
      BY DEF Armings
    <3>3. \A k \in Armings : wiped'[k] \in Nat /\ (Usable(k)' => k = armed)
      BY <1>1, <1>2, Zenon DEF Usable, ClearUsed
    <3>4. QED
      BY <3>1, <3>2, <3>3 DEF SessionsOK
  <2>1. sessions[n] \in Nat /\ wiped[n] \in Nat /\ armings \in Nat /\ n \in Nat
    BY DEF GlassInv, GlassTyped, Armings
  <2>2. CASE n = armed
    BY <1>4, <2>1, <2>2 DEF GlassInv, GlassTyped, SessionsOK, Usable
  <2>3. CASE n # armed
    BY <1>4, <2>1, <2>3, Zenon DEF GlassInv, SessionsOK
  <2>4. QED
    BY <2>2, <2>3, Zenon
<1>6. ClearsOK'
  BY <1>1, Zenon DEF GlassInv, ClearsOK, ClearUsed
<1>7. QED
  BY <1>3, <1>5, <1>6 DEF GlassInv

\* When the armed key expires, the logins under way have seen that arming.
LEMMA ArmingExpiryKeeps ==
    ASSUME GlassInv, ArmingExpires
    PROVE  GlassInv'
<1>1. GlassTyped' /\ ClearsOK'
  BY DEF GlassInv, GlassTyped, ClearsOK, ArmingExpires
<1>2. \A n \in Armings : Usable(n)' => n = armed
  BY DEF ArmingExpires, Usable, Armings
<1>3. SessionsOK'
  BY <1>2, Zenon DEF GlassInv, SessionsOK, Usable, ArmingExpires
<1>4. QED
  BY <1>1, <1>3, Zenon DEF GlassInv

\* A claim that expires is one of an arming nobody can use.
LEMMA ClaimExpiryKeeps ==
    ASSUME GlassInv, ClaimExpires
    PROVE  GlassInv'
<1>1. GlassTyped' /\ ClearsOK'
  BY DEF GlassInv, GlassTyped, ClearsOK, ClaimExpires
<1>2. \A n \in Armings : Usable(n)' => Usable(n) /\ n # used
  BY Zenon DEF ClaimExpires, Usable, Armings
<1>3. SessionsOK'
  <2>1. used' = 0 /\ UNCHANGED <<sessions, wiped, armings>>
    BY Zenon DEF ClaimExpires
  <2>2. \A n \in Armings : n # 0 /\ wiped[n] \in Nat
    BY DEF GlassInv, GlassTyped, Armings
  <2>3. QED
    BY <1>2, <2>1, <2>2, Zenon DEF GlassInv, SessionsOK
<1>4. QED
  BY <1>1, <1>3 DEF GlassInv

\* A login sees the arming that stands.
LEMMA SeeKeeps ==
    ASSUME GlassInv, NEW l \in Logins, SeeArmed(l)
    PROVE  GlassInv'
<1>1. GlassTyped' /\ ClearsOK'
  BY Zenon DEF GlassInv, GlassTyped, ClearsOK, SeeArmed
<1>2. \A n \in Armings : Usable(n)' => Usable(n)
  BY Zenon DEF SeeArmed, Usable
<1>3. SessionsOK'
  BY <1>2, Zenon DEF GlassInv, SessionsOK, SeeArmed
<1>4. QED
  BY <1>1, <1>3, Zenon DEF GlassInv

\* SET NX: a session is opened only under a claim that was free.
LEMMA ClaimKeeps ==
    ASSUME GlassInv, NEW l \in Logins, NEW valid \in BOOLEAN, Claim(l, valid)
    PROVE  GlassInv'
<1> DEFINE m == IF armed # 0 THEN armed ELSE attempt[l]
<1>1. /\ m \in Armings /\ m \in 1 .. armings /\ Usable(m)
      /\ attempt' = [attempt EXCEPT ![l] = 0]
      /\ armed' = armed /\ activating' = activating /\ armings' = armings /\ wiped' = wiped
  BY ArmingsAssumption DEF GlassInv, GlassTyped, Claim, Armings, Usable
<1>2. \A n \in Armings : Usable(n)' => Usable(n)
  BY <1>1, Zenon DEF GlassInv, GlassTyped, Usable, Armings
<1>3. ClearsOK'
  BY <1>1, Zenon DEF GlassInv, ClearsOK
<1>4. CASE UNCHANGED <<used, sessions>>
  <2>1. GlassTyped'
    BY <1>1, <1>4 DEF GlassInv, GlassTyped
  <2>2. SessionsOK'
    BY <1>1, <1>2, <1>4, Zenon DEF GlassInv, SessionsOK
  <2>3. QED
    BY <1>3, <2>1, <2>2, Zenon DEF GlassInv
<1>5. CASE used = 0 /\ used' = m
              /\ sessions' = [sessions EXCEPT ![m] = IF valid THEN @ + 1 ELSE @]
  <2> HIDE DEF m
  <2>1. sessions' \in [Armings -> Nat]
    BY <1>1, <1>5 DEF GlassInv, GlassTyped
  <2>2. GlassTyped'
    BY <1>1, <1>5, <2>1 DEF GlassInv, GlassTyped
  <2>3. SessionsOK'
    <3> SUFFICES ASSUME NEW n \in Armings
                 PROVE  /\ Usable(n)' => sessions'[n] <= wiped[n] + (IF m = n THEN 1 ELSE 0)
                        /\ sessions'[n] <= 1 + wiped[n]
                        /\ n > armings => sessions'[n] = 0 /\ wiped[n] = 0
      BY <1>1, <1>5, Zenon DEF SessionsOK
    <3>1. sessions[n] \in Nat /\ wiped[n] \in Nat /\ armings \in Nat /\ n \in Nat
      BY DEF GlassInv, GlassTyped, Armings
    <3>2. CASE n = m
      <4>1. sessions[n] <= wiped[n]
        BY <1>1, <1>5, <3>1, <3>2 DEF GlassInv, SessionsOK, Armings
      <4>2. sessions'[n] <= sessions[n] + 1
        BY <1>1, <1>5, <3>1, <3>2 DEF GlassInv, GlassTyped
      <4>3. sessions'[n] \in Nat /\ ~(n > armings)
        BY <1>1, <2>1, <3>1, <3>2
      <4>4. QED
        BY <3>1, <3>2, <4>1, <4>2, <4>3
    <3>3. CASE n # m
      <4>1. sessions'[n] = sessions[n] /\ n # used
        BY <1>1, <1>5, <3>3 DEF GlassInv, GlassTyped, Armings
      <4>2. QED
        BY <1>2, <3>1, <3>3, <4>1, Zenon DEF GlassInv, SessionsOK
    <3>4. QED
      BY <3>2, <3>3, Zenon
  <2>4. QED
    BY <1>3, <2>2, <2>3 DEF GlassInv
<1>6. QED
  BY <1>4, <1>5, Zenon DEF Claim

\* The invariant is inductive.
LEMMA GlassStep == GlassInv /\ [GlassNext]_glassVars => GlassInv'
<1> SUFFICES ASSUME GlassInv, [GlassNext]_glassVars PROVE GlassInv'
  BY Zenon
<1>1. ASSUME NEW a \in Activators, CheckArmed(a) \/ ActivatorDies(a) PROVE GlassInv'
  BY <1>1, Zenon DEF CheckArmed, ActivatorDies, GlassInv, GlassTyped, SessionsOK, Usable, ClearsOK
<1>2. CASE UNCHANGED glassVars
  BY <1>2, Zenon DEF glassVars, GlassInv, GlassTyped, SessionsOK, Usable, ClearsOK
<1>3. QED
  BY <1>1, <1>2, ArmKeeps, ClearKeeps, ArmingExpiryKeeps, ClaimExpiryKeeps, SeeKeeps, ClaimKeeps, Zenon
     DEF GlassNext

\* One login per arming (authenticate_breakglass, activate_breakglass): more
\* sessions under an arming than one need as many claims that an activation's
\* DELETE wiped while it stood.
THEOREM ArmingIsSingleUse == GlassSpec => []OneLoginPerArming
<1>1. GlassInv => OneLoginPerArming
  BY Zenon DEF GlassInv, SessionsOK, OneLoginPerArming, Armings
<1>2. QED
  BY GlassInitially, GlassStep, <1>1, PTL DEF GlassSpec

-----------------------------------------------------------------------------
(***************************************************************************)
(* BrowserSession                                                          *)
(***************************************************************************)

\* Every session cookie expires before the CSRF cookie, whichever login wrote
\* that one last.
CookiesOK ==
    /\ ttlEnv \in [{"local", "breakglass"} -> 0 .. CsrfMaxAge]
    /\ csrf \in 0 .. CsrfMaxAge /\ cookie \in [Kinds -> Nat]
    /\ \A k \in Kinds : cookie[k] <= csrf

\* A browser starts without cookies, under lifetimes the import accepted.
LEMMA BrowserStartsClean == BrowserInit => CookiesOK
BY BrowserAssumption DEF BrowserInit, CookiesOK, SessionTtlFromEnv

\* A login gives the CSRF cookie an age no session cookie exceeds.
LEMMA LoginCookies ==
    ASSUME CookiesOK, NEW k \in Kinds, Cookies(k), UNCHANGED ttlEnv
    PROVE  CookiesOK'
<1>1. Ttl(k) \in 0 .. CsrfMaxAge
  BY BrowserAssumption DEF Ttl, CookiesOK, Kinds, RedisKinds
<1>2. /\ cookie' = [cookie EXCEPT ![k] = Ttl(k)] /\ csrf' = CsrfMaxAge
  BY Zenon DEF Cookies, CsrfAge
<1> QED
  BY <1>1, <1>2, BrowserAssumption DEF CookiesOK

\* Every other step writes both cookies or none, and time is the same for all.
LEMMA CookiesStep == CookiesOK /\ [BrowserNext]_browserVars => CookiesOK'
<1> SUFFICES ASSUME CookiesOK, [BrowserNext]_browserVars PROVE CookiesOK'
  OBVIOUS
<1>1. ASSUME NEW k \in Kinds, PasswordLogin(k) PROVE CookiesOK'
  BY <1>1, LoginCookies, Zenon DEF PasswordLogin
<1>2. ASSUME NEW valid \in BOOLEAN, SamlAcs(valid) \/ OidcCallback(valid) PROVE CookiesOK'
  <2>1. "saml" \in Kinds /\ "oidc" \in Kinds
    BY Zenon DEF Kinds, RedisKinds
  <2>2. CASE valid
    BY <1>2, <2>1, <2>2, LoginCookies, Zenon DEF SamlAcs, OidcCallback
  <2>3. CASE ~valid
    BY <1>2, <2>3, Zenon DEF SamlAcs, OidcCallback, CookiesOK
  <2> QED
    BY <2>2, <2>3, Zenon
<1>3. CASE Logout
  BY <1>3, BrowserAssumption DEF Logout, CookiesOK
<1>4. CASE BrowserTick
  BY <1>4, BrowserAssumption DEF BrowserTick, Less, CookiesOK
<1>5. CASE \/ \E k \in DOMAIN outstanding : BeginAuthorization(k)
           \/ AskProvider \/ KeepAnswer \/ ProviderFails \/ RevokeToken
           \/ UNCHANGED browserVars
  <2>1. UNCHANGED <<ttlEnv, cookie, csrf>>
    BY <1>5, Zenon DEF BeginAuthorization, AskProvider, KeepAnswer, ProviderFails, RevokeToken, browserVars
  <2> QED
    BY <2>1, Zenon DEF CookiesOK
<1> QED
  BY <1>1, <1>2, <1>3, <1>4, <1>5, Zenon DEF BrowserNext

\* While the browser sends a session cookie it has a CSRF cookie to send with
\* it, for every set of lifetimes the start-up checks accept.
THEOREM WritesStayPossible == BrowserSpec => []CsrfOutlivesSession
<1>1. CookiesOK => CsrfOutlivesSession
  BY DEF CookiesOK, CsrfOutlivesSession
<1> QED
  BY <1>1, BrowserStartsClean, CookiesStep, PTL DEF BrowserSpec

\* The answer on its way and the answer kept are no older than the provider's
\* refusal by more than they have been under way and kept.
Calls == [active : BOOLEAN, waited : 0 .. HttpTimeout]

AnswersOK ==
    /\ token \in [exp : Nat, active : BOOLEAN, gone : Nat]
    /\ cached \in [active : BOOLEAN, left : 0 .. (CacheTtl + 1)]
    /\ asking \in Calls \cup {NoCall}
    /\ ~token.active /\ asking # NoCall /\ asking.active => token.gone <= asking.waited
    /\ ~token.active /\ cached.left > 0 /\ cached.active
           => token.gone + cached.left <= CacheTtl + 1 + HttpTimeout

\* There is no answer at first.
LEMMA NoAnswerAtFirst == BrowserInit => AnswersOK
BY BrowserAssumption DEF BrowserInit, AnswersOK, NoAnswer, NoCall, LongGone

\* A call in flight is none of those that are not.
LEMMA CallsAreCalls ==
    ASSUME NEW c \in Calls
    PROVE  c # NoCall /\ c.waited \in 0 .. HttpTimeout
BY BrowserAssumption DEF Calls, NoCall

\* An answer fetched before the refusal is refused its turn in time.
LEMMA AnswersStep == AnswersOK /\ [BrowserNext]_browserVars => AnswersOK'
<1> SUFFICES ASSUME AnswersOK, [BrowserNext]_browserVars PROVE AnswersOK'
  OBVIOUS
<1>0. /\ CacheTtl \in Nat /\ HttpTimeout \in Nat /\ TokenLife \in Nat
      /\ token.exp \in Nat /\ token.gone \in Nat /\ cached.left \in 0 .. (CacheTtl + 1)
      /\ asking # NoCall => asking \in Calls
  BY BrowserAssumption, Zenon DEF AnswersOK
<1>1. CASE \E valid \in BOOLEAN : OidcCallback(valid)
  <2>1. CASE UNCHANGED <<token, cached, asking>>
    BY <2>1, Zenon DEF AnswersOK
  <2>2. CASE /\ token' = [exp |-> TokenLife, active |-> TRUE, gone |-> 0]
             /\ cached' = NoAnswer /\ asking' = NoCall
    BY <1>0, <2>2 DEF AnswersOK, NoAnswer
  <2> QED
    BY <1>1, <2>1, <2>2, Zenon DEF OidcCallback
<1>2. CASE AskProvider
  <2> DEFINE call == [active |-> token.active /\ token.exp > 0, waited |-> 0]
  <2>1. asking' = call /\ UNCHANGED <<token, cached>>
    BY <1>2, Zenon DEF AskProvider
  <2>2. (token.active /\ token.exp > 0) \in BOOLEAN
    BY Zenon
  <2>3. call.active => token.active
    BY Zenon
  <2>4. 0 \in 0 .. HttpTimeout
    BY <1>0
  <2>5. call \in Calls
    BY <2>2, <2>4, Zenon DEF Calls
  <2> HIDE DEF call
  <2> QED
    BY <2>1, <2>3, <2>5, Zenon DEF AnswersOK
<1>3. CASE KeepAnswer
  <2>1. /\ asking \in Calls /\ asking' = NoCall /\ token' = token
        /\ cached' = [active |-> asking.active, left |-> CacheTtl + 1]
    BY <1>0, <1>3, Zenon DEF KeepAnswer
  <2>2. cached'.active = asking.active /\ cached'.left = CacheTtl + 1
    BY <2>1, Zenon
  <2>3. cached' \in [active : BOOLEAN, left : 0 .. (CacheTtl + 1)]
    BY <1>0, <2>1 DEF Calls
  <2>4. ~token.active /\ asking.active => token.gone <= HttpTimeout
    BY <1>0, <1>3, <2>1, CallsAreCalls DEF AnswersOK, KeepAnswer
  <2> QED
    BY <1>0, <2>1, <2>2, <2>3, <2>4 DEF AnswersOK
<1>4. CASE ProviderFails
  BY <1>4, Zenon DEF ProviderFails, AnswersOK
<1>5. CASE RevokeToken
  <2>1. token' = [token EXCEPT !.active = FALSE, !.gone = 0] /\ UNCHANGED <<cached, asking>>
    BY <1>5, Zenon DEF RevokeToken
  <2>2. token' \in [exp : Nat, active : BOOLEAN, gone : Nat] /\ token'.gone = 0
    BY <2>1, Zenon DEF AnswersOK
  <2>3. asking # NoCall => asking.waited >= 0
    BY <1>0, CallsAreCalls
  <2> QED
    BY <1>0, <2>1, <2>2, <2>3 DEF AnswersOK
<1>6. CASE BrowserTick
  <2>1. /\ token' \in [exp : Nat, active : BOOLEAN, gone : Nat]
        /\ token'.active = token.active /\ token'.gone <= token.gone + 1
    <3> DEFINE te == Less(token.exp)
               tg == IF ~token.active /\ token.gone < LongGone THEN token.gone + 1 ELSE token.gone
    <3>1. te \in Nat /\ tg \in Nat /\ tg <= token.gone + 1
      BY <1>0 DEF Less
    <3>2. token' = [token EXCEPT !.exp = te, !.gone = tg]
      BY <1>6, Zenon DEF BrowserTick
    <3>3. token \in [exp : Nat, active : BOOLEAN, gone : Nat]
      BY Zenon DEF AnswersOK
    <3> HIDE DEF te, tg
    <3>4. token' \in [exp : Nat, active : BOOLEAN, gone : Nat] /\ token'.active = token.active
      BY <3>1, <3>2, <3>3, Zenon
    <3>5. token'.gone = tg
      BY <3>2, <3>3, Zenon
    <3> QED
      BY <3>1, <3>4, <3>5, Zenon
  <2>2. \/ cached' = NoAnswer
        \/ /\ cached.left > 1 /\ cached' = [cached EXCEPT !.left = @ - 1]
    BY <1>6, Zenon DEF BrowserTick
  <2>3. \/ asking' = NoCall
        \/ /\ asking \in Calls /\ asking # NoCall /\ asking.waited < HttpTimeout
           /\ asking' = [asking EXCEPT !.waited = @ + 1]
    BY <1>0, <1>6, Zenon DEF BrowserTick
  <2>4. /\ asking' \in Calls \cup {NoCall}
        /\ asking' # NoCall => /\ asking # NoCall /\ asking'.active = asking.active
                              /\ asking \in Calls /\ asking'.waited = asking.waited + 1
    BY <1>0, <2>3 DEF Calls
  <2>5. ~token'.active /\ asking' # NoCall /\ asking'.active => token'.gone <= asking'.waited
    <3> SUFFICES ASSUME ~token'.active, asking' # NoCall, asking'.active
                 PROVE  token'.gone <= asking'.waited
      BY Zenon
    <3>1. token.gone <= asking.waited
      BY <2>1, <2>4, Zenon DEF AnswersOK
    <3> QED
      BY <1>0, <2>1, <2>4, <3>1, CallsAreCalls
  <2>6. /\ cached' \in [active : BOOLEAN, left : 0 .. (CacheTtl + 1)]
        /\ cached'.left > 0 => /\ cached.left > 1 /\ cached'.active = cached.active
                              /\ cached'.left = cached.left - 1
    <3>1. cached \in [active : BOOLEAN, left : 0 .. (CacheTtl + 1)]
      BY Zenon DEF AnswersOK
    <3>2. CASE cached' = NoAnswer
      <4>1. 0 \in 0 .. (CacheTtl + 1) /\ NoAnswer.left = 0
        BY <1>0 DEF NoAnswer
      <4>2. NoAnswer \in [active : BOOLEAN, left : 0 .. (CacheTtl + 1)]
        BY <4>1, Zenon DEF NoAnswer
      <4> QED
        BY <3>2, <4>1, <4>2
    <3>3. CASE cached.left > 1 /\ cached' = [cached EXCEPT !.left = @ - 1]
      <4> DEFINE l == cached.left - 1
      <4>1. l \in 0 .. (CacheTtl + 1)
        BY <1>0, <3>3
      <4>2. cached' = [cached EXCEPT !.left = l]
        BY <3>3, Zenon
      <4>3. cached'.left = l
        BY <3>1, <4>2, Zenon
      <4> HIDE DEF l
      <4>4. /\ cached' \in [active : BOOLEAN, left : 0 .. (CacheTtl + 1)]
            /\ cached'.active = cached.active
        BY <3>1, <4>1, <4>2, Zenon
      <4> QED
        BY <3>3, <4>3, <4>4, Zenon DEF l
    <3> QED
      BY <2>2, <3>2, <3>3, Zenon
  <2>7. ~token'.active /\ cached'.left > 0 /\ cached'.active
            => token'.gone + cached'.left <= CacheTtl + 1 + HttpTimeout
    <3> SUFFICES ASSUME ~token'.active, cached'.left > 0, cached'.active
                 PROVE  token'.gone + cached'.left <= CacheTtl + 1 + HttpTimeout
      BY Zenon
    <3>1. token.gone + cached.left <= CacheTtl + 1 + HttpTimeout
      <4>1. ~token.active /\ cached.active /\ cached.left > 1
        BY <2>1, <2>6, Zenon
      <4>2. cached.left > 0
        BY <1>0, <4>1
      <4> QED
        BY <4>1, <4>2, Zenon DEF AnswersOK
    <3>2. token'.gone \in Nat
      BY <2>1, Zenon
    <3> QED
      BY <1>0, <2>1, <2>6, <3>1, <3>2
  <2> QED
    BY <2>1, <2>4, <2>5, <2>6, <2>7, Zenon DEF AnswersOK
<1>7. CASE \/ \E k \in Kinds : PasswordLogin(k)
           \/ \E k \in DOMAIN outstanding : BeginAuthorization(k)
           \/ \E valid \in BOOLEAN : SamlAcs(valid)
           \/ Logout \/ UNCHANGED browserVars
  <2>1. UNCHANGED <<token, cached, asking>>
    BY <1>7, Zenon DEF PasswordLogin, BeginAuthorization, SamlAcs, Logout, browserVars
  <2> QED
    BY <2>1, Zenon DEF AnswersOK
<1> QED
  BY <1>1, <1>2, <1>3, <1>4, <1>5, <1>6, <1>7, Zenon DEF BrowserNext

\* A token the provider has refused is let in by a kept answer for at most the
\* cache's lifetime and one call's, whatever the two are.
THEOREM RefusalArrives == BrowserSpec => []RevocationTakesEffect
<1>1. AnswersOK => RevocationTakesEffect
  <2> SUFFICES ASSUME AnswersOK, cached.left > 0, cached.active, ~token.active
               PROVE  token.gone <= CacheTtl + HttpTimeout
    BY Zenon DEF RevocationTakesEffect, Admits
  <2>1. /\ CacheTtl \in Nat /\ HttpTimeout \in Nat /\ token.gone \in Nat
        /\ cached.left \in 0 .. (CacheTtl + 1)
    BY BrowserAssumption, Zenon DEF AnswersOK
  <2> QED
    BY <2>1 DEF AnswersOK
<1> QED
  BY <1>1, NoAnswerAtFirst, AnswersStep, PTL DEF BrowserSpec

(***************************************************************************)
(* Submission                                                              *)
(***************************************************************************)

Ats == {"new", "insert", "associate", "produce", "commit", "answered", "failed"}
Joined == {"associate", "produce", "commit", "answered"}      \* has a job
Listed == {"produce", "commit", "answered"}                   \* has a submitter's row

Callers == {a.who : a \in Asks} \cup {"none"}
Tiers == {a.tier : a \in Asks} \cup {"none", RescanTier}
Scans == Requests \cup {"rescan", "none"}

SubmissionTyped ==
    /\ req \in [Requests -> [at : Ats, who : Callers, key : CacheKeys \cup {<<>>},
                             tier : Tiers, scan : Scans]]
    /\ jobRow \in [CacheKeys -> [scan : Scans, tier : Tiers, by : Scans]]
    /\ submitterRow \subseteq [scan : Scans, who : Callers, tier : Tiers, by : Requests]
    /\ committed \subseteq Requests \cup {"rescan"}

\* The writer of a job is a rescan, or a request for that key which has it.
JobOK(k) ==
    /\ jobRow[k].scan = jobRow[k].by
    /\ k[1] \in storedArtifact
    /\ \/ jobRow[k].by = "rescan" /\ "rescan" \in committed
       \/ /\ jobRow[k].by \in Requests
          /\ req[jobRow[k].by].key = k /\ req[jobRow[k].by].at \in Joined

JobsOK ==
    /\ \A k \in CacheKeys : jobRow[k] # NoJobRow => JobOK(k)
    /\ \A j, k \in CacheKeys : jobRow[j].by = "rescan" /\ jobRow[k].by = "rescan" => j = k

\* A request has the job of its key, written by itself or for good, and from
\* then on a row that lists its caller, likewise.
RequestOK(r) ==
    /\ req[r].at = "answered" <=> r \in committed
    /\ req[r].at = "insert" => req[r].key \in CacheKeys /\ req[r].scan = r
    /\ req[r].at \in Joined =>
           /\ req[r].key \in CacheKeys /\ jobRow[req[r].key] # NoJobRow
           /\ jobRow[req[r].key].scan = req[r].scan
           /\ jobRow[req[r].key].by \in committed \cup {r}
    /\ req[r].at \in Listed =>
           \E row \in RowsOf(req[r].scan, req[r].who) : row.by \in committed \cup {r}

RequestsOK == \A r \in Requests : RequestOK(r)

\* A row says what its writer asked for.
RowOK(row) ==
    /\ req[row.by].at \in Listed
    /\ row.who = req[row.by].who /\ row.tier = req[row.by].tier /\ row.scan = req[row.by].scan

RowsAreTrue == \A row \in submitterRow : RowOK(row)

SubmissionInv == SubmissionTyped /\ JobsOK /\ RequestsOK /\ RowsAreTrue

USE RequestNames

\* No request and no row at first.
LEMMA SubmissionInitially == SubmissionInit => SubmissionInv
<1> SUFFICES ASSUME SubmissionInit PROVE SubmissionInv
  BY Zenon
<1>1. SubmissionTyped
  BY Zenon DEF SubmissionInit, SubmissionTyped, NoRequest, NoJobRow, Ats, Callers, Tiers, Scans
<1>2. JobsOK
  BY Zenon DEF SubmissionInit, JobsOK, NoJobRow
<1>3. RequestsOK /\ RowsAreTrue
  BY Zenon DEF SubmissionInit, RequestsOK, RequestOK, RowsAreTrue, NoRequest, Joined, Listed
<1>4. QED
  BY <1>1, <1>2, <1>3, Zenon DEF SubmissionInv

\* submit_scan's lookup: a row that is seen is committed.
LEMMA LookupKeeps ==
    ASSUME SubmissionInv, NEW r \in Requests, Lookup(r)
    PROVE  SubmissionInv'
<1>1. UNCHANGED <<jobRow, storedArtifact, submitterRow, announced, committed, rollbacks>>
  BY Zenon DEF Lookup
<1>2. PICK a \in Asks :
          req' = [req EXCEPT ![r] = [who |-> a.who, key |-> a.key, tier |-> a.tier,
                      at |-> IF SeenRows(a.key) THEN "associate" ELSE "insert",
                      scan |-> IF SeenRows(a.key) THEN jobRow[a.key].scan ELSE r]]
  BY Zenon DEF Lookup
<1>3. /\ req[r].at = "new" /\ DOMAIN req = Requests
      /\ a.key \in CacheKeys /\ a.who \in Callers /\ a.tier \in Tiers
  <2>1. req[r].at = "new"
    <3>1. req[r] = NoRequest
      BY Zenon DEF Lookup
    <3>2. NoRequest.at = "new"
      BY Zenon DEF NoRequest
    <3>3. QED
      BY <3>1, <3>2, Zenon
  <2>2. DOMAIN req = Requests
    BY Zenon DEF SubmissionInv, SubmissionTyped
  <2>3. a.key \in CacheKeys /\ a.who \in Callers /\ a.tier \in Tiers
    BY Zenon DEF CacheKeys, Callers, Tiers
  <2>4. QED
    BY <2>1, <2>2, <2>3, Zenon
<1>4. jobRow[a.key].scan \in Scans /\ r \in Scans
  BY <1>3, Zenon DEF SubmissionInv, SubmissionTyped, Scans
<1>5. SubmissionTyped'
  <2> DEFINE new == [who |-> a.who, key |-> a.key, tier |-> a.tier,
                     at |-> IF SeenRows(a.key) THEN "associate" ELSE "insert",
                     scan |-> IF SeenRows(a.key) THEN jobRow[a.key].scan ELSE r]
  <2>1. new \in [at : Ats, who : Callers, key : CacheKeys \cup {<<>>}, tier : Tiers, scan : Scans]
    BY <1>3, <1>4, Zenon DEF Ats
  <2> HIDE DEF new
  <2>2. req' = [req EXCEPT ![r] = new]
    BY <1>2, Zenon DEF new
  <2>3. QED
    BY <1>1, <2>1, <2>2, Zenon DEF SubmissionInv, SubmissionTyped
<1>6. \A q \in Requests \ {r} : req'[q] = req[q]
  BY <1>2, <1>3, Zenon
<1>7. JobsOK'
  BY <1>1, <1>3, <1>6 DEF SubmissionInv, JobsOK, JobOK, Joined
<1>8. RequestsOK'
  <2> SUFFICES ASSUME NEW q \in Requests PROVE RequestOK(q)'
    BY Zenon DEF RequestsOK
  <2>1. CASE q # r
    <3>1. RequestOK(q) /\ req'[q] = req[q]
      BY <1>6, <2>1, Zenon DEF SubmissionInv, RequestsOK
    <3>2. QED
      BY <1>1, <3>1, Zenon DEF RequestOK, RowsOf
  <2>2. CASE q = r
    <3>1. r \notin committed
      BY <1>3, Zenon DEF SubmissionInv, RequestsOK, RequestOK
    <3>2. /\ req'[r].key = a.key
          /\ req'[r].at = IF SeenRows(a.key) THEN "associate" ELSE "insert"
          /\ req'[r].scan = IF SeenRows(a.key) THEN jobRow[a.key].scan ELSE r
      BY <1>2, <1>3, Zenon
    <3>3. QED
      BY <1>1, <1>3, <2>2, <3>1, <3>2, Zenon DEF RequestOK, SeenRows, Joined, Listed
  <2>3. QED
    BY <2>1, <2>2, Zenon
<1>9. RowsAreTrue'
  BY <1>1, <1>3, <1>6 DEF SubmissionInv, RowsAreTrue, RowOK, Listed, SubmissionTyped
<1>10. QED
  BY <1>5, <1>7, <1>8, <1>9, Zenon DEF SubmissionInv

\* A request moves on, and what it asked for stays.
Moved(r, at) ==
    \A q \in Requests : /\ req'[q].who = req[q].who /\ req'[q].key = req[q].key
                        /\ req'[q].tier = req[q].tier /\ req'[q].scan = req[q].scan
                        /\ req'[q].at = IF q = r THEN at ELSE req[q].at

\* Assigning the program point of one request is such a move.
LEMMA Advanced ==
    ASSUME SubmissionTyped, NEW r \in Requests, NEW at \in Ats, req' = [req EXCEPT ![r].at = at]
    PROVE  /\ req' \in [Requests -> [at : Ats, who : Callers, key : CacheKeys \cup {<<>>},
                                     tier : Tiers, scan : Scans]]
           /\ Moved(r, at)
BY DEF SubmissionTyped, Moved

\* A job stays in order while its writer keeps it.
LEMMA JobStays ==
    ASSUME NEW k \in CacheKeys, JobOK(k), jobRow'[k] = jobRow[k],
           NEW r \in Requests, NEW at, Moved(r, at), at \in Joined \/ jobRow[k].by # r,
           storedArtifact \subseteq storedArtifact', committed \subseteq committed'
    PROVE  JobOK(k)'
<1>1. jobRow[k].by \in Requests /\ req[jobRow[k].by].at \in Joined =>
          req'[jobRow[k].by].at \in Joined /\ req'[jobRow[k].by].key = req[jobRow[k].by].key
  BY Zenon DEF Moved
<1>2. QED
  BY <1>1, Zenon DEF JobOK

\* A request stays in order through the step of another.
LEMMA RequestStays ==
    ASSUME NEW q \in Requests, RequestOK(q), NEW r \in Requests \ {q}, NEW at, Moved(r, at),
           committed \subseteq committed', committed' \subseteq committed \cup {r, "rescan"},
           req[q].at \in Joined => jobRow'[req[q].key] = jobRow[req[q].key],
           \A row \in submitterRow : row.by \in committed \cup {q} => row \in submitterRow'
    PROVE  RequestOK(q)'
<1>1. /\ req'[q].who = req[q].who /\ req'[q].key = req[q].key
      /\ req'[q].scan = req[q].scan /\ req'[q].at = req[q].at
  BY Zenon DEF Moved
<1>2. q \in committed' <=> q \in committed
  BY Zenon
<1>3. \A row \in RowsOf(req[q].scan, req[q].who) : row.by \in committed \cup {q} =>
          row \in RowsOf(req[q].scan, req[q].who)'
  BY <1>1, Zenon DEF RowsOf
<1>4. req[q].at \in Listed =>
          \E row \in RowsOf(req[q].scan, req[q].who)' : row.by \in committed' \cup {q}
  BY <1>3, Zenon DEF RequestOK
<1>5. req[q].at \in Joined => jobRow'[req'[q].key] = jobRow[req[q].key]
  BY <1>1, Zenon
<1>6. QED
  BY <1>1, <1>2, <1>4, <1>5, Zenon DEF RequestOK

\* A row stays true while its writer keeps it.
LEMMA RowStays ==
    ASSUME SubmissionTyped, NEW row \in submitterRow, RowOK(row),
           NEW r \in Requests, NEW at, Moved(r, at), at \in Listed \/ row.by # r
    PROVE  RowOK(row)'
<1>1. row.by \in Requests
  BY Zenon DEF SubmissionTyped
<1>2. QED
  BY <1>1, Zenon DEF RowOK, Moved

\* The INSERT meets a key that is taken for good, and the request fails.
LEMMA InsertRefusedKeeps ==
    ASSUME SubmissionInv, NEW r \in Requests, InsertJob(r), jobRow' = jobRow,
           req' = [req EXCEPT ![r].at = "failed"]
    PROVE  SubmissionInv'
<1>1. /\ req[r].at = "insert" /\ storedArtifact \subseteq storedArtifact'
      /\ submitterRow' = submitterRow /\ committed' = committed
  BY Zenon DEF InsertJob
<1>2. SubmissionTyped /\ "failed" \in Ats
  BY Zenon DEF SubmissionInv, Ats
<1>3. /\ req' \in [Requests -> [at : Ats, who : Callers, key : CacheKeys \cup {<<>>},
                                tier : Tiers, scan : Scans]]
      /\ Moved(r, "failed")
  BY <1>2, Advanced, Zenon
<1>4. SubmissionTyped'
  BY <1>1, <1>2, <1>3, Zenon DEF SubmissionTyped
<1>5. JobsOK'
  <2>1. ASSUME NEW k \in CacheKeys, jobRow'[k] # NoJobRow PROVE JobOK(k)'
    <3>1. JobOK(k)
      BY <2>1, Zenon DEF SubmissionInv, JobsOK
    <3>2. jobRow[k].by # r
      BY <1>1, <3>1, Zenon DEF JobOK, Joined
    <3>3. QED
      BY <1>1, <1>3, <3>1, <3>2, JobStays, Zenon
  <2>2. QED
    BY <2>1, Zenon DEF SubmissionInv, JobsOK
<1>6. RequestsOK'
  <2> SUFFICES ASSUME NEW q \in Requests PROVE RequestOK(q)'
    BY Zenon DEF RequestsOK
  <2>1. RequestOK(q)
    BY Zenon DEF SubmissionInv, RequestsOK
  <2>2. CASE q = r
    <3>1. req'[r].at = "failed"
      BY <1>3, Zenon DEF Moved
    <3>2. r \notin committed'
      BY <1>1, <2>1, <2>2, Zenon DEF RequestOK
    <3>3. QED
      BY <2>2, <3>1, <3>2, Zenon DEF RequestOK, Joined, Listed
  <2>3. CASE q # r
    BY <1>1, <1>3, <2>1, <2>3, RequestStays, Zenon
  <2>4. QED
    BY <2>2, <2>3, Zenon
<1>7. RowsAreTrue'
  <2> SUFFICES ASSUME NEW row \in submitterRow PROVE RowOK(row)'
    BY <1>1, Zenon DEF RowsAreTrue
  <2>1. RowOK(row) /\ row.by # r
    BY <1>1, Zenon DEF SubmissionInv, RowsAreTrue, RowOK, Listed
  <2>2. QED
    BY <1>2, <1>3, <2>1, RowStays, Zenon
<1>8. QED
  BY <1>4, <1>5, <1>6, <1>7, Zenon DEF SubmissionInv

\* The INSERT writes the job of a key that is free.
LEMMA InsertDoneKeeps ==
    ASSUME SubmissionInv, NEW r \in Requests, InsertJob(r), ~SeenRows(req[r].key),
           req' = [req EXCEPT ![r].at = "associate"],
           jobRow' = [jobRow EXCEPT ![req[r].key] =
                          [scan |-> r, tier |-> req[r].tier, by |-> r]]
    PROVE  SubmissionInv'
<1>1. PICK k \in CacheKeys : k = req[r].key /\ req[r].scan = r /\ r \notin committed
  BY Zenon DEF SubmissionInv, RequestsOK, RequestOK, InsertJob
<1>2. /\ req[r].at = "insert" /\ ~JobLocked(k)
      /\ storedArtifact' = storedArtifact \cup {k[1]}
      /\ submitterRow' = submitterRow /\ committed' = committed
  BY <1>1, Zenon DEF InsertJob
<1>3. SubmissionTyped /\ "associate" \in Ats
  BY Zenon DEF SubmissionInv, Ats
<1>4. /\ req' \in [Requests -> [at : Ats, who : Callers, key : CacheKeys \cup {<<>>},
                                tier : Tiers, scan : Scans]]
      /\ Moved(r, "associate")
  BY <1>3, Advanced, Zenon
<1>5. jobRow[k] = NoJobRow
  BY <1>1, <1>2, Zenon DEF SeenRows, JobLocked
<1>6. [scan |-> r, tier |-> req[r].tier, by |-> r] \in [scan : Scans, tier : Tiers, by : Scans]
  BY <1>3, Zenon DEF SubmissionTyped, Scans
<1>7. SubmissionTyped'
  BY <1>1, <1>2, <1>3, <1>4, <1>6, Zenon DEF SubmissionTyped
<1>8. /\ jobRow'[k].by = r /\ jobRow'[k].scan = r /\ jobRow'[k] # NoJobRow
      /\ \A j \in CacheKeys \ {k} : jobRow'[j] = jobRow[j]
  <2>1. DOMAIN jobRow = CacheKeys
    BY <1>3, Zenon DEF SubmissionTyped
  <2>2. jobRow'[k] = [scan |-> r, tier |-> req[r].tier, by |-> r]
    BY <1>1, <2>1, Zenon
  <2>3. jobRow'[k].by # NoJobRow.by
    <3>1. NoJobRow.by = "none"
      BY Zenon DEF NoJobRow
    <3>2. jobRow'[k].by = r
      <4>1. PICK row : row = [scan |-> r, tier |-> req[r].tier, by |-> r]
        BY Zenon
      <4>2. row.by = r
        BY <4>1, Zenon
      <4>3. QED
        BY <2>2, <4>1, <4>2, Zenon
    <3>3. QED
      BY <3>1, <3>2, Zenon
  <2>4. QED
    BY <1>1, <2>1, <2>2, <2>3, Zenon
<1>9. /\ req'[r].at = "associate" /\ req'[r].key = k /\ req'[r].scan = r
  BY <1>1, <1>4, Zenon DEF Moved
<1>10. JobsOK'
  <2>1. ASSUME NEW j \in CacheKeys, jobRow'[j] # NoJobRow PROVE JobOK(j)'
    <3>1. CASE j = k
      <4>1. req'[jobRow'[j].by].key = j /\ req'[jobRow'[j].by].at \in Joined
        BY <1>8, <1>9, <3>1, Zenon DEF Joined
      <4>2. jobRow'[j].scan = jobRow'[j].by /\ jobRow'[j].by \in Requests
        BY <1>8, <3>1, Zenon
      <4>3. j[1] \in storedArtifact'
        BY <1>2, <3>1, Zenon
      <4>4. QED
        BY <4>1, <4>2, <4>3, Zenon DEF JobOK
    <3>2. CASE j # k
      <4>1. JobOK(j) /\ jobRow'[j] = jobRow[j]
        BY <1>8, <2>1, <3>2, Zenon DEF SubmissionInv, JobsOK
      <4>2. storedArtifact \subseteq storedArtifact' /\ "associate" \in Joined
        BY <1>2, Zenon DEF Joined
      <4>3. QED
        BY <1>2, <1>4, <4>1, <4>2, JobStays, Zenon
    <3>3. QED
      BY <3>1, <3>2, Zenon
  <2>2. \A i, j \in CacheKeys : jobRow'[i].by = "rescan" /\ jobRow'[j].by = "rescan" => i = j
    BY <1>8 DEF SubmissionInv, JobsOK
  <2>3. QED
    BY <2>1, <2>2, Zenon DEF JobsOK
<1>11. RequestsOK'
  <2> SUFFICES ASSUME NEW q \in Requests PROVE RequestOK(q)'
    BY Zenon DEF RequestsOK
  <2>1. RequestOK(q)
    BY Zenon DEF SubmissionInv, RequestsOK
  <2>2. CASE q = r
    BY <1>1, <1>2, <1>8, <1>9, <2>2, Zenon DEF RequestOK, Joined, Listed
  <2>3. CASE q # r
    <3>1. req[q].at \in Joined => jobRow'[req[q].key] = jobRow[req[q].key]
      BY <1>5, <1>8, <2>1, Zenon DEF RequestOK
    <3>2. QED
      BY <1>2, <1>4, <2>1, <2>3, <3>1, RequestStays, Zenon
  <2>4. QED
    BY <2>2, <2>3, Zenon
<1>12. RowsAreTrue'
  <2> SUFFICES ASSUME NEW row \in submitterRow PROVE RowOK(row)'
    BY <1>2, Zenon DEF RowsAreTrue
  <2>1. RowOK(row) /\ row.by # r
    BY <1>2, Zenon DEF SubmissionInv, RowsAreTrue, RowOK, Listed
  <2>2. QED
    BY <1>3, <1>4, <2>1, RowStays, Zenon
<1>13. QED
  BY <1>7, <1>10, <1>11, <1>12, Zenon DEF SubmissionInv

\* A step of a request that has its job and keeps it
Onward(r, at) ==
    /\ req' = [req EXCEPT ![r].at = at] /\ at \in Joined
    /\ req[r].at \in Listed => at \in Listed
    /\ jobRow' = jobRow /\ storedArtifact' = storedArtifact
    /\ committed \subseteq committed' /\ committed' \subseteq committed \cup {r}
    /\ submitterRow \subseteq submitterRow'
    /\ submitterRow' \subseteq [scan : Scans, who : Callers, tier : Tiers, by : Requests]

\* What is left to show of such a step is that the request is in order and that
\* the rows it adds are true.
LEMMA OnwardKeeps ==
    ASSUME SubmissionInv, NEW r \in Requests, NEW at, Onward(r, at),
           RequestOK(r)', \A row \in submitterRow' \ submitterRow : RowOK(row)'
    PROVE  SubmissionInv'
<1> USE DEF Onward
<1>1. SubmissionTyped /\ at \in Ats
  BY Zenon DEF SubmissionInv, Ats, Joined
<1>2. /\ req' \in [Requests -> [at : Ats, who : Callers, key : CacheKeys \cup {<<>>},
                                tier : Tiers, scan : Scans]]
      /\ Moved(r, at)
  BY <1>1, Advanced, Zenon
<1>3. SubmissionTyped'
  BY <1>1, <1>2, Zenon DEF SubmissionTyped
<1>4. JobsOK'
  <2>1. ASSUME NEW k \in CacheKeys, jobRow'[k] # NoJobRow PROVE JobOK(k)'
    <3>1. JobOK(k)
      BY <2>1, Zenon DEF SubmissionInv, JobsOK
    <3>2. QED
      BY <1>2, <3>1, JobStays, Zenon
  <2>2. QED
    BY <2>1, Zenon DEF SubmissionInv, JobsOK
<1>5. RequestsOK'
  <2> SUFFICES ASSUME NEW q \in Requests PROVE RequestOK(q)'
    BY Zenon DEF RequestsOK
  <2>1. RequestOK(q)
    BY Zenon DEF SubmissionInv, RequestsOK
  <2>2. CASE q # r
    BY <1>2, <2>1, <2>2, RequestStays, Zenon
  <2>3. QED
    BY <2>2, Zenon
<1>6. RowsAreTrue'
  <2> SUFFICES ASSUME NEW row \in submitterRow PROVE RowOK(row)'
    BY Zenon DEF RowsAreTrue
  <2>1. RowOK(row)
    BY Zenon DEF SubmissionInv, RowsAreTrue
  <2>2. at \in Listed \/ row.by # r
    BY <2>1, Zenon DEF RowOK
  <2>3. QED
    BY <1>1, <1>2, <2>1, <2>2, RowStays, Zenon
<1>7. QED
  BY <1>3, <1>4, <1>5, <1>6, Zenon DEF SubmissionInv

\* _associate_submitter leaves a row of this caller and scan.
LEMMA AssociateKeeps ==
    ASSUME SubmissionInv, NEW r \in Requests, Associate(r)
    PROVE  SubmissionInv'
<1> DEFINE rows == RowsOf(req[r].scan, req[r].who)
<1>0. PICK own : own = [scan |-> req[r].scan, who |-> req[r].who, tier |-> req[r].tier,
                        by |-> r]
  BY Zenon
<1>1. /\ req[r].at = "associate"
      /\ \A row \in rows : row.by \in committed
      /\ submitterRow' = IF rows # {} THEN submitterRow ELSE submitterRow \cup {own}
      /\ jobRow' = jobRow /\ storedArtifact' = storedArtifact /\ committed' = committed
  BY <1>0, Zenon DEF Associate
<1>2. PICK at \in {"produce", "commit"} : req' = [req EXCEPT ![r].at = at]
  BY Zenon DEF Associate
<1>3. SubmissionTyped /\ at \in Ats /\ at \in Joined /\ at \in Listed /\ RequestOK(r)
  BY Zenon DEF SubmissionInv, Ats, Joined, Listed, RequestsOK
<1>4. Moved(r, at)
  BY <1>2, <1>3, Advanced, Zenon
<1>5. /\ req'[r].who = req[r].who /\ req'[r].key = req[r].key
      /\ req'[r].tier = req[r].tier /\ req'[r].scan = req[r].scan /\ req'[r].at = at
  BY <1>4, Zenon DEF Moved
<1>6. own \in [scan : Scans, who : Callers, tier : Tiers, by : Requests]
  BY <1>0, <1>3, Zenon DEF SubmissionTyped
<1>7. /\ own.scan = req[r].scan /\ own.who = req[r].who /\ own.tier = req[r].tier /\ own.by = r
  BY <1>0, Zenon
<1>8. \E row \in RowsOf(req[r].scan, req[r].who)' : row.by \in committed \cup {r}
  <2>1. CASE rows # {}
    <3>1. PICK row \in rows : row.by \in committed
      BY <1>1, <2>1, Zenon
    <3>2. row \in RowsOf(req[r].scan, req[r].who)'
      BY <1>1, <1>5, <2>1, Zenon DEF RowsOf
    <3>3. QED
      BY <3>1, <3>2, Zenon
  <2>2. CASE rows = {}
    <3>1. own \in RowsOf(req[r].scan, req[r].who)'
      BY <1>1, <1>5, <1>7, <2>2, Zenon DEF RowsOf
    <3>2. QED
      BY <1>7, <3>1, Zenon
  <2>3. QED
    BY <2>1, <2>2, Zenon
<1>9. RequestOK(r)'
  BY <1>1, <1>2, <1>3, <1>5, <1>8, Zenon DEF RequestOK, Joined
<1>10. RowOK(own)'
  BY <1>3, <1>5, <1>7, Zenon DEF RowOK
<1>11. /\ submitterRow \subseteq submitterRow' /\ submitterRow' \subseteq submitterRow \cup {own}
       /\ req[r].at \in Joined /\ req[r].at \notin Listed
  BY <1>1, Zenon DEF Joined, Listed
<1>12. submitterRow' \subseteq [scan : Scans, who : Callers, tier : Tiers, by : Requests]
  BY <1>3, <1>6, <1>11, Zenon DEF SubmissionTyped
<1>13. QED
  <2>1. Onward(r, at)
    BY <1>1, <1>2, <1>3, <1>11, <1>12, Zenon DEF Onward
  <2>2. \A row \in submitterRow' \ submitterRow : RowOK(row)'
    BY <1>10, <1>11, Zenon
  <2>3. QED
    BY <1>9, <2>1, <2>2, OnwardKeeps, Zenon

\* The stream entry, and then the commit that the answer waits for.
LEMMA ProduceKeeps ==
    ASSUME SubmissionInv, NEW r \in Requests, ProduceEntry(r) \/ CommitRequest(r)
    PROVE  SubmissionInv'
<1>1. PICK at \in {"commit", "answered"} :
          /\ req' = [req EXCEPT ![r].at = at]
          /\ committed' = IF at = "answered" THEN committed \cup {r} ELSE committed
          /\ req[r].at \in {"produce", "commit"}
          /\ jobRow' = jobRow /\ storedArtifact' = storedArtifact
          /\ submitterRow' = submitterRow
  BY Zenon DEF ProduceEntry, CommitRequest
<1>2. /\ SubmissionTyped /\ at \in Ats /\ at \in Joined /\ at \in Listed /\ RequestOK(r)
      /\ req[r].at \in Joined /\ req[r].at \in Listed
  BY <1>1, Zenon DEF SubmissionInv, Ats, Joined, Listed, RequestsOK
<1>3. Moved(r, at)
  BY <1>1, <1>2, Advanced, Zenon
<1>4. /\ req'[r].who = req[r].who /\ req'[r].key = req[r].key
      /\ req'[r].tier = req[r].tier /\ req'[r].scan = req[r].scan /\ req'[r].at = at
  BY <1>3, Zenon DEF Moved
<1>5. RowsOf(req[r].scan, req[r].who)' = RowsOf(req[r].scan, req[r].who)
  BY <1>1, <1>4, Zenon DEF RowsOf
<1>6. at = "answered" <=> r \in committed'
  BY <1>1, <1>2, Zenon DEF RequestOK
<1>7. committed \subseteq committed' /\ committed' \subseteq committed \cup {r}
  BY <1>1, Zenon
<1>8. RequestOK(r)'
  <2>1. /\ req'[r].key \in CacheKeys /\ jobRow'[req'[r].key] # NoJobRow
        /\ jobRow'[req'[r].key].scan = req'[r].scan
        /\ jobRow'[req'[r].key].by \in committed' \cup {r}
    BY <1>1, <1>2, <1>4, <1>7, Zenon DEF RequestOK
  <2>2. \E row \in RowsOf(req[r].scan, req[r].who)' : row.by \in committed' \cup {r}
    BY <1>2, <1>5, <1>7 DEF RequestOK
  <2>3. req'[r].at # "insert"
    BY <1>4, Zenon
  <2>4. QED
    BY <1>4, <1>6, <2>1, <2>2, <2>3, Zenon DEF RequestOK
<1>9. submitterRow' \subseteq [scan : Scans, who : Callers, tier : Tiers, by : Requests]
  BY <1>1, <1>2, Zenon DEF SubmissionTyped
<1>10. QED
  <2>1. Onward(r, at)
    BY <1>1, <1>2, <1>7, <1>9, Zenon DEF Onward
  <2>2. submitterRow' \ submitterRow = {}
    BY <1>1, Zenon
  <2>3. QED
    BY <1>8, <2>1, <2>2, OnwardKeeps, Zenon

\* A transaction that fails takes its own rows with it, and no one else's.
LEMMA RollbackKeeps ==
    ASSUME SubmissionInv, NEW r \in Requests, RollbackRequest(r)
    PROVE  SubmissionInv'
<1>1. /\ req' = [req EXCEPT ![r].at = "failed"]
      /\ jobRow' = [k \in CacheKeys |-> IF jobRow[k].by = r THEN NoJobRow ELSE jobRow[k]]
      /\ submitterRow' = {row \in submitterRow : row.by # r}
      /\ storedArtifact' = storedArtifact /\ committed' = committed
  BY Zenon DEF RollbackRequest
<1>2. SubmissionTyped /\ "failed" \in Ats
  BY Zenon DEF SubmissionInv, Ats
<1>3. r \notin committed
  BY Zenon DEF SubmissionInv, RequestsOK, RequestOK, RollbackRequest
<1>4. /\ req' \in [Requests -> [at : Ats, who : Callers, key : CacheKeys \cup {<<>>},
                                tier : Tiers, scan : Scans]]
      /\ Moved(r, "failed")
  BY <1>1, <1>2, Advanced, Zenon
<1>5. NoJobRow \in [scan : Scans, tier : Tiers, by : Scans] /\ NoJobRow.by = "none"
  BY Zenon DEF NoJobRow, Scans, Tiers
<1>6. SubmissionTyped'
  <2>1. jobRow' \in [CacheKeys -> [scan : Scans, tier : Tiers, by : Scans]]
    BY <1>1, <1>2, <1>5, Zenon DEF SubmissionTyped
  <2>2. QED
    BY <1>1, <1>2, <1>4, <2>1, Zenon DEF SubmissionTyped
<1>7. \A k \in CacheKeys : jobRow'[k] # NoJobRow => jobRow'[k] = jobRow[k] /\ jobRow[k].by # r
  BY <1>1, Zenon
<1>8. JobsOK'
  <2>1. ASSUME NEW k \in CacheKeys, jobRow'[k] # NoJobRow PROVE JobOK(k)'
    <3>1. jobRow'[k] = jobRow[k] /\ jobRow[k].by # r /\ JobOK(k)
      BY <1>7, <2>1, Zenon DEF SubmissionInv, JobsOK
    <3>2. QED
      BY <1>1, <1>4, <3>1, JobStays, Zenon
  <2>2. \A j, k \in CacheKeys : jobRow'[j].by = "rescan" /\ jobRow'[k].by = "rescan" => j = k
    <3>1. \A k \in CacheKeys : jobRow'[k].by = "rescan" => jobRow[k].by = "rescan"
      BY <1>5, <1>7, Zenon
    <3>2. QED
      BY <3>1, Zenon DEF SubmissionInv, JobsOK
  <2>3. QED
    BY <2>1, <2>2, Zenon DEF JobsOK
<1>9. RequestsOK'
  <2> SUFFICES ASSUME NEW q \in Requests PROVE RequestOK(q)'
    BY Zenon DEF RequestsOK
  <2>1. RequestOK(q)
    BY Zenon DEF SubmissionInv, RequestsOK
  <2>2. CASE q = r
    <3>1. req'[r].at = "failed" /\ r \notin committed'
      BY <1>1, <1>3, <1>4, Zenon DEF Moved
    <3>2. QED
      BY <2>2, <3>1, Zenon DEF RequestOK, Joined, Listed
  <2>3. CASE q # r
    <3>1. req[q].at \in Joined => jobRow'[req[q].key] = jobRow[req[q].key]
      BY <1>1, <1>3, <2>1, <2>3, Zenon DEF RequestOK
    <3>2. \A row \in submitterRow : row.by \in committed \cup {q} => row \in submitterRow'
      BY <1>1, <1>3, <2>3, Zenon
    <3>3. QED
      BY <1>1, <1>4, <2>1, <2>3, <3>1, <3>2, RequestStays, Zenon
  <2>4. QED
    BY <2>2, <2>3, Zenon
<1>10. RowsAreTrue'
  <2> SUFFICES ASSUME NEW row \in submitterRow, row.by # r PROVE RowOK(row)'
    BY <1>1, Zenon DEF RowsAreTrue
  <2>1. RowOK(row)
    BY Zenon DEF SubmissionInv, RowsAreTrue
  <2>2. QED
    BY <1>2, <1>4, <2>1, RowStays, Zenon
<1>11. QED
  BY <1>6, <1>8, <1>9, <1>10, Zenon DEF SubmissionInv

\* trigger_rescans inserts the job of a key that is free.
LEMMA RescanKeeps ==
    ASSUME SubmissionInv, NEW k \in CacheKeys, RescanInserts(k)
    PROVE  SubmissionInv'
<1>1. PICK new : new = [scan |-> "rescan", tier |-> RescanTier, by |-> "rescan"]
  BY Zenon
<1>2. /\ k[1] \in storedArtifact /\ jobRow[k] = NoJobRow /\ "rescan" \notin committed
      /\ jobRow' = [jobRow EXCEPT ![k] = new]
      /\ committed' = committed \cup {"rescan"}
      /\ req' = req /\ storedArtifact' = storedArtifact /\ submitterRow' = submitterRow
  BY <1>1, Zenon DEF RescanInserts
<1>3. /\ new.scan = "rescan" /\ new.by = "rescan" /\ NoJobRow.by = "none"
      /\ new \in [scan : Scans, tier : Tiers, by : Scans]
  BY <1>1, Zenon DEF Scans, Tiers, NoJobRow
<1>4. SubmissionTyped'
  BY <1>2, <1>3, Zenon DEF SubmissionInv, SubmissionTyped
<1>5. jobRow'[k] = new /\ \A j \in CacheKeys \ {k} : jobRow'[j] = jobRow[j]
  BY <1>2, Zenon DEF SubmissionInv, SubmissionTyped
<1>6. \A j \in CacheKeys : jobRow[j].by # "rescan"
  BY <1>2, <1>3, Zenon DEF SubmissionInv, JobsOK, JobOK
<1>7. JobsOK'
  <2>1. ASSUME NEW j \in CacheKeys, jobRow'[j] # NoJobRow PROVE JobOK(j)'
    <3>1. CASE j = k
      <4>1. /\ jobRow'[j].scan = jobRow'[j].by /\ jobRow'[j].by = "rescan"
            /\ j[1] \in storedArtifact' /\ "rescan" \in committed'
        BY <1>2, <1>3, <1>5, <3>1, Zenon
      <4>2. QED
        BY <4>1, Zenon DEF JobOK
    <3>2. CASE j # k
      <4>1. JobOK(j) /\ jobRow'[j] = jobRow[j] /\ committed \subseteq committed'
        BY <1>2, <1>5, <2>1, <3>2, Zenon DEF SubmissionInv, JobsOK
      <4>2. QED
        BY <1>2, <4>1, Zenon DEF JobOK
    <3>3. QED
      BY <3>1, <3>2, Zenon
  <2>2. \A i, j \in CacheKeys : jobRow'[i].by = "rescan" /\ jobRow'[j].by = "rescan" => i = j
    BY <1>5, <1>6, Zenon
  <2>3. QED
    BY <2>1, <2>2, Zenon DEF JobsOK
<1>8. RequestsOK'
  <2> SUFFICES ASSUME NEW q \in Requests PROVE RequestOK(q)'
    BY Zenon DEF RequestsOK
  <2>1. RequestOK(q) /\ (q \in committed' <=> q \in committed)
    BY <1>2, Zenon DEF SubmissionInv, RequestsOK
  <2>2. req[q].at \in Joined => jobRow'[req[q].key] = jobRow[req[q].key]
    BY <1>2, <1>5, <2>1, Zenon DEF RequestOK
  <2>3. RowsOf(req[q].scan, req[q].who)' = RowsOf(req[q].scan, req[q].who)
    BY <1>2, Zenon DEF RowsOf
  <2>4. QED
    <3>0. committed \subseteq committed'
      BY <1>2, Zenon
    <3>1. req[q].at \in Joined =>
              /\ req[q].key \in CacheKeys /\ jobRow'[req[q].key] # NoJobRow
              /\ jobRow'[req[q].key].scan = req[q].scan
              /\ jobRow'[req[q].key].by \in committed' \cup {q}
      BY <2>1, <2>2, <3>0, Zenon DEF RequestOK
    <3>2. req[q].at \in Listed =>
              \E row \in RowsOf(req[q].scan, req[q].who)' : row.by \in committed' \cup {q}
      BY <1>2, <2>1, <2>3, Zenon DEF RequestOK
    <3>3. QED
      BY <1>2, <2>1, <3>1, <3>2, Zenon DEF RequestOK
<1>9. RowsAreTrue'
  BY <1>2, Zenon DEF SubmissionInv, RowsAreTrue, RowOK
<1>10. QED
  BY <1>4, <1>7, <1>8, <1>9, Zenon DEF SubmissionInv

\* The invariant is inductive.
LEMMA SubmissionStep == SubmissionInv /\ [SubmissionNext]_submissionVars => SubmissionInv'
<1> SUFFICES ASSUME SubmissionInv, [SubmissionNext]_submissionVars PROVE SubmissionInv'
  BY Zenon
<1>1. ASSUME NEW r \in Requests, InsertJob(r) PROVE SubmissionInv'
  BY <1>1, InsertRefusedKeeps, InsertDoneKeeps, Zenon DEF InsertJob
<1>2. ASSUME NEW r \in Requests, RequestStep(r) PROVE SubmissionInv'
  BY <1>1, <1>2, LookupKeeps, AssociateKeeps, ProduceKeeps, RollbackKeeps, Zenon DEF RequestStep
<1>3. CASE UNCHANGED submissionVars
  <2>1. SubmissionTyped'
    BY <1>3, Zenon DEF submissionVars, SubmissionInv, SubmissionTyped
  <2>2. JobsOK'
    BY <1>3, Zenon DEF submissionVars, SubmissionInv, JobsOK, JobOK
  <2>3. RequestsOK'
    BY <1>3, Zenon DEF submissionVars, SubmissionInv, RequestsOK, RequestOK, RowsOf
  <2>4. RowsAreTrue'
    BY <1>3, Zenon DEF submissionVars, SubmissionInv, RowsAreTrue, RowOK
  <2>5. QED
    BY <2>1, <2>2, <2>3, <2>4, Zenon DEF SubmissionInv
<1>4. QED
  BY <1>2, <1>3, RescanKeeps, Zenon DEF SubmissionNext

\* A scan belongs to one key.
LEMMA OneKeyPerScan ==
    ASSUME SubmissionInv, NEW j \in CacheKeys, NEW k \in CacheKeys,
           jobRow[j] # NoJobRow, jobRow[k] # NoJobRow, jobRow[j].scan = jobRow[k].scan
    PROVE  j = k
<1>1. JobOK(j) /\ JobOK(k)
  BY Zenon DEF SubmissionInv, JobsOK
<1>2. CASE jobRow[j].by = "rescan"
  BY <1>1, <1>2, Zenon DEF JobOK, SubmissionInv, JobsOK
<1>3. CASE jobRow[j].by # "rescan"
  BY <1>1, <1>3, Zenon DEF JobOK
<1>4. QED
  BY <1>2, <1>3, Zenon

\* Of an answered request the job is visible, and so is a row of its caller.
LEMMA AnsweredIsBacked ==
    ASSUME SubmissionInv, NEW r \in Requests, Answered(r)
    PROVE  /\ req[r].key \in CacheKeys /\ SeenRows(req[r].key)
           /\ jobRow[req[r].key].scan = req[r].scan
           /\ req[r].key[1] \in storedArtifact
           /\ IsScanSubmitter(req[r].who, jobRow[req[r].key].scan)
<1>1. RequestOK(r) /\ req[r].at \in Joined /\ req[r].at \in Listed /\ r \in committed
  BY Zenon DEF SubmissionInv, RequestsOK, RequestOK, Answered, Joined, Listed
<1>2. /\ req[r].key \in CacheKeys /\ SeenRows(req[r].key)
      /\ jobRow[req[r].key].scan = req[r].scan
  BY <1>1, Zenon DEF RequestOK, SeenRows
<1>3. req[r].key[1] \in storedArtifact
  BY <1>1, <1>2, Zenon DEF RequestOK, SubmissionInv, JobsOK, JobOK
<1>4. IsScanSubmitter(req[r].who, req[r].scan)
  BY <1>1, Zenon DEF RequestOK, IsScanSubmitter
<1>5. QED
  BY <1>2, <1>3, <1>4, Zenon

\* The tiers on record for the caller of an answered request are those that
\* answered requests of the same caller for the same key asked for.
LEMMA TiersAreTheCallers ==
    ASSUME SubmissionInv, NEW r \in Requests, Answered(r),
           NEW t \in Attribution(req[r].who, req[r].scan)
    PROVE  \E q \in Requests : /\ Answered(q) /\ req[q].who = req[r].who
                               /\ req[q].key = req[r].key /\ req[q].tier = t
<1>1. PICK row \in RowsOf(req[r].scan, req[r].who) : row.by \in committed /\ row.tier = t
  BY Zenon DEF Attribution
<1>2. row \in submitterRow /\ row.scan = req[r].scan /\ row.who = req[r].who
  BY Zenon DEF RowsOf
<1>3. PICK q \in Requests : q = row.by
  BY <1>2, Zenon DEF SubmissionInv, SubmissionTyped
<1>4. /\ req[q].who = row.who /\ req[q].tier = row.tier /\ req[q].scan = row.scan
  BY <1>2, <1>3, Zenon DEF SubmissionInv, RowsAreTrue, RowOK
<1>5. Answered(q)
  BY <1>1, <1>3, Zenon DEF SubmissionInv, RequestsOK, RequestOK, Answered
<1>6. /\ req[q].key \in CacheKeys /\ SeenRows(req[q].key)
      /\ jobRow[req[q].key].scan = req[q].scan
      /\ req[r].key \in CacheKeys /\ SeenRows(req[r].key)
      /\ jobRow[req[r].key].scan = req[r].scan
  BY <1>5, AnsweredIsBacked, Zenon
<1>7. req[q].key = req[r].key
  BY <1>2, <1>4, <1>6, OneKeyPerScan DEF SeenRows
<1>8. QED
  BY <1>1, <1>2, <1>4, <1>5, <1>7, Zenon

\* submit_scan and get_scan: whatever submissions overlap, fail and meet a
\* rescan, the scan id in an answer is that of a committed job with its
\* artifact, and the caller may read it.
THEOREM AnswersAreBacked == SubmissionSpec => []AnswerIsBacked
<1>1. SubmissionInv => AnswerIsBacked
  <2> SUFFICES ASSUME SubmissionInv, NEW r \in Requests, Answered(r)
               PROVE  /\ SeenRows(req[r].key) /\ jobRow[req[r].key].scan = req[r].scan
                      /\ req[r].key[1] \in storedArtifact
                      /\ GetScan(req[r].who, req[r].key, FALSE).found
    BY Zenon DEF AnswerIsBacked
  <2>1. /\ SeenRows(req[r].key) /\ jobRow[req[r].key].scan = req[r].scan
        /\ req[r].key[1] \in storedArtifact
        /\ IsScanSubmitter(req[r].who, jobRow[req[r].key].scan)
    BY AnsweredIsBacked, Zenon
  <2>2. QED
    BY <2>1, Zenon DEF GetScan
<1>2. QED
  BY SubmissionInitially, SubmissionStep, <1>1, PTL DEF SubmissionSpec

\* get_scan: a caller who asked for one tier is shown that tier beside the one
\* the scan was judged at, whoever else shares the scan.
THEOREM TiersAreOwn == SubmissionSpec => []OwnTierIsShown
<1>1. SubmissionInv => OwnTierIsShown
  <2> SUFFICES ASSUME SubmissionInv, NEW r \in Requests, Answered(r),
                      \A q \in Requests : Answered(q) /\ req[q].who = req[r].who
                                            /\ req[q].key = req[r].key => req[q].tier = req[r].tier
               PROVE  LET view == GetScan(req[r].who, req[r].key, req[r].who = ReviewingUser)
                      IN  view.asked = req[r].tier /\ view.judged = jobRow[req[r].key].tier
    BY Zenon DEF OwnTierIsShown
  <2>1. /\ SeenRows(req[r].key) /\ jobRow[req[r].key].scan = req[r].scan
        /\ IsScanSubmitter(req[r].who, jobRow[req[r].key].scan)
    BY AnsweredIsBacked, Zenon
  <2>2. \A t \in Attribution(req[r].who, req[r].scan) : t = req[r].tier
    <3> SUFFICES ASSUME NEW t \in Attribution(req[r].who, req[r].scan)
                 PROVE  t = req[r].tier
      BY Zenon
    <3>1. PICK q \in Requests : /\ Answered(q) /\ req[q].who = req[r].who
                                /\ req[q].key = req[r].key /\ req[q].tier = t
      BY TiersAreTheCallers, Zenon
    <3>2. QED
      BY <3>1, Zenon
  <2>3. Attribution(req[r].who, req[r].scan) # {}
    BY <2>1, Zenon DEF IsScanSubmitter, Attribution
  <2>4. RequestedByCaller(req[r].who, req[r].key) = req[r].tier
    BY <2>1, <2>2, <2>3, Zenon DEF RequestedByCaller
  <2>5. QED
    BY <2>1, <2>4, Zenon DEF GetScan
<1>2. QED
  BY SubmissionInitially, SubmissionStep, <1>1, PTL DEF SubmissionSpec

=============================================================================
