-------------------------------- MODULE Users --------------------------------
(***************************************************************************)
(* Users and what they may do (app/routers/users.py,                       *)
(* app/core/permissions.py).                                               *)
(*                                                                         *)
(* A row keeps a role and the differences from the role's permissions: the *)
(* ones granted besides, the ones revoked.  Some pages bring others along. *)
(* Requests read the row, then write what they change of it.               *)
(***************************************************************************)
EXTENDS Integers, FiniteSets

CONSTANTS
    Account,
    Founder,        \* the first administrator
    Position,       \* roles other than admin
    Entry,          \* the role of a user created without one
    Permission,
    Default,        \* the permissions of each role
    Brings,         \* what a permission brings along
    Form,           \* bodies of requests: [role, active, ticked], {} where unset
    Clerk           \* requests that may be in flight

ASSUME UsersConstants ==
    /\ Founder \in Account
    /\ "admin" \notin Position /\ Entry \in Position
    /\ Default \in [Position -> SUBSET Permission]
    /\ Brings \in [Permission -> SUBSET Permission]
    /\ \A f \in Form : /\ f.role = {} \/ \E r \in Position \cup {"admin"} : f.role = {r}
                       /\ f.active = {} \/ \E b \in BOOLEAN : f.active = {b}
                       /\ f.ticked = {} \/ \E S \in SUBSET Permission : f.ticked = {S}

VARIABLES
    user,           \* rows of users
    task,           \* requests in flight
    chosen,         \* history: the permissions last ticked for each user
    carried,        \* history: users given a role, or saved in a race, since then
    unguarded       \* history: an update took an active administrator, or two
                    \* deletions of administrators overlapped

usersVars == <<user, task, chosen, carried, unguarded>>

AnyRole == Position \cup {"admin"}
Waiting == [do |-> "nothing"]

\* A field of a form is {} or holds one value.
Given(field, old) == IF field = {} THEN old ELSE CHOOSE x \in field : TRUE

Expand(S) == S \cup UNION {Brings[p] : p \in S}
RoleDefault(role) == Expand(Default[role])

\* serialize_permission_overrides
NoOverrides == [grants |-> {}, revokes |-> {}]
\* Mutant: only what is granted besides is kept.
OverridesAdded(role, ticked) ==
    IF role = "admin" THEN NoOverrides
    ELSE [grants |-> ticked \ RoleDefault(role), revokes |-> {}]
Overrides(role, ticked) ==
    IF role = "admin" THEN NoOverrides
    ELSE [grants |-> ticked \ RoleDefault(role), revokes |-> RoleDefault(role) \ ticked]

\* get_effective_permissions
Effective(u) ==
    IF u.role = "admin" THEN Permission
    ELSE (RoleDefault(u.role) \cup Expand(u.overrides.grants)) \ Expand(u.overrides.revokes)

Admins == {a \in DOMAIN user : user[a].role = "admin" /\ user[a].active}

UsersInit ==
    /\ user = [a \in {Founder} |-> [role |-> "admin", active |-> TRUE,
                                    overrides |-> NoOverrides]]
    /\ task = [k \in Clerk |-> Waiting]
    /\ chosen = [a \in Account |-> {}]
    /\ carried = {}
    /\ unguarded = FALSE
-----------------------------------------------------------------------------
\* Every request is an active administrator's, as it begins.
Admit(k, by) ==
    /\ task[k] = Waiting
    /\ by \in Admins
    /\ task' = [task EXCEPT ![k] = [do |-> "admitted", by |-> by]]
    /\ UNCHANGED <<user, chosen, carried, unguarded>>

CreateUser(k, a, form) ==
    LET role == Given(form.role, Entry)
        ticked == Given(form.ticked, {})
    IN
    /\ task[k].do = "admitted"
    /\ a \notin DOMAIN user
    /\ user' = [b \in DOMAIN user \cup {a} |->
                  IF b = a THEN [role |-> role, active |-> Given(form.active, TRUE),
                                 overrides |-> Overrides(role, ticked)]
                  ELSE user[b]]
    /\ chosen' = [chosen EXCEPT ![a] = ticked]
    /\ task' = [task EXCEPT ![k] = Waiting]
    /\ UNCHANGED <<carried, unguarded>>

ReadUser(k, a, form) ==
    /\ task[k].do = "admitted"
    /\ a \in DOMAIN user
    /\ task' = [task EXCEPT ![k] = [do |-> "update", account |-> a, row |-> user[a],
                                    form |-> form]]
    /\ UNCHANGED <<user, chosen, carried, unguarded>>

\* Columns are written that the request gives and that differ from the reading;
\* the overrides are those against the role the request gives or read.
WriteUser(k) ==
    LET t == task[k]
        a == t.account
        f == t.form
        role == Given(f.role, t.row.role)
        asked == [role |-> role,
                  active |-> Given(f.active, t.row.active),
                  overrides |-> IF f.ticked = {} THEN t.row.overrides
                                ELSE Overrides(role, Given(f.ticked, {}))]
        row == [x \in DOMAIN user[a] |-> IF asked[x] # t.row[x] THEN asked[x] ELSE user[a][x]]
    IN
    /\ t.do = "update"
    /\ user' = [user EXCEPT ![a] = row]
    /\ chosen' = [chosen EXCEPT ![a] = Given(f.ticked, @)]
    /\ carried' = IF user[a] # t.row \/ (f.ticked = {} /\ row.role # user[a].role)
                  THEN carried \cup {a}
                  ELSE IF f.ticked # {} THEN carried \ {a} ELSE carried
    /\ unguarded' = (unguarded \/ (a \in Admins /\ ~(row.role = "admin" /\ row.active)))
    /\ task' = [task EXCEPT ![k] = Waiting]

\* Nobody deletes themselves, nor the only active administrator: the one who asks
\* may have been deleted since.
\* Mutant: the only one passes.
SpareNone(a) == a \in DOMAIN user
Spare(a) == a \in Admins => Cardinality(Admins) > 1
ReadDeletion(k, a) ==
    /\ task[k].do = "admitted"
    /\ a \in DOMAIN user \ {task[k].by}
    /\ Spare(a)
    /\ task' = [task EXCEPT ![k] = [do |-> "delete", account |-> a, admins |-> Admins]]
    /\ UNCHANGED <<user, chosen, carried, unguarded>>

WriteDeletion(k) ==
    LET t == task[k] IN
    /\ t.do = "delete"
    /\ user' = [user EXCEPT ![t.account].active = FALSE]
    /\ unguarded' = (unguarded \/ ~(t.admins \subseteq Admins))
    /\ task' = [task EXCEPT ![k] = Waiting]
    /\ UNCHANGED <<chosen, carried>>

UsersNext ==
    \E k \in Clerk :
        \/ \E by \in Account : Admit(k, by)
        \/ \E a \in Account, form \in Form : CreateUser(k, a, form) \/ ReadUser(k, a, form)
        \/ WriteUser(k)
        \/ \E a \in Account : ReadDeletion(k, a)
        \/ WriteDeletion(k)

UsersSpec == UsersInit /\ [][UsersNext]_usersVars
-----------------------------------------------------------------------------
UsersTypeOK ==
    /\ DOMAIN user \subseteq Account
    /\ \A a \in DOMAIN user :
          user[a] \in [role : AnyRole, active : BOOLEAN,
                       overrides : [grants : SUBSET Permission, revokes : SUBSET Permission]]
    /\ chosen \in [Account -> SUBSET Permission]
    /\ carried \subseteq Account /\ unguarded \in BOOLEAN

\* A choice that ticks a page with all it brings along, or with none of it.
Whole(ticked) ==
    \A p \in Permission : IF p \in ticked THEN Brings[p] \subseteq ticked
                          ELSE Brings[p] \cap ticked = {}

\* permissions.py:58-100, users.py:186: a user may do exactly what was last ticked
\* for them, through changes of role, deactivation and requests that overlap; not
\* so a choice that parts a page from what it brings along, nor a new role saved
\* without ticks, nor a row two requests wrote at once.
ChosenIsGranted ==
    \A a \in DOMAIN user \ carried :
        user[a].role # "admin" /\ Whole(chosen[a]) => Effective(user[a]) = chosen[a]

\* users.py:211: deletions leave an active administrator; only an update, which
\* does not ask, or two deletions at a time can take the last.
AdminRemains == unguarded \/ Admins # {}
=============================================================================
