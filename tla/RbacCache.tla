------------------------------ MODULE RbacCache -----------------------------
(***************************************************************************)
(* The cached roles and permissions of one account: get_account_rbac, by   *)
(* which every authenticated request finds what it may do, against         *)
(* assign_roles, which commits other roles and deletes the cached ones     *)
(* (services/rbac_service.py, deps.py, api/v1/admin.py).                   *)
(*                                                                         *)
(* A request is one InnoDB transaction at REPEATABLE READ: its first       *)
(* SELECT, which may be long before it asks for the roles, fixes what it   *)
(* sees.  The tables of roles and permissions stay as they are.            *)
(***************************************************************************)
EXTENDS Absent, Integers

CONSTANTS
  Requests,   \* requests in flight together
  Roles,      \* role codes
  Grants,     \* role_permission: role -> permission codes
  Ttl         \* rbac_cache_ttl_seconds, in ticks

ASSUME RbacAssumption ==
  /\ Ttl \in Nat \ {0}
  /\ DOMAIN Grants = Roles
  /\ \A rs \in SUBSET Roles : rs # None

VARIABLES
  roles,    \* account_role
  cache,    \* auth:rbac:{account}: value and time left, or None
  request,  \* pc, what the request has seen or assigns, what it was given
  since,    \* history: ticks since roles last changed, up to Ttl + 1
  late,     \* history: the cached value was read before, and set after, a change
  unkept    \* history: a DEL that was due on the cached value died

vars == <<roles, cache, request, since, late, unkept>>

RoleSets == (SUBSET Roles) \ {{}}

\* load_account_rbac: admin stands for every permission.
load_account_rbac(rs) ==
  [ roles |-> rs,
    perms |-> IF "admin" \in rs THEN {"*"} ELSE UNION { Grants[r] : r \in rs } ]

Idle == [pc |-> "idle", sees |-> None, outdated |-> FALSE]

Init ==
  /\ roles \in RoleSets
  /\ cache = None
  /\ request = [q \in Requests |-> Idle]
  /\ since = Ttl + 1 /\ late = FALSE /\ unkept = FALSE

At(q, pc) == request[q].pc = pc
Return(q) == request' = [request EXCEPT ![q] = Idle]

-----------------------------------------------------------------------------
(* get_account_rbac *)

\* A request comes in; the route may read the database before it asks for the
\* roles (account_service asks once more after it has read the account).
Arrive(q, snapshot) ==
  /\ At(q, "idle")
  /\ request' = [request EXCEPT ![q] =
       [pc |-> "get", sees |-> IF snapshot THEN roles ELSE None, outdated |-> FALSE]]
  /\ UNCHANGED <<roles, cache, since, late, unkept>>

\* mutant: a hit keeps the entry alive
HitRenews(q) ==
  /\ At(q, "get")
  /\ cache # None
  /\ cache' = [cache EXCEPT !.ttl = Ttl]
  /\ Return(q)
  /\ UNCHANGED <<roles, since, late, unkept>>

\* What is cached is served.
Hit(q) ==
  /\ At(q, "get")
  /\ cache # None
  /\ Return(q)
  /\ UNCHANGED <<roles, cache, since, late, unkept>>

\* Nothing is cached: the database is read, in the transaction there is.
Miss(q) ==
  /\ At(q, "get")
  /\ cache = None
  /\ request' = [request EXCEPT ![q].pc = "set",
                                ![q].sees = IF @ = None THEN roles ELSE @]
  /\ UNCHANGED <<roles, cache, since, late, unkept>>

Emptied == cache' = None /\ late' = FALSE /\ unkept' = FALSE

\* SET with EX, over whatever is there by now.
Fill(q) ==
  /\ At(q, "set")
  /\ cache' = [value |-> load_account_rbac(request[q].sees), ttl |-> Ttl]
  /\ late' = request[q].outdated /\ unkept' = FALSE
  /\ Return(q)
  /\ UNCHANGED <<roles, since>>

-----------------------------------------------------------------------------
(* assign_roles *)

\* The commit replaces all roles of the account; whoever has read them before
\* sees what is outdated.
CommitRoles(rs) ==
  /\ roles' = rs
  /\ since' = 0

Outdate(q, next) ==
  request' = [p \in Requests |->
    IF p = q THEN next
    ELSE [request[p] EXCEPT !.outdated =
            @ \/ (request[p].pc \in {"get", "set"} /\ request[p].sees # None)]]

\* Role codes that exist are looked up ...
Assign(q, rs) ==
  /\ At(q, "idle")
  /\ request' = [request EXCEPT ![q] = [pc |-> "commit", sees |-> rs, outdated |-> FALSE]]
  /\ UNCHANGED <<roles, cache, since, late, unkept>>

\* mutant: the cached roles are left to their TTL
CommitOnly(q) ==
  /\ At(q, "commit")
  /\ CommitRoles(request[q].sees)
  /\ Outdate(q, Idle)
  /\ UNCHANGED <<cache, late, unkept>>

\* ... the rows are replaced and committed ...
Commit(q) ==
  /\ At(q, "commit")
  /\ CommitRoles(request[q].sees)
  /\ Outdate(q, [Idle EXCEPT !.pc = "invalidate"])
  /\ UNCHANGED <<cache, late, unkept>>

\* ... and the cached roles are deleted.
invalidate_account_rbac(q) ==
  /\ At(q, "invalidate")
  /\ Emptied
  /\ Return(q)
  /\ UNCHANGED <<roles, since>>

-----------------------------------------------------------------------------
(* Time and failures *)

\* Redis or the database fails, or the process dies.
Die(q) ==
  /\ ~ At(q, "idle")
  /\ unkept' = (unkept \/ (At(q, "invalidate") /\ cache # None))
  /\ Return(q)
  /\ UNCHANGED <<roles, cache, since, late>>

Tick ==
  /\ cache # None \/ since <= Ttl
  /\ IF cache # None /\ cache.ttl > 1
     THEN cache' = [cache EXCEPT !.ttl = @ - 1] /\ UNCHANGED <<late, unkept>>
     ELSE Emptied
  /\ since' = IF since <= Ttl THEN since + 1 ELSE since
  /\ UNCHANGED <<roles, request>>

Serve(q) ==
  \/ Hit(q) \/ Miss(q) \/ Fill(q) \/ Commit(q) \/ invalidate_account_rbac(q)

Next ==
  \/ \E q \in Requests :
       \/ \E snapshot \in BOOLEAN : Arrive(q, snapshot)
       \/ \E rs \in RoleSets : Assign(q, rs)
       \/ Serve(q) \/ Die(q)
  \/ Tick

\* A request is served and time passes.
Fairness == WF_vars(Tick) /\ \A q \in Requests : WF_vars(Serve(q))

Spec == Init /\ [][Next]_vars /\ Fairness

-----------------------------------------------------------------------------
(* Properties *)

Stale == cache # None /\ cache.value # load_account_rbac(roles)

\* Roles that were taken away are served from the cache only until the DEL of
\* the assignment, or, where that one died, for the TTL from the change on - if
\* no request that read them before the change has filled them in after it.
StaleHasReason ==
  Stale /\ ~ late =>
    /\ unkept \/ \E q \in Requests : At(q, "invalidate")
    /\ cache.ttl + since <= Ttl

\* Once roles are assigned no more the last ones take effect, for good, however
\* many requests keep asking and whoever has failed before.
RolesTakeEffect ==
  <>[][\A q \in Requests : ~ Commit(q)]_vars => <>[] ~ Stale

=============================================================================
