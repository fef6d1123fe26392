-------------------------------- MODULE Rbac --------------------------------
(***************************************************************************)
(* Role checks and role management (service/internal/auth/rbac.go): the    *)
(* table user_roles and the cache of it that one process keeps for 30 s.   *)
(*                                                                         *)
(* A call runs in steps that other calls interleave with: the look into    *)
(* the cache, the query, the refill of the cache, the write to the table   *)
(* and the deletion of the cache entry.  AssignRole and RemoveRole begin   *)
(* with a Check of the caller.  An entry past its 30 s is ignored, which   *)
(* is what its absence means; it expires at any time after it was made.    *)
(* user_roles is not in the migrations; it is modelled as the queries use  *)
(* it, with the key (tenant_id, user_id, role).                            *)
(***************************************************************************)
EXTENDS Naturals, FiniteSets

CONSTANTS
  Callers,       \* calls in flight
  Accounts,      \* pairs <<tenant, user>>
  Calls,         \* what may be called: see CallTypes
  FirstRoles,    \* account -> the roles it has at the start
  NoEntry        \* no cache entry

VARIABLES
  userRoles,     \* user_roles: account -> set of roles
  cache,         \* Authorizer.userRoles: account -> set of roles, or NoEntry
  call,          \* caller -> the call in progress
  lingers        \* history: account -> roles it lost that may still be in use

rbacVars == <<userRoles, cache, call, lingers>>

RolePermissions ==
  [ user |-> {"device:read", "device:enroll", "approval:respond"},
    device_admin |-> {"device:read", "device:write", "device:revoke", "device:enroll", "user:read"},
    policy_author |-> {"policy:read", "policy:write", "resource:read"},
    policy_approver |-> {"policy:read", "policy:publish", "resource:read"},
    auditor |-> {"audit:read", "audit:export", "tenant:read", "user:read", "device:read", "policy:read"},
    security_admin |-> {"security:settings", "key:rotate", "device:revoke", "node:revoke",
                        "breakglass:execute", "audit:read"},
    operator |-> {"node:read", "node:register", "resource:read", "user:read", "device:read", "audit:read"} ]

Roles == DOMAIN RolePermissions

AdminRoles == {"security_admin", "operator", "device_admin"}

\* check: Check of the caller's permission on its own or another's object;
\* assign and remove: the role management calls on the target account;
\* duties: CheckSeparationOfDuties, first of the author and then, as a look at
\* whether the account is active, of the approver.
CallTypes ==
  [kind : {"check"}, caller : Accounts, perm : UNION {RolePermissions[r] : r \in Roles}, foreign : BOOLEAN]
    \cup
  [kind : {"assign", "remove"}, caller : Accounts, target : Accounts, role : Roles]
    \cup
  {c \in [kind : {"duties"}, caller : Accounts, approver : Accounts] : c.caller # c.approver}
    \cup
  [kind : {"active"}, caller : Accounts]

ASSUME RbacAssumption ==
  /\ FirstRoles \in [Accounts -> SUBSET Roles]
  /\ Calls \subseteq CallTypes
  /\ \A R \in SUBSET Roles : NoEntry # R

\* No call, or one that returned an error.
Free == [pc |-> "free"]

\* Where a call may be: with what was queried, or not.
CallStates ==
  {Free}
    \cup
  [pc : {"query", "look", "write", "invalidate", "allowed"}, c : CallTypes]
    \cup
  [pc : {"fill"}, c : CallTypes, roles : SUBSET Roles]

RbacInit ==
  /\ userRoles = FirstRoles
  /\ cache = [a \in Accounts |-> NoEntry]
  /\ call = [w \in Callers |-> Free]
  /\ lingers = [a \in Accounts |-> {}]

-------------------------------------------------------------------------------
\* roleCacheKey.
CacheKey(a) == a

Needed(c) == IF c.kind = "check" THEN c.perm ELSE "security:settings"

\* Check, or the test of CheckSeparationOfDuties, once the roles are known.
Permitted(c, roles) ==
  IF c.kind \in {"duties", "active"} THEN roles # {}
  ELSE /\ \E r \in roles : Needed(c) \in RolePermissions[r]
       /\ c.kind = "check" /\ c.foreign => roles \cap AdminRoles # {}

\* Where a call goes when it has the roles of its caller: a permitted AssignRole
\* or RemoveRole writes next, CheckSeparationOfDuties goes on to the approver and
\* everything else returns.
Checked(c, roles) ==
  IF ~ Permitted(c, roles) THEN Free
  ELSE CASE c.kind \in {"check", "active"} -> [pc |-> "allowed", c |-> c]
         [] c.kind = "duties" -> [pc |-> "look", c |-> [kind |-> "active", caller |-> c.approver]]
         [] OTHER -> [pc |-> "write", c |-> c]

Returned(w) == call[w].pc \in {"free", "allowed"}

\* getRoles begins with a look into the cache.
Look(w, c) ==
  LET entry == cache[CacheKey(c.caller)]
  IN  /\ call' = [call EXCEPT ![w] = IF entry # NoEntry THEN Checked(c, entry) ELSE [pc |-> "query", c |-> c]]
      /\ UNCHANGED <<userRoles, cache, lingers>>

BeginCall(w, c) == Returned(w) /\ Look(w, c)

LookAtApprover(w) == call[w].pc = "look" /\ Look(w, call[w].c)

\* The query of a call that missed.
QueryRoles(w) ==
  /\ call[w].pc = "query"
  /\ call' = [call EXCEPT ![w] = [pc |-> "fill", c |-> call[w].c, roles |-> userRoles[call[w].c.caller]]]
  /\ UNCHANGED <<userRoles, cache, lingers>>

\* The refill with what was queried, and the check.
FillCache(w) ==
  /\ call[w].pc = "fill"
  /\ cache' = [cache EXCEPT ![CacheKey(call[w].c.caller)] = call[w].roles]
  /\ call' = [call EXCEPT ![w] = Checked(call[w].c, call[w].roles)]
  /\ UNCHANGED <<userRoles, lingers>>

\* The iteration over the rows breaks off: the roles read so far are cached
\* all the same and rows.Err() denies the call.
FillCachePartly(w) ==
  /\ call[w].pc = "fill"
  /\ \E some \in SUBSET call[w].roles :
       cache' = [cache EXCEPT ![CacheKey(call[w].c.caller)] = some]
  /\ call' = [call EXCEPT ![w] = Free]
  /\ UNCHANGED <<userRoles, lingers>>

\* The INSERT or the DELETE.  When its answer is lost the call fails and the
\* cache is left as it is.
WriteRole(w, heard) ==
  /\ call[w].pc = "write"
  /\ LET c == call[w].c
         held == IF c.kind = "assign" THEN userRoles[c.target] \cup {c.role}
                 ELSE userRoles[c.target] \ {c.role}
     IN  /\ userRoles' = [userRoles EXCEPT ![c.target] = held]
         /\ lingers' = [lingers EXCEPT ![c.target] = (@ \cup userRoles[c.target]) \ held]
         /\ call' = [call EXCEPT ![w] = IF heard THEN [pc |-> "invalidate", c |-> c] ELSE Free]
  /\ UNCHANGED cache

\* Without its entry, all that an account may still be given of the roles it lost is
\* what a lookup read before.
Settle(a) ==
  lingers' = [lingers EXCEPT ![a] =
    {r \in @ : \E v \in Callers :
       call[v].pc = "fill" /\ call[v].c.caller = a /\ r \in call[v].roles}]

\* Mutant: the entry of the caller is deleted.
InvalidateCaller(w) ==
  /\ call[w].pc = "invalidate"
  /\ cache' = [cache EXCEPT ![CacheKey(call[w].c.caller)] = NoEntry]
  /\ call' = [call EXCEPT ![w] = Free]
  /\ Settle(call[w].c.target)
  /\ UNCHANGED userRoles

\* The cache entry of the target is deleted and the call returns.
InvalidateEntry(w) ==
  /\ call[w].pc = "invalidate"
  /\ cache' = [cache EXCEPT ![CacheKey(call[w].c.target)] = NoEntry]
  /\ call' = [call EXCEPT ![w] = Free]
  /\ Settle(call[w].c.target)
  /\ UNCHANGED userRoles

\* A statement fails and the call with it.
StatementFails(w) ==
  /\ call[w].pc \in {"query", "write"}
  /\ call' = [call EXCEPT ![w] = Free]
  /\ UNCHANGED <<userRoles, cache, lingers>>

\* Mutant: an entry lives until it is invalidated.
NeverExpires(a) == FALSE /\ a = a /\ UNCHANGED rbacVars

\* cacheTTL after it was made, an entry is no longer used.
EntryExpires(a) ==
  /\ cache[a] # NoEntry
  /\ cache' = [cache EXCEPT ![a] = NoEntry]
  /\ Settle(a)
  /\ UNCHANGED <<userRoles, call>>

RbacNext ==
  \/ \E w \in Callers, c \in Calls : BeginCall(w, c)
  \/ \E w \in Callers : QueryRoles(w)
  \/ \E w \in Callers : FillCache(w)
  \/ \E w \in Callers : FillCachePartly(w)
  \/ \E w \in Callers : LookAtApprover(w)
  \/ \E w \in Callers, heard \in BOOLEAN : WriteRole(w, heard)
  \/ \E w \in Callers : InvalidateEntry(w)
  \/ \E w \in Callers : StatementFails(w)
  \/ \E a \in Accounts : EntryExpires(a)

\* A call that has begun goes on, and the 30 s of an entry pass.
RbacFairness ==
  /\ \A w \in Callers :
       WF_rbacVars(LookAtApprover(w) \/ QueryRoles(w) \/ FillCache(w)
                     \/ WriteRole(w, TRUE) \/ InvalidateEntry(w))
  /\ \A a \in Accounts : WF_rbacVars(EntryExpires(a))

-------------------------------------------------------------------------------
RbacTypeOK ==
  /\ userRoles \in [Accounts -> SUBSET Roles]
  /\ cache \in [Accounts -> {NoEntry} \cup SUBSET Roles]
  /\ call \in [Callers -> CallStates]
  /\ lingers \in [Accounts -> SUBSET Roles]

\* If the call is let through in this step, its caller has the permission, with the
\* roles that may still be in use.
Backed(w) ==
  call'[w] # call[w] /\ call'[w].pc \in {"allowed", "write"} =>
    LET a == call'[w].c.caller
    IN  Permitted(call'[w].c, userRoles[a] \cup lingers[a])

\* A call is allowed, or goes on to change roles, by the roles its caller has in
\* the tenant of the call.  A role the caller has lost counts for no longer than
\* RemoveRole takes to delete the cache entry, with two exceptions, which end
\* when the entry does: the answer to the DELETE was lost, or a lookup that read
\* the role before the DELETE refilled the cache afterwards.  Nothing else adds
\* a role, and no other tenant's does (rbac.go:273-313 and 340-385, DR-AUTH-7, fix H4).
PermittedByHeldRole == [][\A w \in Callers : Backed(w)]_rbacVars

\* A role that stays removed leaves the cache and stays out of it, although a
\* refill that queried before the DELETE may bring it back after RemoveRole
\* deleted the entry: cacheTTL bounds what the invalidation misses.
RemovalTakesEffect ==
  \A a \in Accounts, r \in Roles :
    <>[](r \notin userRoles[a]) => <>[](cache[a] # NoEntry => r \notin cache[a])

===============================================================================
