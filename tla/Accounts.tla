-------------------------------- MODULE Accounts --------------------------------
(***************************************************************************)
(* Accounts, sessions and roles: backend/auth/user_service.py,             *)
(* jwt_handler.py, middleware.py, permissions.py and the handlers of       *)
(* backend/api/auth.py and users.py.                                       *)
(*                                                                         *)
(* Time runs in half seconds, since tokens expire at whole seconds and the *)
(* life of a revocation is cut to whole seconds.  Two servers may register *)
(* the same address at once: the check and the insert are two steps; every *)
(* other handler runs without an await.  A token is a record of what it    *)
(* says; names, passwords and signatures are left out.                     *)
(***************************************************************************)
EXTENDS Integers, FiniteSets

CONSTANTS
    People,        \* accounts that may exist
    Addresses,     \* e-mail addresses
    RoleOf,        \* the role of each account, given to it outside this code
    AccessLife,    \* ACCESS_TOKEN_EXPIRE_MINUTES, in half seconds
    RefreshLife,   \* REFRESH_TOKEN_EXPIRE_DAYS, in half seconds
    MaxNow,        \* when the model ends
    MaxTokens      \* how many tokens are issued

ASSUME AccountsAssumption == AccessLife \in Nat /\ RefreshLife \in Nat

VARIABLES
    address,       \* User.email of each account, "none" without a row
    active,        \* accounts with User.is_active
    joining,       \* registrations that found the address free
    tokens,        \* tokens issued
    revocations,   \* entries revoked:<token> in Redis with the time they vanish
    redis,         \* whether Redis answers
    loggedOut,     \* history: tokens whose logout was confirmed
    now

accvars == <<address, active, joining, tokens, revocations, redis, loggedOut, now>>
accounts == <<address, active>>
sessions == <<tokens, revocations, loggedOut>>

Existing == {p \in People : address[p] # "none"}

AccInit ==
    /\ address = [p \in People |-> "none"]
    /\ active = {}
    /\ joining = {}
    /\ tokens = {} /\ revocations = {} /\ loggedOut = {}
    /\ redis = TRUE
    /\ now = 0

-------------------------------------------------------------------------------
(* permissions.py *)

Role == <<"user", "admin", "superadmin">>
Level(role) == CHOOSE i \in 1..3 : Role[i] = role

UserPermissions == {"own_data", "company", "deployment"}
AdminPermissions == {"own_data", "company", "deployment", "all_users", "all_companies",
                     "all_deployments", "analytics", "billing"}
Permission == AdminPermissions \cup {"update_users", "delete_users", "system"}

GetRolePermissions(role) ==
    CASE role = "user" -> UserPermissions
      [] role = "admin" -> AdminPermissions
      [] OTHER -> Permission

RequireRole(role, required) == Level(role) >= Level(required)

CanAccessResource(user, owner, role) == user = owner \/ role \in {"admin", "superadmin"}

FilterSensitiveData(fields, role) ==
    IF role = "superadmin" THEN fields ELSE fields \ {"password_hash", "api_keys", "secrets"}

-------------------------------------------------------------------------------
(* jwt_handler.py *)

WholeSecond(time) == 2 * (time \div 2)

\* A token says who logged in, with which role, and when it expires.
Token(kind, p, life, login) ==
    [kind |-> kind, user |-> p, role |-> RoleOf[p], exp |-> WholeSecond(now + life),
     login |-> login]

CreateAccessToken(p, login) == Token("access", p, AccessLife, login)
CreateRefreshToken(p) == Token("refresh", p, RefreshLife, now)

\* Without Redis no token counts as revoked.
IsTokenRevoked(t) == redis /\ \E r \in revocations : r.token = t /\ now < r.until

DecodeToken(t) == now < t.exp

\* The entry lives as long as the token, cut to whole seconds, if that is any.
RevokeToken(t) ==
    LET ttl == WholeSecond(t.exp - now)
    IN  revocations' = IF ttl = 0 THEN revocations
                       ELSE revocations \cup {[token |-> t, until |-> now + ttl]}

\* Faulty variant: any token that is valid is exchanged.
RefreshAccessTokenOfAny(t) ==
    IF DecodeToken(t) /\ ~IsTokenRevoked(t) THEN {CreateAccessToken(t.user, t.login)} ELSE {}

\* What refresh_access_token makes of a refresh token.
RefreshAccessToken(t) ==
    IF t.kind = "refresh" /\ DecodeToken(t) /\ ~IsTokenRevoked(t)
    THEN {CreateAccessToken(t.user, t.login)} ELSE {}

-------------------------------------------------------------------------------
(* middleware.py: what lets a request through. *)

GetCurrentUser(t) == ~IsTokenRevoked(t) /\ DecodeToken(t) /\ t.kind = "access"
GetCurrentActiveUser(t) == GetCurrentUser(t) /\ t.user \in Existing \cap active
GetCurrentAdminUser(t) == GetCurrentActiveUser(t) /\ t.role \in {"admin", "superadmin"}

-------------------------------------------------------------------------------
(* The handlers. *)

Issue(some) ==
    /\ Cardinality(tokens \cup some) <= MaxTokens
    /\ tokens' = tokens \cup some

RegisterCheck(p, a) ==
    /\ p \notin Existing /\ \A other \in Existing : address[other] # a
    /\ joining' = joining \cup {<<p, a>>}
    /\ UNCHANGED <<accounts, sessions, redis, now>>

\* The unique constraint refuses an address taken since the check.
CreateUser(p, a) ==
    /\ <<p, a>> \in joining
    /\ joining' = joining \ {<<p, a>>}
    /\ IF p \in Existing \/ \E other \in Existing : address[other] = a
       THEN UNCHANGED <<accounts, tokens>>
       ELSE /\ address' = [address EXCEPT ![p] = a]
            /\ active' = active \cup {p}
            /\ Issue({CreateAccessToken(p, now), CreateRefreshToken(p)})
    /\ UNCHANGED <<revocations, loggedOut, redis, now>>

Login(p) ==
    /\ p \in Existing \cap active
    /\ Issue({CreateAccessToken(p, now), CreateRefreshToken(p)})
    /\ UNCHANGED <<accounts, joining, revocations, loggedOut, redis, now>>

\* Without Redis nothing is written and the answer is an error.
Logout(t) ==
    /\ GetCurrentUser(t)
    /\ redis
    /\ RevokeToken(t)
    /\ loggedOut' = loggedOut \cup {t}
    /\ UNCHANGED <<accounts, joining, tokens, redis, now>>

Refresh(t) ==
    /\ RefreshAccessToken(t) # {}
    /\ Issue(RefreshAccessToken(t))
    /\ UNCHANGED <<accounts, joining, revocations, loggedOut, redis, now>>

\* PUT /me, and PUT /{user_id} for an admin; the constraint refuses a taken address.
UpdateUser(t, p, a) ==
    /\ (GetCurrentActiveUser(t) /\ t.user = p) \/ GetCurrentAdminUser(t)
    /\ p \in Existing /\ \A other \in Existing : address[other] # a
    /\ address' = [address EXCEPT ![p] = a]
    /\ UNCHANGED <<active, joining, sessions, redis, now>>

\* delete_user only deactivates.
DeleteUser(t, p) ==
    /\ (GetCurrentActiveUser(t) /\ t.user = p) \/ GetCurrentAdminUser(t)
    /\ active' = active \ {p}
    /\ UNCHANGED <<address, joining, sessions, redis, now>>

ActivateUser(t, p) ==
    /\ GetCurrentAdminUser(t) /\ p \in Existing
    /\ active' = active \cup {p}
    /\ UNCHANGED <<address, joining, sessions, redis, now>>

-------------------------------------------------------------------------------

RedisChanges == redis' = ~redis /\ UNCHANGED <<accounts, joining, sessions, now>>

\* An expired token can no longer be used and is forgotten with its revocation.
Tick ==
    /\ now < MaxNow
    /\ now' = now + 1
    /\ tokens' = {t \in tokens : now' < t.exp}
    /\ loggedOut' = loggedOut \cap tokens'
    /\ revocations' = {r \in revocations : now' < r.until}
    /\ UNCHANGED <<accounts, joining, redis>>

AccNext ==
    \/ \E p \in People, a \in Addresses : RegisterCheck(p, a) \/ CreateUser(p, a)
    \/ \E p \in People : Login(p)
    \/ \E t \in tokens : Logout(t) \/ Refresh(t)
    \/ \E t \in tokens, p \in People :
         \/ DeleteUser(t, p) \/ ActivateUser(t, p)
         \/ \E a \in Addresses : UpdateUser(t, p, a)
    \/ RedisChanges
    \/ Tick

AccSpec == AccInit /\ [][AccNext]_accvars

-------------------------------------------------------------------------------
(* Properties. *)

\* However often it is refreshed, a session ends: refreshing never renews the
\* refresh token, so no access outlives the login by more than both lifetimes.
SessionsEnd ==
    \A t \in tokens : GetCurrentUser(t) => now < t.login + RefreshLife + AccessLife

\* A token logged out is refused, also by the handlers that change its account,
\* but for the last second of its life and while Redis does not answer.
LogoutHolds == \A t \in loggedOut : GetCurrentUser(t) => ~redis \/ t.exp - now < 2

\* Registrations and changes of address that overlap leave an address to one
\* account, so that a login finds the account it names.
AddressesUnique ==
    \A p, other \in Existing : p # other => address[p] # address[other]

\* Whoever holds a role passes every check a lower role passes: permissions are
\* listed by hand for two roles, checked by level and by name for others.
RolesNest ==
    \A i, j \in 1..3 : i <= j =>
        /\ RequireRole(Role[j], Role[i])
        /\ GetRolePermissions(Role[i]) \subseteq GetRolePermissions(Role[j])
        /\ \A p, o \in People : CanAccessResource(p, o, Role[i]) => CanAccessResource(p, o, Role[j])

\* Sessions end in time, a logout holds while the revocations can be read, and no
\* two accounts share an address.
SessionsHold == SessionsEnd /\ LogoutHolds /\ AddressesUnique /\ RolesNest
===============================================================================
