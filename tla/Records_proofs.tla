--------------------------- MODULE Records_proofs ---------------------------
(***************************************************************************)
(* Proofs about parts of the program that keep records, and about the      *)
(* instance that puts them side by side, for any number of actors and rows *)
(* and for any lifetimes and limits.  Each part has an inductive invariant *)
(* of its own, and a step of the whole is one of each part or a stutter    *)
(* (PartsMove).                                                            *)
(***************************************************************************)
EXTENDS MCRecords, FiniteSetTheorems, SequenceTheorems, WellFoundedInduction, TLAPS

-------------------------------------------------------------------------------
(* Accounts: sessions, logouts and addresses. *)

\* A token expires in time: a refresh token by its own life, an access token, which a
\* refresh token may have bought at its end, by one more.
Expires(t) ==
    /\ t.exp \in Int /\ t.login \in Int
    /\ t.kind = "refresh" => t.exp <= t.login + RefreshLife
    /\ t.exp <= t.login + RefreshLife + AccessLife

\* The entry of a revocation lives until the token has less than two half seconds left.
Revoked(t) ==
    \/ t.exp - now < 2
    \/ \E r \in revocations : r.token = t /\ r.until \in Int /\ r.until > t.exp - 2

SessionInv ==
    /\ now \in Nat
    /\ \A t \in tokens : Expires(t)
    /\ loggedOut \subseteq tokens
    /\ \A t \in loggedOut : Revoked(t)

AddressInv ==
    /\ address = [p \in People |-> address[p]]
    /\ AddressesUnique

\* Cutting to whole seconds takes away at most one half.
LEMMA WholeSeconds ==
    \A x \in Int : WholeSecond(x) \in Int /\ WholeSecond(x) <= x /\ x - 1 <= WholeSecond(x)
  BY DEF WholeSecond

\* Tokens that are made expire in time.
LEMMA IssuedExpire ==
    ASSUME now \in Nat, NEW p
    PROVE  /\ Expires(CreateAccessToken(p, now))
           /\ Expires(CreateRefreshToken(p))
           /\ \A t : /\ Expires(t) /\ now < t.exp /\ t.kind = "refresh"
                     => Expires(CreateAccessToken(p, t.login))
<1>1. /\ now + AccessLife \in Int /\ now + RefreshLife \in Int
      /\ AccessLife \in Nat /\ RefreshLife \in Nat
  BY AccountsAssumption
<1>2. /\ WholeSecond(now + AccessLife) \in Int
      /\ WholeSecond(now + AccessLife) <= now + AccessLife
      /\ WholeSecond(now + RefreshLife) \in Int
      /\ WholeSecond(now + RefreshLife) <= now + RefreshLife
  BY <1>1, WholeSeconds
<1>3. ASSUME NEW login
      PROVE  /\ CreateAccessToken(p, login).kind = "access"
             /\ CreateAccessToken(p, login).exp = WholeSecond(now + AccessLife)
             /\ CreateAccessToken(p, login).login = login
  BY DEF CreateAccessToken, Token
<1>4. /\ CreateRefreshToken(p).exp = WholeSecond(now + RefreshLife)
      /\ CreateRefreshToken(p).login = now
  BY DEF CreateRefreshToken, Token
<1>5. Expires(CreateAccessToken(p, now))
  BY <1>1, <1>2, <1>3 DEF Expires
<1>6. Expires(CreateRefreshToken(p))
  BY <1>1, <1>2, <1>4 DEF Expires
<1>7. ASSUME NEW t, Expires(t), now < t.exp, t.kind = "refresh"
      PROVE  Expires(CreateAccessToken(p, t.login))
  BY <1>1, <1>2, <1>3, <1>7 DEF Expires
<1> QED
  BY <1>5, <1>6, <1>7

\* There is no token yet.
LEMMA AccountsInit == AccInit => SessionInv /\ AddressInv
  BY DEF AccInit, SessionInv, AddressInv, AddressesUnique, Existing

\* Tokens are issued and expire, and logouts are kept.
LEMMA SessionNext == SessionInv /\ [AccNext]_accvars => SessionInv'
<1> SUFFICES ASSUME SessionInv, [AccNext]_accvars
             PROVE  SessionInv'
  OBVIOUS
<1>0. now \in Nat /\ loggedOut \subseteq tokens
  BY DEF SessionInv
<1>1. ASSUME UNCHANGED <<tokens, revocations, loggedOut, now>> PROVE SessionInv'
  BY <1>1 DEF SessionInv, Revoked
<1>2. ASSUME UNCHANGED <<revocations, loggedOut, now>>, NEW some, Issue(some),
             \A t \in some : Expires(t)
      PROVE  SessionInv'
  BY <1>2 DEF SessionInv, Revoked, Issue
<1>3. ASSUME NEW p, NEW a, CreateUser(p, a) PROVE SessionInv'
  BY <1>0, <1>1, <1>2, <1>3, IssuedExpire DEF CreateUser
<1>4. ASSUME NEW p, Login(p) PROVE SessionInv'
  BY <1>0, <1>2, <1>4, IssuedExpire DEF Login
<1>5. ASSUME NEW t \in tokens, Refresh(t) PROVE SessionInv'
  <2>1. t.kind = "refresh" /\ now < t.exp
    BY <1>5 DEF Refresh, RefreshAccessToken, DecodeToken
  <2>2. Expires(t)
    BY DEF SessionInv
  <2>3. RefreshAccessToken(t) \subseteq {CreateAccessToken(t.user, t.login)}
    BY DEF RefreshAccessToken
  <2>4. \A k \in RefreshAccessToken(t) : Expires(k)
    BY <1>0, <2>1, <2>2, <2>3, IssuedExpire
  <2> QED
    BY <1>2, <1>5, <2>4 DEF Refresh
<1>6. ASSUME NEW t \in tokens, Logout(t) PROVE SessionInv'
  <2>1. Expires(t) /\ now < t.exp /\ UNCHANGED <<tokens, now>> /\ loggedOut' = loggedOut \cup {t}
    BY <1>6 DEF SessionInv, Logout, GetCurrentUser, DecodeToken
  <2>2. t.exp - now \in Int /\ t.exp \in Int /\ now \in Int
    BY <1>0, <2>1 DEF Expires
  <2>3. PICK ttl \in Int : /\ ttl = WholeSecond(t.exp - now) /\ t.exp - now - 1 <= ttl
                           /\ revocations' = IF ttl = 0 THEN revocations
                                ELSE revocations \cup {[token |-> t, until |-> now + ttl]}
    BY <1>6, <2>2, WholeSeconds DEF Logout, RevokeToken
  <2>4. Revoked(t)'
    <3>1. CASE ttl = 0
      BY <2>1, <2>2, <2>3, <3>1 DEF Revoked
    <3>2. CASE ttl # 0
      <4>1. [token |-> t, until |-> now + ttl] \in revocations'
        BY <2>3, <3>2
      <4>2. now + ttl \in Int /\ now + ttl > t.exp - 2
        BY <2>2, <2>3
      <4> QED
        BY <4>1, <4>2 DEF Revoked
    <3> QED
      BY <3>1, <3>2
  <2>5. ASSUME NEW k \in loggedOut PROVE Revoked(k)'
    <3>1. Revoked(k)
      BY <2>5 DEF SessionInv
    <3>2. revocations \subseteq revocations'
      BY <2>3
    <3> QED
      BY <2>1, <3>1, <3>2 DEF Revoked
  <2> QED
    BY <2>1, <2>4, <2>5 DEF SessionInv
<1>7. CASE Tick
  <2>1. now' = now + 1 /\ tokens' \subseteq tokens /\ loggedOut' \subseteq loggedOut \cap tokens'
    BY <1>7 DEF Tick
  <2>2. ASSUME NEW t \in loggedOut' PROVE Revoked(t)'
    <3>1. Revoked(t) /\ t.exp \in Int
      BY <1>0, <2>1, <2>2 DEF SessionInv, Expires
    <3>2. CASE t.exp - now < 2
      <4>1. t.exp - now' < 2
        BY <1>0, <2>1, <3>1, <3>2
      <4> QED
        BY <4>1 DEF Revoked
    <3>3. CASE \E r \in revocations : r.token = t /\ r.until \in Int /\ r.until > t.exp - 2
      <4>1. PICK r \in revocations : r.token = t /\ r.until \in Int /\ r.until > t.exp - 2
        BY <3>3
      <4>2. CASE now' < r.until
        BY <1>7, <4>1, <4>2 DEF Tick, Revoked
      <4>3. CASE ~(now' < r.until)
        <5>1. t.exp - now' < 2
          BY <1>0, <2>1, <3>1, <4>1, <4>3
        <5> QED
          BY <5>1 DEF Revoked
      <4> QED
        BY <4>2, <4>3
    <3> QED
      BY <3>1, <3>2, <3>3 DEF Revoked
  <2>3. now' \in Nat /\ (\A t \in tokens' : Expires(t)) /\ loggedOut' \subseteq tokens'
    BY <1>0, <2>1 DEF SessionInv
  <2> QED
    BY <2>2, <2>3 DEF SessionInv, Expires
<1>8. ASSUME NEW p \in People, NEW a \in Addresses, RegisterCheck(p, a) PROVE SessionInv'
  BY <1>1, <1>8 DEF RegisterCheck, sessions
<1>9. ASSUME NEW t \in tokens, NEW p \in People, DeleteUser(t, p) \/ ActivateUser(t, p)
      PROVE  SessionInv'
  BY <1>1, <1>9 DEF DeleteUser, ActivateUser, sessions
<1>10. ASSUME NEW t \in tokens, NEW p \in People, NEW a \in Addresses, UpdateUser(t, p, a)
       PROVE  SessionInv'
  BY <1>1, <1>10 DEF UpdateUser, sessions
<1>11. CASE RedisChanges
  BY <1>1, <1>11 DEF RedisChanges, sessions
<1>12. CASE UNCHANGED accvars
  BY <1>1, <1>12 DEF accvars
<1> QED
  BY <1>3, <1>4, <1>5, <1>6, <1>7, <1>8, <1>9, <1>10, <1>11, <1>12 DEF AccNext

\* The database's constraint decides between addresses, not the check before it.
LEMMA AddressNext == AddressInv /\ [AccNext]_accvars => AddressInv'
<1> SUFFICES ASSUME AddressInv, [AccNext]_accvars
             PROVE  AddressInv'
  OBVIOUS
<1>1. ASSUME UNCHANGED address PROVE AddressInv'
  BY <1>1 DEF AddressInv, AddressesUnique, Existing
<1>2. ASSUME NEW p \in People, NEW a, \A other \in Existing : address[other] # a,
             address' = [address EXCEPT ![p] = a]
      PROVE  AddressInv'
  BY <1>2 DEF AddressInv, AddressesUnique, Existing
<1>3. ASSUME NEW p \in People, NEW a \in Addresses, RegisterCheck(p, a) \/ CreateUser(p, a)
      PROVE  AddressInv'
  BY <1>1, <1>2, <1>3 DEF RegisterCheck, CreateUser, accounts
<1>4. ASSUME NEW p \in People, Login(p) PROVE AddressInv'
  BY <1>1, <1>4 DEF Login, accounts
<1>5. ASSUME NEW t \in tokens, Logout(t) \/ Refresh(t) PROVE AddressInv'
  BY <1>1, <1>5 DEF Logout, Refresh, accounts
<1>6. ASSUME NEW t \in tokens, NEW p \in People, DeleteUser(t, p) \/ ActivateUser(t, p)
      PROVE  AddressInv'
  BY <1>1, <1>6 DEF DeleteUser, ActivateUser
<1>7. ASSUME NEW t \in tokens, NEW p \in People, NEW a \in Addresses, UpdateUser(t, p, a)
      PROVE  AddressInv'
  BY <1>2, <1>7 DEF UpdateUser
<1>8. CASE RedisChanges \/ Tick
  BY <1>1, <1>8 DEF RedisChanges, Tick, accounts
<1>9. CASE UNCHANGED accvars
  BY <1>1, <1>9 DEF accvars
<1> QED
  BY <1>3, <1>4, <1>5, <1>6, <1>7, <1>8, <1>9 DEF AccNext

\* Each role is at its level, and permits what the roles below it permit.
LEMMA RolesAreNested == RolesNest
<1>1. \A i \in 1..3 : Level(Role[i]) = i
  BY DEF Level, Role
<1>2. \A i, j \in 1..3 : i <= j => RequireRole(Role[j], Role[i])
  BY <1>1 DEF RequireRole
<1>3. \A i, j \in 1..3 : i <= j => GetRolePermissions(Role[i]) \subseteq GetRolePermissions(Role[j])
  BY DEF GetRolePermissions, Role, UserPermissions, AdminPermissions, Permission
<1>4. \A i, j \in 1..3 : i <= j =>
        \A p, o \in People : CanAccessResource(p, o, Role[i]) => CanAccessResource(p, o, Role[j])
  BY DEF CanAccessResource, Role
<1> QED
  BY <1>2, <1>3, <1>4 DEF RolesNest

\* For any lifetimes, accounts and order of requests: a session ends with the life of its
\* refresh token and one access token more, a logout is honoured while Redis answers but
\* for the token's last second, overlapping registrations leave an address to one account,
\* and roles are nested.
THEOREM SessionsAreSound == AccSpec => []SessionsHold
<1>1. SessionInv => SessionsEnd
  <2> SUFFICES ASSUME SessionInv, NEW t \in tokens, GetCurrentUser(t)
               PROVE  now < t.login + RefreshLife + AccessLife
    BY DEF SessionsEnd
  <2>1. Expires(t) /\ now < t.exp /\ now \in Nat
    BY DEF SessionInv, GetCurrentUser, DecodeToken
  <2> QED
    BY <2>1, AccountsAssumption DEF Expires
<1>2. SessionInv => LogoutHolds
  <2> SUFFICES ASSUME SessionInv, NEW t \in loggedOut, GetCurrentUser(t), redis
               PROVE  t.exp - now < 2
    BY DEF LogoutHolds
  <2>1. Expires(t) /\ Revoked(t) /\ now \in Nat
    BY DEF SessionInv
  <2>2. \A r \in revocations : r.token = t => ~(now < r.until)
    BY DEF GetCurrentUser, IsTokenRevoked
  <2> QED
    BY <2>1, <2>2 DEF Expires, Revoked
<1>3. SessionInv /\ AddressInv => SessionsHold
  BY <1>1, <1>2, RolesAreNested DEF SessionsHold, AddressInv
<1> QED
  BY <1>3, AccountsInit, SessionNext, AddressNext, PTL DEF AccSpec

-------------------------------------------------------------------------------
(* RateLimiter: windows that follow the requests. *)

\* The forwarded requests of a client in an interval.
Between(times, a, b) == {i \in DOMAIN times : times[i] \in a..b}

RateTyped ==
    /\ request_counts \in [Clients -> {<<>>} \cup (Nat \X Nat)]
    /\ accepted \in [Clients -> Seq(Nat)]
    /\ time \in Nat

\* What an entry says of the client's requests: the window began with one, holds as many
\* as it counts, and follows a minute with fewer than the limit.  Without an entry the
\* minute until now has fewer.
Tells(times, entry, upto) ==
    IF entry = <<>>
    THEN /\ \A i \in DOMAIN times : times[i] < upto
         /\ Cardinality(Between(times, upto - Minute + 1, upto)) < RequestsPerMinute
    ELSE /\ entry[1] \in 1..RequestsPerMinute /\ entry[2] \in 0..upto
         /\ \E i \in DOMAIN times : times[i] = entry[2]
         /\ \A i \in DOMAIN times : times[i] < entry[2] + Minute
         /\ Cardinality(Between(times, entry[2], upto)) = entry[1]
         /\ Cardinality(Between(times, entry[2] - Minute + 1, entry[2] - 1)) < RequestsPerMinute

\* How many requests were forwarded in the minute that begins at a time.
InMinute(times, from) == Cardinality(Between(times, from, from + Minute - 1))

RateInv ==
    /\ \A c \in Clients : \A i \in DOMAIN accepted[c] : accepted[c][i] <= time
    /\ \A c \in Clients : Tells(accepted[c], request_counts[c], time)
    /\ \A c \in Clients, from \in Int : InMinute(accepted[c], from) < 2 * RequestsPerMinute

\* Requests are finitely many, and fewer in a part of an interval.
LEMMA BetweenCounted ==
    ASSUME NEW times \in Seq(Nat), NEW a, NEW b
    PROVE  /\ IsFiniteSet(Between(times, a, b)) /\ Cardinality(Between(times, a, b)) \in Nat
           /\ \A S \in SUBSET Between(times, a, b) :
                /\ IsFiniteSet(S) /\ Cardinality(S) \in Nat
                /\ Cardinality(S) <= Cardinality(Between(times, a, b))
           /\ \A i \in Between(times, a, b) : \A S \in SUBSET (Between(times, a, b) \ {i}) :
                Cardinality(S) < Cardinality(Between(times, a, b))
<1>1. DOMAIN times = 1..Len(times) /\ Len(times) \in Nat
  OBVIOUS
<1>2. IsFiniteSet(DOMAIN times)
  BY <1>1, FS_Interval
<1>3. IsFiniteSet(Between(times, a, b)) /\ Cardinality(Between(times, a, b)) \in Nat
  BY <1>2, FS_Subset, FS_CardinalityType DEF Between
<1>4. ASSUME NEW S \in SUBSET Between(times, a, b)
      PROVE  /\ IsFiniteSet(S) /\ Cardinality(S) \in Nat
             /\ Cardinality(S) <= Cardinality(Between(times, a, b))
  BY <1>3, FS_Subset, FS_CardinalityType
<1>5. ASSUME NEW i \in Between(times, a, b), NEW S \in SUBSET (Between(times, a, b) \ {i})
      PROVE  Cardinality(S) < Cardinality(Between(times, a, b))
  <2>1. /\ IsFiniteSet(Between(times, a, b) \ {i})
        /\ Cardinality(Between(times, a, b) \ {i}) = Cardinality(Between(times, a, b)) - 1
    BY <1>3, FS_RemoveElement
  <2>2. Cardinality(S) <= Cardinality(Between(times, a, b) \ {i}) /\ Cardinality(S) \in Nat
    BY <2>1, FS_Subset, FS_CardinalityType
  <2> QED
    BY <1>3, <2>1, <2>2
<1> QED
  BY <1>3, <1>4, <1>5

\* Dropping the entries whose window is over leaves what they tell true.
LEMMA CurrentTells ==
    ASSUME RateTyped, RateInv, NEW c \in Clients
    PROVE  Tells(accepted[c], Current[c], time) /\ Current \in [Clients -> {<<>>} \cup (Nat \X Nat)]
           /\ (Current[c] # <<>> => time - Current[c][2] < Minute)
<1>1. Current[c] = IF Expired(request_counts[c]) THEN <<>> ELSE request_counts[c]
  BY DEF Current
<1>2. Current \in [Clients -> {<<>>} \cup (Nat \X Nat)]
  BY DEF Current, RateTyped
<1>3. CASE ~Expired(request_counts[c])
  BY <1>1, <1>2, <1>3, RateAssumption DEF RateInv, RateTyped, Expired
<1>4. CASE Expired(request_counts[c])
  <2> DEFINE s == request_counts[c][2]
             k == request_counts[c][1]
  <2>1. request_counts[c] # <<>> /\ time - s >= Minute
    BY <1>4 DEF Expired
  <2>2. /\ k \in 1..RequestsPerMinute /\ s \in 0..time
        /\ \A i \in DOMAIN accepted[c] : accepted[c][i] < s + Minute
        /\ Cardinality(Between(accepted[c], s, time)) = k
    BY <2>1 DEF RateInv, Tells
  <2>3. PICK i \in DOMAIN accepted[c] : accepted[c][i] = s
    BY <2>1 DEF RateInv, Tells
  <2>4. s \in Int /\ time \in Int /\ Minute \in Nat \ {0} /\ RequestsPerMinute \in Nat \ {0}
        /\ accepted[c] \in Seq(Nat)
    BY <2>2, RateAssumption DEF RateTyped
  <2>5. \A j \in DOMAIN accepted[c] : accepted[c][j] < time
    <3>1. \A j \in DOMAIN accepted[c] : accepted[c][j] \in Nat
      BY <2>4
    <3> QED
      BY <2>1, <2>2, <2>4, <3>1, SMTT(60)
  <2>6. i \in Between(accepted[c], s, time)
    BY <2>2, <2>3, <2>4 DEF Between
  <2>7. Between(accepted[c], time - Minute + 1, time) \subseteq Between(accepted[c], s, time) \ {i}
    <3>1. \A n \in (time - Minute + 1)..time : n \in s..time /\ n # s
      BY <2>1, <2>4, SMTT(60)
    <3> QED
      BY <2>3, <3>1 DEF Between
  <2>8. Cardinality(Between(accepted[c], time - Minute + 1, time)) < k
    BY <2>2, <2>4, <2>6, <2>7, BetweenCounted
  <2>9. Cardinality(Between(accepted[c], time - Minute + 1, time)) < RequestsPerMinute
    BY <2>2, <2>4, <2>8, BetweenCounted, SMTT(60)
  <2>10. Current[c] = <<>>
    BY <1>1, <1>4
  <2> QED
    BY <1>2, <2>5, <2>9, <2>10 DEF Tells
<1> QED
  BY <1>3, <1>4

\* No request was forwarded yet.
LEMMA RateStarts == RateInit => RateTyped /\ RateInv
<1> SUFFICES ASSUME RateInit PROVE RateTyped /\ RateInv
  OBVIOUS
<1>1. RateTyped
  BY DEF RateInit, RateTyped
<1>2. \A c \in Clients : DOMAIN accepted[c] = {}
  BY DEF RateInit
<1>3. ASSUME NEW c \in Clients, NEW a, NEW b PROVE Cardinality(Between(accepted[c], a, b)) = 0
  <2>1. Between(accepted[c], a, b) = {}
    BY <1>2 DEF Between
  <2> QED
    BY <2>1, FS_EmptySet
<1>4. RequestsPerMinute \in Nat \ {0}
  BY RateAssumption
<1>5. \A c \in Clients : Tells(accepted[c], request_counts[c], time)
  BY <1>2, <1>3, <1>4 DEF RateInit, Tells
<1>6. \A c \in Clients, from \in Int : InMinute(accepted[c], from) < 2 * RequestsPerMinute
  BY <1>3, <1>4 DEF InMinute
<1> QED
  BY <1>1, <1>2, <1>5, <1>6 DEF RateInv

\* Steps keep the types.
LEMMA RateTypedNext == RateTyped /\ RateInv /\ [RateNext]_ratevars => RateTyped'
<1> SUFFICES ASSUME RateTyped, RateInv, [RateNext]_ratevars
             PROVE  RateTyped'
  OBVIOUS
<1>1. ASSUME NEW c \in Clients PROVE Current \in [Clients -> {<<>>} \cup (Nat \X Nat)]
  BY <1>1, CurrentTells
<1>2. ASSUME NEW c \in Clients, Dispatch429(c) PROVE RateTyped'
  BY <1>1, <1>2 DEF RateTyped, Dispatch429
<1>3. ASSUME NEW c \in Clients, DispatchForward(c) PROVE RateTyped'
  <2>1. IF Current[c] = <<>> THEN <<1, time>> \in Nat \X Nat
        ELSE <<Current[c][1] + 1, Current[c][2]>> \in Nat \X Nat
    BY <1>1 DEF RateTyped
  <2>2. request_counts' \in [Clients -> {<<>>} \cup (Nat \X Nat)]
    BY <1>1, <1>3, <2>1 DEF DispatchForward
  <2>3. accepted' \in [Clients -> Seq(Nat)] /\ time' \in Nat
    BY <1>3 DEF DispatchForward, RateTyped
  <2> QED
    BY <2>2, <2>3 DEF RateTyped
<1>4. CASE RateTick
  BY <1>4 DEF RateTick, RateTyped
<1>5. CASE UNCHANGED ratevars
  BY <1>5 DEF ratevars, RateTyped
<1> QED
  BY <1>2, <1>3, <1>4, <1>5 DEF RateNext

\* A forwarded request is one more in the intervals it lies in.
LEMMA ForwardCounted ==
    ASSUME RateTyped, NEW c \in Clients, DispatchForward(c)
    PROVE  /\ \A i \in DOMAIN accepted'[c] :
                \/ i \in DOMAIN accepted[c] /\ accepted'[c][i] = accepted[c][i]
                \/ accepted'[c][i] = time
           /\ \A i \in DOMAIN accepted[c] : i \in DOMAIN accepted'[c] /\ accepted'[c][i] = accepted[c][i]
           /\ \E i \in DOMAIN accepted'[c] : accepted'[c][i] = time
           /\ \A a, b \in Int :
                IF time \in a..b
                THEN Cardinality(Between(accepted'[c], a, b)) = Cardinality(Between(accepted[c], a, b)) + 1
                ELSE Between(accepted'[c], a, b) = Between(accepted[c], a, b)
<1> DEFINE n == Len(accepted[c])
<1>1. accepted[c] \in Seq(Nat) /\ accepted'[c] = Append(accepted[c], time) /\ time \in Nat
  BY DEF RateTyped, DispatchForward
<1>2. n \in Nat /\ DOMAIN accepted[c] = 1..n /\ DOMAIN accepted'[c] = 1..(n + 1)
  BY <1>1
<1>3. /\ \A i \in 1..n : accepted'[c][i] = accepted[c][i]
      /\ accepted'[c][n + 1] = time
  BY <1>1
<1>4. 1..(n + 1) = (1..n) \cup {n + 1} /\ n + 1 \notin 1..n
  BY <1>2
<1>5. ASSUME NEW a \in Int, NEW b \in Int
      PROVE  IF time \in a..b
             THEN Cardinality(Between(accepted'[c], a, b)) = Cardinality(Between(accepted[c], a, b)) + 1
             ELSE Between(accepted'[c], a, b) = Between(accepted[c], a, b)
  <2>1. CASE time \in a..b
    <3>1. Between(accepted'[c], a, b) = Between(accepted[c], a, b) \cup {n + 1} /\ n + 1 \notin Between(accepted[c], a, b)
      BY <1>2, <1>3, <1>4, <2>1 DEF Between
    <3>2. IsFiniteSet(Between(accepted[c], a, b))
      BY <1>1, BetweenCounted
    <3> QED
      BY <2>1, <3>1, <3>2, FS_AddElement
  <2>2. CASE time \notin a..b
    <3>1. Between(accepted'[c], a, b) = Between(accepted[c], a, b)
      BY <1>2, <1>3, <1>4, <2>2 DEF Between
    <3> QED
      BY <2>2, <3>1
  <2> QED
    BY <2>1, <2>2
<1> HIDE DEF n
<1> QED
  BY <1>2, <1>3, <1>4, <1>5

\* A client's window after its request was forwarded, and every minute.
LEMMA ForwardTells ==
    ASSUME RateTyped, RateInv, NEW c \in Clients, DispatchForward(c)
    PROVE  /\ Tells(accepted'[c], request_counts'[c], time')
           /\ \A from \in Int : InMinute(accepted'[c], from) < 2 * RequestsPerMinute
<1>0. /\ time \in Nat /\ time' = time /\ Minute \in Nat \ {0} /\ RequestsPerMinute \in Nat \ {0}
      /\ accepted[c] \in Seq(Nat)
  BY RateAssumption DEF RateTyped, DispatchForward
<1>1. /\ \A i \in DOMAIN accepted[c] : accepted[c][i] \in Nat /\ accepted[c][i] <= time
  BY <1>0 DEF RateInv
<1>2. /\ Tells(accepted[c], Current[c], time) /\ Current \in [Clients -> {<<>>} \cup (Nat \X Nat)]
      /\ (Current[c] # <<>> => time - Current[c][2] < Minute)
  BY CurrentTells
<1>3. accepted'[c] \in Seq(Nat)
  BY <1>0 DEF RateTyped, DispatchForward
<1>4. ASSUME NEW from \in Int, time \notin from..(from + Minute - 1)
      PROVE  InMinute(accepted'[c], from) < 2 * RequestsPerMinute
  <2>1. from + Minute - 1 \in Int
    BY <1>0
  <2>2. InMinute(accepted'[c], from) = InMinute(accepted[c], from)
    BY <1>4, <2>1, ForwardCounted DEF InMinute
  <2> QED
    BY <2>2 DEF RateInv
<1>5. ASSUME NEW from \in Int, time \in from..(from + Minute - 1)
      PROVE  /\ InMinute(accepted'[c], from) = InMinute(accepted[c], from) + 1
             /\ InMinute(accepted[c], from) \in Nat
  <2>1. from + Minute - 1 \in Int
    BY <1>0
  <2> QED
    BY <1>0, <1>5, <2>1, ForwardCounted, BetweenCounted DEF InMinute
<1>6. CASE Current[c] = <<>>
  <2>1. request_counts'[c] = <<1, time>>
    BY <1>2, <1>6 DEF DispatchForward
  <2>2. /\ \A i \in DOMAIN accepted[c] : accepted[c][i] < time
        /\ Cardinality(Between(accepted[c], time - Minute + 1, time)) < RequestsPerMinute
    BY <1>2, <1>6 DEF Tells
  <2>3. Cardinality(Between(accepted'[c], time, time)) = 1
    <3>1. Between(accepted[c], time, time) = {}
      BY <1>0, <1>1, <2>2 DEF Between
    <3>2. Cardinality(Between(accepted[c], time, time)) = 0
      BY <3>1, FS_EmptySet
    <3>3. time \in time..time /\ time \in Int
      BY <1>0
    <3>4. Cardinality(Between(accepted'[c], time, time)) = Cardinality(Between(accepted[c], time, time)) + 1
      BY <3>3, ForwardCounted
    <3> QED
      BY <3>2, <3>4
  <2>4. Cardinality(Between(accepted'[c], time - Minute + 1, time - 1)) < RequestsPerMinute
    <3>1. time - Minute + 1 \in Int /\ time - 1 \in Int /\ time \notin (time - Minute + 1)..(time - 1)
      BY <1>0
    <3>2. Between(accepted'[c], time - Minute + 1, time - 1) = Between(accepted[c], time - Minute + 1, time - 1)
      BY <3>1, ForwardCounted
    <3>3. Between(accepted[c], time - Minute + 1, time - 1) \subseteq Between(accepted[c], time - Minute + 1, time)
      BY <1>0 DEF Between
    <3>4. /\ Cardinality(Between(accepted[c], time - Minute + 1, time - 1)) \in Nat
          /\ Cardinality(Between(accepted[c], time - Minute + 1, time)) \in Nat
          /\ Cardinality(Between(accepted[c], time - Minute + 1, time - 1))
               <= Cardinality(Between(accepted[c], time - Minute + 1, time))
      BY <1>0, <3>3, BetweenCounted
    <3> QED
      BY <1>0, <2>2, <3>2, <3>4
  <2>5. Tells(accepted'[c], request_counts'[c], time')
    <3>1. <<1, time>> # <<>> /\ <<1, time>>[1] = 1 /\ <<1, time>>[2] = time
      OBVIOUS
    <3>2. \A i \in DOMAIN accepted'[c] : accepted'[c][i] < time + Minute
      BY <1>0, <1>1, ForwardCounted
    <3>3. \E i \in DOMAIN accepted'[c] : accepted'[c][i] = time
      BY ForwardCounted
    <3>4. 1 \in 1..RequestsPerMinute /\ time \in 0..time
      BY <1>0
    <3> QED
      BY <1>0, <2>1, <2>3, <2>4, <3>1, <3>2, <3>3, <3>4 DEF Tells
  <2>6. ASSUME NEW from \in Int, time \in from..(from + Minute - 1)
        PROVE  InMinute(accepted'[c], from) < 2 * RequestsPerMinute
    <3>1. Between(accepted[c], from, from + Minute - 1) \subseteq Between(accepted[c], time - Minute + 1, time)
      BY <1>0, <1>1, <2>6 DEF Between
    <3>2. /\ Cardinality(Between(accepted[c], from, from + Minute - 1))
               <= Cardinality(Between(accepted[c], time - Minute + 1, time))
          /\ Cardinality(Between(accepted[c], time - Minute + 1, time)) \in Nat
      BY <1>0, <3>1, BetweenCounted
    <3>3. InMinute(accepted[c], from) <= Cardinality(Between(accepted[c], time - Minute + 1, time))
      BY <3>2 DEF InMinute
    <3> QED
      BY <1>0, <1>5, <2>2, <2>6, <3>2, <3>3
  <2> QED
    BY <1>4, <2>5, <2>6
<1>7. CASE Current[c] # <<>>
  <2> DEFINE k == Current[c][1]
             s == Current[c][2]
  <2>1. Current[c] = <<k, s>> /\ k \in Nat /\ s \in Nat
    BY <1>2, <1>7
  <2>2. request_counts'[c] = <<k + 1, s>> /\ k < RequestsPerMinute
    BY <1>0, <1>2, <1>7, <2>1 DEF DispatchForward, Refused
  <2>3. /\ s \in 0..time /\ time - s < Minute
        /\ \A i \in DOMAIN accepted[c] : accepted[c][i] < s + Minute
        /\ Cardinality(Between(accepted[c], s, time)) = k
        /\ Cardinality(Between(accepted[c], s - Minute + 1, s - 1)) < RequestsPerMinute
    BY <1>2, <1>7 DEF Tells
  <2>4. PICK i \in DOMAIN accepted[c] : accepted[c][i] = s
    BY <1>2, <1>7 DEF Tells
  <2> HIDE DEF k, s
  <2>5. Tells(accepted'[c], request_counts'[c], time')
    <3>1. <<k + 1, s>> # <<>> /\ <<k + 1, s>>[1] = k + 1 /\ <<k + 1, s>>[2] = s
      OBVIOUS
    <3>2. \A j \in DOMAIN accepted'[c] : accepted'[c][j] < s + Minute
      <4>1. time < s + Minute
        BY <1>0, <2>1, <2>3
      <4>2. \A j \in DOMAIN accepted[c] : accepted[c][j] < s + Minute
        BY <2>3
      <4> QED
        BY <4>1, <4>2, ForwardCounted
    <3>3. \E j \in DOMAIN accepted'[c] : accepted'[c][j] = s
      BY <2>4, ForwardCounted
    <3>4. k + 1 \in 1..RequestsPerMinute /\ s \in 0..time
      BY <1>0, <2>1, <2>2, <2>3, SMTT(60)
    <3>5. time \in s..time /\ s \in Int /\ time \in Int /\ s - Minute + 1 \in Int /\ s - 1 \in Int
          /\ time \notin (s - Minute + 1)..(s - 1)
      BY <1>0, <2>1, <2>3
    <3>6. Cardinality(Between(accepted'[c], s, time)) = k + 1
      BY <2>3, <3>5, ForwardCounted
    <3>7. Cardinality(Between(accepted'[c], s - Minute + 1, s - 1)) < RequestsPerMinute
      BY <2>3, <3>5, ForwardCounted
    <3>8. Tells(accepted'[c], <<k + 1, s>>, time')
      BY <1>0, <3>1, <3>2, <3>3, <3>4, <3>6, <3>7 DEF Tells
    <3> QED
      BY <2>2, <3>8
  <2>6. ASSUME NEW from \in Int, time \in from..(from + Minute - 1)
        PROVE  InMinute(accepted'[c], from) < 2 * RequestsPerMinute
    <3> DEFINE A == Between(accepted[c], s - Minute + 1, s - 1)
               B == Between(accepted[c], s, time)
               M == Between(accepted[c], from, from + Minute - 1)
    <3>1. M \subseteq A \cup B
      <4>1. \A t \in Nat : t \in from..(from + Minute - 1) /\ t <= time =>
              t \in (s - Minute + 1)..(s - 1) \/ t \in s..time
        BY <1>0, <2>1, <2>3, <2>6, SMTT(60)
      <4> QED
        BY <1>1, <4>1 DEF Between
    <3>2. /\ IsFiniteSet(A) /\ Cardinality(A) \in Nat /\ IsFiniteSet(B) /\ Cardinality(B) \in Nat
      BY <1>0, BetweenCounted
    <3>3. Cardinality(A) < RequestsPerMinute /\ Cardinality(B) = k
      BY <2>3
    <3>4. InMinute(accepted[c], from) = Cardinality(M)
      BY DEF InMinute
    <3> HIDE DEF A, B, M
    <3>5. /\ IsFiniteSet(A \cup B) /\ Cardinality(A \cap B) \in Nat
          /\ Cardinality(A \cup B) = Cardinality(A) + Cardinality(B) - Cardinality(A \cap B)
      BY <3>2, FS_Union, FS_Intersection, FS_CardinalityType
    <3>6. Cardinality(M) <= Cardinality(A \cup B)
      BY <3>1, <3>5, FS_Subset
    <3>7. /\ InMinute(accepted'[c], from) = Cardinality(M) + 1
          /\ Cardinality(M) \in Nat
      BY <1>5, <2>6, <3>4
    <3>8. Cardinality(M) <= Cardinality(A) + Cardinality(B)
      BY <3>2, <3>5, <3>6, <3>7
    <3> QED
      BY <1>0, <2>1, <2>2, <3>2, <3>3, <3>7, <3>8
  <2> QED
    BY <1>4, <2>5, <2>6
<1> QED
  BY <1>6, <1>7

\* Every step keeps what the entries tell.
LEMMA RateInvNext == RateTyped /\ RateInv /\ [RateNext]_ratevars => RateInv'
<1> SUFFICES ASSUME RateTyped, RateInv, [RateNext]_ratevars
             PROVE  RateInv'
  OBVIOUS
<1>1. ASSUME NEW c \in Clients, Dispatch429(c) PROVE RateInv'
  <2>1. UNCHANGED <<accepted, time>> /\ request_counts' = Current
    BY <1>1 DEF Dispatch429
  <2>2. ASSUME NEW d \in Clients PROVE Tells(accepted'[d], request_counts'[d], time')
    <3>1. Tells(accepted[d], Current[d], time)
      BY <2>2, CurrentTells
    <3> QED
      BY <2>1, <3>1 DEF Tells
  <2> QED
    BY <2>1, <2>2 DEF RateInv
<1>2. ASSUME NEW c \in Clients, DispatchForward(c) PROVE RateInv'
  <2>1. time' = time /\ time \in Nat
    BY <1>2 DEF DispatchForward, RateTyped
  <2>2. ASSUME NEW d \in Clients, d # c
        PROVE  /\ accepted'[d] = accepted[d]
               /\ Tells(accepted'[d], request_counts'[d], time')
    <3>1. accepted'[d] = accepted[d]
      BY <1>2, <2>2 DEF DispatchForward, RateTyped
    <3>2. request_counts'[d] = Current[d] /\ Tells(accepted[d], Current[d], time)
      BY <1>2, <2>2, CurrentTells DEF DispatchForward
    <3> QED
      BY <2>1, <3>1, <3>2
  <2>3. ASSUME NEW d \in Clients PROVE Tells(accepted'[d], request_counts'[d], time')
    BY <1>2, <2>2, <2>3, ForwardTells
  <2>4. ASSUME NEW d \in Clients, NEW from \in Int PROVE InMinute(accepted'[d], from) < 2 * RequestsPerMinute
    <3>1. CASE d = c
      BY <1>2, <2>4, <3>1, ForwardTells
    <3>2. CASE d # c
      BY <2>2, <2>4, <3>2 DEF RateInv
    <3> QED
      BY <3>1, <3>2
  <2>5. ASSUME NEW d \in Clients, NEW i \in DOMAIN accepted'[d] PROVE accepted'[d][i] <= time'
    <3>1. CASE d = c
      <4>1. \/ i \in DOMAIN accepted[c] /\ accepted'[c][i] = accepted[c][i]
            \/ accepted'[c][i] = time
        BY <1>2, <2>5, <3>1, ForwardCounted
      <4> QED
        BY <2>1, <3>1, <4>1 DEF RateInv
    <3>2. CASE d # c
      BY <2>1, <2>2, <2>5, <3>2 DEF RateInv
    <3> QED
      BY <3>1, <3>2
  <2> QED
    BY <2>3, <2>4, <2>5 DEF RateInv
<1>3. CASE RateTick
  <2>1. time' = time + 1 /\ UNCHANGED <<request_counts, accepted>> /\ time \in Nat
    BY <1>3 DEF RateTick, RateTyped
  <2>2. ASSUME NEW d \in Clients PROVE Tells(accepted'[d], request_counts'[d], time')
    <3> DEFINE e == request_counts[d]
    <3>1. /\ Tells(accepted[d], e, time) /\ \A i \in DOMAIN accepted[d] : accepted[d][i] \in Nat /\ accepted[d][i] <= time
      BY <2>2 DEF RateInv, RateTyped
    <3>2. Minute \in Nat \ {0} /\ RequestsPerMinute \in Nat \ {0}
      BY RateAssumption
    <3>3. accepted'[d] = accepted[d] /\ request_counts'[d] = e /\ accepted[d] \in Seq(Nat)
      BY <2>1, <2>2 DEF RateTyped
    <3>4. CASE e = <<>>
      <4>1. \A i \in DOMAIN accepted[d] : accepted[d][i] < time'
        BY <2>1, <3>1
      <4>2. Between(accepted[d], time' - Minute + 1, time')
              \subseteq Between(accepted[d], time - Minute + 1, time)
        BY <2>1, <3>1, <3>2 DEF Between
      <4>3. /\ Cardinality(Between(accepted[d], time - Minute + 1, time)) < RequestsPerMinute
            /\ Cardinality(Between(accepted[d], time - Minute + 1, time)) \in Nat
            /\ Cardinality(Between(accepted[d], time' - Minute + 1, time')) \in Nat
            /\ Cardinality(Between(accepted[d], time' - Minute + 1, time'))
                 <= Cardinality(Between(accepted[d], time - Minute + 1, time))
        BY <3>1, <3>3, <3>4, <4>2, BetweenCounted DEF Tells
      <4>4. Cardinality(Between(accepted[d], time' - Minute + 1, time')) < RequestsPerMinute
        BY <3>2, <4>3
      <4> QED
        BY <3>3, <3>4, <4>1, <4>4 DEF Tells
    <3>5. CASE e # <<>>
      <4>1. e[1] \in Nat /\ e[2] \in Nat /\ e[2] \in 0..time'
        BY <2>1, <2>2, <3>1, <3>5 DEF RateTyped, Tells
      <4>2. Between(accepted[d], e[2], time') = Between(accepted[d], e[2], time)
        BY <2>1, <3>1, <4>1 DEF Between
      <4> QED
        BY <3>1, <3>3, <3>5, <4>1, <4>2 DEF Tells
    <3> QED
      BY <3>4, <3>5
  <2>3. ASSUME NEW d \in Clients, NEW i \in DOMAIN accepted'[d] PROVE accepted'[d][i] <= time'
    BY <2>1, <2>3 DEF RateInv, RateTyped
  <2>4. ASSUME NEW d \in Clients, NEW from \in Int PROVE InMinute(accepted'[d], from) < 2 * RequestsPerMinute
    BY <2>1, <2>4 DEF RateInv
  <2> QED
    BY <2>2, <2>3, <2>4 DEF RateInv
<1>4. CASE UNCHANGED ratevars
  BY <1>4 DEF ratevars, RateInv
<1> QED
  BY <1>1, <1>2, <1>3, <1>4 DEF RateNext

\* Whatever the limit and however requests and clients fall: every minute at all, also one
\* in which two windows of a client meet, has fewer than twice the limit, and a client none
\* of whose requests was forwarded for a minute is served.
THEOREM MinutesAreLimited == RateSpec => []LimitHolds
<1>1. RateTyped /\ RateInv => MinuteBounded
  BY DEF RateTyped, RateInv, MinuteBounded, AcceptedIn, InMinute, Between
<1>2. RateTyped /\ RateInv => QuietIsServed
  <2> SUFFICES ASSUME RateTyped, RateInv, NEW c \in Clients,
                      AcceptedIn(c, time - Minute + 1) = 0, Refused(c)
               PROVE  FALSE
    BY DEF QuietIsServed
  <2>1. /\ Tells(accepted[c], Current[c], time) /\ Current[c] # <<>> /\ time - Current[c][2] < Minute
    BY CurrentTells DEF Refused
  <2>2. /\ time \in Nat /\ Minute \in Nat \ {0} /\ Current[c][2] \in 0..time
    BY <2>1, RateAssumption DEF RateTyped, Tells
  <2>3. PICK i \in DOMAIN accepted[c] : accepted[c][i] = Current[c][2]
    BY <2>1 DEF Tells
  <2>4. AcceptedIn(c, time - Minute + 1) = Cardinality(Between(accepted[c], time - Minute + 1, time))
    <3>1. time - Minute + 1 + Minute - 1 = time
      BY <2>2
    <3> QED
      BY <3>1 DEF AcceptedIn, Between
  <2>5. i \in Between(accepted[c], time - Minute + 1, time)
    BY <2>1, <2>2, <2>3 DEF Between
  <2>6. /\ IsFiniteSet(Between(accepted[c], time - Minute + 1, time))
        /\ Between(accepted[c], time - Minute + 1, time) # {}
    BY <2>5, BetweenCounted DEF RateTyped
  <2> QED
    BY <2>4, <2>6, FS_EmptySet
<1>3. RateTyped /\ RateInv => LimitHolds
  BY <1>1, <1>2 DEF LimitHolds
<1> QED
  BY <1>3, RateStarts, RateTypedNext, RateInvNext, PTL DEF RateSpec

-------------------------------------------------------------------------------
(* CrmSync: handlers that overlap. *)

\* An event is written by a handler that is past its query, of a lead that has a row.
CrmInv ==
    /\ crm = [e \in Events |-> crm[e]] /\ kind = [e \in Events |-> kind[e]]
    /\ crm_tickets \in Nat /\ IsFiniteSet(crm_rows)
    /\ crm_rows \subseteq {e \in Events : crm[e] \in {"replay", "replaying", "done"}}
    /\ lead = "none" => crm_rows = {} /\ \A e \in Events : crm[e] \notin {"known", "replay", "replaying"}

Interested == {e \in crm_rows : kind[e] = "interested"}

\* A handler that writes an event adds it to those written, and the interested grow by
\* the event if it is one.
LEMMA InterestedCounted ==
    ASSUME CrmInv, NEW e \in Events \ crm_rows
    PROVE  /\ Cardinality(Interested) \in Nat
           /\ IsFiniteSet(crm_rows \cup {e})
           /\ Cardinality({d \in crm_rows \cup {e} : kind[d] = "interested"})
                = Cardinality(Interested) + (IF kind[e] = "interested" THEN 1 ELSE 0)
<1>1. IsFiniteSet(crm_rows) /\ IsFiniteSet(crm_rows \cup {e})
  BY FS_AddElement DEF CrmInv
<1>2. IsFiniteSet(Interested) /\ Cardinality(Interested) \in Nat
  BY <1>1, FS_Subset, FS_CardinalityType DEF Interested
<1>3. CASE kind[e] = "interested"
  <2>1. {d \in crm_rows \cup {e} : kind[d] = "interested"} = Interested \cup {e}
    BY <1>3 DEF Interested
  <2>2. e \notin Interested
    BY DEF Interested
  <2>3. Cardinality(Interested \cup {e}) = Cardinality(Interested) + 1
    BY <1>2, <2>2, FS_AddElement
  <2>4. Cardinality({d \in crm_rows \cup {e} : kind[d] = "interested"}) = Cardinality(Interested) + 1
    BY <2>1, <2>3
  <2> QED
    BY <1>1, <1>2, <1>3, <2>4
<1>4. CASE kind[e] # "interested"
  <2>1. {d \in crm_rows \cup {e} : kind[d] = "interested"} = Interested
    BY <1>4 DEF Interested
  <2>2. Cardinality({d \in crm_rows \cup {e} : kind[d] = "interested"}) = Cardinality(Interested)
    BY <2>1
  <2> QED
    BY <1>1, <1>2, <1>4, <2>2
<1> QED
  BY <1>3, <1>4

\* There is no row, event or ticket.
LEMMA CrmStarts == CrmInit => CrmInv /\ QualifiedHasTicket /\ NeverNewAgain
<1> SUFFICES ASSUME CrmInit PROVE CrmInv /\ QualifiedHasTicket /\ NeverNewAgain
  OBVIOUS
<1>1. IsFiniteSet({}) /\ Cardinality({}) = 0
  BY FS_EmptySet
<1>2. {e \in crm_rows : kind[e] = "interested"} = {}
  BY DEF CrmInit
<1> QED
  BY <1>1, <1>2 DEF CrmInit, CrmInv, QualifiedHasTicket, NeverNewAgain

\* Every step keeps the order of query and write, the tickets and the lead's status.
LEMMA CrmSteps ==
    CrmInv /\ QualifiedHasTicket /\ NeverNewAgain /\ [CrmNext]_crmvars
        => (CrmInv /\ QualifiedHasTicket /\ NeverNewAgain)'
<1> SUFFICES ASSUME CrmInv, QualifiedHasTicket, NeverNewAgain, [CrmNext]_crmvars
             PROVE  (CrmInv /\ QualifiedHasTicket /\ NeverNewAgain)'
  OBVIOUS
<1> USE DEF Crm
\* Steps that write no event.
<1>1. ASSUME NEW e \in Events, e \notin crm_rows, HandleEvent(e)
      PROVE  (CrmInv /\ QualifiedHasTicket /\ NeverNewAgain)'
  <2>1. /\ UNCHANGED <<lead, crm_tickets, crm_rows>>
        /\ crm' = [crm EXCEPT ![e] = crm'[e]] /\ crm'[e] \in {"known", "unknown", "done"}
        /\ (lead = "none" => crm'[e] # "known")
        /\ \E k : kind' = [kind EXCEPT ![e] = k]
    BY <1>1 DEF HandleEvent, CrmInv
  <2>2. CrmInv'
    BY <1>1, <2>1 DEF CrmInv
  <2>3. \A d \in crm_rows : kind'[d] = kind[d]
    BY <1>1, <2>1 DEF CrmInv
  <2>4. {d \in crm_rows : kind'[d] = "interested"} = {d \in crm_rows : kind[d] = "interested"}
    BY <2>3
  <2> QED
    BY <2>1, <2>2, <2>3, <2>4 DEF QualifiedHasTicket, NeverNewAgain
<1>2. ASSUME NEW e \in Events, UNCHANGED <<kind, crm_tickets, crm_rows>>,
             crm' = [crm EXCEPT ![e] = crm'[e]],
             crm'[e] \in {"replay", "replaying", "done"},
             \/ lead' = lead /\ (lead = "none" => crm'[e] = "done")
             \/ lead' = "CONTACTED"
      PROVE  (CrmInv /\ QualifiedHasTicket /\ NeverNewAgain)'
  BY <1>2 DEF CrmInv, QualifiedHasTicket, NeverNewAgain
\* Steps that write one.
<1>3. ASSUME NEW e \in Events, e \notin crm_rows, UNCHANGED kind, crm_rows' = crm_rows \cup {e},
             crm' = [crm EXCEPT ![e] = crm'[e]], crm'[e] \in {"replay", "done"},
             lead' # "none", lead' = "NEW" => lead \in {"none", "NEW"} /\ kind[e] = "discovered",
             IF kind[e] = "interested" THEN crm_tickets' = crm_tickets + 1
             ELSE crm_tickets' = crm_tickets /\ (lead' = "QUALIFIED" => lead = "QUALIFIED")
      PROVE  (CrmInv /\ QualifiedHasTicket /\ NeverNewAgain)'
  <2>1. /\ Cardinality(Interested) \in Nat /\ IsFiniteSet(crm_rows')
        /\ Cardinality({d \in crm_rows' : kind[d] = "interested"})
             = Cardinality(Interested) + (IF kind[e] = "interested" THEN 1 ELSE 0)
    BY <1>3, InterestedCounted
  <2>2. crm_tickets \in Nat /\ crm_tickets = Cardinality(Interested)
    BY DEF CrmInv, QualifiedHasTicket, Interested
  <2>3. crm_tickets' \in Nat /\ (lead' = "QUALIFIED" => crm_tickets' > 0)
    BY <1>3, <2>2 DEF QualifiedHasTicket
  <2>4. CrmInv'
    BY <1>3, <2>1, <2>3 DEF CrmInv
  <2>5. crm_tickets' = Cardinality({d \in crm_rows' : kind'[d] = "interested"})
    BY <1>3, <2>1, <2>2
  <2>6. NeverNewAgain'
    BY <1>3 DEF NeverNewAgain, CrmInv
  <2> QED
    BY <2>3, <2>4, <2>5, <2>6 DEF QualifiedHasTicket
<1>4. ASSUME NEW e \in Events, crm[e] \in {"none", "known", "unknown"} PROVE e \notin crm_rows
  BY <1>4 DEF CrmInv
<1>5. ASSUME NEW e \in Events, CrmFails(e) PROVE (CrmInv /\ QualifiedHasTicket /\ NeverNewAgain)'
  BY <1>2, <1>5 DEF CrmFails, CrmInv
<1>6. ASSUME NEW e \in Events, HandleProspectDiscovered(e)
      PROVE  (CrmInv /\ QualifiedHasTicket /\ NeverNewAgain)'
  <2>1. CASE crm[e] = "unknown" /\ lead # "none"
    BY <1>2, <1>6, <2>1 DEF HandleProspectDiscovered, CrmInv
  <2>2. CASE ~(crm[e] = "unknown" /\ lead # "none")
    BY <1>3, <1>4, <1>6, <2>2 DEF HandleProspectDiscovered, CrmInv
  <2> QED
    BY <2>1, <2>2
<1>7. ASSUME NEW e \in Events, PopBuffer(e) PROVE (CrmInv /\ QualifiedHasTicket /\ NeverNewAgain)'
  <2>1. lead # "none"
    BY <1>7 DEF PopBuffer, CrmInv
  <2> QED
    BY <1>2, <1>7, <2>1 DEF PopBuffer, CrmInv
<1>8. ASSUME NEW e \in Events, Replay(e) PROVE (CrmInv /\ QualifiedHasTicket /\ NeverNewAgain)'
  <2>1. lead # "none"
    BY <1>8 DEF Replay, CrmInv
  <2> QED
    BY <1>2, <1>8, <2>1 DEF Replay, CrmInv
<1>9. ASSUME NEW e \in Events, HandleSequenceEnrolled(e)
      PROVE  (CrmInv /\ QualifiedHasTicket /\ NeverNewAgain)'
  BY <1>3, <1>4, <1>9 DEF HandleSequenceEnrolled, CrmInv
<1>10. ASSUME NEW e \in Events, BufferEvent(e)
       PROVE  (CrmInv /\ QualifiedHasTicket /\ NeverNewAgain)'
  BY <1>2, <1>10 DEF BufferEvent, CrmInv
<1>11. ASSUME NEW e \in Events, HandleReplyReceived(e)
       PROVE  (CrmInv /\ QualifiedHasTicket /\ NeverNewAgain)'
  BY <1>3, <1>4, <1>11 DEF HandleReplyReceived, CrmInv
<1>12. ASSUME NEW e \in Events, HandleSequenceCompleted(e)
       PROVE  (CrmInv /\ QualifiedHasTicket /\ NeverNewAgain)'
  BY <1>3, <1>4, <1>12 DEF HandleSequenceCompleted, CrmInv
<1>13. ASSUME NEW e \in Events, HandleEvent(e)
       PROVE  (CrmInv /\ QualifiedHasTicket /\ NeverNewAgain)'
  BY <1>1, <1>4, <1>13 DEF HandleEvent
<1>14. CASE UNCHANGED crmvars
  BY <1>14 DEF crmvars, CrmInv, QualifiedHasTicket, NeverNewAgain
<1> QED
  BY <1>5, <1>6, <1>7, <1>8, <1>9, <1>10, <1>11, <1>12, <1>13, <1>14 DEF CrmNext

\* However handlers overlap, repeat and fail: a lead is qualified only with a ticket, and
\* there is one for each committed reply of interest.
THEOREM RepliesHaveTickets == CrmInit /\ [][CrmNext]_crmvars => []QualifiedHasTicket
  BY CrmStarts, CrmSteps, PTL

-------------------------------------------------------------------------------
(* OutreachReports: a day's counts while the day loses enrolments. *)

ReportRecord ==
    [at : {"none", "interested", "failed", "upsert", "commit", "done", "raised"},
     replied : Nat, interested : Nat, failed : Nat, missing : SUBSET Metrics]

ReportTyped ==
    /\ enrolled = [e \in Enrolments |-> enrolled[e]]
    /\ sent \in [sent : Nat, tracked : Nat, opened : Nat]
    /\ report \in [Reports -> ReportRecord]
    /\ rows \in [Metrics -> Reports \cup {Absent}]

\* The replies counted are at least those that still are, and the interested, counted
\* later, are at most the replies.  The rows are of one report, which is done.
DayInv ==
    /\ \A r \in Reports : sent.sent > 0 =>
         /\ report[r].at = "interested" => Count(Replied) <= report[r].replied
         /\ report[r].at \in {"failed", "upsert", "commit", "done"} =>
              report[r].interested <= report[r].replied
    /\ \A m \in Metrics : rows[m] \in Reports => report[rows[m]].at = "done"
    /\ \A m, n \in Metrics : rows[m] = rows[n]

\* Counts are numbers, and the interested are among those who replied.
LEMMA EnrolmentsCounted ==
    /\ \A set : Count(set) \in Nat
    /\ Count({"replied_interested"}) <= Count(Replied)
<1>1. ASSUME NEW set
      PROVE  /\ IsFiniteSet({e \in Enrolments : enrolled[e] \in set})
             /\ Count(set) \in Nat
  BY ReportsAssumption, FS_Subset, FS_CardinalityType DEF Count
<1>2. {e \in Enrolments : enrolled[e] \in {"replied_interested"}}
        \subseteq {e \in Enrolments : enrolled[e] \in Replied}
  BY DEF Replied
<1>3. Count({"replied_interested"}) <= Count(Replied)
  BY <1>1, <1>2, FS_Subset DEF Count
<1> QED
  BY <1>1, <1>3

\* Nothing was counted.
LEMMA ReportStarts == ReportInit => ReportTyped /\ DayInv
<1> SUFFICES ASSUME ReportInit PROVE ReportTyped /\ DayInv
  OBVIOUS
<1>1. ReportTyped
  BY DEF ReportInit, ReportTyped, ReportRecord
<1>2. DayInv
  BY ReportsAssumption DEF ReportInit, DayInv
<1> QED
  BY <1>1, <1>2

\* Every step keeps the types.
LEMMA ReportTypedNext == ReportTyped /\ [ReportNext]_reportvars => ReportTyped'
<1> SUFFICES ASSUME ReportTyped, [ReportNext]_reportvars PROVE ReportTyped'
  OBVIOUS
<1>1. Count(Replied) \in Nat /\ Count({"replied_interested"}) \in Nat /\ Count({"failed"}) \in Nat
  BY EnrolmentsCounted
<1>2. ASSUME NEW r \in Reports, ComputeMetrics(r) PROVE ReportTyped'
  <2>1. /\ enrolled' = enrolled /\ sent' = sent /\ rows' = rows
        /\ report \in [Reports -> ReportRecord]
    BY <1>2 DEF ComputeMetrics, ReportTyped
  <2>2. ASSUME NEW n \in Nat, NEW next \in {"interested", "failed", "upsert"}
        PROVE  /\ [report EXCEPT ![r].at = next, ![r].replied = n] \in [Reports -> ReportRecord]
               /\ [report EXCEPT ![r].at = next, ![r].interested = n] \in [Reports -> ReportRecord]
               /\ [report EXCEPT ![r].at = next, ![r].failed = n] \in [Reports -> ReportRecord]
    BY <2>1 DEF ReportRecord
  <2>3. /\ (IF sent.sent > 0 THEN Count(Replied) ELSE 0) \in Nat
        /\ (IF sent.sent > 0 THEN Count({"failed"}) ELSE 0) \in Nat
    BY <1>1
  <2>4. report' \in [Reports -> ReportRecord]
    <3>1. CASE report[r].at = "none"
      <4>1. report' = [report EXCEPT ![r].at = "interested",
                         ![r].replied = IF sent.sent > 0 THEN Count(Replied) ELSE 0]
        BY <1>2, <3>1 DEF ComputeMetrics
      <4> QED
        BY <2>2, <2>3, <4>1
    <3>2. CASE report[r].at = "interested"
      <4>1. report' = [report EXCEPT ![r].at = "failed", ![r].interested = Count({"replied_interested"})]
        BY <1>2, <3>2 DEF ComputeMetrics
      <4> QED
        BY <1>1, <2>2, <4>1
    <3>3. CASE report[r].at = "failed"
      <4>1. report' = [report EXCEPT ![r].at = "upsert",
                         ![r].failed = IF sent.sent > 0 THEN Count({"failed"}) ELSE 0]
        BY <1>2, <3>3 DEF ComputeMetrics
      <4> QED
        BY <2>2, <2>3, <4>1
    <3> QED
      BY <1>2, <3>1, <3>2, <3>3 DEF ComputeMetrics
  <2> QED
    BY <2>1, <2>4 DEF ReportTyped
<1>3. ASSUME NEW r \in Reports, FindRows(r) PROVE ReportTyped'
  <2>1. /\ enrolled' = enrolled /\ sent' = sent /\ rows' = rows
        /\ report \in [Reports -> ReportRecord]
    BY <1>3 DEF FindRows, ReportTyped
  <2>2. ASSUME NEW some \in SUBSET Metrics
        PROVE  [report EXCEPT ![r].at = "commit", ![r].missing = some] \in [Reports -> ReportRecord]
    BY <2>1 DEF ReportRecord
  <2>3. report' \in [Reports -> ReportRecord]
    BY <1>3, <2>2 DEF FindRows
  <2> QED
    BY <2>1, <2>3 DEF ReportTyped
<1>4. ASSUME NEW r \in Reports, UpsertMetrics(r) PROVE ReportTyped'
  <2>1. /\ enrolled' = enrolled /\ sent' = sent /\ rows' = [m \in Metrics |-> r]
        /\ report \in [Reports -> ReportRecord] /\ report' = [report EXCEPT ![r].at = "done"]
    BY <1>4 DEF UpsertMetrics, ReportTyped
  <2>2. report' \in [Reports -> ReportRecord]
    BY <2>1 DEF ReportRecord
  <2> QED
    BY <2>1, <2>2 DEF ReportTyped
<1>5. ASSUME NEW r \in Reports, ReportRaises(r) PROVE ReportTyped'
  <2>1. /\ enrolled' = enrolled /\ sent' = sent /\ rows' = rows
        /\ report \in [Reports -> ReportRecord] /\ report' = [report EXCEPT ![r].at = "raised"]
    BY <1>5 DEF ReportRaises, ReportTyped
  <2>2. report' \in [Reports -> ReportRecord]
    BY <2>1 DEF ReportRecord
  <2> QED
    BY <2>1, <2>2 DEF ReportTyped
<1>6. ASSUME NEW e \in Enrolments, EnrolmentUpdated(e) PROVE ReportTyped'
  BY <1>6 DEF EnrolmentUpdated, ReportTyped
<1>7. CASE UNCHANGED reportvars
  BY <1>7 DEF reportvars, ReportTyped
<1> QED
  BY <1>2, <1>3, <1>4, <1>5, <1>6, <1>7 DEF ReportNext

\* Every step keeps the order of the counts and the rows of one report.
LEMMA DayInvNext == ReportTyped /\ DayInv /\ [ReportNext]_reportvars => DayInv'
<1> SUFFICES ASSUME ReportTyped, DayInv, [ReportNext]_reportvars PROVE DayInv'
  OBVIOUS
<1>1. Count(Replied) \in Nat /\ Count({"replied_interested"}) \in Nat
      /\ Count({"replied_interested"}) <= Count(Replied)
  BY EnrolmentsCounted
<1>2. ASSUME UNCHANGED <<enrolled, sent, rows>>, NEW r \in Reports,
             \A q \in Reports \ {r} : report'[q] = report[q],
             report[r].at # "done",
             sent.sent > 0 =>
               /\ report'[r].at = "interested" => Count(Replied) <= report'[r].replied
               /\ report'[r].at \in {"failed", "upsert", "commit", "done"} =>
                    report'[r].interested <= report'[r].replied
      PROVE  DayInv'
  <2>1. Count(Replied)' = Count(Replied)
    BY <1>2 DEF Count
  <2> QED
    BY <1>2, <2>1 DEF DayInv
<1>3. ASSUME NEW r \in Reports, ComputeMetrics(r) PROVE DayInv'
  <2>1. UNCHANGED <<enrolled, sent, rows>> /\ \A q \in Reports \ {r} : report'[q] = report[q]
    BY <1>3 DEF ComputeMetrics, ReportTyped
  <2>2. CASE report[r].at = "none"
    <3>1. /\ report'[r].at = "interested"
          /\ sent.sent > 0 => report'[r].replied = Count(Replied)
      BY <1>3, <2>2 DEF ComputeMetrics, ReportTyped, ReportRecord
    <3> QED
      BY <1>1, <1>2, <2>1, <2>2, <3>1
  <2>3. CASE report[r].at = "interested"
    <3>1. /\ report'[r].at = "failed" /\ report'[r].replied = report[r].replied
          /\ report'[r].interested = Count({"replied_interested"})
      BY <1>3, <2>3 DEF ComputeMetrics, ReportTyped, ReportRecord
    <3>2. sent.sent > 0 => Count(Replied) <= report[r].replied
      BY <2>3 DEF DayInv
    <3>3. report[r].replied \in Nat
      BY DEF ReportTyped, ReportRecord
    <3>4. sent.sent > 0 => report'[r].interested <= report'[r].replied
      BY <1>1, <3>1, <3>2, <3>3
    <3> QED
      BY <1>2, <2>1, <2>3, <3>1, <3>4
  <2>4. CASE report[r].at = "failed"
    <3>1. /\ report'[r].at = "upsert" /\ report'[r].replied = report[r].replied
          /\ report'[r].interested = report[r].interested
      BY <1>3, <2>4 DEF ComputeMetrics, ReportTyped, ReportRecord
    <3>2. sent.sent > 0 => report[r].interested <= report[r].replied
      BY <2>4 DEF DayInv
    <3> QED
      BY <1>2, <2>1, <2>4, <3>1, <3>2
  <2> QED
    BY <1>3, <2>2, <2>3, <2>4 DEF ComputeMetrics
<1>4. ASSUME NEW r \in Reports, FindRows(r) PROVE DayInv'
  <2>1. /\ UNCHANGED <<enrolled, sent, rows>> /\ \A q \in Reports \ {r} : report'[q] = report[q]
        /\ report[r].at = "upsert" /\ report'[r].at = "commit"
        /\ report'[r].replied = report[r].replied /\ report'[r].interested = report[r].interested
    BY <1>4 DEF FindRows, ReportTyped, ReportRecord
  <2>2. sent.sent > 0 => report[r].interested <= report[r].replied
    BY <2>1 DEF DayInv
  <2> QED
    BY <1>2, <2>1, <2>2
<1>5. ASSUME NEW r \in Reports, ReportRaises(r) PROVE DayInv'
  <2>1. /\ UNCHANGED <<enrolled, sent, rows>> /\ \A q \in Reports \ {r} : report'[q] = report[q]
        /\ report[r].at # "done" /\ report'[r].at = "raised"
    BY <1>5 DEF ReportRaises, ReportTyped, ReportRecord
  <2> QED
    BY <1>2, <2>1
<1>6. ASSUME NEW r \in Reports, UpsertMetrics(r) PROVE DayInv'
  <2>1. /\ UNCHANGED <<enrolled, sent>> /\ \A q \in Reports \ {r} : report'[q] = report[q]
        /\ report[r].at = "commit" /\ report'[r].at = "done"
        /\ report'[r].replied = report[r].replied /\ report'[r].interested = report[r].interested
        /\ \A m \in Metrics : rows'[m] = r
    BY <1>6 DEF UpsertMetrics, ReportTyped, ReportRecord
  <2>2. sent.sent > 0 => report[r].interested <= report[r].replied
    BY <2>1 DEF DayInv
  <2>3. Count(Replied)' = Count(Replied)
    BY <2>1 DEF Count
  <2> QED
    BY <2>1, <2>2, <2>3 DEF DayInv
<1>7. ASSUME NEW e \in Enrolments, EnrolmentUpdated(e) PROVE DayInv'
  <2>1. UNCHANGED <<sent, report, rows>>
    BY <1>7 DEF EnrolmentUpdated
  <2>2. {d \in Enrolments : enrolled'[d] \in Replied} \subseteq {d \in Enrolments : enrolled[d] \in Replied}
    BY <1>7 DEF EnrolmentUpdated, ReportTyped, Replied
  <2>3. IsFiniteSet({d \in Enrolments : enrolled[d] \in Replied})
    BY ReportsAssumption, FS_Subset
  <2>4. Cardinality({d \in Enrolments : enrolled'[d] \in Replied}) <= Count(Replied)
        /\ Cardinality({d \in Enrolments : enrolled'[d] \in Replied}) \in Nat
    BY <2>2, <2>3, FS_Subset, FS_CardinalityType DEF Count
  <2>5. Count(Replied)' \in Nat /\ Count(Replied)' <= Count(Replied)
    BY <2>4 DEF Count, Replied
  <2>6. ASSUME NEW r \in Reports, Count(Replied) <= report[r].replied
        PROVE  Count(Replied)' <= report[r].replied
    <3>1. report[r].replied \in Nat
      BY DEF ReportTyped, ReportRecord
    <3> QED
      BY <1>1, <2>5, <2>6, <3>1
  <2> QED
    BY <2>1, <2>6 DEF DayInv
<1>8. CASE UNCHANGED reportvars
  BY <1>8 DEF reportvars, DayInv, Count
<1> QED
  BY <1>3, <1>4, <1>5, <1>6, <1>7, <1>8 DEF ReportNext

\* What the rows of the day say, once there are any.
LEMMA DayTold == ReportTyped /\ DayInv => DayIsOneReport
<1> SUFFICES ASSUME ReportTyped, DayInv, NEW r \in Reports,
                    rows["reply_rate"] = r, Value(r, "reply_rate") # <<>>
             PROVE  Value(r, "interested_count")[1] <= Value(r, "reply_rate")[1]
  BY DEF DayIsOneReport, DayInv
<1>1. sent.sent # 0 /\ sent.sent \in Nat
  BY DEF Value, ReportTyped
<1>2. /\ Value(r, "interested_count") = <<report[r].interested, 1>>
      /\ Value(r, "reply_rate") = <<report[r].replied, sent.sent>>
  BY <1>1 DEF Value
<1>3. report[r].at = "done"
  BY DEF DayInv, Metrics
<1>4. report[r].interested <= report[r].replied
  BY <1>1, <1>3 DEF DayInv
<1> QED
  BY <1>2, <1>4

\* Whichever calls for one day overlap and however outreach goes on meanwhile: the rows of
\* the day are of one report, whose interested did not outnumber its replies.
THEOREM DaysAreOneReport == ReportInit /\ [][ReportNext]_reportvars => []DayIsOneReport
  BY ReportStarts, ReportTypedNext, DayInvNext, DayTold, PTL

-------------------------------------------------------------------------------
(* Work that starts with a plan: companies, production cycles and missions. *)

Stages == {"initializing", "generating_tickets", "saving", "counting", "executing_tickets",
           "packaging", "failing"}
Places == Stages \cup {"none", "mission", "returned", "raised", "crashed"}
RowStatuses == Stages \cup {"pending", "completed", "failed"}
Marks == {"OPEN", "COMPLETED", "FAILED"}

CompanyRow == [status : RowStatuses, error : BOOLEAN, created : Nat, completed : Nat]
PlannedJob == [kind : Kinds, at : Places, plan : Nat, bad : Nat]

GeneratorTyped ==
    /\ job \in [Jobs -> PlannedJob]
    /\ company \in [Jobs -> CompanyRow \cup {<<>>}]
    /\ work \in [Jobs -> Seq(Marks)]

Passed(w) == Cardinality({i \in DOMAIN w : w[i] = "COMPLETED"})

\* The row of a company that has not ended, whatever was lost since.
Underway(c, w) ==
    /\ c \in CompanyRow
    /\ c.created <= Len(w) /\ c.completed = 0 /\ ~c.error
    /\ c.status \notin {"completed", "failed"}

Completed(c, w) ==
    /\ c.status = "completed" /\ ~c.error
    /\ c.created = Len(w) /\ c.completed = Passed(w)
    /\ \A i \in DOMAIN w : w[i] # "OPEN"

Failed(c, w) == c.status = "failed" /\ c.error /\ c.created <= Len(w) /\ c.completed = 0

\* What a job r has committed to its row c and its tickets w, by the line it has reached.
CompanyAt(r, c, w) ==
    /\ r.at \in Stages \cup {"none", "returned", "raised", "crashed"}
    /\ r.at = "none" => c = <<>> /\ w = <<>>
    /\ r.at \in Stages => Underway(c, w)
    /\ r.at \in {"initializing", "generating_tickets", "saving"} => c.created = 0 /\ w = <<>>
    /\ r.at = "counting" => Len(w) = r.plan /\ c.created = 0
    /\ r.at \in {"executing_tickets", "packaging"} => c.created = Len(w)
    /\ r.at = "packaging" => \A i \in DOMAIN w : w[i] # "OPEN"
    /\ r.at \in {"saving", "counting", "executing_tickets"} => r.bad = 0
    /\ r.at = "failing" => (r.bad > 0 => c.created = 0)
    /\ r.at \in {"raised", "crashed"} => c = <<>> \/ Underway(c, w)
    /\ r.at = "returned" => Completed(c, w) \/ Failed(c, w)

CycleAt(r, c, w) ==
    /\ r.at \in {"none", "raised"} /\ c = <<>>
    /\ Len(w) \in {0, r.plan} /\ (r.at = "none" => w = <<>>)

MissionAt(r, c, w) ==
    /\ r.at \in {"none", "mission", "returned", "raised", "crashed"} /\ c = <<>>
    /\ r.at = "none" => w = <<>>
    /\ r.at \in {"mission", "returned"} => r.plan > 0
    /\ r.at = "returned" => Len(w) = r.plan

JobHolds(r, c, w) ==
    /\ r.kind = "company" => CompanyAt(r, c, w)
    /\ r.kind = "cycle" => CycleAt(r, c, w)
    /\ r.kind = "mission" => MissionAt(r, c, w)

GeneratorInv == \A j \in Jobs : JobHolds(job[j], company[j], work[j])

\* The tickets of a plan are as many as planned.
LEMMA OpenedTickets ==
    ASSUME NEW n \in Nat
    PROVE  Opened(n) \in Seq(Marks) /\ Len(Opened(n)) = n
<1>1. \A i \in 1..n : "OPEN" \in Marks
  BY DEF Marks
<1>2. Opened(n) \in [1..n -> Marks]
  BY <1>1 DEF Opened
<1> QED
  BY <1>2

\* A ticket is marked in its place.
LEMMA TicketMarked ==
    ASSUME NEW w \in Seq(Marks), NEW i, NEW mark \in Marks
    PROVE  [w EXCEPT ![i] = mark] \in Seq(Marks) /\ Len([w EXCEPT ![i] = mark]) = Len(w)
<1>1. w \in [1..Len(w) -> Marks] /\ Len(w) \in Nat
  OBVIOUS
<1>2. [w EXCEPT ![i] = mark] \in [1..Len(w) -> Marks]
  BY <1>1
<1>3. [w EXCEPT ![i] = mark] \in Seq(Marks)
  BY <1>1, <1>2
<1>4. DOMAIN [w EXCEPT ![i] = mark] = 1..Len(w)
  BY <1>1
<1>5. DOMAIN [w EXCEPT ![i] = mark] = 1..Len([w EXCEPT ![i] = mark]) /\ Len([w EXCEPT ![i] = mark]) \in Nat
  BY <1>3
<1> QED
  BY <1>1, <1>3, <1>4, <1>5

\* What a step writes to a job,
LEMMA JobAt ==
    ASSUME NEW r \in PlannedJob, NEW place \in Places
    PROVE  LET next == [r EXCEPT !.at = place] IN
           next \in PlannedJob /\ next.at = place /\ next.kind = r.kind /\ next.plan = r.plan /\ next.bad = r.bad
  BY DEF PlannedJob

\* to a row: its status,
LEMMA RowStatus ==
    ASSUME NEW c \in CompanyRow, NEW status \in RowStatuses
    PROVE  LET next == [c EXCEPT !.status = status] IN
           /\ next \in CompanyRow /\ next.status = status /\ next.error = c.error
           /\ next.created = c.created /\ next.completed = c.completed
  BY DEF CompanyRow

\* its count of tickets,
LEMMA RowCreated ==
    ASSUME NEW c \in CompanyRow, NEW made \in Nat
    PROVE  LET next == [c EXCEPT !.created = made] IN
           /\ next \in CompanyRow /\ next.status = c.status /\ next.error = c.error
           /\ next.created = made /\ next.completed = c.completed
  BY DEF CompanyRow

\* its count of completed tickets with the status,
LEMMA RowCompleted ==
    ASSUME NEW c \in CompanyRow, NEW completed \in Nat
    PROVE  LET next == [c EXCEPT !.completed = completed, !.status = "completed"] IN
           /\ next \in CompanyRow /\ next.status = "completed" /\ next.error = c.error
           /\ next.created = c.created /\ next.completed = completed
  BY DEF CompanyRow, RowStatuses

\* or the failure.
LEMMA RowFailed ==
    ASSUME NEW c \in CompanyRow
    PROVE  LET next == [c EXCEPT !.status = "failed", !.error = TRUE] IN
           /\ next \in CompanyRow /\ next.status = "failed" /\ next.error
           /\ next.created = c.created /\ next.completed = c.completed
  BY DEF CompanyRow, RowStatuses

\* Completed tickets are counted by a natural number.
LEMMA PassedCounted ==
    ASSUME NEW w \in Seq(Marks)
    PROVE  Passed(w) \in Nat
<1>1. IsFiniteSet(1..Len(w))
  BY FS_Interval
<1>2. DOMAIN w = 1..Len(w)
  OBVIOUS
<1>3. IsFiniteSet({i \in DOMAIN w : w[i] = "COMPLETED"})
  BY <1>1, <1>2, FS_Subset
<1> QED
  BY <1>3, FS_CardinalityType DEF Passed

\* A step of one job leaves the others as they are.
LEMMA OneJob ==
    ASSUME GeneratorTyped, GeneratorInv, NEW j \in Jobs,
           NEW r \in PlannedJob, NEW c \in CompanyRow \cup {<<>>}, NEW w \in Seq(Marks),
           JobHolds(r, c, w),
           job' = [job EXCEPT ![j] = r],
           company' = [company EXCEPT ![j] = c],
           work' = [work EXCEPT ![j] = w]
    PROVE  GeneratorTyped' /\ GeneratorInv'
<1>1. GeneratorTyped'
  BY DEF GeneratorTyped
<1>2. job'[j] = r /\ company'[j] = c /\ work'[j] = w
  BY DEF GeneratorTyped
<1>3. \A i \in Jobs \ {j} : job'[i] = job[i] /\ company'[i] = company[i] /\ work'[i] = work[i]
  BY DEF GeneratorTyped
<1>4. ASSUME NEW i \in Jobs PROVE JobHolds(job'[i], company'[i], work'[i])
  <2>1. CASE i = j
    BY <1>2, <2>1
  <2>2. CASE i # j
    BY <1>3, <2>2 DEF GeneratorInv
  <2> QED
    BY <2>1, <2>2
<1> QED
  BY <1>1, <1>4 DEF GeneratorInv

\* What a step that leaves a variable alone writes to it.
LEMMA JobsUntouched ==
    ASSUME GeneratorTyped, NEW j \in Jobs
    PROVE  /\ job = [job EXCEPT ![j] = job[j]] /\ job[j] \in PlannedJob
           /\ company = [company EXCEPT ![j] = company[j]] /\ company[j] \in CompanyRow \cup {<<>>}
           /\ work = [work EXCEPT ![j] = work[j]] /\ work[j] \in Seq(Marks)
  BY DEF GeneratorTyped

\* Before any job the invariant holds.
LEMMA GeneratorStarts == GeneratorInit => GeneratorTyped /\ GeneratorInv
<1> SUFFICES ASSUME GeneratorInit PROVE GeneratorTyped /\ GeneratorInv
  OBVIOUS
<1>4. /\ job \in [Jobs -> [kind : Kinds, at : {"none"}, plan : {0}, bad : {0}]]
      /\ "none" \in Places /\ 0 \in Nat
  BY DEF GeneratorInit, Places
<1>5. ASSUME NEW j \in Jobs PROVE job[j] \in PlannedJob /\ job[j].at = "none" /\ job[j].kind \in Kinds
  BY <1>4 DEF PlannedJob
<1>1. job \in [Jobs -> PlannedJob] /\ \A j \in Jobs : job[j].at = "none" /\ job[j].kind \in Kinds
  BY <1>4, <1>5
<1>2. GeneratorTyped
  BY <1>1 DEF GeneratorInit, GeneratorTyped
<1>3. ASSUME NEW j \in Jobs PROVE JobHolds(job[j], <<>>, <<>>)
  BY <1>1 DEF JobHolds, CompanyAt, CycleAt, MissionAt, Stages
<1> QED
  BY <1>2, <1>3 DEF GeneratorInit, GeneratorInv

\* It is inductive: the row and the tickets of a job are what its line allows.
LEMMA GeneratorInvNext ==
    GeneratorTyped /\ GeneratorInv /\ [GeneratorNext]_generatorvars => GeneratorTyped' /\ GeneratorInv'
<1> SUFFICES ASSUME GeneratorTyped, GeneratorInv, [GeneratorNext]_generatorvars
             PROVE  GeneratorTyped' /\ GeneratorInv'
  OBVIOUS
<1>0. CASE UNCHANGED generatorvars
  BY <1>0 DEF generatorvars, GeneratorTyped, GeneratorInv
<1> SUFFICES ASSUME NEW j \in Jobs,
                    \/ GenerateCompany(j) \/ UpdateStatus(j) \/ ConveneBoard(j) \/ SaveTickets(j)
                    \/ CountCreated(j) \/ ProcessTicket(j) \/ CompleteCompany(j) \/ FailCompany(j)
                    \/ GenerationCommitFails(j) \/ RunProductionCycle(j) \/ ExecuteMission(j)
                    \/ CreateMissionTicket(j) \/ JobCrash(j)
             PROVE  GeneratorTyped' /\ GeneratorInv'
  BY <1>0 DEF GeneratorNext
<1>1. /\ job = [job EXCEPT ![j] = job[j]] /\ job[j] \in PlannedJob
      /\ company = [company EXCEPT ![j] = company[j]] /\ company[j] \in CompanyRow \cup {<<>>}
      /\ work = [work EXCEPT ![j] = work[j]] /\ work[j] \in Seq(Marks)
  BY JobsUntouched
<1>2. JobHolds(job[j], company[j], work[j])
  BY DEF GeneratorInv
<1>3. /\ job[j] \in PlannedJob /\ work[j] \in Seq(Marks)
      /\ job[j].kind \in Kinds /\ job[j].plan \in Nat /\ job[j].bad \in Nat /\ job[j].at \in Places
  BY <1>1 DEF PlannedJob
\* Only a company passes the stages of one.
<1>4. ASSUME job[j].at \in Stages PROVE CompanyAt(job[j], company[j], work[j]) /\ job[j].kind = "company"
  BY <1>2, <1>3, <1>4 DEF JobHolds, CycleAt, MissionAt, Stages, Kinds
<1>5. ASSUME GenerateCompany(j) PROVE GeneratorTyped' /\ GeneratorInv'
  <2> DEFINE r == [job[j] EXCEPT !.at = "initializing"]
             c == [status |-> "pending", error |-> FALSE, created |-> 0, completed |-> 0]
  <2>1. job[j].kind = "company" /\ work[j] = <<>>
    BY <1>2, <1>5 DEF GenerateCompany, JobHolds, CompanyAt
  <2>2. r \in PlannedJob /\ r.at = "initializing" /\ r.kind = "company"
    BY <1>3, <2>1, JobAt DEF Places, Stages
  <2>5. c \in CompanyRow
    BY DEF CompanyRow, RowStatuses
  <2>3. JobHolds(r, c, work[j])
    BY <2>1, <2>2, <2>5 DEF JobHolds, CompanyAt, Underway, Stages
  <2>4. job' = [job EXCEPT ![j] = r] /\ company' = [company EXCEPT ![j] = c] /\ work' = [work EXCEPT ![j] = work[j]]
    BY <1>1, <1>5 DEF GenerateCompany, At
  <2> HIDE DEF r, c
  <2> QED
    BY <1>1, <2>2, <2>3, <2>4, <2>5, OneJob
<1>6. ASSUME UpdateStatus(j) PROVE GeneratorTyped' /\ GeneratorInv'
  <2> DEFINE r == IF job[j].at = "initializing" THEN [job[j] EXCEPT !.at = "generating_tickets"] ELSE job[j]
             c == [company[j] EXCEPT !.status = job[j].at]
  <2>1. /\ job[j].kind = "company" /\ CompanyAt(job[j], company[j], work[j])
        /\ job[j].at \in {"initializing", "executing_tickets", "packaging"}
    BY <1>4, <1>6 DEF UpdateStatus, Stages
  <2>2. company[j] \in CompanyRow /\ Underway(company[j], work[j])
    BY <2>1 DEF CompanyAt, Stages, Underway
  <2>3. /\ r \in PlannedJob /\ r.kind = "company" /\ r.plan = job[j].plan /\ r.bad = job[j].bad
        /\ r.at = IF job[j].at = "initializing" THEN "generating_tickets" ELSE job[j].at
    <3>1. CASE job[j].at = "initializing"
      <4>1. "generating_tickets" \in Places
        BY DEF Places, Stages
      <4> QED
        BY <1>3, <2>1, <3>1, <4>1, JobAt
    <3>2. CASE job[j].at # "initializing"
      BY <1>3, <2>1, <3>2
    <3> QED
      BY <3>1, <3>2
  <2>4. /\ c \in CompanyRow /\ c.status = job[j].at
        /\ c.created = company[j].created /\ c.completed = company[j].completed /\ c.error = company[j].error
    BY <2>1, <2>2, RowStatus DEF RowStatuses, Stages
  <2>5. job' = [job EXCEPT ![j] = r] /\ company' = [company EXCEPT ![j] = c] /\ work' = [work EXCEPT ![j] = work[j]]
    BY <1>1, <1>6 DEF UpdateStatus, At
  <2> HIDE DEF r, c
  <2>6. CompanyAt(r, c, work[j])
    BY <2>1, <2>2, <2>3, <2>4 DEF CompanyAt, Underway, Stages
  <2>7. JobHolds(r, c, work[j])
    BY <2>3, <2>6 DEF JobHolds
  <2> QED
    BY <1>1, <2>3, <2>4, <2>5, <2>7, OneJob
<1>7. ASSUME ConveneBoard(j) PROVE GeneratorTyped' /\ GeneratorInv'
  <2>0. PICK drawn \in Convened :
          job' = [job EXCEPT ![j].plan = drawn[1], ![j].bad = drawn[2],
                    ![j].at = IF drawn[1] = 0 \/ drawn[2] > 0 THEN "failing" ELSE "saving"]
    BY <1>7 DEF ConveneBoard
  <2> DEFINE n == drawn[1]
             bad == drawn[2]
             place == IF drawn[1] = 0 \/ drawn[2] > 0 THEN "failing" ELSE "saving"
             r == [job[j] EXCEPT !.plan = n, !.bad = bad, !.at = place]
             c == [company[j] EXCEPT !.status = "generating_tickets"]
  <2>1. n \in Nat /\ bad \in Nat /\ place \in {"failing", "saving"} /\ (place = "saving" => bad = 0)
    BY DEF Convened
  <2>2. /\ job[j].kind = "company" /\ CompanyAt(job[j], company[j], work[j])
        /\ job[j].at = "generating_tickets"
    BY <1>4, <1>7 DEF ConveneBoard, Stages
  <2>3. company[j] \in CompanyRow /\ Underway(company[j], work[j])
    BY <2>2 DEF CompanyAt, Stages, Underway
  <2>9. place \in Places
    BY <2>1 DEF Places, Stages
  <2>6. job' = [job EXCEPT ![j] = r] /\ company' = [company EXCEPT ![j] = c] /\ work' = [work EXCEPT ![j] = work[j]]
    BY <1>1, <1>7, <2>0, ZenonT(60) DEF ConveneBoard
  <2> HIDE DEF n, bad, place
  <2>4. /\ r \in PlannedJob /\ r.kind = "company" /\ r.bad = bad
        /\ r.at = place
    BY <1>3, <2>1, <2>2, <2>9 DEF PlannedJob
  <2>5. /\ c \in CompanyRow /\ c.status = "generating_tickets"
        /\ c.created = company[j].created /\ c.completed = company[j].completed /\ c.error = company[j].error
    BY <2>3, RowStatus DEF RowStatuses, Stages
  <2> HIDE DEF r, c
  <2>7. CompanyAt(r, c, work[j])
    BY <2>1, <2>2, <2>3, <2>4, <2>5 DEF CompanyAt, Underway, Stages
  <2>8. JobHolds(r, c, work[j])
    BY <2>4, <2>7 DEF JobHolds
  <2> QED
    BY <1>1, <2>4, <2>5, <2>6, <2>8, OneJob
<1>8. ASSUME SaveTickets(j) PROVE GeneratorTyped' /\ GeneratorInv'
  <2> DEFINE r == [job[j] EXCEPT !.at = "counting"]
             w == Opened(job[j].plan)
  <2>1. /\ job[j].kind = "company" /\ CompanyAt(job[j], company[j], work[j]) /\ job[j].at = "saving"
    BY <1>4, <1>8 DEF SaveTickets, Stages
  <2>2. Underway(company[j], work[j]) /\ company[j].created = 0
    BY <2>1 DEF CompanyAt, Stages
  <2>3. w \in Seq(Marks) /\ Len(w) = job[j].plan
    BY <1>3, OpenedTickets
  <2>4. r \in PlannedJob /\ r.kind = "company" /\ r.at = "counting" /\ r.plan = job[j].plan /\ r.bad = job[j].bad
    BY <1>3, <2>1, JobAt DEF Places, Stages
  <2>5. job' = [job EXCEPT ![j] = r] /\ company' = [company EXCEPT ![j] = company[j]] /\ work' = [work EXCEPT ![j] = w]
    BY <1>1, <1>8 DEF SaveTickets, At
  <2> HIDE DEF r, w
  <2>6. CompanyAt(r, company[j], w)
    BY <1>3, <2>1, <2>2, <2>3, <2>4 DEF CompanyAt, Underway, Stages
  <2>7. JobHolds(r, company[j], w)
    BY <2>4, <2>6 DEF JobHolds
  <2> QED
    BY <1>1, <2>3, <2>4, <2>5, <2>7, OneJob
<1>9. ASSUME CountCreated(j) PROVE GeneratorTyped' /\ GeneratorInv'
  <2> DEFINE r == [job[j] EXCEPT !.at = "executing_tickets"]
             c == [company[j] EXCEPT !.created = job[j].plan]
  <2>1. /\ job[j].kind = "company" /\ CompanyAt(job[j], company[j], work[j]) /\ job[j].at = "counting"
    BY <1>4, <1>9 DEF CountCreated, Stages
  <2>2. company[j] \in CompanyRow /\ Underway(company[j], work[j]) /\ Len(work[j]) = job[j].plan
    BY <2>1 DEF CompanyAt, Stages, Underway
  <2>3. r \in PlannedJob /\ r.kind = "company" /\ r.at = "executing_tickets" /\ r.plan = job[j].plan /\ r.bad = job[j].bad
    BY <1>3, <2>1, JobAt DEF Places, Stages
  <2>4. /\ c \in CompanyRow /\ c.status = company[j].status
        /\ c.created = job[j].plan /\ c.completed = company[j].completed /\ c.error = company[j].error
    BY <1>3, <2>2, RowCreated
  <2>5. job' = [job EXCEPT ![j] = r] /\ company' = [company EXCEPT ![j] = c] /\ work' = [work EXCEPT ![j] = work[j]]
    BY <1>1, <1>9 DEF CountCreated, At
  <2> HIDE DEF r, c
  <2>6. CompanyAt(r, c, work[j])
    BY <1>3, <2>1, <2>2, <2>3, <2>4 DEF CompanyAt, Underway, Stages
  <2>7. JobHolds(r, c, work[j])
    BY <2>3, <2>6 DEF JobHolds
  <2> QED
    BY <1>1, <2>3, <2>4, <2>5, <2>7, OneJob
<1>10. ASSUME ProcessTicket(j) PROVE GeneratorTyped' /\ GeneratorInv'
  <2> DEFINE open == {i \in DOMAIN work[j] : work[j][i] = "OPEN"}
             next == CHOOSE i \in open : \A k \in open : i <= k
  <2>1. /\ job[j].kind = "company" /\ CompanyAt(job[j], company[j], work[j]) /\ job[j].at = "executing_tickets"
    BY <1>4, <1>10 DEF ProcessTicket, Stages
  <2>2. /\ company[j] \in CompanyRow /\ Underway(company[j], work[j])
        /\ company[j].created = Len(work[j]) /\ job[j].bad = 0
    BY <2>1 DEF CompanyAt, Stages, Underway
  <2>3. ASSUME NEW place \in {"packaging", "failing"}, At(j, place), UNCHANGED <<company, work>>,
               place = "packaging" => open = {}
        PROVE  GeneratorTyped' /\ GeneratorInv'
    <3> DEFINE r == [job[j] EXCEPT !.at = place]
    <3>1. r \in PlannedJob /\ r.kind = "company" /\ r.at = place /\ r.bad = job[j].bad
      BY <1>3, <2>1, JobAt DEF Places, Stages
    <3>2. job' = [job EXCEPT ![j] = r] /\ company' = [company EXCEPT ![j] = company[j]] /\ work' = [work EXCEPT ![j] = work[j]]
      BY <1>1, <2>3 DEF At
    <3> HIDE DEF r
    <3>3. CompanyAt(r, company[j], work[j])
      BY <2>1, <2>2, <2>3, <3>1 DEF CompanyAt, Underway, Stages
    <3>4. JobHolds(r, company[j], work[j])
      BY <3>1, <3>3 DEF JobHolds
    <3> QED
      BY <1>1, <3>1, <3>2, <3>4, OneJob
  <2>4. ASSUME NEW status \in {"COMPLETED", "FAILED"}, open # {},
               work' = [work EXCEPT ![j][next] = status], UNCHANGED <<job, company>>
        PROVE  GeneratorTyped' /\ GeneratorInv'
    <3> DEFINE w == [work[j] EXCEPT ![next] = status]
    <3>1. w \in Seq(Marks) /\ Len(w) = Len(work[j])
      BY <1>3, <2>4, TicketMarked DEF Marks
    <3>2. job' = [job EXCEPT ![j] = job[j]] /\ company' = [company EXCEPT ![j] = company[j]] /\ work' = [work EXCEPT ![j] = w]
      BY <1>1, <2>4
    <3> HIDE DEF w
    <3>3. CompanyAt(job[j], company[j], w)
      BY <2>1, <2>2, <3>1 DEF CompanyAt, Underway, Stages
    <3>4. JobHolds(job[j], company[j], w)
      BY <2>1, <3>3 DEF JobHolds
    <3> QED
      BY <1>1, <3>1, <3>2, <3>4, OneJob
  <2> QED
    BY <1>10, <2>3, <2>4 DEF ProcessTicket
<1>11. ASSUME CompleteCompany(j) PROVE GeneratorTyped' /\ GeneratorInv'
  <2> DEFINE r == [job[j] EXCEPT !.at = "returned"]
             c == [company[j] EXCEPT !.completed = Done(j), !.status = "completed"]
  <2>1. /\ job[j].kind = "company" /\ CompanyAt(job[j], company[j], work[j]) /\ job[j].at = "packaging"
    BY <1>4, <1>11 DEF CompleteCompany, Stages
  <2>2. /\ company[j] \in CompanyRow /\ Underway(company[j], work[j]) /\ company[j].created = Len(work[j])
        /\ \A i \in DOMAIN work[j] : work[j][i] # "OPEN"
    BY <2>1 DEF CompanyAt, Stages, Underway
  <2>3. Done(j) = Passed(work[j]) /\ Done(j) \in Nat
    BY <1>1, PassedCounted DEF Done, Passed
  <2>4. r \in PlannedJob /\ r.kind = "company" /\ r.at = "returned"
    BY <1>3, <2>1, JobAt DEF Places, Stages
  <2>5. /\ c \in CompanyRow /\ c.status = "completed"
        /\ c.created = company[j].created /\ c.completed = Done(j) /\ c.error = company[j].error
    BY <2>2, <2>3, RowCompleted
  <2>6. job' = [job EXCEPT ![j] = r] /\ company' = [company EXCEPT ![j] = c] /\ work' = [work EXCEPT ![j] = work[j]]
    BY <1>1, <1>11 DEF CompleteCompany, At
  <2> HIDE DEF r, c
  <2>7. Completed(c, work[j])
    BY <2>2, <2>3, <2>5 DEF Completed, Underway
  <2>8. JobHolds(r, c, work[j])
    BY <2>4, <2>7 DEF JobHolds, CompanyAt, Stages
  <2> QED
    BY <1>1, <2>4, <2>5, <2>6, <2>8, OneJob
<1>12. ASSUME FailCompany(j) PROVE GeneratorTyped' /\ GeneratorInv'
  <2> DEFINE r == [job[j] EXCEPT !.at = "returned"]
             c == [company[j] EXCEPT !.status = "failed", !.error = TRUE]
             w == IF job[j].bad > 0 THEN Opened(job[j].bad - 1) ELSE work[j]
  <2>1. /\ job[j].kind = "company" /\ CompanyAt(job[j], company[j], work[j]) /\ job[j].at = "failing"
    BY <1>4, <1>12 DEF FailCompany, Stages
  <2>2. /\ company[j] \in CompanyRow /\ Underway(company[j], work[j])
        /\ job[j].bad > 0 => company[j].created = 0
    BY <2>1 DEF CompanyAt, Stages, Underway
  <2>3. w \in Seq(Marks)
    BY <1>3, OpenedTickets
  <2>4. r \in PlannedJob /\ r.kind = "company" /\ r.at = "returned"
    BY <1>3, <2>1, JobAt DEF Places, Stages
  <2>5. /\ c \in CompanyRow /\ c.status = "failed" /\ c.error
        /\ c.created = company[j].created /\ c.completed = company[j].completed
    BY <2>2, RowFailed
  <2>6. job' = [job EXCEPT ![j] = r] /\ company' = [company EXCEPT ![j] = c] /\ work' = [work EXCEPT ![j] = w]
    BY <1>1, <1>12 DEF FailCompany, At
  <2>7. c.created <= Len(w)
    BY <1>3, <2>2, <2>3, <2>5 DEF Underway
  <2> HIDE DEF r, c, w
  <2>8. Failed(c, w)
    BY <2>2, <2>5, <2>7 DEF Failed, Underway
  <2>9. JobHolds(r, c, w)
    BY <2>4, <2>8 DEF JobHolds, CompanyAt, Stages
  <2> QED
    BY <1>1, <2>3, <2>4, <2>5, <2>6, <2>9, OneJob
\* A company that raises or dies leaves its row as it was.
<1>13. ASSUME NEW place \in {"raised", "crashed"}, At(j, place), UNCHANGED <<company, work>>,
              job[j].at \in Stages \cup {"none"}, job[j].kind = "company"
       PROVE  GeneratorTyped' /\ GeneratorInv'
  <2> DEFINE r == [job[j] EXCEPT !.at = place]
  <2>1. r \in PlannedJob /\ r.kind = "company" /\ r.at = place
    BY <1>3, <1>13, JobAt DEF Places
  <2>2. job' = [job EXCEPT ![j] = r] /\ company' = [company EXCEPT ![j] = company[j]] /\ work' = [work EXCEPT ![j] = work[j]]
    BY <1>1, <1>13 DEF At
  <2> HIDE DEF r
  <2>3. company[j] = <<>> \/ Underway(company[j], work[j])
    BY <1>2, <1>13 DEF JobHolds, CompanyAt
  <2>4. JobHolds(r, company[j], work[j])
    BY <1>13, <2>1, <2>3 DEF JobHolds, CompanyAt, Stages
  <2> QED
    BY <1>1, <2>1, <2>2, <2>4, OneJob
<1>14. ASSUME GenerationCommitFails(j) PROVE GeneratorTyped' /\ GeneratorInv'
  <2>1. job[j].at \in Stages \cup {"none"}
    BY <1>2, <1>14 DEF GenerationCommitFails, JobHolds, CompanyAt, Running
  <2> QED
    BY <1>13, <1>14, <2>1 DEF GenerationCommitFails
<1>15. ASSUME RunProductionCycle(j) PROVE GeneratorTyped' /\ GeneratorInv'
  <2>0. PICK drawn \in Convened :
          /\ job' = [job EXCEPT ![j].plan = drawn[1], ![j].bad = drawn[2], ![j].at = "raised"]
          /\ \/ drawn[2] = 0 /\ work' = [work EXCEPT ![j] = Opened(drawn[1])]
             \/ UNCHANGED work
    BY <1>15 DEF RunProductionCycle
  <2> DEFINE n == drawn[1]
             bad == drawn[2]
             r == [job[j] EXCEPT !.plan = n, !.bad = bad, !.at = "raised"]
  <2>1. n \in Nat /\ bad \in Nat
    BY DEF Convened
  <2>2. work[j] = <<>> /\ company[j] = <<>> /\ job[j].kind = "cycle"
    BY <1>2, <1>15 DEF RunProductionCycle, JobHolds, CycleAt
  <2>9. "raised" \in Places
    BY DEF Places
  <2>4. PICK w \in Seq(Marks) : Len(w) \in {0, n} /\ work' = [work EXCEPT ![j] = w]
    BY <1>1, <2>0, <2>1, <2>2, OpenedTickets
  <2>5. job' = [job EXCEPT ![j] = r] /\ company' = [company EXCEPT ![j] = company[j]]
    BY <1>1, <1>15, <2>0, ZenonT(60) DEF RunProductionCycle
  <2> HIDE DEF n, bad
  <2>3. r \in PlannedJob /\ r.kind = "cycle" /\ r.at = "raised" /\ r.plan = n
    BY <1>3, <2>1, <2>2, <2>9 DEF PlannedJob
  <2> HIDE DEF r
  <2>6. JobHolds(r, company[j], w)
    BY <2>2, <2>3, <2>4 DEF JobHolds, CycleAt
  <2> QED
    BY <1>1, <2>3, <2>4, <2>5, <2>6, OneJob
<1>16. ASSUME ExecuteMission(j) PROVE GeneratorTyped' /\ GeneratorInv'
  <2>0. PICK drawn \in Convened :
          job' = [job EXCEPT ![j].plan = IF drawn[1] = 0 THEN 1 ELSE drawn[1], ![j].bad = drawn[2],
                    ![j].at = "mission"]
    BY <1>16 DEF ExecuteMission
  <2> DEFINE n == IF drawn[1] = 0 THEN 1 ELSE drawn[1]
             bad == drawn[2]
             r == [job[j] EXCEPT !.plan = n, !.bad = bad, !.at = "mission"]
  <2>1. n \in Nat /\ n > 0 /\ bad \in Nat
    BY DEF Convened
  <2>2. work[j] = <<>> /\ company[j] = <<>> /\ job[j].kind = "mission"
    BY <1>2, <1>16 DEF ExecuteMission, JobHolds, MissionAt
  <2>9. "mission" \in Places
    BY DEF Places
  <2>4. job' = [job EXCEPT ![j] = r] /\ company' = [company EXCEPT ![j] = company[j]] /\ work' = [work EXCEPT ![j] = work[j]]
    BY <1>1, <1>16, <2>0, ZenonT(60) DEF ExecuteMission
  <2> HIDE DEF n, bad
  <2>3. r \in PlannedJob /\ r.kind = "mission" /\ r.at = "mission" /\ r.plan > 0
    BY <1>3, <2>1, <2>2, <2>9 DEF PlannedJob
  <2> HIDE DEF r
  <2>5. JobHolds(r, company[j], work[j])
    BY <2>2, <2>3 DEF JobHolds, MissionAt
  <2> QED
    BY <1>1, <2>3, <2>4, <2>5, OneJob
\* A mission that ends, or is killed, between two tickets.
<1>17. ASSUME NEW place \in {"returned", "raised", "crashed"}, At(j, place), UNCHANGED <<company, work>>,
              job[j].at = "mission", place = "returned" => Len(work[j]) = job[j].plan
       PROVE  GeneratorTyped' /\ GeneratorInv'
  <2> DEFINE r == [job[j] EXCEPT !.at = place]
  <2>1. job[j].kind = "mission" /\ MissionAt(job[j], company[j], work[j])
    BY <1>2, <1>3, <1>17 DEF JobHolds, Kinds, CycleAt, CompanyAt, Stages
  <2>2. r \in PlannedJob /\ r.kind = "mission" /\ r.at = place /\ r.plan = job[j].plan
    BY <1>3, <1>17, <2>1, JobAt DEF Places
  <2>3. job' = [job EXCEPT ![j] = r] /\ company' = [company EXCEPT ![j] = company[j]] /\ work' = [work EXCEPT ![j] = work[j]]
    BY <1>1, <1>17 DEF At
  <2> HIDE DEF r
  <2>4. JobHolds(r, company[j], work[j])
    BY <1>17, <2>1, <2>2 DEF JobHolds, MissionAt
  <2> QED
    BY <1>1, <2>2, <2>3, <2>4, OneJob
<1>18. ASSUME CreateMissionTicket(j) PROVE GeneratorTyped' /\ GeneratorInv'
  <2>1. ASSUME work' = [work EXCEPT ![j] = Append(@, "OPEN")], UNCHANGED <<job, company>>
        PROVE  GeneratorTyped' /\ GeneratorInv'
    <3>1. job[j].kind = "mission" /\ MissionAt(job[j], company[j], work[j]) /\ job[j].at = "mission"
      BY <1>2, <1>3, <1>18 DEF CreateMissionTicket, JobHolds, Kinds, CycleAt, CompanyAt, Stages
    <3>2. Append(work[j], "OPEN") \in Seq(Marks)
      BY <1>3 DEF Marks
    <3>3. /\ job' = [job EXCEPT ![j] = job[j]] /\ company' = [company EXCEPT ![j] = company[j]]
          /\ work' = [work EXCEPT ![j] = Append(work[j], "OPEN")]
      BY <1>1, <2>1
    <3>4. JobHolds(job[j], company[j], Append(work[j], "OPEN"))
      BY <3>1 DEF JobHolds, MissionAt
    <3> QED
      BY <1>1, <3>2, <3>3, <3>4, OneJob
  <2> QED
    BY <1>17, <1>18, <2>1 DEF CreateMissionTicket
<1>19. ASSUME JobCrash(j) PROVE GeneratorTyped' /\ GeneratorInv'
  <2>1. (job[j].kind = "company" /\ job[j].at \in Stages) \/ job[j].at = "mission"
    BY <1>2, <1>3, <1>19 DEF JobCrash, Running, JobHolds, Kinds, CycleAt, CompanyAt, MissionAt
  <2> QED
    BY <1>13, <1>17, <1>19, <2>1 DEF JobCrash
<1> QED
  BY <1>5, <1>6, <1>7, <1>8, <1>9, <1>10, <1>11, <1>12, <1>14, <1>15, <1>16, <1>18, <1>19

\* It says what a reader of the rows may rely on.
LEMMA GeneratorTold == GeneratorTyped /\ GeneratorInv => CompanyTellsTruth /\ PlanSavedWhole
<1> SUFFICES ASSUME GeneratorTyped, GeneratorInv PROVE CompanyTellsTruth /\ PlanSavedWhole
  OBVIOUS
<1>1. ASSUME NEW j \in Jobs
      PROVE  /\ JobHolds(job[j], company[j], work[j]) /\ job[j].kind \in Kinds
             /\ Len(work[j]) \in Nat /\ Done(j) = Passed(work[j]) /\ Done(j) \in Nat
  BY PassedCounted DEF GeneratorTyped, GeneratorInv, PlannedJob, Done, Passed
<1>2. ASSUME NEW j \in Jobs, company[j] # <<>>
      PROVE  /\ job[j].kind = "company"
             /\ \/ Underway(company[j], work[j]) /\ job[j].at # "returned"
                \/ Completed(company[j], work[j]) \/ Failed(company[j], work[j])
  BY <1>1, <1>2 DEF JobHolds, Kinds, CompanyAt, CycleAt, MissionAt, Stages
<1>3. CompanyTellsTruth
  <2> SUFFICES ASSUME NEW j \in Jobs, company[j] # <<>>
               PROVE  /\ company[j].created <= Len(work[j]) /\ company[j].completed <= Done(j)
                      /\ company[j].status = "completed" =>
                           /\ company[j].created = Len(work[j]) /\ company[j].completed = Done(j)
                           /\ \A i \in DOMAIN work[j] : work[j][i] # "OPEN"
                      /\ job[j].at = "returned" => company[j].status \in {"completed", "failed"}
                      /\ company[j].error <=> company[j].status = "failed"
    BY DEF CompanyTellsTruth
  <2>1. CASE Underway(company[j], work[j]) /\ job[j].at # "returned"
    BY <1>1, <2>1 DEF Underway
  <2>2. CASE Completed(company[j], work[j])
    BY <1>1, <2>2 DEF Completed
  <2>3. CASE Failed(company[j], work[j])
    BY <1>1, <2>3 DEF Failed
  <2> QED
    BY <1>2, <2>1, <2>2, <2>3
<1>4. PlanSavedWhole
  BY <1>1 DEF PlanSavedWhole, JobHolds, CycleAt, MissionAt
<1> QED
  BY <1>3, <1>4

\* Whatever the language models plan and wherever a job dies: rows and plans tell the truth.
THEOREM PlansAreTold ==
    GeneratorInit /\ [][GeneratorNext]_generatorvars => [](CompanyTellsTruth /\ PlanSavedWhole)
  BY GeneratorStarts, GeneratorInvNext, GeneratorTold, PTL

-------------------------------------------------------------------------------
(* Notifications: broadcasts to the admins and pushes to the sockets of a user. *)

BroadcastTyped ==
    /\ via \in [Broadcasts -> {"none", "handler", "task"}]
    /\ notify \in [Broadcasts -> {"idle", "busy", "ok", "failed"}]
    /\ unnotified \in [Broadcasts -> SUBSET Admins]
    /\ notes \in [Broadcasts -> [Admins -> Nat]]
    /\ note_faults \in Nat /\ note_faults <= MaxNoteFaults

\* The notification an admin is still to have.
StillDue(status, list, a) == IF status = "busy" /\ a \in list THEN 1 ELSE 0

\* What admin a has of a broadcast whose list still holds `list`, when at most `extra` of
\* its runs were cut short.
AdminHas(how, status, list, n, a, extra) ==
    /\ how = "none" => status = "idle" /\ n = 0
    /\ n + StillDue(status, list, a) <= 1 + extra
    /\ how = "handler" => n + StillDue(status, list, a) <= 1
    /\ status \in {"busy", "ok"} /\ a \notin list => n >= 1
    /\ status = "ok" => list = {}

BroadcastInv ==
    \A b \in Broadcasts, a \in Admins :
        AdminHas(via[b], notify[b], unnotified[b], notes[b][a], a, MaxNoteFaults - note_faults)

\* Sockets that were connected once.
Met == {s \in Sockets : socket[s] # "new"}

Reached(list, n, ever) == \A i \in 1..n : socket[list[i]] = "open" => list[i] \in ever

SocketInv ==
    /\ socket \in [Sockets -> {"new", "open", "closed", "gone"}]
    /\ connections \in Seq(Met)
    /\ targets \in [Pushes -> Seq(Met)]
    /\ position \in [Pushes -> Int]
    /\ received \in [Pushes -> SUBSET Sockets]
    /\ \A p \in Pushes :
         /\ position[p] >= -1 /\ position[p] <= Len(targets[p])
         /\ Reached(targets[p], position[p], received[p])

\* Before any broadcast or push the invariants hold.
LEMMA NotesStart == NoteInit => BroadcastTyped /\ BroadcastInv /\ SocketInv
<1> SUFFICES ASSUME NoteInit PROVE BroadcastTyped /\ BroadcastInv /\ SocketInv
  OBVIOUS
<1>1. BroadcastTyped
  BY NotificationsAssumption DEF NoteInit, BroadcastTyped
<1>2. BroadcastInv
  BY NotificationsAssumption DEF NoteInit, BroadcastInv, AdminHas, StillDue
<1>3. socket \in [Sockets -> {"new", "open", "closed", "gone"}] /\ connections \in Seq(Met)
  BY DEF NoteInit
<1>4. <<>> \in Seq(Met)
  OBVIOUS
<1>5. targets \in [Pushes -> Seq(Met)] /\ received \in [Pushes -> SUBSET Sockets]
  BY <1>4 DEF NoteInit
<1>6. /\ position \in [Pushes -> Int]
      /\ \A p \in Pushes : position[p] = -1 /\ targets[p] = <<>>
  BY DEF NoteInit
<1>7. \A p \in Pushes : Reached(targets[p], position[p], received[p])
  BY <1>6 DEF Reached
<1>8. SocketInv
  BY <1>3, <1>5, <1>6, <1>7 DEF SocketInv
<1> QED
  BY <1>1, <1>2, <1>8

\* No step breaks the types of the broadcasts.
LEMMA BroadcastTypedNext ==
    BroadcastTyped /\ [NoteNext]_notevars => BroadcastTyped'
<1> SUFFICES ASSUME BroadcastTyped, [NoteNext]_notevars PROVE BroadcastTyped'
  OBVIOUS
<1>1. ASSUME NEW b \in Broadcasts, Publish(b) PROVE BroadcastTyped'
  BY <1>1 DEF Publish, BroadcastTyped
<1>2. ASSUME NEW b \in Broadcasts, NEW a \in Admins, CreateNotification(b, a) PROVE BroadcastTyped'
  <2>1. notes' \in [Broadcasts -> [Admins -> Nat]]
    <3>1. notes[b][a] + 1 \in Nat /\ notes[b] \in [Admins -> Nat]
      BY DEF BroadcastTyped
    <3>2. [notes[b] EXCEPT ![a] = notes[b][a] + 1] \in [Admins -> Nat]
      BY <3>1
    <3>3. notes' = [notes EXCEPT ![b] = [notes[b] EXCEPT ![a] = notes[b][a] + 1]]
      BY <1>2 DEF CreateNotification
    <3> QED
      BY <3>2, <3>3 DEF BroadcastTyped
  <2>2. notify' \in [Broadcasts -> {"idle", "busy", "ok", "failed"}]
    BY <1>2 DEF CreateNotification, BroadcastTyped
  <2>3. unnotified' \in [Broadcasts -> SUBSET Admins]
    BY <1>2 DEF CreateNotification, BroadcastTyped
  <2> QED
    BY <1>2, <2>1, <2>2, <2>3 DEF CreateNotification, BroadcastTyped
<1>3. ASSUME NEW b \in Broadcasts, BroadcastFails(b) \/ BroadcastLost(b) PROVE BroadcastTyped'
  <2>1. \/ UNCHANGED notify \/ notify' = [notify EXCEPT ![b] = "failed"]
    BY <1>3 DEF BroadcastFails, BroadcastLost
  <2>2. \/ UNCHANGED unnotified \/ unnotified' = [unnotified EXCEPT ![b] = Admins]
    BY <1>3 DEF BroadcastFails, BroadcastLost, Again
  <2>3. UNCHANGED <<via, notes>> /\ note_faults > 0 /\ note_faults' = note_faults - 1
    BY <1>3 DEF BroadcastFails, BroadcastLost, NoteFault
  <2>4. notify' \in [Broadcasts -> {"idle", "busy", "ok", "failed"}]
    BY <2>1 DEF BroadcastTyped
  <2>5. unnotified' \in [Broadcasts -> SUBSET Admins]
    BY <2>2 DEF BroadcastTyped
  <2>6. note_faults' \in Nat /\ note_faults' <= MaxNoteFaults
    BY <2>3, NotificationsAssumption DEF BroadcastTyped
  <2> QED
    BY <2>3, <2>4, <2>5, <2>6 DEF BroadcastTyped
<1>4. CASE UNCHANGED <<bvars, note_faults>>
  BY <1>4 DEF bvars, BroadcastTyped
<1> QED
  BY <1>1, <1>2, <1>3, <1>4
  DEF NoteNext, BroadcastStep, notevars, ConnectUser, SocketCloses, DisconnectUser, StartPush,
     SendToUser

\* A run gives an admin one notification at most, and each cut costs a fault.
LEMMA BroadcastInvNext ==
    BroadcastTyped /\ BroadcastInv /\ [NoteNext]_notevars => BroadcastInv'
<1> SUFFICES ASSUME BroadcastTyped, BroadcastInv, [NoteNext]_notevars PROVE BroadcastInv'
  OBVIOUS
<1>1. note_faults \in Nat /\ MaxNoteFaults \in Nat /\ note_faults <= MaxNoteFaults
  BY NotificationsAssumption DEF BroadcastTyped
\* A step of one broadcast; what it writes about each admin decides.
<1>2. ASSUME NEW b \in Broadcasts,
             \A c \in Broadcasts \ {b} : /\ via'[c] = via[c] /\ notify'[c] = notify[c]
                                         /\ unnotified'[c] = unnotified[c] /\ notes'[c] = notes[c],
             note_faults' \in Nat, note_faults' <= note_faults,
             \A a \in Admins : AdminHas(via'[b], notify'[b], unnotified'[b], notes'[b][a], a,
                                        MaxNoteFaults - note_faults')
      PROVE  BroadcastInv'
  <2> SUFFICES ASSUME NEW c \in Broadcasts, NEW a \in Admins
               PROVE  AdminHas(via'[c], notify'[c], unnotified'[c], notes'[c][a], a,
                               MaxNoteFaults - note_faults')
    BY DEF BroadcastInv
  <2>1. CASE c = b
    BY <1>2, <2>1
  <2>2. CASE c # b
    <3>1. AdminHas(via[c], notify[c], unnotified[c], notes[c][a], a, MaxNoteFaults - note_faults)
      BY DEF BroadcastInv
    <3>2. notes[c][a] \in Nat
      BY DEF BroadcastTyped
    <3>3. AdminHas(via[c], notify[c], unnotified[c], notes[c][a], a, MaxNoteFaults - note_faults')
      BY <1>1, <1>2, <3>1, <3>2 DEF AdminHas, StillDue
    <3> QED
      BY <1>2, <2>2, <3>3
  <2> QED
    BY <2>1, <2>2
<1>3. ASSUME NEW b \in Broadcasts, Publish(b) PROVE BroadcastInv'
  <2>1. /\ via'[b] \in {"handler", "task"} /\ notify'[b] = "busy" /\ unnotified'[b] = Admins
        /\ UNCHANGED <<notes, note_faults>>
        /\ \A c \in Broadcasts \ {b} : /\ via'[c] = via[c] /\ notify'[c] = notify[c]
                                       /\ unnotified'[c] = unnotified[c]
    BY <1>3 DEF Publish, BroadcastTyped
  <2>2. \A a \in Admins : notes[b][a] = 0
    BY <1>3 DEF Publish, BroadcastInv, AdminHas
  <2>3. \A a \in Admins : AdminHas(via'[b], "busy", Admins, 0, a, MaxNoteFaults - note_faults)
    BY <1>1, <2>1 DEF AdminHas, StillDue
  <2>4. \A a \in Admins : AdminHas(via'[b], notify'[b], unnotified'[b], notes'[b][a], a,
                                 MaxNoteFaults - note_faults')
    BY <2>1, <2>2, <2>3
  <2>5. \A c \in Broadcasts \ {b} : /\ via'[c] = via[c] /\ notify'[c] = notify[c]
                                     /\ unnotified'[c] = unnotified[c] /\ notes'[c] = notes[c]
    BY <2>1
  <2>6. note_faults' \in Nat /\ note_faults' <= note_faults
    BY <1>1, <2>1
  <2> QED
    BY <1>2, <2>4, <2>5, <2>6
<1>4. ASSUME NEW b \in Broadcasts, NEW admin \in Admins, CreateNotification(b, admin)
      PROVE  BroadcastInv'
  <2>1. /\ notify[b] = "busy" /\ admin \in unnotified[b]
        /\ unnotified'[b] = unnotified[b] \ {admin}
        /\ notify'[b] = IF unnotified'[b] = {} THEN "ok" ELSE "busy"
        /\ UNCHANGED <<via, note_faults>>
        /\ \A c \in Broadcasts \ {b} : notify'[c] = notify[c] /\ unnotified'[c] = unnotified[c]
    BY <1>4 DEF CreateNotification, BroadcastTyped
  <2>2. \A c \in Broadcasts \ {b} : notes'[c] = notes[c]
    BY <1>4 DEF CreateNotification, BroadcastTyped
  <2>3. /\ notes'[b][admin] = notes[b][admin] + 1
        /\ \A a \in Admins \ {admin} : notes'[b][a] = notes[b][a]
        /\ \A a \in Admins : notes[b][a] \in Nat
    BY <1>4 DEF CreateNotification, BroadcastTyped
  <2>4. ASSUME NEW a \in Admins
        PROVE  AdminHas(via[b], notify'[b], unnotified'[b], notes'[b][a], a, MaxNoteFaults - note_faults)
    <3>1. AdminHas(via[b], "busy", unnotified[b], notes[b][a], a, MaxNoteFaults - note_faults)
      BY <2>1 DEF BroadcastInv
    <3>2. CASE a = admin
      BY <1>1, <2>1, <2>3, <3>1, <3>2 DEF AdminHas, StillDue
    <3>3. CASE a # admin
      BY <1>1, <2>1, <2>3, <3>1, <3>3 DEF AdminHas, StillDue
    <3> QED
      BY <3>2, <3>3
  <2>5. \A a \in Admins : AdminHas(via'[b], notify'[b], unnotified'[b], notes'[b][a], a,
                                 MaxNoteFaults - note_faults')
    BY <2>1, <2>4
  <2>6. \A c \in Broadcasts \ {b} : /\ via'[c] = via[c] /\ notify'[c] = notify[c]
                                     /\ unnotified'[c] = unnotified[c] /\ notes'[c] = notes[c]
    BY <2>1, <2>2
  <2>7. note_faults' \in Nat /\ note_faults' <= note_faults
    BY <1>1, <2>1
  <2> QED
    BY <1>2, <2>5, <2>6, <2>7
\* A run that is cut short may be begun again, and costs a fault.
<1>5. ASSUME NEW b \in Broadcasts, BroadcastFails(b) \/ BroadcastLost(b) PROVE BroadcastInv'
  <2>1. /\ notify[b] = "busy" /\ UNCHANGED <<via, notes>> /\ note_faults' = note_faults - 1 /\ note_faults > 0
        /\ \/ notify'[b] = "failed" /\ unnotified'[b] = unnotified[b]
           \/ via[b] = "task" /\ notify'[b] = "busy" /\ unnotified'[b] = Admins
        /\ \A c \in Broadcasts \ {b} : notify'[c] = notify[c] /\ unnotified'[c] = unnotified[c]
    BY <1>5 DEF BroadcastFails, BroadcastLost, NoteFault, Again, BroadcastTyped
  <2>2. ASSUME NEW a \in Admins
        PROVE  AdminHas(via[b], notify'[b], unnotified'[b], notes[b][a], a, MaxNoteFaults - note_faults')
    <3>1. AdminHas(via[b], "busy", unnotified[b], notes[b][a], a, MaxNoteFaults - note_faults)
      BY <2>1 DEF BroadcastInv
    <3>2. notes[b][a] \in Nat
      BY DEF BroadcastTyped
    <3> QED
      BY <1>1, <2>1, <3>1, <3>2 DEF AdminHas, StillDue
  <2> QED
    BY <1>1, <1>2, <2>1, <2>2
<1>6. CASE UNCHANGED <<bvars, note_faults>>
  BY <1>6 DEF bvars, BroadcastInv
<1> QED
  BY <1>3, <1>4, <1>5, <1>6
  DEF NoteNext, BroadcastStep, notevars, ConnectUser, SocketCloses, DisconnectUser, StartPush,
     SendToUser

\* A list without one of its sockets is still one of sockets that were met.
LEMMA ListWithout ==
    ASSUME NEW S, connections \in Seq(S), NEW s
    PROVE  Without(s) \in Seq(S)
<1>1. CASE s \in Range(connections)
  <2> DEFINE k == CHOOSE i \in DOMAIN connections : connections[i] = s
  <2>1. k \in 1..Len(connections)
    BY <1>1 DEF Range
  <2>2. Without(s) = RemoveAt(connections, k)
    BY <1>1 DEF Without
  <2> HIDE DEF k
  <2>3. SubSeq(connections, 1, k - 1) \in Seq(S) /\ SubSeq(connections, k + 1, Len(connections)) \in Seq(S)
    BY <2>1
  <2> QED
    BY <2>2, <2>3 DEF RemoveAt
<1>2. CASE s \notin Range(connections)
  BY <1>2 DEF Without
<1> QED
  BY <1>1, <1>2

\* A list of sockets is one of any larger set.
LEMMA SeqGrows ==
    ASSUME NEW S, NEW T, S \subseteq T
    PROVE  Seq(S) \subseteq Seq(T)
  OBVIOUS

\* What a push has passed is closed or was reached, while sockets come, go and break.
LEMMA SocketInvNext == SocketInv /\ [NoteNext]_notevars => SocketInv'
<1> SUFFICES ASSUME SocketInv, [NoteNext]_notevars PROVE SocketInv'
  OBVIOUS
\* Sockets come and go, and those met stay met.
<1>1. ASSUME NEW s \in Sockets, NEW status \in {"open", "closed", "gone"},
             socket' = [socket EXCEPT ![s] = status],
             status = "open" => socket[s] = "new",
             connections' \in Seq(Met'), UNCHANGED <<targets, position, received>>
      PROVE  SocketInv'
  <2>1. socket' \in [Sockets -> {"new", "open", "closed", "gone"}]
    BY <1>1 DEF SocketInv
  <2>2. Met \subseteq Met'
    BY <1>1 DEF SocketInv, Met
  <2>3. targets' \in [Pushes -> Seq(Met')]
    BY <1>1, <2>2, SeqGrows DEF SocketInv
  <2>4. ASSUME NEW p \in Pushes
        PROVE  /\ position[p] >= -1 /\ position[p] <= Len(targets[p])
               /\ \A i \in 1..position[p] : socket'[targets[p][i]] = "open" => targets[p][i] \in received[p]
    <3>1. targets[p] \in Seq(Met) /\ position[p] \in Int /\ position[p] <= Len(targets[p])
      BY DEF SocketInv
    <3>2. \A i \in 1..position[p] : targets[p][i] \in Met
      BY <3>1
    <3>3. \A t \in Met : socket'[t] = "open" => socket[t] = "open"
      BY <1>1 DEF SocketInv, Met
    <3> QED
      BY <3>2, <3>3 DEF SocketInv, Reached
  <2> QED
    BY <1>1, <2>1, <2>3, <2>4 DEF SocketInv, Reached
<1>2. ASSUME NEW s \in Sockets, ConnectUser(s) PROVE SocketInv'
  <2>1. Met \subseteq Met' /\ s \in Met'
    BY <1>2 DEF ConnectUser, SocketInv, Met
  <2>2. connections' \in Seq(Met')
    <3>1. connections \in Seq(Met')
      BY <2>1, SeqGrows DEF SocketInv
    <3> QED
      BY <1>2, <2>1, <3>1 DEF ConnectUser
  <2> QED
    BY <1>1, <1>2, <2>2 DEF ConnectUser
<1>3. ASSUME NEW s \in Sockets, SocketCloses(s) PROVE SocketInv'
  <2>1. PICK how \in {"closed", "gone"} : socket' = [socket EXCEPT ![s] = how]
    BY <1>3 DEF SocketCloses
  <2>2. Met \subseteq Met'
    BY <2>1 DEF SocketInv, Met
  <2>3. connections' \in Seq(Met')
    BY <1>3, <2>2, SeqGrows DEF SocketCloses, SocketInv
  <2> QED
    BY <1>1, <1>3, <2>1, <2>3 DEF SocketCloses
<1>4. ASSUME NEW s \in Sockets, DisconnectUser(s) PROVE SocketInv'
  <2>1. Met \subseteq Met'
    BY <1>4 DEF DisconnectUser, SocketInv, Met
  <2>2. connections' \in Seq(Met')
    <3>1. connections \in Seq(Met')
      BY <2>1, SeqGrows DEF SocketInv
    <3> QED
      BY <1>4, <3>1, ListWithout DEF DisconnectUser
  <2> QED
    BY <1>1, <1>4, <2>2 DEF DisconnectUser
<1>5. ASSUME NEW q \in Pushes, StartPush(q) PROVE SocketInv'
  <2>1. /\ UNCHANGED <<connections, socket, received>> /\ Met' = Met
        /\ targets' \in [Pushes -> Seq(Met)] /\ targets'[q] = connections
        /\ position' \in [Pushes -> Int] /\ position'[q] = 0
        /\ \A p \in Pushes \ {q} : targets'[p] = targets[p] /\ position'[p] = position[p]
    BY <1>5 DEF StartPush, SocketInv, Met
  <2>2. Reached(connections, 0, received[q]) /\ Len(connections) >= 0
    BY DEF Reached, SocketInv
  <2>3. ASSUME NEW p \in Pushes
        PROVE  /\ position'[p] >= -1 /\ position'[p] <= Len(targets'[p])
               /\ Reached(targets'[p], position'[p], received[p])
    <3>1. CASE p = q
      BY <2>1, <2>2, <3>1
    <3>2. CASE p # q
      BY <2>1, <3>2 DEF SocketInv
    <3> QED
      BY <3>1, <3>2
  <2> QED
    BY <2>1, <2>3 DEF SocketInv, Reached
<1>6. ASSUME NEW q \in Pushes, SendToUser(q) PROVE SocketInv'
  <2> DEFINE s == targets[q][position[q] + 1]
  <2>1. /\ position[q] >= 0 /\ position[q] < Len(targets[q]) /\ UNCHANGED <<socket, targets>> /\ Met' = Met
        /\ IF socket[s] = "open"
           THEN received' = [received EXCEPT ![q] = @ \cup {s}] /\ UNCHANGED connections
           ELSE connections' = Without(s) /\ UNCHANGED received
        /\ position' = [position EXCEPT ![q] = @ + 1]
    BY <1>6 DEF SendToUser, Pushing, List, Met
  <2>2. targets[q] \in Seq(Met) /\ position[q] \in Int /\ received \in [Pushes -> SUBSET Sockets]
        /\ position \in [Pushes -> Int] /\ connections \in Seq(Met)
    BY DEF SocketInv
  <2>3. s \in Met /\ s \in Sockets
    BY <2>1, <2>2 DEF Met
  <2>4. connections' \in Seq(Met)
    BY <2>1, <2>2, ListWithout
  <2> HIDE DEF s
  <2>5. /\ received' \in [Pushes -> SUBSET Sockets] /\ \A p \in Pushes : received[p] \subseteq received'[p]
        /\ socket[s] = "open" => s \in received'[q]
    BY <2>1, <2>2, <2>3
  <2>6. /\ position' \in [Pushes -> Int] /\ position'[q] = position[q] + 1
        /\ \A p \in Pushes \ {q} : position'[p] = position[p]
    BY <2>1, <2>2
  <2>7. ASSUME NEW p \in Pushes
        PROVE  /\ position'[p] >= -1 /\ position'[p] <= Len(targets[p])
               /\ Reached(targets[p], position'[p], received'[p])
    <3>0. /\ position[p] >= -1 /\ position[p] <= Len(targets[p])
          /\ Reached(targets[p], position[p], received[p])
      BY DEF SocketInv
    <3>1. CASE p # q
      BY <2>5, <2>6, <3>0, <3>1 DEF Reached
    <3>2. CASE p = q
      <4>1. position'[p] >= -1 /\ position'[p] <= Len(targets[p])
        BY <2>1, <2>2, <2>6, <3>2
      <4>2. ASSUME NEW i \in 1..position'[q], socket[targets[q][i]] = "open"
            PROVE  targets[q][i] \in received'[q]
        <5>1. CASE i = position[q] + 1
          BY <2>5, <4>2, <5>1 DEF s
        <5>2. CASE i # position[q] + 1
          <6>1. i \in 1..position[q]
            BY <2>2, <2>6, <5>2
          <6> QED
            BY <2>5, <3>0, <3>2, <4>2, <6>1 DEF Reached
        <5> QED
          BY <5>1, <5>2
      <4> QED
        BY <3>2, <4>1, <4>2 DEF Reached
    <3> QED
      BY <3>1, <3>2
  <2> QED
    BY <2>1, <2>4, <2>5, <2>6, <2>7 DEF SocketInv, Reached
<1>7. CASE UNCHANGED svars
  BY <1>7 DEF svars, SocketInv, Met, Reached
<1> QED
  BY <1>2, <1>3, <1>4, <1>5, <1>6, <1>7
  DEF NoteNext, BroadcastStep, notevars, Publish, CreateNotification, BroadcastFails, BroadcastLost

\* The invariants say what senders may rely on.
LEMMA MessagesTold ==
    BroadcastTyped /\ BroadcastInv /\ SocketInv => BroadcastComplete /\ PushReachesOpen
<1> SUFFICES ASSUME BroadcastTyped, BroadcastInv, SocketInv
             PROVE  BroadcastComplete /\ PushReachesOpen
  OBVIOUS
<1>1. ASSUME NEW b \in Broadcasts, NEW a \in Admins
      PROVE  /\ notify[b] = "ok" => notes[b][a] >= 1
             /\ notes[b][a] <= 1 + MaxNoteFaults
             /\ via[b] = "handler" => notes[b][a] <= 1
  <2>1. AdminHas(via[b], notify[b], unnotified[b], notes[b][a], a, MaxNoteFaults - note_faults)
    BY DEF BroadcastInv
  <2>2. notes[b][a] \in Nat /\ note_faults \in Nat /\ MaxNoteFaults \in Nat
    BY NotificationsAssumption DEF BroadcastTyped
  <2> QED
    BY <2>1, <2>2 DEF AdminHas, StillDue
<1>2. ASSUME NEW p \in Pushes, position[p] >= 0, ~Pushing(p), NEW s \in Range(targets[p]), socket[s] = "open"
      PROVE  s \in received[p]
  <2>1. targets[p] \in Seq(Met) /\ position[p] \in Int
    BY DEF SocketInv
  <2>2. PICK i \in 1..Len(targets[p]) : s = targets[p][i]
    BY <2>1 DEF Range
  <2>3. position[p] = Len(targets[p])
    BY <1>2, <2>1 DEF SocketInv, Pushing, List
  <2> QED
    BY <1>2, <2>2, <2>3 DEF SocketInv, Reached
<1> QED
  BY <1>1, <1>2 DEF BroadcastComplete, PushReachesOpen

\* For any number of admins, broadcasts, retries, sockets and pushes: a broadcast that ended
\* well notified every admin, and a push reached what was connected and stayed open.
THEOREM NotesAndPushesArrive ==
    NoteInit /\ [][NoteNext]_notevars => [](BroadcastComplete /\ PushReachesOpen)
  BY NotesStart, BroadcastTypedNext, BroadcastInvNext, SocketInvNext, MessagesTold, PTL

-------------------------------------------------------------------------------
(* Code review. *)

CallsTyped ==
    /\ review = [c \in Reviews |-> review[c]]
    /\ subject = [c \in Reviews |-> subject[c]]
    /\ found = [c \in Reviews |-> found[c]]
    /\ score = [c \in Reviews |-> score[c]]
    /\ result = [c \in Reviews |-> result[c]]
    /\ overlaps = [c \in Reviews |-> overlaps[c]]
    /\ issues = [a \in Reporters |-> issues[a]]

\* A call that began has the findings and the score of the text it read, and what its
\* field or its result holds is of itself or of a call begun while it waited.
CallHolds(c) ==
    /\ review[c] \in {"none", "advice", "ended", "failed"}
    /\ subject[c].agent \in Reporters
    /\ review[c] # "none" =>
         /\ found[c] = Findings(subject[c].agent, subject[c].text)
         /\ score[c] = Score(subject[c].agent, found[c])
    /\ review[c] = "none" => overlaps[c] = {}
    /\ review[c] = "advice" => issues[subject[c].agent] \in {c} \cup overlaps[c]
    /\ review[c] = "ended" => result[c] \in {c} \cup overlaps[c]

\* Calls that overlap are of one agent.
Overlapping(c) ==
    \A d \in overlaps[c] : d \in Reviews /\ review[d] # "none" /\ subject[d].agent = subject[c].agent

ReviewInv == CallsTyped /\ \A c \in Reviews : CallHolds(c) /\ Overlapping(c)

LEMMA ReviewInvNext == ReviewInv /\ [ReviewNext]_reviewvars => ReviewInv'
<1> SUFFICES ASSUME ReviewInv, [ReviewNext]_reviewvars PROVE ReviewInv'
  OBVIOUS
<1> USE DEF ReviewInv
<1>1. ASSUME NEW c \in Reviews, NEW a \in Reporters, NEW f \in Sources, Review(c, a, f)
      PROVE  ReviewInv'
  <2> DEFINE list == Findings(a, text[f])
             points == Score(a, list)
             about == [agent |-> a, text |-> text[f]]
  <2>1. /\ review[c] = "none"
        /\ subject' = [subject EXCEPT ![c] = about]
        /\ found' = [found EXCEPT ![c] = list]
        /\ issues' = [issues EXCEPT ![a] = c]
        /\ score' = [score EXCEPT ![c] = points]
        /\ review' = [review EXCEPT ![c] = IF list = {} THEN "ended" ELSE "advice"]
        /\ result' = [result EXCEPT ![c] = IF list = {} THEN c ELSE @]
        /\ overlaps' = [d \in Reviews |->
                          IF review[d] = "advice" /\ subject[d].agent = a
                          THEN overlaps[d] \cup {c} ELSE overlaps[d]]
    BY <1>1 DEF Review
  <2>2. about.agent = a /\ list = Findings(about.agent, about.text) /\ points = Score(about.agent, list)
    OBVIOUS
  <2> HIDE DEF list, points, about
  <2>3. CallsTyped'
    BY <2>1 DEF CallsTyped
  <2>4. ASSUME NEW d \in Reviews \ {c}
        PROVE  /\ review'[d] = review[d] /\ subject'[d] = subject[d] /\ found'[d] = found[d]
               /\ score'[d] = score[d] /\ result'[d] = result[d]
    BY <2>1
  <2>5. ASSUME NEW d \in Reviews, d # c PROVE CallHolds(d)'
    <3>1. CallHolds(d) /\ d \in Reviews \ {c}
      BY <2>5
    <3> QED
      BY <2>1, <2>4, <2>5, <3>1 DEF CallHolds, CallsTyped
  <2>6. subject'[c] = about /\ overlaps'[c] = {} /\ issues'[a] = c /\ review'[c] # "none"
    BY <2>1 DEF CallsTyped, CallHolds
  <2>8. CallHolds(c)'
    <3>1. found'[c] = list /\ score'[c] = points /\ review'[c] \in {"advice", "ended"}
      BY <2>1 DEF CallsTyped
    <3>2. review'[c] = "ended" => result'[c] = c
      BY <2>1 DEF CallsTyped
    <3> QED
      BY <2>2, <2>6, <3>1, <3>2 DEF CallHolds
  <2>7. ASSUME NEW d \in Reviews, NEW e \in overlaps'[d]
        PROVE  e \in Reviews /\ review'[e] # "none" /\ subject'[e].agent = subject'[d].agent
    <3>1. d # c
      BY <2>6, <2>7
    <3>2. CASE e = c
      <4>1. c \notin overlaps[d]
        BY <2>1 DEF Overlapping
      <4>2. subject[d].agent = a
        BY <2>1, <2>7, <3>2, <4>1
      <4> QED
        BY <2>2, <2>4, <2>6, <3>1, <3>2, <4>2
    <3>3. CASE e # c
      <4>1. e \in overlaps[d]
        BY <2>1, <2>7, <3>3
      <4> QED
        BY <2>4, <3>1, <3>3, <4>1 DEF Overlapping
    <3> QED
      BY <3>2, <3>3
  <2> QED
    BY <2>3, <2>5, <2>7, <2>8 DEF Overlapping
<1>2. ASSUME NEW c \in Reviews, GenerateRecommendations(c) \/ RecommendationsFail(c) PROVE ReviewInv'
  <2>1. /\ review[c] = "advice" /\ UNCHANGED <<subject, found, issues, score, overlaps>>
        /\ \/ review' = [review EXCEPT ![c] = "ended"] /\ result' = [result EXCEPT ![c] = issues[subject[c].agent]]
           \/ review' = [review EXCEPT ![c] = "failed"] /\ UNCHANGED result
    BY <1>2 DEF GenerateRecommendations, RecommendationsFail
  <2>2. CallsTyped'
    BY <2>1 DEF CallsTyped
  <2>3. \A d \in Reviews : review'[d] = "none" <=> review[d] = "none"
    BY <2>1 DEF CallsTyped
  <2>4. ASSUME NEW d \in Reviews PROVE CallHolds(d)' /\ Overlapping(d)'
    <3>1. CallHolds(d) /\ CallHolds(c) /\ Overlapping(d)
      OBVIOUS
    <3>2. Overlapping(d)'
      BY <2>1, <2>3, <3>1 DEF Overlapping
    <3>3. ASSUME d # c PROVE review'[d] = review[d] /\ result'[d] = result[d]
      BY <2>1, <3>3 DEF CallsTyped
    <3>4. \/ review'[c] = "failed"
          \/ review'[c] = "ended" /\ result'[c] = issues[subject[c].agent]
      BY <2>1 DEF CallsTyped
    <3>5. CASE d = c
      <4>1. CallHolds(c)'
        BY <2>1, <3>1, <3>4 DEF CallHolds
      <4> QED
        BY <3>2, <3>5, <4>1
    <3>6. CASE d # c
      <4>1. CallHolds(d)'
        BY <2>1, <3>1, <3>3, <3>6 DEF CallHolds
      <4> QED
        BY <3>2, <4>1
    <3> QED
      BY <3>5, <3>6
  <2> QED
    BY <2>2, <2>4
<1>3. CASE UNCHANGED <<review, subject, found, issues, score, result, overlaps>>
  <2>1. CallsTyped'
    BY <1>3 DEF CallsTyped
  <2>2. ASSUME NEW c \in Reviews PROVE CallHolds(c)' /\ Overlapping(c)'
    <3>1. CallHolds(c) /\ Overlapping(c)
      OBVIOUS
    <3>2. CallHolds(c)'
      BY <1>3, <3>1 DEF CallHolds
    <3>3. Overlapping(c)'
      BY <1>3, <3>1 DEF Overlapping
    <3> QED
      BY <3>2, <3>3
  <2> QED
    BY <2>1, <2>2
<1>4. CASE UNCHANGED reviewvars
  BY <1>3, <1>4 DEF reviewvars
<1>5. ASSUME NEW f \in Sources, \/ \E auto_fix \in BOOLEAN : Check(f, auto_fix)
                                 \/ \E t \in Texts : Edit(f, t)
      PROVE  ReviewInv'
  <2>1. UNCHANGED <<review, subject, found, issues, score, result, overlaps>>
    BY <1>5 DEF Check, Edit
  <2> QED
    BY <1>3, <2>1
<1> QED
  BY <1>1, <1>2, <1>4, <1>5 DEF ReviewNext

LEMMA ReviewInvTells == ReviewInv => ReviewsWhole
<1> SUFFICES ASSUME ReviewInv, NEW c \in Reviews, review[c] = "ended"
             PROVE  /\ score[c] = Score(subject[c].agent, Findings(subject[c].agent, subject[c].text))
                    /\ \E d \in {c} \cup overlaps[c] :
                         found[result[c]] = Findings(subject[c].agent, subject[d].text)
  BY DEF ReviewsWhole
<1>1. CallHolds(c) /\ Overlapping(c)
  BY DEF ReviewInv
<1>2. result[c] \in {c} \cup overlaps[c]
  BY <1>1 DEF CallHolds
<1>3. result[c] \in Reviews /\ review[result[c]] # "none" /\ subject[result[c]].agent = subject[c].agent
  BY <1>1, <1>2 DEF Overlapping
<1>4. CallHolds(result[c])
  BY <1>3 DEF ReviewInv
<1>5. found[result[c]] = Findings(subject[c].agent, subject[result[c]].text)
  BY <1>3, <1>4 DEF CallHolds
<1> QED
  BY <1>1, <1>2, <1>5 DEF CallHolds

LEMMA ReviewInvInit == ReviewInit => ReviewInv
  BY DEF ReviewInit, ReviewInv, CallsTyped, CallHolds, Overlapping, Reporters

-------------------------------------------------------------------------------
(* Repairs. *)

LineOfFile ==
    [what : STRING \cup {"altered", "class", "def", "import stdlib", "import other"},
     marks : SUBSET (STRING \cup {"ragged", "long"})]
\* A text has the fields of a file.
File == [python : BOOLEAN, parses : BOOLEAN, lines : Seq(LineOfFile)]

Repaired(t) == \A s \in CheckStyle(t) : s.mark \notin {"tab", "trailing"}

RepairInv ==
    /\ text \in [Sources -> File]
    /\ \A f \in styled : Repaired(text[f])
    /\ styled \subseteq Sources

\* The issues of some lines have the mark they were made for.
LEMMA StyledMark ==
    ASSUME NEW lines, NEW mark, NEW fixable, NEW s \in AllStyled(lines, mark, fixable)
    PROVE  s.mark = mark
<1>1. PICK i \in lines : s = [line |-> i, mark |-> mark, fixable |-> fixable]
  BY DEF AllStyled, Styled
<1> QED
  BY <1>1

\* What the checker reports of tabs and trailing blanks.
LEMMA TabsReported ==
    ASSUME NEW t \in File, NEW s \in CheckStyle(t), s.mark \in {"tab", "trailing"}
    PROVE  /\ t.python /\ s.line \in DOMAIN t.lines
           /\ s.mark = "tab" => s.line \in Marked(t, "tab")
           /\ s.mark = "trailing" => s.line \in Marked(t, "trailing") \ Holding(t, "blank")
<1>1. s \notin CheckCommonStyle(t)
  <2>1. PICK a, b : CheckCommonStyle(t) = AllStyled(a, "blank lines", TRUE) \cup AllStyled(b, "no newline", TRUE)
    BY Zenon DEF CheckCommonStyle
  <2>2. s \in CheckCommonStyle(t) => s.mark \in {"blank lines", "no newline"}
    <3>1. \A i : i \in AllStyled(a, "blank lines", TRUE) => i.mark = "blank lines"
      BY StyledMark
    <3>2. \A i : i \in AllStyled(b, "no newline", TRUE) => i.mark = "no newline"
      BY StyledMark
    <3> QED
      BY <2>1, <3>1, <3>2
  <2> QED
    BY <2>2
<1>2. s \notin CheckJavascriptStyle(t)
  <2>1. ASSUME s \in CheckJavascriptStyle(t)
        PROVE  s.mark \in {"no semicolon", "ragged", "var", "misnamed"}
    <3>1. PICK mark \in {"no semicolon", "ragged", "var", "misnamed"} :
            s \in AllStyled(Marked(t, mark), mark, mark # "misnamed")
      BY <2>1 DEF CheckJavascriptStyle
    <3>2. s.mark = mark
      BY <3>1, StyledMark
    <3> QED
      BY <3>2
  <2> QED
    BY <2>1
<1>3. t.python /\ s \in CheckPythonStyle(t)
  BY <1>1, <1>2 DEF CheckStyle
<1>4. \/ s.mark = "tab" /\ s.line \in Marked(t, "tab")
      \/ s.mark = "trailing" /\ s.line \in Marked(t, "trailing") \ Holding(t, "blank")
  BY <1>3 DEF CheckPythonStyle, AllStyled, Styled
<1> QED
  BY <1>3, <1>4 DEF Marked

LEMMA TabsListed ==
    ASSUME NEW t \in File, t.python
    PROVE  /\ \A i \in Marked(t, "tab") : Styled(i, "tab", TRUE) \in CheckStyle(t)
           /\ \A i \in Marked(t, "trailing") \ Holding(t, "blank") :
                Styled(i, "trailing", TRUE) \in CheckStyle(t)
  BY DEF CheckStyle, CheckPythonStyle, AllStyled

\* What becomes of a line that is fixed.
LEMMA LineFixed ==
    ASSUME NEW line \in LineOfFile, NEW gone \in SUBSET {"tab", "trailing"}, NEW new \in FixLine(line, gone)
    PROVE  /\ new \in LineOfFile
           /\ new.marks \cap gone = {}
           /\ \A m \in {"tab", "trailing"} : m \in new.marks => m \in line.marks
           /\ line.what = "blank" <=> new.what = "blank"
<1>1. CASE gone = {}
  BY <1>1 DEF FixLine
<1>2. CASE gone # {}
  <2>1. PICK what \in Readings(line.what, gone), layout \in SUBSET {"ragged", "long"} :
          new = [what |-> what, marks |-> ((line.marks \ gone) \ {"ragged", "long"}) \cup layout]
    <3>1. new \in Rewritten(line, gone)
      BY <1>2 DEF FixLine
    <3> QED
      BY <3>1 DEF Rewritten
  <2>2. what \in {line.what, "altered", "class", "def", "import stdlib", "import other"}
        /\ (line.what # "code" => what = line.what)
    BY DEF Readings
  <2>3. /\ what \in STRING \cup {"altered", "class", "def", "import stdlib", "import other"}
        /\ (line.what = "blank" <=> what = "blank")
    BY <2>2 DEF LineOfFile
  <2>4. new.marks = ((line.marks \ gone) \ {"ragged", "long"}) \cup layout
    BY <2>1
  <2>5. new.marks \in SUBSET (STRING \cup {"ragged", "long"})
    BY <2>4 DEF LineOfFile
  <2>6. new.marks \cap gone = {} /\ \A m \in {"tab", "trailing"} : m \in new.marks => m \in line.marks
    BY <2>4
  <2> QED
    BY <2>1, <2>3, <2>5, <2>6 DEF LineOfFile
<1> QED
  BY <1>1, <1>2

\* The repair leaves nothing to repair.
LEMMA FixRepairs ==
    ASSUME NEW t \in File, NEW u \in AutoFix(t, CheckStyle(t))
    PROVE  u \in File /\ Repaired(u)
<1> DEFINE list == CheckStyle(t)
           n == Len(t.lines)
           lines == u.lines
<1>1. /\ lines = [i \in DOMAIN t.lines |-> lines[i]]
      /\ \A i \in DOMAIN t.lines : lines[i] \in FixLine(t.lines[i], Gone(list, i))
      /\ u.python = t.python /\ u.parses \in BOOLEAN
      /\ u = [python |-> t.python, parses |-> u.parses, lines |-> lines]
  <2>1. PICK l \in FixLines(t, list), p \in BOOLEAN : u = [python |-> t.python, parses |-> p, lines |-> l]
    <3>1. t.parses \in BOOLEAN
      BY DEF File
    <3> QED
      BY <3>1 DEF AutoFix
  <2>2. lines = l /\ u.parses = p /\ u.python = t.python
    BY <2>1 DEF File
  <2> QED
    BY <2>1, <2>2 DEF FixLines
<1>2. n \in Nat /\ DOMAIN t.lines = 1..n /\ \A i \in 1..n : t.lines[i] \in LineOfFile
  BY DEF File
<1> HIDE DEF list
<1>3. ASSUME NEW i \in 1..n
      PROVE  /\ lines[i] \in LineOfFile
             /\ lines[i].marks \cap Gone(list, i) = {}
             /\ \A m \in {"tab", "trailing"} : m \in lines[i].marks => m \in t.lines[i].marks
             /\ t.lines[i].what = "blank" <=> lines[i].what = "blank"
  <2>1. Gone(list, i) \in SUBSET {"tab", "trailing"} /\ lines[i] \in FixLine(t.lines[i], Gone(list, i)) /\ t.lines[i] \in LineOfFile
    BY <1>1, <1>2 DEF Gone
  <2> HIDE DEF lines
  <2> QED
    BY <2>1, LineFixed
<1>4. lines \in Seq(LineOfFile) /\ Len(lines) = n /\ DOMAIN lines = 1..n
  <2>1. lines = [i \in 1..n |-> lines[i]]
    BY <1>1, <1>2
  <2> HIDE DEF lines, n
  <2> QED
    BY <1>2, <1>3, <2>1
<1>5. u \in File
  <2>1. t.python \in BOOLEAN
    BY DEF File
  <2>2. u = [python |-> t.python, parses |-> u.parses, lines |-> lines]
    BY <1>1
  <2> HIDE DEF lines
  <2> QED
    BY <1>1, <1>4, <2>1, <2>2 DEF File
<1>6. ASSUME NEW s \in CheckStyle(u), s.mark \in {"tab", "trailing"} PROVE FALSE
  <2> DEFINE i == s.line
             m == s.mark
  <2>1. /\ u.python /\ i \in 1..n /\ m \in lines[i].marks
        /\ m = "trailing" => lines[i].what # "blank"
    BY <1>4, <1>5, <1>6, TabsReported DEF Marked, Holding
  <2>2. t.python /\ m \in t.lines[i].marks /\ (m = "trailing" => t.lines[i].what # "blank")
    BY <1>1, <1>3, <1>6, <2>1
  <2>3. Styled(i, m, TRUE) \in list
    BY <1>2, <1>6, <2>1, <2>2, TabsListed DEF Marked, Holding, list
  <2>4. m \in Gone(list, i)
    BY <1>6, <2>3 DEF Styled, Gone
  <2> QED
    BY <1>3, <2>1, <2>4
<1> QED
  BY <1>5, <1>6 DEF Repaired

\* What a write that broke off leaves is a file.
LEMMA PrefixesAreFiles == \A t \in File : BrokenOff(t) \subseteq File
<1> SUFFICES ASSUME NEW t \in File, NEW u \in BrokenOff(t) PROVE u \in File
  OBVIOUS
<1>0. PICK n \in 0..Len(t.lines), p \in BOOLEAN : u = [python |-> t.python, parses |-> p, lines |-> SubSeq(t.lines, 1, n)]
  BY DEF BrokenOff
<1>1. t.lines \in Seq(LineOfFile) /\ n \in Nat /\ n <= Len(t.lines)
  BY DEF File
<1>2. SubSeq(t.lines, 1, n) \in Seq(LineOfFile)
  BY <1>1
<1> QED
  BY <1>0, <1>2 DEF File

LEMMA TextsAreFiles == Texts \subseteq File
<1>1. LineOfText \subseteq LineOfFile
  BY DEF LineOfText, LineOfFile
<1>2. \A q \in Seq(LineOfText) : q \in Seq(LineOfFile)
  BY <1>1
<1> QED
  BY <1>2, ReviewAssumption DEF File

LEMMA RepairInvInit == ReviewInit => RepairInv
<1> SUFFICES ASSUME ReviewInit PROVE RepairInv
  OBVIOUS
<1>1. text \in [Sources -> Texts] /\ styled = {}
  BY DEF ReviewInit
<1> QED
  BY <1>1, TextsAreFiles DEF RepairInv

LEMMA RepairInvNext == RepairInv /\ [ReviewNext]_reviewvars => RepairInv'
<1> SUFFICES ASSUME RepairInv, [ReviewNext]_reviewvars PROVE RepairInv'
  OBVIOUS
<1>1. CASE UNCHANGED <<text, styled>>
  BY <1>1 DEF RepairInv
<1>2. ASSUME NEW f \in Sources, NEW auto_fix \in BOOLEAN, Check(f, auto_fix) PROVE RepairInv'
  <2>1. CASE UNCHANGED <<text, styled>>
    BY <1>1, <1>2, <2>1 DEF Check
  <2>2. ASSUME NEW t \in AutoFix(text[f], CheckStyle(text[f])) PROVE t \in File /\ Repaired(t)
    BY <2>2, FixRepairs DEF RepairInv
  <2>3. ASSUME NEW t \in AutoFix(text[f], CheckStyle(text[f])),
               text' = [text EXCEPT ![f] = t], styled' = styled \cup {f}
        PROVE  RepairInv'
    BY <2>2, <2>3 DEF RepairInv
  <2>4. ASSUME NEW t \in AutoFix(text[f], CheckStyle(text[f])), NEW u \in BrokenOff(t),
               text' = [text EXCEPT ![f] = u], styled' = styled \ {f}
        PROVE  RepairInv'
    BY <2>2, <2>4, PrefixesAreFiles DEF RepairInv
  <2> QED
    BY <1>2, <2>1, <2>3, <2>4 DEF Check
<1>3. ASSUME NEW f \in Sources, NEW t \in Texts, Edit(f, t) PROVE RepairInv'
  BY <1>3, TextsAreFiles DEF Edit, RepairInv
<1>4. ASSUME NEW c \in Reviews, NEW a \in Reporters, NEW f \in Sources, Review(c, a, f) PROVE RepairInv'
  BY <1>1, <1>4 DEF Review
<1>5. ASSUME NEW c \in Reviews, GenerateRecommendations(c) \/ RecommendationsFail(c) PROVE RepairInv'
  BY <1>1, <1>5 DEF GenerateRecommendations, RecommendationsFail
<1>6. CASE UNCHANGED reviewvars
  BY <1>1, <1>6 DEF reviewvars
<1> QED
  BY <1>2, <1>3, <1>4, <1>5, <1>6 DEF ReviewNext

LEMMA RepairInvTells == RepairInv => RepairsHold
  BY DEF RepairInv, RepairsHold, Repaired

-------------------------------------------------------------------------------
(* The Linear client. *)

Made == [state : StateIds, priority : 0..4, assignee : {"a1", Nothing}, project : {"a1", Nothing}]
Call == [at : {"none", "lookup", "send", "sent", "returned", "raised"}, issue : Issues \cup {Nothing},
         status : {"todo", "in_progress"}, state : StateIds \cup {Nothing}]

LinearTyped ==
    /\ issue \in [Issues -> Made \cup {<<>>}]
    /\ state_cache \in [Statuses -> StateIds \cup {Nothing}]
    /\ created \in [Issues -> {"none", "returned", "raised"}]
    /\ update \in [Requests -> Call]

\* A call that sends a state sends one that matched, of an issue that is there; what
\* create_issue returned has all that _parse_issue asks for but a state of a known name.
LinearInv ==
    /\ CacheWasMatched
    /\ \A u \in Requests :
         /\ update[u].at \in {"send", "sent"} /\ update[u].state # Nothing =>
              <<update[u].status, update[u].state>> \in matched
         /\ update[u].at = "lookup" => update[u].state = Nothing
         /\ update[u].at = "sent" => update[u].state # Nothing
         /\ update[u].at # "none" => update[u].issue \in Issues /\ issue[update[u].issue] # <<>>
    /\ \A i \in Issues :
         /\ created[i] = "none" <=> issue[i] = <<>> /\ created[i] # "raised"
         /\ created[i] = "returned" => issue[i].assignee # Nothing /\ issue[i].project # Nothing

LEMMA LinearStarts == LinearInit => LinearTyped /\ LinearInv
<1> SUFFICES ASSUME LinearInit PROVE LinearTyped /\ LinearInv
  OBVIOUS
<1>1. LinearTyped
  BY DEF LinearInit, LinearTyped, Call, Nothing
<1>2. LinearInv
  BY DEF LinearInit, LinearInv, CacheWasMatched
<1> QED
  BY <1>1, <1>2

LEMMA MadeIsThere == \A r \in Made : r # <<>>
<1> SUFFICES ASSUME NEW r \in Made, r = <<>> PROVE FALSE
  OBVIOUS
<1>1. "state" \in DOMAIN r
  BY DEF Made
<1> QED
  BY <1>1

LEMMA PrioritiesReadBack == \A p \in Priorities : NumberToPriority(PriorityToNumber(p)) = p
  BY DEF Priorities, NumberToPriority, PriorityToNumber

LEMMA LinearSteps == LinearTyped /\ LinearInv /\ [LinearNext]_linearvars => LinearTyped' /\ LinearInv'
<1> SUFFICES ASSUME LinearTyped, LinearInv, [LinearNext]_linearvars
             PROVE  LinearTyped' /\ LinearInv'
  OBVIOUS
<1>1. ASSUME NEW i \in Issues, NEW p \in {"medium", "urgent"}, NEW a \in {"a1", Nothing},
             NEW q \in {"a1", Nothing}, CreateIssue(i, p, a, q)
      PROVE  LinearTyped' /\ LinearInv'
  <2>1. created[i] = "none" /\ UNCHANGED <<states, state_cache, update, renames, matched>>
    BY <1>1 DEF CreateIssue
  <2>2. CASE created' = [created EXCEPT ![i] = "raised"] /\ UNCHANGED issue
    BY <2>1, <2>2 DEF LinearTyped, LinearInv, CacheWasMatched
  <2>3. CASE \E s \in StateIds, answered \in BOOLEAN :
               LET new == [state |-> s, priority |-> PriorityToNumber(p), assignee |-> a, project |-> q]
               IN  /\ issue' = [issue EXCEPT ![i] = new]
                   /\ created' = [created EXCEPT ![i] =
                                    IF answered /\ ParseIssue(new) THEN "returned" ELSE "raised"]
    <3>1. PICK s \in StateIds, answered \in BOOLEAN :
                   LET new == [state |-> s, priority |-> PriorityToNumber(p), assignee |-> a, project |-> q]
                   IN  /\ issue' = [issue EXCEPT ![i] = new]
                       /\ created' = [created EXCEPT ![i] =
                                        IF answered /\ ParseIssue(new) THEN "returned" ELSE "raised"]
      BY <2>3
    <3> DEFINE new == [state |-> s, priority |-> PriorityToNumber(p), assignee |-> a, project |-> q]
    <3>2. new \in Made
      BY DEF Made, PriorityToNumber
    <3>3. new # <<>>
      BY <3>2, MadeIsThere
    <3>4. ParseIssue(new) => new.assignee # Nothing /\ new.project # Nothing
      BY DEF ParseIssue
    <3>5. /\ issue' = [issue EXCEPT ![i] = new]
          /\ \E c \in {"returned", "raised"} :
               /\ created' = [created EXCEPT ![i] = c]
               /\ c = "returned" => new.assignee # Nothing /\ new.project # Nothing
      BY <3>1, <3>4
    <3> HIDE DEF new
    <3>6. LinearTyped'
      BY <2>1, <3>2, <3>5 DEF LinearTyped
    <3>7. LinearInv'
      BY <2>1, <3>2, <3>3, <3>5 DEF LinearTyped, LinearInv, CacheWasMatched
    <3> QED
      BY <3>6, <3>7
  <2> QED
    BY <1>1, <2>2, <2>3 DEF CreateIssue
<1>2. ASSUME NEW u \in Requests, NEW i \in Issues, NEW s \in {"todo", "in_progress"}, BeginUpdate(u, i, s)
      PROVE  LinearTyped' /\ LinearInv'
  <2> DEFINE call == IF state_cache[s] # Nothing
                     THEN [at |-> "send", issue |-> i, status |-> s, state |-> state_cache[s]]
                     ELSE [at |-> "lookup", issue |-> i, status |-> s, state |-> Nothing]
  <2>1. /\ issue[i] # <<>> /\ update' = [update EXCEPT ![u] = call]
        /\ UNCHANGED <<states, issue, state_cache, created, renames, matched>>
    BY <1>2 DEF BeginUpdate
  <2>2. s \in Statuses
    BY DEF Statuses
  <2>3. /\ call \in Call /\ call.issue = i /\ call.at \in {"send", "lookup"}
        /\ call.at = "lookup" => call.state = Nothing
        /\ call.state # Nothing => <<call.status, call.state>> \in matched
    BY <2>2 DEF Call, LinearTyped, LinearInv, CacheWasMatched
  <2> HIDE DEF call
  <2> QED
    BY <2>1, <2>3 DEF LinearTyped, LinearInv, CacheWasMatched
<1>3. ASSUME NEW u \in Requests, GetStateId(u) PROVE LinearTyped' /\ LinearInv'
  <2>1. update[u].at = "lookup" /\ UNCHANGED <<states, issue, created, renames>>
    BY <1>3 DEF GetStateId
  <2>2. ASSUME NEW s \in Matching(update[u].status),
               update' = [update EXCEPT ![u].at = "send", ![u].state = s],
               state_cache' = [state_cache EXCEPT ![update[u].status] = s],
               matched' = matched \cup {<<update[u].status, s>>}
        PROVE  LinearTyped' /\ LinearInv'
    <3>1. s \in StateIds /\ update[u].status \in Statuses
      BY DEF Matching, LinearTyped, Call, Statuses
    <3>2. LinearTyped'
      BY <2>1, <2>2, <3>1, ZenonT(60) DEF LinearTyped, Call
    <3>3. LinearInv'
      BY <2>1, <2>2, <3>1, LinearAssumption DEF LinearTyped, LinearInv, CacheWasMatched, Call
    <3> QED
      BY <3>2, <3>3
  <2>3. CASE UpdateTo(u, "send") /\ UNCHANGED <<state_cache, matched>>
    <3>1. LinearTyped'
      BY <2>1, <2>3 DEF UpdateTo, LinearTyped, Call
    <3>2. LinearInv'
      BY <2>1, <2>3 DEF UpdateTo, LinearTyped, LinearInv, CacheWasMatched, Call
    <3> QED
      BY <3>1, <3>2
  <2> QED
    BY <1>3, <2>2, <2>3 DEF GetStateId
<1>4. ASSUME NEW u \in Requests, UpdateIssue(u) PROVE LinearTyped' /\ LinearInv'
  <2> DEFINE i == update[u].issue
             s == update[u].state
             moved == [issue[i] EXCEPT !.state = s]
  <2>1. /\ update[u].at = "send" /\ s \in StateIds /\ issue' = [issue EXCEPT ![i] = moved]
        /\ update' = [update EXCEPT ![u].at = "sent"]
        /\ UNCHANGED <<states, state_cache, created, renames, matched>>
    BY <1>4 DEF UpdateIssue, UpdateTo
  <2>2. i \in Issues /\ issue[i] \in Made
    BY <2>1 DEF LinearTyped, LinearInv
  <2>3. moved \in Made /\ moved.assignee = issue[i].assignee /\ moved.project = issue[i].project
    BY <2>1, <2>2 DEF Made
  <2>4. moved # <<>> /\ issue[i] # <<>> /\ s # Nothing
    BY <2>1, <2>2, <2>3, MadeIsThere, LinearAssumption
  <2> HIDE DEF moved
  <2>5. LinearTyped'
    BY <2>1, <2>3 DEF LinearTyped, Call
  <2>6. LinearInv'
    BY <2>1, <2>2, <2>3, <2>4 DEF LinearTyped, LinearInv, CacheWasMatched, Call
  <2> QED
    BY <2>5, <2>6
<1>5. ASSUME NEW u \in Requests, NEW end \in {"returned", "raised"}, UpdateTo(u, end), update[u].at \in {"send", "sent"},
             UNCHANGED <<states, issue, state_cache, created, renames, matched>>
      PROVE  LinearTyped' /\ LinearInv'
  BY <1>5 DEF UpdateTo, LinearTyped, LinearInv, CacheWasMatched, Call
<1>6. ASSUME NEW u \in Requests, UpdateReturns(u) \/ ExecuteQueryRaises(u) PROVE LinearTyped' /\ LinearInv'
  BY <1>5, <1>6 DEF UpdateReturns, ExecuteQueryRaises
<1>7. CASE UNCHANGED <<issue, state_cache, created, update, matched>>
  BY <1>7 DEF LinearTyped, LinearInv, CacheWasMatched
<1>8. ASSUME NEW s \in StateIds, NEW name \in {"in_progress", "other"}, Rename(s, name)
      PROVE  LinearTyped' /\ LinearInv'
  BY <1>7, <1>8 DEF Rename
<1>9. CASE UNCHANGED linearvars
  BY <1>7, <1>9 DEF linearvars
<1> QED
  BY <1>1, <1>2, <1>3, <1>4, <1>6, <1>8, <1>9 DEF LinearNext

LEMMA LinearTells ==
    LinearTyped /\ LinearInv => MovedWhereAsked /\ CacheWasMatched /\ CreatedReadsBack
<1> SUFFICES ASSUME LinearTyped, LinearInv PROVE MovedWhereAsked /\ CreatedReadsBack
  BY DEF LinearInv
<1>1. MovedWhereAsked
  BY DEF MovedWhereAsked, LinearInv
<1> DEFINE Named(i) == issue[i] # <<>> => states[issue[i].state].name \in Statuses
<1>2. ASSUME NEW i \in Issues, Named(i), created[i] = "returned"
      PROVE  issue[i] # <<>> /\ ParseIssue(issue[i])
  BY <1>2 DEF LinearInv, ParseIssue
<1>3. ASSUME \A i \in Issues : created[i] # "raised" /\ Named(i) PROVE ListIssuesReturns
  <2>1. ASSUME NEW i \in Issues, issue[i] # <<>> PROVE ParseIssue(issue[i])
    <3>1. created[i] = "returned"
      BY <1>3, <2>1 DEF LinearInv, LinearTyped
    <3> QED
      BY <1>2, <1>3, <3>1
  <2> QED
    BY <2>1 DEF ListIssuesReturns
<1>4. CreatedReadsBack
  BY <1>2, <1>3, PrioritiesReadBack DEF CreatedReadsBack, GetIssueReturns
<1> QED
  BY <1>1, <1>4

-------------------------------------------------------------------------------
(* Recursion over the numbers up to a bound. *)

\* A set that has 0, and with a number the next, has all natural numbers.
LEMMA NaturalsReached ==
    ASSUME NEW S, 0 \in S, \A n \in Nat : n \in S => n + 1 \in S
    PROVE  Nat \subseteq S
<1> DEFINE Missing == Nat \ S
           Below == OpToRel(<, Nat)
<1>1. Below = {ss \in Nat \X Nat : ss[1] < ss[2]}
  BY DEF OpToRel
<1>2. IsWellFoundedOn(Below, Nat)
  BY NatLessThanWellFounded
<1> HIDE DEF Below
<1>3. SUFFICES ASSUME Missing # {} PROVE FALSE
  OBVIOUS
<1>4. PICK n \in Missing : \A m \in Missing : <<m, n>> \notin Below
  BY <1>2, <1>3, WFMin, Missing \subseteq Nat
<1>5. n \in Nat /\ n # 0 /\ n - 1 \in Nat /\ n - 1 \notin S
  OBVIOUS
<1>6. <<n - 1, n>> \in Below
  BY <1>1, <1>5
<1> QED
  BY <1>4, <1>5, <1>6

\* The same up to a bound.
LEMMA BoundReached ==
    ASSUME NEW N \in Nat, NEW S, 0 \in S, \A n \in 0..(N - 1) : n \in S => n + 1 \in S
    PROVE  \A n \in 0..N : n \in S
<1> DEFINE T == {m \in Nat : m <= N => m \in S}
<1>1. 0 \in T
  OBVIOUS
<1>2. \A n \in Nat : n \in T => n + 1 \in T
  OBVIOUS
<1>3. Nat \subseteq T
  BY <1>1, <1>2, NaturalsReached
<1> QED
  BY <1>3

\* A recursive function exists.
Iteration(f, A, base, N, step) ==
    f \in [0..N -> A] /\ f[0] = base /\ \A n \in 1..N : f[n] = step[<<f[n - 1], n>>]

LEMMA Iterated ==
    ASSUME NEW A, NEW base \in A, NEW N \in Nat, NEW step \in [A \X (1..N) -> A]
    PROVE  \E f : Iteration(f, A, base, N, step)
<1> DEFINE Upto(m) == {f \in [0..m -> A] :
                          f[0] = base /\ \A n \in 1..m : f[n] = step[<<f[n - 1], n>>]}
           S == {m \in 0..N : Upto(m) # {}}
<1>1. 0 \in S
  <2>1. [i \in 0..0 |-> base] \in Upto(0)
    OBVIOUS
  <2> QED
    BY <2>1
<1>2. ASSUME NEW m \in 0..(N - 1), m \in S PROVE m + 1 \in S
  <2>1. PICK f \in [0..m -> A] : f[0] = base /\ \A n \in 1..m : f[n] = step[<<f[n - 1], n>>]
    BY <1>2
  <2> DEFINE last == step[<<f[m], m + 1>>]
             g == [i \in 0..(m + 1) |-> IF i = m + 1 THEN last ELSE f[i]]
  <2>2. last \in A
    BY <2>1
  <2>3. g \in [0..(m + 1) -> A] /\ g[0] = base
    BY <2>1, <2>2
  <2>4. ASSUME NEW n \in 1..(m + 1) PROVE g[n] = step[<<g[n - 1], n>>]
    <3>1. CASE n = m + 1
      <4>1. n - 1 = m /\ m \in 0..(m + 1) /\ n \in 0..(m + 1)
        BY <3>1
      <4>2. g[n] = last /\ g[m] = f[m]
        BY <3>1, <4>1
      <4> QED
        BY <3>1, <4>1, <4>2
    <3>2. CASE n # m + 1
      <4>1. n \in 1..m /\ n - 1 \in 0..m /\ n - 1 # m + 1
        BY <3>2
      <4> QED
        BY <2>1, <4>1
    <3> QED
      BY <3>1, <3>2
  <2>5. g \in Upto(m + 1)
    BY <2>3, <2>4
  <2>6. m + 1 \in 0..N
    OBVIOUS
  <2> HIDE DEF Upto
  <2> QED
    BY <2>5, <2>6
<1>3. N \in S
  <2> HIDE DEF S
  <2> QED
    BY <1>1, <1>2, BoundReached
<1>4. Upto(N) # {}
  BY <1>3
<1> QED
  BY <1>4 DEF Iteration

-------------------------------------------------------------------------------
(* Backlog: duplicates. *)

Scored ==
    /\ backlog \in Seq(Ticket)
    /\ scores \in [All -> [score : Int, priority : 1..4, depends : BOOLEAN,
                           effort : {<<1, "hours">>, <<2, "hours">>, <<1, "days">>, <<3, "days">>, <<1, "weeks">>}]]

GroupSets == SUBSET [primary : All, others : SUBSET All]

\* The first n tickets have led the groups they lead.
GroupsAt(groups, n) ==
    /\ groups \in GroupSets
    /\ \A g, h \in groups : g # h => ({g.primary} \cup g.others) \cap ({h.primary} \cup h.others) = {}
    /\ \A g \in groups : \A j \in g.others : g.primary < j /\ Similar(g.primary, j)
    /\ \A i \in 1..n, j \in All : i < j /\ Similar(i, j) => {i, j} \cap Processed(groups) # {}

LEMMA GroupAdded ==
    ASSUME backlog \in Seq(Ticket), NEW n \in All, NEW groups, GroupsAt(groups, n - 1)
    PROVE  GroupsAt(WithGroupOf(groups, n), n)
<1> DEFINE others == {j \in All \ Processed(groups) : j > n /\ Similar(n, j)}
           new == [primary |-> n, others |-> others]
<1>0. All = 1..Len(backlog) /\ Len(backlog) \in Nat
  BY DEF All
<1>1. CASE n \in Processed(groups) \/ others = {}
  <2>1. WithGroupOf(groups, n) = groups
    BY <1>1 DEF WithGroupOf
  <2>2. ASSUME NEW i \in 1..n, NEW j \in All, i < j, Similar(i, j)
        PROVE  {i, j} \cap Processed(groups) # {}
    <3>1. CASE i = n
      BY <1>0, <1>1, <2>2, <3>1
    <3>2. CASE i # n
      BY <1>0, <2>2, <3>2 DEF GroupsAt
    <3> QED
      BY <3>1, <3>2
  <2> QED
    BY <2>1, <2>2 DEF GroupsAt
<1>2. CASE ~(n \in Processed(groups) \/ others = {})
  <2>1. WithGroupOf(groups, n) = groups \cup {new}
    BY <1>2 DEF WithGroupOf
  <2>2. new \in [primary : All, others : SUBSET All] /\ new.primary = n /\ new.others = others
    OBVIOUS
  <2>3. {n} \cup others \subseteq All \ Processed(groups)
    BY <1>2
  <2>4. \A j \in others : n < j /\ Similar(n, j)
    BY <1>0
  <2> HIDE DEF others, new
  <2>5. Processed(groups \cup {new}) = Processed(groups) \cup {n} \cup others
    BY <2>2 DEF Processed
  <2>6. \A g \in groups : {g.primary} \cup g.others \subseteq Processed(groups)
    BY DEF Processed
  <2>7. \A g, h \in groups \cup {new} :
          g # h => ({g.primary} \cup g.others) \cap ({h.primary} \cup h.others) = {}
    BY <2>2, <2>3, <2>6 DEF GroupsAt
  <2>8. ASSUME NEW i \in 1..n, NEW j \in All, i < j, Similar(i, j)
        PROVE  {i, j} \cap Processed(groups \cup {new}) # {}
    <3>1. CASE i = n
      BY <2>5, <3>1
    <3>2. CASE i # n
      <4>1. i \in 1..(n - 1)
        BY <1>0, <3>2
      <4>2. {i, j} \cap Processed(groups) # {}
        BY <2>8, <4>1 DEF GroupsAt
      <4> QED
        BY <2>5, <4>2
    <3> QED
      BY <3>1, <3>2
  <2>9. groups \cup {new} \in GroupSets
    BY <2>2 DEF GroupsAt, GroupSets
  <2> QED
    BY <2>1, <2>2, <2>4, <2>7, <2>8, <2>9 DEF GroupsAt
<1> QED
  BY <1>1, <1>2

\* What find_duplicates returns.
LEMMA DuplicatesFound ==
    ASSUME backlog \in Seq(Ticket)
    PROVE  GroupsAt(FindDuplicates, Len(backlog))
<1> DEFINE N == Len(backlog)
           Is(f) == f = [n \in 0..N |-> IF n = 0 THEN {} ELSE WithGroupOf(f[n - 1], n)]
           grouped == CHOOSE f : Is(f)
<1>1. N \in Nat /\ All = 1..N
  BY DEF All
<1>2. \E f : Is(f)
  <2> DEFINE step == [gn \in GroupSets \X (1..N) |-> WithGroupOf(gn[1], gn[2])]
  <2>1. step \in [GroupSets \X (1..N) -> GroupSets]
    <3>1. ASSUME NEW groups \in GroupSets, NEW n \in 1..N PROVE WithGroupOf(groups, n) \in GroupSets
      BY <1>1 DEF WithGroupOf, GroupSets
    <3> QED
      BY <3>1
  <2>2. {} \in GroupSets
    BY DEF GroupSets
  <2>6. \A groups \in GroupSets, n \in 1..N : step[<<groups, n>>] = WithGroupOf(groups, n)
    OBVIOUS
  <2> HIDE DEF step, N
  <2>3. PICK f : Iteration(f, GroupSets, {}, N, step)
    BY <1>1, <2>1, <2>2, Iterated
  <2>4. f \in [0..N -> GroupSets] /\ f[0] = {} /\ \A n \in 1..N : f[n] = step[<<f[n - 1], n>>]
    BY <2>3 DEF Iteration
  <2>5. \A n \in 1..N : f[n] = WithGroupOf(f[n - 1], n)
    <3>1. ASSUME NEW n \in 1..N PROVE f[n - 1] \in GroupSets
      BY <1>1, <2>4
    <3> QED
      BY <2>4, <2>6, <3>1
  <2>7. \A n \in 0..N : f[n] = IF n = 0 THEN {} ELSE WithGroupOf(f[n - 1], n)
    BY <1>1, <2>4, <2>5
  <2> QED
    BY <2>4, <2>7
<1>3. Is(grouped)
  BY <1>2
<1>4. FindDuplicates = grouped[N]
  BY DEF FindDuplicates
<1> DEFINE S == {n \in 0..N : GroupsAt(grouped[n], n)}
<1> HIDE DEF grouped
<1>5. 0 \in S
  <2>1. grouped[0] = {}
    BY <1>1, <1>3
  <2> QED
    BY <1>1, <2>1 DEF GroupsAt, GroupSets
<1>6. ASSUME NEW n \in 0..(N - 1), n \in S PROVE n + 1 \in S
  <2>0. n + 1 \in 0..N /\ n + 1 # 0 /\ (n + 1) - 1 = n
    BY <1>1
  <2>1. grouped[n + 1] = WithGroupOf(grouped[n], n + 1)
    BY <1>3, <2>0
  <2>2. n + 1 \in All /\ (n + 1) - 1 = n /\ GroupsAt(grouped[n], n)
    BY <1>1, <1>6
  <2>3. GroupsAt(WithGroupOf(grouped[n], n + 1), n + 1)
    BY <2>2, GroupAdded
  <2> QED
    BY <1>1, <2>1, <2>2, <2>3
<1> HIDE DEF S, N
<1>7. N \in S
  <2>1. \A n \in 0..N : n \in S
    BY <1>1, <1>5, <1>6, BoundReached
  <2> QED
    BY <1>1, <2>1
<1> QED
  BY <1>4, <1>7 DEF S, N

-------------------------------------------------------------------------------
(* Backlog: epics. *)

\* A level no ticket of the group up to the n-th exceeds, and one of them has.
LevelAt(level, group, n) ==
    /\ level \in 1..4
    /\ \A i \in group : i <= n => scores[i].priority <= level
    /\ level > 1 => \E i \in group : scores[i].priority = level

\* A level after ticket n.
LevelNext(level, group, n) ==
    IF n \in group THEN Raised(level, scores[n].priority) ELSE level

LEMMA RaisedIsMax ==
    ASSUME NEW level \in 1..4, NEW priority \in 1..4
    PROVE  /\ Raised(level, priority) \in {level, priority}
           /\ Raised(level, priority) >= level /\ Raised(level, priority) >= priority
  BY DEF Raised

\* An epic is as urgent as its most urgent ticket.
LEMMA EpicLevel ==
    ASSUME Scored, NEW group \in SUBSET All, group # {}
    PROVE  /\ \E i \in group : EpicPriority(group) = scores[i].priority
           /\ \A i \in group : EpicPriority(group) >= scores[i].priority
<1> DEFINE N == Len(backlog)
           Is(f) == f = [n \in 0..N |-> IF n = 0 THEN 1 ELSE LevelNext(f[n - 1], group, n)]
           it == CHOOSE f : Is(f)
<1>1. N \in Nat /\ All = 1..N
  BY DEF Scored, All
<1>2. \E f : Is(f)
  <2> DEFINE step == [xn \in (1..4) \X (1..N) |-> LevelNext(xn[1], group, xn[2])]
  <2>1. step \in [(1..4) \X (1..N) -> (1..4)]
    <3>1. ASSUME NEW x \in (1..4), NEW n \in 1..N PROVE LevelNext(x, group, n) \in (1..4)
      <4>1. CASE n \in group
        <5>1. scores[n].priority \in 1..4
          BY <1>1 DEF Scored
        <5> QED
          BY <4>1, <5>1, RaisedIsMax DEF LevelNext
      <4>2. CASE n \notin group
        BY <4>2 DEF LevelNext
      <4> QED
        BY <4>1, <4>2
    <3> QED
      BY <3>1
  <2>2. 1 \in (1..4)
    OBVIOUS
  <2>3. \A x \in (1..4), n \in 1..N : step[<<x, n>>] = LevelNext(x, group, n)
    OBVIOUS
  <2> HIDE DEF step, N
  <2>4. PICK f : Iteration(f, (1..4), 1, N, step)
    BY <1>1, <2>1, <2>2, Iterated
  <2>5. f \in [0..N -> (1..4)] /\ f[0] = 1 /\ \A n \in 1..N : f[n] = step[<<f[n - 1], n>>]
    BY <2>4 DEF Iteration
  <2>6. \A n \in 1..N : f[n] = LevelNext(f[n - 1], group, n)
    <3>1. ASSUME NEW n \in 1..N PROVE f[n - 1] \in (1..4)
      BY <1>1, <2>5
    <3> QED
      BY <2>3, <2>5, <3>1
  <2>7. \A n \in 0..N : f[n] = IF n = 0 THEN 1 ELSE LevelNext(f[n - 1], group, n)
    BY <1>1, <2>5, <2>6
  <2> QED
    BY <2>5, <2>7
<1>3. Is(it)
  BY <1>2
<1>4. EpicPriority(group) = it[N]
  BY DEF EpicPriority, LevelNext
<1> DEFINE S == {n \in 0..N : LevelAt(it[n], group, n)}
<1> HIDE DEF it
<1>5. 0 \in S
  <2>1. it[0] = 1
    BY <1>1, <1>3
  <2> QED
    BY <1>1, <2>1 DEF LevelAt
<1>6. ASSUME NEW n \in 0..(N - 1), n \in S PROVE n + 1 \in S
  <2>1. n + 1 \in 0..N /\ n + 1 # 0 /\ (n + 1) - 1 = n /\ n + 1 \in All
    BY <1>1
  <2>2. it[n + 1] = LevelNext(it[n], group, n + 1)
    BY <1>3, <2>1
  <2>3. LevelAt(it[n], group, n)
    BY <1>6
  <2>4. LevelAt(it[n + 1], group, n + 1)
    <3>0. it[n] \in 1..4 /\ \A i \in group : i \in Int /\ scores[i].priority \in 1..4
      BY <1>1, <2>3 DEF LevelAt, Scored
    <3>1. CASE n + 1 \in group
      <4>1. it[n + 1] = Raised(it[n], scores[n + 1].priority)
        BY <2>2, <3>1 DEF LevelNext
      <4>2. /\ it[n + 1] \in {it[n], scores[n + 1].priority}
            /\ it[n + 1] >= it[n] /\ it[n + 1] >= scores[n + 1].priority
        BY <3>0, <3>1, <4>1, RaisedIsMax
      <4>3. \A i \in group : i <= n + 1 => i <= n \/ i = n + 1
        BY <3>0
      <4> QED
        BY <2>3, <3>0, <3>1, <4>2, <4>3 DEF LevelAt
    <3>2. CASE n + 1 \notin group
      <4>1. \A i \in group : i <= n + 1 => i <= n
        BY <3>0, <3>2
      <4> QED
        BY <2>2, <2>3, <3>2, <4>1 DEF LevelAt, LevelNext
    <3> QED
      BY <3>1, <3>2
  <2> QED
    BY <2>1, <2>4
<1> HIDE DEF S, N
<1>7. N \in S
  <2>1. \A n \in 0..N : n \in S
    BY <1>1, <1>5, <1>6, BoundReached
  <2> QED
    BY <1>1, <2>1
<1>8. LevelAt(EpicPriority(group), group, Len(backlog))
  BY <1>4, <1>7 DEF S, N
<1>9. \A i \in group : i <= N /\ scores[i].priority \in 1..4
  BY <1>1 DEF Scored
<1> QED
  BY <1>8, <1>9 DEF LevelAt, N

-------------------------------------------------------------------------------
(* Backlog: points of a set of tickets. *)

\* The points of the first n tickets are counted.
CountNext(total, ids, n) == total + (IF n \in ids THEN Points(n) ELSE 0)

\* The partial sums of PointsOf.
SumsTo(total, ids) ==
    /\ total \in [0..Len(backlog) -> Nat] /\ total[0] = 0
    /\ \A n \in 1..Len(backlog) : total[n] = CountNext(total[n - 1], ids, n)

LEMMA PointsAreNat == ASSUME Scored, NEW i \in All PROVE Points(i) \in Nat
<1>1. scores[i].effort \in {<<1, "hours">>, <<2, "hours">>, <<1, "days">>, <<3, "days">>, <<1, "weeks">>}
  BY DEF Scored
<1> QED
  BY <1>1 DEF Points, EffortToPoints

LEMMA PointsSummed ==
    ASSUME Scored, NEW ids
    PROVE  \E total : SumsTo(total, ids) /\ PointsOf(ids) = total[Len(backlog)]
<1> DEFINE N == Len(backlog)
           Is(f) == f = [n \in 0..N |-> IF n = 0 THEN 0 ELSE CountNext(f[n - 1], ids, n)]
           it == CHOOSE f : Is(f)
<1>1. N \in Nat /\ All = 1..N
  BY DEF Scored, All
<1>2. \E f : Is(f)
  <2> DEFINE step == [xn \in Nat \X (1..N) |-> CountNext(xn[1], ids, xn[2])]
  <2>1. step \in [Nat \X (1..N) -> Nat]
    <3>1. ASSUME NEW x \in Nat, NEW n \in 1..N PROVE CountNext(x, ids, n) \in Nat
      BY <1>1, PointsAreNat DEF CountNext
    <3> QED
      BY <3>1
  <2>2. 0 \in Nat
    OBVIOUS
  <2>3. \A x \in Nat, n \in 1..N : step[<<x, n>>] = CountNext(x, ids, n)
    OBVIOUS
  <2> HIDE DEF step, N
  <2>4. PICK f : Iteration(f, Nat, 0, N, step)
    BY <1>1, <2>1, <2>2, Iterated
  <2>5. f \in [0..N -> Nat] /\ f[0] = 0 /\ \A n \in 1..N : f[n] = step[<<f[n - 1], n>>]
    BY <2>4 DEF Iteration
  <2>6. \A n \in 1..N : f[n] = CountNext(f[n - 1], ids, n)
    <3>1. ASSUME NEW n \in 1..N PROVE f[n - 1] \in Nat
      BY <1>1, <2>5
    <3> QED
      BY <2>3, <2>5, <3>1
  <2>7. \A n \in 0..N : f[n] = IF n = 0 THEN 0 ELSE CountNext(f[n - 1], ids, n)
    BY <1>1, <2>5, <2>6
  <2> QED
    <3>1. f = [n \in 0..N |-> f[n]]
      BY <2>5
    <3>2. f = [n \in 0..N |-> IF n = 0 THEN 0 ELSE CountNext(f[n - 1], ids, n)]
      BY <2>7, <3>1
    <3> QED
      BY <3>2
<1>3. Is(it)
  BY <1>2
<1>4. PointsOf(ids) = it[N]
  BY DEF PointsOf, CountNext
<1> DEFINE S == {n \in 0..N : it[n] \in Nat}
<1> HIDE DEF it
<1>5. 0 \in S
  <2>1. it[0] = 0
    BY <1>1, <1>3
  <2> QED
    BY <1>1, <2>1
<1>6. ASSUME NEW n \in 0..(N - 1), n \in S PROVE n + 1 \in S
  <2>1. n + 1 \in 0..N /\ n + 1 # 0 /\ (n + 1) - 1 = n /\ n + 1 \in All
    BY <1>1
  <2>2. it[n + 1] = CountNext(it[n], ids, n + 1)
    BY <1>3, <2>1
  <2>3. it[n] \in Nat
    BY <1>6
  <2>4. it[n + 1] \in Nat
    BY <2>1, <2>2, <2>3, PointsAreNat DEF CountNext
  <2> QED
    BY <2>1, <2>4
<1>7. \A n \in 0..N : it[n] \in Nat
  <2>1. \A n \in 0..N : n \in S
    <3> HIDE DEF S, N
    <3> QED
      BY <1>1, <1>5, <1>6, BoundReached
  <2> QED
    BY <2>1
<1>8. it \in [0..N -> Nat] /\ it[0] = 0 /\ \A n \in 1..N : it[n] = CountNext(it[n - 1], ids, n)
  <2>1. it \in [0..N -> Nat]
    BY <1>3, <1>7
  <2>2. it[0] = 0
    BY <1>1, <1>3
  <2>3. ASSUME NEW n \in 1..N PROVE it[n] = CountNext(it[n - 1], ids, n)
    <3>1. n \in 0..N /\ n # 0
      BY <1>1
    <3> QED
      BY <1>3, <3>1
  <2> QED
    BY <2>1, <2>2, <2>3
<1> QED
  BY <1>4, <1>8 DEF SumsTo

\* No points without tickets.
LEMMA NoPoints == ASSUME Scored PROVE PointsOf({}) = 0
<1> DEFINE N == Len(backlog)
<1>1. N \in Nat
  BY DEF Scored
<1>2. PICK total : SumsTo(total, {}) /\ PointsOf({}) = total[N]
  BY PointsSummed
<1> DEFINE S == {n \in 0..N : total[n] = 0}
<1>3. 0 \in S
  BY <1>1, <1>2 DEF SumsTo
<1>4. ASSUME NEW n \in 0..(N - 1), n \in S PROVE n + 1 \in S
  <2>1. n + 1 \in 1..N /\ n + 1 \in 0..N /\ (n + 1) - 1 = n /\ total[n] = 0
    BY <1>1, <1>4
  <2>2. total[n + 1] = CountNext(total[n], {}, n + 1)
    BY <1>2, <2>1 DEF SumsTo
  <2> QED
    BY <2>1, <2>2 DEF CountNext
<1>5. \A n \in 0..N : n \in S
  <2> HIDE DEF S, N
  <2> QED
    BY <1>1, <1>3, <1>4, BoundReached
<1> QED
  BY <1>1, <1>2, <1>5

\* A further ticket adds its points.
LEMMA PointsAdded ==
    ASSUME Scored, NEW ids, NEW i \in All \ ids
    PROVE  PointsOf(ids \cup {i}) = PointsOf(ids) + Points(i)
<1> DEFINE N == Len(backlog)
<1>1. N \in Nat /\ All = 1..N
  BY DEF Scored, All
<1>2. PICK few : SumsTo(few, ids) /\ PointsOf(ids) = few[N]
  BY PointsSummed
<1>3. PICK more : SumsTo(more, ids \cup {i}) /\ PointsOf(ids \cup {i}) = more[N]
  BY PointsSummed
<1> DEFINE S == {n \in 0..N : more[n] = IF n < i THEN few[n] ELSE few[n] + Points(i)}
<1>4. 0 \in S
  BY <1>1, <1>2, <1>3 DEF SumsTo
<1>5. ASSUME NEW n \in 0..(N - 1), n \in S PROVE n + 1 \in S
  <2>1. n + 1 \in 1..N /\ n + 1 \in 0..N /\ (n + 1) - 1 = n
    BY <1>1
  <2>2. /\ few[n + 1] = few[n] + (IF n + 1 \in ids THEN Points(n + 1) ELSE 0)
        /\ more[n + 1] = more[n] + (IF n + 1 \in ids \cup {i} THEN Points(n + 1) ELSE 0)
    BY <1>2, <1>3, <2>1 DEF SumsTo, CountNext
  <2>3. more[n] = IF n < i THEN few[n] ELSE few[n] + Points(i)
    BY <1>5
  <2>4. few[n] \in Nat /\ Points(i) \in Nat /\ Points(n + 1) \in Nat /\ i \in Nat
    BY <1>1, <1>2, <2>1, PointsAreNat DEF SumsTo
  <2> HIDE DEF S
  <2>5. more[n + 1] = IF n + 1 < i THEN few[n + 1] ELSE few[n + 1] + Points(i)
    <3>1. CASE n + 1 = i
      BY <2>2, <2>3, <2>4, <3>1
    <3>2. CASE n + 1 # i
      <4>1. n < i <=> n + 1 < i
        BY <2>4, <3>2
      <4> QED
        BY <2>2, <2>3, <2>4, <3>2, <4>1
    <3> QED
      BY <3>1, <3>2
  <2> QED
    BY <2>1, <2>5 DEF S
<1>6. N \in S
  <2>1. \A n \in 0..N : n \in S
    <3> HIDE DEF S, N
    <3> QED
      BY <1>1, <1>4, <1>5, BoundReached
  <2> QED
    BY <1>1, <2>1
<1> QED
  BY <1>1, <1>2, <1>3, <1>6

\* Fewer tickets have no more points.
LEMMA PointsGrow ==
    ASSUME Scored, NEW ids, NEW wider, ids \subseteq wider
    PROVE  /\ PointsOf(ids) \in Nat /\ PointsOf(wider) \in Nat
           /\ PointsOf(ids) <= PointsOf(wider)
<1> DEFINE N == Len(backlog)
<1>1. N \in Nat /\ All = 1..N
  BY DEF Scored, All
<1>2. PICK few : SumsTo(few, ids) /\ PointsOf(ids) = few[N]
  BY PointsSummed
<1>3. PICK more : SumsTo(more, wider) /\ PointsOf(wider) = more[N]
  BY PointsSummed
<1> DEFINE S == {n \in 0..N : few[n] <= more[n]}
<1>4. 0 \in S
  BY <1>1, <1>2, <1>3 DEF SumsTo
<1>5. ASSUME NEW n \in 0..(N - 1), n \in S PROVE n + 1 \in S
  <2>1. n + 1 \in 1..N /\ n + 1 \in 0..N /\ (n + 1) - 1 = n
    BY <1>1
  <2>2. /\ few[n + 1] = few[n] + (IF n + 1 \in ids THEN Points(n + 1) ELSE 0)
        /\ more[n + 1] = more[n] + (IF n + 1 \in wider THEN Points(n + 1) ELSE 0)
    BY <1>2, <1>3, <2>1 DEF SumsTo, CountNext
  <2>3. few[n] \in Nat /\ more[n] \in Nat /\ Points(n + 1) \in Nat /\ few[n] <= more[n]
    BY <1>1, <1>2, <1>3, <1>5, <2>1, PointsAreNat DEF SumsTo
  <2>4. n + 1 \in ids => n + 1 \in wider
    OBVIOUS
  <2> HIDE DEF S
  <2>5. few[n + 1] <= more[n + 1]
    BY <2>2, <2>3, <2>4
  <2> QED
    BY <2>1, <2>5 DEF S
<1>6. N \in S
  <2>1. \A n \in 0..N : n \in S
    <3> HIDE DEF S, N
    <3> QED
      BY <1>1, <1>4, <1>5, BoundReached
  <2> QED
    BY <1>1, <2>1
<1> QED
  BY <1>1, <1>2, <1>3, <1>6 DEF SumsTo

-------------------------------------------------------------------------------
(* Backlog: the order of the scores. *)

\* How many tickets come before ticket i.
RankOf(i) == Cardinality({j \in All : Before(j, i)})

LEMMA BeforeIsOrder ==
    ASSUME Scored
    PROVE  /\ \A i \in All : ~Before(i, i)
           /\ \A i, j \in All : i = j \/ Before(i, j) \/ Before(j, i)
           /\ \A i, j, k \in All : Before(i, j) /\ Before(j, k) => Before(i, k)
<1>1. \A i \in All : i \in Int /\ scores[i].score \in Int
  BY DEF Scored, All
<1> QED
  BY <1>1 DEF Before

\* The later a ticket, the more come before it.
LEMMA RanksGrow ==
    ASSUME Scored, NEW i \in All, NEW j \in All, Before(i, j)
    PROVE  RankOf(i) < RankOf(j)
<1> DEFINE A == {k \in All : Before(k, i)}
           B == {k \in All : Before(k, j)}
<1>1. IsFiniteSet(B)
  <2>1. IsFiniteSet(1..Len(backlog)) /\ All = 1..Len(backlog)
    BY FS_Interval DEF Scored, All
  <2> QED
    BY <2>1, FS_Subset
<1>2. A \subseteq B /\ i \in B /\ i \notin A
  BY BeforeIsOrder
<1>3. Cardinality(A) <= Cardinality(B) /\ Cardinality(A) # Cardinality(B)
  <2> HIDE DEF A, B
  <2> QED
    BY <1>1, <1>2, FS_Subset
<1>4. Cardinality(A) \in Nat /\ Cardinality(B) \in Nat
  <2> HIDE DEF A, B
  <2> QED
    BY <1>1, <1>2, FS_Subset, FS_CardinalityType
<1> QED
  BY <1>3, <1>4 DEF RankOf

LEMMA RanksInside ==
    ASSUME Scored, NEW i \in All
    PROVE  RankOf(i) \in 0..(Len(backlog) - 1)
<1> DEFINE A == {k \in All : Before(k, i)}
           N == Len(backlog)
<1>1. N \in Nat /\ All = 1..N
  BY DEF Scored, All
<1>2. IsFiniteSet(All) /\ Cardinality(All) = N
  <2> HIDE DEF N
  <2>1. IsFiniteSet(1..N) /\ Cardinality(1..N) = IF 1 > N THEN 0 ELSE N - 1 + 1
    BY <1>1, FS_Interval
  <2> QED
    BY <1>1, <2>1
<1>3. A \subseteq All /\ i \notin A
  BY BeforeIsOrder
<1>4. IsFiniteSet(A) /\ Cardinality(A) <= N /\ Cardinality(A) # N
  <2> HIDE DEF A, N
  <2> QED
    BY <1>2, <1>3, FS_Subset
<1>5. Cardinality(A) \in Nat
  BY <1>4, FS_CardinalityType
<1> QED
  <2> HIDE DEF A
  <2>1. Cardinality(A) \in 0..(N - 1)
    BY <1>1, <1>4, <1>5
  <2> QED
    BY <2>1 DEF RankOf, A

\* ByScore has each ticket once, behind those that come before it.
LEMMA Sorted ==
    ASSUME Scored
    PROVE  /\ \A n \in All : ByScore[n] \in All
           /\ \A m, n \in All : m < n => Before(ByScore[m], ByScore[n]) /\ ByScore[m] # ByScore[n]
           /\ \A i \in All : \E n \in All : ByScore[n] = i
<1> DEFINE N == Len(backlog)
           rank == [i \in 1..N |-> RankOf(i) + 1]
<1>1. N \in Nat /\ All = 1..N
  BY DEF Scored, All
<1>2. \A i \in All : RankOf(i) \in 0..(N - 1)
  BY RanksInside
<1>3. \A i, j \in All : RankOf(i) = RankOf(j) => i = j
  <2>1. \A i, j \in All : Before(i, j) => RankOf(i) < RankOf(j)
    BY RanksGrow
  <2> QED
    BY <1>1, <1>2, <2>1, BeforeIsOrder
<1>4. rank \in Injection(1..N, 1..N)
  <2> HIDE DEF N
  <2>1. rank \in [1..N -> 1..N]
    BY <1>1, <1>2
  <2>2. \A i, j \in 1..N : rank[i] = rank[j] => i = j
    BY <1>1, <1>2, <1>3
  <2> QED
    BY <2>1, <2>2 DEF Injection, IsInjective
<1>5. rank \in Surjection(1..N, 1..N)
  <2> HIDE DEF N, rank
  <2>1. IsFiniteSet(1..N)
    BY <1>1, FS_Interval
  <2> QED
    BY <1>4, <2>1, FS_Injection
<1>6. \A n \in All : \E i \in All : RankOf(i) = n - 1
  <2>1. ASSUME NEW n \in 1..N PROVE \E i \in 1..N : RankOf(i) = n - 1
    <3>1. PICK i \in 1..N : rank[i] = n
      BY <1>5 DEF Surjection
    <3>2. RankOf(i) + 1 = n /\ RankOf(i) \in Int
      BY <1>1, <1>2, <3>1
    <3> QED
      BY <3>2
  <2> QED
    BY <1>1, <2>1
<1>7. \A n \in All : ByScore[n] \in All /\ RankOf(ByScore[n]) = n - 1
  <2>1. ASSUME NEW n \in All PROVE ByScore[n] = CHOOSE i \in All : RankOf(i) = n - 1
    BY DEF ByScore, RankOf
  <2> QED
    BY <1>6, <2>1
<1>8. ASSUME NEW m \in All, NEW n \in All, m < n
      PROVE  Before(ByScore[m], ByScore[n]) /\ ByScore[m] # ByScore[n]
  <2> DEFINE a == ByScore[m]
             b == ByScore[n]
  <2>1. a \in All /\ b \in All /\ RankOf(a) = m - 1 /\ RankOf(b) = n - 1 /\ m \in Int /\ n \in Int
    BY <1>1, <1>7
  <2> HIDE DEF a, b
  <2>2. a # b
    BY <1>8, <2>1
  <2>3. ~Before(b, a)
    <3>1. ~(RankOf(b) < RankOf(a))
      BY <1>8, <2>1
    <3> QED
      BY <2>1, <3>1, RanksGrow
  <2>4. Before(a, b)
    BY <2>1, <2>2, <2>3, BeforeIsOrder
  <2> QED
    BY <2>2, <2>4 DEF a, b
<1>9. ASSUME NEW i \in All PROVE \E n \in All : ByScore[n] = i
  <2>1. RankOf(i) + 1 \in All /\ (RankOf(i) + 1) - 1 = RankOf(i)
    BY <1>1, <1>2
  <2>2. ByScore[RankOf(i) + 1] = i
    BY <1>3, <1>7, <2>1
  <2> QED
    BY <2>1, <2>2
<1> QED
  BY <1>7, <1>8, <1>9

-------------------------------------------------------------------------------
(* Backlog: sprints. *)

SprintSets == [ids : SUBSET All, points : Nat]

\* A sprint filled from the first n of the sorted tickets: what it left of them out did
\* not fit beside those it had by then.
FilledFrom(sprint, taken, n) ==
    /\ sprint \in SprintSets
    /\ sprint.ids \cap taken = {}
    /\ \A i \in sprint.ids : \E m \in 1..n : i = ByScore[m]
    /\ sprint.points = PointsOf(sprint.ids) /\ sprint.points <= Capacity
    /\ \A m \in 1..n : ByScore[m] \notin taken \cup sprint.ids =>
         PointsOf({j \in sprint.ids : Before(j, ByScore[m])}) + Points(ByScore[m]) > Capacity

LEMMA OneConsidered ==
    ASSUME Scored, NEW taken, NEW n \in All, NEW sprint, FilledFrom(sprint, taken, n - 1)
    PROVE  FilledFrom(Considered(sprint, taken, ByScore[n]), taken, n)
<1> DEFINE b == ByScore[n]
           next == Considered(sprint, taken, b)
<1>1. /\ sprint \in SprintSets /\ sprint.ids \cap taken = {}
      /\ \A i \in sprint.ids : \E m \in 1..(n - 1) : i = ByScore[m]
      /\ sprint.points = PointsOf(sprint.ids) /\ sprint.points <= Capacity
      /\ \A m \in 1..(n - 1) : ByScore[m] \notin taken \cup sprint.ids =>
           PointsOf({j \in sprint.ids : Before(j, ByScore[m])}) + Points(ByScore[m]) > Capacity
  BY Zenon DEF FilledFrom
<1>2. All = 1..Len(backlog) /\ Len(backlog) \in Nat /\ 1..n \subseteq All /\ n \in Nat
  BY DEF Scored, All
<1>3. b \in All /\ Points(b) \in Nat /\ Capacity \in Nat
  BY PointsAreNat, Sorted, BacklogAssumption
<1>4. \A i \in sprint.ids : Before(i, b) /\ i # b
  <2>1. ASSUME NEW i \in sprint.ids PROVE Before(i, b) /\ i # b
    <3>1. PICK m \in 1..(n - 1) : i = ByScore[m]
      BY <1>1
    <3>2. m \in All /\ m < n
      BY <1>2
    <3> QED
      BY <3>1, <3>2, Sorted
  <2> QED
    BY <2>1
<1>5. CASE b \notin taken /\ Fits(sprint.points, Points(b))
  <2>1. next = [ids |-> sprint.ids \cup {b}, points |-> sprint.points + Points(b)]
    BY <1>5 DEF Considered
  <2> HIDE DEF next, b
  <2>2. next \in SprintSets /\ next.ids = sprint.ids \cup {b} /\ next.points = sprint.points + Points(b)
    BY <1>1, <1>3, <2>1 DEF SprintSets
  <2>3. next.ids \cap taken = {}
    BY <1>1, <1>5, <2>2
  <2>4. \A i \in next.ids : \E m \in 1..n : i = ByScore[m]
    <3>1. n \in 1..n /\ 1..(n - 1) \subseteq 1..n
      BY <1>2
    <3>2. ByScore[n] = b
      BY DEF b
    <3> QED
      BY <1>1, <2>2, <3>1, <3>2
  <2>5. next.points = PointsOf(next.ids) /\ next.points <= Capacity
    <3>1. b \in All \ sprint.ids
      BY <1>3, <1>4
    <3>2. PointsOf(sprint.ids \cup {b}) = PointsOf(sprint.ids) + Points(b)
      BY <3>1, PointsAdded
    <3>3. sprint.points + Points(b) <= Capacity
      BY <1>5 DEF Fits
    <3> QED
      BY <1>1, <2>2, <3>2, <3>3
  <2>6. ASSUME NEW m \in 1..n, ByScore[m] \notin taken \cup next.ids
        PROVE  PointsOf({j \in next.ids : Before(j, ByScore[m])}) + Points(ByScore[m]) > Capacity
    <3> DEFINE c == ByScore[m]
               few == {j \in sprint.ids : Before(j, c)}
               more == {j \in next.ids : Before(j, c)}
    <3>1. m # n
      BY <2>2, <2>6 DEF b
    <3>2. m \in 1..(n - 1) /\ m \in All
      BY <1>2, <3>1
    <3>3. PointsOf(few) + Points(c) > Capacity
      BY <1>1, <2>2, <2>6, <3>2
    <3>4. few \subseteq more
      BY <2>2
    <3>5. c \in All
      BY <3>2, Sorted
    <3> HIDE DEF few, more, c
    <3>6. PointsOf(few) <= PointsOf(more) /\ PointsOf(few) \in Nat /\ PointsOf(more) \in Nat
      BY <3>4, PointsGrow
    <3>7. Points(c) \in Nat
      BY <3>5, PointsAreNat
    <3>8. PointsOf(more) + Points(c) > Capacity
      BY <1>3, <3>3, <3>6, <3>7
    <3> QED
      BY <3>8 DEF more, c
  <2>7. FilledFrom(next, taken, n)
    BY <2>2, <2>3, <2>4, <2>5, <2>6 DEF FilledFrom
  <2> QED
    BY <2>7 DEF next, b
<1>6. CASE ~(b \notin taken /\ Fits(sprint.points, Points(b)))
  <2>1. next = sprint
    BY <1>6 DEF Considered
  <2> HIDE DEF next
  <2>2. \A i \in sprint.ids : \E m \in 1..n : i = ByScore[m]
    BY <1>1, <1>2
  <2>3. ASSUME NEW m \in 1..n, ByScore[m] \notin taken \cup sprint.ids
        PROVE  PointsOf({j \in sprint.ids : Before(j, ByScore[m])}) + Points(ByScore[m]) > Capacity
    <3>1. CASE m = n
      <4>1. {j \in sprint.ids : Before(j, b)} = sprint.ids
        BY <1>4
      <4>2. ~(sprint.points + Points(b) <= Capacity)
        BY <1>6, <2>3, <3>1 DEF Fits
      <4>3. sprint.points \in Nat
        BY <1>1 DEF SprintSets
      <4>4. PointsOf({j \in sprint.ids : Before(j, b)}) + Points(b) > Capacity
        <5> HIDE DEF b
        <5> QED
          BY <1>1, <1>3, <4>1, <4>2, <4>3
      <4> QED
        BY <3>1, <4>4
    <3>2. CASE m # n
      <4>1. m \in 1..(n - 1)
        BY <1>2, <3>2
      <4> QED
        BY <1>1, <2>3, <4>1
    <3> QED
      BY <3>1, <3>2
  <2>4. FilledFrom(sprint, taken, n)
    BY <1>1, <2>2, <2>3 DEF FilledFrom
  <2> QED
    BY <2>1, <2>4 DEF next
<1> QED
  BY <1>5, <1>6

LEMMA SprintFilled ==
    ASSUME Scored, NEW taken
    PROVE  FilledFrom(FillSprint(taken), taken, Len(backlog))
<1> DEFINE N == Len(backlog)
           Is(f) == f = [n \in 0..N |-> IF n = 0 THEN [ids |-> {}, points |-> 0] ELSE Considered(f[n - 1], taken, ByScore[n])]
           it == CHOOSE f : Is(f)
<1>1. N \in Nat /\ All = 1..N
  BY DEF Scored, All
<1>2. \E f : Is(f)
  <2> DEFINE step == [xn \in SprintSets \X (1..N) |-> Considered(xn[1], taken, ByScore[xn[2]])]
  <2>1. step \in [SprintSets \X (1..N) -> SprintSets]
    <3>1. ASSUME NEW x \in SprintSets, NEW n \in 1..N PROVE Considered(x, taken, ByScore[n]) \in SprintSets
      <4>1. ByScore[n] \in All /\ Points(ByScore[n]) \in Nat
        BY <1>1, Sorted, PointsAreNat
      <4> HIDE DEF N
      <4> QED
        BY <4>1 DEF Considered, SprintSets
    <3> QED
      BY <3>1
  <2>2. [ids |-> {}, points |-> 0] \in SprintSets
    BY DEF SprintSets
  <2>3. \A x \in SprintSets, n \in 1..N : step[<<x, n>>] = Considered(x, taken, ByScore[n])
    OBVIOUS
  <2> HIDE DEF step, N
  <2>4. PICK f : Iteration(f, SprintSets, [ids |-> {}, points |-> 0], N, step)
    BY <1>1, <2>1, <2>2, Iterated
  <2>5. f \in [0..N -> SprintSets] /\ f[0] = [ids |-> {}, points |-> 0] /\ \A n \in 1..N : f[n] = step[<<f[n - 1], n>>]
    BY <2>4 DEF Iteration
  <2>6. \A n \in 1..N : f[n] = Considered(f[n - 1], taken, ByScore[n])
    <3>1. ASSUME NEW n \in 1..N PROVE f[n - 1] \in SprintSets
      BY <1>1, <2>5
    <3> QED
      BY <2>3, <2>5, <3>1
  <2>7. \A n \in 0..N : f[n] = IF n = 0 THEN [ids |-> {}, points |-> 0] ELSE Considered(f[n - 1], taken, ByScore[n])
    BY <1>1, <2>5, <2>6
  <2> QED
    <3>1. f = [n \in 0..N |-> f[n]]
      BY <2>5
    <3>2. f = [n \in 0..N |-> IF n = 0 THEN [ids |-> {}, points |-> 0] ELSE Considered(f[n - 1], taken, ByScore[n])]
      BY <2>7, <3>1
    <3> QED
      BY <3>2
<1>3. Is(it)
  BY <1>2
<1>4. FillSprint(taken) = it[N]
  BY DEF FillSprint
<1> DEFINE S == {n \in 0..N : FilledFrom(it[n], taken, n)}
<1> HIDE DEF it
<1>5. 0 \in S
  <2>1. it[0] = [ids |-> {}, points |-> 0]
    BY <1>1, <1>3
  <2> QED
    <3>1. [ids |-> {}, points |-> 0] \in SprintSets /\ Capacity \in Nat
      BY BacklogAssumption DEF SprintSets
    <3>2. FilledFrom([ids |-> {}, points |-> 0], taken, 0)
      BY <3>1, NoPoints DEF FilledFrom
    <3> QED
      BY <1>1, <2>1, <3>2
<1>6. ASSUME NEW n \in 0..(N - 1), n \in S PROVE n + 1 \in S
  <2>1. n + 1 \in 0..N /\ n + 1 # 0 /\ (n + 1) - 1 = n /\ n + 1 \in All
    BY <1>1
  <2>2. it[n + 1] = Considered(it[n], taken, ByScore[n + 1])
    BY <1>3, <2>1
  <2>3. FilledFrom(it[n], taken, n)
    BY <1>6
  <2>4. FilledFrom(it[n + 1], taken, n + 1)
    BY <2>1, <2>2, <2>3, OneConsidered
  <2> QED
    BY <2>1, <2>4
<1> HIDE DEF S, N
<1>7. N \in S
  <2>1. \A n \in 0..N : n \in S
    BY <1>1, <1>5, <1>6, BoundReached
  <2> QED
    BY <1>1, <2>1
<1>8. FilledFrom(FillSprint(taken), taken, Len(backlog))
  BY <1>4, <1>7 DEF S, N
<1> QED
  BY <1>8

-------------------------------------------------------------------------------
(* Backlog: planning. *)

\* SprintsAreGreedy, of any list of sprints.
Greedy(sprints) ==
    /\ sprints \in Seq(SprintSets)
    /\ \A k \in 1..Len(sprints) :
         /\ sprints[k].points = PointsOf(sprints[k].ids) /\ sprints[k].points <= Capacity
         /\ \A other \in 1..(k - 1) : sprints[other].ids \cap sprints[k].ids = {}
         /\ \A i \in All \ Planned(sprints) :
              PointsOf({j \in sprints[k].ids : scores[j].score >= scores[i].score}) + Points(i) > Capacity

\* What a full sprint left out fits beside none of its tickets of higher scores.
LEMMA LeftOut ==
    ASSUME Scored, NEW taken, NEW sprint, FilledFrom(sprint, taken, Len(backlog)),
           NEW i \in All, i \notin taken \cup sprint.ids
    PROVE  PointsOf({j \in sprint.ids : scores[j].score >= scores[i].score}) + Points(i) > Capacity
<1> DEFINE few == {j \in sprint.ids : Before(j, i)}
           more == {j \in sprint.ids : scores[j].score >= scores[i].score}
<1>1. PICK m \in All : ByScore[m] = i
  BY Sorted
<1>2. m \in 1..Len(backlog)
  BY DEF Scored, All
<1>3. PointsOf(few) + Points(i) > Capacity
  BY <1>1, <1>2 DEF FilledFrom
<1>4. few \subseteq more
  <2>1. sprint.ids \subseteq All
    BY DEF FilledFrom, SprintSets
  <2>2. \A j \in All : scores[j].score \in Int
    BY DEF Scored
  <2> QED
    BY <2>1, <2>2 DEF Before
<1>5. Points(i) \in Nat /\ Capacity \in Nat
  BY PointsAreNat, BacklogAssumption
<1> HIDE DEF few, more
<1>6. PointsOf(few) <= PointsOf(more) /\ PointsOf(few) \in Nat /\ PointsOf(more) \in Nat
  BY <1>4, PointsGrow
<1>7. PointsOf(more) + Points(i) > Capacity
  BY <1>3, <1>5, <1>6
<1> QED
  BY <1>7 DEF more

LEMMA SprintAdded ==
    ASSUME Scored, NEW sprints, Greedy(sprints)
    PROVE  Greedy(WithNextSprint(sprints))
<1> DEFINE taken == Planned(sprints)
           sprint == FillSprint(taken)
           longer == Append(sprints, sprint)
           n == Len(sprints)
<1>1. CASE sprint.ids = {}
  BY <1>1 DEF WithNextSprint
<1>2. CASE sprint.ids # {}
  <2>1. WithNextSprint(sprints) = longer
    BY <1>2 DEF WithNextSprint
  <2>2. FilledFrom(sprint, taken, Len(backlog))
    BY SprintFilled
  <2>3. sprints \in Seq(SprintSets) /\ n \in Nat
    BY DEF Greedy
  <2>4. sprint \in SprintSets /\ sprint.ids \cap taken = {} /\ sprint.points = PointsOf(sprint.ids)
        /\ sprint.points <= Capacity
    BY <2>2 DEF FilledFrom
  <2> HIDE DEF sprint
  <2>5. /\ longer \in Seq(SprintSets) /\ Len(longer) = n + 1 /\ longer[n + 1] = sprint
        /\ \A k \in 1..n : longer[k] = sprints[k]
    BY <2>3, <2>4
  <2> HIDE DEF longer
  <2>6. Planned(longer) = taken \cup sprint.ids
    <3>1. \A k \in DOMAIN longer : k = n + 1 \/ k \in DOMAIN sprints
      BY <2>3, <2>5
    <3>2. n + 1 \in DOMAIN longer /\ \A k \in DOMAIN sprints : k \in DOMAIN longer /\ longer[k] = sprints[k]
      BY <2>3, <2>5
    <3> QED
      BY <2>5, <3>1, <3>2 DEF Planned
  <2>7. \A k \in 1..n : sprints[k].ids \subseteq taken
    BY <2>3 DEF Planned
  <2>8. ASSUME NEW k \in 1..(n + 1)
        PROVE  /\ longer[k].points = PointsOf(longer[k].ids) /\ longer[k].points <= Capacity
               /\ \A other \in 1..(k - 1) : longer[other].ids \cap longer[k].ids = {}
               /\ \A i \in All \ Planned(longer) :
                    PointsOf({j \in longer[k].ids : scores[j].score >= scores[i].score}) + Points(i) > Capacity
    <3>1. CASE k = n + 1
      <4>1. \A other \in 1..(k - 1) : longer[other].ids \cap sprint.ids = {}
        BY <2>3, <2>4, <2>5, <2>7, <3>1
      <4>2. ASSUME NEW i \in All \ Planned(longer)
            PROVE  PointsOf({j \in sprint.ids : scores[j].score >= scores[i].score}) + Points(i) > Capacity
        <5>1. i \in All /\ i \notin taken \cup sprint.ids
          BY <2>6
        <5> HIDE DEF taken
        <5> QED
          BY <2>2, <5>1, LeftOut
      <4> QED
        BY <2>4, <2>5, <3>1, <4>1, <4>2
    <3>2. CASE k # n + 1
      <4>1. k \in 1..n /\ longer[k] = sprints[k]
        BY <2>3, <2>5, <3>2
      <4>2. \A other \in 1..(k - 1) : longer[other] = sprints[other]
        BY <2>3, <2>5, <4>1
      <4>3. All \ Planned(longer) \subseteq All \ Planned(sprints)
        BY <2>6
      <4> QED
        BY <4>1, <4>2, <4>3 DEF Greedy
    <3> QED
      BY <3>1, <3>2
  <2> QED
    BY <2>1, <2>3, <2>5, <2>8 DEF Greedy
<1> QED
  BY <1>1, <1>2

LEMMA SprintsSuggested == ASSUME Scored PROVE Greedy(SuggestSprints)
<1> DEFINE N == NumSprints
           Is(f) == f = [n \in 0..N |-> IF n = 0 THEN <<>> ELSE WithNextSprint(f[n - 1])]
           it == CHOOSE f : Is(f)
<1>1. N \in Nat
  BY BacklogAssumption
<1>2. \E f : Is(f)
  <2> DEFINE step == [xn \in Seq(SprintSets) \X (1..N) |-> WithNextSprint(xn[1])]
  <2>1. step \in [Seq(SprintSets) \X (1..N) -> Seq(SprintSets)]
    <3>1. ASSUME NEW x \in Seq(SprintSets), NEW n \in 1..N PROVE WithNextSprint(x) \in Seq(SprintSets)
      BY SprintFilled DEF WithNextSprint, FilledFrom
    <3> QED
      BY <3>1
  <2>2. <<>> \in Seq(SprintSets)
    OBVIOUS
  <2>3. \A x \in Seq(SprintSets), n \in 1..N : step[<<x, n>>] = WithNextSprint(x)
    OBVIOUS
  <2> HIDE DEF step, N
  <2>4. PICK f : Iteration(f, Seq(SprintSets), <<>>, N, step)
    BY <1>1, <2>1, <2>2, Iterated
  <2>5. f \in [0..N -> Seq(SprintSets)] /\ f[0] = <<>> /\ \A n \in 1..N : f[n] = step[<<f[n - 1], n>>]
    BY <2>4 DEF Iteration
  <2>6. \A n \in 1..N : f[n] = WithNextSprint(f[n - 1])
    <3>1. ASSUME NEW n \in 1..N PROVE f[n - 1] \in Seq(SprintSets)
      BY <1>1, <2>5
    <3> QED
      BY <2>3, <2>5, <3>1
  <2>7. \A n \in 0..N : f[n] = IF n = 0 THEN <<>> ELSE WithNextSprint(f[n - 1])
    BY <1>1, <2>5, <2>6
  <2> QED
    <3>1. f = [n \in 0..N |-> f[n]]
      BY <2>5
    <3>2. f = [n \in 0..N |-> IF n = 0 THEN <<>> ELSE WithNextSprint(f[n - 1])]
      BY <2>7, <3>1
    <3> QED
      BY <3>2
<1>3. Is(it)
  BY <1>2
<1>4. SuggestSprints = it[N]
  BY DEF SuggestSprints
<1> DEFINE S == {n \in 0..N : Greedy(it[n])}
<1> HIDE DEF it
<1>5. 0 \in S
  <2>1. it[0] = <<>>
    BY <1>1, <1>3
  <2> QED
    <3>1. Greedy(<<>>)
      BY DEF Greedy
    <3> QED
      BY <1>1, <2>1, <3>1
<1>6. ASSUME NEW n \in 0..(N - 1), n \in S PROVE n + 1 \in S
  <2>1. n + 1 \in 0..N /\ n + 1 # 0 /\ (n + 1) - 1 = n
    BY <1>1
  <2>2. it[n + 1] = WithNextSprint(it[n])
    BY <1>3, <2>1
  <2>3. Greedy(it[n])
    BY <1>6
  <2>4. Greedy(it[n + 1])
    BY <2>2, <2>3, SprintAdded
  <2> QED
    BY <2>1, <2>4
<1> HIDE DEF S, N
<1>7. N \in S
  <2>1. \A n \in 0..N : n \in S
    BY <1>1, <1>5, <1>6, BoundReached
  <2> QED
    BY <1>1, <2>1
<1> QED
  BY <1>4, <1>7 DEF S, N

\* What the report of analyze_backlog says is right.
Urgent(epics) ==
    \A e \in epics : /\ \E i \in e.ids : e.priority = scores[i].priority
                     /\ \A i \in e.ids : e.priority >= scores[i].priority
Told(analysis) ==
    GroupsAt(analysis.duplicates, Len(backlog)) /\ Greedy(analysis.sprints) /\ Urgent(analysis.epics)

\* Two ways to add up come to the same.
LEMMA SumsAgree ==
    ASSUME Scored, NEW ids, NEW one, NEW other, SumsTo(one, ids), SumsTo(other, ids)
    PROVE  one[Len(backlog)] = other[Len(backlog)]
<1> DEFINE N == Len(backlog)
           S == {n \in 0..N : one[n] = other[n]}
<1>1. N \in Nat
  BY DEF Scored
<1>2. 0 \in S
  BY <1>1 DEF SumsTo
<1>3. ASSUME NEW n \in 0..(N - 1), n \in S PROVE n + 1 \in S
  <2>1. n + 1 \in 1..N /\ n + 1 \in 0..N /\ (n + 1) - 1 = n
    BY <1>1
  <2> QED
    BY <1>3, <2>1 DEF SumsTo
<1>4. \A n \in 0..N : n \in S
  <2> HIDE DEF S, N
  <2> QED
    BY <1>1, <1>2, <1>3, BoundReached
<1> QED
  BY <1>1, <1>4

LEMMA PointsAddUp ==
    Scored => \A some : \E total : SumsTo(total, some) /\ PointsOf(some) = total[Len(backlog)]
BY PointsSummed

\* The points of tickets are those of their scores.
LEMMA PointsStay ==
    ASSUME Scored, UNCHANGED <<backlog, scores>>, NEW ids
    PROVE  PointsOf(ids)' = PointsOf(ids)
<1>1. Scored' /\ Len(backlog)' = Len(backlog)
  BY DEF Scored, All
<1>2. PICK one : SumsTo(one, ids) /\ PointsOf(ids) = one[Len(backlog)]
  BY PointsSummed
<1>3. (Scored => \A some : \E total : SumsTo(total, some) /\ PointsOf(some) = total[Len(backlog)])'
  BY PointsAddUp, PTL
<1>4. PICK other : SumsTo(other, ids)' /\ PointsOf(ids)' = other[Len(backlog)]
  BY <1>1, <1>3
<1>5. SumsTo(other, ids)
  BY <1>1, <1>4 DEF SumsTo, CountNext, Points
<1> QED
  BY <1>2, <1>4, <1>5, SumsAgree

\* A report is of tickets that all have their scores, and no score changes below it.
PriorityScores ==
    [score : Int, priority : 1..4, depends : BOOLEAN,
     effort : {<<1, "hours">>, <<2, "hours">>, <<1, "days">>, <<3, "days">>, <<1, "weeks">>}]
BacklogInv ==
    /\ backlog \in Seq(Ticket)
    /\ scores \in [All -> PriorityScores \cup {NoScore}]
    /\ plan # <<>> => Told(plan) /\ \A i \in All : scores[i] # NoScore

LEMMA TicketScored ==
    ASSUME NEW t \in Ticket, NEW opinion \in Nat
    PROVE  PrioritizeTicket(t, opinion) \in PriorityScores
<1> DEFINE c == CalculateComplexityScore(t)
           impact == CalculateImpactScore(t, opinion)
           urgency == CalculateUrgencyScore(t)
           sentiment == CalculateSentimentScore(t)
<1>0. /\ t.high \in Nat /\ t.medium \in Nat /\ t.labels \in Nat /\ t.hard \in Nat /\ t.technical \in Nat
      /\ t.simple \in Nat /\ t.urgent \in Nat /\ t.age \in Nat /\ t.negative \in Nat /\ t.positive \in Nat
      /\ t.depends \in BOOLEAN
  BY DEF Ticket
<1>1. c \in Int
  BY <1>0 DEF CalculateComplexityScore, Between0And100, Least
<1>2. impact \in Int
  BY <1>0 DEF CalculateImpactScore, Least
<1>3. urgency \in Int
  BY <1>0 DEF CalculateUrgencyScore, Least
<1>4. sentiment \in Int
  BY <1>0 DEF CalculateSentimentScore, Between0And100, Least
<1> HIDE DEF c, impact, urgency, sentiment
<1> DEFINE total == 35 * impact + 200 * c + 250 * urgency + 200 * sentiment
<1>5. total \in Int
  BY <1>1, <1>2, <1>3, <1>4
<1> HIDE DEF total
<1>6. ScoreToPriority(total) \in 1..4
  BY <1>5 DEF ScoreToPriority
<1>7. EstimateEffort(c) \in {<<1, "hours">>, <<2, "hours">>, <<1, "days">>, <<3, "days">>, <<1, "weeks">>}
  BY DEF EstimateEffort
<1>8. PrioritizeTicket(t, opinion) =
        [score |-> total, priority |-> ScoreToPriority(total),
         effort |-> EstimateEffort(c), depends |-> t.depends]
  BY DEF PrioritizeTicket, total, c, impact, urgency, sentiment
<1> QED
  BY <1>0, <1>5, <1>6, <1>7, <1>8 DEF PriorityScores

LEMMA BacklogInvInit == BacklogInit => BacklogInv
<1> SUFFICES ASSUME BacklogInit PROVE BacklogInv
  OBVIOUS
<1>1. backlog \in Seq(Ticket)
  BY BacklogAssumption DEF BacklogInit
<1>2. scores \in [All -> PriorityScores \cup {NoScore}]
  BY DEF BacklogInit, All
<1> QED
  BY <1>1, <1>2 DEF BacklogInit, BacklogInv

LEMMA ScoredNow ==
    ASSUME BacklogInv, \A i \in All : scores[i] # NoScore
    PROVE  Scored
BY DEF BacklogInv, PriorityScores, Scored

\* A report stays right as long as the scores stay.
LEMMA StillTold ==
    ASSUME Scored, UNCHANGED <<backlog, scores>>, NEW analysis, Told(analysis)
    PROVE  Told(analysis)'
<1>1. All' = All /\ Len(backlog)' = Len(backlog)
  BY DEF All
<1>2. GroupsAt(analysis.duplicates, Len(backlog))'
  BY <1>1 DEF Told, GroupsAt, GroupSets, Similar, Processed
<1>3. Urgent(analysis.epics)'
  BY DEF Told, Urgent
<1>4. Greedy(analysis.sprints)'
  <2> DEFINE sprints == analysis.sprints
  <2>1. Greedy(sprints)
    BY DEF Told
  <2> HIDE DEF sprints
  <2>2. SprintSets' = SprintSets /\ Planned(sprints)' = Planned(sprints)
    BY <1>1 DEF SprintSets, Planned, sprints
  <2>3. \A k \in 1..Len(sprints) : PointsOf(sprints[k].ids)' = PointsOf(sprints[k].ids)
    BY PointsStay DEF sprints
  <2>4. ASSUME NEW k \in 1..Len(sprints), NEW i \in All
        PROVE  PointsOf({j \in sprints[k].ids : scores[j].score >= scores[i].score})'
               = PointsOf({j \in sprints[k].ids : scores[j].score >= scores[i].score})
    BY PointsStay DEF sprints
  <2>5. \A i \in All : Points(i)' = Points(i)
    BY DEF Points
  <2> QED
    BY <1>1, <2>1, <2>2, <2>3, <2>4, <2>5 DEF Greedy, sprints
<1> QED
  BY <1>2, <1>3, <1>4 DEF Told

LEMMA ReportTold ==
    ASSUME Scored, NEW analysis, analysis.epics = IdentifyEpics, analysis.duplicates = FindDuplicates,
           analysis.sprints = SuggestSprints
    PROVE  Told(analysis)
<1>1. GroupsAt(analysis.duplicates, Len(backlog))
  BY DuplicatesFound DEF Scored
<1>2. Greedy(analysis.sprints)
  BY SprintsSuggested
<1>3. ASSUME NEW e \in analysis.epics
      PROVE  /\ \E i \in e.ids : e.priority = scores[i].priority
             /\ \A i \in e.ids : e.priority >= scores[i].priority
  <2>1. PICK group \in GroupByTheme : e.ids = group /\ e.priority = EpicPriority(group)
    BY <1>3 DEF IdentifyEpics
  <2>2. group \subseteq All /\ group # {}
    BY <2>1 DEF GroupByTheme
  <2> QED
    BY <2>1, <2>2, EpicLevel
<1> QED
  BY <1>1, <1>2, <1>3 DEF Told, Urgent

LEMMA BacklogInvNext == BacklogInv /\ [BacklogNext]_backlogvars => BacklogInv'
<1> SUFFICES ASSUME BacklogInv, [BacklogNext]_backlogvars PROVE BacklogInv'
  OBVIOUS
<1>1. ASSUME NEW i \in All, Prioritize(i) PROVE BacklogInv'
  <2>1. scores[i] = NoScore /\ UNCHANGED <<backlog, plan>>
    BY <1>1 DEF Prioritize
  <2>2. plan = <<>>
    BY <2>1 DEF BacklogInv
  <2>3. PICK opinion \in Opinions : scores' = [scores EXCEPT ![i] = PrioritizeTicket(backlog[i], opinion)]
    BY <1>1 DEF Prioritize
  <2>4. backlog[i] \in Ticket /\ opinion \in Nat
    BY BacklogAssumption DEF BacklogInv, All
  <2>5. PrioritizeTicket(backlog[i], opinion) \in PriorityScores
    BY <2>4, TicketScored
  <2>6. All' = All
    BY <2>1 DEF All
  <2>7. scores' \in [All' -> PriorityScores \cup {NoScore}]
    BY <2>3, <2>5, <2>6 DEF BacklogInv
  <2> QED
    BY <2>1, <2>2, <2>7 DEF BacklogInv
<1>2. ASSUME UNCHANGED <<backlog, scores>>,
             plan' # <<>> => Told(plan') /\ \A i \in All : scores[i] # NoScore
      PROVE  BacklogInv'
  <2>1. All' = All
    BY <1>2 DEF All
  <2>2. plan' # <<>> => Told(plan)'
    <3>1. SUFFICES ASSUME plan' # <<>> PROVE Told(plan)'
      OBVIOUS
    <3>2. Scored
      BY <1>2, <3>1, ScoredNow
    <3>3. PICK analysis : analysis = plan'
      OBVIOUS
    <3>4. Told(analysis)'
      BY <1>2, <3>1, <3>2, <3>3, StillTold
    <3> QED
      BY <3>3, <3>4 DEF Told
  <2> QED
    BY <1>2, <2>1, <2>2 DEF BacklogInv
<1>3. CASE AnalyzeBacklog
  <2>1. UNCHANGED <<backlog, scores>> /\ \A i \in All : scores[i] # NoScore
    BY <1>3 DEF AnalyzeBacklog
  <2>2. /\ plan'.epics = IdentifyEpics /\ plan'.duplicates = FindDuplicates
        /\ plan'.sprints = SuggestSprints
    BY <1>3 DEF AnalyzeBacklog
  <2>3. Told(plan')
    BY <2>1, <2>2, ScoredNow, ReportTold
  <2> QED
    BY <1>2, <2>1, <2>3
<1>4. CASE UNCHANGED backlogvars
  <2>1. UNCHANGED <<backlog, scores>> /\ plan' = plan
    BY <1>4 DEF backlogvars
  <2> QED
    BY <1>2, <2>1 DEF BacklogInv
<1> QED
  BY <1>1, <1>3, <1>4 DEF BacklogNext

LEMMA BacklogInvTells ==
    BacklogInv => SprintsAreGreedy /\ DuplicatesGrouped /\ EpicsAsUrgent
<1> SUFFICES ASSUME BacklogInv, plan # <<>>
             PROVE  SprintsAreGreedy /\ DuplicatesGrouped /\ EpicsAsUrgent
  BY DEF SprintsAreGreedy, DuplicatesGrouped, EpicsAsUrgent, Analysed
<1>1. Told(plan) /\ backlog \in Seq(Ticket)
  BY DEF BacklogInv
<1>2. SprintsAreGreedy
  <2>1. plan.sprints \in Seq(SprintSets)
    BY <1>1 DEF Told, Greedy
  <2>2. DOMAIN plan.sprints = 1..Len(plan.sprints)
    BY <2>1
  <2> QED
    BY <1>1, <2>2 DEF Told, Greedy, SprintsAreGreedy
<1>3. DuplicatesGrouped
  <2> DEFINE groups == plan.duplicates
  <2>1. GroupsAt(groups, Len(backlog))
    BY <1>1 DEF Told
  <2>2. All = 1..Len(backlog)
    BY <1>1 DEF All
  <2> HIDE DEF groups
  <2>3. \A g, h \in groups : g # h => ({g.primary} \cup g.others) \cap ({h.primary} \cup h.others) = {}
    BY <2>1 DEF GroupsAt
  <2>4. \A g \in groups : \A j \in g.others : g.primary < j /\ Similar(g.primary, j)
    BY <2>1 DEF GroupsAt
  <2>5. \A i, j \in All : i < j /\ Similar(i, j) => {i, j} \cap Processed(groups) # {}
    BY <2>1, <2>2 DEF GroupsAt
  <2> QED
    BY <2>3, <2>4, <2>5 DEF DuplicatesGrouped, groups
<1>4. EpicsAsUrgent
  BY <1>1 DEF Told, Urgent, EpicsAsUrgent
<1> QED
  BY <1>2, <1>3, <1>4

-------------------------------------------------------------------------------
(* Schema: the scripts, statement by statement. *)

Listed ==
    << <<"create", "users">>, <<"create", "api_keys">>, <<"create", "company_tenants">>,
       <<"create", "deployments">>, <<"create", "tickets">>, <<"create", "projects">>,
       <<"create", "leads">>, <<"create", "usage_events">>, <<"create", "processed_events">>,
       <<"version", 1>>, <<"create", "notifications">>, <<"create", "message_threads">>,
       <<"create", "messages">>, <<"create", "ticket_history">>,
       <<"create", "ticket_comments">>, <<"create", "workflows">>,
       <<"create", "workflow_steps">>, <<"extend", "tickets">>, <<"version", 2>>,
       <<"create", "sequences">>, <<"create", "sequence_enrollments">>,
       <<"create", "sequence_step_logs">>, <<"create", "outreach_daily_metrics">>,
       <<"create", "lead_timeline">>, <<"create", "processed_email_uids">>,
       <<"extend", "leads">>, <<"version", 3>> >>
Undone(r) ==
    IF r = 1 THEN << <<"drop", "processed_events">>, <<"drop", "usage_events">>,
                     <<"drop", "leads">>, <<"drop", "projects">>, <<"drop", "tickets">>,
                     <<"drop", "deployments">>, <<"drop", "company_tenants">>,
                     <<"drop", "api_keys">>, <<"drop", "users">>, <<"version", 0>> >>
    ELSE IF r = 2 THEN << <<"shrink", "tickets">>, <<"drop", "workflow_steps">>,
                          <<"drop", "workflows">>, <<"drop", "ticket_comments">>,
                          <<"drop", "ticket_history">>, <<"drop", "messages">>,
                          <<"drop", "message_threads">>, <<"drop", "notifications">>,
                          <<"version", 1>> >>
    ELSE << <<"shrink", "leads">>, <<"drop", "processed_email_uids">>,
            <<"drop", "lead_timeline">>, <<"drop", "outreach_daily_metrics">>,
            <<"drop", "sequence_step_logs">>, <<"drop", "sequence_enrollments">>,
            <<"drop", "sequences">>, <<"version", 2>> >>

TableNames == ModelTables \cup TablesOf(Upgrade0003)

LEMMA StatementsListed ==
    Statements = Listed /\ End(0) = 0 /\ End(1) = 10 /\ End(2) = 19 /\ End(3) = 27
<1>1. Script(1) = SubSeq(Listed, 1, 10)
  BY DEF Script, Upgrades, Upgrade0001, Create, Listed
<1>2. Script(2) = SubSeq(Listed, 11, 19)
  BY DEF Script, Upgrades, Upgrade0002, Create, Listed
<1>3. Script(3) = SubSeq(Listed, 20, 27)
  BY DEF Script, Upgrades, Upgrade0003, Create, Listed
<1>4. Len(Script(1)) = 10 /\ Len(Script(2)) = 9
  BY <1>1, <1>2 DEF Listed
<1>5. Statements = Listed
  <2> DEFINE S == {Listed[i] : i \in 1..27}
             list == Listed
  <2>1. list \in Seq(S) /\ Len(list) = 27
    BY SMTT(60) DEF Listed
  <2> HIDE DEF S, list
  <2>2. SubSeq(list, 1, 10) \o SubSeq(list, 10 + 1, 19) = SubSeq(list, 1, 19)
    BY <2>1, ConcatAdjacentSubSeq
  <2>3. SubSeq(list, 1, 19) \o SubSeq(list, 19 + 1, 27) = SubSeq(list, 1, 27)
    BY <2>1, ConcatAdjacentSubSeq
  <2>4. SubSeq(list, 1, 27) = list
    BY <2>1, SubSeqFull
  <2>5. 10 + 1 = 11 /\ 19 + 1 = 20
    OBVIOUS
  <2>6. Script(1) = SubSeq(list, 1, 10) /\ Script(2) = SubSeq(list, 10 + 1, 19)
        /\ Script(3) = SubSeq(list, 19 + 1, 27)
    BY <1>1, <1>2, <1>3, <2>5 DEF list
  <2>7. Statements = list
    BY <2>2, <2>3, <2>4, <2>6 DEF Statements
  <2> QED
    BY <2>7 DEF list
<1>6. Len(Listed) = 27
  BY DEF Listed
<1>7. End(0) = 0 /\ End(1) = 10
  BY <1>4 DEF End
<1>8. End(2) = 19
  <2> DEFINE one == Len(Script(1))
             two == Len(Script(2))
  <2>1. 2 # 0 /\ 2 # 1
    OBVIOUS
  <2>2. End(2) = one + two
    BY <2>1, Zenon DEF End
  <2>3. one = 10 /\ two = 9
    BY <1>4
  <2> HIDE DEF one, two
  <2> QED
    BY <2>2, <2>3
<1>9. End(3) = 27
  BY <1>5, <1>6 DEF End
<1> QED
  BY <1>5, <1>7, <1>8, <1>9

LEMMA DowngradeListed == \A r \in 1..3 : DowngradePlan(r) = Undone(r)
<1>1. ASSUME NEW list, NEW S, list \in Seq(S), NEW n \in Nat, Len(list) = n
      PROVE  SubSeq(list, 1, n) = list
  BY <1>1, SubSeqFull
<1>2. DowngradePlan(1) = Undone(1)
  <2> DEFINE list == Undone(1)
             S == {list[i] : i \in 1..10}
  <2>1. DowngradePlan(1) = SubSeq(list, 1, 10)
    BY DEF DowngradePlan, Downgrades, Downgrade0001, Drop, Undone
  <2>2. list \in Seq(S) /\ Len(list) = 10
    BY DEF Undone
  <2> HIDE DEF list, S
  <2> QED
    BY <1>1, <2>1, <2>2 DEF list
<1>3. DowngradePlan(2) = Undone(2)
  <2> DEFINE list == Undone(2)
             S == {list[i] : i \in 1..9}
  <2>1. DowngradePlan(2) = SubSeq(list, 1, 9)
    BY DEF DowngradePlan, Downgrades, Downgrade0002, Drop, Undone
  <2>2. list \in Seq(S) /\ Len(list) = 9
    BY DEF Undone
  <2> HIDE DEF list, S
  <2> QED
    BY <1>1, <2>1, <2>2 DEF list
<1>4. DowngradePlan(3) = Undone(3)
  <2> DEFINE list == Undone(3)
             S == {list[i] : i \in 1..8}
  <2>1. DowngradePlan(3) = SubSeq(list, 1, 8)
    BY DEF DowngradePlan, Downgrades, Downgrade0003, Drop, Undone
  <2>2. list \in Seq(S) /\ Len(list) = 8
    BY DEF Undone
  <2> HIDE DEF list, S
  <2> QED
    BY <1>1, <2>1, <2>2 DEF list
<1> QED
  BY <1>2, <1>3, <1>4

-------------------------------------------------------------------------------
(* Schema: what the scripts respect. *)

FirstTables == {"users", "api_keys", "company_tenants", "deployments", "tickets", "projects", "leads",
                "usage_events", "processed_events"}
SecondTables == {"notifications", "message_threads", "messages", "ticket_history", "ticket_comments",
                 "workflows", "workflow_steps"}
ThirdTables == {"sequences", "sequence_enrollments", "sequence_step_logs", "outreach_daily_metrics",
                "lead_timeline", "processed_email_uids"}

LEMMA TablesListed ==
    /\ TablesOf(Upgrades[1]) = FirstTables /\ TablesOf(Upgrades[2]) = SecondTables
    /\ TablesOf(Upgrades[3]) = ThirdTables
    /\ ModelTables = FirstTables \cup SecondTables /\ TablesOf(Upgrade0003) = ThirdTables
<1>1. TablesOf(Upgrade0001) = FirstTables
  <2> DEFINE script == Upgrade0001
  <2>1. DOMAIN script = 1..9
    BY DEF Upgrade0001, Create
  <2>2. /\ script[1] = <<"create", "users">> /\ script[2] = <<"create", "api_keys">>
        /\ script[3] = <<"create", "company_tenants">> /\ script[4] = <<"create", "deployments">>
        /\ script[5] = <<"create", "tickets">> /\ script[6] = <<"create", "projects">>
        /\ script[7] = <<"create", "leads">> /\ script[8] = <<"create", "usage_events">>
        /\ script[9] = <<"create", "processed_events">>
    BY DEF Upgrade0001, Create
  <2> HIDE DEF script
  <2>3. /\ script[1][1] = "create" /\ script[1][2] = "users"
        /\ script[2][1] = "create" /\ script[2][2] = "api_keys"
        /\ script[3][1] = "create" /\ script[3][2] = "company_tenants"
        /\ script[4][1] = "create" /\ script[4][2] = "deployments"
        /\ script[5][1] = "create" /\ script[5][2] = "tickets"
        /\ script[6][1] = "create" /\ script[6][2] = "projects"
        /\ script[7][1] = "create" /\ script[7][2] = "leads"
        /\ script[8][1] = "create" /\ script[8][2] = "usage_events"
        /\ script[9][1] = "create" /\ script[9][2] = "processed_events"
    BY <2>2
  <2>4. {i \in DOMAIN script : script[i][1] = "create"} = 1..9
    BY <2>1, <2>3
  <2>5. {script[i][2] : i \in 1..9} = FirstTables
    BY <2>3 DEF FirstTables
  <2> QED
    BY <2>4, <2>5 DEF TablesOf, script
<1>2. TablesOf(Upgrade0002) = SecondTables
  <2> DEFINE script == Upgrade0002
  <2>1. DOMAIN script = 1..8
    BY DEF Upgrade0002, Create
  <2>2. /\ script[1] = <<"create", "notifications">>
        /\ script[2] = <<"create", "message_threads">> /\ script[3] = <<"create", "messages">>
        /\ script[4] = <<"create", "ticket_history">>
        /\ script[5] = <<"create", "ticket_comments">> /\ script[6] = <<"create", "workflows">>
        /\ script[7] = <<"create", "workflow_steps">> /\ script[8] = <<"extend", "tickets">>
    BY DEF Upgrade0002, Create
  <2> HIDE DEF script
  <2>3. /\ script[1][1] = "create" /\ script[1][2] = "notifications"
        /\ script[2][1] = "create" /\ script[2][2] = "message_threads"
        /\ script[3][1] = "create" /\ script[3][2] = "messages"
        /\ script[4][1] = "create" /\ script[4][2] = "ticket_history"
        /\ script[5][1] = "create" /\ script[5][2] = "ticket_comments"
        /\ script[6][1] = "create" /\ script[6][2] = "workflows"
        /\ script[7][1] = "create" /\ script[7][2] = "workflow_steps"
        /\ script[8][1] = "extend" /\ script[8][2] = "tickets"
    BY <2>2
  <2>4. {i \in DOMAIN script : script[i][1] = "create"} = 1..7
    BY <2>1, <2>3
  <2>5. {script[i][2] : i \in 1..7} = SecondTables
    BY <2>3 DEF SecondTables
  <2> QED
    BY <2>4, <2>5 DEF TablesOf, script
<1>3. TablesOf(Upgrade0003) = ThirdTables
  <2> DEFINE script == Upgrade0003
  <2>1. DOMAIN script = 1..7
    BY DEF Upgrade0003, Create
  <2>2. /\ script[1] = <<"create", "sequences">>
        /\ script[2] = <<"create", "sequence_enrollments">>
        /\ script[3] = <<"create", "sequence_step_logs">>
        /\ script[4] = <<"create", "outreach_daily_metrics">>
        /\ script[5] = <<"create", "lead_timeline">>
        /\ script[6] = <<"create", "processed_email_uids">> /\ script[7] = <<"extend", "leads">>
    BY DEF Upgrade0003, Create
  <2> HIDE DEF script
  <2>3. /\ script[1][1] = "create" /\ script[1][2] = "sequences"
        /\ script[2][1] = "create" /\ script[2][2] = "sequence_enrollments"
        /\ script[3][1] = "create" /\ script[3][2] = "sequence_step_logs"
        /\ script[4][1] = "create" /\ script[4][2] = "outreach_daily_metrics"
        /\ script[5][1] = "create" /\ script[5][2] = "lead_timeline"
        /\ script[6][1] = "create" /\ script[6][2] = "processed_email_uids"
        /\ script[7][1] = "extend" /\ script[7][2] = "leads"
    BY <2>2
  <2>4. {i \in DOMAIN script : script[i][1] = "create"} = 1..6
    BY <2>1, <2>3
  <2>5. {script[i][2] : i \in 1..6} = ThirdTables
    BY <2>3 DEF ThirdTables
  <2> QED
    BY <2>4, <2>5 DEF TablesOf, script
<1>4. Upgrades[1] = Upgrade0001 /\ Upgrades[2] = Upgrade0002 /\ Upgrades[3] = Upgrade0003
  BY DEF Upgrades
<1> QED
  BY <1>1, <1>2, <1>3, <1>4 DEF ModelTables

LEMMA ScriptTablesListed ==
    /\ ScriptTables(0) = {} /\ ScriptTables(1) = FirstTables
    /\ ScriptTables(2) = FirstTables \cup SecondTables
    /\ ScriptTables(3) = FirstTables \cup SecondTables \cup ThirdTables
  BY TablesListed DEF ScriptTables

LEMMA ModelsKeepKeys == \A u \in ModelTables : References(u) \subseteq ModelTables
  BY TablesListed DEF FirstTables, SecondTables, References

\* A statement of the scripts: a table comes after those its keys point to, a version at
\* the end of its script.
InOrder(j) ==
    \/ /\ Statements[j][1] = "create" /\ Statements[j][2] \in TableNames
       /\ \A u \in References(Statements[j][2]) : \E i \in 1..(j - 1) : Statements[i] = <<"create", u>>
    \/ Statements[j][1] = "extend" /\ Statements[j][2] \in TableNames
    \/ Statements[j][1] = "version" /\ Statements[j][2] \in 1..3 /\ End(Statements[j][2]) = j

LEMMA StatementsOrdered == \A j \in 1..27 : InOrder(j)
<1>1. TableNames = FirstTables \cup SecondTables \cup ThirdTables
  BY TablesListed DEF TableNames
<1>2. /\ Statements[1] = <<"create", "users">> /\ Statements[2] = <<"create", "api_keys">>
      /\ Statements[3] = <<"create", "company_tenants">>
      /\ Statements[4] = <<"create", "deployments">> /\ Statements[5] = <<"create", "tickets">>
      /\ Statements[6] = <<"create", "projects">> /\ Statements[7] = <<"create", "leads">>
      /\ Statements[8] = <<"create", "usage_events">>
      /\ Statements[9] = <<"create", "processed_events">> /\ Statements[10] = <<"version", 1>>
      /\ Statements[11] = <<"create", "notifications">>
      /\ Statements[12] = <<"create", "message_threads">>
      /\ Statements[13] = <<"create", "messages">>
      /\ Statements[14] = <<"create", "ticket_history">>
      /\ Statements[15] = <<"create", "ticket_comments">>
      /\ Statements[16] = <<"create", "workflows">>
      /\ Statements[17] = <<"create", "workflow_steps">>
      /\ Statements[18] = <<"extend", "tickets">> /\ Statements[19] = <<"version", 2>>
      /\ Statements[20] = <<"create", "sequences">>
      /\ Statements[21] = <<"create", "sequence_enrollments">>
      /\ Statements[22] = <<"create", "sequence_step_logs">>
      /\ Statements[23] = <<"create", "outreach_daily_metrics">>
      /\ Statements[24] = <<"create", "lead_timeline">>
      /\ Statements[25] = <<"create", "processed_email_uids">>
      /\ Statements[26] = <<"extend", "leads">> /\ Statements[27] = <<"version", 3>>
  BY StatementsListed DEF Listed
<1>3. /\ Statements[1][1] = "create" /\ Statements[1][2] = "users"
      /\ Statements[2][1] = "create" /\ Statements[2][2] = "api_keys"
      /\ Statements[3][1] = "create" /\ Statements[3][2] = "company_tenants"
      /\ Statements[4][1] = "create" /\ Statements[4][2] = "deployments"
      /\ Statements[5][1] = "create" /\ Statements[5][2] = "tickets"
      /\ Statements[6][1] = "create" /\ Statements[6][2] = "projects"
      /\ Statements[7][1] = "create" /\ Statements[7][2] = "leads"
      /\ Statements[8][1] = "create" /\ Statements[8][2] = "usage_events"
      /\ Statements[9][1] = "create" /\ Statements[9][2] = "processed_events"
      /\ Statements[10][1] = "version" /\ Statements[10][2] = 1
      /\ Statements[11][1] = "create" /\ Statements[11][2] = "notifications"
      /\ Statements[12][1] = "create" /\ Statements[12][2] = "message_threads"
      /\ Statements[13][1] = "create" /\ Statements[13][2] = "messages"
      /\ Statements[14][1] = "create" /\ Statements[14][2] = "ticket_history"
      /\ Statements[15][1] = "create" /\ Statements[15][2] = "ticket_comments"
      /\ Statements[16][1] = "create" /\ Statements[16][2] = "workflows"
      /\ Statements[17][1] = "create" /\ Statements[17][2] = "workflow_steps"
      /\ Statements[18][1] = "extend" /\ Statements[18][2] = "tickets"
      /\ Statements[19][1] = "version" /\ Statements[19][2] = 2
      /\ Statements[20][1] = "create" /\ Statements[20][2] = "sequences"
      /\ Statements[21][1] = "create" /\ Statements[21][2] = "sequence_enrollments"
      /\ Statements[22][1] = "create" /\ Statements[22][2] = "sequence_step_logs"
      /\ Statements[23][1] = "create" /\ Statements[23][2] = "outreach_daily_metrics"
      /\ Statements[24][1] = "create" /\ Statements[24][2] = "lead_timeline"
      /\ Statements[25][1] = "create" /\ Statements[25][2] = "processed_email_uids"
      /\ Statements[26][1] = "extend" /\ Statements[26][2] = "leads"
      /\ Statements[27][1] = "version" /\ Statements[27][2] = 3
  BY <1>2
<1>4. InOrder(1)
  <2>1. References("users") = {}
    BY DEF References
  <2> QED
    BY <1>1, <1>3, <2>1 DEF InOrder, FirstTables, SecondTables, ThirdTables
<1>5. InOrder(2)
  <2>1. References("api_keys") = {"users"}
    BY DEF References
  <2>2. /\ 1 \in 1..(2 - 1)
    OBVIOUS
  <2> QED
    BY <1>1, <1>2, <1>3, <2>1, <2>2 DEF InOrder, FirstTables, SecondTables, ThirdTables
<1>6. InOrder(3)
  <2>1. References("company_tenants") = {}
    BY DEF References
  <2> QED
    BY <1>1, <1>3, <2>1 DEF InOrder, FirstTables, SecondTables, ThirdTables
<1>7. InOrder(4)
  <2>1. References("deployments") = {"company_tenants"}
    BY DEF References
  <2>2. /\ 3 \in 1..(4 - 1)
    OBVIOUS
  <2> QED
    BY <1>1, <1>2, <1>3, <2>1, <2>2 DEF InOrder, FirstTables, SecondTables, ThirdTables
<1>8. InOrder(5)
  <2>1. References("tickets") = {"users"}
    BY DEF References
  <2>2. /\ 1 \in 1..(5 - 1)
    OBVIOUS
  <2> QED
    BY <1>1, <1>2, <1>3, <2>1, <2>2 DEF InOrder, FirstTables, SecondTables, ThirdTables
<1>9. InOrder(6)
  <2>1. References("projects") = {}
    BY DEF References
  <2> QED
    BY <1>1, <1>3, <2>1 DEF InOrder, FirstTables, SecondTables, ThirdTables
<1>10. InOrder(7)
  <2>1. References("leads") = {}
    BY DEF References
  <2> QED
    BY <1>1, <1>3, <2>1 DEF InOrder, FirstTables, SecondTables, ThirdTables
<1>11. InOrder(8)
  <2>1. References("usage_events") = {}
    BY DEF References
  <2> QED
    BY <1>1, <1>3, <2>1 DEF InOrder, FirstTables, SecondTables, ThirdTables
<1>12. InOrder(9)
  <2>1. References("processed_events") = {}
    BY DEF References
  <2> QED
    BY <1>1, <1>3, <2>1 DEF InOrder, FirstTables, SecondTables, ThirdTables
<1>13. InOrder(10)
  BY <1>3, StatementsListed DEF InOrder
<1>14. InOrder(11)
  <2>1. References("notifications") = {"users"}
    BY DEF References
  <2>2. /\ 1 \in 1..(11 - 1)
    OBVIOUS
  <2> QED
    BY <1>1, <1>2, <1>3, <2>1, <2>2 DEF InOrder, FirstTables, SecondTables, ThirdTables
<1>15. InOrder(12)
  <2>1. References("message_threads") = {}
    BY DEF References
  <2> QED
    BY <1>1, <1>3, <2>1 DEF InOrder, FirstTables, SecondTables, ThirdTables
<1>16. InOrder(13)
  <2>1. References("messages") = {"message_threads", "users"}
    BY DEF References
  <2>2. /\ 12 \in 1..(13 - 1) /\ 1 \in 1..(13 - 1)
    OBVIOUS
  <2> QED
    BY <1>1, <1>2, <1>3, <2>1, <2>2 DEF InOrder, FirstTables, SecondTables, ThirdTables
<1>17. InOrder(14)
  <2>1. References("ticket_history") = {"tickets", "users"}
    BY DEF References
  <2>2. /\ 5 \in 1..(14 - 1) /\ 1 \in 1..(14 - 1)
    OBVIOUS
  <2> QED
    BY <1>1, <1>2, <1>3, <2>1, <2>2 DEF InOrder, FirstTables, SecondTables, ThirdTables
<1>18. InOrder(15)
  <2>1. References("ticket_comments") = {"tickets", "users"}
    BY DEF References
  <2>2. /\ 5 \in 1..(15 - 1) /\ 1 \in 1..(15 - 1)
    OBVIOUS
  <2> QED
    BY <1>1, <1>2, <1>3, <2>1, <2>2 DEF InOrder, FirstTables, SecondTables, ThirdTables
<1>19. InOrder(16)
  <2>1. References("workflows") = {"company_tenants"}
    BY DEF References
  <2>2. /\ 3 \in 1..(16 - 1)
    OBVIOUS
  <2> QED
    BY <1>1, <1>2, <1>3, <2>1, <2>2 DEF InOrder, FirstTables, SecondTables, ThirdTables
<1>20. InOrder(17)
  <2>1. References("workflow_steps") = {"workflows"}
    BY DEF References
  <2>2. /\ 16 \in 1..(17 - 1)
    OBVIOUS
  <2> QED
    BY <1>1, <1>2, <1>3, <2>1, <2>2 DEF InOrder, FirstTables, SecondTables, ThirdTables
<1>21. InOrder(18)
  BY <1>1, <1>3 DEF InOrder, FirstTables
<1>22. InOrder(19)
  BY <1>3, StatementsListed DEF InOrder
<1>23. InOrder(20)
  <2>1. References("sequences") = {}
    BY DEF References
  <2> QED
    BY <1>1, <1>3, <2>1 DEF InOrder, FirstTables, SecondTables, ThirdTables
<1>24. InOrder(21)
  <2>1. References("sequence_enrollments") = {"leads", "sequences"}
    BY DEF References
  <2>2. /\ 7 \in 1..(21 - 1) /\ 20 \in 1..(21 - 1)
    OBVIOUS
  <2> QED
    BY <1>1, <1>2, <1>3, <2>1, <2>2 DEF InOrder, FirstTables, SecondTables, ThirdTables
<1>25. InOrder(22)
  <2>1. References("sequence_step_logs") = {"sequence_enrollments"}
    BY DEF References
  <2>2. /\ 21 \in 1..(22 - 1)
    OBVIOUS
  <2> QED
    BY <1>1, <1>2, <1>3, <2>1, <2>2 DEF InOrder, FirstTables, SecondTables, ThirdTables
<1>26. InOrder(23)
  <2>1. References("outreach_daily_metrics") = {}
    BY DEF References
  <2> QED
    BY <1>1, <1>3, <2>1 DEF InOrder, FirstTables, SecondTables, ThirdTables
<1>27. InOrder(24)
  <2>1. References("lead_timeline") = {"leads"}
    BY DEF References
  <2>2. /\ 7 \in 1..(24 - 1)
    OBVIOUS
  <2> QED
    BY <1>1, <1>2, <1>3, <2>1, <2>2 DEF InOrder, FirstTables, SecondTables, ThirdTables
<1>28. InOrder(25)
  <2>1. References("processed_email_uids") = {}
    BY DEF References
  <2> QED
    BY <1>1, <1>3, <2>1 DEF InOrder, FirstTables, SecondTables, ThirdTables
<1>29. InOrder(26)
  BY <1>1, <1>3 DEF InOrder, FirstTables
<1>30. InOrder(27)
  BY <1>3, StatementsListed DEF InOrder
<1> QED
  BY <1>4, <1>5, <1>6, <1>7, <1>8, <1>9, <1>10, <1>11, <1>12, <1>13, <1>14, <1>15, <1>16, <1>17,
     <1>18, <1>19, <1>20, <1>21, <1>22, <1>23, <1>24, <1>25, <1>26, <1>27, <1>28, <1>29, <1>30
-------------------------------------------------------------------------------
(* Schema: what the downgrades respect. *)

\* A statement of a downgrade: a table goes after those with keys to it, and nothing that
\* an older script made; the version before comes last.
UndoneInOrder(r, n) ==
    LET undoing == DowngradePlan(r)
        statement == undoing[n]
    IN  \/ n = Len(undoing) /\ statement[1] = "version" /\ statement[2] = r - 1
        \/ /\ n < Len(undoing) /\ statement[1] = "drop" /\ statement[2] \in TablesOf(Upgrades[r])
           /\ \A u \in ScriptTables(r) :
                statement[2] \in References(u) => \E i \in 1..(n - 1) : undoing[i] = <<"drop", u>>
        \/ n < Len(undoing) /\ statement[1] = "shrink" /\ statement[2] \in {"tickets", "leads"}
           /\ \A j \in 1..End(r - 1) : Statements[j][1] = "extend" => Statements[j][2] # statement[2]

LEMMA KeysListed ==
    \A u \in FirstTables \cup SecondTables \cup ThirdTables :
      /\ u \in {"api_keys", "notifications", "tickets"} => References(u) = {"users"}
      /\ u \in {"deployments", "workflows"} => References(u) = {"company_tenants"}
      /\ u \in {"messages"} => References(u) = {"message_threads", "users"}
      /\ u \in {"ticket_history", "ticket_comments"} => References(u) = {"tickets", "users"}
      /\ u \in {"workflow_steps"} => References(u) = {"workflows"}
      /\ u \in {"sequence_enrollments"} => References(u) = {"leads", "sequences"}
      /\ u \in {"sequence_step_logs"} => References(u) = {"sequence_enrollments"}
      /\ u \in {"lead_timeline"} => References(u) = {"leads"}
      /\ u \in {"users", "company_tenants", "projects", "leads", "usage_events",
                  "processed_events", "message_threads", "sequences", "outreach_daily_metrics", "processed_email_uids"}
           => References(u) = {}
  BY DEF FirstTables, SecondTables, ThirdTables, References

LEMMA Extensions ==
    /\ \A j \in 1..10 : Statements[j][1] # "extend"
    /\ \A j \in 1..19 : Statements[j][1] = "extend" => Statements[j][2] # "leads"
    /\ \A j \in 1..27 : Statements[j][1] = "extend" => Statements[j][2] \in {"tickets", "leads"}
    /\ Statements[18] = <<"extend", "tickets">> /\ Statements[26] = <<"extend", "leads">>
<1>1. /\ Statements[1][1] = "create" /\ Statements[2][1] = "create" /\ Statements[3][1] = "create"
      /\ Statements[4][1] = "create" /\ Statements[5][1] = "create" /\ Statements[6][1] = "create"
      /\ Statements[7][1] = "create" /\ Statements[8][1] = "create" /\ Statements[9][1] = "create"
      /\ Statements[10][1] = "version" /\ Statements[11][1] = "create"
      /\ Statements[12][1] = "create" /\ Statements[13][1] = "create"
      /\ Statements[14][1] = "create" /\ Statements[15][1] = "create"
      /\ Statements[16][1] = "create" /\ Statements[17][1] = "create"
      /\ Statements[18][1] = "extend" /\ Statements[19][1] = "version"
      /\ Statements[20][1] = "create" /\ Statements[21][1] = "create"
      /\ Statements[22][1] = "create" /\ Statements[23][1] = "create"
      /\ Statements[24][1] = "create" /\ Statements[25][1] = "create"
      /\ Statements[26][1] = "extend" /\ Statements[27][1] = "version"
  BY StatementsListed DEF Listed
<1>2. Statements[18][2] = "tickets" /\ Statements[26][2] = "leads"
  BY StatementsListed DEF Listed
<1>3. Statements[18] = <<"extend", "tickets">> /\ Statements[26] = <<"extend", "leads">>
  BY StatementsListed DEF Listed
<1>4. \A j \in 1..10 : Statements[j][1] # "extend"
  BY <1>1
<1>5. \A j \in 1..27 : Statements[j][1] = "extend" => j \in {18, 26}
  BY <1>1
<1>6. \A j \in 1..19 : Statements[j][1] = "extend" => j = 18
  BY <1>5
<1> QED
  BY <1>2, <1>3, <1>4, <1>5, <1>6

LEMMA DowngradesOrdered == \A r \in 1..3 : \A n \in 1..Len(DowngradePlan(r)) : UndoneInOrder(r, n)
<1>1. ASSUME NEW n \in 1..Len(DowngradePlan(1)) PROVE UndoneInOrder(1, n)
  <2> DEFINE undoing == DowngradePlan(1)
  <2>1. undoing = Undone(1)
    BY DowngradeListed
  <2> HIDE DEF undoing
  <2>2. Len(undoing) = 10 /\ undoing[1] = <<"drop", "processed_events">> /\ undoing[2] = <<"drop", "usage_events">>
        /\ undoing[3] = <<"drop", "leads">> /\ undoing[4] = <<"drop", "projects">>
        /\ undoing[5] = <<"drop", "tickets">> /\ undoing[6] = <<"drop", "deployments">>
        /\ undoing[7] = <<"drop", "company_tenants">> /\ undoing[8] = <<"drop", "api_keys">>
        /\ undoing[9] = <<"drop", "users">> /\ undoing[10] = <<"version", 0>>
    BY <2>1 DEF Undone
  <2>3. /\ undoing[1][1] = "drop" /\ undoing[1][2] = "processed_events"
        /\ undoing[2][1] = "drop" /\ undoing[2][2] = "usage_events"
        /\ undoing[3][1] = "drop" /\ undoing[3][2] = "leads"
        /\ undoing[4][1] = "drop" /\ undoing[4][2] = "projects"
        /\ undoing[5][1] = "drop" /\ undoing[5][2] = "tickets"
        /\ undoing[6][1] = "drop" /\ undoing[6][2] = "deployments"
        /\ undoing[7][1] = "drop" /\ undoing[7][2] = "company_tenants"
        /\ undoing[8][1] = "drop" /\ undoing[8][2] = "api_keys"
        /\ undoing[9][1] = "drop" /\ undoing[9][2] = "users"
    BY <2>2
  <2>4. ScriptTables(1) = FirstTables /\ TablesOf(Upgrades[1]) = FirstTables
    BY TablesListed, ScriptTablesListed
  <2>5. UndoneInOrder(1, 1)
    <3>1. \A u \in ScriptTables(1) : "processed_events" \in References(u) => u \in {}
      BY <2>4, KeysListed DEF FirstTables, SecondTables, ThirdTables
    <3> QED
      BY <2>2, <2>3, <2>4, <3>1 DEF UndoneInOrder, undoing, FirstTables
  <2>6. UndoneInOrder(1, 2)
    <3>1. \A u \in ScriptTables(1) : "usage_events" \in References(u) => u \in {}
      BY <2>4, KeysListed DEF FirstTables, SecondTables, ThirdTables
    <3> QED
      BY <2>2, <2>3, <2>4, <3>1 DEF UndoneInOrder, undoing, FirstTables
  <2>7. UndoneInOrder(1, 3)
    <3>1. \A u \in ScriptTables(1) : "leads" \in References(u) => u \in {}
      BY <2>4, KeysListed DEF FirstTables, SecondTables, ThirdTables
    <3> QED
      BY <2>2, <2>3, <2>4, <3>1 DEF UndoneInOrder, undoing, FirstTables
  <2>8. UndoneInOrder(1, 4)
    <3>1. \A u \in ScriptTables(1) : "projects" \in References(u) => u \in {}
      BY <2>4, KeysListed DEF FirstTables, SecondTables, ThirdTables
    <3> QED
      BY <2>2, <2>3, <2>4, <3>1, SMTT(60) DEF UndoneInOrder, undoing, FirstTables
  <2>9. UndoneInOrder(1, 5)
    <3>1. \A u \in ScriptTables(1) : "tickets" \in References(u) => u \in {}
      BY <2>4, KeysListed DEF FirstTables, SecondTables, ThirdTables
    <3> QED
      BY <2>2, <2>3, <2>4, <3>1, SMTT(60) DEF UndoneInOrder, undoing, FirstTables
  <2>10. UndoneInOrder(1, 6)
    <3>1. \A u \in ScriptTables(1) : "deployments" \in References(u) => u \in {}
      BY <2>4, KeysListed DEF FirstTables, SecondTables, ThirdTables
    <3> QED
      BY <2>2, <2>3, <2>4, <3>1, SMTT(60) DEF UndoneInOrder, undoing, FirstTables
  <2>11. UndoneInOrder(1, 7)
    <3>1. \A u \in ScriptTables(1) : "company_tenants" \in References(u) => u \in {"deployments"}
      BY <2>4, KeysListed DEF FirstTables, SecondTables, ThirdTables
    <3>2. /\ 6 \in 1..(7 - 1)
      OBVIOUS
    <3> QED
      BY <2>2, <2>3, <2>4, <3>1, <3>2, SMTT(60) DEF UndoneInOrder, undoing, FirstTables
  <2>12. UndoneInOrder(1, 8)
    <3>1. \A u \in ScriptTables(1) : "api_keys" \in References(u) => u \in {}
      BY <2>4, KeysListed DEF FirstTables, SecondTables, ThirdTables
    <3> QED
      BY <2>2, <2>3, <2>4, <3>1, SMTT(60) DEF UndoneInOrder, undoing, FirstTables
  <2>13. UndoneInOrder(1, 9)
    <3>1. \A u \in ScriptTables(1) : "users" \in References(u) => u \in {"api_keys", "tickets"}
      BY <2>4, KeysListed DEF FirstTables, SecondTables, ThirdTables
    <3>2. /\ 8 \in 1..(9 - 1) /\ 5 \in 1..(9 - 1)
      OBVIOUS
    <3> QED
      BY <2>2, <2>3, <2>4, <3>1, <3>2, SMTT(60) DEF UndoneInOrder, undoing, FirstTables
  <2>14. UndoneInOrder(1, 10)
    BY <2>2, <2>3 DEF UndoneInOrder, undoing
  <2>15. n \in 1..10
    BY <2>2 DEF undoing
  <2> QED
    BY <2>5, <2>6, <2>7, <2>8, <2>9, <2>10, <2>11, <2>12, <2>13, <2>14, <2>15
<1>2. ASSUME NEW n \in 1..Len(DowngradePlan(2)) PROVE UndoneInOrder(2, n)
  <2> DEFINE undoing == DowngradePlan(2)
  <2>1. undoing = Undone(2)
    BY DowngradeListed
  <2> HIDE DEF undoing
  <2>2. Len(undoing) = 9 /\ undoing[1] = <<"shrink", "tickets">> /\ undoing[2] = <<"drop", "workflow_steps">>
        /\ undoing[3] = <<"drop", "workflows">> /\ undoing[4] = <<"drop", "ticket_comments">>
        /\ undoing[5] = <<"drop", "ticket_history">> /\ undoing[6] = <<"drop", "messages">>
        /\ undoing[7] = <<"drop", "message_threads">> /\ undoing[8] = <<"drop", "notifications">>
        /\ undoing[9] = <<"version", 1>>
    BY <2>1 DEF Undone
  <2>3. /\ undoing[1][1] = "shrink" /\ undoing[1][2] = "tickets"
        /\ undoing[2][1] = "drop" /\ undoing[2][2] = "workflow_steps"
        /\ undoing[3][1] = "drop" /\ undoing[3][2] = "workflows"
        /\ undoing[4][1] = "drop" /\ undoing[4][2] = "ticket_comments"
        /\ undoing[5][1] = "drop" /\ undoing[5][2] = "ticket_history"
        /\ undoing[6][1] = "drop" /\ undoing[6][2] = "messages"
        /\ undoing[7][1] = "drop" /\ undoing[7][2] = "message_threads"
        /\ undoing[8][1] = "drop" /\ undoing[8][2] = "notifications"
    BY <2>2
  <2>4. ScriptTables(2) = FirstTables \cup SecondTables /\ TablesOf(Upgrades[2]) = SecondTables
    BY TablesListed, ScriptTablesListed
  <2>5. UndoneInOrder(2, 1)
    <3>1. \A j \in 1..10 : Statements[j][1] # "extend"
      BY Extensions
    <3>2. End(2 - 1) = 10
      BY StatementsListed
    <3>3. \A j \in 1..End(2 - 1) : Statements[j][1] = "extend" => Statements[j][2] # undoing[1][2]
      BY <2>3, <3>1, <3>2
    <3> QED
      BY <2>2, <2>3, <3>3 DEF UndoneInOrder, undoing
  <2>6. UndoneInOrder(2, 2)
    <3>1. \A u \in ScriptTables(2) : "workflow_steps" \in References(u) => u \in {}
      BY <2>4, KeysListed DEF FirstTables, SecondTables, ThirdTables
    <3> QED
      BY <2>2, <2>3, <2>4, <3>1 DEF UndoneInOrder, undoing, SecondTables
  <2>7. UndoneInOrder(2, 3)
    <3>1. \A u \in ScriptTables(2) : "workflows" \in References(u) => u \in {"workflow_steps"}
      BY <2>4, KeysListed DEF FirstTables, SecondTables, ThirdTables
    <3>2. /\ 2 \in 1..(3 - 1)
      OBVIOUS
    <3> QED
      BY <2>2, <2>3, <2>4, <3>1, <3>2 DEF UndoneInOrder, undoing, SecondTables
  <2>8. UndoneInOrder(2, 4)
    <3>1. \A u \in ScriptTables(2) : "ticket_comments" \in References(u) => u \in {}
      BY <2>4, KeysListed DEF FirstTables, SecondTables, ThirdTables
    <3> QED
      BY <2>2, <2>3, <2>4, <3>1 DEF UndoneInOrder, undoing, SecondTables
  <2>9. UndoneInOrder(2, 5)
    <3>1. \A u \in ScriptTables(2) : "ticket_history" \in References(u) => u \in {}
      BY <2>4, KeysListed DEF FirstTables, SecondTables, ThirdTables
    <3> QED
      BY <2>2, <2>3, <2>4, <3>1 DEF UndoneInOrder, undoing, SecondTables
  <2>10. UndoneInOrder(2, 6)
    <3>1. \A u \in ScriptTables(2) : "messages" \in References(u) => u \in {}
      BY <2>4, KeysListed DEF FirstTables, SecondTables, ThirdTables
    <3> QED
      BY <2>2, <2>3, <2>4, <3>1 DEF UndoneInOrder, undoing, SecondTables
  <2>11. UndoneInOrder(2, 7)
    <3>1. \A u \in ScriptTables(2) : "message_threads" \in References(u) => u \in {"messages"}
      BY <2>4, KeysListed DEF FirstTables, SecondTables, ThirdTables
    <3>2. /\ 6 \in 1..(7 - 1)
      OBVIOUS
    <3> QED
      BY <2>2, <2>3, <2>4, <3>1, <3>2 DEF UndoneInOrder, undoing, SecondTables
  <2>12. UndoneInOrder(2, 8)
    <3>1. \A u \in ScriptTables(2) : "notifications" \in References(u) => u \in {}
      BY <2>4, KeysListed DEF FirstTables, SecondTables, ThirdTables
    <3> QED
      BY <2>2, <2>3, <2>4, <3>1 DEF UndoneInOrder, undoing, SecondTables
  <2>13. UndoneInOrder(2, 9)
    BY <2>2, <2>3 DEF UndoneInOrder, undoing
  <2>14. n \in 1..9
    BY <2>2 DEF undoing
  <2> QED
    BY <2>5, <2>6, <2>7, <2>8, <2>9, <2>10, <2>11, <2>12, <2>13, <2>14
<1>3. ASSUME NEW n \in 1..Len(DowngradePlan(3)) PROVE UndoneInOrder(3, n)
  <2> DEFINE undoing == DowngradePlan(3)
  <2>1. undoing = Undone(3)
    BY DowngradeListed
  <2> HIDE DEF undoing
  <2>2. Len(undoing) = 8 /\ undoing[1] = <<"shrink", "leads">> /\ undoing[2] = <<"drop", "processed_email_uids">>
        /\ undoing[3] = <<"drop", "lead_timeline">> /\ undoing[4] = <<"drop", "outreach_daily_metrics">>
        /\ undoing[5] = <<"drop", "sequence_step_logs">>
        /\ undoing[6] = <<"drop", "sequence_enrollments">> /\ undoing[7] = <<"drop", "sequences">>
        /\ undoing[8] = <<"version", 2>>
    BY <2>1 DEF Undone
  <2>3. /\ undoing[1][1] = "shrink" /\ undoing[1][2] = "leads"
        /\ undoing[2][1] = "drop" /\ undoing[2][2] = "processed_email_uids"
        /\ undoing[3][1] = "drop" /\ undoing[3][2] = "lead_timeline"
        /\ undoing[4][1] = "drop" /\ undoing[4][2] = "outreach_daily_metrics"
        /\ undoing[5][1] = "drop" /\ undoing[5][2] = "sequence_step_logs"
        /\ undoing[6][1] = "drop" /\ undoing[6][2] = "sequence_enrollments"
        /\ undoing[7][1] = "drop" /\ undoing[7][2] = "sequences"
    BY <2>2
  <2>4. ScriptTables(3) = FirstTables \cup SecondTables \cup ThirdTables /\ TablesOf(Upgrades[3]) = ThirdTables
    BY TablesListed, ScriptTablesListed
  <2>5. UndoneInOrder(3, 1)
    <3>1. \A j \in 1..19 : Statements[j][1] = "extend" => Statements[j][2] # "leads"
      BY Extensions
    <3>2. End(3 - 1) = 19
      BY StatementsListed
    <3>3. \A j \in 1..End(3 - 1) : Statements[j][1] = "extend" => Statements[j][2] # undoing[1][2]
      BY <2>3, <3>1, <3>2
    <3> QED
      BY <2>2, <2>3, <3>3 DEF UndoneInOrder, undoing
  <2>6. UndoneInOrder(3, 2)
    <3>1. \A u \in ScriptTables(3) : "processed_email_uids" \in References(u) => u \in {}
      BY <2>4, KeysListed DEF FirstTables, SecondTables, ThirdTables
    <3> QED
      BY <2>2, <2>3, <2>4, <3>1 DEF UndoneInOrder, undoing, ThirdTables
  <2>7. UndoneInOrder(3, 3)
    <3>1. \A u \in ScriptTables(3) : "lead_timeline" \in References(u) => u \in {}
      BY <2>4, KeysListed DEF FirstTables, SecondTables, ThirdTables
    <3> QED
      BY <2>2, <2>3, <2>4, <3>1 DEF UndoneInOrder, undoing, ThirdTables
  <2>8. UndoneInOrder(3, 4)
    <3>1. \A u \in ScriptTables(3) : "outreach_daily_metrics" \in References(u) => u \in {}
      BY <2>4, KeysListed DEF FirstTables, SecondTables, ThirdTables
    <3> QED
      BY <2>2, <2>3, <2>4, <3>1 DEF UndoneInOrder, undoing, ThirdTables
  <2>9. UndoneInOrder(3, 5)
    <3>1. \A u \in ScriptTables(3) : "sequence_step_logs" \in References(u) => u \in {}
      BY <2>4, KeysListed DEF FirstTables, SecondTables, ThirdTables
    <3> QED
      BY <2>2, <2>3, <2>4, <3>1 DEF UndoneInOrder, undoing, ThirdTables
  <2>10. UndoneInOrder(3, 6)
    <3>1. \A u \in ScriptTables(3) : "sequence_enrollments" \in References(u) => u \in {"sequence_step_logs"}
      BY <2>4, KeysListed DEF FirstTables, SecondTables, ThirdTables
    <3>2. /\ 5 \in 1..(6 - 1)
      OBVIOUS
    <3> QED
      BY <2>2, <2>3, <2>4, <3>1, <3>2 DEF UndoneInOrder, undoing, ThirdTables
  <2>11. UndoneInOrder(3, 7)
    <3>1. \A u \in ScriptTables(3) : "sequences" \in References(u) => u \in {"sequence_enrollments"}
      BY <2>4, KeysListed DEF FirstTables, SecondTables, ThirdTables
    <3>2. /\ 6 \in 1..(7 - 1)
      OBVIOUS
    <3> QED
      BY <2>2, <2>3, <2>4, <3>1, <3>2 DEF UndoneInOrder, undoing, ThirdTables
  <2>12. UndoneInOrder(3, 8)
    BY <2>2, <2>3 DEF UndoneInOrder, undoing
  <2>13. n \in 1..8
    BY <2>2 DEF undoing
  <2> QED
    BY <2>5, <2>6, <2>7, <2>8, <2>9, <2>10, <2>11, <2>12, <2>13
<1> QED
  BY <1>1, <1>2, <1>3

\* What a script makes no older one makes.
LEMMA MadeOnce ==
    \A r \in 1..3 : \A t \in TablesOf(Upgrades[r]) : \A j \in 1..End(r - 1) :
       Statements[j][1] \in {"create", "extend"} => Statements[j][2] # t
<1>1. End(1 - 1) = 0 /\ End(2 - 1) = 10 /\ End(3 - 1) = 19
  BY StatementsListed
<1>2. \A t \in SecondTables : \A j \in 1..10 :
        Statements[j][1] \in {"create", "extend"} => Statements[j][2] # t
  BY StatementsListed DEF Listed, SecondTables
<1>3. \A t \in ThirdTables : \A j \in 1..19 :
        Statements[j][1] \in {"create", "extend"} => Statements[j][2] # t
  BY StatementsListed DEF Listed, ThirdTables
<1> QED
  BY <1>1, <1>2, <1>3, TablesListed
-------------------------------------------------------------------------------
(* Schema: statements one after the other. *)

SchemaSets == [tables : SUBSET TableNames, extended : SUBSET TableNames, version : 0..3]

\* The first n statements of the scripts are done.
DoneUpTo(s, n) ==
    \A j \in 1..n : /\ Statements[j][1] = "create" => Statements[j][2] \in s.tables
                    /\ Statements[j][1] = "extend" => Statements[j][2] \in s.extended
Keyed(s) == \A t \in s.tables : References(t) \subseteq s.tables

WellFormed(statement) ==
    \/ statement[1] \in {"create", "drop", "extend", "shrink"} /\ statement[2] \in TableNames
    \/ statement[1] = "version" /\ statement[2] \in 0..3

\* What a statement makes of a schema.
Changed(s, statement, new) ==
    /\ new \in SchemaSets
    /\ statement[1] = "create" => /\ new.tables = s.tables \cup {statement[2]}
                                  /\ new.extended = s.extended /\ new.version = s.version
    /\ statement[1] = "drop" => /\ new.tables = s.tables \ {statement[2]}
                                /\ new.extended = s.extended \ {statement[2]} /\ new.version = s.version
    /\ statement[1] = "extend" => /\ new.tables = s.tables /\ new.version = s.version
                                  /\ new.extended = s.extended \cup {statement[2]}
    /\ statement[1] = "shrink" => /\ new.tables = s.tables /\ new.version = s.version
                                  /\ new.extended = s.extended \ {statement[2]}
    /\ statement[1] = "version" => /\ new.tables = s.tables /\ new.extended = s.extended
                                   /\ new.version = statement[2]

LEMMA Performed ==
    ASSUME NEW s \in SchemaSets, NEW statement, WellFormed(statement)
    PROVE  Changed(s, statement, Executed(s, statement))
<1>1. CASE statement[1] = "create"
  BY <1>1 DEF WellFormed, Executed, SchemaSets, Changed
<1>2. CASE statement[1] = "drop"
  BY <1>2 DEF WellFormed, Executed, SchemaSets, Changed
<1>3. CASE statement[1] = "extend"
  BY <1>3 DEF WellFormed, Executed, SchemaSets, Changed
<1>4. CASE statement[1] = "shrink"
  BY <1>4 DEF WellFormed, Executed, SchemaSets, Changed
<1>5. CASE statement[1] = "version"
  BY <1>5 DEF WellFormed, Executed, SchemaSets, Changed
<1> QED
  BY <1>1, <1>2, <1>3, <1>4, <1>5 DEF WellFormed

LEMMA AfterSteps ==
    ASSUME Schema \in SchemaSets, NEW undoing, NEW N \in Nat, Len(undoing) = N,
           \A n \in 1..N : WellFormed(undoing[n])
    PROVE  /\ After(undoing)[0] = Schema
           /\ \A n \in 0..N : After(undoing)[n] \in SchemaSets
           /\ \A n \in 1..N : After(undoing)[n] = Executed(After(undoing)[n - 1], undoing[n])
<1> DEFINE Is(f) == f = [n \in 0..N |-> IF n = 0 THEN Schema ELSE Executed(f[n - 1], undoing[n])]
           it == CHOOSE f : Is(f)
           base == Schema
<1>1. \E f : Is(f) /\ f \in [0..N -> SchemaSets]
  <2> DEFINE step == [xn \in SchemaSets \X (1..N) |-> Executed(xn[1], undoing[xn[2]])]
  <2>1. step \in [SchemaSets \X (1..N) -> SchemaSets]
    <3>1. \A s \in SchemaSets, n \in 1..N : Executed(s, undoing[n]) \in SchemaSets
      BY Performed DEF Changed
    <3> QED
      BY <3>1
  <2>2. \A s \in SchemaSets, n \in 1..N : step[<<s, n>>] = Executed(s, undoing[n])
    OBVIOUS
  <2> HIDE DEF step, base
  <2>3. base \in SchemaSets
    BY DEF base
  <2>4. PICK f : Iteration(f, SchemaSets, base, N, step)
    BY <2>1, <2>3, Iterated
  <2>5. f \in [0..N -> SchemaSets] /\ f[0] = base /\ \A n \in 1..N : f[n] = step[<<f[n - 1], n>>]
    BY <2>4 DEF Iteration
  <2>6. \A n \in 1..N : f[n] = Executed(f[n - 1], undoing[n])
    <3>1. ASSUME NEW n \in 1..N PROVE f[n - 1] \in SchemaSets
      BY <2>5
    <3> QED
      BY <2>2, <2>5, <3>1
  <2>7. \A n \in 0..N : f[n] = IF n = 0 THEN base ELSE Executed(f[n - 1], undoing[n])
    BY <2>5, <2>6
  <2>8. f = [n \in 0..N |-> f[n]]
    BY <2>5
  <2>9. f = [n \in 0..N |-> IF n = 0 THEN base ELSE Executed(f[n - 1], undoing[n])]
    BY <2>7, <2>8
  <2> QED
    BY <2>5, <2>9 DEF base
<1>2. Is(it)
  BY <1>1
<1>3. After(undoing) = it
  BY DEF After
<1> HIDE DEF it, base
<1>4. it[0] = Schema /\ \A n \in 1..N : it[n] = Executed(it[n - 1], undoing[n])
  BY <1>2
<1> DEFINE S == {n \in 0..N : it[n] \in SchemaSets}
<1>5. 0 \in S
  BY <1>4
<1>6. ASSUME NEW n \in 0..(N - 1), n \in S PROVE n + 1 \in S
  <2>1. n + 1 \in 1..N /\ n + 1 \in 0..N /\ (n + 1) - 1 = n
    OBVIOUS
  <2>2. it[n + 1] = Executed(it[n], undoing[n + 1])
    BY <1>4, <2>1
  <2>3. it[n] \in SchemaSets
    BY <1>6
  <2>4. Executed(it[n], undoing[n + 1]) \in SchemaSets
    BY <2>1, <2>3, Performed DEF Changed
  <2> QED
    BY <2>1, <2>2, <2>4
<1>7. \A n \in 0..N : n \in S
  <2> HIDE DEF S
  <2> QED
    BY <1>5, <1>6, BoundReached
<1> QED
  BY <1>3, <1>4, <1>7

LEMMA StatementsFormed == \A j \in 1..27 : WellFormed(Statements[j])
<1> SUFFICES ASSUME NEW j \in 1..27 PROVE WellFormed(Statements[j])
  OBVIOUS
<1> DEFINE statement == Statements[j]
<1>1. \/ statement[1] \in {"create", "extend"} /\ statement[2] \in TableNames
      \/ statement[1] = "version" /\ statement[2] \in 1..3
  BY StatementsOrdered DEF InOrder
<1> HIDE DEF statement
<1>2. WellFormed(statement)
  BY <1>1 DEF WellFormed
<1> QED
  BY <1>2 DEF statement

LEMMA TablesNamed ==
    /\ \A r \in 1..3 : TablesOf(Upgrades[r]) \subseteq TableNames
    /\ \A r \in 0..3 : ScriptTables(r) \subseteq TableNames
    /\ {"tickets", "leads"} \subseteq TableNames
  BY TablesListed, ScriptTablesListed DEF TableNames, FirstTables

\* One statement of an upgrade.
Upgraded(s, j, new) ==
    /\ new \in SchemaSets /\ s.tables \subseteq new.tables /\ s.extended \subseteq new.extended
    /\ DoneUpTo(new, j) /\ (Keyed(s) => Keyed(new))
    /\ new.version = s.version \/ (new.version \in 1..3 /\ End(new.version) = j)

LEMMA Forward ==
    ASSUME NEW s \in SchemaSets, NEW j \in 1..27, DoneUpTo(s, j - 1)
    PROVE  Upgraded(s, j, Executed(s, Statements[j]))
<1> DEFINE statement == Statements[j]
           new == Executed(s, statement)
<1>1. WellFormed(statement) /\ InOrder(j)
  BY StatementsFormed, StatementsOrdered
<1>2. Changed(s, statement, new) /\ new \in SchemaSets
  BY <1>1, Performed DEF Changed
<1> SUFFICES Upgraded(s, j, new)
  OBVIOUS
<1> HIDE DEF new
<1>3. ASSUME s.tables \subseteq new.tables, s.extended \subseteq new.extended,
             statement[1] = "create" => statement[2] \in new.tables,
             statement[1] = "extend" => statement[2] \in new.extended
      PROVE  DoneUpTo(new, j)
  <2>1. \A i \in 1..j : i = j \/ i \in 1..(j - 1)
    OBVIOUS
  <2> QED
    BY <1>3, <2>1 DEF DoneUpTo
<1>4. CASE statement[1] = "create"
  <2>1. new.tables = s.tables \cup {statement[2]} /\ new.extended = s.extended /\ new.version = s.version
    BY <1>2, <1>4 DEF Changed
  <2>2. References(statement[2]) \subseteq s.tables
    <3>1. \A u \in References(statement[2]) : \E i \in 1..(j - 1) : Statements[i] = <<"create", u>>
      BY <1>1, <1>4 DEF InOrder
    <3> QED
      BY <3>1 DEF DoneUpTo
  <2>3. Keyed(s) => Keyed(new)
    BY <2>1, <2>2 DEF Keyed
  <2>4. DoneUpTo(new, j)
    BY <1>3, <1>4, <2>1
  <2> QED
    BY <1>2, <2>1, <2>3, <2>4 DEF Upgraded
<1>5. CASE statement[1] = "extend"
  <2>1. new.tables = s.tables /\ new.extended = s.extended \cup {statement[2]} /\ new.version = s.version
    BY <1>2, <1>5 DEF Changed
  <2>2. Keyed(s) => Keyed(new)
    BY <2>1 DEF Keyed
  <2>3. DoneUpTo(new, j)
    BY <1>3, <1>5, <2>1
  <2> QED
    BY <1>2, <2>1, <2>2, <2>3 DEF Upgraded
<1>6. CASE statement[1] = "version"
  <2>1. new.tables = s.tables /\ new.extended = s.extended /\ new.version = statement[2]
    BY <1>2, <1>6 DEF Changed
  <2>2. statement[2] \in 1..3 /\ End(statement[2]) = j
    BY <1>1, <1>6 DEF InOrder
  <2>3. Keyed(s) => Keyed(new)
    BY <2>1 DEF Keyed
  <2>4. DoneUpTo(new, j)
    BY <1>3, <1>6, <2>1
  <2> QED
    BY <1>2, <2>1, <2>2, <2>3, <2>4 DEF Upgraded
<1> QED
  BY <1>1, <1>4, <1>5, <1>6 DEF InOrder

\* One statement of a downgrade.
Downgraded(s, r, n, new) ==
    /\ new \in SchemaSets /\ new.tables \subseteq s.tables
    /\ DoneUpTo(new, End(r - 1))
    /\ new.version = IF n = Len(DowngradePlan(r)) THEN r - 1 ELSE s.version

LEMMA PlansFormed ==
    \A r \in 1..3 : /\ Len(DowngradePlan(r)) \in Nat /\ Len(DowngradePlan(r)) > 0
                    /\ \A n \in 1..Len(DowngradePlan(r)) : WellFormed(DowngradePlan(r)[n])
<1> SUFFICES ASSUME NEW r \in 1..3
             PROVE  /\ Len(DowngradePlan(r)) \in Nat /\ Len(DowngradePlan(r)) > 0
                    /\ \A n \in 1..Len(DowngradePlan(r)) : WellFormed(DowngradePlan(r)[n])
  OBVIOUS
<1>1. Len(DowngradePlan(r)) \in Nat /\ Len(DowngradePlan(r)) > 0
  <2>1. Len(Undone(1)) = 10 /\ Len(Undone(2)) = 9 /\ Len(Undone(3)) = 8
    BY DEF Undone
  <2>2. /\ DowngradePlan(1) = Undone(1) /\ DowngradePlan(2) = Undone(2)
        /\ DowngradePlan(3) = Undone(3)
    BY DowngradeListed
  <2>3. Len(DowngradePlan(1)) = 10 /\ Len(DowngradePlan(2)) = 9 /\ Len(DowngradePlan(3)) = 8
    BY <2>1, <2>2, Zenon
  <2>4. r = 1 \/ r = 2 \/ r = 3
    OBVIOUS
  <2>5. Len(DowngradePlan(r)) \in {10, 9, 8}
    BY <2>3, <2>4, Zenon
  <2> QED
    BY <2>5
<1>2. ASSUME NEW n \in 1..Len(DowngradePlan(r)) PROVE WellFormed(DowngradePlan(r)[n])
  <2> DEFINE statement == DowngradePlan(r)[n]
  <2>1. \/ statement[1] = "version" /\ statement[2] = r - 1
        \/ statement[1] = "drop" /\ statement[2] \in TablesOf(Upgrades[r])
        \/ statement[1] = "shrink" /\ statement[2] \in {"tickets", "leads"}
    BY DowngradesOrdered DEF UndoneInOrder
  <2> HIDE DEF statement
  <2>2. TablesOf(Upgrades[r]) \subseteq TableNames /\ {"tickets", "leads"} \subseteq TableNames
    BY TablesNamed
  <2>3. WellFormed(statement)
    BY <2>1, <2>2 DEF WellFormed
  <2> QED
    BY <2>3 DEF statement
<1> QED
  BY <1>1, <1>2

LEMMA EndsInside == \A r \in 0..3 : End(r) \in 0..27
<1> SUFFICES ASSUME NEW r \in 0..3 PROVE End(r) \in 0..27
  OBVIOUS
<1>1. r = 0 \/ r = 1 \/ r = 2 \/ r = 3
  OBVIOUS
<1>2. End(r) \in {0, 10, 19, 27}
  BY <1>1, StatementsListed, Zenon
<1> QED
  BY <1>2

LEMMA Backward ==
    ASSUME NEW s \in SchemaSets, NEW r \in 1..3, NEW n \in 1..Len(DowngradePlan(r)),
           DoneUpTo(s, End(r - 1))
    PROVE  Downgraded(s, r, n, Executed(s, DowngradePlan(r)[n]))
<1> DEFINE undoing == DowngradePlan(r)
           statement == undoing[n]
           new == Executed(s, statement)
           N == End(r - 1)
<1>1. WellFormed(statement) /\ UndoneInOrder(r, n)
  BY PlansFormed, DowngradesOrdered
<1>2. Changed(s, statement, new) /\ new \in SchemaSets
  BY <1>1, Performed DEF Changed
<1>3. N \in 0..27
  <2>1. r - 1 \in 0..3
    OBVIOUS
  <2> QED
    BY <2>1, EndsInside
<1>4. \A t \in TablesOf(Upgrades[r]) : \A j \in 1..N :
        Statements[j][1] \in {"create", "extend"} => Statements[j][2] # t
  BY MadeOnce
<1>5. DoneUpTo(s, N)
  OBVIOUS
<1>6. \/ n = Len(undoing) /\ statement[1] = "version" /\ statement[2] = r - 1
      \/ n < Len(undoing) /\ statement[1] = "drop" /\ statement[2] \in TablesOf(Upgrades[r])
      \/ /\ n < Len(undoing) /\ statement[1] = "shrink"
         /\ \A j \in 1..N : Statements[j][1] = "extend" => Statements[j][2] # statement[2]
  BY <1>1 DEF UndoneInOrder
<1> SUFFICES Downgraded(s, r, n, new)
  OBVIOUS
<1> HIDE DEF new
<1>7. CASE n = Len(undoing) /\ statement[1] = "version" /\ statement[2] = r - 1
  <2>1. new.tables = s.tables /\ new.extended = s.extended /\ new.version = r - 1
    BY <1>2, <1>7 DEF Changed
  <2>2. DoneUpTo(new, N)
    BY <1>5, <2>1 DEF DoneUpTo
  <2> QED
    BY <1>2, <1>7, <2>1, <2>2 DEF Downgraded
<1>8. CASE n < Len(undoing) /\ statement[1] = "drop" /\ statement[2] \in TablesOf(Upgrades[r])
  <2>1. /\ new.tables = s.tables \ {statement[2]} /\ new.version = s.version
        /\ new.extended = s.extended \ {statement[2]}
    BY <1>2, <1>8 DEF Changed
  <2>2. \A j \in 1..N : Statements[j][1] \in {"create", "extend"} => Statements[j][2] # statement[2]
    BY <1>4, <1>8
  <2>3. DoneUpTo(new, N)
    BY <1>5, <2>1, <2>2 DEF DoneUpTo
  <2>4. n # Len(undoing)
    BY <1>8, PlansFormed
  <2> QED
    BY <1>2, <2>1, <2>3, <2>4 DEF Downgraded
<1>9. CASE /\ n < Len(undoing) /\ statement[1] = "shrink"
           /\ \A j \in 1..N : Statements[j][1] = "extend" => Statements[j][2] # statement[2]
  <2>1. /\ new.tables = s.tables /\ new.version = s.version
        /\ new.extended = s.extended \ {statement[2]}
    BY <1>2, <1>9 DEF Changed
  <2>2. DoneUpTo(new, N)
    BY <1>5, <1>9, <2>1 DEF DoneUpTo
  <2>3. n # Len(undoing)
    BY <1>9, PlansFormed
  <2> QED
    BY <1>2, <2>1, <2>2, <2>3 DEF Downgraded
<1> QED
  BY <1>6, <1>7, <1>8, <1>9
-------------------------------------------------------------------------------
(* Schema: what holds of it. *)

SchemaTyped ==
    /\ dialect \in {"postgresql", "sqlite"}
    /\ Schema \in SchemaSets
    /\ container \in [Containers -> {"down", "upgrade", "init", "serving"}]
    /\ reached \in [Containers -> 0..27]
    /\ migrated \subseteq Containers
    /\ operator \in Nat
    /\ clean \in BOOLEAN

\* What an upgrade takes for done is done, what a downgrade has left undoes the tables in
\* the order of their keys, and an upgrade that succeeded has done all.
UndoingInOrder(s, left) ==
    LET undoing == DowngradePlan(s.version)
    IN  /\ s.version \in 1..3 /\ left <= Len(undoing)
        /\ DoneUpTo(s, End(s.version - 1)) /\ s.tables \subseteq ScriptTables(s.version)
        /\ \A i \in 1..(Len(undoing) - left) : undoing[i][1] = "drop" => undoing[i][2] \notin s.tables

SchemaInv ==
    /\ operator > 0 => /\ dialect = "sqlite" /\ version \in 1..3 /\ operator <= Len(DowngradePlan(version))
                       /\ \A c \in Containers : container[c] = "down"
    /\ \A c \in migrated : container[c] # "upgrade"
    /\ Fine => /\ Keyed(Schema)
               /\ operator = 0 => DoneUpTo(Schema, End(version))
               /\ operator > 0 => UndoingInOrder(Schema, operator)
               /\ \A c \in Containers : container[c] = "upgrade" => DoneUpTo(Schema, reached[c])
               /\ \A c \in migrated : container[c] \in {"init", "serving"} => DoneUpTo(Schema, 27)

LEMMA MadeByScripts ==
    \A r \in 0..3 : \A t \in ScriptTables(r) : \E j \in 1..End(r) :
       Statements[j][1] = "create" /\ Statements[j][2] = t
<1>1. \A t \in FirstTables : \E j \in 1..10 : Statements[j][1] = "create" /\ Statements[j][2] = t
  BY StatementsListed DEF FirstTables, Listed
<1>2. \A t \in SecondTables : \E j \in 1..19 : Statements[j][1] = "create" /\ Statements[j][2] = t
  BY StatementsListed DEF SecondTables, Listed
<1>3. \A t \in ThirdTables : \E j \in 1..27 : Statements[j][1] = "create" /\ Statements[j][2] = t
  BY StatementsListed DEF ThirdTables, Listed
<1>4. \A r \in 0..3 : r = 0 \/ r = 1 \/ r = 2 \/ r = 3
  OBVIOUS
<1>5. 1..10 \subseteq 1..19 /\ 1..10 \subseteq 1..27 /\ 1..19 \subseteq 1..27
  OBVIOUS
<1>6. \A t \in FirstTables \cup SecondTables : \E j \in 1..19 : Statements[j][1] = "create" /\ Statements[j][2] = t
  BY <1>1, <1>2, <1>5
<1>7. \A t \in FirstTables \cup SecondTables \cup ThirdTables :
        \E j \in 1..27 : Statements[j][1] = "create" /\ Statements[j][2] = t
  BY <1>3, <1>5, <1>6
<1> DEFINE Given(r) == \A t \in ScriptTables(r) : \E j \in 1..End(r) :
                          Statements[j][1] = "create" /\ Statements[j][2] = t
<1>8. Given(0)
  BY ScriptTablesListed
<1>9. Given(1)
  BY <1>1, ScriptTablesListed, StatementsListed
<1>10. Given(2)
  BY <1>6, ScriptTablesListed, StatementsListed
<1>11. Given(3)
  BY <1>7, ScriptTablesListed, StatementsListed
<1> HIDE DEF Given
<1>12. \A r \in 0..3 : Given(r)
  BY <1>4, <1>8, <1>9, <1>10, <1>11, Zenon
<1> QED
  BY <1>12 DEF Given

LEMMA DoneMeans ==
    ASSUME NEW s, NEW r \in 0..3, DoneUpTo(s, End(r))
    PROVE  /\ ScriptTables(r) \subseteq s.tables
           /\ r >= 2 => "tickets" \in s.extended
           /\ r >= 3 => "leads" \in s.extended
<1>1. ScriptTables(r) \subseteq s.tables
  BY MadeByScripts DEF DoneUpTo
<1>2. /\ Statements[18][1] = "extend" /\ Statements[18][2] = "tickets"
      /\ Statements[26][1] = "extend" /\ Statements[26][2] = "leads"
  BY Extensions
<1>3. ASSUME r >= 2 PROVE "tickets" \in s.extended
  <2>1. 18 \in 1..End(2) /\ 18 \in 1..End(3) /\ (r = 2 \/ r = 3)
    BY <1>3, StatementsListed
  <2>2. 18 \in 1..End(r)
    BY <2>1
  <2> QED
    BY <1>2, <2>2 DEF DoneUpTo
<1>4. ASSUME r >= 3 PROVE "leads" \in s.extended
  <2>1. 26 \in 1..End(3) /\ r = 3
    BY <1>4, StatementsListed
  <2> QED
    BY <1>2, <2>1 DEF DoneUpTo
<1> QED
  BY <1>1, <1>3, <1>4

LEMMA DoneStays ==
    ASSUME NEW s, NEW new, NEW n, DoneUpTo(s, n), s.tables \subseteq new.tables, s.extended \subseteq new.extended
    PROVE  DoneUpTo(new, n)
BY DEF DoneUpTo

LEMMA DoneBefore ==
    ASSUME NEW s, NEW r \in 1..3, DoneUpTo(s, End(r))
    PROVE  DoneUpTo(s, End(r - 1))
<1>1. End(1 - 1) <= End(1) /\ End(2 - 1) <= End(2) /\ End(3 - 1) <= End(3)
  BY StatementsListed
<1>2. End(r - 1) \in 0..27 /\ End(r) \in 0..27
  <2>1. r - 1 \in 0..3 /\ r \in 0..3
    OBVIOUS
  <2> QED
    BY <2>1, EndsInside
<1>3. r = 1 \/ r = 2 \/ r = 3
  OBVIOUS
<1>4. End(r - 1) <= End(r)
  BY <1>1, <1>3, Zenon
<1>5. 1..End(r - 1) \subseteq 1..End(r)
  BY <1>2, <1>4
<1> QED
  BY <1>5 DEF DoneUpTo

\* A step of a container keeps the invariant when the schema grows and keeps its promises.
LEMMA ContainerSteps ==
    ASSUME SchemaTyped, SchemaInv, operator = 0, UNCHANGED <<dialect, operator, clean>>,
           container' \in [Containers -> {"down", "upgrade", "init", "serving"}],
           reached' \in [Containers -> 0..27], migrated' \subseteq Containers, Schema' \in SchemaSets,
           \A c \in migrated' : container'[c] # "upgrade",
           Fine => /\ tables \subseteq tables' /\ extended \subseteq extended'
                   /\ Keyed(Schema') /\ DoneUpTo(Schema', End(version'))
                   /\ \A c \in Containers : container'[c] = "upgrade" =>
                        \/ container[c] = "upgrade" /\ reached'[c] = reached[c]
                        \/ DoneUpTo(Schema', reached'[c])
                   /\ \A c \in migrated' : container'[c] \in {"init", "serving"} =>
                        \/ c \in migrated /\ container[c] \in {"init", "serving"}
                        \/ DoneUpTo(Schema', 27)
    PROVE  SchemaTyped' /\ SchemaInv'
<1>1. SchemaTyped'
  BY DEF SchemaTyped
<1>2. operator' = 0 /\ (Fine' <=> Fine)
  BY DEF Fine
<1> DEFINE old == Schema
           new == Schema'
<1>3. ASSUME Fine
      PROVE  /\ Keyed(new) /\ DoneUpTo(new, End(version'))
             /\ \A c \in Containers : container'[c] = "upgrade" => DoneUpTo(new, reached'[c])
             /\ \A c \in migrated' : container'[c] \in {"init", "serving"} => DoneUpTo(new, 27)
  <2>1. old.tables \subseteq new.tables /\ old.extended \subseteq new.extended
    BY <1>3 DEF Schema
  <2>2. \A c \in Containers : container[c] = "upgrade" => DoneUpTo(old, reached[c])
    BY <1>3 DEF SchemaInv
  <2>3. \A c \in migrated : container[c] \in {"init", "serving"} => DoneUpTo(old, 27)
    BY <1>3 DEF SchemaInv
  <2>4. /\ Keyed(new) /\ DoneUpTo(new, End(version'))
        /\ \A c \in Containers : container'[c] = "upgrade" =>
             \/ container[c] = "upgrade" /\ reached'[c] = reached[c]
             \/ DoneUpTo(new, reached'[c])
        /\ \A c \in migrated' : container'[c] \in {"init", "serving"} =>
             \/ c \in migrated /\ container[c] \in {"init", "serving"}
             \/ DoneUpTo(new, 27)
    BY <1>3
  <2> HIDE DEF old, new
  <2> QED
    BY <2>1, <2>2, <2>3, <2>4, DoneStays
<1>4. \A c \in migrated' : container'[c] # "upgrade"
  OBVIOUS
<1> QED
  BY <1>1, <1>2, <1>3, <1>4 DEF SchemaInv

LEMMA NothingMore == Fine /\ SchemaInv /\ operator = 0 /\ version \in 0..3 => DoneUpTo(Schema, End(version))
BY DEF SchemaInv

LEMMA StartKeeps ==
    ASSUME SchemaTyped, SchemaInv, NEW c \in Containers, StartContainer(c)
    PROVE  SchemaTyped' /\ SchemaInv'
<1>1. operator = 0 /\ UNCHANGED <<dialect, tables, extended, version, operator, clean>>
  BY DEF StartContainer
<1>2. Schema' = Schema /\ Schema \in SchemaSets /\ End(version) \in 0..27
  <2>1. version \in 0..3
    BY DEF SchemaTyped, Schema, SchemaSets
  <2> QED
    BY <1>1, <2>1, EndsInside DEF SchemaTyped, Schema
<1>3. /\ container' = [container EXCEPT ![c] = "upgrade"] /\ reached' = [reached EXCEPT ![c] = End(version)]
      /\ migrated' = migrated \ {c}
  BY DEF StartContainer, Stage
<1>4. /\ container' \in [Containers -> {"down", "upgrade", "init", "serving"}]
      /\ reached' \in [Containers -> 0..27] /\ migrated' \subseteq Containers
  BY <1>2, <1>3 DEF SchemaTyped
<1>5. \A d \in Containers : d # c => container'[d] = container[d] /\ reached'[d] = reached[d]
  BY <1>3 DEF SchemaTyped
<1>6. container'[c] = "upgrade" /\ reached'[c] = End(version)
  BY <1>3 DEF SchemaTyped
<1>7. \A d \in migrated' : d # c /\ d \in migrated /\ d \in Containers
  BY <1>3 DEF SchemaTyped
<1>8. \A d \in migrated' : container'[d] # "upgrade"
  BY <1>5, <1>7 DEF SchemaInv
<1>9. ASSUME Fine
      PROVE  /\ tables \subseteq tables' /\ extended \subseteq extended'
             /\ Keyed(Schema') /\ DoneUpTo(Schema', End(version'))
             /\ \A d \in Containers : container'[d] = "upgrade" =>
                  \/ container[d] = "upgrade" /\ reached'[d] = reached[d]
                  \/ DoneUpTo(Schema', reached'[d])
             /\ \A d \in migrated' : container'[d] \in {"init", "serving"} =>
                  \/ d \in migrated /\ container[d] \in {"init", "serving"}
                  \/ DoneUpTo(Schema', 27)
  <2>1. Keyed(Schema) /\ DoneUpTo(Schema, End(version))
    BY <1>1, <1>9 DEF SchemaInv
  <2> QED
    BY <1>1, <1>2, <1>5, <1>6, <1>7, <2>1
<1> QED
  BY <1>1, <1>2, <1>4, <1>8, <1>9, ContainerSteps

\* Steps of a container that leave the schema and the promises alone.
LEMMA QuietSteps ==
    ASSUME SchemaTyped, SchemaInv, NEW c \in Containers,
           UNCHANGED <<dialect, tables, extended, version, operator, clean>>,
           container[c] # "down", reached' \in [Containers -> 0..27],
           NEW next \in {"down", "init", "serving"}, container' = [container EXCEPT ![c] = next],
           \A d \in Containers : d # c => reached'[d] = reached[d],
           \/ migrated' = migrated
           \/ container[c] = "upgrade" /\ reached[c] = 27 /\ migrated' = migrated \cup {c}
    PROVE  SchemaTyped' /\ SchemaInv'
<1>1. operator = 0
  BY DEF SchemaInv, SchemaTyped
<1>2. Schema' = Schema /\ Schema \in SchemaSets
  BY DEF SchemaTyped, Schema
<1>3. container' \in [Containers -> {"down", "upgrade", "init", "serving"}] /\ migrated' \subseteq Containers
  BY DEF SchemaTyped
<1>4. \A d \in Containers : d # c => container'[d] = container[d]
  BY DEF SchemaTyped
<1>5. container'[c] = next
  BY DEF SchemaTyped
<1>6. \A d \in migrated' : d \in migrated \/ (d = c /\ reached[c] = 27 /\ container[c] = "upgrade")
  OBVIOUS
<1>7. \A d \in migrated' : container'[d] # "upgrade"
  BY <1>3, <1>4, <1>5, <1>6 DEF SchemaInv
<1>8. ASSUME Fine
      PROVE  /\ tables \subseteq tables' /\ extended \subseteq extended'
             /\ Keyed(Schema') /\ DoneUpTo(Schema', End(version'))
             /\ \A d \in Containers : container'[d] = "upgrade" =>
                  \/ container[d] = "upgrade" /\ reached'[d] = reached[d]
                  \/ DoneUpTo(Schema', reached'[d])
             /\ \A d \in migrated' : container'[d] \in {"init", "serving"} =>
                  \/ d \in migrated /\ container[d] \in {"init", "serving"}
                  \/ DoneUpTo(Schema', 27)
  <2>1. Keyed(Schema) /\ DoneUpTo(Schema, End(version))
    BY <1>1, <1>8 DEF SchemaInv
  <2>2. ASSUME NEW d \in Containers, container'[d] = "upgrade"
        PROVE  container[d] = "upgrade" /\ reached'[d] = reached[d]
    BY <1>4, <1>5, <2>2
  <2>3. ASSUME NEW d \in migrated', container'[d] \in {"init", "serving"}
        PROVE  \/ d \in migrated /\ container[d] \in {"init", "serving"}
               \/ DoneUpTo(Schema', 27)
    <3>1. CASE d # c
      BY <1>3, <1>4, <1>6, <2>3, <3>1
    <3>2. CASE d = c /\ d \in migrated
      <4>1. container[c] # "upgrade" /\ container[c] \in {"down", "upgrade", "init", "serving"}
        BY <3>2 DEF SchemaInv, SchemaTyped
      <4> QED
        BY <3>2, <4>1
    <3>3. CASE d = c /\ d \notin migrated
      <4>1. reached[c] = 27 /\ container[c] = "upgrade"
        BY <1>6, <2>3, <3>3
      <4>2. DoneUpTo(Schema, 27)
        BY <1>8, <4>1 DEF SchemaInv
      <4> QED
        BY <1>2, <4>2
    <3> QED
      BY <3>1, <3>2, <3>3
  <2> QED
    BY <1>2, <2>1, <2>2, <2>3
<1> QED
  BY <1>1, <1>2, <1>3, <1>7, <1>8, ContainerSteps

LEMMA QuietKeeps ==
    ASSUME SchemaTyped, SchemaInv, NEW c \in Containers,
           UpgradeDone(c) \/ UpgradeFails(c) \/ InitDbFails(c) \/ ContainerStops(c)
    PROVE  SchemaTyped' /\ SchemaInv'
<1>1. [reached EXCEPT ![c] = 0] \in [Containers -> 0..27] /\ reached \in [Containers -> 0..27]
      /\ \A d \in Containers : d # c => [reached EXCEPT ![c] = 0][d] = reached[d]
  BY DEF SchemaTyped
<1>2. CASE UpgradeDone(c)
  <2>1. /\ container[c] = "upgrade" /\ reached[c] = 27
        /\ container' = [container EXCEPT ![c] = "init"] /\ migrated' = migrated \cup {c}
        /\ UNCHANGED <<dialect, tables, extended, version, operator, clean>> /\ reached' = reached
    <3>1. Len(Statements) = 27
      BY StatementsListed DEF End
    <3> QED
      BY <1>2, <3>1 DEF UpgradeDone, Stage
  <2> QED
    BY <1>1, <2>1, QuietSteps
<1>3. CASE UpgradeFails(c)
  <2>1. /\ container[c] = "upgrade" /\ migrated' = migrated
        /\ container' = [container EXCEPT ![c] = "init"]
        /\ UNCHANGED <<dialect, tables, extended, version, operator, clean>>
        /\ reached' = [reached EXCEPT ![c] = 0]
    BY <1>3 DEF UpgradeFails, Stage
  <2> QED
    BY <1>1, <2>1, QuietSteps
<1>4. CASE InitDbFails(c)
  <2>1. /\ container[c] = "init" /\ migrated' = migrated
        /\ container' = [container EXCEPT ![c] = "serving"]
        /\ UNCHANGED <<dialect, tables, extended, version, operator, clean>> /\ reached' = reached
    BY <1>4 DEF InitDbFails, Stage
  <2> QED
    BY <1>1, <2>1, QuietSteps
<1>5. CASE ContainerStops(c)
  <2>1. /\ container[c] # "down" /\ migrated' = migrated
        /\ container' = [container EXCEPT ![c] = "down"]
        /\ UNCHANGED <<dialect, tables, extended, version, operator, clean>>
        /\ reached' = [reached EXCEPT ![c] = 0]
    BY <1>5 DEF ContainerStops, Stage
  <2> QED
    BY <1>1, <2>1, QuietSteps
<1> QED
  BY <1>2, <1>3, <1>4, <1>5
-------------------------------------------------------------------------------
(* Schema: init_db, upgrades and downgrades. *)

LEMMA InitDbKeeps ==
    ASSUME SchemaTyped, SchemaInv, NEW c \in Containers, InitDb(c)
    PROVE  SchemaTyped' /\ SchemaInv'
<1> DEFINE missing == ModelTables \ tables
<1>1. container[c] = "init" /\ UNCHANGED <<dialect, version, reached, migrated, operator, clean>>
  BY DEF InitDb
<1>2. operator = 0
  BY <1>1 DEF SchemaInv, SchemaTyped
<1>3. PICK new : /\ tables' = tables \cup new /\ extended' = extended \cup (new \cap {"tickets", "leads"})
                 /\ new \subseteq missing
                 /\ \/ new = missing
                    \/ \E t \in missing : new = {t} /\ References(t) \cap ModelTables \subseteq tables
  BY DEF InitDb
<1>4. container' = container \/ container' = [container EXCEPT ![c] = "serving"]
  BY DEF InitDb, Stage
<1>5. Schema' \in SchemaSets
  <2>1. {"tickets", "leads"} \subseteq TableNames /\ missing \subseteq TableNames
    BY TablesNamed DEF TableNames
  <2>2. tables' \subseteq TableNames /\ extended' \subseteq TableNames /\ version' \in 0..3
    BY <1>1, <1>3, <2>1 DEF SchemaTyped, Schema, SchemaSets
  <2> QED
    BY <2>2 DEF Schema, SchemaSets
<1>6. container' \in [Containers -> {"down", "upgrade", "init", "serving"}]
  BY <1>4 DEF SchemaTyped
<1>7. \A d \in Containers : container'[d] = container[d] \/ (container[d] = "init" /\ container'[d] = "serving")
  BY <1>1, <1>4 DEF SchemaTyped
<1>8. Keyed(Schema) => Keyed(Schema')
  <2> SUFFICES ASSUME Keyed(Schema), NEW u \in tables' PROVE References(u) \subseteq tables'
    BY DEF Keyed, Schema
  <2>1. CASE u \in tables
    BY <1>3, <2>1 DEF Keyed, Schema
  <2>2. CASE u \in new
    <3>1. u \in ModelTables /\ References(u) \subseteq ModelTables
      BY <1>3, <2>2, ModelsKeepKeys
    <3> QED
      BY <1>3, <2>2, <3>1
  <2> QED
    BY <1>3, <2>1, <2>2
<1>9. tables \subseteq tables' /\ extended \subseteq extended'
  BY <1>3
<1>10. migrated \subseteq Containers /\ reached \in [Containers -> 0..27]
  BY DEF SchemaTyped
<1>11. \A d \in migrated' : container'[d] # "upgrade"
  BY <1>1, <1>7, <1>10 DEF SchemaInv
<1>12. ASSUME Fine
       PROVE  /\ Keyed(Schema') /\ DoneUpTo(Schema', End(version'))
              /\ \A d \in Containers : container'[d] = "upgrade" =>
                   container[d] = "upgrade" /\ reached'[d] = reached[d]
              /\ \A d \in migrated' : container'[d] \in {"init", "serving"} =>
                   d \in migrated /\ container[d] \in {"init", "serving"}
  <2>1. DoneUpTo(Schema', End(version'))
    <3>1. DoneUpTo(Schema, End(version))
      BY <1>2, <1>12 DEF SchemaInv
    <3>2. Schema.tables \subseteq Schema'.tables /\ Schema.extended \subseteq Schema'.extended
      BY <1>9 DEF Schema
    <3> QED
      BY <1>1, <3>1, <3>2, DoneStays
  <2>2. Keyed(Schema')
    BY <1>8, <1>12 DEF SchemaInv
  <2> QED
    BY <1>1, <1>7, <1>10, <2>1, <2>2
<1> QED
  BY <1>1, <1>2, <1>5, <1>6, <1>9, <1>10, <1>11, <1>12, ContainerSteps

\* PostgreSQL executes what is left of the scripts together.
LEMMA LeftKeeps ==
    ASSUME SchemaTyped, dialect = "postgresql", NEW c \in Containers, reached[c] < 27,
           reached[c] = End(version), Keyed(Schema), DoneUpTo(Schema, End(version))
    PROVE  LET new == After(Left(c))[Len(Left(c))]
           IN  /\ new \in SchemaSets /\ tables \subseteq new.tables /\ extended \subseteq new.extended
               /\ Keyed(new) /\ DoneUpTo(new, 27) /\ DoneUpTo(new, End(new.version))
<1> DEFINE p == reached[c]
           N == 27 - p
           pending == Left(c)
           it == After(pending)
<1>1. p \in 0..26 /\ N \in 1..27
  BY DEF SchemaTyped
<1>2. Len(pending) = N /\ \A n \in 1..N : pending[n] = Statements[p + n]
  <2> DEFINE S == {Statements[i] : i \in 1..27}
             list == Statements
  <2>1. Len(list) = 27
    BY StatementsListed DEF End
  <2>2. \A i \in (p + 1)..27 : list[i] \in S
    BY <1>1
  <2>3. p + 1 \in Int /\ p + 1 <= 27 /\ pending = SubSeq(list, p + 1, 27)
    BY <1>1, <2>1 DEF Left
  <2> HIDE DEF S, list, pending, p
  <2>4. /\ Len(pending) = 27 - (p + 1) + 1
        /\ \A n \in 1..(27 - (p + 1) + 1) : pending[n] = list[(p + 1) + n - 1]
    BY <1>1, <2>2, <2>3, SubSeqProperties
  <2>5. Len(pending) = N
    BY <1>1, <2>4
  <2>6. ASSUME NEW n \in 1..N PROVE pending[n] = list[p + n]
    <3>1. n \in 1..(27 - (p + 1) + 1) /\ (p + 1) + n - 1 = p + n
      BY <1>1
    <3>2. pending[n] = list[(p + 1) + n - 1]
      BY <2>4, <3>1
    <3> QED
      BY <3>1, <3>2
  <2> QED
    BY <2>5, <2>6 DEF list
<1> HIDE DEF pending, p, it
<1>3. \A n \in 1..N : WellFormed(pending[n]) /\ p + n \in 1..27
  <2> SUFFICES ASSUME NEW n \in 1..N PROVE WellFormed(pending[n]) /\ p + n \in 1..27
    OBVIOUS
  <2>1. p + n \in 1..27
    BY <1>1
  <2>2. WellFormed(Statements[p + n])
    BY <2>1, StatementsFormed
  <2> QED
    BY <1>2, <2>1, <2>2
<1>4. /\ it[0] = Schema /\ \A n \in 0..N : it[n] \in SchemaSets
      /\ \A n \in 1..N : it[n] = Executed(it[n - 1], pending[n])
  <2>1. Schema \in SchemaSets
    BY DEF SchemaTyped
  <2>2. N \in Nat
    BY <1>1
  <2> HIDE DEF N
  <2> QED
    BY <1>2, <1>3, <2>1, <2>2, AfterSteps DEF it
<1> DEFINE old == Schema
           Kept(n) == /\ old.tables \subseteq it[n].tables /\ old.extended \subseteq it[n].extended
                      /\ Keyed(it[n]) /\ DoneUpTo(it[n], p + n) /\ DoneUpTo(it[n], End(it[n].version))
           T == {n \in 0..N : Kept(n)}
<1>5. 0 \in T
  <2>1. old.version = version /\ it[0] = old
    BY <1>4 DEF Schema
  <2>2. Keyed(old) /\ DoneUpTo(old, End(version)) /\ p = End(version)
    BY DEF p
  <2> HIDE DEF old
  <2>3. Kept(0)
    BY <1>1, <2>1, <2>2
  <2> QED
    BY <1>1, <2>3
<1>6. ASSUME NEW n \in 0..(N - 1), n \in T PROVE n + 1 \in T
  <2>1. n + 1 \in 1..N /\ n + 1 \in 0..N /\ (n + 1) - 1 = n /\ (p + (n + 1)) - 1 = p + n /\ n \in 0..N
    BY <1>1
  <2>2. it[n + 1] = Executed(it[n], Statements[p + (n + 1)]) /\ p + (n + 1) \in 1..27
    BY <1>2, <1>3, <1>4, <2>1
  <2>3. Kept(n) /\ it[n] \in SchemaSets
    BY <1>4, <1>6, <2>1
  <2> DEFINE before == it[n]
             after == it[n + 1]
             j == p + (n + 1)
  <2> HIDE DEF old, before, after, j
  <2>4. Upgraded(before, j, after)
    <3>1. DoneUpTo(before, j - 1) /\ before \in SchemaSets /\ j \in 1..27
      BY <2>1, <2>2, <2>3 DEF before, j
    <3>2. after = Executed(before, Statements[j])
      BY <2>2 DEF before, after, j
    <3> QED
      BY <3>1, <3>2, Forward
  <2>5. /\ old.tables \subseteq after.tables /\ old.extended \subseteq after.extended
        /\ Keyed(after) /\ DoneUpTo(after, j)
    BY <2>3, <2>4 DEF Upgraded, before
  <2>6. DoneUpTo(after, End(after.version))
    <3>1. CASE after.version = before.version
      <4>1. DoneUpTo(before, End(before.version))
        BY <2>3 DEF before
      <4> QED
        BY <2>4, <3>1, <4>1, DoneStays DEF Upgraded
    <3>2. CASE End(after.version) = j
      BY <2>5, <3>2
    <3> QED
      BY <2>4, <3>1, <3>2 DEF Upgraded
  <2>7. Kept(n + 1)
    BY <2>5, <2>6 DEF after, j
  <2> QED
    BY <2>1, <2>7
<1>7. N \in T
  <2>1. N \in Nat
    BY <1>1
  <2> HIDE DEF T, N
  <2>2. \A n \in 0..N : n \in T
    BY <1>5, <1>6, <2>1, BoundReached
  <2> QED
    BY <2>1, <2>2
<1>8. Kept(N) /\ it[N] \in SchemaSets /\ p + N = 27
  BY <1>1, <1>4, <1>7
<1>9. old.tables = tables /\ old.extended = extended
  BY DEF Schema
<1> HIDE DEF old
<1>10. LET new == it[N]
       IN  /\ new \in SchemaSets /\ tables \subseteq new.tables /\ extended \subseteq new.extended
           /\ Keyed(new) /\ DoneUpTo(new, 27) /\ DoneUpTo(new, End(new.version))
  BY <1>8, <1>9
<1> QED
  BY <1>2, <1>10 DEF it, pending

LEMMA UpgradeKeeps ==
    ASSUME SchemaTyped, SchemaInv, NEW c \in Containers, RunMigrationsOnline(c)
    PROVE  SchemaTyped' /\ SchemaInv'
<1>1. /\ container[c] = "upgrade" /\ reached[c] < Len(Statements)
      /\ UNCHANGED <<dialect, container, migrated, operator, clean>>
  BY DEF RunMigrationsOnline
<1>2. Len(Statements) = 27
  BY StatementsListed DEF End
<1>3. operator = 0
  BY <1>1 DEF SchemaInv, SchemaTyped
<1>4. reached[c] \in 0..26 /\ Schema \in SchemaSets /\ version \in 0..3
  BY <1>1, <1>2 DEF SchemaTyped, Schema, SchemaSets
<1>5. \A d \in migrated' : container'[d] # "upgrade" /\ d # c
  BY <1>1 DEF SchemaInv
<1>6. ASSUME NEW n \in 0..27, reached' = [reached EXCEPT ![c] = n], NEW new \in SchemaSets, Become(new),
             Fine => /\ tables \subseteq new.tables /\ extended \subseteq new.extended
                     /\ Keyed(new) /\ DoneUpTo(new, n) /\ DoneUpTo(new, End(new.version))
      PROVE  SchemaTyped' /\ SchemaInv'
  <2>1. Schema' = new
    BY <1>6 DEF Schema, Become, SchemaSets
  <2>2. Schema' \in SchemaSets /\ version' = new.version /\ tables' = new.tables /\ extended' = new.extended
    BY <1>6, <2>1 DEF Become
  <2>3. reached' \in [Containers -> 0..27] /\ reached'[c] = n
        /\ \A d \in Containers : d # c => reached'[d] = reached[d]
    BY <1>6 DEF SchemaTyped
  <2>4. /\ container' \in [Containers -> {"down", "upgrade", "init", "serving"}]
        /\ migrated' \subseteq Containers
    BY <1>1 DEF SchemaTyped
  <2>5. ASSUME Fine
        PROVE  /\ tables \subseteq tables' /\ extended \subseteq extended'
               /\ Keyed(Schema') /\ DoneUpTo(Schema', End(version'))
               /\ \A d \in Containers : container'[d] = "upgrade" =>
                    \/ container[d] = "upgrade" /\ reached'[d] = reached[d]
                    \/ DoneUpTo(Schema', reached'[d])
               /\ \A d \in migrated' : container'[d] \in {"init", "serving"} =>
                    \/ d \in migrated /\ container[d] \in {"init", "serving"}
                    \/ DoneUpTo(Schema', 27)
    BY <1>1, <1>6, <2>1, <2>2, <2>3, <2>5
  <2> QED
    BY <1>1, <1>3, <1>5, <2>2, <2>3, <2>4, <2>5, ContainerSteps
<1>7. CASE dialect = "sqlite"
  <2> DEFINE j == reached[c] + 1
             old == Schema
             new == Executed(old, Statements[j])
  <2>1. Become(new) /\ reached' = [reached EXCEPT ![c] = j]
    BY <1>4, <1>7 DEF RunMigrationsOnline, SchemaTyped
  <2>2. j \in 1..27 /\ j - 1 = reached[c] /\ j \in 0..27
    BY <1>4
  <2>3. new \in SchemaSets
    BY <1>4, <2>2, StatementsFormed, Performed DEF Changed
  <2>4. ASSUME Fine
        PROVE  /\ tables \subseteq new.tables /\ extended \subseteq new.extended
               /\ Keyed(new) /\ DoneUpTo(new, j) /\ DoneUpTo(new, End(new.version))
    <3>1. DoneUpTo(old, j - 1) /\ Keyed(old) /\ DoneUpTo(old, End(version))
      BY <1>1, <1>3, <2>2, <2>4 DEF SchemaInv
    <3>2. Upgraded(old, j, new)
      BY <1>4, <2>2, <3>1, Forward
    <3>3. old.tables = tables /\ old.extended = extended /\ old.version = version
      BY DEF Schema
    <3> HIDE DEF old, new, j
    <3>4. DoneUpTo(new, End(new.version))
      <4>1. CASE new.version = version
        BY <3>1, <3>2, <4>1, DoneStays DEF Upgraded
      <4>2. CASE End(new.version) = j
        BY <3>2, <4>2 DEF Upgraded
      <4> QED
        BY <3>2, <3>3, <4>1, <4>2 DEF Upgraded
    <3> QED
      BY <3>1, <3>2, <3>3, <3>4 DEF Upgraded
  <2> HIDE DEF new, old, j
  <2> QED
    BY <1>6, <2>1, <2>2, <2>3, <2>4
<1>8. CASE dialect = "postgresql"
  <2> DEFINE new == After(Left(c))[Len(Left(c))]
  <2>1. reached[c] = End(version) /\ Become(new) /\ reached' = [reached EXCEPT ![c] = 27]
    BY <1>2, <1>8 DEF RunMigrationsOnline
  <2>2. Keyed(Schema) /\ DoneUpTo(Schema, End(version))
    BY <1>3, <1>8 DEF SchemaInv, Fine
  <2>3. reached[c] < 27
    BY <1>4
  <2>4. /\ new \in SchemaSets /\ tables \subseteq new.tables /\ extended \subseteq new.extended
        /\ Keyed(new) /\ DoneUpTo(new, 27) /\ DoneUpTo(new, End(new.version))
    BY <1>8, <2>1, <2>2, <2>3, LeftKeeps
  <2>5. 27 \in 0..27
    OBVIOUS
  <2> HIDE DEF new
  <2> QED
    BY <1>6, <2>1, <2>4, <2>5
<1> QED
  BY <1>7, <1>8 DEF SchemaTyped
-------------------------------------------------------------------------------
(* Schema: downgrades. *)

\* The next statement of a downgrade that undoes in order.
LEMMA UndoneStep ==
    ASSUME NEW s \in SchemaSets, NEW left \in Nat \ {0}, UndoingInOrder(s, left), Keyed(s)
    PROVE  LET undoing == DowngradePlan(s.version)
               n == Len(undoing) - left + 1
               new == Executed(s, undoing[n])
           IN  /\ n \in 1..Len(undoing) /\ Downgraded(s, s.version, n, new) /\ Keyed(new)
               /\ left > 1 => UndoingInOrder(new, left - 1)
<1> DEFINE r == s.version
           undoing == DowngradePlan(r)
           L == Len(undoing)
           n == L - left + 1
           statement == undoing[n]
           new == Executed(s, statement)
<1>1. r \in 1..3 /\ left <= L /\ DoneUpTo(s, End(r - 1)) /\ s.tables \subseteq ScriptTables(r)
      /\ \A i \in 1..(L - left) : undoing[i][1] = "drop" => undoing[i][2] \notin s.tables
  BY DEF UndoingInOrder
<1>2. L \in Nat /\ n \in 1..L
  <2>1. L \in Nat
    BY <1>1, PlansFormed
  <2> HIDE DEF L
  <2> QED
    BY <1>1, <2>1
<1>3. Downgraded(s, r, n, new) /\ UndoneInOrder(r, n)
  BY <1>1, <1>2, Backward, DowngradesOrdered
<1>4. Changed(s, statement, new)
  BY <1>1, <1>2, PlansFormed, Performed
<1> DEFINE Referred(x) == \A u \in ScriptTables(r) : x \in References(u) => \E i \in 1..(n - 1) : undoing[i] = <<"drop", u>>
<1>5. \/ n = L /\ statement[1] = "version"
      \/ n < L /\ statement[1] = "drop" /\ Referred(statement[2])
      \/ n < L /\ statement[1] = "shrink"
  BY <1>3 DEF UndoneInOrder
<1>6. Keyed(s) /\ 1..(n - 1) = 1..(L - left)
  BY <1>2
<1> HIDE DEF new, statement
<1>7. Keyed(new) /\ (statement[1] = "drop" => statement[2] \notin new.tables)
  <2>1. CASE statement[1] = "drop" /\ Referred(statement[2])
    <3>1. new.tables = s.tables \ {statement[2]}
      BY <1>4, <2>1 DEF Changed
    <3>2. ASSUME NEW u \in new.tables PROVE statement[2] \notin References(u)
      <4> SUFFICES ASSUME statement[2] \in References(u) PROVE FALSE
        OBVIOUS
      <4>1. u \in ScriptTables(r) /\ u \in s.tables
        BY <1>1, <3>1
      <4>2. PICK i \in 1..(L - left) : undoing[i] = <<"drop", u>>
        BY <1>6, <2>1, <4>1
      <4>3. undoing[i][1] = "drop" /\ undoing[i][2] = u
        BY <4>2
      <4> QED
        BY <1>1, <4>1, <4>2, <4>3
    <3> QED
      BY <1>6, <3>1, <3>2 DEF Keyed
  <2>2. CASE statement[1] \in {"version", "shrink"}
    <3>1. new.tables = s.tables
      BY <1>4, <2>2 DEF Changed
    <3> QED
      BY <1>6, <2>2, <3>1 DEF Keyed
  <2> QED
    BY <1>5, <2>1, <2>2
<1>8. ASSUME left > 1 PROVE UndoingInOrder(new, left - 1)
  <2>1. n < L /\ n # L /\ L - (left - 1) = n /\ left - 1 <= L
    BY <1>1, <1>2, <1>8
  <2>2. new.version = r /\ DoneUpTo(new, End(r - 1)) /\ new.tables \subseteq s.tables
    BY <1>3, <2>1 DEF Downgraded
  <2>3. ASSUME NEW i \in 1..n, undoing[i][1] = "drop" PROVE undoing[i][2] \notin new.tables
    <3>1. CASE i = n
      BY <1>7, <2>3, <3>1 DEF statement
    <3>2. CASE i # n
      <4>1. i \in 1..(L - left)
        BY <1>2, <3>2
      <4> QED
        BY <1>1, <2>2, <2>3, <4>1
    <3> QED
      BY <3>1, <3>2
  <2>4. new.tables \subseteq ScriptTables(r)
    BY <1>1, <2>2
  <2>5. \A i \in 1..(L - (left - 1)) : undoing[i][1] = "drop" => undoing[i][2] \notin new.tables
    BY <2>1, <2>3
  <2> HIDE DEF n
  <2> QED
    BY <1>1, <2>1, <2>2, <2>4, <2>5 DEF UndoingInOrder
<1> QED
  BY <1>2, <1>3, <1>7, <1>8 DEF new, statement

\* Steps while every container is down.
LEMMA OperatorSteps ==
    ASSUME SchemaTyped, SchemaInv, \A c \in Containers : container[c] = "down",
           UNCHANGED <<dialect, container, reached, migrated>>,
           Schema' \in SchemaSets, operator' \in Nat, clean' \in BOOLEAN,
           operator' > 0 => /\ dialect = "sqlite" /\ version' \in 1..3
                            /\ operator' <= Len(DowngradePlan(version')),
           dialect = "postgresql" \/ clean' =>
             /\ Keyed(Schema')
             /\ operator' = 0 => DoneUpTo(Schema', End(version'))
             /\ operator' > 0 => UndoingInOrder(Schema', operator')
    PROVE  SchemaTyped' /\ SchemaInv'
<1>1. SchemaTyped'
  BY DEF SchemaTyped
<1>2. Fine' <=> dialect = "postgresql" \/ clean'
  BY DEF Fine
<1>3. migrated' \subseteq Containers /\ \A c \in Containers : container'[c] = "down"
  BY DEF SchemaTyped
<1>4. \A c \in migrated' : container'[c] \notin {"upgrade", "init", "serving"}
  BY <1>3
<1> QED
  BY <1>1, <1>2, <1>3, <1>4 DEF SchemaInv

LEMMA DowngradeStepKeeps ==
    ASSUME SchemaTyped, SchemaInv, DowngradeStep
    PROVE  SchemaTyped' /\ SchemaInv'
<1> DEFINE undoing == DowngradePlan(version)
           n == Len(undoing) - operator + 1
           old == Schema
           new == Executed(old, undoing[n])
<1>1. operator > 0 /\ operator \in Nat \ {0} /\ UNCHANGED <<dialect, container, reached, migrated>>
  BY DEF DowngradeStep, SchemaTyped
<1>2. dialect = "sqlite" /\ (\A c \in Containers : container[c] = "down") /\ version \in 1..3
      /\ operator <= Len(undoing)
  BY <1>1 DEF SchemaInv
<1>3. old \in SchemaSets /\ old.version = version
  BY DEF SchemaTyped, Schema
<1>4. CASE operator' = 0 /\ clean' = FALSE /\ UNCHANGED <<tables, extended, version>>
  <2>1. Schema' \in SchemaSets
    BY <1>3, <1>4 DEF Schema
  <2>2. operator' \in Nat /\ ~(operator' > 0)
    BY <1>4
  <2>3. clean' \in BOOLEAN /\ ~clean'
    BY <1>4, Zenon
  <2>4. dialect # "postgresql"
    BY <1>2
  <2>5. ~(dialect = "postgresql" \/ clean')
    BY <2>3, <2>4, Zenon
  <2> QED
    BY <1>1, <1>2, <2>1, <2>2, <2>3, <2>5, OperatorSteps
<1>5. CASE Become(new) /\ operator' = operator - 1 /\ clean' = clean
  <2>1. n \in 1..Len(undoing)
    <3>1. Len(undoing) \in Nat
      BY <1>2, PlansFormed
    <3> QED
      BY <1>1, <1>2, <3>1
  <2>2. Changed(old, undoing[n], new) /\ new \in SchemaSets
    <3>1. WellFormed(undoing[n])
      BY <1>2, <2>1, PlansFormed
    <3>2. Changed(old, undoing[n], new)
      BY <1>3, <3>1, Performed
    <3> QED
      BY <3>2 DEF Changed
  <2> HIDE DEF new
  <2>3. Schema' = new /\ version' = new.version
    BY <1>5, <2>2 DEF Schema, Become, SchemaSets
  <2> HIDE DEF old
  <2>4. operator' > 0 => version' = version
    <3>1. ASSUME operator' > 0 PROVE n < Len(undoing)
      BY <1>1, <1>5, <2>1, <3>1
    <3>2. n < Len(undoing) => undoing[n][1] \in {"drop", "shrink"}
      BY <1>2, <2>1, DowngradesOrdered DEF UndoneInOrder
    <3> QED
      BY <1>3, <2>2, <2>3, <3>1, <3>2 DEF Changed
  <2>5. clean \in BOOLEAN /\ operator' \in Nat /\ (operator' > 0 => operator' <= Len(undoing))
    <3>1. Len(undoing) \in Nat
      BY <1>2, PlansFormed
    <3> QED
      BY <1>1, <1>2, <1>5, <3>1 DEF SchemaTyped
  <2>6. ASSUME clean'
        PROVE  /\ Keyed(Schema')
               /\ operator' = 0 => DoneUpTo(Schema', End(version'))
               /\ operator' > 0 => UndoingInOrder(Schema', operator')
    <3>1. UndoingInOrder(old, operator) /\ Keyed(old)
      BY <1>1, <1>5, <2>6 DEF SchemaInv, Fine, old
    <3>2. /\ Downgraded(old, version, n, new) /\ Keyed(new)
          /\ operator > 1 => UndoingInOrder(new, operator - 1)
      BY <1>1, <1>3, <3>1, UndoneStep DEF new
    <3>3. ASSUME operator' = 0 PROVE DoneUpTo(new, End(version'))
      <4>1. n = Len(undoing)
        BY <1>1, <1>5, <2>1, <3>3
      <4>2. DoneUpTo(new, End(version - 1)) /\ new.version = version - 1
        BY <3>2, <4>1 DEF Downgraded
      <4> QED
        BY <2>3, <4>2
    <3>4. ASSUME operator' > 0 PROVE UndoingInOrder(new, operator')
      BY <1>1, <1>5, <3>2, <3>4
    <3> QED
      BY <2>3, <3>2, <3>3, <3>4
  <2>7. dialect = "postgresql" \/ clean' =>
             /\ Keyed(Schema')
             /\ operator' = 0 => DoneUpTo(Schema', End(version'))
             /\ operator' > 0 => UndoingInOrder(Schema', operator')
    BY <1>2, <2>6
  <2>8. operator' > 0 => dialect = "sqlite" /\ version' \in 1..3 /\ operator' <= Len(DowngradePlan(version'))
    BY <1>2, <2>4, <2>5
  <2>9. Schema' \in SchemaSets /\ clean' \in BOOLEAN
    BY <1>5, <2>2, <2>3, <2>5
  <2> QED
    BY <1>1, <1>2, <2>5, <2>7, <2>8, <2>9, OperatorSteps
<1> QED
  BY <1>4, <1>5 DEF DowngradeStep

\* PostgreSQL executes a downgrade as a whole.
LEMMA PlanKeeps ==
    ASSUME SchemaTyped, dialect = "postgresql", version \in 1..3, Keyed(Schema),
           DoneUpTo(Schema, End(version - 1)), AllPossible(DowngradePlan(version))
    PROVE  LET undoing == DowngradePlan(version)
               new == After(undoing)[Len(undoing)]
           IN  new \in SchemaSets /\ Keyed(new) /\ DoneUpTo(new, End(new.version))
<1> DEFINE r == version
           undoing == DowngradePlan(r)
           N == Len(undoing)
           it == After(undoing)
<1>1. N \in Nat \ {0} /\ DOMAIN undoing = 1..N /\ \A n \in 1..N : WellFormed(undoing[n])
  <2>1. N \in Nat /\ N > 0 /\ \A n \in 1..N : WellFormed(undoing[n])
    BY PlansFormed
  <2>2. undoing = Undone(r)
    BY DowngradeListed
  <2>3. DOMAIN Undone(1) = 1..Len(Undone(1)) /\ DOMAIN Undone(2) = 1..Len(Undone(2))
        /\ DOMAIN Undone(3) = 1..Len(Undone(3))
    BY DEF Undone
  <2>4. r = 1 \/ r = 2 \/ r = 3
    OBVIOUS
  <2>5. DOMAIN undoing = 1..N
    BY <2>2, <2>3, <2>4, Zenon
  <2> QED
    BY <2>1, <2>5
<1>2. \A n \in 1..N : Possible(it[n - 1], undoing[n])
  BY <1>1 DEF AllPossible
<1> HIDE DEF it
<1>3. /\ it[0] = Schema /\ \A n \in 0..N : it[n] \in SchemaSets
      /\ \A n \in 1..N : it[n] = Executed(it[n - 1], undoing[n])
  <2>1. Schema \in SchemaSets
    BY DEF SchemaTyped
  <2> HIDE DEF N, undoing
  <2> QED
    BY <1>1, <2>1, AfterSteps DEF it, N
<1> DEFINE Kept(n) == /\ Keyed(it[n]) /\ DoneUpTo(it[n], End(r - 1))
                      /\ it[n].version = IF n = N THEN r - 1 ELSE r
           T == {n \in 0..N : Kept(n)}
<1>4. 0 \in T
  <2>1. Schema.version = version
    BY DEF Schema
  <2>2. Kept(0)
    BY <1>1, <1>3, <2>1
  <2> QED
    BY <1>1, <2>2
<1>5. ASSUME NEW n \in 0..(N - 1), n \in T PROVE n + 1 \in T
  <2>1. n + 1 \in 1..N /\ n + 1 \in 0..N /\ (n + 1) - 1 = n /\ n \in 0..N /\ n # N
    <3>1. N \in Nat /\ n \in 0..(N - 1)
      BY <1>1
    <3> HIDE DEF N
    <3> QED
      BY <3>1
  <2> DEFINE before == it[n]
             after == it[n + 1]
             statement == undoing[n + 1]
  <2>2. after = Executed(before, statement) /\ before \in SchemaSets /\ Possible(before, statement)
    BY <1>2, <1>3, <2>1
  <2>3. Keyed(before) /\ DoneUpTo(before, End(r - 1)) /\ before.version = r
    BY <1>5, <2>1
  <2>4. Downgraded(before, r, n + 1, after)
    BY <2>1, <2>2, <2>3, Backward
  <2>5. Changed(before, statement, after)
    BY <1>1, <2>1, <2>2, Performed
  <2>6. statement[1] \in {"version", "drop", "shrink"}
    BY <2>1, DowngradesOrdered DEF UndoneInOrder
  <2> HIDE DEF before, after, statement
  <2>7. Keyed(after)
    <3>1. CASE statement[1] = "drop"
      <4>1. \A t \in before.tables : statement[2] \notin References(t)
        BY <2>2, <3>1 DEF Possible
      <4>2. after.tables = before.tables \ {statement[2]}
        BY <2>5, <3>1 DEF Changed
      <4> QED
        BY <2>3, <4>1, <4>2 DEF Keyed
    <3>2. CASE statement[1] # "drop"
      <4>1. after.tables = before.tables
        BY <2>5, <2>6, <3>2 DEF Changed
      <4> QED
        BY <2>3, <4>1 DEF Keyed
    <3> QED
      BY <3>1, <3>2
  <2>8. Kept(n + 1)
    BY <2>3, <2>4, <2>7 DEF Downgraded, after
  <2> QED
    BY <2>1, <2>8
<1>6. Kept(N) /\ it[N] \in SchemaSets
  <2>1. N \in Nat /\ N \in 0..N
    BY <1>1
  <2> HIDE DEF T, N
  <2>2. \A n \in 0..N : n \in T
    BY <1>4, <1>5, <2>1, BoundReached
  <2> QED
    BY <1>3, <2>1, <2>2 DEF T
<1> QED
  BY <1>6 DEF it

LEMMA DowngradeKeeps ==
    ASSUME SchemaTyped, SchemaInv, Downgrade
    PROVE  SchemaTyped' /\ SchemaInv'
<1> DEFINE undoing == DowngradePlan(version)
           old == Schema
<1>1. /\ operator = 0 /\ version > 0 /\ \A c \in Containers : container[c] = "down"
      /\ UNCHANGED <<dialect, container, reached, migrated>>
      /\ clean' = (clean /\ tables = ScriptTables(version))
  BY DEF Downgrade
<1>2. old \in SchemaSets /\ old.version = version /\ old.tables = tables /\ version \in 1..3
  <2>1. old \in SchemaSets
    BY DEF SchemaTyped
  <2>2. version \in 0..3
    BY <2>1 DEF Schema, SchemaSets
  <2> QED
    BY <1>1, <2>1, <2>2 DEF Schema
<1>3. clean' \in BOOLEAN
  BY <1>1, Zenon
<1>4. Len(undoing) \in Nat /\ Len(undoing) > 0
  BY <1>2, PlansFormed
<1>5. Fine => Keyed(old) /\ DoneUpTo(old, End(version)) /\ DoneUpTo(old, End(version - 1))
  BY <1>1, <1>2, DoneBefore DEF SchemaInv
<1>6. CASE dialect = "sqlite"
  <2>1. operator' = Len(undoing) /\ UNCHANGED <<tables, extended, version>>
    BY <1>6 DEF Downgrade
  <2>2. Schema' = old
    BY <2>1 DEF Schema
  <2>3. ASSUME clean' PROVE Keyed(old) /\ UndoingInOrder(old, Len(undoing))
    <3>1. clean /\ tables = ScriptTables(version)
      BY <1>1, <2>3, Zenon
    <3>2. Keyed(old) /\ DoneUpTo(old, End(version - 1))
      BY <1>5, <3>1 DEF Fine
    <3>3. 1..(Len(undoing) - Len(undoing)) = {} /\ Len(undoing) <= Len(undoing)
      BY <1>4
    <3> HIDE DEF old
    <3> QED
      BY <1>2, <3>1, <3>2, <3>3 DEF UndoingInOrder
  <2>4. dialect # "postgresql" /\ operator' # 0 /\ operator' \in Nat /\ operator' <= Len(DowngradePlan(version'))
    BY <1>4, <1>6, <2>1
  <2>5. version' \in 1..3
    BY <1>2, <2>1
  <2> QED
    BY <1>1, <1>2, <1>3, <1>6, <2>1, <2>2, <2>3, <2>4, <2>5, OperatorSteps
<1>7. CASE dialect = "postgresql"
  <2>1. Keyed(old) /\ DoneUpTo(old, End(version)) /\ DoneUpTo(old, End(version - 1))
    BY <1>5, <1>7 DEF Fine
  <2>2. operator' = 0
    BY <1>1, <1>7 DEF Downgrade
  <2>3. ASSUME UNCHANGED <<tables, extended, version>> PROVE SchemaTyped' /\ SchemaInv'
    <3>1. Schema' = old /\ version' = version
      BY <2>3 DEF Schema
    <3> QED
      BY <1>1, <1>2, <1>3, <2>1, <2>2, <3>1, OperatorSteps
  <2>4. ASSUME AllPossible(undoing), Become(After(undoing)[Len(undoing)]) PROVE SchemaTyped' /\ SchemaInv'
    <3> DEFINE new == After(undoing)[Len(undoing)]
    <3>1. new \in SchemaSets /\ Keyed(new) /\ DoneUpTo(new, End(new.version))
      BY <1>2, <1>7, <2>1, <2>4, PlanKeeps
    <3>2. Become(new)
      BY <2>4
    <3> HIDE DEF new
    <3>3. Schema' = new /\ version' = new.version
      BY <3>1, <3>2 DEF Schema, Become, SchemaSets
    <3> QED
      BY <1>1, <1>3, <2>2, <3>1, <3>3, OperatorSteps
  <2> QED
    BY <1>7, <2>3, <2>4 DEF Downgrade
<1> QED
  BY <1>6, <1>7 DEF SchemaTyped

LEMMA SchemaStarts == MigrationInit => SchemaTyped /\ SchemaInv
<1> SUFFICES ASSUME MigrationInit PROVE SchemaTyped /\ SchemaInv
  OBVIOUS
<1>1. Schema = [tables |-> {}, extended |-> {}, version |-> 0]
  BY DEF MigrationInit, Schema
<1>2. Schema \in SchemaSets
  BY <1>1 DEF SchemaSets
<1>3. SchemaTyped
  BY <1>2 DEF MigrationInit, SchemaTyped
<1>4. Keyed(Schema)
  BY <1>1 DEF Keyed
<1>5. DoneUpTo(Schema, End(version))
  BY StatementsListed DEF MigrationInit, DoneUpTo
<1> QED
  BY <1>3, <1>4, <1>5 DEF MigrationInit, SchemaInv

LEMMA SchemaSteps ==
    SchemaTyped /\ SchemaInv /\ [MigrationNext]_migrationvars => SchemaTyped' /\ SchemaInv'
<1> SUFFICES ASSUME SchemaTyped, SchemaInv, [MigrationNext]_migrationvars
             PROVE  SchemaTyped' /\ SchemaInv'
  OBVIOUS
<1>1. CASE UNCHANGED migrationvars
  <2>1. UNCHANGED <<dialect, tables, extended, version, container, reached, migrated, operator, clean>>
    BY <1>1 DEF migrationvars
  <2>2. Schema' = Schema /\ (Fine' <=> Fine)
    BY <2>1 DEF Schema, Fine
  <2>3. SchemaTyped'
    BY <2>1, <2>2 DEF SchemaTyped
  <2>4. SchemaInv'
    BY <2>1, <2>2 DEF SchemaInv
  <2> QED
    BY <2>3, <2>4
<1>2. ASSUME NEW c \in Containers,
             \/ StartContainer(c) \/ RunMigrationsOnline(c) \/ UpgradeDone(c) \/ UpgradeFails(c)
             \/ InitDb(c) \/ InitDbFails(c) \/ ContainerStops(c)
      PROVE  SchemaTyped' /\ SchemaInv'
  BY <1>2, StartKeeps, UpgradeKeeps, QuietKeeps, InitDbKeeps
<1>3. CASE Downgrade
  BY <1>3, DowngradeKeeps
<1>4. CASE DowngradeStep
  BY <1>4, DowngradeStepKeeps
<1> QED
  BY <1>1, <1>2, <1>3, <1>4 DEF MigrationNext

LEMMA SchemaTells ==
    SchemaTyped /\ SchemaInv => ReferencesExist /\ VersionTellsSchema /\ ServedIsComplete
<1> SUFFICES ASSUME SchemaTyped, SchemaInv, Fine
             PROVE  ReferencesExist /\ VersionTellsSchema /\ ServedIsComplete
  BY DEF ReferencesExist, VersionTellsSchema, ServedIsComplete
<1>1. Schema.tables = tables /\ Schema.extended = extended /\ version \in 0..3
  BY DEF SchemaTyped, Schema, SchemaSets
<1>2. ReferencesExist
  BY <1>1 DEF SchemaInv, Keyed, ReferencesExist
<1>3. VersionTellsSchema
  <2> SUFFICES ASSUME operator = 0
               PROVE  /\ ScriptTables(version) \subseteq tables
                      /\ version >= 2 => "tickets" \in extended
                      /\ version >= 3 => "leads" \in extended
    BY DEF VersionTellsSchema
  <2>1. DoneUpTo(Schema, End(version))
    BY DEF SchemaInv
  <2> QED
    BY <1>1, <2>1, DoneMeans
<1>4. ASSUME NEW c \in migrated, container[c] = "serving"
      PROVE  /\ ModelTables \cup TablesOf(Upgrade0003) \subseteq tables
             /\ {"tickets", "leads"} \subseteq extended
  <2>1. DoneUpTo(Schema, 27)
    BY <1>4 DEF SchemaInv
  <2>2. DoneUpTo(Schema, End(3))
    BY <2>1, StatementsListed
  <2>3. /\ ScriptTables(3) \subseteq Schema.tables
        /\ "tickets" \in Schema.extended /\ "leads" \in Schema.extended
    <3>1. 3 \in 0..3 /\ 3 >= 2 /\ 3 >= 3
      OBVIOUS
    <3> QED
      BY <2>2, <3>1, DoneMeans
  <2>4. ScriptTables(3) = ModelTables \cup TablesOf(Upgrade0003)
    BY TablesListed, ScriptTablesListed
  <2> QED
    BY <1>1, <2>3, <2>4
<1> QED
  BY <1>2, <1>3, <1>4 DEF ServedIsComplete

-------------------------------------------------------------------------------
(* All parts side by side. *)

\* A step of the instance is one of each of its parts, or leaves that part alone.
LEMMA PartsMove ==
    [Next]_mcvars => /\ [CrmNext]_crmvars /\ [ReportNext]_reportvars
                     /\ [GeneratorNext]_generatorvars /\ [NoteNext]_notevars
                     /\ [ReviewNext]_reviewvars /\ [BacklogNext]_backlogvars
                     /\ [LinearNext]_linearvars /\ [MigrationNext]_migrationvars
<1> SUFFICES ASSUME [Next]_mcvars
             PROVE  /\ [CrmNext]_crmvars /\ [ReportNext]_reportvars
                    /\ [GeneratorNext]_generatorvars /\ [NoteNext]_notevars
                    /\ [ReviewNext]_reviewvars /\ [BacklogNext]_backlogvars
                    /\ [LinearNext]_linearvars /\ [MigrationNext]_migrationvars
  OBVIOUS
<1>1. CASE UNCHANGED mcvars
  BY <1>1 DEF mcvars
<1>2. ASSUME NEW part \in Parts, Alone(part)
      PROVE  /\ part # "crm" => UNCHANGED crmvars
             /\ part # "reports" => UNCHANGED reportvars
             /\ part # "generator" => UNCHANGED generatorvars
             /\ part # "notifications" => UNCHANGED notevars
             /\ part \notin {"review", "style"} => UNCHANGED reviewvars
             /\ part # "backlog" => UNCHANGED backlogvars
             /\ part # "linear" => UNCHANGED linearvars
             /\ part # "schema" => UNCHANGED migrationvars
  BY <1>2 DEF Alone, Still
<1>3. CASE Next
  BY <1>2, <1>3 DEF Next, Parts
<1> QED
  BY <1>1, <1>3

\* The row of a company, the rows of a day and the row of a lead agree with what they sum
\* up, whatever the sizes of the parts and however their steps alternate.
THEOREM RowsAgree == Spec => []RowsTellTruth
<1>1. Init => /\ CrmInv /\ QualifiedHasTicket /\ NeverNewAgain /\ ReportTyped /\ DayInv
              /\ GeneratorTyped /\ GeneratorInv
  BY CrmStarts, ReportStarts, GeneratorStarts DEF Init
<1>2. ReportTyped /\ DayInv /\ GeneratorTyped /\ GeneratorInv /\ NeverNewAgain => RowsTellTruth
  BY DayTold, GeneratorTold DEF RowsTellTruth
<1> QED
  BY <1>1, <1>2, PartsMove, CrmSteps, ReportTypedNext, DayInvNext, GeneratorInvNext, PTL DEF Spec

\* Broadcasts reach every admin and pushes every open socket, beside all the others.
THEOREM MessagesGetThrough == Spec => []MessagesArrive
<1>1. Init => BroadcastTyped /\ BroadcastInv /\ SocketInv
  BY NotesStart DEF Init
<1>2. BroadcastTyped /\ BroadcastInv /\ SocketInv => MessagesArrive
  BY MessagesTold DEF MessagesArrive
<1> QED
  BY <1>1, <1>2, PartsMove, BroadcastTypedNext, BroadcastInvNext, SocketInvNext, PTL DEF Spec

\* A review that ended reports the findings and the score of one text, and a repaired file
\* has nothing left to repair and says what its author wrote, whatever calls overlap.
THEOREM ReviewsAreWhole == Spec => []ReviewsHold
<1>1. Init => ReviewInv /\ RepairInv
  BY ReviewInvInit, RepairInvInit DEF Init
<1>2. ReviewInv /\ RepairInv => ReviewsHold
  BY ReviewInvTells, RepairInvTells DEF ReviewsHold
<1> QED
  BY <1>1, <1>2, PartsMove, ReviewInvNext, RepairInvNext, PTL DEF Spec

\* Sprints are greedy, duplicates are grouped and epics urgent, whatever the batch, its size
\* and the model's opinions; and issues stand where they were last moved, by a cache that
\* was filled from the states of the team.
THEOREM PlansHold == Spec => []PlanningHolds
<1>1. Init => BacklogInv /\ LinearTyped /\ LinearInv
  BY BacklogInvInit, LinearStarts DEF Init
<1>2. BacklogInv /\ LinearTyped /\ LinearInv => PlanningHolds
  BY BacklogInvTells, LinearTells DEF PlanningHolds
<1> QED
  BY <1>1, <1>2, PartsMove, BacklogInvNext, LinearSteps, PTL DEF Spec

\* Whichever database, and wherever upgrades, downgrades and init_db of any number of
\* containers break off: keys point to tables that exist, the version promises no table or
\* column that is missing, and a container that serves after its own upgrade has them all.
THEOREM SchemaKept == Spec => []SchemaHolds
<1>1. Init => SchemaTyped /\ SchemaInv
  BY SchemaStarts DEF Init
<1>2. SchemaTyped /\ SchemaInv => SchemaHolds
  BY SchemaTells DEF SchemaHolds
<1> QED
  BY <1>1, <1>2, PartsMove, SchemaSteps, PTL DEF Spec
===============================================================================
