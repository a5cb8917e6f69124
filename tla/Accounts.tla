------------------------------- MODULE Accounts -------------------------------
(***************************************************************************)
(* The accounts of the server: the services of UserService.tla and         *)
(* AuthService.tla behind everything that calls them, over HTTP, gRPC and  *)
(* GraphQL, and the repository layer's own gRPC service.                   *)
(***************************************************************************)
EXTENDS AuthService

CONSTANT MaxRequests \* bound: requests served

ASSUME AccountAssumption == MaxRequests \in Nat

VARIABLE served \* requests so far

vars == <<store, userVars, authVars, served>>

AccountInit ==
  /\ StoreInit
  /\ req = [q \in Req |-> Idle]
  /\ wanted = << >> /\ overlaid = {}
  /\ raced = {} /\ signedOut = {}
  /\ served = 0

\* An access token of u was handed out.  It is checked against no table: it
\* still works after logout and after u is deleted.
ValidateAccessToken(u) == \E t \in DOMAIN tokens : tokens[t].user = u

\* The bearer of such a token is u, to the middleware and to GraphQL.
Authenticate(u) == ValidateAccessToken(u)
extractAuthContext(u) == ValidateAccessToken(u)

Kept(A) == A /\ UNCHANGED authVars
-----------------------------------------------------------------------------
(* What each front end lets a request do.                                  *)

\* Any bearer token is passed on; logout-all finds no user to log out.
HTTPAuth(q) ==
  \/ Register(q) \/ Login(q) \/ RefreshToken(q)
  \/ \E t \in DOMAIN tokens : Logout(t)

HTTPUser(q) ==
  \E u \in DOMAIN users : Authenticate(u) /\ Kept(Update(q, u) \/ ChangePassword(q, u))

\* The role of an administrator is in their token, not in the tables.
HTTPDelete == \E u \in DOMAIN users : Kept(Delete(u))

GRPCAuth(q) ==
  \/ Register(q) \/ Login(q) \/ RefreshToken(q)
  \/ \E t \in DOMAIN tokens : Logout(t)
  \/ \E u \in DOMAIN users : LogoutAll(u)

\* The caller names the user.
GRPCUser(q) == \E u \in DOMAIN users : Kept(Update(q, u) \/ Delete(u))

GraphQL(q) ==
  \/ Register(q) \/ Login(q) \/ RefreshToken(q)
  \/ \E t \in DOMAIN tokens : Logout(t)
  \/ \E u \in DOMAIN users : extractAuthContext(u) /\ Kept(Update(q, u) \/ ChangePassword(q, u))

GRPCRepository(q) ==
  \/ Kept(RepositoryCreate(q))
  \/ \E u \in DOMAIN users : Kept(RepositoryUpdate(q, u) \/ Delete(u))

Request(q) ==
  \/ HTTPAuth(q) \/ HTTPUser(q) \/ HTTPDelete
  \/ GRPCAuth(q) \/ GRPCUser(q)
  \/ GraphQL(q)
  \/ GRPCRepository(q)

AccountNext ==
  \/ /\ served < MaxRequests
     /\ \E q \in Req : Request(q)
     /\ served' = served + 1
  \/ /\ \E q \in Req :
          \/ AuthStep(q)
          \/ Kept(UpdateChecks(q) \/ Save(q) \/ Fails(q))
     /\ UNCHANGED served
  \/ /\ \E t \in DOMAIN tokens : Expire(t)
     /\ UNCHANGED <<backend, users, userVars, authVars, served>>

AccountSpec == AccountInit /\ [][AccountNext]_vars
-----------------------------------------------------------------------------
(* Properties.                                                             *)

\* A username and an e-mail address find one user at most, although Register
\* and Update look before they write, the repository's own service does not
\* look at all, and a GORM save can bring a deleted row back: the reads return
\* the first match as if there were no other.
LiveUnique ==
  /\ \A n \in Name : Cardinality(FindByUsername(n)) <= 1
  /\ \A e \in Email : Cardinality(FindByEmail(e)) <= 1

\* A row holds what the requests have set in it, unless one was saved or the
\* user deleted while another request had already read the row: a whole-row
\* save then takes back a password, an address, a deactivation or, over GORM,
\* the deletion.  Over MongoDB a deleted user stays deleted even then.
WritesKept ==
  \A u \in DOMAIN users :
    /\ u \notin overlaid => users[u] = wanted[u]
    /\ backend = "mongo" /\ wanted[u].gone => users[u].gone

\* A refresh token is exchanged once, and is revoked before its successor
\* exists; the exception are two requests that both read it first.
Rotation ==
  \A t \in DOMAIN tokens :
    LET next == {s \in DOMAIN tokens : tokens[s].from = t}
    IN  /\ next # {} => tokens[t].state = "revoked"
        /\ t \notin raced => Cardinality(next) <= 1

\* Logging a user out everywhere, while no request is about to hand them a
\* token, leaves them no usable one until they sign in again: an exchange that
\* starts later finds its token revoked.
SignedOutStays ==
  \A t \in DOMAIN tokens : tokens[t].user \in signedOut => tokens[t].state = "revoked"
=============================================================================
