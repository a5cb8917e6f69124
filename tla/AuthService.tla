----------------------------- MODULE AuthService -----------------------------
(***************************************************************************)
(* Sessions: internal/domain/service/impl/auth_service_impl.go.  A request *)
(* that signs a user in, or exchanges a refresh token, makes several       *)
(* repository calls and ends by storing a new refresh token; the access    *)
(* token handed out with it is a JWT that no table knows of.               *)
(***************************************************************************)
EXTENDS UserService

VARIABLES
  raced,    \* history: tokens a second request has read before the first revoked them
  signedOut \* history: users logged out everywhere, with no request for them
            \* under way, who have not signed in since

authVars == <<raced, signedOut>>

\* Requests under way that can end with a new token for u.
Issuing(u) ==
  {q \in Req : \/ req[q].at = "issue" /\ req[q].user = u
               \/ req[q].at \in {"revoke", "load"} /\ tokens[req[q].token].user = u}

Goes(q, l) == req' = [req EXCEPT ![q].at = l]

\* A token of the JWT provider has the same time of expiry as its row, and an
\* ID of its own: no two rows hold the same one.
GenerateRefreshToken(u, t) == [user |-> u, state |-> "valid", from |-> t]
ValidateRefreshToken(t) == tokens[t].state # "expired"
-----------------------------------------------------------------------------
(* Register: the username is free, the address is free, the row is created. *)

Register(q) ==
  \E n \in Name, e \in Email, p \in Password :
    /\ req[q] = Idle
    /\ ~ExistsByUsername(n)
    /\ req' = [req EXCEPT ![q] = [Idle EXCEPT !.at = "address", !.row = NewUser(n, e, p)]]
    /\ UNCHANGED <<store, wanted, overlaid, authVars>>

RegisterChecks(q) ==
  /\ req[q].at = "address"
  /\ ~ExistsByEmail(req[q].row.email)
  /\ Goes(q, "create")
  /\ UNCHANGED <<store, wanted, overlaid, authVars>>

RegisterCreates(q) ==
  /\ req[q].at = "create"
  /\ Create(q, req[q].row.name, req[q].row.email, req[q].row.pw)
  /\ req' = [req EXCEPT ![q] = [Idle EXCEPT !.at = "issue", !.user = NextID(users)]]
  /\ UNCHANGED authVars
-----------------------------------------------------------------------------
Login(q) ==
  \E i \in Name \cup Email, p \in Password : \E u \in FindByUsernameOrEmail(i) :
    /\ req[q] = Idle
    /\ users[u].active /\ users[u].pw = p
    /\ req' = [req EXCEPT ![q] = [Idle EXCEPT !.at = "issue", !.user = u]]
    /\ UNCHANGED <<store, wanted, overlaid, authVars>>
-----------------------------------------------------------------------------
(* RefreshToken.                                                           *)

\* Mutant: neither the query nor IsValid looks at the revocation.
RefreshAny(q) ==
  \E t \in DOMAIN tokens :
    /\ req[q] = Idle
    /\ req' = [req EXCEPT ![q] = [Idle EXCEPT !.at = "revoke", !.token = t]]
    /\ raced' = IF \E r \in Req : req[r].at = "revoke" /\ req[r].token = t
                THEN raced \cup {t} ELSE raced
    /\ UNCHANGED <<store, wanted, overlaid, signedOut>>

\* The token is valid ...
RefreshToken(q) ==
  \E t \in DOMAIN tokens :
    /\ req[q] = Idle
    /\ ValidateRefreshToken(t) /\ FindByToken(t)
    /\ req' = [req EXCEPT ![q] = [Idle EXCEPT !.at = "revoke", !.token = t]]
    /\ raced' = IF \E r \in Req : req[r].at = "revoke" /\ req[r].token = t
                THEN raced \cup {t} ELSE raced
    /\ UNCHANGED <<store, wanted, overlaid, signedOut>>

\* ... is revoked ...
RefreshRevokes(q) ==
  /\ req[q].at = "revoke"
  /\ RevokeByToken(req[q].token)
  /\ Goes(q, "load")
  /\ UNCHANGED <<backend, users, wanted, overlaid, authVars>>

\* ... and its user, if there and active, gets another one.
RefreshLoads(q) ==
  LET u == tokens[req[q].token].user
  IN  /\ req[q].at = "load"
      /\ FindByID(u) /\ users[u].active
      /\ req' = [req EXCEPT ![q].at = "issue", ![q].user = u]
      /\ UNCHANGED <<store, wanted, overlaid, authVars>>
-----------------------------------------------------------------------------
\* generateAuthResponse stores the token of the request's user.
GenerateAuthResponse(q) ==
  /\ req[q].at = "issue"
  /\ CreateToken(GenerateRefreshToken(req[q].user, req[q].token))
  /\ Done(q)
  /\ signedOut' = IF req[q].token = 0 THEN signedOut \ {req[q].user} ELSE signedOut
  /\ UNCHANGED <<backend, users, wanted, overlaid, raced>>

\* Logout with a refresh token; an access token is in no row.
Logout(t) ==
  /\ tokens[t].state # "revoked"
  /\ RevokeByToken(t)
  /\ UNCHANGED <<backend, users, userVars, authVars>>

LogoutAll(u) ==
  /\ RevokeAllByUserID(u)
  /\ signedOut' = IF Issuing(u) = {} THEN signedOut \cup {u} ELSE signedOut
  /\ UNCHANGED <<backend, users, userVars, raced>>
-----------------------------------------------------------------------------
AuthStep(q) ==
  \/ RegisterChecks(q) \/ RegisterCreates(q)
  \/ RefreshRevokes(q) \/ RefreshLoads(q)
  \/ GenerateAuthResponse(q)
=============================================================================
