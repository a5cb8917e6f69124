----------------------------- MODULE UserService -----------------------------
(***************************************************************************)
(* Changes of an account: internal/domain/service/impl/user_service_impl.go *)
(* and the repository layer's gRPC service, which read a user's whole row, *)
(* change fields of it and save it whole.  Each repository call is a step  *)
(* that other requests come between and that can fail.                     *)
(***************************************************************************)
EXTENDS UserStore

CONSTANTS
  Req,   \* goroutines that serve requests
  Patch  \* bound: the sets of fields one UpdateUser request changes

\* Those UpdateUserRequest has; the names of a person are left out.
ASSUME PatchAssumption == Patch \subseteq SUBSET {"email", "pw", "active"}

VARIABLES
  req,     \* req[q]: what request q has read and does next
  wanted,  \* history: each row with just the fields changed that the requests set
  overlaid \* history: users written while another request had read their row

userVars == <<req, wanted, overlaid>>

Nobody == [name |-> "", email |-> "", pw |-> "", active |-> FALSE, gone |-> TRUE]
Idle == [at |-> "idle", user |-> 0, row |-> Nobody, sets |-> {}, token |-> 0]

\* Requests that hold a row of u they have read and will save.
Editing(u) == {q \in Req : req[q].user = u /\ req[q].at \in {"email", "save"}}

Done(q) == req' = [req EXCEPT ![q] = Idle]

Reads(q, u, l, row, sets) ==
  /\ req[q] = Idle /\ FindByID(u)
  /\ req' = [req EXCEPT ![q] = [Idle EXCEPT !.at = l, !.user = u, !.row = row, !.sets = sets]]
  /\ UNCHANGED <<store, wanted, overlaid>>
-----------------------------------------------------------------------------
\* Update, to the point of its next repository call: the row with the names
\* changed, and the e-mail address if another one is given.
Update(q, u) ==
  \/ Reads(q, u, "save", users[u], {})
  \/ \E e \in Email \ {users[u].email} :
       Reads(q, u, "email", [users[u] EXCEPT !.email = e], {"email"})

\* The address must be free, as far as the reads see.
UpdateChecks(q) ==
  /\ req[q].at = "email"
  /\ req' = [req EXCEPT ![q] = IF ExistsByEmail(req[q].row.email)
                               THEN Idle ELSE [req[q] EXCEPT !.at = "save"]]
  /\ UNCHANGED <<store, wanted, overlaid>>

\* The old password is right.
ChangePassword(q, u) ==
  \E old, new \in Password :
    /\ users[u].pw = old
    /\ Reads(q, u, "save", [users[u] EXCEPT !.pw = new], {"pw"})

\* UpdateUser of the repository layer: any of the fields, unchecked.
RepositoryUpdate(q, u) ==
  \E sets \in Patch, new \in Row :
    /\ \A f \in DOMAIN new \ sets : new[f] = users[u][f]
    /\ Reads(q, u, "save", new, sets)

\* The row is saved whole, if the unique indexes accept it.
Save(q) ==
  /\ req[q].at = "save"
  /\ UpdateUser(req[q].user, req[q].row)
  /\ wanted' = [wanted EXCEPT ![req[q].user] =
                  [f \in DOMAIN @ |-> IF f \in req[q].sets THEN req[q].row[f] ELSE @[f]]]
  /\ overlaid' = IF Editing(req[q].user) = {q} THEN overlaid ELSE overlaid \cup {req[q].user}
  /\ Done(q)
  /\ UNCHANGED <<backend, tokens>>

Delete(u) ==
  /\ FindByID(u)
  /\ DeleteUser(u)
  /\ wanted' = [wanted EXCEPT ![u].gone = TRUE]
  /\ overlaid' = IF Editing(u) = {} THEN overlaid ELSE overlaid \cup {u}
  /\ UNCHANGED <<backend, tokens, req>>

Create(q, n, e, p) ==
  /\ Len(users) < MaxUsers
  /\ CreateUser(NewUser(n, e, p))
  /\ wanted' = Append(wanted, NewUser(n, e, p))
  /\ UNCHANGED <<backend, tokens, overlaid>>

\* CreateUser of the repository layer, which leaves all checks to the indexes.
RepositoryCreate(q) ==
  /\ req[q] = Idle
  /\ \E n \in Name, e \in Email, p \in Password : Create(q, n, e, p)
  /\ UNCHANGED req

\* A repository call fails, or the indexes refuse a row: the request is over.
Fails(q) ==
  /\ req[q] # Idle
  /\ Done(q)
  /\ UNCHANGED <<store, wanted, overlaid>>
=============================================================================
