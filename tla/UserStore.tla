------------------------------ MODULE UserStore ------------------------------
(***************************************************************************)
(* The tables of users and refresh tokens behind internal/domain/repository *)
(* and its two sets of DAOs: GORM over SQL and MongoDB.  Both delete a user *)
(* by setting deleted_at and leave such rows out of every read, while the  *)
(* unique indexes still hold them; they differ in what an update of a row  *)
(* deleted meanwhile does.  A row's number is its place in the table.      *)
(***************************************************************************)
EXTENDS Naturals, Sequences, FiniteSets

CONSTANTS
  Name, Email, Password,
  MaxUsers, \* bound: rows of users
  MaxTokens \* bound: rows of refresh_tokens

ASSUME StoreAssumption == MaxUsers \in Nat \ {0} /\ MaxTokens \in Nat \ {0}

VARIABLES
  backend, \* which DAOs the configuration selects
  users,   \* the users, gone once deleted
  tokens   \* the refresh tokens, and (history) the one each was exchanged for

store == <<backend, users, tokens>>

Row == [name : Name, email : Email, pw : Password, active : BOOLEAN, gone : BOOLEAN]
TokenRow == [user : 1 .. MaxUsers, state : {"valid", "expired", "revoked"}, from : 0 .. MaxTokens]

StoreInit ==
  /\ backend \in {"gorm", "mongo"}
  /\ users = << >>
  /\ tokens = << >>

\* What registration and the repository's CreateUser store.
NewUser(n, e, p) == [name |-> n, email |-> e, pw |-> p, active |-> TRUE, gone |-> FALSE]
-----------------------------------------------------------------------------
(* Reads.                                                                  *)

notDeleted(u) == ~users[u].gone

existsBy(field, v) == \E u \in DOMAIN users : notDeleted(u) /\ users[u][field] = v
ExistsByUsername(n) == existsBy("name", n)
ExistsByEmail(e) == existsBy("email", e)

FindByID(u) == u \in DOMAIN users /\ notDeleted(u)
FindByUsername(n) == {u \in DOMAIN users : notDeleted(u) /\ users[u].name = n}
FindByEmail(e) == {u \in DOMAIN users : notDeleted(u) /\ users[u].email = e}
FindByUsernameOrEmail(i) == FindByUsername(i) \cup FindByEmail(i)

\* The query leaves out revoked tokens.
FindByToken(t) == t \in DOMAIN tokens /\ tokens[t].state # "revoked"
-----------------------------------------------------------------------------
(* Writes.                                                                 *)

\* Mutant: only the username has an index.
NameIndex(u, row) == \A v \in DOMAIN users \ {u} : users[v].name # row.name

\* The unique indexes over username and email accept row as row u.
UniqueIndex(u, row) ==
  \A v \in DOMAIN users \ {u} : users[v].name # row.name /\ users[v].email # row.email

\* The number of the next row.
NextID(table) == Len(table) + 1

CreateUser(row) ==
  /\ UniqueIndex(NextID(users), row)
  /\ users' = Append(users, row)

\* Save: an UPDATE over the live rows and, when that finds none, an INSERT that
\* overwrites the row of the same number, deleted_at with it; an INSERT takes
\* the zero value of is_active for its default, true.
gormUpdate(u, row) ==
  users' = [users EXCEPT ![u] = [row EXCEPT !.active = row.active \/ users[u].gone]]

\* Mutant: the document of the update carries its empty deleted_at along.
mongoUpdateAll(u, row) == users' = [users EXCEPT ![u] = row]

\* The document of a user who is not deleted has no deleted_at.
ToDocument(row) == [f \in DOMAIN row \ {"gone"} |-> row[f]]

\* $set of the document: the fields it does not have stay.
mongoUpdate(u, row) ==
  LET doc == ToDocument(row)
  IN  users' = [users EXCEPT ![u] = [f \in DOMAIN @ |-> IF f \in DOMAIN doc THEN doc[f] ELSE @[f]]]

UpdateUser(u, row) ==
  /\ UniqueIndex(u, row)
  /\ IF backend = "gorm" THEN gormUpdate(u, row) ELSE mongoUpdate(u, row)

DeleteUser(u) == users' = [users EXCEPT ![u].gone = TRUE]

CreateToken(row) ==
  /\ Len(tokens) < MaxTokens
  /\ tokens' = Append(tokens, row)

RevokeByToken(t) == tokens' = [tokens EXCEPT ![t].state = "revoked"]

\* Mutant: the update stops at the first row.
RevokeOne(u) ==
  LET own == {t \in DOMAIN tokens : tokens[t].user = u /\ tokens[t].state # "revoked"}
  IN  tokens' = [t \in DOMAIN tokens |->
                   IF t \in own /\ \A s \in own : t <= s
                   THEN [tokens[t] EXCEPT !.state = "revoked"] ELSE tokens[t]]

RevokeAllByUserID(u) ==
  tokens' = [t \in DOMAIN tokens |->
               IF tokens[t].user = u THEN [tokens[t] EXCEPT !.state = "revoked"] ELSE tokens[t]]

\* Time passes ExpiresAt.
Expire(t) ==
  /\ tokens[t].state = "valid"
  /\ tokens' = [tokens EXCEPT ![t].state = "expired"]
=============================================================================
