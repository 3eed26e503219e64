------------------------------ MODULE Databases -----------------------------
(***************************************************************************)
(* The students' own databases (application/userdb_usecase.go,               *)
(* persistence/userdb_repo.go, infrastructure/userdbadmin/provisioner.go).   *)
(* A database lives in a PostgreSQL server, with a role of the same name     *)
(* that owns it; a row says whose it is.  No transaction spans the two: a    *)
(* creation rolls back by hand, a deletion starts over, and an administrator *)
(* can reconcile the rows with what is there.  A statement at the            *)
(* PostgreSQL server may fail at any time without effect.  The grants of a   *)
(* new database are one step, what passwords are is left out.                *)
(***************************************************************************)
EXTENDS Classroom

CONSTANTS
  DbIds,        \* ids of user_databases, never used again
  Projects,
  Wishes,       \* who asks for a database for which project
  Slug,         \* the name of a user in database names, of which two may be alike
  MaxPerUser,
  MaxOutages    \* bound on failing statements

DbRows == [user : Users, project : Projects, name : Users \X Projects, rotated : BOOLEAN,
          live : BOOLEAN]

ASSUME DatabasesAssumption ==
  /\ Wishes \subseteq Users \X Projects /\ Slug \in [Users -> Users]
  /\ MaxPerUser \in Nat \ {0} /\ MaxOutages \in Nat
  /\ None \notin DbRows

VARIABLES
  userdb,    \* user_databases
  pgrole,    \* pg_roles
  pgdb,      \* pg_database
  outages    \* failed statements

databases == <<userdb, pgrole, pgdb, outages>>

DatabasesInit ==
  /\ userdb = [i \in DbIds |-> None]
  /\ pgrole = {}
  /\ pgdb = {}
  /\ outages = 0

\* BuildDBName
DbName(u, p) == <<Slug[u], p>>

DbRow(u, p) ==
  [user |-> u, project |-> p, name |-> DbName(u, p), rotated |-> FALSE, live |-> TRUE]

LiveDbs == {i \in DbIds : userdb[i] # None /\ userdb[i].live}

DbsOf(u) == {i \in LiveDbs : userdb[i].user = u}

Fails == outages < MaxOutages /\ outages' = outages + 1
Works == UNCHANGED outages

-----------------------------------------------------------------------------
(* Create *)

WithinQuota(u) == Cardinality(DbsOf(u)) < MaxPerUser

CreateDatabase(r) ==
  \E x \in Wishes : LET u == x[1]  p == x[2] IN
    /\ MayAct(u) /\ WithinQuota(u)
    /\ \A i \in DbsOf(u) : userdb[i].project # p
    /\ Receive(r, "CreateDatabase", "db:role",
               [user |-> u, project |-> p, name |-> DbName(u, p), then |-> "answer"])
    /\ UNCHANGED <<money, active, classroom, databases>>

\* CREATE ROLE: whoever has the role has the name.
CreateRole(r) ==
  LET n == task[r].name
  IN  /\ At(r, "db:role")
      /\ \/ Works /\ n \notin pgrole /\ Goto(r, "db:create") /\ pgrole' = pgrole \cup {n}
         \/ Works /\ n \in pgrole /\ Return(r) /\ UNCHANGED pgrole
         \/ Fails /\ Return(r) /\ UNCHANGED pgrole
      /\ UNCHANGED <<money, active, classroom, userdb, pgdb>>

\* CREATE DATABASE, which needs its owner.
CreateDb(r) ==
  LET n == task[r].name
  IN  /\ At(r, "db:create")
      /\ \/ /\ Works /\ n \in pgrole \ pgdb
            /\ Goto(r, "db:grant")
            /\ pgdb' = pgdb \cup {n}
         \/ /\ (Works /\ n \notin pgrole \ pgdb) \/ Fails
            /\ Goto(r, "drop:role")
            /\ UNCHANGED pgdb
      /\ UNCHANGED <<money, active, classroom, userdb, pgrole>>

\* The grants, and the schema made over to the owner; else both are dropped again.
GrantDb(r) ==
  LET n == task[r].name
  IN  /\ At(r, "db:grant")
      /\ \/ Works /\ n \in pgdb \cap pgrole /\ Goto(r, "db:insert")
         \/ ((Works /\ n \notin pgdb \cap pgrole) \/ Fails) /\ Goto(r, "drop:db")
      /\ UNCHANGED <<money, active, classroom, userdb, pgrole, pgdb>>

\* Somebody else has a row for the name: PostgreSQL is cleaned up.
AfterRefusedInsert == "drop:db"

InsertDb(r) ==
  LET t == task[r]
      taken == \E i \in LiveDbs : userdb[i].name = t.name
      free == IF taken THEN {} ELSE FreeId(userdb)
  IN  /\ At(r, "db:insert")
      /\ IF free = {}
           THEN Goto(r, AfterRefusedInsert) /\ UNCHANGED userdb
           ELSE /\ Return(r)
                /\ \E i \in free : userdb' = [userdb EXCEPT ![i] = DbRow(t.user, t.project)]
      /\ UNCHANGED <<money, active, classroom, pgrole, pgdb, outages>>

-----------------------------------------------------------------------------
(* Provisioner.Delete: the database first, since a role that owns one cannot  *)
(* be dropped.  Then the row, if it was asked for.                           *)

DropDb(r) ==
  /\ At(r, "drop:db")
  /\ \/ Works /\ Goto(r, "drop:role") /\ pgdb' = pgdb \ {task[r].name}
     \/ Fails /\ Return(r) /\ UNCHANGED pgdb
  /\ UNCHANGED <<money, active, classroom, userdb, pgrole>>

DropRole(r) ==
  LET n == task[r].name
  IN  /\ At(r, "drop:role")
      /\ \/ /\ Works /\ n \notin pgdb
            /\ IF task[r].then = "row" THEN Goto(r, "drop:row") ELSE Return(r)
            /\ pgrole' = pgrole \ {n}
         \/ /\ (Works /\ n \in pgdb) \/ Fails
            /\ Return(r)
            /\ UNCHANGED pgrole
      /\ UNCHANGED <<money, active, classroom, userdb, pgdb>>

DropRow(r) ==
  /\ At(r, "drop:row")
  /\ Return(r)
  /\ userdb' = [userdb EXCEPT ![task[r].id].live = FALSE]
  /\ UNCHANGED <<money, active, classroom, pgrole, pgdb, outages>>

DeleteDatabase(r) ==
  \E i \in LiveDbs :
    /\ MayAct(userdb[i].user)
    /\ Receive(r, "DeleteDatabase", "drop:db",
               [id |-> i, name |-> userdb[i].name, then |-> "row"])
    /\ UNCHANGED <<money, active, classroom, databases>>

AdminDeleteByDBName(r) ==
  \E i \in LiveDbs :
    /\ Receive(r, "AdminDeleteByDBName", "byname:exists",
               [id |-> i, name |-> userdb[i].name, then |-> "row"])
    /\ UNCHANGED <<money, active, classroom, databases>>

\* Without a database only the row goes.
ByNameExists(r) ==
  /\ At(r, "byname:exists")
  /\ \/ Works /\ Goto(r, IF task[r].name \in pgdb THEN "drop:db" ELSE "drop:row")
     \/ Fails /\ Return(r)
  /\ UNCHANGED <<money, active, classroom, userdb, pgrole, pgdb>>

-----------------------------------------------------------------------------
(* Rotate: a new password for the role, then a note in the row. *)

RotatePassword(r) ==
  \E i \in LiveDbs :
    /\ MayAct(userdb[i].user)
    /\ Receive(r, "RotatePassword", "rotate:role", [id |-> i, name |-> userdb[i].name])
    /\ UNCHANGED <<money, active, classroom, databases>>

\* ALTER ROLE, which needs the role.
RotateRole(r) ==
  LET n == task[r].name
  IN  /\ At(r, "rotate:role")
      /\ \/ Works /\ n \in pgrole /\ Goto(r, "rotate:mark")
         \/ ((Works /\ n \notin pgrole) \/ Fails) /\ Return(r)
      /\ UNCHANGED <<money, active, classroom, userdb, pgrole, pgdb>>

\* MarkRotated: an UPDATE by id, which finds no row that is gone.
Rotated(i) == IF i \in LiveDbs THEN [userdb EXCEPT ![i].rotated = TRUE] ELSE userdb

RotateMark(r) ==
  /\ At(r, "rotate:mark")
  /\ Return(r)
  /\ userdb' = Rotated(task[r].id)
  /\ UNCHANGED <<money, active, classroom, pgrole, pgdb, outages>>

\* The operator drops a database, and its role, at the PostgreSQL server.
DropByHand ==
  \E n \in pgdb :
    /\ AnswerAtOnce("DropByHand")
    /\ pgdb' = pgdb \ {n}
    /\ pgrole' = pgrole \ {n}
    /\ UNCHANGED <<money, active, classroom, userdb, outages>>

-----------------------------------------------------------------------------
(* AdminReconcile: every row there is now, one after the other, goes if its   *)
(* database is not there.                                                    *)

AdminReconcile(r) ==
  /\ Receive(r, "AdminReconcile", "reconcile:next", [todo |-> SetToSeq(LiveDbs)])
  /\ UNCHANGED <<money, active, classroom, databases>>

Orphaned_Taken(i) == userdb[i].name \in pgdb

Orphaned(i) == userdb[i].name \notin pgdb

ReconcileNext(r) ==
  LET todo == task[r].todo
      Skip == todo # <<>> /\ GotoWith(r, "reconcile:next", [todo |-> Tail(todo)])
  IN  /\ At(r, "reconcile:next")
      /\ \/ Works /\ todo = <<>> /\ Return(r)
         \/ Works /\ todo # <<>> /\ Orphaned(Head(todo)) /\ Goto(r, "reconcile:remove")
         \/ Works /\ todo # <<>> /\ ~Orphaned(Head(todo)) /\ Skip
         \/ Fails /\ Skip
      /\ UNCHANGED <<money, active, classroom, userdb, pgrole, pgdb>>

ReconcileRemove(r) ==
  LET todo == task[r].todo
  IN  /\ At(r, "reconcile:remove")
      /\ GotoWith(r, "reconcile:next", [todo |-> Tail(todo)])
      /\ userdb' = [userdb EXCEPT ![Head(todo)].live = FALSE]
      /\ UNCHANGED <<money, active, classroom, pgrole, pgdb, outages>>

-----------------------------------------------------------------------------
DatabasesStep(r) ==
  \/ CreateRole(r) \/ CreateDb(r) \/ GrantDb(r) \/ InsertDb(r)
  \/ DropDb(r) \/ DropRole(r) \/ DropRow(r) \/ ByNameExists(r)
  \/ ReconcileNext(r) \/ ReconcileRemove(r) \/ RotateRole(r) \/ RotateMark(r)

DatabasesRequest(r) ==
  \/ CreateDatabase(r) \/ DeleteDatabase(r) \/ AdminDeleteByDBName(r) \/ AdminReconcile(r)
  \/ RotatePassword(r)

DatabasesNext ==
  \/ DropByHand
  \/ \E r \in Requests : DatabasesStep(r) \/ DatabasesRequest(r)
=============================================================================
