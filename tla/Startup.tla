------------------------------ MODULE Startup -------------------------------
(***************************************************************************)
(* How the process starts (cmd/server/main.go, RunMigrations and             *)
(* migrateWalletsPerClassroom of persistence/sqlite.go).  Whatever version   *)
(* wrote the database, its tables are created, get the columns they lack, and *)
(* rows of before there were classrooms are assigned to one; then requests    *)
(* are served.  A start that is cut off between two statements starts over.   *)
(*                                                                         *)
(* A group of CREATE or ALTER statements is one action: each is repeated      *)
(* harmlessly, so where a group is cut off makes no difference to the next    *)
(* start.  The tables named here are those whose columns have changed; Added  *)
(* stands for those that came complete.                                      *)
(***************************************************************************)
EXTENDS Bank, Grants

VARIABLES
  boot,    \* the step a start is at, or "serving", or "failed"
  schema   \* by table: absent, old (without its later columns), current

startup == <<boot, schema>>

First   == {"users", "wallets", "companies", "freelance_jobs", "loans", "notifications"}
Middle  == {"grants", "llm_daily_usage"}
Chatted == {"chat_messages"}
Latest  == {"student_milestones", "mail_addresses", "Added"}
Tables  == First \cup Middle \cup Chatted \cup Latest

Current == [t \in Tables |-> "current"]

Upgrading == "Upgrade" \in workload

\* The tables that came with classrooms or after them, of the modelled ones.
Scoped == {"users", "wallets", "companies", "freelance_jobs", "loans", "grants"}

\* What a version from before there were classrooms may have left.
OldSchemas ==
  {[t \in Tables |->
      CASE t \in Scoped -> "old"
        [] t \in {"mail_addresses", "Added"} -> "absent"
        [] t = "student_milestones" -> s[1]
        [] t = "chat_messages" -> s[2]
        [] OTHER -> "current"] :
     s \in {"absent", "old", "current"} \X {"old", "current"}}

\* Then everybody had one wallet, and nothing a classroom.
OldSeat == [w \in Wallets |-> IF StartSeat[w] = None THEN None ELSE 0]
OldHome == [u \in Users |-> 0]

WithoutRoom(table) ==
  [i \in DOMAIN table |-> IF table[i] = None THEN None ELSE [table[i] EXCEPT !.room = 0]]

StartupInit ==
  IF Upgrading
    THEN /\ boot = "init" /\ schema \in OldSchemas
         /\ ClassroomInit(OldHome, OldSeat)
         /\ BankInit(WithoutRoom(StartLoan)) /\ GrantsInit(WithoutRoom(StartGrant))
    ELSE /\ boot = "serving" /\ schema = Current
         /\ ClassroomInit(HomeRoom, StartSeat)
         /\ BankInit(StartLoan) /\ GrantsInit(StartGrant)

-----------------------------------------------------------------------------
(* Statements *)

Reach(step) == boot' = step /\ UNCHANGED server

\* CREATE TABLE IF NOT EXISTS
Created(tables, as) ==
  [t \in Tables |-> IF t \in tables /\ schema[t] = "absent" THEN as ELSE schema[t]]

\* ALTER TABLE ADD COLUMN: an error, of a table that does not exist or of a column
\* that does, is ignored.
Altered(tables) ==
  [t \in Tables |-> IF t \in tables /\ schema[t] = "old" THEN "current" ELSE schema[t]]

FirstOf(ks) == IF ks = {} THEN 0 ELSE CHOOSE k \in ks : \A j \in ks : k <= j

\* MIN(classroom_id) of the memberships of u
FirstRoom(u) == FirstOf({k \in rooms : <<k, u>> \in member})

HomesFilled == [u \in Users |-> IF active[u] = 0 THEN FirstRoom(u) ELSE active[u]]

LoansFilled ==
  [l \in Loans |->
     IF loan[l] # None /\ loan[l].room = 0
       THEN [loan[l] EXCEPT !.room = FirstRoom(loan[l].user)] ELSE loan[l]]

GrantsFilled ==
  [g \in GrantIds |->
     IF grant[g] # None /\ grant[g].room = 0
       THEN [grant[g] EXCEPT !.room = FirstOf(rooms)] ELSE grant[g]]

-----------------------------------------------------------------------------
(* RunMigrations, step by step *)

\* 001_init.sql has the tables of the first version, without later columns.
CreateFirst ==
  /\ boot = "init" /\ Reach("alter")
  /\ schema' = Created(First, "old")
  /\ UNCHANGED <<classroom, bank, grants>>

AlterTables ==
  /\ boot = "alter" /\ Reach("rebuild")
  /\ schema' = Altered(Tables \ {"wallets", "llm_daily_usage", "chat_messages"})
  /\ UNCHANGED <<classroom, bank, grants>>

RebuildWallets_Unassigned ==
  /\ boot = "rebuild" /\ Reach("homes")
  /\ schema' = [schema EXCEPT !["wallets"] = "current"]
  /\ UNCHANGED <<classroom, bank, grants>>

\* One transaction copies the wallets, with their ids and balances, to a table that
\* knows classrooms, unless that has been done.
RebuildWallets ==
  /\ boot = "rebuild" /\ Reach("homes")
  /\ schema' = [schema EXCEPT !["wallets"] = "current"]
  /\ seat' = IF schema["wallets"] = "current" THEN seat
             ELSE [w \in Wallets |-> IF seat[w] = None THEN None ELSE FirstRoom(w[1])]
  /\ UNCHANGED <<account, token, rooms, member, bank, grants>>

FillHomes ==
  /\ boot = "homes" /\ boot' = "middle"
  /\ active' = HomesFilled
  /\ UNCHANGED <<money, handlers, control, classroom, bank, grants, schema>>

CreateMiddle ==
  /\ boot = "middle" /\ Reach("chat")
  /\ schema' = [Created(Middle, "current") EXCEPT !["llm_daily_usage"] = "current"]
  /\ UNCHANGED <<classroom, bank, grants>>

\* Created without the column that the statement after adds.
CreateChat ==
  /\ boot = "chat" /\ Reach("latest")
  /\ schema' = [Created(Chatted, "old") EXCEPT !["chat_messages"] = "current"]
  /\ UNCHANGED <<classroom, bank, grants>>

CreateLatest ==
  /\ boot = "latest" /\ Reach("loans")
  /\ schema' = Created(Latest, "current")
  /\ UNCHANGED <<classroom, bank, grants>>

\* A backfill of a table without the column is an error, and main gives up.
Backfill(table, next) ==
  /\ UNCHANGED <<server, classroom, schema>>
  /\ boot' = IF schema[table] = "current" THEN next ELSE "failed"

FillLoans ==
  /\ boot = "loans" /\ Backfill("loans", "grants")
  /\ loan' = IF schema["loans"] = "current" THEN LoansFilled ELSE loan
  /\ UNCHANGED <<due, payment, weeks, grants>>

FillGrants ==
  /\ boot = "grants" /\ Backfill("grants", "serving")
  /\ grant' = IF schema["grants"] = "current" THEN GrantsFilled ELSE grant
  /\ UNCHANGED <<bank, application>>

\* The process stops while it starts.
StopsAtStart ==
  /\ boot # "serving" /\ restarts < MaxRestarts
  /\ restarts' = restarts + 1
  /\ boot' = "init"
  /\ UNCHANGED <<money, active, handlers, workload, served, overlapped>>
  /\ UNCHANGED <<classroom, bank, grants, schema>>

\* A start with nothing to change in the schema: what it assigns to a classroom
\* depends on rows that no step of it changes, so it is one action.
StartAgain ==
  /\ boot = "serving"
  /\ active' = HomesFilled /\ loan' = LoansFilled /\ grant' = GrantsFilled
  /\ UNCHANGED <<classroom, due, payment, weeks, application, startup>>

StartupNext ==
  \/ CreateFirst \/ AlterTables \/ RebuildWallets \/ FillHomes
  \/ CreateMiddle \/ CreateChat \/ CreateLatest \/ FillLoans \/ FillGrants
  \/ StopsAtStart
=============================================================================
