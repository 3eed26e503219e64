------------------------------- MODULE Billing ------------------------------
(***************************************************************************)
(* Keys for the language-model proxy and their daily billing                 *)
(* (application/llm_usecase.go, persistence/llm_repo.go,                     *)
(* infrastructure/scheduler/billing.go).  Once a day every active key is     *)
(* charged for its student's usage as far as the balance goes; the rest is   *)
(* recorded as debt.  The proxy is external: it issues keys and reports costs.*)
(***************************************************************************)
EXTENDS Classroom

CONSTANTS
  KeyIds,      \* ids of llm_api_keys, in order
  StartKey,    \* llm_api_keys at the start
  Costs,       \* what the proxy may report for a student and a day; 0: no usage
  MaxDays      \* bound on the days

ASSUME BillingAssumption ==
  KeyIds \subseteq Nat /\ Costs \subseteq Nat /\ MaxDays \in Nat

VARIABLES
  key,     \* llm_api_keys
  usage,   \* llm_daily_usage by <<user, day>>
  day      \* the day that is billed next

billing == <<key, usage, day>>

Days == 1 .. MaxDays

BillingInit ==
  /\ key = StartKey
  /\ usage = [x \in Users \X Days |-> None]
  /\ day = 1

ActiveKeys(u) == {k \in KeyIds : key[k] # None /\ key[k].user = u /\ ~key[k].revoked}

-----------------------------------------------------------------------------
(* EnsureKey, RotateKey *)

\* FindActiveKeyByUserID found one already.
HasKey_Never(u) == FALSE

HasKey(u) == ActiveKeys(u) # {}

EnsureKey(r) ==
  \E u \in Users :
    /\ MayAct(u) /\ ~HasKey(u)
    /\ Receive(r, "EnsureKey", "key:insert", [user |-> u])
    /\ UNCHANGED <<money, active, classroom, billing>>

\* The proxy knows the student or is told of him, and issues a key; or one of the
\* calls fails.
Issues == BOOLEAN

KeyRow(u) == [user |-> u, revoked |-> FALSE]

\* A row is inserted for the key that is issued.
KeyInsert(r) ==
  /\ At(r, "key:insert")
  /\ Return(r)
  /\ \E issued \in Issues :
     IF ~issued \/ \A k \in KeyIds : key[k] # None THEN UNCHANGED key
     ELSE LET k == CHOOSE i \in KeyIds : key[i] = None /\ \A j \in KeyIds : j < i => key[j] # None
          IN  key' = [key EXCEPT ![k] = KeyRow(task[r].user)]
  /\ UNCHANGED <<money, active, classroom, usage, day>>

\* The newest active key is the one that goes.
RotateKey(r) ==
  \E u \in Users :
    /\ MayAct(u) /\ HasKey(u)
    /\ LET newest == CHOOSE k \in ActiveKeys(u) : \A j \in ActiveKeys(u) : j <= k
       IN  Receive(r, "RotateKey", "key:revoke", [user |-> u, k |-> newest])
    /\ UNCHANGED <<money, active, classroom, billing>>

KeyRevoke(r) ==
  /\ At(r, "key:revoke")
  /\ Goto(r, "key:find")
  /\ key' = [key EXCEPT ![task[r].k].revoked = TRUE]
  /\ UNCHANGED <<money, active, classroom, usage, day>>

KeyFind(r) ==
  /\ At(r, "key:find")
  /\ IF HasKey(task[r].user) THEN Return(r) ELSE Goto(r, "key:insert")
  /\ UNCHANGED <<money, active, classroom, billing>>

-----------------------------------------------------------------------------
(* BillAll: one sweep a day, in the scheduler's goroutine.                   *)

Sweeping == \E r \in Requests : pc[r] \in {"bill:next", "bill:debit", "bill:record"}

BillAll(r) ==
  \E cost \in [{x \in Users : ActiveKeys(x) # {}} -> Costs] :
    LET keys == {k \in UNION {ActiveKeys(x) : x \in Users} : cost[key[k].user] > 0}
    IN  /\ ~Sweeping /\ day \in Days
        /\ Receive(r, "BillAll", "bill:next",
             [day |-> day,
              todo |-> SetToSeq({[k |-> k, user |-> key[k].user, cost |-> cost[key[k].user]]
                                   : k \in keys})])
        /\ day' = day + 1
        /\ UNCHANGED <<money, active, classroom, key, usage>>

Payable(cost, balance) == IF balance < 0 THEN 0 ELSE IF cost > balance THEN balance ELSE cost

\* billOne: the wallet, and how much of the cost it can pay.
BillNext(r) ==
  LET t == task[r]
      bill == Head(t.todo)
      w == TheWallet(WalletFound(bill.user))
      rest == [day |-> t.day, todo |-> Tail(t.todo)]
  IN  /\ At(r, "bill:next")
      /\ IF t.todo = <<>> THEN Return(r)
         ELSE IF RowsOf(bill.user) = {} THEN GotoWith(r, "bill:next", rest)
         ELSE LET debit == Payable(bill.cost, wallet[w])
              IN  GotoWith(r, IF debit > 0 THEN "bill:debit" ELSE "bill:record",
                    With(rest, [bill |-> bill, wallet |-> w, debit |-> debit]))
      /\ UNCHANGED <<money, active, classroom, billing>>

\* The balance may be gone by now: then nothing is recorded either.
BillDebit(r) ==
  LET t == task[r]
  IN  /\ At(r, "bill:debit")
      /\ IF CanDebit(t.wallet, t.debit)
           THEN Goto(r, "bill:record") /\ Debit(t.wallet, t.debit, "llm_billing", t.bill.k)
           ELSE GotoWith(r, "bill:next", [day |-> t.day, todo |-> t.todo]) /\ UNCHANGED money
      /\ UNCHANGED <<active, classroom, billing>>

\* ON CONFLICT (user_id, usage_date): the row of that day is overwritten.
UsageRow(cost, debit) == [cost |-> cost, debited |-> debit, debt |-> cost - debit]

BillRecord(r) ==
  LET t == task[r]
  IN  /\ At(r, "bill:record")
      /\ GotoWith(r, "bill:next", [day |-> t.day, todo |-> t.todo])
      /\ usage' = [usage EXCEPT ![<<t.bill.user, t.day>>] = UsageRow(t.bill.cost, t.debit)]
      /\ UNCHANGED <<money, active, classroom, key, day>>

-----------------------------------------------------------------------------
BillingStep(r) ==
  \/ KeyInsert(r) \/ KeyRevoke(r) \/ KeyFind(r)
  \/ BillNext(r) \/ BillDebit(r) \/ BillRecord(r)

BillingRequest(r) == EnsureKey(r) \/ RotateKey(r)

BillingNext == \E r \in Requests : BillingStep(r) \/ BillingRequest(r) \/ BillAll(r)
=============================================================================
