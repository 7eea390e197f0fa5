-------------------------- MODULE InvoicePayments --------------------------
(***************************************************************************)
(* Concurrent requests against the open invoices of one customer:          *)
(* sale_add_payment, customer_payment_allocate, customer_payment (through  *)
(* _collect_due) and sale_cancel, down to finance.record_payment,          *)
(* payments.allocate_payment, Sale.recalculate and cancel_sale.            *)
(*                                                                         *)
(* A request is a process.  A step is one transaction.atomic() block or    *)
(* one autocommitted statement outside a block; between two steps any      *)
(* other request may run.  Django model instances loaded before a step are *)
(* private copies that grow stale.  The database is PostgreSQL under READ  *)
(* COMMITTED: a reader sees what is committed, a writer of a Sale row waits *)
(* for the transaction that holds it FOR UPDATE, and so does cancel_sale,  *)
(* whose SalesReturn row takes a KEY SHARE lock on the Sale.               *)
(***************************************************************************)
EXTENDS Integers, FiniteSets, Sums

CONSTANTS
  NInvoices,   \* the customer's invoices are 1..NInvoices, oldest (date, id) first
  Requests,    \* HTTP requests, each served once
  Nobody,      \* the holder of a free row lock
  Kind,        \* what a request asks for
  Total,       \* Sale.total: fixed by the items, the discount and the tax
  Date,        \* Sale.date
  Order,       \* the position of an invoice in a request's list of invoices
  Amounts,     \* amounts a user may enter
  MaxCrashes   \* bound on requests lost to a crash

Invoices == 1..NInvoices

ASSUME InvoicesAssumption == NInvoices \in Nat \ {0}
ASSUME RequestsAssumption == Nobody \notin Requests
ASSUME KindAssumption == Kind \in [Requests -> {"pay", "allocate", "collect", "cancel"}]
ASSUME TotalAssumption == Total \in [Invoices -> Nat \ {0}]
ASSUME AmountsAssumption == Amounts \subseteq Nat \ {0}
ASSUME CrashesAssumption == MaxCrashes \in Nat
\* customer_payment_allocate orders its query by date and leaves ties to the
\* database; _collect_due orders it by date and id.
ASSUME OrderAssumption ==
  /\ Date \in [Invoices -> Nat]
  /\ \A i, j \in Invoices : i <= j => Date[i] <= Date[j]
  /\ Order \in [Requests -> [Invoices -> Invoices]]
  /\ \A r \in Requests, i, j \in Invoices :
       /\ Order[r][i] = Order[r][j] => i = j
       /\ Date[i] < Date[j] => Order[r][i] < Order[r][j]
       /\ Kind[r] = "collect" => Order[r][i] = i

VARIABLES
  paid,         \* Sale.paid
  remaining,    \* Sale.remaining
  status,       \* Sale.status
  voided,       \* does the SalesReturn VOID-<invoice_no> exist?
  direct,       \* sum of the Payment rows of a sale
  allocatedTo,  \* sum of its PaymentAllocation rows
  onAccount,    \* sum of the customer's on-account Payment rows, per request
  holder,       \* who holds the Sale row FOR UPDATE
  pc,           \* the next step of a request
  target,       \* the invoice a pay or cancel request is about
  plan,         \* the amount a request means to put on each invoice
  extra,        \* what _collect_due has left over after its plan
  loaded,       \* Sale.status in the request's copies
  tally,        \* the sum recalculate() is adding up
  recorded,     \* money a request has put in the books
  crashes

rows == <<paid, remaining, status>>
money == <<direct, allocatedTo, onAccount, recorded>>
local == <<target, plan, extra, loaded, tally>>
vars == <<rows, voided, money, holder, pc, local, crashes>>

Settled(i) == direct[i] + allocatedTo[i]
Open == {i \in Invoices : remaining[i] > 0}
Planned(r) == {i \in Invoices : plan[r][i] > 0}
Held(r) == {i \in Invoices : holder[i] = r}
Free(i) == holder[i] = Nobody
Ended == {"done", "rejected", "crashed"}
Steps == Ended \cup {"start", "pay", "readDirect", "readAllocated", "save", "locking",
                     "advance", "check", "void"}

Goto(r, step) == pc' = [pc EXCEPT ![r] = step]

\* Fault: row locks outlive the transaction.
KeepLocks(r) == UNCHANGED holder

\* The end of a transaction, committed or rolled back.
Release(r) == holder' = [i \in Invoices |-> IF holder[i] = r THEN Nobody ELSE holder[i]]
PlanTotal(p) == SumUpTo(p, NInvoices)

\* Fault: the amount is compared with the invoice's total.
ExceedsTotal(r, i) == plan[r][i] > Total[i]

\* The check of an amount against the locked row.
Exceeds(r, i) == plan[r][i] > remaining[i]

\* The status recalculate() gives an invoice.
StatusOf(total, sum) ==
  IF total - sum <= 0 THEN "paid" ELSE IF sum > 0 THEN "partial" ELSE "pending"

-----------------------------------------------------------------------------
(***************************************************************************)
(* sale_add_payment: record_payment in its own transaction, then           *)
(* recalculate() and save() on the copy loaded at the start.               *)
(***************************************************************************)

LoadForPayment(r) ==
  /\ pc[r] = "start" /\ Kind[r] = "pay"
  /\ \E i \in Invoices, a \in Amounts :
       /\ target' = [target EXCEPT ![r] = i]
       /\ plan' = [plan EXCEPT ![r] = [j \in Invoices |-> IF j = i THEN a ELSE 0]]
  /\ loaded' = [loaded EXCEPT ![r] = status]
  /\ Goto(r, "pay")
  /\ UNCHANGED <<rows, voided, money, holder, extra, tally, crashes>>

\* record_payment: the amount is checked against the locked row, whose remaining
\* this transaction does not bring up to date.
RecordPayment(r) ==
  /\ pc[r] = "pay" /\ Free(target[r])
  /\ LET i == target[r]
         a == plan[r][i]
     IN  IF Exceeds(r, i)
         THEN Goto(r, "rejected") /\ UNCHANGED money
         ELSE /\ Goto(r, "readDirect")
              /\ direct' = [direct EXCEPT ![i] = @ + a]
              /\ recorded' = [recorded EXCEPT ![r] = @ + a]
              /\ UNCHANGED <<allocatedTo, onAccount>>
  /\ UNCHANGED <<rows, voided, holder, local, crashes>>

\* recalculate() returns at once when its copy says CANCELLED.
ReadDirect(r) ==
  /\ pc[r] = "readDirect"
  /\ IF loaded[r][target[r]] = "cancelled"
     THEN Goto(r, "done") /\ UNCHANGED tally
     ELSE Goto(r, "readAllocated") /\ tally' = [tally EXCEPT ![r] = direct[target[r]]]
  /\ UNCHANGED <<rows, voided, money, holder, target, plan, extra, loaded, crashes>>

\* Fault: payments made through an allocation are forgotten.
SkipAllocated(r) ==
  /\ pc[r] = "readAllocated"
  /\ Goto(r, "save")
  /\ UNCHANGED <<rows, voided, money, holder, local, crashes>>

ReadAllocated(r) ==
  /\ pc[r] = "readAllocated"
  /\ tally' = [tally EXCEPT ![r] = @ + allocatedTo[target[r]]]
  /\ Goto(r, "save")
  /\ UNCHANGED <<rows, voided, money, holder, target, plan, extra, loaded, crashes>>

Save(r) ==
  /\ pc[r] = "save" /\ Free(target[r])
  /\ LET i == target[r] IN
       /\ paid' = [paid EXCEPT ![i] = tally[r]]
       /\ remaining' = [remaining EXCEPT ![i] = Total[i] - tally[r]]
       /\ status' = [status EXCEPT ![i] = StatusOf(Total[i], tally[r])]
  /\ Goto(r, "done")
  /\ UNCHANGED <<voided, money, holder, local, crashes>>

-----------------------------------------------------------------------------
(***************************************************************************)
(* customer_payment_allocate and _collect_due: one transaction that locks, *)
(* checks and recalculates every invoice of the plan.                      *)
(***************************************************************************)

\* The page offers the open invoices; the amounts left blank or zero are dropped, and
\* an allocation of nothing at all is an error.
LoadForAllocation(r) ==
  /\ pc[r] = "start" /\ Kind[r] = "allocate"
  /\ \E p \in [Invoices -> Amounts \cup {0}] :
       /\ {i \in Invoices : p[i] > 0} \subseteq Open
       /\ plan' = [plan EXCEPT ![r] = p]
       /\ Goto(r, IF PlanTotal(p) > 0 THEN "locking" ELSE "rejected")
  /\ loaded' = [loaded EXCEPT ![r] = status]
  /\ UNCHANGED <<rows, voided, money, holder, target, extra, tally, crashes>>

\* What an open invoice, and the open invoices before it, still want.
Owed(i) == IF remaining[i] > 0 THEN remaining[i] ELSE 0
OwedBefore(i) == SumUpTo([j \in Invoices |-> IF j < i THEN Owed(j) ELSE 0], NInvoices)
\* Fault: each open invoice that is reached is paid in full.
OldestInFull(a) == [i \in Invoices |-> IF a - OwedBefore(i) <= 0 THEN 0 ELSE Owed(i)]
\* Fault: the loop stops after one invoice.
OnlyOldest(a) ==
  [i \in Invoices |->
     IF OwedBefore(i) > 0 THEN 0 ELSE IF Owed(i) <= a THEN Owed(i) ELSE a]
\* The part of amount a that _collect_due puts on each invoice, oldest first.
OldestFirst(a) ==
  [i \in Invoices |->
     IF a - OwedBefore(i) <= 0 THEN 0
     ELSE IF Owed(i) <= a - OwedBefore(i) THEN Owed(i) ELSE a - OwedBefore(i)]

LoadForCollection(r) ==
  /\ pc[r] = "start" /\ Kind[r] = "collect"
  /\ \E a \in Amounts :
       /\ plan' = [plan EXCEPT ![r] = OldestFirst(a)]
       /\ extra' = [extra EXCEPT ![r] = a - PlanTotal(OldestFirst(a))]
  /\ loaded' = [loaded EXCEPT ![r] = status]
  /\ Goto(r, IF Open = {} THEN "advance" ELSE "locking")
  /\ UNCHANGED <<rows, voided, money, holder, target, tally, crashes>>

\* The invoice whose row the request is about to lock.
NextToLock(r, i) ==
  /\ pc[r] = "locking"
  /\ i \in Planned(r) \ Held(r)
  /\ \A j \in Planned(r) \ Held(r) : Order[r][i] <= Order[r][j]

Lock(r, i) ==
  /\ NextToLock(r, i) /\ Free(i)
  /\ IF Exceeds(r, i)
     THEN Release(r) /\ Goto(r, "rejected")
     ELSE holder' = [holder EXCEPT ![i] = r] /\ UNCHANGED pc
  /\ UNCHANGED <<rows, voided, money, local, crashes>>

\* Fault: the invoices are recalculated before the PaymentAllocation rows exist.
SumBefore(i) == direct[i] + allocatedTo[i]
\* What recalculate() adds up inside the transaction.
SumInside(i) == direct[i] + allocatedTo'[i]

\* Fault: the left-over is dropped.
DropExtra(r) == "done"
AfterAllocation(r) == IF extra[r] > 0 THEN "advance" ELSE "done"

\* The Payment, its PaymentAllocation rows and the recalculated invoices.
CommitAllocation(r) ==
  /\ pc[r] = "locking" /\ Planned(r) \subseteq Held(r)
  /\ allocatedTo' = [i \in Invoices |-> allocatedTo[i] + plan[r][i]]
  /\ recorded' = [recorded EXCEPT ![r] = @ + PlanTotal(plan[r])]
  /\ LET fresh == {i \in Planned(r) : loaded[r][i] # "cancelled"}
     IN  /\ paid' = [i \in Invoices |-> IF i \in fresh THEN SumInside(i) ELSE paid[i]]
         /\ remaining' =
              [i \in Invoices |-> IF i \in fresh THEN Total[i] - SumInside(i) ELSE remaining[i]]
         /\ status' =
              [i \in Invoices |-> IF i \in fresh THEN StatusOf(Total[i], SumInside(i)) ELSE status[i]]
  /\ Release(r)
  /\ Goto(r, AfterAllocation(r))
  /\ UNCHANGED <<voided, direct, onAccount, local, crashes>>

\* The left-over of _collect_due, an on-account Payment in a transaction of its own.  Its
\* amount is positive, so it has no ValueError to report; whatever else stops it is a Crash.
RecordAdvance(r) ==
  /\ pc[r] = "advance"
  /\ onAccount' = [onAccount EXCEPT ![r] = extra[r]]
  /\ recorded' = [recorded EXCEPT ![r] = @ + extra[r]]
  /\ Goto(r, "done")
  /\ UNCHANGED <<rows, voided, direct, allocatedTo, holder, local, crashes>>

-----------------------------------------------------------------------------
(***************************************************************************)
(* sale_cancel: the checks come before the transaction.                    *)
(***************************************************************************)

LoadForCancel(r) ==
  /\ pc[r] = "start" /\ Kind[r] = "cancel"
  /\ \E i \in Invoices :
       /\ target' = [target EXCEPT ![r] = i]
       /\ Goto(r, IF status[i] = "cancelled" THEN "rejected" ELSE "check")
  /\ UNCHANGED <<rows, voided, money, holder, plan, extra, loaded, tally, crashes>>

\* Fault: payments.exists() alone.
HasPayment(i) == direct[i] > 0
HasMoney(i) == Settled(i) > 0

CheckUncollected(r) ==
  /\ pc[r] = "check"
  /\ LET i == target[r] IN
       Goto(r, IF HasMoney(i) \/ voided[i] THEN "rejected" ELSE "void")
  /\ UNCHANGED <<rows, voided, money, holder, local, crashes>>

\* The void return, whose return_no is unique, and the UPDATE of the sale.
Void(r) ==
  /\ pc[r] = "void" /\ Free(target[r])
  /\ LET i == target[r] IN
       IF voided[i]
       THEN Goto(r, "rejected") /\ UNCHANGED <<voided, remaining, status>>
       ELSE /\ Goto(r, "done")
            /\ voided' = [voided EXCEPT ![i] = TRUE]
            /\ status' = [status EXCEPT ![i] = "cancelled"]
            /\ remaining' = [remaining EXCEPT ![i] = 0]
  /\ UNCHANGED <<paid, money, holder, local, crashes>>

-----------------------------------------------------------------------------
(***************************************************************************)
(* What can go wrong around a request.                                     *)
(***************************************************************************)

\* The worker dies: what it has not committed is rolled back.
Crash(r) ==
  /\ crashes < MaxCrashes
  /\ pc[r] \notin Ended \cup {"start"}
  /\ crashes' = crashes + 1
  /\ Goto(r, "crashed")
  /\ Release(r)
  /\ UNCHANGED <<rows, voided, money, local>>

WaitsFor(r, s) == \E i \in Invoices : NextToLock(r, i) /\ holder[i] = s

\* Requests that wait for each other in a circle: the database aborts one of them.
Abort(r) ==
  /\ \E circle \in SUBSET Requests :
       /\ r \in circle
       /\ \A s \in circle : /\ \E t \in circle : WaitsFor(s, t)
                            /\ \E t \in circle : WaitsFor(t, s)
  /\ Goto(r, "rejected")
  /\ Release(r)
  /\ UNCHANGED <<rows, voided, money, local, crashes>>

-----------------------------------------------------------------------------

Step(r) ==
  \/ LoadForPayment(r) \/ RecordPayment(r) \/ ReadDirect(r) \/ ReadAllocated(r) \/ Save(r)
  \/ LoadForAllocation(r) \/ LoadForCollection(r)
  \/ \E i \in Invoices : Lock(r, i)
  \/ CommitAllocation(r) \/ RecordAdvance(r)
  \/ LoadForCancel(r) \/ CheckUncollected(r) \/ Void(r)
  \/ Abort(r)

\* Every request has been answered or lost.
AllEnded == \A r \in Requests : pc[r] \in Ended

Init ==
  /\ paid = [i \in Invoices |-> 0]
  /\ remaining = Total
  /\ status = [i \in Invoices |-> "pending"]
  /\ voided = [i \in Invoices |-> FALSE]
  /\ direct = [i \in Invoices |-> 0]
  /\ allocatedTo = [i \in Invoices |-> 0]
  /\ onAccount = [r \in Requests |-> 0]
  /\ holder = [i \in Invoices |-> Nobody]
  /\ pc = [r \in Requests |-> "start"]
  /\ target = [r \in Requests |-> 1]
  /\ plan = [r \in Requests |-> [i \in Invoices |-> 0]]
  /\ extra = [r \in Requests |-> 0]
  /\ loaded = [r \in Requests |-> [i \in Invoices |-> "pending"]]
  /\ tally = [r \in Requests |-> 0]
  /\ recorded = [r \in Requests |-> 0]
  /\ crashes = 0

Next == \E r \in Requests : Step(r) \/ Crash(r)

Spec == Init /\ [][Next]_vars

\* One request at a time: none is loaded before the one in progress has been answered.
Idle == \A r \in Requests : pc[r] \in Ended \cup {"start"}
OneAtATime == (\E r \in Requests : pc[r] = "start" /\ pc'[r] # "start") => Idle
SerialSpec == Init /\ [][Next /\ OneAtATime]_vars

\* The web server runs every request to its end, and the database grants a free row
\* lock to a waiter; nothing obliges a worker to crash.
FairSpec == Spec /\ \A r \in Requests : WF_vars(Step(r))

-----------------------------------------------------------------------------
(***************************************************************************)
(* Properties.                                                             *)
(***************************************************************************)

Statuses == {"pending", "partial", "paid", "cancelled"}

\* Every column and every local variable of a request holds what it can hold.
TypeOK ==
  /\ paid \in [Invoices -> Nat]
  /\ remaining \in [Invoices -> Int]
  /\ status \in [Invoices -> Statuses]
  /\ voided \in [Invoices -> BOOLEAN]
  /\ direct \in [Invoices -> Nat]
  /\ allocatedTo \in [Invoices -> Nat]
  /\ onAccount \in [Requests -> Nat]
  /\ holder \in [Invoices -> Requests \cup {Nobody}]
  /\ pc \in [Requests -> Steps]
  /\ target \in [Requests -> Invoices]
  /\ plan \in [Requests -> [Invoices -> Nat]]
  /\ extra \in [Requests -> Nat]
  /\ loaded \in [Requests -> [Invoices -> Statuses]]
  /\ tally \in [Requests -> Nat]
  /\ recorded \in [Requests -> Nat]
  /\ crashes \in 0..MaxCrashes

\* No invoice is paid more than its total: "two concurrent payments against the same
\* invoice can't both pass a stale check" (record_payment), "two concurrent allocations
\* ... can't both pass a stale check" (allocate_payment).
NoOverpayment == \A i \in Invoices : Settled(i) <= Total[i]

\* The cached columns are what the Payment and PaymentAllocation rows say; a cancelled
\* invoice has nothing left to pay.
RowExact(i) ==
  /\ paid[i] = Settled(i)
  /\ IF status[i] = "cancelled"
     THEN remaining[i] = 0
     ELSE /\ remaining[i] = Total[i] - Settled(i)
          /\ status[i] = StatusOf(Total[i], Settled(i))

CacheExact == \A i \in Invoices : RowExact(i)

\* The same once every request has been answered.
CacheExactAtRest == AllEnded => CacheExact

\* "never let a later recalculate() ... silently resurrect its status" (recalculate).
CancelledStays ==
  [][\A i \in Invoices : status[i] = "cancelled" => status'[i] = "cancelled"]_vars

\* cancel_sale refuses "if the sale has any payment ... against it".
CancelledUnpaid == \A i \in Invoices : voided[i] => Settled(i) = 0

\* A request that reports an error has put no money in the books, and one that reports
\* success all of what was entered: _collect_due spreads it over two transactions.
AllOrNothing ==
  \A r \in Requests :
    /\ pc[r] = "rejected" => recorded[r] = 0
    /\ pc[r] = "done" => recorded[r] = PlanTotal(plan[r]) + extra[r]

\* Money goes on account only when no invoice is left to pay: the left-over of
\* _collect_due is "a genuine advance".
AdvanceIsGenuine == \A r \in Requests : onAccount[r] > 0 => Open = {}

\* Every request is answered: neither the waits for row locks nor the aborted
\* transactions leave one hanging.
AllAnswered == <>AllEnded

-----------------------------------------------------------------------------
(***************************************************************************)
(* What the proofs rest on.                                                *)
(***************************************************************************)

\* Nobody uses sale_add_payment.
NoDirectPayments == \A r \in Requests : Kind[r] # "pay"

\* A locked row still wants what its holder is about to put on it.
LocksHold ==
  \A r \in Requests, i \in Invoices :
    holder[i] = r => pc[r] = "locking" /\ plan[r][i] > 0 /\ plan[r][i] <= remaining[i]

\* A copy says CANCELLED only of an invoice that is.
CopiesHold ==
  \A r \in Requests, i \in Invoices : loaded[r][i] = "cancelled" => status[i] = "cancelled"

PayingSteps == {"pay", "readDirect", "readAllocated", "save"}

\* The inductive invariant behind NoOverpayment, CacheExact and CancelledStays.
IInv ==
  /\ TypeOK
  /\ \A r \in Requests : pc[r] \notin PayingSteps
  /\ LocksHold
  /\ CopiesHold
  /\ CacheExact
  /\ NoOverpayment

\* What a request has recorded at each of its steps.
RecordedBy(r) ==
  /\ pc[r] \in {"start", "check", "void"} => PlanTotal(plan[r]) = 0 /\ extra[r] = 0
  /\ pc[r] \in PayingSteps => PlanTotal(plan[r]) = plan[r][target[r]] /\ extra[r] = 0
  /\ pc[r] \in {"start", "check", "void", "pay", "locking", "rejected"} => recorded[r] = 0
  /\ pc[r] \in {"readDirect", "readAllocated", "save", "advance"} =>
       recorded[r] = PlanTotal(plan[r])
  /\ pc[r] = "done" => recorded[r] = PlanTotal(plan[r]) + extra[r]

\* The inductive invariant behind AllOrNothing.
BooksFollow == TypeOK /\ \A r \in Requests : RecordedBy(r)

\* A collection with a left-over means to close every invoice, and has closed them all
\* by the time it records the left-over.
ClosesAll(r) ==
  /\ pc[r] = "locking" /\ extra[r] > 0 => \A i \in Invoices : remaining[i] <= plan[r][i]
  /\ pc[r] = "advance" \/ onAccount[r] > 0 => Open = {}

\* The inductive invariant behind AdvanceIsGenuine.
AdvanceInv == IInv /\ BooksFollow /\ \A r \in Requests : ClosesAll(r)

Busy(r) == pc[r] \notin Ended \cup {"start"}

\* The amount is recorded, the row not yet brought up to date.
Recalculating(r, i) == pc[r] \in PayingSteps \ {"pay"} /\ target[r] = i

\* What sale_add_payment and sale_cancel go by is still so when they act on it.
StillSo(r) ==
  /\ pc[r] = "pay" => plan[r][target[r]] > 0
  /\ Recalculating(r, target[r]) => status[target[r]] # "cancelled"
  /\ pc[r] = "readAllocated" => tally[r] = direct[target[r]]
  /\ pc[r] = "save" => tally[r] = Settled(target[r])
  /\ pc[r] = "void" => Settled(target[r]) = 0

\* The inductive invariant for requests that are served one at a time.
SerialInv ==
  /\ TypeOK
  /\ \A r, s \in Requests : Busy(r) /\ Busy(s) => r = s
  /\ LocksHold
  /\ CopiesHold
  /\ NoOverpayment
  /\ \A i \in Invoices : RowExact(i) \/ \E r \in Requests : Recalculating(r, i)
  /\ \A r \in Requests : StillSo(r)
  /\ \A i \in Invoices : voided[i] => status[i] = "cancelled" /\ Settled(i) = 0

=============================================================================
