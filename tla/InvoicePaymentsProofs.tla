----------------------- MODULE InvoicePaymentsProofs -----------------------
(***************************************************************************)
(* What is proved of InvoicePayments, for any invoices, requests, amounts  *)
(* and lock orders.  TypeOK and BooksFollow are inductive for every mix of *)
(* requests; IInv is inductive when nobody uses sale_add_payment.          *)
(***************************************************************************)
EXTENDS InvoicePayments, SumsProofs

LEMMA InvoicesFinite == NInvoices \in Nat /\ 1 \in Invoices
BY InvoicesAssumption DEF Invoices

-----------------------------------------------------------------------------
(***************************************************************************)
(* The plan of _collect_due.                                               *)
(***************************************************************************)

\* What the open invoices want, row by row.
Wanted == [i \in Invoices |-> Owed(i)]

LEMMA WantedType == ASSUME TypeOK PROVE Wanted \in [Invoices -> Nat]
BY DEF TypeOK, Wanted, Owed

\* The open invoices before an invoice are the prefix of the column up to it.
LEMMA OwedBeforeIsPrefix ==
  ASSUME TypeOK, NEW i \in Invoices
  PROVE  OwedBefore(i) = SumUpTo(Wanted, i - 1)
<1> DEFINE f == [j \in Invoices |-> IF j < i THEN Owed(j) ELSE 0]
           g == [j \in 1..NInvoices |-> IF j < i THEN Wanted[j] ELSE 0]
<1>1. f = g
  BY DEF Wanted, Invoices
<1>2. SumUpTo(g, NInvoices) = SumUpTo(Wanted, i - 1)
  <2>1. Wanted \in [1..NInvoices -> Int] /\ i \in 1..NInvoices
    BY WantedType DEF Invoices
  <2> QED BY <2>1, InvoicesFinite, SumPrefix
<1>3. OwedBefore(i) = SumUpTo(f, NInvoices)
  BY DEF OwedBefore
<1> QED
  <2> HIDE DEF f, g
  <2> QED BY <1>1, <1>2, <1>3

\* What the open invoices up to row k want.
WantedUpTo(k) == SumUpTo(Wanted, k)

LEMMA WantedUpToStep ==
  ASSUME TypeOK
  PROVE  /\ WantedUpTo(0) = 0
         /\ \A k \in Nat : k <= NInvoices => WantedUpTo(k) \in Nat
         /\ \A k \in Nat : WantedUpTo(k + 1) = WantedUpTo(k) + Wanted[k + 1]
         /\ \A i \in Invoices : OwedBefore(i) = WantedUpTo(i - 1)
<1>1. Wanted \in [1..NInvoices -> Nat]
  BY WantedType DEF Invoices
<1>2. \A k \in Nat : k <= NInvoices => SumUpTo(Wanted, k) \in Nat
  BY <1>1, InvoicesFinite, SumsNat
<1> QED
  BY <1>2, SumEquation, OwedBeforeIsPrefix DEF WantedUpTo

\* The plan puts a natural amount on each invoice.
LEMMA OldestFirstType ==
  ASSUME TypeOK, NEW a \in Nat
  PROVE  OldestFirst(a) \in [Invoices -> Nat]
<1>1. SUFFICES ASSUME NEW i \in Invoices
               PROVE  (IF a - OwedBefore(i) <= 0 THEN 0
                       ELSE IF Owed(i) <= a - OwedBefore(i) THEN Owed(i)
                       ELSE a - OwedBefore(i)) \in Nat
  BY DEF OldestFirst
<1>2. OwedBefore(i) \in Nat
  <2>1. i - 1 \in Nat /\ i - 1 <= NInvoices
    BY InvoicesFinite DEF Invoices
  <2> QED BY <2>1, WantedUpToStep
<1>3. Owed(i) \in Nat
  BY WantedType DEF Wanted
<1> QED
  BY <1>2, <1>3

\* Up to row k the plan spends what the invoices want, or all there is.
LEMMA OldestFirstSpends ==
  ASSUME TypeOK, NEW a \in Nat
  PROVE  \A k \in Nat : k <= NInvoices =>
           SumUpTo(OldestFirst(a), k) = IF WantedUpTo(k) <= a THEN WantedUpTo(k) ELSE a
<1> DEFINE Q == OldestFirst(a)
           T == {k \in Nat : k <= NInvoices =>
                   SumUpTo(Q, k) = IF WantedUpTo(k) <= a THEN WantedUpTo(k) ELSE a}
<1>1. 0 \in T
  BY SumEquation, WantedUpToStep
<1>2. ASSUME NEW k \in Nat, k \in T PROVE k + 1 \in T
  <2>1. SUFFICES ASSUME k + 1 <= NInvoices
                 PROVE  SumUpTo(Q, k + 1) =
                          IF WantedUpTo(k + 1) <= a THEN WantedUpTo(k + 1) ELSE a
    OBVIOUS
  <2>2. k + 1 \in Invoices /\ k <= NInvoices /\ (k + 1) - 1 = k
    BY <2>1, InvoicesFinite DEF Invoices
  <2>3. OwedBefore(k + 1) = WantedUpTo(k)
    BY <2>2, WantedUpToStep
  <2>4. Q[k + 1] = IF a - WantedUpTo(k) <= 0 THEN 0
                   ELSE IF Owed(k + 1) <= a - WantedUpTo(k) THEN Owed(k + 1)
                   ELSE a - WantedUpTo(k)
    BY <2>2, <2>3 DEF OldestFirst
  <2>5. Wanted[k + 1] = Owed(k + 1) /\ Owed(k + 1) \in Nat
    BY <2>2, WantedType DEF Wanted
  <2>6. SumUpTo(Q, k + 1) = SumUpTo(Q, k) + Q[k + 1]
    BY SumEquation
  <2>7. SumUpTo(Q, k) = IF WantedUpTo(k) <= a THEN WantedUpTo(k) ELSE a
    BY <1>2, <2>2
  <2>8. WantedUpTo(k + 1) = WantedUpTo(k) + Owed(k + 1) /\ WantedUpTo(k) \in Nat
    BY <2>2, <2>5, WantedUpToStep
  <2> HIDE DEF Q
  <2> QED BY <2>4, <2>5, <2>6, <2>7, <2>8
<1>3. Nat \subseteq T
  <2> HIDE DEF T
  <2> QED BY <1>1, <1>2, NatSetInduction
<1> QED BY <1>3

\* _collect_due never plans more than the amount entered.
LEMMA OldestFirstWithin ==
  ASSUME TypeOK, NEW a \in Nat
  PROVE  PlanTotal(OldestFirst(a)) \in Nat /\ PlanTotal(OldestFirst(a)) <= a
<1>1. PlanTotal(OldestFirst(a)) =
        IF WantedUpTo(NInvoices) <= a THEN WantedUpTo(NInvoices) ELSE a
  BY OldestFirstSpends, InvoicesFinite DEF PlanTotal
<1>2. WantedUpTo(NInvoices) \in Nat
  BY WantedUpToStep, InvoicesFinite
<1> QED BY <1>1, <1>2

LEMMA PlanTotalNat == ASSUME NEW p \in [Invoices -> Nat] PROVE PlanTotal(p) \in Nat
BY InvoicesFinite, SumNat DEF PlanTotal, Invoices

-----------------------------------------------------------------------------
(***************************************************************************)
(* Types, for every mix of requests.                                       *)
(***************************************************************************)

LEMMA InitTypeOK == ASSUME Init PROVE TypeOK
<1>1. paid \in [Invoices -> Nat] /\ remaining \in [Invoices -> Int]
  BY TotalAssumption DEF Init
<1>2. Nobody \notin Requests /\ crashes \in 0..MaxCrashes
  BY RequestsAssumption, CrashesAssumption DEF Init
<1> QED
  BY <1>1, <1>2, InvoicesFinite DEF Init, TypeOK, Statuses, Steps

LEMMA GotoType ==
  ASSUME TypeOK, NEW r \in Requests,
         NEW step \in Steps,
         Goto(r, step)
  PROVE  pc' \in [Requests -> Steps]
BY DEF TypeOK, Goto

LEMMA ReleaseType ==
  ASSUME TypeOK, NEW r \in Requests, Release(r)
  PROVE  holder' \in [Invoices -> Requests \cup {Nobody}]
BY DEF TypeOK, Release

LEMMA StatusType ==
  ASSUME NEW total \in Int, NEW sum \in Int
  PROVE  StatusOf(total, sum) \in Statuses \ {"cancelled"}
BY DEF StatusOf, Statuses

LEMMA PaymentTypes ==
  ASSUME TypeOK, NEW r \in Requests,
         \/ LoadForPayment(r) \/ RecordPayment(r) \/ ReadDirect(r) \/ ReadAllocated(r) \/ Save(r)
  PROVE  TypeOK'
<1>1. CASE LoadForPayment(r)
  <2>1. PICK i \in Invoices, a \in Amounts :
          /\ target' = [target EXCEPT ![r] = i]
          /\ plan' = [plan EXCEPT ![r] = [j \in Invoices |-> IF j = i THEN a ELSE 0]]
    BY <1>1 DEF LoadForPayment
  <2>2. [j \in Invoices |-> IF j = i THEN a ELSE 0] \in [Invoices -> Nat]
    BY AmountsAssumption
  <2>3. /\ target' \in [Requests -> Invoices]
        /\ plan' \in [Requests -> [Invoices -> Nat]]
        /\ loaded' \in [Requests -> [Invoices -> Statuses]]
    BY <1>1, <2>1, <2>2 DEF LoadForPayment, TypeOK
  <2>4. Goto(r, "pay")
    BY <1>1 DEF LoadForPayment
  <2> QED
    BY <1>1, <2>3, <2>4, GotoType
    DEF LoadForPayment, TypeOK, rows, money, Steps, Ended
<1>2. CASE RecordPayment(r)
  <2> DEFINE i == target[r]
             a == plan[r][i]
  <2>1. i \in Invoices /\ a \in Nat
    BY DEF TypeOK
  <2>2. UNCHANGED <<rows, voided, holder, local, crashes>>
    BY <1>2 DEF RecordPayment
  <2>3. CASE Exceeds(r, i)
    <3>1. Goto(r, "rejected") /\ UNCHANGED money
      BY <1>2, <2>3 DEF RecordPayment
    <3> QED
      BY <2>2, <3>1, GotoType DEF TypeOK, rows, money, local, Steps, Ended
  <2>4. CASE ~ Exceeds(r, i)
    <3>1. /\ Goto(r, "readDirect")
          /\ direct' = [direct EXCEPT ![i] = @ + a]
          /\ recorded' = [recorded EXCEPT ![r] = @ + a]
          /\ UNCHANGED <<allocatedTo, onAccount>>
      BY <1>2, <2>4 DEF RecordPayment
    <3>2. direct' \in [Invoices -> Nat] /\ recorded' \in [Requests -> Nat]
      <4> HIDE DEF i, a
      <4> QED BY <2>1, <3>1 DEF TypeOK
    <3> QED
      BY <2>2, <3>1, <3>2, GotoType DEF TypeOK, rows, local, Steps, Ended
  <2> QED BY <2>3, <2>4
<1>3. CASE ReadDirect(r)
  <2>1. tally' \in [Requests -> Nat]
    BY <1>3 DEF ReadDirect, TypeOK
  <2>2. pc' \in [Requests -> Steps]
    BY <1>3, GotoType DEF ReadDirect, Steps, Ended
  <2> QED
    BY <1>3, <2>1, <2>2 DEF ReadDirect, TypeOK, rows, money
<1>4. CASE ReadAllocated(r)
  <2>1. tally' \in [Requests -> Nat]
    BY <1>4 DEF ReadAllocated, TypeOK
  <2>2. Goto(r, "save")
    BY <1>4 DEF ReadAllocated
  <2> QED
    BY <1>4, <2>1, <2>2, GotoType DEF ReadAllocated, TypeOK, rows, money, Steps, Ended
<1>5. CASE Save(r)
  <2>1. target[r] \in Invoices /\ tally[r] \in Nat /\ Total[target[r]] \in Nat
    BY TotalAssumption DEF TypeOK
  <2>2. StatusOf(Total[target[r]], tally[r]) \in Statuses
    BY <2>1, StatusType
  <2>3. paid' \in [Invoices -> Nat]
    BY <1>5, <2>1 DEF Save, TypeOK
  <2>4. remaining' \in [Invoices -> Int]
    BY <1>5, <2>1 DEF Save, TypeOK
  <2>5. status' \in [Invoices -> Statuses]
    BY <1>5, <2>2 DEF Save, TypeOK
  <2>6. Goto(r, "done")
    BY <1>5 DEF Save
  <2> QED
    BY <1>5, <2>3, <2>4, <2>5, <2>6, GotoType DEF Save, TypeOK, money, local, Steps, Ended
<1> QED BY <1>1, <1>2, <1>3, <1>4, <1>5

LEMMA AllocationTypes ==
  ASSUME TypeOK, NEW r \in Requests,
         \/ LoadForAllocation(r) \/ LoadForCollection(r)
         \/ \E i \in Invoices : Lock(r, i)
         \/ CommitAllocation(r) \/ RecordAdvance(r)
  PROVE  TypeOK'
<1>1. CASE LoadForAllocation(r)
  <2>1. PICK p \in [Invoices -> Amounts \cup {0}] :
          /\ plan' = [plan EXCEPT ![r] = p]
          /\ Goto(r, IF PlanTotal(p) > 0 THEN "locking" ELSE "rejected")
    BY <1>1 DEF LoadForAllocation
  <2>2. plan' \in [Requests -> [Invoices -> Nat]]
    <3>1. Amounts \cup {0} \subseteq Nat
      BY AmountsAssumption
    <3>2. p \in [Invoices -> Nat]
      BY <3>1
    <3> QED BY <2>1, <3>2 DEF TypeOK
  <2>3. loaded' \in [Requests -> [Invoices -> Statuses]]
    BY <1>1 DEF LoadForAllocation, TypeOK
  <2>4. pc' \in [Requests -> Steps]
    BY <2>1, GotoType DEF Steps, Ended
  <2> QED
    BY <1>1, <2>2, <2>3, <2>4 DEF LoadForAllocation, TypeOK, rows, money
<1>2. CASE LoadForCollection(r)
  <2>1. PICK a \in Amounts :
          /\ plan' = [plan EXCEPT ![r] = OldestFirst(a)]
          /\ extra' = [extra EXCEPT ![r] = a - PlanTotal(OldestFirst(a))]
    BY <1>2 DEF LoadForCollection
  <2>2. a \in Nat
    BY AmountsAssumption
  <2>3. plan' \in [Requests -> [Invoices -> Nat]]
    BY <2>1, <2>2, OldestFirstType DEF TypeOK
  <2>4. extra' \in [Requests -> Nat]
    <3>1. a - PlanTotal(OldestFirst(a)) \in Nat
      BY <2>2, OldestFirstWithin
    <3> QED BY <2>1, <3>1 DEF TypeOK
  <2>5. loaded' \in [Requests -> [Invoices -> Statuses]]
    BY <1>2 DEF LoadForCollection, TypeOK
  <2>6. pc' \in [Requests -> Steps]
    BY <1>2, GotoType DEF LoadForCollection, Steps, Ended
  <2> QED
    BY <1>2, <2>3, <2>4, <2>5, <2>6 DEF LoadForCollection, TypeOK, rows, money
<1>3. ASSUME NEW i \in Invoices, Lock(r, i) PROVE TypeOK'
  <2>1. UNCHANGED <<rows, voided, money, local, crashes>>
    BY <1>3 DEF Lock
  <2>2. \/ Release(r) /\ Goto(r, "rejected")
        \/ holder' = [holder EXCEPT ![i] = r] /\ UNCHANGED pc
    BY <1>3 DEF Lock
  <2>3. holder' \in [Invoices -> Requests \cup {Nobody}]
    BY <2>2, ReleaseType DEF TypeOK
  <2>4. pc' \in [Requests -> Steps]
    BY <2>2, GotoType DEF TypeOK, Steps, Ended
  <2> QED
    BY <2>1, <2>3, <2>4 DEF TypeOK, rows, money, local
<1>4. CASE CommitAllocation(r)
  <2> DEFINE fresh == {i \in Planned(r) : loaded[r][i] # "cancelled"}
  <2>1. allocatedTo' = [i \in Invoices |-> allocatedTo[i] + plan[r][i]]
    BY <1>4 DEF CommitAllocation
  <2>2. allocatedTo' \in [Invoices -> Nat]
    BY <2>1 DEF TypeOK
  <2>3. \A i \in Invoices : SumInside(i) \in Nat /\ Total[i] \in Nat
    BY <2>2, TotalAssumption DEF SumInside, TypeOK
  <2>4. paid' \in [Invoices -> Nat]
    <3>1. paid' = [i \in Invoices |-> IF i \in fresh THEN SumInside(i) ELSE paid[i]]
      BY <1>4 DEF CommitAllocation
    <3> HIDE DEF fresh
    <3> QED BY <2>3, <3>1 DEF TypeOK
  <2>5. remaining' \in [Invoices -> Int]
    <3>1. remaining' =
            [i \in Invoices |-> IF i \in fresh THEN Total[i] - SumInside(i) ELSE remaining[i]]
      BY <1>4 DEF CommitAllocation
    <3> HIDE DEF fresh
    <3> QED BY <2>3, <3>1 DEF TypeOK
  <2>6. status' \in [Invoices -> Statuses]
    <3>1. status' = [i \in Invoices |->
                       IF i \in fresh THEN StatusOf(Total[i], SumInside(i)) ELSE status[i]]
      BY <1>4 DEF CommitAllocation
    <3>2. \A i \in Invoices : StatusOf(Total[i], SumInside(i)) \in Statuses
      BY <2>3, StatusType
    <3> HIDE DEF fresh
    <3> QED BY <3>1, <3>2 DEF TypeOK
  <2>7. recorded' \in [Requests -> Nat]
    <3>1. PlanTotal(plan[r]) \in Nat
      BY PlanTotalNat DEF TypeOK
    <3>2. recorded' = [recorded EXCEPT ![r] = @ + PlanTotal(plan[r])]
      BY <1>4 DEF CommitAllocation
    <3> QED BY <3>1, <3>2 DEF TypeOK
  <2>8. holder' \in [Invoices -> Requests \cup {Nobody}]
    BY <1>4, ReleaseType DEF CommitAllocation
  <2>9. pc' \in [Requests -> Steps]
    BY <1>4, GotoType DEF CommitAllocation, AfterAllocation, Steps, Ended
  <2>10. UNCHANGED <<voided, direct, onAccount, local, crashes>>
    BY <1>4 DEF CommitAllocation
  <2> QED
    BY <2>2, <2>4, <2>5, <2>6, <2>7, <2>8, <2>9, <2>10 DEF TypeOK, local
<1>5. CASE RecordAdvance(r)
  <2>1. onAccount' \in [Requests -> Nat] /\ recorded' \in [Requests -> Nat]
    BY <1>5 DEF RecordAdvance, TypeOK
  <2>2. Goto(r, "done")
    BY <1>5 DEF RecordAdvance
  <2> QED
    BY <1>5, <2>1, <2>2, GotoType DEF RecordAdvance, TypeOK, rows, local, Steps, Ended
<1> QED BY <1>1, <1>2, <1>3, <1>4, <1>5

LEMMA CancelTypes ==
  ASSUME TypeOK, NEW r \in Requests,
         LoadForCancel(r) \/ CheckUncollected(r) \/ Void(r)
  PROVE  TypeOK'
<1>1. CASE LoadForCancel(r)
  <2>1. PICK i \in Invoices :
          /\ target' = [target EXCEPT ![r] = i]
          /\ Goto(r, IF status[i] = "cancelled" THEN "rejected" ELSE "check")
    BY <1>1 DEF LoadForCancel
  <2>2. target' \in [Requests -> Invoices]
    BY <2>1 DEF TypeOK
  <2>3. pc' \in [Requests -> Steps]
    BY <2>1, GotoType DEF Steps, Ended
  <2> QED
    BY <1>1, <2>2, <2>3 DEF LoadForCancel, TypeOK, rows, money
<1>2. CASE CheckUncollected(r)
  <2>1. pc' \in [Requests -> Steps]
    BY <1>2, GotoType DEF CheckUncollected, Steps, Ended
  <2> QED
    BY <1>2, <2>1 DEF CheckUncollected, TypeOK, rows, money, local
<1>3. CASE Void(r)
  <2>1. /\ voided' \in [Invoices -> BOOLEAN]
        /\ remaining' \in [Invoices -> Int]
        /\ status' \in [Invoices -> Statuses]
    <3>1. CASE voided[target[r]]
      BY <1>3, <3>1 DEF Void, TypeOK
    <3>2. CASE ~ voided[target[r]]
      <4>1. /\ voided' = [voided EXCEPT ![target[r]] = TRUE]
            /\ status' = [status EXCEPT ![target[r]] = "cancelled"]
            /\ remaining' = [remaining EXCEPT ![target[r]] = 0]
        BY <1>3, <3>2 DEF Void
      <4>2. voided' \in [Invoices -> BOOLEAN]
        BY <4>1 DEF TypeOK
      <4>3. remaining' \in [Invoices -> Int]
        BY <4>1 DEF TypeOK
      <4>4. status' \in [Invoices -> Statuses]
        BY <4>1 DEF TypeOK, Statuses
      <4> QED BY <4>2, <4>3, <4>4
    <3> QED BY <3>1, <3>2
  <2>2. pc' \in [Requests -> Steps]
    BY <1>3, GotoType DEF Void, Steps, Ended
  <2> QED
    BY <1>3, <2>1, <2>2 DEF Void, TypeOK, money, local
<1> QED BY <1>1, <1>2, <1>3

LEMMA FailureTypes ==
  ASSUME TypeOK, NEW r \in Requests, Crash(r) \/ Abort(r)
  PROVE  TypeOK'
<1>1. /\ UNCHANGED <<rows, voided, money, local>>
      /\ Release(r)
      /\ Goto(r, "crashed") \/ Goto(r, "rejected")
  BY DEF Crash, Abort
<1>2. pc' \in [Requests -> Steps]
  BY <1>1, GotoType DEF Steps, Ended
<1>3. crashes' \in 0..MaxCrashes
  <2>1. crashes \in 0..MaxCrashes /\ MaxCrashes \in Nat
    BY CrashesAssumption DEF TypeOK
  <2>2. crashes' = crashes \/ (crashes < MaxCrashes /\ crashes' = crashes + 1)
    BY DEF Crash, Abort
  <2> QED BY <2>1, <2>2
<1> QED
  BY <1>1, <1>2, <1>3, ReleaseType DEF TypeOK, rows, money, local

LEMMA NextTypeOK == ASSUME TypeOK, [Next]_vars PROVE TypeOK'
<1>1. CASE UNCHANGED vars
  BY <1>1 DEF TypeOK, vars, rows, money, local
<1>2. ASSUME NEW r \in Requests, Step(r) \/ Crash(r) PROVE TypeOK'
  BY <1>2, PaymentTypes, AllocationTypes, CancelTypes, FailureTypes DEF Step
<1> QED BY <1>1, <1>2 DEF Next

\* For any mix of requests every column and request variable keeps its type: in
\* particular a collection never plans more than was entered.
THEOREM PaymentsTypeCorrect == Spec => []TypeOK
<1>1. Init => TypeOK
  BY InitTypeOK
<1>2. TypeOK /\ [Next]_vars => TypeOK'
  BY NextTypeOK
<1> QED BY <1>1, <1>2, PTL DEF Spec

-----------------------------------------------------------------------------
(***************************************************************************)
(* The inductive invariant, when nobody uses sale_add_payment.             *)
(***************************************************************************)

LEMMA InitIInv == ASSUME Init PROVE IInv
<1>1. CacheExact /\ NoOverpayment
  BY TotalAssumption DEF Init, CacheExact, RowExact, NoOverpayment, Settled, StatusOf
<1>2. LocksHold /\ CopiesHold
  BY RequestsAssumption DEF Init, LocksHold, CopiesHold
<1>3. \A r \in Requests : pc[r] \notin PayingSteps
  BY DEF Init, PayingSteps
<1> QED BY <1>1, <1>2, <1>3, InitTypeOK DEF IInv

\* A step that leaves the invoices alone and ends with its request holding no row.
LEMMA AsideStep ==
  ASSUME IInv, TypeOK', NEW r \in Requests, NEW step \in Steps \ PayingSteps, Goto(r, step),
         UNCHANGED <<rows, direct, allocatedTo>>,
         \A s \in Requests \ {r} : plan'[s] = plan[s] /\ loaded'[s] = loaded[s],
         loaded'[r] = loaded[r] \/ loaded'[r] = status,
         \A i \in Invoices : holder'[i] = Nobody \/ (holder'[i] = holder[i] /\ holder[i] # r)
  PROVE  IInv'
<1>1. \A s \in Requests : pc'[s] = IF s = r THEN step ELSE pc[s]
  BY DEF Goto, IInv, TypeOK
<1>2. \A s \in Requests : pc'[s] \notin PayingSteps
  BY <1>1 DEF IInv
<1>3. LocksHold'
  BY <1>1, RequestsAssumption DEF IInv, LocksHold, rows
<1>4. CopiesHold'
  BY DEF IInv, CopiesHold, rows
<1>5. CacheExact' /\ NoOverpayment'
  BY DEF IInv, CacheExact, RowExact, NoOverpayment, Settled, rows
<1> QED BY <1>2, <1>3, <1>4, <1>5 DEF IInv

\* A request that is not locking holds no row.
LEMMA NotHolding ==
  ASSUME IInv, NEW r \in Requests, pc[r] # "locking"
  PROVE  \A i \in Invoices : holder[i] # r
BY DEF IInv, LocksHold

LEMMA ReleasedRows ==
  ASSUME IInv, NEW r \in Requests, Release(r)
  PROVE  \A i \in Invoices : holder'[i] = Nobody \/ (holder'[i] = holder[i] /\ holder[i] # r)
BY DEF Release

LEMMA LoadKeepsIInv ==
  ASSUME IInv, TypeOK', NEW r \in Requests, LoadForAllocation(r) \/ LoadForCollection(r)
  PROVE  IInv'
<1>1. pc[r] = "start" /\ UNCHANGED <<rows, money, holder>>
  BY DEF LoadForAllocation, LoadForCollection
<1>2. PICK step \in {"locking", "rejected", "advance"} : Goto(r, step)
  BY DEF LoadForAllocation, LoadForCollection
<1>3. loaded'[r] = status
  BY DEF LoadForAllocation, LoadForCollection, IInv, TypeOK
<1>4. \A s \in Requests \ {r} : plan'[s] = plan[s] /\ loaded'[s] = loaded[s]
  BY DEF LoadForAllocation, LoadForCollection, IInv, TypeOK
<1> QED
  BY <1>1, <1>2, <1>3, <1>4, NotHolding, AsideStep
  DEF rows, money, Steps, Ended, PayingSteps

LEMMA LockKeepsIInv ==
  ASSUME IInv, TypeOK', NEW r \in Requests, NEW i \in Invoices, Lock(r, i)
  PROVE  IInv'
<1>1. UNCHANGED <<rows, voided, money, local, crashes>>
  BY DEF Lock
<1>2. CASE Exceeds(r, i)
  BY <1>1, <1>2, ReleasedRows, AsideStep
  DEF Lock, rows, money, local, Steps, Ended, PayingSteps
<1>3. CASE ~ Exceeds(r, i)
  <2>1. holder' = [holder EXCEPT ![i] = r] /\ pc' = pc
    BY <1>3 DEF Lock
  <2>2. pc[r] = "locking" /\ plan[r][i] > 0 /\ plan[r][i] <= remaining[i]
    <3>1. plan[r][i] \in Nat /\ remaining[i] \in Int
      BY DEF IInv, TypeOK
    <3> QED BY <1>3, <3>1 DEF Lock, NextToLock, Planned, Exceeds
  <2>3. LocksHold'
    BY <1>1, <2>1, <2>2 DEF IInv, TypeOK, LocksHold, rows, local
  <2>4. CopiesHold' /\ CacheExact' /\ NoOverpayment'
    BY <1>1 DEF IInv, CopiesHold, CacheExact, RowExact, NoOverpayment, Settled, rows, money, local
  <2> QED BY <2>1, <2>3, <2>4 DEF IInv
<1> QED BY <1>2, <1>3

\* The rows a transaction commits still wanted what it puts on them.
LEMMA CommittedRows ==
  ASSUME IInv, NEW r \in Requests, CommitAllocation(r), NEW i \in Invoices, plan[r][i] > 0
  PROVE  /\ holder[i] = r
         /\ plan[r][i] <= remaining[i]
         /\ status[i] # "cancelled" /\ loaded[r][i] # "cancelled"
<1>1. holder[i] = r
  BY DEF CommitAllocation, Planned, Held
<1>2. plan[r][i] <= remaining[i]
  BY <1>1 DEF IInv, LocksHold
<1>3. plan[r][i] \in Nat /\ remaining[i] \in Int
  BY DEF IInv, TypeOK
<1>4. status[i] # "cancelled"
  BY <1>2, <1>3 DEF IInv, CacheExact, RowExact
<1>5. loaded[r][i] # "cancelled"
  BY <1>4 DEF IInv, CopiesHold
<1> QED BY <1>1, <1>2, <1>4, <1>5

\* What a commit does to one invoice.
LEMMA CommittedInvoice ==
  ASSUME IInv, NEW r \in Requests, CommitAllocation(r), NEW i \in Invoices
  PROVE  /\ Settled(i)' = Settled(i) + plan[r][i]
         /\ plan[r][i] > 0 =>
              /\ paid'[i] = Settled(i)'
              /\ remaining'[i] = Total[i] - Settled(i)'
              /\ status'[i] = StatusOf(Total[i], Settled(i)')
         /\ plan[r][i] = 0 => /\ paid'[i] = paid[i]
                              /\ remaining'[i] = remaining[i]
                              /\ status'[i] = status[i]
<1> DEFINE fresh == {j \in Planned(r) : loaded[r][j] # "cancelled"}
<1>1. /\ paid' = [j \in Invoices |-> IF j \in fresh THEN SumInside(j) ELSE paid[j]]
      /\ remaining' =
           [j \in Invoices |-> IF j \in fresh THEN Total[j] - SumInside(j) ELSE remaining[j]]
      /\ status' = [j \in Invoices |->
                      IF j \in fresh THEN StatusOf(Total[j], SumInside(j)) ELSE status[j]]
  BY DEF CommitAllocation
<1>2. plan[r][i] \in Nat /\ direct[i] \in Nat /\ allocatedTo[i] \in Nat
  BY DEF IInv, TypeOK
<1>3. direct'[i] = direct[i] /\ allocatedTo'[i] = allocatedTo[i] + plan[r][i]
  BY DEF CommitAllocation
<1>4. Settled(i)' = Settled(i) + plan[r][i] /\ SumInside(i) = Settled(i)'
  BY <1>2, <1>3 DEF Settled, SumInside, CommitAllocation
<1>5. CASE plan[r][i] > 0
  <2>1. i \in fresh
    BY <1>5, CommittedRows DEF Planned
  <2> HIDE DEF fresh
  <2> QED BY <1>1, <1>2, <1>4, <1>5, <2>1
<1>6. CASE plan[r][i] = 0
  <2>1. i \notin fresh
    BY <1>6 DEF Planned
  <2> HIDE DEF fresh
  <2> QED BY <1>1, <1>4, <1>6, <2>1
<1> QED BY <1>2, <1>5, <1>6

LEMMA CommitKeepsIInv ==
  ASSUME IInv, TypeOK', NEW r \in Requests, CommitAllocation(r)
  PROVE  IInv'
<1>1. UNCHANGED <<voided, direct, onAccount, local, crashes>> /\ pc[r] = "locking"
  BY DEF CommitAllocation
<1>2. PICK step \in {"advance", "done"} : Goto(r, step)
  BY DEF CommitAllocation, AfterAllocation
<1>3. \A s \in Requests : pc'[s] = IF s = r THEN step ELSE pc[s]
  BY <1>2 DEF Goto, IInv, TypeOK
<1>4. \A s \in Requests : pc'[s] \notin PayingSteps
  BY <1>3 DEF IInv, PayingSteps
<1>5. \A i \in Invoices : plan[r][i] \in Nat
  BY DEF IInv, TypeOK
<1>6. LocksHold'
  <2>1. SUFFICES ASSUME NEW s \in Requests, NEW i \in Invoices, holder'[i] = s
                 PROVE  pc'[s] = "locking" /\ plan'[s][i] > 0 /\ plan'[s][i] <= remaining'[i]
    BY DEF LocksHold
  <2>2. holder[i] = s /\ s # r
    BY <2>1, ReleasedRows, RequestsAssumption DEF CommitAllocation
  <2>3. plan[r][i] = 0
    BY <1>5, <2>2, CommittedRows
  <2>4. remaining'[i] = remaining[i] /\ plan'[s] = plan[s] /\ pc'[s] = pc[s]
    BY <1>1, <1>3, <2>2, <2>3, CommittedInvoice DEF local
  <2> QED BY <2>2, <2>4 DEF IInv, LocksHold
<1>7. CopiesHold'
  <2>1. SUFFICES ASSUME NEW s \in Requests, NEW i \in Invoices, loaded'[s][i] = "cancelled"
                 PROVE  status'[i] = "cancelled"
    BY DEF CopiesHold
  <2>2. status[i] = "cancelled"
    BY <1>1, <2>1 DEF IInv, CopiesHold, local
  <2>3. plan[r][i] = 0
    BY <1>5, <2>2, CommittedRows
  <2> QED BY <2>2, <2>3, CommittedInvoice
<1>8. ASSUME NEW i \in Invoices
      PROVE  /\ Settled(i)' <= Total[i]
             /\ paid'[i] = Settled(i)'
             /\ IF status'[i] = "cancelled"
                THEN remaining'[i] = 0
                ELSE /\ remaining'[i] = Total[i] - Settled(i)'
                     /\ status'[i] = StatusOf(Total[i], Settled(i)')
  <2>1. /\ plan[r][i] \in Nat /\ Settled(i) \in Nat /\ Total[i] \in Nat
        /\ Settled(i) <= Total[i]
    BY TotalAssumption DEF IInv, TypeOK, NoOverpayment, Settled
  <2>2. /\ paid[i] = Settled(i)
        /\ IF status[i] = "cancelled"
           THEN remaining[i] = 0
           ELSE /\ remaining[i] = Total[i] - Settled(i)
                /\ status[i] = StatusOf(Total[i], Settled(i))
    BY DEF IInv, CacheExact, RowExact
  <2>3. CASE plan[r][i] > 0
    <3>1. plan[r][i] <= remaining[i] /\ status[i] # "cancelled"
      BY <2>3, CommittedRows
    <3>2. /\ Settled(i)' = Settled(i) + plan[r][i]
          /\ paid'[i] = Settled(i)'
          /\ remaining'[i] = Total[i] - Settled(i)'
          /\ status'[i] = StatusOf(Total[i], Settled(i)')
      BY <2>3, CommittedInvoice
    <3>3. Settled(i)' \in Nat /\ Settled(i)' <= Total[i]
      BY <2>1, <2>2, <3>1, <3>2
    <3>4. status'[i] # "cancelled"
      BY <2>1, <3>2, <3>3, StatusType
    <3> QED BY <3>2, <3>3, <3>4
  <2>4. CASE plan[r][i] = 0
    <3>1. /\ Settled(i)' = Settled(i) + plan[r][i]
          /\ paid'[i] = paid[i] /\ remaining'[i] = remaining[i] /\ status'[i] = status[i]
      BY <2>4, CommittedInvoice
    <3>2. Settled(i)' = Settled(i)
      BY <2>1, <2>4, <3>1
    <3> QED BY <2>1, <2>2, <3>1, <3>2
  <2> QED BY <2>1, <2>3, <2>4
<1>9. CacheExact' /\ NoOverpayment'
  BY <1>8 DEF CacheExact, RowExact, NoOverpayment
<1> QED BY <1>4, <1>6, <1>7, <1>9 DEF IInv

LEMMA CancelKeepsIInv ==
  ASSUME IInv, TypeOK', NEW r \in Requests,
         LoadForCancel(r) \/ CheckUncollected(r) \/ Void(r)
  PROVE  IInv'
<1>1. /\ pc[r] # "locking"
      /\ UNCHANGED <<money, holder, plan, loaded>>
  BY DEF LoadForCancel, CheckUncollected, Void, local
<1>2. PICK step \in {"rejected", "check", "void", "done"} : Goto(r, step)
  BY DEF LoadForCancel, CheckUncollected, Void
<1>3. CASE UNCHANGED rows
  BY <1>1, <1>2, <1>3, NotHolding, AsideStep DEF money, Steps, Ended, PayingSteps
<1>4. CASE Void(r) /\ ~ voided[target[r]]
  <2> DEFINE k == target[r]
  <2>1. /\ k \in Invoices /\ holder[k] = Nobody
        /\ paid' = paid
        /\ status' = [status EXCEPT ![k] = "cancelled"]
        /\ remaining' = [remaining EXCEPT ![k] = 0]
    BY <1>4 DEF Void, Free, IInv, TypeOK
  <2>2. \A i \in Invoices : /\ status'[i] = IF i = k THEN "cancelled" ELSE status[i]
                            /\ remaining'[i] = IF i = k THEN 0 ELSE remaining[i]
    <3> HIDE DEF k
    <3> QED BY <2>1 DEF IInv, TypeOK
  <2>3. \A s \in Requests : pc'[s] = IF s = r THEN step ELSE pc[s]
    BY <1>2 DEF Goto, IInv, TypeOK
  <2>4. \A s \in Requests : pc'[s] \notin PayingSteps
    BY <2>3 DEF IInv, PayingSteps
  <2>5. LocksHold'
    <3> HIDE DEF k
    <3> QED
      BY <1>1, <2>1, <2>2, <2>3, NotHolding, RequestsAssumption DEF IInv, LocksHold
  <2>6. CopiesHold'
    <3> HIDE DEF k
    <3> QED BY <1>1, <2>2 DEF IInv, CopiesHold
  <2>7. CacheExact' /\ NoOverpayment'
    <3> HIDE DEF k
    <3>1. \A i \in Invoices : Settled(i)' = Settled(i)
      BY <1>1 DEF Settled, money
    <3> QED BY <2>1, <2>2, <3>1 DEF IInv, CacheExact, RowExact, NoOverpayment
  <2> QED BY <2>4, <2>5, <2>6, <2>7 DEF IInv
<1> QED BY <1>3, <1>4 DEF LoadForCancel, CheckUncollected, Void, rows

\* A step that does not begin a sale_add_payment keeps the invariant.
LEMMA StepKeepsIInv ==
  ASSUME IInv, NEW r \in Requests, Step(r) \/ Crash(r), ~ LoadForPayment(r)
  PROVE  IInv'
<1>1. TypeOK'
  BY NextTypeOK DEF IInv, Next
<1>2. CASE RecordPayment(r) \/ ReadDirect(r) \/ ReadAllocated(r) \/ Save(r)
  BY <1>2 DEF IInv, PayingSteps, RecordPayment, ReadDirect, ReadAllocated, Save
<1>3. CASE LoadForAllocation(r) \/ LoadForCollection(r)
  BY <1>1, <1>3, LoadKeepsIInv
<1>4. CASE \E i \in Invoices : Lock(r, i)
  BY <1>1, <1>4, LockKeepsIInv
<1>5. CASE CommitAllocation(r)
  BY <1>1, <1>5, CommitKeepsIInv
<1>6. CASE RecordAdvance(r)
  <2>1. pc[r] = "advance" /\ Goto(r, "done")
    BY <1>6 DEF RecordAdvance
  <2> QED
    BY <1>1, <1>6, <2>1, NotHolding, AsideStep
    DEF RecordAdvance, rows, local, Steps, Ended, PayingSteps
<1>7. CASE LoadForCancel(r) \/ CheckUncollected(r) \/ Void(r)
  BY <1>1, <1>7, CancelKeepsIInv
<1>8. CASE Abort(r) \/ Crash(r)
  <2>1. UNCHANGED <<rows, voided, money, local>> /\ Release(r)
    BY <1>8 DEF Abort, Crash
  <2>2. PICK step \in {"rejected", "crashed"} : Goto(r, step)
    BY <1>8 DEF Abort, Crash
  <2> QED
    BY <1>1, <2>1, <2>2, ReleasedRows, AsideStep
    DEF rows, money, local, Steps, Ended, PayingSteps
<1> QED
  BY <1>2, <1>3, <1>4, <1>5, <1>6, <1>7, <1>8 DEF Step

LEMMA NextIInv == ASSUME NoDirectPayments, IInv, [Next]_vars PROVE IInv'
<1>1. TypeOK'
  BY NextTypeOK DEF IInv
<1>2. CASE UNCHANGED vars
  BY <1>1, <1>2 DEF IInv, LocksHold, CopiesHold, CacheExact, RowExact, NoOverpayment, Settled,
                    vars, rows, money, local
<1>3. ASSUME NEW r \in Requests, Step(r) \/ Crash(r) PROVE IInv'
  BY <1>3, StepKeepsIInv DEF NoDirectPayments, LoadForPayment
<1> QED BY <1>2, <1>3 DEF Next

\* The invariant, without sale_add_payment.
LEMMA PaymentsInductive == ASSUME NoDirectPayments PROVE Spec => []IInv
<1>1. Init => IInv
  BY InitIInv
<1>2. IInv /\ [Next]_vars => IInv'
  BY NextIInv
<1> QED BY <1>1, <1>2, PTL DEF Spec

\* Without sale_add_payment no interleaving of allocations, collections, cancellations,
\* crashes and deadlocks pays an invoice more than its total (the row lock of
\* allocate_payment and its check against the fresh Sale.remaining).
THEOREM NoInvoiceOverpaid == ASSUME NoDirectPayments PROVE Spec => []NoOverpayment
<1>1. IInv => NoOverpayment
  BY DEF IInv
<1> QED BY <1>1, PaymentsInductive, PTL

\* Without sale_add_payment paid, remaining and status are exact in every state.
THEOREM CacheAlwaysExact == ASSUME NoDirectPayments PROVE Spec => []CacheExact
<1>1. IInv => CacheExact
  BY DEF IInv
<1> QED BY <1>1, PaymentsInductive, PTL

\* Without sale_add_payment no step takes an invoice out of CANCELLED.
THEOREM CancellationIsFinal == ASSUME NoDirectPayments PROVE Spec => CancelledStays
<1> DEFINE A == \A i \in Invoices : status[i] = "cancelled" => status'[i] = "cancelled"
<1>1. IInv /\ [Next]_vars => [A]_vars
  <2>1. SUFFICES ASSUME IInv, [Next]_vars, NEW i \in Invoices, status[i] = "cancelled"
                 PROVE  status'[i] = "cancelled"
    OBVIOUS
  <2>2. CASE UNCHANGED vars
    BY <2>1, <2>2 DEF vars, rows
  <2>3. ASSUME NEW r \in Requests, Step(r) \/ Crash(r) PROVE status'[i] = "cancelled"
    <3>1. CASE CommitAllocation(r)
      <4>1. plan[r][i] \in Nat
        BY <2>1 DEF IInv, TypeOK
      <4> QED BY <2>1, <3>1, <4>1, CommittedRows, CommittedInvoice
    <3>2. CASE Void(r)
      BY <2>1, <3>2 DEF Void, IInv, TypeOK
    <3>3. CASE Save(r)
      BY <2>1, <3>3 DEF Save, IInv, PayingSteps
    <3>4. CASE /\ ~ CommitAllocation(r) /\ ~ Void(r) /\ ~ Save(r)
      BY <2>1, <2>3, <3>4
      DEF Step, LoadForPayment, RecordPayment, ReadDirect, ReadAllocated, LoadForAllocation,
          LoadForCollection, Lock, RecordAdvance, LoadForCancel, CheckUncollected, Abort,
          Crash, rows
    <3> QED BY <3>1, <3>2, <3>3, <3>4
  <2> QED BY <2>1, <2>2, <2>3 DEF Next
<1> QED BY <1>1, PaymentsInductive, PTL DEF Spec, CancelledStays

-----------------------------------------------------------------------------
(***************************************************************************)
(* What a request records, for every mix of requests.                      *)
(***************************************************************************)

LEMMA EmptyPlan ==
  ASSUME NEW p \in [Invoices -> Nat], \A i \in Invoices : p[i] = 0
  PROVE  PlanTotal(p) = 0
<1>1. p \in [1..NInvoices -> Int] /\ \A i \in 1..NInvoices : p[i] = 0
  BY DEF Invoices
<1> QED BY <1>1, InvoicesFinite, SumZero DEF PlanTotal

LEMMA SingleInvoicePlan ==
  ASSUME NEW i \in Invoices, NEW a \in Nat
  PROVE  PlanTotal([j \in Invoices |-> IF j = i THEN a ELSE 0]) = a
<1> DEFINE f == [j \in 1..NInvoices |-> IF j = i THEN a ELSE 0]
<1>1. i \in 1..NInvoices /\ a \in Int
  BY DEF Invoices
<1>2. SumUpTo(f, NInvoices) = a
  BY <1>1, InvoicesFinite, SumPoint
<1>3. [j \in Invoices |-> IF j = i THEN a ELSE 0] = f
  BY DEF Invoices
<1> QED
  <2> HIDE DEF f
  <2> QED BY <1>2, <1>3 DEF PlanTotal

LEMMA InitBooks == ASSUME Init PROVE BooksFollow
<1>1. SUFFICES ASSUME NEW r \in Requests PROVE RecordedBy(r)
  BY InitTypeOK DEF BooksFollow
<1>2. plan[r] \in [Invoices -> Nat] /\ \A i \in Invoices : plan[r][i] = 0
  BY DEF Init
<1>3. PlanTotal(plan[r]) = 0
  BY <1>2, EmptyPlan
<1> QED BY <1>3 DEF Init, RecordedBy, PayingSteps

\* A step of one request leaves the others' variables alone.
LEMMA OwnVariables ==
  ASSUME TypeOK, NEW r \in Requests, Step(r) \/ Crash(r), NEW s \in Requests, s # r
  PROVE  /\ pc'[s] = pc[s] /\ target'[s] = target[s] /\ plan'[s] = plan[s]
         /\ extra'[s] = extra[s] /\ recorded'[s] = recorded[s]
<1>1. CASE \/ LoadForPayment(r) \/ RecordPayment(r) \/ ReadDirect(r) \/ ReadAllocated(r)
           \/ Save(r)
  BY <1>1 DEF TypeOK, LoadForPayment, RecordPayment, ReadDirect, ReadAllocated, Save, Goto,
              money, local
<1>2. CASE LoadForAllocation(r) \/ LoadForCollection(r)
  BY <1>2 DEF TypeOK, LoadForAllocation, LoadForCollection, Goto, money
<1>3. CASE \E i \in Invoices : Lock(r, i)
  BY <1>3 DEF TypeOK, Lock, Goto, money, local
<1>4. CASE CommitAllocation(r) \/ RecordAdvance(r)
  BY <1>4 DEF TypeOK, CommitAllocation, RecordAdvance, Goto, local
<1>5. CASE LoadForCancel(r) \/ CheckUncollected(r) \/ Void(r)
  BY <1>5 DEF TypeOK, LoadForCancel, CheckUncollected, Void, Goto, money, local
<1>6. CASE Abort(r) \/ Crash(r)
  BY <1>6 DEF TypeOK, Abort, Crash, Goto, money, local
<1> QED BY <1>1, <1>2, <1>3, <1>4, <1>5, <1>6 DEF Step

\* sale_add_payment records its amount in one step.
LEMMA PaymentRecorded ==
  ASSUME BooksFollow, NEW r \in Requests,
         \/ LoadForPayment(r) \/ RecordPayment(r) \/ ReadDirect(r) \/ ReadAllocated(r)
         \/ Save(r)
  PROVE  RecordedBy(r)'
<1>1. RecordedBy(r) /\ TypeOK
  BY DEF BooksFollow
<1>2. CASE LoadForPayment(r)
  <2>1. PICK i \in Invoices, a \in Amounts :
          /\ target' = [target EXCEPT ![r] = i]
          /\ plan' = [plan EXCEPT ![r] = [j \in Invoices |-> IF j = i THEN a ELSE 0]]
    BY <1>2 DEF LoadForPayment
  <2>2. a \in Nat
    BY AmountsAssumption
  <2>3. target'[r] = i /\ plan'[r] = [j \in Invoices |-> IF j = i THEN a ELSE 0]
    BY <1>1, <2>1 DEF TypeOK
  <2>4. PlanTotal(plan'[r]) = plan'[r][target'[r]]
    BY <2>2, <2>3, SingleInvoicePlan
  <2>5. /\ pc[r] = "start" /\ pc'[r] = "pay"
        /\ recorded'[r] = recorded[r] /\ extra'[r] = extra[r]
    BY <1>1, <1>2 DEF LoadForPayment, Goto, TypeOK, money
  <2>6. recorded[r] = 0 /\ extra[r] = 0
    BY <1>1, <2>5 DEF RecordedBy
  <2> QED BY <2>4, <2>5, <2>6 DEF RecordedBy, PayingSteps
<1>3. CASE RecordPayment(r)
  <2>1. /\ pc[r] = "pay"
        /\ target' = target /\ plan' = plan /\ extra' = extra
    BY <1>3 DEF RecordPayment, local
  <2>2. /\ PlanTotal(plan[r]) = plan[r][target[r]] /\ extra[r] = 0 /\ recorded[r] = 0
        /\ plan[r][target[r]] \in Nat
    BY <1>1, <2>1 DEF RecordedBy, PayingSteps, TypeOK
  <2>3. \/ pc'[r] = "rejected" /\ recorded' = recorded
        \/ pc'[r] = "readDirect" /\ recorded'[r] = recorded[r] + plan[r][target[r]]
    BY <1>1, <1>3 DEF RecordPayment, Goto, TypeOK, money
  <2> QED BY <2>1, <2>2, <2>3 DEF RecordedBy, PayingSteps
<1>4. CASE ReadDirect(r) \/ ReadAllocated(r) \/ Save(r)
  <2>1. /\ pc[r] \in {"readDirect", "readAllocated", "save"}
        /\ pc'[r] \in {"readAllocated", "save", "done"}
        /\ target' = target /\ plan' = plan /\ extra' = extra /\ recorded' = recorded
    BY <1>1, <1>4 DEF ReadDirect, ReadAllocated, Save, Goto, TypeOK, money, local
  <2>2. PlanTotal(plan[r]) \in Nat
    BY <1>1, PlanTotalNat DEF TypeOK
  <2> QED BY <1>1, <2>1, <2>2 DEF RecordedBy, PayingSteps
<1> QED BY <1>2, <1>3, <1>4

\* An allocation records its plan when it commits, a collection the left-over after that.
LEMMA AllocationRecorded ==
  ASSUME BooksFollow, NEW r \in Requests,
         \/ LoadForAllocation(r) \/ LoadForCollection(r)
         \/ \E i \in Invoices : Lock(r, i)
         \/ CommitAllocation(r) \/ RecordAdvance(r)
  PROVE  RecordedBy(r)'
<1>1. RecordedBy(r) /\ TypeOK
  BY DEF BooksFollow
<1>2. CASE LoadForAllocation(r)
  <2>1. /\ pc[r] = "start" /\ pc'[r] \in {"locking", "rejected"}
        /\ recorded'[r] = recorded[r]
    BY <1>1, <1>2 DEF LoadForAllocation, Goto, TypeOK, money
  <2> QED BY <1>1, <2>1 DEF RecordedBy, PayingSteps
<1>3. CASE LoadForCollection(r)
  <2>1. PICK a \in Amounts : plan' = [plan EXCEPT ![r] = OldestFirst(a)]
    BY <1>3 DEF LoadForCollection
  <2>2. /\ pc[r] = "start"
        /\ pc'[r] = IF Open = {} THEN "advance" ELSE "locking"
        /\ recorded'[r] = recorded[r]
    BY <1>1, <1>3 DEF LoadForCollection, Goto, TypeOK, money
  <2>3. recorded[r] = 0
    BY <1>1, <2>2 DEF RecordedBy
  <2>4. ASSUME Open = {} PROVE PlanTotal(plan'[r]) = 0
    <3>1. a \in Nat
      BY AmountsAssumption
    <3>2. OldestFirst(a) \in [Invoices -> Nat]
      BY <1>1, <3>1, OldestFirstType
    <3>3. ASSUME NEW i \in Invoices PROVE OldestFirst(a)[i] = 0
      <4>1. Owed(i) = 0
        BY <2>4 DEF Open, Owed
      <4>2. i - 1 \in Nat /\ i - 1 <= NInvoices
        BY InvoicesFinite DEF Invoices
      <4>3. OwedBefore(i) \in Nat
        BY <1>1, <4>2, WantedUpToStep
      <4> QED BY <3>1, <4>1, <4>3 DEF OldestFirst
    <3>4. plan'[r] = OldestFirst(a)
      BY <1>1, <2>1 DEF TypeOK
    <3> QED BY <3>2, <3>3, <3>4, EmptyPlan
  <2> QED BY <2>2, <2>3, <2>4 DEF RecordedBy, PayingSteps
<1>4. CASE \E i \in Invoices : Lock(r, i)
  <2>1. /\ pc[r] = "locking" /\ pc'[r] \in {"locking", "rejected"}
        /\ recorded' = recorded
    BY <1>1, <1>4 DEF Lock, NextToLock, Goto, TypeOK, money
  <2> QED BY <1>1, <2>1 DEF RecordedBy, PayingSteps
<1>5. CASE CommitAllocation(r)
  <2>1. /\ pc[r] = "locking" /\ plan' = plan /\ extra' = extra
        /\ pc'[r] = IF extra[r] > 0 THEN "advance" ELSE "done"
    BY <1>1, <1>5 DEF CommitAllocation, AfterAllocation, Goto, TypeOK, local
  <2>2. PlanTotal(plan[r]) \in Nat /\ recorded[r] = 0 /\ extra[r] \in Nat
    BY <1>1, <2>1, PlanTotalNat DEF TypeOK, RecordedBy
  <2>3. recorded'[r] = PlanTotal(plan[r])
    BY <1>1, <1>5, <2>2 DEF CommitAllocation, TypeOK
  <2> QED BY <2>1, <2>2, <2>3 DEF RecordedBy, PayingSteps
<1>6. CASE RecordAdvance(r)
  <2>1. /\ pc[r] = "advance" /\ pc'[r] = "done" /\ plan' = plan /\ extra' = extra
        /\ recorded'[r] = recorded[r] + extra[r]
    BY <1>1, <1>6 DEF RecordAdvance, Goto, TypeOK, local
  <2> QED BY <1>1, <2>1 DEF RecordedBy, PayingSteps
<1> QED BY <1>2, <1>3, <1>4, <1>5, <1>6

\* A cancellation records nothing, and neither does the end of a failed request.
LEMMA NothingRecorded ==
  ASSUME BooksFollow, NEW r \in Requests,
         LoadForCancel(r) \/ CheckUncollected(r) \/ Void(r) \/ Abort(r) \/ Crash(r)
  PROVE  RecordedBy(r)'
<1>1. RecordedBy(r) /\ TypeOK
  BY DEF BooksFollow
<1>2. CASE LoadForCancel(r) \/ CheckUncollected(r) \/ Void(r)
  <2>1. /\ pc[r] \in {"start", "check", "void"}
        /\ pc'[r] \in {"check", "void", "rejected", "done"}
        /\ plan' = plan /\ extra' = extra /\ recorded' = recorded
    BY <1>1, <1>2 DEF LoadForCancel, CheckUncollected, Void, Goto, TypeOK, money, local
  <2> QED BY <1>1, <2>1 DEF RecordedBy, PayingSteps
<1>3. CASE Abort(r)
  <2>1. pc[r] = "locking"
    BY <1>3 DEF Abort, WaitsFor, NextToLock
  <2>2. pc'[r] = "rejected" /\ recorded' = recorded
    BY <1>1, <1>3 DEF Abort, Goto, TypeOK, money
  <2> QED BY <1>1, <2>1, <2>2 DEF RecordedBy, PayingSteps
<1>4. CASE Crash(r)
  <2>1. pc'[r] = "crashed"
    BY <1>1, <1>4 DEF Crash, Goto, TypeOK
  <2> QED BY <2>1 DEF RecordedBy, PayingSteps
<1> QED BY <1>2, <1>3, <1>4

LEMMA NextBooks == ASSUME BooksFollow, [Next]_vars PROVE BooksFollow'
<1>1. TypeOK'
  BY NextTypeOK DEF BooksFollow
<1>2. SUFFICES ASSUME NEW s \in Requests PROVE RecordedBy(s)'
  BY <1>1 DEF BooksFollow
<1>3. RecordedBy(s) /\ TypeOK
  BY DEF BooksFollow
<1>4. CASE UNCHANGED vars
  BY <1>3, <1>4 DEF RecordedBy, vars, money, local
<1>5. ASSUME NEW r \in Requests, Step(r) \/ Crash(r) PROVE RecordedBy(s)'
  <2>1. CASE s = r
    BY <1>5, <2>1, PaymentRecorded, AllocationRecorded, NothingRecorded DEF Step
  <2>2. CASE s # r
    <3>1. /\ pc'[s] = pc[s] /\ target'[s] = target[s] /\ plan'[s] = plan[s]
          /\ extra'[s] = extra[s] /\ recorded'[s] = recorded[s]
      BY <1>3, <1>5, <2>2, OwnVariables
    <3> QED BY <1>3, <3>1 DEF RecordedBy
  <2> QED BY <2>1, <2>2
<1> QED BY <1>4, <1>5 DEF Next

\* In every interleaving, deadlocks and crashes of others included, a request that
\* reports an error has recorded no money, and one that reports success has recorded
\* all of what was entered (record_payment, allocate_payment, _collect_due).
THEOREM RequestsAllOrNothing == Spec => []AllOrNothing
<1>1. Init => BooksFollow
  BY InitBooks
<1>2. BooksFollow /\ [Next]_vars => BooksFollow'
  BY NextBooks
<1>3. BooksFollow => AllOrNothing
  BY DEF BooksFollow, RecordedBy, AllOrNothing
<1> QED BY <1>1, <1>2, <1>3, PTL DEF Spec

-----------------------------------------------------------------------------
(***************************************************************************)
(* The left-over of a collection.                                          *)
(***************************************************************************)

\* What an open invoice wants, after what the older ones want, is part of the whole.
LEMMA WantedBound ==
  ASSUME TypeOK, NEW i \in Invoices
  PROVE  /\ OwedBefore(i) \in Nat /\ Owed(i) \in Nat
         /\ OwedBefore(i) + Owed(i) <= WantedUpTo(NInvoices)
<1> DEFINE f == [j \in Invoices |-> IF j < i THEN Owed(j) ELSE 0]
           g == [j \in Invoices |-> IF j <= i THEN Owed(j) ELSE 0]
<1>1. \A j \in Invoices : Owed(j) \in Nat /\ Wanted[j] = Owed(j)
  BY DEF TypeOK, Owed, Wanted
<1>2. f \in [1..NInvoices -> Int] /\ g \in [1..NInvoices -> Int] /\ i \in 1..NInvoices
  BY <1>1 DEF Invoices
<1>3. Wanted \in [1..NInvoices -> Int]
  BY WantedType DEF Invoices
<1>4. \A j \in 1..NInvoices : g[j] = f[j] + (IF j = i THEN Owed(i) ELSE 0)
  BY <1>1 DEF Invoices
<1>5. \A j \in 1..NInvoices : g[j] <= Wanted[j]
  BY <1>1 DEF Invoices
<1>6. OwedBefore(i) = SumUpTo(f, NInvoices)
  BY DEF OwedBefore
<1> HIDE DEF f, g
<1>7. SumUpTo(g, NInvoices) = SumUpTo(f, NInvoices) + Owed(i)
  <2>1. Owed(i) \in Int /\ NInvoices \in Nat
    BY <1>1, InvoicesFinite
  <2> QED BY <1>2, <1>4, <2>1, SumUpdate
<1>8. SumUpTo(g, NInvoices) <= SumUpTo(Wanted, NInvoices)
  BY <1>2, <1>3, <1>5, SumMonotone, InvoicesFinite
<1>9. OwedBefore(i) \in Nat
  <2>1. i - 1 \in Nat /\ i - 1 <= NInvoices
    BY InvoicesFinite DEF Invoices
  <2> QED BY <2>1, WantedUpToStep
<1> QED BY <1>1, <1>6, <1>7, <1>8, <1>9 DEF WantedUpTo

\* An amount that is not used up pays every open invoice in full.
LEMMA LeftOverPaysAll ==
  ASSUME TypeOK, NEW a \in Nat, a - PlanTotal(OldestFirst(a)) > 0, NEW i \in Invoices
  PROVE  remaining[i] <= OldestFirst(a)[i]
<1>1. PlanTotal(OldestFirst(a)) = IF WantedUpTo(NInvoices) <= a THEN WantedUpTo(NInvoices) ELSE a
  BY OldestFirstSpends, InvoicesFinite DEF PlanTotal
<1>2. WantedUpTo(NInvoices) \in Nat
  BY WantedUpToStep, InvoicesFinite
<1>3. WantedUpTo(NInvoices) < a
  BY <1>1, <1>2
<1>4. OwedBefore(i) \in Nat /\ Owed(i) \in Nat /\ OwedBefore(i) + Owed(i) < a
  BY <1>2, <1>3, WantedBound
<1>5. OldestFirst(a)[i] = IF a - OwedBefore(i) <= 0 THEN 0
                          ELSE IF Owed(i) <= a - OwedBefore(i) THEN Owed(i) ELSE a - OwedBefore(i)
  BY DEF OldestFirst
<1>6. OldestFirst(a)[i] = Owed(i)
  BY <1>4, <1>5
<1>7. remaining[i] \in Int
  BY DEF TypeOK
<1> QED BY <1>6, <1>7 DEF Owed

\* No step makes an invoice owe more than before.
LEMMA RemainingFalls ==
  ASSUME IInv, NEW r \in Requests, Step(r) \/ Crash(r), NEW i \in Invoices
  PROVE  remaining'[i] <= remaining[i] /\ remaining[i] \in Int
<1>1. TypeOK /\ remaining[i] \in Int /\ Total[i] \in Nat /\ Settled(i) \in Nat
  BY TotalAssumption DEF IInv, TypeOK, Settled
<1>2. CASE CommitAllocation(r)
  <2>1. plan[r][i] \in Nat
    BY <1>1 DEF TypeOK
  <2>2. CASE plan[r][i] = 0
    <3>1. remaining'[i] = remaining[i]
      BY <1>2, <2>2, CommittedInvoice
    <3> QED BY <1>1, <3>1
  <2>3. CASE plan[r][i] > 0
    <3>1. remaining[i] = Total[i] - Settled(i)
      BY <1>2, <2>3, CommittedRows DEF IInv, CacheExact, RowExact
    <3>2. remaining'[i] = Total[i] - (Settled(i) + plan[r][i])
      BY <1>2, <2>3, CommittedInvoice
    <3> QED BY <1>1, <2>1, <3>1, <3>2
  <2> QED BY <2>1, <2>2, <2>3
<1>3. CASE Void(r)
  <2>1. remaining[i] >= 0
    BY <1>1 DEF IInv, CacheExact, RowExact, NoOverpayment
  <2>2. remaining'[i] \in {0, remaining[i]}
    BY <1>1, <1>3 DEF Void, TypeOK
  <2> QED BY <1>1, <2>1, <2>2
<1>4. CASE Save(r)
  BY <1>4 DEF Save, IInv, PayingSteps
<1>5. CASE ~ CommitAllocation(r) /\ ~ Void(r) /\ ~ Save(r)
  <2>1. remaining' = remaining
    BY <1>5
    DEF Step, LoadForPayment, RecordPayment, ReadDirect, ReadAllocated, LoadForAllocation,
        LoadForCollection, Lock, RecordAdvance, LoadForCancel, CheckUncollected, Abort,
        Crash, rows
  <2> QED BY <1>1, <2>1
<1> QED BY <1>2, <1>3, <1>4, <1>5

\* So what is closed stays closed.
LEMMA StaysClosed ==
  ASSUME IInv, NEW r \in Requests, Step(r) \/ Crash(r), Open = {}
  PROVE  Open' = {}
<1>1. SUFFICES ASSUME NEW i \in Invoices PROVE ~ (remaining'[i] > 0)
  BY DEF Open
<1>2. remaining[i] \in Int /\ remaining'[i] <= remaining[i] /\ remaining[i] <= 0
  BY RemainingFalls DEF Open, IInv, TypeOK
<1>3. TypeOK'
  BY NextTypeOK DEF Next, IInv
<1> QED BY <1>2, <1>3 DEF TypeOK

\* The request that commits a plan with a left-over has closed every invoice.
LEMMA CommitCloses ==
  ASSUME IInv, TypeOK', NEW r \in Requests, CommitAllocation(r),
         \A i \in Invoices : remaining[i] <= plan[r][i]
  PROVE  Open' = {}
<1>1. SUFFICES ASSUME NEW i \in Invoices PROVE ~ (remaining'[i] > 0)
  BY DEF Open
<1>2. /\ remaining[i] \in Int /\ plan[r][i] \in Nat /\ remaining'[i] \in Int
      /\ Total[i] \in Nat /\ Settled(i) \in Nat
  BY TotalAssumption DEF IInv, TypeOK, Settled
<1>3. CASE plan[r][i] = 0
  <2>1. remaining'[i] = remaining[i] /\ remaining[i] <= plan[r][i]
    BY <1>3, CommittedInvoice
  <2> QED BY <1>2, <1>3, <2>1
<1>4. CASE plan[r][i] > 0
  <2>1. remaining[i] = plan[r][i]
    BY <1>2, <1>4, CommittedRows
  <2>2. remaining[i] = Total[i] - Settled(i)
    BY <1>4, CommittedRows DEF IInv, CacheExact, RowExact
  <2>3. remaining'[i] = Total[i] - (Settled(i) + plan[r][i])
    BY <1>4, CommittedInvoice
  <2>4. remaining'[i] = (Total[i] - Settled(i)) - plan[r][i]
    BY <1>2, <2>3
  <2>5. remaining'[i] = plan[r][i] - plan[r][i]
    BY <2>1, <2>2, <2>4
  <2>6. \A n \in Int : n - n = 0
    OBVIOUS
  <2>7. remaining'[i] = 0
    BY <1>2, <2>5, <2>6
  <2> QED BY <2>7
<1> QED BY <1>2, <1>3, <1>4

LEMMA NextAdvance == ASSUME NoDirectPayments, AdvanceInv, [Next]_vars PROVE AdvanceInv'
<1>1. IInv' /\ BooksFollow' /\ TypeOK /\ TypeOK'
  BY NextIInv, NextBooks DEF AdvanceInv, IInv
<1>2. IInv /\ BooksFollow
  BY DEF AdvanceInv
<1>3. SUFFICES ASSUME NEW s \in Requests PROVE ClosesAll(s)'
  BY <1>1 DEF AdvanceInv
<1>4. ClosesAll(s)
  BY DEF AdvanceInv
<1>5. CASE UNCHANGED vars
  BY <1>4, <1>5 DEF ClosesAll, Open, vars, rows, money, local
<1>6. ASSUME NEW r \in Requests, Step(r) \/ Crash(r) PROVE ClosesAll(s)'
  <2>1. \A i \in Invoices : remaining'[i] <= remaining[i] /\ remaining[i] \in Int
    BY <1>2, <1>6, RemainingFalls
  <2>2. Open = {} => Open' = {}
    BY <1>2, <1>6, StaysClosed
  <2>3. \A i \in Invoices : remaining'[i] \in Int /\ plan[s][i] \in Int
    BY <1>1 DEF TypeOK
  <2>4. CASE s # r
    <3>1. pc'[s] = pc[s] /\ plan'[s] = plan[s] /\ extra'[s] = extra[s]
      BY <1>1, <1>6, <2>4, OwnVariables
    <3>2. onAccount'[s] = onAccount[s]
      BY <1>1, <1>6, <2>4
      DEF TypeOK, Step, LoadForPayment, RecordPayment, ReadDirect, ReadAllocated, Save,
          LoadForAllocation, LoadForCollection, Lock, CommitAllocation, RecordAdvance,
          LoadForCancel, CheckUncollected, Void, Abort, Crash, money
    <3>3. (\A i \in Invoices : remaining[i] <= plan[s][i]) =>
             \A i \in Invoices : remaining'[i] <= plan[s][i]
      BY <2>1, <2>3
    <3> QED BY <1>4, <2>2, <3>1, <3>2, <3>3 DEF ClosesAll
  <2>5. CASE s = r
    <3>1. CASE LoadForCollection(r)
      <4>1. PICK a \in Amounts : /\ plan' = [plan EXCEPT ![r] = OldestFirst(a)]
                                 /\ extra' = [extra EXCEPT ![r] = a - PlanTotal(OldestFirst(a))]
        BY <3>1 DEF LoadForCollection
      <4>2. /\ plan'[r] = OldestFirst(a) /\ extra'[r] = a - PlanTotal(OldestFirst(a))
            /\ a \in Nat
        BY <1>1, <4>1, AmountsAssumption DEF TypeOK
      <4>3. /\ remaining' = remaining /\ onAccount' = onAccount
            /\ pc'[r] = IF Open = {} THEN "advance" ELSE "locking"
        BY <1>1, <3>1 DEF LoadForCollection, Goto, TypeOK, rows, money
      <4>4. extra'[r] > 0 => \A i \in Invoices : remaining'[i] <= plan'[r][i]
        BY <1>1, <4>2, <4>3, LeftOverPaysAll
      <4> QED BY <1>4, <2>2, <2>5, <4>3, <4>4 DEF ClosesAll
    <3>2. CASE LoadForAllocation(r)
      <4>1. pc[r] = "start" /\ extra' = extra /\ onAccount' = onAccount
        BY <3>2 DEF LoadForAllocation, money
      <4>2. extra[r] = 0
        BY <1>2, <4>1 DEF BooksFollow, RecordedBy
      <4>3. pc'[r] \in {"locking", "rejected"}
        BY <1>1, <3>2 DEF LoadForAllocation, Goto, TypeOK
      <4> QED BY <1>4, <2>2, <2>5, <4>1, <4>2, <4>3 DEF ClosesAll
    <3>3. CASE \E i \in Invoices : Lock(r, i)
      <4>1. /\ pc[r] = "locking" /\ pc'[r] \in {"locking", "rejected"}
            /\ plan' = plan /\ extra' = extra /\ onAccount' = onAccount
            /\ remaining' = remaining
        BY <1>1, <3>3 DEF Lock, NextToLock, Goto, TypeOK, rows, money, local
      <4> QED BY <1>4, <2>2, <2>5, <4>1 DEF ClosesAll
    <3>4. CASE CommitAllocation(r)
      <4>1. /\ pc[r] = "locking" /\ onAccount' = onAccount
            /\ pc'[r] = IF extra[r] > 0 THEN "advance" ELSE "done"
        BY <1>1, <3>4 DEF CommitAllocation, AfterAllocation, Goto, TypeOK
      <4>2. extra[r] > 0 => Open' = {}
        BY <1>1, <1>2, <1>4, <2>5, <3>4, <4>1, CommitCloses DEF ClosesAll
      <4> QED BY <1>4, <2>2, <2>5, <4>1, <4>2 DEF ClosesAll
    <3>5. CASE RecordAdvance(r)
      <4>1. pc[r] = "advance" /\ pc'[r] = "done"
        BY <1>1, <3>5 DEF RecordAdvance, Goto, TypeOK
      <4> QED BY <1>4, <2>2, <2>5, <4>1 DEF ClosesAll
    <3>6. CASE LoadForCancel(r) \/ CheckUncollected(r) \/ Void(r) \/ Crash(r) \/ Abort(r)
      <4>1. pc'[r] \notin {"locking", "advance"} /\ onAccount' = onAccount
        BY <1>1, <3>6 DEF LoadForCancel, CheckUncollected, Void, Crash, Abort, Goto, TypeOK, money
      <4> QED BY <1>4, <2>2, <2>5, <4>1 DEF ClosesAll
    <3>7. CASE LoadForPayment(r) \/ RecordPayment(r) \/ ReadDirect(r) \/ ReadAllocated(r) \/ Save(r)
      BY <1>2, <3>7
      DEF IInv, PayingSteps, LoadForPayment, RecordPayment, ReadDirect, ReadAllocated, Save,
          NoDirectPayments
    <3> QED BY <1>6, <3>1, <3>2, <3>3, <3>4, <3>5, <3>6, <3>7 DEF Step
  <2> QED BY <2>4, <2>5
<1> QED BY <1>5, <1>6 DEF Next

\* Without sale_add_payment the left-over _collect_due records on account is a genuine
\* advance, whoever pays or cancels between its plan, its allocation and the advance: no
\* invoice of the customer is left to pay.
THEOREM AdvancesAreGenuine == ASSUME NoDirectPayments PROVE Spec => []AdvanceIsGenuine
<1>1. ASSUME Init PROVE AdvanceInv
  <2>1. IInv /\ BooksFollow
    BY <1>1, InitIInv, InitBooks
  <2>2. \A r \in Requests : ClosesAll(r)
    BY <1>1 DEF Init, ClosesAll
  <2> QED BY <2>1, <2>2 DEF AdvanceInv
<1>2. AdvanceInv /\ [Next]_vars => AdvanceInv'
  BY NextAdvance
<1>3. AdvanceInv => AdvanceIsGenuine
  BY DEF AdvanceInv, ClosesAll, AdvanceIsGenuine
<1> QED BY <1>1, <1>2, <1>3, PTL DEF Spec

\* And once every request has been answered paid, remaining and status are exact.
THEOREM CacheExactInTheEnd == ASSUME NoDirectPayments PROVE Spec => []CacheExactAtRest
<1>1. CacheExact => CacheExactAtRest
  BY DEF CacheExactAtRest
<1> QED BY <1>1, CacheAlwaysExact, PTL

-----------------------------------------------------------------------------
(***************************************************************************)
(* Requests served one at a time: sale_add_payment and sale_cancel are     *)
(* right then, so what the races break they break by overlapping.          *)
(***************************************************************************)

LEMMA InitSerial == ASSUME Init PROVE SerialInv
<1>1. IInv
  BY InitIInv
<1>2. \A r \in Requests : ~ Busy(r) /\ StillSo(r)
  BY DEF Init, Busy, Ended, StillSo, Recalculating, PayingSteps
<1>3. \A i \in Invoices : ~ voided[i]
  BY DEF Init
<1> QED BY <1>1, <1>2, <1>3 DEF SerialInv, IInv, CacheExact

\* While one request works, no other is between its first step and its answer.
LEMMA NobodyElse ==
  ASSUME SerialInv, NEW r \in Requests, Step(r), OneAtATime, NEW s \in Requests, s # r
  PROVE  ~ Busy(s) /\ ~ Busy(s)'
<1>1. pc'[s] = pc[s]
  BY OwnVariables DEF SerialInv
<1>2. Busy(r) \/ (pc[r] = "start" /\ pc'[r] # "start")
  <2>1. CASE LoadForPayment(r) \/ LoadForCancel(r)
    BY <2>1 DEF LoadForPayment, LoadForCancel, Goto, SerialInv, TypeOK
  <2>2. CASE LoadForAllocation(r) \/ LoadForCollection(r)
    BY <2>2 DEF LoadForAllocation, LoadForCollection, Goto, SerialInv, TypeOK
  <2>3. CASE ~ (LoadForPayment(r) \/ LoadForCancel(r) \/ LoadForAllocation(r) \/ LoadForCollection(r))
    BY <2>3
    DEF Step, RecordPayment, ReadDirect, ReadAllocated, Save, Lock, NextToLock,
        CommitAllocation, RecordAdvance, CheckUncollected, Void, Abort, WaitsFor, Busy, Ended
  <2> QED BY <2>1, <2>2, <2>3
<1>3. ~ Busy(s)
  <2>1. CASE Busy(r)
    BY <2>1 DEF SerialInv
  <2>2. CASE pc[r] = "start" /\ pc'[r] # "start"
    BY <2>2 DEF OneAtATime, Idle, Busy
  <2> QED BY <1>2, <2>1, <2>2
<1> QED BY <1>1, <1>3 DEF Busy

\* Between the payments the cached columns are exact.
LEMMA BetweenPayments ==
  ASSUME SerialInv, \A s \in Requests : pc[s] \notin PayingSteps
  PROVE  IInv
BY DEF SerialInv, IInv, CacheExact, Recalculating

\* A request that is neither paying nor about to keeps the invariant.
LEMMA OtherSerialSteps ==
  ASSUME SerialInv, NEW r \in Requests, Step(r), OneAtATime,
         ~ LoadForPayment(r), pc[r] \notin PayingSteps
  PROVE  SerialInv'
<1>1. \A s \in Requests : s # r => ~ Busy(s) /\ ~ Busy(s)'
  BY NobodyElse
<1>2. \A s \in Requests : pc[s] \notin PayingSteps
  BY <1>1 DEF Busy, Ended, PayingSteps
<1>3. IInv /\ IInv' /\ TypeOK /\ TypeOK'
  <2>1. IInv
    BY <1>2, BetweenPayments
  <2>2. IInv'
    BY <2>1, StepKeepsIInv
  <2> QED BY <2>1, <2>2 DEF IInv
<1>4. \A i \in Invoices : voided'[i] => status'[i] = "cancelled" /\ Settled(i)' = 0
  <2> SUFFICES ASSUME NEW i \in Invoices, voided'[i]
               PROVE  status'[i] = "cancelled" /\ Settled(i)' = 0
    OBVIOUS
  <2>1. voided[i] => status[i] = "cancelled" /\ Settled(i) = 0
    BY DEF SerialInv
  <2>2. CASE CommitAllocation(r)
    <3>1. voided' = voided
      BY <2>2 DEF CommitAllocation
    <3>2. plan[r][i] \in Nat
      BY <1>3 DEF TypeOK
    <3>3. plan[r][i] = 0
      BY <1>3, <2>1, <2>2, <3>1, <3>2, CommittedRows
    <3>4. Settled(i)' = Settled(i) + plan[r][i] /\ status'[i] = status[i]
      BY <1>3, <2>2, <3>3, CommittedInvoice
    <3> QED BY <2>1, <3>1, <3>3, <3>4
  <2>3. CASE Void(r)
    <3>1. pc[r] = "void" /\ Settled(i)' = Settled(i)
      BY <2>3 DEF Void, money, Settled
    <3>3. \/ voided' = voided /\ status' = status
          \/ /\ voided' = [voided EXCEPT ![target[r]] = TRUE]
             /\ status' = [status EXCEPT ![target[r]] = "cancelled"]
      BY <2>3 DEF Void
    <3>4. \/ voided'[i] = voided[i] /\ status'[i] = status[i]
          \/ i = target[r] /\ status'[i] = "cancelled"
      <4>1. CASE i = target[r]
        BY <1>3, <3>3, <4>1 DEF TypeOK
      <4>2. CASE i # target[r]
        BY <1>3, <3>3, <4>2 DEF TypeOK
      <4> QED BY <4>1, <4>2
    <3>2. Settled(target[r]) = 0
      BY <3>1 DEF SerialInv, StillSo
    <3> QED BY <2>1, <3>1, <3>2, <3>4
  <2>4. CASE ~ CommitAllocation(r) /\ ~ Void(r)
    <3>1. voided' = voided /\ status' = status /\ direct' = direct /\ allocatedTo' = allocatedTo
      BY <2>4
      DEF Step, PayingSteps, RecordPayment, ReadDirect, ReadAllocated, Save,
          LoadForAllocation, LoadForCollection, Lock, RecordAdvance, LoadForCancel,
          CheckUncollected, Abort, rows, money
    <3> QED BY <2>1, <3>1 DEF Settled
  <2> QED BY <2>2, <2>3, <2>4
<1>5. \A s \in Requests : StillSo(s)'
  <2> SUFFICES ASSUME NEW s \in Requests PROVE StillSo(s)'
    OBVIOUS
  <2>1. CASE s # r
    BY <1>1, <2>1 DEF StillSo, Recalculating, PayingSteps, Busy, Ended
  <2>2. CASE s = r
    <3>1. pc'[r] \notin PayingSteps
      BY <1>3 DEF IInv
    <3>2. ASSUME pc'[r] = "void" PROVE Settled(target[r])' = 0
      <4>1. CheckUncollected(r)
        BY <1>3, <3>2
        DEF Step, PayingSteps, RecordPayment, ReadDirect, ReadAllocated, Save,
            LoadForAllocation, LoadForCollection, Lock, NextToLock, CommitAllocation,
            AfterAllocation, RecordAdvance, LoadForCancel, Void, Abort, Goto, TypeOK
      <4>2. ~ HasMoney(target[r])
        BY <1>3, <3>2, <4>1 DEF CheckUncollected, Goto, TypeOK
      <4>3. target'[r] = target[r] /\ direct' = direct /\ allocatedTo' = allocatedTo
        BY <4>1 DEF CheckUncollected, money, local
      <4>4. Settled(target[r]) \in Nat
        BY <1>3 DEF TypeOK, Settled
      <4> QED BY <4>2, <4>3, <4>4 DEF HasMoney, Settled
    <3> QED BY <2>2, <3>1, <3>2 DEF StillSo, Recalculating, PayingSteps
  <2> QED BY <2>1, <2>2
<1> QED BY <1>1, <1>3, <1>4, <1>5 DEF SerialInv, IInv, CacheExact

\* A sale_add_payment that begins and one that records its amount.
LEMMA SerialPaymentBegins ==
  ASSUME SerialInv, NEW r \in Requests, Step(r), OneAtATime, LoadForPayment(r) \/ RecordPayment(r)
  PROVE  SerialInv'
<1>1. \A s \in Requests : s # r => ~ Busy(s) /\ ~ Busy(s)'
  BY NobodyElse
<1>2. TypeOK /\ TypeOK'
  BY NextTypeOK DEF SerialInv, Next
<1>3. \A s, t \in Requests : Busy(s)' /\ Busy(t)' => s = t
  BY <1>1
<1>4. \A s \in Requests : s # r => StillSo(s)'
  BY <1>1 DEF StillSo, Recalculating, PayingSteps, Busy, Ended
<1>5. \A i \in Invoices : RowExact(i)
  <2>1. \A s \in Requests, i \in Invoices : ~ Recalculating(s, i)
    <3>1. pc[r] \in {"start", "pay"}
      BY DEF LoadForPayment, RecordPayment
    <3> QED BY <1>1, <3>1 DEF Recalculating, PayingSteps, Busy, Ended
  <2> QED BY <2>1 DEF SerialInv
<1>6. CASE LoadForPayment(r)
  <2>1. PICK i \in Invoices, a \in Amounts :
          /\ target' = [target EXCEPT ![r] = i]
          /\ plan' = [plan EXCEPT ![r] = [j \in Invoices |-> IF j = i THEN a ELSE 0]]
    BY <1>6 DEF LoadForPayment
  <2>2. a > 0 /\ target'[r] = i /\ plan'[r][i] = a
    BY <1>2, <2>1, AmountsAssumption DEF TypeOK
  <2>3. /\ pc[r] = "start" /\ pc'[r] = "pay"
        /\ \A s \in Requests : s # r => pc'[s] = pc[s]
        /\ loaded' = [loaded EXCEPT ![r] = status]
        /\ paid' = paid /\ remaining' = remaining /\ status' = status /\ voided' = voided
        /\ direct' = direct /\ allocatedTo' = allocatedTo /\ holder' = holder
    BY <1>2, <1>6 DEF LoadForPayment, Goto, TypeOK, rows, money
  <2>4. StillSo(r)'
    BY <2>2, <2>3 DEF StillSo, Recalculating, PayingSteps
  <2>5. LocksHold'
    <3>1. \A j \in Invoices : holder[j] # r
      BY <2>3 DEF SerialInv, LocksHold
    <3>2. \A s \in Requests : s # r => plan'[s] = plan[s]
      BY <1>2, <2>1 DEF TypeOK
    <3> QED BY <2>3, <3>1, <3>2 DEF SerialInv, LocksHold
  <2>6. CopiesHold'
    BY <1>2, <2>3 DEF SerialInv, CopiesHold, TypeOK
  <2>7. NoOverpayment' /\ \A j \in Invoices : RowExact(j)'
    BY <1>5, <2>3 DEF SerialInv, NoOverpayment, RowExact, Settled
  <2>8. \A j \in Invoices : voided'[j] => status'[j] = "cancelled" /\ Settled(j)' = 0
    BY <2>3 DEF SerialInv, Settled
  <2> QED BY <1>2, <1>3, <1>4, <2>4, <2>5, <2>6, <2>7, <2>8 DEF SerialInv
<1>7. CASE RecordPayment(r)
  <2>0. PICK i \in Invoices, a \in Nat : i = target[r] /\ a = plan[r][i] /\ a > 0
    BY <1>2, <1>7 DEF SerialInv, StillSo, RecordPayment, TypeOK
  <2>1. i \in Invoices /\ a \in Nat /\ a > 0
    BY <2>0
  <2>2. /\ paid' = paid /\ remaining' = remaining /\ status' = status /\ voided' = voided
        /\ holder' = holder /\ target' = target /\ plan' = plan /\ loaded' = loaded
        /\ tally' = tally
    BY <1>7 DEF RecordPayment, rows, local
  <2>3. LocksHold'
    <3>1. \A j \in Invoices : holder[j] # r
      BY <1>7 DEF RecordPayment, SerialInv, LocksHold
    <3>2. \A s \in Requests : s # r => pc'[s] = pc[s]
      BY <1>2, <1>7 DEF RecordPayment, Goto, TypeOK
    <3> QED BY <2>2, <3>1, <3>2 DEF SerialInv, LocksHold
  <2>4. CopiesHold'
    BY <2>2 DEF SerialInv, CopiesHold
  <2>5. CASE Exceeds(r, i)
    <3>1. pc'[r] = "rejected" /\ direct' = direct /\ allocatedTo' = allocatedTo
      BY <1>2, <1>7, <2>0, <2>5 DEF RecordPayment, Goto, TypeOK, money
    <3>2. StillSo(r)'
      BY <3>1 DEF StillSo, Recalculating, PayingSteps
    <3>3. NoOverpayment' /\ \A j \in Invoices : RowExact(j)'
      BY <1>5, <2>2, <3>1 DEF SerialInv, NoOverpayment, RowExact, Settled
    <3>4. \A j \in Invoices : voided'[j] => status'[j] = "cancelled" /\ Settled(j)' = 0
      BY <2>2, <3>1 DEF SerialInv, Settled
    <3> QED BY <1>2, <1>3, <1>4, <2>3, <2>4, <3>2, <3>3, <3>4 DEF SerialInv
  <2>6. CASE ~ Exceeds(r, i)
    <3>1. /\ pc'[r] = "readDirect" /\ direct' = [direct EXCEPT ![i] = @ + a]
          /\ allocatedTo' = allocatedTo
      BY <1>2, <1>7, <2>0, <2>6 DEF RecordPayment, Goto, TypeOK
    <3>2. /\ remaining[i] \in Int /\ Total[i] \in Nat /\ Settled(i) \in Nat
          /\ a <= remaining[i]
      BY <1>2, <2>0, <2>6, TotalAssumption DEF TypeOK, Settled, Exceeds
    <3>3. status[i] # "cancelled" /\ remaining[i] = Total[i] - Settled(i)
      BY <1>5, <2>1, <3>2 DEF RowExact
    <3>4. /\ Settled(i)' = Settled(i) + a
          /\ \A j \in Invoices : j # i => Settled(j)' = Settled(j)
      BY <1>2, <2>1, <3>1 DEF Settled, TypeOK
    <3>5. NoOverpayment'
      <4>1. Settled(i)' <= Total[i]
        BY <2>1, <3>2, <3>3, <3>4
      <4>2. \A j \in Invoices : Settled(j) <= Total[j]
        BY DEF SerialInv, NoOverpayment
      <4>3. \A j \in Invoices : j # i => Settled(j)' <= Total[j]
        BY <3>4, <4>2
      <4> QED BY <4>1, <4>3 DEF NoOverpayment
    <3>6. StillSo(r)'
      BY <2>0, <2>2, <3>1, <3>3 DEF StillSo, Recalculating, PayingSteps
    <3>7. \A j \in Invoices : RowExact(j)' \/ \E s \in Requests : Recalculating(s, j)'
      <4>1. Recalculating(r, i)'
        BY <2>0, <2>2, <3>1 DEF Recalculating, PayingSteps
      <4>2. \A j \in Invoices : j # i => RowExact(j)'
        <5> SUFFICES ASSUME NEW j \in Invoices, j # i PROVE RowExact(j)'
          OBVIOUS
        <5>1. RowExact(j) /\ Settled(j)' = Settled(j)
          BY <1>5, <3>4
        <5> QED BY <2>2, <5>1 DEF RowExact
      <4> QED BY <4>1, <4>2
    <3>8. \A j \in Invoices : voided'[j] => status'[j] = "cancelled" /\ Settled(j)' = 0
      BY <2>2, <3>3, <3>4 DEF SerialInv
    <3> QED BY <1>2, <1>3, <1>4, <2>3, <2>4, <3>5, <3>6, <3>7, <3>8 DEF SerialInv
  <2> QED BY <2>5, <2>6
<1> QED BY <1>6, <1>7

\* Recalculation and save leave the row exact.
LEMMA SerialPaymentEnds ==
  ASSUME SerialInv, NEW r \in Requests, Step(r), OneAtATime,
         ReadDirect(r) \/ ReadAllocated(r) \/ Save(r)
  PROVE  SerialInv'
<1>0. PICK i \in Invoices : i = target[r]
  BY DEF SerialInv, TypeOK
<1>1. \A s \in Requests : s # r => ~ Busy(s) /\ ~ Busy(s)'
  BY NobodyElse
<1>2. TypeOK /\ TypeOK'
  BY NextTypeOK DEF SerialInv, Next
<1>3. \A s, t \in Requests : Busy(s)' /\ Busy(t)' => s = t
  BY <1>1
<1>4. \A s \in Requests : s # r => StillSo(s)'
  BY <1>1 DEF StillSo, Recalculating, PayingSteps, Busy, Ended
<1>5. /\ pc[r] \in PayingSteps \ {"pay"} /\ pc[r] # "locking"
      /\ target' = target /\ plan' = plan /\ loaded' = loaded /\ voided' = voided
      /\ direct' = direct /\ allocatedTo' = allocatedTo /\ holder' = holder
      /\ \A s \in Requests : s # r => pc'[s] = pc[s]
  BY <1>2 DEF ReadDirect, ReadAllocated, Save, PayingSteps, money, local, Goto, TypeOK
<1>6. i \in Invoices /\ status[i] # "cancelled" /\ loaded[r][i] # "cancelled"
  BY <1>0, <1>2, <1>5 DEF SerialInv, StillSo, Recalculating, CopiesHold, TypeOK
<1>7. \A j \in Invoices : j # i => RowExact(j)
  BY <1>0, <1>1, <1>5 DEF SerialInv, Recalculating, PayingSteps, Busy, Ended
<1>8. \A j \in Invoices : Settled(j)' = Settled(j)
  BY <1>5 DEF Settled
<1>9. NoOverpayment'
  BY <1>8 DEF SerialInv, NoOverpayment
<1>10. \A j \in Invoices : holder[j] # r
  BY <1>5 DEF SerialInv, LocksHold
<1>11. ~ voided[i]
  BY <1>6 DEF SerialInv
<1>12. CASE ReadDirect(r) \/ ReadAllocated(r)
  <2>1. /\ paid' = paid /\ remaining' = remaining /\ status' = status
        /\ pc'[r] \in {"readAllocated", "save"}
    BY <1>0, <1>2, <1>6, <1>12 DEF ReadDirect, ReadAllocated, Goto, TypeOK, rows
  <2>2. pc'[r] = "readAllocated" => tally'[r] = direct[i]
    BY <1>0, <1>2, <1>6, <1>12 DEF ReadDirect, ReadAllocated, Goto, TypeOK
  <2>3. pc'[r] = "save" => tally'[r] = Settled(i)
    <3>1. ASSUME pc'[r] = "save" PROVE tally'[r] = tally[r] + allocatedTo[i] /\ pc[r] = "readAllocated"
      BY <1>0, <1>2, <1>6, <1>12, <3>1 DEF ReadDirect, ReadAllocated, Goto, TypeOK
    <3> QED BY <1>0, <3>1 DEF SerialInv, StillSo, Settled
  <2>4. StillSo(r)'
    BY <1>0, <1>5, <1>6, <1>8, <2>1, <2>2, <2>3 DEF StillSo, Recalculating, PayingSteps
  <2>5. LocksHold' /\ CopiesHold'
    BY <1>5, <1>10, <2>1 DEF SerialInv, LocksHold, CopiesHold
  <2>6. \A j \in Invoices : RowExact(j)' \/ \E s \in Requests : Recalculating(s, j)'
    <3>1. Recalculating(r, i)'
      BY <1>0, <1>5, <2>1 DEF Recalculating, PayingSteps
    <3>2. \A j \in Invoices : j # i => RowExact(j)'
      <4> SUFFICES ASSUME NEW j \in Invoices, j # i PROVE RowExact(j)'
        OBVIOUS
      <4>1. RowExact(j) /\ Settled(j)' = Settled(j)
        BY <1>7, <1>8
      <4> QED BY <2>1, <4>1 DEF RowExact
    <3> QED BY <3>1, <3>2
  <2>7. \A j \in Invoices : voided'[j] => status'[j] = "cancelled" /\ Settled(j)' = 0
    BY <1>5, <1>8, <2>1 DEF SerialInv
  <2> QED BY <1>2, <1>3, <1>4, <1>9, <2>4, <2>5, <2>6, <2>7 DEF SerialInv
<1>13. CASE Save(r)
  <2>1. tally[r] = Settled(i)
    BY <1>0, <1>13 DEF Save, SerialInv, StillSo
  <2>2. /\ paid'[i] = Settled(i) /\ remaining'[i] = Total[i] - Settled(i)
        /\ status'[i] = StatusOf(Total[i], Settled(i)) /\ pc'[r] = "done"
        /\ \A j \in Invoices : j # i => /\ paid'[j] = paid[j] /\ remaining'[j] = remaining[j]
                                        /\ status'[j] = status[j]
    BY <1>0, <1>2, <1>6, <1>13, <2>1 DEF Save, Goto, TypeOK
  <2>3. status'[i] # "cancelled"
    BY <2>2 DEF StatusOf
  <2>4. \A j \in Invoices : RowExact(j)'
    BY <1>7, <1>8, <2>2, <2>3 DEF RowExact
  <2>5. StillSo(r)'
    BY <2>2 DEF StillSo, Recalculating, PayingSteps
  <2>6. CopiesHold'
    BY <1>5, <1>6, <2>2 DEF SerialInv, CopiesHold
  <2>7. LocksHold'
    <3>1. holder[i] = Nobody
      BY <1>0, <1>13 DEF Save, Free
    <3> QED BY <1>5, <1>10, <2>2, <3>1, RequestsAssumption DEF SerialInv, LocksHold
  <2>8. \A j \in Invoices : voided'[j] => status'[j] = "cancelled" /\ Settled(j)' = 0
    BY <1>5, <1>8, <1>11, <2>2 DEF SerialInv
  <2> QED BY <1>2, <1>3, <1>4, <1>9, <2>4, <2>5, <2>6, <2>7, <2>8 DEF SerialInv
<1> QED BY <1>12, <1>13

LEMMA NextSerial ==
  ASSUME MaxCrashes = 0, SerialInv, [Next /\ OneAtATime]_vars
  PROVE  SerialInv'
<1>1. TypeOK'
  BY NextTypeOK DEF SerialInv
<1>2. CASE UNCHANGED vars
  BY <1>1, <1>2 DEF SerialInv, Busy, StillSo, Recalculating, LocksHold, CopiesHold, RowExact,
                    NoOverpayment, Settled, vars, rows, money, local
<1>3. ASSUME NEW r \in Requests, Step(r) \/ Crash(r), OneAtATime PROVE SerialInv'
  <2>1. Step(r)
    BY <1>3 DEF Crash, SerialInv, TypeOK
  <2>2. pc[r] \in PayingSteps =>
          LoadForPayment(r) \/ RecordPayment(r) \/ ReadDirect(r) \/ ReadAllocated(r) \/ Save(r)
    BY <2>1
    DEF Step, PayingSteps, LoadForAllocation, LoadForCollection, Lock, NextToLock,
        CommitAllocation, RecordAdvance, LoadForCancel, CheckUncollected, Void, Abort, WaitsFor
  <2> QED
    BY <1>3, <2>1, <2>2, SerialPaymentBegins, SerialPaymentEnds, OtherSerialSteps
<1> QED BY <1>2, <1>3 DEF Next

\* The invariant, for requests served one at a time by a worker that does not die.
LEMMA SerialInductive == ASSUME MaxCrashes = 0 PROVE SerialSpec => []SerialInv
<1>1. Init => SerialInv
  BY InitSerial
<1>2. SerialInv /\ [Next /\ OneAtATime]_vars => SerialInv'
  BY NextSerial
<1> QED BY <1>1, <1>2, PTL DEF SerialSpec

\* Served one at a time, no request, sale_add_payment included, overpays an invoice: the
\* check of record_payment is right when nothing comes between it and recalculate().
THEOREM SerialNoOverpayment == ASSUME MaxCrashes = 0 PROVE SerialSpec => []NoOverpayment
<1>1. SerialInv => NoOverpayment
  BY DEF SerialInv
<1> QED BY <1>1, SerialInductive, PTL

\* Served one at a time, no cancelled invoice has money on it: cancel_sale's checks are
\* right when nothing comes between them and the void.
THEOREM SerialCancelledUnpaid == ASSUME MaxCrashes = 0 PROVE SerialSpec => []CancelledUnpaid
<1>1. SerialInv => CancelledUnpaid
  BY DEF SerialInv, CancelledUnpaid
<1> QED BY <1>1, SerialInductive, PTL

\* Served one at a time, every request leaves paid, remaining and status exact behind:
\* Sale.recalculate makes up for what record_payment leaves undone.
THEOREM SerialCacheExact == ASSUME MaxCrashes = 0 PROVE SerialSpec => []CacheExactAtRest
<1>1. SerialInv => CacheExactAtRest
  BY DEF SerialInv, CacheExactAtRest, AllEnded, CacheExact, Recalculating, PayingSteps, Ended
<1> QED BY <1>1, SerialInductive, PTL

=============================================================================
