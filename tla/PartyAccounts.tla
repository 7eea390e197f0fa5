--------------------------- MODULE PartyAccounts ---------------------------
(***************************************************************************)
(* Customers and suppliers and the ledger account each is linked to.  The  *)
(* account is created with the party, or by the first request that posts   *)
(* to it; its code, AR-n or AP-n, comes from the party's number, so there  *)
(* is at most one for a party, ever.  A request works on the copy of the   *)
(* row it has loaded, and a form saves every column of that copy.          *)
(* Amounts are in whole cents, so a balance is what its entries add up to. *)
(***************************************************************************)
EXTENDS Integers, Sequences, SequencesExt, Sums

CONSTANTS
  Customers, Suppliers,
  Requests,      \* requests that work on a copy of a party
  NoParty,       \* no copy
  Amounts,       \* of documents, opening balances and adjustments
  NDays,         \* bound: the dates a document may have
  MaxEntries     \* bound: entries of all accounts

Parties == Customers \cup Suppliers
Days == 1..NDays

ASSUME PartiesAssumption ==
  /\ IsFiniteSet(Customers) /\ IsFiniteSet(Suppliers)
  /\ Customers \cap Suppliers = {} /\ NoParty \notin Parties
ASSUME AmountsAssumption == Amounts \subseteq Int
ASSUME DaysAssumption == NDays \in Nat \ {0}

VARIABLES
  party,      \* the row: "absent" before it is created, "present" or "deleted"
  linked,     \* linked_account IS NOT NULL
  account,    \* the account exists
  balance,    \* Account.balance
  entries,    \* LedgerEntry rows of the account, in the order of their ids
  used,       \* a sale, a purchase or a payment names the party
  copy,       \* what a request has loaded
  disturbed   \* parties deleted, or saved from a copy that was out of date (history)

accountVars == <<party, linked, account, balance, entries, used, disturbed>>
partyVars == <<accountVars, copy>>

NoCopy == [of |-> NoParty, linked |-> FALSE]

-----------------------------------------------------------------------------
(***************************************************************************)
(* Postings.                                                               *)
(***************************************************************************)

\* Account.DEBIT_INCREASES: a receivable is an asset, a payable a liability.
Increase(p) == IF p \in Customers THEN "debit" ELSE "credit"
Decrease(p) == IF p \in Customers THEN "credit" ELSE "debit"

\* _apply_balance_delta.
BalanceDelta(p, side, amount) == IF side = Increase(p) THEN amount ELSE -amount

NEntries == LET seq == SetToSeq(Parties) IN SumUpTo([i \in 1..Len(seq) |-> Len(entries[seq[i]])], Len(seq))

\* post_transaction: the party's line of it, and the cached balance.
PostEntry(p, side, amount, day, memo) ==
  /\ NEntries < MaxEntries
  /\ entries' = [entries EXCEPT ![p] =
       Append(@, [day |-> day, side |-> side, amount |-> amount, memo |-> memo])]
  /\ balance' = [balance EXCEPT ![p] = @ + BalanceDelta(p, side, amount)]

\* _signed_party_lines: a positive amount increases what is owed, on either kind of account.
PostSigned(p, amount, memo) ==
  IF amount > 0 THEN PostEntry(p, Increase(p), amount, NDays, memo)
                ELSE PostEntry(p, Decrease(p), -amount, NDays, memo)

\* get_or_create_party_account: nobody else's account can have that code.
CanPost(q) == copy[q].linked \/ ~account[copy[q].of]

\* Fault: the new account is not saved on the party.
LinkedInMemory(q) ==
  /\ account' = [account EXCEPT ![copy[q].of] = TRUE]
  /\ UNCHANGED linked

\* The account is there and linked; a copy that knows of it writes nothing.
Linked(q) ==
  LET p == copy[q].of IN
  /\ account' = [account EXCEPT ![p] = TRUE]
  /\ linked' = [linked EXCEPT ![p] = @ \/ ~copy[q].linked]

Forget(q) == copy' = [copy EXCEPT ![q] = NoCopy]

-----------------------------------------------------------------------------
(***************************************************************************)
(* The views.                                                              *)
(***************************************************************************)

\* customer_create, supplier_create: with its account and its opening balance.
CreateParty(p, opening) ==
  /\ party[p] = "absent"
  /\ party' = [party EXCEPT ![p] = "present"]
  /\ linked' = [linked EXCEPT ![p] = TRUE]
  /\ account' = [account EXCEPT ![p] = TRUE]
  /\ IF opening = 0 THEN UNCHANGED <<entries, balance>>
                    ELSE PostSigned(p, opening, "opening")
  /\ UNCHANGED <<used, copy, disturbed>>

\* customer_quick_create_api, a name and a telephone number; or the admin site, which has
\* suppliers as well.
QuickCreate(p) ==
  /\ party[p] = "absent"
  /\ party' = [party EXCEPT ![p] = "present"]
  /\ UNCHANGED <<linked, account, balance, entries, used, copy, disturbed>>

\* customer_delete, supplier_delete: PROTECT keeps a party with documents, not one whose
\* account has been posted to otherwise.
DeleteParty(p) ==
  /\ party[p] = "present" /\ ~used[p]
  /\ party' = [party EXCEPT ![p] = "deleted"]
  /\ disturbed' = disturbed \cup {p}
  /\ UNCHANGED <<linked, account, balance, entries, used, copy>>

\* get_object_or_404, or the customer a form field is validated to.
Load(q, p) ==
  /\ copy[q] = NoCopy /\ party[p] = "present"
  /\ copy' = [copy EXCEPT ![q] = [of |-> p, linked |-> linked[p]]]
  /\ UNCHANGED accountVars

\* customer_edit, supplier_edit: form.save() writes the row as it was loaded, and inserts it
\* again if it has been deleted.
SaveForm(q) ==
  LET p == copy[q].of IN
  /\ p # NoParty
  /\ party' = [party EXCEPT ![p] = "present"]
  /\ linked' = [linked EXCEPT ![p] = copy[q].linked]
  /\ disturbed' = IF linked[p] = copy[q].linked THEN disturbed ELSE disturbed \cup {p}
  /\ Forget(q)
  /\ UNCHANGED <<account, balance, entries, used>>

\* An invoice or an on-account payment of the party that was loaded.
PostDocument(q, side, amount, day, memo) ==
  LET p == copy[q].of IN
  /\ p # NoParty /\ party[p] = "present" /\ CanPost(q) /\ amount > 0
  /\ Linked(q)
  /\ PostEntry(p, side, amount, day, memo)
  /\ used' = [used EXCEPT ![p] = TRUE]
  /\ Forget(q)
  /\ UNCHANGED <<party, disturbed>>

Pay(q, amount, day) == PostDocument(q, Decrease(copy[q].of), amount, day, "payment")

\* post_balance_adjustment, which asks the copy and never creates an account.
AdjustBalance(q, amount) ==
  LET p == copy[q].of IN
  /\ p # NoParty /\ copy[q].linked /\ amount # 0
  /\ PostSigned(p, amount, "adjustment")
  /\ Forget(q)
  /\ UNCHANGED <<party, linked, account, used, disturbed>>

\* The request fails: the unique code is taken, the party is gone, or it has no account to
\* adjust.  Nothing of it stays.
RefuseDocument(q) ==
  LET p == copy[q].of IN
  /\ p # NoParty
  /\ party[p] # "present" \/ ~copy[q].linked
  /\ Forget(q)
  /\ UNCHANGED accountVars

-----------------------------------------------------------------------------
(***************************************************************************)
(* What is shown.                                                          *)
(***************************************************************************)

\* Customer.current_balance, Supplier.current_balance.
CurrentBalance(p) == IF party[p] = "present" /\ linked[p] THEN balance[p] ELSE 0

\* Total of what is positive in value, over the parties of a kind.
Outstanding(kind, value) ==
  LET seq == SetToSeq(kind) IN
  SumUpTo([i \in 1..Len(seq) |-> IF value[seq[i]] > 0 THEN value[seq[i]] ELSE 0], Len(seq))

\* udhaar_home and the balance reports go by parties.
UdhaarTotal(kind) == Outstanding(kind, [p \in kind |-> CurrentBalance(p)])

\* The dashboard goes by accounts.
DashboardTotal(kind) ==
  Outstanding(kind, [p \in kind |-> IF account[p] THEN balance[p] ELSE 0])

\* _entry_delta.
EntryDelta(p, e) == IF e.side = Increase(p) THEN e.amount ELSE -e.amount

Kinds == {"opening", "adjustment", "sale", "purchase", "payment"}

\* Fault: what was posted on the first day counts as before it, too.
BroughtForwardThrough(p, start) ==
  SumUpTo([i \in DOMAIN entries[p] |->
             IF entries[p][i].day <= start THEN EntryDelta(p, entries[p][i]) ELSE 0],
          Len(entries[p]))

\* The balance a statement begins with.
BroughtForward(p, start) ==
  SumUpTo([i \in DOMAIN entries[p] |->
             IF entries[p][i].day < start THEN EntryDelta(p, entries[p][i]) ELSE 0],
          Len(entries[p]))

\* The numbers in S, each once; before holds the pairs of which the first comes first.
InOrder(S, before) ==
  CHOOSE q \in [1..Cardinality(S) -> S] :
    /\ {q[m] : m \in DOMAIN q} = S
    /\ \A m, n \in DOMAIN q : m < n => <<q[m], q[n]>> \in before

\* order_by('transaction__date', 'id').
ByDate(rows) ==
  {ij \in (DOMAIN rows) \X (DOMAIN rows) :
     LET a == rows[ij[1]].day
         b == rows[ij[2]].day
     IN  a < b \/ (a = b /\ ij[1] < ij[2])}

\* The rows of s that are in keep, in the order of s.
Those(s, keep) ==
  LET q == InOrder({i \in DOMAIN s : s[i] \in keep}, {ij \in (DOMAIN s) \X (DOMAIN s) : ij[1] < ij[2]})
  IN  [m \in DOMAIN q |-> s[q[m]]]

Dated(p, start, end) == {i \in DOMAIN entries[p] : entries[p][i].day \in start..end}
OfKind(p, kinds) == {i \in DOMAIN entries[p] : entries[p][i].memo \in kinds}

\* Entries, by their numbers, with a running balance.
StatementRows(numbers) == [id : numbers, running : Int]

\* running += _entry_delta(e), over the first m entries of the list q.
RunningBalance(p, start, q, m) ==
  BroughtForward(p, start) + SumUpTo([n \in 1..m |-> EntryDelta(p, entries[p][q[n]])], m)

\* The loop of get_party_statement: the entries of the dates asked for, oldest first, each
\* with the balance after it.
Walk(p, start, end) ==
  LET q == InOrder(Dated(p, start, end), ByDate(entries[p])) IN
  [m \in DOMAIN q |-> [id |-> q[m], running |-> RunningBalance(p, start, q, m)]]

\* get_party_statement: the filter by type comes after the running balance; newest first.
Statement(p, start, end, kinds) ==
  IF linked[p]
  THEN Reverse(Those(Walk(p, start, end), StatementRows(OfKind(p, kinds))))
  ELSE <<>>

-----------------------------------------------------------------------------

PartyInit ==
  /\ party = [p \in Parties |-> "absent"]
  /\ linked = [p \in Parties |-> FALSE]
  /\ account = [p \in Parties |-> FALSE]
  /\ balance = [p \in Parties |-> 0]
  /\ entries = [p \in Parties |-> <<>>]
  /\ used = [p \in Parties |-> FALSE]
  /\ copy = [q \in Requests |-> NoCopy]
  /\ disturbed = {}

-----------------------------------------------------------------------------
(***************************************************************************)
(* Properties.                                                             *)
(***************************************************************************)

Entry == [day : Days, side : {"debit", "credit"}, amount : Int \ {0}, memo : Kinds]

PartyTypeOK ==
  /\ party \in [Parties -> {"absent", "present", "deleted"}]
  /\ linked \in [Parties -> BOOLEAN]
  /\ account \in [Parties -> BOOLEAN]
  /\ balance \in [Parties -> Int]
  /\ entries \in [Parties -> Seq(Entry)]
  /\ used \in [Parties -> BOOLEAN]
  /\ copy \in [Requests -> [of : Parties \cup {NoParty}, linked : BOOLEAN]]
  /\ disturbed \subseteq Parties

\* An account that is posted to stays its party's: the totals of the dashboard, by accounts,
\* and of the udhaar page, by parties, agree, however requests overlap, until a party is
\* deleted or a form saves a copy that was out of date.
ReceivablesAgree ==
  \A kind \in {Customers, Suppliers} :
    kind \cap disturbed = {} => DashboardTotal(kind) = UdhaarTotal(kind)

\* The complete statement of a party ends on the balance shown above it, documents entered late
\* included; and whatever dates and types a statement is asked for, it shows the rows of the
\* complete one, in its order and with its running balances ("filtering by type never distorts
\* the running total").
StatementAgrees ==
  \A p \in Parties :
    LET complete == Statement(p, 1, NDays, Kinds)
        memos == {entries[p][i].memo : i \in DOMAIN entries[p]}
    IN
    party[p] = "present" =>
      /\ complete # <<>> => Head(complete).running = CurrentBalance(p)
      /\ \A start, end \in Days, kinds \in SUBSET memos \ {{}} :
           Statement(p, start, end, kinds) =
             Those(complete, StatementRows(Dated(p, start, end) \cap OfKind(p, kinds)))

=============================================================================
