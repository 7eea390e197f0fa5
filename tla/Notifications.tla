--------------------------- MODULE Notifications ---------------------------
(***************************************************************************)
(* The alerts: refresh_notifications runs whenever the list or the         *)
(* dashboard is opened, outside any transaction, statement by statement,   *)
(* and so do several of them at once.  It goes through products, customers *)
(* and suppliers, makes a row of every condition it finds, and deletes the *)
(* rows of conditions it has not found.                                    *)
(***************************************************************************)
EXTENDS PartyAccounts, Catalogue

CONSTANTS Viewers   \* requests that refresh the alerts

VARIABLES
  alert,    \* the row of a condition: "none", "unread" or "read"
  scan,     \* how far a refresh is; 0 when none is running
  todo,     \* conditions it has read and not yet dealt with
  seen,     \* seen_keys
  stale,    \* stale_ids: rows it is about to delete
  blurred   \* a condition has changed under it, or under one it overlaps (history)

viewVars == <<alert, scan, todo, seen, stale>>
alertVars == <<viewVars, blurred>>

-----------------------------------------------------------------------------
(***************************************************************************)
(* What an alert is about.                                                 *)
(***************************************************************************)

ProductAlerts == {"low_stock", "expired", "near_expiry"} \X Products
Alerts ==
  ProductAlerts \cup ({"customer_due"} \X Customers) \cup ({"supplier_due"} \X Suppliers)

\* An expired product is not also near its expiry.  (Only ACTIVE products are asked for:
\* those of Products are, and stay so.)
Holds(a) ==
  CASE a[1] = "low_stock" -> IsLowStock(a[2])
    [] a[1] = "expired" -> IsExpired(a[2])
    [] a[1] = "near_expiry" -> IsNearExpiry(a[2])
    [] OTHER -> CurrentBalance(a[2]) > 0

Live == {a \in Alerts : Holds(a)}

Rows == {a \in Alerts : alert[a] # "none"}

\* The queries in their order: the products are read at once, a party's balance when its
\* turn comes.
Scans ==
  <<ProductAlerts>>
    \o [i \in 1..Len(SetToSeq(Customers)) |-> {<<"customer_due", SetToSeq(Customers)[i]>>}]
    \o [i \in 1..Len(SetToSeq(Suppliers)) |-> {<<"supplier_due", SetToSeq(Suppliers)[i]>>}]

ScansOver == Len(Scans) + 1

Running(v) == scan[v] # 0

-----------------------------------------------------------------------------
(***************************************************************************)
(* refresh_notifications.                                                  *)
(***************************************************************************)

\* One that joins a refresh which has been overtaken may lose rows to it.
StartRefresh(v) ==
  /\ ~Running(v)
  /\ scan' = [scan EXCEPT ![v] = 1]
  /\ blurred' = IF \E u \in Viewers : Running(u) /\ u \in blurred THEN blurred \cup {v}
                                                                  ELSE blurred \ {v}
  /\ UNCHANGED <<alert, todo, seen, stale>>

Look(v) ==
  /\ scan[v] \in 1..Len(Scans) /\ todo[v] = {}
  /\ todo' = [todo EXCEPT ![v] = Live \cap Scans[scan[v]]]
  /\ scan' = [scan EXCEPT ![v] = @ + 1]
  /\ UNCHANGED <<alert, seen, stale, blurred>>

\* Fault: the row is written again, as a new one.
UpsertUnread(v) ==
  \E a \in todo[v] :
    /\ todo' = [todo EXCEPT ![v] = @ \ {a}]
    /\ seen' = [seen EXCEPT ![v] = @ \cup {a}]
    /\ alert' = [alert EXCEPT ![a] = "unread"]
    /\ UNCHANGED <<scan, stale, blurred>>

\* upsert: get_or_create leaves an existing row alone, whether it has been read or not.
Upsert(v) ==
  \E a \in todo[v] :
    /\ todo' = [todo EXCEPT ![v] = @ \ {a}]
    /\ seen' = [seen EXCEPT ![v] = @ \cup {a}]
    /\ alert' = IF alert[a] = "none" THEN [alert EXCEPT ![a] = "unread"] ELSE alert
    /\ UNCHANGED <<scan, stale, blurred>>

FindStale(v) ==
  /\ scan[v] = ScansOver /\ todo[v] = {}
  /\ stale' = [stale EXCEPT ![v] = Rows \ seen[v]]
  /\ scan' = [scan EXCEPT ![v] = @ + 1]
  /\ UNCHANGED <<alert, todo, seen, blurred>>

\* Rows are deleted by id: a row that has been deleted and made anew is another one.
DeleteStale(v) ==
  /\ scan[v] = ScansOver + 1
  /\ alert' = [a \in Alerts |-> IF a \in stale[v] THEN "none" ELSE alert[a]]
  /\ stale' = [u \in Viewers |-> stale[u] \ stale[v]]
  /\ seen' = [seen EXCEPT ![v] = {}]
  /\ scan' = [scan EXCEPT ![v] = 0]
  /\ UNCHANGED <<todo, blurred>>

\* notification_mark_read; mark_all_read.
MarkRead(a) ==
  /\ alert[a] = "unread"
  /\ alert' = [alert EXCEPT ![a] = "read"]
  /\ UNCHANGED <<scan, todo, seen, stale, blurred>>

MarkAllRead ==
  /\ \E a \in Alerts : alert[a] = "unread"
  /\ alert' = [a \in Alerts |-> IF alert[a] = "unread" THEN "read" ELSE alert[a]]
  /\ UNCHANGED <<scan, todo, seen, stale, blurred>>

Refresh(v) == Look(v) \/ Upsert(v) \/ FindStale(v) \/ DeleteStale(v)

\* For the steps of everybody else: the refreshes a change of conditions has overtaken.
Overtaken ==
  blurred' = blurred \cup {v \in Viewers : Running(v) /\ Live' # Live}

AlertsInit ==
  /\ alert = [a \in Alerts |-> "none"]
  /\ scan = [v \in Viewers |-> 0]
  /\ todo = [v \in Viewers |-> {}]
  /\ seen = [v \in Viewers |-> {}]
  /\ stale = [v \in Viewers |-> {}]
  /\ blurred = {}

AlertsTypeOK ==
  /\ alert \in [Alerts -> {"none", "unread", "read"}]
  /\ scan \in [Viewers -> 0..(ScansOver + 1)]
  /\ todo \in [Viewers -> SUBSET Alerts]
  /\ seen \in [Viewers -> SUBSET Alerts]
  /\ stale \in [Viewers -> SUBSET Alerts]
  /\ \A v \in Viewers : todo[v] \cap seen[v] = {}
  /\ blurred \subseteq Viewers

\* A refresh that no change of conditions has overtaken leaves exactly the alerts that hold,
\* although others refresh at the same time; and an alert that was read is not unread again
\* as long as it is kept.
AlertsCurrent ==
  [][/\ \A v \in Viewers :
          scan[v] = ScansOver + 1 /\ scan'[v] = 0 /\ v \notin blurred => Rows' = Live'
     /\ \A a \in Alerts : alert[a] = "read" => alert'[a] # "unread"]_<<alertVars, shelfVars, accountVars>>

=============================================================================
