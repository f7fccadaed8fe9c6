----------------------------- MODULE TenantStores -----------------------------
(***************************************************************************)
(* What the API promises its tenants: each has a store of projects and an  *)
(* audit log of its own, as if there were no other tenant and no shared    *)
(* table, pool or connection.  A request belongs to one tenant from the    *)
(* start, and works in that tenant's store and log and nowhere else.       *)
(***************************************************************************)
CONSTANTS Tenants, Projects, Requests, Nobody

VARIABLES
  home,     \* the tenant of each request, Nobody before it has come
  store,    \* the projects of each tenant
  gone,     \* the projects that have been deleted
  writer,   \* whose work each project is, last
  log,      \* the requests that each tenant's log names
  seen      \* the tenants whose rows each request has been shown

vars == <<home, store, gone, writer, log, seen>>

Init ==
  /\ home = [r \in Requests |-> Nobody]
  /\ store = [t \in Tenants |-> {}]
  /\ gone = {}
  /\ writer = [p \in Projects |-> Nobody]
  /\ log = [t \in Tenants |-> {}]
  /\ seen = [r \in Requests |-> {}]

Come(r, t) ==
  /\ home[r] = Nobody
  /\ home' = [home EXCEPT ![r] = t]
  /\ UNCHANGED <<store, gone, writer, log, seen>>

\* No id is used twice, in one tenant or two.
Create(r, t, p) ==
  /\ home[r] = t
  /\ p \notin gone /\ \A u \in Tenants : p \notin store[u]
  /\ store' = [store EXCEPT ![t] = @ \cup {p}]
  /\ writer' = [writer EXCEPT ![p] = r]
  /\ UNCHANGED <<home, gone, log, seen>>

Update(r, t, p) ==
  /\ home[r] = t
  /\ p \in store[t]
  /\ writer' = [writer EXCEPT ![p] = r]
  /\ UNCHANGED <<home, store, gone, log, seen>>

Delete(r, t, p) ==
  /\ home[r] = t
  /\ p \in store[t]
  /\ store' = [store EXCEPT ![t] = @ \ {p}]
  /\ gone' = gone \cup {p}
  /\ UNCHANGED <<home, writer, log, seen>>

Note(r, t) ==
  /\ home[r] = t
  /\ log' = [log EXCEPT ![t] = @ \cup {r}]
  /\ UNCHANGED <<home, store, gone, writer, seen>>

Read(r, t) ==
  /\ home[r] = t
  /\ store[t] # {} \/ log[t] # {}
  /\ seen' = [seen EXCEPT ![r] = {t}]
  /\ UNCHANGED <<home, store, gone, writer, log>>

Next ==
  \E r \in Requests, t \in Tenants :
    \/ Come(r, t) \/ Note(r, t) \/ Read(r, t)
    \/ \E p \in Projects : Create(r, t, p) \/ Update(r, t, p) \/ Delete(r, t, p)

Spec == Init /\ [][Next]_vars
===============================================================================
