------------------------------- MODULE Billing -------------------------------
(***************************************************************************)
(* The billing columns of the tenants (handlers_stripe.go, the Stripe part *)
(* of handleRegister and of handlers_me.go) and the Stripe that reports to *)
(* them.  Stripe is external: it delivers an event at any time after the   *)
(* fact, in any order, again until it is answered and sometimes after.     *)
(* A webhook runs one UPDATE, so that handling an event is one step.       *)
(***************************************************************************)
EXTENDS Naturals, Sequences

CONSTANTS
  Tenants,
  Subs,        \* the subscriptions that can be taken out
  Items,       \* the lists of prices a subscription can have
  MaxEvents    \* bound: how many events Stripe sends

None == "none"
ASSUME BillingAssumption ==
  /\ None \notin Tenants \cup Subs
  /\ Items \subseteq Seq([nickname : STRING, lookupKey : STRING])
  /\ MaxEvents \in Nat

VARIABLES
  pc,             \* each tenant: where its registration is with Stripe
  linked,         \* the tenants with a stripe_customer_id
  subId, plan,    \* tenants.stripe_subscription_id and stripe_plan
  owner, items,   \* Stripe: whose a subscription is, and what it is for
  live,           \* Stripe: the subscriptions that have not ended
  sent,           \* Stripe: the events, in the order in which they happened
  pending,        \* Stripe: those that were not answered with 200 yet
  disturbed       \* history: an event was handled out of turn, or not saved

stripe == <<owner, items, live, sent>>
vars == <<pc, linked, subId, plan, stripe, pending, disturbed>>

\* Deviation: without the fallback for a price that has no name.
extractPlanNoFallback(list) ==
  IF list = <<>> THEN "paid"
  ELSE IF list[1].nickname # "" THEN list[1].nickname ELSE list[1].lookupKey

\* The nickname of the first price, or its lookup key, or "paid".
extractPlan(list) ==
  CASE list # <<>> /\ list[1].nickname # "" -> list[1].nickname
    [] list # <<>> /\ list[1].nickname = "" /\ list[1].lookupKey # "" -> list[1].lookupKey
    [] OTHER -> "paid"

Plan ==
  LET names(list) == UNION {{list[k].nickname, list[k].lookupKey} : k \in DOMAIN list}
  IN  {"free", "paid"} \cup ((UNION {names(list) : list \in Items}) \ {""})

\* A checkout for a single payment has no subscription.
Event ==
  [type : {"completed"}, customer : Tenants, sub : Subs \cup {None}]
    \cup [type : {"updated"}, sub : Subs, items : Items]
    \cup [type : {"deleted"}, sub : Subs]

\* The plan is one that some list of prices gives, and events pending were sent.
TypeOK ==
  /\ pc \in [Tenants -> {"registered", "created", "done"}]
  /\ linked \subseteq Tenants
  /\ subId \in [Tenants -> Subs \cup {None}]
  /\ plan \in [Tenants -> Plan]
  /\ owner \in [Subs -> Tenants \cup {None}]
  /\ items \in [Subs -> Items \cup {<<>>}]
  /\ live \subseteq Subs
  /\ sent \in Seq(Event)
  /\ pending \subseteq 1..Len(sent)
  /\ disturbed \in BOOLEAN

Init ==
  /\ pc = [t \in Tenants |-> "registered"]
  /\ linked = {}
  /\ subId = [t \in Tenants |-> None]
  /\ plan = [t \in Tenants |-> "free"]
  /\ owner = [s \in Subs |-> None]
  /\ items = [s \in Subs |-> <<>>]
  /\ live = {}
  /\ sent = <<>>
  /\ pending = {}
  /\ disturbed = FALSE

-----------------------------------------------------------------------------
(* handleRegister, after its COMMIT.  Stripe's errors and the UPDATE's are *)
(* ignored, and nothing comes back to them.                                *)

CreateCustomer(t) ==
  /\ pc[t] = "registered"
  /\ \E to \in {"created", "done"} : pc' = [pc EXCEPT ![t] = to]
  /\ UNCHANGED <<linked, subId, plan, stripe, pending, disturbed>>

LinkCustomer(t) ==
  /\ pc[t] = "created"
  /\ pc' = [pc EXCEPT ![t] = "done"]
  /\ linked' \in {linked, linked \cup {t}}
  /\ UNCHANGED <<subId, plan, stripe, pending, disturbed>>

-----------------------------------------------------------------------------
(* What the tenant's people see, and what they do at Stripe, where they    *)
(* get to if the tenant is linked.                                         *)

handleGetBilling(t) ==
  [plan |-> plan[t], status |-> IF subId[t] = None THEN "free" ELSE "active"]

handleBillingPortal(t) == t \in linked

Report(events) ==
  /\ Len(sent) + Len(events) <= MaxEvents
  /\ sent' = sent \o events
  /\ pending' = pending \cup (Len(sent) + 1)..(Len(sent) + Len(events))

Subscribe(t, s, list) ==
  /\ handleBillingPortal(t)
  /\ owner[s] = None
  /\ \A r \in live : owner[r] # t
  /\ owner' = [owner EXCEPT ![s] = t]
  /\ items' = [items EXCEPT ![s] = list]
  /\ live' = live \cup {s}
  /\ Report(<<[type |-> "completed", customer |-> t, sub |-> s],
              [type |-> "updated", sub |-> s, items |-> list]>>)
  /\ UNCHANGED <<pc, linked, subId, plan, disturbed>>

Pay(t) ==
  /\ handleBillingPortal(t)
  /\ Report(<<[type |-> "completed", customer |-> t, sub |-> None]>>)
  /\ UNCHANGED <<pc, linked, subId, plan, owner, items, live, disturbed>>

ChangePlan(s, list) ==
  /\ s \in live
  /\ items' = [items EXCEPT ![s] = list]
  /\ Report(<<[type |-> "updated", sub |-> s, items |-> list]>>)
  /\ UNCHANGED <<pc, linked, subId, plan, owner, live, disturbed>>

Cancel(s) ==
  /\ s \in live
  /\ live' = live \ {s}
  /\ Report(<<[type |-> "deleted", sub |-> s]>>)
  /\ UNCHANGED <<pc, linked, subId, plan, owner, items, disturbed>>

-----------------------------------------------------------------------------
(* handleStripeWebhook.                                                    *)

\* Deviation: whether the checkout is for a subscription is not looked at.
CompletedAny(e) ==
  /\ e.type = "completed"
  /\ subId' = [t \in Tenants |-> IF t \in linked /\ t = e.customer THEN e.sub ELSE subId[t]]
  /\ UNCHANGED plan

Completed(e) ==
  /\ e.type = "completed"
  /\ subId' = [t \in Tenants |->
       IF e.sub # None /\ t \in linked /\ t = e.customer THEN e.sub ELSE subId[t]]
  /\ UNCHANGED plan

\* Deviation: so that an update that comes before its checkout is not lost.
UpdatedEarly(e) ==
  /\ e.type = "updated"
  /\ plan' = [t \in Tenants |->
       IF subId[t] \in {e.sub, None} THEN extractPlan(e.items) ELSE plan[t]]
  /\ UNCHANGED subId

Updated(e) ==
  /\ e.type = "updated"
  /\ plan' = [t \in Tenants |->
       IF subId[t] = e.sub THEN extractPlan(e.items) ELSE plan[t]]
  /\ UNCHANGED subId

\* Deviation: the plan is left as it was.
DeletedInPart(e) ==
  /\ e.type = "deleted"
  /\ subId' = [t \in Tenants |-> IF subId[t] = e.sub THEN None ELSE subId[t]]
  /\ UNCHANGED plan

Deleted(e) ==
  /\ e.type = "deleted"
  /\ subId' = [t \in Tenants |-> IF subId[t] = e.sub THEN None ELSE subId[t]]
  /\ plan' = [t \in Tenants |-> IF subId[t] = e.sub THEN "free" ELSE plan[t]]

Save(i) == Completed(sent[i]) \/ Updated(sent[i]) \/ Deleted(sent[i])

\* It is the turn of an event when it is the oldest that was not answered yet.
InTurn(i) == i \in pending /\ \A j \in pending : i <= j

\* The answer may be lost: the event stays pending.
Handle(i) ==
  /\ i \in DOMAIN sent
  /\ Save(i)
  /\ disturbed' = (disturbed \/ ~InTurn(i))
  /\ pending' \in {pending, pending \ {i}}
  /\ UNCHANGED <<pc, linked, stripe>>

\* The UPDATE fails: the answer is 200 nevertheless.
HandleUnsaved(i) ==
  /\ i \in DOMAIN sent
  /\ pending' = pending \ {i}
  /\ disturbed' = TRUE
  /\ UNCHANGED <<pc, linked, subId, plan, stripe>>

-----------------------------------------------------------------------------

AtStripe ==
  \/ \E t \in Tenants, s \in Subs, list \in Items : Subscribe(t, s, list)
  \/ \E t \in Tenants : Pay(t)
  \/ \E s \in Subs, list \in Items : ChangePlan(s, list)
  \/ \E s \in Subs : Cancel(s)

Register == \E t \in Tenants : CreateCustomer(t) \/ LinkCustomer(t)

Next ==
  \/ Register
  \/ AtStripe
  \/ \E i \in 1..MaxEvents : Handle(i) \/ HandleUnsaved(i)

Spec == Init /\ [][Next]_vars

-----------------------------------------------------------------------------
(* Properties.                                                             *)

\* handleGetBilling never shows a paid plan as "free" in its status: whatever
\* becomes of the events, a tenant with a plan has a subscription.
PlanNeedsSubscription ==
  \A t \in Tenants : handleGetBilling(t).status = "free" => handleGetBilling(t).plan = "free"

\* A tenant's columns come from its own subscriptions only: the id is that of one,
\* and the plan was at some time that of one.
BillingIsOwn ==
  \A t \in Tenants :
    /\ subId[t] # None => owner[subId[t]] = t
    /\ plan[t] # "free" =>
         \E i \in DOMAIN sent :
           /\ sent[i].type = "updated"
           /\ owner[sent[i].sub] = t
           /\ extractPlan(sent[i].items) = plan[t]

\* What a tenant has at Stripe.
PlanAtStripe(t) ==
  IF \E s \in live : owner[s] = t
  THEN extractPlan(items[CHOOSE s \in live : owner[s] = t])
  ELSE "free"

Tracked ==
  pending = {} => \A t \in Tenants :
    /\ plan[t] = PlanAtStripe(t)
    /\ (subId[t] # None) = (\E s \in live : owner[s] = t)

\* README.md:26 "per-tenant plan tracking": a tenant with no event pending has the plan
\* it has at Stripe, and a subscription id just when it has a subscription.
PlanIsTracked == Tracked

\* The same as far as the handler carries it: while every event is handled in its turn
\* and its UPDATE saved, lost answers and repeated deliveries notwithstanding.
PlanIsTrackedUnlessDisturbed == disturbed \/ Tracked

-----------------------------------------------------------------------------
(* The inductive invariant behind the first two.                           *)

\* What an event says of its subscription is so: an owner never changes.
EventsAreOwned ==
  \A i \in DOMAIN sent :
    /\ sent[i].type = "completed" /\ sent[i].sub # None => owner[sent[i].sub] = sent[i].customer
    /\ sent[i].type = "updated" => owner[sent[i].sub] # None

LiveIsOwned == \A s \in live : owner[s] # None

BInv == TypeOK /\ PlanNeedsSubscription /\ BillingIsOwn /\ EventsAreOwned /\ LiveIsOwned

-----------------------------------------------------------------------------
(* What is added for the third: what the events are, and what they say of  *)
(* the columns while they are handled in turn.                             *)

Opening(i, s) == sent[i].type = "completed" /\ sent[i].sub = s
Update(i, s) == sent[i].type = "updated" /\ sent[i].sub = s
Ending(i, s) == sent[i].type = "deleted" /\ sent[i].sub = s

\* A subscription is reported once, by a tenant that is linked, and before all else.
OpenedOnceAndFirst ==
  \A s \in Subs, i, j \in DOMAIN sent :
    /\ Opening(i, s) => sent[i].customer \in linked
    /\ Opening(i, s) /\ Opening(j, s) => i = j
    /\ Opening(i, s) /\ (Update(j, s) \/ Ending(j, s)) => i < j

NothingUnopened ==
  \A s \in Subs, j \in DOMAIN sent :
    Update(j, s) \/ Ending(j, s) => \E i \in DOMAIN sent : Opening(i, s)

\* A tenant takes out its next subscription when the one before has ended.
OneAfterAnother ==
  \A r, s \in Subs, i, j \in DOMAIN sent :
    Opening(i, r) /\ Opening(j, s) /\ owner[r] = owner[s] /\ i < j
      => \E m \in DOMAIN sent : m < j /\ Ending(m, r)

\* Among the first k events: the subscriptions that began and did not end, and the
\* last event that says what one of them is for.
Current(s, k) == (\E i \in 1..k : Opening(i, s)) /\ ~\E i \in 1..k : Ending(i, s)
LastUpdate(s, k, i) ==
  /\ i \in 1..k /\ Update(i, s)
  /\ \A j \in 1..k : Update(j, s) => j <= i

\* All events together tell what Stripe knows.
AllIsReported ==
  /\ \A s \in Subs : s \in live <=> Current(s, Len(sent))
  /\ \A s \in live : \E i \in DOMAIN sent : LastUpdate(s, Len(sent), i) /\ sent[i].items = items[s]

\* The columns are those that the first k events lead to.
Follows(k) ==
  \A t \in Tenants, s \in Subs :
    /\ subId[t] = s <=> owner[s] = t /\ Current(s, k)
    /\ \A i \in 1..k : subId[t] = s /\ LastUpdate(s, k, i) => plan[t] = extractPlan(sent[i].items)

\* The first h events are answered, and the next has been handled or not.
HandledInTurn ==
  \E h \in 0..Len(sent) :
    /\ pending = (h + 1)..Len(sent)
    /\ \E k \in {h, h + 1} : k <= Len(sent) /\ Follows(k)

EventsTell == OpenedOnceAndFirst /\ NothingUnopened /\ OneAfterAnother /\ AllIsReported

PInv == BInv /\ EventsTell /\ (disturbed \/ HandledInTurn)

=============================================================================
