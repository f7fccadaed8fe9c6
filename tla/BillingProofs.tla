---------------------------- MODULE BillingProofs -----------------------------
(***************************************************************************)
(* Theorems about Billing for every set of tenants, subscriptions and      *)
(* price lists, and for any number of events, handled in any order, any    *)
(* number of times or not at all.                                          *)
(***************************************************************************)
EXTENDS Billing, TLAPS

LEMMA Apart == None \notin Tenants /\ None \notin Subs
BY BillingAssumption

\* An event, field by field.
LEMMA EventFields ==
  ASSUME NEW e \in Event
  PROVE  /\ e.type \in {"completed", "updated", "deleted"}
         /\ e.type = "completed" => e.customer \in Tenants /\ e.sub \in Subs \cup {None}
         /\ e.type = "updated" => e.sub \in Subs /\ e.items \in Items
         /\ e.type = "deleted" => e.sub \in Subs
BY DEF Event

\* extractPlan gives one of the names of a list, or "paid".
LEMMA PlanOfList ==
  ASSUME NEW list \in Items
  PROVE  extractPlan(list) \in Plan
<1> DEFINE names == UNION {{list[k].nickname, list[k].lookupKey} : k \in DOMAIN list}
<1>1. list \in Seq([nickname : STRING, lookupKey : STRING])
  BY BillingAssumption
<1>2. names \ {""} \subseteq Plan /\ "paid" \in Plan
  <2>1. names \in {UNION {{l[k].nickname, l[k].lookupKey} : k \in DOMAIN l} : l \in Items}
    OBVIOUS
  <2> HIDE DEF names
  <2> QED BY <2>1 DEF Plan
<1>3. \/ extractPlan(list) = "paid"
      \/ /\ list # <<>> /\ extractPlan(list) # ""
         /\ extractPlan(list) \in {list[1].nickname, list[1].lookupKey}
  BY DEF extractPlan
<1>4. list # <<>> => {list[1].nickname, list[1].lookupKey} \subseteq names
  <2>1. list # <<>> => 1 \in DOMAIN list
    BY <1>1
  <2> QED BY <2>1
<1> HIDE DEF names
<1> QED BY <1>2, <1>3, <1>4

-----------------------------------------------------------------------------
(* What Stripe does.                                                       *)

\* New events come after the old ones.
LEMMA Reported ==
  ASSUME TypeOK, NEW events \in Seq(Event), Report(events)
  PROVE  /\ sent' \in Seq(Event)
         /\ pending' \subseteq 1..Len(sent')
         /\ DOMAIN sent \subseteq DOMAIN sent'
         /\ \A i \in DOMAIN sent : sent'[i] = sent[i]
         /\ \A i \in (DOMAIN sent') \ (DOMAIN sent) : \E k \in DOMAIN events : sent'[i] = events[k]
<1>1. /\ sent \in Seq(Event) /\ pending \subseteq 1..Len(sent)
      /\ sent' = sent \o events
      /\ pending' = pending \cup (Len(sent) + 1)..(Len(sent) + Len(events))
  BY DEF TypeOK, Report
<1>2. sent' \in Seq(Event) /\ Len(sent') = Len(sent) + Len(events)
  BY <1>1
<1>3. \A i \in 1..Len(sent') :
        sent'[i] = IF i <= Len(sent) THEN sent[i] ELSE events[i - Len(sent)]
  BY <1>1, <1>2
<1>4. /\ Len(sent) \in Nat /\ Len(events) \in Nat
      /\ DOMAIN sent = 1..Len(sent) /\ DOMAIN events = 1..Len(events)
      /\ DOMAIN sent' = 1..Len(sent')
  BY <1>1, <1>2
<1>5. \A i \in (DOMAIN sent') \ (DOMAIN sent) :
        i - Len(sent) \in DOMAIN events /\ sent'[i] = events[i - Len(sent)]
  BY <1>2, <1>3, <1>4
<1>6. \A i \in DOMAIN sent : i \in DOMAIN sent' /\ sent'[i] = sent[i]
  BY <1>2, <1>3, <1>4
<1>7. pending' \subseteq 1..Len(sent')
  <2> SUFFICES ASSUME NEW i \in pending' PROVE i \in 1..Len(sent')
    OBVIOUS
  <2>1. i \in 1..Len(sent) \/ i \in (Len(sent) + 1)..(Len(sent) + Len(events))
    BY <1>1
  <2> QED BY <1>2, <1>4, <2>1
<1> QED BY <1>2, <1>5, <1>6, <1>7

\* A step of Stripe's that reports events and at most gives a new subscription its owner.
LEMMA ReportKeeps ==
  ASSUME BInv, TypeOK', LiveIsOwned', NEW events \in Seq(Event), Report(events),
         UNCHANGED <<linked, subId, plan>>,
         \A s \in Subs : owner[s] # None => owner'[s] = owner[s],
         \A k \in DOMAIN events :
           /\ events[k].type = "completed" /\ events[k].sub # None
                => owner'[events[k].sub] = events[k].customer
           /\ events[k].type = "updated" => owner'[events[k].sub] # None
  PROVE  BInv'
<1>1. /\ DOMAIN sent \subseteq DOMAIN sent'
      /\ \A i \in DOMAIN sent : sent'[i] = sent[i]
      /\ \A i \in (DOMAIN sent') \ (DOMAIN sent) : \E k \in DOMAIN events : sent'[i] = events[k]
  BY Reported DEF BInv
<1>2. \A i \in DOMAIN sent : sent[i] \in Event
  BY DEF BInv, TypeOK
<1>3. EventsAreOwned'
  <2> SUFFICES ASSUME NEW i \in DOMAIN sent'
               PROVE  /\ sent'[i].type = "completed" /\ sent'[i].sub # None
                           => owner'[sent'[i].sub] = sent'[i].customer
                      /\ sent'[i].type = "updated" => owner'[sent'[i].sub] # None
    BY DEF EventsAreOwned
  <2>1. CASE i \in DOMAIN sent
    BY <1>1, <1>2, <2>1, EventFields, Apart DEF BInv, EventsAreOwned
  <2>2. CASE i \notin DOMAIN sent
    BY <1>1, <2>2
  <2> QED BY <2>1, <2>2
<1>4. PlanNeedsSubscription'
  BY DEF BInv, PlanNeedsSubscription, handleGetBilling
<1>5. BillingIsOwn'
  <2> SUFFICES ASSUME NEW t \in Tenants
               PROVE  /\ subId[t] # None => owner'[subId[t]] = t
                      /\ plan[t] # "free" =>
                           \E i \in DOMAIN sent' :
                             /\ sent'[i].type = "updated"
                             /\ owner'[sent'[i].sub] = t
                             /\ extractPlan(sent'[i].items) = plan[t]
    BY DEF BillingIsOwn
  <2>1. subId[t] # None => owner'[subId[t]] = t
    BY Apart DEF BInv, BillingIsOwn, TypeOK
  <2>2. ASSUME plan[t] # "free"
        PROVE  \E i \in DOMAIN sent' : /\ sent'[i].type = "updated"
                                       /\ owner'[sent'[i].sub] = t
                                       /\ extractPlan(sent'[i].items) = plan[t]
    <3>1. PICK i \in DOMAIN sent : /\ sent[i].type = "updated"
                                   /\ owner[sent[i].sub] = t
                                   /\ extractPlan(sent[i].items) = plan[t]
      BY <2>2 DEF BInv, BillingIsOwn
    <3>2. owner'[sent[i].sub] = t
      BY <1>2, <3>1, EventFields, Apart
    <3> QED BY <1>1, <3>1, <3>2
  <2> QED BY <2>1, <2>2
<1> QED BY <1>3, <1>4, <1>5 DEF BInv

LEMMA OneEvent == \A e \in Event : <<e>> \in Seq(Event) /\ DOMAIN <<e>> = {1} /\ <<e>>[1] = e
OBVIOUS

LEMMA SubscribeKeeps ==
  ASSUME BInv, NEW t \in Tenants, NEW s \in Subs, NEW list \in Items, Subscribe(t, s, list)
  PROVE  BInv'
<1> DEFINE e == [type |-> "completed", customer |-> t, sub |-> s]
           f == [type |-> "updated", sub |-> s, items |-> list]
<1>1. e \in Event /\ f \in Event
  BY DEF Event
<1>2. /\ <<e, f>> \in Seq(Event) /\ DOMAIN <<e, f>> = {1, 2}
      /\ <<e, f>>[1] = e /\ <<e, f>>[2] = f
  BY <1>1
<1>3. /\ Report(<<e, f>>) /\ owner[s] = None
      /\ owner' = [owner EXCEPT ![s] = t] /\ items' = [items EXCEPT ![s] = list]
      /\ live' = live \cup {s}
      /\ UNCHANGED <<pc, linked, subId, plan, disturbed>>
  BY DEF Subscribe
<1>4. /\ e.type = "completed" /\ e.sub = s /\ e.customer = t
      /\ f.type = "updated" /\ f.sub = s
  OBVIOUS
<1> HIDE DEF e, f
<1>5. TypeOK'
  <2>1. sent' \in Seq(Event) /\ pending' \subseteq 1..Len(sent')
    BY <1>2, <1>3, Reported DEF BInv
  <2> QED BY <1>3, <2>1 DEF BInv, TypeOK
<1>6. owner'[s] = t /\ \A r \in Subs : owner[r] # None => owner'[r] = owner[r]
  BY <1>3 DEF BInv, TypeOK
<1>7. LiveIsOwned'
  BY <1>3, <1>6, Apart DEF BInv, TypeOK, LiveIsOwned
<1>8. \A k \in DOMAIN <<e, f>> :
        /\ <<e, f>>[k].type = "completed" /\ <<e, f>>[k].sub # None
             => owner'[<<e, f>>[k].sub] = <<e, f>>[k].customer
        /\ <<e, f>>[k].type = "updated" => owner'[<<e, f>>[k].sub] # None
  BY <1>2, <1>4, <1>6, Apart
<1> QED BY <1>2, <1>3, <1>5, <1>6, <1>7, <1>8, ReportKeeps

LEMMA PayKeeps ==
  ASSUME BInv, NEW t \in Tenants, Pay(t)
  PROVE  BInv'
<1> DEFINE e == [type |-> "completed", customer |-> t, sub |-> None]
<1>1. e \in Event /\ e.type = "completed" /\ e.sub = None
  BY DEF Event
<1>2. Report(<<e>>) /\ UNCHANGED <<pc, linked, subId, plan, owner, items, live, disturbed>>
  BY DEF Pay
<1> HIDE DEF e
<1>3. TypeOK'
  <2>1. sent' \in Seq(Event) /\ pending' \subseteq 1..Len(sent')
    BY <1>1, <1>2, OneEvent, Reported DEF BInv
  <2> QED BY <1>2, <2>1 DEF BInv, TypeOK
<1>4. LiveIsOwned'
  BY <1>2 DEF BInv, LiveIsOwned
<1> QED BY <1>1, <1>2, <1>3, <1>4, OneEvent, ReportKeeps

LEMMA ChangePlanKeeps ==
  ASSUME BInv, NEW s \in Subs, NEW list \in Items, ChangePlan(s, list)
  PROVE  BInv'
<1> DEFINE e == [type |-> "updated", sub |-> s, items |-> list]
<1>1. e \in Event /\ e.type = "updated" /\ e.sub = s
  BY DEF Event
<1>2. /\ Report(<<e>>) /\ s \in live /\ items' = [items EXCEPT ![s] = list]
      /\ UNCHANGED <<pc, linked, subId, plan, owner, live, disturbed>>
  BY DEF ChangePlan
<1> HIDE DEF e
<1>3. TypeOK'
  <2>1. sent' \in Seq(Event) /\ pending' \subseteq 1..Len(sent')
    BY <1>1, <1>2, OneEvent, Reported DEF BInv
  <2> QED BY <1>2, <2>1 DEF BInv, TypeOK
<1>4. LiveIsOwned'
  BY <1>2 DEF BInv, LiveIsOwned
<1>5. \A k \in DOMAIN <<e>> : <<e>>[k] = e
  BY <1>1, OneEvent
<1>6. owner'[s] # None
  BY <1>2 DEF BInv, LiveIsOwned
<1> QED BY <1>1, <1>2, <1>3, <1>4, <1>5, <1>6, OneEvent, ReportKeeps

LEMMA CancelKeeps ==
  ASSUME BInv, NEW s \in Subs, Cancel(s)
  PROVE  BInv'
<1> DEFINE e == [type |-> "deleted", sub |-> s]
<1>1. e \in Event /\ e.type = "deleted"
  BY DEF Event
<1>2. /\ Report(<<e>>) /\ live' = live \ {s}
      /\ UNCHANGED <<pc, linked, subId, plan, owner, items, disturbed>>
  BY DEF Cancel
<1> HIDE DEF e
<1>3. TypeOK'
  <2>1. sent' \in Seq(Event) /\ pending' \subseteq 1..Len(sent')
    BY <1>1, <1>2, OneEvent, Reported DEF BInv
  <2> QED BY <1>2, <2>1 DEF BInv, TypeOK
<1>4. LiveIsOwned'
  BY <1>2 DEF BInv, LiveIsOwned
<1> QED BY <1>1, <1>2, <1>3, <1>4, OneEvent, ReportKeeps

-----------------------------------------------------------------------------
(* What the webhook does.                                                  *)

\* Every UPDATE is of a tenant's columns and comes from an event that is the tenant's.
LEMMA SaveKeeps ==
  ASSUME BInv, NEW i \in DOMAIN sent, Save(i),
         UNCHANGED <<pc, linked, stripe>>, pending' \subseteq pending, disturbed' \in BOOLEAN
  PROVE  BInv'
<1> DEFINE e == sent[i]
<1>1. /\ e \in Event
      /\ e.type = "completed" /\ e.sub # None => owner[e.sub] = e.customer
      /\ e.type = "updated" => owner[e.sub] # None
  BY DEF BInv, TypeOK, EventsAreOwned
<1>2. UNCHANGED <<owner, items, live, sent>>
  BY DEF stripe
<1>3. EventsAreOwned' /\ LiveIsOwned'
  BY <1>2 DEF BInv, EventsAreOwned, LiveIsOwned
<1> HIDE DEF e
<1>4. CASE Completed(e)
  <2>1. /\ e.type = "completed" /\ plan' = plan
        /\ subId' = [t \in Tenants |->
              IF e.sub # None /\ t \in linked /\ t = e.customer THEN e.sub ELSE subId[t]]
    BY <1>4 DEF Completed
  <2>2. TypeOK'
    BY <1>1, <1>2, <2>1, EventFields DEF BInv, TypeOK
  <2>3. PlanNeedsSubscription'
    BY <2>1 DEF BInv, PlanNeedsSubscription, handleGetBilling
  <2>4. BillingIsOwn'
    BY <1>1, <1>2, <2>1 DEF BInv, BillingIsOwn
  <2> QED BY <1>3, <2>2, <2>3, <2>4 DEF BInv
<1>5. CASE Updated(e)
  <2>1. /\ e.type = "updated" /\ subId' = subId
        /\ plan' = [t \in Tenants |-> IF subId[t] = e.sub THEN extractPlan(e.items) ELSE plan[t]]
        /\ e.sub \in Subs /\ e.items \in Items
    BY <1>1, <1>5, EventFields DEF Updated
  <2>2. TypeOK'
    BY <1>2, <2>1, PlanOfList DEF BInv, TypeOK
  <2>3. PlanNeedsSubscription'
    BY <2>1, Apart DEF BInv, PlanNeedsSubscription, handleGetBilling
  <2>4. BillingIsOwn'
    <3> SUFFICES ASSUME NEW t \in Tenants, plan'[t] # "free"
                 PROVE  \E j \in DOMAIN sent : /\ sent[j].type = "updated"
                                               /\ owner[sent[j].sub] = t
                                               /\ extractPlan(sent[j].items) = plan'[t]
      BY <1>2, <2>1 DEF BInv, BillingIsOwn
    <3>1. CASE subId[t] = e.sub
      <4>1. owner[e.sub] = t /\ plan'[t] = extractPlan(e.items)
        BY <2>1, <3>1, Apart DEF BInv, BillingIsOwn
      <4> QED BY <2>1, <4>1 DEF e
    <3>2. CASE subId[t] # e.sub
      BY <2>1, <3>2 DEF BInv, BillingIsOwn
    <3> QED BY <3>1, <3>2
  <2> QED BY <1>3, <2>2, <2>3, <2>4 DEF BInv
<1>6. CASE Deleted(e)
  <2>1. /\ subId' = [t \in Tenants |-> IF subId[t] = e.sub THEN None ELSE subId[t]]
        /\ plan' = [t \in Tenants |-> IF subId[t] = e.sub THEN "free" ELSE plan[t]]
    BY <1>6 DEF Deleted
  <2>2. TypeOK'
    BY <1>2, <2>1 DEF BInv, TypeOK, Plan
  <2>3. PlanNeedsSubscription'
    BY <2>1 DEF BInv, PlanNeedsSubscription, handleGetBilling
  <2>4. BillingIsOwn'
    BY <1>2, <2>1 DEF BInv, BillingIsOwn
  <2> QED BY <1>3, <2>2, <2>3, <2>4 DEF BInv
<1> QED BY <1>4, <1>5, <1>6 DEF Save, e

-----------------------------------------------------------------------------

LEMMA InvariantAtFirst == Init => BInv
<1> SUFFICES ASSUME Init PROVE BInv
  OBVIOUS
<1>1. TypeOK
  <2>1. "free" \in Plan
    BY DEF Plan
  <2>2. sent \in Seq(Event) /\ pending \subseteq 1..Len(sent)
    BY DEF Init
  <2> QED BY <2>1, <2>2 DEF Init, TypeOK
<1>2. DOMAIN sent = {} /\ live = {}
  BY DEF Init
<1>3. PlanNeedsSubscription /\ BillingIsOwn
  BY DEF Init, PlanNeedsSubscription, BillingIsOwn, handleGetBilling
<1> QED BY <1>1, <1>2, <1>3 DEF BInv, EventsAreOwned, LiveIsOwned

\* What leaves the columns, the owners and the events as they are keeps all but the type.
LEMMA StillKept ==
  ASSUME BInv, TypeOK', UNCHANGED <<subId, plan, owner, live, sent>>
  PROVE  BInv'
BY DEF BInv, PlanNeedsSubscription, BillingIsOwn, EventsAreOwned, LiveIsOwned, handleGetBilling

LEMMA InvariantKept == BInv /\ [Next]_vars => BInv'
<1> SUFFICES ASSUME BInv, [Next]_vars PROVE BInv'
  OBVIOUS
<1>1. CASE Register
  <2>1. PICK t \in Tenants : CreateCustomer(t) \/ LinkCustomer(t)
    BY <1>1 DEF Register
  <2>2. UNCHANGED <<subId, plan, owner, items, live, sent, pending, disturbed>>
    BY <2>1 DEF CreateCustomer, LinkCustomer, stripe
  <2>3. /\ pc' \in [Tenants -> {"registered", "created", "done"}]
        /\ linked' \subseteq Tenants
    BY <2>1 DEF CreateCustomer, LinkCustomer, BInv, TypeOK
  <2>4. TypeOK'
    BY <2>2, <2>3 DEF BInv, TypeOK
  <2> QED BY <2>2, <2>4, StillKept
<1>2. CASE AtStripe
  BY <1>2, SubscribeKeeps, PayKeeps, ChangePlanKeeps, CancelKeeps DEF AtStripe
<1>3. ASSUME NEW i \in 1..MaxEvents, Handle(i) PROVE BInv'
  <2>1. /\ i \in DOMAIN sent /\ Save(i)
        /\ UNCHANGED <<pc, linked, stripe>>
        /\ pending' \subseteq pending /\ disturbed' \in BOOLEAN
    BY <1>3 DEF Handle, BInv, TypeOK
  <2> QED BY <2>1, SaveKeeps
<1>4. ASSUME NEW i \in 1..MaxEvents, HandleUnsaved(i) PROVE BInv'
  <2>1. /\ pending' \subseteq pending /\ disturbed' \in BOOLEAN
        /\ UNCHANGED <<pc, linked, subId, plan, owner, items, live, sent>>
    BY <1>4 DEF HandleUnsaved, stripe
  <2>2. TypeOK'
    BY <2>1 DEF BInv, TypeOK
  <2> QED BY <2>1, <2>2, StillKept
<1>5. CASE UNCHANGED vars
  <2>1. TypeOK' /\ UNCHANGED <<subId, plan, owner, live, sent>>
    BY <1>5 DEF vars, stripe, BInv, TypeOK
  <2> QED BY <2>1, StillKept
<1> QED BY <1>1, <1>2, <1>3, <1>4, <1>5 DEF Next

\* The columns of the tenants and what Stripe sent stay consistent, in whatever order,
\* and however often, the events are handled.
THEOREM Inductive == Spec => []BInv
BY InvariantAtFirst, InvariantKept, PTL DEF Spec

\* Every variable stays in its range; the plan is "free" or one that a price list names.
THEOREM TypesHold == Spec => []TypeOK
<1>1. BInv => TypeOK
  BY DEF BInv
<1> QED BY <1>1, Inductive, PTL

\* handleGetBilling never shows a plan under the status "free": the handler for a
\* deleted subscription takes the plan with the id, and that for an update finds no
\* tenant without an id.
THEOREM PaidPlans == Spec => []PlanNeedsSubscription
<1>1. BInv => PlanNeedsSubscription
  BY DEF BInv
<1> QED BY <1>1, Inductive, PTL

\* A tenant's id and plan come from its own subscriptions, although the handlers find
\* the tenant of an event by the id alone.
THEOREM OwnBilling == Spec => []BillingIsOwn
<1>1. BInv => BillingIsOwn
  BY DEF BInv
<1> QED BY <1>1, Inductive, PTL

-----------------------------------------------------------------------------
(* Events handled in turn.                                                 *)

\* An event that was there before is there as it was, and has the type it had.
LEMMA Longer ==
  ASSUME TypeOK, NEW events \in Seq(Event), Report(events)
  PROVE  /\ Len(sent) \in Nat /\ Len(events) \in Nat
         /\ Len(sent') = Len(sent) + Len(events)
         /\ DOMAIN sent = 1..Len(sent) /\ DOMAIN sent' = 1..Len(sent')
         /\ \A i \in 1..Len(sent) : sent'[i] = sent[i]
         /\ \A k \in 1..Len(events) : sent'[Len(sent) + k] = events[k]
         /\ pending' = pending \cup (Len(sent) + 1)..Len(sent')
<1>1. /\ sent \in Seq(Event)
      /\ sent' = sent \o events
      /\ pending' = pending \cup (Len(sent) + 1)..(Len(sent) + Len(events))
  BY DEF TypeOK, Report
<1> QED BY <1>1

\* Among the events so far nothing changes when others follow them.
LEMMA SameBefore ==
  ASSUME NEW k \in Nat, \A i \in 1..k : sent'[i] = sent[i], NEW s \in Subs
  PROVE  /\ \A i \in 1..k : /\ Opening(i, s)' <=> Opening(i, s)
                            /\ Update(i, s)' <=> Update(i, s)
                            /\ Ending(i, s)' <=> Ending(i, s)
         /\ Current(s, k)' <=> Current(s, k)
         /\ \A i : LastUpdate(s, k, i)' <=> LastUpdate(s, k, i)
<1>1. \A i \in 1..k : /\ Opening(i, s)' <=> Opening(i, s)
                      /\ Update(i, s)' <=> Update(i, s)
                      /\ Ending(i, s)' <=> Ending(i, s)
  BY DEF Opening, Update, Ending
<1>2. Current(s, k)' <=> Current(s, k)
  BY <1>1 DEF Current
<1>3. \A i : LastUpdate(s, k, i)' <=> LastUpdate(s, k, i)
  BY <1>1 DEF LastUpdate
<1> QED BY <1>1, <1>2, <1>3

\* A subscription without an owner has not been reported.
LEMMA UnownedIsNew ==
  ASSUME BInv, NothingUnopened, NEW s \in Subs, owner[s] = None
  PROVE  \A i \in DOMAIN sent : ~Opening(i, s) /\ ~Update(i, s) /\ ~Ending(i, s)
<1>1. \A i \in DOMAIN sent : ~Opening(i, s)
  <2> SUFFICES ASSUME NEW i \in DOMAIN sent, Opening(i, s) PROVE FALSE
    OBVIOUS
  <2>1. sent[i] \in Event
    BY DEF BInv, TypeOK
  <2>2. sent[i].type = "completed" /\ sent[i].sub = s
    BY DEF Opening
  <2>3. owner[s] = sent[i].customer
    BY <2>2, Apart DEF BInv, EventsAreOwned
  <2> QED BY <2>1, <2>2, <2>3, EventFields, Apart
<1> QED BY <1>1 DEF NothingUnopened

\* New events change nothing about those that were handled.
LEMMA FollowsStays ==
  ASSUME BInv, NothingUnopened, NEW k \in 0..Len(sent), Follows(k),
         \A i \in 1..Len(sent) : sent'[i] = sent[i],
         UNCHANGED <<subId, plan>>,
         \A s \in Subs : owner[s] # None => owner'[s] = owner[s]
  PROVE  Follows(k)'
<1>1. Len(sent) \in Nat /\ DOMAIN sent = 1..Len(sent)
  BY DEF BInv, TypeOK
<1>2. k \in Nat /\ 1..k \subseteq 1..Len(sent) /\ \A i \in 1..k : sent'[i] = sent[i]
  BY <1>1
<1> SUFFICES ASSUME NEW t \in Tenants, NEW s \in Subs
             PROVE  /\ subId'[t] = s <=> owner'[s] = t /\ Current(s, k)'
                    /\ \A i \in 1..k : subId'[t] = s /\ LastUpdate(s, k, i)'
                         => plan'[t] = extractPlan(sent'[i].items)
  BY DEF Follows
<1>3. /\ Current(s, k)' <=> Current(s, k)
      /\ \A i : LastUpdate(s, k, i)' <=> LastUpdate(s, k, i)
  BY <1>2, SameBefore
<1>4. owner[s] = None => ~Current(s, k)
  BY <1>1, <1>2, UnownedIsNew DEF Current
<1>5. /\ subId[t] = s <=> owner[s] = t /\ Current(s, k)
      /\ \A i \in 1..k : subId[t] = s /\ LastUpdate(s, k, i) => plan[t] = extractPlan(sent[i].items)
  BY DEF Follows
<1>6. subId'[t] = s <=> owner'[s] = t /\ Current(s, k)'
  BY <1>3, <1>4, <1>5, Apart
<1>7. \A i \in 1..k : subId'[t] = s /\ LastUpdate(s, k, i)' => plan'[t] = extractPlan(sent'[i].items)
  BY <1>2, <1>3, <1>5
<1> QED BY <1>6, <1>7

LEMMA ReportStaysInTurn ==
  ASSUME BInv, NothingUnopened, disturbed \/ HandledInTurn,
         NEW events \in Seq(Event), Report(events),
         UNCHANGED <<subId, plan, disturbed>>,
         \A s \in Subs : owner[s] # None => owner'[s] = owner[s]
  PROVE  (disturbed \/ HandledInTurn)'
<1> SUFFICES ASSUME ~disturbed PROVE HandledInTurn'
  OBVIOUS
<1>1. PICK h \in 0..Len(sent) :
        /\ pending = (h + 1)..Len(sent)
        /\ \E k \in {h, h + 1} : k <= Len(sent) /\ Follows(k)
  BY DEF HandledInTurn
<1>2. PICK k \in {h, h + 1} : k <= Len(sent) /\ Follows(k)
  BY <1>1
<1>3. /\ Len(sent) \in Nat /\ Len(events) \in Nat /\ Len(sent') = Len(sent) + Len(events)
      /\ \A i \in 1..Len(sent) : sent'[i] = sent[i]
      /\ pending' = pending \cup (Len(sent) + 1)..Len(sent')
  BY Longer DEF BInv
<1>4. Follows(k)'
  <2>1. k \in 0..Len(sent)
    BY <1>2, <1>3
  <2> QED BY <1>2, <1>3, <2>1, FollowsStays
<1>5. h \in 0..Len(sent') /\ k <= Len(sent') /\ pending' = (h + 1)..Len(sent')
  BY <1>1, <1>2, <1>3
<1> QED BY <1>4, <1>5 DEF HandledInTurn

\* What there is to know of the events after a subscription was taken out.
LEMMA SubscribeTells ==
  ASSUME BInv, EventsTell, NEW t \in Tenants, NEW s \in Subs, NEW list \in Items, Subscribe(t, s, list)
  PROVE  EventsTell'
<1>0. PICK n \in Nat : n = Len(sent)
  BY DEF BInv, TypeOK
<1> DEFINE e == [type |-> "completed", customer |-> t, sub |-> s]
           f == [type |-> "updated", sub |-> s, items |-> list]
<1>1. /\ t \in linked /\ owner[s] = None /\ \A r \in live : owner[r] # t
      /\ owner' = [owner EXCEPT ![s] = t] /\ items' = [items EXCEPT ![s] = list]
      /\ live' = live \cup {s}
      /\ Report(<<e, f>>) /\ linked' = linked
  BY DEF Subscribe, handleBillingPortal
<1>2. e \in Event /\ f \in Event
  BY DEF Event
<1>3. /\ n \in Nat /\ Len(sent') = n + 2
      /\ DOMAIN sent = 1..n /\ DOMAIN sent' = 1..(n + 2)
      /\ \A i \in 1..n : sent'[i] = sent[i]
      /\ sent'[n + 1] = e /\ sent'[n + 2] = f
  <2> HIDE DEF e, f
  <2>1. <<e, f>> \in Seq(Event) /\ Len(<<e, f>>) = 2 /\ <<e, f>>[1] = e /\ <<e, f>>[2] = f
    BY <1>2
  <2>2. /\ n \in Nat /\ Len(sent') = n + 2
        /\ DOMAIN sent = 1..n /\ DOMAIN sent' = 1..(n + 2)
        /\ \A i \in 1..n : sent'[i] = sent[i]
        /\ \A k \in 1..2 : sent'[n + k] = <<e, f>>[k]
    BY <1>0, <1>1, <2>1, Longer DEF BInv
  <2> QED BY <2>1, <2>2
<1>4. \A r \in Subs :
        /\ ~Update(n + 1, r)' /\ ~Ending(n + 1, r)' /\ (Opening(n + 1, r)' <=> r = s)
        /\ ~Opening(n + 2, r)' /\ ~Ending(n + 2, r)' /\ (Update(n + 2, r)' <=> r = s)
  BY <1>3 DEF Opening, Update, Ending
<1>5. \A r \in Subs, i \in 1..n :
        /\ Opening(i, r)' <=> Opening(i, r)
        /\ Update(i, r)' <=> Update(i, r)
        /\ Ending(i, r)' <=> Ending(i, r)
  BY <1>3, SameBefore
<1>6. \A i \in 1..n : ~Opening(i, s) /\ ~Update(i, s) /\ ~Ending(i, s)
  BY <1>1, <1>3, UnownedIsNew DEF EventsTell
<1>7. sent'[n + 1].customer = t /\ sent'[n + 2].items = list
  BY <1>3
<1>8. owner'[s] = t /\ items'[s] = list
  BY <1>1 DEF BInv, TypeOK
<1>9. \A r \in Subs : r # s => owner'[r] = owner[r] /\ items'[r] = items[r]
  BY <1>1 DEF BInv, TypeOK
<1> HIDE DEF e, f
<1>10. OpenedOnceAndFirst'
  <2> SUFFICES ASSUME NEW r \in Subs, NEW i \in 1..(n + 2), NEW j \in 1..(n + 2)
               PROVE  /\ Opening(i, r)' => sent'[i].customer \in linked'
                      /\ Opening(i, r)' /\ Opening(j, r)' => i = j
                      /\ Opening(i, r)' /\ (Update(j, r)' \/ Ending(j, r)') => i < j
    BY <1>3 DEF OpenedOnceAndFirst
  <2>1. \A k \in 1..(n + 2) : k \in 1..n \/ k = n + 1 \/ k = n + 2
    BY <1>3
  <2>2. OpenedOnceAndFirst
    BY DEF EventsTell
  <2> QED BY <1>1, <1>3, <1>4, <1>5, <1>6, <1>7, <2>1, <2>2 DEF OpenedOnceAndFirst
<1>11. NothingUnopened'
  <2> SUFFICES ASSUME NEW r \in Subs, NEW j \in 1..(n + 2), Update(j, r)' \/ Ending(j, r)'
               PROVE  \E i \in 1..(n + 2) : Opening(i, r)'
    BY <1>3 DEF NothingUnopened
  <2>1. CASE j \in 1..n
    <3>1. PICK i \in 1..n : Opening(i, r)
      BY <1>3, <1>5, <2>1 DEF EventsTell, NothingUnopened
    <3> QED BY <1>3, <1>5, <3>1
  <2>2. CASE j = n + 1
    BY <1>4, <2>2
  <2>3. CASE j = n + 2
    BY <1>3, <1>4, <2>3
  <2> QED BY <1>3, <2>1, <2>2, <2>3
<1>12. OneAfterAnother'
  <2> SUFFICES ASSUME NEW q \in Subs, NEW r \in Subs, NEW i \in 1..(n + 2), NEW j \in 1..(n + 2),
                      Opening(i, q)', Opening(j, r)', owner'[q] = owner'[r], i < j
               PROVE  \E m \in 1..(n + 2) : m < j /\ Ending(m, q)'
    BY <1>3 DEF OneAfterAnother
  <2>1. i \in 1..n /\ Opening(i, q) /\ q # s /\ owner[q] = owner'[q]
    BY <1>3, <1>4, <1>5, <1>6, <1>9
  <2>2. CASE j \in 1..n
    <3>1. Opening(j, r) /\ r # s /\ owner[r] = owner'[r]
      BY <1>5, <1>6, <1>9, <2>2
    <3>2. PICK m \in 1..n : m < j /\ Ending(m, q)
      BY <1>3, <2>1, <2>2, <3>1 DEF EventsTell, OneAfterAnother
    <3> QED BY <1>3, <1>5, <3>2
  <2>3. CASE j \notin 1..n
    <3>1. j = n + 1 /\ r = s
      BY <1>3, <1>4, <2>3
    <3>2. q \notin live
      BY <1>1, <1>8, <2>1, <3>1
    <3>3. PICK m \in 1..n : Ending(m, q)
      BY <1>0, <1>3, <2>1, <3>2 DEF EventsTell, AllIsReported, Current
    <3> QED BY <1>3, <1>5, <3>1, <3>3
  <2> QED BY <2>2, <2>3
<1>13. AllIsReported'
  <2>1. \A r \in Subs : r \in live' <=> Current(r, n + 2)'
    <3> SUFFICES ASSUME NEW r \in Subs PROVE r \in live' <=> Current(r, n + 2)'
      OBVIOUS
    <3>1. r \in live <=> Current(r, n)
      BY <1>0 DEF EventsTell, AllIsReported
    <3>2. CASE r = s
      BY <1>1, <1>3, <1>4, <1>5, <1>6, <3>2 DEF Current
    <3>3. CASE r # s
      BY <1>1, <1>3, <1>4, <1>5, <3>1, <3>3 DEF Current
    <3> QED BY <3>2, <3>3
  <2>2. \A r \in live' : \E i \in 1..(n + 2) : LastUpdate(r, n + 2, i)' /\ sent'[i].items = items'[r]
    <3> SUFFICES ASSUME NEW r \in live'
                 PROVE  \E i \in 1..(n + 2) : LastUpdate(r, n + 2, i)' /\ sent'[i].items = items'[r]
      OBVIOUS
    <3>1. r \in Subs
      BY <1>1 DEF BInv, TypeOK
    <3>2. CASE r = s
      <4>1. LastUpdate(s, n + 2, n + 2)'
        BY <1>3, <1>4 DEF LastUpdate
      <4> QED BY <1>3, <1>7, <1>8, <3>2, <4>1
    <3>3. CASE r # s
      <4>1. PICK i \in 1..n : LastUpdate(r, n, i) /\ sent[i].items = items[r]
        BY <1>0, <1>1, <1>3, <3>3 DEF EventsTell, AllIsReported
      <4>2. LastUpdate(r, n + 2, i)'
        BY <1>3, <1>4, <1>5, <3>1, <3>3, <4>1 DEF LastUpdate
      <4> QED BY <1>3, <1>9, <3>1, <3>3, <4>1, <4>2
    <3> QED BY <3>2, <3>3
  <2> QED BY <1>3, <2>1, <2>2 DEF AllIsReported
<1> QED BY <1>10, <1>11, <1>12, <1>13 DEF EventsTell

\* One more event, and those before it as they were.
LEMMA OneMore ==
  ASSUME BInv, NEW e \in Event, Report(<<e>>), NEW n \in Nat, n = Len(sent)
  PROVE  /\ Len(sent') = n + 1
         /\ DOMAIN sent = 1..n /\ DOMAIN sent' = 1..(n + 1)
         /\ \A i \in 1..n : sent'[i] = sent[i]
         /\ sent'[n + 1] = e
         /\ \A r \in Subs, i \in 1..n : /\ Opening(i, r)' <=> Opening(i, r)
                                        /\ Update(i, r)' <=> Update(i, r)
                                        /\ Ending(i, r)' <=> Ending(i, r)
<1>1. <<e>> \in Seq(Event) /\ Len(<<e>>) = 1 /\ <<e>>[1] = e
  OBVIOUS
<1>2. /\ Len(sent') = n + 1
      /\ DOMAIN sent = 1..n /\ DOMAIN sent' = 1..(n + 1)
      /\ \A i \in 1..n : sent'[i] = sent[i]
      /\ sent'[n + 1] = e
  <2> DEFINE es == <<e>>
  <2>1. es \in Seq(Event) /\ Len(es) = 1 /\ es[1] = e /\ Report(es)
    BY <1>1
  <2> HIDE DEF es
  <2>2. /\ Len(sent') = n + 1
        /\ DOMAIN sent = 1..n /\ DOMAIN sent' = 1..(n + 1)
        /\ \A i \in 1..n : sent'[i] = sent[i]
        /\ \A k \in 1..1 : sent'[n + k] = es[k]
    BY <2>1, Longer DEF BInv
  <2> QED BY <2>1, <2>2
<1> QED BY <1>2, SameBefore

\* An event after which no subscription is opened, of one that is live if it is of one.
LEMMA OneMoreTells ==
  ASSUME BInv, EventsTell, NEW e \in Event, Report(<<e>>), UNCHANGED <<linked, owner>>,
         \/ e.type = "completed" /\ e.sub = None
         \/ e.type \in {"updated", "deleted"} /\ e.sub \in live,
         AllIsReported'
  PROVE  EventsTell'
<1>0. PICK n \in Nat : n = Len(sent)
  BY DEF BInv, TypeOK
<1>1. /\ DOMAIN sent = 1..n /\ DOMAIN sent' = 1..(n + 1)
      /\ \A i \in 1..n : sent'[i] = sent[i]
      /\ sent'[n + 1] = e
      /\ \A r \in Subs, i \in 1..n : /\ Opening(i, r)' <=> Opening(i, r)
                                     /\ Update(i, r)' <=> Update(i, r)
                                     /\ Ending(i, r)' <=> Ending(i, r)
  BY <1>0, OneMore
<1>2. \A r \in Subs : /\ ~Opening(n + 1, r)'
                      /\ Update(n + 1, r)' \/ Ending(n + 1, r)' => r \in live
  BY <1>1, Apart DEF Opening, Update, Ending
<1>3. \A k \in 1..(n + 1) : k \in 1..n \/ k = n + 1
  OBVIOUS
<1>4. OpenedOnceAndFirst'
  <2> SUFFICES ASSUME NEW r \in Subs, NEW i \in 1..(n + 1), NEW j \in 1..(n + 1)
               PROVE  /\ Opening(i, r)' => sent'[i].customer \in linked'
                      /\ Opening(i, r)' /\ Opening(j, r)' => i = j
                      /\ Opening(i, r)' /\ (Update(j, r)' \/ Ending(j, r)') => i < j
    BY <1>1 DEF OpenedOnceAndFirst
  <2> QED BY <1>1, <1>2, <1>3 DEF EventsTell, OpenedOnceAndFirst
<1>5. NothingUnopened'
  <2> SUFFICES ASSUME NEW r \in Subs, NEW j \in 1..(n + 1), Update(j, r)' \/ Ending(j, r)'
               PROVE  \E i \in 1..(n + 1) : Opening(i, r)'
    BY <1>1 DEF NothingUnopened
  <2>1. \E i \in 1..n : Opening(i, r)
    <3>1. CASE j \in 1..n
      BY <1>1, <3>1 DEF EventsTell, NothingUnopened
    <3>2. CASE j = n + 1
      BY <1>0, <1>2, <3>2 DEF EventsTell, AllIsReported, Current
    <3> QED BY <1>3, <3>1, <3>2
  <2> QED BY <1>1, <2>1
<1>6. OneAfterAnother'
  <2> SUFFICES ASSUME NEW q \in Subs, NEW r \in Subs, NEW i \in 1..(n + 1), NEW j \in 1..(n + 1),
                      Opening(i, q)', Opening(j, r)', owner[q] = owner[r], i < j
               PROVE  \E m \in 1..(n + 1) : m < j /\ Ending(m, q)'
    BY <1>1 DEF OneAfterAnother
  <2>1. i \in 1..n /\ j \in 1..n /\ Opening(i, q) /\ Opening(j, r)
    BY <1>1, <1>2, <1>3
  <2>2. PICK m \in 1..n : m < j /\ Ending(m, q)
    BY <1>1, <2>1 DEF EventsTell, OneAfterAnother
  <2> QED BY <1>1, <2>2
<1> QED BY <1>4, <1>5, <1>6 DEF EventsTell

LEMMA PayTells ==
  ASSUME BInv, EventsTell, NEW t \in Tenants, Pay(t)
  PROVE  EventsTell'
<1>0. PICK n \in Nat : n = Len(sent)
  BY DEF BInv, TypeOK
<1> DEFINE e == [type |-> "completed", customer |-> t, sub |-> None]
<1>1. e \in Event /\ e.type = "completed" /\ e.sub = None
  BY DEF Event
<1>2. Report(<<e>>) /\ UNCHANGED <<linked, owner, items, live>>
  BY DEF Pay
<1> HIDE DEF e
<1>3. /\ Len(sent') = n + 1
      /\ DOMAIN sent = 1..n /\ DOMAIN sent' = 1..(n + 1)
      /\ \A i \in 1..n : sent'[i] = sent[i]
      /\ sent'[n + 1] = e
      /\ \A r \in Subs, i \in 1..n : /\ Opening(i, r)' <=> Opening(i, r)
                                     /\ Update(i, r)' <=> Update(i, r)
                                     /\ Ending(i, r)' <=> Ending(i, r)
  BY <1>0, <1>1, <1>2, OneMore
<1>4. \A r \in Subs : ~Opening(n + 1, r)' /\ ~Update(n + 1, r)' /\ ~Ending(n + 1, r)'
  BY <1>1, <1>3, Apart DEF Opening, Update, Ending
<1>5. \A r \in Subs : /\ Current(r, n + 1)' <=> Current(r, n)
                      /\ \A i \in 1..n : LastUpdate(r, n, i) => LastUpdate(r, n + 1, i)'
  BY <1>3, <1>4 DEF Current, LastUpdate
<1>6. AllIsReported'
  <2>1. \A r \in Subs : r \in live' <=> Current(r, n + 1)'
    BY <1>0, <1>2, <1>5 DEF EventsTell, AllIsReported
  <2>2. ASSUME NEW r \in live'
        PROVE  \E i \in 1..(n + 1) : LastUpdate(r, n + 1, i)' /\ sent'[i].items = items'[r]
    <3>1. r \in Subs /\ r \in live
      BY <1>2 DEF BInv, TypeOK
    <3>2. PICK i \in 1..n : LastUpdate(r, n, i) /\ sent[i].items = items[r]
      BY <1>0, <1>3, <3>1 DEF EventsTell, AllIsReported
    <3> QED BY <1>2, <1>3, <1>5, <3>1, <3>2
  <2> QED BY <1>3, <2>1, <2>2 DEF AllIsReported
<1> QED BY <1>1, <1>2, <1>6, OneMoreTells

LEMMA ChangePlanTells ==
  ASSUME BInv, EventsTell, NEW s \in Subs, NEW list \in Items, ChangePlan(s, list)
  PROVE  EventsTell'
<1>0. PICK n \in Nat : n = Len(sent)
  BY DEF BInv, TypeOK
<1> DEFINE e == [type |-> "updated", sub |-> s, items |-> list]
<1>1. e \in Event /\ e.type = "updated" /\ e.sub = s /\ e.items = list
  BY DEF Event
<1>2. Report(<<e>>) /\ s \in live /\ UNCHANGED <<linked, owner, live>>
  BY DEF ChangePlan
<1>3. items'[s] = list /\ \A r \in Subs : r # s => items'[r] = items[r]
  BY DEF ChangePlan, BInv, TypeOK
<1> HIDE DEF e
<1>4. /\ Len(sent') = n + 1
      /\ DOMAIN sent = 1..n /\ DOMAIN sent' = 1..(n + 1)
      /\ \A i \in 1..n : sent'[i] = sent[i]
      /\ sent'[n + 1] = e
      /\ \A r \in Subs, i \in 1..n : /\ Opening(i, r)' <=> Opening(i, r)
                                     /\ Update(i, r)' <=> Update(i, r)
                                     /\ Ending(i, r)' <=> Ending(i, r)
  BY <1>0, <1>1, <1>2, OneMore
<1>5. \A r \in Subs :
        ~Opening(n + 1, r)' /\ (Update(n + 1, r)' <=> r = s) /\ ~Ending(n + 1, r)'
  BY <1>1, <1>4 DEF Opening, Update, Ending
<1>6. AllIsReported'
  <2>1. \A r \in Subs : r \in live' <=> Current(r, n + 1)'
    <3>1. \A r \in Subs : Current(r, n + 1)' <=> Current(r, n)
      BY <1>4, <1>5 DEF Current
    <3> QED BY <1>0, <1>2, <3>1 DEF EventsTell, AllIsReported
  <2>2. ASSUME NEW r \in live'
        PROVE  \E i \in 1..(n + 1) : LastUpdate(r, n + 1, i)' /\ sent'[i].items = items'[r]
    <3>1. r \in Subs /\ r \in live
      BY <1>2 DEF BInv, TypeOK
    <3>2. CASE r = s
      <4>1. LastUpdate(s, n + 1, n + 1)'
        BY <1>4, <1>5 DEF LastUpdate
      <4> QED BY <1>1, <1>3, <1>4, <3>2, <4>1
    <3>3. CASE r # s
      <4>1. PICK i \in 1..n : LastUpdate(r, n, i) /\ sent[i].items = items[r]
        BY <1>0, <1>4, <3>1 DEF EventsTell, AllIsReported
      <4>2. LastUpdate(r, n + 1, i)'
        BY <1>4, <1>5, <3>1, <3>3, <4>1 DEF LastUpdate
      <4> QED BY <1>3, <1>4, <3>1, <3>3, <4>1, <4>2
    <3> QED BY <3>2, <3>3
  <2> QED BY <1>4, <2>1, <2>2 DEF AllIsReported
<1> QED BY <1>1, <1>2, <1>6, OneMoreTells

LEMMA CancelTells ==
  ASSUME BInv, EventsTell, NEW s \in Subs, Cancel(s)
  PROVE  EventsTell'
<1>0. PICK n \in Nat : n = Len(sent)
  BY DEF BInv, TypeOK
<1> DEFINE e == [type |-> "deleted", sub |-> s]
<1>1. e \in Event /\ e.type = "deleted" /\ e.sub = s
  BY DEF Event
<1>2. Report(<<e>>) /\ s \in live /\ live' = live \ {s} /\ UNCHANGED <<linked, owner, items>>
  BY DEF Cancel
<1> HIDE DEF e
<1>3. /\ Len(sent') = n + 1
      /\ DOMAIN sent = 1..n /\ DOMAIN sent' = 1..(n + 1)
      /\ \A i \in 1..n : sent'[i] = sent[i]
      /\ sent'[n + 1] = e
      /\ \A r \in Subs, i \in 1..n : /\ Opening(i, r)' <=> Opening(i, r)
                                     /\ Update(i, r)' <=> Update(i, r)
                                     /\ Ending(i, r)' <=> Ending(i, r)
  BY <1>0, <1>1, <1>2, OneMore
<1>4. \A r \in Subs :
        ~Opening(n + 1, r)' /\ ~Update(n + 1, r)' /\ (Ending(n + 1, r)' <=> r = s)
  BY <1>1, <1>3 DEF Opening, Update, Ending
<1>5. AllIsReported'
  <2>1. \A r \in Subs : r \in live' <=> Current(r, n + 1)'
    <3>1. \A r \in Subs : Current(r, n + 1)' <=> Current(r, n) /\ r # s
      BY <1>3, <1>4 DEF Current
    <3> QED BY <1>0, <1>2, <3>1 DEF EventsTell, AllIsReported
  <2>2. ASSUME NEW r \in live'
        PROVE  \E i \in 1..(n + 1) : LastUpdate(r, n + 1, i)' /\ sent'[i].items = items'[r]
    <3>1. r \in Subs /\ r \in live
      BY <1>2 DEF BInv, TypeOK
    <3>2. PICK i \in 1..n : LastUpdate(r, n, i) /\ sent[i].items = items[r]
      BY <1>0, <1>3, <3>1 DEF EventsTell, AllIsReported
    <3>3. LastUpdate(r, n + 1, i)'
      BY <1>3, <1>4, <3>1, <3>2 DEF LastUpdate
    <3> QED BY <1>2, <1>3, <3>2, <3>3
  <2> QED BY <1>3, <2>1, <2>2 DEF AllIsReported
<1> QED BY <1>1, <1>2, <1>5, OneMoreTells

\* What is current of a subscription that the event is not about.
LEMMA OthersAsBefore ==
  ASSUME NEW i \in Nat \ {0}, NEW k \in {i - 1, i}, NEW s \in Subs
  PROVE  /\ ~Opening(i, s) /\ ~Ending(i, s) => (Current(s, i) <=> Current(s, k))
         /\ ~Update(i, s) => \A j : LastUpdate(s, i, j) <=> LastUpdate(s, k, j)
<1>1. k \in Nat /\ \A j : j \in 1..i <=> j \in 1..k \/ j = i
  OBVIOUS
<1>2. k = i \/ i \notin 1..k
  OBVIOUS
<1>3. ~Opening(i, s) /\ ~Ending(i, s) => (Current(s, i) <=> Current(s, k))
  BY <1>1 DEF Current
<1>4. ~Update(i, s) => \A j : LastUpdate(s, i, j) <=> LastUpdate(s, k, j)
  BY <1>1 DEF LastUpdate
<1> QED BY <1>3, <1>4

\* An event handled in its turn, for the first time or once more, leaves the columns as
\* the events up to it have them.
LEMMA SaveFollows ==
  ASSUME BInv, EventsTell, NEW i \in DOMAIN sent, NEW k \in {i - 1, i}, Follows(k), Save(i),
         UNCHANGED stripe
  PROVE  Follows(i)'
<1> DEFINE e == sent[i]
<1>1. i \in Nat \ {0} /\ DOMAIN sent = 1..Len(sent) /\ Len(sent) \in Nat /\ 1..i \subseteq DOMAIN sent
  BY DEF BInv, TypeOK
<1>2. e \in Event /\ owner' = owner /\ sent' = sent
  BY DEF BInv, TypeOK, stripe
<1>3. /\ subId \in [Tenants -> Subs \cup {None}] /\ plan \in [Tenants -> Plan]
      /\ owner \in [Subs -> Tenants \cup {None}]
  BY DEF BInv, TypeOK
<1>4. \A s \in Subs : /\ Opening(i, s) <=> e.type = "completed" /\ e.sub = s
                      /\ Update(i, s) <=> e.type = "updated" /\ e.sub = s
                      /\ Ending(i, s) <=> e.type = "deleted" /\ e.sub = s
  BY DEF Opening, Update, Ending
<1>5. \A t \in Tenants, s \in Subs :
        /\ subId[t] = s <=> owner[s] = t /\ Current(s, k)
        /\ \A j \in 1..k : subId[t] = s /\ LastUpdate(s, k, j) => plan[t] = extractPlan(sent[j].items)
  BY DEF Follows
<1>6. \A s \in Subs : \A j : LastUpdate(s, k, j) => j \in 1..k
  BY DEF LastUpdate
<1> SUFFICES ASSUME NEW t \in Tenants, NEW s \in Subs
             PROVE  /\ subId'[t] = s <=> owner[s] = t /\ Current(s, i)
                    /\ \A j \in 1..i : subId'[t] = s /\ LastUpdate(s, i, j)
                         => plan'[t] = extractPlan(sent[j].items)
  BY <1>1, <1>2, SameBefore DEF Follows
<1>7. /\ ~Opening(i, s) /\ ~Ending(i, s) => (Current(s, i) <=> Current(s, k))
      /\ ~Update(i, s) => \A j : LastUpdate(s, i, j) <=> LastUpdate(s, k, j)
  BY <1>1, OthersAsBefore
<1> HIDE DEF e
<1>8. CASE Completed(e) /\ e.sub = None
  <2>1. e.type = "completed" /\ subId'[t] = subId[t] /\ plan'[t] = plan[t]
    BY <1>3, <1>8 DEF Completed
  <2>2. ~Opening(i, s) /\ ~Update(i, s) /\ ~Ending(i, s)
    BY <1>4, <1>8, <2>1, Apart
  <2> QED BY <1>5, <1>6, <1>7, <2>1, <2>2
<1>9. CASE Completed(e) /\ e.sub # None
  <2>1. /\ e.type = "completed" /\ e.sub \in Subs /\ e.customer \in Tenants
        /\ Opening(i, e.sub)
    BY <1>2, <1>4, <1>9, EventFields DEF Completed
  <2>2. owner[e.sub] = e.customer /\ e.customer \in linked
    BY <1>9, <2>1 DEF BInv, EventsAreOwned, EventsTell, OpenedOnceAndFirst, e
  <2>3. subId'[t] = (IF t = e.customer THEN e.sub ELSE subId[t]) /\ plan'[t] = plan[t]
    BY <1>9, <2>2 DEF Completed
  <2>4. ~Update(i, s) /\ ~Ending(i, s) /\ (Opening(i, s) <=> s = e.sub)
    BY <1>4, <2>1
  <2>5. CASE t # e.customer
    BY <1>5, <1>6, <1>7, <2>2, <2>3, <2>4, <2>5
  <2>6. CASE t = e.customer /\ s = e.sub
    <3>1. \A j \in 1..i : ~Ending(j, s) /\ ~Update(j, s)
      <4> SUFFICES ASSUME NEW j \in 1..i, Ending(j, s) \/ Update(j, s) PROVE FALSE
        OBVIOUS
      <4>1. i < j
        BY <1>1, <2>1, <2>6 DEF EventsTell, OpenedOnceAndFirst
      <4> QED BY <1>1, <4>1
    <3>2. Current(s, i) /\ \A j \in 1..i : ~LastUpdate(s, i, j)
      BY <1>1, <2>1, <2>6, <3>1 DEF Current, LastUpdate
    <3> QED BY <2>2, <2>3, <2>6, <3>2
  <2>7. CASE t = e.customer /\ s # e.sub
    <3>1. ASSUME owner[s] = t, Current(s, i) PROVE FALSE
      <4>1. PICK j \in 1..i : Opening(j, s)
        BY <3>1 DEF Current
      <4>2. j < i /\ j \in DOMAIN sent
        BY <1>1, <2>4, <2>7, <4>1
      <4>3. PICK m \in DOMAIN sent : m < i /\ Ending(m, s)
        BY <2>1, <2>2, <2>7, <3>1, <4>1, <4>2 DEF EventsTell, OneAfterAnother
      <4>4. m \in 1..i
        BY <1>1, <4>3
      <4> QED BY <3>1, <4>3, <4>4 DEF Current
    <3> QED BY <2>3, <2>7, <3>1
  <2> QED BY <2>5, <2>6, <2>7
<1>10. CASE Updated(e)
  <2>1. /\ e.type = "updated" /\ subId' = subId
        /\ plan'[t] = IF subId[t] = e.sub THEN extractPlan(e.items) ELSE plan[t]
    BY <1>10 DEF Updated
  <2>2. Current(s, i) <=> Current(s, k)
    BY <1>4, <1>7, <2>1
  <2>3. ASSUME NEW j \in 1..i, subId[t] = s, LastUpdate(s, i, j)
        PROVE  plan'[t] = extractPlan(sent[j].items)
    <3>1. CASE s = e.sub
      <4>1. j = i
        BY <1>1, <1>4, <2>1, <2>3, <3>1 DEF LastUpdate
      <4> QED BY <2>1, <2>3, <3>1, <4>1 DEF e
    <3>2. CASE s # e.sub
      BY <1>4, <1>5, <1>6, <1>7, <2>1, <2>3, <3>2
    <3> QED BY <3>1, <3>2
  <2> QED BY <1>5, <2>1, <2>2, <2>3
<1>11. CASE Deleted(e)
  <2>1. /\ e.type = "deleted"
        /\ subId'[t] = IF subId[t] = e.sub THEN None ELSE subId[t]
        /\ subId[t] # e.sub => plan'[t] = plan[t]
    BY <1>11 DEF Deleted
  <2>2. CASE s = e.sub
    <3>1. ~Current(s, i)
      BY <1>1, <1>4, <2>1, <2>2 DEF Current
    <3> QED BY <2>1, <2>2, <3>1, Apart
  <2>3. CASE s # e.sub
    <3>1. ~Opening(i, s) /\ ~Update(i, s) /\ ~Ending(i, s)
      BY <1>4, <2>1, <2>3
    <3> QED BY <1>5, <1>6, <1>7, <2>1, <2>3, <3>1, Apart
  <2> QED BY <2>2, <2>3
<1> QED BY <1>8, <1>9, <1>10, <1>11 DEF Save, e

\* An event handled when it is its turn is the oldest that has no answer.
LEMMA HandleStaysInTurn ==
  ASSUME BInv, EventsTell, disturbed \/ HandledInTurn, NEW i \in Nat, Handle(i)
  PROVE  (disturbed \/ HandledInTurn)'
<1> SUFFICES ASSUME ~disturbed' PROVE HandledInTurn'
  OBVIOUS
<1>1. /\ i \in DOMAIN sent /\ Save(i) /\ InTurn(i) /\ ~disturbed
      /\ pending' \in {pending, pending \ {i}}
      /\ UNCHANGED stripe /\ sent' = sent
  BY DEF Handle, stripe
<1>2. PICK h \in 0..Len(sent) :
        /\ pending = (h + 1)..Len(sent)
        /\ \E k \in {h, h + 1} : k <= Len(sent) /\ Follows(k)
  BY <1>1 DEF HandledInTurn
<1>3. PICK k \in {h, h + 1} : Follows(k)
  BY <1>2
<1>4. Len(sent) \in Nat
  BY DEF BInv, TypeOK
<1>5. i = h + 1 /\ i <= Len(sent)
  <2>1. i \in (h + 1)..Len(sent) /\ \A j \in (h + 1)..Len(sent) : i <= j
    BY <1>1, <1>2 DEF InTurn
  <2> QED BY <1>4, <2>1
<1>6. Follows(i)'
  <2>1. k \in {i - 1, i}
    BY <1>5
  <2> QED BY <1>1, <1>3, <2>1, SaveFollows
<1>7. CASE pending' = pending
  BY <1>1, <1>2, <1>5, <1>6, <1>7 DEF HandledInTurn
<1>8. CASE pending' = pending \ {i}
  <2>1. pending' = (i + 1)..Len(sent)
    BY <1>2, <1>4, <1>5, <1>8
  <2>2. i \in 0..Len(sent)
    BY <1>4, <1>5
  <2> QED BY <1>1, <1>5, <1>6, <2>1, <2>2 DEF HandledInTurn
<1> QED BY <1>1, <1>7, <1>8

\* The link is added to, and neither the events nor the columns change.
LEMMA RegisterTells ==
  ASSUME EventsTell, linked \subseteq linked', UNCHANGED <<owner, items, live, sent>>
  PROVE  EventsTell'
<1>1. OpenedOnceAndFirst'
  BY DEF EventsTell, OpenedOnceAndFirst, Opening, Update, Ending
<1>2. NothingUnopened' /\ OneAfterAnother'
  BY DEF EventsTell, NothingUnopened, OneAfterAnother, Opening, Update, Ending
<1>3. AllIsReported'
  BY DEF EventsTell, AllIsReported, Current, LastUpdate, Opening, Update, Ending
<1> QED BY <1>1, <1>2, <1>3 DEF EventsTell

LEMMA StillInTurn ==
  ASSUME HandledInTurn, UNCHANGED <<subId, plan, owner, sent, pending>>
  PROVE  HandledInTurn'
<1>1. \A k : Follows(k) => Follows(k)'
  BY DEF Follows, Current, LastUpdate, Opening, Update, Ending
<1> QED BY <1>1 DEF HandledInTurn

LEMMA EventsTellKept ==
  ASSUME BInv, EventsTell, [Next]_vars
  PROVE  EventsTell'
<1>1. CASE Register
  <2>1. linked \subseteq linked' /\ UNCHANGED <<owner, items, live, sent>>
    BY <1>1 DEF Register, CreateCustomer, LinkCustomer, stripe
  <2> QED BY <2>1, RegisterTells
<1>2. CASE AtStripe
  BY <1>2, SubscribeTells, PayTells, ChangePlanTells, CancelTells DEF AtStripe
<1>3. CASE \E i \in 1..MaxEvents : Handle(i) \/ HandleUnsaved(i)
  <2>1. UNCHANGED <<linked, owner, items, live, sent>>
    BY <1>3 DEF Handle, HandleUnsaved, stripe
  <2> QED BY <2>1, RegisterTells
<1>4. CASE UNCHANGED vars
  BY <1>4, RegisterTells DEF vars, stripe
<1> QED BY <1>1, <1>2, <1>3, <1>4 DEF Next

\* What Stripe does leaves the columns, and the events that were handled, as they are.
LEMMA StripeStaysInTurn ==
  ASSUME BInv, NothingUnopened, disturbed \/ HandledInTurn, AtStripe
  PROVE  (disturbed \/ HandledInTurn)'
<1>1. ASSUME NEW t \in Tenants, NEW s \in Subs, NEW list \in Items, Subscribe(t, s, list)
      PROVE  (disturbed \/ HandledInTurn)'
  <2> DEFINE events == <<[type |-> "completed", customer |-> t, sub |-> s],
                         [type |-> "updated", sub |-> s, items |-> list]>>
  <2>1. events \in Seq(Event)
    BY DEF Event
  <2>2. Report(events) /\ UNCHANGED <<subId, plan, disturbed>>
    BY <1>1 DEF Subscribe
  <2>3. \A r \in Subs : owner[r] # None => owner'[r] = owner[r]
    BY <1>1 DEF Subscribe, BInv, TypeOK
  <2> HIDE DEF events
  <2> QED BY <2>1, <2>2, <2>3, ReportStaysInTurn
<1>2. ASSUME NEW e \in Event, Report(<<e>>), UNCHANGED <<subId, plan, owner, disturbed>>
      PROVE  (disturbed \/ HandledInTurn)'
  BY <1>2, OneEvent, ReportStaysInTurn
<1>3. ASSUME NEW t \in Tenants, Pay(t)
      PROVE  (disturbed \/ HandledInTurn)'
  <2>1. [type |-> "completed", customer |-> t, sub |-> None] \in Event
    BY DEF Event
  <2> QED BY <1>2, <1>3, <2>1 DEF Pay
<1>4. ASSUME NEW s \in Subs, NEW list \in Items, ChangePlan(s, list)
      PROVE  (disturbed \/ HandledInTurn)'
  <2>1. [type |-> "updated", sub |-> s, items |-> list] \in Event
    BY DEF Event
  <2> QED BY <1>2, <1>4, <2>1 DEF ChangePlan
<1>5. ASSUME NEW s \in Subs, Cancel(s)
      PROVE  (disturbed \/ HandledInTurn)'
  <2>1. [type |-> "deleted", sub |-> s] \in Event
    BY DEF Event
  <2> QED BY <1>2, <1>5, <2>1 DEF Cancel
<1> QED BY <1>1, <1>3, <1>4, <1>5 DEF AtStripe

LEMMA InTurnKept ==
  ASSUME BInv, EventsTell, disturbed \/ HandledInTurn, [Next]_vars
  PROVE  (disturbed \/ HandledInTurn)'
<1>1. CASE Register
  <2>1. UNCHANGED <<subId, plan, owner, sent, pending, disturbed>>
    BY <1>1 DEF Register, CreateCustomer, LinkCustomer, stripe
  <2> QED BY <2>1, StillInTurn
<1>2. CASE AtStripe
  BY <1>2, StripeStaysInTurn DEF EventsTell
<1>3. ASSUME NEW i \in 1..MaxEvents, Handle(i) PROVE (disturbed \/ HandledInTurn)'
  <2>1. i \in Nat
    OBVIOUS
  <2> QED BY <1>3, <2>1, HandleStaysInTurn
<1>4. ASSUME NEW i \in 1..MaxEvents, HandleUnsaved(i) PROVE (disturbed \/ HandledInTurn)'
  BY <1>4 DEF HandleUnsaved
<1>5. CASE UNCHANGED vars
  BY <1>5, StillInTurn DEF vars, stripe
<1> QED BY <1>1, <1>2, <1>3, <1>4, <1>5 DEF Next

LEMMA InTurnAtFirst == Init => EventsTell /\ HandledInTurn
<1> SUFFICES ASSUME Init PROVE EventsTell /\ HandledInTurn
  OBVIOUS
<1>1. DOMAIN sent = {} /\ Len(sent) = 0 /\ live = {} /\ pending = {} /\ 1..0 = {}
  BY DEF Init
<1>2. EventsTell
  BY <1>1 DEF EventsTell, OpenedOnceAndFirst, NothingUnopened, OneAfterAnother, AllIsReported, Current
<1>3. Follows(0)
  BY <1>1, Apart DEF Init, Follows, Current
<1>4. pending = 1..Len(sent) /\ 0 \in 0..Len(sent)
  BY <1>1
<1> QED BY <1>1, <1>2, <1>3, <1>4 DEF HandledInTurn

\* As long as each event is handled and saved when it is its turn, the columns of a tenant
\* are those that some number of the first events lead to; what the events say of
\* subscriptions is so in every case.
THEOREM InTurnInductive == Spec => []PInv
<1>1. Init => PInv
  BY InvariantAtFirst, InTurnAtFirst DEF PInv
<1>2. PInv /\ [Next]_vars => PInv'
  BY InvariantKept, EventsTellKept, InTurnKept DEF PInv
<1> QED BY <1>1, <1>2, PTL DEF Spec

\* When all events are handled in turn the columns say what Stripe knows.
LEMMA AllHandled ==
  ASSUME BInv, EventsTell, Follows(Len(sent))
  PROVE  \A t \in Tenants : /\ plan[t] = PlanAtStripe(t)
                            /\ (subId[t] # None) = (\E s \in live : owner[s] = t)
<1>1. live \subseteq Subs /\ \A t \in Tenants : subId[t] \in Subs \cup {None}
  BY DEF BInv, TypeOK
<1>2. DOMAIN sent = 1..Len(sent)
  BY DEF BInv, TypeOK
<1>3. \A t \in Tenants, s \in Subs : subId[t] = s <=> owner[s] = t /\ s \in live
  BY DEF EventsTell, AllIsReported, Follows
<1> SUFFICES ASSUME NEW t \in Tenants
             PROVE  /\ plan[t] = PlanAtStripe(t)
                    /\ (subId[t] # None) = (\E s \in live : owner[s] = t)
  OBVIOUS
<1>4. CASE \E s \in live : owner[s] = t
  <2> DEFINE s == CHOOSE r \in live : owner[r] = t
  <2>1. s \in live /\ owner[s] = t
    BY <1>4
  <2>2. PlanAtStripe(t) = extractPlan(items[s])
    BY <1>4 DEF PlanAtStripe
  <2> HIDE DEF s
  <2>3. s \in Subs /\ subId[t] = s
    BY <1>1, <1>3, <2>1
  <2>4. PICK i \in DOMAIN sent : LastUpdate(s, Len(sent), i) /\ sent[i].items = items[s]
    BY <2>1 DEF EventsTell, AllIsReported
  <2>5. plan[t] = extractPlan(items[s])
    BY <1>2, <2>3, <2>4 DEF Follows
  <2> QED BY <1>4, <2>2, <2>3, <2>5, Apart
<1>5. CASE ~\E s \in live : owner[s] = t
  <2>1. subId[t] = None
    BY <1>1, <1>3, <1>5
  <2>2. plan[t] = "free"
    BY <2>1 DEF BInv, PlanNeedsSubscription, handleGetBilling
  <2> QED BY <1>5, <2>1, <2>2 DEF PlanAtStripe
<1> QED BY <1>4, <1>5

\* With no event pending a tenant has the plan and the subscription that it has at
\* Stripe, lost answers and repeated deliveries notwithstanding: what the webhook needs
\* for it is that the events come in their order and that its UPDATE does not fail.
THEOREM PlansAreTracked == Spec => []PlanIsTrackedUnlessDisturbed
<1>1. PInv => PlanIsTrackedUnlessDisturbed
  <2> SUFFICES ASSUME PInv, ~disturbed, pending = {}
               PROVE  \A t \in Tenants : /\ plan[t] = PlanAtStripe(t)
                                         /\ (subId[t] # None) = (\E s \in live : owner[s] = t)
    BY DEF PlanIsTrackedUnlessDisturbed, Tracked
  <2>1. PICK h \in 0..Len(sent) :
          /\ pending = (h + 1)..Len(sent)
          /\ \E k \in {h, h + 1} : k <= Len(sent) /\ Follows(k)
    BY DEF PInv, HandledInTurn
  <2>2. Len(sent) \in Nat
    BY DEF PInv, BInv, TypeOK
  <2>3. h = Len(sent)
    <3>1. h < Len(sent) => h + 1 \in (h + 1)..Len(sent)
      BY <2>2
    <3> QED BY <2>1, <2>2, <3>1
  <2>4. Follows(Len(sent))
    BY <2>1, <2>2, <2>3
  <2> QED BY <2>4, AllHandled DEF PInv
<1> QED BY <1>1, InTurnInductive, PTL

=============================================================================
