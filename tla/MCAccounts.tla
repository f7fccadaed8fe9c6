------------------------------ MODULE MCAccounts ------------------------------
(* Instances of Accounts for TLC. *)
EXTENDS Accounts, TLC

CONSTANT First  \* a request that has registered the first user
Others == Requests \ {First}

\* The slugs are "a", "a", "b", and none.
MCNames == {<<"a">>, <<"-", "A">>, <<"B">>, <<" ">>}

Symmetry == Permutations(Emails) \cup Permutations(Passwords) \cup Permutations(Others)

\* What a registration leaves: to find two users who exchange their addresses takes two
\* more requests.
FirstInit ==
  \E m \in Message :
    /\ m.kind = "register" /\ m.name = <<" ">>
    /\ users = {[id |-> First, email |-> m.email, password |-> m.password]}
    /\ tenants = {[id |-> First, name |-> m.name, slug |-> slugify(m.name)]}
    /\ members = {First} /\ sessions = {[user |-> First, by |-> First]}
    /\ log = {}
    /\ pc = [r \in Requests |-> IF r = First THEN "201" ELSE "idle"]
    /\ msg = [r \in Requests |-> IF r = First THEN m ELSE NoMessage]
    /\ found = [r \in Requests |-> None]
    /\ overtook = {}

\* Bounds: the others register with other names and the same password, and only the first
\* leaves its tenant.
FirstNext ==
  \/ \E r \in Requests, m \in Message :
       /\ m.kind = "register" => m.name # <<" ">> /\ m.password = msg[First].password
       /\ Send(r, m)
  \/ \E r \in Requests : Step(r) \/ Fails(r)
  \/ Leave(First)
FirstSpec == FirstInit /\ [][FirstNext]_vars
===============================================================================
