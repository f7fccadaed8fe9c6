------------------------------- MODULE MCRouter -------------------------------
(* Instances of Router for TLC. *)
EXTENDS Router

\* One request of every kind.
MCAll == Message

\* What a pool of one connection has to serve: with a role, without, on no route, with
\* a mail to send.
MCFew ==
  {m \in Message :
     \/ m.path \in {<<"/invites", "/accept">>, <<"/projects", "/:id", "/x">>, <<"/audit">>} /\ m.role = "member"
     \/ m.path = <<"/audit">> /\ m.role = "admin"
     \/ m.method = "POST" /\ m.path = <<"/invites">> /\ m.role = "admin"}

\* A request of any kind is alone, and those of the few kinds meet.
SendSome ==
  \E r \in Requests, m \in Sent :
    /\ LET others == {q \in Requests : phase[q] # "idle"} IN
         others = {} \/ \A q \in others : {m, msg[q]} \subseteq MCFew
    /\ Send(r, m)

SomeNext == SendSome \/ \E r \in Requests : Step(r) \/ BeginFails(r) \/ Hang(r)
SomeSpec == Init /\ [][SomeNext]_vars /\ Fairness
===============================================================================
