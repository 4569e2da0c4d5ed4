---------------------------- MODULE MCStripeWebhook ----------------------------
(* StripeWebhook on a small instance: deliveries of one event, REST requests.  *)
EXTENDS StripeWebhook, TLC

CONSTANTS d1, d2, t1, t2, t3, p1, p2

\* The event delivered twice beside one request; three requests and no event.
Together == {{d1, d2, t1}, {t1, t2, t3}}
Twice == {{d1, d2}}
Requests == {{t1, t2}}

\* What the metadata of an order may say: its project or not, hosted or a bundle.
AnyOrder ==
    [project_id : {d1 :> p1 @@ d2 :> p1, d1 :> p1 @@ d2 :> p2}, hosted : BOOLEAN]

\* Without a delivery the order makes no difference: one will do.
NoEvent == [project_id |-> d1 :> p1 @@ d2 :> p1, hosted |-> FALSE]
MCInit == Init /\ ((\A d \in Deliveries : handler[d] = "lost") => order = NoEvent)
MCSpec == MCInit /\ [][Next]_vars /\ Fairness

\* Orders for a bundle that do not name their project.
AnyBundle == [project_id : {d1 :> p1 @@ d2 :> p2}, hosted : {FALSE}]
===============================================================================
