------------------------ MODULE MCSubscriptionStore -------------------------
(* Subscriptions of one subscriber.                                        *)
EXTENDS SubscriptionStore

CONSTANTS u1

OneSubscriber == [s \in Subs |-> u1]
=============================================================================
