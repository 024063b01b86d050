------------------------ MODULE MCNotificationOutbox ------------------------
(* A small instance of NotificationOutbox. *)
EXTENDS NotificationOutbox, TLC

CONSTANTS c1, c2, c3, k1, k2, d1, d2, p1

\* Two requests that raise the same event, and a third one of its own.
TwoEvents == c1 :> k1 @@ c2 :> k1 @@ c3 :> k2

OneProcess == [x \in {c1, c2, c3, d1, d2} |-> p1]
=============================================================================
