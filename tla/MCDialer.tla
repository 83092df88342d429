------------------------------ MODULE MCDialer ------------------------------
(***************************************************************************)
(* Dialer for TLC.  Subscribing changes nothing else, and nothing that     *)
(* happens to messages and connections reads subs: so that the orders of   *)
(* subscriptions do not multiply the states of those, the run looks at     *)
(* subscriptions that come when no message is under way.                   *)
(***************************************************************************)
EXTENDS Dialer

\* Bound: subscriptions come after the messages, and before or after the network settles.
SubscribesLate ==
    subs' # subs => sends = MaxSends /\ queue = <<>> /\ cur = Idle /\ timers = {}
=============================================================================
