------------------------------- MODULE Delivery -------------------------------
(***************************************************************************)
(* What leaves the server other than by federation: events for an          *)
(* application service, and push notifications.  They share no state.      *)
(***************************************************************************)
EXTENDS AppServiceScheduler

CONSTANTS PushLimit, MaxPushers, MaxPushFaults

VARIABLES latest, receipt, removed, pushRow, pushers, pool, changed, owed, pushFaults

Push == INSTANCE HttpPusher WITH
    Limit <- PushLimit, row <- pushRow, MaxFaults <- MaxPushFaults, faults <- pushFaults

pushVars == <<latest, receipt, removed, pushRow, pushers, pool, changed, owed, pushFaults>>

\* HttpPusher: the stored position steps over no notification.
NothingSteppedOver == Push!NothingSteppedOver
=============================================================================
