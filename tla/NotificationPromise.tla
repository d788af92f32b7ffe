------------------------ MODULE NotificationPromise ------------------------
(***************************************************************************)
(* What the delivery service promises about each notification: the         *)
(* provider shows it at most once and never after its fate is recorded;    *)
(* it is recorded as delivered only when it was shown; a recorded fate is  *)
(* final.                                                                  *)
(***************************************************************************)
EXTENDS Naturals

CONSTANT Notifications

VARIABLES
  fate,   \* what the sender is told of each notification
  shown   \* times the provider showed each notification

promiseVars == <<fate, shown>>

Init == /\ fate = [n \in Notifications |-> "open"]
        /\ shown = [n \in Notifications |-> 0]

Show(n) ==
  /\ fate[n] = "open" /\ shown[n] = 0
  /\ shown' = [shown EXCEPT ![n] = 1]
  /\ UNCHANGED fate

Confirm(n) ==
  /\ fate[n] = "open" /\ shown[n] = 1
  /\ fate' = [fate EXCEPT ![n] = "delivered"]
  /\ UNCHANGED shown

GiveUp(n) ==
  /\ fate[n] = "open"
  /\ fate' = [fate EXCEPT ![n] = "failed"]
  /\ UNCHANGED shown

Next == \E n \in Notifications : Show(n) \/ Confirm(n) \/ GiveUp(n)

Spec == Init /\ [][Next]_promiseVars
=============================================================================
