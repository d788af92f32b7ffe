-------------------------- MODULE MCNotifications --------------------------
(* Small instances of Notifications for TLC. *)
EXTENDS Notifications, TLC

(* A provider that loses answers shows a key once, however often asked. *)
ProvidersMC == {p \in Capabilities : p.loses => p.idempotent}
=============================================================================
