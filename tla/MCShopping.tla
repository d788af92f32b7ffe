----------------------------- MODULE MCShopping -----------------------------
(* Instances of Shopping for TLC. *)
EXTENDS Shopping

CONSTANTS a, b, shop, ask, stop

(* A request that starts a task, one in the course of it, and its end. *)
KindMC == [c \in Chats |-> CASE c = shop -> "shop" [] c = ask -> "text" [] OTHER -> "cancel"]
=============================================================================
