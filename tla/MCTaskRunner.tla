---------------------------- MODULE MCTaskRunner ----------------------------
(* Small instances of TaskRunner for TLC. *)
EXTENDS TaskRunner, TLC

Symmetry == Permutations(Workers)

(* What decides the next step: nothing does that the chat was told. *)
Unspoken == <<vars, daemonVars, threadVars, published>>

(* The pairs that Capture and RecordReview record. *)
PublicationsMC == {<<"captured", "none">>, <<"captured", "unconfirmed">>,
                   <<"captured", "confirmed">>, <<"review_published", "confirmed">>}
=============================================================================
