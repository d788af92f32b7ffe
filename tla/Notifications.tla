--------------------------- MODULE Notifications ---------------------------
(***************************************************************************)
(* Durable delivery of chat messages (src/ruth/app/notifications.py).      *)
(*                                                                         *)
(* A notification is its idempotency key; its record is written before and *)
(* after the call of the chat provider, in separate file transactions, so  *)
(* the process may end between any two of them.  One call holds the epoch  *)
(* lock from its first read to its last write: calls of all threads and    *)
(* processes follow one another, and a new epoch begins between them or    *)
(* after a crash in the middle of one.  recover() holds the lock for all   *)
(* the records it goes through.                                            *)
(*                                                                         *)
(* Edits differ from sends only in what the provider is asked to do: text  *)
(* stands for operation, conversation, message id and text, the fields     *)
(* that _intent_mismatch compares.                                         *)
(***************************************************************************)
EXTENDS Naturals, FiniteSets

CONSTANTS Keys,         \* idempotency keys
          Texts,        \* what callers ask to send
          Providers,    \* capabilities of the chat providers considered
          MaxDelivery,  \* MAX_DELIVERY_ATTEMPTS
          MaxEpochs,    \* bound: daemon starts
          MaxClaims     \* bound: claims of one notification

(* A provider that is not durable only sends and edits; one that loses     *)
(* answers may raise OSError or ChatProviderError for what it has shown.   *)
Capabilities ==
  {p \in [durable : BOOLEAN, reconciles : BOOLEAN, idempotent : BOOLEAN, loses : BOOLEAN] :
     p.reconciles \/ p.idempotent => p.durable}

ASSUME NotificationsAssumption ==
  /\ Keys # {} /\ Texts # {}
  /\ Providers \subseteq Capabilities
  /\ MaxDelivery \in Nat \ {0}
  /\ MaxEpochs \in Nat \ {0}
  /\ MaxClaims \in Nat

VARIABLES
  provider,   \* capabilities of the chat provider, fixed
  record,     \* the durable record of each key
  epoch,      \* generation of the daemon that holds the service
  call,       \* the call in progress
  sweep,      \* keys recover() still has to go through
  recovering, \* whether recover() runs
  recovered,  \* history variable: recover() ended in this epoch
  shown,      \* times the provider showed each text under each key
  calls       \* history variable: deliveries asked of the provider

vars == <<provider, record, epoch, call, sweep, recovering, recovered, shown, calls>>

Unsettled == {"pending", "in_flight", "retryable_failure"}
Settled   == {"delivered", "terminal_failure"}
Statuses  == {"absent"} \union Unsettled \union Settled

(* What a delivery returns or raises: a receipt (for the key, or for       *)
(* another), NotificationDeliveryError, or OSError / ChatProviderError.    *)
Answers == {"delivered", "not_found", "unknown", "foreign",
            "ambiguous", "retryable", "refused", "disconnected"}

NoCall == [pc |-> "idle", key |-> CHOOSE k \in Keys : TRUE,
           text |-> CHOOSE t \in Texts : TRUE, again |-> FALSE, answer |-> "unknown"]

NotificationRecord == [status : Statuses, text : Texts, owner : 0..MaxEpochs, attempts : Nat]
Calls == [pc : {"idle", "claim", "recover", "provide", "answered"}, key : Keys,
          text : Texts, again : BOOLEAN, answer : Answers]

Status(k) == record[k].status

Init ==
  /\ provider \in Providers
  /\ record = [k \in Keys |-> [status |-> "absent", text |-> NoCall.text,
                               owner |-> 0, attempts |-> 0]]
  /\ epoch = 1
  /\ call = NoCall
  /\ sweep = {} /\ recovering = FALSE /\ recovered = FALSE
  /\ shown = [k \in Keys |-> [t \in Texts |-> 0]]
  /\ calls = [k \in Keys |-> 0]

Idle == call.pc = "idle"
Asked == UNCHANGED <<provider, epoch, sweep, recovering, recovered>>

-----------------------------------------------------------------------------
(* _deliver *)

BeginCall(pc, k, t, again) ==
  call' = [NoCall EXCEPT !.pc = pc, !.key = k, !.text = t, !.again = again]

(* Seeded fault: the recorded text is not compared. *)
MatchesAny(k, t) == TRUE

(* A known key with another text is refused, a settled one answered from   *)
(* its record, one in flight in this epoch refused: nothing changes.       *)
Matches(k, t) == record[k].text = t

Send(k, t) ==
  /\ Idle /\ ~recovering
  /\ \/ /\ Status(k) = "absent"
        /\ record' = [record EXCEPT ![k].status = "pending", ![k].text = t]
        /\ BeginCall("claim", k, t, FALSE)
     \/ /\ Status(k) \in {"pending", "retryable_failure"} /\ Matches(k, t)
        /\ BeginCall("claim", k, t, FALSE) /\ UNCHANGED record
     \/ /\ Status(k) = "in_flight" /\ Matches(k, t) /\ record[k].owner # epoch
        /\ BeginCall("recover", k, t, TRUE) /\ UNCHANGED record
  /\ Asked /\ UNCHANGED <<shown, calls>>

(* reclaim_notification *)
Reclaim ==
  LET k == call.key IN
  /\ record[k].attempts < MaxClaims
  /\ record' = [record EXCEPT ![k].status = "in_flight", ![k].owner = epoch,
                              ![k].attempts = @ + 1]
  /\ call' = [call EXCEPT !.pc = "provide"]

Claim ==
  /\ call.pc = "claim"
  /\ Reclaim
  /\ Asked /\ UNCHANGED <<shown, calls>>

-----------------------------------------------------------------------------
(* The chat provider *)

(* An idempotent provider shows a key once, however often it is asked.     *)
Shown(k) == \E t \in Texts : shown[k][t] > 0

Show(k, t) ==
  shown' = IF provider.idempotent /\ Shown(k) THEN shown
           ELSE [shown EXCEPT ![k][t] = @ + 1]

(* Only a durable provider gives receipts of its own; "not_found" is said  *)
(* of a notification that was never shown.                                 *)
AnswersUnshown == {"not_found", "unknown", "foreign", "ambiguous", "retryable",
                   "refused", "disconnected"}
AnswersShown   == {"delivered", "unknown", "foreign", "ambiguous", "refused"}
                  \union (IF provider.loses THEN {"disconnected"} ELSE {})
Possible(a) == provider.durable \/ a \notin {"not_found", "unknown", "foreign"}

Deliver(a) ==
  LET k == call.key IN
  /\ call.pc = "provide"
  /\ Possible(a)
  /\ \/ a \in AnswersShown /\ Show(k, call.text)
     \/ a \in AnswersUnshown /\ (a = "not_found" => ~Shown(k)) /\ UNCHANGED shown
  /\ calls' = [calls EXCEPT ![k] = @ + 1]
  /\ call' = [call EXCEPT !.pc = "answered", !.answer = a]
  /\ Asked /\ UNCHANGED record

-----------------------------------------------------------------------------
(* What is recorded of the answer (_invoke_provider) *)

(* A retryable failure found on the way to a delivery is retried at once.  *)
Settle(k, status) ==
  /\ record' = [record EXCEPT ![k].status = status]
  /\ call' = IF call.again /\ status = "retryable_failure"
             THEN [call EXCEPT !.pc = "claim", !.again = FALSE]
             ELSE NoCall

Fail(k, terminal) == Settle(k, IF terminal THEN "terminal_failure" ELSE "retryable_failure")

Exhausted(k) == record[k].attempts >= MaxDelivery

(* Seeded fault: an unknown outcome may be retried with any provider. *)
TerminalHopeful(k, a) ==
  CASE a \in {"not_found", "unknown"} -> FALSE
    [] a = "ambiguous"  -> ~provider.idempotent \/ Exhausted(k)
    [] a \in {"retryable", "disconnected"} -> Exhausted(k)
    [] OTHER            -> TRUE

Terminal(k, a) ==
  CASE a = "not_found"  -> FALSE
    [] a = "unknown"    -> ~provider.idempotent
    [] a = "ambiguous"  -> ~provider.idempotent \/ Exhausted(k)
    [] a \in {"retryable", "disconnected"} -> Exhausted(k)
    [] OTHER            -> TRUE

RecordAnswer ==
  LET k == call.key IN
  /\ call.pc = "answered"
  /\ IF call.answer = "delivered" THEN Settle(k, "delivered")
     ELSE Fail(k, Terminal(k, call.answer))
  /\ Asked /\ UNCHANGED <<shown, calls>>

-----------------------------------------------------------------------------
(* _recover_in_flight *)

Retry(k) == IF Exhausted(k) THEN Fail(k, TRUE) ELSE Reclaim

RecoverInFlight ==
  LET k == call.key IN
  /\ call.pc = "recover"
  /\ \/ ~provider.reconciles /\ ~provider.idempotent /\ Fail(k, TRUE)
     \/ ~provider.reconciles /\ provider.idempotent /\ Retry(k)
     \/ /\ provider.reconciles
        /\ \/ Fail(k, ~provider.idempotent)        \* reconciliation fails
           \/ Shown(k) /\ Settle(k, "delivered")
           \/ ~Shown(k) /\ Retry(k)
           \/ IF provider.idempotent THEN Retry(k) ELSE Fail(k, TRUE)  \* unknown
  /\ Asked /\ UNCHANGED <<shown, calls>>

(* Seeded fault: notifications in flight are not gone through. *)
BeginRecoverPartly ==
  /\ Idle /\ ~recovering
  /\ recovering' = TRUE
  /\ sweep' = {k \in Keys : Status(k) \in {"pending", "retryable_failure"}}
  /\ UNCHANGED <<provider, record, epoch, call, recovered, shown, calls>>

(* recover() *)
BeginRecover ==
  /\ Idle /\ ~recovering
  /\ recovering' = TRUE
  /\ sweep' = {k \in Keys : Status(k) \in Unsettled}
  /\ UNCHANGED <<provider, record, epoch, call, recovered, shown, calls>>

RecoverNext(k) ==
  /\ recovering /\ Idle /\ k \in sweep
  /\ sweep' = sweep \ {k}
  /\ BeginCall(IF Status(k) = "in_flight" THEN "recover" ELSE "claim", k, record[k].text, FALSE)
  /\ UNCHANGED <<provider, record, epoch, recovering, recovered, shown, calls>>

EndRecover ==
  /\ recovering /\ Idle /\ sweep = {}
  /\ recovering' = FALSE /\ recovered' = TRUE
  /\ UNCHANGED <<provider, record, epoch, call, sweep, shown, calls>>

-----------------------------------------------------------------------------
(* An exception that is not a delivery failure leaves the call: a signal,  *)
(* or a write of the record that fails.                                    *)
Interrupt ==
  /\ ~Idle
  /\ call' = NoCall /\ sweep' = {} /\ recovering' = FALSE
  /\ UNCHANGED <<provider, record, epoch, recovered, shown, calls>>

(* The process ends anywhere, or between calls loses its epoch to another. *)
Restart ==
  /\ epoch < MaxEpochs /\ epoch' = epoch + 1
  /\ call' = NoCall /\ sweep' = {} /\ recovering' = FALSE /\ recovered' = FALSE
  /\ UNCHANGED <<provider, record, shown, calls>>

Next ==
  \/ \E k \in Keys, t \in Texts : Send(k, t)
  \/ Claim
  \/ \E a \in Answers : Deliver(a)
  \/ RecordAnswer \/ RecoverInFlight
  \/ BeginRecover \/ EndRecover
  \/ \E k \in Keys : RecoverNext(k)
  \/ Interrupt \/ Restart

Spec == Init /\ [][Next]_vars

-----------------------------------------------------------------------------
(* Properties *)

(* Every variable stays in its range. *)
NotificationsTypeOK ==
  /\ provider \in Capabilities
  /\ record \in [Keys -> NotificationRecord]
  /\ epoch \in 1..MaxEpochs
  /\ call \in Calls
  /\ sweep \in SUBSET Keys
  /\ recovering \in BOOLEAN /\ recovered \in BOOLEAN
  /\ shown \in [Keys -> [Texts -> Nat]]
  /\ calls \in [Keys -> Nat]

(* Whatever is retried, recovered or asked for again under a key, the      *)
(* provider never shows another text than the one first recorded for it.   *)
OneText == \A k \in Keys, t \in Texts : shown[k][t] > 0 => record[k].text = t

(* An attempt is counted before it is made: a crash in the middle of a     *)
(* delivery cannot make it free.                                           *)
AttemptsCounted == \A k \in Keys : calls[k] <= record[k].attempts

(* Once recover() has ended, a notification in flight is one this epoch    *)
(* sent: no ambiguous delivery of an earlier one is left unsettled.        *)
RecoveredClean ==
  recovered => \A k \in Keys : Status(k) = "in_flight" => record[k].owner = epoch

(* The service keeps its promise wherever it crashes, with every provider  *)
(* but one that loses answers and shows a repeated key again: an OSError   *)
(* or a ChatProviderError after the text was shown is retried.             *)
Fate(s) == IF s \in Unsettled \union {"absent"} THEN "open"
           ELSE IF s = "delivered" THEN "delivered" ELSE "failed"

Promise == INSTANCE NotificationPromise WITH
             Notifications <- Keys \X Texts,
             fate  <- [n \in Keys \X Texts |->
                         IF record[n[1]].text = n[2] THEN Fate(Status(n[1])) ELSE "open"],
             shown <- [n \in Keys \X Texts |-> shown[n[1]][n[2]]]
PromiseSpec == Promise!Spec
=============================================================================
