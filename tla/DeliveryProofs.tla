--------------------------- MODULE DeliveryProofs ---------------------------
(***************************************************************************)
(* Proofs about what Ruth delivers: notifications to their provider        *)
(* (Notifications), for any number of keys, texts and daemons and any      *)
(* limit of attempts; and the events of tasks to the hooks of extensions   *)
(* (TaskEvents), for any number of tasks, extensions, daemons and faults.  *)
(* The two components share no state; each has its own inductive           *)
(* invariant, NotificationsInv and EventsInv.                              *)
(***************************************************************************)
EXTENDS Notifications, TaskEvents, TLAPS

(* The providers with which the promise can be kept: see PromiseSpec.      *)
Honest(p) == p.loses => p.idempotent

(* The call in progress is about a notification that is not settled, and   *)
(* in flight once the provider may be asked.                               *)
CallFits ==
  ~Idle => /\ call.text = record[call.key].text
           /\ Status(call.key) \in IF call.pc = "claim" THEN {"pending", "retryable_failure"}
                                   ELSE {"in_flight"}

(* Nothing was shown under a key nobody recorded.                          *)
UnsentUnshown == \A k \in Keys : Status(k) = "absent" => ~Shown(k)

(* recover() has only unsettled notifications ahead of it, and apart from  *)
(* the one it is at.                                                       *)
SweepFits == /\ ~recovering => sweep = {}
             /\ \A k \in sweep : Status(k) \in Unsettled /\ (Idle \/ call.key # k)

(* The provider is asked no more than was counted beforehand.              *)
CallCounted == call.pc = "provide" => calls[call.key] < record[call.key].attempts

(* While recover() runs, what an earlier epoch left in flight is still     *)
(* ahead of it.                                                            *)
SweepCovers ==
  recovering => \A k \in Keys : Status(k) = "in_flight" /\ record[k].owner # epoch =>
                  k \in sweep \/ (call.pc = "recover" /\ call.key = k)

(* What the answer that is about to be recorded says was shown.            *)
AnswerTrue ==
  call.pc = "answered" =>
    /\ call.answer = "delivered" => shown[call.key][call.text] > 0
    /\ ~provider.idempotent /\ Honest(provider)
         /\ call.answer \in {"not_found", "retryable", "disconnected"} => ~Shown(call.key)

(* A provider that does not know its keys is only asked for what it never  *)
(* showed.                                                                 *)
AskedUnshown ==
  Honest(provider) =>
    /\ \A k \in Keys, t \in Texts : shown[k][t] \in {0, 1}
    /\ ~provider.idempotent =>
         /\ \A k \in Keys : Status(k) \in {"pending", "retryable_failure"} => ~Shown(k)
         /\ call.pc = "provide" => ~Shown(call.key)

NotificationsInv ==
  /\ NotificationsTypeOK
  /\ CallFits /\ UnsentUnshown /\ OneText
  /\ AttemptsCounted /\ CallCounted
  /\ SweepFits /\ SweepCovers /\ RecoveredClean
  /\ AnswerTrue /\ AskedUnshown

-----------------------------------------------------------------------------
(* What the parts of a step write *)

LEMMA NoCallFields ==
  /\ NoCall \in Calls /\ NoCall.pc = "idle"
  /\ NoCall.key \in Keys /\ NoCall.text \in Texts
<1>1. (CHOOSE k \in Keys : TRUE) \in Keys /\ (CHOOSE t \in Texts : TRUE) \in Texts
  BY NotificationsAssumption
<1>2. QED
  BY <1>1 DEF NoCall, Calls, Answers

LEMMA BeginCallWrites ==
  ASSUME NEW pc \in {"claim", "recover"}, NEW k \in Keys, NEW t \in Texts,
         NEW again \in BOOLEAN, BeginCall(pc, k, t, again)
  PROVE  call' \in Calls /\ call'.pc = pc /\ call'.key = k /\ call'.text = t
<1>1. NoCall \in Calls
  BY NoCallFields
<1>2. QED
  BY <1>1 DEF BeginCall, Calls

(* All of a record but what is named stays. *)
OnlyRecord(k) == \A j \in Keys : j # k => record'[j] = record[j]

LEMMA SettleWrites ==
  ASSUME NotificationsTypeOK, NEW s \in Settled \union {"retryable_failure"}, Settle(call.key, s)
  PROVE  /\ record' \in [Keys -> NotificationRecord] /\ call' \in Calls
         /\ OnlyRecord(call.key)
         /\ record'[call.key].status = s
         /\ record'[call.key].text = record[call.key].text
         /\ record'[call.key].attempts = record[call.key].attempts
         /\ \/ call' = NoCall
            \/ /\ s = "retryable_failure" /\ call'.pc = "claim"
               /\ call'.key = call.key /\ call'.text = call.text
<1>1. /\ record \in [Keys -> NotificationRecord] /\ call \in Calls /\ call.key \in Keys
      /\ NoCall \in Calls /\ s \in Statuses
  BY NoCallFields DEF NotificationsTypeOK, Calls, Statuses, Unsettled
<1>2. /\ record' = [record EXCEPT ![call.key].status = s]
      /\ call' = NoCall \/ (s = "retryable_failure" /\ call' = [call EXCEPT !.pc = "claim", !.again = FALSE])
  BY DEF Settle
<1>3. record' \in [Keys -> NotificationRecord]
  BY <1>1, <1>2 DEF NotificationRecord
<1>4. call' \in Calls
  BY <1>1, <1>2 DEF Calls
<1>5. QED
  BY <1>1, <1>2, <1>3, <1>4 DEF OnlyRecord, NotificationRecord, Calls

LEMMA ReclaimWrites ==
  ASSUME NotificationsTypeOK, Reclaim
  PROVE  /\ record' \in [Keys -> NotificationRecord] /\ call' \in Calls
         /\ OnlyRecord(call.key)
         /\ record'[call.key].status = "in_flight" /\ record'[call.key].owner = epoch
         /\ record'[call.key].text = record[call.key].text
         /\ record'[call.key].attempts = record[call.key].attempts + 1
         /\ call'.pc = "provide" /\ call'.key = call.key /\ call'.text = call.text
<1>1. /\ record \in [Keys -> NotificationRecord] /\ call \in Calls /\ call.key \in Keys
      /\ epoch \in 0..MaxEpochs /\ "in_flight" \in Statuses
  BY NotificationsAssumption DEF NotificationsTypeOK, Calls, Statuses, Unsettled
<1>2. /\ record' = [record EXCEPT ![call.key].status = "in_flight", ![call.key].owner = epoch,
                                  ![call.key].attempts = @ + 1]
      /\ call' = [call EXCEPT !.pc = "provide"]
  BY DEF Reclaim
<1>3. record' \in [Keys -> NotificationRecord]
  BY <1>1, <1>2 DEF NotificationRecord
<1>4. call' \in Calls
  BY <1>1, <1>2 DEF Calls
<1>5. QED
  BY <1>1, <1>2, <1>3, <1>4 DEF OnlyRecord, NotificationRecord, Calls

-----------------------------------------------------------------------------
(* What a step does *)

Holds == UNCHANGED <<provider, shown, calls>>

(* A new notification is recorded; *)
Records(k, t) ==
  /\ Idle /\ ~recovering /\ Status(k) = "absent" /\ OnlyRecord(k)
  /\ record'[k].status = "pending" /\ record'[k].text = t
  /\ record'[k].attempts = record[k].attempts
  /\ call'.pc = "claim" /\ call'.key = k /\ call'.text = t
  /\ Holds /\ UNCHANGED <<epoch, sweep, recovering, recovered>>

(* a known one is taken up; *)
TakesUp(k) ==
  /\ Idle
  /\ call'.key = k /\ call'.text = record[k].text
  /\ \/ call'.pc = "claim" /\ Status(k) \in {"pending", "retryable_failure"}
     \/ call'.pc = "recover" /\ Status(k) = "in_flight"
  /\ sweep' = sweep \ {k}
  /\ Holds /\ UNCHANGED <<record, epoch, recovering, recovered>>

(* a claim is counted; *)
Claims ==
  /\ call.pc \in {"claim", "recover"} /\ Reclaim
  /\ call.pc = "recover" => provider.idempotent \/ ~Shown(call.key)
  /\ Holds /\ UNCHANGED <<epoch, sweep, recovering, recovered>>

(* the outcome is recorded, which is a delivery only of what was shown and *)
(* a failure to be retried only if that shows nothing twice; or            *)
Settles(s) ==
  /\ call.pc \in {"answered", "recover"} /\ Settle(call.key, s)
  /\ s = "delivered" => Shown(call.key)
  /\ s = "retryable_failure" /\ ~provider.idempotent /\ Honest(provider) => ~Shown(call.key)
  /\ Holds /\ UNCHANGED <<epoch, sweep, recovering, recovered>>

(* no call is in progress afterwards. *)
Rests ==
  /\ call'.pc = "idle"
  /\ \/ ~recovering' /\ sweep' = {} /\ (recovered' => recovered)
     \/ Idle /\ ~recovering' /\ recovering /\ sweep = {} /\ sweep' = {} /\ recovered'
     \/ Idle /\ recovering' /\ sweep' = {k \in Keys : Status(k) \in Unsettled} /\ (recovered' => recovered)
  /\ epoch' = epoch \/ ~recovered'
  /\ Holds /\ UNCHANGED record

LEMMA SendCases ==
  ASSUME NotificationsTypeOK, SweepFits, NEW k \in Keys, NEW t \in Texts, Send(k, t)
  PROVE  Records(k, t) \/ TakesUp(k)
<1>1. record \in [Keys -> NotificationRecord]
  BY DEF NotificationsTypeOK
<1>2. CASE /\ Status(k) = "absent" /\ BeginCall("claim", k, t, FALSE)
           /\ record' = [record EXCEPT ![k].status = "pending", ![k].text = t]
  <2>1. /\ record'[k].status = "pending" /\ record'[k].text = t
        /\ record'[k].attempts = record[k].attempts /\ OnlyRecord(k)
    BY <1>1, <1>2 DEF NotificationRecord, OnlyRecord
  <2>2. call'.pc = "claim" /\ call'.key = k /\ call'.text = t
    BY <1>2, BeginCallWrites
  <2>3. QED
    BY <1>2, <2>1, <2>2 DEF Send, Asked, Records, Holds
<1>3. ASSUME UNCHANGED record, Matches(k, t), NEW pc \in {"claim", "recover"}, NEW b \in BOOLEAN,
             BeginCall(pc, k, t, b),
             Status(k) \in IF pc = "claim" THEN {"pending", "retryable_failure"} ELSE {"in_flight"}
      PROVE  TakesUp(k)
  <2>1. call'.pc = pc /\ call'.key = k /\ call'.text = t
    BY <1>3, BeginCallWrites
  <2>2. QED
    BY <1>3, <2>1 DEF Send, Asked, Matches, TakesUp, Holds, SweepFits
<1>4. QED
  BY <1>2, <1>3 DEF Send

LEMMA AnswerCases ==
  ASSUME NotificationsTypeOK, AnswerTrue, RecordAnswer
  PROVE  \E s \in Settled \union {"retryable_failure"} : Settles(s)
<1>1. /\ call.pc = "answered" /\ call.text \in Texts /\ call.answer \in Answers /\ Holds
      /\ UNCHANGED <<epoch, sweep, recovering, recovered>>
  BY DEF NotificationsTypeOK, Calls, RecordAnswer, Asked, Holds
<1>2. CASE call.answer = "delivered" /\ Settle(call.key, "delivered")
  <2>1. Shown(call.key)
    BY <1>1, <1>2 DEF AnswerTrue, Shown
  <2>2. QED
    BY <1>1, <1>2, <2>1 DEF Settles, Settled
<1>3. CASE call.answer # "delivered" /\ Fail(call.key, Terminal(call.key, call.answer))
  <2>1. CASE Terminal(call.key, call.answer) /\ Settle(call.key, "terminal_failure")
    BY <1>1, <2>1 DEF Settles, Settled
  <2>2. CASE ~Terminal(call.key, call.answer) /\ Settle(call.key, "retryable_failure")
    <3>1. provider.idempotent \/ call.answer \in {"not_found", "retryable", "disconnected"}
      BY <1>1, <1>3, <2>2 DEF Terminal, Answers
    <3>2. ~provider.idempotent /\ Honest(provider) => ~Shown(call.key)
      BY <1>1, <3>1 DEF AnswerTrue
    <3>3. QED
      BY <1>1, <2>2, <3>2 DEF Settles
  <2>3. QED
    BY <1>3, <2>1, <2>2 DEF Fail
<1>4. QED
  BY <1>2, <1>3 DEF RecordAnswer

LEMMA RecoverCases ==
  ASSUME RecoverInFlight
  PROVE  Claims \/ \E s \in Settled \union {"retryable_failure"} : Settles(s)
<1>1. call.pc = "recover" /\ Holds /\ UNCHANGED <<epoch, sweep, recovering, recovered>>
  BY DEF RecoverInFlight, Asked, Holds
<1>2. CASE Settle(call.key, "terminal_failure")
  BY <1>1, <1>2 DEF Settles, Settled
<1>3. CASE Settle(call.key, "delivered") /\ Shown(call.key)
  BY <1>1, <1>3 DEF Settles, Settled
<1>4. CASE Settle(call.key, "retryable_failure") /\ provider.idempotent
  BY <1>1, <1>4 DEF Settles
<1>5. CASE Reclaim /\ (provider.idempotent \/ ~Shown(call.key))
  BY <1>1, <1>5 DEF Claims
<1>6. QED
  BY <1>2, <1>3, <1>4, <1>5 DEF RecoverInFlight, Retry, Fail

LEMMA StepCases ==
  ASSUME NotificationsTypeOK, SweepFits, AnswerTrue, [Next]_vars
  PROVE  \/ \E k \in Keys, t \in Texts : Records(k, t)
         \/ \E k \in Keys : TakesUp(k)
         \/ Claims
         \/ \E a \in Answers : Deliver(a)
         \/ \E s \in Settled \union {"retryable_failure"} : Settles(s)
         \/ Rests
         \/ UNCHANGED vars
<1>1. CASE Claim
  BY <1>1 DEF Claim, Claims, Asked, Holds
<1>2. CASE BeginRecover \/ EndRecover \/ Interrupt \/ Restart
  BY <1>2, NoCallFields DEF BeginRecover, EndRecover, Interrupt, Restart, Rests, Idle, Holds
<1>3. ASSUME NEW k \in Keys, RecoverNext(k) PROVE TakesUp(k)
  <2> DEFINE pc == IF Status(k) = "in_flight" THEN "recover" ELSE "claim"
  <2>1. record[k].text \in Texts /\ Status(k) \in {"pending", "in_flight", "retryable_failure"}
    BY <1>3 DEF NotificationsTypeOK, NotificationRecord, RecoverNext, SweepFits, Unsettled
  <2>2. call'.pc = pc /\ call'.key = k /\ call'.text = record[k].text
    BY <1>3, <2>1, BeginCallWrites DEF RecoverNext
  <2>3. QED
    BY <1>3, <2>1, <2>2 DEF RecoverNext, TakesUp, Holds
<1>4. QED
  BY <1>1, <1>2, <1>3, SendCases, AnswerCases, RecoverCases DEF Next

-----------------------------------------------------------------------------
(* The parts of the invariant *)

LEMMA NotificationsInit == Init => NotificationsInv
<1> SUFFICES ASSUME Init PROVE NotificationsInv
  OBVIOUS
<1>1. /\ NoCall \in Calls /\ NoCall.pc = "idle" /\ NoCall.text \in Texts
  BY NoCallFields
<1>2. \A k \in Keys : /\ record[k] \in NotificationRecord
                      /\ Status(k) = "absent" /\ record[k].attempts = 0
  <2>1. 0 \in 0..MaxEpochs /\ "absent" \in Statuses
    BY NotificationsAssumption DEF Statuses
  <2>2. QED
    BY <1>1, <2>1 DEF Init, NotificationRecord, Status
<1>3. NotificationsTypeOK
  <2>1. record \in [Keys -> NotificationRecord]
    BY <1>2 DEF Init
  <2>2. provider \in Capabilities /\ 1 \in 1..MaxEpochs /\ epoch = 1
    BY NotificationsAssumption DEF Init
  <2>3. shown \in [Keys -> [Texts -> Nat]] /\ calls \in [Keys -> Nat]
    BY DEF Init
  <2>4. QED
    BY <1>1, <2>1, <2>2, <2>3 DEF Init, NotificationsTypeOK
<1>4. \A k \in Keys : ~Shown(k) /\ \A t \in Texts : shown[k][t] = 0
  BY DEF Init, Shown
<1>5. QED
  BY <1>1, <1>2, <1>3, <1>4 DEF Init, NotificationsInv, CallFits, UnsentUnshown, OneText,
     AttemptsCounted, CallCounted, SweepFits, SweepCovers, RecoveredClean, AnswerTrue,
     AskedUnshown, Idle

LEMMA NotificationsTypeStep ==
  ASSUME NotificationsTypeOK, [Next]_vars PROVE NotificationsTypeOK'
<1> USE DEF NotificationsTypeOK
<1>1. ASSUME NEW k \in Keys, NEW t \in Texts, Send(k, t) PROVE NotificationsTypeOK'
  <2>1. record' \in [Keys -> NotificationRecord]
    <3>1. /\ "pending" \in Statuses
          /\ \/ record' = record
             \/ record' = [record EXCEPT ![k].status = "pending", ![k].text = t]
      BY <1>1 DEF Send, Statuses, Unsettled
    <3>2. QED
      BY <3>1 DEF NotificationRecord
  <2>2. call' \in Calls
    BY <1>1, BeginCallWrites DEF Send
  <2>3. QED
    BY <1>1, <2>1, <2>2 DEF Send, Asked
<1>2. CASE Claim
  BY <1>2, ReclaimWrites DEF Claim, Asked
<1>3. ASSUME NEW a \in Answers, Deliver(a) PROVE NotificationsTypeOK'
  <2>1. call' \in Calls
    BY <1>3 DEF Deliver, Calls
  <2>2. calls' \in [Keys -> Nat]
    BY <1>3 DEF Deliver, Calls
  <2>3. shown' \in [Keys -> [Texts -> Nat]]
    <3>1. \/ shown' = shown
          \/ shown' = [shown EXCEPT ![call.key][call.text] = @ + 1]
      BY <1>3 DEF Deliver, Show
    <3>2. call.key \in Keys /\ call.text \in Texts
      BY DEF Calls
    <3>3. [shown[call.key] EXCEPT ![call.text] = @ + 1] \in [Texts -> Nat]
      BY <3>2
    <3>4. QED
      BY <3>1, <3>2, <3>3
  <2>4. QED
    BY <1>3, <2>1, <2>2, <2>3 DEF Deliver, Asked
<1>4. CASE RecordAnswer
  BY <1>4, SettleWrites DEF RecordAnswer, Fail, Asked, Settled
<1>5. CASE RecoverInFlight
  BY <1>5, SettleWrites, ReclaimWrites DEF RecoverInFlight, Retry, Fail, Asked, Settled
<1>6. CASE BeginRecover \/ EndRecover \/ Interrupt
  BY <1>6, NoCallFields DEF BeginRecover, EndRecover, Interrupt
<1>7. CASE Restart
  <2>1. epoch' \in 1..MaxEpochs
    <3>1. MaxEpochs \in Nat
      BY NotificationsAssumption
    <3>2. QED
      BY <1>7, <3>1 DEF Restart
  <2>2. QED
    BY <1>7, <2>1, NoCallFields DEF Restart
<1>8. ASSUME NEW k \in Keys, RecoverNext(k) PROVE NotificationsTypeOK'
  <2>1. record[k].text \in Texts
    BY DEF NotificationRecord
  <2>2. call' \in Calls
    BY <1>8, <2>1, BeginCallWrites DEF RecoverNext
  <2>3. QED
    BY <1>8, <2>2 DEF RecoverNext
<1>9. CASE UNCHANGED vars
  BY <1>9 DEF vars
<1>10. QED
  BY <1>1, <1>2, <1>3, <1>4, <1>5, <1>6, <1>7, <1>8, <1>9 DEF Next

LEMMA DeliverWrites ==
  ASSUME NotificationsTypeOK, NEW a \in Answers, Deliver(a)
  PROVE  /\ call.pc = "provide" /\ call.key \in Keys /\ call.text \in Texts
         /\ call'.pc = "answered" /\ call'.answer = a
         /\ call'.key = call.key /\ call'.text = call.text
         /\ UNCHANGED <<provider, record, epoch, sweep, recovering, recovered>>
         /\ \A k \in Keys : calls'[k] = IF k = call.key THEN calls[k] + 1 ELSE calls[k]
         /\ \/ shown' = shown
            \/ /\ provider.idempotent => ~Shown(call.key)
               /\ \A k \in Keys, t \in Texts :
                    shown'[k][t] = IF k = call.key /\ t = call.text THEN shown[k][t] + 1
                                   ELSE shown[k][t]
<1>1. call \in Calls /\ call.key \in Keys /\ call.text \in Texts
  BY DEF NotificationsTypeOK, Calls
<1>2. call' = [call EXCEPT !.pc = "answered", !.answer = a] /\ call.pc = "provide"
  BY DEF Deliver
<1>3. call'.pc = "answered" /\ call'.answer = a /\ call'.key = call.key /\ call'.text = call.text
  BY <1>1, <1>2 DEF Calls
<1>4. ASSUME Show(call.key, call.text)
      PROVE  \/ shown' = shown
             \/ /\ provider.idempotent => ~Shown(call.key)
                /\ \A k \in Keys, t \in Texts :
                     shown'[k][t] = IF k = call.key /\ t = call.text THEN shown[k][t] + 1
                                    ELSE shown[k][t]
  BY <1>1, <1>4 DEF Show, NotificationsTypeOK
<1>5. QED
  BY <1>1, <1>2, <1>3, <1>4 DEF Deliver, Asked, NotificationsTypeOK

LEMMA CallFitsStep ==
  ASSUME NotificationsInv, [Next]_vars PROVE CallFits'
<1> USE DEF CallFits, Idle, Status
<1>1. NotificationsTypeOK /\ CallFits /\ call \in Calls
  BY DEF NotificationsInv, NotificationsTypeOK
<1>2. ASSUME NEW k \in Keys, NEW t \in Texts, Records(k, t) PROVE CallFits'
  BY <1>2 DEF Records
<1>3. ASSUME NEW k \in Keys, TakesUp(k) PROVE CallFits'
  BY <1>3 DEF TakesUp
<1>4. CASE Claims
  BY <1>1, <1>4, ReclaimWrites DEF Claims
<1>5. ASSUME NEW a \in Answers, Deliver(a) PROVE CallFits'
  BY <1>1, <1>5, DeliverWrites
<1>6. ASSUME NEW s \in Settled \union {"retryable_failure"}, Settles(s) PROVE CallFits'
  BY <1>1, <1>6, SettleWrites, NoCallFields DEF Settles
<1>7. CASE Rests
  BY <1>7 DEF Rests
<1>8. QED
  BY <1>1, <1>2, <1>3, <1>4, <1>5, <1>6, <1>7, StepCases DEF NotificationsInv, vars

(* A step gives a record that exists another status, never another text,   *)
(* and shows nothing but the text of the call.                             *)
LEMMA RecordsKeep ==
  ASSUME NotificationsInv, [Next]_vars, NEW k \in Keys
  PROVE  /\ Status(k) = "absent" \/ (Status(k)' # "absent" /\ record'[k].text = record[k].text)
         /\ record'[k] = record[k] \/ Status(k)' # "absent"
         /\ record[k].attempts <= record'[k].attempts
         /\ \/ UNCHANGED <<shown, calls>>
            \/ /\ \E a \in Answers : Deliver(a)
               /\ record' = record /\ Status(call.key) = "in_flight"
               /\ call.text = record[call.key].text
<1> USE DEF Status
<1>1. NotificationsTypeOK /\ CallFits /\ record[k].attempts \in Nat
  BY DEF NotificationsInv, NotificationsTypeOK, NotificationRecord
<1>2. ASSUME NEW j \in Keys, NEW t \in Texts, Records(j, t)
      PROVE  /\ Status(k) = "absent" \/ record'[k] = record[k]
             /\ record'[k] = record[k] \/ record'[k].status # "absent"
             /\ record[k].attempts <= record'[k].attempts
             /\ UNCHANGED <<shown, calls>>
  BY <1>1, <1>2 DEF Records, Holds, OnlyRecord
<1>3. ASSUME NEW j \in Keys, TakesUp(j) PROVE UNCHANGED <<record, shown, calls>>
  BY <1>3 DEF TakesUp, Holds
<1>4. CASE Claims
  <2>1. UNCHANGED <<shown, calls>> /\ call.key \in Keys /\ record[call.key].attempts \in Nat
    BY <1>1, <1>4 DEF Claims, Holds, NotificationsTypeOK, Calls, NotificationRecord
  <2>2. QED
    BY <1>1, <1>4, <2>1, ReclaimWrites DEF Claims, OnlyRecord
<1>5. ASSUME NEW a \in Answers, Deliver(a)
      PROVE  record' = record /\ Status(call.key) = "in_flight" /\ call.text = record[call.key].text
  BY <1>1, <1>5, DeliverWrites DEF CallFits, Idle
<1>6. ASSUME NEW s \in Settled \union {"retryable_failure"}, Settles(s)
      PROVE  /\ Status(k) = "absent" \/ (record'[k].status # "absent" /\ record'[k].text = record[k].text)
             /\ record'[k] = record[k] \/ record'[k].status # "absent"
             /\ record[k].attempts <= record'[k].attempts
             /\ UNCHANGED <<shown, calls>>
  <2>1. s # "absent" /\ UNCHANGED <<shown, calls>>
    BY <1>6 DEF Settled, Settles, Holds
  <2>2. QED
    BY <1>1, <1>6, <2>1, SettleWrites DEF Settles, OnlyRecord
<1>7. CASE Rests \/ UNCHANGED vars
  <2>1. UNCHANGED <<record, shown, calls>>
    BY <1>7 DEF Rests, Holds, vars
  <2>2. QED
    BY <1>1, <2>1
<1>8. CASE record' = record
  BY <1>1, <1>8, <1>2, <1>3, <1>4, <1>5, <1>6, <1>7, StepCases DEF NotificationsInv
<1>9. CASE record' # record
  <2>1. \A a \in Answers : ~Deliver(a)
    BY <1>5, <1>9
  <2>2. \A j \in Keys : ~TakesUp(j)
    BY <1>3, <1>9
  <2>3. QED
    BY <1>1, <2>1, <2>2, <1>2, <1>4, <1>6, <1>7, StepCases DEF NotificationsInv
<1>10. QED
  BY <1>8, <1>9

LEMMA ShownKeeps ==
  ASSUME NotificationsInv, [Next]_vars, UNCHANGED shown, NEW k \in Keys
  PROVE  Shown(k)' = Shown(k)
  BY DEF Shown

LEMMA OneTextStep ==
  ASSUME NotificationsInv, [Next]_vars PROVE OneText' /\ UnsentUnshown'
<1>1. /\ NotificationsTypeOK /\ OneText /\ UnsentUnshown
  BY DEF NotificationsInv
<1>2. ASSUME NEW k \in Keys, NEW t \in Texts, shown'[k][t] > 0
      PROVE  Status(k)' # "absent" /\ record'[k].text = t
  <2>1. CASE shown[k][t] > 0
    <3>1. Status(k) # "absent" /\ record[k].text = t
      BY <1>1, <2>1 DEF OneText, UnsentUnshown, Shown
    <3>2. QED
      BY <3>1, RecordsKeep
  <2>2. CASE ~(shown[k][t] > 0)
    <3>1. PICK a \in Answers : Deliver(a)
      BY <1>2, <2>2, RecordsKeep
    <3>2. k = call.key /\ t = call.text
      BY <1>1, <1>2, <2>2, <3>1, DeliverWrites
    <3>3. record' = record /\ Status(k) = "in_flight" /\ record[k].text = t
      BY <1>2, <2>2, <3>2, RecordsKeep
    <3>4. QED
      BY <3>3 DEF Status
  <2>3. QED
    BY <2>1, <2>2
<1>3. QED
  BY <1>2 DEF OneText, UnsentUnshown, Shown

LEMMA CountedStep ==
  ASSUME NotificationsInv, [Next]_vars PROVE AttemptsCounted' /\ CallCounted'
<1>1. /\ NotificationsTypeOK /\ AttemptsCounted /\ CallCounted
      /\ \A k \in Keys : record[k].attempts \in Nat /\ record'[k].attempts \in Nat
                         /\ calls[k] \in Nat
  BY NotificationsTypeStep DEF NotificationsInv, NotificationsTypeOK, NotificationRecord
<1>2. ASSUME NEW a \in Answers, Deliver(a) PROVE AttemptsCounted' /\ CallCounted'
  BY <1>1, <1>2, DeliverWrites DEF AttemptsCounted, CallCounted
<1>3. ASSUME UNCHANGED calls PROVE AttemptsCounted'
  BY <1>1, <1>3, RecordsKeep DEF AttemptsCounted
<1>4. CASE Claims
  <2>1. /\ call.key \in Keys /\ call'.key = call.key /\ UNCHANGED calls
        /\ record'[call.key].attempts = record[call.key].attempts + 1
    BY <1>1, <1>4, ReclaimWrites DEF Claims, Holds, NotificationsTypeOK, Calls
  <2>2. calls[call.key] <= record[call.key].attempts
    BY <1>1, <2>1 DEF AttemptsCounted
  <2>3. QED
    BY <1>1, <1>3, <2>1, <2>2 DEF CallCounted
<1>5. ASSUME UNCHANGED calls, call'.pc # "provide" PROVE AttemptsCounted' /\ CallCounted'
  BY <1>3, <1>5 DEF CallCounted
<1>6. ASSUME NEW k \in Keys, NEW t \in Texts, Records(k, t) PROVE UNCHANGED calls /\ call'.pc # "provide"
  BY <1>6 DEF Records, Holds
<1>7. ASSUME NEW k \in Keys, TakesUp(k) PROVE UNCHANGED calls /\ call'.pc # "provide"
  BY <1>7 DEF TakesUp, Holds
<1>8. ASSUME NEW s \in Settled \union {"retryable_failure"}, Settles(s)
      PROVE  UNCHANGED calls /\ call'.pc # "provide"
  BY <1>1, <1>8, SettleWrites, NoCallFields DEF Settles, Holds
<1>9. CASE Rests
  BY <1>9, <1>5 DEF Rests, Holds
<1>10. CASE UNCHANGED vars
  BY <1>1, <1>10 DEF vars, AttemptsCounted, CallCounted
<1>11. QED
  BY <1>1, <1>2, <1>4, <1>5, <1>6, <1>7, <1>8, <1>9, <1>10, StepCases DEF NotificationsInv

LEMMA SweepStep ==
  ASSUME NotificationsInv, [Next]_vars PROVE SweepFits' /\ SweepCovers' /\ RecoveredClean'
<1> USE DEF SweepFits, SweepCovers, RecoveredClean, Status, Idle
<1>1. /\ NotificationsTypeOK /\ SweepFits /\ SweepCovers /\ RecoveredClean /\ CallFits
      /\ call \in Calls /\ call.key \in Keys /\ sweep \subseteq Keys
  BY DEF NotificationsInv, NotificationsTypeOK, Calls
<1>2. ASSUME NEW k \in Keys, NEW t \in Texts, Records(k, t)
      PROVE  SweepFits' /\ SweepCovers' /\ RecoveredClean'
  <2>1. sweep = {} /\ ~recovering /\ UNCHANGED <<sweep, recovering, recovered, epoch>>
    BY <1>1, <1>2 DEF Records
  <2>2. RecoveredClean'
    BY <1>1, <1>2, <2>1 DEF Records, OnlyRecord
  <2>3. QED
    BY <2>1, <2>2
<1>3. ASSUME NEW k \in Keys, TakesUp(k) PROVE SweepFits' /\ SweepCovers' /\ RecoveredClean'
  <2>1. CASE recovering
    BY <1>1, <1>3, <2>1 DEF TakesUp
  <2>2. CASE ~recovering
    BY <1>1, <1>3, <2>2 DEF TakesUp
  <2>3. QED
    BY <2>1, <2>2
<1>4. ASSUME OnlyRecord(call.key), UNCHANGED <<epoch, sweep, recovering, recovered>>, ~Idle,
             call' = NoCall \/ call'.key = call.key,
             record'[call.key].status = "in_flight" => record'[call.key].owner = epoch
      PROVE  SweepFits' /\ SweepCovers' /\ RecoveredClean'
  <2>1. \A k \in sweep : k # call.key /\ record'[k] = record[k]
    BY <1>1, <1>4 DEF OnlyRecord
  <2>2. SweepFits'
    BY <1>1, <1>4, <2>1, NoCallFields
  <2>3. SweepCovers' /\ RecoveredClean'
    BY <1>1, <1>4 DEF OnlyRecord
  <2>4. QED
    BY <2>2, <2>3
<1>5. CASE Claims
  BY <1>1, <1>4, <1>5, ReclaimWrites DEF Claims
<1>6. ASSUME NEW a \in Answers, Deliver(a) PROVE SweepFits' /\ SweepCovers' /\ RecoveredClean'
  BY <1>1, <1>6, DeliverWrites
<1>7. ASSUME NEW s \in Settled \union {"retryable_failure"}, Settles(s)
      PROVE  SweepFits' /\ SweepCovers' /\ RecoveredClean'
  <2>1. s # "in_flight"
    BY DEF Settled
  <2>2. QED
    BY <1>1, <1>4, <1>7, <2>1, SettleWrites DEF Settles
<1>8. CASE Rests
  <2>1. CASE ~recovering' /\ sweep' = {} /\ (recovered' => recovered)
    <3>1. SweepFits' /\ SweepCovers'
      BY <2>1
    <3>2. record' = record /\ (recovered' => recovered /\ epoch' = epoch)
      BY <1>8, <2>1 DEF Rests
    <3>3. RecoveredClean'
      BY <1>1, <3>2
    <3>4. QED
      BY <3>1, <3>3
  <2>2. CASE Idle /\ ~recovering' /\ recovering /\ sweep = {} /\ sweep' = {} /\ recovered'
    <3>1. \A k \in Keys : Status(k) = "in_flight" => record[k].owner = epoch
      BY <1>1, <2>2
    <3>2. record' = record /\ epoch' = epoch
      BY <1>8, <2>2 DEF Rests
    <3>3. SweepFits' /\ SweepCovers'
      BY <1>1, <2>2, <3>2
    <3>4. RecoveredClean'
      BY <3>1, <3>2
    <3>5. QED
      BY <3>3, <3>4
  <2>3. CASE Idle /\ recovering' /\ sweep' = {k \in Keys : Status(k) \in Unsettled} /\ (recovered' => recovered)
    BY <1>1, <1>8, <2>3 DEF Rests, Unsettled
  <2>4. QED
    BY <1>8, <2>1, <2>2, <2>3 DEF Rests
<1>9. CASE UNCHANGED vars
  BY <1>1, <1>9 DEF vars
<1>10. QED
  BY <1>1, <1>2, <1>3, <1>5, <1>6, <1>7, <1>8, <1>9, StepCases DEF NotificationsInv

LEMMA AnswerStep ==
  ASSUME NotificationsInv, [Next]_vars PROVE AnswerTrue'
<1>1. /\ NotificationsTypeOK /\ AnswerTrue /\ AskedUnshown /\ CallFits /\ OneText
  BY DEF NotificationsInv
<1>2. ASSUME NEW a \in Answers, Deliver(a) PROVE AnswerTrue'
  <2> DEFINE k == call.key
             t == call.text
  <2>1. /\ call.pc = "provide" /\ k \in Keys /\ t \in Texts
        /\ call'.key = k /\ call'.text = t /\ call'.answer = a /\ provider' = provider
    BY <1>1, <1>2, DeliverWrites
  <2>2. a = "delivered" => shown'[k][t] > 0
    <3>1. SUFFICES ASSUME a = "delivered" PROVE shown'[k][t] > 0
      OBVIOUS
    <3>2. Show(k, t)
      BY <1>2, <3>1 DEF Deliver, AnswersUnshown
    <3>3. CASE shown' = shown /\ Shown(k)
      <4>1. PICK u \in Texts : shown[k][u] > 0
        BY <3>3 DEF Shown
      <4>2. u = t
        BY <1>1, <2>1, <4>1 DEF OneText, CallFits, Idle
      <4>3. QED
        BY <3>3, <4>1, <4>2
    <3>4. CASE shown' = [shown EXCEPT ![k][t] = @ + 1]
      <4>1. shown'[k][t] = shown[k][t] + 1 /\ shown[k][t] \in Nat
        BY <1>1, <2>1, <3>4 DEF NotificationsTypeOK
      <4>2. QED
        BY <4>1
    <3>5. QED
      BY <3>2, <3>3, <3>4 DEF Show
  <2>3. ASSUME ~provider.idempotent, Honest(provider), a \in {"not_found", "retryable", "disconnected"}
        PROVE  \A u \in Texts : ~(shown'[k][u] > 0)
    <3>1. shown' = shown
      BY <1>2, <2>3 DEF Deliver, AnswersShown, Honest
    <3>2. ~Shown(k)
      BY <1>1, <2>1, <2>3 DEF AskedUnshown
    <3>3. QED
      BY <3>1, <3>2 DEF Shown
  <2>4. QED
    BY <2>1, <2>2, <2>3 DEF AnswerTrue, Shown
<1>3. ASSUME call'.pc # "answered" PROVE AnswerTrue'
  BY <1>3 DEF AnswerTrue
<1>4. ASSUME NEW k \in Keys, NEW t \in Texts, Records(k, t) \/ TakesUp(k) PROVE call'.pc # "answered"
  BY <1>4 DEF Records, TakesUp
<1>5. Claims => call'.pc # "answered"
  BY <1>1, ReclaimWrites DEF Claims
<1>6. ASSUME NEW s \in Settled \union {"retryable_failure"}, Settles(s) PROVE call'.pc # "answered"
  BY <1>1, <1>6, SettleWrites, NoCallFields DEF Settles
<1>7. Rests => call'.pc # "answered"
  BY DEF Rests
<1>8. CASE UNCHANGED vars
  BY <1>1, <1>8 DEF vars, AnswerTrue, Shown
<1>9. QED
  BY <1>1, <1>2, <1>3, <1>4, <1>5, <1>6, <1>7, <1>8, NotificationsAssumption, StepCases DEF NotificationsInv

LEMMA UnshownStep ==
  ASSUME NotificationsInv, [Next]_vars PROVE AskedUnshown'
<1>1. /\ NotificationsTypeOK /\ AskedUnshown /\ CallFits /\ UnsentUnshown /\ SweepFits /\ AnswerTrue
      /\ call.key \in Keys
  BY DEF NotificationsInv, NotificationsTypeOK, Calls
<1> SUFFICES ASSUME Honest(provider)'
             PROVE  /\ \A k \in Keys, t \in Texts : shown'[k][t] \in {0, 1}
                    /\ ~provider'.idempotent =>
                         /\ \A k \in Keys : Status(k)' \in {"pending", "retryable_failure"} => ~Shown(k)'
                         /\ call'.pc = "provide" => ~Shown(call.key)' /\ call'.key = call.key
  BY DEF AskedUnshown, Shown
<1>2. provider' = provider
  BY <1>1, StepCases, DeliverWrites DEF Records, TakesUp, Claims, Settles, Rests, Holds, vars
<1>3. Honest(provider) /\ \A k \in Keys, t \in Texts : shown[k][t] \in {0, 1}
  BY <1>1, <1>2 DEF Honest, AskedUnshown
<1>4. ASSUME NEW a \in Answers, Deliver(a)
      PROVE  /\ \A k \in Keys, t \in Texts : shown'[k][t] \in {0, 1}
             /\ ~provider.idempotent =>
                  /\ \A k \in Keys : Status(k)' \in {"pending", "retryable_failure"} => ~Shown(k)'
                  /\ call'.pc # "provide"
  <2>1. Status(call.key) = "in_flight" /\ record' = record /\ call'.pc = "answered"
    BY <1>1, <1>4, DeliverWrites DEF CallFits, Idle
  <2>2. \A k \in Keys : k = call.key \/ \A t \in Texts : shown'[k][t] = shown[k][t]
    BY <1>4, <1>1, DeliverWrites
  <2>3. ASSUME NEW k \in Keys, NEW t \in Texts PROVE shown'[k][t] \in {0, 1}
    <3>1. CASE shown'[k][t] = shown[k][t]
      BY <1>3, <3>1
    <3>2. CASE shown'[k][t] # shown[k][t]
      <4>1. k = call.key /\ t = call.text /\ shown'[k][t] = shown[k][t] + 1
            /\ (provider.idempotent => ~Shown(k)) /\ call.pc = "provide"
        BY <1>1, <1>4, <3>2, DeliverWrites
      <4>2. ~Shown(k)
        BY <1>1, <1>3, <4>1 DEF AskedUnshown
      <4>3. shown[k][t] = 0
        BY <1>3, <4>2 DEF Shown
      <4>4. QED
        BY <4>1, <4>3
    <3>3. QED
      BY <3>1, <3>2
  <2>4. ASSUME ~provider.idempotent, NEW k \in Keys, Status(k) \in {"pending", "retryable_failure"}
        PROVE  ~Shown(k)'
    <3>1. k # call.key /\ ~Shown(k)
      BY <1>1, <1>3, <2>1, <2>4 DEF AskedUnshown
    <3>2. QED
      BY <2>2, <3>1 DEF Shown
  <2>5. QED
    BY <2>1, <2>3, <2>4 DEF Status
<1>5. ASSUME UNCHANGED shown,
             \A k \in Keys : \/ record'[k] = record[k]
                             \/ Status(k)' \in {"pending", "retryable_failure"} /\ ~provider.idempotent
                                  => ~Shown(k),
             call'.pc = "provide" /\ ~provider.idempotent => ~Shown(call.key) /\ call'.key = call.key
      PROVE  /\ \A k \in Keys, t \in Texts : shown'[k][t] \in {0, 1}
             /\ ~provider.idempotent =>
                  /\ \A k \in Keys : Status(k)' \in {"pending", "retryable_failure"} => ~Shown(k)'
                  /\ call'.pc = "provide" => ~Shown(call.key)' /\ call'.key = call.key
  <2>1. \A k \in Keys : Shown(k)' = Shown(k)
    BY <1>5 DEF Shown
  <2>2. ASSUME ~provider.idempotent, NEW k \in Keys, Status(k)' \in {"pending", "retryable_failure"}
        PROVE  ~Shown(k)
    BY <1>1, <1>3, <1>5, <2>2 DEF AskedUnshown, Status
  <2>3. QED
    BY <1>1, <1>3, <1>5, <2>1, <2>2
<1>6. ASSUME NEW k \in Keys, NEW t \in Texts, Records(k, t)
      PROVE  /\ UNCHANGED shown /\ call'.pc # "provide"
             /\ \A j \in Keys : record'[j] = record[j] \/ ~Shown(j)
  BY <1>1, <1>6 DEF Records, Holds, OnlyRecord, UnsentUnshown
<1>7. ASSUME NEW k \in Keys, TakesUp(k) PROVE UNCHANGED <<shown, record>> /\ call'.pc # "provide"
  BY <1>7 DEF TakesUp, Holds
<1>8. CASE Claims
  <2>1. /\ UNCHANGED shown /\ call'.key = call.key
        /\ record'[call.key].status = "in_flight"
        /\ \A j \in Keys : record'[j] = record[j] \/ j = call.key
    BY <1>1, <1>8, ReclaimWrites DEF Claims, Holds, OnlyRecord, Status
  <2>2. ~provider.idempotent => ~Shown(call.key)
    BY <1>1, <1>3, <1>8 DEF Claims, AskedUnshown, CallFits, Idle
  <2>3. \A j \in Keys : \/ record'[j] = record[j]
                        \/ Status(j)' \in {"pending", "retryable_failure"} /\ ~provider.idempotent
                             => ~Shown(j)
    BY <2>1 DEF Status
  <2>4. QED
    BY <1>2, <1>5, <2>1, <2>2, <2>3
<1>9. ASSUME NEW s \in Settled \union {"retryable_failure"}, Settles(s)
      PROVE  /\ UNCHANGED shown /\ call'.pc # "provide"
             /\ \A j \in Keys : \/ record'[j] = record[j]
                                \/ Status(j)' \in {"pending", "retryable_failure"} /\ ~provider.idempotent
                                     => ~Shown(j)
  <2>1. /\ UNCHANGED shown /\ call'.pc # "provide" /\ record'[call.key].status = s
        /\ \A j \in Keys : record'[j] = record[j] \/ j = call.key
    BY <1>1, <1>9, SettleWrites, NoCallFields DEF Settles, Holds, OnlyRecord, Status
  <2>2. s = "retryable_failure" /\ ~provider.idempotent => ~Shown(call.key)
    BY <1>3, <1>9 DEF Settles
  <2>3. QED
    BY <2>1, <2>2 DEF Settled, Status
<1>10. CASE Rests
  BY <1>2, <1>5, <1>10 DEF Rests, Holds
<1>11. CASE UNCHANGED vars
  BY <1>1, <1>2, <1>3, <1>11 DEF vars, AskedUnshown, Shown, Status
<1>12. QED
  BY <1>1, <1>2, <1>4, <1>5, <1>6, <1>7, <1>8, <1>9, <1>10, <1>11, NotificationsAssumption, StepCases

-----------------------------------------------------------------------------
(* What holds in every state *)

LEMMA NotificationsStep ==
  ASSUME NotificationsInv, [Next]_vars PROVE NotificationsInv'
<1>1. NotificationsTypeOK
  BY DEF NotificationsInv
<1>2. QED
  BY <1>1, NotificationsTypeStep, CallFitsStep, OneTextStep, CountedStep, SweepStep, AnswerStep,
     UnshownStep DEF NotificationsInv

THEOREM NotificationsInvCorrect == Spec => []NotificationsInv
  BY NotificationsInit, NotificationsStep, PTL DEF Spec

(* The variables stay in their ranges. *)
THEOREM NotificationsTypeCorrect == Spec => []NotificationsTypeOK
<1>1. NotificationsInv => NotificationsTypeOK
  BY DEF NotificationsInv
<1>2. QED
  BY <1>1, NotificationsInvCorrect, PTL

(* Retries, recoveries and repeated requests show the text first recorded  *)
(* for a key, and no other: _intent_mismatch refuses another one, and a    *)
(* recovery sends the recorded one.                                        *)
THEOREM OneTextCorrect == Spec => []OneText
<1>1. NotificationsInv => OneText
  BY DEF NotificationsInv
<1>2. QED
  BY <1>1, NotificationsInvCorrect, PTL

(* reclaim_notification counts an attempt before the provider is asked: no *)
(* crash between the two makes a delivery that was not counted.            *)
THEOREM AttemptsCountedCorrect == Spec => []AttemptsCounted
<1>1. NotificationsInv => AttemptsCounted
  BY DEF NotificationsInv
<1>2. QED
  BY <1>1, NotificationsInvCorrect, PTL

(* When recover() has ended, nothing an earlier daemon had in flight is    *)
(* left: not even what an interrupted recovery had not come to.            *)
THEOREM RecoveredCorrect == Spec => []RecoveredClean
<1>1. NotificationsInv => RecoveredClean
  BY DEF NotificationsInv
<1>2. QED
  BY <1>1, NotificationsInvCorrect, PTL

-----------------------------------------------------------------------------
(* The service keeps its promise *)

Sent  == Keys \X Texts
fates == [n \in Sent |-> IF record[n[1]].text = n[2] THEN Fate(Status(n[1])) ELSE "open"]
shows == [n \in Sent |-> shown[n[1]][n[2]]]
Kept  == Promise!Next \/ UNCHANGED <<fates, shows>>

LEMMA Fates ==
  /\ \A s \in Unsettled \union {"absent"} : Fate(s) = "open"
  /\ Fate("delivered") = "delivered" /\ Fate("terminal_failure") = "failed"
  BY DEF Fate, Unsettled

LEMMA Pairs ==
  /\ \A k \in Keys, t \in Texts : <<k, t>> \in Sent /\ <<k, t>>[1] = k /\ <<k, t>>[2] = t
  /\ \A n \in Sent : n[1] \in Keys /\ n[2] \in Texts /\ n = <<n[1], n[2]>>
  BY DEF Sent

LEMMA PromiseInit == Init => Promise!Init
<1> SUFFICES ASSUME Init PROVE Promise!Init
  OBVIOUS
<1>1. \A k \in Keys : Status(k) = "absent" /\ \A t \in Texts : shown[k][t] = 0
  BY DEF Init, Status
<1>2. Fate("absent") = "open"
  BY Fates
<1>3. fates = [n \in Sent |-> "open"] /\ shows = [n \in Sent |-> 0]
  BY <1>1, <1>2, Pairs DEF fates, shows
<1>4. QED
  BY <1>3 DEF Promise!Init, Sent, fates, shows

(* The fate of a notification changes only when its record is settled.     *)
LEMMA FatesStay ==
  ASSUME \A k \in Keys :
           \/ record'[k] = record[k]
           \/ /\ Status(k) \in Unsettled \union {"absent"}
              /\ record'[k].status \in Unsettled \union {"absent"}
  PROVE  fates' = fates
<1>1. ASSUME NEW n \in Sent
      PROVE  (IF record'[n[1]].text = n[2] THEN Fate(record'[n[1]].status) ELSE "open")
               = (IF record[n[1]].text = n[2] THEN Fate(record[n[1]].status) ELSE "open")
  BY Fates, Pairs DEF Status
<1>2. QED
  BY <1>1 DEF fates, Status

LEMMA DeliverKept ==
  ASSUME NotificationsInv, Honest(provider), NEW a \in Answers, Deliver(a) PROVE Kept
<1> DEFINE k == call.key
           t == call.text
           n == <<k, t>>
<1>1. /\ NotificationsTypeOK /\ CallFits /\ AskedUnshown
  BY DEF NotificationsInv
<1>2. /\ call.pc = "provide" /\ k \in Keys /\ t \in Texts /\ record' = record
  BY <1>1, DeliverWrites
<1>3. fates' = fates
  BY <1>2, FatesStay
<1>4. CASE shown' = shown
  <2>1. shows' = shows
    BY <1>4 DEF shows
  <2>2. QED
    BY <1>3, <2>1 DEF Kept
<1>5. CASE shown' # shown
  <2>1. /\ provider.idempotent => ~Shown(k)
        /\ \A j \in Keys, u \in Texts :
             shown'[j][u] = IF j = k /\ u = t THEN shown[j][u] + 1 ELSE shown[j][u]
    BY <1>1, <1>5, DeliverWrites
  <2>2. ~Shown(k) /\ shown[k][t] \in {0, 1}
    BY <1>1, <1>2, <2>1 DEF AskedUnshown
  <2>3. shown[k][t] = 0
    BY <1>2, <2>2 DEF Shown
  <2>4. n \in Sent /\ n[1] = k /\ n[2] = t
    BY <1>2, Pairs
  <2>5. fates[n] = "open"
    <3>1. record[k].text = t /\ Status(k) = "in_flight"
      BY <1>1, <1>2 DEF CallFits, Idle
    <3>2. QED
      BY <2>4, <3>1, Fates DEF fates, Unsettled
  <2>6. shows[n] = 0
    BY <2>3, <2>4 DEF shows
  <2>7. shows' = [shows EXCEPT ![n] = 1]
    <3>1. ASSUME NEW m \in Sent PROVE shown'[m[1]][m[2]] = IF m = n THEN 1 ELSE shown[m[1]][m[2]]
      <4>1. m = n <=> m[1] = k /\ m[2] = t
        BY <2>4, Pairs
      <4>2. QED
        BY <2>1, <2>3, <4>1, Pairs
    <3>2. QED
      BY <2>4, <3>1 DEF shows
  <2>8. Promise!Show(n)
    BY <1>3, <2>5, <2>6, <2>7 DEF Promise!Show, fates, shows, Sent
  <2>9. QED
    BY <2>4, <2>8 DEF Kept, Promise!Next, Promise!Show, Sent
<1>6. QED
  BY <1>4, <1>5

LEMMA SettlesKept ==
  ASSUME NotificationsInv, Honest(provider),
         NEW s \in Settled \union {"retryable_failure"}, Settles(s)
  PROVE  Kept
<1> DEFINE k == call.key
           t == record[k].text
           n == <<k, t>>
<1>1. /\ NotificationsTypeOK /\ CallFits /\ AskedUnshown /\ OneText
  BY DEF NotificationsInv
<1>2. /\ k \in Keys /\ t \in Texts /\ Status(k) = "in_flight" /\ shown' = shown
      /\ OnlyRecord(k) /\ record'[k].status = s /\ record'[k].text = t
  BY <1>1, SettleWrites DEF Settles, Holds, CallFits, Idle, NotificationsTypeOK, Calls,
                            NotificationRecord
<1>3. shows' = shows
  BY <1>2 DEF shows
<1>4. n \in Sent /\ n[1] = k /\ n[2] = t
  BY <1>2, Pairs
<1>5. fates[n] = "open"
  BY <1>2, <1>4, Fates DEF fates, Unsettled
<1>6. CASE s = "retryable_failure"
  <2>1. fates' = fates
    BY <1>2, <1>6, FatesStay DEF OnlyRecord, Unsettled
  <2>2. QED
    BY <1>3, <2>1 DEF Kept
<1>7. fates' = [fates EXCEPT ![n] = Fate(s)]
  <2>1. ASSUME NEW m \in Sent
        PROVE  (IF record'[m[1]].text = m[2] THEN Fate(record'[m[1]].status) ELSE "open")
                 = IF m = n THEN Fate(s)
                   ELSE IF record[m[1]].text = m[2] THEN Fate(record[m[1]].status) ELSE "open"
    <3>1. m = n <=> m[1] = k /\ m[2] = t
      BY <1>4, Pairs
    <3>2. QED
      BY <1>2, <3>1, Pairs DEF OnlyRecord
  <2>2. QED
    BY <1>4, <2>1 DEF fates, Status
<1>8. CASE s = "terminal_failure"
  <2>1. Promise!GiveUp(n)
    BY <1>3, <1>5, <1>7, <1>8, Fates DEF Promise!GiveUp, fates, shows, Sent
  <2>2. QED
    BY <1>4, <2>1 DEF Kept, Promise!Next, Promise!GiveUp, Sent
<1>9. CASE s = "delivered"
  <2>1. PICK u \in Texts : shown[k][u] > 0
    BY <1>9 DEF Settles, Shown
  <2>2. u = t /\ shown[k][u] \in {0, 1}
    BY <1>1, <1>2, <2>1 DEF OneText, AskedUnshown
  <2>3. shows[n] = 1
    BY <1>4, <2>1, <2>2 DEF shows
  <2>4. Promise!Confirm(n)
    BY <1>3, <1>5, <1>7, <1>9, <2>3, Fates DEF Promise!Confirm, fates, shows, Sent
  <2>5. QED
    BY <1>4, <2>4 DEF Kept, Promise!Next, Promise!Confirm, Sent
<1>10. QED
  BY <1>6, <1>8, <1>9 DEF Settled

LEMMA StepKept ==
  ASSUME NotificationsInv, Honest(provider), [Next]_vars PROVE Kept
<1>1. NotificationsTypeOK /\ CallFits
  BY DEF NotificationsInv
<1>2. ASSUME UNCHANGED <<record, shown>> PROVE Kept
  BY <1>2 DEF Kept, fates, shows, Status
<1>3. ASSUME NEW k \in Keys, NEW t \in Texts, Records(k, t) PROVE Kept
  <2>1. fates' = fates
    BY <1>3, FatesStay DEF Records, OnlyRecord, Unsettled
  <2>2. QED
    BY <1>3, <2>1 DEF Records, Holds, Kept, shows
<1>4. ASSUME NEW k \in Keys, TakesUp(k) PROVE UNCHANGED <<record, shown>>
  BY <1>4 DEF TakesUp, Holds
<1>5. CASE Claims
  <2>1. Status(call.key) \in Unsettled
    BY <1>1, <1>5 DEF Claims, CallFits, Idle, Unsettled
  <2>2. fates' = fates
    BY <1>1, <1>5, <2>1, ReclaimWrites, FatesStay DEF Claims, OnlyRecord, Unsettled
  <2>3. QED
    BY <1>5, <2>2 DEF Claims, Holds, Kept, shows
<1>6. CASE Rests \/ UNCHANGED vars
  BY <1>2, <1>6 DEF Rests, Holds, vars
<1>7. QED
  BY <1>1, <1>2, <1>3, <1>4, <1>5, <1>6, DeliverKept, SettlesKept, StepCases DEF NotificationsInv

LEMMA HonestStays ==
  ASSUME NotificationsInv, Honest(provider), [Next]_vars PROVE Honest(provider)'
<1>1. NotificationsTypeOK /\ SweepFits /\ AnswerTrue
  BY DEF NotificationsInv
<1>2. provider' = provider
  BY <1>1, StepCases, DeliverWrites DEF Records, TakesUp, Claims, Settles, Rests, Holds, vars
<1>3. QED
  BY <1>2 DEF Honest

(* Wherever the process ends and however often it is asked again, the      *)
(* service shows each notification at most once, says "delivered" only of  *)
(* what was shown, and never changes its word - with providers that show a *)
(* repeated key again only if they answered for the first one.             *)
THEOREM PromiseCorrect ==
  ASSUME \A p \in Providers : Honest(p)
  PROVE  Spec => PromiseSpec
<1>1. Init => NotificationsInv /\ Honest(provider)
  BY NotificationsInit DEF Init
<1>2. NotificationsInv /\ Honest(provider) /\ [Next]_vars => (NotificationsInv /\ Honest(provider))'
  BY NotificationsStep, HonestStays
<1>3. NotificationsInv /\ Honest(provider) /\ [Next]_vars => [Promise!Next]_(Promise!promiseVars)
  BY StepKept DEF Kept, Promise!promiseVars, fates, shows, Sent
<1>4. QED
  BY <1>1, <1>2, <1>3, PromiseInit, PTL DEF Spec, PromiseSpec, Promise!Spec
-----------------------------------------------------------------------------
(* Task events: what the variables hold *)

TaskStatuses == {"absent", "pending", "running", "paused"} \union Outcomes
RecordNames  == {"created", "queued", "retrying", "started", "resumed", "paused"} \union Outcomes
EventRecord  == [task : Tasks, event : RecordNames]
DrainStages  == {"idle", "read", "check", "hook", "hooked", "acknowledge"}
DrainRecord  == [pc : DrainStages, turn : 0..Len(Extensions), events : SUBSET Nat]

EventsTyped ==
  /\ phase \in [Tasks -> TaskStatuses] /\ unwritten \in [Tasks -> Seq(RecordNames)]
  /\ log \in Seq(EventRecord)
  /\ receipts \in [Names -> SUBSET Nat] /\ handled \in [Names -> Seq(Nat)]
  /\ drain \in [Daemons -> DrainRecord]

Accepted(e) == ToSet(handled[e])

(* What a hook accepted is on record, in the order of the log.             *)
HandledKept ==
  /\ \A e \in Names : Accepted(e) \subseteq DOMAIN log
  /\ HandledInOrder

(* What an extension has not accepted is ahead of its drain, or came to    *)
(* the log after all of what the drain has read.                           *)
Ahead(e, events) ==
  \A i \in DOMAIN log : For(e, i) /\ i \notin Accepted(e) => i \in events \/ \A j \in events : j < i

DrainKept(d) ==
  /\ drain[d].pc # "idle" => drain[d].turn \in 1..Len(Extensions)
  /\ drain[d].pc \notin {"idle", "read"} => /\ drain[d].events \subseteq DOMAIN log
                                            /\ Ahead(Serving(d), drain[d].events)
  /\ drain[d].pc \in {"hooked", "acknowledge"} => \A i : First(d, i) => i \in Accepted(Serving(d))

(* The latest outcome on record of a task whose changes all are, or are    *)
(* about to be, is its status.                                             *)
LatestEnd(t, i) == i \in EndsOf(t) /\ \A j \in EndsOf(t) : j <= i

OutcomeKept(t) ==
  IF phase[t] \in Outcomes
  THEN \/ unwritten[t] = <<phase[t]>>
       \/ unwritten[t] = <<>> /\ \E i : LatestEnd(t, i) /\ log[i].event = phase[t]
  ELSE EndsOf(t) = {} /\ \A n \in DOMAIN unwritten[t] : unwritten[t][n] \notin Outcomes

EventsInv ==
  /\ EventsTyped /\ HandledKept
  /\ \A d \in Daemons : DrainKept(d)
  /\ \A t \in Tasks \ lost : OutcomeKept(t)

LEMMA EmptySequences ==
  /\ DOMAIN <<>> = {} /\ ToSet(<<>>) = {}
  /\ \A S : <<>> \in Seq(S)
BY DEF ToSet

LEMMA Appended ==
  ASSUME NEW S, NEW s \in Seq(S), NEW x \in S
  PROVE  /\ Append(s, x) \in Seq(S)
         /\ DOMAIN Append(s, x) = 1..Len(s) + 1 /\ DOMAIN s = 1..Len(s) /\ Len(s) \in Nat
         /\ \A i \in DOMAIN s : Append(s, x)[i] = s[i]
         /\ Append(s, x)[Len(s) + 1] = x
         /\ ToSet(Append(s, x)) = ToSet(s) \union {x}
<1>1. /\ Append(s, x) \in Seq(S)
      /\ DOMAIN Append(s, x) = 1..Len(s) + 1 /\ DOMAIN s = 1..Len(s) /\ Len(s) \in Nat
      /\ \A i \in DOMAIN s : Append(s, x)[i] = s[i]
      /\ Append(s, x)[Len(s) + 1] = x
  OBVIOUS
<1>2. ToSet(Append(s, x)) = ToSet(s) \union {x}
  BY <1>1 DEF ToSet
<1>3. QED
  BY <1>1, <1>2

LEMMA RestingDrain == Resting \in DrainRecord /\ Resting.pc = "idle"
<1>1. Len(Extensions) \in Nat
  BY TaskEventsAssumption DEF TaskEventsAssumption
<1>2. QED
  BY <1>1 DEF Resting, DrainRecord, DrainStages

LEMMA ServedNames == \A n \in 1..Len(Extensions) : Extensions[n] \in Names
BY TaskEventsAssumption DEF TaskEventsAssumption

LEMMA EventsInitially == EventsInit => EventsInv
<1> SUFFICES ASSUME EventsInit
             PROVE  EventsInv
  OBVIOUS
<1>1. phase = [t \in Tasks |-> "absent"]
  BY DEF EventsInit, Life!Init, Life!Tasks, Tasks
<1>2. /\ unwritten = [t \in Tasks |-> <<>>] /\ log = <<>> /\ receipts = [e \in Names |-> {}]
      /\ handled = [e \in Names |-> <<>>] /\ drain = [d \in Daemons |-> Resting]
  BY DEF EventsInit, NoRecords
<1>3. EventsTyped
  BY <1>1, <1>2, EmptySequences, RestingDrain DEF EventsTyped, TaskStatuses
<1>4. HandledKept
  BY <1>2, EmptySequences DEF HandledKept, HandledInOrder, Accepted
<1>5. \A d \in Daemons : DrainKept(d)
  BY <1>2, RestingDrain DEF DrainKept
<1>6. \A t \in Tasks : OutcomeKept(t)
  BY <1>1, <1>2, EmptySequences DEF OutcomeKept, EndsOf, Outcomes
<1>7. QED
  BY <1>3, <1>4, <1>5, <1>6 DEF EventsInv
-----------------------------------------------------------------------------
(* What stays *)

LogGrows ==
  /\ log' \in Seq(EventRecord)
  /\ DOMAIN log \subseteq DOMAIN log'
  /\ \A i \in DOMAIN log : log'[i] = log[i]
  /\ \A i \in DOMAIN log' \ DOMAIN log : \A j \in DOMAIN log : j < i

HooksGrow == \A e \in Names : Accepted(e) \subseteq Accepted(e)'

LEMMA SameLog == EventsInv /\ log' = log => LogGrows
BY DEF LogGrows, EventsInv, EventsTyped

LEMMA DrainStays ==
  ASSUME EventsInv, NEW d \in Daemons, drain'[d] = drain[d], LogGrows, HooksGrow
  PROVE  DrainKept(d)'
<1>1. DrainKept(d)
  BY DEF EventsInv
<1>2. Serving(d)' = Serving(d) /\ \A i : First(d, i)' = First(d, i)
  BY DEF Serving, First
<1>3. drain[d].pc # "idle" => Serving(d) \in Names
  BY <1>1, ServedNames DEF DrainKept, Serving
<1>4. ASSUME drain[d].pc \notin {"idle", "read"}
      PROVE  Ahead(Serving(d), drain[d].events)'
  <2>1. drain[d].events \subseteq DOMAIN log /\ Ahead(Serving(d), drain[d].events)
        /\ Accepted(Serving(d)) \subseteq Accepted(Serving(d))'
    BY <1>1, <1>2, <1>3, <1>4 DEF DrainKept, HooksGrow, Accepted
  <2>2. QED
    BY <1>2, <2>1 DEF Ahead, LogGrows, For, Accepted
<1>5. QED
  BY <1>1, <1>2, <1>3, <1>4 DEF DrainKept, LogGrows, HooksGrow, Accepted

LEMMA OutcomeStays ==
  ASSUME NEW t, OutcomeKept(t), phase' = phase, log' = log, unwritten' = unwritten
  PROVE  OutcomeKept(t)'
BY DEF OutcomeKept, EndsOf, LatestEnd

LEMMA HandledStays ==
  ASSUME EventsInv, LogGrows, UNCHANGED <<receipts, handled>>
  PROVE  HandledKept' /\ HooksGrow
<1>1. HooksGrow
  BY DEF HooksGrow, Accepted
<1>2. ASSUME NEW e \in Names, NEW n \in DOMAIN handled[e], NEW i \in DOMAIN log', i < handled[e][n], For(e, i)'
      PROVE  \E m \in 1..(n - 1) : handled[e][m] = i
  <2>1. handled[e][n] \in DOMAIN log
    BY DEF EventsInv, HandledKept, Accepted, ToSet
  <2>2. i \in DOMAIN log
    <3>1. i \in Nat /\ handled[e][n] \in Nat
      BY <2>1 DEF EventsInv, EventsTyped, LogGrows
    <3>2. QED
      BY <1>2, <2>1, <3>1 DEF LogGrows
  <2>3. For(e, i)
    BY <1>2, <2>2 DEF For, LogGrows
  <2>4. QED
    BY <1>2, <2>2, <2>3 DEF EventsInv, HandledKept, HandledInOrder
<1>3. HandledInOrder'
  BY <1>2 DEF HandledInOrder, EventsInv, HandledKept
<1>4. QED
  BY <1>1, <1>3 DEF HandledKept, EventsInv, LogGrows, Accepted
-----------------------------------------------------------------------------
(* Changes of tasks *)

Moved(t) ==
  /\ phase[t] \in TaskStatuses /\ phase'[t] \in TaskStatuses
  /\ phase'[t] # phase[t] =>
       /\ phase[t] \notin Outcomes \/ phase'[t] \in Outcomes
       /\ phase'[t] # "absent" /\ (phase[t] = "absent" => phase'[t] \notin Outcomes)

(* Whatever changes the status of tasks does not take an outcome back.     *)
LEMMA LifeMoves ==
  ASSUME phase \in [Tasks -> TaskStatuses], Life!Next
  PROVE  phase' \in [Tasks -> TaskStatuses] /\ \A t \in Tasks : Moved(t)
<1>1. ASSUME NEW t \in Tasks, NEW from, NEW to \in TaskStatuses \ {"absent"}, Life!Move(t, from, to),
             \A s \in from : s \notin Outcomes \/ to \in Outcomes,
             "absent" \in from => to \notin Outcomes
      PROVE  phase' \in [Tasks -> TaskStatuses] /\ \A u \in Tasks : Moved(u)
  BY <1>1 DEF Life!Move, Moved
<1>2. Life!Tasks = Tasks
  BY DEF Life!Tasks, Tasks
<1>3. CASE Life!Resume
  <2>1. PICK S \in SUBSET {t \in Tasks : phase[t] = "paused"} :
          phase' = [t \in Tasks |-> IF t \in S THEN "pending" ELSE phase[t]]
    BY <1>2, <1>3 DEF Life!Resume
  <2>2. QED
    BY <2>1 DEF Moved, TaskStatuses, Outcomes
<1>4. CASE \E t \in Tasks : \E to \in {"pending", "running"} : Life!Create(t, to)
  BY <1>1, <1>4 DEF Life!Create, TaskStatuses, Outcomes
<1>5. CASE \E t \in Tasks : Life!Start(t) \/ Life!Stop(t) \/ Life!Shelve(t) \/ Life!Drop(t)
  BY <1>1, <1>5 DEF Life!Start, Life!Stop, Life!Shelve, Life!Drop, TaskStatuses, Outcomes
<1>6. CASE \E t \in Tasks : Life!Regress(t) \/ Life!Repair(t)
  BY <1>1, <1>6 DEF Life!Regress, Life!Repair, TaskStatuses, Outcomes
<1>7. QED
  BY <1>2, <1>3, <1>4, <1>5, <1>6 DEF Life!Next

LEMMA Doubles ==
  ASSUME NEW S, NEW a \in S, NEW b \in S
  PROVE  <<a, b>> \in Seq(S) /\ \A n \in DOMAIN <<a, b>> : <<a, b>>[n] \in {a, b}
OBVIOUS

LEMMA Singles ==
  ASSUME NEW S, NEW a \in S
  PROVE  /\ <<a>> \in Seq(S) /\ Head(<<a>>) = a /\ Tail(<<a>>) = <<>> /\ <<a>> # <<>>
         /\ \A n \in DOMAIN <<a>> : <<a>>[n] = a
OBVIOUS

LEMMA RecordedNames ==
  ASSUME NEW from \in TaskStatuses, NEW to \in TaskStatuses \ {"absent"}
  PROVE  /\ Recorded(from, to) \in Seq(RecordNames)
         /\ to \in Outcomes => from = "absent" \/ Recorded(from, to) = <<to>>
         /\ to \notin Outcomes => \A n \in DOMAIN Recorded(from, to) : Recorded(from, to)[n] \notin Outcomes
<1>1. Named(to) \in RecordNames /\ (to \in Outcomes => Named(to) = to)
      /\ (to \notin Outcomes => Named(to) \notin Outcomes)
  BY DEF Named, RecordNames, TaskStatuses, Outcomes
<1> DEFINE name == Named(to)
<1>2. name \in RecordNames /\ (to \in Outcomes => name = to) /\ (to \notin Outcomes => name \notin Outcomes)
  BY <1>1
<1>3. "created" \in RecordNames \ Outcomes /\ "retrying" \in RecordNames \ Outcomes
      /\ "queued" \in RecordNames \ Outcomes /\ "resumed" \in RecordNames \ Outcomes
      /\ "pending" \notin Outcomes
  BY DEF RecordNames, Outcomes
<1>4. CASE from = "absent"
  <2>1. Recorded(from, to) = <<"created", name>>
    BY <1>4 DEF Recorded
  <2> HIDE DEF name
  <2>2. QED
    <3>1. Recorded(from, to) \in Seq(RecordNames)
      BY <1>2, <1>3, <2>1, Doubles
    <3>2. \A n \in DOMAIN Recorded(from, to) : Recorded(from, to)[n] \in {"created", name}
      BY <1>2, <1>3, <2>1, Doubles
    <3>3. QED
      BY <1>2, <1>3, <1>4, <3>1, <3>2
<1>5. CASE from # "absent" /\ to # "pending"
  <2>1. Recorded(from, to) = <<name>>
    BY <1>5 DEF Recorded
  <2> HIDE DEF name
  <2>2. Recorded(from, to) \in Seq(RecordNames)
    BY <1>2, <2>1, Singles
  <2>3. \A n \in DOMAIN Recorded(from, to) : Recorded(from, to)[n] = name
    BY <1>2, <2>1, Singles
  <2>4. to \in Outcomes => Recorded(from, to) = <<to>>
    BY <1>2, <2>1
  <2>5. QED
    BY <1>2, <2>2, <2>3, <2>4
<1>6. CASE from # "absent" /\ to = "pending"
  <2>1. Recorded(from, to) \in {<<"retrying", "queued">>, <<"resumed">>}
    BY <1>6 DEF Recorded
  <2>2. QED
    <3>1. CASE Recorded(from, to) = <<"retrying", "queued">>
      <4>1. Recorded(from, to) \in Seq(RecordNames)
        BY <1>3, <3>1, Doubles
      <4>2. \A n \in DOMAIN Recorded(from, to) : Recorded(from, to)[n] \in {"retrying", "queued"}
        BY <1>3, <3>1, Doubles
      <4>3. QED
        BY <1>3, <1>6, <4>1, <4>2
    <3>2. CASE Recorded(from, to) = <<"resumed">>
      <4>1. Recorded(from, to) \in Seq(RecordNames)
        BY <1>3, <3>2, Singles
      <4>2. \A n \in DOMAIN Recorded(from, to) : Recorded(from, to)[n] = "resumed"
        BY <1>3, <3>2, Singles
      <4>3. QED
        BY <1>3, <1>6, <4>1, <4>2
    <3>3. QED
      BY <2>1, <3>1, <3>2
<1>7. QED
  BY <1>4, <1>5, <1>6

LEMMA ChangeSteps == EventsInv /\ Change => EventsInv'
<1> SUFFICES ASSUME EventsInv, Change
             PROVE  EventsInv'
  OBVIOUS
<1>1. /\ unwritten = NoRecords /\ Life!Next
      /\ unwritten' = [t \in Tasks |-> IF phase'[t] = phase[t] THEN <<>> ELSE Recorded(phase[t], phase'[t])]
      /\ UNCHANGED <<log, receipts, drain, lost, handled>>
  BY DEF Change
<1>2. EventsTyped
  BY DEF EventsInv
<1>3. phase' \in [Tasks -> TaskStatuses] /\ \A t \in Tasks : Moved(t)
  BY <1>1, <1>2, LifeMoves DEF EventsTyped
<1>4. \A t \in Tasks : phase'[t] # phase[t] => unwritten'[t] = Recorded(phase[t], phase'[t])
  BY <1>1
<1> DEFINE none == <<>>
<1>5. \A t \in Tasks : unwritten[t] = none /\ (phase'[t] = phase[t] => unwritten'[t] = none)
  BY <1>1 DEF NoRecords
<1>6. \A t \in Tasks : phase'[t] # phase[t] =>
        /\ unwritten'[t] \in Seq(RecordNames)
        /\ phase'[t] \in Outcomes => unwritten'[t] = <<phase'[t]>>
        /\ phase'[t] \notin Outcomes => \A n \in DOMAIN unwritten'[t] : unwritten'[t][n] \notin Outcomes
  <2> SUFFICES ASSUME NEW t \in Tasks, phase'[t] # phase[t]
               PROVE  /\ unwritten'[t] \in Seq(RecordNames)
                      /\ phase'[t] \in Outcomes => unwritten'[t] = <<phase'[t]>>
                      /\ phase'[t] \notin Outcomes => \A n \in DOMAIN unwritten'[t] : unwritten'[t][n] \notin Outcomes
    OBVIOUS
  <2>1. phase[t] \in TaskStatuses /\ phase'[t] \in TaskStatuses \ {"absent"}
        /\ (phase[t] = "absent" => phase'[t] \notin Outcomes)
    BY <1>3 DEF Moved
  <2>2. unwritten'[t] = Recorded(phase[t], phase'[t])
    BY <1>4
  <2>3. QED
    BY <2>1, <2>2, RecordedNames
<1>7. unwritten' \in [Tasks -> Seq(RecordNames)]
  BY <1>1, <1>4, <1>6, EmptySequences
<1>8. EventsTyped'
  BY <1>1, <1>2, <1>3, <1>7 DEF EventsTyped
<1>9. HandledKept' /\ HooksGrow
  BY <1>1, SameLog, HandledStays
<1>10. \A d \in Daemons : DrainKept(d)'
  BY <1>1, <1>9, SameLog, DrainStays
<1>11. ASSUME NEW t \in Tasks \ lost
       PROVE  OutcomeKept(t)'
  <2>1. OutcomeKept(t) /\ log' = log
    BY <1>1 DEF EventsInv
  <2>2. CASE phase'[t] = phase[t]
    <3>1. unwritten[t] = none /\ unwritten'[t] = none
      BY <1>5, <2>2
    <3>2. <<phase[t]>> # <<>>
      BY Singles
    <3>3. EndsOf(t)' = EndsOf(t) /\ \A i : LatestEnd(t, i)' <=> LatestEnd(t, i)
      BY <2>1 DEF EndsOf, LatestEnd
    <3>4. QED
      BY <2>1, <2>2, <3>1, <3>2, <3>3 DEF OutcomeKept
  <2>3. CASE phase'[t] # phase[t]
    BY <1>3, <1>6, <2>1, <2>3 DEF OutcomeKept, Moved, EndsOf
  <2>4. QED
    BY <2>2, <2>3
<1>12. QED
  BY <1>1, <1>8, <1>9, <1>10, <1>11 DEF EventsInv

LEMMA Tails ==
  ASSUME NEW S, NEW s \in Seq(S), s # <<>>
  PROVE  /\ Head(s) \in S /\ Tail(s) \in Seq(S) /\ 1 \in DOMAIN s /\ Head(s) = s[1]
         /\ \A n \in DOMAIN Tail(s) : n + 1 \in DOMAIN s /\ Tail(s)[n] = s[n + 1]
OBVIOUS

LEMMA RecordSteps == ASSUME EventsInv, NEW task \in Tasks, Record(task) PROVE EventsInv'
<1> DEFINE none == <<>>
           name == Head(unwritten[task])
           rest == Tail(unwritten[task])
<1>1. EventsTyped /\ log \in Seq(EventRecord) /\ unwritten \in [Tasks -> Seq(RecordNames)]
  BY DEF EventsInv, EventsTyped
<1>2. /\ unwritten[task] # none /\ unwritten' = [unwritten EXCEPT ![task] = rest]
      /\ UNCHANGED <<phase, receipts, drain, handled>>
  BY DEF Record, Written
<1>3. /\ name \in RecordNames /\ rest \in Seq(RecordNames) /\ 1 \in DOMAIN unwritten[task]
      /\ name = unwritten[task][1]
      /\ \A n \in DOMAIN rest : n + 1 \in DOMAIN unwritten[task] /\ rest[n] = unwritten[task][n + 1]
  BY <1>1, <1>2, Tails
<1> DEFINE written == [task |-> task, event |-> name]
<1>4. written \in EventRecord /\ written.task = task /\ written.event = name
  BY <1>3 DEF EventRecord
<1>5. \/ log' = log /\ task \in lost' /\ lost \subseteq lost'
      \/ log' = Append(log, written) /\ lost' = lost
  BY DEF Record
<1> HIDE DEF none, name, rest, written
<1>6. unwritten' \in [Tasks -> Seq(RecordNames)]
  BY <1>1, <1>2, <1>3
<1>7. LogGrows /\ log' \in Seq(EventRecord)
  <2>1. CASE log' = log
    BY <1>1, <2>1, SameLog
  <2>2. CASE log' = Append(log, written)
    BY <1>1, <1>4, <2>2, Appended DEF LogGrows
  <2>3. QED
    BY <1>5, <2>1, <2>2
<1>8. EventsTyped'
  BY <1>1, <1>2, <1>6, <1>7 DEF EventsTyped
<1>9. HandledKept' /\ \A d \in Daemons : DrainKept(d)'
  BY <1>2, <1>7, HandledStays, DrainStays
<1>10. ASSUME NEW t \in Tasks \ lost'
       PROVE  OutcomeKept(t)'
  <2>1. OutcomeKept(t) /\ phase'[t] = phase[t]
    BY <1>2, <1>5 DEF EventsInv
  <2>2. CASE log' = log
    <3>1. t # task
      BY <1>5, <2>2, <1>10, <1>1, Appended, <1>4
    <3>2. unwritten'[t] = unwritten[t]
      BY <1>1, <1>2, <3>1
    <3>3. EndsOf(t)' = EndsOf(t) /\ \A i : LatestEnd(t, i)' <=> LatestEnd(t, i)
      BY <2>2 DEF EndsOf, LatestEnd
    <3>4. QED
      BY <2>1, <2>2, <3>2, <3>3 DEF OutcomeKept
  <2>3. CASE log' = Append(log, written)
    <3>1. /\ DOMAIN log' = DOMAIN log \union {Len(log) + 1} /\ Len(log) \in Nat
          /\ log'[Len(log) + 1] = written /\ DOMAIN log = 1..Len(log)
          /\ \A i \in DOMAIN log : log'[i] = log[i]
      BY <1>1, <1>4, <2>3, Appended
    <3>2. CASE t # task \/ name \notin Outcomes
      <4>1. EndsOf(t)' = EndsOf(t) /\ \A i \in EndsOf(t) : log'[i] = log[i]
        BY <1>4, <3>1, <3>2 DEF EndsOf
      <4>2. \A i : LatestEnd(t, i)' <=> LatestEnd(t, i)
        BY <4>1 DEF LatestEnd
      <4>3. CASE t # task
        <5>1. unwritten'[t] = unwritten[t]
          BY <1>1, <1>2, <4>3
        <5>2. QED
          BY <2>1, <4>1, <4>2, <5>1 DEF OutcomeKept, LatestEnd
      <4>4. CASE t = task /\ name \notin Outcomes
        <5>1. unwritten'[t] = rest /\ phase[t] \notin Outcomes
          <6>1. unwritten[t] # <<phase[t]>> \/ phase[t] \notin Outcomes
            BY <1>3, <4>4, Singles
          <6>2. unwritten[t] # <<>>
            BY <1>2, <4>4 DEF none
          <6>3. QED
            BY <1>1, <1>2, <2>1, <4>4, <6>1, <6>2 DEF OutcomeKept
        <5>2. \A n \in DOMAIN rest : rest[n] \notin Outcomes
          BY <1>3, <2>1, <4>4, <5>1 DEF OutcomeKept
        <5>3. QED
          BY <2>1, <4>1, <5>1, <5>2 DEF OutcomeKept
      <4>5. QED
        BY <3>2, <4>3, <4>4
    <3>3. CASE t = task /\ name \in Outcomes
      <4>1. phase[t] \in Outcomes
        BY <1>3, <2>1, <3>3 DEF OutcomeKept
      <4>2. unwritten[t] = <<phase[t]>>
        BY <1>2, <2>1, <3>3, <4>1 DEF OutcomeKept, none
      <4>3. name = phase[t] /\ rest = <<>>
        BY <3>3, <4>2, Singles DEF name, rest
      <4>4. ASSUME NEW last, last = Len(log) + 1
            PROVE  LatestEnd(t, last)' /\ log'[last].event = phase[t]
        <5>1. last \in EndsOf(t)'
          BY <1>4, <3>1, <3>3, <4>4 DEF EndsOf
        <5>2. \A j \in EndsOf(t)' : j <= last
          BY <3>1, <4>4 DEF EndsOf
        <5>3. QED
          BY <1>4, <3>1, <4>3, <4>4, <5>1, <5>2 DEF LatestEnd
      <4>5. unwritten'[t] = <<>>
        BY <1>1, <1>2, <3>3, <4>3
      <4>6. \E i : LatestEnd(t, i)' /\ log'[i].event = phase[t]
        BY <4>4
      <4>7. QED
        BY <2>1, <4>1, <4>5, <4>6 DEF OutcomeKept
    <3>4. QED
      BY <3>2, <3>3
  <2>4. QED
    BY <1>5, <2>2, <2>3
<1>11. QED
  BY <1>8, <1>9, <1>10 DEF EventsInv
-----------------------------------------------------------------------------
(* Steps of a drain *)

LEMMA DrainMoves ==
  ASSUME EventsInv, NEW d \in Daemons, NEW to \in DrainRecord, drain' = [drain EXCEPT ![d] = to],
         UNCHANGED <<phase, log, unwritten, lost>>,
         receipts' \in [Names -> SUBSET Nat], handled' \in [Names -> Seq(Nat)],
         HandledKept', HooksGrow, DrainKept(d)'
  PROVE  EventsInv'
<1>1. EventsTyped /\ drain \in [Daemons -> DrainRecord]
  BY DEF EventsInv, EventsTyped
<1>2. EventsTyped'
  BY <1>1 DEF EventsTyped
<1>3. \A c \in Daemons : c # d => drain'[c] = drain[c]
  BY <1>1
<1>4. \A c \in Daemons : DrainKept(c)'
  BY <1>3, SameLog, DrainStays
<1>5. \A t \in Tasks \ lost' : OutcomeKept(t)'
  BY OutcomeStays DEF EventsInv
<1>6. QED
  BY <1>2, <1>4, <1>5 DEF EventsInv

(* One that leaves receipts and hooks alone. *)
LEMMA DrainGoesOn ==
  ASSUME EventsInv, NEW d \in Daemons, NEW to \in DrainRecord, drain' = [drain EXCEPT ![d] = to],
         UNCHANGED <<phase, log, unwritten, lost, receipts, handled>>, DrainKept(d)'
  PROVE  EventsInv'
<1>1. HandledKept' /\ HooksGrow
  BY SameLog, HandledStays
<1>2. receipts' \in [Names -> SUBSET Nat] /\ handled' \in [Names -> Seq(Nat)]
  BY DEF EventsInv, EventsTyped
<1>3. QED
  BY <1>1, <1>2, DrainMoves

LEMMA DrainTyped ==
  ASSUME EventsInv, NEW d \in Daemons
  PROVE  /\ drain[d] \in DrainRecord /\ Len(Extensions) \in Nat
         /\ drain[d].pc \in DrainStages /\ drain[d].turn \in 0..Len(Extensions)
         /\ drain[d].events \subseteq Nat
         /\ \A to : drain' = [drain EXCEPT ![d] = to] => drain'[d] = to
<1>1. drain \in [Daemons -> DrainRecord]
  BY DEF EventsInv, EventsTyped
<1>2. Len(Extensions) \in Nat
  BY TaskEventsAssumption DEF TaskEventsAssumption
<1>3. QED
  BY <1>1, <1>2 DEF DrainRecord

(* The drain of a daemon comes to rest. *)
LEMMA RestKept ==
  ASSUME NEW d \in Daemons, drain'[d] = Resting
  PROVE  DrainKept(d)'
BY RestingDrain DEF DrainKept

(* It goes on with what it has read, or with the next extension. *)
LEMMA WithKept ==
  ASSUME EventsInv, NEW d \in Daemons, drain[d].pc # "idle",
         NEW events \in SUBSET DOMAIN log, NEW e, e = Serving(d),
         \A i \in DOMAIN log : For(e, i) /\ i \notin Accepted(e) => i \in events \/ \A j \in events : j < i,
         drain'[d] = With(d, events), log' = log, handled' = handled
  PROVE  With(d, events) \in DrainRecord /\ DrainKept(d)'
<1>1. /\ drain[d] \in DrainRecord /\ Len(Extensions) \in Nat /\ drain[d].turn \in 0..Len(Extensions)
  BY DrainTyped
<1>2. drain[d].turn \in 1..Len(Extensions)
  BY DEF EventsInv, DrainKept
<1>3. CASE events # {}
  <2>1. drain'[d] = [drain[d] EXCEPT !.pc = "check", !.events = events]
    BY <1>3 DEF With
  <2>2. events \in SUBSET Nat
    BY DEF EventsInv, EventsTyped
  <2>3. /\ drain'[d] \in DrainRecord /\ drain'[d].pc = "check"
        /\ drain'[d].turn = drain[d].turn /\ drain'[d].events = events
    BY <1>1, <2>1, <2>2 DEF DrainRecord, DrainStages
  <2>4. Serving(d)' = e
    BY <2>3 DEF Serving
  <2>5. Ahead(Serving(d), drain[d].events)'
    BY <2>3, <2>4 DEF Ahead, For, Accepted
  <2>6. QED
    BY <1>2, <2>3, <2>5 DEF DrainKept
<1>4. CASE events = {} /\ drain[d].turn < Len(Extensions)
  <2>1. drain'[d] = [drain[d] EXCEPT !.pc = "read", !.turn = @ + 1, !.events = {}]
    BY <1>4 DEF With
  <2> DEFINE next == drain[d].turn + 1
             none == {}
  <2>2. next \in 1..Len(Extensions) /\ next \in 0..Len(Extensions) /\ none \in SUBSET Nat
    BY <1>1, <1>2, <1>4
  <2>3. drain'[d] = [drain[d] EXCEPT !.pc = "read", !.turn = next, !.events = none]
    BY <2>1
  <2> HIDE DEF next, none
  <2>4. drain'[d].pc = "read" /\ drain'[d].turn = next
    BY <1>1, <2>3 DEF DrainRecord
  <2>5. drain'[d] \in DrainRecord
    BY <1>1, <2>2, <2>3 DEF DrainRecord, DrainStages
  <2>6. QED
    BY <2>2, <2>4, <2>5 DEF DrainKept
<1>5. CASE events = {} /\ ~(drain[d].turn < Len(Extensions))
  BY <1>5, RestingDrain, RestKept DEF With
<1>6. QED
  BY <1>3, <1>4, <1>5

LEMMA StartDrainSteps == ASSUME EventsInv, NEW d \in Daemons, StartDrain(d) PROVE EventsInv'
<1> DEFINE one == 1
           to == [Resting EXCEPT !.pc = "read", !.turn = one]
<1>1. one \in 1..Len(Extensions) /\ one \in 0..Len(Extensions)
  <2>1. Extensions \in Seq(Names) /\ Extensions # <<>>
    BY TaskEventsAssumption DEF TaskEventsAssumption, StartDrain
  <2>2. QED
    BY <2>1
<1>2. drain' = [drain EXCEPT ![d] = to] /\ UNCHANGED <<phase, log, unwritten, lost, receipts, handled>>
  BY DEF StartDrain, Alone
<1> HIDE DEF one
<1>3. to \in DrainRecord /\ to.pc = "read" /\ to.turn = one
  BY <1>1, RestingDrain DEF DrainRecord, DrainStages
<1> HIDE DEF to
<1>4. drain'[d] = to
  BY <1>2, DrainTyped
<1>5. DrainKept(d)'
  BY <1>1, <1>3, <1>4 DEF DrainKept
<1>6. QED
  BY <1>3, <1>2, <1>5, DrainGoesOn

LEMMA ReadEventsSteps == ASSUME EventsInv, NEW d \in Daemons, ReadEvents(d) PROVE EventsInv'
<1> DEFINE events == Undelivered(Serving(d))
           to == With(d, events)
<1>1. /\ drain[d].pc = "read" /\ drain' = [drain EXCEPT ![d] = to]
      /\ UNCHANGED <<phase, log, unwritten, lost, receipts, handled>>
  BY DEF ReadEvents, Alone
<1>2. drain'[d] = to /\ Serving(d) \in Names
  BY <1>1, DrainTyped, ServedNames DEF EventsInv, DrainKept, Serving
<1>3. events \in SUBSET DOMAIN log
  BY DEF Undelivered
<1>4. \A i \in DOMAIN log : For(Serving(d), i) /\ i \notin Accepted(Serving(d)) => i \in events
  <2>1. receipts[Serving(d)] \subseteq Accepted(Serving(d))
    BY <1>2 DEF EventsInv, HandledKept, HandledInOrder, Accepted
  <2>2. QED
    BY <2>1 DEF Undelivered
<1> HIDE DEF events
<1>5. to \in DrainRecord /\ DrainKept(d)'
  BY <1>1, <1>2, <1>3, <1>4, WithKept
<1>6. QED
  BY <1>1, <1>5, DrainGoesOn

LEMMA CheckSteps ==
  ASSUME EventsInv, NEW d \in Daemons, NEW from \in {"check", "hooked"},
         NEW next, next = IF from = "check" THEN "hook" ELSE "acknowledge", Check(d, from, next)
  PROVE  EventsInv'
<1> DEFINE to == IF d = active THEN [drain[d] EXCEPT !.pc = next] ELSE Resting
<1>1. /\ drain[d].pc = from /\ drain' = [drain EXCEPT ![d] = to]
      /\ UNCHANGED <<phase, log, unwritten, lost, receipts, handled>>
  BY DEF Check, Alone
<1>2. drain'[d] = to /\ drain[d] \in DrainRecord
  BY <1>1, DrainTyped
<1>3. to \in DrainRecord
  BY <1>2, RestingDrain DEF DrainRecord, DrainStages
<1>4. CASE d # active
  BY <1>1, <1>2, <1>3, <1>4, RestKept, DrainGoesOn
<1>5. CASE d = active
  <2>1. /\ drain'[d].pc = next /\ drain'[d].turn = drain[d].turn
        /\ drain'[d].events = drain[d].events
    BY <1>2, <1>5 DEF DrainRecord
  <2>2. /\ Serving(d)' = Serving(d) /\ \A i : First(d, i)' = First(d, i)
        /\ Accepted(Serving(d))' = Accepted(Serving(d))
    BY <1>1, <2>1 DEF Serving, First, Accepted
  <2>3. drain[d].turn \in 1..Len(Extensions) /\ drain[d].events \subseteq DOMAIN log
        /\ Ahead(Serving(d), drain[d].events)
    BY <1>1 DEF EventsInv, DrainKept
  <2>4. Ahead(Serving(d), drain[d].events)'
    BY <1>1, <2>1, <2>2, <2>3 DEF Ahead, For
  <2>5. next = "acknowledge" => \A i : First(d, i) => i \in Accepted(Serving(d))
    BY <1>1 DEF EventsInv, DrainKept
  <2>6. DrainKept(d)'
    BY <1>1, <2>1, <2>2, <2>3, <2>4, <2>5 DEF DrainKept
  <2>7. QED
    BY <1>1, <1>3, <2>6, DrainGoesOn
<1>6. QED
  BY <1>4, <1>5

LEMMA CallHookSteps == ASSUME EventsInv, NEW d \in Daemons, CallHook(d) PROVE EventsInv'
<1>1. UNCHANGED <<phase, log, unwritten, lost, receipts>> /\ drain[d].pc = "hook" /\ drain[d] \in DrainRecord
  BY DrainTyped DEF CallHook, Accepts, Alone
<1>2. /\ drain[d].turn \in 1..Len(Extensions) /\ drain[d].events \subseteq DOMAIN log
      /\ Ahead(Serving(d), drain[d].events) /\ Serving(d) \in Names
  BY <1>1, ServedNames DEF EventsInv, DrainKept, Serving
<1>3. CASE Accepts(d)
  <2>1. PICK i \in drain[d].events :
          First(d, i) /\ handled' = [handled EXCEPT ![Serving(d)] = Append(@, i)]
    BY <1>3 DEF Accepts
  <2> DEFINE to == [drain[d] EXCEPT !.pc = "hooked"]
  <2>2. drain' = [drain EXCEPT ![d] = to]
    BY <1>3 DEF Accepts, Alone
  <2>3. /\ to \in DrainRecord /\ drain'[d] = to /\ to.pc = "hooked" /\ to.turn = drain[d].turn
        /\ to.events = drain[d].events
    BY <1>1, <2>2, DrainTyped DEF DrainRecord, DrainStages
  <2> HIDE DEF to
  <2>4. PICK e \in Names : e = Serving(d)
    BY <1>2
  <2>5. /\ handled[e] \in Seq(Nat) /\ i \in Nat /\ i \in DOMAIN log
        /\ handled \in [Names -> Seq(Nat)] /\ receipts \in [Names -> SUBSET Nat]
    BY <1>2, DrainTyped DEF EventsInv, EventsTyped
  <2>6. /\ handled'[e] = Append(handled[e], i) /\ \A f \in Names : f # e => handled'[f] = handled[f]
        /\ handled' \in [Names -> Seq(Nat)]
    BY <2>1, <2>4, <2>5, Appended
  <2>7. /\ DOMAIN handled'[e] = 1..Len(handled[e]) + 1 /\ DOMAIN handled[e] = 1..Len(handled[e])
        /\ Len(handled[e]) \in Nat /\ \A n \in DOMAIN handled[e] : handled'[e][n] = handled[e][n]
        /\ handled'[e][Len(handled[e]) + 1] = i
        /\ ToSet(handled'[e]) = ToSet(handled[e]) \union {i}
    BY <2>5, <2>6, Appended
  <2>8. HooksGrow
    BY <2>6, <2>7 DEF HooksGrow, Accepted
  <2>9. \A k \in DOMAIN log : k < i /\ For(e, k) => k \in ToSet(handled[e])
    <3> SUFFICES ASSUME NEW k \in DOMAIN log, k < i, For(e, k)
                 PROVE  k \in ToSet(handled[e])
      OBVIOUS
    <3>1. k \in Nat
      BY DEF EventsInv, EventsTyped
    <3>2. k \in drain[d].events => FALSE
      BY <2>1, <2>5, <3>1 DEF First
    <3>3. (\A j \in drain[d].events : j < k) => FALSE
      BY <2>5, <3>1
    <3>4. QED
      BY <1>2, <2>4, <3>2, <3>3 DEF Ahead, Accepted
  <2>10. ASSUME NEW n \in DOMAIN handled'[e], NEW k \in DOMAIN log, k < handled'[e][n], For(e, k)
         PROVE  \E m \in 1..(n - 1) : handled'[e][m] = k
    <3>1. CASE n \in DOMAIN handled[e]
      <4>1. PICK m \in 1..(n - 1) : handled[e][m] = k
        BY <2>7, <2>10, <3>1 DEF EventsInv, HandledKept, HandledInOrder
      <4>2. m \in DOMAIN handled[e]
        BY <2>7, <3>1
      <4>3. QED
        BY <2>7, <4>1, <4>2
    <3>2. CASE n \notin DOMAIN handled[e]
      <4>1. n = Len(handled[e]) + 1
        BY <2>7, <3>2
      <4>2. k \in ToSet(handled[e])
        BY <2>7, <2>9, <2>10, <4>1
      <4>3. PICK m \in DOMAIN handled[e] : handled[e][m] = k
        BY <4>2 DEF ToSet
      <4>4. m \in 1..(n - 1)
        BY <2>7, <4>1, <4>3
      <4>5. QED
        BY <2>7, <4>3, <4>4
    <3>3. QED
      BY <3>1, <3>2
  <2>11. HandledInOrder'
    <3>1. ASSUME NEW f \in Names
          PROVE  /\ receipts[f] \subseteq ToSet(handled'[f])
                 /\ \A n \in DOMAIN handled'[f], k \in DOMAIN log :
                      k < handled'[f][n] /\ For(f, k) => \E m \in 1..(n - 1) : handled'[f][m] = k
      <4>1. CASE f = e
        <5>1. receipts[e] \subseteq ToSet(handled[e])
          BY DEF EventsInv, HandledKept, HandledInOrder
        <5>2. QED
          BY <2>7, <2>10, <4>1, <5>1
      <4>2. CASE f # e
        <5>1. handled'[f] = handled[f]
          BY <2>6, <4>2
        <5>2. HandledInOrder
          BY DEF EventsInv, HandledKept
        <5>3. QED
          BY <5>1, <5>2 DEF HandledInOrder
      <4>3. QED
        BY <4>1, <4>2
    <3>2. QED
      BY <1>1, <3>1 DEF HandledInOrder, For
  <2>12. \A f \in Names : Accepted(f)' \subseteq DOMAIN log'
    <3>1. ASSUME NEW f \in Names
          PROVE  ToSet(handled'[f]) \subseteq DOMAIN log
      <4>1. ToSet(handled[f]) \subseteq DOMAIN log
        BY DEF EventsInv, HandledKept, Accepted
      <4>2. CASE f = e
        BY <2>5, <2>7, <4>1, <4>2
      <4>3. CASE f # e
        BY <2>6, <4>1, <4>3
      <4>4. QED
        BY <4>2, <4>3
    <3>2. QED
      BY <1>1, <3>1 DEF Accepted
  <2>13. DrainKept(d)'
    <3>1. /\ Serving(d)' = e /\ drain'[d].pc = "hooked" /\ drain'[d].turn = drain[d].turn
          /\ drain'[d].events = drain[d].events
      BY <2>3, <2>4 DEF Serving
    <3>2. Ahead(Serving(d), drain[d].events)'
      BY <1>1, <1>2, <2>4, <2>7, <3>1 DEF Ahead, For, Accepted
    <3>3. \A k : First(d, k)' => k = i
      <4> SUFFICES ASSUME NEW k, First(d, k)'
                   PROVE  k = i
        OBVIOUS
      <4>1. k \in drain[d].events /\ k <= i /\ i <= k
        BY <2>1, <3>1 DEF First
      <4>2. k \in Nat
        BY <4>1, DrainTyped
      <4>3. QED
        BY <2>5, <4>1, <4>2
    <3>4. i \in Accepted(Serving(d))'
      BY <2>7, <3>1 DEF Accepted
    <3>5. QED
      BY <1>1, <1>2, <3>1, <3>2, <3>3, <3>4 DEF DrainKept
  <2>14. QED
    BY <1>1, <2>2, <2>3, <2>5, <2>6, <2>8, <2>11, <2>12, <2>13, DrainMoves DEF HandledKept
<1>4. CASE Alone(d, "hook", With(d, {})) /\ UNCHANGED handled
  <2> DEFINE to == With(d, {})
  <2>1. drain' = [drain EXCEPT ![d] = to] /\ drain'[d] = to
    BY <1>4, DrainTyped DEF Alone
  <2>2. to \in DrainRecord /\ DrainKept(d)'
    BY <1>1, <1>4, <2>1, WithKept
  <2>3. QED
    BY <1>1, <1>4, <2>1, <2>2, DrainGoesOn
<1>5. QED
  BY <1>3, <1>4 DEF CallHook

LEMMA AcknowledgeSteps == ASSUME EventsInv, NEW d \in Daemons, Acknowledge(d) PROVE EventsInv'
<1>1. /\ UNCHANGED <<phase, log, unwritten, lost, handled>> /\ drain[d].pc = "acknowledge"
      /\ handled \in [Names -> Seq(Nat)] /\ receipts \in [Names -> SUBSET Nat]
  BY DEF Acknowledge, Alone, EventsInv, EventsTyped
<1>2. /\ drain[d].events \subseteq DOMAIN log /\ Ahead(Serving(d), drain[d].events)
      /\ Serving(d) \in Names /\ \A i : First(d, i) => i \in Accepted(Serving(d))
  BY <1>1, ServedNames DEF EventsInv, DrainKept, Serving
<1>3. CASE Alone(d, "acknowledge", With(d, {})) /\ UNCHANGED receipts
  <2> DEFINE to == With(d, {})
  <2>1. drain' = [drain EXCEPT ![d] = to] /\ drain'[d] = to
    BY <1>3, DrainTyped DEF Alone
  <2>2. to \in DrainRecord /\ DrainKept(d)'
    BY <1>1, <1>3, <2>1, WithKept
  <2>3. QED
    BY <1>1, <1>3, <2>1, <2>2, DrainGoesOn
<1>4. ASSUME NEW i \in drain[d].events, First(d, i),
             receipts' = [receipts EXCEPT ![Serving(d)] = @ \union {i}],
             Alone(d, "acknowledge", With(d, drain[d].events \ {i}))
      PROVE  EventsInv'
  <2> DEFINE events == drain[d].events \ {i}
             to == With(d, events)
  <2>1. drain' = [drain EXCEPT ![d] = to] /\ drain'[d] = to
    BY <1>4, DrainTyped DEF Alone
  <2>2. PICK e \in Names : e = Serving(d)
    BY <1>2
  <2>3. i \in Accepted(e) /\ i \in Nat
    BY <1>2, <1>4, <2>2, DrainTyped
  <2>4. \A k \in DOMAIN log : For(e, k) /\ k \notin Accepted(e) => k \in events \/ \A j \in events : j < k
    BY <1>2, <2>2, <2>3 DEF Ahead
  <2>5. events \in SUBSET DOMAIN log
    BY <1>2
  <2> HIDE DEF events
  <2>6. to \in DrainRecord /\ DrainKept(d)'
    BY <1>1, <2>1, <2>2, <2>4, <2>5, WithKept
  <2>7. receipts' \in [Names -> SUBSET Nat]
    BY <1>1, <1>4, <2>3
  <2>8. \A f \in Names : receipts'[f] \subseteq Accepted(f)
    BY <1>1, <1>4, <2>2, <2>3 DEF EventsInv, HandledKept, HandledInOrder, Accepted
  <2>9. HandledKept' /\ HooksGrow
    <3>1. HandledInOrder /\ \A f \in Names : Accepted(f) \subseteq DOMAIN log
      BY DEF EventsInv, HandledKept
    <3>2. HandledInOrder'
      <4>1. handled' = handled /\ log' = log
        BY <1>1
      <4>2. \A f \in Names : receipts'[f] \subseteq ToSet(handled'[f])
        BY <2>8, <4>1 DEF Accepted
      <4>3. \A f \in Names : \A n \in DOMAIN handled'[f], k \in DOMAIN log' :
              k < handled'[f][n] /\ For(f, k)' => \E m \in 1..(n - 1) : handled'[f][m] = k
        BY <3>1, <4>1 DEF HandledInOrder, For
      <4>4. QED
        BY <4>2, <4>3 DEF HandledInOrder
    <3>3. \A f \in Names : Accepted(f)' = Accepted(f)
      BY <1>1 DEF Accepted
    <3>4. QED
      BY <1>1, <3>1, <3>2, <3>3 DEF HandledKept, HooksGrow
  <2>10. QED
    BY <1>1, <2>1, <2>6, <2>7, <2>9, DrainMoves
<1>5. QED
  BY <1>3, <1>4 DEF Acknowledge

LEMMA CrashSteps == ASSUME EventsInv, NEW d \in Daemons, Crash(d) PROVE EventsInv'
<1>1. /\ drain' = [drain EXCEPT ![d] = Resting] /\ UNCHANGED <<phase, log, receipts, handled>>
      /\ Unrecorded \/ UNCHANGED <<unwritten, lost>>
  BY DEF Crash, Alone
<1>2. drain'[d] = Resting
  BY <1>1, DrainTyped
<1>3. CASE UNCHANGED <<unwritten, lost>>
  BY <1>1, <1>2, <1>3, RestingDrain, RestKept, DrainGoesOn
<1>4. CASE Unrecorded
  <2>1. /\ unwritten' = [t \in Tasks |-> <<>>]
        /\ lost' = lost \union {t \in Tasks : unwritten[t] # <<>>}
    BY <1>4 DEF Unrecorded, NoRecords
  <2>2. /\ phase \in [Tasks -> TaskStatuses] /\ log \in Seq(EventRecord)
        /\ receipts \in [Names -> SUBSET Nat] /\ handled \in [Names -> Seq(Nat)]
        /\ drain \in [Daemons -> DrainRecord]
    BY DEF EventsInv, EventsTyped
  <2>3. unwritten' \in [Tasks -> Seq(RecordNames)] /\ drain' \in [Daemons -> DrainRecord]
    BY <1>1, <2>1, <2>2, RestingDrain, EmptySequences
  <2>4. EventsTyped'
    BY <1>1, <2>2, <2>3 DEF EventsTyped
  <2>5. HandledKept' /\ HooksGrow
    BY <1>1, SameLog, HandledStays
  <2>6. \A c \in Daemons : c # d => drain'[c] = drain[c]
    BY <1>1, <2>2
  <2>7. \A c \in Daemons : DrainKept(c)'
    BY <1>1, <1>2, <2>5, <2>6, SameLog, DrainStays, RestKept
  <2>8. ASSUME NEW t \in Tasks \ lost'
        PROVE  OutcomeKept(t)'
    <3> DEFINE none == <<>>
    <3>1. unwritten[t] = none /\ unwritten'[t] = none /\ t \in Tasks \ lost
      BY <2>1
    <3>2. QED
      BY <1>1, <3>1, OutcomeStays DEF EventsInv, OutcomeKept, EndsOf, LatestEnd
  <2>9. QED
    BY <2>4, <2>5, <2>7, <2>8 DEF EventsInv
<1>5. QED
  BY <1>1, <1>3, <1>4

LEMMA TakeoverSteps ==
  ASSUME EventsInv, UNCHANGED <<phase, unwritten, log, receipts, drain, lost, handled>>
  PROVE  EventsInv'
<1>1. HandledKept' /\ HooksGrow
  BY SameLog, HandledStays
<1>2. \A d \in Daemons : DrainKept(d)'
  BY <1>1, SameLog, DrainStays
<1>3. \A t \in Tasks \ lost' : OutcomeKept(t)'
  BY OutcomeStays DEF EventsInv
<1>4. EventsTyped'
  BY DEF EventsInv, EventsTyped
<1>5. QED
  BY <1>1, <1>2, <1>3, <1>4 DEF EventsInv

LEMMA EventsInvStep == EventsInv /\ [EventsNext]_eventVars => EventsInv'
<1> SUFFICES ASSUME EventsInv, [EventsNext]_eventVars
             PROVE  EventsInv'
  OBVIOUS
<1>1. CASE Change
  BY <1>1, ChangeSteps
<1>2. CASE Takeover \/ UNCHANGED eventVars
  BY <1>2, TakeoverSteps DEF Takeover, eventVars
<1>3. CASE \E t \in Tasks : Record(t)
  BY <1>3, RecordSteps
<1>4. ASSUME NEW d \in Daemons, Proceed(d) \/ Crash(d)
      PROVE  EventsInv'
  <2>1. CASE StartDrain(d)
    BY <2>1, StartDrainSteps
  <2>2. CASE ReadEvents(d)
    BY <2>2, ReadEventsSteps
  <2>3. CASE CheckBefore(d)
    BY <2>3, CheckSteps DEF CheckBefore
  <2>4. CASE CheckAfter(d)
    BY <2>4, CheckSteps DEF CheckAfter
  <2>5. CASE CallHook(d)
    BY <2>5, CallHookSteps
  <2>6. CASE Acknowledge(d)
    BY <2>6, AcknowledgeSteps
  <2>7. CASE Crash(d)
    BY <2>7, CrashSteps
  <2>8. QED
    BY <1>4, <2>1, <2>2, <2>3, <2>4, <2>5, <2>6, <2>7 DEF Proceed
<1>5. QED
  BY <1>1, <1>2, <1>3, <1>4 DEF EventsNext

LEMMA EventsInvCorrect == EventsSpec => []EventsInv
<1>1. EventsInit => EventsInv
  BY EventsInitially
<1>2. EventsInv /\ [EventsNext]_eventVars => EventsInv'
  BY EventsInvStep
<1>3. QED
  BY <1>1, <1>2, PTL DEF EventsSpec

(* A hook sees the events of its extension in the order of the log, none   *)
(* is skipped and none is acknowledged before it was accepted, whatever    *)
(* hooks raise, daemons end and daemons take over.                         *)
THEOREM HandledInOrderCorrect == EventsSpec => []HandledInOrder
<1>1. EventsInv => HandledInOrder
  BY DEF EventsInv, HandledKept
<1>2. QED
  BY <1>1, EventsInvCorrect, PTL

LEMMA LatestOutcome ==
  ASSUME NEW t, NEW i, LatestEnd(t, i), log \in Seq(EventRecord)
  PROVE  Outcome(t) = log[i].event
<1>1. EndsOf(t) # {} /\ EndsOf(t) \subseteq Nat /\ i \in EndsOf(t)
  BY DEF LatestEnd, EndsOf
<1>2. Max(EndsOf(t)) = i
  <2>1. \A j \in EndsOf(t) : i >= j
    BY <1>1 DEF LatestEnd
  <2>2. \A j \in EndsOf(t) : (\A k \in EndsOf(t) : j >= k) => j = i
    BY <1>1, <2>1
  <2>3. QED
    BY <1>1, <2>1, <2>2 DEF Max
<1>3. QED
  BY <1>1, <1>2 DEF Outcome

(* The outcome read from the log is what the queue says of the task, a     *)
(* later regression included, once the change is recorded and unless a     *)
(* record of the task failed, for any number of tasks and daemons.         *)
THEOREM OutcomesTrueCorrect == EventsSpec => []OutcomesTrue
<1>1. EventsInv => OutcomesTrue
  <2> SUFFICES ASSUME EventsInv, NEW t \in Tasks \ lost, unwritten[t] = <<>>
               PROVE  Outcome(t) = IF phase[t] \in Outcomes THEN phase[t] ELSE "none"
    BY DEF OutcomesTrue
  <2>1. OutcomeKept(t) /\ log \in Seq(EventRecord)
    BY DEF EventsInv, EventsTyped
  <2>2. CASE phase[t] \in Outcomes
    <3>1. unwritten[t] # <<phase[t]>>
      BY Singles
    <3>2. PICK i : LatestEnd(t, i) /\ log[i].event = phase[t]
      BY <2>1, <2>2, <3>1 DEF OutcomeKept
    <3>3. QED
      BY <2>1, <2>2, <3>2, LatestOutcome
  <2>3. CASE phase[t] \notin Outcomes
    BY <2>1, <2>3 DEF OutcomeKept, Outcome
  <2>4. QED
    BY <2>2, <2>3
<1>2. QED
  BY <1>1, EventsInvCorrect, PTL
=============================================================================
