----------------------------- MODULE ChatInbox -----------------------------
(***************************************************************************)
(* How one chat channel is read (src/ruth/app/inbox.py, and run_once,      *)
(* _handle_event_locked and _finish_chat_event of src/ruth/app/core.py).   *)
(*                                                                         *)
(* The main thread polls the provider from a durable cursor and handles    *)
(* the events of a batch one after the other.  Each event has a durable    *)
(* receipt; its reply is a notification with the event's key.  Every       *)
(* write is a step of its own: the process may end, and most writes may    *)
(* fail, between any two of them.                                          *)
(*                                                                         *)
(* Events are numbered in the order of the provider's stream, and an event *)
(* is its own cursor.  Replies go through the promise of the delivery      *)
(* service that Notifications.tla implements.                              *)
(***************************************************************************)
EXTENDS Naturals, Sequences, FiniteSets

CONSTANTS MaxEvents,    \* bound: events of the stream
          Strangers,    \* events of conversations that are not allowed
          BatchSize,    \* bound: events a poll returns
          MaxAttempts,  \* MAX_EVENT_ATTEMPTS
          MaxRetries,   \* bound: failed deliveries of a reply that may be retried
          MaxFaults     \* bound: failed writes, crashes and restarts

Events == 1..MaxEvents

ASSUME InboxAssumption ==
  /\ MaxEvents \in Nat /\ Strangers \subseteq Events
  /\ BatchSize \in Nat \ {0} /\ MaxAttempts \in Nat \ {0}
  /\ MaxRetries \in Nat /\ MaxFaults \in Nat

VARIABLES
  arrived,    \* events in the provider's stream
  offset,     \* the cursor in memory
  saved,      \* the cursor on disk
  batch,      \* events of the current poll still to handle
  pc,         \* where the main thread is
  receipt,    \* the durable receipt of each event
  asked,      \* events whose reply was handed to the delivery service
  fate, shown,\* the reply of each event, as NotificationPromise has it
  retries,    \* failed deliveries of each reply
  dispatched, \* history variable: times each event's handler ran to its end
  faults      \* history variable: faults so far

replyVars == <<asked, fate, shown, retries>>
vars == <<arrived, offset, saved, batch, pc, receipt, replyVars, dispatched, faults>>

Replies == INSTANCE NotificationPromise WITH Notifications <- Events

NoReceipt == [status |-> "absent", attempts |-> 0, reply |-> "none", sent |-> FALSE]

Init ==
  /\ arrived = 0 /\ offset = 0 /\ saved = 0
  /\ batch = <<>> /\ pc = "poll"
  /\ receipt = [e \in Events |-> NoReceipt]
  /\ asked = {} /\ Replies!Init /\ retries = [e \in Events |-> 0]
  /\ dispatched = [e \in Events |-> 0]
  /\ faults = 0

Done(e) == receipt[e].status \in {"completed", "acknowledged"}
Event   == Head(batch)

Update(e, r) == receipt' = [receipt EXCEPT ![e] = r]

-----------------------------------------------------------------------------
(* The provider's stream and the poll *)

Arrive ==
  /\ arrived < MaxEvents /\ arrived' = arrived + 1
  /\ UNCHANGED <<offset, saved, batch, pc, receipt, replyVars, dispatched, faults>>

Poll ==
  /\ pc = "poll" /\ pc' = "begin"
  /\ \E n \in 1..BatchSize :
       /\ offset + n <= arrived
       /\ batch' = [i \in 1..n |-> offset + i]
  /\ UNCHANGED <<arrived, offset, saved, receipt, replyVars, dispatched, faults>>

NextEvent ==
  /\ batch' = Tail(batch)
  /\ pc' = IF Tail(batch) = <<>> THEN "poll" ELSE "begin"

At(from) == pc = from /\ UNCHANGED <<arrived, faults>>
Goto(to) == pc' = to /\ UNCHANGED batch

-----------------------------------------------------------------------------
(* _handle_event_locked *)

(* Seeded fault: the receipt of a completed event is not looked at. *)
BeginAgain ==
  /\ At("begin")
  /\ \/ Event \in Strangers /\ Goto("pass") /\ UNCHANGED receipt
     \/ /\ Event \notin Strangers
        /\ Update(Event, [NoReceipt EXCEPT !.status = "processing",
                                           !.attempts = receipt[Event].attempts + 1])
        /\ Goto("dispatch")
  /\ UNCHANGED <<offset, saved, replyVars, dispatched>>

(* begin_event *)
Begin ==
  /\ At("begin")
  /\ \/ Event \in Strangers /\ Goto("pass") /\ UNCHANGED receipt
     \/ /\ Event \notin Strangers /\ Done(Event)
        /\ Goto(IF receipt[Event].sent THEN "pass" ELSE "reply")
        /\ UNCHANGED receipt
     \/ /\ Event \notin Strangers /\ ~Done(Event)
        /\ Update(Event, [NoReceipt EXCEPT !.status = "processing",
                                           !.attempts = receipt[Event].attempts + 1])
        /\ Goto("dispatch")
  /\ UNCHANGED <<offset, saved, replyVars, dispatched>>

(* The handler ends, or raises before or after its effect. *)
Dispatch ==
  /\ At("dispatch")
  /\ \/ dispatched' = [dispatched EXCEPT ![Event] = @ + 1] /\ Goto("complete")
     \/ dispatched' = [dispatched EXCEPT ![Event] = @ + 1] /\ Goto("fail")
     \/ UNCHANGED dispatched /\ Goto("fail")
  /\ UNCHANGED <<offset, saved, receipt, replyVars>>

(* complete_event; a peer's event and some commands have no reply. *)
Complete ==
  /\ At("complete") /\ Goto("reply")
  /\ \E reply \in {"none", "answer"} :
       Update(Event, [receipt[Event] EXCEPT !.status = "completed", !.reply = reply])
  /\ UNCHANGED <<offset, saved, replyVars, dispatched>>

Exhausted(e) == receipt[e].attempts >= MaxAttempts

(* fail_event: the event is left for a later poll until it is exhausted. *)
Fail ==
  /\ At("fail")
  /\ Update(Event, [receipt[Event] EXCEPT !.status = "failed"])
  /\ IF Exhausted(Event) THEN Goto("give up") ELSE NextEvent
  /\ UNCHANGED <<offset, saved, replyVars, dispatched>>

(* "Ruth skipped this update after three failed processing attempts." *)
GiveUp ==
  /\ At("give up") /\ Goto("reply")
  /\ Update(Event, [receipt[Event] EXCEPT !.status = "completed", !.reply = "apology"])
  /\ UNCHANGED <<offset, saved, replyVars, dispatched>>

-----------------------------------------------------------------------------
(* _finish_chat_event *)

Reply ==
  /\ At("reply")
  /\ IF receipt[Event].reply = "none" THEN Goto("mark") /\ UNCHANGED asked
     ELSE Goto("sending") /\ asked' = asked \union {Event}
  /\ UNCHANGED <<offset, saved, receipt, fate, shown, retries, dispatched>>

(* Seeded faults: a reply that can never be sent holds up its event; one   *)
(* that could be sent later is forgotten.                                  *)
SendingForEver ==
  /\ At("sending")
  /\ \/ fate[Event] = "delivered" /\ Goto("mark") /\ UNCHANGED <<fate, shown, retries>>
     \/ fate[Event] = "failed" /\ NextEvent /\ UNCHANGED <<fate, shown, retries>>
     \/ Replies!Show(Event) /\ Goto("sending") /\ UNCHANGED retries
     \/ (Replies!Confirm(Event) \/ Replies!GiveUp(Event)) /\ Goto("sending")
          /\ UNCHANGED retries
  /\ UNCHANGED <<offset, saved, receipt, asked, dispatched>>

SendingOnce ==
  /\ At("sending")
  /\ \/ fate[Event] # "open" /\ Goto("mark") /\ UNCHANGED <<fate, shown, retries>>
     \/ Replies!Show(Event) /\ Goto("sending") /\ UNCHANGED retries
     \/ (Replies!Confirm(Event) \/ Replies!GiveUp(Event)) /\ Goto("mark") /\ UNCHANGED retries
     \/ Goto("mark") /\ UNCHANGED <<fate, shown, retries>>
  /\ UNCHANGED <<offset, saved, receipt, asked, dispatched>>

Sending ==
  /\ At("sending")
  /\ \/ fate[Event] # "open" /\ Goto("mark") /\ UNCHANGED <<fate, shown, retries>>
     \/ Replies!Show(Event) /\ Goto("sending") /\ UNCHANGED retries
     \/ (Replies!Confirm(Event) \/ Replies!GiveUp(Event)) /\ Goto("mark") /\ UNCHANGED retries
     \/ /\ fate[Event] = "open" /\ retries[Event] < MaxRetries
        /\ retries' = [retries EXCEPT ![Event] = @ + 1]
        /\ NextEvent /\ UNCHANGED <<fate, shown>>
  /\ UNCHANGED <<offset, saved, receipt, asked, dispatched>>

(* The turn is recorded, then mark_reply_sent. *)
Mark ==
  /\ At("mark") /\ Goto("pass")
  /\ Update(Event, [receipt[Event] EXCEPT !.sent = TRUE])
  /\ UNCHANGED <<offset, saved, replyVars, dispatched>>

(* _remember_update_offset *)
Pass ==
  /\ At("pass") /\ Goto("save")
  /\ offset' = Event
  /\ UNCHANGED <<saved, receipt, replyVars, dispatched>>

Save ==
  /\ At("save")
  /\ saved' = offset
  /\ IF Event \in Strangers THEN NextEvent ELSE Goto("acknowledge")
  /\ UNCHANGED <<offset, receipt, replyVars, dispatched>>

(* acknowledge_event *)
Acknowledge ==
  /\ At("acknowledge")
  /\ Update(Event, [receipt[Event] EXCEPT !.status = "acknowledged"])
  /\ NextEvent
  /\ UNCHANGED <<offset, saved, replyVars, dispatched>>

-----------------------------------------------------------------------------
(* Faults *)

Fault == faults < MaxFaults /\ faults' = faults + 1

(* A write fails.  While the handler's outcome is recorded that counts as  *)
(* a failure of the event; elsewhere the exception ends the batch.         *)
WriteFails ==
  /\ Fault
  /\ \/ pc = "complete" /\ Goto("fail")
     \/ pc \notin {"poll", "starting", "dispatch", "complete"} /\ pc' = "poll" /\ batch' = <<>>
  /\ UNCHANGED <<arrived, offset, saved, receipt, replyVars, dispatched>>

(* The process ends and a new one starts from the durable cursor. *)
Restart ==
  /\ Fault
  /\ pc' = "starting" /\ batch' = <<>> /\ offset' = saved
  /\ UNCHANGED <<arrived, saved, receipt, replyVars, dispatched>>

(* Notification recovery: replies handed over earlier may be settled. *)
RecoverReply(e) ==
  /\ At("starting") /\ e \in asked
  /\ Replies!Show(e) \/ Replies!Confirm(e) \/ Replies!GiveUp(e)
  /\ UNCHANGED <<offset, saved, batch, pc, receipt, asked, retries, dispatched>>

StartPolling ==
  /\ At("starting") /\ Goto("poll")
  /\ UNCHANGED <<offset, saved, receipt, replyVars, dispatched>>

-----------------------------------------------------------------------------
Handle == \/ Begin \/ Dispatch \/ Complete \/ Fail \/ GiveUp
          \/ Reply \/ Sending \/ Mark \/ Pass \/ Save \/ Acknowledge
Advance == Poll \/ Handle \/ StartPolling

Next == \/ Arrive \/ Advance \/ WriteFails \/ Restart
        \/ \E e \in Events : RecoverReply(e)

(* The main thread keeps running, and every call it makes returns. *)
Fairness == WF_vars(Advance)

Spec == Init /\ [][Next]_vars
FairSpec == Spec /\ Fairness

-----------------------------------------------------------------------------
(* Properties *)

(* Every variable stays in its range. *)
InboxTypeOK ==
  /\ arrived \in 0..MaxEvents
  /\ offset \in 0..MaxEvents /\ saved \in 0..MaxEvents
  /\ batch \in Seq(Events)
  /\ pc \in {"poll", "starting", "begin", "dispatch", "complete", "fail", "give up",
             "reply", "sending", "mark", "pass", "save", "acknowledge"}
  /\ receipt \in [Events -> [status : {"absent", "processing", "failed",
                                       "completed", "acknowledged"},
                             attempts : Nat,
                             reply : {"none", "answer", "apology"},
                             sent : BOOLEAN]]
  /\ asked \subseteq Events
  /\ fate \in [Events -> {"open", "delivered", "failed"}]
  /\ shown \in [Events -> Nat] /\ retries \in [Events -> Nat]
  /\ dispatched \in [Events -> Nat] /\ faults \in 0..MaxFaults

(* A handler that ended is run again only if a crash, or the failure of the *)
(* write that follows it, lost its outcome: a reply that is not delivered,  *)
(* an event received twice or a restart later never repeats it.             *)
CompletedNotRerun ==
  [][\A e \in Events : Done(e) => dispatched'[e] = dispatched[e] /\ Done(e)']_vars

(* No handler runs more than MAX_EVENT_ATTEMPTS times without a fault.      *)
HandlerBounded == \A e \in Events : dispatched[e] <= MaxAttempts + faults

(* A reply is sent, or given up, for every event that is acknowledged, and  *)
(* only for events that were handled or given up.                           *)
AcknowledgedWasAnswered ==
  \A e \in Events :
    /\ receipt[e].status = "acknowledged" => receipt[e].reply = "none" \/ fate[e] # "open"
    /\ shown[e] > 0 => Done(e) /\ receipt[e].reply # "none"

(* An event that can not be handled does not hold up those behind it.       *)
EventsPass == \A e \in Events : arrived >= e ~> offset >= e
=============================================================================
