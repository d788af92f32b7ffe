-------------------------- MODULE ChatInboxProofs --------------------------
(***************************************************************************)
(* Proofs about ChatInbox, for any stream of events, any batches, any      *)
(* number of attempts and any number of crashes and failed writes.         *)
(***************************************************************************)
EXTENDS ChatInbox, SequenceTheorems, TLAPS

Handling == pc \notin {"poll", "starting"}
InHand   == Handling => batch # <<>>

(* A reply is not needed, or it was delivered or given up.                 *)
Answered(e) == receipt[e].reply = "none" \/ fate[e] # "open"

(* What the receipt of the event in hand says at each step.                *)
StageFits ==
  /\ pc \in {"dispatch", "complete", "fail"} => receipt[Event].status = "processing"
  /\ pc = "give up" => receipt[Event].status = "failed"
  /\ pc \in {"reply", "sending", "mark", "acknowledge"} => Done(Event)
  /\ pc = "sending" => receipt[Event].reply # "none" /\ Event \in asked
  /\ pc \in {"mark", "acknowledge"} => Answered(Event)
  /\ pc \in {"pass", "save"} => Event \in Strangers \/ (Done(Event) /\ Answered(Event))

(* A receipt says the reply was sent, or the event is acknowledged, only   *)
(* of an event that is done and answered.                                  *)
SentFits == \A e \in Events :
              receipt[e].sent \/ receipt[e].status = "acknowledged" => Done(e) /\ Answered(e)

(* Only replies of events that are done were handed over, and shown.       *)
AskedFits == /\ \A e \in asked : Done(e) /\ receipt[e].reply # "none"
             /\ \A e \in Events : shown[e] > 0 => e \in asked

(* Each run of a handler was counted as an attempt before, and attempts    *)
(* over the limit are those a fault undid.                                 *)
Trying(e) == pc \in {"dispatch", "complete", "fail", "give up"} /\ Event = e
CountFits ==
  \A e \in Events :
    /\ receipt[e].attempts <= MaxAttempts + faults
    /\ ~Done(e) /\ ~Trying(e) => receipt[e].attempts < MaxAttempts + faults
    /\ dispatched[e] <= receipt[e].attempts
    /\ pc = "dispatch" /\ Event = e => dispatched[e] < receipt[e].attempts

InboxInv == InboxTypeOK /\ InHand /\ StageFits /\ SentFits /\ AskedFits /\ CountFits

-----------------------------------------------------------------------------
(* What the parts of a step write *)

Receipt == [status : {"absent", "processing", "failed", "completed", "acknowledged"},
            attempts : Nat, reply : {"none", "answer", "apology"}, sent : BOOLEAN]
Steps   == {"poll", "starting", "begin", "dispatch", "complete", "fail", "give up",
            "reply", "sending", "mark", "pass", "save", "acknowledge"}

LEMMA EventFits ==
  ASSUME InboxTypeOK, InHand, Handling
  PROVE  Event \in Events /\ Tail(batch) \in Seq(Events)
  BY HeadTailProperties DEF InboxTypeOK, InHand, Event

LEMMA NextEventFits ==
  ASSUME InboxTypeOK, InHand, Handling, NextEvent
  PROVE  /\ batch' \in Seq(Events) /\ pc' \in {"poll", "begin"}
         /\ pc' = "begin" => batch' # <<>>
  BY EventFits DEF NextEvent

(* The receipt of the event in hand is rewritten, *)
Rewrites(r) == /\ Event \in Events /\ r \in Receipt /\ receipt'[Event] = r
               /\ \A e \in Events : e # Event => receipt'[e] = receipt[e]

LEMMA Rewritten ==
  ASSUME InboxTypeOK, NEW e \in Events, NEW r \in Receipt, Update(e, r)
  PROVE  /\ receipt' \in [Events -> Receipt] /\ receipt'[e] = r
         /\ \A f \in Events : f # e => receipt'[f] = receipt[f]
  BY DEF InboxTypeOK, Update, Receipt

(* when it is taken up, *)
Takes(r) == /\ pc = "begin" /\ pc' = "dispatch" /\ batch' = batch /\ ~Done(Event)
            /\ r.status = "processing" /\ r.reply = "none" /\ ~r.sent
            /\ r.attempts = receipt[Event].attempts + 1
(* when its handler ended or was given up, *)
Ends(r) == /\ pc \in {"complete", "give up"} /\ pc' = "reply" /\ batch' = batch
           /\ r.status = "completed"
           /\ r.sent = receipt[Event].sent /\ r.attempts = receipt[Event].attempts
(* when its handler failed, *)
Fails(r) == /\ pc = "fail" /\ r.status = "failed"
            /\ r.reply = receipt[Event].reply /\ r.sent = receipt[Event].sent
            /\ r.attempts = receipt[Event].attempts
            /\ \/ pc' = "give up" /\ batch' = batch
               \/ pc' \in {"poll", "begin"} /\ receipt[Event].attempts < MaxAttempts
(* or when its reply was settled.                                          *)
Closes(r) == /\ r.reply = receipt[Event].reply /\ r.attempts = receipt[Event].attempts
             /\ \/ pc = "mark" /\ pc' = "pass" /\ batch' = batch /\ r.status = receipt[Event].status
                \/ pc = "acknowledge" /\ pc' \in {"poll", "begin"} /\ r.status = "acknowledged"

LEMMA BeginWrites ==
  ASSUME InboxTypeOK, InHand, Begin
  PROVE  \/ /\ receipt' = receipt /\ batch' = batch
            /\ \/ pc' = "pass" /\ Event \in Strangers
               \/ pc' = "reply" /\ Done(Event)
               \/ pc' = "pass" /\ Done(Event) /\ receipt[Event].sent
         \/ receipt' \in [Events -> Receipt] /\ \E r \in Receipt : Rewrites(r) /\ Takes(r)
<1> DEFINE r == [NoReceipt EXCEPT !.status = "processing", !.attempts = receipt[Event].attempts + 1]
<1>1. Event \in Events /\ receipt[Event].attempts \in Nat
  BY EventFits DEF Begin, At, Handling, InboxTypeOK
<1>2. /\ r \in Receipt /\ r.status = "processing" /\ r.reply = "none" /\ ~r.sent
      /\ r.attempts = receipt[Event].attempts + 1
  <2>1. NoReceipt \in Receipt /\ NoReceipt.reply = "none" /\ NoReceipt.sent = FALSE
    BY DEF NoReceipt, Receipt
  <2>2. receipt[Event].attempts + 1 \in Nat
    BY <1>1
  <2>3. /\ r \in Receipt /\ r.status = "processing"
        /\ r.attempts = receipt[Event].attempts + 1
    BY <2>1, <2>2 DEF Receipt
  <2>4. r.reply = NoReceipt.reply /\ r.sent = NoReceipt.sent
    BY <2>1 DEF Receipt
  <2>5. QED
    BY <2>1, <2>3, <2>4
<1> HIDE DEF r
<1>3. CASE ~Done(Event) /\ Update(Event, r) /\ Goto("dispatch")
  BY <1>1, <1>2, <1>3, Rewritten DEF Begin, At, Goto, Rewrites, Takes
<1>4. QED
  BY <1>3 DEF Begin, r, Goto

LEMMA HandWrites ==
  ASSUME InboxTypeOK, InHand, Complete \/ Fail \/ GiveUp \/ Mark \/ Acknowledge
  PROVE  /\ receipt' \in [Events -> Receipt]
         /\ \E r \in Receipt : Rewrites(r) /\ (Ends(r) \/ Fails(r) \/ Closes(r))
<1> DEFINE old == receipt[Event]
<1>1. Event \in Events /\ old \in Receipt /\ Handling
  BY EventFits DEF Complete, Fail, GiveUp, Mark, Acknowledge, At, Handling, InboxTypeOK, Receipt
<1> HIDE DEF old
<1>2. ASSUME NEW r \in Receipt, Update(Event, r), Ends(r) \/ Fails(r) \/ Closes(r)
      PROVE  /\ receipt' \in [Events -> Receipt]
             /\ \E q \in Receipt : Rewrites(q) /\ (Ends(q) \/ Fails(q) \/ Closes(q))
  BY <1>1, <1>2, Rewritten DEF Rewrites
<1>3. CASE Complete
  <2>1. PICK reply \in {"none", "answer"} :
          Update(Event, [old EXCEPT !.status = "completed", !.reply = reply])
    BY <1>3 DEF Complete, old
  <2> DEFINE r == [old EXCEPT !.status = "completed", !.reply = reply]
  <2>2. r \in Receipt /\ r.status = "completed" /\ r.sent = old.sent /\ r.attempts = old.attempts
    BY <1>1 DEF Receipt
  <2> HIDE DEF r
  <2>3. Ends(r)
    BY <1>3, <2>2 DEF Ends, Complete, At, Goto, old
  <2>4. QED
    BY <1>2, <2>1, <2>2, <2>3 DEF r
<1>4. CASE GiveUp
  <2> DEFINE r == [old EXCEPT !.status = "completed", !.reply = "apology"]
  <2>1. Update(Event, r)
    BY <1>4 DEF GiveUp, old
  <2>2. r \in Receipt /\ r.status = "completed" /\ r.sent = old.sent /\ r.attempts = old.attempts
    BY <1>1 DEF Receipt
  <2> HIDE DEF r
  <2>3. Ends(r)
    BY <1>4, <2>2 DEF Ends, GiveUp, At, Goto, old
  <2>4. QED
    BY <1>2, <2>1, <2>2, <2>3
<1>5. CASE Fail
  <2> DEFINE r == [old EXCEPT !.status = "failed"]
  <2>1. Update(Event, r)
    BY <1>5 DEF Fail, old
  <2>2. /\ r \in Receipt /\ r.status = "failed" /\ r.sent = old.sent /\ r.reply = old.reply
        /\ r.attempts = old.attempts /\ old.attempts \in Nat
    BY <1>1 DEF Receipt
  <2> HIDE DEF r
  <2>3. \/ pc' = "give up" /\ batch' = batch
        \/ pc' \in {"poll", "begin"} /\ old.attempts < MaxAttempts
    <3>1. MaxAttempts \in Nat
      BY InboxAssumption
    <3>2. CASE old.attempts >= MaxAttempts /\ Goto("give up")
      BY <3>2 DEF Goto
    <3>3. CASE ~(old.attempts >= MaxAttempts) /\ NextEvent
      <4>1. pc' \in {"poll", "begin"}
        BY <1>1, <3>3, NextEventFits
      <4>2. old.attempts < MaxAttempts
        BY <2>2, <3>1, <3>3
      <4>3. QED
        BY <4>1, <4>2
    <3>4. QED
      BY <1>5, <3>2, <3>3 DEF Fail, Exhausted, old
  <2>4. Fails(r)
    BY <1>5, <2>2, <2>3 DEF Fails, Fail, At, old
  <2>5. QED
    BY <1>2, <2>1, <2>2, <2>4
<1>6. CASE Mark
  <2> DEFINE r == [old EXCEPT !.sent = TRUE]
  <2>1. Update(Event, r)
    BY <1>6 DEF Mark, old
  <2>2. r \in Receipt /\ r.status = old.status /\ r.reply = old.reply /\ r.attempts = old.attempts
    BY <1>1 DEF Receipt
  <2> HIDE DEF r
  <2>3. Closes(r)
    BY <1>6, <2>2 DEF Closes, Mark, At, Goto, old
  <2>4. QED
    BY <1>2, <2>1, <2>2, <2>3
<1>7. CASE Acknowledge
  <2> DEFINE r == [old EXCEPT !.status = "acknowledged"]
  <2>1. Update(Event, r)
    BY <1>7 DEF Acknowledge, old
  <2>2. r \in Receipt /\ r.status = "acknowledged" /\ r.reply = old.reply /\ r.attempts = old.attempts
    BY <1>1 DEF Receipt
  <2> HIDE DEF r
  <2>3. Closes(r)
    BY <1>1, <1>7, <2>2, NextEventFits DEF Closes, Acknowledge, At, old
  <2>4. QED
    BY <1>2, <2>1, <2>2, <2>3
<1>8. QED
  BY <1>3, <1>4, <1>5, <1>6, <1>7

LEMMA ReceiptCases ==
  ASSUME InboxTypeOK, InHand, [Next]_vars
  PROVE  /\ receipt' \in [Events -> Receipt]
         /\ \/ receipt' = receipt
            \/ \E r \in Receipt : Rewrites(r) /\ (Takes(r) \/ Ends(r) \/ Fails(r) \/ Closes(r))
<1>1. receipt \in [Events -> Receipt]
  BY DEF InboxTypeOK, Receipt
<1>2. CASE Complete \/ Fail \/ GiveUp \/ Mark \/ Acknowledge
  BY <1>2, HandWrites
<1>3. CASE Begin
  BY <1>1, <1>3, BeginWrites
<1>4. CASE receipt' = receipt
  BY <1>1, <1>4
<1>5. QED
  BY <1>2, <1>3, <1>4 DEF Next, Advance, Handle, Arrive, Poll, Dispatch, Reply, Sending, Pass,
     Save, WriteFails, Restart, RecoverReply, StartPolling, vars

-----------------------------------------------------------------------------
(* What a step leaves alone *)

(* A reply once settled stays so, none is shown that was not handed over,  *)
(* and none is handed over but that of an event that is done.              *)
LEMMA ReplyCases ==
  ASSUME InboxInv, [Next]_vars
  PROVE  /\ \A e \in Events : fate[e] # "open" => fate'[e] # "open"
         /\ \A e \in Events : shown'[e] > 0 => shown[e] > 0 \/ e \in asked
         /\ asked' = asked \/ (/\ asked' = asked \union {Event} /\ pc = "reply"
                               /\ Event \in Events /\ receipt[Event].reply # "none"
                               /\ receipt' = receipt)
<1>1. InboxTypeOK /\ InHand /\ StageFits
  BY DEF InboxInv
<1>2. ASSUME NEW n \in Events, Replies!Show(n) \/ Replies!Confirm(n) \/ Replies!GiveUp(n)
      PROVE  /\ \A e \in Events : fate[e] # "open" => fate'[e] # "open"
             /\ \A e \in Events : shown'[e] > 0 => shown[e] > 0 \/ e = n
  BY <1>1, <1>2 DEF Replies!Show, Replies!Confirm, Replies!GiveUp, InboxTypeOK
<1>3. CASE Sending
  <2>1. Event \in Events /\ Event \in asked /\ asked' = asked
    BY <1>1, <1>3, EventFits DEF Sending, At, Handling, StageFits
  <2>2. CASE UNCHANGED <<fate, shown>>
    BY <2>1, <2>2
  <2>3. CASE Replies!Show(Event) \/ Replies!Confirm(Event) \/ Replies!GiveUp(Event)
    <3>1. PICK n \in Events : n = Event
      BY <2>1
    <3>2. Replies!Show(n) \/ Replies!Confirm(n) \/ Replies!GiveUp(n)
      BY <2>3, <3>1 DEF Replies!Show, Replies!Confirm, Replies!GiveUp
    <3>3. QED
      BY <1>2, <2>1, <3>1, <3>2
  <2>4. QED
    BY <1>3, <2>2, <2>3 DEF Sending
<1>4. ASSUME NEW n \in Events, RecoverReply(n) PROVE n \in asked /\ asked' = asked
  BY <1>4 DEF RecoverReply
<1>5. CASE Reply
  <2>1. Event \in Events /\ pc = "reply"
    BY <1>1, <1>5, EventFits DEF Reply, At, Handling
  <2>2. QED
    BY <1>5, <2>1 DEF Reply
<1>6. CASE UNCHANGED <<asked, fate, shown>>
  BY <1>6
<1>7. QED
  BY <1>2, <1>3, <1>4, <1>5, <1>6 DEF Next, Advance, Handle, Arrive, Poll, Begin, Dispatch, Complete,
     Fail, GiveUp, Mark, Pass, Save, Acknowledge, WriteFails, Restart, RecoverReply, StartPolling,
     vars, replyVars

(* A done event stays done, with the reply it has. *)
LEMMA DoneStays ==
  ASSUME InboxInv, [Next]_vars, NEW e \in Events, Done(e)
  PROVE  /\ Done(e)' /\ receipt'[e].reply = receipt[e].reply
         /\ receipt'[e].attempts = receipt[e].attempts
<1>1. InboxTypeOK /\ InHand /\ StageFits
  BY DEF InboxInv
<1>2. CASE receipt' = receipt
  BY <1>2 DEF Done
<1>3. ASSUME NEW r \in Receipt, Rewrites(r), Takes(r) \/ Ends(r) \/ Fails(r) \/ Closes(r), e = Event
      PROVE  /\ r.status \in {"completed", "acknowledged"}
             /\ r.reply = receipt[e].reply /\ r.attempts = receipt[e].attempts
  <2>1. ~Takes(r)
    BY <1>3 DEF Takes
  <2>2. ~Ends(r) /\ ~Fails(r)
    <3>1. pc = "complete" => ~Done(Event)
      BY <1>1 DEF StageFits, Done
    <3>2. pc \in {"give up", "fail"} => ~Done(Event)
      BY <1>1 DEF StageFits, Done
    <3>3. QED
      BY <1>3, <3>1, <3>2 DEF Ends, Fails
  <2>3. QED
    BY <1>3, <2>1, <2>2 DEF Closes, Done
<1>4. QED
  BY <1>1, <1>2, <1>3, ReceiptCases DEF Rewrites, Done

LEMMA SentStep == ASSUME InboxInv, [Next]_vars PROVE SentFits'
<1>1. InboxTypeOK /\ InHand /\ StageFits /\ SentFits
  BY DEF InboxInv
<1> SUFFICES ASSUME NEW e \in Events, receipt'[e].sent \/ receipt'[e].status = "acknowledged"
             PROVE  Done(e)' /\ (receipt'[e].reply = "none" \/ fate'[e] # "open")
  BY DEF SentFits, Answered
<1>2. ASSUME Done(e), Answered(e)
      PROVE  Done(e)' /\ (receipt'[e].reply = "none" \/ fate'[e] # "open")
  BY <1>2, DoneStays, ReplyCases DEF Answered
<1>3. CASE receipt'[e] = receipt[e]
  BY <1>1, <1>2, <1>3 DEF SentFits
<1>4. ASSUME NEW r \in Receipt, Rewrites(r), Takes(r) \/ Ends(r) \/ Fails(r) \/ Closes(r), e = Event
      PROVE  Done(e)' /\ (receipt'[e].reply = "none" \/ fate'[e] # "open")
  <2>1. r = receipt'[e]
    BY <1>4 DEF Rewrites
  <2>2. ~Takes(r)
    BY <2>1 DEF Takes
  <2>3. CASE Ends(r) \/ Fails(r)
    <3>1. r.status # "acknowledged" /\ r.sent = receipt[e].sent
      BY <1>4, <2>3 DEF Ends, Fails
    <3>2. receipt[e].sent
      BY <2>1, <3>1
    <3>3. QED
      BY <1>1, <1>2, <3>2 DEF SentFits
  <2>4. CASE Closes(r)
    <3>1. pc \in {"mark", "acknowledge"}
      BY <2>4 DEF Closes
    <3>2. QED
      BY <1>1, <1>2, <1>4, <3>1 DEF StageFits
  <2>5. QED
    BY <1>4, <2>2, <2>3, <2>4
<1>5. QED
  BY <1>1, <1>3, <1>4, ReceiptCases DEF Rewrites

LEMMA AskedStep == ASSUME InboxInv, [Next]_vars PROVE AskedFits'
<1>1. InboxTypeOK /\ StageFits /\ AskedFits /\ asked \subseteq Events
  BY DEF InboxInv, InboxTypeOK
<1>2. ASSUME NEW e \in asked PROVE Done(e)' /\ receipt'[e].reply # "none"
  BY <1>1, DoneStays DEF AskedFits
<1>3. asked' = asked \/ /\ asked' = asked \union {Event} /\ Event \in Events
                        /\ Done(Event) /\ receipt[Event].reply # "none" /\ receipt' = receipt
  BY <1>1, ReplyCases DEF StageFits
<1>4. \A e \in Events : shown'[e] > 0 => e \in asked'
  BY <1>1, <1>3, ReplyCases DEF AskedFits
<1>5. \A e \in asked' : Done(e)' /\ receipt'[e].reply # "none"
  BY <1>2, <1>3 DEF Done
<1>6. QED
  BY <1>4, <1>5 DEF AskedFits

-----------------------------------------------------------------------------
(* Types, stages and counts *)

LEMMA InboxInit == Init => InboxInv
<1> SUFFICES ASSUME Init PROVE InboxInv
  OBVIOUS
<1>1. /\ NoReceipt \in Receipt /\ NoReceipt.status = "absent" /\ NoReceipt.attempts = 0
      /\ NoReceipt.sent = FALSE
  BY DEF NoReceipt, Receipt
<1>2. /\ \A e \in Events : receipt[e] = NoReceipt /\ fate[e] = "open" /\ shown[e] = 0
                           /\ dispatched[e] = 0
      /\ receipt \in [Events -> Receipt] /\ fate \in [Events -> {"open", "delivered", "failed"}]
      /\ shown \in [Events -> Nat] /\ retries \in [Events -> Nat] /\ dispatched \in [Events -> Nat]
  BY <1>1 DEF Init, Replies!Init
<1>3. InboxTypeOK
  <2>1. MaxEvents \in Nat /\ MaxFaults \in Nat /\ <<>> \in Seq(Events)
    BY InboxAssumption
  <2>2. QED
    BY <1>2, <2>1 DEF Init, InboxTypeOK, Receipt
<1>4. InHand /\ StageFits
  BY DEF Init, InHand, Handling, StageFits
<1>5. SentFits /\ AskedFits
  BY <1>1, <1>2 DEF Init, SentFits, AskedFits
<1>6. CountFits
  <2>1. MaxAttempts \in Nat \ {0}
    BY InboxAssumption
  <2>2. QED
    BY <1>1, <1>2, <2>1 DEF Init, CountFits
<1>7. QED
  BY <1>3, <1>4, <1>5, <1>6 DEF InboxInv

LEMMA InboxTypeStep == ASSUME InboxTypeOK, InHand, [Next]_vars PROVE InboxTypeOK' /\ InHand'
<1>0. /\ arrived \in 0..MaxEvents /\ offset \in 0..MaxEvents /\ saved \in 0..MaxEvents
      /\ faults \in 0..MaxFaults
      /\ batch \in Seq(Events) /\ pc \in Steps
  BY DEF InboxTypeOK, Steps
<1>1. receipt' \in [Events -> Receipt]
  BY ReceiptCases
<1>2. MaxEvents \in Nat /\ MaxFaults \in Nat
  BY InboxAssumption
<1> DEFINE Places  == /\ arrived' \in 0..MaxEvents /\ offset' \in 0..MaxEvents
                      /\ saved' \in 0..MaxEvents /\ faults' \in 0..MaxFaults
           Hand    == /\ batch' \in Seq(Events) /\ pc' \in Steps
                      /\ pc' \notin {"poll", "starting"} => batch' # <<>>
           Answers == /\ asked' \subseteq Events /\ fate' \in [Events -> {"open", "delivered", "failed"}]
                      /\ shown' \in [Events -> Nat] /\ retries' \in [Events -> Nat]
                      /\ dispatched' \in [Events -> Nat]
<1>3. Places
  <2>1. CASE Pass
    <3>1. Event \in Events
      BY <2>1, EventFits DEF Pass, At, Handling
    <3>2. Event \in 0..MaxEvents
      BY <1>2, <3>1 DEF Events
    <3>3. QED
      BY <1>0, <2>1, <3>2 DEF Pass, At
  <2>2. CASE Arrive \/ WriteFails \/ Restart
    BY <1>0, <1>2, <2>2 DEF Arrive, WriteFails, Restart, Fault
  <2>3. CASE UNCHANGED <<arrived, offset, saved, faults>>
    BY <1>0, <2>3
  <2>4. CASE Save
    BY <1>0, <2>4 DEF Save, At
  <2>5. QED
    BY <2>1, <2>2, <2>3, <2>4 DEF Next, Advance, Handle, Poll, Begin, Dispatch, Complete, Fail,
       GiveUp, Reply, Sending, Mark, Acknowledge, RecoverReply, StartPolling, At, vars
<1>4. Hand
  <2>1. ASSUME Handling, NextEvent PROVE Hand
    BY <2>1, NextEventFits DEF Steps
  <2>2. ASSUME NEW to \in Steps, Handling, Goto(to) PROVE Hand
    BY <1>0, <2>2 DEF Goto, InHand
  <2>3. CASE UNCHANGED <<pc, batch>>
    BY <1>0, <2>3 DEF InHand, Handling
  <2>4. CASE Poll
    <3>1. PICK n \in 1..BatchSize : offset + n <= arrived /\ batch' = [i \in 1..n |-> offset + i]
      BY <2>4 DEF Poll
    <3>2. n \in Nat \ {0}
      <4>1. BatchSize \in Nat
        BY InboxAssumption
      <4>2. QED
        BY <4>1
    <3>3. \A i \in 1..n : offset + i \in Events
      BY <1>0, <1>2, <3>1, <3>2 DEF Events
    <3>4. batch' \in [1..n -> Events]
      BY <3>1, <3>3
    <3>5. batch' \in Seq(Events)
      BY <3>2, <3>4
    <3>6. Len(batch') = n
      BY <3>2, <3>4, <3>5
    <3>7. batch' # <<>>
      BY <3>2, <3>5, <3>6, EmptySeq
    <3>8. QED
      BY <2>4, <3>5, <3>7 DEF Poll, Steps
  <2>5. CASE WriteFails \/ Restart \/ StartPolling
    <3>1. <<>> \in Seq(Events)
      OBVIOUS
    <3>2. WriteFails => (pc = "complete" /\ Goto("fail")) \/ (pc' = "poll" /\ batch' = <<>>)
      BY DEF WriteFails
    <3>3. ASSUME pc' \in {"poll", "starting"}, batch' \in {batch, <<>>} PROVE Hand
      BY <1>0, <3>1, <3>3 DEF Steps
    <3>4. CASE WriteFails
      BY <2>2, <3>2, <3>3, <3>4 DEF Steps, Handling
    <3>5. QED
      BY <2>5, <3>3, <3>4 DEF Restart, StartPolling, Goto
  <2>6. CASE Begin \/ Dispatch \/ Complete \/ Fail \/ GiveUp
    BY <2>1, <2>2, <2>6 DEF Begin, Dispatch, Complete, Fail, GiveUp, At, Handling, Steps
  <2>7. CASE Reply \/ Sending \/ Mark \/ Pass \/ Save \/ Acknowledge
    BY <2>1, <2>2, <2>7 DEF Reply, Sending, Mark, Pass, Save, Acknowledge, At, Handling, Steps
  <2>8. QED
    BY <2>3, <2>4, <2>5, <2>6, <2>7 DEF Next, Advance, Handle, Arrive, RecoverReply, vars
<1>5. Answers
  <2>0. /\ asked \subseteq Events /\ fate \in [Events -> {"open", "delivered", "failed"}]
        /\ shown \in [Events -> Nat] /\ retries \in [Events -> Nat]
        /\ dispatched \in [Events -> Nat]
    BY DEF InboxTypeOK
  <2>1. ASSUME NEW n \in Events, Replies!Show(n) \/ Replies!Confirm(n) \/ Replies!GiveUp(n)
        PROVE  fate' \in [Events -> {"open", "delivered", "failed"}] /\ shown' \in [Events -> Nat]
    <3>1. /\ fate' \in {fate, [fate EXCEPT ![n] = "delivered"], [fate EXCEPT ![n] = "failed"]}
          /\ shown' \in {shown, [shown EXCEPT ![n] = 1]}
      BY <2>1 DEF Replies!Show, Replies!Confirm, Replies!GiveUp
    <3>2. QED
      BY <2>0, <3>1
  <2>2. CASE Sending
    <3>1. PICK n \in Events : n = Event
      BY <2>2, EventFits DEF Sending, At, Handling
    <3>2. asked' = asked /\ dispatched' = dispatched /\ retries' \in [Events -> Nat]
      <4>1. UNCHANGED <<asked, dispatched>>
        BY <2>2 DEF Sending
      <4>2. retries' = retries \/ retries' = [retries EXCEPT ![Event] = @ + 1]
        BY <2>2 DEF Sending
      <4>3. QED
        BY <2>0, <4>1, <4>2
    <3>3. \/ UNCHANGED <<fate, shown>>
          \/ Replies!Show(n) \/ Replies!Confirm(n) \/ Replies!GiveUp(n)
      BY <2>2, <3>1 DEF Sending, Replies!Show, Replies!Confirm, Replies!GiveUp
    <3>4. QED
      BY <2>0, <2>1, <3>2, <3>3
  <2>3. ASSUME NEW n \in Events, RecoverReply(n) PROVE Answers
    BY <2>0, <2>1, <2>3 DEF RecoverReply
  <2>4. CASE Reply \/ Dispatch
    <3>1. Event \in Events
      BY <2>4, EventFits DEF Reply, Dispatch, At, Handling
    <3>2. \/ dispatched' = dispatched
          \/ dispatched' = [dispatched EXCEPT ![Event] = @ + 1]
      BY <2>4 DEF Reply, Dispatch
    <3>3. dispatched' \in [Events -> Nat]
      BY <2>0, <3>1, <3>2
    <3>4. QED
      BY <2>0, <2>4, <3>1, <3>3 DEF Reply, Dispatch, replyVars
  <2>5. CASE UNCHANGED <<replyVars, dispatched>>
    BY <2>0, <2>5 DEF replyVars
  <2>6. QED
    BY <2>2, <2>3, <2>4, <2>5 DEF Next, Advance, Handle, Arrive, Poll, Begin, Complete, Fail, GiveUp,
       Mark, Pass, Save, Acknowledge, WriteFails, Restart, StartPolling, vars
<1>6. QED
  BY <1>1, <1>3, <1>4, <1>5 DEF InboxTypeOK, InHand, Handling, Steps, Receipt

LEMMA StageStep == ASSUME InboxInv, [Next]_vars PROVE StageFits'
<1>1. InboxTypeOK /\ InHand /\ StageFits /\ SentFits /\ AskedFits
  BY DEF InboxInv
<1>2. CASE pc' \in {"poll", "starting", "begin"}
  BY <1>2 DEF StageFits
<1>3. CASE UNCHANGED <<pc, batch, receipt, asked, fate>>
  BY <1>1, <1>3 DEF StageFits, Done, Answered, Event
<1>4. ASSUME batch' = batch, receipt' = receipt, asked \subseteq asked', Handling,
             \/ pc' \in {"complete", "fail"} /\ receipt[Event].status = "processing"
             \/ pc' = "reply" /\ Done(Event)
             \/ /\ pc' = "sending" /\ Done(Event) /\ receipt[Event].reply # "none"
                /\ Event \in asked'
             \/ pc' = "mark" /\ Done(Event) /\ (receipt[Event].reply = "none" \/ fate'[Event] # "open")
             \/ pc' = "pass" /\ (Event \in Strangers \/ (Done(Event) /\ Answered(Event)))
             \/ pc' = "save" /\ pc = "pass"
             \/ pc' = "acknowledge" /\ pc = "save" /\ Event \notin Strangers
      PROVE  StageFits'
  <2>1. Event' = Event /\ Event \in Events
    BY <1>1, <1>4, EventFits DEF Event
  <2>2. Answered(Event) => (receipt[Event].reply = "none" \/ fate'[Event] # "open")
    BY <2>1, ReplyCases DEF Answered
  <2>3. Done(Event)' <=> Done(Event)
    BY <1>4, <2>1 DEF Done
  <2>4. Answered(Event)' <=> (receipt[Event].reply = "none" \/ fate'[Event] # "open")
    BY <1>4, <2>1 DEF Answered
  <2>5. QED
    BY <1>1, <1>4, <2>1, <2>2, <2>3, <2>4 DEF StageFits
<1>5. ASSUME NEW r \in Receipt, Rewrites(r), Takes(r) \/ Ends(r) \/ Fails(r) \/ Closes(r)
      PROVE  StageFits'
  <2>1. pc' \in {"poll", "begin"} \/ batch' = batch
    BY <1>5 DEF Takes, Ends, Fails, Closes
  <2>2. CASE batch' = batch /\ pc' \notin {"poll", "begin"}
    <3>1. Event' = Event /\ Event \in Events /\ receipt'[Event] = r
      BY <1>5, <2>2 DEF Event, Rewrites
    <3>2. CASE Takes(r) \/ Ends(r) \/ Fails(r)
      BY <2>2, <3>1, <3>2 DEF Takes, Ends, Fails, StageFits, Done
    <3>3. CASE Closes(r)
      <4>1. pc = "mark" /\ pc' = "pass" /\ Done(Event) /\ Answered(Event)
        BY <1>1, <2>2, <3>3 DEF Closes, StageFits
      <4>2. Done(Event)' /\ (receipt'[Event].reply = "none" \/ fate'[Event] # "open")
        BY <3>1, <3>3, <4>1, ReplyCases DEF Closes, Done, Answered
      <4>3. QED
        BY <3>1, <4>1, <4>2 DEF StageFits, Answered
    <3>4. QED
      BY <1>5, <3>2, <3>3
  <2>3. QED
    BY <1>2, <2>1, <2>2
<1>6. CASE Begin
  <2>1. Event \in Events /\ Handling /\ asked' = asked
    BY <1>1, <1>6, EventFits DEF Begin, At, Handling, replyVars
  <2>2. QED
    BY <1>1, <1>4, <1>5, <1>6, <2>1, BeginWrites DEF SentFits
<1>7. CASE Complete \/ Fail \/ GiveUp \/ Mark \/ Acknowledge
  BY <1>1, <1>5, <1>7, HandWrites
<1>8. CASE Dispatch
  BY <1>1, <1>4, <1>8 DEF Dispatch, At, Goto, Handling, StageFits, replyVars
<1>9. CASE Reply
  BY <1>1, <1>4, <1>9 DEF Reply, At, Goto, Handling, StageFits
<1>10. CASE Sending
  <2>1. /\ Event \in Events /\ Handling /\ receipt' = receipt /\ asked' = asked
        /\ Done(Event) /\ receipt[Event].reply # "none" /\ Event \in asked
    BY <1>1, <1>10, EventFits DEF Sending, At, Handling, StageFits
  <2>2. CASE NextEvent
    BY <1>2, <2>2 DEF NextEvent
  <2>3. CASE Goto("sending")
    BY <1>4, <2>1, <2>3 DEF Goto
  <2>4. CASE Goto("mark") /\ fate'[Event] # "open"
    BY <1>4, <2>1, <2>4 DEF Goto
  <2>5. Replies!Confirm(Event) \/ Replies!GiveUp(Event) => fate'[Event] # "open"
    BY <1>1, <2>1 DEF Replies!Confirm, Replies!GiveUp, InboxTypeOK
  <2>6. QED
    BY <1>10, <2>2, <2>3, <2>4, <2>5 DEF Sending
<1>11. CASE Pass
  BY <1>4, <1>11 DEF Pass, At, Goto, Handling, replyVars
<1>12. CASE Save
  <2>1. CASE NextEvent
    BY <1>2, <2>1 DEF NextEvent
  <2>2. CASE Event \notin Strangers /\ Goto("acknowledge")
    BY <1>4, <1>12, <2>2 DEF Save, At, Goto, Handling, replyVars
  <2>3. QED
    BY <1>12, <2>1, <2>2 DEF Save
<1>13. CASE WriteFails
  BY <1>1, <1>2, <1>4, <1>13 DEF WriteFails, Goto, Handling, StageFits, replyVars
<1>14. CASE Poll \/ Restart \/ StartPolling \/ \E e \in Events : RecoverReply(e)
  BY <1>2, <1>14 DEF Poll, Restart, StartPolling, Goto, RecoverReply, At
<1>15. CASE Arrive \/ UNCHANGED vars
  BY <1>3, <1>15 DEF Arrive, vars, replyVars
<1>16. QED
  BY <1>6, <1>7, <1>8, <1>9, <1>10, <1>11, <1>12, <1>13, <1>14, <1>15 DEF Next, Advance, Handle

LEMMA Counters ==
  ASSUME InboxTypeOK
  PROVE  /\ MaxAttempts \in Nat /\ faults \in Nat
         /\ \A e \in Events : receipt[e].attempts \in Nat /\ dispatched[e] \in Nat
<1>1. MaxAttempts \in Nat /\ MaxFaults \in Nat
  BY InboxAssumption
<1>2. faults \in 0..MaxFaults
  BY DEF InboxTypeOK
<1>3. faults \in Nat
  BY <1>2
<1>4. ASSUME NEW e \in Events PROVE receipt[e].attempts \in Nat /\ dispatched[e] \in Nat
  BY <1>4 DEF InboxTypeOK
<1>5. QED
  BY <1>1, <1>3, <1>4

LEMMA CountStep == ASSUME InboxInv, [Next]_vars PROVE CountFits'
<1>1. InboxTypeOK /\ InHand /\ StageFits /\ CountFits
  BY DEF InboxInv
<1>2. /\ MaxAttempts \in Nat /\ faults \in Nat
      /\ \A e \in Events : receipt[e].attempts \in Nat /\ dispatched[e] \in Nat
  BY <1>1, Counters
<1> SUFFICES ASSUME NEW e \in Events
             PROVE  /\ receipt'[e].attempts <= MaxAttempts + faults'
                    /\ ~Done(e)' /\ ~Trying(e)' => receipt'[e].attempts < MaxAttempts + faults'
                    /\ dispatched'[e] <= receipt'[e].attempts
                    /\ pc' = "dispatch" /\ Event' = e => dispatched'[e] < receipt'[e].attempts
  BY DEF CountFits
<1>3. /\ receipt[e].attempts <= MaxAttempts + faults
      /\ ~Done(e) /\ ~Trying(e) => receipt[e].attempts < MaxAttempts + faults
      /\ dispatched[e] <= receipt[e].attempts
      /\ pc = "dispatch" /\ Event = e => dispatched[e] < receipt[e].attempts
  BY <1>1 DEF CountFits
<1> DEFINE Counts == /\ receipt'[e].attempts <= MaxAttempts + faults'
                     /\ ~Done(e)' /\ ~Trying(e)' => receipt'[e].attempts < MaxAttempts + faults'
                     /\ dispatched'[e] <= receipt'[e].attempts
                     /\ pc' = "dispatch" /\ Event' = e => dispatched'[e] < receipt'[e].attempts
<1>4. ASSUME NEW r \in Receipt, Rewrites(r), UNCHANGED <<faults, dispatched>>,
             Takes(r) \/ Ends(r) \/ Fails(r) \/ Closes(r)
      PROVE  Counts
  <2>1. CASE e # Event
    <3>1. receipt'[e] = receipt[e] /\ ~Trying(e)
      BY <1>4, <2>1 DEF Rewrites, Trying
    <3>2. ~(pc' = "dispatch" /\ Event' = e)
      BY <1>4, <2>1 DEF Takes, Ends, Fails, Closes, Event
    <3>3. QED
      BY <1>3, <1>4, <3>1, <3>2 DEF Done
  <2>2. CASE e = Event /\ Takes(r)
    <3>1. receipt'[e].attempts = receipt[e].attempts + 1 /\ ~Done(e) /\ ~Trying(e) /\ Trying(e)'
      BY <1>4, <2>2 DEF Rewrites, Takes, Trying, Event
    <3>2. QED
      BY <1>2, <1>3, <1>4, <3>1
  <2>3. CASE e = Event /\ ~Takes(r)
    <3>1. receipt'[e].attempts = receipt[e].attempts /\ pc' # "dispatch" /\ receipt'[e].status = r.status
      BY <1>4, <2>3 DEF Rewrites, Ends, Fails, Closes
    <3>2. CASE Fails(r)
      <4>1. Trying(e)' \/ receipt[e].attempts < MaxAttempts
        BY <2>3, <3>2 DEF Fails, Trying, Event
      <4>2. QED
        BY <1>2, <1>3, <1>4, <3>1, <4>1
    <3>3. CASE Ends(r) \/ Closes(r)
      <4>1. Done(e)'
        BY <1>1, <2>3, <3>1, <3>3 DEF Ends, Closes, StageFits, Done
      <4>2. QED
        BY <1>3, <1>4, <3>1, <4>1
    <3>4. QED
      BY <1>4, <2>3, <3>2, <3>3
  <2>4. QED
    BY <2>1, <2>2, <2>3
<1>5. ASSUME UNCHANGED <<receipt, dispatched>>, pc' # "dispatch",
             \/ faults' = faults + 1
             \/ faults' = faults /\ pc \notin {"dispatch", "complete", "fail", "give up"}
      PROVE  Counts
  <2>1. receipt'[e] = receipt[e] /\ dispatched'[e] = dispatched[e] /\ (Done(e)' <=> Done(e))
    BY <1>5 DEF Done
  <2>2. receipt[e].attempts \in Nat /\ MaxAttempts \in Nat /\ faults \in Nat
    BY <1>2
  <2>3. CASE faults' = faults + 1
    <3>1. receipt[e].attempts < MaxAttempts + faults'
      BY <1>3, <2>2, <2>3
    <3>2. receipt[e].attempts <= MaxAttempts + faults'
      BY <2>2, <2>3, <3>1
    <3>3. QED
      BY <1>3, <1>5, <2>1, <3>1, <3>2
  <2>4. CASE faults' = faults /\ pc \notin {"dispatch", "complete", "fail", "give up"}
    <3>1. ~Trying(e)
      BY <2>4 DEF Trying
    <3>2. QED
      BY <1>3, <1>5, <2>1, <2>4, <3>1
  <2>5. QED
    BY <1>5, <2>3, <2>4
<1>6. CASE Begin
  BY <1>1, <1>4, <1>5, <1>6, BeginWrites DEF Begin, At
<1>7. CASE Complete \/ Fail \/ GiveUp \/ Mark \/ Acknowledge
  <2>1. UNCHANGED <<faults, dispatched>>
    BY <1>7 DEF Complete, Fail, GiveUp, Mark, Acknowledge, At
  <2>2. QED
    BY <1>1, <1>4, <1>7, <2>1, HandWrites
<1>8. CASE Dispatch
  <2>1. /\ pc = "dispatch" /\ pc' \in {"complete", "fail"} /\ UNCHANGED <<receipt, batch, faults>>
        /\ \/ dispatched' = [dispatched EXCEPT ![Event] = @ + 1]
           \/ dispatched' = dispatched
    BY <1>8 DEF Dispatch, At, Goto
  <2>2. Trying(e)' <=> Trying(e)
    BY <2>1 DEF Trying, Event
  <2>3. dispatched'[e] <= receipt[e].attempts
    BY <1>1, <1>2, <1>3, <2>1 DEF InboxTypeOK
  <2>4. QED
    BY <1>2, <1>3, <2>1, <2>2, <2>3 DEF Done
<1>9. CASE Reply \/ Sending \/ Pass \/ Save \/ Poll \/ StartPolling \/ \E n \in Events : RecoverReply(n)
  BY <1>5, <1>9 DEF Reply, Sending, Pass, Save, Poll, StartPolling, RecoverReply, At, Goto, NextEvent,
     replyVars
<1>10. CASE WriteFails \/ Restart
  <2>1. UNCHANGED <<receipt, dispatched>> /\ faults' = faults + 1
    BY <1>10 DEF WriteFails, Restart, Fault, replyVars
  <2>2. pc' # "dispatch"
    BY <1>10 DEF WriteFails, Restart, Goto
  <2>3. QED
    BY <1>5, <2>1, <2>2
<1>11. CASE UNCHANGED <<pc, batch, receipt, dispatched, faults>>
  BY <1>3, <1>11 DEF Done, Trying, Event
<1>12. QED
  BY <1>6, <1>7, <1>8, <1>9, <1>10, <1>11 DEF Next, Advance, Handle, Arrive, vars

-----------------------------------------------------------------------------
(* What holds in every state, and of every step *)

LEMMA InboxStep == ASSUME InboxInv, [Next]_vars PROVE InboxInv'
<1>1. InboxTypeOK /\ InHand
  BY DEF InboxInv
<1>2. QED
  BY <1>1, InboxTypeStep, StageStep, SentStep, AskedStep, CountStep DEF InboxInv

THEOREM InboxInvCorrect == Spec => []InboxInv
  BY InboxInit, InboxStep, PTL DEF Spec

(* The variables stay in their ranges. *)
THEOREM InboxTypeCorrect == Spec => []InboxTypeOK
<1>1. InboxInv => InboxTypeOK
  BY DEF InboxInv
<1>2. QED
  BY <1>1, InboxInvCorrect, PTL

(* acknowledge_event is reached, and a receipt says a reply was sent, only *)
(* when the reply was settled; a reply is shown only for a receipt that    *)
(* was completed with it, however the process ended and what was recovered.*)
THEOREM AcknowledgedCorrect == Spec => []AcknowledgedWasAnswered
<1>1. InboxInv => AcknowledgedWasAnswered
  BY DEF InboxInv, SentFits, AskedFits, Answered, AcknowledgedWasAnswered
<1>2. QED
  BY <1>1, InboxInvCorrect, PTL

(* Without a fault a handler runs MAX_EVENT_ATTEMPTS times at most, and    *)
(* each crash or failed write allows one more: begin_event counts an       *)
(* attempt before the handler runs.                                        *)
THEOREM HandlerCorrect == Spec => []HandlerBounded
<1>1. InboxInv => HandlerBounded
  <2>1. SUFFICES ASSUME InboxInv, NEW e \in Events PROVE dispatched[e] <= MaxAttempts + faults
    BY DEF HandlerBounded
  <2>2. /\ dispatched[e] \in Nat /\ receipt[e].attempts \in Nat /\ faults \in Nat
        /\ MaxAttempts \in Nat
    BY <2>1, Counters DEF InboxInv
  <2>3. QED
    BY <2>1, <2>2 DEF InboxInv, CountFits
<1>2. QED
  BY <1>1, InboxInvCorrect, PTL

(* begin_event finds the receipt of an event that is done, whether the     *)
(* event comes again after a reply that could not be sent, a cursor that   *)
(* was not saved or a restart: its handler never runs again.               *)
THEOREM NotRerunCorrect == Spec => CompletedNotRerun
<1>1. ASSUME InboxInv, [Next]_vars, NEW e \in Events, Done(e)
      PROVE  dispatched'[e] = dispatched[e] /\ Done(e)'
  <2>1. Dispatch => Event \in Events /\ Event # e
    BY <1>1, EventFits DEF InboxInv, StageFits, Dispatch, At, Handling, Done
  <2>2. dispatched'[e] = dispatched[e]
    <3>1. CASE Dispatch
      BY <1>1, <2>1, <3>1 DEF Dispatch, InboxInv, InboxTypeOK
    <3>2. CASE ~Dispatch
      BY <1>1, <3>2 DEF Next, Advance, Handle, Arrive, Poll, Begin, Complete, Fail, GiveUp, Reply,
         Sending, Mark, Pass, Save, Acknowledge, WriteFails, Restart, RecoverReply, StartPolling, vars
    <3>3. QED
      BY <3>1, <3>2
  <2>3. QED
    BY <1>1, <2>2, DoneStays
<1>2. InboxInv /\ [Next]_vars
        => [\A e \in Events : Done(e) => dispatched'[e] = dispatched[e] /\ Done(e)']_vars
  BY <1>1
<1>3. QED
  BY <1>2, InboxInvCorrect, PTL DEF Spec, CompletedNotRerun
=============================================================================
