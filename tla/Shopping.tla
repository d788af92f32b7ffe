------------------------------ MODULE Shopping ------------------------------
(***************************************************************************)
(* Shopping (shopping/service.py): Ruth answers the messages a user writes *)
(* in the websites of applications, and may order there for the user.      *)
(*                                                                         *)
(* The state is one file, and whoever answers a message, in a poll of the  *)
(* applications or a turn of the chat, holds its lock.  Every step below   *)
(* ends where the file is saved; the process may end, and an answer of an  *)
(* application may be lost, at any of them.  What an application keeps     *)
(* (app-sdk) is its messages, an order for each idempotency key and an     *)
(* answer for each message.                                                *)
(***************************************************************************)
EXTENDS Integers, Sequences

CONSTANTS Apps,
          Chats,      \* messages of the chat
          Kind,       \* what each of them asks: "shop", "text" or "cancel"
          NoKey,
          MaxTurns,   \* calls of the model in a turn: 8
          Attempts,   \* turns a website message gets without an order: 3
          MaxFeed,    \* bound: messages of the websites
          MaxFaults   \* bound: answers lost, applications down, crashes

ASSUME ShoppingAssumption ==
  /\ Kind \in [Chats -> {"shop", "text", "cancel"}]
  /\ {MaxTurns, Attempts, MaxFeed} \subseteq Nat \ {0} /\ MaxFaults \in Nat
  /\ NoKey \notin Chats /\ (Chats \union {NoKey}) \intersect (1..MaxFeed) = {}

VARIABLES
  feed,     \* the applications: the application of each message, by creation
  placed,   \* orders of each idempotency key
  outputs,  \* the answer to each message
  active,   \* shopping/state.json: a task is active
  cursor,
  receipt,
  turn,     \* the holder of the lock: a message, what comes next, the rest of the poll
  chat,     \* the chat: what became of each message
  told,     \* messages with an answer mirrored to the chat
  uploads,  \* photos sent about each message
  faults

vars  == <<feed, placed, outputs, active, cursor, receipt, turn, chat, told, uploads, faults>>
apps  == <<feed, placed, outputs>>
outer == <<chat, told, uploads>>

Web      == 1..MaxFeed
Keys     == Web \union Chats
NoOutput == [order |-> FALSE, text |-> -1]
Free     == [key |-> NoKey, pc |-> "free", turns |-> 0, todo |-> {}]
Fresh    == [task |-> FALSE, attempts |-> 0, pending |-> FALSE, order |-> FALSE, output |-> NoOutput,
             delivered |-> FALSE, photo |-> FALSE, mirrored |-> FALSE]

Init ==
  /\ feed = <<>> /\ placed = [k \in Keys |-> 0] /\ outputs = [k \in Web |-> NoOutput]
  /\ active = FALSE /\ cursor = [a \in Apps |-> 0] /\ receipt = [k \in Keys |-> Fresh]
  /\ turn = Free /\ chat = [c \in Chats |-> "absent"]
  /\ told = {} /\ uploads = [k \in Keys |-> 0] /\ faults = 0

Fault == faults < MaxFaults /\ faults' = faults + 1
Well  == UNCHANGED faults

Key  == turn.key
Here == receipt[Key]
At(pc) == turn.pc = pc
Save(r) == receipt' = [receipt EXCEPT ![Key] = r]
Go(pc) == turn' = [turn EXCEPT !.pc = pc]

(* What remains to be done with an answer that is saved. *)
Stage(k, r) ==
  IF k \in Web /\ ~r.delivered THEN "post"
  ELSE IF ~r.photo /\ (r.order \/ k \in Chats) THEN "photo"
  ELSE IF k \in Web /\ ~r.mirrored THEN "mirror" ELSE "end"

Take(k, pc, todo) == [key |-> k, pc |-> pc, turns |-> MaxTurns, todo |-> todo]

(* A poll answers messages in the order of their creation. *)
Continue(todo) ==
  IF todo = {} THEN turn' = Free
  ELSE \E i \in todo : (\A j \in todo : i <= j) /\ turn' = Take(i, "look", todo \ {i})

(* Seeded fault: the poll goes on with the application that failed.        *)
RaisedOn ==
  IF Key \in Web
  THEN Continue(turn.todo) /\ UNCHANGED chat
  ELSE turn' = Free /\ chat' = [chat EXCEPT ![Key] = "answered"]

(* A ShoppingError: the poll leaves the rest of that application for a     *)
(* later one; a turn of the chat ends with the error for an answer.        *)
Raised ==
  IF Key \in Web
  THEN Continue({i \in turn.todo : feed[i] # feed[Key]}) /\ UNCHANGED chat
  ELSE turn' = Free /\ chat' = [chat EXCEPT ![Key] = "answered"]
-----------------------------------------------------------------------------
(* Messages arrive *)

Write(a) ==
  /\ Len(feed) < MaxFeed
  /\ feed' = Append(feed, a)
  /\ UNCHANGED <<placed, outputs, active, cursor, receipt, turn, outer, faults>>

Say(c) ==
  /\ chat[c] = "absent"
  /\ chat' = [chat EXCEPT ![c] = "waiting"]
  /\ UNCHANGED <<apps, active, cursor, receipt, turn, told, uploads, faults>>

(* While there is a task, each application is asked for what is after its  *)
(* cursor; one that does not answer is left out.                           *)
Poll ==
  /\ turn = Free
  /\ \E up \in SUBSET Apps :
       /\ Continue({i \in DOMAIN feed : active /\ feed[i] \in up /\ i > cursor[feed[i]]})
       /\ IF up = Apps THEN Well ELSE Fault
  /\ UNCHANGED <<apps, active, cursor, receipt, outer>>

(* A task is started once for an event, also when the event comes again.   *)
(* Without a task, a message is one of the ordinary conversation.          *)
HandleChat(c) ==
  LET ours   == Kind[c] = "shop" \/ (Kind[c] = "text" /\ active)
      starts == Kind[c] = "shop" /\ ~receipt[c].task
  IN
  /\ turn = Free /\ chat[c] = "waiting"
  /\ active' = ((active \/ starts) /\ Kind[c] # "cancel")
  /\ receipt' = [receipt EXCEPT ![c].task = @ \/ starts]
  /\ IF ours
     THEN /\ turn' = Take(c, IF receipt[c].output = NoOutput THEN "reason" ELSE Stage(c, receipt[c]), {})
          /\ chat' = [chat EXCEPT ![c] = "handling"]
     ELSE UNCHANGED turn /\ chat' = [chat EXCEPT ![c] = "answered"]
  /\ UNCHANGED <<apps, cursor, told, uploads, faults>>

(* Seeded fault: attempts are not bounded.                                 *)
LookAgain ==
  /\ At("look")
  /\ IF Here.output # NoOutput THEN Go(Stage(Key, Here)) /\ UNCHANGED receipt
     ELSE /\ Save([Here EXCEPT !.attempts = IF @ < Attempts THEN @ + 1 ELSE @])
          /\ Go("reason")
  /\ UNCHANGED <<apps, active, cursor, outer, faults>>

(* An answer that is saved is used again.  After three attempts, and with  *)
(* no order under way, the message is answered without the model.          *)
Look ==
  /\ At("look")
  /\ IF Here.output # NoOutput THEN Go(Stage(Key, Here)) /\ UNCHANGED receipt
     ELSE IF Here.attempts >= Attempts /\ ~Here.pending
     THEN Save([Here EXCEPT !.output = [order |-> FALSE, text |-> 0]]) /\ Go("post")
     ELSE /\ Save([Here EXCEPT !.attempts = IF @ < Attempts THEN @ + 1 ELSE @])
          /\ Go("reason")
  /\ UNCHANGED <<apps, active, cursor, outer, faults>>
-----------------------------------------------------------------------------
(* A turn of the model, with the order it may ask for *)

Unsettled(k) == receipt[k].pending /\ ~receipt[k].order
Thinks == At("reason") /\ ~Unsettled(Key)

(* The request is saved before it is sent. *)
Decide ==
  /\ Thinks /\ ~Here.order /\ turn.turns > 0
  /\ Save([Here EXCEPT !.pending = TRUE])
  /\ turn' = [turn EXCEPT !.turns = @ - 1]
  /\ UNCHANGED <<apps, active, cursor, outer, faults>>

(* CollaborationStore.order: the order there is for a key is the answer.   *)
Placed(n) == IF n = 0 THEN 1 ELSE n

(* Seeded fault: a lost answer counts as a refusal.                        *)
RequestLosing ==
  /\ At("reason") /\ Unsettled(Key)
  /\ \/ /\ placed' = [placed EXCEPT ![Key] = Placed(@)]
        /\ Save([Here EXCEPT !.order = TRUE])
        /\ Well
     \/ /\ placed[Key] = 0
        /\ Save([Here EXCEPT !.pending = FALSE])
        /\ UNCHANGED placed /\ Well
     \/ /\ placed' \in {placed, [placed EXCEPT ![Key] = Placed(@)]}
        /\ Save([Here EXCEPT !.pending = FALSE])
        /\ Fault
  /\ UNCHANGED <<turn, chat, feed, outputs, active, cursor, told, uploads>>

(* The order is placed, refused (its price is above the limit), or its     *)
(* answer is lost, and nobody knows.  A saved request is sent first.       *)
Request ==
  /\ At("reason") /\ Unsettled(Key)
  /\ \/ /\ placed' = [placed EXCEPT ![Key] = Placed(@)]
        /\ Save([Here EXCEPT !.order = TRUE])
        /\ UNCHANGED <<turn, chat>> /\ Well
     \/ /\ placed[Key] = 0
        /\ Save([Here EXCEPT !.pending = FALSE])
        /\ UNCHANGED <<turn, chat, placed>> /\ Well
     \/ /\ placed' \in {placed, [placed EXCEPT ![Key] = Placed(@)]}
        /\ UNCHANGED receipt
        /\ Raised /\ Fault
  /\ UNCHANGED <<feed, outputs, active, cursor, told, uploads>>

(* The model answers, or it fails when there is an order to tell of.       *)
Reply ==
  /\ Thinks /\ turn.turns > 0
  /\ LET r == [Here EXCEPT !.output = [order |-> Here.order, text |-> Here.attempts]]
     IN  Save(r) /\ Go(Stage(Key, r))
  /\ UNCHANGED <<apps, active, cursor, outer, faults>>

(* The model fails, or uses up its turns; an unusable answer to a message  *)
(* with an order is a fault.                                               *)
NoReply ==
  /\ Thinks
  /\ IF Here.order /\ turn.turns > 0 THEN Fault ELSE Well
  /\ Raised
  /\ UNCHANGED <<apps, active, cursor, receipt, told, uploads>>
-----------------------------------------------------------------------------
(* What follows an answer *)

(* MessageStore.output: one answer for a message. *)
Post ==
  LET fits == outputs[Key] \in {NoOutput, Here.output}
      with == [outputs EXCEPT ![Key] = IF fits THEN Here.output ELSE @]
  IN
  /\ At("post")
  /\ \/ /\ fits /\ Well
        /\ outputs' = with
        /\ LET r == [Here EXCEPT !.delivered = TRUE] IN Save(r) /\ Go(Stage(Key, r))
        /\ UNCHANGED chat
     \/ /\ ~fits /\ Well
        /\ Raised
        /\ UNCHANGED <<outputs, receipt>>
     \/ /\ outputs' \in {outputs, with} /\ Fault
        /\ Raised
        /\ UNCHANGED receipt
  /\ UNCHANGED <<feed, placed, active, cursor, told, uploads>>

(* Seeded fault: the photo is noted after the upload.                      *)
ClaimNothing ==
  /\ At("photo")
  /\ Go("upload")
  /\ UNCHANGED <<apps, active, cursor, receipt, outer, faults>>

(* The photo, or the album, is claimed before the upload. *)
ClaimPhoto ==
  /\ At("photo")
  /\ Save([Here EXCEPT !.photo = TRUE]) /\ Go("upload")
  /\ UNCHANGED <<apps, active, cursor, outer, faults>>

(* It is not tried again: the text says the same. *)
Upload ==
  /\ At("upload")
  /\ uploads' = [uploads EXCEPT ![Key] = @ + 1]
  /\ LET r == [Here EXCEPT !.photo = TRUE] IN Save(r) /\ Go(Stage(Key, r))
  /\ UNCHANGED <<apps, active, cursor, chat, told, faults>>

(* The chat's durable notification; a failed one may have been seen. *)
Mirror ==
  /\ At("mirror")
  /\ \/ /\ told' = told \union {Key}
        /\ LET r == [Here EXCEPT !.mirrored = TRUE] IN Save(r) /\ Go(Stage(Key, r))
        /\ UNCHANGED chat /\ Well
     \/ /\ told' \in {told, told \union {Key}} /\ Fault
        /\ Raised
        /\ UNCHANGED receipt
  /\ UNCHANGED <<apps, active, cursor, uploads>>

(* The turn is recorded and the cursor moves on, or the chat answers. *)
End ==
  /\ At("end")
  /\ IF Key \in Web
     THEN /\ cursor' = [cursor EXCEPT ![feed[Key]] = Key]
          /\ Continue(turn.todo)
          /\ UNCHANGED chat
     ELSE /\ turn' = Free
          /\ chat' = [chat EXCEPT ![Key] = "answered"]
          /\ UNCHANGED cursor
  /\ UNCHANGED <<apps, active, receipt, told, uploads, faults>>

(* The process ends, or another took its epoch, perhaps with an upload     *)
(* done; the chat's inbox offers the message again.                        *)
Crash ==
  /\ turn # Free /\ Fault
  /\ turn' = Free
  /\ chat' = [c \in Chats |-> IF c = Key THEN "waiting" ELSE chat[c]]
  /\ uploads' \in {uploads} \union (IF At("upload") THEN {[uploads EXCEPT ![Key] = @ + 1]} ELSE {})
  /\ UNCHANGED <<apps, active, cursor, receipt, told>>

Step == Look \/ Decide \/ Request \/ Reply \/ NoReply \/ Post \/ ClaimPhoto \/ Upload \/ Mirror \/ End

Next ==
  \/ \E a \in Apps : Write(a)
  \/ \E c \in Chats : Say(c) \/ HandleChat(c)
  \/ Poll \/ Step \/ Crash

Spec == Init /\ [][Next]_vars

(* The lock's holder goes on, the poll comes each second and the chat has  *)
(* its turn; the model may fail at every call.                             *)
FairSpec == Spec /\ WF_vars(Step) /\ SF_vars(Poll) /\ \A c \in Chats : SF_vars(HandleChat(c))
-----------------------------------------------------------------------------
(* Properties *)

(* A message never leads to two orders, and the answer that was given to   *)
(* it, once there is one, tells of an order exactly when the application   *)
(* has one, whatever was lost, refused or tried again on the way.  That an *)
(* answer is given at all is not said here.                                *)
OrdersTold ==
  \A k \in Keys :
    /\ placed[k] <= 1
    /\ receipt[k].output # NoOutput => (receipt[k].output.order <=> placed[k] = 1)

(* The cursor of an application passes a message only after its answer is  *)
(* where it belongs, at the website and in the chat, as it was saved, and  *)
(* no later message of that application is answered before.                *)
AnsweredInOrder ==
  \A i \in DOMAIN feed :
    /\ i <= cursor[feed[i]] => i \in told /\ outputs[i] = receipt[i].output /\ outputs[i] # NoOutput
    /\ \A j \in DOMAIN feed :
         j < i /\ feed[j] = feed[i] /\ outputs[i] # NoOutput => j <= cursor[feed[i]]

(* Photos are uploaded at most once, whatever is tried again. *)
UploadedOnce == \A k \in Keys : uploads[k] <= 1

(* While a task is active, every message of a website is answered in the   *)
(* end, even by a model that always fails.                                 *)
WebsiteAnswered ==
  \A i \in Web : (i \in DOMAIN feed) ~> (~active \/ (i \in DOMAIN feed /\ i <= cursor[feed[i]]))

=============================================================================
