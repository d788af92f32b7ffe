--------------------------- MODULE ShoppingProofs ---------------------------
(***************************************************************************)
(* Proofs about Shopping, for any applications, messages and faults.       *)
(***************************************************************************)
EXTENDS Shopping, TLAPS

Output  == [order : BOOLEAN, text : Int]
Receipt == [task : BOOLEAN, attempts : Nat, pending : BOOLEAN, order : BOOLEAN, output : Output,
            delivered : BOOLEAN, photo : BOOLEAN, mirrored : BOOLEAN]
Stages  == {"post", "photo", "mirror", "end"}
Turn    == [key : Keys \union {NoKey},
            pc : Stages \union {"free", "look", "reason", "upload"},
            turns : Nat, todo : SUBSET Web]

ShoppingFits ==
  /\ feed \in Seq(Apps) /\ Len(feed) <= MaxFeed
  /\ placed \in [Keys -> Nat] /\ outputs \in [Web -> Output]
  /\ active \in BOOLEAN /\ cursor \in [Apps -> Nat] /\ receipt \in [Keys -> Receipt]
  /\ turn \in Turn
  /\ chat \in [Chats -> {"absent", "waiting", "handling", "answered"}]
  /\ told \subseteq Keys /\ uploads \in [Keys -> Nat]

(* Where the holder of the lock is says what its receipt holds.            *)
Holder ==
  /\ At("free") => Key = NoKey
  /\ ~At("free") => Key \in Keys
  /\ At("look") \/ At("post") \/ At("mirror") => Key \in Web
  /\ At("reason") => Here.output = NoOutput
  /\ turn.pc \in Stages \union {"upload"} => Here.output # NoOutput
  /\ turn.pc \in {"photo", "upload", "mirror", "end"} /\ Key \in Web => Here.delivered
  /\ At("photo") => ~Here.photo
  /\ At("upload") => Here.photo /\ uploads[Key] = 0
  /\ At("end") /\ Key \in Web => Here.mirrored

(* An order was requested before it was placed, and is noted before the    *)
(* answer that tells of it; an answer leaves no request unsettled.         *)
Sold(k) ==
  /\ placed[k] <= 1
  /\ receipt[k].order => placed[k] = 1
  /\ placed[k] = 1 => receipt[k].pending
  /\ receipt[k].output # NoOutput => (receipt[k].output.order <=> receipt[k].order) /\ ~Unsettled(k)

Photographed(k) == uploads[k] <= 1 /\ (uploads[k] = 1 => receipt[k].photo)

(* The answer at the website is the one that was saved. *)
Told(k) ==
  /\ outputs[k] # NoOutput => outputs[k] = receipt[k].output
  /\ receipt[k].delivered => outputs[k] # NoOutput
  /\ receipt[k].mirrored => k \in told

(* What the poll has taken up and not ended: of each application all that  *)
(* is before it and after the cursor.                                      *)
Taken == turn.todo \union ({Key} \intersect Web)
Queued ==
  /\ Taken \subseteq DOMAIN feed
  /\ \A i \in Taken : cursor[feed[i]] < i
  /\ \A i \in Taken, j \in DOMAIN feed :
       j < i /\ feed[j] = feed[i] => j <= cursor[feed[i]] \/ j \in Taken
  /\ Key \in Web => \A j \in turn.todo : Key < j

Passed ==
  /\ \A a \in Apps : cursor[a] <= Len(feed)
  /\ \A i \in Web : outputs[i] # NoOutput => i \in DOMAIN feed
  /\ \A i \in DOMAIN feed : i <= cursor[feed[i]] => i \in told /\ outputs[i] # NoOutput
  /\ \A i, j \in DOMAIN feed :
       j < i /\ feed[j] = feed[i] /\ outputs[i] # NoOutput => j <= cursor[feed[i]]

Kept(k) == Sold(k) /\ Photographed(k) /\ (k \in Web => Told(k))

ShoppingInv == ShoppingFits /\ Holder /\ (\A k \in Keys : Kept(k)) /\ Queued /\ Passed

-----------------------------------------------------------------------------
(* Turns *)

LEMMA Ranges ==
  /\ NoKey \notin Keys /\ Web \subseteq Keys /\ Chats \subseteq Keys /\ Chats \intersect Web = {}
  /\ MaxTurns \in Nat /\ Attempts \in Nat /\ MaxFeed \in Nat
  /\ Web \subseteq Nat
BY ShoppingAssumption DEF Keys, Web

LEMMA Records ==
  /\ NoOutput \in Output /\ Fresh \in Receipt /\ Free \in Turn
  /\ \A r \in BOOLEAN, n \in Nat : [order |-> r, text |-> n] \in Output /\ [order |-> r, text |-> n] # NoOutput
BY DEF NoOutput, Output, Fresh, Receipt, Free, Turn, Stages

(* The poll goes on with the first of what is left, or is over. *)
LEMMA GoesOn ==
  ASSUME NEW todo, todo \subseteq Web, Continue(todo)
  PROVE  /\ turn' \in Turn /\ Taken' = todo
         /\ \/ turn'.pc = "free" /\ turn'.key = NoKey
            \/ turn'.pc = "look" /\ turn'.key \in Web
         /\ turn'.key \in Web => \A j \in turn'.todo : turn'.key < j
<1>1. CASE todo = {} /\ turn' = Free
  <2>1. turn'.pc = "free" /\ turn'.key = NoKey /\ turn'.todo = {}
    BY <1>1 DEF Free
  <2>2. QED
    BY <1>1, <2>1, Ranges, Records DEF Taken, Key
<1>2. ASSUME NEW i \in todo, \A j \in todo : i <= j, turn' = Take(i, "look", todo \ {i})
      PROVE  /\ turn' \in Turn /\ Taken' = todo
             /\ turn'.pc = "look" /\ turn'.key \in Web
             /\ \A j \in turn'.todo : turn'.key < j
  <2>1. turn'.pc = "look" /\ turn'.key = i /\ turn'.todo = todo \ {i}
    BY <1>2 DEF Take
  <2>2. turn' \in Turn
    BY <1>2, Ranges DEF Take, Turn
  <2>3. \A j \in todo \ {i} : i < j
    BY <1>2, Ranges
  <2>4. Taken' = todo
    BY <2>1 DEF Taken, Key
  <2>5. QED
    BY <2>1, <2>2, <2>3, <2>4
<1>3. QED
  BY <1>1, <1>2 DEF Continue

(* A turn that is over leaves nothing taken up. *)
LEMMA Frees ==
  ASSUME turn' = Free
  PROVE  turn' \in Turn /\ Taken' = {} /\ turn'.pc = "free" /\ turn'.key = NoKey
<1>1. turn'.pc = "free" /\ turn'.key = NoKey /\ turn'.todo = {}
  BY DEF Free
<1>2. QED
  BY <1>1, Ranges, Records DEF Taken, Key

LEMMA Goes ==
  ASSUME turn \in Turn, NEW pc \in Stages \union {"reason", "upload"}, Go(pc)
  PROVE  turn' \in Turn /\ Taken' = Taken /\ turn'.pc = pc /\ turn'.key = Key /\ turn'.todo = turn.todo
<1>1. turn' \in Turn /\ turn'.pc = pc /\ turn'.key = Key /\ turn'.todo = turn.todo
  BY DEF Go, Turn, Key
<1>2. QED
  BY <1>1 DEF Taken, Key

(* A turn that fails is given up, with what its application has left.      *)
LEMMA Fails ==
  ASSUME ShoppingFits, Key \in Keys, Raised
  PROVE  /\ turn' \in Turn
         /\ \/ turn'.pc = "free" /\ turn'.key = NoKey
            \/ turn'.pc = "look" /\ turn'.key \in Web
         /\ turn'.key \in Web => \A j \in turn'.todo : turn'.key < j
         /\ Taken' \in {{}, {i \in turn.todo : feed[i] # feed[Key]}}
         /\ chat' \in [Chats -> {"absent", "waiting", "handling", "answered"}]
<1>1. CASE Key \in Web
  <2>1. Continue({i \in turn.todo : feed[i] # feed[Key]}) /\ chat' = chat
    BY <1>1 DEF Raised
  <2>2. {i \in turn.todo : feed[i] # feed[Key]} \subseteq Web
    BY DEF ShoppingFits, Turn
  <2>3. QED
    BY <2>1, <2>2, GoesOn DEF ShoppingFits
<1>2. CASE Key \notin Web
  <2>1. turn' = Free /\ chat' = [chat EXCEPT ![Key] = "answered"]
    BY <1>2 DEF Raised
  <2>2. chat' \in [Chats -> {"absent", "waiting", "handling", "answered"}]
    BY <2>1 DEF ShoppingFits
  <2>3. QED
    BY <2>1, <2>2, Frees, Ranges
<1>3. QED
  BY <1>1, <1>2

-----------------------------------------------------------------------------
(* What steps have in common *)

LEMMA Saves ==
  ASSUME ShoppingFits, NEW k \in Keys, k = Key, NEW r \in Receipt, Save(r)
  PROVE  /\ receipt' \in [Keys -> Receipt] /\ receipt'[k] = r
         /\ \A o \in Keys \ {k} : receipt'[o] = receipt[o]
BY DEF Save, ShoppingFits

(* Nothing of other messages is touched. *)
LEMMA Others ==
  ASSUME ShoppingInv, NEW k \in Keys,
         receipt'[k] = receipt[k], placed'[k] = placed[k], uploads'[k] = uploads[k],
         k \in Web => outputs'[k] = outputs[k], told \subseteq told'
  PROVE  Kept(k)'
BY DEF ShoppingInv, Kept, Sold, Photographed, Told, Unsettled

LEMMA Untouched ==
  ASSUME ShoppingInv, UNCHANGED <<receipt, placed, uploads, outputs, told>>
  PROVE  \A k \in Keys : Kept(k)'
BY Others

(* A turn that is over, or looks at a message, holds no receipt yet. *)
LEMMA HolderRests ==
  ASSUME \/ turn'.pc = "free" /\ turn'.key = NoKey
         \/ turn'.pc = "look" /\ turn'.key \in Web
  PROVE  Holder'
BY Ranges DEF Holder, At, Key, Stages

(* What remains to be done of an answer fits its receipt. *)
LEMMA StageHolds ==
  ASSUME NEW k \in Keys, NEW r \in Receipt, r.output # NoOutput,
         turn'.key = k, turn'.pc = Stage(k, r), receipt'[k] = r
  PROVE  Holder'
<1>1. Stage(k, r) \in Stages
  BY DEF Stage, Stages
<1>2. /\ Stage(k, r) \in {"post", "mirror"} => k \in Web
      /\ Stage(k, r) \in {"photo", "mirror", "end"} /\ k \in Web => r.delivered
      /\ Stage(k, r) = "photo" => ~r.photo
      /\ Stage(k, r) = "end" /\ k \in Web => r.mirrored
  BY Ranges DEF Stage
<1>3. QED
  BY <1>1, <1>2 DEF Holder, At, Key, Here, Stages

(* A poll, or a turn, that is given up or goes on leaves the order as it   *)
(* was.                                                                    *)
LEMMA QueueOn ==
  ASSUME ShoppingInv, UNCHANGED <<feed, cursor>>,
         Taken' \in {Taken, {}, {i \in turn.todo : feed[i] # feed[Key]}},
         turn'.key \in Web => \A j \in turn'.todo : turn'.key < j
  PROVE  Queued'
<1>1. Queued
  BY DEF ShoppingInv
<1>2. CASE Taken' = Taken
  BY <1>1, <1>2 DEF Queued, Key
<1>3. CASE Taken' = {}
  BY <1>3 DEF Queued, Key
<1>4. CASE Taken' = {i \in turn.todo : feed[i] # feed[Key]}
  <2>1. Taken' \subseteq Taken
    BY <1>4 DEF Taken
  <2>2. \A i \in Taken', j \in Taken : feed[j] = feed[i] => j \in Taken'
    BY <1>4 DEF Taken
  <2>3. QED
    BY <1>1, <2>1, <2>2 DEF Queued, Key
<1>5. QED
  BY <1>2, <1>3, <1>4

LEMMA PassedOn ==
  ASSUME ShoppingInv, UNCHANGED <<feed, cursor, outputs>>, told \subseteq told'
  PROVE  Passed'
BY DEF ShoppingInv, Passed

-----------------------------------------------------------------------------
(* Messages arrive *)

LEMMA WriteStep ==
  ASSUME ShoppingInv, NEW a \in Apps, Write(a)
  PROVE  ShoppingInv'
<1> USE DEF ShoppingInv
<1>1. feed \in Seq(Apps) /\ feed' = Append(feed, a) /\ Len(feed) < MaxFeed
  BY DEF ShoppingFits, Write
<1>2. UNCHANGED <<placed, outputs, active, cursor, receipt, turn, chat, told, uploads>>
  BY DEF Write, outer
<1>3. /\ feed' \in Seq(Apps) /\ Len(feed') = Len(feed) + 1 /\ Len(feed) \in Nat
      /\ DOMAIN feed = 1..Len(feed) /\ DOMAIN feed' = 1..(Len(feed) + 1)
      /\ feed'[Len(feed) + 1] = a
      /\ \A i \in DOMAIN feed : feed'[i] = feed[i] /\ feed[i] \in Apps
  BY <1>1
<1>4. ShoppingFits'
  BY <1>1, <1>2, <1>3, Ranges DEF ShoppingFits
<1>5. Holder' /\ \A k \in Keys : Kept(k)'
  BY <1>2, Untouched DEF Holder, At, Key, Here
<1>6. Queued'
  BY <1>2, <1>3 DEF Queued, Taken, Key
<1>7. Passed'
  <2>1. cursor[a] <= Len(feed) /\ cursor[a] \in Nat
    BY DEF Passed, ShoppingFits
  <2>2. ASSUME NEW i \in DOMAIN feed' PROVE i <= cursor[feed'[i]] => i \in told /\ outputs[i] # NoOutput
    BY <1>3, <2>1 DEF Passed
  <2>3. ASSUME NEW i \in DOMAIN feed', NEW j \in DOMAIN feed',
               j < i, feed'[j] = feed'[i], outputs[i] # NoOutput
        PROVE  j <= cursor[feed'[i]]
    <3>1. i \in Web
      BY <1>1, <1>3, Ranges DEF Web
    <3>2. i \in DOMAIN feed
      BY <2>3, <3>1 DEF Passed
    <3>3. j \in DOMAIN feed
      BY <1>3, <2>3, <3>2
    <3>4. QED
      BY <1>3, <2>3, <3>2, <3>3 DEF Passed
  <2>4. \A x \in Apps : cursor[x] <= Len(feed')
    BY <1>3 DEF Passed, ShoppingFits
  <2>5. \A i \in Web : outputs[i] # NoOutput => i \in DOMAIN feed'
    BY <1>3 DEF Passed
  <2>6. QED
    BY <1>2, <2>2, <2>3, <2>4, <2>5 DEF Passed
<1>8. QED
  BY <1>4, <1>5, <1>6, <1>7

LEMMA SayStep ==
  ASSUME ShoppingInv, NEW c \in Chats, Say(c)
  PROVE  ShoppingInv'
<1> USE DEF ShoppingInv
<1>1. UNCHANGED <<feed, placed, outputs, active, cursor, receipt, turn, told, uploads>>
  BY DEF Say, apps
<1>2. ShoppingFits'
  <2>1. chat' \in [Chats -> {"absent", "waiting", "handling", "answered"}]
    BY DEF Say, ShoppingFits
  <2>2. QED
    BY <1>1, <2>1 DEF ShoppingFits
<1>3. Holder' /\ \A k \in Keys : Kept(k)'
  BY <1>1, Untouched DEF Holder, At, Key, Here
<1>4. Queued' /\ Passed'
  BY <1>1 DEF Queued, Taken, Key, Passed
<1>5. QED
  BY <1>2, <1>3, <1>4

LEMMA PollStep ==
  ASSUME ShoppingInv, Poll
  PROVE  ShoppingInv'
<1> USE DEF ShoppingInv
<1>1. UNCHANGED <<feed, placed, outputs, active, cursor, receipt, chat, told, uploads>>
  BY DEF Poll, apps, outer
<1>2. PICK up \in SUBSET Apps : Continue({i \in DOMAIN feed : active /\ feed[i] \in up /\ i > cursor[feed[i]]})
  BY DEF Poll
<1> DEFINE todo == {i \in DOMAIN feed : active /\ feed[i] \in up /\ i > cursor[feed[i]]}
<1>3. todo \subseteq Web /\ DOMAIN feed = 1..Len(feed) /\ Len(feed) \in Nat
  BY Ranges DEF ShoppingFits, Web
<1>4. /\ turn' \in Turn /\ Taken' = todo
      /\ \/ turn'.pc = "free" /\ turn'.key = NoKey
         \/ turn'.pc = "look" /\ turn'.key \in Web
      /\ turn'.key \in Web => \A j \in turn'.todo : turn'.key < j
  BY <1>2, <1>3, GoesOn
<1>5. ShoppingFits'
  BY <1>1, <1>4 DEF ShoppingFits
<1>6. Holder' /\ (\A k \in Keys : Kept(k)') /\ Passed'
  BY <1>1, <1>4, HolderRests, Untouched, PassedOn
<1>7. Queued'
  <2>1. \A i \in todo : i \in Nat /\ cursor[feed[i]] \in Nat /\ cursor[feed[i]] < i
    BY <1>3 DEF ShoppingFits
  <2>2. ASSUME NEW i \in todo, NEW j \in DOMAIN feed, j < i, feed[j] = feed[i]
        PROVE  j <= cursor[feed[i]] \/ j \in todo
    <3>1. j \in Nat /\ cursor[feed[j]] \in Nat
      BY <1>3 DEF ShoppingFits
    <3>2. QED
      BY <2>2, <3>1
  <2> HIDE DEF todo
  <2>3. todo \subseteq DOMAIN feed
    BY DEF todo
  <2>4. QED
    BY <1>1, <1>4, <2>1, <2>2, <2>3 DEF Queued, Key
<1>8. QED
  BY <1>5, <1>6, <1>7

LEMMA HandleChatStep ==
  ASSUME ShoppingInv, NEW c \in Chats, HandleChat(c)
  PROVE  ShoppingInv'
<1> USE DEF ShoppingInv
<1> DEFINE starts == Kind[c] = "shop" /\ ~receipt[c].task
           ours   == Kind[c] = "shop" \/ (Kind[c] = "text" /\ active)
<1>1. UNCHANGED <<feed, placed, outputs, cursor, told, uploads>> /\ c \in Keys /\ c \notin Web
  BY Ranges DEF HandleChat, apps
<1>2. receipt' = [receipt EXCEPT ![c].task = @ \/ starts] /\ active' = ((active \/ starts) /\ Kind[c] # "cancel")
  BY DEF HandleChat
<1>3. receipt[c] \in Receipt
  BY <1>1 DEF ShoppingFits
<1>4. PICK has \in BOOLEAN : has = (receipt[c].task \/ starts)
  BY <1>3 DEF Receipt
<1>5. /\ receipt' \in [Keys -> Receipt]
      /\ receipt'[c] = [receipt[c] EXCEPT !.task = has]
      /\ \A k \in Keys \ {c} : receipt'[k] = receipt[k]
  <2>1. [receipt[c] EXCEPT !.task = has] \in Receipt
    BY <1>3 DEF Receipt
  <2>2. receipt' = [receipt EXCEPT ![c] = [receipt[c] EXCEPT !.task = has]]
    BY <1>2, <1>4
  <2>3. QED
    BY <1>1, <2>1, <2>2 DEF ShoppingFits
<1>6. /\ receipt'[c].output = receipt[c].output /\ receipt'[c].order = receipt[c].order
      /\ receipt'[c].pending = receipt[c].pending /\ receipt'[c].photo = receipt[c].photo
      /\ receipt'[c].delivered = receipt[c].delivered /\ receipt'[c].mirrored = receipt[c].mirrored
  BY <1>3, <1>5 DEF Receipt
<1>7. \A k \in Keys : Kept(k)'
  <2>1. Kept(c)'
    BY <1>1, <1>6 DEF Kept, Sold, Photographed, Unsettled
  <2>2. QED
    BY <1>1, <1>5, <2>1, Others
<1>8. Passed'
  BY <1>1, PassedOn
<1>9. turn.key = NoKey /\ turn.todo = {} /\ Taken = {}
  BY Ranges DEF HandleChat, Free, Taken, Key
<1>10. CASE ~ours
  <2>1. UNCHANGED turn /\ chat' = [chat EXCEPT ![c] = "answered"]
    BY <1>10 DEF HandleChat
  <2>2. turn'.pc = "free" /\ turn'.key = NoKey
    BY <2>1 DEF HandleChat, Free
  <2>3. Holder'
    BY <2>2, HolderRests
  <2>4. Queued'
    BY <1>1, <2>1 DEF Queued, Taken, Key
  <2>5. ShoppingFits'
    <3>1. chat' \in [Chats -> {"absent", "waiting", "handling", "answered"}]
      BY <2>1 DEF ShoppingFits
    <3>2. active' \in BOOLEAN
      BY <1>2
    <3>3. QED
      BY <1>1, <1>5, <2>1, <3>1, <3>2 DEF ShoppingFits
  <2>6. QED
    BY <1>7, <1>8, <2>3, <2>4, <2>5
<1>11. CASE ours
  <2> DEFINE pc == IF receipt[c].output = NoOutput THEN "reason" ELSE Stage(c, receipt[c])
  <2>1. turn' = Take(c, pc, {}) /\ chat' = [chat EXCEPT ![c] = "handling"]
    BY <1>11 DEF HandleChat
  <2>2. pc \in Stages \union {"reason"}
    BY DEF Stage, Stages
  <2>3. turn'.key = c /\ turn'.pc = pc /\ turn'.todo = {}
    BY <2>1 DEF Take
  <2>4. turn' \in Turn
    <3>1. turn' = [key |-> c, pc |-> pc, turns |-> MaxTurns, todo |-> {}]
      BY <2>1 DEF Take
    <3> HIDE DEF pc
    <3>2. QED
      BY <1>1, <2>2, <3>1, Ranges DEF Turn
  <2>5. Holder'
    <3>1. CASE receipt[c].output = NoOutput
      BY <1>1, <1>6, <2>3, <3>1 DEF Holder, At, Key, Here, Stages
    <3>2. CASE receipt[c].output # NoOutput
      <4>1. turn'.pc = Stage(c, receipt[c])
        BY <2>3, <3>2
      <4>2. Stage(c, receipt'[c]) = Stage(c, receipt[c])
        BY <1>6 DEF Stage
      <4>3. receipt'[c] \in Receipt
        BY <1>1, <1>5
      <4>4. QED
        BY <1>1, <1>6, <2>3, <3>2, <4>1, <4>2, <4>3, StageHolds
    <3>3. QED
      BY <3>1, <3>2
  <2>6. Queued'
    BY <1>1, <2>3 DEF Queued, Taken, Key
  <2>7. ShoppingFits'
    <3>1. chat' \in [Chats -> {"absent", "waiting", "handling", "answered"}]
      BY <2>1 DEF ShoppingFits
    <3>2. active' \in BOOLEAN
      BY <1>2
    <3>3. QED
      BY <1>1, <1>5, <2>4, <3>1, <3>2 DEF ShoppingFits
  <2>8. QED
    BY <1>7, <1>8, <2>5, <2>6, <2>7
<1>12. QED
  BY <1>10, <1>11

-----------------------------------------------------------------------------
(* A turn of the model *)

(* A step with a message in hand, which is put down or kept. *)
LEMMA InHand ==
  ASSUME ShoppingInv, NEW k \in Keys, k = Key, UNCHANGED <<feed, cursor, active, outputs>>,
         receipt' \in [Keys -> Receipt], placed' \in [Keys -> Nat], uploads' \in [Keys -> Nat],
         chat' \in [Chats -> {"absent", "waiting", "handling", "answered"}],
         told \subseteq told', told' \subseteq Keys,
         \A o \in Keys \ {k} : receipt'[o] = receipt[o] /\ placed'[o] = placed[o] /\ uploads'[o] = uploads[o],
         Kept(k)', Holder', turn' \in Turn,
         Taken' \in {Taken, {}, {i \in turn.todo : feed[i] # feed[Key]}},
         turn'.key \in Web => \A j \in turn'.todo : turn'.key < j
  PROVE  ShoppingInv'
<1>1. ShoppingFits'
  BY DEF ShoppingInv, ShoppingFits
<1>2. \A o \in Keys : Kept(o)'
  BY Others
<1>3. Queued' /\ Passed'
  BY QueueOn, PassedOn
<1>4. QED
  BY <1>1, <1>2, <1>3 DEF ShoppingInv

LEMMA LookStep ==
  ASSUME ShoppingInv, Look
  PROVE  ShoppingInv'
<1>1. PICK k \in Web : k = Key
  BY DEF ShoppingInv, Holder, Look
<1>2. k \in Keys /\ receipt[k] \in Receipt /\ turn \in Turn /\ Here = receipt[k]
  BY <1>1, Ranges DEF ShoppingInv, ShoppingFits, Here
<1>3. UNCHANGED <<feed, placed, outputs, active, cursor, chat, told, uploads>>
  BY DEF Look, apps, outer
<1>4. Kept(k) /\ (Key \in Web => \A j \in turn.todo : Key < j)
  BY <1>2 DEF ShoppingInv, Queued
<1>5. CASE receipt[k].output # NoOutput
  <2>1. receipt' = receipt /\ Go(Stage(k, receipt[k]))
    BY <1>1, <1>2, <1>5 DEF Look
  <2>2. Stage(k, receipt[k]) \in Stages
    BY DEF Stage, Stages
  <2>3. /\ turn' \in Turn /\ Taken' = Taken /\ turn'.pc = Stage(k, receipt[k]) /\ turn'.key = k
        /\ turn'.todo = turn.todo
    BY <1>1, <1>2, <2>1, <2>2, Goes
  <2>4. Holder'
    BY <1>2, <1>5, <2>1, <2>3, StageHolds
  <2>5. Kept(k)'
    BY <1>2, <1>3, <1>4, <2>1, Others
  <2>6. QED
    BY <1>1, <1>2, <1>3, <1>4, <2>1, <2>3, <2>4, <2>5, InHand DEF ShoppingInv, ShoppingFits
<1>6. CASE receipt[k].output = NoOutput /\ receipt[k].attempts >= Attempts /\ ~receipt[k].pending
  <2>1. PICK o \in Output : o = [order |-> FALSE, text |-> 0] /\ o # NoOutput /\ ~o.order
    <3>1. [order |-> FALSE, text |-> 0] \in Output /\ [order |-> FALSE, text |-> 0] # NoOutput
      BY Records
    <3>2. QED
      BY <3>1
  <2> DEFINE r == [receipt[k] EXCEPT !.output = o]
  <2>2. Save(r) /\ Go("post")
    BY <1>2, <1>6, <2>1 DEF Look
  <2>3. r \in Receipt
    BY <1>2 DEF Receipt
  <2>4. /\ r.output # NoOutput /\ ~r.output.order
        /\ r.pending = receipt[k].pending /\ r.order = receipt[k].order /\ r.photo = receipt[k].photo
        /\ r.delivered = receipt[k].delivered /\ r.mirrored = receipt[k].mirrored
    BY <1>2, <2>1 DEF Receipt
  <2> HIDE DEF r
  <2>5. /\ turn' \in Turn /\ Taken' = Taken /\ turn'.pc = "post" /\ turn'.key = k /\ turn'.todo = turn.todo
    BY <1>1, <1>2, <2>2, Goes DEF Stages
  <2>6. /\ receipt' \in [Keys -> Receipt] /\ receipt'[k] = r
        /\ \A x \in Keys \ {k} : receipt'[x] = receipt[x]
    BY <1>1, <1>2, <2>2, <2>3, Saves DEF ShoppingInv
  <2>7. Holder'
    BY <1>2, <2>4, <2>5, <2>6 DEF Holder, At, Key, Here, Stages
  <2>8. placed[k] # 1 /\ ~receipt[k].order /\ outputs[k] = NoOutput
    BY <1>4, <1>6 DEF Kept, Sold, Told
  <2>9. Kept(k)'
    BY <1>3, <1>4, <1>6, <2>4, <2>6, <2>8 DEF Kept, Sold, Photographed, Told, Unsettled
  <2>10. QED
    BY <1>1, <1>2, <1>3, <1>4, <2>5, <2>6, <2>7, <2>9, InHand DEF ShoppingInv, ShoppingFits
<1>7. CASE receipt[k].output = NoOutput /\ ~(receipt[k].attempts >= Attempts /\ ~receipt[k].pending)
  <2> DEFINE r == [receipt[k] EXCEPT !.attempts = IF @ < Attempts THEN @ + 1 ELSE @]
  <2>1. Save(r) /\ Go("reason")
    BY <1>2, <1>7 DEF Look
  <2>2. r \in Receipt
    BY <1>2, Ranges DEF Receipt
  <2>3. /\ r.output = NoOutput
        /\ r.pending = receipt[k].pending /\ r.order = receipt[k].order /\ r.photo = receipt[k].photo
        /\ r.delivered = receipt[k].delivered /\ r.mirrored = receipt[k].mirrored
    BY <1>2, <1>7 DEF Receipt
  <2> HIDE DEF r
  <2>4. /\ turn' \in Turn /\ Taken' = Taken /\ turn'.pc = "reason" /\ turn'.key = k /\ turn'.todo = turn.todo
    BY <1>1, <1>2, <2>1, Goes
  <2>5. /\ receipt' \in [Keys -> Receipt] /\ receipt'[k] = r
        /\ \A x \in Keys \ {k} : receipt'[x] = receipt[x]
    BY <1>1, <1>2, <2>1, <2>2, Saves DEF ShoppingInv
  <2>6. Holder'
    BY <1>2, <2>3, <2>4, <2>5 DEF Holder, At, Key, Here, Stages
  <2>7. Kept(k)'
    BY <1>3, <1>4, <1>7, <2>3, <2>5 DEF Kept, Sold, Photographed, Told, Unsettled
  <2>8. QED
    BY <1>1, <1>2, <1>3, <1>4, <2>4, <2>5, <2>6, <2>7, InHand DEF ShoppingInv, ShoppingFits
<1>8. QED
  BY <1>5, <1>6, <1>7

(* The message the model thinks about. *)
LEMMA Reasons ==
  ASSUME ShoppingInv, At("reason")
  PROVE  /\ Key \in Keys /\ receipt[Key] \in Receipt /\ Here = receipt[Key] /\ turn \in Turn
         /\ receipt[Key].output = NoOutput /\ (Key \in Web => \A j \in turn.todo : Key < j)
BY DEF ShoppingInv, ShoppingFits, Holder, Queued, At, Here

LEMMA DecideStep ==
  ASSUME ShoppingInv, Decide
  PROVE  ShoppingInv'
<1>1. At("reason") /\ ~Unsettled(Key) /\ ~Here.order /\ turn.turns > 0
  BY DEF Decide, Thinks
<1>2. PICK k \in Keys : k = Key
  BY <1>1, Reasons
<1>3. /\ receipt[k] \in Receipt /\ Here = receipt[k] /\ turn \in Turn /\ receipt[k].output = NoOutput
      /\ (Key \in Web => \A j \in turn.todo : Key < j) /\ Kept(k)
  BY <1>1, <1>2, Reasons DEF ShoppingInv
<1>4. UNCHANGED <<feed, placed, outputs, active, cursor, chat, told, uploads>>
  BY DEF Decide, apps, outer
<1> DEFINE r == [receipt[k] EXCEPT !.pending = TRUE]
<1>5. r \in Receipt
  BY <1>3 DEF Receipt
<1>6. /\ r.output = NoOutput /\ r.pending /\ r.order = receipt[k].order /\ r.photo = receipt[k].photo
      /\ r.delivered = receipt[k].delivered /\ r.mirrored = receipt[k].mirrored
  BY <1>3 DEF Receipt
<1>7. turn' \in Turn /\ turn'.pc = "reason" /\ turn'.key = k /\ turn'.todo = turn.todo
  BY <1>1, <1>2, <1>3 DEF Decide, Turn, At, Key
<1>8. Save(r)
  BY <1>3 DEF Decide
<1> HIDE DEF r
<1>9. Taken' = Taken
  BY <1>2, <1>7 DEF Taken, Key
<1>10. /\ receipt' \in [Keys -> Receipt] /\ receipt'[k] = r
       /\ \A x \in Keys \ {k} : receipt'[x] = receipt[x]
  BY <1>2, <1>5, <1>8, Saves DEF ShoppingInv
<1>11. Holder'
  BY <1>6, <1>7, <1>10 DEF Holder, At, Key, Here, Stages
<1>12. Kept(k)'
  BY <1>3, <1>4, <1>6, <1>10 DEF Kept, Sold, Photographed, Told, Unsettled
<1>13. QED
  BY <1>2, <1>3, <1>4, <1>7, <1>9, <1>10, <1>11, <1>12, InHand DEF ShoppingInv, ShoppingFits

(* A turn that fails, with its message as it should be. *)
LEMMA GivesUp ==
  ASSUME ShoppingInv, NEW k \in Keys, k = Key, Raised,
         UNCHANGED <<feed, cursor, active, outputs, receipt>>,
         placed' \in [Keys -> Nat], UNCHANGED uploads, told \subseteq told', told' \subseteq Keys,
         \A o \in Keys \ {k} : placed'[o] = placed[o],
         Kept(k)'
  PROVE  ShoppingInv'
<1>1. /\ turn' \in Turn
      /\ \/ turn'.pc = "free" /\ turn'.key = NoKey
         \/ turn'.pc = "look" /\ turn'.key \in Web
      /\ turn'.key \in Web => \A j \in turn'.todo : turn'.key < j
      /\ Taken' \in {{}, {i \in turn.todo : feed[i] # feed[Key]}}
      /\ chat' \in [Chats -> {"absent", "waiting", "handling", "answered"}]
  BY Fails DEF ShoppingInv
<1>2. Holder'
  BY <1>1, HolderRests
<1>3. receipt \in [Keys -> Receipt] /\ uploads \in [Keys -> Nat]
  BY DEF ShoppingInv, ShoppingFits
<1>4. QED
  BY <1>1, <1>2, <1>3, InHand

(* An order under way, as the application has it. *)
LEMMA Ordered ==
  ASSUME ShoppingInv, NEW k \in Keys, receipt[k].output = NoOutput, Unsettled(k),
         UNCHANGED <<outputs, told, uploads>>,
         NEW r \in Receipt, receipt'[k] = r, r.output = NoOutput,
         r.photo = receipt[k].photo, r.delivered = receipt[k].delivered, r.mirrored = receipt[k].mirrored,
         placed'[k] \in {placed[k], Placed(placed[k])},
         r.order => placed'[k] = Placed(placed[k]),
         placed'[k] = 1 => r.pending
  PROVE  Kept(k)'
<1>1. Kept(k) /\ placed[k] \in Nat /\ placed[k] <= 1
  BY DEF ShoppingInv, ShoppingFits, Kept, Sold
<1>2. placed'[k] <= 1 /\ Placed(placed[k]) = 1
  BY <1>1 DEF Placed
<1>3. Sold(k)'
  BY <1>2 DEF Sold
<1>4. Photographed(k)' /\ (k \in Web => Told(k)')
  BY <1>1 DEF Kept, Photographed, Told
<1>5. QED
  BY <1>3, <1>4 DEF Kept

LEMMA RequestStep ==
  ASSUME ShoppingInv, Request
  PROVE  ShoppingInv'
<1>1. At("reason") /\ Unsettled(Key)
  BY DEF Request
<1>2. PICK k \in Keys : k = Key
  BY <1>1, Reasons
<1>3. /\ receipt[k] \in Receipt /\ Here = receipt[k] /\ turn \in Turn /\ receipt[k].output = NoOutput
      /\ (Key \in Web => \A j \in turn.todo : Key < j) /\ Kept(k) /\ Unsettled(k)
  BY <1>1, <1>2, Reasons DEF ShoppingInv
<1>4. UNCHANGED <<feed, outputs, active, cursor, told, uploads>>
  BY DEF Request
<1>5. receipt[k].pending /\ placed \in [Keys -> Nat] /\ Placed(placed[k]) \in Nat
  BY <1>3 DEF Unsettled, Placed, ShoppingInv, ShoppingFits
<1> DEFINE asks == [placed EXCEPT ![k] = Placed(@)]
<1>6. asks \in [Keys -> Nat] /\ asks[k] = Placed(placed[k]) /\ \A x \in Keys \ {k} : asks[x] = placed[x]
  BY <1>5
<1> HIDE DEF asks
<1>7. ASSUME NEW r \in Receipt, Save(r), UNCHANGED <<turn, chat>>, r.output = NoOutput,
             r.photo = receipt[k].photo, r.delivered = receipt[k].delivered, r.mirrored = receipt[k].mirrored,
             placed' \in {placed, asks}, r.order => placed' = asks, placed'[k] = 1 => r.pending
      PROVE  ShoppingInv'
  <2>1. /\ receipt' \in [Keys -> Receipt] /\ receipt'[k] = r
        /\ \A x \in Keys \ {k} : receipt'[x] = receipt[x]
    BY <1>2, <1>7, Saves DEF ShoppingInv
  <2>2. Kept(k)'
    BY <1>3, <1>4, <1>6, <1>7, <2>1, Ordered
  <2>3. turn'.pc = "reason" /\ turn'.key = k
    BY <1>1, <1>2, <1>7 DEF At, Key
  <2>4. Holder'
    BY <1>7, <2>1, <2>3 DEF Holder, At, Key, Here, Stages
  <2>5. Taken' = Taken /\ (turn'.key \in Web => \A j \in turn'.todo : turn'.key < j)
    BY <1>3, <1>7 DEF Taken, Key
  <2>6. placed' \in [Keys -> Nat] /\ \A x \in Keys \ {k} : placed'[x] = placed[x]
    BY <1>5, <1>6, <1>7
  <2>7. chat' \in [Chats -> {"absent", "waiting", "handling", "answered"}]
    BY <1>7 DEF ShoppingInv, ShoppingFits
  <2>8. QED
    BY <1>2, <1>3, <1>4, <1>7, <2>1, <2>2, <2>4, <2>5, <2>6, <2>7, InHand DEF ShoppingInv, ShoppingFits
<1>8. CASE placed' = asks /\ Save([Here EXCEPT !.order = TRUE]) /\ UNCHANGED <<turn, chat>>
  <2> DEFINE r == [receipt[k] EXCEPT !.order = TRUE]
  <2>1. r \in Receipt
    BY <1>3 DEF Receipt
  <2>2. /\ r.output = NoOutput /\ r.pending
        /\ r.photo = receipt[k].photo /\ r.delivered = receipt[k].delivered /\ r.mirrored = receipt[k].mirrored
    BY <1>3, <1>5 DEF Receipt
  <2>3. Save(r)
    BY <1>3, <1>8
  <2> HIDE DEF r
  <2>4. QED
    BY <1>7, <1>8, <2>1, <2>2, <2>3
<1>9. CASE placed' = placed /\ placed[k] = 0 /\ Save([Here EXCEPT !.pending = FALSE]) /\ UNCHANGED <<turn, chat>>
  <2> DEFINE r == [receipt[k] EXCEPT !.pending = FALSE]
  <2>1. r \in Receipt
    BY <1>3 DEF Receipt
  <2>2. /\ r.output = NoOutput /\ r.order = receipt[k].order
        /\ r.photo = receipt[k].photo /\ r.delivered = receipt[k].delivered /\ r.mirrored = receipt[k].mirrored
    BY <1>3, <1>5 DEF Receipt
  <2>3. Save(r)
    BY <1>3, <1>9
  <2> HIDE DEF r
  <2>4. ~r.order
    BY <1>3, <2>2 DEF Unsettled
  <2>5. QED
    BY <1>7, <1>9, <2>1, <2>2, <2>3, <2>4
<1>10. CASE placed' \in {placed, asks} /\ receipt' = receipt /\ Raised
  <2>1. ~receipt[k].order
    BY <1>3 DEF Unsettled
  <2>2. Kept(k)'
    BY <1>3, <1>4, <1>5, <1>6, <1>10, <2>1, Ordered
  <2>3. placed' \in [Keys -> Nat] /\ \A x \in Keys \ {k} : placed'[x] = placed[x]
    BY <1>5, <1>6, <1>10
  <2>4. QED
    BY <1>2, <1>4, <1>10, <2>2, <2>3, GivesUp DEF ShoppingInv, ShoppingFits
<1>11. QED
  BY <1>2, <1>8, <1>9, <1>10 DEF Request, asks

LEMMA NoReplyStep ==
  ASSUME ShoppingInv, NoReply
  PROVE  ShoppingInv'
<1>1. At("reason") /\ Raised /\ UNCHANGED <<feed, placed, outputs, active, cursor, receipt, told, uploads>>
  BY DEF NoReply, Thinks, apps
<1>2. PICK k \in Keys : k = Key
  BY <1>1, Reasons
<1>3. Kept(k)'
  BY <1>1, Untouched
<1>4. QED
  BY <1>1, <1>2, <1>3, GivesUp DEF ShoppingInv, ShoppingFits

(* A message whose answer is saved goes on to what remains to be done. *)
LEMMA Advances ==
  ASSUME ShoppingInv, NEW k \in Keys, k = Key, NEW r \in Receipt, Save(r), r.output # NoOutput, Go(Stage(k, r)),
         UNCHANGED <<feed, placed, cursor, active, outputs, chat>>,
         uploads' \in [Keys -> Nat], \A o \in Keys \ {k} : uploads'[o] = uploads[o],
         told \subseteq told', told' \subseteq Keys, Kept(k)'
  PROVE  ShoppingInv'
<1>1. Stage(k, r) \in Stages
  BY DEF Stage, Stages
<1>2. /\ turn' \in Turn /\ Taken' = Taken /\ turn'.pc = Stage(k, r) /\ turn'.key = k /\ turn'.todo = turn.todo
  BY <1>1, Goes DEF ShoppingInv, ShoppingFits
<1>3. /\ receipt' \in [Keys -> Receipt] /\ receipt'[k] = r
      /\ \A x \in Keys \ {k} : receipt'[x] = receipt[x]
  BY Saves DEF ShoppingInv
<1>4. Holder'
  BY <1>2, <1>3, StageHolds
<1>5. turn'.key \in Web => \A j \in turn'.todo : turn'.key < j
  BY <1>2 DEF ShoppingInv, Queued
<1>6. placed' \in [Keys -> Nat] /\ chat' \in [Chats -> {"absent", "waiting", "handling", "answered"}]
  BY DEF ShoppingInv, ShoppingFits
<1>7. QED
  BY <1>2, <1>3, <1>4, <1>5, <1>6, InHand

LEMMA ReplyStep ==
  ASSUME ShoppingInv, Reply
  PROVE  ShoppingInv'
<1>1. At("reason") /\ ~Unsettled(Key)
  BY DEF Reply, Thinks
<1>2. PICK k \in Keys : k = Key
  BY <1>1, Reasons
<1>3. /\ receipt[k] \in Receipt /\ Here = receipt[k] /\ receipt[k].output = NoOutput
      /\ Kept(k) /\ ~Unsettled(k)
  BY <1>1, <1>2, Reasons DEF ShoppingInv
<1>4. UNCHANGED <<feed, placed, outputs, active, cursor, chat, told, uploads>>
  BY DEF Reply, apps, outer
<1>5. receipt[k].order \in BOOLEAN /\ receipt[k].attempts \in Nat
  BY <1>3 DEF Receipt
<1>6. PICK o \in Output : /\ o = [order |-> receipt[k].order, text |-> receipt[k].attempts]
                          /\ o # NoOutput /\ o.order = receipt[k].order
  <2>1. /\ [order |-> receipt[k].order, text |-> receipt[k].attempts] \in Output
        /\ [order |-> receipt[k].order, text |-> receipt[k].attempts] # NoOutput
    BY <1>5, Records
  <2>2. QED
    BY <2>1
<1> DEFINE r == [receipt[k] EXCEPT !.output = o]
<1>7. Save(r) /\ Go(Stage(k, r))
  BY <1>2, <1>3, <1>6 DEF Reply
<1>8. r \in Receipt
  BY <1>3 DEF Receipt
<1>9. /\ r.output = o /\ r.order = receipt[k].order
      /\ r.pending = receipt[k].pending /\ r.photo = receipt[k].photo
      /\ r.delivered = receipt[k].delivered /\ r.mirrored = receipt[k].mirrored
  BY <1>3 DEF Receipt
<1> HIDE DEF r
<1>10. receipt'[k] = r
  BY <1>2, <1>7, <1>8, Saves DEF ShoppingInv
<1>11. Kept(k)'
  <2>1. outputs[k] # NoOutput => k \notin Web
    BY <1>3 DEF Kept, Told
  <2>2. QED
    BY <1>3, <1>4, <1>6, <1>9, <1>10, <2>1 DEF Kept, Sold, Photographed, Told, Unsettled
<1>12. QED
  BY <1>2, <1>4, <1>6, <1>7, <1>8, <1>9, <1>11, Advances DEF ShoppingInv, ShoppingFits

-----------------------------------------------------------------------------
(* What follows an answer *)

LEMMA Follows ==
  ASSUME ShoppingInv, turn.pc \in Stages \union {"upload"}
  PROVE  /\ Key \in Keys /\ receipt[Key] \in Receipt /\ Here = receipt[Key] /\ turn \in Turn
         /\ receipt[Key].output # NoOutput /\ (Key \in Web => \A j \in turn.todo : Key < j)
BY DEF ShoppingInv, ShoppingFits, Holder, Queued, At, Here, Stages

(* Nothing before the message that is answered has to be.                  *)
LEMMA Answers ==
  ASSUME ShoppingInv, NEW k \in Web, k = Key, UNCHANGED <<feed, cursor, told>>,
         \A o \in Web \ {k} : outputs'[o] = outputs[o]
  PROVE  Passed'
<1>1. Passed /\ Queued
  BY DEF ShoppingInv
<1>2. feed \in Seq(Apps) /\ cursor \in [Apps -> Nat] /\ DOMAIN feed = 1..Len(feed) /\ Len(feed) \in Nat
  BY DEF ShoppingInv, ShoppingFits
<1>3. k \in Taken /\ k \in DOMAIN feed /\ cursor[feed[k]] < k
  BY <1>1 DEF Queued, Taken
<1>4. \A i \in Web : outputs'[i] # NoOutput => i \in DOMAIN feed
  BY <1>1, <1>3 DEF Passed
<1>5. ASSUME NEW i \in DOMAIN feed, i <= cursor[feed[i]]
      PROVE  i \in told /\ outputs'[i] # NoOutput
  <2>1. i # k
    BY <1>2, <1>3, <1>5
  <2>2. i \in Web
    BY <1>2, Ranges DEF ShoppingInv, ShoppingFits, Web
  <2>3. QED
    BY <1>1, <1>5, <2>1, <2>2 DEF Passed
<1>6. ASSUME NEW i \in DOMAIN feed, NEW j \in DOMAIN feed, j < i, feed[j] = feed[i], outputs'[i] # NoOutput
      PROVE  j <= cursor[feed[i]]
  <2>1. CASE i = k
    <3>1. j \notin Taken
      <4>1. j # Key /\ \A x \in turn.todo : Key < x
        BY <1>1, <1>2, <1>6, <2>1 DEF Queued
      <4>2. QED
        BY <1>2, <1>6, <2>1, <4>1, Ranges DEF Taken
    <3>2. QED
      BY <1>1, <1>3, <1>6, <2>1, <3>1 DEF Queued
  <2>2. CASE i # k
    <3>1. i \in Web
      BY <1>2, Ranges DEF ShoppingInv, ShoppingFits, Web
    <3>2. QED
      BY <1>1, <1>6, <2>2, <3>1 DEF Passed
  <2>3. QED
    BY <2>1, <2>2
<1>7. QED
  BY <1>1, <1>4, <1>5, <1>6 DEF Passed

LEMMA PostStep ==
  ASSUME ShoppingInv, Post
  PROVE  ShoppingInv'
<1>1. At("post") /\ UNCHANGED <<feed, placed, active, cursor, told, uploads>>
  BY DEF Post
<1>2. PICK k \in Web : k = Key
  BY <1>1 DEF ShoppingInv, Holder
<1>3. /\ k \in Keys /\ receipt[k] \in Receipt /\ Here = receipt[k] /\ turn \in Turn
      /\ receipt[k].output # NoOutput /\ (Key \in Web => \A j \in turn.todo : Key < j) /\ Kept(k)
  BY <1>1, <1>2, Follows, Ranges DEF At, Stages, ShoppingInv
<1>4. outputs \in [Web -> Output] /\ receipt[k].output \in Output /\ chat \in [Chats -> {"absent", "waiting", "handling", "answered"}]
  BY <1>3 DEF ShoppingInv, ShoppingFits, Receipt
<1> DEFINE with == [outputs EXCEPT ![k] = receipt[k].output]
<1>5. with \in [Web -> Output] /\ with[k] = receipt[k].output /\ \A o \in Web \ {k} : with[o] = outputs[o]
  BY <1>2, <1>4
<1>6. outputs[k] \in {NoOutput, receipt[k].output}
  BY <1>2, <1>3 DEF Kept, Told
<1> HIDE DEF with
<1>7. ASSUME outputs' \in {outputs, with}, turn' \in Turn, Holder', Kept(k)',
             receipt' \in [Keys -> Receipt], \A o \in Keys \ {k} : receipt'[o] = receipt[o],
             chat' \in [Chats -> {"absent", "waiting", "handling", "answered"}],
             Taken' \in {Taken, {}, {i \in turn.todo : feed[i] # feed[Key]}},
             turn'.key \in Web => \A j \in turn'.todo : turn'.key < j
      PROVE  ShoppingInv'
  <2>1. outputs' \in [Web -> Output] /\ \A o \in Web \ {k} : outputs'[o] = outputs[o]
    BY <1>4, <1>5, <1>7
  <2>2. ShoppingFits'
    BY <1>1, <1>7, <2>1 DEF ShoppingInv, ShoppingFits
  <2>3. Passed' /\ Queued'
    BY <1>1, <1>2, <1>7, <2>1, Answers, QueueOn
  <2>4. ASSUME NEW o \in Keys PROVE Kept(o)'
    <3>1. CASE o = k
      BY <1>7, <3>1
    <3>2. CASE o # k
      BY <1>1, <1>7, <2>1, <3>2, Others
    <3>3. QED
      BY <3>1, <3>2
  <2>5. QED
    BY <1>7, <2>2, <2>3, <2>4 DEF ShoppingInv
<1>8. CASE outputs' = with /\ Save([Here EXCEPT !.delivered = TRUE])
             /\ Go(Stage(k, [Here EXCEPT !.delivered = TRUE])) /\ chat' = chat
  <2> DEFINE r == [receipt[k] EXCEPT !.delivered = TRUE]
  <2>1. r \in Receipt
    BY <1>3 DEF Receipt
  <2>2. /\ r.output = receipt[k].output /\ r.pending = receipt[k].pending /\ r.order = receipt[k].order
        /\ r.photo = receipt[k].photo /\ r.mirrored = receipt[k].mirrored
    BY <1>3 DEF Receipt
  <2>3. Save(r) /\ Go(Stage(k, r))
    BY <1>3, <1>8
  <2> HIDE DEF r
  <2>4. /\ receipt' \in [Keys -> Receipt] /\ receipt'[k] = r
        /\ \A x \in Keys \ {k} : receipt'[x] = receipt[x]
    BY <1>2, <1>3, <2>1, <2>3, Saves DEF ShoppingInv
  <2>5. Stage(k, r) \in Stages
    BY DEF Stage, Stages
  <2>6. /\ turn' \in Turn /\ Taken' = Taken /\ turn'.pc = Stage(k, r) /\ turn'.key = k
        /\ turn'.todo = turn.todo
    BY <1>2, <1>3, <2>3, <2>5, Goes
  <2>7. Holder'
    BY <1>3, <2>1, <2>2, <2>4, <2>6, StageHolds
  <2>8. Kept(k)'
    BY <1>1, <1>3, <1>5, <1>8, <2>2, <2>4 DEF Kept, Sold, Photographed, Told, Unsettled
  <2>9. QED
    BY <1>2, <1>3, <1>4, <1>7, <1>8, <2>4, <2>6, <2>7, <2>8
<1>9. CASE outputs' \in {outputs, with} /\ Raised /\ receipt' = receipt
  <2>1. /\ turn' \in Turn
        /\ \/ turn'.pc = "free" /\ turn'.key = NoKey
           \/ turn'.pc = "look" /\ turn'.key \in Web
        /\ turn'.key \in Web => \A j \in turn'.todo : turn'.key < j
        /\ Taken' \in {{}, {i \in turn.todo : feed[i] # feed[Key]}}
        /\ chat' \in [Chats -> {"absent", "waiting", "handling", "answered"}]
    BY <1>2, <1>3, <1>9, Fails DEF ShoppingInv
  <2>2. Holder'
    BY <2>1, HolderRests
  <2>3. Kept(k)'
    BY <1>1, <1>3, <1>5, <1>9 DEF Kept, Sold, Photographed, Told, Unsettled
  <2>4. receipt \in [Keys -> Receipt]
    BY DEF ShoppingInv, ShoppingFits
  <2>5. QED
    BY <1>7, <1>9, <2>1, <2>2, <2>3, <2>4
<1>10. QED
  BY <1>2, <1>3, <1>6, <1>8, <1>9 DEF Post, with

LEMMA ClaimPhotoStep ==
  ASSUME ShoppingInv, ClaimPhoto
  PROVE  ShoppingInv'
<1>1. At("photo") /\ UNCHANGED <<feed, placed, outputs, active, cursor, chat, told, uploads>>
  BY DEF ClaimPhoto, apps, outer
<1>2. PICK k \in Keys : k = Key
  BY <1>1, Follows DEF At, Stages
<1>3. /\ receipt[k] \in Receipt /\ Here = receipt[k] /\ turn \in Turn
      /\ receipt[k].output # NoOutput /\ (Key \in Web => \A j \in turn.todo : Key < j) /\ Kept(k)
  BY <1>1, <1>2, Follows DEF At, Stages, ShoppingInv
<1>4. ~receipt[k].photo /\ (k \in Web => receipt[k].delivered)
  BY <1>1, <1>2, <1>3 DEF ShoppingInv, Holder, At
<1> DEFINE r == [receipt[k] EXCEPT !.photo = TRUE]
<1>5. r \in Receipt
  BY <1>3 DEF Receipt
<1>6. /\ r.output = receipt[k].output /\ r.pending = receipt[k].pending /\ r.order = receipt[k].order
      /\ r.photo /\ r.delivered = receipt[k].delivered /\ r.mirrored = receipt[k].mirrored
  BY <1>3 DEF Receipt
<1>7. Save(r) /\ Go("upload")
  BY <1>3 DEF ClaimPhoto
<1> HIDE DEF r
<1>8. /\ receipt' \in [Keys -> Receipt] /\ receipt'[k] = r
      /\ \A x \in Keys \ {k} : receipt'[x] = receipt[x]
  BY <1>2, <1>5, <1>7, Saves DEF ShoppingInv
<1>9. /\ turn' \in Turn /\ Taken' = Taken /\ turn'.pc = "upload" /\ turn'.key = k /\ turn'.todo = turn.todo
  BY <1>2, <1>3, <1>7, Goes
<1>10. uploads[k] = 0
  BY <1>3, <1>4 DEF Kept, Photographed, ShoppingInv, ShoppingFits
<1>11. Holder'
  BY <1>1, <1>3, <1>4, <1>6, <1>8, <1>9, <1>10 DEF Holder, At, Key, Here, Stages
<1>12. Kept(k)'
  BY <1>1, <1>3, <1>6, <1>8, <1>10 DEF Kept, Sold, Photographed, Told, Unsettled
<1>13. QED
  BY <1>1, <1>2, <1>3, <1>8, <1>9, <1>11, <1>12, InHand DEF ShoppingInv, ShoppingFits

LEMMA UploadStep ==
  ASSUME ShoppingInv, Upload
  PROVE  ShoppingInv'
<1>1. At("upload") /\ UNCHANGED <<feed, placed, outputs, active, cursor, chat, told>>
  BY DEF Upload, apps
<1>2. PICK k \in Keys : k = Key
  BY <1>1, Follows DEF At
<1>3. /\ receipt[k] \in Receipt /\ Here = receipt[k] /\ receipt[k].output # NoOutput /\ Kept(k)
  BY <1>1, <1>2, Follows DEF At, ShoppingInv
<1>4. receipt[k].photo /\ uploads[k] = 0
  BY <1>1, <1>2, <1>3 DEF ShoppingInv, Holder, At
<1> DEFINE r == [receipt[k] EXCEPT !.photo = TRUE]
<1>5. r \in Receipt
  BY <1>3 DEF Receipt
<1>6. /\ r.output = receipt[k].output /\ r.pending = receipt[k].pending /\ r.order = receipt[k].order
      /\ r.photo /\ r.delivered = receipt[k].delivered /\ r.mirrored = receipt[k].mirrored
  BY <1>3 DEF Receipt
<1>7. Save(r) /\ Go(Stage(k, r))
  BY <1>2, <1>3 DEF Upload
<1> HIDE DEF r
<1>8. receipt'[k] = r
  BY <1>2, <1>5, <1>7, Saves DEF ShoppingInv
<1>9. uploads' \in [Keys -> Nat] /\ uploads'[k] = 1 /\ \A o \in Keys \ {k} : uploads'[o] = uploads[o]
  BY <1>2, <1>4 DEF Upload, ShoppingInv, ShoppingFits
<1>10. Kept(k)'
  BY <1>1, <1>3, <1>6, <1>8, <1>9 DEF Kept, Sold, Photographed, Told, Unsettled
<1>11. QED
  BY <1>1, <1>2, <1>3, <1>5, <1>6, <1>7, <1>9, <1>10, Advances DEF ShoppingInv, ShoppingFits

LEMMA MirrorStep ==
  ASSUME ShoppingInv, Mirror
  PROVE  ShoppingInv'
<1>1. At("mirror") /\ UNCHANGED <<feed, placed, outputs, active, cursor, uploads>>
  BY DEF Mirror, apps
<1>2. PICK k \in Keys : k = Key
  BY <1>1, Follows DEF At, Stages
<1>3. /\ receipt[k] \in Receipt /\ Here = receipt[k] /\ receipt[k].output # NoOutput /\ Kept(k)
  BY <1>1, <1>2, Follows DEF At, Stages, ShoppingInv
<1>4. told \subseteq Keys /\ uploads \in [Keys -> Nat] /\ placed \in [Keys -> Nat]
  BY DEF ShoppingInv, ShoppingFits
<1>5. CASE told' = told \union {Key} /\ chat' = chat
             /\ Save([Here EXCEPT !.mirrored = TRUE]) /\ Go(Stage(Key, [Here EXCEPT !.mirrored = TRUE]))
  <2> DEFINE r == [receipt[k] EXCEPT !.mirrored = TRUE]
  <2>1. r \in Receipt
    BY <1>3 DEF Receipt
  <2>2. /\ r.output = receipt[k].output /\ r.pending = receipt[k].pending /\ r.order = receipt[k].order
        /\ r.photo = receipt[k].photo /\ r.delivered = receipt[k].delivered
    BY <1>3 DEF Receipt
  <2>3. Save(r) /\ Go(Stage(k, r))
    BY <1>2, <1>3, <1>5
  <2> HIDE DEF r
  <2>4. receipt'[k] = r
    BY <1>2, <2>1, <2>3, Saves DEF ShoppingInv
  <2>5. told \subseteq told' /\ told' \subseteq Keys /\ k \in told'
    BY <1>2, <1>4, <1>5
  <2>6. Kept(k)'
    BY <1>1, <1>3, <2>2, <2>4, <2>5 DEF Kept, Sold, Photographed, Told, Unsettled
  <2>7. QED
    BY <1>1, <1>2, <1>3, <1>4, <1>5, <2>1, <2>2, <2>3, <2>5, <2>6, Advances
<1>6. CASE told' \in {told, told \union {Key}} /\ Raised /\ receipt' = receipt
  <2>1. told \subseteq told' /\ told' \subseteq Keys
    BY <1>2, <1>4, <1>6
  <2>2. Kept(k)'
    BY <1>1, <1>6, <2>1, Others
  <2>3. QED
    BY <1>1, <1>2, <1>4, <1>6, <2>1, <2>2, GivesUp
<1>7. QED
  BY <1>5, <1>6 DEF Mirror

(* The cursor passes a message that is answered, the first of those taken. *)
LEMMA Passes ==
  ASSUME ShoppingInv, NEW k \in Web, k = Key, receipt[k].delivered, receipt[k].mirrored,
         cursor' = [cursor EXCEPT ![feed[k]] = k], UNCHANGED <<feed, outputs, told>>,
         Taken' = turn.todo, turn'.key \in Web => \A j \in turn'.todo : turn'.key < j
  PROVE  cursor' \in [Apps -> Nat] /\ Queued' /\ Passed'
<1>1. Queued /\ Passed /\ Kept(k)
  BY Ranges DEF ShoppingInv
<1>2. /\ feed \in Seq(Apps) /\ cursor \in [Apps -> Nat] /\ DOMAIN feed = 1..Len(feed) /\ Len(feed) \in Nat
      /\ turn.todo \subseteq Web
  BY DEF ShoppingInv, ShoppingFits, Turn
<1>3. /\ k \in Taken /\ k \in DOMAIN feed /\ cursor[feed[k]] < k /\ feed[k] \in Apps /\ k \in Nat /\ k <= Len(feed)
      /\ \A i \in turn.todo : i \in Taken /\ k < i
      /\ \A i \in Taken : i = k \/ i \in turn.todo
  <2>1. k \in Taken /\ \A i \in turn.todo : i \in Taken /\ k < i
    BY <1>1 DEF Queued, Taken
  <2>2. k \in DOMAIN feed /\ cursor[feed[k]] < k
    BY <1>1, <2>1 DEF Queued
  <2>3. \A i \in Taken : i = k \/ i \in turn.todo
    BY DEF Taken
  <2>4. QED
    BY <1>2, <2>1, <2>2, <2>3
<1>4. /\ cursor' \in [Apps -> Nat] /\ cursor'[feed[k]] = k
      /\ \A a \in Apps : a # feed[k] => cursor'[a] = cursor[a]
      /\ \A a \in Apps : cursor[a] <= cursor'[a] /\ cursor[a] \in Nat
  BY <1>2, <1>3
<1>5. \A i \in DOMAIN feed : feed[i] \in Apps /\ i \in Nat
  BY <1>2
<1>6. Queued'
  <2>1. turn.todo \subseteq DOMAIN feed
    BY <1>1, <1>3 DEF Queued
  <2>2. ASSUME NEW i \in turn.todo PROVE cursor'[feed[i]] < i
    <3>1. cursor[feed[i]] < i /\ k < i /\ i \in DOMAIN feed
      BY <1>1, <1>3, <2>1 DEF Queued
    <3>2. QED
      BY <1>4, <1>5, <3>1
  <2>3. ASSUME NEW i \in turn.todo, NEW j \in DOMAIN feed, j < i, feed[j] = feed[i]
        PROVE  j <= cursor'[feed[i]] \/ j \in turn.todo
    <3>1. j <= cursor[feed[i]] \/ j \in Taken
      BY <1>1, <1>3, <2>3 DEF Queued
    <3>2. feed[i] \in Apps /\ j \in Nat
      BY <1>5, <2>1
    <3>3. QED
      BY <1>3, <1>4, <2>3, <3>1, <3>2
  <2>4. QED
    BY <2>1, <2>2, <2>3 DEF Queued, Key
<1>7. Passed'
  <2>1. \A a \in Apps : cursor'[a] <= Len(feed)
    BY <1>1, <1>3, <1>4 DEF Passed
  <2>2. k \in told /\ outputs[k] # NoOutput
    BY <1>1 DEF Kept, Told
  <2>3. ASSUME NEW i \in DOMAIN feed, i <= cursor'[feed[i]] PROVE i \in told /\ outputs[i] # NoOutput
    <3>1. CASE feed[i] # feed[k]
      BY <1>1, <1>4, <1>5, <2>3, <3>1 DEF Passed
    <3>2. CASE feed[i] = feed[k] /\ i # k
      <4>1. i < k
        BY <1>3, <1>4, <1>5, <2>3, <3>2
      <4>2. i \notin Taken
        BY <1>3, <1>5, <4>1
      <4>3. i <= cursor[feed[k]]
        BY <1>1, <1>3, <3>2, <4>1, <4>2 DEF Queued
      <4>4. QED
        BY <1>1, <3>2, <4>3 DEF Passed
    <3>3. QED
      BY <2>2, <3>1, <3>2
  <2>4. ASSUME NEW i \in DOMAIN feed, NEW j \in DOMAIN feed, j < i, feed[j] = feed[i], outputs[i] # NoOutput
        PROVE  j <= cursor'[feed[i]]
    <3>1. j <= cursor[feed[i]]
      BY <1>1, <2>4 DEF Passed
    <3>2. QED
      BY <1>4, <1>5, <3>1
  <2>5. QED
    BY <1>1, <2>1, <2>3, <2>4 DEF Passed
<1>8. QED
  BY <1>4, <1>6, <1>7

LEMMA EndStep ==
  ASSUME ShoppingInv, End
  PROVE  ShoppingInv'
<1>1. At("end") /\ UNCHANGED <<feed, placed, outputs, active, receipt, told, uploads>>
  BY DEF End, apps
<1>2. PICK k \in Keys : k = Key
  BY <1>1, Follows DEF At, Stages
<1>3. \A o \in Keys : Kept(o)'
  BY <1>1, Untouched
<1>4. CASE k \in Web
  <2>1. cursor' = [cursor EXCEPT ![feed[k]] = k] /\ Continue(turn.todo) /\ chat' = chat
    BY <1>2, <1>4 DEF End
  <2>2. turn.todo \subseteq Web
    BY DEF ShoppingInv, ShoppingFits, Turn
  <2>3. /\ turn' \in Turn /\ Taken' = turn.todo
        /\ \/ turn'.pc = "free" /\ turn'.key = NoKey
           \/ turn'.pc = "look" /\ turn'.key \in Web
        /\ turn'.key \in Web => \A j \in turn'.todo : turn'.key < j
    BY <2>1, <2>2, GoesOn
  <2>4. receipt[k].delivered /\ receipt[k].mirrored
    BY <1>1, <1>2, <1>4 DEF ShoppingInv, Holder, At, Here
  <2>5. cursor' \in [Apps -> Nat] /\ Queued' /\ Passed'
    BY <1>1, <1>2, <1>4, <2>1, <2>3, <2>4, Passes
  <2>6. Holder'
    BY <2>3, HolderRests
  <2>7. ShoppingFits'
    BY <1>1, <2>1, <2>3, <2>5 DEF ShoppingInv, ShoppingFits
  <2>8. QED
    BY <1>3, <2>5, <2>6, <2>7 DEF ShoppingInv
<1>5. CASE k \notin Web
  <2>1. Raised /\ cursor' = cursor
    BY <1>2, <1>5 DEF End, Raised
  <2>2. QED
    BY <1>1, <1>2, <1>3, <2>1, GivesUp DEF ShoppingInv, ShoppingFits
<1>6. QED
  BY <1>4, <1>5

LEMMA CrashStep ==
  ASSUME ShoppingInv, Crash
  PROVE  ShoppingInv'
<1>1. UNCHANGED <<feed, placed, outputs, active, cursor, receipt, told>> /\ turn' = Free
  BY DEF Crash, apps
<1>2. turn' \in Turn /\ Taken' = {} /\ turn'.pc = "free" /\ turn'.key = NoKey /\ NoKey \notin Web
  BY <1>1, Frees, Ranges
<1>3. Holder' /\ Queued' /\ Passed'
  BY <1>1, <1>2, HolderRests, QueueOn, PassedOn
<1>4. chat' \in [Chats -> {"absent", "waiting", "handling", "answered"}]
  BY DEF Crash, ShoppingInv, ShoppingFits
<1>5. CASE uploads' = uploads
  <2>1. \A k \in Keys : Kept(k)'
    BY <1>1, <1>5, Untouched
  <2>2. ShoppingFits'
    BY <1>1, <1>2, <1>4, <1>5 DEF ShoppingInv, ShoppingFits
  <2>3. QED
    BY <1>3, <2>1, <2>2 DEF ShoppingInv
<1>6. CASE At("upload") /\ uploads' = [uploads EXCEPT ![Key] = @ + 1]
  <2>1. PICK k \in Keys : k = Key
    BY <1>6, Follows DEF At
  <2>2. receipt[k].photo /\ uploads[k] = 0 /\ Kept(k)
    BY <1>6, <2>1 DEF ShoppingInv, Holder, At, Here
  <2>3. uploads' \in [Keys -> Nat] /\ uploads'[k] = 1 /\ \A o \in Keys \ {k} : uploads'[o] = uploads[o]
    BY <1>6, <2>1, <2>2 DEF ShoppingInv, ShoppingFits
  <2>4. Kept(k)'
    BY <1>1, <2>2, <2>3 DEF Kept, Sold, Photographed, Told, Unsettled
  <2>5. \A o \in Keys : Kept(o)'
    BY <1>1, <2>3, <2>4, Others
  <2>6. ShoppingFits'
    BY <1>1, <1>2, <1>4, <2>3 DEF ShoppingInv, ShoppingFits
  <2>7. QED
    BY <1>3, <2>5, <2>6 DEF ShoppingInv
<1>7. QED
  BY <1>5, <1>6 DEF Crash

-----------------------------------------------------------------------------
(* The invariant and what follows from it *)

LEMMA Initially == Init => ShoppingInv
<1> SUFFICES ASSUME Init PROVE ShoppingInv
  OBVIOUS
<1>1. turn = Free /\ turn.pc = "free" /\ turn.key = NoKey /\ turn.todo = {} /\ turn \in Turn
  BY Records DEF Init, Free
<1>2. /\ feed = <<>> /\ Len(feed) = 0 /\ DOMAIN feed = {} /\ feed \in Seq(Apps)
      /\ outputs = [k \in Web |-> NoOutput] /\ cursor = [a \in Apps |-> 0] /\ told = {}
  BY DEF Init
<1>3. /\ placed = [k \in Keys |-> 0] /\ receipt = [k \in Keys |-> Fresh] /\ uploads = [k \in Keys |-> 0]
      /\ active = FALSE /\ chat = [c \in Chats |-> "absent"]
  BY DEF Init
<1>4. Fresh \in Receipt /\ NoOutput \in Output /\ MaxFeed \in Nat /\ NoKey \notin Web
  BY Records, Ranges
<1>5. ShoppingFits
  <2>1. placed \in [Keys -> Nat] /\ uploads \in [Keys -> Nat] /\ cursor \in [Apps -> Nat]
    BY <1>2, <1>3
  <2>2. receipt \in [Keys -> Receipt] /\ outputs \in [Web -> Output]
    BY <1>2, <1>3, <1>4
  <2>3. chat \in [Chats -> {"absent", "waiting", "handling", "answered"}] /\ active \in BOOLEAN
    BY <1>3
  <2>4. feed \in Seq(Apps) /\ Len(feed) <= MaxFeed
    BY <1>2, <1>4
  <2>5. QED
    BY <1>1, <1>2, <2>1, <2>2, <2>3, <2>4 DEF ShoppingFits
<1>6. Holder
  BY <1>1 DEF Holder, At, Key, Stages
<1>7. ASSUME NEW k \in Keys PROVE Kept(k)
  <2>1. /\ receipt[k].output = NoOutput /\ ~receipt[k].order /\ ~receipt[k].delivered /\ ~receipt[k].mirrored
        /\ placed[k] = 0 /\ uploads[k] = 0
    BY <1>3 DEF Fresh
  <2>2. QED
    BY <1>2, <2>1 DEF Kept, Sold, Photographed, Told
<1>8. Queued
  BY <1>1, <1>4 DEF Queued, Taken, Key
<1>9. Passed
  BY <1>2 DEF Passed
<1>10. QED
  BY <1>5, <1>6, <1>7, <1>8, <1>9 DEF ShoppingInv

LEMMA Inductive ==
  ASSUME ShoppingInv, [Next]_vars
  PROVE  ShoppingInv'
<1>1. CASE Next
  BY <1>1, WriteStep, SayStep, HandleChatStep, PollStep, LookStep, DecideStep, RequestStep, ReplyStep,
     NoReplyStep, PostStep, ClaimPhotoStep, UploadStep, MirrorStep, EndStep, CrashStep
  DEF Next, Step
<1>2. CASE UNCHANGED vars
  <2>1. UNCHANGED <<feed, placed, outputs, active, cursor, receipt, turn, chat, told, uploads>>
    BY <1>2 DEF vars
  <2>2. \A k \in Keys : Kept(k)'
    BY <2>1, Untouched
  <2>3. ShoppingFits' /\ Holder' /\ Queued' /\ Passed'
    BY <2>1 DEF ShoppingInv, ShoppingFits, Holder, Queued, Passed, At, Key, Here, Taken
  <2>4. QED
    BY <2>2, <2>3 DEF ShoppingInv
<1>3. QED
  BY <1>1, <1>2

LEMMA Always == Spec => []ShoppingInv
<1>1. QED
  BY Initially, Inductive, PTL DEF Spec

(* No message is bought for twice, and an answer that is given tells of an *)
(* order exactly when there is one, whatever is lost, refused or tried     *)
(* again (_place_order and the pending order of shopping/service.py).      *)
THEOREM OrdersToldCorrect == Spec => []OrdersTold
<1>1. ShoppingInv => OrdersTold
  <2> SUFFICES ASSUME ShoppingInv, NEW k \in Keys
               PROVE  /\ placed[k] <= 1
                      /\ receipt[k].output # NoOutput => (receipt[k].output.order <=> placed[k] = 1)
    BY DEF OrdersTold
  <2>1. Sold(k) /\ receipt[k] \in Receipt
    BY DEF ShoppingInv, ShoppingFits, Kept
  <2>2. QED
    BY <2>1 DEF Sold, Unsettled, Receipt
<1>2. QED
  BY <1>1, Always, PTL

(* The cursor of an application passes its messages in their order, each   *)
(* after its answer is at the website and in the chat.                     *)
THEOREM AnsweredCorrect == Spec => []AnsweredInOrder
<1>1. ShoppingInv => AnsweredInOrder
  <2> SUFFICES ASSUME ShoppingInv PROVE AnsweredInOrder
    OBVIOUS
  <2>1. \A i \in DOMAIN feed : i \in Web /\ i \in Keys
    BY Ranges DEF ShoppingInv, ShoppingFits, Web
  <2>2. \A i \in Web : outputs[i] # NoOutput => outputs[i] = receipt[i].output
    BY Ranges DEF ShoppingInv, Kept, Told
  <2>3. QED
    BY <2>1, <2>2 DEF ShoppingInv, Passed, AnsweredInOrder
<1>2. QED
  BY <1>1, Always, PTL

(* Photos are uploaded at most once about a message: the album is claimed  *)
(* in the state before it is sent.                                         *)
THEOREM UploadedCorrect == Spec => []UploadedOnce
<1>1. ShoppingInv => UploadedOnce
  BY DEF ShoppingInv, Kept, Photographed, UploadedOnce
<1>2. QED
  BY <1>1, Always, PTL
=============================================================================
