--------------------------- MODULE LineageProofs ----------------------------
(***************************************************************************)
(* Proofs about Lineage, for any number of changes, commands, daemons and  *)
(* faults.                                                                 *)
(***************************************************************************)
EXTENDS Lineage, TLAPS

Candidate == {x \in [status : {"absent", "pending", "linked", "adopted", "ignored"},
                     assessed : {"no", "yes", "failed"}, diff : BOOLEAN, task : Nat] :
                x.status = "absent" => x.assessed = "no"}
Inbox     == [Changes -> Candidate]
Request   == [kind : {"scan", "adapt", "ignore", "answered"}, change : Changes \union {0}, by : Nat]
Command   == [pc : {"idle", "scan", "scanning", "enqueue", "adapt", "adapting", "link", "ignore", "ignoring"},
              of : Nat, change : Changes \union {0}, landed : SUBSET Changes,
              base : Nat, cursor : Nat, candidates : Inbox, latest : Nat]
Task      == [change : Changes, key : Nat, status : {"queued", "landed", "cancelled"}]

LineageFits ==
  /\ head \in 0..MaxChanges /\ cursor \in Nat /\ base \in Nat /\ candidates \in Inbox
  /\ tasks \in Seq(Task) /\ requests \in Seq(Request)
  /\ epoch \in Daemons /\ command \in [Daemons -> Command]
  /\ astray \subseteq Changes

(* The inbox holds every change from its base up to its cursor, and so     *)
(* does what a scan has read of it.                                        *)
Covers(cs, from, upto) == upto <= head /\ \A c \in (from + 1)..upto : cs[c].status # "absent"
Seen == /\ Covers(candidates, base, cursor)
        /\ \A d \in Daemons : /\ Covers(command[d].candidates, command[d].base, command[d].cursor)
                              /\ command[d].latest <= head

(* The last command alone may be unanswered.  A daemon works on a command  *)
(* that was given, and the current one on one that is not answered.        *)
Open(r)    == requests[r] # Answered
Adapting   == {"adapt", "adapting", "link"}
Ignoring   == {"ignore", "ignoring"}
KindOf(pc) == IF pc \in {"scan", "scanning", "enqueue"} THEN "scan"
              ELSE IF pc \in Adapting THEN "adapt" ELSE "ignore"
LastOpen == \A r \in DOMAIN requests :
  Open(r) => /\ r = Len(requests) /\ requests[r].kind # "answered"
             /\ requests[r].kind # "scan" => requests[r].change \in Changes
Obeys(d) == command[d].pc # "idle" =>
  /\ d <= epoch /\ command[d].of \in DOMAIN requests
  /\ d = epoch => Open(command[d].of)
  /\ Open(command[d].of) => requests[command[d].of].kind = KindOf(command[d].pc)
  /\ command[d].pc \in Adapting \union Ignoring =>
       /\ command[d].change \in Changes
       /\ Open(command[d].of) => requests[command[d].of].change = command[d].change
Asked == LastOpen /\ \A d \in Daemons : Obeys(d)

(* A command makes one task, for its change.                               *)
Stems(t) == /\ tasks[t].key \in DOMAIN requests
            /\ Open(tasks[t].key) => /\ requests[tasks[t].key].kind = "adapt"
                                     /\ requests[tasks[t].key].change = tasks[t].change
Makes(d) == /\ command[d].pc \in Adapting =>
                 \A t \in DOMAIN tasks : tasks[t].key = command[d].of => tasks[t].change = command[d].change
            /\ command[d].pc = "link" => \E t \in DOMAIN tasks : tasks[t].key = command[d].of
OneTaskEach == /\ \A t, u \in DOMAIN tasks : tasks[t].key = tasks[u].key => t = u
               /\ \A t \in DOMAIN tasks : Stems(t)
               /\ \A d \in Daemons : Makes(d)

(* The change of a task is linked or adopted, or the command that made the *)
(* task is still to be answered; and when a command is about to make a     *)
(* task, the change has no task of another command.                        *)
Holds(t) == LET c == tasks[t].change IN c \in astray \/ Linked(c) \/ Open(tasks[t].key)
Clear(d) == command[d].pc = "adapting" /\ d = epoch /\ command[d].change \notin astray =>
  \A t \in DOMAIN tasks : tasks[t].change = command[d].change => tasks[t].key = command[d].of
OneTaskPerChange ==
  /\ \A t, u \in DOMAIN tasks : tasks[t].change = tasks[u].change /\ tasks[t].change \notin astray => t = u
  /\ \A t \in DOMAIN tasks : Holds(t)
  /\ \A d \in Daemons : Clear(d)

LineageInv == LineageFits /\ Seen /\ Asked /\ OneTaskEach /\ OneTaskPerChange

-----------------------------------------------------------------------------
(* Steps *)

(* What a scan writes back keeps what it had read.                         *)
Keeps(merged, snapshot, seen) ==
  /\ merged \in Inbox
  /\ \A c \in Changes : snapshot[c].status # "absent" \/ c \in seen => merged[c].status # "absent"

LEMMA MergedKeeps ==
  ASSUME NEW snapshot \in Inbox, NEW seen, NEW diffs, NEW ended \in BOOLEAN
  PROVE  Keeps(Merged(snapshot, seen, diffs, ended), snapshot, seen)
<1> DEFINE merged == Merged(snapshot, seen, diffs, ended)
<1>1. ASSUME NEW c \in Changes
      PROVE  /\ merged[c] \in Candidate
             /\ snapshot[c].status # "absent" \/ c \in seen => merged[c].status # "absent"
  <2> DEFINE old == snapshot[c]
  <2>1. old \in Candidate
    BY DEF Inbox
  <2>2. CASE c \in seen /\ old.status = "absent"
    <3>1. merged[c] = [New EXCEPT !.diff = c \in diffs]
      BY <2>2 DEF Merged
    <3>2. (c \in diffs) \in BOOLEAN
      <4>1. CASE c \in diffs
        <5>1. (c \in diffs) = TRUE
          BY <4>1
        <5>2. QED
          BY <5>1
      <4>2. CASE c \notin diffs
        <5>1. (c \in diffs) = FALSE
          BY <4>2
        <5>2. QED
          BY <5>1
      <4>3. QED
        BY <4>1, <4>2
    <3>3. PICK has \in BOOLEAN : has = (c \in diffs)
      BY <3>2
    <3> HIDE DEF merged
    <3>4. merged[c] = [status |-> "pending", assessed |-> "no", diff |-> has, task |-> 0]
      BY <3>1, <3>3 DEF New, Absent
    <3>5. QED
      BY <2>2, <3>4 DEF Candidate
  <2>3. CASE ~(c \in seen /\ old.status = "absent")
    <3>1. merged[c] \in {[old EXCEPT !.diff = TRUE, !.assessed = "no"], [old EXCEPT !.assessed = "no"], old}
      BY <2>3 DEF Merged
    <3>2. QED
      BY <2>1, <2>3, <3>1 DEF Candidate
  <2>4. QED
    BY <2>2, <2>3
<1>2. merged = [c \in Changes |-> merged[c]]
  BY DEF Merged
<1>3. merged \in Inbox
  BY <1>1, <1>2 DEF Inbox
<1> HIDE DEF merged
<1>4. Keeps(merged, snapshot, seen)
  BY <1>1, <1>3 DEF Keeps
<1>5. QED
  BY <1>4 DEF merged

(* The steps of the assessments, of which the commands notice at most that *)
(* a candidate was assessed.                                               *)
Assesses == \/ UNCHANGED candidates
            \/ \E c, a : /\ a \in {"yes", "failed"}
                         /\ candidates' = [candidates EXCEPT ![c].assessed = a]
                         /\ candidates[c].status # "absent"

LEMMA WorkerAside ==
  ASSUME NEW d \in Daemons, Work(d)
  PROVE  UNCHANGED <<head, cursor, base, tasks, requests, epoch, command, astray>> /\ Assesses
<1>1. CASE Claim(d)
  BY <1>1 DEF Claim, Wakes, Assesses
<1>2. CASE Guard(d)
  BY <1>2 DEF Guard, Wakes, Assesses
<1>3. CASE Assess(d)
  BY <1>3 DEF Assess, Wakes, Assesses
<1>4. CASE Finish(d)
  BY <1>4 DEF Finish, Wakes, Assesses
<1>5. QED
  BY <1>1, <1>2, <1>3, <1>4 DEF Work

(* What an assessment changes of a candidate is its assessment. *)
LEMMA AssessesKeeps ==
  ASSUME LineageFits, Assesses
  PROVE  /\ candidates' \in Inbox
         /\ \A c \in Changes : candidates'[c].status = candidates[c].status
<1>1. CASE UNCHANGED candidates
  BY <1>1 DEF LineageFits
<1>2. ASSUME NEW x, NEW a \in {"yes", "failed"},
             candidates' = [candidates EXCEPT ![x].assessed = a],
             candidates[x].status # "absent"
      PROVE  candidates' \in Inbox /\ \A c \in Changes : candidates'[c].status = candidates[c].status
  <2>1. ASSUME NEW c \in Changes
        PROVE  candidates'[c] \in Candidate /\ candidates'[c].status = candidates[c].status
    <3>1. candidates[c] \in Candidate
      BY DEF LineageFits, Inbox
    <3>2. candidates'[c] = IF c = x THEN [candidates[c] EXCEPT !.assessed = a] ELSE candidates[c]
      BY <1>2 DEF LineageFits, Inbox
    <3>3. QED
      BY <1>2, <3>1, <3>2 DEF Candidate
  <2>2. QED
    BY <1>2, <2>1 DEF LineageFits, Inbox
<1>3. QED
  BY <1>1, <1>2 DEF Assesses

-----------------------------------------------------------------------------
(* Types *)

LEMMA ReplacesOne ==
  ASSUME NEW S, NEW s \in Seq(S), NEW i, NEW e, i \in DOMAIN s => e \in S
  PROVE  /\ [s EXCEPT ![i] = e] \in Seq(S) /\ Len([s EXCEPT ![i] = e]) = Len(s)
         /\ DOMAIN [s EXCEPT ![i] = e] = DOMAIN s
<1> DEFINE r == [s EXCEPT ![i] = e]
<1>1. s \in [1..Len(s) -> S] /\ Len(s) \in Nat /\ DOMAIN s = 1..Len(s)
  OBVIOUS
<1>2. r \in [1..Len(s) -> S]
  BY <1>1
<1>3. r \in Seq(S) /\ Len(r) = Len(s) /\ DOMAIN r = 1..Len(s)
  <2> HIDE DEF r
  <2>1. QED
    BY <1>1, <1>2
<1>4. QED
  BY <1>1, <1>3

LEMMA IdleFits == Idle \in Command
BY DEF Idle, Command, Inbox, Absent, Candidate

LEMMA DoneFits ==
  ASSUME LineageFits, NEW d \in Daemons, Done(d)
  PROVE  command' \in [Daemons -> Command] /\ requests' \in Seq(Request)
<1>2. command' \in [Daemons -> Command]
  BY IdleFits DEF LineageFits, Done
<1>3. Answered \in Request
  BY LineageAssumption DEF Answered, Request
<1>4. [requests EXCEPT ![command[d].of] = Answered] \in Seq(Request)
  BY <1>3, ReplacesOne DEF LineageFits
<1>5. QED
  BY <1>2, <1>4 DEF LineageFits, Done

(* What a scan lists starts after a change of the parent, or at its first. *)
LEMMA StartFits ==
  ASSUME LineageFits, NEW scan \in Command
  PROVE  Start(scan) \in Nat
<1>1. scan.cursor \in Nat /\ head \in Nat /\ RefreshLimit \in Nat
  BY LineageAssumption DEF Command, LineageFits
<1>2. Max({0, head - RefreshLimit}) \in Nat
  <2> DEFINE S == {0, head - RefreshLimit}
  <2>1. \E m \in S : \A y \in S : y <= m
    BY <1>1
  <2>2. Max(S) \in S /\ \A y \in S : y <= Max(S)
    <3>1. Max(S) = CHOOSE m \in S : \A y \in S : m >= y
      BY DEF Max
    <3>2. \E m \in S : \A y \in S : m >= y
      BY <1>1
    <3> HIDE DEF S
    <3>3. Max(S) \in S /\ \A y \in S : Max(S) >= y
      BY <3>1, <3>2
    <3>4. QED
      BY <1>1, <3>3 DEF S
  <2>3. QED
    BY <1>1, <2>2
<1>3. QED
  BY <1>1, <1>2 DEF Start

(* The end of a command without a link, and whom it leads astray.          *)
LEMMA Ended ==
  ASSUME LineageInv, NEW d \in Daemons, command[d].pc # "idle", EndUnlinked(d)
  PROVE  Done(d) /\ astray \subseteq astray' /\ astray' \subseteq Changes
<1>1. ASSUME d = epoch, Mine(d) # {} PROVE command[d].change \in Changes
  <2>1. PICK t \in DOMAIN tasks : tasks[t].key = command[d].of
    BY <1>1 DEF Mine
  <2>2. Obeys(d) /\ Stems(t) /\ tasks[t] \in Task
    BY DEF LineageInv, Asked, OneTaskEach, LineageFits
  <2>3. Open(command[d].of) /\ requests[command[d].of].change = tasks[t].change
          /\ requests[command[d].of].kind = "adapt" /\ KindOf(command[d].pc) = "adapt"
    BY <1>1, <2>1, <2>2 DEF Obeys, Stems
  <2>4. command[d].pc \in Adapting
    BY <2>3 DEF KindOf
  <2>5. QED
    BY <2>2, <2>4 DEF Obeys
<1>2. Done(d) /\ astray' = astray \union {c \in {command[d].change} : d = epoch /\ Mine(d) # {} /\ ~Linked(c)}
  BY DEF EndUnlinked
<1>3. astray \subseteq Changes
  BY DEF LineageInv, LineageFits
<1>4. ASSUME NEW c \in {command[d].change}, d = epoch /\ Mine(d) # {} /\ ~Linked(c) PROVE c \in Changes
  BY <1>1, <1>4
<1>5. QED
  BY <1>2, <1>3, <1>4

LEMMA Fits ==
  ASSUME LineageInv, [Next]_vars
  PROVE  LineageFits'
<1> USE DEF LineageInv
<1>1. ASSUME UNCHANGED vars PROVE LineageFits'
  BY <1>1 DEF vars, inbox, queue, doing, LineageFits
<1>2. ASSUME Publish PROVE LineageFits'
  BY <1>2, LineageAssumption DEF Publish, inbox, queue, doing, LineageFits
<1>3. ASSUME Takeover PROVE LineageFits'
  BY <1>3, LineageAssumption DEF Takeover, inbox, queue, doing, LineageFits, Daemons
<1>4. ASSUME NEW kind \in {"scan", "adapt", "ignore"}, NEW c \in Changes \union {0}, Ask(kind, c)
      PROVE  LineageFits'
  <2>1. [kind |-> kind, change |-> c, by |-> 0] \in Request
    BY DEF Request
  <2>2. requests' \in Seq(Request)
    BY <1>4, <2>1 DEF Ask, LineageFits
  <2>3. QED
    BY <1>4, <2>2 DEF Ask, inbox, queue, doing, LineageFits
<1>5. ASSUME NEW t \in DOMAIN tasks, TaskLands(t) PROVE LineageFits'
  <2>1. tasks[t] \in Task
    BY DEF LineageFits
  <2>2. tasks' \in Seq(Task)
    <3>1. [tasks[t] EXCEPT !.status = "landed"] \in Task
      BY <2>1 DEF Task
    <3>2. tasks' = [tasks EXCEPT ![t] = [tasks[t] EXCEPT !.status = "landed"]]
      BY <1>5 DEF TaskLands
    <3>3. QED
      BY <3>1, <3>2, ReplacesOne DEF LineageFits
  <2>3. QED
    BY <1>5, <2>2 DEF TaskLands, inbox, queue, doing, LineageFits
<1>6. ASSUME NEW d \in Daemons, Stop(d) PROVE LineageFits'
  BY <1>6, IdleFits DEF Stop, inbox, queue, doing, LineageFits
<1>7. ASSUME NEW d \in Daemons, Work(d) PROVE LineageFits'
  BY <1>7, WorkerAside, AssessesKeeps DEF LineageFits
<1>8. ASSUME NEW d \in Daemons, Begin(d) PROVE LineageFits'
  <2> DEFINE landed == {c \in Changes : Landed(c)}
  <2>1. PICK r \in DOMAIN requests :
          /\ requests' = [requests EXCEPT ![r].by = d]
          /\ command' = [command EXCEPT ![d] = [Idle EXCEPT !.pc = requests[r].kind, !.of = r,
                                                   !.change = requests[r].change, !.landed = landed]]
          /\ requests[r] # Answered
    BY <1>8 DEF Begin
  <2>2. requests[r] \in Request /\ requests[r].kind # "answered" /\ r \in Nat
    BY <2>1 DEF LineageFits, Asked, LastOpen, Open
  <2>3. requests' \in Seq(Request)
    <3>1. [requests[r] EXCEPT !.by = d] \in Request
      BY <2>2 DEF Request, Daemons
    <3>2. requests' = [requests EXCEPT ![r] = [requests[r] EXCEPT !.by = d]]
      BY <2>1
    <3>3. QED
      BY <3>1, <3>2, ReplacesOne DEF LineageFits
  <2>4. landed \in SUBSET Changes
    OBVIOUS
  <2> HIDE DEF landed
  <2>5. command' \in [Daemons -> Command]
    <3>1. requests[r].kind \in {"scan", "adapt", "ignore"} /\ requests[r].change \in Changes \union {0}
      BY <2>2 DEF Request
    <3>2. [Idle EXCEPT !.pc = requests[r].kind, !.of = r, !.change = requests[r].change, !.landed = landed]
            \in Command
      BY <2>2, <2>4, <3>1, IdleFits DEF Command
    <3>3. QED
      BY <2>1, <3>2 DEF LineageFits
  <2>6. QED
    BY <1>8, <2>3, <2>5 DEF Begin, inbox, queue, LineageFits
<1>16. ASSUME NEW d \in Daemons, Reconcile(d) PROVE LineageFits'
  <2>1. PICK c \in command[d].landed :
          /\ command' = [command EXCEPT ![d].landed = @ \ {c}]
          /\ candidates' \in {candidates, [candidates EXCEPT ![c].status = "adopted"]}
          /\ candidates' = candidates \/ candidates[c].status # "absent"
    BY <1>16 DEF Reconcile
  <2>2. command[d] \in Command
    BY DEF LineageFits
  <2>3. command' \in [Daemons -> Command]
    <3>1. [command[d] EXCEPT !.landed = command[d].landed \ {c}] \in Command
      BY <2>2 DEF Command
    <3>2. QED
      BY <2>1, <3>1 DEF LineageFits
  <2>4. candidates' \in Inbox
    <3>1. ASSUME NEW x \in Changes PROVE candidates'[x] \in Candidate
      <4>1. candidates[x] \in Candidate /\ candidates'[x] \in {candidates[x], [candidates[x] EXCEPT !.status = "adopted"]}
        BY <2>1 DEF LineageFits, Inbox
      <4>2. QED
        BY <4>1 DEF Candidate
    <3>2. QED
      BY <2>1, <3>1 DEF LineageFits, Inbox
  <2>5. UNCHANGED <<head, cursor, base, tasks, requests, epoch, astray>>
    BY <1>16 DEF Reconcile
  <2>6. QED
    BY <2>3, <2>4, <2>5 DEF LineageFits
<1>9. ASSUME NEW d \in Daemons, ScanRead(d) PROVE LineageFits'
  <2>1. CASE Done(d)
    BY <1>9, <2>1, DoneFits DEF ScanRead, LineageFits, inbox, queue
  <2>2. CASE /\ UNCHANGED requests
             /\ command' = [command EXCEPT ![d] = [@ EXCEPT !.pc = "scanning", !.cursor = cursor, !.base = base,
                                                       !.candidates = candidates, !.latest = head]]
    <3>1. command[d] \in Command /\ candidates \in Inbox /\ cursor \in Nat /\ base \in Nat /\ head \in Nat
      BY LineageAssumption DEF LineageFits
    <3>2. [command[d] EXCEPT !.pc = "scanning", !.cursor = cursor, !.base = base, !.candidates = candidates,
                             !.latest = head] \in Command
      BY <3>1 DEF Command
    <3>3. QED
      BY <1>9, <2>2, <3>2 DEF ScanRead, LineageFits, inbox, queue
  <2>3. QED
    BY <1>9, <2>1, <2>2 DEF ScanRead
<1>10. ASSUME NEW d \in Daemons, ScanSave(d) PROVE LineageFits'
  <2> DEFINE scan == command[d]
  <2>1. PICK latest \in scan.latest..head, n \in Start(scan)..head, diffs \in SUBSET (1..head) :
          Scanned(d, n, diffs, IF n = Start(scan) THEN latest ELSE scan.cursor)
    BY <1>10 DEF ScanSave
  <2> DEFINE merged == Merged(scan.candidates, (n + 1)..head, diffs, n = Start(scan))
  <2>2. scan \in Command /\ Start(scan) \in Nat
    BY StartFits DEF LineageFits
  <2>3. /\ latest \in Nat /\ scan.cursor \in Nat /\ scan.base \in Nat /\ scan.of \in Nat
        /\ (n = Start(scan)) \in BOOLEAN /\ scan.candidates \in Inbox
    BY <2>2 DEF Command, LineageFits
  <2>4. candidates' = merged /\ cursor' = (IF n = Start(scan) THEN latest ELSE scan.cursor)
          /\ base' = (IF scan.cursor > 0 THEN scan.base ELSE Start(scan))
          /\ astray' = astray \union Overlaid(merged)
          /\ command' = [command EXCEPT ![d] = [Idle EXCEPT !.pc = "enqueue", !.of = scan.of]]
          /\ UNCHANGED <<head, tasks, requests, epoch>>
    BY <2>1 DEF Scanned, queue
  <2>5. merged \in Inbox
    BY <2>3, MergedKeeps DEF Keeps
  <2>6. Overlaid(merged) \subseteq Changes
    BY DEF Overlaid
  <2> HIDE DEF merged
  <2>7. [Idle EXCEPT !.pc = "enqueue", !.of = scan.of] \in Command
    BY <2>3, IdleFits DEF Command
  <2> HIDE DEF scan
  <2>8. command' \in [Daemons -> Command]
    BY <2>4, <2>7 DEF LineageFits
  <2>9. cursor' \in Nat /\ base' \in Nat
    BY <2>2, <2>3, <2>4
  <2>10. QED
    BY <2>4, <2>5, <2>6, <2>8, <2>9 DEF LineageFits
<1>11. ASSUME NEW d \in Daemons, EnqueueAssessment(d) PROVE LineageFits'
  BY <1>11, DoneFits DEF EnqueueAssessment, LineageFits, inbox
<1>17. ASSUME NEW d \in Daemons, EndUnlinked(d), command[d].pc # "idle", UNCHANGED <<inbox, head, epoch>>,
              tasks' \in Seq(Task)
       PROVE  LineageFits'
  BY <1>17, Ended, DoneFits DEF LineageFits, inbox
<1>18. ASSUME NEW d \in Daemons, NEW pc \in {"adapting", "ignoring", "link"},
              command' = [command EXCEPT ![d].pc = pc], UNCHANGED <<inbox, head, epoch, requests, astray>>,
              tasks' \in Seq(Task)
       PROVE  LineageFits'
  <2>1. [command[d] EXCEPT !.pc = pc] \in Command
    BY DEF LineageFits, Command
  <2>2. command' \in [Daemons -> Command]
    BY <1>18, <2>1 DEF LineageFits
  <2>3. QED
    BY <1>18, <2>2 DEF LineageFits, inbox
<1>12. ASSUME NEW d \in Daemons, Adapt(d) PROVE LineageFits'
  <2>1. tasks' \in Seq(Task) /\ UNCHANGED <<inbox, head, epoch>>
    BY <1>12 DEF Adapt, LineageFits
  <2>2. QED
    BY <1>12, <1>17, <1>18, <2>1 DEF Adapt, At
<1>13. ASSUME NEW d \in Daemons, EnqueueTask(d) PROVE LineageFits'
  <2> DEFINE new == [change |-> command[d].change, key |-> command[d].of, status |-> "queued"]
  <2>1. command[d] \in Command /\ command[d].change \in Changes
    BY <1>13 DEF EnqueueTask, At, LineageFits, Asked, Obeys, Adapting
  <2>2. new \in Task
    BY <2>1 DEF Task, Command
  <2>3. tasks' = tasks \/ tasks' = Append(tasks, new)
    BY <1>13 DEF EnqueueTask
  <2> HIDE DEF new
  <2>4. tasks' \in Seq(Task)
    <3>1. tasks \in Seq(Task)
      BY DEF LineageFits
    <3>2. QED
      BY <2>2, <2>3, <3>1
  <2>6. UNCHANGED <<inbox, head, epoch>>
    BY <1>13 DEF EnqueueTask
  <2>5. QED
    BY <1>13, <1>17, <1>18, <2>4, <2>6 DEF EnqueueTask, At
<1>14. ASSUME NEW d \in Daemons, Link(d) PROVE LineageFits'
  <2> DEFINE t == CHOOSE i \in DOMAIN tasks : tasks[i].key = command[d].of
             c == command[d].change
  <2>1. t \in DOMAIN tasks
    BY <1>14 DEF Link, At, OneTaskEach, Makes
  <2>2. tasks[t] \in Task /\ t \in Nat
    BY <2>1 DEF LineageFits
  <2> HIDE DEF t
  <2>3. CASE /\ candidates' = [candidates EXCEPT ![c].status = "linked", ![c].task = t]
             /\ Done(d) /\ UNCHANGED <<tasks, astray>>
    <3>1. ASSUME NEW x \in Changes
          PROVE  candidates'[x] \in {candidates[x], [candidates[x] EXCEPT !.status = "linked", !.task = t]}
      BY <2>3 DEF LineageFits, Inbox
    <3>2. ASSUME NEW x \in Changes PROVE candidates'[x] \in Candidate
      <4>1. candidates[x] \in Candidate
        BY DEF LineageFits, Inbox
      <4>2. QED
        BY <2>2, <3>1, <4>1 DEF Candidate
    <3>3. candidates' \in Inbox
      BY <2>3, <3>2 DEF LineageFits, Inbox
    <3>4. QED
      BY <1>14, <2>3, <3>3, DoneFits DEF Link, LineageFits
  <2>4. CASE /\ tasks' = [tasks EXCEPT ![t].status = IF @ = "queued" /\ d = epoch THEN "cancelled" ELSE @]
             /\ EndUnlinked(d) /\ UNCHANGED candidates
    <3> DEFINE new == [tasks[t] EXCEPT !.status = IF @ = "queued" /\ d = epoch THEN "cancelled" ELSE @]
    <3>1. new \in Task
      BY <2>2 DEF Task
    <3>2. tasks' = [tasks EXCEPT ![t] = new]
      BY <2>4
    <3> HIDE DEF new
    <3>3. tasks' \in Seq(Task)
      BY <3>1, <3>2, ReplacesOne DEF LineageFits
    <3>4. UNCHANGED <<inbox, head, epoch>> /\ command[d].pc # "idle"
      BY <1>14, <2>4 DEF Link, inbox, At
    <3>5. QED
      BY <1>17, <2>4, <3>3, <3>4
  <2>5. QED
    BY <1>14, <2>3, <2>4 DEF Link, t
<1>15. ASSUME NEW d \in Daemons, Ignore(d) PROVE LineageFits'
  <2>1. tasks' \in Seq(Task) /\ UNCHANGED <<inbox, head, epoch, astray>>
    BY <1>15 DEF Ignore, LineageFits
  <2>2. CASE Done(d)
    BY <2>1, <2>2, DoneFits DEF LineageFits, inbox
  <2>3. QED
    BY <1>15, <1>18, <2>1, <2>2 DEF Ignore
<1>19. ASSUME NEW d \in Daemons, Dismiss(d) PROVE LineageFits'
  <2>1. Obeys(d) /\ command[d].change \in Changes
    BY <1>19 DEF Dismiss, At, Asked, Obeys, Ignoring
  <2>2. astray' \subseteq Changes
    <3>1. astray' = astray \/ astray' = astray \union {x \in {command[d].change} : Linked(x)}
      BY <1>19 DEF Dismiss
    <3>2. {x \in {command[d].change} : Linked(x)} \subseteq Changes
      BY <2>1
    <3>3. QED
      BY <3>1, <3>2 DEF LineageFits
  <2>3. candidates' \in Inbox
    <3> DEFINE c == command[d].change
    <3>1. \/ candidates' = candidates
          \/ candidates[c].status # "absent" /\ candidates' = [candidates EXCEPT ![c].status = "ignored"]
      BY <1>19 DEF Dismiss
    <3> HIDE DEF c
    <3>2. ASSUME NEW x \in Changes PROVE candidates'[x] \in Candidate
      <4>1. candidates[x] \in Candidate
        BY DEF LineageFits, Inbox
      <4>2. \/ candidates'[x] = candidates[x]
            \/ candidates[x].status # "absent" /\ candidates'[x] = [candidates[x] EXCEPT !.status = "ignored"]
        BY <3>1 DEF LineageFits, Inbox
      <4>3. QED
        BY <4>1, <4>2 DEF Candidate
    <3>3. QED
      BY <3>1, <3>2 DEF LineageFits, Inbox
  <2>4. QED
    BY <1>19, <2>2, <2>3, DoneFits DEF Dismiss, LineageFits
<1>20. ASSUME NEW d \in Daemons, HandlerFails(d) PROVE LineageFits'
  <2>1. tasks' \in Seq(Task) /\ UNCHANGED <<inbox, head, epoch>> /\ command[d].pc # "idle"
    BY <1>20 DEF HandlerFails, LineageFits
  <2>2. CASE /\ command' = [command EXCEPT ![d] = Idle]
             /\ requests' = IF d = epoch THEN [requests EXCEPT ![command[d].of].by = 0] ELSE requests
             /\ UNCHANGED astray
    <3>1. command' \in [Daemons -> Command]
      BY <2>2, IdleFits DEF LineageFits
    <3>2. command[d].of \in DOMAIN requests /\ requests[command[d].of] \in Request
      BY <2>1 DEF Asked, Obeys, LineageFits
    <3>3. [requests[command[d].of] EXCEPT !.by = 0] \in Request
      BY <3>2 DEF Request
    <3>4. requests' \in {requests, [requests EXCEPT ![command[d].of] = [requests[command[d].of] EXCEPT !.by = 0]]}
      BY <2>2
    <3>5. requests' \in Seq(Request)
      BY <3>3, <3>4, ReplacesOne DEF LineageFits
    <3>6. QED
      BY <2>1, <2>2, <3>1, <3>5 DEF LineageFits, inbox
  <2>3. QED
    BY <1>17, <1>20, <2>1, <2>2 DEF HandlerFails
<1>21. QED
  BY <1>1, <1>2, <1>3, <1>4, <1>5, <1>6, <1>7, <1>8, <1>9, <1>10, <1>11, <1>12, <1>13, <1>14, <1>15,
     <1>16, <1>19, <1>20 DEF Next, Handle

-----------------------------------------------------------------------------
(* What a daemon has read, and what there is *)

(* A daemon has nothing read, or what it had, or what is there. *)
Recalls(d) ==
  \/ /\ command'[d].cursor = 0 /\ command'[d].base = 0 /\ command'[d].latest = 0
     /\ command'[d].candidates = Idle.candidates
  \/ /\ command'[d].cursor = command[d].cursor /\ command'[d].base = command[d].base
     /\ command'[d].latest = command[d].latest /\ command'[d].candidates = command[d].candidates
  \/ /\ command'[d].cursor = cursor /\ command'[d].base = base
     /\ command'[d].latest = head /\ command'[d].candidates = candidates

LEMMA StepRecalls ==
  ASSUME LineageInv, [Next]_vars, NEW e \in Daemons
  PROVE  Recalls(e)
<1> USE DEF LineageInv
<1>0. command[e] \in Command /\ Idle \in Command
  BY IdleFits DEF LineageFits
<1>1. CASE UNCHANGED command
  BY <1>1 DEF Recalls
<1>2. ASSUME NEW x \in Command, NEW d \in Daemons, command' = [command EXCEPT ![d] = x],
             x.cursor = 0 /\ x.base = 0 /\ x.latest = 0 /\ x.candidates = Idle.candidates
      PROVE  Recalls(e)
  BY <1>2 DEF Recalls, LineageFits
<1>3. ASSUME NEW d \in Daemons, command' = [command EXCEPT ![d] = Idle] PROVE Recalls(e)
  BY <1>2, <1>3, IdleFits DEF Idle
<1>4. ASSUME NEW d \in Daemons, NEW pc, command' = [command EXCEPT ![d].pc = pc] PROVE Recalls(e)
  <2>1. /\ command'[e].cursor = command[e].cursor /\ command'[e].base = command[e].base
        /\ command'[e].latest = command[e].latest /\ command'[e].candidates = command[e].candidates
    BY <1>4 DEF LineageFits, Command
  <2>2. QED
    BY <2>1 DEF Recalls
<1>5. ASSUME NEW d \in Daemons, Begin(d) PROVE Recalls(e)
  <2> DEFINE landed == {c \in Changes : Landed(c)}
  <2>1. PICK r \in DOMAIN requests :
          command' = [command EXCEPT ![d] = [Idle EXCEPT !.pc = requests[r].kind, !.of = r,
                                                         !.change = requests[r].change, !.landed = landed]]
    BY <1>5 DEF Begin
  <2> HIDE DEF landed
  <2> DEFINE x == [Idle EXCEPT !.pc = requests[r].kind, !.of = r, !.change = requests[r].change, !.landed = landed]
  <2>2. /\ x.cursor = Idle.cursor /\ x.base = Idle.base /\ x.latest = Idle.latest
        /\ x.candidates = Idle.candidates
    BY <1>0 DEF Command
  <2>3. Idle.cursor = 0 /\ Idle.base = 0 /\ Idle.latest = 0
    BY DEF Idle
  <2>4. d = e => command'[e] = x
    BY <2>1 DEF LineageFits
  <2>5. d # e => command'[e] = command[e]
    BY <2>1 DEF LineageFits
  <2> HIDE DEF x
  <2>6. QED
    BY <2>2, <2>3, <2>4, <2>5 DEF Recalls
<1>6. ASSUME NEW d \in Daemons, Reconcile(d) PROVE Recalls(e)
  <2>1. PICK c : command' = [command EXCEPT ![d].landed = @ \ {c}]
    BY <1>6 DEF Reconcile
  <2>2. /\ command'[e].cursor = command[e].cursor /\ command'[e].base = command[e].base
        /\ command'[e].latest = command[e].latest /\ command'[e].candidates = command[e].candidates
    BY <2>1 DEF LineageFits, Command
  <2>3. QED
    BY <2>2 DEF Recalls
<1>7. ASSUME NEW d \in Daemons, ScanRead(d) PROVE Recalls(e)
  <2>1. CASE Done(d)
    BY <1>3, <2>1 DEF Done
  <2>2. CASE command' = [command EXCEPT ![d] = [@ EXCEPT !.pc = "scanning", !.cursor = cursor, !.base = base,
                                                       !.candidates = candidates, !.latest = head]]
    <3> DEFINE x == [command[d] EXCEPT !.pc = "scanning", !.cursor = cursor, !.base = base,
                                       !.candidates = candidates, !.latest = head]
    <3>1. x.cursor = cursor /\ x.base = base /\ x.latest = head /\ x.candidates = candidates
      BY DEF LineageFits, Command
    <3>2. d = e => command'[e] = x
      BY <2>2 DEF LineageFits
    <3>3. d # e => command'[e] = command[e]
      BY <2>2 DEF LineageFits
    <3> HIDE DEF x
    <3>4. QED
      BY <3>1, <3>2, <3>3 DEF Recalls
  <2>3. QED
    BY <1>7, <2>1, <2>2 DEF ScanRead
<1>8. ASSUME NEW d \in Daemons, ScanSave(d) PROVE Recalls(e)
  <2>1. command' = [command EXCEPT ![d] = [Idle EXCEPT !.pc = "enqueue", !.of = command[d].of]]
    BY <1>8 DEF ScanSave, Scanned
  <2> DEFINE x == [Idle EXCEPT !.pc = "enqueue", !.of = command[d].of]
  <2>2. /\ x.cursor = Idle.cursor /\ x.base = Idle.base /\ x.latest = Idle.latest
        /\ x.candidates = Idle.candidates
    BY <1>0 DEF Command
  <2>3. Idle.cursor = 0 /\ Idle.base = 0 /\ Idle.latest = 0
    BY DEF Idle
  <2>4. d = e => command'[e] = x
    BY <2>1 DEF LineageFits
  <2>5. d # e => command'[e] = command[e]
    BY <2>1 DEF LineageFits
  <2> HIDE DEF x
  <2>6. QED
    BY <2>2, <2>3, <2>4, <2>5 DEF Recalls
<1>9. ASSUME NEW d \in Daemons,
             \/ Stop(d) \/ EnqueueAssessment(d) \/ Adapt(d) \/ EnqueueTask(d) \/ Link(d)
             \/ Ignore(d) \/ Dismiss(d) \/ HandlerFails(d)
      PROVE  Recalls(e)
  <2>1. command' = [command EXCEPT ![d] = Idle] \/ \E pc : command' = [command EXCEPT ![d].pc = pc]
    BY <1>9 DEF Stop, EnqueueAssessment, Adapt, EnqueueTask, Link, Ignore, Dismiss, HandlerFails,
                EndUnlinked, Done
  <2>2. QED
    BY <1>3, <1>4, <2>1
<1>10. ASSUME NEW d \in Daemons, Work(d) PROVE Recalls(e)
  BY <1>1, <1>10, WorkerAside
<1>11. QED
  BY <1>1, <1>5, <1>6, <1>7, <1>8, <1>9, <1>10
     DEF Next, Handle, vars, doing, Publish, Takeover, Ask, TaskLands

(* Tasks stay, with their change and their command. *)
TasksOn == \A t \in DOMAIN tasks :
  t \in DOMAIN tasks' /\ tasks'[t].change = tasks[t].change /\ tasks'[t].key = tasks[t].key

LEMMA TasksStay ==
  ASSUME LineageInv, [Next]_vars
  PROVE  TasksOn
<1> USE DEF LineageInv, TasksOn
<1>1. CASE UNCHANGED tasks
  BY <1>1
<1>2. ASSUME NEW t \in DOMAIN tasks, TaskLands(t) PROVE TasksOn
  BY <1>2 DEF TaskLands, LineageFits, Task
<1>3. ASSUME NEW d \in Daemons, EnqueueTask(d) PROVE TasksOn
  <2>1. CASE tasks' = Append(tasks, [change |-> command[d].change, key |-> command[d].of, status |-> "queued"])
    <3>1. tasks \in Seq(Task)
      BY DEF LineageFits
    <3>2. QED
      BY <2>1, <3>1
  <2>2. QED
    BY <1>1, <1>3, <2>1 DEF EnqueueTask
<1>4. ASSUME NEW d \in Daemons, Link(d) PROVE TasksOn
  <2> DEFINE x == CHOOSE i \in DOMAIN tasks : tasks[i].key = command[d].of
  <2>1. CASE tasks' = [tasks EXCEPT ![x].status = IF @ = "queued" /\ d = epoch THEN "cancelled" ELSE @]
    <3> HIDE DEF x
    <3>1. \A t \in DOMAIN tasks : tasks[t] \in Task
      BY DEF LineageFits
    <3>2. DOMAIN tasks' = DOMAIN tasks
      BY <2>1
    <3>3. \A t \in DOMAIN tasks :
            tasks'[t] = IF t = x THEN [tasks[t] EXCEPT !.status = IF @ = "queued" /\ d = epoch THEN "cancelled" ELSE @]
                        ELSE tasks[t]
      BY <2>1
    <3>4. QED
      BY <3>1, <3>2, <3>3 DEF Task
  <2>2. QED
    BY <1>1, <1>4, <2>1 DEF Link
<1>5. ASSUME NEW d \in Daemons, Work(d) PROVE TasksOn
  BY <1>1, <1>5, WorkerAside
<1>6. ASSUME NEW d \in Daemons, Handle(d), ~EnqueueTask(d), ~Link(d) PROVE TasksOn
  <2>1. tasks' = tasks
    BY <1>6 DEF Handle, Begin, Reconcile, ScanRead, ScanSave, Scanned, EnqueueAssessment, Adapt, Ignore,
                Dismiss, HandlerFails
  <2>2. QED
    BY <1>1, <2>1
<1>7. QED
  BY <1>1, <1>2, <1>3, <1>4, <1>5, <1>6 DEF Next, vars, Publish, Takeover, Ask, Stop

LEMMA Sees ==
  ASSUME LineageInv, [Next]_vars
  PROVE  Seen'
<1> USE DEF LineageInv
<1>1. head \in Nat /\ cursor \in Nat /\ base \in Nat /\ MaxChanges \in Nat /\ head <= MaxChanges
  BY LineageAssumption DEF LineageFits
<1>2. head' \in {head, head + 1}
  <2>1. ASSUME NEW d \in Daemons, Work(d) PROVE head' = head
    BY <2>1, WorkerAside
  <2>2. ASSUME NEW d \in Daemons, Handle(d) PROVE head' = head
    BY <2>2 DEF Handle, Begin, Reconcile, ScanRead, ScanSave, Scanned, EnqueueAssessment, Adapt, EnqueueTask,
                Link, Ignore, Dismiss, HandlerFails
  <2>3. QED
    BY <2>1, <2>2 DEF Next, vars, Publish, Takeover, Ask, TaskLands, Stop
<1>3. ASSUME NEW d \in Daemons
      PROVE  Covers(command[d].candidates, command[d].base, command[d].cursor)' /\ command'[d].latest <= head'
  <2>1. Recalls(d)
    BY StepRecalls
  <2>2. CASE command'[d].cursor = 0 /\ command'[d].base = 0 /\ command'[d].latest = 0
    BY <1>1, <1>2, <2>2 DEF Covers
  <2>3. CASE /\ command'[d].cursor = command[d].cursor /\ command'[d].base = command[d].base
             /\ command'[d].latest = command[d].latest /\ command'[d].candidates = command[d].candidates
    <3>1. command[d].cursor \in Nat /\ command[d].latest \in Nat /\ command[d].base \in Nat
      BY DEF LineageFits, Command
    <3>2. QED
      BY <1>1, <1>2, <2>3, <3>1 DEF Seen, Covers
  <2>4. CASE /\ command'[d].cursor = cursor /\ command'[d].base = base
             /\ command'[d].latest = head /\ command'[d].candidates = candidates
    BY <1>1, <1>2, <2>4 DEF Seen, Covers
  <2>5. QED
    BY <2>1, <2>2, <2>3, <2>4 DEF Recalls
<1>4. ASSUME cursor' = cursor, base' = base,
             \A c \in Changes : candidates'[c].status = "absent" => candidates[c].status = "absent"
      PROVE  Covers(candidates, base, cursor)'
  BY <1>1, <1>2, <1>4 DEF Seen, Covers, Changes
<1>5. ASSUME NEW d \in Daemons, ScanSave(d) PROVE Covers(candidates, base, cursor)'
  <2> DEFINE scan == command[d]
  <2>1. PICK latest \in scan.latest..head, n \in Start(scan)..head, diffs \in SUBSET (1..head) :
          Scanned(d, n, diffs, IF n = Start(scan) THEN latest ELSE scan.cursor)
    BY <1>5 DEF ScanSave
  <2> DEFINE start  == Start(scan)
             merged == Merged(scan.candidates, (n + 1)..head, diffs, n = start)
  <2>2. scan \in Command /\ start \in Nat
    BY StartFits DEF LineageFits
  <2>3. /\ scan.latest \in Nat /\ scan.cursor \in Nat /\ scan.base \in Nat
        /\ scan.candidates \in Inbox /\ (n = start) \in BOOLEAN
    BY <2>2 DEF Command
  <2>4. /\ candidates' = merged /\ head' = head
        /\ cursor' = IF n = start THEN latest ELSE scan.cursor
        /\ base' = IF scan.cursor > 0 THEN scan.base ELSE start
    BY <2>1 DEF Scanned
  <2>5. \A c \in Changes : scan.candidates[c].status # "absent" \/ c \in (n + 1)..head => candidates'[c].status # "absent"
    <3>1. Keeps(merged, scan.candidates, (n + 1)..head)
      BY <2>3, MergedKeeps
    <3> HIDE DEF scan, start, merged
    <3>2. QED
      BY <2>4, <3>1 DEF Keeps
  <2>6. /\ scan.cursor <= head
        /\ scan.cursor > 0 => start = scan.cursor
        /\ \A c \in (scan.base + 1)..scan.cursor : scan.candidates[c].status # "absent"
    BY DEF Seen, Covers, Start
  <2>7. latest <= head /\ latest \in Nat
    BY <1>1, <2>3
  <2> HIDE DEF scan, start, merged
  <2>8. ASSUME NEW c \in (start + 1)..head, n = start PROVE candidates'[c].status # "absent"
    BY <1>1, <2>2, <2>5, <2>8 DEF Changes
  <2>9. ASSUME NEW c \in (scan.base + 1)..scan.cursor PROVE candidates'[c].status # "absent"
    BY <1>1, <2>3, <2>5, <2>6 DEF Changes
  <2>10. CASE scan.cursor > 0
    <3>1. base' = scan.base /\ start = scan.cursor /\ cursor' \in {scan.cursor, latest}
      BY <2>4, <2>6, <2>10
    <3>2. ASSUME NEW c \in (base' + 1)..cursor' PROVE candidates'[c].status # "absent"
      <4>1. CASE c <= scan.cursor
        BY <2>3, <2>7, <2>9, <3>1, <4>1
      <4>2. CASE c > scan.cursor
        BY <1>1, <2>3, <2>4, <2>7, <2>8, <3>1, <4>2
      <4>3. QED
        BY <2>3, <2>7, <3>1, <4>1, <4>2
    <3>3. QED
      BY <1>1, <2>3, <2>4, <2>6, <2>7, <3>1, <3>2 DEF Covers
  <2>11. CASE scan.cursor = 0
    <3>1. base' = start
      BY <2>4, <2>11
    <3>2. ASSUME NEW c \in (start + 1)..cursor' PROVE candidates'[c].status # "absent"
      BY <1>1, <2>2, <2>4, <2>7, <2>8, <2>11
    <3>3. QED
      BY <1>1, <2>3, <2>4, <2>7, <2>11, <3>1, <3>2 DEF Covers
  <2>12. QED
    BY <2>3, <2>10, <2>11
<1>6. ASSUME NEW d \in Daemons, Reconcile(d) \/ Link(d) \/ Dismiss(d) PROVE Covers(candidates, base, cursor)'
  <2>1. UNCHANGED <<cursor, base>>
    BY <1>6 DEF Reconcile, Link, Dismiss
  <2>2. ASSUME NEW c \in Changes PROVE candidates'[c].status = "absent" => candidates[c].status = "absent"
    <3>1. candidates[c] \in Candidate
      BY DEF LineageFits, Inbox
    <3>2. candidates'[c].status \in {candidates[c].status, "adopted", "linked", "ignored"}
      <4>1. CASE Reconcile(d)
        <5>1. PICK x : candidates' \in {candidates, [candidates EXCEPT ![x].status = "adopted"]}
          BY <4>1 DEF Reconcile
        <5>2. QED
          BY <3>1, <5>1 DEF LineageFits, Inbox, Candidate
      <4>2. CASE Link(d)
        <5>1. PICK x, t : candidates' \in {candidates, [candidates EXCEPT ![x].status = "linked", ![x].task = t]}
          BY <4>2 DEF Link
        <5>2. QED
          BY <3>1, <5>1 DEF LineageFits, Inbox, Candidate
      <4>3. CASE Dismiss(d)
        <5>1. PICK x : candidates' \in {candidates, [candidates EXCEPT ![x].status = "ignored"]}
          BY <4>3 DEF Dismiss
        <5>2. QED
          BY <3>1, <5>1 DEF LineageFits, Inbox, Candidate
      <4>4. QED
        BY <1>6, <4>1, <4>2, <4>3
    <3>3. QED
      BY <3>2
  <2>3. QED
    BY <1>4, <2>1, <2>2
<1>7. ASSUME NEW d \in Daemons, Work(d) PROVE Covers(candidates, base, cursor)'
  BY <1>4, <1>7, WorkerAside, AssessesKeeps
<1>8. ASSUME UNCHANGED inbox PROVE Covers(candidates, base, cursor)'
  BY <1>4, <1>8 DEF inbox
<1>9. Covers(candidates, base, cursor)'
  BY <1>5, <1>6, <1>7, <1>8 DEF Next, Handle, vars, inbox, Publish, Takeover, Ask, TaskLands, Stop, Begin, ScanRead,
       EnqueueAssessment, Adapt, EnqueueTask, Ignore, HandlerFails
<1>10. QED
  BY <1>3, <1>9 DEF Seen

-----------------------------------------------------------------------------
(* Commands and their tasks *)

(* No command is opened or changed, though one may be answered. *)
Closes == /\ Len(requests') = Len(requests) /\ DOMAIN requests' = DOMAIN requests
          /\ \A r \in DOMAIN requests : Open(r)' =>
               /\ Open(r)
               /\ requests'[r].kind = requests[r].kind /\ requests'[r].change = requests[r].change

(* A daemon ends a command, or goes on with it. *)
Carries(d) ==
  \/ command'[d].pc = "idle"
  \/ /\ command[d].pc # "idle" /\ command'[d].of = command[d].of
     /\ KindOf(command'[d].pc) = KindOf(command[d].pc)
     /\ command'[d].pc \in Adapting \union Ignoring => command'[d].change = command[d].change
     /\ d = epoch' => d = epoch /\ Open(command[d].of)'

LEMMA Kinds ==
  ASSUME NEW x \in Command, x.pc # "idle"
  PROVE  /\ KindOf(x.pc) # "scan" <=> x.pc \in Adapting \union Ignoring
         /\ KindOf(x.pc) = "adapt" <=> x.pc \in Adapting
BY DEF Command, KindOf, Adapting, Ignoring

LEMMA CarriedOn ==
  ASSUME LineageInv, LineageFits', Closes, epoch' \in {epoch, epoch + 1},
         \A d \in Daemons : Carries(d)
  PROVE  Asked'
<1> USE DEF LineageInv
<1>1. LastOpen'
  BY DEF Closes, Asked, LastOpen
<1>2. ASSUME NEW d \in Daemons, command'[d].pc # "idle" PROVE Obeys(d)'
  <2>1. /\ command[d].pc # "idle" /\ command'[d].of = command[d].of
        /\ KindOf(command'[d].pc) = KindOf(command[d].pc)
        /\ command'[d].pc \in Adapting \union Ignoring => command'[d].change = command[d].change
        /\ d = epoch' => d = epoch /\ Open(command[d].of)'
    BY <1>2 DEF Carries
  <2>2. command[d] \in Command /\ command'[d] \in Command
    BY DEF LineageFits
  <2>3. command'[d].pc \in Adapting \union Ignoring => command[d].pc \in Adapting \union Ignoring
    BY <1>2, <2>1, <2>2, Kinds
  <2>4. Obeys(d)
    BY DEF Asked
  <2>5. /\ command[d].of \in DOMAIN requests'
        /\ Open(command[d].of)' =>
             /\ Open(command[d].of)
             /\ requests'[command[d].of].kind = requests[command[d].of].kind
             /\ requests'[command[d].of].change = requests[command[d].of].change
    BY <2>1, <2>4 DEF Closes, Obeys
  <2>6. d <= epoch'
    BY <2>1, <2>4 DEF Obeys, Daemons, LineageFits
  <2>7. QED
    BY <2>1, <2>3, <2>4, <2>5, <2>6 DEF Obeys, Open
<1>3. QED
  BY <1>1, <1>2 DEF Asked, Obeys

LEMMA TasksStem ==
  ASSUME LineageInv, LineageFits', Closes, TasksOn, DOMAIN tasks' = DOMAIN tasks,
         \A d \in Daemons : Carries(d) /\ (command'[d].pc = "link" => command[d].pc = "link")
  PROVE  OneTaskEach'
<1> USE DEF LineageInv
<1>1. ASSUME NEW t \in DOMAIN tasks' PROVE Stems(t)'
  <2>1. t \in DOMAIN tasks /\ tasks'[t].change = tasks[t].change /\ tasks'[t].key = tasks[t].key /\ Stems(t)
    BY DEF TasksOn, OneTaskEach
  <2>2. QED
    BY <2>1 DEF Stems, Closes, Open
<1>2. ASSUME NEW d \in Daemons PROVE Makes(d)'
  <2>1. command[d] \in Command /\ command'[d] \in Command
    BY DEF LineageFits
  <2>2. CASE command'[d].pc \in Adapting
    <3>1. command'[d].pc # "idle"
      BY <2>2 DEF Adapting
    <3>2. /\ command'[d].of = command[d].of /\ command'[d].change = command[d].change
          /\ command[d].pc \in Adapting
      BY <2>1, <2>2, <3>1, Kinds DEF Carries
    <3>3. QED
      BY <2>2, <3>2 DEF OneTaskEach, Makes, TasksOn
  <2>3. QED
    BY <2>2 DEF Makes, Adapting
<1>3. QED
  BY <1>1, <1>2 DEF OneTaskEach, TasksOn

LEMMA DoneCloses ==
  ASSUME LineageInv, NEW d \in Daemons, command[d].pc # "idle", Done(d), epoch' = epoch
  PROVE  Closes /\ \A e \in Daemons : Carries(e) /\ (command'[e].pc = "link" => command[e].pc = "link")
<1> USE DEF LineageInv
<1>1. Obeys(d) /\ command[d].of \in DOMAIN requests /\ command[d].of \in 1..Len(requests)
  BY DEF Asked, Obeys, LineageFits
<1>2. Closes
  <2>1. CASE requests' = requests
    BY <2>1 DEF Closes, Open
  <2>2. CASE requests' = [requests EXCEPT ![command[d].of] = Answered]
    <3>1. Len(requests') = Len(requests) /\ DOMAIN requests' = DOMAIN requests
      <4>1. Answered \in Request
        BY LineageAssumption DEF Answered, Request
      <4>2. QED
        BY <2>2, <4>1, ReplacesOne DEF LineageFits
    <3>2. QED
      BY <2>2, <3>1 DEF Closes, Open
  <2>3. QED
    BY <2>1, <2>2 DEF Done
<1>3. command'[d].pc = "idle"
  BY DEF Done, Idle, LineageFits
<1>4. ASSUME NEW e \in Daemons, e # d PROVE Carries(e) /\ command'[e] = command[e]
  <2>1. command'[e] = command[e]
    BY <1>4 DEF Done, LineageFits
  <2>2. CASE command[e].pc = "idle"
    BY <2>1, <2>2 DEF Carries
  <2>3. CASE command[e].pc # "idle"
    <3>1. e = epoch => Open(command[e].of)'
      BY <1>4, <2>3 DEF Done, Asked, Obeys, Open
    <3>2. QED
      BY <2>1, <2>3, <3>1 DEF Carries
  <2>4. QED
    BY <2>1, <2>2, <2>3
<1>5. QED
  BY <1>2, <1>3, <1>4 DEF Carries

(* A handler that fails leaves its command as it is. *)
LEMMA FailCloses ==
  ASSUME LineageInv, LineageFits', NEW d \in Daemons, command[d].pc # "idle", epoch' = epoch,
         command' = [command EXCEPT ![d] = Idle],
         requests' = IF d = epoch THEN [requests EXCEPT ![command[d].of].by = 0] ELSE requests
  PROVE  Closes /\ \A e \in Daemons : Carries(e) /\ (command'[e].pc = "link" => command[e].pc = "link")
<1> USE DEF LineageInv
<1> DEFINE r == command[d].of
<1>1. Obeys(d) /\ r \in DOMAIN requests /\ requests[r] \in Request
  BY DEF Asked, Obeys, LineageFits
<1>2. Closes
  <2>1. CASE requests' = requests
    BY <2>1 DEF Closes, Open
  <2>2. CASE d = epoch /\ requests' = [requests EXCEPT ![r] = [requests[r] EXCEPT !.by = 0]]
    <3> DEFINE q == [requests[r] EXCEPT !.by = 0]
    <3>1. q \in Request /\ q.kind = requests[r].kind /\ q.change = requests[r].change
      BY <1>1 DEF Request
    <3>2. requests' = [requests EXCEPT ![r] = q]
      BY <2>2
    <3>3. Open(r)
      BY <1>1, <2>2 DEF Obeys
    <3> HIDE DEF q, r
    <3>4. Len(requests') = Len(requests) /\ DOMAIN requests' = DOMAIN requests
      BY <3>1, <3>2, ReplacesOne DEF LineageFits
    <3>5. QED
      BY <3>1, <3>2, <3>3, <3>4 DEF Closes, Open
  <2>3. QED
    BY <2>1, <2>2
<1>3. command'[d].pc = "idle"
  BY DEF Idle, LineageFits
<1>4. ASSUME NEW e \in Daemons, e # d PROVE Carries(e) /\ command'[e] = command[e]
  <2>1. command'[e] = command[e] /\ Obeys(e)
    BY <1>4 DEF LineageFits, Asked
  <2>2. e = epoch => requests' = requests
    BY <1>4
  <2>3. QED
    BY <2>1, <2>2 DEF Carries, Obeys, Open
<1>5. QED
  BY <1>2, <1>3, <1>4 DEF Carries

(* The steps that give no command, take none up and make no task. *)
Plain == \/ UNCHANGED vars \/ Publish \/ Takeover \/ \E t \in DOMAIN tasks : TaskLands(t)
         \/ \E d \in Daemons : \/ Reconcile(d) \/ ScanRead(d) \/ ScanSave(d) \/ EnqueueAssessment(d)
                               \/ Adapt(d) \/ Link(d) \/ Ignore(d) \/ Dismiss(d) \/ HandlerFails(d)
                               \/ Work(d) \/ Stop(d)

LEMMA PlainSteps ==
  ASSUME LineageInv, LineageFits', Plain
  PROVE  /\ Closes /\ epoch' \in {epoch, epoch + 1} /\ DOMAIN tasks' = DOMAIN tasks
         /\ \A e \in Daemons : Carries(e) /\ (command'[e].pc = "link" => command[e].pc = "link")
<1> USE DEF LineageInv
<1> DEFINE Goal == /\ Closes /\ epoch' \in {epoch, epoch + 1} /\ DOMAIN tasks' = DOMAIN tasks
                   /\ \A e \in Daemons : Carries(e) /\ (command'[e].pc = "link" => command[e].pc = "link")
<1>1. ASSUME UNCHANGED <<requests, command, epoch>>, DOMAIN tasks' = DOMAIN tasks PROVE Goal
  <2>1. ASSUME NEW e \in Daemons PROVE Carries(e)
    <3>1. Obeys(e)
      BY DEF Asked
    <3>2. QED
      BY <1>1, <3>1 DEF Carries, Obeys, Open
  <2>2. Closes
    BY <1>1 DEF Closes, Open
  <2>3. QED
    BY <1>1, <2>1, <2>2
<1>2. CASE Takeover
  <2>1. ASSUME NEW e \in Daemons PROVE Carries(e)
    <3>1. Obeys(e)
      BY DEF Asked
    <3>2. e # epoch' \/ command[e].pc = "idle"
      BY <1>2, <3>1 DEF Obeys, Takeover, Daemons, LineageFits
    <3>3. QED
      BY <1>2, <3>2 DEF Carries, Takeover, doing
  <2>2. Closes
    BY <1>2 DEF Closes, Open, Takeover
  <2>3. QED
    BY <1>2, <2>1, <2>2 DEF Takeover, doing
<1>3. ASSUME NEW d \in Daemons, Stop(d) PROVE Goal
  <2>1. ASSUME NEW e \in Daemons PROVE Carries(e) /\ (command'[e].pc = "link" => command[e].pc = "link")
    <3>1. Obeys(e)
      BY DEF Asked
    <3>2. command'[e] = IF e = d THEN Idle ELSE command[e]
      BY <1>3 DEF Stop, LineageFits
    <3>3. QED
      BY <1>3, <3>1, <3>2 DEF Carries, Obeys, Open, Stop, Idle
  <2>2. Closes
    BY <1>3 DEF Closes, Open, Stop
  <2>3. QED
    BY <1>3, <2>1, <2>2 DEF Stop
<1>4. ASSUME NEW d \in Daemons, command[d].pc # "idle", Done(d), epoch' = epoch, DOMAIN tasks' = DOMAIN tasks
      PROVE  Goal
  BY <1>4, DoneCloses
<1>5. ASSUME NEW d \in Daemons, UNCHANGED <<requests, epoch, tasks>>,
             NEW x \in Command, command' = [command EXCEPT ![d] = x],
             command[d].pc # "idle", x.pc # "link" \/ x.pc = command[d].pc,
             KindOf(x.pc) = KindOf(command[d].pc),
             x.of = command[d].of, x.pc \in Adapting \union Ignoring => x.change = command[d].change
      PROVE  Goal
  <2>1. ASSUME NEW e \in Daemons PROVE Carries(e) /\ (command'[e].pc = "link" => command[e].pc = "link")
    <3>1. Obeys(e)
      BY DEF Asked
    <3>2. command'[e] = IF e = d THEN x ELSE command[e]
      BY <1>5 DEF LineageFits
    <3>3. CASE e = d
      BY <1>5, <3>1, <3>2, <3>3 DEF Carries, Obeys, Open
    <3>4. CASE e # d
      BY <1>5, <3>1, <3>2, <3>4 DEF Carries, Obeys, Open
    <3>5. QED
      BY <3>3, <3>4
  <2>2. Closes
    BY <1>5 DEF Closes, Open
  <2>3. QED
    BY <1>5, <2>1, <2>2
<1>14. ASSUME NEW d \in Daemons, UNCHANGED <<requests, epoch, tasks>>, command[d].pc # "idle",
              NEW pc \in {"scanning", "adapting", "ignoring"}, KindOf(pc) = KindOf(command[d].pc),
              command' = [command EXCEPT ![d].pc = pc]
       PROVE  Goal
  <2> DEFINE x == [command[d] EXCEPT !.pc = pc]
  <2>1. x \in Command /\ x.pc = pc /\ x.of = command[d].of /\ x.change = command[d].change
    BY DEF LineageFits, Command
  <2>2. command' = [command EXCEPT ![d] = x]
    BY <1>14
  <2> HIDE DEF x
  <2>3. QED
    BY <1>5, <1>14, <2>1, <2>2
<1>6. ASSUME NEW d \in Daemons, ScanRead(d) PROVE Goal
  <2>1. CASE Done(d)
    BY <1>4, <1>6, <2>1 DEF ScanRead, At
  <2>2. CASE UNCHANGED requests /\
             command' = [command EXCEPT ![d] = [@ EXCEPT !.pc = "scanning", !.cursor = cursor, !.base = base,
                                                       !.candidates = candidates, !.latest = head]]
    <3> DEFINE x == [command[d] EXCEPT !.pc = "scanning", !.cursor = cursor, !.base = base,
                                       !.candidates = candidates, !.latest = head]
    <3>1. command[d] \in Command /\ candidates \in Inbox /\ cursor \in Nat /\ base \in Nat /\ head \in Nat
      BY LineageAssumption DEF LineageFits
    <3>2. x \in Command /\ x.pc = "scanning" /\ x.of = command[d].of
      BY <3>1 DEF Command
    <3>3. command' = [command EXCEPT ![d] = x]
      BY <2>2
    <3>4. KindOf(command[d].pc) = KindOf("scanning") /\ command[d].pc # "idle"
            /\ "scanning" \notin Adapting \union Ignoring
      BY <1>6 DEF ScanRead, At, KindOf, Adapting, Ignoring
    <3>5. UNCHANGED <<requests, epoch, tasks>>
      BY <1>6, <2>2 DEF ScanRead
    <3> HIDE DEF x
    <3>6. QED
      BY <1>5, <3>2, <3>3, <3>4, <3>5
  <2>3. QED
    BY <1>6, <2>1, <2>2 DEF ScanRead
<1>7. ASSUME NEW d \in Daemons, ScanSave(d) PROVE Goal
  <2> DEFINE x == [Idle EXCEPT !.pc = "enqueue", !.of = command[d].of]
  <2>1. command' = [command EXCEPT ![d] = x] /\ UNCHANGED <<requests, epoch, tasks>>
    BY <1>7 DEF ScanSave, Scanned
  <2>2. command[d].pc # "idle" /\ KindOf(command[d].pc) = KindOf("enqueue")
          /\ "enqueue" \notin Adapting \union Ignoring
    BY <1>7 DEF ScanSave, At, KindOf, Adapting, Ignoring
  <2>3. x \in Command /\ x.pc = "enqueue" /\ x.of = command[d].of
    <3>1. command[d] \in Command
      BY DEF LineageFits
    <3>2. QED
      BY <3>1, IdleFits DEF Command
  <2> HIDE DEF x
  <2>4. QED
    BY <1>5, <2>1, <2>2, <2>3
<1>8. ASSUME NEW d \in Daemons, Link(d) PROVE Goal
  <2> DEFINE t == CHOOSE i \in DOMAIN tasks : tasks[i].key = command[d].of
  <2>1. \/ tasks' = tasks
        \/ tasks' = [tasks EXCEPT ![t].status = IF @ = "queued" /\ d = epoch THEN "cancelled" ELSE @]
    BY <1>8 DEF Link
  <2> HIDE DEF t
  <2>2. DOMAIN tasks' = DOMAIN tasks
    BY <2>1
  <2>3. Done(d) /\ command[d].pc # "idle" /\ epoch' = epoch
    BY <1>8 DEF Link, EndUnlinked, At
  <2>4. QED
    BY <1>4, <2>2, <2>3
<1>9. ASSUME NEW d \in Daemons, EnqueueAssessment(d) \/ Dismiss(d) PROVE Goal
  BY <1>4, <1>9 DEF EnqueueAssessment, Dismiss, At
<1>15. ASSUME NEW d \in Daemons, Adapt(d) PROVE Goal
  <2>1. CASE EndUnlinked(d)
    BY <1>4, <1>15, <2>1 DEF Adapt, At, EndUnlinked
  <2>2. CASE command' = [command EXCEPT ![d].pc = "adapting"] /\ UNCHANGED requests
    <3>1. KindOf("adapting") = KindOf(command[d].pc) /\ command[d].pc # "idle"
      BY <1>15 DEF Adapt, At, KindOf, Adapting
    <3>2. UNCHANGED <<requests, epoch, tasks>>
      BY <1>15, <2>2 DEF Adapt
    <3>3. QED
      BY <1>14, <2>2, <3>1, <3>2
  <2>3. QED
    BY <1>15, <2>1, <2>2 DEF Adapt
<1>16. ASSUME NEW d \in Daemons, Ignore(d) PROVE Goal
  <2>1. CASE Done(d)
    BY <1>4, <1>16, <2>1 DEF Ignore, At
  <2>2. CASE command' = [command EXCEPT ![d].pc = "ignoring"] /\ UNCHANGED requests
    <3>1. KindOf("ignoring") = KindOf(command[d].pc) /\ command[d].pc # "idle"
      BY <1>16 DEF Ignore, At, KindOf, Adapting
    <3>2. UNCHANGED <<requests, epoch, tasks>>
      BY <1>16, <2>2 DEF Ignore
    <3>3. QED
      BY <1>14, <2>2, <3>1, <3>2
  <2>3. QED
    BY <1>16, <2>1, <2>2 DEF Ignore
<1>17. ASSUME NEW d \in Daemons, Reconcile(d) PROVE Goal
  <2>1. PICK c \in command[d].landed : command' = [command EXCEPT ![d].landed = @ \ {c}]
    BY <1>17 DEF Reconcile
  <2> DEFINE x == [command[d] EXCEPT !.landed = command[d].landed \ {c}]
  <2>2. command[d] \in Command
    BY DEF LineageFits
  <2>3. /\ x \in Command /\ x.pc = command[d].pc /\ x.of = command[d].of /\ x.change = command[d].change
    BY <2>2 DEF Command
  <2>4. command' = [command EXCEPT ![d] = x]
    BY <2>1
  <2>5. UNCHANGED <<requests, epoch, tasks>>
    BY <1>17 DEF Reconcile
  <2>6. CASE command[d].pc # "idle"
    <3> HIDE DEF x
    <3>1. QED
      BY <1>5, <2>3, <2>4, <2>5, <2>6
  <2>7. CASE command[d].pc = "idle"
    <3> HIDE DEF x
    <3>1. ASSUME NEW e \in Daemons PROVE Carries(e) /\ (command'[e].pc = "link" => command[e].pc = "link")
      <4>1. command'[e] = IF e = d THEN x ELSE command[e]
        BY <2>4 DEF LineageFits
      <4>2. Obeys(e)
        BY DEF Asked
      <4>3. QED
        BY <2>3, <2>5, <2>7, <4>1, <4>2 DEF Carries, Obeys, Open
    <3>2. Closes
      BY <2>5 DEF Closes, Open
    <3>3. QED
      BY <2>5, <3>1, <3>2
  <2>8. QED
    BY <2>6, <2>7
<1>18. ASSUME NEW d \in Daemons, HandlerFails(d) PROVE Goal
  <2>1. command[d].pc # "idle" /\ epoch' = epoch /\ DOMAIN tasks' = DOMAIN tasks
    BY <1>18 DEF HandlerFails
  <2>2. CASE EndUnlinked(d)
    BY <1>4, <2>1, <2>2 DEF EndUnlinked
  <2>3. CASE ~EndUnlinked(d)
    BY <1>18, <2>1, <2>3, FailCloses DEF HandlerFails
  <2>4. QED
    BY <2>2, <2>3
<1>10. ASSUME NEW d \in Daemons, Work(d) PROVE Goal
  BY <1>1, <1>10, WorkerAside
<1>11. ASSUME NEW t \in DOMAIN tasks, TaskLands(t) PROVE Goal
  <2>1. DOMAIN tasks' = DOMAIN tasks
    BY <1>11 DEF TaskLands
  <2>2. QED
    BY <1>1, <1>11, <2>1 DEF TaskLands, doing
<1>12. CASE UNCHANGED vars \/ Publish
  BY <1>1, <1>12 DEF vars, Publish, doing
<1>13. QED
  BY <1>2, <1>3, <1>6, <1>7, <1>8, <1>9, <1>10, <1>11, <1>12, <1>15, <1>16, <1>17, <1>18 DEF Plain

(* A command is given when all the others are answered. *)
LEMMA AskStep ==
  ASSUME LineageInv, LineageFits', TasksOn,
         NEW kind \in {"scan", "adapt", "ignore"}, NEW c \in Changes \union {0}, Ask(kind, c)
  PROVE  Asked' /\ OneTaskEach'
<1> USE DEF LineageInv
<1> DEFINE q == [kind |-> kind, change |-> c, by |-> 0]
<1>1. requests' = Append(requests, q) /\ requests \in Seq(Request) /\ UNCHANGED <<tasks, epoch, command>>
  BY DEF Ask, doing, LineageFits
<1>2. /\ Len(requests') = Len(requests) + 1 /\ Len(requests) \in Nat
      /\ DOMAIN requests' = DOMAIN requests \union {Len(requests) + 1}
      /\ \A r \in DOMAIN requests : requests'[r] = requests[r] /\ r \in 1..Len(requests)
      /\ requests'[Len(requests) + 1] = q
  BY <1>1
<1>3. \A r \in DOMAIN requests : ~Open(r)
  BY DEF Ask, Open
<1>4. LastOpen'
  <2>1. q.kind # "answered" /\ (q.kind # "scan" => q.change \in Changes)
    BY DEF Ask
  <2> HIDE DEF q
  <2>2. QED
    BY <1>2, <1>3, <2>1 DEF LastOpen, Open
<1> HIDE DEF q
<1>5. ASSUME NEW d \in Daemons PROVE Obeys(d)' /\ Makes(d)'
  <2>1. Obeys(d) /\ Makes(d)
    BY DEF Asked, OneTaskEach
  <2>2. Obeys(d)'
    BY <1>1, <1>2, <1>3, <2>1 DEF Obeys, Open
  <2>3. QED
    BY <1>1, <2>1, <2>2 DEF Makes
<1>6. ASSUME NEW t \in DOMAIN tasks PROVE Stems(t)'
  BY <1>1, <1>2, <1>3 DEF OneTaskEach, Stems, Open
<1>7. QED
  BY <1>1, <1>4, <1>5, <1>6 DEF Asked, OneTaskEach

LEMMA BeginStep ==
  ASSUME LineageInv, LineageFits', NEW d \in Daemons, Begin(d)
  PROVE  Asked' /\ OneTaskEach'
<1> USE DEF LineageInv
<1>1. PICK r \in DOMAIN requests :
        /\ Open(r)
        /\ requests' = [requests EXCEPT ![r] = [requests[r] EXCEPT !.by = d]]
        /\ command' = [command EXCEPT ![d] = [Idle EXCEPT !.pc = requests[r].kind, !.of = r,
                                                 !.change = requests[r].change,
                                                 !.landed = {c \in Changes : Landed(c)}]]
  BY DEF Begin, Open
<1>2. requests[r] \in Request /\ requests[r].kind \in {"scan", "adapt", "ignore"}
        /\ (requests[r].kind # "scan" => requests[r].change \in Changes)
  <2>1. requests[r] \in Request
    BY DEF LineageFits
  <2>2. QED
    BY <1>1, <2>1 DEF Asked, LastOpen, Request
<1>3. d = epoch /\ UNCHANGED <<tasks, epoch>>
  BY DEF Begin
<1>4. /\ Len(requests') = Len(requests) /\ DOMAIN requests' = DOMAIN requests
      /\ \A s \in DOMAIN requests : requests'[s].kind = requests[s].kind /\ requests'[s].change = requests[s].change
  <2> DEFINE q == [requests[r] EXCEPT !.by = d]
  <2>1. q \in Request /\ q.kind = requests[r].kind /\ q.change = requests[r].change
    BY <1>2 DEF Request, Daemons
  <2>2. requests' = [requests EXCEPT ![r] = q]
    BY <1>1
  <2> HIDE DEF q
  <2>3. Len(requests') = Len(requests) /\ DOMAIN requests' = DOMAIN requests
    BY <2>1, <2>2, ReplacesOne DEF LineageFits
  <2>4. QED
    BY <2>1, <2>2, <2>3
<1>5. ASSUME NEW s \in DOMAIN requests PROVE Open(s)' <=> Open(s)
  <2>1. CASE s = r
    <3>1. requests'[r].kind # Answered.kind
      BY <1>2, <1>4 DEF Answered
    <3>2. QED
      BY <1>1, <2>1, <3>1 DEF Open
  <2>2. CASE s # r
    BY <1>1, <2>2 DEF Open
  <2>3. QED
    BY <2>1, <2>2
<1>6. LastOpen'
  BY <1>4, <1>5 DEF Asked, LastOpen
<1>7. command'[d].pc = requests[r].kind /\ command'[d].of = r /\ command'[d].change = requests[r].change
  BY <1>1, <1>2, IdleFits DEF LineageFits, Command
<1>8. KindOf(requests[r].kind) = requests[r].kind
  BY <1>2 DEF KindOf, Adapting
<1>9. \A t \in DOMAIN tasks : Stems(t)'
  BY <1>3, <1>4, <1>5 DEF OneTaskEach, Stems
<1>10. Obeys(d)' /\ Makes(d)'
  <2>1. Obeys(d)'
    <3>1. Open(command[d].of)' /\ command'[d].of \in DOMAIN requests' /\ d <= epoch'
      BY <1>1, <1>3, <1>4, <1>5, <1>7 DEF Open, Daemons, LineageFits
    <3>2. requests'[r].kind = command'[d].pc /\ requests'[r].change = command'[d].change
      BY <1>4, <1>7
    <3>3. requests[r].kind \in Adapting \union Ignoring => requests[r].kind # "scan"
      BY DEF Adapting, Ignoring
    <3>4. QED
      BY <1>2, <1>7, <1>8, <3>1, <3>2, <3>3 DEF Obeys
  <2>2. \A t \in DOMAIN tasks : tasks[t].key = r => tasks[t].change = requests[r].change
    BY <1>1 DEF OneTaskEach, Stems
  <2>3. QED
    BY <1>2, <1>3, <1>7, <2>1, <2>2 DEF Makes
<1>11. ASSUME NEW e \in Daemons, e # d PROVE Obeys(e)' /\ Makes(e)'
  <2>1. command'[e] = command[e] /\ Obeys(e) /\ Makes(e)
    BY <1>1, <1>11 DEF LineageFits, Asked, OneTaskEach
  <2>2. CASE command[e].pc = "idle"
    BY <2>1, <2>2 DEF Obeys, Makes, Adapting
  <2>3. CASE command[e].pc # "idle"
    <3>1. command[e].of \in DOMAIN requests
      BY <2>1, <2>3 DEF Obeys
    <3>2. Open(command[e].of)' <=> Open(command[e].of)
      BY <1>5, <2>1, <3>1 DEF Open
    <3>3. /\ requests'[command[e].of].kind = requests[command[e].of].kind
          /\ requests'[command[e].of].change = requests[command[e].of].change
      BY <1>4, <3>1
    <3>4. Obeys(e)'
      BY <1>3, <1>4, <1>11, <2>1, <3>2, <3>3 DEF Obeys
    <3>5. QED
      BY <1>3, <2>1, <3>4 DEF Makes
  <2>4. QED
    BY <2>2, <2>3
<1>12. QED
  BY <1>3, <1>6, <1>9, <1>10, <1>11 DEF Asked, OneTaskEach

(* The task of a command is made once. *)
LEMMA EnqueueStep ==
  ASSUME LineageInv, LineageFits', TasksOn, NEW d \in Daemons, EnqueueTask(d)
  PROVE  Asked' /\ OneTaskEach'
<1> USE DEF LineageInv
<1>1. command[d].pc = "adapting" /\ Obeys(d) /\ Makes(d) /\ UNCHANGED epoch
  BY DEF EnqueueTask, At, Asked, OneTaskEach
<1>2. CASE Done(d) /\ UNCHANGED tasks
  <2>1. Closes /\ \A e \in Daemons : Carries(e) /\ (command'[e].pc = "link" => command[e].pc = "link")
    BY <1>1, <1>2, DoneCloses
  <2>2. QED
    BY <1>1, <1>2, <2>1, CarriedOn, TasksStem
<1>3. CASE /\ d = epoch
           /\ tasks' = IF Mine(d) # {} THEN tasks
                       ELSE Append(tasks, [change |-> command[d].change, key |-> command[d].of, status |-> "queued"])
           /\ command' = [command EXCEPT ![d].pc = "link"]
           /\ UNCHANGED requests
  <2> DEFINE r == command[d].of
             x == command[d].change
  <2>1. /\ command'[d].pc = "link" /\ command'[d].of = r /\ command'[d].change = x
        /\ \A e \in Daemons : e # d => command'[e] = command[e]
    BY <1>3 DEF LineageFits, Command
  <2>2. /\ r \in DOMAIN requests /\ Open(r) /\ x \in Changes
        /\ requests[r].kind = "adapt" /\ requests[r].change = x
    BY <1>1, <1>3 DEF Obeys, KindOf, Adapting
  <2>3. Asked'
    <3>1. Closes
      BY <1>3 DEF Closes, Open
    <3>2. ASSUME NEW e \in Daemons PROVE Carries(e)
      <4>1. CASE e = d
        BY <1>1, <1>3, <2>1, <2>2, <4>1 DEF Carries, KindOf, Open, Adapting
      <4>2. CASE e # d
        <5>1. Obeys(e)
          BY DEF Asked
        <5>2. QED
          BY <1>1, <1>3, <2>1, <4>2, <5>1 DEF Carries, Obeys, Open
      <4>3. QED
        BY <4>1, <4>2
    <3>3. QED
      BY <1>1, <3>1, <3>2, CarriedOn
  <2>4. CASE tasks' = tasks /\ \E t \in DOMAIN tasks : tasks[t].key = r
    <3>1. \A t \in DOMAIN tasks : Stems(t)'
      BY <1>3, <2>4 DEF OneTaskEach, Stems, Open
    <3>2. Makes(d)'
      BY <1>1, <2>1, <2>4 DEF Makes, Adapting
    <3>3. \A e \in Daemons \ {d} : Makes(e)'
      BY <2>1, <2>4 DEF Makes, OneTaskEach
    <3>4. QED
      BY <2>3, <2>4, <3>1, <3>2, <3>3 DEF OneTaskEach
  <2>5. CASE /\ \A t \in DOMAIN tasks : tasks[t].key # r
             /\ tasks' = Append(tasks, [change |-> x, key |-> r, status |-> "queued"])
    <3> DEFINE n == Len(tasks) + 1
    <3>1. /\ DOMAIN tasks' = DOMAIN tasks \union {n} /\ n \notin DOMAIN tasks
          /\ tasks'[n].change = x /\ tasks'[n].key = r
          /\ \A t \in DOMAIN tasks : tasks'[t] = tasks[t]
      <4>1. tasks \in Seq(Task)
        BY DEF LineageFits
      <4>2. QED
        BY <2>5, <4>1
    <3> HIDE DEF n, r, x
    <3>2. \A t, u \in DOMAIN tasks' : tasks'[t].key = tasks'[u].key => t = u
      BY <2>5, <3>1 DEF OneTaskEach
    <3>3. ASSUME NEW t \in DOMAIN tasks' PROVE Stems(t)'
      <4>1. CASE t = n
        BY <1>3, <2>2, <3>1, <4>1 DEF Stems, Open
      <4>2. CASE t # n
        BY <1>3, <3>1, <4>2 DEF Stems, Open, OneTaskEach
      <4>3. QED
        BY <4>1, <4>2
    <3>4. ASSUME NEW e \in Daemons PROVE Makes(e)'
      <4>1. CASE e = d
        BY <2>1, <2>5, <3>1, <4>1 DEF Makes
      <4>2. CASE e # d
        <5>1. Obeys(e) /\ Makes(e) /\ command'[e] = command[e]
          BY <2>1, <4>2 DEF Asked, OneTaskEach
        <5>2. command[e].pc \in Adapting /\ command[e].of = r => command[e].change = x
          BY <2>2, <5>1 DEF Obeys, Adapting
        <5>3. command'[e].pc \in Adapting =>
                \A t \in DOMAIN tasks' : tasks'[t].key = command'[e].of => tasks'[t].change = command'[e].change
          BY <3>1, <5>1, <5>2 DEF Makes
        <5>4. command'[e].pc = "link" => \E t \in DOMAIN tasks' : tasks'[t].key = command'[e].of
          BY <3>1, <5>1 DEF Makes
        <5>5. QED
          BY <5>3, <5>4 DEF Makes
      <4>3. QED
        BY <4>1, <4>2
    <3>5. QED
      BY <2>3, <3>2, <3>3, <3>4 DEF OneTaskEach
  <2>6. QED
    BY <1>3, <2>4, <2>5 DEF Mine
<1>4. QED
  BY <1>2, <1>3 DEF EnqueueTask, EndUnlinked

LEMMA Commands ==
  ASSUME LineageInv, LineageFits', [Next]_vars
  PROVE  Asked' /\ OneTaskEach'
<1>1. TasksOn
  BY TasksStay
<1>2. CASE Plain
  BY <1>1, <1>2, PlainSteps, CarriedOn, TasksStem
<1>3. CASE \E kind \in {"scan", "adapt", "ignore"}, c \in Changes \union {0} : Ask(kind, c)
  BY <1>1, <1>3, AskStep
<1>4. CASE \E d \in Daemons : Begin(d) \/ EnqueueTask(d)
  BY <1>1, <1>4, BeginStep, EnqueueStep
<1>5. QED
  BY <1>2, <1>3, <1>4 DEF Next, Handle, Plain

-----------------------------------------------------------------------------
(* One task for a change *)

(* Only an Adapt that looked makes a command ready to enqueue. *)
LEMMA Looks ==
  ASSUME LineageInv, LineageFits', [Next]_vars, NEW e \in Daemons, ~Adapt(e), command'[e].pc = "adapting"
  PROVE  command'[e] = command[e] \/ Reconcile(e)
<1> USE DEF LineageInv
<1>1. SUFFICES ASSUME command'[e] # command[e], ~Reconcile(e) PROVE FALSE
  OBVIOUS
<1>2. ASSUME NEW x, command' = [command EXCEPT ![e] = x] PROVE command'[e] = x
  BY <1>2 DEF LineageFits
<1>3. ASSUME NEW d \in Daemons, NEW x, command' = [command EXCEPT ![d] = x] PROVE d = e
  BY <1>1, <1>3 DEF LineageFits
<1>4. ~UNCHANGED command
  BY <1>1
<1>12. ASSUME NEW d \in Daemons, command' = [command EXCEPT ![d] = Idle] PROVE FALSE
  <2>1. d = e
    BY <1>3, <1>12
  <2>2. command'[e] = Idle
    BY <1>2, <1>12, <2>1
  <2>3. QED
    BY <1>1, <2>2 DEF Idle
<1>5. ASSUME NEW d \in Daemons, Done(d) PROVE FALSE
  BY <1>5, <1>12 DEF Done
<1>6. ASSUME NEW d \in Daemons, Begin(d) PROVE FALSE
  <2>1. PICK r \in DOMAIN requests :
          command' = [command EXCEPT ![d] = [Idle EXCEPT !.pc = requests[r].kind, !.of = r,
                                               !.change = requests[r].change,
                                               !.landed = {c \in Changes : Landed(c)}]]
    BY <1>6 DEF Begin
  <2> DEFINE x == [Idle EXCEPT !.pc = requests[r].kind, !.of = r,
                               !.change = requests[r].change,
                               !.landed = {c \in Changes : Landed(c)}]
  <2>2. command' = [command EXCEPT ![d] = x] /\ x.pc = requests[r].kind
    BY <2>1 DEF Idle
  <2> HIDE DEF x
  <2>3. d = e
    BY <1>3, <2>2
  <2>4. command'[e].pc = requests[r].kind
    BY <1>2, <2>2, <2>3
  <2>5. requests[r] \in Request
    BY DEF LineageFits
  <2>6. QED
    BY <1>1, <2>4, <2>5 DEF Request
<1>7. ASSUME NEW d \in Daemons, Reconcile(d) PROVE FALSE
  <2>1. PICK c \in command[d].landed : command' = [command EXCEPT ![d].landed = @ \ {c}]
    BY <1>7 DEF Reconcile
  <2>2. d = e
    BY <1>3, <2>1
  <2>3. QED
    BY <1>1, <1>7, <2>2
<1>8. ASSUME NEW d \in Daemons, ScanRead(d) PROVE FALSE
  <2>1. CASE command' = [command EXCEPT ![d] = [@ EXCEPT !.pc = "scanning", !.cursor = cursor, !.base = base,
                                                         !.candidates = candidates, !.latest = head]]
    <3> DEFINE x == [command[d] EXCEPT !.pc = "scanning", !.cursor = cursor, !.base = base,
                                       !.candidates = candidates, !.latest = head]
    <3>1. x.pc = "scanning"
      BY DEF LineageFits, Command
    <3>2. command' = [command EXCEPT ![d] = x]
      BY <2>1
    <3> HIDE DEF x
    <3>3. QED
      BY <1>2, <1>3, <3>1, <3>2
  <2>2. QED
    BY <1>5, <1>8, <2>1 DEF ScanRead
<1>9. ASSUME NEW d \in Daemons, ScanSave(d) PROVE FALSE
  <2> DEFINE x == [Idle EXCEPT !.pc = "enqueue", !.of = command[d].of]
  <2>1. command' = [command EXCEPT ![d] = x]
    BY <1>9 DEF ScanSave, Scanned
  <2>2. x.pc = "enqueue"
    BY DEF Idle
  <2> HIDE DEF x
  <2>3. QED
    BY <1>2, <1>3, <2>1, <2>2
<1>10. ASSUME NEW d \in Daemons, NEW pc \in {"link", "ignoring"}, command' = [command EXCEPT ![d].pc = pc]
       PROVE  FALSE
  <2>1. d = e
    BY <1>3, <1>10
  <2>2. command'[e].pc = pc
    BY <1>10, <2>1 DEF LineageFits, Command
  <2>3. QED
    BY <2>2
<1>11. ASSUME NEW d \in Daemons, Adapt(d) PROVE FALSE
  <2>1. CASE command' = [command EXCEPT ![d].pc = "adapting"]
    <3>1. d = e
      BY <1>3, <2>1
    <3>2. QED
      BY <1>11, <3>1
  <2>2. QED
    BY <1>5, <1>11, <2>1 DEF Adapt, EndUnlinked
<1>13. ASSUME NEW d \in Daemons, Handle(d) PROVE FALSE
  <2>1. CASE EnqueueAssessment(d) \/ Link(d) \/ Dismiss(d)
    BY <1>5, <2>1 DEF EnqueueAssessment, Link, EndUnlinked, Dismiss
  <2>2. CASE EnqueueTask(d) \/ Ignore(d)
    BY <1>5, <1>10, <2>2 DEF EnqueueTask, EndUnlinked, Ignore
  <2>3. CASE HandlerFails(d)
    BY <1>5, <1>12, <2>3 DEF HandlerFails, EndUnlinked
  <2>4. QED
    BY <1>6, <1>7, <1>8, <1>9, <1>11, <1>13, <2>1, <2>2, <2>3 DEF Handle
<1>14. ASSUME NEW d \in Daemons, Work(d) PROVE FALSE
  BY <1>4, <1>14, WorkerAside
<1>15. ASSUME NEW d \in Daemons, Stop(d) PROVE FALSE
  BY <1>12, <1>15 DEF Stop
<1>16. QED
  BY <1>4, <1>13, <1>14, <1>15 DEF Next, vars, doing, Publish, Takeover, Ask, TaskLands

(* What was written over, or left without a link, is remembered. *)
LEMMA AstrayStays ==
  ASSUME [Next]_vars
  PROVE  astray \subseteq astray'
<1>1. ASSUME NEW d \in Daemons, Handle(d) PROVE astray \subseteq astray'
  BY <1>1 DEF Handle, Begin, Reconcile, HandlerFails, ScanRead, ScanSave, Scanned, EnqueueAssessment, Adapt,
     EnqueueTask, Link, Ignore, Dismiss, EndUnlinked
<1>2. ASSUME NEW d \in Daemons, Work(d) PROVE astray \subseteq astray'
  BY <1>2, WorkerAside
<1>3. QED
  BY <1>1, <1>2 DEF Next, vars, Publish, Takeover, Ask, TaskLands, Stop

LEMMA Clears ==
  ASSUME LineageInv, LineageFits', [Next]_vars, NEW e \in Daemons
  PROVE  Clear(e)'
<1> USE DEF LineageInv
<1>1. SUFFICES ASSUME command'[e].pc = "adapting", e = epoch', command'[e].change \notin astray',
                      NEW t \in DOMAIN tasks', tasks'[t].change = command'[e].change
               PROVE  tasks'[t].key = command'[e].of
  BY DEF Clear
<1>2. command'[e].change \notin astray /\ TasksOn
  BY <1>1, AstrayStays, TasksStay
<1>3. CASE Adapt(e)
  <2>1. /\ command' = [command EXCEPT ![e].pc = "adapting"] /\ UNCHANGED <<tasks, epoch>>
        /\ candidates[command[e].change].status \in {"pending", "ignored"}
        /\ command[e].pc = "adapt"
    <3>1. command'[e].pc # Idle.pc
      BY <1>1 DEF Idle
    <3>2. ~EndUnlinked(e)
      BY <3>1 DEF EndUnlinked, Done, LineageFits
    <3>3. QED
      BY <1>3, <3>2 DEF Adapt, At
  <2>2. command'[e].change = command[e].change /\ command'[e].of = command[e].of
    BY <2>1 DEF LineageFits, Command
  <2>3. Holds(t) /\ Stems(t) /\ Obeys(e)
    BY <2>1 DEF OneTaskPerChange, OneTaskEach, Asked
  <2>4. Open(tasks[t].key) /\ Open(command[e].of) /\ command[e].of \in DOMAIN requests
    BY <1>1, <1>2, <2>1, <2>2, <2>3 DEF Holds, Linked, Obeys
  <2>5. tasks[t].key = command[e].of
    BY <2>3, <2>4 DEF Asked, LastOpen, Stems
  <2>6. QED
    BY <2>1, <2>2, <2>5
<1>4. CASE ~Adapt(e)
  <2>1. command'[e] = command[e] \/ Reconcile(e)
    BY <1>1, <1>4, Looks
  <2>2. /\ command'[e].pc = command[e].pc /\ command'[e].change = command[e].change
        /\ command'[e].of = command[e].of
    <3>1. CASE Reconcile(e)
      BY <3>1 DEF Reconcile, LineageFits, Command
    <3>2. QED
      BY <2>1, <3>1
  <2>3. e = epoch
    <3>1. Obeys(e) /\ command[e].pc # "idle"
      BY <1>1, <2>2 DEF Asked
    <3>2. CASE Takeover
      BY <1>1, <3>1, <3>2 DEF Takeover, Obeys, Daemons, LineageFits
    <3>3. CASE epoch' = epoch
      BY <1>1, <3>3
    <3>4. ASSUME NEW d \in Daemons, Handle(d) PROVE epoch' = epoch
      BY <3>4 DEF Handle, Begin, Reconcile, HandlerFails, ScanRead, ScanSave, Scanned, EnqueueAssessment, Adapt,
         EnqueueTask, Link, Ignore, Dismiss
    <3>5. ASSUME NEW d \in Daemons, Work(d) PROVE epoch' = epoch
      BY <3>5, WorkerAside
    <3>6. QED
      BY <3>2, <3>3, <3>4, <3>5 DEF Next, vars, Publish, Ask, TaskLands, Stop
  <2>4. t \in DOMAIN tasks
    <3>1. ASSUME NEW d \in Daemons, EnqueueTask(d) PROVE DOMAIN tasks' = DOMAIN tasks
      <4>1. CASE d = e /\ command' = [command EXCEPT ![d].pc = "link"]
        BY <1>1, <4>1 DEF LineageFits, Command
      <4>2. QED
        BY <2>3, <3>1, <4>1 DEF EnqueueTask
    <3>2. CASE Plain
      BY <3>2, PlainSteps
    <3>3. ASSUME NEW d \in Daemons, Begin(d) PROVE DOMAIN tasks' = DOMAIN tasks
      BY <3>3 DEF Begin
    <3>4. QED
      BY <3>1, <3>2, <3>3 DEF Next, Handle, Plain, Ask
  <2>5. QED
    BY <1>1, <1>2, <2>2, <2>3, <2>4 DEF OneTaskPerChange, Clear, TasksOn
<1>5. QED
  BY <1>3, <1>4

(* After the step. *)
IsLinked(c) == candidates'[c].status \in {"linked", "adopted"}

LEMMA TasksOfChanges ==
  ASSUME LineageInv
  PROVE  \A t \in DOMAIN tasks : tasks[t].change \in Changes /\ tasks[t].key \in DOMAIN requests
<1>1. ASSUME NEW t \in DOMAIN tasks PROVE tasks[t] \in Task
  BY DEF LineageInv, LineageFits
<1>2. QED
  BY <1>1 DEF LineageInv, Task, OneTaskEach, Stems

LEMMA HoldsOn ==
  ASSUME LineageInv, TasksOn, DOMAIN tasks' = DOMAIN tasks, astray \subseteq astray',
         \A d \in Daemons : Clear(d)',
         \A t \in DOMAIN tasks : tasks[t].change \in astray'
           \/ /\ Linked(tasks[t].change) => IsLinked(tasks[t].change)
              /\ Open(tasks[t].key) => requests'[tasks[t].key] # Answered \/ IsLinked(tasks[t].change)
  PROVE  OneTaskPerChange'
<1> USE DEF LineageInv
<1>1. ASSUME NEW t \in DOMAIN tasks PROVE Holds(t)'
  <2>1. /\ tasks'[t].change = tasks[t].change /\ tasks'[t].key = tasks[t].key
        /\ Holds(t)
    BY DEF TasksOn, OneTaskPerChange
  <2>2. QED
    BY <2>1 DEF Holds, IsLinked, Linked, Open
<1>2. QED
  BY <1>1 DEF OneTaskPerChange, TasksOn

(* The end of a command opens the way to none for the task of another. *)
LEMMA OpenStays ==
  ASSUME LineageInv, NEW d \in Daemons, command[d].pc # "idle", Done(d), NEW t \in DOMAIN tasks,
         Open(tasks[t].key), d # epoch \/ KindOf(command[d].pc) # "adapt" \/ tasks[t].key # command[d].of
  PROVE  requests'[tasks[t].key] # Answered
<1> USE DEF LineageInv
<1>1. Stems(t) /\ Obeys(d)
  BY DEF OneTaskEach, Asked
<1>2. CASE d # epoch
  BY <1>2 DEF Done, Open
<1>3. CASE d = epoch
  <2>1. tasks[t].key # command[d].of
    BY <1>1, <1>3 DEF Stems, Obeys
  <2>2. QED
    BY <1>1, <2>1 DEF Done, Stems, Open
<1>4. QED
  BY <1>2, <1>3

(* A command that ends leaves its task linked, or astray. *)
LEMMA EndHolds ==
  ASSUME LineageInv, LineageFits', [Next]_vars, NEW d \in Daemons, command[d].pc # "idle", EndUnlinked(d),
         UNCHANGED candidates, DOMAIN tasks' = DOMAIN tasks
  PROVE  OneTaskPerChange'
<1> USE DEF LineageInv
<1>1. Done(d) /\ astray \subseteq astray' /\ TasksOn /\ \A e \in Daemons : Clear(e)'
  BY TasksStay, Clears DEF EndUnlinked
<1>2. ASSUME NEW t \in DOMAIN tasks, Open(tasks[t].key)
      PROVE  \/ tasks[t].change \in astray' \/ requests'[tasks[t].key] # Answered \/ IsLinked(tasks[t].change)
  <2>1. CASE d # epoch \/ KindOf(command[d].pc) # "adapt" \/ tasks[t].key # command[d].of
    BY <1>1, <1>2, <2>1, OpenStays
  <2>2. CASE d = epoch /\ KindOf(command[d].pc) = "adapt" /\ tasks[t].key = command[d].of
    <3>1. command[d] \in Command /\ Makes(d)
      BY DEF LineageFits, OneTaskEach
    <3>2. tasks[t].change = command[d].change
      BY <2>2, <3>1, Kinds DEF Makes
    <3>3. Mine(d) # {}
      BY <2>2 DEF Mine
    <3>4. QED
      BY <2>2, <3>2, <3>3 DEF EndUnlinked, IsLinked, Linked
  <2>3. QED
    BY <2>1, <2>2
<1>3. \A c \in Changes : Linked(c) => IsLinked(c)
  BY DEF IsLinked, Linked
<1>4. QED
  BY <1>1, <1>2, <1>3, TasksOfChanges, HoldsOn

LEMMA LinkHolds ==
  ASSUME LineageInv, LineageFits', [Next]_vars, NEW d \in Daemons, Link(d)
  PROVE  OneTaskPerChange'
<1> USE DEF LineageInv
<1> DEFINE x == CHOOSE i \in DOMAIN tasks : tasks[i].key = command[d].of
           c == command[d].change
<1>1. command[d].pc = "link"
  BY DEF Link, At
<1>2. x \in DOMAIN tasks /\ tasks[x].key = command[d].of
  BY <1>1 DEF OneTaskEach, Makes
<1>3. tasks[x].change = c /\ c \in Changes
  BY <1>1, <1>2 DEF OneTaskEach, Makes, Asked, Obeys, Adapting
<1>4. CASE candidates[c].status = "absent"
  <2>1. /\ tasks' = [tasks EXCEPT ![x].status = IF @ = "queued" /\ d = epoch THEN "cancelled" ELSE @]
        /\ EndUnlinked(d) /\ UNCHANGED candidates
    BY <1>4 DEF Link
  <2> HIDE DEF x, c
  <2>2. DOMAIN tasks' = DOMAIN tasks
    BY <2>1
  <2>3. QED
    BY <1>1, <2>1, <2>2, EndHolds
<1>5. CASE candidates[c].status # "absent"
  <2>1. /\ candidates' = [candidates EXCEPT ![c].status = "linked", ![c].task = x]
        /\ Done(d) /\ UNCHANGED <<tasks, astray>>
    BY <1>5 DEF Link
  <2> HIDE DEF x, c
  <2>2. /\ candidates'[c].status = "linked"
        /\ \A e \in Changes \ {c} : candidates'[e] = candidates[e]
    BY <1>3, <2>1 DEF LineageFits, Inbox, Candidate
  <2>3. ASSUME NEW t \in DOMAIN tasks
        PROVE  /\ Linked(tasks[t].change) => IsLinked(tasks[t].change)
               /\ Open(tasks[t].key) => requests'[tasks[t].key] # Answered \/ IsLinked(tasks[t].change)
    <3>1. CASE t = x
      BY <1>3, <2>2, <3>1 DEF IsLinked, Linked
    <3>2. CASE t # x
      <4>1. tasks[t].key # command[d].of
        BY <1>2, <3>2 DEF OneTaskEach
      <4>2. Open(tasks[t].key) => requests'[tasks[t].key] # Answered
        BY <1>1, <2>1, <4>1, OpenStays
      <4>3. tasks[t].change \in Changes
        BY TasksOfChanges
      <4>4. QED
        BY <2>2, <4>2, <4>3 DEF IsLinked, Linked
    <3>3. QED
      BY <3>1, <3>2
  <2>4. TasksOn /\ \A e \in Daemons : Clear(e)'
    BY TasksStay, Clears
  <2>5. QED
    BY <2>1, <2>3, <2>4, HoldsOn
<1>6. QED
  BY <1>4, <1>5

LEMMA EnqueueHolds ==
  ASSUME LineageInv, LineageFits', [Next]_vars, NEW d \in Daemons, EnqueueTask(d)
  PROVE  OneTaskPerChange'
<1> USE DEF LineageInv
<1> DEFINE c == command[d].change
<1>1. candidates' = candidates /\ command[d].pc = "adapting" /\ Obeys(d) /\ Makes(d)
  BY DEF EnqueueTask, At, inbox, Asked, OneTaskEach
<1>2. TasksOn /\ \A e \in Daemons : Clear(e)'
  BY TasksStay, Clears
<1>3. CASE UNCHANGED <<tasks, requests, astray>>
  BY <1>1, <1>2, <1>3, HoldsOn DEF Open, IsLinked, Linked
<1>4. CASE EndUnlinked(d) /\ UNCHANGED tasks
  BY <1>1, <1>4, EndHolds
<1>5. CASE /\ d = epoch
           /\ \A t \in DOMAIN tasks : tasks[t].key # command[d].of
           /\ tasks' = Append(tasks, [change |-> c, key |-> command[d].of, status |-> "queued"])
           /\ UNCHANGED <<requests, astray>>
  <2> DEFINE n == Len(tasks) + 1
  <2>1. /\ DOMAIN tasks' = DOMAIN tasks \union {n} /\ n \notin DOMAIN tasks
        /\ tasks'[n].change = c /\ tasks'[n].key = command[d].of
        /\ \A t \in DOMAIN tasks : tasks'[t] = tasks[t]
    <3>1. tasks \in Seq(Task)
      BY DEF LineageFits
    <3>2. QED
      BY <1>5, <3>1
  <2>2. Open(command[d].of) /\ command[d].of \in DOMAIN requests
    BY <1>1, <1>5 DEF Obeys
  <2> HIDE DEF n
  <2>3. ASSUME c \notin astray, NEW t \in DOMAIN tasks PROVE tasks[t].change # c
    BY <1>1, <1>5, <2>3 DEF OneTaskPerChange, Clear
  <2>4. ASSUME NEW t \in DOMAIN tasks', NEW u \in DOMAIN tasks',
               tasks'[t].change = tasks'[u].change, tasks'[t].change \notin astray'
        PROVE  t = u
    BY <1>5, <2>1, <2>3, <2>4 DEF OneTaskPerChange
  <2>5. ASSUME NEW t \in DOMAIN tasks' PROVE Holds(t)'
    <3>1. CASE t = n
      BY <1>1, <1>5, <2>1, <2>2, <3>1 DEF Holds, Open
    <3>2. CASE t # n
      <4>1. Holds(t) /\ tasks'[t] = tasks[t]
        BY <2>1, <3>2 DEF OneTaskPerChange
      <4>2. QED
        BY <1>1, <1>5, <4>1 DEF Holds, Open, IsLinked, Linked
    <3>3. QED
      BY <3>1, <3>2
  <2>6. QED
    BY <1>2, <2>4, <2>5 DEF OneTaskPerChange
<1>6. QED
  BY <1>3, <1>4, <1>5 DEF EnqueueTask, Mine

LEMMA ScanHolds ==
  ASSUME LineageInv, LineageFits', [Next]_vars, NEW d \in Daemons, ScanSave(d)
  PROVE  OneTaskPerChange'
<1> USE DEF LineageInv
<1>1. PICK merged : candidates' = merged /\ astray' = astray \union Overlaid(merged)
  BY DEF ScanSave, Scanned
<1>2. UNCHANGED <<tasks, requests>>
  BY DEF ScanSave, Scanned
<1>3. ASSUME NEW t \in DOMAIN tasks, Linked(tasks[t].change)
      PROVE  tasks[t].change \in astray' \/ IsLinked(tasks[t].change)
  <2>1. tasks[t].change \in Changes
    BY TasksOfChanges
  <2>2. QED
    BY <1>1, <1>3, <2>1 DEF Overlaid, Decided, IsLinked, Linked
<1>4. TasksOn /\ \A e \in Daemons : Clear(e)'
  BY TasksStay, Clears
<1>5. QED
  BY <1>1, <1>2, <1>3, <1>4, HoldsOn DEF Open

LEMMA Chosen ==
  ASSUME LineageInv, LineageFits', [Next]_vars
  PROVE  OneTaskPerChange'
<1> USE DEF LineageInv
<1>1. TasksOn /\ astray \subseteq astray' /\ \A d \in Daemons : Clear(d)'
  BY TasksStay, AstrayStays, Clears
<1>2. \A t \in DOMAIN tasks : tasks[t].change \in Changes /\ tasks[t].key \in DOMAIN requests
  BY TasksOfChanges
<1>3. ASSUME DOMAIN tasks' = DOMAIN tasks,
             \A t \in DOMAIN tasks : Open(tasks[t].key) => requests'[tasks[t].key] # Answered,
             \A c \in Changes : candidates'[c].status = candidates[c].status
      PROVE  OneTaskPerChange'
  BY <1>1, <1>2, <1>3, HoldsOn DEF IsLinked, Linked
<1>4. CASE /\ UNCHANGED <<candidates, requests>> /\ DOMAIN tasks' = DOMAIN tasks
  BY <1>3, <1>4 DEF Open
<1>5. ASSUME NEW kind \in {"scan", "adapt", "ignore"}, NEW c \in Changes \union {0}, Ask(kind, c)
      PROVE  OneTaskPerChange'
  <2>1. /\ UNCHANGED <<candidates, tasks>>
        /\ requests' = Append(requests, [kind |-> kind, change |-> c, by |-> 0])
    BY <1>5 DEF Ask, inbox
  <2>2. ASSUME NEW t \in DOMAIN tasks, Open(tasks[t].key) PROVE requests'[tasks[t].key] # Answered
    <3>1. tasks[t].key \in 1..Len(requests)
      BY <1>2 DEF LineageFits
    <3>2. QED
      BY <2>1, <2>2, <3>1 DEF Open, LineageFits
  <2>3. QED
    BY <1>3, <2>1, <2>2
<1>6. ASSUME NEW d \in Daemons, command[d].pc # "idle", KindOf(command[d].pc) # "adapt" \/ d # epoch,
             Done(d) \/ UNCHANGED requests, UNCHANGED <<candidates, tasks>>
      PROVE  OneTaskPerChange'
  <2>1. \A t \in DOMAIN tasks : Open(tasks[t].key) => requests'[tasks[t].key] # Answered
    BY <1>6, OpenStays DEF Open
  <2>2. QED
    BY <1>3, <1>6, <2>1
<1>7. ASSUME NEW r \in DOMAIN requests, NEW by, Open(r),
             requests' = [requests EXCEPT ![r] = [requests[r] EXCEPT !.by = by]],
             UNCHANGED <<candidates, tasks>>
      PROVE  OneTaskPerChange'
  <2>1. requests[r] \in Request /\ requests[r].kind # "answered"
    BY <1>7 DEF LineageFits, Asked, LastOpen
  <2>2. requests'[r].kind = requests[r].kind
    BY <1>7, <2>1 DEF Request
  <2>3. requests'[r] # Answered
    BY <2>1, <2>2 DEF Answered
  <2>4. \A t \in DOMAIN tasks : Open(tasks[t].key) => requests'[tasks[t].key] # Answered
    BY <1>2, <1>7, <2>3 DEF Open
  <2>5. QED
    BY <1>3, <1>7, <2>4
<1>8. ASSUME NEW d \in Daemons, Begin(d) PROVE OneTaskPerChange'
  <2>1. PICK r \in DOMAIN requests : requests[r] # Answered /\ requests' = [requests EXCEPT ![r].by = d]
    BY <1>8 DEF Begin
  <2>2. QED
    BY <1>7, <1>8, <2>1 DEF Begin, inbox, Open
<1>9. ASSUME NEW d \in Daemons, Reconcile(d) PROVE OneTaskPerChange'
  <2>1. ASSUME NEW c \in Changes, Linked(c) PROVE IsLinked(c)
    <3>1. PICK x \in command[d].landed :
            candidates' = candidates \/ candidates' = [candidates EXCEPT ![x].status = "adopted"]
      BY <1>9 DEF Reconcile
    <3>2. candidates'[c].status \in {candidates[c].status, "adopted"}
      BY <3>1 DEF LineageFits, Inbox, Candidate
    <3>3. QED
      BY <2>1, <3>2 DEF IsLinked, Linked
  <2>2. UNCHANGED <<tasks, requests>>
    BY <1>9 DEF Reconcile
  <2>3. QED
    BY <1>1, <1>2, <2>1, <2>2, HoldsOn DEF Open
<1>10. ASSUME NEW d \in Daemons, HandlerFails(d) PROVE OneTaskPerChange'
  <2>1. command[d].pc # "idle" /\ UNCHANGED <<candidates, tasks>> /\ Obeys(d)
    BY <1>10 DEF HandlerFails, inbox, Asked
  <2>2. CASE EndUnlinked(d)
    BY <2>1, <2>2, EndHolds
  <2>3. CASE d = epoch /\ requests' = [requests EXCEPT ![command[d].of].by = 0]
    <3>1. command[d].of \in DOMAIN requests /\ Open(command[d].of)
      BY <2>1, <2>3 DEF Obeys
    <3>2. requests' = [requests EXCEPT ![command[d].of] = [requests[command[d].of] EXCEPT !.by = 0]]
      BY <2>3
    <3>3. QED
      BY <1>7, <2>1, <3>1, <3>2
  <2>4. CASE requests' = requests
    BY <1>4, <2>1, <2>4
  <2>5. QED
    BY <1>10, <2>2, <2>3, <2>4 DEF HandlerFails
<1>11. ASSUME NEW d \in Daemons, ScanRead(d) \/ EnqueueAssessment(d) \/ Ignore(d) PROVE OneTaskPerChange'
  <2>1. command[d].pc # "idle" /\ KindOf(command[d].pc) # "adapt" /\ UNCHANGED <<candidates, tasks>>
    BY <1>11 DEF ScanRead, EnqueueAssessment, Ignore, At, KindOf, Adapting, inbox
  <2>2. Done(d) \/ UNCHANGED requests
    BY <1>11 DEF ScanRead, EnqueueAssessment, Ignore
  <2>3. QED
    BY <1>6, <2>1, <2>2
<1>12. ASSUME NEW d \in Daemons, Adapt(d) PROVE OneTaskPerChange'
  <2>1. command[d].pc # "idle" /\ UNCHANGED <<candidates, tasks>>
    BY <1>12 DEF Adapt, At, inbox
  <2>2. CASE EndUnlinked(d)
    BY <2>1, <2>2, EndHolds
  <2>3. CASE UNCHANGED requests
    BY <1>4, <2>1, <2>3
  <2>4. QED
    BY <1>12, <2>2, <2>3 DEF Adapt
<1>13. ASSUME NEW d \in Daemons, Dismiss(d) PROVE OneTaskPerChange'
  <2>1. command[d].pc = "ignoring" /\ Done(d) /\ UNCHANGED tasks
    BY <1>13 DEF Dismiss, At
  <2>2. KindOf("ignoring") # "adapt"
    BY DEF KindOf, Adapting
  <2>3. \A t \in DOMAIN tasks : Open(tasks[t].key) => requests'[tasks[t].key] # Answered
    BY <2>1, <2>2, OpenStays
  <2>4. ASSUME NEW c \in Changes, Linked(c) PROVE c \in astray' \/ IsLinked(c)
    <3>1. CASE c # command[d].change
      <4>1. candidates'[c] = candidates[c]
        BY <1>13, <3>1 DEF Dismiss, LineageFits, Inbox
      <4>2. QED
        BY <2>4, <4>1 DEF IsLinked, Linked
    <3>2. CASE c = command[d].change
      BY <1>13, <2>4, <3>2 DEF Dismiss, IsLinked, Linked
    <3>3. QED
      BY <3>1, <3>2
  <2>5. QED
    BY <1>1, <1>2, <2>1, <2>3, <2>4, HoldsOn
<1>14. ASSUME NEW d \in Daemons, Work(d) PROVE OneTaskPerChange'
  <2>1. UNCHANGED <<tasks, requests>> /\ Assesses
    BY <1>14, WorkerAside
  <2>2. \A c \in Changes : candidates'[c].status = candidates[c].status
    BY <2>1, AssessesKeeps
  <2>3. QED
    BY <1>3, <2>1, <2>2 DEF Open
<1>15. ASSUME NEW t \in DOMAIN tasks, TaskLands(t) PROVE OneTaskPerChange'
  <2>1. DOMAIN tasks' = DOMAIN tasks
    BY <1>15 DEF TaskLands
  <2>2. QED
    BY <1>4, <1>15, <2>1 DEF TaskLands, inbox
<1>16. CASE UNCHANGED vars \/ Publish \/ Takeover \/ \E d \in Daemons : Stop(d)
  BY <1>4, <1>16 DEF vars, Publish, Takeover, Stop, inbox
<1>17. ASSUME NEW d \in Daemons, ScanSave(d) \/ EnqueueTask(d) \/ Link(d) PROVE OneTaskPerChange'
  BY <1>17, ScanHolds, EnqueueHolds, LinkHolds
<1>18. QED
  BY <1>5, <1>8, <1>9, <1>10, <1>11, <1>12, <1>13, <1>14, <1>15, <1>16, <1>17 DEF Next, Handle

-----------------------------------------------------------------------------
(* Theorems *)

LEMMA Initially == Init => LineageInv
<1> SUFFICES ASSUME Init PROVE LineageInv
  OBVIOUS
<1> USE DEF Init
<1>1. LineageFits
  <2>1. candidates \in Inbox
    BY DEF Inbox, Candidate, Absent
  <2>2. command \in [Daemons -> Command]
    BY IdleFits
  <2>3. head \in 0..MaxChanges /\ cursor \in Nat /\ base \in Nat /\ epoch \in Daemons
    <3>1. MaxChanges \in Nat /\ MaxDaemons \in Nat \ {0}
      BY LineageAssumption
    <3>2. QED
      BY <3>1 DEF Daemons
  <2>4. tasks \in Seq(Task) /\ requests \in Seq(Request) /\ astray \subseteq Changes
    OBVIOUS
  <2>5. QED
    BY <2>1, <2>2, <2>3, <2>4 DEF LineageFits
<1>2. \A d \in Daemons : /\ command[d].pc = "idle" /\ command[d].cursor = 0 /\ command[d].base = 0
                         /\ command[d].latest = 0
  BY DEF Idle
<1>3. Seen
  BY <1>2 DEF Seen, Covers
<1>4. Asked /\ OneTaskEach /\ OneTaskPerChange
  BY <1>2 DEF Asked, LastOpen, Obeys, OneTaskEach, Makes, OneTaskPerChange, Clear, Adapting
<1>5. QED
  BY <1>1, <1>3, <1>4 DEF LineageInv

LEMMA Inductive == LineageInv /\ [Next]_vars => LineageInv'
<1> SUFFICES ASSUME LineageInv, [Next]_vars PROVE LineageInv'
  OBVIOUS
<1>1. LineageFits' /\ Seen'
  BY Fits, Sees
<1>2. Asked' /\ OneTaskEach'
  BY <1>1, Commands
<1>3. OneTaskPerChange'
  BY <1>1, Chosen
<1>4. QED
  BY <1>1, <1>2, <1>3 DEF LineageInv

LEMMA Always == Spec => []LineageInv
BY Initially, Inductive, PTL DEF Spec

(* Every change from the first that was listed up to the cursor is in the  *)
(* inbox: a scan that fails half way, or runs beside that of another       *)
(* daemon, skips none.                                                     *)
THEOREM NothingMissedCorrect == Spec => []NothingMissed
<1>1. LineageInv => NothingMissed
  BY DEF LineageInv, Seen, Covers, NothingMissed
<1>2. QED
  BY <1>1, Always, PTL

(* A change has one task, to which it is linked while no command on it is  *)
(* open, however many daemons repeat the command, unless a decision on it  *)
(* was written over or its command was given up before the link.           *)
THEOREM DecisionsCorrect == Spec => []DecisionsKept
<1>1. LineageInv => DecisionsKept
  BY DEF DecisionsKept, LineageInv, OneTaskPerChange, Holds, Open
<1>2. QED
  BY <1>1, Always, PTL
=============================================================================
