-------------------------- MODULE TaskRunnerProofs --------------------------
(***************************************************************************)
(* Proofs about TaskQueue and TaskRunner, for any number of tasks, runs    *)
(* and epochs: first the queue, whose specification is Spec, then the      *)
(* daemon that drives it, whose specification is RunnerSpec.               *)
(***************************************************************************)
EXTENDS TaskRunner, FiniteSetTheorems, TLAPS

(* Lists: what is in them, and that nothing is in them twice *)

(* A concatenation has the elements of both lists, and repeats none when   *)
(* the lists repeat none and share none.                                   *)
LEMMA ConcatElements ==
  ASSUME NEW S, NEW s \in Seq(S), NEW t \in Seq(S)
  PROVE  /\ s \o t \in Seq(S)
         /\ Range(s \o t) = Range(s) \union Range(t)
         /\ IsInjective(s) /\ IsInjective(t) /\ Range(s) \cap Range(t) = {}
              => IsInjective(s \o t)
<1> DEFINE u == s \o t
<1>1. u \in Seq(S) /\ Len(u) = Len(s) + Len(t)
  OBVIOUS
<1>2. \A i \in 1..Len(s) : u[i] = s[i]
  OBVIOUS
<1>3. \A i \in 1..Len(t) : u[Len(s) + i] = t[i]
  OBVIOUS
<1>4. /\ DOMAIN s = 1..Len(s) /\ DOMAIN t = 1..Len(t)
      /\ DOMAIN u = 1..(Len(s) + Len(t))
      /\ Len(s) \in Nat /\ Len(t) \in Nat
  BY <1>1
<1>5. \A i \in DOMAIN u : i \in DOMAIN s \/ \E k \in DOMAIN t : i = Len(s) + k
  <2> SUFFICES ASSUME NEW i \in DOMAIN u, i \notin DOMAIN s
               PROVE  \E k \in DOMAIN t : i = Len(s) + k
    OBVIOUS
  <2>1. i - Len(s) \in DOMAIN t /\ i = Len(s) + (i - Len(s))
    BY <1>4
  <2>2. QED
    BY <2>1
<1>6. Range(u) = Range(s) \union Range(t)
  <2>1. Range(u) \subseteq Range(s) \union Range(t)
    BY <1>2, <1>3, <1>4, <1>5 DEF Range
  <2>2. Range(s) \subseteq Range(u)
    BY <1>2, <1>4 DEF Range
  <2>3. Range(t) \subseteq Range(u)
    <3> SUFFICES ASSUME NEW k \in DOMAIN t
                 PROVE  \E i \in DOMAIN u : u[i] = t[k]
      BY DEF Range
    <3>1. Len(s) + k \in DOMAIN u
      BY <1>4
    <3>2. QED
      BY <1>3, <1>4, <3>1
  <2>4. QED
    BY <2>1, <2>2, <2>3
<1>7. ASSUME IsInjective(s), IsInjective(t), Range(s) \cap Range(t) = {}
      PROVE  IsInjective(u)
  <2> SUFFICES ASSUME NEW a \in DOMAIN u, NEW b \in DOMAIN u, u[a] = u[b]
               PROVE  a = b
    BY DEF IsInjective
  <2>0. \A i \in DOMAIN s, k \in DOMAIN t : s[i] # t[k]
    BY <1>7 DEF Range
  <2>1. CASE a \in DOMAIN s /\ b \in DOMAIN s
    BY <2>1, <1>2, <1>4, <1>7 DEF IsInjective
  <2>2. CASE a \in DOMAIN s /\ b \notin DOMAIN s
    BY <2>0, <2>2, <1>2, <1>3, <1>4, <1>5
  <2>3. CASE a \notin DOMAIN s /\ b \in DOMAIN s
    BY <2>0, <2>3, <1>2, <1>3, <1>4, <1>5
  <2>4. CASE a \notin DOMAIN s /\ b \notin DOMAIN s
    BY <2>4, <1>3, <1>4, <1>5, <1>7 DEF IsInjective
  <2>5. QED
    BY <2>1, <2>2, <2>3, <2>4
<1>8. QED
  BY <1>1, <1>6, <1>7

(* A one-element list. *)
LEMMA SingletonElements ==
  ASSUME NEW S, NEW e \in S
  PROVE  <<e>> \in Seq(S) /\ Range(<<e>>) = {e} /\ IsInjective(<<e>>)
  BY DEF Range, IsInjective

(* A new element in front. *)
LEMMA PrependElements ==
  ASSUME NEW S, NEW s \in Seq(S), NEW e \in S
  PROVE  /\ <<e>> \o s \in Seq(S)
         /\ Range(<<e>> \o s) = Range(s) \union {e}
         /\ IsInjective(s) /\ e \notin Range(s) => IsInjective(<<e>> \o s)
<1>1. <<e>> \in Seq(S) /\ Range(<<e>>) = {e} /\ IsInjective(<<e>>)
  BY SingletonElements
<1>2. /\ <<e>> \o s \in Seq(S)
      /\ Range(<<e>> \o s) = Range(<<e>>) \union Range(s)
      /\ IsInjective(<<e>>) /\ IsInjective(s) /\ Range(<<e>>) \cap Range(s) = {}
           => IsInjective(<<e>> \o s)
  BY <1>1, ConcatElements
<1>3. QED
  BY <1>1, <1>2

(* A new element at the end. *)
LEMMA AppendElements ==
  ASSUME NEW S, NEW s \in Seq(S), NEW e \in S
  PROVE  /\ Append(s, e) \in Seq(S)
         /\ Range(Append(s, e)) = Range(s) \union {e}
         /\ IsInjective(s) /\ e \notin Range(s) => IsInjective(Append(s, e))
<1>1. <<e>> \in Seq(S) /\ Range(<<e>>) = {e} /\ IsInjective(<<e>>)
  BY SingletonElements
<1>2. /\ s \o <<e>> \in Seq(S)
      /\ Range(s \o <<e>>) = Range(s) \union Range(<<e>>)
      /\ IsInjective(s) /\ IsInjective(<<e>>) /\ Range(s) \cap Range(<<e>>) = {}
           => IsInjective(s \o <<e>>)
  BY <1>1, ConcatElements
<1>3. Append(s, e) = s \o <<e>>
  OBVIOUS
<1>4. QED
  BY <1>1, <1>2, <1>3

(* Removing one position of a list without duplicates removes its element. *)
LEMMA RemoveElements ==
  ASSUME NEW S, NEW s \in Seq(S), NEW i \in DOMAIN s, IsInjective(s)
  PROVE  /\ RemoveAt(s, i) \in Seq(S)
         /\ Range(RemoveAt(s, i)) = Range(s) \ {s[i]}
         /\ IsInjective(RemoveAt(s, i))
<1> DEFINE p == SubSeq(s, 1, i - 1)
           q == SubSeq(s, i + 1, Len(s))
<1>0. DOMAIN s = 1..Len(s) /\ Len(s) \in Nat /\ i \in 1..Len(s)
  OBVIOUS
<1>1. /\ p \in Seq(S) /\ Len(p) = i - 1 /\ DOMAIN p = 1..(i - 1)
      /\ \A k \in 1..(i - 1) : p[k] = s[k]
  BY <1>0
<1>2. /\ q \in Seq(S) /\ Len(q) = Len(s) - i /\ DOMAIN q = 1..(Len(s) - i)
      /\ \A k \in 1..(Len(s) - i) : q[k] = s[i + k]
  BY <1>0
<1>3. RemoveAt(s, i) = p \o q
  BY DEF RemoveAt
<1>4. IsInjective(p)
  BY <1>0, <1>1 DEF IsInjective
<1>5. IsInjective(q)
  BY <1>0, <1>2 DEF IsInjective
<1>6. ASSUME NEW a \in DOMAIN p, NEW b \in DOMAIN q PROVE p[a] # q[b]
  <2>1. a \in DOMAIN s /\ i + b \in DOMAIN s /\ a # i + b
    <3>1. a \in 1..(i - 1) /\ b \in 1..(Len(s) - i)
      BY <1>1, <1>2
    <3>2. a \in 1..Len(s) /\ i + b \in 1..Len(s) /\ a # i + b
      BY <3>1, <1>0
    <3>3. QED
      BY <3>2, <1>0
  <2>2. p[a] = s[a] /\ q[b] = s[i + b]
    BY <1>1, <1>2
  <2>3. QED
    BY <2>1, <2>2 DEF IsInjective
<1>7. Range(p) \cap Range(q) = {}
  BY <1>6 DEF Range
<1>8. Range(p) \union Range(q) = Range(s) \ {s[i]}
  <2>1. ASSUME NEW k \in DOMAIN s, s[k] # s[i]
        PROVE  s[k] \in Range(p) \union Range(q)
    <3>1. CASE k < i
      BY <3>1, <1>0, <1>1 DEF Range
    <3>2. CASE k > i
      <4>1. k - i \in 1..(Len(s) - i) /\ i + (k - i) = k
        BY <3>2, <1>0
      <4>2. k - i \in DOMAIN q /\ q[k - i] = s[k]
        BY <4>1, <1>2
      <4>3. QED
        BY <4>2 DEF Range
    <3>3. QED
      BY <3>1, <3>2, <2>1, <1>0
  <2>2. ASSUME NEW k \in DOMAIN p PROVE p[k] \in Range(s) \ {s[i]}
    BY <1>0, <1>1 DEF Range, IsInjective
  <2>3. ASSUME NEW k \in DOMAIN q PROVE q[k] \in Range(s) \ {s[i]}
    <3>1. i + k \in DOMAIN s /\ i + k # i /\ q[k] = s[i + k]
      BY <1>0, <1>2
    <3>2. QED
      BY <3>1, <1>0 DEF Range, IsInjective
  <2>4. QED
    BY <2>1, <2>2, <2>3 DEF Range
<1>9. /\ p \o q \in Seq(S)
      /\ Range(p \o q) = Range(p) \union Range(q)
      /\ IsInjective(p \o q)
  <2>1. p \in Seq(S) /\ q \in Seq(S)
    BY <1>1, <1>2
  <2> HIDE DEF p, q
  <2>2. QED
    BY <2>1, <1>4, <1>5, <1>7, ConcatElements
<1>10. QED
  BY <1>3, <1>8, <1>9

-----------------------------------------------------------------------------
(* The part of TypeOK about the queue, and the part about the rest. *)
QueueType ==
  /\ job \in [Ids -> JobRecord]
  /\ pending \in Seq(Ids) /\ paused \in Seq(Ids)
  /\ running \in 0..MaxTasks
  /\ history \in SUBSET Ids
  /\ nextId \in 1..(MaxTasks + 1)

RestType ==
  /\ request \in Request
  /\ live \in SUBSET Workers
  /\ renewed \in BOOLEAN
  /\ pauses \in [Ids -> Nat]

Inv == TypeOK /\ Placement

LEMMA TypeParts == TypeOK <=> QueueType /\ RestType
  BY DEF TypeOK, QueueType, RestType

(* The set {j} when the condition holds. *)
When(b, j) == IF b THEN {j} ELSE {}

(* A transaction that gives one task a new record and files it where the   *)
(* record's status says keeps every task in its place.                     *)
LEMMA Moved ==
  ASSUME QueueType, Placement,
         NEW j \in Ids, NEW r \in JobRecord,
         job' = [job EXCEPT ![j] = r],
         r.status # "absent",
         \/ nextId' = nextId /\ Status(j) # "absent"
         \/ nextId' = nextId + 1 /\ j = nextId,
         pending' \in Seq(Ids), IsInjective(pending'),
         Range(pending') = (Range(pending) \ {j}) \union When(r.status = "pending", j),
         paused' \in Seq(Ids), IsInjective(paused'),
         Range(paused') = (Range(paused) \ {j}) \union When(r.status = "paused", j),
         r.status = "running" => running \in {0, j},
         running' = IF r.status = "running" THEN j ELSE IF running = j THEN 0 ELSE running,
         history' = (history \ {j}) \union When(r.status \in Terminal, j)
  PROVE  QueueType' /\ Placement'
<1>0. MaxTasks \in Nat
  BY ConstantsAssumption
<1>1. QueueType'
  <2>1. job' \in [Ids -> JobRecord]
    BY DEF QueueType
  <2>2. running' \in 0..MaxTasks
    BY <1>0 DEF QueueType, Ids
  <2>3. history' \in SUBSET Ids
    BY DEF QueueType, When
  <2>4. nextId' \in 1..(MaxTasks + 1)
    BY <1>0 DEF QueueType, Ids
  <2>5. QED
    BY <2>1, <2>2, <2>3, <2>4 DEF QueueType
<1>2. \A k \in Ids : Status(k)' = IF k = j THEN r.status ELSE Status(k)
  BY DEF QueueType, Status
<1>3. ASSUME NEW k \in Ids
      PROVE  /\ k \in Range(pending') <=> Status(k)' = "pending"
             /\ k \in Range(paused')  <=> Status(k)' = "paused"
             /\ k = running'          <=> Status(k)' = "running"
             /\ k \in history'        <=> Status(k)' \in Terminal
             /\ k >= nextId'          <=> Status(k)' = "absent"
  <2>0. /\ k \in Range(pending) <=> Status(k) = "pending"
        /\ k \in Range(paused)  <=> Status(k) = "paused"
        /\ k = running          <=> Status(k) = "running"
        /\ k \in history        <=> Status(k) \in Terminal
        /\ k >= nextId          <=> Status(k) = "absent"
        /\ j >= nextId          <=> Status(j) = "absent"
        /\ j = running          <=> Status(j) = "running"
    BY DEF Placement
  <2>1. k \in Range(pending') <=> Status(k)' = "pending"
    BY <1>2, <2>0 DEF When
  <2>2. k \in Range(paused') <=> Status(k)' = "paused"
    BY <1>2, <2>0 DEF When
  <2>3. k = running' <=> Status(k)' = "running"
    BY <1>0, <1>2, <2>0 DEF Ids
  <2>4. k \in history' <=> Status(k)' \in Terminal
    BY <1>2, <2>0 DEF When
  <2>5. k >= nextId' <=> Status(k)' = "absent"
    BY <1>0, <1>2, <2>0 DEF Ids, QueueType
  <2>6. QED
    BY <2>1, <2>2, <2>3, <2>4, <2>5
<1>4. Placement'
  BY <1>3 DEF Placement
<1>5. QED
  BY <1>1, <1>4

(* A transaction that rewrites a task's record and leaves it where it is.  *)
LEMMA Rewritten ==
  ASSUME QueueType, Placement,
         NEW j \in Ids, NEW r \in JobRecord,
         job' = [job EXCEPT ![j] = r],
         Status(j) # "absent",
         r.status = Status(j) \/ {r.status, Status(j)} \subseteq Terminal,
         UNCHANGED <<pending, paused, running, history, nextId>>
  PROVE  QueueType' /\ Placement'
<1>1. /\ j \in Range(pending) <=> r.status = "pending"
      /\ j \in Range(paused)  <=> r.status = "paused"
      /\ j = running          <=> r.status = "running"
      /\ j \in history        <=> r.status \in Terminal
      /\ r.status # "absent"
  BY DEF Placement, Terminal, Verdicts, Repaired
<1>2. /\ pending' \in Seq(Ids) /\ IsInjective(pending')
      /\ paused' \in Seq(Ids) /\ IsInjective(paused')
      /\ Range(pending') = (Range(pending) \ {j}) \union When(r.status = "pending", j)
      /\ Range(paused') = (Range(paused) \ {j}) \union When(r.status = "paused", j)
      /\ history' = (history \ {j}) \union When(r.status \in Terminal, j)
  BY <1>1 DEF QueueType, Placement, When
<1>3. 0 \notin Ids
  BY DEF Ids
<1>4. /\ running' = IF r.status = "running" THEN j ELSE IF running = j THEN 0 ELSE running
      /\ r.status = "running" => running \in {0, j}
  BY <1>1
<1>5. QED
  BY <1>1, <1>2, <1>4, Moved

-----------------------------------------------------------------------------
(* One lemma for the actions that create a task. *)
LEMMA CreatedPlaced ==
  ASSUME Inv, NEW r \in JobRecord, Create(r),
         \/ /\ r.status = "pending"
            /\ pending' = Append(pending, nextId) \/ pending' = <<nextId>> \o pending
            /\ running' = running
         \/ /\ r.status = "running" /\ running = 0
            /\ pending' = pending
            /\ running' = nextId
  PROVE  Inv'
<1>0. QueueType /\ RestType /\ Placement
  BY TypeParts DEF Inv
<1>1. /\ nextId \in Ids /\ job' = [job EXCEPT ![nextId] = r] /\ nextId' = nextId + 1
      /\ UNCHANGED <<paused, history>> /\ UNCHANGED <<request, live, renewed, pauses>>
  BY DEF Create
<1>2. Status(nextId) = "absent"
  BY <1>0, <1>1 DEF Placement, QueueType, Ids
<1>3. /\ nextId \notin Range(pending) /\ nextId \notin Range(paused)
      /\ nextId # running /\ nextId \notin history
  BY <1>0, <1>1, <1>2 DEF Placement, Terminal, Verdicts, Repaired
<1>4. /\ pending' \in Seq(Ids) /\ IsInjective(pending')
      /\ Range(pending') = (Range(pending) \ {nextId}) \union When(r.status = "pending", nextId)
  <2>1. pending \in Seq(Ids) /\ IsInjective(pending)
    BY <1>0 DEF QueueType, Placement
  <2>2. CASE pending' = Append(pending, nextId) /\ r.status = "pending"
    BY <2>1, <2>2, <1>1, <1>3, AppendElements DEF When
  <2>3. CASE pending' = <<nextId>> \o pending /\ r.status = "pending"
    BY <2>1, <2>3, <1>1, <1>3, PrependElements DEF When
  <2>4. CASE pending' = pending /\ r.status = "running"
    BY <2>1, <2>4, <1>3 DEF When
  <2>5. QED
    BY <2>2, <2>3, <2>4
<1>5. /\ paused' \in Seq(Ids) /\ IsInjective(paused')
      /\ Range(paused') = (Range(paused) \ {nextId}) \union When(r.status = "paused", nextId)
      /\ history' = (history \ {nextId}) \union When(r.status \in Terminal, nextId)
  BY <1>0, <1>1, <1>3 DEF QueueType, Placement, When, Terminal, Verdicts, Repaired
<1>6. /\ r.status # "absent" /\ (r.status = "running" => running \in {0, nextId})
      /\ running' = IF r.status = "running" THEN nextId
                    ELSE IF running = nextId THEN 0 ELSE running
  BY <1>3
<1>7. QueueType' /\ Placement'
  BY <1>0, <1>1, <1>4, <1>5, <1>6, Moved
<1>8. RestType'
  BY <1>0, <1>1 DEF RestType
<1>9. QED
  BY <1>7, <1>8, TypeParts DEF Inv, TypeOK, QueueType, RestType

(* A step that rewrites the record of one task in place. *)
LEMMA RewrittenInv ==
  ASSUME Inv, NEW j \in Ids, NEW r \in JobRecord,
         job' = [job EXCEPT ![j] = r],
         Status(j) # "absent",
         r.status = Status(j) \/ {r.status, Status(j)} \subseteq Terminal,
         UNCHANGED <<pending, paused, running, history, nextId>>,
         RestType'
  PROVE  Inv'
<1>1. QueueType /\ Placement
  BY TypeParts DEF Inv
<1>2. QueueType' /\ Placement'
  BY <1>1, Rewritten
<1>3. QED
  BY <1>2 DEF Inv, TypeOK, QueueType, RestType

(* A step that moves one task which already exists. *)
LEMMA MovedInv ==
  ASSUME Inv, NEW j \in Ids, NEW r \in JobRecord,
         job' = [job EXCEPT ![j] = r],
         r.status # "absent", Status(j) # "absent", nextId' = nextId,
         pending' \in Seq(Ids), IsInjective(pending'),
         Range(pending') = (Range(pending) \ {j}) \union When(r.status = "pending", j),
         paused' \in Seq(Ids), IsInjective(paused'),
         Range(paused') = (Range(paused) \ {j}) \union When(r.status = "paused", j),
         r.status = "running" => running \in {0, j},
         running' = IF r.status = "running" THEN j ELSE IF running = j THEN 0 ELSE running,
         history' = (history \ {j}) \union When(r.status \in Terminal, j),
         RestType'
  PROVE  Inv'
<1>1. QueueType /\ Placement
  BY TypeParts DEF Inv
<1>2. QueueType' /\ Placement'
  BY <1>1, Moved
<1>3. QED
  BY <1>2 DEF Inv, TypeOK, QueueType, RestType

(* What Inv says of the task a step is about. *)
LEMMA Whereabouts ==
  ASSUME Inv, NEW j \in Ids
  PROVE  /\ job[j] \in JobRecord /\ job[j].status = Status(j)
         /\ pending \in Seq(Ids) /\ IsInjective(pending)
         /\ paused \in Seq(Ids) /\ IsInjective(paused)
         /\ history \subseteq Ids
         /\ RestType
         /\ j # 0
         /\ j \in Range(pending) <=> Status(j) = "pending"
         /\ j \in Range(paused)  <=> Status(j) = "paused"
         /\ j = running          <=> Status(j) = "running"
         /\ j \in history        <=> Status(j) \in Terminal
<1>1. j # 0
  BY DEF Ids
<1>2. QED
  BY <1>1, TypeParts DEF Inv, QueueType, Placement, Status

(* The running task leaves for the history, the queue or the paused list.  *)
LEMMA RunningLeaves ==
  ASSUME Inv, running # 0, NEW r \in JobRecord,
         job' = [job EXCEPT ![running] = r],
         running' = 0, nextId' = nextId, RestType',
         \/ /\ r.status \in Terminal
            /\ history' = history \union {running} /\ UNCHANGED <<pending, paused>>
         \/ /\ r.status = "pending"
            /\ pending' = <<running>> \o pending /\ UNCHANGED <<history, paused>>
         \/ /\ r.status = "paused"
            /\ paused' = Append(paused, running) /\ UNCHANGED <<history, pending>>
  PROVE  Inv'
<1>0. running \in Ids /\ r.status \notin {"absent", "running"}
  BY TypeParts DEF Inv, QueueType, Ids, Terminal, Verdicts, Repaired
<1>1. /\ pending \in Seq(Ids) /\ IsInjective(pending) /\ running \notin Range(pending)
      /\ paused \in Seq(Ids) /\ IsInjective(paused) /\ running \notin Range(paused)
      /\ Status(running) = "running" /\ running \notin history
  BY <1>0, Whereabouts DEF Terminal, Verdicts, Repaired
<1>2. /\ pending' \in Seq(Ids) /\ IsInjective(pending')
      /\ Range(pending') = (Range(pending) \ {running}) \union When(r.status = "pending", running)
  <2>1. CASE r.status = "pending"
    <3>1. pending' = <<running>> \o pending
      BY <2>1 DEF Terminal, Verdicts, Repaired
    <3>2. QED
      BY <3>1, <2>1, <1>0, <1>1, PrependElements DEF When
  <2>2. CASE r.status # "pending"
    BY <2>2, <1>1 DEF When
  <2>3. QED
    BY <2>1, <2>2
<1>3. /\ paused' \in Seq(Ids) /\ IsInjective(paused')
      /\ Range(paused') = (Range(paused) \ {running}) \union When(r.status = "paused", running)
  <2>1. CASE r.status = "paused"
    <3>1. paused' = Append(paused, running)
      BY <2>1 DEF Terminal, Verdicts, Repaired
    <3>2. QED
      BY <3>1, <2>1, <1>0, <1>1, AppendElements DEF When
  <2>2. CASE r.status # "paused"
    BY <2>2, <1>1 DEF When
  <2>3. QED
    BY <2>1, <2>2
<1>4. history' = (history \ {running}) \union When(r.status \in Terminal, running)
  BY <1>1 DEF When, Terminal, Verdicts, Repaired
<1>5. QED
  BY <1>0, <1>1, <1>2, <1>3, <1>4, MovedInv

(* A waiting task leaves its list. *)
LEMMA PendingLeaves ==
  ASSUME Inv, NEW i \in DOMAIN pending, NEW r \in JobRecord,
         job' = [job EXCEPT ![pending[i]] = r],
         pending' = RemoveAt(pending, i), nextId' = nextId, RestType',
         \/ /\ r.status \in Terminal
            /\ history' = history \union {pending[i]} /\ UNCHANGED <<running, paused>>
         \/ /\ r.status = "running" /\ running = 0
            /\ running' = pending[i] /\ UNCHANGED <<history, paused>>
         \/ /\ r.status = "paused"
            /\ paused' = Append(paused, pending[i]) /\ UNCHANGED <<history, running>>
  PROVE  Inv'
<1> DEFINE j == pending[i]
<1>0. j \in Ids /\ j \in Range(pending) /\ r.status \notin {"absent", "pending"}
  BY TypeParts DEF Inv, QueueType, Range, Terminal, Verdicts, Repaired
<1> HIDE DEF j
<1>1. /\ pending \in Seq(Ids) /\ IsInjective(pending)
      /\ paused \in Seq(Ids) /\ IsInjective(paused) /\ j \notin Range(paused)
      /\ Status(j) = "pending" /\ j \notin history /\ j # running
  BY <1>0, Whereabouts DEF Terminal, Verdicts, Repaired
<1>2. /\ pending' \in Seq(Ids) /\ IsInjective(pending')
      /\ Range(pending') = (Range(pending) \ {j}) \union When(r.status = "pending", j)
  BY <1>0, <1>1, RemoveElements DEF When, j
<1>3. /\ paused' \in Seq(Ids) /\ IsInjective(paused')
      /\ Range(paused') = (Range(paused) \ {j}) \union When(r.status = "paused", j)
  <2>1. CASE r.status = "paused"
    <3>1. paused' = Append(paused, j)
      BY <2>1 DEF j, Terminal, Verdicts, Repaired
    <3>2. QED
      BY <3>1, <2>1, <1>0, <1>1, AppendElements DEF When
  <2>2. CASE r.status # "paused"
    BY <2>2, <1>1 DEF When
  <2>3. QED
    BY <2>1, <2>2
<1>4. /\ history' = (history \ {j}) \union When(r.status \in Terminal, j)
      /\ r.status = "running" => running \in {0, j}
      /\ running' = IF r.status = "running" THEN j ELSE IF running = j THEN 0 ELSE running
  BY <1>1 DEF When, Terminal, Verdicts, Repaired, j
<1>5. job' = [job EXCEPT ![j] = r]
  BY DEF j
<1>6. QED
  BY <1>0, <1>1, <1>2, <1>3, <1>4, <1>5, MovedInv

(* A paused task leaves its list. *)
LEMMA PausedLeaves ==
  ASSUME Inv, NEW i \in DOMAIN paused, NEW r \in JobRecord,
         job' = [job EXCEPT ![paused[i]] = r],
         paused' = RemoveAt(paused, i), nextId' = nextId, running' = running, RestType',
         \/ /\ r.status \in Terminal
            /\ history' = history \union {paused[i]} /\ pending' = pending
         \/ /\ r.status = "pending"
            /\ pending' = <<paused[i]>> \o pending /\ history' = history
  PROVE  Inv'
<1> DEFINE j == paused[i]
<1>0. j \in Ids /\ j \in Range(paused) /\ r.status \notin {"absent", "paused", "running"}
  BY TypeParts DEF Inv, QueueType, Range, Terminal, Verdicts, Repaired
<1> HIDE DEF j
<1>1. /\ pending \in Seq(Ids) /\ IsInjective(pending) /\ j \notin Range(pending)
      /\ paused \in Seq(Ids) /\ IsInjective(paused)
      /\ Status(j) = "paused" /\ j \notin history /\ j # running
  BY <1>0, Whereabouts DEF Terminal, Verdicts, Repaired
<1>2. /\ paused' \in Seq(Ids) /\ IsInjective(paused')
      /\ Range(paused') = (Range(paused) \ {j}) \union When(r.status = "paused", j)
  BY <1>0, <1>1, RemoveElements DEF When, j
<1>3. /\ pending' \in Seq(Ids) /\ IsInjective(pending')
      /\ Range(pending') = (Range(pending) \ {j}) \union When(r.status = "pending", j)
  <2>1. CASE r.status = "pending"
    <3>1. pending' = <<j>> \o pending
      BY <2>1 DEF j, Terminal, Verdicts, Repaired
    <3>2. QED
      BY <3>1, <2>1, <1>0, <1>1, PrependElements DEF When
  <2>2. CASE r.status # "pending"
    BY <2>2, <1>1 DEF When
  <2>3. QED
    BY <2>1, <2>2
<1>4. /\ history' = (history \ {j}) \union When(r.status \in Terminal, j)
      /\ running' = IF r.status = "running" THEN j ELSE IF running = j THEN 0 ELSE running
  BY <1>0, <1>1 DEF When, Terminal, Verdicts, Repaired, j
<1>5. job' = [job EXCEPT ![j] = r]
  BY DEF j
<1>6. QED
  BY <1>0, <1>1, <1>2, <1>3, <1>4, <1>5, MovedInv

-----------------------------------------------------------------------------
(* Records *)

(* An unused record. *)
LEMMA AbsentTyped == Absent \in JobRecord /\ Absent.status = "absent"
<1>1. MaxTasks \in Nat /\ 0 \in 0..MaxTasks /\ 0 \in 0..2 /\ 0 \in Nat
  BY ConstantsAssumption
<1>2. "absent" \in {"absent", "pending", "paused", "running"} \union Terminal
  OBVIOUS
<1>3. QED
  BY <1>1, <1>2 DEF Absent, JobRecord, Stages, Reviews

(* A record with another status. *)
LEMMA StatusTyped ==
  ASSUME NEW r \in JobRecord,
         NEW s \in {"absent", "pending", "paused", "running"} \union Terminal
  PROVE  [r EXCEPT !.status = s] \in JobRecord /\ [r EXCEPT !.status = s].status = s
<1>1. [r EXCEPT !.status = s] \in JobRecord
  BY DEF JobRecord
<1>2. [r EXCEPT !.status = s].status = s
  BY DEF JobRecord
<1>3. QED
  BY <1>1, <1>2

(* A record whose owner is cleared. *)
LEMMA DisownedTyped ==
  ASSUME NEW r \in JobRecord
  PROVE  Disowned(r) \in JobRecord /\ Disowned(r).status = r.status
<1>1. 0 \in 0..2 /\ NoWorker \in Workers \union {NoWorker}
  OBVIOUS
<1>2. Disowned(r) \in JobRecord
  BY <1>1 DEF JobRecord, Disowned
<1>3. Disowned(r).status = r.status
  BY DEF JobRecord, Disowned
<1>4. QED
  BY <1>2, <1>3

(* Initially every id is unused. *)
LEMMA InitInv == Init => Inv
<1> SUFFICES ASSUME Init PROVE Inv
  OBVIOUS
<1>1. Absent \in JobRecord
  BY AbsentTyped
<1>2. pending = <<>> /\ paused = <<>> /\ running = 0 /\ history = {} /\ nextId = 1
  BY DEF Init
<1>3. /\ Range(<<>>) = {} /\ IsInjective(<<>>) /\ <<>> \in Seq(Ids)
  BY DEF Range, IsInjective
<1>4. QueueType
  BY <1>1, <1>2, <1>3, ConstantsAssumption DEF QueueType, Init
<1>5. RestType
  <2>1. MaxTasks \in Nat /\ 0 \in 0..MaxTasks /\ 0 \in 0..2 /\ 0 \in Nat
    BY ConstantsAssumption
  <2>2. Unfenced \in Request
    BY <2>1 DEF Request, Unfenced
  <2>3. QED
    BY <2>1, <2>2 DEF RestType, Init
<1>6. \A j \in Ids : Status(j) = "absent" /\ j # 0 /\ j >= 1
  <2> SUFFICES ASSUME NEW j \in Ids PROVE Status(j) = "absent" /\ j # 0 /\ j >= 1
    OBVIOUS
  <2>1. job[j] = Absent
    BY DEF Init
  <2>2. QED
    BY <2>1, AbsentTyped, ConstantsAssumption DEF Status, Ids
<1>7. Placement
  BY <1>2, <1>3, <1>6 DEF Placement, Terminal, Verdicts, Repaired
<1>8. QED
  BY <1>4, <1>5, <1>7, TypeParts DEF Inv

LEMMA SubmitInv == ASSUME Inv, Submit PROVE Inv'
<1>1. PICK key \in Keys \union {NoKey} :
        \/ \E lane \in Lanes \union {NoLane} : Enqueue(key, lane)
        \/ EnqueueFront(key)
        \/ BeginDirect(key)
  BY DEF Submit
<1>2. ASSUME NEW lane \in Lanes \union {NoLane}, Enqueue(key, lane) PROVE Inv'
  <2> DEFINE r == [Absent EXCEPT !.status = "pending", !.key = key, !.lane = lane]
  <2>1. r \in JobRecord /\ r.status = "pending"
    BY AbsentTyped DEF JobRecord
  <2>2. Create(r) /\ pending' = Append(pending, nextId) /\ running' = running
    BY <1>2 DEF Enqueue
  <2> HIDE DEF r
  <2>3. QED
    BY <2>1, <2>2, CreatedPlaced
<1>3. ASSUME EnqueueFront(key) PROVE Inv'
  <2> DEFINE r == [Absent EXCEPT !.status = "pending", !.key = key]
  <2>1. r \in JobRecord /\ r.status = "pending"
    BY AbsentTyped DEF JobRecord
  <2>2. Create(r) /\ pending' = <<nextId>> \o pending /\ running' = running
    BY <1>3 DEF EnqueueFront
  <2> HIDE DEF r
  <2>3. QED
    BY <2>1, <2>2, CreatedPlaced
<1>4. ASSUME BeginDirect(key) PROVE Inv'
  <2> DEFINE r == [Absent EXCEPT !.status = "running", !.key = key, !.attempt = 1]
  <2>1. r \in JobRecord /\ r.status = "running"
    BY AbsentTyped DEF JobRecord
  <2>2. Create(r) /\ pending' = pending /\ running = 0 /\ running' = nextId
    BY <1>4 DEF BeginDirect
  <2> HIDE DEF r
  <2>3. QED
    BY <2>1, <2>2, CreatedPlaced
<1>5. QED
  BY <1>1, <1>2, <1>3, <1>4

LEMMA BeginNextInv == ASSUME Inv, BeginNext PROVE Inv'
<1>1. PICK i \in DOMAIN pending :
        /\ running' = pending[i] /\ pending' = RemoveAt(pending, i)
        /\ job' = [job EXCEPT ![pending[i]] =
                     [job[pending[i]] EXCEPT !.status = "running", !.attempt = @ + 1,
                                             !.due = TRUE]]
  BY DEF BeginNext
<1> DEFINE old == job[pending[i]]
           r == [old EXCEPT !.status = "running", !.attempt = @ + 1, !.due = TRUE]
<1>2. pending[i] \in Ids
  BY TypeParts DEF Inv, QueueType
<1>3. old \in JobRecord
  BY <1>2, Whereabouts
<1>4. r \in JobRecord /\ r.status = "running"
  <2> HIDE DEF old
  <2>1. old.attempt \in Nat
    BY <1>3 DEF JobRecord
  <2>2. old.attempt + 1 \in Nat
    BY <2>1
  <2>3. r \in JobRecord
    BY <1>3, <2>2 DEF JobRecord
  <2>4. r.status = "running"
    BY <1>3 DEF JobRecord
  <2>5. QED
    BY <2>3, <2>4
<1>5. running = 0 /\ nextId' = nextId /\ UNCHANGED <<history, paused>> /\ RestType'
  BY <1>2, Whereabouts DEF BeginNext, RestType
<1>6. QED
  <2> SUFFICES ASSUME NEW x, x = r PROVE Inv'
    OBVIOUS
  <2>1. x \in JobRecord /\ x.status = "running" /\ job' = [job EXCEPT ![pending[i]] = x]
    BY <1>1, <1>4
  <2> HIDE DEF r, old
  <2>2. QED
    BY <1>1, <1>5, <2>1, PendingLeaves

LEMMA RetryFailedInv == ASSUME Inv, NEW j \in Ids, RetryFailed(j) PROVE Inv'
<1> DEFINE old == job[j]
           r == [Absent EXCEPT !.status = "pending", !.lane = old.lane, !.parent = j,
                               !.stage = old.stage, !.review = old.review]
<1>1. old \in JobRecord
  BY Whereabouts
<1>2. j \in 0..MaxTasks
  BY ConstantsAssumption DEF Ids
<1>3. r \in JobRecord /\ r.status = "pending"
  <2> HIDE DEF old
  <2>1. old.lane \in Lanes \union {NoLane} /\ old.stage \in Stages /\ old.review \in Reviews
    BY <1>1 DEF JobRecord
  <2>2. r \in JobRecord
    BY <1>2, <2>1, AbsentTyped DEF JobRecord
  <2>3. r.status = "pending"
    BY AbsentTyped DEF JobRecord
  <2>4. QED
    BY <2>2, <2>3
<1>4. Create(r) /\ pending' = Append(pending, nextId) /\ running' = running
  BY DEF RetryFailed
<1> HIDE DEF r
<1>5. QED
  BY <1>3, <1>4, CreatedPlaced

-----------------------------------------------------------------------------
(* The actions that leave a task where it is *)

LEMMA BecomeDueInv == ASSUME Inv, NEW j \in Ids, BecomeDue(j) PROVE Inv'
<1> DEFINE old == job[j]
           r == [old EXCEPT !.due = TRUE]
<1>1. old \in JobRecord /\ old.status = Status(j) /\ Status(j) = "pending" /\ RestType
  BY Whereabouts DEF BecomeDue
<1>2. /\ job' = [job EXCEPT ![j] = r]
      /\ UNCHANGED <<pending, paused, running, history, nextId>>
      /\ UNCHANGED <<request, live, renewed, pauses>>
  BY DEF BecomeDue
<1>3. RestType'
  BY <1>1, <1>2 DEF RestType
<1> HIDE DEF old
<1>4. r \in JobRecord
  BY <1>1 DEF JobRecord
<1>5. r.status = old.status
  BY <1>1 DEF JobRecord
<1> HIDE DEF r
<1>6. QED
  BY <1>1, <1>2, <1>3, <1>4, <1>5, RewrittenInv

(* Claims and heartbeats. *)
LEMMA LeaseInv ==
  ASSUME Inv, running # 0, NEW w \in Workers, Lease(w) PROVE Inv'
<1> DEFINE old == job[running]
           r == [old EXCEPT !.worker = w, !.lease = FreshLease]
<1>0. running \in Ids
  BY TypeParts DEF Inv, QueueType, Ids
<1>1. old \in JobRecord /\ old.status = Status(running) /\ Status(running) = "running" /\ RestType
  BY <1>0, Whereabouts
<1>2. /\ job' = [job EXCEPT ![running] = r]
      /\ UNCHANGED <<pending, paused, running, history, nextId>>
      /\ UNCHANGED <<request, live, pauses>>
      /\ renewed' \in BOOLEAN
  BY DEF Lease
<1>3. RestType'
  BY <1>1, <1>2 DEF RestType
<1>4. FreshLease \in 0..2
  BY DEF FreshLease
<1> HIDE DEF old
<1>5. r \in JobRecord
  BY <1>1, <1>4 DEF JobRecord
<1>6. r.status = old.status
  BY <1>1 DEF JobRecord
<1> HIDE DEF r
<1>7. QED
  BY <1>0, <1>1, <1>2, <1>3, <1>5, <1>6, RewrittenInv

(* Records, and the repairs of a completed task. *)
LEMMA ChangeJobInv ==
  ASSUME Inv, NEW j \in Ids, NEW r \in JobRecord, ChangeJob(j, r),
         Status(j) # "absent",
         r.status = Status(j) \/ {r.status, Status(j)} \subseteq Terminal
  PROVE  Inv'
<1>1. /\ job' = [job EXCEPT ![j] = r]
      /\ UNCHANGED <<pending, paused, running, history, nextId>>
      /\ UNCHANGED <<request, live, renewed, pauses>>
  BY DEF ChangeJob
<1>2. RestType'
  BY <1>1, Whereabouts DEF RestType
<1>3. QED
  BY <1>1, <1>2, RewrittenInv

LEMMA RecordsInv ==
  ASSUME Inv, NEW j \in Ids, NEW w \in Workers,
         \/ \E p \in Publications : RecordPublication(j, w, p[1], p[2])
         \/ \E v \in Evidence : RecordTerminalEvidence(j, w, v)
  PROVE  Inv'
<1> DEFINE old == job[j]
<1>1. old \in JobRecord /\ old.status = Status(j) /\ Status(j) = "running"
  BY Whereabouts DEF RecordPublication, RecordTerminalEvidence, Owns
<1>2. ASSUME NEW p \in Publications, RecordPublication(j, w, p[1], p[2]) PROVE Inv'
  <2> DEFINE r == [old EXCEPT !.stage = p[1], !.review = p[2]]
  <2>1. p[1] \in Stages /\ p[2] \in Reviews
    BY ConstantsAssumption DEF Stages, Reviews
  <2>2. ChangeJob(j, r)
    BY <1>2 DEF RecordPublication
  <2> HIDE DEF old
  <2>3. r \in JobRecord
    BY <1>1, <2>1 DEF JobRecord
  <2>4. r.status = old.status
    BY <1>1 DEF JobRecord
  <2> HIDE DEF r
  <2>5. QED
    BY <1>1, <2>2, <2>3, <2>4, ChangeJobInv
<1>3. ASSUME NEW v \in Evidence, RecordTerminalEvidence(j, w, v) PROVE Inv'
  <2> DEFINE r == [old EXCEPT !.verdict = v]
  <2>1. v \in Verdicts
    BY ConstantsAssumption DEF Verdicts
  <2>2. ChangeJob(j, r)
    BY <1>3 DEF RecordTerminalEvidence
  <2> HIDE DEF old
  <2>3. r \in JobRecord
    BY <1>1, <2>1 DEF JobRecord
  <2>4. r.status = old.status
    BY <1>1 DEF JobRecord
  <2> HIDE DEF r
  <2>5. QED
    BY <1>1, <2>2, <2>3, <2>4, ChangeJobInv
<1>4. QED
  BY <1>2, <1>3

LEMMA RepairsInv ==
  ASSUME Inv, NEW j \in Ids,
         Regress(j) \/ \E x \in {"reverted", "forward-fixed"} : Resolve(j, x)
  PROVE  Inv'
<1> DEFINE old == job[j]
<1>1. old \in JobRecord /\ old.status = Status(j) /\ Status(j) \in Terminal /\ Status(j) # "absent"
  BY Whereabouts DEF Regress, Resolve, Terminal, Verdicts, Repaired
<1>2. PICK x \in Repaired : ChangeJob(j, [old EXCEPT !.status = x])
  BY DEF Regress, Resolve, Repaired
<1> DEFINE r == [old EXCEPT !.status = x]
<1>3. x \in Terminal
  BY DEF Terminal
<1>4. ChangeJob(j, r)
  BY <1>2
<1> HIDE DEF old
<1>5. r \in JobRecord /\ r.status = x
  BY <1>1, <1>3, StatusTyped
<1> HIDE DEF r
<1>6. QED
  BY <1>1, <1>3, <1>4, <1>5, ChangeJobInv

-----------------------------------------------------------------------------
(* The actions by which the running task leaves *)

LEMMA RunningTask ==
  ASSUME Inv, running # 0
  PROVE  /\ running \in Ids /\ job[running] \in JobRecord
         /\ job[running].status = "running" /\ RestType
<1>1. running \in Ids
  BY TypeParts DEF Inv, QueueType, Ids
<1>2. QED
  BY <1>1, Whereabouts

LEMMA RetireInv ==
  ASSUME Inv, running # 0, NEW v \in Terminal,
         Retire(running, [job[running] EXCEPT !.status = v]),
         request' \in Request
  PROVE  Inv'
<1> DEFINE old == job[running]
           r == Disowned([old EXCEPT !.status = v])
<1>1. old \in JobRecord /\ RestType
  BY RunningTask
<1>2. /\ job' = [job EXCEPT ![running] = r]
      /\ running' = 0 /\ history' = history \union {running}
      /\ UNCHANGED <<pending, paused, nextId>> /\ UNCHANGED <<live, renewed, pauses>>
  BY DEF Retire
<1>3. RestType'
  BY <1>1, <1>2 DEF RestType
<1> HIDE DEF old
<1>4. r \in JobRecord /\ r.status = v
  BY <1>1, StatusTyped, DisownedTyped
<1> HIDE DEF r
<1>5. QED
  BY <1>2, <1>3, <1>4, RunningLeaves

(* A retry by the owner, and the requeue of an interrupted task. *)
LEMMA RequeueInv ==
  ASSUME Inv, running # 0, NEW x \in JobRecord, Requeue(running, x),
         request' \in Request
  PROVE  Inv'
<1> DEFINE r == Disowned([x EXCEPT !.status = "pending"])
<1>1. RestType
  BY RunningTask
<1>2. /\ job' = [job EXCEPT ![running] = r]
      /\ running' = 0 /\ pending' = <<running>> \o pending
      /\ UNCHANGED <<history, paused, nextId>> /\ UNCHANGED <<live, renewed, pauses>>
  BY DEF Requeue
<1>3. RestType'
  BY <1>1, <1>2 DEF RestType
<1>4. r \in JobRecord /\ r.status = "pending"
  BY StatusTyped, DisownedTyped
<1> HIDE DEF r
<1>5. QED
  BY <1>2, <1>3, <1>4, RunningLeaves

LEMMA PauseInv ==
  ASSUME Inv, NEW j \in Ids, running = j,
         job' = [job EXCEPT ![j] =
                   Disowned([job[j] EXCEPT !.status = "paused", !.verdict = "none"])],
         running' = 0, paused' = Append(paused, j),
         pauses' = [pauses EXCEPT ![j] = @ + 1],
         UNCHANGED <<pending, history, nextId, request, live, renewed>>
  PROVE  Inv'
<1> DEFINE old == job[j]
           x == [old EXCEPT !.status = "paused", !.verdict = "none"]
           r == Disowned(x)
<1>0. running # 0
  BY Whereabouts
<1>1. old \in JobRecord /\ RestType
  BY <1>0, RunningTask
<1>2. RestType'
  <2>1. pauses' \in [Ids -> Nat]
    BY <1>1 DEF RestType
  <2>2. QED
    BY <1>1, <2>1 DEF RestType
<1>3. job' = [job EXCEPT ![j] = r]
  OBVIOUS
<1> HIDE DEF old
<1>4. x \in JobRecord
  BY <1>1 DEF JobRecord
<1>5. x.status = "paused"
  BY <1>1 DEF JobRecord
<1> HIDE DEF x
<1>6. r \in JobRecord /\ r.status = "paused"
  BY <1>4, <1>5, DisownedTyped
<1> HIDE DEF r
<1>7. QED
  BY <1>0, <1>2, <1>3, <1>6, RunningLeaves

LEMMA OwnInv == ASSUME Inv, NEW j \in Ids, NEW w \in Workers, Own(j, w) PROVE Inv'
<1>0. j # 0
  BY Whereabouts
<1>1. CASE Claim(j, w) \/ Heartbeat(j, w)
  BY <1>0, <1>1, LeaseInv DEF Claim, Claimable, Heartbeat, Owns
<1>2. CASE \/ \E p \in Publications : RecordPublication(j, w, p[1], p[2])
           \/ \E v \in Evidence : RecordTerminalEvidence(j, w, v)
  BY <1>2, RecordsInv
<1>3. ASSUME NEW v \in Verdicts, Finish(j, w, v) PROVE Inv'
  <2>1. v \in Terminal /\ running = j /\ request' = request
        /\ Retire(running, [job[running] EXCEPT !.status = v])
    BY <1>3 DEF Finish, Owns, Terminal
  <2>2. request' \in Request
    BY <1>0, <2>1, RunningTask DEF RestType
  <2>3. QED
    BY <1>0, <2>1, <2>2, RetireInv
<1>4. CASE RetryRunning(j, w)
  <2> DEFINE old == job[j]
             x == [old EXCEPT !.due = FALSE, !.verdict = "none"]
  <2>1. running = j /\ running # 0 /\ Requeue(running, x) /\ request' = request
    BY <1>0, <1>4 DEF RetryRunning, Owns
  <2>2. old \in JobRecord /\ RestType
    BY <2>1, RunningTask
  <2> HIDE DEF old
  <2>3. x \in JobRecord
    BY <2>2 DEF JobRecord
  <2> HIDE DEF x
  <2>4. QED
    BY <2>1, <2>2, <2>3, RequeueInv DEF RestType
<1>5. CASE PauseRunning(j, w)
  BY <1>5, PauseInv DEF PauseRunning, Owns
<1>6. QED
  BY <1>1, <1>2, <1>3, <1>4, <1>5 DEF Own

-----------------------------------------------------------------------------
(* The actions on waiting tasks *)

(* What leaves a list: its record with status s, and perhaps no owner. *)
LEMMA PendingLeavesAs ==
  ASSUME Inv, NEW j \in Ids, NEW r \in JobRecord,
         \E i \in DOMAIN pending : pending[i] = j /\ pending' = RemoveAt(pending, i),
         job' = [job EXCEPT ![j] = r],
         UNCHANGED <<running, nextId, request, live, renewed, pauses>>,
         \/ /\ r.status = "cancelled"
            /\ history' = history \union {j} /\ paused' = paused
         \/ /\ r.status = "paused"
            /\ paused' = Append(paused, j) /\ history' = history
  PROVE  Inv'
<1>1. PICK i \in DOMAIN pending : pending[i] = j /\ pending' = RemoveAt(pending, i)
  OBVIOUS
<1>2. RestType'
  BY Whereabouts DEF RestType
<1>3. "cancelled" \in Terminal
  BY DEF Terminal, Verdicts
<1>4. QED
  BY <1>1, <1>2, <1>3, PendingLeaves

LEMMA PausedLeavesAs ==
  ASSUME Inv, NEW j \in Ids, NEW r \in JobRecord,
         \E i \in DOMAIN paused : paused[i] = j /\ paused' = RemoveAt(paused, i),
         job' = [job EXCEPT ![j] = r],
         UNCHANGED <<running, nextId, request, live, renewed, pauses>>,
         \/ /\ r.status = "cancelled"
            /\ history' = history \union {j} /\ pending' = pending
         \/ /\ r.status = "pending"
            /\ pending' = <<j>> \o pending /\ history' = history
  PROVE  Inv'
<1>1. PICK i \in DOMAIN paused : paused[i] = j /\ paused' = RemoveAt(paused, i)
  OBVIOUS
<1>2. RestType'
  BY Whereabouts DEF RestType
<1>3. "cancelled" \in Terminal
  BY DEF Terminal, Verdicts
<1>4. QED
  BY <1>1, <1>2, <1>3, PausedLeaves

LEMMA AskInv == ASSUME Inv, NEW j \in Ids, Ask(j) PROVE Inv'
<1> DEFINE old == job[j]
<1>0. old \in JobRecord /\ RestType /\ j # 0
  BY Whereabouts
<1>1. CASE RetryFailed(j)
  BY <1>1, RetryFailedInv
<1>2. CASE PauseQueued(j)
  <2> DEFINE x == [old EXCEPT !.status = "paused", !.verdict = "none"]
             r == Disowned(x)
  <2>1. /\ \E i \in DOMAIN pending : pending[i] = j /\ pending' = RemoveAt(pending, i)
        /\ job' = [job EXCEPT ![j] = r]
        /\ UNCHANGED <<running, nextId, request, live, renewed, pauses>>
        /\ paused' = Append(paused, j) /\ history' = history
    BY <1>2 DEF PauseQueued
  <2> HIDE DEF old
  <2>2. x \in JobRecord
    BY <1>0 DEF JobRecord
  <2>3. x.status = "paused"
    BY <1>0 DEF JobRecord
  <2> HIDE DEF x
  <2>4. r \in JobRecord /\ r.status = "paused"
    BY <2>2, <2>3, DisownedTyped
  <2> HIDE DEF r
  <2>5. QED
    BY <2>1, <2>4, PendingLeavesAs
<1>3. CASE PauseStarted(j)
  BY <1>3, PauseInv DEF PauseStarted
<1>4. CASE Resume(j)
  <2> DEFINE r == Disowned([old EXCEPT !.status = "pending"])
  <2>1. /\ \E i \in DOMAIN paused : paused[i] = j /\ paused' = RemoveAt(paused, i)
        /\ job' = [job EXCEPT ![j] = r]
        /\ UNCHANGED <<running, nextId, request, live, renewed, pauses>>
        /\ pending' = <<j>> \o pending /\ history' = history
    BY <1>4 DEF Resume
  <2> HIDE DEF old
  <2>2. r \in JobRecord /\ r.status = "pending"
    BY <1>0, StatusTyped, DisownedTyped
  <2> HIDE DEF r
  <2>3. QED
    BY <2>1, <2>2, PausedLeavesAs
<1>5. CASE CancelPending(j) \/ CancelPaused(j)
  <2> DEFINE r == [old EXCEPT !.status = "cancelled"]
  <2>1. /\ job' = [job EXCEPT ![j] = r]
        /\ UNCHANGED <<running, nextId, request, live, renewed, pauses>>
        /\ history' = history \union {j}
    BY <1>5 DEF CancelPending, CancelPaused
  <2>2. \/ /\ \E i \in DOMAIN pending : pending[i] = j /\ pending' = RemoveAt(pending, i)
           /\ paused' = paused
        \/ /\ \E i \in DOMAIN paused : paused[i] = j /\ paused' = RemoveAt(paused, i)
           /\ pending' = pending
    BY <1>5 DEF CancelPending, CancelPaused
  <2>3. "cancelled" \in Terminal
    BY DEF Terminal, Verdicts
  <2> HIDE DEF old
  <2>4. r \in JobRecord /\ r.status = "cancelled"
    BY <1>0, <2>3, StatusTyped
  <2> HIDE DEF r
  <2>5. QED
    BY <2>1, <2>2, <2>4, PendingLeavesAs, PausedLeavesAs
<1>6. CASE CancelRunning(j)
  <2>1. "cancelled" \in Terminal
    BY DEF Terminal, Verdicts
  <2>2. /\ running = j /\ request' \in Request
        /\ Retire(running, [job[running] EXCEPT !.status = "cancelled"])
    BY <1>0, <1>6 DEF CancelRunning, RestType
  <2>3. QED
    BY <1>0, <2>1, <2>2, RetireInv
<1>7. CASE Regress(j) \/ \E x \in {"reverted", "forward-fixed"} : Resolve(j, x)
  BY <1>7, RepairsInv
<1>8. QED
  BY <1>1, <1>2, <1>3, <1>4, <1>5, <1>6, <1>7 DEF Ask

(* Every paused task returns to the front of the queue. *)
LEMMA ResumeAllInv == ASSUME Inv, ResumeAll PROVE Inv'
<1> DEFINE resumed(j) == Disowned([job[j] EXCEPT !.status = "pending"])
<1>1. /\ pending' = paused \o pending /\ paused' = <<>>
      /\ job' = [j \in Ids |-> IF j \in Range(paused) THEN resumed(j) ELSE job[j]]
      /\ UNCHANGED <<running, history, nextId>>
      /\ UNCHANGED <<request, live, renewed, pauses>>
  BY DEF ResumeAll
<1>2. QueueType /\ RestType /\ Placement
  BY TypeParts DEF Inv
<1>3. ASSUME NEW j \in Ids PROVE resumed(j) \in JobRecord /\ resumed(j).status = "pending"
  <2>1. job[j] \in JobRecord
    BY <1>2 DEF QueueType
  <2>2. QED
    BY <2>1, StatusTyped, DisownedTyped
<1> HIDE DEF resumed
<1>4. job' \in [Ids -> JobRecord]
  BY <1>1, <1>2, <1>3 DEF QueueType
<1>5. \A j \in Ids : Status(j)' = IF j \in Range(paused) THEN "pending" ELSE Status(j)
  BY <1>1, <1>3 DEF Status
<1>6. pending \in Seq(Ids) /\ paused \in Seq(Ids) /\ IsInjective(pending) /\ IsInjective(paused)
  BY <1>2 DEF QueueType, Placement
<1>7. Range(paused) \cap Range(pending) = {}
  <2>1. Range(paused) \subseteq Ids
    BY <1>6 DEF Range
  <2>2. QED
    BY <1>2, <2>1 DEF Placement
<1>8. /\ pending' \in Seq(Ids) /\ IsInjective(pending')
      /\ Range(pending') = Range(paused) \union Range(pending)
  BY <1>1, <1>6, <1>7, ConcatElements
<1>9. paused' \in Seq(Ids) /\ IsInjective(paused') /\ Range(paused') = {}
  BY <1>1 DEF Range, IsInjective
<1>10. Placement'
  <2>1. ASSUME NEW j \in Ids
        PROVE  /\ j \in Range(pending') <=> Status(j)' = "pending"
               /\ j \in Range(paused')  <=> Status(j)' = "paused"
               /\ j = running'          <=> Status(j)' = "running"
               /\ j \in history'        <=> Status(j)' \in Terminal
               /\ j >= nextId'          <=> Status(j)' = "absent"
    BY <1>1, <1>2, <1>5, <1>8, <1>9 DEF Placement, Terminal, Verdicts, Repaired
  <2>2. QED
    BY <1>8, <1>9, <2>1 DEF Placement
<1>11. QueueType' /\ RestType'
  BY <1>1, <1>2, <1>4, <1>8, <1>9 DEF QueueType, RestType
<1>12. QED
  BY <1>10, <1>11 DEF Inv, TypeOK, QueueType, RestType

-----------------------------------------------------------------------------
(* Reconciliation, and the steps that leave the queue alone *)

LEMMA QueueUnchangedInv == ASSUME Inv, UNCHANGED queueVars, RestType' PROVE Inv'
<1>1. QueueType /\ Placement
  BY TypeParts DEF Inv
<1>2. QueueType'
  BY <1>1 DEF QueueType, queueVars
<1>3. Placement'
  <2>1. \A j \in Ids : Status(j)' = Status(j)
    BY DEF Status, queueVars
  <2>2. QED
    BY <1>1, <2>1 DEF Placement, queueVars
<1>4. QED
  BY <1>2, <1>3 DEF Inv, TypeOK, QueueType, RestType

LEMMA UnfencedTyped == Unfenced \in Request
<1>1. 0 \in 0..MaxTasks /\ 0 \in 0..2
  BY ConstantsAssumption
<1>2. QED
  BY <1>1 DEF Unfenced, Request

LEMMA InspectInv == ASSUME Inv, Inspect PROVE Inv'
<1> DEFINE old == job[running]
<1>1. /\ running # 0 /\ request' = [task |-> running, worker |-> old.worker, lease |-> old.lease]
      /\ renewed' = FALSE /\ UNCHANGED queueVars /\ UNCHANGED <<live, pauses>>
  BY DEF Inspect, LeaseOf
<1>2. old \in JobRecord /\ RestType /\ running \in 0..MaxTasks
  BY <1>1, RunningTask, TypeParts DEF Inv, QueueType
<1> HIDE DEF old
<1>3. old.worker \in Workers \union {NoWorker} /\ old.lease \in 0..2
  BY <1>2 DEF JobRecord
<1>4. RestType'
  BY <1>1, <1>2, <1>3 DEF RestType, Request
<1>5. QED
  BY <1>1, <1>4, QueueUnchangedInv

LEMMA WorkersDieInv == ASSUME Inv, NEW W \in SUBSET live, WorkersDie(W) PROVE Inv'
<1>1. RestType
  BY TypeParts DEF Inv
<1>2. RestType' /\ UNCHANGED queueVars
  BY <1>1, UnfencedTyped DEF WorkersDie, RestType
<1>3. QED
  BY <1>2, QueueUnchangedInv

LEMMA ReconcileInv == ASSUME Inv, Reconcile PROVE Inv'
<1>0. request' \in Request /\ RestType
  BY UnfencedTyped, TypeParts DEF Reconcile, Inv
<1>1. CASE ReconcileNothing
  <2>1. UNCHANGED queueVars /\ RestType'
    BY <1>0, <1>1 DEF ReconcileNothing, RestType
  <2>2. QED
    BY <2>1, QueueUnchangedInv
<1>2. CASE ReconcileRepair
  <2>1. PICK v \in Verdicts :
          running # 0 /\ Retire(running, [job[running] EXCEPT !.status = v])
    BY <1>2 DEF ReconcileRepair, Repairable, Reconcilable
  <2>2. QED
    BY <1>0, <2>1, RetireInv DEF Terminal
<1>3. CASE ReconcileExhausted
  <2>1. running # 0 /\ Retire(running, [job[running] EXCEPT !.status = "failed"])
    BY <1>3 DEF ReconcileExhausted, Interrupted, Reconcilable
  <2>2. "failed" \in Terminal
    BY DEF Terminal, Verdicts
  <2>3. QED
    BY <1>0, <2>1, <2>2, RetireInv
<1>4. CASE ReconcileRequeue
  <2> DEFINE old == job[running]
             x == [old EXCEPT !.due = TRUE]
  <2>1. running # 0 /\ Requeue(running, x)
    BY <1>4 DEF ReconcileRequeue, Interrupted, Reconcilable
  <2>2. old \in JobRecord
    BY <2>1, RunningTask
  <2> HIDE DEF old
  <2>3. x \in JobRecord
    BY <2>2 DEF JobRecord
  <2> HIDE DEF x
  <2>4. QED
    BY <1>0, <2>1, <2>3, RequeueInv
<1>5. QED
  BY <1>1, <1>2, <1>3, <1>4 DEF Reconcile

LEMMA StepInv == Inv /\ [Next]_vars => Inv'
<1> SUFFICES ASSUME Inv, [Next]_vars PROVE Inv'
  OBVIOUS
<1>1. CASE Submit
  BY <1>1, SubmitInv
<1>2. CASE BeginNext
  BY <1>2, BeginNextInv
<1>3. ASSUME NEW j \in Ids, BecomeDue(j) \/ Ask(j) \/ \E w \in Workers : Own(j, w)
      PROVE  Inv'
  BY <1>3, BecomeDueInv, AskInv, OwnInv
<1>4. CASE ResumeAll
  BY <1>4, ResumeAllInv
<1>5. CASE Inspect
  BY <1>5, InspectInv
<1>6. CASE Reconcile
  BY <1>6, ReconcileInv
<1>7. ASSUME NEW W \in SUBSET live, WorkersDie(W) PROVE Inv'
  BY <1>7, WorkersDieInv
<1>8. CASE UNCHANGED vars
  <2>1. UNCHANGED queueVars /\ UNCHANGED <<request, live, renewed, pauses>>
    BY <1>8 DEF vars
  <2>2. RestType'
    BY <2>1, TypeParts DEF Inv, RestType
  <2>3. QED
    BY <2>1, <2>2, QueueUnchangedInv
<1>9. QED
  BY <1>1, <1>2, <1>3, <1>4, <1>5, <1>6, <1>7, <1>8 DEF Next

(* Every variable stays in its range, and no transaction of the queue      *)
(* loses, duplicates or misfiles a task.                                   *)
THEOREM InvCorrect == Spec => []Inv
<1>1. QED
  BY InitInv, StepInv, PTL DEF Spec

THEOREM TypeCorrect == Spec => []TypeOK
<1>1. Inv => TypeOK
  BY DEF Inv
<1>2. QED
  BY <1>1, InvCorrect, PTL

THEOREM PlacementCorrect == Spec => []Placement
<1>1. Inv => Placement
  BY DEF Inv
<1>2. QED
  BY <1>1, InvCorrect, PTL

-----------------------------------------------------------------------------
(***************************************************************************)
(* Records: what a task carries, how often it runs, and what a lease fences *)
(***************************************************************************)

(* A task that waits carries nothing of an earlier run and has an attempt  *)
(* left; no task has made more than it may.                                *)
Waiting(r, p) == /\ r.worker = NoWorker /\ r.lease = 0 /\ r.verdict = "none"
                 /\ r.attempt < MaxAttempts + p
Sound(r, p)   == /\ r.status \in {"pending", "paused"} => Waiting(r, p)
                 /\ r.attempt <= MaxAttempts + p
Records == \A j \in Ids : Sound(job[j], pauses[j])

RecordInv == Inv /\ Records /\ FenceSound

(* One record changes, and perhaps how often its task was paused. *)
LEMMA OneRecord ==
  ASSUME Inv, Records, NEW j \in Ids, NEW r, job' = [job EXCEPT ![j] = r],
         pauses' = pauses \/ pauses' = [pauses EXCEPT ![j] = @ + 1],
         Sound(r, pauses'[j])
  PROVE  Records'
<1>1. job \in [Ids -> JobRecord] /\ pauses \in [Ids -> Nat]
  BY DEF Inv, TypeOK
<1>2. ASSUME NEW k \in Ids PROVE Sound(job'[k], pauses'[k])
  <2>1. CASE k = j
    BY <1>1, <2>1
  <2>2. CASE k # j
    BY <1>1, <2>2 DEF Records
  <2>3. QED
    BY <2>1, <2>2
<1>3. QED
  BY <1>2 DEF Records

LEMMA RecordOf ==
  ASSUME Inv, Records, NEW j \in Ids
  PROVE  /\ job[j] \in JobRecord /\ pauses[j] \in Nat /\ job[j].attempt \in Nat
         /\ MaxAttempts \in Nat \ {0} /\ Sound(job[j], pauses[j])
<1>1. job[j] \in JobRecord /\ pauses[j] \in Nat
  BY DEF Inv, TypeOK
<1>2. QED
  BY <1>1, ConstantsAssumption DEF JobRecord, Records

LEMMA DisownedFields ==
  ASSUME NEW r \in JobRecord
  PROVE  /\ Disowned(r).worker = NoWorker /\ Disowned(r).lease = 0
         /\ Disowned(r).status = r.status /\ Disowned(r).attempt = r.attempt
         /\ Disowned(r).verdict = r.verdict
  BY DEF Disowned, JobRecord

(* The snapshot still matches after a step only if it matched before and   *)
(* no lease was taken, or if the running task has no owner.                *)
LEMMA FenceKept ==
  ASSUME FenceSound,
         \/ running' = 0
         \/ request'.worker = NoWorker
         \/ running' # 0 /\ job'[running'].worker = NoWorker
         \/ renewed' = FALSE
         \/ running' # 0 /\ request'.lease # job'[running'].lease
         \/ /\ UNCHANGED <<running, request, renewed>>
            /\ job'[running].worker = job[running].worker
            /\ job'[running].lease = job[running].lease
  PROVE  FenceSound'
  BY DEF FenceSound, LeaseOf

-----------------------------------------------------------------------------
(* Submission and start *)

(* A new task has no owner, and has run once if it is begun directly. *)
LEMMA CreatedRecords ==
  ASSUME RecordInv, NEW r, Create(r),
         r.worker = NoWorker, r.verdict = "none", r.lease = 0,
         \/ r.status = "pending" /\ r.attempt = 0 /\ running' = running
         \/ r.status = "running" /\ r.attempt = 1 /\ running' = nextId
  PROVE  Records' /\ FenceSound'
<1>1. /\ nextId \in Ids /\ job' = [job EXCEPT ![nextId] = r]
      /\ UNCHANGED <<request, renewed, pauses>>
  BY DEF Create
<1>2. Inv /\ Records /\ FenceSound
  BY DEF RecordInv
<1>3. Sound(r, pauses[nextId])
  BY <1>1, <1>2, RecordOf DEF Sound, Waiting
<1>4. Records'
  BY <1>1, <1>2, <1>3, OneRecord
<1>5. job \in [Ids -> JobRecord] /\ (running = 0 \/ (running \in Ids /\ running # nextId))
  <2>1. running = 0 \/ Status(running) = "running"
    BY <1>2, RunningTask DEF Status
  <2>2. Status(nextId) = "absent"
    <3>1. nextId \in Nat
      BY <1>1 DEF Ids
    <3>2. QED
      BY <1>1, <1>2, <3>1 DEF Inv, Placement
  <2>3. QED
    BY <1>2, <2>1, <2>2, RunningTask DEF Inv, TypeOK
<1>6. FenceSound'
  <2>1. CASE running' = nextId
    BY <1>1, <1>2, <1>5, <2>1, FenceKept DEF Ids
  <2>2. CASE running' = running
    BY <1>1, <1>2, <1>5, <2>2, FenceKept
  <2>3. QED
    BY <2>1, <2>2
<1>7. QED
  BY <1>4, <1>6

LEMMA SubmitRecords == ASSUME RecordInv, Submit PROVE Records' /\ FenceSound'
<1>1. PICK key \in Keys \union {NoKey} :
        \/ \E lane \in Lanes \union {NoLane} : Enqueue(key, lane)
        \/ EnqueueFront(key) \/ BeginDirect(key)
  BY DEF Submit
<1>2. ASSUME NEW lane \in Lanes \union {NoLane}, Enqueue(key, lane)
      PROVE  Records' /\ FenceSound'
  <2> DEFINE r == [Absent EXCEPT !.status = "pending", !.key = key, !.lane = lane]
  <2>1. /\ r.worker = NoWorker /\ r.lease = 0 /\ r.verdict = "none"
        /\ r.status = "pending" /\ r.attempt = 0
    BY DEF Absent
  <2>2. Create(r) /\ running' = running
    BY <1>2 DEF Enqueue
  <2> HIDE DEF r
  <2>3. QED
    BY <2>1, <2>2, CreatedRecords
<1>3. CASE EnqueueFront(key)
  <2> DEFINE r == [Absent EXCEPT !.status = "pending", !.key = key]
  <2>1. /\ r.worker = NoWorker /\ r.lease = 0 /\ r.verdict = "none"
        /\ r.status = "pending" /\ r.attempt = 0
    BY DEF Absent
  <2>2. Create(r) /\ running' = running
    BY <1>3 DEF EnqueueFront
  <2> HIDE DEF r
  <2>3. QED
    BY <2>1, <2>2, CreatedRecords
<1>4. CASE BeginDirect(key)
  <2> DEFINE r == [Absent EXCEPT !.status = "running", !.key = key, !.attempt = 1]
  <2>1. /\ r.worker = NoWorker /\ r.lease = 0 /\ r.verdict = "none"
        /\ r.status = "running" /\ r.attempt = 1
    BY DEF Absent
  <2>2. Create(r) /\ running' = nextId
    BY <1>4 DEF BeginDirect
  <2> HIDE DEF r
  <2>3. QED
    BY <2>1, <2>2, CreatedRecords
<1>5. QED
  BY <1>1, <1>2, <1>3, <1>4

LEMMA RetryFailedRecords ==
  ASSUME RecordInv, NEW j \in Ids, RetryFailed(j) PROVE Records' /\ FenceSound'
<1> DEFINE r == [Absent EXCEPT !.status = "pending", !.lane = job[j].lane, !.parent = j,
                               !.stage = job[j].stage, !.review = job[j].review]
<1>1. /\ r.worker = NoWorker /\ r.lease = 0 /\ r.verdict = "none"
      /\ r.status = "pending" /\ r.attempt = 0
  BY DEF Absent
<1>2. Create(r) /\ running' = running
  BY DEF RetryFailed
<1> HIDE DEF r
<1>3. QED
  BY <1>1, <1>2, CreatedRecords

LEMMA BeginNextRecords == ASSUME RecordInv, BeginNext PROVE Records' /\ FenceSound'
<1>1. PICK i \in DOMAIN pending :
        /\ running' = pending[i]
        /\ job' = [job EXCEPT ![pending[i]] =
                     [job[pending[i]] EXCEPT !.status = "running", !.attempt = @ + 1,
                                             !.due = TRUE]]
        /\ UNCHANGED <<request, renewed, pauses>>
  BY DEF BeginNext
<1> DEFINE j == pending[i]
           old == job[j]
           r == [old EXCEPT !.status = "running", !.attempt = @ + 1, !.due = TRUE]
<1>2. Inv /\ Records /\ FenceSound
  BY DEF RecordInv
<1>3. j \in Ids /\ j \in Range(pending)
  BY <1>2 DEF Inv, TypeOK, Range
<1>4. /\ old \in JobRecord /\ old.status = "pending"
      /\ old.attempt \in Nat /\ pauses[j] \in Nat /\ MaxAttempts \in Nat
      /\ Sound(old, pauses[j])
  BY <1>2, <1>3, Whereabouts, RecordOf
<1>5. running' = j /\ job' = [job EXCEPT ![j] = r] /\ UNCHANGED <<request, renewed, pauses>>
  BY <1>1
<1> HIDE DEF old, j
<1>6. r.status = "running" /\ r.attempt = old.attempt + 1 /\ r.worker = old.worker
  BY <1>4 DEF JobRecord
<1> HIDE DEF r
<1>7. Sound(r, pauses[j]) /\ r.worker = NoWorker
  BY <1>4, <1>6 DEF Sound, Waiting
<1>8. Records'
  BY <1>2, <1>3, <1>5, <1>7, OneRecord
<1>9. FenceSound'
  <2>1. job'[j] = r /\ j # 0
    BY <1>2, <1>3, <1>5 DEF Inv, TypeOK, Ids
  <2>2. QED
    BY <1>2, <1>5, <1>7, <2>1, FenceKept
<1>10. QED
  BY <1>8, <1>9

-----------------------------------------------------------------------------
(* Claims and renewals *)

LEMMA LeaseRecords ==
  ASSUME RecordInv, running # 0, NEW w \in Workers, Lease(w) PROVE Records' /\ FenceSound'
<1> DEFINE old == job[running]
           r == [old EXCEPT !.worker = w, !.lease = FreshLease]
<1>1. Inv /\ Records /\ FenceSound
  BY DEF RecordInv
<1>2. running \in Ids /\ old \in JobRecord /\ old.status = "running" /\ Sound(old, pauses[running])
  BY <1>1, RunningTask, RecordOf
<1>3. job' = [job EXCEPT ![running] = r] /\ UNCHANGED <<running, request, pauses>>
  BY DEF Lease
<1> HIDE DEF old
<1>4. r.status = "running" /\ r.attempt = old.attempt /\ r.lease = FreshLease
  BY <1>2 DEF JobRecord
<1>5. FreshLease # request.lease
  BY DEF FreshLease
<1> HIDE DEF r
<1>6. Records'
  BY <1>1, <1>2, <1>3, <1>4, OneRecord DEF Sound
<1>7. FenceSound'
  <2>1. job'[running] = r
    BY <1>1, <1>2, <1>3 DEF Inv, TypeOK
  <2>2. QED
    BY <1>1, <1>3, <1>4, <1>5, <2>1, FenceKept
<1>8. QED
  BY <1>6, <1>7

(* A record changes while its task stays running, waiting or ended. *)
LEMMA ChangedRecords ==
  ASSUME RecordInv, NEW j \in Ids, NEW r,
         job' = [job EXCEPT ![j] = r], UNCHANGED <<request, renewed, pauses, running>>,
         r.attempt = job[j].attempt, r.worker = job[j].worker, r.lease = job[j].lease,
         \/ r.status \notin {"pending", "paused"}
         \/ r.status = job[j].status /\ r.verdict = job[j].verdict
  PROVE  Records' /\ FenceSound'
<1>1. Inv /\ Records /\ FenceSound /\ job \in [Ids -> JobRecord]
  BY DEF RecordInv, Inv, TypeOK
<1>2. Sound(job[j], pauses[j])
  BY <1>1 DEF Records
<1>3. Sound(r, pauses[j])
  BY <1>2 DEF Sound, Waiting
<1>4. Records'
  BY <1>1, <1>3, OneRecord
<1>5. FenceSound'
  <2>1. CASE running = j
    BY <1>1, <2>1, FenceKept
  <2>2. CASE running # j
    BY <1>1, <2>2, FenceKept
  <2>3. QED
    BY <2>1, <2>2
<1>6. QED
  BY <1>4, <1>5

(* What the owner records, and steps on records that stay where they are. *)
LEMMA RewrittenRecords ==
  ASSUME RecordInv, NEW j \in Ids,
         \/ \E w \in Workers, p \in Publications : RecordPublication(j, w, p[1], p[2])
         \/ \E w \in Workers, v \in Evidence : RecordTerminalEvidence(j, w, v)
         \/ BecomeDue(j)
         \/ Regress(j) \/ \E x \in {"reverted", "forward-fixed"} : Resolve(j, x)
  PROVE  Records' /\ FenceSound'
<1> DEFINE old == job[j]
<1>0. old \in JobRecord /\ old.status = Status(j) /\ (j = running <=> Status(j) = "running")
  BY Whereabouts DEF RecordInv
<1>1. ASSUME NEW w \in Workers, NEW p \in Publications, RecordPublication(j, w, p[1], p[2])
      PROVE  Records' /\ FenceSound'
  <2> DEFINE r == [old EXCEPT !.stage = p[1], !.review = p[2]]
  <2>1. job' = [job EXCEPT ![j] = r] /\ UNCHANGED <<request, renewed, pauses, running>>
        /\ old.status = "running"
    BY <1>0, <1>1 DEF RecordPublication, ChangeJob, Owns
  <2> HIDE DEF old
  <2>2. /\ r.attempt = old.attempt /\ r.worker = old.worker /\ r.lease = old.lease
        /\ r.status = old.status
    BY <1>0 DEF JobRecord
  <2> HIDE DEF r
  <2>3. QED
    BY <2>1, <2>2, ChangedRecords DEF old
<1>2. ASSUME NEW w \in Workers, NEW v \in Evidence, RecordTerminalEvidence(j, w, v)
      PROVE  Records' /\ FenceSound'
  <2> DEFINE r == [old EXCEPT !.verdict = v]
  <2>1. job' = [job EXCEPT ![j] = r] /\ UNCHANGED <<request, renewed, pauses, running>>
        /\ old.status = "running"
    BY <1>0, <1>2 DEF RecordTerminalEvidence, ChangeJob, Owns
  <2> HIDE DEF old
  <2>2. /\ r.attempt = old.attempt /\ r.worker = old.worker /\ r.lease = old.lease
        /\ r.status = old.status
    BY <1>0 DEF JobRecord
  <2> HIDE DEF r
  <2>3. QED
    BY <2>1, <2>2, ChangedRecords DEF old
<1>3. CASE BecomeDue(j)
  <2> DEFINE r == [old EXCEPT !.due = TRUE]
  <2>1. job' = [job EXCEPT ![j] = r] /\ UNCHANGED <<request, renewed, pauses, running>>
    BY <1>3 DEF BecomeDue
  <2> HIDE DEF old
  <2>2. /\ r.attempt = old.attempt /\ r.worker = old.worker /\ r.lease = old.lease
        /\ r.status = old.status /\ r.verdict = old.verdict
    BY <1>0 DEF JobRecord
  <2> HIDE DEF r
  <2>3. QED
    BY <2>1, <2>2, ChangedRecords DEF old
<1>4. CASE Regress(j) \/ \E x \in {"reverted", "forward-fixed"} : Resolve(j, x)
  <2>1. PICK x \in Repaired : ChangeJob(j, [old EXCEPT !.status = x])
    BY <1>4 DEF Regress, Resolve, Repaired
  <2> DEFINE r == [old EXCEPT !.status = x]
  <2>2. job' = [job EXCEPT ![j] = r] /\ UNCHANGED <<request, renewed, pauses, running>>
    BY <2>1 DEF ChangeJob
  <2> HIDE DEF old
  <2>3. /\ r.attempt = old.attempt /\ r.worker = old.worker /\ r.lease = old.lease
        /\ r.status = x
    BY <1>0 DEF JobRecord
  <2> HIDE DEF r
  <2>4. QED
    BY <2>2, <2>3, ChangedRecords DEF old, Repaired
<1>5. QED
  BY <1>1, <1>2, <1>3, <1>4

-----------------------------------------------------------------------------
(* The running task leaves *)

LEMMA LeavesRecords ==
  ASSUME RecordInv, running # 0, NEW r, job' = [job EXCEPT ![running] = r],
         running' = 0,
         pauses' = pauses \/ pauses' = [pauses EXCEPT ![running] = @ + 1],
         Sound(r, pauses'[running])
  PROVE  Records' /\ FenceSound'
<1>1. Inv /\ Records /\ FenceSound /\ running \in Ids
  BY RunningTask DEF RecordInv
<1>2. Records'
  BY <1>1, OneRecord
<1>3. QED
  BY <1>1, <1>2, FenceKept

LEMMA RetireRecords ==
  ASSUME RecordInv, running # 0, NEW v \in Terminal,
         Retire(running, [job[running] EXCEPT !.status = v])
  PROVE  Records' /\ FenceSound'
<1> DEFINE old == job[running]
           x == [old EXCEPT !.status = v]
           r == Disowned(x)
<1>1. old \in JobRecord /\ Sound(old, pauses[running])
  BY RunningTask, RecordOf DEF RecordInv
<1>2. job' = [job EXCEPT ![running] = r] /\ running' = 0 /\ pauses' = pauses
  BY DEF Retire
<1> HIDE DEF old
<1>3. x \in JobRecord /\ x.status = v
  BY <1>1, StatusTyped
<1>4. x.attempt = old.attempt
  BY <1>1 DEF JobRecord
<1> HIDE DEF x
<1>5. r.status = v /\ r.attempt = old.attempt
  BY <1>3, <1>4, DisownedFields
<1> HIDE DEF r
<1>6. v \notin {"pending", "paused"}
  BY DEF Terminal, Verdicts, Repaired
<1>7. Sound(r, pauses[running])
  BY <1>1, <1>5, <1>6 DEF Sound
<1>8. QED
  BY <1>2, <1>7, LeavesRecords

(* A task is requeued with an attempt left and without terminal evidence. *)
LEMMA RequeueRecords ==
  ASSUME RecordInv, running # 0, NEW y \in JobRecord, Requeue(running, y),
         y.attempt < MaxAttempts, y.verdict = "none"
  PROVE  Records' /\ FenceSound'
<1> DEFINE x == [y EXCEPT !.status = "pending"]
           r == Disowned(x)
<1>1. pauses[running] \in Nat /\ y.attempt \in Nat /\ MaxAttempts \in Nat
  BY RunningTask, RecordOf DEF RecordInv, JobRecord
<1>2. job' = [job EXCEPT ![running] = r] /\ running' = 0 /\ pauses' = pauses
  BY DEF Requeue
<1>3. x \in JobRecord
  BY StatusTyped
<1>4. x.attempt = y.attempt /\ x.verdict = y.verdict
  BY DEF JobRecord
<1> HIDE DEF x
<1>5. r.attempt = y.attempt /\ r.verdict = "none" /\ r.worker = NoWorker /\ r.lease = 0
  BY <1>3, <1>4, DisownedFields
<1> HIDE DEF r
<1>6. Sound(r, pauses[running])
  BY <1>1, <1>5 DEF Sound, Waiting
<1>7. QED
  BY <1>2, <1>6, LeavesRecords

(* A pause of the running task adds the attempt it will repeat. *)
LEMMA PauseRecords ==
  ASSUME RecordInv, running # 0,
         job' = [job EXCEPT ![running] =
                   Disowned([job[running] EXCEPT !.status = "paused", !.verdict = "none"])],
         running' = 0, pauses' = [pauses EXCEPT ![running] = @ + 1]
  PROVE  Records' /\ FenceSound'
<1> DEFINE old == job[running]
           x == [old EXCEPT !.status = "paused", !.verdict = "none"]
           r == Disowned(x)
<1>1. /\ old \in JobRecord /\ Sound(old, pauses[running]) /\ old.attempt \in Nat
      /\ running \in Ids /\ pauses[running] \in Nat /\ MaxAttempts \in Nat
  BY RunningTask, RecordOf DEF RecordInv
<1>2. job' = [job EXCEPT ![running] = r]
  OBVIOUS
<1>3. pauses'[running] = pauses[running] + 1
  BY <1>1 DEF RecordInv, Inv, TypeOK
<1> HIDE DEF old
<1>4. x \in JobRecord
  BY <1>1 DEF JobRecord
<1>5. x.attempt = old.attempt /\ x.verdict = "none"
  BY <1>1 DEF JobRecord
<1> HIDE DEF x
<1>6. r.attempt = old.attempt /\ r.verdict = "none" /\ r.worker = NoWorker /\ r.lease = 0
  BY <1>4, <1>5, DisownedFields
<1> HIDE DEF r
<1>7. Sound(r, pauses'[running])
  BY <1>1, <1>3, <1>6 DEF Sound, Waiting
<1>8. QED
  BY <1>2, <1>7, LeavesRecords

LEMMA OwnRecords ==
  ASSUME RecordInv, NEW j \in Ids, NEW w \in Workers, Own(j, w)
  PROVE  Records' /\ FenceSound'
<1>0. j # 0 /\ Inv
  BY Whereabouts DEF RecordInv
<1>1. CASE Claim(j, w) \/ Heartbeat(j, w)
  BY <1>0, <1>1, LeaseRecords DEF Claim, Claimable, Heartbeat, Owns
<1>2. CASE \/ \E p \in Publications : RecordPublication(j, w, p[1], p[2])
           \/ \E v \in Evidence : RecordTerminalEvidence(j, w, v)
  BY <1>2, RewrittenRecords
<1>3. ASSUME NEW v \in Verdicts, Finish(j, w, v) PROVE Records' /\ FenceSound'
  <2>1. v \in Terminal /\ running = j /\ Retire(running, [job[running] EXCEPT !.status = v])
    BY <1>3 DEF Finish, Owns, Terminal
  <2>2. QED
    BY <1>0, <2>1, RetireRecords
<1>4. CASE RetryRunning(j, w)
  <2> DEFINE old == job[j]
             y == [old EXCEPT !.due = FALSE, !.verdict = "none"]
  <2>1. running = j /\ running # 0 /\ Requeue(running, y) /\ old.attempt < MaxAttempts
    BY <1>0, <1>4 DEF RetryRunning, Owns
  <2>2. old \in JobRecord
    BY <1>0, <2>1, RunningTask
  <2> HIDE DEF old
  <2>3. y \in JobRecord
    BY <2>2 DEF JobRecord
  <2>4. y.attempt = old.attempt /\ y.verdict = "none"
    BY <2>2 DEF JobRecord
  <2> HIDE DEF y
  <2>5. QED
    BY <2>1, <2>3, <2>4, RequeueRecords
<1>5. CASE PauseRunning(j, w)
  BY <1>0, <1>5, PauseRecords DEF PauseRunning, Owns
<1>6. QED
  BY <1>1, <1>2, <1>3, <1>4, <1>5 DEF Own

-----------------------------------------------------------------------------
(* Tasks that do not run *)

(* What a waiting task keeps when it changes place is sound wherever it is. *)
LEMMA ElsewhereRecords ==
  ASSUME RecordInv, NEW j \in Ids, j # running, NEW r, job' = [job EXCEPT ![j] = r],
         UNCHANGED <<running, request, renewed, pauses>>, Sound(r, pauses[j])
  PROVE  Records' /\ FenceSound'
<1>1. Inv /\ Records /\ FenceSound /\ job \in [Ids -> JobRecord]
  BY DEF RecordInv, Inv, TypeOK
<1>2. Records'
  BY <1>1, OneRecord
<1>3. FenceSound'
  <2>1. CASE running = 0
    BY <1>1, <2>1, FenceKept
  <2>2. CASE running # 0
    <3>1. running \in Ids /\ job'[running] = job[running]
      BY <1>1, <2>2, RunningTask
    <3>2. QED
      BY <1>1, <3>1, FenceKept
  <2>3. QED
    BY <2>1, <2>2
<1>4. QED
  BY <1>2, <1>3

(* The record of a waiting task with another status and no owner. *)
LEMMA WaitingSound ==
  ASSUME RecordInv, NEW j \in Ids, j \in Queued
  PROVE  /\ j # running /\ job[j] \in JobRecord
         /\ Waiting(job[j], pauses[j]) /\ Sound(job[j], pauses[j])
<1>1. /\ job[j] \in JobRecord /\ job[j].status \in {"pending", "paused"} /\ j # running
  BY Whereabouts DEF RecordInv, Queued
<1>2. Sound(job[j], pauses[j])
  BY RecordOf DEF RecordInv
<1>3. QED
  BY <1>1, <1>2 DEF Sound

LEMMA AskRecords ==
  ASSUME RecordInv, NEW j \in Ids, Ask(j) PROVE Records' /\ FenceSound'
<1> DEFINE old == job[j]
<1>0. j # 0 /\ Inv /\ pending \in Seq(Ids) /\ paused \in Seq(Ids)
  BY Whereabouts DEF RecordInv
<1>1. CASE RetryFailed(j)
  BY <1>1, RetryFailedRecords
<1>2. CASE PauseQueued(j)
  <2> DEFINE x == [old EXCEPT !.status = "paused", !.verdict = "none"]
             r == Disowned(x)
  <2>1. /\ \E i \in DOMAIN pending : pending[i] = j
        /\ job' = [job EXCEPT ![j] = r] /\ UNCHANGED <<running, request, renewed, pauses>>
    BY <1>2 DEF PauseQueued
  <2>2. j \in Queued
    BY <2>1 DEF Queued, Range
  <2>3. /\ j # running /\ old \in JobRecord
        /\ Waiting(old, pauses[j]) /\ Sound(old, pauses[j])
    BY <2>2, WaitingSound
  <2> HIDE DEF old
  <2>4. x \in JobRecord
    BY <2>3 DEF JobRecord
  <2>5. x.attempt = old.attempt /\ x.verdict = "none"
    BY <2>3 DEF JobRecord
  <2> HIDE DEF x
  <2>6. r.attempt = old.attempt /\ r.verdict = "none" /\ r.worker = NoWorker /\ r.lease = 0
    BY <2>4, <2>5, DisownedFields
  <2> HIDE DEF r
  <2>7. Sound(r, pauses[j])
    BY <2>3, <2>6 DEF Sound, Waiting
  <2>8. QED
    BY <2>1, <2>3, <2>7, ElsewhereRecords
<1>3. CASE PauseStarted(j)
  BY <1>0, <1>3, PauseRecords DEF PauseStarted
<1>4. CASE Resume(j)
  <2> DEFINE x == [old EXCEPT !.status = "pending"]
             r == Disowned(x)
  <2>1. /\ \E i \in DOMAIN paused : paused[i] = j
        /\ job' = [job EXCEPT ![j] = r] /\ UNCHANGED <<running, request, renewed, pauses>>
    BY <1>4 DEF Resume
  <2>2. j \in Queued
    BY <2>1 DEF Queued, Range
  <2>3. /\ j # running /\ old \in JobRecord
        /\ Waiting(old, pauses[j]) /\ Sound(old, pauses[j])
    BY <2>2, WaitingSound
  <2> HIDE DEF old
  <2>4. x \in JobRecord
    BY <2>3, StatusTyped
  <2>5. x.attempt = old.attempt /\ x.verdict = old.verdict
    BY <2>3 DEF JobRecord
  <2> HIDE DEF x
  <2>6. /\ r.attempt = old.attempt /\ r.verdict = old.verdict
        /\ r.worker = NoWorker /\ r.lease = 0
    BY <2>4, <2>5, DisownedFields
  <2> HIDE DEF r
  <2>7. Sound(r, pauses[j])
    BY <2>3, <2>6 DEF Sound, Waiting
  <2>8. QED
    BY <2>1, <2>3, <2>7, ElsewhereRecords
<1>5. CASE CancelPending(j) \/ CancelPaused(j)
  <2> DEFINE r == [old EXCEPT !.status = "cancelled"]
  <2>1. /\ \/ \E i \in DOMAIN pending : pending[i] = j
           \/ \E i \in DOMAIN paused : paused[i] = j
        /\ job' = [job EXCEPT ![j] = r] /\ UNCHANGED <<running, request, renewed, pauses>>
    BY <1>5 DEF CancelPending, CancelPaused
  <2>2. j \in Queued
    BY <2>1 DEF Queued, Range
  <2>3. j # running /\ old \in JobRecord /\ Sound(old, pauses[j])
    BY <2>2, WaitingSound
  <2> HIDE DEF old
  <2>4. r.status = "cancelled" /\ r.attempt = old.attempt
    BY <2>3 DEF JobRecord
  <2> HIDE DEF r
  <2>5. Sound(r, pauses[j])
    BY <2>3, <2>4 DEF Sound
  <2>6. QED
    BY <2>1, <2>3, <2>5, ElsewhereRecords
<1>6. CASE CancelRunning(j)
  <2>1. running = j /\ Retire(running, [job[running] EXCEPT !.status = "cancelled"])
    BY <1>6 DEF CancelRunning
  <2>2. "cancelled" \in Terminal
    BY DEF Terminal, Verdicts
  <2>3. QED
    BY <1>0, <2>1, <2>2, RetireRecords
<1>7. CASE Regress(j) \/ \E x \in {"reverted", "forward-fixed"} : Resolve(j, x)
  BY <1>7, RewrittenRecords
<1>8. QED
  BY <1>1, <1>2, <1>3, <1>4, <1>5, <1>6, <1>7 DEF Ask

LEMMA ResumeAllRecords == ASSUME RecordInv, ResumeAll PROVE Records' /\ FenceSound'
<1> DEFINE resumed(j) == Disowned([job[j] EXCEPT !.status = "pending"])
<1>1. /\ job' = [j \in Ids |-> IF j \in Range(paused) THEN resumed(j) ELSE job[j]]
      /\ UNCHANGED <<running, request, renewed, pauses>>
  BY DEF ResumeAll
<1>2. Inv /\ Records /\ FenceSound
  BY DEF RecordInv
<1>3. ASSUME NEW j \in Ids, j \in Range(paused)
      PROVE  j # running /\ Sound(resumed(j), pauses[j])
  <2> DEFINE old == job[j]
             x == [old EXCEPT !.status = "pending"]
             r == Disowned(x)
  <2>1. /\ j # running /\ old \in JobRecord
        /\ Waiting(old, pauses[j]) /\ Sound(old, pauses[j])
    BY <1>3, WaitingSound DEF Queued
  <2>2. r = resumed(j)
    OBVIOUS
  <2> HIDE DEF old, resumed
  <2>3. x \in JobRecord
    BY <2>1, StatusTyped
  <2>4. x.attempt = old.attempt /\ x.verdict = old.verdict
    BY <2>1 DEF JobRecord
  <2> HIDE DEF x
  <2>5. /\ r.attempt = old.attempt /\ r.verdict = old.verdict
        /\ r.worker = NoWorker /\ r.lease = 0
    BY <2>3, <2>4, DisownedFields
  <2> HIDE DEF r
  <2>6. Sound(r, pauses[j])
    BY <2>1, <2>5 DEF Sound, Waiting
  <2>7. QED
    BY <2>1, <2>2, <2>6
<1> HIDE DEF resumed
<1>4. Records'
  BY <1>1, <1>2, <1>3 DEF Records
<1>5. FenceSound'
  <2>1. CASE running = 0
    BY <1>1, <1>2, <2>1, FenceKept
  <2>2. CASE running # 0
    <3>1. running \in Ids /\ job'[running] = job[running]
      BY <1>1, <1>2, <1>3, <2>2, RunningTask
    <3>2. QED
      BY <1>1, <1>2, <3>1, FenceKept
  <2>3. QED
    BY <2>1, <2>2
<1>6. QED
  BY <1>4, <1>5

-----------------------------------------------------------------------------
(* Reconciliation *)

LEMMA ReconcileRecords == ASSUME RecordInv, Reconcile PROVE Records' /\ FenceSound'
<1>1. request'.worker = NoWorker
  BY DEF Reconcile, Unfenced
<1>2. FenceSound'
  BY <1>1, FenceKept DEF RecordInv
<1>3. CASE ReconcileNothing
  <2>1. UNCHANGED <<job, pauses>>
    BY <1>3 DEF ReconcileNothing, queueVars
  <2>2. Records'
    BY <2>1 DEF RecordInv, Records
  <2>3. QED
    BY <1>2, <2>2
<1>4. CASE ReconcileRepair
  <2>1. PICK v \in Verdicts :
          running # 0 /\ Retire(running, [job[running] EXCEPT !.status = v])
    BY <1>4 DEF ReconcileRepair, Repairable, Reconcilable
  <2>2. QED
    BY <2>1, RetireRecords DEF Terminal
<1>5. CASE ReconcileExhausted
  <2>1. running # 0 /\ Retire(running, [job[running] EXCEPT !.status = "failed"])
    BY <1>5 DEF ReconcileExhausted, Interrupted, Reconcilable
  <2>2. "failed" \in Terminal
    BY DEF Terminal, Verdicts
  <2>3. QED
    BY <2>1, <2>2, RetireRecords
<1>6. CASE ReconcileRequeue
  <2> DEFINE old == job[running]
             y == [old EXCEPT !.due = TRUE]
  <2>1. running # 0 /\ Requeue(running, y) /\ old.attempt < MaxAttempts /\ old.verdict = "none"
    BY <1>6 DEF ReconcileRequeue, Interrupted, Reconcilable, Proven
  <2>2. old \in JobRecord
    BY <2>1, RunningTask DEF RecordInv
  <2> HIDE DEF old
  <2>3. y \in JobRecord
    BY <2>2 DEF JobRecord
  <2>4. y.attempt = old.attempt /\ y.verdict = old.verdict
    BY <2>2 DEF JobRecord
  <2> HIDE DEF y
  <2>5. QED
    BY <2>1, <2>3, <2>4, RequeueRecords
<1>7. QED
  BY <1>3, <1>4, <1>5, <1>6 DEF Reconcile

(* Steps that change no record and no lease. *)
LEMMA UnchangedRecords ==
  ASSUME RecordInv,
         Inspect \/ UNCHANGED vars \/ \E W \in SUBSET live : WorkersDie(W)
  PROVE  Records' /\ FenceSound'
<1>1. UNCHANGED <<job, running, pauses>>
  BY DEF Inspect, WorkersDie, vars, queueVars
<1>2. \/ renewed' = FALSE
      \/ request'.worker = NoWorker
      \/ UNCHANGED <<request, renewed>>
  BY DEF Inspect, WorkersDie, vars, Unfenced
<1>3. FenceSound'
  BY <1>1, <1>2, FenceKept DEF RecordInv
<1>4. Records'
  BY <1>1 DEF RecordInv, Records
<1>5. QED
  BY <1>3, <1>4

LEMMA InitRecords == Init => RecordInv
<1> SUFFICES ASSUME Init PROVE RecordInv
  OBVIOUS
<1>1. Inv
  BY InitInv
<1>2. Records
  <2>1. Sound(Absent, 0)
    BY ConstantsAssumption DEF Sound, Absent
  <2>2. \A j \in Ids : job[j] = Absent /\ pauses[j] = 0
    BY DEF Init
  <2>3. QED
    BY <2>1, <2>2 DEF Records
<1>3. FenceSound
  BY DEF Init, FenceSound
<1>4. QED
  BY <1>1, <1>2, <1>3 DEF RecordInv

LEMMA StepRecords == RecordInv /\ [Next]_vars => RecordInv'
<1> SUFFICES ASSUME RecordInv, [Next]_vars PROVE RecordInv'
  OBVIOUS
<1>1. Inv'
  BY StepInv DEF RecordInv
<1>2. Records' /\ FenceSound'
  <2>1. CASE Submit
    BY <2>1, SubmitRecords
  <2>2. CASE BeginNext
    BY <2>2, BeginNextRecords
  <2>3. ASSUME NEW j \in Ids, BecomeDue(j) \/ Ask(j) \/ \E w \in Workers : Own(j, w)
        PROVE  Records' /\ FenceSound'
    BY <2>3, RewrittenRecords, AskRecords, OwnRecords
  <2>4. CASE ResumeAll
    BY <2>4, ResumeAllRecords
  <2>5. CASE Inspect \/ UNCHANGED vars \/ \E W \in SUBSET live : WorkersDie(W)
    BY <2>5, UnchangedRecords
  <2>6. CASE Reconcile
    BY <2>6, ReconcileRecords
  <2>7. QED
    BY <2>1, <2>2, <2>3, <2>4, <2>5, <2>6 DEF Next
<1>3. QED
  BY <1>1, <1>2 DEF RecordInv

(* Whatever pauses, retries, recoveries, claims and deaths came before,    *)
(* every record is sound for where its task is, and a snapshot that still  *)
(* matches the running task has seen every lease.                          *)
THEOREM RecordInvCorrect == Spec => []RecordInv
<1>1. QED
  BY InitRecords, StepRecords, PTL DEF Spec

(* A waiting task carries nothing of an earlier run: every transaction that *)
(* queues or pauses a task clears worker_id, worker_lease_id and, where it  *)
(* may be set, terminal_status.                                             *)
THEOREM CleanCorrect == Spec => []QueuedIsClean
<1>1. RecordInv => QueuedIsClean
  <2> SUFFICES ASSUME RecordInv, NEW j \in Queued
               PROVE  job[j].worker = NoWorker /\ job[j].lease = 0 /\ job[j].verdict = "none"
    BY DEF QueuedIsClean
  <2>1. j \in Ids
    BY DEF RecordInv, Inv, TypeOK, Queued, Range
  <2>2. QED
    BY <2>1, WaitingSound DEF Waiting
<1>2. QED
  BY <1>1, RecordInvCorrect, PTL

(* Automatic retry and recovery together never exceed max_attempts runs;   *)
(* each pause of a running task adds at most one.                          *)
THEOREM AttemptsCorrect == Spec => []AttemptsBounded
<1>1. RecordInv => AttemptsBounded
  BY DEF RecordInv, Records, Sound, AttemptsBounded
<1>2. QED
  BY <1>1, RecordInvCorrect, PTL

(* The lease token of worker_lease_id fences reconcile_running_task: a     *)
(* request that matches cannot predate a claim or a heartbeat.             *)
THEOREM FenceCorrect == Spec => []FenceSound
<1>1. RecordInv => FenceSound
  BY DEF RecordInv
<1>2. QED
  BY <1>1, RecordInvCorrect, PTL

-----------------------------------------------------------------------------
(***************************************************************************)
(* TaskQueue implements TaskLifecycle; then where its tasks come from: their *)
(* keys and parents; and in which order those of a lane run                *)
(***************************************************************************)

phase == [j \in Ids |-> Status(j)]

(* A step of the queue is a step of the life cycle, or changes no phase. *)
Lived == Lifecycle!Next \/ phase' = phase

LEMMA PhaseOf ==
  ASSUME Inv
  PROVE  /\ \A j \in Ids : phase[j] = job[j].status
         /\ Lifecycle!Tasks = Ids
         /\ running = 0 => Lifecycle!NoneRuns
<1>1. Lifecycle!Tasks = Ids
  BY DEF Lifecycle!Tasks, Ids
<1>2. ASSUME running = 0, NEW t \in Ids PROVE Status(t) # "running"
  BY <1>2, Whereabouts
<1>3. QED
  BY <1>1, <1>2 DEF phase, Status, Lifecycle!NoneRuns

(* One record changes, so one phase does. *)
LEMMA PhaseMoves ==
  ASSUME Inv, NEW j \in Ids, NEW r, job' = [job EXCEPT ![j] = r]
  PROVE  phase' = [phase EXCEPT ![j] = r.status]
<1>1. job \in [Ids -> JobRecord]
  BY DEF Inv, TypeOK
<1>2. \A k \in Ids : job'[k].status = IF k = j THEN r.status ELSE job[k].status
  BY <1>1
<1>3. QED
  BY <1>2 DEF phase, Status

LEMMA PhaseKept ==
  ASSUME Inv, NEW j \in Ids, NEW r, job' = [job EXCEPT ![j] = r], r.status = Status(j)
  PROVE  Lived
<1>1. phase' = [phase EXCEPT ![j] = Status(j)]
  BY PhaseMoves
<1>2. phase = [phase EXCEPT ![j] = Status(j)]
  BY DEF phase
<1>3. QED
  BY <1>1, <1>2 DEF Lived

-----------------------------------------------------------------------------
(* One lemma for each kind of step of the life cycle *)

LEMMA Creates ==
  ASSUME Inv, NEW r, Create(r), r.status \in {"pending", "running"},
         r.status = "running" => running = 0
  PROVE  Lived
<1>1. nextId \in Ids /\ job' = [job EXCEPT ![nextId] = r] /\ nextId \in Nat
  BY DEF Create, Ids
<1>2. \A u \in Ids : u < nextId <=> phase[u] # "absent"
  BY <1>1 DEF Inv, Placement, phase, Ids
<1>3. phase' = [phase EXCEPT ![nextId] = r.status] /\ phase[nextId] = "absent"
  <2>1. phase' = [phase EXCEPT ![nextId] = r.status]
    BY <1>1, PhaseMoves
  <2>2. ~(nextId < nextId)
    BY <1>1
  <2>3. QED
    BY <1>1, <1>2, <2>1, <2>2
<1>4. Lifecycle!Move(nextId, {"absent"}, r.status)
  BY <1>3 DEF Lifecycle!Move, phase
<1>5. Lifecycle!Create(nextId, r.status)
  BY <1>2, <1>4, PhaseOf DEF Lifecycle!Create, phase
<1>6. QED
  BY <1>1, <1>5, PhaseOf DEF Lived, Lifecycle!Next

LEMMA Stops ==
  ASSUME Inv, running # 0, NEW r, job' = [job EXCEPT ![running] = r],
         r.status \in {"pending", "paused", "completed", "failed", "cancelled"}
  PROVE  Lived
<1>1. running \in Ids /\ phase[running] = "running"
  BY RunningTask, PhaseOf
<1>2. phase' = [phase EXCEPT ![running] = r.status]
  BY <1>1, PhaseMoves
<1>3. Lifecycle!Move(running, {"running"}, r.status)
  BY <1>1, <1>2 DEF Lifecycle!Move, phase
<1>4. Lifecycle!Stop(running)
  BY <1>3 DEF Lifecycle!Stop
<1>5. QED
  BY <1>1, <1>4, PhaseOf DEF Lived, Lifecycle!Next

(* A task that does not run changes its phase. *)
LEMMA Changes ==
  ASSUME Inv, NEW j \in Ids, NEW r, job' = [job EXCEPT ![j] = r],
         \/ Status(j) = "pending" /\ r.status \in {"paused", "cancelled"}
         \/ Status(j) = "pending" /\ r.status = "running" /\ running = 0
         \/ Status(j) = "paused" /\ r.status = "cancelled"
         \/ Status(j) = "completed" /\ r.status = "regressed"
         \/ Status(j) = "regressed" /\ r.status \in {"reverted", "forward-fixed"}
  PROVE  Lived
<1>1. phase[j] = Status(j) /\ phase' = [phase EXCEPT ![j] = r.status]
  BY PhaseMoves DEF phase
<1>2. Lifecycle!Move(j, {Status(j)}, r.status)
  BY <1>1 DEF Lifecycle!Move, phase
<1>3. \/ Lifecycle!Shelve(j) \/ Lifecycle!Start(j) \/ Lifecycle!Drop(j)
      \/ Lifecycle!Regress(j) \/ Lifecycle!Repair(j)
  BY <1>2, PhaseOf DEF Lifecycle!Shelve, Lifecycle!Start, Lifecycle!Drop,
                       Lifecycle!Regress, Lifecycle!Repair
<1>4. QED
  BY <1>3, PhaseOf DEF Lived, Lifecycle!Next

LEMMA Resumes ==
  ASSUME Inv, NEW S \in SUBSET Ids, S # {}, \A j \in S : Status(j) = "paused",
         \A j \in Ids : job'[j].status = IF j \in S THEN "pending" ELSE job[j].status
  PROVE  Lived
<1>1. S \subseteq {t \in Lifecycle!Tasks : phase[t] = "paused"}
  BY PhaseOf DEF phase
<1>2. phase' = [t \in Lifecycle!Tasks |-> IF t \in S THEN "pending" ELSE phase[t]]
  BY PhaseOf DEF phase, Status
<1>3. Lifecycle!Resume
  BY <1>1, <1>2 DEF Lifecycle!Resume, phase
<1>4. QED
  BY <1>3 DEF Lived, Lifecycle!Next

-----------------------------------------------------------------------------
(* One lemma for each group of operations *)

LEMMA SubmitLived == ASSUME Inv, Submit PROVE Lived
<1>1. PICK key \in Keys \union {NoKey} :
        \/ \E lane \in Lanes \union {NoLane} : Enqueue(key, lane)
        \/ EnqueueFront(key)
        \/ BeginDirect(key)
  BY DEF Submit
<1>2. ASSUME NEW lane \in Lanes \union {NoLane}, Enqueue(key, lane) PROVE Lived
  <2> DEFINE r == [Absent EXCEPT !.status = "pending", !.key = key, !.lane = lane]
  <2>1. r.status = "pending"
    BY DEF Absent
  <2>2. Create(r)
    BY <1>2 DEF Enqueue
  <2> HIDE DEF r
  <2>3. QED
    BY <2>1, <2>2, Creates
<1>3. CASE EnqueueFront(key)
  <2> DEFINE r == [Absent EXCEPT !.status = "pending", !.key = key]
  <2>1. r.status = "pending"
    BY DEF Absent
  <2>2. Create(r)
    BY <1>3 DEF EnqueueFront
  <2> HIDE DEF r
  <2>3. QED
    BY <2>1, <2>2, Creates
<1>4. CASE BeginDirect(key)
  <2> DEFINE r == [Absent EXCEPT !.status = "running", !.key = key, !.attempt = 1]
  <2>1. r.status = "running"
    BY DEF Absent
  <2>2. Create(r) /\ running = 0
    BY <1>4 DEF BeginDirect
  <2> HIDE DEF r
  <2>3. QED
    BY <2>1, <2>2, Creates
<1>5. QED
  BY <1>1, <1>2, <1>3, <1>4

LEMMA BeginNextLived == ASSUME Inv, BeginNext PROVE Lived
<1>1. PICK i \in DOMAIN pending :
        job' = [job EXCEPT ![pending[i]] =
                  [job[pending[i]] EXCEPT !.status = "running", !.attempt = @ + 1,
                                          !.due = TRUE]]
  BY DEF BeginNext
<1> DEFINE j == pending[i]
           old == job[j]
           r == [old EXCEPT !.status = "running", !.attempt = @ + 1, !.due = TRUE]
<1>2. j \in Ids /\ j \in Range(pending)
  BY TypeParts DEF Inv, QueueType, Range
<1>3. old \in JobRecord /\ Status(j) = "pending"
  BY <1>2, Whereabouts
<1>4. job' = [job EXCEPT ![j] = r] /\ running = 0
  BY <1>1 DEF BeginNext
<1> HIDE DEF old, j
<1>5. r.status = "running"
  BY <1>3 DEF JobRecord
<1> HIDE DEF r
<1>6. QED
  BY <1>2, <1>3, <1>4, <1>5, Changes

LEMMA RetireLived ==
  ASSUME Inv, running # 0, NEW v \in Verdicts,
         Retire(running, [job[running] EXCEPT !.status = v])
  PROVE  Lived
<1> DEFINE old == job[running]
           x == [old EXCEPT !.status = v]
           r == Disowned(x)
<1>1. old \in JobRecord
  BY RunningTask
<1>2. job' = [job EXCEPT ![running] = r]
  BY DEF Retire
<1> HIDE DEF old
<1>3. x \in JobRecord /\ x.status = v
  BY <1>1, StatusTyped DEF Terminal
<1> HIDE DEF x
<1>4. r.status = v
  BY <1>3, DisownedTyped
<1> HIDE DEF r
<1>5. QED
  BY <1>2, <1>4, Stops DEF Verdicts

LEMMA RequeueLived ==
  ASSUME Inv, running # 0, NEW y \in JobRecord, Requeue(running, y) PROVE Lived
<1> DEFINE r == Disowned([y EXCEPT !.status = "pending"])
<1>1. job' = [job EXCEPT ![running] = r]
  BY DEF Requeue
<1>2. r.status = "pending"
  BY StatusTyped, DisownedTyped
<1> HIDE DEF r
<1>3. QED
  BY <1>1, <1>2, Stops

(* The record of a task that is paused, running or waiting. *)
LEMMA PausedRecord ==
  ASSUME NEW old \in JobRecord
  PROVE  Disowned([old EXCEPT !.status = "paused", !.verdict = "none"]).status = "paused"
<1> DEFINE x == [old EXCEPT !.status = "paused", !.verdict = "none"]
<1>1. x \in JobRecord
  BY DEF JobRecord
<1>2. x.status = "paused"
  BY DEF JobRecord
<1> HIDE DEF x
<1>3. Disowned(x).status = "paused"
  BY <1>1, <1>2, DisownedTyped
<1>4. QED
  BY <1>3 DEF x

LEMMA PauseLived ==
  ASSUME Inv, NEW j \in Ids, Status(j) = "pending" \/ running = j,
         job' = [job EXCEPT ![j] =
                   Disowned([job[j] EXCEPT !.status = "paused", !.verdict = "none"])]
  PROVE  Lived
<1> DEFINE r == Disowned([job[j] EXCEPT !.status = "paused", !.verdict = "none"])
<1>1. job' = [job EXCEPT ![j] = r] /\ j # 0
  BY Whereabouts
<1>2. r.status = "paused"
  BY Whereabouts, PausedRecord
<1> HIDE DEF r
<1>3. QED
  BY <1>1, <1>2, Stops, Changes

LEMMA OwnLived ==
  ASSUME Inv, NEW j \in Ids, NEW w \in Workers, Own(j, w) PROVE Lived
<1> DEFINE old == job[j]
<1>0. old \in JobRecord /\ old.status = Status(j) /\ j # 0
  BY Whereabouts
<1>1. CASE Claim(j, w) \/ Heartbeat(j, w)
  <2> DEFINE r == [old EXCEPT !.worker = w, !.lease = FreshLease]
  <2>1. job' = [job EXCEPT ![j] = r]
    BY <1>1 DEF Claim, Claimable, Heartbeat, Owns, Lease
  <2> HIDE DEF old
  <2>2. r.status = old.status
    BY <1>0 DEF JobRecord
  <2> HIDE DEF r
  <2>3. QED
    BY <1>0, <2>1, <2>2, PhaseKept
<1>2. ASSUME NEW p \in Publications, RecordPublication(j, w, p[1], p[2]) PROVE Lived
  <2> DEFINE r == [old EXCEPT !.stage = p[1], !.review = p[2]]
  <2>1. job' = [job EXCEPT ![j] = r]
    BY <1>2 DEF RecordPublication, ChangeJob
  <2> HIDE DEF old
  <2>2. r.status = old.status
    BY <1>0 DEF JobRecord
  <2> HIDE DEF r
  <2>3. QED
    BY <1>0, <2>1, <2>2, PhaseKept
<1>3. ASSUME NEW v \in Evidence, RecordTerminalEvidence(j, w, v) PROVE Lived
  <2> DEFINE r == [old EXCEPT !.verdict = v]
  <2>1. job' = [job EXCEPT ![j] = r]
    BY <1>3 DEF RecordTerminalEvidence, ChangeJob
  <2> HIDE DEF old
  <2>2. r.status = old.status
    BY <1>0 DEF JobRecord
  <2> HIDE DEF r
  <2>3. QED
    BY <1>0, <2>1, <2>2, PhaseKept
<1>4. ASSUME NEW v \in Verdicts, Finish(j, w, v) PROVE Lived
  <2>1. running = j /\ Retire(running, [job[running] EXCEPT !.status = v])
    BY <1>4 DEF Finish, Owns
  <2>2. QED
    BY <1>0, <2>1, RetireLived
<1>5. CASE RetryRunning(j, w)
  <2> DEFINE y == [old EXCEPT !.due = FALSE, !.verdict = "none"]
  <2>1. running = j /\ Requeue(running, y)
    BY <1>5 DEF RetryRunning, Owns
  <2> HIDE DEF old
  <2>2. y \in JobRecord
    BY <1>0 DEF JobRecord
  <2> HIDE DEF y
  <2>3. QED
    BY <1>0, <2>1, <2>2, RequeueLived
<1>6. CASE PauseRunning(j, w)
  BY <1>6, PauseLived DEF PauseRunning, Owns
<1>7. QED
  BY <1>1, <1>2, <1>3, <1>4, <1>5, <1>6 DEF Own

LEMMA AskLived == ASSUME Inv, NEW j \in Ids, Ask(j) PROVE Lived
<1> DEFINE old == job[j]
<1>0. old \in JobRecord /\ old.status = Status(j) /\ j # 0
  BY Whereabouts
<1>1. CASE RetryFailed(j)
  <2> DEFINE r == [Absent EXCEPT !.status = "pending", !.lane = old.lane, !.parent = j,
                                 !.stage = old.stage, !.review = old.review]
  <2>1. r.status = "pending"
    BY DEF Absent
  <2>2. Create(r)
    BY <1>1 DEF RetryFailed
  <2> HIDE DEF r
  <2>3. QED
    BY <2>1, <2>2, Creates
<1>2. CASE PauseQueued(j)
  <2>1. \E i \in DOMAIN pending : pending[i] = j
    BY <1>2 DEF PauseQueued
  <2>2. Status(j) = "pending"
    BY <2>1, Whereabouts DEF Range
  <2>3. QED
    BY <1>2, <2>2, PauseLived DEF PauseQueued
<1>3. CASE PauseStarted(j)
  BY <1>3, PauseLived DEF PauseStarted
<1>4. CASE Resume(j)
  <2> DEFINE r == Disowned([old EXCEPT !.status = "pending"])
  <2>1. job' = [job EXCEPT ![j] = r] /\ \E i \in DOMAIN paused : paused[i] = j
    BY <1>4 DEF Resume
  <2>2. Status(j) = "paused"
    BY <2>1, Whereabouts DEF Range
  <2> HIDE DEF old
  <2>3. r.status = "pending"
    BY <1>0, StatusTyped, DisownedTyped
  <2> HIDE DEF r
  <2>4. \A k \in Ids : job'[k].status = IF k \in {j} THEN "pending" ELSE job[k].status
    <3>1. job \in [Ids -> JobRecord]
      BY DEF Inv, TypeOK
    <3>2. QED
      BY <2>1, <2>3, <3>1
  <2>5. QED
    BY <2>2, <2>4, Resumes
<1>5. CASE CancelPending(j) \/ CancelPaused(j)
  <2> DEFINE r == [old EXCEPT !.status = "cancelled"]
  <2>1. /\ job' = [job EXCEPT ![j] = r]
        /\ \/ \E i \in DOMAIN pending : pending[i] = j
           \/ \E i \in DOMAIN paused : paused[i] = j
    BY <1>5 DEF CancelPending, CancelPaused
  <2>2. Status(j) \in {"pending", "paused"}
    BY <2>1, Whereabouts DEF Range
  <2> HIDE DEF old
  <2>3. r.status = "cancelled"
    BY <1>0 DEF JobRecord
  <2> HIDE DEF r
  <2>4. QED
    BY <2>1, <2>2, <2>3, Changes
<1>6. CASE CancelRunning(j)
  <2>1. running = j /\ Retire(running, [job[running] EXCEPT !.status = "cancelled"])
    BY <1>6 DEF CancelRunning
  <2>2. QED
    BY <1>0, <2>1, RetireLived DEF Verdicts
<1>7. CASE Regress(j) \/ \E x \in {"reverted", "forward-fixed"} : Resolve(j, x)
  <2>1. PICK x \in Repaired :
          /\ job' = [job EXCEPT ![j] = [old EXCEPT !.status = x]]
          /\ \/ Status(j) = "completed" /\ x = "regressed"
             \/ Status(j) = "regressed" /\ x \in {"reverted", "forward-fixed"}
    BY <1>7 DEF Regress, Resolve, ChangeJob, Repaired
  <2> DEFINE r == [old EXCEPT !.status = x]
  <2>2. job' = [job EXCEPT ![j] = r]
    BY <2>1
  <2> HIDE DEF old
  <2>3. r.status = x
    BY <1>0 DEF JobRecord
  <2> HIDE DEF r
  <2>4. QED
    BY <2>1, <2>2, <2>3, Changes
<1>8. QED
  BY <1>1, <1>2, <1>3, <1>4, <1>5, <1>6, <1>7 DEF Ask

LEMMA ResumeAllLived == ASSUME Inv, ResumeAll PROVE Lived
<1> DEFINE resumed(j) == Disowned([job[j] EXCEPT !.status = "pending"])
<1>1. /\ job' = [j \in Ids |-> IF j \in Range(paused) THEN resumed(j) ELSE job[j]]
      /\ paused # <<>>
  BY DEF ResumeAll
<1>2. ASSUME NEW j \in Ids PROVE resumed(j).status = "pending"
  BY Whereabouts, StatusTyped, DisownedTyped
<1> HIDE DEF resumed
<1>3. paused \in Seq(Ids) /\ Range(paused) \in SUBSET Ids /\ Range(paused) # {}
  <2>1. paused \in Seq(Ids)
    BY TypeParts DEF Inv, QueueType
  <2>2. 1 \in DOMAIN paused
    BY <1>1, <2>1
  <2>3. QED
    BY <2>1, <2>2 DEF Range
<1>4. \A j \in Range(paused) : Status(j) = "paused"
  BY <1>3, Whereabouts
<1>5. \A j \in Ids : job'[j].status = IF j \in Range(paused) THEN "pending" ELSE job[j].status
  BY <1>1, <1>2
<1>6. QED
  BY <1>3, <1>4, <1>5, Resumes

LEMMA ReconcileLived == ASSUME Inv, Reconcile PROVE Lived
<1>1. CASE ReconcileNothing
  <2>1. job' = job
    BY <1>1 DEF ReconcileNothing, queueVars
  <2>2. QED
    BY <2>1 DEF Lived, phase, Status
<1>2. CASE ReconcileRepair
  <2>1. PICK v \in Verdicts :
          running # 0 /\ Retire(running, [job[running] EXCEPT !.status = v])
    BY <1>2 DEF ReconcileRepair, Repairable, Reconcilable
  <2>2. QED
    BY <2>1, RetireLived
<1>3. CASE ReconcileExhausted
  BY <1>3, RetireLived DEF ReconcileExhausted, Interrupted, Reconcilable, Verdicts
<1>4. CASE ReconcileRequeue
  <2> DEFINE old == job[running]
             y == [old EXCEPT !.due = TRUE]
  <2>1. running # 0 /\ Requeue(running, y)
    BY <1>4 DEF ReconcileRequeue, Interrupted, Reconcilable
  <2>2. old \in JobRecord
    BY <2>1, RunningTask
  <2> HIDE DEF old
  <2>3. y \in JobRecord
    BY <2>2 DEF JobRecord
  <2> HIDE DEF y
  <2>4. QED
    BY <2>1, <2>3, RequeueLived
<1>5. QED
  BY <1>1, <1>2, <1>3, <1>4 DEF Reconcile

LEMMA BecomeDueLived == ASSUME Inv, NEW j \in Ids, BecomeDue(j) PROVE Lived
<1> DEFINE old == job[j]
           r == [old EXCEPT !.due = TRUE]
<1>1. old \in JobRecord /\ old.status = Status(j)
  BY Whereabouts
<1>2. job' = [job EXCEPT ![j] = r]
  BY DEF BecomeDue
<1> HIDE DEF old
<1>3. r.status = old.status
  BY <1>1 DEF JobRecord
<1> HIDE DEF r
<1>4. QED
  BY <1>1, <1>2, <1>3, PhaseKept

-----------------------------------------------------------------------------
LEMMA InitLived == Init => Lifecycle!Init
<1> SUFFICES ASSUME Init PROVE Lifecycle!Init
  OBVIOUS
<1>1. \A j \in Ids : Status(j) = "absent"
  BY DEF Init, Status, Absent
<1>2. QED
  BY <1>1 DEF Lifecycle!Init, Lifecycle!Tasks, Ids

LEMMA StepLived == Inv /\ [Next]_vars => [Lifecycle!Next]_phase
<1> SUFFICES ASSUME Inv, [Next]_vars PROVE Lived
  BY DEF Lived
<1>1. CASE Submit
  BY <1>1, SubmitLived
<1>2. CASE BeginNext
  BY <1>2, BeginNextLived
<1>3. ASSUME NEW j \in Ids, BecomeDue(j) \/ Ask(j) \/ \E w \in Workers : Own(j, w)
      PROVE  Lived
  BY <1>3, BecomeDueLived, AskLived, OwnLived
<1>4. CASE ResumeAll
  BY <1>4, ResumeAllLived
<1>5. CASE Inspect \/ UNCHANGED vars \/ \E W \in SUBSET live : WorkersDie(W)
  <2>1. job' = job
    BY <1>5 DEF Inspect, WorkersDie, vars, queueVars
  <2>2. QED
    BY <2>1 DEF Lived, phase, Status
<1>6. CASE Reconcile
  BY <1>6, ReconcileLived
<1>7. QED
  BY <1>1, <1>2, <1>3, <1>4, <1>5, <1>6 DEF Next

(* Whatever the lists, leases, retries and recoveries of queue.py do, each *)
(* task lives the life TaskLifecycle promises, and one task runs at a time.*)
THEOREM LifecycleCorrect == Spec => LifecycleSpec
<1>1. Inv /\ [Next]_vars => [Lifecycle!Next]_[j \in Ids |-> Status(j)]
  BY StepLived DEF phase
<1>2. QED
  BY <1>1, InitLived, InvCorrect, PTL DEF Spec, LifecycleSpec, Lifecycle!Spec

-----------------------------------------------------------------------------
(* Keys and parents: where the tasks come from *)

Orphans   == \A j \in Ids : Status(j) = "absent" => job[j].parent = 0
OriginInv == Inv /\ KeysUnique /\ RetriesLinear /\ Orphans

(* A step keeps every task's key, parent and lane, *)
Kept == /\ nextId' = nextId
        /\ \A j \in Ids : /\ job'[j].key = job[j].key /\ job'[j].parent = job[j].parent
                          /\ job'[j].lane = job[j].lane

(* or creates a task, by a new request or as the only retry of its parent. *)
RetryOfFailed(r) == /\ r.parent \in Ids /\ Status(r.parent) = "failed"
              /\ \A k \in Ids : job[k].parent = r.parent => Status(k) = "cancelled"
Created(r) == /\ Create(r)
              /\ ~KeyTaken(r.key)
              /\ r.parent = 0 \/ RetryOfFailed(r)

LEMMA KeptBy ==
  ASSUME Inv, NEW j \in Ids, NEW r, job' = [job EXCEPT ![j] = r], nextId' = nextId,
         r.key = job[j].key, r.parent = job[j].parent, r.lane = job[j].lane
  PROVE  Kept
<1>1. job \in [Ids -> JobRecord]
  BY DEF Inv, TypeOK
<1>2. QED
  BY <1>1 DEF Kept

LEMMA DisownedOrigin ==
  ASSUME NEW r \in JobRecord
  PROVE  /\ Disowned(r).key = r.key /\ Disowned(r).parent = r.parent
         /\ Disowned(r).lane = r.lane
  BY DEF Disowned, JobRecord

LEMMA StatusOrigin ==
  ASSUME NEW r \in JobRecord,
         NEW s \in {"absent", "pending", "paused", "running"} \union Terminal
  PROVE  /\ [r EXCEPT !.status = s].key = r.key /\ [r EXCEPT !.status = s].parent = r.parent
         /\ Disowned([r EXCEPT !.status = s]).key = r.key
         /\ Disowned([r EXCEPT !.status = s]).parent = r.parent
         /\ [r EXCEPT !.status = s].lane = r.lane
         /\ Disowned([r EXCEPT !.status = s]).lane = r.lane
<1> DEFINE x == [r EXCEPT !.status = s]
<1>1. x \in JobRecord
  BY StatusTyped
<1>2. x.key = r.key /\ x.parent = r.parent /\ x.lane = r.lane
  BY DEF JobRecord
<1> HIDE DEF x
<1>3. /\ Disowned(x).key = r.key /\ Disowned(x).parent = r.parent
      /\ Disowned(x).lane = r.lane
  BY <1>1, <1>2, DisownedOrigin
<1>4. QED
  BY <1>2, <1>3 DEF x

-----------------------------------------------------------------------------
(* The operations, in groups *)

LEMMA SubmitCreates == ASSUME Submit PROVE \E r : Created(r)
<1>1. PICK key \in Keys \union {NoKey} :
        \/ \E lane \in Lanes \union {NoLane} : Enqueue(key, lane)
        \/ EnqueueFront(key)
        \/ BeginDirect(key)
  BY DEF Submit
<1>2. ASSUME NEW lane \in Lanes \union {NoLane}, Enqueue(key, lane) PROVE \E r : Created(r)
  <2> DEFINE r == [Absent EXCEPT !.status = "pending", !.key = key, !.lane = lane]
  <2>1. r.key = key /\ r.parent = 0
    BY DEF Absent
  <2>2. Create(r) /\ ~KeyTaken(key)
    BY <1>2 DEF Enqueue
  <2> HIDE DEF r
  <2>3. QED
    BY <2>1, <2>2 DEF Created
<1>3. CASE EnqueueFront(key)
  <2> DEFINE r == [Absent EXCEPT !.status = "pending", !.key = key]
  <2>1. r.key = key /\ r.parent = 0
    BY DEF Absent
  <2>2. Create(r) /\ ~KeyTaken(key)
    BY <1>3 DEF EnqueueFront
  <2> HIDE DEF r
  <2>3. QED
    BY <2>1, <2>2 DEF Created
<1>4. CASE BeginDirect(key)
  <2> DEFINE r == [Absent EXCEPT !.status = "running", !.key = key, !.attempt = 1]
  <2>1. r.key = key /\ r.parent = 0
    BY DEF Absent
  <2>2. Create(r) /\ ~KeyTaken(key)
    BY <1>4 DEF BeginDirect
  <2> HIDE DEF r
  <2>3. QED
    BY <2>1, <2>2 DEF Created
<1>5. QED
  BY <1>1, <1>2, <1>3, <1>4

LEMMA RetryCreates == ASSUME NEW j \in Ids, RetryFailed(j) PROVE \E r : Created(r)
<1> DEFINE r == [Absent EXCEPT !.status = "pending", !.lane = job[j].lane, !.parent = j,
                               !.stage = job[j].stage, !.review = job[j].review]
<1>1. r.key = NoKey /\ r.parent = j
  BY DEF Absent
<1>2. Create(r)
  BY DEF RetryFailed
<1> HIDE DEF r
<1>3. RetryOfFailed(r)
  BY <1>1 DEF RetryOfFailed, RetryFailed
<1>4. QED
  BY <1>1, <1>2, <1>3 DEF Created, KeyTaken

LEMMA RetireKept ==
  ASSUME Inv, running # 0, NEW v \in Terminal,
         Retire(running, [job[running] EXCEPT !.status = v])
  PROVE  Kept
<1> DEFINE r == Disowned([job[running] EXCEPT !.status = v])
<1>1. running \in Ids /\ job[running] \in JobRecord
  BY RunningTask
<1>2. job' = [job EXCEPT ![running] = r] /\ nextId' = nextId
  BY DEF Retire
<1>3. r.key = job[running].key /\ r.parent = job[running].parent /\ r.lane = job[running].lane
  BY <1>1, StatusOrigin
<1> HIDE DEF r
<1>4. QED
  BY <1>1, <1>2, <1>3, KeptBy

LEMMA RequeueKept ==
  ASSUME Inv, running # 0, NEW y \in JobRecord, Requeue(running, y),
         y.key = job[running].key, y.parent = job[running].parent,
         y.lane = job[running].lane
  PROVE  Kept
<1> DEFINE r == Disowned([y EXCEPT !.status = "pending"])
<1>1. running \in Ids
  BY RunningTask
<1>2. job' = [job EXCEPT ![running] = r] /\ nextId' = nextId
  BY DEF Requeue
<1>3. r.key = y.key /\ r.parent = y.parent /\ r.lane = y.lane
  BY StatusOrigin
<1> HIDE DEF r
<1>4. QED
  BY <1>1, <1>2, <1>3, KeptBy

LEMMA PauseKept ==
  ASSUME Inv, NEW j \in Ids, nextId' = nextId,
         job' = [job EXCEPT ![j] =
                   Disowned([job[j] EXCEPT !.status = "paused", !.verdict = "none"])]
  PROVE  Kept
<1> DEFINE old == job[j]
           x == [old EXCEPT !.status = "paused", !.verdict = "none"]
           r == Disowned(x)
<1>1. old \in JobRecord
  BY Whereabouts
<1>2. job' = [job EXCEPT ![j] = r]
  OBVIOUS
<1> HIDE DEF old
<1>3. x \in JobRecord
  BY <1>1 DEF JobRecord
<1>4. x.key = old.key /\ x.parent = old.parent /\ x.lane = old.lane
  BY <1>1 DEF JobRecord
<1> HIDE DEF x
<1>5. r.key = old.key /\ r.parent = old.parent /\ r.lane = old.lane
  BY <1>3, <1>4, DisownedOrigin
<1> HIDE DEF r
<1>6. QED
  BY <1>2, <1>5, KeptBy DEF old

LEMMA OwnKept == ASSUME Inv, NEW j \in Ids, NEW w \in Workers, Own(j, w) PROVE Kept
<1> DEFINE old == job[j]
<1>0. old \in JobRecord /\ j # 0
  BY Whereabouts
<1>1. CASE Claim(j, w) \/ Heartbeat(j, w)
  <2> DEFINE r == [old EXCEPT !.worker = w, !.lease = FreshLease]
  <2>1. job' = [job EXCEPT ![j] = r] /\ nextId' = nextId
    BY <1>1 DEF Claim, Claimable, Heartbeat, Owns, Lease
  <2> HIDE DEF old
  <2>2. r.key = old.key /\ r.parent = old.parent /\ r.lane = old.lane
    BY <1>0 DEF JobRecord
  <2> HIDE DEF r
  <2>3. QED
    BY <2>1, <2>2, KeptBy DEF old
<1>2. ASSUME NEW p \in Publications, RecordPublication(j, w, p[1], p[2]) PROVE Kept
  <2> DEFINE r == [old EXCEPT !.stage = p[1], !.review = p[2]]
  <2>1. job' = [job EXCEPT ![j] = r] /\ nextId' = nextId
    BY <1>2 DEF RecordPublication, ChangeJob
  <2> HIDE DEF old
  <2>2. r.key = old.key /\ r.parent = old.parent /\ r.lane = old.lane
    BY <1>0 DEF JobRecord
  <2> HIDE DEF r
  <2>3. QED
    BY <2>1, <2>2, KeptBy DEF old
<1>3. ASSUME NEW v \in Evidence, RecordTerminalEvidence(j, w, v) PROVE Kept
  <2> DEFINE r == [old EXCEPT !.verdict = v]
  <2>1. job' = [job EXCEPT ![j] = r] /\ nextId' = nextId
    BY <1>3 DEF RecordTerminalEvidence, ChangeJob
  <2> HIDE DEF old
  <2>2. r.key = old.key /\ r.parent = old.parent /\ r.lane = old.lane
    BY <1>0 DEF JobRecord
  <2> HIDE DEF r
  <2>3. QED
    BY <2>1, <2>2, KeptBy DEF old
<1>4. ASSUME NEW v \in Verdicts, Finish(j, w, v) PROVE Kept
  <2>1. running = j /\ v \in Terminal /\ Retire(running, [job[running] EXCEPT !.status = v])
    BY <1>4 DEF Finish, Owns, Terminal
  <2>2. QED
    BY <1>0, <2>1, RetireKept
<1>5. CASE RetryRunning(j, w)
  <2> DEFINE y == [old EXCEPT !.due = FALSE, !.verdict = "none"]
  <2>1. running = j /\ Requeue(running, y)
    BY <1>5 DEF RetryRunning, Owns
  <2> HIDE DEF old
  <2>2. y \in JobRecord
    BY <1>0 DEF JobRecord
  <2>3. y.key = old.key /\ y.parent = old.parent /\ y.lane = old.lane
    BY <1>0 DEF JobRecord
  <2> HIDE DEF y
  <2>4. QED
    BY <1>0, <2>1, <2>2, <2>3, RequeueKept DEF old
<1>6. CASE PauseRunning(j, w)
  BY <1>6, PauseKept DEF PauseRunning
<1>7. QED
  BY <1>1, <1>2, <1>3, <1>4, <1>5, <1>6 DEF Own

LEMMA AskKept ==
  ASSUME Inv, NEW j \in Ids, Ask(j) PROVE Kept \/ \E r : Created(r)
<1> DEFINE old == job[j]
<1>0. old \in JobRecord /\ j # 0
  BY Whereabouts
<1>1. CASE RetryFailed(j)
  BY <1>1, RetryCreates
<1>2. CASE PauseQueued(j) \/ PauseStarted(j)
  BY <1>2, PauseKept DEF PauseQueued, PauseStarted
<1>3. CASE Resume(j)
  <2> DEFINE r == Disowned([old EXCEPT !.status = "pending"])
  <2>1. job' = [job EXCEPT ![j] = r] /\ nextId' = nextId
    BY <1>3 DEF Resume
  <2> HIDE DEF old
  <2>2. r.key = old.key /\ r.parent = old.parent /\ r.lane = old.lane
    BY <1>0, StatusOrigin
  <2> HIDE DEF r
  <2>3. QED
    BY <2>1, <2>2, KeptBy DEF old
<1>4. CASE CancelRunning(j)
  <2>1. running = j /\ Retire(running, [job[running] EXCEPT !.status = "cancelled"])
    BY <1>4 DEF CancelRunning
  <2>2. "cancelled" \in Terminal
    BY DEF Terminal, Verdicts
  <2>3. QED
    BY <1>0, <2>1, <2>2, RetireKept
<1>5. CASE \/ CancelPending(j) \/ CancelPaused(j)
           \/ Regress(j) \/ \E x \in {"reverted", "forward-fixed"} : Resolve(j, x)
  <2>1. PICK s \in {"cancelled"} \union Repaired :
          job' = [job EXCEPT ![j] = [old EXCEPT !.status = s]] /\ nextId' = nextId
    BY <1>5 DEF CancelPending, CancelPaused, Regress, Resolve, ChangeJob, Repaired
  <2> DEFINE r == [old EXCEPT !.status = s]
  <2>2. job' = [job EXCEPT ![j] = r]
    BY <2>1
  <2>3. s \in Terminal
    BY DEF Terminal, Verdicts
  <2> HIDE DEF old
  <2>4. r.key = old.key /\ r.parent = old.parent /\ r.lane = old.lane
    BY <1>0, <2>3, StatusOrigin
  <2> HIDE DEF r
  <2>5. QED
    BY <2>1, <2>2, <2>4, KeptBy DEF old
<1>6. QED
  BY <1>1, <1>2, <1>3, <1>4, <1>5 DEF Ask

LEMMA StartKept ==
  ASSUME Inv, BeginNext \/ ResumeAll \/ \E j \in Ids : BecomeDue(j) PROVE Kept
<1>1. CASE BeginNext
  <2>1. PICK i \in DOMAIN pending :
          /\ job' = [job EXCEPT ![pending[i]] =
                       [job[pending[i]] EXCEPT !.status = "running", !.attempt = @ + 1,
                                               !.due = TRUE]]
          /\ nextId' = nextId
    BY <1>1 DEF BeginNext
  <2> DEFINE j == pending[i]
             old == job[j]
             r == [old EXCEPT !.status = "running", !.attempt = @ + 1, !.due = TRUE]
  <2>2. j \in Ids
    BY TypeParts DEF Inv, QueueType
  <2>3. old \in JobRecord
    BY <2>2, Whereabouts
  <2>4. job' = [job EXCEPT ![j] = r]
    BY <2>1
  <2> HIDE DEF old, j
  <2>5. r.key = old.key /\ r.parent = old.parent /\ r.lane = old.lane
    BY <2>3 DEF JobRecord
  <2> HIDE DEF r
  <2>6. QED
    BY <2>1, <2>2, <2>4, <2>5, KeptBy DEF old
<1>2. CASE ResumeAll
  <2> DEFINE resumed(j) == Disowned([job[j] EXCEPT !.status = "pending"])
  <2>1. /\ job' = [j \in Ids |-> IF j \in Range(paused) THEN resumed(j) ELSE job[j]]
        /\ nextId' = nextId
    BY <1>2 DEF ResumeAll
  <2>2. ASSUME NEW j \in Ids
        PROVE  /\ resumed(j).key = job[j].key /\ resumed(j).parent = job[j].parent
               /\ resumed(j).lane = job[j].lane
    BY Whereabouts, StatusOrigin
  <2> HIDE DEF resumed
  <2>3. QED
    BY <2>1, <2>2 DEF Kept
<1>3. ASSUME NEW j \in Ids, BecomeDue(j) PROVE Kept
  <2> DEFINE old == job[j]
             r == [old EXCEPT !.due = TRUE]
  <2>1. job' = [job EXCEPT ![j] = r] /\ nextId' = nextId /\ old \in JobRecord
    BY <1>3, Whereabouts DEF BecomeDue
  <2> HIDE DEF old
  <2>2. r.key = old.key /\ r.parent = old.parent /\ r.lane = old.lane
    BY <2>1 DEF JobRecord
  <2> HIDE DEF r
  <2>3. QED
    BY <2>1, <2>2, KeptBy DEF old
<1>4. QED
  BY <1>1, <1>2, <1>3

LEMMA ReconcileKept == ASSUME Inv, Reconcile PROVE Kept
<1>1. CASE ReconcileNothing
  BY <1>1 DEF ReconcileNothing, queueVars, Kept
<1>2. CASE ReconcileRepair
  <2>1. PICK v \in Verdicts :
          running # 0 /\ Retire(running, [job[running] EXCEPT !.status = v])
    BY <1>2 DEF ReconcileRepair, Repairable, Reconcilable
  <2>2. QED
    BY <2>1, RetireKept DEF Terminal
<1>3. CASE ReconcileExhausted
  <2>1. running # 0 /\ Retire(running, [job[running] EXCEPT !.status = "failed"])
    BY <1>3 DEF ReconcileExhausted, Interrupted, Reconcilable
  <2>2. "failed" \in Terminal
    BY DEF Terminal, Verdicts
  <2>3. QED
    BY <2>1, <2>2, RetireKept
<1>4. CASE ReconcileRequeue
  <2> DEFINE old == job[running]
             y == [old EXCEPT !.due = TRUE]
  <2>1. running # 0 /\ Requeue(running, y)
    BY <1>4 DEF ReconcileRequeue, Interrupted, Reconcilable
  <2>2. old \in JobRecord
    BY <2>1, RunningTask
  <2> HIDE DEF old
  <2>3. y \in JobRecord
    BY <2>2 DEF JobRecord
  <2>4. y.key = old.key /\ y.parent = old.parent /\ y.lane = old.lane
    BY <2>2 DEF JobRecord
  <2> HIDE DEF y
  <2>5. QED
    BY <2>1, <2>3, <2>4, RequeueKept DEF old
<1>5. QED
  BY <1>1, <1>2, <1>3, <1>4 DEF Reconcile

LEMMA StepOrigin == ASSUME Inv, [Next]_vars PROVE Kept \/ \E r : Created(r)
<1>1. CASE Submit
  BY <1>1, SubmitCreates
<1>2. CASE BeginNext \/ ResumeAll \/ \E j \in Ids : BecomeDue(j)
  BY <1>2, StartKept
<1>3. ASSUME NEW j \in Ids, Ask(j) \/ \E w \in Workers : Own(j, w)
      PROVE  Kept \/ \E r : Created(r)
  BY <1>3, AskKept, OwnKept
<1>4. CASE Inspect \/ UNCHANGED vars \/ \E W \in SUBSET live : WorkersDie(W)
  BY <1>4 DEF Inspect, WorkersDie, vars, queueVars, Kept
<1>5. CASE Reconcile
  BY <1>5, ReconcileKept
<1>6. QED
  BY <1>1, <1>2, <1>3, <1>4, <1>5 DEF Next

-----------------------------------------------------------------------------
(* By the life cycle, what failed or was cancelled stays so. *)
LEMMA Settled ==
  ASSUME Inv, [Next]_vars, NEW j \in Ids, Status(j) \in {"failed", "cancelled"}
  PROVE  Status(j)' = Status(j)
<1>1. Lifecycle!Next \/ phase' = phase
  BY StepLived
<1>2. phase[j] = Status(j) /\ phase'[j] = Status(j)'
  BY DEF phase
<1>3. ASSUME NEW t \in Ids, NEW from, NEW to, Lifecycle!Move(t, from, to),
             "failed" \notin from, "cancelled" \notin from
      PROVE  phase'[j] = phase[j]
  <2>1. phase[t] \in from /\ phase' = [phase EXCEPT ![t] = to]
    BY <1>3 DEF Lifecycle!Move, phase
  <2>2. t # j
    BY <1>2, <1>3, <2>1
  <2>3. QED
    BY <2>1, <2>2 DEF phase
<1>4. CASE Lifecycle!Resume
  <2>1. PICK S \in SUBSET {t \in Lifecycle!Tasks : phase[t] = "paused"} :
          phase' = [t \in Lifecycle!Tasks |-> IF t \in S THEN "pending" ELSE phase[t]]
    BY <1>4 DEF Lifecycle!Resume, phase
  <2>2. j \notin S
    BY <1>2, <2>1
  <2>3. QED
    BY <1>2, <2>1, <2>2, PhaseOf
<1>5. ASSUME NEW t \in Lifecycle!Tasks,
             \/ \E to \in {"pending", "running"} : Lifecycle!Create(t, to)
             \/ Lifecycle!Start(t) \/ Lifecycle!Stop(t) \/ Lifecycle!Shelve(t)
             \/ Lifecycle!Drop(t) \/ Lifecycle!Regress(t) \/ Lifecycle!Repair(t)
      PROVE  phase'[j] = phase[j]
  <2>1. \E to : \E from \in {{"absent"}, {"pending"}, {"running"}, {"paused"},
                             {"completed"}, {"regressed"}} : Lifecycle!Move(t, from, to)
    BY <1>5 DEF Lifecycle!Create, Lifecycle!Start, Lifecycle!Stop, Lifecycle!Shelve,
                Lifecycle!Drop, Lifecycle!Regress, Lifecycle!Repair
  <2>2. QED
    BY <1>3, <2>1, PhaseOf
<1>6. QED
  BY <1>1, <1>2, <1>4, <1>5 DEF Lifecycle!Next

LEMMA KeptOrigins ==
  ASSUME OriginInv, [Next]_vars, Kept PROVE OriginInv'
<1>1. Inv /\ Inv' /\ job \in [Ids -> JobRecord]
  BY StepInv DEF OriginInv, Inv, TypeOK
<1>2. \A j \in Ids : Status(j)' = "absent" <=> Status(j) = "absent"
  BY <1>1 DEF Inv, Placement, Kept
<1>3. KeysUnique'
  BY <1>2 DEF OriginInv, KeysUnique, Kept
<1>4. Orphans'
  BY <1>2 DEF OriginInv, Orphans, Kept
<1>5. RetriesLinear'
  <2> SUFFICES ASSUME NEW k \in Ids, job'[k].parent # 0
               PROVE  /\ job'[k].parent < k
                      /\ Status(job[k].parent)' = "failed"
                      /\ \A m \in Ids : job'[m].parent = job'[k].parent /\ m # k =>
                           "cancelled" \in {Status(k)', Status(m)'}
    BY DEF RetriesLinear, Status, Kept
  <2>1. job'[k].parent = job[k].parent /\ job[k].parent \in Ids
    BY <1>1 DEF Kept, JobRecord, Ids
  <2>2. job[k].parent < k /\ Status(job[k].parent) = "failed"
    BY <2>1 DEF OriginInv, RetriesLinear
  <2>3. Status(job[k].parent)' = "failed"
    BY <1>1, <2>1, <2>2, Settled DEF Status
  <2>4. ASSUME NEW m \in Ids, job'[m].parent = job'[k].parent, m # k
        PROVE  "cancelled" \in {Status(k)', Status(m)'}
    <3>1. "cancelled" \in {Status(k), Status(m)}
      BY <2>1, <2>4 DEF OriginInv, RetriesLinear, Kept
    <3>2. QED
      BY <1>1, <3>1, Settled
  <2>5. QED
    BY <2>1, <2>2, <2>3, <2>4
<1>6. QED
  BY <1>1, <1>3, <1>4, <1>5 DEF OriginInv

LEMMA CreatedOrigins ==
  ASSUME OriginInv, [Next]_vars, NEW r, Created(r) PROVE OriginInv'
<1>0. PICK n \in Ids : n = nextId
  BY DEF Created, Create
<1>1. Inv /\ Inv' /\ job \in [Ids -> JobRecord] /\ n \in Nat
  BY StepInv DEF OriginInv, Inv, TypeOK, Ids
<1>2. /\ job' = [job EXCEPT ![n] = r] /\ nextId' = n + 1
      /\ ~KeyTaken(r.key) /\ (r.parent = 0 \/ RetryOfFailed(r))
  BY <1>0 DEF Created, Create
<1>3. /\ \A j \in Ids : j >= n <=> Status(j) = "absent"
      /\ \A j \in Ids : j >= nextId' <=> Status(j)' = "absent"
  BY <1>0, <1>1 DEF Inv, Placement
<1>4. Status(n) = "absent" /\ Status(n)' # "absent"
  <2>1. n >= n /\ ~(n >= n + 1)
    BY <1>1
  <2>2. QED
    BY <1>2, <1>3, <2>1
<1>5. job'[n] = r /\ \A j \in Ids \ {n} : job'[j] = job[j] /\ Status(j)' = Status(j)
  BY <1>1, <1>2 DEF Status
<1>6. KeysUnique'
  <2> SUFFICES ASSUME NEW j \in Ids, NEW k \in Ids,
                      Status(j)' # "absent", Status(k)' # "absent",
                      job'[j].key = job'[k].key, job'[j].key # NoKey
               PROVE  j = k
    BY DEF KeysUnique
  <2>1. ASSUME NEW m \in Ids \ {n}, Status(m)' # "absent" PROVE r.key = NoKey \/ job'[m].key # r.key
    BY <1>2, <1>5, <2>1 DEF KeyTaken
  <2>2. CASE j # n /\ k # n
    BY <1>5, <2>2 DEF OriginInv, KeysUnique
  <2>3. QED
    BY <1>5, <2>1, <2>2
<1>7. Orphans'
  <2> SUFFICES ASSUME NEW j \in Ids, Status(j)' = "absent" PROVE job'[j].parent = 0
    BY DEF Orphans
  <2>1. j # n
    BY <1>4
  <2>2. QED
    BY <1>5, <2>1 DEF OriginInv, Orphans
<1>8. RetriesLinear'
  <2> SUFFICES ASSUME NEW k \in Ids, job'[k].parent # 0
               PROVE  /\ job'[k].parent < k
                      /\ job'[job'[k].parent].status = "failed"
                      /\ \A m \in Ids : job'[m].parent = job'[k].parent /\ m # k =>
                           "cancelled" \in {Status(k)', Status(m)'}
    BY DEF RetriesLinear, Status
  <2>1. CASE k = n
    <3>1. r.parent \in Ids /\ Status(r.parent) = "failed"
          /\ \A m \in Ids : job[m].parent = r.parent => Status(m) = "cancelled"
      BY <1>2, <1>5, <2>1 DEF RetryOfFailed
    <3>2. r.parent < n /\ r.parent # n
      BY <1>1, <1>3, <1>4, <3>1 DEF Ids
    <3>3. QED
      BY <1>5, <2>1, <3>1, <3>2 DEF Status
  <2>2. CASE k # n
    <3>1. job'[k].parent = job[k].parent /\ job[k].parent \in Ids
      BY <1>1, <1>5, <2>2 DEF JobRecord, Ids
    <3>2. job[k].parent < k /\ Status(job[k].parent) = "failed" /\ job[k].parent # n
      BY <1>4, <3>1 DEF OriginInv, RetriesLinear
    <3>3. ASSUME NEW m \in Ids, job'[m].parent = job'[k].parent, m # k
          PROVE  "cancelled" \in {Status(k)', Status(m)'}
      <4>1. CASE m = n
        <5>1. Status(k) = "cancelled"
          BY <1>2, <1>5, <3>1, <3>3, <4>1 DEF RetryOfFailed
        <5>2. QED
          BY <1>5, <2>2, <5>1
      <4>2. CASE m # n
        <5>1. "cancelled" \in {Status(k), Status(m)}
          BY <1>5, <3>1, <3>3, <4>2 DEF OriginInv, RetriesLinear
        <5>2. QED
          BY <1>5, <2>2, <4>2, <5>1
      <4>3. QED
        BY <4>1, <4>2
    <3>4. QED
      BY <1>5, <3>1, <3>2, <3>3 DEF Status
  <2>3. QED
    BY <2>1, <2>2
<1>9. QED
  BY <1>1, <1>6, <1>7, <1>8 DEF OriginInv

LEMMA InitOrigins == Init => OriginInv
<1> SUFFICES ASSUME Init PROVE OriginInv
  OBVIOUS
<1>1. \A j \in Ids : Status(j) = "absent" /\ job[j].parent = 0
  BY DEF Init, Status, Absent
<1>2. QED
  BY <1>1, InitInv DEF OriginInv, KeysUnique, RetriesLinear, Orphans

(* The keys and parents queue.py writes when it creates a task are never   *)
(* rewritten, and what it checked before it wrote them stays true.         *)
THEOREM OriginInvCorrect == Spec => []OriginInv
<1>1. OriginInv /\ [Next]_vars => OriginInv'
  BY StepOrigin, KeptOrigins, CreatedOrigins DEF OriginInv
<1>2. QED
  BY <1>1, InitOrigins, PTL DEF Spec

(* A request delivered again, even after its task has ended, been paused or *)
(* retried, makes no second task (_find_task_by_idempotency_key).           *)
THEOREM KeysCorrect == Spec => []KeysUnique
<1>1. OriginInv => KeysUnique
  BY DEF OriginInv
<1>2. QED
  BY <1>1, OriginInvCorrect, PTL

(* However often /task retry is asked for, each failed task has at most one *)
(* retry that was not cancelled (retry_failed_task).                        *)
THEOREM RetriesCorrect == Spec => []RetriesLinear
<1>1. OriginInv => RetriesLinear
  BY DEF OriginInv
<1>2. QED
  BY <1>1, OriginInvCorrect, PTL

-----------------------------------------------------------------------------
(* Lanes: in which order the tasks of an extension run *)

SameLane(j, k) == job[j].lane = job[k].lane /\ job[j].lane # NoLane
InLaneOrder    == {p \in Ids \X Ids : SameLane(p[1], p[2]) => p[1] < p[2]}
Ordered(s, R)  == \A i, k \in DOMAIN s : i < k => <<s[i], s[k]>> \in R

(* A task that started and has not ended is the first of its lane. *)
First(j) == j \in Range(paused) \/ j = running
FirstOfLane ==
  \A j, k \in Ids :
    First(j) /\ (First(k) \/ k \in Range(pending)) /\ j # k /\ SameLane(j, k)
      => ~First(k) /\ j < k

LaneInv == Inv /\ Ordered(pending, InLaneOrder) /\ FirstOfLane

LEMMA ConcatOrdered ==
  ASSUME NEW S, NEW s \in Seq(S), NEW t \in Seq(S), NEW R,
         Ordered(s, R), Ordered(t, R),
         \A x \in Range(s), y \in Range(t) : <<x, y>> \in R
  PROVE  Ordered(s \o t, R)
<1> DEFINE u == s \o t
<1>1. /\ DOMAIN u = 1..(Len(s) + Len(t)) /\ DOMAIN s = 1..Len(s) /\ DOMAIN t = 1..Len(t)
      /\ Len(s) \in Nat /\ Len(t) \in Nat
  OBVIOUS
<1>2. \A i \in DOMAIN u : IF i <= Len(s) THEN i \in DOMAIN s /\ u[i] = s[i]
                          ELSE i - Len(s) \in DOMAIN t /\ u[i] = t[i - Len(s)]
  BY <1>1
<1> HIDE DEF u
<1>3. ASSUME NEW i \in DOMAIN u, NEW k \in DOMAIN u, i < k PROVE <<u[i], u[k]>> \in R
  <2>0. i \in Nat /\ k \in Nat
    BY <1>1
  <2>1. CASE k <= Len(s)
    BY <1>1, <1>2, <1>3, <2>0, <2>1 DEF Ordered
  <2>2. CASE i <= Len(s) /\ ~(k <= Len(s))
    BY <1>1, <1>2, <2>2 DEF Range
  <2>3. CASE ~(i <= Len(s)) /\ ~(k <= Len(s))
    <3>1. i - Len(s) < k - Len(s)
      BY <1>1, <1>3, <2>0
    <3>2. QED
      BY <1>2, <2>3, <3>1 DEF Ordered
  <2>4. QED
    BY <1>1, <1>3, <2>0, <2>1, <2>2, <2>3
<1>4. QED
  BY <1>3 DEF Ordered, u

LEMMA ConcatAt ==
  ASSUME NEW S, NEW p \in Seq(S), NEW q \in Seq(S)
  PROVE  /\ DOMAIN (p \o q) = 1..(Len(p) + Len(q))
         /\ \A k \in 1..(Len(p) + Len(q)) :
              (p \o q)[k] = IF k <= Len(p) THEN p[k] ELSE q[k - Len(p)]
  OBVIOUS

(* Position k of a list one element was removed from. *)
LEMMA RemovedAt ==
  ASSUME NEW S, NEW s \in Seq(S), NEW i \in DOMAIN s
  PROVE  /\ DOMAIN RemoveAt(s, i) = 1..(Len(s) - 1)
         /\ \A k \in 1..(Len(s) - 1) : RemoveAt(s, i)[k] = s[IF k < i THEN k ELSE k + 1]
<1> DEFINE p == SubSeq(s, 1, i - 1)
           q == SubSeq(s, i + 1, Len(s))
<1>0. Len(s) \in Nat /\ i \in 1..Len(s)
  OBVIOUS
<1>1. p \in Seq(S) /\ Len(p) = i - 1 /\ \A k \in 1..(i - 1) : p[k] = s[k]
  BY <1>0
<1>2. q \in Seq(S) /\ Len(q) = Len(s) - i /\ \A k \in 1..(Len(s) - i) : q[k] = s[i + k]
  BY <1>0
<1>3. RemoveAt(s, i) = p \o q
  BY DEF RemoveAt
<1> HIDE DEF p, q
<1>4. (i - 1) + (Len(s) - i) = Len(s) - 1
  BY <1>0
<1>5. /\ DOMAIN RemoveAt(s, i) = 1..(Len(s) - 1)
      /\ \A k \in 1..(Len(s) - 1) :
           RemoveAt(s, i)[k] = IF k <= i - 1 THEN p[k] ELSE q[k - (i - 1)]
  <2>1. p \in Seq(S) /\ q \in Seq(S)
    BY <1>1, <1>2
  <2>2. /\ DOMAIN (p \o q) = 1..(Len(p) + Len(q))
        /\ \A k \in 1..(Len(p) + Len(q)) :
             (p \o q)[k] = IF k <= Len(p) THEN p[k] ELSE q[k - Len(p)]
    BY <2>1, ConcatAt
  <2>3. Len(p) = i - 1 /\ Len(p) + Len(q) = Len(s) - 1
    BY <1>1, <1>2, <1>4
  <2>4. QED
    BY <1>3, <2>2, <2>3
<1>6. ASSUME NEW k \in 1..(Len(s) - 1)
      PROVE  RemoveAt(s, i)[k] = s[IF k < i THEN k ELSE k + 1]
  <2>1. CASE k < i
    BY <1>0, <1>1, <1>5, <2>1
  <2>2. CASE ~(k < i)
    <3>1. k - (i - 1) \in 1..(Len(s) - i) /\ i + (k - (i - 1)) = k + 1 /\ ~(k <= i - 1)
      BY <1>0, <2>2
    <3>2. QED
      BY <1>2, <1>5, <2>2, <3>1
  <2>3. QED
    BY <2>1, <2>2
<1>7. QED
  BY <1>5, <1>6

LEMMA RemoveOrdered ==
  ASSUME NEW S, NEW s \in Seq(S), NEW i \in DOMAIN s, NEW R, Ordered(s, R)
  PROVE  Ordered(RemoveAt(s, i), R)
<1> DEFINE u == RemoveAt(s, i)
           at(k) == IF k < i THEN k ELSE k + 1
<1>1. DOMAIN s = 1..Len(s) /\ Len(s) \in Nat /\ i \in 1..Len(s)
  OBVIOUS
<1>2. DOMAIN u = 1..(Len(s) - 1) /\ \A k \in 1..(Len(s) - 1) : u[k] = s[at(k)]
  BY RemovedAt
<1> HIDE DEF u
<1>3. \A k \in 1..(Len(s) - 1) : at(k) \in DOMAIN s
  BY <1>1
<1>4. \A k, m \in 1..(Len(s) - 1) : k < m => at(k) < at(m)
  BY <1>1
<1> HIDE DEF at
<1>5. QED
  BY <1>2, <1>3, <1>4 DEF Ordered, u

(* What can happen to the lists when no task is created or started, *)
Eased ==
  /\ nextId' = nextId
  /\ \/ UNCHANGED <<pending, paused, running>>
     \/ /\ running # 0 /\ running' = 0
        /\ \/ UNCHANGED <<pending, paused>>
           \/ pending' = <<running>> \o pending /\ paused' = paused
           \/ pending' = pending /\ paused' = Append(paused, running)
     \/ /\ running' = running
        /\ \E i \in DOMAIN pending :
             /\ pending' = RemoveAt(pending, i)
             /\ \/ paused' = paused
                \/ job[pending[i]].lane = NoLane /\ paused' = Append(paused, pending[i])
     \/ /\ running' = running
        /\ \E i \in DOMAIN paused :
             /\ paused' = RemoveAt(paused, i)
             /\ pending' = pending \/ pending' = <<paused[i]>> \o pending
     \/ running' = running /\ pending' = paused \o pending /\ paused' = <<>>

(* and when one is created. *)
Enters(r) ==
  /\ Create(r)
  /\ \/ pending' = Append(pending, nextId) /\ running' = running
     \/ r.lane = NoLane /\ pending' = <<nextId>> \o pending /\ running' = running
     \/ r.lane = NoLane /\ pending' = pending /\ running = 0 /\ running' = nextId

LEMMA SubmitEnters == ASSUME Submit PROVE \E r : Enters(r)
<1>1. PICK key \in Keys \union {NoKey} :
        \/ \E lane \in Lanes \union {NoLane} : Enqueue(key, lane)
        \/ EnqueueFront(key)
        \/ BeginDirect(key)
  BY DEF Submit
<1>2. ASSUME NEW lane \in Lanes \union {NoLane}, Enqueue(key, lane) PROVE \E r : Enters(r)
  BY <1>2 DEF Enqueue, Enters
<1>3. CASE EnqueueFront(key)
  <2> DEFINE r == [Absent EXCEPT !.status = "pending", !.key = key]
  <2>1. r.lane = NoLane
    BY DEF Absent
  <2>2. Create(r) /\ pending' = <<nextId>> \o pending /\ running' = running
    BY <1>3 DEF EnqueueFront
  <2> HIDE DEF r
  <2>3. QED
    BY <2>1, <2>2 DEF Enters
<1>4. CASE BeginDirect(key)
  <2> DEFINE r == [Absent EXCEPT !.status = "running", !.key = key, !.attempt = 1]
  <2>1. r.lane = NoLane
    BY DEF Absent
  <2>2. Create(r) /\ pending' = pending /\ running = 0 /\ running' = nextId
    BY <1>4 DEF BeginDirect
  <2> HIDE DEF r
  <2>3. QED
    BY <2>1, <2>2 DEF Enters
<1>5. QED
  BY <1>1, <1>2, <1>3, <1>4

LEMMA StepMoves ==
  ASSUME Inv, [Next]_vars PROVE Eased \/ BeginNext \/ \E r : Enters(r)
<1>1. CASE Submit
  BY <1>1, SubmitEnters
<1>2. ASSUME NEW j \in Ids, Ask(j) PROVE Eased \/ \E r : Enters(r)
  <2>1. CASE RetryFailed(j)
    BY <2>1 DEF RetryFailed, Enters
  <2>2. CASE PauseQueued(j)
    BY <2>2 DEF PauseQueued, Eased
  <2>3. CASE PauseStarted(j) \/ CancelRunning(j)
    BY <2>3, Whereabouts DEF PauseStarted, CancelRunning, Retire, Eased
  <2>4. CASE Resume(j)
    BY <2>4 DEF Resume, Eased
  <2>5. CASE CancelPending(j) \/ CancelPaused(j)
    BY <2>5 DEF CancelPending, CancelPaused, Eased
  <2>6. CASE Regress(j) \/ \E x \in {"reverted", "forward-fixed"} : Resolve(j, x)
    BY <2>6 DEF Regress, Resolve, ChangeJob, Eased
  <2>7. QED
    BY <1>2, <2>1, <2>2, <2>3, <2>4, <2>5, <2>6 DEF Ask
<1>3. ASSUME NEW j \in Ids, NEW w \in Workers, Own(j, w) PROVE Eased
  <2>0. j # 0
    BY Whereabouts
  <2>1. CASE \/ Claim(j, w) \/ Heartbeat(j, w)
             \/ \E p \in Publications : RecordPublication(j, w, p[1], p[2])
             \/ \E v \in Evidence : RecordTerminalEvidence(j, w, v)
    BY <2>1 DEF Claim, Heartbeat, Lease, RecordPublication, RecordTerminalEvidence,
                ChangeJob, Eased
  <2>2. CASE \E v \in Verdicts : Finish(j, w, v)
    BY <2>0, <2>2 DEF Finish, Owns, Retire, Eased
  <2>3. CASE RetryRunning(j, w) \/ PauseRunning(j, w)
    BY <2>0, <2>3 DEF RetryRunning, PauseRunning, Owns, Requeue, Eased
  <2>4. QED
    BY <1>3, <2>1, <2>2, <2>3 DEF Own
<1>4. CASE ResumeAll
  BY <1>4 DEF ResumeAll, Eased
<1>5. CASE \/ Inspect \/ UNCHANGED vars \/ \E W \in SUBSET live : WorkersDie(W)
           \/ \E j \in Ids : BecomeDue(j)
  BY <1>5 DEF Inspect, WorkersDie, BecomeDue, vars, queueVars, Eased
<1>6. CASE Reconcile
  BY <1>6 DEF Reconcile, ReconcileNothing, ReconcileRepair, ReconcileExhausted,
              ReconcileRequeue, Repairable, Interrupted, Reconcilable, Retire, Requeue,
              queueVars, Eased
<1>7. QED
  BY <1>1, <1>2, <1>3, <1>4, <1>5, <1>6 DEF Next

-----------------------------------------------------------------------------
(* The lists before and after a step, and the tasks in them. *)
LEMMA Lists ==
  ASSUME Inv
  PROVE  /\ pending \in Seq(Ids) /\ IsInjective(pending)
         /\ paused \in Seq(Ids) /\ IsInjective(paused)
         /\ Range(pending) \subseteq Ids /\ Range(paused) \subseteq Ids
         /\ running \in Ids \union {0} /\ running \notin Range(pending) \union Range(paused)
         /\ Range(pending) \cap Range(paused) = {}
         /\ \A i \in DOMAIN pending : pending[i] \in Range(pending)
         /\ \A i \in DOMAIN paused : paused[i] \in Range(paused)
<1>1. /\ pending \in Seq(Ids) /\ IsInjective(pending)
      /\ paused \in Seq(Ids) /\ IsInjective(paused)
      /\ running \in Ids \union {0}
  BY TypeParts DEF Inv, QueueType, Placement, Ids
<1>2. Range(pending) \subseteq Ids /\ Range(paused) \subseteq Ids
  BY <1>1 DEF Range
<1>3. /\ \A j \in Ids : j \in Range(pending) <=> Status(j) = "pending"
      /\ \A j \in Ids : j \in Range(paused) <=> Status(j) = "paused"
      /\ \A j \in Ids : j = running <=> Status(j) = "running"
  BY DEF Inv, Placement
<1>4. 0 \notin Ids
  BY DEF Ids
<1>5. QED
  BY <1>1, <1>2, <1>3, <1>4 DEF Range

(* In front of the waiting tasks of its lane belongs the task that started. *)
LEMMA FirstInFront ==
  ASSUME LaneInv, NEW j \in Ids, First(j) PROVE Ordered(<<j>> \o pending, InLaneOrder)
<1>1. pending \in Seq(Ids) /\ Range(pending) \subseteq Ids /\ j \notin Range(pending)
  BY Lists DEF LaneInv, First
<1>2. <<j>> \in Seq(Ids) /\ Range(<<j>>) = {j} /\ DOMAIN <<j>> = {1}
  BY SingletonElements
<1>3. Ordered(<<j>>, InLaneOrder)
  BY <1>2 DEF Ordered
<1>4. \A x \in Range(<<j>>), y \in Range(pending) : <<x, y>> \in InLaneOrder
  BY <1>1, <1>2 DEF LaneInv, FirstOfLane, InLaneOrder
<1>5. QED
  BY <1>1, <1>2, <1>3, <1>4, ConcatOrdered DEF LaneInv

LEMMA EasedOrdered ==
  ASSUME LaneInv, Eased PROVE Ordered(pending', InLaneOrder)
<1>0. Inv /\ Ordered(pending, InLaneOrder)
  BY DEF LaneInv
<1>1. CASE pending' = pending
  BY <1>0, <1>1
<1>2. CASE running # 0 /\ pending' = <<running>> \o pending
  BY <1>0, <1>2, Lists, FirstInFront DEF First
<1>3. CASE \E i \in DOMAIN pending : pending' = RemoveAt(pending, i)
  BY <1>0, <1>3, Lists, RemoveOrdered
<1>4. CASE \E i \in DOMAIN paused : pending' = <<paused[i]>> \o pending
  <2>1. PICK i \in DOMAIN paused : pending' = <<paused[i]>> \o pending
    BY <1>4
  <2>2. paused[i] \in Range(paused) /\ paused[i] \in Ids
    BY <1>0, Lists
  <2>3. QED
    BY <2>1, <2>2, FirstInFront DEF First
<1>5. CASE pending' = paused \o pending
  <2>1. \A x \in Range(paused), y \in Range(pending) : <<x, y>> \in InLaneOrder
    <3>1. ASSUME NEW x \in Range(paused), NEW y \in Range(pending)
          PROVE  <<x, y>> \in InLaneOrder
      <4>1. x \in Ids /\ y \in Ids /\ x # y
        BY <1>0, Lists
      <4>2. QED
        BY <4>1 DEF LaneInv, FirstOfLane, First, InLaneOrder
    <3>2. QED
      BY <3>1
  <2>2. Ordered(paused, InLaneOrder)
    <3>1. ASSUME NEW i \in DOMAIN paused, NEW k \in DOMAIN paused, i < k
          PROVE  <<paused[i], paused[k]>> \in InLaneOrder
      <4>1. i \in Nat /\ k \in Nat /\ i # k
        BY <1>0, <3>1, Lists
      <4>2. /\ paused[i] \in Ids /\ paused[k] \in Ids /\ paused[i] # paused[k]
            /\ First(paused[i]) /\ First(paused[k])
        BY <1>0, <4>1, Lists DEF First, IsInjective
      <4>3. QED
        BY <4>2 DEF LaneInv, FirstOfLane, InLaneOrder
    <3>2. QED
      BY <3>1 DEF Ordered
  <2>3. QED
    BY <1>0, <1>5, <2>1, <2>2, Lists, ConcatOrdered
<1>6. QED
  BY <1>1, <1>2, <1>3, <1>4, <1>5 DEF Eased

(* Who is in the lists after such a step was there before, and a task of a *)
(* lane that is paused then had started.                                   *)
LEMMA EasedPlaces ==
  ASSUME Inv, Eased
  PROVE  /\ running' \in {running, 0}
         /\ Range(pending') \union Range(paused')
              \subseteq Range(pending) \union Range(paused) \union ({running} \ {0})
         /\ \A j \in Range(paused') :
              j \in Range(paused) \/ (j = running /\ running # 0) \/ job[j].lane = NoLane
<1>0. /\ pending \in Seq(Ids) /\ IsInjective(pending)
      /\ paused \in Seq(Ids) /\ IsInjective(paused)
      /\ running # 0 => running \in Ids
      /\ \A i \in DOMAIN pending : pending[i] \in Range(pending) /\ pending[i] \in Ids
      /\ \A i \in DOMAIN paused : paused[i] \in Range(paused) /\ paused[i] \in Ids
  BY Lists
<1>1. CASE UNCHANGED <<pending, paused, running>>
  BY <1>1
<1>2. CASE /\ running # 0 /\ running' = 0
           /\ \/ UNCHANGED <<pending, paused>>
              \/ pending' = <<running>> \o pending /\ paused' = paused
              \/ pending' = pending /\ paused' = Append(paused, running)
  <2> DEFINE p == <<running>> \o pending
             q == Append(paused, running)
  <2>1. Range(p) = Range(pending) \union {running} /\ Range(q) = Range(paused) \union {running}
    BY <1>0, <1>2, PrependElements, AppendElements
  <2>2. running # 0 /\ running' = 0 /\ pending' \in {pending, p} /\ paused' \in {paused, q}
    BY <1>2
  <2> HIDE DEF p, q
  <2>3. QED
    BY <2>1, <2>2
<1>3. ASSUME running' = running, NEW i \in DOMAIN pending, pending' = RemoveAt(pending, i),
             \/ paused' = paused
             \/ job[pending[i]].lane = NoLane /\ paused' = Append(paused, pending[i])
      PROVE  /\ Range(pending') \subseteq Range(pending)
             /\ \A j \in Range(paused') : \/ j \in Range(paused)
                                          \/ j = pending[i] /\ job[j].lane = NoLane
  <2>1. /\ Range(RemoveAt(pending, i)) = Range(pending) \ {pending[i]}
        /\ Range(Append(paused, pending[i])) = Range(paused) \union {pending[i]}
    BY <1>0, RemoveElements, AppendElements
  <2>2. QED
    BY <1>3, <2>1
<1>4. ASSUME running' = running, NEW i \in DOMAIN paused, paused' = RemoveAt(paused, i),
             pending' = pending \/ pending' = <<paused[i]>> \o pending
      PROVE  /\ Range(paused') \subseteq Range(paused)
             /\ Range(pending') \subseteq Range(pending) \union Range(paused)
  <2> DEFINE p == <<paused[i]>> \o pending
  <2>1. /\ Range(RemoveAt(paused, i)) = Range(paused) \ {paused[i]}
        /\ Range(p) = Range(pending) \union {paused[i]}
    BY <1>0, RemoveElements, PrependElements
  <2>2. pending' \in {pending, p} /\ paused[i] \in Range(paused)
    BY <1>0, <1>4
  <2> HIDE DEF p
  <2>3. QED
    BY <1>4, <2>1, <2>2
<1>5. CASE running' = running /\ pending' = paused \o pending /\ paused' = <<>>
  <2>1. Range(paused \o pending) = Range(paused) \union Range(pending)
    BY <1>0, ConcatElements
  <2>2. Range(paused') = {}
    BY <1>5 DEF Range
  <2>3. QED
    BY <1>5, <2>1, <2>2
<1>6. QED
  BY <1>0, <1>1, <1>2, <1>3, <1>4, <1>5 DEF Eased

LEMMA EasedLanes ==
  ASSUME LaneInv, [Next]_vars, Eased PROVE LaneInv'
<1>1. Inv /\ Inv' /\ Ordered(pending', InLaneOrder)
  BY StepInv, EasedOrdered DEF LaneInv
<1>2. Kept
  <2>1. nextId' = nextId /\ nextId \in Nat
    BY <1>1 DEF Eased, Inv, TypeOK
  <2>2. QED
    BY <1>1, <2>1, StepOrigin DEF Created, Create
<1>3. \A j \in Ids : job'[j].lane = job[j].lane
  BY <1>2 DEF Kept
<1>4. InLaneOrder' = InLaneOrder
  BY <1>3 DEF InLaneOrder, SameLane
<1>5. Ordered(pending, InLaneOrder)'
  BY <1>1, <1>4 DEF Ordered
<1>6. FirstOfLane'
  <2> SUFFICES ASSUME NEW j \in Ids, NEW k \in Ids, First(j)',
                      First(k)' \/ k \in Range(pending'), j # k, SameLane(j, k)'
               PROVE  ~First(k)' /\ j < k
    BY DEF FirstOfLane
  <2>1. SameLane(j, k) /\ job[j].lane # NoLane /\ job[k].lane # NoLane
    BY <1>3 DEF SameLane
  <2>2. 0 \notin Ids
    BY DEF Ids
  <2>3. \A i \in {j, k} : First(i)' => First(i)
    BY <1>1, <2>1, <2>2, EasedPlaces DEF First
  <2>4. First(k) \/ k \in Range(pending)
    BY <1>1, <2>2, <2>3, EasedPlaces DEF First
  <2>5. ~First(k) /\ j < k
    BY <2>1, <2>3, <2>4 DEF LaneInv, FirstOfLane
  <2>6. QED
    BY <2>3, <2>5
<1>7. QED
  BY <1>1, <1>5, <1>6 DEF LaneInv

(* The new task comes after every other, or has no lane. *)
LEMMA EntersLanes ==
  ASSUME LaneInv, [Next]_vars, NEW r, Enters(r) PROVE LaneInv'
<1>0. PICK n \in Ids : n = nextId
  BY DEF Enters, Create
<1>1. Inv /\ Inv' /\ job \in [Ids -> JobRecord] /\ n \in Nat
  BY StepInv DEF LaneInv, Inv, TypeOK, Ids
<1>2. /\ job' = [job EXCEPT ![n] = r] /\ paused' = paused
      /\ \/ pending' = Append(pending, n) /\ running' = running
         \/ r.lane = NoLane /\ pending' = <<n>> \o pending /\ running' = running
         \/ r.lane = NoLane /\ pending' = pending /\ running' = n
  BY <1>0 DEF Enters, Create
<1>3. \A j \in Ids : Status(j) # "absent" => j < n
  BY <1>0, <1>1 DEF Inv, Placement, Ids
<1>4. /\ n \notin Range(pending) /\ n \notin Range(paused) /\ n # running
      /\ \A j \in Ids : First(j) \/ j \in Range(pending) => j < n
  <2>1. Status(n) = "absent"
    BY <1>1, <1>3
  <2>2. QED
    BY <1>1, <1>3, <2>1, Whereabouts DEF First
<1>5. job'[n] = r /\ \A j \in Ids \ {n} : job'[j] = job[j]
  BY <1>1, <1>2
<1>6. \A j, k \in Ids \ {n} : SameLane(j, k)' <=> SameLane(j, k)
  BY <1>5 DEF SameLane
<1>7. /\ pending \in Seq(Ids) /\ Range(pending) \subseteq Ids \ {n}
      /\ \A i \in DOMAIN pending : pending[i] \in Range(pending)
  BY <1>1, <1>4, Lists
<1>8. Ordered(pending, InLaneOrder')
  <2>1. ASSUME NEW i \in DOMAIN pending, NEW k \in DOMAIN pending, i < k
        PROVE  <<pending[i], pending[k]>> \in InLaneOrder'
    <3>1. PICK x, y \in Ids \ {n} : x = pending[i] /\ y = pending[k]
      BY <1>7
    <3>2. <<x, y>> \in InLaneOrder
      BY <2>1, <3>1 DEF LaneInv, Ordered
    <3>3. <<x, y>> \in InLaneOrder'
      BY <1>6, <3>2 DEF InLaneOrder
    <3>4. QED
      BY <3>1, <3>3
  <2>2. QED
    BY <2>1 DEF Ordered
<1>9. Ordered(pending', InLaneOrder')
  <2>1. <<n>> \in Seq(Ids) /\ Range(<<n>>) = {n} /\ DOMAIN <<n>> = {1}
    BY SingletonElements
  <2>2. Ordered(<<n>>, InLaneOrder')
    BY <2>1 DEF Ordered
  <2>3. CASE pending' = Append(pending, n)
    <3>1. \A x \in Range(pending) : x \in Ids /\ <<x, n>> \in InLaneOrder'
      BY <1>4, <1>7 DEF InLaneOrder
    <3>2. Ordered(pending \o <<n>>, InLaneOrder')
      BY <1>7, <1>8, <2>1, <2>2, <3>1, ConcatOrdered
    <3>3. pending' = pending \o <<n>>
      BY <1>7, <2>3
    <3>4. QED
      BY <3>2, <3>3
  <2>4. CASE r.lane = NoLane /\ pending' = <<n>> \o pending
    <3>1. \A x \in Range(pending) : x \in Ids /\ <<n, x>> \in InLaneOrder'
      BY <1>5, <1>7, <2>4 DEF InLaneOrder, SameLane
    <3>2. Ordered(<<n>> \o pending, InLaneOrder')
      BY <1>7, <1>8, <2>1, <2>2, <3>1, ConcatOrdered
    <3>3. QED
      BY <2>4, <3>2
  <2>5. QED
    BY <1>2, <1>8, <2>3, <2>4
<1>10. FirstOfLane'
  <2> SUFFICES ASSUME NEW j \in Ids, NEW k \in Ids, First(j)',
                      First(k)' \/ k \in Range(pending'), j # k, SameLane(j, k)'
               PROVE  ~First(k)' /\ j < k
    BY DEF FirstOfLane
  <2>0. 0 \notin Ids
    BY DEF Ids
  <2>1. Range(pending') \subseteq Range(pending) \union {n}
    <3>1. Range(Append(pending, n)) = Range(pending) \union {n}
      BY <1>7, AppendElements
    <3>2. Range(<<n>> \o pending) = Range(pending) \union {n}
      BY <1>7, PrependElements
    <3> DEFINE p == <<n>> \o pending
    <3>3. pending' \in {pending, Append(pending, n), p}
      BY <1>2
    <3> HIDE DEF p
    <3>4. QED
      BY <3>1, <3>2, <3>3 DEF p
  <2>2. job'[j].lane # NoLane /\ job'[k].lane # NoLane
    BY DEF SameLane
  <2>3. \A i \in {j, k} : First(i)' => i # n /\ First(i)
    BY <1>2, <1>4, <1>5, <2>0, <2>2 DEF First
  <2>4. CASE k = n
    BY <1>4, <2>3, <2>4
  <2>5. CASE k # n
    <3>1. SameLane(j, k) /\ (First(k) \/ k \in Range(pending))
      BY <1>6, <2>1, <2>3, <2>5
    <3>2. QED
      BY <2>3, <3>1 DEF LaneInv, FirstOfLane
  <2>6. QED
    BY <2>4, <2>5
<1>11. QED
  BY <1>1, <1>9, <1>10 DEF LaneInv, Ordered

(* The task that starts comes before the other waiting tasks of its lane,  *)
(* and none of them is paused.                                             *)
LEMMA BeginsFirst ==
  ASSUME LaneInv, BeginNext
  PROVE  \E i \in DOMAIN pending :
           /\ running = 0 /\ running' = pending[i]
           /\ pending' = RemoveAt(pending, i) /\ paused' = paused /\ nextId' = nextId
           /\ \A k \in Ids :
                k # pending[i] /\ SameLane(pending[i], k)
                  => k \notin Range(paused) /\ (k \in Range(pending) => pending[i] < k)
<1>1. PICK i \in DOMAIN pending :
        /\ running = 0 /\ running' = pending[i] /\ Ready(i)
        /\ pending' = RemoveAt(pending, i) /\ paused' = paused /\ nextId' = nextId
  BY DEF BeginNext
<1>2. Inv /\ pending \in Seq(Ids) /\ pending[i] \in Ids
  BY Lists DEF LaneInv
<1>3. ASSUME NEW k \in Ids, k # pending[i], SameLane(pending[i], k)
      PROVE  k \notin Range(paused) /\ (k \in Range(pending) => pending[i] < k)
  <2>1. /\ ~LaneBlocked(job[pending[i]].lane)
        /\ \A m \in 1..(i - 1) : job[pending[m]].lane # job[pending[i]].lane
    BY <1>1, <1>3 DEF Ready, SameLane
  <2>2. k \notin Range(paused)
    BY <1>3, <2>1 DEF LaneBlocked, SameLane
  <2>3. ASSUME k \in Range(pending) PROVE pending[i] < k
    <3>1. PICK m \in DOMAIN pending : pending[m] = k
      BY <2>3 DEF Range
    <3>2. i \in Nat /\ m \in Nat /\ m >= 1
      BY <1>2
    <3>3. i < m
      <4>1. job[pending[m]].lane = job[pending[i]].lane /\ m # i
        BY <1>3, <3>1 DEF SameLane
      <4>2. ~(m \in 1..(i - 1))
        BY <2>1, <4>1
      <4>3. QED
        BY <3>2, <4>1, <4>2
    <3>4. <<pending[i], k>> \in InLaneOrder
      BY <3>1, <3>3 DEF LaneInv, Ordered
    <3>5. QED
      BY <1>3, <3>4 DEF InLaneOrder
  <2>4. QED
    BY <2>2, <2>3
<1>4. QED
  BY <1>1, <1>3

LEMMA StartsLanes ==
  ASSUME LaneInv, [Next]_vars, BeginNext PROVE LaneInv'
<1>1. Inv /\ Inv'
  BY StepInv DEF LaneInv
<1>2. PICK i \in DOMAIN pending :
           /\ running = 0 /\ running' = pending[i]
           /\ pending' = RemoveAt(pending, i) /\ paused' = paused /\ nextId' = nextId
           /\ \A k \in Ids :
                k # pending[i] /\ SameLane(pending[i], k)
                  => k \notin Range(paused) /\ (k \in Range(pending) => pending[i] < k)
  BY BeginsFirst
<1>3. PICK s \in Ids : s = pending[i]
  BY <1>1, Lists
<1>4. Kept
  BY <1>1, StartKept
<1>5. \A j, k \in Ids : SameLane(j, k)' <=> SameLane(j, k)
  BY <1>4 DEF Kept, SameLane
<1>6. InLaneOrder' = InLaneOrder
  BY <1>5 DEF InLaneOrder
<1>7. Ordered(pending', InLaneOrder')
  BY <1>1, <1>2, <1>6, Lists, RemoveOrdered DEF LaneInv
<1>8. Range(pending') = Range(pending) \ {s}
  BY <1>1, <1>2, <1>3, Lists, RemoveElements
<1>9. FirstOfLane'
  <2> SUFFICES ASSUME NEW j \in Ids, NEW k \in Ids, First(j)',
                      First(k)' \/ k \in Range(pending'), j # k, SameLane(j, k)'
               PROVE  ~First(k)' /\ j < k
    BY DEF FirstOfLane
  <2>1. SameLane(j, k) /\ SameLane(k, j)
    BY <1>5 DEF SameLane
  <2>2. \A m \in Ids : First(m)' <=> m \in Range(paused) \/ m = s
    BY <1>2, <1>3 DEF First
  <2>3. CASE j = s
    BY <1>2, <1>3, <1>8, <2>1, <2>2, <2>3
  <2>4. CASE j # s
    <3>1. j \in Range(paused) /\ k # s
      BY <1>2, <1>3, <2>1, <2>2, <2>4
    <3>2. First(j) /\ (First(k) \/ k \in Range(pending))
      BY <1>8, <2>2, <3>1 DEF First
    <3>3. ~First(k) /\ j < k
      BY <2>1, <3>2 DEF LaneInv, FirstOfLane
    <3>4. QED
      BY <2>2, <3>1, <3>3 DEF First
  <2>5. QED
    BY <2>3, <2>4
<1>10. QED
  BY <1>1, <1>7, <1>9 DEF LaneInv, Ordered

LEMMA InitLanes == Init => LaneInv
<1> SUFFICES ASSUME Init PROVE LaneInv
  OBVIOUS
<1>1. pending = <<>> /\ Range(paused) = {} /\ running = 0 /\ 0 \notin Ids
  BY DEF Init, Range, Ids
<1>2. Ordered(pending, InLaneOrder) /\ FirstOfLane
  BY <1>1 DEF Ordered, FirstOfLane, First
<1>3. QED
  BY <1>2, InitInv DEF LaneInv

LEMMA StepLanes == LaneInv /\ [Next]_vars => LaneInv'
<1> SUFFICES ASSUME LaneInv, [Next]_vars PROVE LaneInv'
  OBVIOUS
<1>1. Eased \/ BeginNext \/ \E r : Enters(r)
  BY StepMoves DEF LaneInv
<1>2. QED
  BY <1>1, EasedLanes, StartsLanes, EntersLanes

(* Waiting tasks of a lane are listed in the order they were created, and  *)
(* behind the one that started: pausing, resuming, retrying and recovering *)
(* put back in front only what came from there.                            *)
THEOREM LanesCorrect == Spec => []LaneInv
  BY InitLanes, StepLanes, PTL DEF Spec

LEMMA StartInOrder ==
  ASSUME LaneInv, [Next]_vars, NEW j \in Ids,
         running = 0, running' = j, Status(j) # "absent", job[j].lane # NoLane,
         NEW k \in 1..(j - 1), job[k].lane = job[j].lane
  PROVE  Status(k) \in Terminal
<1>1. Inv /\ 0 \notin Ids
  BY DEF LaneInv, Ids
<1>2. ~Eased
  BY <1>1, EasedPlaces
<1>3. ~\E r : Enters(r)
  <2>1. ~(j = nextId)
    BY <1>1 DEF Inv, Placement, Ids
  <2>2. QED
    BY <1>1, <2>1 DEF Enters
<1>4. BeginNext
  BY <1>1, <1>2, <1>3, StepMoves
<1>5. k \in Ids /\ j \in Nat /\ k < j /\ SameLane(j, k)
  BY ConstantsAssumption DEF Ids, SameLane
<1>6. k \notin Range(paused) /\ k \notin Range(pending)
  BY <1>4, <1>5, BeginsFirst DEF Ids
<1>7. Status(k) # "absent"
  BY <1>1, <1>5 DEF Inv, Placement, TypeOK, Ids
<1>8. Status(k) \notin {"pending", "paused", "running"}
  BY <1>1, <1>5, <1>6, Whereabouts
<1>9. Status(k) \in {"absent", "pending", "paused", "running"} \union Terminal
  BY <1>1, <1>5, Whereabouts DEF JobRecord
<1>10. QED
  BY <1>7, <1>8, <1>9

(* Extension tasks of one lane run one after the other in the order they   *)
(* were requested (_begin_next_task), whatever is paused, retried,         *)
(* recovered or put in front meanwhile.                                    *)
THEOREM LaneFifoCorrect == Spec => LaneFifo
<1> DEFINE InTurn == \A j \in Ids :
             running = 0 /\ running' = j /\ Status(j) # "absent" /\ job[j].lane # NoLane =>
               \A k \in 1..(j - 1) : job[k].lane = job[j].lane => Status(k) \in Terminal
<1>1. LaneInv /\ [Next]_vars => InTurn
  BY StartInOrder
<1>2. LaneInv /\ [Next]_vars => [InTurn]_vars
  BY <1>1
<1>3. QED
  BY <1>2, LanesCorrect, PTL DEF Spec, LaneFifo

RunRecord == [pc : Steps, task : 0..MaxTasks, stage : Stages, outcome : Outcomes, queued : BOOLEAN]

(* A run that began has its task, and one that leaves its outcome.         *)
RunFits(r) ==
  /\ r \in RunRecord
  /\ r.pc = "unused" => r = NoRun
  /\ r.pc # "unused" => r.task \in Ids
  /\ r.pc = "leaving" => r.outcome \in Verdicts \union {"retryable", "paused"}
  /\ r.pc = "settled" => r.outcome \in Verdicts

RunnerType ==
  /\ run \in [Workers -> RunRecord]
  /\ \A w \in Workers : RunFits(run[w])
  /\ main \in {"launch", "shelve", "stop"} => target \in Ids
  /\ published \in [Ids -> Nat]

(* What the queue does for anyone but the run that owns the running task.  *)
Calm ==
  \/ Submit \/ BeginNext \/ ResumeAll \/ Inspect \/ Reconcile
  \/ \E j \in Ids : BecomeDue(j) \/ Ask(j)
  \/ UNCHANGED vars

LEMMA CalmStep == Calm => [Next]_vars
  BY DEF Calm, Next

(* The steps of the main thread, the queue thread and the clock that start *)
(* no run.                                                                 *)
Turn ==
  \/ Recover \/ Look \/ ReconcileTurn \/ EndTurn \/ Shelve \/ StopTask
  \/ Handle \/ CronEnqueues \/ StartLoop \/ EndLoop \/ TimePasses \/ Shutdown

LEMMA TurnCalm ==
  ASSUME RunnerType, Turn
  PROVE  Calm /\ UNCHANGED <<run, published, stale, final>>
<1>1. CASE Recover \/ Look \/ ReconcileTurn \/ EndTurn
  BY <1>1 DEF Recover, Look, ReconcileTurn, EndTurn, Main, Calm, threadVars, chatVars
<1>2. CASE Shelve
  <2>1. target \in Ids
    BY <1>2 DEF Shelve, Main, RunnerType
  <2>2. QED
    BY <1>2, <2>1 DEF Shelve, Main, Calm, Ask, threadVars, chatVars
<1>3. CASE StopTask
  <2>1. target \in Ids
    BY <1>3 DEF StopTask, Main, RunnerType
  <2>2. QED
    BY <1>3, <2>1 DEF StopTask, Main, Calm, Ask, Cancel, threadVars, chatVars
<1>4. CASE HandleRequest
  BY <1>4 DEF HandleRequest, Main, Calm, Submit, Ask, threadVars, chatVars
<1>5. CASE HandleDirect \/ HandleUnavailable
  <2>1. Submit
    BY <1>5 DEF HandleDirect, HandleUnavailable, Submit
  <2>2. QED
    BY <1>5, <2>1 DEF HandleDirect, HandleUnavailable, Main, Calm, threadVars, chatVars
<1>6. CASE HandleStop
  BY <1>6 DEF HandleStop, Main, Calm, chatVars
<1>7. ASSUME NEW j \in Ids, HandleCancel(j)
      PROVE  Calm /\ UNCHANGED <<run, published, stale, final>>
  BY <1>7 DEF HandleCancel, Cancel, Main, Calm, Ask, threadVars
<1>8. CASE CronEnqueues \/ StartLoop \/ EndLoop \/ Shutdown
  BY <1>8 DEF CronEnqueues, StartLoop, EndLoop, Shutdown, Calm, Submit, daemonVars, threadVars, chatVars
<1>9. CASE TimePasses
  BY <1>9 DEF TimePasses, Calm, daemonVars, threadVars, chatVars
<1>10. QED
  BY <1>1, <1>2, <1>3, <1>4, <1>5, <1>6, <1>7, <1>8, <1>9 DEF Turn, Handle

(* The steps by which processes and threads end. *)
LEMMA DeathStep ==
  ASSUME NEW W, WorkersDie(W) PROVE [Next]_vars
<1>1. WorkersDie(W \cap live)
  BY DEF WorkersDie
<1>2. QED
  BY <1>1 DEF Next

(* What a run does of its own. *)
LEMMA RunQueueStep ==
  ASSUME Inv, RunnerType, NEW w \in Workers, RunStep(w) \/ Beat(w) \/ ThreadFails(w)
  PROVE  [Next]_vars
<1> DEFINE j == run[w].task
<1>1. RunFits(run[w]) /\ job \in [Ids -> JobRecord]
  BY DEF RunnerType, Inv, TypeOK
<1>2. ASSUME run[w].pc # "unused", Own(j, w) PROVE [Next]_vars
  BY <1>1, <1>2 DEF RunFits, Next
<1>3. CASE ThreadEnds(w)
  BY <1>3, DeathStep DEF ThreadEnds
<1>4. CASE Progress(w) \/ ClaimTask(w)
  BY <1>2, <1>4 DEF Progress, ClaimTask, Own
<1>5. CASE \/ Register(w) \/ Work(w) \/ Validate(w) \/ PublishReview(w) \/ CleanUp(w)
           \/ Announce(w) \/ Tell(w)
  BY <1>3, <1>5 DEF Register, Work, Validate, PublishReview, CleanUp, Announce, Tell, Depart
<1>6. CASE Capture(w)
  <2>1. CASE RecordPublication(j, w, "captured", job[j].review)
    <3>1. run[w].pc # "unused" /\ j \in Ids
      BY <1>1, <1>6 DEF Capture, RunFits
    <3>2. <<"captured", job[j].review>> \in Publications
      BY <1>1, <3>1, RunnerAssumption DEF JobRecord
    <3>3. Own(j, w)
      BY <2>1, <3>2 DEF Own
    <3>4. QED
      BY <1>2, <3>1, <3>3
  <2>2. QED
    BY <1>6, <2>1 DEF Capture
<1>7. CASE RecordReview(w)
  <2>1. CASE RecordPublication(j, w, "review_published", "confirmed")
    <3>1. <<"review_published", "confirmed">> \in Publications
      BY RunnerAssumption
    <3>2. Own(j, w)
      BY <2>1, <3>1 DEF Own
    <3>3. QED
      BY <1>2, <1>7, <3>2 DEF RecordReview
  <2>2. QED
    BY <1>7, <2>1 DEF RecordReview
<1>8. CASE Settle(w)
  <2>1. CASE RecordTerminalEvidence(j, w, Verdict(w))
    <3>1. Verdict(w) \in Evidence
      BY <1>1, <1>8, RunnerAssumption DEF RunFits, Settle, Verdict, Verdicts
    <3>2. QED
      BY <1>2, <1>8, <2>1, <3>1 DEF Own, Settle
  <2>2. QED
    BY <1>2, <1>3, <1>8, <2>1 DEF Settle, Own, CloseLost
<1>9. CASE Finalize(w)
  BY <1>1, <1>2, <1>9 DEF RunFits, Finalize, Own, CloseLost
<1>10. CASE Pause(w)
  BY <1>2, <1>10 DEF Pause, Own, CloseLost
<1>11. QED
  BY <1>3, <1>4, <1>5, <1>6, <1>7, <1>8, <1>9, <1>10 DEF RunStep, Beat, ThreadFails

LEMMA QueueStep == ASSUME Inv, RunnerType, RunnerNext PROVE [Next]_vars
<1>1. CASE Turn
  BY <1>1, TurnCalm, CalmStep
<1>2. ASSUME NEW w \in Workers, Launch(w) \/ StartNext(w) PROVE [Next]_vars
  BY <1>2 DEF Launch, StartNext, Next
<1>3. ASSUME NEW w \in Workers, RunStep(w) \/ Beat(w) \/ ThreadFails(w) PROVE [Next]_vars
  BY <1>3, RunQueueStep
<1>4. CASE Crash \/ Start \/ OldProcessExits
  BY <1>4, DeathStep DEF Crash, Start, OldProcessExits
<1>5. QED
  BY <1>1, <1>2, <1>3, <1>4 DEF RunnerNext, MainStep, LoopStep, Turn

-----------------------------------------------------------------------------
(* Types *)

LEMMA NoRunFits == RunFits(NoRun) /\ NoRun.task = 0 /\ NoRun.pc = "unused"
<1>1. MaxTasks \in Nat
  BY ConstantsAssumption
<1>2. NoRun \in RunRecord
  BY <1>1 DEF NoRun, RunRecord, Steps, Stages, Outcomes
<1>3. QED
  BY <1>2 DEF RunFits, NoRun

LEMMA RunnerInitType == RunnerInit => RunnerType
<1> SUFFICES ASSUME RunnerInit PROVE RunnerType
  OBVIOUS
<1>1. \A w \in Workers : run[w] \in RunRecord
  BY NoRunFits DEF RunnerInit, RunFits
<1>2. QED
  BY <1>1, NoRunFits DEF RunnerInit, RunnerType

(* The record of the run that takes a step. *)
OneRun(w) ==
  /\ run' = [run EXCEPT ![w] = run'[w]]
  /\ RunFits(run'[w])
  /\ run'[w].pc # "unused" /\ run'[w].task = run[w].task

LEMMA EndedFits ==
  ASSUME RunnerType, NEW w \in Workers, run[w].pc # "unused"
  PROVE  /\ RunFits(Ended(w)) /\ Ended(w).pc = "ended" /\ Ended(w).task = run[w].task
         /\ Ended(w).outcome = IF run[w].outcome = "completed" THEN "completed" ELSE "quiet"
<1>1. run[w].task \in 0..MaxTasks /\ run[w].task \in Ids
  BY DEF RunnerType, RunFits, RunRecord
<1>2. QED
  BY <1>1 DEF Ended, RunFits, NoRun, RunRecord, Steps, Stages, Outcomes, Verdicts

LEMMA MovedFits ==
  ASSUME RunnerType, NEW w \in Workers, run[w].pc # "unused"
  PROVE  /\ \A pc \in Working \union {"telling"} : Goto(w, pc) => OneRun(w) /\ run'[w].pc = pc /\ run'[w].outcome = run[w].outcome
         /\ \A o \in Verdicts \union {"retryable", "paused"} :
              Leave(w, o) => OneRun(w) /\ run'[w].pc = "leaving" /\ run'[w].outcome = o
         /\ \A o \in Outcomes :
              Close(w, o) => OneRun(w) /\ run'[w].pc = "closing" /\ run'[w].outcome = o
         /\ \A o \in Verdicts :
              run' = [run EXCEPT ![w].pc = "settled", ![w].outcome = o]
                => OneRun(w) /\ run'[w].pc = "settled" /\ run'[w].outcome = o
         /\ run' = [run EXCEPT ![w] = Ended(w)] => OneRun(w) /\ run'[w] = Ended(w)
<1>1. run \in [Workers -> RunRecord] /\ run[w] \in RunRecord /\ run[w].task \in Ids
  BY DEF RunnerType, RunFits
<1>2. ASSUME NEW pc \in Working \union {"telling"}, Goto(w, pc)
      PROVE  OneRun(w) /\ run'[w].pc = pc /\ run'[w].outcome = run[w].outcome
  <2>1. run' = [run EXCEPT ![w] = [run[w] EXCEPT !.pc = pc]]
    BY <1>1, <1>2 DEF Goto
  <2>2. RunFits([run[w] EXCEPT !.pc = pc])
    BY <1>1 DEF RunFits, RunRecord, Working, Steps
  <2>3. QED
    BY <1>1, <2>1, <2>2 DEF OneRun, RunRecord, Working
<1>3. ASSUME NEW o \in Outcomes, NEW pc \in {"leaving", "closing", "settled"},
             run' = [run EXCEPT ![w].pc = pc, ![w].outcome = o],
             pc = "leaving" => o \in Verdicts \union {"retryable", "paused"},
             pc = "settled" => o \in Verdicts
      PROVE  OneRun(w) /\ run'[w].pc = pc /\ run'[w].outcome = o
  <2>1. run' = [run EXCEPT ![w] = [run[w] EXCEPT !.pc = pc, !.outcome = o]]
    BY <1>1, <1>3
  <2>2. RunFits([run[w] EXCEPT !.pc = pc, !.outcome = o])
    BY <1>1, <1>3 DEF RunFits, RunRecord, Steps
  <2>3. QED
    BY <1>1, <2>1, <2>2 DEF OneRun, RunRecord
<1>4. run' = [run EXCEPT ![w] = Ended(w)] => OneRun(w) /\ run'[w] = Ended(w)
  BY <1>1, EndedFits DEF OneRun
<1>5. QED
  BY <1>2, <1>3, <1>4 DEF Leave, Close, Outcomes

LEMMA RunMoves ==
  ASSUME Inv, RunnerType, NEW w \in Workers, RunStep(w) \/ Beat(w) \/ ThreadFails(w)
  PROVE  OneRun(w) \/ (Beat(w) /\ UNCHANGED run)
<1> DEFINE j == run[w].task
<1>1. /\ run \in [Workers -> RunRecord] /\ RunFits(run[w]) /\ job \in [Ids -> JobRecord]
  BY DEF RunnerType, Inv, TypeOK
<1>2. run[w].pc # "unused" /\ j \in Ids
  <2>1. run[w].pc # "unused"
    BY DEF RunStep, Beat, ThreadFails, ClaimTask, Register, Progress, Work, Validate, Capture,
         PublishReview, RecordReview, CleanUp, Settle, Finalize, Pause, Announce, Tell
  <2>2. QED
    BY <1>1, <2>1 DEF RunFits
<1>3. CASE ThreadEnds(w) \/ Announce(w) \/ Tell(w)
  BY <1>2, <1>3, MovedFits DEF ThreadEnds, Announce, Tell, Depart
<1>4. CASE \E o \in {"completed", "failed", "cancelled", "retryable", "paused"} : Leave(w, o)
  BY <1>2, <1>4, MovedFits DEF Verdicts
<1>5. CASE \E o \in {"completed", "failed", "cancelled", "retryable", "paused", "quiet"} : Close(w, o)
  BY <1>2, <1>5, MovedFits DEF Verdicts, Outcomes
<1>6. CASE \E pc \in Working : Goto(w, pc)
  BY <1>2, <1>6, MovedFits
<1>7. CASE ClaimTask(w)
  <2>1. CASE run' = [run EXCEPT ![w].pc = "claimed", ![w].stage = job[j].stage]
    <3>1. job[j].stage \in Stages
      BY <1>1, <1>2 DEF JobRecord
    <3>2. run' = [run EXCEPT ![w] = [run[w] EXCEPT !.pc = "claimed", !.stage = job[j].stage]]
      BY <1>1, <2>1
    <3>3. RunFits([run[w] EXCEPT !.pc = "claimed", !.stage = job[j].stage])
      BY <1>1, <1>2, <3>1 DEF RunFits, RunRecord, Steps, Working
    <3>4. QED
      BY <1>1, <3>2, <3>3 DEF OneRun, RunFits, RunRecord
  <2>2. QED
    BY <1>5, <1>7, <2>1 DEF ClaimTask
<1>8. CASE Register(w) \/ Validate(w) \/ Capture(w) \/ PublishReview(w) \/ RecordReview(w) \/ CleanUp(w)
  BY <1>4, <1>6, <1>8 DEF Register, Validate, Capture, PublishReview, RecordReview, CleanUp,
       LeavePublication, Working
<1>9. CASE Work(w)
  BY <1>4, <1>6, <1>9 DEF Work, Working
<1>10. CASE Settle(w)
  <2>1. Verdict(w) \in Verdicts
    BY <1>1, <1>10 DEF RunFits, Settle, Verdict, Verdicts
  <2>2. CASE run' = [run EXCEPT ![w].pc = "settled", ![w].outcome = Verdict(w)]
    BY <1>2, <2>1, <2>2, MovedFits
  <2>3. CASE CloseLost(w, Verdict(w))
    BY <1>5, <2>1, <2>3 DEF CloseLost, Verdicts
  <2>4. QED
    BY <1>3, <1>5, <1>10, <2>2, <2>3 DEF Settle
<1>11. CASE Finalize(w)
  BY <1>1, <1>5, <1>11 DEF RunFits, Finalize, CloseLost, Verdicts
<1>12. CASE Pause(w)
  BY <1>5, <1>12 DEF Pause, CloseLost
<1>13. CASE Beat(w)
  BY <1>13 DEF Beat, Progress, threadVars
<1>14. QED
  BY <1>3, <1>7, <1>8, <1>9, <1>10, <1>11, <1>12, <1>13 DEF RunStep, ThreadFails

(* A run that begins was never used, and runs its task from its first step.*)
Begun(w, j) ==
  /\ run[w].pc = "unused"
  /\ run' = [run EXCEPT ![w] = run'[w]]
  /\ RunFits(run'[w])
  /\ run'[w].pc = "begun" /\ run'[w].task = j /\ run'[w].outcome = "quiet"

LEMMA BeginFits ==
  ASSUME RunnerType, NEW w \in Workers, run[w].pc = "unused", NEW j \in Ids,
         NEW queued \in {TRUE, FALSE}, Begin(w, j, queued)
  PROVE  Begun(w, j)
<1>1. run \in [Workers -> RunRecord] /\ j \in 0..MaxTasks
  BY ConstantsAssumption DEF RunnerType, Ids
<1>2. [NoRun EXCEPT !.pc = "begun", !.task = j, !.queued = queued] \in RunRecord
  BY <1>1, NoRunFits DEF RunFits, RunRecord, Steps
<1>3. run'[w] = [NoRun EXCEPT !.pc = "begun", !.task = j, !.queued = queued]
  BY <1>1 DEF Begin
<1>4. run'[w].pc = "begun" /\ run'[w].task = j /\ run'[w].outcome = "quiet"
  BY <1>3 DEF NoRun
<1>5. QED
  BY <1>1, <1>2, <1>3, <1>4 DEF Begun, RunFits, Begin

LEMMA StartFits ==
  ASSUME Inv, RunnerType, NEW w \in Workers, StartNext(w)
  PROVE  Begun(w, running') /\ running' \in Ids
<1>1. running' \in Ids
  BY TypeParts DEF StartNext, BeginNext, Inv, QueueType
<1>2. QED
  BY <1>1, BeginFits DEF StartNext

LEMMA LaunchFits ==
  ASSUME RunnerType, NEW w \in Workers, Launch(w) PROVE Begun(w, target) /\ target \in Ids
  BY BeginFits DEF Launch, Main, RunnerType

LEMMA RunsEnd ==
  ASSUME RunnerType, Crash \/ Start \/ OldProcessExits
  PROVE  /\ run' \in [Workers -> RunRecord]
         /\ \A w \in Workers : \/ run'[w] = run[w]
                                \/ /\ run[w].pc # "unused" /\ w \notin live'
                                   /\ run'[w] = Ended(w)
<1>1. run \in [Workers -> RunRecord] /\ \A w \in Used : Ended(w) \in RunRecord
  BY EndedFits DEF RunnerType, RunFits, Used
<1>2. CASE Crash
  BY <1>1, <1>2 DEF Crash, WorkersDie, Used
<1>3. CASE Start \/ OldProcessExits
  BY <1>1, <1>3 DEF Start, OldProcessExits, threadVars
<1>4. QED
  BY <1>2, <1>3

LEMMA RunnerTypeStep == ASSUME Inv, RunnerType, [RunnerNext]_runnerVars PROVE RunnerType'
<1>1. /\ run \in [Workers -> RunRecord] /\ \A w \in Workers : RunFits(run[w])
      /\ published \in [Ids -> Nat]
  BY DEF RunnerType
<1>2. ASSUME NEW w \in Workers, NEW r, run' = [run EXCEPT ![w] = r], RunFits(r),
             main' \in {"launch", "shelve", "stop"} => target' \in Ids,
             published' \in [Ids -> Nat]
      PROVE  RunnerType'
  BY <1>1, <1>2 DEF RunnerType, RunFits
<1>3. CASE Turn
  <2>1. UNCHANGED <<run, published>>
    BY <1>3, TurnCalm
  <2>2. main' \in {"launch", "shelve", "stop"} => target' \in Ids
    <3>1. CASE HandleDirect \/ HandleUnavailable
      BY <3>1 DEF HandleDirect, HandleUnavailable, BeginDirect, Enqueue, EnqueueFront, Create
    <3>2. CASE HandleStop
      <4>1. running # 0 /\ target' = running
        BY <3>2 DEF HandleStop
      <4>2. running \in Ids
        BY <4>1, RunningTask
      <4>3. QED
        BY <4>1, <4>2
    <3>3. CASE CronEnqueues \/ StartLoop \/ EndLoop \/ TimePasses
      BY <3>3 DEF RunnerType, CronEnqueues, StartLoop, EndLoop, TimePasses, daemonVars
    <3>4. CASE main' \notin {"launch", "shelve", "stop"}
      BY <3>4
    <3>5. QED
      BY <1>3, <3>1, <3>2, <3>3, <3>4 DEF Turn, Handle, Recover, Look, ReconcileTurn, EndTurn, Shelve,
           StopTask, HandleRequest, HandleCancel, Shutdown, Main
  <2>3. QED
    BY <1>1, <2>1, <2>2 DEF RunnerType
<1>4. ASSUME NEW w \in Workers, RunStep(w) \/ Beat(w) \/ ThreadFails(w) PROVE RunnerType'
  <2>1. UNCHANGED <<main, target>>
    BY <1>4 DEF RunStep, Beat, ThreadFails, daemonVars
  <2>2. published' \in [Ids -> Nat]
    <3>1. CASE UNCHANGED published
      BY <1>1, <3>1
    <3>2. CASE PublishReview(w)
      <4>1. run[w].task \in Ids
        BY <1>1, <3>2 DEF PublishReview, RunFits
      <4>2. UNCHANGED published \/ published' = [published EXCEPT ![run[w].task] = @ + 1]
        BY <3>2 DEF PublishReview, LeavePublication, Leave
      <4>3. published[run[w].task] + 1 \in Nat
        BY <1>1, <4>1
      <4>4. QED
        BY <1>1, <4>2, <4>3
    <3>3. QED
      BY <1>4, <3>1, <3>2 DEF RunStep, Beat, ThreadFails, ThreadEnds, Progress, threadVars, Leave,
           LeavePublication, Close, CloseLost, ClaimTask, Register, Work, Validate, Capture,
           RecordReview, CleanUp, Settle, Finalize, Pause, Announce, Tell, Depart
  <2>3. main' \in {"launch", "shelve", "stop"} => target' \in Ids
    BY <2>1 DEF RunnerType
  <2>4. CASE OneRun(w)
    BY <1>2, <2>2, <2>3, <2>4 DEF OneRun
  <2>5. CASE UNCHANGED run
    BY <1>1, <2>2, <2>3, <2>5 DEF RunnerType
  <2>6. QED
    BY <1>4, <2>4, <2>5, RunMoves
<1>5. ASSUME NEW w \in Workers, Launch(w) \/ StartNext(w) PROVE RunnerType'
  <2>1. published' = published /\ (main' \in {"launch", "shelve", "stop"} => target' \in Ids)
    BY <1>5 DEF Launch, StartNext, Main, daemonVars, RunnerType
  <2>2. RunFits(run'[w]) /\ run' = [run EXCEPT ![w] = run'[w]]
    BY <1>5, StartFits, LaunchFits DEF Begun
  <2>3. QED
    BY <1>1, <1>2, <2>1, <2>2
<1>6. CASE Crash \/ Start \/ OldProcessExits
  <2>1. published' = published /\ (main' \in {"launch", "shelve", "stop"} => target' \in Ids)
    BY <1>6 DEF Crash, Start, OldProcessExits, Forget, daemonVars, RunnerType
  <2>2. \A w \in Workers : RunFits(run'[w])
    BY <1>1, <1>6, RunsEnd, EndedFits
  <2>3. QED
    BY <1>1, <1>6, <2>1, <2>2, RunsEnd DEF RunnerType
<1>7. CASE UNCHANGED runnerVars
  BY <1>1, <1>7 DEF runnerVars, daemonVars, threadVars, RunnerType
<1>8. QED
  BY <1>3, <1>4, <1>5, <1>6, <1>7 DEF RunnerNext, MainStep, LoopStep, Turn

-----------------------------------------------------------------------------
(* The daemon implements the queue *)

RunnerInv == OriginInv /\ RecordInv /\ RunnerType

LEMMA RunnerQueueStep == ASSUME Inv, RunnerType, [RunnerNext]_runnerVars PROVE [Next]_vars
<1>1. CASE UNCHANGED runnerVars
  BY <1>1 DEF runnerVars
<1>2. QED
  BY <1>1, QueueStep

LEMMA RunnerInvInit == RunnerInit => RunnerInv
  BY InitOrigins, InitRecords, RunnerInitType DEF RunnerInit, RunnerInv

LEMMA RunnerInvStep == ASSUME RunnerInv, [RunnerNext]_runnerVars PROVE RunnerInv'
<1>1. Inv /\ OriginInv /\ RecordInv /\ RunnerType
  BY DEF RunnerInv, OriginInv
<1>2. [Next]_vars
  BY <1>1, RunnerQueueStep
<1>3. OriginInv'
  BY <1>1, <1>2, StepOrigin, KeptOrigins, CreatedOrigins
<1>4. RecordInv'
  BY <1>1, <1>2, StepRecords
<1>5. RunnerType'
  BY <1>1, RunnerTypeStep
<1>6. QED
  BY <1>3, <1>4, <1>5 DEF RunnerInv

(* The lease token fences the daemon's reconciliation too: main loop, cron *)
(* thread, heartbeats, crashes and takeovers interleaved.                  *)
THEOREM RunnerFenceCorrect == RunnerSpec => []FenceSound
<1>1. RunnerInv => FenceSound
  BY DEF RunnerInv, RecordInv
<1>2. QED
  BY <1>1, RunnerInvInit, RunnerInvStep, PTL DEF RunnerSpec

(* Whatever the threads, crashes and takeovers of core.py do, each of its  *)
(* steps is one transaction of queue.py or none: what holds of the queue   *)
(* for any callers holds of it in the daemon.                              *)
THEOREM QueueCorrect == RunnerSpec => QueueSpec
<1>1. RunnerInit => Init
  BY DEF RunnerInit
<1>2. RunnerInv /\ [RunnerNext]_runnerVars => [Next]_vars
  BY RunnerQueueStep DEF RunnerInv, OriginInv
<1>3. QED
  BY <1>1, <1>2, RunnerInvInit, RunnerInvStep, PTL DEF RunnerSpec, QueueSpec, Spec

-----------------------------------------------------------------------------
(* What a transaction of the queue that is not the owner's does to a record*)

Like(r, old) == /\ r.review = old.review /\ r.parent = old.parent
                /\ r.attempt = old.attempt /\ r.verdict \in {old.verdict, "none"}

(* A new task, by a request or as the retry of a failed one.               *)
New(k, r) ==
  /\ Status(k) = "absent" /\ k = nextId
  /\ r.verdict = "none" /\ r.status \in {"pending", "running"}
  /\ r.attempt = IF r.status = "running" THEN 1 ELSE 0
  /\ \/ r.parent = 0 /\ r.review = "none"
     \/ r.parent \in Ids /\ Status(r.parent) = "failed" /\ r.review = job[r.parent].review

Starts(k, r) ==
  /\ Status(k) = "pending" /\ r.status = "running" /\ r.attempt = job[k].attempt + 1
  /\ r.review = job[k].review /\ r.parent = job[k].parent /\ r.verdict = job[k].verdict

(* A task leaves its run: at an end, paused, or because its owner is gone. *)
Leaves(k, r) ==
  /\ Status(k) = "running" /\ Like(r, job[k])
  /\ \/ r.status \in Verdicts /\ (r.status = "completed" => "completed" \in Proven(k))
     \/ r.status = "paused" /\ pauses'[k] > 0 /\ r.verdict = "none"
     \/ r.status = "pending" /\ job[k].worker \notin live /\ r.verdict = "none"

Waits(k, r) ==
  /\ Status(k) # "running" /\ Like(r, job[k])
  /\ r.status \notin {"running", "completed", "absent"}

CalmRecord(k) ==
  \/ job'[k] = job[k]
  \/ New(k, job'[k]) \/ Starts(k, job'[k]) \/ Leaves(k, job'[k]) \/ Waits(k, job'[k])

(* One record is written. *)
LEMMA Written ==
  ASSUME Inv, NEW j \in Ids, NEW r, job' = [job EXCEPT ![j] = r],
         \/ New(j, r) \/ Starts(j, r) \/ Leaves(j, r) \/ Waits(j, r)
  PROVE  \A k \in Ids : CalmRecord(k)
<1>1. job \in [Ids -> JobRecord]
  BY DEF Inv, TypeOK
<1>2. job'[j] = r /\ \A k \in Ids : k # j => job'[k] = job[k]
  BY <1>1
<1>3. QED
  BY <1>2 DEF CalmRecord

LEMMA StatusFields ==
  ASSUME NEW r \in JobRecord,
         NEW s \in {"absent", "pending", "paused", "running"} \union Terminal
  PROVE  /\ Like([r EXCEPT !.status = s], r) /\ [r EXCEPT !.status = s].verdict = r.verdict
         /\ Like(Disowned([r EXCEPT !.status = s]), r)
         /\ Disowned([r EXCEPT !.status = s]).status = s
         /\ Disowned([r EXCEPT !.status = s]).verdict = r.verdict
<1> DEFINE x == [r EXCEPT !.status = s]
<1>1. x \in JobRecord /\ x.status = s
  BY StatusTyped
<1>2. Like(x, r) /\ x.verdict = r.verdict
  BY DEF JobRecord, Like
<1> HIDE DEF x
<1>3. Like(Disowned(x), x) /\ Disowned(x).status = s /\ Disowned(x).verdict = x.verdict
  BY <1>1 DEF JobRecord, Disowned, Like
<1>4. QED
  BY <1>2, <1>3 DEF x, Like

LEMMA PausedFields ==
  ASSUME NEW old \in JobRecord
  PROVE  LET r == Disowned([old EXCEPT !.status = "paused", !.verdict = "none"])
         IN  Like(r, old) /\ r.status = "paused" /\ r.verdict = "none"
<1> DEFINE x == [old EXCEPT !.status = "paused", !.verdict = "none"]
<1>1. x \in JobRecord
  BY DEF JobRecord
<1>2. Like(x, old) /\ x.status = "paused" /\ x.verdict = "none"
  BY DEF JobRecord, Like
<1> HIDE DEF x
<1>3. /\ Disowned(x).review = x.review /\ Disowned(x).parent = x.parent
      /\ Disowned(x).attempt = x.attempt /\ Disowned(x).verdict = x.verdict
      /\ Disowned(x).status = x.status
  BY <1>1 DEF JobRecord, Disowned
<1>4. QED
  BY <1>2, <1>3 DEF x, Like

LEMMA SubmitWrites == ASSUME Inv, Submit PROVE \A k \in Ids : CalmRecord(k)
<1>1. PICK key \in Keys \union {NoKey} :
        \/ \E lane \in Lanes \union {NoLane} : Enqueue(key, lane)
        \/ EnqueueFront(key)
        \/ BeginDirect(key)
  BY DEF Submit
<1>2. ASSUME NEW r, Create(r), r.verdict = "none", r.status \in {"pending", "running"},
             r.attempt = IF r.status = "running" THEN 1 ELSE 0, r.parent = 0, r.review = "none"
      PROVE  \A k \in Ids : CalmRecord(k)
  <2>1. nextId \in Ids /\ nextId \in Nat /\ job' = [job EXCEPT ![nextId] = r]
    BY <1>2 DEF Create, Ids
  <2>2. Status(nextId) = "absent"
    BY <2>1 DEF Inv, Placement
  <2>3. QED
    BY <1>2, <2>1, <2>2, Written DEF New
<1>3. ASSUME NEW lane \in Lanes \union {NoLane}, Enqueue(key, lane)
      PROVE  \A k \in Ids : CalmRecord(k)
  BY <1>2, <1>3 DEF Enqueue, Absent
<1>4. CASE EnqueueFront(key)
  BY <1>2, <1>4 DEF EnqueueFront, Absent
<1>5. CASE BeginDirect(key)
  BY <1>2, <1>5 DEF BeginDirect, Absent
<1>6. QED
  BY <1>1, <1>3, <1>4, <1>5

LEMMA BeginWrites == ASSUME Inv, BeginNext PROVE \A k \in Ids : CalmRecord(k)
<1>1. PICK i \in DOMAIN pending :
        job' = [job EXCEPT ![pending[i]] =
                  [job[pending[i]] EXCEPT !.status = "running", !.attempt = @ + 1,
                                          !.due = TRUE]]
  BY DEF BeginNext
<1> DEFINE j == pending[i]
           old == job[j]
           r == [old EXCEPT !.status = "running", !.attempt = @ + 1, !.due = TRUE]
<1>2. j \in Ids /\ j \in Range(pending)
  BY TypeParts DEF Inv, QueueType, Range
<1>3. old \in JobRecord /\ Status(j) = "pending"
  BY <1>2, Whereabouts
<1>4. job' = [job EXCEPT ![j] = r]
  BY <1>1
<1> HIDE DEF old, j
<1>5. /\ r.status = "running" /\ r.attempt = old.attempt + 1 /\ r.review = old.review
      /\ r.parent = old.parent /\ r.verdict = old.verdict
  BY <1>3 DEF JobRecord
<1> HIDE DEF r
<1>6. QED
  BY <1>2, <1>3, <1>4, <1>5, Written DEF Starts, old

(* The record of a waiting task, or of an ended one that is repaired.      *)
LEMMA WaitingWrites ==
  ASSUME Inv, NEW j \in Ids, BecomeDue(j) \/ Ask(j),
         ~RetryFailed(j), ~PauseStarted(j), ~CancelRunning(j)
  PROVE  \A k \in Ids : CalmRecord(k)
<1> DEFINE old == job[j]
<1>0. /\ old \in JobRecord /\ old.status = Status(j)
      /\ j \in Range(pending) <=> Status(j) = "pending"
      /\ j \in Range(paused)  <=> Status(j) = "paused"
  BY Whereabouts
<1>1. ASSUME NEW r, job' = [job EXCEPT ![j] = r], Status(j) # "running", Like(r, old),
             r.status \notin {"running", "completed", "absent"}
      PROVE  \A k \in Ids : CalmRecord(k)
  BY <1>1, Written DEF Waits
<1>2. CASE BecomeDue(j)
  <2> DEFINE r == [old EXCEPT !.due = TRUE]
  <2>1. job' = [job EXCEPT ![j] = r] /\ Status(j) = "pending"
    BY <1>2 DEF BecomeDue
  <2>2. old \in JobRecord /\ old.status = "pending"
    BY <1>0, <2>1
  <2> HIDE DEF old
  <2>3. Like(r, old) /\ r.status = "pending"
    BY <2>2 DEF JobRecord, Like
  <2> HIDE DEF r
  <2>4. QED
    BY <1>1, <2>1, <2>3
<1>3. CASE PauseQueued(j)
  <2>1. j \in Range(pending)
    BY <1>3 DEF PauseQueued, Range
  <2> DEFINE r == Disowned([old EXCEPT !.status = "paused", !.verdict = "none"])
  <2>2. job' = [job EXCEPT ![j] = r] /\ Status(j) = "pending"
    BY <1>0, <1>3, <2>1 DEF PauseQueued
  <2> HIDE DEF old
  <2>3. Like(r, old) /\ r.status = "paused"
    BY <1>0, PausedFields
  <2> HIDE DEF r
  <2>4. QED
    BY <1>1, <2>2, <2>3
<1>4. CASE Resume(j)
  <2>1. j \in Range(paused)
    BY <1>4 DEF Resume, Range
  <2> DEFINE r == Disowned([old EXCEPT !.status = "pending"])
  <2>2. job' = [job EXCEPT ![j] = r] /\ Status(j) = "paused"
    BY <1>0, <1>4, <2>1 DEF Resume
  <2> HIDE DEF old
  <2>3. Like(r, old) /\ r.status = "pending"
    BY <1>0, StatusFields
  <2> HIDE DEF r
  <2>4. QED
    BY <1>1, <2>2, <2>3
<1>5. ASSUME NEW s \in {"cancelled", "regressed", "reverted", "forward-fixed"},
             job' = [job EXCEPT ![j] = [old EXCEPT !.status = s]], Status(j) # "running"
      PROVE  \A k \in Ids : CalmRecord(k)
  <2> DEFINE r == [old EXCEPT !.status = s]
  <2>1. job' = [job EXCEPT ![j] = r] /\ s \in Terminal
    BY <1>5 DEF Terminal, Verdicts, Repaired
  <2> HIDE DEF old
  <2>2. Like(r, old)
    BY <1>0, <2>1, StatusFields
  <2>3. r.status = s
    BY <1>0, <2>1, StatusTyped
  <2> HIDE DEF r
  <2>4. QED
    BY <1>1, <1>5, <2>1, <2>2, <2>3
<1>6. CASE CancelPending(j) \/ CancelPaused(j)
  <2>1. j \in Range(pending) \/ j \in Range(paused)
    BY <1>6 DEF CancelPending, CancelPaused, Range
  <2>2. QED
    BY <1>0, <1>5, <1>6, <2>1 DEF CancelPending, CancelPaused
<1>7. CASE Regress(j) \/ \E x \in {"reverted", "forward-fixed"} : Resolve(j, x)
  BY <1>5, <1>7 DEF Regress, Resolve, ChangeJob
<1>8. QED
  BY <1>2, <1>3, <1>4, <1>6, <1>7 DEF Ask

LEMMA LeaveWrites ==
  ASSUME Inv, NEW j \in Ids, PauseStarted(j) \/ CancelRunning(j)
  PROVE  \A k \in Ids : CalmRecord(k)
<1> DEFINE old == job[j]
<1>0. /\ old \in JobRecord /\ Status(j) = "running" /\ pauses[j] \in Nat
      /\ pauses \in [Ids -> Nat]
  BY Whereabouts DEF PauseStarted, CancelRunning, RestType
<1>1. CASE PauseStarted(j)
  <2> DEFINE r == Disowned([old EXCEPT !.status = "paused", !.verdict = "none"])
  <2>1. job' = [job EXCEPT ![j] = r] /\ pauses'[j] = pauses[j] + 1
    BY <1>0, <1>1 DEF PauseStarted
  <2>2. pauses'[j] > 0
    BY <1>0, <2>1
  <2> HIDE DEF old
  <2>3. Like(r, old) /\ r.status = "paused" /\ r.verdict = "none"
    BY <1>0, PausedFields
  <2> HIDE DEF r
  <2>4. QED
    BY <1>0, <2>1, <2>2, <2>3, Written DEF Leaves, old
<1>2. CASE CancelRunning(j)
  <2> DEFINE r == Disowned([old EXCEPT !.status = "cancelled"])
  <2>1. job' = [job EXCEPT ![j] = r]
    BY <1>2 DEF CancelRunning, Retire
  <2> HIDE DEF old
  <2>2. Like(r, old) /\ r.status = "cancelled"
    BY <1>0, StatusFields DEF Terminal, Verdicts
  <2> HIDE DEF r
  <2>3. QED
    BY <1>0, <2>1, <2>2, Written DEF Leaves, old, Verdicts
<1>3. QED
  BY <1>1, <1>2

LEMMA RetryWrites ==
  ASSUME Inv, NEW j \in Ids, RetryFailed(j) PROVE \A k \in Ids : CalmRecord(k)
<1> DEFINE r == [Absent EXCEPT !.status = "pending", !.lane = job[j].lane, !.parent = j,
                               !.stage = job[j].stage, !.review = job[j].review]
<1>1. nextId \in Ids /\ nextId \in Nat /\ job' = [job EXCEPT ![nextId] = r] /\ Status(j) = "failed"
  BY DEF RetryFailed, Create, Ids
<1>2. Status(nextId) = "absent"
  BY <1>1 DEF Inv, Placement
<1>3. /\ r.status = "pending" /\ r.verdict = "none" /\ r.attempt = 0
      /\ r.parent = j /\ r.review = job[j].review
  BY DEF Absent
<1> HIDE DEF r
<1>4. New(nextId, r)
  BY <1>1, <1>2, <1>3 DEF New
<1>5. QED
  BY <1>1, <1>4, Written

LEMMA ResumeAllWrites == ASSUME Inv, ResumeAll PROVE \A k \in Ids : CalmRecord(k)
<1> SUFFICES ASSUME NEW k \in Ids PROVE CalmRecord(k)
  OBVIOUS
<1>1. job[k] \in JobRecord /\ (k \in Range(paused) <=> Status(k) = "paused")
  BY Whereabouts
<1> DEFINE r == Disowned([job[k] EXCEPT !.status = "pending"])
<1>2. job'[k] = IF k \in Range(paused) THEN r ELSE job[k]
  BY DEF ResumeAll
<1>3. Like(r, job[k]) /\ r.status = "pending"
  BY <1>1, StatusFields
<1> HIDE DEF r
<1>4. QED
  BY <1>1, <1>2, <1>3 DEF CalmRecord, Waits

LEMMA ReconcileWrites == ASSUME Inv, Reconcile PROVE \A k \in Ids : CalmRecord(k)
<1> DEFINE j == running
           old == job[j]
<1>1. CASE ReconcileNothing
  BY <1>1 DEF ReconcileNothing, queueVars, CalmRecord
<1>2. ASSUME running # 0
      PROVE  j \in Ids /\ old \in JobRecord /\ Status(j) = "running"
  BY <1>2, RunningTask DEF Status
<1>3. ASSUME running # 0, NEW v \in Verdicts, Retire(j, [old EXCEPT !.status = v]),
             v = "completed" => "completed" \in Proven(j)
      PROVE  \A k \in Ids : CalmRecord(k)
  <2> DEFINE r == Disowned([old EXCEPT !.status = v])
  <2>1. job' = [job EXCEPT ![j] = r]
    BY <1>3 DEF Retire
  <2> HIDE DEF old
  <2>2. Like(r, old) /\ r.status = v
    BY <1>2, <1>3, StatusFields DEF Terminal
  <2> HIDE DEF r
  <2>3. QED
    BY <1>2, <1>3, <2>1, <2>2, Written DEF Leaves, old
<1>4. CASE ReconcileRepair
  BY <1>3, <1>4 DEF ReconcileRepair, Repairable, Reconcilable
<1>5. CASE ReconcileExhausted
  BY <1>3, <1>5 DEF ReconcileExhausted, Interrupted, Reconcilable, Verdicts
<1>6. CASE ReconcileRequeue
  <2> DEFINE x == [old EXCEPT !.due = TRUE]
             r == Disowned([x EXCEPT !.status = "pending"])
  <2>1. /\ job' = [job EXCEPT ![j] = r] /\ running # 0 /\ old.worker \notin live
        /\ old.verdict \in {"none"} \/ old.verdict \in Proven(j)
        /\ Proven(j) = {}
    BY <1>6 DEF ReconcileRequeue, Requeue, Interrupted, Reconcilable, OwnerActive, Proven
  <2>2. old.verdict = "none"
    BY <2>1
  <2> HIDE DEF old
  <2>3. x \in JobRecord /\ Like(x, old) /\ x.verdict = old.verdict
    BY <1>2, <2>1 DEF JobRecord, Like
  <2> HIDE DEF x
  <2>4. Like(r, x) /\ r.status = "pending" /\ r.verdict = x.verdict
    BY <2>3, StatusFields
  <2> HIDE DEF r
  <2>5. QED
    BY <1>2, <2>1, <2>2, <2>3, <2>4, Written DEF Leaves, Like, old
<1>7. QED
  BY <1>1, <1>4, <1>5, <1>6 DEF Reconcile

LEMMA CalmRecords == ASSUME Inv, Calm PROVE \A k \in Ids : CalmRecord(k)
<1>1. CASE Inspect \/ UNCHANGED vars
  BY <1>1 DEF Inspect, queueVars, vars, CalmRecord
<1>2. ASSUME NEW j \in Ids, BecomeDue(j) \/ Ask(j) PROVE \A k \in Ids : CalmRecord(k)
  BY <1>2, WaitingWrites, LeaveWrites, RetryWrites
<1>3. QED
  BY <1>1, <1>2, SubmitWrites, BeginWrites, ResumeAllWrites, ReconcileWrites DEF Calm

-----------------------------------------------------------------------------
(* What a run knows of its task *)

(* A run that has claimed its task and has not closed it.                  *)
Busy == Working \union {"leaving", "settled"}

(* Nothing takes a task from the live run that claimed it but its end, or  *)
(* a pause.                                                                *)
OwnedFor(w) == run[w].pc \in Busy /\ pauses[run[w].task] = 0
                 => Owns(run[w].task, w) \/ Status(run[w].task) \in Terminal
Owned == \A w \in live : OwnedFor(w)

(* A run that has completed its task.                                      *)
Done(w, j) == /\ run[w].task = j /\ run[w].outcome = "completed"
              /\ run[w].pc \in {"settled", "closing", "telling", "ended"}

(* Evidence of completion is that of a run that completed the task and     *)
(* will say so, being its owner or dead.                                   *)
VerdictDone == \A j \in Ids : Status(j) = "running" /\ job[j].verdict = "completed" =>
                 \E w \in Workers : Done(w, j) /\ (w \notin live \/ job[j].worker = w)

(* A confirmed review was published, for the task or the one it retries.   *)
ReviewSeen(j) == published[j] > 0 \/ (job[j].parent # 0 /\ job[job[j].parent].review = "confirmed")
Reviewed == /\ \A j \in Ids : job[j].review = "confirmed" => ReviewSeen(j)
            /\ \A w \in Workers : run[w].pc = "reviewed" => published[run[w].task] > 0

CompletedDone == \A j \in Ids : Status(j) = "completed" => (\E w \in Workers : Done(w, j)) \/ ReviewSeen(j)

(* The outcomes a task of this status may have been closed with.           *)
Ending(o, s) == o \in Verdicts /\ (s = o \/ (o = "completed" /\ s \in Repaired))

ChatType == /\ told \in [Ids -> Outcomes \union {"none", "cancelled before running"}]
            /\ final \in [Ids -> Verdicts \union {"none", "unsent", "paused"}]

(* Both messages of a task say how it ended, and the summary is sent, or   *)
(* lost, by the run that edits its status message.                         *)
Said(t, j) == t \in Verdicts => Ending(t, Status(j))
ToldFor(j) == /\ Said(told[j], j) /\ Said(final[j], j)
              /\ told[j] \in Verdicts => \/ final[j] \in {told[j], "unsent", "paused"}
                                        \/ \E w \in Workers : Tells(w, j)
ClosingFor(w) ==
  /\ run[w].pc = "telling" => run[w].outcome # "quiet"
  /\ run[w].pc \in {"closing", "telling"} =>
       run[w].outcome \in {"quiet", "paused"} \/ Ending(run[w].outcome, Status(run[w].task))
Told == (\A j \in Ids : ToldFor(j)) /\ (\A w \in Workers : ClosingFor(w))

(* Each attempt has one run, or will have, and each run one publication.   *)
Runs(j) == {w \in Workers : run[w].task = j}
Past(j) == {w \in Runs(j) : run[w].pc \notin {"begun", "claimed", "working", "validated", "captured"}}
Launching(j) == IF main = "launch" /\ target = j THEN 1 ELSE 0
CountedFor(j) == /\ IsFiniteSet(Runs(j))
                 /\ Cardinality(Runs(j)) + Launching(j) <= job[j].attempt
                 /\ published[j] <= Cardinality(Past(j))
Counted == \A j \in Ids : CountedFor(j)
Known == \A j \in Ids : Status(j) = "absent" => Runs(j) = {} /\ Launching(j) = 0

-----------------------------------------------------------------------------
(* What every step keeps *)

LEMMA PhaseStep ==
  ASSUME Inv, [Next]_vars, NEW j \in Ids
  PROVE  \/ Status(j)' = Status(j)
         \/ Status(j) \in {"absent", "pending", "paused", "running"} /\ Status(j)' # "absent"
         \/ Status(j) = "completed" /\ Status(j)' = "regressed"
         \/ Status(j) = "regressed" /\ Status(j)' \in {"reverted", "forward-fixed"}
<1> DEFINE Path(s, t) == \/ t = s
                         \/ s \in {"absent", "pending", "paused", "running"} /\ t # "absent"
                         \/ s = "completed" /\ t = "regressed"
                         \/ s = "regressed" /\ t \in {"reverted", "forward-fixed"}
<1>1. Lifecycle!Next \/ phase' = phase
  BY StepLived
<1>2. phase[j] = Status(j) /\ phase'[j] = Status(j)'
  BY DEF phase
<1>3. ASSUME NEW t \in Ids, NEW from, NEW to, Lifecycle!Move(t, from, to),
             \A s \in from : Path(s, to)
      PROVE  Path(phase[j], phase'[j])
  <2>1. phase[t] \in from /\ phase' = [phase EXCEPT ![t] = to]
    BY <1>3 DEF Lifecycle!Move, phase
  <2>2. phase'[j] = IF t = j THEN to ELSE phase[j]
    BY <2>1 DEF phase
  <2>3. QED
    BY <1>3, <2>1, <2>2
<1>4. ASSUME Lifecycle!Resume PROVE Path(phase[j], phase'[j])
  <2>1. PICK S \in SUBSET {t \in Lifecycle!Tasks : phase[t] = "paused"} :
          phase' = [t \in Lifecycle!Tasks |-> IF t \in S THEN "pending" ELSE phase[t]]
    BY <1>4 DEF Lifecycle!Resume, phase
  <2>2. phase'[j] = (IF j \in S THEN "pending" ELSE phase[j]) /\ (j \in S => phase[j] = "paused")
    BY <2>1, PhaseOf
  <2>3. CASE j \in S
    BY <2>2, <2>3
  <2>4. CASE j \notin S
    BY <2>2, <2>4
  <2>5. QED
    BY <2>3, <2>4
<1>5. ASSUME Lifecycle!Next PROVE Path(phase[j], phase'[j])
  <2>1. ASSUME NEW t \in Ids,
               \/ \E to \in {"pending", "running"} : Lifecycle!Create(t, to)
               \/ Lifecycle!Start(t) \/ Lifecycle!Stop(t) \/ Lifecycle!Shelve(t)
               \/ Lifecycle!Drop(t) \/ Lifecycle!Regress(t) \/ Lifecycle!Repair(t)
        PROVE  Path(phase[j], phase'[j])
    <3>1. CASE \E to \in {"pending", "running"} : Lifecycle!Create(t, to)
      BY <1>3, <3>1 DEF Lifecycle!Create
    <3>2. CASE Lifecycle!Start(t) \/ Lifecycle!Stop(t)
      BY <1>3, <3>2 DEF Lifecycle!Start, Lifecycle!Stop
    <3>3. CASE Lifecycle!Shelve(t) \/ Lifecycle!Drop(t)
      BY <1>3, <3>3 DEF Lifecycle!Shelve, Lifecycle!Drop
    <3>4. CASE Lifecycle!Regress(t) \/ Lifecycle!Repair(t)
      BY <1>3, <3>4 DEF Lifecycle!Regress, Lifecycle!Repair
    <3>5. QED
      BY <2>1, <3>1, <3>2, <3>3, <3>4
  <2> HIDE DEF Path
  <2>2. Lifecycle!Tasks = Ids
    BY PhaseOf
  <2>3. QED
    BY <1>4, <1>5, <2>1, <2>2 DEF Lifecycle!Next
<1>6. QED
  BY <1>1, <1>2, <1>5

(* A task that ended stays ended, and as what it ended. *)
LEMMA EndingsStay ==
  ASSUME Inv, [Next]_vars, NEW j \in Ids
  PROVE  /\ Status(j) \in Terminal => Status(j)' \in Terminal
         /\ Status(j) # "absent" => Status(j)' # "absent"
         /\ \A o : Ending(o, Status(j)) => Ending(o, Status(j)')
  BY PhaseStep DEF Ending, Terminal, Verdicts, Repaired

LEMMA CalmLives == ASSUME Calm PROVE live' = live
<1>1. CASE Submit \/ BeginNext \/ ResumeAll
  BY <1>1 DEF Submit, BeginNext, ResumeAll, Enqueue, EnqueueFront, BeginDirect, Create
<1>2. ASSUME NEW j \in Ids, BecomeDue(j) \/ Ask(j) PROVE live' = live
  BY <1>2 DEF BecomeDue, Ask, RetryFailed, Create, PauseQueued, PauseStarted, Resume, CancelPending,
     CancelPaused, CancelRunning, Retire, Regress, Resolve, ChangeJob
<1>3. CASE Inspect \/ Reconcile \/ UNCHANGED vars
  BY <1>3 DEF Inspect, Reconcile, ReconcileNothing, ReconcileRepair, ReconcileExhausted,
     ReconcileRequeue, Retire, Requeue, vars
<1>4. QED
  BY <1>1, <1>2, <1>3 DEF Calm

LEMMA PausesGrow ==
  ASSUME Inv, [Next]_vars, NEW j \in Ids
  PROVE  pauses'[j] = 0 => pauses[j] = 0
<1>1. pauses \in [Ids -> Nat]
  BY DEF Inv, TypeOK
<1>2. CASE pauses' = pauses
  BY <1>2
<1>3. ASSUME NEW k \in Ids, pauses' = [pauses EXCEPT ![k] = @ + 1]
      PROVE  pauses'[j] = 0 => pauses[j] = 0
  <2>1. pauses'[j] = IF k = j THEN pauses[j] + 1 ELSE pauses[j]
    BY <1>1, <1>3
  <2>2. QED
    BY <1>1, <2>1
<1>4. CASE Submit \/ BeginNext \/ ResumeAll \/ Inspect \/ Reconcile \/ UNCHANGED vars
  BY <1>2, <1>4 DEF Submit, BeginNext, ResumeAll, Enqueue, EnqueueFront, BeginDirect, Create,
     Inspect, Reconcile, ReconcileNothing, ReconcileRepair, ReconcileExhausted,
     ReconcileRequeue, Retire, Requeue, vars
<1>5. ASSUME NEW k \in Ids, BecomeDue(k) \/ Ask(k) PROVE pauses'[j] = 0 => pauses[j] = 0
  BY <1>2, <1>3, <1>5 DEF BecomeDue, Ask, RetryFailed, Create, PauseQueued, PauseStarted, Resume,
     CancelPending, CancelPaused, CancelRunning, Retire, Regress, Resolve, ChangeJob
<1>6. ASSUME NEW k \in Ids, NEW w \in Workers, Own(k, w) PROVE pauses'[j] = 0 => pauses[j] = 0
  BY <1>2, <1>3, <1>6 DEF Own, Claim, Heartbeat, Lease, RecordPublication, RecordTerminalEvidence,
     ChangeJob, Finish, Retire, RetryRunning, Requeue, PauseRunning
<1>7. ASSUME NEW W \in SUBSET live, WorkersDie(W) PROVE pauses'[j] = 0 => pauses[j] = 0
  BY <1>2, <1>7 DEF WorkersDie
<1>8. QED
  BY <1>4, <1>5, <1>6, <1>7 DEF Next

-----------------------------------------------------------------------------
(* What a run does to its task *)

Early == {"begun", "claimed", "working", "validated", "captured"}

To(w, pc, o) == run'[w].pc = pc /\ run'[w].outcome = o

Proceeds(w) ==
  /\ run[w].pc \in Working
  /\ run'[w].pc = "leaving" \/ (run'[w].pc \in Working /\ run'[w].outcome = run[w].outcome)
  /\ run'[w].pc \in Early => run[w].pc \in Early

RecordsReview(w) ==
  \E s \in Stages, r \in Reviews :
    /\ RecordPublication(run[w].task, w, s, r)
    /\ r = job[run[w].task].review \/ (r = "confirmed" /\ run[w].pc = "reviewed")

Settles(w) ==
  /\ run[w].pc = "leaving" /\ Verdict(w) \in Verdicts /\ To(w, "settled", Verdict(w))
  /\ \/ RecordTerminalEvidence(run[w].task, w, Verdict(w))
     \/ Owns(run[w].task, w) /\ UNCHANGED vars

(* A run that lost its task closes without a word, or with the task's end. *)
Loses(w) ==
  /\ UNCHANGED vars /\ run'[w].pc = "closing"
  /\ \/ run[w].pc = "begun" /\ run'[w].outcome = "quiet"
     \/ /\ run[w].pc \in {"leaving", "settled"} /\ ~Owns(run[w].task, w)
        /\ run'[w].outcome = "quiet" \/ (/\ run'[w].outcome = Status(run[w].task)
                                         /\ run'[w].outcome \in Verdicts \union {"paused"})
        /\ run[w].pc = "settled" /\ run[w].outcome = Status(run[w].task)
             => run'[w].outcome = run[w].outcome

Acts(w) ==
  LET j == run[w].task IN
  \/ Proceeds(w) /\ UNCHANGED vars
  \/ Proceeds(w) /\ run'[w].pc # "leaving" /\ RecordsReview(w)
  \/ run[w].pc = "begun" /\ Claim(j, w) /\ To(w, "claimed", run[w].outcome)
  \/ run[w].pc = "working" /\ Heartbeat(j, w) /\ run'[w] = run[w]
  \/ Settles(w)
  \/ run[w].pc = "leaving" /\ RetryRunning(j, w) /\ To(w, "closing", "quiet")
  \/ run[w].pc = "leaving" /\ PauseRunning(j, w) /\ To(w, "closing", "paused")
  \/ /\ run[w].pc = "settled" /\ run[w].outcome \in Verdicts
     /\ Finish(j, w, run[w].outcome) /\ To(w, "closing", run[w].outcome)
  \/ Loses(w)
  \/ run[w].pc = "closing" /\ UNCHANGED vars /\ To(w, "telling", run[w].outcome) /\ run[w].outcome # "quiet"
  \/ run[w].pc # "unused" /\ WorkersDie({w}) /\ run'[w] = Ended(w)
  \/ run[w].pc \in {"closing", "telling"} /\ UNCHANGED vars /\ run'[w] = Ended(w)

Publishes(w) ==
  \/ published' = published /\ (run'[w].pc = "reviewed" => run[w].pc = "reviewed")
  \/ /\ run[w].pc = "captured" /\ run'[w].pc = "reviewed"
     /\ published' = [published EXCEPT ![run[w].task] = @ + 1]

(* The messages are those of a run that closed its task. *)
Says(w) == Announce(w) \/ Tell(w) \/ (UNCHANGED chatVars /\ run[w].pc # "telling")

LEMMA RunActs ==
  ASSUME Inv, RunnerType, NEW w \in Workers, RunStep(w) \/ Beat(w) \/ ThreadFails(w)
  PROVE  Acts(w) /\ Publishes(w) /\ Says(w)
<1> DEFINE j == run[w].task
<1>1. run \in [Workers -> RunRecord] /\ RunFits(run[w]) /\ job \in [Ids -> JobRecord]
  BY DEF RunnerType, Inv, TypeOK
<1>2. ASSUME ThreadEnds(w), run[w].pc # "unused"
      PROVE  Acts(w) /\ Publishes(w)
  <2>1. run'[w] = Ended(w) /\ published' = published /\ WorkersDie({w})
    BY <1>1, <1>2 DEF ThreadEnds
  <2>2. run'[w].pc = "ended"
    BY <1>2, <2>1, EndedFits
  <2>3. QED
    BY <1>2, <2>1, <2>2 DEF Acts, Publishes
<1>3. ASSUME Announce(w) \/ Tell(w) PROVE Acts(w) /\ Publishes(w)
  <2>1. run[w].pc \in {"closing", "telling"}
    BY <1>3 DEF Announce, Tell
  <2>2. CASE Depart(w)
    <3>1. run'[w] = Ended(w) /\ UNCHANGED <<vars, published>>
      BY <1>1, <2>2 DEF Depart
    <3>2. run'[w].pc = "ended"
      BY <2>1, <3>1, EndedFits
    <3>3. QED
      BY <2>1, <3>1, <3>2 DEF Acts, Publishes
  <2>3. CASE run[w].pc = "closing" /\ run[w].outcome # "quiet" /\ Goto(w, "telling") /\ UNCHANGED <<vars, published>>
    <3>1. To(w, "telling", run[w].outcome)
      BY <2>3, MovedFits DEF To
    <3>2. QED
      BY <2>3, <3>1 DEF Acts, Publishes, To
  <2>4. QED
    BY <1>2, <1>3, <2>1, <2>2, <2>3 DEF Announce, Tell
<1>4. ASSUME NEW o \in {"completed", "failed", "cancelled", "retryable", "paused"}, Leave(w, o),
             run[w].pc \in Working, UNCHANGED vars
      PROVE  Acts(w) /\ Publishes(w)
  <2>1. run'[w].pc = "leaving" /\ published' = published
    BY <1>4, MovedFits DEF Working, Verdicts, Leave
  <2>2. QED
    BY <1>4, <2>1 DEF Acts, Publishes, Proceeds, Early
<1>5. ASSUME NEW pc \in Working, Goto(w, pc), run[w].pc \in Working,
             pc \in Early => run[w].pc \in Early
      PROVE  Proceeds(w) /\ run'[w].pc = pc
  <2>1. run'[w].pc = pc /\ run'[w].outcome = run[w].outcome
    BY <1>5, MovedFits DEF Working
  <2>2. QED
    BY <1>5, <2>1 DEF Proceeds
<1>6. ASSUME ClaimTask(w) PROVE Acts(w) /\ Publishes(w)
  <2>1. run[w].pc = "begun" /\ published' = published
    BY <1>6 DEF ClaimTask, Close
  <2>2. CASE Claim(j, w) /\ run' = [run EXCEPT ![w].pc = "claimed", ![w].stage = job[j].stage]
    <3>1. run'[w].pc = "claimed" /\ run'[w].outcome = run[w].outcome
      BY <1>1, <2>2 DEF RunRecord
    <3>2. QED
      BY <2>1, <2>2, <3>1 DEF Acts, Publishes, To
  <2>3. CASE Close(w, "quiet") /\ UNCHANGED vars
    <3>1. run'[w].pc = "closing" /\ run'[w].outcome = "quiet"
      BY <2>1, <2>3, MovedFits DEF Outcomes
    <3>2. QED
      BY <2>1, <2>3, <3>1 DEF Acts, Loses, Publishes
  <2>4. QED
    BY <1>6, <2>2, <2>3 DEF ClaimTask
<1>7. ASSUME Register(w) \/ Work(w) \/ Validate(w) \/ CleanUp(w) PROVE Acts(w) /\ Publishes(w)
  <2>1. run[w].pc \in Working /\ published' = published /\ UNCHANGED vars
    BY <1>7 DEF Register, Work, Validate, CleanUp, Working, Leave, LeavePublication
  <2>2. ASSUME NEW pc \in {"working", "captured", "cleaning", "validated"}, Goto(w, pc),
               pc \in Early => run[w].pc \in Early
        PROVE  Acts(w) /\ Publishes(w)
    <3>1. Proceeds(w) /\ run'[w].pc = pc
      BY <1>5, <2>1, <2>2 DEF Working
    <3>2. QED
      BY <2>1, <3>1 DEF Acts, Publishes
  <2>3. CASE Register(w)
    BY <2>2, <2>3 DEF Register, Early
  <2>4. CASE Work(w)
    BY <1>4, <2>1, <2>2, <2>4 DEF Work, Early
  <2>5. CASE Validate(w)
    BY <1>4, <2>1, <2>2, <2>5 DEF Validate, Early
  <2>6. CASE CleanUp(w)
    BY <1>4, <2>1, <2>6 DEF CleanUp, LeavePublication
  <2>7. QED
    BY <1>7, <2>3, <2>4, <2>5, <2>6
<1>8. ASSUME Capture(w) PROVE Acts(w) /\ Publishes(w)
  <2>1. run[w].pc = "validated" /\ j \in Ids
    BY <1>1, <1>8 DEF Capture, RunFits
  <2>2. CASE RecordPublication(j, w, "captured", job[j].review) /\ Goto(w, "captured") /\ published' = published
    <3>1. Proceeds(w) /\ run'[w].pc = "captured"
      BY <1>5, <2>1, <2>2 DEF Early, Working
    <3>2. RecordsReview(w)
      BY <1>1, <2>1, <2>2 DEF RecordsReview, Stages, JobRecord
    <3>3. QED
      BY <2>2, <3>1, <3>2 DEF Acts, Publishes
  <2>3. QED
    BY <1>4, <1>8, <2>1, <2>2 DEF Capture, LeavePublication, Working
<1>9. ASSUME PublishReview(w) PROVE Acts(w) /\ Publishes(w)
  <2>1. run[w].pc = "captured" /\ UNCHANGED vars
    BY <1>9 DEF PublishReview
  <2>2. CASE Goto(w, "reviewed") /\ published' = [published EXCEPT ![j] = @ + 1]
    <3>1. Proceeds(w) /\ run'[w].pc = "reviewed"
      BY <1>5, <2>1, <2>2 DEF Working, Early
    <3>2. QED
      BY <2>1, <2>2, <3>1 DEF Acts, Publishes
  <2>3. QED
    BY <1>4, <1>9, <2>1, <2>2 DEF PublishReview, LeavePublication, Working
<1>10. ASSUME RecordReview(w) PROVE Acts(w) /\ Publishes(w)
  <2>1. run[w].pc = "reviewed"
    BY <1>10 DEF RecordReview
  <2>2. CASE /\ RecordPublication(j, w, "review_published", "confirmed")
             /\ Goto(w, "cleaning") /\ published' = published
    <3>1. Proceeds(w) /\ run'[w].pc = "cleaning"
      BY <1>5, <2>1, <2>2 DEF Working, Early
    <3>2. RecordsReview(w)
      BY <2>1, <2>2 DEF RecordsReview, Stages, Reviews
    <3>3. QED
      BY <2>2, <3>1, <3>2 DEF Acts, Publishes
  <2>3. QED
    BY <1>4, <1>10, <2>1, <2>2 DEF RecordReview, LeavePublication, Working
<1>11. ASSUME NEW o \in Verdicts \union {"paused"}, CloseLost(w, o), ~Owns(j, w),
              run[w].pc \in {"leaving", "settled"}, run[w].pc = "settled" => o = run[w].outcome
       PROVE  Acts(w) /\ Publishes(w)
  <2> DEFINE q == IF Status(j) = o THEN o ELSE "quiet"
  <2>1. Close(w, q) /\ UNCHANGED vars /\ published' = published
    BY <1>11 DEF CloseLost, Close
  <2>2. q \in Outcomes
    BY DEF Outcomes
  <2>3. run'[w].pc = "closing" /\ run'[w].outcome = q
    BY <1>11, <2>1, <2>2, MovedFits
  <2>4. Loses(w)
    BY <1>11, <2>1, <2>3 DEF Loses
  <2>5. QED
    BY <2>1, <2>3, <2>4 DEF Acts, Publishes
<1>12. ASSUME Settle(w) PROVE Acts(w) /\ Publishes(w)
  <2>1. run[w].pc = "leaving" /\ Verdict(w) \in Verdicts
    BY <1>1, <1>12 DEF RunFits, Settle, Verdict, Verdicts
  <2>2. CASE RetryRunning(j, w) /\ Close(w, "quiet")
    <3>1. To(w, "closing", "quiet")
      BY <2>1, <2>2, MovedFits DEF To, Outcomes
    <3>2. QED
      BY <2>1, <2>2, <3>1 DEF Acts, Publishes, To, Close
  <2>3. CASE /\ RecordTerminalEvidence(j, w, Verdict(w)) \/ (Owns(j, w) /\ UNCHANGED vars)
             /\ run' = [run EXCEPT ![w].pc = "settled", ![w].outcome = Verdict(w)]
             /\ published' = published
    <3>1. To(w, "settled", Verdict(w))
      BY <2>1, <2>3, MovedFits DEF To
    <3>2. QED
      BY <2>1, <2>3, <3>1 DEF Acts, Publishes, Settles, To
  <2>4. QED
    BY <1>2, <1>11, <1>12, <2>1, <2>2, <2>3 DEF Settle
<1>13. ASSUME Finalize(w) PROVE Acts(w) /\ Publishes(w)
  <2>1. run[w].pc = "settled" /\ run[w].outcome \in Verdicts
    BY <1>1, <1>13 DEF RunFits, Finalize
  <2>2. CASE Finish(j, w, run[w].outcome) /\ Close(w, run[w].outcome)
    <3>1. To(w, "closing", run[w].outcome)
      BY <2>1, <2>2, MovedFits DEF To, Outcomes
    <3>2. QED
      BY <2>1, <2>2, <3>1 DEF Acts, Publishes, To, Close
  <2>3. QED
    BY <1>11, <1>13, <2>1, <2>2 DEF Finalize
<1>14. ASSUME Pause(w) PROVE Acts(w) /\ Publishes(w)
  <2>1. run[w].pc = "leaving"
    BY <1>14 DEF Pause
  <2>2. CASE PauseRunning(j, w) /\ Close(w, "paused")
    <3>1. To(w, "closing", "paused")
      BY <2>1, <2>2, MovedFits DEF To, Outcomes
    <3>2. QED
      BY <2>1, <2>2, <3>1 DEF Acts, Publishes, To, Close
  <2>3. QED
    BY <1>11, <1>14, <2>1, <2>2 DEF Pause
<1>15. ASSUME Beat(w) PROVE Acts(w) /\ Publishes(w)
  BY <1>15 DEF Beat, Progress, threadVars, Acts, Publishes
<1>16. ASSUME ThreadFails(w) PROVE Acts(w) /\ Publishes(w)
  BY <1>2, <1>16 DEF ThreadFails
<1>17. Says(w)
  BY DEF Says, RunStep, Beat, ThreadFails, Progress, ClaimTask, Register, Work, Validate, Capture,
     PublishReview, RecordReview, CleanUp, Settle, Finalize, Pause
<1>18. QED
  BY <1>3, <1>6, <1>7, <1>8, <1>9, <1>10, <1>12, <1>13, <1>14, <1>15, <1>16, <1>17 DEF RunStep

(* Every step of the daemon is one of four: the queue changes and no run   *)
(* does, a run begins, one run acts, or runs die.                          *)
Aside == /\ Calm /\ UNCHANGED <<run, published, final>>
         /\ main' = "launch" => HandleDirect \/ UNCHANGED <<main, target>>
         /\ \/ UNCHANGED told
            \/ \E j \in Ids : told' = [told EXCEPT ![j] = "cancelled before running"]
Opens(w, j) == /\ Begun(w, j) /\ Calm /\ UNCHANGED <<published, chatVars>>
               /\ (Launch(w) /\ j = target) \/ (StartNext(w) /\ j = running')
Moves(w) == /\ w \in live /\ OneRun(w) /\ Acts(w) /\ Publishes(w) /\ UNCHANGED <<main, target>>
            /\ Says(w)
(* A summary that was about to be sent by a run that died is not sent.     *)
SummaryLost(j) ==
  \/ /\ final'[j] = final[j]
     /\ final[j] = "none" => \A w \in Workers : Tells(w, j) => run'[w] = run[w]
  \/ final[j] = "none" /\ final'[j] = "unsent"
Dies == /\ \E W : WorkersDie(W)
        /\ main' = "launch" => UNCHANGED <<main, target>>
        /\ UNCHANGED <<published, told>> /\ run' \in [Workers -> RunRecord]
        /\ \A j \in Ids : SummaryLost(j)
        /\ final' = final \/ final' = [j \in Ids |-> final'[j]]
        /\ \A w \in Workers : \/ run'[w] = run[w]
                              \/ /\ run[w].pc # "unused" /\ w \notin live'
                                 /\ run'[w] = Ended(w)

LEMMA TurnTold ==
  ASSUME Turn
  PROVE  UNCHANGED told \/ \E j \in Ids : told' = [told EXCEPT ![j] = "cancelled before running"]
  BY DEF Turn, Handle, Recover, Look, ReconcileTurn, EndTurn, Shelve, StopTask, HandleRequest, HandleDirect,
     HandleUnavailable, HandleStop, HandleCancel, CronEnqueues, StartLoop, EndLoop, TimePasses, Shutdown,
     chatVars

LEMMA TurnLaunch ==
  ASSUME Turn PROVE main' = "launch" => HandleDirect \/ UNCHANGED <<main, target>>
  BY DEF Turn, Handle, Recover, Look, ReconcileTurn, EndTurn, Shelve, StopTask, HandleRequest,
     HandleUnavailable, HandleStop, HandleCancel, CronEnqueues, StartLoop, EndLoop, TimePasses, Shutdown,
     Main, daemonVars

LEMMA StepCases ==
  ASSUME Inv, RunnerType, [RunnerNext]_runnerVars
  PROVE  \/ Aside
         \/ \E w \in Workers, j \in Ids : Opens(w, j)
         \/ \E w \in Workers : Moves(w)
         \/ Dies
<1>1. CASE Turn
  BY <1>1, TurnCalm, TurnTold, TurnLaunch DEF Aside
<1>2. ASSUME NEW w \in Workers, Launch(w) PROVE \E j \in Ids : Opens(w, j)
  BY <1>2, LaunchFits DEF Launch, Opens, Calm, chatVars
<1>3. ASSUME NEW w \in Workers, StartNext(w) PROVE \E j \in Ids : Opens(w, j)
  BY <1>3, StartFits DEF StartNext, Opens, Calm, chatVars
<1>4. ASSUME NEW w \in Workers, RunStep(w) \/ Beat(w) \/ ThreadFails(w) PROVE Moves(w)
  <2>1. w \in live /\ UNCHANGED <<main, target>>
    BY <1>4 DEF RunStep, Beat, ThreadFails, Current, daemonVars
  <2>2. OneRun(w)
    <3>1. CASE Beat(w) /\ UNCHANGED run
      <4>1. run[w].pc = "working" /\ RunFits(run[w]) /\ run \in [Workers -> RunRecord]
        BY <3>1 DEF Beat, Progress, RunnerType
      <4>2. QED
        BY <3>1, <4>1 DEF OneRun
    <3>2. QED
      BY <1>4, <3>1, RunMoves
  <2>3. QED
    BY <1>4, <2>1, <2>2, RunActs DEF Moves
<1>5. CASE Crash \/ Start \/ OldProcessExits
  <2>1. /\ (\E W : WorkersDie(W)) /\ UNCHANGED <<published, told>>
        /\ main' = "launch" => UNCHANGED <<main, target>>
    BY <1>5 DEF Crash, Start, OldProcessExits, Forget, chatVars, daemonVars
  <2>2. (\A j \in Ids : SummaryLost(j)) /\ (final' = final \/ final' = [j \in Ids |-> final'[j]])
    <3>1. CASE Start \/ OldProcessExits
      BY <3>1 DEF Start, OldProcessExits, chatVars, threadVars, SummaryLost
    <3>2. CASE Crash
      <4>1. \A w \in Workers : run'[w] = IF w \in Used \ stale THEN Ended(w) ELSE run[w]
        BY <3>2 DEF Crash
      <4>2. \A j \in Ids : final'[j] = IF final[j] = "none" /\ (\E w \in Used \ stale : Tells(w, j))
                                       THEN "unsent" ELSE final[j]
        BY <3>2 DEF Crash
      <4>3. \A j \in Ids : SummaryLost(j)
        BY <4>1, <4>2 DEF SummaryLost, Used
      <4>4. final' = [j \in Ids |-> final'[j]]
        BY <3>2 DEF Crash
      <4>5. QED
        BY <4>3, <4>4
    <3>3. QED
      BY <1>5, <3>1, <3>2
  <2>3. QED
    BY <1>5, <2>1, <2>2, RunsEnd DEF Dies
<1>6. CASE UNCHANGED runnerVars
  BY <1>6 DEF runnerVars, daemonVars, threadVars, chatVars, Aside, Calm
<1>7. QED
  BY <1>1, <1>2, <1>3, <1>4, <1>5, <1>6 DEF RunnerNext, MainStep, LoopStep, Turn

LEMMA OtherRuns ==
  ASSUME RunnerType, NEW w \in Workers, NEW v \in Workers, v # w,
         OneRun(w) \/ \E j \in Ids : Begun(w, j)
  PROVE  run'[v] = run[v]
  BY DEF RunnerType, OneRun, Begun

(* What a run does to the records: its own task's, while it owns it.       *)
LEMMA ActsOnOwn ==
  ASSUME Inv, RunnerType, NEW w \in Workers, Acts(w)
  PROVE  /\ UNCHANGED job \/ (/\ Claimable(run[w].task, w)
                              /\ \A k \in Ids : k # run[w].task => job'[k] = job[k])
         /\ live' = live \/ (live' = live \ {w} /\ run'[w] = Ended(w))
<1> DEFINE j == run[w].task
<1>1. job \in [Ids -> JobRecord]
  BY DEF Inv, TypeOK
<1>2. ASSUME NEW r, job' = [job EXCEPT ![j] = r] PROVE \A k \in Ids : k # j => job'[k] = job[k]
  BY <1>1, <1>2
<1>3. CASE \/ RecordsReview(w) \/ Claim(j, w) \/ Heartbeat(j, w)
           \/ RecordTerminalEvidence(j, w, Verdict(w))
  BY <1>1, <1>3 DEF RecordsReview, RecordPublication, RecordTerminalEvidence, ChangeJob, Claim,
     Claimable, Heartbeat, Owns, Lease
<1>4. CASE RetryRunning(j, w) \/ PauseRunning(j, w) \/ Finish(j, w, run[w].outcome)
  BY <1>1, <1>4 DEF RetryRunning, Requeue, PauseRunning, Finish, Retire, Owns, Claimable
<1>5. CASE UNCHANGED vars
  BY <1>5 DEF vars, queueVars
<1>6. CASE WorkersDie({w}) /\ run'[w] = Ended(w)
  BY <1>6 DEF WorkersDie, queueVars
<1>7. QED
  BY <1>3, <1>4, <1>5, <1>6 DEF Acts, Settles, Loses

-----------------------------------------------------------------------------
(* One live run works on a task *)

LEMMA ActsAsOwner ==
  ASSUME Inv, RunnerType, NEW w \in Workers, w \in live, Acts(w), NEW j \in Ids, run[w].task = j
  PROVE  /\ run'[w].pc \in Busy => (run[w].pc \in Busy /\ UNCHANGED vars) \/ Owns(j, w)'
         /\ run'[w].pc \in Working => run[w].pc \in Working \/ (Claimable(j, w) /\ running # 0)
<1> DEFINE old == job[j]
<1>1. job \in [Ids -> JobRecord] /\ RunFits(run[w])
  BY DEF Inv, TypeOK, RunnerType
<1>2. ASSUME Owns(j, w), NEW r, ChangeJob(j, r), r.worker = old.worker
      PROVE  Owns(j, w)'
  BY <1>1, <1>2 DEF ChangeJob, Owns
<1>3. CASE RecordsReview(w) /\ run[w].pc \in Working
  <2>1. PICK st \in Stages, rv \in Reviews : RecordPublication(j, w, st, rv)
    BY <1>3 DEF RecordsReview
  <2>2. j \in Ids
    BY <1>1, <1>3 DEF RunFits, Working
  <2> DEFINE r == [old EXCEPT !.stage = st, !.review = rv]
  <2>3. Owns(j, w) /\ ChangeJob(j, r) /\ old \in JobRecord
    BY <1>1, <2>1, <2>2 DEF RecordPublication
  <2> HIDE DEF old
  <2>4. r.worker = old.worker
    BY <2>3 DEF JobRecord
  <2> HIDE DEF r
  <2>5. QED
    BY <1>2, <1>3, <2>2, <2>3, <2>4 DEF old
<1>4. CASE RecordTerminalEvidence(j, w, Verdict(w)) /\ run[w].pc = "leaving" /\ run'[w].pc = "settled"
  <2>1. j \in Ids
    BY <1>1, <1>4 DEF RunFits
  <2> DEFINE r == [old EXCEPT !.verdict = Verdict(w)]
  <2>2. Owns(j, w) /\ ChangeJob(j, r) /\ old \in JobRecord
    BY <1>1, <1>4, <2>1 DEF RecordTerminalEvidence
  <2> HIDE DEF old
  <2>3. r.worker = old.worker
    BY <2>2 DEF JobRecord
  <2> HIDE DEF r
  <2>4. QED
    BY <1>2, <1>4, <2>1, <2>2, <2>3 DEF old, Working
<1>5. ASSUME Claimable(j, w), Lease(w), run[w].pc \in {"begun", "working"} PROVE Owns(j, w)' /\ running # 0
  <2>1. j \in Ids /\ running = j /\ j # 0
    BY <1>1, <1>5, ConstantsAssumption DEF RunFits, Claimable, Ids
  <2> DEFINE r == [old EXCEPT !.worker = w, !.lease = FreshLease]
  <2>2. job' = [job EXCEPT ![j] = r] /\ UNCHANGED <<running, live>> /\ old \in JobRecord
    BY <1>1, <1>5, <2>1 DEF Lease
  <2> HIDE DEF old
  <2>3. r.worker = w
    BY <2>2 DEF JobRecord
  <2> HIDE DEF r
  <2>4. QED
    BY <1>1, <2>1, <2>2, <2>3 DEF Owns
<1>6. CASE run[w].pc = "begun" /\ Claim(j, w)
  BY <1>5, <1>6 DEF Claim
<1>7. CASE run[w].pc = "working" /\ Heartbeat(j, w)
  BY <1>5, <1>7 DEF Heartbeat, Owns, Claimable, Working
<1>8. CASE run'[w].pc \notin Busy
  BY <1>8 DEF Busy
<1>9. CASE Settles(w) /\ ~RecordTerminalEvidence(j, w, Verdict(w))
  BY <1>9 DEF Settles, To, Owns, Busy, Working
<1>10. CASE Proceeds(w) /\ UNCHANGED vars
  BY <1>10 DEF Proceeds, Busy
<1>11. CASE run'[w] = Ended(w)
  BY <1>8, <1>11 DEF Ended, NoRun, Busy, Working
<1>12. QED
  BY <1>3, <1>4, <1>6, <1>7, <1>8, <1>9, <1>10, <1>11
     DEF Acts, Proceeds, Settles, Loses, To, Busy, Working

LEMMA OwnedStep ==
  ASSUME Inv, RunnerType, Owned, [RunnerNext]_runnerVars PROVE Owned'
<1>1. [Next]_vars /\ Inv' /\ RunnerType'
  BY RunnerQueueStep, StepInv, RunnerTypeStep
<1> SUFFICES ASSUME NEW v \in live', NEW j \in Ids, run'[v].task = j, run'[v].pc \in Busy,
                    pauses'[j] = 0
             PROVE  Owns(j, v)' \/ Status(j)' \in Terminal
  <2>1. \A v \in live' : run'[v].pc \in Busy => run'[v].task \in Ids
    BY <1>1 DEF RunnerType, RunFits, Busy, Working, Inv, TypeOK
  <2>2. QED
    BY <2>1 DEF Owned, OwnedFor, Owns, Status
<1>2. v \in Workers /\ live \in SUBSET Workers /\ live' \in SUBSET Workers
  BY <1>1 DEF Inv, TypeOK
<1>4. j \in Ids
  OBVIOUS
<1>5. pauses[j] = 0 /\ (Status(j) \in Terminal => Status(j)' \in Terminal)
  <2>1. pauses[j] = 0
    BY <1>1, PausesGrow
  <2>2. Status(j) \in Terminal => Status(j)' \in Terminal
    BY <1>1, EndingsStay DEF Status
  <2>3. QED
    BY <2>1, <2>2
<1>6. ASSUME job'[j] = job[j], Owns(j, v) PROVE Owns(j, v)'
  <2>1. job[j].status = "running"
    BY <1>6, Whereabouts DEF Owns
  <2>2. running' = j
    BY <1>1, <1>6, <2>1 DEF Inv, Placement, Status
  <2>3. QED
    BY <1>6, <2>2 DEF Owns
<1>7. ASSUME run'[v] = run[v], v \in live PROVE Owns(j, v) \/ Status(j) \in Terminal
  BY <1>5, <1>7 DEF Owned, OwnedFor
<1>8. ASSUME Calm, run'[v] = run[v] PROVE Owns(j, v)' \/ Status(j)' \in Terminal
  <2>1. v \in live /\ CalmRecord(j)
    BY <1>4, <1>8, CalmLives, CalmRecords
  <2>2. CASE Status(j) \in Terminal
    BY <1>5, <2>2
  <2>3. CASE Owns(j, v)
    <3>1. Status(j) = "running" /\ job[j].worker = v
      BY <1>4, <2>3, Whereabouts DEF Owns
    <3>2. job'[j] = job[j] \/ job'[j].status \in Verdicts
      BY <1>5, <2>1, <3>1 DEF CalmRecord, New, Starts, Leaves, Waits
    <3>3. QED
      BY <1>6, <2>3, <3>2 DEF Status, Terminal
  <2>4. QED
    BY <1>7, <1>8, <2>1, <2>2, <2>3
<1>9. CASE Aside
  BY <1>8, <1>9 DEF Aside
<1>10. ASSUME NEW w \in Workers, NEW k \in Ids, Opens(w, k)
       PROVE  Owns(j, v)' \/ Status(j)' \in Terminal
  <2>1. v # w
    BY <1>10 DEF Opens, Begun, Busy, Working
  <2>2. run'[v] = run[v]
    BY <1>2, <1>10, <2>1, OtherRuns DEF Opens
  <2>3. QED
    BY <1>8, <1>10, <2>2 DEF Opens
<1>11. ASSUME NEW w \in Workers, Moves(w) PROVE Owns(j, v)' \/ Status(j)' \in Terminal
  <2>1. v \in live /\ Acts(w) /\ OneRun(w)
    BY <1>11, ActsOnOwn DEF Moves
  <2>2. CASE v = w
    <3>1. run'[v].task = run[v].task
      BY <2>1, <2>2 DEF OneRun
    <3>2. Owns(j, v)' \/ (run[v].pc \in Busy /\ UNCHANGED vars)
      BY <1>2, <2>1, <2>2, <3>1, ActsAsOwner
    <3>3. ASSUME run[v].pc \in Busy, UNCHANGED vars
          PROVE  Owns(j, v)' \/ Status(j)' \in Terminal
      <4>1. Owns(j, v) \/ Status(j) \in Terminal
        BY <1>5, <2>1, <3>1, <3>3 DEF Owned, OwnedFor
      <4>2. QED
        BY <1>5, <1>6, <3>3, <4>1 DEF vars, queueVars
    <3>4. QED
      BY <3>2, <3>3
  <2>3. CASE v # w
    <3>1. run'[v] = run[v]
      BY <1>2, <1>11, <2>1, <2>3, OtherRuns
    <3>2. CASE Status(j) \in Terminal
      BY <1>5, <3>2
    <3>3. CASE Owns(j, v)
      <4>1. ~Claimable(run[w].task, w) \/ run[w].task # j
        BY <2>3, <3>3 DEF Claimable, Owns, OwnerActive
      <4>2. job'[j] = job[j]
        BY <1>4, <2>1, <3>3, <4>1, ActsOnOwn DEF Claimable, Owns
      <4>3. QED
        BY <1>6, <3>3, <4>2
    <3>4. QED
      BY <1>7, <2>1, <3>1, <3>2, <3>3
  <2>4. QED
    BY <2>2, <2>3
<1>12. CASE Dies
  <2>1. job' = job /\ v \in live /\ run'[v] = run[v]
    BY <1>2, <1>12 DEF Dies, WorkersDie, queueVars
  <2>2. QED
    BY <1>5, <1>6, <1>7, <2>1
<1>13. QED
  BY <1>9, <1>10, <1>11, <1>12, StepCases

LEMMA OneRunStep ==
  ASSUME Inv, RunnerType, Owned, OneRunPerTask, [RunnerNext]_runnerVars PROVE OneRunPerTask'
<1>1. [Next]_vars /\ Inv' /\ RunnerType'
  BY RunnerQueueStep, StepInv, RunnerTypeStep
<1> SUFFICES ASSUME NEW v \in live', NEW w \in live', v # w, NEW j \in Ids,
                    run'[v].task = j, run'[w].task = j,
                    run'[v].pc \in Working, run'[w].pc \in Working, pauses'[j] = 0
             PROVE  FALSE
  <2>1. \A w \in live' : run'[w].pc \in Working => run'[w].task \in Ids
    BY <1>1 DEF RunnerType, RunFits, Working, Inv, TypeOK
  <2>2. \A j \in Ids : pauses'[j] \in Nat
    BY <1>1 DEF Inv, TypeOK
  <2>3. QED
    BY <2>1, <2>2 DEF OneRunPerTask
<1>2. v \in Workers /\ w \in Workers /\ live' \in SUBSET Workers
  BY <1>1 DEF Inv, TypeOK
<1>3. j \in Ids
  OBVIOUS
<1>4. pauses[j] = 0
  BY <1>1, <1>3, PausesGrow
(* Both worked before: impossible, as it is now. *)
<1>5. ~(/\ v \in live /\ w \in live /\ run[v].task = j /\ run[w].task = j
         /\ run[v].pc \in Working /\ run[w].pc \in Working)
  BY <1>4 DEF OneRunPerTask
(* One of them claims the task: then the other does not own it. *)
<1>6. ASSUME NEW x \in live, NEW y \in live, x # y, run[y].task = j, run[y].pc \in Working,
             Claimable(j, x), running # 0
      PROVE  FALSE
  <2>1. Owns(j, y) \/ Status(j) \in Terminal
    BY <1>4, <1>6 DEF Owned, OwnedFor, Busy
  <2>2. Status(j) = "running"
    BY <1>3, <1>6, Whereabouts DEF Claimable
  <2>3. Owns(j, y)
    BY <2>1, <2>2 DEF Terminal, Verdicts, Repaired
  <2>4. QED
    BY <1>6, <2>3 DEF Owns, Claimable, OwnerActive
<1>7. CASE Aside
  BY <1>5, <1>7, CalmLives DEF Aside
<1>8. ASSUME NEW u \in Workers, NEW k \in Ids, Opens(u, k) PROVE FALSE
  <2>1. u # v /\ u # w
    BY <1>8 DEF Opens, Begun, Working
  <2>2. run'[v] = run[v] /\ run'[w] = run[w]
    BY <1>2, <1>8, <2>1, OtherRuns DEF Opens
  <2>3. QED
    BY <1>5, <1>8, <2>2, CalmLives DEF Opens
<1>9. ASSUME NEW x \in Workers, NEW y \in live, x \in live, x # y, Moves(x),
             run'[x].task = j, run'[y].task = j, run'[x].pc \in Working, run'[y].pc \in Working
      PROVE  run[x].pc \in Working /\ run[x].task = j /\ run'[y] = run[y]
  <2>1. y \in Workers
    BY DEF Inv, TypeOK
  <2>2. run'[y] = run[y] /\ run[x].task = j
    BY <1>9, <2>1, OtherRuns DEF Moves, OneRun
  <2>3. run[x].pc \in Working \/ (Claimable(j, x) /\ running # 0)
    BY <1>9, <2>2, ActsAsOwner DEF Moves
  <2>4. QED
    BY <1>6, <1>9, <2>2, <2>3
<1>10. ASSUME NEW u \in Workers, Moves(u) PROVE FALSE
  <2>1. v \in live /\ w \in live /\ live' \subseteq live
    BY <1>10, ActsOnOwn DEF Moves
  <2>2. CASE u # v /\ u # w
    <3>1. run'[v] = run[v] /\ run'[w] = run[w]
      BY <1>2, <1>10, <2>2, OtherRuns DEF Moves
    <3>2. QED
      BY <1>5, <2>1, <3>1
  <2>3. QED
    BY <1>2, <1>5, <1>9, <1>10, <2>1, <2>2
<1>11. CASE Dies
  <2>1. v \in live /\ w \in live /\ run'[v] = run[v] /\ run'[w] = run[w]
    BY <1>2, <1>11 DEF Dies, WorkersDie
  <2>2. QED
    BY <1>5, <2>1
<1>12. QED
  BY <1>7, <1>8, <1>10, <1>11, StepCases

-----------------------------------------------------------------------------
(* What a run writes in the record of its task *)

OwnRecord(w, j) ==
  /\ Claimable(j, w) /\ Status(j) = "running"
  /\ job'[j].parent = job[j].parent /\ job'[j].attempt = job[j].attempt
  /\ \/ /\ job'[j].status = "running" /\ job'[j].worker = w /\ job'[j].verdict = job[j].verdict
        /\ job'[j].review = job[j].review \/ (job'[j].review = "confirmed" /\ run[w].pc = "reviewed")
     \/ /\ job'[j].status = "running" /\ job'[j].worker = w /\ job'[j].review = job[j].review
        /\ To(w, "settled", job'[j].verdict)
     \/ /\ job'[j].status \in {"pending", "paused"} /\ job'[j].review = job[j].review
     \/ /\ job'[j].status = run[w].outcome /\ job'[j].review = job[j].review
        /\ To(w, "closing", run[w].outcome)

LEMMA OwnWrites ==
  ASSUME Inv, RunnerType, NEW w \in Workers, w \in live, Acts(w), NEW j \in Ids, run[w].task = j
  PROVE  job'[j] = job[j] \/ OwnRecord(w, j)
<1> DEFINE old == job[j]
<1>1. job \in [Ids -> JobRecord] /\ old \in JobRecord /\ RunFits(run[w]) /\ j # 0
  BY Whereabouts DEF Inv, TypeOK, RunnerType
<1>2. ASSUME NEW r, job' = [job EXCEPT ![j] = r] PROVE job'[j] = r
  BY <1>1, <1>2
<1>3. ASSUME Owns(j, w) PROVE Claimable(j, w) /\ Status(j) = "running" /\ old.worker = w
  BY <1>3, Whereabouts DEF Owns, Claimable
<1>4. CASE RecordsReview(w)
  <2>1. PICK st \in Stages, rv \in Reviews :
          /\ RecordPublication(j, w, st, rv)
          /\ rv = old.review \/ (rv = "confirmed" /\ run[w].pc = "reviewed")
    BY <1>4 DEF RecordsReview
  <2> DEFINE r == [old EXCEPT !.stage = st, !.review = rv]
  <2>2. Owns(j, w) /\ job'[j] = r
    BY <1>2, <2>1 DEF RecordPublication, ChangeJob
  <2>3. Claimable(j, w) /\ old.status = "running" /\ old.worker = w
    BY <1>3, <2>2 DEF Status
  <2> HIDE DEF old
  <2>4. /\ r.parent = old.parent /\ r.attempt = old.attempt /\ r.status = old.status
        /\ r.worker = old.worker /\ r.verdict = old.verdict /\ r.review = rv
    BY <1>1 DEF JobRecord
  <2> HIDE DEF r
  <2>5. QED
    BY <2>1, <2>2, <2>3, <2>4 DEF OwnRecord, Status, old
<1>5. CASE Settles(w) /\ RecordTerminalEvidence(j, w, Verdict(w))
  <2> DEFINE r == [old EXCEPT !.verdict = Verdict(w)]
  <2>1. Owns(j, w) /\ job'[j] = r /\ To(w, "settled", Verdict(w)) /\ Verdict(w) \in Verdicts
    BY <1>2, <1>5 DEF Settles, RecordTerminalEvidence, ChangeJob
  <2>2. Claimable(j, w) /\ old.status = "running" /\ old.worker = w
    BY <1>3, <2>1 DEF Status
  <2> HIDE DEF old
  <2>3. /\ r.parent = old.parent /\ r.attempt = old.attempt /\ r.status = old.status
        /\ r.worker = old.worker /\ r.verdict = Verdict(w) /\ r.review = old.review
    BY <1>1 DEF JobRecord
  <2> HIDE DEF r
  <2>4. QED
    BY <2>1, <2>2, <2>3 DEF OwnRecord, Status, old
<1>6. ASSUME Claimable(j, w), Lease(w) PROVE OwnRecord(w, j)
  <2> DEFINE r == [old EXCEPT !.worker = w, !.lease = FreshLease]
  <2>1. running = j /\ job'[j] = r
    BY <1>2, <1>6 DEF Claimable, Lease
  <2>2. old.status = "running"
    BY <2>1, Whereabouts
  <2> HIDE DEF old
  <2>3. /\ r.parent = old.parent /\ r.attempt = old.attempt /\ r.status = old.status
        /\ r.worker = w /\ r.verdict = old.verdict /\ r.review = old.review
    BY <1>1 DEF JobRecord
  <2> HIDE DEF r
  <2>4. QED
    BY <1>6, <2>1, <2>2, <2>3 DEF OwnRecord, Status, old
<1>7. CASE Claim(j, w) \/ Heartbeat(j, w)
  BY <1>3, <1>6, <1>7 DEF Claim, Heartbeat
<1>8. CASE RetryRunning(j, w)
  <2> DEFINE x == [old EXCEPT !.due = FALSE, !.verdict = "none"]
             r == Disowned([x EXCEPT !.status = "pending"])
  <2>1. Owns(j, w) /\ job'[j] = r
    BY <1>2, <1>8 DEF RetryRunning, Requeue
  <2>2. Claimable(j, w) /\ Status(j) = "running"
    BY <1>3, <2>1
  <2> HIDE DEF old
  <2>3. x \in JobRecord /\ x.review = old.review /\ x.parent = old.parent /\ x.attempt = old.attempt
    BY <1>1 DEF JobRecord
  <2> HIDE DEF x
  <2>4. Like(r, x) /\ r.status = "pending"
    BY <2>3, StatusFields
  <2> HIDE DEF r
  <2>5. QED
    BY <2>1, <2>2, <2>3, <2>4 DEF OwnRecord, Like, old
<1>9. CASE PauseRunning(j, w)
  <2> DEFINE r == Disowned([old EXCEPT !.status = "paused", !.verdict = "none"])
  <2>1. Owns(j, w) /\ job'[j] = r
    BY <1>2, <1>9 DEF PauseRunning
  <2>2. Claimable(j, w) /\ Status(j) = "running"
    BY <1>3, <2>1
  <2> HIDE DEF old
  <2>3. Like(r, old) /\ r.status = "paused"
    BY <1>1, PausedFields
  <2> HIDE DEF r
  <2>4. QED
    BY <2>1, <2>2, <2>3 DEF OwnRecord, Like, old
<1>10. CASE /\ Finish(j, w, run[w].outcome) /\ To(w, "closing", run[w].outcome)
            /\ run[w].outcome \in Verdicts
  <2> DEFINE o == run[w].outcome
             r == Disowned([old EXCEPT !.status = o])
  <2>1. Owns(j, w) /\ job'[j] = r
    BY <1>2, <1>10 DEF Finish, Retire
  <2>2. Claimable(j, w) /\ Status(j) = "running"
    BY <1>3, <2>1
  <2>3. o \in Terminal
    BY <1>10 DEF Terminal
  <2> HIDE DEF old, o
  <2>4. Like(r, old) /\ r.status = o
    BY <1>1, <2>3, StatusFields
  <2> HIDE DEF r
  <2>5. QED
    BY <1>10, <2>1, <2>2, <2>4 DEF OwnRecord, Like, old, o
<1>11. CASE job' = job
  BY <1>11
<1>12. QED
  BY <1>4, <1>5, <1>7, <1>8, <1>9, <1>10, <1>11
     DEF Acts, Settles, Loses, WorkersDie, vars, queueVars

LEMMA RecordCases ==
  ASSUME Inv, RunnerType, [RunnerNext]_runnerVars, NEW j \in Ids
  PROVE  CalmRecord(j) \/ \E w \in Workers : Moves(w) /\ run[w].task = j /\ OwnRecord(w, j)
<1>1. CASE Calm
  BY <1>1, CalmRecords
<1>2. ASSUME NEW w \in Workers, Moves(w)
      PROVE  job'[j] = job[j] \/ (run[w].task = j /\ OwnRecord(w, j))
  BY <1>2, ActsOnOwn, OwnWrites DEF Moves
<1>3. CASE Dies
  BY <1>3 DEF Dies, WorkersDie, queueVars, CalmRecord
<1>4. QED
  BY <1>1, <1>2, <1>3, StepCases DEF Aside, Opens, CalmRecord

LEMMA PublishedGrows ==
  ASSUME Inv, RunnerType, [RunnerNext]_runnerVars, NEW j \in Ids
  PROVE  published[j] > 0 => published'[j] > 0
<1>1. published \in [Ids -> Nat]
  BY DEF RunnerType
<1>2. ASSUME NEW w \in Workers, Publishes(w) PROVE published[j] > 0 => published'[j] > 0
  <2>1. CASE published' = [published EXCEPT ![run[w].task] = @ + 1]
    <3>1. published'[j] = published[j] \/ published'[j] = published[j] + 1
      BY <1>1, <2>1
    <3>2. QED
      BY <1>1, <3>1
  <2>2. QED
    BY <1>2, <2>1 DEF Publishes
<1>3. QED
  BY <1>2, StepCases DEF Aside, Opens, Moves, Dies

LEMMA DoneStays ==
  ASSUME Inv, RunnerType, [RunnerNext]_runnerVars, NEW w \in Workers, NEW j \in Ids, Done(w, j),
         w \notin live \/ Owns(j, w) \/ Status(j) = "completed"
  PROVE  run'[w].task = j /\ run'[w].outcome = "completed" /\ run'[w].pc \in {"settled", "closing", "telling", "ended"}
<1> DEFINE Kept1 == /\ run'[w].task = j /\ run'[w].outcome = "completed"
                    /\ run'[w].pc \in {"settled", "closing", "telling", "ended"}
<1>1. run[w].task = j /\ run[w].outcome = "completed" /\ run[w].pc \in {"settled", "closing", "telling", "ended"}
  BY DEF Done
<1>2. ASSUME run'[w] = run[w] \/ run'[w] = Ended(w) PROVE Kept1
  BY <1>1, <1>2, EndedFits
<1>3. ASSUME Moves(w) PROVE Kept1
  <2>1. run'[w].task = j /\ Acts(w) /\ w \in live
    BY <1>1, <1>3 DEF Moves, OneRun
  <2>2. CASE To(w, "closing", run[w].outcome) \/ To(w, "telling", run[w].outcome)
    BY <1>1, <2>1, <2>2 DEF To
  <2>3. CASE Loses(w)
    BY <1>1, <2>1, <2>3 DEF Loses
  <2>4. QED
    BY <1>1, <1>2, <2>1, <2>2, <2>3 DEF Acts, Proceeds, Settles, Working
<1>4. ASSUME NEW v \in Workers, Moves(v) PROVE Kept1
  BY <1>2, <1>3, <1>4, OtherRuns DEF Moves
<1>5. ASSUME NEW v \in Workers, NEW k \in Ids, Opens(v, k) PROVE Kept1
  <2>1. v # w
    BY <1>1, <1>5 DEF Opens, Begun
  <2>2. QED
    BY <1>2, <1>5, <2>1, OtherRuns DEF Opens
<1>6. CASE Aside \/ Dies
  BY <1>2, <1>6 DEF Aside, Dies
<1>7. QED
  BY <1>4, <1>5, <1>6, StepCases

-----------------------------------------------------------------------------
(* A completed task was done *)

LEMMA CleanQueue ==
  ASSUME RecordInv, NEW j \in Ids, Status(j) = "pending" PROVE job[j].verdict = "none"
  BY RecordOf DEF RecordInv, Sound, Waiting, Status

LEMMA VerdictStep ==
  ASSUME RunnerInv, VerdictDone, [RunnerNext]_runnerVars PROVE VerdictDone'
<1> SUFFICES ASSUME NEW j \in Ids, job'[j].status = "running", job'[j].verdict = "completed"
             PROVE  \E w \in Workers : /\ Done(w, j)'
                                       /\ w \notin live' \/ job'[j].worker = w
  BY DEF VerdictDone, Status
<1>1. Inv /\ RunnerType /\ RecordInv /\ [Next]_vars
  BY RunnerQueueStep DEF RunnerInv, OriginInv
<1>2. live' \subseteq live
  BY <1>1, StepCases, CalmLives, ActsOnOwn DEF Aside, Opens, Moves, Dies, WorkersDie
<1>3. ASSUME Status(j) = "running", job[j].verdict = "completed"
      PROVE  \E w \in Workers : Done(w, j)' /\ (w \notin live \/ job[j].worker = w)
  <2>1. PICK w \in Workers : Done(w, j) /\ (w \notin live \/ job[j].worker = w)
    BY <1>3 DEF VerdictDone
  <2>2. running = j
    BY <1>1, <1>3, Whereabouts
  <2>3. w \notin live \/ Owns(j, w)
    BY <2>1, <2>2 DEF Owns
  <2>4. Done(w, j)'
    BY <1>1, <2>1, <2>3, DoneStays DEF Done
  <2>5. QED
    BY <2>1, <2>4
<1>4. CASE CalmRecord(j)
  <2>1. CASE job'[j] = job[j]
    BY <1>2, <1>3, <2>1 DEF Status
  <2>2. CASE Starts(j, job'[j])
    BY <1>1, <2>2, CleanQueue DEF Starts
  <2>3. QED
    BY <1>4, <2>1, <2>2 DEF CalmRecord, New, Leaves, Waits, Verdicts
<1>5. ASSUME NEW w \in Workers, Moves(w), run[w].task = j, OwnRecord(w, j)
      PROVE  \E v \in Workers : /\ Done(v, j)'
                                /\ v \notin live' \/ job'[j].worker = v
  <2>1. CASE job'[j].worker = w /\ job'[j].verdict = job[j].verdict
    <3>1. PICK v \in Workers : Done(v, j)' /\ (v \notin live \/ job[j].worker = v)
      BY <1>3, <1>5, <2>1 DEF OwnRecord
    <3>2. v \notin live \/ v = w
      BY <1>5, <3>1 DEF OwnRecord, Claimable, OwnerActive
    <3>3. QED
      BY <1>2, <2>1, <3>1, <3>2
  <2>2. CASE job'[j].worker = w /\ To(w, "settled", job'[j].verdict)
    <3>1. run'[w].task = j
      BY <1>5 DEF Moves, OneRun
    <3>2. Done(w, j)'
      BY <2>2, <3>1 DEF Done, To
    <3>3. QED
      BY <2>2, <3>2
  <2>3. CASE job'[j].status = run[w].outcome /\ To(w, "closing", run[w].outcome)
    <3>1. RunFits(run'[w])
      BY <1>5 DEF Moves, OneRun
    <3>2. run'[w].outcome = "running"
      BY <2>3 DEF To
    <3>3. QED
      BY <3>1, <3>2 DEF RunFits, RunRecord, Outcomes, Verdicts
  <2>4. QED
    BY <1>5, <2>1, <2>2, <2>3 DEF OwnRecord
<1>6. QED
  BY <1>1, <1>4, <1>5, RecordCases

(* A review once seen stays seen: a retry's original has ended, and keeps  *)
(* its review.                                                             *)
LEMMA SeenStays ==
  ASSUME RunnerInv, [RunnerNext]_runnerVars, NEW j \in Ids, ReviewSeen(j),
         job'[j].parent = job[j].parent
  PROVE  ReviewSeen(j)'
<1>1. Inv /\ RunnerType /\ RetriesLinear
  BY DEF RunnerInv, OriginInv
<1>2. CASE published[j] > 0
  BY <1>1, <1>2, PublishedGrows DEF ReviewSeen
<1>3. CASE job[j].parent # 0 /\ job[job[j].parent].review = "confirmed"
  <2> DEFINE p == job[j].parent
  <2>1. p \in Ids
    BY <1>1, <1>3, Whereabouts, ConstantsAssumption DEF JobRecord, Ids
  <2>2. Status(p) = "failed"
    BY <1>1, <1>3 DEF RetriesLinear
  <2> HIDE DEF p
  <2>3. CalmRecord(p)
    BY <1>1, <2>1, <2>2, RecordCases DEF OwnRecord
  <2>4. job'[p].review = job[p].review
    BY <2>2, <2>3 DEF CalmRecord, New, Starts, Leaves, Waits, Like
  <2>5. QED
    BY <1>3, <2>4 DEF ReviewSeen, p
<1>4. QED
  BY <1>2, <1>3 DEF ReviewSeen

LEMMA ReviewedStep ==
  ASSUME RunnerInv, Reviewed, [RunnerNext]_runnerVars PROVE Reviewed'
<1>1. Inv /\ RunnerType
  BY DEF RunnerInv, OriginInv
<1>2. ASSUME NEW j \in Ids, job'[j].review = "confirmed" PROVE ReviewSeen(j)'
  <2>1. ASSUME job[j].review = "confirmed", job'[j].parent = job[j].parent PROVE ReviewSeen(j)'
    BY <2>1, SeenStays DEF Reviewed
  <2>2. CASE CalmRecord(j)
    <3>1. CASE New(j, job'[j])
      <4>1. PICK p \in Ids : job'[j].parent = p /\ Status(p) = "failed" /\ job[p].review = "confirmed"
        BY <1>2, <3>1 DEF New
      <4>2. CalmRecord(p)
        BY <1>1, <4>1, RecordCases DEF OwnRecord
      <4>3. job'[p].review = "confirmed" /\ p # 0
        BY <1>1, <4>1, <4>2, Whereabouts DEF CalmRecord, New, Starts, Leaves, Waits, Like
      <4>4. QED
        BY <4>1, <4>3 DEF ReviewSeen
    <3>2. QED
      BY <1>2, <2>1, <2>2, <3>1 DEF CalmRecord, Starts, Leaves, Waits, Like
  <2>3. ASSUME NEW w \in Workers, run[w].task = j, OwnRecord(w, j) PROVE ReviewSeen(j)'
    <3>1. CASE job'[j].review = job[j].review
      BY <1>2, <2>1, <2>3, <3>1 DEF OwnRecord
    <3>2. CASE run[w].pc = "reviewed"
      <4>1. published[j] > 0
        BY <2>3, <3>2 DEF Reviewed
      <4>2. QED
        BY <1>1, <4>1, PublishedGrows DEF ReviewSeen
    <3>3. QED
      BY <2>3, <3>1, <3>2 DEF OwnRecord
  <2>4. QED
    BY <1>1, <2>2, <2>3, RecordCases
<1>3. ASSUME NEW w \in Workers, run'[w].pc = "reviewed" PROVE published'[run'[w].task] > 0
  <2>1. RunFits(run[w]) /\ RunFits(run'[w]) /\ run'[w].task \in Ids
    BY <1>1, <1>3, RunnerTypeStep DEF RunnerType, RunFits
  <2>2. ASSUME run[w].pc = "reviewed", run'[w].task = run[w].task PROVE published'[run'[w].task] > 0
    BY <1>1, <2>1, <2>2, PublishedGrows DEF Reviewed
  <2>3. CASE Moves(w)
    <3>1. CASE published' = [published EXCEPT ![run[w].task] = @ + 1]
      <4>1. run'[w].task = run[w].task /\ published \in [Ids -> Nat]
        BY <1>1, <2>3 DEF Moves, OneRun, RunnerType
      <4>2. QED
        BY <2>1, <3>1, <4>1
    <3>2. QED
      BY <1>3, <2>2, <2>3, <3>1 DEF Moves, Publishes, OneRun
  <2>4. ASSUME NEW v \in Workers, v # w, Moves(v) \/ \E k \in Ids : Opens(v, k)
        PROVE  published'[run'[w].task] > 0
    <3>1. run'[w] = run[w]
      BY <1>1, <2>4, OtherRuns DEF Moves, Opens
    <3>2. QED
      BY <1>3, <2>2, <3>1
  <2>5. CASE \E k \in Ids : Opens(w, k)
    BY <1>3, <2>5 DEF Opens, Begun
  <2>6. CASE Aside \/ Dies
    BY <1>1, <1>3, <2>2, <2>6, EndedFits DEF Aside, Dies
  <2>7. QED
    BY <1>1, <2>3, <2>4, <2>5, <2>6, StepCases
<1>4. QED
  BY <1>2, <1>3 DEF Reviewed

LEMMA CompletedStep ==
  ASSUME RunnerInv, VerdictDone, Reviewed, CompletedDone, [RunnerNext]_runnerVars
  PROVE  CompletedDone'
<1> SUFFICES ASSUME NEW j \in Ids, job'[j].status = "completed"
             PROVE  (\E w \in Workers : Done(w, j)') \/ ReviewSeen(j)'
  BY DEF CompletedDone, Status
<1>1. Inv /\ RunnerType
  BY DEF RunnerInv, OriginInv
<1>2. ASSUME NEW w \in Workers, Done(w, j), w \notin live \/ Owns(j, w) \/ Status(j) = "completed"
      PROVE  Done(w, j)'
  BY <1>1, <1>2, DoneStays DEF Done
<1>3. CASE job'[j] = job[j]
  BY <1>2, <1>3, SeenStays DEF CompletedDone, Status
<1>4. CASE Leaves(j, job'[j])
  <2>1. Status(j) = "running" /\ "completed" \in Proven(j) /\ job'[j].parent = job[j].parent
    BY <1>4 DEF Leaves, Like
  <2>2. CASE job[j].verdict = "completed"
    <3>1. PICK w \in Workers : Done(w, j) /\ (w \notin live \/ job[j].worker = w)
      BY <2>1, <2>2 DEF VerdictDone
    <3>2. w \notin live \/ Owns(j, w)
      BY <1>1, <2>1, <3>1, Whereabouts DEF Owns
    <3>3. QED
      BY <1>2, <3>1, <3>2
  <2>3. CASE job[j].review = "confirmed"
    BY <2>1, <2>3, SeenStays DEF Reviewed
  <2>4. QED
    BY <2>1, <2>2, <2>3 DEF Proven
<1>5. ASSUME NEW w \in Workers, Moves(w), run[w].task = j, OwnRecord(w, j) PROVE Done(w, j)'
  <2>1. run'[w].task = j
    BY <1>5 DEF Moves, OneRun
  <2>2. QED
    BY <1>5, <2>1 DEF OwnRecord, To, Done
<1>6. CASE CalmRecord(j)
  BY <1>3, <1>4, <1>6 DEF CalmRecord, New, Starts, Waits
<1>7. QED
  BY <1>1, <1>5, <1>6, RecordCases

-----------------------------------------------------------------------------
(* What the chat is told *)

LEMMA ChatTypeStep ==
  ASSUME RunnerInv, ChatType, Told, [RunnerNext]_runnerVars PROVE ChatType'
<1>1. Inv /\ RunnerType
  BY DEF RunnerInv, OriginInv
<1>2. ASSUME NEW w \in Workers, Announce(w) \/ Tell(w) PROVE ChatType'
  <2>1. RunFits(run[w]) /\ run[w].pc \in {"closing", "telling"}
    BY <1>1, <1>2 DEF Announce, Tell, RunnerType
  <2>2. run[w].task \in Ids /\ run[w].outcome \in Outcomes
    BY <2>1 DEF RunFits, RunRecord
  <2>3. run[w].outcome \in Verdicts \union {"quiet", "paused"} /\ (run[w].pc = "telling" => run[w].outcome # "quiet")
    BY <2>1 DEF Told, ClosingFor, Ending
  <2>4. CASE Announce(w)
    BY <2>2, <2>4 DEF Announce, ChatType, chatVars
  <2>5. CASE Tell(w)
    <3>1. PICK text \in {run[w].outcome, "unsent"} :
            final' = [final EXCEPT ![run[w].task] = IF @ = "none" \/ @ = "unsent" THEN text ELSE @]
      BY <2>5 DEF Tell
    <3>2. text \in Verdicts \union {"none", "unsent", "paused"}
      BY <2>3, <2>5 DEF Tell
    <3>3. final' \in [Ids -> Verdicts \union {"none", "unsent", "paused"}]
      BY <2>2, <3>1, <3>2 DEF ChatType
    <3>4. QED
      BY <2>5, <3>3 DEF Tell, ChatType
  <2>6. QED
    BY <1>2, <2>4, <2>5
<1>3. CASE UNCHANGED chatVars
  BY <1>3 DEF ChatType, chatVars
<1>4. CASE Aside
  BY <1>4 DEF Aside, ChatType
<1>5. CASE Dies
  <2>1. \A j \in Ids : final'[j] \in Verdicts \union {"none", "unsent", "paused"}
    BY <1>5 DEF Dies, SummaryLost, ChatType
  <2>2. QED
    BY <1>5, <2>1 DEF Dies, ChatType
<1>6. QED
  BY <1>1, <1>2, <1>3, <1>4, <1>5, StepCases DEF Opens, Moves, Says

LEMMA OneEnding ==
  ASSUME NEW o, NEW p, NEW s, Ending(o, s), Ending(p, s) PROVE o = p
  BY DEF Ending, Verdicts, Repaired

LEMMA ClosingStep ==
  ASSUME RunnerInv, Told, [RunnerNext]_runnerVars, NEW w \in Workers
  PROVE  ClosingFor(w)'
<1>1. Inv /\ RunnerType /\ [Next]_vars /\ RunnerType'
  BY RunnerQueueStep, RunnerTypeStep DEF RunnerInv, OriginInv
<1> DEFINE j == run'[w].task
<1> SUFFICES ASSUME run'[w].pc \in {"closing", "telling"}
             PROVE  /\ run'[w].pc = "telling" => run'[w].outcome # "quiet"
                    /\ run'[w].outcome \in {"quiet", "paused"} \/ Ending(run'[w].outcome, job'[j].status)
  BY DEF ClosingFor, Status
<1>2. j \in Ids
  BY <1>1 DEF RunnerType, RunFits
<1> HIDE DEF j
<1>3. \A o : Ending(o, Status(j)) => Ending(o, job'[j].status)
  BY <1>1, <1>2, EndingsStay DEF Status
<1>4. CASE run[w].task = j /\ run[w].pc \in {"closing", "telling"} /\ run'[w].outcome = run[w].outcome
           /\ (run'[w].pc = "telling" => run[w].pc = "telling" \/ run[w].outcome # "quiet")
  BY <1>3, <1>4 DEF Told, ClosingFor
<1>5. CASE run'[w] = run[w]
  BY <1>4, <1>5 DEF j
<1>6. CASE Moves(w)
  <2>1. run[w].task = j /\ Acts(w)
    BY <1>6 DEF Moves, OneRun, j
  <2>2. CASE Loses(w)
    <3>1. job' = job
      BY <2>2 DEF Loses, vars, queueVars
    <3>2. \/ run'[w].outcome = "quiet"
          \/ run'[w].outcome = Status(j) /\ run'[w].outcome \in Verdicts \union {"paused"}
      BY <2>1, <2>2 DEF Loses
    <3>3. QED
      BY <2>2, <3>1, <3>2 DEF Loses, Ending, Status
  <2>3. CASE To(w, "closing", "quiet") \/ To(w, "closing", "paused")
    BY <2>3 DEF To
  <2>4. CASE /\ run[w].pc = "settled" /\ run[w].outcome \in Verdicts
             /\ Finish(j, w, run[w].outcome) /\ To(w, "closing", run[w].outcome)
    <3> DEFINE o == run[w].outcome
               r == Disowned([job[j] EXCEPT !.status = o])
    <3>1. job' = [job EXCEPT ![j] = r] /\ job \in [Ids -> JobRecord] /\ o \in Terminal
      BY <1>1, <2>4 DEF Finish, Retire, Inv, TypeOK, Terminal
    <3>2. job'[j] = r
      BY <1>2, <3>1
    <3>3. r.status = o
      BY <1>2, <3>1, StatusFields
    <3>4. QED
      BY <2>4, <3>2, <3>3 DEF To, Ending
  <2>5. CASE run'[w] = Ended(w)
    BY <2>5 DEF Ended, NoRun
  <2>6. CASE run[w].pc = "closing" /\ To(w, "telling", run[w].outcome) /\ run[w].outcome # "quiet"
    BY <1>4, <2>1, <2>6 DEF To
  <2>7. CASE run'[w] = run[w]
    BY <1>5, <2>7
  <2>8. QED
    BY <2>1, <2>2, <2>3, <2>4, <2>5, <2>6, <2>7 DEF Acts, Proceeds, Settles, To, Working
<1>7. CASE run'[w] = Ended(w)
  BY <1>7 DEF Ended, NoRun
<1>8. ASSUME NEW v \in Workers, v # w, Moves(v) \/ \E k \in Ids : Opens(v, k)
      PROVE  run'[w] = run[w]
  BY <1>1, <1>8, OtherRuns DEF Moves, Opens
<1>9. ~\E k \in Ids : Opens(w, k)
  BY DEF Opens, Begun
<1>10. QED
  BY <1>1, <1>5, <1>6, <1>7, <1>8, <1>9, StepCases DEF Aside, Dies

(* Whoever was about to send a summary still is, has sent it, or it will   *)
(* not be sent.                                                            *)
LEMMA SummaryStep ==
  ASSUME RunnerInv, ChatType, Told, [RunnerNext]_runnerVars, NEW j \in Ids,
         told[j] \in Verdicts, told'[j] = told[j]
  PROVE  final'[j] \in {told[j], "unsent", "paused"} \/ \E w \in Workers : Tells(w, j)'
<1>1. Inv /\ RunnerType
  BY DEF RunnerInv, OriginInv
<1>2. final[j] \in {"none", "unsent", "paused", told[j]}
  <2>1. final[j] \in Verdicts => final[j] = told[j]
    BY OneEnding DEF Told, ToldFor, Said
  <2>2. QED
    BY <2>1 DEF ChatType
<1>3. final[j] = "none" => \E w \in Workers : Tells(w, j)
  BY DEF Told, ToldFor, Verdicts
<1>4. CASE final'[j] = final[j] /\ \A w \in Workers : Tells(w, j) => Tells(w, j)'
  BY <1>2, <1>3, <1>4
<1>5. ASSUME NEW w \in Workers, Moves(w)
      PROVE  final'[j] \in {told[j], "unsent", "paused"} \/ \E v \in Workers : Tells(v, j)'
  <2>1. \A v \in Workers : v # w /\ Tells(v, j) => Tells(v, j)'
    BY <1>1, <1>5, OtherRuns DEF Moves, Tells
  <2>2. CASE Tell(w) /\ run[w].task = j
    <3>1. PICK text \in {run[w].outcome, "unsent"} :
            final' = [final EXCEPT ![j] = IF @ = "none" \/ @ = "unsent" THEN text ELSE @]
      BY <2>2 DEF Tell
    <3>2. final'[j] = IF final[j] = "none" \/ final[j] = "unsent" THEN text ELSE final[j]
      BY <3>1 DEF ChatType
    <3>3. run[w].pc = "telling"
      BY <2>2 DEF Tell
    <3>4. run[w].outcome = "paused" \/ Ending(run[w].outcome, Status(j))
      BY <2>2, <3>3 DEF Told, ClosingFor
    <3>5. run[w].outcome \in {"paused", told[j]}
      BY <3>4, OneEnding DEF Told, ToldFor, Said
    <3>6. QED
      BY <1>2, <3>2, <3>5
  <2>3. CASE Tell(w) /\ run[w].task # j
    <3>1. final'[j] = final[j]
      BY <2>3 DEF Tell, ChatType
    <3>2. ~Tells(w, j)
      BY <2>3 DEF Tells
    <3>3. QED
      BY <1>4, <2>1, <3>1, <3>2
  <2>4. CASE run[w].pc # "telling" /\ final' = final
    BY <1>4, <2>1, <2>4 DEF Tells
  <2>5. Announce(w) => run[w].pc # "telling" /\ final' = final
    BY DEF Announce, chatVars
  <2>6. QED
    BY <1>5, <2>2, <2>3, <2>4, <2>5 DEF Moves, Says, chatVars
<1>6. ASSUME NEW w \in Workers, NEW k \in Ids, Opens(w, k)
      PROVE  final'[j] = final[j] /\ \A v \in Workers : Tells(v, j) => Tells(v, j)'
  <2>1. ~Tells(w, j)
    BY <1>6 DEF Opens, Begun, Tells
  <2>2. \A v \in Workers : v # w /\ Tells(v, j) => Tells(v, j)'
    BY <1>1, <1>6, OtherRuns DEF Opens, Tells
  <2>3. QED
    BY <1>6, <2>1, <2>2 DEF Opens, chatVars
<1>7. CASE Aside
  BY <1>4, <1>7 DEF Aside, Tells
<1>8. CASE Dies
  <2>1. CASE final[j] = "none" /\ final'[j] = "unsent"
    BY <2>1
  <2>2. CASE final'[j] = final[j] /\ (final[j] = "none" => \A w \in Workers : Tells(w, j) => run'[w] = run[w])
    BY <1>2, <1>3, <2>2 DEF Tells
  <2>3. QED
    BY <1>8, <2>1, <2>2 DEF Dies, SummaryLost
<1>9. QED
  BY <1>1, <1>4, <1>5, <1>6, <1>7, <1>8, StepCases

LEMMA SaidStep ==
  ASSUME RunnerInv, ChatType, Told, [RunnerNext]_runnerVars, NEW j \in Ids
  PROVE  Said(told[j], j)' /\ Said(final[j], j)'
<1>1. Inv /\ RunnerType /\ [Next]_vars
  BY RunnerQueueStep DEF RunnerInv, OriginInv
<1>2. \A o : Ending(o, Status(j)) => Ending(o, job'[j].status)
  BY <1>1, EndingsStay DEF Status
<1> SUFFICES /\ told'[j] \in Verdicts => Ending(told'[j], Status(j))
             /\ final'[j] \in Verdicts => Ending(final'[j], Status(j))
  BY <1>2 DEF Said, Status
<1>3. /\ told[j] \in Verdicts => Ending(told[j], Status(j))
      /\ final[j] \in Verdicts => Ending(final[j], Status(j))
  BY DEF Told, ToldFor, Said
<1>4. ASSUME NEW w \in Workers, Announce(w) \/ Tell(w)
      PROVE  /\ told'[j] \in {told[j]} \union (IF run[w].task = j THEN {run[w].outcome} ELSE {})
             /\ final'[j] \in {final[j], "unsent"} \union (IF run[w].task = j THEN {run[w].outcome} ELSE {})
             /\ run[w].pc \in {"closing", "telling"}
  <2>1. CASE Announce(w)
    BY <2>1 DEF Announce, ChatType, chatVars
  <2>2. CASE Tell(w)
    BY <2>2 DEF Tell, ChatType
  <2>3. QED
    BY <1>4, <2>1, <2>2
<1>5. ASSUME NEW w \in Workers, run[w].pc \in {"closing", "telling"}, run[w].task = j, run[w].outcome \in Verdicts
      PROVE  Ending(run[w].outcome, Status(j))
  BY <1>5 DEF Told, ClosingFor, Verdicts
<1>6. ASSUME NEW w \in Workers, Moves(w)
      PROVE  /\ told'[j] \in Verdicts => Ending(told'[j], Status(j))
             /\ final'[j] \in Verdicts => Ending(final'[j], Status(j))
  BY <1>3, <1>4, <1>5, <1>6 DEF Moves, Says, chatVars, Verdicts
<1>7. CASE Aside
  <2>1. final'[j] = final[j] /\ (told'[j] = told[j] \/ told'[j] = "cancelled before running")
    BY <1>7 DEF Aside, ChatType
  <2>2. QED
    BY <1>3, <2>1 DEF Verdicts
<1>8. CASE Dies
  BY <1>3, <1>8 DEF Dies, SummaryLost, Verdicts
<1>9. CASE UNCHANGED chatVars
  BY <1>3, <1>9 DEF chatVars
<1>10. QED
  BY <1>1, <1>6, <1>7, <1>8, <1>9, StepCases DEF Opens

LEMMA ToldStep ==
  ASSUME RunnerInv, ChatType, Told, [RunnerNext]_runnerVars PROVE Told'
<1>1. Inv /\ RunnerType
  BY DEF RunnerInv, OriginInv
<1>2. ASSUME NEW j \in Ids, told'[j] \in Verdicts
      PROVE  final'[j] \in {told'[j], "unsent", "paused"} \/ \E w \in Workers : Tells(w, j)'
  <2>1. CASE told'[j] = told[j]
    BY <1>2, <2>1, SummaryStep
  <2>2. ASSUME NEW w \in Workers, Announce(w), told' # told, told'[j] # told[j] PROVE Tells(w, j)'
    <3>1. run[w].task = j /\ Goto(w, "telling") /\ run[w].pc = "closing"
      BY <2>2 DEF Announce, ChatType, chatVars
    <3>2. run'[w].pc = "telling" /\ run'[w].task = j
      BY <1>1, <3>1, MovedFits DEF OneRun
    <3>3. QED
      BY <3>2 DEF Tells
  <2>3. CASE Aside
    <3>1. told'[j] = told[j] \/ told'[j] = "cancelled before running"
      BY <2>3 DEF Aside, ChatType
    <3>2. QED
      BY <1>2, <2>1, <3>1 DEF Verdicts
  <2>4. \A w \in Workers : Tell(w) => told' = told
    BY DEF Tell
  <2>5. QED
    BY <1>1, <2>1, <2>2, <2>3, <2>4, StepCases DEF Opens, Moves, Dies, Says, chatVars
<1>3. QED
  BY <1>2, SaidStep, ClosingStep DEF Told, ToldFor

-----------------------------------------------------------------------------
(* Attempts and publications are counted *)

LEMMA TasksKept ==
  ASSUME Inv, RunnerType, Aside \/ Dies \/ \E w \in Workers : Moves(w), NEW j \in Ids
  PROVE  Runs(j)' = Runs(j)
<1>1. ASSUME NEW w \in Workers PROVE run'[w].task = run[w].task
  <2>1. ASSUME NEW v \in Workers, Moves(v) PROVE run'[w].task = run[w].task
    BY <2>1, OtherRuns DEF Moves, OneRun
  <2>2. QED
    BY <2>1, EndedFits DEF Aside, Dies
<1>2. QED
  BY <1>1 DEF Runs

LEMMA TaskAdded ==
  ASSUME Inv, RunnerType, NEW w \in Workers, NEW k \in Ids, Begun(w, k), NEW j \in Ids
  PROVE  /\ Runs(j)' = IF j = k THEN Runs(j) \union {w} ELSE Runs(j)
         /\ w \notin Runs(j)
<1>1. run[w].task = 0 /\ run'[w].task = k /\ j # 0
  BY NoRunFits, Whereabouts DEF Begun, RunnerType, RunFits
<1>2. \A v \in Workers : v # w => run'[v] = run[v]
  BY OtherRuns
<1>3. QED
  BY <1>1, <1>2 DEF Runs

LEMMA KnownStep ==
  ASSUME RunnerInv, Known, [RunnerNext]_runnerVars PROVE Known'
<1>1. Inv /\ RunnerType /\ [Next]_vars /\ Inv'
  BY RunnerQueueStep, StepInv DEF RunnerInv, OriginInv
<1> SUFFICES ASSUME NEW j \in Ids, job'[j].status = "absent" PROVE Runs(j)' = {} /\ Launching(j)' = 0
  BY DEF Known, Status
<1>2. Status(j) = "absent"
  BY <1>1, EndingsStay DEF Status
<1>3. Runs(j) = {} /\ Launching(j) = 0
  BY <1>2 DEF Known
<1>4. CASE main' = "launch" => UNCHANGED <<main, target>>
  <2>1. Launching(j)' = 0
    BY <1>3, <1>4 DEF Launching
  <2>2. CASE Aside \/ Dies \/ \E w \in Workers : Moves(w)
    BY <1>1, <1>3, <2>1, <2>2, TasksKept
  <2>3. ASSUME NEW w \in Workers, NEW k \in Ids, Opens(w, k) PROVE j # k
    <3>1. CASE StartNext(w) /\ k = running'
      BY <1>1, <3>1 DEF Inv, Placement, Status
    <3>2. CASE Launch(w) /\ k = target
      BY <1>3, <3>2 DEF Launch, Main, Launching
    <3>3. QED
      BY <2>3, <3>1, <3>2 DEF Opens
  <2>4. QED
    BY <1>1, <1>3, <2>1, <2>2, <2>3, TaskAdded, StepCases DEF Opens
<1>5. CASE HandleDirect /\ Aside
  <2>1. target' = nextId /\ job' = [job EXCEPT ![nextId] = job'[nextId]] /\ running' = nextId
    BY <1>5 DEF HandleDirect, BeginDirect, Create
  <2>2. j # target'
    BY <1>1, <2>1 DEF Inv, Placement, Status
  <2>3. QED
    BY <1>1, <1>3, <1>5, <2>2, TasksKept DEF Launching
<1>6. QED
  BY <1>1, <1>4, <1>5, StepCases DEF Aside, Opens, Moves, Dies, Launch, StartNext, Main, daemonVars

LEMMA AttemptsGrow ==
  ASSUME Inv, RunnerType, [RunnerNext]_runnerVars, NEW j \in Ids, Status(j) # "absent"
  PROVE  job'[j].attempt \in {job[j].attempt, job[j].attempt + 1}
  BY RecordCases DEF CalmRecord, New, Starts, Leaves, Waits, Like, OwnRecord

LEMMA RunsStep ==
  ASSUME RunnerInv, Known, Counted, [RunnerNext]_runnerVars, NEW j \in Ids
  PROVE  IsFiniteSet(Runs(j)') /\ Cardinality(Runs(j)') + Launching(j)' <= job'[j].attempt
<1>1. /\ Inv /\ RunnerType /\ [Next]_vars /\ Inv'
  BY RunnerQueueStep, StepInv DEF RunnerInv, OriginInv
<1>2. /\ IsFiniteSet(Runs(j)) /\ Cardinality(Runs(j)) \in Nat
      /\ Launching(j) \in {0, 1} /\ Cardinality(Runs(j)) + Launching(j) <= job[j].attempt
      /\ job[j].attempt \in Nat /\ job'[j].attempt \in Nat
  BY <1>1, FS_CardinalityType DEF Counted, CountedFor, Launching, Inv, TypeOK, JobRecord
<1>3. job[j].attempt <= job'[j].attempt \/ Status(j) = "absent"
  BY <1>1, <1>2, AttemptsGrow
<1>4. Status(j) = "absent" => Runs(j) = {} /\ Cardinality(Runs(j)) = 0 /\ Launching(j) = 0
  BY FS_EmptySet DEF Known
<1>5. Cardinality(Runs(j)) + Launching(j) <= job'[j].attempt
  BY <1>2, <1>3, <1>4
<1>6. CASE (Aside /\ ~HandleDirect) \/ Dies \/ \E w \in Workers : Moves(w)
  <2>1. Runs(j)' = Runs(j)
    BY <1>1, <1>6, TasksKept
  <2>2. main' = "launch" => UNCHANGED <<main, target>>
    BY <1>6 DEF Aside, Dies, Moves
  <2>3. Launching(j)' = Launching(j) \/ Launching(j)' = 0
    BY <2>2 DEF Launching
  <2>4. QED
    BY <1>2, <1>5, <2>1, <2>3
<1>7. CASE Aside /\ HandleDirect
  <2>1. Runs(j)' = Runs(j)
    BY <1>1, <1>7, TasksKept
  <2>2. target' = nextId /\ nextId \in Ids /\ job'[nextId].attempt = 1
    <3>1. PICK key \in Keys \union {NoKey} : BeginDirect(key)
      BY <1>7 DEF HandleDirect
    <3> DEFINE r == [Absent EXCEPT !.status = "running", !.key = key, !.attempt = 1]
    <3>2. nextId \in Ids /\ job' = [job EXCEPT ![nextId] = r]
      BY <3>1 DEF BeginDirect, Create
    <3>3. r.attempt = 1
      BY DEF Absent
    <3> HIDE DEF r
    <3>4. QED
      BY <1>1, <1>7, <3>2, <3>3 DEF HandleDirect, Inv, TypeOK
  <2>3. CASE j = nextId
    <3>1. Status(j) = "absent"
      BY <1>1, <2>2, <2>3 DEF Inv, Placement, Ids
    <3>2. Launching(j)' \in {0, 1}
      BY DEF Launching
    <3>3. QED
      BY <1>2, <1>4, <2>1, <2>2, <2>3, <3>1, <3>2
  <2>4. CASE j # nextId
    <3>1. Launching(j)' = 0
      BY <2>2, <2>4 DEF Launching
    <3>2. QED
      BY <1>2, <1>5, <2>1, <3>1
  <2>5. QED
    BY <2>3, <2>4
<1>8. ASSUME NEW w \in Workers, NEW k \in Ids, Opens(w, k)
      PROVE  IsFiniteSet(Runs(j)') /\ Cardinality(Runs(j)') + Launching(j)' <= job'[j].attempt
  <2>1. Runs(j)' = (IF j = k THEN Runs(j) \union {w} ELSE Runs(j)) /\ w \notin Runs(j)
    BY <1>1, <1>8, TaskAdded DEF Opens
  <2>2. CASE j # k
    <3>1. main' = "launch" => UNCHANGED <<main, target>>
      BY <1>8 DEF Opens, Launch, StartNext, Main, daemonVars
    <3>2. Launching(j)' = Launching(j) \/ Launching(j)' = 0
      BY <3>1 DEF Launching
    <3>3. QED
      BY <1>2, <1>5, <2>1, <2>2, <3>2
  <2>3. CASE j = k
    <3>1. IsFiniteSet(Runs(j)') /\ Cardinality(Runs(j)') = Cardinality(Runs(j)) + 1
      <4>1. Runs(j)' = Runs(j) \union {w}
        BY <2>1, <2>3
      <4>2. /\ IsFiniteSet(Runs(j) \union {w})
            /\ Cardinality(Runs(j) \union {w}) = Cardinality(Runs(j)) + 1
        BY <1>2, <2>1, FS_AddElement
      <4>3. QED
        BY <4>1, <4>2
    <3>2. CASE Launch(w) /\ k = target
      <4>1. Launching(j) = 1 /\ Launching(j)' = 0
        BY <2>3, <3>2 DEF Launch, Main, Launching
      <4>2. QED
        BY <1>2, <1>5, <3>1, <4>1
    <3>3. CASE StartNext(w) /\ k = running'
      <4>1. /\ job'[j].status = "running" /\ Status(j) # "running" /\ CalmRecord(j)
            /\ Launching(j)' = Launching(j)
        <5>1. running = 0 /\ running' = j /\ UNCHANGED <<main, target>>
          BY <2>3, <3>3 DEF StartNext, BeginNext, daemonVars
        <5>2. job'[j].status = "running" /\ Status(j) # "running"
          BY <1>1, <5>1, Whereabouts DEF Inv, Placement, Status
        <5>3. QED
          BY <1>1, <1>8, <5>1, <5>2, CalmRecords DEF Opens, Launching
      <4>2. Starts(j, job'[j]) \/ New(j, job'[j])
        BY <4>1 DEF CalmRecord, Leaves, Waits, Status
      <4>3. CASE Starts(j, job'[j])
        BY <1>2, <3>1, <4>1, <4>3 DEF Starts
      <4>4. CASE New(j, job'[j])
        BY <1>2, <1>4, <3>1, <4>1, <4>4 DEF New
      <4>5. QED
        BY <4>2, <4>3, <4>4
    <3>4. QED
      BY <1>8, <3>2, <3>3 DEF Opens
  <2>4. QED
    BY <2>2, <2>3
<1>9. QED
  BY <1>1, <1>6, <1>7, <1>8, StepCases

LEMMA PastGrows ==
  ASSUME Inv, RunnerType, [RunnerNext]_runnerVars, NEW j \in Ids
  PROVE  Past(j) \subseteq Past(j)'
<1> SUFFICES ASSUME NEW w \in Workers, run[w].task = j, run[w].pc \notin Early
             PROVE  run'[w].task = j /\ run'[w].pc \notin Early
  BY DEF Past, Runs, Early
<1>1. run[w].pc # "unused"
  BY NoRunFits, Whereabouts DEF RunnerType, RunFits
<1>2. CASE run'[w] = run[w] \/ run'[w] = Ended(w)
  BY <1>1, <1>2, EndedFits DEF Early
<1>3. CASE Moves(w)
  <2>1. run'[w].task = j /\ Acts(w)
    BY <1>3 DEF Moves, OneRun
  <2>2. QED
    BY <1>2, <2>1 DEF Acts, Proceeds, Settles, Loses, To, Early
<1>4. ASSUME NEW v \in Workers, v # w, Moves(v) \/ \E k \in Ids : Opens(v, k) PROVE run'[w] = run[w]
  BY <1>4, OtherRuns DEF Moves, Opens
<1>5. ~\E k \in Ids : Opens(w, k)
  BY <1>1 DEF Opens, Begun
<1>6. QED
  BY <1>2, <1>3, <1>4, <1>5, StepCases DEF Aside, Dies

LEMMA PublishedStep ==
  ASSUME RunnerInv, Known, Counted, [RunnerNext]_runnerVars, NEW j \in Ids
  PROVE  published'[j] <= Cardinality(Past(j)')
<1>1. /\ Inv /\ RunnerType
  BY DEF RunnerInv, OriginInv
<1>2. IsFiniteSet(Past(j)')
  <2>1. IsFiniteSet(Runs(j)') /\ Past(j)' \in SUBSET Runs(j)'
    BY RunsStep DEF Past
  <2>2. QED
    BY <2>1, FS_Subset
<1>3. /\ Past(j) \in SUBSET Past(j)' /\ IsFiniteSet(Past(j)) /\ published[j] <= Cardinality(Past(j))
      /\ published[j] \in Nat /\ published \in [Ids -> Nat]
      /\ Cardinality(Past(j)) \in Nat /\ Cardinality(Past(j)') \in Nat
      /\ Cardinality(Past(j)) <= Cardinality(Past(j)')
  <2>1. Past(j) \in SUBSET Past(j)'
    BY <1>1, PastGrows
  <2>2. IsFiniteSet(Past(j)) /\ Cardinality(Past(j)) <= Cardinality(Past(j)')
    BY <1>2, <2>1, FS_Subset
  <2>3. QED
    BY <1>1, <1>2, <2>1, <2>2, FS_CardinalityType DEF RunnerType, Counted, CountedFor
<1>4. CASE published'[j] = published[j]
  BY <1>3, <1>4
<1>5. ASSUME NEW w \in Workers, Moves(w), run[w].task = j, run[w].pc = "captured",
             run'[w].pc = "reviewed", published'[j] = published[j] + 1
      PROVE  published'[j] <= Cardinality(Past(j)')
  <2>1. w \notin Past(j) /\ w \in Past(j)'
    BY <1>5 DEF Past, Runs, Moves, OneRun
  <2>2. Past(j) \union {w} \in SUBSET Past(j)'
    BY <1>3, <2>1
  <2>3. Cardinality(Past(j) \union {w}) <= Cardinality(Past(j)')
    BY <1>2, <2>2, FS_Subset
  <2>4. Cardinality(Past(j) \union {w}) = Cardinality(Past(j)) + 1
    BY <1>3, <2>1, FS_AddElement
  <2>5. QED
    BY <1>3, <1>5, <2>3, <2>4
<1>6. ASSUME NEW w \in Workers, Moves(w) PROVE published'[j] <= Cardinality(Past(j)')
  <2>1. CASE published' = published
    BY <1>4, <2>1
  <2>2. CASE /\ run[w].pc = "captured" /\ run'[w].pc = "reviewed"
             /\ published' = [published EXCEPT ![run[w].task] = @ + 1]
    <3>1. published'[j] = IF run[w].task = j THEN published[j] + 1 ELSE published[j]
      BY <1>3, <2>2
    <3>2. QED
      BY <1>4, <1>5, <1>6, <2>2, <3>1
  <2>3. QED
    BY <1>6, <2>1, <2>2 DEF Moves, Publishes
<1>7. QED
  BY <1>1, <1>4, <1>6, StepCases DEF Aside, Opens, Dies

-----------------------------------------------------------------------------
(* What holds in every state of the daemon *)

(* The inductive invariant: the queue's own, what each run knows of its    *)
(* task, where every completion, message and publication comes from.       *)
RunsInv == /\ RunnerInv
           /\ Owned /\ OneRunPerTask
           /\ VerdictDone /\ Reviewed /\ CompletedDone
           /\ ChatType /\ Told
           /\ Known /\ Counted

LEMMA AbsentFields ==
  /\ Absent.status = "absent" /\ Absent.attempt = 0
  /\ Absent.review = "none" /\ Absent.verdict = "none"
  BY DEF Absent

LEMMA NothingRuns ==
  ASSUME RunnerInit
  PROVE  /\ \A w \in Workers : run[w].pc = "unused" /\ run[w].task = 0 /\ run[w].outcome = "quiet"
         /\ \A j \in Ids : job[j] = Absent /\ Runs(j) = {} /\ Launching(j) = 0
<1>1. \A w \in Workers : run[w] = NoRun
  BY DEF RunnerInit
<1>2. \A w \in Workers : run[w].pc = "unused" /\ run[w].task = 0 /\ run[w].outcome = "quiet"
  <2>1. NoRun.outcome = "quiet"
    BY DEF NoRun
  <2>2. QED
    BY <1>1, <2>1, NoRunFits
<1>3. \A j \in Ids : job[j] = Absent /\ Launching(j) = 0
  BY DEF RunnerInit, Init, Launching
<1>4. \A j \in Ids : j # 0
  BY ConstantsAssumption DEF Ids
<1>5. QED
  BY <1>2, <1>3, <1>4 DEF Runs

LEMMA CountedInit == RunnerInit => Known /\ Counted
<1> SUFFICES ASSUME RunnerInit PROVE Known /\ Counted
  OBVIOUS
<1>1. Known
  BY NothingRuns DEF Known
<1>2. ASSUME NEW j \in Ids PROVE CountedFor(j)
  <2>1. Runs(j) = {} /\ Past(j) = {} /\ Launching(j) = 0 /\ published[j] = 0
    BY NothingRuns DEF Past, RunnerInit
  <2>2. job[j].attempt = 0
    BY NothingRuns, AbsentFields
  <2>3. IsFiniteSet({}) /\ Cardinality({}) = 0
    BY FS_EmptySet
  <2>4. QED
    BY <2>1, <2>2, <2>3 DEF CountedFor
<1>3. QED
  BY <1>1, <1>2 DEF Counted

LEMMA RunsInit == RunnerInit => RunsInv
<1> SUFFICES ASSUME RunnerInit PROVE RunsInv
  OBVIOUS
<1>1. \A j \in Ids : job[j].status = "absent" /\ job[j].review = "none"
  BY NothingRuns, AbsentFields
<1>2. Owned /\ OneRunPerTask
  <2>1. \A w \in live : w \in Workers /\ run[w].pc \notin Busy /\ run[w].pc \notin Working
    BY NothingRuns DEF Busy, Working, RunnerInit, Init
  <2>2. QED
    BY <2>1 DEF Owned, OwnedFor, OneRunPerTask
<1>3. VerdictDone /\ Reviewed /\ CompletedDone
  BY <1>1, NothingRuns DEF VerdictDone, Reviewed, CompletedDone, Status
<1>4. ChatType
  BY DEF RunnerInit, ChatType
<1>5. Told
  BY NothingRuns DEF RunnerInit, Told, ToldFor, ClosingFor, Said, Verdicts
<1>6. QED
  BY <1>2, <1>3, <1>4, <1>5, CountedInit, RunnerInvInit DEF RunsInv

LEMMA RunsInvStep == ASSUME RunsInv, [RunnerNext]_runnerVars PROVE RunsInv'
<1>1. /\ RunnerInv /\ Inv /\ RunnerType
      /\ Owned /\ OneRunPerTask /\ VerdictDone /\ Reviewed /\ CompletedDone
      /\ ChatType /\ Told /\ Known /\ Counted
  BY DEF RunsInv, RunnerInv, OriginInv
<1>2. RunnerInv' /\ Owned' /\ OneRunPerTask'
  BY <1>1, RunnerInvStep, OwnedStep, OneRunStep
<1>3. VerdictDone' /\ Reviewed' /\ CompletedDone'
  BY <1>1, VerdictStep, ReviewedStep, CompletedStep
<1>4. ChatType' /\ Told' /\ Known'
  BY <1>1, ChatTypeStep, ToldStep, KnownStep
<1>5. ASSUME NEW j \in Ids PROVE CountedFor(j)'
  BY <1>1, RunsStep, PublishedStep DEF CountedFor
<1>6. QED
  BY <1>2, <1>3, <1>4, <1>5 DEF RunsInv, Counted

THEOREM RunsInvCorrect == RunnerSpec => []RunsInv
  BY RunsInit, RunsInvStep, PTL DEF RunnerSpec

(* Two threads never work on one task that was not paused meanwhile: the   *)
(* claim of queue.py refuses a second worker, and reconciliation takes a   *)
(* task only from an owner that is gone.                                   *)
THEOREM OneRunCorrect == RunnerSpec => []OneRunPerTask
<1>1. RunsInv => OneRunPerTask
  BY DEF RunsInv
<1>2. QED
  BY <1>1, RunsInvCorrect, PTL

(* Whoever writes "completed" - the run, the reconciliation of evidence,   *)
(* /task recover - the run completed the task or its review was published. *)
THEOREM CompletedCorrect == RunnerSpec => []CompletedWasDone
<1>1. RunsInv => CompletedWasDone
  BY DEF RunsInv, CompletedDone, Done, ReviewSeen, CompletedWasDone
<1>2. QED
  BY <1>1, RunsInvCorrect, PTL

(* For any number of retries, crashes and daemons: what the chat was told  *)
(* of the end of a task is what the queue says, and its two messages,      *)
(* which _run_action_job sends one after the other, never differ.  One     *)
(* that names an end is followed by the summary, unless its run could not  *)
(* send it or is gone, or a pause was told.                                *)
THEOREM SummaryCorrect == RunnerSpec => []SummaryTold
<1>1. RunsInv => SummaryTold
  BY DEF RunsInv, Told, ToldFor, Said, Ending, SummaryTold
<1>2. QED
  BY <1>1, RunsInvCorrect, PTL

(* Each publication is that of a run and each run that of an attempt: a    *)
(* task publishes no more reviews than attempt_count of queue.py counts.   *)
THEOREM ReviewsCorrect == RunnerSpec => []ReviewsBounded
<1>1. RunsInv => ReviewsBounded
  <2>1. SUFFICES ASSUME RunsInv, NEW j \in Ids PROVE published[j] <= job[j].attempt
    BY DEF ReviewsBounded
  <2>2. /\ IsFiniteSet(Runs(j)) /\ Cardinality(Runs(j)) + Launching(j) <= job[j].attempt
        /\ published[j] <= Cardinality(Past(j))
    BY <2>1 DEF RunsInv, Counted, CountedFor
  <2>3. published[j] \in Nat /\ job[j].attempt \in Nat /\ Launching(j) \in {0, 1}
    BY <2>1 DEF RunsInv, RunnerInv, OriginInv, Inv, TypeOK, JobRecord, RunnerType, Launching
  <2>4. Past(j) \in SUBSET Runs(j)
    BY DEF Past
  <2>5. IsFiniteSet(Past(j)) /\ Cardinality(Past(j)) <= Cardinality(Runs(j))
    BY <2>2, <2>4, FS_Subset
  <2>6. Cardinality(Past(j)) \in Nat /\ Cardinality(Runs(j)) \in Nat
    BY <2>2, <2>5, FS_CardinalityType
  <2>7. QED
    BY <2>2, <2>3, <2>5, <2>6
<1>2. QED
  BY <1>1, RunsInvCorrect, PTL
=============================================================================
