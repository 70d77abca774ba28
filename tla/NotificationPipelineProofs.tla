--------------------- MODULE NotificationPipelineProofs ---------------------
(***************************************************************************)
(* Proofs about NotificationPipeline for any logs, listeners, outcomes and *)
(* runs of the job, any size of a batch and any number of notifications    *)
(* and faults.  Rows of the notifications table only gain: they are never  *)
(* removed, their attempts grow, and what was tried stays tried.           *)
(***************************************************************************)
EXTENDS NotificationPipeline, TLAPS, SequenceTheorems, FiniteSetTheorems

(* A log is marked, or a notification written, only after it was raised.   *)
OfRaisedLogs ==
  /\ \A n \in DOMAIN notes : logs[notes[n].log] # "absent"
  /\ \A j \in Jobs :
       /\ \A l \in job[j].todo : logs[l] # "absent"
       /\ job[j].pc \in {"listeners", "explain"} => logs[job[j].log] # "absent"

(* The listeners a run has passed have their notification.                 *)
PassedAreNoted ==
  \A j \in Jobs : job[j].pc \in {"listeners", "explain"} =>
    /\ job[j].left \subseteq Due[job[j].log]
    /\ \A k \in Due[job[j].log] \ job[j].left : Copies(job[j].log, k) # {}

(* What a run is about to write down of an attempt has happened.           *)
ResultIsTrue ==
  \A j \in Jobs : job[j].result = "sent" =>
    /\ job[j].pc \in {"log", "status"} => notes[job[j].note].delivered > 0
    /\ At(j, "status") => "sent" \in notes[job[j].note].attempts

PipelineInv ==
  /\ TypeOK
  /\ OfRaisedLogs
  /\ PassedAreNoted
  /\ ResultIsTrue
  /\ ProcessedMeansNoted
  /\ SentIsAudited

-----------------------------------------------------------------------------
(* What the steps of a run are made of.                                    *)

(* The local variables of a run, with the notifications they speak of.     *)
Sound(x, ns) ==
  /\ x \in JobSet
  /\ x.batch \cup ({x.note} \ {0}) \subseteq DOMAIN ns
  /\ x.pc \in {"listeners", "explain"} => x.log \in Logs
  /\ x.pc \in {"explain", "log", "status"} => x.note # 0

LEMMA DueType == \A l \in Logs : Due[l] \subseteq Listeners
BY DEF Due

LEMMA IdleType == Idle \in JobSet /\ \A ns : Sound(Idle, ns)
<1>1. Idle \in JobSet
  BY PipelineAssumption DEF Idle, JobSet, Statuses
<1>2. /\ Idle.batch = {} /\ Idle.note = 0 /\ Idle.pc = "idle" /\ Idle.todo = {}
  BY DEF Idle
<1> HIDE DEF Idle
<1> QED
  BY <1>1, <1>2 DEF Sound

LEMMA GoOnType ==
  ASSUME TypeOK, NEW ns, ns \subseteq DOMAIN notes
  PROVE  /\ Sound(GoOn(ns), notes)
         /\ GoOn(ns).pc \in {"idle", "send"} /\ GoOn(ns).todo = {}
<1>1. Idle \in JobSet /\ Sound(Idle, notes)
  BY IdleType
<1>2. Idle.batch = {} /\ Idle.note = 0 /\ Idle.pc = "idle" /\ Idle.todo = {}
  BY DEF Idle
<1>3. ns \subseteq 1 .. MaxNotes
  BY PipelineAssumption DEF TypeOK
<1> HIDE DEF Idle
<1>4. CASE ns = {}
  BY <1>1, <1>2, <1>4 DEF GoOn
<1>5. CASE ns # {}
  <2>1. GoOn(ns) = [Idle EXCEPT !.pc = "send", !.batch = ns]
    BY <1>5 DEF GoOn
  <2>2. /\ GoOn(ns) \in JobSet
        /\ GoOn(ns).pc = "send" /\ GoOn(ns).batch = ns
        /\ GoOn(ns).note = Idle.note /\ GoOn(ns).todo = Idle.todo
    BY <1>1, <1>3, <2>1 DEF JobSet
  <2> QED
    BY <1>2, <2>2 DEF Sound
<1> QED
  BY <1>4, <1>5

LEMMA NextLogType ==
  ASSUME NEW ls, ls \subseteq Logs, NEW x \in NextLog(ls)
  PROVE  /\ \A ns : Sound(x, ns)
         /\ x.pc \in {"fetch", "listeners"} /\ x.todo \subseteq ls
         /\ x.pc = "listeners" => x.log \in ls /\ x.left = Due[x.log]
<1>1. Idle \in JobSet
  BY IdleType
<1>2. Idle.batch = {} /\ Idle.note = 0 /\ Idle.todo = {}
  BY DEF Idle
<1> HIDE DEF Idle
<1>3. CASE ls = {}
  <2>1. x = [Idle EXCEPT !.pc = "fetch"]
    BY <1>3 DEF NextLog
  <2>2. /\ x \in JobSet /\ x.pc = "fetch"
        /\ x.batch = Idle.batch /\ x.note = Idle.note /\ x.todo = Idle.todo
    BY <1>1, <2>1 DEF JobSet
  <2> QED
    BY <1>2, <2>2 DEF Sound
<1>4. CASE ls # {}
  <2>1. PICK l \in ls : x = [Idle EXCEPT !.pc = "listeners", !.todo = ls \ {l}, !.log = l,
                                         !.left = Due[l]]
    BY <1>4 DEF NextLog
  <2>2. l \in Logs /\ Due[l] \subseteq Listeners
    BY DueType
  <2>3. /\ x \in JobSet /\ x.pc = "listeners"
        /\ x.batch = Idle.batch /\ x.note = Idle.note
        /\ x.todo = ls \ {l} /\ x.log = l /\ x.left = Due[l]
    BY <1>1, <2>1, <2>2 DEF JobSet
  <2> QED
    BY <1>2, <2>2, <2>3 DEF Sound
<1> QED
  BY <1>3, <1>4

(* A step that gives a run new local variables and loses no notification.  *)
LEMMA RunMoves ==
  ASSUME TypeOK, NEW j \in Jobs, NEW x, Sound(x, notes'),
         job' = [job EXCEPT ![j] = x],
         notes' \in Seq(NoteSet), Len(notes') <= MaxNotes, Len(notes) <= Len(notes'),
         logs' \in [Logs -> {"absent", "active", "processed"}],
         faults' \in 0 .. MaxFaults
  PROVE  /\ TypeOK'
         /\ \A i \in Jobs : job'[i] = IF i = j THEN x ELSE job[i]
<1>1. \A i \in Jobs : job'[i] = IF i = j THEN x ELSE job[i]
  BY DEF TypeOK
<1>2. job' \in [Jobs -> JobSet]
  BY DEF TypeOK, Sound
<1>3. DOMAIN notes \subseteq DOMAIN notes'
  BY DEF TypeOK
<1>4. \A i \in Jobs : Sound(job'[i], notes')
  BY <1>1, <1>3 DEF TypeOK, Sound
<1> QED
  BY <1>1, <1>2, <1>4 DEF TypeOK, Sound

(* Writing to a notification, and adding one.                              *)
LEMMA NoteWritten ==
  ASSUME TypeOK, NEW n \in DOMAIN notes, NEW x \in NoteSet, notes' = [notes EXCEPT ![n] = x]
  PROVE  /\ notes' \in Seq(NoteSet) /\ Len(notes') = Len(notes)
         /\ DOMAIN notes' = DOMAIN notes
         /\ \A m \in DOMAIN notes : notes'[m] = IF m = n THEN x ELSE notes[m]
<1>1. notes \in Seq(NoteSet) /\ DOMAIN notes = 1 .. Len(notes)
  BY DEF TypeOK
<1>2. n \in 1 .. Len(notes)
  BY <1>1
<1> QED
  BY <1>1, <1>2, ExceptSeq

LEMMA NoteAdded ==
  ASSUME TypeOK, NEW x \in NoteSet, notes' = Append(notes, x)
  PROVE  /\ notes' \in Seq(NoteSet) /\ Len(notes') = Len(notes) + 1
         /\ Len(notes) \in Nat
         /\ DOMAIN notes' = DOMAIN notes \cup {Len(notes) + 1}
         /\ Len(notes) + 1 \notin DOMAIN notes
         /\ \A m \in DOMAIN notes : notes'[m] = notes[m]
         /\ notes'[Len(notes) + 1] = x
<1>1. notes \in Seq(NoteSet) /\ DOMAIN notes = 1 .. Len(notes) /\ Len(notes) \in Nat
  BY DEF TypeOK
<1>2. /\ notes' \in Seq(NoteSet) /\ Len(notes') = Len(notes) + 1
      /\ \A m \in 1 .. Len(notes) : notes'[m] = notes[m]
      /\ notes'[Len(notes) + 1] = x
  BY <1>1, AppendProperties
<1> QED
  BY <1>1, <1>2

LEMMA NoteType ==
  ASSUME TypeOK
  PROVE  /\ \A n \in DOMAIN notes : notes[n] \in NoteSet
         /\ DOMAIN notes = 1 .. Len(notes) /\ Len(notes) \in Nat
         /\ DOMAIN notes \subseteq 1 .. MaxNotes
<1>1. notes \in Seq(NoteSet) /\ DOMAIN notes = 1 .. Len(notes) /\ Len(notes) \in Nat
  BY DEF TypeOK
<1> QED
  BY <1>1, ElementOfSeq, PipelineAssumption DEF TypeOK

(* A row that is made for a log and one of its listeners.                  *)
LEMMA NewNoteType ==
  \A l \in Logs, k \in Listeners, s \in {"failed", "pending"} :
    /\ Note(l, k, s) \in NoteSet
    /\ Note(l, k, s).log = l /\ Note(l, k, s).listener = k /\ Note(l, k, s).status = s
    /\ Note(l, k, s).tried <=> s = "failed"
BY DEF Note, NoteSet, Statuses

(* What the statements of a run write, and to which row.                   *)
LEMMA CreateFacts ==
  ASSUME TypeOK, NEW j \in Jobs, CreateNotification(j)
  PROVE  \E k \in job[j].left, s \in {"failed", "pending"}, x \in JobSet :
           LET note == Note(job[j].log, k, s) IN
           /\ note \in NoteSet
           /\ notes' = Append(notes, note)
           /\ job' = [job EXCEPT ![j] = x]
           /\ x.pc \in {"listeners", "explain"}
           /\ x.log = job[j].log /\ x.left = job[j].left \ {k} /\ x.todo = job[j].todo
           /\ x.result = job[j].result /\ x.batch = job[j].batch
           /\ x.note \in {job[j].note, Len(notes) + 1}
           /\ x.pc = "explain" => x.note # 0
<1>1. /\ job[j] \in JobSet /\ job[j].log \in Logs /\ job[j].left \subseteq Listeners
      /\ job[j].pc = "listeners" /\ Len(notes) \in Nat /\ Len(notes) + 1 \in 0 .. MaxNotes
  BY NoteType, PipelineAssumption DEF CreateNotification, TypeOK, JobSet, At
<1>2. PICK k \in job[j].left :
        IF Outcome[job[j].log][k] = "missing"
          THEN /\ notes' = Append(notes, Note(job[j].log, k, "failed"))
               /\ job' = [job EXCEPT ![j].left = @ \ {k}, ![j].pc = "explain",
                                     ![j].note = Len(notes) + 1]
          ELSE /\ notes' = Append(notes, Note(job[j].log, k, "pending"))
               /\ job' = [job EXCEPT ![j].left = @ \ {k}]
  BY DEF CreateNotification
<1>3. \A s \in {"failed", "pending"} : Note(job[j].log, k, s) \in NoteSet
  BY <1>1, NewNoteType
<1>4. CASE Outcome[job[j].log][k] = "missing"
  <2> DEFINE x == [job[j] EXCEPT !.left = @ \ {k}, !.pc = "explain", !.note = Len(notes) + 1]
  <2>1. /\ x \in JobSet /\ x.pc = "explain" /\ x.log = job[j].log /\ x.left = job[j].left \ {k}
        /\ x.todo = job[j].todo /\ x.result = job[j].result /\ x.batch = job[j].batch
        /\ x.note = Len(notes) + 1 /\ x.note # 0
    <3>1. job[j].left \ {k} \in SUBSET Listeners /\ Len(notes) + 1 # 0
      BY <1>1
    <3> QED
      BY <1>1, <3>1 DEF JobSet
  <2>2. job' = [job EXCEPT ![j] = x]
    BY <1>1, <1>2, <1>4 DEF TypeOK, JobSet
  <2> HIDE DEF x
  <2> QED
    BY <1>2, <1>3, <1>4, <2>1, <2>2
<1>5. CASE Outcome[job[j].log][k] # "missing"
  <2> DEFINE x == [job[j] EXCEPT !.left = @ \ {k}]
  <2>1. /\ x \in JobSet /\ x.pc = "listeners" /\ x.log = job[j].log /\ x.left = job[j].left \ {k}
        /\ x.todo = job[j].todo /\ x.result = job[j].result /\ x.batch = job[j].batch
        /\ x.note = job[j].note
    BY <1>1 DEF JobSet
  <2>2. job' = [job EXCEPT ![j] = x]
    BY <1>1, <1>2, <1>5 DEF TypeOK, JobSet
  <2> HIDE DEF x
  <2> QED
    BY <1>2, <1>3, <1>5, <2>1, <2>2
<1> QED
  BY <1>4, <1>5

(* A row written to keeps what it was written for, and only gains.         *)
Gained(old, new) ==
  /\ new \in NoteSet
  /\ new.log = old.log /\ new.listener = old.listener
  /\ old.attempts \subseteq new.attempts
  /\ old.delivered <= new.delivered
  /\ old.tried => new.tried

LEMMA ExplainFacts ==
  ASSUME TypeOK, NEW j \in Jobs, ExplainFailure(j)
  PROVE  \E n \in DOMAIN notes, new \in NoteSet, x \in JobSet :
           /\ notes' = [notes EXCEPT ![n] = new]
           /\ Gained(notes[n], new) /\ new.status = notes[n].status
           /\ new.tried = notes[n].tried /\ new.delivered = notes[n].delivered
           /\ job' = [job EXCEPT ![j] = x]
           /\ x.pc = "listeners" /\ x.note = 0
           /\ x.log = job[j].log /\ x.left = job[j].left /\ x.todo = job[j].todo
           /\ x.result = job[j].result /\ x.batch = job[j].batch
<1> DEFINE n   == job[j].note
           new == [notes[n] EXCEPT !.attempts = @ \cup {"failed"}]
           x   == [job[j] EXCEPT !.pc = "listeners", !.note = 0]
<1>1. job[j] \in JobSet /\ n \in DOMAIN notes /\ notes[n] \in NoteSet
  BY NoteType DEF ExplainFailure, TypeOK, At
<1>2. /\ new \in NoteSet /\ Gained(notes[n], new) /\ new.status = notes[n].status
      /\ new.tried = notes[n].tried /\ new.delivered = notes[n].delivered
  BY <1>1 DEF NoteSet, Gained, Statuses
<1>3. /\ x \in JobSet /\ x.pc = "listeners" /\ x.note = 0
      /\ x.log = job[j].log /\ x.left = job[j].left /\ x.todo = job[j].todo
      /\ x.result = job[j].result /\ x.batch = job[j].batch
  <2>1. 0 \in 0 .. MaxNotes
    BY PipelineAssumption
  <2> QED
    BY <1>1, <2>1 DEF JobSet
<1>4. notes' = [notes EXCEPT ![n] = new] /\ job' = [job EXCEPT ![j] = x]
  BY <1>1 DEF ExplainFailure
<1> HIDE DEF n, new, x
<1> QED
  BY <1>1, <1>2, <1>3, <1>4

LEMMA SendFacts ==
  ASSUME TypeOK, NEW j \in Jobs, Send(j)
  PROVE  \E n \in DOMAIN notes, new \in NoteSet, x \in JobSet :
           /\ notes' = [notes EXCEPT ![n] = new]
           /\ Gained(notes[n], new) /\ new.status = notes[n].status /\ new.tried
           /\ job' = [job EXCEPT ![j] = x]
           /\ x.pc = "log" /\ x.note = n /\ n # 0
           /\ x.todo = job[j].todo /\ x.batch = job[j].batch \ {n} /\ n \in job[j].batch
           /\ x.result \in {"sent", "failed"}
           /\ x.result = "sent" => new.delivered > 0
           /\ new.delivered <= notes[n].delivered + 1
<1>1. PICK n \in DOMAIN notes, result \in {"sent", "failed"} :
        /\ IsFirst(n, job[j].batch)
        /\ notes' = [notes EXCEPT ![n].tried = TRUE,
                                  ![n].delivered = IF result = "sent" THEN @ + 1 ELSE @]
        /\ job' = [job EXCEPT ![j].pc = "log", ![j].batch = @ \ {n},
                              ![j].note = n, ![j].result = result]
  BY DEF Send
<1> DEFINE new == [notes[n] EXCEPT !.tried = TRUE,
                                   !.delivered = IF result = "sent" THEN @ + 1 ELSE @]
           x   == [job[j] EXCEPT !.pc = "log", !.batch = @ \ {n}, !.note = n, !.result = result]
<1>2. job[j] \in JobSet /\ notes[n] \in NoteSet /\ n \in 1 .. MaxNotes
  BY NoteType DEF TypeOK
<1>3. /\ new \in NoteSet /\ Gained(notes[n], new) /\ new.status = notes[n].status /\ new.tried
      /\ result = "sent" => new.delivered > 0
      /\ new.delivered <= notes[n].delivered + 1
  <2>1. CASE result = "sent"
    <3> DEFINE d == notes[n].delivered + 1
    <3>1. new = [notes[n] EXCEPT !.tried = TRUE, !.delivered = d]
      BY <2>1
    <3>2. notes[n].delivered \in Nat /\ d \in Nat /\ d > 0 /\ notes[n].delivered <= d
          /\ d <= notes[n].delivered + 1
      BY <1>2 DEF NoteSet
    <3> HIDE DEF new, d
    <3>3. /\ new \in NoteSet /\ new.log = notes[n].log /\ new.listener = notes[n].listener
          /\ new.status = notes[n].status /\ new.attempts = notes[n].attempts
          /\ new.delivered = d /\ new.tried = TRUE
      BY <1>2, <3>1, <3>2 DEF NoteSet
    <3> QED
      BY <3>2, <3>3 DEF Gained
  <2>2. CASE result # "sent"
    <3>1. new = [notes[n] EXCEPT !.tried = TRUE]
      BY <1>2, <2>2 DEF NoteSet
    <3> HIDE DEF new
    <3>2. /\ new \in NoteSet /\ new.log = notes[n].log /\ new.listener = notes[n].listener
          /\ new.status = notes[n].status /\ new.attempts = notes[n].attempts
          /\ new.delivered = notes[n].delivered /\ new.tried = TRUE
      BY <1>2, <3>1 DEF NoteSet
    <3>3. notes[n].delivered \in Nat
      BY <1>2 DEF NoteSet
    <3> QED
      BY <2>2, <3>2, <3>3 DEF Gained
  <2> QED
    BY <2>1, <2>2
<1>4. /\ x \in JobSet /\ x.pc = "log" /\ x.note = n /\ n # 0
      /\ x.todo = job[j].todo /\ x.batch = job[j].batch \ {n} /\ x.result = result
  <2>1. n \in 0 .. MaxNotes /\ n # 0 /\ result \in Statuses
    BY <1>2, PipelineAssumption DEF Statuses
  <2>2. job[j].batch \ {n} \in SUBSET (1 .. MaxNotes)
    BY <1>2 DEF JobSet
  <2> QED
    BY <1>2, <2>1, <2>2 DEF JobSet
<1>5. notes' = [notes EXCEPT ![n] = new]
  BY <1>1, <1>2 DEF NoteSet
<1>6. job' = [job EXCEPT ![j] = x]
  BY <1>1, <1>2 DEF TypeOK, JobSet
<1> HIDE DEF new, x
<1>7. n \in job[j].batch
  BY <1>1 DEF IsFirst
<1> QED
  BY <1>3, <1>4, <1>5, <1>6, <1>7

LEMMA LogFacts ==
  ASSUME TypeOK, NEW j \in Jobs, LogAttempt(j)
  PROVE  \E n \in DOMAIN notes, new \in NoteSet, x \in JobSet :
           /\ notes' = [notes EXCEPT ![n] = new] /\ n = job[j].note /\ n # 0
           /\ Gained(notes[n], new) /\ new.status = notes[n].status
           /\ new.tried = notes[n].tried /\ new.delivered = notes[n].delivered
           /\ job[j].result \in new.attempts
           /\ job' = [job EXCEPT ![j] = x]
           /\ x.pc = "status" /\ x.note = n /\ x.result = job[j].result
           /\ x.todo = job[j].todo /\ x.batch = job[j].batch
<1> DEFINE n   == job[j].note
           new == [notes[n] EXCEPT !.attempts = @ \cup {job[j].result}]
           x   == [job[j] EXCEPT !.pc = "status"]
<1>1. job[j] \in JobSet /\ n \in DOMAIN notes /\ n # 0 /\ notes[n] \in NoteSet
  BY NoteType DEF LogAttempt, TypeOK, At
<1>2. /\ new \in NoteSet /\ Gained(notes[n], new) /\ new.status = notes[n].status
      /\ new.tried = notes[n].tried /\ new.delivered = notes[n].delivered
      /\ job[j].result \in new.attempts
  BY <1>1 DEF NoteSet, Gained, JobSet
<1>3. /\ x \in JobSet /\ x.pc = "status" /\ x.note = n /\ x.result = job[j].result
      /\ x.todo = job[j].todo /\ x.batch = job[j].batch
  BY <1>1 DEF JobSet
<1>4. notes' = [notes EXCEPT ![n] = new] /\ job' = [job EXCEPT ![j] = x]
  BY <1>1 DEF LogAttempt
<1> HIDE DEF n, new, x
<1> QED
  BY <1>1, <1>2, <1>3, <1>4 DEF n

LEMMA StatusFacts ==
  ASSUME TypeOK, NEW j \in Jobs, UpdateStatus(j)
  PROVE  \E n \in DOMAIN notes, new \in NoteSet :
           /\ notes' = [notes EXCEPT ![n] = new] /\ n = job[j].note /\ n # 0
           /\ Gained(notes[n], new) /\ new.status = job[j].result
           /\ new.tried = notes[n].tried /\ new.delivered = notes[n].delivered
           /\ job' = [job EXCEPT ![j] = GoOn(job[j].batch)]
<1> DEFINE n   == job[j].note
           new == [notes[n] EXCEPT !.status = job[j].result]
<1>1. job[j] \in JobSet /\ n \in DOMAIN notes /\ n # 0 /\ notes[n] \in NoteSet
  BY NoteType DEF UpdateStatus, TypeOK, At
<1>2. /\ new \in NoteSet /\ Gained(notes[n], new) /\ new.status = job[j].result
      /\ new.tried = notes[n].tried /\ new.delivered = notes[n].delivered
  BY <1>1 DEF NoteSet, Gained, JobSet
<1>3. notes' = [notes EXCEPT ![n] = new] /\ job' = [job EXCEPT ![j] = GoOn(job[j].batch)]
  BY <1>1 DEF UpdateStatus
<1> HIDE DEF n, new
<1> QED
  BY <1>1, <1>2, <1>3 DEF n

-----------------------------------------------------------------------------
(* The invariant.                                                          *)

(* What the rows of the table still say after a step.                      *)
NotesGain ==
  /\ \A n \in DOMAIN notes : n \in DOMAIN notes' /\ Gained(notes[n], notes'[n])
  /\ \A l \in Logs, k \in Listeners : Copies(l, k) \subseteq Copies(l, k)'

LEMMA WrittenGains ==
  ASSUME TypeOK, NEW n \in DOMAIN notes, NEW x \in NoteSet, notes' = [notes EXCEPT ![n] = x],
         Gained(notes[n], x)
  PROVE  NotesGain
<1>1. \A m \in DOMAIN notes : notes[m] \in NoteSet
  BY NoteType
<1>2. \A m \in DOMAIN notes : Gained(notes[m], notes[m])
  BY <1>1 DEF Gained, NoteSet
<1> QED
  BY <1>2, NoteWritten DEF NotesGain, Gained, Copies

LEMMA AddedGains ==
  ASSUME TypeOK, NEW x \in NoteSet, notes' = Append(notes, x)
  PROVE  NotesGain /\ Copies(x.log, x.listener)' # {}
<1>1. \A m \in DOMAIN notes : notes[m] \in NoteSet
  BY NoteType
<1>2. \A m \in DOMAIN notes : Gained(notes[m], notes[m])
  BY <1>1 DEF Gained, NoteSet
<1>3. Len(notes) + 1 \in Copies(x.log, x.listener)'
  BY NoteAdded DEF Copies
<1> QED
  BY <1>2, <1>3, NoteAdded DEF NotesGain, Gained, Copies

LEMMA SameGains ==
  ASSUME TypeOK, UNCHANGED notes
  PROVE  NotesGain
BY NoteType DEF NotesGain, Gained, NoteSet, Copies

(* What one run holds keeps the invariant.                                 *)
Held(x) ==
  /\ \A l \in x.todo : logs[l] # "absent"
  /\ x.pc \in {"listeners", "explain"} =>
       /\ logs[x.log] # "absent"
       /\ x.left \subseteq Due[x.log]
       /\ \A k \in Due[x.log] \ x.left : Copies(x.log, k) # {}
  /\ x.result = "sent" =>
       /\ x.pc \in {"log", "status"} => notes[x.note].delivered > 0
       /\ x.pc = "status" => "sent" \in notes[x.note].attempts

Audited(n) ==
  notes[n].status = "sent" => notes[n].delivered > 0 /\ "sent" \in notes[n].attempts

LEMMA InvByParts ==
  PipelineInv <=>
    /\ TypeOK
    /\ \A n \in DOMAIN notes : logs[notes[n].log] # "absent" /\ Audited(n)
    /\ \A j \in Jobs : Held(job[j])
    /\ ProcessedMeansNoted
BY DEF PipelineInv, OfRaisedLogs, PassedAreNoted, ResultIsTrue, Held, Audited, SentIsAudited, At

(* What a run holds stays true while the others write.                     *)
LEMMA HeldKept ==
  ASSUME TypeOK, NotesGain, NEW j \in Jobs, Held(job[j]), UNCHANGED job[j],
         \A l \in Logs : logs[l] # "absent" => logs'[l] # "absent"
  PROVE  Held(job[j])'
<1> DEFINE x == job[j]
<1>1. x \in JobSet /\ (x.pc \in {"listeners", "explain"} => x.log \in Logs)
  BY DEF TypeOK
<1>2. x.todo \subseteq Logs
  BY <1>1 DEF JobSet
<1>3. x.pc \in {"log", "status"} => x.note \in DOMAIN notes
  BY DEF TypeOK
<1>4. \A n \in DOMAIN notes : notes[n].delivered > 0 => notes'[n].delivered > 0
  <2> SUFFICES ASSUME NEW n \in DOMAIN notes, notes[n].delivered > 0
               PROVE  notes'[n].delivered > 0
    OBVIOUS
  <2>1. notes[n] \in NoteSet /\ notes'[n] \in NoteSet /\ notes[n].delivered <= notes'[n].delivered
    BY NoteType DEF NotesGain, Gained
  <2>2. notes[n].delivered \in Nat /\ notes'[n].delivered \in Nat
    BY <2>1 DEF NoteSet
  <2> QED
    BY <2>1, <2>2
<1>5. \A n \in DOMAIN notes : notes[n].attempts \subseteq notes'[n].attempts
  BY DEF NotesGain, Gained
<1>6. x.pc \in {"listeners", "explain"} =>
        \A k \in Due[x.log] \ x.left : Copies(x.log, k)' # {}
  BY <1>1, DueType DEF Held, NotesGain
<1>7. /\ \A l \in x.todo : logs'[l] # "absent"
      /\ x.pc \in {"listeners", "explain"} => logs'[x.log] # "absent" /\ x.left \subseteq Due[x.log]
  BY <1>1, <1>2 DEF Held
<1>8. x.result = "sent" =>
        /\ x.pc \in {"log", "status"} => notes'[x.note].delivered > 0
        /\ x.pc = "status" => "sent" \in notes'[x.note].attempts
  BY <1>3, <1>4, <1>5 DEF Held
<1> QED
  BY <1>6, <1>7, <1>8 DEF Held

(* A run moves on, and the notifications gain.                             *)
LEMMA MoveKeeps ==
  ASSUME PipelineInv, NotesGain, NEW j \in Jobs, NEW x, Sound(x, notes'),
         job' = [job EXCEPT ![j] = x],
         Held(x)',
         notes' \in Seq(NoteSet), Len(notes') <= MaxNotes, Len(notes) <= Len(notes'),
         logs' \in [Logs -> {"absent", "active", "processed"}],
         \A l \in Logs : logs[l] # "absent" => logs'[l] # "absent",
         faults' \in 0 .. MaxFaults,
         \A l \in Logs : logs'[l] = "processed" => \A k \in Due[l] : Copies(l, k)' # {},
         \A n \in DOMAIN notes' : logs'[notes'[n].log] # "absent" /\ Audited(n)'
  PROVE  PipelineInv'
<1>1. TypeOK
  BY DEF PipelineInv
<1>2. TypeOK' /\ \A i \in Jobs : job'[i] = IF i = j THEN x ELSE job[i]
  BY <1>1, RunMoves
<1>3. \A i \in Jobs : Held(job[i])
  BY InvByParts
<1>4. ASSUME NEW i \in Jobs PROVE Held(job[i])'
  <2>1. CASE i = j
    <3>1. job'[i] = x
      BY <1>2, <2>1
    <3> QED
      BY <3>1 DEF Held
  <2>2. CASE i # j
    BY <1>1, <1>2, <1>3, <2>2, HeldKept
  <2> QED
    BY <2>1, <2>2
<1>5. ProcessedMeansNoted'
  BY DEF ProcessedMeansNoted, Due
<1> QED
  BY <1>2, <1>4, <1>5 DEF PipelineInv, OfRaisedLogs, PassedAreNoted, ResultIsTrue, Held,
                          SentIsAudited, Audited, At

(* Rows that stay as they are stay true.                                   *)
LEMMA RowsKept ==
  ASSUME PipelineInv, UNCHANGED <<logs, notes>>
  PROVE  /\ NotesGain
         /\ notes' \in Seq(NoteSet) /\ Len(notes') <= MaxNotes /\ Len(notes) <= Len(notes')
         /\ logs' \in [Logs -> {"absent", "active", "processed"}]
         /\ \A l \in Logs : logs[l] # "absent" => logs'[l] # "absent"
         /\ \A l \in Logs : logs'[l] = "processed" => \A k \in Due[l] : Copies(l, k)' # {}
         /\ \A n \in DOMAIN notes' : logs'[notes'[n].log] # "absent" /\ Audited(n)'
<1>1. TypeOK /\ NotesGain /\ Len(notes) \in Nat
  BY SameGains, NoteType DEF PipelineInv
<1> QED
  BY <1>1, InvByParts DEF TypeOK, ProcessedMeansNoted, Audited, Copies

(* A run that goes on with one of the logs, or to its notifications.       *)
LEMMA HeldNext ==
  ASSUME NEW ls, ls \subseteq Logs, NEW x \in NextLog(ls), \A l \in ls : logs'[l] # "absent"
  PROVE  Held(x)'
BY NextLogType DEF Held

LEMMA HeldGoOn ==
  ASSUME TypeOK, NEW ns, ns \subseteq DOMAIN notes
  PROVE  Held(GoOn(ns))'
BY GoOnType DEF Held, GoOn, Idle

(* A notification that is written to, by a run that takes it further.      *)
LEMMA WriteKeeps ==
  ASSUME PipelineInv, NEW j \in Jobs, NEW n \in DOMAIN notes, NEW new \in NoteSet,
         notes' = [notes EXCEPT ![n] = new], Gained(notes[n], new),
         \/ new.status = notes[n].status
         \/ new.status = "sent" => new.delivered > 0 /\ "sent" \in new.attempts,
         NEW x, Sound(x, notes), job' = [job EXCEPT ![j] = x],
         Held(x)', UNCHANGED <<logs, faults>>
  PROVE  PipelineInv'
<1>1. TypeOK /\ NotesGain
  BY WrittenGains DEF PipelineInv
<1>2. /\ notes' \in Seq(NoteSet) /\ Len(notes') = Len(notes) /\ DOMAIN notes' = DOMAIN notes
      /\ \A m \in DOMAIN notes : notes'[m] = IF m = n THEN new ELSE notes[m]
  BY <1>1, NoteWritten
<1>3. Len(notes) \in Nat /\ Len(notes) <= MaxNotes /\ notes[n] \in NoteSet
  BY <1>1, NoteType DEF TypeOK
<1>4. \A m \in DOMAIN notes : logs[notes[m].log] # "absent" /\ Audited(m)
  BY InvByParts
<1>5. new.status = "sent" => new.delivered > 0 /\ "sent" \in new.attempts
  <2>1. CASE new.status = notes[n].status /\ new.status = "sent"
    <3>1. notes[n].delivered > 0 /\ "sent" \in notes[n].attempts
      BY <1>4, <2>1 DEF Audited
    <3>2. notes[n].delivered \in Nat /\ new.delivered \in Nat /\ notes[n].delivered <= new.delivered
      BY <1>3 DEF NoteSet, Gained
    <3> QED
      BY <3>1, <3>2 DEF Gained
  <2> QED
    BY <2>1
<1>6. \A m \in DOMAIN notes' : logs'[notes'[m].log] # "absent" /\ Audited(m)'
  BY <1>2, <1>4, <1>5 DEF Audited, Gained
<1>7. \A l \in Logs : logs'[l] = "processed" => \A k \in Due[l] : Copies(l, k)' # {}
  BY <1>1, DueType DEF PipelineInv, ProcessedMeansNoted, NotesGain
<1>8. Sound(x, notes')
  BY <1>2 DEF Sound
<1>9. /\ logs' \in [Logs -> {"absent", "active", "processed"}] /\ faults' \in 0 .. MaxFaults
      /\ \A l \in Logs : logs[l] # "absent" => logs'[l] # "absent"
  BY <1>1 DEF TypeOK
<1>10. Len(notes') <= MaxNotes /\ Len(notes) <= Len(notes')
  BY <1>2, <1>3
<1> QED
  BY <1>1, <1>2, <1>6, <1>7, <1>8, <1>9, <1>10, MoveKeeps

(* Nothing but local variables changes.                                    *)
LEMMA LocalKeeps ==
  ASSUME PipelineInv, NEW j \in Jobs, NEW x, Sound(x, notes), job' = [job EXCEPT ![j] = x],
         Held(x)', UNCHANGED <<logs, notes>>, faults' \in 0 .. MaxFaults
  PROVE  PipelineInv'
<1>1. Sound(x, notes')
  OBVIOUS
<1> QED
  BY <1>1, RowsKept, MoveKeeps

LEMMA FaultCounts ==
  ASSUME TypeOK, Fault \/ Overlap
  PROVE  faults' \in 0 .. MaxFaults
BY PipelineAssumption DEF TypeOK, Fault, Overlap

(* The step of each action.                                                *)
LEMMA RaiseKeeps ==
  ASSUME PipelineInv, NEW l \in Logs, CreateEventLog(l)
  PROVE  PipelineInv'
<1>1. /\ TypeOK /\ UNCHANGED <<notes, job, faults>>
      /\ logs' = [logs EXCEPT ![l] = "active"] /\ logs[l] = "absent"
  BY DEF CreateEventLog, PipelineInv
<1>2. \A m \in Logs : logs'[m] = IF m = l THEN "active" ELSE logs[m]
  BY <1>1 DEF TypeOK
<1>3. NotesGain /\ \A j \in Jobs : Held(job[j])
  BY <1>1, SameGains, InvByParts
<1>4. \A j \in Jobs : Held(job[j])'
  BY <1>1, <1>2, <1>3, HeldKept
<1>5. TypeOK'
  BY <1>1 DEF TypeOK, At
<1>6. \A n \in DOMAIN notes' : logs'[notes'[n].log] # "absent" /\ Audited(n)'
  BY <1>1, <1>2, NoteType, InvByParts DEF NoteSet, Audited
<1>7. ProcessedMeansNoted'
  BY <1>1, <1>2 DEF PipelineInv, ProcessedMeansNoted, Copies
<1> QED
  BY <1>4, <1>5, <1>6, <1>7 DEF PipelineInv, OfRaisedLogs, PassedAreNoted, ResultIsTrue, Held,
                                SentIsAudited, Audited, At

LEMMA CreateKeeps ==
  ASSUME PipelineInv, NEW j \in Jobs, CreateNotification(j)
  PROVE  PipelineInv'
<1>1. TypeOK
  BY DEF PipelineInv
<1>2. PICK k \in job[j].left, s \in {"failed", "pending"}, x \in JobSet :
        /\ Note(job[j].log, k, s) \in NoteSet
        /\ notes' = Append(notes, Note(job[j].log, k, s))
        /\ job' = [job EXCEPT ![j] = x]
        /\ x.pc \in {"listeners", "explain"}
        /\ x.log = job[j].log /\ x.left = job[j].left \ {k} /\ x.todo = job[j].todo
        /\ x.result = job[j].result /\ x.batch = job[j].batch
        /\ x.note \in {job[j].note, Len(notes) + 1}
        /\ x.pc = "explain" => x.note # 0
  BY <1>1, CreateFacts
<1>3. /\ UNCHANGED <<logs, faults>> /\ job[j].pc = "listeners" /\ Len(notes) < MaxNotes
      /\ job[j].log \in Logs /\ job[j].left \subseteq Listeners
  BY <1>1 DEF CreateNotification, TypeOK, JobSet, At
<1> DEFINE new == Note(job[j].log, k, s)
<1>4. new.log = job[j].log /\ new.listener = k /\ new.status = s
  BY <1>3, NewNoteType
<1> HIDE DEF new
<1>5. NotesGain /\ Copies(job[j].log, k)' # {}
  BY <1>1, <1>2, <1>4, AddedGains DEF new
<1>6. /\ notes' \in Seq(NoteSet) /\ Len(notes') = Len(notes) + 1 /\ Len(notes) \in Nat
      /\ DOMAIN notes' = DOMAIN notes \cup {Len(notes) + 1}
      /\ \A m \in DOMAIN notes : notes'[m] = notes[m]
      /\ notes'[Len(notes) + 1] = new
  BY <1>1, <1>2, NoteAdded DEF new
<1>7. Held(job[j])
  BY InvByParts
<1>8. Held(x)'
  <2>1. \A i \in Due[job[j].log] \ x.left : Copies(job[j].log, i)' # {}
    BY <1>2, <1>3, <1>5, <1>7, DueType DEF Held, NotesGain
  <2> QED
    BY <1>2, <1>3, <1>7, <2>1 DEF Held
<1>9. Sound(x, notes')
  BY <1>1, <1>2, <1>3, <1>6 DEF TypeOK, Sound
<1>10. \A l \in Logs : logs'[l] = "processed" => \A i \in Due[l] : Copies(l, i)' # {}
  BY <1>3, <1>5, DueType DEF PipelineInv, ProcessedMeansNoted, NotesGain
<1>11. \A n \in DOMAIN notes : logs[notes[n].log] # "absent" /\ Audited(n)
  BY InvByParts
<1>12. ASSUME NEW n \in DOMAIN notes' PROVE logs'[notes'[n].log] # "absent" /\ Audited(n)'
  BY <1>3, <1>4, <1>6, <1>7, <1>11 DEF Held, Audited
<1>13. logs' \in [Logs -> {"absent", "active", "processed"}] /\ faults' \in 0 .. MaxFaults
  BY <1>1, <1>3 DEF TypeOK
<1>14. Len(notes') <= MaxNotes /\ Len(notes) <= Len(notes')
  BY <1>1, <1>3, <1>6, PipelineAssumption
<1> QED
  BY <1>2, <1>3, <1>5, <1>6, <1>8, <1>9, <1>10, <1>12, <1>13, <1>14, MoveKeeps

LEMMA MarkKeeps ==
  ASSUME PipelineInv, NEW j \in Jobs, MarkProcessed(j)
  PROVE  PipelineInv'
<1> DEFINE l == job[j].log
<1>1. /\ TypeOK /\ l \in Logs /\ job[j].todo \subseteq Logs
      /\ job[j].pc = "listeners" /\ job[j].left = {}
      /\ logs' = [logs EXCEPT ![l] = "processed"] /\ UNCHANGED <<notes, faults>>
  BY DEF MarkProcessed, PipelineInv, TypeOK, JobSet, At
<1>2. PICK x \in NextLog(job[j].todo) : job' = [job EXCEPT ![j] = x]
  BY DEF MarkProcessed
<1>3. Held(job[j])
  BY InvByParts
<1>4. \A m \in Logs : logs'[m] = IF m = l THEN "processed" ELSE logs[m]
  BY <1>1 DEF TypeOK
<1>5. Sound(x, notes') /\ Held(x)'
  BY <1>1, <1>3, <1>4, NextLogType, HeldNext DEF Held
<1>6. NotesGain
  BY <1>1, SameGains
<1>7. \A m \in Logs : logs'[m] = "processed" => \A k \in Due[m] : Copies(m, k)' # {}
  BY <1>1, <1>3, <1>4 DEF Held, PipelineInv, ProcessedMeansNoted, Copies
<1>8. \A n \in DOMAIN notes : logs[notes[n].log] # "absent" /\ Audited(n) /\ notes[n] \in NoteSet
  BY <1>1, InvByParts, NoteType
<1>9. \A n \in DOMAIN notes' : logs'[notes'[n].log] # "absent" /\ Audited(n)'
  BY <1>1, <1>4, <1>8 DEF NoteSet, Audited
<1>10. /\ notes' \in Seq(NoteSet) /\ Len(notes') <= MaxNotes /\ Len(notes) <= Len(notes')
       /\ logs' \in [Logs -> {"absent", "active", "processed"}] /\ faults' \in 0 .. MaxFaults
  BY <1>1, NoteType DEF TypeOK
<1> QED
  BY <1>2, <1>4, <1>5, <1>6, <1>7, <1>9, <1>10, MoveKeeps

LEMMA PipelineStep == PipelineInv /\ [Next]_vars => PipelineInv'
<1> SUFFICES ASSUME PipelineInv, [Next]_vars PROVE PipelineInv'
  OBVIOUS
<1>0. TypeOK /\ \A j \in Jobs : Held(job[j])
  BY InvByParts
<1>1. ASSUME NEW l \in Logs, CreateEventLog(l) PROVE PipelineInv'
  BY <1>1, RaiseKeeps
<1>2. ASSUME NEW j \in Jobs, Tick(j) PROVE PipelineInv'
  <2> DEFINE active == {l \in Logs : logs[l] = "active"}
  <2>1. PICK x \in NextLog(active) : job' = [job EXCEPT ![j] = x]
    BY <1>2 DEF Tick
  <2>2. active \subseteq Logs /\ \A l \in active : logs'[l] # "absent"
    BY <1>2 DEF Tick
  <2>3. Sound(x, notes) /\ Held(x)'
    BY <2>1, <2>2, NextLogType, HeldNext
  <2>4. UNCHANGED <<logs, notes>> /\ faults' \in 0 .. MaxFaults
    BY <1>0, <1>2, FaultCounts DEF Tick
  <2> QED
    BY <2>1, <2>3, <2>4, LocalKeeps
<1>3. ASSUME NEW j \in Jobs, CreateNotification(j) PROVE PipelineInv'
  BY <1>3, CreateKeeps
<1>4. ASSUME NEW j \in Jobs, ExplainFailure(j) PROVE PipelineInv'
  <2>1. PICK n \in DOMAIN notes, new \in NoteSet, x \in JobSet :
          /\ notes' = [notes EXCEPT ![n] = new]
          /\ Gained(notes[n], new) /\ new.status = notes[n].status
          /\ job' = [job EXCEPT ![j] = x]
          /\ x.pc = "listeners" /\ x.note = 0
          /\ x.log = job[j].log /\ x.left = job[j].left /\ x.todo = job[j].todo
          /\ x.result = job[j].result /\ x.batch = job[j].batch
    BY <1>0, <1>4, ExplainFacts
  <2>2. job[j].pc = "explain" /\ UNCHANGED <<logs, faults>> /\ job[j].log \in Logs
    BY <1>0, <1>4 DEF ExplainFailure, At, TypeOK
  <2>3. NotesGain
    BY <1>0, <2>1, WrittenGains
  <2>4. \A k \in Due[job[j].log] \ x.left : Copies(job[j].log, k)' # {}
    BY <1>0, <2>1, <2>2, <2>3, DueType DEF Held, NotesGain
  <2>5. Held(x)'
    BY <1>0, <2>1, <2>2, <2>4 DEF Held
  <2>6. Sound(x, notes)
    BY <1>0, <2>1, <2>2 DEF Sound, TypeOK
  <2> QED
    BY <2>1, <2>2, <2>5, <2>6, WriteKeeps
<1>5. ASSUME NEW j \in Jobs, MarkProcessed(j) PROVE PipelineInv'
  BY <1>5, MarkKeeps
<1>6. ASSUME NEW j \in Jobs, FetchPending(j) PROVE PipelineInv'
  <2>1. PICK ns \in SUBSET DOMAIN notes : job' = [job EXCEPT ![j] = GoOn(ns)]
    BY <1>6 DEF FetchPending, Oldest, Pending
  <2>2. Sound(GoOn(ns), notes) /\ Held(GoOn(ns))'
    BY <1>0, <2>1, GoOnType, HeldGoOn
  <2>3. /\ UNCHANGED <<logs, notes>> /\ faults' \in 0 .. MaxFaults
    BY <1>0, <1>6 DEF FetchPending, TypeOK
  <2> QED
    BY <2>1, <2>2, <2>3, LocalKeeps
<1>7. ASSUME NEW j \in Jobs, Send(j) PROVE PipelineInv'
  <2>1. PICK n \in DOMAIN notes, new \in NoteSet, x \in JobSet :
          /\ notes' = [notes EXCEPT ![n] = new]
          /\ Gained(notes[n], new) /\ new.status = notes[n].status
          /\ job' = [job EXCEPT ![j] = x]
          /\ x.pc = "log" /\ x.note = n /\ n # 0
          /\ x.todo = job[j].todo /\ x.batch \subseteq job[j].batch
          /\ x.result = "sent" => new.delivered > 0
    BY <1>0, <1>7, SendFacts
  <2>2. UNCHANGED <<logs, faults>>
    BY <1>7 DEF Send
  <2>3. notes'[n] = new
    BY <1>0, <2>1, NoteWritten
  <2>4. Held(x)'
    BY <1>0, <2>1, <2>2, <2>3 DEF Held
  <2>5. Sound(x, notes)
    BY <1>0, <2>1 DEF Sound, TypeOK
  <2> QED
    BY <2>1, <2>2, <2>4, <2>5, WriteKeeps
<1>8. ASSUME NEW j \in Jobs, LogAttempt(j) PROVE PipelineInv'
  <2>1. PICK n \in DOMAIN notes, new \in NoteSet, x \in JobSet :
          /\ notes' = [notes EXCEPT ![n] = new] /\ n = job[j].note /\ n # 0
          /\ Gained(notes[n], new) /\ new.status = notes[n].status
          /\ job[j].result \in new.attempts
          /\ job' = [job EXCEPT ![j] = x]
          /\ x.pc = "status" /\ x.note = n /\ x.result = job[j].result
          /\ x.todo = job[j].todo /\ x.batch = job[j].batch
    BY <1>0, <1>8, LogFacts
  <2>2. UNCHANGED <<logs, faults>> /\ job[j].pc = "log"
    BY <1>8 DEF LogAttempt, At
  <2>3. notes'[n] = new /\ notes[n] \in NoteSet
    BY <1>0, <2>1, NoteWritten, NoteType
  <2>4. x.result = "sent" => new.delivered > 0
    <3>1. x.result = "sent" => notes[n].delivered > 0
      BY <1>0, <2>1, <2>2 DEF Held
    <3>2. /\ notes[n].delivered \in Nat /\ new.delivered \in Nat
          /\ notes[n].delivered <= new.delivered
      BY <2>1, <2>3 DEF NoteSet, Gained
    <3> QED
      BY <3>1, <3>2
  <2>5. Held(x)'
    BY <1>0, <2>1, <2>2, <2>3, <2>4 DEF Held
  <2>6. Sound(x, notes)
    BY <1>0, <2>1 DEF Sound, TypeOK
  <2> QED
    BY <2>1, <2>2, <2>5, <2>6, WriteKeeps
<1>9. ASSUME NEW j \in Jobs, UpdateStatus(j) PROVE PipelineInv'
  <2>1. PICK n \in DOMAIN notes, new \in NoteSet, ns \in SUBSET DOMAIN notes :
          /\ notes' = [notes EXCEPT ![n] = new] /\ n = job[j].note /\ n # 0
          /\ Gained(notes[n], new) /\ new.status = job[j].result
          /\ job' = [job EXCEPT ![j] = GoOn(ns)]
    BY <1>0, <1>9, StatusFacts DEF TypeOK
  <2>2. UNCHANGED <<logs, faults>> /\ job[j].pc = "status" /\ notes[n] \in NoteSet
    BY <1>0, <1>9, NoteType DEF UpdateStatus, At
  <2>3. new.status = "sent" => new.delivered > 0 /\ "sent" \in new.attempts
    <3>1. new.status = "sent" => notes[n].delivered > 0 /\ "sent" \in notes[n].attempts
      BY <1>0, <2>1, <2>2 DEF Held
    <3>2. /\ notes[n].delivered \in Nat /\ new.delivered \in Nat
          /\ notes[n].delivered <= new.delivered
      BY <2>1, <2>2 DEF NoteSet, Gained
    <3> QED
      BY <2>1, <3>1, <3>2 DEF Gained
  <2>4. Sound(GoOn(ns), notes) /\ Held(GoOn(ns))'
    BY <1>0, <2>1, GoOnType, HeldGoOn
  <2> QED
    BY <2>1, <2>2, <2>3, <2>4, WriteKeeps
<1>10. ASSUME NEW j \in Jobs, PrepareFails(j) PROVE PipelineInv'
  <2>1. PICK x \in NextLog(job[j].todo) : job' = [job EXCEPT ![j] = x]
    BY <1>10 DEF PrepareFails
  <2>2. UNCHANGED <<logs, notes>> /\ faults' \in 0 .. MaxFaults
    BY <1>0, <1>10, FaultCounts DEF PrepareFails, Fault
  <2>3. job[j].todo \subseteq Logs /\ \A l \in job[j].todo : logs'[l] # "absent"
    BY <1>0, <2>2 DEF TypeOK, JobSet, Held
  <2>4. Sound(x, notes) /\ Held(x)'
    BY <2>1, <2>3, NextLogType, HeldNext
  <2> QED
    BY <2>1, <2>2, <2>4, LocalKeeps
<1>11. ASSUME NEW j \in Jobs, SendFails(j) PROVE PipelineInv'
  <2>1. PICK ns \in SUBSET job[j].batch : job' = [job EXCEPT ![j] = GoOn(ns)]
    BY <1>11 DEF SendFails
  <2>2. UNCHANGED <<logs, notes>> /\ faults' \in 0 .. MaxFaults
    BY <1>0, <1>11, FaultCounts DEF SendFails, Fault
  <2>3. ns \subseteq DOMAIN notes
    BY <1>0, <2>1 DEF TypeOK
  <2>4. Sound(GoOn(ns), notes) /\ Held(GoOn(ns))'
    BY <1>0, <2>3, GoOnType, HeldGoOn
  <2> QED
    BY <2>1, <2>2, <2>4, LocalKeeps
<1>12. ASSUME Crash \/ UNCHANGED vars PROVE PipelineInv'
  <2>1. UNCHANGED <<logs, notes>> /\ faults' \in 0 .. MaxFaults
    BY <1>0, <1>12, FaultCounts DEF Crash, Fault, vars, TypeOK
  <2>2. job' \in [Jobs -> JobSet] /\ \A j \in Jobs : job'[j] = Idle \/ job'[j] = job[j]
    BY <1>0, <1>12, IdleType DEF Crash, vars, TypeOK
  <2>3. \A j \in Jobs : Sound(job'[j], notes) /\ Held(job[j])'
    <3>1. Idle.todo = {} /\ Idle.pc = "idle"
      BY DEF Idle
    <3>2. NotesGain
      BY <2>1, <1>0, SameGains
    <3> SUFFICES ASSUME NEW j \in Jobs PROVE Sound(job'[j], notes) /\ Held(job[j])'
      OBVIOUS
    <3>3. CASE job'[j] = Idle
      BY <3>1, <3>3, IdleType DEF Held
    <3>4. CASE job'[j] = job[j]
      BY <1>0, <2>1, <3>2, <3>4, HeldKept DEF Sound, TypeOK
    <3> QED
      BY <2>2, <3>3, <3>4
  <2>4. TypeOK'
    BY <1>0, <2>1, <2>2, <2>3 DEF TypeOK, Sound
  <2> QED
    BY <2>1, <2>3, <2>4, RowsKept
    DEF PipelineInv, OfRaisedLogs, PassedAreNoted, ResultIsTrue, Held, SentIsAudited, Audited, At,
        ProcessedMeansNoted, Due
<1> QED
  BY <1>1, <1>2, <1>3, <1>4, <1>5, <1>6, <1>7, <1>8, <1>9, <1>10, <1>11, <1>12
  DEF Next, Prepare, Deliver, Fails

LEMMA InitPipeline == Init => PipelineInv
<1> SUFFICES ASSUME Init PROVE PipelineInv
  OBVIOUS
<1>1. notes = <<>> /\ notes \in Seq(NoteSet) /\ Len(notes) = 0 /\ DOMAIN notes = {}
  BY EmptySeq DEF Init
<1>2. \A j \in Jobs : job[j] = Idle
  BY DEF Init
<1>3. Idle \in JobSet /\ Sound(Idle, notes) /\ Idle.pc = "idle" /\ Idle.todo = {}
  BY IdleType DEF Idle
<1> HIDE DEF Idle
<1>4. TypeOK
  BY <1>1, <1>2, <1>3, PipelineAssumption DEF Init, TypeOK, Sound, At
<1>5. OfRaisedLogs /\ PassedAreNoted /\ ResultIsTrue
  BY <1>1, <1>2, <1>3 DEF OfRaisedLogs, PassedAreNoted, ResultIsTrue, At
<1>6. ProcessedMeansNoted /\ SentIsAudited
  BY <1>1 DEF Init, ProcessedMeansNoted, SentIsAudited
<1> QED
  BY <1>4, <1>5, <1>6 DEF PipelineInv

(* The invariant holds.                                                    *)
LEMMA PipelineInvariant == Spec => []PipelineInv
BY InitPipeline, PipelineStep, PTL DEF Spec

-----------------------------------------------------------------------------
(* The refinement.                                                         *)

Stage == [l \in Logs |-> [k \in Due[l] |-> StageOf(l, k)]]

Tried(l, k) == \E n \in Copies(l, k) : notes[n].tried

LEMMA StageCases ==
  \A l \in Logs, k \in Listeners :
    /\ Tried(l, k) => StageOf(l, k) = "attempted"
    /\ ~Tried(l, k) /\ Copies(l, k) # {} => StageOf(l, k) = "noted"
    /\ Copies(l, k) = {} /\ logs[l] # "absent" => StageOf(l, k) = "owed"
    /\ Copies(l, k) = {} /\ logs[l] = "absent" => StageOf(l, k) = "none"
BY DEF StageOf, Tried

(* The stage of an obligation depends on these three things.               *)
LEMMA SameStage ==
  ASSUME NEW l \in Logs, NEW k \in Listeners,
         Copies(l, k)' = {} <=> Copies(l, k) = {},
         Tried(l, k)' <=> Tried(l, k),
         logs'[l] = "absent" <=> logs[l] = "absent"
  PROVE  StageOf(l, k)' = StageOf(l, k)
BY DEF StageOf, Tried

LEMMA StagesStay ==
  ASSUME \A l \in Logs, k \in Listeners : StageOf(l, k)' = StageOf(l, k)
  PROVE  Stage' = Stage
<1>1. \A l \in Logs : [k \in Due[l] |-> StageOf(l, k)'] = [k \in Due[l] |-> StageOf(l, k)]
  BY DueType
<1> QED
  BY <1>1 DEF Stage, Due

LEMMA OneStageMoves ==
  ASSUME NEW l \in Logs, NEW k \in Due[l],
         \A m \in Logs, i \in Listeners :
           m # l \/ i # k => StageOf(m, i)' = StageOf(m, i)
  PROVE  Stage' = [Stage EXCEPT ![l][k] = StageOf(l, k)']
<1>1. \A m \in Logs : Stage[m] = [i \in Due[m] |-> StageOf(m, i)]
  BY DEF Stage
<1>2. \A m \in Logs : Stage'[m] = [i \in Due[m] |-> StageOf(m, i)']
  BY DEF Stage, Due
<1>3. \A m \in Logs : m # l => Stage'[m] = Stage[m]
  BY <1>1, <1>2, DueType
<1>4. Stage'[l] = [Stage[l] EXCEPT ![k] = StageOf(l, k)']
  <2>1. [Stage[l] EXCEPT ![k] = StageOf(l, k)'] =
          [i \in Due[l] |-> IF i = k THEN StageOf(l, k)' ELSE StageOf(l, i)]
    BY <1>1
  <2>2. \A i \in Due[l] : StageOf(l, i)' = IF i = k THEN StageOf(l, k)' ELSE StageOf(l, i)
    BY DueType
  <2>3. [i \in Due[l] |-> StageOf(l, i)'] =
          [i \in Due[l] |-> IF i = k THEN StageOf(l, k)' ELSE StageOf(l, i)]
    BY <2>2
  <2> QED
    BY <1>2, <2>1, <2>3
<1>5. Stage' = [m \in Logs |-> Stage'[m]] /\ Stage = [m \in Logs |-> Stage[m]]
  BY DEF Stage
<1> QED
  BY <1>3, <1>4, <1>5

(* A step that gains notifications and raises no log moves no stage but,   *)
(* where a notification is made or tried, one.                             *)
LEMMA WrittenStage ==
  ASSUME TypeOK, NEW n \in DOMAIN notes, NEW new \in NoteSet,
         notes' = [notes EXCEPT ![n] = new], Gained(notes[n], new), UNCHANGED logs
  PROVE  \A l \in Logs, k \in Listeners :
           /\ Copies(l, k)' = Copies(l, k)
           /\ new.tried = notes[n].tried => StageOf(l, k)' = StageOf(l, k)
           /\ l # notes[n].log \/ k # notes[n].listener => StageOf(l, k)' = StageOf(l, k)
           /\ new.tried /\ l = notes[n].log /\ k = notes[n].listener => Tried(l, k)'
<1> SUFFICES ASSUME NEW l \in Logs, NEW k \in Listeners
             PROVE  /\ Copies(l, k)' = Copies(l, k)
                    /\ new.tried = notes[n].tried => StageOf(l, k)' = StageOf(l, k)
                    /\ l # notes[n].log \/ k # notes[n].listener => StageOf(l, k)' = StageOf(l, k)
                    /\ new.tried /\ l = notes[n].log /\ k = notes[n].listener => Tried(l, k)'
  OBVIOUS
<1>1. /\ DOMAIN notes' = DOMAIN notes
      /\ \A m \in DOMAIN notes : notes'[m] = IF m = n THEN new ELSE notes[m]
  BY NoteWritten
<1>2. Copies(l, k)' = Copies(l, k)
  BY <1>1 DEF Copies, Gained
<1>3. ASSUME new.tried = notes[n].tried PROVE StageOf(l, k)' = StageOf(l, k)
  <2>1. Tried(l, k)' <=> Tried(l, k)
    BY <1>1, <1>2, <1>3 DEF Tried, Copies
  <2> QED
    BY <1>2, <2>1, SameStage
<1>4. ASSUME l # notes[n].log \/ k # notes[n].listener PROVE StageOf(l, k)' = StageOf(l, k)
  <2>1. n \notin Copies(l, k)
    BY <1>4 DEF Copies
  <2>2. Tried(l, k)' <=> Tried(l, k)
    BY <1>1, <1>2, <2>1 DEF Tried, Copies
  <2> QED
    BY <1>2, <2>2, SameStage
<1>5. ASSUME new.tried, l = notes[n].log, k = notes[n].listener PROVE Tried(l, k)'
  <2>1. n \in Copies(l, k)'
    BY <1>1, <1>2, <1>5 DEF Copies
  <2> QED
    BY <1>1, <1>5, <2>1 DEF Tried
<1> QED
  BY <1>2, <1>3, <1>4, <1>5

LEMMA AddedStage ==
  ASSUME TypeOK, NEW new \in NoteSet, notes' = Append(notes, new), UNCHANGED logs
  PROVE  \A l \in Logs, k \in Listeners :
           /\ l # new.log \/ k # new.listener => StageOf(l, k)' = StageOf(l, k)
           /\ l = new.log /\ k = new.listener =>
                Copies(l, k)' # {} /\ (Tried(l, k)' <=> Tried(l, k) \/ new.tried)
<1> SUFFICES ASSUME NEW l \in Logs, NEW k \in Listeners
             PROVE  /\ l # new.log \/ k # new.listener => StageOf(l, k)' = StageOf(l, k)
                    /\ l = new.log /\ k = new.listener =>
                         Copies(l, k)' # {} /\ (Tried(l, k)' <=> Tried(l, k) \/ new.tried)
  OBVIOUS
<1> DEFINE n == Len(notes) + 1
<1>1. /\ DOMAIN notes' = DOMAIN notes \cup {n} /\ n \notin DOMAIN notes
      /\ \A m \in DOMAIN notes : notes'[m] = notes[m]
      /\ notes'[n] = new
  BY NoteAdded
<1> HIDE DEF n
<1>2. ASSUME l # new.log \/ k # new.listener PROVE StageOf(l, k)' = StageOf(l, k)
  <2>1. Copies(l, k)' = Copies(l, k)
    BY <1>1, <1>2 DEF Copies
  <2>2. Tried(l, k)' <=> Tried(l, k)
    BY <1>1, <2>1 DEF Tried, Copies
  <2> QED
    BY <2>1, <2>2, SameStage
<1>3. ASSUME l = new.log, k = new.listener
      PROVE  Copies(l, k)' # {} /\ (Tried(l, k)' <=> Tried(l, k) \/ new.tried)
  <2>1. Copies(l, k)' = Copies(l, k) \cup {n}
    BY <1>1, <1>3 DEF Copies
  <2>2. Copies(l, k) \subseteq DOMAIN notes
    BY DEF Copies
  <2> QED
    BY <1>1, <2>1, <2>2 DEF Tried
<1> QED
  BY <1>2, <1>3

(* Each step of the pipeline is a step of the contract, or none.           *)
LEMMA DeliveryStep == PipelineInv /\ [Next]_vars => [Delivery!Next]_Stage
<1> SUFFICES ASSUME PipelineInv, [Next]_vars PROVE Delivery!Next \/ Stage' = Stage
  OBVIOUS
<1>0. TypeOK /\ \A j \in Jobs : Held(job[j])
  BY InvByParts
<1>1. \A l \in Logs : \A k \in Due[l] : Stage[l][k] = StageOf(l, k) /\ k \in Listeners
  BY DueType DEF Stage
<1>2. ASSUME NEW l \in Logs, CreateEventLog(l) PROVE Delivery!Next
  <2>1. /\ logs[l] = "absent" /\ UNCHANGED notes
        /\ \A m \in Logs : logs'[m] = IF m = l THEN "active" ELSE logs[m]
    BY <1>0, <1>2 DEF CreateEventLog, TypeOK
  <2>2. \A k \in Listeners : Copies(l, k) = {} /\ Copies(l, k)' = {}
    BY <2>1 DEF PipelineInv, OfRaisedLogs, Copies
  <2>3. \A k \in Due[l] : Stage[l][k] = "none" /\ StageOf(l, k)' = "owed"
    BY <1>1, <2>1, <2>2 DEF StageOf
  <2>4. \A m \in Logs : m # l => \A k \in Listeners : StageOf(m, k)' = StageOf(m, k)
    BY <2>1 DEF StageOf, Copies
  <2>5. Stage' = [Stage EXCEPT ![l] = [k \in Due[l] |-> "owed"]]
    <3>1. \A m \in Logs : Stage'[m] = [k \in Due[m] |-> StageOf(m, k)']
      BY DEF Stage, Due
    <3>2. \A m \in Logs : Stage[m] = [k \in Due[m] |-> StageOf(m, k)]
      BY DEF Stage
    <3>3. \A m \in Logs : m # l => Stage'[m] = Stage[m]
      BY <2>4, <3>1, <3>2, DueType
    <3>4. Stage'[l] = [k \in Due[l] |-> "owed"]
      BY <2>3, <3>1
    <3>5. Stage' = [m \in Logs |-> Stage'[m]] /\ Stage = [m \in Logs |-> Stage[m]]
      BY DEF Stage
    <3> QED
      BY <3>3, <3>4, <3>5
  <2>6. Delivery!Raise(l)
    BY <2>3, <2>5 DEF Delivery!Raise, Stage
  <2> QED
    BY <2>6 DEF Delivery!Next
<1>3. ASSUME NEW j \in Jobs, CreateNotification(j) PROVE Delivery!Next \/ Stage' = Stage
  <2>1. PICK k \in job[j].left, s \in {"failed", "pending"} :
          /\ Note(job[j].log, k, s) \in NoteSet
          /\ notes' = Append(notes, Note(job[j].log, k, s))
    BY <1>0, <1>3, CreateFacts
  <2>2. PICK l \in Logs : l = job[j].log
    BY <1>0, <1>3 DEF CreateNotification, TypeOK, At
  <2>3. UNCHANGED logs /\ logs[l] # "absent" /\ k \in Due[l] /\ k \in Listeners
    BY <1>0, <1>1, <1>3, <2>2 DEF CreateNotification, Held, At
  <2>4. PICK new \in NoteSet : /\ notes' = Append(notes, new)
                               /\ new.log = l /\ new.listener = k
    BY <2>1, <2>2, <2>3, NewNoteType
  <2>5. /\ Copies(l, k)' # {} /\ (Tried(l, k)' <=> Tried(l, k) \/ new.tried)
        /\ \A m \in Logs, i \in Listeners : m # l \/ i # k => StageOf(m, i)' = StageOf(m, i)
    BY <1>0, <2>3, <2>4, AddedStage
  <2>6. Stage' = [Stage EXCEPT ![l][k] = StageOf(l, k)']
    BY <2>3, <2>5, OneStageMoves
  <2>7. Stage[l][k] = StageOf(l, k)
    BY <1>1, <2>3
  <2>8. StageOf(l, k)' = IF Tried(l, k) \/ new.tried THEN "attempted" ELSE "noted"
    BY <2>3, <2>5 DEF StageOf, Tried
  <2>9. CASE StageOf(l, k)' = StageOf(l, k)
    BY <2>3, <2>5, <2>9, StagesStay
  <2>10. CASE StageOf(l, k)' # StageOf(l, k)
    <3>1. ~Tried(l, k)
      BY <2>3, <2>8, <2>10, StageCases
    <3>2. StageOf(l, k) = IF Copies(l, k) # {} THEN "noted" ELSE "owed"
      BY <2>3, <3>1, StageCases
    <3>3. Delivery!Note(l, k) \/ Delivery!Attempt(l, k) \/ Delivery!GiveUp(l, k)
      BY <2>6, <2>7, <2>8, <2>10, <3>1, <3>2
      DEF Delivery!Note, Delivery!Attempt, Delivery!GiveUp, Stage
    <3> QED
      BY <2>3, <3>3 DEF Delivery!Next
  <2> QED
    BY <2>9, <2>10
<1>4. ASSUME NEW j \in Jobs, ExplainFailure(j) \/ LogAttempt(j) \/ UpdateStatus(j)
      PROVE  Stage' = Stage
  <2>1. PICK n \in DOMAIN notes, new \in NoteSet :
          /\ notes' = [notes EXCEPT ![n] = new]
          /\ Gained(notes[n], new) /\ new.tried = notes[n].tried
    BY <1>0, <1>4, ExplainFacts, LogFacts, StatusFacts
  <2>2. UNCHANGED logs
    BY <1>4 DEF ExplainFailure, LogAttempt, UpdateStatus
  <2> QED
    BY <1>0, <2>1, <2>2, WrittenStage, StagesStay
<1>5. ASSUME NEW j \in Jobs, Send(j) PROVE Delivery!Next \/ Stage' = Stage
  <2>1. PICK n \in DOMAIN notes, new \in NoteSet :
          /\ notes' = [notes EXCEPT ![n] = new]
          /\ Gained(notes[n], new) /\ new.tried
    BY <1>0, <1>5, SendFacts
  <2>2. UNCHANGED logs
    BY <1>5 DEF Send
  <2>3. PICK l \in Logs, k \in Listeners : l = notes[n].log /\ k = notes[n].listener
    BY <1>0, NoteType DEF NoteSet
  <2>4. /\ Copies(l, k)' = Copies(l, k) /\ Tried(l, k)'
        /\ \A m \in Logs, i \in Listeners : m # l \/ i # k => StageOf(m, i)' = StageOf(m, i)
    <3>1. \A m \in Logs, i \in Listeners :
            /\ Copies(m, i)' = Copies(m, i)
            /\ m # notes[n].log \/ i # notes[n].listener => StageOf(m, i)' = StageOf(m, i)
            /\ new.tried /\ m = notes[n].log /\ i = notes[n].listener => Tried(m, i)'
      BY <1>0, <2>1, <2>2, WrittenStage
    <3> QED
      BY <2>1, <2>3, <3>1
  <2>5. n \in Copies(l, k)
    BY <2>3 DEF Copies
  <2>6. StageOf(l, k)' = "attempted" /\ StageOf(l, k) \in {"noted", "attempted"}
    BY <2>4, <2>5, StageCases DEF StageOf, Tried
  <2>7. CASE StageOf(l, k) = "attempted"
    BY <2>4, <2>6, <2>7, StagesStay
  <2>8. CASE StageOf(l, k) = "noted" /\ k \in Due[l]
    <3>1. Stage' = [Stage EXCEPT ![l][k] = "attempted"] /\ Stage[l][k] = "noted"
      BY <1>1, <2>4, <2>6, <2>8, OneStageMoves
    <3>2. Delivery!Attempt(l, k)
      BY <3>1 DEF Delivery!Attempt, Stage
    <3> QED
      BY <2>8, <3>2 DEF Delivery!Next
  <2>9. CASE k \notin Due[l]
    <3>1. \A m \in Logs : [i \in Due[m] |-> StageOf(m, i)'] = [i \in Due[m] |-> StageOf(m, i)]
      BY <2>4, <2>9, DueType
    <3> QED
      BY <3>1 DEF Stage, Due
  <2> QED
    BY <2>6, <2>7, <2>8, <2>9
<1>6. ASSUME NEW j \in Jobs, MarkProcessed(j) PROVE Stage' = Stage
  <2>1. /\ UNCHANGED notes /\ job[j].log \in Logs /\ logs[job[j].log] # "absent"
        /\ \A m \in Logs : logs'[m] = IF m = job[j].log THEN "processed" ELSE logs[m]
    BY <1>0, <1>6 DEF MarkProcessed, Held, TypeOK, At
  <2>2. \A l \in Logs, k \in Listeners : StageOf(l, k)' = StageOf(l, k)
    BY <2>1 DEF StageOf, Copies
  <2> QED
    BY <2>2, StagesStay
<1>7. CASE UNCHANGED <<logs, notes>>
  <2>1. \A l \in Logs, k \in Listeners : StageOf(l, k)' = StageOf(l, k)
    BY <1>7 DEF StageOf, Copies
  <2> QED
    BY <2>1, StagesStay
<1> QED
  BY <1>2, <1>3, <1>4, <1>5, <1>6, <1>7
  DEF Next, Prepare, Deliver, Fails, Tick, FetchPending, PrepareFails, SendFails, Crash, Fault, vars

LEMMA DeliveryInit == Init => Delivery!Init
<1> SUFFICES ASSUME Init PROVE Delivery!Init
  OBVIOUS
<1>1. \A l \in Logs : logs[l] = "absent" /\ \A k \in Listeners : Copies(l, k) = {}
  BY DEF Init, Copies
<1>2. \A l \in Logs : \A k \in Due[l] : StageOf(l, k) = "none"
  BY <1>1, DueType, StageCases
<1> QED
  BY <1>2 DEF Delivery!Init

-----------------------------------------------------------------------------
(* Once, as long as nothing fails and no run overlaps another.             *)

AtHand(j)  == job[j].pc \in {"listeners", "explain"}
Sending(j) == job[j].pc \in {"log", "status"}

(* One run is under way at most; the logs it has and has yet to handle are *)
(* active and distinct.                                                    *)
OneRun ==
  /\ \A i, j \in Jobs : ~At(i, "idle") /\ ~At(j, "idle") => i = j
  /\ \A j \in Jobs : ~At(j, "idle") =>
       /\ AtHand(j) => logs[job[j].log] = "active" /\ job[j].log \notin job[j].todo
       /\ \A l \in job[j].todo : logs[l] = "active"

(* The notifications of an active log were made by the run that has the    *)
(* log at hand, for listeners it has passed; no two are alike.             *)
NotedOnce ==
  /\ \A n \in DOMAIN notes : logs[notes[n].log] = "active" =>
       \E j \in Jobs : /\ AtHand(j) /\ job[j].log = notes[n].log
                       /\ notes[n].listener \notin job[j].left
  /\ \A m, n \in DOMAIN notes :
       notes[m].log = notes[n].log /\ notes[m].listener = notes[n].listener => m = n

(* A batch is pending, and what is pending was not delivered unless a run  *)
(* is about to write that it was.                                          *)
DeliveredOnce ==
  /\ \A j \in Jobs : ~At(j, "idle") =>
       /\ \A n \in job[j].batch : notes[n].status = "pending"
       /\ Sending(j) => job[j].note \notin job[j].batch /\ job[j].result # "pending"
  /\ \A n \in DOMAIN notes :
       /\ notes[n].delivered <= 1
       /\ notes[n].status = "pending" /\ (\A j \in Jobs : Sending(j) => job[j].note # n)
            => notes[n].delivered = 0

Once == OneRun /\ NotedOnce /\ DeliveredOnce

(* The same, of the run x that is under way, or last was, when no other is. *)
Alone(x, ls, ns) ==
  /\ x.pc \in {"listeners", "explain"} => ls[x.log] = "active" /\ x.log \notin x.todo
  /\ \A l \in x.todo : ls[l] = "active"
  /\ \A n \in x.batch : ns[n].status = "pending"
  /\ x.pc \in {"log", "status"} => x.note \notin x.batch /\ x.result # "pending"
  /\ \A n \in DOMAIN ns : ls[ns[n].log] = "active" =>
       /\ x.pc \in {"listeners", "explain"} /\ x.log = ns[n].log
       /\ ns[n].listener \notin x.left
  /\ \A m, n \in DOMAIN ns : ns[m].log = ns[n].log /\ ns[m].listener = ns[n].listener => m = n
  /\ \A n \in DOMAIN ns :
       /\ ns[n].delivered <= 1
       /\ ns[n].status = "pending" /\ (x.pc \in {"log", "status"} => x.note # n)
            => ns[n].delivered = 0


LEMMA AloneBefore ==
  ASSUME Once, NEW j \in Jobs, ~At(j, "idle")
  PROVE  Alone(job[j], logs, notes) /\ \A i \in Jobs : i # j => At(i, "idle")
<1>1. \A i \in Jobs : i # j => At(i, "idle")
  BY DEF Once, OneRun
<1>2. \A i \in Jobs : i # j => ~AtHand(i) /\ ~Sending(i)
  BY <1>1 DEF AtHand, Sending, At
<1>3. /\ \A n \in DOMAIN notes : logs[notes[n].log] = "active" =>
            AtHand(j) /\ job[j].log = notes[n].log /\ notes[n].listener \notin job[j].left
      /\ \A m, n \in DOMAIN notes :
            notes[m].log = notes[n].log /\ notes[m].listener = notes[n].listener => m = n
  BY <1>2 DEF Once, NotedOnce
<1>4. \A n \in DOMAIN notes :
        /\ notes[n].delivered <= 1
        /\ notes[n].status = "pending" /\ (Sending(j) => job[j].note # n) => notes[n].delivered = 0
  BY <1>2 DEF Once, DeliveredOnce
<1>5. /\ AtHand(j) => logs[job[j].log] = "active" /\ job[j].log \notin job[j].todo
      /\ \A l \in job[j].todo : logs[l] = "active"
      /\ \A n \in job[j].batch : notes[n].status = "pending"
      /\ Sending(j) => job[j].note \notin job[j].batch /\ job[j].result # "pending"
  BY DEF Once, OneRun, DeliveredOnce
<1> QED
  BY <1>1, <1>3, <1>4, <1>5 DEF Alone, AtHand, Sending

LEMMA AloneAfter ==
  ASSUME TypeOK, NEW j \in Jobs, \A i \in Jobs : i # j => At(i, "idle"),
         NEW x, job' = [job EXCEPT ![j] = x], Alone(x, logs', notes')
  PROVE  Once'
<1>1. /\ job'[j] = x /\ \A i \in Jobs : i # j => job'[i] = job[i] /\ job'[i].pc = "idle"
  BY DEF TypeOK, At
<1>2. OneRun'
  BY <1>1 DEF OneRun, Alone, At, AtHand
<1>3. NotedOnce'
  BY <1>1 DEF NotedOnce, Alone, AtHand
<1>4. DeliveredOnce'
  <2>1. \A i \in Jobs : ~At(i, "idle")' =>
          /\ \A n \in job'[i].batch : notes'[n].status = "pending"
          /\ Sending(i)' => job'[i].note \notin job'[i].batch /\ job'[i].result # "pending"
    BY <1>1 DEF Alone, At, Sending
  <2>2. \A n \in DOMAIN notes' :
          /\ notes'[n].delivered <= 1
          /\ notes'[n].status = "pending" /\ (\A i \in Jobs : Sending(i)' => job'[i].note # n)
               => notes'[n].delivered = 0
    BY <1>1 DEF Alone, Sending
  <2> QED
    BY <2>1, <2>2 DEF DeliveredOnce
<1> QED
  BY <1>2, <1>3, <1>4 DEF Once

(* A run that takes up the active logs ls, when no log has a copy that it   *)
(* could make again.                                                       *)
LEMMA NextLogAlone ==
  ASSUME NEW ls, NEW x \in NextLog(ls), NEW st, NEW ns,
         \A l \in ls : st[l] = "active",
         \A n \in DOMAIN ns : st[ns[n].log] # "active",
         \A m, n \in DOMAIN ns : ns[m].log = ns[n].log /\ ns[m].listener = ns[n].listener => m = n,
         \A n \in DOMAIN ns : /\ ns[n].delivered <= 1
                              /\ ns[n].status = "pending" => ns[n].delivered = 0
  PROVE  Alone(x, st, ns)
<1>1. /\ x.pc \in {"fetch", "listeners"} /\ x.batch = {} /\ x.todo \subseteq ls
      /\ x.pc = "listeners" => x.log \in ls /\ x.log \notin x.todo
  <2>1. CASE ls = {}
    <3>1. x = [Idle EXCEPT !.pc = "fetch"]
      BY <2>1 DEF NextLog
    <3> QED
      BY <3>1 DEF Idle
  <2>2. CASE ls # {}
    <3>1. PICK l \in ls : x = [Idle EXCEPT !.pc = "listeners", !.todo = ls \ {l}, !.log = l,
                                           !.left = Due[l]]
      BY <2>2 DEF NextLog
    <3>2. x.pc = "listeners" /\ x.batch = {} /\ x.todo = ls \ {l} /\ x.log = l
      BY <3>1 DEF Idle
    <3> QED
      BY <3>2
  <2> QED
    BY <2>1, <2>2
<1> QED
  BY <1>1 DEF Alone

LEMMA RaiseOnce ==
  ASSUME PipelineInv, Once, NEW l \in Logs, CreateEventLog(l)
  PROVE  Once'
<1>1. /\ TypeOK /\ UNCHANGED <<notes, job>> /\ logs[l] = "absent"
      /\ \A m \in Logs : logs'[m] = IF m = l THEN "active" ELSE logs[m]
  BY DEF PipelineInv, TypeOK, CreateEventLog
<1>2. \A n \in DOMAIN notes : notes[n].log \in Logs /\ notes[n].log # l
  BY <1>1, NoteType DEF PipelineInv, OfRaisedLogs, NoteSet
<1>3. \A j \in Jobs : job[j].todo \subseteq Logs /\ (AtHand(j) => job[j].log \in Logs)
  BY <1>1 DEF TypeOK, JobSet, AtHand
<1>4. OneRun'
  <2>1. \A i, j \in Jobs : ~At(i, "idle")' /\ ~At(j, "idle")' => i = j
    BY <1>1 DEF Once, OneRun, At
  <2>2. ASSUME NEW j \in Jobs, ~At(j, "idle")
        PROVE  /\ AtHand(j) => logs'[job[j].log] = "active" /\ job[j].log \notin job[j].todo
               /\ \A m \in job[j].todo : logs'[m] = "active"
    BY <1>1, <1>3, <2>2 DEF Once, OneRun
  <2> QED
    BY <1>1, <2>1, <2>2 DEF OneRun, At, AtHand
<1>5. NotedOnce'
  BY <1>1, <1>2 DEF Once, NotedOnce, AtHand
<1>6. DeliveredOnce'
  BY <1>1 DEF Once, DeliveredOnce, Sending, At
<1> QED
  BY <1>4, <1>5, <1>6 DEF Once

LEMMA TickOnce ==
  ASSUME PipelineInv, Once, NEW j \in Jobs, Tick(j), faults' = faults
  PROVE  Once'
<1> DEFINE active == {l \in Logs : logs[l] = "active"}
<1>1. PICK x \in NextLog(active) : job' = [job EXCEPT ![j] = x]
  BY DEF Tick
<1>2. TypeOK /\ UNCHANGED <<logs, notes>>
  BY DEF PipelineInv, Tick
<1>3. \A i \in Jobs : At(i, "idle")
  <2>1. faults + 1 # faults
    BY <1>2, PipelineAssumption DEF TypeOK
  <2> QED
    BY <2>1 DEF Tick, Overlap
<1>4. \A i \in Jobs : ~AtHand(i) /\ ~Sending(i)
  BY <1>3 DEF At, AtHand, Sending
<1>5. /\ \A n \in DOMAIN notes : logs[notes[n].log] # "active"
      /\ \A m, n \in DOMAIN notes :
           notes[m].log = notes[n].log /\ notes[m].listener = notes[n].listener => m = n
  BY <1>4 DEF Once, NotedOnce
<1>6. \A n \in DOMAIN notes : /\ notes[n].delivered <= 1
                              /\ notes[n].status = "pending" => notes[n].delivered = 0
  BY <1>4 DEF Once, DeliveredOnce
<1>7. \A l \in active : logs[l] = "active"
  OBVIOUS
<1> HIDE DEF active
<1>8. Alone(x, logs, notes)
  BY <1>5, <1>6, <1>7, NextLogAlone
<1> QED
  BY <1>1, <1>2, <1>3, <1>8, AloneAfter

LEMMA CreateOnce ==
  ASSUME PipelineInv, Once, NEW j \in Jobs, CreateNotification(j)
  PROVE  Once'
<1>1. TypeOK /\ UNCHANGED logs /\ job[j].pc = "listeners" /\ ~At(j, "idle")
      /\ job[j].log \in Logs /\ job[j].left \subseteq Listeners
  BY DEF PipelineInv, CreateNotification, At, TypeOK, JobSet
<1>2. PICK k \in job[j].left, s \in {"failed", "pending"}, x \in JobSet :
        /\ notes' = Append(notes, Note(job[j].log, k, s))
        /\ Note(job[j].log, k, s) \in NoteSet
        /\ job' = [job EXCEPT ![j] = x]
        /\ x.pc \in {"listeners", "explain"}
        /\ x.log = job[j].log /\ x.left = job[j].left \ {k} /\ x.todo = job[j].todo
        /\ x.batch = job[j].batch
  BY <1>1, CreateFacts
<1> DEFINE new == Note(job[j].log, k, s)
           n   == Len(notes) + 1
<1>3. new \in NoteSet /\ new.log = job[j].log /\ new.listener = k /\ new.delivered = 0
  BY <1>2 DEF Note
<1>4. notes' = Append(notes, new)
  BY <1>2
<1> HIDE DEF new
<1>5. /\ DOMAIN notes' = DOMAIN notes \cup {n} /\ n \notin DOMAIN notes
      /\ \A m \in DOMAIN notes : notes'[m] = notes[m]
      /\ notes'[n] = new
  BY <1>1, <1>3, <1>4, NoteAdded
<1> HIDE DEF n
<1>6. Alone(job[j], logs, notes) /\ \A i \in Jobs : i # j => At(i, "idle")
  BY <1>1, AloneBefore
<1>7. job[j].batch \subseteq DOMAIN notes
  BY <1>1 DEF TypeOK
<1>8. \A m \in DOMAIN notes : ~(notes[m].log = new.log /\ notes[m].listener = new.listener)
  BY <1>1, <1>3, <1>6 DEF Alone
<1>9. Alone(x, logs', notes')
  <2>1. /\ logs'[x.log] = "active" /\ x.log \notin x.todo
        /\ \A l \in x.todo : logs'[l] = "active"
        /\ \A m \in x.batch : notes'[m].status = "pending"
    BY <1>1, <1>2, <1>5, <1>6, <1>7 DEF Alone
  <2>2. ASSUME NEW m \in DOMAIN notes', logs'[notes'[m].log] = "active"
        PROVE  x.log = notes'[m].log /\ notes'[m].listener \notin x.left
    <3>1. CASE m = n
      BY <1>2, <1>3, <1>5, <3>1
    <3>2. CASE m # n
      BY <1>1, <1>2, <1>5, <1>6, <2>2, <3>2 DEF Alone
    <3> QED
      BY <3>1, <3>2
  <2>3. \A m, i \in DOMAIN notes' :
          notes'[m].log = notes'[i].log /\ notes'[m].listener = notes'[i].listener => m = i
    <3>1. \A m, i \in DOMAIN notes :
            notes'[m].log = notes'[i].log /\ notes'[m].listener = notes'[i].listener => m = i
      BY <1>5, <1>6 DEF Alone
    <3> QED
      BY <1>5, <1>8, <3>1
  <2>4. \A m \in DOMAIN notes' :
          /\ notes'[m].delivered <= 1
          /\ notes'[m].status = "pending" => notes'[m].delivered = 0
    BY <1>1, <1>3, <1>5, <1>6 DEF Alone
  <2> QED
    BY <1>2, <2>1, <2>2, <2>3, <2>4 DEF Alone
<1> QED
  BY <1>1, <1>2, <1>6, <1>9, AloneAfter

(* A write to one notification that is of no log and no listener but its   *)
(* own.                                                                    *)
LEMMA WriteOnce ==
  ASSUME TypeOK, NEW j \in Jobs, Alone(job[j], logs, notes),
         \A i \in Jobs : i # j => At(i, "idle"),
         NEW n \in DOMAIN notes, NEW new \in NoteSet, NEW x,
         notes' = [notes EXCEPT ![n] = new], Gained(notes[n], new), UNCHANGED logs,
         job' = [job EXCEPT ![j] = x],
         x.todo = job[j].todo \/ x.todo = {},
         x.batch \subseteq job[j].batch, n \in x.batch => new.status = "pending",
         AtHand(j) <=> x.pc \in {"listeners", "explain"},
         AtHand(j) => x.log = job[j].log /\ x.left = job[j].left,
         x.pc \in {"log", "status"} => x.note \notin x.batch /\ x.result # "pending",
         Sending(j) => job[j].note = n,
         new.delivered <= 1,
         new.status = "pending" /\ (x.pc \in {"log", "status"} => x.note # n) => new.delivered = 0,
         x.pc \in {"log", "status"} => x.note = n
  PROVE  Once'
<1>1. /\ DOMAIN notes' = DOMAIN notes
      /\ \A m \in DOMAIN notes : notes'[m] = IF m = n THEN new ELSE notes[m]
  BY NoteWritten
<1>2. new.log = notes[n].log /\ new.listener = notes[n].listener
  BY DEF Gained
<1>3. \A m \in DOMAIN notes : notes'[m].log = notes[m].log /\ notes'[m].listener = notes[m].listener
  BY <1>1, <1>2
<1>4. job[j].batch \subseteq DOMAIN notes
  BY DEF TypeOK
<1>5. Alone(x, logs', notes')
  <2>1. x.pc \in {"listeners", "explain"} => logs'[x.log] = "active" /\ x.log \notin x.todo
    BY DEF Alone, AtHand
  <2>2. \A l \in x.todo : logs'[l] = "active"
    BY DEF Alone
  <2>3. \A m \in x.batch : notes'[m].status = "pending"
    BY <1>1, <1>4 DEF Alone
  <2>4. \A m \in DOMAIN notes' : logs'[notes'[m].log] = "active" =>
          /\ x.pc \in {"listeners", "explain"} /\ x.log = notes'[m].log
          /\ notes'[m].listener \notin x.left
    BY <1>1, <1>3 DEF Alone, AtHand
  <2>5. \A m, i \in DOMAIN notes' :
          notes'[m].log = notes'[i].log /\ notes'[m].listener = notes'[i].listener => m = i
    BY <1>1, <1>3 DEF Alone
  <2>6. \A m \in DOMAIN notes' :
          /\ notes'[m].delivered <= 1
          /\ notes'[m].status = "pending" /\ (x.pc \in {"log", "status"} => x.note # m)
               => notes'[m].delivered = 0
    <3> SUFFICES ASSUME NEW m \in DOMAIN notes
                 PROVE  /\ notes'[m].delivered <= 1
                        /\ notes'[m].status = "pending" /\ (x.pc \in {"log", "status"} => x.note # m)
                             => notes'[m].delivered = 0
      BY <1>1
    <3>1. CASE m = n
      BY <1>1, <3>1
    <3>2. CASE m # n
      BY <1>1, <3>2 DEF Alone, Sending
    <3> QED
      BY <3>1, <3>2
  <2> QED
    BY <2>1, <2>2, <2>3, <2>4, <2>5, <2>6 DEF Alone
<1> QED
  BY <1>5, AloneAfter

LEMMA GoOnFacts ==
  \A ns : /\ GoOn(ns).batch = ns /\ GoOn(ns).pc \in {"idle", "send"}
          /\ GoOn(ns).todo = {}
BY DEF GoOn, Idle

LEMMA ExplainOnce ==
  ASSUME PipelineInv, Once, NEW j \in Jobs, ExplainFailure(j)
  PROVE  Once'
<1>1. TypeOK /\ UNCHANGED logs /\ job[j].pc = "explain" /\ ~At(j, "idle")
  BY DEF PipelineInv, ExplainFailure, At
<1>2. Alone(job[j], logs, notes) /\ \A i \in Jobs : i # j => At(i, "idle")
  BY <1>1, AloneBefore
<1>3. PICK n \in DOMAIN notes, new \in NoteSet, x \in JobSet :
        /\ notes' = [notes EXCEPT ![n] = new]
        /\ Gained(notes[n], new) /\ new.status = notes[n].status
        /\ new.delivered = notes[n].delivered
        /\ job' = [job EXCEPT ![j] = x]
        /\ x.pc = "listeners"
        /\ x.log = job[j].log /\ x.left = job[j].left /\ x.todo = job[j].todo
        /\ x.batch = job[j].batch
  BY <1>1, ExplainFacts
<1>4. n \in x.batch => new.status = "pending"
  BY <1>2, <1>3 DEF Alone
<1>5. new.delivered <= 1 /\ (new.status = "pending" => new.delivered = 0)
  BY <1>1, <1>2, <1>3 DEF Alone
<1> QED
  BY <1>1, <1>2, <1>3, <1>4, <1>5, WriteOnce DEF AtHand, Sending

LEMMA SendOnce ==
  ASSUME PipelineInv, Once, NEW j \in Jobs, Send(j)
  PROVE  Once'
<1>1. TypeOK /\ UNCHANGED logs /\ job[j].pc = "send" /\ ~At(j, "idle")
  BY DEF PipelineInv, Send, At
<1>2. Alone(job[j], logs, notes) /\ \A i \in Jobs : i # j => At(i, "idle")
  BY <1>1, AloneBefore
<1>3. PICK n \in DOMAIN notes, new \in NoteSet, x \in JobSet :
        /\ notes' = [notes EXCEPT ![n] = new]
        /\ Gained(notes[n], new)
        /\ job' = [job EXCEPT ![j] = x]
        /\ x.pc = "log" /\ x.note = n
        /\ x.todo = job[j].todo /\ x.batch = job[j].batch \ {n} /\ n \in job[j].batch
        /\ x.result \in {"sent", "failed"}
        /\ new.delivered <= notes[n].delivered + 1
  BY <1>1, SendFacts
<1>4. notes[n].delivered = 0
  BY <1>1, <1>2, <1>3 DEF Alone
<1>5. new.delivered <= 1
  BY <1>3, <1>4
<1> QED
  BY <1>1, <1>2, <1>3, <1>5, WriteOnce DEF AtHand, Sending

LEMMA LogOnce ==
  ASSUME PipelineInv, Once, NEW j \in Jobs, LogAttempt(j)
  PROVE  Once'
<1>1. TypeOK /\ UNCHANGED logs /\ job[j].pc = "log" /\ ~At(j, "idle")
  BY DEF PipelineInv, LogAttempt, At
<1>2. Alone(job[j], logs, notes) /\ \A i \in Jobs : i # j => At(i, "idle")
  BY <1>1, AloneBefore
<1>3. PICK n \in DOMAIN notes, new \in NoteSet, x \in JobSet :
        /\ notes' = [notes EXCEPT ![n] = new] /\ n = job[j].note
        /\ Gained(notes[n], new) /\ new.delivered = notes[n].delivered
        /\ job' = [job EXCEPT ![j] = x]
        /\ x.pc = "status" /\ x.note = n /\ x.result = job[j].result
        /\ x.todo = job[j].todo /\ x.batch = job[j].batch
  BY <1>1, LogFacts
<1>4. n \notin x.batch /\ x.result # "pending" /\ new.delivered <= 1
  BY <1>1, <1>2, <1>3 DEF Alone
<1> QED
  BY <1>1, <1>2, <1>3, <1>4, WriteOnce DEF AtHand, Sending

LEMMA StatusOnce ==
  ASSUME PipelineInv, Once, NEW j \in Jobs, UpdateStatus(j)
  PROVE  Once'
<1>1. TypeOK /\ UNCHANGED logs /\ job[j].pc = "status" /\ ~At(j, "idle")
  BY DEF PipelineInv, UpdateStatus, At
<1>2. Alone(job[j], logs, notes) /\ \A i \in Jobs : i # j => At(i, "idle")
  BY <1>1, AloneBefore
<1> DEFINE x == GoOn(job[j].batch)
<1>3. PICK n \in DOMAIN notes, new \in NoteSet :
        /\ notes' = [notes EXCEPT ![n] = new] /\ n = job[j].note
        /\ Gained(notes[n], new) /\ new.status = job[j].result
        /\ new.delivered = notes[n].delivered
        /\ job' = [job EXCEPT ![j] = x]
  BY <1>1, StatusFacts
<1>4. x.batch = job[j].batch /\ x.pc \in {"idle", "send"} /\ x.todo = {}
  BY GoOnFacts
<1> HIDE DEF x
<1>5. n \notin x.batch /\ new.status # "pending" /\ new.delivered <= 1
  BY <1>1, <1>2, <1>3, <1>4 DEF Alone
<1> QED
  BY <1>1, <1>2, <1>3, <1>4, <1>5, WriteOnce DEF AtHand, Sending

LEMMA MarkOnce ==
  ASSUME PipelineInv, Once, NEW j \in Jobs, MarkProcessed(j)
  PROVE  Once'
<1>1. /\ TypeOK /\ UNCHANGED notes /\ job[j].pc = "listeners" /\ ~At(j, "idle")
      /\ job[j].todo \subseteq Logs /\ job[j].log \in Logs
  BY DEF PipelineInv, MarkProcessed, At, TypeOK, JobSet
<1>2. Alone(job[j], logs, notes) /\ \A i \in Jobs : i # j => At(i, "idle")
  BY <1>1, AloneBefore
<1>3. PICK x \in NextLog(job[j].todo) : job' = [job EXCEPT ![j] = x]
  BY DEF MarkProcessed
<1>4. \A l \in Logs : logs'[l] = IF l = job[j].log THEN "processed" ELSE logs[l]
  BY <1>1 DEF MarkProcessed, TypeOK
<1>5. \A l \in job[j].todo : logs'[l] = "active"
  BY <1>1, <1>2, <1>4 DEF Alone
<1>6. \A n \in DOMAIN notes : notes[n].log \in Logs
  BY <1>1, NoteType DEF NoteSet
<1>7. \A n \in DOMAIN notes' : logs'[notes'[n].log] # "active"
  BY <1>1, <1>2, <1>4, <1>6 DEF Alone
<1>8. \A m, n \in DOMAIN notes' :
        notes'[m].log = notes'[n].log /\ notes'[m].listener = notes'[n].listener => m = n
  BY <1>1, <1>2 DEF Alone
<1>9. \A n \in DOMAIN notes' : /\ notes'[n].delivered <= 1
                               /\ notes'[n].status = "pending" => notes'[n].delivered = 0
  BY <1>1, <1>2 DEF Alone
<1>10. Alone(x, logs', notes')
  BY <1>3, <1>5, <1>7, <1>8, <1>9, NextLogAlone
<1> QED
  BY <1>1, <1>2, <1>3, <1>10, AloneAfter

LEMMA FetchOnce ==
  ASSUME PipelineInv, Once, NEW j \in Jobs, FetchPending(j)
  PROVE  Once'
<1>1. TypeOK /\ UNCHANGED <<logs, notes>> /\ job[j].pc = "fetch" /\ ~At(j, "idle")
  BY DEF PipelineInv, FetchPending, At
<1>2. Alone(job[j], logs, notes) /\ \A i \in Jobs : i # j => At(i, "idle")
  BY <1>1, AloneBefore
<1> DEFINE x == GoOn(Oldest(Pending))
<1>3. job' = [job EXCEPT ![j] = x]
  BY DEF FetchPending
<1>4. x.batch \subseteq Pending /\ x.pc \in {"idle", "send"} /\ x.todo = {}
  BY GoOnFacts DEF Oldest
<1> HIDE DEF x
<1>5. Alone(x, logs, notes)
  BY <1>1, <1>2, <1>4 DEF Alone, Pending
<1> QED
  BY <1>1, <1>2, <1>3, <1>5, AloneAfter

(* A fault is counted, and what overlaps another run is a fault.           *)
OnceInv == faults = 0 => Once

LEMMA OnceStep == PipelineInv /\ OnceInv /\ [Next]_vars => OnceInv'
<1> SUFFICES ASSUME PipelineInv, OnceInv, [Next]_vars, faults' = 0
             PROVE  Once'
  BY DEF OnceInv
<1>1. TypeOK /\ faults \in Nat
  BY PipelineAssumption DEF PipelineInv, TypeOK
<1>2. ~Fault
  BY <1>1 DEF Fault
<1>3. \A j \in Jobs : Tick(j) => faults' = faults
  BY <1>1 DEF Tick, Overlap
<1>4. faults' = faults /\ Once
  <2>1. faults' = faults
    BY <1>2, <1>3 DEF Next, Prepare, Deliver, Fails, PrepareFails, SendFails, Crash, vars,
                      CreateEventLog, CreateNotification, ExplainFailure, MarkProcessed,
                      FetchPending, Send, LogAttempt, UpdateStatus
  <2> QED
    BY <2>1 DEF OnceInv
<1>5. CASE \E l \in Logs : CreateEventLog(l)
  BY <1>4, <1>5, RaiseOnce
<1>6. ASSUME NEW j \in Jobs, Tick(j) \/ Prepare(j) \/ Deliver(j)
      PROVE  Once'
  BY <1>4, <1>6, TickOnce, CreateOnce, ExplainOnce, MarkOnce, FetchOnce, SendOnce, LogOnce,
     StatusOnce DEF Prepare, Deliver
<1>7. \A j \in Jobs : ~Fails(j)
  BY <1>2 DEF Fails, PrepareFails, SendFails
<1>8. ~Crash
  BY <1>2 DEF Crash
<1>9. CASE UNCHANGED vars
  <2>1. UNCHANGED <<logs, notes, job>>
    BY <1>9 DEF vars
  <2> QED
    BY <1>4, <2>1 DEF Once, OneRun, NotedOnce, DeliveredOnce, At, AtHand, Sending
<1> QED
  BY <1>5, <1>6, <1>7, <1>8, <1>9 DEF Next

LEMMA OnceInit == Init => OnceInv
<1> SUFFICES ASSUME Init PROVE Once
  BY DEF OnceInv
<1>1. notes = <<>> /\ \A j \in Jobs : job[j].pc = "idle"
  BY DEF Init, Idle
<1>2. DOMAIN notes = {}
  BY <1>1
<1> QED
  BY <1>1, <1>2 DEF Once, OneRun, NotedOnce, DeliveredOnce, At, AtHand, Sending

LEMMA AtMostOne ==
  ASSUME NEW S, \A m, n \in S : m = n
  PROVE  Cardinality(S) <= 1
<1>1. CASE S = {}
  BY <1>1, FS_EmptySet
<1>2. ASSUME NEW n \in S PROVE Cardinality(S) <= 1
  <2>1. S = {n}
    BY <1>2
  <2>2. Cardinality({n}) = 1
    BY FS_Singleton
  <2> QED
    BY <2>1, <2>2
<1> QED
  BY <1>1, <1>2

-----------------------------------------------------------------------------
(* The theorems.                                                           *)

(* Every run of the job holds well-formed local variables, which speak of  *)
(* logs and notifications that exist.                                      *)
THEOREM TypeCorrect == Spec => []TypeOK
<1>1. PipelineInv => TypeOK
  BY DEF PipelineInv
<1> QED
  BY <1>1, PipelineInvariant, PTL

(* A log the job will not come back to has all its notifications, whatever *)
(* runs overlapped and whatever failed.                                    *)
THEOREM ProcessedLogsAreNoted == Spec => []ProcessedMeansNoted
<1>1. PipelineInv => ProcessedMeansNoted
  BY DEF PipelineInv
<1> QED
  BY <1>1, PipelineInvariant, PTL

(* What reads 'sent' was delivered, and its log row says so.               *)
THEOREM SentNotesAreAudited == Spec => []SentIsAudited
<1>1. PipelineInv => SentIsAudited
  BY DEF PipelineInv
<1> QED
  BY <1>1, PipelineInvariant, PTL

(* As long as runs do not overlap and no await fails, a listener has one   *)
(* notification per log, and its channel takes it once at most.            *)
THEOREM OnceWithoutFaults == Spec => []OnceIfNoFault
<1>1. OnceInv => OnceIfNoFault
  <2> SUFFICES ASSUME Once PROVE OnceIfNoFault
    BY DEF OnceInv, OnceIfNoFault
  <2>1. \A l \in Logs, k \in Listeners : Cardinality(Copies(l, k)) <= 1
    <3> SUFFICES ASSUME NEW l \in Logs, NEW k \in Listeners
                 PROVE  Cardinality(Copies(l, k)) <= 1
      OBVIOUS
    <3>1. \A m, n \in Copies(l, k) : m = n
      BY DEF Once, NotedOnce, Copies
    <3> QED
      BY <3>1, AtMostOne
  <2>2. \A n \in DOMAIN notes : notes[n].delivered <= 1
    BY DEF Once, DeliveredOnce
  <2> QED
    BY <2>1, <2>2 DEF OnceIfNoFault
<1>2. Spec => []OnceInv
  BY OnceInit, OnceStep, PipelineInvariant, PTL DEF Spec
<1> QED
  BY <1>1, <1>2, PTL

(* The pipeline implements the contract of at-least-once delivery: no step *)
(* of it takes an obligation back or forgets one.                          *)
THEOREM DeliversSafely == Spec => Delivery!Safe
<1>1. PipelineInv /\ [Next]_vars => [Delivery!Next]_Stage
  BY DeliveryStep
<1> QED
  BY <1>1, DeliveryInit, PipelineInvariant, PTL DEF Spec, Delivery!Safe, Stage
============================================================================
