--------------------------- MODULE RunCommandProofs ---------------------------
(* Proofs about RunCommand, for any number of invocations, attempts and outputs. *)
EXTENDS RunCommand, TLAPS

\* The bytes a result refers to are in the directory it names.
Backed(r) == r.output = "ref" => <<r.store, r.body>> \in payloads

\* ReferencesResolve, and the same of what a command still has in its memory.
RefInv ==
  /\ \A c \in Commands, a \in Attempts : Finished(work[c][a]) => Backed(work[c][a])
  /\ \A a \in Attempts : Finished(rows[a]) => Backed(rows[a])
  /\ \A c \in Commands : reports[c] # None => \A a \in Attempts : Backed(reports[c][a])

AllFinished(c) == \A a \in Attempts : Finished(work[c][a])

\* What is so in each phase of a command, and who holds the checkpoint.
PhaseInv ==
  /\ owner # None => pc[owner] \in {"preparing", "running"} /\ options[owner].checkpoint
  /\ runId # None => options[runId].checkpoint
  /\ \A c \in Commands :
       /\ pc[c] = "opening" => options[c].checkpoint
       /\ pc[c] \in {"preparing", "running", "reporting", "printing"} /\ options[c].checkpoint
            => runId # None
       /\ pc[c] \in {"preparing", "running"} /\ options[c].checkpoint => owner = c
       /\ pc[c] \in {"reporting", "printing"} => AllFinished(c)
       /\ pc[c] \in {"new", "opening", "preparing"} => Unstarted(c)
       /\ pc[c] # "ended" => exit[c] = None /\ announced[c] = None

\* The checkpoint has what the command that holds it has, also once it let it go.
TableInv ==
  \A c \in Commands : options[c].checkpoint =>
    /\ pc[c] = "running" =>
         \A a \in Attempts : work[c][a] # None => rows[a] = work[c][a]
    /\ pc[c] = "reporting" => rows = work[c]

\* The phases of a command whose report may be written.
Written == {"printing", "ended", "killed"}

\* A report under the checkpoint's run id is the checkpoint: every row is a result by
\* then, and results stay.
ReportInv ==
  /\ \A c \in Commands : reports[c] # None => c = runId \/ pc[c] \in Written
  /\ runId # None /\ reports[runId] # None => reports[runId] = rows

\* The report of a command holds what the command has.
Told(c) ==
  /\ AllFinished(c)
  /\ options[c].checkpoint => runId # None
  /\ reports[IdOf(c)] = work[c]

\* What a command tells is about its results, and its report has them.
TellInv ==
  \A c \in Commands :
    /\ pc[c] = "printing" => Told(c)
    /\ announced[c] # None =>
         /\ Told(c)
         /\ exit[c] = IF Clean(c) THEN 0 ELSE 5
         /\ announced[c] = IF Lost(c) # {} THEN "lost" ELSE "whole"
    /\ exit[c] = 0 => announced[c] # None

Table == [Attempts -> Results \union {None, Running}]

\* Results, the absent one and the running one are told apart.
LEMMA ResultFacts ==
  /\ \A r \in Results : Finished(r)
  /\ \A r \in Results \union {None, Running} : Finished(r) => r \in Results
  /\ None # Running
  /\ \A t \in [Attempts -> Results] : t \in Table
  BY RunCommandAssumption DEF Finished, Table

\* The result of an attempt has the parts it was made of.
LEMMA ResultIn ==
  ASSUME NEW c \in Commands, NEW where \in {"inline", "ref", "lost"},
         NEW b \in Bodies \union {None}, NEW good \in BOOLEAN
  PROVE  /\ Result(c, where, b, good) \in Results
         /\ Result(c, where, b, good).output = where
         /\ Result(c, where, b, good).store = c
         /\ Result(c, where, b, good).body = b
  BY DEF Result, Results

(***************************************************************************)
(* Types.                                                                  *)
(***************************************************************************)
\* The initial states have the types.
LEMMA InitType == Init => TypeOK
  BY DEF Init, TypeOK

\* A failure has an exit code of its own, and never that of success.
LEMMA CodesOfFailure ==
  ASSUME NEW c \in Commands
  PROVE  FailureCodes(c) \subseteq ExitCodes /\ 0 \notin FailureCodes(c)
  BY DEF FailureCodes, ExitCodes

\* What a command that stops leaves of an output is a payload, and a sidecar only with it.
LEMMA LeavesTyped ==
  ASSUME TypeOK, NEW c \in Commands, LeftBehind(c)
  PROVE  /\ payloads \subseteq payloads' /\ payloads' \subseteq Commands \X Bodies
         /\ sidecars' \subseteq payloads'
  BY DEF TypeOK, LeftBehind, PutPayload, PutSidecar, disk

\* What is saved of an attempt is a result of the command, and what it refers to is
\* stored by then.
Saved(c, a) ==
  \E r \in Results :
    /\ Save(c, a, r)
    /\ Backed(r)'
    /\ payloads \subseteq payloads' /\ payloads' \subseteq Commands \X Bodies
    /\ sidecars' \subseteq payloads'
    /\ UNCHANGED <<pc, options, owner, runId, reports, told>>

\* Wherever the output goes, an attempt ends by saving a result.
LEMMA SavesResult ==
  ASSUME TypeOK, NEW c \in Commands, NEW a \in Attempts,
         KeepInline(c, a) \/ SpillOutput(c, a) \/ SpillFails(c, a)
  PROVE  pc[c] = "running" /\ work[c][a] = Running /\ Saved(c, a)
<1>1. CASE KeepInline(c, a)
  <2>1. PICK good \in BOOLEAN : Save(c, a, Result(c, "inline", None, good))
    BY <1>1 DEF KeepInline
  <2>2. Result(c, "inline", None, good) \in Results
        /\ Result(c, "inline", None, good).output = "inline"
    BY ResultIn
  <2> QED
    BY <1>1, <2>1, <2>2 DEF KeepInline, Saved, Backed, TypeOK, disk, told
<1>2. CASE SpillOutput(c, a)
  <2>1. PICK b \in Bodies, good \in BOOLEAN : Put(c, b) /\ Save(c, a, Result(c, "ref", b, good))
    BY <1>2 DEF SpillOutput
  <2> DEFINE r == Result(c, "ref", b, good)
  <2>2. r \in Results /\ r.store = c /\ r.body = b
    BY ResultIn
  <2> HIDE DEF r
  <2>3. /\ <<c, b>> \in payloads'
        /\ payloads \subseteq payloads' /\ payloads' \subseteq Commands \X Bodies
        /\ sidecars' \subseteq payloads'
    BY <2>1 DEF Put, Stored, PutPayload, PutSidecar, disk, TypeOK
  <2>4. Save(c, a, r)
    BY <2>1 DEF r
  <2> QED
    BY <1>2, <2>2, <2>3, <2>4 DEF SpillOutput, Saved, Backed, told
<1>3. CASE SpillFails(c, a)
  <2>1. PICK b \in Bodies, good \in BOOLEAN :
          /\ UNCHANGED payloads \/ PutPayload(c, b)
          /\ Save(c, a, LostOutput(c, b, good))
    BY <1>3 DEF SpillFails
  <2>2. LostOutput(c, b, good) \in Results /\ LostOutput(c, b, good).output = "lost"
    BY ResultIn DEF LostOutput
  <2>3. /\ payloads \subseteq payloads' /\ payloads' \subseteq Commands \X Bodies
        /\ sidecars' \subseteq payloads'
    BY <1>3, <2>1 DEF PutPayload, TypeOK, SpillFails
  <2> QED
    BY <1>3, <2>1, <2>2, <2>3 DEF SpillFails, Saved, Backed, told
<1> QED
  BY <1>1, <1>2, <1>3

\* What is saved is a result, put where the work and, for the owner, the rows are.
LEMMA SavedType ==
  ASSUME TypeOK, NEW c \in Commands, NEW a \in Attempts, Saved(c, a)
  PROVE  TypeOK'
<1>1. PICK r \in Results : Save(c, a, r)
  BY DEF Saved
<1>2. rows' \in Table /\ work' \in [Commands -> Table]
  BY <1>1 DEF Save, TypeOK, Table
<1>3. payloads' \subseteq Commands \X Bodies /\ sidecars' \subseteq payloads'
      /\ UNCHANGED <<pc, options, owner, runId, reports, told>>
  BY DEF Saved
<1> QED
  BY <1>2, <1>3 DEF TypeOK, told, Table

\* A step of a command keeps the types.
LEMMA StepType ==
  ASSUME TypeOK, PhaseInv, NEW c \in Commands, Step(c)
  PROVE  TypeOK'
<1> USE DEF TypeOK, disk, checkpoint, told
<1>1. CASE Refuse(c)
  BY <1>1 DEF Refuse, Exit, RefusalCode, ExitCodes
<1>2. CASE Open(c)
  BY <1>2 DEF Open, Underway
<1>3. CASE Enter(c)
  BY <1>3 DEF Enter, Underway
<1>4. CASE Begin(c)
  BY <1>4 DEF Begin, Underway
<1>5. CASE Decline(c)
  BY <1>5 DEF Decline, Exit, ExitCodes, Unlocked
<1>6. ASSUME NEW a \in Attempts, TakeOver(c, a) PROVE TypeOK'
  BY <1>6 DEF TakeOver
<1>7. ASSUME NEW a \in Attempts, Start(c, a) PROVE TypeOK'
  BY <1>7 DEF Start
<1>8. ASSUME NEW a \in Attempts, KeepInline(c, a) \/ SpillOutput(c, a) \/ SpillFails(c, a)
      PROVE  TypeOK'
  BY <1>8, SavesResult, SavedType
<1>9. CASE Return(c)
  BY <1>9 DEF Return, Unlocked, Underway
<1>10. CASE Report(c)
  <2>1. work[c] \in [Attempts -> Results]
    BY <1>10, ResultFacts DEF Report, PhaseInv, AllFinished
  <2>2. IdOf(c) \in Commands
    BY <1>10 DEF Report, PhaseInv, IdOf
  <2>3. reports' \in [Commands -> {None} \union [Attempts -> Results]]
    BY <1>10, <2>1, <2>2 DEF Report
  <2> QED
    BY <1>10, <2>3 DEF Report, Underway
<1>11. CASE Announce(c)
  BY <1>11 DEF Announce, Exit, ExitCodes
<1>12. CASE Fails(c)
  <2>1. PICK code \in ExitCodes : Exit(c, code)
    BY <1>12, CodesOfFailure DEF Fails
  <2> QED
    BY <1>12, <2>1, LeavesTyped DEF Fails, Exit, Unlocked
<1>13. CASE Kill(c)
  BY <1>13, LeavesTyped DEF Kill, Unlocked
<1> QED
  BY <1>1, <1>2, <1>3, <1>4, <1>5, <1>6, <1>7, <1>8, <1>9, <1>10, <1>11, <1>12, <1>13 DEF Step

(***************************************************************************)
(* The phases.                                                             *)
(***************************************************************************)
\* No command has begun.
LEMMA InitPhase == Init => PhaseInv
  BY DEF Init, PhaseInv, TypeOK, Unstarted

\* A step of a command keeps what its phase says of it.
LEMMA StepPhase ==
  ASSUME TypeOK, PhaseInv, NEW c \in Commands, Step(c)
  PROVE  PhaseInv'
<1> USE RunCommandAssumption
    DEF TypeOK, PhaseInv, disk, checkpoint, told, AllFinished, Unstarted
<1>1. CASE Refuse(c)
  BY <1>1 DEF Refuse, Exit
<1>2. CASE Open(c)
  BY <1>2 DEF Open
<1>3. CASE Enter(c)
  BY <1>3 DEF Enter, Admitted
<1>4. CASE Begin(c)
  BY <1>4 DEF Begin, Mine
<1>5. CASE Decline(c)
  BY <1>5 DEF Decline, Exit, Unlocked, Mine
<1>6. ASSUME NEW a \in Attempts, TakeOver(c, a) PROVE PhaseInv'
  BY <1>6 DEF TakeOver, Kept
<1>7. ASSUME NEW a \in Attempts, Start(c, a) PROVE PhaseInv'
  BY <1>7 DEF Start
<1>8. ASSUME NEW a \in Attempts, KeepInline(c, a) \/ SpillOutput(c, a) \/ SpillFails(c, a)
      PROVE  PhaseInv'
  <2>1. pc[c] = "running" /\ Saved(c, a)
    BY <1>8, SavesResult
  <2>2. UNCHANGED <<pc, options, owner, runId, exit, announced>>
        /\ \A d \in Commands : d # c => work'[d] = work[d]
    BY <2>1 DEF Saved, Save
  <2> QED
    BY <2>1, <2>2
<1>9. CASE Return(c)
  BY <1>9 DEF Return, Unlocked, Mine
<1>10. CASE Report(c)
  BY <1>10 DEF Report
<1>11. CASE Announce(c)
  BY <1>11 DEF Announce, Exit
<1>12. CASE Fails(c)
  BY <1>12 DEF Fails, Exit, Unlocked, Mine
<1>13. CASE Kill(c)
  BY <1>13 DEF Kill, Unlocked, Mine, Underway
<1> QED
  BY <1>1, <1>2, <1>3, <1>4, <1>5, <1>6, <1>7, <1>8, <1>9, <1>10, <1>11, <1>12, <1>13 DEF Step

(***************************************************************************)
(* References.                                                             *)
(***************************************************************************)
\* No result refers to anything yet.
LEMMA InitRef == Init => RefInv
  BY DEF Init, RefInv, Finished

\* A step that stores no result and takes no byte away.
LEMMA KeepsRef ==
  ASSUME TypeOK, RefInv, payloads \subseteq payloads',
         \A c \in Commands, a \in Attempts :
           Finished(work'[c][a]) => \/ work'[c][a] = work[c][a]
                                    \/ Finished(rows[a]) /\ work'[c][a] = rows[a],
         \A a \in Attempts : Finished(rows'[a]) => rows'[a] = rows[a],
         \A c \in Commands : \/ reports'[c] = reports[c]
                             \/ \E d \in Commands : AllFinished(d) /\ reports'[c] = work[d]
  PROVE  RefInv'
  BY DEF RefInv, Backed, AllFinished

\* A step of a command keeps every reference backed by its bytes.
LEMMA StepRef ==
  ASSUME TypeOK, PhaseInv, RefInv, NEW c \in Commands, Step(c)
  PROVE  RefInv'
<1> USE DEF TypeOK, disk, checkpoint, told
<1>1. CASE Refuse(c) \/ Open(c) \/ Enter(c) \/ Decline(c) \/ Return(c) \/ Announce(c)
  BY <1>1, KeepsRef DEF Refuse, Open, Enter, Decline, Return, Announce
<1>2. CASE Begin(c)
  BY <1>2, KeepsRef DEF Begin, Finished
<1>3. ASSUME NEW a \in Attempts, TakeOver(c, a) PROVE RefInv'
  BY <1>3, KeepsRef DEF TakeOver, Kept
<1>4. ASSUME NEW a \in Attempts, Start(c, a) PROVE RefInv'
  BY <1>4, KeepsRef DEF Start, Finished
<1>5. ASSUME NEW a \in Attempts, KeepInline(c, a) \/ SpillOutput(c, a) \/ SpillFails(c, a)
      PROVE  RefInv'
  <2>1. PICK r \in Results : Save(c, a, r) /\ Backed(r)' /\ payloads \subseteq payloads'
                             /\ UNCHANGED reports
    BY <1>5, SavesResult DEF Saved
  <2>2. \A d \in Commands, x \in Attempts : work'[d][x] = work[d][x] \/ work'[d][x] = r
    BY <2>1 DEF Save
  <2>3. \A x \in Attempts : rows'[x] = rows[x] \/ rows'[x] = r
    BY <2>1 DEF Save
  <2> QED
    BY <2>1, <2>2, <2>3 DEF RefInv, Backed
<1>6. CASE Report(c)
  <2>1. \A d \in Commands : reports'[d] = reports[d] \/ reports'[d] = work[c]
    BY <1>6 DEF Report
  <2>2. AllFinished(c)
    BY <1>6 DEF Report, PhaseInv
  <2> QED
    BY <1>6, <2>1, <2>2, KeepsRef DEF Report
<1>7. CASE Fails(c) \/ Kill(c)
  <2>1. payloads \subseteq payloads' /\ UNCHANGED <<rows, work, reports>>
    BY <1>7, LeavesTyped DEF Fails, Kill
  <2> QED
    BY <2>1, KeepsRef
<1> QED
  BY <1>1, <1>2, <1>3, <1>4, <1>5, <1>6, <1>7 DEF Step

(***************************************************************************)
(* The checkpoint's table and the reports.                                 *)
(***************************************************************************)
\* There is no report and no row to agree with.
LEMMA InitTable == Init => TableInv /\ ReportInv /\ TellInv
  BY RunCommandAssumption DEF Init, TableInv, ReportInv, TellInv, ExitCodes

\* A saved result stays what it is.
LEMMA ResultsStay ==
  ASSUME TypeOK, PhaseInv, TableInv, NEW c \in Commands, Step(c),
         NEW x \in Attempts, Finished(rows[x])
  PROVE  rows'[x] = rows[x]
<1> USE DEF TypeOK, disk, checkpoint, told
<1>1. ASSUME NEW a \in Attempts, KeepInline(c, a) \/ SpillOutput(c, a) \/ SpillFails(c, a)
      PROVE  rows'[x] = rows[x]
  <2>1. PICK r \in Results : Save(c, a, r)
    BY <1>1, SavesResult DEF Saved
  <2>2. pc[c] = "running" /\ work[c][a] = Running
    BY <1>1, SavesResult
  <2>3. Mine(c) => rows[a] = Running
    BY <2>2, RunCommandAssumption DEF TableInv, PhaseInv, Mine
  <2> QED
    BY <2>1, <2>3 DEF Save, Finished
<1>2. ASSUME NEW a \in Attempts, Start(c, a) PROVE rows'[x] = rows[x]
  BY <1>2 DEF Start, Kept
<1>3. CASE Begin(c)
  BY <1>3 DEF Begin, Finished
<1> QED
  BY <1>1, <1>2, <1>3
     DEF Step, Refuse, Open, Enter, Decline, TakeOver, Return, Report, Announce, Fails, Kill

\* A checkpoint all of whose rows are results changes no more.
LEMMA FullTableStays ==
  ASSUME TypeOK, PhaseInv, TableInv, NEW c \in Commands, Step(c),
         \A x \in Attempts : Finished(rows[x])
  PROVE  rows' = rows
<1>1. \A x \in Attempts : rows'[x] = rows[x]
  BY ResultsStay
<1>2. rows \in Table /\ rows' \in Table
  BY StepType DEF TypeOK, Table
<1> QED
  BY <1>1, <1>2 DEF Table

\* A step of one command leaves the memory of the others, and what they told.
LEMMA OthersStay ==
  ASSUME TypeOK, NEW c \in Commands, Step(c), NEW d \in Commands, d # c
  PROVE  /\ pc'[d] = pc[d] /\ work'[d] = work[d]
         /\ exit'[d] = exit[d] /\ announced'[d] = announced[d]
<1> USE DEF TypeOK, disk, checkpoint, told
<1>1. ASSUME NEW a \in Attempts, KeepInline(c, a) \/ SpillOutput(c, a) \/ SpillFails(c, a)
      PROVE  /\ pc'[d] = pc[d] /\ work'[d] = work[d]
             /\ exit'[d] = exit[d] /\ announced'[d] = announced[d]
  BY <1>1, SavesResult DEF Saved, Save
<1> QED
  BY <1>1 DEF Step, Refuse, Open, Enter, Begin, Decline, TakeOver, Start, Return, Report,
              Announce, Fails, Kill, Exit

\* Of two commands that share the checkpoint, only its holder is running.
LEMMA OthersTable ==
  ASSUME TypeOK, PhaseInv, TableInv, NEW c \in Commands, Step(c),
         NEW d \in Commands, d # c, options[d].checkpoint
  PROVE  /\ pc[d] = "running" => rows' = rows
         /\ pc[d] = "reporting" => rows' = rows
<1> USE DEF TypeOK, disk, checkpoint, told
<1>1. ASSUME pc[d] = "running" PROVE rows' = rows
  <2>1. owner = d /\ ~Mine(c)
    BY <1>1 DEF PhaseInv, Mine
  <2>2. ASSUME NEW a \in Attempts, KeepInline(c, a) \/ SpillOutput(c, a) \/ SpillFails(c, a)
        PROVE  rows' = rows
    BY <2>1, <2>2, SavesResult DEF Saved, Save
  <2> QED
    BY <2>1, <2>2
       DEF Step, Refuse, Open, Enter, Begin, Decline, TakeOver, Start, Return, Report,
           Announce, Fails, Kill
<1>2. ASSUME pc[d] = "reporting" PROVE rows' = rows
  BY <1>2, FullTableStays DEF PhaseInv, TableInv, AllFinished
<1> QED
  BY <1>1, <1>2

\* A step keeps the checkpoint equal to the work of its holder.
LEMMA StepTable ==
  ASSUME TypeOK, PhaseInv, TableInv, NEW c \in Commands, Step(c)
  PROVE  TableInv'
<1> USE RunCommandAssumption DEF TypeOK, disk, checkpoint, told
<1> DEFINE One(d) ==
      options[d].checkpoint =>
        /\ pc[d] = "running" =>
             \A a \in Attempts : work[d][a] # None => rows[a] = work[d][a]
        /\ pc[d] = "reporting" => rows = work[d]
<1>1. options' = options
  <2>1. ASSUME NEW a \in Attempts, KeepInline(c, a) \/ SpillOutput(c, a) \/ SpillFails(c, a)
        PROVE  options' = options
    BY <2>1, SavesResult DEF Saved
  <2> QED
    BY <2>1 DEF Step, Refuse, Open, Enter, Begin, Decline, TakeOver, Start, Return, Report,
                Announce, Fails, Kill
<1>2. ASSUME NEW d \in Commands, d # c PROVE One(d)'
  BY <1>1, <1>2, OthersStay, OthersTable DEF TableInv
<1>3. One(c)'
  <2>1. CASE Begin(c)
    BY <2>1 DEF Begin, PhaseInv, Unstarted
  <2>2. ASSUME NEW a \in Attempts, TakeOver(c, a) PROVE One(c)'
    BY <2>2 DEF TakeOver, TableInv
  <2>3. ASSUME NEW a \in Attempts, Start(c, a) PROVE One(c)'
    BY <2>3 DEF Start, TableInv, PhaseInv, Mine
  <2>4. ASSUME NEW a \in Attempts, KeepInline(c, a) \/ SpillOutput(c, a) \/ SpillFails(c, a)
        PROVE  One(c)'
    <3>1. PICK r \in Results : Save(c, a, r)
      BY <2>4, SavesResult DEF Saved
    <3>2. UNCHANGED <<pc, options>> /\ pc[c] = "running"
      BY <2>4, SavesResult DEF Saved
    <3> QED
      BY <3>1, <3>2 DEF Save, TableInv, PhaseInv, Mine
  <2>5. CASE Return(c)
    <3>1. ASSUME options[c].checkpoint PROVE rows' = work'[c]
      <4>1. \A a \in Attempts : rows[a] = work[c][a]
        BY <2>5, <3>1 DEF Return, TableInv, Finished
      <4>2. rows \in Table /\ work[c] \in Table
        BY DEF Table
      <4> QED
        BY <2>5, <4>1, <4>2 DEF Return, Table
    <3> QED
      BY <2>5, <3>1 DEF Return
  <2>6. CASE Refuse(c) \/ Decline(c) \/ Report(c) \/ Announce(c) \/ Fails(c)
    BY <2>6 DEF Refuse, Decline, Report, Announce, Fails, Exit
  <2>7. CASE Open(c) \/ Enter(c)
    BY <2>7 DEF Open, Enter
  <2>8. CASE Kill(c)
    BY <2>8 DEF Kill
  <2> QED
    BY <2>1, <2>2, <2>3, <2>4, <2>5, <2>6, <2>7, <2>8 DEF Step
<1> QED
  BY <1>2, <1>3 DEF TableInv

\* Only reporting writes a report, and only entering gives the checkpoint a run id.
LEMMA ReportsChange ==
  ASSUME TypeOK, NEW c \in Commands, Step(c)
  PROVE  /\ Report(c) \/ reports' = reports
         /\ Enter(c) \/ runId' = runId
         /\ options' = options
         /\ \A d \in Commands : pc[d] \in Written => pc'[d] \in Written
<1> USE DEF TypeOK, disk, checkpoint, told, Written
<1>1. ASSUME NEW a \in Attempts, KeepInline(c, a) \/ SpillOutput(c, a) \/ SpillFails(c, a)
      PROVE  UNCHANGED <<reports, runId, options, pc>>
  BY <1>1, SavesResult DEF Saved
<1> QED
  BY <1>1 DEF Step, Refuse, Open, Enter, Begin, Decline, TakeOver, Start, Return, Report,
              Announce, Fails, Kill, Exit

\* What a report says is what the reporting command has, and the checkpoint too.
LEMMA ReportedRows ==
  ASSUME TypeOK, PhaseInv, TableInv, NEW c \in Commands, Report(c)
  PROVE  /\ AllFinished(c)
         /\ IdOf(c) \in Commands
         /\ reports'[IdOf(c)] = work[c]
         /\ \A d \in Commands : d # IdOf(c) => reports'[d] = reports[d]
         /\ IdOf(c) = runId => options[c].checkpoint /\ rows = work[c]
         /\ IdOf(c) # runId => IdOf(c) = c /\ ~options[c].checkpoint
         /\ options[c].checkpoint => runId # None
         /\ runId' = runId /\ rows' = rows /\ work' = work
         /\ pc'[c] = "printing"
<1>1. pc[c] = "reporting" /\ AllFinished(c)
  BY DEF Report, PhaseInv
<1>2. IdOf(c) \in Commands
  BY <1>1 DEF IdOf, TypeOK, PhaseInv
<1>3. IdOf(c) = runId => options[c].checkpoint
  BY RunCommandAssumption DEF IdOf, PhaseInv
<1>4. options[c].checkpoint => rows = work[c] /\ runId # None
  BY <1>1 DEF TableInv, PhaseInv
<1>5. IdOf(c) # runId => IdOf(c) = c /\ ~options[c].checkpoint
  BY DEF IdOf
<1> QED
  BY <1>1, <1>2, <1>3, <1>4, <1>5 DEF Report, TypeOK, checkpoint

\* A step keeps the report of the checkpoint equal to its rows.
LEMMA StepReport ==
  ASSUME TypeOK, PhaseInv, TableInv, ReportInv, NEW c \in Commands, Step(c)
  PROVE  ReportInv'
<1>1. \A d \in Commands : reports'[d] # None => d = runId' \/ pc'[d] \in Written
  <2>1. CASE Report(c)
    BY <2>1, ReportedRows, ReportsChange DEF ReportInv, Written
  <2>2. CASE Enter(c)
    <3>1. reports' = reports /\ (runId # None => runId' = runId)
      BY <2>2 DEF Enter
    <3>2. None \notin Commands
      BY RunCommandAssumption
    <3> QED
      BY <3>1, <3>2, ReportsChange DEF ReportInv
  <2>3. CASE reports' = reports /\ runId' = runId
    BY <2>3, ReportsChange DEF ReportInv
  <2> QED
    BY <2>1, <2>2, <2>3, ReportsChange
<1>2. ASSUME runId' # None, reports'[runId'] # None PROVE reports'[runId'] = rows'
  <2>1. CASE Report(c)
    BY <1>2, <2>1, ReportedRows DEF ReportInv, TypeOK
  <2>2. CASE reports' = reports /\ runId' = runId
    <3>1. reports[runId] = rows /\ reports[runId] \in [Attempts -> Results]
      BY <1>2, <2>2 DEF ReportInv, TypeOK
    <3>2. \A x \in Attempts : Finished(rows[x])
      BY <3>1, ResultFacts
    <3> QED
      BY <2>2, <3>1, <3>2, FullTableStays
  <2>3. CASE Enter(c) /\ runId' # runId
    <3>1. runId = None /\ runId' = c /\ pc[c] = "opening" /\ reports'[c] = reports[c]
      BY <2>3 DEF Enter
    <3> QED
      BY <1>2, <3>1, RunCommandAssumption DEF ReportInv, Written
  <2>4. Enter(c) => reports' = reports
    BY DEF Enter
  <2> QED
    BY <2>1, <2>2, <2>3, <2>4, ReportsChange
<1> QED
  BY <1>1, <1>2 DEF ReportInv

\* A report stays what its command has, whoever reports the run anew.
LEMMA ToldStays ==
  ASSUME TypeOK, PhaseInv, TableInv, ReportInv, NEW c \in Commands, Step(c),
         NEW d \in Commands, Told(d), work'[d] = work[d], d # c \/ ~Report(c)
  PROVE  Told(d)'
<1>1. options' = options /\ (options[d].checkpoint => runId # None /\ runId' = runId)
  BY ReportsChange DEF Told, Enter
<1>2. IdOf(d)' = IdOf(d)
  BY <1>1 DEF IdOf
<1>3. reports'[IdOf(d)] = reports[IdOf(d)]
  <2>1. CASE Report(c)
    <3>1. CASE IdOf(c) # IdOf(d)
      BY <2>1, <3>1, ReportedRows DEF IdOf, TypeOK, Told
    <3>2. CASE IdOf(c) = IdOf(d)
      <4>1. IdOf(c) = runId /\ IdOf(d) = runId /\ runId # None
        BY <2>1, <3>2, ReportedRows DEF IdOf, PhaseInv, Told, Report
      <4>2. reports'[runId] = rows
        BY <2>1, <4>1, ReportedRows
      <4>3. work[d] \in [Attempts -> Results]
        BY ResultFacts DEF Told, AllFinished, TypeOK
      <4>4. reports[runId] = work[d]
        BY <4>1 DEF Told
      <4>5. reports[runId] # None
        BY <4>3, <4>4, RunCommandAssumption
      <4> QED
        BY <4>1, <4>2, <4>5 DEF ReportInv
    <3> QED
      BY <3>1, <3>2
  <2>2. CASE reports' = reports
    BY <2>2
  <2> QED
    BY <2>1, <2>2, ReportsChange
<1> QED
  BY <1>1, <1>2, <1>3 DEF Told, AllFinished

\* The part of TellInv that is about one command.
Tells(c) ==
  /\ pc[c] = "printing" => Told(c)
  /\ announced[c] # None =>
       /\ Told(c)
       /\ exit[c] = IF Clean(c) THEN 0 ELSE 5
       /\ announced[c] = IF Lost(c) # {} THEN "lost" ELSE "whole"
  /\ exit[c] = 0 => announced[c] # None

\* A step leaves what another command told true.
LEMMA OthersTell ==
  ASSUME TypeOK, PhaseInv, TableInv, ReportInv, NEW c \in Commands, Step(c),
         NEW d \in Commands, d # c, Tells(d)
  PROVE  Tells(d)'
<1>1. /\ pc'[d] = pc[d] /\ work'[d] = work[d]
      /\ exit'[d] = exit[d] /\ announced'[d] = announced[d]
  BY OthersStay
<1>2. Told(d) => Told(d)'
  BY <1>1, ToldStays
<1>3. Clean(d)' = Clean(d) /\ Lost(d)' = Lost(d)
  BY <1>1 DEF Clean, Lost
<1> QED
  BY <1>1, <1>2, <1>3 DEF Tells

\* What a command tells of its own report is true, and no failure looks like success.
LEMMA OwnTell ==
  ASSUME TypeOK, PhaseInv, TableInv, ReportInv, NEW c \in Commands, Step(c), Tells(c)
  PROVE  Tells(c)'
<1> USE DEF TypeOK
<1>1. CASE Report(c)
  <2>1. Told(c)'
    <3>1. options' = options
      BY <1>1, ReportsChange
    <3>2. IdOf(c)' = IdOf(c)
      BY <1>1, <3>1, ReportedRows DEF IdOf
    <3> QED
      BY <1>1, <3>1, <3>2, ReportedRows DEF Told, AllFinished
  <2>2. exit'[c] = None /\ announced'[c] = None
    BY <1>1 DEF Report, PhaseInv, told
  <2> QED
    BY <2>1, <2>2, RunCommandAssumption DEF Tells, ExitCodes
<1>2. CASE Announce(c)
  <2>1. work' = work /\ Told(c)'
    BY <1>2, ToldStays DEF Announce, Tells, Report
  <2>2. /\ exit'[c] = (IF Clean(c) THEN 0 ELSE 5)
        /\ announced'[c] = (IF Lost(c) # {} THEN "lost" ELSE "whole")
        /\ pc'[c] = "ended"
    BY <1>2 DEF Announce, Exit
  <2>3. Clean(c)' = Clean(c) /\ Lost(c)' = Lost(c)
    BY <2>1 DEF Clean, Lost
  <2>4. announced'[c] # None
    BY <2>2, RunCommandAssumption
  <2> QED
    BY <2>1, <2>2, <2>3, <2>4 DEF Tells
<1>3. CASE Refuse(c) \/ Decline(c) \/ Fails(c)
  <2>1. pc[c] # "ended" /\ pc'[c] = "ended" /\ announced' = announced /\ exit'[c] # 0
    BY <1>3, CodesOfFailure DEF Refuse, Decline, Fails, Exit, RefusalCode, Underway
  <2>2. announced'[c] = None
    BY <2>1 DEF PhaseInv
  <2> QED
    BY <2>1, <2>2 DEF Tells
<1>4. CASE pc[c] # "ended" /\ told' = told /\ pc'[c] # "printing"
  <2>1. announced'[c] = None /\ exit'[c] = None
    BY <1>4 DEF PhaseInv, told
  <2> QED
    BY <1>4, <2>1, RunCommandAssumption DEF Tells, ExitCodes
<1>5. ASSUME NEW a \in Attempts, KeepInline(c, a) \/ SpillOutput(c, a) \/ SpillFails(c, a)
      PROVE  pc[c] # "ended" /\ told' = told /\ pc'[c] # "printing"
  BY <1>5, SavesResult DEF Saved, told
<1>6. ASSUME NEW a \in Attempts, TakeOver(c, a) \/ Start(c, a)
      PROVE  pc[c] # "ended" /\ told' = told /\ pc'[c] # "printing"
  BY <1>6 DEF TakeOver, Start, told
<1>7. ASSUME Open(c) \/ Enter(c) \/ Begin(c) \/ Return(c) \/ Kill(c)
      PROVE  pc[c] # "ended" /\ told' = told /\ pc'[c] # "printing"
  BY <1>7 DEF Open, Enter, Begin, Return, Kill, Underway, told
<1> QED
  BY <1>1, <1>2, <1>3, <1>4, <1>5, <1>6, <1>7 DEF Step

\* A step keeps what every command told true of the report.
LEMMA StepTell ==
  ASSUME TypeOK, PhaseInv, TableInv, ReportInv, TellInv, NEW c \in Commands, Step(c)
  PROVE  TellInv'
<1>1. \A d \in Commands : Tells(d)
  BY DEF TellInv, Tells
<1>2. ASSUME NEW d \in Commands PROVE Tells(d)'
  BY <1>1, OthersTell, OwnTell
<1> QED
  BY <1>2 DEF TellInv, Tells

(***************************************************************************)
(* The theorems.                                                           *)
(***************************************************************************)
Inv == TypeOK /\ PhaseInv /\ RefInv /\ TableInv /\ ReportInv

\* So every step of the specification keeps the whole invariant.
LEMMA NextInv == Inv /\ [Next]_vars => Inv'
<1> SUFFICES ASSUME Inv, [Next]_vars PROVE Inv'
  OBVIOUS
<1>1. CASE UNCHANGED vars
  BY <1>1 DEF vars, disk, checkpoint, told, Inv, TypeOK, PhaseInv, RefInv, TableInv, ReportInv,
              AllFinished, Unstarted, Backed
<1>2. ASSUME NEW c \in Commands, Step(c) PROVE Inv'
  BY <1>2, StepType, StepPhase, StepRef, StepTable, StepReport DEF Inv
<1> QED
  BY <1>1, <1>2 DEF Next, Ended

\* The strengthening is an invariant: the theorems below rest on it.
LEMMA Invariance == Spec => []Inv
<1>1. Init => Inv
  BY InitType, InitPhase, InitRef, InitTable DEF Inv
<1> QED
  BY <1>1, NextInv, PTL DEF Spec

\* The state has its types, for any invocations of `run` over one checkpoint.
THEOREM CommandTypeCorrect == Spec => []TypeOK
<1>1. Inv => TypeOK
  BY DEF Inv
<1> QED
  BY <1>1, Invariance, PTL

\* A row or a report never refers to output that is not stored, whichever invocations
\* shared the checkpoint and wherever they were killed.
THEOREM ReferencesAlwaysResolve == Spec => []ReferencesResolve
<1>1. Inv => ReferencesResolve
  BY DEF Inv, RefInv, Backed, ReferencesResolve, Published
<1> QED
  BY <1>1, Invariance, PTL

\* Exit code and warning tell what the report holds, wherever a run fails or is killed,
\* and also after later invocations resumed and reported the same run.
THEOREM ExitAlwaysTells == Spec => []ExitTellsTheReport
<1>1. Init => TellInv
  BY InitTable
<1>2. Inv /\ TellInv /\ [Next]_vars => TellInv'
  <2> SUFFICES ASSUME Inv, TellInv, [Next]_vars PROVE TellInv'
    OBVIOUS
  <2>1. CASE UNCHANGED vars
    BY <2>1 DEF vars, told, checkpoint, TellInv, Told, AllFinished, IdOf, Clean, Lost
  <2>2. ASSUME NEW c \in Commands, Step(c) PROVE TellInv'
    BY <2>2, StepTell DEF Inv
  <2> QED
    BY <2>1, <2>2 DEF Next, Ended
<1>3. Inv /\ TellInv => ExitTellsTheReport
  <2> SUFFICES ASSUME Inv, TellInv, NEW c \in Commands, announced[c] # None
               PROVE  /\ reports[IdOf(c)] # None
                      /\ exit[c] = IF \A a \in Attempts : reports[IdOf(c)][a].ok THEN 0 ELSE 5
                      /\ announced[c] = "lost"
                           <=> \E a \in Attempts : reports[IdOf(c)][a].output = "lost"
    BY DEF TellInv, ExitTellsTheReport
  <2>1. reports[IdOf(c)] = work[c]
    BY DEF TellInv, Told
  <2>2. work[c] \in [Attempts -> Results]
    BY ResultFacts DEF Inv, TypeOK, TellInv, Told, AllFinished
  <2>3. exit[c] = IF \A a \in Attempts : work[c][a].ok THEN 0 ELSE 5
    BY DEF TellInv, Clean
  <2>4. announced[c] = "lost" <=> Lost(c) # {}
    BY DEF TellInv
  <2>5. Lost(c) # {} <=> \E a \in Attempts : work[c][a].output = "lost"
    BY DEF Lost
  <2> QED
    BY <2>1, <2>2, <2>3, <2>4, <2>5, RunCommandAssumption
<1> QED
  BY <1>1, <1>2, <1>3, Invariance, PTL DEF Spec
=============================================================================
