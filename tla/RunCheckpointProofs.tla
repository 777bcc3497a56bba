------------------------ MODULE RunCheckpointProofs ------------------------
(***************************************************************************)
(* Proofs about RunCheckpoint, for every set of invocations, attempts and  *)
(* inputs.                                                                 *)
(***************************************************************************)
EXTENDS RunCheckpointLedger, TLAPS

\* What the metadata say of the file and the rows.
MetadataInv ==
  /\ ~exists => runId = None
  /\ \A p \in Processes : pc[p] = "creating" => exists /\ runId = None
  /\ \A p \in Processes : pc[p] \in {"opened", "running"} => runId # None
  /\ runId = None => identity = None
  /\ identity = None => \A a \in Attempts : row[a] = "absent"

\* What the owner's memory says of the rows, and that nobody else has any.
WorkInv ==
  /\ \A p \in Processes : pc[p] = "running" => identity = options[p].inputs
  /\ \A a \in Attempts : work[a] # "idle" =>
       \E p \in Processes : pc[p] = "running"
  /\ \A a \in Attempts :
       /\ work[a] = "queued" => row[a] \in {"absent", "pending"}
       /\ work[a] \in {"started", "called"} => row[a] = "running"
       /\ work[a] \in {"saved", "replayed"} => row[a] = "completed"

\* Calls against intents: a row that is not in doubt leaves room for a call, and
\* so does an intent that has not been acted on.
CallsInv ==
  \A a \in Attempts :
    /\ calls[a] <= optIns[a] + 1
    /\ calls[a] <= executions[a]
    /\ row[a] \in {"absent", "pending"} => calls[a] <= optIns[a]
    /\ work[a] = "started" => calls[a] <= optIns[a] /\ calls[a] + 1 <= executions[a]

IInv ==
  /\ TypeOK
  /\ OneWriter
  /\ MetadataInv
  /\ WorkInv
  /\ CallsInv
  /\ OneEvaluation

\* Nothing has happened yet.
LEMMA InitIInv == Init => IInv
<1>1. SUFFICES ASSUME Init PROVE IInv
  OBVIOUS
<1>2. TypeOK
  BY <1>1 DEF Init, TypeOK
<1>3. OneWriter
  BY <1>1, NoneAssumption DEF Init, OneWriter, Holding
<1>4. MetadataInv /\ WorkInv /\ CallsInv /\ OneEvaluation
  BY <1>1 DEF Init, MetadataInv, WorkInv, CallsInv, OneEvaluation
<1>5. QED
  BY <1>2, <1>3, <1>4 DEF IInv

\* A process that leaves touches nothing but the lock and its memory.
LEMMA ReleaseKeeps ==
  ASSUME IInv, NEW p \in Processes, NEW phase \in Ended, pc[p] \in Holding,
         Release(p, phase), UNCHANGED <<options, database, world>>
  PROVE  IInv'
<1>. USE DEF IInv, TypeOK, Release, Goto, database, world, Holding, Ended
<1>1. TypeOK'
  OBVIOUS
<1>2. OneWriter'
  BY NoneAssumption DEF OneWriter
<1>3. MetadataInv'
  BY DEF MetadataInv
<1>4. WorkInv'
  BY DEF WorkInv, OneWriter
<1>5. CallsInv' /\ OneEvaluation'
  BY DEF CallsInv, OneEvaluation
<1>6. QED
  BY <1>1, <1>2, <1>3, <1>4, <1>5 DEF IInv

\* Taking the lock, and opening or creating the database.
LEMMA OpeningKeeps ==
  ASSUME IInv, NEW p \in Processes,
         Lock(p) \/ CreateFile(p) \/ InsertMetadata(p) \/ OpenExisting(p)
  PROVE  IInv'
<1>1. CASE Lock(p)
  <2>. USE <1>1 DEF IInv, Lock, Goto, database, world
  <2>1. TypeOK'
    BY DEF TypeOK, Holding, Ended
  <2>2. OneWriter'
    <3>1. CASE owner = None
      <4>1. \A q \in Processes : pc[q] \notin Holding
        BY <3>1, NoneAssumption DEF OneWriter
      <4>2. owner' = p /\ pc' = [pc EXCEPT ![p] = "locked"]
        BY <3>1
      <4>3. \A q \in Processes : pc'[q] \in Holding <=> q = p
        BY <4>1, <4>2 DEF TypeOK, Holding
      <4> QED
        BY <4>2, <4>3 DEF OneWriter
    <3>2. CASE owner # None
      <4>1. owner' = owner /\ pc' = [pc EXCEPT ![p] = "locked out"]
        BY <3>2
      <4>2. "new" \notin Holding /\ "locked out" \notin Holding
        BY DEF Holding
      <4>3. \A q \in Processes : pc'[q] \in Holding <=> pc[q] \in Holding
        BY <4>1, <4>2 DEF TypeOK
      <4> QED
        BY <4>1, <4>3 DEF OneWriter
    <3> QED
      BY <3>1, <3>2
  <2>3. MetadataInv'
    BY DEF MetadataInv, TypeOK
  <2>4. WorkInv'
    BY DEF WorkInv, TypeOK
  <2>5. CallsInv' /\ OneEvaluation'
    BY DEF CallsInv, OneEvaluation, MetadataInv, TypeOK
  <2>6. QED
    BY <2>1, <2>2, <2>3, <2>4, <2>5 DEF IInv
<1>2. CASE CreateFile(p)
  <2>. USE <1>2 DEF IInv, CreateFile, Goto, world
  <2>1. TypeOK'
    BY DEF TypeOK, Holding
  <2>2. OneWriter'
    BY DEF OneWriter, TypeOK, Holding
  <2>3. MetadataInv'
    BY DEF MetadataInv, TypeOK
  <2>4. WorkInv'
    BY DEF WorkInv, TypeOK
  <2>5. CallsInv' /\ OneEvaluation'
    BY DEF CallsInv, OneEvaluation, MetadataInv, TypeOK
  <2>6. QED
    BY <2>1, <2>2, <2>3, <2>4, <2>5 DEF IInv
<1>3. CASE InsertMetadata(p)
  <2>. USE <1>3 DEF IInv, InsertMetadata, Goto, world
  <2>1. TypeOK'
    BY DEF TypeOK, Holding
  <2>2. OneWriter'
    BY DEF OneWriter, TypeOK, Holding
  <2>3. MetadataInv'
    BY NoneAssumption DEF MetadataInv, OneWriter, TypeOK, Holding
  <2>4. WorkInv'
    BY DEF WorkInv, TypeOK
  <2>5. CallsInv' /\ OneEvaluation'
    BY DEF CallsInv, OneEvaluation, MetadataInv, TypeOK
  <2>6. QED
    BY <2>1, <2>2, <2>3, <2>4, <2>5 DEF IInv
<1>4. CASE OpenExisting(p)
  <2>1. CASE Release(p, "broken")
    BY <1>4, <2>1, ReleaseKeeps DEF OpenExisting, Holding, Ended
  <2>2. CASE runId # None /\ Goto(p, "opened") /\ UNCHANGED <<owner, work>>
    <3>. USE <1>4, <2>2 DEF IInv, OpenExisting, Goto, database, world
    <3>1. TypeOK'
      BY DEF TypeOK, Holding
    <3>2. OneWriter'
      BY DEF OneWriter, TypeOK, Holding
    <3>3. MetadataInv' /\ WorkInv' /\ CallsInv' /\ OneEvaluation'
      BY DEF MetadataInv, WorkInv, CallsInv, OneEvaluation, TypeOK
    <3>4. QED
      BY <3>1, <3>2, <3>3 DEF IInv
  <2>3. QED
    BY <1>4, <2>1, <2>2 DEF OpenExisting
<1>5. QED
  BY <1>1, <1>2, <1>3, <1>4

\* begin's transaction, and the plan made of the rows it leaves.
LEMMA BeginKeeps ==
  ASSUME IInv, NEW p \in Processes, Begin(p)
  PROVE  IInv'
<1>. USE DEF IInv, Begin, Accepts, Goto
<1>1. TypeOK'
  BY DEF TypeOK, Holding, Options
<1>2. OneWriter'
  BY DEF OneWriter, TypeOK, Holding
<1>3. MetadataInv'
  BY NoneAssumption DEF MetadataInv, TypeOK, Options
<1>4. WorkInv'
  BY DEF WorkInv, OneWriter, TypeOK, Holding
<1>5. CallsInv'
  BY DEF CallsInv, TypeOK
<1>6. OneEvaluation'
  BY DEF OneEvaluation, MetadataInv, TypeOK
<1>7. QED
  BY <1>1, <1>2, <1>3, <1>4, <1>5, <1>6 DEF IInv

\* An attempt goes from queued to saved.
LEMMA AttemptKeeps ==
  ASSUME IInv, NEW p \in Processes, NEW a \in Attempts,
         Start(p, a) \/ CallTarget(p, a) \/ Save(p, a)
  PROVE  IInv'
<1>1. CASE Start(p, a)
  <2>. USE <1>1 DEF IInv, Start, Work, world
  <2>1. row[a] # "completed"
    BY DEF WorkInv
  <2>2. TypeOK'
    BY <2>1 DEF TypeOK
  <2>3. OneWriter'
    BY DEF OneWriter
  <2>4. MetadataInv'
    BY NoneAssumption DEF MetadataInv, WorkInv, TypeOK, Options
  <2>5. WorkInv'
    BY <2>1 DEF WorkInv, TypeOK
  <2>6. CallsInv'
    BY <2>1 DEF CallsInv, WorkInv, TypeOK
  <2>7. OneEvaluation'
    BY <2>1 DEF OneEvaluation, TypeOK
  <2>8. QED
    BY <2>2, <2>3, <2>4, <2>5, <2>6, <2>7 DEF IInv
<1>2. CASE CallTarget(p, a)
  <2>. USE <1>2 DEF IInv, CallTarget, Work, database
  <2>1. TypeOK' /\ OneWriter' /\ MetadataInv'
    BY DEF TypeOK, OneWriter, MetadataInv
  <2>2. WorkInv'
    BY DEF WorkInv, TypeOK
  <2>3. CallsInv'
    BY DEF CallsInv, WorkInv, TypeOK
  <2>4. OneEvaluation'
    BY DEF OneEvaluation
  <2>5. QED
    BY <2>1, <2>2, <2>3, <2>4 DEF IInv
<1>3. CASE Save(p, a)
  <2>. USE <1>3 DEF IInv, Save, Work, world
  <2>1. runId # None /\ identity = options[p].inputs
    BY DEF MetadataInv, WorkInv
  <2>2. Saved(p) \in Payload
    BY <2>1 DEF Saved, Payload, TypeOK, Options
  <2>3. TypeOK'
    BY <2>2 DEF TypeOK
  <2>4. OneWriter'
    BY DEF OneWriter
  <2>5. MetadataInv'
    BY NoneAssumption, <2>1 DEF MetadataInv, TypeOK, Options
  <2>6. WorkInv'
    BY DEF WorkInv, TypeOK
  <2>7. CallsInv'
    BY DEF CallsInv, TypeOK
  <2>8. OneEvaluation'
    BY <2>1 DEF OneEvaluation, Saved, TypeOK
  <2>9. QED
    BY <2>3, <2>4, <2>5, <2>6, <2>7, <2>8 DEF IInv
<1>4. QED
  BY <1>1, <1>2, <1>3

\* Every step of any process preserves the invariant.
LEMMA NextIInv == IInv /\ [Next]_vars => IInv'
<1>1. SUFFICES ASSUME IInv, [Next]_vars PROVE IInv'
  OBVIOUS
<1>2. ASSUME NEW p \in Processes, Step(p) PROVE IInv'
  <2>1. CASE Lock(p) \/ CreateFile(p) \/ InsertMetadata(p) \/ OpenExisting(p)
    BY <1>1, <2>1, OpeningKeeps
  <2>2. CASE OpenRefused(p) \/ BeginRefused(p) \/ Return(p) \/ Fail(p) \/ Kill(p)
    BY <1>1, <2>2, ReleaseKeeps
    DEF OpenRefused, BeginRefused, Return, Fail, Kill, Holding, Ended
  <2>3. CASE Begin(p)
    BY <1>1, <2>3, BeginKeeps
  <2>4. CASE \E a \in Attempts : Start(p, a) \/ CallTarget(p, a) \/ Save(p, a)
    BY <1>1, <2>4, AttemptKeeps
  <2>5. QED
    BY <1>2, <2>1, <2>2, <2>3, <2>4 DEF Step, Proceed
<1>3. CASE UNCHANGED vars
  BY <1>1, <1>3 DEF IInv, TypeOK, OneWriter, MetadataInv, WorkInv, CallsInv,
                    OneEvaluation, vars
<1>4. QED
  BY <1>1, <1>2, <1>3 DEF Next, AllEnded

\* The strengthening holds in every state.
THEOREM Invariance == Spec => []IInv
  BY InitIInv, NextIInv, PTL DEF Spec

\* Every variable keeps its type.
THEOREM TypeCorrect == Spec => []TypeOK
<1>1. IInv => TypeOK
  BY DEF IInv
<1>2. QED
  BY <1>1, Invariance, PTL

\* ProcessLock: one process inside, and every way out gives the lock back.
THEOREM SingleWriter == Spec => []OneWriter
<1>1. IInv => OneWriter
  BY DEF IInv
<1>2. QED
  BY <1>1, Invariance, PTL

\* begin and start: without an opt-in a target is called at most once, however
\* many processes were killed and resumed.
THEOREM ReplayNeedsOptIn == Spec => []NoReplayWithoutOptIn
<1>1. IInv => NoReplayWithoutOptIn
  BY DEF IInv, CallsInv, NoReplayWithoutOptIn
<1>2. QED
  BY <1>1, Invariance, PTL

\* start commits before the target is called: the column counts every call.
THEOREM EveryCallIsCounted == Spec => []CallsAreCounted
<1>1. IInv => CallsAreCounted
  BY DEF IInv, CallsInv, CallsAreCounted
<1>2. QED
  BY <1>1, Invariance, PTL

\* begin's identity check and the saved run_id: a directory never mixes results
\* of different inputs or runs.
THEOREM DirectoryIsOneEvaluation == Spec => []OneEvaluation
<1>1. IInv => OneEvaluation
  BY DEF IInv
<1>2. QED
  BY <1>1, Invariance, PTL

\* A resumed run hands out only results of its own inputs.
THEOREM ResultsMatchInputs == Spec => []ReturnsOwnInputs
<1>1. IInv => ReturnsOwnInputs
  BY DEF IInv, WorkInv, OneEvaluation, ReturnsOwnInputs
<1>2. QED
  BY <1>1, Invariance, PTL

\* The implementation of AttemptLedger: every step of every process is one step
\* of the ledger or invisible to it.
THEOREM ImplementsLedger == Spec => KeepsLedger
<1>1. Init => Ledger!Init
  BY DEF Init, Ledger!Init, LedgerStatus
<1>2. IInv /\ [Next]_vars => [Ledger!Next]_(<<LedgerStatus, calls, optIns, stored>>)
  <2>1. SUFFICES ASSUME IInv, [Next]_vars
                 PROVE  Ledger!Next \/ UNCHANGED <<LedgerStatus, calls, optIns, stored>>
    OBVIOUS
  <2>2. ASSUME NEW p \in Processes, NEW a \in Attempts, Start(p, a) PROVE Ledger!Intend(a)
    <3>1. row[a] \in {"absent", "pending"}
      BY <2>1, <2>2 DEF Start, Work, IInv, WorkInv
    <3>2. row' = [row EXCEPT ![a] = "running"]
      BY <2>2, <3>1 DEF Start
    <3>3. LedgerStatus[a] \in {"fresh", "cleared"}
      BY <3>1 DEF LedgerStatus
    <3>4. LedgerStatus' = [LedgerStatus EXCEPT ![a] = "inDoubt"]
      BY <2>1, <3>2 DEF LedgerStatus, IInv, TypeOK
    <3>5. QED
      BY <2>2, <3>3, <3>4 DEF Start, world, Ledger!Intend
  <2>3. ASSUME NEW p \in Processes, NEW a \in Attempts, CallTarget(p, a) PROVE Ledger!Call(a)
    <3>1. row[a] = "running" /\ calls[a] <= optIns[a]
      BY <2>1, <2>3 DEF CallTarget, Work, IInv, WorkInv, CallsInv
    <3>2. LedgerStatus[a] = "inDoubt"
      BY <3>1 DEF LedgerStatus
    <3>3. UNCHANGED <<LedgerStatus, optIns, stored>>
      BY <2>3 DEF CallTarget, database, LedgerStatus
    <3>4. QED
      BY <2>3, <3>1, <3>2, <3>3 DEF CallTarget, Ledger!Call
  <2>4. ASSUME NEW p \in Processes, NEW a \in Attempts, Save(p, a) PROVE Ledger!Record(a)
    <3>1. row[a] = "running" /\ row' = [row EXCEPT ![a] = "completed"]
      BY <2>4 DEF Save
    <3>2. Saved(p) \in Payload
      BY <2>1, <2>4 DEF Save, Work, IInv, MetadataInv, TypeOK, Saved, Payload, Options
    <3>3. LedgerStatus[a] = "inDoubt"
      BY <3>1 DEF LedgerStatus
    <3>4. LedgerStatus' = [LedgerStatus EXCEPT ![a] = "recorded"]
      BY <2>1, <3>1 DEF LedgerStatus, IInv, TypeOK
    <3>5. QED
      BY <2>4, <3>2, <3>3, <3>4 DEF Save, world, Ledger!Record
  <2>5. ASSUME NEW p \in Processes, Begin(p) PROVE Ledger!OptIn
    <3>1. /\ row' = [a \in Attempts |-> IF row[a] = "running" THEN "pending" ELSE row[a]]
          /\ optIns' = [a \in Attempts |-> optIns[a] + (IF row[a] = "running" THEN 1 ELSE 0)]
          /\ UNCHANGED <<calls, stored>>
      BY <2>5 DEF Begin, Accepts
    <3>2. LedgerStatus' = [a \in Attempts |-> IF LedgerStatus[a] = "inDoubt"
                                              THEN "cleared" ELSE LedgerStatus[a]]
      BY <3>1 DEF LedgerStatus
    <3>3. \A a \in Attempts : row[a] = "running" <=> LedgerStatus[a] = "inDoubt"
      BY DEF LedgerStatus
    <3>4. optIns' = [a \in Attempts |-> optIns[a] + IF LedgerStatus[a] = "inDoubt" THEN 1 ELSE 0]
      BY <3>1, <3>3
    <3>5. QED
      BY <3>1, <3>2, <3>4 DEF Ledger!OptIn
  <2>6. ASSUME NEW p \in Processes,
               \/ Lock(p) \/ OpenRefused(p) \/ CreateFile(p) \/ InsertMetadata(p)
               \/ OpenExisting(p) \/ BeginRefused(p) \/ Return(p) \/ Fail(p) \/ Kill(p)
        PROVE  UNCHANGED <<LedgerStatus, calls, optIns, stored>>
    <3>1. UNCHANGED <<row, stored, calls, optIns>>
      BY <2>6 DEF Lock, OpenRefused, CreateFile, InsertMetadata, OpenExisting,
                  BeginRefused, Return, Fail, Kill, database, world
    <3>2. QED
      BY <3>1 DEF LedgerStatus
  <2>7. CASE UNCHANGED vars
    BY <2>7 DEF vars, LedgerStatus
  <2>8. QED
    BY <2>1, <2>2, <2>3, <2>4, <2>5, <2>6, <2>7
    DEF Next, AllEnded, Step, Proceed, Ledger!Next
<1>3. QED
  BY <1>1, <1>2, Invariance, PTL DEF Spec, KeepsLedger, Ledger!Spec

\* No step of any process changes a completed row or calls its target again.
THEOREM CompletedStaysFinal == Spec => CompletedIsFinal
<1>. DEFINE Kept == \A a \in Attempts : row[a] = "completed" =>
                      row'[a] = "completed" /\ stored'[a] = stored[a] /\ calls'[a] = calls[a]
<1>1. IInv /\ [Next]_vars => Kept
  <2>1. SUFFICES ASSUME IInv, [Next]_vars, NEW a \in Attempts, row[a] = "completed"
                 PROVE  row'[a] = "completed" /\ stored'[a] = stored[a] /\ calls'[a] = calls[a]
    OBVIOUS
  <2>2. ASSUME NEW p \in Processes, NEW b \in Attempts,
               Start(p, b) \/ CallTarget(p, b) \/ Save(p, b)
        PROVE  row'[a] = "completed" /\ stored'[a] = stored[a] /\ calls'[a] = calls[a]
    <3>1. b # a
      BY <2>1, <2>2 DEF Start, CallTarget, Save, Work, IInv, WorkInv
    <3>2. QED
      BY <2>1, <2>2, <3>1 DEF Start, CallTarget, Save, database, world, IInv, TypeOK
  <2>3. ASSUME NEW p \in Processes, Begin(p)
        PROVE  row'[a] = "completed" /\ stored'[a] = stored[a] /\ calls'[a] = calls[a]
    BY <2>1, <2>3 DEF Begin
  <2>4. ASSUME NEW p \in Processes,
               \/ Lock(p) \/ OpenRefused(p) \/ CreateFile(p) \/ InsertMetadata(p)
               \/ OpenExisting(p) \/ BeginRefused(p) \/ Return(p) \/ Fail(p) \/ Kill(p)
        PROVE  row'[a] = "completed" /\ stored'[a] = stored[a] /\ calls'[a] = calls[a]
    BY <2>1, <2>4 DEF Lock, OpenRefused, CreateFile, InsertMetadata, OpenExisting,
                      BeginRefused, Return, Fail, Kill, database, world
  <2>5. CASE UNCHANGED vars
    BY <2>1, <2>5 DEF vars
  <2>6. QED
    BY <2>1, <2>2, <2>3, <2>4, <2>5 DEF Next, AllEnded, Step, Proceed
<1>2. IInv /\ [Next]_vars => [Kept]_vars
  BY <1>1
<1>3. QED
  BY <1>2, Invariance, PTL DEF Spec, CompletedIsFinal
=============================================================================
