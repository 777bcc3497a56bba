------------------------ MODULE DatasetCatalogProofs ------------------------
(***************************************************************************)
(* Proofs about DatasetCatalog, for any commands in any processes, any     *)
(* number of versions and any number of failed writes and killed processes. *)
(***************************************************************************)
EXTENDS DatasetCatalog, TLAPS

Writing == {"locked", "halfway"}

\* What a command in each phase has got hold of.
PhaseInv ==
  \A c \in Commands :
    /\ pc[c] \in Busy \union {"served"} => revision[c] # None
    /\ pc[c] \in {"missed", "fetched", "locked", "halfway"} => ~Offline(c)
    /\ pc[c] \in {"fetched", "locked", "halfway"} => page[c] # None

\* A writer holds the lock of its entry in its process.
LockInv ==
  /\ LocksAreOfWriters
  /\ \A c \in Commands : pc[c] \in Writing => lock[ProcessOf[c]][revision[c]] = c

\* The remembered revision of a pin is the pin.
PinInv ==
  /\ PinIsKept
  /\ \A v \in Versions : resolution[v] \in {v, None}

\* Published contents stay, and a manifest only names one of them.
PublishedInv ==
  /\ \A v \in Versions :
       /\ manifest[v] # None => manifest[v] \in published[v]
       /\ published[v] # {} => manifest[v] # None /\ payload[v] # None
  /\ \A c \in Commands :
       /\ pc[c] = "halfway" => payload[revision[c]] # None
       /\ pc[c] \in {"found", "verifying"} => manifest[revision[c]] # None
       /\ pc[c] = "verifying" => seen[c] \in published[revision[c]]
  /\ OfflineServesPublished

\* The payload of an undisturbed entry is that of the writer that is halfway.
WholeInv ==
  /\ EntriesAreWhole
  /\ \A c \in Commands :
       pc[c] = "halfway" /\ revision[c] \notin disturbed => payload[revision[c]] = page[c]

Inv == TypeOK /\ PhaseInv /\ LockInv /\ PinInv /\ PublishedInv /\ WholeInv

LEMMA InitInv == Init => Inv
BY CatalogAssumption DEF Init, Inv, TypeOK, PhaseInv, LockInv, LocksAreOfWriters, PinInv, PinIsKept,
   PublishedInv, OfflineServesPublished, WholeInv, EntriesAreWhole, Halfway, Versions, Pins,
   Requests, Writing, Busy, Ended

\* One step per action.  LockInv is what makes WholeInv inductive: of two writers
\* of one process only one is past its lock.
LEMMA StepInv == Inv /\ Next => Inv'
<1> SUFFICES ASSUME Inv, Next PROVE Inv'
  OBVIOUS
<1> USE CatalogAssumption
    DEF Inv, Versions, Pins, Goto, Offline, Writing, Busy, Ended, upstream, entries,
        TypeOK, Requests, PhaseInv
<1>0. \A c \in Commands : pc[c] = "halfway" => revision[c] \in Versions
  OBVIOUS
<1>1. ASSUME Push PROVE Inv'
  <2>1. TypeOK' /\ PhaseInv' /\ PinInv'
    BY <1>1 DEF Push, PinInv, PinIsKept
  <2>2. LockInv' /\ PublishedInv' /\ WholeInv'
    BY <1>1 DEF Push, LockInv, LocksAreOfWriters, PublishedInv, OfflineServesPublished, WholeInv, EntriesAreWhole, Halfway
  <2> QED
    BY <2>1, <2>2
<1>2. ASSUME NEW c \in Commands, AskRevision(c) PROVE Inv'
  <2>1. TypeOK' /\ PhaseInv' /\ PinInv'
    BY <1>2 DEF AskRevision, Commit, PinInv, PinIsKept
  <2>2. LockInv' /\ PublishedInv' /\ WholeInv'
    BY <1>2 DEF AskRevision, Commit, LockInv, LocksAreOfWriters, PublishedInv, OfflineServesPublished, WholeInv, EntriesAreWhole, Halfway
  <2> QED
    BY <2>1, <2>2
<1>3. ASSUME NEW c \in Commands, RememberRevision(c) PROVE Inv'
  <2>1. TypeOK' /\ PhaseInv' /\ PinInv'
    BY <1>3 DEF RememberRevision, Slot, PinInv, PinIsKept
  <2>2. LockInv' /\ PublishedInv' /\ WholeInv'
    BY <1>3 DEF RememberRevision, Slot, LockInv, LocksAreOfWriters, PublishedInv, OfflineServesPublished, WholeInv, EntriesAreWhole, Halfway
  <2> QED
    BY <2>1, <2>2
<1>4. ASSUME NEW c \in Commands, ResolveOffline(c) PROVE Inv'
  <2>1. TypeOK' /\ PhaseInv' /\ PinInv'
    BY <1>4 DEF ResolveOffline, Slot, PinInv, PinIsKept
  <2>2. LockInv' /\ PublishedInv' /\ WholeInv'
    BY <1>4 DEF ResolveOffline, Slot, LockInv, LocksAreOfWriters, PublishedInv, OfflineServesPublished, WholeInv, EntriesAreWhole, Halfway
  <2> QED
    BY <2>1, <2>2
<1>5. ASSUME NEW c \in Commands, FindEntry(c) PROVE Inv'
  <2>1. TypeOK' /\ PhaseInv' /\ PinInv'
    BY <1>5 DEF FindEntry, UsesCache, PinInv, PinIsKept
  <2>2. LockInv' /\ PublishedInv' /\ WholeInv'
    BY <1>5 DEF FindEntry, UsesCache, LockInv, LocksAreOfWriters, PublishedInv, OfflineServesPublished, WholeInv, EntriesAreWhole, Halfway
  <2> QED
    BY <2>1, <2>2
<1>6. ASSUME NEW c \in Commands, ReadManifest(c) PROVE Inv'
  <2>1. TypeOK' /\ PhaseInv' /\ PinInv'
    BY <1>6 DEF ReadManifest, PinInv, PinIsKept
  <2>2. LockInv' /\ PublishedInv' /\ WholeInv'
    BY <1>6 DEF ReadManifest, LockInv, LocksAreOfWriters, PublishedInv, OfflineServesPublished, WholeInv, EntriesAreWhole, Halfway
  <2> QED
    BY <2>1, <2>2
<1>7. ASSUME NEW c \in Commands, ReadPayload(c) PROVE Inv'
  <2>1. TypeOK' /\ PhaseInv' /\ PinInv'
    BY <1>7 DEF ReadPayload, Accepts, PinInv, PinIsKept
  <2>2. LockInv' /\ PublishedInv' /\ WholeInv'
    BY <1>7 DEF ReadPayload, Accepts, LockInv, LocksAreOfWriters, PublishedInv, OfflineServesPublished, WholeInv, EntriesAreWhole, Halfway
  <2> QED
    BY <2>1, <2>2
<1>8. ASSUME NEW c \in Commands, ReadRefused(c) PROVE Inv'
  <2>1. TypeOK' /\ PhaseInv' /\ PinInv'
    BY <1>8 DEF ReadRefused, PinInv, PinIsKept
  <2>2. LockInv' /\ PublishedInv' /\ WholeInv'
    BY <1>8 DEF ReadRefused, LockInv, LocksAreOfWriters, PublishedInv, OfflineServesPublished, WholeInv, EntriesAreWhole, Halfway
  <2> QED
    BY <2>1, <2>2
<1>9. ASSUME NEW c \in Commands, FetchPage(c) PROVE Inv'
  <2>1. TypeOK' /\ PhaseInv' /\ PinInv'
    BY <1>9 DEF FetchPage, UsesCache, RowsServed, PinInv, PinIsKept
  <2>2. LockInv' /\ PublishedInv' /\ WholeInv'
    BY <1>9 DEF FetchPage, UsesCache, RowsServed, LockInv, LocksAreOfWriters, PublishedInv, OfflineServesPublished, WholeInv, EntriesAreWhole, Halfway
  <2> QED
    BY <2>1, <2>2
<1>10. ASSUME NEW c \in Commands, Unavailable(c) PROVE Inv'
  <2>1. TypeOK' /\ PhaseInv' /\ PinInv'
    BY <1>10 DEF Unavailable, AsksProvider, UsesCache, PinInv, PinIsKept
  <2>2. LockInv' /\ PublishedInv' /\ WholeInv'
    BY <1>10 DEF Unavailable, AsksProvider, UsesCache, LockInv, LocksAreOfWriters, PublishedInv, OfflineServesPublished, WholeInv, EntriesAreWhole, Halfway
  <2> QED
    BY <2>1, <2>2
<1>11. ASSUME NEW c \in Commands, LockEntry(c) PROVE Inv'
  <2>1. TypeOK' /\ PhaseInv' /\ PinInv'
    BY <1>11 DEF LockEntry, LockIsFree, Mine, SetLock, PinInv, PinIsKept
  <2>2. LockInv'
    BY <1>11 DEF LockEntry, LockIsFree, Mine, SetLock, LockInv, LocksAreOfWriters
  <2>3. PublishedInv' /\ WholeInv'
    BY <1>11 DEF LockEntry, LockIsFree, Mine, SetLock, PublishedInv, OfflineServesPublished, WholeInv, EntriesAreWhole, Halfway, LockInv, LocksAreOfWriters
  <2> QED
    BY <2>1, <2>2, <2>3
<1>12. ASSUME NEW c \in Commands, PublishPayload(c) PROVE Inv'
  <2>1. TypeOK' /\ PhaseInv' /\ PinInv'
    BY <1>12 DEF PublishPayload, PinInv, PinIsKept
  <2>2. LockInv'
    BY <1>12 DEF PublishPayload, LockInv, LocksAreOfWriters
  <2>3. PublishedInv'
    BY <1>12 DEF PublishPayload, PublishedInv, OfflineServesPublished
  <2>4. WholeInv'
    BY <1>12 DEF PublishPayload, Rival, WholeInv, EntriesAreWhole, Halfway, LockInv, LocksAreOfWriters
  <2> QED
    BY <2>1, <2>2, <2>3, <2>4
<1>13. ASSUME NEW c \in Commands, PublishManifest(c) PROVE Inv'
  <2>1. TypeOK' /\ PhaseInv' /\ PinInv'
    BY <1>13 DEF PublishManifest, Released, Mine, SetLock, PinInv, PinIsKept
  <2>2. LockInv'
    BY <1>13 DEF PublishManifest, Released, Mine, SetLock, LockInv, LocksAreOfWriters
  <2>3. PublishedInv'
    BY <1>13 DEF PublishManifest, Released, Mine, SetLock, PublishedInv, OfflineServesPublished
  <2>4. WholeInv'
    BY <1>13 DEF PublishManifest, Released, Mine, SetLock, WholeInv, EntriesAreWhole, Halfway, LockInv, LocksAreOfWriters
  <2> QED
    BY <2>1, <2>2, <2>3, <2>4
<1>14. ASSUME NEW c \in Commands, WriteFails(c) PROVE Inv'
  <2>1. disturbed' \subseteq Versions
    <3>1. \A v \in disturbed' :
            v \in disturbed \/ \E d \in Commands : pc[d] = "halfway" /\ v = revision[d]
      BY <1>14 DEF WriteFails, Interrupted
    <3>2. disturbed \subseteq Versions
      OBVIOUS
    <3> HIDE DEF Versions
    <3> QED
      BY ONLY <1>0, <3>1, <3>2
  <2>2. TypeOK'
    BY <1>14, <2>1 DEF WriteFails, Released, Mine, SetLock
  <2>3. PhaseInv' /\ PinInv'
    BY <1>14 DEF WriteFails, Interrupted, Released, Mine, SetLock, PinInv, PinIsKept
  <2>4. LockInv'
    BY <1>14 DEF WriteFails, Interrupted, Released, Mine, SetLock, LockInv, LocksAreOfWriters
  <2>5. PublishedInv'
    BY <1>14 DEF WriteFails, Interrupted, Released, Mine, SetLock, PublishedInv, OfflineServesPublished
  <2>6. WholeInv'
    BY <1>14 DEF WriteFails, Interrupted, Released, Mine, SetLock, WholeInv, EntriesAreWhole, Halfway, LockInv, LocksAreOfWriters
  <2> QED
    BY <2>2, <2>3, <2>4, <2>5, <2>6
<1>15. ASSUME NEW o \in Processes, KillProcess(o) PROVE Inv'
  <2> DEFINE dying == {c \in Commands : ProcessOf[c] = o /\ pc[c] \notin Ended}
  <2>1. disturbed' = disturbed \union {revision[c] : c \in {d \in dying : pc[d] = "halfway"}}
    BY <1>15 DEF KillProcess, Interrupted
  <2>2. disturbed' \subseteq Versions
    <3>1. \A v \in disturbed' :
            v \in disturbed \/ \E d \in Commands : pc[d] = "halfway" /\ v = revision[d]
      BY <2>1
    <3>2. disturbed \subseteq Versions
      OBVIOUS
    <3> HIDE DEF Versions
    <3> QED
      BY ONLY <1>0, <3>1, <3>2
  <2>3. TypeOK'
    BY <1>15, <2>2 DEF KillProcess
  <2>4. PhaseInv' /\ PinInv'
    BY <1>15 DEF KillProcess, Interrupted, PinInv, PinIsKept
  <2>5. LockInv'
    <3>1. /\ pc' = [c \in Commands |-> IF ProcessOf[c] = o /\ pc[c] \notin Ended
                                       THEN "killed" ELSE pc[c]]
          /\ lock' = [lock EXCEPT ![o] = [v \in Versions |-> None]]
          /\ revision' = revision
      BY <1>15 DEF KillProcess
    <3>2. \A c \in Commands : pc'[c] \in Writing <=> pc[c] \in Writing /\ ProcessOf[c] # o
      BY <3>1
    <3>3. \A q \in Processes \ {o} : lock'[q] = lock[q]
      BY <3>1
    <3>4. \A v \in Versions : lock'[o][v] = None
      BY <3>1
    <3> QED
      BY <3>1, <3>2, <3>3, <3>4 DEF LockInv, LocksAreOfWriters
  <2>6. PublishedInv'
    BY <1>15 DEF KillProcess, Interrupted, PublishedInv, OfflineServesPublished
  <2>7. WholeInv'
    <3>1. ASSUME NEW c \in Commands, pc[c] = "halfway", revision[c] \notin disturbed'
          PROVE  pc'[c] = "halfway"
      BY <1>15, <2>1, <3>1 DEF KillProcess
    <3>2. disturbed \subseteq disturbed' /\ UNCHANGED <<payload, manifest, revision, page>>
      BY <1>15, <2>1 DEF KillProcess
    <3>3. EntriesAreWhole'
      BY <3>1, <3>2 DEF WholeInv, EntriesAreWhole, Halfway
    <3>4. \A c \in Commands : pc'[c] = "halfway" => pc[c] = "halfway"
      BY <1>15 DEF KillProcess
    <3> QED
      BY <3>2, <3>3, <3>4 DEF WholeInv
  <2> QED
    BY <2>3, <2>4, <2>5, <2>6, <2>7
<1>16. ASSUME AllEnded PROVE Inv'
  BY <1>16 DEF AllEnded, vars, LockInv, LocksAreOfWriters, PinInv, PinIsKept, PublishedInv, OfflineServesPublished, WholeInv, EntriesAreWhole, Halfway
<1> QED
  BY <1>1, <1>2, <1>3, <1>4, <1>5, <1>6, <1>7, <1>8, <1>9, <1>10, <1>11, <1>12, <1>13, <1>14, <1>15, <1>16 DEF Next, Proceed

THEOREM Invariance == Spec => []Inv
<1>1. Inv /\ UNCHANGED vars => Inv'
  BY DEF Inv, vars, TypeOK, PhaseInv, Offline, LockInv, LocksAreOfWriters, PinInv, PinIsKept,
         PublishedInv, OfflineServesPublished, WholeInv, EntriesAreWhole, Halfway
<1> QED
  BY <1>1, InitInv, StepInv, PTL DEF Spec

\* Every variable has its type.
THEOREM TypeCorrect == Spec => []TypeOK
<1>1. Inv => TypeOK
  BY DEF Inv
<1> QED
  BY <1>1, Invariance, PTL

\* ResolutionCache: a pin keeps its meaning, whatever else was resolved.
THEOREM PinsAreKept == Spec => []PinIsKept
<1>1. Inv => PinIsKept
  BY DEF Inv, PinInv
<1> QED
  BY <1>1, Invariance, PTL

\* DatasetCache.read: what a lock-free reader without a network is served was
\* published, whole, under the revision it asked for.
THEOREM OfflineIsPublished == Spec => []OfflineServesPublished
<1>1. Inv => OfflineServesPublished
  BY DEF Inv, PublishedInv
<1> QED
  BY <1>1, Invariance, PTL

\* DatasetCache.write: entries are whole except where a writer was interrupted
\* or two processes wrote at once.
THEOREM EntriesStayWhole == Spec => []EntriesAreWhole
<1>1. Inv => EntriesAreWhole
  BY DEF Inv, WholeInv
<1> QED
  BY <1>1, Invariance, PTL

\* KeyedLocks: no failed or killed writer leaves a lock behind.
THEOREM LocksEndWithWriters == Spec => []LocksAreOfWriters
<1>1. Inv => LocksAreOfWriters
  BY DEF Inv, LockInv
<1> QED
  BY <1>1, Invariance, PTL

\* DatasetCatalog.preview: a page that was published is not asked for again,
\* however damaged its entry is since.
THEOREM PublishedStaysFound == Spec => NoSilentRefetch
<1>1. ASSUME Inv, [Next]_vars, NEW c \in Commands,
             pc[c] = "resolved", pc'[c] \in {"missed", "miss"}
      PROVE  published[revision[c]] = {}
  <2>1. CASE UNCHANGED vars
    BY <1>1, <2>1 DEF vars
  <2>2. CASE Next
    <3>1. FindEntry(c)
      <4>1. ASSUME NEW d \in Commands, d # c, Proceed(d) \/ ReadRefused(d) \/ Unavailable(d) \/ WriteFails(d)
            PROVE  pc'[c] = pc[c]
        BY <1>1, <4>1 DEF Inv, TypeOK, Goto, Proceed, ReadRefused, Unavailable, WriteFails, AskRevision,
             RememberRevision, ResolveOffline, FindEntry, ReadManifest, ReadPayload, FetchPage,
             LockEntry, PublishPayload, PublishManifest
      <4>2. ASSUME Proceed(c) \/ ReadRefused(c) \/ Unavailable(c) \/ WriteFails(c)
            PROVE  FindEntry(c)
        BY <1>1, <4>2 DEF Inv, TypeOK, Goto, Proceed, ReadRefused, Unavailable, WriteFails, AskRevision,
             RememberRevision, ResolveOffline, ReadManifest, ReadPayload, FetchPage,
             LockEntry, PublishPayload, PublishManifest
      <4>3. ASSUME NEW o \in Processes, KillProcess(o)
            PROVE  pc'[c] \in {pc[c], "killed"}
        BY <1>1, <4>3 DEF Inv, TypeOK, KillProcess
      <4>4. ~Push /\ ~AllEnded
        BY <1>1 DEF Push, AllEnded, Ended
      <4> QED
        BY <1>1, <2>2, <4>1, <4>2, <4>3, <4>4 DEF Next
    <3> QED
      BY <1>1, <3>1, CatalogAssumption
        DEF FindEntry, Goto, UsesCache, Offline, Inv, TypeOK, Pins, PhaseInv, Busy, PublishedInv
  <2> QED
    BY <1>1, <2>1, <2>2
<1>2. Inv /\ [Next]_vars =>
        [\A c \in Commands : pc[c] = "resolved" /\ pc'[c] \in {"missed", "miss"} =>
           published[revision[c]] = {}]_vars
  BY <1>1
<1> QED
  BY <1>2, Invariance, PTL DEF Spec, NoSilentRefetch
=============================================================================
