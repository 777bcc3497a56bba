----------------------------- MODULE TargetProofs -----------------------------
(***************************************************************************)
(* Proofs about RemoteTarget, for any number of attempts, threads and      *)
(* retries, and about ProcessTarget, for any pipe, request and builds.     *)
(***************************************************************************)
EXTENDS RemoteTarget, ProcessTarget, TLAPS

Awaiting(a) == pc[a] = "call" /\ a \notin queue

\* Everything that came back for the attempt was worth a retry.
AllTransient(a) == \A i \in 1..Len(replies[a]) : replies[a][i] \in Transient

\* Where an attempt is, what it sent and what it heard go together: what it waits for
\* was sent and is still at work, a call in the queue was not sent yet.
PhaseOf(a) ==
  /\ Awaiting(a) => far[a] > 0
  /\ ~Over(a) => result[a] = None
  /\ pc[a] = "idle" \/ a \in queue => sent[a] = 0 /\ replies[a] = <<>>
  /\ a \in queue => pc[a] = "call" /\ kind = "sync"

\* A request beside the first one was sent for a reply that earned it.
CountOf(a) ==
  /\ kind # "claude" /\ Awaiting(a) =>
       sent[a] = Len(replies[a]) + 1 /\ AllTransient(a) /\ sent[a] <= MaxRetries + 1
  /\ pc[a] = "backoff" =>
       /\ kind = "http"
       /\ sent[a] = Len(replies[a]) /\ AllTransient(a) /\ sent[a] <= MaxRetries
  /\ kind = "claude" => sent[a] <= 1

Bad == {"rejected", "failed", "raised"}

\* A stream that is still read has brought no trouble.
StreamOf(a) ==
  kind = "claude" /\ Awaiting(a) =>
    \A i \in 1..Len(replies[a]) : replies[a][i] \notin Bad

EarnedOf(a) ==
  /\ sent[a] <= MaxRetries + 1
  /\ kind # "claude" => \A i \in 1..(sent[a] - 1) : replies[a][i] \in Transient
  /\ result[a] = "completed" =>
       /\ Last(replies[a]) \in {"good", "end"}
       /\ ToSet(replies[a]) \intersect Bad = {}

Of(a) == PhaseOf(a) /\ CountOf(a) /\ StreamOf(a) /\ EarnedOf(a)

Inv == TypeOK /\ \A a \in Attempts : Of(a)

\* A reply worth a retry says nothing against a later good one.
LEMMA TransientIsNotBad ==
  ASSUME NEW R, \A x \in R : x \in Transient, NEW r, r \notin Bad
  PROVE  (R \union {r}) \intersect Bad = {}
  BY DEF Transient, Bad

\* What kind of target gives which reply.
LEMMA ReplyFacts ==
  ASSUME TypeOK, NEW r \in Replies
  PROVE  /\ r \in AnyReply
         /\ Retryable(r) => kind = "http"
         /\ kind = "claude" => r \in StreamReplies
<1>1. kind \in {"sync", "async", "http", "claude"}
  BY RemoteAssumption DEF TypeOK
<1>2. CASE kind = "http"
  <2>1. Replies = HttpReplies
    BY <1>2 DEF Replies
  <2>2. r \in HttpReplies
    BY <2>1
  <2> QED
    BY <1>2, <2>2 DEF AnyReply, HttpReplies
<1>3. CASE kind = "claude"
  <2>1. Replies = StreamReplies
    BY <1>3 DEF Replies
  <2>2. r \in StreamReplies
    BY <2>1
  <2> QED
    BY <1>3, <2>2 DEF AnyReply, StreamReplies, Retryable, Transient
<1>4. CASE kind \in {"sync", "async"}
  <2>1. Replies = FunctionReplies
    BY <1>4 DEF Replies
  <2>2. r \in FunctionReplies
    BY <2>1
  <2> QED
    BY <1>4, <2>2 DEF AnyReply, FunctionReplies, Retryable, Transient
<1> QED
  BY <1>1, <1>2, <1>3, <1>4

\* Of the replies that end a call only a good one completes the attempt.
LEMMA StatusFacts ==
  ASSUME NEW r \in Replies
  PROVE  /\ Status(r) \in {"completed", "error", "timeout"}
         /\ Status(r) = "completed" => r = "good"
  BY DEF Status, HttpStatus, CallStatus

\* What the last reply adds to the ones before it.
LEMMA AppendFacts ==
  ASSUME NEW s \in Seq(AnyReply), NEW r \in AnyReply
  PROVE  /\ Append(s, r) \in Seq(AnyReply)
         /\ Len(Append(s, r)) = Len(s) + 1
         /\ \A i \in 1..Len(s) : Append(s, r)[i] = s[i]
         /\ Last(Append(s, r)) = r
         /\ ToSet(Append(s, r)) = {s[i] : i \in 1..Len(s)} \union {r}
<1>1. /\ Append(s, r) \in Seq(AnyReply)
      /\ Len(Append(s, r)) = Len(s) + 1
      /\ \A i \in 1..Len(s) : Append(s, r)[i] = s[i]
      /\ Append(s, r)[Len(s) + 1] = r
  OBVIOUS
<1>2. DOMAIN Append(s, r) = 1..Len(s) \union {Len(s) + 1}
  OBVIOUS
<1>3. Last(Append(s, r)) = r
  BY <1>1 DEF Last
<1>4. ToSet(Append(s, r)) = {Append(s, r)[i] : i \in 1..Len(s) \union {Len(s) + 1}}
  BY <1>2 DEF ToSet
<1> QED
  BY <1>1, <1>3, <1>4

\* Nothing is sent, heard or queued before the first attempt begins.
LEMMA InitInv == Init => Inv
<1> SUFFICES ASSUME Init PROVE Inv
  OBVIOUS
<1>1. TypeOK
  BY DEF Init, TypeOK
<1>2. ASSUME NEW a \in Attempts PROVE Of(a)
  BY RemoteAssumption
     DEF Init, Of, PhaseOf, CountOf, StreamOf, EarnedOf, Over, Awaiting, Replies
<1> QED
  BY <1>1, <1>2 DEF Inv

(***************************************************************************)
(* One step of one attempt.                                                *)
(***************************************************************************)
\* A step of an attempt keeps the types.
LEMMA StepType ==
  ASSUME Inv, NEW a \in Attempts, Attempt(a)
  PROVE  TypeOK'
<1> USE DEF Inv, TypeOK
<1>1. CASE Refuse(a)
  BY <1>1 DEF Refuse, Return
<1>2. CASE Begin(a)
  <2>1. CASE kind = "sync"
    BY <1>2, <2>1 DEF Begin
  <2>2. CASE kind # "sync"
    <3>1. Dispatch(a) /\ pc' = [pc EXCEPT ![a] = "call"]
          /\ UNCHANGED <<kind, limited, queue, replies, result>>
      BY <1>2, <2>2 DEF Begin
    <3>2. sent' \in [Attempts -> Nat] /\ far' \in [Attempts -> Nat]
      BY <3>1 DEF Dispatch
    <3> QED
      BY <3>1, <3>2
  <2> QED
    BY <2>1, <2>2
<1>3. CASE ThreadTakes(a)
  BY <1>3 DEF ThreadTakes, Dispatch
<1>4. CASE Resume(a)
  BY <1>4 DEF Resume, Dispatch
<1>5. ASSUME NEW r \in Replies, Hear(a, r)
      PROVE  replies' \in [Attempts -> Seq(AnyReply)] /\ far[a] > 0
  <2>1. Append(replies[a], r) \in Seq(AnyReply)
    BY ReplyFacts, AppendFacts
  <2> QED
    BY <1>5, <2>1 DEF Hear, Of, PhaseOf, Awaiting
<1>6. ASSUME NEW r \in Replies, Hear(a, r), Released(a, r) PROVE far' \in [Attempts -> Nat]
  <2>1. far[a] - 1 \in Nat
    BY <1>5, <1>6
  <2> QED
    BY <1>6, <2>1 DEF Released
<1>7. CASE Retry(a)
  <2>1. PICK r \in Replies : Hear(a, r) /\ Released(a, r)
    BY <1>7 DEF Retry
  <2> QED
    BY <1>5, <1>6, <1>7, <2>1 DEF Retry
<1>8. CASE Answer(a)
  <2>1. PICK r \in Replies : Hear(a, r) /\ Released(a, r) /\ Return(a, Status(r))
    BY <1>8 DEF Answer
  <2> QED
    BY <1>5, <1>6, <1>8, <2>1, StatusFacts DEF Answer, Return
<1>9. CASE StreamGoesOn(a)
  BY <1>5, <1>9 DEF StreamGoesOn
<1>10. CASE StreamLeft(a)
  <2>1. PICK r \in Replies : Hear(a, r) /\ Return(a, Status(r))
    BY <1>10 DEF StreamLeft
  <2> QED
    BY <1>5, <1>10, <2>1, StatusFacts DEF StreamLeft, Return
<1>11. CASE StreamEnds(a)
  <2>1. "end" \in Replies /\ Hear(a, "end") /\ Released(a, "end")
    BY <1>11 DEF StreamEnds, Hear
  <2> QED
    BY <1>5, <1>6, <1>11, <2>1 DEF StreamEnds, Return
<1>12. CASE Timer(a)
  BY <1>12 DEF Timer, Return, Abandon
<1>13. CASE Cancel(a)
  BY <1>13 DEF Cancel, Abandon
<1>14. CASE FarEnds(a)
  <2>1. far[a] - 1 \in Nat
    BY <1>14 DEF FarEnds, Awaited
  <2> QED
    BY <1>14, <2>1 DEF FarEnds
<1> QED
  BY <1>1, <1>2, <1>3, <1>4, <1>7, <1>8, <1>9, <1>10, <1>11, <1>12, <1>13, <1>14 DEF Attempt

\* A step of an attempt leaves the other attempts alone.
LEMMA OthersStep ==
  ASSUME TypeOK, NEW a \in Attempts, Attempt(a), NEW o \in Attempts, o # a
  PROVE  /\ pc'[o] = pc[o] /\ sent'[o] = sent[o] /\ far'[o] = far[o]
         /\ replies'[o] = replies[o] /\ result'[o] = result[o]
         /\ (o \in queue' <=> o \in queue) /\ kind' = kind
  BY DEF TypeOK, Attempt, Refuse, Begin, ThreadTakes, Resume, Retry, Answer, StreamGoesOn,
         StreamLeft, StreamEnds, Timer, Cancel, FarEnds, Hear, Released, Return, Dispatch,
         Abandon

\* Of an attempt that awaits its answer, one more reply.
LEMMA HearFacts ==
  ASSUME Inv, NEW a \in Attempts, NEW r \in Replies, Hear(a, r)
  PROVE  /\ pc[a] = "call" /\ a \notin queue /\ Awaiting(a)
         /\ Len(replies[a]) \in Nat /\ Len(replies'[a]) = Len(replies[a]) + 1
         /\ \A i \in 1..Len(replies[a]) : replies'[a][i] = replies[a][i]
         /\ replies'[a][Len(replies[a]) + 1] = r
         /\ Last(replies'[a]) = r
         /\ ToSet(replies'[a]) = {replies[a][i] : i \in 1..Len(replies[a])} \union {r}
<1>1. r \in AnyReply /\ replies[a] \in Seq(AnyReply)
  BY ReplyFacts DEF Inv, TypeOK
<1>2. replies'[a] = Append(replies[a], r)
  BY DEF Hear, Inv, TypeOK
<1>3. Append(replies[a], r)[Len(replies[a]) + 1] = r /\ Len(replies[a]) \in Nat
  BY <1>1
<1>4. pc[a] = "call" /\ a \notin queue /\ Awaiting(a)
  BY DEF Hear, Awaiting
<1> QED
  BY <1>1, <1>2, <1>3, <1>4, AppendFacts

\* What is so of all replies so far and of the new one is so of all.
LEMMA HearAll ==
  ASSUME Inv, NEW a \in Attempts, NEW r \in Replies, Hear(a, r), NEW S,
         r \in S, \A i \in 1..Len(replies[a]) : replies[a][i] \in S
  PROVE  /\ \A i \in 1..Len(replies'[a]) : replies'[a][i] \in S
         /\ \A x \in ToSet(replies'[a]) : x \in S
<1>1. /\ Len(replies[a]) \in Nat /\ Len(replies'[a]) = Len(replies[a]) + 1
      /\ \A i \in 1..Len(replies[a]) : replies'[a][i] = replies[a][i]
      /\ replies'[a][Len(replies[a]) + 1] = r
  BY HearFacts
<1>2. \A i \in 1..Len(replies'[a]) : i \in 1..Len(replies[a]) \/ i = Len(replies[a]) + 1
  BY <1>1
<1>3. ToSet(replies'[a]) = {replies[a][i] : i \in 1..Len(replies[a])} \union {r}
  BY HearFacts
<1> QED
  BY <1>1, <1>2, <1>3

\* A dispatched call is one more request, and the far side is at work.
LEMMA DispatchFacts ==
  ASSUME TypeOK, NEW a \in Attempts, Dispatch(a)
  PROVE  sent'[a] = sent[a] + 1 /\ far'[a] > 0
  BY DEF TypeOK, Dispatch

\* An attempt that waits for its turn has sent and heard nothing.
LEMMA UnsentFacts ==
  ASSUME Inv, NEW a \in Attempts, pc[a] = "idle" \/ a \in queue
  PROVE  sent[a] = 0 /\ replies[a] = <<>> /\ result[a] = None
  BY DEF Inv, Of, PhaseOf, Over

\* An attempt that has just made its first call.
LEMMA FirstCall ==
  ASSUME NEW a \in Attempts,
         sent'[a] = 1, far'[a] > 0, replies'[a] = <<>>, a \notin queue', pc'[a] = "call",
         result'[a] = None
  PROVE  Of(a)'
<1>1. PhaseOf(a)'
  BY DEF PhaseOf, Over
<1>2. CountOf(a)'
  BY RemoteAssumption DEF CountOf, AllTransient
<1>3. StreamOf(a)'
  BY DEF StreamOf
<1>4. EarnedOf(a)'
  BY RemoteAssumption DEF EarnedOf
<1> QED
  BY <1>1, <1>2, <1>3, <1>4 DEF Of

\* A step of an attempt keeps what holds of that attempt.
LEMMA OwnStep ==
  ASSUME Inv, NEW a \in Attempts, Attempt(a)
  PROVE  Of(a)'
<1> USE RemoteAssumption DEF Inv, TypeOK, Of, PhaseOf, CountOf, StreamOf, EarnedOf, Awaiting,
        Over, AllTransient
<1>1. CASE Refuse(a)
  BY <1>1 DEF Refuse, Return
<1>2. CASE Begin(a)
  <2>1. CASE kind = "sync"
    BY <1>2, <2>1 DEF Begin
  <2>2. CASE kind # "sync"
    <3>1. Dispatch(a) /\ pc' = [pc EXCEPT ![a] = "call"]
          /\ UNCHANGED <<kind, limited, queue, replies, result>> /\ pc[a] = "idle"
      BY <1>2, <2>2 DEF Begin
    <3>2. /\ sent'[a] = 1 /\ far'[a] > 0 /\ replies'[a] = <<>> /\ a \notin queue'
          /\ pc'[a] = "call" /\ result'[a] = None
      <4>1. sent[a] = 0 /\ replies[a] = <<>> /\ result[a] = None /\ a \notin queue
        BY <3>1, UnsentFacts
      <4>2. sent'[a] = sent[a] + 1 /\ far'[a] > 0
        BY <3>1, DispatchFacts
      <4>3. pc'[a] = "call"
        BY <3>1
      <4> QED
        BY <3>1, <4>1, <4>2, <4>3
    <3> QED
      BY <3>2, FirstCall
  <2> QED
    BY <2>1, <2>2
<1>3. CASE ThreadTakes(a)
  <2>1. /\ sent'[a] = 1 /\ far'[a] > 0 /\ replies'[a] = <<>> /\ a \notin queue'
        /\ pc'[a] = "call" /\ result'[a] = None
    <3>1. sent[a] = 0 /\ replies[a] = <<>> /\ result[a] = None /\ pc[a] = "call"
      BY <1>3, UnsentFacts DEF ThreadTakes
    <3>2. sent'[a] = sent[a] + 1 /\ far'[a] > 0
      BY <1>3, DispatchFacts DEF ThreadTakes
    <3>3. UNCHANGED <<pc, replies, result>> /\ a \notin queue'
      BY <1>3 DEF ThreadTakes
    <3> QED
      BY <3>1, <3>2, <3>3
  <2> QED
    BY <2>1, FirstCall
<1>4. CASE Resume(a)
  <2>1. sent'[a] = sent[a] + 1 /\ far'[a] > 0
    BY <1>4, DispatchFacts DEF Resume
  <2>2. pc[a] = "backoff" /\ pc'[a] = "call" /\ UNCHANGED <<kind, queue, replies, result>>
    BY <1>4 DEF Resume
  <2>3. /\ kind = "http" /\ sent[a] = Len(replies[a]) /\ AllTransient(a)
        /\ sent[a] <= MaxRetries /\ result[a] = None /\ a \notin queue
    BY <2>2
  <2>4. /\ sent'[a] <= MaxRetries + 1
        /\ sent'[a] - 1 = Len(replies[a]) /\ sent'[a] = Len(replies[a]) + 1
    BY <2>1, <2>3
  <2> QED
    BY <2>1, <2>2, <2>3, <2>4
<1>5. CASE Timer(a)
  <2>1. /\ pc'[a] = "done" /\ result'[a] = "timeout" /\ UNCHANGED <<kind, sent, replies>>
        /\ a \notin queue' /\ pc[a] \in {"call", "backoff"}
    BY <1>5 DEF Timer, Return, Abandon, HasTimer
  <2>2. \A i \in 1..(sent[a] - 1) : kind # "claude" => replies[a][i] \in Transient
    OBVIOUS
  <2> QED
    BY <2>1, <2>2
<1>6. CASE Cancel(a)
  <2>1. /\ pc'[a] = "cancelled" /\ result'[a] = None /\ UNCHANGED <<kind, sent, replies>>
        /\ a \notin queue'
    BY <1>6 DEF Cancel, Abandon
  <2> QED
    BY <2>1
<1>7. CASE FarEnds(a)
  <2>1. Awaiting(a) => far'[a] > 0
    BY <1>7 DEF FarEnds, Awaited
  <2>2. UNCHANGED <<kind, pc, queue, sent, replies, result>>
    BY <1>7 DEF FarEnds
  <2> QED
    BY <2>1, <2>2
<1>8. CASE Retry(a)
  <2>1. PICK r \in Replies : Retryable(r) /\ sent[a] <= MaxRetries /\ Hear(a, r)
    BY <1>8 DEF Retry
  <2>2. kind = "http" /\ r \in Transient
    BY <2>1, ReplyFacts DEF Retryable
  <2>3. pc'[a] = "backoff" /\ UNCHANGED <<kind, queue, sent, result>>
    BY <1>8 DEF Retry
  <2>4. Awaiting(a) /\ sent[a] = Len(replies[a]) + 1 /\ AllTransient(a)
    BY <2>1, <2>2, HearFacts
  <2>5. \A i \in 1..Len(replies'[a]) : replies'[a][i] \in Transient
    BY <2>1, <2>2, <2>4, HearAll
  <2>6. sent[a] = Len(replies'[a]) /\ a \notin queue /\ result[a] = None
    BY <2>1, <2>4, HearFacts
  <2> QED
    BY <2>1, <2>2, <2>3, <2>5, <2>6
<1>9. CASE Answer(a)
  <2>1. PICK r \in Replies : /\ Retryable(r) => sent[a] > MaxRetries
                             /\ Hear(a, r) /\ Return(a, Status(r))
    BY <1>9 DEF Answer
  <2>2. /\ kind # "claude" /\ UNCHANGED <<kind, queue, sent>> /\ pc'[a] = "done"
        /\ result'[a] = Status(r)
    BY <1>9, <2>1 DEF Answer, Return
  <2>3. /\ sent[a] = Len(replies[a]) + 1 /\ AllTransient(a) /\ sent[a] <= MaxRetries + 1
        /\ a \notin queue
    BY <2>1, <2>2, HearFacts
  <2>4. \A i \in 1..(sent[a] - 1) : replies'[a][i] \in Transient
    <3>1. Len(replies[a]) \in Nat /\ \A i \in 1..Len(replies[a]) : replies'[a][i] = replies[a][i]
      BY <2>1, HearFacts
    <3>2. sent[a] - 1 = Len(replies[a])
      BY <2>3, <3>1
    <3> QED
      BY <2>3, <3>1, <3>2
  <2>5. ASSUME result'[a] = "completed"
        PROVE  /\ Last(replies'[a]) \in {"good", "end"}
               /\ ToSet(replies'[a]) \intersect Bad = {}
    <3>1. r = "good"
      BY <2>2, <2>5, StatusFacts
    <3>2. Last(replies'[a]) = r
          /\ ToSet(replies'[a]) = {replies[a][i] : i \in 1..Len(replies[a])} \union {r}
      BY <2>1, HearFacts
    <3>3. \A x \in {replies[a][i] : i \in 1..Len(replies[a])} : x \in Transient
      BY <2>3
    <3>4. Last(replies'[a]) \in {"good", "end"}
      BY <3>1, <3>2
    <3>5. r \notin Bad
      BY <3>1 DEF Bad
    <3>6. ToSet(replies'[a]) \intersect Bad = {}
      BY <3>2, <3>3, <3>5, TransientIsNotBad
    <3> QED
      BY <3>4, <3>6
  <2> QED
    BY <2>2, <2>3, <2>4, <2>5
<1>10. CASE StreamGoesOn(a)
  <2>1. PICK r \in Replies : ~StreamTrouble(r) /\ Hear(a, r)
    BY <1>10 DEF StreamGoesOn
  <2>2. kind = "claude" /\ UNCHANGED <<kind, pc, queue, sent, far, result>>
    BY <1>10 DEF StreamGoesOn
  <2>3. r \in AnyReply \ Bad
    BY <2>1, ReplyFacts DEF StreamTrouble, Bad
  <2>4. /\ Awaiting(a) /\ far[a] > 0 /\ result[a] = None
        /\ \A i \in 1..Len(replies[a]) : replies[a][i] \in AnyReply \ Bad
    <3>1. replies[a] \in Seq(AnyReply)
      OBVIOUS
    <3>2. \A i \in 1..Len(replies[a]) : replies[a][i] \in AnyReply
      BY <3>1
    <3>3. Awaiting(a)
      BY <2>1, HearFacts
    <3>4. \A i \in 1..Len(replies[a]) : replies[a][i] \notin Bad
      BY <2>2, <3>3
    <3> QED
      BY <3>2, <3>3, <3>4
  <2>5. \A i \in 1..Len(replies'[a]) : replies'[a][i] \in AnyReply \ Bad
    BY <2>1, <2>3, <2>4, HearAll
  <2> QED
    BY <2>2, <2>4, <2>5
<1>11. CASE StreamLeft(a)
  <2>1. PICK r \in Replies : StreamTrouble(r) /\ Return(a, Status(r))
    BY <1>11 DEF StreamLeft
  <2>2. /\ kind = "claude" /\ UNCHANGED <<kind, queue, sent>> /\ pc'[a] = "done"
        /\ result'[a] = Status(r)
    BY <1>11, <2>1 DEF StreamLeft, Return
  <2>3. result'[a] # "completed"
    BY <2>1, <2>2, StatusFacts DEF StreamTrouble
  <2>4. a \notin queue
    BY <2>2
  <2> QED
    BY <2>2, <2>3, <2>4
<1>12. CASE StreamEnds(a)
  <2>1. kind = "claude" /\ "end" \in Replies /\ Hear(a, "end")
    BY <1>12 DEF StreamEnds, Hear
  <2>2. UNCHANGED <<kind, queue, sent>> /\ pc'[a] = "done"
    BY <1>12 DEF StreamEnds, Return
  <2>3. Last(replies'[a]) = "end"
        /\ ToSet(replies'[a]) = {replies[a][i] : i \in 1..Len(replies[a])} \union {"end"}
    BY <2>1, HearFacts
  <2>4. \A x \in {replies[a][i] : i \in 1..Len(replies[a])} : x \notin Bad
    BY <2>1, HearFacts
  <2>5. ToSet(replies'[a]) \intersect Bad = {}
    BY <2>3, <2>4 DEF Bad
  <2>6. a \notin queue
    BY <2>1
  <2> QED
    BY <2>1, <2>2, <2>3, <2>5, <2>6
<1> QED
  BY <1>1, <1>2, <1>3, <1>4, <1>5, <1>6, <1>7, <1>8, <1>9, <1>10, <1>11, <1>12 DEF Attempt

\* So every step of the specification keeps it of all attempts.
LEMMA NextInv == Inv /\ [Next]_vars => Inv'
<1> SUFFICES ASSUME Inv, [Next]_vars PROVE Inv'
  OBVIOUS
<1>1. CASE UNCHANGED vars
  BY <1>1 DEF vars, Inv, TypeOK, Of, PhaseOf, CountOf, StreamOf, EarnedOf, Awaiting, Over,
              AllTransient
<1>2. ASSUME NEW a \in Attempts, Attempt(a) PROVE Inv'
  <2>1. ASSUME NEW o \in Attempts, o # a PROVE Of(o)'
    <3>1. /\ pc'[o] = pc[o] /\ sent'[o] = sent[o] /\ far'[o] = far[o]
          /\ replies'[o] = replies[o] /\ result'[o] = result[o]
          /\ (o \in queue' <=> o \in queue) /\ kind' = kind
      BY <1>2, <2>1, OthersStep DEF Inv
    <3> QED
      BY <3>1 DEF Inv, Of, PhaseOf, CountOf, StreamOf, EarnedOf, Awaiting, Over, AllTransient
  <2> QED
    BY <1>2, <2>1, StepType, OwnStep DEF Inv
<1> QED
  BY <1>1, <1>2 DEF Next, Ended

\* The strengthening is an invariant: the theorems below rest on it.
LEMMA Invariance == Spec => []Inv
  BY InitInv, NextInv, PTL DEF Spec

\* The state has its types, for every kind of target.
THEOREM RemoteTypeCorrect == Spec => []TypeOK
<1>1. Inv => TypeOK
  BY DEF Inv
<1> QED
  BY <1>1, Invariance, PTL

\* Every request beside the first was earned by the replies before it, there are never
\* more than max_retries of them, and a completed result is of an answer that stands.
THEOREM EveryRetryIsEarned == Spec => []RetriesAreEarned
<1>1. Inv => RetriesAreEarned
  BY DEF Inv, Of, EarnedOf, RetriesAreEarned, Bad
<1> QED
  BY <1>1, Invariance, PTL

\* An attempt that is over, by its answer, its timer or a cancellation, starts no call.
THEOREM OverStartsNothing == Spec => NothingStartsLate
<1>1. Inv /\ [Next]_vars => [\A a \in Attempts : Over(a) => sent'[a] = sent[a]]_vars
  <2> SUFFICES ASSUME Inv, NEW a \in Attempts, Attempt(a), NEW o \in Attempts, Over(o)
               PROVE  sent'[o] = sent[o]
    BY DEF Next, Ended, vars
  <2>1. CASE o # a
    BY <2>1, OthersStep DEF Inv
  <2>2. CASE o = a
    <3>1. pc[a] \notin {"idle", "call", "backoff"} /\ a \notin queue
      BY <2>2 DEF Over, Inv, Of, PhaseOf
    <3> QED
      BY <2>2, <3>1
         DEF Attempt, Refuse, Begin, ThreadTakes, Resume, Retry, Answer, StreamGoesOn,
             StreamLeft, StreamEnds, Timer, Cancel, FarEnds, Hear, HasTimer, Abandon
  <2> QED
    BY <2>1, <2>2
<1> QED
  BY <1>1, Invariance, PTL DEF Spec, NothingStartsLate

(***************************************************************************)
(* A process target.                                                       *)
(***************************************************************************)
\* The program is there from the spawn on, and dead once _terminate waits for it, or
\* asyncio for one whose spawn was cut off.
LifeInv ==
  /\ leader = "unborn" => stage \in {"start", "done"}
  /\ stage = "start" => leader = "unborn"
  /\ stage \in {"unspawn", "wait"} => leader # "up"
  /\ final => stage \in {"kill", "taskkill", "wait", "done"}

\* Only on Windows may a program outlive a _terminate: one that has not got past its
\* taskkill when it is cut short.  Of the two interruptions that takes (one to enter the
\* finally of a program that still runs, or the cancellation alone under jsonl, whose
\* timer ends with the body) one is a cancellation.
HuntInv ==
  /\ stage = "taskkill" \/ killers # {} => build.system = "windows"
  /\ stage = "taskkill" /\ leader = "up" => final \in killers \/ spared
  /\ stage = "collect" /\ Mcp => leader = "reaped"
  /\ final /\ Mcp /\ leader = "up" /\ stage \in {"kill", "taskkill"}
       => expired \/ verdict = "cancelled"
  /\ stage = "done" /\ leader = "up"
       => /\ build.system = "windows" /\ verdict = "cancelled"
          /\ spared \/ TRUE \in killers

\* Whoever was killed stays dead, and its group with it where it has one, or all of its
\* tree that taskkill found.
KilledInv ==
  signalled =>
    /\ leader \in {"gone", "reaped"}
    /\ helper = "up" => IF build.system = "windows" THEN spared ELSE Mcp

\* The frames that are no tools/call.
NoCall == Frames \ {"call"}

\* No tools/call is on its way, or was read, before it is recorded.
CallInv == recorded \/ (unsent \in Seq(NoCall) /\ inbox \in Seq(NoCall) /\ ~called)

\* The inductive invariant of an exchange.
ProcessInv == ProcessTypeOK /\ LifeInv /\ HuntInv /\ KilledInv /\ CallInv

\* What is taken from a queue, and what is left of it, is of its kind.
LEMMA QueueTaken ==
  ASSUME NEW S, NEW frames \in Seq(S), frames # <<>>
  PROVE  Head(frames) \in S /\ Tail(frames) \in Seq(S)
OBVIOUS

\* A longer queue is of its kind.
LEMMA QueueGrown ==
  ASSUME NEW S, NEW frames \in Seq(S), NEW x \in S
  PROVE  Append(frames, x) \in Seq(S)
OBVIOUS

\* A write is accepted or blocks; either way the pipe holds at most its size.
LEMMA PutTyped ==
  ASSUME ChildTypeOK, NEW stream \in Streams, Put(stream)
  PROVE  output' \in [Streams -> 0..PipeSize] /\ blocked' \in Streams \union {None}
<1>1. CASE Room(stream)
  <2>1. output[stream] + 1 \in 0..PipeSize
    BY <1>1, PipeAssumption DEF ChildTypeOK, Room
  <2> QED
    BY <1>1, <2>1 DEF ChildTypeOK, Put
<1>2. CASE ~Room(stream)
  BY <1>2 DEF ChildTypeOK, Put
<1> QED
  BY <1>1, <1>2

\* What is read is taken from the pipe.
LEMMA TakeTyped ==
  ASSUME ChildTypeOK, NEW stream \in Streams, output[stream] > 0,
         output' = [output EXCEPT ![stream] = @ - 1]
  PROVE  output' \in [Streams -> 0..PipeSize]
<1>1. output[stream] - 1 \in 0..PipeSize
  BY PipeAssumption DEF ChildTypeOK
<1> QED
  BY <1>1 DEF ChildTypeOK

\* The program and its helper do as they like, and break nothing of it.
LEMMA ProgramInv ==
  ASSUME ProcessInv, ChildStep
  PROVE  ProcessInv'
<1> USE DEF ProcessInv
<1>1. UNCHANGED <<build, unsent, client>> /\ stage # "done" /\ ProgramStep
  BY DEF ChildStep, ProgramStep, Reads, Writes, Unblocks, Closes, StartsHelper, Exits,
         HelperExits, pipes
<1>2. ASSUME ChildTypeOK', leader' \in {leader, "gone"},
             leader' # leader => Up,
             helper' = "up" => helper = "up" \/ Up,
             recorded \/ (inbox' \in Seq(NoCall) /\ ~called')
      PROVE  ProcessInv'
  <2>1. ProcessTypeOK'
    BY <1>1, <1>2 DEF ProcessTypeOK, client
  <2>2. LifeInv'
    BY <1>1, <1>2 DEF LifeInv, client, Up
  <2>3. HuntInv'
    BY <1>1, <1>2 DEF HuntInv, client, Up, Mcp
  <2>4. KilledInv'
    BY <1>1, <1>2 DEF KilledInv, client, Mcp, Up
  <2>5. CallInv'
    BY <1>1, <1>2 DEF CallInv, client
  <2> QED
    BY <2>1, <2>2, <2>3, <2>4, <2>5
<1>3. ChildTypeOK
  BY DEF ProcessTypeOK
<1>4. CASE Reads
  <2>1. Head(inbox) \in Frames /\ inbox' \in Seq(Frames)
    BY <1>3, <1>4, QueueTaken DEF Reads, ChildTypeOK
  <2>2. ChildTypeOK'
    BY <1>3, <1>4, <2>1 DEF Reads, ChildTypeOK
  <2>3. inbox \in Seq(NoCall) => Head(inbox) # "call" /\ inbox' \in Seq(NoCall)
    BY <1>4, QueueTaken DEF Reads, NoCall
  <2> QED
    BY <1>2, <1>4, <2>2, <2>3 DEF Reads, CallInv
<1>5. CASE Writes \/ Unblocks
  <2>1. PICK stream \in Streams : Put(stream)
    BY <1>3, <1>5 DEF Writes, Unblocks, ChildTypeOK
  <2>2. ChildTypeOK'
    BY <1>3, <1>5, <2>1, PutTyped DEF Writes, Unblocks, ChildTypeOK
  <2> QED
    BY <1>2, <1>5, <2>2 DEF Writes, Unblocks, CallInv
<1>6. CASE Closes \/ StartsHelper \/ Exits \/ HelperExits
  <2>1. ChildTypeOK'
    BY <1>3, <1>6 DEF Closes, StartsHelper, Exits, Dies, HelperExits, ChildTypeOK, pipes
  <2> QED
    BY <1>2, <1>6, <2>1
    DEF Closes, StartsHelper, Exits, Dies, HelperExits, pipes, CallInv, Free, Runs, Up
<1> QED
  BY <1>1, <1>4, <1>5, <1>6 DEF ProgramStep

\* So does the system.
LEMMA SystemInv ==
  ASSUME ProcessInv, SystemStep
  PROVE  ProcessInv'
<1> USE DEF ProcessInv
<1>1. stage # "done" /\ UNCHANGED client
  BY DEF SystemStep
<1>2. CASE Flush
  <2>1. /\ inbox' = Append(inbox, Head(unsent)) /\ unsent' = Tail(unsent) /\ unsent # <<>>
        /\ UNCHANGED <<build, leader, helper, keeps, blocked, called, output>>
    BY <1>2 DEF Flush, child
  <2>2. unsent' \in Seq(Frames) /\ inbox' \in Seq(Frames)
    BY <2>1, QueueTaken, QueueGrown DEF ProcessTypeOK, ChildTypeOK
  <2>3. ProcessTypeOK'
    BY <1>1, <2>1, <2>2 DEF ProcessTypeOK, ChildTypeOK, client
  <2>4. ASSUME unsent \in Seq(NoCall), inbox \in Seq(NoCall)
        PROVE  unsent' \in Seq(NoCall) /\ inbox' \in Seq(NoCall)
    BY <2>1, <2>4, QueueTaken, QueueGrown
  <2>5. LifeInv' /\ HuntInv' /\ KilledInv'
    BY <1>1, <2>1 DEF LifeInv, HuntInv, KilledInv, client, Mcp
  <2> QED
    BY <1>1, <2>1, <2>3, <2>4, <2>5 DEF CallInv, client
<1>3. CASE Reap
  <2>1. ProcessTypeOK'
    BY <1>1, <1>3 DEF Reap, ProcessTypeOK, ChildTypeOK, client, pipes
  <2>2. LifeInv'
    BY <1>1, <1>3 DEF Reap, LifeInv, client
  <2>3. HuntInv'
    BY <1>1, <1>3 DEF Reap, HuntInv, client, Mcp
  <2>4. KilledInv'
    BY <1>1, <1>3 DEF Reap, KilledInv, client, Mcp
  <2>5. CallInv'
    BY <1>1, <1>3 DEF Reap, CallInv, client, pipes
  <2> QED
    BY <2>1, <2>2, <2>3, <2>4, <2>5
<1> QED
  BY <1>2, <1>3 DEF SystemStep

\* The background task takes what is there.
LEMMA DrainInv ==
  ASSUME ProcessInv, Drain
  PROVE  ProcessInv'
<1> USE DEF ProcessInv
<1>1. output' \in [Streams -> 0..PipeSize]
  BY TakeTyped DEF Drain, Streams, ProcessTypeOK
<1>2. UNCHANGED <<build, leader, helper, keeps, blocked, called, unsent, inbox, client>>
  BY DEF Drain, child
<1>3. ProcessTypeOK'
  BY <1>1, <1>2 DEF ProcessTypeOK, ChildTypeOK, client
<1>4. LifeInv' /\ HuntInv' /\ KilledInv' /\ CallInv'
  BY <1>2 DEF LifeInv, HuntInv, KilledInv, CallInv, client, Mcp
<1> QED
  BY <1>3, <1>4

\* The exchange is begun: nothing is spawned for input that is refused, or where there
\* is no such program.
LEMMA SpawnInv ==
  ASSUME ProcessInv, Spawn
  PROVE  ProcessInv'
<1> USE DEF ProcessInv
<1>1. CASE RefuseInput \/ SpawnFails
  <2>1. stage = "start" /\ stage' = "done" /\ verdict' \in {"error", "raised"}
        /\ UNCHANGED <<build, child, pipes, hunt, timed, expired, final, asked, draining,
                       closed, recorded>>
    BY <1>1 DEF RefuseInput, SpawnFails, Goto
  <2>2. ProcessTypeOK'
    BY <2>1 DEF ProcessTypeOK, ChildTypeOK, child, pipes, hunt, Statuses, Stages
  <2>3. LifeInv' /\ HuntInv'
    BY <2>1 DEF LifeInv, HuntInv, child, hunt, Mcp
  <2> QED
    BY <2>1, <2>2, <2>3 DEF KilledInv, CallInv, child, pipes, hunt, Mcp
<1>2. CASE Launch
  <2>1. /\ stage = "start" /\ stage' = "spawn" /\ leader' = "up"
        /\ UNCHANGED <<build, helper, keeps, blocked, called, pipes, hunt, timed, expired, final,
                       asked, draining, closed, recorded, verdict>>
    BY <1>2 DEF Launch, Goto
  <2>2. ProcessTypeOK'
    BY <2>1 DEF ProcessTypeOK, ChildTypeOK, pipes, hunt, Stages
  <2>3. LifeInv' /\ HuntInv'
    BY <2>1 DEF LifeInv, HuntInv, hunt, Mcp
  <2>4. KilledInv' /\ CallInv'
    BY <2>1 DEF LifeInv, KilledInv, CallInv, pipes, hunt
  <2> QED
    BY <2>2, <2>3, <2>4
<1>3. CASE SpawnedJsonl \/ SpawnedMcp
  <2>1. /\ stage = "spawn" /\ stage' = "send" /\ draining' \in {draining, TRUE}
        /\ UNCHANGED <<build, child, inbox, output, hunt, timed, expired, final, asked, closed,
                       recorded, verdict>>
    BY <1>3 DEF SpawnedJsonl, SpawnedMcp, Goto
  <2>2. unsent' \in Seq(NoCall) /\ unsent' \in Seq(Frames)
    <3>1. CASE SpawnedJsonl
      <4>1. PICK n \in 1..MaxRequest : unsent' = [i \in 1..n |-> "piece"]
        BY <3>1 DEF SpawnedJsonl
      <4>2. n \in Nat /\ "piece" \in NoCall /\ "piece" \in Frames
        BY PipeAssumption DEF NoCall, Frames
      <4> QED
        BY <4>1, <4>2
    <3>2. CASE SpawnedMcp
      BY <3>2 DEF SpawnedMcp, NoCall, Frames
    <3> QED
      BY <1>3, <3>1, <3>2
  <2>3. ProcessTypeOK'
    <3>1. draining' \in BOOLEAN
      BY <2>1 DEF ProcessTypeOK
    <3> QED
      BY <2>1, <2>2, <3>1 DEF ProcessTypeOK, ChildTypeOK, child, hunt, Stages
  <2>4. LifeInv' /\ HuntInv' /\ KilledInv'
    BY <2>1 DEF LifeInv, HuntInv, KilledInv, child, hunt, Mcp
  <2>5. CallInv'
    BY <2>1, <2>2 DEF CallInv, child
  <2> QED
    BY <2>3, <2>4, <2>5
<1>4. CASE Unspawned
  <2>1. /\ stage = "unspawn" /\ leader = "reaped" /\ stage' = "done"
        /\ UNCHANGED <<build, child, pipes, hunt, timed, expired, final, asked, draining, closed,
                       recorded, verdict>>
    BY <1>4 DEF Unspawned, Goto
  <2>2. ProcessTypeOK'
    BY <2>1 DEF ProcessTypeOK, ChildTypeOK, child, pipes, hunt, Stages
  <2>3. LifeInv' /\ HuntInv'
    BY <2>1 DEF LifeInv, HuntInv, child, hunt, Mcp
  <2> QED
    BY <2>1, <2>2, <2>3 DEF KilledInv, CallInv, child, pipes, hunt, Mcp
<1> QED
  BY <1>1, <1>2, <1>3, <1>4 DEF Spawn

\* What a step of the exchange that leaves the program and the queues alone must
\* do to keep the invariant.
LEMMA ClientMoves ==
  ASSUME ProcessInv, stage \notin {"start", "done", "wait"}, ~final,
         stage' \in {"send", "await", "collect", "kill"},
         stage' = "collect" => Jsonl,
         UNCHANGED <<build, child, hunt>>, output' \in [Streams -> 0..PipeSize],
         unsent' \in Seq(Frames), inbox' \in Seq(Frames),
         UNCHANGED <<timed, expired, closed>>,
         final' \in BOOLEAN, final' => stage' = "kill",
         final' => Jsonl \/ leader = "reaped",
         asked' \in Ids, draining' \in BOOLEAN, recorded' \in BOOLEAN,
         verdict' \in Statuses \union {None},
         CallInv'
  PROVE  ProcessInv'
<1> USE DEF ProcessInv
<1>1. ProcessTypeOK'
  BY DEF ProcessTypeOK, ChildTypeOK, child, hunt, Stages
<1>2. LifeInv'
  BY DEF LifeInv, child
<1>3. HuntInv'
  BY DEF HuntInv, child, hunt, Mcp, Jsonl
<1>4. KilledInv'
  BY DEF KilledInv, child, hunt, Mcp
<1> QED
  BY <1>1, <1>2, <1>3, <1>4

\* A frame is sent, or the other side is gone.
LEMMA SendInv ==
  ASSUME ProcessInv, Send
  PROVE  ProcessInv'
<1>1. stage = "send" /\ ~final
  BY DEF Send, Sent, SendFails, ProcessInv, LifeInv
<1>2. UNCHANGED <<build, child, pipes, hunt, timed, expired, asked, closed, recorded>>
  BY DEF Send, Sent, SendFails
<1>3. /\ draining' \in BOOLEAN /\ verdict' \in Statuses \union {None}
      /\ final' \in BOOLEAN /\ (final' => stage' = "kill" /\ Jsonl)
      /\ stage' \in {"await", "kill"}
  <2>1. /\ draining \in BOOLEAN /\ verdict \in Statuses \union {None}
        /\ "error" \in Statuses /\ "raised" \in Statuses /\ Jsonl \in BOOLEAN
        /\ final \in BOOLEAN
    BY DEF ProcessInv, ProcessTypeOK, Statuses, Jsonl
  <2>2. CASE Sent
    BY <1>1, <2>1, <2>2 DEF Sent, Goto
  <2>3. CASE SendFails
    <3>1. verdict' \in Statuses
      BY <2>1, <2>3 DEF SendFails, Decide
    <3>2. stage' = "kill" /\ final' = Jsonl /\ draining' = draining
      BY <2>3 DEF SendFails, Decide, Goto
    <3> QED
      BY <2>1, <3>1, <3>2
  <2> QED
    BY <2>2, <2>3 DEF Send
<1>4. CallInv'
  BY <1>2 DEF ProcessInv, CallInv, child, pipes
<1> QED
  BY <1>1, <1>2, <1>3, <1>4, ClientMoves DEF ProcessInv, ProcessTypeOK, ChildTypeOK, pipes

\* What reading a line does to the pipes.
LEMMA ReadLineTyped ==
  ASSUME ChildTypeOK, NEW l, ReadLine(l)
  PROVE  /\ output' \in [Streams -> 0..PipeSize] /\ UNCHANGED <<unsent, inbox>>
         /\ stage = "await"
BY TakeTyped DEF ReadLine, Take, ChildTypeOK, Streams

\* Whatever the line says, only the answered handshake puts a call on its way.
LEMMA ReadInv ==
  ASSUME ProcessInv, Read
  PROVE  ProcessInv'
<1>0. ChildTypeOK /\ Jsonl \in BOOLEAN /\ Mcp \in BOOLEAN
  BY DEF ProcessInv, ProcessTypeOK, Jsonl, Mcp
<1>1. /\ stage = "await" /\ ~final
      /\ UNCHANGED <<build, child, hunt, timed, expired, closed>>
      /\ output' \in [Streams -> 0..PipeSize] /\ UNCHANGED inbox
  <2>1. CASE ReadJsonl \/ ReadMcpTrouble \/ ReadMcpSkips \/ Answered
    BY <1>0, <2>1, ReadLineTyped
    DEF ReadJsonl, ReadMcpTrouble, ReadMcpSkips, Answered, client, hunt, ProcessInv, LifeInv
  <2>2. CASE AnswerServer \/ Initialized
    BY <1>0, <2>2, TakeTyped DEF AnswerServer, Initialized, Take, Streams, ProcessInv, LifeInv
  <2> QED
    BY <2>1, <2>2 DEF Read
<1>2. ASSUME stage' \in {"send", "await", "collect", "kill"},
             unsent' \in Seq(Frames),
             stage' = "collect" => Jsonl,
             final' \in BOOLEAN, final' => stage' = "kill" /\ Jsonl,
             asked' \in Ids, draining' \in BOOLEAN, recorded' \in BOOLEAN,
             verdict' \in Statuses \union {None},
             CallInv'
      PROVE  ProcessInv'
  BY <1>1, <1>2, ClientMoves DEF ProcessInv, ProcessTypeOK, ChildTypeOK
<1>3. CASE ReadJsonl
  <2>1. PICK l \in Says(build.protocol) \union {None} :
          /\ ReadLine(l)
          /\ IF l # None /\ l.kind = "toolong"
             THEN /\ Decide("error")
                  /\ draining' = FALSE
             ELSE /\ verdict' = JsonlOutcome(l)
                  /\ Goto("collect")
                  /\ UNCHANGED <<draining, final>>
    BY <1>3 DEF ReadJsonl
  <2>2. UNCHANGED <<unsent, asked, recorded>>
    BY <1>0, <1>3, <2>1, ReadLineTyped DEF ReadJsonl
  <2>3. /\ verdict' \in Statuses /\ draining' \in BOOLEAN /\ final' \in BOOLEAN
        /\ stage' \in {"collect", "kill"} /\ (final' => stage' = "kill") /\ Jsonl
    BY <1>0, <1>1, <1>3, <2>1
    DEF ReadJsonl, Decide, Goto, JsonlOutcome, Statuses, ProcessInv, ProcessTypeOK
  <2>4. CallInv'
    BY <1>1, <2>2 DEF CallInv, ProcessInv, child
  <2> QED
    BY <1>2, <2>2, <2>3, <2>4 DEF ProcessInv, ProcessTypeOK, ChildTypeOK
<1>4. CASE ReadMcpTrouble
  <2>1. /\ stage' = "kill" /\ final' = Jsonl /\ verdict' = "error" /\ draining' \in BOOLEAN
        /\ UNCHANGED <<unsent, asked, recorded>>
    BY <1>0, <1>4, ReadLineTyped
    DEF ReadMcpTrouble, Decide, Goto, ProcessInv, ProcessTypeOK
  <2>2. CallInv'
    BY <1>1, <2>1 DEF CallInv, ProcessInv, child
  <2> QED
    BY <1>0, <1>2, <2>1, <2>2 DEF ProcessInv, ProcessTypeOK, ChildTypeOK, Statuses
<1>5. CASE ReadMcpSkips
  <2>1. UNCHANGED <<unsent, client>>
    BY <1>0, <1>5, ReadLineTyped DEF ReadMcpSkips
  <2>2. CallInv'
    BY <1>1, <2>1 DEF CallInv, ProcessInv, child, client
  <2> QED
    BY <1>1, <1>2, <2>1, <2>2 DEF ProcessInv, ProcessTypeOK, ChildTypeOK, client
<1>6. CASE AnswerServer
  <2>1. /\ unsent' = Append(unsent, "reply") /\ stage' = "send"
        /\ UNCHANGED <<final, asked, draining, recorded, verdict>>
    BY <1>6 DEF AnswerServer, Goto
  <2>2. "reply" \in Frames /\ "reply" \in NoCall
    BY DEF Frames, NoCall
  <2>3. unsent' \in Seq(Frames) /\ (unsent \in Seq(NoCall) => unsent' \in Seq(NoCall))
    BY <1>0, <2>1, <2>2, QueueGrown DEF ChildTypeOK
  <2>4. CallInv'
    BY <1>1, <2>1, <2>3 DEF CallInv, ProcessInv, child
  <2> QED
    BY <1>1, <1>2, <2>1, <2>3, <2>4 DEF ProcessInv, ProcessTypeOK
<1>7. CASE Initialized
  <2>1. /\ unsent' = Append(unsent, "call") /\ stage' = "send" /\ recorded' = TRUE /\ asked' = 2
        /\ UNCHANGED <<final, draining, verdict>>
    BY <1>7 DEF Initialized, Goto
  <2>2. unsent' \in Seq(Frames)
    BY <1>0, <2>1, QueueGrown DEF ChildTypeOK, Frames
  <2> QED
    BY <1>1, <1>2, <2>1, <2>2 DEF ProcessInv, ProcessTypeOK, CallInv, Ids
<1>8. CASE Answered
  <2>1. PICK l \in Says("mcp") : ReadLine(l) /\ verdict' = CallOutcome(l)
    BY <1>8 DEF Answered
  <2>2. stage' = "kill" /\ UNCHANGED <<unsent, final, asked, draining, recorded>>
    BY <1>8 DEF Answered, Goto
  <2>3. verdict' \in Statuses
    BY <2>1 DEF CallOutcome, Statuses
  <2>4. CallInv'
    BY <1>1, <2>2 DEF CallInv, ProcessInv, child
  <2> QED
    BY <1>1, <1>2, <2>2, <2>3, <2>4 DEF ProcessInv, ProcessTypeOK, ChildTypeOK
<1> QED
  BY <1>3, <1>4, <1>5, <1>6, <1>7, <1>8 DEF Read

\* What was written to stderr is collected, once.
LEMMA CollectInv ==
  ASSUME ProcessInv, Collect
  PROVE  ProcessInv'
<1>1. /\ stage = "collect" /\ ~final /\ stage' = "kill" /\ final' = TRUE /\ draining' = FALSE
      /\ UNCHANGED <<build, child, pipes, hunt, timed, expired, asked, closed, recorded,
                     verdict>>
  BY DEF Collect, Goto, ProcessInv, LifeInv
<1>2. CallInv'
  BY <1>1 DEF ProcessInv, CallInv, child, pipes
<1>3. Jsonl \/ leader = "reaped"
  BY <1>1 DEF ProcessInv, HuntInv, ProcessTypeOK, ChildTypeOK, Builds, Protocols, Jsonl, Mcp
<1> QED
  BY <1>1, <1>2, <1>3, ClientMoves DEF ProcessInv, ProcessTypeOK, ChildTypeOK, pipes

\* Killing ends the program, if nothing else has.
LEMMA KillEnds ==
  ASSUME ChildTypeOK, KillProgram
  PROVE  /\ leader' = IF leader = "up" THEN "gone" ELSE leader
         /\ leader' \in {"unborn", "gone", "reaped"}
         /\ keeps' \subseteq {"in", "out", "err"} /\ blocked' \in Streams \union {None}
BY DEF KillProgram, Dies, Lives, Up, ChildTypeOK

\* Killing ends the program on POSIX, and its helper where the code can reach it.
LEMMA KillInv ==
  ASSUME ProcessInv, Kill
  PROVE  ProcessInv'
<1> USE DEF ProcessInv
<1>1. /\ stage = "kill" /\ leader # "reaped" /\ stage' = "wait" /\ build.system = "posix"
      /\ KillProgram
      /\ signalled' = (signalled \/ leader = "up")
      /\ helper' = IF helper = "up" /\ Jsonl THEN "gone" ELSE helper
      /\ draining' = (draining /\ ~(final /\ Jsonl))
      /\ UNCHANGED <<build, called, pipes, killers, spared, timed, expired, final, asked, closed,
                     recorded, verdict>>
  BY DEF Kill, Goto, CancelDrain, Up, Runs
<1>2. /\ leader' = IF leader = "up" THEN "gone" ELSE leader
      /\ leader' \in {"unborn", "gone", "reaped"}
      /\ keeps' \subseteq {"in", "out", "err"} /\ blocked' \in Streams \union {None}
  BY <1>1, KillEnds DEF ProcessTypeOK
<1>3. ProcessTypeOK'
  <2>1. /\ helper' \in {"none", "up", "gone"} /\ signalled' \in BOOLEAN
        /\ draining' \in BOOLEAN
    BY <1>1 DEF ProcessTypeOK, ChildTypeOK
  <2> QED
    BY <1>1, <1>2, <2>1 DEF ProcessTypeOK, ChildTypeOK, pipes, Stages
<1>4. LifeInv'
  BY <1>1, <1>2 DEF LifeInv
<1>5. HuntInv'
  BY <1>1, <1>2 DEF HuntInv, Mcp
<1>6. KilledInv'
  BY <1>1, <1>2
  DEF KilledInv, Jsonl, Mcp, ProcessTypeOK, ChildTypeOK, Builds, Systems, Protocols
<1>7. CallInv'
  BY <1>1 DEF CallInv, pipes
<1> QED
  BY <1>3, <1>4, <1>5, <1>6, <1>7

\* On Windows taskkill is set going first.
LEMMA StartTaskkillInv ==
  ASSUME ProcessInv, StartTaskkill
  PROVE  ProcessInv'
<1> USE DEF ProcessInv
<1>1. /\ stage = "kill" /\ stage' = "taskkill" /\ build.system = "windows"
      /\ killers' = killers \union {final} /\ leader # "reaped"
      /\ draining' = (draining /\ ~(final /\ Jsonl))
      /\ UNCHANGED <<build, child, pipes, signalled, spared, timed, expired, final, asked, closed,
                     recorded, verdict>>
  BY DEF StartTaskkill, Goto, CancelDrain
<1>2. ProcessTypeOK'
  <2>1. draining' \in BOOLEAN /\ killers' \subseteq BOOLEAN
    BY <1>1 DEF ProcessTypeOK
  <2> QED
    BY <1>1, <2>1 DEF ProcessTypeOK, ChildTypeOK, child, pipes, Stages
<1>3. LifeInv'
  BY <1>1 DEF LifeInv, child
<1>4. HuntInv'
  BY <1>1 DEF HuntInv, child, Mcp
<1>5. KilledInv' /\ CallInv'
  BY <1>1 DEF KilledInv, CallInv, child, pipes, Mcp
<1> QED
  BY <1>2, <1>3, <1>4, <1>5

\* Whatever a taskkill does, and whoever still waits for it, what it leaves of the tree
\* of a running program it has spared.
LEMMA TaskkillInv ==
  ASSUME ProcessInv, NEW id \in BOOLEAN, Taskkill(id)
  PROVE  ProcessInv'
<1> USE DEF ProcessInv
<1>1. /\ stage # "done" /\ id \in killers /\ killers' = killers \ {id}
      /\ UNCHANGED <<build, called, pipes, timed, expired, stage, final, asked, draining, closed,
                     recorded, verdict>>
  BY DEF Taskkill
<1>2. build.system = "windows"
  BY <1>1 DEF HuntInv
<1>3. CASE leader # "up"
  <2>1. Lives /\ UNCHANGED <<helper, signalled, spared>>
    BY <1>3 DEF Taskkill, Up
  <2>2. ProcessTypeOK'
    BY <1>1, <2>1 DEF Lives, ProcessTypeOK, ChildTypeOK, pipes
  <2>3. LifeInv' /\ HuntInv'
    BY <1>1, <1>2, <1>3, <2>1 DEF Lives, LifeInv, HuntInv, Mcp
  <2> QED
    BY <1>1, <2>1, <2>2, <2>3 DEF Lives, KilledInv, CallInv, Mcp, pipes
<1>4. CASE leader = "up"
  <2>1. /\ Dies \/ Lives
        /\ helper' \in {helper, IF helper = "up" THEN "gone" ELSE helper}
        /\ signalled' = (signalled \/ leader' = "gone")
        /\ spared' = (spared \/ leader' = "up" \/ helper' = "up")
    BY <1>4 DEF Taskkill, Up, Runs
  <2>2. /\ leader' \in {"up", "gone"} /\ (leader' = "up" => spared')
        /\ keeps' \subseteq {"in", "out", "err"} /\ blocked' \in Streams \union {None}
        /\ helper' \in {"none", "up", "gone"}
    BY <1>4, <2>1 DEF Dies, Lives, ProcessTypeOK, ChildTypeOK
  <2>3. signalled' = (leader' = "gone")
    BY <1>4, <2>1 DEF KilledInv
  <2>4. signalled' \in BOOLEAN /\ spared' \in BOOLEAN
    BY <2>1, <2>3
  <2>5. ProcessTypeOK'
    BY <1>1, <2>2, <2>4 DEF ProcessTypeOK, ChildTypeOK, pipes
  <2>6. LifeInv'
    BY <1>1, <1>4, <2>2 DEF LifeInv
  <2>7. HuntInv'
    BY <1>1, <1>2, <1>4, <2>2 DEF HuntInv, Mcp
  <2>8. KilledInv'
    BY <1>1, <1>2, <2>1, <2>2, <2>3 DEF KilledInv
  <2>9. CallInv'
    BY <1>1 DEF CallInv, pipes
  <2> QED
    BY <2>5, <2>6, <2>7, <2>8, <2>9
<1> QED
  BY <1>3, <1>4

\* process.kill() ends what the taskkill has left of the program.
LEMMA TaskkilledInv ==
  ASSUME ProcessInv, Taskkilled
  PROVE  ProcessInv'
<1> USE DEF ProcessInv
<1>1. /\ stage = "taskkill" /\ final \notin killers /\ stage' = "wait" /\ KillProgram
      /\ signalled' = (signalled \/ leader = "up")
      /\ UNCHANGED <<build, helper, called, pipes, killers, spared, timed, expired, final, asked,
                     draining, closed, recorded, verdict>>
  BY DEF Taskkilled, Goto, Up
<1>2. /\ leader' = IF leader = "up" THEN "gone" ELSE leader
      /\ leader' \in {"unborn", "gone", "reaped"}
      /\ keeps' \subseteq {"in", "out", "err"} /\ blocked' \in Streams \union {None}
  BY <1>1, KillEnds DEF ProcessTypeOK
<1>3. ProcessTypeOK'
  <2>1. signalled' \in BOOLEAN
    BY <1>1 DEF ProcessTypeOK
  <2> QED
    BY <1>1, <1>2, <2>1 DEF ProcessTypeOK, ChildTypeOK, pipes, Stages
<1>4. LifeInv'
  BY <1>1, <1>2 DEF LifeInv
<1>5. HuntInv'
  BY <1>1, <1>2 DEF HuntInv, Mcp
<1>6. KilledInv'
  <2>1. leader = "up" => build.system = "windows" /\ spared
    BY <1>1 DEF HuntInv
  <2> QED
    BY <1>1, <1>2, <2>1 DEF KilledInv, Mcp
<1>7. CallInv'
  BY <1>1 DEF CallInv, pipes
<1> QED
  BY <1>3, <1>4, <1>5, <1>6, <1>7

\* The steps of _terminate that signal nobody.
LEMMA TerminateInv ==
  ASSUME ProcessInv, Terminate
  PROVE  ProcessInv'
<1>1. CASE Kill \/ StartTaskkill \/ Taskkilled
  BY <1>1, KillInv, StartTaskkillInv, TaskkilledInv
<1>2. CASE SkipKill \/ Waited \/ WaitExpires
  <2> USE DEF ProcessInv
  <2>1. /\ UNCHANGED <<build, child, pipes, hunt, timed, expired, asked, recorded, verdict>>
        /\ leader = "reaped" /\ stage \in {"kill", "wait"} /\ Terminated
    BY <1>2 DEF SkipKill, Waited, WaitExpires, WaitReturns
  <2>2. draining' \in BOOLEAN /\ closed' \in BOOLEAN
    BY <1>2 DEF SkipKill, CancelDrain, Waited, WaitExpires, ProcessTypeOK
  <2>3. /\ stage' \in {"done", "collect", "kill"} /\ final' \in BOOLEAN
        /\ final' => stage' \in {"done", "kill"}
    <3>1. final \in BOOLEAN
      BY DEF ProcessTypeOK
    <3>2. CASE final /\ stage' = "done" /\ UNCHANGED final
      BY <3>1, <3>2
    <3>3. CASE ~final /\ stage' = "collect" /\ UNCHANGED final
      BY <3>1, <3>3
    <3>4. CASE stage' = "kill" /\ final' = TRUE
      BY <3>4
    <3> QED
      BY <2>1, <3>2, <3>3, <3>4 DEF Terminated, Goto
  <2>4. ProcessTypeOK'
    BY <2>1, <2>2, <2>3 DEF ProcessTypeOK, ChildTypeOK, child, pipes, hunt, Stages
  <2>5. LifeInv' /\ HuntInv'
    BY <2>1, <2>3 DEF LifeInv, HuntInv, child, hunt, Mcp
  <2>6. KilledInv' /\ CallInv'
    BY <2>1 DEF KilledInv, CallInv, child, pipes, hunt, Mcp
  <2> QED
    BY <2>4, <2>5, <2>6
<1> QED
  BY <1>1, <1>2 DEF Terminate

\* What an interruption does of its own, at whichever await it finds the exchange.
LEMMA Left ==
  ASSUME ProcessInv, Leave, stage \in Awaits
  PROVE  /\ leader' = IF stage = "spawn" /\ leader = "up" THEN "gone" ELSE leader
         /\ leader' \in {"unborn", "up", "gone", "reaped"}
         /\ keeps' \subseteq {"in", "out", "err"} /\ blocked' \in Streams \union {None}
         /\ stage' = IF stage = "spawn" THEN "unspawn"
                     ELSE IF stage = "unspawn" \/ final THEN "done" ELSE "kill"
         /\ final' = (final \/ stage \notin {"spawn", "unspawn"})
         /\ final => stage \notin {"spawn", "unspawn"}
<1>1. ChildTypeOK /\ final \in BOOLEAN /\ (final => stage \notin {"spawn", "unspawn"})
  BY DEF ProcessInv, ProcessTypeOK, LifeInv
<1>2. CASE stage = "spawn"
  <2>1. KillProgram /\ stage' = "unspawn" /\ UNCHANGED final
    BY <1>2 DEF Leave, Goto
  <2> QED
    BY <1>1, <1>2, <2>1, KillEnds
<1>3. CASE stage = "unspawn"
  <2>1. Lives /\ stage' = "done" /\ UNCHANGED final
    BY <1>3 DEF Leave, Goto
  <2> QED
    BY <1>1, <1>3, <2>1 DEF Lives, ChildTypeOK
<1>4. CASE stage \notin {"spawn", "unspawn"}
  <2>1. Lives /\ stage' = (IF final THEN "done" ELSE "kill") /\ final' = TRUE
    BY <1>4 DEF Leave, Goto
  <2> QED
    BY <1>1, <1>4, <2>1 DEF Lives, ChildTypeOK
<1> QED
  BY <1>2, <1>3, <1>4

\* An interruption finds the exchange at an await and sends it to its finally, or out of
\* it when it is there; the timer does not find jsonl there.
LEMMA InterruptInv ==
  ASSUME ProcessInv, NEW v \in {"timeout", "cancelled"}, Interrupt(v), expired' \in BOOLEAN,
         stage \in Awaits, expired => expired',
         v = "timeout" => ~expired /\ expired' /\ (Jsonl => ~final)
  PROVE  ProcessInv'
<1> USE DEF ProcessInv
<1>1. /\ UNCHANGED <<build, helper, called, pipes, hunt, timed, asked, draining, closed, recorded>>
      /\ verdict' = IF verdict = "cancelled" THEN verdict ELSE v
      /\ Leave
  BY DEF Interrupt
<1>2. /\ leader' = IF stage = "spawn" /\ leader = "up" THEN "gone" ELSE leader
      /\ leader' \in {"unborn", "up", "gone", "reaped"}
      /\ keeps' \subseteq {"in", "out", "err"} /\ blocked' \in Streams \union {None}
      /\ stage' = IF stage = "spawn" THEN "unspawn"
                  ELSE IF stage = "unspawn" \/ final THEN "done" ELSE "kill"
      /\ final' = (final \/ stage \notin {"spawn", "unspawn"})
      /\ final => stage \notin {"spawn", "unspawn"}
  BY <1>1, Left
<1>3. ProcessTypeOK'
  <2>1. verdict' \in Statuses /\ stage' \in Stages /\ final' \in BOOLEAN
    BY <1>1, <1>2 DEF ProcessTypeOK, Statuses, Stages
  <2> QED
    BY <1>1, <1>2, <2>1 DEF ProcessTypeOK, ChildTypeOK, pipes, hunt
<1>4. LifeInv'
  BY <1>1, <1>2 DEF LifeInv, Awaits
<1>5. HuntInv'
  <2>1. /\ killers # {} => build.system = "windows"
        /\ stage' \notin {"taskkill", "collect"}
        /\ final' /\ Mcp /\ stage' = "kill" => expired' \/ verdict' = "cancelled"
    BY <1>1, <1>2 DEF HuntInv
  <2>2. ASSUME stage' = "done", leader' = "up"
        PROVE  /\ build.system = "windows" /\ verdict' = "cancelled"
               /\ spared \/ TRUE \in killers
    <3>1. stage = "taskkill" /\ final /\ leader = "up"
      BY <1>2, <2>2 DEF LifeInv, Awaits
    <3>2. build.system = "windows" /\ (spared \/ final \in killers)
      BY <3>1 DEF HuntInv
    <3>3. final = TRUE
      BY <3>1 DEF ProcessTypeOK
    <3>4. verdict' = "cancelled"
      <4>1. CASE v = "cancelled"
        BY <1>1, <4>1
      <4>2. CASE v = "timeout"
        <5>1. Mcp
          BY <3>1, <4>2 DEF Jsonl, Mcp, ProcessTypeOK, ChildTypeOK, Builds, Protocols
        <5>2. verdict = "cancelled"
          BY <3>1, <4>2, <5>1 DEF HuntInv
        <5> QED
          BY <1>1, <5>2
      <4> QED
        BY <4>1, <4>2
    <3> QED
      BY <3>2, <3>3, <3>4
  <2> QED
    BY <1>1, <2>1, <2>2 DEF HuntInv, hunt, Mcp
<1>6. KilledInv' /\ CallInv'
  BY <1>1, <1>2 DEF KilledInv, CallInv, pipes, hunt, Mcp
<1> QED
  BY <1>3, <1>4, <1>5, <1>6

\* No step of an exchange leaves the invariant.
LEMMA ProcessNextInv == ProcessInv /\ [ProcessNext]_processVars => ProcessInv'
<1> SUFFICES ASSUME ProcessInv, [ProcessNext]_processVars PROVE ProcessInv'
  OBVIOUS
<1>1. CASE ChildStep \/ SystemStep \/ Drain
  BY <1>1, ProgramInv, SystemInv, DrainInv
<1>2. CASE ClientStep
  BY <1>2, SpawnInv, SendInv, ReadInv, CollectInv, TerminateInv DEF ClientStep
<1>3. CASE Timeout \/ CancelExchange
  <2>1. expired' \in BOOLEAN /\ stage \in Awaits /\ (expired => expired')
    BY <1>3 DEF Timeout, CancelExchange, ProcessInv, ProcessTypeOK
  <2> QED
    BY <1>3, <2>1, InterruptInv DEF Timeout, CancelExchange
<1>4. CASE TaskkillStep
  BY <1>4, TaskkillInv DEF TaskkillStep
<1>5. CASE UNCHANGED processVars
  <2>1. UNCHANGED <<build, child, pipes, client>>
    BY <1>5 DEF processVars
  <2>2. ProcessTypeOK'
    BY <2>1 DEF child, pipes, client, ProcessInv, ProcessTypeOK, ChildTypeOK
  <2>3. LifeInv' /\ HuntInv'
    BY <2>1 DEF child, client, ProcessInv, LifeInv, HuntInv, Mcp
  <2>4. KilledInv' /\ CallInv'
    BY <2>1 DEF child, pipes, client, ProcessInv, KilledInv, CallInv, Mcp
  <2> QED
    BY <2>2, <2>3, <2>4 DEF ProcessInv
<1> QED
  BY <1>1, <1>2, <1>3, <1>4, <1>5 DEF ProcessNext, ExchangeOver

\* The invariant of an exchange holds in every reachable state.
THEOREM ProcessInvariance == ProcessSpec => []ProcessInv
<1>1. ProcessInit => ProcessInv
  <2> SUFFICES ASSUME ProcessInit PROVE ProcessInv
    OBVIOUS
  <2>1. ProcessTypeOK
    <3>1. ChildTypeOK
      <4>1. build \in Builds
        BY TargetsAssumption DEF ProcessInit
      <4>2. output \in [Streams -> 0..PipeSize]
        BY PipeAssumption DEF ProcessInit, ChildInit
      <4>3. unsent \in Seq(Frames) /\ inbox \in Seq(Frames)
        BY DEF ProcessInit, ChildInit
      <4> QED
        BY <4>1, <4>2, <4>3 DEF ProcessInit, ChildInit, ChildTypeOK
    <3> QED
      BY <3>1 DEF ProcessInit, ProcessTypeOK, Ids, Stages
  <2>2. LifeInv /\ HuntInv /\ KilledInv /\ CallInv
    BY DEF ProcessInit, ChildInit, LifeInv, HuntInv, KilledInv, CallInv
  <2> QED
    BY <2>1, <2>2 DEF ProcessInv
<1> QED
  BY <1>1, ProcessNextInv, PTL DEF ProcessSpec

\* The types of an exchange hold, for any pipe, request and builds.
THEOREM ProcessTypeCorrect == ProcessSpec => []ProcessTypeOK
<1>1. ProcessInv => ProcessTypeOK
  BY DEF ProcessInv
<1> QED
  BY <1>1, ProcessInvariance, PTL

\* Whatever the program does with its pipes, whatever becomes of a taskkill, and wherever
\* a timeout or a cancellation finds the exchange (the spawn and the taskkill too), it
\* leaves no program behind, nor the helper of one it killed, but for the cases the
\* property names (subprocess.py 490-528, mcp.py 563-567).
THEOREM NobodyIsLeftRunning == ProcessSpec => []NothingLeftRunning
<1>1. ProcessInv => NothingLeftRunning
  BY DEF ProcessInv, HuntInv, KilledInv, NothingLeftRunning, Done, Up, Runs
<1> QED
  BY <1>1, ProcessInvariance, PTL

\* A call that reached the server was recorded before it was sent (mcp.py).
THEOREM CallsAreInTheResult == ProcessSpec => []CallsAreReported
<1>1. ProcessInv => CallsAreReported
  BY DEF ProcessInv, CallInv, CallsAreReported
<1> QED
  BY <1>1, ProcessInvariance, PTL
=============================================================================
