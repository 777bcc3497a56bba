---------------------------- MODULE RemoteTarget ----------------------------
(***************************************************************************)
(* The attempts a run makes side by side on a target that is not a child   *)
(* process: a Python function ("sync", "async"), an HTTP endpoint, or      *)
(* Claude through the Agent SDK.  The work such an attempt starts lives    *)
(* somewhere else (a thread, a server, the CLI), and may go on after the   *)
(* attempt is over.                                                        *)
(***************************************************************************)
EXTENDS PythonNone, Naturals, Sequences, FiniteSets, FiniteSetsExt, SequencesExt

CONSTANTS
  Attempts,    \* the attempts of one run
  Kinds,       \* bound: the kinds of target a run looks at
  Threads,     \* workers of the event loop's thread pool
  MaxRetries   \* HttpTarget(max_retries=...)

ASSUME RemoteAssumption ==
  /\ IsFiniteSet(Attempts)
  /\ Kinds \subseteq {"sync", "async", "http", "claude"}
  /\ Threads \in Nat \ {0} /\ MaxRetries \in Nat
  /\ None \notin {"completed", "error", "timeout"}

VARIABLES
  kind, limited,  \* the target; timeout_seconds is not None
  pc,        \* "idle", "call" (awaiting), "backoff", "done", "cancelled"
  queue,     \* calls that wait for a thread
  sent,      \* calls that were started on the far side
  far,       \* of these, the ones still at work there
  replies,   \* what came back, in order
  result     \* the status execute returned

vars == <<kind, limited, pc, queue, sent, far, replies, result>>

Over(a) == pc[a] \in {"done", "cancelled"}

\* What a call can come to.  "broken" is a TransportError, "busy" a 429, 502, 503 or 504,
\* "refused" any other status from 400 on, "late" a TimeoutError of the function itself.
FunctionReplies == {"good", "malformed", "raised", "late"}
HttpReplies == {"good", "malformed", "mismatch", "refused", "busy", "broken"}
StreamReplies == {"text", "result", "end", "rejected", "failed", "raised", "late"}

Replies ==
  [sync |-> FunctionReplies, async |-> FunctionReplies,
   http |-> HttpReplies, claude |-> StreamReplies][kind]

Transient == {"busy", "broken"}

Init ==
  /\ kind \in Kinds /\ limited \in BOOLEAN
  /\ pc = [a \in Attempts |-> "idle"]
  /\ queue = {}
  /\ sent = [a \in Attempts |-> 0]
  /\ far = [a \in Attempts |-> 0]
  /\ replies = [a \in Attempts |-> <<>>]
  /\ result = [a \in Attempts |-> None]

Return(a, status) ==
  /\ pc' = [pc EXCEPT ![a] = "done"]
  /\ result' = [result EXCEPT ![a] = status]

\* ClaudeAgentTarget.execute: a sample whose prompt is not a string is never sent.
Refuse(a) ==
  /\ pc[a] = "idle" /\ kind = "claude"
  /\ Return(a, "error")
  /\ UNCHANGED <<kind, limited, queue, sent, far, replies>>

Dispatch(a) ==
  /\ sent' = [sent EXCEPT ![a] = @ + 1]
  /\ far' = [far EXCEPT ![a] = @ + 1]

\* The call leaves; asyncio.to_thread only queues it.
Begin(a) ==
  /\ pc[a] = "idle"
  /\ pc' = [pc EXCEPT ![a] = "call"]
  /\ IF kind = "sync"
     THEN queue' = queue \union {a} /\ UNCHANGED <<sent, far>>
     ELSE Dispatch(a) /\ UNCHANGED queue
  /\ UNCHANGED <<kind, limited, replies, result>>

\* _backoff: the wait, the server's Retry-After or a doubling one of its own, is over.
Resume(a) ==
  /\ pc[a] = "backoff"
  /\ pc' = [pc EXCEPT ![a] = "call"]
  /\ Dispatch(a)
  /\ UNCHANGED <<kind, limited, queue, replies, result>>

Busy == MapThenSumSet(LAMBDA a : far[a], Attempts)

ThreadTakes(a) ==
  /\ a \in queue /\ Busy < Threads
  /\ queue' = queue \ {a}
  /\ Dispatch(a)
  /\ UNCHANGED <<kind, limited, pc, replies, result>>

\* HttpTarget._parse_response: an object with the sample's id and an output of the right
\* type; anything else, and any status from 400 on, is an error.
HttpStatus(r) == IF r = "good" THEN "completed" ELSE "error"

\* CallableTarget.execute: a mapping.  A TimeoutError the function raises itself is
\* reported as if the timer had fired, and so it is by the Claude target.
CallStatus(r) ==
  IF r = "good" THEN "completed" ELSE IF r = "late" THEN "timeout" ELSE "error"

Status(r) == IF kind = "http" THEN HttpStatus(r) ELSE CallStatus(r)

\* Mutant: a status that is not in the retryable set is retried like the others.
RetryableAny(r) == r \in Transient \union {"refused"}

\* _RETRYABLE_STATUS_CODES, and what httpx raises when the transport fails.
Retryable(r) == r \in Transient

\* A server the connection was lost to may not know it.
Released(a, r) ==
  \/ far' = [far EXCEPT ![a] = @ - 1]
  \/ r = "broken" /\ UNCHANGED far

Hear(a, r) ==
  /\ pc[a] = "call" /\ a \notin queue
  /\ r \in Replies
  /\ replies' = [replies EXCEPT ![a] = Append(@, r)]

\* _execute_with_retries, while it has retries left.
Retry(a) ==
  /\ \E r \in Replies :
       /\ Retryable(r) /\ sent[a] <= MaxRetries
       /\ Hear(a, r) /\ Released(a, r)
  /\ pc' = [pc EXCEPT ![a] = "backoff"]
  /\ UNCHANGED <<kind, limited, queue, sent, result>>

Answer(a) ==
  /\ kind # "claude"
  /\ \E r \in Replies :
       /\ Retryable(r) => sent[a] > MaxRetries
       /\ Hear(a, r) /\ Released(a, r)
       /\ Return(a, Status(r))
  /\ UNCHANGED <<kind, limited, queue, sent>>

\* _raise_for_rate_limit, _raise_for_assistant_error, _raise_for_result, and what query
\* raises: each leaves the loop over the stream.
StreamTrouble(r) == r \in {"rejected", "failed", "raised", "late"}

\* _run: text is collected, a ResultMessage that reports no error is kept.
StreamGoesOn(a) ==
  /\ kind = "claude"
  /\ \E r \in Replies :
       /\ ~StreamTrouble(r) /\ r # "end" /\ r \notin ToSet(replies[a])
       /\ Hear(a, r)
  /\ UNCHANGED <<kind, limited, pc, queue, sent, far, result>>

\* A stream that was left early is closed by the event loop, later.
StreamLeft(a) ==
  /\ kind = "claude"
  /\ \E r \in Replies :
       /\ StreamTrouble(r)
       /\ Hear(a, r)
       /\ Return(a, Status(r))
  /\ UNCHANGED <<kind, limited, queue, sent, far>>

\* The end of the stream is a completed answer, with or without a ResultMessage.
StreamEnds(a) ==
  /\ kind = "claude"
  /\ Hear(a, "end") /\ Released(a, "end")
  /\ Return(a, "completed")
  /\ UNCHANGED <<kind, limited, queue, sent>>

\* Mutant: the call that waits for a thread is left in the queue.
AbandonQueued(a) ==
  /\ far' = [far EXCEPT ![a] = IF kind = "async" THEN 0 ELSE @]
  /\ UNCHANGED <<kind, limited, queue, sent, replies>>

\* What an interruption can take back: a call still in the queue, and a coroutine.  A
\* thread runs on, and so may the server and the CLI.
Abandon(a) ==
  /\ queue' = queue \ {a}
  /\ far' = [far EXCEPT ![a] = IF kind = "async" THEN 0 ELSE @]
  /\ UNCHANGED <<kind, limited, sent, replies>>

\* Mutant: the timer is started anew for each request.
HasTimerPerRequest(a) == limited /\ kind # "claude" /\ pc[a] = "call"

\* asyncio.timeout(timeout_seconds) is around the call, or around all its retries; the
\* Claude target sets none.
HasTimer(a) == limited /\ kind # "claude" /\ pc[a] \in {"call", "backoff"}

Timer(a) ==
  /\ HasTimer(a)
  /\ Return(a, "timeout")
  /\ Abandon(a)

\* The runner cancels the attempts of a run that is given up.
Cancel(a) ==
  /\ pc[a] \in {"call", "backoff"}
  /\ pc' = [pc EXCEPT ![a] = "cancelled"]
  /\ Abandon(a)
  /\ UNCHANGED result

Awaited(a) == IF pc[a] = "call" /\ a \notin queue THEN 1 ELSE 0

\* Work nobody waits for ends, some time.
FarEnds(a) ==
  /\ far[a] > Awaited(a)
  /\ far' = [far EXCEPT ![a] = @ - 1]
  /\ UNCHANGED <<kind, limited, pc, queue, sent, replies, result>>

Attempt(a) ==
  \/ Refuse(a) \/ Begin(a) \/ ThreadTakes(a) \/ Resume(a)
  \/ Retry(a) \/ Answer(a)
  \/ StreamGoesOn(a) \/ StreamLeft(a) \/ StreamEnds(a)
  \/ Timer(a) \/ Cancel(a) \/ FarEnds(a)

Ended == (\A a \in Attempts : Over(a) /\ far[a] = 0) /\ UNCHANGED vars

Next == (\E a \in Attempts : Attempt(a)) \/ Ended

Spec == Init /\ [][Next]_vars

\* The runner starts every attempt, and a timer that is set fires.  Nothing is asked of
\* the far side, and nothing of a delay a server chose.
FairSpec ==
  Spec /\ \A a \in Attempts : WF_vars(Begin(a)) /\ WF_vars(Timer(a))

(***************************************************************************)
(* Properties.                                                             *)
(***************************************************************************)
AnyReply == FunctionReplies \union HttpReplies \union StreamReplies

TypeOK ==
  /\ kind \in Kinds /\ limited \in BOOLEAN
  /\ pc \in [Attempts -> {"idle", "call", "backoff", "done", "cancelled"}]
  /\ queue \subseteq Attempts
  /\ sent \in [Attempts -> Nat] /\ far \in [Attempts -> Nat]
  /\ replies \in [Attempts -> Seq(AnyReply)]
  /\ result \in [Attempts -> {None, "completed", "error", "timeout"}]

\* An attempt that is over starts nothing: a call that was still waiting for a thread is
\* not made behind its timeout, and no request is sent again.
NothingStartsLate == [][\A a \in Attempts : Over(a) => sent'[a] = sent[a]]_vars

\* A request is sent again only when every one before it met a lost connection or a busy
\* server, at most max_retries times; and the status is that of what came last, an
\* answer the far side did not disown.
RetriesAreEarned ==
  \A a \in Attempts :
    LET heard == replies[a] IN
    /\ sent[a] <= MaxRetries + 1
    /\ kind # "claude" => \A i \in 1..(sent[a] - 1) : heard[i] \in Transient
    /\ result[a] = "completed" =>
         /\ Last(heard) \in {"good", "end"}
         /\ ToSet(heard) \intersect {"rejected", "failed", "raised"} = {}

\* With a timeout every attempt ends, however long the function runs, whatever the
\* server asks to wait for, and even when no thread is ever free for it.
AttemptsEnd == \A a \in Attempts : limited /\ kind # "claude" ~> Over(a)

(***************************************************************************)
(* What the documents say and this model refutes (README, section 6).      *)
(***************************************************************************)
\* claude_agent.py:309: "the runner already races every attempt against
\* timeout_seconds and cancels it".
ClaudeAttemptsEnd == \A a \in Attempts : limited /\ kind = "claude" ~> Over(a)
=============================================================================
