---------------------------- MODULE KafkaConsumer ----------------------------
(***************************************************************************)
(* kafka.Consumer: the fetch / handle-with-retry / dead-letter / commit    *)
(* loop of Consumer.Consume, run by the members of one consumer group over *)
(* the partitions of one topic.  A member handles one message at a time.   *)
(* The broker's side (assignment, redelivery from the committed offset,    *)
(* commits that fail or whose answer is lost, dead-letter writes whose     *)
(* acknowledgement is lost) is modelled from how the code uses kafka-go.   *)
(* A new group starts at the first message: StartOffset is "earliest", the *)
(* default.  With "latest" what was published before the group's first     *)
(* commit may be skipped on purpose, and nothing is claimed.               *)
(* Backoff durations, logging and the monotonic counters are left out; the *)
(* retained-offsets gauge, which has to be paired, is kept.                *)
(***************************************************************************)
EXTENDS Integers, FiniteSets

CONSTANTS
  Members,            \* processes of the consumer group
  NoMember,           \* "this partition is assigned to nobody"
  NoMessage,          \* "this member holds no message"
  Partitions,
  MaxOffset,          \* every partition holds the messages 1..MaxOffset
  MaxRetries,         \* retryCfg.maxRetries
  DLQEnabled,         \* Config.DLQEnabled
  Redactor,           \* the value redactor in force: the one given with
                      \* WithEventDecodeErrorsToDLQ if that option is used
  DecodeErrorsToDLQ,  \* WithEventDecodeErrorsToDLQ was given
  Undecodable,        \* messages decodeEvent rejects
  NonJSON,            \* messages whose raw value is not JSON at all
  MaxFaults           \* bound: crashes, cancellations, closes, revocations
                      \* and failed commits in one behaviour

Messages == Partitions \X (1..MaxOffset)

ASSUME ConsumerAssumption ==
  /\ NoMember \notin Members
  /\ NoMessage \notin Messages
  /\ MaxOffset \in Nat /\ MaxFaults \in Nat
  /\ MaxRetries \in Nat \ {0}      \* newRetryConfig replaces 0 by a default
  /\ DLQEnabled \in BOOLEAN /\ DecodeErrorsToDLQ \in BOOLEAN
  /\ Redactor \in {"none", "working", "failing"}
  /\ Undecodable \subseteq Messages /\ NonJSON \subseteq Messages

VARIABLES
  \* broker
  committed,   \* committed[p]: the group's committed offset, 0 for none
  owner,       \* owner[p]: the member p is assigned to
  dlq,         \* messages present in the dead-letter topic
  \* members
  pc,          \* where in Consume / handleWithRetry the member is
  cur,         \* the message being handled
  pos,         \* pos[m][p]: next offset the reader of m returns for p
  normalRetries,
  retaining,   \* retainingOffset of handleWithRetry
  dlqRetaining,\* retainingOffset of sendToDLQUntilSuccess
  gauge,       \* kafka_consumer_retained_offsets of the process
  cancelled,   \* the context given to Consume is done
  closed,      \* Consumer.Close was called
  \* history
  handled,     \* messages the handler accepted or declared unparsable
  abandoned,   \* messages given up after the retries, with no DLQ
  faults       \* disturbances so far

brokerVars == <<committed, owner, dlq>>
retryVars == <<normalRetries, retaining, dlqRetaining, gauge>>
historyVars == <<handled, abandoned, faults>>
vars == <<committed, owner, dlq, pc, cur, pos, normalRetries, retaining,
          dlqRetaining, gauge, cancelled, closed, handled, abandoned, faults>>

Locations == {"top", "fetch", "handle", "retainWait", "retryWait", "dlq",
              "dlqWait", "commit", "stopped"}

\* Locations at which the member holds a fetched message.
Busy(m) == pc[m] \in {"handle", "retainWait", "retryWait", "dlq", "dlqWait",
                      "commit"}

Settled == handled \cup abandoned \cup dlq

One(flag) == IF flag THEN 1 ELSE 0

Goto(m, l) == pc' = [pc EXCEPT ![m] = l]

Fault == faults < MaxFaults /\ faults' = faults + 1

-----------------------------------------------------------------------------
(* Configuration                                                           *)

\* finalizeOptions: routing undecodable events to the DLQ needs a redactor,
\* a missing one is replaced by one that always fails.
EffectiveRedactor ==
  IF DecodeErrorsToDLQ /\ Redactor = "none" THEN "failing" ELSE Redactor

\* What handler(ctx, msg) may return for message x.  ConsumeEvent answers for
\* an undecodable envelope itself, every other verdict is the caller's.
Verdicts(x) ==
  IF x \in Undecodable
  THEN {IF DecodeErrorsToDLQ THEN "error" ELSE "unmarshal"}
  ELSE {"nil", "error", "unmarshal", "retryUntilCanceled"}

\* dlqValue and the json.Marshal of the envelope both succeed for x: raw bytes
\* are embedded as json.RawMessage, which only marshals when they are JSON.
Publishable(x) ==
  \/ EffectiveRedactor = "working"
  \/ EffectiveRedactor = "none" /\ x \notin NonJSON

-----------------------------------------------------------------------------
Init ==
  /\ committed = [p \in Partitions |-> 0]
  /\ owner = [p \in Partitions |-> NoMember]
  /\ dlq = {}
  /\ pc = [m \in Members |-> "top"]
  /\ cur = [m \in Members |-> NoMessage]
  /\ pos = [m \in Members |-> [p \in Partitions |-> 1]]
  /\ normalRetries = [m \in Members |-> 0]
  /\ retaining = [m \in Members |-> FALSE]
  /\ dlqRetaining = [m \in Members |-> FALSE]
  /\ gauge = [m \in Members |-> 0]
  /\ cancelled = [m \in Members |-> FALSE]
  /\ closed = [m \in Members |-> FALSE]
  /\ handled = {} /\ abandoned = {} /\ faults = 0

\* The member leaves the group: its partitions become unassigned.
Unassign(m) == owner' = [p \in Partitions |->
                           IF owner[p] = m THEN NoMember ELSE owner[p]]

\* Consume returns; the deferred functions of handleWithRetry and of
\* sendToDLQUntilSuccess release the gauge.
Return(m) ==
  /\ Goto(m, "stopped")
  /\ Unassign(m)
  /\ cur' = [cur EXCEPT ![m] = NoMessage]
  /\ normalRetries' = [normalRetries EXCEPT ![m] = 0]
  /\ gauge' = [gauge EXCEPT ![m] = @ - One(retaining[m]) - One(dlqRetaining[m])]
  /\ retaining' = [retaining EXCEPT ![m] = FALSE]
  /\ dlqRetaining' = [dlqRetaining EXCEPT ![m] = FALSE]
  /\ UNCHANGED <<committed, dlq, pos, cancelled, closed, historyVars>>

\* Top of the loop: select on ctx.Done with a default.
LoopTop(m) ==
  /\ pc[m] = "top"
  /\ \/ cancelled[m] /\ Return(m)
     \/ /\ ~cancelled[m]
        /\ Goto(m, "fetch")
        /\ UNCHANGED <<brokerVars, cur, pos, retryVars, cancelled, closed,
                       historyVars>>

\* FetchMessage hands over the next message of an assigned partition.
FetchMessage(m, p) ==
  /\ pc[m] = "fetch" /\ ~closed[m]
  /\ owner[p] = m /\ pos[m][p] <= MaxOffset
  /\ Goto(m, "handle")
  /\ cur' = [cur EXCEPT ![m] = <<p, pos[m][p]>>]
  /\ pos' = [pos EXCEPT ![m][p] = @ + 1]
  /\ normalRetries' = [normalRetries EXCEPT ![m] = 0]
  /\ UNCHANGED <<brokerVars, retaining, dlqRetaining, gauge, cancelled, closed,
                 historyVars>>

\* FetchMessage fails: Consume returns when the context is done, and loops
\* otherwise.  A closed reader fails every time.
FetchFails(m) ==
  /\ pc[m] = "fetch"
  /\ \/ cancelled[m] /\ Return(m)
     \/ /\ ~cancelled[m]
        /\ Goto(m, "top")
        /\ UNCHANGED <<brokerVars, cur, pos, retryVars, cancelled, closed,
                       historyVars>>

-----------------------------------------------------------------------------
(* handleWithRetry                                                         *)

\* The gauge is released if this call retained the offset.
Release(m) ==
  /\ gauge' = [gauge EXCEPT ![m] = @ - One(retaining[m])]
  /\ retaining' = [retaining EXCEPT ![m] = FALSE]

AttemptsLeft(m) == normalRetries[m] < MaxRetries

\* handleWithRetry returns (true, _): its deferred release runs and Consume
\* goes on to commit.
ToCommit(m) ==
  /\ Goto(m, "commit")
  /\ Release(m)

\* The handler returns nil, or an UnmarshalError, which is never retried.
HandlerAccepts(m) ==
  /\ pc[m] = "handle"
  /\ Verdicts(cur[m]) \cap {"nil", "unmarshal"} # {}
  /\ ToCommit(m)
  /\ handled' = handled \cup {cur[m]}
  /\ UNCHANGED <<brokerVars, cur, pos, normalRetries, dlqRetaining, cancelled,
                 closed, abandoned, faults>>

\* The handler returns a RetryUntilCanceled error: the offset is retained and
\* the gauge counts the message once.
HandlerRetains(m) ==
  /\ pc[m] = "handle"
  /\ "retryUntilCanceled" \in Verdicts(cur[m])
  /\ Goto(m, "retainWait")
  /\ gauge' = [gauge EXCEPT ![m] = @ + One(~retaining[m])]
  /\ retaining' = [retaining EXCEPT ![m] = TRUE]
  /\ UNCHANGED <<brokerVars, cur, pos, normalRetries, dlqRetaining, cancelled,
                 closed, historyVars>>

\* Any other error: back off and retry while attempts are left.
HandlerFails(m) ==
  /\ pc[m] = "handle"
  /\ "error" \in Verdicts(cur[m])
  /\ AttemptsLeft(m)
  /\ Goto(m, "retryWait")
  /\ normalRetries' = [normalRetries EXCEPT ![m] = @ + 1]
  /\ Release(m)
  /\ UNCHANGED <<brokerVars, cur, pos, dlqRetaining, cancelled, closed,
                 historyVars>>

\* The last attempt failed: the message goes to the dead-letter topic, or is
\* given up when there is none.
HandlerExhausted(m) ==
  /\ pc[m] = "handle"
  /\ "error" \in Verdicts(cur[m])
  /\ ~AttemptsLeft(m)
  /\ Goto(m, IF DLQEnabled THEN "dlq" ELSE "commit")
  /\ abandoned' = IF DLQEnabled THEN abandoned ELSE abandoned \cup {cur[m]}
  /\ Release(m)
  /\ UNCHANGED <<brokerVars, cur, pos, normalRetries, dlqRetaining, cancelled,
                 closed, handled, faults>>

\* The timer of a backoff select fires.
BackoffEnds(m) ==
  /\ \/ pc[m] \in {"retainWait", "retryWait"} /\ Goto(m, "handle")
     \/ pc[m] = "dlqWait" /\ Goto(m, "dlq")
  /\ UNCHANGED <<brokerVars, cur, pos, retryVars, cancelled, closed,
                 historyVars>>

\* Mutant: cancellation is answered with (true, ctx.Err()).
BackoffCancelledCommits(m) ==
  /\ pc[m] \in {"retainWait", "retryWait", "dlqWait"}
  /\ cancelled[m]
  /\ Goto(m, "commit")
  /\ gauge' = [gauge EXCEPT ![m] = 0]
  /\ retaining' = [retaining EXCEPT ![m] = FALSE]
  /\ dlqRetaining' = [dlqRetaining EXCEPT ![m] = FALSE]
  /\ UNCHANGED <<brokerVars, cur, pos, normalRetries, cancelled, closed,
                 historyVars>>

\* Mutant: the dead-letter backoff sleeps without watching the context.
BackoffCancelledNotInDLQ(m) ==
  /\ pc[m] \in {"retainWait", "retryWait"}
  /\ cancelled[m]
  /\ Return(m)

\* ctx.Done of a backoff select: handleWithRetry returns (false, ctx.Err())
\* and Consume returns without committing.
BackoffCancelled(m) ==
  /\ pc[m] \in {"retainWait", "retryWait", "dlqWait"}
  /\ cancelled[m]
  /\ Return(m)

-----------------------------------------------------------------------------
(* sendToDLQUntilSuccess                                                   *)

\* The dead-letter write is acknowledged.  With a redactor the context is
\* checked first.
DLQPublished(m) ==
  /\ pc[m] = "dlq" /\ ~closed[m]
  /\ Publishable(cur[m])
  /\ EffectiveRedactor = "working" => ~cancelled[m]
  /\ dlq' = dlq \cup {cur[m]}
  /\ Goto(m, "commit")
  /\ gauge' = [gauge EXCEPT ![m] = @ - One(dlqRetaining[m])]
  /\ dlqRetaining' = [dlqRetaining EXCEPT ![m] = FALSE]
  /\ UNCHANGED <<committed, owner, cur, pos, normalRetries, retaining,
                 cancelled, closed, historyVars>>

\* Mutant: a failed dead-letter write is logged and the message dropped.
DLQFailsDrops(m) ==
  /\ pc[m] = "dlq"
  /\ Goto(m, "top")
  /\ cur' = [cur EXCEPT ![m] = NoMessage]
  /\ normalRetries' = [normalRetries EXCEPT ![m] = 0]
  /\ UNCHANGED <<brokerVars, pos, retaining, dlqRetaining, gauge, cancelled,
                 closed, historyVars>>

\* Redaction, marshalling or the write fails, or its acknowledgement is lost
\* after the write took place: the offset is retained and the attempt repeated.
DLQFails(m) ==
  /\ pc[m] = "dlq"
  /\ \/ UNCHANGED dlq
     \/ Publishable(cur[m]) /\ ~closed[m] /\ dlq' = dlq \cup {cur[m]}
  /\ Goto(m, "dlqWait")
  /\ gauge' = [gauge EXCEPT ![m] = @ + One(~dlqRetaining[m])]
  /\ dlqRetaining' = [dlqRetaining EXCEPT ![m] = TRUE]
  /\ UNCHANGED <<committed, owner, cur, pos, normalRetries, retaining,
                 cancelled, closed, historyVars>>

-----------------------------------------------------------------------------
(* Commit                                                                  *)

\* Back to the top of the loop after CommitMessages, whatever it returned.
AfterCommit(m) ==
  /\ Goto(m, "top")
  /\ cur' = [cur EXCEPT ![m] = NoMessage]
  /\ normalRetries' = [normalRetries EXCEPT ![m] = 0]
  /\ UNCHANGED <<owner, dlq, pos, retaining, dlqRetaining, gauge, cancelled,
                 closed, handled, abandoned>>

\* The broker stores the offset, also when the partition has been taken away
\* from the member meanwhile: committed[p] may go back.
CommitSucceeds(m) ==
  /\ pc[m] = "commit" /\ ~closed[m]
  /\ committed' = [committed EXCEPT ![cur[m][1]] = cur[m][2]]
  /\ AfterCommit(m)
  /\ UNCHANGED faults

\* CommitMessages returns an error, which is only logged; the broker may have
\* stored the offset all the same.
CommitFails(m) ==
  /\ pc[m] = "commit"
  /\ \/ UNCHANGED committed
     \/ ~closed[m] /\ committed' = [committed EXCEPT ![cur[m][1]] = cur[m][2]]
  /\ AfterCommit(m)
  /\ IF closed[m] \/ cancelled[m] THEN UNCHANGED faults ELSE Fault

-----------------------------------------------------------------------------
(* Group membership, shutdown and crashes                                  *)

\* The group assigns an unassigned partition to a running member, whose reader
\* resumes after the committed offset (the first offset for a new group).
Assign(p, m) ==
  /\ owner[p] = NoMember
  /\ pc[m] # "stopped" /\ ~closed[m]
  /\ owner' = [owner EXCEPT ![p] = m]
  /\ pos' = [pos EXCEPT ![m][p] = committed[p] + 1]
  /\ UNCHANGED <<committed, dlq, pc, cur, retryVars, cancelled, closed,
                 historyVars>>

\* A rebalance takes a partition away from a running member, which goes on
\* with the message it holds.
Revoke(p) ==
  /\ owner[p] # NoMember
  /\ Fault
  /\ owner' = [owner EXCEPT ![p] = NoMember]
  /\ UNCHANGED <<committed, dlq, pc, cur, pos, retryVars, cancelled, closed,
                 handled, abandoned>>

\* The service cancels the context given to Consume.
Cancel(m) ==
  /\ pc[m] # "stopped" /\ ~cancelled[m]
  /\ Fault
  /\ cancelled' = [cancelled EXCEPT ![m] = TRUE]
  /\ UNCHANGED <<brokerVars, pc, cur, pos, retryVars, closed, handled,
                 abandoned>>

\* Consumer.Close while Consume is running: the reader leaves the group and
\* every later call on it, or on the DLQ producer, fails.
Close(m) ==
  /\ pc[m] # "stopped" /\ ~closed[m]
  /\ Fault
  /\ closed' = [closed EXCEPT ![m] = TRUE]
  /\ Unassign(m)
  /\ UNCHANGED <<committed, dlq, pc, cur, pos, retryVars, cancelled, handled,
                 abandoned>>

\* The process dies: everything but the broker's state is lost.
Crash(m) ==
  /\ pc[m] # "stopped"
  /\ Fault
  /\ Goto(m, "stopped")
  /\ Unassign(m)
  /\ cur' = [cur EXCEPT ![m] = NoMessage]
  /\ normalRetries' = [normalRetries EXCEPT ![m] = 0]
  /\ retaining' = [retaining EXCEPT ![m] = FALSE]
  /\ dlqRetaining' = [dlqRetaining EXCEPT ![m] = FALSE]
  /\ gauge' = [gauge EXCEPT ![m] = 0]
  /\ UNCHANGED <<committed, dlq, pos, cancelled, closed, handled, abandoned>>

\* The orchestrator starts the service again: a new Consumer, a new context.
Restart(m) ==
  /\ pc[m] = "stopped"
  /\ Goto(m, "top")
  /\ cancelled' = [cancelled EXCEPT ![m] = FALSE]
  /\ closed' = [closed EXCEPT ![m] = FALSE]
  /\ UNCHANGED <<brokerVars, cur, pos, retryVars, historyVars>>
-----------------------------------------------------------------------------
MemberStep(m) ==
  \/ LoopTop(m) \/ FetchFails(m) \/ (\E p \in Partitions : FetchMessage(m, p))
  \/ HandlerAccepts(m) \/ HandlerRetains(m) \/ HandlerFails(m)
  \/ HandlerExhausted(m) \/ BackoffEnds(m) \/ BackoffCancelled(m)
  \/ DLQPublished(m) \/ DLQFails(m) \/ CommitSucceeds(m) \/ CommitFails(m)

Environment ==
  \/ \E p \in Partitions : Revoke(p) \/ (\E m \in Members : Assign(p, m))
  \/ \E m \in Members : Cancel(m) \/ Close(m) \/ Crash(m) \/ Restart(m)

Next == (\E m \in Members : MemberStep(m)) \/ Environment

Spec == Init /\ [][Next]_vars

-----------------------------------------------------------------------------
(* Fairness.  A goroutine that can run does run.  A select whose ctx.Done   *)
(* case is ready each time it is reached takes it eventually, because Go    *)
(* chooses among ready cases at random: strong fairness.                    *)
SchedulerFairness ==
  \A m \in Members : WF_vars(MemberStep(m)) /\ SF_vars(BackoffCancelled(m))

(* The outside world recovers: the broker answers fetches and dead-letter   *)
(* writes again and again, the dependency behind RetryUntilCanceled comes   *)
(* back, the orchestrator restarts members and the group assigns orphans.   *)
RecoveryFairness ==
  /\ \A m \in Members :
       /\ SF_vars(HandlerAccepts(m) \/ HandlerFails(m) \/ HandlerExhausted(m))
       /\ SF_vars(DLQPublished(m))
       /\ WF_vars(Restart(m))
       /\ \A p \in Partitions : SF_vars(FetchMessage(m, p))
  /\ \A p \in Partitions : WF_vars(\E m \in Members : Assign(p, m))

FairSpec == Spec /\ SchedulerFairness /\ RecoveryFairness

-----------------------------------------------------------------------------
(* Properties                                                              *)

\* The variables of Consumer and of the broker keep their types; retry counts
\* stay within maxRetries and a member holds a message exactly while it works
\* on one (Consume, handleWithRetry).
TypeOK ==
  /\ committed \in [Partitions -> 0..MaxOffset]
  /\ owner \in [Partitions -> Members \cup {NoMember}]
  /\ dlq \subseteq Messages
  /\ pc \in [Members -> Locations]
  /\ cur \in [Members -> Messages \cup {NoMessage}]
  /\ pos \in [Members -> [Partitions -> 1..(MaxOffset + 1)]]
  /\ normalRetries \in [Members -> 0..MaxRetries]
  /\ retaining \in [Members -> BOOLEAN]
  /\ dlqRetaining \in [Members -> BOOLEAN]
  /\ gauge \in [Members -> Int]
  /\ cancelled \in [Members -> BOOLEAN]
  /\ closed \in [Members -> BOOLEAN]
  /\ handled \subseteq Messages /\ abandoned \subseteq Messages
  /\ faults \in 0..MaxFaults
  /\ \A m \in Members : Busy(m) <=> cur[m] # NoMessage

\* At-least-once: when the group's committed offset has passed a message, that
\* message was processed (or found unparsable), or is in the dead-letter topic,
\* or was given up on by a consumer that has no dead-letter topic; whatever the
\* order of crashes, rebalances, late commits and failed commits of the members
\* (Consume, and sendToDLQ: "The caller must not commit the source offset
\* unless this function returns nil").
CommittedAreSettled ==
  \A p \in Partitions : \A o \in 1..committed[p] :
    \/ <<p, o>> \in handled
    \/ <<p, o>> \in dlq
    \/ ~DLQEnabled /\ <<p, o>> \in abandoned

\* No overtaking: a member works on a message only when every earlier message
\* of the partition is settled, also across rebalances (Consume handles one
\* message at a time and never fetches past an unsettled one).
NoOvertaking ==
  \A m \in Members : Busy(m) =>
    \A o \in 1..(cur[m][2] - 1) : <<cur[m][1], o>> \in Settled

\* The retained-offsets gauge is paired: it counts the member's current message
\* at most once, across the two functions that retain, and is back to zero
\* whenever the member is not retrying a message (handleWithRetry,
\* sendToDLQUntilSuccess and their deferred releases).
GaugeBalanced ==
  \A m \in Members :
    /\ gauge[m] \in 0..1
    /\ pc[m] \in {"top", "fetch", "retryWait", "commit", "stopped"} => gauge[m] = 0
    /\ pc[m] \in {"retainWait", "dlqWait"} => gauge[m] = 1

\* With WithEventDecodeErrorsToDLQ and a DLQ, an event envelope that does not
\* decode is committed only once it is in the dead-letter topic (decodeEvent,
\* finalizeOptions).
MalformedReachDLQ ==
  DLQEnabled /\ DecodeErrorsToDLQ =>
    \A p \in Partitions : \A o \in 1..committed[p] :
      <<p, o>> \in Undecodable => <<p, o>> \in dlq

\* The refinement mapping: the settled offsets of each partition.
SettledOffsets ==
  [p \in Partitions |-> {o \in 1..MaxOffset : <<p, o>> \in Settled}]

Log == INSTANCE ConsumerGroupLog WITH settled <- SettledOffsets

\* Every behaviour of Consume, with all faults, is one ConsumerGroupLog allows.
ImplementsLog == Log!Spec

\* Shutdown: once its context is cancelled, Consume returns, also from the
\* middle of an endless retained retry or of an endless dead-letter retry; this
\* needs no recovery of anything, only that goroutines are scheduled.
ShutdownReturns ==
  SchedulerFairness => \A m \in Members : cancelled[m] ~> pc[m] = "stopped"

\* Every message is settled eventually when dependencies and brokers recover,
\* whatever faults came before; the exception is a group all of whose members
\* had their reader closed under a running Consume.
EveryMessageSettled ==
  SchedulerFairness /\ RecoveryFairness => \A x \in Messages :
    <>(x \in Settled \/ \A m \in Members : closed[m])

\* An exhausted message reaches the dead-letter topic unless the consumer is
\* stopped or closed first (Config.DLQEnabled: "publishes exhausted messages to a
\* dead-letter topic").
ExhaustedReachDLQ ==
  \A m \in Members, x \in Messages :
    (pc[m] = "dlq" /\ cur[m] = x) ~>
      (x \in dlq \/ pc[m] = "stopped" \/ closed[m])

-----------------------------------------------------------------------------
(* The inductive invariant behind the safety properties                    *)

\* What a commit may cover: the message at hand is settled.
CommitReady == \A m \in Members : pc[m] = "commit" => cur[m] \in Settled

\* A reader never leaves an unsettled message behind, except the one its
\* member holds.
ReadIsSettled ==
  \A m \in Members, p \in Partitions : owner[p] = m =>
    \A o \in 1..(pos[m][p] - 1) :
      <<p, o>> \in Settled \/ (Busy(m) /\ cur[m] = <<p, o>>)

CommittedInSettled ==
  \A p \in Partitions : \A o \in 1..committed[p] : <<p, o>> \in Settled

\* The two functions never retain the same message twice, and the gauge is the
\* number of open retentions.
RetentionsPaired ==
  \A m \in Members :
    /\ gauge[m] = One(retaining[m]) + One(dlqRetaining[m])
    /\ retaining[m] => pc[m] \in {"handle", "retainWait"}
    /\ pc[m] = "retainWait" => retaining[m]
    /\ dlqRetaining[m] => pc[m] \in {"dlq", "dlqWait"}
    /\ pc[m] = "dlqWait" => dlqRetaining[m]

\* What each way of settling a message excludes.
SettledHonestly ==
  /\ DLQEnabled => abandoned = {}
  /\ DecodeErrorsToDLQ => handled \cap Undecodable = {}

OffsetInv ==
  CommittedInSettled /\ NoOvertaking /\ ReadIsSettled /\ CommitReady

IInv == TypeOK /\ OffsetInv /\ RetentionsPaired /\ SettledHonestly

=============================================================================
