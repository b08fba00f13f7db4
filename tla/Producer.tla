------------------------------ MODULE Producer ------------------------------
(***************************************************************************)
(* kafka.Producer shared by concurrent publishers: PublishJSON through the *)
(* writer of the bound topic, PublishJSONTo through a writer per further   *)
(* topic that writerFor creates under extraMu, and Close, which may come   *)
(* while publishers are at work.  pushpublisher.Publisher sits on top: a   *)
(* batch goes on after a failed event.  A topic name is the sequence of    *)
(* its parts: its base, the environment suffix, a tail such as ".dlq".     *)
(* kafka-go's Writer is external: after Close it refuses messages, and a   *)
(* write that reports an error may have reached the log all the same.      *)
(***************************************************************************)
EXTENDS Integers, Sequences, FiniteSets

CONSTANTS
  Publishers,
  Bases, Bound,      \* base names of topics; the one the producer is bound to
  Suffixed,          \* Config.TopicSuffix is set
  MsgKeys, NoKey,    \* message keys, and the empty key
  KafkaPartitions,
  PartitionOf,       \* Murmur2Balancer: [MsgKeys -> KafkaPartitions]
  MaxMessages,       \* bound: events in one behaviour
  MaxWriters         \* bound: topic-specific writers in one behaviour

Env == "-env"

\* No base name contains the text of the suffix: qualifyTopic would take it for
\* qualified.
ASSUME ProducerAssumption ==
  /\ Bound \in Bases /\ Env \notin Bases /\ NoKey \notin MsgKeys
  /\ Suffixed \in BOOLEAN
  /\ PartitionOf \in [MsgKeys -> KafkaPartitions]
  /\ MaxMessages \in Nat /\ MaxWriters \in Nat

\* Mutant: the suffix is looked for only at the end of the name.
QualifyTopicAtEnd(t) ==
  IF t = <<>> \/ ~Suffixed \/ t[Len(t)] = Env THEN t ELSE Append(t, Env)

\* qualifyTopic: a name that has the suffix at its end or before a "." keeps it.
QualifyTopic(t) ==
  IF \/ t = <<>> \/ ~Suffixed \/ t[Len(t)] = Env
     \/ \E i \in 1..(Len(t) - 1) : t[i] = Env
  THEN t ELSE Append(t, Env)

\* What callers pass: nothing, a base name, the qualified name, its DLQ topic.
TopicArgs ==
  {<<>>} \cup UNION {{<<b>>, <<b, Env>>, <<b, Env, ".dlq">>} : b \in Bases}

BoundTopic == QualifyTopic(<<Bound>>)

VARIABLES
  requireKey,    \* made by NewKeyedProducer rather than by NewProducer
  writerTopic,   \* topics of the writers made so far; the first is p.writer
  openWriters,   \* writers that were not closed
  extraWriters,  \* p.extraWriters, as a set of writers
  closePc,       \* Close: "open", "bound", "extras" (holds extraMu), "closed"
  doomed,        \* writers that the loop of Close has still to close
  pubPc, request, writer,
  issued,        \* events published so far
  topicLog,      \* messages the brokers have, in order of arrival
  \* history
  early          \* writers that existed when Close took extraMu

writerVars == <<writerTopic, openWriters, extraWriters>>
publishVars == <<pubPc, request, writer, issued>>
producerVars == <<requireKey, writerTopic, openWriters, extraWriters, closePc,
                  doomed, pubPc, request, writer, issued, topicLog, early>>

NoRequest == [asked |-> <<>>, topic |-> <<>>, key |-> NoKey, n |-> 0]

ProducerInit ==
  /\ requireKey \in BOOLEAN
  /\ writerTopic = <<BoundTopic>> /\ openWriters = {1} /\ extraWriters = {}
  /\ closePc = "open" /\ doomed = {}
  /\ pubPc = [p \in Publishers |-> "idle"]
  /\ request = [p \in Publishers |-> NoRequest]
  /\ writer = [p \in Publishers |-> 0]
  /\ issued = 0
  /\ topicLog = <<>> /\ early = {}

-----------------------------------------------------------------------------
(* Publishing                                                              *)

\* pushpublisher.Publish and PublishBatch: the error is swallowed, the event is
\* given up, and the publisher goes on with the next.
PublishFails == UNCHANGED <<pubPc, request, writer>>

\* The checks that come before any writer is used, and the marshalling, whose
\* failure ends the call like a failed check.
PublishJSONTo(p) ==
  /\ pubPc[p] = "idle"
  /\ issued < MaxMessages /\ issued' = issued + 1
  /\ \E t \in TopicArgs, k \in MsgKeys \cup {NoKey} :
       LET q == QualifyTopic(t)
           bound == q \in {<<>>, BoundTopic}
           new == [asked |-> t, topic |-> q, key |-> k, n |-> issued']
       IN \/ /\ bound /\ (requireKey => k # NoKey)
             /\ request' = [request EXCEPT ![p] = new]
             /\ writer' = [writer EXCEPT ![p] = 1]
             /\ pubPc' = [pubPc EXCEPT ![p] = "write"]
          \/ /\ ~bound /\ ~requireKey
             /\ request' = [request EXCEPT ![p] = new]
             /\ pubPc' = [pubPc EXCEPT ![p] = "lookup"]
             /\ UNCHANGED writer
          \/ PublishFails
  /\ UNCHANGED <<requireKey, writerVars, closePc, doomed, topicLog, early>>

WritersOf(topic) == {w \in extraWriters : writerTopic[w] = topic}

\* writerFor: it qualifies the name once more; lookup and creation are one
\* critical section of extraMu.  Nothing here asks whether the producer was
\* closed.
WriterFor(p) ==
  LET topic == QualifyTopic(request[p].topic) IN
  /\ pubPc[p] = "lookup" /\ closePc # "extras"
  /\ \/ /\ \E w \in WritersOf(topic) : writer' = [writer EXCEPT ![p] = w]
        /\ UNCHANGED writerVars
     \/ /\ WritersOf(topic) = {} /\ Len(writerTopic) <= MaxWriters
        /\ writerTopic' = Append(writerTopic, topic)
        /\ openWriters' = openWriters \cup {Len(writerTopic')}
        /\ extraWriters' = extraWriters \cup {Len(writerTopic')}
        /\ writer' = [writer EXCEPT ![p] = Len(writerTopic')]
  /\ pubPc' = [pubPc EXCEPT ![p] = "write"]
  /\ UNCHANGED <<requireKey, closePc, doomed, request, issued, topicLog, early>>

\* The balancer of the producer: by key, or LeastBytes, which may choose any.
Balancer(key) == IF requireKey THEN {PartitionOf[key]} ELSE KafkaPartitions

\* The topic a caller means: in this environment, the suffix in second place,
\* right after the base name.
Meant(t) ==
  IF t = <<>> THEN BoundTopic
  ELSE IF ~Suffixed THEN t
  ELSE IF Len(t) = 1 THEN <<t[1], Env>> ELSE [t EXCEPT ![2] = Env]

Delivered(p, q) ==
  [topic |-> writerTopic[writer[p]], partition |-> q, key |-> request[p].key,
   meant |-> Meant(request[p].asked), by |-> p, n |-> request[p].n]

\* WriteMessages: the message arrives, and the call returns nil or an error; or
\* it does not, because the broker fails or the writer is closed.
WriteMessages(p) ==
  /\ pubPc[p] = "write"
  /\ pubPc' = [pubPc EXCEPT ![p] = "idle"]
  /\ request' = [request EXCEPT ![p] = NoRequest]
  /\ writer' = [writer EXCEPT ![p] = 0]
  /\ \/ /\ writer[p] \in openWriters
        /\ \E q \in Balancer(request[p].key) :
             topicLog' = Append(topicLog, Delivered(p, q))
     \/ UNCHANGED topicLog
  /\ UNCHANGED <<requireKey, writerVars, closePc, doomed, issued, early>>

-----------------------------------------------------------------------------
(* Close                                                                   *)

CloseBound ==
  /\ closePc = "open" /\ closePc' = "bound"
  /\ openWriters' = openWriters \ {1}
  /\ UNCHANGED <<requireKey, writerTopic, extraWriters, doomed, publishVars,
                 topicLog, early>>

CloseLock ==
  /\ closePc = "bound" /\ closePc' = "extras"
  /\ doomed' = extraWriters /\ early' = DOMAIN writerTopic
  /\ UNCHANGED <<requireKey, writerVars, publishVars, topicLog>>

\* Mutant: the first writer that fails to close ends the loop.
CloseWriterStopsOnError(w) ==
  /\ closePc = "extras" /\ w \in doomed
  /\ openWriters' = openWriters \ {w}
  /\ doomed' = doomed \ {w} \/ doomed' = {}
  /\ UNCHANGED <<requireKey, writerTopic, extraWriters, closePc, publishVars,
                 topicLog, early>>

\* One turn of the loop; an error of the writer's Close is kept, not obeyed.
CloseWriter(w) ==
  /\ closePc = "extras" /\ w \in doomed
  /\ openWriters' = openWriters \ {w}
  /\ doomed' = doomed \ {w}
  /\ UNCHANGED <<requireKey, writerTopic, extraWriters, closePc, publishVars,
                 topicLog, early>>

CloseUnlock ==
  /\ closePc = "extras" /\ doomed = {}
  /\ closePc' = "closed" /\ extraWriters' = {}
  /\ UNCHANGED <<requireKey, writerTopic, openWriters, doomed, publishVars,
                 topicLog, early>>

ProducerNext ==
  \/ \E p \in Publishers : PublishJSONTo(p) \/ WriterFor(p) \/ WriteMessages(p)
  \/ CloseBound \/ CloseLock \/ CloseUnlock
  \/ \E w \in doomed : CloseWriter(w)

ProducerSpec == ProducerInit /\ [][ProducerNext]_producerVars

-----------------------------------------------------------------------------
(* Properties                                                              *)

\* At any time at most one topic-specific writer is open for a topic, however
\* publishers race for it and whether Close ran in between.
OneWriterPerTopic ==
  \A v, w \in openWriters : writerTopic[v] = writerTopic[w] => v = w

\* When Close has returned, every writer made before Close took extraMu is
\* closed, also when closing one of them failed; only a writer that a publisher
\* asked for after that can be open.
CloseClosesWriters == closePc = "closed" => early \cap openWriters = {}

\* What is on the topics is what the callers meant: every message on the topic
\* they named with or without the environment suffix, whichever publisher made
\* the writer it went through; and the messages of a keyed producer with one key
\* in one partition, each publisher's in the order of its calls.
DeliveredAsMeant ==
  /\ \A i \in DOMAIN topicLog : topicLog[i].topic = topicLog[i].meant
  /\ requireKey =>
       \A i, j \in DOMAIN topicLog :
         i < j /\ topicLog[i].key = topicLog[j].key =>
           /\ topicLog[i].partition = topicLog[j].partition
           /\ topicLog[i].by = topicLog[j].by => topicLog[i].n <= topicLog[j].n

-----------------------------------------------------------------------------
(* The inductive invariant behind DeliveredAsMeant                         *)

TopicNames == Seq(Bases \cup {Env, ".dlq"})
TopicMessages ==
  [topic : TopicNames, partition : KafkaPartitions, key : MsgKeys \cup {NoKey},
   meant : TopicNames, by : Publishers, n : Nat]

\* A publisher at work has the topic it was asked for, qualified, and once it
\* has a writer, one for the topic that was meant.
RequestMade(p) ==
  pubPc[p] # "idle" =>
    /\ request[p].asked \in TopicArgs
    /\ request[p].topic = QualifyTopic(request[p].asked)
    /\ request[p].key \in MsgKeys \cup {NoKey}
    /\ requireKey => request[p].key # NoKey
    /\ request[p].n \in 1..issued
    /\ pubPc[p] = "lookup" => request[p].asked # <<>>
    /\ pubPc[p] = "write" =>
         /\ writer[p] \in DOMAIN writerTopic
         /\ writerTopic[writer[p]] = Meant(request[p].asked)

\* A message in the log is where it was meant to go, and older than the one its
\* publisher is at work on.
MessageKept(m) ==
  /\ m.topic = m.meant
  /\ requireKey => m.key \in MsgKeys /\ m.partition = PartitionOf[m.key]
  /\ m.n <= issued
  /\ pubPc[m.by] # "idle" => m.n < request[m.by].n

DeliveryInv ==
  /\ issued \in Nat /\ requireKey \in BOOLEAN /\ topicLog \in Seq(TopicMessages)
  /\ DOMAIN writer = Publishers
  /\ \A p \in Publishers : RequestMade(p)
  /\ \A i \in DOMAIN topicLog : MessageKept(topicLog[i])
  /\ \A i, j \in DOMAIN topicLog :
       i < j /\ topicLog[i].by = topicLog[j].by => topicLog[i].n <= topicLog[j].n
=============================================================================
