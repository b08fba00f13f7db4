------------------------ MODULE KafkaConsumerProofs -------------------------
(* Proofs about KafkaConsumer for any group, partitions, retry limit and     *)
(* number of faults.                                                         *)
EXTENDS KafkaConsumer, TLAPS

\* A message is a partition and an offset.
LEMMA MessageParts ==
  ASSUME NEW x \in Messages
  PROVE  /\ x[1] \in Partitions /\ x[2] \in 1..MaxOffset
         /\ x = <<x[1], x[2]>>
BY DEF Messages

\* The initial states satisfy the inductive invariant.
LEMMA InitInv == Init => IInv
<1> USE ConsumerAssumption
<1> SUFFICES ASSUME Init PROVE IInv
  BY Zenon
<1>1. TypeOK
  BY DEF Init, TypeOK, Busy, Locations
<1>2. OffsetInv
  BY DEF Init, OffsetInv, CommittedInSettled, NoOvertaking, ReadIsSettled,
         CommitReady, Busy
<1>3. RetentionsPaired
  BY DEF Init, RetentionsPaired, One
<1>4. SettledHonestly
  BY Zenon DEF Init, SettledHonestly
<1> QED
  BY <1>1, <1>2, <1>3, <1>4, Zenon DEF IInv

\* Every step of every member and of the group keeps the types.
LEMMA TypeStep == TypeOK /\ [Next]_vars => TypeOK'
<1> USE ConsumerAssumption DEF TypeOK, Busy, Locations, Goto, Fault, brokerVars,
        retryVars, historyVars
<1> SUFFICES ASSUME TypeOK, [Next]_vars PROVE TypeOK'
  BY Zenon
<1>0. ASSUME NEW m \in Members, Return(m) PROVE TypeOK'
  BY <1>0 DEF Return, Unassign, One
<1>1. ASSUME NEW m \in Members, LoopTop(m) PROVE TypeOK'
  BY <1>1, <1>0, Zenon DEF LoopTop
<1>2. ASSUME NEW m \in Members, NEW p \in Partitions, FetchMessage(m, p)
      PROVE TypeOK'
  BY <1>2 DEF FetchMessage, Messages
<1>3. ASSUME NEW m \in Members, FetchFails(m) PROVE TypeOK'
  BY <1>3, <1>0, Zenon DEF FetchFails
<1>4. ASSUME NEW m \in Members, HandlerAccepts(m) PROVE TypeOK'
  BY <1>4 DEF HandlerAccepts, ToCommit, Release, One
<1>5. ASSUME NEW m \in Members, HandlerRetains(m) PROVE TypeOK'
  BY <1>5 DEF HandlerRetains, One
<1>6. ASSUME NEW m \in Members, HandlerFails(m) PROVE TypeOK'
  BY <1>6 DEF HandlerFails, AttemptsLeft, Release, One
<1>7. ASSUME NEW m \in Members, HandlerExhausted(m) PROVE TypeOK'
  BY <1>7 DEF HandlerExhausted, Release, One
<1>8. ASSUME NEW m \in Members, BackoffEnds(m) PROVE TypeOK'
  BY <1>8, Zenon DEF BackoffEnds
<1>9. ASSUME NEW m \in Members, BackoffCancelled(m) PROVE TypeOK'
  BY <1>9, <1>0, Zenon DEF BackoffCancelled
<1>10. ASSUME NEW m \in Members, DLQPublished(m) PROVE TypeOK'
  BY <1>10 DEF DLQPublished, One
<1>11. ASSUME NEW m \in Members, DLQFails(m) PROVE TypeOK'
  BY <1>11 DEF DLQFails, One
<1>12. ASSUME NEW m \in Members, CommitSucceeds(m) PROVE TypeOK'
  BY <1>12, MessageParts DEF CommitSucceeds, AfterCommit
<1>13. ASSUME NEW m \in Members, CommitFails(m) PROVE TypeOK'
  <2>1. cur[m][1] \in Partitions /\ cur[m][2] \in 0..MaxOffset
    BY <1>13, MessageParts DEF CommitFails
  <2>2. committed' \in [Partitions -> 0..MaxOffset]
    BY <1>13, <2>1, Zenon DEF CommitFails
  <2>3. faults' \in 0..MaxFaults
    BY <1>13 DEF CommitFails
  <2> QED
    BY <1>13, <2>2, <2>3 DEF CommitFails, AfterCommit
<1>14. ASSUME NEW m \in Members, NEW p \in Partitions, Assign(p, m)
       PROVE TypeOK'
  BY <1>14 DEF Assign
<1>15. ASSUME NEW p \in Partitions, Revoke(p) PROVE TypeOK'
  BY <1>15 DEF Revoke
<1>16. ASSUME NEW m \in Members, Cancel(m) PROVE TypeOK'
  BY <1>16 DEF Cancel
<1>17. ASSUME NEW m \in Members, Close(m) PROVE TypeOK'
  BY <1>17 DEF Close, Unassign
<1>18. ASSUME NEW m \in Members, Crash(m) PROVE TypeOK'
  BY <1>18 DEF Crash, Unassign
<1>19. ASSUME NEW m \in Members, Restart(m) PROVE TypeOK'
  BY <1>19, Zenon DEF Restart
<1>20. CASE UNCHANGED vars
  BY <1>20, Zenon DEF vars
<1> QED
  BY <1>1, <1>2, <1>3, <1>4, <1>5, <1>6, <1>7, <1>8, <1>9, <1>10, <1>11, Zenon,
     <1>12, <1>13, <1>14, <1>15, <1>16, <1>17, <1>18, <1>19, <1>20
     DEF Next, MemberStep, Environment

\* The gauge bookkeeping of the two retaining functions stays paired.
LEMMA RetentionsStep ==
  TypeOK /\ RetentionsPaired /\ [Next]_vars => RetentionsPaired'
<1> USE ConsumerAssumption DEF TypeOK, RetentionsPaired, Goto, Fault, brokerVars,
        retryVars, historyVars, One
<1> SUFFICES ASSUME TypeOK, RetentionsPaired, [Next]_vars
             PROVE RetentionsPaired'
  BY Zenon
<1>0. ASSUME NEW m \in Members, Return(m) PROVE RetentionsPaired'
  BY <1>0 DEF Return
<1>1. ASSUME NEW m \in Members, LoopTop(m) PROVE RetentionsPaired'
  <2>1. CASE Return(m)
    BY <1>0, <2>1, Zenon
  <2>2. CASE ~Return(m)
    <3>1. pc[m] = "top" /\ Goto(m, "fetch") /\ UNCHANGED retryVars
      BY <1>1, <2>2, Zenon DEF LoopTop
    <3> QED
      BY <3>1
  <2> QED
    BY <2>1, <2>2, Zenon
<1>2. ASSUME NEW m \in Members, NEW p \in Partitions, FetchMessage(m, p)
      PROVE RetentionsPaired'
  BY <1>2 DEF FetchMessage
<1>3. ASSUME NEW m \in Members, FetchFails(m) PROVE RetentionsPaired'
  <2>1. CASE Return(m)
    BY <1>0, <2>1, Zenon
  <2>2. CASE ~Return(m)
    <3>1. pc[m] = "fetch" /\ Goto(m, "top") /\ UNCHANGED retryVars
      BY <1>3, <2>2, Zenon DEF FetchFails
    <3> QED
      BY <3>1
  <2> QED
    BY <2>1, <2>2, Zenon
<1>4. ASSUME NEW m \in Members, HandlerAccepts(m) PROVE RetentionsPaired'
  BY <1>4 DEF HandlerAccepts, ToCommit, Release
<1>5. ASSUME NEW m \in Members, HandlerRetains(m) PROVE RetentionsPaired'
  BY <1>5 DEF HandlerRetains
<1>6. ASSUME NEW m \in Members, HandlerFails(m) PROVE RetentionsPaired'
  BY <1>6 DEF HandlerFails, Release
<1>7. ASSUME NEW m \in Members, HandlerExhausted(m) PROVE RetentionsPaired'
  <2>1. pc[m] = "handle" /\ Release(m) /\ UNCHANGED dlqRetaining
    BY <1>7, Zenon DEF HandlerExhausted
  <2>2. \E l \in {"dlq", "commit"} : Goto(m, l)
    BY <1>7, Zenon DEF HandlerExhausted
  <2> QED
    BY <2>1, <2>2 DEF Release
<1>8. ASSUME NEW m \in Members, BackoffEnds(m) PROVE RetentionsPaired'
  BY <1>8 DEF BackoffEnds
<1>9. ASSUME NEW m \in Members, BackoffCancelled(m) PROVE RetentionsPaired'
  BY <1>9, <1>0, Zenon DEF BackoffCancelled
<1>10. ASSUME NEW m \in Members, DLQPublished(m) PROVE RetentionsPaired'
  BY <1>10 DEF DLQPublished
<1>11. ASSUME NEW m \in Members, DLQFails(m) PROVE RetentionsPaired'
  BY <1>11 DEF DLQFails
<1>12. ASSUME NEW m \in Members, CommitSucceeds(m) \/ CommitFails(m)
       PROVE RetentionsPaired'
  <2>1. AfterCommit(m) /\ pc[m] = "commit"
    BY <1>12, Zenon DEF CommitSucceeds, CommitFails
  <2> QED
    BY <2>1, Zenon DEF AfterCommit
<1>13. ASSUME NEW m \in Members, NEW p \in Partitions, Assign(p, m)
       PROVE RetentionsPaired'
  BY <1>13, Zenon DEF Assign
<1>14. ASSUME NEW p \in Partitions, Revoke(p) PROVE RetentionsPaired'
  BY <1>14, Zenon DEF Revoke
<1>15. ASSUME NEW m \in Members, Cancel(m) \/ Close(m) PROVE RetentionsPaired'
  <2>1. UNCHANGED <<pc, retryVars>>
    BY <1>15, Zenon DEF Cancel, Close
  <2> QED
    BY <2>1, Zenon
<1>16. ASSUME NEW m \in Members, Crash(m) PROVE RetentionsPaired'
  BY <1>16 DEF Crash
<1>17. ASSUME NEW m \in Members, Restart(m) PROVE RetentionsPaired'
  BY <1>17, Zenon DEF Restart
<1>18. CASE UNCHANGED vars
  BY <1>18, Zenon DEF vars
<1> QED
  BY <1>1, <1>2, <1>3, <1>4, <1>5, <1>6, <1>7, <1>8, <1>9, <1>10, <1>11, Zenon,
     <1>12, <1>13, <1>14, <1>15, <1>16, <1>17, <1>18
     DEF Next, MemberStep, Environment

\* Only a consumer without a DLQ abandons messages, and an undecodable message
\* is not accepted when decoding errors are routed to the DLQ.
LEMMA HonestStep == SettledHonestly /\ [Next]_vars => SettledHonestly'
<1> USE DEF SettledHonestly, historyVars
<1> SUFFICES ASSUME SettledHonestly, [Next]_vars PROVE SettledHonestly'
  BY Zenon
<1>0. ASSUME UNCHANGED <<handled, abandoned>> PROVE SettledHonestly'
  BY <1>0, Zenon
<1>1. ASSUME NEW m \in Members, HandlerAccepts(m) PROVE SettledHonestly'
  <2>1. DecodeErrorsToDLQ => cur[m] \notin Undecodable
    BY <1>1, Zenon DEF HandlerAccepts, Verdicts
  <2> QED
    BY <1>1, <2>1, Zenon DEF HandlerAccepts
<1>2. ASSUME NEW m \in Members, HandlerExhausted(m) PROVE SettledHonestly'
  BY <1>2, Zenon DEF HandlerExhausted
<1>3. ASSUME NEW m \in Members, MemberStep(m) PROVE SettledHonestly'
  BY <1>0, <1>1, <1>2, <1>3, Zenon
     DEF MemberStep, LoopTop, FetchMessage, FetchFails, HandlerRetains,
         HandlerFails, BackoffEnds, BackoffCancelled, DLQPublished, DLQFails,
         CommitSucceeds, CommitFails, AfterCommit, Return
<1>4. CASE Environment
  BY <1>0, <1>4, Zenon DEF Environment, Assign, Revoke, Cancel, Close, Crash, Restart
<1>5. CASE UNCHANGED vars
  BY <1>0, <1>5, Zenon DEF vars
<1> QED
  BY <1>3, <1>4, <1>5, Zenon DEF Next

\* The offset invariant survives a step that commits nothing and moves no
\* reader, if it only settles more messages, only takes partitions away, keeps
\* or drops the message in hand (dropping it only when leaving the group), and
\* reaches the commit only with a settled message.
LEMMA OffsetFrame ==
  ASSUME TypeOK, TypeOK', OffsetInv,
         Settled \subseteq Settled',
         UNCHANGED <<committed, pos>>,
         \A p \in Partitions : owner'[p] \in {owner[p], NoMember},
         \A m \in Members : \/ cur'[m] = cur[m]
                            \/ /\ cur'[m] = NoMessage
                               /\ \A p \in Partitions : owner'[p] # m,
         \A m \in Members : pc'[m] = "commit" => cur'[m] \in Settled'
  PROVE  OffsetInv'
<1> USE ConsumerAssumption
<1>1. CommittedInSettled'
  BY Zenon DEF OffsetInv, CommittedInSettled
<1>2. NoOvertaking'
  <2> SUFFICES ASSUME NEW m \in Members, Busy(m)',
                      NEW o \in 1..(cur'[m][2] - 1)
               PROVE  <<cur'[m][1], o>> \in Settled'
    BY Zenon DEF NoOvertaking
  <2>1. cur'[m] # NoMessage
    BY Zenon DEF TypeOK
  <2>2. cur'[m] = cur[m]
    BY <2>1, Zenon
  <2>3. Busy(m)
    BY <2>1, <2>2, Zenon DEF TypeOK
  <2> QED
    BY <2>2, <2>3, Zenon DEF OffsetInv, NoOvertaking
<1>3. ReadIsSettled'
  <2> SUFFICES ASSUME NEW m \in Members, NEW p \in Partitions, owner'[p] = m,
                      NEW o \in 1..(pos'[m][p] - 1)
               PROVE  <<p, o>> \in Settled' \/ (Busy(m)' /\ cur'[m] = <<p, o>>)
    BY Zenon DEF ReadIsSettled
  <2>1. owner[p] = m /\ cur'[m] = cur[m]
    BY Zenon
  <2>2. Busy(m) <=> Busy(m)'
    BY <2>1, Zenon DEF TypeOK
  <2> QED
    BY <2>1, <2>2 DEF OffsetInv, ReadIsSettled
<1>4. CommitReady'
  BY Zenon DEF CommitReady
<1> QED
  BY <1>1, <1>2, <1>3, <1>4, Zenon DEF OffsetInv

\* Every step keeps the offset invariant.
LEMMA OffsetStep == TypeOK /\ TypeOK' /\ OffsetInv /\ [Next]_vars => OffsetInv'
<1> USE ConsumerAssumption
<1> SUFFICES ASSUME TypeOK, TypeOK', OffsetInv, [Next]_vars PROVE OffsetInv'
  BY Zenon
<1>0. CommitReady
  BY Zenon DEF OffsetInv
<1>1. ASSUME NEW m \in Members, Return(m) PROVE OffsetInv'
  BY <1>0, <1>1, OffsetFrame
     DEF Return, Goto, Unassign, Settled, CommitReady, TypeOK, historyVars
<1>2. ASSUME NEW m \in Members, LoopTop(m) \/ FetchFails(m) PROVE OffsetInv'
  <2>1. CASE Return(m)
    BY <1>1, <2>1, Zenon
  <2>2. CASE ~Return(m)
    BY <1>0, <1>2, <2>2, OffsetFrame, Zenon
       DEF LoopTop, FetchFails, Goto, Settled, CommitReady, TypeOK, historyVars,
           brokerVars
  <2> QED
    BY <2>1, <2>2, Zenon
<1>3. ASSUME NEW m \in Members, HandlerAccepts(m) PROVE OffsetInv'
  BY <1>0, <1>3, OffsetFrame, Zenon
     DEF HandlerAccepts, ToCommit, Goto, Settled, CommitReady, TypeOK, brokerVars
<1>4. ASSUME NEW m \in Members, HandlerRetains(m) \/ HandlerFails(m)
      PROVE OffsetInv'
  BY <1>0, <1>4, OffsetFrame
     DEF HandlerRetains, HandlerFails, Goto, Settled, CommitReady, TypeOK,
         brokerVars, historyVars
<1>5. ASSUME NEW m \in Members, HandlerExhausted(m) PROVE OffsetInv'
  BY <1>0, <1>5, OffsetFrame, Zenon
     DEF HandlerExhausted, Goto, Settled, CommitReady, TypeOK, brokerVars
<1>6. ASSUME NEW m \in Members, BackoffEnds(m) \/ BackoffCancelled(m)
      PROVE OffsetInv'
  <2>1. CASE BackoffEnds(m)
    BY <1>0, <2>1, OffsetFrame
       DEF BackoffEnds, Goto, Settled, CommitReady, TypeOK, brokerVars, historyVars
  <2>2. CASE BackoffCancelled(m)
    BY <1>1, <2>2, Zenon DEF BackoffCancelled
  <2> QED
    BY <1>6, <2>1, <2>2, Zenon
<1>7. ASSUME NEW m \in Members, DLQPublished(m) \/ DLQFails(m) PROVE OffsetInv'
  BY <1>0, <1>7, OffsetFrame
     DEF DLQPublished, DLQFails, Goto, Settled, CommitReady, TypeOK, historyVars
<1>8. ASSUME NEW m \in Members, Cancel(m) \/ Restart(m) PROVE OffsetInv'
  <2>1. UNCHANGED <<committed, pos, owner, cur, Settled>>
    BY <1>8, Zenon DEF Cancel, Restart, Settled, brokerVars, historyVars
  <2>2. \A n \in Members : pc'[n] = "commit" => pc[n] = "commit"
    BY <1>8, Zenon DEF Cancel, Restart, Goto, TypeOK
  <2> QED
    BY <1>0, <2>1, <2>2, OffsetFrame, Zenon DEF CommitReady
<1>9. ASSUME NEW m \in Members, Close(m) PROVE OffsetInv'
  BY <1>0, <1>9, OffsetFrame, Zenon DEF Close, Unassign, Settled, CommitReady, TypeOK
<1>10. ASSUME NEW m \in Members, Crash(m) PROVE OffsetInv'
  BY <1>0, <1>10, OffsetFrame, Zenon
     DEF Crash, Goto, Unassign, Settled, CommitReady, TypeOK
<1>11. ASSUME NEW p \in Partitions, Revoke(p) PROVE OffsetInv'
  BY <1>0, <1>11, OffsetFrame, Zenon DEF Revoke, Settled, CommitReady, TypeOK
<1>12. CASE UNCHANGED vars
  BY <1>0, <1>12, OffsetFrame, Zenon DEF vars, Settled, CommitReady, TypeOK
<1>13. ASSUME NEW m \in Members, NEW p \in Partitions, FetchMessage(m, p)
       PROVE OffsetInv'
  <2> USE <1>13
  <2>1. UNCHANGED <<committed, owner, Settled>>
    BY Zenon DEF FetchMessage, brokerVars, historyVars, Settled
  <2>2. ~Busy(m) /\ cur'[m] = <<p, pos[m][p]>> /\ Busy(m)'
    BY Zenon DEF FetchMessage, Busy, Goto, TypeOK
  <2>3. \A n \in Members \ {m} : cur'[n] = cur[n] /\ pc'[n] = pc[n]
                                /\ pos'[n] = pos[n]
    BY Zenon DEF FetchMessage, Goto, TypeOK
  <2>4. pos[m][p] \in 1..MaxOffset
    BY DEF FetchMessage, TypeOK
  <2>5. \A o \in 1..(pos[m][p] - 1) : <<p, o>> \in Settled
    BY <2>2, Zenon DEF FetchMessage, OffsetInv, ReadIsSettled
  <2>6. CommittedInSettled'
    BY <2>1, Zenon DEF OffsetInv, CommittedInSettled
  <2>7. NoOvertaking'
    <3> SUFFICES ASSUME NEW n \in Members, Busy(n)',
                        NEW o \in 1..(cur'[n][2] - 1)
                 PROVE  <<cur'[n][1], o>> \in Settled'
      BY Zenon DEF NoOvertaking
    <3>1. CASE n = m
      <4>1. cur'[n][1] = p /\ cur'[n][2] = pos[m][p]
        BY <2>2, <3>1
      <4> QED BY <2>1, <2>5, <4>1, Zenon
    <3>2. CASE n # m
      <4>1. cur'[n] = cur[n] /\ Busy(n)
        BY <2>3, <3>2, Zenon DEF Busy
      <4> QED BY <2>1, <4>1, Zenon DEF OffsetInv, NoOvertaking
    <3> QED BY <3>1, <3>2, Zenon
  <2>8. \A q \in Partitions : \A o \in 1..(pos'[m][q] - 1) :
           owner[q] = m => <<q, o>> \in Settled \/ cur'[m] = <<q, o>>
    <3> SUFFICES ASSUME NEW q \in Partitions, NEW o \in 1..(pos'[m][q] - 1),
                        owner[q] = m, cur'[m] # <<q, o>>
                 PROVE  <<q, o>> \in Settled
      BY Zenon
    <3>1. CASE q = p
      <4>1. pos'[m][q] = pos[m][p] + 1 /\ o # pos[m][p]
        BY <2>2, <3>1 DEF FetchMessage, TypeOK
      <4> QED
        BY <2>4, <2>5, <3>1, <4>1
    <3>2. CASE q # p
      <4>1. pos'[m][q] = pos[m][q]
        BY <3>2 DEF FetchMessage, TypeOK
      <4> QED
        BY <2>2, <4>1, Zenon DEF OffsetInv, ReadIsSettled
    <3> QED
      BY <3>1, <3>2, Zenon
  <2>9. ReadIsSettled'
    <3> SUFFICES ASSUME NEW n \in Members, NEW q \in Partitions, owner'[q] = n,
                        NEW o \in 1..(pos'[n][q] - 1)
                 PROVE  <<q, o>> \in Settled' \/ (Busy(n)' /\ cur'[n] = <<q, o>>)
      BY Zenon DEF ReadIsSettled
    <3>1. CASE n = m
      BY <2>1, <2>2, <2>8, <3>1, Zenon
    <3>2. CASE n # m
      <4>1. /\ owner[q] = n /\ o \in 1..(pos[n][q] - 1)
            /\ cur'[n] = cur[n] /\ pc'[n] = pc[n]
        BY <2>1, <2>3, <3>2, Zenon
      <4>2. <<q, o>> \in Settled \/ (Busy(n) /\ cur[n] = <<q, o>>)
        BY <4>1, Zenon DEF OffsetInv, ReadIsSettled
      <4> QED
        BY <2>1, <4>1, <4>2, Zenon DEF Busy
    <3> QED
      BY <3>1, <3>2, Zenon
  <2>10. CommitReady'
    BY <1>0, <2>1, <2>3 DEF CommitReady, FetchMessage, Goto, TypeOK
  <2> QED
    BY <2>6, <2>7, <2>9, <2>10, Zenon DEF OffsetInv
<1>14. ASSUME NEW m \in Members, CommitSucceeds(m) \/ CommitFails(m)
       PROVE OffsetInv'
  <2>1. AfterCommit(m) /\ pc[m] = "commit" /\ UNCHANGED Settled
    BY <1>14, Zenon DEF CommitSucceeds, CommitFails, AfterCommit, Settled
  <2>2. cur[m] \in Messages /\ cur[m] \in Settled
    BY <1>0, <2>1, Zenon DEF CommitReady, TypeOK, Busy
  <2>3. \A o \in 1..cur[m][2] : <<cur[m][1], o>> \in Settled
    BY <2>1, <2>2, MessageParts DEF OffsetInv, NoOvertaking, Busy
  <2>4. \A n \in Members \ {m} : cur'[n] = cur[n] /\ pc'[n] = pc[n]
    BY <2>1, Zenon DEF AfterCommit, Goto, TypeOK
  <2>5. ~Busy(m)' /\ UNCHANGED <<owner, pos>>
    BY <2>1, Zenon DEF AfterCommit, Goto, TypeOK, Busy
  <2>6. CommittedInSettled'
    BY <1>14, <2>1, <2>2, <2>3, MessageParts, Zenon
       DEF CommitSucceeds, CommitFails, OffsetInv, CommittedInSettled, TypeOK
  <2>7. NoOvertaking'
    BY <2>1, <2>4, <2>5, Zenon DEF OffsetInv, NoOvertaking, Busy
  <2>8. ReadIsSettled'
    <3> SUFFICES ASSUME NEW n \in Members, NEW q \in Partitions, owner'[q] = n,
                        NEW o \in 1..(pos'[n][q] - 1)
                 PROVE  <<q, o>> \in Settled' \/ (Busy(n)' /\ cur'[n] = <<q, o>>)
      BY Zenon DEF ReadIsSettled
    <3>1. <<q, o>> \in Settled \/ (Busy(n) /\ cur[n] = <<q, o>>)
      BY <2>5, Zenon DEF OffsetInv, ReadIsSettled
    <3>2. CASE n = m
      BY <2>1, <2>2, <3>1, <3>2, Zenon
    <3>3. CASE n # m
      BY <2>1, <2>4, <3>1, <3>3, Zenon DEF Busy
    <3> QED
      BY <3>2, <3>3, Zenon
  <2>9. CommitReady'
    BY <1>0, <2>1, <2>4, <2>5, Zenon DEF CommitReady, Busy
  <2> QED
    BY <2>6, <2>7, <2>8, <2>9, Zenon DEF OffsetInv
<1>15. ASSUME NEW m \in Members, NEW p \in Partitions, Assign(p, m)
       PROVE OffsetInv'
  <2> USE <1>15
  <2>1. UNCHANGED <<committed, pc, cur, Settled>>
    BY Zenon DEF Assign, Settled, historyVars
  <2>2. CommittedInSettled' /\ NoOvertaking' /\ CommitReady'
    BY <2>1, Zenon DEF OffsetInv, CommittedInSettled, NoOvertaking, CommitReady, Busy
  <2>3. ReadIsSettled'
    BY <2>1 DEF OffsetInv, CommittedInSettled, ReadIsSettled, Busy, Assign, TypeOK
  <2> QED
    BY <2>2, <2>3, Zenon DEF OffsetInv
<1> QED
  BY <1>2, <1>3, <1>4, <1>5, <1>6, <1>7, <1>8, <1>9, <1>10, <1>11, <1>12,
     <1>13, <1>14, <1>15, Zenon
     DEF Next, MemberStep, Environment

\* The inductive invariant holds in every reachable state.
THEOREM Invariance == Spec => []IInv
<1>1. IInv /\ [Next]_vars => IInv'
  BY TypeStep, OffsetStep, RetentionsStep, HonestStep, Zenon DEF IInv
<1> QED
  BY InitInv, <1>1, PTL DEF Spec

\* Consume and the group keep every variable within its type, for every
\* configuration.
THEOREM TypeCorrect == Spec => []TypeOK
<1>1. IInv => TypeOK
  BY Zenon DEF IInv
<1> QED
  BY Invariance, <1>1, PTL

\* At-least-once for every group: no interleaving of crashes, rebalances, late
\* and failed commits moves the committed offset past an unsettled message.
THEOREM AtLeastOnce == Spec => []CommittedAreSettled
<1>1. IInv => CommittedAreSettled
  BY Zenon DEF IInv, OffsetInv, CommittedInSettled, CommittedAreSettled, Settled,
         SettledHonestly
<1> QED
  BY Invariance, <1>1, PTL

\* Per-partition order for every group: Consume never works past an unsettled
\* message.
THEOREM InOrder == Spec => []NoOvertaking
<1>1. IInv => NoOvertaking
  BY Zenon DEF IInv, OffsetInv
<1> QED
  BY Invariance, <1>1, PTL

\* The retained-offsets gauge of handleWithRetry and sendToDLQUntilSuccess is
\* paired on every path.
THEOREM GaugePaired == Spec => []GaugeBalanced
<1>1. IInv => GaugeBalanced
  BY DEF IInv, TypeOK, RetentionsPaired, GaugeBalanced, One
<1> QED
  BY Invariance, <1>1, PTL

\* With decode errors routed to the DLQ, no malformed event is committed before
\* it is in the dead-letter topic.
THEOREM MalformedRouted == Spec => []MalformedReachDLQ
<1>1. IInv => MalformedReachDLQ
  BY Zenon DEF IInv, OffsetInv, CommittedInSettled, MalformedReachDLQ, Settled,
         SettledHonestly
<1> QED
  BY Invariance, <1>1, PTL

\* Settling the message in hand is a Settle step of the abstract group.
LEMMA SettleRefines ==
  ASSUME NEW x \in Messages, Settled' = Settled \cup {x}, UNCHANGED committed
  PROVE  Log!Next
<1>1. x[1] \in Partitions /\ x[2] \in 1..MaxOffset /\ x = <<x[1], x[2]>>
  BY MessageParts, Zenon
<1>2. SettledOffsets' = [SettledOffsets EXCEPT ![x[1]] = @ \cup {x[2]}]
  <2> DEFINE Old(p) == {o \in 1..MaxOffset : <<p, o>> \in Settled}
             New(p) == {o \in 1..MaxOffset : <<p, o>> \in Settled'}
  <2>1. \A p \in Partitions \ {x[1]} : New(p) = Old(p)
    BY <1>1
  <2>2. New(x[1]) = Old(x[1]) \cup {x[2]}
    BY <1>1
  <2> HIDE DEF Old, New
  <2>3. SettledOffsets = [p \in Partitions |-> Old(p)]
    BY Zenon DEF Old, SettledOffsets
  <2>4. SettledOffsets' = [p \in Partitions |-> New(p)]
    BY Zenon DEF New, SettledOffsets
  <2> QED
    BY <1>1, <2>1, <2>2, <2>3, <2>4, Zenon
<1>3. Log!Settle(x[1], x[2])
  BY <1>2, Zenon DEF Log!Settle
<1> QED
  BY <1>1, <1>3, Zenon DEF Log!Next

\* Every step of the group is a step of the abstract group or a stutter.
LEMMA StepRefines == IInv /\ [Next]_vars => [Log!Next]_(Log!vars)
<1> SUFFICES ASSUME IInv, [Next]_vars PROVE [Log!Next]_(Log!vars)
  BY Zenon
<1> USE ConsumerAssumption
<1>0. ASSUME UNCHANGED <<committed, Settled>> PROVE UNCHANGED Log!vars
  BY <1>0, Zenon DEF Log!vars, SettledOffsets
<1>1. ASSUME NEW m \in Members, HandlerAccepts(m) \/ HandlerExhausted(m)
                                \/ DLQPublished(m) \/ DLQFails(m)
      PROVE  [Log!Next]_(Log!vars)
  <2>1. cur[m] \in Messages /\ UNCHANGED committed
    BY <1>1, Zenon DEF IInv, TypeOK, Busy, HandlerAccepts, HandlerExhausted,
                DLQPublished, DLQFails, brokerVars
  <2>2. Settled' = Settled \/ Settled' = Settled \cup {cur[m]}
    BY <1>1, Zenon DEF Settled, HandlerAccepts, HandlerExhausted, DLQPublished,
                DLQFails, brokerVars, historyVars
  <2> QED
    BY <1>0, <2>1, <2>2, SettleRefines, Zenon
<1>2. ASSUME NEW m \in Members, CommitSucceeds(m) \/ CommitFails(m)
      PROVE  [Log!Next]_(Log!vars)
  <2>1. pc[m] = "commit" /\ UNCHANGED <<Settled, SettledOffsets>>
    BY <1>2, Zenon DEF CommitSucceeds, CommitFails, AfterCommit, Settled, SettledOffsets
  <2>2. cur[m] \in Messages /\ cur[m] \in Settled
    BY <2>1, Zenon DEF IInv, OffsetInv, CommitReady, TypeOK, Busy
  <2> DEFINE p == cur[m][1]
             o == cur[m][2]
  <2>3. p \in Partitions /\ o \in 1..MaxOffset /\ cur[m] = <<p, o>>
    BY <2>2, MessageParts, Zenon
  <2>4. \A k \in 1..o : <<p, k>> \in Settled
    BY <2>1, <2>2, <2>3 DEF IInv, OffsetInv, NoOvertaking, Busy
  <2>5. 1..o \subseteq SettledOffsets[p]
    BY <2>3, <2>4 DEF SettledOffsets
  <2>6. CASE UNCHANGED committed
    BY <1>0, <2>1, <2>6, Zenon
  <2>7. CASE committed' = [committed EXCEPT ![p] = o]
    <3>1. Log!Commit(p, o)
      BY <2>1, <2>5, <2>7, Zenon DEF Log!Commit
    <3> QED
      BY <2>3, <3>1, Zenon DEF Log!Next
  <2> QED
    BY <1>2, <2>6, <2>7, Zenon DEF CommitSucceeds, CommitFails
<1>3. ASSUME NEW m \in Members, MemberStep(m) PROVE [Log!Next]_(Log!vars)
  BY <1>0, <1>1, <1>2, <1>3, Zenon
     DEF MemberStep, LoopTop, FetchMessage, FetchFails, HandlerRetains,
         HandlerFails, BackoffEnds, BackoffCancelled, Return, Settled,
         brokerVars, historyVars
<1>4. CASE Environment
  BY <1>0, <1>4, Zenon DEF Environment, Assign, Revoke, Cancel, Close, Crash, Restart,
                    Settled, brokerVars, historyVars
<1>5. CASE UNCHANGED vars
  BY <1>0, <1>5, Zenon DEF vars, Settled
<1> QED
  BY <1>3, <1>4, <1>5, Zenon DEF Next

\* Consume, run by any group under any faults, implements ConsumerGroupLog.
THEOREM Refinement == Spec => ImplementsLog
<1>1. Init => Log!Init
  BY Zenon DEF Init, Log!Init, SettledOffsets, Settled
<1> QED
  BY <1>1, Invariance, StepRefines, PTL DEF Spec, ImplementsLog, Log!Spec

=============================================================================
