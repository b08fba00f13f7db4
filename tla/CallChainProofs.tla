-------------------------- MODULE CallChainProofs ---------------------------
(* Proofs about CallChain for any number of services and calls, any timeouts. *)
EXTENDS CallChain, SequenceTheorems, TLAPS

CallRecords ==
  [at : 1..Depth, parent : Nat, id : 0..(2 * MaxCalls + 1),
   log : 0..(2 * MaxCalls + 1), due : 0..NoDeadline, left : 0..NoDeadline,
   pc : {"sent", "handling", "calling", "ended"},
   answer : {"none", "returned", "internal", "deadline", "unavailable"}]

ChainTypes ==
  /\ server \in [1..Depth -> {"new", "serving", "stopping", "stopped"}]
  /\ waitForReady \in BOOLEAN
  /\ calls \in Seq(CallRecords) /\ Len(calls) <= MaxCalls

\* What holds of a call by itself.
Alone(c, k) ==
  /\ k.parent < c
  /\ k.pc = "ended" => k.answer # "none"
  /\ k.pc # "ended" /\ k.answer # "none" => k.due = 0
  /\ k.pc = "sent" => k.log = NoID
  /\ k.log # NoID /\ k.id # NoID => k.log = k.id
  /\ k.pc \in {"handling", "calling"} =>
       k.left <= k.due /\ k.left <= ServerTimeout /\ k.log # NoID

\* What holds between a call k and the one, p, whose handler made it.
Below(p, k) ==
  /\ p.log # NoID
  /\ p.id # NoID => k.id = p.id
  /\ k.pc # "ended" => k.due <= p.left
  /\ p.pc # "calling" => k.answer # "none"

\* A handler waits for its last call only.
Awaits(c, d) ==
  /\ calls[d].parent = c
  /\ \A e \in DOMAIN calls :
       calls[e].parent = c => e <= d /\ (e # d => calls[e].answer # "none")

ChainIInv ==
  /\ ChainTypes /\ StopDrains
  /\ \A c \in DOMAIN calls :
       /\ Alone(c, calls[c])
       /\ calls[c].parent # 0 => Below(calls[calls[c].parent], calls[c])
       /\ calls[c].pc = "calling" => \E d \in DOMAIN calls : Awaits(c, d)

-----------------------------------------------------------------------------
\* The calls as a function, and their types.
LEMMA CallTypes ==
  ASSUME ChainTypes
  PROVE  /\ Len(calls) \in Nat /\ DOMAIN calls = 1..Len(calls)
         /\ \A c \in DOMAIN calls :
              /\ calls[c] \in CallRecords
              /\ calls[c].at \in 1..Depth
              /\ calls[c].id \in 0..(2 * MaxCalls + 1)
              /\ calls[c].parent \in Nat
              /\ calls[c].due \in 0..NoDeadline
              /\ calls[c].left \in 0..NoDeadline
<1>1. Len(calls) \in Nat /\ DOMAIN calls = 1..Len(calls)
  BY LenProperties, Zenon DEF ChainTypes
<1>2. \A c \in DOMAIN calls : calls[c] \in CallRecords
  BY <1>1, ElementOfSeq, Zenon DEF ChainTypes
<1> QED
  BY <1>1, <1>2, Zenon DEF CallRecords

\* A step that changes one call, keeps where it came from, and takes no answer
\* and gives no time to anyone, keeps the invariant.
LEMMA Update ==
  ASSUME ChainIInv, NEW c \in DOMAIN calls, NEW r \in CallRecords,
         calls' = [calls EXCEPT ![c] = r], UNCHANGED <<server, waitForReady>>,
         r.at = calls[c].at, r.parent = calls[c].parent, r.id = calls[c].id,
         Alone(c, r), r.due <= calls[c].due,
         r.pc # "ended" => calls[c].pc # "ended",
         calls[c].answer # "none" => r.answer # "none",
         r.pc = "calling" => calls[c].pc = "calling",
         r.pc \in {"handling", "calling"} => server[r.at] # "stopped",
         \A d \in DOMAIN calls : calls[d].parent = c => Below(r, calls[d])
  PROVE  ChainIInv'
<1> USE ChainAssumption
<1>0. /\ Len(calls) \in Nat /\ DOMAIN calls = 1..Len(calls)
      /\ \A d \in DOMAIN calls :
           /\ calls[d] \in CallRecords /\ calls[d].parent \in Nat
           /\ calls[d].due \in 0..NoDeadline
           /\ calls[d].left \in 0..NoDeadline
      /\ r.due \in 0..NoDeadline
  BY CallTypes, Zenon DEF ChainIInv, CallRecords
<1>1. /\ calls' \in Seq(CallRecords) /\ Len(calls') = Len(calls)
      /\ \A d \in DOMAIN calls :
           calls'[d] = IF d = c THEN r ELSE calls[d]
  BY <1>0, ExceptSeq DEF ChainIInv, ChainTypes
<1>2. DOMAIN calls' = DOMAIN calls
  BY <1>0, <1>1, LenProperties, Zenon
<1>3. ChainTypes'
  BY <1>1, Zenon DEF ChainIInv, ChainTypes
<1>4. StopDrains'
  BY <1>1, <1>2, Zenon DEF ChainIInv, StopDrains, Running
<1>5. \A d \in DOMAIN calls' : Alone(d, calls'[d])
  BY <1>1, <1>2, Zenon DEF ChainIInv
<1>6. ASSUME NEW d \in DOMAIN calls', calls'[d].parent # 0
      PROVE  Below(calls'[calls'[d].parent], calls'[d])
  <2>1. calls'[d].parent = calls[d].parent
    BY <1>1, <1>2, Zenon
  <2>2. calls[d].parent < d /\ calls[d].parent \in DOMAIN calls
    BY <1>0, <1>2, <1>6, <2>1 DEF ChainIInv, Alone
  <2>3. Below(calls[calls[d].parent], calls[d])
    BY <1>2, <1>6, <2>1, Zenon DEF ChainIInv
  <2>4. CASE calls[d].parent = c
    BY <1>1, <1>2, <2>1, <2>2, <2>4, <1>0
  <2>5. CASE d = c
    <3>1. calls'[calls'[d].parent] = calls[calls[d].parent] /\ calls'[d] = r
      BY <1>0, <1>1, <2>1, <2>2, <2>5
    <3>2. /\ calls[calls[d].parent].left \in 0..NoDeadline
          /\ calls[d].due \in 0..NoDeadline
      BY <1>0, <1>2, <2>2, Zenon
    <3> DEFINE p == calls[calls[d].parent]
    <3>3. /\ p.log # NoID /\ (p.id # NoID => r.id = p.id)
          /\ p.pc # "calling" => r.answer # "none"
      BY <2>3, <2>5, Zenon DEF Below
    <3>4. r.pc # "ended" => r.due <= p.left
      BY <1>0, <2>3, <2>5, <3>2 DEF Below
    <3>5. Below(p, r)
      BY <3>3, <3>4, Zenon DEF Below
    <3> QED
      BY <3>1, <3>5, Zenon
  <2>6. CASE calls[d].parent # c /\ d # c
    BY <1>1, <1>2, <2>1, <2>2, <2>3, <2>6, Zenon
  <2> QED
    BY <2>4, <2>5, <2>6, Zenon
<1>7. ASSUME NEW d \in DOMAIN calls', calls'[d].pc = "calling"
      PROVE  \E e \in DOMAIN calls' : Awaits(d, e)'
  <2>1. calls[d].pc = "calling"
    BY <1>1, <1>2, <1>7, Zenon
  <2>2. PICK e \in DOMAIN calls : Awaits(d, e)
    BY <1>2, <2>1, Zenon DEF ChainIInv
  <2>3. \A f \in DOMAIN calls : /\ calls'[f].parent = calls[f].parent
                                /\ calls[f].answer # "none" =>
                                     calls'[f].answer # "none"
    BY <1>1, Zenon
  <2> QED
    BY <1>2, <2>2, <2>3 DEF Awaits
<1> QED
  BY <1>3, <1>4, <1>5, <1>6, <1>7, Zenon DEF ChainIInv

-----------------------------------------------------------------------------
\* A call that waits to be accepted has made no call; one whose handler is not
\* waiting has only calls that are answered and, unless they ended, out of time.
LEMMA ChildFacts ==
  ASSUME ChainIInv, NEW c \in DOMAIN calls
  PROVE  /\ calls[c].pc = "sent" =>
              \A d \in DOMAIN calls : calls[d].parent # c
         /\ calls[c].pc # "calling" =>
              \A d \in DOMAIN calls :
                calls[d].parent = c /\ calls[d].pc # "ended" => calls[d].due = 0
<1>1. c # 0 /\ \A d \in DOMAIN calls : calls[d].parent = c =>
                 Below(calls[c], calls[d]) /\ Alone(d, calls[d])
  BY CallTypes DEF ChainIInv
<1>2. Alone(c, calls[c])
  BY Zenon DEF ChainIInv
<1> QED
  BY <1>1, <1>2, Zenon DEF Below, Alone

\* Records stay records.
LEMMA AcceptedRecord ==
  ASSUME NEW k \in CallRecords, NEW g \in 0..(2 * MaxCalls + 1),
         NEW t \in 0..NoDeadline
  PROVE  [k EXCEPT !.pc = "handling", !.log = g, !.left = t] \in CallRecords
BY ChainAssumption, Zenon DEF CallRecords

\* So do the records of calls that ended, whatever the answer.
LEMMA EndedRecord ==
  ASSUME NEW k \in CallRecords, NEW z \in 0..NoDeadline,
         NEW a \in {"returned", "internal", "deadline", "unavailable"}
  PROVE  [k EXCEPT !.pc = "ended", !.due = z, !.left = z, !.answer = a]
           \in CallRecords
BY ChainAssumption, Zenon DEF CallRecords

\* The interceptors accept a call.
LEMMA AcceptStep ==
  ASSUME ChainIInv, NEW c \in DOMAIN calls, Accept(c) PROVE ChainIInv'
<1> USE ChainAssumption
<1> DEFINE r == [calls[c] EXCEPT !.pc = "handling",
                                 !.log = LoggingInterceptor(c),
                                 !.left = TimeoutInterceptor(c)]
<1>1. /\ calls' = [calls EXCEPT ![c] = r] /\ UNCHANGED <<server, waitForReady>>
      /\ calls[c].pc = "sent" /\ calls[c].answer = "none"
      /\ server[calls[c].at] = "serving"
  BY Zenon DEF Accept
<1>2. /\ calls[c] \in CallRecords /\ c \in 1..MaxCalls
      /\ Alone(c, calls[c])
  BY CallTypes DEF ChainIInv, ChainTypes
<1>3. /\ LoggingInterceptor(c) \in 0..(2 * MaxCalls + 1)
      /\ LoggingInterceptor(c) # NoID
      /\ calls[c].id # NoID => LoggingInterceptor(c) = calls[c].id
  BY <1>2 DEF LoggingInterceptor, ServerID, NoID, CallRecords
<1>4. /\ TimeoutInterceptor(c) \in 0..NoDeadline
      /\ TimeoutInterceptor(c) <= calls[c].due
      /\ TimeoutInterceptor(c) <= ServerTimeout
  BY <1>2 DEF TimeoutInterceptor, Earlier, CallRecords
<1>5. /\ r \in CallRecords /\ r.at = calls[c].at
      /\ r.parent = calls[c].parent /\ r.id = calls[c].id
      /\ r.due = calls[c].due /\ r.answer = calls[c].answer
      /\ r.pc = "handling" /\ r.log = LoggingInterceptor(c)
      /\ r.left = TimeoutInterceptor(c)
  <2>1. r \in CallRecords
    BY <1>2, <1>3, <1>4, AcceptedRecord, Zenon
  <2>2. /\ r.at = calls[c].at /\ r.parent = calls[c].parent
        /\ r.id = calls[c].id /\ r.due = calls[c].due
        /\ r.answer = calls[c].answer
    BY <1>2, Zenon DEF CallRecords
  <2>3. /\ r.pc = "handling" /\ r.log = LoggingInterceptor(c)
        /\ r.left = TimeoutInterceptor(c)
    BY <1>2, Zenon DEF CallRecords
  <2> QED
    BY <2>1, <2>2, <2>3, Zenon
<1>6. Alone(c, r)
  BY <1>1, <1>2, <1>3, <1>4, <1>5, Zenon DEF Alone, NoID
<1>7. \A d \in DOMAIN calls : calls[d].parent # c
  BY <1>1, ChildFacts, Zenon
<1>8. r.due <= calls[c].due
  BY <1>2, <1>5 DEF CallRecords
<1> QED
  BY <1>1, <1>5, <1>6, <1>7, <1>8, Update, Zenon

\* The end of a call that its handler left or that was never accepted.
LEMMA EndStep ==
  ASSUME ChainIInv, NEW c \in DOMAIN calls,
         NEW code \in {"returned", "internal", "deadline", "unavailable"},
         calls[c].pc \in {"sent", "handling"},
         calls' = [calls EXCEPT ![c] = Ended(calls[c], code)],
         UNCHANGED <<server, waitForReady>>
  PROVE  ChainIInv'
<1> USE ChainAssumption
<1> DEFINE r == Ended(calls[c], code)
<1>1. calls[c] \in CallRecords /\ Alone(c, calls[c])
  BY CallTypes, Zenon DEF ChainIInv
<1>2. /\ r \in CallRecords /\ r.at = calls[c].at
      /\ r.parent = calls[c].parent /\ r.id = calls[c].id
      /\ r.log = calls[c].log /\ r.due = 0 /\ r.left = 0 /\ r.pc = "ended"
      /\ r.answer # "none"
  <2> DEFINE a == IF calls[c].answer = "none" THEN code ELSE calls[c].answer
  <2>1. /\ a \in {"returned", "internal", "deadline", "unavailable"}
        /\ r = [calls[c] EXCEPT !.pc = "ended", !.due = 0, !.left = 0,
                                !.answer = a]
    BY <1>1, Zenon DEF CallRecords, Ended
  <2> HIDE DEF a, r
  <2>2. r \in CallRecords
    <3>1. 0 \in 0..NoDeadline
      OBVIOUS
    <3> QED
      BY <1>1, <2>1, <3>1, EndedRecord, Zenon
  <2>3. /\ r.at = calls[c].at /\ r.parent = calls[c].parent
        /\ r.id = calls[c].id /\ r.log = calls[c].log
    BY <1>1, <2>1, Zenon DEF CallRecords
  <2>4. r.due = 0 /\ r.left = 0 /\ r.pc = "ended" /\ r.answer = a
    BY <1>1, <2>1, Zenon DEF CallRecords
  <2> QED
    BY <2>1, <2>2, <2>3, <2>4, Zenon
<1>3. Alone(c, r)
  BY <1>1, <1>2, Zenon DEF Alone
<1>4. \A d \in DOMAIN calls : calls[d].parent = c => Below(r, calls[d])
  <2> SUFFICES ASSUME NEW d \in DOMAIN calls, calls[d].parent = c
               PROVE  Below(r, calls[d])
    BY Zenon
  <2>1. Below(calls[c], calls[d])
    BY CallTypes DEF ChainIInv
  <2>2. calls[d].pc # "ended" => calls[d].due = 0
    BY ChildFacts, Zenon
  <2>3. calls[d].pc # "ended" => calls[d].due <= r.left
    BY <1>2, <2>2
  <2> QED
    BY <1>2, <2>1, <2>3, Zenon DEF Below
<1>5. r.due <= calls[c].due
  BY <1>1, <1>2 DEF CallRecords
<1> QED
  BY <1>2, <1>3, <1>4, <1>5, Update, Zenon

\* A handler goes on once its last call is answered.
LEMMA CallReturnsStep ==
  ASSUME ChainIInv, NEW c \in DOMAIN calls, CallReturns(c) PROVE ChainIInv'
<1> USE ChainAssumption
<1> DEFINE r == [calls[c] EXCEPT !.pc = "handling"]
<1>1. /\ calls' = [calls EXCEPT ![c] = r] /\ UNCHANGED <<server, waitForReady>>
      /\ calls[c].pc = "calling" /\ calls[Child(c)].answer # "none"
  BY Zenon DEF CallReturns
<1>2. calls[c] \in CallRecords /\ Alone(c, calls[c])
  BY CallTypes, Zenon DEF ChainIInv
<1>3. /\ r \in CallRecords /\ r.at = calls[c].at
      /\ r.parent = calls[c].parent /\ r.id = calls[c].id
      /\ r.log = calls[c].log /\ r.due = calls[c].due
      /\ r.left = calls[c].left /\ r.pc = "handling"
      /\ r.answer = calls[c].answer
  BY <1>2, Zenon DEF CallRecords
<1>4. PICK d \in DOMAIN calls : Awaits(c, d)
  BY <1>1, Zenon DEF ChainIInv
<1>5. Child(c) = d
  <2>1. \A e \in DOMAIN calls :
          /\ calls[e].parent = c
          /\ \A f \in DOMAIN calls : calls[f].parent = c => f <= e
          => e = d
    <3> SUFFICES ASSUME NEW e \in DOMAIN calls, calls[e].parent = c,
                        \A f \in DOMAIN calls : calls[f].parent = c => f <= e
                 PROVE  e = d
      BY Zenon
    <3>1. e <= d /\ d <= e
      BY <1>4, Zenon DEF Awaits
    <3> QED
      BY <3>1, CallTypes DEF ChainIInv
  <2>2. /\ calls[d].parent = c
        /\ \A f \in DOMAIN calls : calls[f].parent = c => f <= d
    BY <1>4, Zenon DEF Awaits
  <2> QED
    BY <2>1, <2>2, Zenon DEF Child
<1>6. \A e \in DOMAIN calls : calls[e].parent = c => calls[e].answer # "none"
  BY <1>1, <1>4, <1>5, Zenon DEF Awaits
<1>7. Alone(c, r)
  BY <1>1, <1>2, <1>3, Zenon DEF Alone
<1>8. \A e \in DOMAIN calls : calls[e].parent = c => Below(r, calls[e])
  <2>1. \A e \in DOMAIN calls : calls[e].parent = c => Below(calls[c], calls[e])
    BY CallTypes DEF ChainIInv
  <2> QED
    BY <1>3, <1>6, <2>1, Zenon DEF Below
<1>9. /\ r.due <= calls[c].due
      /\ server[r.at] # "stopped"
  BY <1>1, <1>2, <1>3 DEF CallRecords, ChainIInv, StopDrains, Running
<1> QED
  BY <1>1, <1>3, <1>7, <1>8, <1>9, Update, Zenon

\* The caller's deadline passes while the handler is at work.
LEMMA DeadlineStep ==
  ASSUME ChainIInv, NEW c \in DOMAIN calls, DeadlineExceeded(c)
  PROVE  ChainIInv'
<1> USE ChainAssumption
<1>1. /\ calls[c].answer = "none" /\ calls[c].due = 0
      /\ UNCHANGED <<server, waitForReady>>
  BY Zenon DEF DeadlineExceeded
<1>2. CASE calls[c].pc = "sent"
  BY <1>1, <1>2, EndStep, Zenon DEF DeadlineExceeded
<1>3. CASE calls[c].pc # "sent"
  <2> DEFINE r == [calls[c] EXCEPT !.answer = "deadline"]
  <2>1. calls' = [calls EXCEPT ![c] = r]
    BY <1>3, Zenon DEF DeadlineExceeded
  <2>2. calls[c] \in CallRecords /\ Alone(c, calls[c])
    BY CallTypes, Zenon DEF ChainIInv
  <2>3. /\ r \in CallRecords /\ r.at = calls[c].at
        /\ r.parent = calls[c].parent /\ r.id = calls[c].id
        /\ r.log = calls[c].log /\ r.due = calls[c].due
        /\ r.left = calls[c].left /\ r.pc = calls[c].pc
        /\ r.answer = "deadline"
    BY <2>2, Zenon DEF CallRecords
  <2>4. Alone(c, r)
    BY <1>1, <1>3, <2>2, <2>3, Zenon DEF Alone
  <2>5. \A d \in DOMAIN calls : calls[d].parent = c => Below(r, calls[d])
    <3>1. \A d \in DOMAIN calls : calls[d].parent = c =>
            Below(calls[c], calls[d])
      BY CallTypes DEF ChainIInv
    <3> QED
      BY <2>3, <3>1, Zenon DEF Below
  <2>6. /\ r.due <= calls[c].due
        /\ r.pc \in {"handling", "calling"} => server[r.at] # "stopped"
    BY <2>2, <2>3 DEF CallRecords, ChainIInv, StopDrains, Running
  <2> HIDE DEF r
  <2> QED
    BY <1>1, <2>1, <2>3, <2>4, <2>5, <2>6, Update, Zenon
<1> QED
  BY <1>2, <1>3, Zenon

-----------------------------------------------------------------------------
\* A new call is appended; its parent, if it has one, waits for it.
LEMMA SendStep ==
  ASSUME ChainIInv, NEW s, NEW r \in CallRecords, Len(calls) < MaxCalls,
         s \in Seq(CallRecords), Len(s) = Len(calls), calls' = Append(s, r),
         UNCHANGED <<server, waitForReady>>,
         r.pc = "sent", r.answer = "none", r.log = NoID,
         r.parent = 0 => s = calls,
         r.parent # 0 =>
           /\ r.parent \in DOMAIN calls /\ calls[r.parent].pc = "handling"
           /\ s = [calls EXCEPT ![r.parent] =
                     [calls[r.parent] EXCEPT !.pc = "calling"]]
           /\ r.due <= calls[r.parent].left
           /\ calls[r.parent].id # NoID => r.id = calls[r.parent].id
  PROVE  ChainIInv'
<1> USE ChainAssumption
<1>. PICK n \in Nat : n = Len(calls) + 1
  BY CallTypes DEF ChainIInv
<1>0. /\ n = Len(calls) + 1
      /\ Len(calls) \in Nat /\ DOMAIN calls = 1..Len(calls)
      /\ \A d \in DOMAIN calls :
           calls[d] \in CallRecords /\ calls[d].parent \in Nat
      /\ r.parent \in Nat
  BY CallTypes, Zenon DEF ChainIInv, CallRecords
<1>1. \A d \in DOMAIN calls :
        /\ s[d].at = calls[d].at /\ s[d].parent = calls[d].parent
        /\ s[d].id = calls[d].id /\ s[d].log = calls[d].log
        /\ s[d].due = calls[d].due /\ s[d].left = calls[d].left
        /\ s[d].answer = calls[d].answer
        /\ s[d].pc = IF d = r.parent THEN "calling" ELSE calls[d].pc
  <2>1. CASE r.parent = 0
    BY <1>0, <2>1
  <2>2. CASE r.parent # 0
    <3> DEFINE k == [calls[r.parent] EXCEPT !.pc = "calling"]
    <3>1. /\ k.at = calls[r.parent].at /\ k.parent = calls[r.parent].parent
          /\ k.id = calls[r.parent].id /\ k.log = calls[r.parent].log
          /\ k.due = calls[r.parent].due /\ k.left = calls[r.parent].left
          /\ k.answer = calls[r.parent].answer /\ k.pc = "calling"
      BY <1>0, <2>2, Zenon DEF CallRecords
    <3>2. \A d \in DOMAIN calls :
            s[d] = IF d = r.parent THEN k ELSE calls[d]
      BY <2>2, Zenon
    <3> HIDE DEF k
    <3> QED
      BY <3>1, <3>2, Zenon
  <2> QED
    BY <2>1, <2>2, Zenon
<1>2. /\ calls' \in Seq(CallRecords) /\ Len(calls') = n
      /\ DOMAIN calls' = 1..n /\ calls'[n] = r
      /\ \A d \in DOMAIN calls : calls'[d] = s[d]
  BY <1>0, AppendProperties, LenProperties
<1>3. ChainTypes'
  BY <1>0, <1>2 DEF ChainIInv, ChainTypes
<1>4. StopDrains'
  <2> SUFFICES ASSUME NEW d \in 1..n, Running(d)'
               PROVE  server[calls'[d].at] # "stopped"
    BY <1>2, Zenon DEF StopDrains
  <2>1. d # n
    BY <1>2, Zenon DEF Running
  <2>2. d \in DOMAIN calls
    BY <1>0, <2>1
  <2>3. Running(d) /\ calls'[d].at = calls[d].at
    BY <1>1, <1>2, <2>2 DEF Running
  <2> QED
    BY <2>2, <2>3, Zenon DEF ChainIInv, StopDrains
<1>5. \A d \in DOMAIN calls' : Alone(d, calls'[d])
  <2>1. Alone(n, calls'[n])
    BY <1>0, <1>2 DEF Alone
  <2>2. ASSUME NEW d \in DOMAIN calls PROVE Alone(d, calls'[d])
    <3>1. Alone(d, calls[d]) /\ (d = r.parent => calls[d].pc = "handling")
      BY <1>0 DEF ChainIInv
    <3> QED
      BY <1>1, <1>2, <3>1 DEF Alone
  <2> QED
    BY <1>0, <1>2, <2>1, <2>2
<1>6. ASSUME NEW d \in DOMAIN calls', calls'[d].parent # 0
      PROVE  Below(calls'[calls'[d].parent], calls'[d])
  <2>1. CASE d = n
    <3>1. /\ r.parent \in DOMAIN calls /\ calls'[d] = r
          /\ calls'[r.parent] = s[r.parent] /\ Alone(r.parent, calls[r.parent])
      BY <1>0, <1>2, <1>6, <2>1, Zenon DEF ChainIInv
    <3>2. calls[r.parent].log # NoID
      BY <1>2, <1>6, <2>1, <3>1, Zenon DEF Alone
    <3>3. /\ s[r.parent].log = calls[r.parent].log
          /\ s[r.parent].id = calls[r.parent].id
          /\ s[r.parent].left = calls[r.parent].left
          /\ s[r.parent].pc = "calling"
      BY <1>1, <3>1, Zenon
    <3>4. Below(s[r.parent], r)
      BY <1>2, <1>6, <2>1, <3>2, <3>3, Zenon DEF Below
    <3> QED
      BY <3>1, <3>4, Zenon
  <2>2. CASE d # n
    <3> DEFINE p == calls[d].parent
    <3>1. d \in DOMAIN calls /\ calls'[d].parent = p
      BY <1>0, <1>1, <1>2, <2>2
    <3>2. p \in DOMAIN calls /\ Below(calls[p], calls[d])
      BY <1>0, <1>6, <3>1 DEF ChainIInv, Alone
    <3>3. calls'[p] = s[p] /\ calls'[d] = s[d]
      BY <1>2, <3>1, <3>2, Zenon
    <3>4. /\ s[p].log = calls[p].log /\ s[p].id = calls[p].id
          /\ s[p].left = calls[p].left
          /\ s[p].pc = IF p = r.parent THEN "calling" ELSE calls[p].pc
          /\ s[d].id = calls[d].id /\ s[d].due = calls[d].due
          /\ s[d].answer = calls[d].answer
      BY <1>1, <3>1, <3>2, Zenon
    <3>5. s[d].pc # "ended" => calls[d].pc # "ended"
      BY <1>1, <3>1, Zenon
    <3>6. Below(s[p], s[d])
      BY <3>2, <3>4, <3>5, Zenon DEF Below
    <3> QED
      BY <3>1, <3>3, <3>6, Zenon
  <2> QED
    BY <2>1, <2>2, Zenon
<1>7. ASSUME NEW d \in DOMAIN calls', calls'[d].pc = "calling"
      PROVE  \E e \in DOMAIN calls' : Awaits(d, e)'
  <2>1. d # n /\ d \in DOMAIN calls
    BY <1>0, <1>2, <1>7
  <2>2. \A e \in DOMAIN calls :
          /\ calls'[e].parent = calls[e].parent
          /\ calls'[e].answer = calls[e].answer
    BY <1>1, <1>2
  <2>3. CASE d = r.parent
    <3>1. \A e \in DOMAIN calls :
            calls[e].parent = d => calls[e].answer # "none"
      BY <1>0, <2>1, <2>3, CallTypes DEF ChainIInv, Below
    <3>2. Awaits(d, n)'
      BY <1>0, <1>2, <2>2, <2>3, <3>1 DEF Awaits
    <3>3. n \in DOMAIN calls'
      BY <1>0, <1>2
    <3> WITNESS n \in DOMAIN calls'
    <3> QED
      BY <3>2, Zenon
  <2>4. CASE d # r.parent
    <3>1. calls[d].pc = "calling"
      BY <1>1, <1>2, <1>7, <2>1, <2>4
    <3>2. PICK e \in DOMAIN calls : Awaits(d, e)
      BY <2>1, <3>1, Zenon DEF ChainIInv
    <3>3. \A f \in DOMAIN calls' :
            calls'[f].parent = d =>
              f \in DOMAIN calls /\ calls[f].parent = d
              /\ calls'[f].answer = calls[f].answer
      BY <1>0, <1>2, <2>2, <2>4
    <3>4. Awaits(d, e)'
      BY <2>2, <3>2, <3>3 DEF Awaits
    <3>5. e \in DOMAIN calls'
      BY <1>0, <1>2
    <3> WITNESS e \in DOMAIN calls'
    <3> QED
      BY <3>4, Zenon
  <2> QED
    BY <2>3, <2>4, Zenon
<1> QED
  BY <1>3, <1>4, <1>5, <1>6, <1>7, Zenon DEF ChainIInv

\* A gateway calls the first service.
LEMMA GatewayStep == ASSUME ChainIInv, GatewayCalls PROVE ChainIInv'
<1> USE ChainAssumption
<1>1. PICK id \in {NoID, GatewayID}, due \in {1, NoDeadline} :
        calls' = Append(calls, Sent(1, 0, id, due))
  BY Zenon DEF GatewayCalls
<1> DEFINE r == Sent(1, 0, id, due)
<1>2. due \in 0..NoDeadline /\ id \in 0..(2 * MaxCalls + 1)
  BY DEF NoID, GatewayID
<1>3. r \in CallRecords
  BY <1>2 DEF Sent, CallRecords, NoID
<1>4. r.pc = "sent" /\ r.answer = "none" /\ r.log = NoID /\ r.parent = 0
  BY Zenon DEF Sent
<1>5. calls \in Seq(CallRecords) /\ Len(calls) < MaxCalls
      /\ UNCHANGED <<server, waitForReady>>
  BY Zenon DEF ChainIInv, ChainTypes, GatewayCalls
<1> HIDE DEF r
<1> QED
  BY <1>1, <1>3, <1>4, <1>5, SendStep, Zenon DEF r

\* A new call has the fields of a call.
LEMMA SentTyped ==
  ASSUME NEW at \in 1..Depth, NEW c \in Nat, NEW id \in 0..(2 * MaxCalls + 1),
         NEW due \in 0..NoDeadline
  PROVE  Sent(at, c, id, due) \in CallRecords
BY ChainAssumption DEF Sent, CallRecords, NoID

\* A handler calls the next service.
LEMMA CallNextStep ==
  ASSUME ChainIInv, NEW c \in DOMAIN calls, CallNext(c) PROVE ChainIInv'
<1> USE ChainAssumption
<1> DEFINE r == Sent(calls[c].at + 1, c, ClientLoggingInterceptor(c),
                     Earlier(calls[c].left, ClientTimeout))
           k == [calls[c] EXCEPT !.pc = "calling"]
           s == [calls EXCEPT ![c] = k]
<1>0. calls' = Append(s, r) /\ UNCHANGED <<server, waitForReady>>
  BY Zenon DEF CallNext
<1>1. /\ calls[c].pc = "handling" /\ calls[c].at < Depth
      /\ Len(calls) < MaxCalls
  BY Zenon DEF CallNext
<1>2. /\ calls[c] \in CallRecords /\ Len(calls) \in Nat
      /\ c \in 1..Len(calls) /\ calls \in Seq(CallRecords)
      /\ calls[c].at \in 1..Depth /\ calls[c].left \in 0..NoDeadline
      /\ calls[c].id \in 0..(2 * MaxCalls + 1)
  BY CallTypes, Zenon DEF ChainIInv, ChainTypes
<1>3. /\ ClientLoggingInterceptor(c) \in 0..(2 * MaxCalls + 1)
      /\ calls[c].id # NoID => ClientLoggingInterceptor(c) = calls[c].id
  BY <1>1, <1>2 DEF ClientLoggingInterceptor, GetRequestIDFromContext, ClientID
<1>4. /\ Earlier(calls[c].left, ClientTimeout) \in 0..NoDeadline
      /\ Earlier(calls[c].left, ClientTimeout) <= calls[c].left
  BY <1>2 DEF Earlier
<1>5. k \in CallRecords
  BY <1>2, Zenon DEF CallRecords
<1>6. s \in Seq(CallRecords) /\ Len(s) = Len(calls)
  BY <1>2, <1>5, ExceptSeq
<1>7. calls[c].at + 1 \in 1..Depth
  BY <1>1, <1>2
<1>8. r \in CallRecords
  <2>1. c \in Nat
    BY <1>2
  <2> QED
    BY <1>3, <1>4, <1>7, <2>1, SentTyped, Zenon
<1>9. /\ r.pc = "sent" /\ r.answer = "none" /\ r.log = NoID /\ r.parent = c
      /\ r.id = ClientLoggingInterceptor(c)
      /\ r.due = Earlier(calls[c].left, ClientTimeout)
  BY Zenon DEF Sent
<1>10. s = [calls EXCEPT ![r.parent] =
              [calls[r.parent] EXCEPT !.pc = "calling"]]
  BY <1>9, Zenon
<1>11. r.parent # 0 /\ r.parent \in DOMAIN calls
       /\ calls[r.parent].pc = "handling" /\ r.due <= calls[r.parent].left
       /\ (calls[r.parent].id # NoID => r.id = calls[r.parent].id)
  <2>1. c # 0
    BY <1>2
  <2> HIDE DEF r
  <2> QED
    BY <1>1, <1>3, <1>4, <1>9, <2>1, Zenon
<1> HIDE DEF r, s
<1> QED
  BY <1>0, <1>1, <1>6, <1>8, <1>9, <1>10, <1>11, SendStep, Zenon

\* Time passes for everyone alike.
LEMMA ChainTickStep == ASSUME ChainIInv, ChainTick PROVE ChainIInv'
<1> USE ChainAssumption
<1>0. /\ Len(calls) \in Nat /\ DOMAIN calls = 1..Len(calls)
      /\ \A d \in DOMAIN calls : calls[d] \in CallRecords
  BY CallTypes, Zenon DEF ChainIInv
<1>1. /\ \A t \in 0..NoDeadline : Less(t) \in 0..NoDeadline /\ Less(t) <= t
      /\ \A t, u \in 0..NoDeadline : t <= u => Less(t) <= Less(u)
  BY DEF Less
<1>2. /\ calls' = [c \in DOMAIN calls |-> [calls[c] EXCEPT
                     !.due = Less(calls[c].due), !.left = Less(calls[c].left)]]
      /\ UNCHANGED <<server, waitForReady>>
  BY Zenon DEF ChainTick
<1>3. \A d \in DOMAIN calls :
        /\ calls[d].due \in 0..NoDeadline /\ calls[d].left \in 0..NoDeadline
        /\ calls[d].parent \in Nat
  BY <1>0, Zenon DEF CallRecords
<1>4. ASSUME NEW d \in DOMAIN calls
      PROVE  /\ calls'[d] \in CallRecords /\ calls'[d].at = calls[d].at
             /\ calls'[d].parent = calls[d].parent
             /\ calls'[d].id = calls[d].id /\ calls'[d].log = calls[d].log
             /\ calls'[d].due = Less(calls[d].due)
             /\ calls'[d].left = Less(calls[d].left)
             /\ calls'[d].pc = calls[d].pc
             /\ calls'[d].answer = calls[d].answer
  <2>1. PICK k \in CallRecords : k = calls[d]
    BY <1>0, Zenon
  <2>2. PICK t \in 0..NoDeadline, u \in 0..NoDeadline :
          t = Less(calls[d].due) /\ u = Less(calls[d].left)
    BY <1>1, <1>3, Zenon
  <2>3. calls'[d] = [k EXCEPT !.due = t, !.left = u]
    BY <1>2, <2>1, <2>2, Zenon
  <2>4. [k EXCEPT !.due = t, !.left = u] \in CallRecords
    BY Zenon DEF CallRecords
  <2>5. /\ [k EXCEPT !.due = t, !.left = u].at = k.at
        /\ [k EXCEPT !.due = t, !.left = u].parent = k.parent
        /\ [k EXCEPT !.due = t, !.left = u].id = k.id
        /\ [k EXCEPT !.due = t, !.left = u].log = k.log
        /\ [k EXCEPT !.due = t, !.left = u].due = t
        /\ [k EXCEPT !.due = t, !.left = u].left = u
        /\ [k EXCEPT !.due = t, !.left = u].pc = k.pc
        /\ [k EXCEPT !.due = t, !.left = u].answer = k.answer
    BY Zenon DEF CallRecords
  <2> QED
    BY <2>1, <2>2, <2>3, <2>4, <2>5, Zenon
<1>5. DOMAIN calls' = DOMAIN calls
  BY <1>2, Zenon
<1>6. calls' \in Seq(CallRecords) /\ Len(calls') = Len(calls)
  <2>1. calls' \in [1..Len(calls) -> CallRecords]
    BY <1>0, <1>2, <1>4, Zenon
  <2>2. calls' \in Seq(CallRecords)
    BY <1>0, <2>1, SeqDef
  <2> QED
    BY <1>0, <1>5, <2>2, LenProperties
<1>7. ChainTypes'
  BY <1>2, <1>6, Zenon DEF ChainIInv, ChainTypes
<1>8. StopDrains'
  <2>1. server' = server
    BY <1>2, Zenon
  <2>2. StopDrains
    BY Zenon DEF ChainIInv
  <2>3. \A d \in DOMAIN calls :
          calls'[d].at = calls[d].at /\ calls'[d].pc = calls[d].pc
    BY <1>4, Zenon
  <2> QED
    BY <1>5, <2>1, <2>2, <2>3, Zenon DEF StopDrains, Running
<1>9. ASSUME NEW d \in DOMAIN calls' PROVE Alone(d, calls'[d])
  <2>1. Alone(d, calls[d])
    BY <1>5, Zenon DEF ChainIInv
  <2>2. /\ calls[d].left <= calls[d].due => calls'[d].left <= calls'[d].due
        /\ calls[d].left <= ServerTimeout => calls'[d].left <= ServerTimeout
        /\ calls[d].due = 0 => calls'[d].due = 0
    BY <1>1, <1>3, <1>4, <1>5
  <2>3. /\ calls'[d].parent = calls[d].parent /\ calls'[d].id = calls[d].id
        /\ calls'[d].log = calls[d].log /\ calls'[d].pc = calls[d].pc
        /\ calls'[d].answer = calls[d].answer
    BY <1>4, <1>5, Zenon
  <2> QED
    BY <2>1, <2>2, <2>3, Zenon DEF Alone
<1>10. ASSUME NEW d \in DOMAIN calls', calls'[d].parent # 0
       PROVE  Below(calls'[calls'[d].parent], calls'[d])
  <2> DEFINE p == calls[d].parent
  <2>1. /\ d \in DOMAIN calls /\ calls'[d].parent = p
        /\ p \in DOMAIN calls /\ Below(calls[p], calls[d])
    BY <1>0, <1>3, <1>4, <1>5, <1>10 DEF ChainIInv, Alone
  <2>2. calls[d].due <= calls[p].left => calls'[d].due <= calls'[p].left
    BY <1>1, <1>3, <1>4, <2>1
  <2>3. /\ calls'[d].id = calls[d].id /\ calls'[d].pc = calls[d].pc
        /\ calls'[d].answer = calls[d].answer
        /\ calls'[p].id = calls[p].id /\ calls'[p].log = calls[p].log
        /\ calls'[p].pc = calls[p].pc
    BY <1>4, <2>1, Zenon
  <2>4. Below(calls'[p], calls'[d])
    BY <2>1, <2>2, <2>3, Zenon DEF Below
  <2> QED
    BY <2>1, <2>4, Zenon
<1>11. ASSUME NEW d \in DOMAIN calls', calls'[d].pc = "calling"
       PROVE  \E e \in DOMAIN calls' : Awaits(d, e)'
  <2>1. PICK e \in DOMAIN calls : Awaits(d, e)
    BY <1>4, <1>5, <1>11, Zenon DEF ChainIInv
  <2>2. Awaits(d, e)'
    BY <1>4, <1>5, <2>1, Zenon DEF Awaits
  <2>3. e \in DOMAIN calls'
    BY <1>5, Zenon
  <2> WITNESS e \in DOMAIN calls'
  <2> QED
    BY <2>2, Zenon
<1> QED
  BY <1>7, <1>8, <1>9, <1>10, <1>11, Zenon DEF ChainIInv

\* Servers start, and stop when their handlers are done.
LEMMA ServerStep ==
  ASSUME ChainIInv, NEW s \in 1..Depth,
         StartServer(s) \/ StopServer(s) \/ StopEnds(s)
  PROVE  ChainIInv'
<1>1. calls' = calls /\ waitForReady' = waitForReady
  BY Zenon DEF StartServer, StopServer, StopEnds
<1>2. ChainTypes'
  BY <1>1, Zenon DEF ChainIInv, ChainTypes, StartServer, StopServer, StopEnds
<1>3. StopDrains'
  <2> SUFFICES ASSUME NEW c \in DOMAIN calls, Running(c)
               PROVE  server'[calls[c].at] # "stopped"
    BY <1>1, Zenon DEF StopDrains, Running
  <2>1. server[calls[c].at] # "stopped" /\ calls[c].at \in 1..Depth
    BY CallTypes, Zenon DEF ChainIInv, StopDrains
  <2>2. server \in [1..Depth -> {"new", "serving", "stopping", "stopped"}]
    BY Zenon DEF ChainIInv, ChainTypes
  <2>3. CASE StartServer(s) \/ StopServer(s)
    BY <2>1, <2>2, <2>3, Zenon DEF StartServer, StopServer
  <2>4. CASE StopEnds(s)
    BY <2>1, <2>2, <2>4, Zenon DEF StopEnds
  <2> QED
    BY <2>3, <2>4, Zenon
<1> QED
  BY <1>1, <1>2, <1>3 DEF ChainIInv, Awaits

\* The invariant is inductive.
LEMMA ChainInductive == ChainSpec => []ChainIInv
<1>1. ChainInit => ChainIInv
  <2> SUFFICES ASSUME ChainInit PROVE ChainIInv
    BY Zenon
  <2>1. waitForReady \in BOOLEAN
    BY Zenon DEF ChainInit, ServiceConfig
  <2>2. calls \in Seq(CallRecords) /\ Len(calls) = 0 /\ DOMAIN calls = {}
    BY EmptySeq DEF ChainInit
  <2>3. server \in [1..Depth -> {"new", "serving", "stopping", "stopped"}]
    BY Zenon DEF ChainInit
  <2> QED
    BY <2>1, <2>2, <2>3, ChainAssumption DEF ChainIInv, ChainTypes, StopDrains
<1>2. ChainIInv /\ [ChainNext]_chainVars => ChainIInv'
  <2> SUFFICES ASSUME ChainIInv, [ChainNext]_chainVars PROVE ChainIInv'
    BY Zenon
  <2>1. CASE UNCHANGED chainVars
    BY <2>1 DEF chainVars, ChainIInv, ChainTypes, StopDrains, Running, Awaits
  <2>2. CASE GatewayCalls
    BY <2>2, GatewayStep, Zenon
  <2>3. CASE ChainTick
    BY <2>3, ChainTickStep, Zenon
  <2>4. ASSUME NEW s \in 1..Depth,
               StartServer(s) \/ StopServer(s) \/ StopEnds(s)
        PROVE  ChainIInv'
    BY <2>4, ServerStep, Zenon
  <2>5. ASSUME NEW c \in DOMAIN calls, Accept(c) PROVE ChainIInv'
    BY <2>5, AcceptStep, Zenon
  <2>6. ASSUME NEW c \in DOMAIN calls, HandlerReturns(c) PROVE ChainIInv'
    BY <2>6, EndStep, Zenon DEF HandlerReturns, EndCall
  <2>7. ASSUME NEW c \in DOMAIN calls, HandlerPanics(c) PROVE ChainIInv'
    BY <2>7, EndStep, Zenon DEF HandlerPanics, RecoveryInterceptor, EndCall
  <2>8. ASSUME NEW c \in DOMAIN calls, CallNext(c) PROVE ChainIInv'
    BY <2>8, CallNextStep, Zenon
  <2>9. ASSUME NEW c \in DOMAIN calls, CallReturns(c) PROVE ChainIInv'
    BY <2>9, CallReturnsStep, Zenon
  <2>10. ASSUME NEW c \in DOMAIN calls, DeadlineExceeded(c) PROVE ChainIInv'
    BY <2>10, DeadlineStep, Zenon
  <2>11. ASSUME NEW c \in DOMAIN calls, FailsFast(c) PROVE ChainIInv'
    BY <2>11, EndStep, Zenon DEF FailsFast, EndCall
  <2> QED
    BY <2>1, <2>2, <2>3, <2>4, <2>5, <2>6, <2>7, <2>8, <2>9, <2>10, <2>11, Zenon
       DEF ChainNext, Handler
<1> QED
  BY <1>1, <1>2, PTL DEF ChainSpec

-----------------------------------------------------------------------------
\* Every running handler has a deadline, the server's if no other, for any
\* number of hops (timeoutInterceptor).
THEOREM ChainTypeCorrect == ChainSpec => []ChainTypeOK
<1>1. ASSUME ChainIInv PROVE ChainTypeOK
  <2>1. ASSUME NEW c \in DOMAIN calls
        PROVE  LET k == calls[c] IN
               /\ k.at \in 1..Depth /\ k.parent \in 0..(c - 1)
               /\ k.id \in 0..(2 * MaxCalls + 1)
               /\ k.log \in 0..(2 * MaxCalls + 1)
               /\ k.due \in 0..NoDeadline
               /\ k.pc \in {"sent", "handling", "calling", "ended"}
               /\ k.answer \in {"none", "returned", "internal", "deadline",
                                "unavailable"}
               /\ k.pc = "ended" => k.answer # "none"
               /\ k.left \in (IF Running(c) THEN 0..ServerTimeout
                              ELSE 0..NoDeadline)
    <3>1. PICK k \in CallRecords : k = calls[c] /\ c \in Nat
      BY <1>1, CallTypes DEF ChainIInv
    <3>2. Alone(c, k)
      BY <1>1, <3>1, Zenon DEF ChainIInv
    <3>3. k.parent \in 0..(c - 1)
      BY <3>1, <3>2 DEF Alone, CallRecords
    <3>4. k.left \in 0..NoDeadline
      BY Zenon DEF CallRecords
    <3>5. Running(c) => k.left \in 0..ServerTimeout
      BY <3>1, <3>2, <3>4, ChainAssumption DEF Running, Alone
    <3>6. k.pc = "ended" => k.answer # "none"
      BY <3>2, Zenon DEF Alone
    <3> QED
      BY <3>1, <3>3, <3>4, <3>5, <3>6, Zenon DEF CallRecords
  <2> QED
    BY <1>1, <2>1, Zenon DEF ChainTypeOK, ChainIInv, ChainTypes
<1> QED
  BY <1>1, ChainInductive, PTL

\* A request id sent with a request is the one every service logs, however
\* long the chain (loggingInterceptor, clientLoggingInterceptor).
THEOREM RequestIDsKept == ChainSpec => []RequestIDKept
<1>1. ASSUME ChainIInv PROVE RequestIDKept
  <2> SUFFICES ASSUME NEW c \in DOMAIN calls, calls[c].log # NoID
               PROVE  /\ calls[c].id # NoID => calls[c].log = calls[c].id
                      /\ calls[c].parent # 0
                         /\ calls[calls[c].parent].id # NoID =>
                           calls[c].log = calls[calls[c].parent].log
    BY Zenon DEF RequestIDKept
  <2>1. Alone(c, calls[c])
    BY <1>1, Zenon DEF ChainIInv
  <2>2. ASSUME calls[c].parent # 0, calls[calls[c].parent].id # NoID
        PROVE  calls[c].log = calls[calls[c].parent].log
    <3>1. calls[c].parent \in DOMAIN calls
      BY <1>1, <2>1, <2>2, CallTypes DEF ChainIInv, Alone
    <3>2. /\ Alone(calls[c].parent, calls[calls[c].parent])
          /\ Below(calls[calls[c].parent], calls[c])
      BY <1>1, <2>2, <3>1, Zenon DEF ChainIInv
    <3> QED
      BY <2>1, <2>2, <3>2, Zenon DEF Alone, Below
  <2> QED
    BY <2>1, <2>2, Zenon DEF Alone
<1> QED
  BY <1>1, ChainInductive, PTL

\* No handler has more time than its caller, over any number of hops
\* (timeoutInterceptor, retryInterceptor).
THEOREM DeadlinesInherited == ChainSpec => []DeadlineInherited
<1>1. ASSUME ChainIInv PROVE DeadlineInherited
  <2>1. ASSUME NEW c \in DOMAIN calls, Running(c)
        PROVE  calls[c].left <= calls[c].due
    BY <1>1, <2>1, Zenon DEF ChainIInv, Alone, Running
  <2>2. ASSUME NEW c \in DOMAIN calls, calls[c].parent # 0,
               calls[c].pc # "ended"
        PROVE  calls[c].due <= calls[calls[c].parent].left
    BY <1>1, <2>2, Zenon DEF ChainIInv, Below
  <2> QED
    BY <2>1, <2>2, Zenon DEF DeadlineInherited
<1> QED
  BY <1>1, ChainInductive, PTL

\* GracefulStop leaves no handler at work (Stop).
THEOREM StopsDrained == ChainSpec => []StopDrains
<1>1. ChainIInv => StopDrains
  BY Zenon DEF ChainIInv
<1> QED
  BY <1>1, ChainInductive, PTL
=============================================================================
