--------------------------- MODULE ServiceProofs ----------------------------
(* Proofs about what a service starts with and is watched by: it migrates  *)
(* its database, loads its configuration and its messages, and answers     *)
(* health probes.                                                          *)
EXTENDS Migrations, Config, Translator, Health, TLAPS

-----------------------------------------------------------------------------
(* Migrations: any number of instances, migrations, errors and crashes.      *)

\* Every step is a step of one instance, taken apart by action; the history
\* variable is set by what the step disturbs (Next, Step, Works).
LEMMA StepCases ==
    ASSUME NEW i \in Instances, Step(i)
    PROVE  \/ Connect(i) \/ ReadVersion(i) \/ ForceVersion(i)
           \/ BeginRollback(i) \/ RunDown(i) \/ EndRollback(i)
           \/ BeginUp(i) \/ NextScript(i)
           \/ RunUp(i) \/ EndScript(i) \/ Restart(i) \/ ScriptFails(i)
           \/ GivesUp(i) \/ Crash(i)
  BY Zenon DEF Step, Works

\* The type invariant is inductive: the lock and the dirty flag follow the
\* place of the instance that runs a script (RunMigrations and the library).
LEMMA TypeStep ==
    ASSUME TypeOK, [Next]_vars
    PROVE  TypeOK'
<1> USE MigrationsAssumption
<1>1. CASE UNCHANGED vars
  BY <1>1, Zenon DEF TypeOK, vars
<1>2. CASE Next
  <2>1. PICK i \in Instances :
          Step(i) /\ disturbed' = (disturbed \/ Disturbs(i))
    BY <1>2, Zenon DEF Next
  <2>2. disturbed' \in BOOLEAN
    BY <2>1, Zenon DEF TypeOK
  <2> USE DEF TypeOK, Go, SetVersion, Unlock, Faults, database, Places
  <2>3. CASE Connect(i)       BY <2>2, <2>3, Zenon DEF Connect
  <2>4. CASE ReadVersion(i)   BY <2>2, <2>4 DEF ReadVersion
  <2>5. CASE ForceVersion(i)  BY <2>2, <2>5, Zenon DEF ForceVersion
  <2>6. CASE BeginRollback(i)
    <3>1. CASE dirty \/ version = 0
      BY <2>2, <2>6, <3>1, Zenon DEF BeginRollback
    <3>2. CASE ~(dirty \/ version = 0)
      <4>1. version - 1 \in 0 .. Last
        BY <3>2
      <4>2. /\ version' = version - 1 /\ dirty' = TRUE /\ schema' = schema
            /\ lock' = i /\ pc' = [pc EXCEPT ![i] = "down"]
            /\ errors' = errors /\ crashes' = crashes
        BY <2>6, <3>2, Zenon DEF BeginRollback
      <4>3. from' \in [Instances -> 0 .. Last]
        BY <2>6, <3>2, Zenon DEF BeginRollback
      <4>4. /\ version' \in 0 .. Last /\ dirty' \in BOOLEAN
            /\ schema' \subseteq 1 .. Last /\ lock' \in Instances \cup {Nobody}
            /\ pc' \in [Instances -> Places]
            /\ errors' \in 0 .. MaxErrors /\ crashes' \in 0 .. MaxCrashes
        BY <4>1, <4>2, Zenon
      <4>5. ASSUME NEW j \in Instances
            PROVE  /\ lock' = j <=> pc'[j] \in {"down", "undone", "next",
                                               "script", "applied"}
                   /\ pc'[j] \in {"down", "undone", "script", "applied"} =>
                        dirty'
                   /\ pc'[j] \in {"script", "applied"} => version' > 0
        BY <2>6, <4>1, <4>2, Zenon DEF BeginRollback
      <4> QED BY <2>2, <4>3, <4>4, <4>5, Zenon
    <3> QED BY <3>1, <3>2, Zenon
  <2>7. CASE RunDown(i)       BY <2>2, <2>7, Zenon DEF RunDown
  <2>8. CASE EndRollback(i)   BY <2>2, <2>8, Zenon DEF EndRollback
  <2>9. CASE BeginUp(i)       BY <2>2, <2>9 DEF BeginUp
  <2>10. CASE NextScript(i)
    <3>1. CASE version = Last
      BY <2>2, <2>10, <3>1, Zenon DEF NextScript
    <3>2. CASE version # Last
      <4>1. version + 1 \in 1 .. Last
        BY <3>2
      <4>2. /\ version' = version + 1 /\ dirty' = TRUE /\ schema' = schema
            /\ lock' = lock /\ pc' = [pc EXCEPT ![i] = "script"]
            /\ errors' = errors /\ crashes' = crashes
        BY <2>10, <3>2, Zenon DEF NextScript
      <4>3. from' \in [Instances -> 0 .. Last]
        BY <2>10, <3>2, Zenon DEF NextScript
      <4>4. /\ version' \in 0 .. Last /\ dirty' \in BOOLEAN
            /\ schema' \subseteq 1 .. Last /\ lock' \in Instances \cup {Nobody}
            /\ pc' \in [Instances -> Places]
            /\ errors' \in 0 .. MaxErrors /\ crashes' \in 0 .. MaxCrashes
        BY <4>1, <4>2
      <4>5. ASSUME NEW j \in Instances
            PROVE  /\ lock' = j <=> pc'[j] \in {"down", "undone", "next",
                                               "script", "applied"}
                   /\ pc'[j] \in {"down", "undone", "script", "applied"} =>
                        dirty'
                   /\ pc'[j] \in {"script", "applied"} => version' > 0
        BY <2>10, <4>1, <4>2 DEF NextScript
      <4> QED BY <2>2, <4>3, <4>4, <4>5, Zenon
    <3> QED BY <3>1, <3>2, Zenon
  <2>11. CASE RunUp(i)        BY <2>2, <2>11 DEF RunUp
  <2>12. CASE EndScript(i)    BY <2>2, <2>12, Zenon DEF EndScript
  <2>13. CASE Restart(i)      BY <2>2, <2>13, Zenon DEF Restart
  <2>14. CASE ScriptFails(i)  BY <2>2, <2>14 DEF ScriptFails
  <2>15. CASE GivesUp(i)      BY <2>2, <2>15 DEF GivesUp
  <2>16. CASE Crash(i)        BY <2>2, <2>16 DEF Crash
  <2> QED
    BY <2>1, <2>3, <2>4, <2>5, <2>6, <2>7, <2>8, <2>9, <2>10, <2>11, <2>12,
       <2>13, <2>14, <2>15, <2>16, StepCases, Zenon
<1> QED BY <1>1, <1>2, Zenon

\* A step that changes the database leaves what other instances know as it
\* was: one that repairs would be disturbed, one that applies holds the lock.
LEMMA OthersKnow ==
    ASSUME TypeOK, NEW j \in Instances, Knows(j), lock # j,
           pc'[j] = pc[j], from'[j] = from[j],
           Repairing(j) => database' = database
    PROVE  Knows(j)'
<1>1. CASE Repairing(j)
  BY <1>1 DEF Knows, Repairing, UpTo, UpToOrBelow, database
<1>2. CASE ~Repairing(j)
  <2>1. pc[j] \notin {"force", "rollback", "down", "undone", "next", "script",
                     "applied"}
    BY <1>2, Zenon DEF TypeOK, Repairing
  <2> QED BY <2>1, Zenon DEF Knows
<1> QED BY <1>1, <1>2, Zenon

\* Steps that leave the database alone: reading the version, beginning Up,
\* errors, crashes and restarts, except those that cut a repair short.
LEMMA QuietStep ==
    ASSUME TypeOK, RepairInv, ~disturbed, NEW i \in Instances,
           database' = database,
           \A j \in Instances \ {i} : pc'[j] = pc[j] /\ from'[j] = from[j],
           pc[i] # "rollback",
           pc'[i] \in {"check", "force", "up", "next", "failed", "start",
                      "done"},
           pc'[i] = "force" => dirty /\ from'[i] = version,
           pc'[i] = "next" => ~dirty,
           lock' = Nobody =>
               lock = Nobody \/ pc[i] \in {"script", "applied", "next"}
    PROVE  RepairInv'
<1>1. version' = version /\ dirty' = dirty /\ schema' = schema
  BY Zenon DEF database
<1>2. ~dirty' /\ (\A j \in Instances : pc'[j] # "rollback") => UpTo(version)'
  BY <1>1, Zenon DEF RepairInv, UpTo
<1>3. dirty' /\ lock' = Nobody => UpToOrBelow(version)'
  BY <1>1, Zenon DEF RepairInv, Knows, UpTo, UpToOrBelow
<1>4. ASSUME NEW j \in Instances PROVE Knows(j)'
  <2>1. CASE j = i
    BY <2>1, <1>1, Zenon DEF Knows
  <2>2. CASE j # i
    <3>1. pc'[j] = pc[j] /\ from'[j] = from[j] /\ Knows(j)
      BY <2>2, Zenon DEF RepairInv
    <3> QED BY <3>1, <1>1, Zenon DEF Knows, UpTo, UpToOrBelow
  <2> QED BY <2>1, <2>2, Zenon
<1> QED BY <1>2, <1>3, <1>4, Zenon DEF RepairInv

\* What a step of i that sets no history flag may rely on.
Undisturbed(i) ==
    /\ pc[i] \in {"rollback", "down", "undone"} =>
           pc'[i] \notin {"failed", "start"}
    /\ \A j \in Instances \ {i} : Repairing(j) => database' = database

\* The schema is known at every place of an undisturbed repair, and of Up
\* (the two library calls of the repair, Up, and every error and crash).
LEMMA RepairStep ==
    ASSUME TypeOK, RepairInv, [Next]_vars
    PROVE  RepairInv'
<1> USE MigrationsAssumption
<1>1. CASE UNCHANGED vars
  BY <1>1, Zenon DEF RepairInv, Knows, UpTo, UpToOrBelow, vars
<1>2. CASE Next
  <2>1. PICK i \in Instances :
          Step(i) /\ disturbed' = (disturbed \/ Disturbs(i))
    BY <1>2, Zenon DEF Next
  <2>2. CASE disturbed'
    BY <2>2, Zenon DEF RepairInv
  <2> SUFFICES ASSUME ~disturbed' PROVE RepairInv'
    BY <2>2, Zenon
  <2>3. ~disturbed /\ Undisturbed(i)
    BY <2>1, Zenon DEF Disturbs, Undisturbed
  <2>10. CASE Connect(i)
    BY <2>3, <2>10, QuietStep, Zenon
       DEF Connect, Undisturbed, TypeOK, Go, Unlock, database, Places
  <2>11. CASE ReadVersion(i)
    BY <2>3, <2>11, QuietStep
       DEF ReadVersion, Undisturbed, TypeOK, Go, Unlock, database, Places
  <2>12. CASE BeginUp(i)
    BY <2>3, <2>12, QuietStep
       DEF BeginUp, Undisturbed, TypeOK, Go, Unlock, database, Places
  <2>13. CASE Restart(i)
    BY <2>3, <2>13, QuietStep, Zenon
       DEF Restart, Undisturbed, TypeOK, Go, Unlock, database, Places
  <2>14. CASE ScriptFails(i)
    BY <2>3, <2>14, QuietStep, Zenon
       DEF ScriptFails, Undisturbed, TypeOK, Go, Unlock, database, Places
  <2>15. CASE GivesUp(i)
    BY <2>3, <2>15, QuietStep, Zenon
       DEF GivesUp, Undisturbed, TypeOK, Go, Unlock, database, Places
  <2>16. CASE Crash(i)
    BY <2>3, <2>16, QuietStep, Zenon
       DEF Crash, Undisturbed, TypeOK, Go, Unlock, database, Places
  <2>17. CASE ForceVersion(i)
    <3> USE <2>3, <2>17 DEF ForceVersion, TypeOK, Go, SetVersion, Unlock, UpTo,
                             UpToOrBelow
    <3>1. Knows(i) /\ pc'[i] # pc[i]
      BY Zenon DEF RepairInv
    <3>2. Knows(i)'
      BY <3>1, Zenon DEF Knows, RepairInv
    <3>3. ~dirty' /\ (\A j \in Instances : pc'[j] # "rollback") =>
             UpTo(version)'
      BY <3>1, Zenon DEF Knows, RepairInv
    <3>4. dirty' /\ lock' = Nobody => UpToOrBelow(version)'
      BY <3>1, Zenon DEF Knows, RepairInv
    <3>5. \A j \in Instances \ {i} : Knows(j)'
      BY OthersKnow, Zenon DEF RepairInv, Undisturbed
    <3> QED BY <3>2, <3>3, <3>4, <3>5, Zenon DEF RepairInv
  <2>18. CASE RunDown(i)
    <3> USE <2>3, <2>18 DEF RunDown, TypeOK, Go, SetVersion, Unlock, UpTo,
                             UpToOrBelow
    <3>1. Knows(i) /\ pc'[i] # pc[i]
      BY Zenon DEF RepairInv
    <3>2. Knows(i)'
      BY <3>1 DEF Knows
    <3>3. ~dirty' /\ (\A j \in Instances : pc'[j] # "rollback") =>
             UpTo(version)'
      BY <3>1, Zenon DEF Knows, RepairInv
    <3>4. dirty' /\ lock' = Nobody => UpToOrBelow(version)'
      BY <3>1, Zenon DEF Knows, RepairInv
    <3>5. \A j \in Instances \ {i} : Knows(j)'
      BY OthersKnow, Zenon DEF RepairInv, Undisturbed
    <3> QED BY <3>2, <3>3, <3>4, <3>5, Zenon DEF RepairInv
  <2>19. CASE EndRollback(i)
    <3> USE <2>3, <2>19 DEF EndRollback, TypeOK, Go, SetVersion, Unlock, UpTo,
                             UpToOrBelow
    <3>1. Knows(i) /\ pc'[i] # pc[i]
      BY Zenon DEF RepairInv
    <3>2. Knows(i)'
      BY <3>1, Zenon DEF Knows
    <3>3. ~dirty' /\ (\A j \in Instances : pc'[j] # "rollback") =>
             UpTo(version)'
      BY <3>1, Zenon DEF Knows, RepairInv
    <3>4. dirty' /\ lock' = Nobody => UpToOrBelow(version)'
      BY <3>1, Zenon DEF Knows, RepairInv
    <3>5. \A j \in Instances \ {i} : Knows(j)'
      BY OthersKnow, Zenon DEF RepairInv, Undisturbed
    <3> QED BY <3>2, <3>3, <3>4, <3>5, Zenon DEF RepairInv
  <2>20. CASE RunUp(i)
    <3> USE <2>3, <2>20 DEF RunUp, TypeOK, Go, SetVersion, Unlock, UpTo,
                             UpToOrBelow
    <3>1. Knows(i) /\ pc'[i] # pc[i]
      BY Zenon DEF RepairInv
    <3>2. Knows(i)'
      BY <3>1 DEF Knows
    <3>3. ~dirty' /\ (\A j \in Instances : pc'[j] # "rollback") =>
             UpTo(version)'
      BY <3>1, Zenon DEF Knows, RepairInv
    <3>4. dirty' /\ lock' = Nobody => UpToOrBelow(version)'
      BY <3>1, Zenon DEF Knows, RepairInv
    <3>5. \A j \in Instances \ {i} : Knows(j)'
      BY OthersKnow, Zenon DEF RepairInv, Undisturbed
    <3> QED BY <3>2, <3>3, <3>4, <3>5, Zenon DEF RepairInv
  <2>21. CASE EndScript(i)
    <3> USE <2>3, <2>21 DEF EndScript, TypeOK, Go, SetVersion, Unlock, UpTo,
                             UpToOrBelow
    <3>1. Knows(i) /\ pc'[i] # pc[i]
      BY Zenon DEF RepairInv
    <3>2. Knows(i)'
      BY <3>1, Zenon DEF Knows
    <3>3. ~dirty' /\ (\A j \in Instances : pc'[j] # "rollback") =>
             UpTo(version)'
      BY <3>1, Zenon DEF Knows, RepairInv
    <3>4. dirty' /\ lock' = Nobody => UpToOrBelow(version)'
      BY <3>1, Zenon DEF Knows, RepairInv
    <3>5. \A j \in Instances \ {i} : Knows(j)'
      BY OthersKnow, Zenon DEF RepairInv, Undisturbed
    <3> QED BY <3>2, <3>3, <3>4, <3>5, Zenon DEF RepairInv
  <2>22. CASE BeginRollback(i)
    <3> USE <2>3, <2>22 DEF BeginRollback, TypeOK, Go, SetVersion, Unlock, UpTo,
                             UpToOrBelow
    <3>1. CASE dirty \/ version = 0
      BY <3>1, Zenon DEF Undisturbed
    <3>2. CASE ~(dirty \/ version = 0)
      <4>1. Knows(i)
        BY Zenon DEF RepairInv
      <4>2. Knows(i)'
        BY <4>1, <3>2, Zenon DEF Knows, RepairInv
      <4>3. ~dirty' /\ (\A j \in Instances : pc'[j] # "rollback") =>
               UpTo(version)'
        BY <4>1, <3>2, Zenon DEF Knows, RepairInv
      <4>4. dirty' /\ lock' = Nobody => UpToOrBelow(version)'
        BY <4>1, <3>2 DEF Knows, RepairInv
      <4>5. \A j \in Instances \ {i} : Knows(j)'
        BY <3>2, OthersKnow, Zenon DEF RepairInv, Undisturbed
      <4> QED BY <4>2, <4>3, <4>4, <4>5, Zenon DEF RepairInv
    <3> QED BY <3>1, <3>2, Zenon
  <2>23. CASE NextScript(i)
    <3> USE <2>3, <2>23 DEF NextScript, TypeOK, Go, SetVersion, Unlock, UpTo,
                             UpToOrBelow
    <3>1. CASE version = Last
      BY <3>1, QuietStep DEF RepairInv, Knows, database
    <3>2. CASE version # Last
      <4>1. Knows(i)
        BY Zenon DEF RepairInv
      <4>2. Knows(i)'
        <5>1. database' # database
          <6>1. version' # version
            BY <3>2
          <6> QED BY ONLY <6>1, Zenon DEF database
        <5>2. \A j \in Instances : pc[j] # "rollback"
          BY <5>1, Zenon DEF Undisturbed, Repairing
        <5>3. ~dirty /\ UpTo(version)
          BY <4>1, <5>2, Zenon DEF Knows, RepairInv
        <5>4. version' = version + 1 /\ schema' = schema /\ pc'[i] = "script"
          BY <3>2, Zenon
        <5>5. schema' = 1 .. (version' - 1)
          BY <5>3, <5>4
        <5> QED BY <5>4, <5>5, Zenon DEF Knows
      <4>3. ~dirty' /\ (\A j \in Instances : pc'[j] # "rollback") =>
               UpTo(version)'
        BY <4>1, <3>2, Zenon DEF Knows, RepairInv
      <4>4. dirty' /\ lock' = Nobody => UpToOrBelow(version)'
        BY <4>1, <3>2, Zenon DEF Knows, RepairInv
      <4>5. \A j \in Instances \ {i} : Knows(j)'
        BY <3>2, OthersKnow, Zenon DEF RepairInv, Undisturbed
      <4> QED BY <4>2, <4>3, <4>4, <4>5, Zenon DEF RepairInv
    <3> QED BY <3>1, <3>2, Zenon
  <2> QED
    BY <2>1, <2>10, <2>11, <2>12, <2>13, <2>14, <2>15, <2>16, <2>17, <2>18,
       <2>19, <2>20, <2>21, <2>22, <2>23, StepCases, Zenon
<1> QED BY <1>1, <1>2, Zenon

\* A database as earlier deployments left it satisfies the invariant.
LEMMA MigrationsInitInv == Init => IInv
<1> SUFFICES ASSUME Init PROVE IInv
  BY Zenon
<1> USE MigrationsAssumption
<1>1. version \in 0 .. Last /\ schema \subseteq 1 .. Last
  BY DEF Init
<1>2. \A i \in Instances : pc[i] = "start"
  BY Zenon DEF Init
<1>3. TypeOK
  <2>1. /\ pc \in [Instances -> Places] /\ from \in [Instances -> 0 .. Last]
        /\ errors \in 0 .. MaxErrors /\ crashes \in 0 .. MaxCrashes
    BY DEF Init, Places
  <2>2. dirty \in BOOLEAN /\ disturbed \in BOOLEAN /\ lock = Nobody
    BY Zenon DEF Init
  <2> QED BY <1>1, <1>2, <2>1, <2>2, Zenon DEF TypeOK
<1>4. \A i \in Instances : Knows(i)
  BY <1>2, Zenon DEF Knows
<1>5. RepairInv
  BY <1>4, Zenon DEF Init, RepairInv, UpTo
<1> QED BY <1>3, <1>5, Zenon DEF IInv

\* The inductive invariant holds throughout (RunMigrations by any number of
\* instances).
THEOREM MigrationsInvariance == Spec => []IInv
<1>1. IInv /\ [Next]_vars => IInv'
  BY TypeStep, RepairStep, Zenon DEF IInv
<1> QED BY MigrationsInitInv, <1>1, PTL DEF Spec

\* Types; a script runs only under the lock and the dirty flag, so that a
\* crash during one is seen by the next start.
THEOREM MigrationsTypeCorrect == Spec => []TypeOK
<1>1. IInv => TypeOK
  BY Zenon DEF IInv
<1> QED BY <1>1, MigrationsInvariance, PTL

\* The automatic repair is sound when it is neither cut short nor overlapped:
\* a clean version is the schema's version (RunMigrations).
THEOREM RepairSound == Spec => []CleanMeansApplied
<1>1. IInv => CleanMeansApplied
  BY Zenon DEF IInv, RepairInv, CleanMeansApplied, UpTo
<1> QED BY <1>1, MigrationsInvariance, PTL

-----------------------------------------------------------------------------
(* Config: any struct, any file and environment, any width.                  *)

\* The field that processStruct has just set holds what its variable says.
LEMMA FieldSetNow ==
  ASSUME ConfigInv, NEW i, i = field, ProcessField, loadPc' # "error"
  PROVE  FieldSet(i)'
<1>1. i \in DOMAIN Fields /\ environ' = environ /\ environ[i] \in Texts
  BY Zenon DEF ProcessField, ConfigInv
<1> SUFFICES ASSUME Fields[i].env, environ[i] # Empty, Fields[i].kind # "other"
             PROVE  \/ cfg'[i] = environ[i]
                    \/ /\ Fields[i].kind = "narrow" /\ environ[i].num
                       /\ Narrow(environ[i].val) # environ[i].val
  BY <1>1, Zenon DEF FieldSet, Narrow, Empty
<1> DEFINE text == environ[i]
<1>2. FieldText(i) = text
  BY Zenon DEF FieldText
<1>3. PICK v \in SetField(i, text) : cfg' = [cfg EXCEPT ![i] = v]
  BY <1>2, Zenon DEF ProcessField
<1>4. cfg'[i] = v
  BY <1>1, <1>3, Zenon DEF ConfigInv
<1>5. CASE Fields[i].kind = "narrow"
  <2>1. text.num /\ v = Number(Narrow(text.val))
    BY <1>3, <1>5, Zenon DEF SetField, Numeric
  <2>2. PICK n \in Numbers : text = Number(n)
    BY <1>1, <2>1 DEF Texts, Empty, Word
  <2>3. text.val = n
    BY <2>2 DEF Number
  <2> QED
    BY <1>4, <1>5, <2>1, <2>2, <2>3, Zenon
<1>6. CASE Fields[i].kind # "narrow"
  BY <1>3, <1>4, <1>6, Zenon DEF SetField
<1> QED
  BY <1>5, <1>6, Zenon

\* Load keeps ConfigInv: a field once set is not touched again.
LEMMA ConfigInductive ==
  ASSUME ConfigInv, [ConfigNext]_configVars PROVE ConfigInv'
<1>1. CASE UNCHANGED configVars
  BY <1>1, Zenon DEF configVars, ConfigInv, FieldSet
<1>2. CASE ReadConfigFile
  BY <1>2, ConfigAssumption DEF ReadConfigFile, ConfigInv
<1>3. CASE ProcessField
  <2>1. /\ loadPc = "fields" /\ field \in 1..Len(Fields) /\ field' = field + 1
        /\ environ' = environ /\ Len(Fields) \in Nat
        /\ DOMAIN Fields = 1..Len(Fields)
    BY <1>3, ConfigAssumption DEF ProcessField
  <2>2. /\ cfg' = [i \in DOMAIN Fields |-> cfg'[i]]
        /\ \A i \in DOMAIN Fields \ {field} : cfg'[i] = cfg[i]
    BY <1>3, Zenon DEF ProcessField, ConfigInv
  <2>3. loadPc' \in {"fields", "error"}
    BY <1>3, <2>1, Zenon DEF ProcessField
  <2>4. ASSUME loadPc' = "fields", NEW i \in DOMAIN Fields, i < field'
        PROVE  FieldSet(i)'
    <3>1. CASE i = field
      BY <1>3, <2>4, <3>1, FieldSetNow, Zenon
    <3>2. CASE i # field
      <4>1. FieldSet(i) /\ cfg'[i] = cfg[i]
        BY <2>1, <2>2, <2>4, <3>2 DEF ConfigInv
      <4> QED
        BY <2>1, <4>1, Zenon DEF FieldSet
    <3> QED
      BY <3>1, <3>2, Zenon
  <2>5. environ' \in [DOMAIN Fields -> Texts] /\ field' \in 1..(Len(Fields) + 1)
    BY <2>1 DEF ConfigInv
  <2> QED
    BY <2>2, <2>3, <2>4, <2>5, Zenon DEF ConfigInv
<1>4. CASE LoadReturns
  <2>1. field = Len(Fields) + 1
    BY <1>4, ConfigAssumption DEF LoadReturns, ConfigInv
  <2> QED
    BY <1>4, <2>1, Zenon DEF LoadReturns, ConfigInv, FieldSet
<1> QED
  BY <1>1, <1>2, <1>3, <1>4, Zenon DEF ConfigNext

\* The environment overrides file and default, for every struct, file and
\* environment (Load, processStruct, setField).
THEOREM EnvironmentHolds == ConfigSpec => []EnvironmentWins
<1>1. ConfigInit => ConfigInv
  BY ConfigAssumption DEF ConfigInit, ConfigInv
<1>2. ConfigInv => EnvironmentWins
  <2> SUFFICES ASSUME ConfigInv, loadPc = "loaded", NEW i \in DOMAIN Fields
               PROVE  FieldSet(i)
    BY Zenon DEF EnvironmentWins, FieldSet
  <2>1. i < field
    BY ConfigAssumption DEF ConfigInv
  <2> QED
    BY <2>1, Zenon DEF ConfigInv
<1> QED
  BY <1>1, <1>2, ConfigInductive, PTL DEF ConfigSpec

-----------------------------------------------------------------------------
(* Translator: any files and headers.                                        *)

\* SetMessages adds and replaces, and takes nothing away.
LEMMA SetMessagesMerges ==
  ASSUME messages \in [SupportedLangs -> [Keys -> {"none", "built-in", "file"}]],
         NEW lang, NEW ks, NEW source \in {"built-in", "file"},
         SetMessages(lang, ks, source)
  PROVE  /\ messages' \in [SupportedLangs -> [Keys -> {"none", "built-in", "file"}]]
         /\ \A l \in SupportedLangs, k \in Keys :
              messages[l][k] # "none" \/ (l = lang /\ k \in ks)
                => messages'[l][k] # "none"
BY Zenon DEF SetMessages

\* Loading and translating keep TranslatorInv.
LEMMA TranslatorInductive ==
  ASSUME TranslatorInv, [TranslatorNext]_i18nVars PROVE TranslatorInv'
<1> USE DEF SupportedLangs, DefaultLang
<1>1. CASE UNCHANGED i18nVars
  BY <1>1, Zenon DEF i18nVars, TranslatorInv, NeverRawKey
<1>2. CASE LoadDefaults
  <2>1. SetMessages(i18nPc, Defaults(i18nPc), "built-in") /\ shown' = shown
        /\ i18nPc' \in {"kk", "en", "files"}
    BY <1>2, Zenon DEF LoadDefaults
  <2>2. i18nPc = "ru" => Defaults(i18nPc) = Keys \ {"own"}
    BY Zenon DEF Defaults, Keys
  <2> QED
    BY <2>1, <2>2, SetMessagesMerges DEF TranslatorInv, NeverRawKey
<1>3. CASE LoadFromFS
  <2>1. i18nPc = "files" /\ i18nPc' \in {"files", "done"} /\ shown' = shown
    BY <1>3, Zenon DEF LoadFromFS
  <2>2. CASE messages' = messages
    BY <2>1, <2>2, Zenon DEF TranslatorInv, NeverRawKey
  <2>3. CASE SetMessages(Files[nextFile].lang, Files[nextFile].keys, "file")
    BY <2>1, <2>3, SetMessagesMerges, Zenon DEF TranslatorInv, NeverRawKey
  <2> QED
    BY <1>3, <2>2, <2>3, Zenon DEF LoadFromFS
<1>4. CASE Translate
  <2>1. PICK key \in Keys :
          LET lang == ParseAcceptLanguage(header) IN
          shown' = [lang |-> lang, key |-> key, msg |-> Message(lang, key)]
    BY <1>4, Zenon DEF Translate
  <2>2. i18nPc # "ru" /\ UNCHANGED <<messages, i18nPc>>
    BY <1>4, Zenon DEF Translate
  <2>3. ASSUME key # "own", NEW lang PROVE Message(lang, key) # Raw
    BY <2>2, <2>3, Zenon DEF Message, Raw, TranslatorInv
  <2>4. NeverRawKey'
    BY <2>1, <2>3, Zenon DEF NeverRawKey
  <2> QED
    BY <2>2, <2>4, Zenon DEF TranslatorInv
<1> QED
  BY <1>1, <1>2, <1>3, <1>4, Zenon DEF TranslatorNext

\* No client sees the raw key of a built-in message, whatever files are loaded,
\* however far the load got, and whatever language is asked for.
THEOREM BuiltInsTranslated == TranslatorSpec => []NeverRawKey
<1>1. TranslatorInit => TranslatorInv
  BY DEF TranslatorInit, TranslatorInv, NeverRawKey, NothingShown, Raw,
         SupportedLangs, DefaultLang
<1>2. TranslatorInv => NeverRawKey
  BY Zenon DEF TranslatorInv
<1> QED
  BY <1>1, <1>2, TranslatorInductive, PTL DEF TranslatorSpec

-----------------------------------------------------------------------------
(* Health: any number of requests, any list of checkers.                    *)

Phases == {"idle", "waiting", "checking", "answered"}
Turns == Nat \ {0}
ResultMaps == [CheckerNames -> {"none", "ok", "down"}]
Overalls == {"ok", "degraded"}
Codes == {200, 503}
Statuses == {"ok", "degraded", "down"}
CheckerSets == SUBSET Nat
TypedProbes ==
  [pc : Phases, endpoint : {"ready", "health"}, turn : Turns,
   checks : ResultMaps, overall : Overalls, code : Codes, status : Statuses,
   known : CheckerSets, failing : CheckerSets]
ProbeRecords ==
  [pc : {"idle", "waiting", "checking", "answered"},
   endpoint : {"ready", "health"}, turn : Nat \ {0},
   checks : [CheckerNames -> {"none", "ok", "down"}],
   overall : {"ok", "degraded"}, code : {200, 503},
   status : {"ok", "degraded", "down"},
   known : SUBSET Nat, failing : SUBSET Nat]

\* Replacing fields of a request by values of their types.
LEMMA RecordTyped ==
  ASSUME NEW r \in ProbeRecords
  PROVE  /\ \A x \in Phases, y \in Codes, z \in Statuses :
              [r EXCEPT !.pc = x, !.code = y, !.status = z] \in ProbeRecords
         /\ \A x \in Turns, y \in ResultMaps :
              [r EXCEPT !.turn = x, !.checks = y] \in ProbeRecords
         /\ \A x \in Turns, z \in Overalls, f \in CheckerSets, y \in ResultMaps :
              [r EXCEPT !.turn = x, !.checks = y, !.overall = z,
                        !.failing = f] \in ProbeRecords
<1>1. ProbeRecords = TypedProbes
  BY DEF ProbeRecords, TypedProbes, Phases, Turns, ResultMaps, Overalls, Codes,
         Statuses, CheckerSets
<1>2. r \in TypedProbes
  BY <1>1, Zenon
<1>3. /\ \A x \in Phases, y \in Codes, z \in Statuses :
           [r EXCEPT !.pc = x, !.code = y, !.status = z] \in TypedProbes
      /\ \A x \in Turns, y \in ResultMaps :
           [r EXCEPT !.turn = x, !.checks = y] \in TypedProbes
      /\ \A x \in Turns, z \in Overalls, f \in CheckerSets, y \in ResultMaps :
           [r EXCEPT !.turn = x, !.checks = y, !.overall = z,
                     !.failing = f] \in TypedProbes
  BY <1>2, Zenon DEF TypedProbes
<1> QED
  BY <1>1, <1>3, Zenon

\* A request that changes alone keeps the invariant if it is well formed.
LEMMA ProbeStep ==
  ASSUME HealthInv, NEW p \in Probes, NEW new \in ProbeRecords, SetProbe(p, new),
         ResultsKept(p)', AnswerMade(p)'
  PROVE  HealthInv'
<1> USE DEF HealthInv
<1>1. /\ UNCHANGED <<registered, registering>>
      /\ probe' = [probe EXCEPT ![p] = new]
  BY Zenon DEF SetProbe
<1>2. HealthTypeOK'
  BY <1>1 DEF HealthTypeOK, ProbeRecords
<1>3. \A q \in Probes \ {p} : probe'[q] = probe[q]
  BY <1>1 DEF HealthTypeOK
<1>4. ASSUME NEW q \in Probes, q # p PROVE ResultsKept(q)' /\ AnswerMade(q)'
  BY <1>1, <1>3, <1>4 DEF ResultsKept, AnswerMade, Masked, NotReady
<1> QED
  BY <1>2, <1>4, Zenon

\* A request that arrives knows the checkers registered so far and has run none.
LEMMA NewProbeMade ==
  ASSUME HealthTypeOK, NEW p \in Probes, NEW at \in {"idle", "waiting"},
         NEW e \in {"ready", "health"}
  PROVE  /\ NewProbe(at, e) \in ProbeRecords
         /\ NewProbe(at, e).pc = at /\ NewProbe(at, e).turn = 1
         /\ NewProbe(at, e).known = 1..registered
         /\ NewProbe(at, e).failing = {} /\ NewProbe(at, e).overall = "ok"
         /\ \A n \in CheckerNames : NewProbe(at, e).checks[n] = "none"
<1>1. registered \in Nat /\ 1..registered \subseteq Nat
  BY DEF HealthTypeOK
<1> QED
  BY <1>1 DEF NewProbe, ProbeRecords

\* The turn of a checker records its result and hides that of a namesake.
LEMMA RunCheckerInv ==
  ASSUME HealthInv, NEW p \in Probes, RunChecker(p) PROVE HealthInv'
<1> USE DEF HealthInv
<1> DEFINE c == probe[p].turn
           new == Record(p, c)
<1>1. /\ probe[p].pc = "checking" /\ c <= registered
      /\ SetProbe(p, new) /\ c \in Nat \ {0} /\ probe[p] \in ProbeRecords
  BY DEF RunChecker, HasNext, HealthTypeOK, ProbeRecords
<1>2. registered \in 0..Len(NameOf) /\ Len(NameOf) \in Nat
  BY HealthAssumption DEF HealthTypeOK
<1>3. c \in DOMAIN NameOf /\ NameOf[c] \in CheckerNames
  BY <1>1, <1>2, HealthAssumption DEF CheckerNames, Checkers
<1>4. /\ new.turn = c + 1 /\ new.pc = "checking" /\ new.known = probe[p].known
      /\ new.endpoint = probe[p].endpoint
      /\ new.failing = IF CheckPasses(c) THEN probe[p].failing
                       ELSE probe[p].failing \cup {c}
      /\ new.overall = IF CheckPasses(c) THEN probe[p].overall ELSE "degraded"
      /\ new.checks = [probe[p].checks EXCEPT
                         ![NameOf[c]] = IF CheckPasses(c) THEN "ok" ELSE "down"]
  BY <1>1 DEF Record, ProbeRecords
<1>5. new \in ProbeRecords
  <2> DEFINE map(r) == [probe[p].checks EXCEPT ![NameOf[c]] = r]
             pass == map("ok")
             fail == map("down")
             next == c + 1
             more == probe[p].failing \cup {c}
  <2>1. pass \in ResultMaps /\ fail \in ResultMaps
    BY <1>1, <1>3, Zenon DEF ProbeRecords, ResultMaps
  <2>2. more \in CheckerSets /\ next \in Turns /\ "degraded" \in Overalls
    BY <1>1 DEF ProbeRecords, CheckerSets, Turns, Overalls
  <2>3. \/ new = [probe[p] EXCEPT !.turn = next, !.checks = pass]
        \/ new = [probe[p] EXCEPT !.turn = next, !.checks = fail,
                                  !.overall = "degraded", !.failing = more]
    BY Zenon DEF Record
  <2>4. /\ \A x \in Turns, y \in ResultMaps :
             [probe[p] EXCEPT !.turn = x, !.checks = y] \in ProbeRecords
        /\ \A x \in Turns, z \in Overalls, f \in CheckerSets, y \in ResultMaps :
             [probe[p] EXCEPT !.turn = x, !.checks = y, !.overall = z,
                              !.failing = f] \in ProbeRecords
    BY <1>1, RecordTyped, Zenon
  <2> HIDE DEF pass, fail, next, more, c, new
  <2>5. [probe[p] EXCEPT !.turn = next, !.checks = pass] \in ProbeRecords
    BY <2>1, <2>2, <2>4, Zenon
  <2>6. [probe[p] EXCEPT !.turn = next, !.checks = fail, !.overall = "degraded",
                         !.failing = more] \in ProbeRecords
    BY <2>1, <2>2, <2>4, Zenon
  <2> QED
    BY <2>3, <2>5, <2>6, Zenon
<1>6. probe'[p] = new /\ registered' = registered
  BY <1>1 DEF SetProbe, HealthTypeOK
<1> HIDE DEF c, new
<1>7. probe[p].checks \in [CheckerNames -> {"none", "ok", "down"}]
      /\ probe[p].failing \subseteq 1..(c - 1)
      /\ (probe[p].overall = "ok" <=> probe[p].failing = {})
      /\ probe[p].known \subseteq 1..registered
  BY <1>1 DEF ProbeRecords, ResultsKept, c
<1>8. ResultsKept(p)'
  <2>1. new.turn <= registered + 1 /\ new.known \subseteq 1..registered
        /\ new.pc # "answered"
    BY <1>1, <1>2, <1>4, <1>7
  <2>2. new.failing \subseteq 1..(new.turn - 1)
    BY <1>1, <1>4, <1>7
  <2>3. new.overall = "ok" <=> new.failing = {}
    BY <1>4, <1>7, Zenon
  <2>4. \A n \in CheckerNames : new.checks[n] = "down" => new.failing # {}
    BY <1>1, <1>3, <1>4, <1>7 DEF ResultsKept
  <2>5. ASSUME NEW d \in 1..(new.turn - 1)
        PROVE  \/ \E b \in (d + 1)..(new.turn - 1) : NameOf[b] = NameOf[d]
               \/ new.checks[NameOf[d]] = IF d \in new.failing THEN "down" ELSE "ok"
    <3>1. CASE d = c
      BY <1>1, <1>3, <1>4, <1>7, <3>1
    <3>2. CASE d # c /\ NameOf[d] = NameOf[c]
      BY <1>1, <1>4, <3>2
    <3>3. CASE d # c /\ NameOf[d] # NameOf[c]
      <4>1. d \in 1..(c - 1) /\ c \in Nat
        BY <1>1, <1>4, <3>3
      <4>2. d \in DOMAIN NameOf /\ NameOf[d] \in CheckerNames
        BY <1>1, <1>2, <4>1, HealthAssumption DEF CheckerNames, Checkers
      <4>3. new.checks[NameOf[d]] = probe[p].checks[NameOf[d]]
        BY <1>4, <1>7, <3>3, <4>2, Zenon
      <4>4. d \in new.failing <=> d \in probe[p].failing
        BY <1>4, <3>3, Zenon
      <4>5. \/ \E b \in (d + 1)..(c - 1) : NameOf[b] = NameOf[d]
            \/ probe[p].checks[NameOf[d]]
                 = IF d \in probe[p].failing THEN "down" ELSE "ok"
        BY <4>1, Zenon DEF ResultsKept, Masked, c
      <4> QED
        BY <1>4, <4>1, <4>3, <4>4, <4>5
    <3> QED
      BY <3>1, <3>2, <3>3, Zenon
  <2> QED
    BY <1>6, <2>1, <2>2, <2>3, <2>4, <2>5, Zenon DEF ResultsKept, Masked
<1>9. AnswerMade(p)'
  BY <1>4, <1>6, Zenon DEF AnswerMade
<1> QED
  BY <1>1, <1>5, <1>8, <1>9, ProbeStep, Zenon

\* The answer is made from the results.
LEMMA CheckEndsInv ==
  ASSUME HealthInv, NEW p \in Probes, CheckEnds(p) PROVE HealthInv'
<1> USE DEF HealthInv
<1> DEFINE code == IF NotReady(p) THEN 503 ELSE 200
           status == IF NotReady(p) THEN "down" ELSE probe[p].overall
           new == [probe[p] EXCEPT !.pc = ReturnsTo, !.code = code,
                                   !.status = status]
<1>1. /\ probe[p].turn > registered /\ SetProbe(p, new)
      /\ probe[p] \in ProbeRecords /\ registered \in Nat
  BY HealthAssumption DEF CheckEnds, HasNext, HealthTypeOK, ProbeRecords
<1>2. new \in ProbeRecords
  <2>1. probe[p].overall \in {"ok", "degraded", "down"}
    BY <1>1, Zenon DEF ProbeRecords
  <2>2. ReturnsTo \in Phases /\ code \in Codes /\ status \in Statuses
    BY <2>1 DEF ReturnsTo, Phases, Codes, Statuses
  <2>3. \A x \in Phases, y \in Codes, z \in Statuses :
          [probe[p] EXCEPT !.pc = x, !.code = y, !.status = z] \in ProbeRecords
    BY <1>1, RecordTyped, Zenon
  <2> HIDE DEF code, status
  <2> QED
    BY <2>2, <2>3, Zenon
<1>3. /\ new.pc = "answered" /\ new.turn = probe[p].turn
      /\ new.known = probe[p].known /\ new.failing = probe[p].failing
      /\ new.overall = probe[p].overall /\ new.checks = probe[p].checks
      /\ new.endpoint = probe[p].endpoint
      /\ new.code = IF NotReady(p) THEN 503 ELSE 200
      /\ new.status = IF NotReady(p) THEN "down" ELSE probe[p].overall
  BY <1>1 DEF ProbeRecords, ReturnsTo
<1>4. probe'[p] = new /\ registered' = registered
  BY <1>1 DEF SetProbe, HealthTypeOK
<1> HIDE DEF new
<1>5. ResultsKept(p)'
  <2>1. probe[p].known \subseteq 1..(probe[p].turn - 1)
    BY <1>1 DEF ResultsKept, ProbeRecords
  <2> QED
    BY <1>3, <1>4, <2>1 DEF ResultsKept, Masked
<1>6. AnswerMade(p)'
  BY <1>3, <1>4 DEF AnswerMade, NotReady
<1> QED
  BY <1>1, <1>2, <1>5, <1>6, ProbeStep, Zenon

\* The invariant holds in every reachable state.
LEMMA HealthInductive == HealthSpec => []HealthInv
<1>1. HealthInit => HealthInv
  <2> SUFFICES ASSUME HealthInit PROVE HealthInv
    BY Zenon
  <2>1. registered \in 0..Len(NameOf) /\ (registering => registered < Len(NameOf))
        /\ registered = 0
    BY HealthAssumption DEF HealthInit
  <2>2. NewProbe("idle", "ready") \in ProbeRecords
    BY <2>1 DEF NewProbe, ProbeRecords
  <2>3. HealthTypeOK
    BY <2>1, <2>2 DEF HealthInit, HealthTypeOK, ProbeRecords
  <2>4. ASSUME NEW p \in Probes PROVE ResultsKept(p) /\ AnswerMade(p)
    <3>1. probe[p] = NewProbe("idle", "ready")
      BY Zenon DEF HealthInit
    <3> QED
      BY <2>1, <2>3, <3>1, NewProbeMade DEF ResultsKept, AnswerMade
  <2> QED
    BY <2>3, <2>4, Zenon DEF HealthInv
<1>2. HealthInv /\ [HealthNext]_healthVars => HealthInv'
  <2> SUFFICES ASSUME HealthInv, [HealthNext]_healthVars PROVE HealthInv'
    BY Zenon
  <2> USE DEF HealthInv
  <2>1. CASE \/ RegisterCall \/ UNCHANGED healthVars
             \/ \E c \in Checkers : DependencyChanges(c)
    <3>1. /\ UNCHANGED <<registered, probe>>
          /\ registering' => registering \/ registered < Len(NameOf)
      BY <2>1 DEF RegisterCall, DependencyChanges, healthVars
    <3> QED
      BY <3>1 DEF HealthTypeOK, ResultsKept, AnswerMade, Masked, NotReady
  <2>2. CASE RegisterChecker
    <3>1. /\ registered' = registered + 1 /\ ~registering' /\ probe' = probe
          /\ registered \in 0..Len(NameOf) /\ registered < Len(NameOf)
      BY <2>2, Zenon DEF RegisterChecker, HealthTypeOK
    <3>2. HealthTypeOK'
      BY <3>1, HealthAssumption DEF HealthTypeOK
    <3>3. \A p \in Probes : probe[p].turn \in Nat
      BY DEF HealthTypeOK
    <3>4. ASSUME NEW p \in Probes PROVE ResultsKept(p)' /\ AnswerMade(p)'
      BY <3>1, <3>3, HealthAssumption DEF ResultsKept, AnswerMade, Masked, NotReady
    <3> QED
      BY <3>2, <3>4, Zenon
  <2>3. ASSUME NEW p \in Probes, ProbeArrives(p) PROVE HealthInv'
    <3>1. PICK e \in {"ready", "health"} : SetProbe(p, NewProbe("waiting", e))
      BY <2>3, Zenon DEF ProbeArrives
    <3>2. /\ probe'[p] = NewProbe("waiting", e) /\ registered' = registered
          /\ registered \in Nat
      BY <3>1 DEF SetProbe, HealthTypeOK
    <3>3. ResultsKept(p)' /\ AnswerMade(p)'
      BY <3>2, NewProbeMade DEF ResultsKept, AnswerMade
    <3> QED
      BY <3>1, <3>3, NewProbeMade, ProbeStep, Zenon
  <2>4. ASSUME NEW p \in Probes, ProbeBegins(p) PROVE HealthInv'
    <3> DEFINE new == [probe[p] EXCEPT !.pc = "checking"]
    <3>1. SetProbe(p, new) /\ probe[p] \in ProbeRecords
      BY <2>4 DEF ProbeBegins, HealthTypeOK, ProbeRecords
    <3>2. /\ new \in ProbeRecords /\ new.pc = "checking"
          /\ new.turn = probe[p].turn /\ new.known = probe[p].known
          /\ new.failing = probe[p].failing /\ new.overall = probe[p].overall
          /\ new.checks = probe[p].checks
      BY <3>1 DEF ProbeRecords
    <3>3. probe'[p] = new /\ registered' = registered
      BY <3>1 DEF SetProbe, HealthTypeOK
    <3> HIDE DEF new
    <3>4. ResultsKept(p)' /\ AnswerMade(p)'
      BY <3>2, <3>3 DEF ResultsKept, AnswerMade, Masked
    <3> QED
      BY <3>1, <3>2, <3>4, ProbeStep, Zenon
  <2> QED
    BY <2>1, <2>2, <2>3, <2>4, RunCheckerInv, CheckEndsInv, Zenon DEF HealthNext
<1> QED
  BY <1>1, <1>2, PTL DEF HealthSpec

\* For every list of checkers, every number of probes and every interleaving of
\* registrations and outages, the answers tell what the checks found (Check,
\* ReadinessHandler, Handler).
THEOREM AnswersTruthful == HealthSpec => []AnswersTellChecks
<1>1. HealthInv => AnswersTellChecks
  <2> SUFFICES ASSUME HealthInv, NEW p \in Probes, probe[p].pc = "answered"
               PROVE  /\ probe[p].status = "ok" <=> probe[p].failing = {}
                      /\ probe[p].endpoint = "ready" /\ probe[p].code = 200 =>
                           \A c \in probe[p].known :
                             \/ Masked(p, c)
                             \/ /\ c \notin probe[p].failing
                                /\ probe[p].checks[NameOf[c]] = "ok"
    BY Zenon DEF AnswersTellChecks
  <2>1. ResultsKept(p) /\ AnswerMade(p) /\ probe[p] \in ProbeRecords
    BY DEF HealthInv, HealthTypeOK, ProbeRecords
  <2>2. probe[p].status = "ok" <=> probe[p].failing = {}
    BY <2>1 DEF ResultsKept, AnswerMade, NotReady
  <2>3. ASSUME probe[p].endpoint = "ready", probe[p].code = 200,
               NEW c \in probe[p].known, ~Masked(p, c)
        PROVE  c \notin probe[p].failing /\ probe[p].checks[NameOf[c]] = "ok"
    <3>1. c \in 1..(probe[p].turn - 1) /\ c \in 1..registered
      BY <2>1, Zenon DEF ResultsKept
    <3>2. NameOf[c] \in CheckerNames
      BY <3>1, HealthAssumption DEF HealthInv, HealthTypeOK, CheckerNames, Checkers
    <3>3. probe[p].checks[NameOf[c]] # "down"
      BY <2>1, <2>3, <3>2 DEF AnswerMade, NotReady
    <3> QED
      BY <2>1, <2>3, <3>1, <3>3, Zenon DEF ResultsKept
  <2> QED
    BY <2>2, <2>3, Zenon
<1> QED
  BY HealthInductive, <1>1, PTL
=============================================================================
