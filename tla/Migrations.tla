---------------------------- MODULE Migrations ----------------------------
(***************************************************************************)
(* RunMigrations of postgres/migrate.go, run by every instance of a        *)
(* service when it starts, against one database.  The golang-migrate       *)
(* library keeps a version and a dirty flag in the database; it sets the   *)
(* flag before a script and clears it after, and holds an advisory lock    *)
(* for the length of one Force, Steps or Up call.  RunMigrations reads     *)
(* version and flag without the lock, and repairs a dirty state in two     *)
(* calls: Force(version), then Steps(-1).                                  *)
(*                                                                         *)
(* A script is applied or not (PostgreSQL runs it in one transaction), and *)
(* scripts are repeatable (IF EXISTS, IF NOT EXISTS).  Versions are        *)
(* 1..Last; 0 stands for the nil version of an empty database.             *)
(*                                                                         *)
(* Bounds: MaxErrors failed calls, MaxCrashes crashes.                       *)
(***************************************************************************)
EXTENDS Integers

CONSTANTS Instances, Last, MaxErrors, MaxCrashes, Nobody

ASSUME MigrationsAssumption ==
    /\ Last \in Nat \ {0} /\ MaxErrors \in Nat /\ MaxCrashes \in Nat
    /\ Nobody \notin Instances

VARIABLES
    version, dirty,   \* the schema_migrations row
    schema,           \* the migrations whose effects the database holds
    lock,             \* holder of the advisory lock
    pc,               \* where each instance is in RunMigrations
    from,             \* version an instance found dirty, or rolls back
    errors, crashes,  \* faults used so far
    disturbed         \* history: a repair was interrupted or overlapped

database == <<version, dirty, schema>>
vars == <<version, dirty, schema, lock, pc, from, errors, crashes, disturbed>>

Places == {"start", "check", "force", "rollback", "down", "undone", "up",
           "next", "script", "applied", "failed", "done"}

\* A database that earlier deployments have migrated up to some version.
Init ==
    /\ version \in 0 .. Last - 1 /\ dirty = FALSE /\ schema = 1 .. version
    /\ lock = Nobody
    /\ pc = [i \in Instances |-> "start"] /\ from = [i \in Instances |-> 0]
    /\ errors = 0 /\ crashes = 0 /\ disturbed = FALSE

Go(i, where) == pc' = [pc EXCEPT ![i] = where]
SetVersion(v, d) == version' = v /\ dirty' = d
Unlock(i) == lock' = IF lock = i THEN Nobody ELSE lock
Faults == <<errors, crashes>>

-----------------------------------------------------------------------------
(* Checking and repairing.                                                 *)

\* The migrator connects; no cancellation so far.
Connect(i) ==
    /\ pc[i] = "start"
    /\ Go(i, "check")
    /\ UNCHANGED <<database, lock, from, Faults>>

\* Mutant: a dirty state is left to Up, which refuses it.
ReadVersionOnly(i) ==
    /\ pc[i] = "check"
    /\ Go(i, "up")
    /\ UNCHANGED <<database, lock, from, Faults>>

\* m.Version() takes no lock.  For the nil version it returns ErrNilVersion,
\* which RunMigrations accepts, and never reports the flag.
ReadVersion(i) ==
    /\ pc[i] = "check"
    /\ IF dirty /\ version > 0
       THEN Go(i, "force") /\ from' = [from EXCEPT ![i] = version]
       ELSE Go(i, "up") /\ UNCHANGED from
    /\ UNCHANGED <<database, lock, Faults>>

\* Mutant: the dirty flag is cleared and the migration is not rolled back.
ForceOnly(i) ==
    /\ pc[i] = "force" /\ lock = Nobody
    /\ SetVersion(from[i], FALSE) /\ UNCHANGED schema
    /\ Go(i, "up")
    /\ UNCHANGED <<lock, from, Faults>>

\* m.Force(version); Steps(-1) follows, as the version is positive.
ForceVersion(i) ==
    /\ pc[i] = "force" /\ lock = Nobody
    /\ SetVersion(from[i], FALSE) /\ UNCHANGED schema
    /\ Go(i, "rollback")
    /\ UNCHANGED <<lock, from, Faults>>

\* Steps(-1) records the version below as dirty before it runs the script;
\* it refuses a dirty or an empty database.
BeginRollback(i) ==
    /\ pc[i] = "rollback" /\ lock = Nobody
    /\ IF dirty \/ version = 0
       THEN /\ Go(i, "failed")
            /\ UNCHANGED <<database, lock, from>>
       ELSE /\ SetVersion(version - 1, TRUE) /\ UNCHANGED schema
            /\ from' = [from EXCEPT ![i] = version]
            /\ lock' = i
            /\ Go(i, "down")
    /\ UNCHANGED Faults

RunDown(i) ==
    /\ pc[i] = "down"
    /\ schema' = schema \ {from[i]}
    /\ Go(i, "undone")
    /\ UNCHANGED <<version, dirty, lock, from, Faults>>

EndRollback(i) ==
    /\ pc[i] = "undone"
    /\ SetVersion(version, FALSE) /\ UNCHANGED schema
    /\ Unlock(i)
    /\ Go(i, "up")
    /\ UNCHANGED <<from, Faults>>

-----------------------------------------------------------------------------
(* Applying what is pending.                                               *)

BeginUp(i) ==
    /\ pc[i] = "up" /\ lock = Nobody
    /\ IF dirty THEN Go(i, "failed") /\ UNCHANGED lock
                ELSE Go(i, "next") /\ lock' = i
    /\ UNCHANGED <<database, from, Faults>>

\* The next pending script; none left is success, ErrNoChange included.
NextScript(i) ==
    /\ pc[i] = "next"
    /\ IF version = Last
       THEN /\ Unlock(i) /\ Go(i, "done")
            /\ UNCHANGED database
       ELSE /\ SetVersion(version + 1, TRUE) /\ UNCHANGED <<schema, lock>>
            /\ Go(i, "script")
    /\ UNCHANGED <<from, Faults>>

RunUp(i) ==
    /\ pc[i] = "script"
    /\ schema' = schema \cup {version}
    /\ Go(i, "applied")
    /\ UNCHANGED <<version, dirty, lock, from, Faults>>

EndScript(i) ==
    /\ pc[i] = "applied"
    /\ SetVersion(version, FALSE) /\ UNCHANGED schema
    /\ Go(i, "next")
    /\ UNCHANGED <<lock, from, Faults>>

-----------------------------------------------------------------------------
(* Errors, crashes, restarts.                                              *)

\* A script fails: the library returns, the flag stays set.
ScriptFails(i) ==
    /\ pc[i] \in {"down", "script"} /\ errors < MaxErrors
    /\ errors' = errors + 1
    /\ Unlock(i) /\ Go(i, "failed")
    /\ UNCHANGED <<database, from, crashes>>

\* RunMigrations returns an error: the migrator cannot connect or cannot read
\* the version, the context ends before that or before Up, or Force, Steps or
\* Up fails before it changes anything, because the connection is gone or the
\* lock is not obtained in time.
GivesUp(i) ==
    /\ pc[i] \in {"start", "check", "force", "rollback", "up"}
    /\ errors < MaxErrors
    /\ errors' = errors + 1
    /\ Go(i, "failed")
    /\ UNCHANGED <<database, lock, from, crashes>>

\* The session ends with the process, and with it the advisory lock.
Crash(i) ==
    /\ pc[i] # "start" /\ crashes < MaxCrashes
    /\ crashes' = crashes + 1
    /\ Unlock(i) /\ Go(i, "start")
    /\ UNCHANGED <<database, from, errors>>

Restart(i) ==
    /\ pc[i] = "failed"
    /\ Go(i, "start")
    /\ UNCHANGED <<database, lock, from, Faults>>

Works(i) ==
    \/ Connect(i) \/ ReadVersion(i)
    \/ ForceVersion(i) \/ BeginRollback(i) \/ RunDown(i) \/ EndRollback(i)
    \/ BeginUp(i) \/ NextScript(i) \/ RunUp(i) \/ EndScript(i)
    \/ Restart(i)

Step(i) == Works(i) \/ ScriptFails(i) \/ GivesUp(i) \/ Crash(i)

\* A repair is under way from the reading of the dirty flag to the end of
\* the rollback; what it has begun starts with Force.
Repairing(i) == pc[i] \in {"force", "rollback", "down", "undone"}

Disturbs(i) ==
    \/ /\ pc[i] \in {"rollback", "down", "undone"}
       /\ pc'[i] \in {"failed", "start"}
    \/ \E j \in Instances \ {i} : Repairing(j) /\ database' # database

Next ==
    \E i \in Instances : Step(i) /\ disturbed' = (disturbed \/ Disturbs(i))

Spec == Init /\ [][Next]_vars

-----------------------------------------------------------------------------
(* Properties.                                                             *)

\* Types; the lock is held exactly while a script is due or running, and a
\* script runs only under the dirty flag, so that every crash during one is
\* seen by the next RunMigrations.
TypeOK ==
    /\ version \in 0 .. Last /\ dirty \in BOOLEAN /\ schema \subseteq 1 .. Last
    /\ lock \in Instances \cup {Nobody}
    /\ pc \in [Instances -> Places] /\ from \in [Instances -> 0 .. Last]
    /\ errors \in 0 .. MaxErrors /\ crashes \in 0 .. MaxCrashes
    /\ disturbed \in BOOLEAN
    /\ \A i \in Instances :
         /\ lock = i <=>
              pc[i] \in {"down", "undone", "next", "script", "applied"}
         /\ pc[i] \in {"down", "undone", "script", "applied"} => dirty
         /\ pc[i] \in {"script", "applied"} => version > 0

\* Automatic repair keeps schema and version together: as long as no repair
\* was cut short between Force and the end of the rollback, or overlapped
\* with a change by another instance, a clean version v means that the
\* migrations 1..v, and no others, are in the schema, whatever scripts
\* failed and wherever else an instance crashed.
CleanMeansApplied ==
    ~disturbed /\ ~dirty /\ (\A i \in Instances : pc[i] # "rollback")
        => schema = 1 .. version

\* Start-up succeeds: once scripts stop failing, instances that are restarted
\* after every error all return from RunMigrations without one, from any
\* dirty state that crashes, failures and overlapping repairs leave.  The one
\* state the automatic repair does not leave is a dirty nil version, from a
\* rollback of the first migration that did not finish.
StartupSucceeds ==
    \/ \A i \in Instances : <>[](pc[i] = "done")
    \/ <>[](version = 0 /\ dirty)

\* What the documentation of RunMigrations promises ("Apply all pending
\* migrations"): when it returns without an error, every migration is in
\* the schema.
SuccessMeansMigrated ==
    [][\A i \in Instances :
         pc[i] # "done" /\ pc'[i] = "done" => schema' = 1 .. Last]_vars

-----------------------------------------------------------------------------
(* The inductive invariant behind CleanMeansApplied.                       *)

\* The schema holds everything up to v, or everything but v itself.
UpTo(v) == schema = 1 .. v
UpToOrBelow(v) == UpTo(v) \/ UpTo(v - 1)

\* What is known of the schema while an instance works on it.
Knows(i) ==
    /\ pc[i] = "force" => dirty /\ from[i] = version
    /\ pc[i] = "rollback" => ~dirty /\ UpToOrBelow(version)
    /\ pc[i] = "down" => version = from[i] - 1 /\ UpToOrBelow(from[i])
    /\ pc[i] = "undone" => UpTo(version)
    /\ pc[i] = "next" => ~dirty
    /\ pc[i] = "script" => UpToOrBelow(version)
    /\ pc[i] = "applied" => UpTo(version)

\* A dirty state that nobody works on was left by a script of Up.
RepairInv ==
    ~disturbed =>
        /\ ~dirty /\ (\A i \in Instances : pc[i] # "rollback") => UpTo(version)
        /\ dirty /\ lock = Nobody => UpToOrBelow(version)
        /\ \A i \in Instances : Knows(i)

IInv == TypeOK /\ RepairInv

=============================================================================
