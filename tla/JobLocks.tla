----------------------------- MODULE JobLocks ------------------------------
(***************************************************************************)
(* reconcilePendingTransactions (src/scheduled-jobs), which every instance *)
(* runs each minute under a lock in Redis with a time to live, and a lock  *)
(* per transaction.  A lock has no owner: it expires by itself and is      *)
(* deleted by whoever thinks it has it.  The job loads the transactions    *)
(* that timed out and saves each as FAILED; their processors may complete  *)
(* them meanwhile.                                                         *)
(***************************************************************************)
EXTENDS Integers, FiniteSets

CONSTANTS Instances, PendingTxs, NoOne

(* The two kinds of keys have prefixes of their own in Redis. *)
ASSUME JobLocksAssumption == NoOne \notin Instances \cup PendingTxs /\ "job" \notin PendingTxs

VARIABLES locks,        \* the keys that exist: "job" and transactions
          run,          \* per instance: its step
          batch,        \* per instance: the transactions it has loaded
          current,      \* per instance: the one it has locked
          txState,      \* per transaction
          ranOut        \* history: a lock expired while an instance worked under it

jobVars == <<locks, run, batch, current, txState, ranOut>>

JobInit ==
    /\ locks = {}
    /\ run = [i \in Instances |-> "off"]
    /\ batch = [i \in Instances |-> {}]
    /\ current = [i \in Instances |-> NoOne]
    /\ txState = [t \in PendingTxs |-> "PENDING"]
    /\ ranOut = FALSE

(* Mutant: set without NX. *)
FreeAlways(k) == TRUE

Free(k) == k \notin locks

acquireJobLock(i) ==
    /\ run[i] = "off" /\ Free("job")
    /\ locks' = locks \cup {"job"}
    /\ run' = [run EXCEPT ![i] = "locked"]
    /\ UNCHANGED <<batch, current, txState, ranOut>>

findTimedOut(i) ==
    /\ run[i] = "locked"
    /\ batch' = [batch EXCEPT ![i] = {t \in PendingTxs : txState[t] = "PENDING"}]
    /\ run' = [run EXCEPT ![i] = "loop"]
    /\ UNCHANGED <<locks, current, txState, ranOut>>

(* A transaction whose lock is taken is skipped. *)
lockTransaction(i, t) ==
    /\ run[i] = "loop" /\ t \in batch[i]
    /\ batch' = [batch EXCEPT ![i] = @ \ {t}]
    /\ IF Free(t)
       THEN /\ locks' = locks \cup {t}
            /\ current' = [current EXCEPT ![i] = t]
            /\ run' = [run EXCEPT ![i] = "save"]
       ELSE UNCHANGED <<locks, current, run>>
    /\ UNCHANGED <<txState, ranOut>>

saveFailed(i) ==
    /\ run[i] = "save"
    /\ txState' = [txState EXCEPT ![current[i]] = "FAILED"]
    /\ run' = [run EXCEPT ![i] = "unlock"]
    /\ UNCHANGED <<locks, batch, current, ranOut>>

unlockTransaction(i) ==
    /\ run[i] = "unlock"
    /\ locks' = locks \ {current[i]}
    /\ current' = [current EXCEPT ![i] = NoOne]
    /\ run' = [run EXCEPT ![i] = "loop"]
    /\ UNCHANGED <<batch, txState, ranOut>>

releaseJobLock(i) ==
    /\ run[i] = "loop" /\ batch[i] = {}
    /\ locks' = locks \ {"job"}
    /\ run' = [run EXCEPT ![i] = "off"]
    /\ UNCHANGED <<batch, current, txState, ranOut>>

(* A save fails: both finally blocks run. *)
jobThrows(i) ==
    /\ run[i] \in {"locked", "save"}
    /\ locks' = locks \ {"job", current[i]}
    /\ current' = [current EXCEPT ![i] = NoOne]
    /\ batch' = [batch EXCEPT ![i] = {}]
    /\ run' = [run EXCEPT ![i] = "off"]
    /\ UNCHANGED <<txState, ranOut>>

(* The process stops: its locks stay until they expire. *)
instanceStops(i) ==
    /\ run[i] # "off"
    /\ run' = [run EXCEPT ![i] = "off"]
    /\ batch' = [batch EXCEPT ![i] = {}]
    /\ current' = [current EXCEPT ![i] = NoOne]
    /\ UNCHANGED <<locks, txState, ranOut>>

Working(k) == {i \in Instances : IF k = "job" THEN run[i] # "off" ELSE current[i] = k}

lockExpires(k) ==
    /\ k \in locks
    /\ locks' = locks \ {k}
    /\ ranOut' = (ranOut \/ Working(k) # {})
    /\ UNCHANGED <<run, batch, current, txState>>

(* The processor of the transaction takes no lock. *)
completeTx(t) ==
    /\ txState[t] = "PENDING"
    /\ txState' = [txState EXCEPT ![t] = "COMPLETED"]
    /\ UNCHANGED <<locks, run, batch, current, ranOut>>

JobNext ==
    \/ \E i \in Instances :
        \/ acquireJobLock(i) \/ findTimedOut(i) \/ saveFailed(i) \/ unlockTransaction(i)
        \/ releaseJobLock(i) \/ jobThrows(i) \/ instanceStops(i)
        \/ \E t \in PendingTxs : lockTransaction(i, t)
    \/ \E k \in {"job"} \cup PendingTxs : lockExpires(k)
    \/ \E t \in PendingTxs : completeTx(t)

JobSpec == JobInit /\ [][JobNext]_jobVars

----------------------------------------------------------------------------
(* Type invariant. *)
JobTypeOK ==
    /\ locks \subseteq {"job"} \cup PendingTxs
    /\ run \in [Instances -> {"off", "locked", "loop", "save", "unlock"}]
    /\ batch \in [Instances -> SUBSET PendingTxs]
    /\ current \in [Instances -> PendingTxs \cup {NoOne}]
    /\ txState \in [PendingTxs -> {"PENDING", "COMPLETED", "FAILED"}]
    /\ ranOut \in BOOLEAN

(* At most one instance runs the job, and at most one works on any         *)
(* transaction, as long as no lock expired under its holder, whatever      *)
(* stops, throws or starts again.                                          *)
OneRunUntilExpiry ==
    ~ranOut => \A k \in {"job"} \cup PendingTxs : Cardinality(Working(k)) <= 1
============================================================================
