--------------------------- MODULE SqlTransaction ---------------------------
(***************************************************************************)
(* A MySQLConnection that executes transactions one after the other, as a  *)
(* DatabaseWorker or DirectCommitTransaction does, and the server's side   *)
(* of that connection. A step is one command sent to the server, with      *)
(* everything _HandleMySQLErrno does about its answer.                     *)
(***************************************************************************)
EXTENDS Integers, Sequences

CONSTANTS
    Size,           \* queries in a transaction
    Tasks,          \* transactions executed
    loopBreaker,    \* repetitions after a deadlock, 5 in the code
    Losses,         \* bound on connections lost
    Deadlocks       \* bound on deadlocks

ASSUME TransactionAssumption ==
    /\ Size \in Nat \ {0}
    /\ Tasks \in Nat /\ loopBreaker \in Nat
    /\ Losses \in Nat /\ Deadlocks \in Nat

VARIABLES
    pc,             \* the command to send next, or "idle"
    task,           \* the transaction executed last
    query,          \* its next query
    repetition,     \* 0 at first, then the iterations of the loop for error 1213
    m_Mysql,        \* is there a handle?
    errno,          \* mysql_errno of the handle
    result,         \* what TransactionTask::Execute returned for the last task
    inTransaction, pending,     \* the server: the open transaction of the session
    committed,      \* the server: queries that took effect, as <<task, query>>
    lost,           \* the tasks that lost their connection, one entry for each loss
    deadlocked      \* deadlocks so far

control == <<task, repetition>>
server == <<inTransaction, pending, committed>>
taskVars == <<pc, control, query, m_Mysql, errno, result, server, lost, deadlocked>>

TaskInit ==
    /\ pc = "idle"
    /\ task = 0 /\ query = 1 /\ repetition = 0
    /\ m_Mysql = TRUE
    /\ errno = 0
    /\ result = TRUE
    /\ inTransaction = FALSE /\ pending = <<>>
    /\ committed = <<>>
    /\ lost = <<>> /\ deadlocked = 0

-----------------------------------------------------------------------------
(* The server *)

\* A command takes effect. START TRANSACTION commits a transaction left open.
Effect(command) ==
    \/ /\ command = "begin"
       /\ committed' = committed \o pending
       /\ pending' = <<>> /\ inTransaction' = TRUE
    \/ /\ command = "query" /\ inTransaction
       /\ pending' = Append(pending, <<task, query>>)
       /\ UNCHANGED <<committed, inTransaction>>
    \/ /\ command = "query" /\ ~inTransaction
       /\ committed' = Append(committed, <<task, query>>)
       /\ UNCHANGED <<pending, inTransaction>>
    \/ /\ command = "commit"
       /\ committed' = committed \o pending
       /\ pending' = <<>> /\ inTransaction' = FALSE
    \/ /\ command = "rollback"
       /\ pending' = <<>> /\ inTransaction' = FALSE
       /\ UNCHANGED committed

\* The session ends and its open transaction with it. A command under way may
\* have taken effect: a query outside of a transaction, or a commit.
SessionLost(command) ==
    /\ \/ UNCHANGED committed
       \/ command = "query" /\ ~inTransaction /\ committed' = Append(committed, <<task, query>>)
       \/ command = "commit" /\ committed' = committed \o pending
    /\ pending' = <<>> /\ inTransaction' = FALSE

-----------------------------------------------------------------------------
(* MySQLConnection::Execute *)

\* No handle: false without an attempt to connect.
NoHandle(ifFalse) ==
    /\ ~m_Mysql
    /\ pc' = ifFalse
    /\ UNCHANGED <<m_Mysql, errno, server, lost, deadlocked>>

Success(command, ifTrue) ==
    /\ m_Mysql
    /\ Effect(command)
    /\ errno' = 0
    /\ pc' = ifTrue
    /\ UNCHANGED <<m_Mysql, lost, deadlocked>>

\* 1062 and the like: the query is skipped.
QueryError(command, ifFalse) ==
    /\ m_Mysql /\ command = "query"
    /\ errno' = 1062
    /\ pc' = ifFalse
    /\ UNCHANGED <<m_Mysql, server, lost, deadlocked>>

\* 1213: the server rolls the transaction back.
Deadlock(command, ifFalse) ==
    /\ m_Mysql /\ command = "query" /\ inTransaction
    /\ deadlocked < Deadlocks /\ deadlocked' = deadlocked + 1
    /\ errno' = 1213
    /\ pending' = <<>> /\ inTransaction' = FALSE
    /\ pc' = ifFalse
    /\ UNCHANGED <<m_Mysql, committed, lost>>

\* 2006, 2013: Open() connects again and the command is repeated.
Reconnected(command) ==
    /\ m_Mysql
    /\ Len(lost) < Losses /\ lost' = Append(lost, task)
    /\ SessionLost(command)
    /\ errno' = 0
    /\ UNCHANGED <<pc, m_Mysql, deadlocked>>

\* Open() fails: the handle is NULL, and mysql_errno(NULL) is no such error.
ConnectionGone(command, ifFalse) ==
    /\ m_Mysql
    /\ Len(lost) < Losses /\ lost' = Append(lost, task)
    /\ SessionLost(command)
    /\ m_Mysql' = FALSE
    /\ errno' = 0
    /\ pc' = ifFalse
    /\ UNCHANGED deadlocked

\* The answers to a command, and where the caller goes on for true and false.
\* Each command clears mysql_errno before it is sent.
Execute(command, ifTrue, ifFalse) ==
    \/ NoHandle(ifFalse)
    \/ Success(command, ifTrue)
    \/ QueryError(command, ifFalse)
    \/ Deadlock(command, ifFalse)
    \/ Reconnected(command)
    \/ ConnectionGone(command, ifFalse)

-----------------------------------------------------------------------------
(* ExecuteTransaction and TransactionTask::Execute *)

CommitTransactionTask ==
    /\ pc = "idle" /\ task < Tasks
    /\ task' = task + 1
    /\ repetition' = 0
    /\ pc' = "begin"
    /\ UNCHANGED <<query, m_Mysql, errno, result, server, lost, deadlocked>>

\* What Execute returns for START TRANSACTION is not looked at.
BeginTransaction ==
    /\ pc = "begin"
    /\ Execute("begin", "query", "query")
    /\ query' = 1
    /\ UNCHANGED <<control, result>>

\* A query of the transaction; it is the next one when it is repeated on a new
\* connection too.
ExecuteQuery ==
    /\ pc = "query"
    /\ Execute("query", IF query < Size THEN "query" ELSE "commit", "rollback")
    /\ query' = IF pc' = "query" /\ lost' = lost THEN query + 1 ELSE query
    /\ UNCHANGED <<control, result>>

\* Defect: the queries executed so far are kept.
RollbackTransaction_commit ==
    /\ pc = "rollback"
    /\ Execute("commit", "failed", "failed")
    /\ UNCHANGED <<control, query, result>>

\* Defect: the transaction is left to the next one.
RollbackTransaction_left ==
    /\ pc = "rollback"
    /\ pc' = "failed"
    /\ UNCHANGED <<control, query, m_Mysql, errno, result, server, lost, deadlocked>>

RollbackTransaction ==
    /\ pc = "rollback"
    /\ Execute("rollback", "failed", "failed")
    /\ UNCHANGED <<control, query, result>>

\* ExecuteTransaction returns true whatever COMMIT returned.
CommitTransaction ==
    /\ pc = "commit"
    /\ Execute("commit", "idle", "idle")
    /\ result' = IF pc' = "idle" THEN TRUE ELSE result
    /\ UNCHANGED <<control, query>>

\* After the first failure errno decides; in the loop only the count does.
ExecuteTransactionFailed ==
    /\ pc = "failed"
    /\ IF \/ repetition = 0 /\ errno = 1213 /\ loopBreaker > 0
          \/ repetition \in 1..(loopBreaker - 1)
       THEN pc' = "begin" /\ repetition' = repetition + 1 /\ UNCHANGED result
       ELSE pc' = "idle" /\ result' = FALSE /\ UNCHANGED repetition
    /\ UNCHANGED <<task, query, m_Mysql, errno, server, lost, deadlocked>>

\* A PingOperation between two tasks: mysql_ping follows the handle.
Ping ==
    /\ pc = "idle"
    /\ pc' = IF m_Mysql THEN "idle" ELSE "crashed"
    /\ UNCHANGED <<control, query, m_Mysql, errno, result, server, lost, deadlocked>>

-----------------------------------------------------------------------------
TaskStep ==
    \/ BeginTransaction \/ ExecuteQuery \/ RollbackTransaction
    \/ CommitTransaction \/ ExecuteTransactionFailed

TaskNext == CommitTransactionTask \/ TaskStep \/ Ping

TaskSpec == TaskInit /\ [][TaskNext]_taskVars

-----------------------------------------------------------------------------
TaskTypeOK ==
    /\ pc \in {"idle", "begin", "query", "rollback", "commit", "failed", "crashed"}
    /\ task \in 0..Tasks /\ query \in 1..Size /\ repetition \in 0..loopBreaker
    /\ m_Mysql \in BOOLEAN /\ inTransaction \in BOOLEAN /\ result \in BOOLEAN
    /\ errno \in {0, 1062, 1213}
    /\ pending \in Seq((1..Tasks) \X (1..Size))
    /\ committed \in Seq((1..Tasks) \X (1..Size))
    /\ lost \in Seq(1..Tasks) /\ Len(lost) <= Losses
    /\ deadlocked \in 0..Deadlocks

\* The places of the queries of task t among those that took effect.
Positions(t) == {k \in 1..Len(committed) : committed[k][1] = t}

Nothing(t) == Positions(t) = {}

\* Each query of t took effect once, in the order they were appended, and no
\* other query between them.
Whole(t) ==
    \E n \in 0..Len(committed) :
        Positions(t) = (n + 1)..(n + Size) /\ \A k \in 1..Size : committed[n + k] = <<t, k>>

Finished == IF pc \in {"idle", "crashed"} THEN 1..task ELSE 1..(task - 1)

\* A transaction takes effect as a whole, once and in the order its queries
\* were appended, or not at all (DatabaseWorkerPool.h:324, 330-331).
AllOrNothing == \A t \in Finished : Nothing(t) \/ Whole(t)

Undisturbed(t) == \A k \in 1..Len(lost) : lost[k] # t

\* A lost connection harms at most the task that was using it: every other one,
\* before or after it on the same MySQLConnection, takes effect as a whole or
\* not at all, whatever queries failed or met deadlocks.
LossIsConfined == \A t \in Finished : Undisturbed(t) => Nothing(t) \/ Whole(t)

\* What is reported as done is durable, and what is reported as failed is not,
\* unless the connection was lost: no task leaves anything behind in the session
\* for the next one to commit (MySQLConnection.cpp:348-397).
ResultIsTrue ==
    (pc = "idle" /\ task > 0 /\ Undisturbed(task)) =>
        /\ result => Whole(task)
        /\ ~result => Nothing(task) /\ pending = <<>> /\ ~inTransaction

=============================================================================
