------------------------------ MODULE Executor ------------------------------
(***************************************************************************)
(* AsyncExecutor and Batcher (pkg/ago-util/utils/async_executor.go), the   *)
(* pool through which the controllers send their writes in parallel, and   *)
(* the callers that share it (batchReplicaOperate, BatchDoWorkerNodes).    *)
(*                                                                         *)
(* Every call has three goroutines.  The first waits for a ticket, runs    *)
(* the function, writes the command and gives the ticket back; the second  *)
(* waits for its end, for the caller's deadline or for Close, and then     *)
(* closes cmd.done; the third, of the Batcher, waits for cmd.done.  After  *)
(* a deadline the first one goes on, and writes to a command that its      *)
(* caller may be reading.                                                  *)
(***************************************************************************)
EXTENDS Integers, FiniteSets

CONSTANTS
  Max,       \* tickets of the pool
  Calls,     \* calls, numbered in the order their callers make them
  Batches,   \* callers
  BatchOf,   \* the caller of a call
  Deadline,  \* the callers whose context has a deadline
  Workloads  \* [calls, kind, closes]: the calls that are made; of each call,
             \* the flags try and queue of gofunc, whether the parameters fit
             \* the function and whether the function never returns; and
             \* whether the pool may be closed

Kinds == [try : BOOLEAN, queue : BOOLEAN, fits : BOOLEAN, hangs : BOOLEAN]

ASSUME ExecutorAssumption ==
  /\ Max \in Nat
  /\ Calls \subseteq Nat /\ IsFiniteSet(Calls)
  /\ BatchOf \in [Calls -> Batches]
  /\ Deadline \subseteq Batches
  /\ Workloads \subseteq [calls : SUBSET Calls, kind : [Calls -> Kinds], closes : BOOLEAN]

VARIABLES
  tickets,   \* len(Tickets)
  stoped,    \* Close was called
  expired,   \* the callers whose ctx.Done is closed
  work,      \* the workload
  todo,      \* the calls not yet asked for
  run,       \* where the call's first goroutine is
  watch,     \* where its second goroutine is
  joined,    \* the calls the WaitGroup of their Batcher counts
  finished,  \* the calls whose buffered channel finished holds a value
  results,   \* the calls whose Results are set
  FuncError,
  ExecutorError,
  answer     \* for a caller that has returned, its calls counted as successes

cmd == <<results, FuncError, ExecutorError>>
vars == <<tickets, stoped, expired, work, todo, run, watch, joined, finished,
          results, FuncError, ExecutorError, answer>>

None == [returned |-> FALSE]

Running == {"runs", "wrote", "reported"}
RunStates == {"none", "ticket", "finish", "ended"} \cup Running
WatchStates == {"none", "select", "closed"}
FuncErrors == {"nil", "failed"}
ExecutorErrors == {"nil", "ErrTimeout", "ErrExeTimeout", "ErrStoped", "params"}

Kind(c) == work.kind[c]
Late(c) == BatchOf[c] \in expired

\* Every variable has its type.
TypeOK ==
  /\ tickets \in 0 .. Max
  /\ stoped \in BOOLEAN
  /\ expired \subseteq Deadline
  /\ work \in Workloads
  /\ todo \subseteq Calls
  /\ run \in [Calls -> RunStates]
  /\ watch \in [Calls -> WatchStates]
  /\ joined \subseteq Calls
  /\ finished \subseteq Calls
  /\ results \subseteq Calls
  /\ FuncError \in [Calls -> FuncErrors]
  /\ ExecutorError \in [Calls -> ExecutorErrors]
  /\ answer \in [Batches -> {None} \cup [returned : {TRUE}, counted : SUBSET Calls]]

Init ==
  /\ tickets = Max /\ stoped = FALSE /\ expired = {}
  /\ work \in Workloads
  /\ todo = work.calls
  /\ run = [c \in Calls |-> "none"] /\ watch = [c \in Calls |-> "none"]
  /\ joined = {} /\ finished = {} /\ results = {}
  /\ FuncError = [c \in Calls |-> "nil"]
  /\ ExecutorError = [c \in Calls |-> "nil"]
  /\ answer = [b \in Batches |-> None]

---------------------------------------------------------------------------
(* The caller *)

\* Mutant: the Batcher's own goroutine adds to the WaitGroup.
JoinLater(c) == joined

\* Batcher.Go adds the call before it is started; Queue has no Batcher.
Join(c) == IF Kind(c).queue THEN joined ELSE joined \cup {c}

Of(b) == {c \in Calls : BatchOf[c] = b}

\* The caller's loop reaches the call.
Reached(c) == c \in todo /\ \A d \in todo \cap Of(BatchOf[c]) : c <= d

\* gofunc without flags: the goroutines are started and get the ticket later.
Go(c) ==
  /\ Reached(c)
  /\ ~ Kind(c).try /\ ~ Kind(c).queue
  /\ todo' = todo \ {c}
  /\ joined' = Join(c)
  /\ run' = [run EXCEPT ![c] = "ticket"]
  /\ watch' = [watch EXCEPT ![c] = "select"]
  /\ UNCHANGED <<tickets, stoped, expired, work, finished, cmd, answer>>

\* With try or queue the caller itself takes the ticket first.
GoWithTicket(c) ==
  /\ Reached(c)
  /\ Kind(c).try \/ Kind(c).queue
  /\ tickets > 0
  /\ tickets' = tickets - 1
  /\ todo' = todo \ {c}
  /\ joined' = Join(c)
  /\ run' = [run EXCEPT ![c] = "runs"]
  /\ watch' = [watch EXCEPT ![c] = "select"]
  /\ UNCHANGED <<stoped, expired, work, finished, cmd, answer>>

\* TryGetTicket: no ticket right now, or the context or the pool is done; the
\* call is not started and its caller goes on without it.
GoRefused(c) ==
  /\ Reached(c)
  /\ Kind(c).try \/ Kind(c).queue
  /\ stoped \/ IF Kind(c).try THEN tickets = 0 ELSE Late(c)
  /\ todo' = todo \ {c}
  /\ UNCHANGED <<tickets, stoped, expired, work, run, watch, joined, finished,
                 cmd, answer>>

\* The commands a caller has: not those refused, nor those of Queue.
Commands(b) == {c \in Of(b) : run[c] # "none" /\ ~ Kind(c).queue}

\* Wait, the loop over the commands (collectBatcherCommandResult), and the
\* deferred cancel.  A command without FuncError counts as a success.
Collect(b) ==
  /\ ~ answer[b].returned
  /\ todo \cap Of(b) = {} /\ joined \cap Of(b) = {}
  /\ answer' = [answer EXCEPT ![b] =
                  [returned |-> TRUE, counted |-> {c \in Commands(b) : FuncError[c] = "nil"}]]
  /\ expired' = expired \cup ({b} \cap Deadline)
  /\ UNCHANGED <<tickets, stoped, work, todo, run, watch, joined, finished, cmd>>

Expire(b) ==
  /\ b \in Deadline \ expired
  /\ expired' = expired \cup {b}
  /\ UNCHANGED <<tickets, stoped, work, todo, run, watch, joined, finished, cmd,
                 answer>>

Close ==
  /\ work.closes /\ ~ stoped
  /\ stoped' = TRUE
  /\ UNCHANGED <<tickets, expired, work, todo, run, watch, joined, finished, cmd,
                 answer>>

---------------------------------------------------------------------------
(* The goroutine that runs the function *)

\* Mutant: a command is cleared before its function runs.
ClearError(c) == [ExecutorError EXCEPT ![c] = "nil"]

\* Taking a ticket leaves the command alone.
KeepError(c) == ExecutorError

GetTicket(c) ==
  /\ run[c] = "ticket" /\ tickets > 0
  /\ tickets' = tickets - 1
  /\ run' = [run EXCEPT ![c] = "runs"]
  /\ ExecutorError' = KeepError(c)
  /\ UNCHANGED <<stoped, expired, work, todo, watch, joined, finished, results,
                 FuncError, answer>>

GiveUp(c, err) ==
  /\ run[c] = "ticket"
  /\ run' = [run EXCEPT ![c] = "finish"]
  /\ ExecutorError' = [ExecutorError EXCEPT ![c] = err]
  /\ UNCHANGED <<tickets, stoped, expired, work, todo, watch, joined, finished,
                 results, FuncError, answer>>

NoTicket(c) == \/ Late(c) /\ GiveUp(c, "ErrTimeout")
               \/ stoped /\ GiveUp(c, "ErrStoped")

\* The function returns: Results, and FuncError from the last of them.
Returns(c) ==
  /\ run[c] = "runs" /\ Kind(c).fits /\ ~ Kind(c).hangs
  /\ run' = [run EXCEPT ![c] = "wrote"]
  /\ results' = results \cup {c}
  /\ \E e \in FuncErrors : FuncError' = [FuncError EXCEPT ![c] = e]
  /\ UNCHANGED <<tickets, stoped, expired, work, todo, watch, joined, finished,
                 ExecutorError, answer>>

\* ExecutorError = runErr, whatever the second goroutine wrote meanwhile.
Report(c) ==
  /\ run[c] = "wrote"
  /\ run' = [run EXCEPT ![c] = "reported"]
  /\ ExecutorError' = [ExecutorError EXCEPT ![c] = "nil"]
  /\ UNCHANGED <<tickets, stoped, expired, work, todo, watch, joined, finished,
                 results, FuncError, answer>>

\* CreateRunFunc: the number of parameters does not fit the function.
BadParams(c) ==
  /\ run[c] = "runs" /\ ~ Kind(c).fits
  /\ run' = [run EXCEPT ![c] = "reported"]
  /\ ExecutorError' = [ExecutorError EXCEPT ![c] = "params"]
  /\ UNCHANGED <<tickets, stoped, expired, work, todo, watch, joined, finished,
                 results, FuncError, answer>>

\* Mutant: the second goroutine returns the ticket as well.
ReturnTwice(c) == tickets + 2

\* Mutant: a call whose caller has given up does not return its ticket.
ReturnInTime(c) == IF Late(c) THEN tickets ELSE tickets + 1

ReturnedTickets(c) == tickets + 1

Return(c) ==
  /\ run[c] = "reported" /\ tickets < Max
  /\ tickets' = ReturnedTickets(c)
  /\ run' = [run EXCEPT ![c] = "finish"]
  /\ UNCHANGED <<stoped, expired, work, todo, watch, joined, finished, cmd, answer>>

\* Mutant: the channel finished has no buffer.
Unbuffered(c) == watch[c] = "select"

CanSend(c) == c \notin finished

Finish(c) ==
  /\ run[c] = "finish" /\ CanSend(c)
  /\ run' = [run EXCEPT ![c] = "ended"]
  /\ finished' = finished \cup {c}
  /\ UNCHANGED <<tickets, stoped, expired, work, todo, watch, joined, cmd, answer>>

---------------------------------------------------------------------------
(* The goroutines that wait *)

Closes(c) ==
  /\ watch[c] = "select"
  /\ watch' = [watch EXCEPT ![c] = "closed"]
  /\ UNCHANGED <<tickets, stoped, expired, work, todo, run, joined, results,
                 FuncError, answer>>

SeesEnd(c) ==
  /\ c \in finished
  /\ Closes(c)
  /\ finished' = finished \ {c}
  /\ ExecutorError' = ExecutorError

\* Mutant: the context is not looked at.
NeverOverdue(c) == FALSE

Overdue(c) == Late(c)

GivesUpWaiting(c, err) ==
  /\ Closes(c)
  /\ ExecutorError' = [ExecutorError EXCEPT ![c] = err]
  /\ finished' = finished

SeesNoEnd(c) == \/ stoped /\ GivesUpWaiting(c, "ErrStoped")
                \/ Overdue(c) /\ GivesUpWaiting(c, "ErrExeTimeout")

\* The Batcher's goroutine: cmd.done is closed, wg.Done.
Leave(c) ==
  /\ c \in joined /\ watch[c] = "closed"
  /\ joined' = joined \ {c}
  /\ UNCHANGED <<tickets, stoped, expired, work, todo, run, watch, finished, cmd,
                 answer>>
---------------------------------------------------------------------------
Next ==
  \/ Close
  \/ \E b \in Batches : Expire(b) \/ Collect(b)
  \/ \E c \in Calls : \/ Go(c) \/ GoWithTicket(c) \/ GoRefused(c)
                      \/ GetTicket(c) \/ NoTicket(c) \/ Returns(c) \/ BadParams(c)
                      \/ Report(c) \/ Return(c) \/ Finish(c)
                      \/ SeesEnd(c) \/ SeesNoEnd(c) \/ Leave(c)

\* A goroutine that can go on does, a function that does not hang returns,
\* and a deadline passes.
Fairness ==
  /\ \A b \in Batches : WF_vars(Expire(b)) /\ WF_vars(Collect(b))
  /\ \A c \in Calls :
       /\ WF_vars(Go(c) \/ GoWithTicket(c) \/ GoRefused(c))
       /\ WF_vars(GetTicket(c) \/ NoTicket(c)) /\ WF_vars(Returns(c) \/ BadParams(c))
       /\ WF_vars(Report(c)) /\ WF_vars(Return(c)) /\ WF_vars(Finish(c))
       /\ WF_vars(SeesEnd(c) \/ SeesNoEnd(c)) /\ WF_vars(Leave(c))

Spec == Init /\ [][Next]_vars /\ Fairness

---------------------------------------------------------------------------
(* Properties *)

\* The calls that hold a ticket.
Holders == {c \in Calls : run[c] \in Running}

\* However calls time out, fail, are refused or outlive their caller, every
\* ticket is in the pool or with one call: the pool never shrinks, and never
\* more than Max functions run at once.
TicketsConserved == tickets + Cardinality(Holders) = Max

\* What a caller that returns by itself relies on: if neither its deadline nor
\* Close came first, each of its calls has run to its end, its result is in
\* the command, and the calls counted as successes are those that returned no
\* error.  (After a deadline collectBatcherCommandResult counts the calls that
\* never ran as successes.)
AnswersInTime ==
  [][\A b \in Batches :
       answer[b] # answer'[b] /\ b \notin expired /\ ~ stoped
         => \A c \in Commands(b) :
              /\ run[c] = "ended"
              /\ c \in results \/ ExecutorError[c] = "params"
              /\ c \in answer'[b].counted <=> FuncError[c] = "nil"]_vars

\* Health checks are counted, and publisher and proxy writes are judged, by
\* ExecutorError: also when the function races with the deadline, a command
\* that is done and has no ExecutorError has the results of its function.
NilMeansResults ==
  \A c \in Calls : watch[c] = "closed" /\ ExecutorError[c] = "nil" => c \in results

\* A caller with a deadline returns whatever its own functions and those of
\* the others in the pool do, and without hanging functions every caller does.
Sheltered(b) == b \in Deadline \/ \A c \in work.calls : ~ Kind(c).hangs
BatchReturns == \A b \in Batches : Sheltered(b) ~> answer[b].returned

\* No goroutine is left behind by a call whose function returns, also if its
\* caller has long gone.
NoLeaks ==
  \A c \in Calls : <>[](~ Kind(c).hangs /\ Sheltered(BatchOf[c]) =>
                        run[c] \in {"none", "ended"} /\ watch[c] # "select")
=============================================================================
