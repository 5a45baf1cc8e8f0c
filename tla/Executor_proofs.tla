--------------------------- MODULE Executor_proofs ---------------------------
(***************************************************************************)
(* The safety properties of Executor, for any number of tickets, calls and *)
(* callers and any workload.                                               *)
(***************************************************************************)
EXTENDS Executor, FiniteSetTheorems, TLAPS

\* In time: neither the caller's deadline nor Close has come.
InTime(c) == ~ Late(c) /\ ~ stoped

\* The inductive invariant.  A call not counted by the WaitGroup is either not
\* started, queued, or done; done in time means ended; and a function that is
\* over has left its trace in the command.
Bookkeeping ==
  \A c \in Calls :
    /\ c \in todo => run[c] = "none"
    /\ run[c] # "none" /\ ~ Kind(c).queue /\ c \notin joined => watch[c] = "closed"
    /\ c \in finished => run[c] = "ended"
    /\ watch[c] = "closed" /\ InTime(c) => run[c] = "ended"

Traces ==
  \A c \in Calls :
    /\ run[c] = "wrote" => c \in results
    /\ run[c] \in {"reported", "finish", "ended"} => c \in results \/ ExecutorError[c] # "nil"
    /\ run[c] \in {"reported", "finish", "ended"} /\ InTime(c)
         => c \in results \/ ExecutorError[c] = "params"

IInv == TypeOK /\ TicketsConserved /\ Bookkeeping /\ Traces /\ NilMeansResults

USE DEF RunStates, Running, WatchStates, FuncErrors, ExecutorErrors

\* The tickets and their holders change together or not at all.
LEMMA HoldersFinite ==
  ASSUME TypeOK
  PROVE  IsFiniteSet(Holders) /\ Cardinality(Holders) \in Nat
<1>1. Holders \subseteq Calls  BY Zenon DEF Holders
<1>2. QED  BY Zenon, <1>1, ExecutorAssumption, FS_Subset, FS_CardinalityType

\* GoWithTicket, GetTicket: a call that takes a ticket becomes a holder.
LEMMA TakesTicket ==
  ASSUME TypeOK, TicketsConserved, NEW c \in Calls, run[c] \notin Running,
         run' = [run EXCEPT ![c] = "runs"], tickets' = tickets - 1
  PROVE  TicketsConserved'
<1>1. Holders' = Holders \cup {c}  BY Zenon DEF Holders, TypeOK
<1>2. c \notin Holders  BY Zenon DEF Holders
<1>3. Cardinality(Holders') = Cardinality(Holders) + 1
  BY Zenon, <1>1, <1>2, HoldersFinite, FS_AddElement
<1>4. tickets \in Int /\ Max \in Int  BY ExecutorAssumption DEF TypeOK
<1>5. QED  BY <1>3, <1>4, HoldersFinite DEF TicketsConserved

\* Return: a holder gives its ticket back.
LEMMA GivesTicketBack ==
  ASSUME TypeOK, TicketsConserved, NEW c \in Calls, run[c] = "reported",
         run' = [run EXCEPT ![c] = "finish"], tickets' = tickets + 1
  PROVE  TicketsConserved'
<1>1. Holders' = Holders \ {c}  BY Zenon DEF Holders, TypeOK
<1>2. c \in Holders  BY Zenon DEF Holders
<1>3. Cardinality(Holders') = Cardinality(Holders) - 1
  BY Zenon, <1>1, <1>2, HoldersFinite, FS_RemoveElement
<1>4. tickets \in Int /\ Max \in Int  BY ExecutorAssumption DEF TypeOK
<1>5. QED  BY <1>3, <1>4, HoldersFinite DEF TicketsConserved

\* Every other step leaves both alone.
LEMMA TicketsAlone ==
  ASSUME TicketsConserved, Holders' = Holders, tickets' = tickets
  PROVE  TicketsConserved'
BY Zenon DEF TicketsConserved

\* A new pool, before any call: all tickets are in it, no command exists.
LEMMA InitIInv == Init => IInv
<1> SUFFICES ASSUME Init PROVE IInv  BY Zenon
<1>1. TypeOK
  <2>1. todo \subseteq Calls
    BY Zenon, ExecutorAssumption DEF Init
  <2>2. tickets \in 0 .. Max  BY ExecutorAssumption DEF Init
  <2>3. QED  BY Zenon, <2>1, <2>2 DEF Init, TypeOK
<1>2. TicketsConserved
  <2>1. Holders = {}  BY Zenon DEF Init, Holders
  <2>2. QED  BY <2>1, FS_EmptySet, ExecutorAssumption DEF Init, TicketsConserved
<1>3. Bookkeeping  BY Zenon DEF Init, Bookkeeping, InTime
<1>4. Traces  BY Zenon DEF Init, Traces
<1>5. NilMeansResults  BY Zenon DEF Init, NilMeansResults
<1>6. QED  BY Zenon, <1>1, <1>2, <1>3, <1>4, <1>5 DEF IInv

\* Type correctness: every step keeps the types.
LEMMA StepType ==
  ASSUME TypeOK, [Next]_vars
  PROVE  TypeOK'
<1>1. CASE Close
  BY Zenon, <1>1 DEF Close, cmd, TypeOK
<1>2. ASSUME NEW b \in Batches, Expire(b)
      PROVE  TypeOK'
  BY Zenon, <1>2 DEF Expire, cmd, TypeOK
<1>3. ASSUME NEW b \in Batches, Collect(b)
      PROVE  TypeOK'
  <2> DEFINE C == {c \in Commands(b) : FuncError[c] = "nil"}
  <2>1. C \subseteq Calls  BY Zenon DEF Commands, Of
  <2>2. answer' = [answer EXCEPT ![b] = [returned |-> TRUE, counted |-> C]]
    BY Zenon, <1>3 DEF Collect
  <2> HIDE DEF C
  <2>3. answer' \in [Batches -> {None} \cup [returned : {TRUE}, counted : SUBSET Calls]]
    BY Zenon, <2>1, <2>2 DEF TypeOK
  <2>4. expired' \subseteq Deadline  BY Zenon, <1>3 DEF Collect, TypeOK
  <2>5. QED  BY Zenon, <1>3, <2>3, <2>4 DEF Collect, cmd, TypeOK
<1>4. ASSUME NEW c \in Calls, Go(c)
      PROVE  TypeOK'
  BY Zenon, <1>4 DEF Go, Join, Reached, cmd, TypeOK
<1>5. ASSUME NEW c \in Calls, GoWithTicket(c)
      PROVE  TypeOK'
  <2>1. tickets' \in 0 .. Max
    BY <1>5, ExecutorAssumption DEF GoWithTicket, TypeOK
  <2>2. QED  BY Zenon, <1>5, <2>1 DEF GoWithTicket, Join, Reached, cmd, TypeOK
<1>6. ASSUME NEW c \in Calls, GoRefused(c)
      PROVE  TypeOK'
  BY Zenon, <1>6 DEF GoRefused, Reached, cmd, TypeOK
<1>7. ASSUME NEW c \in Calls, GetTicket(c)
      PROVE  TypeOK'
  <2>1. tickets' \in 0 .. Max
    BY <1>7, ExecutorAssumption DEF GetTicket, TypeOK
  <2>2. QED  BY Zenon, <1>7, <2>1 DEF GetTicket, KeepError, cmd, TypeOK
<1>8. ASSUME NEW c \in Calls, NoTicket(c)
      PROVE  TypeOK'
  <2>1. PICK e \in ExecutorErrors : GiveUp(c, e)  BY Zenon, <1>8 DEF NoTicket
  <2>2. ExecutorError' \in [Calls -> ExecutorErrors]
    <3> HIDE DEF ExecutorErrors
    <3> QED  BY Zenon, <2>1 DEF GiveUp, TypeOK
  <2>3. QED  BY Zenon, <2>1, <2>2 DEF GiveUp, TypeOK
<1>9. ASSUME NEW c \in Calls, Returns(c)
      PROVE  TypeOK'
  BY Zenon, <1>9 DEF Returns, cmd, TypeOK
<1>10. ASSUME NEW c \in Calls, BadParams(c)
      PROVE  TypeOK'
  BY Zenon, <1>10 DEF BadParams, cmd, TypeOK
<1>11. ASSUME NEW c \in Calls, Report(c)
      PROVE  TypeOK'
  BY Zenon, <1>11 DEF Report, cmd, TypeOK
<1>12. ASSUME NEW c \in Calls, Return(c)
      PROVE  TypeOK'
  <2>1. tickets' \in 0 .. Max
    BY <1>12, ExecutorAssumption DEF Return, ReturnedTickets, TypeOK
  <2>2. QED  BY Zenon, <1>12, <2>1 DEF Return, cmd, TypeOK
<1>13. ASSUME NEW c \in Calls, Finish(c)
      PROVE  TypeOK'
  BY Zenon, <1>13 DEF Finish, CanSend, cmd, TypeOK
<1>14. ASSUME NEW c \in Calls, SeesEnd(c)
      PROVE  TypeOK'
  BY Zenon, <1>14 DEF SeesEnd, Closes, cmd, TypeOK
<1>15. ASSUME NEW c \in Calls, SeesNoEnd(c)
      PROVE  TypeOK'
  <2>1. PICK e \in ExecutorErrors : GivesUpWaiting(c, e)  BY Zenon, <1>15 DEF SeesNoEnd
  <2>2. ExecutorError' \in [Calls -> ExecutorErrors]
    <3> HIDE DEF ExecutorErrors
    <3> QED  BY Zenon, <2>1 DEF GivesUpWaiting, TypeOK
  <2>3. QED  BY Zenon, <2>1, <2>2 DEF GivesUpWaiting, Closes, TypeOK
<1>16. ASSUME NEW c \in Calls, Leave(c)
      PROVE  TypeOK'
  BY Zenon, <1>16 DEF Leave, cmd, TypeOK
<1>17. CASE UNCHANGED vars
  BY Zenon, <1>17 DEF vars, TypeOK
<1>18. QED
  BY Zenon, <1>1, <1>2, <1>3, <1>4, <1>5, <1>6, <1>7, <1>8, <1>9, <1>10, <1>11, <1>12, <1>13, <1>14, <1>15, <1>16, <1>17 DEF Next

\* Every step keeps the books: the WaitGroup, the channel and the states of the
\* goroutines agree.
LEMMA StepBookkeeping ==
  ASSUME TypeOK, Bookkeeping, [Next]_vars
  PROVE  Bookkeeping'
<1>1. CASE Close
  BY Zenon, <1>1 DEF Close, cmd, TypeOK, Bookkeeping, InTime, Late, Kind
<1>2. ASSUME NEW b \in Batches, Expire(b)
      PROVE  Bookkeeping'
  BY Zenon, <1>2 DEF Expire, cmd, TypeOK, Bookkeeping, InTime, Late, Kind
<1>3. ASSUME NEW b \in Batches, Collect(b)
      PROVE  Bookkeeping'
  BY Zenon, <1>3 DEF Collect, cmd, TypeOK, Bookkeeping, InTime, Late, Kind
<1>4. ASSUME NEW c \in Calls, Go(c)
      PROVE  Bookkeeping'
  BY Zenon, <1>4 DEF Go, Join, Reached, cmd, TypeOK, Bookkeeping, InTime, Late, Kind
<1>5. ASSUME NEW c \in Calls, GoWithTicket(c)
      PROVE  Bookkeeping'
  BY Zenon, <1>5 DEF GoWithTicket, Join, Reached, cmd, TypeOK, Bookkeeping, InTime, Late, Kind
<1>6. ASSUME NEW c \in Calls, GoRefused(c)
      PROVE  Bookkeeping'
  BY Zenon, <1>6 DEF GoRefused, Reached, cmd, TypeOK, Bookkeeping, InTime, Late, Kind
<1>7. ASSUME NEW c \in Calls, GetTicket(c)
      PROVE  Bookkeeping'
  BY Zenon, <1>7 DEF GetTicket, KeepError, cmd, TypeOK, Bookkeeping, InTime, Late, Kind
<1>8. ASSUME NEW c \in Calls, NoTicket(c)
      PROVE  Bookkeeping'
  BY <1>8 DEF NoTicket, GiveUp, cmd, TypeOK, Bookkeeping, InTime, Late, Kind
<1>9. ASSUME NEW c \in Calls, Returns(c)
      PROVE  Bookkeeping'
  BY Zenon, <1>9 DEF Returns, cmd, TypeOK, Bookkeeping, InTime, Late, Kind
<1>10. ASSUME NEW c \in Calls, BadParams(c)
      PROVE  Bookkeeping'
  BY Zenon, <1>10 DEF BadParams, cmd, TypeOK, Bookkeeping, InTime, Late, Kind
<1>11. ASSUME NEW c \in Calls, Report(c)
      PROVE  Bookkeeping'
  BY Zenon, <1>11 DEF Report, cmd, TypeOK, Bookkeeping, InTime, Late, Kind
<1>12. ASSUME NEW c \in Calls, Return(c)
      PROVE  Bookkeeping'
  BY Zenon, <1>12 DEF Return, ReturnedTickets, cmd, TypeOK, Bookkeeping, InTime, Late, Kind
<1>13. ASSUME NEW c \in Calls, Finish(c)
      PROVE  Bookkeeping'
  BY Zenon, <1>13 DEF Finish, CanSend, cmd, TypeOK, Bookkeeping, InTime, Late, Kind
<1>14. ASSUME NEW c \in Calls, SeesEnd(c)
      PROVE  Bookkeeping'
  BY Zenon, <1>14 DEF SeesEnd, Closes, cmd, TypeOK, Bookkeeping, InTime, Late, Kind
<1>15. ASSUME NEW c \in Calls, SeesNoEnd(c)
      PROVE  Bookkeeping'
  BY <1>15 DEF SeesNoEnd, GivesUpWaiting, Closes, Overdue, cmd, TypeOK, Bookkeeping, InTime, Late, Kind
<1>16. ASSUME NEW c \in Calls, Leave(c)
      PROVE  Bookkeeping'
  BY Zenon, <1>16 DEF Leave, cmd, TypeOK, Bookkeeping, InTime, Late, Kind
<1>17. CASE UNCHANGED vars
  BY Zenon, <1>17 DEF vars, TypeOK, Bookkeeping, InTime, Late, Kind
<1>18. QED
  BY Zenon, <1>1, <1>2, <1>3, <1>4, <1>5, <1>6, <1>7, <1>8, <1>9, <1>10, <1>11, <1>12, <1>13, <1>14, <1>15, <1>16, <1>17 DEF Next

\* Every step keeps the traces of the functions that are over.
LEMMA StepTraces ==
  ASSUME TypeOK, Bookkeeping, Traces, [Next]_vars
  PROVE  Traces'
<1>1. CASE Close
  BY Zenon, <1>1 DEF Close, cmd, TypeOK, Bookkeeping, Traces, InTime, Late
<1>2. ASSUME NEW b \in Batches, Expire(b)
      PROVE  Traces'
  BY Zenon, <1>2 DEF Expire, cmd, TypeOK, Bookkeeping, Traces, InTime, Late
<1>3. ASSUME NEW b \in Batches, Collect(b)
      PROVE  Traces'
  BY Zenon, <1>3 DEF Collect, cmd, TypeOK, Bookkeeping, Traces, InTime, Late
<1>4. ASSUME NEW c \in Calls, Go(c)
      PROVE  Traces'
  BY Zenon, <1>4 DEF Go, Join, Reached, cmd, TypeOK, Bookkeeping, Traces, InTime, Late
<1>5. ASSUME NEW c \in Calls, GoWithTicket(c)
      PROVE  Traces'
  BY Zenon, <1>5 DEF GoWithTicket, Join, Reached, cmd, TypeOK, Bookkeeping, Traces, InTime, Late
<1>6. ASSUME NEW c \in Calls, GoRefused(c)
      PROVE  Traces'
  BY Zenon, <1>6 DEF GoRefused, Reached, cmd, TypeOK, Bookkeeping, Traces, InTime, Late
<1>7. ASSUME NEW c \in Calls, GetTicket(c)
      PROVE  Traces'
  BY Zenon, <1>7 DEF GetTicket, KeepError, cmd, TypeOK, Bookkeeping, Traces, InTime, Late
<1>8. ASSUME NEW c \in Calls, NoTicket(c)
      PROVE  Traces'
  BY <1>8 DEF NoTicket, GiveUp, cmd, TypeOK, Bookkeeping, Traces, InTime, Late
<1>9. ASSUME NEW c \in Calls, Returns(c)
      PROVE  Traces'
  BY Zenon, <1>9 DEF Returns, cmd, TypeOK, Bookkeeping, Traces, InTime, Late
<1>10. ASSUME NEW c \in Calls, BadParams(c)
      PROVE  Traces'
  BY Zenon, <1>10 DEF BadParams, cmd, TypeOK, Bookkeeping, Traces, InTime, Late
<1>11. ASSUME NEW c \in Calls, Report(c)
      PROVE  Traces'
  BY Zenon, <1>11 DEF Report, cmd, TypeOK, Bookkeeping, Traces, InTime, Late
<1>12. ASSUME NEW c \in Calls, Return(c)
      PROVE  Traces'
  BY Zenon, <1>12 DEF Return, ReturnedTickets, cmd, TypeOK, Bookkeeping, Traces, InTime, Late
<1>13. ASSUME NEW c \in Calls, Finish(c)
      PROVE  Traces'
  BY Zenon, <1>13 DEF Finish, CanSend, cmd, TypeOK, Bookkeeping, Traces, InTime, Late
<1>14. ASSUME NEW c \in Calls, SeesEnd(c)
      PROVE  Traces'
  BY Zenon, <1>14 DEF SeesEnd, Closes, cmd, TypeOK, Bookkeeping, Traces, InTime, Late
<1>15. ASSUME NEW c \in Calls, SeesNoEnd(c)
      PROVE  Traces'
  BY <1>15 DEF SeesNoEnd, GivesUpWaiting, Closes, Overdue, cmd, TypeOK, Bookkeeping, Traces, InTime, Late
<1>16. ASSUME NEW c \in Calls, Leave(c)
      PROVE  Traces'
  BY Zenon, <1>16 DEF Leave, cmd, TypeOK, Bookkeeping, Traces, InTime, Late
<1>17. CASE UNCHANGED vars
  BY Zenon, <1>17 DEF vars, TypeOK, Bookkeeping, Traces, InTime, Late
<1>18. QED
  BY Zenon, <1>1, <1>2, <1>3, <1>4, <1>5, <1>6, <1>7, <1>8, <1>9, <1>10, <1>11, <1>12, <1>13, <1>14, <1>15, <1>16, <1>17 DEF Next

\* Every step keeps NilMeansResults.
LEMMA StepNil ==
  ASSUME TypeOK, Bookkeeping, Traces, NilMeansResults, [Next]_vars
  PROVE  NilMeansResults'
<1>1. CASE Close
  BY Zenon, <1>1 DEF Close, cmd, TypeOK, Bookkeeping, Traces, NilMeansResults, Late
<1>2. ASSUME NEW b \in Batches, Expire(b)
      PROVE  NilMeansResults'
  BY Zenon, <1>2 DEF Expire, cmd, TypeOK, Bookkeeping, Traces, NilMeansResults, Late
<1>3. ASSUME NEW b \in Batches, Collect(b)
      PROVE  NilMeansResults'
  BY Zenon, <1>3 DEF Collect, cmd, TypeOK, Bookkeeping, Traces, NilMeansResults, Late
<1>4. ASSUME NEW c \in Calls, Go(c)
      PROVE  NilMeansResults'
  BY Zenon, <1>4 DEF Go, Join, Reached, cmd, TypeOK, Bookkeeping, Traces, NilMeansResults, Late
<1>5. ASSUME NEW c \in Calls, GoWithTicket(c)
      PROVE  NilMeansResults'
  BY Zenon, <1>5 DEF GoWithTicket, Join, Reached, cmd, TypeOK, Bookkeeping, Traces, NilMeansResults, Late
<1>6. ASSUME NEW c \in Calls, GoRefused(c)
      PROVE  NilMeansResults'
  BY Zenon, <1>6 DEF GoRefused, Reached, cmd, TypeOK, Bookkeeping, Traces, NilMeansResults, Late
<1>7. ASSUME NEW c \in Calls, GetTicket(c)
      PROVE  NilMeansResults'
  BY Zenon, <1>7 DEF GetTicket, KeepError, cmd, TypeOK, Bookkeeping, Traces, NilMeansResults, Late
<1>8. ASSUME NEW c \in Calls, NoTicket(c)
      PROVE  NilMeansResults'
  BY <1>8 DEF NoTicket, GiveUp, cmd, TypeOK, Bookkeeping, Traces, NilMeansResults, Late
<1>9. ASSUME NEW c \in Calls, Returns(c)
      PROVE  NilMeansResults'
  BY Zenon, <1>9 DEF Returns, cmd, TypeOK, Bookkeeping, Traces, NilMeansResults, Late
<1>10. ASSUME NEW c \in Calls, BadParams(c)
      PROVE  NilMeansResults'
  BY Zenon, <1>10 DEF BadParams, cmd, TypeOK, Bookkeeping, Traces, NilMeansResults, Late
<1>11. ASSUME NEW c \in Calls, Report(c)
      PROVE  NilMeansResults'
  BY Zenon, <1>11 DEF Report, cmd, TypeOK, Bookkeeping, Traces, NilMeansResults, Late
<1>12. ASSUME NEW c \in Calls, Return(c)
      PROVE  NilMeansResults'
  BY Zenon, <1>12 DEF Return, ReturnedTickets, cmd, TypeOK, Bookkeeping, Traces, NilMeansResults, Late
<1>13. ASSUME NEW c \in Calls, Finish(c)
      PROVE  NilMeansResults'
  BY Zenon, <1>13 DEF Finish, CanSend, cmd, TypeOK, Bookkeeping, Traces, NilMeansResults, Late
<1>14. ASSUME NEW c \in Calls, SeesEnd(c)
      PROVE  NilMeansResults'
  BY Zenon, <1>14 DEF SeesEnd, Closes, cmd, TypeOK, Bookkeeping, Traces, NilMeansResults, Late
<1>15. ASSUME NEW c \in Calls, SeesNoEnd(c)
      PROVE  NilMeansResults'
  BY <1>15 DEF SeesNoEnd, GivesUpWaiting, Closes, Overdue, cmd, TypeOK, Bookkeeping, Traces, NilMeansResults, Late
<1>16. ASSUME NEW c \in Calls, Leave(c)
      PROVE  NilMeansResults'
  BY Zenon, <1>16 DEF Leave, cmd, TypeOK, Bookkeeping, Traces, NilMeansResults, Late
<1>17. CASE UNCHANGED vars
  BY Zenon, <1>17 DEF vars, TypeOK, Bookkeeping, Traces, NilMeansResults, Late
<1>18. QED
  BY Zenon, <1>1, <1>2, <1>3, <1>4, <1>5, <1>6, <1>7, <1>8, <1>9, <1>10, <1>11, <1>12, <1>13, <1>14, <1>15, <1>16, <1>17 DEF Next

\* Every step conserves the tickets.
LEMMA StepTickets ==
  ASSUME TypeOK, Bookkeeping, TicketsConserved, [Next]_vars
  PROVE  TicketsConserved'
<1>1. CASE Close
  BY Zenon, <1>1, TicketsAlone DEF Close, cmd, TypeOK, Holders
<1>2. ASSUME NEW b \in Batches, Expire(b)
      PROVE  TicketsConserved'
  BY Zenon, <1>2, TicketsAlone DEF Expire, cmd, TypeOK, Holders
<1>3. ASSUME NEW b \in Batches, Collect(b)
      PROVE  TicketsConserved'
  BY Zenon, <1>3, TicketsAlone DEF Collect, cmd, TypeOK, Holders
<1>4. ASSUME NEW c \in Calls, Go(c)
      PROVE  TicketsConserved'
  BY Zenon, <1>4, TicketsAlone DEF Go, Reached, Bookkeeping, TypeOK, Holders
<1>5. ASSUME NEW c \in Calls, GoWithTicket(c)
      PROVE  TicketsConserved'
  BY Zenon, <1>5, TakesTicket DEF GoWithTicket, Join, Reached, Bookkeeping
<1>6. ASSUME NEW c \in Calls, GoRefused(c)
      PROVE  TicketsConserved'
  BY Zenon, <1>6, TicketsAlone DEF GoRefused, Reached, cmd, TypeOK, Holders
<1>7. ASSUME NEW c \in Calls, GetTicket(c)
      PROVE  TicketsConserved'
  BY Zenon, <1>7, TakesTicket DEF GetTicket, Bookkeeping
<1>8. ASSUME NEW c \in Calls, NoTicket(c)
      PROVE  TicketsConserved'
  BY Zenon, <1>8, TicketsAlone DEF NoTicket, GiveUp, cmd, TypeOK, Holders
<1>9. ASSUME NEW c \in Calls, Returns(c)
      PROVE  TicketsConserved'
  BY Zenon, <1>9, TicketsAlone DEF Returns, cmd, TypeOK, Holders
<1>10. ASSUME NEW c \in Calls, BadParams(c)
      PROVE  TicketsConserved'
  BY Zenon, <1>10, TicketsAlone DEF BadParams, cmd, TypeOK, Holders
<1>11. ASSUME NEW c \in Calls, Report(c)
      PROVE  TicketsConserved'
  BY Zenon, <1>11, TicketsAlone DEF Report, cmd, TypeOK, Holders
<1>12. ASSUME NEW c \in Calls, Return(c)
      PROVE  TicketsConserved'
  BY Zenon, <1>12, GivesTicketBack DEF Return, ReturnedTickets
<1>13. ASSUME NEW c \in Calls, Finish(c)
      PROVE  TicketsConserved'
  BY Zenon, <1>13, TicketsAlone DEF Finish, CanSend, cmd, TypeOK, Holders
<1>14. ASSUME NEW c \in Calls, SeesEnd(c)
      PROVE  TicketsConserved'
  BY Zenon, <1>14, TicketsAlone DEF SeesEnd, Closes, cmd, TypeOK, Holders
<1>15. ASSUME NEW c \in Calls, SeesNoEnd(c)
      PROVE  TicketsConserved'
  BY Zenon, <1>15, TicketsAlone DEF SeesNoEnd, GivesUpWaiting, Closes, Overdue, cmd, TypeOK, Holders
<1>16. ASSUME NEW c \in Calls, Leave(c)
      PROVE  TicketsConserved'
  BY Zenon, <1>16, TicketsAlone DEF Leave, cmd, TypeOK, Holders
<1>17. CASE UNCHANGED vars
  BY Zenon, <1>17, TicketsAlone DEF vars, TypeOK, Holders
<1>18. QED
  BY Zenon, <1>1, <1>2, <1>3, <1>4, <1>5, <1>6, <1>7, <1>8, <1>9, <1>10, <1>11, <1>12, <1>13, <1>14, <1>15, <1>16, <1>17 DEF Next

\* Init => IInv and the step lemmas make IInv an invariant.
THEOREM Invariance == Spec => []IInv
<1>1. IInv /\ [Next]_vars => IInv'
  BY Zenon, StepType, StepBookkeeping, StepTraces, StepNil, StepTickets DEF IInv
<1>2. QED  BY InitIInv, <1>1, PTL DEF Spec

\* The pool, the goroutines of the calls, their channels and what the callers
\* answer stay well formed for any pool size, calls and callers.
THEOREM TypeCorrect == Spec => []TypeOK
<1>1. IInv => TypeOK  BY Zenon DEF IInv
<1>2. QED  BY Invariance, <1>1, PTL

\* AsyncExecutor: the pool neither loses nor gains a ticket, whatever calls
\* time out, fail or outlive their callers.
THEOREM PoolKeepsItsTickets == Spec => []TicketsConserved
<1>1. IInv => TicketsConserved  BY Zenon DEF IInv
<1>2. QED  BY Invariance, <1>1, PTL

\* gofunc: a command that is done without ExecutorError has its results.
THEOREM DoneMeansResults == Spec => []NilMeansResults
<1>1. IInv => NilMeansResults  BY Zenon DEF IInv
<1>2. QED  BY Invariance, <1>1, PTL

\* Batcher.Wait and collectBatcherCommandResult: a caller that returns in time
\* answers for functions that have all run to their end.
THEOREM CallersAnswerInTime == Spec => AnswersInTime
<1> DEFINE A(b) == answer[b] # answer'[b] /\ b \notin expired /\ ~ stoped
                     => \A c \in Commands(b) :
                          /\ run[c] = "ended"
                          /\ c \in results \/ ExecutorError[c] = "params"
                          /\ c \in answer'[b].counted <=> FuncError[c] = "nil"
<1>1. IInv /\ [Next]_vars => [\A b \in Batches : A(b)]_vars
  <2> SUFFICES ASSUME IInv, Next, NEW b \in Batches, answer[b] # answer'[b],
                      b \notin expired, ~ stoped, NEW c \in Commands(b)
               PROVE  /\ run[c] = "ended"
                      /\ c \in results \/ ExecutorError[c] = "params"
                      /\ c \in answer'[b].counted <=> FuncError[c] = "nil"
    BY Zenon
  <2>1. Collect(b)
    <3>1. \E d \in Batches : Collect(d)
      BY Zenon DEF Next, Close, Expire, Go, GoWithTicket, GoRefused, GetTicket, NoTicket, GiveUp,
             Returns, BadParams, Report, Return, Finish, SeesEnd, SeesNoEnd, Closes,
             GivesUpWaiting, Leave
    <3>2. QED  BY Zenon, <3>1 DEF Collect, IInv, TypeOK
  <2>2. c \in Calls /\ BatchOf[c] = b /\ run[c] # "none" /\ ~ Kind(c).queue
    BY Zenon DEF Commands, Of
  <2>3. c \notin joined  BY Zenon, <2>1, <2>2 DEF Collect, Of
  <2>4. InTime(c)  BY Zenon, <2>2 DEF InTime, Late
  <2>5. run[c] = "ended"  BY Zenon, <2>2, <2>3, <2>4 DEF IInv, Bookkeeping
  <2>6. c \in results \/ ExecutorError[c] = "params"
    BY Zenon, <2>2, <2>4, <2>5 DEF IInv, Traces
  <2>7. answer'[b].counted = {d \in Commands(b) : FuncError[d] = "nil"}
    BY Zenon, <2>1 DEF Collect, IInv, TypeOK
  <2>8. QED  BY Zenon, <2>5, <2>6, <2>7
<1>2. QED  BY Invariance, <1>1, PTL DEF Spec, AnswersInTime
=============================================================================
