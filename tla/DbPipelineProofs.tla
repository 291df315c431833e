--------------------------- MODULE DbPipelineProofs ---------------------------
(***************************************************************************)
(* JoinedCanLogIn, CrashNeedsSqlFailure and that DbPipeline implements     *)
(* AccountService, for any number of clients, accounts, workers and        *)
(* requests.                                                               *)
(*                                                                         *)
(* The one DB thread takes the messages in the order they were posted, and *)
(* hands them on in this order; so the numbers of the messages say where   *)
(* each of them is: up to Fetched a worker has it or has answered it, up   *)
(* to Served it waits for a worker, Taken is the one the DB thread is      *)
(* busy with, and the rest wait for the DB thread.                         *)
(***************************************************************************)
EXTENDS DbPipeline, SequenceTheorems, TLAPS

(* Messages are numbered from 1 in the order in which they were posted. *)
Posted == 1 .. Len(request)
Busy == thread[0].at # "waiting"
Taken == Len(request) - Len(dbQueue)
Served == IF Busy THEN Taken - 1 ELSE Taken
Fetched == Served - Len(results)
AtWork(w) == worker[w].at # "waiting"

PipelineTypes ==
    /\ request \in Seq(Requests)
    /\ dbQueue \in Seq(Nat) /\ results \in Seq(Nat)
    /\ outcome \in Seq({"waiting", "failed", "ok", "no"})
    /\ resultId \in Seq({"ok", "no"})
    /\ answer \in Seq({"none", "ok", "no"})
    /\ Len(outcome) = Len(request) /\ Len(resultId) = Len(request)
    /\ Len(answer) = Len(request)
    /\ thread \in [{0} -> [at : {"waiting", "taken", "idBound", "bound", "counted",
                                 "selected"},
                           message : Nat]]
    /\ params \in [{0} -> [1 .. 2 -> Nat]]
    /\ rows \in [Credentials -> 0 .. 1]
    /\ rowcnt \in [{0} -> 0 .. 1]
    /\ worker \in [Workers -> [at : {"waiting", "success", "fail", "ready"},
                               message : Nat]]
    /\ hasPlayer \in [Clients -> BOOLEAN]

(* Where the messages are. *)
InOrder ==
    /\ Len(dbQueue) <= Len(request)
    /\ \A k \in 1 .. Len(dbQueue) : dbQueue[k] = Taken + k
    /\ Busy => thread[0].message = Taken /\ Taken >= 1
    /\ Len(results) <= Served
    /\ \A k \in 1 .. Len(results) : results[k] = Fetched + k
    /\ \A w \in Workers : AtWork(w) =>
           /\ worker[w].message \in 1 .. Fetched
           /\ answer[worker[w].message] = "none"
    /\ \A v, w \in Workers :
           AtWork(v) /\ AtWork(w) /\ worker[v].message = worker[w].message => v = w
    /\ \A i \in Posted : answer[i] # "none" => i <= Fetched

(* The statement of the DB thread is about the message it is busy with. *)
OwnStatement ==
    /\ thread[0].at = "idBound" => params[0][1] = Taken
    /\ thread[0].at \in {"bound", "counted"} =>
           params[0][1] = Taken /\ params[0][2] = Taken
    /\ thread[0].at = "counted" => rowcnt[0] = rows[request[Taken].account]

(* What is known of a message that has been served. *)
OutcomesLast ==
    \A i \in Posted :
        /\ outcome[i] = "waiting" <=>
               i > Served /\ ~(i = Taken /\ thread[0].at = "selected")
        /\ outcome[i] = "failed" => i <= Served
        /\ i <= Served /\ outcome[i] # "failed" => resultId[i] = outcome[i]
        /\ outcome[i] = "ok" /\ request[i].kind = "join" =>
               rows[request[i].account] = 1

AnswersAreResults ==
    \A i \in Posted : answer[i] # "none" =>
        /\ answer[i] = resultId[i]
        /\ outcome[i] = "ok" /\ request[i].kind = "login" =>
               hasPlayer[request[i].client]

WorkersKnow ==
    \A w \in Workers :
        /\ worker[w].at \in {"success", "ready"} =>
               outcome[worker[w].message] = "ok"
        /\ worker[w].at = "fail" => outcome[worker[w].message] # "ok"
        /\ worker[w].at = "ready" => hasPlayer[request[worker[w].message].client]

PipelineInv ==
    /\ PipelineTypes
    /\ InOrder /\ OwnStatement /\ OutcomesLast /\ AnswersAreResults /\ WorkersKnow
    /\ CrashNeedsSqlFailure
-----------------------------------------------------------------------------
(* The counts, and what they say of the sequences of the messages. *)
LEMMA Counts ==
  ASSUME PipelineTypes, InOrder
  PROVE  /\ Len(request) \in Nat /\ Len(dbQueue) \in Nat /\ Len(results) \in Nat
         /\ Taken \in Nat /\ Served \in Nat /\ Fetched \in Nat
         /\ Fetched <= Served /\ Served <= Taken /\ Taken <= Len(request)
         /\ Busy => Taken \in Posted /\ Served = Taken - 1
         /\ DOMAIN request = Posted
         /\ \A i \in Posted :
                /\ request[i] \in Requests
                /\ outcome[i] \in {"waiting", "failed", "ok", "no"}
                /\ resultId[i] \in {"ok", "no"}
                /\ answer[i] \in {"none", "ok", "no"}
<1>1. /\ Len(request) \in Nat /\ Len(dbQueue) \in Nat /\ Len(results) \in Nat
      /\ DOMAIN request = Posted
  BY LenProperties DEF PipelineTypes, Posted
<1>2. /\ Taken \in Nat /\ Taken <= Len(request)
      /\ Busy => Taken >= 1
      /\ Len(results) <= Served
  BY <1>1 DEF InOrder, Taken
<1>3. Served \in Nat /\ Served <= Taken /\ (Busy => Served = Taken - 1)
  BY <1>2 DEF Served
<1>4. Fetched \in Nat /\ Fetched <= Served
  BY <1>1, <1>2, <1>3 DEF Fetched
<1>5. ASSUME NEW i \in Posted
      PROVE  /\ request[i] \in Requests
             /\ outcome[i] \in {"waiting", "failed", "ok", "no"}
             /\ resultId[i] \in {"ok", "no"}
             /\ answer[i] \in {"none", "ok", "no"}
  BY ElementOfSeq DEF PipelineTypes, Posted
<1>6. QED BY <1>1, <1>2, <1>3, <1>4, <1>5 DEF Posted

(* Every step of the DB thread, of a worker and of a client keeps where    *)
(* the messages are, and what is known of each.                            *)
LEMMA PipelineInvariant == Spec => []PipelineInv
(* The message taken is the next one, and Served stays. *)
<1>take. ASSUME PipelineInv, ~crashed, TakeMessage(0)
         PROVE  PipelineInv'
  <2> USE <1>take DEF PipelineInv
  <2>0. /\ Taken \in Nat /\ Served \in Nat /\ Fetched \in Nat
        /\ Len(request) \in Nat /\ Len(dbQueue) \in Nat /\ Len(results) \in Nat
    BY Counts
  <2>1. /\ thread[0].at = "waiting" /\ dbQueue # <<>>
        /\ thread' = [thread EXCEPT ![0] = [at |-> "taken", message |-> Head(dbQueue)]]
        /\ dbQueue' = Tail(dbQueue)
        /\ UNCHANGED <<request, params, rows, rowcnt, outcome, resultId, results,
                       worker, answer, hasPlayer, entered, crashed>>
    BY DEF TakeMessage, workerVars
  <2>2. /\ dbQueue' \in Seq(Nat) /\ Len(dbQueue') = Len(dbQueue) - 1
        /\ \A k \in 1 .. Len(dbQueue') : dbQueue'[k] = dbQueue[k + 1]
        /\ Len(dbQueue) >= 1 /\ Head(dbQueue) = Taken + 1
    <3>1. dbQueue \in Seq(Nat)
      BY DEF PipelineTypes
    <3>2. /\ Tail(dbQueue) \in Seq(Nat) /\ Len(Tail(dbQueue)) = Len(dbQueue) - 1
          /\ \A k \in 1 .. Len(Tail(dbQueue)) : Tail(dbQueue)[k] = dbQueue[k + 1]
      BY <2>1, <3>1, HeadTailProperties
    <3>3. Len(dbQueue) >= 1
      BY <2>1, <3>1, EmptySeq
    <3>4. Head(dbQueue) = dbQueue[1]
      BY <2>1, <3>1
    <3>5. dbQueue[1] = Taken + 1
      BY <2>0, <3>3 DEF InOrder
    <3>6. QED BY <2>1, <3>2, <3>3, <3>4, <3>5
  <2>3. /\ thread' \in [{0} -> [at : {"waiting", "taken", "idBound", "bound", "counted",
                                      "selected"},
                                message : Nat]]
        /\ thread'[0].at = "taken" /\ thread'[0].message = Taken + 1
    BY <2>0, <2>1, <2>2 DEF PipelineTypes
  <2>4. /\ Taken' = Taken + 1 /\ Busy' /\ ~Busy
        /\ Served' = Served /\ Served = Taken /\ Fetched' = Fetched
    BY <2>0, <2>1, <2>2, <2>3 DEF Taken, Served, Fetched, Busy
  <2>5. PipelineTypes'
    BY <2>1, <2>2, <2>3 DEF PipelineTypes
  <2>6. InOrder'
    <3>1. Len(dbQueue') <= Len(request')
      BY <2>0, <2>1, <2>2 DEF InOrder
    <3>2. \A k \in 1 .. Len(dbQueue') : dbQueue'[k] = Taken' + k
      BY <2>0, <2>2, <2>4 DEF InOrder
    <3>3. QED BY <2>0, <2>1, <2>3, <2>4, <3>1, <3>2 DEF InOrder, AtWork, Posted
  <2>7. OwnStatement'
    BY <2>3 DEF OwnStatement
  <2>8. OutcomesLast'
    BY <2>0, <2>1, <2>3, <2>4 DEF OutcomesLast, Posted
  <2>9. AnswersAreResults' /\ WorkersKnow' /\ CrashNeedsSqlFailure'
    BY <2>1 DEF AnswersAreResults, Posted, WorkersKnow, CrashNeedsSqlFailure
  <2>10. QED BY <2>5, <2>6, <2>7, <2>8, <2>9
(* Binding changes the statement, and nothing the others read. *)
<1>bind. ASSUME PipelineInv, ~crashed,
                \/ BindParamTextA(0, "taken", 1, "idBound")
                \/ BindParamTextA(0, "idBound", 2, "bound")
         PROVE  PipelineInv'
  <2> USE <1>bind DEF PipelineInv
  <2>1. PICK from \in {"taken", "idBound"}, n \in 1 .. 2, to \in {"idBound", "bound"} :
            /\ thread[0].at = from
            /\ to = "bound" <=> from = "idBound"
            /\ n = 2 <=> from = "idBound"
            /\ params' = [params EXCEPT ![0][n] = thread[0].message]
            /\ thread' = [thread EXCEPT ![0].at = to]
            /\ UNCHANGED <<request, dbQueue, rows, rowcnt, outcome, resultId, results,
                           worker, answer, hasPlayer, entered, crashed>>
    BY DEF BindParamTextA, Moves, workerVars
  <2>2. /\ thread' \in [{0} -> [at : {"waiting", "taken", "idBound", "bound", "counted",
                                      "selected"},
                                message : Nat]]
        /\ thread'[0].at = to /\ thread'[0].message = thread[0].message
    BY <2>1 DEF PipelineTypes
  <2>3. /\ params' \in [{0} -> [1 .. 2 -> Nat]]
        /\ params'[0][n] = thread[0].message
        /\ n = 2 => params'[0][1] = params[0][1]
    BY <2>1 DEF PipelineTypes
  <2>4. /\ Taken' = Taken /\ Busy' /\ Busy /\ Served' = Served /\ Fetched' = Fetched
        /\ thread[0].message = Taken
    BY <2>1, <2>2 DEF Taken, Served, Fetched, Busy, InOrder
  <2>5. PipelineTypes'
    BY <2>1, <2>2, <2>3 DEF PipelineTypes
  <2>6. InOrder'
    BY <2>1, <2>2, <2>4 DEF InOrder, AtWork, Posted
  <2>7. OwnStatement'
    BY <2>1, <2>2, <2>3, <2>4 DEF OwnStatement
  <2>8. OutcomesLast'
    BY <2>1, <2>2, <2>4 DEF OutcomesLast, Posted
  <2>9. AnswersAreResults' /\ WorkersKnow' /\ CrashNeedsSqlFailure'
    BY <2>1 DEF AnswersAreResults, Posted, WorkersKnow, CrashNeedsSqlFailure
  <2>10. QED BY <2>5, <2>6, <2>7, <2>8, <2>9
(* Execute counts the rows of the account of the message itself. *)
<1>execute. ASSUME PipelineInv, ~crashed, Execute(0)
            PROVE  PipelineInv'
  <2> USE <1>execute DEF PipelineInv
  <2>1. /\ thread[0].at = "bound"
        /\ rowcnt' = [rowcnt EXCEPT ![0] = rows[Bound(0)]]
        /\ thread' = [thread EXCEPT ![0].at = "counted"]
        /\ UNCHANGED <<request, dbQueue, params, rows, outcome, resultId, results,
                       worker, answer, hasPlayer, entered, crashed>>
    BY DEF Execute, Moves, workerVars
  <2>2. /\ thread' \in [{0} -> [at : {"waiting", "taken", "idBound", "bound", "counted",
                                      "selected"},
                                message : Nat]]
        /\ thread'[0].at = "counted" /\ thread'[0].message = thread[0].message
    BY <2>1 DEF PipelineTypes
  <2>3. /\ Taken' = Taken /\ Busy' /\ Busy /\ Served' = Served /\ Fetched' = Fetched
        /\ thread[0].message = Taken
    BY <2>1, <2>2 DEF Taken, Served, Fetched, Busy, InOrder
  <2>4. request[Taken].account \in Credentials /\ Bound(0) = request[Taken].account
    <3>1. request[Taken] \in Requests
      BY <2>3, Counts
    <3>2. request[Taken].account \in Ids \X Passwords
      BY <3>1 DEF Requests, Credentials
    <3>3. Bound(0) = <<request[Taken].account[1], request[Taken].account[2]>>
      BY <2>1 DEF Bound, OwnStatement
    <3>4. QED BY <3>2, <3>3 DEF Credentials
  <2>5. /\ rowcnt' \in [{0} -> 0 .. 1] /\ rowcnt'[0] = rows[request[Taken].account]
    BY <2>1, <2>4 DEF PipelineTypes
  <2>6. PipelineTypes'
    BY <2>1, <2>2, <2>5 DEF PipelineTypes
  <2>7. InOrder'
    BY <2>1, <2>2, <2>3 DEF InOrder, AtWork, Posted
  <2>8. OwnStatement'
    BY <2>1, <2>2, <2>3, <2>5 DEF OwnStatement
  <2>9. OutcomesLast'
    BY <2>1, <2>2, <2>3 DEF OutcomesLast, Posted
  <2>10. AnswersAreResults' /\ WorkersKnow' /\ CrashNeedsSqlFailure'
    BY <2>1 DEF AnswersAreResults, Posted, WorkersKnow, CrashNeedsSqlFailure
  <2>11. QED BY <2>6, <2>7, <2>8, <2>9, <2>10
(* The procedure decides by that count, so that no account gets two rows. *)
<1>select. ASSUME PipelineInv, ~crashed, SpJoinPlayer(0) \/ SpLoginPlayer(0)
           PROVE  PipelineInv'
  <2> USE <1>select DEF PipelineInv
  <2> DEFINE account == request[Taken].account
  <2>0. /\ Taken \in Nat /\ Served \in Nat /\ Fetched \in Nat /\ Fetched <= Served
        /\ Busy /\ Taken \in Posted /\ Served = Taken - 1 /\ thread[0].message = Taken
        /\ thread[0].at = "counted"
        /\ request[Taken] \in Requests /\ account \in Credentials
        /\ rowcnt[0] = rows[account]
    <3>1. thread[0].at = "counted"
      BY DEF SpJoinPlayer, SpLoginPlayer
    <3>2. Busy /\ thread[0].message = Taken /\ rowcnt[0] = rows[account]
      BY <3>1 DEF Busy, InOrder, OwnStatement
    <3>3. request[Taken] \in Requests
      BY <3>2, Counts
    <3>4. QED BY <3>1, <3>2, <3>3, Counts DEF Requests
  <2>1. Bound(0) = account
    <3>1. account \in Ids \X Passwords
      BY <2>0 DEF Credentials
    <3>2. Bound(0) = <<account[1], account[2]>>
      BY <2>0 DEF Bound, OwnStatement
    <3>3. QED BY <3>1, <3>2
  <2>2. PICK result \in {"ok", "no"} :
            /\ Select(0, result)
            /\ \/ rows' = rows /\ (result = "ok" => request[Taken].kind = "login")
               \/ rows[account] = 0 /\ rows' = [rows EXCEPT ![account] = @ + 1]
    BY <2>0, <2>1 DEF SpJoinPlayer, SpLoginPlayer
  <2>3. /\ outcome' = [outcome EXCEPT ![Taken] = result]
        /\ thread' = [thread EXCEPT ![0].at = "selected"]
        /\ UNCHANGED <<request, dbQueue, params, rowcnt, resultId, results,
                       worker, answer, hasPlayer, entered, crashed>>
    BY <2>0, <2>2 DEF Select, Moves, workerVars
  <2>4. /\ rows' \in [Credentials -> 0 .. 1]
        /\ \A c \in Credentials : rows[c] = 1 => rows'[c] = 1
        /\ result = "ok" /\ request[Taken].kind = "join" => rows'[account] = 1
    <3> HIDE DEF account
    <3>1. CASE rows' = rows /\ (result = "ok" => request[Taken].kind = "login")
      BY <3>1 DEF PipelineTypes
    <3>2. CASE rows[account] = 0 /\ rows' = [rows EXCEPT ![account] = @ + 1]
      BY <2>0, <3>2 DEF PipelineTypes
    <3>3. QED BY <2>2, <3>1, <3>2
  <2>5. /\ outcome' \in Seq({"waiting", "failed", "ok", "no"})
        /\ Len(outcome') = Len(outcome)
        /\ \A i \in Posted : outcome'[i] = IF i = Taken THEN result ELSE outcome[i]
    <3>1. Taken \in 1 .. Len(outcome) /\ Posted = 1 .. Len(outcome)
      BY <2>0 DEF PipelineTypes, Posted
    <3>2. QED BY <2>2, <2>3, <3>1, ExceptSeq DEF PipelineTypes
  <2>6. /\ thread' \in [{0} -> [at : {"waiting", "taken", "idBound", "bound", "counted",
                                      "selected"},
                                message : Nat]]
        /\ thread'[0].at = "selected" /\ thread'[0].message = thread[0].message
    BY <2>3 DEF PipelineTypes
  <2>7. Taken' = Taken /\ Busy' /\ Served' = Served /\ Fetched' = Fetched /\ Posted' = Posted
    BY <2>0, <2>3, <2>6 DEF Taken, Served, Fetched, Busy, Posted
  <2>8. PipelineTypes'
    BY <2>3, <2>4, <2>5, <2>6 DEF PipelineTypes
  <2>9. InOrder'
    BY <2>0, <2>3, <2>6, <2>7 DEF InOrder, AtWork
  <2>10. OwnStatement'
    BY <2>6 DEF OwnStatement
  <2>11. OutcomesLast'
    <3>1. SUFFICES ASSUME NEW i \in Posted
                   PROVE  /\ outcome'[i] = "waiting" <=> i > Served /\ i # Taken
                          /\ outcome'[i] = "failed" => i <= Served
                          /\ i <= Served /\ outcome'[i] # "failed" =>
                                 resultId[i] = outcome'[i]
                          /\ outcome'[i] = "ok" /\ request[i].kind = "join" =>
                                 rows'[request[i].account] = 1
      BY <2>3, <2>6, <2>7 DEF OutcomesLast
    <3>2. CASE i = Taken
      BY <2>0, <2>4, <2>5, <3>2 DEF OutcomesLast
    <3>3. CASE i # Taken
      <4>1. request[i].account \in Credentials
        BY Counts DEF Requests
      <4>2. outcome'[i] = outcome[i]
        BY <2>5, <3>3
      <4>3. QED BY <2>0, <2>4, <3>3, <4>1, <4>2 DEF OutcomesLast, Posted
    <3>4. QED BY <3>2, <3>3
  <2>12. AnswersAreResults'
    <3>1. \A i \in Posted : answer[i] # "none" => outcome'[i] = outcome[i]
      BY <2>0, <2>5 DEF InOrder, Posted
    <3>2. QED BY <2>3, <2>7, <3>1 DEF AnswersAreResults
  <2>13. WorkersKnow'
    <3>1. ASSUME NEW w \in Workers, AtWork(w)
          PROVE  outcome'[worker[w].message] = outcome[worker[w].message]
      <4>1. worker[w].message \in 1 .. Fetched
        BY <3>1 DEF InOrder
      <4>2. worker[w].message \in Posted /\ worker[w].message # Taken
        BY <2>0, <4>1 DEF Posted
      <4>3. QED BY <2>5, <4>2
    <3>2. QED BY <2>3, <3>1 DEF WorkersKnow, AtWork
  <2>14. CrashNeedsSqlFailure'
    BY <2>3 DEF CrashNeedsSqlFailure
  <2>15. QED BY <2>8, <2>9, <2>10, <2>11, <2>12, <2>13, <2>14
(* The message goes on to the workers, with its result or without. *)
<1>post. ASSUME PipelineInv, ~crashed, FetchRow(0) \/ SqlFails(0)
         PROVE  PipelineInv'
  <2> USE <1>post DEF PipelineInv
  <2>0. /\ Taken \in Nat /\ Served \in Nat /\ Fetched \in Nat /\ Fetched <= Served
        /\ Busy /\ Taken \in Posted /\ Served = Taken - 1 /\ thread[0].message = Taken
        /\ Len(results) \in Nat
        /\ outcome[Taken] \in {"waiting", "failed", "ok", "no"}
        /\ thread[0].at \in {"bound", "selected"}
    <3>1. thread[0].at \in {"bound", "selected"}
      BY DEF FetchRow, SqlFails
    <3>2. Busy /\ thread[0].message = Taken
      BY <3>1 DEF Busy, InOrder
    <3>3. Taken \in Posted
      BY <3>2, Counts
    <3>4. QED BY <3>1, <3>2, <3>3, Counts
  <2>1. /\ params' = [params EXCEPT ![0] = <<0, 0>>]
        /\ results' = Append(results, Taken)
        /\ thread' = [thread EXCEPT ![0] = Idle]
        /\ UNCHANGED <<request, dbQueue, rows, rowcnt, worker, answer, hasPlayer,
                       entered, crashed>>
    BY <2>0 DEF FetchRow, SqlFails, PostDBResult
  <2>2. /\ outcome' \in Seq({"waiting", "failed", "ok", "no"})
        /\ resultId' \in Seq({"ok", "no"})
        /\ Len(outcome') = Len(outcome) /\ Len(resultId') = Len(resultId)
        /\ \A i \in Posted : i # Taken =>
               outcome'[i] = outcome[i] /\ resultId'[i] = resultId[i]
        /\ \/ outcome'[Taken] = "failed"
           \/ /\ outcome'[Taken] \in {"ok", "no"} /\ resultId'[Taken] = outcome'[Taken]
              /\ outcome'[Taken] = outcome[Taken]
    <3>1. /\ Taken \in 1 .. Len(outcome) /\ Posted = 1 .. Len(outcome)
          /\ Taken \in 1 .. Len(resultId) /\ Posted = 1 .. Len(resultId)
          /\ outcome \in Seq({"waiting", "failed", "ok", "no"})
          /\ resultId \in Seq({"ok", "no"})
      BY <2>0 DEF PipelineTypes, Posted
    <3>2. CASE FetchRow(0)
      <4>1. /\ resultId' = [resultId EXCEPT ![Taken] = outcome[Taken]]
            /\ outcome' = outcome /\ thread[0].at = "selected"
        BY <2>0, <3>2 DEF FetchRow
      <4>2. outcome[Taken] \in {"ok", "no"}
        BY <2>0, <4>1 DEF OutcomesLast
      <4>3. QED BY <3>1, <4>1, <4>2, ExceptSeq
    <3>3. CASE SqlFails(0)
      <4>1. outcome' = [outcome EXCEPT ![Taken] = "failed"] /\ resultId' = resultId
        BY <2>0, <3>3 DEF SqlFails
      <4>2. QED BY <3>1, <4>1, ExceptSeq
    <3>4. QED BY <3>2, <3>3
  <2>3. /\ results' \in Seq(Nat) /\ Len(results') = Len(results) + 1
        /\ \A k \in 1 .. Len(results) : results'[k] = results[k]
        /\ results'[Len(results) + 1] = Taken
    BY <2>0, <2>1, AppendProperties DEF PipelineTypes
  <2>4. /\ thread' \in [{0} -> [at : {"waiting", "taken", "idBound", "bound", "counted",
                                      "selected"},
                                message : Nat]]
        /\ thread'[0].at = "waiting"
        /\ params' \in [{0} -> [1 .. 2 -> Nat]]
    BY <2>1 DEF PipelineTypes, Idle
  <2>5. /\ Taken' = Taken /\ ~Busy' /\ Served' = Taken /\ Served' = Served + 1
        /\ Posted' = Posted
    BY <2>0, <2>1, <2>4 DEF Taken, Served, Busy, Posted
  <2>6. Fetched' = Fetched
    BY <2>0, <2>3, <2>5 DEF Fetched
  <2>7. PipelineTypes'
    BY <2>1, <2>2, <2>3, <2>4 DEF PipelineTypes
  <2>8. InOrder'
    <3>1. Len(results') <= Served'
      BY <2>0, <2>3, <2>5 DEF InOrder
    <3>2. \A k \in 1 .. Len(results') : results'[k] = Fetched' + k
      <4>1. Taken = Fetched + (Len(results) + 1)
        BY <2>0, <2>5, <2>6, <2>3 DEF Fetched
      <4>2. \A k \in 1 .. Len(results) : results'[k] = Fetched' + k
        BY <2>3, <2>6 DEF InOrder
      <4>3. \A k \in 1 .. Len(results') : k \in 1 .. Len(results) \/ k = Len(results) + 1
        BY <2>0, <2>3
      <4>4. results'[Len(results) + 1] = Fetched' + (Len(results) + 1)
        BY <2>3, <2>6, <4>1
      <4>5. QED BY ONLY <4>2, <4>3, <4>4
    <3>3. QED BY <2>1, <2>5, <2>6, <3>1, <3>2 DEF InOrder, AtWork
  <2>9. OwnStatement'
    BY <2>4 DEF OwnStatement
  <2>10. OutcomesLast'
    <3>1. SUFFICES ASSUME NEW i \in Posted
                   PROVE  /\ outcome'[i] = "waiting" <=> i > Taken
                          /\ outcome'[i] = "failed" => i <= Taken
                          /\ i <= Taken /\ outcome'[i] # "failed" =>
                                 resultId'[i] = outcome'[i]
                          /\ outcome'[i] = "ok" /\ request[i].kind = "join" =>
                                 rows[request[i].account] = 1
      BY <2>1, <2>4, <2>5 DEF OutcomesLast
    <3>2. CASE i = Taken
      BY <2>0, <2>2, <3>2 DEF OutcomesLast
    <3>3. CASE i # Taken
      BY <2>0, <2>2, <3>3 DEF OutcomesLast, Posted
    <3>4. QED BY <3>2, <3>3
  <2>11. AnswersAreResults'
    <3>1. \A i \in Posted : answer[i] # "none" =>
              outcome'[i] = outcome[i] /\ resultId'[i] = resultId[i]
      BY <2>0, <2>2 DEF InOrder, Posted
    <3>2. QED BY <2>1, <2>5, <3>1 DEF AnswersAreResults
  <2>12. WorkersKnow'
    <3>1. ASSUME NEW w \in Workers, AtWork(w)
          PROVE  outcome'[worker[w].message] = outcome[worker[w].message]
      <4>1. worker[w].message \in 1 .. Fetched
        BY <3>1 DEF InOrder
      <4>2. worker[w].message \in Posted /\ worker[w].message # Taken
        BY <2>0, <4>1 DEF Posted
      <4>3. QED BY <2>2, <4>2
    <3>2. QED BY <2>1, <3>1 DEF WorkersKnow, AtWork
  <2>13. CrashNeedsSqlFailure'
    BY <2>1 DEF CrashNeedsSqlFailure
  <2>14. QED BY <2>7, <2>8, <2>9, <2>10, <2>11, <2>12, <2>13
(* A worker takes the first of the results: the next one that was served. *)
<1>result. ASSUME PipelineInv, ~crashed, NEW w \in Workers, OnResult(w)
           PROVE  PipelineInv'
  <2> USE <1>result DEF PipelineInv
  <2>0. /\ Taken \in Nat /\ Served \in Nat /\ Fetched \in Nat /\ Fetched <= Served
        /\ Served <= Taken /\ Taken <= Len(request) /\ Len(request) \in Nat
        /\ Len(results) \in Nat
    BY Counts
  <2>1. /\ results # <<>> /\ results' = Tail(results)
        /\ worker[w].at = "waiting"
        /\ UNCHANGED <<request, dbQueue, thread, params, rows, rowcnt, outcome,
                       resultId, answer, hasPlayer, entered, crashed>>
    BY DEF OnResult, dbVars
  <2>2. /\ results' \in Seq(Nat) /\ Len(results') = Len(results) - 1
        /\ \A k \in 1 .. Len(results') : results'[k] = results[k + 1]
        /\ Len(results) >= 1 /\ Head(results) = Fetched + 1
    <3>1. results \in Seq(Nat)
      BY DEF PipelineTypes
    <3>2. /\ Tail(results) \in Seq(Nat) /\ Len(Tail(results)) = Len(results) - 1
          /\ \A k \in 1 .. Len(Tail(results)) : Tail(results)[k] = results[k + 1]
      BY <2>1, <3>1, HeadTailProperties
    <3>3. Len(results) >= 1
      BY <2>1, <3>1, EmptySeq
    <3>4. Head(results) = results[1]
      BY <2>1, <3>1
    <3>5. results[1] = Fetched + 1
      BY <2>0, <3>3 DEF InOrder
    <3>6. QED BY <2>1, <3>2, <3>3, <3>4, <3>5
  <2>3. PICK at \in {"success", "fail"} :
            /\ worker' = [worker EXCEPT ![w] = [at |-> at, message |-> Fetched + 1]]
            /\ at = "success" <=> outcome[Fetched + 1] = "ok"
    BY <2>2 DEF OnResult, IsSuccess
  <2>4. /\ worker' \in [Workers -> [at : {"waiting", "success", "fail", "ready"},
                                    message : Nat]]
        /\ \A v \in Workers : v # w => worker'[v] = worker[v]
        /\ worker'[w].at = at /\ worker'[w].message = Fetched + 1
    BY <2>0, <2>3 DEF PipelineTypes
  <2>5. /\ Taken' = Taken /\ Served' = Served /\ Posted' = Posted
        /\ Busy' <=> Busy
    BY <2>1 DEF Taken, Served, Busy, Posted
  <2>6. Fetched' = Fetched + 1 /\ Fetched' \in Posted /\ Fetched' <= Served
    <3>1. Fetched' = Fetched + 1 /\ Fetched' <= Served
      BY <2>0, <2>2, <2>5 DEF Fetched
    <3>2. QED BY <2>0, <3>1 DEF Posted
  <2>7. PipelineTypes'
    BY <2>1, <2>2, <2>4 DEF PipelineTypes
  <2>8. InOrder'
    <3>1. Len(results') <= Served'
      BY <2>0, <2>2, <2>5 DEF InOrder
    <3>2. \A k \in 1 .. Len(results') : results'[k] = Fetched' + k
      <4>1. \A k \in 1 .. Len(results') : results[k + 1] = Fetched + (k + 1)
        BY <2>0, <2>2 DEF InOrder
      <4>2. QED BY <2>0, <2>2, <2>6, <4>1
    <3>3. /\ \A v \in Workers : AtWork(v)' =>
                 /\ worker'[v].message \in 1 .. Fetched'
                 /\ answer[worker'[v].message] = "none"
          /\ \A i \in Posted : answer[i] # "none" => i <= Fetched'
      <4>1. \A i \in Posted : answer[i] # "none" => i <= Fetched
        BY DEF InOrder
      <4>2. answer[Fetched + 1] = "none"
        BY <2>0, <2>6, <4>1
      <4>3. \A v \in Workers : AtWork(v) =>
                 worker[v].message \in 1 .. Fetched /\ answer[worker[v].message] = "none"
        BY DEF InOrder
      <4>4. QED BY <2>0, <2>4, <2>6, <4>1, <4>2, <4>3 DEF AtWork, Posted
    <3>4. ASSUME NEW u \in Workers, NEW v \in Workers, AtWork(u)', AtWork(v)',
                 worker'[u].message = worker'[v].message
          PROVE  u = v
      <4>1. \A x \in Workers : AtWork(x) => worker[x].message \in 1 .. Fetched
        BY DEF InOrder
      <4>2. \A x \in Workers : x # w /\ AtWork(x)' => worker'[x].message # Fetched + 1
        BY <2>0, <2>4, <4>1 DEF AtWork
      <4>3. CASE u = w \/ v = w
        BY <2>4, <3>4, <4>2, <4>3
      <4>4. CASE u # w /\ v # w
        BY <2>4, <3>4, <4>4 DEF InOrder, AtWork
      <4>5. QED BY <4>3, <4>4
    <3>5. QED BY <2>1, <2>5, <3>1, <3>2, <3>3, <3>4 DEF InOrder
  <2>9. OwnStatement'
    BY <2>1, <2>5 DEF OwnStatement
  <2>10. OutcomesLast'
    BY <2>1, <2>5 DEF OutcomesLast
  <2>11. AnswersAreResults' /\ CrashNeedsSqlFailure'
    BY <2>1, <2>5 DEF AnswersAreResults, CrashNeedsSqlFailure
  <2>12. WorkersKnow'
    BY <2>1, <2>3, <2>4 DEF WorkersKnow
  <2>13. QED BY <2>7, <2>8, <2>9, <2>10, <2>11, <2>12
(* The player of a login is set before the answer is sent. *)
<1>player. ASSUME PipelineInv, ~crashed, NEW w \in Workers,
                  OnSuccess(w), worker'[w].at = "ready"
           PROVE  PipelineInv'
  <2> USE <1>player DEF PipelineInv
  <2> DEFINE m == worker[w].message
             client == request[m].client
  <2>1. /\ worker[w].at = "success" /\ worker' = [worker EXCEPT ![w].at = "ready"]
        /\ hasPlayer' = [hasPlayer EXCEPT ![client] = TRUE]
        /\ UNCHANGED <<request, dbQueue, thread, params, rows, rowcnt, outcome,
                       resultId, results, answer, entered, crashed>>
    BY DEF OnSuccess, dbVars, Idle, PipelineTypes
  <2>2. m \in Posted /\ client \in Clients /\ outcome[m] = "ok"
    <3>1. m \in 1 .. Fetched
      BY <2>1 DEF InOrder, AtWork
    <3>2. m \in Posted
      BY <3>1, Counts DEF Posted
    <3>3. request[m] \in Requests
      BY <3>2, Counts
    <3>4. QED BY <2>1, <3>2, <3>3 DEF Requests, WorkersKnow
  <2>3. /\ worker' \in [Workers -> [at : {"waiting", "success", "fail", "ready"},
                                    message : Nat]]
        /\ \A v \in Workers : /\ worker'[v].message = worker[v].message
                              /\ AtWork(v)' <=> AtWork(v)
                              /\ v # w => worker'[v] = worker[v]
    BY <2>1 DEF PipelineTypes, AtWork
  <2>4. /\ hasPlayer' \in [Clients -> BOOLEAN] /\ hasPlayer'[client]
        /\ \A c \in Clients : hasPlayer[c] => hasPlayer'[c]
    BY <2>1, <2>2 DEF PipelineTypes
  <2>5. /\ Taken' = Taken /\ Served' = Served /\ Posted' = Posted /\ Fetched' = Fetched
        /\ Busy' <=> Busy
    BY <2>1 DEF Taken, Served, Busy, Posted, Fetched
  <2>6. PipelineTypes'
    BY <2>1, <2>3, <2>4 DEF PipelineTypes
  <2>7. InOrder'
    BY <2>1, <2>3, <2>5 DEF InOrder
  <2>8. OwnStatement' /\ OutcomesLast'
    BY <2>1, <2>5 DEF OwnStatement, OutcomesLast
  <2>9. AnswersAreResults'
    <3>1. \A i \in Posted : request[i].client \in Clients
      BY Counts DEF Requests
    <3>2. QED BY <2>1, <2>4, <2>5, <3>1 DEF AnswersAreResults
  <2>10. WorkersKnow'
    <3>1. \A v \in Workers : AtWork(v) => request[worker[v].message].client \in Clients
      <4>1. \A v \in Workers : AtWork(v) => worker[v].message \in 1 .. Fetched
        BY DEF InOrder
      <4>2. \A v \in Workers : AtWork(v) => worker[v].message \in Posted
        BY <4>1, Counts DEF Posted
      <4>3. QED BY <4>2, Counts DEF Requests
    <3>2. QED BY <2>1, <2>2, <2>3, <2>4, <3>1 DEF WorkersKnow, AtWork
  <2>11. CrashNeedsSqlFailure'
    BY <2>1 DEF CrashNeedsSqlFailure
  <2>12. QED BY <2>6, <2>7, <2>8, <2>9, <2>10, <2>11
(* A worker sends the result of its message, which nobody has answered. *)
<1>send. ASSUME PipelineInv, ~crashed, NEW w \in Workers, Send(w),
                worker' = [worker EXCEPT ![w] = Idle], hasPlayer' = hasPlayer,
                \/ worker[w].at \in {"ready", "fail"}
                \/ worker[w].at = "success" /\ request[worker[w].message].kind = "join"
         PROVE  PipelineInv'
  <2> USE <1>send DEF PipelineInv
  <2> DEFINE m == worker[w].message
  <2>1. /\ answer' = [answer EXCEPT ![m] = resultId[m]]
        /\ UNCHANGED <<request, dbQueue, thread, params, rows, rowcnt, outcome,
                       resultId, results, hasPlayer, entered, crashed>>
    BY DEF Send, dbVars
  <2>2. /\ m \in 1 .. Fetched /\ m \in Posted /\ resultId[m] \in {"ok", "no"}
        /\ Fetched \in Nat
    <3>1. m \in 1 .. Fetched
      BY DEF InOrder, AtWork
    <3>2. m \in Posted
      BY <3>1, Counts DEF Posted
    <3>3. QED BY <3>1, <3>2, Counts
  <2>3. /\ answer' \in Seq({"none", "ok", "no"}) /\ Len(answer') = Len(answer)
        /\ \A i \in Posted : answer'[i] = IF i = m THEN resultId[m] ELSE answer[i]
    <3>1. m \in 1 .. Len(answer) /\ Posted = 1 .. Len(answer)
      BY <2>2 DEF PipelineTypes, Posted
    <3>2. QED BY <2>1, <2>2, <3>1, ExceptSeq DEF PipelineTypes
  <2>4. /\ worker' \in [Workers -> [at : {"waiting", "success", "fail", "ready"},
                                    message : Nat]]
        /\ worker'[w].at = "waiting" /\ \A v \in Workers : v # w => worker'[v] = worker[v]
    BY DEF PipelineTypes, Idle
  <2>5. /\ Taken' = Taken /\ Served' = Served /\ Posted' = Posted /\ Fetched' = Fetched
        /\ Busy' <=> Busy
    BY <2>1 DEF Taken, Served, Busy, Posted, Fetched
  <2>6. PipelineTypes'
    BY <2>1, <2>3, <2>4 DEF PipelineTypes
  <2>7. InOrder'
    <3>1. ASSUME NEW v \in Workers, AtWork(v)'
          PROVE  /\ worker'[v] = worker[v] /\ AtWork(v)
                 /\ worker[v].message \in 1 .. Fetched
                 /\ answer'[worker[v].message] = "none"
      <4>1. v # w /\ worker'[v] = worker[v] /\ AtWork(v) /\ AtWork(w)
        BY <2>4, <3>1 DEF AtWork
      <4>2. /\ worker[v].message \in 1 .. Fetched /\ answer[worker[v].message] = "none"
            /\ worker[v].message # m
        BY <4>1 DEF InOrder
      <4>3. worker[v].message \in Posted
        BY <4>2, Counts DEF Posted
      <4>4. QED BY <2>3, <4>1, <4>2, <4>3
    <3>2. \A i \in Posted : answer'[i] # "none" => i <= Fetched
      BY <2>2, <2>3 DEF InOrder
    <3>3. QED BY <2>1, <2>5, <3>1, <3>2 DEF InOrder
  <2>8. OwnStatement' /\ OutcomesLast'
    BY <2>1, <2>5 DEF OwnStatement, OutcomesLast
  <2>9. AnswersAreResults'
    <3>1. outcome[m] = "ok" /\ request[m].kind = "login" => hasPlayer[request[m].client]
      BY DEF WorkersKnow
    <3>2. QED BY <2>1, <2>3, <2>5, <3>1 DEF AnswersAreResults
  <2>10. WorkersKnow' /\ CrashNeedsSqlFailure'
    BY <2>1, <2>4 DEF WorkersKnow, CrashNeedsSqlFailure
  <2>11. QED BY <2>6, <2>7, <2>8, <2>9, <2>10
(* A request is posted behind all the others, with nothing known of it. *)
<1>request. ASSUME PipelineInv, ~crashed, NEW r \in Requests, Request(r)
            PROVE  PipelineInv'
  <2> USE <1>request DEF PipelineInv
  <2> DEFINE n == Len(request)
  <2>0. /\ Taken \in Nat /\ Served \in Nat /\ Fetched \in Nat /\ Fetched <= Served
        /\ Served <= Taken /\ Taken <= n /\ n \in Nat /\ Len(dbQueue) \in Nat
    BY Counts
  <2>1. PICK any \in {"ok", "no"} :
            /\ request' = Append(request, r) /\ dbQueue' = Append(dbQueue, n + 1)
            /\ outcome' = Append(outcome, "waiting") /\ answer' = Append(answer, "none")
            /\ resultId' = Append(resultId, any)
            /\ UNCHANGED <<thread, params, rows, rowcnt, results, worker, hasPlayer,
                           entered, crashed>>
    BY DEF Request
  <2>2. /\ request' \in Seq(Requests) /\ Len(request') = n + 1
        /\ \A i \in 1 .. n : request'[i] = request[i]
    BY <2>1, AppendProperties DEF PipelineTypes
  <2>3. /\ dbQueue' \in Seq(Nat) /\ Len(dbQueue') = Len(dbQueue) + 1
        /\ \A i \in 1 .. Len(dbQueue) : dbQueue'[i] = dbQueue[i]
        /\ dbQueue'[Len(dbQueue) + 1] = n + 1
    BY <2>0, <2>1, AppendProperties DEF PipelineTypes
  <2>4. /\ outcome' \in Seq({"waiting", "failed", "ok", "no"})
        /\ resultId' \in Seq({"ok", "no"}) /\ answer' \in Seq({"none", "ok", "no"})
        /\ Len(outcome') = n + 1 /\ Len(resultId') = n + 1 /\ Len(answer') = n + 1
        /\ \A i \in 1 .. n : /\ outcome'[i] = outcome[i]
                             /\ resultId'[i] = resultId[i] /\ answer'[i] = answer[i]
        /\ outcome'[n + 1] = "waiting" /\ answer'[n + 1] = "none"
    BY <2>1, AppendProperties DEF PipelineTypes
  <2>5. /\ Taken' = Taken /\ Served' = Served /\ Fetched' = Fetched
        /\ Busy' <=> Busy
    BY <2>0, <2>1, <2>2, <2>3 DEF Taken, Served, Busy, Fetched
  <2>6. Posted' = Posted \cup {n + 1} /\ Posted = 1 .. n
    BY <2>0, <2>2 DEF Posted
  <2>7. PipelineTypes'
    BY <2>1, <2>2, <2>3, <2>4 DEF PipelineTypes
  <2>8. InOrder'
    <3>1. Len(dbQueue') <= Len(request')
      BY <2>0, <2>2, <2>3 DEF InOrder
    <3>2. \A k \in 1 .. Len(dbQueue') : dbQueue'[k] = Taken + k
      <4>1. n + 1 = Taken + (Len(dbQueue) + 1)
        BY <2>0 DEF Taken
      <4>2. \A k \in 1 .. Len(dbQueue) : dbQueue'[k] = Taken + k
        BY <2>3 DEF InOrder
      <4>3. 1 .. Len(dbQueue') = (1 .. Len(dbQueue)) \cup {Len(dbQueue) + 1}
        BY <2>0, <2>3
      <4>4. QED BY <2>3, <4>1, <4>2, <4>3
    <3>3. \A v \in Workers : AtWork(v) =>
              worker[v].message \in 1 .. Fetched /\ answer'[worker[v].message] = "none"
      <4>1. \A v \in Workers : AtWork(v) =>
                worker[v].message \in 1 .. Fetched /\ answer[worker[v].message] = "none"
        BY DEF InOrder
      <4>2. 1 .. Fetched \subseteq 1 .. n
        BY <2>0
      <4>3. QED BY <2>4, <4>1, <4>2
    <3>4. \A i \in Posted' : answer'[i] # "none" => i <= Fetched
      BY <2>4, <2>6 DEF InOrder
    <3>5. QED BY <2>1, <2>5, <3>1, <3>2, <3>3, <3>4 DEF InOrder, AtWork
  <2>9. OwnStatement'
    <3>1. Busy => request'[Taken] = request[Taken]
      BY <2>2, <2>6, Counts
    <3>2. QED BY <2>1, <2>5, <3>1 DEF OwnStatement, Busy
  <2>10. OutcomesLast'
    <3>1. ASSUME NEW i \in Posted'
          PROVE  /\ outcome'[i] = "waiting" <=>
                        i > Served /\ ~(i = Taken /\ thread[0].at = "selected")
                 /\ outcome'[i] = "failed" => i <= Served
                 /\ i <= Served /\ outcome'[i] # "failed" => resultId'[i] = outcome'[i]
                 /\ outcome'[i] = "ok" /\ request'[i].kind = "join" =>
                        rows[request'[i].account] = 1
      <4>1. CASE i \in Posted
        <5>1. outcome'[i] = outcome[i] /\ resultId'[i] = resultId[i] /\ request'[i] = request[i]
          BY <2>2, <2>4, <2>6, <4>1
        <5>2. QED BY <4>1, <5>1 DEF OutcomesLast
      <4>2. CASE i = n + 1
        <5>1. outcome'[i] = "waiting"
          BY <2>4, <4>2
        <5>2. i > Served /\ ~(i <= Served) /\ i # Taken
          BY <2>0, <4>2
        <5>3. QED BY <5>1, <5>2
      <4>3. QED BY <2>6, <4>1, <4>2
    <3>2. Served' = Served /\ Taken' = Taken /\ thread' = thread /\ rows' = rows
      BY <2>1, <2>5
    <3>3. QED BY ONLY <3>1, <3>2 DEF OutcomesLast
  <2>11. AnswersAreResults'
    BY <2>1, <2>2, <2>4, <2>6 DEF AnswersAreResults
  <2>12. WorkersKnow'
    <3>1. \A v \in Workers : AtWork(v) => worker[v].message \in 1 .. n
      <4>1. \A v \in Workers : AtWork(v) => worker[v].message \in 1 .. Fetched
        BY DEF InOrder
      <4>2. 1 .. Fetched \subseteq 1 .. n
        BY <2>0
      <4>3. QED BY <4>1, <4>2
    <3>2. QED BY <2>1, <2>2, <2>4, <3>1 DEF WorkersKnow, AtWork
  <2>13. CrashNeedsSqlFailure'
    BY <2>1 DEF CrashNeedsSqlFailure
  <2>14. QED BY <2>7, <2>8, <2>9, <2>10, <2>11, <2>12, <2>13
(* A client enters with the player its login was answered for. *)
<1>enter. ASSUME PipelineInv, ~crashed, NEW i \in DOMAIN request, EnterGame(i)
          PROVE  PipelineInv'
  <2> USE <1>enter DEF PipelineInv
  <2>1. /\ entered' = entered \union {i} /\ crashed' = ~hasPlayer[request[i].client]
        /\ answer[i] = "ok" /\ request[i].kind = "login"
        /\ UNCHANGED <<request, dbQueue, thread, params, rows, rowcnt, outcome,
                       resultId, results, worker, answer, hasPlayer>>
    BY DEF EnterGame, dbVars, workerVars
  <2>2. i \in Posted /\ i <= Served
    <3>1. i \in Posted
      BY Counts
    <3>2. i <= Fetched
      BY <2>1, <3>1 DEF InOrder
    <3>3. QED BY <3>1, <3>2, Counts DEF Posted
  <2>3. CrashNeedsSqlFailure'
    <3>1. CASE outcome[i] = "failed"
      BY <2>1, <3>1 DEF CrashNeedsSqlFailure
    <3>2. CASE outcome[i] # "failed"
      <4>1. outcome[i] = "ok"
        BY <2>1, <2>2, <3>2 DEF OutcomesLast, AnswersAreResults
      <4>2. hasPlayer[request[i].client]
        BY <2>1, <2>2, <4>1 DEF AnswersAreResults
      <4>3. QED BY <2>1, <4>2 DEF CrashNeedsSqlFailure
    <3>3. QED BY <3>1, <3>2
  <2>4. /\ Taken' = Taken /\ Served' = Served /\ Posted' = Posted /\ Fetched' = Fetched
        /\ Busy' <=> Busy
    BY <2>1 DEF Taken, Served, Busy, Posted, Fetched
  <2>5. PipelineTypes'
    BY <2>1 DEF PipelineTypes
  <2>6. InOrder' /\ OwnStatement' /\ OutcomesLast' /\ AnswersAreResults' /\ WorkersKnow'
    BY <2>1, <2>4 DEF InOrder, AtWork, OwnStatement, OutcomesLast, AnswersAreResults,
       WorkersKnow
  <2>7. QED BY <2>3, <2>5, <2>6
<1>1. Init => PipelineInv
  <2> SUFFICES ASSUME Init PROVE PipelineInv
    OBVIOUS
  <2>1. /\ Posted = {} /\ Len(request) = 0 /\ Len(dbQueue) = 0 /\ Len(results) = 0
        /\ thread[0].at = "waiting" /\ \A w \in Workers : worker[w].at = "waiting"
    BY DEF Init, Posted, Idle, DBThreads, MAX_DB_THREADS
  <2>2. ~Busy /\ Taken = 0 /\ Served = 0 /\ Fetched = 0
    BY <2>1 DEF Busy, Taken, Served, Fetched
  <2>3. PipelineTypes
    <3>1. /\ request \in Seq(Requests) /\ dbQueue \in Seq(Nat) /\ results \in Seq(Nat)
          /\ outcome \in Seq({"waiting", "failed", "ok", "no"})
          /\ resultId \in Seq({"ok", "no"})
          /\ answer \in Seq({"none", "ok", "no"})
          /\ Len(outcome) = Len(request) /\ Len(resultId) = Len(request)
          /\ Len(answer) = Len(request)
      BY DEF Init
    <3>2. /\ thread \in [{0} -> [at : {"waiting", "taken", "idBound", "bound", "counted",
                                       "selected"},
                                 message : Nat]]
          /\ params \in [{0} -> [1 .. 2 -> Nat]] /\ rowcnt \in [{0} -> 0 .. 1]
      BY DEF Init, Idle, DBThreads, MAX_DB_THREADS
    <3>3. /\ rows \in [Credentials -> 0 .. 1] /\ hasPlayer \in [Clients -> BOOLEAN]
          /\ worker \in [Workers -> [at : {"waiting", "success", "fail", "ready"},
                                     message : Nat]]
      BY DEF Init, Idle
    <3>4. QED BY <3>1, <3>2, <3>3 DEF PipelineTypes
  <2>4. InOrder
    BY <2>1, <2>2 DEF InOrder, AtWork
  <2>5. OwnStatement /\ OutcomesLast /\ AnswersAreResults
    BY <2>1 DEF OwnStatement, OutcomesLast, AnswersAreResults
  <2>6. WorkersKnow
    BY <2>1 DEF WorkersKnow
  <2>7. CrashNeedsSqlFailure
    BY DEF Init, CrashNeedsSqlFailure
  <2>8. QED BY <2>3, <2>4, <2>5, <2>6, <2>7 DEF PipelineInv
<1>2. ASSUME PipelineInv, [Next]_vars
      PROVE  PipelineInv'
  <2> USE <1>2
  <2>1. ASSUME ~crashed, NEW r \in Requests, Request(r) PROVE PipelineInv'
    BY <2>1, <1>request
  <2>2. ASSUME ~crashed, NEW i \in DOMAIN request, EnterGame(i) PROVE PipelineInv'
    BY <2>2, <1>enter
  <2>3. ASSUME ~crashed, NEW t \in DBThreads, DBThread(t) PROVE PipelineInv'
    <3>1. t = 0
      BY <2>3 DEF DBThreads, MAX_DB_THREADS
    <3>2. QED BY <2>3, <3>1, <1>take, <1>bind, <1>execute, <1>select, <1>post DEF DBThread
  <2>4. ASSUME ~crashed, NEW w \in Workers, Worker(w) PROVE PipelineInv'
    <3>1. CASE OnResult(w)
      BY <2>4, <3>1, <1>result
    <3>2. CASE OnSuccess(w)
      <4>1. CASE /\ worker[w].at = "success"
                 /\ worker' = [worker EXCEPT ![w].at = "ready"]
        <5>1. worker'[w].at = "ready"
          BY <4>1 DEF PipelineInv, PipelineTypes
        <5>2. QED BY <2>4, <3>2, <5>1, <1>player
      <4>2. CASE /\ \/ worker[w].at = "ready"
                    \/ /\ worker[w].at = "success"
                       /\ request[worker[w].message].kind = "join"
                 /\ worker' = [worker EXCEPT ![w] = Idle]
                 /\ Send(w) /\ UNCHANGED hasPlayer
        BY <2>4, <4>2, <1>send
      <4>3. QED BY <3>2, <4>1, <4>2 DEF OnSuccess
    <3>3. CASE OnFail(w)
      BY <2>4, <3>3, <1>send DEF OnFail
    <3>4. QED BY <2>4, <3>1, <3>2, <3>3 DEF Worker
  <2>5. CASE UNCHANGED vars
    <3>1. UNCHANGED <<request, dbQueue, thread, params, rows, rowcnt, outcome, resultId,
                      results, worker, answer, hasPlayer, entered, crashed>>
      BY <2>5 DEF vars, dbVars, workerVars
    <3>2. /\ Taken' = Taken /\ Served' = Served /\ Posted' = Posted
          /\ Fetched' = Fetched
          /\ Busy' <=> Busy
      BY <3>1 DEF Taken, Served, Busy, Posted, Fetched
    <3>3. PipelineTypes' /\ CrashNeedsSqlFailure'
      BY <3>1 DEF PipelineInv, PipelineTypes, CrashNeedsSqlFailure
    <3>4. InOrder'
      BY <3>1, <3>2 DEF PipelineInv, InOrder, AtWork
    <3>5. OwnStatement' /\ OutcomesLast'
      BY <3>1, <3>2 DEF PipelineInv, OwnStatement, OutcomesLast
    <3>6. AnswersAreResults' /\ WorkersKnow'
      BY <3>1, <3>2 DEF PipelineInv, AnswersAreResults, WorkersKnow
    <3>7. QED BY <3>3, <3>4, <3>5, <3>6 DEF PipelineInv
  <2> QED BY <2>1, <2>2, <2>3, <2>4, <2>5 DEF Next
<1>3. QED BY <1>1, <1>2, PTL DEF Spec

(* A client told that its account was created can log in with it: the row  *)
(* is there, and stays (DBThread.cpp, the stored procedures).              *)
THEOREM JoinIsLasting == Spec => []JoinedCanLogIn
<1>1. PipelineInv => JoinedCanLogIn
  <2> SUFFICES ASSUME PipelineInv, NEW i \in DOMAIN request,
                      request[i].kind = "join", answer[i] = "ok", outcome[i] # "failed"
               PROVE  rows[request[i].account] = 1
    BY DEF JoinedCanLogIn
  <2>1. i \in Posted /\ i <= Served
    <3>1. i \in Posted
      BY Counts DEF PipelineInv
    <3>2. i <= Fetched
      BY <3>1 DEF PipelineInv, InOrder
    <3>3. QED BY <3>1, <3>2, Counts DEF PipelineInv, Posted
  <2>2. outcome[i] = "ok"
    BY <2>1 DEF PipelineInv, OutcomesLast, AnswersAreResults
  <2>3. QED BY <2>1, <2>2 DEF PipelineInv, OutcomesLast
<1>2. QED BY <1>1, PipelineInvariant, PTL

(* Who enters the game has a player, whichever workers have handled its    *)
(* logins, unless the query of one of them has failed (DBThread.cpp).      *)
THEOREM OnlyAFailedQueryCrashes == Spec => []CrashNeedsSqlFailure
<1>1. PipelineInv => CrashNeedsSqlFailure
  BY DEF PipelineInv
<1>2. QED BY <1>1, PipelineInvariant, PTL

(* Requests go through two queues, a procedure of two statements and any   *)
(* worker, and are served as if at one instant each: a Request is a Post,  *)
(* the SELECT of its procedure a Serve, SqlFails a Fail, Send an Answer.   *)
THEOREM AccountsAreServed == Spec => ServesAccounts
<1> DEFINE asked == [i \in DOMAIN request |-> [kind    |-> request[i].kind,
                                               account |-> request[i].account]]
           accounts == {c \in Credentials : rows[c] > 0}
           seen == <<asked, accounts, outcome, answer>>
<1>same. ASSUME UNCHANGED <<request, rows, outcome, answer>>
         PROVE  seen' = seen
  BY <1>same
<1>1. Init => Accounts!Init
  <2> SUFFICES ASSUME Init PROVE Accounts!Init
    OBVIOUS
  <2>1. DOMAIN request = {} /\ request = <<>>
    BY DEF Init
  <2>2. asked = <<>>
    BY <2>1
  <2>3. accounts = {}
    BY DEF Init
  <2>4. QED BY <2>2, <2>3 DEF Init, Accounts!Init
<1>2. ASSUME PipelineInv, [Next]_vars
      PROVE  [Accounts!Next]_seen
  <2> USE <1>2
  <2> PipelineTypes /\ InOrder
    BY DEF PipelineInv
  <2>0. \A i \in DOMAIN request :
            Accounts!Serve(i) \/ Accounts!Fail(i) \/ Accounts!Answer(i) => Accounts!Next
    BY DEF Accounts!Next
  <2>1. ASSUME NEW r \in Requests, Request(r)
        PROVE  Accounts!Next
    <3> DEFINE mapped == [kind |-> r.kind, account |-> r.account]
               n == Len(request)
    <3>1. /\ request' = Append(request, r) /\ outcome' = Append(outcome, "waiting")
          /\ answer' = Append(answer, "none") /\ rows' = rows
      BY <2>1 DEF Request
    <3>2. /\ request' \in Seq(Requests) /\ Len(request') = n + 1 /\ n \in Nat
          /\ \A i \in 1 .. n : request'[i] = request[i]
          /\ request'[n + 1] = r
      BY <3>1, AppendProperties, LenProperties DEF PipelineTypes
    <3>3. DOMAIN request = 1 .. n /\ DOMAIN request' = 1 .. (n + 1)
      BY <3>2, LenProperties DEF PipelineTypes
    <3>4. mapped \in [kind : {"join", "login"}, account : Credentials]
      BY DEF Requests
    <3>5. asked' = Append(asked, mapped)
      <4>1. /\ asked \in Seq([kind : {"join", "login"}, account : Credentials])
            /\ Len(asked) = n
        <5>1. \A i \in 1 .. n : asked[i] \in [kind : {"join", "login"}, account : Credentials]
          BY <3>3, Counts DEF Requests, Posted
        <5>2. asked \in [1 .. n -> [kind : {"join", "login"}, account : Credentials]]
          BY <3>3, <5>1
        <5>3. QED BY <3>2, <5>2, SeqDef, LenProperties
      <4>2. /\ Append(asked, mapped) \in Seq([kind : {"join", "login"},
                                              account : Credentials])
            /\ Len(Append(asked, mapped)) = n + 1
            /\ \A i \in 1 .. n : Append(asked, mapped)[i] = asked[i]
            /\ Append(asked, mapped)[n + 1] = mapped
        BY <3>4, <4>1, AppendProperties
      <4>3. \A i \in 1 .. (n + 1) : asked'[i] = Append(asked, mapped)[i]
        BY <3>2, <3>3, <4>2
      <4>4. Append(asked, mapped) = [i \in 1 .. (n + 1) |-> Append(asked, mapped)[i]]
        BY <4>2, LenProperties
      <4>5. asked' = [i \in 1 .. (n + 1) |-> asked'[i]]
        BY <3>3
      <4>6. QED BY <4>3, <4>4, <4>5
    <3>6. QED BY <3>1, <3>4, <3>5 DEF Accounts!Next, Accounts!Post
  <2>2. ASSUME NEW i \in DOMAIN request, EnterGame(i)
        PROVE  seen' = seen
    BY <2>2, <1>same DEF EnterGame, dbVars, workerVars
  <2>3. ASSUME DBThread(0)
        PROVE  [Accounts!Next]_seen
    <3>1. CASE \/ TakeMessage(0) \/ Execute(0) \/ FetchRow(0)
               \/ BindParamTextA(0, "taken", 1, "idBound")
               \/ BindParamTextA(0, "idBound", 2, "bound")
      BY <3>1, <1>same DEF TakeMessage, Execute, FetchRow, PostDBResult, BindParamTextA,
                           workerVars
    <3>2. CASE SpJoinPlayer(0) \/ SpLoginPlayer(0)
      <4> DEFINE account == request[Taken].account
                 kind == request[Taken].kind
      <4>1. thread[0].at = "counted"
        BY <3>2 DEF SpJoinPlayer, SpLoginPlayer
      <4>2. /\ thread[0].message = Taken /\ rowcnt[0] = rows[account]
            /\ Taken \in Posted /\ Posted = DOMAIN request /\ request[Taken] \in Requests
            /\ outcome[Taken] = "waiting"
        <5>1. Busy /\ thread[0].message = Taken /\ rowcnt[0] = rows[account]
          BY <4>1 DEF PipelineInv, Busy, InOrder, OwnStatement
        <5>2. Taken \in Posted /\ Served = Taken - 1 /\ Taken \in Nat
          BY <5>1, Counts
        <5>3. Taken > Served
          BY <5>2
        <5>4. QED BY <4>1, <5>1, <5>2, <5>3, Counts DEF PipelineInv, OutcomesLast
      <4>3. account \in Credentials /\ Bound(0) = account
        <5>1. account \in Ids \X Passwords
          BY <4>2 DEF Requests, Credentials
        <5>2. Bound(0) = <<account[1], account[2]>>
          BY <4>1 DEF Bound, PipelineInv, OwnStatement
        <5>3. QED BY <5>1, <5>2 DEF Credentials
      <4>4. asked[Taken].kind = kind /\ asked[Taken].account = account
        BY <4>2
      <4>5. rows[account] \in 0 .. 1 /\ (account \in accounts <=> rows[account] = 1)
        BY <4>3 DEF PipelineTypes
      <4>6. /\ UNCHANGED <<request, answer>>
            /\ \/ /\ kind = "join" /\ rows[account] = 0
                  /\ rows' = [rows EXCEPT ![account] = @ + 1]
                  /\ outcome' = [outcome EXCEPT ![Taken] = "ok"]
               \/ /\ kind = "join" /\ rows[account] # 0 /\ rows' = rows
                  /\ outcome' = [outcome EXCEPT ![Taken] = "no"]
               \/ /\ kind = "login" /\ rows' = rows
                  /\ outcome' = [outcome EXCEPT ![Taken] =
                                    IF rows[account] # 1 THEN "no" ELSE "ok"]
        BY <3>2, <4>2, <4>3 DEF SpJoinPlayer, SpLoginPlayer, Select, workerVars
      <4>7. /\ asked' = asked /\ answer' = answer
            /\ outcome' = [outcome EXCEPT ![Taken] = Accounts!Result(asked[Taken])]
        BY <4>4, <4>5, <4>6 DEF Accounts!Result
      <4>8. accounts' = IF asked[Taken].kind = "join" THEN accounts \union {account}
                        ELSE accounts
        <5>1. CASE rows' = rows /\ (kind = "join" => rows[account] # 0)
          <6>1. accounts' = accounts
            BY <5>1
          <6>2. kind = "join" => account \in accounts
            BY <4>5, <5>1
          <6>3. QED BY <4>4, <6>1, <6>2
        <5>2. CASE kind = "join" /\ rows' = [rows EXCEPT ![account] = @ + 1]
          <6>1. /\ rows'[account] > 0
                /\ \A c \in Credentials : c # account => rows'[c] = rows[c]
            BY <4>3, <4>5, <5>2 DEF PipelineTypes
          <6>2. QED BY <4>3, <4>4, <5>2, <6>1
        <5>3. QED BY <4>6, <5>1, <5>2
      <4>9. PICK i \in DOMAIN request : i = Taken
        BY <4>2
      <4>10. Accounts!Serve(i)
        BY <4>2, <4>4, <4>7, <4>8, <4>9 DEF Accounts!Serve
      <4>11. QED BY <2>0, <4>10
    <3>3. CASE SqlFails(0)
      <4>1. /\ thread[0].at \in {"bound", "selected"}
            /\ outcome' = [outcome EXCEPT ![thread[0].message] = "failed"]
            /\ UNCHANGED <<request, rows, answer>>
        BY <3>3 DEF SqlFails, PostDBResult
      <4>2. /\ Busy /\ thread[0].message = Taken /\ Taken \in Posted
            /\ Posted = DOMAIN request
            /\ Taken \in Nat /\ Fetched \in Nat /\ Served \in Nat
            /\ Served = Taken - 1 /\ Fetched <= Served
            /\ outcome[Taken] \in {"waiting", "failed", "ok", "no"}
        <5>1. Busy /\ thread[0].message = Taken
          BY <4>1 DEF Busy, InOrder
        <5>2. QED BY <5>1, Counts
      <4>3. outcome[Taken] # "failed"
        BY <4>2 DEF PipelineInv, OutcomesLast
      <4>4. answer[Taken] = "none"
        BY <4>2 DEF InOrder
      <4>5. Accounts!Fail(Taken)
        BY <4>1, <4>2, <4>3, <4>4 DEF Accounts!Fail
      <4>6. QED BY <2>0, <4>2, <4>5
    <3>4. QED BY <2>3, <3>1, <3>2, <3>3 DEF DBThread
  <2>4. ASSUME NEW w \in Workers, Worker(w)
        PROVE  [Accounts!Next]_seen
    <3> DEFINE m == worker[w].message
    <3>1. CASE OnResult(w)
      BY <3>1, <1>same DEF OnResult, dbVars
    <3>2. CASE AtWork(w) /\ Send(w)
      <4>1. m \in 1 .. Fetched /\ answer[m] = "none"
        BY <3>2 DEF InOrder
      <4>2. /\ m \in Posted /\ Posted = DOMAIN request /\ m <= Served
            /\ Served \in Nat /\ Served <= Taken /\ Taken \in Nat
            /\ Busy => Served < Taken
        BY <4>1, Counts DEF Posted
      <4>3. /\ resultId[m] \in {"ok", "no"}
            /\ outcome[m] \in {"failed", resultId[m]} /\ outcome[m] # "waiting"
        <5>1. resultId[m] \in {"ok", "no"}
          BY <4>2, Counts
        <5>2. outcome[m] # "waiting"
          BY <4>1, <4>2 DEF PipelineInv, OutcomesLast
        <5>3. outcome[m] \in {"failed", resultId[m]}
          BY <4>2 DEF PipelineInv, OutcomesLast
        <5>4. QED BY <5>1, <5>2, <5>3
      <4>4. /\ answer' = [answer EXCEPT ![m] = resultId[m]]
            /\ UNCHANGED <<request, rows, outcome>>
        BY <3>2 DEF Send, dbVars
      <4>5. Accounts!Answer(m)
        BY <4>1, <4>3, <4>4 DEF Accounts!Answer
      <4>6. QED BY <2>0, <4>2, <4>5
    <3>3. CASE UNCHANGED <<request, rows, outcome, answer>>
      BY <3>3, <1>same
    <3>4. OnSuccess(w) => \/ AtWork(w) /\ Send(w)
                          \/ UNCHANGED <<request, rows, outcome, answer>>
      BY DEF OnSuccess, AtWork, dbVars
    <3>5. OnFail(w) => AtWork(w) /\ Send(w)
      BY DEF OnFail, AtWork
    <3>6. QED BY <2>4, <3>1, <3>2, <3>3, <3>4, <3>5 DEF Worker
  <2>5. CASE UNCHANGED vars
    BY <2>5, <1>same DEF vars, dbVars, workerVars
  <2> QED BY <2>1, <2>2, <2>3, <2>4, <2>5 DEF Next, DBThreads, MAX_DB_THREADS
<1>3. QED BY <1>1, <1>2, PipelineInvariant, PTL
          DEF Spec, ServesAccounts, Accounts!Spec
=============================================================================
