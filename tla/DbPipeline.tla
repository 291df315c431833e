------------------------------ MODULE DbPipeline -----------------------------
(***************************************************************************)
(* Joining and logging in: the packet handler posts a DBMessage to the DB  *)
(* thread (DBManager), which binds its parameters, runs a stored procedure *)
(* and posts the message on to the workers of the completion port, one of  *)
(* which sends the answer.  The client enters the game on a ReturnLogin    *)
(* whose result is 0.                                                      *)
(*                                                                         *)
(* BindParamTextA binds the pointer, not the text, and always to the first *)
(* statement, sqlConnPool[0], whatever thread calls it.                    *)
(*                                                                         *)
(* Of a result, "ok" stands for 0 and "no" for any other number.           *)
(***************************************************************************)
EXTENDS Integers, Sequences, FiniteSets, SequencesExt

CONSTANTS
    Clients,
    Ids, Passwords,
    Long,               \* the passwords of more than 20 characters
    Workers,
    MaxRequests         \* bound: requests of all clients

ASSUME DbPipelineAssumption ==
    /\ Workers # {}
    /\ MaxRequests \in Nat

Credentials == Ids \X Passwords
Messages == 1..MaxRequests

(* Fault: MAX_DB_THREADS is raised, as its name invites one to. *)
TwoDBThreads == 2

MAX_DB_THREADS == 1

DBThreads == 0 .. MAX_DB_THREADS - 1

VARIABLES
    request,        \* the messages posted: client, kind, account
    dbQueue,        \* the completion port of the DB thread
    thread,         \* where each DB thread is, and with which message
    params,         \* of each statement: the messages whose id and pwd are bound
    rows,           \* the table Player: how many rows an account has
    rowcnt,         \* @rowcnt of the procedure each DB thread runs
    outcome,        \* of each message: waiting, failed, or what was selected
    resultId,       \* of each message
    results,        \* the messages in the workers' completion port
    worker,         \* where each worker is, and with which message
    answer,         \* the result sent for each message, or none
    hasPlayer,      \* the session has a currentPlayer
    entered,        \* the logins that were followed by a RequestEnterGame
    crashed         \* a null currentPlayer has been used

dbVars == <<dbQueue, thread, params, rows, rowcnt, outcome>>
workerVars == <<results, worker, answer, hasPlayer>>
vars == <<request, dbVars, resultId, workerVars, entered, crashed>>

Requests == [client : Clients, kind : {"join", "login"}, account : Credentials]

TypeOK ==
    /\ request \in BoundedSeq(Requests, MaxRequests)
    /\ dbQueue \in BoundedSeq(Messages, MaxRequests)
    /\ thread \in [DBThreads -> [at : {"waiting", "taken", "idBound", "bound",
                                       "counted", "selected"},
                                 message : Messages \union {0}]]
    /\ params \in [DBThreads -> [1..2 -> Messages \union {0}]]
    /\ rows \in [Credentials -> 0..MaxRequests]
    /\ rowcnt \in [DBThreads -> 0..MaxRequests]
    /\ DOMAIN outcome = DOMAIN request
    /\ \A i \in DOMAIN request :
        /\ outcome[i] \in {"waiting", "failed", "ok", "no"}
        /\ resultId[i] \in {"ok", "no"}
        /\ answer[i] \in {"none", "ok", "no"}
    /\ results \in BoundedSeq(Messages, MaxRequests)
    /\ worker \in [Workers -> [at : {"waiting", "success", "fail", "ready"},
                               message : Messages \union {0}]]
    /\ hasPlayer \in [Clients -> BOOLEAN]
    /\ entered \subseteq Messages
    /\ crashed \in BOOLEAN

Idle == [at |-> "waiting", message |-> 0]

Init ==
    /\ request = <<>> /\ outcome = <<>> /\ resultId = <<>> /\ answer = <<>>
    /\ dbQueue = <<>>
    /\ thread = [t \in DBThreads |-> Idle]
    /\ params = [t \in DBThreads |-> <<0, 0>>]
    /\ rows = [c \in Credentials |-> 0]
    /\ rowcnt = [t \in DBThreads |-> 0]
    /\ results = <<>>
    /\ worker = [w \in Workers |-> Idle]
    /\ hasPlayer = [c \in Clients |-> FALSE]
    /\ entered = {}
    /\ crashed = FALSE
-----------------------------------------------------------------------------
(* PostDBMessage, with resultId as new leaves it.  A join with a long      *)
(* password is dropped without an answer.                                  *)
Request(r) ==
    /\ Len(request) < MaxRequests
    /\ ~(r.kind = "join" /\ r.account[2] \in Long)
    /\ request' = Append(request, r)
    /\ dbQueue' = Append(dbQueue, Len(request) + 1)
    /\ outcome' = Append(outcome, "waiting")
    /\ answer' = Append(answer, "none")
    /\ \E indeterminate \in {"ok", "no"} : resultId' = Append(resultId, indeterminate)
    /\ UNCHANGED <<thread, params, rows, rowcnt, results, worker, hasPlayer,
                   entered, crashed>>

(* The client's answer to a ReturnLogin is a RequestEnterGame, whose       *)
(* handler reads session->currentPlayer->playerId first of all.            *)
EnterGame(i) ==
    /\ request[i].kind = "login"
    /\ answer[i] = "ok"
    /\ i \notin entered
    /\ entered' = entered \union {i}
    /\ crashed' = ~hasPlayer[request[i].client]
    /\ UNCHANGED <<request, dbVars, resultId, workerVars>>
-----------------------------------------------------------------------------
(* DBWorkerThread *)

Moves(t, at) == thread' = [thread EXCEPT ![t].at = at]

TakeMessage(t) ==
    /\ thread[t].at = "waiting"
    /\ dbQueue # <<>>
    /\ thread' = [thread EXCEPT ![t] = [at |-> "taken", message |-> Head(dbQueue)]]
    /\ dbQueue' = Tail(dbQueue)
    /\ UNCHANGED <<request, params, rows, rowcnt, outcome, resultId, workerVars,
                   entered, crashed>>

BindParamTextA(t, from, n, to) ==
    /\ thread[t].at = from
    /\ params' = [params EXCEPT ![0][n] = thread[t].message]
    /\ Moves(t, to)
    /\ UNCHANGED <<request, dbQueue, rows, rowcnt, outcome, resultId, workerVars,
                   entered, crashed>>

(* The account that Execute passes to the procedure. *)
Bound(t) == <<request[params[t][1]].account[1], request[params[t][2]].account[2]>>

Execute(t) ==
    /\ thread[t].at = "bound"
    /\ 0 \notin {params[t][1], params[t][2]}
    /\ rowcnt' = [rowcnt EXCEPT ![t] = rows[Bound(t)]]
    /\ Moves(t, "counted")
    /\ UNCHANGED <<request, dbQueue, params, rows, outcome, resultId, workerVars,
                   entered, crashed>>

Select(t, result) ==
    /\ outcome' = [outcome EXCEPT ![thread[t].message] = result]
    /\ Moves(t, "selected")
    /\ UNCHANGED <<request, dbQueue, params, rowcnt, resultId, workerVars,
                   entered, crashed>>

(* Fault: spJoinPlayer inserts the row whatever the count. *)
SpJoinInsertsAlways(t) ==
    /\ thread[t].at = "counted"
    /\ request[thread[t].message].kind = "join"
    /\ rows' = [rows EXCEPT ![Bound(t)] = @ + 1]
    /\ Select(t, IF rowcnt[t] = 0 THEN "ok" ELSE "no")

SpJoinPlayer(t) ==
    /\ thread[t].at = "counted"
    /\ request[thread[t].message].kind = "join"
    /\ \/ /\ rowcnt[t] = 0
          /\ rows' = [rows EXCEPT ![Bound(t)] = @ + 1]
          /\ Select(t, "ok")
       \/ /\ rowcnt[t] # 0
          /\ UNCHANGED rows
          /\ Select(t, "no")

SpLoginPlayer(t) ==
    /\ thread[t].at = "counted"
    /\ request[thread[t].message].kind = "login"
    /\ UNCHANGED rows
    /\ Select(t, IF rowcnt[t] # 1 THEN "no" ELSE "ok")

(* ~DBHelper resets the statement of the thread; PostDBResult. *)
PostDBResult(t) ==
    /\ params' = [params EXCEPT ![t] = <<0, 0>>]
    /\ results' = Append(results, thread[t].message)
    /\ thread' = [thread EXCEPT ![t] = Idle]
    /\ UNCHANGED <<request, dbQueue, rows, rowcnt, worker, answer, hasPlayer,
                   entered, crashed>>

FetchRow(t) ==
    /\ thread[t].at = "selected"
    /\ resultId' = [resultId EXCEPT ![thread[t].message] =
                        outcome[thread[t].message]]
    /\ UNCHANGED outcome
    /\ PostDBResult(t)

(* Fault: a message whose query has failed is not posted on. *)
SqlFailsSilently(t) ==
    /\ thread[t].at \in {"bound", "selected"}
    /\ thread' = [thread EXCEPT ![t] = Idle]
    /\ outcome' = [outcome EXCEPT ![thread[t].message] = "failed"]
    /\ UNCHANGED <<request, dbQueue, params, rows, rowcnt, resultId, workerVars,
                   entered, crashed>>

(* Execute or FetchRow returns false; resultId keeps what new has left.    *)
SqlFails(t) ==
    /\ thread[t].at \in {"bound", "selected"}
    /\ outcome' = [outcome EXCEPT ![thread[t].message] = "failed"]
    /\ UNCHANGED resultId
    /\ PostDBResult(t)

DBThread(t) ==
    \/ TakeMessage(t)
    \/ BindParamTextA(t, "taken", 1, "idBound")
    \/ BindParamTextA(t, "idBound", 2, "bound")
    \/ Execute(t) \/ SpJoinPlayer(t) \/ SpLoginPlayer(t)
    \/ FetchRow(t) \/ SqlFails(t)
-----------------------------------------------------------------------------
(* WorkerThreadFunc, for CK_DB *)

(* isSuccess, as OnSqlExecute has returned it. *)
IsSuccess(i) == outcome[i] = "ok"

OnResult(w) ==
    /\ worker[w].at = "waiting"
    /\ results # <<>>
    /\ worker' = [worker EXCEPT ![w] =
           [at |-> IF IsSuccess(Head(results)) THEN "success" ELSE "fail",
            message |-> Head(results)]]
    /\ results' = Tail(results)
    /\ UNCHANGED <<request, dbVars, resultId, answer, hasPlayer, entered, crashed>>

Send(w) ==
    /\ answer' = [answer EXCEPT ![worker[w].message] = resultId[worker[w].message]]
    /\ UNCHANGED <<request, dbVars, resultId, results, entered, crashed>>

(* Fault: OnSuccess sends the answer before it sets currentPlayer. *)
SendThenSetPlayer(w) ==
    \/ /\ worker[w].at = "success"
       /\ Send(w)
       /\ worker' = [worker EXCEPT ![w].at = "ready"]
       /\ UNCHANGED hasPlayer
    \/ /\ worker[w].at = "ready"
       /\ hasPlayer' = [hasPlayer EXCEPT ![request[worker[w].message].client] = TRUE]
       /\ worker' = [worker EXCEPT ![w] = Idle]
       /\ UNCHANGED <<request, dbVars, resultId, results, answer, entered, crashed>>

(* A login takes a player and makes it the session's currentPlayer, then   *)
(* sends; a join only sends.                                               *)
OnSuccess(w) ==
    \/ /\ worker[w].at = "success"
       /\ request[worker[w].message].kind = "login"
       /\ hasPlayer' = [hasPlayer EXCEPT ![request[worker[w].message].client] = TRUE]
       /\ worker' = [worker EXCEPT ![w].at = "ready"]
       /\ UNCHANGED <<request, dbVars, resultId, results, answer, entered, crashed>>
    \/ /\ \/ worker[w].at = "ready"
          \/ /\ worker[w].at = "success"
             /\ request[worker[w].message].kind = "join"
       /\ worker' = [worker EXCEPT ![w] = Idle]
       /\ Send(w)
       /\ UNCHANGED hasPlayer

OnFail(w) ==
    /\ worker[w].at = "fail"
    /\ worker' = [worker EXCEPT ![w] = Idle]
    /\ Send(w)
    /\ UNCHANGED hasPlayer

Worker(w) == OnResult(w) \/ OnSuccess(w) \/ OnFail(w)
-----------------------------------------------------------------------------
Next ==
    /\ ~crashed
    /\ \/ \E r \in Requests : Request(r)
       \/ \E i \in DOMAIN request : EnterGame(i)
       \/ \E t \in DBThreads : DBThread(t)
       \/ \E w \in Workers : Worker(w)

Spec == Init /\ [][Next]_vars

(* The DB thread and the workers loop for ever. *)
FairSpec ==
    /\ Spec
    /\ \A t \in DBThreads : WF_vars(~crashed /\ DBThread(t))
    /\ \A w \in Workers : WF_vars(~crashed /\ Worker(w))
-----------------------------------------------------------------------------
(* The accounts are served as AccountService says, although a request goes *)
(* through two queues, a procedure of two statements and any worker: no    *)
(* answer mixes two requests, and two joins of one account do not both     *)
(* succeed.  It rests on MAX_DB_THREADS being 1.                           *)
Accounts == INSTANCE AccountService WITH
    request <- [i \in DOMAIN request |-> [kind    |-> request[i].kind,
                                          account |-> request[i].account]],
    accounts <- {c \in Credentials : rows[c] > 0}

ServesAccounts == Accounts!Spec

(* Whoever has been told that a join was successful can log in: the        *)
(* account has one row.  spLoginPlayer refuses an account with two.  Only  *)
(* a failed query leaves a join with a result that says nothing.           *)
JoinedCanLogIn ==
    \A i \in DOMAIN request :
        (request[i].kind = "join" /\ answer[i] = "ok" /\ outcome[i] # "failed")
            => rows[request[i].account] = 1

(* A client enters the game with a null currentPlayer only if the query of *)
(* one of its logins has failed and resultId happened to be 0.             *)
CrashNeedsSqlFailure ==
    crashed => \E i \in entered : outcome[i] = "failed"

(* Every request that was posted is answered, even when its query fails.   *)
Answered ==
    \A i \in Messages :
        (i \in DOMAIN request) ~>
            (crashed \/ (i \in DOMAIN answer /\ answer[i] # "none"))
=============================================================================
