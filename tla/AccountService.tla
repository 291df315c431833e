--------------------------- MODULE AccountService ----------------------------
(* What the accounts promise to the clients: every request is served at one *)
(* instant, between its posting and its answer, from the set of accounts,   *)
(* and answered once with the outcome.  Only a query that has failed may be *)
(* answered with anything, and a failed join may have created the account   *)
(* all the same.                                                            *)
EXTENDS Naturals, Sequences

CONSTANTS Credentials

VARIABLES
    request,        \* the requests posted
    accounts,
    outcome,        \* of each request: waiting, failed, ok or no
    answer          \* to each request: none, ok or no

Init == request = <<>> /\ accounts = {} /\ outcome = <<>> /\ answer = <<>>

Post ==
    /\ \E r \in [kind : {"join", "login"}, account : Credentials] :
           request' = Append(request, r)
    /\ outcome' = Append(outcome, "waiting")
    /\ answer' = Append(answer, "none")
    /\ UNCHANGED accounts

Result(r) == IF (r.account \in accounts) <=> (r.kind = "login") THEN "ok" ELSE "no"

Serve(i) ==
    /\ outcome[i] = "waiting"
    /\ outcome' = [outcome EXCEPT ![i] = Result(request[i])]
    /\ accounts' = IF request[i].kind = "join"
                   THEN accounts \union {request[i].account} ELSE accounts
    /\ UNCHANGED <<request, answer>>

Fail(i) ==
    /\ outcome[i] \in {"waiting", "ok", "no"}
    /\ answer[i] = "none"
    /\ outcome' = [outcome EXCEPT ![i] = "failed"]
    /\ UNCHANGED <<request, accounts, answer>>

Answer(i) ==
    /\ answer[i] = "none"
    /\ outcome[i] # "waiting"
    /\ \E result \in {"ok", "no"} :
        /\ outcome[i] \in {"failed", result}
        /\ answer' = [answer EXCEPT ![i] = result]
    /\ UNCHANGED <<request, accounts, outcome>>

Next == Post \/ \E i \in DOMAIN request : Serve(i) \/ Fail(i) \/ Answer(i)

Spec == Init /\ [][Next]_<<request, accounts, outcome, answer>>
=============================================================================
