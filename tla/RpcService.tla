----------------------------- MODULE RpcService -----------------------------
(***************************************************************************)
(* What IpcClient::send promises its callers: a request is executed at     *)
(* most once; Ok is returned only after this very request was executed,    *)
(* with its own answer; Err says nothing about whether it was, or will be. *)
(***************************************************************************)
EXTENDS Naturals

CONSTANT Requests

VARIABLES status,    \* "new" | "pending" | "ok" | "err", per request
          executed,  \* the requests the daemon has executed
          answer     \* whose answer the caller of a request was given; 0 for none

svars == <<status, executed, answer>>

Init == /\ status = [r \in Requests |-> "new"]
        /\ executed = {}
        /\ answer = [r \in Requests |-> 0]

Return(r, s) == status' = [status EXCEPT ![r] = s]

Invoke(r) == status[r] = "new" /\ Return(r, "pending") /\ UNCHANGED <<executed, answer>>

\* Also after an Err: the daemon goes on with what the client gave up.
Execute(S) == /\ \A r \in S : status[r] \in {"pending", "err"} /\ r \notin executed
              /\ executed' = executed \cup S
              /\ UNCHANGED <<status, answer>>

ReturnOk(r) == /\ status[r] = "pending" /\ r \in executed
               /\ Return(r, "ok")
               /\ answer' = [answer EXCEPT ![r] = r]
               /\ UNCHANGED executed

ReturnErr(r) == status[r] = "pending" /\ Return(r, "err") /\ UNCHANGED <<executed, answer>>

Next == \/ \E r \in Requests : Invoke(r) \/ ReturnOk(r) \/ ReturnErr(r)
        \/ \E S \in SUBSET Requests : Execute(S)

Spec == Init /\ [][Next]_svars
=============================================================================
