------------------------------ MODULE TaskLife ------------------------------
(***************************************************************************)
(* What a caller of the asynchronous database interface may rely on        *)
(* (CResultSelect::AtExecute and CResultQuery::AtExecute,                   *)
(* src/src/engine/server/sql_connect_pool.cpp), without threads, queue or   *)
(* lock: a statement is handed over once, is tried a bounded number of      *)
(* times, and ends in exactly one way that is never revised.                *)
(* SqlPool is shown to implement this specification.                        *)
(***************************************************************************)
EXTENDS Naturals

CONSTANTS Tasks,        \* the statements handed over
          Selects,      \* those that are SELECTs; the others change data
          Throwing,     \* SELECTs whose callback may raise an exception
          MaxRetries(_) \* retries granted to a statement

VARIABLES phase,    \* "unsent", "pending", or how the statement ended
          applied,  \* how often its effect reached the database
          calls     \* how often its callback was entered

lifeVars == <<phase, applied, calls>>

Init == /\ phase = [t \in Tasks |-> "unsent"]
        /\ applied = [t \in Tasks |-> 0]
        /\ calls = [t \in Tasks |-> 0]

\* Any thread hands a statement over.
Submit(t) == /\ phase[t] = "unsent"
             /\ phase' = [phase EXCEPT ![t] = "pending"]
             /\ UNCHANGED <<applied, calls>>

\* The connection broke during a try that is not the last one: the effect may
\* be in the database although nothing came back.
Try(t) == /\ phase[t] = "pending"
          /\ \/ t \notin Selects /\ applied[t] < MaxRetries(t) /\ calls' = calls
                /\ applied' = [applied EXCEPT ![t] = @ + 1]
             \/ t \in Throwing /\ calls[t] < MaxRetries(t) /\ applied' = applied
                /\ calls' = [calls EXCEPT ![t] = @ + 1]
          /\ phase' = phase

\* t ends; its callback may hand over the next statement.
EndAs(t, how) ==
  \/ phase' = [phase EXCEPT ![t] = how]
  \/ \E f \in Tasks \ {t} :
       phase[f] = "unsent" /\ phase' = [phase EXCEPT ![t] = how, ![f] = "pending"]

\* The statement succeeds.
Succeed(t) ==
  /\ phase[t] = "pending" /\ EndAs(t, "ok")
  /\ calls' = [calls EXCEPT ![t] = @ + 1]
  /\ applied' = [applied EXCEPT ![t] = IF t \in Selects THEN @ ELSE @ + 1]

\* The statement fails for good and its callback is told (once more, when the
\* callback is what failed).
Fail(t) ==
  /\ phase[t] = "pending" /\ EndAs(t, "failed")
  /\ \E n \in IF t \in Throwing THEN {1, 2} ELSE {1} :
       calls' = [calls EXCEPT ![t] = @ + n]
  /\ \E a \in IF t \in Selects THEN {0} ELSE {0, 1} :
       applied' = [applied EXCEPT ![t] = @ + a]

\* The pool gives the statement up without telling the callback.
GiveUp(t) == /\ phase[t] = "pending"
             /\ \E how \in {"lost", "refused", "abandoned"} :
                  phase' = [phase EXCEPT ![t] = how]
             /\ UNCHANGED <<applied, calls>>

Next == \E t \in Tasks : Submit(t) \/ Try(t) \/ Succeed(t) \/ Fail(t) \/ GiveUp(t)

Spec == Init /\ [][Next]_lifeVars

=============================================================================
