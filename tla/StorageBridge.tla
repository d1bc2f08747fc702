--------------------------- MODULE StorageBridge ---------------------------
(***************************************************************************)
(* The circuit breaker through which one API instance calls the storage    *)
(* service.  The fields of StorageBridgeService are shared by all requests *)
(* of the instance; the checks before the fetch are one step, and so is    *)
(* what follows an answer.                                                 *)
(***************************************************************************)
EXTENDS Naturals, Sequences

CONSTANTS
  Callers,    \* requests that call the storage service
  Threshold,  \* CIRCUIT_FAILURE_THRESHOLD
  Cooldown,   \* CIRCUIT_COOLDOWN_MS, in ticks
  Timeout     \* this.timeout, in ticks

ASSUME BridgeAssumption == /\ Threshold \in Nat \ {0} /\ Cooldown \in Nat \ {0}
                           /\ Timeout \in Nat

VARIABLES
  failures,  \* consecutiveFailures, as far as Threshold: no one tells it apart from more
  wait,      \* the ticks until circuitOpenUntil; 0 if it is null or past
  call,      \* whether a caller's request is sent, or its answer is being read
  age,       \* the ticks a sent request has waited for the headers of its answer
  outcomes,  \* history: how the last Threshold calls ended
  quiet      \* history: the ticks that storage must be left alone

bridgeVars == <<failures, wait, call, age, outcomes, quiet>>

BridgeTypeOK ==
  /\ failures \in 0..Threshold
  /\ wait \in 0..Cooldown
  /\ call \in [Callers -> {"idle", "sent", "reading"}]
  /\ age \in [Callers -> 0..Timeout]
  /\ outcomes \in Seq({"ok", "failed"}) /\ Len(outcomes) <= Threshold
  /\ quiet \in 0..Cooldown

InitBridge ==
  /\ failures = 0 /\ wait = 0
  /\ call = [c \in Callers |-> "idle"] /\ age = [c \in Callers |-> 0]
  /\ outcomes = <<>> /\ quiet = 0

\* The last outcomes with one more.
Recent(outcome) ==
  LET all == Append(outcomes, outcome) IN
  IF Len(all) > Threshold THEN Tail(all) ELSE all

AllFailed(list) == Len(list) = Threshold /\ \A i \in 1..Threshold : list[i] = "failed"
-----------------------------------------------------------------------------
\* Faulty: a call that is turned away counts as a failure, too.
TurnAwayCounted(c) ==
  /\ call[c] = "idle" /\ wait > 0
  /\ wait' = Cooldown
  /\ UNCHANGED <<failures, call, age, outcomes, quiet>>

\* Faulty: the breaker opens at the threshold only, not beyond it.
FailOnce(c) ==
  /\ call[c] # "idle"
  /\ failures' = IF failures < Threshold THEN failures + 1 ELSE failures
  /\ wait' = IF failures' = Threshold /\ failures < Threshold THEN Cooldown ELSE wait
  /\ call' = [call EXCEPT ![c] = "idle"] /\ age' = [age EXCEPT ![c] = 0]
  /\ outcomes' = Recent("failed")
  /\ quiet' = IF AllFailed(outcomes') THEN Cooldown ELSE quiet
-----------------------------------------------------------------------------
Call(c) ==
  /\ call[c] = "idle" /\ wait = 0
  /\ call' = [call EXCEPT ![c] = "sent"]
  /\ UNCHANGED <<failures, wait, age, outcomes, quiet>>

\* The error of an open breaker is thrown outside the try.
TurnAway(c) ==
  /\ call[c] = "idle" /\ wait > 0
  /\ UNCHANGED bridgeVars

\* The headers stop the timer of the abort; the body may take any time.
Answer(c) ==
  /\ call[c] = "sent"
  /\ call' = [call EXCEPT ![c] = "reading"] /\ age' = [age EXCEPT ![c] = 0]
  /\ UNCHANGED <<failures, wait, outcomes, quiet>>

\* A 204, or a body that says success.
Succeed(c) ==
  /\ call[c] = "reading"
  /\ failures' = 0
  /\ call' = [call EXCEPT ![c] = "idle"]
  /\ outcomes' = Recent("ok")
  /\ UNCHANGED <<wait, age, quiet>>

\* No connection, the abort, or any error status, the client's own too.
Fail(c) ==
  /\ call[c] # "idle"
  /\ failures' = IF failures < Threshold THEN failures + 1 ELSE failures
  /\ wait' = IF failures' = Threshold THEN Cooldown ELSE wait
  /\ call' = [call EXCEPT ![c] = "idle"] /\ age' = [age EXCEPT ![c] = 0]
  /\ outcomes' = Recent("failed")
  /\ quiet' = IF AllFailed(outcomes') THEN Cooldown ELSE quiet

\* A call that has waited for Timeout is aborted before time goes on.
Tick ==
  /\ \A c \in Callers : call[c] = "sent" => age[c] < Timeout
  /\ age' = [c \in Callers |-> IF call[c] = "sent" THEN age[c] + 1 ELSE 0]
  /\ wait' = IF wait > 0 THEN wait - 1 ELSE 0
  /\ quiet' = IF quiet > 0 THEN quiet - 1 ELSE 0
  /\ UNCHANGED <<failures, call, outcomes>>
-----------------------------------------------------------------------------
NextBridge ==
  \/ \E c \in Callers : Call(c) \/ TurnAway(c) \/ Answer(c) \/ Succeed(c) \/ Fail(c)
  \/ Tick

\* Time passes, and the abort of an overdue call is a timer's callback.
BridgeFairness ==
  /\ WF_bridgeVars(Tick)
  /\ \A c \in Callers : WF_bridgeVars(age[c] = Timeout /\ Fail(c))

BridgeSpec == InitBridge /\ [][NextBridge]_bridgeVars /\ BridgeFairness
-----------------------------------------------------------------------------
\* "Fails fast after 5 consecutive failures (30s cooldown)": when the last
\* Threshold calls to end have failed, no call reaches the storage service
\* until Cooldown has passed since, whatever calls from before the trip end
\* well or badly meanwhile.
LeftAlone ==
  [][\A c \in Callers : call[c] = "idle" /\ call'[c] # "idle" => quiet = 0]_bridgeVars

\* The breaker closes again although every request is retried at once: those
\* it turns away do not keep it open, and the calls in flight that can still
\* fail run out.
ClosesAgain == wait > 0 ~> wait = 0
=============================================================================
