--------------------------- MODULE ConnectionPool ---------------------------
(***************************************************************************)
(* The Postgres connection pool of store/postgres/src/connection_pool.rs:  *)
(* an r2d2 pool of pool_size connections with connection_timeout, and the *)
(* EventHandler the pool calls on each checkout, timeout and checkin.      *)
(* Worker threads of the node (block stream, query) ask for connections.   *)
(*                                                                         *)
(* The pool itself is r2d2's: a request waits until a connection is idle  *)
(* or the timeout has passed.  The handlers are this code's: handle_checkout*)
(* increments the checkout gauge and records the wait, handle_timeout      *)
(* records the wait, handle_checkin decrements the gauge.  add_wait_time   *)
(* runs after the gauge moved; the wait statistics and the log line it     *)
(* writes are left out.  Time is counted in ticks; a clock per waiting     *)
(* worker is capped at the timeout.                                        *)
(***************************************************************************)
EXTENDS Integers, FiniteSets

CONSTANTS
  Workers,       \* threads that check connections out
  PoolSize,      \* pool_size: max_size of the pool
  TimeoutTicks,  \* connection_timeout (6h, or 30s under cfg!(test))
  MaxErrors      \* bound on connection errors reported to the ErrorHandler

VARIABLES
  pc,        \* pc[w]: idle, wait, checkout/timeout (in add_wait_time), hold
  waited,    \* waited[w]: ticks w has waited for a connection
  gauge,     \* store_connection_checkout_count
  errors     \* store_connection_error_count

vars == <<pc, waited, gauge, errors>>

States == {"idle", "wait", "checkout", "timeout", "hold"}

TypeOK ==
  /\ pc \in [Workers -> States]
  /\ waited \in [Workers -> 0..TimeoutTicks]
  /\ gauge \in 0..PoolSize
  /\ errors \in 0..MaxErrors

Init ==
  /\ pc = [w \in Workers |-> "idle"]
  /\ waited = [w \in Workers |-> 0]
  /\ gauge = 0
  /\ errors = 0

Holders == {w \in Workers : pc[w] \in {"checkout", "hold"}}

\* connection_timeout(timeout_seconds), in ticks.
ConnectionTimeout == TimeoutTicks

\* A worker asks the pool for a connection (Pool::get).
Request(w) ==
  /\ pc[w] = "idle"
  /\ pc' = [pc EXCEPT ![w] = "wait"]
  /\ waited' = [waited EXCEPT ![w] = 0]
  /\ UNCHANGED <<gauge, errors>>

\* Time passes for everyone who waits.
Tick ==
  /\ waited' = [w \in Workers |-> IF pc[w] = "wait" /\ waited[w] < TimeoutTicks
                                     THEN waited[w] + 1 ELSE waited[w]]
  /\ waited' # waited
  /\ UNCHANGED <<pc, gauge, errors>>

\* The pool hands w an idle connection and calls handle_checkout: the gauge
\* goes up, then add_wait_time runs.
Checkout(w) ==
  /\ pc[w] = "wait"
  /\ Cardinality(Holders) < PoolSize
  /\ waited[w] < ConnectionTimeout
  /\ gauge' = gauge + 1
  /\ pc' = [pc EXCEPT ![w] = "checkout"]
  /\ UNCHANGED <<waited, errors>>

\* Fault: handle_timeout raises the checkout gauge as handle_checkout does.
TimeoutCountingCheckout(w) ==
  /\ pc[w] = "wait"
  /\ waited[w] = ConnectionTimeout
  /\ pc' = [pc EXCEPT ![w] = "timeout"]
  /\ gauge' = gauge + 1
  /\ UNCHANGED <<waited, errors>>

\* The wait reached connection_timeout: the pool calls handle_timeout, which
\* runs add_wait_time too; the caller gets an error.
Timeout(w) ==
  /\ pc[w] = "wait"
  /\ waited[w] = ConnectionTimeout
  /\ pc' = [pc EXCEPT ![w] = "timeout"]
  /\ UNCHANGED <<waited, gauge, errors>>

\* add_wait_time completes (the sample is added under the wait_stats lock
\* and the average perhaps logged).  The checkout returns the connection,
\* the timeout an error.
RecordWait(w) ==
  /\ pc[w] \in {"checkout", "timeout"}
  /\ pc' = [pc EXCEPT ![w] = IF pc[w] = "checkout" THEN "hold" ELSE "idle"]
  /\ UNCHANGED <<waited, gauge, errors>>

\* Fault: handle_checkin leaves the gauge as it is.
CheckinKeepingGauge(w) ==
  /\ pc[w] = "hold"
  /\ pc' = [pc EXCEPT ![w] = "idle"]
  /\ UNCHANGED <<waited, gauge, errors>>

\* The connection goes back to the pool: handle_checkin lowers the gauge.
Checkin(w) ==
  /\ pc[w] = "hold"
  /\ gauge' = gauge - 1
  /\ pc' = [pc EXCEPT ![w] = "idle"]
  /\ UNCHANGED <<waited, errors>>

\* Opening a connection failed: ErrorHandler::handle_error counts it.
ConnectionError ==
  /\ errors < MaxErrors
  /\ errors' = errors + 1
  /\ UNCHANGED <<pc, waited, gauge>>

Next ==
  \/ \E w \in Workers :
       \/ Request(w) \/ Checkout(w) \/ Timeout(w) \/ RecordWait(w) \/ Checkin(w)
  \/ Tick
  \/ ConnectionError

Spec == Init /\ [][Next]_vars

-----------------------------------------------------------------------------
\* store_connection_checkout_count is the number of connections checked
\* out: handle_checkout raises it for every connection handed out (before
\* add_wait_time), handle_checkin lowers it, and handle_timeout, which also
\* goes through add_wait_time, leaves it alone.
GaugeMatchesCheckouts == gauge = Cardinality(Holders)

=============================================================================
