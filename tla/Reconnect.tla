------------------------------- MODULE Reconnect -------------------------------
(***************************************************************************)
(* run_binance_stream (src/src/streams.rs): the connection to the exchange *)
(* and the back-off between two attempts.  Delays are in milliseconds.      *)
(***************************************************************************)
EXTENDS Integers, Sequences

CONSTANT U32Max     \* where the attempts saturate (bound)

ASSUME AttemptAssumption == U32Max \in Nat

VARIABLES
  conn,      \* "off", "connect", "open" or "backoff"
  attempt,
  delay      \* that of the last back-off

connVars == <<conn, attempt, delay>>

InitialDelay == 500
MaxDelay     == 30000
MaxRetries   == 6

ConnTypeOK ==
  /\ conn \in {"off", "connect", "open", "backoff"}
  /\ attempt \in 0 .. U32Max
  /\ delay \in 0 .. MaxDelay

ConnInit == conn = "off" /\ attempt = 0 /\ delay = 0

Lower(a, b) == IF a < b THEN a ELSE b

(* 1 << n, for n up to MaxRetries: a table, for the provers' arithmetic.     *)
Factors   == <<1, 2, 4, 8, 16, 32, 64>>
Factor(n) == Factors[n + 1]

(* Mutant: the exponent wraps where it should be capped. *)
BackoffWraps(n) == Lower(InitialDelay * Factor(n % (MaxRetries + 1)), MaxDelay)

(* backoff_delay: 1 << min(attempt, 6) half seconds, at most thirty. *)
BackoffDelay(n) == Lower(InitialDelay * Factor(Lower(n, MaxRetries)), MaxDelay)
-----------------------------------------------------------------------------
Start == conn = "off" /\ conn' = "connect" /\ UNCHANGED <<attempt, delay>>

Connected == conn = "connect" /\ conn' = "open" /\ UNCHANGED <<attempt, delay>>

(* connect_async fails, or an open stream fails or is closed by a frame:    *)
(* that is an error too, so that a long session does not reset the attempts.*)
ConnectionError ==
  /\ conn \in {"connect", "open"}
  /\ conn' = "backoff"
  /\ delay' = BackoffDelay(attempt)
  /\ UNCHANGED attempt

(* Mutant: the attempts do not saturate. *)
BackoffOverCounts ==
  /\ conn = "backoff"
  /\ conn' = "connect"
  /\ attempt' = attempt + 1
  /\ UNCHANGED delay

(* sleep(delay), then saturating_add. *)
BackoffOver ==
  /\ conn = "backoff"
  /\ conn' = "connect"
  /\ attempt' = Lower(attempt + 1, U32Max)
  /\ UNCHANGED delay

(* Ok(()): the stream ends without a Close frame. *)
StreamEnds ==
  /\ conn = "open"
  /\ conn' = "connect"
  /\ attempt' = 0
  /\ UNCHANGED delay

ConnNext == Connected \/ ConnectionError \/ BackoffOver \/ StreamEnds
=============================================================================
