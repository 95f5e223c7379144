---------------------------- MODULE QosEvaluator ----------------------------
(***************************************************************************)
(* qos-manager: whether an estimate is as accurate, and an answer as fast, *)
(* as the request asked.  The service keeps no state.  A variance is a     *)
(* fraction of square metres, that of both horizontal axes at the equator. *)
(***************************************************************************)
EXTENDS Integers

\* Milliseconds a response time class leaves; an unknown class has the longest.
Deadline(class) ==
    CASE class = "NoDelay" -> 500
      [] class = "LowDelay" -> 1000
      [] class = "DelayTolerant" -> 10000
      [] OTHER -> 30000

IsResponseTimeBreached(elapsed, class) == elapsed > Deadline(class)

\* The deviation over both axes exceeds what was asked; 0 asks for nothing.
HorizontalFails(accuracy, variance) ==
    accuracy > 0 /\ 2 * variance.num > accuracy * accuracy * variance.den

VerticalFails(requested, accuracy, sigmaAlt) == requested /\ accuracy > 0 /\ sigmaAlt > accuracy

EvaluateAccuracyFulfilment(qos, variance, sigmaAlt) ==
    IF HorizontalFails(qos.accuracy, variance) \/ VerticalFails(qos.vertical, qos.altitude, sigmaAlt)
    THEN "ATTEMPTED_FAILED" ELSE "FULFILLED"

\* The two answers of the server.
EvaluateQoS(qos, variance, sigmaAlt, elapsed) ==
    [accuracy |-> EvaluateAccuracyFulfilment(qos, variance, sigmaAlt),
     timeBreached |-> IsResponseTimeBreached(elapsed, qos.response)]
=============================================================================
