----------------------------- MODULE Admission ------------------------------
(***************************************************************************)
(* The admission webhook (pkg/admission): which TApps it lets the API      *)
(* server store.  A check is TRUE when it adds no error.                   *)
(***************************************************************************)
EXTENDS TAppPlan

\* IsValidPercent: digits and a percent sign
isPercent(v) == v.kind = "percent" /\ v.val >= 0

getPercentValue(v) == IF isPercent(v) THEN v.val ELSE 0

validatePositiveIntOrPercent(v) == IF v.kind = "int" THEN v.val >= 0 ELSE isPercent(v)

isNotMoreThan100Percent(v) == isPercent(v) => getPercentValue(v) <= 100

\* Faulty variant: a percentage may be zero.
isNotZeroInt(v) == v.kind = "int" => v.val # 0

\* IntVal of a string is 0, so what is no percentage is refused here as well
isNotZero(v) == IF isPercent(v) THEN getPercentValue(v) # 0 ELSE v.kind = "int" /\ v.val # 0

validateIntOrPercent(v) ==
    validatePositiveIntOrPercent(v) /\ isNotMoreThan100Percent(v) /\ isNotZero(v)

\* An unset pointer is not looked at
validateTAppUpdateStrategy(spec) ==
    \A v \in {spec.maxUnavailable, spec.forceMaxUnavailable} :
       v.kind # "nil" => validateIntOrPercent(v)

validateTAppSpec(spec) == validateTAppUpdateStrategy(spec)

validate(app) == validateTAppSpec(app.spec)

\* The layer of a request that is garbled, if any; "request": the review holds none
Garbled == {"contentType", "review", "request", "object", "none"}

validateHandler(app, garbled) == garbled # "object" /\ validate(app)

\* What the API server learns.  The answer to a review without a request needs the request's
\* UID, and there is none: the handler panics, and the connection is closed.
Serve(app, garbled) ==
    IF garbled \in {"contentType", "review", "request"} THEN "failed"
    ELSE IF validateHandler(app, garbled) THEN "allowed" ELSE "denied"
=============================================================================
