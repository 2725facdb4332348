---------------------------- MODULE ClientProofs ----------------------------
(***************************************************************************)
(* Proofs about the two ends of the HTTP and WebSocket interface: the      *)
(* client's calls (ClientRequests), its streams (ClientStream) and the     *)
(* join in the route for open interest (OpenInterestJoin), for any calls,  *)
(* retries, buffer and bounds.                                             *)
(***************************************************************************)
EXTENDS MCClient, FiniteSetTheorems, SequenceTheorems, TLAPS

\* The bounds are numbers.
LEMMA Bounds ==
  /\ MaxRetries \in Nat /\ Buffer \in Nat /\ MaxMessage \in Nat /\ MaxFaults \in Nat
  /\ MaxTime \in Nat \ {0} /\ MaxLimit \in Nat \ {0}
  /\ Buffer > 1
BY BoundsAssumption

-----------------------------------------------------------------------------
(* ClientRequests *)

\* What is right of one call: how it ended, and that what capabilities rule out has
\* not got to the route.
CallRight(c) ==
    /\ stage[c] = "idle" /\ result[c] # Request!Nothing =>
        /\ \/ last[c] \in Request!Reasons(result[c].kind)
           \/ wrong[c] # "nothing" /\ result[c].kind \in Request!Blames
        /\ wrong[c] # "nothing" /\ result[c].kind = "frame" =>
               \/ result[c].rows = "empty" /\ result[c].flagged
               \/ wrong[c] = "symbol" /\ route[c] = "ratio"
    /\ stage[c] = "idle" /\ ~failed =>
        /\ wrong[c] \in {"route", "interval"} => last[c] = "none"
        /\ result[c].rows = "short" /\ route[c] # "liquidations" => result[c].flagged
    /\ stage[c] \in {"route", "route_pause"} /\ ~failed /\ wrong[c] # "exchange" =>
        /\ capabilities["listed"] = "known"
        /\ wrong[c] \notin {"route", "interval"}

\* A call that ends must have done so rightly, and so must each that is on its way;
\* the capabilities are empty only once a fetch of them has failed.
RequestInv ==
    part = "requests" =>
        /\ Request!TypeOK
        /\ DOMAIN result = Calls
        /\ ~failed => capabilities["listed"] \in {"missing", "known"}
        /\ \A c \in Calls : CallRight(c)

Stages == {"idle", "capabilities", "capabilities_pause", "route", "route_pause"}
Lasts  == Request!AllAnswers \cup {"none", "lost"}

\* A step of one call leaves the others as they are.
LEMMA CallStepKeeps ==
  ASSUME part = "requests", RequestInv, NEW c \in Calls, UNCHANGED part,
         capabilities' \in [Request!Exchanges -> {"missing", "known", "empty"}],
         stage' \in [Calls -> Stages],
         route' \in [Calls -> Request!Routes],
         wrong' \in [Calls -> Request!Wrongs],
         attempt' \in [Calls -> 0..MaxRetries],
         last' \in [Calls -> Lasts],
         failed' \in BOOLEAN, failed => failed',
         ~failed' /\ capabilities["listed"] = "known" => capabilities'["listed"] = "known",
         ~failed' => capabilities'["listed"] \in {"missing", "known"},
         DOMAIN result' = Calls,
         \A d \in Calls \ {c} : /\ stage'[d] = stage[d] /\ result'[d] = result[d]
                                /\ wrong'[d] = wrong[d] /\ route'[d] = route[d]
                                /\ last'[d] = last[d],
         CallRight(c)'
  PROVE  RequestInv'
<1>1. Request!TypeOK'
  BY DEF Request!TypeOK, Stages, Lasts
<1>2. ASSUME NEW d \in Calls, d # c PROVE CallRight(d)'
  <2>1. CallRight(d)
    BY DEF RequestInv
  <2>2. /\ stage'[d] = stage[d] /\ result'[d] = result[d] /\ wrong'[d] = wrong[d]
        /\ route'[d] = route[d] /\ last'[d] = last[d]
    BY <1>2
  <2>. QED
    BY <2>1, <2>2 DEF CallRight
<1>. QED
  BY <1>1, <1>2 DEF RequestInv

\* The calls before they get to the route.
LEMMA PreflightIsRight ==
  ASSUME part = "requests", RequestInv, NEW c \in Calls, NEW w \in Request!Wrongs,
         NEW known, Request!Preflight(c, w, known), wrong'[c] = w,
         w # "exchange" /\ ~failed' => known = "known" /\ capabilities'["listed"] = "known"
  PROVE  /\ stage' \in [Calls -> Stages]
         /\ attempt' \in [Calls -> 0..MaxRetries]
         /\ last' \in [Calls -> Lasts]
         /\ DOMAIN result' = Calls
         /\ \A d \in Calls \ {c} : /\ stage'[d] = stage[d] /\ result'[d] = result[d]
                                   /\ last'[d] = last[d]
         /\ CallRight(c)'
<1> USE DEF Stages, Lasts
<1>1. \/ /\ stage' = [stage EXCEPT ![c] = "route"]
         /\ attempt' = [attempt EXCEPT ![c] = 0]
         /\ result' = [result EXCEPT ![c] = Request!Nothing]
         /\ last' = [last EXCEPT ![c] = "none"]
         /\ known = "known" => w \notin {"route", "interval"}
      \/ /\ w # "nothing"
         /\ stage' = [stage EXCEPT ![c] = "idle"]
         /\ attempt' = [attempt EXCEPT ![c] = 0]
         /\ last' = [last EXCEPT ![c] = "none"]
         /\ \E kind \in {"NotSupported", "BadRequest"} :
                result' = [result EXCEPT ![c] = Request!Raised(kind)]
  BY DEF Request!Preflight, Request!Ends, Request!Goes
<1>2. /\ 0 \in 0..MaxRetries
      /\ stage \in [Calls -> Stages] /\ attempt \in [Calls -> 0..MaxRetries]
      /\ last \in [Calls -> Lasts] /\ DOMAIN result = Calls
  BY Bounds DEF RequestInv, Request!TypeOK
<1>3. CASE /\ stage' = [stage EXCEPT ![c] = "route"]
           /\ attempt' = [attempt EXCEPT ![c] = 0]
           /\ result' = [result EXCEPT ![c] = Request!Nothing]
           /\ last' = [last EXCEPT ![c] = "none"]
           /\ known = "known" => w \notin {"route", "interval"}
  <2>1. stage'[c] = "route"
    BY <1>2, <1>3
  <2>2. CallRight(c)'
    BY <1>3, <2>1 DEF CallRight
  <2>. QED
    BY <1>2, <1>3, <2>2
<1>4. ASSUME NEW kind \in {"NotSupported", "BadRequest"},
             w # "nothing",
             stage' = [stage EXCEPT ![c] = "idle"],
             attempt' = [attempt EXCEPT ![c] = 0],
             last' = [last EXCEPT ![c] = "none"],
             result' = [result EXCEPT ![c] = Request!Raised(kind)]
      PROVE  /\ stage' \in [Calls -> Stages]
             /\ attempt' \in [Calls -> 0..MaxRetries]
             /\ last' \in [Calls -> Lasts]
             /\ DOMAIN result' = Calls
             /\ \A d \in Calls \ {c} : /\ stage'[d] = stage[d] /\ result'[d] = result[d]
                                       /\ last'[d] = last[d]
             /\ CallRight(c)'
  <2>1. /\ result'[c].kind = kind /\ result'[c].rows = "none"
        /\ stage'[c] = "idle" /\ last'[c] = "none"
    BY <1>2, <1>4 DEF Request!Raised
  <2>2. kind \in Request!Blames /\ kind # "frame"
    BY DEF Request!Blames
  <2>3. CallRight(c)'
    BY <1>4, <2>1, <2>2 DEF CallRight
  <2>. QED
    BY <1>2, <1>4, <2>3
<1>. QED
  BY <1>1, <1>3, <1>4

\* A call that has been sent ends with what its last attempt was answered.
LEMMA EndsRightly ==
  ASSUME part = "requests", UNCHANGED part, RequestInv, NEW c \in Calls,
         stage[c] = "route", NEW r, NEW answer \in Lasts,
         Request!Ends(c, r, answer), UNCHANGED <<capabilities, route, wrong, failed>>,
         \/ answer \in Request!Reasons(r.kind)
         \/ wrong[c] # "nothing" /\ r.kind \in Request!Blames,
         wrong[c] # "nothing" /\ r.kind = "frame" =>
             \/ r.rows = "empty" /\ r.flagged
             \/ wrong[c] = "symbol" /\ route[c] = "ratio",
         r.rows = "short" /\ ~failed /\ route[c] # "liquidations" => r.flagged
  PROVE  RequestInv'
<1> USE DEF Stages, Lasts
<1>1. /\ stage' = [stage EXCEPT ![c] = "idle"]
      /\ attempt' = [attempt EXCEPT ![c] = 0]
      /\ result' = [result EXCEPT ![c] = r]
      /\ last' = [last EXCEPT ![c] = answer]
  BY DEF Request!Ends, Request!Goes
<1>2. /\ 0 \in 0..MaxRetries
      /\ stage \in [Calls -> Stages] /\ attempt \in [Calls -> 0..MaxRetries]
      /\ last \in [Calls -> Lasts] /\ DOMAIN result = Calls
      /\ route \in [Calls -> Request!Routes] /\ wrong \in [Calls -> Request!Wrongs]
      /\ capabilities \in [Request!Exchanges -> {"missing", "known", "empty"}]
      /\ failed \in BOOLEAN /\ (~failed => capabilities["listed"] \in {"missing", "known"})
      /\ CallRight(c)
  BY Bounds DEF RequestInv, Request!TypeOK
<1>3. /\ stage' \in [Calls -> Stages] /\ attempt' \in [Calls -> 0..MaxRetries]
      /\ last' \in [Calls -> Lasts] /\ DOMAIN result' = Calls
      /\ stage'[c] = "idle" /\ result'[c] = r /\ last'[c] = answer
      /\ \A d \in Calls \ {c} : /\ stage'[d] = stage[d] /\ result'[d] = result[d]
                                /\ last'[d] = last[d]
  BY <1>1, <1>2
<1>4. wrong[c] \in {"route", "interval"} => failed
  BY <1>2 DEF CallRight
<1>5. CallRight(c)'
  BY <1>3, <1>4 DEF CallRight
<1>6. /\ route' \in [Calls -> Request!Routes] /\ wrong' \in [Calls -> Request!Wrongs]
      /\ capabilities' \in [Request!Exchanges -> {"missing", "known", "empty"}]
      /\ failed' \in BOOLEAN
  BY <1>2
<1> HIDE DEF Stages, Lasts
<1>. QED
  BY <1>2, <1>3, <1>5, <1>6, CallStepKeeps

\* An attempt that failed is repeated, or ends the call with the error it stands for.
LEMMA AgainKeeps ==
  ASSUME part = "requests", UNCHANGED part, RequestInv, NEW c \in Calls,
         NEW pause \in {"capabilities_pause", "route_pause"}, NEW kind,
         NEW answer \in Lasts,
         Request!Again(c, pause, kind, answer),
         pause = "route_pause" => stage[c] = "route",
         attempt[c] < MaxRetries \/ stage[c] = "route",
         kind # "frame",
         \/ answer \in Request!Reasons(kind)
         \/ wrong[c] # "nothing" /\ kind \in Request!Blames
  PROVE  RequestInv'
<1>1. UNCHANGED <<capabilities, route, wrong, failed>>
  BY DEF Request!Again
<1>2. CASE attempt[c] < MaxRetries
  <2>1. /\ stage' = [stage EXCEPT ![c] = pause]
        /\ attempt' = [attempt EXCEPT ![c] = @ + 1]
        /\ UNCHANGED <<result, last>>
    BY <1>2 DEF Request!Again, Request!Goes
  <2>2. /\ stage \in [Calls -> Stages] /\ attempt \in [Calls -> 0..MaxRetries]
        /\ last \in [Calls -> Lasts] /\ DOMAIN result = Calls
        /\ route \in [Calls -> Request!Routes] /\ wrong \in [Calls -> Request!Wrongs]
        /\ capabilities \in [Request!Exchanges -> {"missing", "known", "empty"}]
        /\ failed \in BOOLEAN /\ (~failed => capabilities["listed"] \in {"missing", "known"})
        /\ CallRight(c)
    BY DEF RequestInv, Request!TypeOK, Stages, Lasts
  <2>3. attempt' \in [Calls -> 0..MaxRetries]
    BY <1>2, <2>1, <2>2, Bounds
  <2>4. /\ stage' \in [Calls -> Stages]
        /\ stage'[c] = pause
        /\ \A d \in Calls \ {c} : stage'[d] = stage[d]
    BY <2>1, <2>2 DEF Stages
  <2>5. CallRight(c)'
    BY <1>1, <2>1, <2>2, <2>4 DEF CallRight
  <2>6. /\ last' \in [Calls -> Lasts] /\ DOMAIN result' = Calls
        /\ route' \in [Calls -> Request!Routes] /\ wrong' \in [Calls -> Request!Wrongs]
        /\ capabilities' \in [Request!Exchanges -> {"missing", "known", "empty"}]
        /\ failed' \in BOOLEAN
    BY <1>1, <2>1, <2>2
  <2>. QED
    BY <1>1, <2>1, <2>2, <2>3, <2>4, <2>5, <2>6, CallStepKeeps
<1>3. CASE ~(attempt[c] < MaxRetries)
  <2>1. Request!Ends(c, Request!Raised(kind), answer)
    BY <1>3 DEF Request!Again
  <2>2. PICK r : r = Request!Raised(kind)
    OBVIOUS
  <2>3. r.kind = kind /\ r.rows = "none"
    BY <2>2 DEF Request!Raised
  <2>. QED
    BY <1>1, <1>3, <2>1, <2>2, <2>3, EndsRightly
<1>. QED
  BY <1>2, <1>3

\* What a call asks for, and whether it is sent, is decided at its beginning or
\* when the capabilities have arrived.
LEMMA BeginsKeeps ==
  ASSUME part = "requests", UNCHANGED part, RequestInv, NEW c \in Calls,
         NEW r \in Request!Routes, NEW w \in Request!Wrongs,
         Request!Begins(c, r, w)
  PROVE  RequestInv'
<1>1. /\ route' = [route EXCEPT ![c] = r]
      /\ wrong' = [wrong EXCEPT ![c] = w]
      /\ UNCHANGED <<capabilities, failed>>
  BY DEF Request!Begins
<1>2. /\ stage \in [Calls -> Stages] /\ attempt \in [Calls -> 0..MaxRetries]
      /\ last \in [Calls -> Lasts] /\ DOMAIN result = Calls
      /\ route \in [Calls -> Request!Routes] /\ wrong \in [Calls -> Request!Wrongs]
      /\ capabilities \in [Request!Exchanges -> {"missing", "known", "empty"}]
      /\ failed \in BOOLEAN /\ (~failed => capabilities["listed"] \in {"missing", "known"})
  BY DEF RequestInv, Request!TypeOK, Stages, Lasts
<1>3. /\ route' \in [Calls -> Request!Routes]
      /\ wrong' \in [Calls -> Request!Wrongs]
      /\ wrong'[c] = w
      /\ \A d \in Calls \ {c} : wrong'[d] = wrong[d] /\ route'[d] = route[d]
      /\ capabilities' \in [Request!Exchanges -> {"missing", "known", "empty"}]
      /\ failed' \in BOOLEAN
  BY <1>1, <1>2
<1>4. CASE capabilities[Request!ExchangeOf(w)] = "missing"
  <2>1. /\ stage' = [stage EXCEPT ![c] = "capabilities"]
        /\ result' = [result EXCEPT ![c] = Request!Nothing]
        /\ last' = [last EXCEPT ![c] = "none"]
        /\ UNCHANGED attempt
    BY <1>4 DEF Request!Begins, Request!Goes
  <2>2. /\ stage' \in [Calls -> Stages] /\ last' \in [Calls -> Lasts]
        /\ DOMAIN result' = Calls /\ attempt' \in [Calls -> 0..MaxRetries]
        /\ stage'[c] = "capabilities"
        /\ \A d \in Calls \ {c} : /\ stage'[d] = stage[d] /\ result'[d] = result[d]
                                  /\ last'[d] = last[d]
    BY <1>2, <2>1 DEF Stages, Lasts
  <2>3. CallRight(c)'
    BY <2>2 DEF CallRight
  <2>. QED
    BY <1>1, <1>2, <1>3, <2>2, <2>3, CallStepKeeps
<1>5. CASE capabilities[Request!ExchangeOf(w)] # "missing"
  <2>1. PICK known : known = capabilities[Request!ExchangeOf(w)]
    OBVIOUS
  <2>2. Request!Preflight(c, w, known)
    BY <1>5, <2>1 DEF Request!Begins
  <2>3. w # "exchange" /\ ~failed' => known = "known" /\ capabilities'["listed"] = "known"
    BY <1>1, <1>2, <1>5, <2>1 DEF Request!ExchangeOf
  <2>4. /\ stage' \in [Calls -> Stages]
        /\ attempt' \in [Calls -> 0..MaxRetries]
        /\ last' \in [Calls -> Lasts]
        /\ DOMAIN result' = Calls
        /\ \A d \in Calls \ {c} : /\ stage'[d] = stage[d] /\ result'[d] = result[d]
                                  /\ last'[d] = last[d]
        /\ CallRight(c)'
    BY <1>3, <2>2, <2>3, PreflightIsRight
  <2>. QED
    BY <1>1, <1>2, <1>3, <2>4, CallStepKeeps
<1>. QED
  BY <1>4, <1>5

\* A call learns the capabilities of its exchange.
LEMMA LearnsKeeps ==
  ASSUME part = "requests", UNCHANGED part, RequestInv, NEW c \in Calls,
         NEW known \in {"known", "empty"}, Request!Learns(c, known)
  PROVE  RequestInv'
<1>1. /\ stage \in [Calls -> Stages] /\ attempt \in [Calls -> 0..MaxRetries]
      /\ last \in [Calls -> Lasts] /\ DOMAIN result = Calls
      /\ route \in [Calls -> Request!Routes] /\ wrong \in [Calls -> Request!Wrongs]
      /\ capabilities \in [Request!Exchanges -> {"missing", "known", "empty"}]
      /\ failed \in BOOLEAN /\ (~failed => capabilities["listed"] \in {"missing", "known"})
  BY DEF RequestInv, Request!TypeOK, Stages, Lasts
<1>2. PICK w \in Request!Wrongs : w = wrong[c]
  BY <1>1
<1>3. /\ Request!Preflight(c, w, known)
      /\ UNCHANGED <<route, wrong>>
      /\ capabilities' = [capabilities EXCEPT ![Request!ExchangeOf(w)] = known]
      /\ failed' = (failed \/ (known = "empty" /\ w # "exchange"))
  BY <1>2 DEF Request!Learns
<1>4. /\ route' \in [Calls -> Request!Routes] /\ wrong' \in [Calls -> Request!Wrongs]
      /\ wrong'[c] = w /\ failed' \in BOOLEAN
      /\ capabilities' \in [Request!Exchanges -> {"missing", "known", "empty"}]
  BY <1>1, <1>2, <1>3
<1>5. CASE w = "exchange"
  <2>1. capabilities'["listed"] = capabilities["listed"] /\ failed' = failed
    BY <1>1, <1>3, <1>5 DEF Request!ExchangeOf, Request!Exchanges
  <2>2. /\ stage' \in [Calls -> Stages] /\ attempt' \in [Calls -> 0..MaxRetries]
        /\ last' \in [Calls -> Lasts] /\ DOMAIN result' = Calls
        /\ \A d \in Calls \ {c} : /\ stage'[d] = stage[d] /\ result'[d] = result[d]
                                  /\ last'[d] = last[d]
        /\ CallRight(c)'
    BY <1>3, <1>4, <1>5, PreflightIsRight
  <2>. QED
    BY <1>1, <1>3, <1>4, <2>1, <2>2, CallStepKeeps
<1>6. CASE w # "exchange"
  <2>1. /\ capabilities'["listed"] = known
        /\ failed' = (failed \/ known = "empty")
    BY <1>1, <1>3, <1>6 DEF Request!ExchangeOf, Request!Exchanges
  <2>2. /\ stage' \in [Calls -> Stages] /\ attempt' \in [Calls -> 0..MaxRetries]
        /\ last' \in [Calls -> Lasts] /\ DOMAIN result' = Calls
        /\ \A d \in Calls \ {c} : /\ stage'[d] = stage[d] /\ result'[d] = result[d]
                                  /\ last'[d] = last[d]
        /\ CallRight(c)'
    BY <1>3, <1>4, <1>6, <2>1, PreflightIsRight
  <2>. QED
    BY <1>1, <1>3, <1>4, <2>1, <2>2, CallStepKeeps
<1>. QED
  BY <1>5, <1>6

\* What becomes of an answer: rows, which a wrong call does not get but for a ratio, or
\* an error that the answer is the reason for, or what is wrong with the call.
LEMMA AnswersAreRight ==
  ASSUME NEW r \in Request!Routes, NEW w \in Request!Wrongs,
         NEW answer \in Request!Answers(r, w),
         NEW status, status = Request!Status(Request!Raises(answer)),
         NEW kind, kind = Request!ErrorForStatus(status)
  PROVE  /\ status = 200 => /\ answer \in Request!Reasons("frame")
                            /\ w # "nothing" => answer = "empty" \/ (w = "symbol" /\ r = "ratio")
         /\ status # 200 => /\ kind # "frame"
                            /\ \/ answer \in Request!Reasons(kind)
                               \/ w # "nothing" /\ kind \in Request!Blames
<1> USE DEF Request!Blames, Request!Data, Request!OwnFault
<1>1. /\ Request!Reasons("frame") = {"full", "short", "empty"}
      /\ Request!Reasons("BadRequest") = {"rejected", "unparsable"}
      /\ Request!Reasons("UpstreamUnavailable") = {"throttled"}
      /\ Request!Reasons("RouterError") = {"misfit", "broken"}
  BY DEF Request!Reasons
<1>2. /\ Request!ErrorForStatus(503) = "UpstreamUnavailable"
      /\ Request!ErrorForStatus(400) = "BadRequest"
      /\ Request!ErrorForStatus(404) = "NotFound"
      /\ Request!ErrorForStatus(501) = "NotSupported"
      /\ Request!ErrorForStatus(502) = "RouterError"
      /\ Request!ErrorForStatus(500) = "RouterError"
  BY DEF Request!ErrorForStatus
<1>3. /\ Request!Status("none") = 200
      /\ Request!Status("UpstreamUnavailableError") = 503
      /\ Request!Status("ValueError") = 400
      /\ Request!Status("NotImplementedError") = 501
      /\ Request!Status("ValidationError") = 502
      /\ Request!Status("Exception") = 500
      /\ Request!Status("HTTPException_404") = 404
      /\ Request!Status("HTTPException_400") = 400
  BY DEF Request!Status
<1>4. /\ w = "nothing" => answer \in {"full", "short", "empty", "rejected", "unparsable",
                                      "misfit", "broken", "throttled"}
      /\ w # "nothing" => \/ w = "symbol" /\ r = "ratio"
                          \/ answer \in {"no_exchange", "no_market", "unsupported",
                                 "undeclared", "unknown", "empty", "throttled", "broken"}
      /\ answer \in {"full", "short", "empty", "rejected", "unparsable", "misfit",
                     "broken", "throttled", "no_exchange", "no_market", "unsupported",
                     "undeclared", "unknown"}
      /\ answer \in {"no_exchange", "no_market", "unsupported", "undeclared", "unknown"} =>
             w # "nothing"
  BY DEF Request!Answers, Request!Wrongs
<1>5. CASE answer \in {"full", "short", "empty"}
  <2>1. Request!Raises(answer) = "none"
    BY <1>5 DEF Request!Raises
  <2>. QED
    BY <1>1, <1>3, <1>4, <1>5, <2>1
<1>6. CASE answer = "throttled"
  <2>1. Request!Raises(answer) = "UpstreamUnavailableError"
    BY <1>6 DEF Request!Raises
  <2>. QED
    BY <1>1, <1>2, <1>3, <1>6, <2>1
<1>7. CASE answer \in {"unknown", "undeclared", "rejected", "unparsable"}
  <2>1. Request!Raises(answer) = "ValueError"
    BY <1>7 DEF Request!Raises
  <2>. QED
    BY <1>1, <1>2, <1>3, <1>4, <1>7, <2>1
<1>8. CASE answer = "misfit"
  <2>1. Request!Raises(answer) = "ValidationError"
    BY <1>8 DEF Request!Raises
  <2>. QED
    BY <1>1, <1>2, <1>3, <1>8, <2>1
<1>9. CASE answer = "broken"
  <2>1. Request!Raises(answer) = "Exception"
    BY <1>9 DEF Request!Raises
  <2>. QED
    BY <1>1, <1>2, <1>3, <1>9, <2>1
<1>10. CASE answer = "unsupported"
  <2>1. Request!Raises(answer) = "NotImplementedError"
    BY <1>10 DEF Request!Raises
  <2>. QED
    BY <1>2, <1>3, <1>4, <1>10, <2>1
<1>11. CASE answer = "no_exchange"
  <2>1. Request!Raises(answer) = "HTTPException_404"
    BY <1>11 DEF Request!Raises
  <2>. QED
    BY <1>2, <1>3, <1>4, <1>11, <2>1
<1>12. CASE answer = "no_market"
  <2>1. Request!Raises(answer) = "HTTPException_400"
    BY <1>12 DEF Request!Raises
  <2>. QED
    BY <1>2, <1>3, <1>4, <1>12, <2>1
<1>. QED
  BY <1>4, <1>5, <1>6, <1>7, <1>8, <1>9, <1>10, <1>11, <1>12

\* A call has its answer.
LEMMA AnsweredKeeps ==
  ASSUME part = "requests", UNCHANGED part, RequestInv, NEW c \in Calls,
         NEW answer, Request!Answered(c, answer)
  PROVE  RequestInv'
<1>1. PICK w \in Request!Wrongs : w = wrong[c]
  BY DEF RequestInv, Request!TypeOK
<1>2. PICK r \in Request!Routes : r = route[c]
  BY DEF RequestInv, Request!TypeOK
<1>3. PICK status : status = Request!Status(Request!Raises(answer))
  OBVIOUS
<1>4. PICK kind : kind = Request!ErrorForStatus(status)
  OBVIOUS
<1>5. answer \in Request!Answers(r, w) /\ stage[c] = "route" /\ answer \in Lasts
  <2>1. answer \in Request!Answers(r, w) /\ stage[c] = "route"
    BY <1>1, <1>2 DEF Request!Answered
  <2>2. answer \in Request!AllAnswers
    BY <2>1 DEF Request!Answers, Request!AllAnswers, Request!Data, Request!OwnFault,
                Request!Wrongs
  <2>. QED
    BY <2>1, <2>2 DEF Lasts
<1>6. /\ status = 200 => /\ answer \in Request!Reasons("frame")
                         /\ w # "nothing" => answer = "empty" \/ (w = "symbol" /\ r = "ratio")
      /\ status # 200 => /\ kind # "frame"
                         /\ \/ answer \in Request!Reasons(kind)
                            \/ w # "nothing" /\ kind \in Request!Blames
  BY <1>3, <1>4, <1>5, AnswersAreRight
<1>7. CASE status = 200
  <2>1. PICK paginated : paginated = (capabilities[Request!ExchangeOf(w)] = "known")
    OBVIOUS
  <2>2. PICK f : f = Request!Frame(answer, Request!Flagged(r, answer, paginated))
    OBVIOUS
  <2>3. Request!Ends(c, f, answer) /\ UNCHANGED <<capabilities, route, wrong, failed>>
    <3>1. Request!Status(Request!Raises(answer)) = 200 /\ ~Request!Retried(200)
      BY <1>3, <1>7 DEF Request!Retried
    <3> DEFINE g == Request!Frame(answer,
                        Request!Flagged(route[c], answer,
                            capabilities[Request!ExchangeOf(wrong[c])] = "known"))
    <3>2. Request!Ends(c, g, answer) /\ UNCHANGED <<capabilities, route, wrong, failed>>
      BY <3>1 DEF Request!Answered
    <3>3. f = g
      BY <1>1, <1>2, <2>1, <2>2
    <3>. QED
      BY <3>2, <3>3
  <2>4. /\ f.kind = "frame" /\ f.rows = answer
        /\ answer = "empty" => f.flagged
        /\ answer = "short" /\ paginated /\ r # "liquidations" => f.flagged
    BY <2>2 DEF Request!Frame, Request!Flagged
  <2>5. ~failed /\ answer = "short" => paginated
    <3>1. w = "exchange" => answer = "no_exchange"
      BY <1>5 DEF Request!Answers
    <3>2. ~failed /\ w # "exchange" => capabilities["listed"] = "known"
      BY <1>1, <1>5 DEF RequestInv, CallRight
    <3>. QED
      BY <2>1, <3>1, <3>2 DEF Request!ExchangeOf
  <2>. QED
    BY <1>1, <1>2, <1>5, <1>6, <1>7, <2>3, <2>4, <2>5, EndsRightly
<1>8. CASE status # 200 /\ Request!Retried(status)
  <2>1. Request!Again(c, "route_pause", kind, answer)
    BY <1>3, <1>4, <1>8 DEF Request!Answered
  <2>. QED
    BY <1>1, <1>5, <1>6, <1>8, <2>1, AgainKeeps
<1>9. CASE status # 200 /\ ~Request!Retried(status)
  <2>1. PICK e : e = Request!Raised(kind)
    OBVIOUS
  <2>2. /\ Request!Ends(c, e, answer)
        /\ UNCHANGED <<capabilities, route, wrong, failed>>
    BY <1>3, <1>4, <1>9, <2>1 DEF Request!Answered
  <2>3. e.kind = kind /\ e.rows = "none"
    BY <2>1 DEF Request!Raised
  <2>. QED
    BY <1>1, <1>5, <1>6, <1>9, <2>2, <2>3, EndsRightly
<1>. QED
  BY <1>7, <1>8, <1>9

\* There are no calls at first.
LEMMA RequestInit ==
  ASSUME part = "requests", Request!Init
  PROVE  RequestInv
<1>1. /\ stage = [c \in Calls |-> "idle"]
      /\ result = [c \in Calls |-> Request!Nothing]
      /\ route = [c \in Calls |-> "series"]
      /\ wrong = [c \in Calls |-> "nothing"]
      /\ attempt = [c \in Calls |-> 0]
      /\ last = [c \in Calls |-> "none"]
      /\ failed = FALSE
      /\ capabilities = [e \in Request!Exchanges |-> "missing"]
  BY DEF Request!Init
<1>2. Request!TypeOK
  <2>1. 0 \in 0..MaxRetries
    BY Bounds
  <2>2. /\ stage \in [Calls -> Stages]
        /\ route \in [Calls -> Request!Routes]
        /\ wrong \in [Calls -> Request!Wrongs]
        /\ last \in [Calls -> Lasts]
        /\ failed \in BOOLEAN
    BY <1>1 DEF Stages, Lasts, Request!Routes, Request!Wrongs
  <2>3. capabilities \in [Request!Exchanges -> {"missing", "known", "empty"}]
    BY <1>1
  <2>4. attempt \in [Calls -> 0..MaxRetries]
    BY <1>1, <2>1
  <2>. QED
    BY <2>2, <2>3, <2>4 DEF Request!TypeOK, Stages, Lasts
<1>3. capabilities["listed"] = "missing"
  BY <1>1 DEF Request!Exchanges
<1>4. Request!Nothing.rows = "none"
  BY DEF Request!Nothing, Request!Raised
<1>5. \A c \in Calls : CallRight(c)
  BY <1>1, <1>4 DEF CallRight
<1>. QED
  BY <1>1, <1>2, <1>3, <1>5 DEF RequestInv

\* Every step of a call keeps the invariant.
LEMMA RequestNextKeeps ==
  ASSUME RequestInv, RequestNext
  PROVE  RequestInv'
<1>1. part = "requests" /\ UNCHANGED part /\ Request!Next
  BY DEF RequestNext
<1>2. PICK c \in Calls :
          \/ \E r \in Request!Routes, w \in Request!Wrongs : Request!Begins(c, r, w)
          \/ Request!Returns(c)
          \/ Request!PauseOver(c)
  BY <1>1 DEF Request!Next
<1>3. CASE \E r \in Request!Routes, w \in Request!Wrongs : Request!Begins(c, r, w)
  BY <1>1, <1>3, BeginsKeeps
<1>4. CASE Request!CapabilitiesAnswered(c)
  <2>1. Request!Learns(c, "known") \/ Request!Learns(c, "empty")
    BY <1>4 DEF Request!CapabilitiesAnswered
  <2>. QED
    BY <1>1, <2>1, LearnsKeeps
<1>5. CASE Request!Lost(c)
  <2>1. \/ /\ Request!Again(c, "route_pause", "RouterUnreachable", "lost")
           /\ stage[c] = "route"
        \/ /\ Request!Again(c, "capabilities_pause", "RouterUnreachable", "lost")
           /\ attempt[c] < MaxRetries
        \/ Request!Learns(c, "empty")
    BY <1>5 DEF Request!Lost
  <2>2. /\ "lost" \in Request!Reasons("RouterUnreachable")
        /\ "RouterUnreachable" # "frame" /\ "lost" \in Lasts
    BY DEF Request!Blames, Request!Reasons, Lasts
  <2>. QED
    BY <1>1, <2>1, <2>2, AgainKeeps, LearnsKeeps
<1>6. CASE \E answer \in Request!Answers(route[c], wrong[c]) : Request!Answered(c, answer)
  BY <1>1, <1>6, AnsweredKeeps
<1>7. CASE Request!PauseOver(c)
  <2>1. /\ UNCHANGED <<capabilities, result, route, wrong, attempt, last, failed>>
        /\ \/ stage[c] = "route_pause" /\ stage' = [stage EXCEPT ![c] = "route"]
           \/ stage' = [stage EXCEPT ![c] = "capabilities"]
    BY <1>7 DEF Request!PauseOver, Request!Goes
  <2>2. /\ stage \in [Calls -> Stages] /\ attempt \in [Calls -> 0..MaxRetries]
        /\ last \in [Calls -> Lasts] /\ DOMAIN result = Calls
        /\ route \in [Calls -> Request!Routes] /\ wrong \in [Calls -> Request!Wrongs]
        /\ capabilities \in [Request!Exchanges -> {"missing", "known", "empty"}]
        /\ failed \in BOOLEAN /\ (~failed => capabilities["listed"] \in {"missing", "known"})
        /\ CallRight(c)
    BY <1>1 DEF RequestInv, Request!TypeOK, Stages, Lasts
  <2>3. /\ stage' \in [Calls -> Stages]
        /\ stage'[c] = "capabilities" \/ (stage'[c] = "route" /\ stage[c] = "route_pause")
        /\ \A d \in Calls \ {c} : stage'[d] = stage[d]
    BY <2>1, <2>2 DEF Stages
  <2>4. CallRight(c)'
    BY <2>1, <2>2, <2>3 DEF CallRight
  <2>. QED
    BY <1>1, <2>1, <2>2, <2>3, <2>4, CallStepKeeps
<1>. QED
  BY <1>2, <1>3, <1>4, <1>5, <1>6, <1>7 DEF Request!Returns

-----------------------------------------------------------------------------
(* ClientStream *)

Error    == Stream!Error
Sentinel == Stream!Sentinel
Last     == MaxMessage + 2

\* What is in the queue, and what is offered, rises from the last message that was
\* read on: messages that were received, and after them how the pump ended.
Rises ==
    /\ \A i, j \in 1..Len(items) : i < j => items[i] < items[j]
    /\ \A i \in 1..Len(items) : read < items[i]
    /\ offered # <<>> =>
           /\ read < Head(offered)
           /\ \A i \in 1..Len(items) : items[i] < Head(offered)
    /\ \A i \in 1..Len(items) :
           items[i] <= sent \/ (items[i] >= Error /\ pump = "ended")

\* What offer still has to put into the queue.
Offer ==
    \/ offered = <<>>
    \/ offered = <<sent>> /\ sent \in 1..MaxMessage /\ pump # "ended"
    \/ offered \in {<<Error, Sentinel>>, <<Sentinel>>} /\ pump = "ended"

\* A consumer that is still to read finds an error before the end of the queue,
\* unless that was dropped.
InQueue(e) == \/ \E i \in 1..Len(items) : items[i] = e
              \/ \E i \in 1..Len(offered) : offered[i] = e
ErrorIsAhead ==
    /\ consumer = "ended" => dropped
    /\ consumer \in {"reading", "handling"} /\ InQueue(Sentinel) =>
           dropped \/ InQueue(Error)

StreamTypes ==
    /\ asked \in Stream!Asked
    /\ loop \in {"running", "stopped"}
    /\ pump \in {"connecting", "open", "pausing", "ended"}
    /\ full \in BOOLEAN /\ dropped \in BOOLEAN
    /\ items \in Seq(1..Last) /\ Len(items) <= Buffer
    /\ consumer \in {"reading", "handling", "left", "raised", "ended"}
    /\ sent \in 0..MaxMessage
    /\ read \in 0..sent
    /\ faults \in 0..MaxFaults

StreamInv ==
    part = "stream" => StreamTypes /\ Rises /\ Offer /\ ErrorIsAhead

\* The two that come after every message.
LEMMA LastOfQueue ==
  /\ Error = MaxMessage + 1 /\ Sentinel = MaxMessage + 2 /\ Last = Sentinel
  /\ Error \in Nat /\ Sentinel \in Nat /\ Error < Sentinel
  /\ \A m \in 0..MaxMessage : m < Error /\ m < Sentinel
  /\ Error \in 1..Last /\ Sentinel \in 1..Last
BY Bounds DEF Error, Sentinel, Last, Stream!Error, Stream!Sentinel

\* The stream has not begun.
LEMMA StreamInit ==
  ASSUME part = "stream", Stream!Init
  PROVE  StreamInv
<1>1. /\ items = <<>> /\ offered = <<>> /\ Len(<<>>) = 0
      /\ \A e : ~InQueue(e)
  BY DEF Stream!Init, InQueue
<1>2. StreamTypes
  <2>1. items \in Seq(1..Last) /\ Len(items) <= Buffer
    BY <1>1, Bounds
  <2>2. /\ asked \in Stream!Asked
        /\ loop = "running" /\ pump = "connecting" /\ consumer = "reading"
        /\ full = FALSE /\ dropped = FALSE /\ sent = 0 /\ read = 0 /\ faults = 0
    BY DEF Stream!Init
  <2>. QED
    <3>1. sent \in 0..MaxMessage /\ read \in 0..sent /\ faults \in 0..MaxFaults
      BY <2>2, Bounds
    <3>. QED
      BY <2>1, <2>2, <3>1 DEF StreamTypes
<1>3. Rises /\ Offer /\ ErrorIsAhead
  BY <1>1 DEF Stream!Init, Rises, Offer, ErrorIsAhead
<1>. QED
  BY <1>2, <1>3 DEF StreamInv

\* What is left of the queue without its oldest item.
LEMMA RestOfItems ==
  ASSUME StreamTypes, items # <<>>
  PROVE  /\ Tail(items) \in Seq(1..Last)
         /\ Len(items) \in Nat \ {0}
         /\ Len(Tail(items)) = Len(items) - 1
         /\ \A i \in 1..Len(Tail(items)) : Tail(items)[i] = items[i + 1]
         /\ Head(items) = items[1] /\ Head(items) \in 1..Last
<1>1. PICK q \in Seq(1..Last) : q = items /\ q # <<>>
  BY DEF StreamTypes
<1>2. /\ Tail(q) \in Seq(1..Last)
      /\ Len(Tail(q)) = Len(q) - 1
      /\ \A i \in 1..Len(Tail(q)) : Tail(q)[i] = q[i + 1]
      /\ Head(q) \in 1..Last
  BY <1>1, HeadTailProperties
<1>3. Len(q) \in Nat \ {0} /\ Head(q) = q[1]
  BY <1>1, EmptySeq
<1>. QED
  BY <1>1, <1>2, <1>3

\* The pump, while offer is done: the queue stays as it is, and what offer is
\* given comes after all of it.
LEMMA PumpKeeps ==
  ASSUME part = "stream", UNCHANGED part, StreamInv, offered = <<>>,
         UNCHANGED <<asked, loop, full, items, consumer, read, dropped>>,
         pump # "ended",
         faults' \in 0..MaxFaults,
         \/ /\ pump' \in {"connecting", "open", "pausing"}
            /\ UNCHANGED <<offered, sent>>
         \/ /\ pump' = pump /\ sent < MaxMessage
            /\ sent' = sent + 1 /\ offered' = <<sent'>>
         \/ /\ pump' = "ended" /\ UNCHANGED sent
            /\ \/ offered' = <<Error, Sentinel>>
               \/ /\ offered' = <<Sentinel>>
                  /\ consumer \in {"left", "raised", "ended"}
  PROVE  StreamInv'
<1> USE DEF StreamInv
<1>1. StreamTypes'
  BY Bounds DEF StreamTypes
<1>2. \A i \in 1..Len(items) : items[i] <= sent /\ items[i] \in Nat
  <2>1. items \in Seq(1..Last) /\ 1..Last \subseteq Nat
    BY LastOfQueue DEF StreamTypes
  <2>2. \A i \in 1..Len(items) : items[i] \in 1..Last
    BY <2>1, ElementOfSeq
  <2>. QED
    BY <2>1, <2>2 DEF Rises
<1>3. CASE pump' \in {"connecting", "open", "pausing"} /\ UNCHANGED <<offered, sent>>
  BY <1>1, <1>3 DEF Rises, Offer, ErrorIsAhead, InQueue
<1>4. CASE /\ pump' = pump /\ sent < MaxMessage
           /\ sent' = sent + 1 /\ offered' = <<sent'>>
  <2>1. Rises'
    <3>1. /\ Head(offered') = sent + 1 /\ sent \in Nat /\ read \in Nat /\ read <= sent
      BY <1>4 DEF StreamTypes
    <3>. QED
      BY <1>2, <1>4, <3>1 DEF Rises
  <2>2. Offer'
    BY <1>4, Bounds DEF Offer, StreamTypes
  <2>3. ErrorIsAhead'
    <3>1. Len(offered') = 1 /\ offered'[1] = sent + 1 /\ sent + 1 # Sentinel
      BY <1>4, LastOfQueue DEF StreamTypes
    <3>2. \A e : InQueue(e) <=> \E i \in 1..Len(items) : items[i] = e
      BY DEF InQueue
    <3>3. InQueue(Error) => InQueue(Error)'
      BY <3>2 DEF InQueue, Error, Stream!Error
    <3>4. InQueue(Sentinel)' => InQueue(Sentinel)
      BY <3>1, <3>2 DEF InQueue, Sentinel, Stream!Sentinel
    <3>. QED
      BY <3>3, <3>4 DEF ErrorIsAhead
  <2>. QED
    BY <1>1, <2>1, <2>2, <2>3
<1>5. ASSUME pump' = "ended", UNCHANGED sent,
             \/ offered' = <<Error, Sentinel>>
             \/ /\ offered' = <<Sentinel>>
                /\ consumer \in {"left", "raised", "ended"}
      PROVE  StreamInv'
  <2>1. Rises'
    <3>1. Head(offered') \in {Error, Sentinel}
      BY <1>5
    <3>2. read < Head(offered') /\ \A i \in 1..Len(items) : items[i] < Head(offered')
      BY <1>2, <3>1, LastOfQueue DEF StreamTypes
    <3>. QED
      BY <1>5, <3>2 DEF Rises
  <2>2. Offer'
    BY <1>5 DEF Offer, Error, Sentinel, Stream!Error, Stream!Sentinel
  <2>3. ErrorIsAhead'
    <3>1. CASE offered' = <<Error, Sentinel>>
      <4>1. Len(offered') = 2 /\ offered'[1] = Error
        BY <3>1
      <4>2. InQueue(Error)'
        BY <4>1 DEF InQueue, Error, Stream!Error
      <4>. QED
        BY <4>2 DEF ErrorIsAhead
    <3>2. CASE consumer \in {"left", "raised", "ended"}
      BY <3>2 DEF ErrorIsAhead
    <3>. QED
      BY <1>5, <3>1, <3>2
  <2>. QED
    BY <1>1, <2>1, <2>2, <2>3
<1>. QED
  BY <1>3, <1>4, <1>5

\* What offer puts into the queue comes from the front of what it has to offer.
LEMMA OffersKeeps ==
  ASSUME part = "stream", UNCHANGED part, StreamInv, Stream!Offers
  PROVE  StreamInv'
<1> USE DEF StreamInv
<1>1. /\ offered # <<>>
      /\ UNCHANGED <<asked, loop, pump, consumer, sent, read, faults, dropped>>
  BY DEF Stream!Offers
<1>2. CASE full' = TRUE /\ UNCHANGED <<items, offered>>
  BY <1>1, <1>2 DEF StreamTypes, Rises, Offer, ErrorIsAhead, InQueue
<1>3. CASE /\ Len(items) < Buffer
           /\ items' = Append(items, Head(offered))
           /\ offered' = Tail(offered)
           /\ UNCHANGED full
  <2>1. PICK h : h = Head(offered)
    OBVIOUS
  <2>2. /\ h \in 1..Last
        /\ \/ offered = <<sent>> /\ sent \in 1..MaxMessage /\ h = sent
                /\ offered' = <<>> /\ pump # "ended"
           \/ offered = <<Error, Sentinel>> /\ h = Error
                /\ offered' = <<Sentinel>> /\ pump = "ended"
           \/ offered = <<Sentinel>> /\ h = Sentinel
                /\ offered' = <<>> /\ pump = "ended"
    <3>1. CASE offered = <<sent>> /\ sent \in 1..MaxMessage /\ pump # "ended"
      BY <1>3, <2>1, <3>1, LastOfQueue
    <3>2. CASE offered = <<Error, Sentinel>> /\ pump = "ended"
      BY <1>3, <2>1, <3>2, LastOfQueue
    <3>3. CASE offered = <<Sentinel>> /\ pump = "ended"
      BY <1>3, <2>1, <3>3, LastOfQueue
    <3>. QED
      BY <1>1, <3>1, <3>2, <3>3 DEF Offer
  <2>3. /\ items' \in Seq(1..Last)
        /\ Len(items') = Len(items) + 1 /\ Len(items) \in Nat
        /\ \A i \in 1..Len(items) : items'[i] = items[i]
        /\ items'[Len(items) + 1] = h
    <3>1. PICK q \in Seq(1..Last) : q = items
      BY DEF StreamTypes
    <3>. QED
      BY <1>3, <2>1, <2>2, <3>1, AppendProperties
  <2>4. StreamTypes'
    BY <1>1, <1>3, <2>3, Bounds DEF StreamTypes
  <2>5. /\ read < h /\ h \in Nat
        /\ \A i \in 1..Len(items) : items[i] < h
    BY <1>1, <2>1, <2>2, LastOfQueue DEF Rises
  <2>6. Rises'
    <3>1. \A i, j \in 1..Len(items') : i < j => items'[i] < items'[j]
      <4> SUFFICES ASSUME NEW i \in 1..Len(items'), NEW j \in 1..Len(items'), i < j
                   PROVE  items'[i] < items'[j]
        OBVIOUS
      <4>1. i \in 1..Len(items)
        BY <2>3
      <4>2. CASE j \in 1..Len(items)
        BY <2>3, <4>1, <4>2 DEF Rises
      <4>3. CASE j = Len(items) + 1
        BY <2>3, <2>5, <4>1, <4>3
      <4>. QED
        BY <2>3, <4>2, <4>3
    <3>2. \A i \in 1..Len(items') : read < items'[i]
      BY <2>3, <2>5 DEF Rises
    <3>3. offered' # <<>> => /\ read < Head(offered')
                             /\ \A i \in 1..Len(items') : items'[i] < Head(offered')
      <4> SUFFICES ASSUME offered' # <<>>
                   PROVE  /\ read < Head(offered')
                          /\ \A i \in 1..Len(items') : items'[i] < Head(offered')
        OBVIOUS
      <4>1. h = Error /\ Head(offered') = Sentinel
        BY <2>2
      <4>2. \A i \in 1..Len(items) : items[i] \in Nat
        <5>1. PICK q \in Seq(1..Last) : q = items
          BY DEF StreamTypes
        <5>2. \A i \in 1..Len(q) : q[i] \in 1..Last
          BY <5>1, ElementOfSeq
        <5>. QED
          BY <5>1, <5>2, LastOfQueue
      <4>3. read \in Nat
        BY DEF StreamTypes
      <4>. QED
        <5>1. read < Sentinel /\ h < Sentinel
          BY <2>5, <4>1, <4>3, LastOfQueue
        <5>2. \A i \in 1..Len(items) : items[i] < Sentinel
          BY <2>5, <4>1, <4>2, LastOfQueue
        <5>. QED
          BY <2>3, <4>1, <5>1, <5>2
    <3>4. \A i \in 1..Len(items') :
              items'[i] <= sent \/ (items'[i] >= Error /\ pump = "ended")
      <4>1. h <= sent \/ (h >= Error /\ pump = "ended")
        BY <2>2, LastOfQueue DEF StreamTypes
      <4>. QED
        BY <2>3, <4>1 DEF Rises
    <3>. QED
      BY <1>1, <3>1, <3>2, <3>3, <3>4 DEF Rises, Error, Stream!Error
  <2>7. Offer'
    BY <1>1, <2>2 DEF Offer, Error, Sentinel, Stream!Error, Stream!Sentinel
  <2>8. \A e : InQueue(e) <=> \/ \E i \in 1..Len(items') : items'[i] = e
                              \/ \E i \in 1..Len(offered') : offered'[i] = e
    <3>1. \A e : (\E i \in 1..Len(items') : items'[i] = e)
                     <=> h = e \/ \E i \in 1..Len(items) : items[i] = e
      BY <2>3
    <3>2. \A e : (\E i \in 1..Len(offered) : offered[i] = e)
                     <=> h = e \/ \E i \in 1..Len(offered') : offered'[i] = e
      <4>1. CASE offered = <<h>> /\ offered' = <<>>
        BY <4>1
      <4>2. CASE offered = <<h, Sentinel>> /\ offered' = <<Sentinel>>
        <5>1. /\ Len(offered) = 2 /\ offered[1] = h /\ offered[2] = Sentinel
              /\ Len(offered') = 1 /\ offered'[1] = Sentinel
          BY <4>2
        <5>2. 1..2 = {1, 2} /\ 1..1 = {1}
          OBVIOUS
        <5>. QED
          BY <5>1, <5>2
      <4>. QED
        BY <2>2, <4>1, <4>2
    <3>. QED
      BY <3>1, <3>2 DEF InQueue
  <2>9. ErrorIsAhead'
    <3>1. InQueue(Error) => InQueue(Error)'
      BY <2>8 DEF InQueue, Error, Stream!Error
    <3>2. InQueue(Sentinel)' => InQueue(Sentinel)
      BY <2>8 DEF InQueue, Sentinel, Stream!Sentinel
    <3>. QED
      BY <1>1, <3>1, <3>2 DEF ErrorIsAhead
  <2>. QED
    BY <2>4, <2>6, <2>7, <2>9
<1>. QED
  BY <1>2, <1>3 DEF Stream!Offers

\* The oldest item leaves the queue: it is read, or it is dropped.
LEMMA FewerItems ==
  ASSUME part = "stream", UNCHANGED part, StreamInv, items # <<>>,
         items' = Tail(items), full' \in BOOLEAN, dropped' \in BOOLEAN,
         UNCHANGED <<asked, loop, pump, offered, sent, faults>>,
         consumer' \in {"reading", "handling", "left", "raised", "ended"},
         read' = read \/ (read' = Head(items) /\ Head(items) < Error),
         dropped => dropped',
         \/ UNCHANGED consumer /\ (Head(items) = Error => dropped')
         \/ consumer' = "raised"
         \/ consumer = "reading" /\ Head(items) = Sentinel /\ consumer' = "ended"
         \/ consumer = "reading" /\ Head(items) # Error /\ consumer' = "handling"
  PROVE  StreamInv'
<1> USE DEF StreamInv
<1>1. /\ items' \in Seq(1..Last)
      /\ Len(items) \in Nat \ {0}
      /\ Len(items') = Len(items) - 1
      /\ \A i \in 1..Len(items') : items'[i] = items[i + 1]
      /\ Head(items) = items[1] /\ Head(items) \in 1..Last
  BY RestOfItems
<1>2. \A i \in 1..Len(items') : items[1] < items'[i] /\ i + 1 \in 1..Len(items)
  BY <1>1 DEF Rises
<1>3. \A i \in 1..Len(items) : items[i] \in Nat
  <2>1. PICK q \in Seq(1..Last) : q = items
    BY DEF StreamTypes
  <2>2. \A i \in 1..Len(q) : q[i] \in 1..Last
    BY <2>1, ElementOfSeq
  <2>. QED
    BY <2>1, <2>2, LastOfQueue
<1>4. read' \in 0..sent
  <2>1. CASE read' = read
    BY <2>1 DEF StreamTypes
  <2>2. CASE read' = Head(items) /\ Head(items) < Error
    <3>1. items[1] <= sent \/ items[1] >= Error
      BY <1>1 DEF Rises
    <3>. QED
      BY <1>1, <2>2, <3>1, LastOfQueue DEF StreamTypes
  <2>. QED
    BY <2>1, <2>2
<1>5. StreamTypes'
  <2>1. Len(items') <= Buffer
    BY <1>1, Bounds DEF StreamTypes
  <2>. QED
    BY <1>1, <1>4, <2>1 DEF StreamTypes
<1>6. Rises'
  <2>1. \A i, j \in 1..Len(items') : i < j => items'[i] < items'[j]
    BY <1>1 DEF Rises
  <2>2. \A i \in 1..Len(items') : read' < items'[i]
    <3>1. CASE read' = read
      BY <1>1, <3>1 DEF Rises
    <3>2. CASE read' = Head(items)
      BY <1>1, <1>2, <3>2
    <3>. QED
      BY <3>1, <3>2
  <2>3. offered # <<>> => /\ read' < Head(offered)
                          /\ \A i \in 1..Len(items') : items'[i] < Head(offered)
    <3>1. 1 \in 1..Len(items)
      BY <1>1
    <3>. QED
      BY <1>1, <3>1 DEF Rises
  <2>4. \A i \in 1..Len(items') :
            items'[i] <= sent \/ (items'[i] >= Error /\ pump = "ended")
    BY <1>1 DEF Rises
  <2>. QED
    BY <2>1, <2>2, <2>3, <2>4 DEF Rises, Error, Stream!Error
<1>7. Offer'
  BY DEF Offer, Error, Sentinel, Stream!Error, Stream!Sentinel
<1>8. \A i \in 1..Len(items) :
          i = 1 \/ (i - 1 \in 1..Len(items') /\ items'[i - 1] = items[i])
  BY <1>1
<1>9. ASSUME NEW e, InQueue(e), e # Head(items)
       PROVE  \/ \E i \in 1..Len(items') : items'[i] = e
              \/ \E i \in 1..Len(offered) : offered[i] = e
  BY <1>1, <1>8, <1>9 DEF InQueue
<1>10. ASSUME NEW e, \/ \E i \in 1..Len(items') : items'[i] = e
                     \/ \E i \in 1..Len(offered) : offered[i] = e
       PROVE  InQueue(e)
  BY <1>1, <1>2, <1>10 DEF InQueue
<1>11. InQueue(Error) => Head(items) = Error \/ InQueue(Error)'
  BY <1>9 DEF InQueue, Error, Stream!Error
<1>12. InQueue(Sentinel)' => InQueue(Sentinel)
  BY <1>10 DEF InQueue, Sentinel, Stream!Sentinel
<1>13. CASE consumer' = "raised"
  BY <1>5, <1>6, <1>7, <1>13 DEF ErrorIsAhead
<1>14. CASE UNCHANGED consumer /\ (Head(items) = Error => dropped')
  <2>1. ErrorIsAhead'
    BY <1>11, <1>12, <1>14 DEF ErrorIsAhead
  <2>. QED
    BY <1>5, <1>6, <1>7, <2>1
<1>15. CASE consumer = "reading" /\ Head(items) # Error /\ consumer' = "handling"
  <2>1. ErrorIsAhead'
    BY <1>11, <1>12, <1>15 DEF ErrorIsAhead
  <2>. QED
    BY <1>5, <1>6, <1>7, <2>1
\* After the sentinel there is nothing more, and so no error either.
<1>16. CASE consumer = "reading" /\ Head(items) = Sentinel /\ consumer' = "ended"
  <2>1. InQueue(Sentinel)
    <3>1. 1 \in 1..Len(items) /\ items[1] = Sentinel
      BY <1>1, <1>16
    <3>. QED
      BY <3>1 DEF InQueue
  <2>2. ~InQueue(Error)
    <3>1. \A i \in 1..Len(items) : items[i] # Error
      <4>1. \A i \in 1..Len(items) : i = 1 \/ items[1] < items[i]
        BY <1>1 DEF Rises
      <4>. QED
        BY <1>1, <1>3, <1>16, <4>1, LastOfQueue
    <3>2. \A i \in 1..Len(offered) : offered[i] # Error
      <4>1. offered = <<>> \/ Sentinel < Head(offered)
        BY <1>1, <1>16 DEF Rises
      <4>2. CASE offered = <<>>
        BY <4>2
      <4>3. CASE offered # <<>>
        <5>1. Head(offered) # Error /\ Head(offered) # Sentinel
          BY <4>1, <4>3, LastOfQueue
        <5>2. offered = <<sent>> /\ sent \in 1..MaxMessage
          BY <4>3, <5>1 DEF Offer
        <5>. QED
          BY <4>1, <4>3, <5>2, LastOfQueue
      <4>. QED
        BY <4>2, <4>3
    <3>. QED
      BY <3>1, <3>2 DEF InQueue
  <2>3. dropped
    BY <1>16, <2>1, <2>2 DEF ErrorIsAhead
  <2>. QED
    BY <1>5, <1>6, <1>7, <1>16, <2>3 DEF ErrorIsAhead
<1>. QED
  BY <1>13, <1>14, <1>15, <1>16

\* The pump drops the oldest item of a full queue.
LEMMA DropsKeeps ==
  ASSUME part = "stream", UNCHANGED part, StreamInv, Stream!Drops
  PROVE  StreamInv'
<1>1. /\ full' = FALSE
      /\ items' = SubSeq(items, 2, Len(items))
      /\ dropped' = (dropped \/ (items # <<>> /\ Head(items) = Error))
      /\ UNCHANGED <<asked, loop, pump, offered, consumer, sent, read, faults>>
  BY DEF Stream!Drops, Error
<1>2. PICK q \in Seq(1..Last) : q = items
  BY DEF StreamInv, StreamTypes
<1>3. CASE items = <<>>
  <2>1. Len(q) = 0
    BY <1>2, <1>3
  <2>2. SubSeq(q, 2, Len(q)) = <<>>
    BY <2>1, SubSeqEmpty
  <2>3. items' = items /\ dropped' = dropped
    BY <1>1, <1>2, <1>3, <2>2 DEF StreamInv, StreamTypes
  <2>. QED
    BY <1>1, <2>3
    DEF StreamInv, StreamTypes, Rises, Offer, ErrorIsAhead, InQueue, Error,
        Sentinel, Stream!Error, Stream!Sentinel
<1>4. CASE items # <<>>
  <2>1. items' = Tail(items)
    BY <1>1, <1>2, <1>4, TailIsSubSeq
  <2>2. /\ dropped' \in BOOLEAN /\ (dropped => dropped')
        /\ Head(items) = Error => dropped'
        /\ consumer' \in {"reading", "handling", "left", "raised", "ended"}
    BY <1>1, <1>4 DEF StreamInv, StreamTypes
  <2>. QED
    BY <1>1, <1>4, <2>1, <2>2, FewerItems
<1>. QED
  BY <1>3, <1>4

\* The consumer takes the next item.
LEMMA ReadsKeeps ==
  ASSUME part = "stream", UNCHANGED part, StreamInv, Stream!Reads
  PROVE  StreamInv'
<1>1. /\ consumer = "reading" /\ items # <<>>
      /\ items' = Tail(items)
      /\ UNCHANGED <<asked, loop, pump, offered, full, sent, faults, dropped>>
  BY DEF Stream!Reads
<1>2. Head(items) \in 1..Last /\ full \in BOOLEAN /\ dropped \in BOOLEAN
  BY <1>1, RestOfItems DEF StreamInv, StreamTypes
<1>3. \/ Head(items) = Error /\ consumer' = "raised" /\ UNCHANGED read
      \/ Head(items) = Sentinel /\ consumer' = "ended" /\ UNCHANGED read
      \/ /\ Head(items) \notin {Error, Sentinel}
         /\ consumer' = "handling" /\ read' = Head(items)
  BY LastOfQueue DEF Stream!Reads, Error, Sentinel
<1>4. Head(items) \notin {Error, Sentinel} => Head(items) < Error
  BY <1>2, LastOfQueue, Bounds
<1>. QED
  BY <1>1, <1>2, <1>3, <1>4, LastOfQueue, FewerItems

\* Every step of a stream keeps the invariant.
LEMMA StreamNextKeeps ==
  ASSUME StreamInv, StreamNext
  PROVE  StreamInv'
<1>1. part = "stream" /\ UNCHANGED part /\ Stream!Next
  BY DEF StreamNext
<1>2. StreamTypes /\ Offer
  BY <1>1 DEF StreamInv
<1>3. CASE Stream!Connects
  <2>1. /\ offered = <<>> /\ pump = "connecting"
        /\ \/ pump' \in {"open", "pausing"} /\ UNCHANGED offered
           \/ pump' = "ended" /\ offered' = <<Error, Sentinel>>
        /\ UNCHANGED <<asked, loop, full, items, consumer, sent, read, faults, dropped>>
    BY <1>2, <1>3 DEF Stream!Connects, Stream!Awaits, Stream!PumpEnds, Stream!Asked,
       StreamTypes, Error, Sentinel
  <2>. QED
    BY <1>1, <1>2, <2>1, PumpKeeps DEF StreamTypes
<1>4. CASE Stream!Receives
  <2>1. /\ offered = <<>> /\ pump = "open" /\ sent < MaxMessage
        /\ sent' = sent + 1 /\ offered' = <<sent'>>
        /\ UNCHANGED <<asked, loop, pump, full, items, consumer, read, faults, dropped>>
    BY <1>4 DEF Stream!Receives, Stream!Awaits
  <2>. QED
    BY <1>1, <1>2, <2>1, PumpKeeps DEF StreamTypes
<1>5. CASE Stream!Loses \/ Stream!HandshakeTimesOut
  <2>1. /\ offered = <<>> /\ pump # "ended"
        /\ faults < MaxFaults /\ faults' = faults + 1
        /\ \/ pump' = "pausing" /\ UNCHANGED offered
           \/ pump' = "ended" /\ offered' = <<Error, Sentinel>>
        /\ UNCHANGED <<asked, loop, full, items, consumer, sent, read, dropped>>
    BY <1>5 DEF Stream!Loses, Stream!HandshakeTimesOut, Stream!Awaits,
       Stream!PumpEnds, Error, Sentinel
  <2>2. faults' \in 0..MaxFaults
    BY <1>2, <2>1, Bounds DEF StreamTypes
  <2>. QED
    BY <1>1, <2>1, <2>2, PumpKeeps
<1>6. CASE Stream!Reconnects
  <2>1. /\ offered = <<>> /\ pump = "pausing" /\ pump' = "connecting"
        /\ UNCHANGED <<asked, loop, offered, full, items, consumer, sent, read,
                       faults, dropped>>
    BY <1>6 DEF Stream!Reconnects, Stream!Awaits
  <2>. QED
    BY <1>1, <1>2, <2>1, PumpKeeps DEF StreamTypes
<1>7. CASE Stream!Cancelled
  <2>1. /\ offered = <<>> /\ pump # "ended"
        /\ pump' = "ended" /\ offered' = <<Sentinel>>
        /\ consumer \in {"left", "raised", "ended"}
        /\ UNCHANGED <<asked, loop, full, items, consumer, sent, read, faults, dropped>>
    BY <1>7 DEF Stream!Cancelled, Stream!Awaits, Stream!Gone, Stream!PumpEnds,
       Sentinel
  <2>. QED
    BY <1>1, <1>2, <2>1, PumpKeeps DEF StreamTypes
<1>8. CASE Stream!Offers
  BY <1>1, <1>8, OffersKeeps
<1>9. CASE Stream!Drops
  BY <1>1, <1>9, DropsKeeps
<1>10. CASE Stream!Reads
  BY <1>1, <1>10, ReadsKeeps
<1>11. CASE Stream!GoesOn \/ Stream!Closes
  <2>1. /\ UNCHANGED <<asked, pump, offered, full, items, sent, read, faults, dropped>>
        /\ \/ loop' = "stopped" /\ UNCHANGED consumer
           \/ /\ consumer = "handling" /\ consumer' \in {"reading", "left"}
              /\ UNCHANGED loop
    BY <1>11 DEF Stream!GoesOn, Stream!Closes
  <2>2. StreamTypes' /\ Rises' /\ Offer'
    BY <1>1, <2>1
    DEF StreamInv, StreamTypes, Rises, Offer, Error, Sentinel, Stream!Error,
        Stream!Sentinel
  <2>3. ErrorIsAhead'
    BY <1>1, <2>1
    DEF StreamInv, ErrorIsAhead, InQueue, Error, Sentinel, Stream!Error,
        Stream!Sentinel
  <2>. QED
    BY <2>2, <2>3 DEF StreamInv
<1>. QED
  BY <1>1, <1>3, <1>4, <1>5, <1>6, <1>7, <1>8, <1>9, <1>10, <1>11
  DEF Stream!Next, Stream!Step

-----------------------------------------------------------------------------
(* OpenInterestJoin *)

\* The rows are of periods that had begun when they were read, and no more than limit
\* fit between the oldest of them and start or the period they were read in; or there
\* is but the present value.
JoinInv ==
    part = "join" =>
        /\ now \in 1..MaxTime
        /\ traded \subseteq 0..MaxTime
        /\ start \in 0..MaxTime + 1
        /\ limit \in 1..MaxLimit
        /\ asOf \in 0..now
        /\ rows \subseteq 1..asOf
        /\ stage = "candles" =>
               \/ rows = {asOf}
               \/ \A t \in rows : t <= start /\ (start - t < limit \/ asOf - t < limit)

\* Nothing is joined at first.
LEMMA JoinInit ==
  ASSUME part = "join", Join!Init
  PROVE  JoinInv
<1>1. /\ now = 1 /\ traded \subseteq 0..1 /\ start = MaxTime + 1 /\ limit = 1
      /\ rows = {} /\ asOf = 0 /\ stage = "idle"
  BY DEF Join!Init, Join!NoStart
<1>2. now \in 1..MaxTime /\ traded \subseteq 0..MaxTime
  BY <1>1, Bounds
<1>. QED
  BY <1>1, <1>2, Bounds DEF JoinInv

\* The instance's cardinality is the library's.
LEMMA SameCardinality ==
  ASSUME NEW S
  PROVE  Join!Cardinality(S) = Cardinality(S)
BY DEF Join!Cardinality, Cardinality

\* The newest rows reach back no further than the limit.
LEMMA NewestReachBack ==
  ASSUME part = "join", JoinInv,
         NEW t \in Join!Newest(limit, Join!UpTo(1..MaxTime))
  PROVE  /\ t \in 1..now /\ t <= start
         /\ start - t < limit \/ now - t < limit
<1>1. PICK e : e = IF start < now THEN start ELSE now
  OBVIOUS
<1>2. /\ now \in Nat /\ start \in Nat /\ limit \in Nat /\ MaxTime \in Nat
      /\ now <= MaxTime /\ e \in Nat /\ e <= MaxTime
      /\ \A u \in Nat : u <= e <=> u <= start /\ u <= now
  BY <1>1, Bounds DEF JoinInv
<1>3. t \in 1..MaxTime /\ t <= start /\ t <= now
  BY DEF Join!Newest, Join!UpTo
<1>4. {u \in Join!UpTo(1..MaxTime) : u > t} = (t + 1)..e
  BY <1>2, <1>3 DEF Join!UpTo
<1>5. Cardinality((t + 1)..e) = e - t
  <2>1. t + 1 \in Int /\ e \in Int /\ (t + 1 > e => e - t = 0) /\ (e - (t + 1)) + 1 = e - t
    BY <1>2, <1>3
  <2>. QED
    BY <2>1, FS_Interval
<1>6. Join!Cardinality({u \in Join!UpTo(1..MaxTime) : u > t}) < limit
  BY DEF Join!Newest
<1>7. e - t < limit
  BY <1>4, <1>5, <1>6, SameCardinality
<1>. QED
  BY <1>1, <1>2, <1>3, <1>7

\* Every step of the join keeps the invariant.
LEMMA JoinNextKeeps ==
  ASSUME JoinInv, JoinNext
  PROVE  JoinInv'
<1>0. part = "join" /\ UNCHANGED part /\ Join!Next
  BY DEF JoinNext
<1>1. /\ now \in 1..MaxTime
      /\ traded \subseteq 0..MaxTime
      /\ start \in 0..MaxTime + 1
      /\ limit \in 1..MaxLimit
      /\ asOf \in 0..now
      /\ rows \subseteq 1..asOf
  BY <1>0 DEF JoinInv
<1>2. CASE Join!Asks
  <2>1. /\ stage' = "rows" /\ rows' = {}
        /\ start' \in 0..now \cup {MaxTime + 1} /\ limit' \in 1..MaxLimit
        /\ UNCHANGED <<now, traded, asOf>>
    BY <1>2 DEF Join!Asks, Join!NoStart
  <2>2. start' \in 0..MaxTime + 1
    BY <1>1, <2>1, Bounds
  <2>. QED
    BY <1>0, <1>1, <2>1, <2>2 DEF JoinInv
<1>3. CASE Join!RowsArrive
  <2>1. /\ rows' \in Join!Walks(Join!Newest(limit, Join!UpTo(1..MaxTime))) \cup {{now}}
        /\ asOf' = now
        /\ UNCHANGED <<now, traded, start, limit>>
    BY <1>3 DEF Join!RowsArrive
  <2>2. rows' = {now} \/ rows' \subseteq Join!Newest(limit, Join!UpTo(1..MaxTime))
    BY <2>1 DEF Join!Walks
  <2>3. /\ rows' \subseteq 1..now
        /\ \/ rows' = {now}
           \/ \A t \in rows' : t <= start /\ (start - t < limit \/ now - t < limit)
    BY <1>0, <1>1, <2>2, NewestReachBack
  <2>4. asOf' \in 0..now'
    BY <1>1, <2>1
  <2>. QED
    BY <1>0, <1>1, <2>1, <2>3, <2>4 DEF JoinInv
<1>4. CASE Join!RowsFail \/ Join!CandlesArrive \/ Join!CandlesFail
  BY <1>0, <1>1, <1>4
  DEF JoinInv, Join!RowsFail, Join!CandlesArrive, Join!CandlesFail
<1>5. CASE Join!Trades
  <2>1. /\ traded' = traded \cup {now}
        /\ UNCHANGED <<now, stage, start, limit, rows, asOf>>
    BY <1>5 DEF Join!Trades
  <2>2. traded' \subseteq 0..MaxTime
    BY <1>1, <2>1
  <2>. QED
    BY <1>0, <1>1, <2>1, <2>2 DEF JoinInv
<1>6. CASE Join!Tick
  <2>1. /\ now < MaxTime /\ now' = now + 1
        /\ UNCHANGED <<traded, stage, start, limit, rows, asOf>>
    BY <1>6 DEF Join!Tick
  <2>2. now' \in 1..MaxTime /\ asOf' \in 0..now'
    BY <1>1, <2>1, Bounds
  <2>. QED
    BY <1>0, <1>1, <2>1, <2>2 DEF JoinInv
<1>. QED
  BY <1>0, <1>2, <1>3, <1>4, <1>5, <1>6 DEF Join!Next

\* From a row on that has as many older ones as periods ended between the two fetches,
\* there are no more periods than the limit: the candles reach back to it.
LEMMA CandlesReachBack ==
  ASSUME part = "join", JoinInv, stage = "candles", NEW t \in rows, t <= start,
         ~(Join!Cardinality({u \in rows : u < t}) < now - asOf),
         NEW c \in Join!UpTo(traded), c >= t - 1
  PROVE  c \in Join!Newest(limit + 1, Join!UpTo(traded))
<1> DEFINE Older == {u \in rows : u < t}
           Newer == {u \in Join!UpTo(traded) : u > c}
<1>1. PICK e : e = IF start < now THEN start ELSE now
  OBVIOUS
<1>2. PICK f : f = IF start < asOf THEN start ELSE asOf
  OBVIOUS
<1>3. /\ now \in Nat /\ start \in Nat /\ asOf \in Nat /\ limit \in Nat \ {0}
      /\ t \in Nat \ {0} /\ t <= asOf /\ asOf <= now
      /\ traded \subseteq Nat /\ rows \subseteq Nat
      /\ \/ rows = {asOf}
         \/ \A u \in rows : u <= start /\ (start - u < limit \/ asOf - u < limit)
  BY Bounds DEF JoinInv
<1>4. e \in Nat /\ f \in Nat /\ t <= f /\ f <= e /\ e <= f + (now - asOf)
  BY <1>1, <1>2, <1>3
<1>5. c \in Nat /\ \A u \in Join!UpTo(traded) : u \in Nat /\ u <= e
  BY <1>1, <1>3 DEF Join!UpTo
<1>6. e - t < limit
  <2>1. CASE rows = {asOf}
    <3>1. Older = {} /\ t = asOf
      BY <1>3, <2>1
    <3>2. Join!Cardinality(Older) = 0
      BY <3>1, FS_EmptySet, SameCardinality
    <3>3. ~(0 < now - asOf)
      BY <3>2
    <3>. QED
      BY <1>3, <1>4, <1>1, <3>1, <3>3
  <2>2. CASE \A u \in rows : u <= start /\ (start - u < limit \/ asOf - u < limit)
    <3>1. PICK a \in Int : a = (f - limit) + 1
      BY <1>3, <1>4
    <3>2. \A u \in rows : a <= u
      BY <1>2, <1>3, <2>2, <3>1
    <3>3. Older \subseteq a..(t - 1) /\ a <= t
      <4>1. \A u \in Older : u \in Int /\ a <= u /\ u <= t - 1
        BY <1>3, <3>2
      <4>2. a <= t /\ a \in Int /\ t \in Int
        BY <1>3, <3>1, <3>2
      <4> HIDE DEF Older
      <4>. QED
        BY <4>1, <4>2
    <3>4. IsFiniteSet(a..(t - 1)) /\ Cardinality(a..(t - 1)) = t - a
      BY <1>3, <3>1, <3>3, FS_Interval
    <3>5. Cardinality(Older) <= t - a /\ Cardinality(Older) \in Nat
      BY <3>3, <3>4, FS_Subset, FS_CardinalityType
    <3>6. ~(Cardinality(Older) < now - asOf)
      BY SameCardinality
    <3> HIDE DEF Older
    <3>7. now - asOf <= t - a
      BY <1>3, <3>1, <3>5, <3>6
    <3>. QED
      BY <1>3, <1>4, <3>1, <3>7
  <2>. QED
    BY <1>3, <2>1, <2>2
<1>7. Newer \subseteq t..e
  <2>1. \A u \in Newer : u \in Int /\ t <= u /\ u <= e
    BY <1>3, <1>5
  <2>. QED
    BY <1>3, <1>4, <2>1
<1>8. IsFiniteSet(t..e) /\ Cardinality(t..e) = (e - t) + 1
  <2>1. t \in Int /\ e \in Int /\ ~(t > e)
    BY <1>3, <1>4
  <2>. QED
    BY <2>1, FS_Interval
<1>9. Cardinality(Newer) <= (e - t) + 1 /\ Cardinality(Newer) \in Nat
  BY <1>7, <1>8, FS_Subset, FS_CardinalityType
<1>10. Cardinality(Newer) < limit + 1
  <2> HIDE DEF Newer
  <2>. QED
    BY <1>3, <1>4, <1>6, <1>9
<1>11. Join!Cardinality({u \in Join!UpTo(traded) : u > c}) < limit + 1
  BY <1>10, SameCardinality
<1>. QED
  BY <1>11 DEF Join!Newest

\* A row gets its close, or there is one of the reasons that it has none.
LEMMA JoinIsRight ==
  ASSUME part = "join", JoinInv
  PROVE  Join!JoinStep
<1> SUFFICES ASSUME Join!CandlesArrive, NEW t \in rows \ joined',
                    t - 1 \in traded, t <= start,
                    NEW d \in Join!UpTo(traded), ~(d < t),
                    ~(Join!Cardinality({u \in rows : u < t}) < now - asOf)
             PROVE  cut' /\ (t - 1 \in came' => \A u \in came' : u < t)
  BY DEF Join!JoinStep
<1> DEFINE C == Join!Newest(limit + 1, Join!UpTo(traded))
<1>1. /\ stage = "candles"
      /\ came' \in Join!Walks(C) /\ cut' = (came' # C)
      /\ joined' = {u \in rows : u - 1 \in Join!Ended(came')}
  BY DEF Join!CandlesArrive, Join!JoinedWith
<1>2. now \in Nat /\ start \in Nat /\ t \in Nat /\ t <= now /\ traded \subseteq Nat
  BY Bounds DEF JoinInv
<1>3. t - 1 \in Join!UpTo(traded) /\ t - 1 >= t - 1
  BY <1>2 DEF Join!UpTo
<1>4. d \in Nat /\ d >= t /\ d >= t - 1
  BY <1>2 DEF Join!UpTo
<1>5. t - 1 \in C /\ d \in C
  BY <1>1, <1>3, <1>4, CandlesReachBack
<1>6. \A u \in came' : u \in Nat
  <2>1. came' \subseteq C
    BY <1>1 DEF Join!Walks
  <2>2. C \subseteq traded
    BY DEF Join!Newest, Join!UpTo
  <2>. QED
    BY <1>2, <2>1, <2>2
<1>7. t - 1 \notin Join!Ended(came')
  BY <1>1
<1>8. ~(t - 1 \in came' /\ \E u \in came' : u > t - 1)
  BY <1>7 DEF Join!Ended
<1> HIDE DEF C
<1>9. cut'
  <2>1. d > t - 1
    BY <1>2, <1>4
  <2>2. came' # C
    BY <1>5, <1>8, <2>1
  <2>. QED
    BY <1>1, <2>2
<1>. QED
  BY <1>2, <1>6, <1>8, <1>9

-----------------------------------------------------------------------------
(* The theorems *)

Inv == RequestInv /\ StreamInv /\ JoinInv

\* The invariant holds initially.
LEMMA InitInv == Init => Inv
BY RequestInit, StreamInit, JoinInit DEF Init, Inv, RequestInv, StreamInv, JoinInv

\* Every step keeps it.
LEMMA NextKeepsInv == Inv /\ [Next]_vars => Inv'
<1> SUFFICES ASSUME Inv, [Next]_vars PROVE Inv'
  OBVIOUS
<1>1. CASE RequestNext
  <2>1. part' = "requests"
    BY <1>1 DEF RequestNext
  <2>2. RequestInv'
    BY <1>1, RequestNextKeeps DEF Inv
  <2>. QED
    BY <2>1, <2>2 DEF Inv, StreamInv, JoinInv
<1>2. CASE StreamNext
  <2>1. part' = "stream"
    BY <1>2 DEF StreamNext
  <2>2. StreamInv'
    BY <1>2, StreamNextKeeps DEF Inv
  <2>. QED
    BY <2>1, <2>2 DEF Inv, RequestInv, JoinInv
<1>3. CASE JoinNext
  <2>1. part' = "join"
    BY <1>3 DEF JoinNext
  <2>2. JoinInv'
    BY <1>3, JoinNextKeeps DEF Inv
  <2>. QED
    BY <2>1, <2>2 DEF Inv, RequestInv, StreamInv
<1>4. CASE UNCHANGED vars
  <2>1. UNCHANGED <<part, stage, capabilities, route, wrong, attempt, result,
                    last, failed>>
    BY <1>4 DEF vars, RequestVars
  <2>2. UNCHANGED <<part, asked, loop, pump, offered, full, items, consumer, sent,
                    read, faults, dropped>>
    BY <1>4 DEF vars, StreamVars
  <2>3. UNCHANGED <<part, stage, now, traded, start, limit, rows, asOf, joined,
                    came, cut>>
    BY <1>4 DEF vars, JoinVars
  <2>4. RequestInv'
    BY <2>1 DEF Inv, RequestInv, CallRight, Request!TypeOK
  <2>5. StreamInv'
    BY <2>2 DEF Inv, StreamInv, StreamTypes, Rises, Offer, ErrorIsAhead, InQueue,
       Error, Sentinel, Stream!Error, Stream!Sentinel
  <2>6. JoinInv'
    BY <2>3 DEF Inv, JoinInv
  <2>. QED
    BY <2>4, <2>5, <2>6 DEF Inv
<1>. QED
  BY <1>1, <1>2, <1>3, <1>4 DEF Next

\* So it holds throughout.
LEMMA InvHolds == Spec => []Inv
BY InitInv, NextKeepsInv, PTL DEF Spec

\* Errors name the side at fault: whatever the retries and the answers to the other
\* calls, a call is told that it is wrong only if it is or the exchange rejected it or
\* sent no number; that a side failed only if it did in the last attempt; and a wrong
\* call fails or is warned that there is nothing, but for OKX's ratio of a symbol.
THEOREM BlameStaysRight == Spec => []BlameIsRight
<1>1. Inv => BlameIsRight
  BY DEF Inv, RequestInv, CallRight, BlameIsRight, Request!BlameIsRight
<1>. QED
  BY <1>1, InvHolds, PTL

\* Until a fetch of the capabilities fails, no call that they rule out gets to the
\* route, and no short frame but one of liquidations goes unflagged, whichever call
\* fetched them.
THEOREM CapabilitiesStayUsed == Spec => []CapabilitiesAreUsed
<1>1. Inv => CapabilitiesAreUsed
  BY DEF Inv, RequestInv, CallRight, CapabilitiesAreUsed, Request!CapabilitiesAreUsed
<1>. QED
  BY <1>1, InvHolds, PTL

\* The error that ended the pump is what the consumer's generator ends with, after
\* messages in their order, unless offer dropped it.
THEOREM ErrorsStayAhead == Spec => []ErrorsReachConsumer
<1>1. Inv => ErrorsReachConsumer
  <2> SUFFICES ASSUME Inv, part = "stream"
               PROVE  Stream!TypeOK /\ Stream!ErrorsReachConsumer
    BY DEF ErrorsReachConsumer
  <2>1. StreamTypes /\ Rises /\ Offer /\ ErrorIsAhead
    BY DEF Inv, StreamInv
  <2>2. offered \in Seq(1..Last) /\ Len(offered) <= 2
    <3>1. CASE offered = <<>>
      BY <3>1
    <3>2. CASE offered = <<sent>> /\ sent \in 1..MaxMessage
      BY <3>2, LastOfQueue
    <3>3. CASE offered \in {<<Error, Sentinel>>, <<Sentinel>>}
      <4>1. PICK m \in 1..Last, n \in 1..Last : m = Error /\ n = Sentinel
        BY LastOfQueue
      <4>2. <<m, n>> \in Seq(1..Last) /\ <<n>> \in Seq(1..Last)
        OBVIOUS
      <4>. QED
        <5>1. CASE offered = <<m, n>>
          BY <4>2, <5>1
        <5>2. CASE offered = <<n>>
          BY <4>2, <5>2
        <5>. QED
          BY <3>3, <4>1, <5>1, <5>2
    <3>. QED
      BY <2>1, <3>1, <3>2, <3>3 DEF Offer
  <2>3. {sent, read, faults} \subseteq 0..MaxMessage + MaxFaults
    BY <2>1, Bounds DEF StreamTypes
  <2>4. Stream!TypeOK
    BY <2>1, <2>2, <2>3, LastOfQueue DEF StreamTypes, Stream!TypeOK, Sentinel
  <2>5. DOMAIN items = 1..Len(items)
    BY <2>1 DEF StreamTypes
  <2>6. items # <<>> => read < Head(items)
    <3>1. items # <<>> => 1 \in 1..Len(items) /\ Head(items) = items[1]
      BY <2>1, RestOfItems
    <3>. QED
      BY <2>1, <3>1 DEF Rises
  <2>. QED
    BY <2>1, <2>4, <2>5, <2>6 DEF Rises, ErrorIsAhead, Stream!ErrorsReachConsumer
<1>. QED
  BY <1>1, InvHolds, PTL

\* A row of open interest whose candle was traded gets its close, unless the walk for
\* the candles ended early without what it takes, nothing was traded after the candle,
\* or the row is one of the oldest, as many as periods ended between the fetches.
THEOREM RowsStayJoined == Spec => RowsAreJoined
<1>1. Inv => (part = "join" => Join!JoinStep)
  BY JoinIsRight DEF Inv
<1>. QED
  BY <1>1, InvHolds, PTL DEF Spec, RowsAreJoined

=============================================================================
