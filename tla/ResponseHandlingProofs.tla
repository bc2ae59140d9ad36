------------------------ MODULE ResponseHandlingProofs ------------------------
(***************************************************************************)
(* The properties of ResponseHandling for every status, error name and     *)
(* model.  The invariant says that each result is what Process returns for *)
(* the response under study; the rest are facts about the operators.       *)
(***************************************************************************)
EXTENDS ResponseHandling, ResponsesProofs

IInv ==
    /\ resp \in Responses
    /\ DOMAIN results \subseteq Calls
    /\ \A m \in DOMAIN results : results[m] = Process(m, resp)

LEMMA Invariance == Spec => []IInv
  <1>1. Init => IInv
    BY DEF Init, IInv
  <1>2. IInv /\ [Next]_vars => IInv'
    <2> SUFFICES ASSUME IInv, [Next]_vars PROVE IInv'
      OBVIOUS
    <2>1. ASSUME NEW model \in Calls, Handle(model) PROVE IInv'
      <3>1. resp' = resp /\ DOMAIN results' = DOMAIN results \cup {model}
        BY <2>1 DEF Handle
      <3>2. ASSUME NEW m \in DOMAIN results' PROVE results'[m] = Process(m, resp)
        BY <2>1, <3>2 DEF Handle, IInv
      <3> QED BY <3>1, <3>2 DEF IInv
    <2>2. CASE UNCHANGED vars
      BY <2>2 DEF vars, IInv
    <2> QED BY <2>1, <2>2 DEF Next
  <1> QED BY <1>1, <1>2, PTL DEF Spec

\* The kinds of outcome exclude each other.
LEMMA KindsOfOutcome ==
    /\ \A o \in Emails : o.kind = "email"
    /\ \A o \in Parsed : o.kind = "model"
    /\ \A o \in APIErrors : o.kind = "api_error"
    /\ Malformed.kind = "malformed" /\ DigitsError.kind = "digits_error"
  BY DEF Emails, Parsed, APIErrors, Malformed, DigitsError

\* An answer that is not 2xx is an API error, the same for every call, unless
\* json.loads fails on its body, which is the same for every call too.
LEMMA NotOk ==
    ASSUME NEW r \in Responses, NEW m, ~OkStatus(r.status)
    PROVE  Process(m, r) = IF Loads(r.body) THEN ErrorOf(r) ELSE DigitsError
  BY DEF Process, ProcessResponse, ProcessModel

\* A 2xx answer is a result of the call's own kind exactly when its body has
\* the shape the call expects, and never an API error.
LEMMA Ok ==
    ASSUME NEW r \in Responses, NEW m \in Calls, OkStatus(r.status)
    PROVE  LET shaped == /\ r.body.json = "object"
                         /\ IF m = "send" THEN r.body.id # "absent" ELSE m \in r.body.fits
           IN  /\ Process(m, r) \notin APIErrors
               /\ (Process(m, r) \in Emails \cup Parsed) <=> shaped
               /\ Process(m, r) \in Parsed => Process(m, r).model = m
  <1> DEFINE shaped == /\ r.body.json = "object"
                       /\ IF m = "send" THEN r.body.id # "absent" ELSE m \in r.body.fits
             p == Process(m, r)
  <1>1. DecodeJson(r.body).json = "object" <=> r.body.json = "object"
    BY DEF DecodeJson, Responses, Bodies
  <1>2. r.body.json = "object" => DecodeJson(r.body) = r.body /\ Loads(r.body)
    BY DEF DecodeJson, Loads
  <1>3. CASE shaped /\ m = "send"
    <2>1. p = EmailOf(r, DecodeJson(r.body))
      BY <1>1, <1>2, <1>3 DEF Process, ProcessResponse, IsDict
    <2>2. p.kind = "email"
      BY <2>1 DEF EmailOf
    <2>3. p \in Processed
      BY <1>3, ProcessType
    <2>4. p \in Emails
      BY <2>2, <2>3, KindsOfOutcome DEF Processed
    <2> QED BY <1>3, <2>2, <2>4, KindsOfOutcome
  <1>4. CASE shaped /\ m # "send"
    <2>1. p = [kind |-> "model", model |-> m]
      BY <1>1, <1>2, <1>4 DEF Process, ProcessModel, IsDict
    <2>2. p \in Parsed /\ p.kind = "model" /\ p.model = m
      BY <1>4, <2>1 DEF Parsed, Calls
    <2> QED BY <1>4, <2>2, KindsOfOutcome
  <1>5. CASE ~shaped
    <2>1. p \in {Malformed, DigitsError}
      BY <1>1, <1>2, <1>5 DEF Process, ProcessResponse, ProcessModel, IsDict
    <2>2. p \notin Emails \cup Parsed \cup APIErrors
      BY <2>1, KindsOfOutcome
    <2> QED BY <1>5, <2>2
  <1> QED BY <1>3, <1>4, <1>5

\* Every call returns or raises one of the outcomes listed, whatever the response.
THEOREM OutcomesTyped == Spec => []TypeOK
  <1>1. IInv => TypeOK
    BY ProcessType DEF IInv, TypeOK, Calls
  <1> QED BY <1>1, Invariance, PTL

\* Verbs agree on the error of every response that is not a 2xx.
THEOREM ErrorsAgree == Spec => []OneErrorMapping
  <1>1. IInv => OneErrorMapping
    <2> SUFFICES ASSUME IInv, NEW m \in DOMAIN results, NEW n \in DOMAIN results
                 PROVE  /\ ~OkStatus(resp.status) => results[m] = results[n]
                        /\ (results[m] \in APIErrors) <=>
                              (Loads(resp.body) /\ ~OkStatus(resp.status))
      BY DEF OneErrorMapping
    <2>1. /\ resp \in Responses /\ m \in Calls
          /\ results[m] = Process(m, resp) /\ results[n] = Process(n, resp)
      BY DEF IInv
    <2>2. CASE OkStatus(resp.status)
      BY <2>1, <2>2, Ok
    <2>3. CASE ~OkStatus(resp.status)
      <3>1. ErrorOf(resp) \in APIErrors /\ DigitsError \notin APIErrors
        BY <2>1, ErrorOfType, KindsOfOutcome
      <3> QED BY <2>1, <2>3, <3>1, NotOk
    <2> QED BY <2>2, <2>3
  <1> QED BY <1>1, Invariance, PTL

\* A result is handed back exactly for the bodies that have its shape.
THEOREM ResultsFit == Spec => []ResultsAreWellShaped
  <1>1. IInv => ResultsAreWellShaped
    <2> SUFFICES ASSUME IInv, NEW m \in DOMAIN results, OkStatus(resp.status)
                 PROVE  /\ (results[m] \in Emails \cup Parsed) <=>
                              /\ resp.body.json = "object"
                              /\ IF m = "send" THEN resp.body.id # "absent"
                                               ELSE m \in resp.body.fits
                        /\ results[m] \in Parsed => results[m].model = m
      BY DEF ResultsAreWellShaped
    <2>1. resp \in Responses /\ m \in Calls /\ results[m] = Process(m, resp)
      BY DEF IInv
    <2> QED BY <2>1, Ok
  <1> QED BY <1>1, Invariance, PTL

\* Class and name of an error say what the status and the envelope say.
THEOREM ErrorsTrue == Spec => []ErrorsKeepTheirMeaning
  <1>1. IInv => ErrorsKeepTheirMeaning
    <2> SUFFICES ASSUME IInv, NEW m \in DOMAIN results, results[m] \in APIErrors
                 PROVE  /\ (results[m].class \in Retryable) <=> (resp.status \in {429} \cup 500..599)
                        /\ \A name \in ErrorNames :
                              results[m].name = name <=>
                                  (resp.body.json = "object" /\ resp.body.name = name)
      BY DEF ErrorsKeepTheirMeaning
    <2>1. resp \in Responses /\ m \in Calls /\ results[m] = Process(m, resp)
      BY DEF IInv
    <2>2. ~OkStatus(resp.status)
      BY <2>1, Ok
    <2>3. results[m] = ErrorOf(resp)
      BY <2>1, <2>2, NotOk, KindsOfOutcome
    <2>4. resp.status \in Int
      <3>1. resp.status \in Statuses
        BY <2>1 DEF Responses
      <3>2. resp.status \in 100..999
        BY ZenonT(30), <3>1, StatusesAssumption
      <3> QED BY <3>2
    <2>5. (ErrorClass(resp.status) \in Retryable) <=> (resp.status \in {429} \cup 500..599)
      BY <2>4 DEF ErrorClass, ExactClass, Retryable
    <2>6. ErrorOf(resp).class = ErrorClass(resp.status)
      BY DEF ErrorOf, RaiseForResponse
    <2>7. ErrorOf(resp).name = IF resp.body.json = "object" THEN Str(resp.body.name) ELSE ""
      BY <2>1 DEF ErrorOf, RaiseForResponse, DecodeJson, IsDict, Responses, Bodies
    <2>8. ASSUME NEW name \in ErrorNames
          PROVE  ErrorOf(resp).name = name <=>
                     (resp.body.json = "object" /\ resp.body.name = name)
      BY <2>7, NamesAssumption DEF Str
    <2> QED BY <2>3, <2>5, <2>6, <2>8
  <1> QED BY <1>1, Invariance, PTL

(***************************************************************************)
(* How far the two flaws of the decoding go.  A call ends in the plain     *)
(* ValueError of json.loads exactly for the bodies with an overlong number, *)
(* and an Email has no id of its own exactly for the accepted sends whose   *)
(* answer has a null one; no other call and no other body is affected.     *)
(***************************************************************************)
FlawsHaveCauses ==
    \A m \in DOMAIN results :
        /\ results[m] = DigitsError <=> resp.body.json = "overlong"
        /\ (results[m] \in Emails /\ results[m].id # "text") <=>
              /\ m = "send" /\ OkStatus(resp.status)
              /\ resp.body.json = "object" /\ resp.body.id = "null"

THEOREM FlawsDelimited == Spec => []FlawsHaveCauses
  <1>1. IInv => FlawsHaveCauses
    <2> SUFFICES ASSUME IInv, NEW m \in DOMAIN results
                 PROVE  /\ results[m] = DigitsError <=> resp.body.json = "overlong"
                        /\ (results[m] \in Emails /\ results[m].id # "text") <=>
                              /\ m = "send" /\ OkStatus(resp.status)
                              /\ resp.body.json = "object" /\ resp.body.id = "null"
      BY DEF FlawsHaveCauses
    <2>1. resp \in Responses /\ m \in Calls /\ results[m] = Process(m, resp)
      BY DEF IInv
    <2>2. results[m] = DigitsError <=> resp.body.json = "overlong"
      BY <2>1, DigitsExactly DEF Loads
    <2>3. CASE /\ m = "send" /\ OkStatus(resp.status)
               /\ resp.body.json = "object" /\ resp.body.id # "absent"
      <3>1. results[m] = EmailOf(resp, resp.body)
        BY <2>1, <2>3 DEF Process, ProcessResponse, DecodeJson, IsDict, Loads
      <3>2. results[m] \in Emails
        <4>1. results[m] \in Emails \cup Parsed /\ results[m].kind = "email"
          BY <2>1, <2>3, <3>1, Ok DEF EmailOf
        <4> QED BY <4>1, KindsOfOutcome
      <3>3. results[m].id = Str(resp.body.id)
        <4>1. EmailOf(resp, resp.body).id = Str(resp.body.id)
          BY DEF EmailOf
        <4> QED BY <3>1, <4>1
      <3>4. resp.body.id \in {"null", "text"}
        <4>1. resp.body \in Bodies
          BY <2>1 DEF Responses
        <4>2. resp.body.id \in Fields
          BY <4>1 DEF Bodies
        <4> QED BY <2>3, <4>2 DEF Fields
      <3>5. (results[m].id # "text") <=> (resp.body.id = "null")
        BY <3>3, <3>4 DEF Str
      <3> QED BY <2>2, <2>3, <3>2, <3>5
    <2>4. CASE ~(/\ m = "send" /\ OkStatus(resp.status)
                 /\ resp.body.json = "object" /\ resp.body.id # "absent")
      <3>1. results[m] \notin Emails
        <4>1. CASE ~OkStatus(resp.status)
          <5>1. results[m] \in APIErrors \cup {DigitsError}
            BY <2>1, <4>1, NotOk, ErrorOfType
          <5> QED BY <5>1, KindsOfOutcome
        <4>2. CASE OkStatus(resp.status) /\ m = "send"
          BY <2>1, <2>4, <4>2, Ok
        <4>3. CASE OkStatus(resp.status) /\ m # "send"
          <5>1. \/ results[m] = [kind |-> "model", model |-> m]
                \/ results[m] \in {Malformed, DigitsError}
            BY <2>1, <4>3 DEF Process, ProcessModel
          <5> QED BY <5>1, KindsOfOutcome
        <4> QED BY <4>1, <4>2, <4>3
      <3> QED BY <2>2, <2>4, <3>1
    <2> QED BY <2>3, <2>4
  <1> QED BY <1>1, Invariance, PTL
==============================================================================
