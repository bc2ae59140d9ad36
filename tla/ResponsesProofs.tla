--------------------------- MODULE ResponsesProofs ---------------------------
(***************************************************************************)
(* What the response operators return, for every response.                 *)
(***************************************************************************)
EXTENDS Responses, TLAPS

\* The class of an error is one of the SDK's, whatever the status.
LEMMA ErrorClassType ==
    ASSUME NEW status PROVE ErrorClass(status) \in ErrorClasses
  BY DEF ErrorClass, ExactClass, ErrorClasses

\* The error branch of _ok_body raises an API error.
LEMMA ErrorOfType ==
    ASSUME NEW resp \in Responses PROVE ErrorOf(resp) \in APIErrors
  <1>1. /\ resp.body.name \in ErrorNames \cup {"", "null"}
        /\ DecodeJson(resp.body).name = resp.body.name
    BY DEF Responses, Bodies, DecodeJson
  <1>3. Str(resp.body.name) \in ErrorNames \cup {"", "None"}
    BY <1>1 DEF Str
  <1>2. /\ ParseRetryAfter(resp.headers.retryAfter) \in {"None", "seconds"}
        /\ Header(resp.headers.requestId) \in {"None", "text"}
    BY DEF Responses, Headers, ParseRetryAfter, Header
  <1> QED
    BY <1>1, <1>2, <1>3, ErrorClassType DEF ErrorOf, RaiseForResponse, APIErrors

\* A send returns an Email, or raises an API error or the base error.
LEMMA ProcessResponseType ==
    ASSUME NEW resp \in Responses PROVE ProcessResponse(resp) \in Processed
  <1> DEFINE body == DecodeJson(resp.body)
  <1>1. CASE ~OkStatus(resp.status) \/ ~Loads(resp.body)
    BY <1>1, ErrorOfType DEF ProcessResponse, Processed
  <1>2. CASE OkStatus(resp.status) /\ IsDict(body) /\ body.id # "absent"
    <2>1. body.id \in {"null", "text"} /\ body.scheduledAt \in Fields
      BY <1>2 DEF Responses, Bodies, DecodeJson, Fields
    <2>2. EmailOf(resp, body) \in Emails
      BY <2>1 DEF EmailOf, Emails, Str, OptionalStr, Header, Responses, Headers
    <2> QED BY <1>2, <2>2 DEF ProcessResponse, Processed
  <1>3. CASE OkStatus(resp.status) /\ ~(IsDict(body) /\ body.id # "absent")
    BY <1>3 DEF ProcessResponse, Processed
  <1> QED BY <1>1, <1>2, <1>3

\* So does every other call, with a model for the Email.
LEMMA ProcessType ==
    ASSUME NEW model \in Models \cup {"send"}, NEW resp \in Responses
    PROVE  Process(model, resp) \in Processed
  <1>1. CASE model = "send"
    BY <1>1, ProcessResponseType DEF Process
  <1>2. CASE model # "send"
    <2>1. ProcessModel(model, resp) \in Processed
      BY <1>2, ErrorOfType DEF ProcessModel, Processed, Parsed
    <2> QED BY <1>2, <2>1 DEF Process
  <1> QED BY <1>1, <1>2

\* The base error of response handling is raised for 2xx responses only.
LEMMA MalformedIsOk ==
    ASSUME NEW model, NEW resp \in Responses, Process(model, resp) = Malformed
    PROVE  OkStatus(resp.status)
  <1>1. ErrorOf(resp).kind = "api_error"
    BY DEF ErrorOf, RaiseForResponse
  <1> QED
    BY <1>1 DEF Process, ProcessResponse, ProcessModel, Malformed, DigitsError

\* The outcomes of processing are told apart from all others by their kind.
LEMMA ProcessedKinds ==
    ASSUME NEW outcome \in Processed
    PROVE  outcome.kind \in {"email", "model", "api_error", "malformed", "digits_error"}
  <1>1. CASE outcome \in Emails
    BY <1>1 DEF Emails
  <1>2. CASE outcome \in Parsed
    BY <1>2 DEF Parsed
  <1>3. CASE outcome \in APIErrors
    BY <1>3 DEF APIErrors
  <1>4. CASE outcome \in {Malformed, DigitsError}
    BY <1>4 DEF Malformed, DigitsError
  <1> QED
    BY <1>1, <1>2, <1>3, <1>4 DEF Processed

\* Exactly the bodies json.loads refuses end a call in its ValueError,
\* whatever the call and the status.
LEMMA DigitsExactly ==
    ASSUME NEW r \in Responses, NEW model
    PROVE  Process(model, r) = DigitsError <=> ~Loads(r.body)
  <1>1. CASE ~Loads(r.body)
    BY <1>1 DEF Process, ProcessResponse, ProcessModel
  <1>2. CASE Loads(r.body)
    <2>1. \/ Process(model, r) = ErrorOf(r)
          \/ Process(model, r) = EmailOf(r, DecodeJson(r.body))
          \/ Process(model, r) = [kind |-> "model", model |-> model]
          \/ Process(model, r) = Malformed
      BY <1>2 DEF Process, ProcessResponse, ProcessModel
    <2>2. ErrorOf(r).kind = "api_error"
      BY DEF ErrorOf, RaiseForResponse
    <2>3. EmailOf(r, DecodeJson(r.body)).kind = "email"
      BY DEF EmailOf
    <2>4. [kind |-> "model", model |-> model].kind = "model"
      OBVIOUS
    <2>5. Malformed.kind = "malformed" /\ DigitsError.kind = "digits_error"
      BY DEF Malformed, DigitsError
    <2>6. Process(model, r).kind \in {"api_error", "email", "model", "malformed"}
      <3>1. CASE Process(model, r) = ErrorOf(r)
        BY <3>1, <2>2
      <3>2. CASE Process(model, r) = EmailOf(r, DecodeJson(r.body))
        BY <3>2, <2>3
      <3>3. CASE Process(model, r) = [kind |-> "model", model |-> model]
        BY <3>3, <2>4
      <3>4. CASE Process(model, r) = Malformed
        BY <3>4, <2>5
      <3> QED BY <2>1, <3>1, <3>2, <3>3, <3>4
    <2> QED BY <1>2, <2>5, <2>6
  <1> QED BY <1>1, <1>2
==============================================================================
