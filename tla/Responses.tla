------------------------------ MODULE Responses ------------------------------
(***************************************************************************)
(* What the SDK makes of one HTTP response: the operators behind           *)
(* BaseClient._ok_body, _process_response and _process_model and the error  *)
(* mapping of _exceptions.raise_for_response.  Pure: no state.              *)
(*                                                                         *)
(* A response keeps what the outcome depends on: its status code, whether  *)
(* the body is a JSON object and which of the parts the SDK reads are in    *)
(* it, and the three headers the SDK reads.  Texts are abstracted to        *)
(* present / absent, except the error name, which callers branch on.       *)
(***************************************************************************)
EXTENDS Integers

CONSTANTS
    Models,      \* the response models of the calls other than send
    ErrorNames,  \* error names an error envelope can carry
    Statuses     \* status codes a server can answer with

ASSUME StatusesAssumption == Statuses \subseteq 100..999
ASSUME NamesAssumption == {"", "null", "None"} \cap ErrorNames = {}

(***************************************************************************)
(* Responses on the wire.                                                  *)
(***************************************************************************)
Fields == {"absent", "null", "text"}

\* json: what the bytes are. "other" is valid JSON that is not an object,
\* "overlong" JSON with an integer of more digits than json.loads converts
\* (or nested deeper than it recurses: another exception, let pass alike).
\* name: "" is an absent one, "null" a value that is no text.
\* fits: the models the object validates against.
Bodies ==
    { b \in [ json : {"empty", "undecodable", "overlong", "other", "object"},
              id : Fields, scheduledAt : Fields,
              name : ErrorNames \cup {"", "null"}, fits : SUBSET Models ] :
        b.json # "object" =>
            /\ b.id = "absent" /\ b.scheduledAt = "absent"
            /\ b.name = "" /\ b.fits = {} }

Headers == [ retryAfter : {"absent", "unparsable", "seconds"},
             requestId : {"absent", "text"},
             replayed : {"absent", "true", "false"} ]

Responses == [ status : Statuses, body : Bodies, headers : Headers ]

(***************************************************************************)
(* What a call hands back to its caller.                                   *)
(***************************************************************************)
ErrorClasses ==
    { "APIError", "BadRequestError", "AuthenticationError", "NotFoundError",
      "ConflictError", "InvalidRequestError", "RateLimitError", "ServerError" }

Emails == [ kind : {"email"}, id : {"None", "text"}, scheduled : BOOLEAN,
            replayed : BOOLEAN, requestId : {"None", "text"} ]
Parsed == [ kind : {"model"}, model : Models ]
APIErrors == [ kind : {"api_error"}, class : ErrorClasses,
               name : ErrorNames \cup {"", "None"},
               retryAfter : {"None", "seconds"}, requestId : {"None", "text"} ]
\* The base MailkubeError of a 2xx response with a body of the wrong shape.
Malformed == [ kind |-> "malformed" ]
\* The plain ValueError of json.loads, which _decode_json does not catch.
DigitsError == [ kind |-> "digits_error" ]

Processed == Emails \cup Parsed \cup APIErrors \cup {Malformed, DigitsError}

(***************************************************************************)
(* _decode_json: None stands for an empty or undecodable body, and None is *)
(* a value that is not an object, as are a list or a number.               *)
(***************************************************************************)
Loads(raw) == raw.json # "overlong"

DecodeJson(raw) == IF raw.json = "object" THEN raw ELSE [raw EXCEPT !.json = "other"]

IsDict(body) == body.json = "object"

\* dict.get followed by str(), None kept: an explicit null reads as absent.
OptionalStr(field) == IF field = "text" THEN "text" ELSE "None"

\* Mutant: the id is passed on as it is.
StrNoCopy(field) == field

\* Plain str() of a value that is there: a null becomes the text "None", which
\* stands for the text of any other value that is none, too.
Str(field) == IF field = "null" THEN "None" ELSE field

Header(h) == IF h = "absent" THEN "None" ELSE h

ParseRetryAfter(h) == IF h = "seconds" THEN "seconds" ELSE "None"

OkStatus(status) == status \in 200..299

(***************************************************************************)
(* raise_for_response: an exact status match, else 5xx, else the base.     *)
(***************************************************************************)
ExactClass(status) ==
    CASE status = 400 -> "BadRequestError"
      [] status = 403 -> "AuthenticationError"
      [] status = 404 -> "NotFoundError"
      [] status = 409 -> "ConflictError"
      [] status = 422 -> "InvalidRequestError"
      [] status = 429 -> "RateLimitError"
      [] OTHER -> "APIError"

\* Mutant: the last server status falls out of the range.
ErrorClassShort(status) ==
    IF status \in 500..598 THEN "ServerError" ELSE ExactClass(status)

ErrorClass(status) ==
    IF status \in 500..599 THEN "ServerError" ELSE ExactClass(status)

\* Mutant: the name is the one the class documents, not the envelope's.
RaiseByClass(status, body, retryAfter, requestId) ==
    [ kind |-> "api_error", class |-> ErrorClass(status),
      name |-> CASE status = 409 -> "invalid_idempotent_request"
                 [] status = 422 -> "scheduled_email_not_pending"
                 [] OTHER -> "",
      retryAfter |-> retryAfter, requestId |-> requestId ]

RaiseForResponse(status, body, retryAfter, requestId) ==
    [ kind |-> "api_error", class |-> ErrorClass(status),
      name |-> IF IsDict(body) THEN Str(body.name) ELSE "",
      retryAfter |-> retryAfter, requestId |-> requestId ]

\* The error branch of _ok_body, shared by every call.
ErrorOf(resp) ==
    RaiseForResponse(resp.status, DecodeJson(resp.body),
                     ParseRetryAfter(resp.headers.retryAfter),
                     Header(resp.headers.requestId))

(***************************************************************************)
(* _process_response: the outcome of emails.send.                          *)
(***************************************************************************)
\* Mutant: the header is looked up under another name, and never found.
EmailNeverReplayed(resp, body) ==
    [ kind |-> "email", id |-> Str(body.id),
      scheduled |-> OptionalStr(body.scheduledAt) # "None",
      replayed |-> FALSE, requestId |-> Header(resp.headers.requestId) ]

EmailOf(resp, body) ==
    [ kind |-> "email", id |-> Str(body.id),
      scheduled |-> OptionalStr(body.scheduledAt) # "None",
      replayed |-> resp.headers.replayed = "true",
      requestId |-> Header(resp.headers.requestId) ]

ProcessResponse(resp) ==
    LET body == DecodeJson(resp.body)
    IN  IF ~Loads(resp.body) THEN DigitsError
        ELSE IF ~OkStatus(resp.status) THEN ErrorOf(resp)
        ELSE IF IsDict(body) /\ body.id # "absent" THEN EmailOf(resp, body)
        ELSE Malformed

(***************************************************************************)
(* _process_model: the outcome of every other call.                        *)
(***************************************************************************)
\* Mutant: the verb maps errors by itself and forgets the Retry-After header.
ProcessModelOwnErrors(model, resp) ==
    IF ~Loads(resp.body) THEN DigitsError
    ELSE IF ~OkStatus(resp.status) THEN [ErrorOf(resp) EXCEPT !.retryAfter = "None"]
    ELSE IF IsDict(resp.body) /\ model \in resp.body.fits THEN [kind |-> "model", model |-> model]
    ELSE Malformed

\* Mutant: the model is built without being validated.
ProcessModelUnvalidated(model, resp) ==
    IF ~Loads(resp.body) THEN DigitsError
    ELSE IF ~OkStatus(resp.status) THEN ErrorOf(resp)
    ELSE IF IsDict(resp.body) THEN [kind |-> "model", model |-> model]
    ELSE Malformed

ProcessModel(model, resp) ==
    LET body == DecodeJson(resp.body)
    IN  IF ~Loads(resp.body) THEN DigitsError
        ELSE IF ~OkStatus(resp.status) THEN ErrorOf(resp)
        ELSE IF IsDict(body) /\ model \in body.fits THEN [kind |-> "model", model |-> model]
        ELSE Malformed

\* The model argument of a send is "send": it has a processor of its own.
Process(model, resp) ==
    IF model = "send" THEN ProcessResponse(resp) ELSE ProcessModel(model, resp)
==============================================================================
