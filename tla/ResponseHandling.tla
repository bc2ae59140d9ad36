--------------------------- MODULE ResponseHandling ---------------------------
(***************************************************************************)
(* Every response handed to every kind of call: the operators of Responses *)
(* explored over all responses a server can give.  A behaviour picks one   *)
(* response and lets each call process that same response.                 *)
(***************************************************************************)
EXTENDS Responses

VARIABLES
    resp,     \* the response under study
    results   \* what each call that processed it returned or raised

vars == <<resp, results>>

Calls == Models \cup {"send"}

Init == /\ resp \in Responses
        /\ results = << >>

\* One call, of any kind, processes the response.
Handle(model) ==
    /\ model \notin DOMAIN results
    /\ results' = [ m \in DOMAIN results \cup {model} |->
                      IF m = model THEN Process(model, resp) ELSE results[m] ]
    /\ UNCHANGED resp

Next == \E model \in Calls : Handle(model)

Spec == Init /\ [][Next]_vars

TypeOK == /\ resp \in Responses
          /\ DOMAIN results \subseteq Calls
          /\ \A m \in DOMAIN results : results[m] \in Processed

(***************************************************************************)
(* "This is the single place a non-2xx status becomes an exception, so     *)
(* every verb reports failures identically" (_ok_body): two calls that get *)
(* the same non-2xx response raise the same error, an API error unless     *)
(* json.loads itself fails, and none raises an API error for a 2xx.        *)
(***************************************************************************)
OneErrorMapping ==
    \A m, n \in DOMAIN results :
        /\ ~OkStatus(resp.status) => results[m] = results[n]
        /\ (results[m] \in APIErrors) <=> (Loads(resp.body) /\ ~OkStatus(resp.status))

(***************************************************************************)
(* A call returns a model only when the body really has that model's       *)
(* shape, an Email only when the body names an id, and raises for any      *)
(* other 2xx response (_process_model, _process_response): a body is       *)
(* neither guessed at nor dropped.                                         *)
(***************************************************************************)
ResultsAreWellShaped ==
    \A m \in DOMAIN results :
        LET shaped == /\ resp.body.json = "object"
                      /\ IF m = "send" THEN resp.body.id # "absent"
                                       ELSE m \in resp.body.fits
        IN  OkStatus(resp.status) =>
                /\ (results[m] \in Emails \cup Parsed) <=> shaped
                /\ results[m] \in Parsed => results[m].model = m

(***************************************************************************)
(* Callers branch on the class, then on error_name: the class separates    *)
(* what may be retried (429, 5xx) from what may not, and the error bears a *)
(* documented name exactly when the envelope does, whatever the status     *)
(* (raise_for_response, and the ServerError and RateLimitError docstrings).*)
(* A null name becomes the text "None", and so is no documented one.       *)
(***************************************************************************)
Retryable == {"RateLimitError", "ServerError"}

ErrorsKeepTheirMeaning ==
    \A m \in DOMAIN results :
        results[m] \in APIErrors =>
            /\ (results[m].class \in Retryable) <=> (resp.status \in {429} \cup 500..599)
            /\ \A name \in ErrorNames :
                  results[m].name = name <=> (resp.body.json = "object" /\ resp.body.name = name)

(***************************************************************************)
(* README: a 2xx response whose body is not the shape the call expects     *)
(* raises the base MailkubeError.  A null id is not an id.                 *)
(***************************************************************************)
SentEmailHasAnId ==
    \A m \in DOMAIN results :
        results[m] \in Emails => results[m].id = "text"

(***************************************************************************)
(* README: "Every failure raises a subclass of MailkubeError", and the     *)
(* docstring of _decode_json: None for a body that cannot be decoded.      *)
(***************************************************************************)
NoAnswerEscapes ==
    \A m \in DOMAIN results : results[m] # DigitsError
==============================================================================
