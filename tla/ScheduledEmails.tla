--------------------------- MODULE ScheduledEmails ---------------------------
(***************************************************************************)
(* The life of scheduled emails behind client.scheduled_emails and its     *)
(* batches: callers schedule, inspect, move and cancel emails while the     *)
(* server dispatches those that fall due.                                  *)
(*                                                                         *)
(* The SDK's part is to build the request of each verb and to make a        *)
(* result or an error of the answer (module Responses).  A call is one     *)
(* round trip of module Client; a request whose call timed out stays with  *)
(* the server, which may act on it later.  Server and callers are external, *)
(* modelled from the docstrings, README, ErrorName, and the examples        *)
(* manage_scheduled_emails.py and schedule_batch.py.                        *)
(***************************************************************************)
EXTENDS Responses, SequencesExt

CONSTANTS
    Callers,   \* concurrent users of one account
    EmailIds,    \* the ids of the emails that can be scheduled
    Ids,       \* other texts a caller may pass as an id or a batch label
    Pieces,    \* the path segments a text falls into when it is not escaped
    Menu,      \* the calls each caller may make: [verb, id, due, batch]
    CallsOf,   \* bound: the calls each caller makes
    Before,    \* the schedules there may be to begin with
    Horizon    \* bound: the last instant of the clock

\* None: an argument left out, and no batch.
None == "None"

Verbs == {"schedule", "get", "update", "cancel", "batches.update", "batches.cancel"}
Texts == EmailIds \cup Ids

\* All verbs but a send name an email or a batch; a send and an update may give one.
CallSet ==
    { call \in [verb : Verbs, id : Texts \cup {None}, due : 0..Horizon, batch : Ids \cup {None}] :
        /\ call.id = None <=> call.verb = "schedule"
        /\ call.batch # None => call.verb \in {"schedule", "update"} }

Schedules == [ EmailIds -> [ status : {"none", "scheduled", "canceled", "sent"},
                           due : 0..Horizon, batch : Ids \cup {None} ] ]

ASSUME CallersAssumption == Menu \in [Callers -> SUBSET CallSet] /\ CallsOf \in [Callers -> Nat]
ASSUME TextsAssumption == Pieces \in [Texts -> Seq(Texts \cup {"batches"})]
ASSUME BeforeAssumption ==
    /\ Before \subseteq Schedules
    /\ \A b \in Before, e \in EmailIds :
          /\ b[e].status \in {"none", "scheduled"}
          /\ b[e].status = "none" => b[e].batch = None
ASSUME HorizonAssumption == Horizon \in Nat
ASSUME IdsAssumption == EmailIds \cap {"", ".", ".."} = {}
ASSUME AnswersAssumption ==
    /\ {200, 404, 422, 429, 500} \subseteq Statuses
    /\ { "application_error", "rate_limit_exceeded", "not_found", "validation_error",
         "scheduled_email_not_found", "scheduled_email_not_pending" } \subseteq ErrorNames
    /\ { "ScheduledEmail", "CanceledScheduledEmail", "ScheduledEmailBatchUpdate",
         "ScheduledEmailBatchCancel" } \subseteq Models

VARIABLES
    email,    \* the server's schedule
    now,      \* the time
    caller,   \* each caller's latest call
    inbox,    \* requests the server has not looked at yet
    answer,   \* the server's answer to each caller's latest call
    carried,  \* history: the calls carried out, as <<caller, number of the call>>
    placed,   \* history: the batch last asked for each email, and the call that did
    assured   \* history: the emails whose cancellation was acknowledged

vars == <<email, now, caller, inbox, answer, carried, placed, assured>>

(***************************************************************************)
(* The request builders.  A path is a sequence of segments.                *)
(***************************************************************************)
SCHEDULED_PATH == <<"scheduled-emails">>
BATCH_PATH == <<"scheduled-emails", "batches">>

\* Mutant: the identifier is put into the path as it is.
ItemPathRaw(base, identifier) == base \o Pieces[identifier]

\* quote(identifier, safe=""): whatever the text, it is one segment.
ItemPath(base, identifier) == Append(base, identifier)

RequestSpec(method, path, due, batch) ==
    [method |-> method, path |-> path, due |-> due, batch |-> batch]

SendSpec(call) == RequestSpec("POST", <<"emails">>, call.due, call.batch)

GetSpec(call) == RequestSpec("GET", ItemPath(SCHEDULED_PATH, call.id), 0, None)

\* Mutant: only the due time is put into the body.
UpdateSpecNoBatch(call) ==
    RequestSpec("PATCH", ItemPath(SCHEDULED_PATH, call.id), call.due, None)

UpdateSpec(call) ==
    RequestSpec("PATCH", ItemPath(SCHEDULED_PATH, call.id), call.due, call.batch)

\* Mutant: copied from the builder of get.
CancelSpecGet(call) == RequestSpec("GET", ItemPath(SCHEDULED_PATH, call.id), 0, None)

CancelSpec(call) == RequestSpec("DELETE", ItemPath(SCHEDULED_PATH, call.id), 0, None)

BatchUpdateSpec(call) == RequestSpec("PATCH", ItemPath(BATCH_PATH, call.id), call.due, None)

BatchCancelSpec(call) == RequestSpec("DELETE", ItemPath(BATCH_PATH, call.id), 0, None)

SpecOf(call) ==
    CASE call.verb = "schedule" -> SendSpec(call)
      [] call.verb = "get" -> GetSpec(call)
      [] call.verb = "update" -> UpdateSpec(call)
      [] call.verb = "cancel" -> CancelSpec(call)
      [] call.verb = "batches.update" -> BatchUpdateSpec(call)
      [] call.verb = "batches.cancel" -> BatchCancelSpec(call)

\* urljoin resolves a last segment that is a dot or two, which quote leaves alone.
UrlJoin(path) ==
    CASE Last(path) = "." -> Append(Front(path), "")
      [] Last(path) = ".." -> Append(Front(Front(path)), "")
      [] OTHER -> path

ModelOf(verb) ==
    CASE verb = "schedule" -> "send"
      [] verb \in {"get", "update"} -> "ScheduledEmail"
      [] verb = "cancel" -> "CanceledScheduledEmail"
      [] verb = "batches.update" -> "ScheduledEmailBatchUpdate"
      [] verb = "batches.cancel" -> "ScheduledEmailBatchCancel"

\* Every field of these has a default: any JSON object fits them.
Lenient == {"ScheduledEmailBatchUpdate", "ScheduledEmailBatchCancel"}

(***************************************************************************)
(* State.                                                                  *)
(***************************************************************************)
CallIds == UNION {{c} \X (1..CallsOf[c]) : c \in Callers}

Requests == {m \in [caller : Callers, n : Nat, call : CallSet] : <<m.caller, m.n>> \in CallIds}

\* What goes to the server; the request keeps the call it was built for.
Wire(m) == [SpecOf(m.call) EXCEPT !.path = UrlJoin(@)]

Pending == [kind |-> "pending"]
ConnectionError == [kind |-> "connection_error"]
NoAnswer == [status |-> 0]
NoCall == [verb |-> None]
NoPlace == [batch |-> None, by |-> <<None, 0>>]

Places == [batch : Ids \cup {None}, by : CallIds \cup {<<None, 0>>}]

CallerStates ==
    [ phase : {"idle", "waiting", "told"}, n : Nat, call : CallSet \cup {NoCall},
      outcome : Processed \cup {Pending, ConnectionError},
      alone : BOOLEAN, covered : SUBSET (EmailIds \X Places) ]

TypeOK ==
    /\ email \in Schedules
    /\ now \in 0..Horizon
    /\ \A c \in Callers : caller[c] \in CallerStates
    /\ inbox \subseteq Requests
    /\ \A c \in Callers : answer[c] \in Responses \cup {NoAnswer}
    /\ carried \subseteq CallIds
    /\ placed \in [EmailIds -> Places]
    /\ assured \subseteq EmailIds

Init ==
    /\ email \in Before
    /\ now = 0
    /\ caller = [ c \in Callers |->
                    [ phase |-> "idle", n |-> 0, call |-> NoCall, outcome |-> Pending,
                      alone |-> FALSE, covered |-> {} ] ]
    /\ inbox = {}
    /\ answer = [c \in Callers |-> NoAnswer]
    /\ carried = {}
    /\ placed = [e \in EmailIds |-> [NoPlace EXCEPT !.batch = email[e].batch]]
    /\ assured = {}

(***************************************************************************)
(* The callers.                                                            *)
(***************************************************************************)
Waiting(c) == caller[c].phase = "waiting"

\* A method is called, with an id the account has listed or any other text.
\* The caller is alone if no call is on its way, and none begins before it is told.
Begin(c, call) ==
    LET n == caller[c].n + 1
    IN  /\ ~Waiting(c) /\ n <= CallsOf[c]
        /\ call.id \in EmailIds => email[call.id].status # "none"
        /\ caller' = [ d \in Callers |->
               IF d # c THEN [caller[d] EXCEPT !.alone = FALSE]
               ELSE [ phase |-> "waiting", n |-> n, call |-> call, outcome |-> Pending,
                      alone |-> inbox = {} /\ \A o \in Callers : ~Waiting(o),
                      covered |-> IF call.verb = "batches.cancel"
                                  THEN { <<e, placed[e]>> : e \in {f \in EmailIds : placed[f].batch = call.id} }
                                  ELSE {} ] ]
        /\ inbox' = inbox \cup {[caller |-> c, n |-> n, call |-> call]}
        /\ UNCHANGED <<email, now, answer, carried, placed, assured>>

Return(c, outcome) ==
    /\ caller' = [caller EXCEPT ![c].phase = "told", ![c].outcome = outcome]
    /\ answer' = [answer EXCEPT ![c] = NoAnswer]

Receive(c) ==
    LET call == caller[c].call
        outcome == Process(ModelOf(call.verb), answer[c])
    IN  /\ Waiting(c) /\ answer[c] # NoAnswer
        /\ Return(c, outcome)
        /\ assured' = IF call.verb = "cancel" /\ outcome.kind = "model"
                      THEN assured \cup ({call.id} \cap EmailIds) ELSE assured
        /\ UNCHANGED <<email, now, inbox, carried, placed>>

\* Mutant: httpx's own exception is let through.
TimeOutRaw(c) ==
    /\ Waiting(c)
    /\ Return(c, [kind |-> "httpx_timeout"])
    /\ UNCHANGED <<email, now, inbox, carried, placed, assured>>

\* Mutant: the round trip is tried again behind the caller's back.
TimeOutRetried(c) ==
    /\ Waiting(c)
    /\ inbox' = inbox \cup {[caller |-> c, n |-> caller[c].n, call |-> caller[c].call]}
    /\ answer' = [answer EXCEPT ![c] = NoAnswer]
    /\ UNCHANGED <<email, now, caller, carried, placed, assured>>

\* The round trip fails, before or after the server has acted.
TimeOut(c) ==
    /\ Waiting(c)
    /\ Return(c, ConnectionError)
    /\ UNCHANGED <<email, now, inbox, carried, placed, assured>>

(***************************************************************************)
(* The server.                                                             *)
(***************************************************************************)
Route(path) ==
    CASE path = <<"emails">> -> [kind |-> "send"]
      [] Len(path) = 2 /\ Front(path) = SCHEDULED_PATH ->
            IF Last(path) = "" THEN [kind |-> "list"] ELSE [kind |-> "item", id |-> Last(path)]
      [] Len(path) = 3 /\ Front(path) = BATCH_PATH /\ Last(path) # "" ->
            [kind |-> "batch", id |-> Last(path)]
      [] OTHER -> [kind |-> "none"]

Methods(kind) ==
    CASE kind = "send" -> {"POST"}
      [] kind = "list" -> {"GET"}
      [] kind = "item" -> {"GET", "PATCH", "DELETE"}
      [] kind = "batch" -> {"PATCH", "DELETE"}
      [] OTHER -> {}

\* The sets of emails a request may be about.
Scopes(route) ==
    CASE route.kind = "send" -> {{e} : e \in {f \in EmailIds : email[f].status = "none"}}
      [] route.kind = "item" -> {{route.id}}
      [] route.kind = "batch" ->
            {{e \in EmailIds : email[e].status = "scheduled" /\ email[e].batch = route.id}}
      [] OTHER -> {{}}

Accepted == [status |-> 0, name |-> ""]

Verdict(req) ==
    LET route == Route(req.path)
    IN  IF req.method \notin Methods(route.kind) THEN [status |-> 404, name |-> "not_found"]
        ELSE IF route.kind = "item" /\ (route.id \notin EmailIds \/ email[route.id].status = "none")
        THEN [status |-> 404, name |-> "scheduled_email_not_found"]
        ELSE IF req.method \in {"POST", "PATCH"} /\ req.due <= now
        THEN [status |-> 422, name |-> "validation_error"]
        ELSE IF route.kind = "item" /\ req.method # "GET" /\ email[route.id].status # "scheduled"
        THEN [status |-> 422, name |-> "scheduled_email_not_pending"]
        ELSE Accepted

Unreadable == [json |-> "undecodable", id |-> "absent", scheduledAt |-> "absent", name |-> "", fits |-> {}]
ErrorBody(name) == [Unreadable EXCEPT !.json = "object", !.name = name]

\* An answer about one email has its id and due time; one about a batch or a
\* page of the listing has neither.
ResultBody(kind) ==
    IF kind \in {"send", "item"}
    THEN [Unreadable EXCEPT !.json = "object", !.id = "text", !.scheduledAt = "text", !.fits = Models]
    ELSE [Unreadable EXCEPT !.json = "object", !.fits = Lenient]

AnswerWith(status, body) ==
    [ status |-> status, body |-> body,
      headers |-> [retryAfter |-> "absent", requestId |-> "absent", replayed |-> "absent"] ]

\* The request is looked at; an answer to a call given up goes nowhere.
Answer(m, resp) ==
    /\ inbox' = inbox \ {m}
    /\ answer' = IF Waiting(m.caller) /\ caller[m.caller].n = m.n
                 THEN [answer EXCEPT ![m.caller] = resp] ELSE answer
    /\ UNCHANGED <<now, caller, assured>>

\* Refused, rate-limited, or failed inside the server: nothing happens.
Reject(m) ==
    LET verdict == Verdict(Wire(m))
        failures == { [status |-> 429, name |-> "rate_limit_exceeded"],
                      [status |-> 500, name |-> "application_error"] }
    IN  /\ \E v \in (failures \cup {verdict}) \ {Accepted} :
              Answer(m, AnswerWith(v.status, ErrorBody(v.name)))
        /\ UNCHANGED <<email, carried, placed>>

Changed(req, old) ==
    CASE req.method = "GET" -> old
      [] req.method = "DELETE" -> [old EXCEPT !.status = "canceled"]
      [] OTHER -> [ status |-> "scheduled", due |-> req.due,
                    batch |-> IF req.batch = None THEN old.batch ELSE req.batch ]

\* Carried out; the answer may be unreadable, or a server error all the same.
Carry(m) ==
    LET req == Wire(m)
        route == Route(req.path)
    IN  /\ Verdict(req) = Accepted
        /\ \E scope \in Scopes(route) :
              /\ email' = [e \in EmailIds |-> IF e \in scope THEN Changed(req, email[e]) ELSE email[e]]
              /\ placed' = [ e \in EmailIds |->
                    IF e \in scope /\ m.call.batch # None
                    THEN [batch |-> m.call.batch, by |-> <<m.caller, m.n>>] ELSE placed[e] ]
        /\ carried' = carried \cup {<<m.caller, m.n>>}
        /\ \E resp \in { AnswerWith(200, ResultBody(route.kind)), AnswerWith(200, Unreadable),
                         AnswerWith(500, ErrorBody("application_error")) } : Answer(m, resp)

\* An email that is due is handed to delivery; "sent" stands for "failed" too.
Dispatch(e) ==
    /\ email[e].status = "scheduled" /\ email[e].due <= now
    /\ email' = [email EXCEPT ![e].status = "sent"]
    /\ UNCHANGED <<now, caller, inbox, answer, carried, placed, assured>>

Tick ==
    /\ now < Horizon
    /\ now' = now + 1
    /\ UNCHANGED <<email, caller, inbox, answer, carried, placed, assured>>

Next ==
    \/ \E c \in Callers : (\E call \in Menu[c] : Begin(c, call)) \/ Receive(c) \/ TimeOut(c)
    \/ \E m \in inbox : Reject(m) \/ Carry(m)
    \/ \E e \in EmailIds : Dispatch(e)
    \/ Tick

Spec == Init /\ [][Next]_vars

(***************************************************************************)
(* Properties.                                                             *)
(***************************************************************************)
Told(c) == caller[c].phase = "told"
LatestId(c) == <<c, caller[c].n>>

\* The call returned, or its 2xx answer was unreadable.
GotResult(c) == Told(c) /\ caller[c].outcome.kind \in {"email", "model", "malformed"}

\* The call was refused; a server error refuses nothing.
WasRefused(c) ==
    /\ Told(c) /\ caller[c].outcome.kind = "api_error"
    /\ caller[c].outcome.class # "ServerError"

(***************************************************************************)
(* An email whose cancellation was acknowledged is never sent, nor is it    *)
(* brought back by a call that was on its way meanwhile.                    *)
(***************************************************************************)
CanceledIsNeverSent == \A e \in assured : email[e].status = "canceled"

(***************************************************************************)
(* scheduled_email_not_pending means "already sent or canceled"            *)
(* (manage_scheduled_emails.py): whoever is told so may stop, nothing that *)
(* is under way makes the email pending again.                             *)
(***************************************************************************)
NotPendingIsFinal ==
    \A c \in Callers :
        (WasRefused(c) /\ caller[c].outcome.name = "scheduled_email_not_pending") =>
            email[caller[c].call.id].status \notin {"none", "scheduled"}

(***************************************************************************)
(* What an outcome tells of the effect: a result or an unreadable answer   *)
(* means that the call was carried out, an API error other than a server   *)
(* error that it was not, and that it no longer can be.                    *)
(***************************************************************************)
OutcomesTellTheEffect ==
    \A c \in Callers :
        /\ GotResult(c) => LatestId(c) \in carried
        /\ WasRefused(c) => /\ LatestId(c) \notin carried
                            /\ \A m \in inbox : <<m.caller, m.n>> # LatestId(c)

(***************************************************************************)
(* README: "Everything sent under one batch_id moves or cancels together". *)
(* Once batches.cancel has returned, no email that its calls had put into   *)
(* the batch when it began is still scheduled, unless a later call moved    *)
(* that email: not one is forgotten, whatever else was under way.          *)
(***************************************************************************)
BatchCancelCoversTheBatch ==
    \A c \in Callers :
        (GotResult(c) /\ caller[c].call.verb = "batches.cancel") =>
            \A p \in caller[c].covered :
                placed[p[1]] = p[2] => email[p[1]].status # "scheduled"

(***************************************************************************)
(* A caller whose update returned, while no other call was under way and    *)
(* none had been given up before, finds the email where it put it until the *)
(* email is dispatched.  (Without the condition it may not: an update that  *)
(* timed out can take effect after a later one.)                           *)
(***************************************************************************)
AloneItIsObeyed ==
    \A c \in Callers :
        LET call == caller[c].call
        IN  (GotResult(c) /\ caller[c].alone) =>
                \A e \in EmailIds :
                    email[e].status = "scheduled" =>
                        /\ call.verb = "update" /\ call.id = e =>
                              /\ email[e].due = call.due
                              /\ call.batch # None => email[e].batch = call.batch
                        /\ call.verb = "batches.update" /\ placed[e].batch = call.id =>
                              email[e].due = call.due

(***************************************************************************)
(* _item_path: an identifier is escaped so that it cannot "re-target the   *)
(* request at a different route".  A request changes only the emails its    *)
(* call named, by id or by batch, and a send only adds one.                *)
(***************************************************************************)
TouchesOnlyWhatItNames ==
    [][ \A m \in inbox \ inbox' : \A e \in EmailIds :
            email'[e] # email[e] =>
                \/ m.call.id \in {e, email[e].batch}
                \/ m.call.verb = "schedule" /\ email[e].status = "none" ]_vars

(***************************************************************************)
(* The calls, seen from their callers, are those of EmailSchedule: each is *)
(* carried out at one instant, which its outcome tells, or late, or never.  *)
(***************************************************************************)
Phase(c) ==
    CASE caller[c].phase = "idle" -> "idle"
      [] Waiting(c) -> IF LatestId(c) \in carried THEN "carried" ELSE "open"
      [] GotResult(c) -> "result"
      [] WasRefused(c) -> "refused"
      [] OTHER -> "unknown"

GivenUp == {m \in inbox : ~Waiting(m.caller) \/ caller[m.caller].n # m.n}

ToldBy(c) == [n |-> caller[c].n, call |-> caller[c].call, phase |-> Phase(c)]
ToldTo == [c \in Callers |-> ToldBy(c)]

Schedule == INSTANCE EmailSchedule WITH
    Emails <- EmailIds, Calls <- UNION {Menu[c] : c \in Callers}, NoBatch <- None,
    told <- ToldTo, late <- GivenUp

MeetsItsPromise == Schedule!Spec
==============================================================================
