-------------------------------- MODULE Client --------------------------------
(***************************************************************************)
(* SDK clients (Mailkube and AsyncMailkube), the httpx clients they send    *)
(* through, and the calls that threads or tasks make on them concurrently. *)
(*                                                                         *)
(* The sync and async clients run the same steps; they differ in where a   *)
(* call can be interleaved or interrupted.  Every step below is one that a *)
(* thread switch can separate from the next, so a task, which switches at  *)
(* the await of the HTTP request only, has a subset of these behaviours.   *)
(*                                                                         *)
(* A call is a method invocation by one caller: begun, then prepared       *)
(* (_build_url, headers), sent (http.request), received and processed.     *)
(***************************************************************************)
EXTENDS Responses, Sequences

CONSTANTS
    Clients,        \* SDK client objects a program may construct
    CallerHttps,    \* httpx clients the program made itself, to inject
    Untimed,        \* those of CallerHttps configured without a timeout
    Calls,          \* calls the program makes on its clients
    Keys,           \* API keys
    Origins,        \* origins (scheme and host) of URLs
    DefaultOrigin,  \* the origin of DEFAULT_BASE_URL
    Bases,          \* base URLs the program or environment may configure
    Links,          \* absolute URLs a page of a listing may link to
    Args,           \* arguments of a call: whether a request can be built of them
    Envs,           \* values of MAILKUBE_API_KEY and MAILKUBE_BASE_URL
    Replies         \* responses the server may give

\* None is an argument left out, an unset variable or an empty text: each is
\* falsy.  A malformed URL is one urllib cannot split ("https://[api/").
\* Relative is a path the SDK builds itself, joined onto the base URL.
None == "None"
MalformedUrl == "malformed"
Relative == "relative"

ASSUME UntimedAssumption == Untimed \subseteq CallerHttps
ASSUME OriginsAssumption == /\ DefaultOrigin \in Origins
                            /\ Bases \subseteq Origins \cup {MalformedUrl}
                            /\ Links \subseteq Origins \cup {MalformedUrl}
                            /\ Origins \cap {None, MalformedUrl, Relative} = {}
ASSUME KeysAssumption == None \notin Keys \cup Clients \cup Calls
ASSUME HttpsAssumption == /\ None \notin CallerHttps
                          /\ Clients \cap CallerHttps = {}
ASSUME ArgsAssumption == Args \subseteq {"encodable", "unencodable"}
ASSUME EnvsAssumption == Envs \subseteq [key : Keys \cup {None}, base : Bases \cup {None}]
ASSUME RepliesAssumption == Replies \subseteq Responses
ASSUME ModelsAssumption == "send" \notin Models

VARIABLES
    env,      \* the process environment
    client,   \* what each constructor stored in its object
    http,     \* the httpx clients; the one an SDK client k made itself is http[k]
    call,     \* the progress and local variables of each call
    wire,     \* history: the requests each call put on the wire, in order
    answers,  \* the server's answers, delivered or not
    closers   \* history: the owners that closed what they own

vars == <<env, client, http, call, wire, answers, closers>>

Https == Clients \cup CallerHttps
Urls == Origins \cup {MalformedUrl}

(***************************************************************************)
(* Construction.                                                           *)
(***************************************************************************)
Unmade == [state |-> "unmade", key |-> None, base |-> None, owns |-> FALSE, http |-> None]
Failed == [Unmade EXCEPT !.state = "failed"]

ClientStates == { Unmade, Failed } \cup
    [ state : {"made"}, key : Keys, base : Urls, owns : BOOLEAN, http : Https ]

Made(k) == client[k].state = "made"

\* Mutant: an argument left out is not looked up anywhere else.
OrNothing(x, y) == x

\* Python's "or": the first operand that is truthy.
Or(x, y) == IF x = None THEN y ELSE x

\* Mutant: the timeout is not handed on, and httpx is told to wait forever.
OwnHttpUntimed == [state |-> "open", timed |-> FALSE]

\* httpx.Client(timeout=self._timeout).
OwnHttp == [state |-> "open", timed |-> TRUE]

(***************************************************************************)
(* Preparing a request.                                                    *)
(***************************************************************************)
UrlJoin(base, target) ==
    IF MalformedUrl \in {base, target} THEN MalformedUrl
    ELSE IF target = Relative THEN base ELSE target

\* The key in _default_headers.
ApiKey(k) == client[k].key

\* Mutant: any absolute URL is followed.
OnOriginAlways(url, base) == TRUE

\* The origin check of _build_url; a URL is abstracted to its origin.
OnOrigin(url, base) == url = base

(***************************************************************************)
(* Outcomes of a call, beside those of a processed response.               *)
(***************************************************************************)
Pending == [kind |-> "pending"]
ConnectionError == [kind |-> "connection_error"]  \* MailkubeConnectionError
Refused == [kind |-> "refused"]                   \* MailkubeError of _build_url
ValueError == [kind |-> "value_error"]            \* urllib's, raised by _build_url
RuntimeError == [kind |-> "runtime_error"]        \* httpx's, on a closed client
\* A ValueError or TypeError of httpx encoding the headers or the body.
EncodeError == [kind |-> "encode_error"]
Cancelled == [kind |-> "cancelled"]               \* CancelledError, KeyboardInterrupt

Outcomes == Processed \cup
    { Pending, ConnectionError, Refused, ValueError, RuntimeError, EncodeError, Cancelled }

Requests == [call : Calls, key : Keys, origin : Origins]
Answers == [request : Requests, resp : Replies]
NoRequest == [call |-> None]
NoReply == [status |-> 0]

Idle == [ phase |-> "idle", client |-> None, model |-> None, target |-> None, args |-> None,
          request |-> NoRequest, reply |-> NoReply, outcome |-> Pending ]

Phases == {"idle", "begun", "prepared", "sent", "received", "done"}

CallStates ==
    [ phase : Phases, client : Clients \cup {None}, model : Models \cup {"send", None},
      target : Urls \cup {Relative, None}, args : Args \cup {None}, request : Requests \cup {NoRequest},
      reply : Replies \cup {NoReply}, outcome : Outcomes ]

TypeOK ==
    /\ env \in Envs
    /\ client \in [Clients -> ClientStates]
    /\ http \in [Https -> [state : {"none", "open", "closed"}, timed : BOOLEAN]]
    /\ call \in [Calls -> CallStates]
    /\ wire \in [Calls -> Seq(Requests)]
    /\ answers \subseteq Answers
    /\ closers \subseteq Https

Init ==
    /\ env \in Envs
    /\ client = [k \in Clients |-> Unmade]
    /\ http = [ h \in Https |->
                  IF h \in CallerHttps THEN [state |-> "open", timed |-> h \notin Untimed]
                  ELSE [state |-> "none", timed |-> FALSE] ]
    /\ call = [c \in Calls |-> Idle]
    /\ wire = [c \in Calls |-> << >>]
    /\ answers = {}
    /\ closers = {}

(***************************************************************************)
(* The program: its environment and the lifecycle of its clients.          *)
(***************************************************************************)
ChangeEnv ==
    /\ env' \in Envs
    /\ UNCHANGED <<client, http, call, wire, answers, closers>>

\* Mutant: the httpx client is made before the key is resolved.
OpenEagerly(k, key) == [http EXCEPT ![k] = OwnHttp]

\* An owned httpx client is made once BaseClient.__init__ has found a key.
OpenOwned(k, key) == IF key = None THEN http ELSE [http EXCEPT ![k] = OwnHttp]

\* Mailkube(api_key, base_url=base, http_client=inject).
Construct(k, keyArg, baseArg, inject) ==
    LET key == Or(keyArg, env.key)
        base == Or(Or(baseArg, env.base), DefaultOrigin)
    IN  /\ client[k].state = "unmade"
        /\ client' = [ client EXCEPT ![k] =
                         IF key = None THEN Failed
                         ELSE [ state |-> "made", key |-> key, base |-> base,
                                owns |-> inject = None, http |-> Or(inject, k) ] ]
        /\ http' = IF inject = None THEN OpenOwned(k, key) ELSE http
        /\ UNCHANGED <<env, call, wire, answers, closers>>

\* Mutant: close ignores who owns the httpx client.
ClosesAlways(k) == TRUE

Closes(k) == client[k].owns

\* close, aclose, or leaving the with block.
Close(k) ==
    /\ Made(k)
    /\ closers' = closers \cup {k}
    /\ http' = IF Closes(k) THEN [http EXCEPT ![client[k].http].state = "closed"] ELSE http
    /\ UNCHANGED <<env, client, call, wire, answers>>

\* The program closes an httpx client of its own.
CloseHttp(h) ==
    /\ h \in CallerHttps
    /\ closers' = closers \cup {h}
    /\ http' = [http EXCEPT ![h].state = "closed"]
    /\ UNCHANGED <<env, client, call, wire, answers>>

(***************************************************************************)
(* One call.                                                               *)
(***************************************************************************)
Return(c, outcome) == [call EXCEPT ![c].phase = "done", ![c].outcome = outcome]

HttpOf(c) == client[call[c].client].http

\* A method of a resource is called.  Sends use a path the SDK builds, and so
\* does every first request; only the next page of a listing is a link.
\* Its arguments are not looked at before the request is built.
Begin(c, k, model, target, args) ==
    /\ call[c].phase = "idle"
    /\ Made(k)
    /\ model = "send" => target = Relative
    /\ call' = [ call EXCEPT ![c].phase = "begun", ![c].client = k,
                            ![c].model = model, ![c].target = target, ![c].args = args ]
    /\ UNCHANGED <<env, client, http, wire, answers, closers>>

\* _prepare: the URL, or one of its two errors, and the headers.
Prepare(c) ==
    LET k == call[c].client
        url == UrlJoin(client[k].base, call[c].target)
    IN  /\ call[c].phase = "begun"
        /\ call' = IF url = MalformedUrl THEN Return(c, ValueError)
                   ELSE IF ~OnOrigin(url, client[k].base) THEN Return(c, Refused)
                   ELSE [ call EXCEPT ![c].phase = "prepared",
                            ![c].request = [call |-> c, key |-> ApiKey(k), origin |-> url] ]
        /\ UNCHANGED <<env, client, http, wire, answers, closers>>

\* http.request first builds the request.  What it cannot encode, a header
\* that is not ASCII or a value JSON has no form for, raises no httpx.HTTPError.
BuildFails(c) ==
    /\ call[c].phase = "prepared"
    /\ call[c].args = "unencodable"
    /\ call' = Return(c, EncodeError)
    /\ UNCHANGED <<env, client, http, wire, answers, closers>>

\* The request is built.
Built(c) == call[c].phase = "prepared" /\ call[c].args = "encodable"

\* http.request on a closed httpx client: a RuntimeError, which _raw lets pass.
RequestOnClosed(c) ==
    /\ Built(c)
    /\ http[HttpOf(c)].state = "closed"
    /\ call' = Return(c, RuntimeError)
    /\ UNCHANGED <<env, client, http, wire, answers, closers>>

\* http.request puts the request on the wire.
Transmit(c) ==
    /\ Built(c)
    /\ http[HttpOf(c)].state = "open"
    /\ wire' = [wire EXCEPT ![c] = Append(@, call[c].request)]
    /\ call' = [call EXCEPT ![c].phase = "sent"]
    /\ UNCHANGED <<env, client, http, answers, closers>>

\* http.request fails to connect; nothing reaches the server.
ConnectFails(c) ==
    /\ Built(c)
    /\ http[HttpOf(c)].state = "open"
    /\ call' = Return(c, ConnectionError)
    /\ UNCHANGED <<env, client, http, wire, answers, closers>>

\* The server answers a request it received; the answer may never arrive.
Serve(c, resp) ==
    /\ wire[c] # << >>
    /\ \A a \in answers : a.request.call # c
    /\ answers' = answers \cup {[request |-> wire[c][Len(wire[c])], resp |-> resp]}
    /\ UNCHANGED <<env, client, http, call, wire, closers>>

\* Mutant: the response is kept on the client object, where calls share it.
AnswersSameClient(a, c) == call[a.request.call].client = call[c].client

\* The response http.request returns is a local variable of this call.
AnswersCall(a, c) == a.request.call = c

Receive(c) ==
    /\ call[c].phase = "sent"
    /\ \E a \in answers :
          /\ AnswersCall(a, c)
          /\ call' = [call EXCEPT ![c].phase = "received", ![c].reply = a.resp]
    /\ UNCHANGED <<env, client, http, wire, answers, closers>>

\* Mutant: a failed round trip is tried again, as in an SDK with retries.
TransportFailureRetried(c) == [call EXCEPT ![c].phase = "prepared"]

\* Mutant: a transport failure is raised as the base MailkubeError.
TransportFailureAsBase(c) == Return(c, Refused)

\* The except clause of _raw.
TransportFailure(c) == Return(c, ConnectionError)

\* http.request fails after sending: a timeout, a reset, an answer cut short.
\* The server may have processed the request, or may yet do so.
TransportFails(c) ==
    /\ call[c].phase = "sent"
    /\ call' = TransportFailure(c)
    /\ UNCHANGED <<env, client, http, wire, answers, closers>>

\* The task is cancelled, or the thread interrupted, inside http.request.
Cancel(c) ==
    /\ call[c].phase \in {"prepared", "sent"}
    /\ call' = Return(c, Cancelled)
    /\ UNCHANGED <<env, client, http, wire, answers, closers>>

\* _process_response or _process_model, on this call's response.
ProcessReply(c) ==
    /\ call[c].phase = "received"
    /\ call' = Return(c, Process(call[c].model, call[c].reply))
    /\ UNCHANGED <<env, client, http, wire, answers, closers>>

Program ==
    \/ ChangeEnv
    \/ \E k \in Clients, key \in Keys \cup {None}, base \in Bases \cup {None},
          inject \in CallerHttps \cup {None} : Construct(k, key, base, inject)
    \/ \E k \in Clients : Close(k)
    \/ \E h \in CallerHttps : CloseHttp(h)
    \/ \E c \in Calls, k \in Clients, model \in Models \cup {"send"},
          target \in Links \cup {Relative}, args \in Args : Begin(c, k, model, target, args)

CallStep(c) ==
    \/ Prepare(c) \/ BuildFails(c) \/ RequestOnClosed(c) \/ Transmit(c) \/ ConnectFails(c)
    \/ Receive(c) \/ TransportFails(c) \/ Cancel(c) \/ ProcessReply(c)

Server == \E c \in Calls, resp \in Replies : Serve(c, resp)

Next == Program \/ (\E c \in Calls : CallStep(c)) \/ Server

Spec == Init /\ [][Next]_vars

(***************************************************************************)
(* Fairness: the thread or task of a call keeps running, and httpx ends a  *)
(* round trip that outlasts the timeouts of its client.  The server, the   *)
(* network and the program promise nothing.                                *)
(***************************************************************************)
Timed(c) == http[HttpOf(c)].timed

TimesOut(c) == call[c].phase = "sent" /\ Timed(c) /\ TransportFails(c)

Fairness ==
    \A c \in Calls :
        /\ WF_vars(Prepare(c))
        /\ WF_vars(BuildFails(c) \/ RequestOnClosed(c) \/ Transmit(c) \/ ConnectFails(c))
        /\ WF_vars(TimesOut(c))
        /\ WF_vars(ProcessReply(c))

FairSpec == Spec /\ Fairness

(***************************************************************************)
(* Safety.                                                                 *)
(***************************************************************************)
Done(c) == call[c].phase = "done"

(***************************************************************************)
(* Concurrent calls never get each other's answers, on shared clients and  *)
(* shared httpx clients alike (test_concurrency.py): what a call returns    *)
(* or raises after a response is what the server answered to the very      *)
(* request this call sent, processed as this kind of call.                 *)
(***************************************************************************)
OwnAnswer ==
    \A c \in Calls :
        call[c].outcome \in Processed =>
            \E a \in answers :
                /\ a.request.call = c
                /\ call[c].outcome = Process(call[c].model, a.resp)

(***************************************************************************)
(* "The client keeps the key it was constructed with" (README), and sends  *)
(* it to its own origin only (_build_url): every request on the wire has   *)
(* its client's key and went to its client's origin, whatever happened to  *)
(* the environment and whatever the links said.                            *)
(***************************************************************************)
KeyStaysHome ==
    \A c \in Calls : \A i \in DOMAIN wire[c] :
        LET k == call[c].client
        IN  /\ wire[c][i].key = client[k].key
            /\ wire[c][i].origin = client[k].base

(***************************************************************************)
(* "There are no built-in retries in this SDK": one call, one round trip   *)
(* at most, so a send is repeated only by its caller.                      *)
(***************************************************************************)
NoHiddenRetry == \A c \in Calls : Len(wire[c]) <= 1

(***************************************************************************)
(* What an error says of the server: an error raised before the round trip *)
(* was raised with nothing on the wire, and a bare MailkubeError from a    *)
(* send, which follows no links, means that the server took the send with  *)
(* a 2xx and only its answer was unreadable.                               *)
(***************************************************************************)
ErrorsTellWhatWasSent ==
    \A c \in Calls :
        /\ call[c].outcome \in {Refused, ValueError, RuntimeError, EncodeError} => wire[c] = << >>
        /\ (call[c].model = "send" /\ call[c].outcome \in {Refused, Malformed}) =>
              \E a \in answers : a.request.call = c /\ OkStatus(a.resp.status)

(***************************************************************************)
(* "The caller owns its lifecycle -- close will not close it": an httpx     *)
(* client is closed only if its owner closed it, and the RuntimeError of a *)
(* closed one reaches a caller only after that.                            *)
(***************************************************************************)
OnlyOwnersClose ==
    /\ \A h \in Https : http[h].state = "closed" => h \in closers
    /\ \A c \in Calls : call[c].outcome = RuntimeError => HttpOf(c) \in closers

(***************************************************************************)
(* A constructor that raises leaves no connection pool behind that nobody  *)
(* can close.                                                              *)
(***************************************************************************)
NoOrphanPool ==
    \A k \in Clients : http[k].state # "none" => Made(k) /\ client[k].http = k

(***************************************************************************)
(* README: "Every failure raises a subclass of MailkubeError".             *)
(***************************************************************************)
EveryFailureIsAMailkubeError ==
    \A c \in Calls :
        call[c].outcome \notin {RuntimeError, ValueError, EncodeError, DigitsError}

(***************************************************************************)
(* _raw's docstring: "MailkubeConnectionError: On any httpx-level failure  *)
(* -- ... or a malformed URL."                                             *)
(***************************************************************************)
MalformedUrlIsAConnectionError ==
    \A c \in Calls : call[c].outcome # ValueError

(***************************************************************************)
(* Liveness.  A call on a client that made its own httpx client, or on an  *)
(* injected one that has timeouts, ends even if the server never answers.  *)
(***************************************************************************)
EveryCallReturns ==
    \A c \in Calls :
        (call[c].phase # "idle" /\ HttpOf(c) \notin Untimed) ~> Done(c)
==============================================================================
