---------------------------- MODULE IdempotentSend ----------------------------
(***************************************************************************)
(* Sending with an idempotency key, end to end.  The SDK makes one round   *)
(* trip per call and never retries, so the retry loop is the caller's and   *)
(* the memory of keys is the server's; the SDK's part is to carry the key  *)
(* as a header, to tell a replay from a first answer, and to raise errors  *)
(* that say whether trying again is right.                                 *)
(*                                                                         *)
(* Callers and server are external, modelled from how the SDK, its README   *)
(* and examples/send_with_idempotency.py use them.  A call on the client   *)
(* is one step of module Client's Begin..Transmit and one of its outcomes: *)
(* a request whose call timed out stays with the server, which may still   *)
(* act on it while the caller is trying again.                             *)
(***************************************************************************)
EXTENDS Responses

CONSTANTS
    Senders,   \* caller processes
    Keys,      \* idempotency keys
    Payloads,  \* messages to send
    KeyArgOf,  \* the argument idempotency_key of all of a sender's tries
    PayloadOf, \* the message each sender wants to send
    Drifting,  \* senders that compute part of the body anew at each try
    TriesOf    \* bound: the tries each sender makes before it gives up

\* The argument is left out (None), a key, or Python's None passed in so many
\* words ("null"), which str() makes the text "None" of: a key like any other.
None == "left out"

\* The key each sender uses, or None.
KeyOf == [s \in Senders |-> Str(KeyArgOf[s])]

ASSUME SendersAssumption == /\ KeyOf \in [Senders -> Keys \cup {None}]
                            /\ PayloadOf \in [Senders -> Payloads]
                            /\ Drifting \subseteq Senders
ASSUME TriesAssumption == TriesOf \in [Senders -> Nat \ {0}]
ASSUME NoneAssumption == {None, "null"} \cap Keys = {}
ASSUME AnswersAssumption ==
    /\ {200, 409, 429, 500} \subseteq Statuses
    /\ { "application_error", "rate_limit_exceeded", "concurrent_idempotent_requests",
         "invalid_idempotent_request" } \subseteq ErrorNames

VARIABLES
    sender,   \* the retry loop of each sender
    inbox,    \* requests the server has not looked at yet
    store,    \* what the server remembers of each key
    accepted, \* the requests whose message the server accepted
    replies   \* the server's answers on their way

vars == <<sender, inbox, store, accepted, replies>>

(***************************************************************************)
(* Requests.  A body is a payload and its edition: 0, unless the caller     *)
(* computes part of it (a scheduled_at of now plus an hour) at each try.   *)
(***************************************************************************)
Tries == UNION {1..TriesOf[s] : s \in Senders}

SendBodies == Payloads \X (Tries \cup {0})

Edition(s, try) == IF s \in Drifting THEN try ELSE 0

Params(s, try) == [idempotency_key |-> KeyArgOf[s], body |-> <<PayloadOf[s], Edition(s, try)>>]

\* Mutant: the body is kept on the client and handed from call to call.
BodyShared(params) ==
    [header |-> Str(params.idempotency_key), body |-> <<CHOOSE p \in Payloads : TRUE, params.body[2]>>]

\* Mutant: the key stays in the body, where the server does not look for it.
KeyInBody(params) == [header |-> None, body |-> params.body]

\* _build_send_body: the key is lifted out of the body into its header.
BuildSendBody(params) == [header |-> Str(params.idempotency_key), body |-> params.body]

Requests == [sender : Senders, try : Tries, header : Keys \cup {None}, body : SendBodies]

Request(s, try) ==
    LET spec == BuildSendBody(Params(s, try))
    IN  [sender |-> s, try |-> try, header |-> spec.header, body |-> spec.body]

\* The requests that can be made, of all that have the shape of one.
OwnRequests == UNION {{Request(s, try) : try \in 1..TriesOf[s]} : s \in Senders}

(***************************************************************************)
(* Answers.  "message" is the accepted request an Email's id stands for.   *)
(***************************************************************************)
NoMessage == [sender |-> None]

Answer(status, name, replayed) ==
    [ status |-> status,
      body |-> [ json |-> "object", id |-> IF OkStatus(status) THEN "text" ELSE "absent",
                 scheduledAt |-> "absent", name |-> name, fits |-> {} ],
      headers |-> [retryAfter |-> "absent", requestId |-> "text", replayed |-> replayed] ]

Answers == [to : Requests, resp : Responses, message : Requests \cup {NoMessage}]

Open(m) == sender[m.sender].phase = "waiting" /\ sender[m.sender].tries = m.try

\* An answer to a call that was given up goes nowhere.
Reply(m, resp, message) ==
    replies' = IF Open(m) THEN replies \cup {[to |-> m, resp |-> resp, message |-> message]}
               ELSE replies

(***************************************************************************)
(* What a caller does with an outcome.                                     *)
(***************************************************************************)
Pending == [kind |-> "pending"]
ConnectionError == [kind |-> "connection_error"]

IsEmail(outcome) == outcome.kind = "email"

\* Tried again: no answer, a rate limit, a server error ("safe to retry with
\* backoff"), and the conflict with a request still running under the key.
RetryLater(outcome) ==
    \/ outcome = ConnectionError
    \/ outcome.kind = "api_error" /\ outcome.class \in {"RateLimitError", "ServerError"}
    \/ /\ outcome.kind = "api_error" /\ outcome.class = "ConflictError"
       /\ outcome.name = "concurrent_idempotent_requests"

SenderStates ==
    [ phase : {"ready", "waiting", "stopped"}, tries : Tries \cup {0},
      last : Processed \cup {Pending, ConnectionError},
      message : Requests \cup {NoMessage} ]

Entries == [state : {"free", "running", "done"}, by : Requests \cup {NoMessage}]
Free == [state |-> "free", by |-> NoMessage]

TypeOK ==
    /\ sender \in [Senders -> SenderStates]
    /\ \A s \in Senders : sender[s].tries <= TriesOf[s]
    /\ inbox \subseteq Requests
    /\ store \in [Keys -> Entries]
    /\ accepted \subseteq Requests
    /\ replies \subseteq Answers

Init ==
    /\ sender = [ s \in Senders |-> [ phase |-> "ready", tries |-> 0,
                                      last |-> Pending, message |-> NoMessage ] ]
    /\ inbox = {}
    /\ store = [k \in Keys |-> Free]
    /\ accepted = {}
    /\ replies = {}

(***************************************************************************)
(* The senders.                                                            *)
(***************************************************************************)
\* client.emails.send(**params): the request is on its way.
Attempt(s) ==
    LET try == sender[s].tries + 1
    IN  /\ sender[s].phase = "ready"
        /\ sender' = [sender EXCEPT ![s].phase = "waiting", ![s].tries = try, ![s].last = Pending]
        /\ inbox' = inbox \cup {Request(s, try)}
        /\ UNCHANGED <<store, accepted, replies>>

\* The call returned or raised: try again, or stop.
Settle(s, outcome, message) ==
    /\ sender' = [ sender EXCEPT
           ![s].phase = IF RetryLater(outcome) /\ sender[s].tries < TriesOf[s]
                        THEN "ready" ELSE "stopped",
           ![s].last = outcome,
           ![s].message = IF IsEmail(outcome) THEN message ELSE NoMessage ]
    /\ replies' = {r \in replies : r.to.sender # s}

\* The answer arrives.
Receive(s) ==
    /\ sender[s].phase = "waiting"
    /\ \E r \in replies :
          /\ r.to.sender = s
          /\ Settle(s, Process("send", r.resp), r.message)
    /\ UNCHANGED <<inbox, store, accepted>>

\* Mutant: a call waits for its answer as long as it takes.
WaitForever(s) ==
    /\ sender[s].phase = "waiting"
    /\ \E r \in replies : r.to.sender = s
    /\ Settle(s, ConnectionError, NoMessage)
    /\ UNCHANGED <<inbox, store, accepted>>

\* Mutant: httpx's own exception is let through.
TimeOutRaw(s) ==
    /\ sender[s].phase = "waiting"
    /\ Settle(s, [kind |-> "httpx_timeout"], NoMessage)
    /\ UNCHANGED <<inbox, store, accepted>>

\* The call fails with the request sent or not, answered or not.
TimeOut(s) ==
    /\ sender[s].phase = "waiting"
    /\ Settle(s, ConnectionError, NoMessage)
    /\ UNCHANGED <<inbox, store, accepted>>

(***************************************************************************)
(* The server.                                                             *)
(***************************************************************************)
\* A send without a key is accepted as it comes.
AcceptUnkeyed(m) ==
    /\ m \in inbox /\ m.header = None
    /\ inbox' = inbox \ {m}
    /\ accepted' = accepted \cup {m}
    /\ Reply(m, Answer(200, "", "false"), m)
    /\ UNCHANGED <<sender, store>>

\* The first request under a key starts running.
Claim(m) ==
    /\ m \in inbox /\ m.header # None /\ store[m.header] = Free
    /\ inbox' = inbox \ {m}
    /\ store' = [store EXCEPT ![m.header] = [state |-> "running", by |-> m]]
    /\ UNCHANGED <<sender, accepted, replies>>

\* It is accepted, and its answer remembered.
Commit(k) ==
    LET m == store[k].by
    IN  /\ store[k].state = "running"
        /\ store' = [store EXCEPT ![k].state = "done"]
        /\ accepted' = accepted \cup {m}
        /\ Reply(m, Answer(200, "", "false"), m)
        /\ UNCHANGED <<sender, inbox>>

\* It fails inside the server before being accepted; the key is free again.
Abort(k) ==
    /\ store[k].state = "running"
    /\ store' = [store EXCEPT ![k] = Free]
    /\ Reply(store[k].by, Answer(500, "application_error", "absent"), NoMessage)
    /\ UNCHANGED <<sender, inbox, accepted>>

\* A rate limit, before the key is looked at.
Limit(m) ==
    /\ m \in inbox
    /\ inbox' = inbox \ {m}
    /\ Reply(m, Answer(429, "rate_limit_exceeded", "absent"), NoMessage)
    /\ UNCHANGED <<sender, store, accepted>>

\* Another request is running under the key.
ConflictRunning(m) ==
    /\ m \in inbox /\ m.header # None /\ store[m.header].state = "running"
    /\ inbox' = inbox \ {m}
    /\ Reply(m, Answer(409, "concurrent_idempotent_requests", "absent"), NoMessage)
    /\ UNCHANGED <<sender, store, accepted>>

\* The key was used: the same body gets the same answer, another is refused.
AnswerUsed(m) ==
    /\ m \in inbox /\ m.header # None /\ store[m.header].state = "done"
    /\ inbox' = inbox \ {m}
    /\ IF m.body = store[m.header].by.body
       THEN Reply(m, Answer(200, "", "true"), store[m.header].by)
       ELSE Reply(m, Answer(409, "invalid_idempotent_request", "absent"), NoMessage)
    /\ UNCHANGED <<sender, store, accepted>>

Handle(m) == AcceptUnkeyed(m) \/ Claim(m) \/ Limit(m) \/ ConflictRunning(m) \/ AnswerUsed(m)

Next ==
    \/ \E s \in Senders : Attempt(s) \/ Receive(s) \/ TimeOut(s)
    \/ \E m \in inbox : Handle(m)
    \/ \E k \in Keys : Commit(k) \/ Abort(k)

Spec == Init /\ [][Next]_vars

\* While some caller can go on, some caller does: each call returns or raises
\* (EveryCallReturns of module Client); the server promises nothing.
Fairness ==
    WF_vars(\E s \in Senders : Attempt(s) \/ Receive(s) \/ TimeOut(s))

FairSpec == Spec /\ Fairness

(***************************************************************************)
(* Properties.                                                             *)
(***************************************************************************)
Told(s) == sender[s].phase = "stopped"

\* What sender s asks to send, whoever sent it.
Asks(s, m) ==
    /\ KeyOf[m.sender] = KeyOf[s]
    /\ m.body[1] = PayloadOf[s]
    /\ s \notin Drifting => m.body[2] = 0

(***************************************************************************)
(* README: pass idempotency_key "to safely retry a send without risking a  *)
(* duplicate".  However many senders try under one key, and however late   *)
(* their requests arrive, one message at most is accepted.                 *)
(***************************************************************************)
AtMostOncePerKey ==
    \A m, n \in accepted :
        KeyOf[m.sender] = KeyOf[n.sender] /\ KeyOf[m.sender] # None => m = n

(***************************************************************************)
(* An Email stands for a message that was accepted under the sender's key  *)
(* and says what this sender asked to send: "Reusing a key with a          *)
(* different payload raises ConflictError instead of silently sending".    *)
(***************************************************************************)
EmailsAreForOwnMessage ==
    \A s \in Senders :
        IsEmail(sender[s].last) =>
            sender[s].message \in accepted /\ Asks(s, sender[s].message)

(***************************************************************************)
(* README: idempotent_replayed is "True if this key was already used": an  *)
(* Email is marked so exactly when the message accepted is not the one of  *)
(* the request it answers.                                                 *)
(***************************************************************************)
ReplayFlagIsTrue ==
    \A s \in Senders :
        IsEmail(sender[s].last) =>
            sender[s].last.replayed <=> (sender[s].message # Request(s, sender[s].tries))

(***************************************************************************)
(* The error name tells the two conflicts of one class apart, as the       *)
(* ErrorName constants are for.  invalid_idempotent_request is final: none *)
(* of this sender's requests was accepted or ever will be, late as they    *)
(* may arrive, unless the sender itself changes the body between tries.    *)
(* (concurrent_idempotent_requests says nothing of the kind: the request   *)
(* running may be the sender's own, whose call timed out.)                 *)
(***************************************************************************)
InvalidMeansNeverAccepted ==
    \A s \in Senders \ Drifting :
        (/\ sender[s].last.kind = "api_error"
         /\ sender[s].last.name = "invalid_idempotent_request")
            => \A m \in accepted : m.sender # s

(***************************************************************************)
(* The system implements SendOnce.                                         *)
(***************************************************************************)
ToldBy(s) ==
    IF ~Told(s) THEN [kind |-> "nothing"]
    ELSE IF IsEmail(sender[s].last) THEN [kind |-> "email", message |-> sender[s].message]
    ELSE [kind |-> "failure"]

\* A message sent without a key has nothing in common with any other.
UnderKey(m) ==
    LET key == KeyOf[m.sender]
    IN  <<key, IF key = None THEN m ELSE NoMessage>>

Once == INSTANCE SendOnce WITH
            Messages <- OwnRequests, told <- [s \in Senders |-> ToldBy(s)]

\* At most one message per key, and Emails for that one only, as one behaviour:
\* no step of server, network or SDK accepts twice or takes an Email back.
SendsOnce == Once!Spec

(***************************************************************************)
(* Liveness: every sender is told something in the end.                    *)
(***************************************************************************)
EverySenderIsTold == <>(\A s \in Senders : Told(s))
==============================================================================
