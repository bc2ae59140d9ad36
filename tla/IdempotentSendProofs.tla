------------------------- MODULE IdempotentSendProofs -------------------------
(***************************************************************************)
(* Proofs about module IdempotentSend, for any number of senders, keys,    *)
(* messages and tries.                                                     *)
(***************************************************************************)
EXTENDS IdempotentSend, ResponsesProofs

(***************************************************************************)
(* A request that was made, by its sender's latest try or an earlier one.  *)
(***************************************************************************)
Made(m) ==
    /\ m \in Requests
    /\ m.try <= sender[m.sender].tries
    /\ m = Request(m.sender, m.try)

\* Invalid: the error that says the key was used for another body.
Invalid(outcome) ==
    outcome.kind = "api_error" /\ outcome.name = "invalid_idempotent_request"

(***************************************************************************)
(* What an answer to m says, with "message" for what an Email's id names.  *)
(***************************************************************************)
Truthful(outcome, message, m) ==
    /\ IsEmail(outcome) =>
          /\ message \in accepted
          /\ message.header = m.header /\ message.body = m.body
          /\ outcome.replayed <=> message # m
    /\ Invalid(outcome) =>
          /\ ~RetryLater(outcome)
          /\ m.header \in Keys /\ store[m.header].state = "done"
          /\ store[m.header].by.body # m.body

\* A request is in the inbox, or it has been looked at and may be accepted.
RequestsInv ==
    /\ \A m \in inbox : Made(m)
    /\ \A m \in accepted : Made(m) /\ m \notin inbox

\* A key is done exactly when a message was accepted under it, the one it remembers.
StoreInv ==
    \A k \in Keys :
        /\ store[k].state # "done" => \A m \in accepted : m.header # k
        /\ store[k].state = "running" =>
              Made(store[k].by) /\ store[k].by.header = k /\ store[k].by \notin inbox
        /\ store[k].state = "done" =>
              /\ store[k].by \in accepted /\ store[k].by.header = k
              /\ \A m \in accepted : m.header = k => m = store[k].by

RepliesInv ==
    \A r \in replies :
        /\ Made(r.to) /\ r.to \notin inbox /\ Open(r.to)
        /\ Truthful(Process("send", r.resp), r.message, r.to)

\* A sender that has not stopped was never told anything final.
SendersInv ==
    \A s \in Senders :
        /\ IF sender[s].phase = "ready" THEN sender[s].tries < TriesOf[s] ELSE sender[s].tries >= 1
        /\ sender[s].phase # "stopped" => ~IsEmail(sender[s].last) /\ ~Invalid(sender[s].last)
        /\ sender[s].phase = "stopped" =>
              Truthful(sender[s].last, sender[s].message, Request(s, sender[s].tries))

IInv == TypeOK /\ RequestsInv /\ StoreInv /\ RepliesInv /\ SendersInv

(***************************************************************************)
(* Requests and answers.                                                   *)
(***************************************************************************)
\* The key goes into the header, as the text str() makes of the argument.
LEMMA RequestIs ==
    ASSUME NEW s \in Senders, NEW try
    PROVE  Request(s, try) = [ sender |-> s, try |-> try, header |-> KeyOf[s],
                               body |-> <<PayloadOf[s], Edition(s, try)>> ]
<1>1. KeyOf[s] = Str(KeyArgOf[s])
  BY DEF KeyOf
<1>2. PICK key : key = KeyOf[s]
  OBVIOUS
<1>3. BuildSendBody(Params(s, try)).header = key
  BY <1>1, <1>2 DEF BuildSendBody, Params
<1>4. BuildSendBody(Params(s, try)).body = <<PayloadOf[s], Edition(s, try)>>
  BY DEF BuildSendBody, Params
<1> QED  BY <1>2, <1>3, <1>4 DEF Request

LEMMA RequestShape ==
    ASSUME NEW s \in Senders, NEW try \in 1..TriesOf[s]
    PROVE  /\ Request(s, try) \in Requests
           /\ Request(s, try).sender = s /\ Request(s, try).try = try
           /\ Request(s, try).header = KeyOf[s]
           /\ Request(s, try).body = <<PayloadOf[s], Edition(s, try)>>
<1>1. try \in Tries
  BY DEF Tries
<1>2. Edition(s, try) \in Tries \cup {0}
  BY <1>1 DEF Edition
<1>3. KeyOf[s] \in Keys \cup {None} /\ PayloadOf[s] \in Payloads
  BY SendersAssumption
<1>4. <<PayloadOf[s], Edition(s, try)>> \in SendBodies
  BY <1>2, <1>3 DEF SendBodies
<1> QED  BY <1>1, <1>3, <1>4, RequestIs DEF Requests

\* A request's header and body are what its sender's constants say.
LEMMA MadeShape ==
    ASSUME TypeOK, NEW m, Made(m)
    PROVE  /\ m \in Requests /\ m.sender \in Senders /\ m.try \in Nat /\ m.try >= 1
           /\ m.header = KeyOf[m.sender] /\ m.body = <<PayloadOf[m.sender], Edition(m.sender, m.try)>>
<1>1. m \in Requests /\ m = Request(m.sender, m.try) /\ m.try <= sender[m.sender].tries
  BY DEF Made
<1>2. m.sender \in Senders /\ m.try \in Tries
  BY <1>1 DEF Requests
<1>3. PICK s \in Senders : m.try \in 1..TriesOf[s]
  BY <1>2 DEF Tries
<1>4. TriesOf[s] \in Nat
  BY TriesAssumption
<1>5. m.try \in Nat /\ m.try >= 1
  BY <1>3, <1>4
<1>6. m.header = KeyOf[m.sender] /\ m.body = <<PayloadOf[m.sender], Edition(m.sender, m.try)>>
  BY <1>1, <1>2, RequestIs
<1> QED  BY <1>1, <1>2, <1>5, <1>6

SendStatuses == {200, 409, 429, 500}

SendErrors == { "application_error", "rate_limit_exceeded",
                "concurrent_idempotent_requests", "invalid_idempotent_request" }

SendNames == SendErrors \cup {""}

\* The answers of the server are responses the SDK can be given.
LEMMA AnswerShape ==
    ASSUME NEW status \in SendStatuses, NEW replayed \in {"absent", "true", "false"},
           NEW name \in SendNames
    PROVE  Answer(status, name, replayed) \in Responses
<1> DEFINE resp == Answer(status, name, replayed)
<1>1. resp.body \in Bodies
  <2>1. name = "" \/ name \in ErrorNames
    BY AnswersAssumption DEF SendErrors, SendNames
  <2>2. PICK i \in {"text", "absent"} :
           resp.body = [ json |-> "object", id |-> i, scheduledAt |-> "absent",
                         name |-> name, fits |-> {} ]
    BY DEF Answer
  <2>3. i \in Fields /\ "absent" \in Fields /\ {} \in SUBSET Models
    BY DEF Fields
  <2>4. name \in ErrorNames \cup {"", "null"}
    BY <2>1
  <2>5. [ json |-> "object", id |-> i, scheduledAt |-> "absent", name |-> name, fits |-> {} ]
           \in [ json : {"empty", "undecodable", "other", "object"}, id : Fields,
                 scheduledAt : Fields, name : ErrorNames \cup {"", "null"}, fits : SUBSET Models ]
    BY <2>3, <2>4
  <2> HIDE DEF resp
  <2> QED  BY <2>2, <2>5 DEF Bodies
<1>2. resp.headers \in Headers
  BY DEF Answer, Headers
<1>3. resp.status \in Statuses
  <2>1. status \in Statuses
    BY AnswersAssumption DEF SendStatuses
  <2> QED  BY <2>1 DEF Answer
<1> QED  BY <1>1, <1>2, <1>3 DEF Answer, Responses

\* An acceptance, marked as a replay or not.
LEMMA EmailAnswer ==
    ASSUME NEW replayed \in {"true", "false"}, NEW name \in SendNames
    PROVE  /\ Answer(200, name, replayed) \in Responses
           /\ IsEmail(Process("send", Answer(200, name, replayed)))
           /\ ~Invalid(Process("send", Answer(200, name, replayed)))
           /\ Process("send", Answer(200, name, replayed)).replayed <=> replayed = "true"
<1> DEFINE resp == Answer(200, name, replayed)
<1>1. resp \in Responses
  <2>1. 200 \in SendStatuses
    BY DEF SendStatuses
  <2> QED  BY <2>1, AnswerShape
<1>7. resp.body = [ json |-> "object", id |-> "text", scheduledAt |-> "absent",
                    name |-> name, fits |-> {} ]
  BY DEF Answer, OkStatus
<1>2. DecodeJson(resp.body) = resp.body /\ Loads(resp.body) /\ IsDict(resp.body) /\ resp.body.id = "text"
  BY <1>7 DEF DecodeJson, Loads, IsDict
<1>3. OkStatus(resp.status)
  BY DEF Answer, OkStatus
<1>4. Process("send", resp) = EmailOf(resp, resp.body)
  BY <1>2, <1>3 DEF Process, ProcessResponse
<1>5. IsEmail(EmailOf(resp, resp.body)) /\ ~Invalid(EmailOf(resp, resp.body))
  BY DEF EmailOf, IsEmail, Invalid
<1>6. EmailOf(resp, resp.body).replayed <=> replayed = "true"
  BY DEF EmailOf, Answer
<1> QED  BY <1>1, <1>4, <1>5, <1>6

\* A refusal: what it says of the key is in its name and its class.
LEMMA ErrorAnswer ==
    ASSUME NEW status \in SendStatuses \ {200}, NEW name \in SendErrors
    PROVE  /\ Answer(status, name, "absent") \in Responses
           /\ ~IsEmail(Process("send", Answer(status, name, "absent")))
           /\ Invalid(Process("send", Answer(status, name, "absent")))
                 <=> name = "invalid_idempotent_request"
           /\ status = 409 /\ name = "invalid_idempotent_request" =>
                 ~RetryLater(Process("send", Answer(status, name, "absent")))
<1> DEFINE resp == Answer(status, name, "absent")
<1>1. resp \in Responses
  <2>1. status \in SendStatuses /\ name \in SendNames
    BY DEF SendNames
  <2> QED  BY <2>1, AnswerShape
<1>2. DecodeJson(resp.body) = resp.body /\ Loads(resp.body) /\ IsDict(resp.body)
  BY DEF Answer, DecodeJson, Loads, IsDict
<1>3. ~OkStatus(resp.status)
  <2>1. status \in {409, 429, 500}
    BY DEF SendStatuses
  <2> QED  BY <2>1 DEF Answer, OkStatus
<1>4. Process("send", resp) = ErrorOf(resp)
  BY <1>2, <1>3 DEF Process, ProcessResponse
<1>5. ErrorOf(resp).kind = "api_error" /\ ErrorOf(resp).name = name
  <2>1. Str(name) = name
    BY DEF Str, SendErrors
  <2>2. resp.body.name = name
    BY DEF Answer
  <2>3. PICK text : text = Str(resp.body.name)
    OBVIOUS
  <2> HIDE DEF resp
  <2> QED  BY <1>2, <2>1, <2>2, <2>3 DEF ErrorOf, RaiseForResponse
<1>6. status = 409 => ErrorOf(resp).class = "ConflictError"
  BY DEF ErrorOf, RaiseForResponse, ErrorClass, ExactClass, Answer
<1>7. /\ ~IsEmail(ErrorOf(resp))
      /\ Invalid(ErrorOf(resp)) <=> name = "invalid_idempotent_request"
      /\ status = 409 /\ name = "invalid_idempotent_request" => ~RetryLater(ErrorOf(resp))
  BY <1>5, <1>6 DEF IsEmail, Invalid, RetryLater, ConnectionError
<1> QED  BY <1>1, <1>4, <1>7

(***************************************************************************)
(* The invariant holds in the beginning and is kept by every action.        *)
(***************************************************************************)
LEMMA InitInv == Init => IInv
<1> SUFFICES ASSUME Init PROVE IInv
  OBVIOUS
<1>1. TypeOK
  BY TriesAssumption DEF Init, TypeOK, SenderStates, Entries, Free
<1>2. RequestsInv /\ StoreInv /\ RepliesInv
  BY DEF Init, RequestsInv, StoreInv, RepliesInv, Free
<1>3. SendersInv
  BY TriesAssumption DEF Init, SendersInv, Pending, IsEmail, Invalid
<1> QED  BY <1>1, <1>2, <1>3 DEF IInv

\* A new request is none of those made before.
LEMMA AttemptInv ==
    ASSUME IInv, NEW s \in Senders, Attempt(s) PROVE IInv'
<1> DEFINE try == sender[s].tries + 1
           new == Request(s, try)
<1>1. TypeOK /\ RequestsInv /\ StoreInv /\ RepliesInv /\ SendersInv
  BY DEF IInv
<1>2. /\ sender[s].phase = "ready" /\ sender[s].tries \in Nat
      /\ TriesOf[s] \in Nat /\ try \in 1..TriesOf[s]
  <2>1. sender[s] \in SenderStates
    BY <1>1 DEF TypeOK
  <2>2. sender[s].tries \in Nat
    BY <2>1, TriesAssumption DEF SenderStates, Tries
  <2> QED  BY <1>1, <2>2, TriesAssumption DEF SendersInv, Attempt
<1>3. new \in Requests /\ new.sender = s /\ new.try = try
  BY <1>2, RequestShape
<1>4. /\ sender' = [sender EXCEPT ![s].phase = "waiting", ![s].tries = try, ![s].last = Pending]
      /\ inbox' = inbox \cup {new} /\ UNCHANGED <<store, accepted, replies>>
  BY DEF Attempt
<1>5. TypeOK'
  <2>1. try \in Tries
    BY <1>2 DEF Tries
  <2>2. sender' \in [Senders -> SenderStates]
    <3>1. PICK old, mine : /\ old = sender[s]
                           /\ mine = [old EXCEPT !.phase = "waiting", !.tries = try, !.last = Pending]
      OBVIOUS
    <3>2. old \in SenderStates /\ sender' = [sender EXCEPT ![s] = mine]
      BY <1>1, <1>4, <3>1 DEF TypeOK
    <3>3. mine \in SenderStates
      BY <2>1, <3>1, <3>2 DEF SenderStates
    <3> QED  BY <1>1, <3>2, <3>3 DEF TypeOK
  <2>3. \A o \in Senders : sender'[o].tries <= TriesOf[o]
    BY <1>1, <1>2, <1>4 DEF TypeOK
  <2> QED  BY <1>1, <1>3, <1>4, <2>2, <2>3 DEF TypeOK
<1>6. \A m : Made(m) => Made(m)' /\ m # new
  <2> SUFFICES ASSUME NEW m, Made(m) PROVE Made(m)' /\ m # new
    OBVIOUS
  <2>1. m.sender \in Senders /\ m.try \in Nat
    BY <1>1, MadeShape
  <2> QED  BY <1>1, <1>2, <1>3, <1>4, <2>1 DEF Made, TypeOK
<1>7. PICK n : n = new
  OBVIOUS
<1>12. Made(n)'
  <2>1. sender'[s].tries = try
    <3>1. sender[s] \in SenderStates
      BY <1>1 DEF TypeOK
    <3> QED  BY <1>1, <1>4, <3>1 DEF TypeOK, SenderStates
  <2>2. n.try <= sender'[n.sender].tries
    BY <1>2, <1>3, <1>7, <2>1
  <2>3. n = Request(n.sender, n.try)
    BY <1>3, <1>7
  <2> QED  BY <1>3, <1>7, <2>2, <2>3 DEF Made
<1>8. RequestsInv'
  <2>1. \A m \in inbox' : Made(m)'
    BY <1>1, <1>4, <1>6, <1>7, <1>12 DEF RequestsInv
  <2>2. \A m \in accepted' : Made(m)' /\ m \notin inbox'
    BY <1>1, <1>4, <1>6 DEF RequestsInv
  <2> QED  BY <2>1, <2>2 DEF RequestsInv
<1>11. StoreInv'
  <2> SUFFICES ASSUME NEW k \in Keys
               PROVE  /\ store[k].state # "done" => \A m \in accepted : m.header # k
                      /\ store[k].state = "running" =>
                            Made(store[k].by)' /\ store[k].by.header = k /\ store[k].by \notin inbox'
                      /\ store[k].state = "done" =>
                            /\ store[k].by \in accepted /\ store[k].by.header = k
                            /\ \A m \in accepted : m.header = k => m = store[k].by
    BY <1>4 DEF StoreInv, Made
  <2>1. store[k].state = "running" =>
           Made(store[k].by) /\ store[k].by.header = k /\ store[k].by \notin inbox
    BY <1>1 DEF StoreInv
  <2>2. store[k].state = "running" => Made(store[k].by)' /\ store[k].by # new
    BY <1>6, <2>1, <1>4
  <2> QED  BY <1>1, <1>4, <2>1, <2>2 DEF StoreInv
<1>9. RepliesInv'
  <2> SUFFICES ASSUME NEW r \in replies
               PROVE  /\ Made(r.to)' /\ r.to \notin inbox' /\ Open(r.to)'
                      /\ Truthful(Process("send", r.resp), r.message, r.to)'
    BY <1>4 DEF RepliesInv
  <2>1. /\ Made(r.to) /\ r.to \notin inbox /\ Open(r.to)
        /\ Truthful(Process("send", r.resp), r.message, r.to)
    BY <1>1 DEF RepliesInv
  <2>2. r.to.sender # s /\ r.to.sender \in Senders
    BY <1>1, <1>2, <2>1, MadeShape DEF Open
  <2>3. Open(r.to)'
    BY <1>1, <1>4, <2>1, <2>2 DEF Open, TypeOK
  <2>4. Made(r.to)' /\ r.to \notin inbox'
    BY <1>4, <1>6, <2>1
  <2>5. Truthful(Process("send", r.resp), r.message, r.to)'
    BY <1>4, <2>1 DEF Truthful
  <2> QED  BY <2>3, <2>4, <2>5
<1>10. SendersInv'
  <2>1. sender[s] \in SenderStates
    BY <1>1 DEF TypeOK
  <2>2. /\ sender'[s].phase = "waiting" /\ sender'[s].tries = try /\ sender'[s].last = Pending
        /\ \A o \in Senders \ {s} : sender'[o] = sender[o]
    BY <1>1, <1>4, <2>1 DEF TypeOK, SenderStates
  <2> SUFFICES ASSUME NEW o \in Senders
               PROVE  /\ IF sender'[o].phase = "ready" THEN sender'[o].tries < TriesOf[o]
                                                       ELSE sender'[o].tries >= 1
                      /\ sender'[o].phase # "stopped" =>
                            ~IsEmail(sender'[o].last) /\ ~Invalid(sender'[o].last)
                      /\ sender'[o].phase = "stopped" =>
                            Truthful(sender[o].last, sender[o].message, Request(o, sender[o].tries))'
    BY DEF SendersInv, IsEmail, Invalid
  <2>3. CASE o = s
    BY <1>2, <2>2, <2>3 DEF Pending, IsEmail, Invalid
  <2>4. CASE o # s
    <3>1. sender'[o] = sender[o]
      BY <2>2, <2>4
    <3>2. sender[o].phase = "stopped" =>
             Truthful(sender[o].last, sender[o].message, Request(o, sender[o].tries))
      BY <1>1 DEF SendersInv
    <3>3. sender'[o].phase = "stopped" =>
             Truthful(sender[o].last, sender[o].message, Request(o, sender[o].tries))'
      <4>1. PICK outcome, message, m :
                /\ outcome = sender[o].last /\ message = sender[o].message
                /\ m = Request(o, sender[o].tries)
        OBVIOUS
      <4>2. Truthful(outcome, message, m) => Truthful(outcome, message, m)'
        BY <1>4 DEF Truthful
      <4>3. m = Request(o, sender'[o].tries)
        BY <3>1, <4>1
      <4> QED  BY <3>1, <3>2, <4>1, <4>2, <4>3
    <3> QED  BY <1>1, <3>1, <3>3 DEF SendersInv
  <2> QED  BY <2>3, <2>4
<1> QED  BY <1>5, <1>8, <1>9, <1>10, <1>11 DEF IInv

\* An outcome that is true of the sender's request.
LEMMA SettleInv ==
    ASSUME IInv, NEW s \in Senders, NEW outcome \in Processed \cup {ConnectionError},
           NEW message \in Requests \cup {NoMessage},
           sender[s].phase = "waiting", Truthful(outcome, message, Request(s, sender[s].tries)),
           Settle(s, outcome, message), UNCHANGED <<inbox, store, accepted>>
    PROVE  IInv'
<1>1. TypeOK /\ RequestsInv /\ StoreInv /\ RepliesInv /\ SendersInv
  BY DEF IInv
<1>2. sender[s] \in SenderStates
  BY <1>1 DEF TypeOK
<1> DEFINE again == RetryLater(outcome) /\ sender[s].tries < TriesOf[s]
           told == [ sender[s] EXCEPT !.phase = IF again THEN "ready" ELSE "stopped",
                        !.last = outcome, !.message = IF IsEmail(outcome) THEN message ELSE NoMessage ]
<1>3. sender' = [sender EXCEPT ![s] = told]
  BY <1>1 DEF Settle, TypeOK
<1>4. told \in SenderStates /\ told.tries = sender[s].tries
  BY <1>2 DEF SenderStates
<1>5. /\ told.phase = IF again THEN "ready" ELSE "stopped"
      /\ told.last = outcome
      /\ IsEmail(outcome) => told.message = message
  BY <1>2 DEF SenderStates
<1>6. \A o \in Senders : sender'[o].tries = sender[o].tries
  BY <1>1, <1>3, <1>4 DEF TypeOK
<1>10. replies' = {r \in replies : r.to.sender # s}
  BY DEF Settle
<1>7. TypeOK'
  BY <1>1, <1>3, <1>4, <1>6, <1>10 DEF TypeOK
<1>8. RequestsInv' /\ StoreInv'
  BY <1>1, <1>6, MadeShape DEF RequestsInv, StoreInv, Made
<1>11. RepliesInv'
  <2> SUFFICES ASSUME NEW r \in replies, r.to.sender # s
               PROVE  /\ Made(r.to)' /\ r.to \notin inbox' /\ Open(r.to)'
                      /\ Truthful(Process("send", r.resp), r.message, r.to)'
    BY <1>10 DEF RepliesInv
  <2>1. /\ Made(r.to) /\ r.to \notin inbox /\ Open(r.to) /\ r.to.sender \in Senders
        /\ Truthful(Process("send", r.resp), r.message, r.to)
    BY <1>1, MadeShape DEF RepliesInv
  <2>2. Made(r.to)'
    BY <1>6, <2>1 DEF Made
  <2>3. Open(r.to)'
    BY <1>1, <1>3, <2>1 DEF Open, TypeOK
  <2> QED  BY <2>1, <2>2, <2>3 DEF Truthful
<1>9. SendersInv'
  <2> SUFFICES ASSUME NEW o \in Senders
               PROVE  /\ IF sender'[o].phase = "ready" THEN sender'[o].tries < TriesOf[o]
                                                       ELSE sender'[o].tries >= 1
                      /\ sender'[o].phase # "stopped" =>
                            ~IsEmail(sender'[o].last) /\ ~Invalid(sender'[o].last)
                      /\ sender'[o].phase = "stopped" =>
                            Truthful(sender[o].last, sender[o].message, Request(o, sender[o].tries))'
    BY DEF SendersInv, IsEmail, Invalid
  <2>1. CASE o # s
    BY <1>1, <1>3, <2>1 DEF SendersInv, TypeOK, Truthful
  <2>2. CASE o = s
    <3>1. sender'[s] = told
      BY <1>1, <1>3 DEF TypeOK
    <3>2. again => ~IsEmail(outcome) /\ ~Invalid(outcome)
      BY DEF RetryLater, IsEmail, ConnectionError, Truthful
    <3>3. sender[s].tries >= 1
      BY <1>1 DEF SendersInv
    <3>4. Truthful(sender[s].last, sender[s].message, Request(s, sender[s].tries))'
      BY <1>4, <1>5, <3>1 DEF Truthful
    <3> QED  BY <1>4, <1>5, <2>2, <3>1, <3>2, <3>3, <3>4
  <2> QED  BY <2>1, <2>2
<1> QED  BY <1>7, <1>8, <1>9, <1>11 DEF IInv

LEMMA ReceiveInv ==
    ASSUME IInv, NEW s \in Senders, Receive(s) PROVE IInv'
<1>1. TypeOK /\ RepliesInv
  BY DEF IInv
<1>2. PICK r \in replies : /\ r.to.sender = s
                           /\ Settle(s, Process("send", r.resp), r.message)
  BY DEF Receive
<1>3. r.resp \in Responses /\ r.message \in Requests \cup {NoMessage}
  BY <1>1 DEF TypeOK, Answers
<1>4. Process("send", r.resp) \in Processed
  BY <1>3, ProcessType
<1>5. Truthful(Process("send", r.resp), r.message, Request(s, sender[s].tries))
  BY <1>1, <1>2 DEF RepliesInv, Made, Open
<1>6. sender[s].phase = "waiting" /\ UNCHANGED <<inbox, store, accepted>>
  BY DEF Receive
<1> QED  BY <1>2, <1>3, <1>4, <1>5, <1>6, SettleInv

LEMMA TimeOutInv ==
    ASSUME IInv, NEW s \in Senders, TimeOut(s) PROVE IInv'
<1>1. Truthful(ConnectionError, NoMessage, Request(s, sender[s].tries))
  BY DEF Truthful, IsEmail, Invalid, ConnectionError
<1>2. /\ sender[s].phase = "waiting" /\ Settle(s, ConnectionError, NoMessage)
      /\ UNCHANGED <<inbox, store, accepted>>
  BY DEF TimeOut
<1> QED  BY <1>1, <1>2, SettleInv

(***************************************************************************)
(* The server's steps.  What it accepts it never takes back, and a key that *)
(* is done stays so: what senders and answers say remains true.            *)
(***************************************************************************)
LEMMA TruthfulStays ==
    ASSUME NEW outcome, NEW message, NEW m, Truthful(outcome, message, m),
           accepted \subseteq accepted',
           \A k \in Keys : store[k].state = "done" => store'[k] = store[k]
    PROVE  Truthful(outcome, message, m)'
  BY DEF Truthful

LEMMA ServerInv ==
    ASSUME IInv, TypeOK', RequestsInv', StoreInv',
           UNCHANGED sender, inbox' \subseteq inbox, accepted \subseteq accepted',
           \A k \in Keys : store[k].state = "done" => store'[k] = store[k],
           \A r \in replies' :
              \/ r \in replies
              \/ /\ Made(r.to) /\ r.to \notin inbox' /\ Open(r.to)
                 /\ Truthful(Process("send", r.resp), r.message, r.to)'
    PROVE  IInv'
<1>1. RepliesInv'
  <2> SUFFICES ASSUME NEW r \in replies'
               PROVE  /\ Made(r.to)' /\ r.to \notin inbox' /\ Open(r.to)'
                      /\ Truthful(Process("send", r.resp), r.message, r.to)'
    BY DEF RepliesInv
  <2>1. CASE r \in replies
    <3>1. /\ Made(r.to) /\ r.to \notin inbox /\ Open(r.to)
          /\ Truthful(Process("send", r.resp), r.message, r.to)
      BY <2>1 DEF IInv, RepliesInv
    <3>2. Truthful(Process("send", r.resp), r.message, r.to)'
      BY <3>1, TruthfulStays
    <3> QED  BY <3>1, <3>2 DEF Made, Open
  <2>2. CASE r \notin replies
    BY <2>2 DEF Made, Open
  <2> QED  BY <2>1, <2>2
<1>2. SendersInv'
  <2> SUFFICES ASSUME NEW s \in Senders, sender[s].phase = "stopped"
               PROVE  Truthful(sender[s].last, sender[s].message, Request(s, sender[s].tries))'
    BY DEF IInv, SendersInv
  <2>1. PICK o, n, m : o = sender[s].last /\ n = sender[s].message
                          /\ m = Request(s, sender[s].tries)
    OBVIOUS
  <2>2. Truthful(o, n, m)
    BY <2>1 DEF IInv, SendersInv
  <2>3. Truthful(o, n, m)'
    BY <2>2, TruthfulStays
  <2> QED  BY <2>1, <2>3 DEF Truthful
<1> QED  BY <1>1, <1>2 DEF IInv

\* A step that answers m and does nothing else.
LEMMA AnswerInv ==
    ASSUME IInv, NEW m \in inbox, inbox' = inbox \ {m}, UNCHANGED <<sender, store, accepted>>,
           NEW resp \in Responses, NEW message \in Requests \cup {NoMessage},
           Reply(m, resp, message), Truthful(Process("send", resp), message, m)
    PROVE  IInv'
<1>1. TypeOK /\ RequestsInv /\ StoreInv
  BY DEF IInv
<1>2. Made(m)
  BY <1>1 DEF RequestsInv
<1>3. TypeOK'
  BY <1>1, <1>2 DEF TypeOK, Reply, Answers, Made
<1>4. RequestsInv' /\ StoreInv'
  BY <1>1 DEF RequestsInv, StoreInv, Made
<1>5. Truthful(Process("send", resp), message, m)'
  BY TruthfulStays
<1>6. \A r \in replies' :
         \/ r \in replies
         \/ /\ Made(r.to) /\ r.to \notin inbox' /\ Open(r.to)
            /\ Truthful(Process("send", r.resp), r.message, r.to)'
  BY <1>2, <1>5 DEF Reply
<1> QED  BY <1>3, <1>4, <1>6, ServerInv

LEMMA LimitInv ==
    ASSUME IInv, NEW m \in inbox, Limit(m) PROVE IInv'
<1> DEFINE resp == Answer(429, "rate_limit_exceeded", "absent")
<1>1. resp \in Responses /\ ~IsEmail(Process("send", resp)) /\ ~Invalid(Process("send", resp))
  <2>1. 429 \in SendStatuses \ {200} /\ "rate_limit_exceeded" \in SendErrors
    BY DEF SendStatuses, SendErrors
  <2> QED  BY <2>1, ErrorAnswer
<1>2. Truthful(Process("send", resp), NoMessage, m)
  BY <1>1 DEF Truthful
<1> HIDE DEF resp
<1>3. /\ inbox' = inbox \ {m} /\ UNCHANGED <<sender, store, accepted>>
      /\ Reply(m, resp, NoMessage)
  BY DEF Limit, resp
<1> QED  BY <1>1, <1>2, <1>3, AnswerInv

LEMMA ConflictRunningInv ==
    ASSUME IInv, NEW m \in inbox, ConflictRunning(m) PROVE IInv'
<1> DEFINE resp == Answer(409, "concurrent_idempotent_requests", "absent")
<1>1. resp \in Responses /\ ~IsEmail(Process("send", resp)) /\ ~Invalid(Process("send", resp))
  <2>1. 409 \in SendStatuses \ {200} /\ "concurrent_idempotent_requests" \in SendErrors
    BY DEF SendStatuses, SendErrors
  <2> QED  BY <2>1, ErrorAnswer
<1>2. Truthful(Process("send", resp), NoMessage, m)
  BY <1>1 DEF Truthful
<1> HIDE DEF resp
<1>3. /\ inbox' = inbox \ {m} /\ UNCHANGED <<sender, store, accepted>>
      /\ Reply(m, resp, NoMessage)
  BY DEF ConflictRunning, resp
<1> QED  BY <1>1, <1>2, <1>3, AnswerInv

\* A replay names the message accepted, which is not m: m was in the inbox.
LEMMA AnswerUsedInv ==
    ASSUME IInv, NEW m \in inbox, AnswerUsed(m) PROVE IInv'
<1> DEFINE by == store[m.header].by
           replay == Answer(200, "", "true")
           refusal == Answer(409, "invalid_idempotent_request", "absent")
<1>1. TypeOK /\ RequestsInv /\ StoreInv
  BY DEF IInv
<1>2. m.header \in Keys /\ store[m.header].state = "done"
  BY <1>1 DEF AnswerUsed, TypeOK, Requests
<1>3. by \in accepted /\ by.header = m.header /\ by \in Requests /\ by # m
  BY <1>1, <1>2 DEF StoreInv, RequestsInv, TypeOK
<1>4. /\ replay \in Responses /\ IsEmail(Process("send", replay))
      /\ ~Invalid(Process("send", replay)) /\ Process("send", replay).replayed
  <2>1. PICK name, replayed : name = "" /\ replayed = "true"
    OBVIOUS
  <2>2. name \in SendNames /\ replayed \in {"true", "false"} /\ (replayed = "true" <=> TRUE)
    BY <2>1 DEF SendNames
  <2>3. PICK answer : answer = Answer(200, name, replayed)
    OBVIOUS
  <2>4. /\ answer \in Responses /\ IsEmail(Process("send", answer))
        /\ ~Invalid(Process("send", answer))
        /\ Process("send", answer).replayed <=> replayed = "true"
    BY <2>2, <2>3, EmailAnswer
  <2>5. replay = answer
    BY <2>1, <2>3
  <2> QED  BY <2>2, <2>4, <2>5
<1>5. /\ refusal \in Responses /\ ~IsEmail(Process("send", refusal))
      /\ ~RetryLater(Process("send", refusal))
  <2>1. 409 \in SendStatuses \ {200} /\ "invalid_idempotent_request" \in SendErrors
    BY DEF SendStatuses, SendErrors
  <2> QED  BY <2>1, ErrorAnswer
<1> HIDE DEF replay, refusal
<1>6. CASE m.body = by.body
  <2>1. Truthful(Process("send", replay), by, m)
    BY <1>3, <1>4, <1>6 DEF Truthful
  <2>2. /\ inbox' = inbox \ {m} /\ UNCHANGED <<sender, store, accepted>>
        /\ Reply(m, replay, by)
    BY <1>6 DEF AnswerUsed, replay
  <2> QED  BY <1>3, <1>4, <2>1, <2>2, AnswerInv
<1>7. CASE m.body # by.body
  <2>1. Truthful(Process("send", refusal), NoMessage, m)
    BY <1>2, <1>5, <1>7 DEF Truthful
  <2>2. /\ inbox' = inbox \ {m} /\ UNCHANGED <<sender, store, accepted>>
        /\ Reply(m, refusal, NoMessage)
    BY <1>7 DEF AnswerUsed, refusal
  <2> QED  BY <1>5, <2>1, <2>2, AnswerInv
<1> QED  BY <1>6, <1>7

\* A message accepted without a key is nothing to the keys.
LEMMA AcceptUnkeyedInv ==
    ASSUME IInv, NEW m \in inbox, AcceptUnkeyed(m) PROVE IInv'
<1> DEFINE resp == Answer(200, "", "false")
<1>1. TypeOK /\ RequestsInv /\ StoreInv
  BY DEF IInv
<1>2. Made(m) /\ m \in Requests
  BY <1>1 DEF RequestsInv, TypeOK
<1>3. resp \in Responses /\ ~Invalid(Process("send", resp)) /\ ~Process("send", resp).replayed
  <2>1. PICK name, replayed : name = "" /\ replayed = "false"
    OBVIOUS
  <2>2. name \in SendNames /\ replayed \in {"true", "false"} /\ (replayed = "true" <=> FALSE)
    BY <2>1 DEF SendNames
  <2>3. PICK answer : answer = Answer(200, name, replayed)
    OBVIOUS
  <2>4. /\ answer \in Responses /\ IsEmail(Process("send", answer))
        /\ ~Invalid(Process("send", answer))
        /\ Process("send", answer).replayed <=> replayed = "true"
    BY <2>2, <2>3, EmailAnswer
  <2>5. resp = answer
    BY <2>1, <2>3
  <2> QED  BY <2>2, <2>4, <2>5
<1> HIDE DEF resp
<1>4. /\ m.header = None /\ inbox' = inbox \ {m} /\ accepted' = accepted \cup {m}
      /\ Reply(m, resp, m)
      /\ UNCHANGED <<sender, store>>
  BY DEF AcceptUnkeyed, resp
<1>5. TypeOK'
  BY <1>1, <1>2, <1>3, <1>4 DEF TypeOK, Reply, Answers
<1>6. RequestsInv'
  BY <1>1, <1>2, <1>4 DEF RequestsInv, Made
<1>7. StoreInv'
  BY <1>1, <1>4, NoneAssumption DEF StoreInv, Made
<1>8. Truthful(Process("send", resp), m, m)'
  BY <1>3, <1>4 DEF Truthful
<1>9. \A r \in replies' :
         \/ r \in replies
         \/ /\ Made(r.to) /\ r.to \notin inbox' /\ Open(r.to)
            /\ Truthful(Process("send", r.resp), r.message, r.to)'
  BY <1>2, <1>4, <1>8 DEF Reply
<1> QED  BY <1>4, <1>5, <1>6, <1>7, <1>9, ServerInv

LEMMA ClaimInv ==
    ASSUME IInv, NEW m \in inbox, Claim(m) PROVE IInv'
<1>1. TypeOK /\ RequestsInv /\ StoreInv
  BY DEF IInv
<1>2. Made(m) /\ m \in Requests
  BY <1>1 DEF RequestsInv, TypeOK
<1>3. m.header \in Keys /\ store[m.header].state = "free"
  BY <1>2 DEF Claim, Requests, Free
<1>4. /\ inbox' = inbox \ {m} /\ UNCHANGED <<sender, accepted, replies>>
      /\ store' = [store EXCEPT ![m.header] = [state |-> "running", by |-> m]]
  BY DEF Claim
<1>5. TypeOK'
  BY <1>1, <1>2, <1>4 DEF TypeOK, Entries
<1>6. RequestsInv'
  BY <1>1, <1>4 DEF RequestsInv, Made
<1>7. StoreInv'
  <2> SUFFICES ASSUME NEW k \in Keys
               PROVE  /\ store'[k].state # "done" => \A n \in accepted : n.header # k
                      /\ store'[k].state = "running" =>
                            Made(store[k].by)' /\ store'[k].by.header = k /\ store'[k].by \notin inbox'
                      /\ store'[k].state = "done" =>
                            /\ store'[k].by \in accepted /\ store'[k].by.header = k
                            /\ \A n \in accepted : n.header = k => n = store'[k].by
    BY <1>4 DEF StoreInv
  <2>1. CASE k = m.header
    <3>1. store'[k] = [state |-> "running", by |-> m]
      BY <1>1, <1>4, <2>1 DEF TypeOK
    <3>2. Made(store[k].by)'
      BY <1>2, <1>4, <3>1 DEF Made
    <3> QED  BY <1>1, <1>3, <1>4, <2>1, <3>1, <3>2 DEF StoreInv
  <2>2. CASE k # m.header
    <3>1. store'[k] = store[k]
      BY <1>1, <1>4, <2>2 DEF TypeOK
    <3> QED  BY <1>1, <1>4, <3>1 DEF StoreInv, Made
  <2> QED  BY <2>1, <2>2
<1>8. \A k \in Keys : store[k].state = "done" => store'[k] = store[k]
  BY <1>1, <1>3, <1>4 DEF TypeOK
<1> QED  BY <1>4, <1>5, <1>6, <1>7, <1>8, ServerInv

LEMMA CommitInv ==
    ASSUME IInv, NEW k \in Keys, Commit(k) PROVE IInv'
<1> DEFINE resp == Answer(200, "", "false")
<1>1. TypeOK /\ RequestsInv /\ StoreInv /\ store[k].state = "running"
  BY DEF IInv, Commit
<1>2. PICK m : m = store[k].by
  OBVIOUS
<1>3. Made(m) /\ m \in Requests /\ m.header = k /\ m \notin inbox
  BY <1>1, <1>2 DEF StoreInv, Made
<1>4. resp \in Responses /\ ~Invalid(Process("send", resp)) /\ ~Process("send", resp).replayed
  <2>1. PICK name, replayed : name = "" /\ replayed = "false"
    OBVIOUS
  <2>2. name \in SendNames /\ replayed \in {"true", "false"} /\ (replayed = "true" <=> FALSE)
    BY <2>1 DEF SendNames
  <2>3. PICK answer : answer = Answer(200, name, replayed)
    OBVIOUS
  <2>4. /\ answer \in Responses /\ IsEmail(Process("send", answer))
        /\ ~Invalid(Process("send", answer))
        /\ Process("send", answer).replayed <=> replayed = "true"
    BY <2>2, <2>3, EmailAnswer
  <2>5. resp = answer
    BY <2>1, <2>3
  <2> QED  BY <2>2, <2>4, <2>5
<1> HIDE DEF resp
<1>5. /\ store' = [store EXCEPT ![k].state = "done"] /\ accepted' = accepted \cup {m}
      /\ Reply(m, resp, m)
      /\ UNCHANGED <<sender, inbox>>
  BY <1>2 DEF Commit, resp
<1>6. store' = [store EXCEPT ![k] = [state |-> "done", by |-> m]]
  <2>1. store[k] \in Entries
    BY <1>1 DEF TypeOK
  <2>2. [store[k] EXCEPT !.state = "done"] = [state |-> "done", by |-> m]
    BY <1>2, <2>1 DEF Entries
  <2> QED  BY <1>1, <1>5, <2>2 DEF TypeOK
<1>7. TypeOK'
  BY <1>1, <1>3, <1>4, <1>5, <1>6 DEF TypeOK, Entries, Reply, Answers
<1>8. RequestsInv'
  BY <1>1, <1>3, <1>5 DEF RequestsInv, Made
<1>9. StoreInv'
  <2> SUFFICES ASSUME NEW j \in Keys
               PROVE  /\ store'[j].state # "done" => \A n \in accepted' : n.header # j
                      /\ store'[j].state = "running" =>
                            Made(store[j].by)' /\ store'[j].by.header = j /\ store'[j].by \notin inbox'
                      /\ store'[j].state = "done" =>
                            /\ store'[j].by \in accepted' /\ store'[j].by.header = j
                            /\ \A n \in accepted' : n.header = j => n = store'[j].by
    BY DEF StoreInv
  <2>1. CASE j = k
    <3>1. store'[j] = [state |-> "done", by |-> m]
      BY <1>1, <1>6, <2>1 DEF TypeOK
    <3>2. \A n \in accepted : n.header # j
      BY <1>1, <2>1 DEF StoreInv
    <3> QED  BY <1>3, <1>5, <2>1, <3>1, <3>2
  <2>2. CASE j # k
    <3>1. store'[j] = store[j]
      BY <1>1, <1>6, <2>2 DEF TypeOK
    <3> QED  BY <1>1, <1>3, <1>5, <2>2, <3>1 DEF StoreInv, Made
  <2> QED  BY <2>1, <2>2
<1>10. \A j \in Keys : store[j].state = "done" => store'[j] = store[j]
  BY <1>1, <1>6 DEF TypeOK
<1>11. Truthful(Process("send", resp), m, m)'
  BY <1>4, <1>5 DEF Truthful
<1>12. \A r \in replies' :
         \/ r \in replies
         \/ /\ Made(r.to) /\ r.to \notin inbox' /\ Open(r.to)
            /\ Truthful(Process("send", r.resp), r.message, r.to)'
  BY <1>3, <1>5, <1>11 DEF Reply
<1> QED  BY <1>5, <1>7, <1>8, <1>9, <1>10, <1>12, ServerInv

\* Nothing was accepted under a key that is running.
LEMMA AbortInv ==
    ASSUME IInv, NEW k \in Keys, Abort(k) PROVE IInv'
<1> DEFINE resp == Answer(500, "application_error", "absent")
<1>1. TypeOK /\ RequestsInv /\ StoreInv /\ store[k].state = "running"
  BY DEF IInv, Abort
<1>2. PICK m : m = store[k].by
  OBVIOUS
<1>3. Made(m) /\ m \in Requests /\ m \notin inbox
  BY <1>1, <1>2 DEF StoreInv, Made
<1>4. resp \in Responses /\ ~IsEmail(Process("send", resp)) /\ ~Invalid(Process("send", resp))
  <2>1. 500 \in SendStatuses \ {200} /\ "application_error" \in SendErrors
    BY DEF SendStatuses, SendErrors
  <2> QED  BY <2>1, ErrorAnswer
<1> HIDE DEF resp
<1>5. /\ store' = [store EXCEPT ![k] = Free]
      /\ Reply(m, resp, NoMessage)
      /\ UNCHANGED <<sender, inbox, accepted>>
  BY <1>2 DEF Abort, resp
<1>6. TypeOK'
  BY <1>1, <1>3, <1>4, <1>5 DEF TypeOK, Entries, Reply, Answers, Free
<1>7. RequestsInv'
  BY <1>1, <1>5 DEF RequestsInv, Made
<1>8. \A j \in Keys : store'[j] = IF j = k THEN Free ELSE store[j]
  BY <1>1, <1>5 DEF TypeOK
<1>9. StoreInv'
  BY <1>1, <1>5, <1>8 DEF StoreInv, Made, Free
<1>10. \A j \in Keys : store[j].state = "done" => store'[j] = store[j]
  BY <1>1, <1>8
<1>11. Truthful(Process("send", resp), NoMessage, m)'
  BY <1>4 DEF Truthful
<1>12. \A r \in replies' :
         \/ r \in replies
         \/ /\ Made(r.to) /\ r.to \notin inbox' /\ Open(r.to)
            /\ Truthful(Process("send", r.resp), r.message, r.to)'
  BY <1>3, <1>5, <1>11 DEF Reply
<1> QED  BY <1>5, <1>6, <1>7, <1>9, <1>10, <1>12, ServerInv

LEMMA NextInv == IInv /\ [Next]_vars => IInv'
<1> SUFFICES ASSUME IInv, [Next]_vars PROVE IInv'
  OBVIOUS
<1>1. CASE \E s \in Senders : Attempt(s) \/ Receive(s) \/ TimeOut(s)
  BY <1>1, AttemptInv, ReceiveInv, TimeOutInv
<1>2. CASE \E m \in inbox : Handle(m)
  BY <1>2, AcceptUnkeyedInv, ClaimInv, LimitInv, ConflictRunningInv, AnswerUsedInv DEF Handle
<1>3. CASE \E k \in Keys : Commit(k) \/ Abort(k)
  BY <1>3, CommitInv, AbortInv
<1>4. CASE UNCHANGED vars
  BY <1>4 DEF vars, IInv, TypeOK, RequestsInv, StoreInv, RepliesInv, SendersInv, Made, Open, Truthful
<1> QED  BY <1>1, <1>2, <1>3, <1>4 DEF Next

LEMMA Invariance == Spec => []IInv
<1> QED  BY InitInv, NextInv, PTL DEF Spec

(***************************************************************************)
(* What the invariant says of senders and messages.                        *)
(***************************************************************************)
LEMMA OncePerKey == IInv => AtMostOncePerKey
<1> SUFFICES ASSUME IInv, NEW m \in accepted, NEW n \in accepted,
                    KeyOf[m.sender] = KeyOf[n.sender], KeyOf[m.sender] # None
             PROVE  m = n
  BY DEF AtMostOncePerKey
<1>1. TypeOK /\ StoreInv /\ Made(m) /\ Made(n)
  BY DEF IInv, RequestsInv
<1>2. PICK k : k = KeyOf[m.sender]
  OBVIOUS
<1>3. m.header = k /\ n.header = k /\ m \in Requests
  BY <1>1, <1>2, MadeShape
<1>4. k \in Keys
  BY <1>2, <1>3 DEF Requests
<1>5. store[k].state = "done"
  BY <1>1, <1>3, <1>4 DEF StoreInv
<1> QED  BY <1>1, <1>3, <1>4, <1>5 DEF StoreInv

\* An Email stands for a message with the header and the body of the last try.
LEMMA OwnMessage == IInv => EmailsAreForOwnMessage
<1> SUFFICES ASSUME IInv, NEW s \in Senders, IsEmail(sender[s].last)
             PROVE  sender[s].message \in accepted /\ Asks(s, sender[s].message)
  BY DEF EmailsAreForOwnMessage
<1>1. TypeOK /\ RequestsInv /\ SendersInv
  BY DEF IInv
<1>2. PICK m, n : m = sender[s].message /\ n = Request(s, sender[s].tries)
  OBVIOUS
<1>3. m \in accepted /\ m.header = n.header /\ m.body = n.body
  BY <1>1, <1>2 DEF SendersInv, Truthful
<1>4. m.header = KeyOf[m.sender]
  BY <1>1, <1>3, MadeShape DEF RequestsInv
<1>5. n.header = KeyOf[s] /\ n.body = <<PayloadOf[s], Edition(s, sender[s].tries)>>
  BY <1>2, RequestIs
<1>6. s \notin Drifting => Edition(s, sender[s].tries) = 0
  BY DEF Edition
<1>7. m.body[1] = PayloadOf[s] /\ m.body[2] = Edition(s, sender[s].tries)
  BY <1>3, <1>5
<1>8. KeyOf[m.sender] = KeyOf[s]
  BY <1>3, <1>4, <1>5
<1>9. Asks(s, m)
  BY <1>6, <1>7, <1>8 DEF Asks
<1> QED  BY <1>2, <1>3, <1>9

LEMMA ReplayFlag == IInv => ReplayFlagIsTrue
<1> QED  BY DEF IInv, SendersInv, Truthful, ReplayFlagIsTrue

\* A message of the sender's accepted under its key would have its body.
LEMMA InvalidIsFinal == IInv => InvalidMeansNeverAccepted
<1> SUFFICES ASSUME IInv, NEW s \in Senders \ Drifting, Invalid(sender[s].last),
                    NEW m \in accepted, m.sender = s
             PROVE  FALSE
  BY DEF InvalidMeansNeverAccepted, Invalid
<1>1. TypeOK /\ StoreInv /\ SendersInv /\ Made(m)
  BY DEF IInv, RequestsInv
<1>2. PICK k, n : n = Request(s, sender[s].tries) /\ k = n.header
  OBVIOUS
<1>3. k \in Keys /\ store[k].state = "done" /\ store[k].by.body # n.body
  BY <1>1, <1>2 DEF SendersInv, Truthful
<1>4. m.header = KeyOf[s] /\ m.body = <<PayloadOf[s], 0>>
  BY <1>1, MadeShape DEF Edition
<1>5. n.header = KeyOf[s] /\ n.body = <<PayloadOf[s], 0>>
  BY <1>2, RequestIs DEF Edition
<1>6. m = store[k].by
  BY <1>1, <1>2, <1>3, <1>4, <1>5 DEF StoreInv
<1> QED  BY <1>3, <1>4, <1>5, <1>6

(***************************************************************************)
(* The types are kept, whatever the network and the server do.             *)
(***************************************************************************)
THEOREM SendTypes == Spec => []TypeOK
<1>1. IInv => TypeOK
  BY DEF IInv
<1> QED  BY <1>1, Invariance, PTL

(***************************************************************************)
(* One message at most is accepted under a key, of any number of senders   *)
(* with any number of tries: the key travels as a header, unchanged.       *)
(***************************************************************************)
THEOREM OneMessagePerKey == Spec => []AtMostOncePerKey
<1> QED  BY Invariance, OncePerKey, PTL

(***************************************************************************)
(* An Email is for a message its sender asked to send, though another      *)
(* sender's request may be the one accepted.                               *)
(***************************************************************************)
THEOREM EmailsAreOwn == Spec => []EmailsAreForOwnMessage
<1> QED  BY Invariance, OwnMessage, PTL

(***************************************************************************)
(* idempotent_replayed tells the caller's own acceptance from an earlier.  *)
(***************************************************************************)
THEOREM ReplayTold == Spec => []ReplayFlagIsTrue
<1> QED  BY Invariance, ReplayFlag, PTL

(***************************************************************************)
(* The error invalid_idempotent_request is final for senders whose body    *)
(* does not change from try to try, requests still on their way included.  *)
(***************************************************************************)
THEOREM InvalidIsFinalTheorem == Spec => []InvalidMeansNeverAccepted
<1> QED  BY Invariance, InvalidIsFinal, PTL

(***************************************************************************)
(* The senders, the network and the server implement SendOnce.             *)
(***************************************************************************)
\* What every sender was told, as the abstract specification records it.
ToldTo == [s \in Senders |-> ToldBy(s)]

LEMMA MadeOwn == ASSUME TypeOK, NEW m, Made(m) PROVE m \in OwnRequests
<1>1. m.sender \in Senders /\ m.try \in Nat /\ m.try >= 1 /\ m = Request(m.sender, m.try)
  BY MadeShape DEF Made
<1>2. m.try <= sender[m.sender].tries /\ sender[m.sender].tries <= TriesOf[m.sender]
  BY <1>1 DEF Made, TypeOK
<1>3. sender[m.sender].tries \in Nat /\ TriesOf[m.sender] \in Nat
  <2>1. sender[m.sender] \in SenderStates
    BY <1>1 DEF TypeOK
  <2> QED  BY <1>1, <2>1, TriesAssumption DEF SenderStates, Tries
<1>4. m.try \in 1..TriesOf[m.sender]
  BY <1>1, <1>2, <1>3
<1> QED  BY <1>1, <1>4 DEF OwnRequests

\* The callers' steps: only a call that stops its sender tells it something.
LEMMA SettleTells ==
    ASSUME TypeOK, TypeOK', EmailsAreForOwnMessage', accepted \subseteq OwnRequests,
           NEW s \in Senders, NEW outcome, NEW message,
           sender[s].phase = "waiting", Settle(s, outcome, message), UNCHANGED accepted
    PROVE  [Once!Next]_<<accepted, ToldTo>>
<1>3. /\ ToldTo[s] = Once!Nothing
      /\ \A o \in Senders \ {s} : sender'[o] = sender[o]
  BY DEF ToldTo, ToldBy, Told, Once!Nothing, Settle, TypeOK
<1>4. ToldTo' = [ToldTo EXCEPT ![s] = ToldBy(s)']
  BY <1>3 DEF ToldTo, ToldBy, Told
<1>5. CASE sender'[s].phase # "stopped"
  <2>1. ToldBy(s)' = Once!Nothing
    BY <1>5 DEF ToldBy, Told, Once!Nothing
  <2> QED  BY <1>3, <1>4, <2>1 DEF ToldTo
<1>6. CASE sender'[s].phase = "stopped" /\ IsEmail(sender'[s].last)
  <2>1. PICK m : m = sender'[s].message
    OBVIOUS
  <2>2. m \in accepted /\ Asks(s, m)
    BY <1>6, <2>1 DEF EmailsAreForOwnMessage, IsEmail, Asks
  <2>3. ToldBy(s)' = Once!Email(m)
    BY <1>6, <2>1 DEF ToldBy, Told, IsEmail, Once!Email
  <2>4. m \in OwnRequests
    BY <2>2
  <2> QED  BY <1>3, <1>4, <2>2, <2>3, <2>4 DEF Once!Next, Once!Acknowledge, ToldTo
<1>7. CASE sender'[s].phase = "stopped" /\ ~IsEmail(sender'[s].last)
  <2>1. ToldBy(s)' = Once!Failure
    BY <1>7 DEF ToldBy, Told, IsEmail, Once!Failure
  <2> QED  BY <1>3, <1>4, <2>1 DEF Once!Next, Once!GiveUp, ToldTo
<1> QED  BY <1>5, <1>6, <1>7

\* The server's steps: a message is accepted under a key that has none.
LEMMA AcceptOnce ==
    ASSUME TypeOK, AtMostOncePerKey', NEW m \in OwnRequests, m \notin accepted,
           accepted' = accepted \cup {m}, UNCHANGED sender
    PROVE  [Once!Next]_<<accepted, ToldTo>>
<1>1. ToldTo' = ToldTo
  BY DEF ToldTo, ToldBy, Told
<1>2. ASSUME NEW n \in accepted PROVE UnderKey(n) # UnderKey(m)
  <2>1. n # m /\ n \in accepted' /\ m \in accepted'
    BY <1>2
  <2>2. ~(KeyOf[m.sender] = KeyOf[n.sender] /\ KeyOf[m.sender] # None)
    BY <2>1 DEF AtMostOncePerKey
  <2> QED  BY <2>1, <2>2 DEF UnderKey
<1>3. Once!Accept(m)
  BY <1>1, <1>2 DEF Once!Accept, ToldTo
<1> QED  BY <1>3 DEF Once!Next

LEMMA StepOnce ==
    ASSUME IInv, TypeOK', AtMostOncePerKey', EmailsAreForOwnMessage', [Next]_vars
    PROVE  [Once!Next]_<<accepted, ToldTo>>
<1>1. TypeOK /\ accepted \subseteq OwnRequests
  BY MadeOwn DEF IInv, RequestsInv
<1>2. ASSUME NEW s \in Senders, Attempt(s) PROVE [Once!Next]_<<accepted, ToldTo>>
  <2>1. \A o \in Senders : Told(o)' = Told(o) /\ (Told(o) => sender'[o] = sender[o])
    BY <1>1, <1>2 DEF Attempt, Told, TypeOK, SenderStates
  <2>2. ToldTo' = ToldTo
    BY <2>1 DEF ToldTo, ToldBy, Told
  <2> QED  BY <1>2, <2>2 DEF Attempt
<1>3. ASSUME NEW s \in Senders, Receive(s) \/ TimeOut(s) PROVE [Once!Next]_<<accepted, ToldTo>>
  <2>1. PICK outcome, message : Settle(s, outcome, message)
    BY <1>3 DEF Receive, TimeOut
  <2>2. sender[s].phase = "waiting" /\ UNCHANGED accepted
    BY <1>3 DEF Receive, TimeOut
  <2> QED  BY <1>1, <2>1, <2>2, SettleTells
<1>4. ASSUME NEW m \in inbox, AcceptUnkeyed(m) PROVE [Once!Next]_<<accepted, ToldTo>>
  <2>1. m \in OwnRequests /\ m \notin accepted
    BY <1>1, MadeOwn DEF IInv, RequestsInv
  <2> QED  BY <1>1, <1>4, <2>1, AcceptOnce DEF AcceptUnkeyed
<1>5. ASSUME NEW k \in Keys, Commit(k) PROVE [Once!Next]_<<accepted, ToldTo>>
  <2>1. PICK m : m = store[k].by
    OBVIOUS
  <2>2. m \in OwnRequests /\ m \notin accepted
    <3>1. store[k].state = "running" /\ StoreInv
      BY <1>5 DEF Commit, IInv
    <3>2. Made(m) /\ m.header = k
      BY <2>1, <3>1 DEF StoreInv
    <3>3. \A n \in accepted : n.header # k
      BY <3>1 DEF StoreInv
    <3> QED  BY <1>1, <3>2, <3>3, MadeOwn
  <2>3. accepted' = accepted \cup {m} /\ UNCHANGED sender
    BY <1>5, <2>1 DEF Commit
  <2> QED  BY <1>1, <2>2, <2>3, AcceptOnce
<1>6. CASE UNCHANGED <<sender, accepted>>
  BY <1>6 DEF ToldTo, ToldBy, Told
<1>7. ASSUME NEW m \in inbox, Claim(m) \/ Limit(m) \/ ConflictRunning(m) \/ AnswerUsed(m)
      PROVE  UNCHANGED <<sender, accepted>>
  BY <1>7 DEF Claim, Limit, ConflictRunning, AnswerUsed
<1>8. ASSUME NEW k \in Keys, Abort(k) PROVE UNCHANGED <<sender, accepted>>
  BY <1>8 DEF Abort
<1>9. CASE UNCHANGED vars
  BY <1>6, <1>9 DEF vars
<1> QED  BY <1>2, <1>3, <1>4, <1>5, <1>6, <1>7, <1>8, <1>9 DEF Next, Handle

(***************************************************************************)
(* Senders, network and server together implement SendOnce: each step that *)
(* accepts a message is its Accept, and each call that stops its sender is *)
(* an Acknowledge or a GiveUp; all others change nothing it sees.          *)
(***************************************************************************)
THEOREM SendsOnceTheorem == Spec => SendsOnce
<1>1. Init => Once!Init
  BY DEF Init, Once!Init, ToldBy, Told, Once!Nothing
<1>2. IInv /\ IInv' /\ [Next]_vars => [Once!Next]_<<accepted, ToldTo>>
  <2>1. IInv => TypeOK /\ AtMostOncePerKey /\ EmailsAreForOwnMessage
    BY OncePerKey, OwnMessage DEF IInv
  <2>2. IInv' => TypeOK' /\ AtMostOncePerKey' /\ EmailsAreForOwnMessage'
    BY <2>1, PTL
  <2> QED  BY <2>2, StepOnce
<1>3. [Once!Next]_<<accepted, ToldTo>> <=> [Once!Next]_Once!vars
  BY DEF Once!vars, ToldTo
<1> QED  BY <1>1, <1>2, <1>3, Invariance, PTL DEF Spec, SendsOnce, Once!Spec

(***************************************************************************)
(* Why every sender is told: its tries are bounded, and each of its steps  *)
(* brings it nearer to its end.                                            *)
(***************************************************************************)
OwnStep(s) == Attempt(s) \/ Receive(s) \/ TimeOut(s)

StepsLeft(s) ==
    CASE sender[s].phase = "ready"   -> 2 * (TriesOf[s] - sender[s].tries)
      [] sender[s].phase = "waiting" -> 2 * (TriesOf[s] - sender[s].tries) + 1
      [] sender[s].phase = "stopped" -> 0

LEMMA TriesLeft ==
    ASSUME IInv, NEW s \in Senders
    PROVE  /\ sender[s].tries \in Nat /\ TriesOf[s] \in Nat
           /\ TriesOf[s] - sender[s].tries \in Nat
           /\ sender[s].phase \in {"ready", "waiting", "stopped"}
           /\ StepsLeft(s) \in Nat
           /\ StepsLeft(s) = 0 <=> Told(s)
<1>1. sender[s] \in SenderStates /\ sender[s].tries <= TriesOf[s]
  BY DEF IInv, TypeOK
<1>2. sender[s].tries \in Nat /\ TriesOf[s] \in Nat
  BY <1>1, TriesAssumption DEF SenderStates, Tries
<1>3. sender[s].phase \in {"ready", "waiting", "stopped"}
  BY <1>1 DEF SenderStates
<1>4. sender[s].phase = "ready" => sender[s].tries < TriesOf[s]
  BY DEF IInv, SendersInv
<1>5. PICK left \in Int : left = TriesOf[s] - sender[s].tries
  BY <1>2
<1>6. left \in Nat /\ (sender[s].phase = "ready" => left > 0)
  BY <1>1, <1>2, <1>4, <1>5
<1> QED  BY <1>2, <1>3, <1>5, <1>6 DEF StepsLeft, Told

LEMMA OwnStepCounts ==
    ASSUME IInv, IInv', NEW s \in Senders, OwnStep(s)
    PROVE  StepsLeft(s)' < StepsLeft(s)
<1>1. PICK t, n : t = sender[s].tries /\ n = TriesOf[s]
  OBVIOUS
<1>2. t \in Nat /\ n \in Nat /\ n - t \in Nat /\ sender \in [Senders -> SenderStates]
  BY <1>1, TriesLeft DEF IInv, TypeOK
<1>3. CASE Attempt(s)
  <2>1. /\ sender[s].phase = "ready"
        /\ sender'[s].phase = "waiting" /\ sender'[s].tries = t + 1
    BY <1>1, <1>2, <1>3 DEF Attempt, SenderStates
  <2>2. StepsLeft(s) = 2 * (n - t) /\ StepsLeft(s)' = 2 * (n - (t + 1)) + 1
    BY <1>1, <2>1 DEF StepsLeft
  <2> QED  BY <1>2, <2>2
<1>4. CASE Receive(s) \/ TimeOut(s)
  <2>1. /\ sender[s].phase = "waiting"
        /\ sender'[s].phase \in {"ready", "stopped"} /\ sender'[s].tries = t
    <3>1. PICK outcome, message : Settle(s, outcome, message)
      BY <1>4, Zenon DEF Receive, TimeOut
    <3>2. PICK phase, m :
              /\ phase = IF RetryLater(outcome) /\ sender[s].tries < TriesOf[s]
                         THEN "ready" ELSE "stopped"
              /\ m = IF IsEmail(outcome) THEN message ELSE NoMessage
      OBVIOUS
    <3>3. sender' = [ sender EXCEPT ![s].phase = phase, ![s].last = outcome, ![s].message = m ]
      BY <3>1, <3>2 DEF Settle
    <3>4. phase \in {"ready", "stopped"}
      BY <3>2
    <3>5. sender[s].phase = "waiting"
      BY <1>4 DEF Receive, TimeOut
    <3> QED  BY <1>1, <1>2, <3>3, <3>4, <3>5 DEF SenderStates
  <2>2. StepsLeft(s) = 2 * (n - t) + 1 /\ StepsLeft(s)' \in {2 * (n - t), 0}
    BY <1>1, <2>1 DEF StepsLeft
  <2> QED  BY <1>2, <2>2
<1> QED  BY <1>3, <1>4 DEF OwnStep

(***************************************************************************)
(* The caller's loop around send ends: each of a sender's own steps leaves  *)
(* it fewer to take, no other sender and nothing the server does takes it  *)
(* back, and it has none left exactly when it was told an outcome.          *)
(* (EverySenderIsTold, but for the fairness.)                              *)
(***************************************************************************)
NoneLeftWhenTold ==
    \A s \in Senders : StepsLeft(s) \in Nat /\ (StepsLeft(s) = 0 <=> Told(s))

OnlyOwnStepsCount ==
    \A s \in Senders :
        IF OwnStep(s) THEN StepsLeft(s)' < StepsLeft(s) ELSE UNCHANGED StepsLeft(s)

THEOREM SendersProgress == Spec => []NoneLeftWhenTold /\ [][OnlyOwnStepsCount]_vars
<1>1. IInv => NoneLeftWhenTold
  BY TriesLeft DEF NoneLeftWhenTold
<1>2. ASSUME IInv, IInv', Next, NEW s \in Senders
      PROVE  IF OwnStep(s) THEN StepsLeft(s)' < StepsLeft(s) ELSE UNCHANGED StepsLeft(s)
  <2>1. CASE OwnStep(s)
    BY <1>2, <2>1, OwnStepCounts
  <2>2. CASE ~OwnStep(s)
    <3>1. sender'[s] = sender[s]
      <4>1. ASSUME NEW other \in Senders, OwnStep(other) PROVE sender'[s] = sender[s]
        <5>1. other # s /\ sender \in [Senders -> SenderStates]
          BY <1>2, <2>2, <4>1 DEF IInv, TypeOK
        <5> QED  BY <4>1, <5>1 DEF OwnStep, Attempt, Receive, TimeOut, Settle
      <4>2. ASSUME NEW m \in inbox, Handle(m) PROVE sender' = sender
        BY <4>2 DEF Handle, AcceptUnkeyed, Claim, Limit, ConflictRunning, AnswerUsed
      <4>3. ASSUME NEW k \in Keys, Commit(k) \/ Abort(k) PROVE sender' = sender
        BY <4>3 DEF Commit, Abort
      <4> QED  BY <1>2, <4>1, <4>2, <4>3 DEF Next, OwnStep
    <3> QED  BY <2>2, <3>1 DEF StepsLeft
  <2> QED  BY <2>1, <2>2
<1>3. IInv /\ IInv' /\ [Next]_vars => [OnlyOwnStepsCount]_vars
  BY <1>2 DEF OnlyOwnStepsCount
<1> QED  BY <1>1, <1>3, Invariance, PTL DEF Spec
==============================================================================
