------------------------ MODULE ScheduledEmailsProofs ------------------------
(***************************************************************************)
(* Proofs about module ScheduledEmails, for any callers, emails,           *)
(* identifiers, menus of calls and length of time.                         *)
(***************************************************************************)
EXTENDS ScheduledEmails, ResponsesProofs, SequenceTheorems

(***************************************************************************)
(* Paths.                                                                  *)
(***************************************************************************)
LEMMA OneSegment ==
    ASSUME NEW a
    PROVE  /\ Len(<<a>>) = 1
           /\ Front(<<a>>) = << >>
           /\ \A x : Append(Front(<<a>>), x) = <<x>>
<1>1. Len(<<a>>) = 1
  OBVIOUS
<1>2. Front(<<a>>) = << >>
  BY <1>1, SubSeqEmpty DEF Front
<1>3. ASSUME NEW x PROVE Append(<< >>, x) = <<x>>
  <2>1. << >> \in Seq({x}) /\ <<x>> \in Seq({x}) /\ Len(<<x>>) = 1 /\ <<x>>[1] = x
        /\ Len(<< >>) = 0
    OBVIOUS
  <2>2. Append(<< >>, x) \in Seq({x}) /\ Len(Append(<< >>, x)) = 1 /\ Append(<< >>, x)[1] = x
    BY <2>1, AppendProperties
  <2> QED  BY <2>1, <2>2, SeqEqual
<1> QED  BY <1>1, <1>2, <1>3

\* A sequence is known by its length and its elements.
LEMMA AppendFacts ==
    ASSUME NEW S, NEW s \in Seq(S), NEW x \in S, NEW n \in Nat, Len(s) = n
    PROVE  /\ Append(s, x) \in Seq(S) /\ Len(Append(s, x)) = n + 1
           /\ \A i \in 1..n : Append(s, x)[i] = s[i]
           /\ Append(s, x)[n + 1] = x
OBVIOUS

LEMMA TwoSegments ==
    ASSUME NEW a, NEW b
    PROVE  /\ Append(<<a>>, b) = <<a, b>>
           /\ Len(<<a, b>>) = 2
           /\ Last(<<a, b>>) = b
           /\ Front(<<a, b>>) = <<a>>
<1>1. PICK one, two, S : one = <<a>> /\ two = <<a, b>> /\ S = {a, b}
  OBVIOUS
<1>2. /\ one \in Seq(S) /\ Len(one) = 1 /\ one[1] = a
      /\ two \in Seq(S) /\ Len(two) = 2 /\ two[1] = a /\ two[2] = b
      /\ b \in S
  BY <1>1
<1>3. SubSeq(two, 1, 1) = one
  <2>1. PICK t : t = SubSeq(two, 1, 1)
    OBVIOUS
  <2>2. t \in Seq(S) /\ Len(t) = 1 /\ t[1] = two[1]
    <3>1. \A i \in 1..1 : two[i] \in S
      BY <1>2
    <3> QED  BY <2>1, <3>1, SubSeqProperties
  <2>3. t = one
    BY <1>2, <2>2, SeqEqual
  <2> QED  BY <2>1, <2>3
<1>4. Append(one, b) = two
  <2>1. PICK t : t = Append(one, b)
    OBVIOUS
  <2>2. /\ t \in Seq(S) /\ Len(t) = 2 /\ t[1] = a /\ t[2] = b
    BY <1>2, <2>1, AppendFacts
  <2>3. t = two
    BY <1>2, <2>2, SeqEqual
  <2> QED  BY <2>1, <2>3
<1>5. Front(two) = one /\ Last(two) = b
  BY <1>2, <1>3 DEF Front, Last
<1> QED  BY <1>1, <1>2, <1>4, <1>5

LEMMA ThreeSegments ==
    ASSUME NEW a, NEW b, NEW c
    PROVE  /\ Append(<<a, b>>, c) = <<a, b, c>>
           /\ Len(<<a, b, c>>) = 3
           /\ Last(<<a, b, c>>) = c
           /\ Front(<<a, b, c>>) = <<a, b>>
<1>1. PICK two, three, S : two = <<a, b>> /\ three = <<a, b, c>> /\ S = {a, b, c}
  OBVIOUS
<1>2. /\ two \in Seq(S) /\ Len(two) = 2 /\ two[1] = a /\ two[2] = b
      /\ three \in Seq(S) /\ Len(three) = 3
      /\ three[1] = a /\ three[2] = b /\ three[3] = c
      /\ c \in S
  BY <1>1
<1>3. SubSeq(three, 1, 2) = two
  <2>1. PICK t : t = SubSeq(three, 1, 2)
    OBVIOUS
  <2>2. t \in Seq(S) /\ Len(t) = 2 /\ t[1] = three[1] /\ t[2] = three[2]
    <3>1. \A i \in 1..2 : three[i] \in S
      BY <1>2
    <3> QED  BY <2>1, <3>1, SubSeqProperties
  <2>3. t = two
    BY <1>2, <2>2, SeqEqual
  <2> QED  BY <2>1, <2>3
<1>4. Append(two, c) = three
  <2>1. PICK t : t = Append(two, c)
    OBVIOUS
  <2>2. /\ t \in Seq(S) /\ Len(t) = 3 /\ t[1] = a /\ t[2] = b /\ t[3] = c
    BY <1>2, <2>1, AppendFacts
  <2>3. t = three
    BY <1>2, <2>2, SeqEqual
  <2> QED  BY <2>1, <2>3
<1>5. Front(three) = two /\ Last(three) = c
  BY <1>2, <1>3 DEF Front, Last
<1> QED  BY <1>1, <1>2, <1>4, <1>5

\* Paths of one, two and three segments are told apart.
LEMMA PathsDiffer ==
    ASSUME NEW a, NEW b, NEW c, NEW d
    PROVE  /\ <<a, b>> # <<d>> /\ <<a, b, c>> # <<d>>
           /\ a # d => <<a>> # <<d>>
<1>1. PICK one : one = <<d>>
  OBVIOUS
<1>2. Len(one) = 1 /\ one[1] = d
  BY <1>1
<1>3. one # <<a, b>>
  BY <1>2
<1>4. one # <<a, b, c>>
  BY <1>2
<1>5. a # d => one # <<a>>
  BY <1>2
<1> QED  BY <1>1, <1>3, <1>4, <1>5

\* Where the path of an email leads, whatever the identifier.
LEMMA ItemRoute ==
    ASSUME NEW id
    PROVE  LET route == Route(UrlJoin(ItemPath(SCHEDULED_PATH, id)))
           IN  /\ route.kind \in {"item", "list", "none"}
               /\ route.kind = "item" => route.id = id
               /\ id \notin {"", ".", ".."} => route.kind = "item"
<1>1. PICK head, void, send : head = "scheduled-emails" /\ void = "" /\ send = "emails"
  OBVIOUS
<1>9. void # send
  BY <1>1
<1>2. SCHEDULED_PATH = <<head>> /\ <<"emails">> = <<send>>
  BY <1>1 DEF SCHEDULED_PATH
<1>3. PICK path : path = ItemPath(SCHEDULED_PATH, id)
  OBVIOUS
<1>4. path = <<head, id>>
  BY <1>2, <1>3, TwoSegments DEF ItemPath
<1>5. Last(path) = id /\ Front(path) = <<head>> /\ Len(path) = 2
  BY <1>4, TwoSegments
<1>6. CASE id = "."
  <2>1. PICK joined : joined = UrlJoin(path)
    OBVIOUS
  <2>2. joined = <<head, void>>
    <3>1. joined = Append(Front(path), void)
      BY <1>1, <1>5, <1>6, <2>1 DEF UrlJoin
    <3> QED  BY <1>5, <3>1, TwoSegments
  <2>3. joined # <<send>> /\ Len(joined) = 2 /\ Last(joined) = void /\ Front(joined) = <<head>>
    BY <2>2, TwoSegments, PathsDiffer
  <2>4. Route(joined) = [kind |-> "list"]
    BY <1>1, <1>2, <2>3 DEF Route
  <2> QED  BY <1>3, <1>6, <2>1, <2>4
<1>7. CASE id = ".."
  <2>1. PICK joined : joined = UrlJoin(path)
    OBVIOUS
  <2>2. joined = <<void>>
    <3>1. joined = Append(Front(Front(path)), void)
      BY <1>1, <1>5, <1>7, <2>1 DEF UrlJoin
    <3> QED  BY <1>5, <3>1, OneSegment
  <2>3. joined # <<send>> /\ Len(joined) = 1
    BY <1>9, <2>2, OneSegment, PathsDiffer
  <2>4. Route(joined) = [kind |-> "none"]
    BY <1>2, <2>3 DEF Route
  <2> QED  BY <1>3, <1>7, <2>1, <2>4
<1>8. CASE id \notin {".", ".."}
  <2>1. UrlJoin(path) = path
    BY <1>5, <1>8 DEF UrlJoin
  <2>2. path # <<send>>
    BY <1>4, PathsDiffer
  <2>3. path # <<"emails">> /\ Len(path) = 2 /\ Front(path) = SCHEDULED_PATH
    BY <1>2, <1>5, <2>2
  <2>4. PICK route : route = Route(path)
    OBVIOUS
  <2>5. CASE id = ""
    <3>1. route = [kind |-> "list"]
      BY <1>5, <2>3, <2>4, <2>5 DEF Route
    <3>2. route.kind = "list"
      BY <3>1
    <3> QED  BY <1>3, <2>1, <2>4, <2>5, <3>2
  <2>6. CASE id # ""
    <3>1. Last(path) # ""
      BY <1>5, <2>6
    <3>2. route = [kind |-> "item", id |-> Last(path)]
      <4>1. Len(path) # 3 /\ path # <<"emails">>
        BY <2>3
      <4> QED  BY <2>3, <2>4, <3>1, <4>1 DEF Route
    <3>3. route.kind = "item" /\ route.id = id
      BY <1>5, <3>2
    <3> QED  BY <1>3, <2>1, <2>4, <3>3
  <2> QED  BY <2>5, <2>6
<1> QED  BY <1>6, <1>7, <1>8

\* Where the path of a batch leads.
LEMMA BatchRoute ==
    ASSUME NEW id
    PROVE  LET route == Route(UrlJoin(ItemPath(BATCH_PATH, id)))
           IN  /\ route.kind \in {"batch", "list", "none"}
               /\ route.kind = "batch" => route.id = id
<1>1. PICK head, next, void, send :
          head = "scheduled-emails" /\ next = "batches" /\ void = "" /\ send = "emails"
  OBVIOUS
<1>2. SCHEDULED_PATH = <<head>> /\ BATCH_PATH = <<head, next>> /\ <<"emails">> = <<send>>
  BY <1>1 DEF SCHEDULED_PATH, BATCH_PATH
<1>3. PICK path : path = ItemPath(BATCH_PATH, id)
  OBVIOUS
<1>4. path = <<head, next, id>>
  BY <1>2, <1>3, ThreeSegments DEF ItemPath
<1>5. /\ Last(path) = id /\ Front(path) = <<head, next>> /\ Len(path) = 3
      /\ Front(Front(path)) = <<head>>
  <2>1. Last(path) = id /\ Front(path) = <<head, next>> /\ Len(path) = 3
    BY <1>4, ThreeSegments
  <2>2. Front(<<head, next>>) = <<head>>
    BY TwoSegments
  <2> QED  BY <2>1, <2>2
<1>6. CASE id = "."
  <2>1. PICK joined : joined = UrlJoin(path)
    OBVIOUS
  <2>2. joined = <<head, next, void>>
    <3>1. joined = Append(Front(path), void)
      BY <1>1, <1>5, <1>6, <2>1 DEF UrlJoin
    <3> QED  BY <1>5, <3>1, ThreeSegments
  <2>3. joined # <<send>> /\ Len(joined) = 3 /\ Last(joined) = void
    <3>1. joined # <<send>>
      BY <2>2, PathsDiffer
    <3>2. Len(joined) = 3 /\ Last(joined) = void
      BY <2>2, ThreeSegments
    <3> QED  BY <3>1, <3>2
  <2>4. Route(joined) = [kind |-> "none"]
    <3>1. joined # <<"emails">>
      BY <1>2, <2>3
    <3>2. Len(joined) # 2
      BY <2>3
    <3>3. Last(joined) = ""
      BY <1>1, <2>3
    <3> QED  BY <3>1, <3>2, <3>3 DEF Route
  <2> QED  BY <1>3, <1>6, <2>1, <2>4
<1>7. CASE id = ".."
  <2>1. PICK joined : joined = UrlJoin(path)
    OBVIOUS
  <2>2. joined = <<head, void>>
    <3>1. joined = Append(Front(Front(path)), void)
      BY <1>1, <1>5, <1>7, <2>1 DEF UrlJoin
    <3> QED  BY <1>5, <3>1, TwoSegments
  <2>3. joined # <<send>> /\ Len(joined) = 2 /\ Last(joined) = void /\ Front(joined) = <<head>>
    BY <2>2, TwoSegments, PathsDiffer
  <2>4. Route(joined) = [kind |-> "list"]
    BY <1>1, <1>2, <2>3 DEF Route
  <2> QED  BY <1>3, <1>7, <2>1, <2>4
<1>8. CASE id \notin {".", ".."}
  <2>1. UrlJoin(path) = path
    BY <1>5, <1>8 DEF UrlJoin
  <2>2. path # <<send>>
    BY <1>4, PathsDiffer
  <2>3. path # <<"emails">> /\ Len(path) = 3 /\ Len(path) # 2 /\ Front(path) = BATCH_PATH
    BY <1>2, <1>5, <2>2
  <2>4. CASE id = ""
    <3>1. Route(path) = [kind |-> "none"]
      BY <1>5, <2>3, <2>4 DEF Route
    <3> QED  BY <1>3, <2>1, <3>1
  <2>5. CASE id # ""
    <3>1. Route(path) = [kind |-> "batch", id |-> id]
      BY <1>5, <2>3, <2>5 DEF Route
    <3> QED  BY <1>3, <2>1, <3>1
  <2> QED  BY <2>4, <2>5
<1> QED  BY <1>6, <1>7, <1>8

LEMMA SendRoute == Route(UrlJoin(<<"emails">>)) = [kind |-> "send"]
<1>1. Last(<<"emails">>) = "emails"
  BY DEF Last
<1> QED  BY <1>1 DEF UrlJoin, Route

(***************************************************************************)
(* A request is about what its call names: the escaped identifier either    *)
(* leads to the email or batch it names, or to a route with no such method. *)
(***************************************************************************)
Method(verb) ==
    CASE verb = "schedule" -> "POST"
      [] verb = "get" -> "GET"
      [] verb \in {"update", "batches.update"} -> "PATCH"
      [] OTHER -> "DELETE"

LEMMA WireFacts ==
    ASSUME NEW m \in Requests
    PROVE  LET req == Wire(m)
               route == Route(req.path)
           IN  /\ req.due \in 0..Horizon /\ req.batch \in Ids \cup {None}
               /\ req.method = Method(m.call.verb)
               /\ m.call.verb \in {"schedule", "update", "batches.update"} => req.due = m.call.due
               /\ m.call.verb \in {"schedule", "update"} => req.batch = m.call.batch
               /\ m.call.verb = "batches.update" => req.batch = None
               /\ m.call.verb = "schedule" => route.kind = "send"
               /\ m.call.verb \in {"get", "update", "cancel"} =>
                      route.kind \in {"item", "list", "none"}
               /\ m.call.verb \in {"batches.update", "batches.cancel"} =>
                      route.kind \in {"batch", "list", "none"}
               /\ route.kind \in {"item", "batch"} => route.id = m.call.id
               /\ m.call.verb = "cancel" /\ m.call.id \in EmailIds =>
                      route.kind = "item"
<1> DEFINE call == m.call
<1>1. /\ call.verb \in Verbs /\ call.due \in 0..Horizon /\ call.batch \in Ids \cup {None}
      /\ 0 \in 0..Horizon /\ None \in Ids \cup {None}
  BY HorizonAssumption DEF Requests, CallSet
<1> DEFINE spec == SpecOf(call)
<1>2. Wire(m) = [spec EXCEPT !.path = UrlJoin(@)]
  BY DEF Wire
<1>3. CASE call.verb = "schedule"
  <2>1. spec = RequestSpec("POST", <<"emails">>, call.due, call.batch)
    BY <1>3 DEF SpecOf, SendSpec
  <2>2. /\ Wire(m).path = UrlJoin(<<"emails">>) /\ Wire(m).method = "POST"
        /\ Wire(m).due = call.due /\ Wire(m).batch = call.batch
    BY <1>2, <2>1 DEF RequestSpec
  <2>3. Method(call.verb) = "POST"
    BY <1>3 DEF Method
  <2>4. Route(Wire(m).path).kind = "send"
    BY <2>2, SendRoute
  <2> QED  BY <1>1, <1>3, <2>2, <2>3, <2>4
<1>4. CASE call.verb \in {"get", "update", "cancel"}
  <2>1. PICK method \in {"GET", "PATCH", "DELETE"}, due \in 0..Horizon, batch \in Ids \cup {None} :
            /\ spec = RequestSpec(method, ItemPath(SCHEDULED_PATH, call.id), due, batch)
            /\ method = Method(call.verb)
            /\ call.verb = "update" => due = call.due /\ batch = call.batch
    BY <1>1, <1>4 DEF SpecOf, GetSpec, UpdateSpec, CancelSpec, Method
  <2>2. /\ Wire(m).path = UrlJoin(ItemPath(SCHEDULED_PATH, call.id)) /\ Wire(m).method = method
        /\ Wire(m).due = due /\ Wire(m).batch = batch
    BY <1>2, <2>1 DEF RequestSpec
  <2>3. PICK route : route = Route(Wire(m).path)
    OBVIOUS
  <2>4. /\ route.kind \in {"item", "list", "none"}
        /\ route.kind = "item" => route.id = call.id
        /\ call.id \notin {"", ".", ".."} => route.kind = "item"
    <3>1. PICK id : id = call.id
      OBVIOUS
    <3>2. route = Route(UrlJoin(ItemPath(SCHEDULED_PATH, id)))
      BY <2>2, <2>3, <3>1
    <3>3. /\ route.kind \in {"item", "list", "none"}
          /\ route.kind = "item" => route.id = id
          /\ id \notin {"", ".", ".."} => route.kind = "item"
      BY <3>2, ItemRoute
    <3> QED  BY <3>1, <3>3
  <2>5. call.id \in EmailIds => call.id \notin {"", ".", ".."}
    BY IdsAssumption
  <2> QED  BY <1>4, <2>1, <2>2, <2>3, <2>4, <2>5
<1>5. CASE call.verb \in {"batches.update", "batches.cancel"}
  <2>1. PICK method \in {"PATCH", "DELETE"}, due \in 0..Horizon, batch \in Ids \cup {None} :
            /\ spec = RequestSpec(method, ItemPath(BATCH_PATH, call.id), due, batch)
            /\ method = Method(call.verb)
            /\ call.verb = "batches.update" => due = call.due /\ batch = None
    BY <1>1, <1>5 DEF SpecOf, BatchUpdateSpec, BatchCancelSpec, Method
  <2>2. /\ Wire(m).path = UrlJoin(ItemPath(BATCH_PATH, call.id)) /\ Wire(m).method = method
        /\ Wire(m).due = due /\ Wire(m).batch = batch
    BY <1>2, <2>1 DEF RequestSpec
  <2>3. PICK route : route = Route(Wire(m).path)
    OBVIOUS
  <2>4. route.kind \in {"batch", "list", "none"} /\ (route.kind = "batch" => route.id = call.id)
    <3>1. PICK id : id = call.id
      OBVIOUS
    <3>2. route = Route(UrlJoin(ItemPath(BATCH_PATH, id)))
      BY <2>2, <2>3, <3>1
    <3>3. route.kind \in {"batch", "list", "none"} /\ (route.kind = "batch" => route.id = id)
      BY <3>2, BatchRoute
    <3> QED  BY <3>1, <3>3
  <2> QED  BY <1>5, <2>1, <2>2, <2>3, <2>4
<1> QED  BY <1>1, <1>3, <1>4, <1>5 DEF Verbs

(***************************************************************************)
(* Answers.                                                                *)
(***************************************************************************)
LEMMA ModelTypes ==
    ASSUME NEW verb \in Verbs PROVE ModelOf(verb) \in Models \cup {"send"}
BY AnswersAssumption DEF Verbs, ModelOf

LEMMA AnswerShape ==
    ASSUME NEW status \in {200, 404, 422, 429, 500}, NEW body \in Bodies
    PROVE  AnswerWith(status, body) \in Responses
<1>1. status \in Statuses
  BY AnswersAssumption
<1>2. [retryAfter |-> "absent", requestId |-> "absent", replayed |-> "absent"] \in Headers
  BY DEF Headers
<1> QED  BY <1>1, <1>2 DEF AnswerWith, Responses

LEMMA BodyShapes ==
    /\ Unreadable \in Bodies
    /\ \A kind : ResultBody(kind) \in Bodies
    /\ \A name \in ErrorNames : ErrorBody(name) \in Bodies
<1>1. Unreadable \in Bodies
  BY DEF Unreadable, Bodies, Fields
<1>2. ASSUME NEW kind PROVE ResultBody(kind) \in Bodies
  <2>1. Lenient \subseteq Models
    BY AnswersAssumption DEF Lenient
  <2>2. CASE kind \in {"send", "item"}
    BY <2>2 DEF ResultBody, Unreadable, Bodies, Fields
  <2>3. CASE kind \notin {"send", "item"}
    BY <2>1, <2>3 DEF ResultBody, Unreadable, Bodies, Fields
  <2> QED  BY <2>2, <2>3
<1>3. ASSUME NEW name \in ErrorNames PROVE ErrorBody(name) \in Bodies
  BY DEF ErrorBody, Unreadable, Bodies, Fields
<1> QED  BY <1>1, <1>2, <1>3

\* A 2xx that json.loads accepts is no API error.
LEMMA OkAnswer ==
    ASSUME NEW model, NEW body, Loads(body)
    PROVE  Process(model, AnswerWith(200, body)).kind \in {"email", "model", "malformed"}
<1> DEFINE resp == AnswerWith(200, body)
<1>1. resp.status = 200 /\ resp.body = body /\ OkStatus(200)
  BY DEF AnswerWith, OkStatus
<1> HIDE DEF resp
<1>2. ProcessResponse(resp).kind \in {"email", "malformed"}
  BY <1>1 DEF ProcessResponse, EmailOf, Malformed
<1>3. ProcessModel(model, resp).kind \in {"model", "malformed"}
  BY <1>1 DEF ProcessModel, Malformed
<1> QED  BY <1>2, <1>3 DEF Process, resp

\* A refusal is an API error with the name the server gave, and a server
\* error exactly if its status is 500.
LEMMA ErrorAnswer ==
    ASSUME NEW model, NEW status \in {404, 422, 429, 500}, NEW name \in ErrorNames
    PROVE  LET outcome == Process(model, AnswerWith(status, ErrorBody(name)))
           IN  /\ outcome.kind = "api_error" /\ outcome.name = name
               /\ status = 500 => outcome.class = "ServerError"
<1> DEFINE body == ErrorBody(name)
           resp == AnswerWith(status, body)
<1>1. body.json = "object" /\ body.name = name
  BY DEF ErrorBody, Unreadable
<1>2. resp.status = status /\ resp.body = body
  BY DEF AnswerWith
<1>3. Loads(resp.body) /\ DecodeJson(resp.body) = resp.body /\ IsDict(resp.body)
  BY <1>1, <1>2 DEF Loads, DecodeJson, IsDict
<1>4. ~OkStatus(resp.status)
  BY <1>2 DEF OkStatus
<1> HIDE DEF resp, body
<1>9. Str(name) = name
  BY NamesAssumption DEF Str
<1>5. Process(model, resp) = ErrorOf(resp)
  BY <1>3, <1>4 DEF Process, ProcessResponse, ProcessModel
<1>6. ErrorOf(resp).kind = "api_error" /\ ErrorOf(resp).name = name
      /\ ErrorOf(resp).class = ErrorClass(status)
  BY <1>1, <1>2, <1>3, <1>9 DEF ErrorOf, RaiseForResponse
<1>7. status = 500 => ErrorClass(status) = "ServerError"
  BY DEF ErrorClass
<1> QED  BY <1>5, <1>6, <1>7 DEF resp, body

(***************************************************************************)
(* The inductive invariant.                                                *)
(***************************************************************************)
Id(m) == <<m.caller, m.n>>

Finals == {"canceled", "sent"}

\* What an outcome says of the call id, to do what call asks for, is true.
Honest(outcome, id, call) ==
    /\ outcome.kind \in {"email", "model", "malformed"} => id \in carried
    /\ outcome.kind # "connection_error" => \A m \in inbox : Id(m) # id
    /\ (outcome.kind = "api_error" /\ outcome.class # "ServerError") =>
          /\ id \notin carried
          /\ outcome.name = "scheduled_email_not_pending" =>
                call.id \in EmailIds /\ email[call.id].status \in Finals
    /\ (outcome.kind = "model" /\ call.verb = "cancel" /\ call.id \in EmailIds) =>
          email[call.id].status = "canceled"

TypesInv ==
    /\ TypeOK
    /\ caller \in [Callers -> CallerStates]
    /\ answer \in [Callers -> Responses \cup {NoAnswer}]
    /\ \A c \in Callers : caller[c].n <= CallsOf[c]

\* A request is in the inbox, or it has been looked at and may be carried out.
CallsInv ==
    /\ \A c \in Callers : caller[c].phase # "idle" => caller[c].call \in CallSet /\ caller[c].n >= 1
    /\ \A m \in inbox :
          /\ m.n <= caller[m.caller].n /\ Id(m) \notin carried
          /\ m.n = caller[m.caller].n => caller[m.caller].call = m.call
    /\ \A m, o \in inbox : Id(m) = Id(o) => m = o
    /\ \A c \in Callers : \A n \in Nat : <<c, n>> \in carried => n <= caller[c].n

AnswersInv ==
    \A c \in Callers :
        answer[c] # NoAnswer =>
            /\ Waiting(c)
            /\ Honest(Process(ModelOf(caller[c].call.verb), answer[c]), LatestId(c), caller[c].call)

OutcomesInv ==
    \A c \in Callers : Told(c) => Honest(caller[c].outcome, LatestId(c), caller[c].call)

IInv == TypesInv /\ CallsInv /\ AnswersInv /\ OutcomesInv /\ CanceledIsNeverSent

LEMMA IdFacts ==
    ASSUME NEW c \in Callers, NEW n \in 1..CallsOf[c]
    PROVE  <<c, n>> \in CallIds
BY DEF CallIds

LEMMA RequestFacts ==
    ASSUME NEW m \in Requests
    PROVE  m.caller \in Callers /\ m.n \in Nat /\ m.call \in CallSet /\ Id(m) \in CallIds
BY DEF Requests, Id

LEMMA InitInv == Init => IInv
<1> SUFFICES ASSUME Init PROVE IInv
  OBVIOUS
<1>1. TypesInv
  <2>1. email \in Schedules /\ now \in 0..Horizon
    BY BeforeAssumption, HorizonAssumption DEF Init
  <2>2. caller \in [Callers -> CallerStates]
    BY DEF Init, CallerStates
  <2>3. answer \in [Callers -> Responses \cup {NoAnswer}]
    BY DEF Init
  <2>4. placed \in [EmailIds -> Places]
    <3>1. \A e \in EmailIds : email[e].batch \in Ids \cup {None}
      BY <2>1 DEF Schedules
    <3>2. \A e \in EmailIds : [NoPlace EXCEPT !.batch = email[e].batch] \in Places
      BY <3>1 DEF NoPlace, Places
    <3> QED  BY <3>2 DEF Init
  <2>5. inbox = {} /\ carried = {} /\ assured = {}
    BY DEF Init
  <2>6. \A c \in Callers : caller[c].n <= CallsOf[c]
    BY CallersAssumption DEF Init
  <2> QED  BY <2>1, <2>2, <2>3, <2>4, <2>5, <2>6 DEF TypesInv, TypeOK
<1>2. CallsInv
  BY DEF Init, CallsInv
<1>3. AnswersInv
  BY DEF Init, AnswersInv
<1>4. OutcomesInv
  BY DEF Init, OutcomesInv, Told
<1>5. CanceledIsNeverSent
  BY DEF Init, CanceledIsNeverSent
<1> QED  BY <1>1, <1>2, <1>3, <1>4, <1>5 DEF IInv

(***************************************************************************)
(* What an outcome says stays true: a final status stays, and a call that   *)
(* was refused has no request left that could be carried out.               *)
(***************************************************************************)
FinalsStay ==
    \A e \in EmailIds : email[e].status \in Finals => email'[e].status = email[e].status

LEMMA HonestStays ==
    ASSUME NEW outcome, NEW id, NEW call, Honest(outcome, id, call),
           FinalsStay, carried \subseteq carried',
           (\A m \in inbox : Id(m) # id) =>
               (id \in carried' => id \in carried) /\ \A m \in inbox' : Id(m) # id
    PROVE  Honest(outcome, id, call)'
BY DEF Honest, FinalsStay, Finals

\* A new request is none of those made before.
LEMMA BeginInv ==
    ASSUME IInv, NEW c \in Callers, NEW call \in Menu[c], Begin(c, call)
    PROVE  IInv'
<1> DEFINE n == caller[c].n + 1
           new == [caller |-> c, n |-> n, call |-> call]
           covered == IF call.verb = "batches.cancel"
                      THEN { <<e, placed[e]>> : e \in {f \in EmailIds : placed[f].batch = call.id} }
                      ELSE {}
           alone == inbox = {} /\ \A o \in Callers : ~Waiting(o)
           mine == [ phase |-> "waiting", n |-> n, call |-> call, outcome |-> Pending,
                     alone |-> alone, covered |-> covered ]
<1>1. TypesInv /\ CallsInv /\ AnswersInv /\ OutcomesInv /\ CanceledIsNeverSent
  BY DEF IInv
<1>2. /\ ~Waiting(c) /\ n <= CallsOf[c]
      /\ caller' = [d \in Callers |-> IF d # c THEN [caller[d] EXCEPT !.alone = FALSE] ELSE mine]
      /\ inbox' = inbox \cup {new}
      /\ UNCHANGED <<email, now, answer, carried, placed, assured>>
  BY DEF Begin
<1>3. /\ call \in CallSet /\ caller[c].n \in Nat /\ n \in Nat /\ n \in 1..CallsOf[c]
  <2>1. call \in CallSet /\ CallsOf[c] \in Nat
    BY CallersAssumption
  <2>2. caller[c].n \in Nat
    BY <1>1 DEF TypesInv, CallerStates
  <2> QED  BY <1>2, <2>1, <2>2
<1>4. new \in Requests /\ Id(new) = <<c, n>>
  BY <1>3, IdFacts DEF Requests, Id
<1>5. mine \in CallerStates
  <2>1. covered \in SUBSET (EmailIds \X Places)
    BY <1>1 DEF TypesInv, TypeOK
  <2>2. alone \in BOOLEAN
    OBVIOUS
  <2> HIDE DEF covered, alone
  <2> QED  BY <1>3, <2>1, <2>2 DEF CallerStates
<1> HIDE DEF mine
<1>6. /\ mine.phase = "waiting" /\ mine.n = n /\ mine.call = call
  BY DEF mine
<1>7. ASSUME NEW d \in Callers, d # c
      PROVE  /\ caller'[d] \in CallerStates
             /\ caller'[d].phase = caller[d].phase /\ caller'[d].n = caller[d].n
             /\ caller'[d].call = caller[d].call /\ caller'[d].outcome = caller[d].outcome
  <2>1. caller[d] \in CallerStates /\ caller'[d] = [caller[d] EXCEPT !.alone = FALSE]
    BY <1>1, <1>2, <1>7 DEF TypesInv
  <2> QED  BY <2>1 DEF CallerStates
<1>8. caller'[c] = mine
  BY <1>2
<1> HIDE DEF new
<1>9. TypesInv'
  <2>1. \A d \in Callers : caller'[d] \in CallerStates
    BY <1>5, <1>7, <1>8
  <2>2. caller' \in [Callers -> CallerStates]
    BY <1>2, <2>1
  <2>3. \A d \in Callers : caller'[d].n <= CallsOf[d]
    BY <1>1, <1>3, <1>6, <1>7, <1>8 DEF TypesInv
  <2> QED  BY <1>1, <1>2, <1>4, <2>1, <2>2, <2>3 DEF TypesInv, TypeOK
<1>10. \A m \in inbox : Id(m) # <<c, n>> /\ m.caller \in Callers /\ m.n \in Nat /\ m \in Requests
  <2> SUFFICES ASSUME NEW m \in inbox
               PROVE  Id(m) # <<c, n>> /\ m.caller \in Callers /\ m.n \in Nat /\ m \in Requests
    OBVIOUS
  <2>1. m \in Requests /\ m.n <= caller[m.caller].n
    BY <1>1 DEF TypesInv, TypeOK, CallsInv
  <2>2. m.caller \in Callers /\ m.n \in Nat
    BY <2>1, RequestFacts
  <2>3. ~(m.caller = c /\ m.n = n)
    BY <1>3, <2>1
  <2> QED  BY <2>1, <2>2, <2>3 DEF Id
<1>11. <<c, n>> \notin carried
  BY <1>1, <1>3 DEF CallsInv
<1>12. CallsInv'
  <2>1. \A d \in Callers :
            caller'[d].phase # "idle" => caller'[d].call \in CallSet /\ caller'[d].n >= 1
    BY <1>1, <1>3, <1>6, <1>7, <1>8 DEF CallsInv
  <2>2. ASSUME NEW m \in inbox'
        PROVE  /\ m.n <= caller'[m.caller].n /\ Id(m) \notin carried'
               /\ m.n = caller'[m.caller].n => caller'[m.caller].call = m.call
    <3>1. CASE m = new
      <4>1. m.caller = c /\ m.n = n /\ m.call = call
        BY <3>1 DEF new
      <4> QED  BY <1>2, <1>3, <1>4, <1>6, <1>8, <1>11, <3>1, <4>1
    <3>2. CASE m \in inbox
      <4>1. /\ m.n <= caller[m.caller].n /\ Id(m) \notin carried
            /\ m.n = caller[m.caller].n => caller[m.caller].call = m.call
            /\ m.caller \in Callers /\ m.n \in Nat
        BY <1>1, <1>10, <3>2 DEF CallsInv
      <4>2. CASE m.caller = c
        BY <1>2, <1>3, <1>6, <1>8, <4>1, <4>2
      <4>3. CASE m.caller # c
        BY <1>2, <1>7, <4>1, <4>3
      <4> QED  BY <4>2, <4>3
    <3> QED  BY <1>2, <3>1, <3>2
  <2>3. \A m, o \in inbox' : Id(m) = Id(o) => m = o
    BY <1>1, <1>2, <1>4, <1>10 DEF CallsInv
  <2>4. \A d \in Callers : \A k \in Nat : <<d, k>> \in carried' => k <= caller'[d].n
    <3> SUFFICES ASSUME NEW d \in Callers, NEW k \in Nat, <<d, k>> \in carried
                 PROVE  k <= caller'[d].n
      BY <1>2
    <3>1. k <= caller[d].n
      BY <1>1 DEF CallsInv
    <3> QED  BY <1>3, <1>6, <1>7, <1>8, <3>1
  <2> QED  BY <2>1, <2>2, <2>3, <2>4 DEF CallsInv
<1>13. ASSUME NEW d \in Callers, d # c, NEW outcome, NEW what,
              Honest(outcome, LatestId(d), what)
       PROVE  Honest(outcome, LatestId(d), what)' /\ LatestId(d)' = LatestId(d)
  <2>1. LatestId(d)' = LatestId(d) /\ LatestId(d) # <<c, n>>
    BY <1>7, <1>13 DEF LatestId
  <2>2. PICK id : id = LatestId(d)
    OBVIOUS
  <2>3. Honest(outcome, id, what)'
    <3>1. FinalsStay /\ carried' = carried
      BY <1>2 DEF FinalsStay
    <3>2. (\A m \in inbox : Id(m) # id) => \A m \in inbox' : Id(m) # id
      BY <1>2, <1>4, <2>1, <2>2
    <3>3. Honest(outcome, id, what)
      BY <1>13, <2>2
    <3> QED  BY <3>1, <3>2, <3>3, HonestStays
  <2> QED  BY <2>1, <2>2, <2>3 DEF Honest
<1>14. AnswersInv'
  <2> SUFFICES ASSUME NEW d \in Callers, answer[d] # NoAnswer
               PROVE  /\ Waiting(d)'
                      /\ Honest(Process(ModelOf(caller[d].call.verb), answer[d]),
                                LatestId(d), caller[d].call)'
    BY <1>2 DEF AnswersInv
  <2>1. /\ Waiting(d)
        /\ Honest(Process(ModelOf(caller[d].call.verb), answer[d]), LatestId(d), caller[d].call)
    BY <1>1 DEF AnswersInv
  <2>2. d # c
    BY <1>2, <2>1
  <2>3. Waiting(d)' /\ caller'[d].call = caller[d].call /\ answer'[d] = answer[d]
    BY <1>2, <1>7, <2>1, <2>2 DEF Waiting
  <2>4. PICK outcome, what : outcome = Process(ModelOf(caller[d].call.verb), answer[d])
                             /\ what = caller[d].call
    OBVIOUS
  <2>5. Honest(outcome, LatestId(d), what)'
    BY <1>13, <2>1, <2>2, <2>4
  <2> QED  BY <2>3, <2>4, <2>5 DEF Honest
<1>15. OutcomesInv'
  <2> SUFFICES ASSUME NEW d \in Callers, Told(d)'
               PROVE  Honest(caller[d].outcome, LatestId(d), caller[d].call)'
    BY DEF OutcomesInv
  <2>1. d # c
    BY <1>6, <1>8 DEF Told
  <2>2. /\ caller'[d].outcome = caller[d].outcome /\ caller'[d].call = caller[d].call
        /\ Honest(caller[d].outcome, LatestId(d), caller[d].call)
    BY <1>1, <1>7, <2>1 DEF Told, OutcomesInv
  <2>3. PICK outcome, what : outcome = caller[d].outcome /\ what = caller[d].call
    OBVIOUS
  <2>4. Honest(outcome, LatestId(d), what)'
    BY <1>13, <2>1, <2>2, <2>3
  <2> QED  BY <2>2, <2>3, <2>4 DEF Honest
<1>16. CanceledIsNeverSent'
  BY <1>1, <1>2 DEF CanceledIsNeverSent
<1> QED  BY <1>9, <1>12, <1>14, <1>15, <1>16 DEF IInv

\* A call returns or raises, with an outcome that is true.
LEMMA ReturnInv ==
    ASSUME IInv, NEW c \in Callers, NEW outcome \in Processed \cup {ConnectionError},
           Waiting(c), Return(c, outcome), Honest(outcome, LatestId(c), caller[c].call),
           UNCHANGED <<email, now, inbox, carried, placed>>, CanceledIsNeverSent',
           assured' \subseteq EmailIds
    PROVE  IInv'
<1>1. TypesInv /\ CallsInv /\ AnswersInv /\ OutcomesInv
  BY DEF IInv
<1>2. /\ caller' = [caller EXCEPT ![c].phase = "told", ![c].outcome = outcome]
      /\ answer' = [answer EXCEPT ![c] = NoAnswer]
  BY DEF Return
<1>3. /\ caller[c] \in CallerStates /\ caller[c].phase = "waiting"
      /\ caller' = [caller EXCEPT ![c] = [caller[c] EXCEPT !.phase = "told", !.outcome = outcome]]
  BY <1>1, <1>2 DEF TypesInv, Waiting
<1>4. /\ caller'[c] \in CallerStates /\ caller'[c].phase = "told" /\ caller'[c].outcome = outcome
      /\ caller'[c].n = caller[c].n /\ caller'[c].call = caller[c].call
  BY <1>1, <1>3 DEF TypesInv, CallerStates
<1>5. \A d \in Callers \ {c} : caller'[d] = caller[d] /\ answer'[d] = answer[d]
  BY <1>1, <1>2 DEF TypesInv
<1>6. TypesInv'
  <2>1. caller' \in [Callers -> CallerStates]
    BY <1>1, <1>3, <1>4, <1>5 DEF TypesInv
  <2>2. answer' \in [Callers -> Responses \cup {NoAnswer}]
    BY <1>1, <1>2 DEF TypesInv
  <2>3. \A d \in Callers : caller'[d].n <= CallsOf[d]
    BY <1>1, <1>4, <1>5 DEF TypesInv
  <2> QED  BY <1>1, <2>1, <2>2, <2>3 DEF TypesInv, TypeOK
<1>7. CallsInv'
  <2>1. \A d \in Callers : /\ caller'[d].n = caller[d].n /\ caller'[d].call = caller[d].call
                           /\ caller'[d].phase # "idle" => caller[d].phase # "idle"
    BY <1>3, <1>4, <1>5
  <2>2. \A m \in inbox : m.caller \in Callers
    BY <1>1, RequestFacts DEF TypesInv, TypeOK
  <2> QED  BY <1>1, <2>1, <2>2 DEF CallsInv
<1>8. AnswersInv'
  <2> SUFFICES ASSUME NEW d \in Callers, answer'[d] # NoAnswer
               PROVE  /\ Waiting(d)'
                      /\ Honest(Process(ModelOf(caller[d].call.verb), answer[d]),
                                LatestId(d), caller[d].call)'
    BY DEF AnswersInv
  <2>1. d # c
    BY <1>1, <1>2 DEF TypesInv
  <2>2. /\ answer[d] # NoAnswer /\ caller'[d] = caller[d] /\ answer'[d] = answer[d]
    BY <1>5, <2>1
  <2>3. /\ Waiting(d)
        /\ Honest(Process(ModelOf(caller[d].call.verb), answer[d]), LatestId(d), caller[d].call)
    BY <1>1, <2>2 DEF AnswersInv
  <2> QED  BY <2>2, <2>3 DEF Waiting, Honest, LatestId
<1>9. OutcomesInv'
  <2> SUFFICES ASSUME NEW d \in Callers, Told(d)'
               PROVE  Honest(caller[d].outcome, LatestId(d), caller[d].call)'
    BY DEF OutcomesInv
  <2>1. CASE d = c
    BY <1>4, <2>1 DEF Honest, LatestId
  <2>2. CASE d # c
    <3>1. caller'[d] = caller[d]
      BY <1>5, <2>2
    <3>2. Honest(caller[d].outcome, LatestId(d), caller[d].call)
      BY <1>1, <3>1 DEF OutcomesInv, Told
    <3> QED  BY <3>1, <3>2 DEF Honest, LatestId
  <2> QED  BY <2>1, <2>2
<1> QED  BY <1>6, <1>7, <1>8, <1>9 DEF IInv

LEMMA ReceiveInv ==
    ASSUME IInv, NEW c \in Callers, Receive(c)
    PROVE  IInv'
<1> DEFINE call == caller[c].call
           outcome == Process(ModelOf(call.verb), answer[c])
<1>1. TypesInv /\ CallsInv /\ AnswersInv /\ CanceledIsNeverSent
  BY DEF IInv
<1>2. /\ Waiting(c) /\ answer[c] # NoAnswer /\ Return(c, outcome)
      /\ assured' = IF call.verb = "cancel" /\ outcome.kind = "model"
                    THEN assured \cup ({call.id} \cap EmailIds) ELSE assured
      /\ UNCHANGED <<email, now, inbox, carried, placed>>
  BY DEF Receive
<1>3. outcome \in Processed
  <2>1. call \in CallSet
    BY <1>1, <1>2 DEF CallsInv, Waiting
  <2>2. call.verb \in Verbs
    BY <2>1 DEF CallSet
  <2>3. ModelOf(call.verb) \in Models \cup {"send"}
    BY <2>2, ModelTypes
  <2>4. answer[c] \in Responses
    BY <1>1, <1>2 DEF TypesInv
  <2> QED  BY <2>3, <2>4, ProcessType
<1>4. Honest(outcome, LatestId(c), call)
  BY <1>1, <1>2 DEF AnswersInv
<1> HIDE DEF outcome
<1>5. assured' \subseteq EmailIds
  BY <1>1, <1>2 DEF TypesInv, TypeOK
<1>6. CanceledIsNeverSent'
  BY <1>1, <1>2, <1>4 DEF CanceledIsNeverSent, Honest
<1> QED  BY <1>2, <1>3, <1>4, <1>5, <1>6, ReturnInv

LEMMA TimeOutInv ==
    ASSUME IInv, NEW c \in Callers, TimeOut(c)
    PROVE  IInv'
<1>1. /\ Waiting(c) /\ Return(c, ConnectionError)
      /\ UNCHANGED <<email, now, inbox, carried, placed, assured>>
  BY DEF TimeOut
<1>2. CanceledIsNeverSent' /\ assured' \subseteq EmailIds
  BY <1>1 DEF IInv, TypesInv, TypeOK, CanceledIsNeverSent
<1>3. Honest(ConnectionError, LatestId(c), caller[c].call)
  BY DEF Honest, ConnectionError
<1> QED  BY <1>1, <1>2, <1>3, ReturnInv

(***************************************************************************)
(* The server looks at a request.                                          *)
(***************************************************************************)
LEMMA AnswerInv ==
    ASSUME IInv, NEW m \in inbox, NEW resp \in Responses, Answer(m, resp),
           email' \in Schedules, placed' \in [EmailIds -> Places], FinalsStay,
           carried' \in {carried, carried \cup {Id(m)}},
           Honest(Process(ModelOf(m.call.verb), resp), Id(m), m.call)'
    PROVE  IInv'
<1>1. TypesInv /\ CallsInv /\ AnswersInv /\ OutcomesInv /\ CanceledIsNeverSent
  BY DEF IInv
<1>2. /\ inbox' = inbox \ {m} /\ UNCHANGED <<now, caller, assured>>
      /\ answer' = IF Waiting(m.caller) /\ caller[m.caller].n = m.n
                   THEN [answer EXCEPT ![m.caller] = resp] ELSE answer
  BY DEF Answer
<1>3. /\ m \in Requests /\ m.caller \in Callers /\ m.n \in Nat /\ m.call \in CallSet
      /\ Id(m) \in CallIds
  <2>1. m \in Requests
    BY <1>1 DEF TypesInv, TypeOK
  <2> QED  BY <2>1, RequestFacts
<1>4. TypesInv'
  <2>1. answer' \in [Callers -> Responses \cup {NoAnswer}]
    BY <1>1, <1>2 DEF TypesInv
  <2>2. carried' \subseteq CallIds /\ inbox' \subseteq Requests
    BY <1>1, <1>2, <1>3 DEF TypesInv, TypeOK
  <2> QED  BY <1>1, <1>2, <2>1, <2>2 DEF TypesInv, TypeOK
<1>5. \A o \in inbox' : o \in inbox /\ Id(o) # Id(m)
  BY <1>1, <1>2 DEF CallsInv
<1>6. CallsInv'
  <2>1. ASSUME NEW c \in Callers, NEW n \in Nat, <<c, n>> \in carried'
        PROVE  n <= caller[c].n
    <3>1. CASE <<c, n>> \in carried
      BY <1>1, <3>1 DEF CallsInv
    <3>2. CASE <<c, n>> = Id(m)
      BY <1>1, <3>2 DEF CallsInv, Id
    <3> QED  BY <2>1, <3>1, <3>2
  <2>2. \A o \in inbox' : Id(o) \notin carried'
    BY <1>1, <1>5 DEF CallsInv
  <2>3. \A c \in Callers : caller'[c].phase # "idle" => caller'[c].call \in CallSet /\ caller'[c].n >= 1
    BY <1>1, <1>2 DEF CallsInv
  <2>4. \A o \in inbox' : /\ o.n <= caller'[o.caller].n
                          /\ o.n = caller'[o.caller].n => caller'[o.caller].call = o.call
    BY <1>1, <1>2, <1>5 DEF CallsInv
  <2>5. \A o, p \in inbox' : Id(o) = Id(p) => o = p
    BY <1>1, <1>5 DEF CallsInv
  <2> QED  BY <1>2, <2>1, <2>2, <2>3, <2>4, <2>5 DEF CallsInv
<1>7. ASSUME NEW outcome, NEW id, NEW call, Honest(outcome, id, call)
      PROVE  Honest(outcome, id, call)'
  <2>1. carried \subseteq carried'
    OBVIOUS
  <2>2. (\A o \in inbox : Id(o) # id) =>
            (id \in carried' => id \in carried) /\ \A o \in inbox' : Id(o) # id
    BY <1>5
  <2> QED  BY <1>7, <2>1, <2>2, HonestStays
<1>8. AnswersInv'
  <2> SUFFICES ASSUME NEW c \in Callers, answer'[c] # NoAnswer
               PROVE  /\ Waiting(c)'
                      /\ Honest(Process(ModelOf(caller[c].call.verb), answer[c]),
                                LatestId(c), caller[c].call)'
    BY DEF AnswersInv
  <2>1. CASE c = m.caller /\ Waiting(c) /\ caller[c].n = m.n
    <3>1. answer'[c] = resp
      BY <1>1, <1>2, <2>1 DEF TypesInv
    <3>2. caller'[c].call = m.call /\ LatestId(c)' = Id(m) /\ Waiting(c)'
      BY <1>1, <1>2, <2>1 DEF CallsInv, LatestId, Id, Waiting
    <3> QED  BY <3>1, <3>2 DEF Honest, Id
  <2>2. CASE ~(c = m.caller /\ Waiting(c) /\ caller[c].n = m.n)
    <3>1. answer'[c] = answer[c]
      BY <1>1, <1>2, <2>2 DEF TypesInv
    <3>2. /\ Waiting(c)
          /\ Honest(Process(ModelOf(caller[c].call.verb), answer[c]), LatestId(c), caller[c].call)
      BY <1>1, <3>1 DEF AnswersInv
    <3>3. PICK outcome, id, call : /\ outcome = Process(ModelOf(caller[c].call.verb), answer[c])
                                   /\ id = LatestId(c) /\ call = caller[c].call
      OBVIOUS
    <3>4. Honest(outcome, id, call)'
      BY <1>7, <3>2, <3>3
    <3> QED  BY <1>2, <3>1, <3>2, <3>3, <3>4 DEF Honest, LatestId, Waiting
  <2> QED  BY <2>1, <2>2
<1>9. OutcomesInv'
  <2> SUFFICES ASSUME NEW c \in Callers, Told(c)'
               PROVE  Honest(caller[c].outcome, LatestId(c), caller[c].call)'
    BY DEF OutcomesInv
  <2>1. Honest(caller[c].outcome, LatestId(c), caller[c].call)
    BY <1>1, <1>2 DEF OutcomesInv, Told
  <2>2. PICK outcome, id, call : /\ outcome = caller[c].outcome
                                 /\ id = LatestId(c) /\ call = caller[c].call
    OBVIOUS
  <2>3. Honest(outcome, id, call)'
    BY <1>7, <2>1, <2>2
  <2> QED  BY <1>2, <2>2, <2>3 DEF Honest, LatestId
<1>10. CanceledIsNeverSent'
  BY <1>1, <1>2 DEF TypesInv, TypeOK, CanceledIsNeverSent, FinalsStay, Finals
<1> QED  BY <1>4, <1>6, <1>8, <1>9, <1>10 DEF IInv

LEMMA RejectInv ==
    ASSUME IInv, NEW m \in inbox, Reject(m)
    PROVE  IInv'
<1> DEFINE req == Wire(m)
           route == Route(req.path)
           failures == { [status |-> 429, name |-> "rate_limit_exceeded"],
                         [status |-> 500, name |-> "application_error"] }
<1>1. TypesInv /\ CallsInv
  BY DEF IInv
<1>2. PICK v \in (failures \cup {Verdict(req)}) \ {Accepted} :
          Answer(m, AnswerWith(v.status, ErrorBody(v.name)))
  BY DEF Reject
<1>3. UNCHANGED <<email, carried, placed>> /\ inbox' = inbox \ {m}
  BY <1>2 DEF Reject, Answer
<1>4. m \in Requests
  BY <1>1 DEF TypesInv, TypeOK
<1>5. /\ v.status \in {404, 422, 429, 500} /\ v.name \in ErrorNames
      /\ v.name = "scheduled_email_not_pending" =>
            route.kind = "item" /\ route.id \in EmailIds
            /\ email[route.id].status \notin {"none", "scheduled"}
  <2>1. CASE v \in failures
    BY <2>1, AnswersAssumption
  <2>2. CASE v = Verdict(req) /\ v # Accepted
    BY <2>2, AnswersAssumption DEF Verdict
  <2> QED  BY <1>2, <2>1, <2>2
<1>6. v.name = "scheduled_email_not_pending" =>
          m.call.id \in EmailIds /\ email[m.call.id].status \in Finals
  <2>1. route.kind = "item" => route.id = m.call.id
    BY <1>4, WireFacts
  <2>2. email \in Schedules
    BY <1>1 DEF TypesInv, TypeOK
  <2> HIDE DEF route
  <2> QED  BY <1>5, <2>1, <2>2 DEF Schedules, Finals
<1> HIDE DEF failures
<1>7. PICK resp : resp = AnswerWith(v.status, ErrorBody(v.name))
  OBVIOUS
<1>8. resp \in Responses
  BY <1>5, <1>7, AnswerShape, BodyShapes
<1>9. PICK outcome : outcome = Process(ModelOf(m.call.verb), resp)
  OBVIOUS
<1>10. outcome.kind = "api_error" /\ outcome.name = v.name
  BY <1>5, <1>7, <1>9, ErrorAnswer
<1>11. Honest(outcome, Id(m), m.call)'
  <2>1. Id(m) \notin carried' /\ \A o \in inbox' : Id(o) # Id(m)
    BY <1>1, <1>3 DEF CallsInv
  <2> QED  BY <1>3, <1>6, <1>10, <2>1 DEF Honest, Id
<1>12. email' \in Schedules /\ placed' \in [EmailIds -> Places] /\ FinalsStay
  BY <1>1, <1>3 DEF TypesInv, TypeOK, FinalsStay
<1> QED  BY <1>2, <1>3, <1>7, <1>8, <1>9, <1>11, <1>12, AnswerInv

\* A request that is carried out changes only emails it is about: one that
\* there was not, a pending one it names, or the pending ones of its batch.
LEMMA CarryFacts ==
    ASSUME TypesInv, NEW m \in inbox, Carry(m)
    PROVE  /\ email' \in Schedules /\ placed' \in [EmailIds -> Places]
           /\ \A e \in EmailIds :
                  email'[e] # email[e] =>
                      \/ email[e].status = "none" /\ m.call.verb = "schedule"
                      \/ email[e].status = "scheduled" /\ m.call.id \in {e, email[e].batch}
           /\ m.call.verb = "cancel" /\ m.call.id \in EmailIds =>
                  email'[m.call.id].status = "canceled"
<1> DEFINE req == Wire(m)
           route == Route(req.path)
<1>1. /\ m \in Requests /\ email \in Schedules /\ placed \in [EmailIds -> Places]
      /\ m.caller \in Callers /\ m.n \in Nat /\ m.call \in CallSet /\ Id(m) \in CallIds
  <2>1. m \in Requests /\ email \in Schedules /\ placed \in [EmailIds -> Places]
    BY DEF TypesInv, TypeOK
  <2> QED  BY <2>1, RequestFacts
<1>2. PICK scope \in Scopes(route) :
          /\ email' = [e \in EmailIds |-> IF e \in scope THEN Changed(req, email[e]) ELSE email[e]]
          /\ placed' = [ e \in EmailIds |->
                IF e \in scope /\ m.call.batch # None
                THEN [batch |-> m.call.batch, by |-> Id(m)] ELSE placed[e] ]
  BY DEF Carry, Id
<1>3. Verdict(req) = Accepted
  BY DEF Carry
<1>4. /\ req.due \in 0..Horizon /\ req.batch \in Ids \cup {None}
      /\ req.method \in {"GET", "POST", "PATCH", "DELETE"}
      /\ route.kind \in {"send", "item", "batch", "list", "none"}
      /\ route.kind = "send" <=> m.call.verb = "schedule"
      /\ route.kind \in {"item", "batch"} => route.id = m.call.id
      /\ m.call.verb = "cancel" /\ m.call.id \in EmailIds =>
             route.kind = "item" /\ req.method = "DELETE"
  <2>1. m.call.verb \in Verbs
    BY <1>1 DEF CallSet
  <2> QED  BY <1>1, <2>1, WireFacts DEF Verbs, Method
<1>5. /\ req.method \in Methods(route.kind)
      /\ route.kind = "item" =>
            /\ route.id \in EmailIds
            /\ req.method # "GET" => email[route.id].status = "scheduled"
  <2>1. PICK kind, id, method : kind = route.kind /\ id = route.id /\ method = req.method
    OBVIOUS
  <2> QED  BY <1>3 DEF Verdict, Accepted
<1>6. ASSUME NEW old \in [ status : {"none", "scheduled", "canceled", "sent"},
                           due : 0..Horizon, batch : Ids \cup {None} ]
      PROVE  /\ Changed(req, old) \in [ status : {"none", "scheduled", "canceled", "sent"},
                                        due : 0..Horizon, batch : Ids \cup {None} ]
             /\ req.method = "GET" => Changed(req, old) = old
             /\ req.method = "DELETE" => Changed(req, old).status = "canceled"
  BY <1>4 DEF Changed
<1> HIDE DEF route, req
<1>7. email' \in Schedules
  BY <1>1, <1>2, <1>6 DEF Schedules
<1>8. placed' \in [EmailIds -> Places]
  <2>1. m.call.batch \in Ids \cup {None}
    BY <1>1 DEF CallSet
  <2>2. [batch |-> m.call.batch, by |-> Id(m)] \in Places
    BY <1>1, <2>1 DEF Places
  <2> QED  BY <1>1, <1>2, <2>2
<1>9. ASSUME NEW e \in EmailIds, email'[e] # email[e]
      PROVE  \/ email[e].status = "none" /\ m.call.verb = "schedule"
             \/ email[e].status = "scheduled" /\ m.call.id \in {e, email[e].batch}
  <2>1. /\ e \in scope /\ email[e] # Changed(req, email[e])
        /\ email[e] \in [ status : {"none", "scheduled", "canceled", "sent"},
                          due : 0..Horizon, batch : Ids \cup {None} ]
    BY <1>1, <1>2, <1>9 DEF Schedules
  <2>2. req.method # "GET"
    BY <1>6, <2>1
  <2>3. CASE route.kind = "send"
    <3>1. PICK f \in EmailIds : email[f].status = "none" /\ scope = {f}
      BY <1>2, <2>3 DEF Scopes
    <3> QED  BY <1>4, <2>1, <2>3, <3>1
  <2>4. CASE route.kind = "item"
    <3>1. scope = {route.id}
      BY <1>2, <2>4 DEF Scopes
    <3> QED  BY <1>4, <1>5, <2>1, <2>2, <2>4, <3>1
  <2>5. CASE route.kind = "batch"
    <3>1. scope = {f \in EmailIds : email[f].status = "scheduled" /\ email[f].batch = route.id}
      BY <1>2, <2>5 DEF Scopes
    <3> QED  BY <1>4, <2>1, <2>5, <3>1
  <2>6. CASE route.kind \in {"list", "none"}
    <3>1. scope = {}
      BY <1>2, <2>6 DEF Scopes
    <3> QED  BY <2>1, <3>1
  <2> QED  BY <1>4, <2>3, <2>4, <2>5, <2>6
<1>10. ASSUME m.call.verb = "cancel", m.call.id \in EmailIds
       PROVE  email'[m.call.id].status = "canceled"
  <2>1. route.kind = "item" /\ req.method = "DELETE" /\ route.id = m.call.id
    BY <1>4, <1>10
  <2>2. scope = {m.call.id}
    BY <1>2, <2>1 DEF Scopes
  <2>3. email[m.call.id] \in [ status : {"none", "scheduled", "canceled", "sent"},
                               due : 0..Horizon, batch : Ids \cup {None} ]
    BY <1>1, <1>10 DEF Schedules
  <2> QED  BY <1>2, <1>6, <1>10, <2>1, <2>2, <2>3
<1> QED  BY <1>7, <1>8, <1>9, <1>10

LEMMA CarryInv ==
    ASSUME IInv, NEW m \in inbox, Carry(m)
    PROVE  IInv'
<1>1. TypesInv /\ CallsInv
  BY DEF IInv
<1>2. /\ email' \in Schedules /\ placed' \in [EmailIds -> Places]
      /\ \A e \in EmailIds : email'[e] # email[e] => email[e].status \in {"none", "scheduled"}
      /\ m.call.verb = "cancel" /\ m.call.id \in EmailIds =>
             email'[m.call.id].status = "canceled"
  BY <1>1, CarryFacts
<1>3. FinalsStay
  BY <1>2 DEF FinalsStay, Finals
<1>4. carried' = carried \cup {Id(m)}
  BY DEF Carry, Id
<1>5. PICK resp : /\ Answer(m, resp)
                  /\ \/ \E kind : resp = AnswerWith(200, ResultBody(kind))
                     \/ resp = AnswerWith(200, Unreadable)
                     \/ resp = AnswerWith(500, ErrorBody("application_error"))
  BY DEF Carry
<1>6. resp \in Responses
  <2>1. "application_error" \in ErrorNames
    BY AnswersAssumption
  <2> QED  BY <1>5, <2>1, AnswerShape, BodyShapes
<1>7. PICK outcome : outcome = Process(ModelOf(m.call.verb), resp)
  OBVIOUS
<1>8. \/ outcome.kind \in {"email", "model", "malformed"}
      \/ outcome.kind = "api_error" /\ outcome.class = "ServerError"
  <2>1. CASE \E kind : resp = AnswerWith(200, ResultBody(kind))
    <3>1. PICK kind : resp = AnswerWith(200, ResultBody(kind))
      BY <2>1
    <3>2. Loads(ResultBody(kind))
      BY DEF ResultBody, Unreadable, Loads
    <3> QED  BY <1>7, <3>1, <3>2, OkAnswer
  <2>2. CASE resp = AnswerWith(200, Unreadable)
    <3>1. Loads(Unreadable)
      BY DEF Unreadable, Loads
    <3> QED  BY <1>7, <2>2, <3>1, OkAnswer
  <2>3. CASE resp = AnswerWith(500, ErrorBody("application_error"))
    <3>1. PICK name \in ErrorNames : name = "application_error"
      BY AnswersAssumption
    <3> QED  BY <1>7, <2>3, <3>1, ErrorAnswer
  <2> QED  BY <1>5, <2>1, <2>2, <2>3
<1>9. Honest(outcome, Id(m), m.call)'
  <2>1. inbox' = inbox \ {m}
    BY <1>5 DEF Answer
  <2>2. \A o \in inbox' : Id(o) # Id(m)
    BY <1>1, <2>1 DEF CallsInv
  <2> QED  BY <1>2, <1>4, <1>8, <2>2 DEF Honest, Id
<1> QED  BY <1>2, <1>3, <1>4, <1>5, <1>6, <1>7, <1>9, AnswerInv

(***************************************************************************)
(* Dispatch and time.                                                      *)
(***************************************************************************)
LEMMA ServerStepInv ==
    ASSUME IInv, (\E e \in EmailIds : Dispatch(e)) \/ Tick
    PROVE  IInv'
<1>1. TypesInv /\ CallsInv /\ AnswersInv /\ OutcomesInv /\ CanceledIsNeverSent
  BY DEF IInv
<1>2. UNCHANGED <<caller, inbox, answer, carried, placed, assured>>
  BY DEF Dispatch, Tick
<1>3. email' \in Schedules /\ now' \in 0..Horizon /\ FinalsStay
  <2>1. CASE Tick
    BY <1>1, <2>1, HorizonAssumption DEF Tick, TypesInv, TypeOK, FinalsStay
  <2>2. CASE \E e \in EmailIds : Dispatch(e)
    <3>1. PICK e \in EmailIds : Dispatch(e)
      BY <2>2
    <3> QED  BY <1>1, <3>1 DEF Dispatch, TypesInv, TypeOK, Schedules, FinalsStay, Finals
  <2> QED  BY <2>1, <2>2
<1>4. TypesInv' /\ CallsInv'
  BY <1>1, <1>2, <1>3 DEF TypesInv, TypeOK, CallsInv, Id
<1>5. ASSUME NEW outcome, NEW id, NEW call, Honest(outcome, id, call)
      PROVE  Honest(outcome, id, call)'
  BY <1>2, <1>3, <1>5, HonestStays
<1>6. AnswersInv'
  <2> SUFFICES ASSUME NEW c \in Callers, answer[c] # NoAnswer
               PROVE  /\ Waiting(c)'
                      /\ Honest(Process(ModelOf(caller[c].call.verb), answer[c]),
                                LatestId(c), caller[c].call)'
    BY <1>2 DEF AnswersInv
  <2>1. /\ Waiting(c)
        /\ Honest(Process(ModelOf(caller[c].call.verb), answer[c]), LatestId(c), caller[c].call)
    BY <1>1 DEF AnswersInv
  <2>2. PICK outcome, id, call : /\ outcome = Process(ModelOf(caller[c].call.verb), answer[c])
                                 /\ id = LatestId(c) /\ call = caller[c].call
    OBVIOUS
  <2>3. Honest(outcome, id, call)'
    BY <1>5, <2>1, <2>2
  <2> QED  BY <1>2, <2>1, <2>2, <2>3 DEF Honest, LatestId, Waiting
<1>7. OutcomesInv'
  <2> SUFFICES ASSUME NEW c \in Callers, Told(c)
               PROVE  Honest(caller[c].outcome, LatestId(c), caller[c].call)'
    BY <1>2 DEF OutcomesInv, Told
  <2>1. Honest(caller[c].outcome, LatestId(c), caller[c].call)
    BY <1>1 DEF OutcomesInv
  <2>2. PICK outcome, id, call : /\ outcome = caller[c].outcome
                                 /\ id = LatestId(c) /\ call = caller[c].call
    OBVIOUS
  <2>3. Honest(outcome, id, call)'
    BY <1>5, <2>1, <2>2
  <2> QED  BY <1>2, <2>2, <2>3 DEF Honest, LatestId
<1>8. CanceledIsNeverSent'
  BY <1>1, <1>2, <1>3 DEF TypesInv, TypeOK, CanceledIsNeverSent, FinalsStay, Finals
<1> QED  BY <1>4, <1>6, <1>7, <1>8 DEF IInv

LEMMA StutterInv ==
    ASSUME IInv, UNCHANGED vars
    PROVE  IInv'
BY DEF vars, IInv, TypesInv, TypeOK, CallsInv, AnswersInv, OutcomesInv, CanceledIsNeverSent,
       Honest, Id, LatestId, Waiting, Told

LEMMA Invariance == Spec => []IInv
<1>1. IInv /\ [Next]_vars => IInv'
  <2> SUFFICES ASSUME IInv, [Next]_vars PROVE IInv'
    OBVIOUS
  <2>1. CASE \E c \in Callers : \E call \in Menu[c] : Begin(c, call)
    BY <2>1, BeginInv
  <2>2. CASE \E c \in Callers : Receive(c) \/ TimeOut(c)
    BY <2>2, ReceiveInv, TimeOutInv
  <2>3. CASE \E m \in inbox : Reject(m) \/ Carry(m)
    BY <2>3, RejectInv, CarryInv
  <2>4. CASE (\E e \in EmailIds : Dispatch(e)) \/ Tick
    BY <2>4, ServerStepInv
  <2>5. CASE UNCHANGED vars
    BY <2>5, StutterInv
  <2> QED  BY <2>1, <2>2, <2>3, <2>4, <2>5 DEF Next
<1> QED  BY <1>1, InitInv, PTL DEF Spec

(***************************************************************************)
(* Every variable of the model has its type.                               *)
(***************************************************************************)
THEOREM ScheduleTypes == Spec => []TypeOK
<1>1. IInv => TypeOK
  BY DEF IInv, TypesInv
<1> QED  BY <1>1, Invariance, PTL

(***************************************************************************)
(* An email whose cancellation was acknowledged is never sent, whatever    *)
(* calls were on their way meanwhile, and however late they are looked at.  *)
(***************************************************************************)
THEOREM CanceledStays == Spec => []CanceledIsNeverSent
<1>1. IInv => CanceledIsNeverSent
  BY DEF IInv
<1> QED  BY <1>1, Invariance, PTL

(***************************************************************************)
(* An email a caller was told is not pending never becomes pending again.   *)
(***************************************************************************)
THEOREM NotPendingStays == Spec => []NotPendingIsFinal
<1>1. IInv => NotPendingIsFinal
  BY DEF IInv, OutcomesInv, NotPendingIsFinal, WasRefused, Honest, Finals
<1> QED  BY <1>1, Invariance, PTL

(***************************************************************************)
(* A result, or an unreadable answer, means that the call was carried out;  *)
(* a refusal, that it was not and cannot be any more.                      *)
(***************************************************************************)
THEOREM EffectsTold == Spec => []OutcomesTellTheEffect
<1>1. IInv => OutcomesTellTheEffect
  BY DEF IInv, OutcomesInv, OutcomesTellTheEffect, GotResult, WasRefused, Honest, Id
<1> QED  BY <1>1, Invariance, PTL

(***************************************************************************)
(* Whatever text is passed as an identifier, a request changes nothing but  *)
(* the emails its call names, or adds one if it is a send.                  *)
(***************************************************************************)
THEOREM TouchesNamed == Spec => TouchesOnlyWhatItNames
<1> DEFINE A == \A m \in inbox \ inbox' : \A e \in EmailIds :
                    email'[e] # email[e] =>
                        \/ m.call.id \in {e, email[e].batch}
                        \/ m.call.verb = "schedule" /\ email[e].status = "none"
<1>1. IInv /\ [Next]_vars => [A]_vars
  <2> SUFFICES ASSUME IInv, Next, NEW m \in inbox \ inbox', NEW e \in EmailIds,
                      email'[e] # email[e]
               PROVE  \/ m.call.id \in {e, email[e].batch}
                      \/ m.call.verb = "schedule" /\ email[e].status = "none"
    BY DEF vars
  <2>1. PICK o \in inbox : Reject(o) \/ Carry(o)
    BY DEF Next, Begin, Receive, TimeOut, Dispatch, Tick
  <2>2. m = o
    BY <2>1 DEF Reject, Carry, Answer
  <2>3. Carry(m)
    BY <2>1, <2>2 DEF Reject
  <2> QED  BY <2>3, CarryFacts DEF IInv
<1> QED  BY <1>1, Invariance, PTL DEF Spec, TouchesOnlyWhatItNames

(***************************************************************************)
(* Callers, network and server implement EmailSchedule.                    *)
(***************************************************************************)
Entries == [ status : {"none", "scheduled", "canceled", "sent"},
             due : 0..Horizon, batch : Ids \cup {None} ]

\* A request that is carried out does to the schedule what its call asks for.
LEMMA CarryTakesEffect ==
    ASSUME TypesInv, NEW m \in inbox, Carry(m)
    PROVE  Schedule!TakesEffect(m.call)
<1> DEFINE req == Wire(m)
           route == Route(req.path)
           call == m.call
<1>1. /\ m \in Requests /\ email \in [EmailIds -> Entries] /\ now \in Nat
      /\ call \in CallSet /\ call.verb \in Verbs /\ call.due \in Nat
  <2>1. m \in Requests /\ email \in [EmailIds -> Entries] /\ now \in 0..Horizon
    BY DEF TypesInv, TypeOK, Schedules, Entries
  <2>2. call \in CallSet
    BY <2>1, RequestFacts
  <2>3. call.verb \in Verbs /\ call.due \in 0..Horizon
    BY <2>2 DEF CallSet
  <2> QED  BY <2>1, <2>2, <2>3, HorizonAssumption
<1>2. PICK scope \in Scopes(route) :
          email' = [e \in EmailIds |-> IF e \in scope THEN Changed(req, email[e]) ELSE email[e]]
  BY DEF Carry
<1>3. Verdict(req) = Accepted
  BY DEF Carry
<1>4. /\ req.method = Method(call.verb) /\ req.due \in 0..Horizon
      /\ call.verb \in {"schedule", "update", "batches.update"} => req.due = call.due
      /\ call.verb \in {"schedule", "update"} => req.batch = call.batch
      /\ call.verb = "batches.update" => req.batch = None
      /\ call.verb = "schedule" => route.kind = "send"
      /\ call.verb \in {"get", "update", "cancel"} => route.kind \in {"item", "list", "none"}
      /\ call.verb \in {"batches.update", "batches.cancel"} => route.kind \in {"batch", "list", "none"}
      /\ route.kind \in {"item", "batch"} => route.id = call.id
  BY <1>1, WireFacts
<1>0. route = Route(req.path)
  OBVIOUS
<1> HIDE DEF req, route
<1>5. /\ req.method \in Methods(route.kind)
      /\ req.method \in {"POST", "PATCH"} => ~(req.due <= now)
      /\ route.kind = "item" =>
            /\ route.id \in EmailIds
            /\ req.method # "GET" => email[route.id].status = "scheduled"
  BY <1>3, <1>0 DEF Verdict, Accepted
<1>6. call.verb \in {"schedule", "update", "batches.update"} => call.due > now
  BY <1>1, <1>4, <1>5 DEF Method
<1>7. ASSUME NEW old \in Entries, call.verb # "get",
             call.verb \in {"batches.update", "batches.cancel"} => old.status = "scheduled"
      PROVE  Changed(req, old) = Schedule!Changed(call, old)
  <2>1. CASE call.verb \in {"schedule", "update"}
    BY <1>4, <2>1 DEF Changed, Schedule!Changed, Method
  <2>2. CASE call.verb \in {"cancel", "batches.cancel"}
    BY <1>4, <2>2 DEF Changed, Schedule!Changed, Method
  <2>3. CASE call.verb = "batches.update"
    <3>1. Changed(req, old) = [status |-> "scheduled", due |-> call.due, batch |-> old.batch]
      BY <1>4, <2>3 DEF Changed, Method
    <3>2. Schedule!Changed(call, old) = [old EXCEPT !.due = call.due]
      BY <2>3 DEF Schedule!Changed
    <3> QED  BY <1>7, <2>3, <3>1, <3>2 DEF Entries
  <2> QED  BY <1>1, <1>7, <2>1, <2>2, <2>3 DEF Verbs
<1>8. CASE call.verb = "schedule"
  <2>1. PICK e \in EmailIds : email[e].status = "none" /\ scope = {e}
    BY <1>2, <1>4, <1>8 DEF Scopes
  <2>2. email' = [email EXCEPT ![e] = Schedule!Changed(call, email[e])]
    BY <1>1, <1>2, <1>7, <1>8, <2>1
  <2> QED  BY <1>6, <1>8, <2>1, <2>2 DEF Schedule!TakesEffect, Schedule!ChangesOne
<1>9. CASE call.verb \in {"update", "cancel"}
  <2>1. route.kind = "item" /\ req.method # "GET"
    BY <1>4, <1>5, <1>9 DEF Method, Methods
  <2>2. call.id \in EmailIds /\ email[call.id].status = "scheduled" /\ scope = {call.id}
    BY <1>2, <1>4, <1>5, <2>1 DEF Scopes
  <2>3. email' = [email EXCEPT ![call.id] = Schedule!Changed(call, email[call.id])]
    BY <1>1, <1>2, <1>7, <1>9, <2>2
  <2> QED  BY <1>6, <1>9, <2>2, <2>3 DEF Schedule!TakesEffect, Schedule!ChangesOne
<1>10. CASE call.verb = "get"
  <2>1. \A e \in EmailIds : Changed(req, email[e]) = email[e]
    BY <1>4, <1>10 DEF Changed, Method
  <2>2. email' = email
    BY <1>1, <1>2, <2>1
  <2> QED  BY <1>10, <2>2 DEF Schedule!TakesEffect
<1>11. CASE call.verb \in {"batches.update", "batches.cancel"}
  <2>1. route.kind = "batch" /\ route.id = call.id
    BY <1>4, <1>5, <1>11 DEF Method, Methods
  <2>2. scope = {e \in EmailIds : email[e].status = "scheduled" /\ email[e].batch = call.id}
    BY <1>2, <2>1 DEF Scopes
  <2>3. email' = [ e \in EmailIds |->
                     IF email[e].status = "scheduled" /\ email[e].batch = call.id
                     THEN Schedule!Changed(call, email[e]) ELSE email[e] ]
    <3>1. \A e \in EmailIds : e \in scope => Changed(req, email[e]) = Schedule!Changed(call, email[e])
      BY <1>1, <1>7, <1>11, <2>2
    <3> QED  BY <1>2, <2>2, <3>1
  <2> QED  BY <1>6, <1>11, <2>3 DEF Schedule!TakesEffect, Schedule!ChangesBatch
<1> QED  BY <1>1, <1>8, <1>9, <1>10, <1>11 DEF Verbs

\* What a caller is told is a matter of its own call.
LEMMA SameTold ==
    ASSUME NEW d \in Callers,
           caller'[d].phase = caller[d].phase, caller'[d].n = caller[d].n,
           caller'[d].call = caller[d].call, caller'[d].outcome = caller[d].outcome,
           LatestId(d) \in carried <=> LatestId(d) \in carried'
    PROVE  ToldBy(d)' = ToldBy(d)
BY DEF ToldBy, Phase, Waiting, GotResult, WasRefused, Told, LatestId

LEMMA ToldOne ==
    ASSUME NEW c \in Callers, \A d \in Callers : d # c => ToldBy(d)' = ToldBy(d)
    PROVE  /\ ToldTo[c] = ToldBy(c) /\ ToldTo'[c] = ToldBy(c)'
           /\ ToldTo' = [ToldTo EXCEPT ![c] = ToldBy(c)']
BY DEF ToldTo

LEMMA ToldAll ==
    ASSUME \A d \in Callers : ToldBy(d)' = ToldBy(d)
    PROVE  ToldTo' = ToldTo
BY DEF ToldTo

LEMMA BeginStep ==
    ASSUME IInv, NEW c \in Callers, NEW call \in Menu[c], Begin(c, call)
    PROVE  Schedule!Begin(c)
<1> DEFINE n == caller[c].n + 1
           new == [caller |-> c, n |-> n, call |-> call]
<1>1. TypesInv /\ CallsInv
  BY DEF IInv
<1>2. /\ ~Waiting(c)
      /\ caller'[c].phase = "waiting" /\ caller'[c].n = n /\ caller'[c].call = call
      /\ \A d \in Callers \ {c} : caller'[d] = [caller[d] EXCEPT !.alone = FALSE]
      /\ inbox' = inbox \cup {new}
      /\ UNCHANGED <<email, now, carried>>
  BY DEF Begin
<1>3. caller[c].n \in Nat /\ n \in Nat /\ call \in CallSet
  BY <1>1, CallersAssumption DEF TypesInv, CallerStates
<1>4. ASSUME NEW d \in Callers, d # c
      PROVE  /\ caller'[d].phase = caller[d].phase /\ caller'[d].n = caller[d].n
             /\ caller'[d].call = caller[d].call /\ caller'[d].outcome = caller[d].outcome
  <2>1. caller[d] \in CallerStates
    BY <1>1, <1>4 DEF TypesInv
  <2> QED  BY <1>2, <1>4, <2>1 DEF CallerStates
<1>5. \A d \in Callers : d # c => ToldBy(d)' = ToldBy(d)
  BY <1>2, <1>4, SameTold DEF LatestId
<1>6. ToldBy(c)' = [n |-> n, call |-> call, phase |-> "open"]
  <2>1. LatestId(c)' \notin carried'
    <3>1. <<c, n>> \notin carried
      BY <1>1, <1>3 DEF CallsInv
    <3> QED  BY <1>2, <3>1 DEF LatestId
  <2>2. Phase(c)' = "open"
    BY <1>2, <2>1 DEF Phase, Waiting, GotResult, WasRefused, Told
  <2> QED  BY <1>2, <2>2 DEF ToldBy
<1>7. ToldBy(c).phase \notin {"open", "carried"} /\ ToldBy(c).n = caller[c].n
  BY <1>2 DEF ToldBy, Phase
<1>8. GivenUp' = GivenUp
  <2>1. new \notin GivenUp'
    BY <1>2 DEF GivenUp, Waiting
  <2>2. ASSUME NEW m \in inbox
        PROVE  m \in GivenUp' <=> m \in GivenUp
    <3>1. m \in Requests /\ m.n <= caller[m.caller].n
      BY <1>1, <2>2 DEF TypesInv, TypeOK, CallsInv
    <3>2. m.caller \in Callers /\ m.n \in Nat
      BY <3>1, RequestFacts
    <3>3. CASE m.caller = c
      BY <1>2, <1>3, <2>2, <3>1, <3>2, <3>3 DEF GivenUp, Waiting
    <3>4. CASE m.caller # c
      BY <1>2, <1>4, <2>2, <3>2, <3>4 DEF GivenUp, Waiting
    <3> QED  BY <3>3, <3>4
  <2>3. GivenUp \subseteq inbox /\ GivenUp' \subseteq inbox \cup {new}
    BY <1>2 DEF GivenUp
  <2> QED  BY <2>1, <2>2, <2>3
<1>9. call \in UNION {Menu[d] : d \in Callers}
  OBVIOUS
<1> QED  BY <1>2, <1>5, <1>6, <1>7, <1>8, <1>9, ToldOne DEF Schedule!Begin

\* A call returns: its caller learns, and a request still there is given up.
LEMMA ReturnStep ==
    ASSUME IInv, NEW c \in Callers, NEW outcome, Waiting(c), Return(c, outcome),
           UNCHANGED <<email, now, inbox, carried>>
    PROVE  /\ \A d \in Callers : d # c => ToldBy(d)' = ToldBy(d)
           /\ ToldBy(c).phase = IF LatestId(c) \in carried THEN "carried" ELSE "open"
           /\ ToldBy(c)' = [ToldBy(c) EXCEPT !.phase = Phase(c)']
           /\ caller'[c].phase = "told" /\ caller'[c].outcome = outcome
           /\ LatestId(c)' = LatestId(c)
           /\ GivenUp' = GivenUp \cup {m \in inbox : Id(m) = LatestId(c)}
<1>1. TypesInv /\ CallsInv
  BY DEF IInv
<1>2. /\ caller[c].phase = "waiting"
      /\ caller' = [caller EXCEPT ![c].phase = "told", ![c].outcome = outcome]
  BY DEF Waiting, Return
<1>3. caller[c] \in CallerStates
  BY <1>1 DEF TypesInv
<1>4. /\ caller'[c].phase = "told" /\ caller'[c].outcome = outcome
      /\ caller'[c].n = caller[c].n /\ caller'[c].call = caller[c].call
      /\ \A d \in Callers : d # c => caller'[d] = caller[d]
  BY <1>1, <1>2, <1>3 DEF TypesInv, CallerStates
<1>5. \A d \in Callers : d # c => ToldBy(d)' = ToldBy(d)
  BY <1>4, SameTold DEF LatestId
<1>6. ToldBy(c).phase = IF LatestId(c) \in carried THEN "carried" ELSE "open"
  <2>1. Phase(c) = IF LatestId(c) \in carried THEN "carried" ELSE "open"
    BY <1>2 DEF Phase, Waiting, GotResult, WasRefused, Told
  <2> QED  BY <2>1 DEF ToldBy
<1>7. ToldBy(c)' = [ToldBy(c) EXCEPT !.phase = Phase(c)']
  BY <1>4 DEF ToldBy
<1>8. LatestId(c)' = LatestId(c)
  BY <1>4 DEF LatestId
<1>9. ASSUME NEW m \in inbox
      PROVE  m \in GivenUp' <=> m \in GivenUp \/ Id(m) = LatestId(c)
  <2>1. m.caller \in Callers
    BY <1>1, <1>9, RequestFacts DEF TypesInv, TypeOK
  <2>2. CASE m.caller = c
    <3>1. m \in GivenUp'
      BY <1>4, <1>9, <2>2 DEF GivenUp, Waiting
    <3>2. m \in GivenUp \/ Id(m) = LatestId(c)
      BY <1>9, <2>2 DEF GivenUp, Id, LatestId
    <3> QED  BY <3>1, <3>2
  <2>3. CASE m.caller # c
    <3>1. Id(m) # LatestId(c)
      BY <2>3 DEF Id, LatestId
    <3>2. m \in GivenUp' <=> m \in GivenUp
      BY <1>4, <1>9, <2>1, <2>3 DEF GivenUp, Waiting
    <3> QED  BY <3>1, <3>2
  <2> QED  BY <2>2, <2>3
<1>10. GivenUp' = GivenUp \cup {m \in inbox : Id(m) = LatestId(c)}
  <2>1. GivenUp \subseteq inbox /\ GivenUp' \subseteq inbox
    BY DEF GivenUp
  <2> QED  BY <1>9, <2>1
<1> QED  BY <1>4, <1>5, <1>6, <1>7, <1>8, <1>10

LEMMA ReceiveStep ==
    ASSUME IInv, NEW c \in Callers, Receive(c)
    PROVE  Schedule!Result(c) \/ Schedule!Refuse(c) \/ Schedule!LearnNothing(c)
<1>1. PICK outcome : outcome = Process(ModelOf(caller[c].call.verb), answer[c])
  OBVIOUS
<1>2. /\ Waiting(c) /\ answer[c] # NoAnswer /\ Return(c, outcome)
      /\ UNCHANGED <<email, now, inbox, carried>>
  BY <1>1 DEF Receive
<1>3. Honest(outcome, LatestId(c), caller[c].call)
  BY <1>1, <1>2 DEF IInv, AnswersInv
<1>4. outcome.kind # "connection_error"
  <2>1. caller[c].call.verb \in Verbs
    BY <1>2 DEF IInv, CallsInv, Waiting, CallSet
  <2>2. ModelOf(caller[c].call.verb) \in Models \cup {"send"}
    BY <2>1, ModelTypes
  <2>3. answer[c] \in Responses
    BY <1>2 DEF IInv, TypesInv
  <2>4. outcome \in Processed
    BY <1>1, <2>2, <2>3, ProcessType
  <2> QED  BY <2>4, ProcessedKinds
<1>5. /\ \A d \in Callers : d # c => ToldBy(d)' = ToldBy(d)
      /\ ToldBy(c).phase = IF LatestId(c) \in carried THEN "carried" ELSE "open"
      /\ ToldBy(c)' = [ToldBy(c) EXCEPT !.phase = Phase(c)']
      /\ caller'[c].phase = "told" /\ caller'[c].outcome = outcome
      /\ GivenUp' = GivenUp \cup {m \in inbox : Id(m) = LatestId(c)}
  BY <1>2, ReturnStep
<1>6. GivenUp' = GivenUp
  <2>1. \A m \in inbox : Id(m) # LatestId(c)
    BY <1>3, <1>4 DEF Honest
  <2> QED  BY <1>5, <2>1
<1>7. ToldTo[c] = ToldBy(c) /\ ToldTo' = [ToldTo EXCEPT ![c] = ToldBy(c)']
  BY <1>5, ToldOne
<1>8. ToldTo' = [ToldTo EXCEPT ![c].phase = Phase(c)']
  BY <1>5, <1>7
<1>9. CASE outcome.kind \in {"email", "model", "malformed"}
  <2>1. Phase(c)' = "result"
    BY <1>5, <1>9 DEF Phase, Waiting, GotResult, WasRefused, Told
  <2>2. ToldTo[c].phase = "carried"
    BY <1>3, <1>5, <1>7, <1>9 DEF Honest
  <2> QED  BY <1>2, <1>6, <1>8, <2>1, <2>2 DEF Schedule!Result
<1>10. CASE outcome.kind = "api_error" /\ outcome.class # "ServerError"
  <2>1. Phase(c)' = "refused"
    BY <1>5, <1>10 DEF Phase, Waiting, GotResult, WasRefused, Told
  <2>2. ToldTo[c].phase = "open"
    BY <1>3, <1>5, <1>7, <1>10 DEF Honest
  <2> QED  BY <1>2, <1>6, <1>8, <2>1, <2>2 DEF Schedule!Refuse
<1>11. CASE /\ outcome.kind \notin {"email", "model", "malformed"}
            /\ outcome.kind = "api_error" => outcome.class = "ServerError"
  <2>1. Phase(c)' = "unknown"
    BY <1>5, <1>11 DEF Phase, Waiting, GotResult, WasRefused, Told
  <2>2. ToldTo[c].phase \in {"open", "carried"}
    BY <1>5, <1>7
  <2> QED  BY <1>2, <1>6, <1>8, <2>1, <2>2 DEF Schedule!LearnNothing
<1> QED  BY <1>9, <1>10, <1>11

LEMMA TimeOutStep ==
    ASSUME IInv, NEW c \in Callers, TimeOut(c)
    PROVE  Schedule!LearnNothing(c)
<1>1. CallsInv /\ TypesInv
  BY DEF IInv
<1>2. /\ Waiting(c) /\ Return(c, ConnectionError)
      /\ UNCHANGED <<email, now, inbox, carried>>
  BY DEF TimeOut
<1>3. /\ \A d \in Callers : d # c => ToldBy(d)' = ToldBy(d)
      /\ ToldBy(c).phase = IF LatestId(c) \in carried THEN "carried" ELSE "open"
      /\ ToldBy(c)' = [ToldBy(c) EXCEPT !.phase = Phase(c)']
      /\ caller'[c].phase = "told" /\ caller'[c].outcome = ConnectionError
      /\ GivenUp' = GivenUp \cup {m \in inbox : Id(m) = LatestId(c)}
  BY <1>2, ReturnStep
<1>4. Phase(c)' = "unknown"
  BY <1>3 DEF Phase, Waiting, GotResult, WasRefused, Told, ConnectionError
<1>5. ToldTo[c] = ToldBy(c) /\ ToldTo' = [ToldTo EXCEPT ![c] = ToldBy(c)']
  BY <1>3, ToldOne
<1>6. ToldTo' = [ToldTo EXCEPT ![c].phase = "unknown"]
  BY <1>3, <1>4, <1>5
<1>7. CASE \A m \in inbox : Id(m) # LatestId(c)
  <2>1. GivenUp' = GivenUp
    BY <1>3, <1>7
  <2>2. ToldTo[c].phase \in {"open", "carried"}
    BY <1>3, <1>5
  <2> QED  BY <1>2, <1>6, <2>1, <2>2 DEF Schedule!LearnNothing
<1>8. CASE \E m \in inbox : Id(m) = LatestId(c)
  <2>1. PICK m \in inbox : Id(m) = LatestId(c)
    BY <1>8
  <2>2. ToldTo[c].phase = "open"
    BY <1>1, <1>3, <1>5, <2>1 DEF CallsInv
  <2>3. m \in Requests /\ m.caller = c /\ m.n = caller[c].n /\ m.call = caller[c].call
    BY <1>1, <2>1 DEF CallsInv, TypesInv, TypeOK, Id, LatestId
  <2>4. m = [caller |-> c, n |-> ToldTo[c].n, call |-> ToldTo[c].call]
    BY <1>5, <2>3 DEF Requests, ToldBy
  <2>5. {o \in inbox : Id(o) = LatestId(c)} = {m}
    BY <1>1, <2>1 DEF CallsInv
  <2>6. GivenUp' = GivenUp \cup {[caller |-> c, n |-> ToldTo[c].n, call |-> ToldTo[c].call]}
    BY <1>3, <2>4, <2>5
  <2> QED  BY <1>2, <1>6, <2>2, <2>6 DEF Schedule!LearnNothing
<1> QED  BY <1>7, <1>8

LEMMA AnsweredStep ==
    ASSUME NEW m \in inbox, NEW resp, Answer(m, resp)
    PROVE  GivenUp' = GivenUp \ {m}
BY DEF Answer, GivenUp, Waiting

LEMMA RejectStep ==
    ASSUME IInv, NEW m \in inbox, Reject(m)
    PROVE  \/ m \in GivenUp /\ Schedule!LoseLate(m)
           \/ UNCHANGED <<email, now, ToldTo, GivenUp>>
<1>1. PICK resp : Answer(m, resp)
  BY DEF Reject
<1>2. UNCHANGED <<email, now, caller, carried>>
  BY <1>1 DEF Reject, Answer
<1>3. ToldTo' = ToldTo
  BY <1>2, ToldAll, SameTold
<1>4. GivenUp' = GivenUp \ {m}
  BY <1>1, AnsweredStep
<1> QED  BY <1>2, <1>3, <1>4 DEF Schedule!LoseLate

LEMMA CarryStep ==
    ASSUME IInv, NEW m \in inbox, Carry(m)
    PROVE  \/ m.caller \in Callers /\ Schedule!Carry(m.caller)
           \/ m \in GivenUp /\ Schedule!CarryLate(m)
<1> DEFINE c == m.caller
<1>1. TypesInv /\ CallsInv
  BY DEF IInv
<1>2. PICK resp : Answer(m, resp)
  BY DEF Carry
<1>3. UNCHANGED <<now, caller>> /\ carried' = carried \cup {Id(m)}
  BY <1>2 DEF Carry, Answer, Id
<1>4. Schedule!TakesEffect(m.call)
  BY <1>1, CarryTakesEffect
<1>5. GivenUp' = GivenUp \ {m}
  BY <1>2, AnsweredStep
<1>6. c \in Callers
  BY <1>1, RequestFacts DEF TypesInv, TypeOK
<1>7. CASE m \in GivenUp
  <2>1. ASSUME NEW d \in Callers PROVE ToldBy(d)' = ToldBy(d)
    <3>1. CASE Waiting(d)
      <4>1. Id(m) # LatestId(d)
        BY <1>7, <3>1 DEF GivenUp, Id, LatestId
      <4> QED  BY <1>3, <4>1, SameTold
    <3>2. CASE ~Waiting(d)
      BY <1>3, <3>2 DEF ToldBy, Phase, Waiting, GotResult, WasRefused, Told, LatestId
    <3> QED  BY <3>1, <3>2
  <2>2. ToldTo' = ToldTo
    BY <2>1, ToldAll
  <2> QED  BY <1>3, <1>4, <1>5, <1>7, <2>2 DEF Schedule!CarryLate
<1>8. CASE m \notin GivenUp
  <2>1. Waiting(c) /\ caller[c].n = m.n /\ caller[c].call = m.call
    BY <1>1, <1>8 DEF GivenUp, CallsInv
  <2>2. Id(m) = LatestId(c) /\ Id(m) \notin carried
    BY <1>1, <2>1 DEF CallsInv, Id, LatestId
  <2>3. \A d \in Callers : d # c => LatestId(d) # Id(m)
    BY DEF LatestId, Id
  <2>4. \A d \in Callers : d # c => ToldBy(d)' = ToldBy(d)
    BY <1>3, <2>3, SameTold
  <2>5. /\ ToldBy(c) = [n |-> m.n, call |-> m.call, phase |-> "open"]
        /\ ToldBy(c)' = [n |-> m.n, call |-> m.call, phase |-> "carried"]
    <3>1. Phase(c) = "open"
      BY <2>1, <2>2 DEF Phase, Waiting, GotResult, WasRefused, Told
    <3>2. Phase(c)' = "carried"
      <4>1. LatestId(c)' \in carried'
        BY <1>3, <2>2 DEF LatestId
      <4>2. caller'[c].phase = "waiting"
        BY <1>3, <2>1 DEF Waiting
      <4> QED  BY <4>1, <4>2 DEF Phase, Waiting, GotResult, WasRefused, Told
    <3> QED  BY <1>3, <2>1, <3>1, <3>2 DEF ToldBy
  <2>6. ToldTo[c] = ToldBy(c) /\ ToldTo' = [ToldTo EXCEPT ![c] = ToldBy(c)']
    BY <1>6, <2>4, ToldOne
  <2>7. /\ ToldTo[c].phase = "open" /\ ToldTo[c].call = m.call
        /\ ToldTo' = [ToldTo EXCEPT ![c].phase = "carried"]
    <3>1. PICK old, new : old = ToldBy(c) /\ new = ToldBy(c)'
      OBVIOUS
    <3>2. /\ old \in [n : {m.n}, call : {m.call}, phase : {"open"}]
          /\ new \in [n : {m.n}, call : {m.call}, phase : {"carried"}]
      BY <2>5, <3>1
    <3>3. new = [old EXCEPT !.phase = "carried"]
      BY <3>2
    <3>4. ToldTo[c] = old /\ ToldTo' = [ToldTo EXCEPT ![c] = new]
      BY <2>6, <3>1
    <3> HIDE DEF c
    <3>5. ToldTo' = [ToldTo EXCEPT ![c] = [old EXCEPT !.phase = "carried"]]
      BY <3>3, <3>4
    <3>6. ToldTo' = [ToldTo EXCEPT ![c].phase = "carried"]
      BY <3>4, <3>5
    <3> QED  BY <3>2, <3>4, <3>6
  <2>8. UNCHANGED <<now, GivenUp>>
    BY <1>3, <1>5, <1>8
  <2> QED  BY <1>4, <1>6, <2>7, <2>8 DEF Schedule!Carry
<1> QED  BY <1>7, <1>8

LEMMA QuietStep ==
    ASSUME UNCHANGED <<caller, inbox, carried>>
    PROVE  UNCHANGED <<ToldTo, GivenUp>>
BY DEF ToldTo, ToldBy, Phase, Waiting, GotResult, WasRefused, Told, LatestId, GivenUp

(***************************************************************************)
(* Every step of callers, network and server is a step of EmailSchedule,    *)
(* or none at all: a call is carried out at one instant, which its outcome  *)
(* tells, or late, or never.                                               *)
(***************************************************************************)
THEOREM KeepsPromise == Spec => MeetsItsPromise
<1>1. Init => Schedule!Init
  <2> SUFFICES ASSUME Init PROVE Schedule!Init
    OBVIOUS
  <2>1. \A e \in EmailIds : email[e].status \in {"none", "scheduled"}
    BY BeforeAssumption DEF Init
  <2>2. \A c \in Callers : ToldTo[c].n = 0 /\ ToldTo[c].phase = "idle"
    <3>1. \A c \in Callers : caller[c].n = 0 /\ Phase(c) = "idle"
      BY DEF Init, Phase, Waiting, GotResult, WasRefused, Told
    <3> QED  BY <3>1 DEF ToldTo, ToldBy
  <2>3. now = 0 /\ GivenUp = {}
    BY DEF Init, GivenUp
  <2> QED  BY <2>1, <2>2, <2>3 DEF Schedule!Init
<1>2. IInv /\ [Next]_vars => [Schedule!Next]_<<email, now, ToldTo, GivenUp>>
  <2> SUFFICES ASSUME IInv, [Next]_vars
               PROVE  Schedule!Next \/ UNCHANGED <<email, now, ToldTo, GivenUp>>
    OBVIOUS
  <2>1. CASE \E c \in Callers : \E call \in Menu[c] : Begin(c, call)
    BY <2>1, BeginStep DEF Schedule!Next
  <2>2. CASE \E c \in Callers : Receive(c) \/ TimeOut(c)
    BY <2>2, ReceiveStep, TimeOutStep DEF Schedule!Next
  <2>3. CASE \E m \in inbox : Reject(m) \/ Carry(m)
    BY <2>3, RejectStep, CarryStep DEF Schedule!Next
  <2>4. CASE \E e \in EmailIds : Dispatch(e)
    <3>1. PICK e \in EmailIds : Dispatch(e)
      BY <2>4
    <3>2. UNCHANGED <<ToldTo, GivenUp>>
      BY <3>1, QuietStep DEF Dispatch
    <3>3. Schedule!Dispatch(e)
      BY <3>1, <3>2 DEF Dispatch, Schedule!Dispatch
    <3> QED  BY <3>3 DEF Schedule!Next
  <2>5. CASE Tick
    <3>1. UNCHANGED <<ToldTo, GivenUp>>
      BY <2>5, QuietStep DEF Tick
    <3>2. Schedule!Tick
      BY <2>5, <3>1 DEF Tick, Schedule!Tick
    <3> QED  BY <3>2 DEF Schedule!Next
  <2>6. CASE UNCHANGED vars
    BY <2>6, QuietStep DEF vars
  <2> QED  BY <2>1, <2>2, <2>3, <2>4, <2>5, <2>6 DEF Next
<1>3. [Schedule!Next]_<<email, now, ToldTo, GivenUp>> <=> [Schedule!Next]_Schedule!vars
  BY DEF Schedule!vars
<1> QED  BY <1>1, <1>2, <1>3, Invariance, PTL DEF Spec, MeetsItsPromise, Schedule!Spec

(***************************************************************************)
(* What a call did to its emails.  The history placed agrees with the       *)
(* schedule, and names the call that put an email where it is, so that a    *)
(* place is never taken twice.  What a batches.cancel covers, and what a     *)
(* call made alone asks for, holds from the moment it is carried out.       *)
(***************************************************************************)
PlacedInv ==
    \A e \in EmailIds :
        /\ placed[e].batch = email[e].batch
        /\ placed[e].by \in carried \cup {NoPlace.by}
        /\ email[e].status = "none" => email[e].batch = None

CoveredInv ==
    \A c \in Callers, e \in EmailIds, place \in Places :
        <<e, place>> \in caller[c].covered =>
            /\ caller[c].call.verb = "batches.cancel"
            /\ place.batch = caller[c].call.id
            /\ place.by \in carried \cup {NoPlace.by}
            /\ (LatestId(c) \in carried /\ placed[e] = place) => email[e].status # "scheduled"

\* What update and batches.update ask for, of an email that is still scheduled.
Obeyed(call, e) ==
    email[e].status = "scheduled" =>
        /\ call.verb = "update" /\ call.id = e =>
              email[e].due = call.due /\ (call.batch # None => email[e].batch = call.batch)
        /\ call.verb = "batches.update" /\ placed[e].batch = call.id => email[e].due = call.due

AloneInv ==
    \A c \in Callers :
        caller[c].alone =>
            /\ \A m \in inbox : Id(m) = LatestId(c)
            /\ LatestId(c) \in carried => \A e \in EmailIds : Obeyed(caller[c].call, e)

EffectsInv == PlacedInv /\ CoveredInv /\ AloneInv

LEMMA CallFacts ==
    ASSUME NEW call \in CallSet
    PROVE  /\ call.verb \in Verbs /\ call.due \in 0..Horizon /\ call.batch \in Ids \cup {None}
           /\ call.id = None <=> call.verb = "schedule"
           /\ call.batch # None => call.verb \in {"schedule", "update"}
BY DEF CallSet

\* No call carried out twice, and none before the first.
LEMMA NewPlace ==
    ASSUME IInv, NEW m \in inbox
    PROVE  /\ m \in Requests /\ m.call \in CallSet
           /\ Id(m) \notin carried \cup {NoPlace.by}
<1>1. m \in Requests /\ Id(m) \notin carried
  BY DEF IInv, TypesInv, TypeOK, CallsInv
<1>2. m.call \in CallSet /\ Id(m) \in CallIds
  BY <1>1, RequestFacts
<1>3. m.n # 0
  <2>1. PICK c \in Callers : Id(m) \in {c} \X (1..CallsOf[c])
    BY <1>2 DEF CallIds
  <2>2. m.n \in 1..CallsOf[c] /\ CallsOf[c] \in Nat
    BY <2>1, CallersAssumption DEF Id
  <2> QED  BY <2>2
<1>4. Id(m) # NoPlace.by
  BY <1>3 DEF Id, NoPlace
<1> QED  BY <1>1, <1>2, <1>4

\* A call that gives a batch puts one email there; no other moves an email
\* into a batch or out of one.
LEMMA CarryPlaces ==
    ASSUME IInv, NEW m \in inbox, Carry(m)
    PROVE  \/ m.call.batch = None /\ placed' = placed
           \/ \E e \in EmailIds :
                 /\ m.call.batch # None /\ m.call.verb \in {"schedule", "update"}
                 /\ m.call.verb = "update" => e = m.call.id
                 /\ email[e].status = IF m.call.verb = "schedule" THEN "none" ELSE "scheduled"
                 /\ email' = [email EXCEPT ![e] = [ status |-> "scheduled", due |-> m.call.due,
                                                    batch |-> m.call.batch ]]
                 /\ placed' = [placed EXCEPT ![e] = [batch |-> m.call.batch, by |-> Id(m)]]
<1> DEFINE req == Wire(m)
           route == Route(req.path)
           call == m.call
<1>1. /\ m \in Requests /\ call \in CallSet /\ email \in [EmailIds -> Entries]
      /\ placed \in [EmailIds -> Places]
  BY NewPlace DEF IInv, TypesInv, TypeOK, Schedules, Entries
<1>2. PICK scope \in Scopes(route) :
          /\ email' = [e \in EmailIds |-> IF e \in scope THEN Changed(req, email[e]) ELSE email[e]]
          /\ placed' = [ e \in EmailIds |->
                IF e \in scope /\ call.batch # None
                THEN [batch |-> call.batch, by |-> Id(m)] ELSE placed[e] ]
  BY DEF Carry, Id
<1>3. CASE call.batch = None
  <2>1. placed' = placed
    BY <1>1, <1>2, <1>3
  <2> QED  BY <1>3, <2>1
<1>4. CASE call.batch # None
  <2>1. call.verb \in {"schedule", "update"}
    BY <1>1, <1>4, CallFacts
  <2>2. /\ req.method = Method(call.verb) /\ req.due = call.due /\ req.batch = call.batch
        /\ call.verb = "schedule" => route.kind = "send"
        /\ call.verb = "update" => route.kind \in {"item", "list", "none"}
        /\ route.kind = "item" => route.id = call.id
    BY <1>1, <2>1, WireFacts
  <2>3. Verdict(req) = Accepted
    BY DEF Carry
  <2>4. /\ req.method \in Methods(route.kind)
        /\ route.kind = "item" =>
              /\ route.id \in EmailIds
              /\ req.method # "GET" => email[route.id].status = "scheduled"
    BY <2>3 DEF Verdict, Accepted
  <2> HIDE DEF req, route
  <2>5. \A old : Changed(req, old) = [status |-> "scheduled", due |-> call.due, batch |-> call.batch]
    BY <1>4, <2>1, <2>2 DEF Changed, Method
  <2>6. PICK e \in EmailIds :
            /\ scope = {e} /\ (call.verb = "update" => e = call.id)
            /\ email[e].status = IF call.verb = "schedule" THEN "none" ELSE "scheduled"
    <3>1. CASE call.verb = "schedule"
      BY <1>2, <2>2, <3>1 DEF Scopes
    <3>2. CASE call.verb = "update"
      <4>1. route.kind = "item" /\ req.method # "GET"
        BY <2>2, <2>4, <3>2 DEF Method, Methods
      <4> QED  BY <1>2, <2>2, <2>4, <3>2, <4>1 DEF Scopes
    <3> QED  BY <2>1, <3>1, <3>2
  <2>7. email' = [email EXCEPT ![e] = [ status |-> "scheduled", due |-> call.due,
                                        batch |-> call.batch ]]
    BY <1>1, <1>2, <2>5, <2>6
  <2>8. placed' = [placed EXCEPT ![e] = [batch |-> call.batch, by |-> Id(m)]]
    BY <1>1, <1>2, <1>4, <2>6
  <2> QED  BY <1>4, <2>1, <2>6, <2>7, <2>8
<1> QED  BY <1>3, <1>4

LEMMA InitEffects == Init => EffectsInv
<1> SUFFICES ASSUME Init PROVE EffectsInv
  OBVIOUS
<1>1. ASSUME NEW e \in EmailIds
      PROVE  /\ placed[e].batch = email[e].batch /\ placed[e].by = NoPlace.by
             /\ email[e].status = "none" => email[e].batch = None
  BY BeforeAssumption DEF Init, NoPlace
<1>2. \A c \in Callers : caller[c].covered = {} /\ ~caller[c].alone
  BY DEF Init
<1> QED  BY <1>1, <1>2 DEF EffectsInv, PlacedInv, CoveredInv, AloneInv

\* A new call has not been carried out; whoever was alone no longer is.
LEMMA BeginEffects ==
    ASSUME IInv, EffectsInv, NEW c \in Callers, NEW call \in Menu[c], Begin(c, call)
    PROVE  EffectsInv'
<1> DEFINE n == caller[c].n + 1
           new == [caller |-> c, n |-> n, call |-> call]
           covered == IF call.verb = "batches.cancel"
                      THEN { <<e, placed[e]>> : e \in {f \in EmailIds : placed[f].batch = call.id} }
                      ELSE {}
<1>1. TypesInv /\ CallsInv /\ PlacedInv /\ CoveredInv /\ AloneInv
  BY DEF IInv, EffectsInv
<1>2. /\ caller'[c].n = n /\ caller'[c].call = call /\ caller'[c].covered = covered
      /\ caller'[c].alone => inbox = {}
      /\ \A d \in Callers : d # c => caller'[d] = [caller[d] EXCEPT !.alone = FALSE]
      /\ inbox' = inbox \cup {new}
      /\ UNCHANGED <<email, carried, placed>>
  BY DEF Begin
<1>3. ASSUME NEW d \in Callers, d # c
      PROVE  /\ caller'[d].n = caller[d].n /\ caller'[d].call = caller[d].call
             /\ caller'[d].covered = caller[d].covered /\ ~caller'[d].alone
  <2>1. caller[d] \in CallerStates
    BY <1>1 DEF TypesInv
  <2> QED  BY <1>2, <1>3, <2>1 DEF CallerStates
<1>4. LatestId(c)' = <<c, n>> /\ <<c, n>> \notin carried
  <2>1. caller[c].n \in Nat /\ n \in Nat
    BY <1>1 DEF TypesInv, CallerStates
  <2> QED  BY <1>1, <1>2, <2>1 DEF CallsInv, LatestId
<1>5. PlacedInv'
  BY <1>1, <1>2 DEF PlacedInv
<1>6. CoveredInv'
  <2> SUFFICES ASSUME NEW d \in Callers, NEW e \in EmailIds, NEW place \in Places,
                      <<e, place>> \in caller'[d].covered
               PROVE  /\ caller'[d].call.verb = "batches.cancel"
                      /\ place.batch = caller'[d].call.id
                      /\ place.by \in carried' \cup {NoPlace.by}
                      /\ (LatestId(d)' \in carried' /\ placed'[e] = place) =>
                            email'[e].status # "scheduled"
    BY DEF CoveredInv
  <2>1. CASE d = c
    <3>1. call.verb = "batches.cancel" /\ place = placed[e] /\ placed[e].batch = call.id
      BY <1>2, <2>1
    <3> HIDE DEF n
    <3> QED  BY <1>1, <1>2, <1>4, <2>1, <3>1 DEF PlacedInv
  <2>2. CASE d # c
    <3>1. LatestId(d)' = LatestId(d)
      BY <1>3, <2>2 DEF LatestId
    <3> QED  BY <1>1, <1>2, <1>3, <2>2, <3>1 DEF CoveredInv
  <2> QED  BY <2>1, <2>2
<1>7. AloneInv'
  <2> SUFFICES ASSUME NEW d \in Callers, caller'[d].alone
               PROVE  /\ \A m \in inbox' : Id(m) = LatestId(d)'
                      /\ LatestId(d)' \notin carried'
    BY DEF AloneInv, Id
  <2>1. d = c /\ inbox' = {new}
    BY <1>2, <1>3
  <2>2. Id(new) = <<c, n>>
    BY DEF Id
  <2> QED  BY <1>2, <1>4, <2>1, <2>2
<1> QED  BY <1>5, <1>6, <1>7 DEF EffectsInv

\* What a call has done does not depend on its outcome, nor on the requests
\* of others that are never carried out.
LEMMA TellEffects ==
    ASSUME EffectsInv, UNCHANGED <<email, carried, placed>>, inbox' \subseteq inbox,
           \A c \in Callers :
               /\ caller'[c].n = caller[c].n /\ caller'[c].call = caller[c].call
               /\ caller'[c].alone = caller[c].alone /\ caller'[c].covered = caller[c].covered
    PROVE  EffectsInv'
<1>1. \A c \in Callers : LatestId(c)' = LatestId(c)
  BY DEF LatestId
<1>2. PlacedInv'
  BY DEF EffectsInv, PlacedInv
<1>3. CoveredInv'
  BY <1>1 DEF EffectsInv, CoveredInv
<1>4. AloneInv'
  BY <1>1 DEF EffectsInv, AloneInv, Obeyed, Id
<1> QED  BY <1>2, <1>3, <1>4 DEF EffectsInv

LEMMA ReturnEffects ==
    ASSUME IInv, EffectsInv, NEW c \in Callers, Receive(c) \/ TimeOut(c)
    PROVE  EffectsInv'
<1>1. PICK outcome : Return(c, outcome) /\ UNCHANGED <<email, inbox, carried, placed>>
  BY DEF Receive, TimeOut
<1>2. caller \in [Callers -> CallerStates]
  BY DEF IInv, TypesInv
<1>3. \A d \in Callers :
          /\ caller'[d].n = caller[d].n /\ caller'[d].call = caller[d].call
          /\ caller'[d].alone = caller[d].alone /\ caller'[d].covered = caller[d].covered
  BY <1>1, <1>2 DEF Return, CallerStates
<1> QED  BY <1>1, <1>3, TellEffects

LEMMA RejectEffects ==
    ASSUME EffectsInv, NEW m \in inbox, Reject(m)
    PROVE  EffectsInv'
<1>1. UNCHANGED <<email, carried, placed, caller>> /\ inbox' \subseteq inbox
  BY DEF Reject, Answer
<1> QED  BY <1>1, TellEffects

\* An email that is dispatched leaves everything that was asked of it behind.
LEMMA DispatchEffects ==
    ASSUME IInv, EffectsInv, NEW e \in EmailIds, Dispatch(e)
    PROVE  EffectsInv'
<1>1. email[e].status = "scheduled" /\ UNCHANGED <<caller, inbox, carried, placed>>
  BY DEF Dispatch
<1>2. /\ \A f \in EmailIds : f # e => email'[f] = email[f]
      /\ email'[e].status = "sent" /\ email'[e].batch = email[e].batch
  BY DEF Dispatch, IInv, TypesInv, TypeOK, Schedules
<1>3. \A c \in Callers : LatestId(c)' = LatestId(c)
  BY <1>1 DEF LatestId
<1>4. PlacedInv'
  BY <1>1, <1>2 DEF EffectsInv, PlacedInv
<1>5. CoveredInv'
  BY <1>1, <1>2, <1>3 DEF EffectsInv, CoveredInv
<1>6. AloneInv'
  <2>1. ASSUME NEW call, NEW f \in EmailIds, Obeyed(call, f)
        PROVE  Obeyed(call, f)'
    BY <1>1, <1>2, <2>1 DEF Obeyed
  <2> QED  BY <1>1, <1>3, <2>1 DEF EffectsInv, AloneInv, Id, Obeyed
<1> QED  BY <1>4, <1>5, <1>6 DEF EffectsInv

\* A call without a batch leaves every email in its batch, makes pending
\* again only what there was not, and reaches the whole batch it names.
LEMMA WithoutBatch ==
    ASSUME IInv, NEW m \in inbox, Carry(m), m.call.batch = None, NEW e \in EmailIds
    PROVE  /\ email'[e].batch = email[e].batch
           /\ email'[e].status = "none" => email[e].status = "none"
           /\ email'[e].status = "scheduled" /\ email[e].status # "scheduled" =>
                 email[e].status = "none" /\ m.call.verb = "schedule"
           /\ m.call.verb = "batches.cancel" /\ email[e].batch = m.call.id =>
                 email'[e].status # "scheduled"
           /\ m.call.verb = "update" /\ m.call.id = e => email'[e].due = m.call.due
           /\ m.call.verb = "batches.update" /\ email[e].batch = m.call.id
                 /\ email'[e].status = "scheduled" => email'[e].due = m.call.due
<1> DEFINE call == m.call
<1>1. /\ call \in CallSet /\ email \in [EmailIds -> Entries] /\ email' \in [EmailIds -> Entries]
      /\ Schedule!TakesEffect(call) /\ email[e] \in Entries /\ email'[e] \in Entries
  <2>1. TypesInv
    BY DEF IInv
  <2>2. email' \in [EmailIds -> Entries] /\ email \in [EmailIds -> Entries]
    BY <2>1, CarryFacts DEF TypesInv, TypeOK, Schedules, Entries
  <2> QED  BY <2>1, <2>2, NewPlace, CarryTakesEffect
<1> HIDE DEF call
<1>2. ASSUME NEW old \in Entries, call.verb # "get"
      PROVE  /\ Schedule!Changed(call, old).batch = old.batch
             /\ call.verb \in {"cancel", "batches.cancel"} => Schedule!Changed(call, old).status = "canceled"
             /\ call.verb = "batches.update" => Schedule!Changed(call, old).status = old.status
             /\ call.verb \in {"schedule", "update"} => Schedule!Changed(call, old).status = "scheduled"
             /\ call.verb \in {"update", "batches.update"} => Schedule!Changed(call, old).due = call.due
  BY <1>1, CallFacts DEF Schedule!Changed, Entries, Verbs, call
<1>3. CASE call.verb = "schedule"
  <2>1. PICK f \in EmailIds : /\ email[f].status = "none"
                              /\ email' = [email EXCEPT ![f] = Schedule!Changed(call, email[f])]
    BY <1>1, <1>3 DEF Schedule!TakesEffect, Schedule!ChangesOne
  <2>2. CASE e = f
    BY <1>1, <1>2, <1>3, <2>1, <2>2 DEF call
  <2>3. CASE e # f
    BY <1>1, <1>3, <2>1, <2>3 DEF call
  <2> QED  BY <2>2, <2>3
<1>4. CASE call.verb \in {"update", "cancel"}
  <2>1. PICK f \in EmailIds : /\ f = call.id /\ email[f].status = "scheduled"
                              /\ email' = [email EXCEPT ![f] = Schedule!Changed(call, email[f])]
    BY <1>1, <1>4 DEF Schedule!TakesEffect, Schedule!ChangesOne
  <2>2. CASE e = f
    BY <1>1, <1>2, <1>4, <2>1, <2>2 DEF call
  <2>3. CASE e # f
    BY <1>1, <1>4, <2>1, <2>3 DEF call
  <2> QED  BY <2>2, <2>3
<1>5. CASE call.verb = "get"
  <2>1. email' = email
    BY <1>1, <1>5 DEF Schedule!TakesEffect
  <2> QED  BY <1>5, <2>1 DEF call
<1>6. CASE call.verb \in {"batches.update", "batches.cancel"}
  <2>1. email'[e] = IF email[e].status = "scheduled" /\ email[e].batch = call.id
                    THEN Schedule!Changed(call, email[e]) ELSE email[e]
    BY <1>1, <1>6 DEF Schedule!TakesEffect, Schedule!ChangesBatch
  <2>2. CASE email[e].status = "scheduled" /\ email[e].batch = call.id
    BY <1>1, <1>2, <1>6, <2>1, <2>2 DEF call
  <2>3. CASE ~(email[e].status = "scheduled" /\ email[e].batch = call.id)
    BY <1>6, <2>1, <2>3 DEF call
  <2> QED  BY <2>2, <2>3
<1>7. call.verb \in Verbs
  BY <1>1, CallFacts
<1> QED  BY <1>3, <1>4, <1>5, <1>6, <1>7 DEF Verbs

\* A call that gives a batch: the email is there, put there by that call.
LEMMA WithBatch ==
    ASSUME IInv, NEW m \in inbox, Carry(m), m.call.batch # None
    PROVE  /\ m.call.verb \in {"schedule", "update"}
           /\ \E e \in EmailIds :
                 /\ m.call.verb = "update" => e = m.call.id
                 /\ email'[e] = [status |-> "scheduled", due |-> m.call.due, batch |-> m.call.batch]
                 /\ placed'[e] = [batch |-> m.call.batch, by |-> Id(m)]
                 /\ \A f \in EmailIds : f # e => email'[f] = email[f] /\ placed'[f] = placed[f]
<1>1. email \in [EmailIds -> Entries] /\ placed \in [EmailIds -> Places]
  BY DEF IInv, TypesInv, TypeOK, Schedules, Entries
<1> QED  BY <1>1, CarryPlaces

LEMMA CarryPlaced ==
    ASSUME IInv, PlacedInv, NEW m \in inbox, Carry(m)
    PROVE  PlacedInv'
<1>1. carried' = carried \cup {Id(m)}
  BY DEF Carry, Id
<1>2. CASE m.call.batch = None
  <2>1. placed' = placed
    BY <1>2, CarryPlaces
  <2>2. \A e \in EmailIds : /\ email'[e].batch = email[e].batch
                            /\ email'[e].status = "none" => email[e].status = "none"
    BY <1>2, WithoutBatch
  <2> QED  BY <1>1, <2>1, <2>2 DEF PlacedInv
<1>3. CASE m.call.batch # None
  <2>1. PICK e \in EmailIds :
            /\ email'[e] = [status |-> "scheduled", due |-> m.call.due, batch |-> m.call.batch]
            /\ placed'[e] = [batch |-> m.call.batch, by |-> Id(m)]
            /\ \A f \in EmailIds : f # e => email'[f] = email[f] /\ placed'[f] = placed[f]
    BY <1>3, WithBatch
  <2>2. /\ email'[e].status = "scheduled" /\ email'[e].batch = m.call.batch
        /\ placed'[e].batch = m.call.batch /\ placed'[e].by = Id(m)
    BY <2>1
  <2> QED  BY <1>1, <2>1, <2>2 DEF PlacedInv
<1> QED  BY <1>2, <1>3

\* A batches.cancel, when it is carried out, leaves nothing of its batch
\* pending.  Afterwards a place it covered is never taken again, and what is
\* newly scheduled was in no batch.
LEMMA CarryCovered ==
    ASSUME IInv, PlacedInv, CoveredInv, NEW m \in inbox, Carry(m)
    PROVE  CoveredInv'
<1>1. carried' = carried \cup {Id(m)} /\ caller' = caller
  BY DEF Carry, Answer, Id
<1>2. SUFFICES ASSUME NEW c \in Callers, NEW e \in EmailIds, NEW place \in Places,
                      <<e, place>> \in caller[c].covered,
                      LatestId(c) \in carried', placed'[e] = place,
                      email'[e].status = "scheduled"
               PROVE  FALSE
  BY <1>1 DEF CoveredInv, LatestId
<1>3. /\ caller[c].call.verb = "batches.cancel" /\ place.batch = caller[c].call.id
      /\ place.by \in carried \cup {NoPlace.by}
      /\ (LatestId(c) \in carried /\ placed[e] = place) => email[e].status # "scheduled"
  BY <1>2 DEF CoveredInv
<1>4. caller[c].call.id # None
  <2>1. caller[c] \in CallerStates /\ NoCall.verb # "batches.cancel"
    BY DEF IInv, TypesInv, NoCall, None
  <2>2. caller[c].call \in CallSet
    BY <1>3, <2>1 DEF CallerStates
  <2> QED  BY <1>3, <2>2, CallFacts
<1>5. placed[e] = place /\ email'[e].batch = email[e].batch
      /\ (email[e].status # "scheduled" => email[e].status = "none" /\ m.call.verb = "schedule")
      /\ (LatestId(c) = Id(m) => email[e].batch # m.call.id)
  <2>1. CASE m.call.batch = None
    <3>1. placed' = placed
      BY <2>1, CarryPlaces
    <3>2. LatestId(c) = Id(m) => m.call.verb = "batches.cancel"
      BY <1>3 DEF IInv, CallsInv, LatestId, Id
    <3> QED  BY <1>2, <2>1, <3>1, <3>2, WithoutBatch
  <2>2. CASE m.call.batch # None
    <3>1. PICK f \in EmailIds :
              /\ placed'[f] = [batch |-> m.call.batch, by |-> Id(m)]
              /\ \A g \in EmailIds : g # f => email'[g] = email[g] /\ placed'[g] = placed[g]
      BY <2>2, WithBatch
    <3>2. placed'[f].by = Id(m)
      BY <3>1
    <3>3. Id(m) \notin carried \cup {NoPlace.by}
      BY NewPlace
    <3>4. e # f
      BY <1>2, <1>3, <3>2, <3>3
    <3>5. LatestId(c) # Id(m)
      <4>1. LatestId(c) = Id(m) => m.call = caller[c].call
        BY DEF IInv, CallsInv, LatestId, Id
      <4>2. m.call.verb \in {"schedule", "update"}
        BY <2>2, WithBatch
      <4> QED  BY <1>3, <4>1, <4>2
    <3> QED  BY <1>2, <3>1, <3>4, <3>5
  <2> QED  BY <2>1, <2>2
<1>6. email[e].batch = caller[c].call.id
  BY <1>3, <1>5 DEF PlacedInv
<1>7. email[e].status = "scheduled"
  BY <1>4, <1>5, <1>6 DEF PlacedInv
<1>8. CASE LatestId(c) = Id(m)
  <2>1. caller[c].call = m.call
    BY <1>8 DEF IInv, CallsInv, LatestId, Id
  <2> QED  BY <1>5, <1>6, <1>8, <2>1
<1>9. CASE LatestId(c) # Id(m)
  BY <1>1, <1>2, <1>3, <1>5, <1>7, <1>9
<1> QED  BY <1>8, <1>9

\* The request of a call made alone is the only one there is.
LEMMA CarryAlone ==
    ASSUME IInv, PlacedInv, AloneInv, NEW m \in inbox, Carry(m)
    PROVE  AloneInv'
<1>1. /\ carried' = carried \cup {Id(m)} /\ caller' = caller /\ inbox' = inbox \ {m}
  BY DEF Carry, Answer, Id
<1>2. SUFFICES ASSUME NEW c \in Callers, caller[c].alone
               PROVE  /\ \A o \in inbox' : Id(o) = LatestId(c)
                      /\ \A e \in EmailIds : Obeyed(caller[c].call, e)'
  BY <1>1 DEF AloneInv, Id, LatestId, Obeyed
<1>3. \A o \in inbox' : Id(o) = LatestId(c)
  BY <1>1, <1>2 DEF AloneInv
<1>4. Id(m) = LatestId(c) /\ caller[c].call = m.call
  <2>1. Id(m) = LatestId(c)
    BY <1>2 DEF AloneInv
  <2> QED  BY <2>1 DEF IInv, CallsInv, LatestId, Id
<1>5. ASSUME NEW e \in EmailIds, email'[e].status = "scheduled"
      PROVE  /\ m.call.verb = "update" /\ m.call.id = e =>
                    /\ email'[e].due = m.call.due
                    /\ m.call.batch # None => email'[e].batch = m.call.batch
             /\ m.call.verb = "batches.update" /\ placed'[e].batch = m.call.id =>
                    email'[e].due = m.call.due
  <2>1. CASE m.call.batch = None
    <3>1. placed' = placed /\ placed[e].batch = email[e].batch
      BY <2>1, CarryPlaces DEF PlacedInv
    <3> QED  BY <1>5, <2>1, <3>1, WithoutBatch
  <2>2. CASE m.call.batch # None
    <3>1. PICK f \in EmailIds :
              /\ m.call.verb \in {"schedule", "update"}
              /\ m.call.verb = "update" => f = m.call.id
              /\ email'[f] = [status |-> "scheduled", due |-> m.call.due, batch |-> m.call.batch]
      BY <2>2, WithBatch
    <3>2. email'[f].due = m.call.due /\ email'[f].batch = m.call.batch
      BY <3>1
    <3> QED  BY <3>1, <3>2
  <2> QED  BY <2>1, <2>2
<1>6. \A e \in EmailIds : Obeyed(m.call, e)'
  BY <1>5 DEF Obeyed
<1> QED  BY <1>1, <1>3, <1>4, <1>6

LEMMA EffectsInvariance == Spec => []EffectsInv
<1>1. IInv /\ EffectsInv /\ [Next]_vars => EffectsInv'
  <2> SUFFICES ASSUME IInv, EffectsInv, [Next]_vars PROVE EffectsInv'
    OBVIOUS
  <2>1. CASE \E c \in Callers : \E call \in Menu[c] : Begin(c, call)
    BY <2>1, BeginEffects
  <2>2. CASE \E c \in Callers : Receive(c) \/ TimeOut(c)
    BY <2>2, ReturnEffects
  <2>3. CASE \E m \in inbox : Reject(m)
    BY <2>3, RejectEffects
  <2>4. CASE \E m \in inbox : Carry(m)
    BY <2>4, CarryPlaced, CarryCovered, CarryAlone DEF EffectsInv
  <2>5. CASE \E e \in EmailIds : Dispatch(e)
    BY <2>5, DispatchEffects
  <2>6. CASE Tick \/ UNCHANGED vars
    BY <2>6, TellEffects DEF Tick, vars
  <2> QED  BY <2>1, <2>2, <2>3, <2>4, <2>5, <2>6 DEF Next
<1> QED  BY <1>1, InitEffects, Invariance, PTL DEF Spec

(***************************************************************************)
(* Once batches.cancel has returned, no email that its calls had put into   *)
(* the batch when it began is still scheduled, unless a later call moved    *)
(* it, whatever else was under way.                                        *)
(***************************************************************************)
THEOREM BatchCovered == Spec => []BatchCancelCoversTheBatch
<1>1. IInv /\ EffectsInv => BatchCancelCoversTheBatch
  <2> SUFFICES ASSUME IInv, EffectsInv, NEW c \in Callers, GotResult(c),
                      NEW p \in caller[c].covered, placed[p[1]] = p[2]
               PROVE  email[p[1]].status # "scheduled"
    BY DEF BatchCancelCoversTheBatch
  <2>1. LatestId(c) \in carried
    BY DEF IInv, OutcomesInv, GotResult, Honest
  <2>2. p \in EmailIds \X Places
    BY DEF IInv, TypesInv, CallerStates
  <2>3. p = <<p[1], p[2]>> /\ p[1] \in EmailIds /\ p[2] \in Places
    BY <2>2
  <2> QED  BY <2>1, <2>3 DEF EffectsInv, CoveredInv
<1> QED  BY <1>1, Invariance, EffectsInvariance, PTL

(***************************************************************************)
(* A caller whose update returned, with no other call under way and none    *)
(* given up before, finds the email, or the whole batch, where it put it.   *)
(***************************************************************************)
THEOREM AloneObeyed == Spec => []AloneItIsObeyed
<1>1. IInv /\ EffectsInv => AloneItIsObeyed
  BY DEF IInv, OutcomesInv, GotResult, Honest, EffectsInv, AloneInv, Obeyed, AloneItIsObeyed
<1> QED  BY <1>1, Invariance, EffectsInvariance, PTL
==============================================================================
