----------------------------- MODULE ClientProofs -----------------------------
(***************************************************************************)
(* The safety properties of Client, for any number of clients, calls, keys *)
(* and origins, any environment and any server.                            *)
(***************************************************************************)
EXTENDS Client, ResponsesProofs, TLAPS

(***************************************************************************)
(* The inductive invariant.  The properties are about what a call returned *)
(* or put on the wire; what makes them inductive is what is known of a     *)
(* call on its way there.                                                  *)
(***************************************************************************)

\* An owned httpx client is the object's own, a borrowed one is the caller's.
OwnershipInv ==
    \A k \in Clients :
        Made(k) => IF client[k].owns THEN client[k].http = k
                                     ELSE client[k].http \in CallerHttps

\* Pools exist for the clients that own them, and close by their owners' hand.
PoolInv ==
    /\ NoOrphanPool
    /\ \A h \in Https : http[h].state = "closed" => h \in closers

\* A call that began has a client, and a send has no link to follow.
BegunInv(c) ==
    IF call[c].phase = "idle" THEN call[c].model = None
    ELSE /\ call[c].client \in Clients
         /\ Made(call[c].client)
         /\ call[c].model \in Models \cup {"send"}
         /\ call[c].model = "send" => call[c].target = Relative

\* The request of a call is its own, under its client's key and origin.
RequestInv(c) ==
    call[c].request # NoRequest =>
        /\ call[c].request \in Requests
        /\ call[c].request.call = c
        /\ call[c].phase # "idle"
        /\ call[c].request.key = client[call[c].client].key
        /\ call[c].request.origin = client[call[c].client].base

\* At most that one request is on the wire, and not before it is sent.
WireInv(c) ==
    /\ call[c].phase \in {"idle", "begun"} => call[c].request = NoRequest
    /\ call[c].phase \in {"prepared", "sent"} => call[c].request # NoRequest
    /\ call[c].phase \in {"idle", "begun", "prepared"} => wire[c] = << >>
    /\ wire[c] # << >> => /\ call[c].request # NoRequest
                          /\ wire[c] = << call[c].request >>

\* A call has an outcome when it is done, and what it received is its answer.
OutcomeInv(c) ==
    /\ call[c].phase # "done" => call[c].outcome = Pending
    /\ call[c].phase = "received" =>
         \E a \in answers : a.request.call = c /\ a.resp = call[c].reply
    /\ call[c].outcome \in Processed =>
         \E a \in answers : /\ a.request.call = c
                            /\ call[c].outcome = Process(call[c].model, a.resp)
    /\ call[c].outcome = Refused => call[c].model # "send"
    /\ call[c].outcome \in {Refused, ValueError, RuntimeError, EncodeError} => wire[c] = << >>
    /\ call[c].outcome = RuntimeError => HttpOf(c) \in closers
    /\ call[c].outcome = EncodeError => call[c].args = "unencodable"
    /\ call[c].outcome = ValueError =>
         MalformedUrl \in {client[call[c].client].base, call[c].target}

CallInv(c) == BegunInv(c) /\ RequestInv(c) /\ WireInv(c) /\ OutcomeInv(c)

IInv == TypeOK /\ OwnershipInv /\ PoolInv /\ \A c \in Calls : CallInv(c)

(***************************************************************************)
(* Lemmas.                                                                 *)
(***************************************************************************)

\* The outcomes that involve no response are not those of processed ones.
LEMMA OutcomesDiffer ==
    /\ { Pending, ConnectionError, Refused, ValueError, RuntimeError, EncodeError, Cancelled }
         \cap Processed = {}
    /\ Pending # ConnectionError /\ Pending # Refused /\ Pending # ValueError
    /\ Pending # RuntimeError /\ Pending # Cancelled
    /\ ConnectionError # Refused /\ ConnectionError # ValueError
    /\ ConnectionError # RuntimeError
    /\ Refused # ValueError /\ Refused # RuntimeError /\ Refused # Cancelled
    /\ ValueError # RuntimeError /\ ValueError # Cancelled
    /\ RuntimeError # Cancelled
    /\ \A o \in {Pending, ConnectionError, Refused, ValueError, RuntimeError, Cancelled} :
          o # EncodeError
  <1> USE DEF Pending, ConnectionError, Refused, ValueError, RuntimeError, EncodeError, Cancelled
  <1>1. \A o \in Processed :
          o \notin { Pending, ConnectionError, Refused, ValueError, RuntimeError, EncodeError,
                     Cancelled }
    BY ProcessedKinds
  <1> QED BY <1>1

\* A request that was made is not the placeholder for none.
LEMMA RequestsAreNotNone == NoRequest \notin Requests
  BY KeysAssumption DEF NoRequest, Requests

\* What the constructor of a client stored.
LEMMA MadeType ==
    ASSUME TypeOK, NEW k \in Clients, Made(k)
    PROVE  client[k].key \in Keys /\ client[k].base \in Urls /\ client[k].http \in Https
  <1>1. client[k] \in ClientStates /\ client[k].state = "made"
    BY DEF TypeOK, Made
  <1>2. Unmade.state # "made" /\ Failed.state # "made"
    BY DEF Unmade, Failed
  <1>3. client[k] \in [ state : {"made"}, key : Keys, base : Urls,
                        owns : BOOLEAN, http : Https ]
    BY <1>1, <1>2 DEF ClientStates
  <1> QED BY <1>3

\* What is known of a call stays known while the call itself takes no step.
LEMMA CallFrame ==
    ASSUME NEW c \in Calls, CallInv(c),
           call'[c] = call[c], wire'[c] = wire[c],
           answers \subseteq answers', closers \subseteq closers',
           call[c].phase # "idle" => client'[call[c].client] = client[call[c].client]
    PROVE  CallInv(c)'
  <1>1. BegunInv(c)'
    BY DEF CallInv, BegunInv, Made
  <1>2. RequestInv(c)'
    BY DEF CallInv, RequestInv
  <1>3. WireInv(c)'
    BY DEF CallInv, WireInv
  <1>4. OutcomeInv(c)'
    BY OutcomesDiffer DEF CallInv, OutcomeInv, HttpOf
  <1> QED BY <1>1, <1>2, <1>3, <1>4 DEF CallInv

\* A step of one call preserves the invariant if it preserves the call's own.
LEMMA OneCallStep ==
    ASSUME IInv, NEW c \in Calls, TypeOK',
           UNCHANGED <<client, http, closers, answers>>,
           \A d \in Calls \ {c} : call'[d] = call[d] /\ wire'[d] = wire[d],
           CallInv(c)'
    PROVE  IInv'
  <1>1. OwnershipInv' /\ PoolInv'
    BY DEF IInv, OwnershipInv, PoolInv, NoOrphanPool, Made
  <1>2. ASSUME NEW d \in Calls PROVE CallInv(d)'
    <2>1. CASE d = c
      BY <2>1
    <2>2. CASE d # c
      BY <2>2, CallFrame DEF IInv
    <2> QED BY <2>1, <2>2
  <1> QED BY <1>1, <1>2 DEF IInv

\* A step that leaves every call alone, and what calls look at, preserves
\* what is known of them.
LEMMA NoCallStep ==
    ASSUME IInv, UNCHANGED <<call, wire>>,
           answers \subseteq answers', closers \subseteq closers',
           \A k \in Clients : Made(k) => client'[k] = client[k]
    PROVE  \A c \in Calls : CallInv(c)'
  <1> SUFFICES ASSUME NEW c \in Calls PROVE CallInv(c)'
    OBVIOUS
  <1>1. call[c].phase # "idle" => client'[call[c].client] = client[call[c].client]
    BY DEF IInv, CallInv, BegunInv
  <1> QED BY <1>1, CallFrame DEF IInv

(***************************************************************************)
(* The initial states.                                                     *)
(***************************************************************************)
LEMMA InitInv == Init => IInv
  <1> SUFFICES ASSUME Init PROVE IInv
    OBVIOUS
  <1>1. TypeOK
    <2>1. client \in [Clients -> ClientStates]
      BY DEF Init, ClientStates
    <2>2. http \in [Https -> [state : {"none", "open", "closed"}, timed : BOOLEAN]]
      BY DEF Init
    <2>3. Idle \in CallStates
      BY DEF Idle, CallStates, Phases, Outcomes
    <2>4. wire \in [Calls -> Seq(Requests)]
      BY DEF Init
    <2> QED BY <2>1, <2>2, <2>3, <2>4 DEF Init, TypeOK
  <1>2. OwnershipInv /\ PoolInv
    BY HttpsAssumption DEF Init, OwnershipInv, PoolInv, NoOrphanPool, Made, Unmade, Https
  <1>3. \A c \in Calls : CallInv(c)
    BY OutcomesDiffer DEF Init, Idle, CallInv, BegunInv, RequestInv, WireInv, OutcomeInv
  <1> QED BY <1>1, <1>2, <1>3 DEF IInv

(***************************************************************************)
(* The steps of the program.                                               *)
(***************************************************************************)
LEMMA ChangeEnvInv == IInv /\ ChangeEnv => IInv'
  <1> SUFFICES ASSUME IInv, ChangeEnv PROVE IInv'
    OBVIOUS
  <1>1. TypeOK'
    BY DEF IInv, TypeOK, ChangeEnv
  <1>2. OwnershipInv' /\ PoolInv'
    BY DEF IInv, ChangeEnv, OwnershipInv, PoolInv, NoOrphanPool, Made
  <1>3. \A c \in Calls : CallInv(c)'
    BY NoCallStep DEF ChangeEnv
  <1> QED BY <1>1, <1>2, <1>3 DEF IInv

LEMMA ConstructInv ==
    ASSUME IInv, NEW k \in Clients, NEW key \in Keys \cup {None},
           NEW base \in Bases \cup {None}, NEW inject \in CallerHttps \cup {None},
           Construct(k, key, base, inject)
    PROVE  IInv'
  <1> DEFINE theKey == Or(key, env.key)
             theBase == Or(Or(base, env.base), DefaultOrigin)
             made == [ state |-> "made", key |-> theKey, base |-> theBase,
                       owns |-> inject = None, http |-> Or(inject, k) ]
  <1>1. /\ client[k].state = "unmade"
        /\ client' = [client EXCEPT ![k] = IF theKey = None THEN Failed ELSE made]
        /\ http' = IF inject = None THEN OpenOwned(k, theKey) ELSE http
        /\ UNCHANGED <<env, call, wire, answers, closers>>
    BY DEF Construct
  <1>2. theKey \in Keys \cup {None} /\ theBase \in Urls
    BY EnvsAssumption, OriginsAssumption DEF IInv, TypeOK, Or, Urls
  <1>3. theKey # None => made \in ClientStates
    <2>1. Or(inject, k) \in Https
      BY DEF Or, Https
    <2> QED BY <1>2, <2>1 DEF ClientStates
  <1>4. client' \in [Clients -> ClientStates]
    BY <1>1, <1>3 DEF IInv, TypeOK, ClientStates
  <1>5. http' \in [Https -> [state : {"none", "open", "closed"}, timed : BOOLEAN]]
    BY <1>1 DEF IInv, TypeOK, OpenOwned, OwnHttp
  <1>6. TypeOK'
    BY <1>1, <1>4, <1>5 DEF IInv, TypeOK
  <1>7. \A j \in Clients : j # k => client'[j] = client[j] /\ http'[j] = http[j]
    BY <1>1 DEF IInv, TypeOK, OpenOwned, Https
  <1>8. OwnershipInv'
    <2> SUFFICES ASSUME NEW j \in Clients, Made(j)'
                 PROVE  IF client'[j].owns THEN client'[j].http = j
                                           ELSE client'[j].http \in CallerHttps
      BY DEF OwnershipInv
    <2>1. CASE j # k
      BY <2>1, <1>7 DEF IInv, OwnershipInv, Made
    <2>2. CASE j = k
      <3>1. client'[k] = IF theKey = None THEN Failed ELSE made
        BY <1>1 DEF IInv, TypeOK
      <3>2. client'[k] = made
        BY <2>2, <3>1 DEF Made, Failed, Unmade
      <3>3. CASE inject = None
        <4>1. made.owns = TRUE /\ made.http = k
          BY <3>3 DEF Or
        <4> QED BY <2>2, <3>2, <4>1
      <3>4. CASE inject # None
        <4>1. made.owns = FALSE /\ made.http \in CallerHttps
          BY <3>4 DEF Or
        <4> QED BY <2>2, <3>2, <4>1
      <3> QED BY <3>3, <3>4
    <2> QED BY <2>1, <2>2
  <1>9. PoolInv'
    <2>1. NoOrphanPool'
      <3> SUFFICES ASSUME NEW j \in Clients, http'[j].state # "none"
                   PROVE  Made(j)' /\ client'[j].http = j
        BY DEF NoOrphanPool
      <3>1. CASE j # k
        BY <3>1, <1>7 DEF IInv, PoolInv, NoOrphanPool, Made
      <3>2. CASE j = k
        <4>1. http[k].state = "none"
          BY <1>1 DEF IInv, PoolInv, NoOrphanPool, Made
        <4>2. http' # http
          BY <3>2, <4>1
        <4>3. inject = None /\ theKey # None
          BY <4>2, <1>1 DEF OpenOwned
        <4>4. client'[k] = made
          BY <4>3, <1>1 DEF IInv, TypeOK
        <4> QED BY <3>2, <4>3, <4>4 DEF Made, Or
      <3> QED BY <3>1, <3>2
    <2>2. ASSUME NEW h \in Https, http'[h].state = "closed" PROVE h \in closers'
      BY <2>2, <1>1 DEF IInv, PoolInv, TypeOK, OpenOwned, OwnHttp
    <2> QED BY <2>1, <2>2 DEF PoolInv
  <1>10. \A c \in Calls : CallInv(c)'
    BY <1>1, <1>7, NoCallStep DEF Made
  <1> QED BY <1>6, <1>8, <1>9, <1>10 DEF IInv

LEMMA CloseInv ==
    ASSUME IInv, NEW k \in Clients, Close(k) PROVE IInv'
  <1>1. Made(k) /\ client[k].owns => client[k].http = k
    BY DEF IInv, OwnershipInv
  <1>2. TypeOK'
    BY <1>1 DEF IInv, TypeOK, Close, Closes, Https
  <1>3. OwnershipInv'
    BY DEF IInv, OwnershipInv, Close, Made
  <1>4. PoolInv'
    BY <1>1 DEF IInv, TypeOK, PoolInv, NoOrphanPool, Close, Closes, Made, Https
  <1>5. \A c \in Calls : CallInv(c)'
    BY NoCallStep DEF Close
  <1> QED BY <1>2, <1>3, <1>4, <1>5 DEF IInv

LEMMA CloseHttpInv ==
    ASSUME IInv, NEW h \in CallerHttps, CloseHttp(h) PROVE IInv'
  <1>1. TypeOK'
    BY DEF IInv, TypeOK, CloseHttp, Https
  <1>2. OwnershipInv'
    BY DEF IInv, OwnershipInv, CloseHttp, Made
  <1>3. PoolInv'
    BY HttpsAssumption DEF IInv, TypeOK, PoolInv, NoOrphanPool, CloseHttp, Made, Https
  <1>4. \A c \in Calls : CallInv(c)'
    BY NoCallStep DEF CloseHttp
  <1> QED BY <1>1, <1>2, <1>3, <1>4 DEF IInv

(***************************************************************************)
(* The steps of a call.                                                    *)
(***************************************************************************)

\* A call that returns with an outcome that involves no response.
LEMMA ReturnInv ==
    ASSUME IInv, NEW c \in Calls, NEW outcome \in Outcomes,
           call[c].phase \notin {"idle", "done"},
           call' = Return(c, outcome),
           UNCHANGED <<env, client, http, wire, answers, closers>>,
           outcome \notin Processed,
           outcome = Refused => call[c].model # "send",
           outcome \in {Refused, ValueError, RuntimeError, EncodeError} => wire[c] = << >>,
           outcome = RuntimeError => HttpOf(c) \in closers,
           outcome = EncodeError => call[c].args = "unencodable",
           outcome = ValueError =>
             MalformedUrl \in {client[call[c].client].base, call[c].target}
    PROVE  IInv'
  <1> DEFINE after == [call[c] EXCEPT !.phase = "done", !.outcome = outcome]
  <1>0. after \in CallStates
    BY ZenonT(30) DEF IInv, TypeOK, CallStates, Phases
  <1>1. TypeOK'
    <2>1. call' = [call EXCEPT ![c] = after]
      BY DEF IInv, TypeOK, Return
    <2> HIDE DEF after
    <2> QED BY <1>0, <2>1 DEF IInv, TypeOK
  <1>2. call'[c] = [call[c] EXCEPT !.phase = "done", !.outcome = outcome]
    BY DEF IInv, TypeOK, Return
  <1>3. \A d \in Calls \ {c} : call'[d] = call[d]
    BY DEF IInv, TypeOK, Return
  <1>4. /\ call'[c].phase = "done" /\ call'[c].outcome = outcome
        /\ call'[c].client = call[c].client /\ call'[c].model = call[c].model
        /\ call'[c].target = call[c].target /\ call'[c].request = call[c].request
        /\ call'[c].args = call[c].args
    BY <1>2 DEF IInv, TypeOK
  <1>5. CallInv(c)
    BY DEF IInv
  <1>6. BegunInv(c)' /\ RequestInv(c)' /\ WireInv(c)'
    BY <1>4, <1>5 DEF CallInv, BegunInv, RequestInv, WireInv, Made
  <1>7. OutcomeInv(c)'
    BY <1>4, <1>5 DEF CallInv, OutcomeInv, HttpOf
  <1> QED BY <1>1, <1>3, <1>6, <1>7, OneCallStep DEF CallInv

LEMMA BeginInv ==
    ASSUME IInv, NEW c \in Calls, NEW k \in Clients, NEW model \in Models \cup {"send"},
           NEW target \in Links \cup {Relative}, NEW args \in Args,
           Begin(c, k, model, target, args)
    PROVE  IInv'
  <1>1. target \in Urls \cup {Relative, None}
    BY OriginsAssumption DEF Urls
  <1> DEFINE after == [ call[c] EXCEPT !.phase = "begun", !.client = k,
                                       !.model = model, !.target = target, !.args = args ]
  <1>2. TypeOK'
    <2>1. after \in CallStates
      BY ZenonT(30), <1>1 DEF IInv, TypeOK, CallStates, Phases
    <2>2. call' = [call EXCEPT ![c] = after]
      BY DEF IInv, TypeOK, Begin
    <2>3. UNCHANGED <<env, client, http, wire, answers, closers>>
      BY DEF Begin
    <2> HIDE DEF after
    <2> QED BY <2>1, <2>2, <2>3 DEF IInv, TypeOK
  <1>3. /\ call'[c].phase = "begun" /\ call'[c].client = k
        /\ call'[c].model = model /\ call'[c].target = target
        /\ call'[c].request = call[c].request /\ call'[c].outcome = call[c].outcome
    BY DEF IInv, TypeOK, Begin
  <1>4. \A d \in Calls \ {c} : call'[d] = call[d] /\ wire'[d] = wire[d]
    BY DEF IInv, TypeOK, Begin
  <1>5. CallInv(c) /\ call[c].phase = "idle" /\ Made(k) /\ (model = "send" => target = Relative)
    BY DEF IInv, Begin
  <1>6. CallInv(c)'
    BY <1>3, <1>5, OutcomesDiffer
    DEF Begin, CallInv, BegunInv, RequestInv, WireInv, OutcomeInv, Made
  <1> QED BY <1>2, <1>4, <1>6, OneCallStep DEF Begin

LEMMA PrepareInv ==
    ASSUME IInv, NEW c \in Calls, Prepare(c) PROVE IInv'
  <1> DEFINE k == call[c].client
             url == UrlJoin(client[k].base, call[c].target)
             request == [call |-> c, key |-> ApiKey(k), origin |-> url]
  <1>1. CallInv(c) /\ call[c].phase = "begun" /\ k \in Clients /\ Made(k)
    BY DEF IInv, Prepare, CallInv, BegunInv
  <1>2. client[k].key \in Keys /\ client[k].base \in Urls
    BY <1>1, MadeType DEF IInv
  <1>3. wire[c] = << >>
    BY <1>1 DEF CallInv, WireInv
  <1>4. CASE url = MalformedUrl
    <2>1. MalformedUrl \in {client[k].base, call[c].target}
      BY <1>4, <1>2, OriginsAssumption DEF UrlJoin
    <2>2. call' = Return(c, ValueError)
      BY <1>4 DEF Prepare
    <2> QED
      BY <1>1, <1>3, <2>1, <2>2, ReturnInv, OutcomesDiffer DEF Prepare, Outcomes
  <1>5. CASE url # MalformedUrl /\ ~OnOrigin(url, client[k].base)
    <2>1. call[c].model # "send"
      BY <1>1, <1>5 DEF CallInv, BegunInv, UrlJoin, OnOrigin
    <2>2. call' = Return(c, Refused)
      BY <1>5 DEF Prepare
    <2> QED
      BY <1>1, <1>3, <2>1, <2>2, ReturnInv, OutcomesDiffer DEF Prepare, Outcomes
  <1>6. CASE url # MalformedUrl /\ OnOrigin(url, client[k].base)
    <2>1. call' = [call EXCEPT ![c].phase = "prepared", ![c].request = request]
      BY <1>6 DEF Prepare
    <2>2. url = client[k].base /\ url \in Origins
      BY <1>2, <1>6 DEF OnOrigin, Urls
    <2>3. request \in Requests /\ request # NoRequest
      BY <1>2, <2>2, RequestsAreNotNone DEF Requests, ApiKey
    <2>4. TypeOK'
      <3> DEFINE after == [call[c] EXCEPT !.phase = "prepared", !.request = request]
      <3> HIDE DEF request
      <3>1. after \in CallStates
        BY <2>3 DEF IInv, TypeOK, CallStates, Phases
      <3>2. call' = [call EXCEPT ![c] = after]
        BY <2>1 DEF IInv, TypeOK
      <3> HIDE DEF after
      <3> QED BY <3>1, <3>2 DEF IInv, TypeOK, Prepare
    <2>5. /\ call'[c].phase = "prepared" /\ call'[c].request = request
          /\ call'[c].client = k /\ call'[c].model = call[c].model
          /\ call'[c].target = call[c].target /\ call'[c].outcome = call[c].outcome
      BY <2>1 DEF IInv, TypeOK
    <2>6. \A d \in Calls \ {c} : call'[d] = call[d] /\ wire'[d] = wire[d]
      BY <2>1 DEF IInv, TypeOK, Prepare
    <2>7. BegunInv(c)'
      BY <1>1, <2>5 DEF Prepare, CallInv, BegunInv, Made
    <2>8. RequestInv(c)' /\ WireInv(c)'
      <3>1. UNCHANGED <<client, wire>>
        BY DEF Prepare
      <3>2. request.call = c /\ request.key = client[k].key /\ request.origin = client[k].base
        BY <2>2 DEF ApiKey
      <3> HIDE DEF request
      <3>3. RequestInv(c)'
        BY <2>3, <2>5, <3>1, <3>2 DEF RequestInv
      <3>4. WireInv(c)'
        BY <1>3, <2>3, <2>5, <3>1 DEF WireInv
      <3> QED BY <3>3, <3>4
    <2>9. OutcomeInv(c)'
      BY <1>1, <1>3, <2>5, OutcomesDiffer DEF Prepare, CallInv, OutcomeInv
    <2> QED BY <2>4, <2>6, <2>7, <2>8, <2>9, OneCallStep DEF Prepare, CallInv
  <1> QED BY <1>4, <1>5, <1>6

LEMMA BuildFailsInv ==
    ASSUME IInv, NEW c \in Calls, BuildFails(c) PROVE IInv'
  <1>1. CallInv(c) /\ call[c].phase = "prepared" /\ call[c].args = "unencodable"
    BY DEF IInv, BuildFails
  <1>2. wire[c] = << >>
    BY <1>1 DEF CallInv, WireInv
  <1>3. EncodeError \in Outcomes \ Processed /\ EncodeError \notin {Refused, ValueError, RuntimeError}
    BY OutcomesDiffer DEF Outcomes
  <1> QED
    BY <1>1, <1>2, <1>3, ReturnInv DEF BuildFails

LEMMA RequestOnClosedInv ==
    ASSUME IInv, NEW c \in Calls, RequestOnClosed(c) PROVE IInv'
  <1>1. CallInv(c) /\ call[c].phase = "prepared"
    BY DEF IInv, RequestOnClosed, Built
  <1>2. HttpOf(c) \in Https
    <2>1. call[c].client \in Clients /\ Made(call[c].client)
      BY <1>1 DEF CallInv, BegunInv
    <2> QED BY <2>1, MadeType DEF IInv, HttpOf
  <1>3. HttpOf(c) \in closers
    BY <1>2 DEF IInv, PoolInv, RequestOnClosed
  <1>4. wire[c] = << >>
    BY <1>1 DEF CallInv, WireInv
  <1> QED
    BY <1>1, <1>3, <1>4, ReturnInv, OutcomesDiffer DEF RequestOnClosed, Outcomes

LEMMA TransmitInv ==
    ASSUME IInv, NEW c \in Calls, Transmit(c) PROVE IInv'
  <1>1. CallInv(c) /\ call[c].phase = "prepared"
    BY DEF IInv, Transmit, Built
  <1>2. wire[c] = << >> /\ call[c].request # NoRequest /\ call[c].request \in Requests
    BY <1>1 DEF CallInv, WireInv, RequestInv
  <1>3. /\ wire' = [wire EXCEPT ![c] = << call[c].request >>]
        /\ call' = [call EXCEPT ![c].phase = "sent"]
        /\ UNCHANGED <<env, client, http, answers, closers>>
    BY <1>2 DEF Transmit, IInv, TypeOK
  <1>4. TypeOK'
    <2> DEFINE after == [call[c] EXCEPT !.phase = "sent"]
    <2>1. after \in CallStates
      BY ZenonT(30) DEF IInv, TypeOK, CallStates, Phases
    <2>2. call' = [call EXCEPT ![c] = after]
      BY <1>3 DEF IInv, TypeOK
    <2>3. << call[c].request >> \in Seq(Requests)
      BY <1>2
    <2>4. wire' \in [Calls -> Seq(Requests)]
      BY <1>3, <2>3 DEF IInv, TypeOK
    <2> HIDE DEF after
    <2> QED BY <1>3, <2>1, <2>2, <2>4 DEF IInv, TypeOK
  <1>5. /\ call'[c].phase = "sent" /\ call'[c].request = call[c].request
        /\ call'[c].client = call[c].client /\ call'[c].model = call[c].model
        /\ call'[c].target = call[c].target /\ call'[c].outcome = call[c].outcome
        /\ wire'[c] = << call[c].request >>
    BY <1>3 DEF IInv, TypeOK
  <1>6. \A d \in Calls \ {c} : call'[d] = call[d] /\ wire'[d] = wire[d]
    BY <1>3 DEF IInv, TypeOK
  <1>7. CallInv(c)'
    BY <1>1, <1>2, <1>3, <1>5, OutcomesDiffer
    DEF CallInv, BegunInv, RequestInv, WireInv, OutcomeInv, Made
  <1> QED BY <1>3, <1>4, <1>6, <1>7, OneCallStep

LEMMA FailureInv ==
    ASSUME IInv, NEW c \in Calls, ConnectFails(c) \/ TransportFails(c) \/ Cancel(c)
    PROVE  IInv'
  <1>1. /\ call[c].phase \in {"prepared", "sent"}
        /\ call' = Return(c, ConnectionError) \/ call' = Return(c, Cancelled)
        /\ UNCHANGED <<env, client, http, wire, answers, closers>>
    BY DEF ConnectFails, Built, TransportFails, TransportFailure, Cancel
  <1>2. PICK outcome \in {ConnectionError, Cancelled} : call' = Return(c, outcome)
    BY <1>1
  <1>3. outcome \in Outcomes \ Processed /\ outcome \notin {Refused, ValueError, RuntimeError, EncodeError}
    BY <1>2, OutcomesDiffer DEF Outcomes
  <1> QED BY <1>1, <1>2, <1>3, ReturnInv

LEMMA ReceiveInv ==
    ASSUME IInv, NEW c \in Calls, Receive(c) PROVE IInv'
  <1>1. PICK a \in answers :
          /\ a.request.call = c
          /\ call' = [call EXCEPT ![c].phase = "received", ![c].reply = a.resp]
    BY DEF Receive, AnswersCall
  <1>2. CallInv(c) /\ call[c].phase = "sent" /\ a.resp \in Replies
    BY DEF IInv, TypeOK, Answers, Receive
  <1>3. TypeOK'
    <2> DEFINE after == [call[c] EXCEPT !.phase = "received", !.reply = a.resp]
    <2>1. after \in CallStates
      BY ZenonT(30), <1>2 DEF IInv, TypeOK, CallStates, Phases
    <2>2. call' = [call EXCEPT ![c] = after]
      BY <1>1 DEF IInv, TypeOK
    <2> HIDE DEF after
    <2> QED BY <2>1, <2>2 DEF IInv, TypeOK, Receive
  <1>4. /\ call'[c].phase = "received" /\ call'[c].request = call[c].request
        /\ call'[c].client = call[c].client /\ call'[c].model = call[c].model
        /\ call'[c].target = call[c].target /\ call'[c].outcome = call[c].outcome
        /\ call'[c].reply = a.resp
    BY <1>1 DEF IInv, TypeOK
  <1>5. \A d \in Calls \ {c} : call'[d] = call[d] /\ wire'[d] = wire[d]
    BY <1>1 DEF IInv, TypeOK, Receive
  <1>6. BegunInv(c)' /\ RequestInv(c)' /\ WireInv(c)'
    BY <1>2, <1>4 DEF Receive, CallInv, BegunInv, RequestInv, WireInv, Made
  <1>7. OutcomeInv(c)'
    <2>1. call[c].outcome = Pending
      BY <1>2 DEF CallInv, OutcomeInv
    <2>2. call'[c].outcome = Pending
      BY <1>4, <2>1
    <2>3. a \in answers' /\ a.resp = call'[c].reply
      BY <1>1, <1>4 DEF Receive
    <2>4. Pending \notin Processed
          /\ Pending \notin {Refused, ValueError, RuntimeError, EncodeError}
      BY OutcomesDiffer
    <2> QED BY <1>1, <2>2, <2>3, <2>4 DEF OutcomeInv
  <1> QED BY <1>3, <1>5, <1>6, <1>7, OneCallStep DEF Receive, CallInv

LEMMA ProcessReplyInv ==
    ASSUME IInv, NEW c \in Calls, ProcessReply(c) PROVE IInv'
  <1> DEFINE outcome == Process(call[c].model, call[c].reply)
  <1>1. CallInv(c) /\ call[c].phase = "received" /\ call' = Return(c, outcome)
    BY DEF IInv, ProcessReply
  <1>2. PICK a \in answers : a.request.call = c /\ a.resp = call[c].reply
    BY <1>1 DEF CallInv, OutcomeInv
  <1>3. call[c].model \in Models \cup {"send"} /\ call[c].reply \in Responses
    BY <1>1, <1>2, RepliesAssumption DEF IInv, TypeOK, Answers, CallInv, BegunInv
  <1>4. outcome \in Processed
    BY <1>3, ProcessType
  <1>5. TypeOK'
    <2> DEFINE after == [call[c] EXCEPT !.phase = "done", !.outcome = outcome]
    <2> HIDE DEF outcome
    <2>1. after \in CallStates
      BY ZenonT(30), <1>4 DEF IInv, TypeOK, CallStates, Phases, Outcomes
    <2>2. call' = [call EXCEPT ![c] = after]
      BY <1>1 DEF IInv, TypeOK, Return
    <2> HIDE DEF after
    <2> QED BY <2>1, <2>2 DEF IInv, TypeOK, ProcessReply
  <1>6. /\ call'[c].phase = "done" /\ call'[c].request = call[c].request
        /\ call'[c].client = call[c].client /\ call'[c].model = call[c].model
        /\ call'[c].target = call[c].target /\ call'[c].outcome = outcome
    BY <1>1 DEF IInv, TypeOK, Return
  <1>7. \A d \in Calls \ {c} : call'[d] = call[d] /\ wire'[d] = wire[d]
    BY <1>1 DEF IInv, TypeOK, ProcessReply, Return
  <1>8. BegunInv(c)' /\ RequestInv(c)' /\ WireInv(c)'
    BY <1>1, <1>6 DEF ProcessReply, CallInv, BegunInv, RequestInv, WireInv, Made
  <1>9. OutcomeInv(c)'
    <2>1. outcome \notin {Pending, Refused, ValueError, RuntimeError, EncodeError}
      BY <1>4, OutcomesDiffer
    <2> HIDE DEF outcome
    <2>2. a \in answers' /\ outcome = Process(call'[c].model, a.resp)
      BY <1>2, <1>6 DEF ProcessReply, outcome
    <2> QED BY <1>2, <1>6, <2>1, <2>2 DEF OutcomeInv
  <1> QED BY <1>5, <1>7, <1>8, <1>9, OneCallStep DEF ProcessReply, CallInv

LEMMA ServeInv ==
    ASSUME IInv, NEW c \in Calls, NEW resp \in Replies, Serve(c, resp) PROVE IInv'
  <1>1. wire[c] \in Seq(Requests) /\ wire[c] # << >>
    BY DEF IInv, TypeOK, Serve
  <1>2. wire[c][Len(wire[c])] \in Requests
    BY <1>1
  <1>3. TypeOK'
    BY <1>2 DEF IInv, TypeOK, Serve, Answers
  <1>4. OwnershipInv' /\ PoolInv'
    BY DEF IInv, OwnershipInv, PoolInv, NoOrphanPool, Serve, Made
  <1>5. \A d \in Calls : CallInv(d)'
    BY NoCallStep DEF Serve
  <1> QED BY <1>3, <1>4, <1>5 DEF IInv

(***************************************************************************)
(* Every step, and the specification.                                      *)
(***************************************************************************)
LEMMA NextInv == IInv /\ [Next]_vars => IInv'
  <1> SUFFICES ASSUME IInv, [Next]_vars PROVE IInv'
    OBVIOUS
  <1>1. CASE Program
    BY <1>1, ChangeEnvInv, ConstructInv, CloseInv, CloseHttpInv, BeginInv DEF Program
  <1>2. ASSUME NEW c \in Calls, CallStep(c) PROVE IInv'
    BY <1>2, PrepareInv, BuildFailsInv, RequestOnClosedInv, TransmitInv, FailureInv, ReceiveInv,
       ProcessReplyInv DEF CallStep
  <1>3. CASE Server
    BY <1>3, ServeInv DEF Server
  <1>4. CASE UNCHANGED vars
    <2>1. TypeOK' /\ OwnershipInv' /\ PoolInv'
      BY <1>4 DEF vars, IInv, TypeOK, OwnershipInv, PoolInv, NoOrphanPool, Made
    <2>2. \A c \in Calls : CallInv(c)'
      BY <1>4, NoCallStep DEF vars
    <2> QED BY <2>1, <2>2 DEF IInv
  <1> QED BY <1>1, <1>2, <1>3, <1>4 DEF Next

LEMMA Invariance == Spec => []IInv
  BY InitInv, NextInv, PTL DEF Spec

\* The state of the model keeps its type: clients are configured once and
\* completely, and a call has a request, a reply and an outcome of its own kind.
THEOREM TypeCorrect == Spec => []TypeOK
  <1>1. IInv => TypeOK
    BY DEF IInv
  <1> QED BY <1>1, Invariance, PTL

\* No cross-talk: whatever the interleaving of any number of calls on any
\* number of clients, each call's outcome comes from its own answer.
THEOREM NoCrossTalk == Spec => []OwnAnswer
  <1>1. IInv => OwnAnswer
    BY DEF IInv, CallInv, OutcomeInv, OwnAnswer
  <1> QED BY <1>1, Invariance, PTL

\* Every request goes to its client's origin, under its client's key, for
\* every environment and every link a server may issue.
THEOREM KeySafety == Spec => []KeyStaysHome
  <1>1. IInv => KeyStaysHome
    <2> SUFFICES ASSUME IInv, NEW c \in Calls, NEW i \in DOMAIN wire[c]
                 PROVE  /\ wire[c][i].key = client[call[c].client].key
                        /\ wire[c][i].origin = client[call[c].client].base
      BY DEF KeyStaysHome
    <2>1. WireInv(c) /\ RequestInv(c) /\ wire[c] \in Seq(Requests)
      BY DEF IInv, CallInv, TypeOK
    <2>2. wire[c] = << call[c].request >> /\ call[c].request # NoRequest
      BY <2>1 DEF WireInv
    <2>3. wire[c][i] = call[c].request
      BY <2>2
    <2> QED BY <2>1, <2>2, <2>3 DEF RequestInv
  <1> QED BY <1>1, Invariance, PTL

\* A call makes one round trip at most.
THEOREM OneRoundTrip == Spec => []NoHiddenRetry
  <1>1. IInv => NoHiddenRetry
    <2> SUFFICES ASSUME IInv, NEW c \in Calls PROVE Len(wire[c]) <= 1
      BY DEF NoHiddenRetry
    <2>1. wire[c] = << >> \/ wire[c] = << call[c].request >>
      BY DEF IInv, CallInv, WireInv
    <2>2. CASE wire[c] = << >>
      <3>1. Len(wire[c]) = 0
        BY <2>2
      <3> QED BY <3>1
    <2>3. CASE wire[c] = << call[c].request >>
      <3>1. Len(wire[c]) = 1
        BY <2>3
      <3> QED BY <3>1
    <2> QED BY <2>1, <2>2, <2>3
  <1> QED BY <1>1, Invariance, PTL

\* What an error says of the server is true: nothing was sent after an error
\* of preparation, and a bare error from a send comes after a 2xx.
THEOREM ErrorTruth == Spec => []ErrorsTellWhatWasSent
  <1>1. IInv => ErrorsTellWhatWasSent
    <2> SUFFICES ASSUME IInv, NEW c \in Calls
                 PROVE  /\ call[c].outcome \in {Refused, ValueError, RuntimeError, EncodeError} =>
                             wire[c] = << >>
                        /\ (call[c].model = "send" /\ call[c].outcome \in {Refused, Malformed}) =>
                             \E a \in answers : a.request.call = c /\ OkStatus(a.resp.status)
      BY DEF ErrorsTellWhatWasSent
    <2>1. OutcomeInv(c)
      BY DEF IInv, CallInv
    <2>2. ASSUME call[c].model = "send", call[c].outcome = Malformed
          PROVE  \E a \in answers : a.request.call = c /\ OkStatus(a.resp.status)
      <3>1. PICK a \in answers : /\ a.request.call = c
                                 /\ Malformed = Process(call[c].model, a.resp)
        BY <2>1, <2>2 DEF OutcomeInv, Processed
      <3>2. a.resp \in Responses
        BY RepliesAssumption DEF IInv, TypeOK, Answers
      <3> QED BY <3>1, <3>2, MalformedIsOk
    <2> QED BY <2>1, <2>2 DEF OutcomeInv
  <1> QED BY <1>1, Invariance, PTL

\* httpx clients are closed by their owners, and the RuntimeError of a closed
\* one reaches a caller only after its owner closed it.
THEOREM Ownership == Spec => []OnlyOwnersClose
  <1>1. IInv => OnlyOwnersClose
    BY DEF IInv, PoolInv, CallInv, OutcomeInv, OnlyOwnersClose
  <1> QED BY <1>1, Invariance, PTL

\* A constructor that raises leaves no pool behind.
THEOREM PoolsHaveOwners == Spec => []NoOrphanPool
  <1>1. IInv => NoOrphanPool
    BY DEF IInv, PoolInv
  <1> QED BY <1>1, Invariance, PTL

(***************************************************************************)
(* Why calls return.  An httpx client that is sent through was made, and   *)
(* has timeouts unless the program handed in one without; and every step   *)
(* of a call brings it nearer to its end.                                  *)
(***************************************************************************)
Usable(h) ==
    /\ http[h].state \in {"open", "closed"}
    /\ h \notin Untimed => http[h].timed

UsableInv ==
    /\ \A h \in CallerHttps : Usable(h)
    /\ \A k \in Clients : Made(k) => Usable(client[k].http)

LEMMA UsableInvariance == Spec => []UsableInv
  <1>1. Init => UsableInv
    <2> SUFFICES ASSUME Init PROVE UsableInv
      OBVIOUS
    <2>1. ASSUME NEW h \in CallerHttps PROVE Usable(h)
      BY DEF Init, Usable, Https
    <2>2. ASSUME NEW k \in Clients PROVE ~Made(k)
      BY DEF Init, Made, Unmade
    <2> QED BY <2>1, <2>2 DEF UsableInv
  <1>2. IInv /\ IInv' /\ UsableInv /\ [Next]_vars => UsableInv'
    <2> SUFFICES ASSUME IInv, UsableInv, [Next]_vars PROVE UsableInv'
      OBVIOUS
    <2>1. http \in [Https -> [state : {"none", "open", "closed"}, timed : BOOLEAN]]
      BY DEF IInv, TypeOK
    <2>2. CASE UNCHANGED <<client, http>>
      BY <2>2 DEF UsableInv, Usable, Made
    <2>3. ASSUME NEW h \in Https, http' = [http EXCEPT ![h].state = "closed"], client' = client
          PROVE  UsableInv'
      <3>1. ASSUME NEW g \in Https, Usable(g) PROVE Usable(g)'
        BY <2>1, <2>3, <3>1 DEF Usable
      <3>2. \A k \in Clients : Made(k) => client[k].http \in Https
        BY MadeType DEF IInv
      <3> QED BY <2>3, <3>1, <3>2 DEF UsableInv, Made, Https
    <2>4. ASSUME NEW k \in Clients, Close(k) PROVE UsableInv'
      <3>1. client[k].http \in Https
        BY <2>4, MadeType DEF IInv, Close
      <3> QED BY <2>2, <2>3, <2>4, <3>1 DEF Close
    <2>5. ASSUME NEW h \in Https, CloseHttp(h) PROVE UsableInv'
      BY <2>3, <2>5 DEF CloseHttp
    <2>6. ASSUME NEW k \in Clients, NEW key \in Keys \cup {None}, NEW base \in Bases \cup {None},
                 NEW inject \in CallerHttps \cup {None}, Construct(k, key, base, inject)
          PROVE  UsableInv'
      <3> DEFINE found == Or(key, env.key)
      <3>1. /\ client[k].state = "unmade"
            /\ \A j \in Clients \ {k} : client'[j] = client[j]
            /\ http' = IF inject = None THEN OpenOwned(k, found) ELSE http
            /\ client'[k].state = "made" =>
                  found # None /\ client'[k].http = Or(inject, k)
        <4>1. client \in [Clients -> ClientStates]
          BY DEF IInv, TypeOK
        <4>2. Failed.state # "made"
          BY DEF Failed, Unmade
        <4> QED BY <2>6, <4>1, <4>2 DEF Construct
      <3> DEFINE After(h) == /\ http'[h].state \in {"open", "closed"}
                             /\ h \notin Untimed => http'[h].timed
      <3>2. ASSUME NEW g \in Https, Usable(g) PROVE After(g)
        BY <2>1, <3>1, <3>2 DEF Usable, OpenOwned, OwnHttp
      <3>3. ASSUME NEW h \in CallerHttps PROVE After(h)
        BY <3>2 DEF UsableInv, Https
      <3>4. ASSUME NEW j \in Clients \ {k}, client'[j].state = "made" PROVE After(client'[j].http)
        <4>1. /\ Made(j) /\ client'[j] = client[j]
          BY <3>1, <3>4 DEF Made
        <4>2. client[j].http \in Https /\ Usable(client[j].http)
          BY <4>1, MadeType DEF IInv, UsableInv
        <4> QED BY <3>2, <4>1, <4>2
      <3>5. ASSUME client'[k].state = "made" PROVE After(client'[k].http)
        <4>1. found # None /\ client'[k].http = Or(inject, k)
          BY <3>1, <3>5
        <4>2. CASE inject = None
          <5>1. client'[k].http = k /\ http'[k] = OwnHttp
            BY <2>1, <3>1, <4>1, <4>2 DEF Or, OpenOwned, Https
          <5> QED BY <5>1 DEF OwnHttp
        <4>3. CASE inject # None
          <5>1. client'[k].http = inject /\ inject \in CallerHttps
            BY <4>1, <4>3 DEF Or
          <5> QED BY <3>3, <5>1
        <4> QED BY <4>2, <4>3
      <3>6. ASSUME NEW j \in Clients, client'[j].state = "made" PROVE After(client'[j].http)
        BY <3>4, <3>5, <3>6
      <3> QED BY <3>3, <3>6 DEF UsableInv, Usable, Made
    <2>7. ASSUME NEW c \in Calls, CallStep(c) PROVE UNCHANGED <<client, http>>
      BY <2>7 DEF CallStep, Prepare, BuildFails, RequestOnClosed, Transmit, ConnectFails, Receive,
                  TransportFails, Cancel, ProcessReply
    <2>8. CASE ChangeEnv \/ Server \/ UNCHANGED vars
      BY <2>2, <2>8 DEF ChangeEnv, Server, Serve, vars
    <2>9. ASSUME NEW c \in Calls, NEW k \in Clients, NEW model, NEW target, NEW args,
                 Begin(c, k, model, target, args)
          PROVE  UNCHANGED <<client, http>>
      BY <2>9 DEF Begin
    <2> QED BY <2>2, <2>4, <2>5, <2>6, <2>7, <2>8, <2>9 DEF Next, Program, CloseHttp, Https
  <1> QED BY <1>1, <1>2, Invariance, PTL DEF Spec

StepsLeft(c) ==
    CASE call[c].phase = "idle"     -> 5
      [] call[c].phase = "begun"    -> 4
      [] call[c].phase = "prepared" -> 3
      [] call[c].phase = "sent"     -> 2
      [] call[c].phase = "received" -> 1
      [] call[c].phase = "done"     -> 0

\* Some way through _raw is open, and a request sent has a timeout.
CallsCanGoOn ==
    \A c \in Calls :
        /\ call[c].phase = "prepared" => http[HttpOf(c)].state \in {"open", "closed"}
        /\ call[c].phase = "sent" /\ HttpOf(c) \notin Untimed => Timed(c)

\* A call's own steps take it on, and no other step takes it anywhere.
CallsGoOn ==
    \A c \in Calls :
        IF CallStep(c) THEN StepsLeft(c)' < StepsLeft(c)
        ELSE call'[c] = call[c] \/ (call[c].phase = "idle" /\ call'[c].phase = "begun")

(***************************************************************************)
(* A call never waits for an httpx client that is not there, and, unless   *)
(* its program injected one without timeouts, never for a server that does *)
(* not answer; each of its steps leaves it fewer to take, whatever other   *)
(* calls, closes and answers there are.  (EveryCallReturns, but for the     *)
(* fairness.)                                                              *)
(***************************************************************************)
THEOREM CallsProgress == Spec => []CallsCanGoOn /\ [][CallsGoOn]_vars
  <1>1. IInv /\ UsableInv => CallsCanGoOn
    <2> SUFFICES ASSUME IInv, UsableInv, NEW c \in Calls, call[c].phase \in {"prepared", "sent"}
                 PROVE  Usable(HttpOf(c))
      BY DEF CallsCanGoOn, Usable, Timed
    <2>1. call[c].client \in Clients /\ Made(call[c].client)
      BY DEF IInv, CallInv, BegunInv
    <2> QED BY <2>1 DEF UsableInv, HttpOf
  <1>2. IInv /\ [Next]_vars => [CallsGoOn]_vars
    <2> SUFFICES ASSUME IInv, Next, NEW c \in Calls
                 PROVE  IF CallStep(c) THEN StepsLeft(c)' < StepsLeft(c)
                        ELSE call'[c] = call[c] \/ (call[c].phase = "idle" /\ call'[c].phase = "begun")
      BY DEF CallsGoOn
    <2>1. call \in [Calls -> CallStates]
      BY DEF IInv, TypeOK
    <2>2. CASE CallStep(c)
      <3>1. CASE Prepare(c)
        <4>1. call[c].phase = "begun" /\ call'[c].phase \in {"done", "prepared"}
          BY <2>1, <3>1 DEF Prepare, Return, CallStates
        <4> QED BY <2>2, <4>1 DEF StepsLeft
      <3>2. CASE BuildFails(c) \/ RequestOnClosed(c) \/ ConnectFails(c) \/ Transmit(c)
        <4>1. call[c].phase = "prepared" /\ call'[c].phase \in {"done", "sent"}
          BY <2>1, <3>2
          DEF BuildFails, RequestOnClosed, ConnectFails, Transmit, Built, Return, CallStates
        <4> QED BY <2>2, <4>1 DEF StepsLeft
      <3>3. CASE Receive(c) \/ TransportFails(c)
        <4>1. call[c].phase = "sent" /\ call'[c].phase \in {"done", "received"}
          BY <2>1, <3>3 DEF Receive, TransportFails, TransportFailure, Return, CallStates
        <4> QED BY <2>2, <4>1 DEF StepsLeft
      <3>4. CASE Cancel(c) \/ ProcessReply(c)
        <4>1. call[c].phase \in {"prepared", "sent", "received"} /\ call'[c].phase = "done"
          BY <2>1, <3>4 DEF Cancel, ProcessReply, Return, CallStates
        <4> QED BY <2>2, <4>1 DEF StepsLeft
      <3> QED BY <2>2, <3>1, <3>2, <3>3, <3>4 DEF CallStep
    <2>3. CASE ~CallStep(c)
      <3>1. ASSUME NEW d \in Calls, CallStep(d) PROVE call'[c] = call[c]
        <4>1. d # c
          BY <2>3, <3>1
        <4> QED BY <2>1, <3>1, <4>1
                DEF CallStep, Prepare, BuildFails, RequestOnClosed, Transmit, ConnectFails, Receive,
                    TransportFails, TransportFailure, Cancel, ProcessReply, Return
      <3>2. CASE Server
        <4>1. call' = call
          BY <3>2 DEF Server, Serve
        <4> QED BY <2>3, <4>1
      <3>3. ASSUME NEW d \in Calls, NEW k \in Clients, NEW model, NEW target, NEW args,
                   Begin(d, k, model, target, args)
            PROVE  call'[c] = call[c] \/ (call[c].phase = "idle" /\ call'[c].phase = "begun")
        BY <2>1, <3>3 DEF Begin, CallStates
      <3>4. ASSUME Program, ~(\E d \in Calls, k \in Clients, model \in Models \cup {"send"},
                                 target \in Links \cup {Relative}, args \in Args :
                                   Begin(d, k, model, target, args))
            PROVE  call'[c] = call[c]
        BY <3>4 DEF Program, ChangeEnv, Construct, Close, CloseHttp
      <3> QED BY <2>3, <3>1, <3>2, <3>3, <3>4 DEF Next
    <2> QED BY <2>2, <2>3
  <1> QED BY <1>1, <1>2, Invariance, UsableInvariance, PTL DEF Spec

(***************************************************************************)
(* How far README's "Every failure raises a subclass of MailkubeError"     *)
(* goes, among the exceptions modelled.  The RuntimeError of a closed      *)
(* httpx client follows a close by its owner; the ValueError of urllib, a  *)
(* URL it cannot split; the errors of building a request, arguments that   *)
(* cannot be encoded; and the ValueError of json.loads, an answer to this  *)
(* very call with a number it refuses.                                     *)
(***************************************************************************)
ForeignErrorsHaveCauses ==
    \A c \in Calls :
        /\ call[c].outcome = RuntimeError => HttpOf(c) \in closers
        /\ call[c].outcome = ValueError =>
              MalformedUrl \in {client[call[c].client].base, call[c].target}
        /\ call[c].outcome = EncodeError => call[c].args = "unencodable"
        /\ call[c].outcome = DigitsError =>
              \E a \in answers : a.request.call = c /\ ~Loads(a.resp.body)

THEOREM ForeignErrors == Spec => []ForeignErrorsHaveCauses
  <1>1. IInv => ForeignErrorsHaveCauses
    <2> SUFFICES ASSUME IInv, NEW c \in Calls, call[c].outcome = DigitsError
                 PROVE  \E a \in answers : a.request.call = c /\ ~Loads(a.resp.body)
      BY DEF ForeignErrorsHaveCauses, IInv, CallInv, OutcomeInv
    <2>1. PICK a \in answers : /\ a.request.call = c
                               /\ DigitsError = Process(call[c].model, a.resp)
      BY DEF IInv, CallInv, OutcomeInv, Processed
    <2>2. a.resp \in Responses
      BY RepliesAssumption DEF IInv, TypeOK, Answers
    <2> QED BY <2>1, <2>2, DigitsExactly
  <1> QED BY <1>1, Invariance, PTL
==============================================================================
