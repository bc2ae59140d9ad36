---------------------------- MODULE WebhooksProofs ----------------------------
(***************************************************************************)
(* Proofs about module Webhooks, for every number of events, every clock   *)
(* skew and every tolerance, retry period and memory with                  *)
(* Keep >= RetryFor + 2 * Tolerance.                                       *)
(***************************************************************************)
EXTENDS Webhooks, TLAPS

(***************************************************************************)
(* What can arrive of a delivery: its signed text split elsewhere, its JSON *)
(* in other bytes, or its headers dropped, damaged or mixed up.            *)
(***************************************************************************)
Unprefixed(sig) == [sig EXCEPT !.prefixed = FALSE]

Resplit(arrived, d) ==
    /\ arrived.id = d.id /\ arrived.sig = d.sig
    /\ arrived.ts.at = d.ts.at
    /\ arrived.body.json = d.body.json /\ arrived.body.lead = <<Fraction>>

Respaced(arrived, d) == arrived.body.spaced = TRUE /\ arrived.sig = d.sig

Rewritten(arrived, d) ==
    /\ arrived.body = d.body
    /\ arrived.ts \in {d.ts, Missing, NotIso, Stamp(d.ts.at + 1)}
    /\ \/ arrived.sig \in {d.sig, Unprefixed(d.sig), Missing}
       \/ arrived.sig.hex = << >>

LEMMA WhatArrives ==
    ASSUME NEW id \in Ids, NEW ts \in Int, NEW arrived \in Arrivals(Delivery(id, ts))
    PROVE  LET d == Delivery(id, ts)
           IN  Resplit(arrived, d) \/ Respaced(arrived, d) \/ Rewritten(arrived, d)
<1> DEFINE d == Delivery(id, ts)
           result == Resplit(arrived, d) \/ Respaced(arrived, d) \/ Rewritten(arrived, d)
<1> SUFFICES result
  OBVIOUS
<1>1. /\ d.id = id /\ d.ts = Stamp(ts) /\ d.body = Raw(event[id])
      /\ d = [id |-> d.id, ts |-> d.ts, body |-> d.body, sig |-> d.sig]
  BY DEF Delivery
<1>2. /\ d.ts = [header |-> "stamp", at |-> ts, rest |-> <<Fraction>>]
      /\ d.body = [lead |-> << >>, json |-> event[id], spaced |-> FALSE]
  BY <1>1 DEF Stamp, Raw
<1>3. d.sig = [ header |-> d.sig.header, prefixed |-> d.sig.prefixed, ascii |-> d.sig.ascii,
                hex |-> d.sig.hex ]
  BY DEF Delivery, Sign
<1> HIDE DEF d
<1>4. CASE arrived = [d EXCEPT !.ts.rest = << >>, !.body.lead = d.ts.rest]
  BY <1>1, <1>2, <1>4 DEF Resplit
<1>5. CASE arrived = [d EXCEPT !.body.spaced = TRUE]
  BY <1>1, <1>2, <1>5 DEF Respaced
<1>6. CASE arrived = d \/ \E other : arrived = [d EXCEPT !.id = other]
  BY <1>1, <1>6 DEF Rewritten
<1>7. CASE \E other \in {Missing, NotIso, Stamp(d.ts.at + 1)} : arrived = [d EXCEPT !.ts = other]
  BY <1>1, <1>7 DEF Rewritten
<1>8. ASSUME NEW sig \in { Missing, [d.sig EXCEPT !.prefixed = FALSE], [d.sig EXCEPT !.hex = << >>],
                            [d.sig EXCEPT !.hex = << >>, !.ascii = FALSE] },
             arrived = [d EXCEPT !.sig = sig]
      PROVE  Rewritten(arrived, d)
  <2>1. sig \in {Missing, Unprefixed(d.sig)} \/ sig.hex = << >>
    BY <1>3, <1>8 DEF Unprefixed
  <2> QED  BY <1>1, <1>8, <2>1 DEF Rewritten
<1> QED  BY <1>4, <1>5, <1>6, <1>7, <1>8 DEF Arrivals, d

(***************************************************************************)
(* What verify_signature establishes of a delivery that arrives: it carries *)
(* the id, time and event of the attempt it came from, and arrives within  *)
(* the window around that attempt's timestamp; and unless the signed text  *)
(* was split elsewhere, it is as it was sent.                              *)
(***************************************************************************)
LEMMA VerifiedIsAttempted ==
    ASSUME NEW id \in Ids, NEW ts \in Int, NEW now \in Int,
           NEW arrived \in Arrivals(Delivery(id, ts)),
           VerifySignature(arrived, now) = "verified"
    PROVE  /\ arrived.id = id
           /\ arrived.body.json = event[id]
           /\ now - Tolerance <= ts /\ ts <= now + Tolerance
           /\ arrived.body.lead = << >> => AsSent(arrived, Delivery(id, ts))
<1> DEFINE d == Delivery(id, ts)
<1>1. /\ d.id = id /\ d.ts = Stamp(ts) /\ d.body = Raw(event[id])
      /\ d.ts.at = ts /\ d.body.json = event[id]
  BY DEF Delivery, Stamp, Raw
<1>2. PICK text, spaced : /\ d.sig.hex = <<id, ts, text, event[id], spaced>>
                          /\ spaced # TRUE
  <2>1. Raw(event[id]).spaced # TRUE /\ Raw(event[id]).json = event[id] /\ Stamp(ts).at = ts
    BY DEF Raw, Stamp
  <2> QED  BY <2>1 DEF Delivery, Sign, SignatureHex
<1>3. /\ arrived.sig # Missing /\ arrived.ts.header = "stamp" /\ Abs(now - arrived.ts.at) <= Tolerance
      /\ arrived.sig.hex = SignatureHex(arrived.id, arrived.ts, arrived.body)
  BY DEF VerifySignature, Fresh
<1>4. PICK other : arrived.sig.hex = <<arrived.id, arrived.ts.at, other, arrived.body.json,
                                       arrived.body.spaced>>
  BY <1>3 DEF SignatureHex
<1> DEFINE result == /\ arrived.id = id /\ arrived.ts.at = ts /\ arrived.body.json = event[id]
                     /\ arrived.body.lead = << >> => AsSent(arrived, d)
<1>5. Resplit(arrived, d) \/ Respaced(arrived, d) \/ Rewritten(arrived, d)
  BY WhatArrives
<1> HIDE DEF d
<1>6. ASSUME Resplit(arrived, d) PROVE result
  BY <1>1, <1>6 DEF Resplit, Fraction
<1>7. ASSUME Respaced(arrived, d) PROVE FALSE
  <2>1. arrived.sig.hex = d.sig.hex
    BY <1>7 DEF Respaced
  <2>2. PICK flag : flag = arrived.body.spaced
    OBVIOUS
  <2>3. flag = spaced
    BY <1>2, <1>4, <2>1, <2>2
  <2> QED  BY <1>2, <1>7, <2>2, <2>3 DEF Respaced
<1>8. ASSUME Rewritten(arrived, d) PROVE result
  <2>1. arrived.sig.hex # << >>
    BY <1>4
  <2>2. arrived.sig \in {d.sig, Unprefixed(d.sig)}
    BY <1>3, <1>8, <2>1 DEF Rewritten
  <2>3. arrived.sig.hex = d.sig.hex
    <3>1. Unprefixed(d.sig).hex = d.sig.hex
      BY DEF Unprefixed, d, Delivery, Sign
    <3> QED  BY <2>2, <3>1
  <2>4. arrived.id = id /\ arrived.ts.at = ts
    BY <1>2, <1>4, <2>3
  <2>5. arrived.ts = d.ts
    <3>1. Missing.header # "stamp" /\ NotIso.header # "stamp" /\ Stamp(ts + 1).at # ts
      BY DEF Missing, NotIso, Stamp
    <3> QED  BY <1>1, <1>3, <1>8, <2>4, <3>1 DEF Rewritten
  <2>6. AsSent(arrived, d)
    BY <1>1, <1>8, <2>2, <2>4, <2>5 DEF Rewritten, AsSent, Unprefixed
  <2> QED  BY <1>1, <1>8, <2>4, <2>6 DEF Rewritten
<1>9. result
  BY <1>5, <1>6, <1>7, <1>8
<1>10. now - Tolerance <= ts /\ ts <= now + Tolerance
  BY <1>3, <1>9, TimesAssumption DEF Abs
<1> QED  BY <1>9, <1>10 DEF d

COROLLARY VerifiedEvent ==
    ASSUME NEW id \in Ids, NEW ts \in Int, NEW now \in Int,
           NEW arrived \in Arrivals(Delivery(id, ts)),
           VerifySignature(arrived, now) = "verified"
    PROVE  arrived.id = id /\ arrived.body.json = event[id]
BY VerifiedIsAttempted

\* verify hands over an event only if verify_signature passed and the body is
\* JSON that fits its arm.
LEMMA HandedOver ==
    ASSUME NEW arrived, NEW now, Verify(arrived, now) \in Tags
    PROVE  VerifySignature(arrived, now) = "verified" /\ Parses(arrived.body)
<1>1. /\ "signature_error" \notin Tags /\ "type_error" \notin Tags
      /\ "validation_error" \notin Tags
  BY TagsAssumption DEF Tags, UnknownTag
<1>2. VerifySignature(arrived, now) \in {"verified", "signature_error", "type_error"}
  BY DEF VerifySignature
<1> QED  BY <1>1, <1>2 DEF Verify, ParseEvent

\* It raises a ValidationError only if verify_signature passed and the body
\* is no JSON or does not fit.
LEMMA RefusedForContents ==
    ASSUME NEW arrived, NEW now, Verify(arrived, now) = "validation_error"
    PROVE  VerifySignature(arrived, now) = "verified" /\ ~Parses(arrived.body)
<1>1. VerifySignature(arrived, now) = "verified"
  BY DEF Verify, VerifySignature
<1>2. CASE Parses(arrived.body)
  <2>1. EventDiscriminator(arrived.body.json) = "validation_error"
    BY <1>1, <1>2 DEF Verify, ParseEvent
  <2> QED  BY <2>1, TagsAssumption DEF EventDiscriminator, UnknownTag
<1> QED  BY <1>1, <1>2

(***************************************************************************)
(* An event acted on is remembered from an acceptance of one of its         *)
(* attempts, so for long enough: see Remembered below.                     *)
(***************************************************************************)
AttemptsInv ==
    \A id \in Ids : \A t, u \in sent[id] :
        t <= clock + skew /\ t <= u + RetryFor

MemoryInv ==
    \A id \in Ids :
        /\ acts[id] \in {0, 1}
        /\ acts[id] = 1 => \E t \in sent[id] : t - Tolerance + Keep <= until[id]

\* Only events that parse are acted on, whichever attempt arrived.
ReadableInv ==
    \A id \in Ids : acts[id] # 0 => EventDiscriminator(event[id]) \in event[id].fits

IInv == TypeOK /\ AttemptsInv /\ MemoryInv /\ ReadableInv

LEMMA InitInv == Init => IInv
BY TimesAssumption DEF Init, IInv, TypeOK, AttemptsInv, MemoryInv, ReadableInv

LEMMA TickInv == IInv /\ Tick => IInv'
BY TimesAssumption DEF Tick, IInv, TypeOK, AttemptsInv, MemoryInv, ReadableInv

LEMMA AttemptInv ==
    ASSUME IInv, NEW id \in Ids, Attempt(id)
    PROVE  IInv'
<1> DEFINE ts == clock + skew
<1>1. ts \in Int
  BY TimesAssumption DEF IInv, TypeOK
<1>2. TypeOK'
  BY <1>1 DEF Attempt, IInv, TypeOK
<1>3. AttemptsInv'
  BY <1>1, TimesAssumption DEF Attempt, IInv, TypeOK, AttemptsInv
<1>4. MemoryInv'
  BY DEF Attempt, IInv, TypeOK, MemoryInv
<1>5. ReadableInv'
  BY DEF Attempt, IInv, ReadableInv
<1> QED  BY <1>2, <1>3, <1>4, <1>5 DEF IInv

(***************************************************************************)
(* The heart of the argument: an attempt still fresh comes at most RetryFor *)
(* after the one acted on, which was accepted at most Tolerance before its *)
(* timestamp, so the receiver remembers the id.                            *)
(***************************************************************************)
LEMMA Remembered ==
    ASSUME IInv, NEW id \in Ids, NEW ts \in sent[id],
           clock <= ts + Tolerance, acts[id] = 1
    PROVE  clock <= until[id]
<1>1. PICK t \in sent[id] : t - Tolerance + Keep <= until[id]
  BY DEF IInv, MemoryInv
<1>2. ts <= t + RetryFor
  BY DEF IInv, AttemptsInv
<1>3. /\ t \in Int /\ ts \in Int /\ clock \in Int /\ until[id] \in Int
  BY DEF IInv, TypeOK
<1> QED  BY <1>1, <1>2, <1>3, TimesAssumption, KeepAssumption

LEMMA ReceiveInv ==
    ASSUME IInv, NEW d \in Attempted, NEW arrived \in Arrivals(d), Receive(arrived)
    PROVE  IInv'
<1>1. PICK id \in Ids, ts \in Int : ts \in sent[id] /\ d = Delivery(id, ts)
  BY DEF Attempted, IInv, TypeOK
<1>2. clock \in Int
  BY DEF IInv, TypeOK
<1>3. VerifySignature(arrived, clock) = "verified" /\ Parses(arrived.body)
  BY HandedOver DEF Receive, Accepts
<1>4. /\ arrived.id = id /\ clock <= ts + Tolerance /\ ts <= clock + Tolerance
      /\ EventDiscriminator(event[id]) \in event[id].fits
  <2>1. arrived.id = id /\ arrived.body.json = event[id]
        /\ clock - Tolerance <= ts /\ ts <= clock + Tolerance
    <3>1. arrived \in Arrivals(Delivery(id, ts))
      BY <1>1
    <3> QED  BY ZenonT(30), <1>2, <1>3, <3>1, VerifiedIsAttempted
  <2> QED  BY <1>2, <1>3, <2>1, TimesAssumption DEF Parses
<1>5. CASE clock <= until[id]
  BY <1>4, <1>5 DEF Receive, IInv, TypeOK, AttemptsInv, MemoryInv, ReadableInv
<1>6. CASE ~(clock <= until[id])
  <2>1. acts[id] = 0
    <3>1. acts[id] # 1
      BY <1>1, <1>4, <1>6, Remembered
    <3>2. acts[id] \in {0, 1}
      BY DEF IInv, MemoryInv
    <3> QED  BY <3>1, <3>2
  <2>2. /\ until' = [until EXCEPT ![id] = clock + Keep]
        /\ acts' = [acts EXCEPT ![id] = acts[id] + 1]
        /\ UNCHANGED <<event, clock, skew, sent>>
    BY <1>4, <1>6 DEF Receive
  <2>3. TypeOK' /\ AttemptsInv'
    BY <1>2, <2>2, TimesAssumption DEF IInv, TypeOK, AttemptsInv
  <2>4. MemoryInv'
    <3> SUFFICES ASSUME NEW other \in Ids
                 PROVE  /\ acts'[other] \in {0, 1}
                        /\ acts'[other] = 1 =>
                              \E t \in sent'[other] : t - Tolerance + Keep <= until'[other]
      BY DEF MemoryInv
    <3>1. CASE other = id
      <4>1. acts'[id] = 1 /\ until'[id] = clock + Keep
        BY <2>1, <2>2 DEF IInv, TypeOK
      <4>2. ts - Tolerance + Keep <= clock + Keep
        BY <1>2, <1>4, TimesAssumption
      <4> QED  BY <1>1, <2>2, <3>1, <4>1, <4>2
    <3>2. CASE other # id
      BY <2>2, <3>2 DEF IInv, TypeOK, MemoryInv
    <3> QED  BY <3>1, <3>2
  <2>5. ReadableInv'
    BY <1>4, <2>2 DEF IInv, TypeOK, ReadableInv
  <2> QED  BY <2>3, <2>4, <2>5 DEF IInv
<1> QED  BY <1>5, <1>6

LEMMA NextInv == IInv /\ [Next]_vars => IInv'
<1> SUFFICES ASSUME IInv, [Next]_vars PROVE IInv'
  OBVIOUS
<1>1. CASE Tick
  BY <1>1, TickInv
<1>2. CASE \E id \in Ids : Attempt(id)
  BY <1>2, AttemptInv
<1>3. CASE \E d \in Attempted : \E arrived \in Arrivals(d) : Receive(arrived)
  BY <1>3, ReceiveInv
<1>4. CASE UNCHANGED vars
  BY <1>4 DEF vars, IInv, TypeOK, AttemptsInv, MemoryInv, ReadableInv
<1>5. CASE \E d \in Attempted : \E arrived \in Arrivals(d) : Refuse(arrived)
  BY <1>4, <1>5 DEF Refuse
<1> QED  BY <1>1, <1>2, <1>3, <1>4, <1>5 DEF Next

LEMMA Invariance == Spec => []IInv
BY InitInv, NextInv, PTL DEF Spec

(***************************************************************************)
(* Type correctness: every variable of the model has its type.             *)
(***************************************************************************)
THEOREM TypeCorrect == Spec => []TypeOK
<1>1. IInv => TypeOK
  BY DEF IInv
<1> QED  BY <1>1, Invariance, PTL

(***************************************************************************)
(* A receiver with enough memory acts once on each event: the freshness    *)
(* window of _check_freshness bounds how late an attempt can be accepted.  *)
(***************************************************************************)
THEOREM ActsOnce == Spec => []ActsOncePerEvent
<1>1. IInv => ActsOncePerEvent
  <2>1. ASSUME IInv, NEW id \in Ids PROVE acts[id] <= 1
    <3>1. acts[id] \in {0, 1}
      BY <2>1 DEF IInv, MemoryInv
    <3> QED  BY <3>1
  <2> QED  BY <2>1 DEF ActsOncePerEvent
<1> QED  BY <1>1, Invariance, PTL

(***************************************************************************)
(* Of everything that can arrive of a delivery, a signature that is wrong  *)
(* or not ASCII and a signed text split elsewhere included, verify hands   *)
(* over what arrives as it was sent and within the window, and nothing     *)
(* else; and verify_signature passes all of that, whatever the event.      *)
(***************************************************************************)
THEOREM Authentic == Spec => []VerifiesWhatWasSigned
<1>1. ASSUME TypeOK PROVE VerifiesWhatWasSigned
  <2> SUFFICES ASSUME NEW d \in Attempted, NEW arrived \in Arrivals(d)
               PROVE  /\ AsSent(arrived, d) /\ InWindow(d.ts.at)
                            => VerifySignature(arrived, clock) = "verified"
                      /\ Verify(arrived, clock) \in Tags
                            => AsSent(arrived, d) /\ InWindow(d.ts.at)
    BY DEF VerifiesWhatWasSigned
  <2>1. PICK id \in Ids, ts \in Int : ts \in sent[id] /\ d = Delivery(id, ts)
    BY <1>1 DEF Attempted, TypeOK
  <2>2. clock \in Int
    BY <1>1 DEF TypeOK
  <2>3. /\ d.id = id /\ d.ts = Stamp(ts) /\ d.body = Raw(event[id])
        /\ d.ts.at = ts /\ d.ts.header = "stamp"
        /\ d.sig = Sign(id, Stamp(ts), Raw(event[id]))
    BY <2>1 DEF Delivery, Stamp
  <2>4. ASSUME Verify(arrived, clock) \in Tags
        PROVE  AsSent(arrived, d) /\ InWindow(d.ts.at)
    <3>1. VerifySignature(arrived, clock) = "verified" /\ Parses(arrived.body)
      BY <2>4, HandedOver
    <3>2. arrived.body.lead = << >>
      BY <3>1 DEF Parses
    <3> QED  BY <2>1, <2>2, <2>3, <3>1, <3>2, VerifiedIsAttempted DEF InWindow
  <2>5. ASSUME AsSent(arrived, d), InWindow(d.ts.at)
        PROVE  VerifySignature(arrived, clock) = "verified"
    <3>1. /\ arrived.id = id /\ arrived.ts = d.ts /\ arrived.body = Raw(event[id])
          /\ arrived.sig \in {d.sig, [d.sig EXCEPT !.prefixed = FALSE]}
      BY <2>3, <2>5 DEF AsSent
    <3>2. /\ arrived.sig.hex = SignatureHex(id, Stamp(ts), Raw(event[id]))
          /\ arrived.sig.ascii /\ arrived.sig.header = "signature"
      BY <2>3, <3>1 DEF Sign
    <3>3. Fresh(arrived.ts, clock)
      BY <2>2, <2>3, <2>5, <3>1, TimesAssumption DEF Fresh, InWindow, Abs
    <3>4. Missing \notin {arrived.id, arrived.ts, arrived.sig}
      <4>1. Missing.header # "stamp" /\ Missing.header # "signature"
        BY DEF Missing
      <4> QED  BY <2>3, <3>1, <3>2, <4>1, IdsAssumption
    <3>5. arrived.sig.hex = SignatureHex(arrived.id, arrived.ts, arrived.body)
      BY <2>3, <3>1, <3>2
    <3> QED  BY <3>2, <3>3, <3>4, <3>5 DEF VerifySignature
  <2> QED  BY <2>4, <2>5
<1> QED  BY <1>1, TypeCorrect, PTL

(***************************************************************************)
(* An event is refused for its contents only if its type is known to this  *)
(* release or it lacks the parts UnknownEvent needs, and only if no        *)
(* attempt of it was ever acted on.                                        *)
(***************************************************************************)
THEOREM NewEvents == Spec => []NewEventsAreNotRefused
<1>1. ASSUME IInv PROVE NewEventsAreNotRefused
  <2> SUFFICES ASSUME NEW d \in Attempted, NEW arrived \in Arrivals(d),
                      Verify(arrived, clock) = "validation_error", arrived.body.lead = << >>
               PROVE  /\ d.body.json.type \in KnownTags \/ UnknownTag \notin d.body.json.fits
                      /\ acts[arrived.id] = 0
    BY DEF NewEventsAreNotRefused
  <2>1. PICK id \in Ids, ts \in Int : ts \in sent[id] /\ d = Delivery(id, ts)
    BY <1>1 DEF Attempted, IInv, TypeOK
  <2>2. VerifySignature(arrived, clock) = "verified" /\ ~Parses(arrived.body)
    BY RefusedForContents
  <2>3. clock \in Int
    BY <1>1 DEF IInv, TypeOK
  <2>4. arrived.id = id /\ arrived.body.json = event[id]
    <3>1. arrived \in Arrivals(Delivery(id, ts)) /\ clock \in Int
      BY <2>1, <2>3
    <3>2. VerifySignature(arrived, clock) = "verified"
      BY <2>2
    <3> QED  BY <3>1, <3>2, VerifiedEvent
  <2>5. EventDiscriminator(event[id]) \notin event[id].fits
    BY <2>2, <2>4 DEF Parses
  <2>6. d.body.json = event[id]
    BY <2>1 DEF Delivery, Raw
  <2>7. acts[id] = 0
    BY <1>1, <2>5 DEF IInv, ReadableInv
  <2> QED  BY <2>4, <2>5, <2>6, <2>7 DEF EventDiscriminator
<1> QED  BY <1>1, Invariance, PTL

(***************************************************************************)
(* The other half of acting once: the receiver that skips the ids it        *)
(* remembers swallows nothing.  Whenever verify lets a delivery through,    *)
(* the event was acted on already or is acted on now, exactly once in all.  *)
(***************************************************************************)
ActedOnAcceptance ==
    \A d \in Attempted : \A arrived \in Arrivals(d) :
        Receive(arrived) => acts'[arrived.id] = 1

\* No id is remembered before its event was acted on.
RememberedInv == \A id \in Ids : acts[id] = 0 => until[id] = -1

LEMMA RememberedInvariance == Spec => []RememberedInv
<1>1. Init => RememberedInv
  BY DEF Init, RememberedInv
<1>2. ASSUME IInv, IInv', RememberedInv, [Next]_vars PROVE RememberedInv'
  <2>1. CASE \E d \in Attempted : \E arrived \in Arrivals(d) : Receive(arrived)
    <3>1. PICK d \in Attempted : \E arrived \in Arrivals(d) : Receive(arrived)
      BY <2>1
    <3>2. PICK arrived \in Arrivals(d) : Receive(arrived)
      BY <3>1
    <3>3. CASE clock <= until[arrived.id]
      BY <1>2, <3>2, <3>3 DEF Receive, RememberedInv
    <3>4. CASE ~(clock <= until[arrived.id])
      <4> SUFFICES ASSUME NEW id \in Ids, acts'[id] = 0 PROVE until'[id] = -1
        BY DEF RememberedInv
      <4>1. /\ until' = [until EXCEPT ![arrived.id] = clock + Keep]
            /\ acts' = [acts EXCEPT ![arrived.id] = acts[arrived.id] + 1]
        BY <3>2, <3>4 DEF Receive
      <4>2. acts \in [Ids -> Nat] /\ until \in [Ids -> Int]
        BY <1>2 DEF IInv, TypeOK
      <4>3. id # arrived.id
        BY <4>1, <4>2
      <4> QED  BY <1>2, <4>1, <4>2, <4>3 DEF RememberedInv
    <3> QED  BY <3>3, <3>4
  <2>2. CASE \/ Tick
             \/ \E id \in Ids : Attempt(id)
             \/ \E d \in Attempted : \E arrived \in Arrivals(d) : Refuse(arrived)
             \/ UNCHANGED vars
    BY <1>2, <2>2 DEF Tick, Attempt, Refuse, vars, RememberedInv
  <2> QED  BY <1>2, <2>1, <2>2 DEF Next
<1> QED  BY <1>1, <1>2, Invariance, PTL DEF Spec

THEOREM NothingSwallowed == Spec => [][ActedOnAcceptance]_vars
<1>1. ASSUME IInv, IInv', RememberedInv, [Next]_vars PROVE ActedOnAcceptance
  <2> SUFFICES ASSUME NEW d \in Attempted, NEW arrived \in Arrivals(d), Receive(arrived)
               PROVE  acts'[arrived.id] = 1
    BY DEF ActedOnAcceptance
  <2>1. PICK id \in Ids, ts \in Int : ts \in sent[id] /\ d = Delivery(id, ts)
    BY <1>1 DEF Attempted, IInv, TypeOK
  <2>2. VerifySignature(arrived, clock) = "verified"
    BY HandedOver DEF Receive, Accepts
  <2>3. clock \in 0..Horizon /\ Horizon \in Nat
    BY <1>1, TimesAssumption DEF IInv, TypeOK
  <2>4. arrived.id = id
    <3>1. arrived \in Arrivals(Delivery(id, ts)) /\ clock \in Int
      BY <2>1, <2>3
    <3> QED  BY ZenonT(30), <2>2, <3>1, VerifiedIsAttempted
  <2>5. acts[id] \in {0, 1} /\ acts'[id] \in {0, 1}
    BY <1>1 DEF IInv, MemoryInv
  <2>6. CASE clock <= until[id]
    <3>1. acts' = acts
      BY <2>4, <2>6 DEF Receive
    <3>2. acts[id] # 0
      BY <1>1, <2>3, <2>6 DEF RememberedInv
    <3> QED  BY <2>4, <2>5, <3>1, <3>2
  <2>7. CASE ~(clock <= until[id])
    <3>1. acts' = [acts EXCEPT ![id] = acts[id] + 1]
      BY <2>4, <2>7 DEF Receive
    <3>2. acts \in [Ids -> Nat]
      BY <1>1 DEF IInv, TypeOK
    <3>3. acts'[id] # 0
      BY <3>1, <3>2
    <3> QED  BY <2>4, <2>5, <3>3
  <2> QED  BY <2>6, <2>7
<1> QED  BY <1>1, Invariance, RememberedInvariance, PTL DEF Spec
==============================================================================
