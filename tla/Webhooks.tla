------------------------------- MODULE Webhooks -------------------------------
(***************************************************************************)
(* Webhook deliveries from the platform to a receiver that verifies them   *)
(* with webhooks.verify.  Verification keeps no state: it reads a clock,   *)
(* and leaves it to the receiver to act once on an event that is delivered  *)
(* several times under one X-Webhook-Id.                                   *)
(*                                                                         *)
(* The platform and the receiver's memory are external, modelled from the  *)
(* module's docstring and the README: a delivery is signed when it is      *)
(* attempted, an attempt may be lost, delayed or duplicated, and a receiver *)
(* remembers the ids it acted on for some time.  Times are whole ticks.    *)
(***************************************************************************)
EXTENDS Integers, Sequences

CONSTANTS
    Ids,        \* X-Webhook-Id values, one per event
    KnownTags,  \* event types with an arm in the union WebhookEvent
    Events,     \* the contents an event can have
    Tolerance,  \* tolerance_seconds
    MaxSkew,    \* how far the platform's clock may be from the receiver's
    RetryFor,   \* how long the platform goes on attempting a delivery
    Keep,       \* how long the receiver remembers an id it acted on
    Horizon     \* bound: the last tick

\* An event's contents: its "type" and the arms of the union it validates
\* against.  UnknownEvent takes any type, but needs created_at and a data dict.
UnknownTag == "unknown"
Tags == KnownTags \cup {UnknownTag}

ASSUME TimesAssumption == Tolerance \in Nat /\ MaxSkew \in Nat /\ RetryFor \in Nat
                          /\ Keep \in Nat /\ Horizon \in Nat
ASSUME KeepAssumption == Keep >= RetryFor + 2 * Tolerance
ASSUME TagsAssumption ==
    {UnknownTag, "signature_error", "type_error", "verified", "validation_error"}
        \cap KnownTags = {}
ASSUME EventsAssumption ==
    \A e \in Events : e.type \in STRING /\ e.fits \subseteq Tags

VARIABLES
    event,  \* the contents of each event
    clock,  \* the receiver's clock, datetime.now(UTC)
    skew,   \* the platform's clock minus the receiver's
    sent,   \* per id, the X-Webhook-Ts of the attempts made
    until,  \* per id, the last tick at which the receiver remembers it
    acts    \* per id, how often the receiver acted on it

vars == <<event, clock, skew, sent, until, acts>>

TypeOK ==
    /\ event \in [Ids -> Events]
    /\ clock \in 0..Horizon
    /\ skew \in -MaxSkew..MaxSkew
    /\ sent \in [Ids -> SUBSET Int]
    /\ until \in [Ids -> Int]
    /\ acts \in [Ids -> Nat]

Init ==
    /\ event \in [Ids -> Events]
    /\ clock = 0
    /\ skew \in -MaxSkew..MaxSkew
    /\ sent = [id \in Ids |-> {}]
    /\ until = [id \in Ids |-> -1]
    /\ acts = [id \in Ids |-> 0]

(***************************************************************************)
(* Signing and verifying.  A header that is missing or empty, and a         *)
(* timestamp that is no ISO-8601, are values of their own.                 *)
(*                                                                         *)
(* What is signed is the text "<id>.<timestamp>.<body>".  HMAC-SHA256 is   *)
(* taken to have no collisions, so the signature is that text: the id, the *)
(* timestamp up to its own dot, whatever stands between that dot and the   *)
(* event, and the event.  The text does not say where the timestamp ends:  *)
(* its fraction of a second may as well lead the body.                     *)
(***************************************************************************)
Missing == [header |-> "missing"]
NotIso == [header |-> "malformed"]
Fraction == "fraction"
Stamp(ts) == [header |-> "stamp", at |-> ts, rest |-> <<Fraction>>]

\* lead: text before the JSON.  spaced: the same JSON in other bytes.
Raw(json) == [lead |-> << >>, json |-> json, spaced |-> FALSE]

ASSUME IdsAssumption == Missing \notin Ids

\* Mutant: the id is left out of the signed input.
SignatureOfBody(id, timestamp, raw) ==
    <<timestamp.at, timestamp.rest \o raw.lead, raw.json, raw.spaced>>

\* _signature_hex, with the secret both sides share.
SignatureHex(id, timestamp, raw) ==
    <<id, timestamp.at, timestamp.rest \o raw.lead, raw.json, raw.spaced>>

Sign(id, timestamp, raw) ==
    [ header |-> "signature", prefixed |-> TRUE, ascii |-> TRUE,
      hex |-> SignatureHex(id, timestamp, raw) ]

Abs(n) == IF n < 0 THEN -n ELSE n

\* Mutant: the age is not made absolute, and a date ahead is always fresh.
FreshWhenAhead(timestamp, now) ==
    timestamp.header = "stamp" /\ now - timestamp.at <= Tolerance

\* _check_freshness: whether it returns.
Fresh(timestamp, now) ==
    timestamp.header = "stamp" /\ Abs(now - timestamp.at) <= Tolerance

\* verify_signature: "verified" if it returns, else what it raises.  The
\* prefix "sha256=" is removed if it is there; hmac.compare_digest raises a
\* TypeError for a text that is not ASCII.
VerifySignature(d, now) ==
    IF Missing \in {d.id, d.ts, d.sig} \/ ~Fresh(d.ts, now) THEN "signature_error"
    ELSE IF ~d.sig.ascii THEN "type_error"
    ELSE IF d.sig.hex # SignatureHex(d.id, d.ts, d.body) THEN "signature_error"
    ELSE "verified"

\* _event_discriminator.
EventDiscriminator(json) == IF json.type \in KnownTags THEN json.type ELSE UnknownTag

\* The body is JSON, and fits its arm.
Parses(raw) == raw.lead = << >> /\ EventDiscriminator(raw.json) \in raw.json.fits

\* Mutant: only the types of this release are parsed.
ParseKnownEvent(raw) ==
    IF Parses(raw) /\ raw.json.type \in KnownTags THEN raw.json.type ELSE "validation_error"

\* parse_event: the arm that parsed the body, or pydantic's ValidationError.
ParseEvent(raw) ==
    IF Parses(raw) THEN EventDiscriminator(raw.json) ELSE "validation_error"

Verify(d, now) ==
    LET verdict == VerifySignature(d, now)
    IN  IF verdict = "verified" THEN ParseEvent(d.body) ELSE verdict

(***************************************************************************)
(* Deliveries.                                                             *)
(***************************************************************************)
Delivery(id, ts) ==
    [ id |-> id, ts |-> Stamp(ts), body |-> Raw(event[id]),
      sig |-> Sign(id, Stamp(ts), Raw(event[id])) ]

Attempted == UNION { { Delivery(id, ts) : ts \in sent[id] } : id \in Ids }

\* What software in between may make of a delivery: drop or damage a header,
\* drop the prefix, mix up two deliveries, write the same JSON differently, or
\* split the signed text at the dot inside the timestamp.
Arrivals(d) ==
    {d}
    \cup { [d EXCEPT !.id = other] : other \in Ids \cup {Missing} }
    \cup { [d EXCEPT !.ts = other] : other \in {Missing, NotIso, Stamp(d.ts.at + 1)} }
    \cup { [d EXCEPT !.sig = other] : other \in
              { Missing, [d.sig EXCEPT !.prefixed = FALSE], [d.sig EXCEPT !.hex = << >>],
                [d.sig EXCEPT !.hex = << >>, !.ascii = FALSE] } }
    \cup { [d EXCEPT !.body.spaced = TRUE],
           [d EXCEPT !.ts.rest = << >>, !.body.lead = d.ts.rest] }

\* Deliver an event for the first time, or again: the platform may not have
\* seen the receiver's answer.
Attempt(id) ==
    LET ts == clock + skew
    IN  /\ \A first \in sent[id] : ts <= first + RetryFor
        /\ sent' = [sent EXCEPT ![id] = @ \cup {ts}]
        /\ UNCHANGED <<event, clock, skew, until, acts>>

Tick ==
    /\ clock < Horizon
    /\ clock' = clock + 1
    /\ UNCHANGED <<event, skew, sent, until, acts>>

(***************************************************************************)
(* The receiver: verify, skip an id it remembers, act and remember.         *)
(***************************************************************************)
Accepts(d) == Verify(d, clock) \in Tags

Receive(d) ==
    /\ Accepts(d)
    /\ IF clock <= until[d.id] THEN UNCHANGED <<until, acts>>
       ELSE /\ until' = [until EXCEPT ![d.id] = clock + Keep]
            /\ acts' = [acts EXCEPT ![d.id] = @ + 1]
    /\ UNCHANGED <<event, clock, skew, sent>>

\* A delivery verify raises for: the receiver answers with an error.
Refuse(d) == ~Accepts(d) /\ UNCHANGED vars

Next ==
    \/ Tick
    \/ \E id \in Ids : Attempt(id)
    \/ \E d \in Attempted : \E arrived \in Arrivals(d) : Receive(arrived) \/ Refuse(arrived)

Spec == Init /\ [][Next]_vars

(***************************************************************************)
(* Properties.                                                             *)
(***************************************************************************)
(***************************************************************************)
(* "X-Webhook-Id is stable across retries (use it to deduplicate)": the    *)
(* two-sided freshness window makes a finite memory enough.  A receiver     *)
(* that remembers ids for RetryFor + 2 * Tolerance acts once on each event, *)
(* whichever attempts arrive, however late or often, and whatever the      *)
(* platform's clock says.                                                  *)
(***************************************************************************)
ActsOncePerEvent == \A id \in Ids : acts[id] <= 1

(***************************************************************************)
(* What a receiver acts on is what the platform sent.  Every delivery that *)
(* arrives as it was sent, within the window on either side, with or       *)
(* without the prefix, passes verify_signature, whatever the event; and    *)
(* verify hands over an event of nothing else that can arrive.             *)
(***************************************************************************)
AsSent(arrived, d) ==
    /\ <<arrived.id, arrived.ts, arrived.body>> = <<d.id, d.ts, d.body>>
    /\ arrived.sig \in {d.sig, [d.sig EXCEPT !.prefixed = FALSE]}

InWindow(ts) == clock - Tolerance <= ts /\ ts <= clock + Tolerance

VerifiesWhatWasSigned ==
    \A d \in Attempted : \A arrived \in Arrivals(d) :
        LET genuine == AsSent(arrived, d) /\ InWindow(d.ts.at)
        IN  /\ genuine => VerifySignature(arrived, clock) = "verified"
            /\ Verify(arrived, clock) \in Tags => genuine

(***************************************************************************)
(* "An unrecognized event type is returned as UnknownEvent rather than     *)
(* raising, so new server event types never break a receiver": verify      *)
(* refuses an event for its contents only if this release knows its type,  *)
(* or it lacks what UnknownEvent needs of every event (created_at, and a   *)
(* data dict).  Then no attempt of the event was ever acted on: it is not  *)
(* accepted once and refused at another time.  (A body that does not       *)
(* begin with the event is none, and set aside.)                           *)
(***************************************************************************)
NewEventsAreNotRefused ==
    \A d \in Attempted : \A arrived \in Arrivals(d) :
        (Verify(arrived, clock) = "validation_error" /\ arrived.body.lead = << >>) =>
            /\ d.body.json.type \in KnownTags \/ UnknownTag \notin d.body.json.fits
            /\ acts[arrived.id] = 0
==============================================================================
