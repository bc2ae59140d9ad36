------------------------------- MODULE SendOnce -------------------------------
(***************************************************************************)
(* What a send with an idempotency key promises its callers: of all the    *)
(* messages sent under one key at most one is accepted, a caller that gets *)
(* an Email gets it for that one, and it is a message the caller asked for. *)
(***************************************************************************)
CONSTANTS
    Senders,       \* the callers
    Messages,      \* the messages they may send
    UnderKey(_),   \* the idempotency key of a message
    Asks(_, _)     \* Asks(s, m): sender s asks to send what m says, under m's key

VARIABLES
    accepted,  \* the messages accepted
    told       \* what each sender was told

vars == <<accepted, told>>

Nothing == [kind |-> "nothing"]
Failure == [kind |-> "failure"]
Email(m) == [kind |-> "email", message |-> m]

Init == /\ accepted = {}
        /\ told = [s \in Senders |-> Nothing]

\* A message is accepted under a key that has none yet.
Accept(m) ==
    /\ \A n \in accepted : UnderKey(n) # UnderKey(m)
    /\ accepted' = accepted \cup {m}
    /\ UNCHANGED told

\* A sender gets an Email for the message accepted under its key.
Acknowledge(s, m) ==
    /\ told[s] = Nothing
    /\ m \in accepted /\ Asks(s, m)
    /\ told' = [told EXCEPT ![s] = Email(m)]
    /\ UNCHANGED accepted

\* A sender gives up; its message may have been accepted, or be yet.
GiveUp(s) ==
    /\ told[s] = Nothing
    /\ told' = [told EXCEPT ![s] = Failure]
    /\ UNCHANGED accepted

Next ==
    \/ \E m \in Messages : Accept(m)
    \/ \E s \in Senders : GiveUp(s) \/ \E m \in Messages : Acknowledge(s, m)

Spec == Init /\ [][Next]_vars
==============================================================================
