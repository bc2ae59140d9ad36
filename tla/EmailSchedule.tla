---------------------------- MODULE EmailSchedule ----------------------------
(***************************************************************************)
(* What the verbs of scheduled_emails and batches, and sends with a         *)
(* scheduled_at, promise their callers: a schedule that each call changes  *)
(* at one instant while it runs and before it returns a result; or not at  *)
(* all, if it is refused; or, if its caller learns nothing, now, later on  *)
(* or never.  A call changes what it names and nothing else.               *)
(***************************************************************************)
EXTENDS Integers

CONSTANTS
    Callers,  \* those who call
    Emails,   \* the emails that can be scheduled
    Calls,    \* the calls: [verb, id, due, batch]
    NoBatch   \* an email outside of every batch, a call that names none

VARIABLES
    email,  \* status, due time and batch of each email
    now,    \* the time
    told,   \* the latest call of each caller and what is known of it: [n, call, phase]
    late    \* calls given up by their callers that may still be carried out

vars == <<email, now, told, late>>

\* Some call, whichever it is.
Begin(c) ==
    /\ told[c].phase \notin {"open", "carried"}
    /\ told'[c].call \in Calls
    /\ told' = [told EXCEPT ![c] = [n |-> @.n + 1, call |-> told'[c].call, phase |-> "open"]]
    /\ UNCHANGED <<email, now, late>>

\* What a call makes of an email it names.
Changed(call, old) ==
    CASE call.verb \in {"cancel", "batches.cancel"} -> [old EXCEPT !.status = "canceled"]
      [] call.verb = "batches.update" -> [old EXCEPT !.due = call.due]
      [] OTHER -> [ status |-> "scheduled", due |-> call.due,
                    batch |-> IF call.batch = NoBatch THEN old.batch ELSE call.batch ]

\* One email of a status, or all emails of a batch.
ChangesOne(call, ids, status) ==
    \E e \in ids : /\ email[e].status = status
                   /\ email' = [email EXCEPT ![e] = Changed(call, @)]

ChangesBatch(call) ==
    email' = [ e \in Emails |->
                 IF email[e].status = "scheduled" /\ email[e].batch = call.id
                 THEN Changed(call, email[e]) ELSE email[e] ]

TakesEffect(call) ==
    /\ call.verb \in {"schedule", "update", "batches.update"} => call.due > now
    /\ CASE call.verb = "schedule" -> ChangesOne(call, Emails, "none")
         [] call.verb \in {"update", "cancel"} ->
                ChangesOne(call, {call.id} \cap Emails, "scheduled")
         [] call.verb = "get" -> UNCHANGED email
         [] OTHER -> ChangesBatch(call)

Carry(c) ==
    /\ told[c].phase = "open"
    /\ TakesEffect(told[c].call)
    /\ told' = [told EXCEPT ![c].phase = "carried"]
    /\ UNCHANGED <<now, late>>

Result(c) ==
    /\ told[c].phase = "carried"
    /\ told' = [told EXCEPT ![c].phase = "result"]
    /\ UNCHANGED <<email, now, late>>

Refuse(c) ==
    /\ told[c].phase = "open"
    /\ told' = [told EXCEPT ![c].phase = "refused"]
    /\ UNCHANGED <<email, now, late>>

\* A connection error or a server error.
LearnNothing(c) ==
    /\ told[c].phase \in {"open", "carried"}
    /\ told' = [told EXCEPT ![c].phase = "unknown"]
    /\ \/ UNCHANGED late
       \/ /\ told[c].phase = "open"
          /\ late' = late \cup {[caller |-> c, n |-> told[c].n, call |-> told[c].call]}
    /\ UNCHANGED <<email, now>>

CarryLate(x) ==
    /\ x \in late
    /\ TakesEffect(x.call)
    /\ late' = late \ {x}
    /\ UNCHANGED <<now, told>>

LoseLate(x) ==
    /\ x \in late
    /\ late' = late \ {x}
    /\ UNCHANGED <<email, now, told>>

\* An email that is due is sent.
Dispatch(e) ==
    /\ email[e].status = "scheduled" /\ email[e].due <= now
    /\ email' = [email EXCEPT ![e].status = "sent"]
    /\ UNCHANGED <<now, told, late>>

Tick == now' = now + 1 /\ UNCHANGED <<email, told, late>>

Init ==
    /\ \A e \in Emails : email[e].status \in {"none", "scheduled"}
    /\ now = 0
    /\ \A c \in Callers : told[c].n = 0 /\ told[c].phase = "idle"
    /\ late = {}

Next ==
    \/ \E c \in Callers : Begin(c) \/ Carry(c) \/ Result(c) \/ Refuse(c) \/ LearnNothing(c)
    \/ \E x \in late : CarryLate(x) \/ LoseLate(x)
    \/ \E e \in Emails : Dispatch(e)
    \/ Tick

Spec == Init /\ [][Next]_vars
==============================================================================
