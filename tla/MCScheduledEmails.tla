-------------------------- MODULE MCScheduledEmails --------------------------
(***************************************************************************)
(* One email scheduled in a batch, another in none or not yet there.  One   *)
(* caller schedules and cancels, the other moves; some of the identifiers  *)
(* are texts that mean something in a path.                                *)
(***************************************************************************)
EXTENDS ScheduledEmails

Call(verb, id, due, batch) == [verb |-> verb, id |-> id, due |-> due, batch |-> batch]

MCEmails == {"e1", "e2"}
MCIds == {"b1", "", ".", "..", "batches/b1"}
MCPieces == [ t \in MCEmails \cup MCIds |->
                IF t = "batches/b1" THEN <<"batches", "b1">> ELSE <<t>> ]
MCModels == { "ScheduledEmail", "CanceledScheduledEmail",
              "ScheduledEmailBatchUpdate", "ScheduledEmailBatchCancel" }
MCErrorNames == { "application_error", "rate_limit_exceeded", "not_found", "validation_error",
                  "scheduled_email_not_found", "scheduled_email_not_pending" }

MCMenu == ("sender" :> { Call("schedule", None, 2, "b1"), Call("cancel", "e1", 0, None),
                         Call("update", "e1", 1, None), Call("batches.cancel", "b1", 0, None),
                         Call("get", ".", 0, None) })
          @@ ("mover" :> { Call("update", "e1", 2, None), Call("update", "e2", 2, "b1"),
                           Call("cancel", "batches/b1", 0, None), Call("batches.cancel", "..", 0, None),
                           Call("batches.update", "b1", 2, None) })
MCCallsOf == ("sender" :> 2) @@ ("mover" :> 1)

Entry(status, due, batch) == [status |-> status, due |-> due, batch |-> batch]
MCBefore == { ("e1" :> Entry("scheduled", 1, "b1")) @@ ("e2" :> e2) :
                e2 \in {Entry("none", 0, None), Entry("scheduled", 1, None)} }
==============================================================================
