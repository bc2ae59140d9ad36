------------------------------ MODULE MCWebhooks ------------------------------
(***************************************************************************)
(* Two events, each with any of four contents: of a known type; of a known *)
(* type with data that does not fit; of a type newer than the SDK; of a    *)
(* newer type without the parts common to all events.  The clocks may      *)
(* differ by more than the tolerance.                                      *)
(***************************************************************************)
EXTENDS Webhooks, TLC

CONSTANTS w1, w2

MCKnownTags == {"email.sent"}
MCEvents == { [type |-> "email.sent", fits |-> {"email.sent", UnknownTag}],
              [type |-> "email.sent", fits |-> {UnknownTag}],
              [type |-> "email.archived", fits |-> {UnknownTag}],
              [type |-> "email.archived", fits |-> {}] }

Symmetry == Permutations({w1, w2})
==============================================================================
