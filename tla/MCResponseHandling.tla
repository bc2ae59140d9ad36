------------------------- MODULE MCResponseHandling -------------------------
(***************************************************************************)
(* Every class of the status mapping, with the codes at the edges of its   *)
(* ranges; one error name, beside an absent one and a null; two models.    *)
(***************************************************************************)
EXTENDS ResponseHandling

MCModels == {"ScheduledEmail", "ScheduledEmailPage"}
MCErrorNames == {"validation_error"}
MCStatuses == {200, 202, 299, 300, 400, 401, 403, 404, 409, 422, 429, 499, 500, 503, 599, 600}
=============================================================================
