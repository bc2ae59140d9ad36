------------------------------- MODULE MCClient -------------------------------
(***************************************************************************)
(* Small programs over the Client module.  The replies are one of each     *)
(* kind a caller tells apart: accepted, accepted but unreadable, rejected. *)
(***************************************************************************)
EXTENDS Client, TLC

CONSTANTS k1, k2, h1, c1, c2, keyA, keyB, home, away

NoFields == [json |-> "other", id |-> "absent", scheduledAt |-> "absent", name |-> "", fits |-> {}]
Plain == [retryAfter |-> "absent", requestId |-> "text", replayed |-> "absent"]

Accepted == [ status |-> 200, headers |-> Plain,
              body |-> [NoFields EXCEPT !.json = "object", !.id = "text", !.fits = Models] ]
Unreadable == [status |-> 200, headers |-> Plain, body |-> [NoFields EXCEPT !.json = "empty"]]
Rejected == [ status |-> 422, headers |-> Plain,
              body |-> [NoFields EXCEPT !.json = "object", !.name = "validation_error"] ]

MCReplies == {Accepted, Unreadable, Rejected}
MCTwoReplies == {Accepted, Rejected}

\* The key changes under the program; the base URL is set, then not.
MCEnvs == {[key |-> keyA, base |-> None], [key |-> None, base |-> away]}
MCOneEnv == {[key |-> keyA, base |-> None]}
MCMalformed == {MalformedUrl}
MCUrls == {home, away, MalformedUrl}

Symmetry == Permutations({c1, c2}) \cup Permutations({k1, k2})
==============================================================================
