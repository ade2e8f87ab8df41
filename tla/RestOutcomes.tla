---------------------------- MODULE RestOutcomes ----------------------------
(***************************************************************************)
(* What a login or a logout of crates/rocketsocket-rest may come to, as    *)
(* the caller is told it: the class of the failure, and with it the code   *)
(* and the delay the server gave, if any.                                  *)
(***************************************************************************)

CONSTANT None   \* no code, no delay, no credentials

Ops == {"none", "pat", "password", "logout"}

Failures == {"BadRequest", "Forbidden", "NotFound", "TooManyRequests", "Server", "Other",
             "Decode", "Transport", "NotAuthenticated"}
Results == Failures \cup {"none", "ok", "Unauthorized"}

Told(result, code, wait) == [result |-> result, code |-> code, wait |-> wait]

\* What the caller is told, with what the server meant by it (history).
Failing(result) == [told |-> Told(result, None, None), meant |-> Told(result, None, None)]

=============================================================================
