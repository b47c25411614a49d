---------------------------- MODULE AtlasClient ----------------------------
(***************************************************************************)
(* How internal/clients/mongodb/client.go turns an answer of the Atlas     *)
(* Admin API into a Go error, and how the organization controller          *)
(* classifies that error afterwards.                                       *)
(*                                                                         *)
(* An error is a record: its Go type, which the client's predicates test,  *)
(* and the set of text fragments its message contains, which the           *)
(* controller's predicates search for.  errors.Wrap keeps the text and     *)
(* hides the type, so the two kinds of predicate can disagree.             *)
(***************************************************************************)
CONSTANT OpaqueIds    \* the organization ids whose digits contain "500"

(* What a request can meet: a status code, a 403 that says the caller's    *)
(* address is not on the access list, or no answer at all.                 *)
Answers == {"2xx", "400", "401", "403", "403ip", "404", "409", "429",
            "500", "503", "net"}

(* Answers after which the request may or may not have taken effect.       *)
Ambiguous == {"500", "503", "net"}

Nil == [type |-> "nil", says |-> {}]

TypeOf(answer) ==
    CASE answer = "2xx"                          -> "nil"
      [] answer = "404"                          -> "NotFoundError"
      [] answer = "409"                          -> "ConflictError"
      [] answer \in {"401", "403", "403ip"}      -> "UnauthorizedError"
      [] answer \in {"429", "500", "503", "net"} -> "RetryableError"
      [] OTHER                                   -> "Error"

(* The fragments of a message that some predicate looks for.               *)
TextOf(answer) ==
    CASE answer = "401"            -> {"401", "unauthorized"}
      [] answer = "403"            -> {"403", "forbidden"}
      [] answer = "403ip"          -> {"403", "forbidden", "ip address not allowed"}
      [] answer = "404"            -> {"404", "not found"}
      [] answer = "500"            -> {"500", "internal server error", "retryable"}
      [] answer \in {"429", "503"} -> {"retryable"}
      [] answer = "net"            -> {"network error", "retryable"}
      [] OTHER                     -> {}

doRequest(answer) == [type |-> TypeOf(answer), says |-> TextOf(answer)]

Wrap(err) == [err EXCEPT !.type = "wrapped"]

IsNotFoundError(err) == err.type = "NotFoundError"

isUnauthorizedError(err) ==
    err.says \cap {"401", "403", "unauthorized", "forbidden"} # {}

isAtlasTransientOrOpaqueDeleteErr(err) ==
    err.says \cap {"500", "internal server error", "retryable", "network error",
                   "ip address not allowed"} # {}

(* Fault: an organization that is still there is no error.                 *)
VerifyIgnoringPresence(answer, id) ==
    IF answer \in {"404", "2xx"} THEN Nil ELSE Wrap(doRequest(answer))

(* Fault: 404 is passed on, wrapped, like every other error.               *)
VerifyWithoutNotFound(answer, id) ==
    IF answer = "2xx" THEN [type |-> "plain", says |-> {}] ELSE Wrap(doRequest(answer))

(* nil when Atlas says 404; an error otherwise, also when the organization *)
(* is simply there: that message quotes the id.                            *)
VerifyOrganizationDeletion(answer, id) ==
    CASE answer = "404" -> Nil
      [] answer = "2xx" -> [type |-> "plain",
                            says |-> IF id \in OpaqueIds THEN {"500"} ELSE {}]
      [] OTHER          -> Wrap(doRequest(answer))

(* Fault: every error of the verification request is taken for a deletion. *)
TakenOnAnyError(err) == err.type \in {"nil", "wrapped"}

(* What delete makes of a verification: the organization is considered     *)
(* gone, or it is still there.                                             *)
TakenAsDeleted(err) ==
    err = Nil \/ IsNotFoundError(err) \/ isAtlasTransientOrOpaqueDeleteErr(err)

=============================================================================
