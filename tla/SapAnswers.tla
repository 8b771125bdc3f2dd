----------------------------- MODULE SapAnswers -----------------------------
(***************************************************************************)
(* What comes back from an SAP system and how the client names it: the     *)
(* kinds of answers, and the decisions of crates/core/src/client.rs that   *)
(* turn an answer into an error and a hint.                                *)
(***************************************************************************)
EXTENDS Naturals

AuthModes == {"basic", "sso", "browser"}

(* The paths a client asks for; Group is one V4 service group. *)
Paths == {"V2Catalog", "V4Catalog", "V4Group", "Metadata", "Query"}

(* Those that name an entity set or a key, which a service may not have. *)
Inner == {"V4Group", "Query"}

(* A body is told apart by what the decisions below look for: an HTML page, *)
(* SAP's "No service found", the code of a set that is only navigable, a    *)
(* useful message code, a message without one, or nothing of these.        *)
Bodies == {"data", "html", "noService", "navOnly", "code", "message", "none"}

Answers ==
  [status : {"ok", "notFound", "badRequest", "unauthorized", "forbidden", "serverError"},
   body : Bodies, to : {"none"}]
  \cup [status : {"redirect"}, body : {"none"}, to : {"sap", "idp", "none"}]

Of(s, b) == [status |-> s, body |-> b, to |-> "none"]
RedirectTo(t) == [status |-> "redirect", body |-> "none", to |-> t]

(* The answer whose body could not be read; its content type is known. *)
Unread(a) == IF a.body = "html" THEN a ELSE [a EXCEPT !.body = "none"]

HasMessage(a) == a.body \in {"noService", "navOnly", "code", "message"}
HasCode(a) == a.body \in {"navOnly", "code"}

IsBrowserLoginPage(auth, a) == auth = "browser" /\ a.body = "html"
IsUnknownService403(a) == a.status = "forbidden" /\ a.body = "noService"

(* The hint of an unsuccessful answer, in the order of the code. *)
ResponseHint(auth, path, a) ==
  IF a.status = "notFound" THEN "path"
  ELSE IF IsUnknownService403(a) THEN "noService"
  ELSE IF a.status \in {"unauthorized", "forbidden"} /\ IsBrowserLoginPage(auth, a) THEN "loginPage"
  ELSE IF a.status = "unauthorized" THEN "logonRefused"
  ELSE IF a.status = "forbidden" /\ a.body = "navOnly" THEN "navOnly"
  ELSE IF a.status = "forbidden" /\ ~HasMessage(a) THEN
         IF path \in {"V4Catalog", "V4Group"} THEN "v4Catalog"
         ELSE IF auth = "browser" THEN "maybeExpired" ELSE "noReason"
  ELSE IF a.status \in {"badRequest", "forbidden"} /\ HasCode(a) THEN "lookUpCode"
  ELSE IF a.status = "serverError" THEN "backend" ELSE "none"

\* Mutant: every 403 is a refused logon.
ResponseErrorAnyForbidden(auth, path, a) ==
  [kind |-> CASE a.status = "notFound" \/ IsUnknownService403(a) -> "missing"
              [] a.status \in {"unauthorized", "forbidden"} -> "refused"
              [] OTHER -> "failed",
   hint |-> ResponseHint(auth, path, a)]

(* The error an unsuccessful answer becomes, with its hint. *)
ResponseError(auth, path, a) ==
  [kind |-> CASE a.status = "notFound" \/ IsUnknownService403(a) -> "missing"
              [] a.status = "unauthorized"
                 \/ (a.status = "forbidden" /\ IsBrowserLoginPage(auth, a)) -> "refused"
              [] OTHER -> "failed",
   hint |-> ResponseHint(auth, path, a)]
=============================================================================
