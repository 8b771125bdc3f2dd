----------------------------- MODULE SapSession -----------------------------
(***************************************************************************)
(* One SapClient (crates/core/src/client.rs) and the commands of the CLI   *)
(* and of the desktop backend that use it.  Every request is preceded by   *)
(* the preflight of ensure_session until one has ended well; redirects are *)
(* followed by hand for Windows and browser SSO; every exchange goes into  *)
(* a bounded trace.  The SAP system, the identity provider and the user's  *)
(* logon are the environment.                                              *)
(***************************************************************************)
EXTENDS SapAnswers, ServiceCatalog

CONSTANTS
  MaxHops,         \* redirects followed for one request (10)
  MaxTrace,        \* MAX_TRACE_ENTRIES (64)
  IdRange,         \* trace ids wrap (2^64)
  MaxChanges,      \* bound on LogonChanges
  MaxCommands,     \* bound on commands
  RegisteredSets,  \* the sets of services a system may have
  Catalogs,        \* the <<V2 list, V4 list>> its catalogs may have
  Name             \* the service name that is resolved

ASSUME BoundsAssumption == MaxHops \in Nat /\ MaxTrace \in Nat \ {0}
                           /\ IdRange \in Nat /\ IdRange > MaxTrace
ASSUME RegisteredAssumption == RegisteredSets \subseteq SUBSET Paths
ASSUME CatalogAssumption ==
  \A c \in Catalogs : \A i \in 1..2 :
    c[i] \in Seq(Entries) /\ \A j \in DOMAIN c[i] : c[i][j].v4 = (i = 2)

(* What a command does with one client, in order: cli main.rs resolves the *)
(* name and goes on; a desktop command is one of the parts.                *)
Programs == {<<"test">>, <<"services">>, <<"resolve">>, <<"Raw">>, <<"Metadata">>,
             <<"Metadata", "Query">>, <<"resolve", "Metadata", "Query">>}

VARIABLES
  auth, logon, registered, front, catalog,  \* the profile and the system
  changes, commands,                 \* how often the environment has moved
  todo,         \* the parts of the command still to be done, the first running
  path,         \* the path of the call under way
  stage,        \* "idle", "ready", "sent", "answered"
  req,          \* the request under way: what it is for, where it goes, hops so far
  answer,       \* the last answer
  established,  \* session_established
  trace,        \* DiagnosticsStore.entries, oldest first
  nextId,       \* DiagnosticsStore.next_id
  got,          \* the catalog lists this part has fetched, as sets of at most one
  candidates,   \* V4 entries of the name still to be tried
  seen,         \* the values logon has had while the command ran
  verdict,      \* how the last command ended
  resolved      \* the path the last resolution found, NoUrl if none

env == <<auth, logon, registered, front, catalog, changes>>
vars == <<auth, logon, registered, front, catalog, changes, commands, todo, path, stage, req,
          answer, established, trace, nextId, got, candidates, seen, verdict, resolved>>

Call == INSTANCE GatewayCall WITH running <- todo # <<>>

NoReq == [for |-> "none", at |-> "none", hops |-> 0]
NoAnswer == Of("ok", "none")
NoneGot == [v2 |-> {}, v4 |-> {}]

-----------------------------------------------------------------------------
Init ==
  /\ auth \in AuthModes
  /\ logon \in BOOLEAN
  /\ registered \in RegisteredSets
  /\ front \in BOOLEAN
  /\ catalog \in Catalogs
  /\ changes = 0 /\ commands = 0
  /\ todo = <<>> /\ path = "none" /\ stage = "idle"
  /\ req = NoReq /\ answer = NoAnswer
  /\ established = FALSE
  /\ trace = <<>> /\ nextId = 0
  /\ got = NoneGot /\ candidates = <<>>
  /\ seen = {} /\ verdict = Call!Undecided /\ resolved = NoUrl

(* A session expires, or the user signs in again. *)
LogonChanges ==
  /\ changes < MaxChanges
  /\ changes' = changes + 1
  /\ logon' = ~logon
  /\ seen' = IF todo # <<>> THEN seen \cup {logon'} ELSE seen
  /\ UNCHANGED <<auth, registered, front, catalog, commands, todo, path, stage, req, answer,
                 established, trace, nextId, got, candidates, verdict, resolved>>

FirstPath(part) ==
  CASE part \in {"test", "services", "resolve"} -> "V2Catalog"
    [] part = "Raw" -> "Metadata"
    [] OTHER -> part

(* A command makes a client of its own. *)
Begin(program) ==
  /\ stage = "idle" /\ commands < MaxCommands
  /\ commands' = commands + 1
  /\ todo' = program /\ path' = FirstPath(Head(program)) /\ stage' = "ready"
  /\ established' = FALSE /\ trace' = <<>> /\ nextId' = 0
  /\ got' = NoneGot /\ candidates' = <<>> /\ seen' = {logon}
  /\ verdict' = Call!Undecided /\ resolved' = NoUrl
  /\ UNCHANGED <<env, req, answer>>

-----------------------------------------------------------------------------
(* How a command goes on when one of its calls has ended in outcome o. *)

Ends(o) ==
  /\ verdict' = [kind |-> o.kind, hint |-> o.hint, path |-> path]
  /\ todo' = <<>> /\ path' = "none" /\ stage' = "idle"

GoesOn(p) == path' = p /\ stage' = "ready" /\ UNCHANGED <<todo, verdict>>

Failed == [kind |-> "failed", hint |-> "none"]
Done(o) == o.kind = "data"

(* The next part of the command, or its end.  A test says "connected", the  *)
(* raw document is handed over unread, the other parts have parsed data.    *)
Success(part) ==
  CASE part = "test" -> "connected" [] part = "Raw" -> "raw" [] OTHER -> "data"
PartDone ==
  IF Len(todo) = 1
  THEN Ends([kind |-> Success(Head(todo)), hint |-> "none"])
  ELSE /\ todo' = Tail(todo) /\ path' = FirstPath(todo[2]) /\ stage' = "ready"
       /\ UNCHANGED verdict

ResolvedTo(u) == resolved' = u /\ PartDone
(* resolve_service_by_name reports what went wrong in its text only. *)
NotResolved == UNCHANGED resolved /\ Ends([kind |-> "notResolved", hint |-> "none"])

(* The V4 entries of the name, in order: a URL, or a call for the group. *)
TryCandidates(rest) ==
  /\ candidates' = rest
  /\ CASE rest = <<>> -> NotResolved
       [] rest # <<>> /\ HasUrl(rest[1]) -> ResolvedTo(rest[1].url)
       [] OTHER -> GoesOn("V4Group") /\ UNCHANGED resolved

Lists(o, l) == IF Done(o) THEN {l} ELSE {}
Listed(ls) == IF ls = {} THEN <<>> ELSE CHOOSE l \in ls : TRUE

(* fetch_service_catalog: a catalog that fails is a warning, and the       *)
(* commands fail only if nothing was found and something was warned of.    *)
ServicesDone(o) ==
  IF path = "V2Catalog"
  THEN /\ got' = [got EXCEPT !.v2 = Lists(o, catalog[1])] /\ GoesOn("V4Catalog")
       /\ UNCHANGED <<candidates, resolved>>
  ELSE /\ got' = [got EXCEPT !.v4 = Lists(o, catalog[2])]
       /\ UNCHANGED <<candidates, resolved>>
       /\ IF {} \in {got.v2, got'.v4} /\ Listed(got.v2) \o Listed(got'.v4) = <<>>
          THEN Ends(Failed) ELSE PartDone

(* resolve_service_by_name: V2 first, V4 whether or not V2 failed. *)
ResolveDone(o) ==
  CASE path = "V2Catalog" ->
         /\ got' = [got EXCEPT !.v2 = Lists(o, catalog[1])] /\ UNCHANGED candidates
         /\ LET matches == IF Done(o) THEN Usable(catalog[1], Name) ELSE <<>>
            IN  IF matches # <<>> THEN ResolvedTo(matches[1].url)
                ELSE GoesOn("V4Catalog") /\ UNCHANGED resolved
    [] path = "V4Catalog" ->
         /\ got' = [got EXCEPT !.v4 = Lists(o, catalog[2])]
         /\ TryCandidates(IF Done(o) THEN Named(catalog[2], Name) ELSE <<>>)
    [] OTHER ->
         /\ UNCHANGED got
         /\ IF ~Done(o) THEN TryCandidates(Tail(candidates))
            ELSE \/ \E u \in Urls : ResolvedTo(u) /\ UNCHANGED candidates
                 \/ TryCandidates(Tail(candidates))

CallDone(o) ==
  /\ req' = NoReq /\ answer' = NoAnswer
  /\ CASE Head(todo) = "services" -> ServicesDone(o)
       [] Head(todo) = "resolve" -> ResolveDone(o)
       [] OTHER -> /\ UNCHANGED <<got, candidates, resolved>>
                   /\ IF Done(o) THEN PartDone ELSE Ends(o)
  /\ UNCHANGED <<env, commands, seen>>

-----------------------------------------------------------------------------
(* The preflight of ensure_session, or the request itself. *)
Send ==
  /\ stage = "ready"
  /\ stage' = "sent"
  /\ req' = [for |-> IF established THEN "request" ELSE "preflight", at |-> "sap", hops |-> 0]
  /\ UNCHANGED <<env, commands, todo, path, answer, established, trace, nextId, got,
                 candidates, seen, verdict, resolved>>

(* The Windows ticket cannot be had (always so on other systems): the same *)
(* error as a refused logon, with what the ticket call says.               *)
TokenFails ==
  /\ stage = "ready" /\ auth = "sso"
  /\ CallDone([kind |-> "refused", hint |-> "noTicket"])
  /\ UNCHANGED <<established, trace, nextId>>

\* Mutant: the store keeps everything.
PushedUnbounded(b) ==
  /\ nextId' = (nextId + 1) % IdRange
  /\ trace' = Append(trace, [id |-> nextId', body |-> b, preview |-> "unread"])

(* DiagnosticsStore.push: the oldest entry gives way. *)
Pushed(b) ==
  LET kept == IF Len(trace) < MaxTrace THEN trace ELSE Tail(trace)
  IN  /\ nextId' = (nextId + 1) % IdRange
      /\ trace' = Append(kept, [id |-> nextId', body |-> b, preview |-> "unread"])

(* What may come back: of the identity provider; of a system that does not *)
(* accept the logon, or has not come to look at it; of one that does; and  *)
(* the pages of whatever answers for the system, to anybody.               *)
FromIdp == {Of("ok", "html"), Of("forbidden", "html"), RedirectTo("sap"), RedirectTo("idp")}

BeforeLogon ==
  {Of("unauthorized", "none"), Of("unauthorized", "message"), Of("forbidden", "none"),
   Of("serverError", "none")}
  \cup (IF path \in registered THEN {} ELSE {Of("notFound", "none")})
  \cup (IF auth = "basic" THEN {} ELSE {RedirectTo("idp"), RedirectTo("none")})
  \cup (IF auth = "browser" THEN {Of("ok", "html"), Of("forbidden", "html")} ELSE {})

FromService ==
  (IF path \in registered
   THEN {Of("ok", "data"), Of("forbidden", "message"), Of("forbidden", "none"),
         Of("badRequest", "code"), Of("serverError", "none")}
        \cup (IF path \in Inner THEN {Of("notFound", "message")} ELSE {})
        \cup (IF path = "Query" THEN {Of("forbidden", "navOnly")} ELSE {})
   ELSE {Of("notFound", "none"), Of("forbidden", "noService")})
  \cup (IF auth = "basic" THEN {} ELSE {RedirectTo("sap")})

Pages == {Of(s, b) : s \in {"ok", "notFound", "forbidden", "serverError"}, b \in {"html", "none"}}

Replies ==
  IF req.at = "idp" THEN FromIdp
  ELSE (IF logon THEN FromService ELSE BeforeLogon) \cup (IF front THEN Pages ELSE {})

Answered(a) ==
  /\ stage = "sent" /\ a \in Replies
  /\ stage' = "answered" /\ answer' = a
  /\ Pushed(a.body)
  /\ UNCHANGED <<env, commands, todo, path, req, established, got, candidates, seen,
                 verdict, resolved>>

(* No answer within the timeouts, or a connection that fails. *)
Lost ==
  /\ stage = "sent"
  /\ Pushed("none")
  /\ CallDone(Failed)
  /\ UNCHANGED established

(* Windows and browser SSO follow redirects themselves, a bounded number *)
(* of times; for Basic the HTTP library has followed them already.       *)
Follows ==
  /\ auth # "basic" /\ answer.status = "redirect" /\ answer.to # "none"
  /\ req.hops < MaxHops

\* Mutant: the loop does not count.
NextHopUncounted(h) == h

NextHop(h) == h + 1

FollowRedirect ==
  /\ stage = "answered" /\ Follows
  /\ req' = [req EXCEPT !.at = answer.to, !.hops = NextHop(req.hops)]
  /\ stage' = "sent"
  /\ UNCHANGED <<env, commands, todo, path, answer, established, trace, nextId, got,
                 candidates, seen, verdict, resolved>>

\* Mutant: the entry of the first hop.
TraceIdOfFirstHop == (nextId + IdRange - req.hops) % IdRange

(* The trace entry an answer's body belongs to: that of the last hop. *)
TraceId == nextId

(* read_response_text: the body goes into that entry, if it is still there. *)
BodyRead ==
  trace' = [i \in DOMAIN trace |->
              IF trace[i].id = TraceId THEN [trace[i] EXCEPT !.preview = answer.body]
              ELSE trace[i]]

Refused == [kind |-> "refused", hint |-> "none"]

(* What ensure_session makes of the last answer.  Only a refused logon, a *)
(* 403 and, for a browser profile, a way to the identity provider or an   *)
(* HTML page stop it; any other answer counts as an established session.  *)
PreflightEnds ==
  /\ stage = "answered" /\ req.for = "preflight" /\ ~Follows
  /\ UNCHANGED nextId
  /\ CASE auth = "browser" /\ answer.status = "redirect" /\ answer.to = "idp" ->
            CallDone(Refused) /\ UNCHANGED <<established, trace>>
       [] answer.status \in {"unauthorized", "forbidden"} ->
            /\ UNCHANGED established
            /\ \/ BodyRead /\ CallDone(ResponseError(auth, path, answer))
               \/ UNCHANGED trace /\ CallDone(ResponseError(auth, path, Unread(answer)))
       [] IsBrowserLoginPage(auth, answer) /\ answer.status \notin {"unauthorized", "forbidden"} ->
            BodyRead /\ CallDone(Refused) /\ UNCHANGED established
       [] OTHER ->
            /\ established' = TRUE /\ UNCHANGED trace
            /\ IF Head(todo) = "test" THEN CallDone([kind |-> "data", hint |-> "none"])
               ELSE /\ req' = NoReq /\ answer' = NoAnswer /\ stage' = "ready"
                    /\ UNCHANGED <<env, commands, todo, path, got, candidates, seen,
                                   verdict, resolved>>

(* A body that breaks off or passes the size cap fails the request. *)
BodyFails ==
  /\ stage = "answered" /\ req.for = "request" /\ ~Follows
  /\ CallDone(Failed)
  /\ UNCHANGED <<established, trace, nextId>>

(* read_text_response, and the parser behind it: HTML is neither JSON nor *)
(* a metadata document, but nothing looks at a document that goes out raw. *)
RequestEnds ==
  /\ stage = "answered" /\ req.for = "request" /\ ~Follows
  /\ BodyRead
  /\ UNCHANGED <<established, nextId>>
  /\ CallDone(IF answer.status # "ok" THEN ResponseError(auth, path, answer)
              ELSE IF answer.body = "data" \/ Head(todo) = "Raw"
                   THEN [kind |-> "data", hint |-> "none"]
              ELSE Failed)

ClientStep ==
  \/ Send \/ TokenFails \/ FollowRedirect \/ PreflightEnds \/ RequestEnds \/ BodyFails
  \/ Lost \/ \E a \in Answers : Answered(a)

Next == LogonChanges \/ (\E program \in Programs : Begin(program)) \/ ClientStep

Spec == Init /\ [][Next]_vars
(* The client's own steps, and an answer or a timeout for every request. *)
FairSpec == Spec /\ WF_vars(ClientStep)

-----------------------------------------------------------------------------
(* The shape of the state. *)
TypeOK ==
  /\ auth \in AuthModes /\ logon \in BOOLEAN /\ registered \subseteq Paths /\ front \in BOOLEAN
  /\ todo = <<>> \/ \E p \in Programs : \E i \in 1..Len(p) : todo = SubSeq(p, i, Len(p))
  /\ path \in Paths \cup {"none"}
  /\ stage \in {"idle", "ready", "sent", "answered"}
  /\ (stage = "idle") <=> (todo = <<>>)
  /\ answer \in Answers /\ established \in BOOLEAN
  /\ nextId \in 0..(IdRange - 1) /\ Len(trace) <= MaxTrace
  /\ resolved \in Urls \cup {NoUrl}

(* A command's verdict is true of the system while it ran: data only from a *)
(* system that accepted the logon; "authentication failed" only if it did   *)
(* not, or a proxy's page came instead of its answer, or there was no       *)
(* ticket; "service not found" only of an unregistered path, of an entity   *)
(* set or key inside a service, or behind a proxy; no hint that names a     *)
(* cause which was not there (client.rs response_error, response_hint,      *)
(* ensure_session).  Of "connected" it says nothing.                        *)
ImplementsCall == Call!CallSpec

(* client.rs, ensure_session: it establishes a session with the SAP server.  *)
ConnectedMeansLoggedOn == verdict.kind = "connected" => TRUE \in seen

(* client.rs, is_browser_login_page: an HTML page instead of OData means that *)
(* the session of a browser profile is gone, whatever the status code.       *)
HtmlMeansSessionGone ==
  stage = "answered" /\ IsBrowserLoginPage(auth, answer) => FALSE \in seen

(* The path a name resolves to is that of the first entry with a URL which  *)
(* the service list shows under the name (catalog.rs, two separate loops),  *)
(* unless a catalog failed or the URL came from the group's own lookup.     *)
ListAndResolveAgree ==
  LET shown == Usable(Deduplicated(catalog[1] \o catalog[2]), Name)
  IN  (resolved # NoUrl /\ got.v2 # {}) =>
        \/ shown # <<>> /\ resolved = shown[1].url
        \/ shown = <<>> \/ ~HasUrl(Named(catalog[2], Name)[1])

(* The preview in a trace entry is that of the response of the entry, over  *)
(* redirects and after old entries have gone (diagnostics.rs, client.rs).   *)
PreviewsOwn ==
  \A i \in DOMAIN trace : trace[i].preview \in {"unread", trace[i].body}

(* Every command ends, also when every answer is another redirect. *)
CommandEnds == (todo # <<>>) ~> (todo = <<>>)
=============================================================================
