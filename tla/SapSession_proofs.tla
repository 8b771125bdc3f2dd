--------------------------- MODULE SapSession_proofs ---------------------------
(***************************************************************************)
(* The client implements GatewayCall for any number of commands, changes   *)
(* of the logon, redirects and catalog entries.  The argument: an answer   *)
(* on its way up tells something of the system while the command ran       *)
(* (Telling), a way to the identity provider tells that the logon was not  *)
(* accepted, and what the resolution still has to try came from a catalog  *)
(* that was read (SessionInv).  The second half: trace entries have the    *)
(* last numbers in order (TraceInv), the second catalog is asked only for  *)
(* what the first did not have (ResolveInv), and the list that is shown    *)
(* begins, under a name, with its first entry that has a URL (LeadsShown). *)
(***************************************************************************)
EXTENDS SapSession, FiniteSetTheorems, FunctionTheorems, SequenceTheorems, TLAPS

Parts == {"test", "services", "resolve", "Raw", "Metadata", "Query"}
Kinds == {"data", "connected", "raw", "refused", "missing", "notResolved", "failed"}
Hints == {"none", "noTicket", "path", "noService", "loginPage", "logonRefused", "navOnly",
          "v4Catalog", "maybeExpired", "noReason", "lookUpCode", "backend"}

ResolvePaths == {"V2Catalog", "V4Catalog", "V4Group"}

(* What an answer tells of the system. *)
Telling(a) ==
  /\ a.status = "ok" /\ a.body = "data" => TRUE \in seen
  /\ a.status = "unauthorized" \/ a.to = "idp" => FALSE \in seen
  /\ a.body = "html" => FALSE \in seen \/ front
  /\ a.status = "notFound" => path \notin registered \/ path \in Inner \/ front
  /\ a.body = "noService" => TRUE \in seen /\ path \notin registered
  /\ a.body = "navOnly" => path \in registered

SessionInv ==
  /\ auth \in AuthModes /\ logon \in BOOLEAN /\ registered \subseteq Paths /\ front \in BOOLEAN
  /\ todo \in Seq(Parts) /\ stage \in {"idle", "ready", "sent", "answered"}
  /\ (stage = "idle") <=> (todo = <<>>)
  /\ todo # <<>> => logon \in seen /\ path \in Paths
  /\ todo # <<>> /\ Head(todo) = "resolve" => path \in ResolvePaths
  /\ stage \in {"sent", "answered"} => /\ req.at \in {"sap", "idp"}
                                       /\ req.at = "idp" => FALSE \in seen
  /\ stage = "answered" => answer \in Answers /\ Telling(answer)
  /\ got = [v2 |-> got.v2, v4 |-> got.v4]
  /\ got.v2 # {} \/ got.v4 # {} \/ candidates # <<>> \/ path = "V4Group" => TRUE \in seen

(* How a call ends; what has been fetched is data, but for a test and for a *)
(* raw document.                                                            *)
Outcome(o) ==
  /\ o.kind \in {"data", "refused", "missing", "failed"} /\ o.hint \in Hints
  /\ o.kind = "data" => /\ o.hint = "none"
                        /\ TRUE \in seen \/ Head(todo) \in {"test", "Raw"}
  /\ Call!True([kind |-> IF o.kind = "data" THEN "failed" ELSE o.kind, hint |-> o.hint, path |-> path])

-----------------------------------------------------------------------------
(* How a command goes on. *)

(* The command has ended, or it goes on with another call. *)
Onward ==
  \/ Call!Finish /\ todo' = <<>> /\ stage' = "idle" /\ path' = "none"
  \/ /\ UNCHANGED Call!callVars /\ todo' \in Seq(Parts) /\ todo' # <<>>
     /\ stage' = "ready" /\ path' \in Paths /\ (path' = "V4Group" => TRUE \in seen)
     /\ Head(todo') = "resolve" => path' \in ResolvePaths

LEMMA EndsOnward ==
  ASSUME SessionInv, todo # <<>>, NEW o, o.kind \in Kinds, o.hint \in Hints,
         Call!True([kind |-> o.kind, hint |-> o.hint, path |-> path]),
         Ends(o), UNCHANGED <<logon, registered, front, seen>>
  PROVE  Onward
<1> DEFINE v == [kind |-> o.kind, hint |-> o.hint, path |-> path]
<1>1. /\ v \in [kind : Kinds, hint : Hints, path : Paths \cup {"none"}]
      /\ verdict' = v /\ todo' = <<>> /\ stage' = "idle" /\ path' = "none"
  BY DEF Ends, SessionInv
<1> HIDE DEF v
<1>2. Call!Finish
  BY <1>1 DEF Call!Finish, Kinds, Hints, v
<1> QED
  BY <1>1, <1>2 DEF Onward

LEMMA GoesOnOnward ==
  ASSUME SessionInv, todo # <<>>, NEW p \in {"V4Catalog", "V4Group"}, p = "V4Group" => TRUE \in seen,
         GoesOn(p), UNCHANGED <<logon, registered, front, seen>>
  PROVE  Onward
BY DEF GoesOn, Onward, SessionInv, Call!callVars, Paths, ResolvePaths

LEMMA FirstPathKnown ==
  /\ \A part \in Parts : FirstPath(part) \in Paths \ {"V4Group"}
  /\ FirstPath("resolve") \in ResolvePaths
BY DEF Parts, FirstPath, Paths, ResolvePaths

LEMMA SecondOfMany ==
  ASSUME NEW S, NEW s \in Seq(S), s # <<>>, Len(s) # 1
  PROVE  Tail(s) \in Seq(S) /\ Tail(s) # <<>> /\ s[2] \in S /\ Head(Tail(s)) = s[2]
<1>1. Len(s) \in Nat /\ Len(s) >= 2
  <2>1. Len(s) \in Nat \ {0}
    BY EmptySeq
  <2>2. \A n \in Nat \ {0} : n # 1 => n >= 2
    OBVIOUS
  <2> QED
    BY <2>1, <2>2
<1>2. Tail(s) \in Seq(S) /\ Len(Tail(s)) = Len(s) - 1
  BY <1>1
<1>3. s[2] \in S
  BY <1>1
<1>4. Tail(s)[1] = s[2] /\ Head(Tail(s)) = Tail(s)[1]
  BY <1>1, <1>2
<1>5. Tail(s) # <<>>
  BY <1>1, <1>2
<1> QED
  BY <1>2, <1>3, <1>4, <1>5

LEMMA PartDoneOnward ==
  ASSUME SessionInv, todo # <<>>, TRUE \in seen \/ Head(todo) \in {"test", "Raw"},
         PartDone, UNCHANGED <<logon, registered, front, seen>>
  PROVE  Onward
<1>1. CASE Len(todo) = 1
  <2> DEFINE o == [kind |-> Success(Head(todo)), hint |-> "none"]
  <2>1. Ends(o)
    BY <1>1 DEF PartDone
  <2>2. /\ o.kind \in Kinds /\ o.hint = "none" /\ o.kind \in {"data", "connected", "raw"}
        /\ o.kind = "data" => TRUE \in seen
    BY DEF Success, Kinds
  <2> HIDE DEF o
  <2>3. Call!True([kind |-> o.kind, hint |-> o.hint, path |-> path])
    BY <2>2 DEF Call!True
  <2> QED
    BY <2>1, <2>2, <2>3, EndsOnward DEF Hints
<1>2. CASE Len(todo) # 1
  <2>1. /\ todo \in Seq(Parts) /\ Tail(todo) \in Seq(Parts) /\ Tail(todo) # <<>>
        /\ todo[2] \in Parts /\ Head(Tail(todo)) = todo[2]
    <3>1. todo \in Seq(Parts)
      BY DEF SessionInv
    <3> QED
      BY <1>2, <3>1, SecondOfMany
  <2>2. todo' = Tail(todo) /\ path' = FirstPath(todo[2]) /\ stage' = "ready" /\ UNCHANGED verdict
    BY <1>2 DEF PartDone
  <2> QED
    BY <2>1, <2>2, FirstPathKnown DEF Onward, Call!callVars
<1> QED
  BY <1>1, <1>2

LEMMA NotResolvedOnward ==
  ASSUME SessionInv, todo # <<>>, NotResolved, UNCHANGED <<logon, registered, front, seen>>
  PROVE  Onward
<1> DEFINE o == [kind |-> "notResolved", hint |-> "none"]
<1>1. Ends(o)
  BY DEF NotResolved
<1>2. o.kind = "notResolved" /\ o.hint = "none"
  OBVIOUS
<1> HIDE DEF o
<1>3. Call!True([kind |-> o.kind, hint |-> o.hint, path |-> path])
  BY <1>2 DEF Call!True
<1> QED
  BY <1>1, <1>2, <1>3, EndsOnward DEF Kinds, Hints

LEMMA TryCandidatesOnward ==
  ASSUME SessionInv, todo # <<>>, NEW rest, rest # <<>> => TRUE \in seen,
         TryCandidates(rest), UNCHANGED <<logon, registered, front, seen>>
  PROVE  Onward /\ (candidates' # <<>> => TRUE \in seen)
<1>1. candidates' = rest
  BY DEF TryCandidates
<1>2. CASE NotResolved
  BY <1>1, <1>2, NotResolvedOnward
<1>3. CASE rest # <<>> /\ PartDone
  BY <1>1, <1>3, PartDoneOnward
<1>4. CASE rest # <<>> /\ GoesOn("V4Group")
  BY <1>1, <1>4, GoesOnOnward
<1> QED
  BY <1>2, <1>3, <1>4 DEF TryCandidates, ResolvedTo

LEMMA FailedOnward ==
  ASSUME SessionInv, todo # <<>>, Ends(Failed), UNCHANGED <<logon, registered, front, seen>>
  PROVE  Onward
<1>1. Failed.kind = "failed" /\ Failed.hint = "none"
  BY DEF Failed
<1>2. Call!True([kind |-> Failed.kind, hint |-> Failed.hint, path |-> path])
  BY <1>1 DEF Call!True
<1> QED
  BY <1>1, <1>2, EndsOnward DEF Kinds, Hints

LEMMA ServicesOnward ==
  ASSUME SessionInv, todo # <<>>, Head(todo) = "services", NEW o, Outcome(o), ServicesDone(o),
         UNCHANGED <<logon, registered, front, seen>>
  PROVE  /\ Onward
         /\ got' = [v2 |-> got'.v2, v4 |-> got'.v4]
         /\ got'.v2 # {} \/ got'.v4 # {} \/ candidates' # <<>> => TRUE \in seen
<1>1. \A l : Lists(o, l) # {} => TRUE \in seen
  BY DEF Lists, Done, Outcome
<1>2. CASE path = "V2Catalog"
  <2>1. /\ got' = [got EXCEPT !.v2 = Lists(o, catalog[1])]
        /\ GoesOn("V4Catalog") /\ UNCHANGED candidates
    BY <1>2 DEF ServicesDone
  <2>2. Onward
    BY <2>1, GoesOnOnward
  <2> QED
    BY <1>1, <2>1, <2>2 DEF SessionInv
<1>3. CASE path # "V2Catalog"
  <2>1. /\ got' = [got EXCEPT !.v4 = Lists(o, catalog[2])] /\ UNCHANGED candidates
        /\ IF {} \in {got.v2, got'.v4} /\ Listed(got.v2) \o Listed(got'.v4) = <<>>
           THEN Ends(Failed) ELSE PartDone
    BY <1>3 DEF ServicesDone
  <2>2. /\ got' = [v2 |-> got.v2, v4 |-> got'.v4]
        /\ got.v2 # {} \/ got'.v4 # {} \/ candidates' # <<>> => TRUE \in seen
    BY <1>1, <2>1 DEF SessionInv
  <2>3. CASE got.v2 # {} \/ got'.v4 # {}
    BY <2>1, <2>2, <2>3, FailedOnward, PartDoneOnward
  <2>4. CASE got.v2 = {} /\ got'.v4 = {}
    <3>1. Listed(got.v2) \o Listed(got'.v4) = <<>>
      BY <2>4 DEF Listed
    <3> QED
      BY <2>1, <2>4, <3>1, FailedOnward, <2>2
  <2> QED
    BY <2>2, <2>3, <2>4
<1> QED
  BY <1>2, <1>3

LEMMA ResolveOnward ==
  ASSUME SessionInv, todo # <<>>, Head(todo) = "resolve", NEW o, Outcome(o), ResolveDone(o),
         UNCHANGED <<logon, registered, front, seen>>
  PROVE  /\ Onward
         /\ got' = [v2 |-> got'.v2, v4 |-> got'.v4]
         /\ got'.v2 # {} \/ got'.v4 # {} \/ candidates' # <<>> => TRUE \in seen
<1>1. /\ \A l : Lists(o, l) # {} => TRUE \in seen
      /\ Done(o) => TRUE \in seen
  BY DEF Lists, Done, Outcome
<1>2. CASE path = "V2Catalog"
  <2> DEFINE matches == IF Done(o) THEN Usable(catalog[1], Name) ELSE <<>>
  <2>1. /\ got' = [got EXCEPT !.v2 = Lists(o, catalog[1])] /\ UNCHANGED candidates
        /\ \/ matches # <<>> /\ PartDone
           \/ GoesOn("V4Catalog")
    BY <1>2 DEF ResolveDone, ResolvedTo
  <2>2. /\ got' = [v2 |-> Lists(o, catalog[1]), v4 |-> got.v4]
        /\ got'.v2 # {} \/ got'.v4 # {} \/ candidates' # <<>> => TRUE \in seen
    BY <1>1, <2>1 DEF SessionInv
  <2>3. matches # <<>> => TRUE \in seen
    BY <1>1
  <2> HIDE DEF matches
  <2>4. Onward
    BY <2>1, <2>3, PartDoneOnward, GoesOnOnward
  <2> QED
    BY <2>2, <2>4
<1>3. CASE path = "V4Catalog"
  <2> DEFINE rest == IF Done(o) THEN Named(catalog[2], Name) ELSE <<>>
  <2>1. got' = [got EXCEPT !.v4 = Lists(o, catalog[2])] /\ TryCandidates(rest)
    BY <1>3 DEF ResolveDone
  <2>2. /\ got' = [v2 |-> got.v2, v4 |-> Lists(o, catalog[2])]
        /\ got'.v2 # {} \/ got'.v4 # {} => TRUE \in seen
    BY <1>1, <2>1 DEF SessionInv
  <2>3. rest # <<>> => TRUE \in seen
    BY <1>1
  <2> HIDE DEF rest
  <2> QED
    BY <2>1, <2>2, <2>3, TryCandidatesOnward
<1>4. CASE path \notin {"V2Catalog", "V4Catalog"}
  <2>1. UNCHANGED got
    BY <1>4 DEF ResolveDone
  <2>2. \/ TryCandidates(Tail(candidates))
        \/ Done(o) /\ PartDone /\ UNCHANGED candidates
    BY <1>4 DEF ResolveDone, ResolvedTo
  <2>3. TRUE \in seen
    BY <1>4 DEF SessionInv, ResolvePaths
  <2>4. CASE TryCandidates(Tail(candidates))
    BY <2>1, <2>3, <2>4, TryCandidatesOnward DEF SessionInv
  <2>5. CASE PartDone /\ UNCHANGED candidates
    BY <2>1, <2>3, <2>5, PartDoneOnward DEF SessionInv
  <2> QED
    BY <2>2, <2>4, <2>5
<1> QED
  BY <1>2, <1>3, <1>4

(* One call less: the command has ended or the next call is ready. *)
LEMMA CallDoneOnward ==
  ASSUME SessionInv, todo # <<>>, NEW o, Outcome(o), CallDone(o)
  PROVE  SessionInv' /\ (Call!Finish \/ UNCHANGED Call!callVars)
<1>1. UNCHANGED <<env, seen>>
  BY DEF CallDone
<1>2. UNCHANGED <<auth, logon, registered, front, seen>>
  BY <1>1 DEF env
<1>3. /\ Onward
      /\ got' = [v2 |-> got'.v2, v4 |-> got'.v4]
      /\ got'.v2 # {} \/ got'.v4 # {} \/ candidates' # <<>> => TRUE \in seen
  <2>1. CASE Head(todo) = "services"
    BY <1>2, <2>1, ServicesOnward DEF CallDone
  <2>2. CASE Head(todo) = "resolve"
    BY <1>2, <2>2, ResolveOnward DEF CallDone
  <2>3. CASE Head(todo) \notin {"services", "resolve"}
    <3>1. UNCHANGED <<got, candidates>> /\ IF Done(o) THEN PartDone ELSE Ends(o)
      BY <2>3 DEF CallDone
    <3>2. ASSUME Done(o) PROVE Onward
      <4>1. TRUE \in seen \/ Head(todo) \in {"test", "Raw"}
        BY <3>2 DEF Done, Outcome
      <4>2. PartDone
        BY <3>1, <3>2
      <4> QED
        BY <1>2, <4>1, <4>2, PartDoneOnward
    <3>3. ASSUME ~Done(o) PROVE Onward
      <4>1. /\ o.kind \in Kinds /\ o.hint \in Hints
            /\ Call!True([kind |-> o.kind, hint |-> o.hint, path |-> path])
        BY <3>3 DEF Done, Outcome, Kinds
      <4>2. Ends(o)
        BY <3>1, <3>3
      <4> QED
        BY <1>2, <4>1, <4>2, EndsOnward
    <3>4. Onward
      BY <3>2, <3>3
    <3> QED
      BY <3>1, <3>4 DEF SessionInv
  <2> QED
    BY <2>1, <2>2, <2>3
<1>4. CASE Call!Finish /\ todo' = <<>> /\ stage' = "idle" /\ path' = "none"
  <2>1. <<>> \in Seq(Parts)
    OBVIOUS
  <2>2. SessionInv'
    BY <1>2, <1>3, <1>4, <2>1 DEF SessionInv
  <2> QED
    BY <1>4, <2>2
<1>5. CASE /\ UNCHANGED Call!callVars /\ todo' \in Seq(Parts) /\ todo' # <<>>
           /\ stage' = "ready" /\ path' \in Paths /\ (path' = "V4Group" => TRUE \in seen)
           /\ Head(todo') = "resolve" => path' \in ResolvePaths
  BY <1>2, <1>3, <1>5 DEF SessionInv
<1> QED
  BY <1>3, <1>4, <1>5 DEF Onward

-----------------------------------------------------------------------------
(* What the answers tell. *)

LEMMA AnswersKnown ==
  ASSUME NEW s \in {"ok", "notFound", "badRequest", "unauthorized", "forbidden", "serverError"},
         NEW b \in Bodies, NEW t \in {"sap", "idp", "none"}
  PROVE  Of(s, b) \in Answers /\ RedirectTo(t) \in Answers
BY DEF Of, RedirectTo, Answers

LEMMA RepliesTell ==
  ASSUME SessionInv, stage = "sent", NEW a \in Replies
  PROVE  a \in Answers /\ Telling(a)
<1>1. logon \in seen /\ logon \in BOOLEAN /\ req.at \in {"sap", "idp"}
      /\ (req.at = "idp" => FALSE \in seen)
  BY DEF SessionInv
<1>2. CASE req.at = "idp"
  <2>1. a \in {Of("ok", "html"), Of("forbidden", "html"), RedirectTo("sap"), RedirectTo("idp")}
    BY <1>2 DEF Replies, FromIdp
  <2>2. a \in Answers
    BY <2>1, AnswersKnown DEF Bodies
  <2>3. \/ a.status \in {"ok", "forbidden"} /\ a.body = "html" /\ a.to = "none"
        \/ a.status = "redirect" /\ a.body = "none" /\ a.to \in {"sap", "idp"}
    BY <2>1 DEF Of, RedirectTo
  <2>4. Telling(a)
    BY <1>1, <1>2, <2>3 DEF Telling
  <2> QED
    BY <2>2, <2>4
<1>3. CASE req.at = "sap" /\ ~logon /\ a \in BeforeLogon
  <2>1. \/ a \in {Of("unauthorized", "none"), Of("unauthorized", "message"),
                  Of("forbidden", "none"), Of("serverError", "none"), RedirectTo("idp"),
                  RedirectTo("none"), Of("ok", "html"), Of("forbidden", "html")}
        \/ path \notin registered /\ a = Of("notFound", "none")
    BY <1>3 DEF BeforeLogon
  <2>2. a \in Answers
    BY <2>1, AnswersKnown DEF Bodies
  <2>3. \/ /\ a.status \in {"unauthorized", "forbidden", "serverError"} /\ a.to = "none"
           /\ a.body \in {"none", "message"}
        \/ a.status = "redirect" /\ a.body = "none" /\ a.to \in {"idp", "none"}
        \/ a.status \in {"ok", "forbidden"} /\ a.body = "html" /\ a.to = "none"
        \/ path \notin registered /\ a.status = "notFound" /\ a.body = "none" /\ a.to = "none"
    BY <2>1 DEF Of, RedirectTo
  <2>4. Telling(a)
    BY <1>1, <1>3, <2>3 DEF Telling
  <2> QED
    BY <2>2, <2>4
<1>4. CASE req.at = "sap" /\ logon /\ a \in FromService
  <2>1. \/ /\ path \in registered
           /\ a \in {Of("ok", "data"), Of("forbidden", "message"), Of("forbidden", "none"),
                     Of("badRequest", "code"), Of("serverError", "none"),
                     Of("forbidden", "navOnly")}
        \/ path \in Inner /\ a = Of("notFound", "message")
        \/ path \notin registered /\ a \in {Of("notFound", "none"), Of("forbidden", "noService")}
        \/ a = RedirectTo("sap")
    BY <1>4 DEF FromService
  <2>2. a \in Answers
    BY <2>1, AnswersKnown DEF Bodies
  <2>3. \/ /\ path \in registered /\ a.to = "none"
           /\ a.status \in {"ok", "forbidden", "badRequest", "serverError"}
           /\ a.body \in {"data", "message", "none", "code", "navOnly"}
        \/ path \in Inner /\ a.to = "none" /\ a.status = "notFound" /\ a.body = "message"
        \/ /\ path \notin registered /\ a.to = "none"
           /\ a.status \in {"notFound", "forbidden"} /\ a.body \in {"none", "noService"}
        \/ a.status = "redirect" /\ a.body = "none" /\ a.to = "sap"
    BY <2>1 DEF Of, RedirectTo
  <2>4. Telling(a)
    BY <1>1, <1>4, <2>3 DEF Telling
  <2> QED
    BY <2>2, <2>4
<1>5. CASE front /\ a \in Pages
  <2>1. PICK s \in {"ok", "notFound", "forbidden", "serverError"}, b \in {"html", "none"} : a = Of(s, b)
    BY <1>5 DEF Pages
  <2>2. a \in Answers
    BY <2>1, AnswersKnown DEF Bodies
  <2>3. a.status \in {"ok", "notFound", "forbidden", "serverError"} /\ a.to = "none"
        /\ a.body \in {"html", "none"}
    BY <2>1 DEF Of
  <2>4. Telling(a)
    BY <1>5, <2>3 DEF Telling
  <2> QED
    BY <2>2, <2>4
<1> QED
  BY <1>1, <1>2, <1>3, <1>4, <1>5 DEF Replies

-----------------------------------------------------------------------------
(* What a call ends in is true. *)

LEMMA UnreadTelling ==
  ASSUME NEW a \in Answers, Telling(a)
  PROVE  Unread(a) \in Answers /\ Telling(Unread(a))
<1>1. CASE a.body = "html"
  BY <1>1 DEF Unread
<1>2. CASE a.body # "html"
  <2> DEFINE u == [a EXCEPT !.body = "none"]
  <2>1. Unread(a) = u
    BY <1>2 DEF Unread
  <2>2. u \in Answers /\ u.status = a.status /\ u.to = a.to /\ u.body = "none"
    BY DEF Answers, Bodies
  <2> HIDE DEF u
  <2>3. Telling(u)
    BY <2>2 DEF Telling
  <2> QED
    BY <2>1, <2>2, <2>3
<1> QED
  BY <1>1, <1>2

LEMMA ErrorOutcome ==
  ASSUME SessionInv, todo # <<>>, NEW a \in Answers, Telling(a)
  PROVE  Outcome(ResponseError(auth, path, a))
<1> DEFINE o == ResponseError(auth, path, a)
           h == ResponseHint(auth, path, a)
<1>1. /\ o.kind \in {"missing", "refused", "failed"} /\ o.hint = h
      /\ o.kind = "missing" => a.status = "notFound" \/ IsUnknownService403(a)
      /\ o.kind = "refused" => a.status = "unauthorized" \/ IsBrowserLoginPage(auth, a)
  BY DEF ResponseError
<1>2. /\ h \in Hints
      /\ h = "noService" => IsUnknownService403(a)
      /\ h = "loginPage" => IsBrowserLoginPage(auth, a)
      /\ h = "logonRefused" => a.status = "unauthorized"
      /\ h = "navOnly" => a.body = "navOnly"
  BY DEF ResponseHint, Hints
<1> HIDE DEF o, h
<1>3. /\ o.kind = "missing" => path \notin registered \/ path \in Inner \/ front
      /\ o.kind = "refused" => FALSE \in seen \/ front
      /\ h = "noService" => TRUE \in seen /\ path \notin registered
      /\ h = "loginPage" => FALSE \in seen \/ front
      /\ h = "logonRefused" => FALSE \in seen
      /\ h = "navOnly" => path \in registered
  BY <1>1, <1>2 DEF Telling, IsUnknownService403, IsBrowserLoginPage
<1>4. Call!True([kind |-> IF o.kind = "data" THEN "failed" ELSE o.kind, hint |-> o.hint,
                 path |-> path])
  BY <1>1, <1>3 DEF Call!True
<1>5. Outcome(o)
  BY <1>1, <1>2, <1>4 DEF Outcome
<1> QED
  BY <1>5 DEF o

(* The outcomes without a hint. *)
LEMMA PlainOutcome ==
  ASSUME SessionInv, todo # <<>>,
         NEW kind \in {"data", "refused", "failed"},
         kind = "data" => TRUE \in seen \/ Head(todo) \in {"test", "Raw"},
         kind = "refused" => FALSE \in seen \/ front
  PROVE  Outcome([kind |-> kind, hint |-> "none"])
<1> DEFINE o == [kind |-> kind, hint |-> "none"]
<1>1. o.kind = kind /\ o.hint = "none"
  OBVIOUS
<1> HIDE DEF o
<1>2. Call!True([kind |-> IF o.kind = "data" THEN "failed" ELSE o.kind, hint |-> o.hint,
                 path |-> path])
  BY <1>1 DEF Call!True
<1>3. Outcome(o)
  BY <1>1, <1>2 DEF Outcome, Hints
<1> QED
  BY <1>3 DEF o

-----------------------------------------------------------------------------
(* The steps. *)

LEMMA InnerStep ==
  ASSUME SessionInv, [Next]_vars,
         UNCHANGED vars \/ Send \/ FollowRedirect \/ \E a \in Answers : Answered(a)
  PROVE  SessionInv' /\ UNCHANGED Call!callVars
<1>1. CASE UNCHANGED vars
  BY <1>1 DEF vars, SessionInv, Telling, Call!callVars
<1>2. CASE Send
  <2>1. req'.at = "sap" /\ stage = "ready" /\ stage' = "sent"
        /\ UNCHANGED <<auth, logon, registered, front, todo, path, got, candidates, seen, verdict>>
    BY <1>2 DEF Send, env
  <2> QED
    BY <2>1 DEF SessionInv, Call!callVars
<1>3. CASE FollowRedirect
  <2>1. /\ stage = "answered" /\ stage' = "sent" /\ answer.to # "none"
        /\ req' = [req EXCEPT !.at = answer.to, !.hops = NextHop(req.hops)]
        /\ UNCHANGED <<auth, logon, registered, front, todo, path, got, candidates, seen, verdict>>
    BY <1>3 DEF FollowRedirect, Follows, env
  <2>2. answer.to \in {"sap", "idp"} /\ (answer.to = "idp" => FALSE \in seen)
    BY <2>1 DEF SessionInv, Answers, Telling
  <2>3. req'.at = answer.to
    BY <2>1
  <2> QED
    BY <2>1, <2>2, <2>3 DEF SessionInv, Call!callVars
<1>4. ASSUME NEW a \in Answers, Answered(a)
      PROVE  SessionInv' /\ UNCHANGED Call!callVars
  <2>1. /\ stage = "sent" /\ a \in Replies /\ stage' = "answered" /\ answer' = a
        /\ UNCHANGED <<auth, logon, registered, front, todo, path, req, got, candidates, seen, verdict>>
    BY <1>4 DEF Answered, env
  <2>2. Telling(a) /\ a \in Answers
    BY <2>1, RepliesTell
  <2>3. Telling(answer)'
    BY <2>1, <2>2 DEF Telling
  <2> QED
    BY <2>1, <2>2, <2>3 DEF SessionInv, Call!callVars
<1> QED
  BY <1>1, <1>2, <1>3, <1>4

LEMMA FailsStep ==
  ASSUME SessionInv, TokenFails \/ Lost \/ BodyFails
  PROVE  SessionInv' /\ (Call!Finish \/ UNCHANGED Call!callVars)
<1>1. todo # <<>>
  BY DEF TokenFails, Lost, BodyFails, SessionInv
<1>2. CASE TokenFails
  <2> DEFINE o == [kind |-> "refused", hint |-> "noTicket"]
  <2>1. CallDone(o) /\ o.kind = "refused" /\ o.hint = "noTicket"
    BY <1>2 DEF TokenFails
  <2> HIDE DEF o
  <2>2. Call!True([kind |-> IF o.kind = "data" THEN "failed" ELSE o.kind, hint |-> o.hint,
                   path |-> path])
    BY <2>1 DEF Call!True
  <2>3. Outcome(o)
    BY <2>1, <2>2 DEF Outcome, Hints
  <2> QED
    BY <1>1, <2>1, <2>3, CallDoneOnward
<1>3. CASE Lost \/ BodyFails
  BY <1>1, <1>3, PlainOutcome, CallDoneOnward DEF Lost, BodyFails, Failed
<1> QED
  BY <1>2, <1>3

LEMMA RequestEndsStep ==
  ASSUME SessionInv, RequestEnds
  PROVE  SessionInv' /\ (Call!Finish \/ UNCHANGED Call!callVars)
<1>1. todo # <<>> /\ answer \in Answers /\ Telling(answer)
  BY DEF RequestEnds, SessionInv
<1> DEFINE o == IF answer.status # "ok" THEN ResponseError(auth, path, answer)
                ELSE IF answer.body = "data" \/ Head(todo) = "Raw"
                     THEN [kind |-> "data", hint |-> "none"]
                ELSE Failed
<1>2. CallDone(o)
  BY DEF RequestEnds
<1>3. Outcome(o)
  <2>1. CASE answer.status # "ok"
    <3>1. o = ResponseError(auth, path, answer)
      BY <2>1
    <3> QED
      BY <1>1, <3>1, ErrorOutcome
  <2>2. CASE answer.status = "ok" /\ (answer.body = "data" \/ Head(todo) = "Raw")
    <3>1. o = [kind |-> "data", hint |-> "none"]
      BY <2>2
    <3>2. TRUE \in seen \/ Head(todo) \in {"test", "Raw"}
      BY <1>1, <2>2 DEF Telling
    <3> HIDE DEF o
    <3> QED
      BY <1>1, <3>1, <3>2, PlainOutcome
  <2>3. CASE answer.status = "ok" /\ answer.body # "data" /\ Head(todo) # "Raw"
    <3>1. o = [kind |-> "failed", hint |-> "none"]
      BY <2>3 DEF Failed
    <3> HIDE DEF o
    <3> QED
      BY <1>1, <3>1, PlainOutcome
  <2> QED
    BY <2>1, <2>2, <2>3
<1> HIDE DEF o
<1> QED
  BY <1>1, <1>2, <1>3, CallDoneOnward

LEMMA PreflightEndsStep ==
  ASSUME SessionInv, PreflightEnds
  PROVE  SessionInv' /\ (Call!Finish \/ UNCHANGED Call!callVars)
<1>1. todo # <<>> /\ answer \in Answers /\ Telling(answer)
  BY DEF PreflightEnds, SessionInv
<1>2. CASE CallDone(Refused) /\ (answer.to = "idp" \/ IsBrowserLoginPage(auth, answer))
  <2>1. FALSE \in seen \/ front
    BY <1>1, <1>2 DEF Telling, IsBrowserLoginPage
  <2> QED
    BY <1>1, <1>2, <2>1, PlainOutcome, CallDoneOnward DEF Refused
<1>3. CASE CallDone(ResponseError(auth, path, answer))
  BY <1>1, <1>3, ErrorOutcome, CallDoneOnward
<1>4. CASE CallDone(ResponseError(auth, path, Unread(answer)))
  BY <1>1, <1>4, UnreadTelling, ErrorOutcome, CallDoneOnward
<1>5. CASE Head(todo) = "test" /\ CallDone([kind |-> "data", hint |-> "none"])
  BY <1>1, <1>5, PlainOutcome, CallDoneOnward
<1>6. CASE stage' = "ready" /\ UNCHANGED <<env, todo, path, got, candidates, seen, verdict>>
  <2>1. UNCHANGED <<auth, logon, registered, front, todo, path, got, candidates, seen, verdict>>
    BY <1>6 DEF env
  <2> QED
    BY <1>1, <1>6, <2>1 DEF SessionInv, Call!callVars
<1> QED
  BY <1>2, <1>3, <1>4, <1>5, <1>6 DEF PreflightEnds

LEMMA ProgramTail ==
  ASSUME NEW p \in Programs
  PROVE  p \in Seq(Parts) /\ p # <<>> /\ \A j \in 2..Len(p) : p[j] \in {"Metadata", "Query"}
<1>1. CASE p \in {<<"test">>, <<"services">>, <<"resolve">>, <<"Raw">>, <<"Metadata">>}
  <2>1. PICK q \in Parts : p = <<q>>
    BY <1>1 DEF Parts
  <2> QED
    BY <2>1
<1>2. CASE p = <<"Metadata", "Query">>
  <2>1. PICK q \in Parts, r \in {"Metadata", "Query"} : p = <<q, r>>
    BY <1>2 DEF Parts
  <2>2. r \in Parts
    BY DEF Parts
  <2> QED
    BY <2>1, <2>2
<1>3. CASE p = <<"resolve", "Metadata", "Query">>
  <2>1. PICK q \in Parts, r \in {"Metadata", "Query"}, t \in {"Metadata", "Query"} : p = <<q, r, t>>
    BY <1>3 DEF Parts
  <2>2. r \in Parts /\ t \in Parts
    BY DEF Parts
  <2> QED
    BY <2>1, <2>2
<1> QED
  BY <1>1, <1>2, <1>3 DEF Programs

LEMMA BeginStep ==
  ASSUME SessionInv, NEW program \in Programs, Begin(program)
  PROVE  SessionInv' /\ Call!Start
<1>1. /\ stage = "idle" /\ todo' = program /\ path' = FirstPath(Head(program))
      /\ stage' = "ready" /\ got' = NoneGot /\ candidates' = <<>> /\ seen' = {logon}
      /\ verdict' = Call!Undecided /\ UNCHANGED <<auth, logon, registered, front>>
  BY DEF Begin, env
<1>2. program \in Seq(Parts) /\ program # <<>> /\ Head(program) \in Parts
  BY ProgramTail
<1>3. /\ path' \in Paths \ {"V4Group"}
      /\ Head(todo') = "resolve" => path' \in ResolvePaths
  BY <1>1, <1>2, FirstPathKnown
<1>4. Call!Start
  BY <1>1, <1>2 DEF Call!Start, SessionInv
<1>5. /\ got' = [v2 |-> got'.v2, v4 |-> got'.v4]
      /\ got'.v2 = {} /\ got'.v4 = {}
  BY <1>1 DEF NoneGot
<1> QED
  BY <1>1, <1>2, <1>3, <1>4, <1>5 DEF SessionInv

LEMMA LogonStep ==
  ASSUME SessionInv, LogonChanges
  PROVE  SessionInv' /\ Call!LogonChanges
<1>1. /\ logon' = ~logon /\ seen' = IF todo # <<>> THEN seen \cup {logon'} ELSE seen
      /\ UNCHANGED <<auth, registered, front, todo, path, stage, req, answer, got, candidates, verdict>>
  BY DEF LogonChanges
<1>2. /\ \A b \in BOOLEAN : b \in seen => b \in seen'
      /\ todo # <<>> => logon' \in seen'
  BY <1>1
<1>3. logon' \in BOOLEAN
  BY <1>1
<1>4. Telling(answer) => Telling(answer)'
  BY <1>1, <1>2 DEF Telling
<1>5. Call!LogonChanges
  BY <1>1 DEF Call!LogonChanges
<1> QED
  BY <1>1, <1>2, <1>3, <1>4, <1>5 DEF SessionInv

LEMMA SessionStep ==
  ASSUME SessionInv, [Next]_vars
  PROVE  SessionInv' /\ [Call!CallNext]_(Call!callVars)
<1>1. CASE UNCHANGED vars \/ Send \/ FollowRedirect \/ \E a \in Answers : Answered(a)
  BY <1>1, InnerStep
<1>2. CASE TokenFails \/ Lost \/ BodyFails
  BY <1>2, FailsStep DEF Call!CallNext
<1>3. CASE RequestEnds
  BY <1>3, RequestEndsStep DEF Call!CallNext
<1>4. CASE PreflightEnds
  BY <1>4, PreflightEndsStep DEF Call!CallNext
<1>5. ASSUME NEW program \in Programs, Begin(program)
      PROVE  SessionInv' /\ Call!CallNext
  BY <1>5, BeginStep DEF Call!CallNext
<1>6. CASE LogonChanges
  BY <1>6, LogonStep DEF Call!CallNext
<1> QED
  BY <1>1, <1>2, <1>3, <1>4, <1>5, <1>6 DEF Next, ClientStep

LEMMA SessionInit ==
  ASSUME Init
  PROVE  SessionInv /\ Call!CallInit
<1>1. registered \in SUBSET Paths
  BY RegisteredAssumption DEF Init
<1>2. <<>> \in Seq(Parts)
  OBVIOUS
<1>3. /\ got = [v2 |-> got.v2, v4 |-> got.v4]
      /\ got.v2 = {} /\ got.v4 = {}
  BY DEF Init, NoneGot
<1>4. SessionInv
  BY <1>1, <1>2, <1>3 DEF Init, SessionInv
<1> QED
  BY <1>1, <1>4 DEF Init, Call!CallInit

(* Every run of the client, over any number of commands, redirects and      *)
(* changes of the logon, is a run of GatewayCall: what a command says when  *)
(* it ends is true of the system while it ran (client.rs ensure_session,    *)
(* response_error, response_hint; catalog.rs resolve_service_by_name).      *)
THEOREM SessionImplementsCall == Spec => ImplementsCall
<1>1. Init => SessionInv /\ Call!CallInit
  BY SessionInit
<1>2. SessionInv /\ [Next]_vars => SessionInv' /\ [Call!CallNext]_(Call!callVars)
  BY SessionStep
<1> QED
  BY <1>1, <1>2, PTL DEF Spec, ImplementsCall, Call!CallSpec

-----------------------------------------------------------------------------
(* The trace. *)

TraceEntries == [id : 0..(IdRange - 1), body : Bodies, preview : Bodies \cup {"unread"}]

(* The entries of t were numbered one after the other, the last one n, and *)
(* each has its own preview or none yet.                                   *)
Numbered(t, n) ==
  /\ t \in Seq(TraceEntries)
  /\ \A i \in 1..Len(t) : \/ t[i].id = n - (Len(t) - i)
                          \/ t[i].id = n - (Len(t) - i) + IdRange
Owned(t) == \A i \in 1..Len(t) : t[i].preview \in {"unread", t[i].body}

TraceInv ==
  /\ nextId \in 0..(IdRange - 1) /\ Len(trace) <= MaxTrace
  /\ Numbered(trace, nextId) /\ Owned(trace)
  /\ stage = "answered" => Len(trace) >= 1 /\ trace[Len(trace)].body = answer.body

LEMMA Wraps ==
  ASSUME NEW n \in 0..(IdRange - 1)
  PROVE  (n + 1) % IdRange = IF n + 1 = IdRange THEN 0 ELSE n + 1
<1>1. \A R \in Nat \ {0} : \A k \in 0..(R - 1) : (k + 1) % R = IF k + 1 = R THEN 0 ELSE k + 1
  OBVIOUS
<1> QED
  BY <1>1, BoundsAssumption

LEMMA NumberedTail ==
  ASSUME NEW t, NEW n, Numbered(t, n), Owned(t), t # <<>>
  PROVE  Numbered(Tail(t), n) /\ Owned(Tail(t)) /\ Len(Tail(t)) = Len(t) - 1
<1>1. t \in Seq(TraceEntries) /\ Len(t) \in Nat \ {0}
  BY DEF Numbered
<1>2. /\ Tail(t) \in Seq(TraceEntries) /\ Len(Tail(t)) = Len(t) - 1
  BY <1>1
<1>3. \A i \in 1..Len(Tail(t)) : Tail(t)[i] = t[i + 1] /\ i + 1 \in 1..Len(t) /\ i \in Nat
                                 /\ Len(t) - (i + 1) = Len(Tail(t)) - i
  BY <1>1, <1>2
<1>4. \A i \in 1..Len(Tail(t)) : Tail(t)[i].preview \in {"unread", Tail(t)[i].body}
  BY <1>3 DEF Owned
<1>5. \A i \in 1..Len(Tail(t)) : \/ Tail(t)[i].id = n - (Len(Tail(t)) - i)
                                 \/ Tail(t)[i].id = n - (Len(Tail(t)) - i) + IdRange
  <2> TAKE i \in 1..Len(Tail(t))
  <2>1. \/ t[i + 1].id = n - (Len(t) - (i + 1))
        \/ t[i + 1].id = n - (Len(t) - (i + 1)) + IdRange
    BY <1>3 DEF Numbered
  <2> QED
    BY <1>3, <2>1
<1> QED
  BY <1>2, <1>4, <1>5 DEF Numbered, Owned

LEMMA NumberedAppend ==
  ASSUME NEW t, NEW n \in 0..(IdRange - 1), Numbered(t, n), Owned(t), Len(t) < MaxTrace,
         NEW b \in Bodies
  PROVE  LET m == (n + 1) % IdRange
             u == Append(t, [id |-> m, body |-> b, preview |-> "unread"])
         IN  /\ m \in 0..(IdRange - 1) /\ Numbered(u, m) /\ Owned(u) /\ Len(u) = Len(t) + 1
             /\ u[Len(u)].body = b
<1> DEFINE m == (n + 1) % IdRange
           e == [id |-> m, body |-> b, preview |-> "unread"]
           u == Append(t, e)
<1>1. IdRange \in Nat /\ MaxTrace \in Nat /\ MaxTrace < IdRange /\ n \in Nat /\ n < IdRange
  BY BoundsAssumption
<1>2. m = IF n + 1 = IdRange THEN 0 ELSE n + 1
  BY Wraps
<1>3. m \in 0..(IdRange - 1)
  BY <1>1, <1>2
<1> HIDE DEF m
<1>4. e \in TraceEntries /\ e.id = m /\ e.body = b /\ e.preview = "unread"
  BY <1>3 DEF TraceEntries
<1> HIDE DEF e
<1>5. t \in Seq(TraceEntries) /\ Len(t) \in Nat
  BY DEF Numbered
<1>6. /\ u \in Seq(TraceEntries) /\ Len(u) = Len(t) + 1 /\ u[Len(u)] = e
      /\ \A i \in 1..Len(t) : u[i] = t[i]
  BY <1>4, <1>5
<1> HIDE DEF u
<1>7. \A i \in 1..Len(u) : \/ u[i].id = m - (Len(u) - i)
                           \/ u[i].id = m - (Len(u) - i) + IdRange
  <2> TAKE i \in 1..Len(u)
  <2>1. CASE i = Len(u)
    BY <1>1, <1>3, <1>4, <1>6, <2>1
  <2>2. CASE i # Len(u)
    <3>1. i \in 1..Len(t) /\ u[i] = t[i] /\ i \in Nat /\ i <= Len(t)
      BY <1>5, <1>6, <2>2
    <3> DEFINE x == t[i].id
    <3>2. x \in 0..(IdRange - 1) /\ (x = n - (Len(t) - i) \/ x = n - (Len(t) - i) + IdRange)
      <4>1. t[i] \in TraceEntries
        BY <1>5, <3>1
      <4>2. x \in 0..(IdRange - 1)
        BY <4>1 DEF TraceEntries
      <4> QED
        BY <3>1, <4>2 DEF Numbered
    <3> HIDE DEF x
    <3>3. CASE n + 1 = IdRange
      <4>1. x = n - (Len(t) - i)
        <5>1. Len(t) - i < IdRange /\ Len(t) - i \in Nat
          BY <1>1, <1>5, <3>1
        <5> QED
          BY <1>1, <3>2, <3>3, <5>1
      <4>2. x = m - (Len(u) - i) + IdRange
        BY <1>1, <1>2, <1>5, <1>6, <3>1, <3>3, <4>1
      <4> QED
        BY <3>1, <4>2 DEF x
    <3>4. CASE n + 1 # IdRange
      <4>1. m - (Len(u) - i) = n - (Len(t) - i)
        BY <1>1, <1>2, <1>5, <1>6, <3>1, <3>4
      <4> QED
        BY <3>1, <3>2, <4>1 DEF x
    <3> QED
      BY <3>3, <3>4
  <2> QED
    BY <2>1, <2>2
<1>8. \A i \in 1..Len(u) : u[i].preview \in {"unread", u[i].body}
  <2> TAKE i \in 1..Len(u)
  <2>1. CASE i = Len(u)
    BY <1>4, <1>6, <2>1
  <2>2. CASE i # Len(u)
    BY <1>5, <1>6, <2>2 DEF Owned
  <2> QED
    BY <2>1, <2>2
<1>9. /\ m \in 0..(IdRange - 1) /\ Numbered(u, m) /\ Owned(u) /\ Len(u) = Len(t) + 1
      /\ u[Len(u)].body = b
  BY <1>3, <1>4, <1>6, <1>7, <1>8 DEF Numbered, Owned
<1> QED
  BY <1>9 DEF u, e, m

LEMMA PushedNumbered ==
  ASSUME TraceInv, NEW b \in Bodies, Pushed(b)
  PROVE  /\ nextId' \in 0..(IdRange - 1) /\ Len(trace') \in 1..MaxTrace
         /\ Numbered(trace', nextId') /\ Owned(trace') /\ trace'[Len(trace')].body = b
<1> DEFINE kept == IF Len(trace) < MaxTrace THEN trace ELSE Tail(trace)
<1>1. trace \in Seq(TraceEntries) /\ Len(trace) \in Nat /\ MaxTrace \in Nat \ {0}
  BY BoundsAssumption DEF TraceInv, Numbered
<1>2. Numbered(kept, nextId) /\ Owned(kept) /\ Len(kept) < MaxTrace /\ Len(kept) \in Nat
  <2>1. CASE Len(trace) < MaxTrace
    BY <1>1, <2>1 DEF TraceInv
  <2>2. CASE ~(Len(trace) < MaxTrace)
    <3>1. Len(trace) = MaxTrace /\ trace # <<>> /\ kept = Tail(trace)
      BY <1>1, <2>2 DEF TraceInv
    <3>2. Numbered(Tail(trace), nextId) /\ Owned(Tail(trace)) /\ Len(Tail(trace)) = Len(trace) - 1
      BY <3>1, NumberedTail DEF TraceInv
    <3> QED
      BY <1>1, <3>1, <3>2
  <2> QED
    BY <2>1, <2>2
<1>3. /\ nextId' = (nextId + 1) % IdRange
      /\ trace' = Append(kept, [id |-> (nextId + 1) % IdRange, body |-> b, preview |-> "unread"])
  BY DEF Pushed
<1> HIDE DEF kept
<1>4. nextId \in 0..(IdRange - 1)
  BY DEF TraceInv
<1>5. /\ nextId' \in 0..(IdRange - 1) /\ Numbered(trace', nextId') /\ Owned(trace')
      /\ Len(trace') = Len(kept) + 1 /\ trace'[Len(trace')].body = b
  BY <1>2, <1>3, <1>4, NumberedAppend
<1> QED
  BY <1>1, <1>2, <1>5

(* Only the last entry has the number: as many others fit in as numbers. *)
LEMMA BodyReadNumbered ==
  ASSUME TraceInv, stage = "answered", answer \in Answers, BodyRead
  PROVE  Len(trace') <= MaxTrace /\ Numbered(trace', nextId) /\ Owned(trace')
<1>1. /\ trace \in Seq(TraceEntries) /\ Len(trace) \in Nat /\ IdRange \in Nat /\ MaxTrace \in Nat
      /\ Len(trace) < IdRange /\ nextId \in 0..(IdRange - 1) /\ nextId \in Nat
  BY BoundsAssumption DEF TraceInv, Numbered
<1>2. answer.body \in Bodies
  BY DEF Answers, Bodies
<1>3. \A i \in 1..Len(trace) : trace[i].id = nextId => i = Len(trace)
  <2> TAKE i \in 1..Len(trace)
  <2>1. \/ trace[i].id = nextId - (Len(trace) - i)
        \/ trace[i].id = nextId - (Len(trace) - i) + IdRange
    BY DEF TraceInv, Numbered
  <2> QED
    BY <1>1, <2>1
<1>4. /\ DOMAIN trace' = 1..Len(trace)
      /\ \A i \in 1..Len(trace) :
           trace'[i] = IF trace[i].id = nextId THEN [trace[i] EXCEPT !.preview = answer.body]
                       ELSE trace[i]
  BY <1>1 DEF BodyRead, TraceId
<1>5. \A i \in 1..Len(trace) : /\ trace'[i] \in TraceEntries /\ trace'[i].id = trace[i].id
                               /\ trace'[i].preview \in {"unread", trace'[i].body}
  <2> TAKE i \in 1..Len(trace)
  <2>1. trace[i] \in TraceEntries /\ trace[i].preview \in {"unread", trace[i].body}
    BY <1>1 DEF TraceInv, Owned
  <2>2. CASE trace[i].id = nextId
    <3>1. trace[i].body = answer.body
      BY <1>3, <2>2 DEF TraceInv
    <3>2. trace'[i] = [trace[i] EXCEPT !.preview = answer.body]
      BY <1>4, <2>2
    <3> QED
      BY <1>2, <2>1, <3>1, <3>2 DEF TraceEntries
  <2>3. CASE trace[i].id # nextId
    BY <1>4, <2>1, <2>3
  <2> QED
    BY <2>2, <2>3
<1>6. trace' \in [1..Len(trace) -> TraceEntries]
  BY <1>4, <1>5 DEF BodyRead
<1>7. trace' \in Seq(TraceEntries) /\ Len(trace') = Len(trace)
  BY <1>1, <1>6
<1> QED
  BY <1>5, <1>7 DEF TraceInv, Numbered, Owned
-----------------------------------------------------------------------------

(* How many of I come up to i. *)
Place(I, i) == Cardinality({j \in I : j <= i})

LEMMA PlaceUpTo ==
  ASSUME NEW n \in Nat, NEW I \in SUBSET (1..n)
  PROVE  /\ IsFiniteSet(I) /\ Cardinality(I) \in Nat
         /\ \A i \in I : Place(I, i) \in 1..Cardinality(I)
         /\ \A i, k \in I : i < k => Place(I, i) < Place(I, k)
<1>1. IsFiniteSet(I) /\ Cardinality(I) \in Nat
  <2>1. IsFiniteSet(1..n)
    BY FS_Interval
  <2> QED
    BY <2>1, FS_Subset, FS_CardinalityType
<1>2. \A J \in SUBSET I : IsFiniteSet(J) /\ Cardinality(J) \in Nat /\ Cardinality(J) <= Cardinality(I)
  BY <1>1, FS_Subset, FS_CardinalityType
<1>3. ASSUME NEW i \in I PROVE Place(I, i) \in 1..Cardinality(I)
  <2> DEFINE J == {j \in I : j <= i}
  <2>1. J \in SUBSET I /\ i \in J
    BY DEF Place
  <2>2. Cardinality(J) # 0
    BY <1>2, <2>1, FS_EmptySet
  <2> QED
    BY <1>1, <1>2, <2>1, <2>2 DEF Place
<1>4. ASSUME NEW i \in I, NEW k \in I, i < k PROVE Place(I, i) < Place(I, k)
  <2> DEFINE J == {j \in I : j <= i}
             K == {j \in I : j <= k}
  <2>1. J \in SUBSET I /\ K \in SUBSET I /\ J \in SUBSET K /\ k \in K /\ k \notin J
    <3>1. \A j \in I : j \in Nat
      OBVIOUS
    <3>2. \A j \in Nat : j <= i => j <= k
      BY <1>4, <3>1
    <3>3. k <= k /\ ~(k <= i)
      BY <1>4, <3>1
    <3>4. J \subseteq I /\ K \subseteq I /\ k \in K /\ k \notin J
      BY <3>3
    <3>5. J \subseteq K
      BY <3>1, <3>2
    <3> QED
      BY <3>4, <3>5
  <2> HIDE DEF J, K
  <2>2. Cardinality(J) <= Cardinality(K) /\ Cardinality(J) # Cardinality(K)
    BY <1>2, <2>1, FS_Subset
  <2> QED
    BY <1>2, <2>1, <2>2 DEF Place, J, K
<1> QED
  BY <1>1, <1>3, <1>4

(* Every place is taken: there are as many as elements. *)
LEMMA PlaceTaken ==
  ASSUME NEW n \in Nat, NEW I \in SUBSET (1..n), NEW m \in 1..Cardinality(I)
  PROVE  \E i \in I : Place(I, i) = m
<1> DEFINE T == 1..Cardinality(I)
           f == [i \in I |-> Place(I, i)]
<1>1. IsFiniteSet(I) /\ Cardinality(I) \in Nat
  BY PlaceUpTo
<1>2. f \in [I -> T]
  BY PlaceUpTo
<1>3. \A i, k \in I : f[i] = f[k] => i = k
  <2> SUFFICES ASSUME NEW i \in I, NEW k \in I, Place(I, i) = Place(I, k), i # k
               PROVE  FALSE
    OBVIOUS
  <2>1. /\ Place(I, i) \in 1..Cardinality(I)
        /\ i < k => Place(I, i) < Place(I, k)
        /\ k < i => Place(I, k) < Place(I, i)
    BY PlaceUpTo
  <2>2. i \in Nat /\ k \in Nat
    OBVIOUS
  <2> QED
    BY <1>1, <2>1, <2>2
<1>4. f \in Injection(I, T)
  BY <1>2, <1>3, Fun_IsInj
<1>5. IsFiniteSet(T) /\ Cardinality(T) = Cardinality(I)
  BY <1>1, FS_Interval
<1>6. f \in Surjection(I, T)
  BY <1>4, <1>5, FS_Injection
<1>7. \E i \in I : f[i] = m
  <2> HIDE DEF f, T
  <2>1. m \in T
    BY DEF T
  <2> QED
    BY <1>6, <2>1 DEF Surjection
<1> QED
  BY <1>7

(* The elements at the positions of I, in the order of their positions. *)
LEMMA InOrderIs ==
  ASSUME NEW S, NEW s \in Seq(S), NEW I \in SUBSET (DOMAIN s)
  PROVE  /\ InOrder(s, I) \in Seq(S) /\ Len(InOrder(s, I)) = Cardinality(I)
         /\ \A i \in I : InOrder(s, I)[Place(I, i)] = s[i]
<1> DEFINE at(m) == CHOOSE i \in I : Place(I, i) = m
<1>1. DOMAIN s = 1..Len(s) /\ Len(s) \in Nat
  OBVIOUS
<1>2. /\ Cardinality(I) \in Nat
      /\ \A i \in I : Place(I, i) \in 1..Cardinality(I)
      /\ \A i, k \in I : i < k => Place(I, i) < Place(I, k)
  BY <1>1, PlaceUpTo
<1>3. \A m \in 1..Cardinality(I) : at(m) \in I /\ Place(I, at(m)) = m
  BY <1>1, PlaceTaken
<1>4. \A i \in I : at(Place(I, i)) = i
  BY <1>1, <1>2, <1>3
<1>5. InOrder(s, I) = [m \in 1..Cardinality(I) |-> s[at(m)]]
  BY DEF InOrder, Place
<1> HIDE DEF at
<1>6. InOrder(s, I) \in [1..Cardinality(I) -> S]
  BY <1>1, <1>3, <1>5
<1>7. InOrder(s, I) \in Seq(S) /\ Len(InOrder(s, I)) = Cardinality(I)
  BY <1>2, <1>6
<1>8. \A i \in I : InOrder(s, I)[Place(I, i)] = s[i]
  BY <1>2, <1>4, <1>5
<1> QED
  BY <1>7, <1>8

(* The element at the least position of I comes first. *)
LEMMA LeastFirst ==
  ASSUME NEW S, NEW s \in Seq(S), NEW I \in SUBSET (DOMAIN s),
         NEW k \in I, \A j \in I : k <= j
  PROVE  InOrder(s, I) # <<>> /\ InOrder(s, I)[1] = s[k]
<1>1. DOMAIN s = 1..Len(s) /\ Len(s) \in Nat
  OBVIOUS
<1>2. {j \in I : j <= k} = {k}
  BY <1>1
<1>3. Place(I, k) = 1
  BY <1>2, FS_Singleton DEF Place
<1>4. InOrder(s, I) \in Seq(S) /\ Len(InOrder(s, I)) = Cardinality(I)
      /\ InOrder(s, I)[Place(I, k)] = s[k] /\ Place(I, k) \in 1..Cardinality(I)
  BY <1>1, InOrderIs, PlaceUpTo
<1> HIDE DEF Place
<1> QED
  BY <1>3, <1>4

LEMMA FirstLeast ==
  ASSUME NEW S, NEW s \in Seq(S), NEW I \in SUBSET (DOMAIN s), InOrder(s, I) # <<>>
  PROVE  \E k \in I : InOrder(s, I)[1] = s[k] /\ \A j \in I : k <= j
<1>1. DOMAIN s = 1..Len(s) /\ Len(s) \in Nat
  OBVIOUS
<1>2. InOrder(s, I) \in Seq(S) /\ Len(InOrder(s, I)) = Cardinality(I)
  BY InOrderIs
<1>3. 1 \in 1..Cardinality(I)
  BY <1>2
<1>4. PICK k \in I : Place(I, k) = 1
  BY <1>1, <1>3, PlaceTaken
<1>5. ASSUME NEW j \in I, ~(k <= j) PROVE FALSE
  <2>1. j < k
    BY <1>1, <1>5
  <2>2. Place(I, j) < Place(I, k) /\ Place(I, j) \in 1..Cardinality(I)
    BY <1>1, <2>1, PlaceUpTo
  <2> QED
    BY <1>2, <1>4, <2>2
<1>6. InOrder(s, I)[1] = s[k]
  BY <1>4, InOrderIs
<1> QED
  BY <1>5, <1>6

-----------------------------------------------------------------------------

(* e, at position k of s, is the first entry of the name with a URL. *)
Fits(e, name) == HasUrl(e) /\ e.name = name
Leads(s, e, k, name) ==
  /\ k \in DOMAIN s /\ s[k] = e /\ Fits(e, name)
  /\ \A j \in 1..(k - 1) : ~Fits(s[j], name)

LEMMA LeadsUsable ==
  ASSUME NEW s \in Seq(Entries), NEW e, NEW k, NEW name, Leads(s, e, k, name)
  PROVE  Usable(s, name) # <<>> /\ Usable(s, name)[1] = e
<1> DEFINE I == {i \in WithUrl(s) : s[i].name = name}
<1>1. I \in SUBSET (DOMAIN s) /\ k \in I /\ s[k] = e /\ DOMAIN s = 1..Len(s)
  BY DEF Leads, Fits, WithUrl
<1>2. ASSUME NEW j \in I, ~(k <= j) PROVE FALSE
  <2>1. j \in 1..(k - 1)
    BY <1>1, <1>2
  <2> QED
    BY <2>1 DEF Leads, Fits, WithUrl
<1>3. Usable(s, name) = InOrder(s, I)
  BY DEF Usable
<1> HIDE DEF I
<1> QED
  BY <1>1, <1>2, <1>3, LeastFirst

LEMMA UsableLeads ==
  ASSUME NEW s \in Seq(Entries), NEW name, Usable(s, name) # <<>>
  PROVE  \E k \in DOMAIN s : Leads(s, Usable(s, name)[1], k, name)
<1> DEFINE I == {i \in WithUrl(s) : s[i].name = name}
<1>1. I \in SUBSET (DOMAIN s) /\ Usable(s, name) = InOrder(s, I)
  BY DEF Usable, WithUrl
<1>2. PICK k \in I : InOrder(s, I)[1] = s[k] /\ \A j \in I : k <= j
  BY <1>1, FirstLeast
<1>3. k \in DOMAIN s /\ Fits(s[k], name)
  BY DEF Fits, WithUrl
<1>4. ASSUME NEW j \in 1..(k - 1), Fits(s[j], name) PROVE FALSE
  <2>1. j \in DOMAIN s /\ k \in Nat /\ j \in Nat /\ ~(k <= j)
    BY <1>3
  <2>2. j \in I
    BY <1>4, <2>1 DEF Fits, WithUrl
  <2> QED
    BY <1>2, <2>1, <2>2
<1> QED
  BY <1>1, <1>2, <1>3, <1>4 DEF Leads

LEMMA NoneUsable ==
  ASSUME NEW s \in Seq(Entries), NEW name, Usable(s, name) = <<>>, NEW j \in DOMAIN s
  PROVE  ~Fits(s[j], name)
<1> DEFINE I == {i \in WithUrl(s) : s[i].name = name}
<1>1. I \in SUBSET (DOMAIN s) /\ Usable(s, name) = InOrder(s, I) /\ DOMAIN s = 1..Len(s)
  BY DEF Usable, WithUrl
<1> HIDE DEF I
<1>2. Cardinality(I) = 0 /\ IsFiniteSet(I)
  <2>1. Len(InOrder(s, I)) = Cardinality(I)
    BY <1>1, InOrderIs
  <2>2. Len(s) \in Nat /\ I \in SUBSET (1..Len(s))
    BY <1>1
  <2>3. IsFiniteSet(I)
    BY <2>2, PlaceUpTo
  <2> QED
    BY <1>1, <2>1, <2>3
<1>3. I = {}
  BY <1>2, FS_EmptySet
<1> QED
  BY <1>3 DEF I, Fits, WithUrl

(* It stays the first where its position is kept, *)
LEMMA LeadsInOrder ==
  ASSUME NEW s \in Seq(Entries), NEW I \in SUBSET (DOMAIN s), NEW e, NEW k \in I, NEW name,
         Leads(s, e, k, name)
  PROVE  Leads(InOrder(s, I), e, Place(I, k), name)
<1> DEFINE t == InOrder(s, I)
<1>1. DOMAIN s = 1..Len(s) /\ Len(s) \in Nat
  OBVIOUS
<1>2. /\ t \in Seq(Entries) /\ Len(t) = Cardinality(I) /\ \A i \in I : t[Place(I, i)] = s[i]
  BY InOrderIs
<1>3. /\ Cardinality(I) \in Nat /\ \A i \in I : Place(I, i) \in 1..Cardinality(I)
      /\ \A i, j \in I : i < j => Place(I, i) < Place(I, j)
  BY <1>1, PlaceUpTo
<1>4. ASSUME NEW m \in 1..(Place(I, k) - 1) PROVE ~Fits(t[m], name)
  <2>1. m \in 1..Cardinality(I) /\ m < Place(I, k) /\ m \in Nat /\ Place(I, k) \in Nat
    BY <1>3
  <2>2. PICK i \in I : Place(I, i) = m
    BY <1>1, <2>1, PlaceTaken
  <2>3. ~(k < i) /\ i # k
    BY <1>3, <2>1, <2>2
  <2>4. i \in 1..(k - 1)
    BY <1>1, <2>3
  <2>5. t[m] = s[i]
    BY <1>2, <2>2
  <2> QED
    BY <2>4, <2>5 DEF Leads
<1>5. Place(I, k) \in DOMAIN t /\ t[Place(I, k)] = e
  BY <1>2, <1>3 DEF Leads
<1> HIDE DEF t
<1>6. Leads(t, e, Place(I, k), name)
  BY <1>4, <1>5 DEF Leads
<1> QED
  BY <1>6 DEF t

(* and in a longer list, unless an earlier part has one as well. *)
LEMMA LeadsBefore ==
  ASSUME NEW s \in Seq(Entries), NEW t \in Seq(Entries), NEW e, NEW k, NEW name,
         Leads(s, e, k, name)
  PROVE  Leads(s \o t, e, k, name)
<1>1. k \in 1..Len(s) /\ k \in DOMAIN (s \o t)
  BY DEF Leads
<1>2. \A j \in 1..k : (s \o t)[j] = s[j]
  BY <1>1
<1> QED
  BY <1>1, <1>2 DEF Leads

LEMMA LeadsAfter ==
  ASSUME NEW s \in Seq(Entries), NEW t \in Seq(Entries), NEW e, NEW k, NEW name,
         Leads(t, e, k, name), \A j \in DOMAIN s : ~Fits(s[j], name)
  PROVE  Leads(s \o t, e, Len(s) + k, name)
<1>1. /\ k \in 1..Len(t) /\ Len(s) \in Nat /\ Len(t) \in Nat
      /\ Len(s \o t) = Len(s) + Len(t) /\ s \o t \in Seq(Entries)
  BY DEF Leads
<1>2. Len(s) + k \in DOMAIN (s \o t)
  BY <1>1
<1>3. (s \o t)[Len(s) + k] = t[k]
  BY <1>1
<1>4. ASSUME NEW j \in 1..(Len(s) + k - 1) PROVE ~Fits((s \o t)[j], name)
  <2>1. CASE j <= Len(s)
    <3>1. j \in DOMAIN s /\ (s \o t)[j] = s[j]
      BY <1>1, <2>1
    <3> QED
      BY <3>1
  <2>2. CASE j > Len(s)
    <3>1. j - Len(s) \in 1..(k - 1) /\ (s \o t)[j] = t[j - Len(s)]
      BY <1>1, <2>2
    <3> QED
      BY <3>1 DEF Leads
  <2> QED
    BY <1>1, <2>1, <2>2
<1> QED
  BY <1>2, <1>3, <1>4 DEF Leads

(* The list that is shown begins, for a name, with the first entry that has *)
(* a URL: those come first, and so none of them hides behind one without.   *)
LEMMA LeadsShown ==
  ASSUME NEW s \in Seq(Entries), NEW e, NEW k, NEW name, Leads(s, e, k, name)
  PROVE  LET shown == Usable(Deduplicated(s), name) IN shown # <<>> /\ shown[1] = e
<1> DEFINE U == InOrder(s, WithUrl(s))
           V == InOrder(s, DOMAIN s \ WithUrl(s))
           d == U \o V
           I == {i \in DOMAIN d : \A j \in 1..(i - 1) : Key(d[j]) # Key(d[i])}
           m == Place(WithUrl(s), k)
<1>1. WithUrl(s) \in SUBSET (DOMAIN s) /\ k \in WithUrl(s) /\ DOMAIN s \ WithUrl(s) \in SUBSET (DOMAIN s)
  BY DEF WithUrl, Leads, Fits
<1>2. U \in Seq(Entries) /\ Len(U) = Cardinality(WithUrl(s)) /\ V \in Seq(Entries)
  BY <1>1, InOrderIs
<1>3. Leads(U, e, m, name)
  BY <1>1, LeadsInOrder
<1>4. ASSUME NEW j \in 1..Len(U) PROVE HasUrl(U[j])
  <2>1. DOMAIN s = 1..Len(s) /\ Len(s) \in Nat /\ j \in 1..Cardinality(WithUrl(s))
    BY <1>2
  <2>2. PICK i \in WithUrl(s) : Place(WithUrl(s), i) = j
    BY <1>1, <2>1, PlaceTaken
  <2>3. U[j] = s[i]
    BY <1>1, <2>2, InOrderIs
  <2> QED
    BY <2>3 DEF WithUrl
<1>5. Deduplicated(s) = InOrder(d, I)
  BY DEF Deduplicated, FirstOfKey
<1> HIDE DEF U, V, m
<1>6. d \in Seq(Entries) /\ Leads(d, e, m, name)
  BY <1>2, <1>3, LeadsBefore
<1>7. m \in 1..Len(U) /\ \A j \in 1..m : d[j] = U[j]
  BY <1>2, <1>3 DEF Leads
<1> HIDE DEF d
<1>8. m \in I
  <2>1. ASSUME NEW j \in 1..(m - 1), Key(d[j]) = Key(d[m]) PROVE FALSE
    <3>1. d[j].name = d[m].name
      BY <2>1 DEF Key
    <3>2. HasUrl(d[j])
      BY <1>4, <1>7
    <3> QED
      BY <1>6, <3>1, <3>2 DEF Leads, Fits
  <2> QED
    BY <1>6, <2>1 DEF Leads
<1>9. I \in SUBSET (DOMAIN d)
  OBVIOUS
<1> HIDE DEF I
<1>10. InOrder(d, I) \in Seq(Entries) /\ Leads(InOrder(d, I), e, Place(I, m), name)
  BY <1>6, <1>8, <1>9, InOrderIs, LeadsInOrder
<1> QED
  BY <1>5, <1>10, LeadsUsable

-----------------------------------------------------------------------------
(* The path of a name. *)

(* u is a path that the name may resolve to when both catalogs were read. *)
Agrees(c, u) ==
  LET shown == Usable(Deduplicated(c[1] \o c[2]), Name)
  IN  \/ shown # <<>> /\ u = shown[1].url
      \/ shown = <<>> \/ ~HasUrl(Named(c[2], Name)[1])

LEMMA CatalogLists ==
  ASSUME NEW c \in Catalogs
  PROVE  c[1] \in Seq(Entries) /\ c[2] \in Seq(Entries)
BY CatalogAssumption

LEMMA UrlOfFirst ==
  ASSUME NEW s \in Seq(Entries), s # <<>>, HasUrl(s[1])
  PROVE  s[1].url \in Urls
<1>1. s[1] \in Entries
  OBVIOUS
<1> QED
  BY <1>1 DEF Entries, HasUrl

LEMMA V2Agrees ==
  ASSUME NEW c \in Catalogs, Usable(c[1], Name) # <<>>
  PROVE  LET u == Usable(c[1], Name)[1].url IN u \in Urls /\ Agrees(c, u)
<1> DEFINE e == Usable(c[1], Name)[1]
<1>1. c[1] \in Seq(Entries) /\ c[2] \in Seq(Entries) /\ c[1] \o c[2] \in Seq(Entries)
  BY CatalogLists
<1>2. PICK k \in DOMAIN c[1] : Leads(c[1], e, k, Name)
  BY <1>1, UsableLeads
<1>3. Leads(c[1] \o c[2], e, k, Name)
  BY <1>1, <1>2, LeadsBefore
<1>4. e.url \in Urls
  <2>1. e \in Entries /\ HasUrl(e)
    BY <1>1, <1>2 DEF Leads, Fits
  <2> QED
    BY <2>1 DEF Entries, HasUrl
<1> HIDE DEF e
<1>5. LET shown == Usable(Deduplicated(c[1] \o c[2]), Name) IN shown # <<>> /\ shown[1] = e
  BY <1>1, <1>3, LeadsShown
<1>6. Agrees(c, e.url)
  BY <1>5 DEF Agrees
<1> QED
  BY <1>4, <1>6 DEF e

LEMMA V4Agrees ==
  ASSUME NEW c \in Catalogs, Usable(c[1], Name) = <<>>, Named(c[2], Name) # <<>>
  PROVE  Agrees(c, Named(c[2], Name)[1].url)
<1> DEFINE I == {i \in DOMAIN c[2] : c[2][i].name = Name}
           e == Named(c[2], Name)[1]
<1>1. CASE ~HasUrl(e)
  BY <1>1 DEF Agrees
<1>2. CASE HasUrl(e)
  <2>1. c[1] \in Seq(Entries) /\ c[2] \in Seq(Entries) /\ c[1] \o c[2] \in Seq(Entries)
    BY CatalogLists
  <2>2. Named(c[2], Name) = InOrder(c[2], I) /\ I \in SUBSET (DOMAIN c[2])
    BY DEF Named
  <2>3. PICK k \in I : e = c[2][k] /\ \A j \in I : k <= j
    <3> HIDE DEF I
    <3>1. InOrder(c[2], I) # <<>>
      BY <2>2
    <3>2. \E k \in I : InOrder(c[2], I)[1] = c[2][k] /\ \A j \in I : k <= j
      BY <2>1, <2>2, <3>1, FirstLeast
    <3> QED
      BY <2>2, <3>2
  <2>4. ASSUME NEW j \in 1..(k - 1), Fits(c[2][j], Name) PROVE FALSE
    <3>1. j \in DOMAIN c[2] /\ k \in Nat /\ j \in Nat /\ ~(k <= j)
      BY <2>1, <2>3
    <3>2. j \in I
      BY <2>4, <3>1 DEF Fits
    <3> QED
      BY <2>3, <3>1, <3>2
  <2>5. Leads(c[2], e, k, Name)
    BY <1>2, <2>3, <2>4 DEF Leads, Fits
  <2>6. \A j \in DOMAIN c[1] : ~Fits(c[1][j], Name)
    BY <2>1, NoneUsable
  <2> HIDE DEF e
  <2>7. PICK q : Leads(c[1] \o c[2], e, q, Name)
    BY <2>1, <2>5, <2>6, LeadsAfter
  <2> DEFINE s == c[1] \o c[2]
             shown == Usable(Deduplicated(s), Name)
  <2>8. shown # <<>> /\ shown[1] = e
    <3>1. s \in Seq(Entries) /\ Leads(s, e, q, Name)
      BY <2>1, <2>7
    <3> HIDE DEF s
    <3> QED
      BY <3>1, LeadsShown
  <2> QED
    BY <2>8 DEF Agrees, e
<1> QED
  BY <1>1, <1>2


Suffix(t) == \E p \in Programs : \E i \in 1..Len(p) : t = SubSeq(p, i, Len(p))

(* A name is resolved by the first part of a command only; what the second *)
(* catalog is asked for, the first one did not have.                       *)
ResolveInv ==
  /\ catalog \in Catalogs /\ candidates \in Seq(Entries)
  /\ todo = <<>> \/ Suffix(todo)
  /\ path \in Paths \cup {"none"} /\ (path = "V4Group" => candidates # <<>>)
  /\ resolved \in Urls \cup {NoUrl}
  /\ todo # <<>> /\ Head(todo) \in {"services", "resolve"} => resolved = NoUrl
  /\ todo # <<>> /\ Head(todo) = "resolve" /\ got.v2 # {} =>
       /\ path = "V4Catalog" => Usable(catalog[1], Name) = <<>>
       /\ path = "V4Group" => ~HasUrl(Named(catalog[2], Name)[1])
  /\ resolved # NoUrl /\ got.v2 # {} => Agrees(catalog, resolved)

Settled == ResolveInv' /\ stage' \in {"idle", "ready"}

(* A part has ended, and no part after the first one resolves. *)
PartOver ==
  /\ stage' \in {"idle", "ready"} /\ (todo' = <<>> \/ Suffix(todo'))
  /\ path' \in Paths \cup {"none"} /\ path' # "V4Group"
  /\ todo' # <<>> => Head(todo') \notin {"services", "resolve"}

LEMMA SuffixTail ==
  ASSUME NEW t, Suffix(t), Len(t) # 1
  PROVE  Suffix(Tail(t)) /\ Head(Tail(t)) \in {"Metadata", "Query"}
         /\ t[2] \in {"Metadata", "Query"}
<1>1. PICK p \in Programs : \E i \in 1..Len(p) : t = SubSeq(p, i, Len(p))
  BY DEF Suffix
<1>2. PICK i \in 1..Len(p) : t = SubSeq(p, i, Len(p))
  BY <1>1
<1>3. /\ p \in Seq(Parts) /\ Len(p) \in Nat /\ i \in Nat
      /\ \A j \in 2..Len(p) : p[j] \in {"Metadata", "Query"}
  BY ProgramTail
<1>4. Len(t) = Len(p) - i + 1 /\ \A j \in 1..(Len(p) - i + 1) : t[j] = p[i + j - 1]
  <2>1. \A j \in i..Len(p) : p[j] \in Parts
    BY <1>3
  <2> HIDE DEF Parts
  <2> QED
    BY <1>2, <1>3, <2>1, SubSeqProperties
<1>5. i + 1 \in 2..Len(p) /\ i + 1 \in 1..Len(p)
  BY <1>3, <1>4
<1>6. t[2] = p[i + 1]
  BY <1>3, <1>4, <1>5
<1>7. Tail(t) = SubSeq(p, i + 1, Len(p))
  BY <1>2, <1>3, HeadTailOfSubSeq
<1>8. Head(SubSeq(p, i + 1, Len(p))) = p[i + 1]
  BY <1>3, <1>5, HeadTailOfSubSeq
<1> QED
  BY <1>3, <1>5, <1>6, <1>7, <1>8 DEF Suffix

LEMMA EndsOver ==
  ASSUME NEW o, Ends(o)
  PROVE  PartOver
BY DEF Ends, PartOver

LEMMA PartDoneOver ==
  ASSUME ResolveInv, todo # <<>>, PartDone
  PROVE  PartOver
<1>1. CASE Len(todo) = 1
  BY <1>1, EndsOver DEF PartDone
<1>2. CASE Len(todo) # 1
  <2>1. /\ Suffix(Tail(todo)) /\ Head(Tail(todo)) \in {"Metadata", "Query"}
        /\ todo[2] \in {"Metadata", "Query"}
    BY <1>2, SuffixTail DEF ResolveInv
  <2>2. todo' = Tail(todo) /\ path' = FirstPath(todo[2]) /\ stage' = "ready"
    BY <1>2 DEF PartDone
  <2>3. FirstPath(todo[2]) \in {"Metadata", "Query"}
    BY <2>1 DEF FirstPath
  <2> QED
    BY <2>1, <2>2, <2>3 DEF PartOver, Paths
<1> QED
  BY <1>1, <1>2

LEMMA OverSettled ==
  ASSUME ResolveInv, PartOver, UNCHANGED catalog, candidates' \in Seq(Entries),
         resolved' \in Urls \cup {NoUrl},
         resolved' # NoUrl /\ got'.v2 # {} => Agrees(catalog, resolved')
  PROVE  Settled
BY DEF ResolveInv, PartOver, Settled

LEMMA GoesOnSettled ==
  ASSUME ResolveInv, todo # <<>>, NEW p \in {"V4Catalog", "V4Group"}, GoesOn(p),
         UNCHANGED <<catalog, resolved>>, candidates' \in Seq(Entries), resolved = NoUrl,
         p = "V4Group" => candidates' # <<>>,
         Head(todo) = "resolve" /\ got'.v2 # {} =>
           /\ p = "V4Catalog" => Usable(catalog[1], Name) = <<>>
           /\ p = "V4Group" => ~HasUrl(Named(catalog[2], Name)[1])
  PROVE  Settled
BY DEF ResolveInv, GoesOn, Settled, Paths

LEMMA TrySettled ==
  ASSUME ResolveInv, todo # <<>>, Head(todo) = "resolve", UNCHANGED catalog,
         NEW rest \in Seq(Entries), TryCandidates(rest),
         rest # <<>> /\ got'.v2 # {} =>
           /\ HasUrl(rest[1]) => Agrees(catalog, rest[1].url)
           /\ ~HasUrl(rest[1]) => ~HasUrl(Named(catalog[2], Name)[1])
  PROVE  Settled
<1>1. resolved = NoUrl /\ candidates' = rest
  BY DEF ResolveInv, TryCandidates
<1>2. CASE rest = <<>>
  <2>1. UNCHANGED resolved /\ PartOver
    BY <1>2, EndsOver DEF TryCandidates, NotResolved
  <2> QED
    BY <1>1, <2>1, OverSettled
<1>3. CASE rest # <<>> /\ HasUrl(rest[1])
  <2>1. resolved' = rest[1].url /\ PartOver
    BY <1>3, PartDoneOver DEF TryCandidates, ResolvedTo
  <2>2. rest[1].url \in Urls
    BY <1>3, UrlOfFirst
  <2> QED
    BY <1>1, <1>3, <2>1, <2>2, OverSettled
<1>4. CASE rest # <<>> /\ ~HasUrl(rest[1])
  <2>1. GoesOn("V4Group") /\ UNCHANGED resolved
    BY <1>4 DEF TryCandidates
  <2> QED
    BY <1>1, <1>4, <2>1, GoesOnSettled
<1> QED
  BY <1>2, <1>3, <1>4

LEMMA ResolveSettled ==
  ASSUME SessionInv, ResolveInv, todo # <<>>, Head(todo) = "resolve", UNCHANGED catalog,
         NEW o, ResolveDone(o)
  PROVE  Settled
<1>1. /\ catalog \in Catalogs /\ resolved = NoUrl /\ candidates \in Seq(Entries)
      /\ catalog[1] \in Seq(Entries) /\ catalog[2] \in Seq(Entries)
      /\ got = [v2 |-> got.v2, v4 |-> got.v4]
  BY CatalogLists DEF ResolveInv, SessionInv
<1>2. CASE path = "V2Catalog"
  <2> DEFINE matches == IF Done(o) THEN Usable(catalog[1], Name) ELSE <<>>
  <2>1. /\ got' = [got EXCEPT !.v2 = Lists(o, catalog[1])] /\ UNCHANGED candidates
        /\ IF matches # <<>> THEN ResolvedTo(matches[1].url)
           ELSE GoesOn("V4Catalog") /\ UNCHANGED resolved
    BY <1>2 DEF ResolveDone
  <2>2. CASE matches # <<>>
    <3>1. matches = Usable(catalog[1], Name)
      BY <2>2
    <3> HIDE DEF matches
    <3>2. resolved' = matches[1].url /\ PartOver
      BY <2>1, <2>2, PartDoneOver DEF ResolvedTo
    <3>3. resolved' \in Urls /\ Agrees(catalog, resolved')
      BY <1>1, <2>2, <3>1, <3>2, V2Agrees
    <3> QED
      BY <1>1, <2>1, <3>2, <3>3, OverSettled
  <2>3. CASE matches = <<>>
    <3>1. got'.v2 = Lists(o, catalog[1])
      BY <1>1, <2>1
    <3>2. got'.v2 # {} => Usable(catalog[1], Name) = <<>>
      BY <2>3, <3>1 DEF Lists
    <3> HIDE DEF matches
    <3> QED
      BY <1>1, <2>1, <2>3, <3>2, GoesOnSettled
  <2> HIDE DEF matches
  <2> QED
    BY <2>2, <2>3
<1>3. CASE path = "V4Catalog"
  <2> DEFINE named == Named(catalog[2], Name)
             rest == IF Done(o) THEN named ELSE <<>>
  <2>1. got' = [got EXCEPT !.v4 = Lists(o, catalog[2])] /\ TryCandidates(rest)
    BY <1>3 DEF ResolveDone
  <2>2. got'.v2 = got.v2
    BY <1>1, <2>1
  <2>3. named \in Seq(Entries)
    <3> DEFINE I == {i \in DOMAIN catalog[2] : catalog[2][i].name = Name}
    <3>1. named = InOrder(catalog[2], I) /\ I \in SUBSET (DOMAIN catalog[2])
      BY DEF Named
    <3> HIDE DEF named, I
    <3> QED
      BY <1>1, <3>1, InOrderIs
  <2>4. got.v2 # {} /\ named # <<>> => Agrees(catalog, named[1].url)
    <3>1. got.v2 # {} => Usable(catalog[1], Name) = <<>>
      BY <1>3 DEF ResolveInv
    <3> QED
      BY <1>1, <3>1, V4Agrees
  <2>5. rest \in Seq(Entries) /\ (rest # <<>> => rest = named)
    BY <2>3
  <2>6. named = Named(catalog[2], Name)
    OBVIOUS
  <2> HIDE DEF rest, named
  <2> QED
    BY <2>1, <2>2, <2>4, <2>5, <2>6, TrySettled
<1>4. CASE path \notin {"V2Catalog", "V4Catalog"}
  <2>1. path = "V4Group"
    BY <1>4 DEF SessionInv, ResolvePaths
  <2>2. UNCHANGED got
    BY <1>4 DEF ResolveDone
  <2>3. got.v2 # {} => ~HasUrl(Named(catalog[2], Name)[1])
    BY <2>1 DEF ResolveInv
  <2>4. \A u : got.v2 # {} => Agrees(catalog, u)
    BY <2>3 DEF Agrees
  <2>5. Tail(candidates) \in Seq(Entries)
    BY <1>1, <2>1 DEF ResolveInv
  <2>6. CASE TryCandidates(Tail(candidates))
    <3> DEFINE rest == Tail(candidates)
    <3>1. rest \in Seq(Entries) /\ TryCandidates(rest)
      BY <2>5, <2>6
    <3> HIDE DEF rest
    <3> QED
      BY <2>2, <2>3, <2>4, <3>1, TrySettled
  <2>7. ASSUME NEW u \in Urls, ResolvedTo(u), UNCHANGED candidates PROVE Settled
    <3>1. resolved' = u /\ PartOver
      BY <2>7, PartDoneOver DEF ResolvedTo
    <3> QED
      BY <1>1, <2>2, <2>4, <2>7, <3>1, OverSettled
  <2> QED
    BY <1>4, <2>6, <2>7 DEF ResolveDone
<1> QED
  BY <1>2, <1>3, <1>4

LEMMA ServicesSettled ==
  ASSUME SessionInv, ResolveInv, todo # <<>>, Head(todo) = "services", UNCHANGED catalog,
         NEW o, ServicesDone(o)
  PROVE  Settled
<1>1. resolved = NoUrl /\ candidates \in Seq(Entries) /\ UNCHANGED <<candidates, resolved>>
  BY DEF ResolveInv, ServicesDone
<1>2. CASE path = "V2Catalog"
  <2>1. GoesOn("V4Catalog")
    BY <1>2 DEF ServicesDone
  <2> QED
    BY <1>1, <2>1, GoesOnSettled
<1>3. CASE path # "V2Catalog"
  <2>1. Ends(Failed) \/ PartDone
    BY <1>3 DEF ServicesDone
  <2>2. PartOver
    BY <2>1, EndsOver, PartDoneOver
  <2> QED
    BY <1>1, <2>2, OverSettled
<1> QED
  BY <1>2, <1>3

LEMMA CallDoneSettled ==
  ASSUME SessionInv, ResolveInv, todo # <<>>, NEW o, CallDone(o)
  PROVE  Settled
<1>1. UNCHANGED catalog
  BY DEF CallDone, env
<1>2. CASE Head(todo) = "services"
  BY <1>1, <1>2, ServicesSettled DEF CallDone
<1>3. CASE Head(todo) = "resolve"
  BY <1>1, <1>3, ResolveSettled DEF CallDone
<1>4. CASE Head(todo) \notin {"services", "resolve"}
  <2>1. UNCHANGED <<got, candidates, resolved>> /\ IF Done(o) THEN PartDone ELSE Ends(o)
    BY <1>4 DEF CallDone
  <2>2. PartOver
    BY <2>1, EndsOver, PartDoneOver
  <2>3. candidates \in Seq(Entries) /\ resolved \in Urls \cup {NoUrl}
        /\ (resolved # NoUrl /\ got.v2 # {} => Agrees(catalog, resolved))
    BY DEF ResolveInv
  <2> QED
    BY <1>1, <2>1, <2>2, <2>3, OverSettled
<1> QED
  BY <1>2, <1>3, <1>4

-----------------------------------------------------------------------------
(* The steps once more: path and trace. *)

ClientInv ==
  /\ SessionInv /\ ResolveInv /\ TraceInv
  /\ answer \in Answers /\ established \in BOOLEAN

(* What a step makes of the invariant beside SessionInv. *)
Kept == (ResolveInv /\ TraceInv /\ answer \in Answers /\ established \in BOOLEAN)'

LEMMA PathKept ==
  ASSUME ResolveInv, UNCHANGED <<catalog, todo, path, got, candidates, resolved>>
  PROVE  ResolveInv'
BY DEF ResolveInv, Suffix

LEMMA TraceKept ==
  ASSUME TraceInv, UNCHANGED <<trace, nextId>>,
         stage' = "answered" => stage = "answered" /\ UNCHANGED answer
  PROVE  TraceInv'
BY DEF TraceInv

LEMMA TraceRead ==
  ASSUME TraceInv, stage = "answered", answer \in Answers, BodyRead, UNCHANGED nextId,
         stage' \in {"idle", "ready"}
  PROVE  TraceInv'
BY BodyReadNumbered DEF TraceInv

LEMMA NoAnswerKnown == NoAnswer \in Answers
BY AnswersKnown DEF NoAnswer, Bodies

LEMMA CallDoneKept ==
  ASSUME ClientInv, todo # <<>>, NEW o, CallDone(o), UNCHANGED nextId, established' \in BOOLEAN,
         UNCHANGED trace \/ (stage = "answered" /\ BodyRead)
  PROVE  Kept
<1>1. Settled /\ answer' = NoAnswer
  BY CallDoneSettled DEF ClientInv, CallDone
<1>2. TraceInv'
  BY <1>1, TraceKept, TraceRead DEF ClientInv, Settled
<1> QED
  BY <1>1, <1>2, NoAnswerKnown DEF Kept, Settled

LEMMA LostKept ==
  ASSUME ClientInv, Lost
  PROVE  Kept
<1>1. todo # <<>> /\ CallDone(Failed) /\ Pushed("none") /\ UNCHANGED established
  BY DEF Lost, ClientInv, SessionInv
<1>2. Settled /\ answer' = NoAnswer
  BY <1>1, CallDoneSettled DEF ClientInv, CallDone
<1>3. TraceInv'
  <2>1. /\ nextId' \in 0..(IdRange - 1) /\ Len(trace') \in 1..MaxTrace
        /\ Numbered(trace', nextId') /\ Owned(trace')
    BY <1>1, PushedNumbered DEF ClientInv, Bodies
  <2> QED
    BY <1>2, <2>1, BoundsAssumption DEF TraceInv, Settled
<1> QED
  BY <1>1, <1>2, <1>3, NoAnswerKnown DEF Kept, Settled, ClientInv

LEMMA AnsweredKept ==
  ASSUME ClientInv, NEW a \in Answers, Answered(a)
  PROVE  Kept
<1>1. /\ stage' = "answered" /\ answer' = a /\ Pushed(a.body)
      /\ UNCHANGED <<catalog, todo, path, established, got, candidates, resolved>>
  BY DEF Answered, env
<1>2. a.body \in Bodies
  BY DEF Answers, Bodies
<1>3. TraceInv'
  <2>1. /\ nextId' \in 0..(IdRange - 1) /\ Len(trace') \in 1..MaxTrace
        /\ Numbered(trace', nextId') /\ Owned(trace') /\ trace'[Len(trace')].body = a.body
    BY <1>1, <1>2, PushedNumbered DEF ClientInv
  <2> QED
    BY <1>1, <2>1, BoundsAssumption DEF TraceInv
<1>4. ResolveInv'
  BY <1>1, PathKept DEF ClientInv
<1> QED
  BY <1>1, <1>3, <1>4 DEF Kept, ClientInv

LEMMA EndsKept ==
  ASSUME ClientInv, RequestEnds \/ PreflightEnds
  PROVE  Kept
<1>1. todo # <<>> /\ stage = "answered" /\ UNCHANGED nextId
  BY DEF RequestEnds, PreflightEnds, ClientInv, SessionInv
<1>2. CASE RequestEnds
  <2>1. PICK o : CallDone(o)
    BY <1>2 DEF RequestEnds
  <2>2. BodyRead /\ UNCHANGED established
    BY <1>2 DEF RequestEnds
  <2> QED
    BY <1>1, <2>1, <2>2, CallDoneKept DEF ClientInv
<1>3. CASE PreflightEnds
  <2>1. \/ \E o : CallDone(o) /\ (UNCHANGED trace \/ BodyRead) /\ established' \in BOOLEAN
        \/ /\ stage' = "ready" /\ answer' = NoAnswer /\ established' = TRUE
           /\ UNCHANGED <<catalog, todo, path, got, candidates, resolved, trace>>
    BY <1>3 DEF PreflightEnds, ClientInv, env
  <2>2. CASE \E o : CallDone(o) /\ (UNCHANGED trace \/ BodyRead) /\ established' \in BOOLEAN
    BY <1>1, <2>2, CallDoneKept
  <2>3. CASE /\ stage' = "ready" /\ answer' = NoAnswer /\ established' = TRUE
             /\ UNCHANGED <<catalog, todo, path, got, candidates, resolved, trace>>
    BY <1>1, <2>3, PathKept, TraceKept, NoAnswerKnown DEF Kept, ClientInv
  <2> QED
    BY <2>1, <2>2, <2>3
<1> QED
  BY <1>2, <1>3

LEMMA QuietKept ==
  ASSUME ClientInv, LogonChanges \/ Send \/ FollowRedirect \/ UNCHANGED vars
  PROVE  Kept
<1>1. /\ UNCHANGED <<catalog, todo, path, got, candidates, resolved, trace, nextId, answer,
                     established>>
      /\ stage' = "answered" => stage = "answered"
  BY DEF LogonChanges, Send, FollowRedirect, vars, env
<1> QED
  BY <1>1, PathKept, TraceKept DEF Kept, ClientInv

LEMMA BeginKept ==
  ASSUME ClientInv, NEW program \in Programs, Begin(program)
  PROVE  Kept
<1>1. /\ todo' = program /\ path' = FirstPath(Head(program)) /\ stage' = "ready"
      /\ established' = FALSE /\ trace' = <<>> /\ nextId' = 0 /\ got' = NoneGot
      /\ candidates' = <<>> /\ resolved' = NoUrl /\ UNCHANGED <<catalog, answer>>
  BY DEF Begin, env
<1>2. program \in Seq(Parts) /\ program # <<>> /\ Head(program) \in Parts
  BY ProgramTail
<1>3. Suffix(program)
  <2>1. SubSeq(program, 1, Len(program)) = program /\ 1 \in 1..Len(program)
    BY <1>2, SubSeqFull
  <2> QED
    BY <2>1 DEF Suffix
<1>4. FirstPath(Head(program)) \in Paths \ {"V4Group"}
  BY <1>2, FirstPathKnown
<1>5. got'.v2 = {} /\ <<>> \in Seq(Entries)
  BY <1>1 DEF NoneGot
<1>6. ResolveInv'
  BY <1>1, <1>3, <1>4, <1>5 DEF ClientInv, ResolveInv, Suffix
<1>7. TraceInv'
  <2>1. <<>> \in Seq(TraceEntries) /\ Len(<<>>) = 0 /\ \A i \in 1..0 : FALSE
    OBVIOUS
  <2> QED
    BY <1>1, <2>1, BoundsAssumption DEF TraceInv, Numbered, Owned
<1> QED
  BY <1>1, <1>6, <1>7 DEF Kept, ClientInv

LEMMA ClientKept ==
  ASSUME ClientInv, [Next]_vars
  PROVE  ClientInv'
<1>1. SessionInv'
  BY SessionStep DEF ClientInv
<1> SUFFICES Kept
  BY <1>1 DEF ClientInv, Kept
<1>2. CASE LogonChanges \/ Send \/ FollowRedirect \/ UNCHANGED vars
  BY <1>2, QuietKept
<1>3. CASE RequestEnds \/ PreflightEnds
  BY <1>3, EndsKept
<1>4. CASE Lost
  BY <1>4, LostKept
<1>5. CASE TokenFails \/ BodyFails
  <2>1. todo # <<>> /\ UNCHANGED <<established, trace, nextId>> /\ \E o : CallDone(o)
    BY <1>5 DEF TokenFails, BodyFails, ClientInv, SessionInv
  <2> QED
    BY <2>1, CallDoneKept DEF ClientInv
<1>6. ASSUME NEW a \in Answers, Answered(a) PROVE Kept
  BY <1>6, AnsweredKept
<1>7. ASSUME NEW program \in Programs, Begin(program) PROVE Kept
  BY <1>7, BeginKept
<1> QED
  BY <1>2, <1>3, <1>4, <1>5, <1>6, <1>7 DEF Next, ClientStep

LEMMA ClientStart ==
  ASSUME Init
  PROVE  ClientInv
<1>1. SessionInv
  BY SessionInit
<1>2. <<>> \in Seq(Entries) /\ <<>> \in Seq(TraceEntries) /\ Len(<<>>) = 0 /\ \A i \in 1..0 : FALSE
  OBVIOUS
<1>3. ResolveInv
  BY <1>2 DEF Init, ResolveInv, NoneGot
<1>4. TraceInv
  BY <1>2, BoundsAssumption DEF Init, TraceInv, Numbered, Owned
<1>5. answer \in Answers /\ established \in BOOLEAN
  BY NoAnswerKnown DEF Init
<1> QED
  BY <1>1, <1>3, <1>4, <1>5 DEF ClientInv

LEMMA ClientAlways == Spec => []ClientInv
<1>1. Init => ClientInv
  BY ClientStart
<1>2. ClientInv /\ [Next]_vars => ClientInv'
  BY ClientKept
<1> QED
  BY <1>1, <1>2, PTL DEF Spec

(* The shape of the state, for every number of redirects, trace entries and *)
(* commands: what is still to be done is the end of a command, and the      *)
(* trace stays within its bound though its ids wrap (diagnostics.rs push).  *)
THEOREM SessionTypes == Spec => []TypeOK
<1>1. ClientInv => TypeOK
  BY DEF ClientInv, SessionInv, ResolveInv, TraceInv, TypeOK, Suffix
<1> QED
  BY <1>1, ClientAlways, PTL

(* Whatever the two catalogs hold, a name resolves to the path of the first *)
(* entry with a URL that the service list shows under it (catalog.rs: the   *)
(* list is sorted and deduplicated, the resolution is a loop of its own).   *)
THEOREM ResolvesAsListed == Spec => []ListAndResolveAgree
<1>1. ClientInv => ListAndResolveAgree
  BY DEF ClientInv, ResolveInv, Agrees, ListAndResolveAgree
<1> QED
  BY <1>1, ClientAlways, PTL

(* The body that was read goes into the trace entry of its own response,    *)
(* for any trace bound below the range of the ids (diagnostics.rs           *)
(* set_response_body_preview, client.rs read_response_text).                *)
THEOREM PreviewsStayOwn == Spec => []PreviewsOwn
<1>1. ClientInv => PreviewsOwn
  <2> SUFFICES ASSUME ClientInv, NEW i \in DOMAIN trace
               PROVE  trace[i].preview \in {"unread", trace[i].body}
    BY DEF PreviewsOwn
  <2>1. i \in 1..Len(trace)
    BY DEF ClientInv, TraceInv, Numbered
  <2> QED
    BY <2>1 DEF ClientInv, TraceInv, Owned
<1> QED
  BY <1>1, ClientAlways, PTL
=============================================================================
