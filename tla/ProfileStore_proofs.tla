-------------------------- MODULE ProfileStore_proofs --------------------------
(***************************************************************************)
(* A password is in plaintext only by consent, for any number of profiles, *)
(* users, overlapping commands, failures and deaths.  The argument: what   *)
(* is true of the table on disk is true of every copy of it that a command *)
(* made, however old, because consent is never taken back; and the user    *)
(* whose password falls back to the file is the one the copy names.        *)
(* As long as commands run one at a time, no tracked credential is left    *)
(* behind and no edit loses one: every tracked entry of the keyring and    *)
(* every stored session belongs to the table there will be when the one    *)
(* command is done, or is one that the command still has to remove.        *)
(***************************************************************************)
EXTENDS ProfileStore, TLAPS

-----------------------------------------------------------------------------
(* A command begins with a record of what it has to do; it changes no store. *)
LEMMA CommandBegins ==
  ASSUME NEW w \in Workers, Command(w)
  PROVE  \E command : Begins(w, command)
BY Zenon DEF Command, AddProfile, SetupWizard, RemoveProfile, ChangeAlias, SignIn, TestSignIn,
             SignOut, MakeClient

-----------------------------------------------------------------------------
(* Plaintext passwords. *)

(* The plaintext passwords of a table are their users', who agreed. *)
Agreed(table, agreed) ==
  \A n \in Names : (table[n] # None /\ table[n].plain # None) =>
    table[n].plain = table[n].user /\ <<n, table[n].user>> \in agreed

Steps == {"clear", "setPassword", "save", "deletePassword", "load", "forget", "window",
          "remember", "persist", "loadSession"}
JobFields == {"cmd", "todo", "name", "draft", "set", "drop", "conn", "plaintext", "form"}
ProfileFields == {"target", "lang", "mode", "user", "plain"}

Pending(todo, step) == \E i \in DOMAIN todo : todo[i] = step

(* What a command will save is agreed to, and so is the password that may  *)
(* still have to fall back to the file.                                    *)
Sound(k, agreed) ==
  /\ DOMAIN k = JobFields /\ k.todo \in Seq(Steps)
  /\ Pending(k.todo, "save") => DOMAIN k.draft = Names /\ Agreed(k.draft, agreed)
  /\ (Pending(k.todo, "setPassword") /\ k.cmd # "wizard") =>
       /\ k.name \in Names /\ DOMAIN k.draft = Names /\ Agreed(k.draft, agreed)
       /\ DOMAIN k.draft[k.name] = ProfileFields /\ k.draft[k.name].user = k.set
       /\ k.plaintext => <<k.name, k.set>> \in agreed

PlainInv ==
  /\ DOMAIN connections = Names /\ Agreed(connections, consented)
  /\ DOMAIN work = Workers
  /\ \A w \in Workers : Sound(work[w], consented)

LEMMA IdleSound ==
  ASSUME NEW agreed
  PROVE  /\ DOMAIN Idle = JobFields /\ Idle.todo = <<>>
         /\ Sound(Idle, agreed)
<1>1. DOMAIN Idle = JobFields /\ Idle.todo = <<>>
  BY DEF Idle, JobFields
<1>2. <<>> \in Seq(Steps)
  OBVIOUS
<1> QED
  BY <1>1, <1>2 DEF Sound, Pending

(* Consent is not taken back. *)
LEMMA ConsentStays ==
  ASSUME NEW k, NEW a, NEW b, a \subseteq b, Sound(k, a)
  PROVE  Sound(k, b)
BY DEF Sound, Agreed

LEMMA TailPending ==
  ASSUME NEW s \in Seq(Steps), s # <<>>
  PROVE  /\ Tail(s) \in Seq(Steps)
         /\ \A step : Pending(Tail(s), step) => Pending(s, step)
<1>1. ASSUME NEW i \in DOMAIN Tail(s) PROVE i + 1 \in DOMAIN s /\ s[i + 1] = Tail(s)[i]
  OBVIOUS
<1> QED
  BY <1>1 DEF Pending

LEMMA ConcatPending ==
  ASSUME NEW s \in Seq(Steps), NEW t \in Seq(Steps)
  PROVE  /\ s \o t \in Seq(Steps)
         /\ \A step : Pending(s \o t, step) => Pending(s, step) \/ Pending(t, step)
<1>1. ASSUME NEW i \in DOMAIN (s \o t)
      PROVE  \/ i \in DOMAIN s /\ (s \o t)[i] = s[i]
             \/ i - Len(s) \in DOMAIN t /\ (s \o t)[i] = t[i - Len(s)]
  OBVIOUS
<1> QED
  BY <1>1 DEF Pending

(* A command that is done with a step is as sound as before. *)
LEMMA ShorterSound ==
  ASSUME NEW k, NEW agreed, Sound(k, agreed), k.todo # <<>>
  PROVE  Sound([k EXCEPT !.todo = Tail(@)], agreed)
<1> DEFINE l == [k EXCEPT !.todo = Tail(@)]
<1>1. /\ DOMAIN l = JobFields /\ l.todo = Tail(k.todo)
      /\ l.cmd = k.cmd /\ l.name = k.name /\ l.draft = k.draft /\ l.set = k.set
      /\ l.plaintext = k.plaintext
  BY DEF Sound, JobFields
<1> HIDE DEF l
<1>2. /\ Tail(k.todo) \in Seq(Steps)
      /\ \A step : Pending(Tail(k.todo), step) => Pending(k.todo, step)
  BY TailPending DEF Sound
<1>3. Sound(l, agreed)
  BY <1>1, <1>2 DEF Sound
<1> QED
  BY <1>3 DEF l

(* The password that falls back is that of the user the draft names. *)
LEMMA FallenBackSound ==
  ASSUME NEW k, NEW agreed, Sound(k, agreed), k.todo # <<>>,
         Pending(k.todo, "setPassword"), k.cmd # "wizard", k.plaintext
  PROVE  Sound(FallenBack(k), agreed)
<1> DEFINE l == FallenBack(k)
           p == k.draft[k.name]
           q == [p EXCEPT !.plain = k.set]
           d == [k.draft EXCEPT ![k.name] = q]
<1>1. /\ k.name \in Names /\ DOMAIN k.draft = Names /\ Agreed(k.draft, agreed)
      /\ DOMAIN p = ProfileFields /\ p.user = k.set /\ <<k.name, k.set>> \in agreed
  BY DEF Sound
<1>2. DOMAIN q = ProfileFields /\ q.user = k.set /\ q.plain = k.set
  BY <1>1 DEF ProfileFields
<1>3. /\ DOMAIN d = Names
      /\ \A n \in Names : d[n] = IF n = k.name THEN q ELSE k.draft[n]
  BY <1>1
<1>4. Agreed(d, agreed)
  BY <1>1, <1>2, <1>3 DEF Agreed
<1>5. /\ DOMAIN l = JobFields /\ l.todo = Tail(k.todo)
      /\ l.cmd = k.cmd /\ l.name = k.name /\ l.draft = d /\ l.set = k.set
      /\ l.plaintext = k.plaintext
  BY DEF Sound, JobFields, FallenBack
<1>6. d[k.name] = q
  BY <1>1
<1>7. /\ Tail(k.todo) \in Seq(Steps)
      /\ \A step : Pending(Tail(k.todo), step) => Pending(k.todo, step)
  BY TailPending DEF Sound
<1> HIDE DEF l, d, q, p
<1>8. Sound(l, agreed)
  BY <1>1, <1>2, <1>3, <1>4, <1>5, <1>6, <1>7 DEF Sound
<1> QED
  BY <1>8 DEF l

-----------------------------------------------------------------------------
(* The commands begin soundly. *)

(* A command that saves no table and stores no password has nothing to prove. *)
LEMMA HarmlessSound ==
  ASSUME NEW k, NEW agreed, DOMAIN k = JobFields, k.todo \in Seq(Steps),
         ~Pending(k.todo, "save"), Pending(k.todo, "setPassword") => k.cmd = "wizard"
  PROVE  Sound(k, agreed)
BY DEF Sound

(* A table with one profile more, or one changed, that is agreed to. *)
LEMMA AgreedTable ==
  ASSUME NEW table, DOMAIN table = Names, NEW a, NEW b, a \subseteq b, Agreed(table, a),
         NEW n \in Names, NEW p,
         (p # None /\ p.plain # None) => p.plain = p.user /\ <<n, p.user>> \in b
  PROVE  LET d == [table EXCEPT ![n] = p]
         IN  DOMAIN d = Names /\ d[n] = p /\ Agreed(d, b)
BY DEF Agreed

(* The new profile has its plaintext password from the old one of the same *)
(* user, or from a command line that agrees to it.                         *)
LEMMA NewProfileAgreed ==
  ASSUME NEW w, NEW n \in Names, NEW f \in Forms, PlainInv,
         NEW b, consented \subseteq b, f.password /\ f.plaintext => <<n, f.user>> \in b
  PROVE  LET p == NewProfile(w, connections[n], f)
         IN  /\ DOMAIN p = ProfileFields
             /\ p.plain # None => p.plain = p.user /\ <<n, p.user>> \in b
             /\ f.password => p.user = f.user
<1> DEFINE old == connections[n]
           mode == KeptMode(w, old, f)
           p == NewProfile(w, old, f)
<1>1. /\ DOMAIN p = ProfileFields /\ p.mode = mode
      /\ p.user = IF mode = "browser" THEN Blank ELSE f.user
      /\ p.plain = IF w \in Clis /\ f.password /\ f.plaintext THEN f.user
                   ELSE CarriedPlaintext(old, mode, f.user, f.password)
  BY DEF NewProfile, StoredUser, ProfileFields
<1>2. f.password => mode = "basic"
  BY FormsAssumption DEF KeptMode
<1>3. old # None /\ old.plain # None => old.plain = old.user /\ <<n, old.user>> \in consented
  BY DEF PlainInv, Agreed
<1>4. ASSUME ~(w \in Clis /\ f.password /\ f.plaintext), p.plain # None
      PROVE  p.plain = old.plain /\ old # None /\ mode = "basic" /\ old.user = f.user
  BY <1>1, <1>4 DEF CarriedPlaintext, SameBasicUser
<1> HIDE DEF p, mode, old
<1>5. p.plain # None => p.plain = p.user /\ <<n, p.user>> \in b
  <2>1. CASE w \in Clis /\ f.password /\ f.plaintext
    BY <1>1, <1>2, <2>1
  <2>2. CASE ~(w \in Clis /\ f.password /\ f.plaintext)
    BY <1>1, <1>3, <1>4, <2>2
  <2> QED
    BY <2>1, <2>2
<1>6. f.password => p.user = f.user
  BY <1>1, <1>2
<1> QED
  BY <1>1, <1>5, <1>6 DEF p, old

(* The steps of a list written out. *)
LEMMA OneStep ==
  /\ <<>> \in Seq(Steps) /\ \A step : ~Pending(<<>>, step)
  /\ \A x \in Steps : <<x>> \in Seq(Steps) /\ \A step : Pending(<<x>>, step) => step = x
BY DEF Pending

LEMMA TwoSteps ==
  ASSUME NEW x \in Steps, NEW y \in Steps
  PROVE  <<x, y>> \in Seq(Steps) /\ \A step : Pending(<<x, y>>, step) => step \in {x, y}
BY DEF Pending

LEMMA ThreeSteps ==
  ASSUME NEW x \in Steps, NEW y \in Steps, NEW z \in Steps
  PROVE  /\ <<x, y, z>> \in Seq(Steps)
         /\ \A step : Pending(<<x, y, z>>, step) => step \in {x, y, z}
<1>1. DOMAIN <<x, y, z>> = {1, 2, 3}
  OBVIOUS
<1>2. \A i \in {1, 2, 3} : <<x, y, z>>[i] \in {x, y, z}
  OBVIOUS
<1> QED
  BY <1>1, <1>2 DEF Pending

LEMMA AddStepsPending ==
  ASSUME NEW old, NEW f, NEW set \in BOOLEAN, NEW drop
  PROVE  LET todo == AddSteps(old, f, set, drop)
         IN  todo \in Seq(Steps) /\ (Pending(todo, "setPassword") => set)
<1> DEFINE a == ClearIfChanged(old, f)
           b == IF set THEN <<"setPassword">> ELSE <<>>
           c == IF drop # None THEN <<"deletePassword">> ELSE <<>>
           s == <<"save">>
<1>1. a \in Seq(Steps) /\ ~Pending(a, "setPassword")
  BY OneStep DEF ClearIfChanged, Steps
<1>2. b \in Seq(Steps) /\ (Pending(b, "setPassword") => set)
  BY OneStep DEF Steps
<1>3. c \in Seq(Steps) /\ ~Pending(c, "setPassword")
  BY OneStep DEF Steps
<1>4. s \in Seq(Steps) /\ ~Pending(s, "setPassword")
  BY OneStep DEF Steps
<1>5. AddSteps(old, f, set, drop) = ((a \o b) \o s) \o c
  BY DEF AddSteps
<1> HIDE DEF a, b, c, s
<1>6. a \o b \in Seq(Steps) /\ (Pending(a \o b, "setPassword") => set)
  BY <1>1, <1>2, ConcatPending
<1>7. (a \o b) \o s \in Seq(Steps) /\ (Pending((a \o b) \o s, "setPassword") => set)
  BY <1>4, <1>6, ConcatPending
<1>8. /\ ((a \o b) \o s) \o c \in Seq(Steps)
      /\ Pending(((a \o b) \o s) \o c, "setPassword") => set
  BY <1>3, <1>7, ConcatPending
<1> QED
  BY <1>5, <1>8

(* Putting a sound job to work. *)
LEMMA WorkSound ==
  ASSUME PlainInv, NEW w \in Workers, NEW k, work' = [work EXCEPT ![w] = k],
         Sound(k, consented'), consented \subseteq consented', UNCHANGED connections
  PROVE  PlainInv'
<1>1. ASSUME NEW v \in Workers PROVE Sound(work'[v], consented')
  <2>1. CASE v = w
    BY <2>1 DEF PlainInv
  <2>2. CASE v # w
    BY <2>2, ConsentStays DEF PlainInv
  <2> QED
    BY <2>1, <2>2
<1>2. DOMAIN work' = Workers
  BY DEF PlainInv
<1>3. DOMAIN connections' = Names /\ Agreed(connections', consented')
  BY DEF PlainInv, Agreed
<1> QED
  BY <1>1, <1>2, <1>3 DEF PlainInv

LEMMA AddSound ==
  ASSUME PlainInv, NEW w \in Workers, NEW n \in Names, NEW f \in Forms, AddProfile(w, n, f)
  PROVE  PlainInv'
<1> DEFINE old == connections[n]
           mode == KeptMode(w, old, f)
           set == f.password /\ ~(w \in Clis /\ f.plaintext)
           drop == OrphanedUser(old, mode, f.user)
           todo == AddSteps(old, f, set, drop)
           p == NewProfile(w, old, f)
           d == [connections EXCEPT ![n] = p]
           k == [Idle EXCEPT !.cmd = "add", !.name = n, !.todo = todo, !.draft = d,
                             !.set = f.user, !.drop = drop, !.plaintext = f.plaintext]
<1>1. /\ work' = [work EXCEPT ![w] = k]
      /\ UNCHANGED connections
      /\ consented \subseteq consented'
      /\ f.password /\ f.plaintext => <<n, f.user>> \in consented'
  BY DEF AddProfile, Begins
<1>2. /\ DOMAIN p = ProfileFields
      /\ p.plain # None => p.plain = p.user /\ <<n, p.user>> \in consented'
      /\ f.password => p.user = f.user
  BY <1>1, NewProfileAgreed
<1>3. todo \in Seq(Steps) /\ (Pending(todo, "setPassword") => set)
  BY AddStepsPending, FormsAssumption
<1> HIDE DEF p, todo, drop
<1>4. DOMAIN d = Names /\ d[n] = p /\ Agreed(d, consented')
  BY <1>1, <1>2, AgreedTable DEF PlainInv
<1> HIDE DEF d
<1>5. /\ DOMAIN k = JobFields /\ k.todo = todo /\ k.cmd = "add" /\ k.name = n
      /\ k.draft = d /\ k.set = f.user /\ k.plaintext = f.plaintext
  BY IdleSound DEF JobFields
<1> HIDE DEF k
<1>6. Sound(k, consented')
  BY <1>1, <1>2, <1>3, <1>4, <1>5 DEF Sound
<1> QED
  BY <1>1, <1>6, WorkSound

(* What the other commands begin with: only an alias and a removal save a   *)
(* table, and neither sets a password.                                      *)
LEMMA TableCommandSound ==
  ASSUME PlainInv, NEW k, DOMAIN k = JobFields, k.todo \in Seq(Steps),
         ~Pending(k.todo, "setPassword"),
         \/ ~Pending(k.todo, "save")
         \/ k.draft = connections
         \/ \E n \in Names : k.draft = [connections EXCEPT ![n] = None]
  PROVE  Sound(k, consented)
<1>1. ASSUME NEW n \in Names, k.draft = [connections EXCEPT ![n] = None]
      PROVE  DOMAIN k.draft = Names /\ Agreed(k.draft, consented)
  BY <1>1 DEF PlainInv, Agreed
<1>2. ASSUME k.draft = connections
      PROVE  DOMAIN k.draft = Names /\ Agreed(k.draft, consented)
  BY <1>2 DEF PlainInv
<1>3. Pending(k.todo, "save") => DOMAIN k.draft = Names /\ Agreed(k.draft, consented)
  BY <1>1, <1>2
<1> QED
  BY <1>3 DEF Sound

LEMMA OtherCommandSound ==
  ASSUME PlainInv, NEW w \in Workers, Command(w),
         ~\E n \in Names, f \in Forms : AddProfile(w, n, f)
  PROVE  PlainInv'
<1> DEFINE Harmless(k) == /\ DOMAIN k = JobFields /\ k.todo \in Seq(Steps)
                          /\ Pending(k.todo, "setPassword") =>
                               k.cmd = "wizard" /\ ~Pending(k.todo, "save")
                          /\ \/ ~Pending(k.todo, "save")
                             \/ k.draft = connections
                             \/ \E n \in Names : k.draft = [connections EXCEPT ![n] = None]
<1>1. ASSUME NEW n \in Names, NEW f \in Forms, SetupWizard(w, n, f)
      PROVE  \E k : Harmless(k) /\ Begins(w, k) /\ UNCHANGED consented
  <2> DEFINE a == IF f.password THEN <<"setPassword">> ELSE <<>>
             k == [Idle EXCEPT !.cmd = "wizard", !.name = n, !.set = f.user, !.form = f,
                               !.todo = a \o <<"load">>]
  <2>1. Begins(w, k) /\ UNCHANGED consented
    BY <1>1 DEF SetupWizard
  <2>2. DOMAIN k = JobFields /\ k.todo = a \o <<"load">> /\ k.cmd = "wizard"
    BY IdleSound DEF JobFields
  <2>3. a \in Seq(Steps) /\ ~Pending(a, "save")
    BY OneStep DEF Steps
  <2>4. <<"load">> \in Seq(Steps) /\ ~Pending(<<"load">>, "save")
    BY OneStep DEF Steps
  <2> HIDE DEF a
  <2>5. a \o <<"load">> \in Seq(Steps) /\ ~Pending(a \o <<"load">>, "save")
    BY <2>3, <2>4, ConcatPending
  <2>6. Harmless(k)
    BY <2>2, <2>5
  <2> QED
    BY <2>1, <2>6
<1>2. ASSUME NEW n \in Names, RemoveProfile(w, n)
      PROVE  \E k : Harmless(k) /\ Begins(w, k) /\ UNCHANGED consented
  <2> DEFINE p == connections[n]
             a == IF p.user # Blank /\ (w \in Clis \/ p.mode = "basic")
                  THEN <<"deletePassword">> ELSE <<>>
             b == IF w \in Desktop THEN <<"forget">> ELSE <<>>
             s == <<"clear", "save">>
             d == [connections EXCEPT ![n] = None]
             k == [Idle EXCEPT !.cmd = "remove", !.name = n, !.drop = p.user, !.conn = Conn(p),
                               !.draft = d, !.todo = (a \o b) \o s]
  <2>1. Begins(w, k) /\ UNCHANGED consented
    BY <1>2 DEF RemoveProfile
  <2> HIDE DEF d
  <2>2. DOMAIN k = JobFields /\ k.todo = (a \o b) \o s /\ k.draft = d
    BY IdleSound DEF JobFields
  <2>3. /\ a \in Seq(Steps) /\ ~Pending(a, "setPassword")
        /\ b \in Seq(Steps) /\ ~Pending(b, "setPassword")
    BY OneStep DEF Steps
  <2>4. s \in Seq(Steps) /\ ~Pending(s, "setPassword")
    <3>1. {"clear", "save"} \subseteq Steps /\ "setPassword" \notin {"clear", "save"}
      BY DEF Steps
    <3> QED
      BY <3>1, TwoSteps
  <2> HIDE DEF a, b, s
  <2>5. a \o b \in Seq(Steps) /\ ~Pending(a \o b, "setPassword")
    BY <2>3, ConcatPending
  <2>6. (a \o b) \o s \in Seq(Steps) /\ ~Pending((a \o b) \o s, "setPassword")
    BY <2>4, <2>5, ConcatPending
  <2>7. Harmless(k)
    BY <2>2, <2>6 DEF d
  <2> QED
    BY <2>1, <2>7
<1>3. ASSUME NEW n \in Names, ChangeAlias(w, n)
      PROVE  \E k : Harmless(k) /\ Begins(w, k) /\ UNCHANGED consented
  <2> DEFINE k == [Idle EXCEPT !.cmd = "alias", !.name = n, !.draft = connections,
                               !.todo = <<"save">>]
  <2>1. Begins(w, k) /\ UNCHANGED consented
    BY <1>3 DEF ChangeAlias
  <2>2. DOMAIN k = JobFields /\ k.todo = <<"save">> /\ k.draft = connections
    BY IdleSound DEF JobFields
  <2> HIDE DEF k
  <2>3. k.todo \in Seq(Steps) /\ ~Pending(k.todo, "setPassword")
    BY OneStep, <2>2 DEF Steps
  <2>4. Harmless(k)
    BY <2>2, <2>3
  <2> QED
    BY <2>1, <2>4
<1>4. ASSUME \/ \E n \in Names : \/ SignIn(w, n) \/ SignOut(w, n)
                                \/ \E t \in Targets : MakeClient(w, n, t)
             \/ \E f \in Forms : TestSignIn(w, f)
      PROVE  \E k : Harmless(k) /\ Begins(w, k) /\ UNCHANGED consented
  <2>1. ASSUME NEW n \in Names, SignIn(w, n)
        PROVE  \E k : Harmless(k) /\ Begins(w, k) /\ UNCHANGED consented
    <3> DEFINE k == [Idle EXCEPT !.cmd = "signIn", !.name = n, !.conn = Conn(connections[n]),
                                 !.todo = <<"window", "remember", "persist">>]
    <3>1. Begins(w, k) /\ UNCHANGED consented
      BY <2>1 DEF SignIn
    <3>2. DOMAIN k = JobFields /\ k.todo = <<"window", "remember", "persist">>
      BY IdleSound DEF JobFields
    <3> HIDE DEF k
    <3> DEFINE list == <<"window", "remember", "persist">>
    <3>3. "window" \in Steps /\ "remember" \in Steps /\ "persist" \in Steps
      BY DEF Steps
    <3>4. /\ list \in Seq(Steps)
          /\ \A step : Pending(list, step) => step \in {"window", "remember", "persist"}
      BY <3>3, ThreeSteps
    <3> HIDE DEF list
    <3>5. /\ k.todo \in Seq(Steps)
          /\ ~Pending(k.todo, "save") /\ ~Pending(k.todo, "setPassword")
      BY <3>2, <3>4 DEF list
    <3>6. Harmless(k)
      BY <3>2, <3>5
    <3> QED
      BY <3>1, <3>6
  <2>2. ASSUME NEW f \in Forms, TestSignIn(w, f)
        PROVE  \E k : Harmless(k) /\ Begins(w, k) /\ UNCHANGED consented
    <3> DEFINE k == [Idle EXCEPT !.cmd = "signIn", !.conn = <<f.target, f.lang>>,
                                 !.todo = <<"window", "remember">>]
    <3>1. Begins(w, k) /\ UNCHANGED consented
      BY <2>2 DEF TestSignIn
    <3>2. DOMAIN k = JobFields /\ k.todo = <<"window", "remember">>
      BY IdleSound DEF JobFields
    <3> HIDE DEF k
    <3>3. /\ k.todo \in Seq(Steps)
          /\ ~Pending(k.todo, "save") /\ ~Pending(k.todo, "setPassword")
      <4>1. "window" \in Steps /\ "remember" \in Steps
        BY DEF Steps
      <4>2. /\ <<"window", "remember">> \in Seq(Steps)
            /\ \A step : Pending(<<"window", "remember">>, step) => step \in {"window", "remember"}
        BY TwoSteps, <4>1
      <4> QED
        BY <3>2, <4>2
    <3>4. Harmless(k)
      BY <3>2, <3>3
    <3> QED
      BY <3>1, <3>4
  <2>3. ASSUME NEW n \in Names, SignOut(w, n)
        PROVE  \E k : Harmless(k) /\ Begins(w, k) /\ UNCHANGED consented
    <3> DEFINE k == [Idle EXCEPT !.cmd = "signOut", !.name = n, !.conn = Conn(connections[n]),
                                 !.todo = <<"forget", "clear">>]
               l == [Idle EXCEPT !.cmd = "signOut", !.name = n, !.todo = <<"clear">>]
    <3>1. (Begins(w, k) \/ Begins(w, l)) /\ UNCHANGED consented
      BY <2>3 DEF SignOut
    <3>2. /\ DOMAIN k = JobFields /\ k.todo = <<"forget", "clear">>
          /\ DOMAIN l = JobFields /\ l.todo = <<"clear">>
      BY IdleSound DEF JobFields
    <3> HIDE DEF k, l
    <3>3. /\ k.todo \in Seq(Steps)
          /\ ~Pending(k.todo, "save") /\ ~Pending(k.todo, "setPassword")
      <4>1. "forget" \in Steps /\ "clear" \in Steps
        BY DEF Steps
      <4>2. /\ <<"forget", "clear">> \in Seq(Steps)
            /\ \A step : Pending(<<"forget", "clear">>, step) => step \in {"forget", "clear"}
        BY TwoSteps, <4>1
      <4> QED
        BY <3>2, <4>2
    <3>4. /\ l.todo \in Seq(Steps)
          /\ ~Pending(l.todo, "save") /\ ~Pending(l.todo, "setPassword")
      BY OneStep, <3>2 DEF Steps
    <3>5. Harmless(k) /\ Harmless(l)
      BY <3>2, <3>3, <3>4
    <3> QED
      BY <3>1, <3>5
  <2>4. ASSUME NEW n \in Names, NEW t \in Targets, MakeClient(w, n, t)
        PROVE  \E k : Harmless(k) /\ Begins(w, k) /\ UNCHANGED consented
    <3> DEFINE todo == <<"loadSession">>
               k == [Idle EXCEPT !.cmd = "client", !.name = n,
                                 !.conn = <<t, connections[n].lang>>, !.todo = todo]
    <3>1. Begins(w, k) /\ UNCHANGED consented
      BY <2>4 DEF MakeClient
    <3>2. DOMAIN k = JobFields /\ k.todo = todo
      BY IdleSound DEF JobFields
    <3> HIDE DEF k
    <3>3. /\ k.todo \in Seq(Steps)
          /\ ~Pending(k.todo, "save") /\ ~Pending(k.todo, "setPassword")
      BY OneStep, <3>2 DEF Steps
    <3>4. Harmless(k)
      BY <3>2, <3>3
    <3> QED
      BY <3>1, <3>4
  <2> QED
    BY <1>4, <2>1, <2>2, <2>3, <2>4
<1>5. PICK k : Harmless(k) /\ Begins(w, k) /\ UNCHANGED consented
  BY <1>1, <1>2, <1>3, <1>4, Zenon DEF Command
<1>6. Sound(k, consented)
  <2>1. CASE Pending(k.todo, "setPassword")
    BY <1>5, <2>1, HarmlessSound
  <2>2. CASE ~Pending(k.todo, "setPassword")
    BY <1>5, <2>2, TableCommandSound
  <2> QED
    BY <2>1, <2>2
<1>7. /\ work' = [work EXCEPT ![w] = k] /\ UNCHANGED connections
      /\ Sound(k, consented') /\ consented \subseteq consented'
  BY <1>5, <1>6 DEF Begins
<1> QED
  BY <1>7, WorkSound

-----------------------------------------------------------------------------
(* The steps. *)

LEMMA StepDoneSound ==
  ASSUME PlainInv, NEW w \in Workers, work[w].todo # <<>>, StepDone(w),
         UNCHANGED <<connections, consented>>
  PROVE  PlainInv'
<1> DEFINE k == IF Len(work[w].todo) = 1 THEN Idle ELSE [work[w] EXCEPT !.todo = Tail(@)]
<1>1. work' = [work EXCEPT ![w] = k]
  BY DEF StepDone
<1>2. Sound(k, consented)
  BY IdleSound, ShorterSound DEF PlainInv
<1> QED
  BY <1>1, <1>2, WorkSound

LEMMA StopsSound ==
  ASSUME PlainInv, NEW w \in Workers, Stops(w), UNCHANGED <<connections, consented>>
  PROVE  PlainInv'
BY IdleSound, WorkSound DEF Stops

(* What has to be done next is pending. *)
LEMMA AtPending ==
  ASSUME PlainInv, NEW w \in Workers, NEW step, At(w, step)
  PROVE  /\ work[w].todo \in Seq(Steps) /\ work[w].todo # <<>>
         /\ Pending(work[w].todo, step)
<1>1. work[w].todo \in Seq(Steps) /\ work[w].todo # <<>> /\ Head(work[w].todo) = step
  BY DEF At, PlainInv, Sound
<1>2. 1 \in DOMAIN work[w].todo /\ work[w].todo[1] = step
  BY <1>1
<1> QED
  BY <1>1, <1>2 DEF Pending

LEMMA SetPasswordSound ==
  ASSUME PlainInv, NEW w \in Workers, SetPassword(w)
  PROVE  PlainInv'
<1> DEFINE k == work[w]
<1>1. UNCHANGED <<connections, consented>> /\ At(w, "setPassword")
  BY DEF SetPassword, history
<1>2. k.todo # <<>> /\ Pending(k.todo, "setPassword") /\ Sound(k, consented)
  BY <1>1, AtPending DEF PlainInv
<1>3. CASE StepDone(w)
  BY <1>1, <1>2, <1>3, StepDoneSound
<1>4. CASE Stops(w)
  BY <1>1, <1>4, StopsSound
<1>5. CASE k.cmd # "wizard" /\ k.plaintext /\ work' = [work EXCEPT ![w] = FallenBack(@)]
  <2>1. Sound(FallenBack(k), consented)
    BY <1>2, <1>5, FallenBackSound
  <2> QED
    BY <1>1, <1>5, <2>1, WorkSound
<1> QED
  BY <1>3, <1>4, <1>5 DEF SetPassword

LEMMA SaveConnectionsSound ==
  ASSUME PlainInv, NEW w \in Workers, SaveConnections(w)
  PROVE  PlainInv'
<1>1. /\ At(w, "save") /\ UNCHANGED consented
      /\ \/ connections' = work[w].draft /\ StepDone(w)
         \/ UNCHANGED connections /\ Stops(w)
  BY DEF SaveConnections, history
<1>2. CASE UNCHANGED connections /\ Stops(w)
  BY <1>1, <1>2, StopsSound
<1>3. CASE connections' = work[w].draft /\ StepDone(w)
  <2> DEFINE k == IF Len(work[w].todo) = 1 THEN Idle ELSE [work[w] EXCEPT !.todo = Tail(@)]
  <2>1. work' = [work EXCEPT ![w] = k]
    BY <1>3 DEF StepDone
  <2>2. /\ work[w].todo # <<>> /\ Pending(work[w].todo, "save")
        /\ Sound(work[w], consented)
    BY <1>1, AtPending DEF PlainInv
  <2>3. Sound(k, consented)
    BY <2>2, IdleSound, ShorterSound
  <2>4. DOMAIN connections' = Names /\ Agreed(connections', consented')
    BY <1>1, <1>3, <2>2 DEF Sound
  <2> HIDE DEF k
  <2>5. DOMAIN work' = Workers /\ \A v \in Workers : Sound(work'[v], consented')
    BY <1>1, <2>1, <2>3 DEF PlainInv
  <2> QED
    BY <2>4, <2>5 DEF PlainInv
<1> QED
  BY <1>1, <1>2, <1>3

LEMMA WizardLoadSound ==
  ASSUME PlainInv, NEW w \in Workers, WizardLoad(w)
  PROVE  PlainInv'
<1> DEFINE n == work[w].name
           f == work[w].form
           p == [target |-> f.target, lang |-> f.lang, mode |-> f.mode,
                 user |-> IF f.mode = "basic" THEN f.user ELSE Blank, plain |-> None]
           d == [connections EXCEPT ![n] = p]
           todo == ClearIfChanged(connections[n], f) \o <<"save">>
           k == [work[w] EXCEPT !.todo = todo, !.draft = d]
<1>1. /\ work' = [work EXCEPT ![w] = k]
      /\ UNCHANGED <<connections, consented>>
  BY DEF WizardLoad, history
<1>2. p.plain = None
  OBVIOUS
<1> HIDE DEF p
<1>3. DOMAIN d = Names /\ Agreed(d, consented)
  BY <1>2 DEF PlainInv, Agreed
<1>4. todo \in Seq(Steps) /\ ~Pending(todo, "setPassword")
  <2> DEFINE a == ClearIfChanged(connections[n], f)
             s == <<"save">>
  <2>1. /\ a \in Seq(Steps) /\ ~Pending(a, "setPassword")
        /\ s \in Seq(Steps) /\ ~Pending(s, "setPassword")
    BY OneStep DEF ClearIfChanged, Steps
  <2> HIDE DEF a, s
  <2>2. a \o s \in Seq(Steps) /\ ~Pending(a \o s, "setPassword")
    BY <2>1, ConcatPending
  <2> QED
    BY <2>2 DEF a, s
<1> HIDE DEF d, todo
<1>5. DOMAIN k = JobFields /\ k.todo = todo /\ k.draft = d
  BY DEF PlainInv, Sound, JobFields
<1> HIDE DEF k
<1>6. Sound(k, consented)
  BY <1>3, <1>4, <1>5 DEF Sound
<1> QED
  BY <1>1, <1>6, WorkSound

LEMMA PlainStep == PlainInv /\ [Next]_vars => PlainInv'
<1> SUFFICES ASSUME PlainInv, [Next]_vars PROVE PlainInv'
  OBVIOUS
<1>1. ASSUME NEW w \in Workers, Command(w) PROVE PlainInv'
  BY <1>1, AddSound, OtherCommandSound
<1>2. ASSUME NEW w \in Workers, Step(w), ~SetPassword(w), ~SaveConnections(w), ~WizardLoad(w)
      PROVE  PlainInv'
  <2>1. /\ UNCHANGED <<connections, consented>>
        /\ StepDone(w) \/ Stops(w)
        /\ work[w].todo # <<>>
    BY <1>2, Zenon DEF Step, ClearSession, DeletePassword, Forget, Window, Remember, Persist,
       LoadSession, At, history
  <2> QED
    BY <2>1, StepDoneSound, StopsSound
<1>3. ASSUME NEW process, Die(process) PROVE PlainInv'
  <2>1. /\ UNCHANGED <<connections, consented>>
        /\ work' = [w \in Workers |-> IF w \in process THEN Idle ELSE work[w]]
    BY <1>3 DEF Die, history
  <2>2. \A w \in Workers : Sound(work'[w], consented')
    BY <2>1, IdleSound DEF PlainInv
  <2> QED
    BY <2>1, <2>2 DEF PlainInv, Agreed
<1>4. CASE UNCHANGED vars
  BY <1>4 DEF vars, PlainInv, Agreed
<1> QED
  BY <1>1, <1>2, <1>3, <1>4, SetPasswordSound, SaveConnectionsSound, WizardLoadSound DEF Next

(* A password is in the file in plaintext only if its user, the one the    *)
(* profile names, agreed to that: whatever fails, overlaps or is edited.    *)
THEOREM PlaintextNeedsConsent == Spec => []PlaintextByConsent
<1>1. Init => PlainInv
  <2> SUFFICES ASSUME Init PROVE PlainInv
    OBVIOUS
  <2>1. connections = [n \in Names |-> None] /\ work = [w \in Workers |-> Idle]
    BY DEF Init
  <2> QED
    BY <2>1, IdleSound DEF PlainInv, Agreed
<1>2. PlainInv => PlaintextByConsent
  BY DEF PlainInv, Agreed, PlaintextByConsent, Has
<1> QED
  BY <1>1, <1>2, PlainStep, PTL DEF Spec

-----------------------------------------------------------------------------
(* What a command has left after a step. *)

Rest(k) == IF Len(k.todo) = 1 THEN Idle ELSE [k EXCEPT !.todo = Tail(@)]

LEMMA LastOfTail ==
  ASSUME NEW s \in Seq(Steps), NEW t \in Seq(Steps), Len(t) = Len(s) - 1, Len(t) # 0,
         \A i \in 1 .. Len(t) : t[i] = s[i + 1]
  PROVE  t # <<>> /\ t[Len(t)] = s[Len(s)]
<1>1. Len(t) \in 1 .. Len(t) /\ Len(t) + 1 = Len(s)
  OBVIOUS
<1> QED
  BY <1>1

LEMMA TailKeeps ==
  ASSUME NEW s \in Seq(Steps), s # <<>>
  PROVE  /\ \A step : step # Head(s) => (Pending(Tail(s), step) <=> Pending(s, step))
         /\ Len(s) = 1 => Tail(s) = <<>>
         /\ Len(s) # 1 => Tail(s) # <<>> /\ Tail(s)[Len(Tail(s))] = s[Len(s)]
<1>1. ASSUME NEW i \in DOMAIN s, s[i] # Head(s)
      PROVE  i - 1 \in DOMAIN Tail(s) /\ Tail(s)[i - 1] = s[i]
  BY <1>1
<1>2. ASSUME NEW step, step # Head(s), Pending(s, step) PROVE Pending(Tail(s), step)
  BY <1>1, <1>2 DEF Pending
<1>3. \A step : Pending(Tail(s), step) => Pending(s, step)
  BY TailPending
<1>4. \A t \in Seq(Steps) : Len(t) \in Nat /\ (Len(t) = 0 <=> t = <<>>)
  OBVIOUS
<1>5. /\ Tail(s) \in Seq(Steps) /\ Len(Tail(s)) = Len(s) - 1
      /\ \A i \in 1 .. Len(Tail(s)) : Tail(s)[i] = s[i + 1]
  OBVIOUS
<1>6. ASSUME Len(s) = 1 PROVE Tail(s) = <<>>
  <2>1. Len(Tail(s)) = 0
    BY <1>5, <1>6
  <2> QED
    BY <1>4, <1>5, <2>1
<1>7. ASSUME Len(s) # 1
      PROVE  Tail(s) # <<>> /\ Tail(s)[Len(Tail(s))] = s[Len(s)]
  <2>1. Len(s) \in Nat /\ Len(s) # 0
    BY <1>4
  <2>2. Len(Tail(s)) # 0
    BY <1>5, <1>7, <2>1
  <2> QED
    BY <1>5, <2>2, LastOfTail
<1> QED
  BY <1>2, <1>3, <1>6, <1>7

LEMMA ConcatHas ==
  ASSUME NEW s \in Seq(Steps), NEW t \in Seq(Steps)
  PROVE  /\ \A step : Pending(s \o t, step) <=> Pending(s, step) \/ Pending(t, step)
         /\ t # <<>> => s \o t # <<>> /\ (s \o t)[Len(s \o t)] = t[Len(t)]
<1>1. ASSUME NEW i \in DOMAIN s PROVE i \in DOMAIN (s \o t) /\ (s \o t)[i] = s[i]
  OBVIOUS
<1>2. ASSUME NEW i \in DOMAIN t
      PROVE  i + Len(s) \in DOMAIN (s \o t) /\ (s \o t)[i + Len(s)] = t[i]
  OBVIOUS
<1>3. t # <<>> => s \o t # <<>> /\ (s \o t)[Len(s \o t)] = t[Len(t)]
  OBVIOUS
<1>4. ASSUME NEW step, Pending(s, step) PROVE Pending(s \o t, step)
  <2>1. PICK i \in DOMAIN s : s[i] = step
    BY <1>4 DEF Pending
  <2> QED
    BY <1>1, <2>1 DEF Pending
<1>5. ASSUME NEW step, Pending(t, step) PROVE Pending(s \o t, step)
  <2>1. PICK i \in DOMAIN t : t[i] = step
    BY <1>5 DEF Pending
  <2> QED
    BY <1>2, <2>1 DEF Pending
<1>6. \A step : Pending(s \o t, step) => Pending(s, step) \/ Pending(t, step)
  BY ConcatPending
<1> QED
  BY <1>3, <1>4, <1>5, <1>6

(* As long as it has something left, a command carries what it carried. *)
LEMMA RestJob ==
  ASSUME NEW k, DOMAIN k = JobFields, k.todo \in Seq(Steps), k.todo # <<>>
  PROVE  LET l == Rest(k)
         IN  /\ DOMAIN l = JobFields /\ l.todo \in Seq(Steps)
             /\ l # Idle => l.todo # <<>>
             /\ \A step : Pending(l.todo, step) => Pending(k.todo, step) /\ l.todo # <<>>
             /\ \A step : step # Head(k.todo) => (Pending(l.todo, step) <=> Pending(k.todo, step))
             /\ l.todo # <<>> =>
                  /\ l.todo = Tail(k.todo)
                  /\ l.todo[Len(l.todo)] = k.todo[Len(k.todo)]
                  /\ l.cmd = k.cmd /\ l.name = k.name /\ l.draft = k.draft /\ l.set = k.set
                  /\ l.drop = k.drop /\ l.conn = k.conn /\ l.form = k.form
<1> DEFINE l == Rest(k)
<1>1. CASE Len(k.todo) = 1
  <2>1. l = Idle /\ Tail(k.todo) = <<>>
    BY <1>1, TailKeeps DEF Rest
  <2>2. /\ l.todo = <<>> /\ DOMAIN l = JobFields
        /\ \A step : ~Pending(<<>>, step)
        /\ <<>> \in Seq(Steps)
    BY <2>1, IdleSound, OneStep
  <2>3. \A step : step # Head(k.todo) => ~Pending(k.todo, step)
    BY <2>1, <2>2, TailKeeps
  <2> QED
    BY <2>1, <2>2, <2>3
<1>2. CASE Len(k.todo) # 1
  <2>1. l = [k EXCEPT !.todo = Tail(@)]
    BY <1>2 DEF Rest
  <2>2. /\ DOMAIN l = JobFields /\ l.todo = Tail(k.todo)
        /\ l.cmd = k.cmd /\ l.name = k.name /\ l.draft = k.draft /\ l.set = k.set
        /\ l.drop = k.drop /\ l.conn = k.conn /\ l.form = k.form
    BY <2>1 DEF JobFields
  <2> QED
    BY <1>2, <2>2, TailKeeps, TailPending
<1> QED
  BY <1>1, <1>2

-----------------------------------------------------------------------------
(* Tables and jobs of the right shape: what a command will save is a table, *)
(* what it will store is a user's password of a name or a session of a      *)
(* connection, and a password is never its last step.                       *)
TypedTable(table) ==
  /\ DOMAIN table = Names
  /\ \A n \in Names :
       /\ table[n] \in Profiles \cup {None}
       /\ table[n] # None /\ table[n].mode = "browser" => table[n].user = Blank

TypedJob(k) ==
  /\ k # Idle => k.todo # <<>>
  /\ k.todo # <<>> => k.todo[Len(k.todo)] # "setPassword"
  /\ Pending(k.todo, "save") => TypedTable(k.draft)
  /\ Pending(k.todo, "setPassword") =>
       /\ k.name \in Names /\ k.set \in Users
       /\ k.cmd # "wizard" => TypedTable(k.draft) /\ k.draft[k.name] \in Profiles
  /\ Pending(k.todo, "load") => k.name \in Names /\ k.form \in Forms
  /\ \A step \in {"remember", "persist", "loadSession"} :
       Pending(k.todo, step) => k.conn \in Targets \X Languages

TypeInv ==
  /\ TypedTable(connections)
  /\ keyring \subseteq Names \X Users
  /\ persisted \in [Names -> Targets \cup {None}]
  /\ memory \subseteq Targets \X Languages
  /\ \A w \in Workers : TypedJob(work[w])

(* The table there will be when a command has done all it has to. *)
Final(k, table) == IF Pending(k.todo, "save") THEN k.draft ELSE table

PasswordOf(e, table) ==
  table[e[1]] # None /\ table[e[1]].mode = "basic" /\ table[e[1]].user = e[2]
SessionOf(n, target, table) == table[n] # None /\ table[n].target = target

(* Every credential belongs to the table there will be, or the command     *)
(* still has to remove it, or the wizard has yet to see whose it is.        *)
Accounted(k, table, ring, sessions) ==
  /\ \A e \in ring :
       \/ PasswordOf(e, Final(k, table))
       \/ Pending(k.todo, "deletePassword") /\ e = <<k.name, k.drop>>
       \/ Pending(k.todo, "load") /\ k.form.password /\ e = <<k.name, k.form.user>>
  /\ \A n \in Names : sessions[n] # None =>
       SessionOf(n, sessions[n], Final(k, table)) \/ (Pending(k.todo, "clear") /\ n = k.name)
  /\ Pending(k.todo, "setPassword") =>
       IF Pending(k.todo, "load") THEN k.form.password /\ k.set = k.form.user
                                  ELSE PasswordOf(<<k.name, k.set>>, Final(k, table))
  /\ Pending(k.todo, "persist") => SessionOf(k.name, k.conn[1], Final(k, table))
  /\ Pending(k.todo, "load") \/ Pending(k.todo, "window") =>
       \A step \in {"save", "deletePassword", "clear"} : ~Pending(k.todo, step)
  /\ Pending(k.todo, "window") => ~Pending(k.todo, "load")

(* What an edit still has to delete is not the password of its profile, and *)
(* it does that last, after the save.                                       *)
AtEnd(todo, step) == \A i \in DOMAIN todo : todo[i] = step => i = Len(todo)

SparesOwn(k, table) ==
  (Pending(k.todo, "deletePassword") /\ k.cmd # "remove") =>
    /\ ~PasswordOf(<<k.name, k.drop>>, Final(k, table))
    /\ AtEnd(k.todo, "deletePassword")

AloneInv ==
  ~overlapped => \E w \in Workers :
    /\ \A v \in Workers \ {w} : work[v] = Idle
    /\ SparesOwn(work[w], connections)
    /\ ~irregular => Accounted(work[w], connections, Tracked, persisted)

-----------------------------------------------------------------------------
(* What the commands begin with. *)

Only(todo, steps) == \A step : Pending(todo, step) => step \in steps

AddJob(w, n, f, k) ==
  LET old  == connections[n]
      drop == OrphanedUser(old, KeptMode(w, old, f), f.user)
  IN  /\ k.cmd = "add" /\ k.name = n /\ k.set = f.user /\ k.drop = drop
      /\ k.draft = [connections EXCEPT ![n] = NewProfile(w, old, f)]
      /\ Only(k.todo, {"clear", "setPassword", "save", "deletePassword"})
      /\ Pending(k.todo, "save")
      /\ Pending(k.todo, "setPassword") => f.password
      /\ Pending(k.todo, "deletePassword") <=> drop # None
      /\ AtEnd(k.todo, "deletePassword")
      /\ (old # None /\ old.target # f.target) => Pending(k.todo, "clear")

WizardJob(n, f, k) ==
  /\ k.cmd = "wizard" /\ k.name = n /\ k.set = f.user /\ k.form = f
  /\ Only(k.todo, {"setPassword", "load"})
  /\ Pending(k.todo, "load")
  /\ Pending(k.todo, "setPassword") => f.password

RemoveJob(n, k) ==
  /\ k.cmd = "remove" /\ k.name = n /\ k.drop = connections[n].user /\ Has(n)
  /\ k.draft = [connections EXCEPT ![n] = None]
  /\ Only(k.todo, {"deletePassword", "forget", "clear", "save"})
  /\ Pending(k.todo, "clear") /\ Pending(k.todo, "save")
  /\ (connections[n].mode = "basic" /\ connections[n].user # Blank) =>
       Pending(k.todo, "deletePassword")

AliasJob(k) == k.draft = connections /\ Only(k.todo, {"save"})

SessionJob(k) ==
  /\ Only(k.todo, {"window", "remember", "persist", "forget", "clear", "loadSession"})
  /\ \A step \in {"remember", "persist", "loadSession"} :
       Pending(k.todo, step) => k.conn \in Targets \X Languages
  /\ Pending(k.todo, "persist") => SessionOf(k.name, k.conn[1], connections)
  /\ Pending(k.todo, "window") => ~Pending(k.todo, "clear")

Begun(w, k) ==
  /\ DOMAIN k = JobFields /\ k.todo \in Seq(Steps) /\ k.todo # <<>>
  /\ k.todo[Len(k.todo)] # "setPassword"
  /\ \/ \E n \in Names, f \in Forms : AddJob(w, n, f, k) \/ WizardJob(n, f, k)
     \/ \E n \in Names : RemoveJob(n, k)
     \/ AliasJob(k)
     \/ SessionJob(k)

(* The steps of a list written out are pending. *)
LEMMA Listed ==
  /\ \A x : Pending(<<x>>, x)
  /\ \A x, y : Pending(<<x, y>>, x) /\ Pending(<<x, y>>, y)
<1>1. ASSUME NEW x PROVE Pending(<<x>>, x)
  <2>1. 1 \in DOMAIN <<x>> /\ <<x>>[1] = x
    OBVIOUS
  <2> QED
    BY <2>1 DEF Pending
<1>2. ASSUME NEW x, NEW y PROVE Pending(<<x, y>>, x) /\ Pending(<<x, y>>, y)
  <2>1. /\ 1 \in DOMAIN <<x, y>> /\ <<x, y>>[1] = x
        /\ 2 \in DOMAIN <<x, y>> /\ <<x, y>>[2] = y
    OBVIOUS
  <2> QED
    BY <2>1 DEF Pending
<1> QED
  BY <1>1, <1>2

(* A list of at most one step. *)
LEMMA OptionalStep ==
  ASSUME NEW x \in Steps, NEW cond \in BOOLEAN
  PROVE  LET s == IF cond THEN <<x>> ELSE <<>>
         IN  s \in Seq(Steps) /\ \A step : Pending(s, step) <=> cond /\ step = x
BY OneStep, Listed

LEMMA ConcatAtEnd ==
  ASSUME NEW s \in Seq(Steps), NEW t \in Seq(Steps), Len(t) \in {0, 1}, NEW step, ~Pending(s, step)
  PROVE  AtEnd(s \o t, step)
<1>1. ASSUME NEW i \in DOMAIN (s \o t), (s \o t)[i] = step PROVE i = Len(s \o t)
  <2>1. i \in DOMAIN s => (s \o t)[i] = s[i]
    OBVIOUS
  <2>2. i \notin DOMAIN s
    BY <1>1, <2>1 DEF Pending
  <2>3. i \in Nat /\ Len(s) \in Nat /\ i > Len(s) /\ i <= Len(s) + Len(t)
    BY <2>2
  <2>4. Len(s \o t) = Len(s) + Len(t)
    OBVIOUS
  <2>5. Len(t) = 1 /\ i = Len(s) + 1
    <3>1. CASE Len(t) = 0
      BY <2>3, <3>1
    <3>2. CASE Len(t) = 1
      BY <2>3, <3>2
    <3> QED
      BY <3>1, <3>2
  <2> QED
    BY <2>4, <2>5
<1> QED
  BY <1>1 DEF AtEnd

LEMMA AddBegun ==
  ASSUME NEW w \in Workers, NEW n \in Names, NEW f \in Forms, AddProfile(w, n, f)
  PROVE  \E k : Begins(w, k) /\ Begun(w, k)
<1> DEFINE old == connections[n]
           mode == KeptMode(w, old, f)
           set == f.password /\ ~(w \in Clis /\ f.plaintext)
           drop == OrphanedUser(old, mode, f.user)
           todo == AddSteps(old, f, set, drop)
           p == NewProfile(w, old, f)
           draft == [connections EXCEPT ![n] = p]
           k == [Idle EXCEPT !.cmd = "add", !.name = n, !.todo = todo, !.draft = draft,
                             !.set = f.user, !.drop = drop, !.plaintext = f.plaintext]
           changed == old # None /\ old.target # f.target
           a == IF changed THEN <<"clear">> ELSE <<>>
           b == IF set THEN <<"setPassword">> ELSE <<>>
           c == IF drop # None THEN <<"deletePassword">> ELSE <<>>
           s == <<"save">>
<1>1. Begins(w, k)
  BY DEF AddProfile
<1>2. todo = ((a \o b) \o s) \o c
  BY DEF AddSteps, ClearIfChanged, SameSessionTarget
<1>3. set \in BOOLEAN /\ changed \in BOOLEAN /\ (drop # None) \in BOOLEAN
  BY FormsAssumption
<1>4. /\ a \in Seq(Steps) /\ \A step : Pending(a, step) <=> changed /\ step = "clear"
      /\ b \in Seq(Steps) /\ \A step : Pending(b, step) <=> set /\ step = "setPassword"
      /\ c \in Seq(Steps)
      /\ \A step : Pending(c, step) <=> drop # None /\ step = "deletePassword"
  <2> HIDE DEF drop, set, changed
  <2> QED
    BY <1>3, OptionalStep DEF Steps
<1>5. /\ s \in Seq(Steps) /\ s # <<>> /\ s[Len(s)] = "save"
      /\ \A step : Pending(s, step) <=> step = "save"
  BY OneStep, Listed DEF Steps
<1>6. Len(c) \in {0, 1} /\ (c = <<>> \/ (c # <<>> /\ c[Len(c)] = "deletePassword"))
  OBVIOUS
<1> HIDE DEF a, b, c, s, todo, draft, p, drop, mode
<1>7. /\ (a \o b) \o s \in Seq(Steps) /\ (a \o b) \o s # <<>>
      /\ ((a \o b) \o s)[Len((a \o b) \o s)] = "save"
      /\ \A step : Pending((a \o b) \o s, step) <=>
                     Pending(a, step) \/ Pending(b, step) \/ Pending(s, step)
  <2>1. a \o b \in Seq(Steps) /\ \A step : Pending(a \o b, step) <=> Pending(a, step) \/ Pending(b, step)
    BY <1>4, ConcatHas, ConcatPending
  <2> QED
    BY <2>1, <1>5, ConcatHas, ConcatPending
<1>8. /\ todo \in Seq(Steps)
      /\ \A step : Pending(todo, step) <=>
                     Pending(a, step) \/ Pending(b, step) \/ Pending(s, step) \/ Pending(c, step)
  BY <1>2, <1>4, <1>7, ConcatHas, ConcatPending
<1>9. todo # <<>> /\ todo[Len(todo)] # "setPassword"
  <2> DEFINE t == (a \o b) \o s
  <2>1. c # <<>> => todo # <<>> /\ todo[Len(todo)] = c[Len(c)]
    BY <1>2, <1>4, <1>7, ConcatHas
  <2>2. c = <<>> => todo = t
    BY <1>2, <1>7, OneStep
  <2> HIDE DEF t
  <2>3. t # <<>> /\ t[Len(t)] = "save"
    BY <1>7 DEF t
  <2> QED
    BY <1>6, <2>1, <2>2, <2>3
<1>10. /\ DOMAIN k = JobFields /\ k.todo = todo /\ k.cmd = "add" /\ k.name = n
       /\ k.draft = draft /\ k.set = f.user /\ k.drop = drop
  BY IdleSound DEF JobFields
<1> HIDE DEF k
<1>11. \A step : Pending(k.todo, step) <=>
         \/ changed /\ step = "clear"
         \/ set /\ step = "setPassword"
         \/ step = "save"
         \/ drop # None /\ step = "deletePassword"
  <2> HIDE DEF set, changed
  <2> QED
    BY <1>4, <1>5, <1>8, <1>10
<1>12. AtEnd(k.todo, "deletePassword")
  <2> DEFINE t == (a \o b) \o s
  <2>1. t \in Seq(Steps) /\ ~Pending(t, "deletePassword")
    BY <1>4, <1>5, <1>7
  <2>2. k.todo = t \o c
    BY <1>2, <1>10
  <2> HIDE DEF t
  <2> QED
    BY <1>4, <1>6, <2>1, <2>2, ConcatAtEnd
<1>13. /\ Only(k.todo, {"clear", "setPassword", "save", "deletePassword"})
       /\ Pending(k.todo, "save")
       /\ Pending(k.todo, "setPassword") => f.password
       /\ Pending(k.todo, "deletePassword") <=> drop # None
       /\ changed => Pending(k.todo, "clear")
  <2>1. set => f.password
    OBVIOUS
  <2> HIDE DEF set, changed
  <2>2. Only(k.todo, {"clear", "setPassword", "save", "deletePassword"})
    BY <1>11 DEF Only
  <2> QED
    BY <1>11, <2>1, <2>2
<1>14. AddJob(w, n, f, k)
  BY <1>10, <1>13, <1>12 DEF AddJob, draft, p, drop, mode
<1>15. Begun(w, k)
  BY <1>8, <1>9, <1>10, <1>14 DEF Begun
<1> QED
  BY <1>1, <1>15

LEMMA WizardBegun ==
  ASSUME NEW w \in Workers, NEW n \in Names, NEW f \in Forms, SetupWizard(w, n, f)
  PROVE  \E k : Begins(w, k) /\ Begun(w, k)
<1> DEFINE a == IF f.password THEN <<"setPassword">> ELSE <<>>
           s == <<"load">>
           k == [Idle EXCEPT !.cmd = "wizard", !.name = n, !.set = f.user, !.form = f,
                             !.todo = a \o s]
<1>1. Begins(w, k)
  BY DEF SetupWizard
<1>2. /\ DOMAIN k = JobFields /\ k.todo = a \o s /\ k.cmd = "wizard" /\ k.name = n
      /\ k.set = f.user /\ k.form = f
  BY IdleSound DEF JobFields
<1>3. a \in Seq(Steps) /\ \A step : Pending(a, step) <=> f.password /\ step = "setPassword"
  BY FormsAssumption, OptionalStep DEF Steps
<1>4. /\ s \in Seq(Steps) /\ s # <<>> /\ s[Len(s)] = "load"
      /\ \A step : Pending(s, step) <=> step = "load"
  BY OneStep, Listed DEF Steps
<1> HIDE DEF a, s, k
<1>5. /\ k.todo \in Seq(Steps) /\ k.todo # <<>> /\ k.todo[Len(k.todo)] = "load"
      /\ \A step : Pending(k.todo, step) <=> Pending(a, step) \/ Pending(s, step)
  BY <1>2, <1>3, <1>4, ConcatHas, ConcatPending
<1>6. WizardJob(n, f, k)
  BY <1>2, <1>3, <1>4, <1>5 DEF WizardJob, Only
<1>7. Begun(w, k)
  BY <1>2, <1>5, <1>6 DEF Begun
<1> QED
  BY <1>1, <1>7

LEMMA RemoveBegun ==
  ASSUME NEW w \in Workers, NEW n \in Names, RemoveProfile(w, n)
  PROVE  \E k : Begins(w, k) /\ Begun(w, k)
<1> DEFINE p == connections[n]
           hasEntry == p.user # Blank /\ (w \in Clis \/ p.mode = "basic")
           own == w \in Desktop
           a == IF hasEntry THEN <<"deletePassword">> ELSE <<>>
           b == IF own THEN <<"forget">> ELSE <<>>
           s == <<"clear", "save">>
           draft == [connections EXCEPT ![n] = None]
           k == [Idle EXCEPT !.cmd = "remove", !.name = n, !.drop = p.user, !.conn = Conn(p),
                             !.draft = draft, !.todo = (a \o b) \o s]
<1>1. Begins(w, k) /\ Has(n)
  BY DEF RemoveProfile
<1>2. /\ DOMAIN k = JobFields /\ k.todo = (a \o b) \o s /\ k.cmd = "remove" /\ k.name = n
      /\ k.drop = p.user /\ k.draft = draft
  BY IdleSound DEF JobFields
<1>3. /\ a \in Seq(Steps) /\ \A step : Pending(a, step) <=> hasEntry /\ step = "deletePassword"
      /\ b \in Seq(Steps) /\ \A step : Pending(b, step) <=> own /\ step = "forget"
  <2> hasEntry \in BOOLEAN /\ own \in BOOLEAN
    OBVIOUS
  <2> HIDE DEF hasEntry, own
  <2> QED
    BY OptionalStep DEF Steps
<1>4. /\ s \in Seq(Steps) /\ s # <<>> /\ s[Len(s)] = "save"
      /\ \A step : Pending(s, step) <=> step \in {"clear", "save"}
  BY TwoSteps, Listed DEF Steps
<1>5. (p.mode = "basic" /\ p.user # Blank) => hasEntry
  OBVIOUS
<1> HIDE DEF a, b, s, k, draft, hasEntry, own
<1>6. /\ k.todo \in Seq(Steps) /\ k.todo # <<>> /\ k.todo[Len(k.todo)] = "save"
      /\ \A step : Pending(k.todo, step) <=>
                     Pending(a, step) \/ Pending(b, step) \/ Pending(s, step)
  <2> DEFINE c == a \o b
  <2>1. c \in Seq(Steps) /\ \A step : Pending(c, step) <=> Pending(a, step) \/ Pending(b, step)
    BY <1>3, ConcatHas, ConcatPending
  <2>2. k.todo = c \o s
    BY <1>2
  <2> HIDE DEF c
  <2> QED
    BY <1>4, <2>1, <2>2, ConcatHas, ConcatPending
<1>7. RemoveJob(n, k)
  BY <1>1, <1>2, <1>3, <1>4, <1>5, <1>6 DEF RemoveJob, Only, draft
<1>8. Begun(w, k)
  BY <1>2, <1>6, <1>7 DEF Begun
<1> QED
  BY <1>1, <1>8

LEMMA SessionBegun ==
  ASSUME TypedTable(connections), NEW w \in Workers,
         \/ \E n \in Names : \/ SignIn(w, n) \/ SignOut(w, n)
                             \/ \E t \in Targets : MakeClient(w, n, t)
         \/ \E f \in Forms : TestSignIn(w, f)
  PROVE  \E k : Begins(w, k) /\ Begun(w, k)
<1>0. \A n \in Names : Has(n) => /\ connections[n].target \in Targets
                                 /\ connections[n].lang \in Languages
  BY DEF TypedTable, Has, Profiles
<1>1. ASSUME NEW n \in Names, SignIn(w, n) PROVE \E k : Begins(w, k) /\ Begun(w, k)
  <2> DEFINE list == <<"window", "remember", "persist">>
             k == [Idle EXCEPT !.cmd = "signIn", !.name = n, !.conn = Conn(connections[n]),
                               !.todo = list]
  <2>1. Begins(w, k) /\ Has(n)
    BY <1>1 DEF SignIn
  <2>2. DOMAIN k = JobFields /\ k.todo = list /\ k.name = n /\ k.conn = Conn(connections[n])
    BY IdleSound DEF JobFields
  <2>3. "window" \in Steps /\ "remember" \in Steps /\ "persist" \in Steps
    BY DEF Steps
  <2>4. /\ list \in Seq(Steps) /\ list # <<>> /\ list[Len(list)] = "persist"
        /\ \A step : Pending(list, step) => step \in {"window", "remember", "persist"}
    BY <2>3, ThreeSteps
  <2> HIDE DEF list, k
  <2>5. /\ k.conn \in Targets \X Languages
        /\ SessionOf(k.name, k.conn[1], connections)
    BY <1>0, <2>1, <2>2 DEF Conn, SessionOf, Has
  <2>6. SessionJob(k)
    BY <2>2, <2>4, <2>5 DEF SessionJob, Only
  <2>7. Begun(w, k)
    BY <2>2, <2>4, <2>6 DEF Begun
  <2> QED
    BY <2>1, <2>7
<1>2. ASSUME NEW f \in Forms, TestSignIn(w, f) PROVE \E k : Begins(w, k) /\ Begun(w, k)
  <2> DEFINE list == <<"window", "remember">>
             k == [Idle EXCEPT !.cmd = "signIn", !.conn = <<f.target, f.lang>>, !.todo = list]
  <2>1. Begins(w, k)
    BY <1>2 DEF TestSignIn
  <2>2. DOMAIN k = JobFields /\ k.todo = list /\ k.conn = <<f.target, f.lang>>
    BY IdleSound DEF JobFields
  <2>3. /\ list \in Seq(Steps) /\ list # <<>> /\ list[Len(list)] = "remember"
        /\ \A step : Pending(list, step) => step \in {"window", "remember"}
    BY TwoSteps DEF Steps
  <2> HIDE DEF list, k
  <2>4. k.conn \in Targets \X Languages
    BY <2>2, FormsAssumption
  <2>5. SessionJob(k)
    BY <2>2, <2>3, <2>4 DEF SessionJob, Only
  <2>6. Begun(w, k)
    BY <2>2, <2>3, <2>5 DEF Begun
  <2> QED
    BY <2>1, <2>6
<1>3. ASSUME NEW n \in Names, SignOut(w, n) PROVE \E k : Begins(w, k) /\ Begun(w, k)
  <2> DEFINE both == <<"forget", "clear">>
             one == <<"clear">>
             k == [Idle EXCEPT !.cmd = "signOut", !.name = n, !.conn = Conn(connections[n]),
                               !.todo = both]
             l == [Idle EXCEPT !.cmd = "signOut", !.name = n, !.todo = one]
  <2>1. Begins(w, k) \/ Begins(w, l)
    BY <1>3 DEF SignOut
  <2>2. DOMAIN k = JobFields /\ k.todo = both /\ DOMAIN l = JobFields /\ l.todo = one
    BY IdleSound DEF JobFields
  <2>3. /\ both \in Seq(Steps) /\ both # <<>> /\ both[Len(both)] = "clear"
        /\ \A step : Pending(both, step) => step \in {"forget", "clear"}
    BY TwoSteps DEF Steps
  <2>4. /\ one \in Seq(Steps) /\ one # <<>> /\ one[Len(one)] = "clear"
        /\ \A step : Pending(one, step) => step = "clear"
    BY OneStep DEF Steps
  <2> HIDE DEF both, one, k, l
  <2>5. SessionJob(k) /\ SessionJob(l)
    BY <2>2, <2>3, <2>4 DEF SessionJob, Only
  <2>6. Begun(w, k) /\ Begun(w, l)
    BY <2>2, <2>3, <2>4, <2>5 DEF Begun
  <2> QED
    BY <2>1, <2>6
<1>4. ASSUME NEW n \in Names, NEW t \in Targets, MakeClient(w, n, t)
      PROVE  \E k : Begins(w, k) /\ Begun(w, k)
  <2> DEFINE list == <<"loadSession">>
             k == [Idle EXCEPT !.cmd = "client", !.name = n,
                               !.conn = <<t, connections[n].lang>>, !.todo = list]
  <2>1. Begins(w, k) /\ Has(n)
    BY <1>4 DEF MakeClient
  <2>2. DOMAIN k = JobFields /\ k.todo = list /\ k.conn = <<t, connections[n].lang>>
    BY IdleSound DEF JobFields
  <2>3. /\ list \in Seq(Steps) /\ list # <<>> /\ list[Len(list)] \in {"loadSession"}
        /\ \A step : Pending(list, step) => step \in {"loadSession"}
    BY OneStep DEF Steps
  <2> HIDE DEF list, k
  <2>4. k.conn \in Targets \X Languages
    BY <1>0, <2>1, <2>2
  <2>5. SessionJob(k)
    BY <2>2, <2>3, <2>4 DEF SessionJob, Only
  <2>6. Begun(w, k)
    BY <2>2, <2>3, <2>5 DEF Begun
  <2> QED
    BY <2>1, <2>6
<1> QED
  BY <1>1, <1>2, <1>3, <1>4

LEMMA CommandBegun ==
  ASSUME TypedTable(connections), NEW w \in Workers, Command(w)
  PROVE  \E k : Begins(w, k) /\ Begun(w, k)
<1>1. ASSUME NEW n \in Names, ChangeAlias(w, n) PROVE \E k : Begins(w, k) /\ Begun(w, k)
  <2> DEFINE list == <<"save">>
             k == [Idle EXCEPT !.cmd = "alias", !.name = n, !.draft = connections,
                               !.todo = list]
  <2>1. Begins(w, k)
    BY <1>1 DEF ChangeAlias
  <2>2. DOMAIN k = JobFields /\ k.todo = list /\ k.draft = connections
    BY IdleSound DEF JobFields
  <2>3. /\ list \in Seq(Steps) /\ list # <<>> /\ list[Len(list)] = "save"
        /\ \A step : Pending(list, step) => step = "save"
    BY OneStep DEF Steps
  <2> HIDE DEF list, k
  <2>4. AliasJob(k)
    BY <2>2, <2>3 DEF AliasJob, Only
  <2>5. Begun(w, k)
    BY <2>2, <2>3, <2>4 DEF Begun
  <2> QED
    BY <2>1, <2>5
<1> QED
  BY <1>1, AddBegun, WizardBegun, RemoveBegun, SessionBegun, Zenon DEF Command

-----------------------------------------------------------------------------
(* Types. *)

LEMMA NewProfileTyped ==
  ASSUME TypedTable(connections), NEW w, NEW n \in Names, NEW f \in Forms
  PROVE  LET p == NewProfile(w, connections[n], f)
         IN  /\ p \in Profiles
             /\ p.mode = KeptMode(w, connections[n], f)
             /\ p.user = StoredUser(p.mode, f)
             /\ p.target = f.target
<1> DEFINE old == connections[n]
           mode == KeptMode(w, old, f)
           plain == IF w \in Clis /\ f.password /\ f.plaintext THEN f.user
                    ELSE CarriedPlaintext(old, mode, f.user, f.password)
           p == NewProfile(w, old, f)
<1>1. mode \in Modes
  BY FormsAssumption DEF KeptMode, Modes
<1>2. old \in Profiles \cup {None} /\ (old # None => old.plain \in Users \cup {None})
  BY DEF TypedTable, Profiles
<1>3. f.target \in Targets /\ f.lang \in Languages /\ f.user \in Users
  BY FormsAssumption
<1>4. StoredUser(mode, f) \in Users
  BY <1>3, BlankAssumption DEF StoredUser
<1>5. plain \in Users \cup {None}
  BY <1>2, <1>3 DEF CarriedPlaintext, SameBasicUser
<1>6. p = [target |-> f.target, lang |-> f.lang, mode |-> mode, user |-> StoredUser(mode, f),
           plain |-> plain]
  BY DEF NewProfile
<1> HIDE DEF mode, plain, p
<1>7. p \in Profiles /\ p.mode = mode /\ p.user = StoredUser(mode, f) /\ p.target = f.target
  BY <1>1, <1>3, <1>4, <1>5, <1>6 DEF Profiles
<1> QED
  BY <1>7 DEF p, mode

LEMMA TypedTableExcept ==
  ASSUME NEW table, TypedTable(table), NEW n \in Names, NEW p \in Profiles \cup {None},
         (p # None /\ p.mode = "browser") => p.user = Blank
  PROVE  LET d == [table EXCEPT ![n] = p]
         IN  TypedTable(d) /\ d[n] = p /\ \A m \in Names \ {n} : d[m] = table[m]
BY DEF TypedTable

LEMMA IdleTyped == TypedJob(Idle)
BY IdleSound, OneStep DEF TypedJob

LEMMA RestTyped ==
  ASSUME NEW k, DOMAIN k = JobFields, k.todo \in Seq(Steps), k.todo # <<>>, TypedJob(k)
  PROVE  TypedJob(Rest(k))
<1> DEFINE l == Rest(k)
<1>1. /\ l # Idle => l.todo # <<>>
      /\ \A step : Pending(l.todo, step) => Pending(k.todo, step) /\ l.todo # <<>>
      /\ l.todo # <<>> =>
           /\ l.todo[Len(l.todo)] = k.todo[Len(k.todo)]
           /\ l.cmd = k.cmd /\ l.name = k.name /\ l.draft = k.draft /\ l.set = k.set
           /\ l.conn = k.conn /\ l.form = k.form
  BY RestJob
<1> HIDE DEF l
<1>2. TypedJob(l)
  BY <1>1 DEF TypedJob
<1> QED
  BY <1>2 DEF l

LEMMA BegunTyped ==
  ASSUME TypedTable(connections), NEW w \in Workers, NEW k, Begun(w, k)
  PROVE  TypedJob(k)
<1>1. k.todo # <<>> /\ k.todo[Len(k.todo)] # "setPassword"
  BY DEF Begun
<1>2. ASSUME NEW n \in Names, NEW f \in Forms, AddJob(w, n, f, k) PROVE TypedJob(k)
  <2> DEFINE p == NewProfile(w, connections[n], f)
  <2>1. p \in Profiles /\ (p.mode = "browser" => p.user = Blank)
    BY NewProfileTyped DEF StoredUser
  <2>2. k.draft = [connections EXCEPT ![n] = p] /\ k.name = n /\ k.set = f.user
    BY <1>2 DEF AddJob
  <2> HIDE DEF p
  <2>3. TypedTable(k.draft) /\ k.draft[n] = p
    BY <2>1, <2>2, TypedTableExcept
  <2>4. Pending(k.todo, "setPassword") => k.set \in Users
    BY <1>2, FormsAssumption DEF AddJob
  <2>5. \A step \in {"load", "remember", "persist", "loadSession"} :
          ~Pending(k.todo, step)
    BY <1>2 DEF AddJob, Only
  <2> QED
    BY <1>1, <2>1, <2>2, <2>3, <2>4, <2>5 DEF TypedJob
<1>3. ASSUME NEW n \in Names, NEW f \in Forms, WizardJob(n, f, k) PROVE TypedJob(k)
  <2>1. \A step \in {"save", "remember", "persist", "loadSession"} :
          ~Pending(k.todo, step)
    BY <1>3 DEF WizardJob, Only
  <2>2. /\ k.cmd = "wizard" /\ k.name \in Names /\ k.form \in Forms
        /\ Pending(k.todo, "setPassword") => k.set \in Users
    BY <1>3, FormsAssumption DEF WizardJob
  <2> QED
    BY <1>1, <2>1, <2>2 DEF TypedJob
<1>4. ASSUME NEW n \in Names, RemoveJob(n, k) PROVE TypedJob(k)
  <2>1. \A step \in {"setPassword", "load", "remember", "persist", "loadSession"} :
          ~Pending(k.todo, step)
    BY <1>4 DEF RemoveJob, Only
  <2>2. TypedTable(k.draft)
    BY <1>4, TypedTableExcept DEF RemoveJob
  <2> QED
    BY <1>1, <2>1, <2>2 DEF TypedJob
<1>5. ASSUME AliasJob(k) PROVE TypedJob(k)
  <2>1. \A step \in {"setPassword", "load", "remember", "persist", "loadSession"} :
          ~Pending(k.todo, step)
    BY <1>5 DEF AliasJob, Only
  <2> QED
    BY <1>1, <1>5, <2>1 DEF TypedJob, AliasJob
<1>6. ASSUME SessionJob(k) PROVE TypedJob(k)
  <2>1. \A step \in {"setPassword", "load", "save"} : ~Pending(k.todo, step)
    BY <1>6 DEF SessionJob, Only
  <2> QED
    BY <1>1, <1>6, <2>1 DEF TypedJob, SessionJob
<1> QED
  BY <1>2, <1>3, <1>4, <1>5, <1>6 DEF Begun

LEMMA FallenBackTyped ==
  ASSUME NEW k, DOMAIN k = JobFields, k.todo \in Seq(Steps), k.todo # <<>>, TypedJob(k),
         Head(k.todo) = "setPassword", k.cmd # "wizard"
  PROVE  LET l == FallenBack(k)
         IN  /\ TypedJob(l)
             /\ DOMAIN l = JobFields /\ l.todo = Tail(k.todo)
             /\ l.cmd = k.cmd /\ l.name = k.name /\ l.drop = k.drop
             /\ \A n \in Names : /\ (l.draft[n] = None) <=> (k.draft[n] = None)
                                 /\ l.draft[n].mode = k.draft[n].mode
                                 /\ l.draft[n].user = k.draft[n].user
<1> DEFINE l == FallenBack(k)
           p == k.draft[k.name]
           q == [p EXCEPT !.plain = k.set]
           d == [k.draft EXCEPT ![k.name] = q]
<1>1. Pending(k.todo, "setPassword")
  <2>1. 1 \in DOMAIN k.todo /\ k.todo[1] = "setPassword"
    OBVIOUS
  <2> QED
    BY <2>1 DEF Pending
<1>2. k.name \in Names /\ k.set \in Users /\ TypedTable(k.draft) /\ p \in Profiles
  BY <1>1 DEF TypedJob
<1>3. q \in Profiles /\ q.mode = p.mode /\ q.user = p.user
  BY <1>2 DEF Profiles
<1>4. (q # None /\ q.mode = "browser") => q.user = Blank
  BY <1>2, <1>3, NoneAssumption DEF TypedTable
<1>5. TypedTable(d) /\ d[k.name] = q /\ \A m \in Names \ {k.name} : d[m] = k.draft[m]
  <2> HIDE DEF q
  <2> QED
    BY <1>2, <1>3, <1>4, TypedTableExcept
<1>6. /\ DOMAIN l = JobFields /\ l.todo = Tail(k.todo) /\ l.draft = d
      /\ l.cmd = k.cmd /\ l.name = k.name /\ l.set = k.set /\ l.drop = k.drop
      /\ l.conn = k.conn /\ l.form = k.form
  BY DEF FallenBack, JobFields
<1>7. /\ Tail(k.todo) # <<>> /\ Tail(k.todo)[Len(Tail(k.todo))] # "setPassword"
      /\ \A step : Pending(Tail(k.todo), step) => Pending(k.todo, step)
  <2>1. Len(k.todo) = 1 => k.todo[Len(k.todo)] = "setPassword"
    OBVIOUS
  <2> QED
    BY <2>1, TailKeeps, TailPending DEF TypedJob
<1>8. q # None /\ p # None
  BY <1>2, <1>3, NoneAssumption
<1> HIDE DEF l, q, d
<1>9. TypedJob(l)
  BY <1>2, <1>3, <1>5, <1>6, <1>7 DEF TypedJob
<1>10. ASSUME NEW n \in Names
       PROVE  /\ (l.draft[n] = None) <=> (k.draft[n] = None)
              /\ l.draft[n].mode = k.draft[n].mode
              /\ l.draft[n].user = k.draft[n].user
  <2>1. CASE n = k.name
    BY <1>3, <1>5, <1>6, <1>8, <2>1
  <2>2. CASE n # k.name
    BY <1>5, <1>6, <2>2
  <2> QED
    BY <2>1, <2>2
<1> QED
  BY <1>6, <1>9, <1>10 DEF l

(* Every worker's job stays typed when one of them gets a typed one. *)
LEMMA JobsTyped ==
  ASSUME PlainInv, TypeInv, NEW w \in Workers, NEW k, work' = [work EXCEPT ![w] = k], TypedJob(k)
  PROVE  \A v \in Workers : TypedJob(work'[v])
<1>1. ASSUME NEW v \in Workers PROVE TypedJob(work'[v])
  <2>1. CASE v = w
    BY <2>1 DEF PlainInv
  <2>2. CASE v # w
    BY <2>2 DEF PlainInv, TypeInv
  <2> QED
    BY <2>1, <2>2
<1> QED
  BY <1>1

LEMMA StepDoneRest ==
  ASSUME NEW w, StepDone(w)
  PROVE  work' = [work EXCEPT ![w] = Rest(work[w])]
BY DEF StepDone, Rest

(* A job and what has to be done next. *)
LEMMA AtJob ==
  ASSUME PlainInv, NEW w \in Workers, NEW step, At(w, step)
  PROVE  /\ DOMAIN work[w] = JobFields /\ work[w].todo \in Seq(Steps) /\ work[w].todo # <<>>
         /\ Pending(work[w].todo, step) /\ Head(work[w].todo) = step
BY AtPending DEF PlainInv, Sound, At

LEMMA DoneTyped ==
  ASSUME PlainInv, TypeInv, NEW w \in Workers, NEW step, At(w, step), StepDone(w) \/ Stops(w)
  PROVE  \A v \in Workers : TypedJob(work'[v])
<1>1. CASE StepDone(w)
  <2>1. TypedJob(Rest(work[w]))
    BY AtJob, RestTyped DEF TypeInv
  <2> QED
    BY <1>1, <2>1, StepDoneRest, JobsTyped
<1>2. CASE Stops(w)
  BY <1>2, IdleTyped, JobsTyped DEF Stops
<1> QED
  BY <1>1, <1>2

LEMMA StepTyped ==
  ASSUME PlainInv, TypeInv, NEW w \in Workers, Step(w)
  PROVE  TypeInv'
<1> DEFINE k == work[w]
           Stores == /\ TypedTable(connections')
                     /\ keyring' \subseteq Names \X Users
                     /\ persisted' \in [Names -> Targets \cup {None}]
                     /\ memory' \subseteq Targets \X Languages
           Jobs == \A v \in Workers : TypedJob(work'[v])
<1>0. TypedJob(k)
  BY DEF TypeInv
<1>1. ASSUME ClearSession(w) PROVE Stores /\ Jobs
  <2>1. Jobs
    BY <1>1, DoneTyped DEF ClearSession
  <2> QED
    BY <1>1, <2>1 DEF ClearSession, TypeInv
<1>2. ASSUME SetPassword(w) PROVE Stores /\ Jobs
  <2>1. /\ At(w, "setPassword")
        /\ UNCHANGED <<connections, persisted, memory>>
        /\ \/ StepDone(w) \/ Stops(w)
           \/ k.cmd # "wizard" /\ work' = [work EXCEPT ![w] = FallenBack(@)]
        /\ keyring' = keyring \/ keyring' = keyring \cup {<<k.name, k.set>>}
    BY <1>2 DEF SetPassword
  <2>2. /\ DOMAIN k = JobFields /\ k.todo \in Seq(Steps) /\ k.todo # <<>>
        /\ Pending(k.todo, "setPassword") /\ Head(k.todo) = "setPassword"
    BY <2>1, AtJob
  <2>3. k.name \in Names /\ k.set \in Users
    BY <1>0, <2>2 DEF TypedJob
  <2>4. Stores
    BY <2>1, <2>3 DEF TypeInv
  <2>5. CASE StepDone(w) \/ Stops(w)
    BY <2>1, <2>4, <2>5, DoneTyped
  <2>6. CASE k.cmd # "wizard" /\ work' = [work EXCEPT ![w] = FallenBack(@)]
    <3>1. TypedJob(FallenBack(k))
      BY <1>0, <2>2, <2>6, FallenBackTyped
    <3> QED
      BY <2>4, <2>6, <3>1, JobsTyped
  <2> QED
    BY <2>1, <2>5, <2>6
<1>3. ASSUME SaveConnections(w) PROVE Stores /\ Jobs
  <2>1. /\ At(w, "save") /\ (StepDone(w) \/ Stops(w))
        /\ connections' = connections \/ connections' = k.draft
        /\ UNCHANGED <<keyring, persisted, memory>>
    BY <1>3 DEF SaveConnections
  <2>2. Pending(k.todo, "save")
    BY <2>1, AtJob
  <2>3. TypedTable(connections')
    BY <1>0, <2>1, <2>2 DEF TypedJob, TypeInv
  <2>4. Jobs
    BY <2>1, DoneTyped
  <2> QED
    BY <2>1, <2>3, <2>4 DEF TypeInv
<1>4. ASSUME DeletePassword(w) PROVE Stores /\ Jobs
  <2>1. Jobs
    BY <1>4, DoneTyped DEF DeletePassword
  <2> QED
    BY <1>4, <2>1 DEF DeletePassword, TypeInv
<1>5. ASSUME WizardLoad(w) PROVE Stores /\ Jobs
  <2> DEFINE n == k.name
             f == k.form
             p == [target |-> f.target, lang |-> f.lang, mode |-> f.mode,
                   user |-> IF f.mode = "basic" THEN f.user ELSE Blank, plain |-> None]
             d == [connections EXCEPT ![n] = p]
             a == ClearIfChanged(connections[n], f)
             s == <<"save">>
             l == [k EXCEPT !.todo = a \o s, !.draft = d]
  <2>1. /\ At(w, "load") /\ work' = [work EXCEPT ![w] = l]
        /\ UNCHANGED <<connections, keyring, persisted, memory>>
    BY <1>5 DEF WizardLoad
  <2>2. DOMAIN k = JobFields /\ n \in Names /\ f \in Forms
    BY <1>0, <2>1, AtJob DEF TypedJob
  <2>3. p \in Profiles /\ (p.mode = "browser" => p.user = Blank)
    BY <2>2, FormsAssumption, BlankAssumption DEF Profiles
  <2> HIDE DEF p
  <2>4. TypedTable(d)
    BY <2>2, <2>3, TypedTableExcept DEF TypeInv
  <2>5. /\ a \in Seq(Steps) /\ \A step : Pending(a, step) => step = "clear"
        /\ s \in Seq(Steps) /\ s # <<>> /\ s[Len(s)] = "save"
        /\ \A step : Pending(s, step) => step = "save"
    BY OneStep DEF ClearIfChanged, Steps
  <2> HIDE DEF a, s, d
  <2>6. l.todo = a \o s /\ l.draft = d
    BY <2>2 DEF JobFields
  <2> HIDE DEF l
  <2>7. /\ l.todo # <<>> /\ l.todo[Len(l.todo)] = "save"
        /\ \A step : Pending(l.todo, step) => step \in {"clear", "save"}
    BY <2>5, <2>6, ConcatHas, ConcatPending
  <2>8. TypedJob(l)
    <3>1. \A step \in {"setPassword", "load", "remember", "persist", "loadSession"} :
            ~Pending(l.todo, step)
      BY <2>7
    <3> QED
      BY <2>4, <2>6, <2>7, <3>1 DEF TypedJob
  <2> QED
    BY <2>1, <2>8, JobsTyped DEF TypeInv
<1>6. ASSUME \/ Forget(w) \/ Window(w) \/ Remember(w) \/ Persist(w)
             \/ LoadSession(w)
      PROVE  Stores /\ Jobs
  <2>1. Jobs
    BY <1>6, DoneTyped, Zenon DEF Forget, Window, Remember, Persist, LoadSession
  <2>2. ASSUME Forget(w) \/ Window(w) PROVE Stores
    BY <2>2 DEF Forget, Window, TypeInv
  <2>3. ASSUME NEW step \in {"remember", "persist", "loadSession"}, At(w, step)
        PROVE  k.conn \in Targets \X Languages /\ k.conn[1] \in Targets
    <3>1. k.conn \in Targets \X Languages
      BY <1>0, <2>3, AtJob DEF TypedJob
    <3> QED
      BY <3>1
  <2>4. ASSUME Remember(w) PROVE Stores
    BY <2>3, <2>4 DEF Remember, TypeInv
  <2>5. ASSUME Persist(w) PROVE Stores
    BY <2>3, <2>5 DEF Persist, TypeInv
  <2>7. ASSUME LoadSession(w) PROVE Stores
    BY <2>3, <2>7 DEF LoadSession, TypeInv
  <2> QED
    BY <1>6, <2>1, <2>2, <2>4, <2>5, <2>7
<1> QED
  BY <1>1, <1>2, <1>3, <1>4, <1>5, <1>6 DEF Step, TypeInv

LEMMA TypeStep == PlainInv /\ TypeInv /\ [Next]_vars => TypeInv'
<1> SUFFICES ASSUME PlainInv, TypeInv, [Next]_vars PROVE TypeInv'
  OBVIOUS
<1>1. ASSUME NEW w \in Workers, Command(w) PROVE TypeInv'
  <2>1. PICK k : Begins(w, k) /\ Begun(w, k)
    BY <1>1, CommandBegun DEF TypeInv
  <2>2. TypedJob(k)
    BY <2>1, BegunTyped DEF TypeInv
  <2>3. \A v \in Workers : TypedJob(work'[v])
    BY <2>1, <2>2, JobsTyped DEF Begins
  <2> QED
    BY <2>1, <2>3 DEF TypeInv, Begins
<1>2. ASSUME NEW process, Die(process) PROVE TypeInv'
  <2>1. \A v \in Workers : TypedJob(work'[v])
    BY <1>2, IdleTyped DEF Die, TypeInv
  <2>2. memory' \subseteq memory /\ UNCHANGED <<connections, keyring, persisted>>
    BY <1>2 DEF Die
  <2> QED
    BY <2>1, <2>2 DEF TypeInv
<1>3. CASE UNCHANGED vars
  BY <1>3 DEF vars, TypeInv
<1> QED
  BY <1>1, <1>2, <1>3, StepTyped DEF Next

LEMMA TypeInit == Init => PlainInv /\ TypeInv
<1> SUFFICES ASSUME Init PROVE PlainInv /\ TypeInv
  OBVIOUS
<1>1. connections = [n \in Names |-> None] /\ work = [w \in Workers |-> Idle]
  BY DEF Init
<1>2. TypedTable(connections)
  BY <1>1 DEF TypedTable
<1> QED
  BY <1>1, <1>2, IdleSound, IdleTyped DEF Init, PlainInv, Agreed, TypeInv

(* The file, the keyring and the sessions hold what they are meant to,      *)
(* however commands overlap, fail and die; a browser profile has no user.    *)
THEOREM ProfileTypes == Spec => []TypeOK
<1>1. TypeInv => TypeOK
  BY DEF TypeInv, TypedTable, TypedJob, TypeOK, Has
<1> QED
  BY <1>1, TypeInit, PlainStep, TypeStep, PTL DEF Spec

-----------------------------------------------------------------------------
(* Credentials, while commands run one at a time. *)

(* A step that does to the stores what it is pending for leaves them        *)
(* accounted for by the steps that remain.                                  *)
LEMMA RestAccounted ==
  ASSUME NEW k, DOMAIN k = JobFields, k.todo \in Seq(Steps), k.todo # <<>>,
         NEW T, NEW R, NEW S, Accounted(k, T, R, S),
         NEW U, NEW Q, NEW P,
         Head(k.todo) # "load", Final(Rest(k), U) = Final(k, T),
         \A e \in Q : /\ e \in R \/ (Head(k.todo) = "setPassword" /\ e = <<k.name, k.set>>)
                      /\ Head(k.todo) = "deletePassword" => e # <<k.name, k.drop>>,
         \A n \in Names : P[n] # None =>
           /\ P[n] = S[n] \/ (Head(k.todo) = "persist" /\ n = k.name /\ P[n] = k.conn[1])
           /\ Head(k.todo) = "clear" => n # k.name
  PROVE  Accounted(Rest(k), U, Q, P)
<1> DEFINE l == Rest(k)
           h == Head(k.todo)
           F == Final(k, T)
<1>1. /\ \A step : Pending(l.todo, step) => Pending(k.todo, step) /\ l.todo # <<>>
      /\ \A step : step # h => (Pending(l.todo, step) <=> Pending(k.todo, step))
      /\ l.todo # <<>> =>
           /\ l.name = k.name /\ l.set = k.set /\ l.drop = k.drop /\ l.conn = k.conn
           /\ l.form = k.form
  BY RestJob
<1>2. Pending(k.todo, h)
  <2>1. 1 \in DOMAIN k.todo /\ k.todo[1] = h
    OBVIOUS
  <2> QED
    BY <2>1 DEF Pending
<1>3. Final(l, U) = F
  OBVIOUS
<1> HIDE DEF l, h, F
<1>4. ASSUME NEW e \in Q
      PROVE  \/ PasswordOf(e, F)
             \/ Pending(l.todo, "deletePassword") /\ e = <<l.name, l.drop>>
             \/ Pending(l.todo, "load") /\ l.form.password /\ e = <<l.name, l.form.user>>
  <2>1. CASE e \in R
    <3>1. \/ PasswordOf(e, F)
          \/ Pending(k.todo, "deletePassword") /\ e = <<k.name, k.drop>>
          \/ Pending(k.todo, "load") /\ k.form.password /\ e = <<k.name, k.form.user>>
      BY <2>1 DEF Accounted, F
    <3> QED
      BY <1>1, <3>1 DEF h
  <2>2. CASE h = "setPassword" /\ e = <<k.name, k.set>>
    <3>1. IF Pending(k.todo, "load") THEN k.form.password /\ k.set = k.form.user
                                     ELSE PasswordOf(<<k.name, k.set>>, F)
      BY <1>2, <2>2 DEF Accounted, F
    <3> QED
      BY <1>1, <2>2, <3>1
  <2> QED
    BY <2>1, <2>2 DEF h
<1>5. ASSUME NEW n \in Names, P[n] # None
      PROVE  SessionOf(n, P[n], F) \/ (Pending(l.todo, "clear") /\ n = l.name)
  <2>1. CASE P[n] = S[n]
    <3>1. SessionOf(n, P[n], F) \/ (Pending(k.todo, "clear") /\ n = k.name)
      BY <1>5, <2>1 DEF Accounted, F
    <3> QED
      BY <1>1, <1>5, <3>1 DEF h
  <2>2. CASE h = "persist" /\ n = k.name /\ P[n] = k.conn[1]
    BY <1>2, <2>2 DEF Accounted, F
  <2> QED
    BY <1>5, <2>1, <2>2 DEF h
<1>6. Pending(l.todo, "setPassword") =>
        IF Pending(l.todo, "load") THEN l.form.password /\ l.set = l.form.user
                                   ELSE PasswordOf(<<l.name, l.set>>, F)
  <2>1. Pending(k.todo, "setPassword") =>
          IF Pending(k.todo, "load") THEN k.form.password /\ k.set = k.form.user
                                     ELSE PasswordOf(<<k.name, k.set>>, F)
    BY DEF Accounted, F
  <2> QED
    BY <1>1, <2>1 DEF h
<1>7. Pending(l.todo, "persist") => SessionOf(l.name, l.conn[1], F)
  BY <1>1 DEF Accounted, F
<1>8. /\ Pending(l.todo, "load") \/ Pending(l.todo, "window") =>
           \A step \in {"save", "deletePassword", "clear"} : ~Pending(l.todo, step)
      /\ Pending(l.todo, "window") => ~Pending(l.todo, "load")
  BY <1>1 DEF Accounted
<1>9. Accounted(l, U, Q, P)
  BY <1>3, <1>4, <1>5, <1>6, <1>7, <1>8 DEF Accounted
<1> QED
  BY <1>9 DEF l

LEMMA RestFinal ==
  ASSUME NEW k, DOMAIN k = JobFields, k.todo \in Seq(Steps), k.todo # <<>>, NEW T
  PROVE  /\ Head(k.todo) # "save" => Final(Rest(k), T) = Final(k, T)
         /\ Head(k.todo) = "save" => Final(Rest(k), k.draft) = Final(k, T)
<1>1. Head(k.todo) = "save" => Pending(k.todo, "save")
  <2>1. 1 \in DOMAIN k.todo /\ k.todo[1] = Head(k.todo)
    OBVIOUS
  <2> QED
    BY <2>1 DEF Pending
<1> QED
  BY <1>1, RestJob DEF Final

LEMMA TailAtEnd ==
  ASSUME NEW s \in Seq(Steps), s # <<>>, NEW step, AtEnd(s, step)
  PROVE  AtEnd(Tail(s), step)
<1>1. ASSUME NEW i \in DOMAIN Tail(s), Tail(s)[i] = step PROVE i = Len(Tail(s))
  <2>1. i + 1 \in DOMAIN s /\ s[i + 1] = Tail(s)[i] /\ i \in Nat
    OBVIOUS
  <2>2. i + 1 = Len(s)
    BY <1>1, <2>1 DEF AtEnd
  <2>3. Len(Tail(s)) = Len(s) - 1
    OBVIOUS
  <2> QED
    BY <2>1, <2>2, <2>3
<1> QED
  BY <1>1 DEF AtEnd

LEMMA RestSpares ==
  ASSUME NEW k, DOMAIN k = JobFields, k.todo \in Seq(Steps), k.todo # <<>>, NEW T, NEW U,
         Final(Rest(k), U) = Final(k, T), SparesOwn(k, T)
  PROVE  SparesOwn(Rest(k), U)
<1>1. AtEnd(k.todo, "deletePassword") => AtEnd(Tail(k.todo), "deletePassword")
  BY TailAtEnd
<1> QED
  BY <1>1, RestJob DEF SparesOwn

LEMMA IdleSpares ==
  ASSUME NEW T
  PROVE  SparesOwn(Idle, T)
BY IdleSound, OneStep DEF SparesOwn

(* Nothing is pending: every credential belongs to the table as it is. *)
LEMMA IdleAccounted ==
  ASSUME NEW T, NEW R, NEW S
  PROVE  Accounted(Idle, T, R, S) <=>
           /\ \A e \in R : PasswordOf(e, T)
           /\ \A n \in Names : S[n] # None => SessionOf(n, S[n], T)
BY IdleSound, OneStep DEF Accounted, Final

-----------------------------------------------------------------------------
(* What an edit deletes is the password of a user its profile no longer has. *)
LEMMA BegunSpares ==
  ASSUME TypedTable(connections), NEW w \in Workers, NEW k, Begun(w, k)
  PROVE  SparesOwn(k, connections)
<1>1. ASSUME NEW n \in Names, NEW f \in Forms, AddJob(w, n, f, k)
      PROVE  SparesOwn(k, connections)
  <2> DEFINE old == connections[n]
             mode == KeptMode(w, old, f)
             p == NewProfile(w, old, f)
             drop == OrphanedUser(old, mode, f.user)
  <2>1. p.mode = mode /\ p.user = StoredUser(p.mode, f)
    BY NewProfileTyped
  <2>2. /\ k.name = n /\ k.drop = drop /\ k.draft = [connections EXCEPT ![n] = p]
        /\ Pending(k.todo, "save") /\ (Pending(k.todo, "deletePassword") => drop # None)
        /\ AtEnd(k.todo, "deletePassword")
    BY <1>1 DEF AddJob
  <2>3. drop # None => drop = old.user /\ old # None /\ old.mode = "basic"
                       /\ ~SameBasicUser(old, mode, f.user)
    BY DEF OrphanedUser
  <2> HIDE DEF p, mode, drop
  <2>4. k.draft[n] = p
    BY <2>2 DEF TypedTable
  <2>5. Final(k, connections) = k.draft
    BY <2>2 DEF Final
  <2>6. drop # None => ~PasswordOf(<<n, drop>>, k.draft)
    BY <2>1, <2>3, <2>4 DEF PasswordOf, SameBasicUser, StoredUser
  <2> QED
    BY <2>2, <2>5, <2>6 DEF SparesOwn
<1>2. ASSUME NEW n \in Names, RemoveJob(n, k) PROVE SparesOwn(k, connections)
  BY <1>2 DEF RemoveJob, SparesOwn
<1>3. ASSUME ~Pending(k.todo, "deletePassword") PROVE SparesOwn(k, connections)
  BY <1>3 DEF SparesOwn
<1>4. ASSUME (\E n \in Names, f \in Forms : WizardJob(n, f, k)) \/ AliasJob(k) \/ SessionJob(k)
      PROVE  ~Pending(k.todo, "deletePassword")
  BY <1>4 DEF WizardJob, AliasJob, SessionJob, Only
<1> QED
  BY <1>1, <1>2, <1>3, <1>4 DEF Begun

LEMMA AddAccounted ==
  ASSUME TypeInv, NEW w \in Workers, NEW k, NEW n \in Names, NEW f \in Forms,
         AddJob(w, n, f, k), Accounted(Idle, connections, Tracked, persisted)
  PROVE  Accounted(k, connections, Tracked, persisted)
<1> DEFINE old == connections[n]
           mode == KeptMode(w, old, f)
           p == NewProfile(w, old, f)
           drop == OrphanedUser(old, mode, f.user)
<1>1. /\ p \in Profiles /\ p.mode = mode /\ p.user = StoredUser(p.mode, f)
      /\ p.target = f.target
  BY NewProfileTyped DEF TypeInv
<1>2. /\ k.name = n /\ k.drop = drop /\ k.set = f.user
      /\ k.draft = [connections EXCEPT ![n] = p]
      /\ Only(k.todo, {"clear", "setPassword", "save", "deletePassword"})
      /\ Pending(k.todo, "save")
      /\ Pending(k.todo, "setPassword") => f.password
      /\ Pending(k.todo, "deletePassword") <=> drop # None
      /\ (old # None /\ old.target # f.target) => Pending(k.todo, "clear")
  BY DEF AddJob
<1>3. drop = IF /\ old # None /\ old.mode = "basic" /\ old.user # Blank
                /\ ~SameBasicUser(old, mode, f.user)
             THEN old.user ELSE None
  BY DEF OrphanedUser
<1>4. (f.password => mode = "basic") /\ f.user \in Users
  BY FormsAssumption DEF KeptMode
<1>5. p # None
  BY <1>1, NoneAssumption
<1> HIDE DEF p, mode, drop, old
<1>6. k.draft[n] = p /\ \A m \in Names \ {n} : k.draft[m] = connections[m]
  BY <1>2 DEF TypeInv, TypedTable
<1>7. Final(k, connections) = k.draft
  BY <1>2 DEF Final
<1>8. /\ \A e \in Tracked : PasswordOf(e, connections)
      /\ \A m \in Names : persisted[m] # None => SessionOf(m, persisted[m], connections)
  BY IdleAccounted
<1>9. ASSUME NEW e \in Tracked
      PROVE  PasswordOf(e, k.draft) \/ (Pending(k.todo, "deletePassword") /\ e = <<k.name, k.drop>>)
  <2>1. e = <<e[1], e[2]>> /\ e[1] \in Names /\ e[2] # Blank /\ PasswordOf(e, connections)
    BY <1>8, <1>9 DEF TypeInv, Tracked
  <2>2. CASE e[1] # n
    BY <1>6, <2>1, <2>2 DEF PasswordOf
  <2>3. CASE e[1] = n /\ SameBasicUser(old, mode, f.user)
    BY <1>1, <1>5, <1>6, <2>1, <2>3 DEF PasswordOf, SameBasicUser, StoredUser, old
  <2>4. CASE e[1] = n /\ ~SameBasicUser(old, mode, f.user)
    <3>1. drop = e[2]
      BY <1>3, <2>1, <2>4 DEF PasswordOf, old
    <3>2. e[2] # None
      BY <1>9, NoneAssumption DEF Tracked, TypeInv
    <3> QED
      BY <1>2, <2>1, <2>4, <3>1, <3>2
  <2> QED
    BY <2>2, <2>3, <2>4
<1>10. ASSUME NEW m \in Names, persisted[m] # None
       PROVE  SessionOf(m, persisted[m], k.draft) \/ (Pending(k.todo, "clear") /\ m = k.name)
  BY <1>1, <1>2, <1>5, <1>6, <1>8, <1>10 DEF SessionOf, old
<1>11. Pending(k.todo, "setPassword") => PasswordOf(<<k.name, k.set>>, k.draft)
  BY <1>1, <1>2, <1>4, <1>5, <1>6 DEF PasswordOf, StoredUser
<1>12. \A step \in {"load", "persist", "window"} : ~Pending(k.todo, step)
  BY <1>2 DEF Only
<1> QED
  BY <1>7, <1>9, <1>10, <1>11, <1>12 DEF Accounted

LEMMA BegunAccounted ==
  ASSUME TypeInv, NEW w \in Workers, NEW k, Begun(w, k),
         Accounted(Idle, connections, Tracked, persisted)
  PROVE  Accounted(k, connections, Tracked, persisted)
<1>1. /\ \A e \in Tracked : PasswordOf(e, connections)
      /\ \A m \in Names : persisted[m] # None => SessionOf(m, persisted[m], connections)
  BY IdleAccounted
<1>2. ASSUME NEW n \in Names, NEW f \in Forms, WizardJob(n, f, k)
      PROVE  Accounted(k, connections, Tracked, persisted)
  <2>1. /\ Pending(k.todo, "load")
        /\ \A step \in {"save", "deletePassword", "clear", "persist", "window"} :
             ~Pending(k.todo, step)
        /\ Pending(k.todo, "setPassword") => k.form.password /\ k.set = k.form.user
    BY <1>2 DEF WizardJob, Only
  <2> QED
    BY <1>1, <2>1 DEF Accounted, Final
<1>3. ASSUME NEW n \in Names, RemoveJob(n, k)
      PROVE  Accounted(k, connections, Tracked, persisted)
  <2>1. \A step \in {"load", "persist", "window", "setPassword"} : ~Pending(k.todo, step)
    BY <1>3 DEF RemoveJob, Only
  <2>2. /\ k.name = n /\ Pending(k.todo, "save") /\ Pending(k.todo, "clear")
        /\ k.drop = connections[n].user
        /\ (connections[n].mode = "basic" /\ connections[n].user # Blank) =>
             Pending(k.todo, "deletePassword")
        /\ \A m \in Names \ {n} : k.draft[m] = connections[m]
    BY <1>3 DEF RemoveJob, TypeInv, TypedTable
  <2>3. ASSUME NEW e \in Tracked
        PROVE  PasswordOf(e, k.draft) \/ (Pending(k.todo, "deletePassword") /\ e = <<k.name, k.drop>>)
    <3>1. e = <<e[1], e[2]>> /\ e[1] \in Names /\ e[2] # Blank /\ PasswordOf(e, connections)
      BY <1>1, <2>3 DEF TypeInv, Tracked
    <3> QED
      BY <2>2, <3>1 DEF PasswordOf
  <2>4. ASSUME NEW m \in Names, persisted[m] # None
        PROVE  SessionOf(m, persisted[m], k.draft) \/ (Pending(k.todo, "clear") /\ m = k.name)
    BY <1>1, <2>2, <2>4 DEF SessionOf
  <2>5. Final(k, connections) = k.draft
    BY <2>2 DEF Final
  <2> QED
    BY <2>1, <2>3, <2>4, <2>5 DEF Accounted
<1>4. ASSUME AliasJob(k) PROVE Accounted(k, connections, Tracked, persisted)
  <2>1. \A step \in {"load", "persist", "window", "setPassword"} : ~Pending(k.todo, step)
    BY <1>4 DEF AliasJob, Only
  <2>2. Final(k, connections) = connections
    BY <1>4 DEF AliasJob, Final
  <2> QED
    BY <1>1, <2>1, <2>2 DEF Accounted
<1>5. ASSUME SessionJob(k) PROVE Accounted(k, connections, Tracked, persisted)
  <2>1. \A step \in {"load", "setPassword", "save", "deletePassword"} : ~Pending(k.todo, step)
    BY <1>5 DEF SessionJob, Only
  <2>2. Final(k, connections) = connections
    BY <2>1 DEF Final
  <2> QED
    BY <1>1, <1>5, <2>1, <2>2 DEF Accounted, SessionJob
<1> QED
  BY <1>2, <1>3, <1>4, <1>5, AddAccounted DEF Begun

-----------------------------------------------------------------------------
(* The command that runs alone, step by step. *)

LEMMA TheOne ==
  ASSUME AloneInv, ~overlapped, NEW w \in Workers, work[w].todo # <<>>
  PROVE  /\ \A v \in Workers \ {w} : work[v] = Idle
         /\ SparesOwn(work[w], connections)
         /\ ~irregular => Accounted(work[w], connections, Tracked, persisted)
<1>1. PICK v \in Workers : /\ \A u \in Workers \ {v} : work[u] = Idle
                           /\ SparesOwn(work[v], connections)
                           /\ ~irregular => Accounted(work[v], connections, Tracked, persisted)
  BY DEF AloneInv
<1>2. v = w
  BY <1>1, IdleSound
<1> QED
  BY <1>1, <1>2

LEMMA AloneAgain ==
  ASSUME PlainInv, NEW w \in Workers, NEW k, work' = [work EXCEPT ![w] = k],
         \A v \in Workers \ {w} : work[v] = Idle,
         SparesOwn(k, connections'),
         ~irregular' => Accounted(k, connections', Tracked', persisted')
  PROVE  AloneInv'
<1>1. work'[w] = k /\ \A v \in Workers \ {w} : work'[v] = Idle
  BY DEF PlainInv
<1> QED
  BY <1>1 DEF AloneInv

(* A step done as it should be, or one that fails. *)
LEMMA DoneAlone ==
  ASSUME PlainInv, AloneInv, ~overlapped, NEW w \in Workers, NEW step, At(w, step),
         step # "load", StepDone(w),
         IF step = "save" THEN connections' = work[w].draft ELSE UNCHANGED connections,
         irregular => irregular', UNCHANGED abandoned,
         ~irregular' =>
           /\ \A e \in keyring' :
                /\ e \in keyring \/ (step = "setPassword" /\ e = <<work[w].name, work[w].set>>)
                /\ step = "deletePassword" => e # <<work[w].name, work[w].drop>>
           /\ \A n \in Names : persisted'[n] # None =>
                /\ \/ persisted'[n] = persisted[n]
                   \/ /\ step = "persist" /\ n = work[w].name
                      /\ persisted'[n] = work[w].conn[1]
                /\ step = "clear" => n # work[w].name
  PROVE  AloneInv'
<1> DEFINE k == work[w]
           T == connections
           U == connections'
<1>1. /\ DOMAIN k = JobFields /\ k.todo \in Seq(Steps) /\ k.todo # <<>>
      /\ Head(k.todo) = step
  BY AtJob
<1>2. /\ \A v \in Workers \ {w} : work[v] = Idle
      /\ SparesOwn(k, T)
      /\ ~irregular => Accounted(k, T, Tracked, persisted)
  BY <1>1, TheOne
<1>3. Final(Rest(k), U) = Final(k, T)
  BY <1>1, RestFinal
<1>4. SparesOwn(Rest(k), U)
  BY <1>1, <1>2, <1>3, RestSpares
<1>5. ASSUME ~irregular' PROVE Accounted(Rest(k), U, Tracked', persisted')
  <2> DEFINE R == Tracked
             S == persisted
             Q == Tracked'
             P == persisted'
  <2>1. Accounted(k, T, R, S)
    BY <1>2, <1>5
  <2>2. /\ \A e \in Q : /\ e \in R \/ (step = "setPassword" /\ e = <<k.name, k.set>>)
                        /\ step = "deletePassword" => e # <<k.name, k.drop>>
        /\ \A n \in Names : P[n] # None =>
             /\ P[n] = S[n] \/ (step = "persist" /\ n = k.name /\ P[n] = k.conn[1])
             /\ step = "clear" => n # k.name
    BY <1>5 DEF Tracked
  <2> HIDE DEF k, T, U, R, S, Q, P
  <2>3. Accounted(Rest(k), U, Q, P)
    BY <1>1, <1>3, <2>1, <2>2, RestAccounted
  <2> QED
    BY <2>3 DEF Q, P
<1>6. work' = [work EXCEPT ![w] = Rest(k)]
  BY StepDoneRest
<1> QED
  BY <1>2, <1>4, <1>5, <1>6, AloneAgain

LEMMA StopsAlone ==
  ASSUME PlainInv, AloneInv, ~overlapped, NEW w \in Workers, NEW step, At(w, step), Stops(w),
         irregular'
  PROVE  AloneInv'
<1>1. \A v \in Workers \ {w} : work[v] = Idle
  BY AtJob, TheOne
<1> QED
  BY <1>1, IdleSpares, AloneAgain DEF Stops

LEMMA WizardAlone ==
  ASSUME PlainInv, TypeInv, AloneInv, ~overlapped, NEW w \in Workers, WizardLoad(w)
  PROVE  AloneInv'
<1> DEFINE k == work[w]
           n == k.name
           f == k.form
           old == connections[n]
           p == [target |-> f.target, lang |-> f.lang, mode |-> f.mode,
                 user |-> IF f.mode = "basic" THEN f.user ELSE Blank, plain |-> None]
           d == [connections EXCEPT ![n] = p]
           a == ClearIfChanged(old, f)
           s == <<"save">>
           l == [k EXCEPT !.todo = a \o s, !.draft = d]
<1>1. /\ At(w, "load") /\ work' = [work EXCEPT ![w] = l]
      /\ UNCHANGED <<connections, keyring, persisted>>
      /\ abandoned' = abandoned \cup {<<n, OrphanedUser(old, f.mode, f.user)>>}
      /\ UNCHANGED irregular
  BY DEF WizardLoad
<1>2. /\ DOMAIN k = JobFields /\ k.todo # <<>> /\ Pending(k.todo, "load")
      /\ n \in Names /\ f \in Forms
  BY <1>1, AtJob DEF TypeInv, TypedJob
<1>3. /\ p \in Profiles /\ p.mode = f.mode /\ p.target = f.target
      /\ p.user = IF f.mode = "basic" THEN f.user ELSE Blank
  BY <1>2, FormsAssumption, BlankAssumption DEF Profiles
<1>4. p # None
  BY <1>3, NoneAssumption
<1> HIDE DEF p
<1>5. d[n] = p /\ \A m \in Names \ {n} : d[m] = connections[m]
  BY <1>2 DEF TypeInv, TypedTable
<1> DEFINE changed == old # None /\ old.target # f.target
<1>6. /\ a \in Seq(Steps) /\ \A step : Pending(a, step) <=> changed /\ step = "clear"
      /\ s \in Seq(Steps) /\ \A step : Pending(s, step) <=> step = "save"
  <2>1. a = IF changed THEN <<"clear">> ELSE <<>>
    BY DEF ClearIfChanged, SameSessionTarget
  <2> changed \in BOOLEAN
    OBVIOUS
  <2> HIDE DEF changed, a
  <2> QED
    BY <2>1, OptionalStep, OneStep, Listed DEF Steps
<1> HIDE DEF a, s, d
<1>7. l.todo = a \o s /\ l.draft = d /\ l.name = n /\ l.form = f
  BY <1>2 DEF JobFields
<1> HIDE DEF l
<1>8. \A step : Pending(l.todo, step) <=> (changed /\ step = "clear") \/ step = "save"
  <2> HIDE DEF changed
  <2> QED
    BY <1>6, <1>7, ConcatHas
<1>9. /\ \A v \in Workers \ {w} : work[v] = Idle
      /\ ~irregular => Accounted(k, connections, Tracked, persisted)
  BY <1>2, TheOne
<1>10. SparesOwn(l, connections)
  BY <1>8 DEF SparesOwn
<1>11. Final(l, connections) = d
  BY <1>7, <1>8 DEF Final
<1>12. ASSUME ~irregular' PROVE Accounted(l, connections, Tracked', persisted)
  <2>1. Accounted(k, connections, Tracked, persisted)
    BY <1>1, <1>9, <1>12
  <2>2. /\ \A step \in {"save", "deletePassword", "clear"} : ~Pending(k.todo, step)
        /\ Final(k, connections) = connections
    BY <1>2, <2>1 DEF Accounted, Final
  <2>3. ASSUME NEW e \in Tracked' PROVE PasswordOf(e, d)
    <3>1. /\ e \in Tracked /\ e = <<e[1], e[2]>> /\ e[1] \in Names /\ e[2] # Blank
          /\ e # <<n, OrphanedUser(old, f.mode, f.user)>>
      BY <1>1, <2>3 DEF TypeInv, Tracked
    <3>2. \/ PasswordOf(e, connections)
          \/ f.password /\ e = <<n, f.user>>
      BY <2>1, <2>2, <3>1 DEF Accounted
    <3>3. CASE f.password /\ e = <<n, f.user>>
      <4>1. f.mode = "basic" /\ e[1] = n /\ e[2] = f.user
        BY <1>2, <3>3, FormsAssumption
      <4> QED
        BY <1>3, <1>4, <1>5, <4>1 DEF PasswordOf
    <3>4. CASE PasswordOf(e, connections) /\ e[1] # n
      BY <1>5, <3>1, <3>4 DEF PasswordOf
    <3>5. CASE PasswordOf(e, connections) /\ e[1] = n
      <4>1. old # None /\ old.mode = "basic" /\ old.user = e[2]
        BY <3>5 DEF PasswordOf
      <4>2. f.mode = "basic" /\ f.user = e[2]
        BY <3>1, <3>5, <4>1 DEF OrphanedUser, SameBasicUser
      <4> QED
        BY <1>3, <1>4, <1>5, <3>5, <4>2 DEF PasswordOf
    <3> QED
      BY <3>2, <3>3, <3>4, <3>5
  <2>4. ASSUME NEW m \in Names, persisted[m] # None
        PROVE  SessionOf(m, persisted[m], d) \/ (Pending(l.todo, "clear") /\ m = l.name)
    <3>1. SessionOf(m, persisted[m], connections)
      BY <2>1, <2>2, <2>4 DEF Accounted
    <3> QED
      BY <1>3, <1>4, <1>5, <1>7, <1>8, <3>1 DEF SessionOf
  <2>5. \A step \in {"load", "window", "persist", "setPassword"} : ~Pending(l.todo, step)
    BY <1>8
  <2> QED
    BY <1>11, <2>3, <2>4, <2>5 DEF Accounted
<1> QED
  BY <1>1, <1>9, <1>10, <1>12, AloneAgain

LEMMA StepAlone ==
  ASSUME PlainInv, TypeInv, AloneInv, ~overlapped, NEW w \in Workers, Step(w)
  PROVE  AloneInv'
<1>1. CASE ClearSession(w)
  <2>1. /\ At(w, "clear") /\ StepDone(w) /\ UNCHANGED <<connections, keyring, abandoned>>
        /\ irregular => irregular'
        /\ ~irregular' => persisted' = [persisted EXCEPT ![work[w].name] = None]
    BY <1>1 DEF ClearSession, Fault, NoFault, history
  <2>2. ~irregular' => \A n \in Names : persisted'[n] # None =>
                         persisted'[n] = persisted[n] /\ n # work[w].name
    BY <2>1 DEF TypeInv
  <2> QED
    BY <2>1, <2>2, DoneAlone
<1>2. CASE SetPassword(w)
  <2>1. At(w, "setPassword") /\ UNCHANGED <<connections, persisted, abandoned>>
    BY <1>2 DEF SetPassword, history
  <2>2. CASE StepDone(w)
    <3>1. /\ irregular => irregular'
          /\ ~irregular' => keyring' = keyring \cup {<<work[w].name, work[w].set>>}
      BY <1>2 DEF SetPassword, Fault, NoFault
    <3> QED
      BY <2>1, <2>2, <3>1, DoneAlone
  <2>3. CASE ~StepDone(w) /\ Stops(w)
    <3>1. irregular'
      BY <1>2, <2>3 DEF SetPassword, Fault
    <3> QED
      BY <2>1, <2>3, <3>1, StopsAlone
  <2>4. CASE ~StepDone(w) /\ ~Stops(w)
    <3> DEFINE k == work[w]
               l == FallenBack(k)
    <3>1. irregular' /\ k.cmd # "wizard" /\ work' = [work EXCEPT ![w] = l]
      BY <1>2, <2>4 DEF SetPassword, Fault
    <3>2. /\ DOMAIN k = JobFields /\ k.todo \in Seq(Steps) /\ k.todo # <<>>
          /\ Pending(k.todo, "setPassword") /\ Head(k.todo) = "setPassword" /\ TypedJob(k)
      BY <2>1, AtJob DEF TypeInv
    <3>3. /\ l.todo = Tail(k.todo) /\ l.cmd = k.cmd /\ l.name = k.name /\ l.drop = k.drop
          /\ \A n \in Names : /\ (l.draft[n] = None) <=> (k.draft[n] = None)
                              /\ l.draft[n].mode = k.draft[n].mode
                              /\ l.draft[n].user = k.draft[n].user
      BY <3>1, <3>2, FallenBackTyped
    <3>4. /\ Pending(l.todo, "save") <=> Pending(k.todo, "save")
          /\ Pending(l.todo, "deletePassword") <=> Pending(k.todo, "deletePassword")
      BY <3>2, <3>3, TailKeeps
    <3>5. k.name \in Names
      BY <3>2 DEF TypedJob
    <3>6. SparesOwn(k, connections) /\ \A v \in Workers \ {w} : work[v] = Idle
      BY <3>2, TheOne
    <3> HIDE DEF l, k
    <3>7. PasswordOf(<<l.name, l.drop>>, Final(l, connections)) =>
            PasswordOf(<<k.name, k.drop>>, Final(k, connections))
      BY <3>3, <3>4, <3>5 DEF PasswordOf, Final
    <3>8. AtEnd(k.todo, "deletePassword") => AtEnd(l.todo, "deletePassword")
      BY <3>2, <3>3, TailAtEnd
    <3>9. SparesOwn(l, connections)
      BY <3>3, <3>4, <3>6, <3>7, <3>8 DEF SparesOwn
    <3> QED
      BY <2>1, <3>1, <3>6, <3>9, AloneAgain
  <2> QED
    BY <2>2, <2>3, <2>4
<1>3. CASE SaveConnections(w)
  <2>1. /\ At(w, "save") /\ UNCHANGED <<keyring, persisted, abandoned>>
        /\ \/ UNCHANGED irregular /\ connections' = work[w].draft /\ StepDone(w)
           \/ irregular' /\ Stops(w)
    BY <1>3 DEF SaveConnections, Fault, NoFault, history
  <2>2. CASE irregular' /\ Stops(w)
    BY <2>1, <2>2, StopsAlone
  <2>3. CASE UNCHANGED irregular /\ connections' = work[w].draft /\ StepDone(w)
    BY <2>1, <2>3, DoneAlone
  <2> QED
    BY <2>1, <2>2, <2>3
<1>4. CASE DeletePassword(w)
  <2>1. /\ At(w, "deletePassword") /\ StepDone(w) /\ UNCHANGED <<connections, persisted, abandoned>>
        /\ irregular => irregular'
        /\ ~irregular' => keyring' = keyring \ {<<work[w].name, work[w].drop>>}
    BY <1>4 DEF DeletePassword, Fault, NoFault, history
  <2> QED
    BY <2>1, DoneAlone
<1>5. CASE WizardLoad(w)
  BY <1>5, WizardAlone
<1>6. CASE Window(w)
  <2>1. At(w, "window") /\ UNCHANGED <<connections, keyring, persisted, irregular, abandoned>>
    BY <1>6 DEF Window, NoFault, history
  <2>2. CASE StepDone(w)
    BY <2>1, <2>2, DoneAlone
  <2>3. CASE Stops(w)
    <3> DEFINE k == work[w]
    <3>1. k.todo # <<>> /\ Pending(k.todo, "window")
      BY <2>1, AtJob
    <3>2. /\ \A v \in Workers \ {w} : work[v] = Idle
          /\ ~irregular => Accounted(k, connections, Tracked, persisted)
      BY <3>1, TheOne
    <3>3. ASSUME ~irregular PROVE Accounted(Idle, connections, Tracked, persisted)
      <4>1. /\ \A step \in {"save", "deletePassword", "clear", "load"} : ~Pending(k.todo, step)
            /\ Final(k, connections) = connections
        BY <3>1, <3>2, <3>3 DEF Accounted, Final
      <4>2. /\ \A e \in Tracked : PasswordOf(e, connections)
            /\ \A n \in Names : persisted[n] # None => SessionOf(n, persisted[n], connections)
        BY <3>2, <3>3, <4>1 DEF Accounted
      <4> QED
        BY <4>2, IdleAccounted
    <3>4. UNCHANGED <<connections, Tracked, persisted, irregular>>
      BY <2>1 DEF Tracked
    <3>5. work' = [work EXCEPT ![w] = Idle]
      BY <2>3 DEF Stops
    <3> QED
      BY <3>2, <3>3, <3>4, <3>5, IdleSpares, AloneAgain
  <2> QED
    BY <1>6, <2>2, <2>3 DEF Window
<1>7. CASE Forget(w) \/ Remember(w)
  <2>1. PICK step \in {"forget", "remember"} : At(w, step)
    BY <1>7 DEF Forget, Remember
  <2>2. StepDone(w) /\ UNCHANGED <<connections, keyring, persisted, irregular, abandoned>>
    BY <1>7 DEF Forget, Remember, NoFault, history
  <2> QED
    BY <2>1, <2>2, DoneAlone
<1>8. CASE Persist(w)
  <2>1. /\ At(w, "persist") /\ StepDone(w) /\ UNCHANGED <<connections, keyring, abandoned>>
        /\ irregular => irregular'
        /\ ~irregular' => persisted' = [persisted EXCEPT ![work[w].name] = work[w].conn[1]]
    BY <1>8 DEF Persist, Fault, NoFault, history
  <2>2. ~irregular' => \A n \in Names : persisted'[n] # None =>
          persisted'[n] = persisted[n] \/ (n = work[w].name /\ persisted'[n] = work[w].conn[1])
    BY <2>1 DEF TypeInv
  <2> QED
    BY <2>1, <2>2, DoneAlone
<1>9. CASE LoadSession(w)
  <2>1. /\ At(w, "loadSession") /\ StepDone(w)
        /\ UNCHANGED <<connections, keyring, irregular, abandoned>>
        /\ \/ persisted' = persisted
           \/ persisted' = [persisted EXCEPT ![work[w].name] = None]
    BY <1>9 DEF LoadSession, NoFault, history
  <2>2. \A n \in Names : persisted'[n] # None => persisted'[n] = persisted[n]
    BY <2>1 DEF TypeInv
  <2> QED
    BY <2>1, <2>2, DoneAlone
<1> QED
  BY <1>1, <1>2, <1>3, <1>4, <1>5, <1>6, <1>7, <1>8, <1>9 DEF Step

LEMMA AloneStep == PlainInv /\ TypeInv /\ AloneInv /\ [Next]_vars => AloneInv'
<1> SUFFICES ASSUME PlainInv, TypeInv, AloneInv, [Next]_vars PROVE AloneInv'
  OBVIOUS
<1>1. ASSUME NEW w \in Workers, Command(w) PROVE AloneInv'
  <2>1. PICK k : Begins(w, k) /\ Begun(w, k)
    BY <1>1, CommandBegun DEF TypeInv
  <2>2. ASSUME ~overlapped' PROVE AloneInv'
    <3>1. /\ ~overlapped /\ \A v \in Workers : work[v] = Idle
          /\ work' = [work EXCEPT ![w] = k]
          /\ UNCHANGED <<connections, keyring, persisted, abandoned>>
      BY <2>1, <2>2 DEF Begins
    <3>2. UNCHANGED irregular
      BY <1>1, Zenon DEF Command, AddProfile, SetupWizard, RemoveProfile, ChangeAlias,
         SignIn, TestSignIn, SignOut, MakeClient
    <3>3. ~irregular => Accounted(Idle, connections, Tracked, persisted)
      BY <3>1 DEF AloneInv
    <3>4. SparesOwn(k, connections)
      BY <2>1, BegunSpares DEF TypeInv
    <3>5. ~irregular => Accounted(k, connections, Tracked, persisted)
      BY <2>1, <3>3, BegunAccounted
    <3>6. /\ SparesOwn(k, connections')
          /\ ~irregular' => Accounted(k, connections', Tracked', persisted')
          /\ \A v \in Workers \ {w} : work[v] = Idle
      BY <3>1, <3>2, <3>4, <3>5 DEF Tracked
    <3> QED
      BY <3>1, <3>6, AloneAgain
  <2> QED
    BY <2>2 DEF AloneInv
<1>2. ASSUME NEW w \in Workers, Step(w) PROVE AloneInv'
  <2>1. UNCHANGED overlapped
    BY <1>2, Zenon DEF Step, ClearSession, SetPassword, SaveConnections, DeletePassword, WizardLoad,
       Forget, Window, Remember, Persist, LoadSession, history
  <2> QED
    BY <1>2, <2>1, StepAlone DEF AloneInv
<1>3. ASSUME NEW process, Die(process) PROVE AloneInv'
  <2>1. /\ irregular' /\ UNCHANGED <<connections, overlapped>>
        /\ work' = [w \in Workers |-> IF w \in process THEN Idle ELSE work[w]]
    BY <1>3 DEF Die, Fault, history
  <2>2. ASSUME ~overlapped
        PROVE  \E w \in Workers : /\ \A v \in Workers \ {w} : work'[v] = Idle
                                  /\ SparesOwn(work'[w], connections')
    <3>1. PICK w \in Workers : /\ \A v \in Workers \ {w} : work[v] = Idle
                               /\ SparesOwn(work[w], connections)
      BY <2>2 DEF AloneInv
    <3> QED
      BY <2>1, <3>1, IdleSpares
  <2> QED
    BY <2>1, <2>2 DEF AloneInv
<1>4. CASE UNCHANGED vars
  BY <1>4 DEF vars, AloneInv, Tracked
<1> QED
  BY <1>1, <1>2, <1>3, <1>4 DEF Next

LEMMA AloneInit == Init => AloneInv
<1> SUFFICES ASSUME Init PROVE AloneInv
  OBVIOUS
<1>1. /\ \A v \in Workers : work[v] = Idle
      /\ keyring = {} /\ \A n \in Names : persisted[n] = None
      /\ Main \in Workers
  BY DEF Init, Workers, Desktop
<1>2. Accounted(Idle, connections, Tracked, persisted)
  BY <1>1, IdleAccounted DEF Tracked
<1> QED
  BY <1>1, <1>2, IdleSpares DEF AloneInv

(* Commands that run one at a time and do not fail leave no tracked password *)
(* behind: the keyring holds Basic profiles' own only, beside those under an *)
(* empty user name and those the wizard has abandoned; and it holds sessions *)
(* only of the systems their profiles name.                                  *)
THEOREM CredentialsAccounted == Spec => []CredentialsBelong
<1>1. TypeInv /\ AloneInv => CredentialsBelong
  <2> SUFFICES ASSUME TypeInv, AloneInv, ~overlapped, ~irregular, \A w \in Workers : work[w] = Idle
               PROVE  /\ \A e \in Tracked : /\ Has(e[1]) /\ connections[e[1]].mode = "basic"
                                            /\ connections[e[1]].user = e[2]
                      /\ \A n \in Names : persisted[n] # None =>
                           Has(n) /\ connections[n].target = persisted[n]
    BY DEF CredentialsBelong, AllDone
  <2>1. Accounted(Idle, connections, Tracked, persisted)
    BY DEF AloneInv
  <2>2. /\ \A e \in Tracked : PasswordOf(e, connections)
        /\ \A n \in Names : persisted[n] # None => SessionOf(n, persisted[n], connections)
    BY <2>1, IdleAccounted
  <2> QED
    BY <2>2 DEF PasswordOf, SessionOf, Has
<1> QED
  BY <1>1, TypeInit, AloneInit, PlainStep, TypeStep, AloneStep, PTL DEF Spec

(* What an edit deletes is at that moment no password of the profile. *)
LEMMA KeptStep ==
  ASSUME PlainInv, TypeInv, AloneInv, [Next]_vars, NEW n \in Names,
         Has(n), connections[n].mode = "basic", Reachable(n), ~overlapped,
         connections'[n] = connections[n], \A w \in Workers : work[w].cmd # "remove"
  PROVE  Reachable(n)'
<1> DEFINE own == <<n, connections[n].user>>
<1>1. ASSUME own \in keyring PROVE own \in keyring'
  <2>1. ASSUME NEW w \in Workers, DeletePassword(w) PROVE own \in keyring'
    <3> DEFINE k == work[w]
    <3>1. /\ At(w, "deletePassword")
          /\ keyring' = keyring \/ keyring' = keyring \ {<<k.name, k.drop>>}
      BY <2>1 DEF DeletePassword
    <3>2. /\ k.todo \in Seq(Steps) /\ k.todo # <<>> /\ Head(k.todo) = "deletePassword"
          /\ Pending(k.todo, "deletePassword") /\ k.cmd # "remove"
      BY <3>1, AtJob
    <3>3. /\ ~PasswordOf(<<k.name, k.drop>>, Final(k, connections))
          /\ AtEnd(k.todo, "deletePassword")
      BY <3>2, TheOne DEF SparesOwn
    <3>4. ~Pending(k.todo, "save")
      <4>1. 1 \in DOMAIN k.todo /\ k.todo[1] = "deletePassword"
        BY <3>2
      <4>2. Len(k.todo) = 1
        BY <3>3, <4>1 DEF AtEnd
      <4>3. DOMAIN k.todo = {1}
        BY <3>2, <4>2
      <4> QED
        BY <4>1, <4>3 DEF Pending
    <3>5. ~PasswordOf(<<k.name, k.drop>>, connections)
      BY <3>3, <3>4 DEF Final
    <3>6. own # <<k.name, k.drop>>
      BY <3>5 DEF PasswordOf, Has
    <3> QED
      BY <1>1, <3>1, <3>6
  <2>2. ASSUME NEW w \in Workers, Step(w), ~DeletePassword(w) PROVE keyring \subseteq keyring'
    <3>1. CASE SetPassword(w)
      BY <3>1 DEF SetPassword
    <3>2. CASE ~SetPassword(w)
      <4>1. UNCHANGED keyring
        BY <2>2, <3>2, Zenon DEF Step, ClearSession, SaveConnections, WizardLoad, Forget, Window,
           Remember, Persist, LoadSession
      <4> QED
        BY <4>1
    <3> QED
      BY <3>1, <3>2
  <2>3. ASSUME NEW w \in Workers, Command(w) PROVE keyring' = keyring
    BY <2>3, CommandBegins DEF Begins
  <2>4. ASSUME NEW process, Die(process) PROVE keyring' = keyring
    BY <2>4 DEF Die
  <2>5. CASE UNCHANGED vars
    BY <1>1, <2>5 DEF vars
  <2> QED
    BY <1>1, <2>1, <2>2, <2>3, <2>4, <2>5 DEF Next
<1> QED
  BY <1>1 DEF Reachable

(* A password leaves the keyring by an edit only when its profile has        *)
(* another user by then: as long as commands do not overlap, an edit that    *)
(* fails half-way or dies loses no password that is still needed.  A removal *)
(* that fails does: it deletes the password before it saves.                 *)
THEOREM PasswordsKept == Spec => PasswordsStayReachable
<1> DEFINE Kept == \A n \in Names :
       (/\ Has(n) /\ connections[n].mode = "basic" /\ Reachable(n) /\ ~overlapped
        /\ connections'[n] = connections[n]
        /\ \A w \in Workers : work[w].cmd # "remove")
       => Reachable(n)'
<1>1. PlainInv /\ TypeInv /\ AloneInv /\ [Next]_vars => [Kept]_vars
  BY KeptStep
<1> QED
  BY <1>1, TypeInit, AloneInit, PlainStep, TypeStep, AloneStep, PTL
     DEF Spec, PasswordsStayReachable
=============================================================================
