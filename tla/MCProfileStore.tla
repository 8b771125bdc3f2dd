--------------------------- MODULE MCProfileStore ---------------------------
(* Constants for TLC. *)
EXTENDS ProfileStore

CONSTANTS dev, cli, t1, t2, en, de, u1, u2, blank

Form(t, l, m, u, pw, plain) ==
  [target |-> t, lang |-> l, mode |-> m, user |-> u, password |-> pw, plaintext |-> plain]
MCForms ==
  {Form(t1, en, "basic", u1, TRUE, FALSE), Form(t1, en, "basic", u1, TRUE, TRUE),
   Form(t1, en, "basic", u2, FALSE, FALSE), Form(t1, en, "basic", blank, TRUE, FALSE), Form(t2, en, "basic", blank, FALSE, FALSE),
   Form(t1, en, "sso", u1, FALSE, FALSE),
   Form(t1, en, "browser", u1, FALSE, FALSE), Form(t2, de, "browser", blank, FALSE, FALSE)}
=============================================================================
