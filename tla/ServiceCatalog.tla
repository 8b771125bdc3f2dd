--------------------------- MODULE ServiceCatalog ---------------------------
(***************************************************************************)
(* The two catalogs of a SAP Gateway, as crates/core/src/catalog.rs reads  *)
(* them: the list of services that is shown, and the path that a service   *)
(* name stands for.  An entry has a name (lower case), the version of its  *)
(* catalog and a URL, NoUrl where the catalog gives none.                  *)
(***************************************************************************)
EXTENDS Naturals, Sequences, FiniteSets

CONSTANTS ServiceNames, Urls, NoUrl

ASSUME UrlAssumption == NoUrl \notin Urls

Entries == [name : ServiceNames, v4 : BOOLEAN, url : Urls \cup {NoUrl}]

HasUrl(e) == e.url # NoUrl

(* The elements of s at the positions in I, in order. *)
InOrder(s, I) ==
  LET place(i) == Cardinality({j \in I : j <= i})
  IN  [n \in 1..Cardinality(I) |-> s[CHOOSE i \in I : place(i) = n]]

WithUrl(s) == {i \in DOMAIN s : HasUrl(s[i])}

(* Entries that have no earlier one under the same name and version. *)
Key(e) == <<e.name, e.v4>>
FirstOfKey(s) ==
  InOrder(s, {i \in DOMAIN s : \A j \in 1..(i - 1) : Key(s[j]) # Key(s[i])})

\* Mutant: the first entry wins, with or without a URL.
DeduplicatedFirst(entries) == FirstOfKey(entries)

(* The list that is shown: entries with a URL come first. *)
Deduplicated(entries) ==
  FirstOfKey(InOrder(entries, WithUrl(entries))
             \o InOrder(entries, DOMAIN entries \ WithUrl(entries)))

Named(entries, name) == InOrder(entries, {i \in DOMAIN entries : entries[i].name = name})

(* The V2 catalog answers for a name only with a URL. *)
Usable(entries, name) == InOrder(entries, {i \in WithUrl(entries) : entries[i].name = name})
=============================================================================
