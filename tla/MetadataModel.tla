--------------------------- MODULE MetadataModel ---------------------------
(***************************************************************************)
(* What crates/core/src/metadata makes of a $metadata document: entity     *)
(* types with properties, keys and navigation properties, entity sets, and *)
(* the values that inline sap:* attributes and vocabulary annotations give *)
(* to a type, a property or a set.  A value is a sequence of entries:      *)
(* empty is None, and only a list-valued term ever holds more than one.    *)
(***************************************************************************)
EXTENDS Naturals, Sequences, FiniteSets

CONSTANTS
  Types,            \* the entity types of the document
  Base,             \* BaseType: a function from derived types to types
  OwnProps, OwnNavs, OwnKeys,  \* what each type declares itself
  Sets, SetType,    \* the entity sets, and the type of each
  NavOf             \* the first segment of each path that has several

ASSUME ModelAssumption ==
  /\ IsFiniteSet(Types)
  /\ DOMAIN Base \subseteq Types /\ SetType \in [Sets -> Types]
  /\ DOMAIN OwnProps = Types /\ DOMAIN OwnNavs = Types
  /\ \A t \in Types : OwnKeys[t] \subseteq OwnProps[t]

(* A place is <<type>>, <<type, property>> or <<"set", set>>; a slot is a  *)
(* place with a term, or with the property an attribute sets.              *)
Entry(q, paths, mark) == [q |-> q, paths |-> paths, mark |-> mark]

NoModel == [types |-> {}, sets |-> {}, props |-> <<>>, navs |-> <<>>, keys |-> <<>>,
            vals |-> <<>>]

Value(m, place, term) ==
  IF <<place, term>> \in DOMAIN m.vals THEN m.vals[<<place, term>>] ELSE <<>>
(* New values in front of old ones. *)
Over(f, g) == [x \in DOMAIN f \cup DOMAIN g |-> IF x \in DOMAIN f THEN f[x] ELSE g[x]]
Overlaid(m, f) == [m EXCEPT !.vals = Over(f, @)]
With(m, place, term, v) == Overlaid(m, [s \in {<<place, term>>} |-> v])

Given(m, place, term) == Value(m, place, term) # <<>>
Says(m, place, term, mark) == \E i \in DOMAIN Value(m, place, term) :
                                 Value(m, place, term)[i].mark = mark
(* The paths a value names. *)
Named(m, place, term) ==
  UNION {Value(m, place, term)[i].paths : i \in DOMAIN Value(m, place, term)}

(* Pass 1: the model of every schema, with the inline sap:* attributes.    *)
ParsedModel(inline) ==
  [types |-> Types, sets |-> Sets, props |-> OwnProps, navs |-> OwnNavs,
   keys |-> OwnKeys, vals |-> inline]

FindEntityType(m, t) == {t} \cap m.types
EntityTypeForSet(m, s) == {SetType[x] : x \in {s} \cap m.sets} \cap m.types

-----------------------------------------------------------------------------
(* Inheritance. *)

(* The base types of a type, nearest first; a cycle stops the walk, and so *)
(* does a base type that the document does not have.                       *)
Lengthened(t, c) ==
  LET last == IF c = <<>> THEN t ELSE c[Len(c)]
  IN  IF last \in DOMAIN Base /\ Base[last] \in Types \ {c[i] : i \in DOMAIN c}
      THEN Append(c, Base[last]) ELSE c
Chain(t) ==
  LET walk[n \in 0..Cardinality(Types)] == IF n = 0 THEN <<>> ELSE Lengthened(t, walk[n - 1])
  IN  walk[Cardinality(Types)]
Ancestors(t) == {Chain(t)[i] : i \in DOMAIN Chain(t)}

(* The type whose declaration of a property counts: the farthest ancestor. *)
Owner(m, t, p) ==
  LET declaring == {i \in DOMAIN Chain(t) : p \in m.props[Chain(t)[i]]}
  IN  IF declaring = {} THEN t
      ELSE Chain(t)[CHOOSE i \in declaring : \A j \in declaring : j <= i]

Inherited(m, part, t) == m[part][t] \cup UNION {m[part][a] : a \in Ancestors(t)}

InheritedKeys(m, t) ==
  LET keyed == {i \in DOMAIN Chain(t) : m.keys[Chain(t)[i]] # {}}
  IN  IF m.keys[t] # {} \/ keyed = {} THEN m.keys[t]
      ELSE m.keys[Chain(t)[CHOOSE i \in keyed : \A j \in keyed : i <= j]]

(* Valid metadata: no type is below itself, none declares what it inherits. *)
Acyclic == \E depth \in [Types -> 0..Cardinality(Types)] :
             \A t \in DOMAIN Base : Base[t] \in Types => depth[Base[t]] < depth[t]
NoneRedeclared == \A t \in Types : \A b \in Ancestors(t) : OwnProps[t] \cap OwnProps[b] = {}

PropertyPlaces == UNION {{<<t, p>> : p \in OwnProps[t]} : t \in Types}
IsPropertySlot(s) == s[1][1] \in Types /\ Len(s[1]) = 2

(* The slots a property slot becomes: one for each type that has the      *)
(* property from this owner.                                               *)
HeirSlots(m, s) ==
  {<< <<t, s[1][2]>>, s[2]>> :
     t \in {u \in Types : s[1][2] \in Inherited(m, "props", u)
                          /\ Owner(m, u, s[1][2]) = s[1][1]}}
OwnSlot(m, s) == IF IsPropertySlot(s) THEN << <<Owner(m, s[1][1], s[1][2]), s[1][2]>>, s[2]>>
                 ELSE s

\* Mutant: a derived type gets the names of its base's properties only.
ApplyBaseTypesBare(m) ==
  [m EXCEPT !.props = [t \in Types |-> Inherited(m, "props", t)],
            !.navs = [t \in Types |-> Inherited(m, "navs", t)],
            !.keys = [t \in Types |-> InheritedKeys(m, t)]]

(* A derived type gets the properties of its ancestors with everything    *)
(* that was said of them, their navigation properties, and the nearest     *)
(* keys if it has none.                                                    *)
ApplyBaseTypes(m) ==
  LET slots == UNION {IF IsPropertySlot(s) THEN HeirSlots(m, s) ELSE {s} : s \in DOMAIN m.vals}
  IN  [ApplyBaseTypesBare(m) EXCEPT !.vals = [s \in slots |-> m.vals[OwnSlot(m, s)]]]
=============================================================================
