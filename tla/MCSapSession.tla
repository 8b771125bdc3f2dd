---------------------------- MODULE MCSapSession ----------------------------
(* Constants for TLC. *)
EXTENDS SapSession, TLC

CONSTANTS a, u1, u2

V2Entry(u) == [name |-> a, v4 |-> FALSE, url |-> u]
V4Entry(u) == [name |-> a, v4 |-> TRUE, url |-> u]
MCRegisteredSets == {Paths, Paths \ {"V4Catalog", "Metadata"}}
MCCatalogs ==
  {<< <<V2Entry(NoUrl), V2Entry(u1)>>, <<V4Entry(u2)>> >>,
   << <<V2Entry(NoUrl)>>, <<V4Entry(NoUrl), V4Entry(u2)>> >>}
=============================================================================
