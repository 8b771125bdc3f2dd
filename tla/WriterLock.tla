----------------------------- MODULE WriterLock -----------------------------
(***************************************************************************)
(* The lock around connections.toml, as its users count on it: at most one *)
(* of them is inside, and a lock file that a holder left behind, by dying  *)
(* or because the removal on Drop failed, keeps everybody out until it is  *)
(* reclaimed.  SaveLock implements it while no waiter races, and the       *)
(* transactions of OfflineLibrary take it.                                 *)
(***************************************************************************)
CONSTANT Users

VARIABLES
  lock,    \* the lock file: "absent", "held", "abandoned"
  holders  \* who is inside

Init == lock = "absent" /\ holders = {}

Enter(u) == lock = "absent" /\ holders = {} /\ lock' = "held" /\ holders' = {u}

\* Drop, or the end of the holder's process.
Leave(u) == lock = "held" /\ holders = {u} /\ lock' \in {"absent", "abandoned"} /\ holders' = {}

Reclaim == lock = "abandoned" /\ holders = {} /\ lock' = "absent" /\ UNCHANGED holders

Next == Reclaim \/ \E u \in Users : Enter(u) \/ Leave(u)

Spec == Init /\ [][Next]_<<lock, holders>>
=============================================================================
