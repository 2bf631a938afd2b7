----------------------------- MODULE MCLastStore -----------------------------
(***************************************************************************)
(* SharedStorage with an observer of the values that windows stored last;  *)
(* the main process stores nothing of its own.                             *)
(***************************************************************************)
EXTENDS SharedStorage

VARIABLE stored  \* the value each key was last given by store or remove

Observed ==
  \/ \E w \in Window, k \in Key, v \in Value \cup {Absent} :
       WindowStores(w, k, v) /\ stored' = [stored EXCEPT ![k] = v]
  \/ Step /\ UNCHANGED stored

ObservedSpec == Init /\ stored = NoItems /\ [][Observed]_<<vars, stored>>

\* What a window has stored last is what its storage holds when nothing is
\* pending or under way, as IStorageService.store promises: "Store a value
\* under the given key to storage" (platform/storage/common/storage.ts).
\* With a single window nobody else has changed it since.
LastStoreWins ==
  \A w \in Window :
    /\ life[w] = "open" /\ mainLife = "up"
    /\ ~HasPending(window[w]) /\ ~Flushing(window[w])
    /\ toWindow[w] = <<>> /\ changed = {}
    => window[w].cache = stored
=============================================================================
