------------------------------ MODULE Registry ------------------------------
(***************************************************************************)
(* The proxy's backend registry (internal/proxy/registry.go), as operators *)
(* on the value of its map.  A store is a function from the registered     *)
(* backend ids to records                                                  *)
(*   addr      where new connections are dialled,                          *)
(*   draining  the Draining flag: once set nothing ever resets it,         *)
(*   requests  the pointer to the heap counter that Add allocates.         *)
(* Each method holds the registry's mutex for its whole body, so a method  *)
(* is one operator here and part of one atomic step of its callers.  The   *)
(* methods that return an error leave the store as it is; a caller that    *)
(* looks at the error asks  id \in DOMAIN store.                           *)
(***************************************************************************)

NewRegistry == [id \in {} |-> {}]

Add(store, id, addr, counter) ==
    IF id \in DOMAIN store
    THEN store
    ELSE [i \in DOMAIN store \cup {id} |->
            IF i = id
            THEN [addr |-> addr, draining |-> FALSE, requests |-> counter]
            ELSE store[i]]

Remove(store, id) == [i \in DOMAIN store \ {id} |-> store[i]]

SetDraining(store, id) ==
    [i \in DOMAIN store |->
        IF i = id THEN [store[i] EXCEPT !.draining = TRUE] ELSE store[i]]

\* The ids of the backends that the round robin chooses from.
Active(store) == {i \in DOMAIN store : ~store[i].draining}
=============================================================================
