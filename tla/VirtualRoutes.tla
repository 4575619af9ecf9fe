----------------------------- MODULE VirtualRoutes -----------------------------
(***************************************************************************)
(* The tables that give the ids of a child's frames and variables numbers   *)
(* no other process uses.  A key is what the engine calls a thing: process, *)
(* thread and number.  Both managers keep one table per kind of id; each    *)
(* method runs under the manager's lock.                                    *)
(***************************************************************************)
EXTENDS Integers, Functions

NewTable(start) == [keys |-> <<>>, routes |-> <<>>, next |-> start]

\* The id of key once it is in the table, old or new.
IdFor(table, key) == IF key \in DOMAIN table.keys THEN table.keys[key] ELSE table.next

Extended(f, x, value) ==
    [y \in DOMAIN f \cup {x} |-> IF y = x THEN value ELSE f[y]]

Allocated(table, key) ==
    IF key \in DOMAIN table.keys
    THEN table
    ELSE [keys   |-> Extended(table.keys, key, table.next),
          routes |-> Extended(table.routes, table.next, key),
          next   |-> table.next + 1]

\* The two dictionaries are filtered one after the other, by their own contents.
\* MUTANT: the keys stay.
WithoutRoutesOnly(table, gone) ==
    [table EXCEPT !.routes = Restrict(@, {id \in DOMAIN @ : @[id] \notin gone})]

\* MUTANT: the numbers are given out again.
WithoutRenumbered(table, gone) ==
    [keys   |-> Restrict(table.keys, DOMAIN table.keys \ gone),
     routes |-> Restrict(table.routes, {id \in DOMAIN table.routes : table.routes[id] \notin gone}),
     next   |-> 1]

Without(table, gone) ==
    [table EXCEPT !.keys = Restrict(@, DOMAIN @ \ gone),
                  !.routes = Restrict(@, {id \in DOMAIN @ : @[id] \notin gone})]

WithoutProcess(table, p) ==
    Without(table, {key \in DOMAIN table.keys : key.process = p})

WithoutThread(table, p, t) ==
    Without(table, {key \in DOMAIN table.keys : key.process = p /\ key.thread = t})

\* The table of some of these keys.
IsTable(table, keys) ==
    /\ table \in [keys : {table.keys}, routes : {table.routes}, next : Nat]
    /\ DOMAIN table.keys \subseteq keys /\ DOMAIN table.routes \subseteq Nat
    /\ table.keys \in [DOMAIN table.keys -> DOMAIN table.routes]
    /\ table.routes \in [DOMAIN table.routes -> DOMAIN table.keys]

\* Every id leads to the key it was given for, and none is ahead of the counter.
Agrees(table) ==
    /\ \A key \in DOMAIN table.keys :
           /\ table.keys[key] \in DOMAIN table.routes
           /\ table.routes[table.keys[key]] = key
    /\ \A id \in DOMAIN table.routes :
           /\ table.routes[id] \in DOMAIN table.keys
           /\ table.keys[table.routes[id]] = id
           /\ id < table.next
================================================================================
