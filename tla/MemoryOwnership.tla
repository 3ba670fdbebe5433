--------------------------- MODULE MemoryOwnership ---------------------------
(***************************************************************************)
(* What the physical memory manager promises about the pages of one GPU,   *)
(* without chunks, lists, locks or eviction: a root chunk belongs to PMA,  *)
(* to UVM or to RM, and a page that UVM has is used by at most one client. *)
(*                                                                         *)
(* UvmPmm implements this specification (UvmPmm!Ownership): whatever the   *)
(* interleaving of allocations, frees, evictions and PMA callbacks, memory *)
(* leaves UVM only when no client has data in it, RM gets only memory that *)
(* PMA or UVM gave up, and no page is given to two clients.                *)
(***************************************************************************)
EXTENDS Naturals

CONSTANTS
  Root,     \* the root chunks (2M of physical memory each)
  Page,     \* pairs <<r, i>>: the pages of root chunk r
  Client    \* VA blocks and kernel allocations

VARIABLES
  owner,    \* owner[r]: who owns the root chunk
  users     \* users[g]: the clients with data in page g

Owners == {"pma", "uvm", "rm"}

Init ==
  /\ owner = [r \in Root |-> "pma"]
  /\ users = [g \in Page |-> {}]

give(S, who) == owner' = [r \in Root |-> IF r \in S THEN who ELSE owner[r]]

unused(S) == \A g \in Page : g[1] \in S => users[g] = {}

(* UVM gets memory from PMA, in batches.                                   *)
Grow(S) ==
  /\ \A r \in S : owner[r] = "pma"
  /\ give(S, "uvm")
  /\ UNCHANGED users

(* UVM gives a root chunk to PMA, or to RM, once nobody uses it.           *)
Shrink(r, who) ==
  /\ owner[r] = "uvm"
  /\ unused({r})
  /\ give({r}, who)
  /\ UNCHANGED users

(* PMA gives RM memory it owns, and gets it back.                          *)
RmTakes(S) ==
  /\ \A r \in S : owner[r] = "pma"
  /\ give(S, "rm")
  /\ UNCHANGED users

RmReturns(S) ==
  /\ \A r \in S : owner[r] = "rm"
  /\ give(S, "pma")
  /\ UNCHANGED users

(* A client gets pages of one root chunk that nobody uses.                 *)
Take(k, r, S) ==
  /\ owner[r] = "uvm"
  /\ \A g \in S : g[1] = r /\ users[g] = {}
  /\ users' = [g \in Page |-> IF g \in S THEN {k} ELSE users[g]]
  /\ UNCHANGED owner

(* A client frees pages of a root chunk, or they are evicted.              *)
Drop(k, S) ==
  /\ \A g \in S : users[g] = {k}
  /\ users' = [g \in Page |-> IF g \in S THEN {} ELSE users[g]]
  /\ UNCHANGED owner

Next ==
  \/ \E S \in SUBSET Root : Grow(S) \/ RmTakes(S) \/ RmReturns(S)
  \/ \E r \in Root, who \in {"pma", "rm"} : Shrink(r, who)
  \/ \E k \in Client, r \in Root :
       \E S \in SUBSET {g \in Page : g[1] = r} : Take(k, r, S) \/ Drop(k, S)

Spec == Init /\ [][Next]_<<owner, users>>
==============================================================================
