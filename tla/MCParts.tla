------------------------------ MODULE MCParts ------------------------------
(* Parts that share no state, side by side: the bots' cooldowns, the lists of  *)
(* auctions, the seller's forms and the alerts. Each behaviour picks one and   *)
(* leaves the others where they start.                                         *)
EXTENDS BotCooldown, Catalog, Listing, Alerts, TLC

VARIABLE part

MCWindow == [ending |-> 2, activity |-> 1, overtaken |-> 0]
MCQueries ==
  {[sort |-> "newest", among |-> Rows], [sort |-> "ending_soon", among |-> {1, 2}]}
Symmetry == Permutations(Bots) \cup Permutations(Attempts)

allVars == <<botVars, catalogVars, listingVars, alertVars, part>>

(* Lists nobody reads have one initial state.                                  *)
Untouched ==
  part # "lists" => /\ \A r \in Rows : row[r].price = 1 /\ (row[r].on <=> r # 3)
                    /\ query.sort = "newest"

Init ==
  /\ part \in {"bots", "lists", "forms", "alerts"}
  /\ BotInit /\ CatalogInit /\ ListingInit /\ AlertsInit
  /\ Untouched

Next ==
  /\ UNCHANGED part
  /\ \/ part = "bots" /\ BotNext /\ UNCHANGED <<catalogVars, listingVars, alertVars>>
     \/ part = "lists" /\ CatalogNext /\ UNCHANGED <<botVars, listingVars, alertVars>>
     \/ part = "forms" /\ ListingNext /\ UNCHANGED <<botVars, catalogVars, alertVars>>
     \/ part = "alerts" /\ AlertsNext /\ UNCHANGED <<botVars, catalogVars, listingVars>>

Spec == Init /\ [][Next]_allVars
=============================================================================
