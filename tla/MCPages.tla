------------------------------ MODULE MCPages ------------------------------
(* One page at a time: the bell, the main page, buying and paying. They share  *)
(* no state, so each behaviour picks one and leaves the others where they      *)
(* start, where nothing that is fair can happen to them.                       *)
EXTENDS Bell, MainPage, Checkout

VARIABLE page

allVars == <<bellVars, mainPageVars, checkoutVars, page>>

(* A main page nobody is on has one initial state.                             *)
Untouched == page # "main" => wished = {} /\ ~here /\ crossed = FALSE

Init ==
  /\ page \in {"bell", "main", "checkout"}
  /\ BellInit /\ MainPageInit /\ CheckoutInit
  /\ Untouched

Next ==
  /\ UNCHANGED page
  /\ \/ page = "bell" /\ BellNext /\ UNCHANGED <<mainPageVars, checkoutVars>>
     \/ page = "main" /\ MainPageNext /\ UNCHANGED <<bellVars, checkoutVars>>
     \/ page = "checkout" /\ CheckoutNext /\ UNCHANGED <<bellVars, mainPageVars>>

Spec == Init /\ [][Next]_allVars /\ BellFairness /\ MainPageFairness /\ CheckoutFairness
=============================================================================
