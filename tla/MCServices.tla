------------------------------ MODULE MCServices ------------------------------
(***************************************************************************)
(* Small instances for TLC of what the services do on their own: the       *)
(* wallets, catalog-access and the listing of payments.  They share no     *)
(* state, so a behaviour exercises one of them.                            *)
(***************************************************************************)
EXTENDS Wallets, CatalogAccess, TransactionPages

CONSTANTS
  t1, t2, t3, t4, r1, r2, r3, alice, bob, carol, book, song

VARIABLE exercised

(* Two users with a wallet and one without; two transactions of one user.  *)
MCUserOf ==
  [t \in { t1, t2, t3, t4 } |->
     CASE t \in { t1, t2 } -> alice [] t = t3 -> bob [] t = t4 -> carol]

MCAmountOf ==
  [t \in { t1, t2, t3, t4 } |-> CASE t = t1 -> 2 [] t # t1 -> 1]

MCOpening == [u \in { alice, bob } |-> IF u = alice THEN 1 ELSE 0]

(* As purchases they compete for one offering, and three are refunded.     *)
MCOfferingOf ==
  [t \in { t1, t2, t3, t4 } |-> IF t = t4 THEN song ELSE book]

MCOriginalOf ==
  [r \in { r1, r2, r3 } |-> CASE r = r1 -> t1 [] r = r2 -> t2 [] r = r3 -> t3]

MCInit ==
  /\ exercised \in { "wallets", "catalog-access", "payments" }
  /\ Init
  /\ CatalogInit
  /\ PagesInit

MCNext ==
  /\ UNCHANGED exercised
  /\ \/ /\ exercised = "wallets"
        /\ Next
        /\ UNCHANGED << access, pagesVars >>
     \/ /\ exercised = "catalog-access"
        /\ CatalogNext
        /\ UNCHANGED << vars, pagesVars >>
     \/ /\ exercised = "payments"
        /\ PagesNext
        /\ UNCHANGED << vars, access >>

MCSpec == MCInit /\ [][MCNext]_<< vars, access, pagesVars, exercised >>
===============================================================================
