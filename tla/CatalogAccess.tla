----------------------------- MODULE CatalogAccess -----------------------------
(***************************************************************************)
(* The catalog-access service: internal/services/catalogaccess.  It keeps  *)
(* an access record for each purchase that was granted, at most one per    *)
(* transaction and at most one active per user and offering (two unique    *)
(* indexes), answers the eligibility checks over HTTP and handles grant    *)
(* and revoke commands, one at a time.                                     *)
(*                                                                         *)
(* As in module Wallets an action holds of the outcome the handler         *)
(* publishes.  The database statements of one command are one step: the    *)
(* consumer is serial and the HTTP handlers only read.                     *)
(***************************************************************************)
EXTENDS Transactions, FiniteSets

CONSTANTS
  OfferingOf,  \* the offering a purchase or refund is about
  OriginalOf   \* the purchase that a refund names

VARIABLE access  \* access_records.status, by the purchase's transaction

AccessStatuses == { "none", "active", "revoked" }

CatalogInit == access = [t \in Txn |-> "none"]

(* GetActiveAccess: active records of the transaction's user and offering.*)
ActiveFor(t) ==
  { p \in Txn : /\ access[p] = "active"
                /\ UserOf[p] = UserOf[t]
                /\ OfferingOf[p] = OfferingOf[t] }

PurchaseAllowed(t) == ActiveFor(t) = {}

(* RefundPrecheck, and the checks of startrefund on the original purchase.*)
RefundAllowed(t) == OriginalOf[t] \in ActiveFor(t)

(* Mutant: the index on the active record is missing.                     *)
GrantedBesideAnother(t) ==
  \/ /\ access[t] = "none"
     /\ access' = [access EXCEPT ![t] = "active"]
  \/ /\ access[t] # "none"
     /\ UNCHANGED access

(* Mutant: a grant looks for an active record of the purchase only.       *)
GrantedAnew(t) ==
  /\ access[t] # "active" => ActiveFor(t) = {}
  /\ access' = [access EXCEPT ![t] = "active"]

(* The insert succeeds, or hits the index on the transaction.             *)
Granted(t) ==
  \/ /\ access[t] = "none"
     /\ ActiveFor(t) = {}
     /\ access' = [access EXCEPT ![t] = "active"]
  \/ /\ access[t] # "none"
     /\ UNCHANGED access

(* Mutant: a repeated grant is taken for a conflict.                      *)
GrantConflictedOnRepeat(t) ==
  /\ ActiveFor(t) # {}
  /\ UNCHANGED access

(* The insert hits the index on the active record: another purchase's.    *)
GrantConflicted(t) ==
  /\ access[t] = "none"
  /\ ActiveFor(t) # {}
  /\ UNCHANGED access

(* Mutant: the refund's own id is used to find the record.                *)
RevokedByRefundId(t) ==
  /\ access[OriginalOf[t]] # "none"
  /\ access' = [access EXCEPT ![t] = "revoked"]

(* A revocation that finds the record revoked answers as if it had done it.*)
Revoked(t) ==
  /\ access[OriginalOf[t]] # "none"
  /\ access' = [access EXCEPT ![OriginalOf[t]] = "revoked"]

RevokeRejected(t) ==
  /\ access[OriginalOf[t]] = "none"
  /\ UNCHANGED access

CatalogHandle(msg, answer) ==
  \/ /\ msg.key = "access.grant.requested"
     /\ \/ answer = "access.granted" /\ Granted(msg.txn)
        \/ answer = "access.grant.conflicted" /\ GrantConflicted(msg.txn)
  \/ /\ msg.key = "access.revoke.requested"
     /\ \/ answer = "access.revoked" /\ Revoked(msg.txn)
        \/ answer = "access.revoke.rejected" /\ RevokeRejected(msg.txn)

------------------------------------------------------------------------------
(* The service on its own, under every sequence of commands.              *)

CatalogNext ==
  \/ \E t \in Txn : Granted(t) \/ GrantConflicted(t)
  \/ \E t \in DOMAIN OriginalOf : Revoked(t) \/ RevokeRejected(t)

CatalogSpec == CatalogInit /\ [][CatalogNext]_access

------------------------------------------------------------------------------
(* Properties.                                                            *)

(* A purchase has at most one access record, with one of the statuses.    *)
AccessTypeOK == access \in [Txn -> AccessStatuses]

(***************************************************************************)
(* GetActiveAccess finds at most one record: no sequence of grants,        *)
(* repetitions and revocations leaves a user with two active records of an *)
(* offering, of which a refund would end only one.                         *)
(***************************************************************************)
OneActiveAccess ==
  \A p, q \in Txn :
    /\ access[p] = "active"
    /\ q \in ActiveFor(p)
    => p = q

(***************************************************************************)
(* What was refunded is not given back: a grant that is delivered again    *)
(* after the revocation is answered "granted" and changes nothing.         *)
(***************************************************************************)
RevokedStaysRevoked ==
  [][\A p \in Txn : access[p] = "revoked" => access'[p] = "revoked"]_access
===============================================================================
