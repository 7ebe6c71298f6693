-------------------------------- MODULE Ledger --------------------------------
(***************************************************************************)
(* The transaction ledger that the payments service owns: the status      *)
(* machine of internal/services/payments/domain/transaction.go and the two *)
(* write operations of internal/services/payments/repository.  A row keeps *)
(* its status, the reason given for it and the provider's reference; user, *)
(* amount and type never change and are constants of the transaction.      *)
(*                                                                         *)
(* Each operator is one database transaction on a locked row, so callers   *)
(* use it as one atomic step.                                              *)
(***************************************************************************)

LedgerStatuses ==
  { "pending", "completed", "failed", "timed_out", "compensated",
    "reconciliation_required" }

Reasons == { "none", "rejected", "expired", "owned" }

ProviderRefs == { "none", "sim" }

LedgerRows ==
  [status : LedgerStatuses \cup { "absent" }, reason : Reasons,
   ref : ProviderRefs]

NoRow == [status |-> "absent", reason |-> "none", ref |-> "none"]

(* Mutant: a timeout is accepted whatever happened before.                *)
LegalOrTimeout(from, to) ==
  \/ from \in { "pending", "timed_out" } /\ to # "pending"
  \/ to = "timed_out"

LegalTransition(from, to) ==
  \/ /\ from = "pending"
     /\ to \in { "completed", "failed", "timed_out", "compensated",
                 "reconciliation_required" }
  \/ /\ from = "timed_out"
     /\ to \in { "completed", "failed", "reconciliation_required" }

(* POST /internal/transactions inserts a pending row, 409 if it is there. *)
Registered(row) ==
  IF row.status = "absent" THEN [row EXCEPT !.status = "pending"] ELSE row

(***************************************************************************)
(* PATCH /internal/transactions/{id}/status.  A request that keeps the     *)
(* status is always accepted; a request that changes it must be a legal    *)
(* transition, otherwise the service answers 409.                          *)
(***************************************************************************)
AcceptsStatus(row, status) ==
  /\ row.status # "absent"
  /\ status = row.status \/ LegalTransition(row.status, status)

(* Mutant: the reference is replaced by nil too.                          *)
WithStatusAndRef(row, status, reason, ref) ==
  [status |-> status, reason |-> reason, ref |-> ref]

(* The reason is replaced, by nil too; a nil reference keeps the old one. *)
WithStatus(row, status, reason, ref) ==
  [status |-> status,
   reason |-> reason,
   ref |-> IF ref = "none" THEN row.ref ELSE ref]
===============================================================================
