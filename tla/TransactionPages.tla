--------------------------- MODULE TransactionPages ---------------------------
(***************************************************************************)
(* GET /transactions of the payments service: a client reads one user's    *)
(* transactions page by page, newest first, each page continued by the     *)
(* cursor of the one before, while other transactions are registered.      *)
(*                                                                         *)
(* Of a row the model keeps what it is ordered by.  created_at is the time *)
(* at which the inserting database transaction began; it may commit late,  *)
(* so a new row may have any time, and two rows may have the same.  No     *)
(* code deletes a row or writes created_at later.                          *)
(***************************************************************************)
EXTENDS Naturals, SequencesExt

CONSTANTS
  Ids,               \* transaction ids, in the order in which they sort
  Times,             \* the values of created_at
  DefaultPageLimit,  \* 50 in production
  MaxPageLimit,      \* 100 in production
  AskedLimits,       \* what clients ask for; 0 is a request without a limit
  FromTheTop,        \* no cursor yet: the first page is next
  NoMore             \* next_cursor is null: there are no more pages

Rows == [created_at : Times, id : Ids]

ASSUME PagesAssumption ==
  /\ Ids \subseteq Nat
  /\ Times \subseteq Nat
  /\ AskedLimits \subseteq Nat
  /\ { DefaultPageLimit, MaxPageLimit } \subseteq Nat \ { 0 }
  /\ FromTheTop # NoMore
  /\ { FromTheTop, NoMore } \cap Rows = {}

VARIABLES
  rows,       \* payments.transactions of the user
  cursor,     \* what the client sends with its next request
  collected,  \* the pages of the listing, put together
  snapshot    \* history: the transactions there were when it began

pagesVars == << rows, cursor, collected, snapshot >>

PagesInit ==
  /\ rows = {}
  /\ cursor = NoMore
  /\ collected = << >>
  /\ snapshot = {}

------------------------------------------------------------------------------
(* The query.                                                             *)

(* ORDER BY created_at DESC, id DESC.                                     *)
Newer(r, s) ==
  \/ r.created_at > s.created_at
  \/ r.created_at = s.created_at /\ r.id > s.id

(* Mutant: the cursor is a time only.                                     *)
AfterTime(c) ==
  IF c = FromTheTop THEN rows
  ELSE { r \in rows : r.created_at < c.created_at }

(* Mutant: the page starts with the row of the cursor.                    *)
AfterOrAt(c) ==
  IF c = FromTheTop THEN rows ELSE { r \in rows : ~ Newer(r, c) }

(* The rows that follow the cursor.                                       *)
After(c) ==
  IF c = FromTheTop THEN rows ELSE { r \in rows : Newer(c, r) }

(* The handler and the repository keep the limit within its bounds.       *)
PageLimit(asked) ==
  CASE asked = 0 -> DefaultPageLimit
    [] asked > MaxPageLimit -> MaxPageLimit
    [] OTHER -> asked

(***************************************************************************)
(* ORDER BY and LIMIT n: the result descends, and a row that it leaves out *)
(* comes after all n of them.                                              *)
(***************************************************************************)
FirstRows(S, n) ==
  { result \in UNION { [1..k -> S] : k \in 0..n } :
      /\ \A i, j \in DOMAIN result : i < j => Newer(result[i], result[j])
      /\ \A s \in S \ Range(result) :
           /\ Len(result) = n
           /\ \A i \in DOMAIN result : Newer(result[i], s) }

(* One row more than the page is fetched, to know whether there are more. *)
Fetch(c, limit) == FirstRows(After(c), limit + 1)

------------------------------------------------------------------------------
(* CreateTransaction; the id is the primary key.                          *)
Register(r) ==
  /\ \A s \in rows : s.id # r.id
  /\ rows' = rows \cup { r }
  /\ UNCHANGED << cursor, collected, snapshot >>

(* A client begins a listing; it may leave another unfinished.            *)
BeginListing ==
  /\ cursor' = FromTheTop
  /\ collected' = << >>
  /\ snapshot' = rows
  /\ UNCHANGED rows

(***************************************************************************)
(* A request with the cursor of the last response, and perhaps another     *)
(* limit.  A response that is lost is as none.                             *)
(***************************************************************************)
NextPage(asked) ==
  /\ cursor # NoMore
  /\ \E fetched \in Fetch(cursor, PageLimit(asked)) :
       LET has_more == Len(fetched) > PageLimit(asked)
           page == IF has_more THEN Front(fetched) ELSE fetched
       IN /\ collected' = collected \o page
          /\ cursor' = IF has_more THEN Last(page) ELSE NoMore
  /\ UNCHANGED << rows, snapshot >>

PagesNext ==
  \/ \E r \in Rows : Register(r)
  \/ BeginListing
  \/ \E asked \in AskedLimits : NextPage(asked)

PagesSpec == PagesInit /\ [][PagesNext]_pagesVars

------------------------------------------------------------------------------
(* Properties.                                                            *)

(***************************************************************************)
(* The pages of a listing make one descending list: no transaction is      *)
(* listed twice, although others are registered before and behind the      *)
(* cursor between two requests.                                            *)
(***************************************************************************)
PagesAreOneList ==
  \A i, j \in DOMAIN collected :
    i < j => Newer(collected[i], collected[j])

(***************************************************************************)
(* A transaction that was there when the listing began has been listed as  *)
(* soon as the cursor is past it, and at the end all of them have been,    *)
(* also those that share their created_at with a cursor.                   *)
(***************************************************************************)
NothingIsSkipped ==
  \A s \in snapshot :
    \/ s \in Range(collected)
    \/ cursor = FromTheTop
    \/ cursor # NoMore /\ Newer(cursor, s)
===============================================================================
