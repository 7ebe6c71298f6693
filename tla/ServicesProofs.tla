---------------------------- MODULE ServicesProofs ----------------------------
(***************************************************************************)
(* The services on their own, for any sequence of commands.  Wallets: a    *)
(* typed journal, balances that are never negative, one movement for each  *)
(* command.  Access records, for any purchases, users and offerings: one   *)
(* active record per user and offering, and a revocation that is final.    *)
(* The paginated list, for any rows and limits: one list with nothing left *)
(* out.                                                                    *)
(***************************************************************************)
EXTENDS Wallets, CatalogAccess, TransactionPages, SumTheorems, SequenceTheorems

(* What a movement needs in order to be stored.                           *)
LEMMA MoveIsTyped ==
  ASSUME WalletsAssumption, TypeOK, NEW t \in Txn, NEW step \in Steps,
         NEW type \in { "debit", "credit" }, NEW after \in Nat,
         HasWallet(t), Move(t, step, type, after)
  PROVE  TypeOK'
<1>1. balance[UserOf[t]] \in Nat
  BY DEF TypeOK, HasWallet
<1>2. balance' \in [DOMAIN Opening -> Nat]
  BY DEF TypeOK, Move
<1>3. [txn |-> t, step |-> step, type |-> type,
       before |-> balance[UserOf[t]], after |-> after] \in
        [txn : Txn, step : Steps, type : { "debit", "credit" },
         before : Nat, after : Nat]
  BY <1>1
<1> QED BY <1>2, <1>3 DEF TypeOK, Move

(* One step per outcome.                                                  *)
LEMMA WalletTypeStep ==
  ASSUME WalletsAssumption, TypeOK, [Next]_vars
  PROVE  TypeOK'
<1>0. ASSUME NEW t \in Txn, HasWallet(t)
      PROVE  balance[UserOf[t]] \in Nat /\ AmountOf[t] \in Nat
  BY <1>0 DEF TypeOK, HasWallet, WalletsAssumption
<1>1. ASSUME NEW t \in Txn, NEW step \in Steps, Debited(t, step)
      PROVE  TypeOK'
  <2>1. CASE Exists(t, step)
    BY <1>1, <2>1 DEF Debited, TypeOK, vars
  <2>2. CASE ~ Exists(t, step)
    <3>1. balance[UserOf[t]] - AmountOf[t] \in Nat
      BY <1>0, <1>1, <2>2 DEF Debited
    <3> QED BY <1>1, <2>2, <3>1, MoveIsTyped DEF Debited
  <2> QED BY <2>1, <2>2
<1>2. ASSUME NEW t \in Txn, NEW step \in Steps, DebitRejected(t, step)
      PROVE  TypeOK'
  BY <1>2 DEF DebitRejected, TypeOK, vars
<1>3. ASSUME NEW t \in Txn, NEW step \in Steps, Credited(t, step)
      PROVE  TypeOK'
  <2>1. CASE Exists(t, step)
    BY <1>3, <2>1 DEF Credited, TypeOK, vars
  <2>2. CASE ~ Exists(t, step)
    <3>1. balance[UserOf[t]] + AmountOf[t] \in Nat
      BY <1>0, <1>3 DEF Credited
    <3> QED BY <1>3, <2>2, <3>1, MoveIsTyped DEF Credited
  <2> QED BY <2>1, <2>2
<1>4. CASE UNCHANGED vars
  BY <1>4 DEF TypeOK, vars
<1> QED BY <1>1, <1>2, <1>3, <1>4 DEF Next

(* Balances are never negative and the journal is well formed.            *)
THEOREM WalletTypeCorrect == Spec => []TypeOK
<1>1. Init => TypeOK
  BY WalletsAssumption DEF Init, TypeOK, WalletsAssumption
<1>2. TypeOK /\ [Next]_vars => TypeOK'
  BY WalletsAssumption, WalletTypeStep
<1> QED BY <1>1, <1>2, PTL DEF Spec

(* A movement is stored only where there is none of its name.             *)
LEMMA FreshMovement ==
  ASSUME MovedOnce, NEW t, NEW step, NEW type, NEW after,
         ~ Exists(t, step), Move(t, step, type, after)
  PROVE  MovedOnce'
BY DEF MovedOnce, Exists, Movements, Move

(* A command moves money at most once, for any sequence of commands.      *)
THEOREM WalletMovesOnce == Spec => []MovedOnce
<1>1. Init => MovedOnce
  BY DEF Init, MovedOnce
<1>2. MovedOnce /\ [Next]_vars => MovedOnce'
  <2> SUFFICES ASSUME MovedOnce, [Next]_vars
               PROVE  MovedOnce'
    OBVIOUS
  <2>1. CASE UNCHANGED vars
    BY <2>1 DEF MovedOnce, vars
  <2>2. ASSUME NEW t \in Txn, NEW step \in Steps, ~ UNCHANGED vars,
               Debited(t, step) \/ DebitRejected(t, step) \/ Credited(t, step)
        PROVE  MovedOnce'
    BY <2>2, FreshMovement DEF Debited, DebitRejected, Credited
  <2> QED BY <2>1, <2>2 DEF Next
<1> QED BY <1>1, <1>2, PTL DEF Spec

(* The sum of the property, as a sum of SumTheorems.                      *)
LEMMA JournalSum ==
  ASSUME NEW S
  PROVE  MapThenSumSet(Added, S) = Sigma([m \in S |-> Added(m)], S)
<1> DEFINE v == [m \in S |-> Added(m)]
           Op(f, s) == IF s = {} THEN 0
                       ELSE Added(Pick(s)) + f[s \ { Pick(s) }]
<1>1. MapThenSumSet(Added, S) = (CHOOSE f : f = [s \in SUBSET S |-> Op(f, s)])[S]
  BY DEF MapThenSumSet, MapThenFoldSet, Pick
<1>2. ASSUME NEW f, NEW s \in SUBSET S
      PROVE  Op(f, s) = SumStep(v, f, s)
  BY PickIsMember DEF SumStep
<1> HIDE DEF v, Op
<1>3. \A f : [s \in SUBSET S |-> Op(f, s)] = [s \in SUBSET S |-> SumStep(v, f, s)]
  BY <1>2
<1>4. \A f : (f = [s \in SUBSET S |-> Op(f, s)]) <=> Sums(v, f, S)
  BY <1>3 DEF Sums
<1>5. (CHOOSE f : f = [s \in SUBSET S |-> Op(f, s)]) = (CHOOSE f : Sums(v, f, S))
  BY <1>4
<1> QED BY <1>1, <1>5 DEF Sigma, v

(* The journal has what it had, or one movement more.                     *)
LEMMA JournalStep ==
  ASSUME NEW S, IsFiniteSet(S), NEW m, m \notin S,
         \A n \in S \cup { m } : Added(n) \in Int
  PROVE  MapThenSumSet(Added, S \cup { m }) = MapThenSumSet(Added, S) + Added(m)
<1> DEFINE D == S \cup { m }
           v == [n \in D |-> Added(n)]
           w == [n \in S |-> Added(n)]
<1>1. /\ IsFiniteSet(D)
      /\ \A n \in D : v[n] \in Int
      /\ \A n \in S : v[n] = w[n]
      /\ v[m] = Added(m)
      /\ \A n \in S : w[n] \in Int
      /\ Added(m) \in Int
  BY FS_AddElement
<1>2. MapThenSumSet(Added, D) = Sigma(v, D)
  BY JournalSum
<1>3. MapThenSumSet(Added, S) = Sigma(w, S)
  BY JournalSum
<1> HIDE DEF v, w
<1>4. Sigma(v, D) = v[m] + Sigma(v, S)
  BY <1>1, SigmaAdds
<1>5. Sigma(v, S) = Sigma(w, S) /\ Sigma(w, S) \in Int
  BY <1>1, SigmaOfSame, SigmaIsTyped
<1> QED BY <1>1, <1>2, <1>3, <1>4, <1>5

(* Typing, finiteness, and the balance as the opening one with the sum of  *)
(* the journal.                                                            *)
JInv ==
  /\ TypeOK
  /\ IsFiniteSet(movements)
  /\ JournalExplainsBalance

(* A movement adds to its user's journal what it adds to the balance.     *)
LEMMA MoveIsExplained ==
  ASSUME WalletsAssumption, JInv, NEW t \in Txn, NEW step \in Steps,
         NEW type \in { "debit", "credit" }, NEW after \in Nat,
         HasWallet(t), ~ Exists(t, step), Move(t, step, type, after)
  PROVE  JInv'
<1> DEFINE row == [txn |-> t, step |-> step, type |-> type,
                   before |-> balance[UserOf[t]], after |-> after]
<1>0. balance[UserOf[t]] \in Nat /\ balance \in [DOMAIN Opening -> Nat]
  BY DEF JInv, TypeOK, HasWallet
<1>1. /\ movements' = movements \cup { row }
      /\ row.txn = t
      /\ Added(row) = after - balance[UserOf[t]]
      /\ row \notin movements
  BY DEF Move, Added, Exists, Movements
<1> HIDE DEF row
<1>2. TypeOK'
  BY MoveIsTyped DEF JInv
<1>3. IsFiniteSet(movements')
  BY <1>1, FS_AddElement DEF JInv
<1>4. ASSUME NEW u \in DOMAIN Opening
      PROVE  balance'[u] = Opening[u] + MapThenSumSet(Added, Journal(u)')
  <2>1. balance[u] = Opening[u] + MapThenSumSet(Added, Journal(u))
    BY DEF JInv, JournalExplainsBalance
  <2>2. CASE u # UserOf[t]
    <3>1. Journal(u)' = Journal(u)
      BY <1>1, <2>2 DEF Journal
    <3>2. balance'[u] = balance[u]
      BY <1>0, <2>2 DEF Move
    <3> QED BY <2>1, <3>1, <3>2
  <2>3. CASE u = UserOf[t]
    <3>1. Journal(u)' = Journal(u) \cup { row } /\ row \notin Journal(u)
      BY <1>1, <2>3 DEF Journal
    <3>2. IsFiniteSet(Journal(u))
      BY FS_Subset DEF JInv, Journal
    <3>3. \A n \in Journal(u) \cup { row } : Added(n) \in Int
      BY <1>0, <1>1 DEF Journal, JInv, TypeOK, Added
    <3>4. MapThenSumSet(Added, Journal(u)') =
            MapThenSumSet(Added, Journal(u)) + Added(row)
      BY <3>1, <3>2, <3>3, JournalStep
    <3>5. MapThenSumSet(Added, Journal(u)) \in Int
      <4>1. Sigma([m \in Journal(u) |-> Added(m)], Journal(u)) \in Int
        BY <3>2, <3>3, SigmaIsTyped
      <4> QED BY <4>1, JournalSum
    <3>6. Opening[u] \in Nat
      BY DEF WalletsAssumption
    <3>7. balance'[u] = after
      BY <1>0, <2>3 DEF Move
    <3> QED BY <1>0, <1>1, <2>1, <2>3, <3>4, <3>5, <3>6, <3>7
  <2> QED BY <2>2, <2>3
<1> QED BY <1>2, <1>3, <1>4 DEF JInv, JournalExplainsBalance

(* A wallet holds its opening balance and what its movements added up to,  *)
(* for any number of users, transactions and repetitions.                 *)
THEOREM JournalIsExact == Spec => []JournalExplainsBalance
<1>1. Init => JInv
  <2> SUFFICES ASSUME Init
               PROVE  JInv
    OBVIOUS
  <2>1. TypeOK /\ IsFiniteSet(movements)
    BY WalletsAssumption, FS_EmptySet DEF Init, TypeOK, WalletsAssumption
  <2>2. ASSUME NEW u \in DOMAIN Opening
        PROVE  balance[u] = Opening[u] + MapThenSumSet(Added, Journal(u))
    <3>1. Journal(u) = {}
      BY DEF Init, Journal
    <3>2. MapThenSumSet(Added, {}) = 0
      <4>1. Sigma([m \in {} |-> Added(m)], {}) = 0
        BY FS_EmptySet, SigmaUnfolds
      <4> QED BY <4>1, JournalSum
    <3>3. Opening[u] \in Nat /\ balance[u] = Opening[u]
      BY WalletsAssumption DEF WalletsAssumption, Init
    <3> QED BY <3>1, <3>2, <3>3
  <2> QED BY <2>1, <2>2 DEF JInv, JournalExplainsBalance
<1>2. JInv /\ [Next]_vars => JInv'
  <2> SUFFICES ASSUME JInv, [Next]_vars
               PROVE  JInv'
    OBVIOUS
  <2>1. CASE UNCHANGED vars
    BY <2>1 DEF JInv, TypeOK, JournalExplainsBalance, Journal, vars
  <2>2. ASSUME NEW t \in Txn, HasWallet(t)
        PROVE  balance[UserOf[t]] \in Nat /\ AmountOf[t] \in Nat
    BY <2>2, WalletsAssumption DEF JInv, TypeOK, HasWallet, WalletsAssumption
  <2>3. ASSUME NEW t \in Txn, NEW step \in Steps, ~ UNCHANGED vars,
               Debited(t, step)
        PROVE  JInv'
    <3>1. balance[UserOf[t]] - AmountOf[t] \in Nat
      BY <2>2, <2>3 DEF Debited
    <3> QED BY <2>3, <3>1, WalletsAssumption, MoveIsExplained DEF Debited
  <2>4. ASSUME NEW t \in Txn, NEW step \in Steps, ~ UNCHANGED vars,
               Credited(t, step)
        PROVE  JInv'
    <3>1. balance[UserOf[t]] + AmountOf[t] \in Nat
      BY <2>2, <2>4 DEF Credited
    <3> QED BY <2>4, <3>1, WalletsAssumption, MoveIsExplained DEF Credited
  <2> QED BY <2>1, <2>3, <2>4 DEF Next, DebitRejected
<1>3. JInv => JournalExplainsBalance
  BY DEF JInv
<1> QED BY <1>1, <1>2, <1>3, PTL DEF Spec

------------------------------------------------------------------------------
(* The access records.                                                    *)

(* One active access is inductive together with typing.                  *)
AInv == AccessTypeOK /\ OneActiveAccess

(* A command leaves the records alone, or activates one that nothing      *)
(* stands against, or revokes one that was granted.                       *)
LEMMA CommandShape ==
  ASSUME CatalogNext
  PROVE  \/ UNCHANGED access
         \/ \E p \in Txn : /\ access[p] = "none"
                           /\ ActiveFor(p) = {}
                           /\ access' = [access EXCEPT ![p] = "active"]
         \/ \E p : access' = [access EXCEPT ![p] = "revoked"]
  BY DEF CatalogNext, Granted, GrantConflicted, Revoked, RevokeRejected

(* The invariant is kept by every command.                                *)
LEMMA CommandKeepsInv ==
  ASSUME AInv, [CatalogNext]_access
  PROVE  AInv'
<1>1. CASE UNCHANGED access
  BY <1>1 DEF AInv, AccessTypeOK, OneActiveAccess, ActiveFor
<1>2. ASSUME NEW p \in Txn, access[p] = "none", ActiveFor(p) = {},
             access' = [access EXCEPT ![p] = "active"]
      PROVE  AInv'
  <2>1. \A q \in Txn : access'[q] = IF q = p THEN "active" ELSE access[q]
    BY <1>2 DEF AInv, AccessTypeOK
  <2>2. AccessTypeOK'
    BY <1>2 DEF AInv, AccessTypeOK, AccessStatuses
  <2>3. \A q \in Txn : access[q] = "active" => \/ UserOf[q] # UserOf[p]
                                               \/ OfferingOf[q] # OfferingOf[p]
    BY <1>2 DEF ActiveFor
  <2>4. OneActiveAccess'
    BY <2>1, <2>3 DEF AInv, OneActiveAccess, ActiveFor
  <2> QED
    BY <2>2, <2>4 DEF AInv
<1>3. ASSUME NEW p, access' = [access EXCEPT ![p] = "revoked"]
      PROVE  AInv'
  <2>1. \A q \in Txn : access'[q] \in { access[q], "revoked" }
    BY <1>3 DEF AInv, AccessTypeOK
  <2>2. AccessTypeOK'
    BY <1>3 DEF AInv, AccessTypeOK, AccessStatuses
  <2>3. OneActiveAccess'
    BY <2>1 DEF AInv, OneActiveAccess, ActiveFor
  <2> QED
    BY <2>2, <2>3 DEF AInv
<1> QED
  BY <1>1, <1>2, <1>3, CommandShape

(* The invariant of the access records.                                   *)
LEMMA AccessInvariant == CatalogSpec => []AInv
<1>1. CatalogInit => AInv
  BY DEF CatalogInit, AInv, AccessTypeOK, AccessStatuses, OneActiveAccess
<1>2. AInv /\ [CatalogNext]_access => AInv'
  BY CommandKeepsInv
<1> QED
  BY <1>1, <1>2, PTL DEF CatalogSpec

(* A purchase's record is absent, active or revoked.                      *)
THEOREM AccessTypeCorrect == CatalogSpec => []AccessTypeOK
  BY AccessInvariant, PTL DEF AInv

(* At most one record of a user and an offering is active.                *)
THEOREM AccessIsSingle == CatalogSpec => []OneActiveAccess
  BY AccessInvariant, PTL DEF AInv

(* No grant, however late or often, undoes a revocation.                  *)
THEOREM RevocationIsFinal == CatalogSpec => RevokedStaysRevoked
<1> DEFINE Kept == \A p \in Txn : access[p] = "revoked" => access'[p] = "revoked"
<1>1. ASSUME AInv, [CatalogNext]_access
      PROVE  Kept
  <2> SUFFICES ASSUME NEW p \in Txn, access[p] = "revoked"
               PROVE  access'[p] = "revoked"
    OBVIOUS
  <2>1. CASE UNCHANGED access
    BY <2>1
  <2>2. ASSUME NEW q \in Txn, access[q] = "none",
               access' = [access EXCEPT ![q] = "active"]
        PROVE  access'[p] = "revoked"
    BY <2>2, <1>1 DEF AInv, AccessTypeOK
  <2>3. ASSUME NEW q, access' = [access EXCEPT ![q] = "revoked"]
        PROVE  access'[p] = "revoked"
    BY <2>3, <1>1 DEF AInv, AccessTypeOK
  <2> QED
    BY <2>1, <2>2, <2>3, <1>1, CommandShape
<1> QED
  BY <1>1, AccessInvariant, PTL DEF CatalogSpec, RevokedStaysRevoked

------------------------------------------------------------------------------
(* The listing.                                                           *)

(* The order of the listing is total on rows with different ids.          *)
LEMMA NewerIsOrder ==
  ASSUME PagesAssumption
  PROVE  /\ \A r \in Rows : ~ Newer(r, r)
         /\ \A r, s, t \in Rows : Newer(r, s) /\ Newer(s, t) => Newer(r, t)
         /\ \A r, s \in Rows : r = s \/ Newer(r, s) \/ Newer(s, r)
<1>1. \A r \in Rows : r.created_at \in Nat /\ r.id \in Nat
  BY DEF Rows, PagesAssumption
<1>2. \A r, s \in Rows : r.created_at = s.created_at /\ r.id = s.id => r = s
  BY DEF Rows
<1> QED BY <1>1, <1>2 DEF Newer

(* A page, without the row that tells whether there are more.             *)
LEMMA PageShape ==
  ASSUME PagesAssumption, NEW S \in SUBSET Rows, NEW limit \in Nat \ { 0 },
         NEW fetched \in FirstRows(S, limit + 1)
  PROVE  LET has_more == Len(fetched) > limit
             page == IF has_more THEN Front(fetched) ELSE fetched
         IN /\ page \in Seq(S)
            /\ \A i, j \in DOMAIN page : i < j => Newer(page[i], page[j])
            /\ has_more =>
                 /\ page # << >>
                 /\ \A s \in S : s \in Range(page) \/ Newer(Last(page), s)
            /\ ~ has_more => S \subseteq Range(page)
<1>1. PICK k \in 0..limit + 1 : fetched \in [1..k -> S]
  BY DEF FirstRows
<1>2. /\ fetched \in Seq(S)
      /\ Len(fetched) = k
      /\ k \in Nat
  BY <1>1
<1>3. /\ \A i, j \in 1..k : i < j => Newer(fetched[i], fetched[j])
      /\ \A s \in S \ Range(fetched) :
           k = limit + 1 /\ \A i \in 1..k : Newer(fetched[i], s)
  BY <1>1, <1>2 DEF FirstRows
<1>4. CASE ~ (Len(fetched) > limit)
  BY <1>1, <1>2, <1>3, <1>4
<1>5. CASE Len(fetched) > limit
  <2>1. k = limit + 1
    BY <1>2, <1>5
  <2>2. PICK page : page = Front(fetched)
    OBVIOUS
  <2>3. /\ page \in Seq(S)
        /\ Len(page) = limit
        /\ \A i \in 1..limit : page[i] = fetched[i]
    BY <1>2, <2>1, <2>2 DEF Front
  <2>4. page # << >> /\ Last(page) = fetched[limit]
    BY <2>3 DEF Last
  <2>5. ASSUME NEW s \in S, s \notin Range(page)
        PROVE  Newer(Last(page), s)
    <3>1. CASE s \in Range(fetched)
      <4>1. PICK i \in 1..k : s = fetched[i]
        BY <1>1, <3>1 DEF Range
      <4>2. i = k
        BY <2>1, <2>3, <2>5, <4>1 DEF Range
      <4> QED BY <1>3, <2>1, <2>4, <4>1, <4>2
    <3>2. CASE s \notin Range(fetched)
      BY <1>3, <2>1, <2>4, <3>2
    <3> QED BY <3>1, <3>2
  <2>6. \A i, j \in DOMAIN page : i < j => Newer(page[i], page[j])
    BY <1>3, <2>1, <2>3
  <2> QED BY <1>5, <2>2, <2>3, <2>4, <2>5, <2>6
<1> QED BY <1>4, <1>5

(* What has been listed lies before the cursor, and whatever lies before   *)
(* the cursor has been listed.                                             *)
PInv ==
  /\ rows \subseteq Rows
  /\ IsFiniteSet(rows)
  /\ snapshot \subseteq rows
  /\ collected \in Seq(Rows)
  /\ cursor \in Rows \cup { FromTheTop, NoMore }
  /\ cursor = FromTheTop => collected = << >>
  /\ cursor \in Rows => collected # << >> /\ Last(collected) = cursor
  /\ PagesAreOneList
  /\ NothingIsSkipped

(* A further page continues the list and skips nothing.                   *)
LEMMA PageContinues ==
  ASSUME PagesAssumption, PInv, NEW asked \in AskedLimits, NextPage(asked)
  PROVE  PInv'
<1> DEFINE limit == PageLimit(asked)
           S == After(cursor)
<1>1. limit \in Nat \ { 0 }
  BY DEF PageLimit, PagesAssumption
<1>2. S \in SUBSET Rows /\ S \subseteq rows
  BY DEF PInv, After
<1>3. PICK fetched \in FirstRows(S, limit + 1) :
        LET has_more == Len(fetched) > limit
            page == IF has_more THEN Front(fetched) ELSE fetched
        IN /\ collected' = collected \o page
           /\ cursor' = IF has_more THEN Last(page) ELSE NoMore
  BY DEF NextPage, Fetch
<1>4. PICK page : page = IF Len(fetched) > limit THEN Front(fetched) ELSE fetched
  OBVIOUS
<1> DEFINE has_more == Len(fetched) > limit
<1>6. /\ collected' = collected \o page
      /\ cursor' = IF has_more THEN Last(page) ELSE NoMore
      /\ rows' = rows
      /\ snapshot' = snapshot
  BY <1>3, <1>4 DEF NextPage
<1>7. /\ page \in Seq(S)
      /\ \A i, j \in DOMAIN page : i < j => Newer(page[i], page[j])
      /\ has_more =>
           /\ page # << >>
           /\ \A s \in S : s \in Range(page) \/ Newer(Last(page), s)
      /\ ~ has_more => S \subseteq Range(page)
  <2> HIDE DEF S, limit
  <2> QED BY <1>1, <1>2, <1>4, PageShape
<1> HIDE DEF has_more
<1>8. cursor # NoMore /\ (cursor = FromTheTop \/ cursor \in Rows)
  BY DEF PInv, NextPage
<1>9. /\ collected \in Seq(Rows)
      /\ page \in Seq(Rows)
      /\ collected' \in Seq(Rows)
      /\ Len(collected') = Len(collected) + Len(page)
      /\ \A i \in DOMAIN collected : collected'[i] = collected[i]
      /\ \A i \in DOMAIN page : collected'[Len(collected) + i] = page[i]
      /\ \A i \in DOMAIN collected' :
           i \in DOMAIN collected \/ i - Len(collected) \in DOMAIN page
      /\ \A i \in DOMAIN collected : i \in DOMAIN collected'
      /\ \A i \in DOMAIN page : Len(collected) + i \in DOMAIN collected'
  BY <1>2, <1>6, <1>7 DEF PInv
<1>10. \A i \in DOMAIN collected : \A r \in S : Newer(collected[i], r)
  <2> SUFFICES ASSUME NEW i \in DOMAIN collected, NEW r \in S
               PROVE  Newer(collected[i], r)
    OBVIOUS
  <2>1. cursor \in Rows /\ collected[Len(collected)] = cursor
    BY <1>8, <1>9 DEF PInv, Last
  <2>2. Newer(cursor, r)
    BY <2>1 DEF After, PagesAssumption
  <2>3. i = Len(collected) \/ Newer(collected[i], collected[Len(collected)])
    BY <1>9 DEF PInv, PagesAreOneList
  <2>4. collected[i] \in Rows /\ r \in Rows
    BY <1>2, <1>9
  <2> QED BY <2>1, <2>2, <2>3, <2>4, NewerIsOrder
<1>11. PagesAreOneList'
  <2> SUFFICES ASSUME NEW i \in DOMAIN collected', NEW j \in DOMAIN collected',
                      i < j
               PROVE  Newer(collected'[i], collected'[j])
    BY DEF PagesAreOneList
  <2>0. i \in Nat /\ j \in Nat /\ Len(collected) \in Nat
    BY <1>9
  <2>1. CASE j \in DOMAIN collected
    <3>1. i \in DOMAIN collected
      BY <1>9, <2>0, <2>1
    <3> QED BY <1>9, <2>1, <3>1 DEF PInv, PagesAreOneList
  <2>2. CASE j \notin DOMAIN collected
    <3>1. PICK b \in DOMAIN page : j = Len(collected) + b /\ collected'[j] = page[b]
      BY <1>9, <2>0, <2>2
    <3>2. page[b] \in S
      BY <1>7, <3>1
    <3>3. CASE i \in DOMAIN collected
      BY <1>9, <1>10, <3>1, <3>2, <3>3
    <3>4. CASE i \notin DOMAIN collected
      <4>1. PICK a \in DOMAIN page : i = Len(collected) + a /\ collected'[i] = page[a]
        BY <1>9, <2>0, <3>4
      <4>2. a < b
        BY <1>9, <2>0, <3>1, <4>1
      <4> QED BY <1>7, <3>1, <4>1, <4>2
    <3> QED BY <3>3, <3>4
  <2> QED BY <2>1, <2>2
<1>12. /\ Range(collected) \subseteq Range(collected')
       /\ Range(page) \subseteq Range(collected')
  <2>1. Range(collected) \subseteq Range(collected')
    BY <1>9 DEF Range
  <2>2. Range(page) \subseteq Range(collected')
    BY <1>9 DEF Range
  <2> QED BY <2>1, <2>2
<1>13. cursor' \in Rows => collected' # << >> /\ Last(collected') = cursor'
  <2> SUFFICES ASSUME cursor' \in Rows
               PROVE  collected' # << >> /\ Last(collected') = cursor'
    OBVIOUS
  <2>1. has_more /\ page # << >>
    BY <1>6, <1>7 DEF PagesAssumption
  <2>2. Len(page) \in DOMAIN page
    BY <1>9, <2>1
  <2> QED BY <1>6, <1>9, <2>1, <2>2 DEF Last
<1>14. cursor' \in Rows \cup { NoMore }
  <2>1. has_more => Last(page) \in Rows
    BY <1>7, <1>9 DEF Last
  <2> QED BY <1>6, <2>1
<1>15. NothingIsSkipped'
  <2> SUFFICES ASSUME NEW s \in snapshot, s \notin Range(collected')
               PROVE  cursor' # NoMore /\ Newer(cursor', s)
    BY <1>6 DEF NothingIsSkipped
  <2>1. cursor = FromTheTop \/ Newer(cursor, s)
    BY <1>8, <1>12 DEF PInv, NothingIsSkipped
  <2>2. s \in S
    BY <2>1 DEF After, PInv
  <2>3. s \notin Range(page)
    BY <1>12
  <2>4. has_more /\ Newer(Last(page), s)
    BY <1>7, <2>2, <2>3
  <2> QED BY <1>6, <1>7, <1>9, <1>14, <2>4 DEF PagesAssumption, Last
<1> QED BY <1>6, <1>9, <1>11, <1>13, <1>14, <1>15 DEF PInv, PagesAssumption

(* The invariant of the listing.                                          *)
LEMMA PagesInvariant == PagesSpec => []PInv
<1>1. PagesInit => PInv
  BY PagesAssumption, FS_EmptySet
  DEF PagesInit, PInv, PagesAssumption, PagesAreOneList, NothingIsSkipped
<1>2. PInv /\ [PagesNext]_pagesVars => PInv'
  <2> SUFFICES ASSUME PInv, [PagesNext]_pagesVars
               PROVE  PInv'
    OBVIOUS
  <2>1. ASSUME NEW r \in Rows, Register(r)
        PROVE  PInv'
    BY <2>1, FS_AddElement
    DEF Register, PInv, PagesAreOneList, NothingIsSkipped
  <2>2. CASE BeginListing
    BY <2>2, PagesAssumption
    DEF BeginListing, PInv, PagesAssumption, PagesAreOneList, NothingIsSkipped
  <2>3. ASSUME NEW asked \in AskedLimits, NextPage(asked)
        PROVE  PInv'
    BY <2>3, PagesAssumption, PageContinues
  <2>4. CASE UNCHANGED pagesVars
    BY <2>4 DEF pagesVars, PInv, PagesAreOneList, NothingIsSkipped
  <2> QED BY <2>1, <2>2, <2>3, <2>4 DEF PagesNext
<1> QED BY <1>1, <1>2, PTL DEF PagesSpec

(* For any page limits and any number of transactions the pages of a       *)
(* listing make one descending list.                                      *)
THEOREM ListingIsOneList == PagesSpec => []PagesAreOneList
BY PagesInvariant, PTL DEF PInv

(* And none of the transactions it began with is skipped.                 *)
THEOREM ListingIsComplete == PagesSpec => []NothingIsSkipped
BY PagesInvariant, PTL DEF PInv

(* A finite set of rows has a newest one.                                 *)
LEMMA NewestExists ==
  ASSUME PagesAssumption, NEW D \in SUBSET Rows, IsFiniteSet(D)
  PROVE  \A S \in SUBSET D : S # {} =>
           \E r \in S : \A s \in S \ { r } : Newer(r, s)
<1> DEFINE Good == { S \in SUBSET D : S # {} =>
                       \E r \in S : \A s \in S \ { r } : Newer(r, s) }
<1>1. ASSUME NEW S \in SUBSET D, \A U \in SUBSET S : U # S => U \in Good
      PROVE  S \in Good
  <2> SUFFICES ASSUME S # {}
               PROVE  \E r \in S : \A s \in S \ { r } : Newer(r, s)
    OBVIOUS
  <2>1. PICK x \in S : TRUE
    OBVIOUS
  <2>2. CASE S \ { x } = {}
    BY <2>2
  <2>3. CASE S \ { x } # {}
    <3>1. PICK r \in S \ { x } : \A s \in (S \ { x }) \ { r } : Newer(r, s)
      <4>1. S \ { x } \in SUBSET S /\ S \ { x } # S
        BY <2>1
      <4> QED BY <1>1, <2>3, <4>1
    <3>2. r \in Rows /\ x \in Rows /\ r # x /\ S \subseteq Rows
      BY <2>1, <3>1
    <3>3. CASE Newer(r, x)
      BY <3>1, <3>3
    <3>4. CASE Newer(x, r)
      BY <3>1, <3>2, <3>4, NewerIsOrder
    <3> QED BY <3>2, <3>3, <3>4, NewerIsOrder
  <2> QED BY <2>2, <2>3
<1> HIDE DEF Good
<1>2. \A S \in SUBSET D : S \in Good
  BY <1>1, SetInduction
<1> QED BY <1>2 DEF Good

(* The query has an answer, whatever is asked of whatever rows.           *)
LEMMA FirstRowsExist ==
  ASSUME PagesAssumption, NEW D \in SUBSET Rows, IsFiniteSet(D)
  PROVE  \A S \in SUBSET D : \A n \in Nat : FirstRows(S, n) # {}
<1> DEFINE Good == { S \in SUBSET D : \A n \in Nat : FirstRows(S, n) # {} }
<1>1. ASSUME NEW S \in SUBSET D, \A U \in SUBSET S : U # S => U \in Good
      PROVE  S \in Good
  <2> SUFFICES ASSUME NEW n \in Nat
               PROVE  FirstRows(S, n) # {}
    OBVIOUS
  <2>1. CASE n = 0 \/ S = {}
    <3>1. << >> \in [1..0 -> S] /\ 0 \in 0..n /\ Len(<< >>) = 0
      OBVIOUS
    <3>2. << >> \in FirstRows(S, n)
      BY <2>1, <3>1 DEF FirstRows
    <3> QED BY <3>2
  <2>2. CASE n # 0 /\ S # {}
    <3>1. PICK r \in S : \A s \in S \ { r } : Newer(r, s)
      BY <2>2, NewestExists
    <3>2. PICK U : U = S \ { r }
      OBVIOUS
    <3>3. FirstRows(U, n - 1) # {}
      <4>1. U \in SUBSET S /\ U # S /\ n - 1 \in Nat
        BY <2>2, <3>1, <3>2
      <4> QED BY <1>1, <4>1
    <3>4. PICK rest : rest \in FirstRows(U, n - 1)
      BY <3>3
    <3>5. PICK k \in 0..n - 1 : rest \in [1..k -> U]
      BY <3>4 DEF FirstRows
    <3>6. /\ Len(rest) = k
          /\ k \in Nat
          /\ \A i, j \in 1..k : i < j => Newer(rest[i], rest[j])
          /\ \A s \in U \ Range(rest) :
               k = n - 1 /\ \A i \in 1..k : Newer(rest[i], s)
      BY <3>4, <3>5 DEF FirstRows
    <3>7. PICK page : page = [i \in 1..k + 1 |-> IF i = 1 THEN r ELSE rest[i - 1]]
      OBVIOUS
    <3>8. /\ page \in [1..k + 1 -> S]
          /\ DOMAIN page = 1..k + 1
          /\ k + 1 \in 0..n
          /\ Len(page) = k + 1
          /\ page[1] = r
          /\ \A i \in 1..k + 1 : i # 1 => i - 1 \in 1..k /\ page[i] = rest[i - 1]
          /\ \A i \in 1..k : i + 1 \in 1..k + 1 /\ page[i + 1] = rest[i]
      <4>1. page \in [1..k + 1 -> S]
        BY <3>2, <3>5, <3>6, <3>7
      <4>2. Len(page) = k + 1
        BY <3>6, <4>1
      <4> QED BY <3>5, <3>6, <3>7, <4>1, <4>2
    <3>9. ASSUME NEW i \in 1..k + 1, NEW j \in 1..k + 1, i < j
          PROVE  Newer(page[i], page[j])
      <4>1. j # 1 /\ j - 1 \in 1..k /\ page[j] = rest[j - 1]
        BY <3>6, <3>8, <3>9
      <4>2. CASE i = 1
        BY <3>1, <3>2, <3>5, <3>8, <4>1, <4>2
      <4>3. CASE i # 1
        <5>1. i - 1 < j - 1 /\ i - 1 \in 1..k /\ page[i] = rest[i - 1]
          BY <3>6, <3>8, <3>9, <4>3
        <5> QED BY <3>6, <4>1, <5>1
      <4> QED BY <4>2, <4>3
    <3>10. ASSUME NEW s \in S, s \notin Range(page)
           PROVE  k + 1 = n /\ \A i \in 1..k + 1 : Newer(page[i], s)
      <4>1. s # r
        <5>1. 1 \in 1..k + 1
          BY <3>6
        <5> QED BY <3>8, <3>10, <5>1 DEF Range
      <4>2. s \in U /\ s \notin Range(rest)
        BY <3>2, <3>5, <3>8, <3>10, <4>1 DEF Range
      <4>3. k = n - 1 /\ \A i \in 1..k : Newer(rest[i], s)
        BY <3>6, <4>2
      <4>4. k + 1 = n
        BY <2>2, <4>3
      <4>5. Newer(page[1], s)
        BY <3>1, <3>8, <3>10, <4>1
      <4>6. \A i \in 1..k + 1 : i # 1 => Newer(page[i], s)
        BY <3>8, <4>3
      <4> QED BY <4>4, <4>5, <4>6
    <3>11. page \in FirstRows(S, n)
      BY <3>8, <3>9, <3>10 DEF FirstRows
    <3> QED BY <3>11
  <2> QED BY <2>1, <2>2
<1> HIDE DEF Good
<1>2. \A S \in SUBSET D : S \in Good
  BY <1>1, SetInduction
<1> QED BY <1>2 DEF Good

(* So every request of a listing that is not at its end has an answer.    *)
THEOREM EveryPageExists ==
  PagesSpec => [](cursor # NoMore =>
                    \A asked \in AskedLimits :
                      Fetch(cursor, PageLimit(asked)) # {})
<1>1. PInv => \A asked \in AskedLimits : Fetch(cursor, PageLimit(asked)) # {}
  <2> SUFFICES ASSUME PInv, NEW asked \in AskedLimits
               PROVE  Fetch(cursor, PageLimit(asked)) # {}
    OBVIOUS
  <2>1. PageLimit(asked) + 1 \in Nat
    BY PagesAssumption DEF PageLimit, PagesAssumption
  <2>2. After(cursor) \in SUBSET rows
    BY DEF After
  <2>3. rows \in SUBSET Rows /\ IsFiniteSet(rows)
    BY DEF PInv
  <2> QED BY <2>1, <2>2, <2>3, PagesAssumption, FirstRowsExist DEF Fetch
<1> QED BY <1>1, PagesInvariant, PTL
===============================================================================
