------------------------- MODULE RollingSet_proofs -------------------------
(***************************************************************************)
(* A Sync of a rolling set never acts on a cache that misses replicas it   *)
(* has created itself, so it does not create them again.                   *)
(*                                                                         *)
(* SyncSeesCreated is not inductive: between a creation and the event that *)
(* brings it to the cache lie other events of other replicas, and of the   *)
(* same one.  What is inductive is a count.  A replica is Missing when the *)
(* cache has none of its name and an event that is not a deletion is on    *)
(* its way; expect is never less than the number of missing replicas.      *)
(* That an event lowers expect only if it takes a replica out of Missing,  *)
(* and that none comes back into it, needs the order of the events of one  *)
(* name: after a deletion there are only deletions, as a name that has an  *)
(* event on its way is not given again.  Where an expectation expires that *)
(* the informer has had the time to fulfil, nothing is missing, and stays  *)
(* so until the next creation, which sets a new expectation.               *)
(***************************************************************************)
EXTENDS RollingSet, FiniteSetTheorems, TLAPS

(* An event that is no deletion is on its way for replica i.               *)
Announced(i) ==
  \E k \in 1 .. Len(pending) : pending[k].id = i /\ pending[k].node # Gone

Missing == {i \in Ids \ DOMAIN cache : Announced(i)}

-----------------------------------------------------------------------------
(* The inductive invariant.                                                *)

BudgetFields == {"changes", "failures", "faults", "refusing", "backups", "stalls", "lag"}

Typed ==
  /\ plan \in Plans
  /\ DOMAIN budget = BudgetFields /\ budget.backups = 0 /\ budget.stalls = 0
  /\ DOMAIN api \subseteq Ids /\ DOMAIN cache \subseteq Ids
  /\ \A i \in DOMAIN api : "phase" \in DOMAIN api[i]
  /\ expect \in Int
  /\ \E N : pending \in Seq([id : Ids, node : N])

(* Without lag nothing is on its way.                                      *)
Prompt == budget.lag = 0 => pending = <<>> /\ cache = api

(* After a deletion there are only deletions of the same name.             *)
GoneStays ==
  \A j, k \in 1 .. Len(pending) :
    j < k /\ pending[j].id = pending[k].id /\ pending[j].node = Gone => pending[k].node = Gone

(* A replica whose deletion is on its way is not at the server.            *)
GoneIsGone ==
  \A k \in 1 .. Len(pending) : pending[k].node = Gone => pending[k].id \notin DOMAIN api

(* What the cache misses is on its way.                                    *)
Coming == \A i \in DOMAIN api \ DOMAIN cache : Announced(i)

Counted == Cardinality(Missing) <= expect

(* An expectation that has expired waits for nothing that was made.        *)
Overdue == expired => Missing = {}

Order == GoneStays /\ GoneIsGone /\ Coming

IInv == Typed /\ Prompt /\ Order /\ Counted /\ Overdue

-----------------------------------------------------------------------------
(* Sequences of events.                                                    *)

LEMMA NoEvents == \A S : <<>> \in Seq(S) /\ Len(<<>>) = 0
  BY SMT

(* Where the elements of a concatenation come from.                        *)
LEMMA Concatenated ==
  ASSUME NEW S, NEW p \in Seq(S), NEW q \in Seq(S)
  PROVE  /\ p \o q \in Seq(S) /\ Len(p \o q) = Len(p) + Len(q)
         /\ Len(p) \in Nat /\ Len(q) \in Nat
         /\ \A k \in 1 .. Len(p) : (p \o q)[k] = p[k]
         /\ \A k \in 1 .. Len(q) : (p \o q)[Len(p) + k] = q[k]
         /\ \A k \in (Len(p) + 1) .. Len(p \o q) :
              k - Len(p) \in 1 .. Len(q) /\ (p \o q)[k] = q[k - Len(p)]
  BY SMT

(* A sequence of elements of S is one of elements of a larger set.         *)
LEMMA Wider ==
  ASSUME NEW S, NEW T, S \subseteq T
  PROVE  /\ \A p \in Seq(S) : p \in Seq(T)
         /\ \A e \in S : <<e>> \in Seq(S)
  BY SMT

(* A permutation of a finite set is a sequence of all its elements.        *)
LEMMA Permutation ==
  ASSUME NEW S, IsFiniteSet(S), NEW f \in SetToSeqs(S)
  PROVE  /\ f \in Seq(S)
         /\ \A x \in S : \E k \in 1 .. Len(f) : f[k] = x
  <1> DEFINE n == Cardinality(S)
  <1>1. n \in Nat
    BY Zenon, FS_CardinalityType
  <1>2. IsFiniteSet(1 .. n) /\ Cardinality(1 .. n) = n
    BY <1>1, FS_Interval
  <1>3. f \in Injection(1 .. n, S)
    BY Zenon DEF SetToSeqs, Injection, IsInjective
  <1>4. f \in Surjection(1 .. n, S)
    BY Zenon, <1>2, <1>3, FS_Injection
  <1>5. f \in [1 .. n -> S]
    BY Zenon DEF SetToSeqs
  <1> HIDE DEF n
  <1>6. f \in Seq(S) /\ Len(f) = n
    BY <1>1, <1>5
  <1> QED
    BY Zenon, <1>4, <1>6 DEF Surjection

-----------------------------------------------------------------------------
(* The steps.                                                              *)

(* What the constants and the budget have to do with it stays as it is.    *)
Kept ==
  /\ plan' \in Plans
  /\ DOMAIN budget' = BudgetFields
  /\ budget'.backups = 0 /\ budget'.stalls = 0 /\ budget'.lag = budget.lag

(* With nothing on its way, nothing is missing.                            *)
LEMMA PromptKeeps ==
  ASSUME pending' = <<>>, cache' = api', expect' \in Int, expect' >= 0
  PROVE  Prompt' /\ Order' /\ Counted' /\ Overdue'
  <1>1. Len(pending') = 0
    BY Zenon, NoEvents
  <1>2. 1 .. Len(pending') = {}
    BY <1>1, SMT
  <1>3. Order'
    BY Zenon, <1>2 DEF Order, GoneStays, GoneIsGone, Coming
  <1>4. Missing' = {}
    BY Zenon, <1>2 DEF Missing, Announced
  <1>5. Counted'
    BY <1>4, FS_EmptySet DEF Counted
  <1> QED
    BY Zenon, <1>3, <1>4, <1>5 DEF Prompt, Overdue

(* Missing replicas are as many as a natural number.                       *)
LEMMA MissingFinite ==
  /\ IsFiniteSet(Missing) /\ Cardinality(Missing) \in Nat
  /\ IsFiniteSet(Missing') /\ Cardinality(Missing') \in Nat
  <1>1. Missing \subseteq Ids /\ Missing' \subseteq Ids
    BY Zenon DEF Missing
  <1> QED
    BY Zenon, <1>1, FS_Subset, FS_CardinalityType, IdsAssumption

(* Where no replica becomes missing, expect need not grow.                 *)
LEMMA CountedKeeps ==
  ASSUME Counted, expect \in Int, expect' = expect, Missing' \subseteq Missing
  PROVE  Counted'
  <1>1. Cardinality(Missing') <= Cardinality(Missing)
    BY Zenon, MissingFinite, FS_Subset
  <1>2. PICK a, b : a = Cardinality(Missing) /\ b = Cardinality(Missing')
    BY Zenon
  <1>3. a \in Nat /\ b \in Nat /\ b <= a /\ a <= expect
    BY Zenon, <1>1, <1>2, MissingFinite DEF Counted
  <1>4. b <= expect
    BY ONLY <1>3, expect \in Int, SMT
  <1> QED
    BY Zenon, <1>2, <1>4 DEF Counted

(* One write of a replica that is at the server (Progress, Fail).          *)
LEMMA ReplaceKeeps ==
  ASSUME IInv, Kept, expect' = expect, expired' = expired, NEW i \in DOMAIN api, NEW node,
         node # Gone, "phase" \in DOMAIN node, Replace(i, node)
  PROVE  IInv'
  <1> DEFINE e == Event(i, node)
  <1>1. i \in Ids /\ DOMAIN api' = DOMAIN api /\ cache' \in {cache, api'}
    BY Zenon DEF Replace, Write, IInv, Typed
  <1>2. \A x \in DOMAIN api' : "phase" \in DOMAIN api'[x]
    BY Zenon DEF Replace, Write, IInv, Typed
  <1>3. e.id = i /\ e.node = node /\ e \in [id : Ids, node : {node}]
    BY Zenon, <1>1 DEF Event
  <1>4. CASE budget.lag = 0
    <2>1. pending' = <<>> /\ cache' = api'
      BY Zenon, <1>4 DEF Replace, Write, IInv, Prompt
    <2>2. expect \in Int /\ Cardinality(Missing) <= expect
      BY Zenon DEF IInv, Typed, Counted
    <2>3. expect' \in Int /\ expect' >= 0
      <3>1. PICK a : a = Cardinality(Missing) /\ a \in Nat
        BY Zenon, MissingFinite
      <3>2. expect >= 0
        BY ONLY <3>1, <2>2, SMT
      <3> QED  BY Zenon, <3>2, <2>2
    <2>4. \E N : pending' \in Seq([id : Ids, node : N])
      <3>1. <<>> \in Seq([id : Ids, node : {}])
        BY Zenon, NoEvents
      <3> QED  BY Zenon, <2>1, <3>1
    <2> QED
      BY Zenon, <1>1, <1>2, <2>1, <2>3, <2>4, PromptKeeps DEF IInv, Typed, Kept
  <1>5. CASE budget.lag # 0
    <2>1. pending' = pending \o <<e>> /\ cache' = cache
      BY Zenon, <1>5 DEF Replace, Write
    <2>2. PICK N : pending \in Seq([id : Ids, node : N])
      BY Zenon DEF IInv, Typed
    <2> DEFINE E == [id : Ids, node : N \cup {node}]
               n == Len(pending)
    <2>3. pending \in Seq(E) /\ <<e>> \in Seq(E)
      <3>1. [id : Ids, node : N] \subseteq E /\ e \in E
        BY Zenon, <1>3
      <3> HIDE DEF E, e
      <3> QED
        BY Zenon, <2>2, <3>1, Wider
    <2>4. /\ n \in Nat /\ Len(pending') = n + 1 /\ pending'[n + 1] = e
          /\ \A k \in 1 .. n : pending'[k] = pending[k]
          /\ pending' \in Seq(E)
      <3> HIDE DEF E, e
      <3> QED  BY <2>1, <2>3
    <2> HIDE DEF e, n
    <2>5. \A k \in 1 .. Len(pending') :
            (k \in 1 .. n /\ pending'[k] = pending[k]) \/ (k = n + 1 /\ pending'[k] = e)
      BY <2>4
    <2>6. GoneIsGone'
      BY Zenon, <1>1, <1>3, <2>5 DEF GoneIsGone, IInv, Order, n
    <2>7. GoneStays'
      <3> SUFFICES ASSUME NEW j \in 1 .. Len(pending'), NEW k \in 1 .. Len(pending'), j < k,
                          pending'[j].id = pending'[k].id, pending'[j].node = Gone
                   PROVE  pending'[k].node = Gone
        BY Zenon DEF GoneStays
      <3>1. j \in 1 .. n /\ pending'[j] = pending[j]
        BY <2>4, <2>5
      <3>2. pending'[j].id \notin DOMAIN api
        BY Zenon, <3>1 DEF GoneIsGone, IInv, Order, n
      <3>3. k \in 1 .. n /\ pending'[k] = pending[k]
        BY Zenon, <1>3, <2>5, <3>2
      <3> QED
        BY Zenon, <3>1, <3>3 DEF GoneStays, IInv, Order, n
    <2>8. ASSUME NEW x  PROVE Announced(x)' <=> Announced(x) \/ x = i
      <3>1. n + 1 \in 1 .. Len(pending') /\ 1 .. n \subseteq 1 .. Len(pending')
        BY <2>4
      <3> QED
        BY Zenon, <1>3, <2>4, <2>5, <3>1 DEF Announced, n
    <2>9. Coming'
      BY Zenon, <1>1, <2>1, <2>8 DEF Coming, IInv, Order
    <2>10. Missing' \subseteq Missing
      BY Zenon, <2>1, <2>8 DEF Missing, Coming, IInv, Order
    <2>11. Counted'
      BY Zenon, <2>10, CountedKeeps DEF IInv, Typed
    <2>12. Overdue'
      BY Zenon, <2>10 DEF IInv, Overdue
    <2> QED
      BY Zenon, <1>1, <1>2, <1>5, <2>1, <2>4, <2>6, <2>7, <2>9, <2>11, <2>12
         DEF IInv, Typed, Kept, Order, Prompt
  <1> QED
    BY Zenon, <1>4, <1>5

(* The informer applies one event: it takes its replica out of Missing     *)
(* exactly when addReplica lowers expect.                                  *)
LEMMA DeliverKeeps ==
  ASSUME IInv, Kept, Deliver
  PROVE  IInv'
  <1> DEFINE e == Head(pending)
             n == Len(pending)
  <1>1. PICK N : pending \in Seq([id : Ids, node : N])
    BY Zenon DEF IInv, Typed
  <1>2. /\ n \in Nat /\ n >= 1 /\ Len(pending') = n - 1 /\ e = pending[1]
        /\ \A k \in 1 .. Len(pending') : k + 1 \in 1 .. n /\ pending'[k] = pending[k + 1]
        /\ \A k \in 2 .. n : k - 1 \in 1 .. Len(pending') /\ pending'[k - 1] = pending[k]
        /\ pending' \in Seq([id : Ids, node : N])
    <2>1. PICK E : E = [id : Ids, node : N]
      BY Zenon
    <2>2. pending \in Seq(E) /\ pending # <<>> /\ pending' = Tail(pending)
      BY Zenon, <1>1, <2>1 DEF Deliver
    <2> QED
      BY ONLY <2>2, <2>1, SMT
  <1>3. e.id \in Ids
    <2>1. PICK E : E = [id : Ids, node : N]
      BY Zenon
    <2>2. pending \in Seq(E) /\ 1 <= Len(pending) /\ e = pending[1]
      BY Zenon, <1>1, <1>2, <2>1
    <2>3. e \in E
      BY ONLY <2>2, SMT
    <2> QED  BY Zenon, <2>1, <2>3
  <1>4. e.id # Backup
    BY <1>3, IdsAssumption, SMT DEF Backup
  <1>5. api' = api /\ cache' = Apply(cache, e)
    BY Zenon DEF Deliver
  <1> HIDE DEF e, n
  <1>6. DOMAIN cache' = IF e.node = Gone THEN DOMAIN cache \ {e.id} ELSE DOMAIN cache \cup {e.id}
    BY Zenon, <1>4, <1>5 DEF Apply, Without, Put
  <1>7. ASSUME NEW x, Announced(x)'  PROVE Announced(x)
    BY Zenon, <1>2, <1>7 DEF Announced, n
  <1>8. ASSUME NEW x, Announced(x), x # e.id \/ e.node = Gone  PROVE Announced(x)'
    <2>1. PICK k \in 1 .. n : pending[k].id = x /\ pending[k].node # Gone
      BY Zenon, <1>8 DEF Announced, n
    <2>2. k # 1
      BY Zenon, <1>2, <1>8, <2>1
    <2>3. k \in 2 .. n
      BY ONLY <1>2, <2>1, <2>2, SMT
    <2> QED
      BY Zenon, <1>2, <2>1, <2>3 DEF Announced
  <1>9. ASSUME NEW x, x = e.id, e.node = Gone  PROVE ~Announced(x)'
    <2> SUFFICES ASSUME NEW k \in 1 .. Len(pending'), pending'[k].id = x
                 PROVE  pending'[k].node = Gone
      BY Zenon DEF Announced
    <2>1. 1 \in 1 .. n /\ k + 1 \in 1 .. n /\ 1 < k + 1
      BY ONLY <1>2, k \in 1 .. Len(pending'), SMT
    <2>2. pending'[k] = pending[k + 1]
      BY Zenon, <1>2
    <2> QED
      BY Zenon, <1>2, <1>9, <2>1, <2>2 DEF GoneStays, IInv, Order, n
  <1>10. GoneStays'
    <2> SUFFICES ASSUME NEW j \in 1 .. Len(pending'), NEW k \in 1 .. Len(pending'), j < k,
                        pending'[j].id = pending'[k].id, pending'[j].node = Gone
                 PROVE  pending'[k].node = Gone
      BY Zenon DEF GoneStays
    <2>1. j + 1 < k + 1
      BY ONLY <1>2, j \in 1 .. Len(pending'), k \in 1 .. Len(pending'), j < k, SMT
    <2> QED
      BY Zenon, <1>2, <2>1 DEF GoneStays, IInv, Order, n
  <1>11. GoneIsGone'
    BY Zenon, <1>2, <1>5 DEF GoneIsGone, IInv, Order, n
  <1>12. Coming'
    <2>1. 1 \in 1 .. n
      BY ONLY <1>2, SMT
    <2>2. e.node = Gone => e.id \notin DOMAIN api
      BY Zenon, <1>2, <2>1 DEF GoneIsGone, IInv, Order, n
    <2>3. \A x \in DOMAIN api' \ DOMAIN cache' :
            x \in DOMAIN api \ DOMAIN cache /\ (x # e.id \/ e.node = Gone)
      BY Zenon, <1>5, <1>6, <2>2
    <2> QED
      BY Zenon, <1>8, <2>3 DEF Coming, IInv, Order
  <1>13. Counted' /\ Overdue'
    <2>1. CASE e.node # Gone /\ e.id \notin DOMAIN cache
      <3>1. e.id \in Missing
        <4>1. 1 \in 1 .. n
          BY ONLY <1>2, SMT
        <4> QED
          BY Zenon, <1>2, <1>3, <2>1, <4>1 DEF Missing, Announced, n
      <3>2. Missing' \subseteq Missing \ {e.id}
        BY Zenon, <1>6, <1>7, <2>1 DEF Missing
      <3>3. expect' = expect - 1
        BY Zenon, <2>1 DEF Deliver, IsAdd, e
      <3>4. PICK a, b, c : /\ a = Cardinality(Missing) /\ b = Cardinality(Missing')
                           /\ c = Cardinality(Missing \ {e.id})
        BY Zenon
      <3>5. a \in Nat /\ b \in Nat /\ a <= expect /\ expect \in Int
        BY Zenon, <3>4, MissingFinite DEF IInv, Counted, Typed
      <3>6. c = a - 1 /\ IsFiniteSet(Missing \ {e.id})
        BY Zenon, <3>1, <3>4, MissingFinite, FS_RemoveElement
      <3>7. b <= c
        BY Zenon, <3>2, <3>4, <3>6, FS_Subset
      <3>8. b <= expect'
        BY ONLY <3>3, <3>5, <3>6, <3>7, SMT
      <3> QED
        BY Zenon, <3>1, <3>4, <3>8 DEF Counted, Overdue, IInv, Deliver
    <2>2. CASE ~ (e.node # Gone /\ e.id \notin DOMAIN cache)
      <3>1. expect' = expect
        BY Zenon, <1>4, <2>2 DEF Deliver, IsAdd, e
      <3>2. Missing' \subseteq Missing
        BY Zenon, <1>6, <1>7, <1>9, <2>2 DEF Missing
      <3>3. Overdue'
        BY Zenon, <3>2 DEF Overdue, IInv, Deliver
      <3> QED
        BY Zenon, <3>1, <3>2, <3>3, CountedKeeps DEF IInv, Typed
    <2> QED  BY Zenon, <2>1, <2>2
  <1>14. Typed'
    <2>1. expect' \in Int
      <3>1. expect \in Int /\ expect' \in {expect, expect - 1}
        BY Zenon DEF Deliver, IInv, Typed
      <3> QED  BY ONLY <3>1, SMT
    <2>2. DOMAIN cache' \subseteq Ids
      BY Zenon, <1>3, <1>6 DEF IInv, Typed
    <2> QED
      BY Zenon, <1>2, <1>5, <2>1, <2>2 DEF IInv, Typed, Kept
  <1>15. Prompt'
    BY Zenon DEF Deliver, Prompt, IInv, Kept
  <1> QED
    BY Zenon, <1>10, <1>11, <1>12, <1>13, <1>14, <1>15 DEF IInv, Order

(* Every replica is created under a name that is nowhere in use.           *)
LEMMA NewNames ==
  ASSUME NEW create, NEW new \in NewReplicas(create)
  PROVE  /\ DOMAIN new \subseteq Ids \ (DOMAIN api \cup DOMAIN cache \cup Stale)
         /\ IsFiniteSet(DOMAIN new) /\ Cardinality(DOMAIN new) = Total(create)
  <1>1. PICK T : /\ T \subseteq Ids \ (DOMAIN api \cup DOMAIN cache \cup Stale)
                 /\ Cardinality(T) = Total(create)
                 /\ new \in [T -> DOMAIN create]
    BY Zenon DEF NewReplicas
  <1>2. DOMAIN new = T
    BY Zenon, <1>1
  <1> QED
    BY Zenon, <1>1, <1>2, FS_Subset, IdsAssumption

(* What a Sync writes: to replicas whose cached copy is up to date, and to *)
(* new ones.                                                               *)
Writes(done, new) ==
  /\ done.release \subseteq DOMAIN cache \ Stale
  /\ done.update \subseteq DOMAIN cache \ Stale
  /\ done.create \subseteq DOMAIN new /\ done.owed \subseteq DOMAIN new
  /\ done.expected = {} => done.create = {}

LEMMA BatchesWrite ==
  ASSUME NEW decision, NEW new, NEW failed, NEW refused
  PROVE  Writes(batches(decision, new, failed, refused), new)
  BY Zenon DEF batches, Writes

(* A sequence of elements of S in which all of B occur.                    *)
Lists(q, S, B) == q \in Seq(S) /\ \A x \in B : \E k \in 1 .. Len(q) : q[k] = x

(* Three permutations in a row: all elements of the three sets.            *)
LEMMA InARow ==
  ASSUME NEW A, NEW B, NEW C, IsFiniteSet(A), IsFiniteSet(B), IsFiniteSet(C),
         NEW r \in SetToSeqs(A), NEW c \in SetToSeqs(B), NEW m \in SetToSeqs(C)
  PROVE  Lists(r \o c \o m, A \cup B \cup C, B)
  <1> DEFINE S == A \cup B \cup C
  <1>1. /\ r \in Seq(A) /\ c \in Seq(B) /\ m \in Seq(C)
        /\ \A x \in B : \E k \in 1 .. Len(c) : c[k] = x
    BY Zenon, Permutation
  <1>2. r \in Seq(S) /\ c \in Seq(S) /\ m \in Seq(S)
    BY Zenon, <1>1, Wider
  <1> HIDE DEF S
  <1>3. r \o c \o m \in Seq(S) /\ r \o c \in Seq(S)
    BY Zenon, <1>2, Concatenated
  <1>4. ASSUME NEW x \in B
        PROVE  \E k \in 1 .. Len(r \o c \o m) : (r \o c \o m)[k] = x
    <2>1. PICK k \in 1 .. Len(c) : c[k] = x
      BY Zenon, <1>1
    <2>2. PICK q : q = r \o c
      BY Zenon
    <2>3. /\ q \in Seq(S) /\ q[Len(r) + k] = x /\ Len(q) = Len(r) + Len(c)
          /\ Len(r) \in Nat /\ Len(c) \in Nat
      BY ONLY <1>2, <2>1, <2>2, k \in 1 .. Len(c), SMT
    <2>4. PICK a : a = Len(r) + k
      BY Zenon
    <2>5. a \in 1 .. Len(q) /\ q[a] = x
      BY ONLY <2>3, <2>4, k \in 1 .. Len(c), SMT
    <2>6. a \in 1 .. Len(q \o m) /\ (q \o m)[a] = x
      BY ONLY <1>2, <2>3, <2>5, SMT
    <2> QED
      BY Zenon, <2>2, <2>6
  <1> QED
    BY Zenon, <1>3, <1>4 DEF S, Lists

(* What the writes of a Sync leave of a replica, and what they tell of it. *)
LEMMA WhatIsWritten ==
  ASSUME IInv, NEW decision, NEW new \in NewReplicas(decision.create), NEW done,
         Writes(done, new), NEW i
  PROVE  LET node == written(decision, new, done, i)
         IN  /\ i \in done.release => node = Gone
             /\ i \in (done.create \cup done.update) \ done.release => node # Gone
             /\ i \in (DOMAIN api \ done.release) \cup done.create => "phase" \in DOMAIN node
  <1> DEFINE node == written(decision, new, done, i)
  <1>1. i \in done.create => i \notin done.release
    BY Zenon, NewNames DEF Writes
  <1>2. CASE i \in done.release
    BY Zenon, <1>1, <1>2 DEF written
  <1>3. CASE i \in done.create
    <2>1. node = [version |-> new[i], phase |-> "empty"]
      BY Zenon, <1>1, <1>3 DEF written
    <2> HIDE DEF node
    <2>2. node.phase = "empty" /\ "phase" \in DOMAIN node
      BY <2>1
    <2>3. node # Gone
      BY <2>2 DEF Gone
    <2> QED  BY Zenon, <1>1, <1>3, <2>2, <2>3 DEF node
  <1>4. CASE i \in done.update /\ i \notin done.release /\ i \notin done.create
    <2>1. node = updated(i, decision.update[i])
      BY Zenon, <1>4 DEF written
    <2> HIDE DEF node
    <2>2. node.phase \in {"empty", "starting"} /\ "phase" \in DOMAIN node
      BY <2>1 DEF updated
    <2>3. node # Gone
      BY <2>2 DEF Gone
    <2> QED  BY Zenon, <1>4, <2>2, <2>3 DEF node
  <1>5. CASE i \notin done.release \cup done.create \cup done.update
    BY Zenon, <1>5 DEF written, IInv, Typed
  <1> QED
    BY Zenon, <1>2, <1>3, <1>4, <1>5

(* The events of a Sync, after those that were on their way: they are of    *)
(* other names, and two of one name say the same.                          *)
Appended(decision, new, done) ==
  LET A == done.release \cup done.create \cup done.update
      n == Len(pending)
  IN  /\ A \subseteq Ids /\ A \cap Stale = {}
      /\ n \in Nat /\ Len(pending') \in Nat /\ n <= Len(pending')
      /\ \E N : pending' \in Seq([id : Ids, node : N])
      /\ \A k \in 1 .. n : pending'[k] = pending[k] /\ pending[k].id \in Stale
      /\ \A k \in (n + 1) .. Len(pending') :
           /\ pending'[k].id \in A
           /\ pending'[k].node = written(decision, new, done, pending'[k].id)
      /\ \A x \in done.create : \E k \in (n + 1) .. Len(pending') : pending'[k].id = x

LEMMA SyncEvents ==
  ASSUME IInv, budget.lag # 0, NEW decision, NEW new \in NewReplicas(decision.create), NEW done,
         Writes(done, new), sync(decision, new, done)
  PROVE  Appended(decision, new, done)
  <1> DEFINE A == done.release \cup done.create \cup done.update
             n == Len(pending)
             node(i) == written(decision, new, done, i)
  <1>1. A \subseteq Ids /\ A \cap Stale = {}
    BY Zenon, NewNames DEF Writes, IInv, Typed
  <1>2. IsFiniteSet(done.release) /\ IsFiniteSet(done.create) /\ IsFiniteSet(done.update)
    BY Zenon, <1>1, FS_Subset, IdsAssumption
  <1>3. PICK q : /\ q \in Seq(A)
                 /\ \A x \in done.create : \E k \in 1 .. Len(q) : q[k] = x
                 /\ pending' = pending \o events(decision, new, done, q)
    <2>1. PICK r \in SetToSeqs(done.release), c \in SetToSeqs(done.create),
               m \in SetToSeqs(done.update) :
            Write(left(decision, new, done), events(decision, new, done, r \o c \o m))
      BY Zenon DEF sync
    <2>2. Lists(r \o c \o m, A, done.create)
      BY Zenon, <1>2, InARow
    <2>3. pending' = pending \o events(decision, new, done, r \o c \o m)
      BY Zenon, <2>1 DEF Write
    <2> QED
      BY Zenon, <2>2, <2>3 DEF Lists
  <1> DEFINE new2 == {node(i) : i \in A}
             ev == events(decision, new, done, q)
  <1>4. Len(q) \in Nat /\ \A k \in 1 .. Len(q) : q[k] \in A
    BY ONLY <1>3, SMT
  <1>5. PICK N : pending \in Seq([id : Ids, node : N])
    BY Zenon DEF IInv, Typed
  <1>6. PICK E : E = [id : Ids, node : N \cup new2]
    BY Zenon
  <1>7. pending \in Seq(E)
    <2>1. [id : Ids, node : N] \subseteq E
      BY Zenon, <1>6
    <2> QED  BY Zenon, <1>5, <2>1, Wider
  <1>8. \A k \in 1 .. Len(q) : ev[k].id = q[k] /\ ev[k].node = node(q[k]) /\ ev[k] \in E
    <2> HIDE DEF node
    <2>1. \A i \in A : Event(i, node(i)) \in E /\ Event(i, node(i)).id = i
                       /\ Event(i, node(i)).node = node(i)
      BY Zenon, <1>1, <1>6 DEF Event
    <2>2. \A k \in 1 .. Len(q) : ev[k] = Event(q[k], node(q[k]))
      BY Zenon DEF events, node
    <2> QED  BY Zenon, <1>4, <2>1, <2>2
  <1>9. ev \in [1 .. Len(q) -> E]
    BY Zenon, <1>8 DEF events
  <1> HIDE DEF ev, node
  <1>10. ev \in Seq(E) /\ Len(ev) = Len(q)
    BY ONLY <1>4, <1>9, SMT
  <1>11. pending' = pending \o ev
    BY Zenon, <1>3 DEF ev
  <1>12. /\ n \in Nat /\ Len(pending') = n + Len(q) /\ pending' \in Seq(E)
         /\ \A k \in 1 .. n : pending'[k] = pending[k]
         /\ \A k \in (n + 1) .. Len(pending') : k - n \in 1 .. Len(q) /\ pending'[k] = ev[k - n]
         /\ \A k \in 1 .. Len(q) : pending'[n + k] = ev[k]
    <2>1. /\ pending \o ev \in Seq(E) /\ Len(pending \o ev) = Len(pending) + Len(ev)
          /\ Len(pending) \in Nat
          /\ \A k \in 1 .. Len(pending) : (pending \o ev)[k] = pending[k]
          /\ \A k \in 1 .. Len(ev) : (pending \o ev)[Len(pending) + k] = ev[k]
          /\ \A k \in (Len(pending) + 1) .. Len(pending \o ev) :
               k - Len(pending) \in 1 .. Len(ev) /\ (pending \o ev)[k] = ev[k - Len(pending)]
      BY ONLY <1>7, <1>10, SMT
    <2> QED
      BY Zenon, <1>10, <1>11, <2>1
  <1>13. \A k \in 1 .. n : pending[k].id \in Stale
    <2>1. DOMAIN pending = 1 .. n
      BY ONLY <1>7, SMT
    <2> QED
      BY Zenon, <2>1 DEF Stale, Range
  <1> HIDE DEF n
  <1>14. n <= Len(pending') /\ Len(pending') \in Nat
    BY ONLY <1>4, <1>12, SMT
  <1>15. ASSUME NEW x \in done.create
         PROVE  \E k \in (n + 1) .. Len(pending') : pending'[k].id = x
    <2>1. PICK k \in 1 .. Len(q) : q[k] = x
      BY Zenon, <1>3
    <2>2. PICK j : j = n + k
      BY Zenon
    <2>3. j \in (n + 1) .. Len(pending')
      BY ONLY <1>4, <1>12, <2>2, k \in 1 .. Len(q), SMT
    <2>4. pending'[j] = ev[k]
      BY Zenon, <1>12, <2>2
    <2> QED
      BY Zenon, <1>8, <2>1, <2>3, <2>4
  <1>16. ASSUME NEW k \in (n + 1) .. Len(pending')
         PROVE  pending'[k].id \in A /\ pending'[k].node = node(pending'[k].id)
    <2>1. PICK j \in 1 .. Len(q) : pending'[k] = ev[j]
      BY Zenon, <1>12
    <2> QED
      BY Zenon, <1>4, <1>8, <2>1
  <1>17. \E M : pending' \in Seq([id : Ids, node : M])
    BY Zenon, <1>6, <1>12
  <1> QED
    BY Zenon, <1>1, <1>12, <1>13, <1>14, <1>15, <1>16, <1>17 DEF Appended, n, node

(* Expectations that are satisfied leave nothing missing.                  *)
LEMMA NothingMissing ==
  ASSUME IInv, rsNeedsSync
  PROVE  Missing = {} /\ DOMAIN api \subseteq DOMAIN cache
  <1>1. PICK a : a = Cardinality(Missing)
    BY Zenon
  <1>2. a \in Nat /\ expect \in Int /\ a <= expect
    BY Zenon, <1>1, MissingFinite DEF IInv, Counted, Typed
  <1>3. expect <= 0 => a = 0
    BY ONLY <1>2, SMT
  <1>4. Missing = {}
    BY Zenon, <1>1, <1>3, MissingFinite, FS_EmptySet DEF IInv, Overdue, rsNeedsSync
  <1> QED
    BY Zenon, <1>4 DEF Missing, IInv, Order, Coming, Typed

(* A Sync: what it creates is all that is missing after it, and expected.  *)
LEMMA SyncKeeps ==
  ASSUME IInv, Kept, rsNeedsSync, NEW decision, NEW new \in NewReplicas(decision.create),
         NEW done, Writes(done, new), sync(decision, new, done)
  PROVE  IInv'
  <1>1. /\ DOMAIN api' = (DOMAIN api \ done.release) \cup done.create
        /\ \A i \in DOMAIN api' : api'[i] = written(decision, new, done, i)
    BY Zenon DEF sync, Write, left
  <1>2. DOMAIN api' \subseteq Ids /\ \A i \in DOMAIN api' : "phase" \in DOMAIN api'[i]
    BY Zenon, <1>1, NewNames, WhatIsWritten DEF Writes, IInv, Typed
  <1>3. Missing = {} /\ DOMAIN api \subseteq DOMAIN cache
    BY Zenon, NothingMissing
  <1>4. /\ done.create \cap (DOMAIN api \cup DOMAIN cache \cup Stale) = {}
        /\ done.create \subseteq Ids /\ IsFiniteSet(done.create)
        /\ Cardinality(done.create) \in Nat
    BY Zenon, NewNames, FS_Subset, FS_CardinalityType DEF Writes
  <1>5. /\ expect' \in Int /\ expect' >= 0
        /\ IsFiniteSet(done.create \cup done.owed)
    <2>1. IsFiniteSet(done.owed)
      BY Zenon, NewNames, FS_Subset DEF Writes
    <2>2. IsFiniteSet(done.create \cup done.owed)
      BY Zenon, <1>4, <2>1, FS_Union
    <2>3. PICK a, b, m : /\ a = Cardinality(done.owed) /\ b = Cardinality(done.create \cup done.owed)
                         /\ m = Cardinality(Missing)
      BY Zenon
    <2>4. /\ a \in Nat /\ b \in Nat /\ m \in Nat /\ expect \in Int /\ m <= expect
          /\ expect' \in {expect, a, b}
      BY Zenon, <2>1, <2>2, <2>3, FS_CardinalityType, MissingFinite DEF sync, IInv, Typed, Counted
    <2>5. expect' \in Int /\ expect' >= 0
      BY ONLY <2>4, SMT
    <2> QED
      BY Zenon, <2>2, <2>5
  <1>6. CASE budget.lag = 0
    <2>1. pending' = <<>> /\ cache' = api'
      BY Zenon, <1>6 DEF sync, Write, IInv, Prompt
    <2>2. \E N : pending' \in Seq([id : Ids, node : N])
      <3>1. <<>> \in Seq([id : Ids, node : {}])
        BY Zenon, NoEvents
      <3> QED  BY Zenon, <2>1, <3>1
    <2> QED
      BY Zenon, <1>2, <1>5, <2>1, <2>2, PromptKeeps DEF IInv, Typed, Kept
  <1>7. CASE budget.lag # 0
    <2> DEFINE A == done.release \cup done.create \cup done.update
               n == Len(pending)
               node(i) == written(decision, new, done, i)
    <2>1. cache' = cache
      BY Zenon, <1>7 DEF sync, Write
    <2>2. /\ A \cap Stale = {} /\ n \in Nat /\ Len(pending') \in Nat /\ n <= Len(pending')
          /\ \E N : pending' \in Seq([id : Ids, node : N])
          /\ \A k \in 1 .. n : pending'[k] = pending[k] /\ pending[k].id \in Stale
          /\ \A k \in (n + 1) .. Len(pending') :
               pending'[k].id \in A /\ pending'[k].node = node(pending'[k].id)
          /\ \A x \in done.create : \E k \in (n + 1) .. Len(pending') : pending'[k].id = x
      <3>1. Appended(decision, new, done)
        BY Zenon, <1>7, SyncEvents
      <3> QED
        BY Zenon, <3>1 DEF Appended
    <2>3. \A i \in A : /\ i \in done.release => node(i) = Gone
                       /\ i \notin done.release => node(i) # Gone
      BY Zenon, WhatIsWritten
    <2>4. done.release \subseteq DOMAIN cache /\ done.update \subseteq DOMAIN cache
      BY Zenon DEF Writes
    <2> HIDE DEF node, n
    <2>5. \A k \in 1 .. Len(pending') : k \in 1 .. n \/ k \in (n + 1) .. Len(pending')
      BY ONLY <2>2, SMT
    <2>6. \A j \in (n + 1) .. Len(pending'), k \in 1 .. n : ~ (j < k)
      BY ONLY <2>2, SMT
    <2>7. (n + 1) .. Len(pending') \subseteq 1 .. Len(pending')
      BY ONLY <2>2, SMT
    <2>8. GoneStays'
      <3> SUFFICES ASSUME NEW j \in 1 .. Len(pending'), NEW k \in 1 .. Len(pending'), j < k,
                          pending'[j].id = pending'[k].id, pending'[j].node = Gone
                   PROVE  pending'[k].node = Gone
        BY Zenon DEF GoneStays
      <3>1. CASE j \in 1 .. n /\ k \in 1 .. n
        <4>1. /\ pending'[j] = pending[j] /\ pending'[k] = pending[k]
              /\ j \in 1 .. Len(pending) /\ k \in 1 .. Len(pending)
          BY Zenon, <2>2, <3>1 DEF n
        <4>2. GoneStays
          BY Zenon DEF IInv, Order
        <4> QED  BY Zenon, <4>1, <4>2 DEF GoneStays
      <3>2. CASE j \in 1 .. n /\ k \in (n + 1) .. Len(pending')
        BY Zenon, <2>2, <3>2
      <3>3. CASE j \in (n + 1) .. Len(pending') /\ k \in (n + 1) .. Len(pending')
        <4>1. pending'[j].node = node(pending'[j].id) /\ pending'[k].node = node(pending'[k].id)
          BY Zenon, <2>2, <3>3
        <4> QED  BY Zenon, <4>1
      <3> QED
        BY Zenon, <2>5, <2>6, <3>1, <3>2, <3>3
    <2>9. GoneIsGone'
      <3> SUFFICES ASSUME NEW k \in 1 .. Len(pending'), pending'[k].node = Gone
                   PROVE  pending'[k].id \notin DOMAIN api'
        BY Zenon DEF GoneIsGone
      <3>1. CASE k \in 1 .. n
        <4>1. pending'[k].id \notin DOMAIN api /\ pending'[k].id \in Stale
          BY Zenon, <2>2, <3>1 DEF GoneIsGone, IInv, Order, n
        <4> QED  BY Zenon, <1>1, <1>4, <4>1
      <3>2. CASE k \in (n + 1) .. Len(pending')
        <4>1. pending'[k].id \in done.release
          BY Zenon, <2>2, <2>3, <3>2
        <4> QED  BY Zenon, <1>1, <1>4, <2>4, <4>1
      <3> QED
        BY Zenon, <2>5, <3>1, <3>2
    <2>10. ASSUME NEW x \in done.create  PROVE Announced(x)'
      <3>1. PICK k \in (n + 1) .. Len(pending') : pending'[k].id = x
        BY Zenon, <2>2
      <3>2. x \notin done.release /\ x \in A
        BY Zenon, <1>4, <2>4
      <3>3. pending'[k].node = node(x)
        BY Zenon, <2>2, <3>1
      <3>4. pending'[k].node # Gone
        BY Zenon, <2>3, <3>2, <3>3
      <3> QED
        BY Zenon, <2>7, <3>1, <3>4 DEF Announced
    <2>11. Coming'
      BY Zenon, <1>1, <1>3, <2>1, <2>10 DEF Coming
    <2>12. Missing' \subseteq done.create
      <3> SUFFICES ASSUME NEW x \in Ids \ DOMAIN cache, Announced(x)'
                   PROVE  x \in done.create
        BY Zenon, <2>1 DEF Missing
      <3>1. PICK k \in 1 .. Len(pending') : pending'[k].id = x /\ pending'[k].node # Gone
        BY Zenon DEF Announced
      <3>2. k \notin 1 .. n
        <4>1. k \in 1 .. n => pending'[k] = pending[k]
          BY Zenon, <2>2
        <4>2. ~ Announced(x)
          BY Zenon, <1>3 DEF Missing
        <4> QED
          BY Zenon, <3>1, <4>1, <4>2 DEF Announced, n
      <3> QED
        BY Zenon, <2>2, <2>4, <2>5, <3>1, <3>2
    <2>13. Counted' /\ Overdue'
      <3>1. CASE done.expected = {}
        <4>1. Missing' = {}
          BY Zenon, <2>12, <3>1 DEF Writes
        <4>2. Cardinality(Missing') = 0
          BY Zenon, <4>1, FS_EmptySet
        <4>3. 0 <= expect'
          BY ONLY <1>5, SMT
        <4> QED  BY Zenon, <4>1, <4>2, <4>3 DEF Counted, Overdue
      <3>2. CASE done.expected # {}
        <4>1. expect' = Cardinality(done.create \cup done.owed) /\ expired' = FALSE
          BY Zenon, <1>7, <3>2 DEF sync
        <4>2. Missing' \subseteq done.create \cup done.owed
          BY Zenon, <2>12
        <4> QED
          BY Zenon, <1>5, <4>1, <4>2, FS_Subset DEF Counted, Overdue
      <3> QED  BY Zenon, <3>1, <3>2
    <2> QED
      BY Zenon, <1>2, <1>5, <1>7, <2>1, <2>2, <2>8, <2>9, <2>11, <2>13
         DEF IInv, Typed, Kept, Order, Prompt
  <1> QED
    BY Zenon, <1>6, <1>7

(* Every step keeps the count.                                             *)
LEMMA NextKeeps ==
  ASSUME NoMiscount, IInv, [Next]_vars
  PROVE  IInv'
  <1> DEFINE Fields == DOMAIN budget' = DOMAIN budget /\ budget'.backups = budget.backups
                       /\ budget'.stalls = budget.stalls /\ budget'.lag = budget.lag
  <1>1. ASSUME plan' \in Plans, Fields  PROVE Kept
    BY Zenon, <1>1 DEF Kept, IInv, Typed
  <1>2. ASSUME NEW x, NEW f \in {"changes", "failures", "faults"}, budget' = [budget EXCEPT ![f] = x]
        PROVE  Fields
    BY Zenon, <1>2 DEF IInv, Typed, BudgetFields
  <1>3. plan \in Plans
    BY Zenon DEF IInv, Typed
  <1>4. CASE Sync
    <2>1. PICK decision, new, faulty, refused, done :
            /\ new \in NewReplicas(decision.create)
            /\ done = batches(decision, new, faulty \ refused, refused)
            /\ sync(decision, new, done)
            /\ budget' = [budget EXCEPT !.faults = @ - Cardinality(faulty)]
      BY Zenon, <1>4 DEF Sync
    <2>2. Kept
      BY Zenon, <1>1, <1>2, <1>3, <1>4, <2>1 DEF Sync
    <2> QED
      BY Zenon, <1>4, <2>1, <2>2, SyncKeeps, BatchesWrite DEF Sync
  <1>5. CASE Deliver
    BY Zenon, <1>1, <1>3, <1>5, DeliverKeeps DEF Deliver
  <1>6. ASSUME NEW i, Progress(i)  PROVE IInv'
    <2>1. PICK node : /\ Replace(i, node) /\ i \in DOMAIN api
                      /\ node = [api[i] EXCEPT !.phase = IF @ = "empty" THEN "starting" ELSE "ready"]
      BY Zenon, <1>6 DEF Progress
    <2>2. "phase" \in DOMAIN api[i]
      BY Zenon, <2>1 DEF IInv, Typed
    <2>3. "phase" \in DOMAIN node /\ node.phase \in {"starting", "ready"}
      BY Zenon, <2>1, <2>2
    <2>4. node # Gone
      BY <2>3 DEF Gone
    <2> QED
      BY Zenon, <1>1, <1>3, <1>6, <2>1, <2>3, <2>4, ReplaceKeeps DEF Progress
  <1>7. ASSUME NEW i, Fail(i)  PROVE IInv'
    <2>1. PICK p, node : /\ Replace(i, node) /\ i \in DOMAIN api
                         /\ p \in {"starting", "empty"} /\ node = [api[i] EXCEPT !.phase = p]
      BY Zenon, <1>7 DEF Fail
    <2>2. "phase" \in DOMAIN api[i]
      BY Zenon, <2>1 DEF IInv, Typed
    <2>3. "phase" \in DOMAIN node /\ node.phase \in {"starting", "empty"}
      BY Zenon, <2>1, <2>2
    <2>4. node # Gone
      BY <2>3 DEF Gone
    <2>5. Kept
      BY Zenon, <1>1, <1>2, <1>3, <1>7 DEF Fail
    <2> QED
      BY Zenon, <1>7, <2>1, <2>3, <2>4, <2>5, ReplaceKeeps DEF Fail
  <1>8. ~ CreateBackup
    <2>1. ~ (0 > 0)
      BY SMT
    <2> QED  BY Zenon, <2>1 DEF CreateBackup, IInv, Typed
  <1>9. ASSUME UNCHANGED <<api, cache, pending, expect>>, Kept, expired' => Missing = {}
        PROVE  IInv'
    <2>1. Typed'
      BY Zenon, <1>9 DEF IInv, Typed, Kept
    <2>2. Prompt'
      BY Zenon, <1>9 DEF IInv, Prompt, Kept
    <2>3. GoneStays' /\ GoneIsGone'
      BY Zenon, <1>9 DEF IInv, Order, GoneStays, GoneIsGone
    <2>4. Coming'
      BY Zenon, <1>9 DEF IInv, Order, Coming, Announced
    <2>5. Missing' = Missing
      BY Zenon, <1>9 DEF Missing, Announced
    <2>6. Counted' /\ Overdue'
      BY Zenon, <1>9, <2>5 DEF IInv, Counted, Overdue
    <2> QED
      BY Zenon, <2>1, <2>2, <2>3, <2>4, <2>6 DEF IInv, Order
  <1>10. CASE Rollout \/ ChangePlan
    BY Zenon, <1>1, <1>2, <1>3, <1>9, <1>10 DEF Rollout, ChangePlan, IInv, Overdue
  <1>11. CASE UNCHANGED vars
    BY Zenon, <1>1, <1>3, <1>9, <1>11 DEF vars, IInv, Overdue
  <1>12. CASE Expire
    <2>1. ASSUME NEW x \in Missing  PROVE FALSE
      <3>1. PICK k \in 1 .. Len(pending) : pending[k].id = x /\ pending[k].node # Gone
        BY Zenon, <2>1 DEF Missing, Announced
      <3>2. 1 .. Len(pending) = DOMAIN pending
        <4>1. PICK N : pending \in Seq([id : Ids, node : N])
          BY Zenon DEF IInv, Typed
        <4>2. PICK E : E = [id : Ids, node : N]
          BY Zenon
        <4>3. pending \in Seq(E)
          BY Zenon, <4>1, <4>2
        <4> QED
          BY ONLY <4>3, SMT
      <3>3. pending[k] \in Range(pending)
        BY Zenon, <3>2 DEF Range
      <3>4. IsAdd(pending[k])
        BY Zenon, <2>1, <3>1 DEF IsAdd, Missing
      <3> QED
        BY Zenon, <1>12, <3>3, <3>4 DEF Expire
    <2> QED
      BY Zenon, <1>1, <1>3, <1>9, <1>12, <2>1 DEF Expire
  <1>13. ~ Stall
    <2>1. ~ (0 > 0)
      BY SMT
    <2> QED  BY Zenon, <2>1 DEF Stall, IInv, Typed
  <1> QED
    BY Zenon, <1>4, <1>5, <1>6, <1>7, <1>8, <1>10, <1>11, <1>12, <1>13 DEF Next

(* At first the cache is what is at the server.                            *)
LEMMA InitOK ==
  ASSUME NoMiscount, Init
  PROVE  IInv
  <1>1. budget \in [changes : Nat, failures : Nat, faults : Nat, refusing : BOOLEAN,
                    backups : Nat, stalls : Nat, lag : Nat]
    BY Zenon, BudgetsAssumption DEF Init
  <1>2. DOMAIN budget = BudgetFields /\ budget.backups = 0 /\ budget.stalls = 0
    BY <1>1 DEF Init, NoMiscount, BudgetFields
  <1>3. DOMAIN api \subseteq Ids /\ \A i \in DOMAIN api : "phase" \in DOMAIN api[i]
    <2>1. PICK S : S \subseteq Ids /\ api = [i \in S |-> [version |-> 1, phase |-> "ready"]]
      BY Zenon DEF Init
    <2>2. "phase" \in DOMAIN [version |-> 1, phase |-> "ready"]
      BY SMT
    <2> QED  BY Zenon, <2>1, <2>2
  <1>4. pending = <<>> /\ cache = api /\ expect = 0 /\ plan \in Plans
    BY Zenon DEF Init
  <1>5. \E N : pending \in Seq([id : Ids, node : N])
    <2>1. <<>> \in Seq([id : Ids, node : {}])
      BY Zenon, NoEvents
    <2> QED  BY Zenon, <1>4, <2>1
  <1>6. Typed /\ Prompt
    <2>1. expect \in Int
      BY ONLY <1>4, SMT
    <2> QED
      BY Zenon, <1>2, <1>3, <1>4, <1>5, <2>1 DEF Typed, Prompt
  <1>7. 1 .. Len(pending) = {}
    BY <1>4
  <1>8. Order
    BY Zenon, <1>4, <1>7 DEF Order, GoneStays, GoneIsGone, Coming
  <1>9. Missing = {}
    BY Zenon, <1>7 DEF Missing, Announced
  <1>10. Counted /\ Overdue
    BY <1>4, <1>9, FS_EmptySet DEF Counted, Overdue
  <1> QED
    BY Zenon, <1>6, <1>8, <1>10 DEF IInv

(* SatisfiedExpectations: for every set of names, every plan, every lag of *)
(* the informer and every pattern of writes that fail or never run, a Sync *)
(* that goes ahead, its expectations fulfilled or expired, has in its      *)
(* cache all the replicas at the server; where the informer shows a        *)
(* creation before the expectation of it expires, and no backup workers    *)
(* are counted for replicas (NoMiscount).                                  *)
THEOREM ExpectationsDoTheirWork ==
  SafetySpec => []SyncSeesCreated
  <1> DEFINE Inv == NoMiscount => IInv
  <1>1. Init => Inv
    BY Zenon, InitOK
  <1>2. Inv /\ [Next]_vars => Inv'
    BY Zenon, NextKeeps
  <1>3. Inv => SyncSeesCreated
    BY Zenon, NothingMissing DEF SyncSeesCreated
  <1> QED
    BY <1>1, <1>2, <1>3, PTL DEF SafetySpec

-----------------------------------------------------------------------------
(* The number of replicas.                                                 *)

LEMMA MaxReplicasInt ==
  ASSUME plan \in Plans
  PROVE  maxReplicas \in Int
  <1>1. ASSUME NEW x, x.val \in Nat, NEW total \in Nat, NEW up \in BOOLEAN
        PROVE  GetValueFromIntOrPercent(x, total, up) \in Int
    <2>1. PICK v \in Nat : v = x.val
      BY Zenon, <1>1
    <2>2. v \in Int /\ (v * total) \div 100 \in Int /\ -((-(v * total)) \div 100) \in Int
      BY ONLY v \in Nat, total \in Nat, SMT
    <2> QED
      BY Zenon, <2>1, <2>2 DEF GetValueFromIntOrPercent, CeilDiv
  <1>2. plan.replicas \in Nat /\ plan.maxSurge.val \in Nat /\ plan.maxUnavailable.val \in Nat
    BY Zenon, PlansAssumption
  <1> DEFINE surge == GetValueFromIntOrPercent(plan.maxSurge, plan.replicas, TRUE)
             count == ResolveFenceposts(plan.maxSurge, plan.maxUnavailable, plan.replicas)
             strategy == ParseScheduleStrategy(plan)
  <1>3. surge \in Int
    BY Zenon, <1>1, <1>2
  <1>4. count.surge \in {1, surge}
    BY Zenon DEF ResolveFenceposts
  <1>5. strategy.maxSurge \in {0, count.surge}
    BY Zenon DEF ParseScheduleStrategy
  <1>6. maxReplicas \in {plan.replicas, plan.replicas + strategy.maxSurge}
    BY Zenon DEF maxReplicas, initScheduleArgs
  <1>7. PICK r \in Nat, g \in Int : r = plan.replicas /\ g = surge
    BY Zenon, <1>2, <1>3
  <1> HIDE DEF surge, count, strategy
  <1> QED
    BY <1>4, <1>5, <1>6, <1>7

(* What a Sync creates it has decided on: names for all of it are picked.  *)
LEMMA AsManyAsDecided ==
  ASSUME NEW create, NEW new \in NewReplicas(create)
  PROVE  /\ IsFiniteSet(DOMAIN new) /\ Cardinality(DOMAIN new) \in Nat
         /\ Total(create) = Cardinality(DOMAIN new)
  <1>1. Cardinality(DOMAIN new) = Total(create)
    BY Zenon DEF NewReplicas
  <1> QED
    BY Zenon, <1>1, NewNames, FS_CardinalityType

(* collectRedundantNode and supplyNode keep within maxReplicas what they   *)
(* see of the replicas; where this holds, no step adds replicas beyond     *)
(* maxReplicas, though they see only the cache: what it misses a Sync      *)
(* waits for, and what it has too much only lowers the number of new ones. *)
(* As for the expectations, NoMiscount is needed.                          *)
THEOREM SurgeIsBounded ==
  ASSUME NoMiscount
  PROVE  SafetySpec /\ []TargetsSane => SurgeBound
  <1> DEFINE Grows == Cardinality(DOMAIN api') > Cardinality(DOMAIN api)
  <1>1. Init => IInv
    BY Zenon, InitOK
  <1>2. IInv /\ [Next]_vars => IInv'
    BY Zenon, NextKeeps
  <1>3. ASSUME IInv, TargetsSane, [Next]_vars
        PROVE  [Grows => Cardinality(DOMAIN api') <= maxReplicas]_vars
    <2>1. DOMAIN api \subseteq Ids /\ DOMAIN cache \subseteq Ids
      BY Zenon, <1>3 DEF IInv, Typed
    <2>2. /\ IsFiniteSet(DOMAIN api) /\ Cardinality(DOMAIN api) \in Nat
          /\ IsFiniteSet(DOMAIN cache) /\ Cardinality(DOMAIN cache) \in Nat
      BY Zenon, <2>1, FS_Subset, FS_CardinalityType, IdsAssumption
    <2>3. ASSUME DOMAIN api' \subseteq DOMAIN api  PROVE ~ Grows
      <3>1. Cardinality(DOMAIN api') \in Nat /\ Cardinality(DOMAIN api') <= Cardinality(DOMAIN api)
        BY Zenon, <2>2, <2>3, FS_Subset, FS_CardinalityType
      <3>2. PICK a \in Nat, b \in Nat : a = Cardinality(DOMAIN api') /\ b = Cardinality(DOMAIN api)
        BY Zenon, <2>2, <3>1
      <3>3. a <= b
        BY Zenon, <3>1, <3>2
      <3>4. ~ (a > b)
        BY ONLY a \in Nat, b \in Nat, <3>3, SMT
      <3> QED
        BY Zenon, <3>2, <3>4
    <2>4. CASE Sync
      <3>1. PICK decision, new, faulty, refused, done :
              /\ decision \in decisions
              /\ new \in NewReplicas(decision.create)
              /\ done = batches(decision, new, faulty \ refused, refused)
              /\ sync(decision, new, done)
        BY Zenon, <2>4 DEF Sync
      <3>2. done.create \subseteq DOMAIN new
        BY Zenon, <3>1, BatchesWrite DEF Writes
      <3>3. DOMAIN api' = (DOMAIN api \ done.release) \cup done.create
        BY Zenon, <3>1 DEF sync, Write, left
      <3>4. CASE done.create = {}
        BY Zenon, <2>3, <3>3, <3>4
      <3>5. CASE done.create # {}
        <4>1. DOMAIN api \subseteq DOMAIN cache
          BY Zenon, <1>3, <2>4, NothingMissing DEF Sync
        <4>2. /\ IsFiniteSet(DOMAIN new) /\ Cardinality(DOMAIN new) \in Nat
              /\ Total(decision.create) = Cardinality(DOMAIN new) /\ DOMAIN new # {}
          BY Zenon, <3>1, <3>2, <3>5, AsManyAsDecided
        <4>3. Cardinality(DOMAIN new) # 0
          BY Zenon, <4>2, FS_EmptySet
        <4>4. DOMAIN api' \subseteq DOMAIN cache \cup DOMAIN new
          BY Zenon, <3>2, <3>3, <4>1
        <4>5. /\ IsFiniteSet(DOMAIN cache \cup DOMAIN new)
              /\ Cardinality(DOMAIN cache \cup DOMAIN new) \in Nat
              /\ Cardinality(DOMAIN api') \in Nat
              /\ Cardinality(DOMAIN api') <= Cardinality(DOMAIN cache \cup DOMAIN new)
          BY Zenon, <2>2, <4>2, <4>4, FS_Union, FS_Subset, FS_CardinalityType
        <4>6. PICK a, b, c, u, i, m :
                /\ a = Cardinality(DOMAIN api') /\ u = Cardinality(DOMAIN cache \cup DOMAIN new)
                /\ b = Cardinality(DOMAIN cache) /\ c = Cardinality(DOMAIN new)
                /\ i = Cardinality(DOMAIN cache \cap DOMAIN new) /\ m = maxReplicas
          BY Zenon
        <4>7. /\ a \in Nat /\ b \in Nat /\ c \in Nat /\ u \in Nat /\ i \in Nat /\ m \in Int
              /\ a <= u /\ u = b + c - i /\ c # 0
          <5>1. IsFiniteSet(DOMAIN cache \cap DOMAIN new)
            BY Zenon, <2>2, <4>2, FS_Intersection
          <5>2. i \in Nat
            BY Zenon, <4>6, <5>1, FS_CardinalityType
          <5>3. u = b + c - i
            BY Zenon, <2>2, <4>2, <4>6, FS_Union
          <5>4. m \in Int
            BY Zenon, <1>3, <4>6, MaxReplicasInt DEF IInv, Typed
          <5> QED
            BY Zenon, <2>2, <4>2, <4>3, <4>5, <4>6, <5>2, <5>3, <5>4
        <4>8. c > 0 => b + c <= m
          BY Zenon, <1>3, <3>1, <4>2, <4>6 DEF TargetsSane, CreatesWithin
        <4>9. a <= m
          BY ONLY <4>7, <4>8, SMT
        <4> QED
          BY Zenon, <4>6, <4>9
      <3> QED
        BY Zenon, <3>4, <3>5
    <2>5. CASE Deliver \/ Expire \/ Stall \/ CreateBackup \/ Rollout \/ ChangePlan \/ UNCHANGED vars
      BY Zenon, <2>3, <2>5 DEF Deliver, Expire, Stall, CreateBackup, Write, Rollout, ChangePlan, vars
    <2>6. CASE \E i \in Ids : Progress(i) \/ Fail(i)
      BY Zenon, <2>3, <2>6 DEF Progress, Fail, Replace, Write
    <2> QED
      BY Zenon, <1>3, <2>4, <2>5, <2>6 DEF Next
  <1>4. IInv /\ TargetsSane /\ [Next]_vars
          => [Grows => Cardinality(DOMAIN api') <= maxReplicas]_vars
    BY Zenon, <1>3
  <1> QED
    BY <1>1, <1>2, <1>4, PTL DEF SafetySpec, SurgeBound
=============================================================================
