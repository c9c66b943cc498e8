------------------------- MODULE DocumentQuotaProofs -------------------------
(***************************************************************************)
(* For any collections, names, requests and limits: the usage accounts for *)
(* every document, and documents are added only while the limit of the     *)
(* user has room, and within the limit of the collection that the request  *)
(* read.  All three rest on one fact: who                                  *)
(* has consumed or released quota holds the quota row until it commits, so *)
(* that what it computed from the usage is still right.                    *)
(***************************************************************************)
EXTENDS DocumentQuota, FiniteSetTheorems, TLAPS

Adding == {"create", "confirm"}

\* The documents a request has handled or will still handle.
Covered(q) == (q.mine \cup q.todo \cup {q.cur}) \cap Docs

\* What the code of a request says of the request alone.
Shape(q) ==
  /\ q.pc = "idle" => q.op = "none" /\ q.mine = {}
  /\ q.pc \in {"quota", "count"} => q.op \in Adding /\ q.mine = {} /\ q.todo # {}
  /\ q.pc = "next" => q.op \in Adding \cup {"delete"}
  /\ q.pc = "found" => q.op \in Adding \cup {"delete", "expire"} /\ q.cur \in Docs
  /\ q.pc = "release" => q.op = "delete" /\ q.mine # {}
  /\ q.pc \in {"recounted", "write"} => q.op = "recount"
  /\ q.mine \cap q.todo = {} /\ q.cur \notin q.mine \cup q.todo
  /\ q.pc # "found" => q.cur = NoDoc
  /\ q.op \in Adding => /\ Cardinality(Covered(q)) <= q.amount
                        /\ \A d, e \in Covered(q) : d[1] = e[1]

\* A request that has consumed quota, and one that has documents to release
\* quota for.
Paying(q) == q.op \in Adding /\ q.pc \in {"count", "next", "found"}
Releasing(q) == q.op = "delete" /\ q.mine # {}

\* Nobody else holds the quota row.
LockInUse(r) == quotaLock = r => Paying(req[r]) \/ Releasing(req[r])

\* A request that has consumed quota holds the row, so that the usage and the
\* limit are what it read, and its collection has the room it found.
HasRoom(q, added) ==
  \A c \in Collections :
    InCollection(c, Covered(q)) # {} => Cardinality(InCollection(c, added)) + q.amount <= q.read

Paid(r) ==
  Paying(req[r]) =>
    /\ quotaLock = r
    /\ req[r].used = usage + req[r].amount
    /\ req[r].used <= limit
    /\ req[r].pc # "count" => HasRoom(req[r], Added)

\* A deletion has released one place for each document it has flushed, but
\* for the last one while it waits for the row.
Unreleased(q) == IF q.pc = "release" THEN 1 ELSE 0

Given(r) ==
  Releasing(req[r]) =>
    IF quotaLock = r
    THEN usage + Unreleased(req[r]) <= req[r].used + Cardinality(req[r].mine)
    ELSE req[r].pc = "release" /\ Cardinality(req[r].mine) = 1

Consistent(r) == Shape(req[r]) /\ LockInUse(r) /\ Paid(r) /\ Given(r)

AllConsistent == \A r \in Requests : Consistent(r)

IInv == TypeOK /\ AllConsistent /\ UsageIsAccounted

-----------------------------------------------------------------------------
(* Sets of documents are finite, and what is counted are numbers. *)

LEMMA DocsFinite == \A D \in SUBSET Docs : IsFiniteSet(D) /\ Cardinality(D) \in Nat
<1>1. IsFiniteSet(Docs)
  BY ConstantsAssumption, FS_Product DEF Docs
<1> QED BY <1>1, FS_Subset, FS_CardinalityType

LEMMA NoDocIsNone == NoDoc \notin Docs
BY DEF NoDoc, Docs

LEMMA AddedIsDocs == /\ Added \subseteq Docs
                     /\ \A s : WithStatus(s) \subseteq Docs
                     /\ \A c, D : InCollection(c, D) \subseteq D
BY DEF Added, WithStatus, InCollection

LEMMA CountSub ==
  ASSUME NEW D \in SUBSET Docs, NEW E \in SUBSET D
  PROVE  Cardinality(E) <= Cardinality(D)
BY DocsFinite, FS_Subset

\* Documents that leave a set and documents that come into it.
LEMMA CountParts ==
  ASSUME NEW D \in SUBSET Docs, NEW M \in SUBSET Docs
  PROVE  /\ Cardinality(D \cup M) <= Cardinality(D) + Cardinality(M)
         /\ Cardinality(D \ M) + Cardinality(M) = Cardinality(D) + Cardinality(M \ D)
<1>1. /\ Cardinality(D \cup M) = Cardinality(D) + Cardinality(M) - Cardinality(D \cap M)
      /\ Cardinality(D \cap M) \in Nat
  BY DocsFinite, FS_Union
<1>2. Cardinality(D \cup M) = Cardinality(D \ M) + Cardinality(M)
  <2>1. D \cup M = (D \ M) \cup M /\ (D \ M) \cap M = {}
    OBVIOUS
  <2>2. IsFiniteSet(D \ M) /\ IsFiniteSet(M)
    BY DocsFinite
  <2>3. Cardinality((D \ M) \cup M)
          = Cardinality(D \ M) + Cardinality(M) - Cardinality((D \ M) \cap M)
    BY <2>2, FS_Union
  <2>4. /\ Cardinality((D \ M) \cap M) = 0
        /\ Cardinality(D \cup M) = Cardinality((D \ M) \cup M)
    BY <2>1, FS_EmptySet
  <2>5. Cardinality(D \ M) \in Nat /\ Cardinality(M) \in Nat
    BY DocsFinite
  <2> QED BY <2>3, <2>4, <2>5
<1>3. Cardinality(D \cup M) = Cardinality(M \ D) + Cardinality(D)
  <2>1. D \cup M = (M \ D) \cup D /\ (M \ D) \cap D = {}
    OBVIOUS
  <2>2. IsFiniteSet(M \ D) /\ IsFiniteSet(D)
    BY DocsFinite
  <2>3. Cardinality((M \ D) \cup D)
          = Cardinality(M \ D) + Cardinality(D) - Cardinality((M \ D) \cap D)
    BY <2>2, FS_Union
  <2>4. /\ Cardinality((M \ D) \cap D) = 0
        /\ Cardinality(D \cup M) = Cardinality((M \ D) \cup D)
    BY <2>1, FS_EmptySet
  <2>5. Cardinality(M \ D) \in Nat /\ Cardinality(D) \in Nat
    BY DocsFinite
  <2> QED BY <2>3, <2>4, <2>5
<1> QED BY <1>1, <1>2, <1>3, DocsFinite

-----------------------------------------------------------------------------
(* Types *)

LEMMA IdleTyped == IdleRequest \in Request /\ IdleRequest.pc = "idle"
                   /\ IdleRequest.op = "none" /\ IdleRequest.mine = {}
                   /\ IdleRequest.todo = {} /\ IdleRequest.cur = NoDoc
BY DEF IdleRequest, Request

\* A step of a request leaves the other requests alone.
Only(r, q) == req' = [req EXCEPT ![r] = q]

LEMMA TypeInit == Init => TypeOK
BY IdleTyped DEF Init, TypeOK, DocumentStatus

LEMMA LockTypes ==
  ASSUME TypeOK, NEW r \in Requests, Abort(r)
  PROVE  /\ req' = [req EXCEPT ![r] = IdleRequest]
         /\ req' \in [Requests -> Request]
         /\ quotaLock' \in Requests \cup {NoRequest}
         /\ docLock' \in [Docs -> Requests \cup {NoRequest}]
         /\ quotaLock' = IF quotaLock = r THEN NoRequest ELSE quotaLock
BY IdleTyped DEF Abort, Unlock, TypeOK

LEMMA ListsAreDocs == \A D \in Lists : D \subseteq Docs /\ D # {}
                         /\ \A d, e \in D : d[1] = e[1]
BY DEF Lists, Docs

-----------------------------------------------------------------------------
(* One request at a time *)

LEMMA TypesOf ==
  ASSUME TypeOK, NEW r \in Requests
  PROVE  /\ req[r] \in Request
         /\ req[r].todo \subseteq Docs /\ req[r].mine \subseteq Docs
         /\ req[r].cur \in Docs \cup {NoDoc}
         /\ req[r].amount \in Nat /\ req[r].used \in Nat /\ req[r].read \in Nat
         /\ Covered(req[r]) \subseteq Docs
         /\ usage \in Nat /\ unpaid \in Nat /\ limit \in Nat /\ perCollection \in Nat
BY ConstantsAssumption DEF TypeOK, Request, Covered

\* What r does leaves the others consistent, if it changes the lock, the
\* usage or what is added only while no other request holds the row.
LEMMA OthersConsistent ==
  ASSUME IInv, NEW r \in Requests, NEW s \in Requests \ {r}, TypeOK',
         req'[s] = req[s],
         quotaLock' = quotaLock \/ {quotaLock, quotaLock'} \subseteq {r, NoRequest},
         usage' = usage \/ quotaLock \in {r, NoRequest},
         limit' = limit,
         Added' \subseteq Added \/ quotaLock = r
  PROVE  Consistent(s)'
<1> USE DEF IInv, AllConsistent, Consistent
<1>1. s # NoRequest /\ Consistent(s)
  BY ConstantsAssumption
<1>2. LockInUse(s)'
  BY <1>1 DEF LockInUse
<1>3. Paid(s)'
  <2> SUFFICES ASSUME Paying(req[s]) PROVE Paid(s)'
    BY DEF Paid
  <2>1. quotaLock = s /\ quotaLock' = s /\ usage' = usage /\ Added' \subseteq Added
    BY <1>1 DEF Paid
  <2>2. HasRoom(req[s], Added) => HasRoom(req[s], Added')
    <3> SUFFICES ASSUME HasRoom(req[s], Added), NEW c \in Collections,
                        InCollection(c, Covered(req[s])) # {}
                 PROVE  Cardinality(InCollection(c, Added')) + req[s].amount <= req[s].read
      BY DEF HasRoom
    <3>1. InCollection(c, Added') \subseteq InCollection(c, Added) /\ InCollection(c, Added) \subseteq Docs
      BY <2>1, AddedIsDocs DEF InCollection
    <3>2. /\ Cardinality(InCollection(c, Added')) <= Cardinality(InCollection(c, Added))
          /\ Cardinality(InCollection(c, Added')) \in Nat /\ Cardinality(InCollection(c, Added)) \in Nat
      BY <3>1, CountSub, DocsFinite
    <3> QED BY <3>2, TypesOf, ConstantsAssumption DEF HasRoom
  <2> QED BY <1>1, <2>1, <2>2 DEF Paid
<1>4. Given(s)'
  BY <1>1 DEF Given
<1> QED BY <1>1, <1>2, <1>3, <1>4

\* What is counted stays right while the documents added only get fewer.
LEMMA FewerAdded ==
  ASSUME IInv, Added' \subseteq Added
  PROVE  UNCHANGED <<usage, unpaid>> => UsageIsAccounted'
<1>1. /\ Cardinality(Added') <= Cardinality(Added)
      /\ Cardinality(Added') \in Nat /\ Cardinality(Added) \in Nat
  BY AddedIsDocs, CountSub, DocsFinite
<1> QED BY <1>1 DEF IInv, TypeOK, UsageIsAccounted

\* A step that concerns one request and adds nothing.
LEMMA QuietStep ==
  ASSUME IInv, NEW r \in Requests, NEW q \in Request, Only(r, q), TypeOK',
         quotaLock' = quotaLock \/ {quotaLock, quotaLock'} \subseteq {r, NoRequest},
         UNCHANGED <<limit, perCollection, usage, unpaid>>, Added' \subseteq Added,
         Consistent(r)'
  PROVE  IInv'
<1>1. \A s \in Requests \ {r} : req'[s] = req[s]
  BY DEF Only, IInv, TypeOK
<1>2. \A s \in Requests \ {r} : Consistent(s)'
  BY <1>1, OthersConsistent
<1> QED BY <1>2, FewerAdded DEF IInv, AllConsistent

-----------------------------------------------------------------------------
(* Steps that add nothing *)

LEMMA UploadKeeps == ASSUME IInv, NEW d \in Docs, UploadDocument(d) PROVE IInv'
<1> USE DEF UploadDocument, IInv
<1>1. TypeOK'
  BY DEF TypeOK, DocumentStatus
<1>2. Added' = Added
  BY DEF TypeOK, Added, WithStatus
<1>3. AllConsistent'
  BY <1>2 DEF AllConsistent, Consistent, LockInUse, Paid, Given, HasRoom
<1> QED BY <1>1, <1>2, <1>3, FewerAdded

\* The limit waits for the row, so nobody is between check and commit.
LEMMA LimitKeeps == ASSUME IInv, NEW n \in Limits, UpdateUserQuota(n) PROVE IInv'
<1> USE DEF UpdateUserQuota, IInv
<1>1. TypeOK'
  BY DEF TypeOK
<1>2. Added' = Added
  BY DEF Added, WithStatus
<1>3. \A r \in Requests : quotaLock # r
  BY ConstantsAssumption
<1>4. AllConsistent'
  BY <1>2, <1>3 DEF AllConsistent, Consistent, LockInUse, Paid, Given
<1> QED BY <1>1, <1>2, <1>4, FewerAdded

\* The limit of a collection changes at any time; a request keeps to the one
\* it read.
LEMMA CollectionLimitKeeps ==
  ASSUME IInv, NEW n \in CollectionLimits, UpdateCollectionQuota(n)
  PROVE  IInv'
<1> USE DEF UpdateCollectionQuota, IInv
<1>1. TypeOK'
  BY DEF TypeOK
<1>2. Added' = Added
  BY DEF Added, WithStatus
<1>3. AllConsistent'
  BY <1>2 DEF AllConsistent, Consistent, LockInUse, Paid, Given, HasRoom
<1> QED BY <1>1, <1>2, <1>3, FewerAdded

\* A request that ends without effect.
LEMMA AbortKeeps ==
  ASSUME IInv, NEW r \in Requests, Abort(r), UNCHANGED <<doc, limit, perCollection, usage, unpaid>>
  PROVE  IInv'
<1>1. TypeOK'
  BY LockTypes DEF IInv, TypeOK
<1>2. Added' = Added
  BY DEF Added, WithStatus
<1>3. Only(r, IdleRequest) /\ req'[r] = IdleRequest /\ quotaLock' # r
      /\ quotaLock' = IF quotaLock = r THEN NoRequest ELSE quotaLock
  BY LockTypes, ConstantsAssumption DEF IInv, TypeOK, Only
<1>4. Consistent(r)'
  BY <1>3, IdleTyped, NoDocIsNone DEF Consistent, Shape, LockInUse, Paid, Given, Paying,
                                     Releasing, Adding, Covered
<1> QED BY <1>1, <1>2, <1>3, <1>4, QuietStep, IdleTyped

LEMMA BeginKeeps ==
  ASSUME IInv, NEW r \in Requests, NEW op \in {"create", "confirm", "delete"},
         NEW D \in Lists, Begin(r, op, D)
  PROVE  IInv'
<1> DEFINE q == [IdleRequest EXCEPT
                   !.op = op, !.pc = IF op = "delete" THEN "next" ELSE "quota",
                   !.todo = D, !.amount = Cardinality(D)]
<1>1. D \subseteq Docs /\ D # {} /\ \A d, e \in D : d[1] = e[1]
  BY ListsAreDocs
<1>2. q \in Request
  BY <1>1, DocsFinite DEF Request, IdleRequest
<1>3. Only(r, q) /\ UNCHANGED <<doc, limit, perCollection, usage, unpaid, quotaLock, docLock>>
      /\ req[r].pc = "idle" /\ req'[r] = q
  BY DEF Begin, Only, IInv, TypeOK
<1>4. TypeOK' /\ Added' = Added
  BY <1>2, <1>3 DEF IInv, TypeOK, Only, Added, WithStatus
<1>5. /\ q.mine = {} /\ q.todo = D /\ q.cur = NoDoc /\ q.op = op /\ q.amount = Cardinality(D)
      /\ q.pc = IF op = "delete" THEN "next" ELSE "quota"
  BY DEF IdleRequest
<1>6. Covered(q) = D
  BY <1>1, <1>5, NoDocIsNone DEF Covered
<1>7. quotaLock # r
  BY <1>3 DEF IInv, AllConsistent, Consistent, LockInUse, Shape, Paying, Releasing
<1>8. Shape(q)
  <2> HIDE DEF q
  <2> QED BY <1>1, <1>5, <1>6, NoDocIsNone, DocsFinite DEF Shape, Adding
<1>9. Consistent(r)'
  <2> HIDE DEF q
  <2> QED BY <1>3, <1>5, <1>7, <1>8 DEF Consistent, LockInUse, Paid, Given, Paying,
                                       Releasing, Adding
<1> QED BY <1>2, <1>3, <1>4, <1>9, QuietStep

LEMMA FindExpiredKeeps ==
  ASSUME IInv, NEW r \in Requests, NEW d \in Docs, FindExpired(r, d)
  PROVE  IInv'
<1> DEFINE q == [IdleRequest EXCEPT !.op = "expire", !.pc = "found", !.cur = d]
<1>1. q \in Request
  BY DEF Request, IdleRequest
<1>2. Only(r, q) /\ UNCHANGED <<doc, limit, perCollection, usage, unpaid, quotaLock, docLock>>
      /\ req[r].pc = "idle" /\ req'[r] = q
  BY DEF FindExpired, Only, IInv, TypeOK
<1>3. TypeOK' /\ Added' = Added
  BY <1>1, <1>2 DEF IInv, TypeOK, Only, Added, WithStatus
<1>4. q.mine = {} /\ q.todo = {} /\ q.cur = d /\ q.op = "expire" /\ q.pc = "found"
  BY DEF IdleRequest
<1>5. quotaLock # r
  BY <1>2 DEF IInv, AllConsistent, Consistent, LockInUse, Shape, Paying, Releasing
<1>6. Consistent(r)'
  <2> HIDE DEF q
  <2> QED BY <1>2, <1>4, <1>5 DEF Consistent, Shape, LockInUse, Paid, Given, Paying,
                                  Releasing, Adding
<1> QED BY <1>1, <1>2, <1>3, <1>6, QuietStep


\* A recalculation holds no row until it writes.
LEMMA RecountKeeps ==
  ASSUME IInv, NEW r \in Requests, Recount(r) \/ ReadUsage(r)
  PROVE  IInv'
<1> DEFINE n == Cardinality(WithStatus({"UPLOADED", "ADDED", "EXPIRED"}))
           q == IF Recount(r)
                THEN [IdleRequest EXCEPT !.op = "recount", !.pc = "recounted", !.used = n]
                ELSE [req[r] EXCEPT !.pc = "write", !.read = usage]
<1>1. n \in Nat
  BY AddedIsDocs, DocsFinite
<1>2. UNCHANGED <<doc, limit, perCollection, usage, unpaid, quotaLock, docLock>> /\ Only(r, q)
  BY DEF Recount, ReadUsage, Only, IInv, TypeOK
<1>3. Shape(req[r]) /\ (Recount(r) \/ req[r].pc = "recounted") /\ usage \in Nat
      /\ req[r] \in Request
  BY TypesOf DEF ReadUsage, IInv, AllConsistent, Consistent
<1>4. /\ q \in Request
      /\ q.op = "recount" /\ q.pc \in {"recounted", "write"}
      /\ q.mine \cap q.todo = {} /\ q.cur \notin q.mine \cup q.todo /\ q.cur = NoDoc
  <2>1. CASE Recount(r)
    BY <2>1, <1>1 DEF Request, IdleRequest
  <2>2. CASE ~ Recount(r)
    BY <2>2, <1>3 DEF Request, Shape
  <2> QED BY <2>1, <2>2
<1>5. quotaLock # r
  <2>1. req[r].op \in {"none", "recount"} /\ (req[r].op = "none" => req[r].mine = {})
    BY <1>3 DEF Recount, Shape
  <2> QED BY <2>1 DEF IInv, AllConsistent, Consistent, LockInUse, Paying, Releasing, Adding
<1> HIDE DEF q, n
<1>6. req'[r] = q /\ TypeOK' /\ Added' = Added
  BY <1>2, <1>4 DEF IInv, TypeOK, Only, Added, WithStatus
<1>7. Consistent(r)'
  BY <1>2, <1>4, <1>5, <1>6 DEF Consistent, Shape, LockInUse, Paid, Given, Paying,
                                Releasing, Adding
<1> QED BY <1>2, <1>4, <1>6, <1>7, QuietStep

LEMMA QueryKeeps ==
  ASSUME IInv, NEW r \in Requests, NEW d \in Docs, QueryDocument(r, d)
  PROVE  IInv'
<1> DEFINE p == req[r]
           wanted == doc[d] \in Wanted(p.op)
           q == [p EXCEPT !.todo = p.todo \ {d},
                          !.pc = IF wanted THEN "found" ELSE p.pc,
                          !.cur = IF wanted THEN d ELSE p.cur]
<1>1. p \in Request /\ p.pc = "next" /\ d \in p.todo /\ Shape(p)
  BY TypesOf DEF QueryDocument, IInv, AllConsistent, Consistent
<1>2. q \in Request
  BY <1>1 DEF Request
<1>3. /\ q.todo = p.todo \ {d} /\ q.pc \in {"next", "found"} /\ q.mine = p.mine
      /\ q.op = p.op /\ q.amount = p.amount /\ q.used = p.used /\ q.read = p.read
      /\ \/ q.pc = "found" /\ q.cur = d
         \/ q.pc = "next" /\ q.cur = p.cur
  BY <1>1 DEF Request
<1>4. UNCHANGED <<doc, limit, perCollection, usage, unpaid, quotaLock, docLock>> /\ Only(r, q)
  BY DEF QueryDocument, Only
<1> HIDE DEF q
<1>5. req'[r] = q /\ TypeOK' /\ Added' = Added
  BY <1>2, <1>4 DEF IInv, TypeOK, Only, Added, WithStatus
<1>6. Covered(q) \subseteq Covered(p) /\ Covered(p) \subseteq Docs
  BY <1>1, <1>3 DEF Covered
<1>7. Cardinality(Covered(q)) <= Cardinality(Covered(p))
      /\ Cardinality(Covered(q)) \in Nat /\ Cardinality(Covered(p)) \in Nat
  BY <1>6, CountSub, DocsFinite
<1>8. Shape(q)
  <2>1. p.amount \in Nat /\ p.cur = NoDoc /\ p.op \in Adding \cup {"delete"}
    BY <1>1, TypesOf DEF IInv, Shape
  <2> QED BY <1>1, <1>3, <1>6, <1>7, <2>1, NoDocIsNone DEF Shape, Adding
<1>9. Consistent(r)'
  <2>1. LockInUse(r) /\ Paid(r) /\ Given(r)
    BY DEF IInv, AllConsistent, Consistent
  <2>2. HasRoom(p, Added) => HasRoom(q, Added)
    BY <1>3, <1>5, <1>6 DEF HasRoom, InCollection
  <2>3. Paying(p) = Paying(q) /\ Releasing(p) = Releasing(q)
    BY <1>1, <1>3 DEF Paying, Releasing
  <2>4. Paid(r)'
    BY <1>1, <1>3, <1>4, <1>5, <2>1, <2>2, <2>3 DEF Paid
  <2>5. LockInUse(r)' /\ Given(r)'
    BY <1>1, <1>3, <1>4, <1>5, <2>1, <2>3 DEF LockInUse, Given, Unreleased
  <2> QED BY <1>5, <1>8, <2>4, <2>5 DEF Consistent
<1> QED BY <1>2, <1>4, <1>5, <1>9, QuietStep

\* The row was free: what is consumed is what the usage will be raised by.
LEMMA ConsumeKeeps ==
  ASSUME IInv, NEW r \in Requests, ConsumeQuota(r)
  PROVE  IInv'
<1> DEFINE p == req[r]
           q == [p EXCEPT !.pc = "count", !.used = usage + p.amount]
<1>1. p \in Request /\ p.pc = "quota" /\ Shape(p) /\ UNCHANGED <<doc, limit, perCollection, usage, unpaid>>
      /\ usage \in Nat /\ p.amount \in Nat
  BY TypesOf DEF ConsumeQuota, IInv, AllConsistent, Consistent
<1>2. CASE OverLimit(p.amount)
  BY <1>1, <1>2, AbortKeeps DEF ConsumeQuota
<1>3. CASE ~ OverLimit(p.amount)
  <2>1. Only(r, q) /\ quotaLock' = r /\ docLock' = docLock /\ quotaLock \in {r, NoRequest}
    BY <1>3 DEF ConsumeQuota, Only, Free
  <2>2. /\ q \in Request /\ q.pc = "count" /\ q.used = usage + p.amount
        /\ q.op = p.op /\ q.mine = p.mine /\ q.todo = p.todo /\ q.cur = p.cur
        /\ q.amount = p.amount
    <3>1. usage + p.amount \in Nat
      BY <1>1
    <3> HIDE DEF IInv
    <3>2. q \in Request
      BY <1>1, <3>1 DEF Request
    <3> QED BY <1>1, <3>2 DEF Request
  <2> HIDE DEF q
  <2>3. req'[r] = q /\ TypeOK' /\ Added' = Added
    BY <1>1, <2>1, <2>2 DEF IInv, TypeOK, Only, Added, WithStatus
  <2>4. Covered(q) = Covered(p)
    BY <2>2 DEF Covered
  <2>5. usage + p.amount <= limit
    BY <1>1, <1>3, TypesOf DEF OverLimit, IInv
  <2>6. Consistent(r)'
    BY <1>1, <2>1, <2>2, <2>3, <2>4, <2>5 DEF Consistent, Shape, LockInUse, Paid, Given,
                                            Paying, Releasing, Adding
  <2> QED BY <1>1, <2>1, <2>2, <2>3, <2>6, QuietStep
<1> QED BY <1>2, <1>3

\* All documents of a request are of one collection: the one that is counted.
LEMMA CheckKeeps ==
  ASSUME IInv, NEW r \in Requests, CheckCollection(r)
  PROVE  IInv'
<1> DEFINE p == req[r]
           q == [p EXCEPT !.pc = "next", !.read = perCollection]
           c == CollectionOf(r)
<1>1. p \in Request /\ p.pc = "count" /\ Shape(p) /\ UNCHANGED <<doc, limit, perCollection, usage, unpaid>>
      /\ Covered(p) \subseteq Docs /\ Paid(r)
  BY TypesOf DEF CheckCollection, IInv, AllConsistent, Consistent
<1>2. CASE OverCollectionLimit(c, p.amount)
  BY <1>1, <1>2, AbortKeeps DEF CheckCollection
<1>3. CASE ~ OverCollectionLimit(c, p.amount)
  <2>1. Only(r, q) /\ UNCHANGED <<quotaLock, docLock>>
    BY <1>3 DEF CheckCollection, Only
  <2>2. /\ q \in Request /\ q.pc = "next"
        /\ q.op = p.op /\ q.mine = p.mine /\ q.todo = p.todo /\ q.cur = p.cur
        /\ q.amount = p.amount /\ q.used = p.used /\ q.read = perCollection
        /\ perCollection \in Nat
    BY <1>1, TypesOf DEF Request, IInv
  <2> HIDE DEF q
  <2>3. req'[r] = q /\ TypeOK' /\ Added' = Added
    BY <1>1, <2>1, <2>2 DEF IInv, TypeOK, Only, Added, WithStatus
  <2>4. Covered(q) = Covered(p)
    BY <2>2 DEF Covered
  <2>5. HasRoom(q, Added)
    <3> SUFFICES ASSUME NEW b \in Collections, InCollection(b, Covered(q)) # {}
                 PROVE  Cardinality(InCollection(b, Added)) + q.amount <= q.read
      BY DEF HasRoom
    <3>1. p.op \in Adding /\ p.todo # {} /\ p.todo \subseteq Covered(p)
          /\ \A d, e \in Covered(p) : d[1] = e[1]
      BY <1>1, TypesOf DEF Shape, Covered, IInv
    <3>2. \A d \in p.todo : d[1] = b
      BY <2>4, <3>1 DEF InCollection
    <3>3. \A d \in p.todo : d[1] = c
      BY <3>2 DEF CollectionOf
    <3>4. c = b
      BY <3>1, <3>2, <3>3
    <3>5. InCollection(b, Added) \subseteq {d \in WithStatus({"ADDED", "EXPIRED"}) : d[1] = c}
      BY <3>4 DEF InCollection, Added, WithStatus
    <3>6. {d \in WithStatus({"ADDED", "EXPIRED"}) : d[1] = c} \subseteq Docs
      BY AddedIsDocs
    <3> DEFINE m == Cardinality(InCollection(b, Added))
               n == Cardinality({d \in WithStatus({"ADDED", "EXPIRED"}) : d[1] = c})
    <3>7. m <= n /\ m \in Nat /\ n \in Nat
      BY <3>5, <3>6, CountSub, DocsFinite
    <3>8. n + p.amount <= perCollection
      BY <1>3, <3>7, TypesOf, ConstantsAssumption DEF OverCollectionLimit, IInv
    <3>9. p.amount \in Nat /\ perCollection \in Nat
      BY TypesOf, ConstantsAssumption DEF IInv
    <3> HIDE DEF m, n
    <3>10. m + q.amount <= perCollection
      BY <2>2, <3>7, <3>8, <3>9
    <3> QED BY <2>2, <3>10 DEF m
  <2>6. Consistent(r)'
    BY <1>1, <2>1, <2>2, <2>3, <2>4, <2>5 DEF Consistent, Shape, LockInUse, Paid, Given,
                                            Paying, Releasing, Adding
  <2> QED BY <1>1, <2>1, <2>2, <2>3, <2>6, QuietStep
<1> QED BY <1>2, <1>3

\* A deletion has one document more to release quota for.
LEMMA FlushKeeps ==
  ASSUME IInv, NEW r \in Requests, FlushDocument(r)
  PROVE  IInv'
<1> DEFINE p == req[r]
           d == p.cur
           q == [p EXCEPT !.mine = p.mine \cup {d}, !.cur = NoDoc,
                          !.pc = IF p.op = "delete" THEN "release" ELSE "next"]
<1>1. /\ p \in Request /\ p.pc = "found" /\ p.op # "expire" /\ Shape(p)
      /\ UNCHANGED <<doc, limit, perCollection, usage, unpaid>>
      /\ LockInUse(r) /\ Paid(r) /\ Given(r) /\ d \in Docs
      /\ p.mine \subseteq Docs /\ p.used \in Nat /\ usage \in Nat
  BY TypesOf DEF FlushDocument, IInv, AllConsistent, Consistent, Shape
<1>2. CASE p.op = "create" /\ doc[d] # "NONE"
  BY <1>1, <1>2, AbortKeeps DEF FlushDocument
<1>3. CASE ~ (p.op = "create" /\ doc[d] # "NONE")
  <2>1. Only(r, q) /\ quotaLock' = quotaLock /\ docLock' = [docLock EXCEPT ![d] = r]
    BY <1>3 DEF FlushDocument, Only
  <2>2. /\ q \in Request /\ q.pc = (IF p.op = "delete" THEN "release" ELSE "next")
        /\ q.op = p.op /\ q.mine = p.mine \cup {d} /\ q.todo = p.todo /\ q.cur = NoDoc
        /\ q.amount = p.amount /\ q.used = p.used /\ q.read = p.read
    BY <1>1 DEF Request
  <2> HIDE DEF q
  <2>3. req'[r] = q /\ Added' = Added
    BY <1>1, <2>1, <2>2 DEF IInv, TypeOK, Only, Added, WithStatus
  <2>4. TypeOK'
    BY <1>1, <2>1, <2>2 DEF IInv, TypeOK, Only
  <2>5. Covered(q) = Covered(p)
    BY <1>1, <2>2, NoDocIsNone DEF Covered
  <2>6. Shape(q)
    BY <1>1, <2>2, <2>5, NoDocIsNone, TypesOf DEF Shape, Adding, IInv
  <2>7. LockInUse(r)' /\ Paid(r)'
    BY <1>1, <2>1, <2>2, <2>3, <2>5 DEF LockInUse, Paid, HasRoom, Paying, Releasing, Adding, Shape
  <2>8. Given(r)'
    <3> SUFFICES ASSUME p.op = "delete" PROVE Given(r)'
      BY <2>2, <2>3 DEF Given, Releasing
    <3>1. /\ Cardinality(q.mine) = Cardinality(p.mine) + 1 /\ Cardinality(p.mine) \in Nat
          /\ p.mine = {} => Cardinality(p.mine) = 0
      BY <1>1, <2>2, DocsFinite, FS_AddElement, FS_EmptySet DEF Shape
    <3>2. CASE p.mine = {}
      <4>1. quotaLock # r
        BY <1>1, <3>2 DEF LockInUse, Paying, Releasing, Adding
      <4>2. Cardinality(q.mine) = 1 /\ q.pc = "release"
        BY <2>2, <3>1, <3>2
      <4> QED BY <2>1, <2>3, <4>1, <4>2 DEF Given
    <3>3. CASE p.mine # {}
      <4>1. quotaLock = r /\ usage <= p.used + Cardinality(p.mine)
        BY <1>1, <3>3 DEF Given, Releasing, Unreleased
      <4>2. usage + 1 <= q.used + Cardinality(q.mine)
        BY <1>1, <2>2, <3>1, <4>1
      <4> QED BY <1>1, <2>1, <2>2, <2>3, <4>1, <4>2 DEF Given, Unreleased
    <3> QED BY <3>2, <3>3
  <2>9. Consistent(r)'
    BY <2>3, <2>6, <2>7, <2>8 DEF Consistent
  <2> QED BY <1>1, <2>1, <2>2, <2>3, <2>4, <2>9, QuietStep
<1> QED BY <1>2, <1>3

LEMMA ReleaseKeeps ==
  ASSUME IInv, NEW r \in Requests, ReleaseQuota(r)
  PROVE  IInv'
<1> DEFINE p == req[r]
           n == Less(IF quotaLock = r THEN p.used ELSE usage)
           q == [p EXCEPT !.pc = "next", !.used = n]
<1>1. /\ p \in Request /\ p.pc = "release" /\ Shape(p) /\ Given(r)
      /\ UNCHANGED <<doc, limit, perCollection, usage, unpaid, docLock>>
      /\ p.mine \subseteq Docs /\ p.used \in Nat /\ usage \in Nat
  BY TypesOf DEF ReleaseQuota, IInv, AllConsistent, Consistent
<1>2. Only(r, q) /\ quotaLock' = r /\ quotaLock \in {r, NoRequest}
  BY DEF ReleaseQuota, Only, Free
<1>3. n \in Nat /\ (IF quotaLock = r THEN p.used ELSE usage) <= n + 1
  BY <1>1 DEF Less
<1>4. /\ q \in Request /\ q.pc = "next" /\ q.used = n
      /\ q.op = p.op /\ q.mine = p.mine /\ q.todo = p.todo /\ q.cur = p.cur
      /\ q.amount = p.amount
  <2> HIDE DEF n
  <2>1. q \in Request
    BY <1>1, <1>3 DEF Request
  <2> QED BY <1>1, <2>1 DEF Request
<1> HIDE DEF q, n
<1>5. req'[r] = q /\ TypeOK' /\ Added' = Added
  BY <1>1, <1>2, <1>4 DEF IInv, TypeOK, Only, Added, WithStatus
<1>6. Shape(q)
  BY <1>1, <1>4 DEF Shape, Covered, Adding
<1>7. p.op = "delete" /\ p.mine # {}
  BY <1>1 DEF Shape
<1>8. Given(r)'
  <2>1. Cardinality(p.mine) \in Nat
    BY <1>1, DocsFinite
  <2>2. usage <= n + Cardinality(p.mine)
    BY <1>1, <1>2, <1>3, <1>7, <2>1 DEF Given, Releasing, Unreleased
  <2> QED BY <1>1, <1>2, <1>4, <1>5, <2>2 DEF Given, Unreleased
<1>9. Consistent(r)'
  BY <1>2, <1>4, <1>5, <1>6, <1>7, <1>8 DEF Consistent, LockInUse, Paid, Paying,
                                            Releasing, Adding
<1> QED BY <1>1, <1>2, <1>4, <1>5, <1>9, QuietStep

LEMMA ExpireKeeps ==
  ASSUME IInv, NEW r \in Requests, ExpireDocument(r)
  PROVE  IInv'
<1>1. /\ req[r].cur \in Docs /\ req[r].op = "expire" /\ quotaLock # r
      /\ doc' = [doc EXCEPT ![req[r].cur] = "EXPIRED"] /\ Only(r, IdleRequest)
      /\ UNCHANGED <<limit, perCollection, usage, unpaid, quotaLock, docLock>>
  BY DEF ExpireDocument, Only, IInv, AllConsistent, Consistent, Shape, LockInUse, Paying,
         Releasing, Adding
<1>2. req'[r] = IdleRequest /\ TypeOK'
  BY <1>1, IdleTyped DEF IInv, TypeOK, Only, DocumentStatus
<1>3. Added' \subseteq Added
  BY <1>1 DEF IInv, TypeOK, Added, WithStatus
<1>4. Consistent(r)'
  BY <1>1, <1>2, IdleTyped, NoDocIsNone DEF Consistent, Shape, LockInUse, Paid, Given, Paying,
                                     Releasing, Adding
<1> QED BY <1>1, <1>2, <1>3, <1>4, IdleTyped, QuietStep

\* A recalculation writes while nobody holds the row.
LEMMA WriteKeeps ==
  ASSUME IInv, NEW r \in Requests, WriteUsage(r)
  PROVE  IInv'
<1>1. /\ req[r].pc = "write" /\ Shape(req[r]) /\ LockInUse(r) /\ req[r].used \in Nat
      /\ usage \in Nat /\ unpaid \in Nat
  BY TypesOf DEF WriteUsage, IInv, AllConsistent, Consistent
<1>2. quotaLock = NoRequest
  BY <1>1 DEF WriteUsage, Free, Shape, LockInUse, Paying, Releasing, Adding
<1>3. Only(r, IdleRequest) /\ UNCHANGED <<doc, limit, perCollection, quotaLock, docLock>>
  BY DEF WriteUsage, Only
<1>4. Added' = Added /\ Cardinality(Added) \in Nat
  BY <1>3, AddedIsDocs, DocsFinite DEF Added, WithStatus
<1>5. usage' \in Nat /\ unpaid' \in Nat /\ UsageIsAccounted'
  <2>1. Cardinality(Added) <= usage + unpaid
    BY DEF IInv, UsageIsAccounted
  <2> QED BY <1>1, <1>4, <2>1 DEF WriteUsage, UsageIsAccounted
<1>6. /\ req'[r] = IdleRequest /\ \A s \in Requests \ {r} : req'[s] = req[s]
      /\ TypeOK'
  BY <1>3, <1>5, IdleTyped DEF IInv, TypeOK, Only
<1>7. Consistent(r)'
  BY <1>2, <1>3, <1>6, IdleTyped, NoDocIsNone, ConstantsAssumption
     DEF Consistent, Shape, LockInUse, Paid, Given, Paying, Releasing, Adding
<1>8. \A s \in Requests \ {r} : Consistent(s)'
  BY <1>2, <1>3, <1>4, <1>6, OthersConsistent
<1> QED BY <1>5, <1>6, <1>7, <1>8 DEF IInv, AllConsistent

-----------------------------------------------------------------------------
(* The commit *)

\* What a request that paid adds has a place in the usage, in the limit of
\* the user and in that of the collection.
LEMMA AddedArePaid ==
  ASSUME IInv, NEW r \in Requests, Commit(r), req[r].op \in Adding
  PROVE  /\ quotaLock = r /\ Added' = Added \cup req[r].mine
         /\ usage' \in Nat /\ unpaid' = unpaid
         /\ Cardinality(Added') <= usage' + unpaid /\ usage' <= limit
         /\ \A c \in Collections :
              ~ InCollection(c, Added') \subseteq Added =>
                Cardinality(InCollection(c, Added')) <= req[r].read
<1> DEFINE p == req[r]
<1>1. /\ p.pc = "next" /\ p.todo = {} /\ p.mine \subseteq Docs /\ Shape(p) /\ Paid(r)
      /\ p.used \in Nat /\ p.amount \in Nat /\ usage \in Nat /\ unpaid \in Nat
      /\ p.read \in Nat
  BY TypesOf DEF Commit, IInv, AllConsistent, Consistent
<1>2. Covered(p) = p.mine
  BY <1>1, NoDocIsNone DEF Shape, Covered
<1>3. Added' = Added \cup p.mine
  <2>1. doc' = [d \in Docs |-> IF d \notin p.mine THEN doc[d] ELSE "ADDED"]
    BY DEF Commit, Adding
  <2> QED BY <1>1, <2>1 DEF Added, WithStatus
<1>4. quotaLock = r /\ usage' = usage + p.amount /\ usage' <= limit /\ unpaid' = unpaid
      /\ HasRoom(p, Added)
  BY <1>1 DEF Commit, Adding, Paid, Paying
<1>5. Cardinality(p.mine) <= p.amount
  BY <1>1, <1>2 DEF Shape
<1>6. Cardinality(Added') <= usage' + unpaid
  <2>1. /\ Cardinality(Added \cup p.mine) <= Cardinality(Added) + Cardinality(p.mine)
        /\ Cardinality(Added) \in Nat /\ Cardinality(p.mine) \in Nat
        /\ Cardinality(Added \cup p.mine) \in Nat
    BY <1>1, AddedIsDocs, CountParts, DocsFinite
  <2> QED BY <1>1, <1>3, <1>4, <1>5, <2>1 DEF IInv, UsageIsAccounted
<1>7. \A c \in Collections :
        ~ InCollection(c, Added') \subseteq Added =>
          Cardinality(InCollection(c, Added')) <= req[r].read
  <2> SUFFICES ASSUME NEW c \in Collections, ~ InCollection(c, Added') \subseteq Added
               PROVE  Cardinality(InCollection(c, Added')) <= p.read
    OBVIOUS
  <2>1. InCollection(c, Added') = InCollection(c, Added) \cup InCollection(c, p.mine)
    BY <1>3 DEF InCollection
  <2>2. InCollection(c, Added) \subseteq Docs /\ InCollection(c, p.mine) \subseteq p.mine
    BY AddedIsDocs DEF InCollection
  <2>3. /\ Cardinality(InCollection(c, Added) \cup InCollection(c, p.mine))
             <= Cardinality(InCollection(c, Added)) + Cardinality(InCollection(c, p.mine))
        /\ Cardinality(InCollection(c, p.mine)) <= Cardinality(p.mine)
        /\ Cardinality(InCollection(c, Added)) \in Nat /\ Cardinality(InCollection(c, p.mine)) \in Nat
        /\ Cardinality(p.mine) \in Nat
        /\ Cardinality(InCollection(c, Added) \cup InCollection(c, p.mine)) \in Nat
    BY <1>1, <2>2, CountParts, CountSub, DocsFinite, ConstantsAssumption
  <2>4. InCollection(c, p.mine) # {}
    BY <2>1 DEF InCollection
  <2>5. Cardinality(InCollection(c, Added)) + p.amount <= p.read
    BY <1>2, <1>4, <2>4 DEF HasRoom
  <2> DEFINE all == Cardinality(InCollection(c, Added) \cup InCollection(c, p.mine))
             old == Cardinality(InCollection(c, Added))
             own == Cardinality(InCollection(c, p.mine))
             mine == Cardinality(p.mine)
             amount == p.amount
             room == p.read
  <2>6. /\ all <= old + own /\ own <= mine /\ mine <= amount
        /\ old + amount <= room
        /\ all \in Nat /\ old \in Nat /\ own \in Nat /\ mine \in Nat
        /\ amount \in Nat /\ room \in Nat
    BY <1>1, <1>5, <2>3, <2>5
  <2>7. all <= room
    <3> HIDE DEF all, old, own, mine, amount, room
    <3> QED BY <2>6
  <2>8. Cardinality(InCollection(c, Added')) = all
    BY <2>1
  <2> QED BY <2>7, <2>8
<1>8. quotaLock = r /\ usage' \in Nat /\ unpaid' = unpaid /\ usage' <= limit
  BY <1>1, <1>4
<1> QED BY <1>3, <1>6, <1>7, <1>8, Zenon

\* A deletion gives back one place for each document that was added, and
\* what it gives back for others is recorded as unpaid.
LEMMA DeletedAreGivenBack ==
  ASSUME IInv, NEW r \in Requests, Commit(r), req[r].op = "delete"
  PROVE  /\ usage' = usage \/ quotaLock = r
         /\ Added' \subseteq Added
         /\ usage' \in Nat /\ unpaid' \in Nat
         /\ UsageIsAccounted'
<1> DEFINE p == req[r]
           M == p.mine
<1>1. /\ p.pc = "next" /\ M \subseteq Docs /\ Given(r)
      /\ p.used \in Nat /\ usage \in Nat /\ unpaid \in Nat
  BY TypesOf DEF Commit, IInv, AllConsistent, Consistent
<1>2. /\ usage' = IF M = {} THEN usage ELSE p.used
      /\ unpaid' = unpaid + Cardinality(M \ Added)
  BY DEF Commit
<1>3. Added' = Added \ M
  <2>1. doc' = [d \in Docs |-> IF d \notin M THEN doc[d] ELSE "DELETED"]
    BY DEF Commit
  <2> QED BY <1>1, <2>1 DEF Added, WithStatus
<1>4. /\ Cardinality(Added \ M) + Cardinality(M) = Cardinality(Added) + Cardinality(M \ Added)
      /\ Cardinality(Added \ M) \in Nat /\ Cardinality(M) \in Nat
      /\ Cardinality(Added) \in Nat /\ Cardinality(M \ Added) \in Nat
  BY <1>1, AddedIsDocs, CountParts, DocsFinite
<1>5. Cardinality(Added) <= usage + unpaid
  BY DEF IInv, UsageIsAccounted
<1>6. CASE M = {}
  <2>1. Cardinality(M) = 0
    BY <1>6, FS_EmptySet
  <2> QED BY <1>1, <1>2, <1>3, <1>4, <1>5, <1>6, <2>1 DEF UsageIsAccounted
<1>7. CASE M # {}
  <2>1. quotaLock = r /\ usage <= p.used + Cardinality(M)
    BY <1>1, <1>7 DEF Given, Releasing, Unreleased
  <2>2. usage' = p.used
    BY <1>2, <1>7
  <2> HIDE DEF M
  <2> QED BY <1>1, <1>2, <1>3, <1>4, <1>5, <2>1, <2>2 DEF UsageIsAccounted
<1> QED BY <1>6, <1>7

LEMMA CommitKeeps ==
  ASSUME IInv, NEW r \in Requests, Commit(r)
  PROVE  IInv'
<1>1. req[r].op \in Adding \cup {"delete"}
  BY DEF Commit, IInv, AllConsistent, Consistent, Shape
<1>2. /\ usage' = usage \/ quotaLock = r
      /\ Added' \subseteq Added \/ quotaLock = r
      /\ usage' \in Nat /\ unpaid' \in Nat
      /\ UsageIsAccounted'
  <2>1. CASE req[r].op = "delete"
    BY <2>1, DeletedAreGivenBack, FewerAdded
  <2>2. CASE req[r].op \in Adding
    BY <2>2, AddedArePaid, TypesOf DEF UsageIsAccounted, IInv
  <2> QED BY <1>1, <2>1, <2>2
<1>3. /\ Only(r, IdleRequest) /\ req'[r] = IdleRequest /\ quotaLock' # r
      /\ quotaLock' = IF quotaLock = r THEN NoRequest ELSE quotaLock
      /\ docLock' \in [Docs -> Requests \cup {NoRequest}]
      /\ limit' = limit /\ perCollection' = perCollection
  BY LockTypes, ConstantsAssumption DEF Commit, IInv, TypeOK, Only
<1>4. \A s \in Requests \ {r} : req'[s] = req[s]
  BY <1>3 DEF Only, IInv, TypeOK
<1>5. TypeOK'
  <2>1. doc' \in [Docs -> DocumentStatus]
    BY DEF Commit, IInv, TypeOK, DocumentStatus
  <2> QED BY <1>2, <1>3, <2>1, IdleTyped DEF IInv, TypeOK, Only
<1>6. Consistent(r)'
  BY <1>3, IdleTyped, NoDocIsNone DEF Consistent, Shape, LockInUse, Paid, Given, Paying,
                                     Releasing, Adding
<1>7. ASSUME NEW s \in Requests \ {r} PROVE Consistent(s)'
  BY <1>2, <1>3, <1>4, <1>5, OthersConsistent
<1> QED BY <1>2, <1>5, <1>6, <1>7 DEF IInv, AllConsistent

-----------------------------------------------------------------------------
(* The theorems *)

LEMMA InitHolds == Init => IInv
<1> SUFFICES ASSUME Init PROVE IInv
  OBVIOUS
<1>1. Added = {}
  BY DEF Init, Added, WithStatus
<1>2. UsageIsAccounted
  <2>1. Cardinality({}) = 0
    BY FS_EmptySet
  <2> QED BY <1>1, <2>1 DEF Init, UsageIsAccounted
<1>3. AllConsistent
  BY IdleTyped, NoDocIsNone, ConstantsAssumption
     DEF Init, AllConsistent, Consistent, Shape, LockInUse, Paid, Given, Paying, Releasing, Adding
<1> QED BY <1>2, <1>3, TypeInit DEF IInv

LEMMA NextKeeps == IInv /\ [Next]_vars => IInv'
<1> SUFFICES ASSUME IInv, [Next]_vars PROVE IInv'
  OBVIOUS
<1>1. CASE UNCHANGED vars
  <2>1. Added' = Added
    BY <1>1 DEF vars, Added, WithStatus
  <2>2. TypeOK'
    BY <1>1 DEF vars, IInv, TypeOK
  <2>3. AllConsistent'
    BY <1>1, <2>1 DEF vars, IInv, AllConsistent, Consistent, LockInUse, Paid, Given, HasRoom
  <2> QED BY <1>1, <2>1, <2>2, <2>3, FewerAdded DEF vars, IInv
<1>2. ASSUME NEW d \in Docs, UploadDocument(d) PROVE IInv'
  BY <1>2, UploadKeeps
<1>3. /\ \A n \in Limits : UpdateUserQuota(n) => IInv'
      /\ \A n \in CollectionLimits : UpdateCollectionQuota(n) => IInv'
  BY LimitKeeps, CollectionLimitKeeps
<1>4. ASSUME NEW r \in Requests, NEW op \in {"create", "confirm", "delete"}, NEW D \in Lists,
             Begin(r, op, D)
      PROVE  IInv'
  BY <1>4, BeginKeeps
<1>5. ASSUME NEW r \in Requests, NEW d \in Docs, FindExpired(r, d) PROVE IInv'
  BY <1>5, FindExpiredKeeps
<1>6. ASSUME NEW r \in Requests, Recount(r) PROVE IInv'
  BY <1>6, RecountKeeps
<1>7. ASSUME NEW r \in Requests, Step(r) PROVE IInv'
  <2>1. CASE \E d \in req[r].todo : QueryDocument(r, d)
    BY <2>1, TypesOf, QueryKeeps DEF IInv
  <2> QED BY <1>7, <2>1, ConsumeKeeps, CheckKeeps, FlushKeeps, ReleaseKeeps, CommitKeeps,
             RecountKeeps, WriteKeeps, ExpireKeeps DEF Step
<1>8. ASSUME NEW r \in Requests, DeadlockDetected(r) PROVE IInv'
  BY <1>8, AbortKeeps DEF DeadlockDetected
<1> QED BY <1>1, <1>2, <1>3, <1>4, <1>5, <1>6, <1>7, <1>8 DEF Next

LEMMA Invariance == Spec => []IInv
BY InitHolds, NextKeeps, PTL DEF Spec

\* The variables always have their types.
THEOREM TypeCorrect == Spec => []TypeOK
<1>1. IInv => TypeOK
  BY DEF IInv
<1> QED BY <1>1, Invariance, PTL

\* The usage counts every document that was added, however requests,
\* recalculations, changes of the limit and deadlocks interleave.
THEOREM UsageAccounts == Spec => []UsageIsAccounted
<1>1. IInv => UsageIsAccounted
  BY DEF IInv
<1> QED BY <1>1, Invariance, PTL

LEMMA OnlyCommitAdds ==
  ASSUME IInv, [Next]_vars, Added' \ Added # {}
  PROVE  \E r \in Requests : Commit(r)
<1> SUFFICES ASSUME \A r \in Requests : ~ Commit(r) PROVE Added' \subseteq Added
  OBVIOUS
<1>1. CASE doc' = doc
  BY <1>1 DEF Added, WithStatus
<1>2. ASSUME NEW d \in Docs, UploadDocument(d) PROVE Added' \subseteq Added
  BY <1>2 DEF UploadDocument, Added, WithStatus, IInv, TypeOK
<1>3. ASSUME NEW r \in Requests, ExpireDocument(r) PROVE Added' \subseteq Added
  BY <1>3 DEF ExpireDocument, Added, WithStatus, IInv, TypeOK
<1>4. ASSUME NEW r \in Requests, Step(r) PROVE ExpireDocument(r) \/ doc' = doc
  BY <1>4 DEF Step, ConsumeQuota, CheckCollection, QueryDocument, FlushDocument, ReleaseQuota,
              ReadUsage, WriteUsage
<1>5. \/ doc' = doc \/ \E d \in Docs : UploadDocument(d)
      \/ \E r \in Requests : Step(r)
  BY DEF Next, vars, UpdateUserQuota, UpdateCollectionQuota, Begin, FindExpired, Recount, DeadlockDetected
<1> QED BY <1>1, <1>2, <1>3, <1>4, <1>5

\* Documents are added only while the limit, as it is then, has room.
THEOREM GrowthPaid == Spec => GrowthIsPaid
<1>1. IInv /\ [Next]_vars =>
        [Added' \ Added # {} => Cardinality(Added') <= limit + unpaid]_vars
  <2> SUFFICES ASSUME IInv, [Next]_vars, Added' \ Added # {}
               PROVE  Cardinality(Added') <= limit + unpaid
    OBVIOUS
  <2>1. PICK r \in Requests : Commit(r)
    BY OnlyCommitAdds
  <2>2. req[r].op \in Adding
    <3>1. req[r].op \in Adding \cup {"delete"}
      BY <2>1 DEF Commit, IInv, AllConsistent, Consistent, Shape
    <3> QED BY <2>1, <3>1, DeletedAreGivenBack
  <2>3. Cardinality(Added') <= usage' + unpaid /\ usage' <= limit /\ usage' \in Nat
        /\ limit \in Nat /\ unpaid \in Nat
    BY <2>1, <2>2, AddedArePaid, TypesOf DEF IInv
  <2>4. Cardinality(Added') \in Nat
    BY <2>1, CommitKeeps, DocsFinite, AddedIsDocs DEF Added, WithStatus
  <2> QED BY <2>3, <2>4
<1> QED BY <1>1, Invariance, PTL DEF Spec, GrowthIsPaid

\* A request leaves the collection it adds documents to within the limit it
\* read, however the limit and the documents of other requests change.
THEOREM CollectionsHaveRoom == Spec => CollectionGrowthHasRoom
<1> DEFINE Growth ==
      \A c \in Collections :
        ~ InCollection(c, Added') \subseteq Added =>
          \E r \in Requests :
            /\ req[r].pc = "next" /\ req'[r].pc = "idle"
            /\ Cardinality(InCollection(c, Added')) <= req[r].read
<1>1. IInv /\ [Next]_vars => [Growth]_vars
  <2> SUFFICES ASSUME IInv, [Next]_vars, NEW c \in Collections,
                      ~ InCollection(c, Added') \subseteq Added
               PROVE  \E r \in Requests :
                        /\ req[r].pc = "next" /\ req'[r].pc = "idle"
                        /\ Cardinality(InCollection(c, Added')) <= req[r].read
    OBVIOUS
  <2>1. Added' \ Added # {}
    BY DEF InCollection
  <2>2. PICK r \in Requests : Commit(r)
    BY <2>1, OnlyCommitAdds
  <2>3. req[r].op \in Adding
    <3>1. req[r].op \in Adding \cup {"delete"}
      BY <2>2 DEF Commit, IInv, AllConsistent, Consistent, Shape
    <3> QED BY <2>1, <2>2, <3>1, DeletedAreGivenBack
  <2>4. req[r].pc = "next" /\ req'[r].pc = "idle"
    BY <2>2, IdleTyped DEF Commit, Abort, IInv, TypeOK
  <2> QED BY <2>2, <2>3, <2>4, AddedArePaid
<1> QED BY <1>1, Invariance, PTL DEF Spec, CollectionGrowthHasRoom
=============================================================================
