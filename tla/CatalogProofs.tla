---------------------------- MODULE CatalogProofs ----------------------------
(***************************************************************************)
(* Theorems of Catalog and of Money, for any products, seed and requests.   *)
(***************************************************************************)
EXTENDS Catalog, TLAPS

\* Where a transaction may be.
Path(op) ==
    CASE op = "create" -> {"create", "upload", "insert"}
      [] op = "edit" -> {"edit", "edit_write"}
      [] op = "image" -> {"image", "upload", "image_write"}
      [] op = "drop" -> {"drop", "drop_write"}
      [] OTHER -> {"import", "import_write"}
Everywhere == {"idle", "done", "create", "upload", "insert", "edit", "edit_write", "image",
               "image_write", "drop", "drop_write", "import", "import_write"}

Answers == {"none", "invalid", "ok", "overflow", "integrity_error", "upload_error", "not_found",
            "stale_data", "lost"}

\* A product, or none: its images are the seed's, or stored.
Shown == {SeedImage} \cup bucket
Columns == [price : 0 .. MaxPrice, rating : 0 .. 50, images : Seq(Shown)]
Rows == {r \in Columns : r.price = 0 => r = NoRow}

Types ==
    /\ row \in [Ids -> Rows] /\ orm \in [Txns -> [Ids -> Rows]]
    /\ nextId \in Nat \ {0} /\ bucket \subseteq Urls
    /\ pc \in [Txns -> Everywhere] /\ reply \in [Txns -> Answers]
    /\ req \in [Txns -> RequestSpace \cup {NoRequest}]
    /\ newId \in [Txns -> Ids \cup {0}]

\* A transaction that holds an id holds it alone, nothing is listed under it yet, and the
\* product it will insert is one the columns can hold; an image it will list is stored.
HandlerOK(t) ==
    /\ pc[t] = "idle" => req[t] = NoRequest
    /\ pc[t] # "idle" => req[t] \in RequestSpace
    /\ pc[t] \notin {"idle", "done"} => pc[t] \in Path(req[t].op) /\ Acceptable(req[t])
    /\ newId[t] # 0 <=> pc[t] \in {"upload", "insert"} /\ req[t].op = "create"
    /\ newId[t] # 0 => /\ newId[t] < nextId /\ ~Listed(newId[t])
                       /\ Cents(req[t].price) <= MaxPrice
    /\ pc[t] = "insert" /\ req[t].image => Url(t) \in bucket
    /\ pc[t] = "image_write" => Url(t) \in bucket

IInv ==
    /\ Types
    /\ \A t \in Txns : HandlerOK(t)
    /\ \A s, t \in Txns : newId[s] = newId[t] /\ newId[t] # 0 => s = t

-----------------------------------------------------------------------------
(* Rounding and rows.                                                       *)

\* What is rounded to cents is the nearest amount of cents, and of two the even one.
LEMMA CentsAreRounded ==
    ASSUME NEW n \in Nat
    PROVE  Cents(n) \in Nat /\ IsRounded(Cents(n), n, 10)
BY DEF Cents, Rounded, IsRounded, Distance

\* A rating that is allowed has at most 50 tenths.
LEMMA TenthsFit ==
    ASSUME NEW n \in Nat, RatingAllowed(n)
    PROVE  Tenths(n) \in 0 .. 50
<1>1. Cents(n) \in 0 .. 500
    BY DEF RatingAllowed
<1> QED
    BY <1>1 DEF Tenths, Rounded

\* A sequence of some images is one of more images.
LEMMA SeqGrows ==
    ASSUME NEW S, NEW T, S \subseteq T, NEW s \in Seq(S)
    PROVE  s \in Seq(T)
<1>1. Len(s) \in Nat /\ s \in [1 .. Len(s) -> S]
    OBVIOUS
<1>2. s \in [1 .. Len(s) -> T]
    BY <1>1
<1> QED
    BY <1>1, <1>2

\* What was a row is one as long as nothing is taken from the object store.
LEMMA RowsGrow ==
    ASSUME bucket \subseteq bucket'
    PROVE  Rows \subseteq Rows'
<1> SUFFICES ASSUME NEW r \in Rows PROVE r \in Rows'
    OBVIOUS
<1>1. r \in Columns /\ (r.price = 0 => r = NoRow)
    BY DEF Rows
<1>2. r.images \in Seq(Shown')
    <2>1. r.images \in Seq(Shown) /\ Shown \subseteq Shown'
        BY <1>1 DEF Columns, Shown
    <2> QED
        BY <2>1, SeqGrows
<1>3. r \in Columns'
    BY <1>1, <1>2 DEF Columns
<1> QED
    BY <1>1, <1>3 DEF Rows

\* Nothing is a row, and so is the seed's product.
LEMMA NoRowIsRow == NoRow \in Rows
<1>1. <<>> \in Seq(Shown)
    OBVIOUS
<1>2. NoRow \in Columns
    BY <1>1, MoneyAssumption DEF NoRow, Columns
<1> QED
    BY <1>2 DEF Rows

\* A row of the seed fits its columns and has a price.
LEMMA SeedRowIsRow ==
    ASSUME NEW p \in Seed
    PROVE  SeedRow(p) \in Rows /\ SeedRow(p).price = SeedPrice[p] /\ SeedRow(p) # NoRow /\ SeedPrice[p] # 0
<1>1. <<SeedImage>> \in Seq(Shown)
    BY DEF Shown
<1>2. SeedPrice[p] \in 1 .. MaxPrice
    BY SeedAssumption
<1>3. SeedRow(p) \in Columns /\ SeedRow(p).price = SeedPrice[p] /\ SeedPrice[p] # 0
    BY <1>1, <1>2, MoneyAssumption DEF SeedRow, Columns
<1>4. SeedRow(p) # NoRow
    BY <1>3 DEF NoRow
<1> QED
    BY <1>3, <1>4 DEF Rows

-----------------------------------------------------------------------------
(* What a step of one transaction leaves as it is.                          *)

\* What a request carries.
LEMMA RequestFields ==
    ASSUME NEW r \in RequestSpace
    PROVE  /\ r.op \in {"create", "edit", "image", "drop", "import"}
           /\ r.op = "create" => r.price \in Nat /\ r.rating \in Nat /\ r.image \in BOOLEAN
           /\ r.op = "edit" => r.price \in Nat
           /\ r.op \in {"edit", "image", "drop"} => r.product \in Ids
BY DEF RequestSpace

\* Which request a transaction at a label answers.
LEMMA Labelled ==
    ASSUME IInv, NEW t \in Txns, pc[t] \notin {"idle", "done"}
    PROVE  /\ req[t] \in RequestSpace /\ Acceptable(req[t])
           /\ req[t].op \in {"create", "edit", "image", "drop", "import"}
           /\ pc[t] \in {"create", "insert"} => req[t].op = "create"
           /\ pc[t] \in {"edit", "edit_write"} => req[t].op = "edit"
           /\ pc[t] \in {"image", "image_write"} => req[t].op = "image"
           /\ pc[t] = "upload" => req[t].op \in {"create", "image"}
           /\ pc[t] \in {"drop", "drop_write"} => req[t].op = "drop"
           /\ pc[t] \in {"import", "import_write"} => req[t].op = "import"
           /\ req[t].op \in {"edit", "image", "drop"} => req[t].product \in Ids
<1>1. req[t] \in RequestSpace /\ Acceptable(req[t]) /\ pc[t] \in Path(req[t].op)
    BY DEF IInv, HandlerOK
<1>2. /\ req[t].op \in {"create", "edit", "image", "drop", "import"}
      /\ req[t].op \in {"edit", "image", "drop"} => req[t].product \in Ids
    BY <1>1, RequestFields
<1> QED
    BY <1>1, <1>2 DEF Path

\* An id is the first that is free in the sequence, or was.
LEMMA HeldIds ==
    ASSUME IInv, NEW x \in Txns, newId[x] # 0
    PROVE  /\ newId[x] \in Ids /\ newId[x] < nextId /\ ~Listed(newId[x]) /\ newId[x] \in Nat
BY IdsAssumption DEF IInv, Types, HandlerOK

\* What a step of t may do for the invariant to hold of the others.
Moves(t) ==
    /\ \A x \in Txns \ {t} : pc'[x] = pc[x] /\ req'[x] = req[x] /\ newId'[x] = newId[x]
    /\ nextId' \in Nat \ {0} /\ nextId' >= nextId
    /\ bucket \subseteq bucket'
    /\ newId'[t] \in {0, newId[t], nextId}
    /\ \A p \in Ids : row[p] = NoRow /\ row'[p] # NoRow => p \notin Inserting(t)

\* A step that writes no product keeps the invariant when its own request stays right.
LEMMA StepKeeps ==
    ASSUME IInv, NEW t \in Txns, Moves(t), Types', HandlerOK(t)'
    PROVE  IInv'
<1>1. ASSUME NEW x \in Txns \ {t} PROVE HandlerOK(x)'
    <2>1. HandlerOK(x) /\ nextId \in Nat
        BY DEF IInv, Types
    <2>2. Url(x) \in bucket => Url(x)' \in bucket'
        BY DEF Moves, Url, Target
    <2>3. newId[x] # 0 => newId[x] < nextId' /\ row'[newId[x]] = NoRow
        <3> SUFFICES ASSUME newId[x] # 0 PROVE newId[x] < nextId' /\ row'[newId[x]] = NoRow
            OBVIOUS
        <3>1. newId[x] \in Ids /\ newId[x] < nextId /\ row[newId[x]] = NoRow /\ newId[x] \in Nat
            BY HeldIds DEF Listed
        <3>2. newId[x] \in Inserting(t)
            BY DEF Inserting
        <3>3. newId[x] < nextId'
            BY <2>1, <3>1 DEF Moves
        <3> QED
            BY <3>1, <3>2, <3>3 DEF Moves
    <2>4. newId'[x] = newId[x] /\ pc'[x] = pc[x] /\ req'[x] = req[x]
        BY DEF Moves
    <2> QED
        BY <2>1, <2>2, <2>3, <2>4 DEF HandlerOK, Listed
<1>2. \A s, x \in Txns : newId'[s] = newId'[x] /\ newId'[x] # 0 => s = x
    <2>1. \A x \in Txns \ {t} : newId'[x] = newId[x] /\ newId[x] # nextId
        <3> SUFFICES ASSUME NEW x \in Txns \ {t} PROVE newId'[x] = newId[x] /\ newId[x] # nextId
            OBVIOUS
        <3>1. nextId \in Nat \ {0} /\ newId'[x] = newId[x]
            BY DEF IInv, Types, Moves
        <3>2. CASE newId[x] = 0
            BY <3>1, <3>2
        <3>3. CASE newId[x] # 0
            BY <3>1, <3>3, HeldIds
        <3> QED
            BY <3>1, <3>2, <3>3
    <2>2. \A s, x \in Txns : newId[s] = newId[x] /\ newId[x] # 0 => s = x
        BY DEF IInv
    <2>3. newId'[t] \in {0, newId[t], nextId}
        BY DEF Moves
    <2> QED
        BY <2>1, <2>2, <2>3
<1> QED
    BY <1>1, <1>2 DEF IInv

\* What is typed stays so when the object store grows.
LEMMA TypesGrow ==
    ASSUME IInv, bucket \subseteq bucket'
    PROVE  row \in [Ids -> Rows'] /\ orm \in [Txns -> [Ids -> Rows']]
<1>1. row \in [Ids -> Rows] /\ orm \in [Txns -> [Ids -> Rows]] /\ Rows \subseteq Rows'
    BY RowsGrow DEF IInv, Types
<1>2. [Ids -> Rows] \subseteq [Ids -> Rows']
    BY <1>1
<1> QED
    BY <1>1, <1>2

\* A transaction that ends.
LEMMA LeaveKeeps ==
    ASSUME IInv, NEW t \in Txns, NEW a \in Answers, Leave(t, a), pc[t] \notin {"idle", "done"},
           nextId' \in {nextId, nextId + 1}, bucket \subseteq bucket', bucket' \subseteq Urls,
           row' \in [Ids -> Rows'],
           \A p \in Ids : row[p] = NoRow /\ row'[p] # NoRow => p \notin Inserting(t)
    PROVE  IInv'
<1>1. /\ pc \in [Txns -> Everywhere] /\ reply \in [Txns -> Answers] /\ newId \in [Txns -> Ids \cup {0}]
      /\ req \in [Txns -> RequestSpace \cup {NoRequest}] /\ nextId \in Nat \ {0}
    BY DEF IInv, Types
<1>2. /\ pc' \in [Txns -> Everywhere] /\ reply' \in [Txns -> Answers] /\ newId' \in [Txns -> Ids \cup {0}]
      /\ pc'[t] = "done" /\ newId'[t] = 0 /\ req' = req
      /\ \A x \in Txns \ {t} : pc'[x] = pc[x] /\ newId'[x] = newId[x]
    BY <1>1 DEF Leave, Everywhere
<1>3. nextId' \in Nat \ {0} /\ nextId' >= nextId
    BY <1>1
<1>4. orm' \in [Txns -> [Ids -> Rows']]
    <2>1. Blank \in [Ids -> Rows']
        <3>1. NoRow \in Rows /\ Rows \subseteq Rows'
            BY NoRowIsRow, RowsGrow
        <3> QED
            BY <3>1 DEF Blank
    <2> QED
        BY <2>1, TypesGrow DEF Leave
<1>5. Moves(t)
    BY <1>2, <1>3 DEF Moves
<1>6. Types'
    BY <1>1, <1>2, <1>3, <1>4 DEF Types
<1>7. HandlerOK(t)'
    <2>1. req[t] \in RequestSpace
        BY DEF IInv, HandlerOK
    <2> QED
        BY <1>2, <2>1 DEF HandlerOK
<1> QED
    BY <1>5, <1>6, <1>7, StepKeeps

\* An error that ends a request drops what it has read and writes nothing.
LEMMA RollbackKeeps ==
    ASSUME IInv, NEW t \in Txns, NEW a \in Answers, pc[t] \notin {"idle", "done"}, Rollback(t, a)
    PROVE  IInv'
<1>1. Leave(t, a) /\ nextId' = nextId /\ bucket' = bucket /\ row' = row
    BY DEF Rollback, End
<1>2. bucket' \subseteq Urls
    BY <1>1 DEF IInv, Types
<1>3. row' \in [Ids -> Rows']
    BY <1>1, TypesGrow
<1> QED
    BY <1>1, <1>2, <1>3, LeaveKeeps

\* A commit may write any rows but those another creation holds the id of.
LEMMA CommitKeeps ==
    ASSUME IInv, NEW t \in Txns, pc[t] \notin {"idle", "done"}, NEW rows \in [Ids -> Rows], Commit(t, rows),
           \A p \in Ids : row[p] = NoRow /\ rows[p] # NoRow => p \notin Inserting(t)
    PROVE  IInv'
<1>1. Leave(t, "ok") /\ nextId' = nextId /\ bucket' = bucket /\ row' = rows
    BY DEF Commit, End
<1>2. bucket' \subseteq Urls
    BY <1>1 DEF IInv, Types
<1>3. row' \in [Ids -> Rows']
    <2>1. Rows \subseteq Rows'
        BY <1>1, RowsGrow
    <2>2. [Ids -> Rows] \subseteq [Ids -> Rows']
        BY <2>1
    <2> QED
        BY <1>1, <2>2
<1>4. "ok" \in Answers
    BY DEF Answers
<1> QED
    BY <1>1, <1>2, <1>3, <1>4, LeaveKeeps

\* A transaction that goes on.
LEMMA GoKeeps ==
    ASSUME IInv, NEW t \in Txns, NEW l \in Everywhere \ {"idle", "done"}, Goto(t, l),
           pc[t] \notin {"idle", "done"}, l \in Path(req[t].op),
           bucket \subseteq bucket', bucket' \subseteq Urls,
           nextId' \in Nat \ {0}, nextId' >= nextId,
           orm' \in [Txns -> [Ids -> Rows']], newId' \in [Txns -> Ids \cup {0}],
           \A x \in Txns \ {t} : newId'[x] = newId[x],
           newId'[t] \in {0, newId[t], nextId},
           newId'[t] # 0 <=> l \in {"upload", "insert"} /\ req[t].op = "create",
           newId'[t] # 0 => /\ newId'[t] < nextId' /\ row[newId'[t]] = NoRow
                            /\ Cents(req[t].price) <= MaxPrice,
           (l = "insert" /\ req[t].image) \/ l = "image_write" => Url(t)' \in bucket'
    PROVE  IInv'
<1>1. /\ pc' \in [Txns -> Everywhere] /\ pc'[t] = l /\ req' = req /\ row' = row /\ reply' = reply
      /\ \A x \in Txns \ {t} : pc'[x] = pc[x]
    BY DEF Goto, IInv, Types
<1>2. Moves(t)
    BY <1>1 DEF Moves
<1>3. row' \in [Ids -> Rows']
    BY <1>1, TypesGrow
<1>4. Types'
    BY <1>1, <1>3 DEF IInv, Types
<1>5. HandlerOK(t)'
    <2>1. req[t] \in RequestSpace /\ Acceptable(req[t])
        BY Labelled
    <2> QED
        BY <1>1, <2>1 DEF HandlerOK, Listed
<1> QED
    BY <1>2, <1>4, <1>5, StepKeeps

-----------------------------------------------------------------------------
(* Every step.                                                              *)

\* A request arrives with the fields its schema has let through.
LEMMA ReceiveKeeps ==
    ASSUME IInv, NEW t \in Txns, NEW r \in Requests, Receive(t, r)
    PROVE  IInv'
<1>1. /\ row' = row /\ nextId' = nextId /\ bucket' = bucket /\ orm' = orm /\ newId' = newId
      /\ pc[t] = "idle"
    BY DEF Receive
<1>2. r \in RequestSpace /\ r.op \in {"create", "edit", "image", "drop", "import"}
    BY RequestFields, RequestsAssumption
<1>3. /\ req' \in [Txns -> RequestSpace \cup {NoRequest}] /\ req'[t] = r
      /\ \A x \in Txns \ {t} : req'[x] = req[x]
    BY <1>2 DEF Receive, IInv, Types
<1>4. /\ pc' \in [Txns -> Everywhere] /\ pc'[t] \in {r.op, "done"} /\ (pc'[t] # "done" => Acceptable(r))
      /\ \A x \in Txns \ {t} : pc'[x] = pc[x]
    BY <1>2 DEF Receive, IInv, Types, Everywhere
<1>5. reply' \in [Txns -> Answers]
    BY DEF Receive, IInv, Types, Answers
<1>6. newId[t] = 0
    BY <1>1 DEF IInv, HandlerOK
<1>7. Moves(t)
    BY <1>1, <1>3, <1>4 DEF Moves, IInv, Types
<1>8. Types'
    BY <1>1, <1>3, <1>4, <1>5, TypesGrow DEF IInv, Types
<1>9. HandlerOK(t)'
    <2>1. r.op \in Path(r.op)
        BY <1>2 DEF Path
    <2>2. pc'[t] \notin {"idle", "upload", "insert", "image_write"}
        BY <1>2, <1>4
    <2>3. pc'[t] \notin {"idle", "done"} => pc'[t] \in Path(r.op) /\ Acceptable(r)
        BY <1>4, <2>1
    <2> QED
        BY <1>1, <1>2, <1>3, <1>6, <2>2, <2>3 DEF HandlerOK
<1> QED
    BY <1>7, <1>8, <1>9, StepKeeps

\* The INSERT of a creation draws the next id, which nobody has drawn.
LEMMA CreateFlushKeeps ==
    ASSUME IInv, NEW t \in Txns, CreateFlush(t)
    PROVE  IInv'
<1>1. /\ pc[t] = "create" /\ nextId \in Ids /\ nextId' = nextId + 1 /\ row' = row /\ bucket' = bucket
    BY DEF CreateFlush, Goto
<1>2. bucket' \subseteq Urls /\ row' \in [Ids -> Rows']
    BY <1>1, TypesGrow DEF IInv, Types
<1>3. CASE Leave(t, "overflow") \/ Leave(t, "integrity_error")
    <2>1. "overflow" \in Answers /\ "integrity_error" \in Answers
        BY DEF Answers
    <2> QED
        BY <1>1, <1>2, <1>3, <2>1, LeaveKeeps
<1>4. CASE ~(Leave(t, "overflow") \/ Leave(t, "integrity_error"))
    <2>1. PICK l \in {"upload", "insert"} : Goto(t, l) /\ (req[t].image => l = "upload")
        BY <1>4 DEF CreateFlush
    <2>2. /\ newId' = [newId EXCEPT ![t] = nextId] /\ orm' = orm
          /\ Cents(req[t].price) <= MaxPrice /\ row[nextId] = NoRow
        BY <1>4 DEF CreateFlush, InsertKey, Listed
    <2>3. nextId \in Nat \ {0} /\ nextId + 1 \in Nat \ {0} /\ nextId < nextId + 1 /\ nextId + 1 >= nextId
        BY DEF IInv, Types
    <2>4. /\ newId' \in [Txns -> Ids \cup {0}] /\ newId'[t] = nextId
          /\ \A x \in Txns \ {t} : newId'[x] = newId[x]
        BY <1>1, <2>2 DEF IInv, Types
    <2>5. req[t].op = "create" /\ l \in Path(req[t].op)
        BY <1>1, Labelled DEF Path
    <2>6. l \in Everywhere \ {"idle", "done"} /\ ~((l = "insert" /\ req[t].image) \/ l = "image_write")
        BY <2>1 DEF Everywhere
    <2>7. orm' \in [Txns -> [Ids -> Rows']]
        BY <1>1, <2>2, TypesGrow
    <2> QED
        BY <1>1, <1>2, <2>1, <2>2, <2>3, <2>4, <2>5, <2>6, <2>7, GoKeeps
<1> QED
    BY <1>3, <1>4

\* An upload stores an object under a fresh name before anything names it.
LEMMA UploadKeeps ==
    ASSUME IInv, NEW t \in Txns, Upload(t)
    PROVE  IInv'
<1>1. pc[t] = "upload" /\ row' = row /\ nextId' = nextId
    BY DEF Upload, Goto
<1>2. req[t].op \in {"create", "image"} /\ Target(t) \in Ids
    <2>1. req[t].op \in {"create", "image"} /\ (req[t].op = "image" => req[t].product \in Ids)
        BY <1>1, Labelled
    <2>2. req[t].op = "create" => newId[t] # 0
        BY <1>1 DEF IInv, HandlerOK
    <2> QED
        BY <2>1, <2>2, HeldIds DEF Target
<1>3. Url(t) \in Urls
    BY <1>2 DEF Url, Urls
<1>4. bucket \subseteq bucket' /\ bucket' \subseteq Urls
    <2>1. bucket' \in {bucket, bucket \cup {Url(t)}}
        BY DEF Upload
    <2> QED
        BY <1>3, <2>1 DEF IInv, Types
<1>5. row' \in [Ids -> Rows']
    BY <1>1, <1>4, TypesGrow
<1>6. CASE Leave(t, "upload_error")
    <2>1. "upload_error" \in Answers
        BY DEF Answers
    <2> QED
        BY <1>1, <1>4, <1>5, <1>6, <2>1, LeaveKeeps
<1>7. CASE ~Leave(t, "upload_error")
    <2>1. PICK l \in {"insert", "image_write"} :
              Goto(t, l) /\ l = IF req[t].op = "create" THEN "insert" ELSE "image_write"
        BY <1>7 DEF Upload
    <2>2. bucket' = bucket \cup {Url(t)} /\ orm' = orm /\ newId' = newId
        BY <1>7 DEF Upload
    <2>3. Url(t)' = Url(t)
        BY <2>1, <2>2 DEF Goto, Url, Target
    <2>4. /\ nextId \in Nat \ {0} /\ newId \in [Txns -> Ids \cup {0}] /\ HandlerOK(t)
        BY DEF IInv, Types
    <2>5. /\ newId[t] # 0 <=> req[t].op = "create"
          /\ newId[t] # 0 => newId[t] < nextId /\ row[newId[t]] = NoRow /\ Cents(req[t].price) <= MaxPrice
        BY <1>1, <2>4 DEF HandlerOK, Listed
    <2>6. l \in Everywhere \ {"idle", "done"} /\ l \in Path(req[t].op)
        BY <1>2, <2>1 DEF Everywhere, Path
    <2>7. orm' \in [Txns -> [Ids -> Rows']]
        BY <1>4, <2>2, TypesGrow
    <2> QED
        BY <1>1, <1>2, <1>4, <2>1, <2>2, <2>3, <2>4, <2>5, <2>6, <2>7, GoKeeps
<1> QED
    BY <1>6, <1>7

\* A product that is created: a row of its own.
LEMMA Created ==
    ASSUME IInv, NEW t \in Txns, CreateCommit(t)
    PROVE  /\ pc[t] = "insert" /\ req[t].op = "create" /\ newId[t] # 0 /\ newId[t] \in Ids
           /\ row[newId[t]] = NoRow
           /\ \E product \in Rows : /\ product.price = Cents(req[t].price) /\ product # NoRow
                                    /\ Commit(t, [row EXCEPT ![newId[t]] = product])
           /\ req[t].price \in Nat
<1>1. pc[t] = "insert"
    BY DEF CreateCommit
<1>2. /\ req[t].op = "create" /\ req[t].price \in Nat /\ req[t].rating \in Nat
      /\ Acceptable(req[t])
    BY <1>1, Labelled, RequestFields
<1>3. /\ newId[t] # 0 /\ row[newId[t]] = NoRow /\ Cents(req[t].price) <= MaxPrice
      /\ req[t].image => Url(t) \in bucket
    BY <1>1, <1>2 DEF IInv, HandlerOK, Listed
<1>4. newId[t] \in Ids
    BY <1>3, HeldIds
<1>5. PICK images : images = IF req[t].image THEN <<Url(t)>> ELSE <<>>
    OBVIOUS
<1>6. images \in Seq(Shown)
    <2>1. CASE req[t].image
        <3>1. Url(t) \in Shown /\ images = <<Url(t)>>
            BY <1>3, <1>5, <2>1 DEF Shown
        <3> QED
            BY <3>1
    <2>2. CASE ~req[t].image
        BY <1>5, <2>2
    <2> QED
        BY <2>1, <2>2
<1>7. Cents(req[t].price) \in 0 .. MaxPrice /\ Cents(req[t].price) # 0
    BY <1>2, <1>3, CentsAreRounded, MoneyAssumption DEF Acceptable
<1>8. Tenths(req[t].rating) \in 0 .. 50
    BY <1>2, TenthsFit DEF Acceptable
<1>9. PICK product : product = [price |-> Cents(req[t].price), rating |-> Tenths(req[t].rating), images |-> images]
    OBVIOUS
<1>10. product \in Columns /\ product.price = Cents(req[t].price) /\ product.price # 0
    BY <1>6, <1>7, <1>8, <1>9 DEF Columns
<1>11. product \in Rows /\ product # NoRow
    BY <1>10 DEF Rows, NoRow
<1>12. Commit(t, [row EXCEPT ![newId[t]] = product])
    BY <1>5, <1>9 DEF CreateCommit
<1> QED
    BY <1>1, <1>2, <1>3, <1>4, <1>10, <1>11, <1>12

\* A creation commits its row under the id it holds.
LEMMA CreateCommitKeeps ==
    ASSUME IInv, NEW t \in Txns, CreateCommit(t)
    PROVE  IInv'
<1>1. PICK product \in Rows : Commit(t, [row EXCEPT ![newId[t]] = product])
    BY Created
<1>2. pc[t] = "insert" /\ newId[t] # 0 /\ newId[t] \in Ids
    BY Created
<1>3. newId[t] \notin Inserting(t)
    BY <1>2 DEF IInv, Inserting
<1>4. PICK rows : rows = [row EXCEPT ![newId[t]] = product]
    OBVIOUS
<1>5. rows \in [Ids -> Rows] /\ \A p \in Ids : p # newId[t] => rows[p] = row[p]
    BY <1>2, <1>4 DEF IInv, Types
<1> QED
    BY <1>1, <1>2, <1>3, <1>4, <1>5, CommitKeeps

\* A row that is read is a row.
LEMMA ReadKeeps ==
    ASSUME IInv, NEW t \in Txns, NEW l \in {"edit_write", "upload", "drop_write"}, Read(t, l),
           pc[t] \in {"edit", "image", "drop"}, l \in Path(req[t].op)
    PROVE  IInv'
<1>1. PICK p \in Ids : p = req[t].product
    BY Labelled
<1>2. CASE Rollback(t, "not_found")
    <2>1. "not_found" \in Answers
        BY DEF Answers
    <2> QED
        BY <1>2, <2>1, RollbackKeeps
<1>3. CASE ~Rollback(t, "not_found")
    <2>1. /\ orm' = [orm EXCEPT ![t][p] = row[p]] /\ Goto(t, l)
          /\ nextId' = nextId /\ bucket' = bucket /\ newId' = newId
        BY <1>1, <1>3 DEF Read
    <2>2. orm' \in [Txns -> [Ids -> Rows]]
        BY <2>1 DEF IInv, Types
    <2>3. Rows' = Rows
        BY <2>1 DEF Rows, Columns, Shown
    <2>4. newId[t] = 0 /\ req[t].op # "create"
        BY Labelled DEF IInv, HandlerOK
    <2>5. /\ nextId \in Nat \ {0} /\ newId \in [Txns -> Ids \cup {0}] /\ bucket \subseteq Urls
        BY DEF IInv, Types
    <2>6. l \in Everywhere \ {"idle", "done"} /\ l # "insert" /\ l # "image_write"
        BY DEF Everywhere
    <2> QED
        BY <2>1, <2>2, <2>3, <2>4, <2>5, <2>6, GoKeeps
<1> QED
    BY <1>2, <1>3

\* Reading a row copies what fits the columns.
LEMMA ReadsKeep ==
    ASSUME IInv, NEW t \in Txns, EditRead(t) \/ ImageRead(t) \/ DropRead(t)
    PROVE  IInv'
<1>1. pc[t] \in {"edit", "image", "drop"}
    BY DEF EditRead, ImageRead, DropRead
<1>2. /\ pc[t] = "edit" => "edit_write" \in Path(req[t].op)
      /\ pc[t] = "image" => "upload" \in Path(req[t].op)
      /\ pc[t] = "drop" => "drop_write" \in Path(req[t].op)
    BY <1>1, Labelled DEF Path
<1> QED
    BY <1>1, <1>2, ReadKeeps DEF EditRead, ImageRead, DropRead

\* A price that is edited is positive, and fits.
LEMMA EditWriteKeeps ==
    ASSUME IInv, NEW t \in Txns, EditWrite(t)
    PROVE  IInv'
<1>1. pc[t] = "edit_write" /\ req[t].op = "edit" /\ req[t].product \in Ids /\ req[t].price \in Nat
      /\ Acceptable(req[t])
    BY Labelled, RequestFields DEF EditWrite
<1>2. CASE \E a \in {"ok", "stale_data", "overflow"} : Rollback(t, a)
    <2>1. {"ok", "stale_data", "overflow"} \subseteq Answers
        BY DEF Answers
    <2> QED
        BY <1>1, <1>2, <2>1, RollbackKeeps
<1>3. CASE ~\E a \in {"ok", "stale_data", "overflow"} : Rollback(t, a)
    <2>1. PICK p, cents : p \in Ids /\ p = req[t].product /\ cents = Cents(req[t].price)
        BY <1>1
    <2>2. cents <= MaxPrice /\ row[p] # NoRow /\ Commit(t, [row EXCEPT ![p].price = cents])
        BY <1>3, <2>1 DEF EditWrite, Listed
    <2>3. cents \in 0 .. MaxPrice /\ cents # 0
        BY <1>1, <2>1, <2>2, CentsAreRounded, MoneyAssumption DEF Acceptable
    <2>4. PICK r : r = [row[p] EXCEPT !.price = cents]
        OBVIOUS
    <2>5. row[p] \in Columns /\ row \in [Ids -> Rows]
        BY <2>1 DEF IInv, Types, Rows
    <2>6. r \in Rows
        BY <2>3, <2>4, <2>5 DEF Columns, Rows
    <2>7. PICK rows : rows = [row EXCEPT ![p].price = cents]
        OBVIOUS
    <2>8. rows = [row EXCEPT ![p] = r]
        BY <2>4, <2>5, <2>7
    <2>9. rows \in [Ids -> Rows] /\ \A x \in Ids : row[x] = NoRow => rows[x] = row[x]
        BY <2>2, <2>5, <2>6, <2>8
    <2> QED
        BY <1>1, <2>2, <2>7, <2>9, CommitKeeps
<1> QED
    BY <1>2, <1>3

\* The images that are written are the ones that were read, and one that is stored.
LEMMA ImagesAreShown ==
    ASSUME IInv, NEW t \in Txns, pc[t] = "image_write"
    PROVE  NewImages(t) \in Seq(Shown)
<1>1. req[t].product \in Ids /\ Url(t) \in Shown
    BY Labelled DEF IInv, HandlerOK, Shown
<1>2. orm[t][req[t].product].images \in Seq(Shown)
    BY <1>1 DEF IInv, Types, Rows, Columns
<1>3. <<Url(t)>> \in Seq(Shown)
    BY <1>1
<1> QED
    BY <1>2, <1>3 DEF NewImages

\* The new list of images names stored ones: those that were read, and the upload.
LEMMA ImageWriteKeeps ==
    ASSUME IInv, NEW t \in Txns, ImageWrite(t)
    PROVE  IInv'
<1>1. pc[t] = "image_write" /\ req[t].product \in Ids
    BY Labelled DEF ImageWrite
<1>2. CASE Rollback(t, "stale_data")
    <2>1. "stale_data" \in Answers
        BY DEF Answers
    <2> QED
        BY <1>1, <1>2, <2>1, RollbackKeeps
<1>3. CASE ~Rollback(t, "stale_data")
    <2>1. PICK p, images : p \in Ids /\ p = req[t].product /\ images = NewImages(t)
        BY <1>1
    <2>2. row[p] # NoRow /\ Commit(t, [row EXCEPT ![p].images = images])
        BY <1>3, <2>1 DEF ImageWrite, Listed
    <2>3. images \in Seq(Shown)
        BY <1>1, <2>1, ImagesAreShown
    <2>4. PICK r : r = [row[p] EXCEPT !.images = images]
        OBVIOUS
    <2>5. row[p] \in Columns /\ row[p].price # 0 /\ row \in [Ids -> Rows]
        BY <2>1, <2>2 DEF IInv, Types, Rows
    <2>6. r \in Rows
        BY <2>3, <2>4, <2>5 DEF Columns, Rows
    <2>7. PICK rows : rows = [row EXCEPT ![p].images = images]
        OBVIOUS
    <2>8. rows = [row EXCEPT ![p] = r]
        BY <2>4, <2>5, <2>7
    <2>9. rows \in [Ids -> Rows] /\ \A x \in Ids : row[x] = NoRow => rows[x] = row[x]
        BY <2>2, <2>5, <2>6, <2>8
    <2> QED
        BY <1>1, <2>2, <2>7, <2>9, CommitKeeps
<1> QED
    BY <1>2, <1>3

\* A deletion frees the id; nobody who creates has it.
LEMMA DropWriteKeeps ==
    ASSUME IInv, NEW t \in Txns, DropWrite(t)
    PROVE  IInv'
<1>1. pc[t] = "drop_write" /\ req[t].product \in Ids
    BY Labelled DEF DropWrite
<1>2. PICK rows : rows = [row EXCEPT ![req[t].product] = NoRow]
    OBVIOUS
<1>3. rows \in [Ids -> Rows] /\ \A x \in Ids : row[x] = NoRow => rows[x] = NoRow
    BY <1>1, <1>2, NoRowIsRow DEF IInv, Types
<1> QED
    BY <1>1, <1>2, <1>3, CommitKeeps DEF DropWrite

\* The import reads the products of the seed.
LEMMA ImportReadKeeps ==
    ASSUME IInv, NEW t \in Txns, ImportRead(t)
    PROVE  IInv'
<1>1. /\ pc[t] = "import" /\ Goto(t, "import_write") /\ row' = row
      /\ nextId' = nextId /\ bucket' = bucket /\ newId' = newId
    BY DEF ImportRead, Goto
<1>2. PICK seen : seen = [p \in Ids |-> IF p \in Seed THEN row[p] ELSE NoRow]
    OBVIOUS
<1>3. seen \in [Ids -> Rows]
    BY <1>2, NoRowIsRow DEF IInv, Types
<1>4. orm' \in [Txns -> [Ids -> Rows]]
    BY <1>2, <1>3 DEF ImportRead, IInv, Types
<1>5. Rows' = Rows
    BY <1>1 DEF Rows, Columns, Shown
<1>6. newId[t] = 0 /\ req[t].op # "create" /\ "import_write" \in Path(req[t].op)
    BY <1>1, Labelled DEF IInv, HandlerOK, Path
<1>7. nextId \in Nat \ {0} /\ newId \in [Txns -> Ids \cup {0}] /\ bucket \subseteq Urls
    BY DEF IInv, Types
<1>8. "import_write" \in Everywhere \ {"idle", "done"}
    BY DEF Everywhere
<1> QED
    BY <1>1, <1>4, <1>5, <1>6, <1>7, <1>8, GoKeeps

\* What the import makes of a product of the seed: the seed's where it was gone, nothing where
\* it went meanwhile, else a product whose price is the seed's unless it was the seed's when
\* it was read.
LEMMA ImportedIs ==
    ASSUME IInv, NEW t \in Txns, NEW p \in Seed
    PROVE  /\ Imported(t, p) \in Rows
           /\ Imported(t, p) = NoRow <=> orm[t][p] # NoRow /\ row[p] = NoRow
           /\ Imported(t, p) # NoRow =>
                 \A column \in DOMAIN NoRow :
                     Imported(t, p)[column] = IF orm[t][p][column] = SeedRow(p)[column]
                                              THEN row[p][column] ELSE SeedRow(p)[column]
<1>1. p \in Ids /\ row[p] \in Rows /\ orm[t][p] \in Rows
    BY SeedAssumption DEF IInv, Types
<1>2. /\ SeedRow(p) \in Rows /\ SeedRow(p).price = SeedPrice[p] /\ SeedRow(p) # NoRow
      /\ SeedPrice[p] # 0
    BY SeedRowIsRow
<1>3. CASE orm[t][p] = NoRow
    <2>1. Imported(t, p) = SeedRow(p)
        BY <1>3 DEF Imported, Missing
    <2>2. SeedRow(p).price # NoRow.price /\ SeedRow(p).rating # NoRow.rating /\ SeedRow(p).images # NoRow.images
        BY <1>2 DEF SeedRow, NoRow
    <2>3. \A column \in DOMAIN NoRow : NoRow[column] # SeedRow(p)[column]
        BY <2>2 DEF NoRow
    <2> QED
        BY <1>2, <1>3, <2>1, <2>3
<1>4. CASE orm[t][p] # NoRow /\ row[p] = NoRow
    <2>1. Imported(t, p) = NoRow
        BY <1>4 DEF Imported, Missing, Listed
    <2> QED
        BY <1>4, <2>1, NoRowIsRow
<1>5. CASE orm[t][p] # NoRow /\ row[p] # NoRow
    <2>1. DOMAIN NoRow = {"price", "rating", "images"}
        BY DEF NoRow
    <2>2. PICK r : r = [column \in DOMAIN NoRow |->
                           IF column \in Changes(t, p) THEN SeedRow(p)[column] ELSE row[p][column]]
        OBVIOUS
    <2>3. Imported(t, p) = r
        BY <1>5, <2>2 DEF Imported, Missing, Listed
    <2>4. Changes(t, p) = {column \in {"price", "rating", "images"} : orm[t][p][column] # SeedRow(p)[column]}
        BY <2>1 DEF Changes
    <2>5. /\ r.price = IF "price" \in Changes(t, p) THEN SeedRow(p).price ELSE row[p].price
          /\ r.rating = IF "rating" \in Changes(t, p) THEN SeedRow(p).rating ELSE row[p].rating
          /\ r.images = IF "images" \in Changes(t, p) THEN SeedRow(p).images ELSE row[p].images
        BY <2>1, <2>2
    <2>6. \A column \in DOMAIN NoRow :
              r[column] = IF orm[t][p][column] = SeedRow(p)[column]
                          THEN row[p][column] ELSE SeedRow(p)[column]
        BY <2>1, <2>2, <2>4
    <2>7. r = [price |-> r.price, rating |-> r.rating, images |-> r.images]
        BY <2>1, <2>2
    <2>8. row[p] \in Columns /\ row[p].price # 0 /\ SeedRow(p) \in Columns
        BY <1>1, <1>2, <1>5 DEF Rows
    <2>9. r.price \in 0 .. MaxPrice /\ r.rating \in 0 .. 50 /\ r.images \in Seq(Shown) /\ r.price # 0
        BY <1>2, <2>5, <2>8 DEF Columns
    <2>10. r \in Rows /\ r # NoRow
        <3>1. r \in Columns
            BY <2>7, <2>9 DEF Columns
        <3> QED
            BY <2>9, <3>1 DEF Rows, NoRow
    <2> QED
        BY <1>5, <2>3, <2>6, <2>10
<1> QED
    BY <1>3, <1>4, <1>5

\* The rows an import commits, and that it gives no id that is being inserted.
LEMMA ImportCommits ==
    ASSUME IInv, NEW t \in Txns, ImportWrite(t), ~\E a \in {"stale_data", "integrity_error"} : Rollback(t, a)
    PROVE  \E rows \in [Ids -> Rows] :
               /\ Commit(t, rows)
               /\ \A p \in Seed : rows[p] = Imported(t, p)
               /\ \A p \in Ids \ Seed : rows[p] = row[p]
               /\ \A p \in Ids : row[p] = NoRow /\ rows[p] # NoRow => p \notin Inserting(t)
<1>1. PICK rows : rows = [p \in Ids |-> IF p \in Seed THEN Imported(t, p) ELSE row[p]]
    OBVIOUS
<1>2. Commit(t, rows) /\ Missing(t) \cap Inserting(t) = {}
    BY <1>1 DEF ImportWrite
<1>3. Seed \subseteq Ids
    BY SeedAssumption
<1>4. rows \in [Ids -> Rows]
    <2>1. ASSUME NEW p \in Ids PROVE rows[p] \in Rows
        BY <1>1, <2>1, ImportedIs DEF IInv, Types
    <2> QED
        BY <1>1, <2>1
<1>5. ASSUME NEW p \in Ids, row[p] = NoRow, rows[p] # NoRow PROVE p \notin Inserting(t)
    <2>1. p \in Seed /\ Imported(t, p) # NoRow
        BY <1>1, <1>5
    <2>2. p \in Missing(t)
        BY <1>5, <2>1, ImportedIs DEF Missing
    <2> QED
        BY <1>2, <2>2
<1> QED
    BY <1>1, <1>2, <1>3, <1>4, <1>5

\* An import writes rows of the seed and prices that fit.
LEMMA ImportWriteKeeps ==
    ASSUME IInv, NEW t \in Txns, ImportWrite(t)
    PROVE  IInv'
<1>1. pc[t] = "import_write"
    BY DEF ImportWrite
<1>2. CASE \E a \in {"stale_data", "integrity_error"} : Rollback(t, a)
    <2>1. {"stale_data", "integrity_error"} \subseteq Answers
        BY DEF Answers
    <2> QED
        BY <1>1, <1>2, <2>1, RollbackKeeps
<1>3. CASE ~\E a \in {"stale_data", "integrity_error"} : Rollback(t, a)
    <2>1. PICK rows \in [Ids -> Rows] :
               /\ Commit(t, rows)
               /\ \A p \in Ids : row[p] = NoRow /\ rows[p] # NoRow => p \notin Inserting(t)
        BY <1>3, ImportCommits
    <2> QED
        BY <1>1, <2>1, CommitKeeps
<1> QED
    BY <1>2, <1>3

\* A worker that dies leaves nothing behind but its uploads.
LEMMA CrashKeeps ==
    ASSUME IInv, NEW t \in Txns, Crash(t)
    PROVE  IInv'
<1>1. "lost" \in Answers
    BY DEF Answers
<1> QED
    BY <1>1, RollbackKeeps DEF Crash, Running

\* At first the sequence is unused and nobody has read anything.
LEMMA InitHolds == Init => IInv
<1> SUFFICES ASSUME Init PROVE IInv
    OBVIOUS
<1>1. row \in [Ids -> Rows]
    <2>1. PICK edited \in SUBSET Seed :
               row = [p \in Ids |-> IF p \in edited THEN [SeedRow(p) EXCEPT !.price = MaxPrice]
                                    ELSE IF p \in Seed THEN SeedRow(p) ELSE NoRow]
        BY DEF Init
    <2>2. ASSUME NEW p \in edited PROVE [SeedRow(p) EXCEPT !.price = MaxPrice] \in Rows
        <3>1. SeedRow(p) \in Columns /\ SeedPrice[p] \in 1 .. MaxPrice
            BY SeedRowIsRow, SeedAssumption DEF Rows
        <3>2. MaxPrice \in 0 .. MaxPrice /\ MaxPrice # 0
            BY <3>1, MoneyAssumption
        <3> QED
            BY <3>1, <3>2 DEF Rows, Columns
    <2>3. ASSUME NEW p \in Ids PROVE row[p] \in Rows
        BY <2>1, <2>2, SeedRowIsRow, NoRowIsRow
    <2> QED
        BY <2>1, <2>3
<1>2. orm \in [Txns -> [Ids -> Rows]]
    BY NoRowIsRow DEF Init, Blank
<1>3. nextId \in Nat \ {0} /\ bucket \subseteq Urls
    BY IdsAssumption DEF Init
<1>4. /\ pc \in [Txns -> Everywhere] /\ reply \in [Txns -> Answers]
      /\ req \in [Txns -> RequestSpace \cup {NoRequest}] /\ newId \in [Txns -> Ids \cup {0}]
    BY DEF Init, Everywhere, Answers
<1>5. \A t \in Txns : HandlerOK(t)
    BY DEF Init, HandlerOK, NoRequest
<1>6. \A t \in Txns : newId[t] = 0
    BY DEF Init
<1> QED
    BY <1>1, <1>2, <1>3, <1>4, <1>5, <1>6 DEF IInv, Types

\* IInv is inductive: one case for each step of the module.
LEMMA NextKeeps == IInv /\ [Next]_vars => IInv'
<1> SUFFICES ASSUME IInv, [Next]_vars PROVE IInv'
    OBVIOUS
<1>1. ASSUME NEW t \in Txns, Step(t) PROVE IInv'
    BY <1>1, CreateFlushKeeps, UploadKeeps, CreateCommitKeeps, ReadsKeep, EditWriteKeeps,
       ImageWriteKeeps, DropWriteKeeps, ImportReadKeeps, ImportWriteKeeps DEF Step
<1>2. CASE UNCHANGED vars
    <2>1. /\ row' = row /\ nextId' = nextId /\ bucket' = bucket /\ pc' = pc /\ req' = req
          /\ reply' = reply /\ orm' = orm /\ newId' = newId
        BY <1>2 DEF vars
    <2>2. Types'
        BY <2>1, TypesGrow DEF IInv, Types
    <2>3. \A t \in Txns : HandlerOK(t)'
        BY <2>1 DEF IInv, HandlerOK, Listed, Url, Target
    <2> QED
        BY <2>1, <2>2, <2>3 DEF IInv
<1> QED
    BY <1>1, <1>2, ReceiveKeeps, CrashKeeps DEF Next

\* IInv holds in every reachable state.
LEMMA CatalogHolds == Spec => []IInv
BY InitHolds, NextKeeps, PTL DEF Spec

-----------------------------------------------------------------------------
(* Which step it was.                                                       *)

\* A step changes the place of one request.
LEMMA OneMoves ==
    ASSUME NEW x \in Txns, Step(x) \/ Crash(x) \/ \E r \in Requests : Receive(x, r)
    PROVE  \E l : pc' = [pc EXCEPT ![x] = l]
BY DEF Step, Crash, Receive, CreateFlush, Upload, CreateCommit, EditRead, EditWrite, ImageRead, ImageWrite,
       DropRead, DropWrite, ImportRead, ImportWrite, Read, Goto, Commit, Rollback, End, Leave

\* A transaction that moves makes the step.
LEMMA MoverSteps ==
    ASSUME IInv, Next, NEW t \in Txns, pc'[t] # pc[t]
    PROVE  Step(t) \/ Crash(t) \/ \E r \in Requests : Receive(t, r)
<1>1. PICK x \in Txns : Step(x) \/ Crash(x) \/ \E r \in Requests : Receive(x, r)
    BY DEF Next
<1>2. pc \in [Txns -> Everywhere] /\ \E l : pc' = [pc EXCEPT ![x] = l]
    BY <1>1, OneMoves DEF IInv, Types
<1>3. x = t
    BY <1>2
<1> QED
    BY <1>1, <1>3

\* A transaction that is answered with success has committed.
LEMMA Committed ==
    ASSUME IInv, Next, NEW t \in Txns, pc[t] # "done", pc'[t] = "done", reply'[t] = "ok",
           req[t].op \in {"create", "import"}
    PROVE  /\ req[t].op = "create" => CreateCommit(t)
           /\ req[t].op = "import" => /\ ImportWrite(t)
                                      /\ ~\E a \in {"stale_data", "integrity_error"} : Rollback(t, a)
<1>1. reply \in [Txns -> Answers] /\ pc \in [Txns -> Everywhere]
    BY DEF IInv, Types
<1>2. ~\E a \in Answers \ {"ok"} : Leave(t, a)
    BY <1>1 DEF Leave
<1>3. ~\E l \in Everywhere \ {"done"} : Goto(t, l)
    BY <1>1 DEF Goto
<1>4. ~\E r \in Requests : Receive(t, r)
    <2>1. pc[t] = "idle" => req[t].op = "none"
        BY DEF IInv, HandlerOK, NoRequest
    <2> QED
        BY <2>1 DEF Receive
<1>5. ~Crash(t)
    BY <1>2 DEF Crash, Rollback, End, Answers
<1>6. ~CreateFlush(t) /\ ~Upload(t) /\ ~ImportRead(t)
    BY <1>2, <1>3 DEF CreateFlush, Upload, ImportRead, Answers, Everywhere
<1>7. Step(t)
    BY <1>4, <1>5, MoverSteps
<1>8. req[t].op = "create" => pc[t] \in {"create", "upload", "insert"}
    BY <1>4, <1>5, <1>7, Labelled DEF Step, CreateFlush, Upload, CreateCommit, EditRead, EditWrite, ImageRead,
       ImageWrite, DropRead, DropWrite, ImportRead, ImportWrite
<1>9. req[t].op = "import" => pc[t] \in {"import", "import_write"}
    BY <1>4, <1>5, <1>7, Labelled DEF Step, CreateFlush, Upload, CreateCommit, EditRead, EditWrite, ImageRead,
       ImageWrite, DropRead, DropWrite, ImportRead, ImportWrite
<1>10. CASE req[t].op = "create"
    BY <1>6, <1>7, <1>8, <1>10 DEF Step, EditRead, EditWrite, ImageRead, ImageWrite, DropRead, DropWrite,
       ImportRead, ImportWrite
<1>11. CASE req[t].op = "import"
    <2>1. ImportWrite(t)
        BY <1>6, <1>7, <1>9, <1>11 DEF Step, CreateFlush, Upload, CreateCommit, EditRead, EditWrite, ImageRead,
           ImageWrite, DropRead, DropWrite, ImportRead
    <2>2. ~\E a \in {"stale_data", "integrity_error"} : Rollback(t, a)
        BY <1>2 DEF Rollback, End, Answers
    <2> QED
        BY <1>11, <2>1, <2>2
<1> QED
    BY <1>10, <1>11

\* Who changes a row, and to what.
Creates(t, p) == /\ req[t].op = "create" /\ p = newId[t] /\ row[p] = NoRow
                 /\ req[t].price \in Nat /\ row'[p].price = Cents(req[t].price)
Edits(t, p) == /\ req[t].op = "edit" /\ row'[p].images = row[p].images
               /\ req[t].price \in Nat /\ row'[p].price = Cents(req[t].price)
AddsImage(t, p) == req[t].op = "image" /\ row'[p].price = row[p].price
Drops(t, p) == req[t].op = "drop" /\ row'[p] = NoRow
Imports(t, p) == req[t].op = "import" /\ p \in Seed /\ row'[p] = Imported(t, p)

\* A product changes by the step of a request, and that request's operation is about it.
LEMMA WriterIs ==
    ASSUME IInv, Next, NEW p \in Ids, row'[p] # row[p]
    PROVE  \E t \in Txns :
               /\ pc[t] # pc'[t]
               /\ Creates(t, p) \/ Edits(t, p) \/ AddsImage(t, p) \/ Drops(t, p) \/ Imports(t, p)
<1>1. PICK t \in Txns : Step(t) \/ Crash(t) \/ \E r \in Requests : Receive(t, r)
    BY DEF Next
<1>2. /\ row \in [Ids -> Rows] /\ pc \in [Txns -> Everywhere]
      /\ row[p] \in Columns
    BY DEF IInv, Types, Rows
<1>3. ~\E a : Rollback(t, a)
    BY DEF Rollback
<1>4. ASSUME pc[t] \notin {"idle", "done"}, NEW rows, Commit(t, rows)
      PROVE  pc[t] # pc'[t] /\ row' = rows
    BY <1>2, <1>4 DEF Commit, End, Leave
<1>5. CASE CreateCommit(t)
    <2>1. /\ pc[t] = "insert" /\ req[t].op = "create" /\ newId[t] \in Ids
          /\ row[newId[t]] = NoRow /\ req[t].price \in Nat
        BY <1>5, Created
    <2>2. PICK product \in Rows : /\ product.price = Cents(req[t].price)
                                  /\ Commit(t, [row EXCEPT ![newId[t]] = product])
        BY <1>5, Created
    <2>3. pc[t] # pc'[t] /\ row' = [row EXCEPT ![newId[t]] = product]
        BY <1>4, <2>1, <2>2
    <2>4. p = newId[t] /\ row'[p] = product
        BY <1>2, <2>1, <2>3
    <2> QED
        BY <2>1, <2>2, <2>3, <2>4 DEF Creates
<1>6. CASE EditWrite(t)
    <2>1. /\ pc[t] = "edit_write" /\ req[t].op = "edit" /\ req[t].product \in Ids /\ req[t].price \in Nat
          /\ Commit(t, [row EXCEPT ![req[t].product].price = Cents(req[t].price)])
        BY <1>3, <1>6, Labelled, RequestFields DEF EditWrite
    <2>2. pc[t] # pc'[t] /\ row' = [row EXCEPT ![req[t].product].price = Cents(req[t].price)]
        BY <1>4, <2>1
    <2>3. p = req[t].product /\ row'[p] = [row[p] EXCEPT !.price = Cents(req[t].price)]
        BY <1>2, <2>1, <2>2
    <2>4. row'[p].price = Cents(req[t].price) /\ row'[p].images = row[p].images
        BY <1>2, <2>3 DEF Columns
    <2> QED
        BY <2>1, <2>2, <2>4 DEF Edits
<1>7. CASE ImageWrite(t)
    <2>1. /\ pc[t] = "image_write" /\ req[t].op = "image" /\ req[t].product \in Ids
          /\ Commit(t, [row EXCEPT ![req[t].product].images = NewImages(t)])
        BY <1>3, <1>7, Labelled DEF ImageWrite
    <2>2. pc[t] # pc'[t] /\ row' = [row EXCEPT ![req[t].product].images = NewImages(t)]
        BY <1>4, <2>1
    <2>3. p = req[t].product /\ row'[p] = [row[p] EXCEPT !.images = NewImages(t)]
        BY <1>2, <2>1, <2>2
    <2>4. row'[p].price = row[p].price
        BY <1>2, <2>3 DEF Columns
    <2> QED
        BY <2>1, <2>2, <2>4 DEF AddsImage
<1>8. CASE DropWrite(t)
    <2>1. pc[t] = "drop_write" /\ req[t].op = "drop" /\ Commit(t, [row EXCEPT ![req[t].product] = NoRow])
        BY <1>8, Labelled DEF DropWrite
    <2>2. pc[t] # pc'[t] /\ row' = [row EXCEPT ![req[t].product] = NoRow]
        BY <1>4, <2>1
    <2>3. row'[p] = NoRow
        BY <1>2, <2>2
    <2> QED
        BY <2>1, <2>2, <2>3 DEF Drops
<1>9. CASE ImportWrite(t)
    <2>1. pc[t] = "import_write" /\ req[t].op = "import"
        BY <1>9, Labelled DEF ImportWrite
    <2>2. PICK rows \in [Ids -> Rows] : /\ Commit(t, rows)
                                        /\ \A q \in Seed : rows[q] = Imported(t, q)
                                        /\ \A q \in Ids \ Seed : rows[q] = row[q]
        BY <1>3, <1>9, ImportCommits
    <2>3. pc[t] # pc'[t] /\ row' = rows
        BY <1>4, <2>1, <2>2
    <2> QED
        BY <2>1, <2>2, <2>3 DEF Imports
<1>10. CASE ~(CreateCommit(t) \/ EditWrite(t) \/ ImageWrite(t) \/ DropWrite(t) \/ ImportWrite(t))
    <2>1. row' = row
        BY <1>1, <1>10 DEF Step, Crash, Receive, CreateFlush, Upload, EditRead, ImageRead, DropRead, ImportRead,
           Read, Goto, Rollback
    <2> QED
        BY <2>1
<1> QED
    BY <1>5, <1>6, <1>7, <1>8, <1>9, <1>10

-----------------------------------------------------------------------------
(* The theorems.                                                            *)

\* Prices, ratings and ids are within the bounds of their columns, whatever was sent.
THEOREM TypesHold == Spec => []TypeOK
<1>1. IInv => TypeOK
    <2> SUFFICES ASSUME IInv PROVE TypeOK
        OBVIOUS
    <2>1. Rows \subseteq RowType
        <3> SUFFICES ASSUME NEW r \in Rows PROVE r \in RowType
            OBVIOUS
        <3>1. r \in Columns /\ Shown \subseteq {SeedImage} \cup Urls
            BY DEF IInv, Types, Rows, Shown
        <3>2. r.images \in Seq({SeedImage} \cup Urls)
            BY <3>1, SeqGrows DEF Columns
        <3> QED
            BY <3>1, <3>2 DEF Columns, RowType
    <2>2. row \in [Ids -> RowType] /\ orm \in [Txns -> [Ids -> RowType]]
        <3>1. [Ids -> Rows] \subseteq [Ids -> RowType]
            BY <2>1
        <3> QED
            BY <2>1, <3>1 DEF IInv, Types
    <2>3. \A p \in Ids : row[p].price = 0 => ~Listed(p) /\ row[p].images = <<>>
        BY DEF IInv, Types, Rows, Listed, NoRow
    <2> QED
        BY <2>2, <2>3 DEF IInv, Types, TypeOK
<1> QED
    BY <1>1, CatalogHolds, PTL

\* An image is stored before any product lists it, and nothing takes it away.
THEOREM ImagesAreStored == Spec => []ImageListedIsStored
<1>1. IInv => ImageListedIsStored
    <2> SUFFICES ASSUME IInv, NEW p \in Ids, NEW i \in DOMAIN row[p].images
                 PROVE  row[p].images[i] = SeedImage \/ row[p].images[i] \in bucket
        BY DEF ImageListedIsStored
    <2>1. row[p].images \in Seq(Shown)
        BY DEF IInv, Types, Rows, Columns
    <2>2. row[p].images[i] \in Shown
        BY <2>1
    <2> QED
        BY <2>2 DEF Shown
<1> QED
    BY <1>1, CatalogHolds, PTL

\* A creation adds one product under an id that no other has, or has taken.
THEOREM CreationsAddARow == Spec => CreationAddsARow
<1>1. IInv /\ [Next]_vars =>
          [\A t \in Txns : pc[t] # "done" /\ pc'[t] = "done" /\ reply'[t] = "ok" /\ req[t].op = "create" =>
              /\ ~Listed(newId[t]) /\ row'[newId[t]] # NoRow
              /\ \A p \in Ids \ {newId[t]} : row'[p] = row[p]
              /\ \A s \in Txns \ {t} : newId[s] # newId[t]]_vars
    <2> SUFFICES ASSUME IInv, Next, NEW t \in Txns,
                        pc[t] # "done", pc'[t] = "done", reply'[t] = "ok", req[t].op = "create"
                 PROVE  /\ ~Listed(newId[t]) /\ row'[newId[t]] # NoRow
                        /\ \A p \in Ids \ {newId[t]} : row'[p] = row[p]
                        /\ \A s \in Txns \ {t} : newId[s] # newId[t]
        OBVIOUS
    <2>1. CreateCommit(t)
        BY Committed
    <2>2. newId[t] # 0 /\ newId[t] \in Ids /\ row[newId[t]] = NoRow
        BY <2>1, Created
    <2>3. PICK product : product # NoRow /\ Commit(t, [row EXCEPT ![newId[t]] = product])
        BY <2>1, Created
    <2>4. row' = [row EXCEPT ![newId[t]] = product]
        BY <2>3 DEF Commit
    <2>5. \A s \in Txns \ {t} : newId[s] # newId[t]
        BY <2>2 DEF IInv
    <2> QED
        BY <2>2, <2>3, <2>4, <2>5 DEF IInv, Types, Listed
<1> QED
    BY <1>1, CatalogHolds, PTL DEF Spec, CreationAddsARow

\* Prices are changed by edits and imports only, images by image requests and imports only:
\* whoever writes back what it has read leaves the columns it is not about.
THEOREM ColumnsStayApart == Spec => ColumnsKeptApart
<1>1. IInv /\ [Next]_vars =>
          [\A p \in Ids : Listed(p) /\ row'[p] # NoRow /\ row'[p] # row[p] =>
              \E t \in Txns :
                  /\ pc[t] # pc'[t]
                  /\ row'[p].price # row[p].price => req[t].op \in {"edit", "import"}
                  /\ row'[p].images # row[p].images => req[t].op \in {"image", "import"}]_vars
    <2> SUFFICES ASSUME IInv, Next, NEW p \in Ids, row[p] # NoRow, row'[p] # NoRow, row'[p] # row[p]
                 PROVE  \E t \in Txns :
                            /\ pc[t] # pc'[t]
                            /\ row'[p].price # row[p].price => req[t].op \in {"edit", "import"}
                            /\ row'[p].images # row[p].images => req[t].op \in {"image", "import"}
        BY DEF Listed
    <2>1. PICK t \in Txns : /\ pc[t] # pc'[t]
                            /\ Creates(t, p) \/ Edits(t, p) \/ AddsImage(t, p) \/ Drops(t, p) \/ Imports(t, p)
        BY WriterIs
    <2> QED
        BY <2>1 DEF Creates, Edits, AddsImage, Drops, Imports
<1> QED
    BY <1>1, CatalogHolds, PTL DEF Spec, ColumnsKeptApart

\* A price that appears in the catalogue is the one that was sent, to the nearest cent and a
\* tie to the even one, for every number of thousandths; or the seed's.
THEOREM PricesAreTheOnesSent == Spec => PriceIsTheOneSent
<1>1. IInv /\ [Next]_vars =>
          [\A p \in Ids : row'[p].price \notin {row[p].price, 0} =>
              \E t \in Txns :
                  /\ pc[t] # pc'[t]
                  /\ \/ req[t].op \in {"create", "edit"} /\ IsRounded(row'[p].price, req[t].price, 10)
                     \/ req[t].op = "import" /\ row'[p].price = SeedPrice[p]]_vars
    <2> SUFFICES ASSUME IInv, Next, NEW p \in Ids, row'[p].price # row[p].price, row'[p].price # 0
                 PROVE  \E t \in Txns :
                            /\ pc[t] # pc'[t]
                            /\ \/ req[t].op \in {"create", "edit"} /\ IsRounded(row'[p].price, req[t].price, 10)
                               \/ req[t].op = "import" /\ row'[p].price = SeedPrice[p]
        OBVIOUS
    <2>1. PICK t \in Txns : /\ pc[t] # pc'[t]
                            /\ Creates(t, p) \/ Edits(t, p) \/ AddsImage(t, p) \/ Drops(t, p) \/ Imports(t, p)
        BY WriterIs
    <2>2. CASE Creates(t, p) \/ Edits(t, p)
        BY <2>1, <2>2, CentsAreRounded DEF Creates, Edits
    <2>3. CASE Drops(t, p)
        BY <2>3 DEF Drops, NoRow
    <2>4. CASE Imports(t, p)
        <3>1. Imported(t, p) # NoRow
            BY <2>4 DEF Imports, NoRow
        <3>2. p \in Seed /\ row'[p] = Imported(t, p) /\ "price" \in DOMAIN NoRow
            BY <2>4 DEF Imports, NoRow
        <3>3. row'[p].price \in {row[p].price, SeedRow(p).price}
            BY <3>1, <3>2, ImportedIs
        <3>4. row'[p].price = SeedPrice[p]
            BY <3>2, <3>3, SeedRowIsRow
        <3> QED
            BY <2>1, <2>4, <3>4 DEF Imports
    <2> QED
        BY <2>1, <2>2, <2>3, <2>4 DEF AddsImage
<1> QED
    BY <1>1, CatalogHolds, PTL DEF Spec, PriceIsTheOneSent

\* An import that was not refused leaves the seed's catalogue, but for the products that were
\* deleted while it ran and for changes, made while it ran, to columns it had found right.
THEOREM ImportsAreComplete == Spec => ImportIsComplete
<1>1. IInv /\ [Next]_vars =>
          [\A t \in Txns : pc[t] # "done" /\ pc'[t] = "done" /\ reply'[t] = "ok" /\ req[t].op = "import" =>
              \A p \in Seed :
                  LET read == orm[t][p] IN
                  /\ row'[p] = NoRow <=> read # NoRow /\ row[p] = NoRow
                  /\ row'[p] # NoRow =>
                        \A column \in DOMAIN NoRow :
                            row'[p][column] = IF read[column] = SeedRow(p)[column]
                                              THEN row[p][column] ELSE SeedRow(p)[column]]_vars
    <2> SUFFICES ASSUME IInv, Next, NEW t \in Txns,
                        pc[t] # "done", pc'[t] = "done", reply'[t] = "ok", req[t].op = "import",
                        NEW p \in Seed
                 PROVE  /\ row'[p] = NoRow <=> orm[t][p] # NoRow /\ row[p] = NoRow
                        /\ row'[p] # NoRow =>
                              \A column \in DOMAIN NoRow :
                                  row'[p][column] = IF orm[t][p][column] = SeedRow(p)[column]
                                                    THEN row[p][column] ELSE SeedRow(p)[column]
        OBVIOUS
    <2>1. PICK rows : Commit(t, rows) /\ \A q \in Seed : rows[q] = Imported(t, q)
        BY Committed, ImportCommits
    <2>2. row'[p] = Imported(t, p)
        BY <2>1 DEF Commit
    <2> QED
        BY <2>2, ImportedIs
<1> QED
    BY <1>1, CatalogHolds, PTL DEF Spec, ImportIsComplete
=============================================================================
