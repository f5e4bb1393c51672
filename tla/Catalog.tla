------------------------------- MODULE Catalog -------------------------------
(***************************************************************************)
(* The catalogue: products are created, edited, given images and deleted by *)
(* the administrator (backend/app/routers/admin.py), images are put into    *)
(* the object store first (services/storage.py), and every deployment       *)
(* imports the seed while the server runs (import_products.py, render.yaml).*)
(* No product is in a cart or an order here: Store is about those.          *)
(*                                                                          *)
(*   create: create -> (upload) -> insert        edit:   edit -> edit_write *)
(*   image:  image -> upload -> image_write      drop:   drop -> drop_write *)
(*   import: import -> import_write                                         *)
(*                                                                          *)
(* A transaction's only UPDATE or DELETE comes right before its commit, and *)
(* the import's reads are one step and its UPDATEs another: what it does to *)
(* a row depends on its read of that row alone (Store has them one by one). *)
(* Only an INSERT is held over steps.                                       *)
(***************************************************************************)
EXTENDS Money, Sequences, FiniteSets

CONSTANTS
    Ids,           \* product ids the sequence may reach
    Txns,          \* requests and imports in flight
    Requests,      \* what may be asked for
    SeedPrice,     \* the seed: its ids, and their prices in cents
    MaxPrice       \* the largest value of a NUMERIC(12,2) column, in cents

Seed == DOMAIN SeedPrice
SeedImage == <<0, "seed">>

\* price and rating: thousandths, as they were sent
RequestSpace ==
    [op : {"create"}, price : Nat, rating : Nat, image : BOOLEAN]
        \cup [op : {"edit"}, product : Ids, price : Nat]
        \cup [op : {"image", "drop"}, product : Ids]
        \cup [op : {"import"}]

ASSUME IdsAssumption == Ids \subseteq Nat \ {0} /\ 1 \in Ids
ASSUME MoneyAssumption == MaxPrice \in Nat
ASSUME SeedAssumption == Seed \subseteq Ids /\ \A p \in Seed : SeedPrice[p] \in 1 .. MaxPrice
ASSUME RequestsAssumption == Requests \subseteq RequestSpace

VARIABLES
    row,           \* products: price, rating in tenths and images; NoRow when there is none
    nextId,        \* the sequence of products.id
    bucket,        \* the objects stored: the upload of a transaction for a product
    pc, req, reply,
    orm,           \* the rows a transaction has read
    newId          \* the id its INSERT has taken, 0 for none

vars == <<row, nextId, bucket, pc, req, reply, orm, newId>>

NoRow == [price |-> 0, rating |-> 0, images |-> <<>>]
NoRequest == [op |-> "none"]
Blank == [p \in Ids |-> NoRow]
SeedRow(p) == [price |-> SeedPrice[p], rating |-> 45, images |-> <<SeedImage>>]

\* The database after the README's first import: ids given by hand, some prices edited since;
\* the sequence untouched, or advanced by creations that failed.
Init ==
    /\ \E edited \in SUBSET Seed :
          row = [p \in Ids |-> IF p \in edited THEN [SeedRow(p) EXCEPT !.price = MaxPrice]
                               ELSE IF p \in Seed THEN SeedRow(p) ELSE NoRow]
    /\ nextId \in Ids
    /\ bucket = {}
    /\ pc = [t \in Txns |-> "idle"]
    /\ req = [t \in Txns |-> NoRequest]
    /\ reply = [t \in Txns |-> "none"]
    /\ orm = [t \in Txns |-> Blank]
    /\ newId = [t \in Txns |-> 0]

Listed(p) == row[p] # NoRow
\* Rows another transaction has inserted and not yet committed: their keys are locked.
Inserting(t) == {newId[s] : s \in Txns \ {t}}

Goto(t, label) == pc' = [pc EXCEPT ![t] = label] /\ UNCHANGED <<row, req, reply>>

Leave(t, answer) ==
    /\ pc' = [pc EXCEPT ![t] = "done"] /\ reply' = [reply EXCEPT ![t] = answer]
    /\ orm' = [orm EXCEPT ![t] = Blank] /\ newId' = [newId EXCEPT ![t] = 0]
    /\ UNCHANGED req

End(t, answer) == Leave(t, answer) /\ UNCHANGED <<nextId, bucket>>

Rollback(t, answer) == End(t, answer) /\ UNCHANGED row
Commit(t, rows) == row' = rows /\ End(t, "ok")

\* Wrong on purpose: the price is compared with zero before it is rounded.
AcceptableUnrounded(r) ==
    /\ r.op \in {"create", "edit"} => r.price > 0
    /\ r.op = "create" => RatingAllowed(r.rating)

\* The schemas refuse a price that rounds to zero and a rating beyond five.
Acceptable(r) ==
    /\ r.op \in {"create", "edit"} => Cents(r.price) > 0
    /\ r.op = "create" => RatingAllowed(r.rating)

Receive(t, r) ==
    /\ pc[t] = "idle"
    /\ req' = [req EXCEPT ![t] = r]
    /\ \/ Acceptable(r) /\ pc' = [pc EXCEPT ![t] = r.op] /\ UNCHANGED reply
       \/ ~Acceptable(r) /\ pc' = [pc EXCEPT ![t] = "done"] /\ reply' = [reply EXCEPT ![t] = "invalid"]
    /\ UNCHANGED <<row, nextId, bucket, orm, newId>>

-----------------------------------------------------------------------------
(* create_product: the flush takes an id and inserts, the upload runs with  *)
(* the transaction open, and the commit follows it.                         *)

\* Wrong on purpose: the id is not looked at.
InsertKeyAny(p) == TRUE
InsertKey(p) == ~Listed(p)

\* nextval is not undone by a rollback.
CreateFlush(t) ==
    LET fits == Cents(req[t].price) <= MaxPrice IN
    /\ pc[t] = "create" /\ nextId \in Ids
    /\ nextId' = nextId + 1
    /\ \/ ~fits /\ Leave(t, "overflow") /\ UNCHANGED <<row, bucket>>
       \/ fits /\ ~InsertKey(nextId) /\ Leave(t, "integrity_error") /\ UNCHANGED <<row, bucket>>
       \/ /\ fits /\ InsertKey(nextId)
          /\ newId' = [newId EXCEPT ![t] = nextId]
          /\ Goto(t, IF req[t].image THEN "upload" ELSE "insert")
          /\ UNCHANGED <<bucket, orm>>

Target(t) == IF req[t].op = "create" THEN newId[t] ELSE req[t].product
Url(t) == <<Target(t), t>>

\* Wrong on purpose: a failed upload is only logged.
UploadAnyway(t) ==
    /\ pc[t] = "upload"
    /\ bucket' \in {bucket, bucket \cup {Url(t)}}
    /\ Goto(t, IF req[t].op = "create" THEN "insert" ELSE "image_write")
    /\ UNCHANGED <<nextId, orm, newId>>

\* _upload: an unusable image is refused before, an object may be stored although the call
\* fails, and the exception rolls the transaction back.
Upload(t) ==
    /\ pc[t] = "upload"
    /\ \/ /\ bucket' = bucket \cup {Url(t)}
          /\ Goto(t, IF req[t].op = "create" THEN "insert" ELSE "image_write")
          /\ UNCHANGED <<nextId, orm, newId>>
       \/ /\ bucket' \in {bucket, bucket \cup {Url(t)}}
          /\ Leave(t, "upload_error")
          /\ UNCHANGED <<row, nextId>>

CreateCommit(t) ==
    LET images == IF req[t].image THEN <<Url(t)>> ELSE <<>>
        product == [price |-> Cents(req[t].price), rating |-> Tenths(req[t].rating), images |-> images]
    IN  /\ pc[t] = "insert"
        /\ Commit(t, [row EXCEPT ![newId[t]] = product])

-----------------------------------------------------------------------------
(* update_product, update_main_image and delete_product: db.get without a   *)
(* lock; the UPDATE writes the columns that differ from what was read.      *)

Read(t, label) ==
    LET p == req[t].product IN
    \/ ~Listed(p) /\ Rollback(t, "not_found")
    \/ /\ Listed(p)
       /\ orm' = [orm EXCEPT ![t][p] = row[p]]
       /\ Goto(t, label)
       /\ UNCHANGED <<nextId, bucket, newId>>

EditRead(t) == pc[t] = "edit" /\ Read(t, "edit_write")
ImageRead(t) == pc[t] = "image" /\ Read(t, "upload")
DropRead(t) == pc[t] = "drop" /\ Read(t, "drop_write")

EditWrite(t) ==
    LET p == req[t].product
        cents == Cents(req[t].price)
    IN  /\ pc[t] = "edit_write"
        /\ \/ cents = orm[t][p].price /\ Rollback(t, "ok")
           \/ cents # orm[t][p].price /\ ~Listed(p) /\ Rollback(t, "stale_data")
           \/ cents # orm[t][p].price /\ cents > MaxPrice /\ Rollback(t, "overflow")
           \/ /\ cents # orm[t][p].price /\ cents <= MaxPrice /\ Listed(p)
              /\ Commit(t, [row EXCEPT ![p].price = cents])

NewImages(t) == <<Url(t)>> \o orm[t][req[t].product].images

\* Wrong on purpose: every column is written from the copy.
ImageWriteRow(t) ==
    LET p == req[t].product IN
    /\ pc[t] = "image_write"
    /\ \/ ~Listed(p) /\ Rollback(t, "stale_data")
       \/ Listed(p) /\ Commit(t, [row EXCEPT ![p] = [orm[t][p] EXCEPT !.images = NewImages(t)]])

\* The new image goes before the ones that were read; one added meanwhile is dropped.
ImageWrite(t) ==
    LET p == req[t].product IN
    /\ pc[t] = "image_write"
    /\ \/ ~Listed(p) /\ Rollback(t, "stale_data")
       \/ Listed(p) /\ Commit(t, [row EXCEPT ![p].images = NewImages(t)])

\* A row that is gone meanwhile is only a warning of the ORM.
DropWrite(t) == pc[t] = "drop_write" /\ Commit(t, [row EXCEPT ![req[t].product] = NoRow])

-----------------------------------------------------------------------------
(* import_file: one transaction that reads every seed product, inserts the  *)
(* missing ones under their ids and writes the columns that differ.         *)

ImportRead(t) ==
    /\ pc[t] = "import"
    /\ orm' = [orm EXCEPT ![t] = [p \in Ids |-> IF p \in Seed THEN row[p] ELSE NoRow]]
    /\ Goto(t, "import_write")
    /\ UNCHANGED <<nextId, bucket, newId>>

Missing(t) == {p \in Seed : orm[t][p] = NoRow}

Changes(t, p) == {column \in DOMAIN NoRow : orm[t][p][column] # SeedRow(p)[column]}
Updated(t) == {p \in Seed \ Missing(t) : Changes(t, p) # {}}

\* Neighbours, by id, that change in the same columns are written by one executemany.
Batched(t, p) ==
    \E q \in Updated(t) \ {p} :
        /\ Changes(t, q) = Changes(t, p)
        /\ \A r \in Updated(t) : ~(p < r /\ r < q) /\ ~(q < r /\ r < p)

\* An UPDATE of its own that matches no row is a StaleDataError; an executemany counts none.
Vanished(t) == {p \in Updated(t) : ~Listed(p) /\ ~Batched(t, p)}

\* Wrong on purpose: every column is written, whatever was read.
ImportedRow(t, p) == IF p \in Missing(t) \/ Listed(p) THEN SeedRow(p) ELSE NoRow

\* The seed's value where it differs from what was read, else what is there now.
Imported(t, p) ==
    IF p \in Missing(t) THEN SeedRow(p)
    ELSE IF ~Listed(p) THEN NoRow
    ELSE [column \in DOMAIN NoRow |->
             IF column \in Changes(t, p) THEN SeedRow(p)[column] ELSE row[p][column]]

\* An INSERT waits for one of the same id that is not committed yet.
ImportWrite(t) ==
    /\ pc[t] = "import_write"
    /\ Missing(t) \cap Inserting(t) = {}
    /\ \/ Vanished(t) # {} /\ Rollback(t, "stale_data")
       \/ (\E p \in Missing(t) : Listed(p)) /\ Rollback(t, "integrity_error")
       \/ /\ Vanished(t) = {} /\ \A p \in Missing(t) : ~Listed(p)
          /\ Commit(t, [p \in Ids |-> IF p \in Seed THEN Imported(t, p) ELSE row[p]])

-----------------------------------------------------------------------------

Running(t) == pc[t] \notin {"idle", "done"}

\* The server or the command dies: rolled back, but what was uploaded stays.
Crash(t) == Running(t) /\ Rollback(t, "lost")

Step(t) ==
    \/ CreateFlush(t) \/ Upload(t) \/ CreateCommit(t)
    \/ EditRead(t) \/ EditWrite(t) \/ ImageRead(t) \/ ImageWrite(t)
    \/ DropRead(t) \/ DropWrite(t) \/ ImportRead(t) \/ ImportWrite(t)

Next == \E t \in Txns : (\E r \in Requests : Receive(t, r)) \/ Step(t) \/ Crash(t)

Spec == Init /\ [][Next]_vars

-----------------------------------------------------------------------------

Urls == Ids \X Txns
RowType == [price : 0 .. MaxPrice, rating : 0 .. 50, images : Seq({SeedImage} \cup Urls)]

\* The types, with products_price_positive and products_rating_range (models.py).
TypeOK ==
    /\ row \in [Ids -> RowType] /\ \A p \in Ids : row[p].price = 0 => ~Listed(p) /\ row[p].images = <<>>
    /\ nextId \in Nat /\ bucket \subseteq Urls
    /\ req \in [Txns -> RequestSpace \cup {NoRequest}]
    /\ orm \in [Txns -> [Ids -> RowType]] /\ newId \in [Txns -> Ids \cup {0}]

\* The page never shows an image that does not exist: every image a product lists is the
\* seed's or an object in the bucket, whichever uploads failed, with or without storing it,
\* and whatever died or was deleted meanwhile.
ImageListedIsStored ==
    \A p \in Ids : \A i \in DOMAIN row[p].images :
        LET image == row[p].images[i] IN image = SeedImage \/ image \in bucket

\* A creation takes nothing from another product, also when the sequence meets ids that the
\* import has given by hand: it adds one row, where there was none, with its own images only.
CreationAddsARow ==
    [][\A t \in Txns : pc[t] # "done" /\ pc'[t] = "done" /\ reply'[t] = "ok" /\ req[t].op = "create" =>
        /\ ~Listed(newId[t]) /\ row'[newId[t]] # NoRow
        /\ \A p \in Ids \ {newId[t]} : row'[p] = row[p]
        /\ \A s \in Txns \ {t} : newId[s] # newId[t]]_vars

\* Changes of different columns do not undo each other although they are computed from rows
\* read before, an upload ago: an image request leaves the price that was edited meanwhile,
\* an edit leaves the images.
ColumnsKeptApart ==
    [][\A p \in Ids : Listed(p) /\ row'[p] # NoRow /\ row'[p] # row[p] =>
        \E t \in Txns :
            /\ pc[t] # pc'[t]
            /\ row'[p].price # row[p].price => req[t].op \in {"edit", "import"}
            /\ row'[p].images # row[p].images => req[t].op \in {"image", "import"}]_vars

\* A price that is stored is the one that was sent, to the nearest cent and a tie to the even
\* one, or the seed's; one that rounds to zero or that the column cannot hold is never stored.
PriceIsTheOneSent ==
    [][\A p \in Ids : row'[p].price \notin {row[p].price, 0} =>
        \E t \in Txns :
            /\ pc[t] # pc'[t]
            /\ \/ req[t].op \in {"create", "edit"} /\ IsRounded(row'[p].price, req[t].price, 10)
               \/ req[t].op = "import" /\ row'[p].price = SeedPrice[p]]_vars

\* What an import that was not refused leaves of the seed.  A product is missing exactly if it
\* was deleted while the import ran: deletions before it are undone, one that overlaps it is
\* not.  A column is the seed's, but for one that was the seed's already when the import read
\* it: there a change made while it ran stands.  A change to any other column is overwritten,
\* also one made while the import ran.
ImportIsComplete ==
    [][\A t \in Txns : pc[t] # "done" /\ pc'[t] = "done" /\ reply'[t] = "ok" /\ req[t].op = "import" =>
        \A p \in Seed :
            LET read == orm[t][p] IN
            /\ row'[p] = NoRow <=> read # NoRow /\ row[p] = NoRow
            /\ row'[p] # NoRow =>
                  \A column \in DOMAIN NoRow :
                      row'[p][column] = IF read[column] = SeedRow(p)[column]
                                        THEN row[p][column] ELSE SeedRow(p)[column]]_vars

\* "Product Created" (admin.py:77): a product that was accepted can be created.
CreationGetsAnId ==
    \A t \in Txns : ~(req[t].op = "create" /\ reply[t] = "integrity_error")
=============================================================================
