----------------------------- MODULE Catalogue ------------------------------
(***************************************************************************)
(* Categories, products, variants and images (services/category, product   *)
(* and variant), edited by several administrators while the shop sells.    *)
(* Clients issue the statements of their requests one at a time against    *)
(* the database of ReadCommitted; a single statement outside a transaction *)
(* is committed by itself.  The services check before they write, but the  *)
(* schema's foreign keys and unique indexes decide in the end:             *)
(*                                                                         *)
(*  - a row inserted holds its parent, so a deletion of the parent waits   *)
(*    for the inserting transaction, and the other way round;              *)
(*  - a category with products and a variant with order or purchase lines  *)
(*    cannot be deleted; a product takes its variants and images with it,  *)
(*    a variant its stock and ledger.                                      *)
(*                                                                         *)
(* A SKU stands for all that is unique in a variant: its barcode, its      *)
(* colour and size within the product.  The unique name of a category is   *)
(* left out.  A refusal leaves no trace and is the same step as a failure  *)
(* or a crash: Rollback.                                                   *)
(***************************************************************************)
EXTENDS ReadCommitted, Naturals, Sequences, FiniteSets

CONSTANTS
    Categories, Products, Variants, Images,  \* the ids that may be handed out
    Skus,
    Actives,      \* the values of `active' that requests give
    Marks,        \* isPrimary of each image of a request: "yes", "no", "unset"
    Ops,          \* the requests the clients make
    MaxRequests   \* bound on the number of requests

ASSUME CatalogueAssumption ==
    /\ Actives \subseteq BOOLEAN
    /\ Marks \subseteq Seq({"yes", "no", "unset"})
    /\ {"none", "gone"} \cap (Categories \cup Products \cup Variants) = {}
    /\ MaxRequests \in Nat

VARIABLES
    categories, products, variants, images,  \* the tables
    traded,     \* the variants with order or purchase lines
    client,     \* what each client is doing
    made,       \* the number of requests made
    crossed     \* an addition of images has overlapped another request on images

tables == <<categories, products, variants, images>>
vars   == <<tables, traded, client, made, crossed>>

-----------------------------------------------------------------------------
\* Rows.  "none" is an id not given out yet, "gone" one that was deleted.

Absent == {"none", "gone"}

CategoryRows == [status : {"active", "inactive"} \cup Absent]
ProductRows  == [status : {"active", "inactive"} \cup Absent, category : Categories \cup {"none"}]
VariantRows  == [product : Products \cup Absent, sku : Skus \cup {"none"}, active : BOOLEAN]
ImageRows    == [product : Products \cup Absent, primary : BOOLEAN]

NoProduct == [status |-> "none", category |-> "none"]
NoVariant == [product |-> "none", sku |-> "none", active |-> FALSE]
NoImage   == [product |-> "none", primary |-> FALSE]

Status(on) == IF on THEN "active" ELSE "inactive"

\* What client p sees of the tables.
SeenProduct(q, p) == See(products[q], p).status \notin Absent
VariantsOf(q, p)  == {x \in Variants : See(variants[x], p).product = q}
ImagesOf(q, p)    == {g \in Images : See(images[g], p).product = q}
SkuTaken(s, x, p) == \E y \in Variants \ {x} : See(variants[y], p).sku = s

-----------------------------------------------------------------------------
\* Requests.

Blank == [op |-> "none", id |-> "none", parent |-> "none", skus |-> {},
          on |-> FALSE, marks |-> << >>]

\* on: the row stays, and is active if it is written; a deletion that is not
\* on is a hard one.  A product may have no category; an update that names
\* none leaves the one it has.
Requests ==
    {r \in [op : {"NEW_CATEGORY", "SET_CATEGORY"}, id : Categories, parent : {"none"},
            skus : {{}}, on : Actives, marks : {<< >>}]
      \cup [op : {"DROP_CATEGORY"}, id : Categories, parent : {"none"},
            skus : {{}}, on : BOOLEAN, marks : {<< >>}]
      \cup [op : {"NEW_PRODUCT"}, id : Products, parent : Categories \cup {"none"},
            skus : SUBSET Skus, on : Actives, marks : Marks]
      \cup [op : {"SET_PRODUCT"}, id : Products, parent : Categories \cup {"none"},
            skus : {{}}, on : Actives, marks : {<< >>}]
      \cup [op : {"DROP_PRODUCT"}, id : Products, parent : {"none"},
            skus : {{}}, on : BOOLEAN, marks : {<< >>}]
      \cup [op : {"ADD_IMAGES"}, id : {"none"}, parent : Products,
            skus : {{}}, on : {TRUE}, marks : Marks]
      \cup [op : {"DROP_IMAGE", "SET_PRIMARY"}, id : Images, parent : {"none"},
            skus : {{}}, on : {TRUE}, marks : {<< >>}]
      \cup [op : {"NEW_VARIANT"}, id : {"none"}, parent : Products,
            skus : {{s} : s \in Skus}, on : Actives, marks : {<< >>}]
      \cup [op : {"SET_VARIANT"}, id : Variants, parent : {"none"},
            skus : {{s} : s \in Skus}, on : Actives, marks : {<< >>}]
      \cup [op : {"DROP_VARIANT"}, id : Variants, parent : {"none"},
            skus : {{}}, on : BOOLEAN, marks : {<< >>}] :
     r.op \in Ops}

FirstStep(op) ==
    CASE op \in {"NEW_CATEGORY", "SET_CATEGORY", "SET_PRODUCT"} -> "write"
      [] op = "NEW_PRODUCT"                                       -> "product"
      [] op \in {"NEW_VARIANT", "SET_VARIANT"}                    -> "clash"
      [] OTHER                                                    -> "find"

\* seen: the rows a statement has found; todo: the SKUs yet to be inserted.
Idle == [pc |-> "idle", req |-> Blank, seen |-> {}, todo |-> {}]

At(p, label)   == client[p].pc = label
Req(p)         == client[p].req
Is(p, op)      == client[p].req.op = op
Goto(p, label) == client' = [client EXCEPT ![p].pc = label]
Find(p, S, label) == client' = [client EXCEPT ![p].seen = S, ![p].pc = label]

OnImages(req) == req.op \in {"ADD_IMAGES", "SET_PRIMARY"}

Begin(p, req) ==
    /\ At(p, "idle") /\ made < MaxRequests
    /\ req.op = "NEW_CATEGORY" => categories[req.id] = Cell([status |-> "none"])
    /\ req.op = "NEW_PRODUCT" => products[req.id] = Cell(NoProduct)
    /\ made' = made + 1
    /\ client' = [client EXCEPT ![p] = [Idle EXCEPT !.pc = FirstStep(req.op), !.req = req,
                                                    !.todo = req.skus]]
    /\ crossed' = (crossed \/ \E q \in Clients :
                        /\ ~At(q, "idle") /\ OnImages(req) /\ OnImages(Req(q))
                        /\ "ADD_IMAGES" \in {req.op, Req(q).op})
    /\ UNCHANGED <<tables, traded>>

Rollback(p) ==
    /\ ~At(p, "idle")
    /\ categories' = RolledBack(categories, p) /\ products' = RolledBack(products, p)
    /\ variants' = RolledBack(variants, p) /\ images' = RolledBack(images, p)
    /\ client' = [client EXCEPT ![p] = Idle]
    /\ UNCHANGED <<traded, made, crossed>>

Commit(p) ==
    /\ At(p, "commit")
    /\ categories' = Committed(categories, p) /\ products' = Committed(products, p)
    /\ variants' = Committed(variants, p) /\ images' = Committed(images, p)
    /\ client' = [client EXCEPT ![p] = Idle]
    /\ UNCHANGED <<traded, made, crossed>>

-----------------------------------------------------------------------------
\* What the schema enforces.

\* The parent of a new row is there and nobody is deleting it.
Holds(cell, p) ==
    /\ See(cell, p).status \notin Absent
    /\ Free(cell, p) \/ cell.live.status \notin Absent

\* Bug: the foreign key of order and purchase lines cascades.
UntradedOrNot(xs) == TRUE

\* Order and purchase lines keep their variant.
Untraded(xs) == xs \cap traded = {}

\* Bug: the index is missing.
AnySku(s, x, p) == TRUE

\* The unique index; a row another transaction is writing is waited for.
UniqueSku(s, x, p) ==
    \A y \in Variants \ {x} :
        /\ See(variants[y], p).sku # s
        /\ ~Free(variants[y], p) => s \notin {variants[y].com.sku, variants[y].live.sku}

\* The rows that refer to q, whoever is writing them.
Refers(cell, q) == q \in {cell.com.product, cell.live.product}

-----------------------------------------------------------------------------
\* CategoryService.

InsertCategory(p) ==
    LET k == Req(p).id
    IN  /\ At(p, "write") /\ Is(p, "NEW_CATEGORY")
        /\ categories[k] = Cell([status |-> "none"])
        /\ categories' = [categories EXCEPT ![k] = Written(@, p, [status |-> Status(Req(p).on)])]
        /\ Goto(p, "commit")
        /\ UNCHANGED <<products, variants, images>>

\* update, and remove unless hard.
WriteCategory(p) ==
    LET req == Req(p)  k == req.id
    IN  /\ At(p, "write")
        /\ Is(p, "SET_CATEGORY") \/ (Is(p, "DROP_CATEGORY") /\ req.on)
        /\ See(categories[k], p).status \notin Absent /\ Free(categories[k], p)
        /\ categories' = [categories EXCEPT ![k] = Written(@, p,
                [status |-> Status(req.on /\ Is(p, "SET_CATEGORY"))])]
        /\ Goto(p, "commit")
        /\ UNCHANGED <<products, variants, images>>

\* remove counts the products before a hard deletion ...
CountProducts(p) ==
    /\ At(p, "find") /\ Is(p, "DROP_CATEGORY")
    /\ See(categories[Req(p).id], p).status \notin Absent
    /\ ~Req(p).on => \A q \in Products : See(products[q], p).category # Req(p).id
    /\ Goto(p, "write")
    /\ UNCHANGED tables

\* ... and their foreign key counts them again.
DeleteCategory(p) ==
    LET k == Req(p).id
    IN  /\ At(p, "write") /\ Is(p, "DROP_CATEGORY") /\ ~Req(p).on
        /\ See(categories[k], p).status \notin Absent /\ Free(categories[k], p)
        /\ \A q \in Products : k \notin {products[q].com.category, products[q].live.category}
        /\ categories' = [categories EXCEPT ![k] = Written(@, p, [status |-> "gone"])]
        /\ Goto(p, "commit")
        /\ UNCHANGED <<products, variants, images>>

-----------------------------------------------------------------------------
\* ProductService.

\* Bug: every image marked as primary becomes one.
AllMarked(marks) == [i \in DOMAIN marks |-> marks[i] = "yes" \/ (marks[i] = "unset" /\ i = 1)]

\* normaliseImages: the first image that wants to be primary is; an unmarked
\* one wants to be if it comes first.
Normalised(marks) ==
    LET wants(i) == marks[i] = "yes" \/ (marks[i] = "unset" /\ i = 1)
    IN  [i \in DOMAIN marks |-> wants(i) /\ \A j \in 1..(i - 1) : ~wants(j)]

\* createMany: the images get ids that are not given out yet.
Inserted(p, q, marks) ==
    LET new == {g \in Images : images[g] = Cell(NoImage)}
        primary == Normalised(marks)
    IN  \E id \in [DOMAIN marks -> new] :
        /\ \A i, j \in DOMAIN marks : i # j => id[i] # id[j]
        /\ images' = [g \in Images |->
               IF \E i \in DOMAIN marks : id[i] = g
               THEN Written(images[g], p, [product |-> q,
                        primary |-> \E i \in DOMAIN marks : id[i] = g /\ primary[i]])
               ELSE images[g]]

\* Bug: the product is created outside the transaction of its variants.
InsertProductAlone(p) ==
    LET req == Req(p)
    IN  /\ At(p, "product")
        /\ products[req.id] = Cell(NoProduct)
        /\ req.parent \in Categories => Holds(categories[req.parent], p)
        /\ products' = [products EXCEPT ![req.id] = Cell([status |-> Status(req.on), category |-> req.parent])]
        /\ Inserted(p, req.id, req.marks)
        /\ Goto(p, IF req.skus = {} THEN "commit" ELSE "clash")
        /\ UNCHANGED <<categories, variants>>

\* create: the product and its images; the variants follow one by one.
InsertProduct(p) ==
    LET req == Req(p)
    IN  /\ At(p, "product")
        /\ products[req.id] = Cell(NoProduct)
        /\ req.parent \in Categories => Holds(categories[req.parent], p)
        /\ products' = [products EXCEPT ![req.id] = Written(@, p,
                [status |-> Status(req.on), category |-> req.parent])]
        /\ Inserted(p, req.id, req.marks)
        /\ Goto(p, IF req.skus = {} THEN "commit" ELSE "clash")
        /\ UNCHANGED <<categories, variants>>

WriteProduct(p) ==
    LET req == Req(p)  q == req.id
        k == IF req.parent \in Categories THEN req.parent ELSE See(products[q], p).category
    IN  /\ At(p, "write") /\ Is(p, "SET_PRODUCT")
        /\ SeenProduct(q, p) /\ Free(products[q], p)
        /\ req.parent \in Categories => Holds(categories[k], p)
        /\ products' = [products EXCEPT ![q] = Written(@, p, [status |-> Status(req.on), category |-> k])]
        /\ Goto(p, "commit")
        /\ UNCHANGED <<categories, variants, images>>

\* remove finds the product with its variants outside the transaction, ...
FindProduct(p) ==
    /\ At(p, "find") /\ Is(p, "DROP_PRODUCT")
    /\ SeenProduct(Req(p).id, p)
    /\ Find(p, VariantsOf(Req(p).id, p), IF Req(p).on THEN "retire" ELSE "count")
    /\ UNCHANGED tables

\* ... counts the lines of those before a hard deletion, ...
CountLines(p) ==
    /\ At(p, "count") /\ Is(p, "DROP_PRODUCT")
    /\ client[p].seen \cap traded = {}
    /\ Goto(p, "write")
    /\ UNCHANGED tables

\* ... which takes whatever belongs to the product by then.
DeleteProduct(p) ==
    LET q  == Req(p).id
        xs == {x \in Variants : Refers(variants[x], q)}
        gs == {g \in Images : Refers(images[g], q)}
    IN  /\ At(p, "write") /\ Is(p, "DROP_PRODUCT")
        /\ SeenProduct(q, p) /\ Free(products[q], p)
        /\ \A x \in xs : Free(variants[x], p)
        /\ \A g \in gs : Free(images[g], p)
        /\ Untraded(xs)
        /\ products' = [products EXCEPT ![q] = Written(@, p, [NoProduct EXCEPT !.status = "gone"])]
        /\ variants' = [x \in Variants |-> IF x \in xs
                THEN Written(variants[x], p, [NoVariant EXCEPT !.product = "gone"]) ELSE variants[x]]
        /\ images' = [g \in Images |-> IF g \in gs
                THEN Written(images[g], p, [NoImage EXCEPT !.product = "gone"]) ELSE images[g]]
        /\ Goto(p, "commit")
        /\ UNCHANGED categories

\* Otherwise the product is deactivated, then its variants.
RetireProduct(p) ==
    LET q == Req(p).id
    IN  /\ At(p, "retire") /\ SeenProduct(q, p) /\ Free(products[q], p)
        /\ products' = [products EXCEPT ![q] = Written(@, p, [See(@, p) EXCEPT !.status = "inactive"])]
        /\ Goto(p, "variants")
        /\ UNCHANGED <<categories, variants, images>>

\* Like every updateMany, this begins with the rows there are: those inserted
\* while it waits for a lock escape it, those deleted meanwhile are skipped.
BeginRetirement(p) ==
    /\ At(p, "variants")
    /\ Find(p, VariantsOf(Req(p).id, p), "retiring")
    /\ UNCHANGED tables

RetireVariants(p) ==
    LET xs == {x \in client[p].seen : See(variants[x], p).product = Req(p).id}
    IN  /\ At(p, "retiring")
        /\ \A x \in client[p].seen : Free(variants[x], p)
        /\ variants' = [x \in Variants |-> IF x \in xs
                THEN Written(variants[x], p, [See(variants[x], p) EXCEPT !.active = FALSE])
                ELSE variants[x]]
        /\ Goto(p, "commit")
        /\ UNCHANGED <<categories, products, images>>

-----------------------------------------------------------------------------
\* Images.

\* addImages, removeImage and setPrimaryImage look first.
FindImages(p) ==
    LET req == Req(p)
    IN  /\ At(p, "find")
        /\ \/ /\ Is(p, "ADD_IMAGES") /\ SeenProduct(req.parent, p)
              /\ Goto(p, IF \E i \in DOMAIN req.marks : Normalised(req.marks)[i]
                         THEN "demote" ELSE "insert")
           \/ /\ Is(p, "SET_PRIMARY") /\ See(images[req.id], p).product \in Products
              /\ Goto(p, "demote")
           \/ /\ Is(p, "DROP_IMAGE") /\ See(images[req.id], p).product \in Products
              /\ Goto(p, "write")
        /\ UNCHANGED tables

\* updateMany again: an image inserted meanwhile stays as it is.
BeginDemotion(p) ==
    LET q == IF Is(p, "ADD_IMAGES") THEN Req(p).parent ELSE See(images[Req(p).id], p).product
    IN  /\ At(p, "demote")
        /\ Find(p, ImagesOf(q, p), "demoting")
        /\ UNCHANGED tables

Demote(p) ==
    LET gs == client[p].seen
    IN  /\ At(p, "demoting")
        /\ \A g \in gs : Free(images[g], p)
        /\ images' = [g \in Images |-> IF g \in gs /\ See(images[g], p).product \in Products
                THEN Written(images[g], p, [See(images[g], p) EXCEPT !.primary = FALSE])
                ELSE images[g]]
        /\ Goto(p, IF Is(p, "ADD_IMAGES") THEN "insert" ELSE "promote")
        /\ UNCHANGED <<categories, products, variants>>

InsertImages(p) ==
    /\ At(p, "insert") /\ Is(p, "ADD_IMAGES")
    /\ Holds(products[Req(p).parent], p)
    /\ Inserted(p, Req(p).parent, Req(p).marks)
    /\ Goto(p, "commit")
    /\ UNCHANGED <<categories, products, variants>>

Promote(p) ==
    LET g == Req(p).id
    IN  /\ At(p, "promote")
        /\ See(images[g], p).product \in Products /\ Free(images[g], p)
        /\ images' = [images EXCEPT ![g] = Written(@, p, [See(@, p) EXCEPT !.primary = TRUE])]
        /\ Goto(p, "commit")
        /\ UNCHANGED <<categories, products, variants>>

DeleteImage(p) ==
    LET g == Req(p).id
    IN  /\ At(p, "write") /\ Is(p, "DROP_IMAGE")
        /\ See(images[g], p).product \in Products /\ Free(images[g], p)
        /\ images' = [images EXCEPT ![g] = Written(@, p, [NoImage EXCEPT !.product = "gone"])]
        /\ Goto(p, "commit")
        /\ UNCHANGED <<categories, products, variants>>

-----------------------------------------------------------------------------
\* Variants.

\* createVariantInTx looks for clashes, then inserts; so does update.
CheckClash(p) ==
    LET req == Req(p)
    IN  /\ At(p, "clash")
        /\ \/ Is(p, "NEW_PRODUCT")
           \/ Is(p, "NEW_VARIANT") /\ SeenProduct(req.parent, p)
           \/ Is(p, "SET_VARIANT") /\ See(variants[req.id], p).product \in Products
        /\ \E s \in client[p].todo : ~SkuTaken(s, req.id, p)
        /\ Goto(p, IF Is(p, "SET_VARIANT") THEN "write" ELSE "insert")
        /\ UNCHANGED tables

InsertVariant(p, s) ==
    LET req == Req(p)
        q   == IF Is(p, "NEW_PRODUCT") THEN req.id ELSE req.parent
    IN  /\ At(p, "insert") /\ s \in client[p].todo
        /\ Holds(products[q], p) /\ UniqueSku(s, "none", p)
        /\ \E x \in Variants :
            /\ variants[x] = Cell(NoVariant)
            /\ variants' = [variants EXCEPT ![x] = Written(@, p,
                    [product |-> q, sku |-> s, active |-> req.on])]
        /\ client' = [client EXCEPT ![p].todo = @ \ {s},
                                    ![p].pc = IF client[p].todo = {s} THEN "commit" ELSE "clash"]
        /\ UNCHANGED <<categories, products, images>>

\* update, and remove unless hard.
WriteVariant(p) ==
    LET req == Req(p)  x == req.id
    IN  /\ At(p, "write") /\ req.op \in {"SET_VARIANT", "DROP_VARIANT"}
        /\ See(variants[x], p).product \in Products /\ Free(variants[x], p)
        /\ \/ /\ Is(p, "SET_VARIANT")
              /\ \A s \in req.skus : /\ UniqueSku(s, x, p)
                                     /\ variants' = [variants EXCEPT ![x] = Written(@, p,
                                            [See(@, p) EXCEPT !.sku = s, !.active = req.on])]
           \/ /\ Is(p, "DROP_VARIANT") /\ req.on
              /\ variants' = [variants EXCEPT ![x] = Written(@, p, [See(@, p) EXCEPT !.active = FALSE])]
        /\ Goto(p, "commit")
        /\ UNCHANGED <<categories, products, images>>

\* remove, outside a transaction.
FindVariant(p) ==
    LET x == Req(p).id
    IN  /\ At(p, "find") /\ Is(p, "DROP_VARIANT")
        /\ See(variants[x], p).product \in Products
        /\ ~Req(p).on => x \notin traded
        /\ Goto(p, "write")
        /\ UNCHANGED tables

DeleteVariant(p) ==
    LET x == Req(p).id
    IN  /\ At(p, "write") /\ Is(p, "DROP_VARIANT") /\ ~Req(p).on
        /\ See(variants[x], p).product \in Products /\ Free(variants[x], p)
        /\ Untraded({x})
        /\ variants' = [variants EXCEPT ![x] = Written(@, p, [NoVariant EXCEPT !.product = "gone"])]
        /\ Goto(p, "commit")
        /\ UNCHANGED <<categories, products, images>>

\* An order or a purchase with the variant is committed; its line holds the
\* variant's row from the INSERT on.
TradeVariant(x) ==
    /\ variants[x].com.product \in Products
    /\ variants[x].live.product \in Products
    /\ x \notin traded
    /\ traded' = traded \cup {x}
    /\ UNCHANGED <<tables, client, made, crossed>>

-----------------------------------------------------------------------------
Statement(p) ==
    /\ \/ InsertCategory(p) \/ WriteCategory(p) \/ CountProducts(p) \/ DeleteCategory(p)
       \/ InsertProduct(p) \/ WriteProduct(p)
       \/ FindProduct(p) \/ CountLines(p) \/ DeleteProduct(p)
       \/ RetireProduct(p) \/ BeginRetirement(p) \/ RetireVariants(p)
       \/ FindImages(p) \/ BeginDemotion(p) \/ Demote(p)
       \/ InsertImages(p) \/ Promote(p) \/ DeleteImage(p)
       \/ CheckClash(p) \/ \E s \in Skus : InsertVariant(p, s)
       \/ WriteVariant(p) \/ FindVariant(p) \/ DeleteVariant(p)
    /\ UNCHANGED <<traded, made, crossed>>

Next ==
    \/ \E p \in Clients :
        \/ \E req \in Requests : Begin(p, req)
        \/ Statement(p)
        \/ Commit(p) \/ Rollback(p)
    \/ \E x \in Variants : TradeVariant(x)

\* A shop with one product of one variant and image in one category.
Init ==
    \E k \in Categories, q \in Products, x \in Variants, g \in Images, s \in Skus :
        /\ categories = [c \in Categories |-> Cell([status |-> IF c = k THEN "active" ELSE "none"])]
        /\ products = [r \in Products |-> Cell(IF r = q THEN [status |-> "active", category |-> k]
                                                        ELSE NoProduct)]
        /\ variants = [y \in Variants |-> Cell(IF y = x
                THEN [product |-> q, sku |-> s, active |-> TRUE] ELSE NoVariant)]
        /\ images = [h \in Images |-> Cell(IF h = g THEN [product |-> q, primary |-> TRUE]
                                                    ELSE NoImage)]
        /\ traded = {}
        /\ client = [p \in Clients |-> Idle]
        /\ made = 0
        /\ crossed = FALSE

Spec == Init /\ [][Next]_vars

-----------------------------------------------------------------------------
\* Properties.

\* Every row has its shape.
TypeOK ==
    /\ categories \in [Categories -> Cells(CategoryRows)]
    /\ products \in [Products -> Cells(ProductRows)]
    /\ variants \in [Variants -> Cells(VariantRows)]
    /\ images \in [Images -> Cells(ImageRows)]
    /\ traded \subseteq Variants

Rows(table) == {k \in DOMAIN table : table[k].com.status \notin Absent}

\* Whatever is deleted while others write: what an order or a purchase names
\* is still there, and every row has the parent it names.
HistoryKept ==
    /\ \A x \in traded : variants[x].com.product \in Products
    /\ \A x \in Variants : variants[x].com.product \in Rows(products) \cup Absent
    /\ \A g \in Images : images[g].com.product \in Rows(products) \cup Absent
    /\ \A q \in Rows(products) : products[q].com.category \in Rows(categories) \cup {"none"}

\* Two administrators who both found a SKU free do not both get it.
SkusDiffer ==
    \A x, y \in Variants : x # y /\ variants[x].com.sku = variants[y].com.sku
        => variants[x].com.sku = "none"

\* What HistoryKept and SkusDiffer need to be inductive.

Closed(table) == \A k \in DOMAIN table : table[k].by = Nobody => table[k].live = table[k].com

\* A row held by `by' refers to a in its committed and to b in its pending
\* version.  If either is k, whose row is d, that version of d is there; and
\* where the other one is not, both rows are published or undone together.
Backed(k, a, b, by, d) ==
    /\ a = k => /\ d.com.status \notin Absent
                /\ d.live.status \in Absent => by = d.by
    /\ b = k => /\ d.live.status \notin Absent
                /\ d.com.status \in Absent => by = d.by

VariantsBacked == \A x \in Variants, q \in Products :
    LET c == variants[x] IN Backed(q, c.com.product, c.live.product, c.by, products[q])
ImagesBacked == \A g \in Images, q \in Products :
    LET c == images[g] IN Backed(q, c.com.product, c.live.product, c.by, products[q])
ProductsBacked == \A q \in Products, k \in Categories :
    LET c == products[q] IN Backed(k, c.com.category, c.live.category, c.by, categories[k])

\* What has been traded is there, and nobody is deleting it.
TradedStay == \A x \in traded : /\ variants[x].com.product \in Products
                                /\ variants[x].live.product \in Products

Apart(s, t) == s = t => s = "none"

\* Two rows never have one SKU, whichever transactions are published.
SkusApart == \A x, y \in Variants : x # y =>
    LET c == variants[x]  d == variants[y]
    IN  /\ Apart(c.com.sku, d.com.sku) /\ Apart(c.live.sku, d.live.sku)
        /\ c.by # d.by => Apart(c.com.sku, d.live.sku)

Labels == {"idle", "write", "product", "clash", "find", "count", "retire", "variants",
           "retiring", "demote", "demoting", "insert", "promote", "commit"}

Clerks == [pc : Labels, req : Requests \cup {Blank},
           seen : SUBSET (Variants \cup Images), todo : SUBSET Skus]

\* The requests that can be at a label.
Placed(p) ==
    /\ At(p, "product") => Is(p, "NEW_PRODUCT")
    /\ At(p, "insert")  => Req(p).op \in {"NEW_PRODUCT", "NEW_VARIANT", "ADD_IMAGES"}
    /\ At(p, "retire")  => Is(p, "DROP_PRODUCT")
    /\ At(p, "demote") \/ At(p, "demoting") => OnImages(Req(p))
    /\ At(p, "promote") => Is(p, "SET_PRIMARY")

IInv ==
    /\ TypeOK
    /\ client \in [Clients -> Clerks] /\ \A p \in Clients : Placed(p)
    /\ Closed(categories) /\ Closed(products) /\ Closed(variants) /\ Closed(images)
    /\ ProductsBacked /\ VariantsBacked /\ ImagesBacked
    /\ TradedStay
    /\ SkusApart

\* A product has at most one primary image, unless images were added while
\* another request on images was under way.
OnePrimary ==
    ~crossed => \A g, h \in Images :
        /\ images[g].com.primary /\ images[h].com.primary
        /\ images[g].com.product = images[h].com.product
        => g = h

\* A product appears with all the variants it was asked for, or not at all.
WholeProducts ==
    [][\A q \in Products : products[q].com.status = "none" /\ products'[q].com.status # "none" =>
        \E p \in Clients :
            /\ Is(p, "NEW_PRODUCT") /\ Req(p).id = q
            /\ Req(p).skus \subseteq
                 {variants'[x].com.sku : x \in {y \in Variants : variants'[y].com.product = q}}]_vars
=============================================================================
