-------------------------- MODULE Catalogue_proofs --------------------------
(***************************************************************************)
(* The properties of Catalogue, for any number of administrators, rows and *)
(* requests.  A statement leaves a cell as it is or writes one that is     *)
(* free; the lemmas on single cells say when that keeps references backed  *)
(* and SKUs apart, and one lemma per table applies them to every statement *)
(* that writes it.  The last two parts add what a client has written so    *)
(* far: WInv for the variants of a product being created, GInv for the     *)
(* images of one.                                                          *)
(***************************************************************************)
EXTENDS Catalogue, Shared_proofs

-----------------------------------------------------------------------------
\* Single cells.

\* d is what a statement of p makes of the cell c.
Wrote(c, d, p) == Free(c, p) /\ d.by = p /\ d.com = c.com

\* Writing a free row that refers to what it referred to, to nothing, or to
\* a row that is held for it.
LEMMA ChildLemma ==
    ASSUME NEW p \in Clients, NEW c, NEW e, NEW d, NEW k, NEW a, NEW b, NEW n,
           Wrote(c, e, p), c.by = Nobody => a = b, d.by = Nobody => d.live = d.com,
           Backed(k, a, b, c.by, d), n = k => n = b \/ Holds(d, p)
    PROVE  Backed(k, a, n, e.by, d)
<1>1. CASE c.by = p
  BY <1>1, NobodyAssumption DEF Wrote, Backed, Holds, See, Free
<1>2. CASE c.by = Nobody
  BY <1>2, NobodyAssumption DEF Wrote, Backed, Holds, See, Free
<1> QED BY <1>1, <1>2 DEF Wrote, Free

\* Writing a free row that is there and stays.
LEMMA ParentLemma ==
    ASSUME NEW p \in Clients, NEW d, NEW e, NEW k, NEW a, NEW b, NEW by,
           Wrote(d, e, p), d.by = Nobody => d.live = d.com,
           See(d, p).status \notin Absent, e.live.status \notin Absent,
           Backed(k, a, b, by, d)
    PROVE  Backed(k, a, b, by, e)
BY NobodyAssumption DEF Wrote, Backed, See, Free

\* What p's commit or rollback makes of the cell c.
Publishes(c, d, p) == d = IF c.by = p THEN Cell(c.live) ELSE c
Undoes(c, d, p)    == d = IF c.by = p THEN Cell(c.com) ELSE c

\* A commit publishes a row together with what it refers to.
LEMMA CommitBacked ==
    ASSUME NEW p \in Clients, NEW c, NEW e, NEW d, NEW f, NEW k, NEW a, NEW b,
           Publishes(d, f, p), e.by = IF c.by = p THEN Nobody ELSE c.by,
           c.by = Nobody => a = b, d.by = Nobody => d.live = d.com,
           Backed(k, a, b, c.by, d)
    PROVE  Backed(k, IF c.by = p THEN b ELSE a, b, e.by, f)
<1>1. Cell(d.live).com = d.live /\ Cell(d.live).live = d.live /\ Cell(d.live).by = Nobody
  BY DEF Cell
<1>2. d.by = p => f.com = d.live /\ f.live = d.live /\ f.by = Nobody
  BY <1>1 DEF Publishes
<1>3. d.by # p => f = d
  BY DEF Publishes
<1>4. CASE c.by = p
  BY <1>2, <1>3, <1>4, NobodyAssumption DEF Backed
<1>5. CASE c.by # p
  BY <1>2, <1>3, <1>5, NobodyAssumption DEF Backed
<1> QED BY <1>4, <1>5

\* So does a rollback with undoing them.
LEMMA RollbackBacked ==
    ASSUME NEW p \in Clients, NEW c, NEW e, NEW d, NEW f, NEW k, NEW a, NEW b,
           Undoes(d, f, p), e.by = IF c.by = p THEN Nobody ELSE c.by,
           c.by = Nobody => a = b, d.by = Nobody => d.live = d.com,
           Backed(k, a, b, c.by, d)
    PROVE  Backed(k, a, IF c.by = p THEN a ELSE b, e.by, f)
<1>1. Cell(d.com).com = d.com /\ Cell(d.com).live = d.com /\ Cell(d.com).by = Nobody
  BY DEF Cell
<1>2. d.by = p => f.com = d.com /\ f.live = d.com /\ f.by = Nobody
  BY <1>1 DEF Undoes
<1>3. d.by # p => f = d
  BY DEF Undoes
<1>4. CASE c.by = p
  BY <1>2, <1>3, <1>4, NobodyAssumption DEF Backed
<1>5. CASE c.by # p
  BY <1>2, <1>3, <1>5, NobodyAssumption DEF Backed
<1> QED BY <1>4, <1>5

-----------------------------------------------------------------------------
\* SKUs of two cells.

CellsApart(c, d) ==
    /\ Apart(c.com.sku, d.com.sku) /\ Apart(c.live.sku, d.live.sku)
    /\ c.by # d.by => Apart(c.com.sku, d.live.sku) /\ Apart(c.live.sku, d.com.sku)

LEMMA ApartLemma ==
    SkusApart <=> \A x, y \in Variants : x # y => CellsApart(variants[x], variants[y])
BY DEF SkusApart, CellsApart, Apart

\* The cell is left alone, or written with its own SKU or none.
KeepsSku(c, e, p) == e = c \/ (Wrote(c, e, p) /\ e.live.sku \in {c.live.sku, "none"})

\* Writing one of two cells with its own SKU or none.
LEMMA KeepOneLemma ==
    ASSUME NEW p \in Clients, NEW c, NEW e, NEW d, KeepsSku(c, e, p), CellsApart(c, d),
           c.by = Nobody => c.live = c.com, d.by = Nobody => d.live = d.com
    PROVE  CellsApart(e, d)
<1>1. CASE e = c
  BY <1>1
<1>2. CASE Wrote(c, e, p) /\ e.live.sku \in {c.live.sku, "none"}
  <2>1. CASE c.by = p
    BY <1>2, <2>1 DEF CellsApart, Apart, Wrote
  <2>2. CASE c.by = Nobody
    BY <1>2, <2>2, NobodyAssumption DEF CellsApart, Apart, Wrote
  <2> QED BY <1>2, <2>1, <2>2 DEF Wrote, Free
<1> QED BY <1>1, <1>2 DEF KeepsSku

LEMMA Symmetric ==
    ASSUME NEW c, NEW d
    PROVE  CellsApart(c, d) <=> CellsApart(d, c)
BY DEF CellsApart, Apart

\* Writing one of two cells with a SKU the index admits.
LEMMA TakeSkuLemma ==
    ASSUME NEW p \in Clients, NEW c, NEW e, NEW d, Wrote(c, e, p), CellsApart(c, d),
           c.by = Nobody => c.live = c.com, d.by = Nobody => d.live = d.com,
           d.by \in Clients \cup {Nobody},
           See(d, p).sku # e.live.sku,
           ~Free(d, p) => e.live.sku \notin {d.com.sku, d.live.sku}
    PROVE  CellsApart(e, d)
<1>1. CASE d.by = p
  BY <1>1, NobodyAssumption DEF CellsApart, Apart, Wrote, See, Free
<1>2. CASE d.by = Nobody
  BY <1>2, NobodyAssumption DEF CellsApart, Apart, Wrote, See, Free
<1>3. CASE d.by \notin {p, Nobody}
  BY <1>3, NobodyAssumption DEF CellsApart, Apart, Wrote, See, Free
<1> QED BY <1>1, <1>2, <1>3

\* A commit or a rollback publishes nothing that was not apart already.
LEMMA EndApart ==
    ASSUME NEW p \in Clients, NEW c, NEW e, NEW d, NEW f, CellsApart(c, d),
           \/ Publishes(c, e, p) /\ Publishes(d, f, p)
           \/ Undoes(c, e, p) /\ Undoes(d, f, p),
           c.by = Nobody => c.live = c.com, d.by = Nobody => d.live = d.com
    PROVE  CellsApart(e, f)
<1>1. \A row : Cell(row).com = row /\ Cell(row).live = row /\ Cell(row).by = Nobody
  BY DEF Cell
<1>2. CASE Publishes(c, e, p) /\ Publishes(d, f, p)
  <2>1. CASE c.by = p /\ d.by = p
    BY <1>1, <1>2, <2>1 DEF CellsApart, Publishes
  <2>2. CASE c.by = p /\ d.by # p
    BY <1>1, <1>2, <2>2 DEF CellsApart, Publishes
  <2>3. CASE c.by # p /\ d.by = p
    BY <1>1, <1>2, <2>3 DEF CellsApart, Publishes
  <2>4. CASE c.by # p /\ d.by # p
    BY <1>2, <2>4 DEF Publishes
  <2> QED BY <2>1, <2>2, <2>3, <2>4
<1>3. CASE Undoes(c, e, p) /\ Undoes(d, f, p)
  <2>1. CASE c.by = p /\ d.by = p
    BY <1>1, <1>3, <2>1 DEF CellsApart, Undoes
  <2>2. CASE c.by = p /\ d.by # p
    BY <1>1, <1>3, <2>2 DEF CellsApart, Undoes
  <2>3. CASE c.by # p /\ d.by = p
    BY <1>1, <1>3, <2>3 DEF CellsApart, Undoes
  <2>4. CASE c.by # p /\ d.by # p
    BY <1>3, <2>4 DEF Undoes
  <2> QED BY <2>1, <2>2, <2>3, <2>4
<1> QED BY <1>2, <1>3

-----------------------------------------------------------------------------
\* The variants.

\* A row that is rewritten keeps its SKU, drops it, or takes one that the
\* index finds free while no other row is written.
SkuFits(x, p) ==
    \/ variants'[x].live.sku \in {variants[x].live.sku, "none"}
    \/ /\ UniqueSku(variants'[x].live.sku, x, p)
       /\ \A y \in Variants \ {x} : variants'[y] = variants[y]

\* What a statement of p makes of variant x.
VariantWritten(x, p) ==
    \/ variants'[x] = variants[x]
    \/ /\ Wrote(variants[x], variants'[x], p)
       /\ x \in traded => variants'[x].live.product \in Products
       /\ SkuFits(x, p)

\* Statements on variants keep them closed, traded ones there, SKUs apart.
LEMMA VariantsKept ==
    ASSUME IInv, NEW p \in Clients, UNCHANGED traded,
           variants' \in [Variants -> Cells(VariantRows)],
           \A x \in Variants : VariantWritten(x, p)
    PROVE  Closed(variants)' /\ TradedStay' /\ SkusApart'
<1>1. variants \in [Variants -> Cells(VariantRows)] /\ traded \subseteq Variants
  BY DEF IInv, TypeOK
<1>2. \A x \in Variants : /\ variants[x].by = Nobody => variants[x].live = variants[x].com
                          /\ variants[x].by \in Clients \cup {Nobody}
  BY <1>1 DEF IInv, Closed, Cells
<1>3. Closed(variants)'
  BY <1>1, <1>2, NobodyAssumption DEF VariantWritten, Wrote, Closed
<1>4. TradedStay'
  BY <1>1 DEF IInv, TradedStay, VariantWritten, Wrote
<1>5. ASSUME NEW x \in Variants, NEW y \in Variants, x # y
      PROVE  CellsApart(variants'[x], variants'[y])
  <2>1. CellsApart(variants[x], variants[y]) /\ CellsApart(variants[y], variants[x])
    BY <1>5, ApartLemma DEF IInv
  <2>2. ASSUME NEW u \in Variants, NEW w \in Variants, u # w, CellsApart(variants[u], variants[w]),
               Wrote(variants[u], variants'[u], p), UniqueSku(variants'[u].live.sku, u, p),
               \A z \in Variants \ {u} : variants'[z] = variants[z]
        PROVE  CellsApart(variants'[u], variants'[w])
    <3>1. /\ See(variants[w], p).sku # variants'[u].live.sku
          /\ ~Free(variants[w], p)
                => variants'[u].live.sku \notin {variants[w].com.sku, variants[w].live.sku}
      BY <2>2 DEF UniqueSku
    <3>2. CellsApart(variants'[u], variants[w])
      BY <1>2, <2>2, <3>1, TakeSkuLemma
    <3> QED BY <2>2, <3>2
  <2>3. CASE \/ KeepsSku(variants[x], variants'[x], p) /\ KeepsSku(variants[y], variants'[y], p)
    <3>1. CellsApart(variants'[x], variants[y])
      BY <1>2, <2>1, <2>3, KeepOneLemma
    <3>2. CellsApart(variants[y], variants'[x])
      BY <3>1, Symmetric
    <3>3. variants'[x].by = Nobody => variants'[x].live = variants'[x].com
      BY <1>1, <1>3 DEF Closed
    <3>4. CellsApart(variants'[y], variants'[x])
      BY <1>2, <2>3, <3>2, <3>3, KeepOneLemma
    <3> QED BY <3>4, Symmetric
  <2>4. CASE ~KeepsSku(variants[x], variants'[x], p)
    BY <1>5, <2>1, <2>2, <2>4 DEF KeepsSku, VariantWritten, SkuFits
  <2>5. CASE ~KeepsSku(variants[y], variants'[y], p)
    <3>1. CellsApart(variants'[y], variants'[x])
      BY <1>5, <2>1, <2>2, <2>5 DEF KeepsSku, VariantWritten, SkuFits
    <3> QED BY <3>1, Symmetric
  <2> QED BY <2>3, <2>4, <2>5
<1>6. SkusApart'
  BY <1>5 DEF SkusApart, CellsApart
<1> QED BY <1>3, <1>4, <1>6

-----------------------------------------------------------------------------
\* References.

\* A row that referred to b refers to it still, to nothing, or to a product
\* that is held for it.
ProductFits(n, b, p) == n \in Products => n = b \/ Holds(products[n], p)

RefersToFit(c, e, p) ==
    e = c \/ (Wrote(c, e, p) /\ ProductFits(e.live.product, c.live.product, p))

LEMMA VariantsStayBacked ==
    ASSUME IInv, NEW p \in Clients, UNCHANGED products,
           \A x \in Variants : RefersToFit(variants[x], variants'[x], p)
    PROVE  VariantsBacked'
<1>1. \A x \in Variants : variants[x].by = Nobody => variants[x].live = variants[x].com
  BY DEF IInv, TypeOK, Closed
<1>2. \A q \in Products : products[q].by = Nobody => products[q].live = products[q].com
  BY DEF IInv, TypeOK, Closed
<1> SUFFICES ASSUME NEW x \in Variants, NEW q \in Products
             PROVE  Backed(q, variants'[x].com.product, variants'[x].live.product, variants'[x].by, products[q])
  BY DEF VariantsBacked
<1>3. Backed(q, variants[x].com.product, variants[x].live.product, variants[x].by, products[q])
  BY DEF IInv, VariantsBacked
<1>4. CASE variants'[x] = variants[x]
  BY <1>3, <1>4
<1>5. CASE Wrote(variants[x], variants'[x], p) /\ ProductFits(variants'[x].live.product, variants[x].live.product, p)
  <2>1. variants'[x].live.product = q => variants'[x].live.product = variants[x].live.product \/ Holds(products[q], p)
    BY <1>5 DEF ProductFits
  <2>2. variants[x].by = Nobody => variants[x].com.product = variants[x].live.product
    BY <1>1
  <2>3. products[q].by = Nobody => products[q].live = products[q].com
    BY <1>2
  <2>4. Backed(q, variants[x].com.product, variants'[x].live.product, variants'[x].by, products[q])
    BY <1>3, <1>5, <2>1, <2>2, <2>3, ChildLemma
  <2> QED BY <1>5, <2>4 DEF Wrote
<1> QED BY <1>4, <1>5 DEF RefersToFit

LEMMA ImagesStayBacked ==
    ASSUME IInv, NEW p \in Clients, UNCHANGED products,
           images' \in [Images -> Cells(ImageRows)],
           \A g \in Images : RefersToFit(images[g], images'[g], p)
    PROVE  ImagesBacked' /\ Closed(images)'
<1>1. \A g \in Images : images[g].by = Nobody => images[g].live = images[g].com
  BY DEF IInv, TypeOK, Closed
<1>2. \A q \in Products : products[q].by = Nobody => products[q].live = products[q].com
  BY DEF IInv, TypeOK, Closed
<1>3. ASSUME NEW g \in Images, NEW q \in Products
      PROVE  Backed(q, images'[g].com.product, images'[g].live.product, images'[g].by, products[q])
  <2>1. Backed(q, images[g].com.product, images[g].live.product, images[g].by, products[q])
    BY DEF IInv, ImagesBacked
  <2>2. CASE images'[g] = images[g]
    BY <2>1, <2>2
  <2>3. CASE Wrote(images[g], images'[g], p) /\ ProductFits(images'[g].live.product, images[g].live.product, p)
    <3>1. images'[g].live.product = q => images'[g].live.product = images[g].live.product \/ Holds(products[q], p)
      BY <2>3 DEF ProductFits
    <3>2. images[g].by = Nobody => images[g].com.product = images[g].live.product
      BY <1>1
    <3>3. products[q].by = Nobody => products[q].live = products[q].com
      BY <1>2
    <3>4. Backed(q, images[g].com.product, images'[g].live.product, images'[g].by, products[q])
      BY <2>1, <2>3, <3>1, <3>2, <3>3, ChildLemma
    <3> QED BY <2>3, <3>4 DEF Wrote
  <2> QED BY <2>2, <2>3 DEF RefersToFit
<1>4. Closed(images)'
  BY <1>1, NobodyAssumption DEF RefersToFit, Wrote, Closed
<1> QED BY <1>3, <1>4 DEF ImagesBacked

\* A product that is there is rewritten and stays, in its category or in one
\* that is held for it.
LEMMA ProductStays ==
    ASSUME IInv, NEW p \in Clients, NEW q \in Products, NEW row \in ProductRows,
           SeenProduct(q, p), Free(products[q], p),
           row.status \notin Absent,
           \/ row.category = products[q].live.category
           \/ row.category \in Categories /\ Holds(categories[row.category], p),
           products' = [products EXCEPT ![q] = Written(@, p, row)],
           UNCHANGED <<categories, variants, images>>
    PROVE  /\ products' \in [Products -> Cells(ProductRows)]
           /\ Closed(products)'
           /\ ProductsBacked' /\ VariantsBacked' /\ ImagesBacked'
<1>1. products \in [Products -> Cells(ProductRows)]
  BY DEF IInv, TypeOK
<1>2. /\ products' \in [Products -> Cells(ProductRows)]
      /\ \A r \in Products : r # q => products'[r] = products[r]
      /\ products'[q].by = p /\ products'[q].live = row /\ products'[q].com = products[q].com
  BY <1>1, WriteLemma
<1>3. Wrote(products[q], products'[q], p)
  BY <1>2 DEF Wrote
<1>4. \A r \in Products : products[r].by = Nobody => products[r].live = products[r].com
  BY <1>1 DEF IInv, Closed
<1>5. \A k \in Categories : categories[k].by = Nobody => categories[k].live = categories[k].com
  BY DEF IInv, TypeOK, Closed
<1>6. Closed(products)'
  BY <1>1, <1>2, <1>4, NobodyAssumption DEF Closed
<1>7. products[q].live.status \notin Absent
  BY <1>4 DEF SeenProduct, See, Free
<1>8. ProductsBacked'
  <2> SUFFICES ASSUME NEW r \in Products, NEW k \in Categories
               PROVE  Backed(k, products'[r].com.category, products'[r].live.category,
                             products'[r].by, categories[k])
    BY DEF ProductsBacked
  <2>1. Backed(k, products[r].com.category, products[r].live.category, products[r].by, categories[k])
    BY DEF IInv, ProductsBacked
  <2>2. CASE r # q
    BY <1>2, <2>1, <2>2
  <2>3. CASE r = q
    <3>1. row.category = k => row.category = products[q].live.category \/ Holds(categories[k], p)
      OBVIOUS
    <3>2. products[q].by = Nobody => products[q].com.category = products[q].live.category
      BY <1>4
    <3>3. categories[k].by = Nobody => categories[k].live = categories[k].com
      BY <1>5
    <3>4. Backed(k, products[q].com.category, row.category, products'[q].by, categories[k])
      BY <1>3, <2>1, <2>3, <3>1, <3>2, <3>3, ChildLemma
    <3> QED BY <1>2, <2>3, <3>4
  <2> QED BY <2>2, <2>3
<1>9. ASSUME NEW r \in Products, NEW a, NEW b, NEW by, Backed(r, a, b, by, products[r])
       PROVE  Backed(r, a, b, by, products'[r])
  <2>1. CASE r # q
    BY <1>2, <1>9, <2>1
  <2>2. CASE r = q
    <3>1. See(products[q], p).status \notin Absent /\ products'[q].live.status \notin Absent
      BY <1>2 DEF SeenProduct
    <3>2. products[q].by = Nobody => products[q].live = products[q].com
      BY <1>4
    <3> QED BY <1>3, <1>9, <2>2, <3>1, <3>2, ParentLemma
  <2> QED BY <2>1, <2>2
<1>10. VariantsBacked'
  BY <1>9 DEF IInv, VariantsBacked
<1>11. ImagesBacked'
  BY <1>9 DEF IInv, ImagesBacked
<1> QED BY <1>2, <1>6, <1>8, <1>10, <1>11

-----------------------------------------------------------------------------
\* The tables' part of IInv.
Sound ==
    /\ TypeOK
    /\ Closed(categories) /\ Closed(products) /\ Closed(variants) /\ Closed(images)
    /\ ProductsBacked /\ VariantsBacked /\ ImagesBacked
    /\ TradedStay
    /\ SkusApart

\* The ids of a request are those its operation takes.
LEMMA RequestLemma ==
    ASSUME IInv, NEW p \in Clients
    PROVE  /\ Req(p).op \in {"NEW_CATEGORY", "SET_CATEGORY", "DROP_CATEGORY"} => Req(p).id \in Categories
           /\ Req(p).op \in {"NEW_PRODUCT", "SET_PRODUCT"}
                => Req(p).id \in Products /\ Req(p).parent \in Categories \cup {"none"}
           /\ Is(p, "DROP_PRODUCT") => Req(p).id \in Products
           /\ Req(p).op \in {"ADD_IMAGES", "NEW_VARIANT"} => Req(p).parent \in Products
           /\ Req(p).op \in {"DROP_IMAGE", "SET_PRIMARY"} => Req(p).id \in Images
           /\ Req(p).op \in {"SET_VARIANT", "DROP_VARIANT"} => Req(p).id \in Variants
           /\ Is(p, "SET_VARIANT") => \E s \in Skus : Req(p).skus = {s}
           /\ Req(p).on \in BOOLEAN
<1>1. Req(p) \in Requests \cup {Blank}
  BY DEF IInv, Clerks, Req
<1>2. CASE Req(p) = Blank
  BY <1>2 DEF Blank, Is, Req
<1>3. CASE Req(p) \in Requests
  BY <1>3, CatalogueAssumption DEF Requests, Is, Req
<1> QED BY <1>1, <1>2, <1>3

\* Creating, changing or deleting a category.
LEMMA CategoryStep ==
    ASSUME IInv, NEW p \in Clients, InsertCategory(p) \/ WriteCategory(p) \/ DeleteCategory(p),
           UNCHANGED traded
    PROVE  Sound'
<1> DEFINE k == Req(p).id
<1>1. k \in Categories /\ Req(p).on \in BOOLEAN
  BY RequestLemma DEF InsertCategory, WriteCategory, DeleteCategory, Is, Req
<1>2. categories \in [Categories -> Cells(CategoryRows)]
  BY DEF IInv, TypeOK
<1>3. PICK row \in CategoryRows :
        /\ categories' = [categories EXCEPT ![k] = Written(@, p, row)]
        /\ \/ See(categories[k], p).status \notin Absent /\ row.status \notin Absent
           \/ \A q \in Products : k \notin {products[q].com.category, products[q].live.category}
  <2>1. CASE WriteCategory(p)
    <3>1. Status(Req(p).on /\ Is(p, "SET_CATEGORY")) \in {"active", "inactive"}
      BY DEF Status
    <3>2. [status |-> Status(Req(p).on /\ Is(p, "SET_CATEGORY"))] \in CategoryRows
      BY <3>1 DEF CategoryRows
    <3> QED BY <2>1, <3>1, <3>2 DEF WriteCategory, Absent
  <2>2. CASE DeleteCategory(p)
    <3>1. [status |-> "gone"] \in CategoryRows
      BY DEF CategoryRows, Absent
    <3>2. /\ categories' = [categories EXCEPT ![k] = Written(@, p, [status |-> "gone"])]
          /\ \A q \in Products : k \notin {products[q].com.category, products[q].live.category}
      BY <2>2 DEF DeleteCategory
    <3> QED BY <3>1, <3>2
  <2>3. CASE InsertCategory(p)
    <3> DEFINE row == [status |-> Status(Req(p).on)]
    <3>1. row \in CategoryRows
      BY DEF CategoryRows, Status
    <3>2. /\ categories[k] = Cell([status |-> "none"])
          /\ categories' = [categories EXCEPT ![k] = Written(@, p, row)]
      BY <2>3 DEF InsertCategory
    <3>3. categories[k].com.status \in Absent /\ categories[k].live.status \in Absent
      BY <3>2 DEF Cell, Absent
    <3>4. \A q \in Products : k \notin {products[q].com.category, products[q].live.category}
      BY <1>1, <3>3 DEF IInv, ProductsBacked, Backed
    <3> HIDE DEF row
    <3> QED BY <3>1, <3>2, <3>4
  <2> QED BY <2>1, <2>2, <2>3
<1> HIDE DEF k
<1>4. Free(categories[k], p) /\ UNCHANGED <<products, variants, images, traded>>
  BY DEF InsertCategory, WriteCategory, DeleteCategory, Free, Cell, k
<1>5. /\ categories' \in [Categories -> Cells(CategoryRows)]
      /\ \A l \in Categories : l # k => categories'[l] = categories[l]
      /\ categories'[k].by = p /\ categories'[k].live = row /\ categories'[k].com = categories[k].com
  BY <1>1, <1>2, <1>3, WriteLemma
<1>6. \A l \in Categories : categories[l].by = Nobody => categories[l].live = categories[l].com
  BY <1>2 DEF IInv, Closed
<1>7. Closed(categories)'
  BY <1>2, <1>5, <1>6, NobodyAssumption DEF Closed
<1>8. ProductsBacked'
  <2> SUFFICES ASSUME NEW q \in Products, NEW l \in Categories
               PROVE  Backed(l, products[q].com.category, products[q].live.category,
                             products[q].by, categories'[l])
    BY <1>4 DEF ProductsBacked
  <2>1. Backed(l, products[q].com.category, products[q].live.category, products[q].by, categories[l])
    BY DEF IInv, ProductsBacked
  <2>2. CASE l # k
    BY <1>5, <2>1, <2>2
  <2>3. CASE l = k /\ k \notin {products[q].com.category, products[q].live.category}
    BY <2>3 DEF Backed
  <2>4. CASE l = k /\ See(categories[k], p).status \notin Absent /\ row.status \notin Absent
    <3>1. Wrote(categories[k], categories'[k], p)
      BY <1>4, <1>5 DEF Wrote
    <3>2. categories[k].by = Nobody => categories[k].live = categories[k].com
      BY <1>1, <1>6
    <3>3. categories'[k].live.status \notin Absent
      BY <1>5, <2>4
    <3> QED BY <2>1, <2>4, <3>1, <3>2, <3>3, ParentLemma
  <2> QED BY <1>3, <2>2, <2>3, <2>4
<1>9. /\ TypeOK' /\ Closed(products)' /\ Closed(variants)' /\ Closed(images)'
      /\ VariantsBacked' /\ ImagesBacked' /\ TradedStay' /\ SkusApart'
  BY <1>4, <1>5 DEF IInv, TypeOK, Closed, VariantsBacked, ImagesBacked, TradedStay, SkusApart
<1> QED BY <1>7, <1>8, <1>9 DEF Sound

\* Changing a product, or deactivating it.
LEMMA ProductStep ==
    ASSUME IInv, NEW p \in Clients, WriteProduct(p) \/ RetireProduct(p), UNCHANGED traded
    PROVE  Sound'
<1> DEFINE q == Req(p).id
<1>1. q \in Products
  BY RequestLemma DEF WriteProduct, RetireProduct, IInv, Placed, Is, Req
<1>2. products \in [Products -> Cells(ProductRows)]
  BY DEF IInv, TypeOK
<1>3. SeenProduct(q, p) /\ Free(products[q], p) /\ UNCHANGED <<categories, variants, images>>
  BY DEF WriteProduct, RetireProduct
<1>4. PICK row \in ProductRows :
        /\ products' = [products EXCEPT ![q] = Written(@, p, row)]
        /\ row.status \notin Absent
        /\ \/ row.category = products[q].live.category
           \/ row.category \in Categories /\ Holds(categories[row.category], p)
  <2>1. CASE WriteProduct(p)
    <3> DEFINE k == IF Req(p).parent \in Categories THEN Req(p).parent ELSE See(products[q], p).category
               row == [status |-> Status(Req(p).on), category |-> k]
    <3>1. Status(Req(p).on) \in {"active", "inactive"}
      BY DEF Status
    <3>2. See(products[q], p).category = products[q].live.category
      BY <1>1, <1>2, <1>3 DEF IInv, Closed, See, Free
    <3>3. products[q].live \in ProductRows
      BY <1>1, <1>2 DEF Cells
    <3>4. k \in Categories \cup {"none"}
      BY <3>2, <3>3 DEF ProductRows
    <3>5. row \in ProductRows /\ row.status \notin Absent /\ row.category = k
      BY <3>1, <3>4 DEF ProductRows, Absent
    <3>6. \/ k = products[q].live.category
          \/ k \in Categories /\ Holds(categories[k], p)
      BY <2>1, <3>2 DEF WriteProduct
    <3>7. products' = [products EXCEPT ![q] = Written(@, p, row)]
      BY <2>1 DEF WriteProduct
    <3> HIDE DEF k, row
    <3> QED BY <3>5, <3>6, <3>7
  <2>2. CASE RetireProduct(p)
    <3> DEFINE row == [See(products[q], p) EXCEPT !.status = "inactive"]
    <3>1. products[q] \in Cells(ProductRows)
      BY <1>1, <1>2
    <3>2. See(products[q], p) \in ProductRows
      BY <3>1 DEF See, Cells
    <3>3. row \in ProductRows /\ row.status = "inactive" /\ row.category = See(products[q], p).category
      BY <3>2 DEF ProductRows
    <3>4. See(products[q], p).category = products[q].live.category
      BY <1>1, <1>2, <1>3 DEF IInv, Closed, See, Free
    <3>5. products' = [products EXCEPT ![q] = Written(@, p, row)]
      BY <2>2, <1>1, <1>2 DEF RetireProduct
    <3> QED BY <3>3, <3>4, <3>5 DEF Absent
  <2> QED BY <2>1, <2>2
<1> HIDE DEF q
<1>5. /\ products' \in [Products -> Cells(ProductRows)]
      /\ Closed(products)' /\ ProductsBacked' /\ VariantsBacked' /\ ImagesBacked'
  BY <1>1, <1>3, <1>4, ProductStays
<1>6. TypeOK' /\ Closed(categories)' /\ Closed(variants)' /\ Closed(images)' /\ TradedStay' /\ SkusApart'
  BY <1>3, <1>5 DEF IInv, TypeOK, Closed, TradedStay, SkusApart
<1> QED BY <1>5, <1>6 DEF Sound

-----------------------------------------------------------------------------
\* Statements on variants.

LEMMA VariantStep ==
    ASSUME IInv, NEW p \in Clients, UNCHANGED <<categories, products, images, traded>>,
           variants' \in [Variants -> Cells(VariantRows)],
           \A x \in Variants : VariantWritten(x, p) /\ RefersToFit(variants[x], variants'[x], p)
    PROVE  Sound'
<1>1. Closed(variants)' /\ TradedStay' /\ SkusApart'
  BY VariantsKept
<1>2. VariantsBacked'
  BY VariantsStayBacked
<1>3. /\ TypeOK' /\ Closed(categories)' /\ Closed(products)' /\ Closed(images)'
      /\ ProductsBacked' /\ ImagesBacked'
  BY DEF IInv, TypeOK, Closed, ProductsBacked, ImagesBacked
<1> QED BY <1>1, <1>2, <1>3 DEF Sound

\* A free row is seen as it stands, and one that is rewritten keeps its shape.
LEMMA SeenLemma ==
    ASSUME IInv, NEW p \in Clients, NEW x \in Variants, Free(variants[x], p)
    PROVE  /\ See(variants[x], p) = variants[x].live
           /\ variants[x].live \in VariantRows
           /\ \A row \in VariantRows : /\ Written(variants[x], p, row) \in Cells(VariantRows)
                                       /\ Wrote(variants[x], Written(variants[x], p, row), p)
                                       /\ Written(variants[x], p, row).live = row
<1>1. variants[x] \in Cells(VariantRows)
  BY DEF IInv, TypeOK
<1>2. See(variants[x], p) = variants[x].live
  BY DEF IInv, TypeOK, Closed, See, Free
<1>3. \A row \in VariantRows : /\ Written(variants[x], p, row) \in Cells(VariantRows)
                               /\ Wrote(variants[x], Written(variants[x], p, row), p)
                               /\ Written(variants[x], p, row).live = row
  BY <1>1 DEF Written, Wrote, Cells
<1> QED BY <1>1, <1>2, <1>3 DEF Cells

\* A statement that writes one variant.
LEMMA OneVariantStep ==
    ASSUME IInv, NEW p \in Clients, NEW x \in Variants, NEW row \in VariantRows,
           Free(variants[x], p),
           x \in traded => row.product \in Products,
           row.sku \in {variants[x].live.sku, "none"} \/ UniqueSku(row.sku, x, p),
           ProductFits(row.product, variants[x].live.product, p),
           variants' = [variants EXCEPT ![x] = Written(@, p, row)],
           UNCHANGED <<categories, products, images, traded>>
    PROVE  Sound'
<1>1. variants \in [Variants -> Cells(VariantRows)]
  BY DEF IInv, TypeOK
<1>2. /\ variants' \in [Variants -> Cells(VariantRows)]
      /\ \A y \in Variants : y # x => variants'[y] = variants[y]
  BY <1>1, WriteLemma
<1>3. variants'[x] = Written(variants[x], p, row)
  BY <1>1
<1>4. Wrote(variants[x], variants'[x], p) /\ variants'[x].live = row
  BY <1>3, SeenLemma
<1>5. SkuFits(x, p)
  BY <1>2, <1>4 DEF SkuFits
<1>6. \A y \in Variants : VariantWritten(y, p) /\ RefersToFit(variants[y], variants'[y], p)
  BY <1>2, <1>4, <1>5 DEF VariantWritten, RefersToFit
<1> QED BY <1>2, <1>6, VariantStep

\* The variants of a product that is retired.
LEMMA RetireStep ==
    ASSUME IInv, NEW p \in Clients, RetireVariants(p), UNCHANGED traded
    PROVE  Sound'
<1> DEFINE xs == {x \in client[p].seen : See(variants[x], p).product = Req(p).id}
           row(x) == [See(variants[x], p) EXCEPT !.active = FALSE]
<1>1. /\ \A x \in xs : Free(variants[x], p)
      /\ variants' = [x \in Variants |-> IF x \in xs THEN Written(variants[x], p, row(x)) ELSE variants[x]]
      /\ UNCHANGED <<categories, products, images>>
  BY DEF RetireVariants
<1>2. ASSUME NEW x \in Variants
      PROVE  /\ variants'[x] \in Cells(VariantRows)
             /\ VariantWritten(x, p) /\ RefersToFit(variants[x], variants'[x], p)
  <2>1. CASE x \notin xs
    <3>1. variants'[x] = variants[x]
      BY <1>1, <2>1
    <3> QED BY <3>1 DEF VariantWritten, RefersToFit, IInv, TypeOK
  <2>2. CASE x \in xs
    <3>1. variants'[x] = Written(variants[x], p, row(x)) /\ Free(variants[x], p)
      BY <1>1, <2>2
    <3>2. See(variants[x], p) = variants[x].live /\ variants[x].live \in VariantRows
      BY <3>1, SeenLemma
    <3>3. /\ row(x) \in VariantRows
          /\ row(x).product = variants[x].live.product /\ row(x).sku = variants[x].live.sku
      BY <3>2 DEF VariantRows
    <3>4. /\ variants'[x] \in Cells(VariantRows)
          /\ Wrote(variants[x], variants'[x], p) /\ variants'[x].live = row(x)
      BY <3>1, <3>3, SeenLemma
    <3>5. x \in traded => variants'[x].live.product \in Products
      BY <3>3, <3>4 DEF IInv, TradedStay
    <3> QED BY <3>3, <3>4, <3>5 DEF VariantWritten, RefersToFit, SkuFits, ProductFits
  <2> QED BY <2>1, <2>2
<1>3. variants' \in [Variants -> Cells(VariantRows)]
  BY <1>1, <1>2
<1> QED BY <1>1, <1>2, <1>3, VariantStep

\* A variant is inserted, changed, deactivated or deleted.
LEMMA OneVariantSteps ==
    ASSUME IInv, NEW p \in Clients, UNCHANGED traded,
           (\E s \in Skus : InsertVariant(p, s)) \/ WriteVariant(p) \/ DeleteVariant(p)
    PROVE  Sound'
<1>1. ASSUME NEW s \in Skus, InsertVariant(p, s)
      PROVE  Sound'
  <2> DEFINE q == IF Is(p, "NEW_PRODUCT") THEN Req(p).id ELSE Req(p).parent
             row == [product |-> q, sku |-> s, active |-> Req(p).on]
  <2>1. PICK x \in Variants : /\ variants[x] = Cell(NoVariant)
                              /\ variants' = [variants EXCEPT ![x] = Written(@, p, row)]
    BY <1>1 DEF InsertVariant
  <2>2. Holds(products[q], p) /\ UniqueSku(s, "none", p) /\ UNCHANGED <<categories, products, images>>
    BY <1>1 DEF InsertVariant
  <2>3. q \in Products
    BY <1>1, RequestLemma DEF InsertVariant, IInv, Placed, Is, Req
  <2>4. row \in VariantRows
    BY <2>3, RequestLemma DEF VariantRows
  <2>5. /\ Free(variants[x], p) /\ See(variants[x], p) = NoVariant /\ variants[x].com = NoVariant
    BY <2>1, NobodyAssumption DEF Free, See, Cell
  <2>6. x \notin traded
    BY <2>5, CatalogueAssumption DEF IInv, TradedStay, NoVariant
  <2>7. UniqueSku(s, x, p)
    BY <2>2, CatalogueAssumption DEF UniqueSku
  <2>8. ProductFits(q, variants[x].live.product, p)
    BY <2>2 DEF ProductFits
  <2> HIDE DEF q
  <2> QED BY <2>1, <2>2, <2>4, <2>5, <2>6, <2>7, <2>8, OneVariantStep
<1>2. CASE WriteVariant(p)
  <2> DEFINE x == Req(p).id
  <2>1. x \in Variants /\ Req(p).on \in BOOLEAN
    BY <1>2, RequestLemma DEF WriteVariant, Req
  <2>2. /\ See(variants[x], p).product \in Products /\ Free(variants[x], p)
        /\ UNCHANGED <<categories, products, images>>
    BY <1>2 DEF WriteVariant
  <2>3. See(variants[x], p) = variants[x].live /\ variants[x].live \in VariantRows
    BY <2>1, <2>2, SeenLemma
  <2>4. PICK row \in VariantRows :
          /\ row.product = variants[x].live.product
          /\ row.sku = variants[x].live.sku \/ UniqueSku(row.sku, x, p)
          /\ variants' = [variants EXCEPT ![x] = Written(@, p, row)]
    <3>1. ASSUME NEW s \in Skus, Req(p).skus = {s}, Is(p, "SET_VARIANT")
          PROVE  LET row == [See(variants[x], p) EXCEPT !.sku = s, !.active = Req(p).on]
                 IN  /\ row \in VariantRows
                     /\ row.product = variants[x].live.product
                     /\ row.sku = variants[x].live.sku \/ UniqueSku(row.sku, x, p)
                     /\ variants' = [variants EXCEPT ![x] = Written(@, p, row)]
      <4> DEFINE row == [See(variants[x], p) EXCEPT !.sku = s, !.active = Req(p).on]
      <4>1. row \in VariantRows /\ row.product = variants[x].live.product /\ row.sku = s
        BY <2>1, <2>3 DEF VariantRows
      <4>2. UniqueSku(s, x, p)
        BY <1>2, <3>1 DEF WriteVariant, Is, Req
      <4>3. variants' = [variants EXCEPT ![x] = Written(variants[x], p, row)]
        BY <1>2, <3>1 DEF WriteVariant, Is, Req
      <4> QED BY <4>1, <4>2, <4>3
    <3>2. ASSUME Is(p, "DROP_VARIANT")
          PROVE  LET row == [See(variants[x], p) EXCEPT !.active = FALSE]
                 IN  /\ row \in VariantRows
                     /\ row.product = variants[x].live.product
                     /\ row.sku = variants[x].live.sku
                     /\ variants' = [variants EXCEPT ![x] = Written(@, p, row)]
      <4> DEFINE row == [See(variants[x], p) EXCEPT !.active = FALSE]
      <4>1. row \in VariantRows /\ row.product = variants[x].live.product /\ row.sku = variants[x].live.sku
        BY <2>3 DEF VariantRows
      <4>2. variants' = [variants EXCEPT ![x] = Written(variants[x], p, row)]
        BY <1>2, <3>2 DEF WriteVariant, Is, Req
      <4> QED BY <4>1, <4>2
    <3> QED BY <1>2, <3>1, <3>2, RequestLemma DEF WriteVariant, Is, Req
  <2> HIDE DEF x
  <2>5. row.product \in Products /\ ProductFits(row.product, variants[x].live.product, p)
    BY <2>2, <2>3, <2>4 DEF ProductFits
  <2> QED BY <2>1, <2>2, <2>4, <2>5, OneVariantStep
<1>3. CASE DeleteVariant(p)
  <2> DEFINE x == Req(p).id
             row == [NoVariant EXCEPT !.product = "gone"]
  <2>1. x \in Variants
    BY <1>3, RequestLemma DEF DeleteVariant, Is, Req
  <2>2. /\ Free(variants[x], p) /\ x \notin traded /\ UNCHANGED <<categories, products, images>>
        /\ variants' = [variants EXCEPT ![x] = Written(@, p, row)]
    BY <1>3 DEF DeleteVariant, Untraded
  <2>3. row \in VariantRows /\ row.product = "gone" /\ row.sku = "none"
    BY DEF NoVariant, VariantRows, Absent
  <2>4. ProductFits(row.product, variants[x].live.product, p)
    BY <2>3, CatalogueAssumption DEF ProductFits
  <2> HIDE DEF x, row
  <2> QED BY <2>1, <2>2, <2>3, <2>4, OneVariantStep
<1> QED BY <1>1, <1>2, <1>3

-----------------------------------------------------------------------------
\* Statements on images.

LEMMA ImageStep ==
    ASSUME IInv, NEW p \in Clients, UNCHANGED <<categories, products, variants, traded>>,
           images' \in [Images -> Cells(ImageRows)],
           \A g \in Images : RefersToFit(images[g], images'[g], p)
    PROVE  Sound'
<1>1. ImagesBacked' /\ Closed(images)'
  BY ImagesStayBacked
<1>2. /\ TypeOK' /\ Closed(categories)' /\ Closed(products)' /\ Closed(variants)'
      /\ ProductsBacked' /\ VariantsBacked' /\ TradedStay' /\ SkusApart'
  BY DEF IInv, TypeOK, Closed, ProductsBacked, VariantsBacked, TradedStay, SkusApart
<1> QED BY <1>1, <1>2 DEF Sound

\* A free image is seen as it stands, and one that is rewritten keeps its shape.
LEMMA SeenImageLemma ==
    ASSUME IInv, NEW p \in Clients, NEW g \in Images, Free(images[g], p)
    PROVE  /\ See(images[g], p) = images[g].live
           /\ images[g].live \in ImageRows
           /\ \A row \in ImageRows : /\ Written(images[g], p, row) \in Cells(ImageRows)
                                     /\ Wrote(images[g], Written(images[g], p, row), p)
                                     /\ Written(images[g], p, row).live = row
<1>1. images[g] \in Cells(ImageRows)
  BY DEF IInv, TypeOK
<1>2. See(images[g], p) = images[g].live
  BY DEF IInv, TypeOK, Closed, See, Free
<1>3. \A row \in ImageRows : /\ Written(images[g], p, row) \in Cells(ImageRows)
                             /\ Wrote(images[g], Written(images[g], p, row), p)
                             /\ Written(images[g], p, row).live = row
  BY <1>1 DEF Written, Wrote, Cells
<1> QED BY <1>1, <1>2, <1>3 DEF Cells

\* An image is promoted or deleted.
LEMMA OneImageSteps ==
    ASSUME IInv, NEW p \in Clients, UNCHANGED traded, Promote(p) \/ DeleteImage(p)
    PROVE  Sound'
<1> DEFINE g == Req(p).id
<1>1. g \in Images
  BY RequestLemma DEF Promote, DeleteImage, IInv, Placed, Is, Req
<1>2. Free(images[g], p) /\ UNCHANGED <<categories, products, variants>>
  BY DEF Promote, DeleteImage
<1>3. images \in [Images -> Cells(ImageRows)]
  BY DEF IInv, TypeOK
<1>4. See(images[g], p) = images[g].live /\ images[g].live \in ImageRows
  BY <1>1, <1>2, SeenImageLemma
<1>5. PICK row \in ImageRows : /\ images' = [images EXCEPT ![g] = Written(@, p, row)]
                               /\ ProductFits(row.product, images[g].live.product, p)
  <2>1. CASE Promote(p)
    <3> DEFINE row == [See(images[g], p) EXCEPT !.primary = TRUE]
    <3>1. row \in ImageRows /\ row.product = images[g].live.product
      BY <1>4 DEF ImageRows
    <3>2. images' = [images EXCEPT ![g] = Written(images[g], p, row)]
      BY <2>1 DEF Promote
    <3> QED BY <3>1, <3>2 DEF ProductFits
  <2>2. CASE DeleteImage(p)
    <3> DEFINE row == [NoImage EXCEPT !.product = "gone"]
    <3>1. row \in ImageRows /\ row.product = "gone"
      BY DEF NoImage, ImageRows, Absent
    <3>2. images' = [images EXCEPT ![g] = Written(@, p, row)]
      BY <2>2 DEF DeleteImage
    <3>3. ProductFits(row.product, images[g].live.product, p)
      BY <3>1, CatalogueAssumption DEF ProductFits
    <3> HIDE DEF row
    <3> QED BY <3>1, <3>2, <3>3
  <2> QED BY <2>1, <2>2
<1> HIDE DEF g
<1>6. /\ images' \in [Images -> Cells(ImageRows)]
      /\ \A h \in Images : h # g => images'[h] = images[h]
  BY <1>1, <1>3, <1>5, WriteLemma
<1>7. images'[g] = Written(images[g], p, row)
  BY <1>1, <1>3, <1>5
<1>8. Wrote(images[g], images'[g], p) /\ images'[g].live = row
  BY <1>1, <1>2, <1>7, SeenImageLemma
<1>9. \A h \in Images : RefersToFit(images[h], images'[h], p)
  BY <1>5, <1>6, <1>8 DEF RefersToFit
<1> QED BY <1>2, <1>6, <1>9, ImageStep

\* The images of a product are demoted.
LEMMA DemoteStep ==
    ASSUME IInv, NEW p \in Clients, Demote(p), UNCHANGED traded
    PROVE  Sound'
<1> DEFINE gs == {g \in client[p].seen : See(images[g], p).product \in Products}
           row(g) == [See(images[g], p) EXCEPT !.primary = FALSE]
<1>1. /\ \A g \in gs : Free(images[g], p)
      /\ images' = [g \in Images |-> IF g \in gs THEN Written(images[g], p, row(g)) ELSE images[g]]
      /\ UNCHANGED <<categories, products, variants>>
  BY DEF Demote
<1>2. ASSUME NEW g \in Images
      PROVE  images'[g] \in Cells(ImageRows) /\ RefersToFit(images[g], images'[g], p)
  <2>1. CASE g \notin gs
    <3>1. images'[g] = images[g]
      BY <1>1, <2>1
    <3> QED BY <3>1 DEF RefersToFit, IInv, TypeOK
  <2>2. CASE g \in gs
    <3>1. images'[g] = Written(images[g], p, row(g)) /\ Free(images[g], p)
      BY <1>1, <2>2
    <3>2. See(images[g], p) = images[g].live /\ images[g].live \in ImageRows
      BY <3>1, SeenImageLemma
    <3>3. row(g) \in ImageRows /\ row(g).product = images[g].live.product
      BY <3>2 DEF ImageRows
    <3>4. /\ images'[g] \in Cells(ImageRows)
          /\ Wrote(images[g], images'[g], p) /\ images'[g].live = row(g)
      BY <3>1, <3>3, SeenImageLemma
    <3> QED BY <3>3, <3>4 DEF RefersToFit, ProductFits
  <2> QED BY <2>1, <2>2
<1>3. images' \in [Images -> Cells(ImageRows)]
  BY <1>1, <1>2
<1> QED BY <1>1, <1>2, <1>3, ImageStep

\* New images get ids not given out before.
LEMMA InsertedLemma ==
    ASSUME IInv, NEW p \in Clients, NEW q \in Products, NEW marks, Inserted(p, q, marks)
    PROVE  /\ images' \in [Images -> Cells(ImageRows)]
           /\ \A g \in Images :
                \/ images'[g] = images[g]
                \/ /\ images[g] = Cell(NoImage) /\ Wrote(images[g], images'[g], p)
                   /\ images'[g].live.product = q
<1> DEFINE new == {g \in Images : images[g] = Cell(NoImage)}
           primary == Normalised(marks)
<1>1. PICK id \in [DOMAIN marks -> new] :
        images' = [g \in Images |->
               IF \E i \in DOMAIN marks : id[i] = g
               THEN Written(images[g], p, [product |-> q,
                        primary |-> \E i \in DOMAIN marks : id[i] = g /\ primary[i]])
               ELSE images[g]]
  BY DEF Inserted
<1> HIDE DEF primary
<1>2. ASSUME NEW g \in Images
      PROVE  /\ images'[g] \in Cells(ImageRows)
             /\ \/ images'[g] = images[g]
                \/ /\ images[g] = Cell(NoImage) /\ Wrote(images[g], images'[g], p)
                   /\ images'[g].live.product = q
  <2> DEFINE row == [product |-> q, primary |-> \E i \in DOMAIN marks : id[i] = g /\ primary[i]]
  <2>1. CASE \E i \in DOMAIN marks : id[i] = g
    <3>1. images[g] = Cell(NoImage)
      BY <1>1, <2>1
    <3>2. images'[g] = Written(images[g], p, row)
      BY <1>1, <2>1
    <3>3. row \in ImageRows /\ row.product = q
      <4>1. (\E i \in DOMAIN marks : id[i] = g /\ primary[i]) \in BOOLEAN
        OBVIOUS
      <4> QED BY <4>1 DEF ImageRows
    <3>4. Free(images[g], p)
      BY <3>1 DEF Free, Cell
    <3> HIDE DEF row
    <3> QED BY <3>1, <3>2, <3>3, <3>4, SeenImageLemma
  <2>2. CASE ~\E i \in DOMAIN marks : id[i] = g
    <3>1. images'[g] = images[g]
      BY <1>1, <2>2
    <3> QED BY <3>1 DEF IInv, TypeOK
  <2> QED BY <2>1, <2>2
<1>3. images' \in [Images -> Cells(ImageRows)]
  <2>1. images' = [g \in Images |-> images'[g]]
    BY <1>1
  <2> QED BY <1>2, <2>1
<1> QED BY <1>2, <1>3

\* Images are added to a product.
LEMMA InsertImagesStep ==
    ASSUME IInv, NEW p \in Clients, InsertImages(p), UNCHANGED traded
    PROVE  Sound'
<1> DEFINE q == Req(p).parent
<1>1. q \in Products
  BY RequestLemma DEF InsertImages, Is, Req
<1>2. Holds(products[q], p) /\ Inserted(p, q, Req(p).marks) /\ UNCHANGED <<categories, products, variants>>
  BY DEF InsertImages
<1>3. images' \in [Images -> Cells(ImageRows)]
  BY <1>1, <1>2, InsertedLemma
<1>4. \A g \in Images : RefersToFit(images[g], images'[g], p)
  BY <1>1, <1>2, InsertedLemma DEF RefersToFit, ProductFits
<1> QED BY <1>2, <1>3, <1>4, ImageStep

-----------------------------------------------------------------------------
\* A product that is created or deleted, with what refers to it.

\* One product is written, and its category held for it if it has one.
LEMMA OneProduct ==
    ASSUME IInv, NEW p \in Clients, NEW q \in Products, NEW row \in ProductRows,
           Free(products[q], p),
           row.category \in Categories => Holds(categories[row.category], p),
           products' = [products EXCEPT ![q] = Written(@, p, row)],
           UNCHANGED categories
    PROVE  /\ products' \in [Products -> Cells(ProductRows)]
           /\ \A r \in Products : r # q => products'[r] = products[r]
           /\ products'[q].by = p /\ products'[q].com = products[q].com /\ products'[q].live = row
           /\ Closed(products)' /\ ProductsBacked'
<1>1. products \in [Products -> Cells(ProductRows)]
  BY DEF IInv, TypeOK
<1>2. /\ products' \in [Products -> Cells(ProductRows)]
      /\ \A r \in Products : r # q => products'[r] = products[r]
      /\ products'[q].by = p /\ products'[q].live = row /\ products'[q].com = products[q].com
  BY <1>1, WriteLemma
<1>3. \A r \in Products : products[r].by = Nobody => products[r].live = products[r].com
  BY <1>1 DEF IInv, Closed
<1>4. \A k \in Categories : categories[k].by = Nobody => categories[k].live = categories[k].com
  BY DEF IInv, TypeOK, Closed
<1>5. Closed(products)'
  BY <1>1, <1>2, <1>3, NobodyAssumption DEF Closed
<1>6. ProductsBacked'
  <2> SUFFICES ASSUME NEW r \in Products, NEW k \in Categories
               PROVE  Backed(k, products'[r].com.category, products'[r].live.category,
                             products'[r].by, categories[k])
    BY DEF ProductsBacked
  <2>1. Backed(k, products[r].com.category, products[r].live.category, products[r].by, categories[k])
    BY DEF IInv, ProductsBacked
  <2>2. CASE r # q
    BY <1>2, <2>1, <2>2
  <2>3. CASE r = q
    <3>1. row.category = k => row.category = products[q].live.category \/ Holds(categories[k], p)
      OBVIOUS
    <3>2. products[q].by = Nobody => products[q].com.category = products[q].live.category
      BY <1>3
    <3>3. categories[k].by = Nobody => categories[k].live = categories[k].com
      BY <1>4
    <3>4. Wrote(products[q], products'[q], p)
      BY <1>2 DEF Wrote
    <3>5. Backed(k, products[q].com.category, row.category, products'[q].by, categories[k])
      BY <2>1, <2>3, <3>1, <3>2, <3>3, <3>4, ChildLemma
    <3> QED BY <1>2, <2>3, <3>5
  <2> QED BY <2>2, <2>3
<1> QED BY <1>2, <1>5, <1>6

\* A new product: nothing refers to it but the images inserted with it.
LEMMA InsertProductStep ==
    ASSUME IInv, NEW p \in Clients, InsertProduct(p), UNCHANGED traded
    PROVE  Sound'
<1> DEFINE q == Req(p).id
           row == [status |-> Status(Req(p).on), category |-> Req(p).parent]
<1>1. q \in Products /\ Req(p).parent \in Categories \cup {"none"}
  BY RequestLemma DEF InsertProduct, IInv, Placed, Is, Req
<1>2. /\ products[q] = Cell(NoProduct)
      /\ Req(p).parent \in Categories => Holds(categories[Req(p).parent], p)
      /\ products' = [products EXCEPT ![q] = Written(@, p, row)]
      /\ Inserted(p, q, Req(p).marks)
      /\ UNCHANGED <<categories, variants>>
  BY DEF InsertProduct
<1>3. row \in ProductRows /\ row.category = Req(p).parent /\ row.status \in {"active", "inactive"}
  BY <1>1 DEF ProductRows, Status
<1> HIDE DEF q, row
<1>4. /\ Free(products[q], p) /\ products[q].com = NoProduct /\ products[q].live = NoProduct
      /\ NoProduct.status \in Absent
  BY <1>2 DEF Free, Cell, NoProduct, Absent
<1>5. /\ products' \in [Products -> Cells(ProductRows)]
      /\ \A r \in Products : r # q => products'[r] = products[r]
      /\ products'[q].by = p /\ products'[q].com = products[q].com /\ products'[q].live = row
      /\ Closed(products)' /\ ProductsBacked'
  <2>1. row.category \in Categories => Holds(categories[row.category], p)
    BY <1>2, <1>3
  <2> QED BY <1>1, <1>2, <1>3, <1>4, <2>1, OneProduct
<1>6. VariantsBacked'
  <2> SUFFICES ASSUME NEW x \in Variants, NEW r \in Products
               PROVE  Backed(r, variants[x].com.product, variants[x].live.product, variants[x].by, products'[r])
    BY <1>2 DEF VariantsBacked
  <2>1. Backed(r, variants[x].com.product, variants[x].live.product, variants[x].by, products[r])
    BY DEF IInv, VariantsBacked
  <2>2. CASE r = q
    BY <1>4, <2>1, <2>2 DEF Backed
  <2>3. CASE r # q
    BY <1>5, <2>1, <2>3
  <2> QED BY <2>2, <2>3
<1>7. images' \in [Images -> Cells(ImageRows)]
  BY <1>1, <1>2, InsertedLemma
<1>8. ImagesBacked'
  <2> SUFFICES ASSUME NEW g \in Images, NEW r \in Products
               PROVE  Backed(r, images'[g].com.product, images'[g].live.product, images'[g].by, products'[r])
    BY DEF ImagesBacked
  <2>1. Backed(r, images[g].com.product, images[g].live.product, images[g].by, products[r])
    BY DEF IInv, ImagesBacked
  <2>2. CASE images'[g] = images[g]
    <3>1. CASE r = q
      BY <1>4, <2>1, <2>2, <3>1 DEF Backed
    <3>2. CASE r # q
      BY <1>5, <2>1, <2>2, <3>2
    <3> QED BY <3>1, <3>2
  <2>3. CASE /\ images[g] = Cell(NoImage) /\ Wrote(images[g], images'[g], p)
             /\ images'[g].live.product = q
    <3>1. images'[g].com.product = "none" /\ "none" # r
      BY <2>3, CatalogueAssumption DEF Wrote, Cell, NoImage
    <3>2. products'[q].live.status \notin Absent
      BY <1>3, <1>5 DEF Absent
    <3> QED BY <1>5, <2>3, <3>1, <3>2 DEF Backed, Wrote
  <2> QED BY <1>1, <1>2, <2>2, <2>3, InsertedLemma
<1>9. Closed(images)'
  <2>1. \A g \in Images : images[g].by = Nobody => images[g].live = images[g].com
    BY DEF IInv, TypeOK, Closed
  <2>2. \A g \in Images : images'[g] = images[g] \/ Wrote(images[g], images'[g], p)
    BY <1>1, <1>2, InsertedLemma
  <2> QED BY <1>7, <2>1, <2>2, NobodyAssumption DEF Wrote, Closed
<1>10. TypeOK' /\ Closed(categories)' /\ Closed(variants)' /\ TradedStay' /\ SkusApart'
  BY <1>2, <1>5, <1>7 DEF IInv, TypeOK, Closed, TradedStay, SkusApart
<1> QED BY <1>5, <1>6, <1>8, <1>9, <1>10 DEF Sound

\* The variants of a product that is deleted go with it.
LEMMA DeleteVariantsBacked ==
    ASSUME IInv, NEW p \in Clients, NEW q \in Products, Free(products[q], p),
           variants' \in [Variants -> Cells(VariantRows)],
           \A r \in Products : r # q => products'[r] = products[r],
           products'[q].by = p, products'[q].com = products[q].com, products'[q].live.status \in Absent,
           \A x \in Variants : IF Refers(variants[x], q)
                             THEN /\ Wrote(variants[x], variants'[x], p)
                                  /\ variants'[x].live.product = "gone"
                             ELSE variants'[x] = variants[x]
    PROVE  VariantsBacked' /\ Closed(variants)'
<1>1. \A x \in Variants : variants[x].by = Nobody => variants[x].live = variants[x].com
  BY DEF IInv, TypeOK, Closed
<1>2. \A r \in Products : products[r].by = Nobody => products[r].live = products[r].com
  BY DEF IInv, TypeOK, Closed
<1>3. ASSUME NEW x \in Variants, NEW r \in Products
      PROVE  Backed(r, variants'[x].com.product, variants'[x].live.product, variants'[x].by, products'[r])
  <2>1. Backed(r, variants[x].com.product, variants[x].live.product, variants[x].by, products[r])
    BY DEF IInv, VariantsBacked
  <2>2. CASE Refers(variants[x], q)
    <3>1. /\ Wrote(variants[x], variants'[x], p) /\ variants'[x].live.product = "gone"
          /\ "gone" # r
      BY <2>2, CatalogueAssumption
    <3>2. CASE r = q
      BY <2>1, <3>1, <3>2 DEF Backed, Wrote
    <3>3. CASE r # q
      <4>1. variants[x].by = Nobody => variants[x].com.product = variants[x].live.product
        BY <1>1
      <4>2. products[r].by = Nobody => products[r].live = products[r].com
        BY <1>2
      <4>3. Backed(r, variants[x].com.product, variants'[x].live.product, variants'[x].by, products[r])
        BY <2>1, <3>1, <4>1, <4>2, ChildLemma
      <4> QED BY <3>1, <3>3, <4>3 DEF Wrote
    <3> QED BY <3>2, <3>3
  <2>3. CASE ~Refers(variants[x], q)
    <3>1. variants'[x] = variants[x]
      BY <2>3
    <3>2. CASE r = q
      BY <2>3, <3>1, <3>2 DEF Refers, Backed
    <3>3. CASE r # q
      BY <2>1, <3>1, <3>3
    <3> QED BY <3>2, <3>3
  <2> QED BY <2>2, <2>3
<1>4. VariantsBacked'
  BY <1>3 DEF VariantsBacked
<1>5. Closed(variants)'
  <2>1. \A x \in Variants : variants'[x].by = Nobody => variants'[x].live = variants'[x].com
    BY <1>1, NobodyAssumption DEF Wrote
  <2> QED BY <2>1 DEF Closed
<1> QED BY <1>4, <1>5

\* The same for its images.
LEMMA DeleteImagesBacked ==
    ASSUME IInv, NEW p \in Clients, NEW q \in Products, Free(products[q], p),
           images' \in [Images -> Cells(ImageRows)],
           \A r \in Products : r # q => products'[r] = products[r],
           products'[q].by = p, products'[q].com = products[q].com, products'[q].live.status \in Absent,
           \A g \in Images : IF Refers(images[g], q)
                             THEN /\ Wrote(images[g], images'[g], p)
                                  /\ images'[g].live.product = "gone"
                             ELSE images'[g] = images[g]
    PROVE  ImagesBacked' /\ Closed(images)'
<1>1. \A g \in Images : images[g].by = Nobody => images[g].live = images[g].com
  BY DEF IInv, TypeOK, Closed
<1>2. \A r \in Products : products[r].by = Nobody => products[r].live = products[r].com
  BY DEF IInv, TypeOK, Closed
<1>3. ASSUME NEW g \in Images, NEW r \in Products
      PROVE  Backed(r, images'[g].com.product, images'[g].live.product, images'[g].by, products'[r])
  <2>1. Backed(r, images[g].com.product, images[g].live.product, images[g].by, products[r])
    BY DEF IInv, ImagesBacked
  <2>2. CASE Refers(images[g], q)
    <3>1. /\ Wrote(images[g], images'[g], p) /\ images'[g].live.product = "gone"
          /\ "gone" # r
      BY <2>2, CatalogueAssumption
    <3>2. CASE r = q
      BY <2>1, <3>1, <3>2 DEF Backed, Wrote
    <3>3. CASE r # q
      <4>1. images[g].by = Nobody => images[g].com.product = images[g].live.product
        BY <1>1
      <4>2. products[r].by = Nobody => products[r].live = products[r].com
        BY <1>2
      <4>3. Backed(r, images[g].com.product, images'[g].live.product, images'[g].by, products[r])
        BY <2>1, <3>1, <4>1, <4>2, ChildLemma
      <4> QED BY <3>1, <3>3, <4>3 DEF Wrote
    <3> QED BY <3>2, <3>3
  <2>3. CASE ~Refers(images[g], q)
    <3>1. images'[g] = images[g]
      BY <2>3
    <3>2. CASE r = q
      BY <2>3, <3>1, <3>2 DEF Refers, Backed
    <3>3. CASE r # q
      BY <2>1, <3>1, <3>3
    <3> QED BY <3>2, <3>3
  <2> QED BY <2>2, <2>3
<1>4. ImagesBacked'
  BY <1>3 DEF ImagesBacked
<1>5. Closed(images)'
  <2>1. \A g \in Images : images'[g].by = Nobody => images'[g].live = images'[g].com
    BY <1>1, NobodyAssumption DEF Wrote
  <2> QED BY <2>1 DEF Closed
<1> QED BY <1>4, <1>5

\* Deleting a product.
LEMMA DeleteProductStep ==
    ASSUME IInv, NEW p \in Clients, DeleteProduct(p), UNCHANGED traded
    PROVE  Sound'
<1> DEFINE q   == Req(p).id
           row == [NoProduct EXCEPT !.status = "gone"]
           noVariant == [NoVariant EXCEPT !.product = "gone"]
           noImage   == [NoImage EXCEPT !.product = "gone"]
<1>1. q \in Products
  BY RequestLemma DEF DeleteProduct, Is, Req
<1>2. /\ Free(products[q], p)
      /\ \A x \in Variants : Refers(variants[x], q) => Free(variants[x], p) /\ x \notin traded
      /\ \A g \in Images : Refers(images[g], q) => Free(images[g], p)
      /\ products' = [products EXCEPT ![q] = Written(@, p, row)]
      /\ variants' = [x \in Variants |-> IF Refers(variants[x], q)
                                         THEN Written(variants[x], p, noVariant) ELSE variants[x]]
      /\ images' = [g \in Images |-> IF Refers(images[g], q)
                                     THEN Written(images[g], p, noImage) ELSE images[g]]
      /\ UNCHANGED categories
  BY DEF DeleteProduct, Untraded
<1>3. /\ row \in ProductRows /\ row.status = "gone" /\ row.category = "none"
      /\ noVariant \in VariantRows /\ noVariant.product = "gone" /\ noVariant.sku = "none"
      /\ noImage \in ImageRows /\ noImage.product = "gone"
  BY DEF NoProduct, ProductRows, NoVariant, VariantRows, NoImage, ImageRows, Absent
<1> HIDE DEF q, row, noVariant, noImage
<1>4. /\ products' \in [Products -> Cells(ProductRows)]
      /\ \A r \in Products : r # q => products'[r] = products[r]
      /\ products'[q].by = p /\ products'[q].com = products[q].com /\ products'[q].live = row
      /\ Closed(products)' /\ ProductsBacked'
  <2>1. row.category \notin Categories /\ row.status \in Absent
    BY <1>3, CatalogueAssumption DEF Absent
  <2> QED BY <1>1, <1>2, <1>3, <2>1, OneProduct
<1>5. products'[q].live.status \in Absent
  BY <1>3, <1>4 DEF Absent
<1>6. ASSUME NEW x \in Variants
      PROVE  /\ variants'[x] \in Cells(VariantRows)
             /\ IF Refers(variants[x], q)
                THEN /\ Wrote(variants[x], variants'[x], p)
                     /\ variants'[x].live.product = "gone" /\ variants'[x].live.sku = "none"
                ELSE variants'[x] = variants[x]
  <2>1. CASE Refers(variants[x], q)
    <3>1. variants'[x] = Written(variants[x], p, noVariant) /\ Free(variants[x], p)
      BY <1>2, <2>1
    <3> QED BY <1>3, <2>1, <3>1, SeenLemma
  <2>2. CASE ~Refers(variants[x], q)
    <3>1. variants'[x] = variants[x]
      BY <1>2, <2>2
    <3> QED BY <2>2, <3>1 DEF IInv, TypeOK
  <2> QED BY <2>1, <2>2
<1>7. ASSUME NEW g \in Images
      PROVE  /\ images'[g] \in Cells(ImageRows)
             /\ IF Refers(images[g], q)
                THEN Wrote(images[g], images'[g], p) /\ images'[g].live.product = "gone"
                ELSE images'[g] = images[g]
  <2>1. CASE Refers(images[g], q)
    <3>1. images'[g] = Written(images[g], p, noImage) /\ Free(images[g], p)
      BY <1>2, <2>1
    <3> QED BY <1>3, <2>1, <3>1, SeenImageLemma
  <2>2. CASE ~Refers(images[g], q)
    <3>1. images'[g] = images[g]
      BY <1>2, <2>2
    <3> QED BY <2>2, <3>1 DEF IInv, TypeOK
  <2> QED BY <2>1, <2>2
<1>8. variants' \in [Variants -> Cells(VariantRows)]
  BY <1>2, <1>6
<1>9. images' \in [Images -> Cells(ImageRows)]
  BY <1>2, <1>7
<1>10. \A x \in Variants : VariantWritten(x, p)
  BY <1>2, <1>6 DEF VariantWritten, SkuFits
<1>11. TradedStay' /\ SkusApart'
  BY <1>8, <1>10, VariantsKept
<1>12. VariantsBacked' /\ Closed(variants)'
  BY <1>1, <1>2, <1>4, <1>5, <1>6, <1>8, DeleteVariantsBacked
<1>13. ImagesBacked' /\ Closed(images)'
  BY <1>1, <1>2, <1>4, <1>5, <1>7, <1>9, DeleteImagesBacked
<1>14. TypeOK' /\ Closed(categories)'
  BY <1>2, <1>4, <1>8, <1>9 DEF IInv, TypeOK, Closed
<1> QED BY <1>4, <1>11, <1>12, <1>13, <1>14 DEF Sound

-----------------------------------------------------------------------------
\* The end of a transaction.

LEMMA CellLemma ==
    ASSUME NEW row
    PROVE  Cell(row).com = row /\ Cell(row).live = row /\ Cell(row).by = Nobody
BY DEF Cell

\* All tables are published, or all undone.
Closes(table, new, p, published) ==
    \A k \in DOMAIN table : IF published THEN Publishes(table[k], new[k], p)
                                         ELSE Undoes(table[k], new[k], p)

LEMMA ClosesLemma ==
    ASSUME NEW K, NEW R, NEW table \in [K -> Cells(R)], NEW p \in Clients,
           NEW new, NEW published \in BOOLEAN,
           new = IF published THEN Committed(table, p) ELSE RolledBack(table, p),
           Closed(table)
    PROVE  new \in [K -> Cells(R)] /\ Closes(table, new, p, published) /\ Closed(new)
<1>1. new \in [K -> Cells(R)] /\ Closes(table, new, p, published)
  BY EndLemma DEF Closes, Publishes, Undoes
<1>2. \A k \in K : new[k].by = Nobody => new[k].live = new[k].com
  BY <1>1, CellLemma DEF Closes, Publishes, Undoes, Closed
<1> QED BY <1>1, <1>2 DEF Closed

\* A commit or a rollback.
LEMMA EndStep ==
    ASSUME IInv, NEW p \in Clients, Commit(p) \/ Rollback(p)
    PROVE  Sound'
<1>1. /\ categories \in [Categories -> Cells(CategoryRows)] /\ Closed(categories)
      /\ products \in [Products -> Cells(ProductRows)] /\ Closed(products)
      /\ variants \in [Variants -> Cells(VariantRows)] /\ Closed(variants)
      /\ images \in [Images -> Cells(ImageRows)] /\ Closed(images)
      /\ traded \subseteq Variants /\ traded' = traded
  BY DEF IInv, TypeOK, Commit, Rollback
<1>2. PICK published \in BOOLEAN :
        /\ Closes(categories, categories', p, published) /\ categories' \in [Categories -> Cells(CategoryRows)]
        /\ Closes(products, products', p, published) /\ products' \in [Products -> Cells(ProductRows)]
        /\ Closes(variants, variants', p, published) /\ variants' \in [Variants -> Cells(VariantRows)]
        /\ Closes(images, images', p, published) /\ images' \in [Images -> Cells(ImageRows)]
        /\ Closed(categories)' /\ Closed(products)' /\ Closed(variants)' /\ Closed(images)'
  <2>1. PICK published \in BOOLEAN :
          /\ categories' = IF published THEN Committed(categories, p) ELSE RolledBack(categories, p)
          /\ products' = IF published THEN Committed(products, p) ELSE RolledBack(products, p)
          /\ variants' = IF published THEN Committed(variants, p) ELSE RolledBack(variants, p)
          /\ images' = IF published THEN Committed(images, p) ELSE RolledBack(images, p)
    <3>1. CASE Commit(p)
      BY <3>1 DEF Commit
    <3>2. CASE Rollback(p)
      BY <3>2 DEF Rollback
    <3> QED BY <3>1, <3>2
  <2>2. /\ Closes(categories, categories', p, published) /\ categories' \in [Categories -> Cells(CategoryRows)]
        /\ Closed(categories')
    BY <1>1, <2>1, ClosesLemma
  <2>3. /\ Closes(products, products', p, published) /\ products' \in [Products -> Cells(ProductRows)]
        /\ Closed(products')
    BY <1>1, <2>1, ClosesLemma
  <2>4. /\ Closes(variants, variants', p, published) /\ variants' \in [Variants -> Cells(VariantRows)]
        /\ Closed(variants')
    BY <1>1, <2>1, ClosesLemma
  <2>5. /\ Closes(images, images', p, published) /\ images' \in [Images -> Cells(ImageRows)]
        /\ Closed(images')
    BY <1>1, <2>1, ClosesLemma
  <2> QED BY <2>2, <2>3, <2>4, <2>5 DEF Closed
<1>3. TypeOK'
  BY <1>1, <1>2 DEF TypeOK
<1>4. ProductsBacked'
  <2>1. \A q \in Products : products[q].by = Nobody => products[q].live = products[q].com
    BY DEF IInv, TypeOK, Closed
  <2>2. \A k \in Categories : categories[k].by = Nobody => categories[k].live = categories[k].com
    BY DEF IInv, TypeOK, Closed
  <2> SUFFICES ASSUME NEW q \in Products, NEW k \in Categories
               PROVE  Backed(k, products'[q].com.category, products'[q].live.category, products'[q].by, categories'[k])
    BY DEF ProductsBacked
  <2> DEFINE a == products[q].com.category
             b == products[q].live.category
  <2>3. Backed(k, a, b, products[q].by, categories[k])
    BY DEF IInv, ProductsBacked
  <2>4. /\ products[q].by = Nobody => a = b
        /\ categories[k].by = Nobody => categories[k].live = categories[k].com
    BY <2>1, <2>2
  <2>5. \/ Publishes(products[q], products'[q], p) /\ Publishes(categories[k], categories'[k], p)
        \/ Undoes(products[q], products'[q], p) /\ Undoes(categories[k], categories'[k], p)
    <3>1. /\ Closes(products, products', p, published) /\ q \in DOMAIN products
          /\ Closes(categories, categories', p, published) /\ k \in DOMAIN categories
      BY <1>1, <1>2
    <3> QED BY <3>1 DEF Closes
  <2>6. products'[q].by = IF products[q].by = p THEN Nobody ELSE products[q].by
    <3>1. products[q].by = p => products'[q].by = Nobody
      BY <2>5, CellLemma DEF Publishes, Undoes
    <3> QED BY <2>5, <3>1 DEF Publishes, Undoes
  <2>7. ASSUME Publishes(products[q], products'[q], p), Publishes(categories[k], categories'[k], p)
        PROVE  Backed(k, products'[q].com.category, products'[q].live.category, products'[q].by, categories'[k])
    <3>1. /\ products'[q].com.category = IF products[q].by = p THEN b ELSE a
          /\ products'[q].live.category = b
      BY <2>7, CellLemma DEF Publishes
    <3>2. Backed(k, IF products[q].by = p THEN b ELSE a, b, products'[q].by, categories'[k])
      BY <2>3, <2>4, <2>6, <2>7, CommitBacked
    <3> QED BY <3>1, <3>2
  <2>8. ASSUME Undoes(products[q], products'[q], p), Undoes(categories[k], categories'[k], p)
        PROVE  Backed(k, products'[q].com.category, products'[q].live.category, products'[q].by, categories'[k])
    <3>1. /\ products'[q].com.category = a
          /\ products'[q].live.category = IF products[q].by = p THEN a ELSE b
      BY <2>8, CellLemma DEF Undoes
    <3>2. Backed(k, a, IF products[q].by = p THEN a ELSE b, products'[q].by, categories'[k])
      BY <2>3, <2>4, <2>6, <2>8, RollbackBacked
    <3> QED BY <3>1, <3>2
  <2> HIDE DEF a, b
  <2> QED BY <2>5, <2>7, <2>8
<1>5. VariantsBacked'
  <2>1. \A x \in Variants : variants[x].by = Nobody => variants[x].live = variants[x].com
    BY DEF IInv, TypeOK, Closed
  <2>2. \A q \in Products : products[q].by = Nobody => products[q].live = products[q].com
    BY DEF IInv, TypeOK, Closed
  <2> SUFFICES ASSUME NEW x \in Variants, NEW q \in Products
               PROVE  Backed(q, variants'[x].com.product, variants'[x].live.product, variants'[x].by, products'[q])
    BY DEF VariantsBacked
  <2> DEFINE a == variants[x].com.product
             b == variants[x].live.product
  <2>3. Backed(q, a, b, variants[x].by, products[q])
    BY DEF IInv, VariantsBacked
  <2>4. /\ variants[x].by = Nobody => a = b
        /\ products[q].by = Nobody => products[q].live = products[q].com
    BY <2>1, <2>2
  <2>5. \/ Publishes(variants[x], variants'[x], p) /\ Publishes(products[q], products'[q], p)
        \/ Undoes(variants[x], variants'[x], p) /\ Undoes(products[q], products'[q], p)
    <3>1. /\ Closes(variants, variants', p, published) /\ x \in DOMAIN variants
          /\ Closes(products, products', p, published) /\ q \in DOMAIN products
      BY <1>1, <1>2
    <3> QED BY <3>1 DEF Closes
  <2>6. variants'[x].by = IF variants[x].by = p THEN Nobody ELSE variants[x].by
    <3>1. variants[x].by = p => variants'[x].by = Nobody
      BY <2>5, CellLemma DEF Publishes, Undoes
    <3> QED BY <2>5, <3>1 DEF Publishes, Undoes
  <2>7. ASSUME Publishes(variants[x], variants'[x], p), Publishes(products[q], products'[q], p)
        PROVE  Backed(q, variants'[x].com.product, variants'[x].live.product, variants'[x].by, products'[q])
    <3>1. /\ variants'[x].com.product = IF variants[x].by = p THEN b ELSE a
          /\ variants'[x].live.product = b
      BY <2>7, CellLemma DEF Publishes
    <3>2. Backed(q, IF variants[x].by = p THEN b ELSE a, b, variants'[x].by, products'[q])
      BY <2>3, <2>4, <2>6, <2>7, CommitBacked
    <3> QED BY <3>1, <3>2
  <2>8. ASSUME Undoes(variants[x], variants'[x], p), Undoes(products[q], products'[q], p)
        PROVE  Backed(q, variants'[x].com.product, variants'[x].live.product, variants'[x].by, products'[q])
    <3>1. /\ variants'[x].com.product = a
          /\ variants'[x].live.product = IF variants[x].by = p THEN a ELSE b
      BY <2>8, CellLemma DEF Undoes
    <3>2. Backed(q, a, IF variants[x].by = p THEN a ELSE b, variants'[x].by, products'[q])
      BY <2>3, <2>4, <2>6, <2>8, RollbackBacked
    <3> QED BY <3>1, <3>2
  <2> HIDE DEF a, b
  <2> QED BY <2>5, <2>7, <2>8
<1>6. ImagesBacked'
  <2>1. \A g \in Images : images[g].by = Nobody => images[g].live = images[g].com
    BY DEF IInv, TypeOK, Closed
  <2>2. \A q \in Products : products[q].by = Nobody => products[q].live = products[q].com
    BY DEF IInv, TypeOK, Closed
  <2> SUFFICES ASSUME NEW g \in Images, NEW q \in Products
               PROVE  Backed(q, images'[g].com.product, images'[g].live.product, images'[g].by, products'[q])
    BY DEF ImagesBacked
  <2> DEFINE a == images[g].com.product
             b == images[g].live.product
  <2>3. Backed(q, a, b, images[g].by, products[q])
    BY DEF IInv, ImagesBacked
  <2>4. /\ images[g].by = Nobody => a = b
        /\ products[q].by = Nobody => products[q].live = products[q].com
    BY <2>1, <2>2
  <2>5. \/ Publishes(images[g], images'[g], p) /\ Publishes(products[q], products'[q], p)
        \/ Undoes(images[g], images'[g], p) /\ Undoes(products[q], products'[q], p)
    <3>1. /\ Closes(images, images', p, published) /\ g \in DOMAIN images
          /\ Closes(products, products', p, published) /\ q \in DOMAIN products
      BY <1>1, <1>2
    <3> QED BY <3>1 DEF Closes
  <2>6. images'[g].by = IF images[g].by = p THEN Nobody ELSE images[g].by
    <3>1. images[g].by = p => images'[g].by = Nobody
      BY <2>5, CellLemma DEF Publishes, Undoes
    <3> QED BY <2>5, <3>1 DEF Publishes, Undoes
  <2>7. ASSUME Publishes(images[g], images'[g], p), Publishes(products[q], products'[q], p)
        PROVE  Backed(q, images'[g].com.product, images'[g].live.product, images'[g].by, products'[q])
    <3>1. /\ images'[g].com.product = IF images[g].by = p THEN b ELSE a
          /\ images'[g].live.product = b
      BY <2>7, CellLemma DEF Publishes
    <3>2. Backed(q, IF images[g].by = p THEN b ELSE a, b, images'[g].by, products'[q])
      BY <2>3, <2>4, <2>6, <2>7, CommitBacked
    <3> QED BY <3>1, <3>2
  <2>8. ASSUME Undoes(images[g], images'[g], p), Undoes(products[q], products'[q], p)
        PROVE  Backed(q, images'[g].com.product, images'[g].live.product, images'[g].by, products'[q])
    <3>1. /\ images'[g].com.product = a
          /\ images'[g].live.product = IF images[g].by = p THEN a ELSE b
      BY <2>8, CellLemma DEF Undoes
    <3>2. Backed(q, a, IF images[g].by = p THEN a ELSE b, images'[g].by, products'[q])
      BY <2>3, <2>4, <2>6, <2>8, RollbackBacked
    <3> QED BY <3>1, <3>2
  <2> HIDE DEF a, b
  <2> QED BY <2>5, <2>7, <2>8
<1>7. TradedStay'
  <2>1. \A x \in Variants : /\ variants'[x].com \in {variants[x].com, variants[x].live}
                            /\ variants'[x].live \in {variants[x].com, variants[x].live}
    BY <1>1, <1>2, CellLemma DEF Closes, Publishes, Undoes
  <2> QED BY <1>1, <2>1 DEF IInv, TradedStay
<1>8. SkusApart'
  <2> SUFFICES ASSUME NEW x \in Variants, NEW y \in Variants, x # y
               PROVE  CellsApart(variants'[x], variants'[y])
    BY DEF SkusApart, CellsApart
  <2>1. CellsApart(variants[x], variants[y])
    BY ApartLemma DEF IInv
  <2>2. \/ Publishes(variants[x], variants'[x], p) /\ Publishes(variants[y], variants'[y], p)
        \/ Undoes(variants[x], variants'[x], p) /\ Undoes(variants[y], variants'[y], p)
    BY <1>1, <1>2 DEF Closes
  <2>3. /\ variants[x].by = Nobody => variants[x].live = variants[x].com
        /\ variants[y].by = Nobody => variants[y].live = variants[y].com
    BY <1>1 DEF Closed
  <2> QED BY <2>1, <2>2, <2>3, EndApart
<1> QED BY <1>2, <1>3, <1>4, <1>5, <1>6, <1>7, <1>8 DEF Sound

-----------------------------------------------------------------------------
\* The clients.

\* Only p moves, to a label where its request can be.
Moves(p) == \E c \in Clerks :
    /\ client' = [client EXCEPT ![p] = c]
    /\ c.pc = "product" => c.req.op = "NEW_PRODUCT"
    /\ c.pc = "insert"  => c.req.op \in {"NEW_PRODUCT", "NEW_VARIANT", "ADD_IMAGES"}
    /\ c.pc = "retire"  => c.req.op = "DROP_PRODUCT"
    /\ c.pc \in {"demote", "demoting"} => OnImages(c.req)
    /\ c.pc = "promote" => c.req.op = "SET_PRIMARY"

LEMMA MovesLemma ==
    ASSUME IInv, NEW p \in Clients, Moves(p)
    PROVE  client' \in [Clients -> Clerks] /\ \A q \in Clients : Placed(q)'
<1>1. client \in [Clients -> Clerks]
  BY DEF IInv
<1>2. client' \in [Clients -> Clerks]
  BY <1>1 DEF Moves
<1>3. \A q \in Clients : q # p => client'[q] = client[q]
  BY <1>1 DEF Moves
<1>4. ASSUME NEW q \in Clients, q # p
      PROVE  Placed(q)'
  BY <1>3, <1>4 DEF IInv, Placed, At, Is, Req
<1>5. Placed(p)'
  BY <1>1 DEF Moves, Placed, At, Is, Req
<1> QED BY <1>2, <1>4, <1>5

\* A statement that goes on to a label.
LEMMA GotoLemma ==
    ASSUME IInv, NEW p \in Clients, NEW label \in Labels,
           label = "product" => Is(p, "NEW_PRODUCT"),
           label = "insert" => Req(p).op \in {"NEW_PRODUCT", "NEW_VARIANT", "ADD_IMAGES"},
           label = "retire" => Is(p, "DROP_PRODUCT"),
           label \in {"demote", "demoting"} => OnImages(Req(p)),
           label = "promote" => Is(p, "SET_PRIMARY"),
           \/ Goto(p, label)
           \/ \E S \in SUBSET (Variants \cup Images) : Find(p, S, label)
    PROVE  Moves(p)
<1>1. client \in [Clients -> Clerks] /\ client[p] \in Clerks
  BY DEF IInv
<1>2. CASE Goto(p, label)
  <2> DEFINE c == [client[p] EXCEPT !.pc = label]
  <2>1. c \in Clerks /\ c.pc = label /\ c.req = client[p].req
    BY <1>1 DEF Clerks
  <2>2. client' = [client EXCEPT ![p] = c]
    BY <1>1, <1>2 DEF Goto
  <2> HIDE DEF c
  <2> QED BY <2>1, <2>2 DEF Moves, Is, Req
<1>3. ASSUME NEW S \in SUBSET (Variants \cup Images), Find(p, S, label)
      PROVE  Moves(p)
  <2> DEFINE c == [client[p] EXCEPT !.seen = S, !.pc = label]
  <2>1. c \in Clerks /\ c.pc = label /\ c.req = client[p].req
    BY <1>1 DEF Clerks
  <2>2. client' = [client EXCEPT ![p] = c]
    BY <1>1, <1>3 DEF Find
  <2> HIDE DEF c
  <2> QED BY <2>1, <2>2 DEF Moves, Is, Req
<1> QED BY <1>2, <1>3

\* Every statement moves its client to such a label.
LEMMA StatementMoves ==
    ASSUME IInv, NEW p \in Clients, Statement(p)
    PROVE  Moves(p)
<1>1. \A S : S = VariantsOf(Req(p).id, p) => S \in SUBSET (Variants \cup Images)
  BY DEF VariantsOf
<1>2. \A q : ImagesOf(q, p) \in SUBSET (Variants \cup Images)
  BY DEF ImagesOf
<1>3. CASE \/ InsertCategory(p) \/ WriteCategory(p) \/ DeleteCategory(p) \/ WriteProduct(p) \/ DeleteProduct(p)
           \/ RetireVariants(p) \/ InsertImages(p) \/ Promote(p) \/ DeleteImage(p)
           \/ WriteVariant(p) \/ DeleteVariant(p)
  <2>1. Goto(p, "commit")
    BY <1>3 DEF InsertCategory, WriteCategory, DeleteCategory, WriteProduct, DeleteProduct, RetireVariants,
         InsertImages, Promote, DeleteImage, WriteVariant, DeleteVariant
  <2> QED BY <2>1, GotoLemma DEF Labels
<1>4. CASE CountProducts(p) \/ CountLines(p) \/ FindVariant(p)
  <2>1. Goto(p, "write")
    BY <1>4 DEF CountProducts, CountLines, FindVariant
  <2> QED BY <2>1, GotoLemma DEF Labels
<1>5. CASE InsertProduct(p)
  <2>1. Goto(p, "commit") \/ Goto(p, "clash")
    BY <1>5 DEF InsertProduct
  <2> QED BY <2>1, GotoLemma DEF Labels
<1>6. CASE FindProduct(p)
  <2>1. PICK label \in {"retire", "count"} :
          Is(p, "DROP_PRODUCT") /\ Find(p, VariantsOf(Req(p).id, p), label)
    BY <1>6 DEF FindProduct
  <2> QED BY <1>1, <2>1, GotoLemma DEF Labels
<1>7. CASE RetireProduct(p)
  <2>1. Goto(p, "variants")
    BY <1>7 DEF RetireProduct
  <2> QED BY <2>1, GotoLemma DEF Labels
<1>8. CASE FindImages(p)
  <2>1. \/ Is(p, "ADD_IMAGES") /\ (Goto(p, "demote") \/ Goto(p, "insert"))
        \/ Is(p, "SET_PRIMARY") /\ Goto(p, "demote")
        \/ Goto(p, "write")
    BY <1>8 DEF FindImages
  <2>2. CASE Is(p, "ADD_IMAGES") /\ Goto(p, "demote")
    BY <2>2, GotoLemma DEF Labels, OnImages, Is, Req
  <2>3. CASE Is(p, "ADD_IMAGES") /\ Goto(p, "insert")
    BY <2>3, GotoLemma DEF Labels, Is, Req
  <2>4. CASE Is(p, "SET_PRIMARY") /\ Goto(p, "demote")
    BY <2>4, GotoLemma DEF Labels, OnImages, Is, Req
  <2>5. CASE Goto(p, "write")
    BY <2>5, GotoLemma DEF Labels
  <2> QED BY <2>1, <2>2, <2>3, <2>4, <2>5
<1>9. CASE BeginDemotion(p)
  <2>1. PICK q : Find(p, ImagesOf(q, p), "demoting")
    BY <1>9 DEF BeginDemotion
  <2>2. OnImages(Req(p))
    BY <1>9 DEF BeginDemotion, IInv, Placed
  <2> QED BY <1>2, <2>1, <2>2, GotoLemma DEF Labels
<1>10. CASE Demote(p)
  <2>1. OnImages(Req(p))
    BY <1>10 DEF Demote, IInv, Placed
  <2>2. \/ Is(p, "ADD_IMAGES") /\ Goto(p, "insert")
        \/ Is(p, "SET_PRIMARY") /\ Goto(p, "promote")
    BY <1>10, <2>1 DEF Demote, OnImages, Is, Req
  <2>3. CASE Is(p, "ADD_IMAGES") /\ Goto(p, "insert")
    BY <2>3, GotoLemma DEF Labels, Is, Req
  <2>4. CASE Is(p, "SET_PRIMARY") /\ Goto(p, "promote")
    BY <2>4, GotoLemma DEF Labels
  <2> QED BY <2>2, <2>3, <2>4
<1>11. CASE CheckClash(p)
  <2>1. \/ Goto(p, "write")
        \/ (Is(p, "NEW_PRODUCT") \/ Is(p, "NEW_VARIANT")) /\ Goto(p, "insert")
    BY <1>11 DEF CheckClash, Is
  <2>2. CASE Goto(p, "write")
    BY <2>2, GotoLemma DEF Labels
  <2>3. CASE (Is(p, "NEW_PRODUCT") \/ Is(p, "NEW_VARIANT")) /\ Goto(p, "insert")
    BY <2>3, GotoLemma DEF Labels, Is, Req
  <2> QED BY <2>1, <2>2, <2>3
<1>12. ASSUME NEW s \in Skus, InsertVariant(p, s)
       PROVE  Moves(p)
  <2> DEFINE label == IF client[p].todo = {s} THEN "commit" ELSE "clash"
             c == [client[p] EXCEPT !.todo = @ \ {s}, !.pc = label]
  <2>1. client \in [Clients -> Clerks] /\ client[p] \in Clerks
    BY DEF IInv
  <2>2. label \in {"commit", "clash"} /\ label \in Labels
    BY DEF Labels
  <2> HIDE DEF label
  <2>3. c \in Clerks /\ c.pc = label
    BY <2>1, <2>2 DEF Clerks
  <2>4. client' = [client EXCEPT ![p] = c]
    BY <1>12, <2>1 DEF InsertVariant, label
  <2> HIDE DEF c
  <2> QED BY <2>2, <2>3, <2>4 DEF Moves
<1>13. CASE BeginRetirement(p)
  <2>1. Find(p, VariantsOf(Req(p).id, p), "retiring")
    BY <1>13 DEF BeginRetirement
  <2> QED BY <1>1, <2>1, GotoLemma DEF Labels
<1> QED BY <1>3, <1>4, <1>5, <1>6, <1>7, <1>8, <1>9, <1>10, <1>11, <1>12, <1>13 DEF Statement

\* So do the beginning and the end of a request.
LEMMA BeginEndMoves ==
    ASSUME IInv, NEW p \in Clients,
           (\E req \in Requests : Begin(p, req)) \/ Commit(p) \/ Rollback(p)
    PROVE  Moves(p)
<1>1. Idle \in Clerks /\ Idle.pc = "idle"
  BY DEF Idle, Clerks, Labels
<1>2. CASE Commit(p) \/ Rollback(p)
  BY <1>1, <1>2 DEF Commit, Rollback, Moves
<1>3. ASSUME NEW req \in Requests, Begin(p, req)
      PROVE  Moves(p)
  <2> DEFINE c == [Idle EXCEPT !.pc = FirstStep(req.op), !.req = req, !.todo = req.skus]
  <2>1. FirstStep(req.op) \in {"write", "product", "clash", "find"}
    BY DEF FirstStep
  <2>2. FirstStep(req.op) = "product" => req.op = "NEW_PRODUCT"
    BY DEF FirstStep
  <2>3. req.skus \in SUBSET Skus
    <3>1. req.skus = {} \/ req.skus \in SUBSET Skus \/ \E s \in Skus : req.skus = {s}
      BY DEF Requests
    <3> QED BY <3>1
  <2>4. FirstStep(req.op) \in Labels
    BY <2>1 DEF Labels
  <2>5. c \in Clerks /\ c.pc = FirstStep(req.op) /\ c.req = req
    BY <1>1, <2>3, <2>4 DEF Clerks
  <2>6. client' = [client EXCEPT ![p] = c]
    BY <1>3 DEF Begin
  <2> HIDE DEF c
  <2> QED BY <2>1, <2>2, <2>5, <2>6 DEF Moves
<1> QED BY <1>2, <1>3

-----------------------------------------------------------------------------
\* Every step.

\* Statements that only look, and everything outside the tables.
LEMMA SoundUnchanged ==
    ASSUME IInv, UNCHANGED <<tables, traded>>
    PROVE  Sound'
BY DEF IInv, tables, Sound, TypeOK, Closed, ProductsBacked, VariantsBacked, ImagesBacked,
       TradedStay, SkusApart

\* A line of an order or a purchase that is committed.
LEMMA TradeStep ==
    ASSUME IInv, NEW x \in Variants, TradeVariant(x)
    PROVE  Sound'
<1>1. /\ UNCHANGED tables /\ traded' = traded \cup {x}
      /\ variants[x].com.product \in Products /\ variants[x].live.product \in Products
  BY DEF TradeVariant
<1>2. TradedStay' /\ TypeOK'
  BY <1>1 DEF IInv, tables, TradedStay, TypeOK
<1>3. /\ Closed(categories)' /\ Closed(products)' /\ Closed(variants)' /\ Closed(images)'
      /\ ProductsBacked' /\ VariantsBacked' /\ ImagesBacked' /\ SkusApart'
  BY <1>1 DEF IInv, tables, Closed, ProductsBacked, VariantsBacked, ImagesBacked, SkusApart
<1> QED BY <1>2, <1>3 DEF Sound

LEMMA StatementStep ==
    ASSUME IInv, NEW p \in Clients, Statement(p)
    PROVE  Sound'
<1>1. UNCHANGED traded
  BY DEF Statement
<1>2. CASE \/ CountProducts(p) \/ FindProduct(p) \/ CountLines(p) \/ FindImages(p)
           \/ BeginRetirement(p) \/ BeginDemotion(p) \/ CheckClash(p) \/ FindVariant(p)
  <2>1. UNCHANGED tables
    BY <1>2 DEF CountProducts, FindProduct, CountLines, BeginRetirement, FindImages, BeginDemotion, CheckClash, FindVariant
  <2> QED BY <1>1, <2>1, SoundUnchanged
<1> QED BY <1>1, <1>2, CategoryStep, ProductStep, InsertProductStep, DeleteProductStep, RetireStep,
           OneVariantSteps, OneImageSteps, DemoteStep, InsertImagesStep DEF Statement

\* IInv is inductive.
LEMMA StepIInv ==
    ASSUME IInv, [Next]_vars
    PROVE  IInv'
<1>1. CASE UNCHANGED vars
  <2>1. Sound'
    BY <1>1, SoundUnchanged DEF vars
  <2>2. client' \in [Clients -> Clerks] /\ \A p \in Clients : Placed(p)'
    BY <1>1 DEF vars, IInv, Placed, At, Is, Req
  <2> QED BY <2>1, <2>2 DEF Sound, IInv
<1>2. ASSUME NEW p \in Clients,
             (\E req \in Requests : Begin(p, req)) \/ Statement(p) \/ Commit(p) \/ Rollback(p)
      PROVE  IInv'
  <2>1. Sound'
    <3>1. CASE \E req \in Requests : Begin(p, req)
      BY <3>1, SoundUnchanged DEF Begin
    <3> QED BY <1>2, <3>1, StatementStep, EndStep
  <2>2. Moves(p)
    BY <1>2, StatementMoves, BeginEndMoves
  <2> QED BY <2>1, <2>2, MovesLemma DEF Sound, IInv
<1>3. ASSUME NEW x \in Variants, TradeVariant(x)
      PROVE  IInv'
  <2>1. Sound'
    BY <1>3, TradeStep
  <2>2. client' \in [Clients -> Clerks] /\ \A p \in Clients : Placed(p)'
    BY <1>3 DEF TradeVariant, IInv, Placed, At, Is, Req
  <2> QED BY <2>1, <2>2 DEF Sound, IInv
<1> QED BY <1>1, <1>2, <1>3 DEF Next

LEMMA InitIInv == Init => IInv
<1> SUFFICES ASSUME Init
             PROVE  IInv
  OBVIOUS
<1>1. PICK k \in Categories, q \in Products, x \in Variants, g \in Images, s \in Skus :
        /\ categories = [c \in Categories |-> Cell([status |-> IF c = k THEN "active" ELSE "none"])]
        /\ products = [r \in Products |-> Cell(IF r = q THEN [status |-> "active", category |-> k]
                                                        ELSE NoProduct)]
        /\ variants = [y \in Variants |-> Cell(IF y = x
                THEN [product |-> q, sku |-> s, active |-> TRUE] ELSE NoVariant)]
        /\ images = [h \in Images |-> Cell(IF h = g THEN [product |-> q, primary |-> TRUE]
                                                    ELSE NoImage)]
        /\ traded = {}
        /\ client = [p \in Clients |-> Idle]
        /\ made = 0
        /\ crossed = FALSE
  BY Zenon DEF Init
<1> DEFINE Category(c) == [status |-> IF c = k THEN "active" ELSE "none"]
           Product(r)  == IF r = q THEN [status |-> "active", category |-> k] ELSE NoProduct
           Variant(y)  == IF y = x THEN [product |-> q, sku |-> s, active |-> TRUE] ELSE NoVariant
           Image(h)    == IF h = g THEN [product |-> q, primary |-> TRUE] ELSE NoImage
<1>2. /\ \A c \in Categories : Category(c) \in CategoryRows
      /\ \A r \in Products : Product(r) \in ProductRows
      /\ \A y \in Variants : Variant(y) \in VariantRows
      /\ \A h \in Images : Image(h) \in ImageRows
  BY DEF CategoryRows, ProductRows, VariantRows, ImageRows, NoProduct, NoVariant, NoImage, Absent
<1>3. \A R : \A row \in R : Cell(row) \in Cells(R)
  BY DEF Cell, Cells
<1>4. TypeOK
  BY <1>1, <1>2, <1>3 DEF TypeOK
<1>5. /\ \A c \in Categories : categories[c] = Cell(Category(c))
      /\ \A r \in Products : products[r] = Cell(Product(r))
      /\ \A y \in Variants : variants[y] = Cell(Variant(y))
      /\ \A h \in Images : images[h] = Cell(Image(h))
  BY <1>1
<1>6. Category(k).status = "active" /\ Product(q).status = "active"
  OBVIOUS
<1>7. /\ \A r \in Products : \A c \in Categories : Product(r).category = c => c = k
      /\ \A r \in Products : Product(r).status \notin Absent => Product(r).category = k
      /\ \A y \in Variants : \A r \in Products : Variant(y).product = r => r = q
      /\ \A h \in Images : \A r \in Products : Image(h).product = r => r = q
      /\ \A y, z \in Variants : y # z => Apart(Variant(y).sku, Variant(z).sku)
  BY CatalogueAssumption DEF NoProduct, NoVariant, NoImage, Absent, Apart
<1> HIDE DEF Category, Product, Variant, Image
<1>8. Closed(categories) /\ Closed(products) /\ Closed(variants) /\ Closed(images)
  BY <1>4, <1>5, CellLemma DEF TypeOK, Closed
<1>9. ProductsBacked /\ VariantsBacked /\ ImagesBacked
  <2>1. ASSUME NEW r \in Products, NEW a, NEW by, a = r => r = q
        PROVE  Backed(r, a, a, by, products[r])
    BY <1>5, <1>6, <2>1, CellLemma DEF Backed, Absent
  <2>2. ASSUME NEW c \in Categories, NEW a, NEW by, a = c => c = k
        PROVE  Backed(c, a, a, by, categories[c])
    BY <1>5, <1>6, <2>2, CellLemma DEF Backed, Absent
  <2>3. /\ \A r \in Products : products[r].com = Product(r) /\ products[r].live = Product(r)
        /\ \A y \in Variants : variants[y].com = Variant(y) /\ variants[y].live = Variant(y)
        /\ \A h \in Images : images[h].com = Image(h) /\ images[h].live = Image(h)
    BY <1>5, CellLemma
  <2>4. ProductsBacked
    BY <1>7, <2>2, <2>3 DEF ProductsBacked
  <2>5. VariantsBacked
    BY <1>7, <2>1, <2>3 DEF VariantsBacked
  <2>6. ImagesBacked
    BY <1>7, <2>1, <2>3 DEF ImagesBacked
  <2> QED BY <2>4, <2>5, <2>6
<1>10. TradedStay /\ SkusApart
  BY <1>1, <1>5, <1>7, CellLemma DEF TradedStay, SkusApart
<1>11. client \in [Clients -> Clerks] /\ \A p \in Clients : Placed(p)
  BY <1>1 DEF Idle, Blank, Clerks, Labels, Placed, At, Is, Req
<1> QED BY <1>4, <1>8, <1>9, <1>10, <1>11 DEF IInv

\* The invariant that the two theorems below rest on holds in every state.
THEOREM Invariant == Spec => []IInv
<1>1. Init => IInv
  BY InitIInv
<1>2. IInv /\ [Next]_vars => IInv'
  BY StepIInv
<1> QED BY <1>1, <1>2, PTL DEF Spec

\* Whatever administrators delete while others write, what has been ordered
\* or purchased is still there, and every row has the row it belongs to.
THEOREM HistoryIsKept == Spec => []HistoryKept
<1>1. IInv => HistoryKept
  <2> SUFFICES ASSUME IInv
               PROVE  HistoryKept
    OBVIOUS
  <2>1. /\ variants \in [Variants -> Cells(VariantRows)] /\ images \in [Images -> Cells(ImageRows)]
        /\ products \in [Products -> Cells(ProductRows)] /\ categories \in [Categories -> Cells(CategoryRows)]
    BY DEF IInv, TypeOK
  <2>2. /\ \A x \in Variants : variants[x].com.product \in Products \cup Absent
        /\ \A g \in Images : images[g].com.product \in Products \cup Absent
    BY <2>1 DEF Cells, VariantRows, ImageRows
  <2>3. \A x \in traded : variants[x].com.product \in Products
    BY DEF IInv, TradedStay
  <2>4. \A x \in Variants : variants[x].com.product \in Rows(products) \cup Absent
    BY <2>1, <2>2 DEF IInv, VariantsBacked, Backed, Rows
  <2>5. \A g \in Images : images[g].com.product \in Rows(products) \cup Absent
    BY <2>1, <2>2 DEF IInv, ImagesBacked, Backed, Rows
  <2>6. \A q \in Products : products[q].com.category \in Categories \cup {"none"}
    BY <2>1 DEF Cells, ProductRows
  <2>7. \A q \in Rows(products) : products[q].com.category \in Rows(categories) \cup {"none"}
    BY <2>1, <2>6 DEF IInv, ProductsBacked, Backed, Rows
  <2> QED BY <2>3, <2>4, <2>5, <2>7 DEF HistoryKept
<1> QED BY <1>1, Invariant, PTL

\* Two administrators who both found a SKU free do not both get it.
THEOREM SkusAlwaysDiffer == Spec => []SkusDiffer
<1>1. IInv => SkusDiffer
  BY DEF IInv, SkusApart, SkusDiffer, Apart
<1> QED BY <1>1, Invariant, PTL


-----------------------------------------------------------------------------
\* What a product's creator has written so far.

Stages == {"clash", "insert", "commit"}

\* p has inserted its product, and its images, and has yet to commit.
Creating(p) == Is(p, "NEW_PRODUCT") /\ client[p].pc \in Stages

\* A product that nobody has committed yet is its creator's alone.
CreatorsHold ==
    /\ \A p \in Clients : Is(p, "NEW_PRODUCT") => At(p, "product") \/ Creating(p)
    /\ \A p \in Clients : Creating(p) =>
          products[Req(p).id].by = p /\ products[Req(p).id].com.status = "none"
    /\ \A q \in Products : products[q].by # Nobody =>
          /\ products[q].live.status # "none"
          /\ products[q].com.status = "none" => Creating(products[q].by) /\ Req(products[q].by).id = q

\* p has inserted the variant with the SKU s.
HasInserted(p, s) ==
    \E x \in Variants : /\ variants[x].by = p /\ variants[x].live.sku = s
                        /\ variants[x].live.product = Req(p).id

\* Of the SKUs a product was asked for, those not to do are there.
VariantsFollow ==
    \A p \in Clients : Is(p, "NEW_PRODUCT") =>
        /\ At(p, "product") => client[p].todo = Req(p).skus
        /\ At(p, "commit") => client[p].todo = {}
        /\ Creating(p) => \A s \in Req(p).skus \ client[p].todo : HasInserted(p, s)

WInv == IInv /\ CreatorsHold /\ VariantsFollow

-----------------------------------------------------------------------------
\* What a request on images has written so far.

\* p has inserted images of the product q.
Inserting(p, q) ==
    \/ Creating(p) /\ Req(p).id = q
    \/ Is(p, "ADD_IMAGES") /\ At(p, "commit") /\ Req(p).parent = q

\* An image changes hands once, when it is inserted; only an image of a
\* product is primary, and only some requests make one so.
ImagesAreKnown ==
    \A g \in Images :
        LET c == images[g]
        IN  /\ c.by # Nobody => c.live.product # "none"
            /\ c.live.product \in Products /\ c.live.product # c.com.product =>
                  c.com.product = "none" /\ Inserting(c.by, c.live.product)
            /\ c.com.primary => c.com.product \in Products
            /\ c.live.primary => c.live.product \in Products
            /\ c.by # Nobody /\ c.live.primary =>
                  OnImages(Req(c.by)) \/ (Creating(c.by) /\ Req(c.by).id = c.live.product)

\* A request looks before it writes.
LooksFirst ==
    \A p \in Clients : client[p].pc \in {"idle", "find", "demote", "demoting"} =>
        \A g \in Images : images[g].by # p

\* The product whose images a request is about.
Target(p) == IF Is(p, "ADD_IMAGES") THEN Req(p).parent ELSE images[Req(p).id].com.product

\* p has looked for its target, and has yet to insert or promote.
Aiming(p) == OnImages(Req(p)) /\ client[p].pc \in {"demote", "demoting", "insert", "promote"}

\* What it found had been committed.
TargetsAreKnown ==
    \A p \in Clients : Aiming(p) =>
        /\ Target(p) # "none"
        /\ Target(p) \in Products => products[Target(p)].com.status # "none"

\* Images are added while no other request on images is under way.
AddsAlone ==
    \A p, q \in Clients :
        p # q /\ ~At(p, "idle") /\ ~At(q, "idle") /\ Is(p, "ADD_IMAGES") => ~OnImages(Req(q))

\* The images to be demoted are all that are committed.
FindsAll ==
    \A p \in Clients : OnImages(Req(p)) /\ At(p, "demoting") /\ Target(p) \in Products =>
        \A g \in Images : images[g].com.product = Target(p) => g \in client[p].seen

WantsPrimary(p) ==
    Is(p, "SET_PRIMARY") \/ \E i \in DOMAIN Req(p).marks : Normalised(Req(p).marks)[i]

\* Whoever is about to insert or promote a primary image holds all the images
\* of the product, none of them primary.
DemotedAll ==
    \A p \in Clients : OnImages(Req(p)) /\ client[p].pc \in {"insert", "promote"} =>
        /\ \A g \in Images : images[g].by = p => ~images[g].live.primary
        /\ WantsPrimary(p) /\ Target(p) \in Products =>
              \A g \in Images : Target(p) \in {images[g].com.product, images[g].live.product}
                  => images[g].by = p

\* A primary image about to be committed is the only one its product has.
PendingIsSole ==
    \A g, h \in Images : LET c == images[g]  d == images[h] IN
        g # h /\ c.by # Nobody /\ c.live.primary /\ c.live.product \in {d.com.product, d.live.product}
            => d.by = c.by /\ ~d.live.primary

CommittedIsSole ==
    \A g, h \in Images :
        images[g].com.primary /\ images[h].com.primary
          /\ images[g].com.product = images[h].com.product => g = h

Gallery == AddsAlone /\ FindsAll /\ DemotedAll /\ PendingIsSole /\ CommittedIsSole

-----------------------------------------------------------------------------
\* What a statement does, whichever it is.

\* A client that is busy, and has yet to commit, goes on with its request.
LEMMA StatementFrame ==
    ASSUME IInv, NEW p \in Clients, Statement(p)
    PROVE  /\ client[p].pc \notin {"idle", "commit"}
           /\ client' \in [Clients -> Clerks]
           /\ \A o \in Clients : o # p => client'[o] = client[o]
           /\ client'[p].req = client[p].req
           /\ client'[p].pc \notin {"idle", "find", "product"}
           /\ UNCHANGED <<traded, made, crossed>>
<1>1. client \in [Clients -> Clerks] /\ client[p] \in Clerks
  BY DEF IInv
<1>2. client[p].pc \notin {"idle", "commit"}
  BY DEF Statement, InsertCategory, WriteCategory, CountProducts, DeleteCategory, InsertProduct, WriteProduct,
     FindProduct, CountLines, DeleteProduct, RetireProduct, RetireVariants, FindImages, BeginRetirement, BeginDemotion, Demote,
     InsertImages, Promote, DeleteImage, CheckClash, InsertVariant, WriteVariant, FindVariant, DeleteVariant, At
<1>3. \/ \E label \in Labels \ {"idle", "find", "product"} : Goto(p, label) \/ \E S : Find(p, S, label)
      \/ \E s \in Skus : InsertVariant(p, s)
  <2>1. CASE \/ InsertCategory(p) \/ WriteCategory(p) \/ DeleteCategory(p) \/ WriteProduct(p) \/ DeleteProduct(p)
             \/ RetireVariants(p) \/ InsertImages(p) \/ Promote(p) \/ DeleteImage(p)
             \/ WriteVariant(p) \/ DeleteVariant(p)
    <3>1. Goto(p, "commit")
      BY <2>1 DEF InsertCategory, WriteCategory, DeleteCategory, WriteProduct, DeleteProduct, RetireVariants,
           InsertImages, Promote, DeleteImage, WriteVariant, DeleteVariant
    <3> QED BY <3>1 DEF Labels
  <2>2. CASE CountProducts(p) \/ CountLines(p) \/ FindVariant(p)
    <3>1. Goto(p, "write")
      BY <2>2 DEF CountProducts, CountLines, FindVariant
    <3> QED BY <3>1 DEF Labels
  <2>3. CASE InsertProduct(p)
    <3>1. Goto(p, "commit") \/ Goto(p, "clash")
      BY <2>3 DEF InsertProduct
    <3> QED BY <3>1 DEF Labels
  <2>4. CASE FindProduct(p)
    <3>1. \E S : Find(p, S, "retire") \/ Find(p, S, "count")
      BY <2>4 DEF FindProduct
    <3> QED BY <3>1 DEF Labels
  <2>5. CASE RetireProduct(p)
    <3>1. Goto(p, "variants")
      BY <2>5 DEF RetireProduct
    <3> QED BY <3>1 DEF Labels
  <2>6. CASE FindImages(p)
    <3>1. Goto(p, "demote") \/ Goto(p, "insert") \/ Goto(p, "write")
      BY <2>6 DEF FindImages
    <3> QED BY <3>1 DEF Labels
  <2>7. CASE BeginDemotion(p)
    <3>1. \E S : Find(p, S, "demoting")
      BY <2>7 DEF BeginDemotion
    <3> QED BY <3>1 DEF Labels
  <2>8. CASE Demote(p)
    <3>1. Goto(p, "insert") \/ Goto(p, "promote")
      BY <2>8 DEF Demote
    <3> QED BY <3>1 DEF Labels
  <2>9. CASE CheckClash(p)
    <3>1. Goto(p, "insert") \/ Goto(p, "write")
      BY <2>9 DEF CheckClash
    <3> QED BY <3>1 DEF Labels
  <2>10. CASE BeginRetirement(p)
    <3>1. \E S : Find(p, S, "retiring")
      BY <2>10 DEF BeginRetirement
    <3> QED BY <3>1 DEF Labels
  <2> QED BY <2>1, <2>2, <2>3, <2>4, <2>5, <2>6, <2>7, <2>8, <2>9, <2>10 DEF Statement
<1>4. /\ \A o \in Clients : o # p => client'[o] = client[o]
      /\ client'[p].req = client[p].req
      /\ client'[p].pc \notin {"idle", "find", "product"}
  <2>1. ASSUME NEW label \in Labels \ {"idle", "find", "product"}, NEW S,
               Goto(p, label) \/ Find(p, S, label)
        PROVE  <1>4
    <3>1. \/ client' = [client EXCEPT ![p] = [client[p] EXCEPT !.pc = label]]
          \/ client' = [client EXCEPT ![p] = [client[p] EXCEPT !.seen = S, !.pc = label]]
      BY <1>1, <2>1 DEF Goto, Find
    <3> QED BY <1>1, <2>1, <3>1 DEF Clerks
  <2>2. ASSUME NEW s \in Skus, InsertVariant(p, s)
        PROVE  <1>4
    <3>1. client' = [client EXCEPT ![p] = [client[p] EXCEPT !.todo = @ \ {s},
                        !.pc = IF client[p].todo = {s} THEN "commit" ELSE "clash"]]
      BY <1>1, <2>2 DEF InsertVariant
    <3> QED BY <1>1, <3>1 DEF Clerks
  <2> QED BY <1>3, <2>1, <2>2
<1>5. Moves(p)
  BY StatementMoves
<1> QED BY <1>1, <1>2, <1>4, <1>5, MovesLemma DEF Statement

\* The row of a cell that is written.
LEMMA RowLemma ==
    ASSUME NEW R, NEW c \in Cells(R), NEW p \in Clients, NEW row
    PROVE  /\ Written(c, p, row).by = p /\ Written(c, p, row).com = c.com /\ Written(c, p, row).live = row
           /\ Free(c, p) => Wrote(c, Written(c, p, row), p)
BY DEF Cells, Written, Wrote

\* A product that is written is there, or is being inserted.
LEMMA ProductsWritten ==
    ASSUME IInv, NEW p \in Clients, Statement(p), NEW q \in Products
    PROVE  \/ products'[q] = products[q]
           \/ /\ Wrote(products[q], products'[q], p) /\ products'[q].live.status # "none"
              /\ products[q].live.status \notin Absent \/ (InsertProduct(p) /\ q = Req(p).id)
<1>1. products \in [Products -> Cells(ProductRows)] /\ products[q] \in Cells(ProductRows)
  BY DEF IInv, TypeOK
<1>2. UNCHANGED products \/ InsertProduct(p) \/ WriteProduct(p) \/ DeleteProduct(p) \/ RetireProduct(p)
  BY DEF Statement, InsertCategory, WriteCategory, CountProducts, DeleteCategory,
     FindProduct, CountLines, RetireVariants, FindImages, BeginRetirement, BeginDemotion, Demote, tables,
     InsertImages, Promote, DeleteImage, CheckClash, InsertVariant, WriteVariant, FindVariant, DeleteVariant
<1>3. ASSUME NEW row, row.status # "none",
             products' = [products EXCEPT ![Req(p).id] = Written(@, p, row)],
             InsertProduct(p) \/ SeenProduct(Req(p).id, p), Free(products[Req(p).id], p)
      PROVE  \/ products'[q] = products[q]
             \/ /\ Wrote(products[q], products'[q], p) /\ products'[q].live.status # "none"
                /\ products[q].live.status \notin Absent \/ (InsertProduct(p) /\ q = Req(p).id)
  <2>1. CASE q # Req(p).id
    BY <1>1, <1>3, <2>1
  <2>2. CASE q = Req(p).id
    <3>1. products'[q] = Written(products[q], p, row)
      BY <1>1, <1>3, <2>2
    <3>2. Wrote(products[q], products'[q], p) /\ products'[q].live = row
      BY <1>1, <1>3, <2>2, <3>1, RowLemma
    <3>3. SeenProduct(q, p) => products[q].live.status \notin Absent
      BY <1>1, <1>3, <2>2 DEF SeenProduct, See, Free, IInv, Closed
    <3> QED BY <1>3, <2>2, <3>2, <3>3
  <2> QED BY <2>1, <2>2
<1>4. CASE InsertProduct(p)
  <2>1. products[Req(p).id] = Cell(NoProduct)
    BY <1>4 DEF InsertProduct
  <2>2. Free(products[Req(p).id], p)
    BY <2>1, CellLemma DEF Free
  <2>3. PICK row : /\ row.status = Status(Req(p).on)
                   /\ products' = [products EXCEPT ![Req(p).id] = Written(@, p, row)]
    BY <1>4 DEF InsertProduct
  <2> QED BY <1>3, <1>4, <2>2, <2>3 DEF Status
<1>5. CASE WriteProduct(p)
  <2>1. SeenProduct(Req(p).id, p) /\ Free(products[Req(p).id], p)
    BY <1>5 DEF WriteProduct
  <2>2. PICK row : /\ row.status = Status(Req(p).on)
                   /\ products' = [products EXCEPT ![Req(p).id] = Written(@, p, row)]
    BY <1>5 DEF WriteProduct
  <2> QED BY <1>3, <2>1, <2>2 DEF Status
<1>6. CASE DeleteProduct(p)
  <2>1. SeenProduct(Req(p).id, p) /\ Free(products[Req(p).id], p)
    BY <1>6 DEF DeleteProduct
  <2>2. products' = [products EXCEPT ![Req(p).id] = Written(@, p, [NoProduct EXCEPT !.status = "gone"])]
    BY <1>6 DEF DeleteProduct
  <2>3. [NoProduct EXCEPT !.status = "gone"].status = "gone"
    BY DEF NoProduct
  <2> QED BY <1>3, <2>1, <2>2, <2>3
<1>7. CASE RetireProduct(p)
  <2>1. SeenProduct(Req(p).id, p) /\ Free(products[Req(p).id], p) /\ Req(p).id \in Products
    BY <1>7, RequestLemma DEF RetireProduct, IInv, Placed
  <2> DEFINE row == [See(products[Req(p).id], p) EXCEPT !.status = "inactive"]
  <2>2. products' = [products EXCEPT ![Req(p).id] = Written(@, p, row)]
    BY <1>7 DEF RetireProduct
  <2>3. See(products[Req(p).id], p) \in ProductRows
    BY <1>1, <2>1 DEF See, Cells
  <2>4. row.status = "inactive"
    BY <2>3 DEF ProductRows
  <2> HIDE DEF row
  <2> QED BY <1>3, <2>1, <2>2, <2>4
<1> QED BY <1>2, <1>4, <1>5, <1>6, <1>7

\* Variants are written when they are free.
LEMMA VariantsWritten ==
    ASSUME IInv, NEW p \in Clients, Statement(p), NEW x \in Variants
    PROVE  variants'[x] = variants[x] \/ Wrote(variants[x], variants'[x], p)
<1>1. variants \in [Variants -> Cells(VariantRows)] /\ variants[x] \in Cells(VariantRows)
  BY DEF IInv, TypeOK
<1>2. UNCHANGED variants \/ DeleteProduct(p) \/ RetireVariants(p) \/ (\E s \in Skus : InsertVariant(p, s))
        \/ WriteVariant(p) \/ DeleteVariant(p)
  BY DEF Statement, InsertCategory, WriteCategory, CountProducts, DeleteCategory, InsertProduct, WriteProduct,
     FindProduct, CountLines, RetireProduct, FindImages, BeginRetirement, BeginDemotion, Demote, tables,
     InsertImages, Promote, DeleteImage, CheckClash, FindVariant
<1>3. ASSUME NEW y \in Variants, NEW row, Free(variants[y], p),
             variants' = [variants EXCEPT ![y] = Written(variants[y], p, row)]
      PROVE  variants'[x] = variants[x] \/ Wrote(variants[x], variants'[x], p)
  <2>1. CASE x # y
    BY <1>1, <1>3, <2>1
  <2>2. CASE x = y
    <3>1. variants'[x] = Written(variants[x], p, row)
      BY <1>1, <1>3, <2>2
    <3> QED BY <1>1, <1>3, <2>2, <3>1, RowLemma
  <2> QED BY <2>1, <2>2
<1>4. ASSUME NEW row, Free(variants[x], p), variants'[x] = Written(variants[x], p, row)
      PROVE  variants'[x] = variants[x] \/ Wrote(variants[x], variants'[x], p)
  BY <1>1, <1>4, RowLemma
<1>5. CASE DeleteProduct(p)
  <2> DEFINE xs == {y \in Variants : Refers(variants[y], Req(p).id)}
  <2>1. /\ \A y \in xs : Free(variants[y], p)
        /\ variants' = [y \in Variants |-> IF y \in xs
                THEN Written(variants[y], p, [NoVariant EXCEPT !.product = "gone"]) ELSE variants[y]]
    BY <1>5 DEF DeleteProduct
  <2> HIDE DEF xs
  <2> QED BY <1>4, <2>1
<1>6. CASE RetireVariants(p)
  <2> DEFINE xs == {y \in client[p].seen : See(variants[y], p).product = Req(p).id}
             row(y) == [See(variants[y], p) EXCEPT !.active = FALSE]
  <2>1. /\ \A y \in xs : Free(variants[y], p)
        /\ variants' = [y \in Variants |-> IF y \in xs THEN Written(variants[y], p, row(y)) ELSE variants[y]]
    BY <1>6 DEF RetireVariants
  <2> HIDE DEF xs, row
  <2> QED BY <1>4, <2>1
<1>7. ASSUME NEW s \in Skus, InsertVariant(p, s)
      PROVE  variants'[x] = variants[x] \/ Wrote(variants[x], variants'[x], p)
  <2>1. PICK y \in Variants :
          \E row : /\ variants[y] = Cell(NoVariant)
                   /\ variants' = [variants EXCEPT ![y] = Written(@, p, row)]
    BY <1>7 DEF InsertVariant
  <2>2. Free(variants[y], p)
    BY <2>1, CellLemma DEF Free
  <2> QED BY <1>3, <2>1, <2>2
<1>8. CASE WriteVariant(p)
  <2> DEFINE y == Req(p).id
  <2>1. y \in Variants /\ (Is(p, "SET_VARIANT") => \E s \in Skus : Req(p).skus = {s})
    BY <1>8, RequestLemma DEF WriteVariant
  <2>2. Free(variants[y], p) /\ \E row : variants' = [variants EXCEPT ![y] = Written(variants[y], p, row)]
    <3>1. CASE Is(p, "SET_VARIANT")
      <4>1. PICK s : s \in Req(p).skus
        BY <2>1, <3>1
      <4>2. variants' = [variants EXCEPT ![y] = Written(variants[y], p,
                                            [See(variants[y], p) EXCEPT !.sku = s, !.active = Req(p).on])]
        BY <1>8, <3>1, <4>1 DEF WriteVariant, Is
      <4> QED BY <1>8, <4>2 DEF WriteVariant
    <3>2. CASE Is(p, "DROP_VARIANT")
      <4>1. variants' = [variants EXCEPT ![y] = Written(variants[y], p, [See(variants[y], p) EXCEPT !.active = FALSE])]
        BY <1>8, <3>2 DEF WriteVariant, Is
      <4> QED BY <1>8, <4>1 DEF WriteVariant
    <3> QED BY <1>8, <3>1, <3>2 DEF WriteVariant, Is, Req
  <2> HIDE DEF y
  <2> QED BY <1>3, <2>1, <2>2
<1>9. CASE DeleteVariant(p)
  <2> DEFINE y == Req(p).id
             row == [NoVariant EXCEPT !.product = "gone"]
  <2>1. y \in Variants
    BY <1>9, RequestLemma DEF DeleteVariant, Is, Req
  <2>2. Free(variants[y], p) /\ variants' = [variants EXCEPT ![y] = Written(variants[y], p, row)]
    BY <1>9 DEF DeleteVariant
  <2> HIDE DEF y, row
  <2> QED BY <1>3, <2>1, <2>2
<1> QED BY <1>2, <1>5, <1>6, <1>7, <1>8, <1>9

\* What a statement that inserts and promotes no image makes of one: it is
\* demoted, or deleted.
Lowered(c, d, p) ==
    /\ Wrote(c, d, p) /\ ~d.live.primary
    /\ d.live.product = "gone" \/ (d.live.product = c.live.product /\ c.live.product \in Products)

LEMMA ImagesLowered ==
    ASSUME IInv, NEW p \in Clients, Statement(p), ~InsertProduct(p), ~InsertImages(p), ~Promote(p),
           NEW g \in Images
    PROVE  images'[g] = images[g] \/ Lowered(images[g], images'[g], p)
<1>1. images \in [Images -> Cells(ImageRows)] /\ images[g] \in Cells(ImageRows)
  BY DEF IInv, TypeOK
<1>2. UNCHANGED images \/ DeleteProduct(p) \/ Demote(p) \/ DeleteImage(p)
  BY DEF Statement, InsertCategory, WriteCategory, CountProducts, DeleteCategory, InsertProduct, WriteProduct,
     FindProduct, CountLines, RetireProduct, RetireVariants, FindImages, BeginRetirement, BeginDemotion, tables,
     CheckClash, InsertVariant, WriteVariant, FindVariant, DeleteVariant
<1> DEFINE gone == [NoImage EXCEPT !.product = "gone"]
<1>3. gone.product = "gone" /\ ~gone.primary
  BY DEF NoImage
<1> HIDE DEF gone
<1>4. ASSUME NEW row, Free(images[g], p), images'[g] = Written(images[g], p, row), ~row.primary,
             row.product = "gone" \/ (row.product = images[g].live.product /\ images[g].live.product \in Products)
      PROVE  Lowered(images[g], images'[g], p)
  BY <1>1, <1>4, RowLemma DEF Lowered
<1>5. CASE DeleteProduct(p)
  <2> DEFINE gs == {h \in Images : Refers(images[h], Req(p).id)}
  <2>1. /\ \A h \in gs : Free(images[h], p)
        /\ images' = [h \in Images |-> IF h \in gs THEN Written(images[h], p, gone) ELSE images[h]]
    BY <1>5 DEF DeleteProduct, gone
  <2> HIDE DEF gs
  <2> QED BY <1>3, <1>4, <2>1
<1>6. CASE Demote(p)
  <2> DEFINE row == [See(images[g], p) EXCEPT !.primary = FALSE]
  <2>1. CASE g \in client[p].seen /\ See(images[g], p).product \in Products
    <3>1. Free(images[g], p) /\ images'[g] = Written(images[g], p, row)
      BY <1>6, <2>1 DEF Demote
    <3>2. See(images[g], p) = images[g].live /\ images[g].live \in ImageRows
      BY <3>1, SeenImageLemma
    <3>3. ~row.primary /\ row.product = images[g].live.product
      BY <3>2 DEF ImageRows
    <3> HIDE DEF row
    <3> QED BY <1>4, <2>1, <3>1, <3>2, <3>3
  <2>2. CASE ~(g \in client[p].seen /\ See(images[g], p).product \in Products)
    BY <1>6, <2>2 DEF Demote
  <2> QED BY <2>1, <2>2
<1>7. CASE DeleteImage(p)
  <2>1. Free(images[Req(p).id], p) /\ images' = [images EXCEPT ![Req(p).id] = Written(@, p, gone)]
    BY <1>7 DEF DeleteImage, gone
  <2>2. CASE g = Req(p).id
    BY <1>1, <1>3, <1>4, <2>1, <2>2
  <2>3. CASE g # Req(p).id
    BY <1>1, <2>1, <2>3
  <2> QED BY <2>2, <2>3
<1> QED BY <1>2, <1>5, <1>6, <1>7

\* One image is promoted, and belongs to the product it belonged to.
LEMMA PromoteLemma ==
    ASSUME IInv, NEW p \in Clients, Promote(p)
    PROVE  LET g == Req(p).id
           IN  /\ g \in Images /\ Is(p, "SET_PRIMARY")
               /\ Wrote(images[g], images'[g], p)
               /\ images'[g].live.primary
               /\ images'[g].live.product = images[g].live.product /\ images[g].live.product \in Products
               /\ \A h \in Images : h # g => images'[h] = images[h]
<1> DEFINE g == Req(p).id
           row == [See(images[g], p) EXCEPT !.primary = TRUE]
<1>1. images \in [Images -> Cells(ImageRows)]
  BY DEF IInv, TypeOK
<1>2. Is(p, "SET_PRIMARY") /\ g \in Images
  BY RequestLemma DEF Promote, IInv, Placed, Is, Req
<1>3. /\ Free(images[g], p) /\ See(images[g], p).product \in Products
      /\ images' = [images EXCEPT ![g] = Written(images[g], p, row)]
  BY DEF Promote
<1>4. See(images[g], p) = images[g].live /\ images[g].live \in ImageRows
  BY <1>2, <1>3, SeenImageLemma
<1>5. row.primary /\ row.product = images[g].live.product
  BY <1>4 DEF ImageRows
<1> HIDE DEF g, row
<1>6. images'[g] = Written(images[g], p, row) /\ images[g] \in Cells(ImageRows)
  BY <1>1, <1>2, <1>3
<1>7. Wrote(images[g], images'[g], p) /\ images'[g].live = row
  BY <1>3, <1>6, RowLemma
<1>8. \A h \in Images : h # g => images'[h] = images[h]
  BY <1>1, <1>2, <1>3
<1> QED BY <1>2, <1>3, <1>4, <1>5, <1>7, <1>8 DEF g

\* Of the images a request brings at most one is primary.
LEMMA InsertedPrimary ==
    ASSUME IInv, NEW p \in Clients, NEW q \in Products, NEW marks, marks \in Seq({"yes", "no", "unset"}),
           Inserted(p, q, marks)
    PROVE  /\ \A g, h \in Images :
                /\ images'[g] # images[g] /\ images'[g].live.primary
                /\ images'[h] # images[h] /\ images'[h].live.primary
                => g = h
           /\ \A g \in Images : images'[g] # images[g] /\ images'[g].live.primary
                => \E i \in DOMAIN marks : Normalised(marks)[i]
<1> DEFINE new == {g \in Images : images[g] = Cell(NoImage)}
           primary == Normalised(marks)
<1>1. PICK id \in [DOMAIN marks -> new] :
        images' = [g \in Images |->
               IF \E i \in DOMAIN marks : id[i] = g
               THEN Written(images[g], p, [product |-> q,
                        primary |-> \E i \in DOMAIN marks : id[i] = g /\ primary[i]])
               ELSE images[g]]
  BY DEF Inserted
<1>2. \A i, j \in DOMAIN marks : primary[i] /\ primary[j] => i = j
  <2> DEFINE wants(i) == marks[i] = "yes" \/ (marks[i] = "unset" /\ i = 1)
  <2>1. \A i \in DOMAIN marks : primary[i] = (wants(i) /\ \A j \in 1..(i - 1) : ~wants(j))
    BY DEF Normalised
  <2>2. DOMAIN marks = 1..Len(marks) /\ Len(marks) \in Nat
    OBVIOUS
  <2> HIDE DEF wants, primary
  <2>3. ASSUME NEW i \in DOMAIN marks, NEW j \in DOMAIN marks, primary[i], primary[j], i < j
        PROVE  FALSE
    <3>1. i \in 1..(j - 1)
      BY <2>2, <2>3
    <3> QED BY <2>1, <2>3, <3>1
  <2> QED BY <2>2, <2>3
<1> HIDE DEF primary
<1>3. ASSUME NEW g \in Images, images'[g] # images[g], images'[g].live.primary
      PROVE  \E i \in DOMAIN marks : id[i] = g /\ primary[i]
  <2> DEFINE row == [product |-> q, primary |-> \E i \in DOMAIN marks : id[i] = g /\ primary[i]]
  <2>1. images'[g] = Written(images[g], p, row) /\ images[g] \in Cells(ImageRows)
    BY <1>1, <1>3 DEF IInv, TypeOK
  <2>2. images'[g].live.primary = \E i \in DOMAIN marks : id[i] = g /\ primary[i]
    <3>1. row.primary = \E i \in DOMAIN marks : id[i] = g /\ primary[i]
      OBVIOUS
    <3> HIDE DEF row
    <3>2. images'[g].live = row
      BY <2>1, RowLemma
    <3> QED BY <3>1, <3>2
  <2> QED BY <1>3, <2>2
<1> QED BY <1>2, <1>3 DEF primary

\* What the end of p's request makes of the cell c.
Ends(c, d, p, published) ==
    IF c.by = p THEN /\ d.by = Nobody /\ d.live = d.com
                     /\ d.com = IF published THEN c.live ELSE c.com
                ELSE d = c

LEMMA EndFrame ==
    ASSUME IInv, NEW p \in Clients, NEW published \in BOOLEAN,
           IF published THEN Commit(p) ELSE Rollback(p)
    PROVE  /\ \A q \in Products : Ends(products[q], products'[q], p, published)
           /\ \A x \in Variants : Ends(variants[x], variants'[x], p, published)
           /\ \A g \in Images : Ends(images[g], images'[g], p, published)
           /\ client'[p] = Idle /\ \A o \in Clients : o # p => client'[o] = client[o]
           /\ UNCHANGED <<traded, made, crossed>>
           /\ ~At(p, "idle") /\ (published => At(p, "commit"))
<1>1. /\ products \in [Products -> Cells(ProductRows)] /\ variants \in [Variants -> Cells(VariantRows)]
      /\ images \in [Images -> Cells(ImageRows)] /\ client \in [Clients -> Clerks]
  BY DEF IInv, TypeOK
<1>2. ASSUME NEW K, NEW R, NEW table \in [K -> Cells(R)], NEW new,
             new = IF published THEN Committed(table, p) ELSE RolledBack(table, p), NEW k \in K
      PROVE  Ends(table[k], new[k], p, published)
  <2>1. new[k] = IF table[k].by = p THEN Cell(IF published THEN table[k].live ELSE table[k].com) ELSE table[k]
    BY <1>2, EndLemma
  <2> QED BY <2>1, CellLemma DEF Ends
<1>3. /\ products' = IF published THEN Committed(products, p) ELSE RolledBack(products, p)
      /\ variants' = IF published THEN Committed(variants, p) ELSE RolledBack(variants, p)
      /\ images' = IF published THEN Committed(images, p) ELSE RolledBack(images, p)
  BY DEF Commit, Rollback
<1>4. /\ client'[p] = Idle /\ \A o \in Clients : o # p => client'[o] = client[o]
      /\ UNCHANGED <<traded, made, crossed>>
      /\ ~At(p, "idle") /\ (published => At(p, "commit"))
  BY <1>1 DEF Commit, Rollback, At
<1> QED BY <1>1, <1>2, <1>3, <1>4

\* A request that begins.
LEMMA BeginFrame ==
    ASSUME IInv, NEW p \in Clients, NEW req \in Requests, Begin(p, req)
    PROVE  /\ UNCHANGED <<tables, traded>>
           /\ \A o \in Clients : o # p => client'[o] = client[o]
           /\ At(p, "idle") /\ client'[p].req = req /\ client'[p].todo = req.skus
           /\ client'[p].pc = FirstStep(req.op)
           /\ client'[p].pc \in {"write", "product", "clash", "find"}
           /\ client'[p].pc = "product" <=> req.op = "NEW_PRODUCT"
           /\ OnImages(req) => client'[p].pc = "find"
<1>1. client \in [Clients -> Clerks]
  BY DEF IInv
<1>2. client' = [client EXCEPT ![p] = [Idle EXCEPT !.pc = FirstStep(req.op), !.req = req, !.todo = req.skus]]
  BY DEF Begin
<1>3. /\ FirstStep(req.op) \in {"write", "product", "clash", "find"}
      /\ FirstStep(req.op) = "product" <=> req.op = "NEW_PRODUCT"
      /\ OnImages(req) => FirstStep(req.op) = "find"
  BY DEF FirstStep, OnImages
<1>4. /\ client'[p].req = req /\ client'[p].todo = req.skus
      /\ client'[p].pc = FirstStep(req.op)
      /\ \A o \in Clients : o # p => client'[o] = client[o]
  BY <1>1, <1>2 DEF Idle
<1> QED BY <1>3, <1>4 DEF Begin

-----------------------------------------------------------------------------
\* A product and its variants.

\* Whoever creates a product goes on doing so.
LEMMA CreatorStays ==
    ASSUME IInv, CreatorsHold, NEW p \in Clients, Statement(p), Is(p, "NEW_PRODUCT")
    PROVE  /\ Creating(p)'
           /\ InsertProduct(p) \/ CheckClash(p) \/ \E s \in Skus : InsertVariant(p, s)
<1>1. client \in [Clients -> Clerks] /\ client[p] \in Clerks
  BY DEF IInv
<1>2. client[p].pc \in {"product", "clash", "insert"}
  BY StatementFrame DEF CreatorsHold, Creating, Stages, At
<1>3. ~OnImages(Req(p)) /\ Req(p).op = "NEW_PRODUCT"
  BY DEF OnImages, Req, Is
<1>4. InsertProduct(p) \/ CheckClash(p) \/ \E s \in Skus : InsertVariant(p, s)
  BY <1>2, <1>3
     DEF Statement, InsertCategory, WriteCategory, CountProducts, DeleteCategory, InsertProduct, WriteProduct,
     FindProduct, CountLines, DeleteProduct, RetireProduct, RetireVariants, FindImages, BeginRetirement, BeginDemotion, Demote,
     InsertImages, Promote, DeleteImage, WriteVariant, FindVariant, DeleteVariant, At, Is
<1>5. client'[p].pc \in Stages
  <2>1. CASE InsertProduct(p)
    BY <1>1, <2>1 DEF InsertProduct, Goto, Stages, Clerks
  <2>2. CASE CheckClash(p)
    <3>1. Goto(p, "insert")
      BY <2>2 DEF CheckClash, Is
    <3> QED BY <1>1, <3>1 DEF Goto, Stages, Clerks
  <2>3. ASSUME NEW s \in Skus, InsertVariant(p, s)
        PROVE  client'[p].pc \in Stages
    <3>1. client' = [client EXCEPT ![p] = [client[p] EXCEPT !.todo = @ \ {s},
                        !.pc = IF client[p].todo = {s} THEN "commit" ELSE "clash"]]
      BY <1>1, <2>3 DEF InsertVariant
    <3> QED BY <1>1, <3>1 DEF Stages, Clerks
  <2> QED BY <1>4, <2>1, <2>2, <2>3
<1>6. client'[p].req.op = "NEW_PRODUCT"
  BY StatementFrame DEF Is
<1> QED BY <1>4, <1>5, <1>6 DEF Creating, Is

LEMMA StatementCreators ==
    ASSUME IInv, CreatorsHold, NEW p \in Clients, Statement(p)
    PROVE  CreatorsHold'
<1>1. /\ \A o \in Clients : o # p => client'[o] = client[o]
      /\ client'[p].req = client[p].req /\ client'[p].pc # "product"
  BY StatementFrame
<1>2. ASSUME NEW o \in Clients, Is(o, "NEW_PRODUCT")'
      PROVE  (At(o, "product") \/ Creating(o))'
  <2>1. CASE o # p
    BY <1>1, <1>2, <2>1 DEF CreatorsHold, Creating, Is, At
  <2>2. CASE o = p
    BY <1>1, <1>2, <2>2, CreatorStays DEF Is
  <2> QED BY <2>1, <2>2
<1>3. ASSUME NEW o \in Clients, Creating(o)'
      PROVE  products'[Req(o)'.id].by = o /\ products'[Req(o)'.id].com.status = "none"
  <2>1. CASE o # p
    <3>1. Creating(o) /\ Req(o)' = Req(o)
      BY <1>1, <1>3, <2>1 DEF Creating, Is, Req
    <3>2. /\ products[Req(o).id].by = o /\ products[Req(o).id].com.status = "none"
          /\ Req(o).id \in Products
      BY <3>1, RequestLemma DEF CreatorsHold, Creating, Is, Req
    <3>3. ~Free(products[Req(o).id], p)
      BY <2>1, <3>2, NobodyAssumption DEF Free
    <3>4. products'[Req(o).id] = products[Req(o).id]
      BY <3>2, <3>3, ProductsWritten DEF Wrote
    <3> QED BY <3>1, <3>2, <3>4
  <2>2. CASE o = p
    <3>1. Is(p, "NEW_PRODUCT") /\ Req(p)' = Req(p)
      BY <1>1, <1>3, <2>2 DEF Creating, Is, Req
    <3>2. Req(p).id \in Products
      BY <3>1, RequestLemma DEF Is, Req
    <3>3. CASE InsertProduct(p)
      <4>1. products[Req(p).id] = Cell(NoProduct)
        BY <3>3 DEF InsertProduct
      <4>2. products[Req(p).id].com.status = "none" /\ products[Req(p).id].by = Nobody
        BY <4>1, CellLemma DEF NoProduct
      <4>3. PICK row : products' = [products EXCEPT ![Req(p).id] = Written(@, p, row)]
        BY <3>3 DEF InsertProduct
      <4>4. products \in [Products -> Cells(ProductRows)]
        BY DEF IInv, TypeOK
      <4>5. products'[Req(p).id] = Written(products[Req(p).id], p, row) /\ products[Req(p).id] \in Cells(ProductRows)
        BY <3>2, <4>3, <4>4
      <4> QED BY <2>2, <3>1, <4>2, <4>5, RowLemma
    <3>4. CASE ~InsertProduct(p)
      <4>1. UNCHANGED products
        BY <3>1, <3>4, CreatorStays DEF CheckClash, InsertVariant, tables
      <4>2. Creating(p)
        <5>1. ~At(p, "product")
          BY <3>1, <3>4, CreatorStays DEF CheckClash, InsertVariant, At
        <5> QED BY <3>1, <5>1 DEF CreatorsHold
      <4> QED BY <2>2, <3>1, <4>1, <4>2 DEF CreatorsHold
    <3> QED BY <3>3, <3>4
  <2> QED BY <2>1, <2>2
<1>4. ASSUME NEW o \in Clients, NEW q \in Products, products[q].by = o, products[q].com.status = "none"
      PROVE  Creating(o)' /\ Req(o)'.id = q
  <2>1. Creating(o) /\ Req(o).id = q
    BY <1>4, NobodyAssumption DEF CreatorsHold
  <2>2. CASE o # p
    BY <1>1, <2>1, <2>2 DEF Creating, Is, Req
  <2>3. CASE o = p
    BY <1>1, <2>1, <2>3, CreatorStays DEF Creating, Req
  <2> QED BY <2>2, <2>3
<1>5. ASSUME NEW q \in Products, products'[q].by # Nobody
      PROVE  /\ products'[q].live.status # "none"
             /\ products'[q].com.status = "none" =>
                    \E o \in Clients : o = products'[q].by /\ Creating(o)' /\ Req(o)'.id = q
  <2>1. products[q] \in Cells(ProductRows)
    BY DEF IInv, TypeOK
  <2>2. ASSUME products[q].by # Nobody, products[q].com.status = "none", products'[q].by = products[q].by
        PROVE  \E o \in Clients : o = products'[q].by /\ Creating(o)' /\ Req(o)'.id = q
    <3>1. products[q].by \in Clients
      BY <2>1, <2>2 DEF Cells
    <3> QED BY <1>4, <2>2, <3>1
  <2>3. CASE products'[q] = products[q]
    BY <1>5, <2>2, <2>3 DEF CreatorsHold
  <2>4. CASE /\ Wrote(products[q], products'[q], p) /\ products'[q].live.status # "none"
             /\ products[q].live.status \notin Absent
    <3>1. products[q].by = Nobody => products[q].com.status # "none"
      BY <2>1, <2>4 DEF IInv, TypeOK, Closed, Absent
    <3> QED BY <2>2, <2>4, <3>1, NobodyAssumption DEF Wrote, Free
  <2>5. CASE /\ Wrote(products[q], products'[q], p) /\ products'[q].live.status # "none"
             /\ InsertProduct(p) /\ q = Req(p).id
    <3>1. At(p, "product") /\ Is(p, "NEW_PRODUCT")
      BY <2>5 DEF InsertProduct, IInv, Placed
    <3>2. Creating(p)' /\ Req(p)'.id = q
      BY <1>1, <2>5, <3>1, CreatorStays DEF Req
    <3> QED BY <2>5, <3>2 DEF Wrote
  <2> QED BY <2>3, <2>4, <2>5, ProductsWritten
<1>6. ASSUME NEW q \in Products, products'[q].by # Nobody, products'[q].com.status = "none"
      PROVE  (Creating(products[q].by) /\ Req(products[q].by).id = q)'
  <2>1. PICK o \in Clients : o = products'[q].by /\ Creating(o)' /\ Req(o)'.id = q
    BY <1>5, <1>6
  <2> QED BY <2>1 DEF Creating, Req, Is
<1> QED BY <1>2, <1>3, <1>5, <1>6 DEF CreatorsHold

LEMMA StatementFollows ==
    ASSUME IInv, CreatorsHold, VariantsFollow, NEW p \in Clients, Statement(p)
    PROVE  VariantsFollow'
<1>1. /\ \A o \in Clients : o # p => client'[o] = client[o]
      /\ client'[p].req = client[p].req /\ client'[p].pc # "product"
      /\ client \in [Clients -> Clerks] /\ client[p] \in Clerks
  BY StatementFrame DEF IInv
<1>2. ASSUME NEW o \in Clients, NEW x \in Variants, variants[x].by = o, o # p
      PROVE  variants'[x] = variants[x]
  BY <1>2, VariantsWritten, NobodyAssumption DEF Wrote, Free
<1>3. ASSUME NEW o \in Clients, o # p, Is(o, "NEW_PRODUCT")'
      PROVE  /\ At(o, "product")' => client'[o].todo = Req(o)'.skus
             /\ At(o, "commit")' => client'[o].todo = {}
             /\ Creating(o)' => \A s \in Req(o)'.skus \ client'[o].todo : HasInserted(o, s)'
  <2>1. client'[o] = client[o] /\ Req(o)' = Req(o) /\ Is(o, "NEW_PRODUCT")
    BY <1>1, <1>3 DEF Req, Is
  <2>2. ASSUME NEW s, HasInserted(o, s)
        PROVE  HasInserted(o, s)'
    BY <1>2, <1>3, <2>1, <2>2 DEF HasInserted
  <2> QED BY <2>1, <2>2 DEF VariantsFollow, At, Creating, Is
<1>4. ASSUME Is(p, "NEW_PRODUCT")'
      PROVE  /\ At(p, "commit")' => client'[p].todo = {}
             /\ \A s \in Req(p)'.skus \ client'[p].todo : HasInserted(p, s)'
  <2>1. Is(p, "NEW_PRODUCT") /\ Req(p)' = Req(p)
    BY <1>1, <1>4 DEF Is, Req
  <2>2. CASE InsertProduct(p)
    <3>1. At(p, "product") /\ client' = [client EXCEPT ![p] = [client[p] EXCEPT
                                                !.pc = IF Req(p).skus = {} THEN "commit" ELSE "clash"]]
      BY <2>2 DEF InsertProduct, Goto
    <3>2. client[p].todo = Req(p).skus
      BY <2>1, <3>1 DEF VariantsFollow
    <3>3. /\ client'[p].todo = client[p].todo
          /\ client'[p].pc = IF Req(p).skus = {} THEN "commit" ELSE "clash"
      BY <1>1, <3>1 DEF Clerks
    <3> QED BY <2>1, <3>2, <3>3 DEF At
  <2>3. CASE CheckClash(p)
    <3>1. Goto(p, "insert") /\ At(p, "clash") /\ UNCHANGED variants
      BY <2>1, <2>3 DEF CheckClash, tables, Is
    <3>2. client'[p].todo = client[p].todo /\ client'[p].pc = "insert"
      BY <1>1, <3>1 DEF Goto, Clerks
    <3>3. \A s \in Req(p).skus \ client[p].todo : HasInserted(p, s)
      BY <2>1, <3>1 DEF VariantsFollow, Creating, Stages, At
    <3> QED BY <2>1, <3>1, <3>2, <3>3 DEF At, HasInserted
  <2>4. ASSUME NEW s \in Skus, InsertVariant(p, s)
        PROVE  /\ At(p, "commit")' => client'[p].todo = {}
               /\ \A t \in Req(p)'.skus \ client'[p].todo : HasInserted(p, t)'
    <3>1. client' = [client EXCEPT ![p] = [client[p] EXCEPT !.todo = @ \ {s},
                        !.pc = IF client[p].todo = {s} THEN "commit" ELSE "clash"]]
      BY <1>1, <2>4 DEF InsertVariant
    <3>2. /\ client'[p].todo = client[p].todo \ {s}
          /\ client'[p].pc = IF client[p].todo = {s} THEN "commit" ELSE "clash"
      BY <1>1, <3>1 DEF Clerks
    <3> DEFINE row == [product |-> Req(p).id, sku |-> s, active |-> Req(p).on]
    <3>0. row.product = Req(p).id /\ row.sku = s
      OBVIOUS
    <3>3. PICK y \in Variants : /\ variants[y] = Cell(NoVariant)
                                /\ variants' = [variants EXCEPT ![y] = Written(@, p, row)]
      BY <2>1, <2>4 DEF InsertVariant
    <3> HIDE DEF row
    <3>4. variants \in [Variants -> Cells(VariantRows)]
      BY DEF IInv, TypeOK
    <3>5. variants'[y] = Written(variants[y], p, row) /\ variants[y] \in Cells(VariantRows)
      BY <3>3, <3>4
    <3>6. variants'[y].by = p /\ variants'[y].live = row
      BY <3>5, RowLemma
    <3>7. HasInserted(p, s)'
      BY <2>1, <3>0, <3>3, <3>6 DEF HasInserted
    <3>8. ASSUME NEW t \in Req(p).skus \ client[p].todo
          PROVE  HasInserted(p, t)'
      <4>1. HasInserted(p, t)
        BY <2>1, <2>4 DEF VariantsFollow, Creating, Stages, InsertVariant, At
      <4>2. PICK x \in Variants : /\ variants[x].by = p /\ variants[x].live.sku = t
                                  /\ variants[x].live.product = Req(p).id
        BY <4>1 DEF HasInserted
      <4>3. x # y
        BY <3>3, <4>2, CellLemma, NobodyAssumption
      <4>4. variants'[x] = variants[x]
        BY <3>3, <3>4, <4>3
      <4> QED BY <2>1, <4>2, <4>4 DEF HasInserted
    <3> QED BY <2>1, <3>2, <3>7, <3>8 DEF At
  <2> QED BY <2>1, <2>2, <2>3, <2>4, CreatorStays
<1> QED BY <1>1, <1>3, <1>4 DEF VariantsFollow, At

LEMMA EndProducts ==
    ASSUME WInv, NEW p \in Clients, NEW published \in BOOLEAN,
           IF published THEN Commit(p) ELSE Rollback(p)
    PROVE  CreatorsHold' /\ VariantsFollow'
<1>1. /\ \A q \in Products : Ends(products[q], products'[q], p, published)
      /\ \A x \in Variants : Ends(variants[x], variants'[x], p, published)
      /\ client'[p] = Idle /\ \A o \in Clients : o # p => client'[o] = client[o]
  BY EndFrame DEF WInv
<1>2. Idle.req.op = "none" /\ Idle.pc = "idle"
  BY DEF Idle, Blank
<1>3. ASSUME NEW o \in Clients, Is(o, "NEW_PRODUCT")'
      PROVE  o # p /\ client'[o] = client[o] /\ Is(o, "NEW_PRODUCT") /\ Req(o)' = Req(o)
  BY <1>1, <1>2, <1>3 DEF Is, Req
<1>4. ASSUME NEW q \in Products
      PROVE  /\ products[q].by # p => products'[q] = products[q]
             /\ products[q].by = p => products'[q].by = Nobody
  BY <1>1 DEF Ends
<1>5. ASSUME NEW o \in Clients, o # p, NEW s, HasInserted(o, s), Req(o)' = Req(o)
      PROVE  HasInserted(o, s)'
  BY <1>1, <1>5 DEF HasInserted, Ends
<1>6. VariantsFollow'
  BY <1>3, <1>5 DEF WInv, VariantsFollow, At, Creating, Is
<1>7. ASSUME NEW o \in Clients, Is(o, "NEW_PRODUCT")'
      PROVE  /\ (At(o, "product") \/ Creating(o))'
             /\ Creating(o)' => products'[Req(o)'.id].by = o /\ products'[Req(o)'.id].com.status = "none"
  <2>1. o # p /\ client'[o] = client[o] /\ Is(o, "NEW_PRODUCT") /\ Req(o)' = Req(o)
    BY <1>3, <1>7
  <2>2. Req(o).id \in Products
    BY <2>1, RequestLemma DEF WInv, Is, Req
  <2> QED BY <1>4, <2>1, <2>2 DEF WInv, CreatorsHold, Creating, At, Is
<1>8. ASSUME NEW q \in Products, products'[q].by # Nobody
      PROVE  /\ products'[q].live.status # "none"
             /\ products'[q].com.status = "none" =>
                    (Creating(products[q].by) /\ Req(products[q].by).id = q)'
  <2>1. products'[q] = products[q] /\ products[q].by # p /\ products[q].by \in Clients
    BY <1>4, <1>8 DEF WInv, IInv, TypeOK, Cells
  <2> QED BY <1>1, <1>8, <2>1 DEF WInv, CreatorsHold, Creating, Is, Req
<1>9. CreatorsHold'
  BY <1>7, <1>8 DEF CreatorsHold, Creating
<1> QED BY <1>6, <1>9

LEMMA BeginProducts ==
    ASSUME WInv, NEW p \in Clients, NEW req \in Requests, Begin(p, req)
    PROVE  CreatorsHold' /\ VariantsFollow'
<1>1. /\ UNCHANGED tables
      /\ \A o \in Clients : o # p => client'[o] = client[o]
      /\ At(p, "idle") /\ client'[p].req = req /\ client'[p].todo = req.skus
      /\ client'[p].pc \in {"write", "product", "clash", "find"}
      /\ client'[p].pc = "product" <=> req.op = "NEW_PRODUCT"
  BY BeginFrame DEF WInv
<1>2. UNCHANGED <<products, variants>>
  BY <1>1 DEF tables
<1>3. Is(p, "NEW_PRODUCT")' => client'[p].pc = "product" /\ ~Creating(p)'
  BY <1>1 DEF Is, Creating, Stages
<1>4. \A q \in Products : products[q].by = p => products[q].com.status # "none"
  BY <1>1, NobodyAssumption DEF WInv, CreatorsHold, Creating, Stages, At
<1>5. \A o \in Clients : o # p => /\ Creating(o)' = Creating(o) /\ Req(o)' = Req(o)
                                  /\ Is(o, "NEW_PRODUCT")' = Is(o, "NEW_PRODUCT")
                                  /\ client'[o] = client[o]
                                  /\ \A s : HasInserted(o, s)' = HasInserted(o, s)
  BY <1>1, <1>2 DEF Creating, Is, Req, HasInserted
<1>6. VariantsFollow'
  <2> SUFFICES ASSUME NEW o \in Clients, Is(o, "NEW_PRODUCT")'
               PROVE  /\ At(o, "product")' => client'[o].todo = Req(o)'.skus
                      /\ At(o, "commit")' => client'[o].todo = {}
                      /\ Creating(o)' => \A s \in Req(o)'.skus \ client'[o].todo : HasInserted(o, s)'
    BY DEF VariantsFollow, At
  <2>1. CASE o = p
    BY <1>1, <1>3, <2>1 DEF Req, At
  <2>2. CASE o # p
    BY <1>5, <2>2 DEF WInv, VariantsFollow, At
  <2> QED BY <2>1, <2>2
<1>7. ASSUME NEW q \in Products, products[q].by # Nobody, products[q].com.status = "none"
      PROVE  Creating(products[q].by)' /\ Req(products[q].by)'.id = q
  <2>1. Creating(products[q].by) /\ Req(products[q].by).id = q
    BY <1>7 DEF WInv, CreatorsHold
  <2>2. products[q].by \in Clients /\ products[q].by # p
    BY <1>4, <1>7 DEF WInv, IInv, TypeOK, Cells
  <2> QED BY <1>2, <1>5, <2>1, <2>2
<1>8. CreatorsHold'
  <2>1. \A o \in Clients : Is(o, "NEW_PRODUCT")' => At(o, "product")' \/ Creating(o)'
    BY <1>1, <1>3, <1>5 DEF WInv, CreatorsHold, At
  <2>2. \A o \in Clients : Creating(o)' =>
            products'[Req(o)'.id].by = o /\ products'[Req(o)'.id].com.status = "none"
    BY <1>2, <1>3, <1>5 DEF WInv, CreatorsHold, Creating
  <2> QED BY <1>2, <1>7, <2>1, <2>2 DEF WInv, CreatorsHold
<1> QED BY <1>6, <1>8

LEMMA StepWInv ==
    ASSUME WInv, [Next]_vars
    PROVE  WInv'
<1>1. IInv'
  BY StepIInv DEF WInv
<1>2. CASE UNCHANGED <<products, variants, client>>
  BY <1>1, <1>2 DEF WInv, CreatorsHold, VariantsFollow, Creating, HasInserted, Is, Req, At
<1>3. ASSUME NEW p \in Clients, Statement(p)
      PROVE  WInv'
  BY <1>1, <1>3, StatementCreators, StatementFollows DEF WInv
<1>4. ASSUME NEW p \in Clients, NEW req \in Requests, Begin(p, req)
      PROVE  WInv'
  BY <1>1, <1>4, BeginProducts DEF WInv
<1>5. ASSUME NEW p \in Clients, Commit(p) \/ Rollback(p)
      PROVE  WInv'
  BY <1>1, <1>5, EndProducts DEF WInv
<1> QED BY <1>2, <1>3, <1>4, <1>5 DEF Next, vars, tables, TradeVariant

LEMMA InitWInv == Init => WInv
<1> SUFFICES ASSUME Init
             PROVE  WInv
  OBVIOUS
<1>1. client = [p \in Clients |-> Idle]
  BY DEF Init
<1>2. \A q \in Products : products[q].by = Nobody
  <2>1. PICK k \in Categories, r \in Products :
          products = [q \in Products |-> Cell(IF q = r THEN [status |-> "active", category |-> k] ELSE NoProduct)]
    BY DEF Init
  <2> QED BY <2>1, CellLemma
<1>3. \A p \in Clients : ~Is(p, "NEW_PRODUCT")
  BY <1>1 DEF Is, Idle, Blank
<1>4. CreatorsHold /\ VariantsFollow
  BY <1>2, <1>3 DEF CreatorsHold, VariantsFollow, Creating
<1> QED BY <1>4, InitIInv DEF WInv

\* A product appears with all the variants it was asked for, or not at all.
THEOREM ProductsAreWhole == Spec => WholeProducts
<1>1. WInv /\ [Next]_vars =>
        [\A q \in Products : products[q].com.status = "none" /\ products'[q].com.status # "none" =>
        \E p \in Clients :
            /\ Is(p, "NEW_PRODUCT") /\ Req(p).id = q
            /\ Req(p).skus \subseteq
                 {variants'[x].com.sku : x \in {y \in Variants : variants'[y].com.product = q}}]_vars
  <2> SUFFICES ASSUME WInv, Next, NEW q \in Products,
                      products[q].com.status = "none", products'[q].com.status # "none"
               PROVE  \E p \in Clients :
            /\ Is(p, "NEW_PRODUCT") /\ Req(p).id = q
            /\ Req(p).skus \subseteq
                 {variants'[x].com.sku : x \in {y \in Variants : variants'[y].com.product = q}}
    OBVIOUS
  <2>1. PICK p \in Clients : Statement(p) \/ Commit(p) \/ Rollback(p)
    BY DEF Next, Begin, TradeVariant, tables
  <2>2. ~Statement(p)
    BY ProductsWritten DEF Wrote, WInv
  <2>3. ~Rollback(p)
    BY EndFrame DEF WInv, Ends
  <2>4. /\ Ends(products[q], products'[q], p, TRUE) /\ At(p, "commit")
        /\ \A x \in Variants : Ends(variants[x], variants'[x], p, TRUE)
    BY <2>1, <2>2, <2>3, EndFrame DEF WInv
  <2>5. products[q].by = p
    BY <2>4 DEF Ends
  <2>6. Creating(p) /\ Req(p).id = q
    BY <2>5, NobodyAssumption DEF WInv, CreatorsHold
  <2>7. client[p].todo = {} /\ \A s \in Req(p).skus \ client[p].todo : HasInserted(p, s)
    BY <2>4, <2>6 DEF WInv, VariantsFollow, Creating
  <2>8. ASSUME NEW s \in Req(p).skus
        PROVE  \E x \in Variants : variants'[x].com.product = q /\ s = variants'[x].com.sku
    BY <2>4, <2>6, <2>7 DEF HasInserted, Ends
  <2> QED BY <2>6, <2>8 DEF Creating
<1>2. Spec => []WInv
  BY InitWInv, StepWInv, PTL DEF Spec
<1> QED BY <1>1, <1>2, PTL DEF Spec, WholeProducts

-----------------------------------------------------------------------------
\* Images and what they belong to.

KInv == WInv /\ ImagesAreKnown /\ LooksFirst /\ TargetsAreKnown

\* No statement changes what is committed, of images and of products.
LEMMA StatementKeepsCommitted ==
    ASSUME IInv, NEW p \in Clients, Statement(p)
    PROVE  /\ \A q \in Products : products'[q].com = products[q].com
           /\ \A g \in Images : images'[g] = images[g] \/ Wrote(images[g], images'[g], p)
<1>1. \A q \in Products : products'[q].com = products[q].com
  BY ProductsWritten DEF Wrote
<1>2. ASSUME NEW q \in Products, NEW marks, Inserted(p, q, marks)
      PROVE  \A g \in Images : images'[g] = images[g] \/ Wrote(images[g], images'[g], p)
  BY <1>2, InsertedLemma
<1>3. CASE InsertProduct(p)
  <2>1. Req(p).id \in Products
    BY <1>3, RequestLemma DEF InsertProduct, IInv, Placed, Is, Req
  <2>2. Inserted(p, Req(p).id, Req(p).marks)
    BY <1>3 DEF InsertProduct
  <2> QED BY <1>1, <1>2, <2>1, <2>2
<1>4. CASE InsertImages(p)
  <2>1. Req(p).parent \in Products
    BY <1>4, RequestLemma DEF InsertImages, Is, Req
  <2>2. Inserted(p, Req(p).parent, Req(p).marks)
    BY <1>4 DEF InsertImages
  <2> QED BY <1>1, <1>2, <2>1, <2>2
<1>5. CASE Promote(p)
  BY <1>1, <1>5, PromoteLemma
<1> QED BY <1>1, <1>3, <1>4, <1>5, ImagesLowered DEF Lowered

\* What p inserts, and what it needs for that.
LEMMA InsertFrame ==
    ASSUME IInv, NEW p \in Clients, InsertProduct(p) \/ InsertImages(p)
    PROVE  \E q \in Products :
             /\ \/ InsertProduct(p) /\ Is(p, "NEW_PRODUCT") /\ q = Req(p).id /\ products[q] = Cell(NoProduct)
                \/ InsertImages(p) /\ Is(p, "ADD_IMAGES") /\ q = Req(p).parent /\ At(p, "insert")
                   /\ client'[p].pc = "commit"
             /\ Inserted(p, q, Req(p).marks) /\ Req(p).marks \in Seq({"yes", "no", "unset"})
             /\ \A g \in Images :
                  \/ images'[g] = images[g]
                  \/ /\ Wrote(images[g], images'[g], p) /\ images'[g].live.product = q
                     /\ images[g].com = NoImage /\ images[g].live = NoImage /\ images[g].by = Nobody
<1>1. client \in [Clients -> Clerks] /\ client[p] \in Clerks /\ Req(p) \in Requests \cup {Blank}
  BY DEF IInv, Clerks, Req
<1>2. Req(p).op \in {"NEW_PRODUCT", "ADD_IMAGES"} => Req(p).marks \in Seq({"yes", "no", "unset"})
  <2>1. CASE Req(p) = Blank
    BY <2>1 DEF Blank
  <2>2. CASE Req(p) \in Requests
    BY <2>2, CatalogueAssumption DEF Requests
  <2> QED BY <1>1, <2>1, <2>2
<1>3. ASSUME NEW q \in Products, Inserted(p, q, Req(p).marks)
      PROVE  \A g \in Images :
                  \/ images'[g] = images[g]
                  \/ /\ Wrote(images[g], images'[g], p) /\ images'[g].live.product = q
                     /\ images[g].com = NoImage /\ images[g].live = NoImage /\ images[g].by = Nobody
  BY <1>3, InsertedLemma, CellLemma
<1>4. CASE InsertProduct(p)
  <2>1. Is(p, "NEW_PRODUCT") /\ Req(p).op = "NEW_PRODUCT"
    BY <1>4 DEF InsertProduct, IInv, Placed, Is, Req
  <2>2. Req(p).id \in Products /\ Inserted(p, Req(p).id, Req(p).marks) /\ products[Req(p).id] = Cell(NoProduct)
    BY <1>4, <2>1, RequestLemma DEF InsertProduct
  <2> QED BY <1>2, <1>3, <1>4, <2>1, <2>2
<1>5. CASE InsertImages(p)
  <2>1. /\ Is(p, "ADD_IMAGES") /\ Req(p).op = "ADD_IMAGES" /\ At(p, "insert")
        /\ Goto(p, "commit") /\ Inserted(p, Req(p).parent, Req(p).marks)
    BY <1>5 DEF InsertImages, Is, Req
  <2>2. Req(p).parent \in Products
    BY <2>1, RequestLemma
  <2>3. client'[p].pc = "commit"
    BY <1>1, <2>1 DEF Goto, Clerks
  <2> QED BY <1>2, <1>3, <1>5, <2>1, <2>2, <2>3
<1> QED BY <1>4, <1>5

\* Whoever has inserted images has done so until its request ends.
LEMMA InsertingStays ==
    ASSUME WInv, NEW p \in Clients, Statement(p), NEW o \in Clients, NEW q
    PROVE  /\ Inserting(o, q) => Inserting(o, q)'
           /\ Creating(o) /\ Req(o).id = q => Creating(o)' /\ Req(o)'.id = q
           /\ Req(o)' = Req(o)
<1>1. /\ \A u \in Clients : u # p => client'[u] = client[u]
      /\ client'[p].req = client[p].req /\ ~At(p, "commit")
  BY StatementFrame DEF WInv, At
<1>2. Req(o)' = Req(o)
  BY <1>1 DEF Req
<1>3. Creating(o) => Creating(o)'
  <2>1. CASE o = p
    BY <2>1, CreatorStays DEF WInv, Creating
  <2>2. CASE o # p
    BY <1>1, <2>2 DEF Creating, Is
  <2> QED BY <2>1, <2>2
<1>4. Is(o, "ADD_IMAGES") /\ At(o, "commit") => (Is(o, "ADD_IMAGES") /\ At(o, "commit"))'
  BY <1>1 DEF Is, At
<1> QED BY <1>2, <1>3, <1>4 DEF Inserting

LEMMA StatementKnown ==
    ASSUME WInv, ImagesAreKnown, NEW p \in Clients, Statement(p)
    PROVE  ImagesAreKnown'
<1>1. IInv /\ IInv' /\ UNCHANGED Nobody
  BY StepIInv DEF WInv, Next
<1>2. "none" \notin Products /\ "gone" \notin Products
  BY CatalogueAssumption
<1>3. \A g \in Images : images[g].by \in Clients \cup {Nobody} /\ (images[g].by = Nobody => images[g].live = images[g].com)
  BY <1>1 DEF IInv, TypeOK, Closed, Cells
<1>4. ASSUME NEW g \in Images, NEW o \in Clients, images'[g].by = o
      PROVE  /\ images'[g].live.product # "none"
             /\ \A q \in Products : q = images'[g].live.product /\ q # images'[g].com.product =>
                  images'[g].com.product = "none" /\ Inserting(o, q)'
             /\ images'[g].com.primary => images'[g].com.product \in Products
             /\ images'[g].live.primary => images'[g].live.product \in Products
             /\ images'[g].live.primary =>
                  OnImages(Req(o))' \/ (Creating(o)' /\ Req(o)'.id = images'[g].live.product)
  <2>1. images'[g].com = images[g].com /\ (images[g].com.primary => images[g].com.product \in Products)
    BY <1>1, StatementKeepsCommitted DEF Wrote, ImagesAreKnown
  <2>2. ASSUME images[g].by \in {o, Nobody}, NEW q \in Products,
               q = images[g].live.product, q # images[g].com.product
        PROVE  images[g].com.product = "none" /\ Inserting(o, q)'
    BY <1>3, <2>2, InsertingStays DEF ImagesAreKnown
  <2>3. CASE images'[g] = images[g]
    <3>1. Req(o)' = Req(o) /\ OnImages(Req(o))' = OnImages(Req(o))
      BY InsertingStays DEF OnImages
    <3>2. images[g].live.primary =>
                  OnImages(Req(o)) \/ (Creating(o) /\ Req(o).id = images[g].live.product)
      BY <1>4, <2>3, NobodyAssumption DEF ImagesAreKnown
    <3>3. images[g].live.primary =>
                  OnImages(Req(o))' \/ (Creating(o)' /\ Req(o)'.id = images[g].live.product)
      BY <3>1, <3>2, InsertingStays
    <3> QED BY <1>4, <2>2, <2>3, <3>3, NobodyAssumption DEF ImagesAreKnown
  <2>4. CASE Lowered(images[g], images'[g], p)
    <3>1. o = p /\ images[g].by \in {o, Nobody}
      BY <1>4, <2>4 DEF Lowered, Wrote, Free
    <3> QED BY <1>2, <2>1, <2>2, <2>4, <3>1 DEF Lowered
  <2>5. CASE (InsertProduct(p) \/ InsertImages(p)) /\ images'[g] # images[g]
    <3>1. PICK q \in Products :
             /\ \/ InsertProduct(p) /\ Is(p, "NEW_PRODUCT") /\ q = Req(p).id
                \/ Is(p, "ADD_IMAGES") /\ q = Req(p).parent /\ client'[p].pc = "commit"
             /\ Wrote(images[g], images'[g], p) /\ images'[g].live.product = q /\ images[g].com = NoImage
      BY <1>1, <2>5, InsertFrame
    <3>2. o = p /\ Req(p)' = Req(p)
      BY <1>4, <3>1, InsertingStays DEF Wrote
    <3>3. images'[g].com.product = "none" /\ ~images'[g].com.primary
      BY <2>1, <3>1 DEF NoImage
    <3>4. CASE Is(p, "NEW_PRODUCT") /\ q = Req(p).id
      <4>1. Creating(p)' /\ Req(p)'.id = q
        BY <1>1, <3>2, <3>4, CreatorStays DEF WInv
      <4> QED BY <1>2, <3>1, <3>2, <3>3, <4>1 DEF Inserting
    <3>5. CASE Is(p, "ADD_IMAGES") /\ q = Req(p).parent /\ client'[p].pc = "commit"
      <4>1. (Is(p, "ADD_IMAGES") /\ At(p, "commit") /\ OnImages(Req(p)))' /\ Req(p)'.parent = q
        BY <3>2, <3>5 DEF Is, Req, At, OnImages
      <4> QED BY <1>2, <3>1, <3>2, <3>3, <4>1 DEF Inserting
    <3> QED BY <3>1, <3>4, <3>5
  <2>6. CASE Promote(p) /\ images'[g] # images[g]
    <3>1. /\ Is(p, "SET_PRIMARY") /\ Wrote(images[g], images'[g], p)
          /\ images'[g].live.product = images[g].live.product /\ images[g].live.product \in Products
      BY <1>1, <2>6, PromoteLemma
    <3>2. o = p /\ images[g].by \in {o, Nobody}
      BY <1>4, <3>1 DEF Wrote, Free
    <3>3. OnImages(Req(p))'
      BY <3>1, InsertingStays DEF OnImages, Is, Req
    <3> QED BY <1>2, <2>1, <2>2, <3>1, <3>2, <3>3
  <2> QED BY <1>1, <2>3, <2>4, <2>5, <2>6, ImagesLowered
<1>5. ASSUME NEW g \in Images, images'[g].by = Nobody
      PROVE  images'[g] = images[g]
  BY <1>1, <1>5, StatementKeepsCommitted, NobodyAssumption DEF Wrote
<1>6. ASSUME NEW g \in Images
      PROVE  /\ images'[g].by # Nobody => images'[g].live.product # "none"
             /\ images'[g].live.product \in Products /\ images'[g].live.product # images'[g].com.product =>
                  images'[g].com.product = "none" /\ Inserting(images[g].by, images[g].live.product)'
             /\ images'[g].com.primary => images'[g].com.product \in Products
             /\ images'[g].live.primary => images'[g].live.product \in Products
             /\ images'[g].by # Nobody /\ images'[g].live.primary =>
                  OnImages(Req(images[g].by))' \/ (Creating(images[g].by) /\ Req(images[g].by).id = images[g].live.product)'
  <2>1. CASE images'[g].by = Nobody
    BY <1>3, <1>5, <2>1 DEF ImagesAreKnown
  <2>2. CASE images'[g].by \in Clients
    <3>1. PICK o \in Clients : images'[g].by = o
      BY <2>2
    <3> QED BY <1>4, <3>1, NobodyAssumption DEF Inserting, Creating, Is, Req, At, OnImages
  <2>3. images'[g].by \in Clients \cup {Nobody}
    BY <1>1 DEF IInv, TypeOK, Cells
  <2> QED BY <2>1, <2>2, <2>3
<1> QED BY <1>6 DEF ImagesAreKnown

\* The steps that bring a request on images closer to its insertion or promotion.
LEMMA AimingSteps ==
    ASSUME IInv, NEW p \in Clients, Statement(p)
    PROVE  /\ client'[p].pc \in {"demote", "demoting"} =>
                client[p].pc \in {"find", "demote"} /\ UNCHANGED images
           /\ Aiming(p)' => \/ FindImages(p) /\ client'[p].pc # "promote"
                            \/ BeginDemotion(p) /\ Aiming(p) /\ client'[p].pc = "demoting"
                            \/ Demote(p) /\ Aiming(p) /\ client'[p].pc \in {"insert", "promote"}
<1>1. client \in [Clients -> Clerks] /\ client[p] \in Clerks /\ client'[p].req = client[p].req
  BY StatementFrame DEF IInv
<1>2. ASSUME NEW label \in Labels, NEW S, Goto(p, label) \/ Find(p, S, label)
      PROVE  client'[p].pc = label
  <2>1. \/ client' = [client EXCEPT ![p] = [client[p] EXCEPT !.pc = label]]
        \/ client' = [client EXCEPT ![p] = [client[p] EXCEPT !.seen = S, !.pc = label]]
    BY <1>1, <1>2 DEF Goto, Find
  <2> QED BY <1>1, <1>2, <2>1 DEF Clerks
<1>3. CASE \/ InsertCategory(p) \/ WriteCategory(p) \/ DeleteCategory(p) \/ WriteProduct(p) \/ DeleteProduct(p)
           \/ RetireVariants(p) \/ InsertImages(p) \/ Promote(p) \/ DeleteImage(p)
           \/ WriteVariant(p) \/ DeleteVariant(p)
  <2>1. Goto(p, "commit")
    BY <1>3 DEF InsertCategory, WriteCategory, DeleteCategory, WriteProduct, DeleteProduct, RetireVariants,
         InsertImages, Promote, DeleteImage, WriteVariant, DeleteVariant
  <2>2. client'[p].pc = "commit"
    BY <1>2, <2>1 DEF Labels
  <2> QED BY <2>2 DEF Aiming
<1>4. CASE CountProducts(p) \/ CountLines(p) \/ FindVariant(p)
  <2>1. Goto(p, "write")
    BY <1>4 DEF CountProducts, CountLines, FindVariant
  <2>2. client'[p].pc = "write"
    BY <1>2, <2>1 DEF Labels
  <2> QED BY <2>2 DEF Aiming
<1>5. CASE InsertProduct(p)
  <2>1. Goto(p, "commit") \/ Goto(p, "clash")
    BY <1>5 DEF InsertProduct
  <2>2. client'[p].pc \in {"commit", "clash"}
    BY <1>2, <2>1 DEF Labels
  <2> QED BY <2>2 DEF Aiming
<1>6. CASE FindProduct(p) \/ RetireProduct(p) \/ BeginRetirement(p)
  <2>1. \E S : Find(p, S, "retire") \/ Find(p, S, "count") \/ Goto(p, "variants") \/ Find(p, S, "retiring")
    BY <1>6 DEF FindProduct, RetireProduct, BeginRetirement
  <2>2. client'[p].pc \in {"retire", "count", "variants", "retiring"}
    BY <1>2, <2>1 DEF Labels
  <2> QED BY <2>2 DEF Aiming
<1>7. CASE FindImages(p)
  <2>1. At(p, "find") /\ UNCHANGED images /\ (Goto(p, "demote") \/ Goto(p, "insert") \/ Goto(p, "write"))
    BY <1>7 DEF FindImages, tables
  <2>2. client'[p].pc \in {"demote", "insert", "write"}
    BY <1>2, <2>1 DEF Labels
  <2> QED BY <1>7, <2>1, <2>2 DEF At
<1>8. CASE BeginDemotion(p)
  <2>1. At(p, "demote") /\ UNCHANGED images /\ \E S : Find(p, S, "demoting")
    BY <1>8 DEF BeginDemotion, tables
  <2>2. client'[p].pc = "demoting"
    BY <1>2, <2>1 DEF Labels
  <2>3. Aiming(p)' => Aiming(p)
    BY <1>1, <2>1 DEF Aiming, At, OnImages, Req
  <2> QED BY <1>8, <2>1, <2>2, <2>3 DEF At
<1>9. CASE Demote(p)
  <2>1. At(p, "demoting") /\ (Goto(p, "insert") \/ Goto(p, "promote"))
    BY <1>9 DEF Demote
  <2>2. client'[p].pc \in {"insert", "promote"}
    BY <1>2, <2>1 DEF Labels
  <2>3. Aiming(p)' => Aiming(p)
    BY <1>1, <2>1 DEF Aiming, At, OnImages, Req
  <2> QED BY <1>9, <2>2, <2>3
<1>10. CASE CheckClash(p)
  <2>1. Goto(p, "insert") \/ Goto(p, "write")
    BY <1>10 DEF CheckClash
  <2>2. client'[p].pc \in {"insert", "write"}
    BY <1>2, <2>1 DEF Labels
  <2>3. ~OnImages(Req(p))'
    BY <1>1, <1>10 DEF CheckClash, OnImages, Is, Req
  <2> QED BY <2>2, <2>3 DEF Aiming
<1>11. CASE \E s \in Skus : InsertVariant(p, s)
  <2>1. client'[p].pc \in {"commit", "clash"}
    <3>1. PICK s \in Skus : client' = [client EXCEPT ![p] = [client[p] EXCEPT !.todo = @ \ {s},
                        !.pc = IF client[p].todo = {s} THEN "commit" ELSE "clash"]]
      BY <1>1, <1>11 DEF InsertVariant
    <3> QED BY <1>1, <3>1 DEF Clerks
  <2> QED BY <2>1 DEF Aiming
<1> QED BY <1>3, <1>4, <1>5, <1>6, <1>7, <1>8, <1>9, <1>10, <1>11 DEF Statement

LEMMA StatementLooks ==
    ASSUME IInv, LooksFirst, NEW p \in Clients, Statement(p)
    PROVE  LooksFirst'
<1>1. /\ \A o \in Clients : o # p => client'[o] = client[o]
      /\ client'[p].pc \notin {"idle", "find"}
  BY StatementFrame
<1>2. ASSUME NEW o \in Clients, client'[o].pc \in {"idle", "find", "demote", "demoting"}, NEW g \in Images
      PROVE  images'[g].by # o
  <2>1. CASE o # p
    BY <1>1, <1>2, <2>1, StatementKeepsCommitted DEF LooksFirst, Wrote
  <2>2. CASE o = p
    BY <1>1, <1>2, <2>2, AimingSteps DEF LooksFirst
  <2> QED BY <2>1, <2>2
<1> QED BY <1>2 DEF LooksFirst

\* What a request on images aims at stays the same while it is looking.
LEMMA TargetStays ==
    ASSUME IInv, NEW p \in Clients, Statement(p), NEW o \in Clients, OnImages(Req(o))
    PROVE  Target(o)' = Target(o)
<1>1. client'[o].req = client[o].req
  BY StatementFrame
<1>2. CASE Is(o, "ADD_IMAGES")
  BY <1>1, <1>2 DEF Target, Is, Req
<1>3. CASE Is(o, "SET_PRIMARY")
  <2>1. Req(o).id \in Images
    BY <1>3, RequestLemma DEF Is, Req
  <2>2. images'[Req(o).id].com = images[Req(o).id].com
    BY <2>1, StatementKeepsCommitted DEF Wrote
  <2> QED BY <1>1, <1>3, <2>2 DEF Target, Is, Req
<1> QED BY <1>2, <1>3 DEF OnImages, Is, Req

LEMMA StatementTargets ==
    ASSUME KInv, NEW p \in Clients, Statement(p)
    PROVE  TargetsAreKnown'
<1>1. /\ \A o \in Clients : o # p => client'[o] = client[o]
      /\ client'[p].req = client[p].req
  BY StatementFrame DEF KInv, WInv
<1>2. ASSUME NEW o \in Clients, Aiming(o)
      PROVE  /\ Target(o)' # "none"
             /\ Target(o)' \in Products => products'[Target(o)'].com.status # "none"
  <2>1. Target(o)' = Target(o)
    BY <1>2, TargetStays DEF KInv, WInv, Aiming
  <2> QED BY <1>2, <2>1, StatementKeepsCommitted DEF KInv, WInv, TargetsAreKnown
<1>3. ASSUME FindImages(p), Aiming(p)'
      PROVE  /\ Target(p)' # "none"
             /\ Target(p)' \in Products => products'[Target(p)'].com.status # "none"
  <2>1. OnImages(Req(p)) /\ At(p, "find")
    BY <1>1, <1>3 DEF Aiming, FindImages, OnImages, Req
  <2>2. Target(p)' = Target(p)
    BY <2>1, TargetStays DEF KInv, WInv
  <2>3. \A q \in Products : products'[q].com = products[q].com
    BY StatementKeepsCommitted DEF KInv, WInv
  <2>4. CASE Is(p, "ADD_IMAGES")
    <3>1. Target(p) = Req(p).parent /\ Req(p).parent \in Products /\ SeenProduct(Req(p).parent, p)
      BY <1>3, <2>4, RequestLemma DEF KInv, WInv, Target, FindImages, Is, Req
    <3>2. products[Req(p).parent].com.status # "none"
      <4>1. CASE products[Req(p).parent].by = p
        BY <2>4, <3>1, <4>1, NobodyAssumption DEF KInv, WInv, CreatorsHold, Creating, Is
      <4>2. CASE products[Req(p).parent].by # p
        BY <3>1, <4>2 DEF SeenProduct, See, Absent
      <4> QED BY <4>1, <4>2
    <3> QED BY <2>2, <2>3, <3>1, <3>2, CatalogueAssumption
  <2>5. CASE Is(p, "SET_PRIMARY")
    <3>1. /\ Target(p) = images[Req(p).id].com.product /\ Req(p).id \in Images
          /\ See(images[Req(p).id], p).product \in Products
      BY <1>3, <2>5, RequestLemma DEF KInv, WInv, Target, FindImages, Is, Req
    <3>2. images[Req(p).id].by # p
      BY <2>1, <3>1 DEF KInv, LooksFirst, At
    <3>3. Target(p) \in Products
      BY <3>1, <3>2 DEF See
    <3>4. products[Target(p)].com.status # "none"
      BY <3>1, <3>3 DEF KInv, WInv, IInv, ImagesBacked, Backed, Absent
    <3> QED BY <2>2, <2>3, <3>3, <3>4, CatalogueAssumption
  <2> QED BY <2>1, <2>4, <2>5 DEF OnImages, Is, Req
<1>4. ASSUME NEW o \in Clients, Aiming(o)'
      PROVE  /\ Target(o)' # "none"
             /\ Target(o)' \in Products => products'[Target(o)'].com.status # "none"
  <2>1. CASE o # p
    <3>1. Aiming(o)
      BY <1>1, <1>4, <2>1 DEF Aiming, Req
    <3> QED BY <1>2, <3>1
  <2>2. CASE o = p
    BY <1>2, <1>3, <1>4, <2>2, AimingSteps DEF KInv, WInv
  <2> QED BY <2>1, <2>2
<1> QED BY <1>4 DEF TargetsAreKnown

LEMMA EndKnown ==
    ASSUME KInv, NEW p \in Clients, NEW published \in BOOLEAN,
           IF published THEN Commit(p) ELSE Rollback(p)
    PROVE  ImagesAreKnown' /\ LooksFirst' /\ TargetsAreKnown'
<1>1. /\ \A q \in Products : Ends(products[q], products'[q], p, published)
      /\ \A g \in Images : Ends(images[g], images'[g], p, published)
      /\ client'[p] = Idle /\ \A o \in Clients : o # p => client'[o] = client[o]
  BY EndFrame DEF KInv, WInv
<1>2. IInv /\ IInv'
  BY StepIInv DEF KInv, WInv, Next
<1>3. Idle.req.op = "none" /\ Idle.pc = "idle"
  BY DEF Idle, Blank
<1>4. ASSUME NEW g \in Images
      PROVE  /\ images'[g].by # Nobody => images'[g].live.product # "none"
             /\ images'[g].live.product \in Products /\ images'[g].live.product # images'[g].com.product =>
                  images'[g].com.product = "none" /\ Inserting(images[g].by, images[g].live.product)'
             /\ images'[g].com.primary => images'[g].com.product \in Products
             /\ images'[g].live.primary => images'[g].live.product \in Products
             /\ images'[g].by # Nobody /\ images'[g].live.primary =>
                  OnImages(Req(images[g].by))' \/ (Creating(images[g].by) /\ Req(images[g].by).id = images[g].live.product)'
  <2>1. CASE images[g].by = p
    BY <1>1, <2>1 DEF Ends, KInv, ImagesAreKnown
  <2>2. CASE images[g].by # p
    <3>1. images'[g] = images[g]
      BY <1>1, <2>2 DEF Ends
    <3>2. images[g].by = Nobody => images[g].live = images[g].com
      BY <1>2 DEF IInv, TypeOK, Closed
    <3>3. images[g].by \in Clients \cup {Nobody}
      BY <1>2 DEF IInv, TypeOK, Cells
    <3>4. CASE images[g].by = Nobody
      BY <3>1, <3>2, <3>4 DEF KInv, ImagesAreKnown
    <3>5. CASE images[g].by \in Clients
      BY <1>1, <2>2, <3>1, <3>5 DEF KInv, ImagesAreKnown, Inserting, Creating, Is, Req, At, OnImages
    <3> QED BY <3>3, <3>4, <3>5
  <2> QED BY <2>1, <2>2
<1>5. ImagesAreKnown'
  BY <1>4 DEF ImagesAreKnown
<1>6. LooksFirst'
  <2> SUFFICES ASSUME NEW o \in Clients, client'[o].pc \in {"idle", "find", "demote", "demoting"}, NEW g \in Images
               PROVE  images'[g].by # o
    BY DEF LooksFirst
  <2>1. CASE o = p
    BY <1>1, <2>1, NobodyAssumption DEF Ends
  <2>2. CASE o # p
    BY <1>1, <2>2, NobodyAssumption DEF Ends, KInv, LooksFirst
  <2> QED BY <2>1, <2>2
<1>7. TargetsAreKnown'
  <2> SUFFICES ASSUME NEW o \in Clients, Aiming(o)'
               PROVE  /\ Target(o)' # "none"
                      /\ Target(o)' \in Products => products'[Target(o)'].com.status # "none"
    BY DEF TargetsAreKnown
  <2>1. o # p /\ client'[o] = client[o] /\ Aiming(o) /\ Req(o)' = Req(o)
    BY <1>1, <1>3 DEF Aiming, OnImages, Req
  <2>2. CASE Is(o, "ADD_IMAGES")
    <3>1. Target(o)' = Target(o) /\ Target(o) \in Products
      BY <2>1, <2>2, <1>2, RequestLemma DEF Target, Is, Req
    <3>2. products[Target(o)].com.status # "none"
      BY <2>1, <3>1 DEF KInv, TargetsAreKnown
    <3>3. products[Target(o)].by = p => products[Target(o)].live.status # "none"
      BY <3>1, NobodyAssumption DEF KInv, WInv, CreatorsHold
    <3> QED BY <1>1, <3>1, <3>2, <3>3, CatalogueAssumption DEF Ends
  <2>3. CASE Is(o, "SET_PRIMARY")
    <3> DEFINE g == Req(o).id
    <3>1. g \in Images /\ Target(o) = images[g].com.product /\ Target(o)' = images'[g].com.product
      BY <1>2, <2>1, <2>3, RequestLemma DEF Target, Is, Req
    <3>2. images[g].com.product # "none"
      BY <2>1, <3>1 DEF KInv, TargetsAreKnown
    <3>3. images[g].by = p => images[g].live.product # "none"
      BY <3>1, NobodyAssumption DEF KInv, ImagesAreKnown
    <3>4. images'[g].com.product # "none"
      BY <1>1, <3>1, <3>2, <3>3 DEF Ends
    <3>5. images'[g].com.product \in Products => products'[images'[g].com.product].com.status # "none"
      BY <1>2, <3>1 DEF IInv, ImagesBacked, Backed, Absent
    <3> QED BY <3>1, <3>4, <3>5
  <2> QED BY <2>1, <2>2, <2>3 DEF Aiming, OnImages, Is, Req
<1> QED BY <1>5, <1>6, <1>7

LEMMA BeginKnown ==
    ASSUME KInv, NEW p \in Clients, NEW req \in Requests, Begin(p, req)
    PROVE  ImagesAreKnown' /\ LooksFirst' /\ TargetsAreKnown'
<1>1. /\ UNCHANGED <<products, images>>
      /\ \A o \in Clients : o # p => client'[o] = client[o]
      /\ At(p, "idle") /\ client'[p].req = req
      /\ OnImages(req) => client'[p].pc = "find"
  BY BeginFrame DEF KInv, WInv, tables
<1>2. \A g \in Images : /\ images[g].by # p /\ images[g].by \in Clients \cup {Nobody}
                        /\ images[g].by = Nobody => images[g].live = images[g].com
  BY <1>1 DEF KInv, WInv, IInv, TypeOK, Cells, Closed, LooksFirst, At
<1>3. ASSUME NEW g \in Images
      PROVE  /\ images[g].live.product \in Products /\ images[g].live.product # images[g].com.product =>
                  images[g].com.product = "none" /\ Inserting(images[g].by, images[g].live.product)'
             /\ images[g].by # Nobody /\ images[g].live.primary =>
                  OnImages(Req(images[g].by))' \/ (Creating(images[g].by) /\ Req(images[g].by).id = images[g].live.product)'
  <2>1. CASE images[g].by = Nobody
    BY <1>1, <1>2, <2>1
  <2>2. CASE images[g].by \in Clients
    <3>1. client'[images[g].by] = client[images[g].by]
      BY <1>1, <1>2, <2>2
    <3> QED BY <1>1, <2>2, <3>1 DEF KInv, ImagesAreKnown, Inserting, Creating, Is, Req, At, OnImages
  <2> QED BY <1>2, <2>1, <2>2
<1>4. ImagesAreKnown'
  BY <1>1, <1>3 DEF KInv, ImagesAreKnown
<1>5. LooksFirst'
  BY <1>1, <1>2 DEF KInv, LooksFirst
<1>6. TargetsAreKnown'
  <2> SUFFICES ASSUME NEW o \in Clients, Aiming(o)'
               PROVE  /\ Target(o)' # "none"
                      /\ Target(o)' \in Products => products'[Target(o)'].com.status # "none"
    BY DEF TargetsAreKnown
  <2>1. o # p
    BY <1>1 DEF Aiming, Req
  <2>2. Aiming(o) /\ Target(o)' = Target(o)
    BY <1>1, <2>1 DEF Aiming, Req, Target, Is
  <2> QED BY <1>1, <2>2 DEF KInv, TargetsAreKnown
<1> QED BY <1>4, <1>5, <1>6

LEMMA StepKInv ==
    ASSUME KInv, [Next]_vars
    PROVE  KInv'
<1>1. WInv'
  BY StepWInv DEF KInv
<1>2. CASE UNCHANGED <<products, images, client>>
  BY <1>1, <1>2 DEF KInv, ImagesAreKnown, LooksFirst, TargetsAreKnown, Inserting, Creating, Aiming, Target,
                    Is, Req, At
<1>3. ASSUME NEW p \in Clients, Statement(p)
      PROVE  KInv'
  BY <1>1, <1>3, StatementKnown, StatementLooks, StatementTargets DEF KInv, WInv
<1>4. ASSUME NEW p \in Clients, NEW req \in Requests, Begin(p, req)
      PROVE  KInv'
  BY <1>1, <1>4, BeginKnown DEF KInv
<1>5. ASSUME NEW p \in Clients, Commit(p) \/ Rollback(p)
      PROVE  KInv'
  BY <1>1, <1>5, EndKnown DEF KInv
<1> QED BY <1>2, <1>3, <1>4, <1>5 DEF Next, vars, tables, TradeVariant

-----------------------------------------------------------------------------
\* One primary image.

\* While p aims at a product nobody else inserts images of it, ...
LEMMA NobodyInserts ==
    ASSUME KInv, AddsAlone, NEW p \in Clients, Aiming(p), Target(p) \in Products,
           NEW g \in Images, images[g].live.product = Target(p), images[g].com.product # Target(p)
    PROVE  images[g].by = p
<1>1. Inserting(images[g].by, Target(p)) /\ images[g].by \in Clients
  BY DEF KInv, WInv, IInv, TypeOK, Closed, Cells, ImagesAreKnown
<1>2. PICK o \in Clients : o = images[g].by /\ Inserting(o, Target(p))
  BY <1>1
<1>3. CASE Creating(o) /\ Req(o).id = Target(p)
  <2>1. products[Target(p)].com.status = "none"
    BY <1>3 DEF KInv, WInv, CreatorsHold
  <2> QED BY <2>1 DEF KInv, TargetsAreKnown
<1>4. CASE Is(o, "ADD_IMAGES") /\ At(o, "commit")
  BY <1>2, <1>4 DEF AddsAlone, Aiming, At
<1> QED BY <1>2, <1>3, <1>4 DEF Inserting

\* ... and while p adds images nobody else makes one primary.
LEMMA NobodyPromotes ==
    ASSUME KInv, AddsAlone, NEW p \in Clients, Aiming(p), Is(p, "ADD_IMAGES"), NEW g \in Images,
           images[g].by # Nobody, images[g].live.primary, images[g].live.product = Target(p)
    PROVE  images[g].by = p
<1>1. PICK o \in Clients : o = images[g].by
  BY DEF KInv, WInv, IInv, TypeOK, Cells
<1>2. OnImages(Req(o)) \/ (Creating(o) /\ Req(o).id = Target(p))
  BY <1>1 DEF KInv, ImagesAreKnown
<1>3. ~At(o, "idle") /\ ~At(p, "idle")
  BY <1>1 DEF KInv, LooksFirst, Aiming, At
<1>4. CASE Creating(o) /\ Req(o).id = Target(p)
  <2>1. products[Target(p)].com.status = "none"
    BY <1>4 DEF KInv, WInv, CreatorsHold
  <2>2. Target(p) \in Products
    BY RequestLemma DEF KInv, WInv, Target, Is, Req
  <2> QED BY <2>1, <2>2 DEF KInv, TargetsAreKnown
<1> QED BY <1>1, <1>2, <1>3, <1>4 DEF AddsAlone

LEMMA StatementFinds ==
    ASSUME KInv, FindsAll, NEW p \in Clients, Statement(p)
    PROVE  FindsAll'
<1>1. /\ \A o \in Clients : o # p => client'[o] = client[o]
      /\ client'[p].req = client[p].req
      /\ client \in [Clients -> Clerks] /\ client[p] \in Clerks
  BY StatementFrame DEF KInv, WInv, IInv
<1>2. \A g \in Images : images'[g].com = images[g].com
  BY StatementKeepsCommitted DEF KInv, WInv, Wrote
<1> SUFFICES ASSUME NEW o \in Clients, OnImages(Req(o))', At(o, "demoting")', Target(o)' \in Products,
                    NEW g \in Images, images'[g].com.product = Target(o)'
             PROVE  g \in client'[o].seen
  BY DEF FindsAll
<1>3. OnImages(Req(o)) /\ Target(o)' = Target(o) /\ images[g].com.product = Target(o)
  BY <1>1, <1>2, TargetStays DEF OnImages, Req, KInv, WInv
<1>4. CASE o # p
  BY <1>1, <1>3, <1>4 DEF FindsAll, At
<1>5. CASE o = p
  <2>1. BeginDemotion(p)
    BY <1>5, AimingSteps, <1>1 DEF KInv, WInv, Aiming, At, FindImages, Goto, Clerks
  <2>2. At(p, "demote") /\ Find(p, ImagesOf(IF Is(p, "ADD_IMAGES") THEN Req(p).parent
                                            ELSE See(images[Req(p).id], p).product, p), "demoting")
    BY <2>1 DEF BeginDemotion
  <2>3. \A h \in Images : See(images[h], p) = images[h].com
    BY <2>2 DEF KInv, LooksFirst, See, At
  <2>4. (IF Is(p, "ADD_IMAGES") THEN Req(p).parent ELSE See(images[Req(p).id], p).product) = Target(p)
    <3>1. Is(p, "ADD_IMAGES") \/ Req(p).id \in Images
      BY <1>3, <1>5, RequestLemma DEF KInv, WInv, OnImages, Is, Req
    <3> QED BY <2>3, <3>1 DEF Target
  <2>5. client'[p].seen = ImagesOf(Target(p), p)
    <3>1. client' = [client EXCEPT ![p] = [client[p] EXCEPT !.seen = ImagesOf(Target(p), p), !.pc = "demoting"]]
      BY <1>1, <2>2, <2>4 DEF Find
    <3> QED BY <1>1, <3>1 DEF Clerks
  <2> QED BY <1>3, <1>5, <2>3, <2>5 DEF ImagesOf
<1> QED BY <1>4, <1>5

LEMMA StatementDemoted ==
    ASSUME KInv, AddsAlone, FindsAll, DemotedAll, NEW p \in Clients, Statement(p)
    PROVE  DemotedAll'
<1>1. /\ \A o \in Clients : o # p => client'[o] = client[o]
      /\ client'[p].req = client[p].req /\ ~At(p, "idle")
      /\ client \in [Clients -> Clerks] /\ client[p] \in Clerks
  BY StatementFrame DEF KInv, WInv, IInv, At
<1>2. \A g \in Images : images'[g] = images[g] \/ Wrote(images[g], images'[g], p)
  BY StatementKeepsCommitted DEF KInv, WInv
<1>3. "gone" \notin Products
  BY CatalogueAssumption
<1> SUFFICES ASSUME NEW o \in Clients, OnImages(Req(o))', client'[o].pc \in {"insert", "promote"}
             PROVE  /\ \A g \in Images : images'[g].by = o => ~images'[g].live.primary
                    /\ WantsPrimary(o)' /\ Target(o)' \in Products =>
                         \A g \in Images : Target(o)' \in {images'[g].com.product, images'[g].live.product}
                            => images'[g].by = o
  BY DEF DemotedAll
<1>4. OnImages(Req(o)) /\ Target(o)' = Target(o) /\ WantsPrimary(o)' = WantsPrimary(o)
  BY <1>1, TargetStays DEF OnImages, Req, Is, WantsPrimary, KInv, WInv
<1>5. CASE o # p
  <2>1. client[o].pc \in {"insert", "promote"} /\ ~At(o, "idle") /\ Aiming(o)
    BY <1>1, <1>4, <1>5 DEF At, Aiming
  <2>2. \A g \in Images : images[g].by = o \/ images'[g].by = o => images'[g] = images[g]
    BY <1>2, <1>5, NobodyAssumption DEF Wrote, Free
  <2>3. ASSUME WantsPrimary(o), Target(o) \in Products, NEW g \in Images,
               Target(o) \in {images'[g].com.product, images'[g].live.product}
        PROVE  images'[g].by = o
    <3>1. CASE Target(o) \in {images[g].com.product, images[g].live.product}
      BY <1>4, <2>1, <2>2, <2>3, <3>1 DEF DemotedAll
    <3>2. CASE Target(o) \notin {images[g].com.product, images[g].live.product}
      <4>1. InsertProduct(p) \/ InsertImages(p)
        <5>1. images'[g].live.product # images[g].live.product /\ images'[g].live.product \in Products
          BY <1>2, <2>3, <3>2 DEF Wrote
        <5> QED BY <1>3, <5>1, ImagesLowered, PromoteLemma DEF KInv, WInv, Lowered
      <4>2. PICK q \in Products :
              /\ \/ products[q] = Cell(NoProduct)
                 \/ Is(p, "ADD_IMAGES")
              /\ \/ images'[g] = images[g]
                 \/ images'[g].live.product = q /\ Wrote(images[g], images'[g], p)
        BY <4>1, InsertFrame DEF KInv, WInv
      <4>3. q = Target(o)
        BY <2>3, <3>2, <4>2 DEF Wrote
      <4>4. products[Target(o)].com.status # "none"
        BY <2>1, <2>3 DEF KInv, TargetsAreKnown
      <4>5. ~Is(p, "ADD_IMAGES")
        BY <1>1, <1>4, <1>5, <2>1 DEF AddsAlone
      <4> QED BY <4>2, <4>3, <4>4, <4>5, CellLemma DEF NoProduct
    <3> QED BY <3>1, <3>2
  <2> QED BY <1>4, <2>1, <2>2, <2>3 DEF DemotedAll
<1>6. CASE o = p /\ FindImages(p)
  <2>1. At(p, "find") /\ UNCHANGED images /\ client'[p].pc = "insert"
    <3>1. At(p, "find") /\ UNCHANGED images
      BY <1>6 DEF FindImages, tables
    <3>2. Aiming(p)' /\ ~Demote(p)
      BY <1>6, <3>1 DEF Aiming, Demote, At
    <3> QED BY <1>6, <3>1, <3>2, AimingSteps DEF KInv, WInv
  <2>2. \A g \in Images : images[g].by # p
    BY <2>1 DEF KInv, LooksFirst, At
  <2>3. ~WantsPrimary(p)
    <3>1. \/ Is(p, "ADD_IMAGES") /\ Goto(p, IF \E i \in DOMAIN Req(p).marks : Normalised(Req(p).marks)[i]
                                            THEN "demote" ELSE "insert")
          \/ Goto(p, "demote") \/ Goto(p, "write")
      BY <1>6 DEF FindImages
    <3>2. ASSUME NEW label, Goto(p, label)
          PROVE  client'[p].pc = label
      BY <1>1, <3>2 DEF Goto, Clerks
    <3>3. /\ Is(p, "ADD_IMAGES")
          /\ (IF \E i \in DOMAIN Req(p).marks : Normalised(Req(p).marks)[i] THEN "demote" ELSE "insert") = "insert"
      BY <2>1, <3>1, <3>2
    <3> QED BY <3>3 DEF WantsPrimary, Is
  <2> QED BY <1>4, <1>6, <2>1, <2>2, <2>3
<1>7. CASE o = p /\ Demote(p)
  <2>1. /\ At(p, "demoting") /\ Aiming(p)
        /\ \A g \in client[p].seen : Free(images[g], p)
        /\ images' = [g \in Images |-> IF g \in client[p].seen /\ See(images[g], p).product \in Products
                THEN Written(images[g], p, [See(images[g], p) EXCEPT !.primary = FALSE]) ELSE images[g]]
    BY <1>4, <1>7 DEF Demote, Aiming, At
  <2>2. \A g \in Images : images[g].by # p
    BY <2>1 DEF KInv, LooksFirst, At
  <2>3. \A g \in Images : images'[g] = images[g] \/ Lowered(images[g], images'[g], p)
    BY <2>1, ImagesLowered DEF KInv, WInv, InsertProduct, InsertImages, Promote, At
  <2>4. ASSUME Target(p) \in Products, NEW g \in Images,
               Target(p) \in {images'[g].com.product, images'[g].live.product}
        PROVE  images'[g].by = p
    <3>1. Target(p) \in {images[g].com.product, images[g].live.product}
      BY <1>3, <2>3, <2>4 DEF Lowered, Wrote
    <3>2. images[g].com.product = Target(p)
      BY <2>1, <2>2, <2>4, <3>1, NobodyInserts
    <3>3. g \in client[p].seen
      BY <1>4, <1>7, <2>1, <2>4, <3>2 DEF FindsAll
    <3>4. See(images[g], p).product \in Products
      BY <2>2, <2>4, <3>2 DEF See
    <3>5. images'[g] = Written(images[g], p, [See(images[g], p) EXCEPT !.primary = FALSE])
      BY <2>1, <3>3, <3>4
    <3>6. images[g] \in Cells(ImageRows)
      BY DEF KInv, WInv, IInv, TypeOK
    <3> QED BY <3>5, <3>6, RowLemma
  <2> QED BY <1>4, <1>7, <2>2, <2>3, <2>4 DEF Lowered
<1> QED BY <1>4, <1>5, <1>6, <1>7, AimingSteps DEF KInv, WInv, Aiming

LEMMA StatementPending ==
    ASSUME KInv, AddsAlone, DemotedAll, PendingIsSole, NEW p \in Clients, Statement(p)
    PROVE  PendingIsSole'
<1>1. IInv /\ KInv' /\ client \in [Clients -> Clerks]
  BY StepKInv DEF KInv, WInv, IInv, Next
<1> SUFFICES ASSUME NEW g \in Images, NEW h \in Images, g # h,
                    images'[g].by # Nobody, images'[g].live.primary,
                    images'[g].live.product \in {images'[h].com.product, images'[h].live.product}
             PROVE  images'[h].by = images'[g].by /\ ~images'[h].live.primary
  BY DEF PendingIsSole
<1> DEFINE T == images'[g].live.product
<1>2. T \in Products /\ "gone" \notin Products /\ "none" \notin Products
  BY <1>1, CatalogueAssumption DEF KInv, ImagesAreKnown
<1>3. ASSUME images'[g] = images[g],
             T \in {images[h].com.product, images[h].live.product}
      PROVE  images[h].by = images[g].by /\ ~images[h].live.primary /\ images[g].by # Nobody /\ images[g].live.primary
  BY <1>3 DEF PendingIsSole
<1>4. CASE InsertProduct(p) \/ InsertImages(p)
  <2>1. PICK q \in Products :
             /\ \/ InsertProduct(p) /\ Is(p, "NEW_PRODUCT") /\ q = Req(p).id /\ products[q] = Cell(NoProduct)
                \/ InsertImages(p) /\ Is(p, "ADD_IMAGES") /\ q = Req(p).parent /\ At(p, "insert")
                   /\ client'[p].pc = "commit"
             /\ Inserted(p, q, Req(p).marks) /\ Req(p).marks \in Seq({"yes", "no", "unset"})
             /\ \A x \in Images :
                  \/ images'[x] = images[x]
                  \/ /\ Wrote(images[x], images'[x], p) /\ images'[x].live.product = q
                     /\ images[x].com = NoImage /\ images[x].live = NoImage /\ images[x].by = Nobody
    BY <1>1, <1>4, InsertFrame
  <2>2. /\ \A x, y \in Images :
                /\ images'[x] # images[x] /\ images'[x].live.primary
                /\ images'[y] # images[y] /\ images'[y].live.primary
                => x = y
        /\ \A x \in Images : images'[x] # images[x] /\ images'[x].live.primary
                => \E i \in DOMAIN Req(p).marks : Normalised(Req(p).marks)[i]
    <3>1. /\ q \in Products /\ Req(p).marks \in Seq({"yes", "no", "unset"}) /\ Inserted(p, q, Req(p).marks)
      BY <2>1
    <3> HIDE DEF T
    <3> QED BY <1>1, <3>1, InsertedPrimary
  <2>3. ASSUME products[q] = Cell(NoProduct), NEW x \in Images
        PROVE  q \notin {images[x].com.product, images[x].live.product}
    <3>1. products[q].com.status = "none" /\ products[q].live.status = "none"
      BY <2>3, CellLemma DEF NoProduct
    <3> QED BY <1>1, <3>1 DEF IInv, ImagesBacked, Backed, Absent
  <2>4. ASSUME Is(p, "ADD_IMAGES"), At(p, "insert"), q = Req(p).parent
        PROVE  /\ Aiming(p) /\ OnImages(Req(p)) /\ Target(p) = q /\ client[p].pc = "insert"
               /\ \A x \in Images : images[x].by = p => ~images[x].live.primary
    BY <2>4 DEF Aiming, OnImages, Target, At, Is, Req, DemotedAll
  <2>5. CASE images'[g] = images[g] /\ images'[h] = images[h]
    BY <1>3, <2>5
  <2>6. CASE images'[g] = images[g] /\ images'[h] # images[h]
    <3>1. T = q /\ images[g].live.product = q /\ images[g].by # Nobody /\ images[g].live.primary
      BY <1>2, <2>1, <2>6 DEF Wrote, NoImage
    <3>2. CASE products[q] = Cell(NoProduct)
      BY <2>3, <3>1, <3>2
    <3>3. CASE Is(p, "ADD_IMAGES") /\ q = Req(p).parent /\ At(p, "insert")
      <4> HIDE DEF T
      <4>1. images[g].by = p
        BY <2>4, <3>1, <3>3, NobodyPromotes
      <4> QED BY <2>4, <3>1, <3>3, <4>1
    <3> QED BY <2>1, <3>2, <3>3
  <2>7. CASE images'[g] # images[g] /\ images'[h] = images[h]
    <3>1. T = q /\ images'[g].by = p /\ q \in {images[h].com.product, images[h].live.product}
      BY <2>1, <2>7 DEF Wrote
    <3>2. CASE products[q] = Cell(NoProduct)
      BY <2>3, <3>1, <3>2
    <3>3. CASE Is(p, "ADD_IMAGES") /\ q = Req(p).parent /\ At(p, "insert")
      <4>1. WantsPrimary(p)
        BY <2>2, <2>7 DEF WantsPrimary
      <4>2. images[h].by = p
        BY <2>4, <3>1, <3>3, <4>1 DEF DemotedAll
      <4> QED BY <2>4, <2>7, <3>1, <3>3, <4>2
    <3> QED BY <2>1, <3>2, <3>3
  <2>8. CASE images'[g] # images[g] /\ images'[h] # images[h]
    BY <2>1, <2>2, <2>8 DEF Wrote
  <2> QED BY <2>5, <2>6, <2>7, <2>8
<1>5. CASE Promote(p)
  <2> DEFINE x == Req(p).id
  <2>1. /\ x \in Images /\ Is(p, "SET_PRIMARY")
        /\ Wrote(images[x], images'[x], p)
        /\ images'[x].live.product = images[x].live.product
        /\ \A y \in Images : y # x => images'[y] = images[y]
    BY <1>1, <1>5, PromoteLemma
  <2>2. OnImages(Req(p)) /\ client[p].pc = "promote" /\ Aiming(p) /\ WantsPrimary(p)
        /\ Target(p) = images[x].com.product
    BY <1>5, <2>1 DEF Promote, OnImages, Is, Req, At, Aiming, WantsPrimary, Target
  <2>3. \A y \in Images : images[y].by = p => ~images[y].live.primary
    BY <2>2 DEF DemotedAll
  <2> HIDE DEF x
  <2>4. CASE g # x /\ h # x
    BY <1>3, <2>1, <2>4
  <2>5. CASE g # x /\ h = x
    <3>1. images'[g] = images[g] /\ T \in {images[h].com.product, images[h].live.product}
      BY <2>1, <2>5 DEF Wrote
    <3>2. images[h].by = images[g].by /\ images[g].by # Nobody /\ images[g].live.primary
      BY <1>3, <3>1
    <3> QED BY <2>1, <2>3, <2>5, <3>2 DEF Wrote, Free
  <2>6. CASE g = x
    <3>1. images'[h] = images[h] /\ images'[g].by = p /\ T = images[g].live.product
      BY <2>1, <2>6 DEF Wrote
    <3>2. T = Target(p)
      <4>1. images[g].com.product # "none"
        BY <2>2, <2>6 DEF KInv, TargetsAreKnown
      <4> QED BY <1>2, <2>2, <2>6, <3>1, <4>1 DEF KInv, ImagesAreKnown
    <3>3. images[h].by = p
      BY <1>2, <2>2, <3>1, <3>2 DEF DemotedAll
    <3> QED BY <2>3, <3>1, <3>3
  <2> QED BY <2>4, <2>5, <2>6
<1>6. CASE ~InsertProduct(p) /\ ~InsertImages(p) /\ ~Promote(p)
  <2>1. \A x \in Images : images'[x] = images[x] \/ Lowered(images[x], images'[x], p)
    BY <1>1, <1>6, ImagesLowered
  <2>2. images'[g] = images[g]
    BY <2>1 DEF Lowered
  <2>3. CASE images'[h] = images[h]
    BY <1>3, <2>2, <2>3
  <2>4. CASE Lowered(images[h], images'[h], p)
    <3>1. T \in {images[h].com.product, images[h].live.product}
      BY <1>2, <2>4 DEF Lowered, Wrote
    <3> QED BY <1>3, <2>2, <2>4, <3>1 DEF Lowered, Wrote, Free
  <2> QED BY <2>1, <2>3, <2>4
<1> QED BY <1>4, <1>5, <1>6

LEMMA StatementGallery ==
    ASSUME KInv, Gallery, NEW p \in Clients, Statement(p)
    PROVE  Gallery'
<1>1. /\ \A o \in Clients : o # p => client'[o] = client[o]
      /\ client'[p].req = client[p].req /\ client[p].pc # "idle" /\ client'[p].pc # "idle"
  BY StatementFrame DEF KInv, WInv
<1>2. AddsAlone'
  BY <1>1 DEF Gallery, AddsAlone, At, Is, Req, OnImages
<1>3. CommittedIsSole'
  BY StatementKeepsCommitted DEF KInv, WInv, Wrote, Gallery, CommittedIsSole
<1> QED BY <1>2, <1>3, StatementFinds, StatementDemoted, StatementPending DEF Gallery

LEMMA EndGallery ==
    ASSUME KInv, Gallery, NEW p \in Clients, NEW published \in BOOLEAN,
           IF published THEN Commit(p) ELSE Rollback(p)
    PROVE  Gallery'
<1>1. /\ \A g \in Images : Ends(images[g], images'[g], p, published)
      /\ client'[p] = Idle /\ \A o \in Clients : o # p => client'[o] = client[o]
  BY EndFrame DEF KInv, WInv
<1>2. Idle.req.op = "none" /\ Idle.pc = "idle"
  BY DEF Idle, Blank
<1>3. IInv /\ \A g \in Images : images[g].by \in Clients \cup {Nobody}
  BY DEF KInv, WInv, IInv, TypeOK, Cells
<1>4. \A g \in Images : /\ images'[g].com.product \in {images[g].com.product, images[g].live.product}
                        /\ images'[g].live.product \in {images[g].com.product, images[g].live.product}
                        /\ images[g].by # p => images'[g] = images[g]
  BY <1>1 DEF Ends
<1>5. ASSUME NEW o \in Clients, Aiming(o)', Target(o)' \in Products
      PROVE  o # p /\ client'[o] = client[o] /\ Aiming(o) /\ Target(o)' = Target(o)
  <2>1. o # p /\ client'[o] = client[o] /\ Aiming(o) /\ Req(o)' = Req(o)
    BY <1>1, <1>2, <1>5 DEF Aiming, OnImages, Req
  <2>2. CASE Is(o, "ADD_IMAGES")
    BY <2>1, <2>2 DEF Target, Is
  <2>3. CASE Is(o, "SET_PRIMARY")
    <3> DEFINE g == Req(o).id
    <3>1. g \in Images /\ Target(o) = images[g].com.product /\ Target(o)' = images'[g].com.product
      BY <1>3, <2>1, <2>3, RequestLemma DEF Target, Is, Req
    <3>2. images[g].com.product # "none"
      BY <2>1, <3>1 DEF KInv, TargetsAreKnown
    <3> QED BY <1>4, <1>5, <2>1, <3>1, <3>2 DEF KInv, ImagesAreKnown
  <2> QED BY <2>1, <2>2, <2>3 DEF Aiming, OnImages, Is, Req
<1>6. AddsAlone'
  BY <1>1, <1>2 DEF Gallery, AddsAlone, At, Is, Req, OnImages
<1>7. FindsAll'
  <2> SUFFICES ASSUME NEW o \in Clients, OnImages(Req(o))', At(o, "demoting")', Target(o)' \in Products,
                      NEW g \in Images, images'[g].com.product = Target(o)'
               PROVE  g \in client'[o].seen
    BY DEF FindsAll
  <2>1. o # p /\ client'[o] = client[o] /\ Aiming(o) /\ Target(o)' = Target(o)
    BY <1>5 DEF Aiming, At
  <2>2. images[g].com.product = Target(o)
    <3>1. CASE images[g].com.product # Target(o)
      <4>1. images[g].live.product = Target(o)
        BY <1>4, <2>1, <3>1
      <4>2. images[g].by = o
        BY <2>1, <3>1, <4>1, NobodyInserts DEF Gallery
      <4> QED BY <1>4, <2>1, <3>1, <4>2
    <3> QED BY <3>1
  <2> QED BY <2>1, <2>2 DEF Gallery, FindsAll, Aiming, At
<1>8. DemotedAll'
  <2> SUFFICES ASSUME NEW o \in Clients, OnImages(Req(o))', client'[o].pc \in {"insert", "promote"}
               PROVE  /\ \A g \in Images : images'[g].by = o => ~images'[g].live.primary
                      /\ WantsPrimary(o)' /\ Target(o)' \in Products =>
                           \A g \in Images : Target(o)' \in {images'[g].com.product, images'[g].live.product}
                              => images'[g].by = o
    BY DEF DemotedAll
  <2>1. o # p /\ client'[o] = client[o] /\ OnImages(Req(o)) /\ WantsPrimary(o)' = WantsPrimary(o)
    BY <1>1, <1>2 DEF OnImages, Req, WantsPrimary, Is
  <2>2. \A g \in Images : images[g].by = o \/ images'[g].by = o => images'[g] = images[g]
    BY <1>1, <2>1, NobodyAssumption DEF Ends
  <2>3. ASSUME Target(o)' \in Products
        PROVE  Target(o)' = Target(o)
    BY <1>5, <2>3 DEF Aiming
  <2> QED BY <1>4, <2>1, <2>2, <2>3 DEF Gallery, DemotedAll
<1>9. PendingIsSole'
  <2> SUFFICES ASSUME NEW g \in Images, NEW h \in Images, g # h,
                      images'[g].by # Nobody, images'[g].live.primary,
                      images'[g].live.product \in {images'[h].com.product, images'[h].live.product}
               PROVE  images'[h].by = images'[g].by /\ ~images'[h].live.primary
    BY DEF PendingIsSole
  <2>1. images'[g] = images[g] /\ images[g].by # p
    BY <1>1 DEF Ends
  <2>2. images[h].by = images[g].by /\ ~images[h].live.primary
    BY <1>4, <2>1 DEF Gallery, PendingIsSole
  <2> QED BY <1>4, <2>1, <2>2
<1>10. CommittedIsSole'
  <2> SUFFICES ASSUME NEW g \in Images, NEW h \in Images, g # h,
                      images'[g].com.primary, images'[h].com.primary,
                      images'[g].com.product = images'[h].com.product
               PROVE  FALSE
    BY DEF CommittedIsSole
  <2>1. CASE images'[g].com = images[g].com /\ images'[h].com = images[h].com
    BY <2>1 DEF Gallery, CommittedIsSole
  <2>2. ASSUME NEW x \in Images, NEW y \in Images, x # y, images'[x].com # images[x].com,
               images'[x].com.primary, images'[y].com.primary,
               images'[x].com.product = images'[y].com.product
        PROVE  FALSE
    <3>1. images[x].by = p /\ images'[x].com = images[x].live /\ published
      BY <1>1, <2>2 DEF Ends
    <3>2. images'[y].com.product \in {images[y].com.product, images[y].live.product}
      BY <1>4
    <3>3. images[y].by = p /\ ~images[y].live.primary
      BY <2>2, <3>1, <3>2, NobodyAssumption DEF Gallery, PendingIsSole
    <3> QED BY <1>1, <2>2, <3>1, <3>3 DEF Ends
  <2> QED BY <2>1, <2>2
<1> QED BY <1>6, <1>7, <1>8, <1>9, <1>10 DEF Gallery

LEMMA BeginGallery ==
    ASSUME KInv, Gallery, NEW p \in Clients, NEW req \in Requests, Begin(p, req), ~crossed'
    PROVE  Gallery'
<1>1. /\ UNCHANGED images
      /\ \A o \in Clients : o # p => client'[o] = client[o]
      /\ client'[p].req = req
      /\ OnImages(req) => client'[p].pc = "find"
  BY BeginFrame DEF KInv, WInv, tables
<1>2. \A o \in Clients : ~At(o, "idle") /\ OnImages(req) /\ OnImages(Req(o)) => "ADD_IMAGES" \notin {req.op, Req(o).op}
  BY DEF Begin
<1>3. AddsAlone'
  <2> SUFFICES ASSUME NEW o \in Clients, NEW q \in Clients,
                      o # q, ~At(o, "idle")', ~At(q, "idle")', Is(o, "ADD_IMAGES")', OnImages(Req(q))'
               PROVE  FALSE
    BY DEF AddsAlone, At, Is, Req
  <2>1. OnImages(Req(o))'
    BY DEF OnImages, Is, Req
  <2>2. CASE o # p /\ q # p
    BY <1>1, <2>2 DEF Gallery, AddsAlone, At, Is, Req, OnImages
  <2>3. CASE o = p
    BY <1>1, <1>2, <2>1, <2>3 DEF At, Is, Req, OnImages
  <2>4. CASE q = p
    BY <1>1, <1>2, <2>1, <2>4 DEF At, Is, Req, OnImages
  <2> QED BY <2>2, <2>3, <2>4
<1>4. \A o \in Clients : OnImages(Req(o))' /\ client'[o].pc \in {"demoting", "insert", "promote"} =>
        client'[o] = client[o] /\ Target(o)' = Target(o) /\ OnImages(Req(o)) /\ WantsPrimary(o)' = WantsPrimary(o)
  BY <1>1 DEF OnImages, Req, Target, Is, WantsPrimary
<1>5. FindsAll' /\ DemotedAll'
  BY <1>1, <1>4 DEF Gallery, FindsAll, DemotedAll, At
<1>6. PendingIsSole' /\ CommittedIsSole'
  BY <1>1 DEF Gallery, PendingIsSole, CommittedIsSole
<1> QED BY <1>3, <1>5, <1>6 DEF Gallery

GInv == KInv /\ (~crossed => Gallery)

LEMMA StepGInv ==
    ASSUME GInv, [Next]_vars
    PROVE  GInv'
<1>1. KInv'
  BY StepKInv DEF GInv
<1>2. CASE UNCHANGED <<images, client, crossed>>
  BY <1>1, <1>2 DEF GInv, Gallery, AddsAlone, FindsAll, DemotedAll, PendingIsSole, CommittedIsSole,
                    Target, WantsPrimary, Is, Req, At
<1>3. ASSUME NEW p \in Clients, Statement(p)
      PROVE  GInv'
  BY <1>1, <1>3, StatementGallery DEF GInv, Statement
<1>4. ASSUME NEW p \in Clients, NEW req \in Requests, Begin(p, req)
      PROVE  GInv'
  <2>1. ~crossed' => ~crossed
    BY <1>4 DEF Begin
  <2> QED BY <1>1, <1>4, <2>1, BeginGallery DEF GInv
<1>5. ASSUME NEW p \in Clients, Commit(p) \/ Rollback(p)
      PROVE  GInv'
  <2>1. crossed' = crossed
    BY <1>5 DEF Commit, Rollback
  <2>2. \E published \in BOOLEAN : IF published THEN Commit(p) ELSE Rollback(p)
    BY <1>5
  <2> QED BY <1>1, <2>1, <2>2, EndGallery DEF GInv
<1> QED BY <1>2, <1>3, <1>4, <1>5 DEF Next, vars, tables, TradeVariant

LEMMA InitGInv == Init => GInv
<1> SUFFICES ASSUME Init
             PROVE  GInv
  OBVIOUS
<1>1. client = [p \in Clients |-> Idle]
  BY DEF Init
<1>2. Idle.req.op = "none" /\ Idle.pc = "idle"
  BY DEF Idle, Blank
<1>3. \A p \in Clients : At(p, "idle") /\ ~OnImages(Req(p)) /\ ~Is(p, "ADD_IMAGES")
  BY <1>1, <1>2 DEF At, OnImages, Req, Is
<1>4. PICK q \in Products, g \in Images :
        images = [h \in Images |-> Cell(IF h = g THEN [product |-> q, primary |-> TRUE] ELSE NoImage)]
  BY DEF Init
<1>5. \A h \in Images : /\ images[h].by = Nobody /\ images[h].live = images[h].com
                        /\ images[h].com = IF h = g THEN [product |-> q, primary |-> TRUE] ELSE NoImage
  BY <1>4, CellLemma
<1>6. \A h \in Images : /\ h = g => images[h].com.product = q
                        /\ h # g => ~images[h].com.primary
  BY <1>5 DEF NoImage
<1>7. ImagesAreKnown
  BY <1>5, <1>6 DEF ImagesAreKnown
<1>8. LooksFirst /\ TargetsAreKnown
  BY <1>3, <1>5, NobodyAssumption DEF LooksFirst, TargetsAreKnown, Aiming
<1>9. Gallery
  BY <1>3, <1>5, <1>6 DEF Gallery, AddsAlone, FindsAll, DemotedAll, PendingIsSole, CommittedIsSole
<1> QED BY <1>7, <1>8, <1>9, InitWInv DEF GInv, KInv

\* As long as no addition of images has overlapped another request on images,
\* no product has two primary images.
THEOREM PrimaryIsSole == Spec => []OnePrimary
<1>1. GInv => OnePrimary
  BY DEF GInv, Gallery, CommittedIsSole, OnePrimary
<1>2. Spec => []GInv
  BY InitGInv, StepGInv, PTL DEF Spec
<1> QED BY <1>1, <1>2, PTL

=============================================================================
