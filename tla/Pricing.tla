------------------------------ MODULE Pricing ------------------------------
(***************************************************************************)
(* How an order, or the quote of one, is priced (priceLines and            *)
(* computeTotals, services/order.service.ts).  The lines are looked up one *)
(* statement at a time, so the catalogue may be changed between two lines  *)
(* of the same variant.  Amounts are in cents: the validators admit at     *)
(* most two decimals, so toMinor is exact on what gets here.  Percentages  *)
(* are any decimals and computed in binary; on amounts below               *)
(* 2^53 \div (300 * Scale) cents that error is too small to matter but     *)
(* where the exact share is a whole number of cents and a half.            *)
(***************************************************************************)
EXTENDS Integers, Sequences, Functions

CONSTANTS
    Variants,
    Prices,        \* the selling prices an admin may set
    Quantities,    \* of a requested line
    Discounts,     \* of a requested line
    Scale,         \* percentages are given in so many parts of one per cent
    Headers,       \* the discounts on the whole order
    MaxLines,      \* bound on the lines of a request
    MaxChanges     \* bound on the changes of the catalogue meanwhile

ASSUME AmountsAssumption ==
    /\ Prices \subseteq Nat /\ Discounts \subseteq Nat
    /\ Quantities \subseteq Nat \ {0}
    /\ Scale \in Nat \ {0}
    /\ Headers \subseteq [kind : {"percent"}, value : 0..100 * Scale]
                         \cup [kind : {"amount"}, value : Nat]
    /\ MaxLines \in Nat /\ MaxChanges \in Nat

VARIABLES
    catalogue,  \* each variant's price, and whether it and its product are active
    offered,    \* what each variant's row has been since pricing began
    changes,    \* counts the changes of the catalogue
    request,    \* the lines asked for, and the discount on the order
    next,       \* the line to be looked up next
    priced,     \* the priced lines: resolved
    outcome     \* "pricing", a refusal, or the totals

priceVars == <<catalogue, offered, changes, request, next, priced, outcome>>

-----------------------------------------------------------------------------
Offers  == [price : Prices, active : BOOLEAN]
Lines == [variant : Variants, quantity : Quantities, discount : Discounts]

PriceRequests == [lines : UNION {[1..n -> Lines] : n \in 1..MaxLines}, header : Headers]

Refusals == {"VARIANT_INACTIVE", "DISCOUNT_TOO_LARGE"}
Pending  == [state |-> "pricing"]
Refused(code) == [state |-> "refused", code |-> code]

PriceInit ==
    /\ catalogue \in [Variants -> Offers]
    /\ offered = [v \in Variants |-> {catalogue[v]}]
    /\ changes = 0
    /\ request \in PriceRequests
    /\ next = 1
    /\ priced = << >>
    /\ outcome = Pending

-----------------------------------------------------------------------------
\* VariantService.update, and ProductService.update for the active flag.
Change(v, row) ==
    /\ changes < MaxChanges
    /\ row # catalogue[v]
    /\ catalogue' = [catalogue EXCEPT ![v] = row]
    /\ offered' = [offered EXCEPT ![v] = @ \cup {row}]
    /\ changes' = changes + 1
    /\ UNCHANGED <<request, next, priced, outcome>>

Line == request.lines[next]
Offer  == catalogue[Line.variant]
LineWaits == outcome = Pending /\ next <= Len(request.lines)

Gross == Offer.price * Line.quantity

\* Bug: a line discount is not compared with the line.
RefusalWithoutCap == ~Offer.active

\* requireActive, and the cap on a line's discount at the price just read.
LineRefusal == ~Offer.active \/ Line.discount > Gross

RefuseLine ==
    /\ LineWaits
    /\ LineRefusal
    /\ outcome' = Refused(IF Offer.active THEN "DISCOUNT_TOO_LARGE" ELSE "VARIANT_INACTIVE")
    /\ UNCHANGED <<catalogue, offered, changes, request, next, priced>>

SameVariant == {i \in DOMAIN priced : priced[i].variant = Line.variant}

\* The first line of a variant keeps the price it has read.
AddLine ==
    /\ LineWaits
    /\ ~LineRefusal
    /\ SameVariant = {}
    /\ priced' = Append(priced, [variant |-> Line.variant, quantity |-> Line.quantity,
                                 unit |-> Offer.price, discount |-> Line.discount,
                                 total |-> Gross - Line.discount])
    /\ next' = next + 1
    /\ UNCHANGED <<catalogue, offered, changes, request, outcome>>

\* Bug: the total of the merged line is added up at the price just read.
MergedAtNewPrice(line) ==
    [line EXCEPT !.quantity = @ + Line.quantity,
                 !.discount = @ + Line.discount,
                 !.total    = @ + Gross - Line.discount]

\* A further line of a variant: its total is worked out anew from the
\* price the first one kept.
Merged(line) ==
    LET quantity == line.quantity + Line.quantity
        discount == line.discount + Line.discount
    IN  [line EXCEPT !.quantity = quantity, !.discount = discount,
                     !.total = line.unit * quantity - discount]

MergeLine ==
    /\ LineWaits
    /\ ~LineRefusal
    /\ \E i \in SameVariant : priced' = [priced EXCEPT ![i] = Merged(priced[i])]
    /\ next' = next + 1
    /\ UNCHANGED <<catalogue, offered, changes, request, outcome>>

-----------------------------------------------------------------------------
\* The sum of an amount over the lines with these indices, and over all.
SumAt(amount(_), lines, indices) ==
    SumFunctionOnSet([i \in DOMAIN lines |-> amount(lines[i])], indices)

SumOf(amount(_), lines) == SumAt(amount, lines, DOMAIN lines)

Subtotal      == SumOf(LAMBDA l : l.unit * l.quantity, priced)
LineDiscounts == SumOf(LAMBDA l : l.discount, priced)

\* Bug: cut off instead of rounded.
Truncated(amount, value) == {(amount * value) \div (100 * Scale)}

\* The percentages a binary fraction holds: whole ones, halves, quarters, ...
HeldExactly(value) ==
    \E d \in 1..Scale : /\ \A p \in 2..d : d % p = 0 => p % 2 = 0
                        /\ (value * d) % Scale = 0

\* Math.round rounds halves up, below zero too.  Any other percentage is off by
\* a trifle, and so are its products: half a cent may be rounded either way.
Shares(amount, value) ==
    LET whole == 100 * Scale
        up    == (2 * amount * value + whole) \div (2 * whole)
        half  == 2 * amount * value + whole = 2 * whole * up
    IN  IF half /\ ~HeldExactly(value) THEN {up - 1, up} ELSE {up}

HeaderDiscounts ==
    IF request.header.kind = "percent"
    THEN Shares(Subtotal - LineDiscounts, request.header.value)
    ELSE {request.header.value}

TooLarge(header) == LineDiscounts + header > Subtotal

\* computeTotals.
ComputeTotals ==
    /\ outcome = Pending
    /\ next > Len(request.lines)
    /\ \E header \in HeaderDiscounts :
          outcome' = IF TooLarge(header) THEN Refused("DISCOUNT_TOO_LARGE")
                     ELSE [state |-> "priced", subtotal |-> Subtotal,
                           discount |-> LineDiscounts + header,
                           total |-> Subtotal - (LineDiscounts + header)]
    /\ UNCHANGED <<catalogue, offered, changes, request, next, priced>>

PriceNext ==
    \/ \E v \in Variants, row \in Offers : Change(v, row)
    \/ RefuseLine
    \/ AddLine
    \/ MergeLine
    \/ ComputeTotals

PriceSpec == PriceInit /\ [][PriceNext]_priceVars

-----------------------------------------------------------------------------
\* Properties.

Totals == [state : {"priced"}, subtotal : Nat, discount : Nat, total : Nat]

\* Every variable has its shape; a total is never below zero, nor a discount.
PriceTypeOK ==
    /\ catalogue \in [Variants -> Offers]
    /\ offered \in [Variants -> SUBSET Offers]
    /\ changes \in 0..MaxChanges
    /\ request \in PriceRequests
    /\ next \in 1..Len(request.lines) + 1
    /\ \A i \in DOMAIN priced :
          priced[i] \in [variant : Variants, quantity : Nat, unit : Prices,
                         discount : Nat, total : Int]
    /\ \/ outcome = Pending
       \/ outcome \in [state : {"refused"}, code : Refusals]
       \/ outcome \in Totals

\* The lines of the request already looked up that name the variant.
Asked(v) == {i \in 1..next - 1 : request.lines[i].variant = v}

\* What a client repeats, reorders or discounts line by line is neither lost
\* nor counted twice: there is one priced line per variant asked for, with all
\* its quantities and discounts, at one price the variant really had.
LinesFoldTheRequest ==
    /\ {priced[i].variant : i \in DOMAIN priced} = {v \in Variants : Asked(v) # {}}
    /\ \A i, j \in DOMAIN priced : priced[i].variant = priced[j].variant => i = j
    /\ \A i \in DOMAIN priced :
          LET line == priced[i]
              asked == Asked(line.variant)
          IN  /\ line.quantity = SumAt(LAMBDA l : l.quantity, request.lines, asked)
              /\ line.discount = SumAt(LAMBDA l : l.discount, request.lines, asked)
              /\ line.total = line.unit * line.quantity - line.discount
              /\ \E row \in offered[line.variant] : row.active /\ row.price = line.unit

\* A line is worth less than nothing only where the variant became dearer
\* between two lines naming it: the discount of the later one was compared
\* with the new price and is taken off the old one.
NegativeOnlyWhenDearer ==
    \A i \in DOMAIN priced :
       priced[i].total < 0 =>
          \E row \in offered[priced[i].variant] : row.price > priced[i].unit

-----------------------------------------------------------------------------
\* The reference: the price of the whole request at one state of the catalogue.

Asking == request.lines
GrossOf(l) == catalogue[l.variant].price * l.quantity
FullGross == SumOf(GrossOf, Asking)
Net == FullGross - SumOf(LAMBDA l : l.discount, Asking)

\* h is a whole number of cents nearest to that percentage of the net amount;
\* of two, it is the greater if the percentage has an exact binary form.
IsNearest(h, value) ==
    LET whole == 100 * Scale
    IN  /\ 2 * whole * h - whole <= 2 * Net * value
        /\ 2 * Net * value <= 2 * whole * h + whole
        /\ HeldExactly(value) => 2 * Net * value # 2 * whole * h + whole

Payable(total) ==
    IF request.header.kind = "percent"
    THEN IsNearest(Net - total, request.header.value)
    ELSE total = Net - request.header.value

Admissible ==
    /\ \A i \in DOMAIN Asking : /\ catalogue[Asking[i].variant].active
                                /\ Asking[i].discount <= GrossOf(Asking[i])
    /\ request.header.kind = "amount" => request.header.value <= Net

\* Line by line or all at once makes no difference while the catalogue stands
\* still: the request is priced exactly if every line and the order's discount
\* are admissible, and then at the nearest cent of what they say.
PricesExactly ==
    (changes = 0 /\ outcome # Pending) =>
        /\ (outcome.state = "priced") = Admissible
        /\ outcome.state = "priced" =>
              /\ outcome.subtotal = FullGross
              /\ Payable(outcome.total)

-----------------------------------------------------------------------------
\* Refunds: what ReturnService gives back for units of a priced line.

\* Bug: the price of the unit, whatever was taken off the line.
FullUnitRefund(line) == line.unit

\* What a unit of the line cost, to the nearest cent.
UnitRefund(line) == (2 * line.total + line.quantity) \div (2 * line.quantity)

Refund(line, units) == UnitRefund(line) * units

\* Returning the whole order, at once or unit by unit, gives back what its
\* lines cost, but for half a cent on each unit.  That is what was paid and
\* the order's own discount, which no return takes into account.
RefundsWhatLinesCost ==
    outcome # Pending /\ outcome.state = "priced" =>
        LET refunded == SumOf(LAMBDA l : Refund(l, l.quantity), priced)
            cost     == outcome.subtotal - LineDiscounts
            units    == SumOf(LAMBDA l : l.quantity, priced)
        IN  2 * (refunded - cost) \in -units..units
=============================================================================
