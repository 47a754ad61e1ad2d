----------------------------- MODULE MCPricing ------------------------------
(***************************************************************************)
(* Pricing with two variants, two prices and up to three lines.            *)
(***************************************************************************)
EXTENDS Pricing

CONSTANTS v1, v2

\* Half of an odd number of cents is a case for rounding, and so is 1.2 per
\* cent of 125, which no binary fraction holds; 100 leaves nothing to pay; 150
\* cents are more than most of these requests cost.
MCHeaders == {[kind |-> "percent", value |-> 120], [kind |-> "percent", value |-> 5000],
              [kind |-> "percent", value |-> 10000],
              [kind |-> "amount", value |-> 0], [kind |-> "amount", value |-> 150]}
=============================================================================
