------------------------------ MODULE Pricing ------------------------------
(***************************************************************************)
(* Quotes of a price in KRW: the estimated refund, the price after it, and *)
(* all three in cents of a target currency. Rates are decimal fractions    *)
(* with denominator Scale.                                                 *)
(***************************************************************************)
EXTENDS Integers

CONSTANTS
    Scale,    \* the denominator of rates
    Null      \* no rate is cached, no amount is known

ASSUME ScaleAssumption == Scale \in Nat \ {0}

\* n / d rounded half up, for naturals.
HalfUp(n, d) == (2 * n + d) \div (2 * d)

\* 7 % of the price.
EstimatedRefund(price) == HalfUp(7 * price, 100)

\* A plausible bug: fractions of a cent are cut off.
ConvertedDown(krw, rate) ==
    IF rate = Null THEN Null ELSE (100 * krw * rate) \div Scale

Converted(krw, rate) == IF rate = Null THEN Null ELSE HalfUp(100 * krw * rate, Scale)

\* A plausible bug: the refund of the policy, whatever the product's own is.
RestOfEstimate(price, refund) == price - EstimatedRefund(price)

Rest(price, refund) == price - refund

QuoteOf(price, refund, rate) ==
    [price    |-> price,
     refund   |-> refund,
     rest     |-> Rest(price, refund),
     inPrice  |-> Converted(price, rate),
     inRefund |-> Converted(refund, rate),
     inRest   |-> Converted(Rest(price, refund), rate)]

QuotePrice(price, rate) == QuoteOf(price, EstimatedRefund(price), rate)

\* A stored refund of 0 is not known.
Quote(product, rate) ==
    IF product.refund > 0 THEN QuoteOf(product.price, product.refund, rate)
    ELSE QuotePrice(product.price, rate)
=============================================================================
