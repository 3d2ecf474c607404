--------------------------- MODULE MCExchangeRates ---------------------------
(***************************************************************************)
(* A small instance of ExchangeRates.                                      *)
(***************************************************************************)
EXTENDS ExchangeRates

\* CNY does not move from the first publication to the second, nor USD from
\* the second to the third, which does not fit its column.
MCRateOf ==
    [c \in Currency |-> IF c = "USD" THEN <<1, 2, 2>> ELSE <<1, 1, 0>>]
MCDateOf == <<1, 2, 3>>
MCStorable == 1 .. 3

EmptyTable == [c \in Currency |-> NoRate]
=============================================================================
