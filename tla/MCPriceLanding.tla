--------------------------- MODULE MCPriceLanding ---------------------------
EXTENDS PriceLanding

\* Prices by code, their limits by date.
MCInterfaces == <<"daily", "stk_limit">>
MCByDate == {"stk_limit"}

\* The vendor has every row; its correction turns the events around.
MCQuotes == [v \in 1..MaxVintage |-> Codes \X Dates]
MCPaused == [v \in 1..MaxVintage |-> {k \in Codes \X Dates : k[2] = v}]

\* One date, or all of them.
Narrow == [codes |-> Codes, dates |-> {1}]
Wide == [codes |-> Codes, dates |-> Dates]
MCRequests == {Narrow, Wide}
=============================================================================
