----------------------------- MODULE MCQueries -----------------------------
(***************************************************************************)
(* The texts of the sample queries, and some the parser refuses.           *)
(***************************************************************************)
EXTENDS MCQuerySamples, QueryTexts

(* Texts the parser refuses.                                               *)
Malformed == {<<Word("from")>>, <<Word("from"), Name(<<"city">>), Word("limit"), Word("null")>>,
              <<Word("count"), Name(<<"city">>), Word("limit"), Digits(1)>>,
              <<Word("from"), Name(<<"city">>), Word("where"), Word("not"), Word("not"), Name(n), Word("exists")>>,
              <<Word("from"), Name(<<"city">>), Word("where"), Symbol("("), Name(n), Word("exists")>>}

(* Texts of queries that have another one: parentheses nobody needs, the   *)
(* clauses in another order, one of them twice, an order without direction *)
(* and a join on names without a dot.                                      *)
Unusual == {<<Word("from"), Name(<<"city">>), Word("where"), Symbol("("), Symbol("("), Name(n), Word("exists"),
              Symbol(")"), Symbol(")"), Word("and"), Name(s), Symbol("="), Word("null")>>,
            <<Word("from"), Name(<<"city">>), Word("limit"), Digits(2), Word("where"), Name(n), Word("exists"),
              Word("limit"), Digits(0), Word("order"), Word("by"), Name(n)>>,
            <<Word("from"), Name(<<"city">>), Word("join"), Name(<<"region">>), Word("on"), Name(r), Symbol("="), Name(id)>>}
AllTexts == {QueryText(q) : q \in AllQueries} \cup Malformed \cup Unusual
MCTexts == AllTexts
=============================================================================
