----------------------------- MODULE MCSession ------------------------------
(***************************************************************************)
(* Three small tables.  A page has 15 bytes for records: two customers,    *)
(* three orders, three lineitems.  The generated customers fill a page and *)
(* a half, the orders exactly one, the lineitems one and a third; numbers  *)
(* need one to three bytes, texts are shorter than their column, as wide,  *)
(* or wider.                                                               *)
(***************************************************************************)
EXTENDS Session

Column(name, type, size) == [name |-> name, type |-> type, size |-> size]

MCSchemas ==
  << <<Column("c_custkey", "INT", 4), Column("c_name", "STRING", 3)>>,
     <<Column("o_orderkey", "INT", 4), Column("o_orderstatus", "STRING", 1)>>,
     <<Column("l_partkey", "INT", 4)>> >>

MCTableNames == <<"customer", "orders", "lineitem">>

\* Texts of characters 65 and 66.
MCDataset ==
  << << <<1, <<65>> >>, <<2, <<65, 66>> >>, <<3, <<66>> >> >>,
     << <<1, <<65>> >>, <<300, <<66>> >>, <<3, <<65>> >> >>,
     << <<1>>, <<70000>>, <<3>>, <<300>> >> >>

MCBlank == ZeroPage

Number(n) == [type |-> "INT", n |-> n, s |-> << >>]

Text(s) == [type |-> "STRING", n |-> 0, s |-> s]

Request == [kind |-> "DELETE", table |-> 1, cols |-> << >>, vals |-> << >>, col |-> "",
            val |-> Number(0), wcol |-> "", wval |-> Number(0)]

Insert(t, cols, vals) ==
  [Request EXCEPT !.kind = "INSERT", !.table = t, !.cols = cols, !.vals = vals]

Update(t, col, val, wcol, wval) ==
  [Request EXCEPT !.kind = "UPDATE", !.table = t, !.col = col, !.val = val,
                  !.wcol = wcol, !.wval = wval]

Delete(t, wcol, wval) == [Request EXCEPT !.table = t, !.wcol = wcol, !.wval = wval]

MCRequests ==
  {Insert(1, <<"c_custkey", "c_name">>, <<Number(70000), Text(<<65, 66, 66>>)>>),
   Insert(1, <<"c_name", "c_custkey">>, <<Text(<<65>>), Number(9)>>),
   Insert(1, <<"c_custkey", "c_name">>, <<Number(-5), Text(<<65>>)>>),
   Insert(2, <<"o_orderkey", "o_orderstatus">>, <<Number(7), Text(<<66>>)>>),
   Insert(2, <<"o_orderkey">>, <<Number(8)>>),
   Update(1, "c_name", Text(<<66, 66>>), "c_custkey", Number(2)),
   Update(1, "c_custkey", Number(-5), "c_custkey", Number(1)),
   Update(3, "l_partkey", Number(300), "", Number(0)),
   Delete(1, "c_custkey", Number(1)),
   Delete(2, "o_orderstatus", Text(<<65>>)),
   Delete(3, "l_partkey", Number(-1)),
   Delete(3, "l_partkey", Number(300)),
   Delete(3, "", Number(0))}

MCGarbage == {Token("STRING_LIT", "", 0, << >>), Token("STRING_LIT", "", 0, <<65, 66>>)}
=============================================================================
