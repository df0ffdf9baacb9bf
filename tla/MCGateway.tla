------------------------------ MODULE MCGateway ------------------------------
(* Gateway on small instances. *)
EXTENDS Gateway, SequencesExt

-----------------------------------------------------------------------------
(* DataAccess: two projects; p has its database and its tooling in different *)
(* environments and sees the connections of q.                               *)

Env(id, tooling, wg, db) == [id |-> id, tooling |-> tooling, workgroup |-> wg, db |-> db]
TwoEnvironments ==
  [p |-> <<Env("e1", FALSE, "", "sales"), Env("e2", TRUE, "wg", "")>>,
   q |-> <<Env("e3", TRUE, "wg", "")>>]
Seen == [p |-> <<"q", "p">>, q |-> <<"q">>]

Connection(prefix, role, account) ==
  [bucket |-> "b", prefix |-> prefix, role |-> role, account |-> account]
TwoConnectionLists ==
  {<< >>, <<Connection(<<"d", "/">>, FALSE, "own"), Connection(<<"d", "/", "e">>, TRUE, "other")>>}

Grant(prefix, account) == [bucket |-> "b", prefix |-> prefix, account |-> account]
SomeGrants ==
  [p |-> {Grant(<<"d", "/">>, "other"), Grant(<<"d", "/", "e", "/">>, "own")}, q |-> {}]

Call(tool, p, t, uri, path) ==
  [tool |-> tool, project |-> p, token |-> t, uri |-> uri, bucket |-> "b", path |-> path]
SomeCalls ==
  {Call("athena_query", "p", "t", FALSE, << >>), Call("athena_query", "q", "t", FALSE, << >>),
   Call("cloudtrail_query", "p", "t", FALSE, << >>),
   Call("s3_read", "p", "u", FALSE, <<"/", "d", "/", "e">>),
   Call("s3_list", "q", "t", FALSE, <<"d", "/">>),
   Call("s3_list", "p", "t", TRUE, <<"d", "/", "e", "/">>)}

-----------------------------------------------------------------------------
(* Catalog: two listings of one S3 location, one of them owned, and a model.  *)

Listing(type, owner, uri) == [type |-> type, owner |-> owner, uri |-> uri]
ThreeListings == <<Listing("s3", "o", "u"), Listing("s3", Project, "u"), Listing("model", "o", "")>>

-----------------------------------------------------------------------------
(* Forecast: 1, 15 and 31 January, 1 February (two rows), 1 March, 1 April of a   *)
(* series, two more series, and a row that is no observation.                 *)

Year == <<31, 28, 31, 30, 31, 30, 31, 31, 30, 31, 30, 31>>
TwoYears == Year \o Year

Row(ts, y, item) == [ts |-> ts, y |-> y, item |-> item]
SomeRows ==
  {Row(0, 1, "a"), Row(14, 0, "a"), Row(30, 2, "a"), Row(31, 3, "a"), Row(31, 4, "a"), Row(59, 5, "a"),
   Row(90, 6, "a"), Row(59, 7, "b"), Row(90, 8, "b"), Row(0, 9, "c"), Row(-1, 1, "a")}
Results ==
  SeqOf(SomeRows, 3) \cup {<<r>> \o s : r \in {Row(0, 1, "a"), Row(90, 6, "a")}, s \in SeqOf(SomeRows, 3)}

Frequency(unit, n) == [unit |-> unit, n |-> n]
Frequencies ==
  {Frequency("D", 0), Frequency("D", 1), Frequency("D", 31), Frequency("M", 0), Frequency("M", 1),
   Frequency("Q", 1)}
=============================================================================
