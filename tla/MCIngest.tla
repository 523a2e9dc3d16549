------------------------------ MODULE MCIngest ------------------------------
EXTENDS ElasticIngest, TLC
CONSTANTS t1, t2, x
Op(k, i, d, doc) == [kind |-> k, index |-> i, id |-> d, patch |-> {doc}, upsert |-> {}, doc_as_upsert |-> FALSE]
AB == <<"a", "b">> :> 1
AC == <<"a", "c">> :> 2
A  == <<"a">> :> 3
MCAliasOf == [al |-> t1]
MCSingleOps ==
    { Op("create", t1, x, AB), Op("delete", "al", x, A),
      [Op("update", "al", x, AC) EXCEPT !.upsert = {A}],
      [kind |-> "update_by_query", index |-> "al", ids |-> {x}, noops |-> {}, patch |-> {AC}] }
MCPayloads ==
    { << Op("index", t1, x, AB), Op("create", t2, NoId, A) >>,
      << Op("delete", t1, x, A), Op("update", t1, x, AC) >> }
Symmetry == Permutations(Singles) \cup Permutations(Bulks)
=============================================================================
