------------------------------ MODULE MCIndex ------------------------------
EXTENDS IndexEndpoints
MCIndexNames == <<"logs-1", "logs-2">>
MCMatches == [n \in {"logs-1", "logs-2", "logs", "new"} |-> {n}] @@ ("logs-*" :> {"logs-1", "logs-2"}) @@ ("*" :> {"logs-1", "logs-2", "logs", "new"})
UpdateOf(op, table, aliases, actions) == [op |-> op, table |-> table, aliases |-> aliases, actions |-> actions]
ActionOf(kind, index, alias) == [kind |-> kind, index |-> index, alias |-> alias]
MCUpdates ==
    { UpdateOf("create", "logs-2", {"logs", "new"}, << >>),
      UpdateOf("aliases", "", {}, << ActionOf("add", "logs-2", "logs"), ActionOf("remove", "logs-1", "logs") >>),
      UpdateOf("template", "p", {}, << >>), UpdateOf("policy", "p", {}, << >>) }
ItemOf(parts) == [parts |-> parts, alias_parts |-> {"*"}, id |-> "x", bad |-> FALSE]
ReadOf(kind, lenient, items) == [kind |-> kind, lenient |-> lenient, items |-> items, path |-> {"logs"}]
MCReads ==
    { ReadOf("search", FALSE, << ItemOf({"logs"}) >>),
      ReadOf("msearch", FALSE, << ItemOf({"logs-2"}), [ItemOf({"logs"}) EXCEPT !.bad = TRUE], ItemOf({"logs", "logs-1"}) >>),
      ReadOf("msearch_table", FALSE, << ItemOf({"logs-2"}), ItemOf({}) >>),
      ReadOf("count", TRUE, << ItemOf({"logs-*", "logs"}) >>),
      ReadOf("get", FALSE, << ItemOf({"logs"}) >>),
      ReadOf("mget", FALSE, << ItemOf({"logs"}), [ItemOf({"logs-1"}) EXCEPT !.id = "y"] >>),
      ReadOf("mget_table", FALSE, << ItemOf({"logs"}), ItemOf({}), [ItemOf({"logs-2"}) EXCEPT !.id = "y"] >>),
      ReadOf("index", FALSE, << ItemOf({"logs-2"}) >>), ReadOf("resolve", FALSE, << ItemOf({"new"}) >>),
      ReadOf("caps", FALSE, << ItemOf({"new"}) >>), ReadOf("aliases", FALSE, << ItemOf({}) >>),
      ReadOf("aliases", FALSE, << [ItemOf({"logs-2"}) EXCEPT !.alias_parts = {"logs"}] >>) }
MCDocumentsAt == ("logs-1" :> << {"x"}, {"y"} >>) @@ ("logs-2" :> << {}, {"x", "y"} >>)
=============================================================================
