----------------------------- MODULE MCComputed -----------------------------
EXTENDS Computed

\* As in the pages: a title cut short; it or the name of a file; whether there
\* is a title that is not empty, which looks twice, or a file; a row of a table.
MCGetter(n, seen) ==
    LET k == Len(seen) IN
    CASE n = "short" -> IF k = 0 THEN [get |-> "title"] ELSE [value |-> <<"short">> \o seen[1]]
      [] n = "label" -> CASE k = 0 -> [get |-> "title"]
                          [] k = 1 -> [get |-> IF seen[1] = <<>> THEN "file" ELSE "short"]
                          [] OTHER -> [value |-> seen[2]]
      [] n = "valid" -> CASE k = 0 -> [get |-> "title"]
                          [] k = 1 -> [get |-> IF seen[1] = <<>> THEN "file" ELSE "title"]
                          [] OTHER -> [value |-> IF seen[2] = <<>> THEN <<"no">> ELSE <<"yes">>]
      [] n = "row" -> IF k = 0 THEN [get |-> "label"] ELSE [value |-> <<"row">> \o seen[1]]
      [] n = "all" -> CASE k = 0 -> [get |-> "list"]
                        [] k = 1 -> [get |-> "valid"]
                        [] OTHER -> [value |-> seen[1][1] \o seen[1][2] \o seen[2]]
MCSettings(m) ==
    CASE m = "title" -> {<<>>, <<"t">>, <<"u">>}
      [] m = "file" -> {<<>>, <<"f">>}
      [] m = "index" -> {<<"0">>, <<"1">>}
      [] m = "list" -> {<<<<"x">>, <<"y">>>>, <<<<"y">>, <<"x">>>>}
      [] OTHER -> {<<"x">>, <<"y">>}
MCPartOf == ("row.x" :> "row")
MCTemplates == {<<"label", "row.x", "all", "element", "element.name">>, <<"element", "title", "valid", "row.x", "short">>}
=============================================================================
