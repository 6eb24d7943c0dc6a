------------------------------- MODULE MCForms -------------------------------
EXTENDS Forms

MCRadios == <<"a", "b", "c">>
MCSettings(m) ==
    CASE m = "text" -> {"", "s", "none"}
      [] m = "marks" -> {<<>>, <<"m", "n">>}
      [] m = "choice" -> {"a", "z"}
      [] m = "place" -> {"p", "q", "none", "prompt"}
      [] m = "list" -> {<<>>, <<"p", "q">>, <<"q", "r">>, <<"r">>}
      [] m = "shown" -> {<<"m">>, <<"m", "n">>, <<"n">>}

\* One choice chooses a place, another is put back, a place fills in the text,
\* and all marks taken away empty the list.
MCReaction(m, x) ==
    CASE m = "choice" /\ x = "a" -> <<[m |-> "place", x |-> "q"]>>
      [] m = "choice" /\ x = "c" -> <<[m |-> "choice", x |-> "b"], [m |-> "text", x |-> "t"]>>
      [] m = "place" /\ x = "r" -> <<[m |-> "text", x |-> "t"]>>
      [] m = "marks" /\ x = <<>> -> <<[m |-> "list", x |-> <<"q", "r">>]>>
      [] OTHER -> <<>>
=============================================================================
