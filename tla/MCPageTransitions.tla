-------------------------- MODULE MCPageTransitions --------------------------
EXTENDS PageTransitions

Of(outer, inner, missing, nested) ==
    [directives |-> [place \in Places |-> IF place = "outer" THEN outer ELSE inner],
     missing |-> missing, nested |-> nested]
MCElements == 1 .. 3
MCManagers == 1 .. 3
MCTemplates == {Of(Ways, Ways, FALSE, FALSE), Of({"outro"}, {"intro", "outro"}, FALSE, TRUE),
                Of({}, {"outro"}, FALSE, TRUE), Of(Ways, {"intro"}, TRUE, TRUE)}
MCAll == {Of(Ways, Ways, FALSE, TRUE)}
=============================================================================
