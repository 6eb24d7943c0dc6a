---------------------------- MODULE PageShowsData ----------------------------
(***************************************************************************)
(* What a template is for: the page shows the data.  Data may change while *)
(* the page is at work on an earlier change, the page may show what is     *)
(* already old, and when it rests it shows the data there is.              *)
(***************************************************************************)
CONSTANTS AllData,  \* what the data can be
          Drawn(_)  \* what the template makes of it

VARIABLES data, shown, busy

page == <<data, shown, busy>>

Change == data' \in AllData /\ busy' = TRUE /\ UNCHANGED shown
Show == busy /\ shown' = Drawn(data) /\ UNCHANGED <<data, busy>>
Rest == busy /\ shown = Drawn(data) /\ busy' = FALSE /\ UNCHANGED <<data, shown>>

PageInit == data \in AllData /\ shown = Drawn(data) /\ ~ busy
PageNext == Change \/ Show \/ Rest
PageSpec == PageInit /\ [][PageNext]_page
==============================================================================
