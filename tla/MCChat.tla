--------------------------------- MODULE MCChat ---------------------------------
(***************************************************************************)
(* Questions whose agents make no request and one, about what the message  *)
(* names, what the page shows, or nothing in particular.  The second page  *)
(* shows an account and sends None for the unit.                           *)
(***************************************************************************)
EXTENDS Chat

CONSTANTS west, east, rev

AccountPage == [account |-> rev, unit |-> Null]
Page == [period |-> 2, unit |-> west, view |-> "YTD", base |-> "FORECAST"]

Asked ==
    <<[words |-> {"pl_summary"}, period |-> Null, unit |-> east,
       account |-> Null, view |-> Null, base |-> Null, page |-> Page],
      [words |-> {"drill_down", "review_status"}, period |-> 1, unit |-> Null,
       account |-> Null, view |-> "QTD", base |-> Null, page |-> AccountPage]>>

===============================================================================
