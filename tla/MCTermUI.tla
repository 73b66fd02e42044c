------------------------------- MODULE MCTermUI -------------------------------
(* Cards with fewer checks than they have room for, as many and more; lists  *)
(* that lose a monitor, swap two, or change a history.                       *)
EXTENDS TermUI

Card(n, r) == [name |-> n, recent |-> r]
MCNames == {"a", "b", "c"}
MCQueries == {{}, {"a"}, {"b", "c"}}
MCDashboards ==
  {<<Card("a", <<1, 2, 3>>), Card("b", <<1>>), Card("c", <<1, 2>>)>>,
   <<Card("b", <<>>), Card("a", <<1, 2>>)>>,
   <<Card("c", <<1, 2, 3, 4>>)>>}
=============================================================================
