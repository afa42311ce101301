--------------------------- MODULE MCCellStreaming --------------------------
(* Two cells, the first near the camera from the start.  Instances differ  *)
(* in the files of the two; a cell that has none is a placeholder or an    *)
(* error.                                                                  *)
EXTENDS CellStreaming

CONSTANTS c1, c2

Files ==
  {<<"package", "package">>, <<"package", "packed">>, <<"raw", "missing">>}

MCInit ==
  /\ Init
  /\ <<kind[c1], kind[c2]>> \in Files
  /\ zone = (c1 :> "near" @@ c2 :> "mid")
  /\ placeholders => kind[c2] = "missing"

MCSpec == MCInit /\ [][Next]_vars /\ Fairness
=============================================================================
