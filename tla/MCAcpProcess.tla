------------------------------ MODULE MCAcpProcess ------------------------------
(* The mixes of runs, mutations and faults that are explored: each stays small,  *)
(* and together they bring every two of the kinds of trouble together.           *)
EXTENDS AcpProcess

Mix(kinds, nRuns, nChanges, nFaults, ends) ==
    [lane : kinds, stops : {ends # "no"}, closes : {ends = "close"},
     runs : {nRuns}, changes : {nChanges}, faults : {nFaults}]

SmallMixes ==
    Mix({FALSE}, 2, 0, 2, "stop") \cup Mix({FALSE}, 2, 1, 0, "no") \cup Mix({FALSE}, 1, 2, 0, "no")
        \cup Mix({FALSE}, 2, 0, 0, "close") \cup Mix({FALSE}, 1, 1, 0, "close")
        \cup Mix({FALSE}, 1, 0, 1, "close") \cup Mix(BOOLEAN, 1, 1, 1, "no")
        \cup Mix({TRUE}, 2, 0, 1, "close") \cup Mix({TRUE}, 2, 1, 0, "no")
=================================================================================
