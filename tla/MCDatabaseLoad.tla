--------------------------- MODULE MCDatabaseLoad ---------------------------
(* Two runs of the loaders that overlap or follow each other in any order,   *)
(* with good files, or with one that is absent, has another header or a bad  *)
(* row.                                                                      *)
EXTENDS DatabaseLoad

CONSTANTS morning, evening

MCLoads == {morning, evening}

GoodFiles == [f \in Files |-> "good"]

MCDefects ==
    {GoodFiles, [GoodFiles EXCEPT !["calles_raw"] = "bad row"],
     [GoodFiles EXCEPT !["gtfs_stop_times_raw"] = "bad header"],
     [GoodFiles EXCEPT !["viajes_raw"] = "missing"]}
=============================================================================
