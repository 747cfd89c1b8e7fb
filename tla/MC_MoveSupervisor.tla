--------------------------- MODULE MC_MoveSupervisor ---------------------------
(***************************************************************************)
(* A small instance of MoveSupervisor: globe and map moves; replan maxima  *)
(* -1 (unbounded), 0 and 1 and an invalid extra; no configuration, a valid *)
(* one with both polling frequencies left at zero, one with a negative and *)
(* one with a NaN field; every kind of destination; a missing sensor and a *)
(* missing SLAM service.  The replan count saturates at 3, above every     *)
(* maximum + 1.                                                            *)
(***************************************************************************)
EXTENDS MoveSupervisor

Cfg(lin, pos, obs, det) ==
    [given |-> TRUE, linear |-> lin, angular |-> "pos", deviation |-> "zero",
     position |-> pos, obstacle |-> obs, detectors |-> det]

NilCfg == [Cfg("zero", "zero", "zero", "nil") EXCEPT !.given = FALSE]

MCRequests ==
    [type : {"globe", "map"},
     extra : {[valid |-> TRUE, maxReplans |-> -1, profile |-> ""],
              [valid |-> TRUE, maxReplans |-> 0, profile |-> "position_only"],
              [valid |-> TRUE, maxReplans |-> 1, profile |-> ""],
              [valid |-> FALSE, maxReplans |-> -1, profile |-> ""]},
     cfg : {NilCfg, Cfg("pos", "zero", "zero", "nil"), Cfg("neg", "pos", "pos", "known"),
            Cfg("nan", "pos", "zero", "nil"), Cfg("zero", "pos", "pos", "unknown")},
     dest : {"ok", "nil", "nan", "far"},
     missing : {{}, {"sensor"}, {"slam"}}]

MCReplanCap == 3
=============================================================================
