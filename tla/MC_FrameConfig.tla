---------------------------- MODULE MC_FrameConfig ----------------------------
(***************************************************************************)
(* A small instance of FrameConfig: two frame names, and JSON *)
(* configs with and without a link, with a labelled, an unlabelled, a nil *)
(* and a failing geometry.                                                 *)
(***************************************************************************)
EXTENDS FrameConfig

MCNames == {"arm", "gripper"}

Link(id, parent, orient) ==
    [present |-> TRUE, id |-> id, parent |-> parent, orient |-> orient]
Geom(kind, label) == [kind |-> kind, label |-> label]

MCJsonConfigs ==
    {[link |-> Link("arm", "world", "ok"), geoms |-> <<Geom("box", "")>>],
     [link |-> Link("arm", "world", "bad"), geoms |-> <<>>],
     [link |-> Link("gripper", "world", "nil"),
      geoms |-> <<Geom("box", "pad"), Geom("bad", "")>>],
     [link |-> NoCfg.link, geoms |-> <<Geom("nil", "")>>]}
=============================================================================
