----------------------------- MODULE FrameConfig -----------------------------
(***************************************************************************)
(* Frame configurations (referenceframe, part_002): NewFrameConfig turns a *)
(* static frame into a FrameConfig; ParseConfig turns a FrameConfig, built *)
(* so or read from JSON, back into a LinkInFrame through Pose.             *)
(*                                                                         *)
(* Poses, vectors and orientations are abstracted to whether they are     *)
(* present and whether their conversion succeeds; a geometry config to    *)
(* its kind ("nil", "box", or "bad" when its ParseConfig fails) and label. *)
(* A result is a record with status "ok", "err" or "panic" (a nil pointer *)
(* dereference).                                                           *)
(***************************************************************************)
EXTENDS Sequences, SequencesExt

CONSTANTS
    Names,        \* frame names
    JsonConfigs   \* FrameConfigs a caller may read from JSON

VARIABLES
    frame,        \* the static frame given to NewFrameConfig, NoFrame if none
    cfg,          \* the FrameConfig at hand, NoCfg before one exists
    ret           \* the result of ParseConfig, NoRet before it is called

vars == <<frame, cfg, ret>>

NoFrame == [name |-> "", orient |-> "none", geometry |-> "none"]
NoCfg == [link |-> [present |-> FALSE, id |-> "", parent |-> "", orient |-> "nil"],
          geoms |-> <<>>]
NoRet == [status |-> "none", err |-> "none", parent |-> "", id |-> "", labels |-> <<>>]
Err(e) == [NoRet EXCEPT !.status = "err", !.err = e]
Panic == [NoRet EXCEPT !.status = "panic"]

\* The static frames of a frame system: NewOrientationConfig may fail
\* ("err"); the geometry is nil, convertible, or fails NewGeometryConfig.
Frames == [name : Names, orient : {"ok", "err"}, geometry : {"nil", "box", "bad"}]

-----------------------------------------------------------------------------
(***************************************************************************)
(* NewFrameConfig: the orientation converts first, then a non-nil geometry;*)
(* the link has no parent, and Geometries holds the (possibly nil) config. *)
(***************************************************************************)
NewFrameConfigOf(f) ==
    IF f.orient = "err" THEN Err("orientation")
    ELSE IF f.geometry = "bad" THEN Err("geometry")
    ELSE [status |-> "ok",
          cfg |-> [link |-> [present |-> TRUE, id |-> f.name, parent |-> "",
                             orient |-> "ok"],
                   geoms |-> <<[kind |-> IF f.geometry = "nil" THEN "nil" ELSE "box",
                                label |-> ""]>>]]

(***************************************************************************)
(* FrameConfig.Pose as written: a non-nil link is reported as ErrNilPose;  *)
(* a nil link is then dereferenced (link.Translation).  The orientation    *)
(* branch after it is unreachable.                                         *)
(***************************************************************************)
Pose(c) ==
    IF c.link.present THEN Err("nilPose") ELSE Panic

\* GeometryConfig.ParseConfig of one entry of Geometries: a nil entry is
\* dereferenced; an entry without a label takes the link's ID.
ParseGeometry(g, id) ==
    CASE g.kind = "nil" -> Panic
      [] g.kind = "bad" -> Err("geometry")
      [] OTHER -> [NoRet EXCEPT !.status = "ok",
                                !.labels = <<IF g.label = "" THEN id ELSE g.label>>]

\* The loop over Geometries: the first entry that does not parse ends it.
ParseConfigOf(c) ==
    LET p == Pose(c)
        gs == [i \in 1..Len(c.geoms) |-> ParseGeometry(c.geoms[i], c.link.id)]
        k == SelectInSeq(gs, LAMBDA g : g.status # "ok")
    IN  IF p.status # "ok" THEN p
        ELSE IF k # 0 THEN gs[k]
        ELSE [NoRet EXCEPT !.status = "ok", !.parent = c.link.parent, !.id = c.link.id,
                           !.labels = [i \in 1..Len(gs) |-> gs[i].labels[1]]]

-----------------------------------------------------------------------------
Init ==
    /\ frame = NoFrame
    /\ cfg = NoCfg
    /\ ret = NoRet

\* A frame system serialises one of its static frames.
NewFrameConfig ==
    /\ frame = NoFrame /\ cfg = NoCfg /\ ret = NoRet
    /\ \E f \in Frames :
         LET r == NewFrameConfigOf(f) IN
         /\ frame' = f
         /\ cfg' = IF r.status = "ok" THEN r.cfg ELSE cfg
         /\ ret' = IF r.status = "ok" THEN ret ELSE r
    \* a failed conversion is the caller's answer

\* A caller reads a FrameConfig from JSON.
ReadJson ==
    /\ frame = NoFrame /\ cfg = NoCfg /\ ret = NoRet
    /\ \E c \in JsonConfigs : cfg' = c
    /\ UNCHANGED <<frame, ret>>

\* FrameConfig.ParseConfig.
ParseConfig ==
    /\ cfg # NoCfg /\ ret = NoRet
    /\ ret' = ParseConfigOf(cfg)
    /\ UNCHANGED <<frame, cfg>>

Next == NewFrameConfig \/ ReadJson \/ ParseConfig

Spec == Init /\ [][Next]_vars

-----------------------------------------------------------------------------
(***************************************************************************)
(* The comments of NewFrameConfig and ParseConfig: a config built from a   *)
(* static frame converts back into a frame of the same name.  The first   *)
(* is what a frame system relies on when it serialises a frame and reads  *)
(* it back.                                                                *)
(***************************************************************************)
RoundTrip ==
    frame # NoFrame /\ ret # NoRet /\ cfg # NoCfg =>
        ret.status = "ok" /\ ret.id = frame.name
=============================================================================
