------------------------- MODULE MC_ConstraintHandler -------------------------
(***************************************************************************)
(* Two names, three configurations on a line, and segments of one or two  *)
(* steps: enough for a segment whose middle state fails while its ends    *)
(* pass, one whose start fails, a constraint overwritten under its name,  *)
(* and a segment constraint that needs the poses next to one that does    *)
(* not.                                                                    *)
(***************************************************************************)
EXTENDS ConstraintHandler

MCNames == {"a", "b"}
MCConfigs == {0, 1, 2}
\* A state constraint rejecting the middle configuration, and one
\* rejecting the first.
MCStateFns == {{1}, {0}}
\* A segment constraint that resolves the poses (an orientation or line
\* check), and one on the configurations alone rejecting the jump 0 -> 2.
MCSegmentFns == {[bad |-> {}, needsPose |-> TRUE],
                 [bad |-> {<<0, 2>>}, needsPose |-> FALSE]}
MCMaxSteps == 2
=============================================================================
