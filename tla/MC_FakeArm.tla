------------------------------ MODULE MC_FakeArm ------------------------------
(***************************************************************************)
(* A small instance of FakeArm: joint values 0, 1 and an out-of-limits 2, *)
(* for a six-joint model (the fake model, xArm6, UR5e, eva).               *)
(* The commands move every joint, alternate joints, leave the limits, or  *)
(* have the wrong length.  Two callers move the arm concurrently.         *)
(***************************************************************************)
EXTENDS FakeArm

Vec(n, f(_)) == [i \in 1..n |-> f(i)]

MCLimit == {0, 1}

MCCommands6 ==
    {Vec(6, LAMBDA i : 1), Vec(6, LAMBDA i : i % 2),
     Vec(6, LAMBDA i : IF i = 3 THEN 2 ELSE 0), Vec(5, LAMBDA i : 1)}

MCCallers == {"c1", "c2"}

MCMaxClose == 1
=============================================================================
