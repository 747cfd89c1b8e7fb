------------------------------- MODULE MC_Ntrip -------------------------------
(***************************************************************************)
(* A small instance of Ntrip: a negative, a zero (default 10) and a        *)
(* positive connect-attempt setting; two mountpoints; four sourcetables    *)
(* that between them hold every kind of line, a duplicate mountpoint, a    *)
(* line after ENDSOURCETABLE, and the malformed STR lines parseStream      *)
(* rejects or repairs.                                                     *)
(***************************************************************************)
EXTENDS Ntrip

\* An STR line for mountpoint m.
Str(m, nf, num, rok, fee) ==
    [kind |-> "STR", mp |-> m, nfields |-> nf, numeric |-> num,
     rateOk |-> rok, rate |-> 9600, fee |-> fee]
\* A line that is not STR: the other fields are not read.
Ln(k) == [kind |-> k, mp |-> "none", nfields |-> 1, numeric |-> FALSE,
          rateOk |-> FALSE, rate |-> 0, fee |-> "N"]

MCAttemptInputs == {-1, 0, 2}
MCMountPoints == {"m1", "m2"}
MCTables ==
    { << Ln("#"), Ln("CAS"), Str("m1", 19, TRUE, TRUE, "N"), Ln("NET"),
         Str("m1", 19, TRUE, FALSE, "Y"), Ln("ENDSOURCETABLE"), Ln("junk") >>,
      << Ln("*"), Str("m2", 19, TRUE, TRUE, "Y"), Ln("junk") >>,
      << Str("m1", 18, TRUE, TRUE, "N") >>,
      << Str("m2", 20, FALSE, TRUE, "N"), Ln("ENDSOURCETABLE") >> }
=============================================================================
