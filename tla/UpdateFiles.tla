---------------------------- MODULE UpdateFiles ----------------------------
(***************************************************************************)
(* The files of the application as an update sees them: numbered by their  *)
(* place in every install plan (planPriority(), UpdateInstallPlan.cpp),    *)
(* the binary last, each standing for the release it is of.                *)
(***************************************************************************)
EXTENDS Naturals

CONSTANTS LastFile,     \* the number of files
          LastVersion,  \* the number of releases, from the oldest
          Ships         \* the files each release has; the binary, LastFile, is among them

Files    == 1 .. LastFile
Versions == 1 .. LastVersion
Contents == 0 .. LastVersion   \* the release a file is of, or 0: there is no such file
Binary   == LastFile

ASSUME ShipsAssumption ==
    /\ LastFile \in Nat \ {0} /\ LastVersion \in Nat \ {0}
    /\ Ships \in [Versions -> SUBSET Files]
    /\ \A v \in Versions : Binary \in Ships[v]

(* The old files with some of a release over them. *)
With(v, done, old) == [f \in Files |-> IF f \in done THEN v ELSE old[f]]

FirstInstall == With(1, Ships[1], [f \in Files |-> 0])
=============================================================================
