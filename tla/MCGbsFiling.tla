---------------------------- MODULE MCGbsFiling ----------------------------
(* Small instances of GbsFiling, and of the GbsCaseLife it extends.        *)
EXTENDS GbsFiling, TLC

Symmetry == Permutations(Clerks) \cup Permutations(Filers)
               \cup Permutations(Tasks)

(* At most two commands are in progress at a time.                         *)
TwoAtATime ==
    Cardinality({p \in Clerks : clerk[p].op # "idle"})
      + Cardinality({p \in Filers : filer[p].pc # "idle"}) <= 2

(* The case is carried on only while there is no authorization; with one,  *)
(* it is as opened or ended, and its handlers name the version they loaded.*)
ShortWithFiling ==
    \/ Known = {}
    \/ /\ kase.ver = 0 \/ (kase.ver = 1 /\ kase.status \in Terminal)
       /\ \A p \in Clerks : clerk[p].ver = clerk[p].seen.ver
=============================================================================
