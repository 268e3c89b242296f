----------------------------- MODULE MCMissionDesk -----------------------------
\* Instances of MissionDesk for TLC.
EXTENDS MissionDesk, TLC

CONSTANTS p1, p2, m1, m2

\* Who is asked for what: two launches at once, of two missions or of one that
\* users move and processes die under; all the tools on one ticket; two
\* preparations; continuations beside a synchronisation; repairs by hand.
Scenario(first, second, missions, moving, dying) ==
    [asked |-> [tools |-> p1 :> first @@ p2 :> second, missions |-> missions],
     moves |-> moving, deaths |-> dying]
MCClients ==
    {Scenario({"launch"}, {"launch"}, Mission, 0, 0),
     Scenario({"prepare"}, {}, Mission, 2, 1),
     Scenario({"launch", "attach", "sync"}, {}, Mission, 0, 1)}
      \cup UNION {
        {Scenario({"launch"}, {"launch"}, {m}, 1, 1),
         Scenario({"launch", "prepare", "attach", "continue", "sync"}, {}, {m}, 2, 1),
         Scenario({"launch", "continue"}, {"continue", "sync"}, {m}, 1, 1)} : m \in Mission}

DeskSymmetry == Permutations(Mission)
=============================================================================
