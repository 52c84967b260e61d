-------------------------- MODULE MCFleetDispatch --------------------------
(***************************************************************************)
(* Small instances of FleetDispatch.  A run chooses its tasks; a1 is an    *)
(* Agent that works in-process, aj one in Job mode.                        *)
(***************************************************************************)
EXTENDS FleetDispatch

MCAgents == {"a1", "aj"}
MCJobAgents == {"aj"}
MCCapabilities == {"any"}
MCSatisfiedBy == [t \in Tasks |-> {"any"}]
MCRank == [t \in Tasks |-> IF t = "t1" THEN 1 ELSE 2]
BigAndSmall == {"big", "small"}
FirstNeedsBig == [t \in Tasks |-> IF t = "t1" THEN {"big"} ELSE BigAndSmall]
AllCalls == {"schedule", "recover", "claim", "terminal"}
AllInProcess == [t \in Tasks |-> "a1"]
AllJobs == [t \in Tasks |-> "aj"]
NoLimit == [a \in Agents |-> 9]
LimitOne == [a \in Agents |-> 1]
=============================================================================
