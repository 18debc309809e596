----------------------------- MODULE MCRecords -----------------------------
(***************************************************************************)
(* The collectors of a node and the tables each keeps: the task ledger,    *)
(* usage, signals, the verdicts of the probe, standalone processes and the *)
(* roster of agents; and the upgrade of the database that holds them.      *)
(* They write different tables and none reads what another wrote, so that  *)
(* their interleavings say nothing that each of them does not say alone: a *)
(* behaviour of this module is one of one part, named in its first state,  *)
(* with the others at rest.                                                *)
(***************************************************************************)
EXTENDS TaskLedger, UsageLedger, SessionSignals, CapabilityProbe, StandaloneCli, AgentRoster,
        Migrations

VARIABLE part    \* the part that moves

MCSpend  == 1 :> 2 @@ 2 :> 1
MCFirst  == {"sessions.usage", "chat.history"}
MCBuilds == {MCFirst, {"audit.list"}}

Parts == {"tasks", "usage", "signals", "probe", "cli", "roster", "upgrade"}

recordsVars ==
    <<part, vars, usageVars, signalVars, probeVars, cliVars, rosterVars, upgradeVars>>

RecordsInit ==
    /\ part \in Parts
    /\ Init /\ UsageInit /\ SignalsInit /\ ProbeInit /\ CliInit /\ RosterInit
    /\ MigrationsInit
    /\ part # "usage" => meter.dated
    /\ part # "probe" => serves = MCFirst /\ ~archiveFilled
    /\ part # "upgrade" => db.version = 2

RecordsNext ==
    \/ /\ part = "tasks" /\ Next
       /\ UNCHANGED <<part, usageVars, signalVars, probeVars, cliVars, rosterVars, upgradeVars>>
    \/ /\ part = "usage" /\ UsageNext
       /\ UNCHANGED <<part, vars, signalVars, probeVars, cliVars, rosterVars, upgradeVars>>
    \/ /\ part = "signals" /\ SignalsNext
       /\ UNCHANGED <<part, vars, usageVars, probeVars, cliVars, rosterVars, upgradeVars>>
    \/ /\ part = "probe" /\ ProbeNext
       /\ UNCHANGED <<part, vars, usageVars, signalVars, cliVars, rosterVars, upgradeVars>>
    \/ /\ part = "cli" /\ CliNext
       /\ UNCHANGED <<part, vars, usageVars, signalVars, probeVars, rosterVars, upgradeVars>>
    \/ /\ part = "roster" /\ RosterNext
       /\ UNCHANGED <<part, vars, usageVars, signalVars, probeVars, cliVars, upgradeVars>>
    \/ /\ part = "upgrade" /\ MigrationsNext
       /\ UNCHANGED <<part, vars, usageVars, signalVars, probeVars, cliVars, rosterVars>>

\* Each part has the fairness of its module.
RecordsFairness ==
    /\ WF_vars(part = "tasks" /\ StartPass)
    /\ WF_vars(part = "tasks" /\ PageAnswered)
    /\ WF_vars(part = "tasks" /\ EndPass)
    /\ WF_usageVars(part = "usage" /\ PassTime)
    /\ WF_usageVars(part = "usage" /\ UsageStart)
    /\ WF_usageVars(part = "usage" /\ (UsageAnswered \/ UsageFails))
    /\ WF_signalVars(part = "signals" /\ SessionListed)
    /\ WF_signalVars(part = "signals" /\ RecomputeStale)
    /\ WF_probeVars(part = "probe" /\ FirstProbe)
    /\ WF_probeVars(part = "probe" /\ SettleHistoryProbe)
    /\ \A p \in Passes : WF_probeVars(part = "probe" /\ ProbeAnswered(p))
    /\ WF_cliVars(part = "cli" /\ Poll)
    /\ \A a \in Ages : /\ WF_cliVars(part = "cli" /\ List(a))
                       /\ WF_cliVars(part = "cli" /\ RecordPoll(a))
    /\ WF_rosterVars(part = "roster" /\ AsksRoster)
    /\ WF_rosterVars(part = "roster" /\ GatewayListsAgents)
    /\ WF_rosterVars(part = "roster" /\ RosterAnswered)
    /\ WF_rosterVars(part = "roster" /\ ArchiveSessions)

RecordsSpec     == RecordsInit /\ [][RecordsNext]_recordsVars
FairRecordsSpec == RecordsSpec /\ RecordsFairness

-----------------------------------------------------------------------------
(* The properties of the parts.  Where a part rests in its first state, its   *)
(* liveness properties hold of it.                                            *)

RecordsTypeOK ==
    /\ part \in Parts
    /\ TypeOK /\ UsageTypeOK /\ SignalsTypeOK /\ ProbeTypeOK /\ CliTypeOK /\ RosterTypeOK
    /\ MigrationsTypeOK

(* Usage is counted once and no reading is lost, whatever was folded          *)
(* (UsageStore.record, rollupOlderThan, summary, agentWindows).               *)
UsageIsCounted == TotalIsHighWater /\ WindowCountsOnce

(* A tool call counts once, whichever source told of it, and never raises a   *)
(* grade; and once a source holds every call, all of them count               *)
(* (signal-store.ts, session-signals.ts).                                     *)
SignalsAreSound == []NoCallCountsTwice /\ []CallsOnlyCost /\ WholeTrailIsScored

(* A verdict is one of the Gateway that is connected, and the probe of the    *)
(* history settles once there is a transcript to probe with.                  *)
ProbesAreSound == []VerdictsAreOfThisBuild /\ HistorySettles

(* Standalone processes: none is shown as ended while it runs, exits are      *)
(* noticed, and what runs is shown (StandaloneCliObserver).                   *)
ProcessesAreShown == []RunningIsNotEnded /\ ExitsAreNoticed /\ RunningIsShown

(* The roster: counts, announcements, names that stay, and convergence        *)
(* (upsertAgents, archiveSessions).                                           *)
RosterIsTrue == []SessionsAreCounted /\ []ReadersAreTold /\ RosterIsKept /\ RosterConverges
=============================================================================
