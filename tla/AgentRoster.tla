---------------------------- MODULE AgentRoster ----------------------------
(***************************************************************************)
(* The agents table (src/storage/repository.ts upsertAgents and            *)
(* listAgentOverviews).  Two writers know different things: the roster     *)
(* pass states an agent's name, kind and, sometimes, model, and the        *)
(* session pass infers from its rows that an agent exists                  *)
(* (src/activity/session-projector.ts, src/collector/runtime.ts).  The     *)
(* readers learn of a change by the topic "agents" only.                   *)
(*                                                                         *)
(* Abstracted: runtime and model are one fact, "model"; name and kind are  *)
(* one, "name"; the times of an agent are left out, and of an overview all *)
(* but its counts of sessions.                                             *)
(***************************************************************************)
EXTENDS Naturals, FiniteSets, FiniteSetsExt

CONSTANTS
    Agents,           \* model values
    Names,            \* names the Gateway gives to agents
    Models,           \* models it states
    MaxRosterSteps    \* bound: changes at the Gateway

VARIABLES
    truth,       \* the Gateway's roster: agent to name and model, or Unlisted
    working,     \* the agents its session list names, each with its sessions
    agentRow,    \* agents table
    sessionRow,  \* sessions table: the agent of a session
    rosterRead,  \* agents.list under way: the reading, or NoReading
    told,        \* agents as a reader of the topic last saw them
    rosterSteps  \* how many happened, for the bound

rosterVars == <<truth, working, agentRow, sessionRow, rosterRead, told, rosterSteps>>

Placeholder == "its id"        \* the name inferAgents gives, of unknown kind
NotStated   == "none"          \* no runtime, no model
Unlisted    == [name |-> "unlisted", model |-> NotStated]
NoAgentRow  == [name |-> "absent", model |-> NotStated, origin |-> "none", print |-> <<>>]
NoReading   == [at |-> "none", roster |-> <<>>]

Roster == [name : Names, model : Models \cup {NotStated}]

Write(name, model, origin) == [name |-> name, model |-> model, origin |-> origin]

\* agentFingerprint: what counts as a change.
Fingerprint(w) == <<w.name, w.model, w.origin>>

\* The slip: the placeholder of an inference is written like any other name.
HeldMutant(row, w) == FALSE

Held(row, w) == row.origin = "roster" /\ w.origin # "roster"

Stated(new, old) == IF new = NotStated THEN old ELSE new

\* agentUpsertSql: what a write makes of a row.
Merged(row, w) ==
    IF row = NoAgentRow
    THEN [name |-> w.name, model |-> w.model, origin |-> w.origin, print |-> Fingerprint(w)]
    ELSE [name |-> IF Held(row, w) THEN row.name ELSE w.name,
          model |-> Stated(w.model, row.model),
          origin |-> IF w.origin = "roster" THEN "roster" ELSE row.origin,
          print |-> IF Held(row, w) THEN row.print ELSE Fingerprint(w)]

\* upsertAgents counts a write as a change by the fingerprints.
IsChange(row, w) == row.print # (IF Held(row, w) THEN row.print ELSE Fingerprint(w))

\* What a reader of the topic gets: the list without its fingerprints.
Public(rows) == [a \in Agents |-> [name |-> rows[a].name, model |-> rows[a].model,
                                   origin |-> rows[a].origin]]

\* upsertAgents: all writes, then the topic when one of them was a change.
UpsertAgents(writes) ==
    LET after == [a \in Agents |-> IF a \in DOMAIN writes THEN Merged(agentRow[a], writes[a])
                                   ELSE agentRow[a]]
    IN /\ agentRow' = after
       /\ told' = IF \E a \in DOMAIN writes : IsChange(agentRow[a], writes[a])
                  THEN Public(after) ELSE told

-----------------------------------------------------------------------------
RosterInit ==
    /\ truth = [a \in Agents |-> Unlisted] /\ working = [a \in Agents |-> 0]
    /\ agentRow = [a \in Agents |-> NoAgentRow] /\ sessionRow = [a \in Agents |-> 0]
    /\ rosterRead = NoReading /\ told = Public(agentRow) /\ rosterSteps = 0

RosterStep == rosterSteps < MaxRosterSteps /\ rosterSteps' = rosterSteps + 1

\* An operator defines an agent, renames it, or lets its model go unsaid.
Redefine(a, entry) ==
    /\ RosterStep /\ entry # truth[a] /\ truth' = [truth EXCEPT ![a] = entry]
    /\ UNCHANGED <<working, agentRow, sessionRow, rosterRead, told>>

Works(a) ==
    /\ RosterStep /\ working' = [working EXCEPT ![a] = @ + 1]
    /\ UNCHANGED <<truth, agentRow, sessionRow, rosterRead, told>>

\* syncAgents, unless one is under way.
AsksRoster ==
    /\ rosterRead = NoReading /\ rosterRead' = [at |-> "asked", roster |-> <<>>]
    /\ UNCHANGED <<truth, working, agentRow, sessionRow, told, rosterSteps>>

GatewayListsAgents ==
    /\ rosterRead.at = "asked" /\ rosterRead' = [at |-> "read", roster |-> truth]
    /\ UNCHANGED <<truth, working, agentRow, sessionRow, told, rosterSteps>>

\* projectAgent: a row without an id is left out; a name it does not state is the id.
RosterWrites(listed) ==
    [a \in {b \in Agents : listed[b] # Unlisted} |-> Write(listed[a].name, listed[a].model, "roster")]

RosterAnswered ==
    /\ rosterRead.at = "read" /\ rosterRead' = NoReading
    /\ UpsertAgents(RosterWrites(rosterRead.roster))
    /\ UNCHANGED <<truth, working, sessionRow, rosterSteps>>

\* The roster stays what the sessions imply.
RosterFails ==
    /\ rosterRead # NoReading /\ RosterStep /\ rosterRead' = NoReading
    /\ UNCHANGED <<truth, working, agentRow, sessionRow, told>>

\* archiveSessions: the sessions, then the agents they imply.
InferredWrites == [a \in {b \in Agents : working[b] > 0} |-> Write(Placeholder, NotStated, "observed")]

ArchiveSessions ==
    /\ \E a \in Agents : working[a] > 0
    /\ sessionRow' = working
    /\ UpsertAgents(InferredWrites)
    /\ UNCHANGED <<truth, working, rosterRead, rosterSteps>>

RosterNext ==
    \/ AsksRoster
    \/ GatewayListsAgents
    \/ RosterAnswered
    \/ RosterFails
    \/ ArchiveSessions
    \/ \E a \in Agents :
          \/ Works(a)
          \/ \E entry \in Roster : Redefine(a, entry)

RosterSpec == RosterInit /\ [][RosterNext]_rosterVars

FairRosterSpec ==
    /\ RosterSpec
    /\ WF_rosterVars(AsksRoster) /\ WF_rosterVars(GatewayListsAgents)
    /\ WF_rosterVars(RosterAnswered) /\ WF_rosterVars(ArchiveSessions)

-----------------------------------------------------------------------------
\* listAgentOverviews joins the two tables, and names no agent twice.
SessionCount(a) == IF agentRow[a] = NoAgentRow THEN 0 ELSE sessionRow[a]

RosterTypeOK ==
    /\ \A a \in Agents :
          /\ agentRow[a].name \in Names \cup {Placeholder, "absent"}
          /\ agentRow[a].model \in Models \cup {NotStated}
          /\ agentRow[a].origin \in {"roster", "observed", "none"}
    /\ sessionRow \in [Agents -> Nat]

(* Every session the archive holds counts for an agent of the list: no row of *)
(* the sessions table is left out because its agent has none (archiveSessions *)
(* writes sessions and agents in two transactions, in one turn).              *)
SessionsAreCounted ==
    MapThenSumSet(SessionCount, Agents) = MapThenSumSet(LAMBDA a : sessionRow[a], Agents)

(* A roster entry never becomes an inferred one again, an inference leaves    *)
(* its name alone, and a model that was stated is never unsaid                *)
(* (repository.ts:1039, "never downgraded").                                  *)
RosterIsKept ==
    [][\A a \in Agents :
         /\ agentRow[a].origin = "roster" => agentRow'[a].origin = "roster"
         /\ agentRow[a].origin = "roster" /\ agentRow'[a].name # agentRow[a].name
              => rosterRead.at = "read" /\ agentRow'[a].name = rosterRead.roster[a].name
         /\ agentRow[a].model # NotStated => agentRow'[a].model # NotStated]_rosterVars

(* What a reader last saw of the roster is what the table holds: the topic is *)
(* announced whenever a name, model or origin changes, although the           *)
(* fingerprint leaves out what the merge kept.                                *)
ReadersAreTold == told = Public(agentRow)

(* When the Gateway's roster rests, the table comes to name each of its       *)
(* agents as the Gateway does, whatever the sessions imply meanwhile.         *)
RosterConverges ==
    <>[](\A a \in Agents : truth[a] # Unlisted =>
            agentRow[a].origin = "roster" /\ agentRow[a].name = truth[a].name)
=============================================================================
