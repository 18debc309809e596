--------------------------- MODULE CapabilityProbe ---------------------------
(***************************************************************************)
(* The probes of Gateway methods that discovery does not mention           *)
(* (src/collector/capability-probe.ts) and the two places that start them  *)
(* (probeCapabilities and settleHistoryProbe of src/collector/runtime.ts). *)
(*                                                                         *)
(* A probe pass is a loop that asks one method after the other and awaits  *)
(* each answer; nothing keeps two passes from overlapping.  One starts     *)
(* after the snapshot that follows a connection, and one after a session   *)
(* pass that finds no verdict on chat.history.  When the connection goes,  *)
(* what awaits is rejected and the rest of each loop fails at once, before *)
(* another connection can begin.                                           *)
(***************************************************************************)
EXTENDS Naturals, FiniteSets

CONSTANTS
    Transcripts,    \* storage.transcriptSync is "enabled"
    Builds,         \* builds of the Gateway, each a set of methods it serves
    Refusal,        \* how it answers others: "unavailable" or "unauthorized"
    Passes,         \* bound: probe passes under way at a time
    MaxConnects,    \* bound: connections
    MaxProbeFaults  \* bound: transient failures of a probe

ASSUME ProbeAssumption ==
    /\ Refusal \in {"unavailable", "unauthorized"}
    /\ MaxConnects \in Nat /\ MaxProbeFaults \in Nat

VARIABLES
    linked,         \* the connection is up
    serves,         \* the methods the connected build serves
    verdicts,       \* CapabilityRegistry.states
    greetings,      \* connections whose first probe has not started yet
    archiveFilled,  \* a session key is known
    probing,        \* per pass, the method it awaits, or NoProbe
    keyed,          \* the passes that were given a session key
    connects,
    probeFaults

probeVars == <<linked, serves, verdicts, greetings, archiveFilled, probing, keyed, connects, probeFaults>>

\* NON_DISCOVERABLE_METHODS, in the order they are asked.
MethodAt == <<"sessions.usage", "chat.history", "audit.list">>
Methods == {MethodAt[i] : i \in DOMAIN MethodAt}
Place(m) == CHOOSE i \in DOMAIN MethodAt : MethodAt[i] = m
NoProbe == "idle"

Truth(m) == IF m \in serves THEN "live" ELSE Refusal

-----------------------------------------------------------------------------
(* One pass *)

\* probeAll asks about a method unless its verdict stands, and about history
\* only with a session to name.
AskableMutant(known, m, key) ==
    /\ known[m] = "unknown"
    /\ m = "chat.history" => key
Askable(known, m, key) ==
    /\ known[m] \in {"unknown", "error"}
    /\ m = "chat.history" => key

\* Where a pass that has come to a place in the order goes on.
NextAsked(known, from, key) ==
    LET open == {m \in Methods : Place(m) >= from /\ Askable(known, m, key)}
    IN IF open = {} THEN NoProbe
       ELSE CHOOSE m \in open : \A o \in open : Place(m) <= Place(o)

BeginPass(key) ==
    \E p \in Passes :
        /\ probing[p] = NoProbe
        /\ probing' = [probing EXCEPT ![p] = NextAsked(verdicts, 1, key)]
        /\ keyed' = IF key THEN keyed \cup {p} ELSE keyed \ {p}

\* An answer is stored over whatever is known by now.
ProbeAnswer(p, answer) ==
    LET known == [verdicts EXCEPT ![probing[p]] = answer]
    IN /\ verdicts' = known
       /\ probing' = [probing EXCEPT ![p] = NextAsked(known, Place(probing[p]) + 1, p \in keyed)]

-----------------------------------------------------------------------------
ProbeInit ==
    /\ linked = FALSE
    /\ serves \in Builds
    /\ verdicts = [m \in Methods |-> "unknown"]
    /\ greetings = 0
    /\ archiveFilled \in BOOLEAN
    /\ probing = [p \in Passes |-> NoProbe]
    /\ keyed = {}
    /\ connects = 0
    /\ probeFaults = 0

\* newGeneration: another build may answer, so no verdict is kept.
ForgottenMutant == verdicts
Forgotten == [m \in Methods |-> "unknown"]

Connects ==
    /\ ~linked
    /\ connects < MaxConnects
    /\ connects' = connects + 1
    /\ linked' = TRUE
    /\ serves' \in Builds
    /\ verdicts' = Forgotten
    /\ greetings' = greetings + 1
    /\ UNCHANGED <<archiveFilled, probing, keyed, probeFaults>>

\* A loop that is cut off fails what it awaits and all it had still to ask.
CutOff(m) ==
    \E p \in Passes :
        /\ probing[p] # NoProbe
        /\ \/ probing[p] = m
           \/ Place(m) > Place(probing[p]) /\ Askable(verdicts, m, p \in keyed)

Disconnects ==
    /\ linked
    /\ linked' = FALSE
    /\ verdicts' = [m \in Methods |-> IF CutOff(m) THEN "error" ELSE verdicts[m]]
    /\ probing' = [p \in Passes |-> NoProbe]
    /\ UNCHANGED <<serves, greetings, archiveFilled, keyed, connects, probeFaults>>

\* The handler of a connection comes to its probe, whatever became of it.
FirstProbe ==
    /\ greetings > 0
    /\ greetings' = greetings - 1
    /\ IF linked THEN BeginPass(archiveFilled) ELSE UNCHANGED <<probing, keyed>>
    /\ UNCHANGED <<linked, serves, verdicts, archiveFilled, connects, probeFaults>>

\* A session pass archives its sessions.
SessionsArchived ==
    /\ linked
    /\ ~archiveFilled
    /\ archiveFilled' = TRUE
    /\ UNCHANGED <<linked, serves, verdicts, greetings, probing, keyed, connects, probeFaults>>

\* settleHistoryProbe, at the end of every session pass.
MayRetryMutant == verdicts["chat.history"] = "unknown"
MayRetry == verdicts["chat.history"] \in {"unknown", "error"}

SettleHistoryProbe ==
    /\ Transcripts
    /\ linked
    /\ archiveFilled
    /\ MayRetry
    /\ BeginPass(TRUE)
    /\ UNCHANGED <<linked, serves, verdicts, greetings, archiveFilled, connects, probeFaults>>

ProbeAnswered(p) ==
    /\ probing[p] # NoProbe
    /\ ProbeAnswer(p, Truth(probing[p]))
    /\ UNCHANGED <<linked, serves, greetings, archiveFilled, keyed, connects, probeFaults>>

\* A timeout, or a Gateway that is unwell.
ProbeFails(p) ==
    /\ probing[p] # NoProbe
    /\ probeFaults < MaxProbeFaults
    /\ probeFaults' = probeFaults + 1
    /\ ProbeAnswer(p, "error")
    /\ UNCHANGED <<linked, serves, greetings, archiveFilled, keyed, connects>>

ProbeNext ==
    \/ Connects
    \/ Disconnects
    \/ FirstProbe
    \/ SessionsArchived
    \/ SettleHistoryProbe
    \/ \E p \in Passes : ProbeAnswered(p) \/ ProbeFails(p)

ProbeSpec == ProbeInit /\ [][ProbeNext]_probeVars

\* Session passes come round, handlers go on, and requests end.
FairProbeSpec ==
    /\ ProbeSpec
    /\ WF_probeVars(FirstProbe)
    /\ WF_probeVars(SettleHistoryProbe)
    /\ \A p \in Passes : WF_probeVars(ProbeAnswered(p))

-----------------------------------------------------------------------------
(* Properties *)

\* Types.
ProbeTypeOK ==
    /\ linked \in BOOLEAN
    /\ serves \in Builds
    /\ verdicts \in [Methods -> {"unknown", "live", "unavailable", "unauthorized", "error"}]
    /\ greetings \in 0..MaxConnects
    /\ archiveFilled \in BOOLEAN
    /\ probing \in [Passes -> Methods \cup {NoProbe}]
    /\ keyed \subseteq Passes
    /\ connects \in 0..MaxConnects
    /\ probeFaults \in 0..MaxProbeFaults

\* A verdict that stops further calls is one the build now connected gave:
\* passes that overlap, or were under way when the connection went, leave none
\* of another build behind.
VerdictsAreOfThisBuild ==
    linked => \A m \in Methods : verdicts[m] \in {"unknown", "error", Truth(m)}

\* With transcripts enabled, the connection that lasts comes to know whether
\* chat.history can be called and keeps knowing it, whatever failed before and
\* however late the first session arrived.
HistorySettles ==
    <>[](linked /\ archiveFilled /\ Transcripts =>
            verdicts["chat.history"] = Truth("chat.history"))

\* (code comment) an "error" verdict is transient, retried on later passes.
ErrorIsRetried ==
    \A m \in Methods :
        (linked /\ verdicts[m] = "error") ~> (~linked \/ verdicts[m] # "error")
=============================================================================
