------------------------------ MODULE Pairing ------------------------------
(***************************************************************************)
(* Saved settings and the pairing of two collectors (src/settings/store.ts,*)
(* pairing.ts, secrets.ts, the settings and pairing routes of              *)
(* src/http/server.ts, the start-up checks of src/config.ts).              *)
(*                                                                         *)
(* A machine saves its settings in two files, the configuration and the    *)
(* secrets, one write after the other; a process keeps what it started     *)
(* with, what it believes is saved, and whether a restart is due.  A node  *)
(* hands out a one-time code; the hub buys the node's token with it over   *)
(* the network and adds the node to its own settings.                      *)
(*                                                                         *)
(* Abstracted: the fields of a configuration but the ones pairing turns    *)
(* on; environment variables that override secrets; the Gateway's token,   *)
(* which every machine has; role "both", which serves as a node.           *)
(***************************************************************************)
EXTENDS Integers, FiniteSets

CONSTANTS
    Machines,         \* two collectors, each the other's peer
    Patches,          \* the changes operators save
    MaxSaves,         \* bound: settings saved
    MaxCodes,         \* bound: codes handed out
    MaxPairingFaults  \* bound: stops, lost requests and writes

NoToken == 0
NoOffer == [code |-> 0, token |-> NoToken]

ASSUME PairingAssumption ==
    /\ Cardinality(Machines) = 2
    /\ Patches \subseteq {"lan", "loopback", "hub", "node", "token", "unlist"}
    /\ {MaxSaves, MaxCodes, MaxPairingFaults} \subseteq Nat

VARIABLES
    disk,      \* both files of each machine
    saved,     \* config: what its process believes is saved
    started,   \* what its process started with
    restart,   \* restartRequired
    running,   \* the machines whose process runs
    offer,     \* offers: the code that can be redeemed
    claims,    \* claims under way: who asks, with which code, what was bought
    minted,    \* history: tokens generated so far
    codes,     \* history: codes handed out so far
    torn,      \* history: machines one of whose saves failed between its files
    saves, pairingFaults \* how many happened, for the bounds

processVars == <<saved, started, restart, running, offer>>
pairingVars == <<disk, processVars, claims, minted, codes, torn, saves, pairingFaults>>

Peer(m) == CHOOSE p \in Machines : p # m

Configuration == [lan : BOOLEAN, role : {"node", "hub"}, listed : BOOLEAN,
                  token : Nat, key : Nat]
NewConfig == [lan |-> FALSE, role |-> "node", listed |-> FALSE, token |-> NoToken, key |-> NoToken]

\* loadConfig: what a process refuses to start with.
Loads(c) ==
    /\ c.lan => c.token # NoToken
    /\ c.role = "hub" => c.listed
    /\ c.listed => c.key # NoToken

PairingFault == pairingFaults < MaxPairingFaults /\ pairingFaults' = pairingFaults + 1

-----------------------------------------------------------------------------
PairingInit ==
    /\ disk = [m \in Machines |-> NewConfig] /\ saved = disk /\ started = disk
    /\ restart = [m \in Machines |-> FALSE] /\ running = Machines
    /\ offer = [m \in Machines |-> NoOffer] /\ claims = {}
    /\ minted = 0 /\ codes = 0 /\ torn = {} /\ saves = 0 /\ pairingFaults = 0

\* The slip: the token of a machine that becomes reachable is left to the operator.
NeedsTokenMutant(m, patch) == patch = "token"

\* A machine that becomes reachable gets a token, unless one is there.
NeedsToken(m, patch) ==
    \/ patch = "token"
    \/ patch = "lan" /\ saved[m].token = NoToken /\ disk[m].token = NoToken

Patched(c, patch, token) ==
    [lan    |-> IF patch \in {"lan", "loopback"} THEN patch = "lan" ELSE c.lan,
     role   |-> IF patch \in {"hub", "node"} THEN patch ELSE c.role,
     listed |-> patch # "unlist" /\ c.listed,
     token  |-> IF token # NoToken THEN token ELSE c.token,
     key    |-> c.key]

\* Both files, or the configuration and no longer the secrets.
WriteConfig(m, c) == disk' = [disk EXCEPT ![m] = c] /\ UNCHANGED torn
Torn(m, c) ==
    /\ PairingFault /\ torn' = torn \cup {m}
    /\ disk' = [disk EXCEPT ![m] = [c EXCEPT !.token = disk[m].token, !.key = disk[m].key]]
    /\ UNCHANGED processVars

\* The slip: a code that was handed out outlives the settings it was made for.
WithdrawnMutant(m) == UNCHANGED offer

\* clearPairingOffers.
Withdrawn(m) == offer' = [offer EXCEPT ![m] = NoOffer]

\* What a save leaves in the process that made it.
Applied(m, c) ==
    /\ saved' = [saved EXCEPT ![m] = c] /\ restart' = [restart EXCEPT ![m] = TRUE]
    /\ Withdrawn(m) /\ UNCHANGED <<started, running, pairingFaults>>

\* applyPatch: refused as a whole, or both files, then the memory.
Save(m, patch) ==
    LET token == IF NeedsToken(m, patch) THEN minted + 1 ELSE NoToken
        next  == Patched(disk[m], patch, token)
    IN  /\ m \in running /\ saves < MaxSaves /\ saves' = saves + 1
        /\ patch = "hub" => saved[m].listed
        /\ patch = "unlist" => saved[m].role # "hub"
        /\ minted' = IF token = NoToken THEN minted ELSE token
        /\ \/ /\ WriteConfig(m, next)
              /\ Applied(m, Patched(saved[m], patch, token))
           \/ /\ token # NoToken
              /\ Torn(m, next)
        /\ UNCHANGED <<claims, codes>>

\* The slip: a code is handed out although a restart is due.
MayOfferMutant(m) == started[m].role # "hub" /\ started[m].lan

\* What pairing/offer asks of the running process.
MayOffer(m) == ~restart[m] /\ started[m].role # "hub" /\ started[m].lan

\* createPairingOffer: the one code of the process.
Offer(m) ==
    /\ m \in running /\ MayOffer(m) /\ codes < MaxCodes
    /\ codes' = codes + 1
    /\ offer' = [offer EXCEPT ![m] = [code |-> codes', token |-> saved[m].token]]
    /\ UNCHANGED <<disk, saved, started, restart, running, claims, minted, torn, saves, pairingFaults>>

\* Ten minutes have passed: whoever looks at the code next removes it.
OfferExpires(m) ==
    /\ offer[m] # NoOffer /\ offer' = [offer EXCEPT ![m] = NoOffer]
    /\ UNCHANGED <<disk, saved, started, restart, running, claims, minted, codes, torn, saves, pairingFaults>>

\* pairing/claim up to its await, with a code the operator was given.
Claim(m) ==
    /\ m \in running
    /\ \E c \in 1..codes :
          /\ \A d \in claims : d.code # c \* bound: a code is under way once
          /\ claims' = claims \cup {[by |-> m, code |-> c, token |-> NoToken]}
    /\ UNCHANGED <<disk, processVars, minted, codes, torn, saves, pairingFaults>>

\* The peer sells its token for its code, or knows no such code.
Redeem(d) ==
    LET p == Peer(d.by)
    IN  /\ d.token = NoToken /\ p \in running /\ started[p].lan
        /\ IF offer[p].code = d.code
           THEN /\ offer' = [offer EXCEPT ![p] = NoOffer]
                /\ claims' = (claims \ {d}) \cup {[d EXCEPT !.token = offer[p].token]}
           ELSE claims' = claims \ {d} /\ UNCHANGED offer
        /\ UNCHANGED <<disk, saved, started, restart, running, minted, codes, torn, saves, pairingFaults>>

\* The request or its answer is lost; what was bought is gone with it.
ClaimFails(d) ==
    /\ \/ /\ ~(Peer(d.by) \in running /\ started[Peer(d.by)].lan)
          /\ UNCHANGED pairingFaults
       \/ PairingFault
    /\ claims' = claims \ {d}
    /\ UNCHANGED <<disk, processVars, minted, codes, torn, saves>>

\* The slip: the write starts from the configuration the process was started with.
RootMutant(m) == started[m]

\* What addHubNode adds the node to: the files as they are after the await.
Root(m) == disk[m]

Joined(c, key) == [c EXCEPT !.listed = TRUE, !.key = key]

\* addHubNode: the node in the configuration, then its token in the secrets.
AddHubNode(d) ==
    /\ d.token # NoToken
    /\ claims' = claims \ {d}
    /\ \/ /\ WriteConfig(d.by, Joined(Root(d.by), d.token))
          /\ Applied(d.by, Joined(saved[d.by], d.token))
       \/ Torn(d.by, Joined(Root(d.by), d.token))
    /\ UNCHANGED <<minted, codes, saves>>

\* The process ends, by a signal or a crash; claims and codes were in its memory.
Ends(m) ==
    /\ m \in running /\ PairingFault
    /\ running' = running \ {m}
    /\ offer' = [offer EXCEPT ![m] = NoOffer] /\ claims' = {d \in claims : d.by # m}
    /\ UNCHANGED <<disk, saved, started, restart, minted, codes, torn, saves>>

Starts(m) ==
    /\ m \notin running /\ Loads(disk[m])
    /\ running' = running \cup {m}
    /\ saved' = [saved EXCEPT ![m] = disk[m]] /\ started' = [started EXCEPT ![m] = disk[m]]
    /\ restart' = [restart EXCEPT ![m] = FALSE]
    /\ UNCHANGED <<disk, offer, claims, minted, codes, torn, saves, pairingFaults>>

PairingNext ==
    \/ \E m \in Machines :
          \/ \E patch \in Patches : Save(m, patch)
          \/ Offer(m)
          \/ OfferExpires(m)
          \/ Claim(m)
          \/ Ends(m)
          \/ Starts(m)
    \/ \E d \in claims :
          \/ Redeem(d)
          \/ ClaimFails(d)
          \/ AddHubNode(d)

PairingSpec == PairingInit /\ [][PairingNext]_pairingVars

-----------------------------------------------------------------------------
PairingTypeOK ==
    /\ disk \in [Machines -> Configuration] /\ saved \in [Machines -> Configuration]
    /\ started \in [Machines -> Configuration]
    /\ restart \in [Machines -> BOOLEAN] /\ running \subseteq Machines
    /\ \A m \in Machines : offer[m].code \in 0..codes /\ offer[m].token \in 0..minted
    /\ \A d \in claims : d.by \in Machines /\ d.token \in 0..minted

(* A code that can be redeemed buys the token that the node checks requests   *)
(* with now and will still check them with after a restart, from a node that  *)
(* can be reached: no save, restart or expiry leaves a code behind            *)
(* (pairing/offer, clearPairingOffers, redeemPairingOffer).                   *)
OfferIsHonoured ==
    \A m \in Machines : offer[m] # NoOffer =>
        /\ m \in running /\ started[m].lan /\ disk[m].lan
        /\ offer[m].token = started[m].token /\ offer[m].token = disk[m].token

(* Settings show what the files hold, and say that a restart is due whenever  *)
(* the process was started with something else, also when a claim that was    *)
(* sent before a save is answered after it; except where a save failed        *)
(* between its two files (applyPatch, addHubNode, restartRequired).           *)
SettingsAreTrue ==
    \A m \in running \ torn :
        saved[m] = disk[m] /\ (restart[m] \/ started[m] = disk[m])

(* What was saved can be started with: a reachable machine has a token, a hub *)
(* a node, and a node that was joined its key; except where a save failed     *)
(* between its two files (loadConfig's refusals).                             *)
SavedStarts == \A m \in Machines \ torn : Loads(disk[m])

(* The settings shown are those a restart would use, and what was saved       *)
(* starts (SettingsStore).                                                    *)
SettingsAreSound == SettingsAreTrue /\ SavedStarts
=============================================================================
