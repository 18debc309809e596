------------------------------- MODULE Mirror -------------------------------
(***************************************************************************)
(* What copies of numbered sources promise, whoever keeps them: a copy is  *)
(* some version its source has had, or nothing, and when a source rests    *)
(* and answers, its copy becomes the last version and stays so.            *)
(***************************************************************************)
EXTENDS Integers

CONSTANTS
    Sources,   \* what is copied
    Nothing    \* no copy is held, and no version

VARIABLES
    source,    \* the version of each source
    copy,      \* the version held of it, or Nothing
    answering  \* the sources that can be read

mirrorVars == <<source, copy, answering>>

MirrorInit ==
    /\ source \in [Sources -> Nat] /\ answering \subseteq Sources
    /\ copy = [s \in Sources |-> Nothing]

\* Sources move on, fail and return.
Moves ==
    /\ \A s \in Sources : source'[s] \in {source[s], source[s] + 1}
    /\ answering' \subseteq Sources /\ UNCHANGED copy

\* An answer, however old, is taken over, or what was held is given up.
Copies(s) ==
    /\ \E v \in (0..source[s]) \cup {Nothing} : copy' = [copy EXCEPT ![s] = v]
    /\ UNCHANGED <<source, answering>>

MirrorNext == Moves \/ \E s \in Sources : Copies(s)

Settles == <>[](\A s \in answering : copy[s] = source[s])

\* What a copy may show, whatever is lost; and that it is not left behind.
MirrorSafety == MirrorInit /\ [][MirrorNext]_mirrorVars
MirrorSpec   == MirrorSafety /\ Settles
=============================================================================
