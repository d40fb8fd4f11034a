------------------------------ MODULE ConnCause ------------------------------
(***************************************************************************)
(* What the connection slot promises h3, without the slot: whichever of    *)
(* the frontends reports a connection error first fixes the cause, every   *)
(* later report names the same one, and until then a provisional           *)
(* LocalClose may only be sharpened.                                       *)
(***************************************************************************)
EXTENDS Terminals

VARIABLES
    cause,  \* the cause on record, or NoCause
    told    \* the causes h3 has been told, by any frontend of the connection

vars == <<cause, told>>

TypeOK ==
    /\ cause \in ConnectionTerminal \cup {NoCause}
    /\ told \subseteq ConnectionTerminal

Init ==
    /\ cause = NoCause
    /\ told = {}

\* A callback or a local close records what ended the connection.
Record(c) ==
    /\ told = {}
    /\ \/ cause = NoCause
       \/ cause = "LocalClose" /\ c # "LocalClose"
    /\ cause' = c
    /\ UNCHANGED told

\* A frontend reports the recorded cause to h3.
Deliver ==
    /\ cause # NoCause
    /\ told' = told \cup {cause}
    /\ UNCHANGED cause

Next == Deliver \/ \E c \in ConnectionTerminal : Record(c)

Spec == Init /\ [][Next]_vars

-----------------------------------------------------------------------------
\* Every frontend that reports a connection error reports the recorded cause,
\* so no two of them ever disagree (commit-on-delivery in terminal.rs).
Agreement == told \subseteq {cause}

\* A recorded cause never disappears, a specific cause never changes, and a
\* cause h3 was told never changes, provisional or not.
CauseStable ==
    [][ /\ cause # NoCause => cause' # NoCause
        /\ cause \in SpecificCause => cause' = cause
        /\ told # {} => cause' = cause ]_vars
=============================================================================
