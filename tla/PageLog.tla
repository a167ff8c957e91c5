------------------------------- MODULE PageLog -------------------------------
(***************************************************************************)
(* What one recording promises (assignment4/README, Start p): entries are   *)
(* accepted until limit pages of PageEntries entries are full, a full page  *)
(* is sealed while the next one fills, and the pages are saved once each,   *)
(* in order, under the numbers from FirstPage on, before another page is    *)
(* full. The README says "from page 0". Of a page, its first entry stands   *)
(* for what is saved: that is how much of it DistanceRecorder saves.        *)
(***************************************************************************)
EXTENDS Naturals, Sequences

CONSTANTS
    PageEntries,
    FirstPage

VARIABLES
    limit,       \* pages asked for, 0 before the recording
    accepted,    \* entries accepted so far
    sealed,      \* full pages
    log          \* pages saved: their number and their first entry

vars == <<limit, accepted, sealed, log>>

Init == limit = 0 /\ accepted = 0 /\ sealed = 0 /\ log = <<>>

Begin ==
    /\ limit = 0
    /\ limit' \in Nat \ {0}
    /\ UNCHANGED <<accepted, sealed, log>>

Accept ==
    /\ sealed < limit
    /\ accepted < (sealed + 1) * PageEntries
    /\ accepted' = accepted + 1
    /\ UNCHANGED <<limit, sealed, log>>

\* Only one full page waits to be saved: there are two buffers.
Seal ==
    /\ accepted = (sealed + 1) * PageEntries
    /\ Len(log) = sealed
    /\ sealed' = sealed + 1
    /\ UNCHANGED <<limit, accepted, log>>

Commit ==
    /\ Len(log) < sealed
    /\ log' = Append(log, [page |-> FirstPage + Len(log),
                           first |-> Len(log) * PageEntries + 1])
    /\ UNCHANGED <<limit, accepted, sealed>>

Next == Begin \/ Accept \/ Seal \/ Commit

Safety == Init /\ [][Next]_vars

\* A sealed page is saved without anybody's help.
Spec == Safety /\ WF_vars(Commit)
=============================================================================
