---------------------------- MODULE SubjectGate ----------------------------
(***************************************************************************)
(* SubjectGate (src/browse.rs): admission of requests by a process-wide    *)
(* semaphore and a count per authenticated subject.  The gates of uploads, *)
(* text saves, listings, downloads, archives, folder sizes, events and     *)
(* blocking work are all of this type.                                     *)
(*                                                                         *)
(* The two counts are guarded separately (a tokio semaphore, a mutex over a*)
(* map), so an admission and a release are two steps each, between which   *)
(* the steps of other requests fall.                                       *)
(***************************************************************************)
EXTENDS Naturals, FiniteSets

CONSTANTS
    Requests,    \* requests under way at the same time
    Subjects,    \* authenticated users
    SubjectOf,   \* whose request it is
    Process,     \* process-wide cap
    PerSubject   \* cap of one subject

ASSUME GateAssumption ==
    /\ IsFiniteSet(Requests)
    /\ SubjectOf \in [Requests -> Subjects]
    /\ Process \in Nat
    /\ PerSubject \in Nat

VARIABLES
    permits,     \* permits left in the semaphore
    active,      \* the map's count for each subject, 0 when it has no entry
    pc           \* where each request is

gate == <<permits, active, pc>>

\* "permit": has a permit, not yet counted; "lease": admitted; "return": the
\* permit is all it still holds.
Labels == {"new", "permit", "lease", "return", "refused", "served"}

GateTypeOK ==
    /\ permits \in 0 .. Process
    /\ active \in [Subjects -> Nat]
    /\ pc \in [Requests -> Labels]

GateInit ==
    /\ permits = Process
    /\ active = [s \in Subjects |-> 0]
    /\ pc = [r \in Requests |-> "new"]

Goto(r, label) == pc' = [pc EXCEPT ![r] = label]

-----------------------------------------------------------------------------
(* try_acquire                                                              *)

TryProcess(r) ==
    /\ pc[r] = "new"
    /\ \/ permits > 0 /\ permits' = permits - 1 /\ Goto(r, "permit")
       \/ permits = 0 /\ Goto(r, "refused") /\ UNCHANGED permits
    /\ UNCHANGED active

\* Under the mutex.  A refused request drops its permit after the mutex.
TrySubject(r) ==
    /\ pc[r] = "permit"
    /\ \/ /\ active[SubjectOf[r]] < PerSubject
          /\ active' = [active EXCEPT ![SubjectOf[r]] = @ + 1]
          /\ Goto(r, "lease")
       \/ /\ active[SubjectOf[r]] >= PerSubject
          /\ Goto(r, "return") /\ UNCHANGED active
    /\ UNCHANGED permits

-----------------------------------------------------------------------------
(* Dropping the lease: at the end of the response, of the blocking work it  *)
(* was moved into, or when the client goes away.                            *)

\* Mutant: only the permit goes back.
DropUncounted(r) ==
    /\ pc[r] = "lease"
    /\ Goto(r, "return")
    /\ UNCHANGED <<permits, active>>

\* SubjectLease::drop counts down; its fields, the permit among them, are
\* dropped after that.
Drop(r) ==
    /\ pc[r] = "lease"
    /\ active' = [active EXCEPT ![SubjectOf[r]] = IF @ > 0 THEN @ - 1 ELSE 0]
    /\ Goto(r, "return")
    /\ UNCHANGED permits

ReturnPermit(r) ==
    /\ pc[r] = "return"
    /\ permits' = permits + 1
    /\ Goto(r, "served")
    /\ UNCHANGED active

\* The next request in the same place.
Again(r) ==
    /\ pc[r] \in {"refused", "served"}
    /\ Goto(r, "new")
    /\ UNCHANGED <<permits, active>>

GateNext == \E r \in Requests :
    TryProcess(r) \/ TrySubject(r) \/ Drop(r) \/ ReturnPermit(r) \/ Again(r)

GateSpec == GateInit /\ [][GateNext]_gate

-----------------------------------------------------------------------------

Admitted(s) == {r \in Requests : pc[r] = "lease" /\ SubjectOf[r] = s}
Holding == {r \in Requests : pc[r] \in {"permit", "lease", "return"}}

\* Nothing leaks, whatever the order of acquisitions, refusals and drops: each
\* permit is in the semaphore or held by a request, and the map counts exactly
\* the leases of its subject.
Accounting ==
    /\ permits + Cardinality(Holding) = Process
    /\ \A s \in Subjects : active[s] = Cardinality(Admitted(s))

\* The work admitted never exceeds the two caps, although each is checked in a
\* step of its own.
WithinCaps ==
    /\ Cardinality({r \in Requests : pc[r] = "lease"}) <= Process
    /\ \A s \in Subjects : Cardinality(Admitted(s)) <= PerSubject

\* The gate is sound: nothing leaks, and nothing is admitted beyond the caps
\* (SubjectGate::try_acquire and the drop of SubjectLease).
GateSound == Accounting /\ WithinCaps
=============================================================================
