------------------------------- MODULE Upload -------------------------------
(***************************************************************************)
(* The write requests of one share (src/mutations.rs): multipart uploads,  *)
(* text saves and the creation of files and folders; their leases, the     *)
(* commit lock and the share's quota.                                      *)
(*                                                                         *)
(* A handler is dropped when its client goes away, and everything it owns  *)
(* with it; a blocking call that has begun goes on to its end.  Publishing *)
(* one file is one step here, which may fail and leave the file where it    *)
(* is: PendingWrite has its system calls.                                  *)
(***************************************************************************)
EXTENDS Naturals, Sequences, FiniteSets, Functions

CONSTANTS
    Requests,         \* write requests
    Names,            \* names of the share's one folder
    None,             \* "no such entry"
    Starts,           \* what the requests may be, and what the share may hold at first
    Limit,            \* max_share_bytes
    DirBytes,         \* DIRECTORY_QUOTA_BYTES
    MaxFileBytes, MaxRequestBytes, MaxFiles,  \* MutationLimits
    ScanEntries,      \* entries one measurement may visit
    Slots,            \* leases of the gate of uploads, and of that of text saves
    MaxFaults         \* calls of the file system that may fail

\* Two are uploads: of files that are new, and of files that replace others.
Kinds == {"upload", "replace", "save", "create", "mkdir"}
Entry == [size : Nat, by : Requests \cup {None}]
Staged == [name : Names, size : Nat, expected : Entry \cup {None}]

ASSUME UploadAssumption ==
    /\ None \notin Requests \cup Entry \cup Staged /\ IsFiniteSet(Names)
    /\ Starts \subseteq [kind : [Requests -> Kinds],
                         files : [Names -> [size : Nat, by : {None}] \cup {None}]]
    /\ {Limit, DirBytes, MaxFileBytes, MaxRequestBytes, MaxFiles, ScanEntries, MaxFaults} \subseteq Nat
    /\ MaxFileBytes <= MaxRequestBytes /\ MaxFiles > 0
    /\ Slots \in [{"uploads", "saves"} -> Nat]

VARIABLES
    kind,        \* what each request is
    files,       \* the entry of each name; an entry is known by who wrote it
    trash,       \* what was moved from it to Trash
    pc,          \* where each request is
    leases,      \* requests that hold a lease of their gate
    staged,      \* the files each has staged
    incoming,    \* the file it is receiving
    lock,        \* the request that holds the commit lock
    verdict,     \* what its measurement came to
    usage,       \* its running figure, if there is one
    outcomes,    \* what became of each file
    gone,        \* requests whose client went away during publication
    faults       \* calls that have failed

quota == <<lock, verdict, usage>>
vars == <<kind, files, trash, pc, leases, staged, incoming, lock, verdict, usage, outcomes, gone,
          faults>>

Labels == {"idle", "field", "chunk", "wait", "measure", "publish", "reply", "done"}

\* A publication that "failed" changed nothing; one that was "left" failed too,
\* and yet its file stands where it was to be published.
Outcomes == {"created", "replaced", "conflict", "quota_exceeded", "unmeasurable", "failed", "left"}

TypeOK ==
    /\ kind \in [Requests -> Kinds]
    /\ files \in [Names -> Entry \cup {None}]
    /\ trash \in [Names -> Entry \cup {None}]
    /\ pc \in [Requests -> Labels]
    /\ leases \subseteq Requests
    /\ staged \in [Requests -> Seq(Staged)] /\ \A r \in Requests : Len(staged[r]) <= MaxFiles
    /\ incoming \in [Requests -> Staged \cup {None}]
    /\ lock \in Requests \cup {None}
    /\ verdict \in {"none", "measured", "quota_exceeded", "unmeasurable"}
    /\ usage \in Nat
    /\ outcomes \in [Requests -> Seq(Outcomes)]
    /\ gone \subseteq Requests
    /\ faults \in 0 .. MaxFaults

Init ==
    /\ \E start \in Starts : kind = start.kind /\ files = start.files
    /\ trash = [n \in Names |-> None]
    /\ pc = [r \in Requests |-> "idle"]
    /\ leases = {}
    /\ staged = [r \in Requests |-> <<>>]
    /\ incoming = [r \in Requests |-> None]
    /\ lock = None /\ verdict = "none" /\ usage = 0
    /\ outcomes = [r \in Requests |-> <<>>]
    /\ gone = {} /\ faults = 0

-----------------------------------------------------------------------------

Charge(e) == IF e = None THEN 0 ELSE e.size

\* usage_bounded: everything in the share and in Trash.
Used == SumFunction([n \in Names |-> Charge(files[n]) + Charge(trash[n])])

\* An item of Trash is a payload and a sidecar, which is not charged.
Visited == Cardinality({n \in Names : files[n] # None}) + 2 * Cardinality({n \in Names : trash[n] # None})

\* saturating_sub
Minus(a, b) == IF a > b THEN a - b ELSE 0

Projected(used, f) == Minus(used, Charge(f.expected)) + f.size

\* within_quota
Fits(used, f) == Projected(used, f) <= Limit

Streams(r) == kind[r] \in {"upload", "replace"}
Replaces(r) == kind[r] \in {"replace", "save"}
Gate(r) == CASE Streams(r) -> "uploads" [] kind[r] = "save" -> "saves" [] OTHER -> "none"
Leased(gate) == {r \in leases : Gate(r) = gate}

Goto(r, label) == pc' = [pc EXCEPT ![r] = label]

\* A call of the file system fails.
Fault == faults < MaxFaults /\ faults' = faults + 1

\* Mutant: an early return that keeps the lease.
AbandonLeased(r) ==
    /\ Goto(r, "done")
    /\ staged' = [staged EXCEPT ![r] = <<>>]
    /\ incoming' = [incoming EXCEPT ![r] = None]
    /\ UNCHANGED <<files, trash, leases, quota, outcomes, gone, faults>>

\* The handler ends before publication: its guards remove what it staged, and
\* its lease goes back.
Abandon(r) ==
    /\ Goto(r, "done")
    /\ leases' = leases \ {r}
    /\ staged' = [staged EXCEPT ![r] = <<>>]
    /\ incoming' = [incoming EXCEPT ![r] = None]
    /\ UNCHANGED <<files, trash, quota, outcomes, gone, faults>>

-----------------------------------------------------------------------------
(* Receiving, without the lock.                                             *)

\* Uploads and saves are admitted by their gates before their body is read.
Admit(r) ==
    /\ pc[r] = "idle"
    /\ \/ Gate(r) = "none" /\ UNCHANGED leases
       \/ /\ Gate(r) # "none" /\ Cardinality(Leased(Gate(r))) < Slots[Gate(r)]
          /\ leases' = leases \cup {r}
    /\ Goto(r, "field")
    /\ UNCHANGED <<files, trash, staged, incoming, quota, outcomes, gone, faults>>

Busy(r) ==
    /\ pc[r] = "idle"
    /\ Gate(r) # "none" /\ Cardinality(Leased(Gate(r))) >= Slots[Gate(r)]
    /\ Abandon(r)

\* To replace, the entry must exist, and the client's validator name the entry
\* that is there now.
Target(r, n) == ~ Replaces(r) \/ files[n] # None
Expected(r, n) == IF Replaces(r) THEN files[n] ELSE None

\* The next part of an upload: more than MaxFiles fail the request.
Field(r, n) ==
    /\ pc[r] = "field" /\ Streams(r)
    /\ IF Len(staged[r]) < MaxFiles /\ Target(r, n)
       THEN /\ incoming' = [incoming EXCEPT ![r] =
                   [name |-> n, size |-> 0, expected |-> Expected(r, n)]]
            /\ Goto(r, "chunk")
            /\ UNCHANGED <<files, trash, leases, staged, quota, outcomes, gone, faults>>
       ELSE Abandon(r)

Total(r) == SumFunction([k \in DOMAIN staged[r] |-> staged[r][k].size]) + incoming[r].size

\* One byte more, of the file and of the request.
Chunk(r) ==
    /\ pc[r] = "chunk"
    /\ IF incoming[r].size + 1 > MaxFileBytes \/ Total(r) + 1 > MaxRequestBytes
       THEN Abandon(r)
       ELSE /\ incoming' = [incoming EXCEPT ![r].size = @ + 1]
            /\ UNCHANGED <<files, trash, pc, leases, staged, quota, outcomes, gone, faults>>

EndFile(r) ==
    /\ pc[r] = "chunk"
    /\ staged' = [staged EXCEPT ![r] = Append(@, incoming[r])]
    /\ incoming' = [incoming EXCEPT ![r] = None]
    /\ Goto(r, "field")
    /\ UNCHANGED <<files, trash, leases, quota, outcomes, gone, faults>>

\* An upload without files is refused.
EndBody(r) ==
    /\ pc[r] = "field" /\ Streams(r)
    /\ IF staged[r] = <<>> THEN Abandon(r)
       ELSE Goto(r, "wait")
            /\ UNCHANGED <<files, trash, leases, staged, incoming, quota, outcomes, gone, faults>>

\* A text save, a new file or a new folder: one entry, of a size the request
\* gives or implies.
Sizes(r) == CASE kind[r] = "save" -> 0 .. MaxFileBytes [] kind[r] = "create" -> {0} [] OTHER -> {DirBytes}

Single(r, n, size) ==
    /\ pc[r] = "field" /\ ~ Streams(r)
    /\ IF Target(r, n)
       THEN /\ staged' = [staged EXCEPT ![r] =
                   <<[name |-> n, size |-> size, expected |-> Expected(r, n)]>>]
            /\ Goto(r, "wait")
            /\ UNCHANGED <<files, trash, leases, incoming, quota, outcomes, gone, faults>>
       ELSE Abandon(r)

\* The body is malformed, or the client goes away, while it is received or while
\* the request waits for the lock.
Fail(r) == pc[r] \in {"field", "chunk", "wait"} /\ Abandon(r)

\* The body is idle for too long, or not at its end by the deadline of uploads or
\* that of saves.  Nothing bounds the wait for the lock.
TimeOut(r) == pc[r] \in {"field", "chunk"} /\ Gate(r) # "none" /\ Abandon(r)

-----------------------------------------------------------------------------
(* publish_staged, and ensure_quota for a single entry: one blocking call   *)
(* that holds the commit lock.                                              *)

Lock(r) ==
    /\ pc[r] = "wait" /\ lock = None
    /\ lock' = r
    /\ Goto(r, "measure")
    /\ UNCHANGED <<files, trash, leases, staged, incoming, verdict, usage, outcomes, gone, faults>>

\* The most that one of the files replaces.
Headroom(r) ==
    LET sizes == {Charge(staged[r][k].expected) : k \in DOMAIN staged[r]}
    IN  CHOOSE s \in sizes : \A t \in sizes : t <= s

\* Mutant: the measurement stops at the limit itself.
MeasureNoHeadroom(r) ==
    /\ pc[r] = "measure"
    /\ \/ Used <= Limit /\ Visited <= ScanEntries /\ verdict' = "measured" /\ usage' = Used
       \/ Used > Limit /\ verdict' = "quota_exceeded" /\ UNCHANGED usage
       \/ Visited > ScanEntries /\ verdict' = "unmeasurable" /\ UNCHANGED usage
    /\ Goto(r, "publish")
    /\ UNCHANGED <<files, trash, leases, staged, incoming, lock, outcomes, gone, faults>>

\* One measurement for the whole request.  Which bound a scan meets first
\* depends on the order of the directory; what it cannot read ends it.
Measure(r) ==
    /\ pc[r] = "measure"
    /\ \/ /\ Used <= Limit + Headroom(r) /\ Visited <= ScanEntries
          /\ verdict' = "measured" /\ usage' = Used /\ UNCHANGED faults
       \/ /\ Used > Limit + Headroom(r)
          /\ verdict' = "quota_exceeded" /\ UNCHANGED <<usage, faults>>
       \/ /\ \/ Visited > ScanEntries /\ UNCHANGED faults
             \/ Fault
          /\ verdict' = "unmeasurable" /\ UNCHANGED usage
    /\ Goto(r, "publish")
    /\ UNCHANGED <<files, trash, leases, staged, incoming, lock, outcomes, gone>>

Outcome(r, f) ==
    IF verdict # "measured" THEN verdict
    ELSE IF ~ Fits(usage, f) THEN "quota_exceeded"
    ELSE IF files[f.name] # f.expected THEN "conflict"
    ELSE IF f.expected = None THEN "created" ELSE "replaced"

InPlace(r, f) == files' = [files EXCEPT ![f.name] = [size |-> f.size, by |-> r]]

\* Mutant: what was replaced stays in the running figure, what was new is
\* not added.
PublishStale(r) ==
    /\ pc[r] = "publish" /\ Len(outcomes[r]) < Len(staged[r])
    /\ LET f == staged[r][Len(outcomes[r]) + 1]
           o == Outcome(r, f)
       IN  /\ outcomes' = [outcomes EXCEPT ![r] = Append(@, o)]
           /\ IF o \in {"created", "replaced"} THEN InPlace(r, f) ELSE UNCHANGED files
    /\ UNCHANGED <<trash, pc, leases, staged, incoming, quota, gone, faults>>

\* The next file.  A failing one does not stop the others.  A new file that
\* cannot be checked and then not removed, a replacement that cannot be undone
\* and a folder that cannot be opened fail and are left in place: the running
\* figure stays as it was.
Publish(r) ==
    /\ pc[r] = "publish" /\ Len(outcomes[r]) < Len(staged[r])
    /\ LET f == staged[r][Len(outcomes[r]) + 1]
           o == Outcome(r, f)
           Ends(outcome) == outcomes' = [outcomes EXCEPT ![r] = Append(@, outcome)]
       IN  \/ /\ o \in {"created", "replaced"} /\ Ends(o)
              /\ InPlace(r, f) /\ usage' = Projected(usage, f) /\ UNCHANGED faults
           \/ /\ o \notin {"created", "replaced"} /\ Ends(o)
              /\ UNCHANGED <<files, usage, faults>>
           \/ /\ o \in {"created", "replaced"} /\ Fault /\ UNCHANGED usage
              /\ \/ Ends("failed") /\ UNCHANGED files
                 \/ Ends("left") /\ InPlace(r, f)
    /\ UNCHANGED <<trash, pc, leases, staged, incoming, lock, verdict, gone>>

\* The blocking call ends.  Without a handler nobody takes its result.
Unlock(r) ==
    /\ pc[r] = "publish" /\ Len(outcomes[r]) = Len(staged[r])
    /\ lock' = None /\ verdict' = "none" /\ usage' = 0
    /\ IF r \in gone
       THEN Goto(r, "done") /\ outcomes' = [outcomes EXCEPT ![r] = <<>>]
       ELSE Goto(r, "reply") /\ UNCHANGED outcomes
    /\ staged' = [staged EXCEPT ![r] = <<>>]
    /\ gone' = gone \ {r}
    /\ UNCHANGED <<files, trash, leases, incoming, faults>>

\* Each outcome is audited, cached sizes and search results are dropped, and
\* the handler returns its response and its lease.
Reply(r) ==
    /\ pc[r] = "reply"
    /\ leases' = leases \ {r}
    /\ outcomes' = [outcomes EXCEPT ![r] = <<>>]
    /\ Goto(r, "done")
    /\ UNCHANGED <<files, trash, staged, incoming, quota, gone, faults>>

\* The client goes away during the blocking call, or before its result is taken:
\* the handler and its lease go.
Disconnect(r) ==
    /\ pc[r] \in {"measure", "publish", "reply"} /\ r \notin gone
    /\ leases' = leases \ {r}
    /\ IF pc[r] = "reply"
       THEN Goto(r, "done") /\ outcomes' = [outcomes EXCEPT ![r] = <<>>] /\ UNCHANGED gone
       ELSE gone' = gone \cup {r} /\ UNCHANGED <<pc, outcomes>>
    /\ UNCHANGED <<files, trash, staged, incoming, quota, faults>>

-----------------------------------------------------------------------------
(* The other mutations, each under the commit lock for the whole of it.     *)

Others == UNCHANGED <<pc, leases, staged, incoming, quota, outcomes, gone, faults>>

MoveToTrash(n) ==
    /\ lock = None /\ files[n] # None /\ trash[n] = None
    /\ trash' = [trash EXCEPT ![n] = files[n]] /\ files' = [files EXCEPT ![n] = None]
    /\ Others

Restore(n) ==
    /\ lock = None /\ trash[n] # None /\ files[n] = None
    /\ files' = [files EXCEPT ![n] = trash[n]] /\ trash' = [trash EXCEPT ![n] = None]
    /\ Others

Purge(n) ==
    /\ lock = None /\ trash[n] # None
    /\ trash' = [trash EXCEPT ![n] = None] /\ UNCHANGED files
    /\ Others

Receive(r) ==
    \/ Chunk(r) \/ EndFile(r) \/ EndBody(r)
    \/ \E n \in Names : Field(r, n) \/ \E s \in Sizes(r) : Single(r, n, s)

Commit(r) == Measure(r) \/ Publish(r) \/ Unlock(r) \/ Reply(r)

Next ==
    /\ UNCHANGED kind
    /\ \/ \E r \in Requests :
            Admit(r) \/ Busy(r) \/ Receive(r) \/ Fail(r) \/ TimeOut(r)
            \/ Lock(r) \/ Commit(r) \/ Disconnect(r)
       \/ \E n \in Names : MoveToTrash(n) \/ Restore(n) \/ Purge(n)

Spec == Init /\ [][Next]_vars

-----------------------------------------------------------------------------

\* What a name holds for the one who counts: a file that a failed publication of
\* r left is not counted, what it took the place of still is.
LeftAt(r, n) == {k \in DOMAIN outcomes[r] : outcomes[r][k] = "left" /\ staged[r][k].name = n}
Counted(r, n) ==
    IF LeftAt(r, n) = {} THEN files[n] ELSE staged[r][CHOOSE k \in LeftAt(r, n) : TRUE].expected

\* The same as Used while none was left.
UsedFor(r) == SumFunction([n \in Names |-> Charge(Counted(r, n)) + Charge(trash[n])])

\* While it publishes, a request's running figure is what a new measurement
\* would find, whatever the files before replaced and however they ended,
\* except that it does not know of what a failed publication left.
UsageIsExact == \A r \in Requests : lock = r /\ verdict = "measured" => usage = UsedFor(r)

Published(r, k) == Len(outcomes'[r]) > Len(outcomes[r]) /\ k = Len(outcomes'[r])

\* Each file is judged as if the share had been measured for it alone: the one
\* measurement with headroom refuses no file that fits, and none is published
\* that takes the share over its limit, but for what failed publications of the
\* same request left.
JudgedAlone ==
    [][\A r \in Requests : \A k \in 1 .. MaxFiles : Published(r, k) =>
         /\ outcomes'[r][k] = "quota_exceeded" => ~ Fits(UsedFor(r), staged[r][k])
         /\ outcomes'[r][k] \in {"created", "replaced"} => UsedFor(r)' <= Limit
      ]_vars

\* Bodies of uploads and saves end or time out, and the other requests have theirs
\* when they begin; blocking calls return; the commit lock is fair.
FairSpec ==
    /\ Spec
    /\ \A r \in Requests :
          /\ WF_vars(UNCHANGED kind /\ TimeOut(r))
          /\ WF_vars(UNCHANGED kind /\ Gate(r) = "none" /\ Receive(r))
          /\ SF_vars(UNCHANGED kind /\ Lock(r))
          /\ WF_vars(UNCHANGED kind /\ Commit(r))

\* Every request ends and leaves neither its lease nor the lock behind, however
\* it ends.
EveryWriteEnds ==
    \A r \in Requests : pc[r] # "idle" ~> pc[r] = "done" /\ r \notin leases /\ lock # r

\* The types, and that the figure that serves all the files of an upload is what a new
\* measurement would come to, but for what a failed publication left (publish_staged).
QuotaSound == TypeOK /\ UsageIsExact
=============================================================================
