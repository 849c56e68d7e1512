------------------------------- MODULE Paths --------------------------------
(***************************************************************************)
(* From the path of a request to an entry of a share (src/filesystem.rs):  *)
(* the grammar of names and paths, the grant, and the walk from the root   *)
(* of the share through one handle after the other, while others move      *)
(* folders, place links and remove what the walk has passed.               *)
(*                                                                         *)
(* A disk is a function of pairs of a directory and a name to entries, an  *)
(* entry being a directory, a file or a symbolic link.  "private" is the   *)
(* directory .crabinet, "outside" one that is no part of the share.        *)
(***************************************************************************)
EXTENDS Questions

CONSTANTS
    Folders,        \* the directories of the share below its root
    Given,          \* names that others give to what they place in the share
    MaxDepth,       \* MAX_PATH_DEPTH
    MaxChanges,     \* changes of the disk during one walk
    MaxPaths        \* MAX_ARCHIVE_PATHS

\* is_reserved_name: whatever the case, as the disk may not tell it apart.
ReservedName(name) == name \in {".crabinet", ".CRABINET", ".index-staging"}

ASSUME PathsAssumption ==
    /\ {MaxDepth, MaxChanges, MaxPaths} \subseteq Nat
    /\ Folders \cap {"root", "new", "private", "outside", "staged", "foreign"} = {}
    /\ \A name \in Given : ~ReservedName(name)

\* The directories of the share that others change, and all that a walk may be in.
Shared == {"root"} \cup Folders
Walkable == Shared \cup {"new"}
Dirs == Walkable \cup {"private", "outside"}
Secret == {"private", "outside", "staged", "foreign"}
Entry(kind, node) == [kind |-> kind, node |-> node]
Lookup(disk, folds, dir, name) ==
    LET found == IF folds /\ name = ".CRABINET" THEN ".crabinet" ELSE name IN
    IF <<dir, found>> \in DOMAIN disk THEN {disk[<<dir, found>>]} ELSE {}
Links(disk, node) == Cardinality({k \in DOMAIN disk : disk[k] = Entry("file", node)})

-----------------------------------------------------------------------------
(* Names, paths and grants                                                  *)

\* EntryName::new; "bad" stands for the names that its other rules refuse.
ValidName(name) == name \notin {"", ".", "..", "bad"} /\ ~ReservedName(name)

\* VirtualPath::parse, of a value that is the sequence of what "/" separates.
ParsePath(value) ==
    IF value = <<"">> \/ Len(value) > MaxDepth \/ \E i \in DOMAIN value : ~ValidName(value[i])
    THEN <<>> ELSE <<value>>

\* authorize: the access that a grant gives, or none.
Access(grant, share) ==
    IF grant.share # "this" THEN "none"
    ELSE IF share.readOnly \/ ~share.staging THEN "read" ELSE grant.access

\* map_io and non_disclosing_fs_error.
Status(code) ==
    CASE code = "ok" -> 200
      [] code = "invalid" -> 400
      [] code = "unavailable" -> 500
      [] OTHER -> 404
Fails(code) == Reply([pc |-> "done", code |-> code, status |-> Status(code)])
Gets(node) == Reply([pc |-> "done", code |-> "ok", status |-> Status("ok"), node |-> node,
                     lost |-> Now.lost])

-----------------------------------------------------------------------------
(* The walk                                                                 *)

\* open_directory begins with the root, after the grant, the path and, for a
\* change, the access.
BeginWalk ==
    /\ Asked("walk")
    /\ LET access == Access(question.grant, question.share)
           path == ParsePath(question.path)
       IN IF access = "none" THEN Fails("denied")
          ELSE IF path = <<>> THEN Fails("invalid")
          ELSE IF question.op = "create" /\ access # "write" THEN Fails("denied")
          ELSE Reply([pc |-> "walk", op |-> question.op, path |-> path[1], at |-> 1, dir |-> "root",
                      disk |-> question.disk, changes |-> 0, node |-> "", lost |-> {}])

Final == Now.at = Len(Now.path) /\ Now.op # "list"
Here == Lookup(Now.disk, question.folds, Now.dir, Now.path[Now.at])

\* open_dir_nofollow, of one component.
\* Mutant: a link is followed.
StepFollows ==
    /\ Under("walk") /\ Now.pc = "walk" /\ ~Final
    /\ IF Here = {} \/ \E e \in Here : e.kind = "file" \/ e.node \notin Dirs THEN Fails("missing")
       ELSE \E e \in Here :
            IF Now.at = Len(Now.path) THEN Gets(e.node)
            ELSE Reply([Now EXCEPT !.at = @ + 1, !.dir = e.node])

StepInto ==
    /\ Under("walk") /\ Now.pc = "walk" /\ ~Final
    /\ IF Here = {} \/ \E e \in Here : e.kind = "file" THEN Fails("missing")
       ELSE IF \E e \in Here : e.kind = "link" THEN Fails("unsupported")
       ELSE \E e \in Here :
            IF Now.at = Len(Now.path) THEN Gets(e.node)
            ELSE Reply([Now EXCEPT !.at = @ + 1, !.dir = e.node])

\* open_regular_file, and metadata_in_parent, open what is there.
OpenEntry ==
    /\ Under("walk") /\ Now.pc = "walk" /\ Final /\ Now.op \in {"open", "metadata"}
    /\ IF Here = {} THEN Fails("missing")
       ELSE \E e \in Here :
            IF e.kind = "file" THEN Reply([Now EXCEPT !.pc = "opened", !.node = e.node])
            ELSE IF Now.op = "metadata"
                 THEN Reply([Now EXCEPT !.op = "list", !.at = 1, !.dir = "root"])
            ELSE Fails("unsupported")

\* validate_regular_handle: a file of which there is another name may be another's.
\* What is no file of this one name is looked up again as a directory for its metadata.
ValidateHandle ==
    /\ Under("walk") /\ Now.pc = "opened"
    /\ IF Links(Now.disk, Now.node) = 1 THEN Gets(Now.node)
       ELSE IF Now.op = "metadata" THEN Reply([Now EXCEPT !.pc = "walk", !.op = "list", !.at = 1, !.dir = "root"])
       ELSE Fails("unsupported")

\* create_directory: then it is opened again, whatever it is by now.
CreateDirectory ==
    /\ Under("walk") /\ Now.pc = "walk" /\ Final /\ Now.op = "create"
    /\ IF Here # {} THEN Fails("conflict")
       ELSE Reply([Now EXCEPT !.pc = "created", !.disk =
               [k \in DOMAIN @ \cup {<<Now.dir, Now.path[Now.at]>>} |->
                   IF k \in DOMAIN @ THEN @[k] ELSE Entry("dir", "new")]])
Reopen ==
    /\ Under("walk") /\ Now.pc = "created"
    /\ IF \A e \in Here : e.kind # "dir" THEN Fails("unsupported")
       ELSE \E e \in Here : Gets(e.node)

-----------------------------------------------------------------------------
(* What others do meanwhile                                                 *)

\* The directories of the share that are dir or somewhere in it.
Within(disk, dir) ==
    {d \in Shared : \A s \in SUBSET (Shared \cup {dir}) :
        dir \in s /\ (\A k \in DOMAIN disk : k[1] \in s /\ disk[k].kind = "dir" /\ disk[k].node \in Shared
                                               => disk[k].node \in s) => d \in s}

\* lost: the files of which a name is gone after they were opened and before the handle is
\* looked at.
Changed(disk) ==
    Reply([Now EXCEPT !.disk = disk, !.changes = @ + 1,
                      !.lost = @ \cup {n \in {Now.node} : Now.pc = "opened" /\ Links(disk, n) < Links(Now.disk, n)}])
Unlinked(disk, k) == [j \in DOMAIN disk \ {k} |-> disk[j]]
Put(disk, k, e) == [j \in DOMAIN disk \cup {k} |-> IF j = k THEN e ELSE disk[j]]

Disturb(dir, name) ==
    /\ Under("walk") /\ Now.changes < MaxChanges
    /\ LET k == <<dir, name>>  d == Now.disk IN
       \/ k \notin DOMAIN d /\ Changed(Put(d, k, Entry("file", "foreign")))
       \/ k \notin DOMAIN d /\ Changed(Put(d, k, Entry("link", "outside")))
       \/ k \in DOMAIN d /\ d[k].kind # "dir" /\ Changed(Unlinked(d, k))
       \/ /\ k \in DOMAIN d /\ d[k].kind = "dir"
          /\ \E to \in Shared \ Within(d, d[k].node), new \in Given :
                /\ <<to, new>> \notin DOMAIN d
                /\ Changed(Put(Unlinked(d, k), <<to, new>>, d[k]))

-----------------------------------------------------------------------------
(* What an archive is to hold (src/browse.rs)                               *)

\* parse_archive_query, of the values of path.
ParseArchiveQuery ==
    /\ Asked("selection")
    /\ LET values == question.values
           paths == [i \in DOMAIN values |-> ParsePath(values[i])]
           names == [i \in DOMAIN values |-> Last(paths[i][1])]
       IN Reply([pc |-> "done", is |->
            IF Len(values) > MaxPaths THEN "too large"
            ELSE IF values = <<>> \/ values = <<<<"">>>> THEN "root"
            ELSE IF \E i \in DOMAIN paths : paths[i] = <<>> THEN "invalid"
            ELSE IF Len(values) = 1 THEN "single"
            ELSE IF \/ \E i \in DOMAIN paths : Front(paths[i][1]) # Front(paths[1][1])
                    \/ ~IsInjective(names)
                 THEN "invalid" ELSE "selection"])

PathStep ==
    \/ BeginWalk \/ StepInto \/ OpenEntry \/ ValidateHandle \/ CreateDirectory \/ Reopen
    \/ ParseArchiveQuery
    \/ \E dir \in Shared, name \in Given : Disturb(dir, name)

-----------------------------------------------------------------------------
(* Properties                                                               *)

\* No walk hands out what is no part of the share: neither a directory behind a link,
\* nor .crabinet and what is in it, on a disk that ignores the case of names too, nor a
\* file that has a name outside of it, unless the name that was opened is removed before
\* the links are counted, whatever others do to the folders on the way; and without a
\* grant for writing nothing is created (filesystem.rs, open_directory, open_regular_file
\* and authorize).
WalkStaysInside ==
    /\ Done("walk") /\ Now.code = "ok" => Now.node \notin Secret \/ (Now.node = "foreign" /\ Now.node \in Now.lost)
    /\ Under("walk") =>
         /\ Now.dir \notin Secret
         /\ Now.pc = "created" => question.grant.access = "write" /\ ~question.share.readOnly
    /\ Done("selection") /\ Now.is \in {"single", "selection"} =>
         \A i, j \in DOMAIN question.values :
            /\ Len(question.values[i]) = Len(question.values[j])
            /\ i # j => question.values[i] # question.values[j]

-----------------------------------------------------------------------------
(* The walk by itself, over any disk, and what it keeps to.                 *)

\* No directory but .crabinet leads out of what a walk may be in, and a file that is
\* another's has a name elsewhere.
DiskSound(disk) ==
    /\ IsFiniteSet(DOMAIN disk)
    /\ \A k \in DOMAIN disk :
         /\ disk[k] = Entry(disk[k].kind, disk[k].node) /\ disk[k].kind \in {"dir", "file", "link"}
         /\ k[1] \in Walkable /\ ~ReservedName(k[2]) =>
              /\ disk[k].kind = "dir" => disk[k].node \in Walkable
              /\ disk[k].kind = "file" => disk[k].node \notin Secret \ {"foreign"}
    /\ \E k \in DOMAIN disk : k[1] \notin Walkable /\ disk[k] = Entry("file", "foreign")

PathQuestion(q) ==
    \/ /\ q.what = "walk" /\ q.op \in {"list", "open", "metadata", "create"}
       /\ q.path \in Seq(STRING) \ {<<>>} /\ DiskSound(q.disk)
    \/ q.what = "selection" /\ q.values \in Seq(Seq(STRING) \ {<<>>})

PathInit == answer = <<>> /\ PathQuestion(question)
PathSpec == PathInit /\ [][PathStep]_<<question, answer>>

WalkState == {"pc", "op", "path", "at", "dir", "disk", "changes", "node", "lost"}

\* A walk that is under way is in a directory of the share; the file that it opened is one
\* of the share, or has another name, or has lost one.
OnTheWay(n) ==
    /\ n = [f \in WalkState |-> n[f]]
    /\ n.pc \in {"walk", "opened", "created"} /\ n.changes \in Nat
    /\ n.path \in Seq(STRING) /\ n.at \in 1 .. Len(n.path)
    /\ \A i \in 1 .. Len(n.path) : ValidName(n.path[i])
    /\ n.dir \in Walkable /\ DiskSound(n.disk)
    /\ n.pc = "created" => n.op = "create"
    /\ n.op = "create" => question.grant.access = "write" /\ ~question.share.readOnly
    /\ n.pc = "opened" =>
         \/ n.node \notin Secret
         \/ n.node = "foreign" /\ (n.node \in n.lost \/ Links(n.disk, n.node) > 1)

PathInv ==
    /\ PathQuestion(question)
    /\ answer # <<>> => answer = <<Now>>
    /\ Under("walk") => OnTheWay(Now)
    /\ question.what = "selection" /\ answer # <<>> => Now.pc = "done"
    /\ WalkStaysInside

=============================================================================
