------------------------------ MODULE VolumeFiles ------------------------------
(***************************************************************************)
(* What requests do to the files of one installed server, beside each      *)
(* other: folders, names, moves and copies, texts, uploads and archives,   *)
(* within a disk limit (panel/app/api/files.py, require_space and          *)
(* check_disk in panel/app/runtime/manager.py, the file operations of the  *)
(* panel's own runtime, panel/app/runtime/docker_files.py, and the same    *)
(* commands in the agent, agent/internal/files/files.go).                  *)
(*                                                                         *)
(* An action is a command in the helper; the reads a command is decided by *)
(* and that nothing is done between are one action with each other.  What  *)
(* mkdir, mv, cp, rm, unzip and Docker's unpacking do is external.         *)
(***************************************************************************)
EXTENDS Integers, Sequences, FiniteSets, SequencesExt, FiniteSetsExt

CONSTANTS
    Reqs,       \* requests
    Ops,        \* what they ask for
    Names,      \* of files and folders
    ZipName,    \* the name of an archive,
    Stem,       \* and of the folder it unpacks to
    Raw,        \* the paths that are asked for, as they are written
    Picks,      \* some of them, that are moved or copied at once
    MaxDepth,   \* bound: how deep a file is
    Sizes,      \* of texts and uploads
    Announced,  \* what archives say they hold
    Unpacks,    \* what they hold
    Limit,      \* of the disk
    Slack,      \* by how much the disk usage may be over the sum of the sizes
    MaxAsked,   \* bound: how many requests there are in all
    MaxFails    \* bound: how many commands fail

ASSUME NamesAssumption ==
    /\ IsFiniteSet(Names) /\ {"f", ZipName, Stem} \subseteq Names /\ Names \cap {".", ".."} = {} /\ ZipName # "d"
ASSUME RawAssumption ==
    /\ \A raw \in Raw : raw \in Seq(Names \cup {".", ".."})
    /\ \A pick \in Picks : pick \in Seq(Raw)
ASSUME OpsAssumption ==
    Ops \subseteq {"mkdir", "rename", "move", "copy", "delete", "write", "upload", "extract"}
ASSUME NumbersAssumption ==
    /\ Sizes \cup Unpacks \cup {Announced, Limit, Slack, MaxAsked, MaxFails, MaxDepth} \subseteq Nat
\* What is there at first is within the limit.
ASSUME LimitAssumption == Limit >= 2

Cut(p, n) == SubSeq(p, 1, n)
Paths == {Cut(p, n) : n \in 1 .. MaxDepth, p \in [1 .. MaxDepth -> Names]}
Root == <<>>

VARIABLES
    tree,       \* the volume: what is at each path
    req,        \* what each request is doing
    asked,      \* how many requests there were
    fails,      \* how many commands failed
    together    \* two requests were there at once, or one copied a path and what is in it

vars == <<tree, req, asked, fails, together>>

None == [kind |-> "none", owner |-> "game", size |-> 0, content |-> 0]
Folder(owner) == [kind |-> "dir", owner |-> owner, size |-> 0, content |-> 0]
File(owner, size, content) == [kind |-> "file", owner |-> owner, size |-> size, content |-> content]
Entry == [kind : {"none", "dir", "file"}, owner : {"game", "root"}, size : Nat, content : 0 .. MaxAsked + 2]

\* path is what the request is about, to where it goes, from what it takes along.
Request == [op : Ops \cup {"none"}, pc : {"idle", "space", "check", "do", "unzip", "clean", "chown", "disk"},
            path : Paths \cup {Root}, to : Paths \cup {Root}, from : Seq(Paths), size : Nat,
            owner : {"game", "root"}, content : 0 .. MaxAsked + 2]
Idle == [op |-> "none", pc |-> "idle", path |-> Root, to |-> Root, from |-> <<>>, size |-> 0,
         owner |-> "game", content |-> 0]
----------------------------------------------------------------------------
(* Paths. *)

\* Mutant of Resolve: ".." is kept when there is nothing to leave.
ResolveUp(raw) ==
    FoldLeft(LAMBDA done, part : IF part = ".." /\ done # <<>> THEN Front(done) ELSE Append(done, part), <<>>, raw)
\* resolve: a path never leaves the volume.
Resolve(raw) ==
    FoldLeft(LAMBDA done, part : IF part = "." THEN done
                                 ELSE IF part = ".." THEN SubSeq(done, 1, Len(done) - 1)
                                 ELSE Append(done, part), <<>>, raw)

Parent(p) == Front(p)
Base(p) == Last(p)
Within(p, q) == IsPrefix(q, p)
Under(t, q) == {p \in Paths : Within(p, q) /\ t[p].kind # "none"}
KindOf(t, p) == IF p = Root THEN "dir" ELSE t[p].kind
OwnerOf(t, p) == IF p = Root THEN "game" ELSE t[p].owner
IsThere(t, p) == KindOf(t, p) # "none"
Bytes(t, ps) == MapThenSumSet(LAMBDA p : t[p].size, ps)
All(t) == {p \in Paths : t[p].kind # "none"}
Contents(t) == {t[p].content : p \in {q \in Paths : t[q].kind = "file"}}
----------------------------------------------------------------------------
(* External: what the commands do. *)

Without(t, ps) == [p \in Paths |-> IF \E q \in ps : Within(p, q) THEN None ELSE t[p]]
Rebase(p, old, new) == new \o SubSeq(p, Len(old) + 1, Len(p))

\* What is at src is at dst as well; what is there already stays.  What has no place in
\* the bounded volume is not brought.
Brought(t, src, dst) ==
    [p \in Paths |->
        IF Within(p, dst) /\ t[p].kind = "none" /\ Rebase(p, dst, src) \in Paths
           /\ \A q \in Paths : Within(p, q) /\ Within(q, dst) => t[q].kind \in {"none", "dir"}
        THEN t[Rebase(p, dst, src)] ELSE t[p]]
Fits(t, src, dst) == \A p \in Under(t, src) : Rebase(p, src, dst) \in Paths

\* mv -n and cp -n, of one source: into a folder, or to the name itself.
Place(t, src, dest) == IF KindOf(t, dest) = "dir" THEN Append(dest, Base(src)) ELSE dest
CanPlace(t, src, dest) ==
    LET dst == Place(t, src, dest) IN
    /\ IsThere(t, src) /\ dst \in Paths /\ KindOf(t, Parent(dst)) = "dir" /\ ~Within(dst, src) /\ Fits(t, src, dst)

\* Mutant of Mv: mv without -n.
MvOver(t, src, dest) ==
    LET dst == Place(t, src, dest) IN
    IF ~CanPlace(t, src, dest) THEN t ELSE Without(Brought(Without(t, {dst}), src, dst), {src})
Mv(t, src, dest) ==
    LET dst == Place(t, src, dest) IN
    IF ~CanPlace(t, src, dest) \/ IsThere(t, dst) THEN t ELSE Without(Brought(t, src, dst), {src})
Cp(t, src, dest) ==
    LET dst == Place(t, src, dest) IN
    IF ~CanPlace(t, src, dest) THEN t ELSE Brought(t, src, dst)

\* Docker unpacks over what is there, but merges folders.
Put(t, p, entry) ==
    IF t[p].kind = "dir" /\ entry.kind = "dir" THEN [t EXCEPT ![p].owner = entry.owner]
    ELSE [Without(t, {p}) EXCEPT ![p] = entry]
----------------------------------------------------------------------------
Goto(a, pc) == req' = [req EXCEPT ![a].pc = pc]
Answer(a) == req' = [req EXCEPT ![a] = Idle]
Active == {a \in Reqs : req[a].pc # "idle"}
\* du: folders and the blocks of the disk count as well.
Used(ps) == {Bytes(tree, ps) + extra : extra \in 0 .. Slack}

TypeOK ==
    /\ tree \in [Paths -> Entry]
    /\ \A p \in All(tree) : KindOf(tree, Parent(p)) = "dir"
    /\ req \in [Reqs -> Request]
    /\ asked \in 0 .. MaxAsked /\ fails \in 0 .. MaxFails /\ together \in BOOLEAN

\* A folder with a file in it, and an archive.
Init ==
    /\ tree = [p \in Paths |-> CASE p = <<"d">> -> Folder("game")
                                 [] p = <<"d", "f">> -> File("game", 1, 1)
                                 [] p = <<ZipName>> -> File("game", 1, 2)
                                 [] OTHER -> None]
    /\ req = [a \in Reqs |-> Idle] /\ asked = 0 /\ fails = 0 /\ together = FALSE

\* The routes of the panel; the ones that add to the volume measure it first.
RequestFor(op, pc, p, to, from, size) ==
    [Idle EXCEPT !.op = op, !.pc = pc, !.path = Resolve(p), !.to = to, !.from = from, !.size = size]
Sources == {[i \in DOMAIN pick |-> Resolve(pick[i])] : pick \in Picks}
Asks ==
    {q \in {RequestFor("mkdir", "check", p, Root, <<>>, 0) : p \in Raw}
        \cup {RequestFor("rename", "check", p, Append(SubSeq(Resolve(p), 1, Len(Resolve(p)) - 1), n), <<>>, 0)
                : p \in Raw, n \in Names}
        \cup {RequestFor("move", "check", p, Root, from, 0) : p \in Raw, from \in Sources}
        \cup {RequestFor("copy", "space", p, Root, from, 0) : p \in Raw, from \in Sources}
        \cup {RequestFor("delete", "do", p, Root, <<>>, 0) : p \in Raw}
        \cup {RequestFor("write", "space", p, Root, <<>>, size) : p \in Raw, size \in Sizes}
        \cup {RequestFor("upload", "space", p, Append(Resolve(p), n), <<>>, size) : p \in Raw, n \in Names, size \in Sizes}
        \cup {RequestFor("extract", "space", p, Root, <<>>, Announced) : p \in Raw} : q.op \in Ops}

\* du takes that once and cp twice.
Doubled(r) == r.op = "copy" /\ \E i, j \in DOMAIN r.from : i # j /\ Within(r.from[i], r.from[j])
Ask(a) ==
    /\ req[a].pc = "idle" /\ asked < MaxAsked
    /\ \E r \in Asks :
          /\ \A p \in {r.path, r.to} \cup Range(r.from) : Len(p) <= MaxDepth
          /\ Root \notin Range(r.from) /\ (r.path = Root => r.op \in {"move", "copy", "upload"})
          /\ req' = [req EXCEPT ![a] = [r EXCEPT !.content = asked + 3]]
          /\ together' = (together \/ Active # {} \/ Doubled(r))
    /\ asked' = asked + 1
    /\ UNCHANGED <<tree, fails>>

\* require_space; a copy adds what its sources take.
RequireSpace(a) ==
    LET r == req[a]
        adding == IF r.op = "copy" THEN Used(UNION {Under(tree, s) : s \in Range(r.from)}) ELSE {r.size}
    IN
    /\ r.pc = "space"
    /\ \E used \in Used(All(tree)), add \in adding :
          IF used + add > Limit \/ \E s \in Range(r.from) : ~IsThere(tree, s) THEN Answer(a) ELSE Goto(a, "check")
    /\ UNCHANGED <<tree, asked, fails, together>>

\* checkTransfer: what is in the destination already is left alone, and nothing there is met.
Moving(r) == {i \in DOMAIN r.from : Parent(r.from[i]) # r.path}
TransferOk(r) ==
    /\ KindOf(tree, r.path) = "dir" /\ Moving(r) # {}
    /\ \A s \in Range(r.from) : ~Within(r.path, s)
    /\ \A i \in Moving(r) :
          Append(r.path, Base(r.from[i])) \in Paths => ~IsThere(tree, Append(r.path, Base(r.from[i])))
\* One source may take the destination's name, many need a folder.
Takes(r) == IF Cardinality(Moving(r)) = 1 \/ KindOf(tree, r.path) = "dir" THEN Moving(r) ELSE {}
Carried(r) ==
    FoldLeftDomain(LAMBDA t, i : IF i \notin Takes(r) THEN t
                                 ELSE IF r.op = "move" THEN Mv(t, r.from[i], r.path) ELSE Cp(t, r.from[i], r.path),
                   tree, r.from)

Target(p) == Append(Parent(p), Stem)
\* What is refused before anything is changed; the owner of what will be written is read.
Check(a) ==
    LET r == req[a]
        ok == CASE r.op = "mkdir" -> KindOf(tree, Parent(r.path)) = "dir" /\ ~IsThere(tree, r.path)
                [] r.op = "rename" -> IsThere(tree, r.path) /\ ~IsThere(tree, r.to)
                [] r.op \in {"move", "copy"} -> TransferOk(r)
                [] r.op = "write" -> KindOf(tree, r.path) = "file"
                [] r.op = "upload" -> KindOf(tree, r.path) = "dir"
                [] OTHER -> KindOf(tree, r.path) = "file" /\ Base(r.path) = ZipName /\ ~IsThere(tree, Target(r.path))
    IN
    /\ r.pc = "check"
    /\ req' = [req EXCEPT ![a] = IF ok THEN [r EXCEPT !.pc = "do", !.owner = OwnerOf(tree, r.path)] ELSE Idle]
    /\ UNCHANGED <<tree, asked, fails, together>>
----------------------------------------------------------------------------
(* The commands that change the volume. *)

\* The folder is root's until it is handed on.
Mkdir(a) ==
    LET r == req[a]
        p == IF r.op = "extract" THEN Target(r.path) ELSE r.path
    IN
    /\ r.op \in {"mkdir", "extract"} /\ r.pc = "do"
    /\ IF KindOf(tree, Parent(p)) = "dir" /\ ~IsThere(tree, p)
       THEN /\ tree' = [tree EXCEPT ![p] = Folder("root")]
            /\ Goto(a, IF r.op = "extract" THEN "unzip" ELSE "chown")
       ELSE Answer(a) /\ UNCHANGED tree
    /\ UNCHANGED <<asked, fails, together>>

Rename(a) ==
    LET r == req[a] IN
    /\ r.op = "rename" /\ r.pc = "do"
    /\ tree' = Mv(tree, r.path, r.to)
    /\ Answer(a)
    /\ UNCHANGED <<asked, fails, together>>

Move(a) ==
    LET r == req[a] IN
    /\ r.op = "move" /\ r.pc = "do"
    /\ tree' = Carried(r)
    /\ Answer(a)
    /\ UNCHANGED <<asked, fails, together>>

Copy(a) ==
    LET r == req[a] IN
    /\ r.op = "copy" /\ r.pc = "do"
    /\ tree' = Carried(r)
    /\ Answer(a)
    /\ UNCHANGED <<asked, fails, together>>

Delete(a) ==
    LET r == req[a] IN
    /\ r.op = "delete" /\ r.pc = "do"
    /\ tree' = Without(tree, {r.path})
    /\ Answer(a)
    /\ UNCHANGED <<asked, fails, together>>

\* The file goes where it was, owned as it was.
WriteText(a) ==
    LET r == req[a] IN
    /\ r.op = "write" /\ r.pc = "do"
    /\ tree' = IF KindOf(tree, Parent(r.path)) = "dir"
               THEN Put(tree, r.path, File(r.owner, r.size, r.content)) ELSE tree
    /\ Answer(a)
    /\ UNCHANGED <<asked, fails, together>>

\* One file, or one in a folder of its own.
Upload(a) ==
    LET r == req[a] IN
    /\ r.op = "upload" /\ r.pc = "do"
    /\ LET file == File(r.owner, r.size, r.content)
           deep == Append(r.to, "f")
       IN  \/ tree' = IF KindOf(tree, r.path) = "dir" THEN Put(tree, r.to, file) ELSE tree
           \/ /\ deep \in Paths
              /\ tree' = IF KindOf(tree, r.path) = "dir"
                         THEN Put(Put(tree, r.to, Folder(r.owner)), deep, file) ELSE tree
    /\ Answer(a)
    /\ UNCHANGED <<asked, fails, together>>

\* The archive's one file, however big it is; what fails is taken away again.
Unzip(a) ==
    LET r == req[a]
        file == Append(Target(r.path), "f")
    IN
    /\ r.pc = "unzip"
    /\ IF KindOf(tree, r.path) = "file" /\ KindOf(tree, Target(r.path)) = "dir" /\ file \in Paths
       THEN \/ \E size \in Unpacks : tree' = Put(tree, file, File("root", size, r.content)) /\ Goto(a, "chown")
            \/ UNCHANGED tree /\ Goto(a, "clean")
       ELSE UNCHANGED tree /\ Goto(a, "clean")
    /\ UNCHANGED <<asked, fails, together>>

\* Mutant of Clean: what came out of the archive stays.
CleanNot(a) ==
    /\ req[a].pc = "clean" /\ Answer(a)
    /\ UNCHANGED <<tree, asked, fails, together>>
Clean(a) ==
    /\ req[a].pc = "clean"
    /\ tree' = Without(tree, {Target(req[a].path)})
    /\ Answer(a)
    /\ UNCHANGED <<asked, fails, together>>

\* To whoever owns the folder above, and then the archive is measured.
Chown(a) ==
    LET r == req[a]
        p == IF r.op = "extract" THEN Target(r.path) ELSE r.path
        owned == IF r.op = "extract" THEN Under(tree, p) ELSE {p}
    IN
    /\ r.pc = "chown"
    /\ tree' = IF IsThere(tree, p)
               THEN [q \in Paths |-> IF q \in owned THEN [tree[q] EXCEPT !.owner = OwnerOf(tree, Parent(p))] ELSE tree[q]]
               ELSE tree
    /\ IF r.op = "extract" /\ IsThere(tree, p) THEN Goto(a, "disk") ELSE Answer(a)
    /\ UNCHANGED <<asked, fails, together>>

\* check_disk, after an archive is unpacked.
CheckDisk(a) ==
    /\ req[a].pc = "disk"
    /\ \E used \in Used(All(tree)) : IF used > Limit THEN Goto(a, "clean") ELSE Answer(a)
    /\ UNCHANGED <<tree, asked, fails, together>>

\* A command, or the connection, fails: the request ends where it is.
Fails(a) ==
    /\ req[a].pc # "idle" /\ fails < MaxFails
    /\ fails' = fails + 1
    /\ Answer(a)
    /\ UNCHANGED <<tree, asked, together>>
----------------------------------------------------------------------------
Next == \E a \in Reqs :
    \/ Ask(a) \/ RequireSpace(a) \/ Check(a) \/ Mkdir(a) \/ Rename(a) \/ Move(a) \/ Copy(a) \/ Delete(a)
    \/ WriteText(a) \/ Upload(a) \/ Unzip(a) \/ Clean(a) \/ Chown(a) \/ CheckDisk(a) \/ Fails(a)
Spec == Init /\ [][Next]_vars
----------------------------------------------------------------------------
(* Properties. *)

\* Making, renaming, moving and copying never destroy what is in a file, whatever came to
\* the destination after it was looked at.
NothingOverwritten ==
    [][\A a \in Reqs : req[a].op \in {"mkdir", "rename", "move", "copy"} /\ req'[a] # req[a]
          => Contents(tree) \subseteq Contents(tree')]_vars

\* No request takes the files over the disk limit, but for an archive that is still being
\* measured, two requests at once, a copy of a folder with something in it named beside it, or
\* a failure before the archive is taken away again.
WithinLimit ==
    ~together /\ fails = 0 /\ (\A a \in Reqs : req[a].pc \notin {"chown", "disk", "clean"})
        => Bytes(tree, All(tree)) <= Limit

\* Whatever is in the volume is the game's, as soon as the request that made it is answered,
\* unless another one was beside it or a command failed.
OwnedByGame ==
    ~together /\ fails = 0 /\ Active = {} => \A p \in All(tree) : tree[p].owner = "game"

\* Requests that come one at a time keep the limit and leave the game what it owns.
OneAtATime == WithinLimit /\ OwnedByGame

============================================================================
