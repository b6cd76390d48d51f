--------------------------- MODULE GeneratedFiles ---------------------------
(***************************************************************************)
(* The two places an agent keeps its generated files in: the map           *)
(* generatedFilesMap of its state (FileManager) and the git repository     *)
(* (GitVersionControl), which lives in the same durable object.            *)
(*                                                                         *)
(* Saves, commits and resets are asynchronous and nothing serialises them: *)
(* the tools of one model turn run in parallel, several saves are not      *)
(* awaited.  A call keeps between two awaits what it captured when it was  *)
(* made.  Each action is the part of a call between two awaits.            *)
(*                                                                         *)
(* The map is keyed by the path a file was given; git knows the file by    *)
(* the path without a leading '/', so two entries of the map may be one    *)
(* file of git.  Contents are the number of the recordFileChanges that     *)
(* brought them, 0 if there is no file.  Purposes, diffs and messages are  *)
(* left out.  External is what isomorphic-git does with its index and      *)
(* HEAD, one atomic step for each of its operations that change them.      *)
(***************************************************************************)
EXTENDS Integers, FiniteSets

CONSTANTS
    Paths,           \* paths of generated files, as they are given
    normalizePath,   \* each without its leading '/'
    Calls,           \* calls that may be made, each once
    MaxRecords       \* bound: how often recordFileChanges is called

ASSUME PathsAssumption ==
    /\ normalizePath \in [Paths -> Paths]
    /\ \A p \in Paths : normalizePath[normalizePath[p]] = normalizePath[p]

ASSUME MaxRecordsAssumption == MaxRecords \in Nat

VARIABLES
    filesMap,    \* generatedFilesMap
    tree,        \* the working tree
    index,       \* what is staged
    head,        \* the files of the commit HEAD names
    commits,     \* every commit there is, by its files
    records,     \* calls of recordFileChanges up to now
    call,        \* where each call waits, and what it carries
    beaten,      \* history: what others wrote after a call did, or while it reset
    adrift       \* history: files on which map and HEAD need not agree

vars == <<filesMap, tree, index, head, commits, records, call, beaten, adrift>>

repository == <<tree, index, head, commits>>

Versions == 0 .. MaxRecords

\* The files git can tell apart.
Files == {normalizePath[p] : p \in Paths}

Contents == [Paths -> Versions]

\* What git has: nothing under a path that begins with '/'.
Trees == {t \in Contents : \A p \in Paths \ Files : t[p] = 0}

NoFiles == [p \in Paths |-> 0]

Names(contents) == {p \in Paths : contents[p] # 0}

Spellings(f) == {p \in Paths : normalizePath[p] = f}

FilesOf(paths) == {normalizePath[p] : p \in paths}

\* What contents have for the file f, under any of its paths.
Held(contents, f) == {contents[p] : p \in Spellings(f)} \ {0}

\* A call that saves carries `contents`, has `left` to stage, has `written` a file
\* it is about to add, and commits at the end if it has a message.  A reset
\* carries what it checks out, then what it read, less what it has `left` out.
At(step, contents, left, written, message) ==
    [step |-> step, contents |-> contents, left |-> left, written |-> written,
     message |-> message]

Unmade == At("new", NoFiles, {}, {}, FALSE)
Over == At("over", NoFiles, {}, {}, FALSE)

Saving(c) == call[c].step = "stage"
Resetting(c) == call[c].step \in {"checkout", "read", "set"}

Carries(c, f) == Saving(c) /\ Held(call[c].contents, f) # {}

\* The types; git has no file under a path that begins with '/', and HEAD has the
\* files of a commit, or none if it names nothing or what is no commit.
TypeOK ==
    /\ filesMap \in Contents
    /\ tree \in Trees
    /\ index \in Trees
    /\ head \in commits \cup {NoFiles}
    /\ commits \subseteq Trees
    /\ records \in Versions
    /\ call \in [Calls -> [step : {"new", "stage", "staged", "kept", "checkout",
                                   "read", "set", "over"},
                           contents : Contents,
                           left : SUBSET Paths,
                           written : SUBSET Paths,
                           message : BOOLEAN]]
    /\ beaten \in [Calls -> SUBSET Files]
    /\ adrift \subseteq Files

Init ==
    /\ filesMap = NoFiles
    /\ tree = NoFiles
    /\ index = NoFiles
    /\ head = NoFiles
    /\ commits = {}
    /\ records = 0
    /\ call = [c \in Calls |-> Unmade]
    /\ beaten = [c \in Calls |-> {}]
    /\ adrift = {}

-----------------------------------------------------------------------------
(* History *)

\* The calls are beaten on the files fs.
Beats(calls, fs) ==
    beaten' = [c \in Calls |->
                  IF c \in calls THEN beaten[c] \cup fs ELSE beaten[c]]

Made == {c \in Calls : call[c].step \notin {"new", "over"}}
Resets == {c \in Calls : Resetting(c)}

\* f is in no save and no reset that is under way.
Alone(f) == Resets = {} /\ \A c \in Calls : ~Carries(c, f)

\* No save that is under way carries something else for f, and no reset is.
Unrivalled(f) ==
    /\ Resets = {}
    /\ \A c \in Calls : Carries(c, f) => Held(call[c].contents, f) = Held(filesMap, f)

\* The map has f once at most, whatever its path.
Single(map, f) == \A u, v \in Held(map, f) : u = v

-----------------------------------------------------------------------------
(* Changes of the map *)

\* recordFileChanges: the files at ps have new contents.  (Nobody gives a file
\* under two paths in one call.)
Record(ps) ==
    /\ records < MaxRecords
    /\ \A p, q \in ps : normalizePath[p] = normalizePath[q] => p = q
    /\ records' = records + 1
    /\ filesMap' = [p \in Paths |-> IF p \in ps THEN records + 1 ELSE filesMap[p]]

\* Recorded and not saved, as files are while they are generated.
RecordOnly(ps) ==
    /\ Record(ps)
    /\ adrift' = adrift \cup FilesOf(ps)
    /\ Beats(Resets, FilesOf(ps))
    /\ UNCHANGED <<repository, call>>

\* deleteFiles: the files leave the map; git is not told.
Delete(ps) ==
    /\ ps \subseteq Names(filesMap)
    /\ filesMap' = [p \in Paths |-> IF p \in ps THEN 0 ELSE filesMap[p]]
    /\ adrift' = adrift \cup FilesOf(ps)
    /\ Beats(Resets, FilesOf(ps))
    /\ UNCHANGED <<repository, records, call>>

-----------------------------------------------------------------------------
(* Saves *)

\* saveGeneratedFiles with files: they are recorded, then staged, and committed if
\* there is a message.  (Files whose contents stay as they are and that come
\* without a message are not staged: that call does nothing.)
Save(c, ps, message) ==
    /\ call[c].step = "new"
    /\ Record(ps)
    /\ call' = [call EXCEPT ![c] =
                   At("stage", [p \in Paths |-> IF p \in ps THEN records + 1 ELSE 0],
                      ps, {}, message)]
    /\ adrift' = {f \in adrift \cup FilesOf(ps) :
                     f \in FilesOf(ps) /\ message /\ Alone(f) => ~Single(filesMap', f)}
    /\ Beats(Resets, FilesOf(ps))
    /\ UNCHANGED repository

\* saveGeneratedFiles without files but with a message, and the first commit of
\* gitInit: every file of the map, as it is now, is staged and committed.
SaveAll(c) ==
    /\ call[c].step = "new"
    /\ filesMap # NoFiles
    /\ call' = [call EXCEPT ![c] =
                   At("stage", filesMap, Names(filesMap), {}, TRUE)]
    /\ adrift' = {f \in adrift :
                     Held(filesMap, f) # {} /\ Unrivalled(f) => ~Single(filesMap, f)}
    /\ Beats(Resets, FilesOf(Names(filesMap)))
    /\ UNCHANGED <<repository, filesMap, records>>

\* hasChanges compares the working tree with HEAD, and is true if it cannot.
HasChanges == \E f \in Files : tree[f] # 0 /\ tree[f] # head[f]

\* commit([]): of the git tool, or of a save that has only read-only files or
\* finds an empty map.  It stages nothing and commits what there is.
CommitIndex(c) ==
    /\ call[c].step = "new"
    /\ call' = [call EXCEPT ![c] = At("stage", NoFiles, {}, {}, TRUE)]
    /\ UNCHANGED <<repository, filesMap, records, beaten, adrift>>

(* Mutant of GitPath: the path is taken as it was given. *)
GitPathRaw(p) == p

\* The path stage gives a file in git.
GitPath(p) == normalizePath[p]

\* stage: the next file is written to the working tree.
Write(c, p) ==
    /\ Saving(c)
    /\ call[c].written = {}
    /\ p \in call[c].left
    /\ tree' = [tree EXCEPT ![GitPath(p)] = call[c].contents[p]]
    /\ call' = [call EXCEPT ![c] =
                   At("stage", call[c].contents, call[c].left \ {p}, {p},
                      call[c].message)]
    /\ beaten' = [d \in Calls |->
                     IF d = c THEN beaten[d] \ {GitPath(p)}
                     ELSE IF d \in Made THEN beaten[d] \cup {GitPath(p)} ELSE beaten[d]]
    /\ UNCHANGED <<filesMap, index, head, commits, records, adrift>>

(* Mutant of Added: what was to be written is staged, whatever is there now. *)
AddedOwn(c, p) == call[c].contents[p]

(* Mutant of Added: a file that was staged before is taken to be up to date. *)
AddedOnce(c, p) == IF index[GitPath(p)] = 0 THEN tree[GitPath(p)] ELSE index[GitPath(p)]

\* git.add stages what the working tree has by now.
Added(c, p) == tree[GitPath(p)]

Add(c) ==
    /\ Saving(c)
    /\ \E p \in call[c].written : index' = [index EXCEPT ![GitPath(p)] = Added(c, p)]
    /\ call' = [call EXCEPT ![c] =
                   At("stage", call[c].contents, call[c].left, {},
                      call[c].message)]
    /\ UNCHANGED <<filesMap, tree, head, commits, records, beaten, adrift>>

Staged(c) == Saving(c) /\ call[c].left = {} /\ call[c].written = {}

\* A save without a message is over.
Stage(c) ==
    /\ Staged(c)
    /\ ~call[c].message
    /\ call' = [call EXCEPT ![c] = At("staged", call[c].contents, {}, {}, FALSE)]
    /\ UNCHANGED <<filesMap, repository, records, beaten, adrift>>

\* git.commit makes a commit of the whole index.
Commit(c) ==
    /\ Staged(c)
    /\ call[c].message
    /\ head' = index
    /\ commits' = commits \cup {index}
    /\ call' = [call EXCEPT ![c] = At("kept", call[c].contents, {}, {}, TRUE)]
    /\ Beats(Resets, Files)
    /\ UNCHANGED <<filesMap, tree, index, records, adrift>>

\* commit([]) finds nothing to commit.
NothingToCommit(c) ==
    /\ Staged(c)
    /\ call[c].contents = NoFiles
    /\ ~HasChanges
    /\ call' = [call EXCEPT ![c] = Over]
    /\ UNCHANGED <<filesMap, repository, records, beaten, adrift>>

-----------------------------------------------------------------------------
(* Resets *)

\* What a reset makes of the other calls: it moves HEAD under them.
Moved(c) ==
    [d \in Calls |->
        IF d = c THEN {f \in Files : \E e \in Calls : Carries(e, f)}
        ELSE IF d \in Made THEN Files ELSE beaten[d]]

\* reset: HEAD is made to name an earlier commit.
Reset(c, target) ==
    /\ call[c].step = "new"
    /\ target \in commits
    /\ head' = target
    /\ call' = [call EXCEPT ![c] = At("checkout", target, {}, {}, FALSE)]
    /\ beaten' = Moved(c)
    /\ adrift' = Files
    /\ UNCHANGED <<filesMap, tree, index, commits, records>>

\* reset to a hash that no commit has: resolveRef takes any forty digits as they
\* are, HEAD is set to them, and the checkout that cannot read them throws.
ResetNowhere(c) ==
    /\ call[c].step = "new"
    /\ head' = NoFiles
    /\ call' = [call EXCEPT ![c] = Over]
    /\ beaten' = Moved(c)
    /\ adrift' = Files
    /\ UNCHANGED <<filesMap, tree, index, commits, records>>

\* git.checkout, forced: HEAD, index and working tree are those of the commit; the
\* working tree keeps files git does not know.  Then the callback begins to sync.
Checkout(c) ==
    /\ call[c].step = "checkout"
    /\ head' = call[c].contents
    /\ index' = call[c].contents
    /\ tree' = [p \in Paths |->
                   IF index[p] = 0 /\ call[c].contents[p] = 0
                     THEN tree[p] ELSE call[c].contents[p]]
    /\ call' = [call EXCEPT ![c] = At("read", NoFiles, {}, {}, FALSE)]
    /\ Beats(Made \ {c}, Files)
    /\ UNCHANGED <<filesMap, commits, records, adrift>>

\* getAllFilesFromHead: empty and binary files are left out, and those that cannot
\* be read; a HEAD that cannot be read has no files.
ReadHead(c, unread) ==
    /\ call[c].step = "read"
    /\ unread \subseteq Names(head)
    /\ call' = [call EXCEPT ![c] =
                   At("set", [p \in Paths |-> IF p \in unread THEN 0 ELSE head[p]],
                      unread, {}, FALSE)]
    /\ UNCHANGED <<filesMap, repository, records, beaten, adrift>>

(* Mutant of Synced: files that are not in HEAD stay in the map. *)
SyncedOver(contents) ==
    [p \in Paths |-> IF contents[p] = 0 THEN filesMap[p] ELSE contents[p]]

\* syncGeneratedFilesMapFromGit: the new map has the files that were read.
Synced(contents) == contents

SetMap(c) ==
    /\ call[c].step = "set"
    /\ filesMap' = Synced(call[c].contents)
    /\ call' = [call EXCEPT ![c] = Over]
    /\ adrift' = IF Resets = {c} THEN beaten[c] \cup call[c].left ELSE Files
    /\ UNCHANGED <<repository, records, beaten>>

-----------------------------------------------------------------------------

\* Anything may fail, and does with every call under way when the durable object
\* is evicted.  What was written, staged and committed stays.
Fail(c) ==
    /\ Saving(c) \/ Resetting(c)
    /\ call' = [call EXCEPT ![c] = Over]
    /\ adrift' = adrift \cup {f \in Files : Carries(c, f)}
    /\ UNCHANGED <<filesMap, repository, records, beaten>>

Next ==
    \/ \E ps \in SUBSET Paths \ {{}} : RecordOnly(ps) \/ Delete(ps)
    \/ \E c \in Calls :
          \/ \E ps \in SUBSET Paths \ {{}}, message \in BOOLEAN :
                Save(c, ps, message)
          \/ SaveAll(c)
          \/ CommitIndex(c)
          \/ \E p \in Paths : Write(c, p)
          \/ Add(c)
          \/ Stage(c)
          \/ Commit(c)
          \/ NothingToCommit(c)
          \/ \E target \in commits : Reset(c, target)
          \/ ResetNowhere(c)
          \/ Checkout(c)
          \/ \E unread \in SUBSET Files : ReadHead(c, unread)
          \/ SetMap(c)
          \/ Fail(c)

Spec == Init /\ [][Next]_vars

-----------------------------------------------------------------------------
(* Properties *)

\* What a save has committed is in HEAD until another save writes the file or a
\* reset moves HEAD: interleaved saves, whose stages and commits go through one
\* index, take in each other's files but undo none (saveGeneratedFiles).
CommitsKept ==
    \A c \in Calls : call[c].step = "kept" =>
        \A f \in FilesOf(Names(call[c].contents)) \ beaten[c] :
            head[f] \in Held(call[c].contents, f)

\* What a save without a message has staged waits in the index for whoever commits
\* next, unless it is written again or reset (stage, "batching multiple
\* operations before a single commit").
StagedKept ==
    \A c \in Calls : call[c].step = "staged" =>
        \A f \in FilesOf(Names(call[c].contents)) \ beaten[c] :
            index[f] \in Held(call[c].contents, f)

\* Once its saves have ended a file is the same in the map, whichever of its paths
\* it has there, and in HEAD, except one that was last recorded or staged only, was
\* deleted, whose save failed, was recorded while a save or a reset with other
\* contents of it was under way, that the map has under two paths, that a reset's
\* sync did not read, or any after a reset that failed.
Agree ==
    \A f \in Files \ adrift :
        (\A c \in Calls : ~Carries(c, f)) => Held(filesMap, f) = {head[f]} \ {0}
=============================================================================
