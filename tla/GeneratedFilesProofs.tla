------------------------ MODULE GeneratedFilesProofs ------------------------
(***************************************************************************)
(* Proofs about GeneratedFiles, for any files, calls and number of         *)
(* records.                                                                *)
(*                                                                         *)
(* The argument: whatever a save has written is in the working tree, the   *)
(* index and then HEAD until somebody beats it, because an add stages what *)
(* the working tree has and a commit takes the whole index.  A file that   *)
(* is not adrift has its contents in the map carried by some save that has *)
(* yet to write, add or commit them, or has arrived.                       *)
(***************************************************************************)
EXTENDS GeneratedFiles, TLAPS

CallType ==
    [step : {"new", "stage", "staged", "kept", "checkout", "read", "set", "over"},
     contents : Contents,
     left : SUBSET Paths,
     written : SUBSET Paths,
     message : BOOLEAN]

Typed ==
    /\ filesMap \in Contents
    /\ tree \in Trees
    /\ index \in Trees
    /\ head \in commits \cup {NoFiles}
    /\ commits \subseteq Trees
    /\ records \in Versions
    /\ call \in [Calls -> CallType]
    /\ beaten \in [Calls -> SUBSET Files]
    /\ adrift \subseteq Files

\* What a call has left, what it checks out and what it read.
Shaped ==
    \A c \in Calls :
        /\ call[c].step = "checkout" => call[c].contents \in commits
        /\ call[c].step = "set" =>
              call[c].contents \in Trees /\ call[c].left \subseteq Files
        /\ call[c].step \in {"staged", "kept"} =>
              call[c].left = {} /\ call[c].written = {}
        /\ call[c].step = "stage" =>
              \A p \in call[c].left \cup call[c].written : call[c].contents[p] # 0
        /\ \A p, q \in call[c].written : p = q

\* During a reset everything is adrift, and the reset knows of every save.
ResetsKnow ==
    \A c \in Calls : Resetting(c) =>
        /\ adrift = Files
        /\ \A d \in Calls, f \in Files : Carries(d, f) => f \in beaten[c]

\* A call has f left to write, under some path, or has it written and not added.
Leaves(c, f) == \E p \in call[c].left : normalizePath[p] = f
Writes(c, f) == \E p \in call[c].written : normalizePath[p] = f

\* What a call has written is in the tree, what it has added in the index.
Arrived ==
    \A c \in Calls, f \in Files :
        /\ call[c].step \in {"stage", "staged", "kept"}
        /\ Held(call[c].contents, f) # {}
        /\ ~Leaves(c, f)
        /\ f \notin beaten[c]
        => /\ tree[f] \in Held(call[c].contents, f)
           /\ ~Writes(c, f) => index[f] \in Held(call[c].contents, f)

\* What a reset reads is what HEAD and the index have.
ResetReads ==
    \A c \in Calls, f \in Files :
        f \notin beaten[c] =>
            /\ call[c].step = "read" => index[f] = head[f]
            /\ call[c].step = "set" /\ f \notin call[c].left =>
                  call[c].contents[f] = head[f] /\ index[f] = head[f]

\* A save that commits has f to write, to add or to commit.
ToWrite(f) ==
    \E c \in Calls : Carries(c, f) /\ call[c].message /\ Leaves(c, f)
ToAdd(f) ==
    \E c \in Calls : Carries(c, f) /\ call[c].message /\ Writes(c, f)
ToCommit(f) ==
    \E c \in Calls : Carries(c, f) /\ call[c].message

\* The map has v for f, and f is on its way from there to HEAD, or arrived.
WayOf(f, v) ==
    /\ Held(filesMap, f) = {v} \ {0}
    /\ \A c \in Calls : Carries(c, f) => Held(call[c].contents, f) = {v}
    /\ \/ tree[f] = v
       \/ ToWrite(f)
       \/ \A c \in Calls : Carries(c, f) => ~Writes(c, f)
    /\ index[f] = v \/ ToWrite(f) \/ ToAdd(f)
    /\ head[f] = v \/ ToCommit(f)

Way(f) == \E v \in Versions : WayOf(f, v)

\* Every file that is not adrift is.
OnItsWay == \A f \in Files \ adrift : Way(f)

Kept ==
    \A c \in Calls, f \in Files :
        /\ call[c].step = "kept"
        /\ Held(call[c].contents, f) # {}
        /\ f \notin beaten[c]
        => head[f] \in Held(call[c].contents, f)

Inv ==
    /\ Typed
    /\ Shaped
    /\ ResetsKnow
    /\ Arrived
    /\ Kept
    /\ ResetReads
    /\ OnItsWay

LEMMA Types == TypeOK <=> Typed
BY Zenon DEF TypeOK, Typed, CallType

-----------------------------------------------------------------------------
(* Paths *)

LEMMA PathFacts ==
  /\ Files \subseteq Paths
  /\ \A p \in Paths : normalizePath[p] \in Files
  /\ \A f \in Files : normalizePath[f] = f
BY PathsAssumption DEF Files

\* Contents that have the same under every path of f hold the same for it.
LEMMA HeldSame ==
  ASSUME NEW s, NEW t, NEW f, \A p \in Paths : normalizePath[p] = f => s[p] = t[p]
  PROVE  Held(s, f) = Held(t, f)
BY DEF Held, Spellings

LEMMA HeldType ==
  ASSUME NEW t \in Contents, NEW f
  PROVE  /\ Held(t, f) \subseteq Versions \ {0}
         /\ \A p \in Paths : normalizePath[p] = f /\ t[p] # 0 => t[p] \in Held(t, f)
         /\ \A v \in Held(t, f) : \E p \in Paths : normalizePath[p] = f /\ t[p] = v
BY DEF Held, Spellings, Contents

LEMMA HeldNothing ==
  ASSUME NEW f
  PROVE  NoFiles \in Trees /\ Held(NoFiles, f) = {}
BY MaxRecordsAssumption, PathFacts
DEF NoFiles, Trees, Contents, Versions, Held, Spellings

\* Git has a file under one path only.
LEMMA HeldInTree ==
  ASSUME NEW t \in Trees, NEW f \in Files
  PROVE  Held(t, f) = {t[f]} \ {0}
<1>1. \A p \in Paths : normalizePath[p] = f => t[p] = 0 \/ p = f
  BY PathFacts DEF Trees
<1> QED
  BY <1>1, PathFacts DEF Held, Spellings

LEMMA NamesHeld ==
  ASSUME NEW t, NEW f
  PROVE  f \in FilesOf(Names(t)) <=> Held(t, f) # {}
BY DEF FilesOf, Names, Held, Spellings

LEMMA KeptIs == CommitsKept <=> Kept
<1>1. \A c \in Calls : \A f : f \in FilesOf(Names(call[c].contents))
                                 <=> Held(call[c].contents, f) # {}
  BY NamesHeld
<1>2. \A c \in Calls : FilesOf(Names(call[c].contents)) \subseteq Files
  BY PathFacts DEF FilesOf, Names
<1> QED
  BY <1>1, <1>2 DEF CommitsKept, Kept

LEMMA InitInv ==
  ASSUME Init
  PROVE  Inv
<1> USE MaxRecordsAssumption DEF Init
<1>1. NoFiles \in Trees /\ NoFiles \in Contents
  BY HeldNothing DEF Trees
<1>2. Unmade \in CallType
  BY <1>1 DEF Unmade, At, CallType
<1>3. Typed
  BY <1>1, <1>2 DEF Typed, Versions
<1>4. \A c \in Calls : call[c].step = "new"
  BY DEF Unmade, At
<1>5. /\ \A f \in Files : Held(filesMap, f) = {} /\ index[f] = 0 /\ head[f] = 0
      /\ 0 \in Versions
  BY HeldNothing, PathFacts DEF NoFiles, Versions
<1>6. \A c \in Calls, f \in Files : ~Carries(c, f)
  BY <1>4 DEF Saving, Carries
<1>7. \A f \in Files : WayOf(f, 0)
  BY <1>5, <1>6 DEF WayOf
<1>8. OnItsWay
  BY <1>5, <1>7 DEF OnItsWay, Way
<1>9. \A c \in Calls : call[c].written = {}
  BY DEF Unmade, At
<1>10. Shaped /\ ResetsKnow /\ Arrived /\ Kept /\ ResetReads
  BY <1>4, <1>9 DEF Shaped, ResetsKnow, Arrived, Kept, ResetReads, Resetting
<1> QED
  BY <1>3, <1>8, <1>10 DEF Inv

-----------------------------------------------------------------------------
(* Changes of the map *)

\* A change that leaves repository and calls alone and makes adrift what it changes
\* in the map, and has the resets see it.
MapChange(fs) ==
    /\ filesMap' \in Contents
    /\ records' \in Versions
    /\ \A p \in Paths : normalizePath[p] \notin fs => filesMap'[p] = filesMap[p]
    /\ adrift' = adrift \cup fs
    /\ Beats(Resets, fs)
    /\ UNCHANGED <<repository, call>>

LEMMA MapChangeKeeps ==
  ASSUME Inv, NEW fs \in SUBSET Files, MapChange(fs)
  PROVE  Inv'
<1> USE DEF MapChange, repository
<1>1. beaten' \in [Calls -> SUBSET Files]
  BY DEF Inv, Typed, Beats
<1>2. \A c \in Calls : beaten[c] \subseteq beaten'[c]
  BY DEF Inv, Typed, Beats
<1>3. Typed'
  BY <1>1 DEF Inv, Typed
<1>4. Shaped'
  BY DEF Inv, Shaped
<1>5. ResetsKnow'
  BY <1>2 DEF Inv, Typed, ResetsKnow, Resetting, Carries, Saving
<1>6. Arrived' /\ Kept' /\ ResetReads'
  BY <1>2 DEF Inv, Arrived, Kept, ResetReads, Leaves, Writes
<1>7. OnItsWay'
  <2> SUFFICES ASSUME NEW f \in Files, f \notin adrift'
               PROVE  Way(f)'
    BY DEF OnItsWay
  <2>1. PICK v \in Versions : WayOf(f, v)
    BY DEF Inv, OnItsWay, Way
  <2>2. Held(filesMap', f) = Held(filesMap, f)
    BY HeldSame
  <2>3. WayOf(f, v)'
    BY <2>1, <2>2
    DEF WayOf, ToWrite, ToAdd, ToCommit, Carries, Saving, Leaves, Writes
  <2> QED
    BY <2>3 DEF Way
<1> QED
  BY <1>3, <1>4, <1>5, <1>6, <1>7 DEF Inv

LEMMA FilesOfType ==
  ASSUME NEW ps \in SUBSET Paths
  PROVE  /\ FilesOf(ps) \in SUBSET Files
         /\ \A p \in Paths : p \in ps => normalizePath[p] \in FilesOf(ps)
BY PathFacts DEF FilesOf

LEMMA RecordType ==
  ASSUME Inv, NEW ps \in SUBSET Paths, Record(ps)
  PROVE  /\ records + 1 \in Versions \ {0}
         /\ records' = records + 1
         /\ filesMap' \in Contents
         /\ \A p \in Paths : filesMap'[p] = IF p \in ps THEN records + 1 ELSE filesMap[p]
BY MaxRecordsAssumption DEF Inv, Typed, Record, Contents, Versions

LEMMA RecordOnlyKeeps ==
  ASSUME Inv, NEW ps \in SUBSET Paths, RecordOnly(ps)
  PROVE  Inv'
<1>1. MapChange(FilesOf(ps))
  BY RecordType, FilesOfType DEF RecordOnly, MapChange
<1> QED
  BY <1>1, MapChangeKeeps, FilesOfType

LEMMA DeleteKeeps ==
  ASSUME Inv, NEW ps \in SUBSET Paths, Delete(ps)
  PROVE  Inv'
<1>1. filesMap' \in Contents
  BY MaxRecordsAssumption DEF Inv, Typed, Delete, Contents, Versions
<1>2. MapChange(FilesOf(ps))
  BY <1>1, FilesOfType DEF Inv, Typed, Delete, MapChange
<1> QED
  BY <1>2, MapChangeKeeps, FilesOfType

-----------------------------------------------------------------------------
(* Saves *)

\* A file stays on its way if the saves that carry it do.
LEMMA WayStays ==
  ASSUME NEW f \in Files, NEW v \in Versions, WayOf(f, v),
         Held(filesMap', f) = Held(filesMap, f), UNCHANGED <<tree, index, head>>,
         \A d \in Calls : Carries(d, f)' => Carries(d, f) /\ call'[d] = call[d],
         \A d \in Calls : Carries(d, f) /\ call[d].message
                              => Carries(d, f)' /\ call'[d] = call[d]
  PROVE  WayOf(f, v)'
<1>1. /\ ToWrite(f) => ToWrite(f)'
      /\ ToAdd(f) => ToAdd(f)'
      /\ ToCommit(f) => ToCommit(f)'
  BY DEF ToWrite, ToAdd, ToCommit, Leaves, Writes
<1>2. \A d \in Calls : call'[d] = call[d] => (Writes(d, f)' <=> Writes(d, f))
  BY DEF Writes
<1> QED
  BY <1>1, <1>2 DEF WayOf

\* One call moves on.
LEMMA OneMoves ==
  ASSUME Inv, NEW c \in Calls, NEW r \in CallType, call' = [call EXCEPT ![c] = r]
  PROVE  /\ call' \in [Calls -> CallType]
         /\ call'[c] = r
         /\ \A d \in Calls \ {c} : call'[d] = call[d]
BY DEF Inv, Typed

\* What a new save is, and what it leaves alone.
NewSave(c, contents, message) ==
    /\ call[c].step = "new"
    /\ contents \in Contents
    /\ message \in BOOLEAN
    /\ call' = [call EXCEPT ![c] =
                   At("stage", contents, Names(contents), {}, message)]
    /\ Beats(Resets, FilesOf(Names(contents)))
    /\ filesMap' \in Contents
    /\ records' \in Versions
    /\ adrift' \in SUBSET Files
    /\ Resets # {} => adrift' = Files
    /\ UNCHANGED repository

\* A new save disturbs nothing but, perhaps, files on their way.
LEMMA NewSaveKeeps ==
  ASSUME Inv, NEW c \in Calls, NEW contents, NEW message,
         NewSave(c, contents, message), OnItsWay'
  PROVE  Inv'
<1> USE DEF NewSave, repository
<1> DEFINE r == At("stage", contents, Names(contents), {}, message)
<1>1. /\ r \in CallType
      /\ r.step = "stage"
      /\ r.contents = contents
      /\ r.left = Names(contents)
      /\ r.written = {}
  BY DEF At, CallType, Names
<1>2. call' = [call EXCEPT ![c] = r]
  OBVIOUS
<1> HIDE DEF r
<1>3. /\ call' \in [Calls -> CallType]
      /\ call'[c] = r
      /\ \A d \in Calls \ {c} : call'[d] = call[d]
  BY <1>1, <1>2, OneMoves
<1>3a. Names(contents) \in SUBSET Paths
  BY DEF Names
<1>3b. /\ FilesOf(Names(contents)) \in SUBSET Files
       /\ \A f \in Files : f \in FilesOf(Names(contents)) <=> Held(contents, f) # {}
  BY <1>3a, FilesOfType, NamesHeld
<1>4. /\ beaten' \in [Calls -> SUBSET Files]
      /\ \A d \in Calls : beaten[d] \subseteq beaten'[d]
      /\ \A d \in Resets : FilesOf(Names(contents)) \subseteq beaten'[d]
  BY <1>3b DEF Inv, Typed, Beats, Resets
<1>5. Typed'
  BY <1>3, <1>4 DEF Inv, Typed
<1>6. Shaped'
  <2>1. \A p \in r.left \cup r.written : r.contents[p] # 0
    BY <1>1 DEF Names
  <2> QED
    BY <1>1, <1>3, <2>1 DEF Inv, Shaped
<1>7. ResetsKnow'
  BY <1>1, <1>3, <1>3b, <1>4
  DEF Inv, Typed, ResetsKnow, Resetting, Carries, Saving, Resets
<1>8. \A f \in Files : Held(contents, f) # {} => Leaves(c, f)'
  BY <1>1, <1>3, <1>3b DEF Leaves, FilesOf
<1>9. Arrived'
  <2> SUFFICES ASSUME NEW d \in Calls, NEW f \in Files,
                      call'[d].step \in {"stage", "staged", "kept"},
                      Held(call'[d].contents, f) # {}, ~Leaves(d, f)', f \notin beaten'[d]
               PROVE  /\ tree'[f] \in Held(call'[d].contents, f)
                      /\ ~Writes(d, f)' => index'[f] \in Held(call'[d].contents, f)
    BY Zenon DEF Arrived
  <2>1. d # c
    BY <1>1, <1>3, <1>8
  <2> QED
    BY <1>3, <1>4, <2>1 DEF Inv, Arrived, Leaves, Writes
<1>10. Kept'
  BY <1>1, <1>3, <1>4 DEF Inv, Kept
<1>11. ResetReads'
  BY <1>1, <1>3, <1>4 DEF Inv, ResetReads
<1> QED
  BY <1>5, <1>6, <1>7, <1>9, <1>10, <1>11 DEF Inv

LEMMA SaveKeeps ==
  ASSUME Inv, NEW c \in Calls, NEW ps \in SUBSET Paths, NEW message \in BOOLEAN,
         Save(c, ps, message)
  PROVE  Inv'
<1> DEFINE contents == [p \in Paths |-> IF p \in ps THEN records + 1 ELSE 0]
           r == At("stage", contents, ps, {}, message)
<1>1. /\ records + 1 \in Versions \ {0}
      /\ records' \in Versions
      /\ filesMap' \in Contents
      /\ \A p \in Paths : filesMap'[p] = IF p \in ps THEN records + 1 ELSE filesMap[p]
  BY RecordType DEF Save
<1>2. contents \in Contents
  <2>1. 0 \in Versions
    BY MaxRecordsAssumption DEF Versions
  <2> QED
    BY <1>1, <2>1 DEF Contents
<1>3. \A p \in Paths : contents[p] = IF p \in ps THEN records + 1 ELSE 0
  OBVIOUS
<1>3a. Names(contents) = ps
  <2> HIDE DEF contents
  <2> QED
    BY <1>1, <1>3 DEF Names, Versions
<1> HIDE DEF contents
<1>4. /\ call[c].step = "new"
      /\ call' = [call EXCEPT ![c] = r]
      /\ adrift' = {f \in adrift \cup FilesOf(ps) :
                      f \in FilesOf(ps) /\ message /\ Alone(f) => ~Single(filesMap', f)}
      /\ Beats(Resets, FilesOf(ps))
      /\ UNCHANGED repository
  BY DEF Save, contents
<1>5. /\ r \in CallType
      /\ r.step = "stage"
      /\ r.contents = contents
      /\ r.left = ps
      /\ r.written = {}
      /\ r.message = message
  BY <1>2 DEF At, CallType
<1> HIDE DEF r
<1>6. /\ call' \in [Calls -> CallType]
      /\ call'[c] = r
      /\ \A d \in Calls \ {c} : call'[d] = call[d]
  BY <1>4, <1>5, OneMoves
<1>7. NewSave(c, contents, message)
  <2>1. adrift' \in SUBSET Files
    BY <1>4, FilesOfType DEF Inv, Typed
  <2>2. Resets # {} => adrift' = Files
    BY <1>4, <2>1 DEF Inv, Typed, ResetsKnow, Resets, Alone
  <2> QED
    BY <1>1, <1>2, <1>3a, <1>4, <2>1, <2>2 DEF NewSave, r
<1>8. OnItsWay'
  <2> SUFFICES ASSUME NEW f \in Files, f \notin adrift'
               PROVE  Way(f)'
    BY DEF OnItsWay
  <2>1. CASE f \in FilesOf(ps)
    <3>1. /\ message
          /\ \A d \in Calls : ~Carries(d, f)
          /\ Single(filesMap', f)
      BY <1>4, <2>1 DEF Alone
    <3>2. \A d \in Calls \ {c} : ~Carries(d, f)'
      BY <1>6, <3>1 DEF Carries, Saving
    <3>3. PICK p \in Paths : p \in ps /\ normalizePath[p] = f
      BY <2>1 DEF FilesOf
    <3>4. Held(filesMap', f) = {records + 1}
      BY <1>1, <3>1, <3>3, HeldType DEF Single
    <3>5. Held(contents, f) = {records + 1}
      BY <1>1, <1>2, <1>3, <3>3, HeldType
    <3>6. Carries(c, f)' /\ Leaves(c, f)' /\ call'[c].message
      BY <1>5, <1>6, <3>1, <3>3, <3>5 DEF Carries, Saving, Leaves
    <3>7. ToWrite(f)' /\ ToCommit(f)'
      BY <3>6 DEF ToWrite, ToCommit
    <3>8. PICK v \in Versions : v = records + 1 /\ v # 0
      BY <1>1
    <3>9. WayOf(f, v)'
      BY <1>5, <1>6, <3>2, <3>4, <3>5, <3>7, <3>8 DEF WayOf
    <3> QED
      BY <3>9 DEF Way
  <2>2. CASE f \notin FilesOf(ps)
    <3>1. f \notin adrift
      BY <1>4, <2>2
    <3>2. \A p \in Paths : normalizePath[p] = f => p \notin ps
      BY <2>2 DEF FilesOf
    <3>3. Held(filesMap', f) = Held(filesMap, f)
      BY <1>1, <3>2, HeldSame
    <3>4. Held(contents, f) = {}
      BY <1>3, <3>2 DEF Held, Spellings
    <3>5. ~Carries(c, f)' /\ ~Carries(c, f)
      BY <1>4, <1>5, <1>6, <3>4 DEF Carries, Saving
    <3>6. \A d \in Calls : Carries(d, f)' => Carries(d, f) /\ call'[d] = call[d]
      BY <1>6, <3>5 DEF Carries, Saving
    <3>7. \A d \in Calls : Carries(d, f) => Carries(d, f)' /\ call'[d] = call[d]
      BY <1>6, <3>5 DEF Carries, Saving
    <3>8. UNCHANGED <<tree, index, head>>
      BY <1>4 DEF repository
    <3>9. PICK v \in Versions : WayOf(f, v)
      BY <3>1 DEF Inv, OnItsWay, Way
    <3> QED
      BY <3>3, <3>6, <3>7, <3>8, <3>9, WayStays DEF Way
  <2> QED
    BY <2>1, <2>2
<1> QED
  BY <1>7, <1>8, NewSaveKeeps

LEMMA SaveAllKeeps ==
  ASSUME Inv, NEW c \in Calls, SaveAll(c)
  PROVE  Inv'
<1> DEFINE r == At("stage", filesMap, Names(filesMap), {}, TRUE)
<1>1. /\ call[c].step = "new"
      /\ call' = [call EXCEPT ![c] = r]
      /\ adrift' = {f \in adrift :
                      Held(filesMap, f) # {} /\ Unrivalled(f) => ~Single(filesMap, f)}
      /\ Beats(Resets, FilesOf(Names(filesMap)))
      /\ UNCHANGED <<repository, filesMap, records>>
  BY DEF SaveAll
<1>2. /\ r \in CallType
      /\ r.step = "stage"
      /\ r.contents = filesMap
      /\ r.left = Names(filesMap)
      /\ r.written = {}
      /\ r.message = TRUE
  BY DEF Inv, Typed, At, CallType, Names
<1> HIDE DEF r
<1>3. /\ call' \in [Calls -> CallType]
      /\ call'[c] = r
      /\ \A d \in Calls \ {c} : call'[d] = call[d]
  BY <1>1, <1>2, OneMoves
<1>4. NewSave(c, filesMap, TRUE)
  <2>1. adrift' \in SUBSET Files
    BY <1>1 DEF Inv, Typed
  <2>2. Resets # {} => adrift' = Files
    BY <1>1, <2>1 DEF Inv, Typed, ResetsKnow, Resets, Unrivalled
  <2> QED
    BY <1>1, <2>1, <2>2 DEF NewSave, Inv, Typed, r
<1>5. OnItsWay'
  <2> SUFFICES ASSUME NEW f \in Files, f \notin adrift'
               PROVE  Way(f)'
    BY DEF OnItsWay
  <2>1. filesMap' = filesMap /\ call'[c].contents = filesMap
    BY <1>1, <1>2, <1>3
  <2>2. \A d \in Calls \ {c} : Carries(d, f)' <=> Carries(d, f)
    BY <1>3 DEF Carries, Saving
  <2>3. CASE Held(filesMap, f) # {}
    <3>1. PICK v \in Versions : Held(filesMap, f) = {v} /\ v # 0
      <4>1. Held(filesMap, f) \subseteq Versions \ {0}
        BY HeldType DEF Inv, Typed
      <4>2. CASE f \in adrift
        BY <1>1, <2>3, <4>1, <4>2 DEF Single
      <4>3. CASE f \notin adrift
        BY <2>3, <4>1, <4>3 DEF Inv, OnItsWay, Way, WayOf
      <4> QED
        BY <4>2, <4>3
    <3>2. \A d \in Calls : Carries(d, f) => Held(call[d].contents, f) = {v}
      <4>1. CASE f \in adrift
        BY <1>1, <2>3, <3>1, <4>1 DEF Unrivalled
      <4>2. CASE f \notin adrift
        BY <3>1, <4>2 DEF Inv, OnItsWay, Way, WayOf
      <4> QED
        BY <4>1, <4>2
    <3>3. \A d \in Calls : Carries(d, f)' => Held(call'[d].contents, f) = {v}
      BY <1>3, <2>1, <2>2, <3>1, <3>2
    <3>4. Leaves(c, f)'
      BY <1>2, <1>3, <2>3 DEF Leaves, Names, Held, Spellings
    <3>5. Carries(c, f)' /\ call'[c].message
      BY <1>2, <1>3, <2>3 DEF Carries, Saving
    <3>6. ToWrite(f)' /\ ToCommit(f)'
      BY <3>4, <3>5 DEF ToWrite, ToCommit
    <3>7. WayOf(f, v)'
      BY <2>1, <3>1, <3>3, <3>6 DEF WayOf
    <3> QED
      BY <3>7 DEF Way
  <2>4. CASE Held(filesMap, f) = {}
    <3>1. f \notin adrift
      BY <1>1, <2>4
    <3>2. ~Carries(c, f)' /\ ~Carries(c, f)
      BY <1>1, <2>1, <2>4 DEF Carries, Saving
    <3>3. \A d \in Calls : Carries(d, f)' => Carries(d, f) /\ call'[d] = call[d]
      BY <1>3, <2>2, <3>2
    <3>4. \A d \in Calls : Carries(d, f) => Carries(d, f)' /\ call'[d] = call[d]
      BY <1>3, <2>2, <3>2
    <3>5. UNCHANGED <<filesMap, tree, index, head>>
      BY <1>1 DEF repository
    <3>6. PICK v \in Versions : WayOf(f, v)
      BY <3>1 DEF Inv, OnItsWay, Way
    <3> QED
      BY <3>3, <3>4, <3>5, <3>6, WayStays DEF Way
  <2> QED
    BY <2>3, <2>4
<1> QED
  BY <1>4, <1>5, NewSaveKeeps

-----------------------------------------------------------------------------
(* Calls that begin or end without touching a file *)

\* Call c becomes r, which carries nothing and has nothing kept.
Idles(c, r) ==
    /\ r \in CallType
    /\ r.step \in {"stage", "over"}
    /\ r.contents = NoFiles
    /\ r.left = {}
    /\ r.written = {}
    /\ call' = [call EXCEPT ![c] = r]
    /\ adrift' \in SUBSET Files
    /\ \A f \in Files : f \in adrift \/ Carries(c, f) => f \in adrift'
    /\ UNCHANGED <<repository, filesMap, records, beaten>>

LEMMA IdlesKeeps ==
  ASSUME Inv, NEW c \in Calls, NEW r, Idles(c, r)
  PROVE  Inv'
<1> USE DEF repository
<1>1. /\ r \in CallType
      /\ r.step \in {"stage", "over"}
      /\ \A f : Held(r.contents, f) = {}
      /\ r.left = {}
      /\ r.written = {}
      /\ adrift' \in SUBSET Files
      /\ \A f \in Files : f \in adrift \/ Carries(c, f) => f \in adrift'
      /\ UNCHANGED <<filesMap, tree, index, head, commits, records, beaten>>
  BY HeldNothing DEF Idles
<1>2. /\ call' \in [Calls -> CallType]
      /\ call'[c] = r
      /\ \A d \in Calls \ {c} : call'[d] = call[d]
  BY OneMoves DEF Idles
<1>3. Typed'
  BY <1>1, <1>2 DEF Inv, Typed
<1>4. Shaped'
  BY <1>1, <1>2 DEF Inv, Shaped
<1>5. \A d \in Calls, f \in Files : Carries(d, f)' => Carries(d, f) /\ d # c
  BY <1>1, <1>2 DEF Carries, Saving
<1>6. ResetsKnow'
  <2> SUFFICES ASSUME NEW d \in Calls, Resetting(d)'
               PROVE  /\ adrift' = Files
                      /\ \A e \in Calls, f \in Files : Carries(e, f)' => f \in beaten'[d]
    BY Zenon DEF ResetsKnow
  <2>1. Resetting(d)
    BY <1>1, <1>2 DEF Resetting
  <2>2. adrift = Files
    BY <2>1 DEF Inv, ResetsKnow
  <2> QED
    BY <1>1, <1>5, <2>1, <2>2 DEF Inv, ResetsKnow
<1>7. Arrived' /\ ResetReads'
  BY <1>1, <1>2 DEF Inv, Arrived, ResetReads, Leaves, Writes
<1>8. Kept'
  BY <1>1, <1>2 DEF Inv, Kept
<1>9. OnItsWay'
  <2> SUFFICES ASSUME NEW f \in Files, f \notin adrift'
               PROVE  Way(f)'
    BY DEF OnItsWay
  <2>1. f \notin adrift /\ ~Carries(c, f)
    BY <1>1
  <2>2. PICK v \in Versions : WayOf(f, v)
    BY <2>1 DEF Inv, OnItsWay, Way
  <2>3. \A d \in Calls : Carries(d, f)' => Carries(d, f) /\ call'[d] = call[d]
    BY <1>2, <1>5
  <2>4. \A d \in Calls : Carries(d, f) => Carries(d, f)' /\ call'[d] = call[d]
    BY <1>2, <2>1 DEF Carries, Saving
  <2> QED
    BY <1>1, <2>2, <2>3, <2>4, WayStays DEF Way
<1> QED
  BY <1>3, <1>4, <1>6, <1>7, <1>8, <1>9 DEF Inv

LEMMA NoFilesType == NoFiles \in Trees /\ NoFiles \in Contents
BY HeldNothing DEF Trees

LEMMA OverIdle ==
  /\ Over \in CallType
  /\ Over.step = "over"
  /\ Over.contents = NoFiles
  /\ Over.left = {}
  /\ Over.written = {}
BY NoFilesType DEF Over, At, CallType

LEMMA CommitIndexKeeps ==
  ASSUME Inv, NEW c \in Calls, CommitIndex(c)
  PROVE  Inv'
<1> DEFINE r == At("stage", NoFiles, {}, {}, TRUE)
<1>1. /\ r \in CallType
      /\ r.step = "stage"
      /\ r.contents = NoFiles
      /\ r.left = {}
      /\ r.written = {}
  BY NoFilesType DEF At, CallType
<1>2. /\ call[c].step = "new"
      /\ call' = [call EXCEPT ![c] = r]
      /\ UNCHANGED <<repository, filesMap, records, beaten, adrift>>
  BY DEF CommitIndex
<1> HIDE DEF r
<1>3. \A f \in Files : ~Carries(c, f)
  BY <1>2 DEF Carries, Saving
<1>4. adrift \in SUBSET Files
  BY DEF Inv, Typed
<1>5. Idles(c, r)
  BY <1>1, <1>2, <1>3, <1>4 DEF Idles
<1> QED
  BY <1>5, IdlesKeeps

LEMMA NothingToCommitKeeps ==
  ASSUME Inv, NEW c \in Calls, NothingToCommit(c)
  PROVE  Inv'
<1>1. /\ call[c].contents = NoFiles
      /\ call' = [call EXCEPT ![c] = Over]
      /\ UNCHANGED <<repository, filesMap, records, beaten, adrift>>
  BY DEF NothingToCommit
<1>2. \A f \in Files : ~Carries(c, f)
  BY <1>1, HeldNothing DEF Carries
<1>3. adrift \in SUBSET Files
  BY DEF Inv, Typed
<1>4. Idles(c, Over)
  BY <1>1, <1>2, <1>3, OverIdle DEF Idles
<1> QED
  BY <1>4, IdlesKeeps

LEMMA FailKeeps ==
  ASSUME Inv, NEW c \in Calls, Fail(c)
  PROVE  Inv'
<1>1. /\ call' = [call EXCEPT ![c] = Over]
      /\ adrift' = adrift \cup {f \in Files : Carries(c, f)}
      /\ UNCHANGED <<repository, filesMap, records, beaten>>
  BY DEF Fail
<1>2. adrift' \in SUBSET Files
  BY <1>1 DEF Inv, Typed
<1>3. Idles(c, Over)
  BY <1>1, <1>2, OverIdle DEF Idles
<1> QED
  BY <1>3, IdlesKeeps

-----------------------------------------------------------------------------
(* Staging and committing *)

LEMMA WriteKeeps ==
  ASSUME Inv, NEW c \in Calls, NEW p \in Paths, Write(c, p)
  PROVE  Inv'
<1> USE DEF repository
<1> DEFINE r == At("stage", call[c].contents, call[c].left \ {p}, {p},
                   call[c].message)
<1>0. PICK f \in Files : f = normalizePath[p]
  BY PathFacts
<1>1. /\ call[c].step = "stage"
      /\ call[c].written = {}
      /\ p \in call[c].left
      /\ tree' = [tree EXCEPT ![f] = call[c].contents[p]]
      /\ call' = [call EXCEPT ![c] = r]
      /\ UNCHANGED <<filesMap, index, head, commits, records, adrift>>
  BY <1>0 DEF Write, Saving, GitPath
<1>2. /\ r \in CallType
      /\ r.step = "stage"
      /\ r.contents = call[c].contents
      /\ r.left = call[c].left \ {p}
      /\ r.written = {p}
      /\ r.message = call[c].message
  BY DEF Inv, Typed, At, CallType
<1> HIDE DEF r
<1>3. /\ call' \in [Calls -> CallType]
      /\ call'[c] = r
      /\ \A d \in Calls \ {c} : call'[d] = call[d]
  BY <1>1, <1>2, OneMoves
<1>4. /\ call[c].contents[p] \in Versions \ {0}
      /\ call[c].contents \in Contents
  BY <1>1 DEF Inv, Typed, Shaped, CallType, Contents
<1>4a. call[c].contents[p] \in Held(call[c].contents, f)
  BY <1>0, <1>4, HeldType
<1>5. /\ tree' \in Trees
      /\ tree'[f] = call[c].contents[p]
      /\ \A g \in Files \ {f} : tree'[g] = tree[g]
  <2>1. tree \in Contents /\ f \in Paths
    BY PathFacts DEF Inv, Typed, Trees
  <2> QED
    BY <1>1, <1>4, <2>1, PathFacts DEF Inv, Typed, Trees, Contents
<1>6. /\ beaten' \in [Calls -> SUBSET Files]
      /\ beaten'[c] = beaten[c] \ {f}
      /\ \A d \in Calls \ {c} : /\ beaten[d] \subseteq beaten'[d]
                                /\ d \in Made => f \in beaten'[d]
  BY <1>0 DEF Write, GitPath, Inv, Typed
<1>7. Typed'
  BY <1>1, <1>3, <1>5, <1>6 DEF Inv, Typed
<1>8. Shaped'
  BY <1>1, <1>2, <1>3, <1>4 DEF Inv, Shaped, Versions
<1>9. \A d \in Calls, g \in Files : Carries(d, g)' <=> Carries(d, g)
  BY <1>1, <1>2, <1>3 DEF Carries, Saving
<1>9a. /\ \A g \in Files : Writes(c, g)' <=> g = f
       /\ \A g \in Files : g # f => (Leaves(c, g)' <=> Leaves(c, g))
       /\ \A d \in Calls \ {c}, g \in Files : /\ Writes(d, g)' <=> Writes(d, g)
                                              /\ Leaves(d, g)' <=> Leaves(d, g)
  BY <1>0, <1>2, <1>3 DEF Leaves, Writes
<1>10. ResetsKnow'
  <2>1. \A d \in Calls : Resetting(d)' => Resetting(d) /\ d # c
    BY <1>2, <1>3 DEF Resetting
  <2> QED
    BY <1>1, <1>6, <1>9, <2>1 DEF Inv, ResetsKnow
<1>11. Arrived'
  <2> SUFFICES ASSUME NEW d \in Calls, NEW g \in Files,
                      call'[d].step \in {"stage", "staged", "kept"},
                      Held(call'[d].contents, g) # {}, ~Leaves(d, g)', g \notin beaten'[d]
               PROVE  /\ tree'[g] \in Held(call'[d].contents, g)
                      /\ ~Writes(d, g)' => index'[g] \in Held(call'[d].contents, g)
    BY Zenon DEF Arrived
  <2>1. CASE d = c /\ g = f
    BY <1>2, <1>3, <1>4a, <1>5, <1>9a, <2>1
  <2>2. CASE d = c /\ g # f
    <3>1. ~Writes(c, g)
      BY <1>1 DEF Writes
    <3> QED
      BY <1>1, <1>2, <1>3, <1>5, <1>6, <1>9a, <2>2, <3>1 DEF Inv, Arrived
  <2>3. CASE d # c
    <3>1. d \in Made
      BY <1>3, <2>3 DEF Made
    <3>2. g # f
      BY <1>6, <2>3, <3>1
    <3> QED
      BY <1>1, <1>3, <1>5, <1>6, <1>9a, <2>3, <3>2 DEF Inv, Arrived
  <2> QED
    BY <2>1, <2>2, <2>3
<1>12. Kept'
  BY <1>1, <1>2, <1>3, <1>6 DEF Inv, Kept
<1>13. ResetReads'
  BY <1>1, <1>2, <1>3, <1>6 DEF Inv, ResetReads
<1>14. OnItsWay'
  <2> SUFFICES ASSUME NEW g \in Files, g \notin adrift'
               PROVE  Way(g)'
    BY DEF OnItsWay
  <2>1. PICK v \in Versions : WayOf(g, v)
    BY <1>1 DEF Inv, OnItsWay, Way
  <2>2. /\ ToCommit(g) => ToCommit(g)'
        /\ ToAdd(g) => ToAdd(g)'
        /\ ToWrite(g) => ToWrite(g)' \/ (g = f /\ ToAdd(g)')
    <3>1. ToCommit(g) => ToCommit(g)'
      BY <1>2, <1>3, <1>9 DEF ToCommit
    <3>2. ~Writes(c, g)
      BY <1>1 DEF Writes
    <3>3. ToAdd(g) => ToAdd(g)'
      BY <1>3, <1>9, <1>9a, <3>2 DEF ToAdd
    <3>4. ToWrite(g) => ToWrite(g)' \/ (g = f /\ ToAdd(g)')
      BY <1>2, <1>3, <1>9, <1>9a DEF ToWrite, ToAdd
    <3> QED
      BY <3>1, <3>3, <3>4
  <2>3. \A d \in Calls : Carries(d, g)' => Held(call'[d].contents, g) = {v}
    BY <1>2, <1>3, <1>9, <2>1 DEF WayOf
  <2>4. \/ tree'[g] = v
        \/ ToWrite(g)'
        \/ \A d \in Calls : Carries(d, g)' => ~Writes(d, g)'
    <3>1. CASE g = f
      <4>1. Carries(c, f)
        BY <1>1, <1>4a DEF Carries, Saving
      <4>2. call[c].contents[p] = v
        BY <1>4a, <2>1, <3>1, <4>1 DEF WayOf
      <4> QED
        BY <1>5, <3>1, <4>2
    <3>2. CASE g # f
      BY <1>5, <1>9, <1>9a, <2>1, <2>2, <3>2 DEF WayOf
    <3> QED
      BY <3>1, <3>2
  <2>5. WayOf(g, v)'
    BY <1>1, <2>1, <2>2, <2>3, <2>4 DEF WayOf
  <2> QED
    BY <2>5 DEF Way
<1> QED
  BY <1>7, <1>8, <1>10, <1>11, <1>12, <1>13, <1>14 DEF Inv

LEMMA AddKeeps ==
  ASSUME Inv, NEW c \in Calls, Add(c)
  PROVE  Inv'
<1> USE DEF repository
<1> DEFINE r == At("stage", call[c].contents, call[c].left, {}, call[c].message)
<1>0. PICK p \in Paths : p \in call[c].written
                         /\ index' = [index EXCEPT ![GitPath(p)] = Added(c, p)]
  BY DEF Add, Inv, Typed, CallType
<1>0a. PICK f \in Files : f = normalizePath[p]
  BY PathFacts
<1>1. /\ call[c].step = "stage"
      /\ call' = [call EXCEPT ![c] = r]
      /\ index' = [index EXCEPT ![f] = tree[f]]
      /\ UNCHANGED <<filesMap, tree, head, commits, records, beaten, adrift>>
  BY <1>0, <1>0a DEF Add, Saving, Added, GitPath
<1>2. /\ r \in CallType
      /\ r.step = "stage"
      /\ r.contents = call[c].contents
      /\ r.left = call[c].left
      /\ r.written = {}
      /\ r.message = call[c].message
  BY DEF Inv, Typed, At, CallType
<1> HIDE DEF r
<1>3. /\ call' \in [Calls -> CallType]
      /\ call'[c] = r
      /\ \A d \in Calls \ {c} : call'[d] = call[d]
  BY <1>1, <1>2, OneMoves
<1>4. /\ index' \in Trees
      /\ \A g \in Files : index'[g] = IF g = f THEN tree[g] ELSE index[g]
  <2>1. tree \in Contents /\ index \in Contents /\ f \in Paths
    BY PathFacts DEF Inv, Typed, Trees
  <2> QED
    BY <1>1, <2>1, PathFacts DEF Inv, Typed, Trees, Contents
<1>5. Carries(c, f)
  <2>1. call[c].contents \in Contents /\ call[c].contents[p] # 0
    BY <1>0, <1>1 DEF Inv, Typed, Shaped, CallType
  <2> QED
    BY <1>0a, <1>1, <2>1, HeldType DEF Carries, Saving
<1>6. Typed'
  BY <1>1, <1>3, <1>4 DEF Inv, Typed
<1>7. Shaped'
  BY <1>1, <1>2, <1>3 DEF Inv, Shaped
<1>8. \A d \in Calls, g \in Files : Carries(d, g)' <=> Carries(d, g)
  BY <1>1, <1>2, <1>3 DEF Carries, Saving
<1>8a. /\ Writes(c, f)
       /\ \A g \in Files : ~Writes(c, g)'
       /\ \A d \in Calls, g \in Files : Leaves(d, g)' <=> Leaves(d, g)
       /\ \A d \in Calls \ {c}, g \in Files : Writes(d, g)' <=> Writes(d, g)
  BY <1>0, <1>0a, <1>2, <1>3 DEF Leaves, Writes
<1>9. \A d \in Calls : Resetting(d)' => Resetting(d) /\ d # c
  BY <1>2, <1>3 DEF Resetting
<1>10. ResetsKnow'
  BY <1>1, <1>8, <1>9 DEF Inv, ResetsKnow
<1>11. Arrived'
  <2> SUFFICES ASSUME NEW d \in Calls, NEW g \in Files,
                      call'[d].step \in {"stage", "staged", "kept"},
                      Held(call'[d].contents, g) # {}, ~Leaves(d, g)', g \notin beaten'[d]
               PROVE  /\ tree'[g] \in Held(call'[d].contents, g)
                      /\ ~Writes(d, g)' => index'[g] \in Held(call'[d].contents, g)
    BY Zenon DEF Arrived
  <2>1. /\ call[d].step \in {"stage", "staged", "kept"}
        /\ call'[d].contents = call[d].contents
        /\ ~Leaves(d, g)
    BY <1>1, <1>2, <1>3, <1>8a
  <2>2. tree[g] \in Held(call[d].contents, g)
    BY <1>1, <2>1 DEF Inv, Arrived
  <2>3. CASE g = f
    BY <1>1, <1>4, <2>1, <2>2, <2>3
  <2>4. CASE g # f
    <3>1. ~Writes(d, g)' => ~Writes(d, g)
      <4>1. CASE d = c
        <5>1. call[c].written = {p}
          BY <1>0 DEF Inv, Shaped
        <5> QED
          BY <1>0a, <2>4, <4>1, <5>1 DEF Writes
      <4>2. CASE d # c
        BY <1>8a, <4>2
      <4> QED
        BY <4>1, <4>2
    <3> QED
      BY <1>1, <1>4, <2>1, <2>2, <2>4, <3>1 DEF Inv, Arrived
  <2> QED
    BY <2>3, <2>4
<1>12. Kept'
  BY <1>1, <1>2, <1>3 DEF Inv, Kept
<1>13. ResetReads'
  <2> SUFFICES ASSUME NEW d \in Calls, NEW g \in Files, g \notin beaten[d],
                      call'[d].step \in {"read", "set"}
               PROVE  /\ call'[d].step = "read" => index'[g] = head'[g]
                      /\ call'[d].step = "set" /\ g \notin call'[d].left =>
                           call'[d].contents[g] = head'[g] /\ index'[g] = head'[g]
    BY <1>1 DEF ResetReads
  <2>1. Resetting(d) /\ d # c
    BY <1>9 DEF Resetting
  <2>2. ~Carries(c, g)
    BY <2>1 DEF Inv, ResetsKnow
  <2>3. index'[g] = index[g]
    BY <1>4, <1>5, <2>2
  <2> QED
    BY <1>1, <1>3, <2>1, <2>3 DEF Inv, ResetReads
<1>14. OnItsWay'
  <2> SUFFICES ASSUME NEW g \in Files, g \notin adrift'
               PROVE  Way(g)'
    BY DEF OnItsWay
  <2>1. PICK v \in Versions : WayOf(g, v)
    BY <1>1 DEF Inv, OnItsWay, Way
  <2>2. /\ ToCommit(g) => ToCommit(g)'
        /\ ToWrite(g) => ToWrite(g)'
    BY <1>2, <1>3, <1>8, <1>8a DEF ToWrite, ToCommit
  <2>2a. ToAdd(g) => ToAdd(g)' \/ Writes(c, g)
    BY <1>3, <1>8, <1>8a DEF ToAdd
  <2>3. /\ \A d \in Calls : Carries(d, g)' => Held(call'[d].contents, g) = {v}
        /\ \/ tree'[g] = v
           \/ ToWrite(g)'
           \/ \A d \in Calls : Carries(d, g)' => ~Writes(d, g)'
        /\ head'[g] = v \/ ToCommit(g)'
    <3>1. \A d \in Calls : Writes(d, g)' => Writes(d, g)
      BY <1>8a
    <3> QED
      BY <1>1, <1>2, <1>3, <1>8, <2>1, <2>2, <3>1 DEF WayOf
  <2>4. index'[g] = v \/ ToWrite(g)' \/ ToAdd(g)'
    <3>1. CASE g = f
      BY <1>1, <1>4, <1>5, <1>8a, <2>1, <2>2, <3>1 DEF WayOf
    <3>2. CASE g # f
      <4>1. ~Writes(c, g)
        <5>1. call[c].written = {p}
          BY <1>0 DEF Inv, Shaped
        <5> QED
          BY <1>0a, <3>2, <5>1 DEF Writes
      <4> QED
        BY <1>4, <2>1, <2>2, <2>2a, <3>2, <4>1 DEF WayOf
    <3> QED
      BY <3>1, <3>2
  <2>5. WayOf(g, v)'
    BY <1>1, <2>1, <2>3, <2>4 DEF WayOf
  <2> QED
    BY <2>5 DEF Way
<1> QED
  BY <1>6, <1>7, <1>10, <1>11, <1>12, <1>13, <1>14 DEF Inv

LEMMA StageKeeps ==
  ASSUME Inv, NEW c \in Calls, Stage(c)
  PROVE  Inv'
<1> USE DEF repository
<1> DEFINE r == At("staged", call[c].contents, {}, {}, FALSE)
<1>1. /\ call[c].step = "stage"
      /\ call[c].left = {}
      /\ call[c].written = {}
      /\ ~call[c].message
      /\ call' = [call EXCEPT ![c] = r]
      /\ UNCHANGED <<filesMap, repository, records, beaten, adrift>>
  BY DEF Stage, Staged, Saving
<1>2. /\ r \in CallType
      /\ r.step = "staged"
      /\ r.contents = call[c].contents
      /\ r.left = {}
      /\ r.written = {}
  BY DEF Inv, Typed, At, CallType
<1> HIDE DEF r
<1>3. /\ call' \in [Calls -> CallType]
      /\ call'[c] = r
      /\ \A d \in Calls \ {c} : call'[d] = call[d]
  BY <1>1, <1>2, OneMoves
<1>4. Typed'
  BY <1>1, <1>3 DEF Inv, Typed
<1>5. Shaped'
  <2> SUFFICES ASSUME NEW d \in Calls
               PROVE  /\ call'[d].step = "checkout" => call'[d].contents \in commits'
                      /\ call'[d].step = "set" =>
                            call'[d].contents \in Trees /\ call'[d].left \subseteq Files
                      /\ call'[d].step \in {"staged", "kept"} =>
                            call'[d].left = {} /\ call'[d].written = {}
                      /\ call'[d].step = "stage" =>
                            \A p \in call'[d].left \cup call'[d].written :
                                call'[d].contents[p] # 0
                      /\ \A p, q \in call'[d].written : p = q
    BY DEF Shaped
  <2>1. CASE d = c
    BY <1>2, <1>3, <2>1
  <2>2. CASE d # c
    BY <1>1, <1>3, <2>2 DEF Inv, Shaped
  <2> QED
    BY <2>1, <2>2
<1>6. \A d \in Calls, f \in Files : Carries(d, f)' <=> Carries(d, f) /\ d # c
  BY <1>2, <1>3 DEF Carries, Saving
<1>7. \A d \in Calls : Resetting(d)' => Resetting(d) /\ d # c
  BY <1>2, <1>3 DEF Resetting
<1>8. ResetsKnow'
  BY <1>1, <1>6, <1>7 DEF Inv, ResetsKnow
<1>9. Arrived' /\ ResetReads'
  BY <1>1, <1>2, <1>3 DEF Inv, Arrived, ResetReads, Leaves, Writes
<1>10. Kept'
  BY <1>1, <1>2, <1>3 DEF Inv, Kept
<1>11. OnItsWay'
  <2> SUFFICES ASSUME NEW f \in Files, f \notin adrift'
               PROVE  Way(f)'
    BY DEF OnItsWay
  <2>1. PICK v \in Versions : WayOf(f, v)
    BY <1>1 DEF Inv, OnItsWay, Way
  <2> QED
    BY <1>1, <1>3, <1>6, <2>1, WayStays DEF Way
<1> QED
  BY <1>4, <1>5, <1>8, <1>9, <1>10, <1>11 DEF Inv

LEMMA CommitKeeps ==
  ASSUME Inv, NEW c \in Calls, Commit(c)
  PROVE  Inv'
<1> USE DEF repository
<1> DEFINE r == At("kept", call[c].contents, {}, {}, TRUE)
<1>1. /\ call[c].step = "stage"
      /\ call[c].left = {}
      /\ call[c].written = {}
      /\ head' = index
      /\ commits' = commits \cup {index}
      /\ call' = [call EXCEPT ![c] = r]
      /\ Beats(Resets, Files)
      /\ UNCHANGED <<filesMap, tree, index, records, adrift>>
  BY DEF Commit, Staged, Saving
<1>2. /\ r \in CallType
      /\ r.step = "kept"
      /\ r.contents = call[c].contents
      /\ r.left = {}
      /\ r.written = {}
  BY DEF Inv, Typed, At, CallType
<1> HIDE DEF r
<1>3. /\ call' \in [Calls -> CallType]
      /\ call'[c] = r
      /\ \A d \in Calls \ {c} : call'[d] = call[d]
  BY <1>1, <1>2, OneMoves
<1>4. /\ beaten' \in [Calls -> SUBSET Files]
      /\ \A d \in Calls : beaten[d] \subseteq beaten'[d]
      /\ \A d \in Resets : beaten'[d] = Files
  BY <1>1 DEF Inv, Typed, Beats, Resets
<1>5. Typed'
  BY <1>1, <1>3, <1>4 DEF Inv, Typed
<1>6. Shaped'
  BY <1>1, <1>2, <1>3 DEF Inv, Shaped
<1>7. \A d \in Calls, f \in Files : Carries(d, f)' <=> Carries(d, f) /\ d # c
  BY <1>2, <1>3 DEF Carries, Saving
<1>8. \A d \in Calls : Resetting(d)' => Resetting(d) /\ d # c /\ d \in Resets
  BY <1>2, <1>3 DEF Resetting, Resets
<1>9. ResetsKnow'
  BY <1>1, <1>4, <1>7, <1>8 DEF Inv, ResetsKnow
<1>10. Arrived'
  BY <1>1, <1>2, <1>3, <1>4 DEF Inv, Arrived, Leaves, Writes
<1>11. Kept'
  <2> SUFFICES ASSUME NEW d \in Calls, call'[d].step = "kept", NEW f \in Files,
                      Held(call'[d].contents, f) # {}, f \notin beaten'[d]
               PROVE  index[f] \in Held(call'[d].contents, f)
    BY <1>1 DEF Kept
  <2>1. f \notin beaten[d]
    BY <1>4
  <2>2. CASE d = c
    BY <1>1, <1>2, <1>3, <2>1, <2>2 DEF Inv, Arrived, Leaves, Writes
  <2>3. CASE d # c
    BY <1>3, <2>1, <2>3 DEF Inv, Shaped, Arrived, Leaves, Writes
  <2> QED
    BY <2>2, <2>3
<1>12. ResetReads'
  BY <1>4, <1>8 DEF ResetReads, Resetting
<1>13. OnItsWay'
  <2> SUFFICES ASSUME NEW f \in Files, f \notin adrift'
               PROVE  Way(f)'
    BY DEF OnItsWay
  <2>1. PICK v \in Versions : WayOf(f, v)
    BY <1>1 DEF Inv, OnItsWay, Way
  <2>2. /\ ToWrite(f) => ToWrite(f)'
        /\ ToAdd(f) => ToAdd(f)'
    BY <1>1, <1>3, <1>7 DEF ToWrite, ToAdd, Leaves, Writes
  <2>3. ToWrite(f)' \/ ToAdd(f)' => ToCommit(f)'
    BY DEF ToWrite, ToAdd, ToCommit
  <2>4. \A d \in Calls \ {c} : Writes(d, f)' <=> Writes(d, f)
    BY <1>3 DEF Writes
  <2>5. WayOf(f, v)'
    BY <1>1, <1>3, <1>7, <2>1, <2>2, <2>3, <2>4 DEF WayOf
  <2> QED
    BY <2>5 DEF Way
<1> QED
  BY <1>5, <1>6, <1>9, <1>10, <1>11, <1>12, <1>13 DEF Inv

-----------------------------------------------------------------------------
(* Resets *)

\* Call c goes on with a reset, as r.
GoesOn(c, r) ==
    /\ r \in CallType
    /\ r.step \in {"checkout", "read", "set"}
    /\ call' = [call EXCEPT ![c] = r]

\* What it carried it carries no more, and the others what they did.
LEMMA ResetCarries ==
  ASSUME Inv, NEW c \in Calls, NEW r, GoesOn(c, r)
  PROVE  /\ call' \in [Calls -> CallType]
         /\ call'[c] = r
         /\ \A d \in Calls \ {c} : call'[d] = call[d]
         /\ Resetting(c)'
         /\ \A d \in Calls, f \in Files : Carries(d, f)' => Carries(d, f) /\ d # c
         /\ \A d \in Calls : Resetting(d) => d \in Made
<1>1. /\ call' \in [Calls -> CallType]
      /\ call'[c] = r
      /\ \A d \in Calls \ {c} : call'[d] = call[d]
  BY OneMoves DEF GoesOn
<1> QED
  BY <1>1 DEF GoesOn, Resetting, Carries, Saving, Made

LEMMA ResetKeeps ==
  ASSUME Inv, NEW c \in Calls, NEW target \in commits, Reset(c, target)
  PROVE  Inv'
<1> DEFINE r == At("checkout", target, {}, {}, FALSE)
<1>1. /\ call[c].step = "new"
      /\ target \in commits
      /\ head' = target
      /\ call' = [call EXCEPT ![c] = r]
      /\ adrift' = Files
      /\ UNCHANGED <<filesMap, tree, index, commits, records>>
  BY DEF Reset
<1>2. /\ r \in CallType
      /\ r.step = "checkout"
      /\ r.contents = target
      /\ r.written = {}
  BY <1>1 DEF Inv, Typed, Trees, At, CallType
<1> HIDE DEF r
<1>3. /\ call' \in [Calls -> CallType]
      /\ call'[c] = r
      /\ \A d \in Calls \ {c} : call'[d] = call[d]
      /\ Resetting(c)'
      /\ \A d \in Calls, f \in Files : Carries(d, f)' => Carries(d, f) /\ d # c
      /\ \A d \in Calls : Resetting(d) => d \in Made
  <2>1. GoesOn(c, r)
    BY <1>1, <1>2 DEF GoesOn
  <2> QED
    BY <2>1, ResetCarries
<1>4. /\ beaten' \in [Calls -> SUBSET Files]
      /\ \A f \in Files : (\E e \in Calls : Carries(e, f)) => f \in beaten'[c]
      /\ \A d \in Made \ {c} : beaten'[d] = Files
      /\ \A d \in Calls \ {c} : beaten[d] \subseteq beaten'[d]
  BY DEF Reset, Moved, Inv, Typed, Made
<1>5. Typed'
  BY <1>1, <1>3, <1>4 DEF Inv, Typed
<1>6. Shaped'
  BY <1>1, <1>2, <1>3 DEF Inv, Shaped
<1>7. ResetsKnow'
  <2> SUFFICES ASSUME NEW d \in Calls, Resetting(d)', NEW e \in Calls,
                      NEW f \in Files, Carries(e, f)'
               PROVE  f \in beaten'[d]
    BY <1>1 DEF ResetsKnow
  <2>1. CASE d = c
    BY <1>3, <1>4, <2>1
  <2>2. CASE d # c
    BY <1>3, <1>4, <2>2 DEF Resetting
  <2> QED
    BY <2>1, <2>2
<1>8. \A d \in Calls : call[d].step \in {"stage", "staged", "kept"} => d \in Made
  BY DEF Made
<1>9. Arrived' /\ Kept'
  BY <1>2, <1>3, <1>4, <1>8 DEF Inv, Arrived, Kept
<1>10. ResetReads'
  <2>1. \A d \in Calls \ {c} : Resetting(d)' => beaten'[d] = Files
    BY <1>3, <1>4 DEF Resetting
  <2> QED
    BY <1>2, <1>3, <2>1 DEF ResetReads, Resetting
<1>11. OnItsWay'
  BY <1>1 DEF OnItsWay
<1> QED
  BY <1>5, <1>6, <1>7, <1>9, <1>10, <1>11 DEF Inv

LEMMA ResetNowhereKeeps ==
  ASSUME Inv, NEW c \in Calls, ResetNowhere(c)
  PROVE  Inv'
<1>1. /\ call[c].step = "new"
      /\ head' = NoFiles
      /\ call' = [call EXCEPT ![c] = Over]
      /\ adrift' = Files
      /\ UNCHANGED <<filesMap, tree, index, commits, records>>
  BY DEF ResetNowhere
<1>2. /\ call' \in [Calls -> CallType]
      /\ call'[c] = Over
      /\ \A d \in Calls \ {c} : call'[d] = call[d]
  BY <1>1, OverIdle, OneMoves
<1>3. /\ beaten' \in [Calls -> SUBSET Files]
      /\ \A d \in Made \ {c} : beaten'[d] = Files
      /\ \A d \in Calls \ {c} : beaten[d] \subseteq beaten'[d]
  BY DEF ResetNowhere, Moved, Inv, Typed, Made
<1>4. Typed'
  BY <1>1, <1>2, <1>3 DEF Inv, Typed
<1>5. Shaped'
  BY <1>1, <1>2, OverIdle DEF Inv, Shaped
<1>6. \A d \in Calls : call'[d].step \notin {"new", "over"} => beaten'[d] = Files
  BY <1>2, <1>3, OverIdle DEF Made
<1>7. ResetsKnow'
  BY <1>1, <1>6 DEF ResetsKnow, Resetting
<1>8. Arrived' /\ Kept' /\ ResetReads'
  BY <1>6 DEF Arrived, Kept, ResetReads
<1>9. OnItsWay'
  BY <1>1 DEF OnItsWay
<1> QED
  BY <1>4, <1>5, <1>7, <1>8, <1>9 DEF Inv

LEMMA CheckoutKeeps ==
  ASSUME Inv, NEW c \in Calls, Checkout(c)
  PROVE  Inv'
<1> DEFINE r == At("read", NoFiles, {}, {}, FALSE)
<1>1. /\ call[c].step = "checkout"
      /\ head' = call[c].contents
      /\ index' = call[c].contents
      /\ call' = [call EXCEPT ![c] = r]
      /\ Beats(Made \ {c}, Files)
      /\ UNCHANGED <<filesMap, commits, records, adrift>>
  BY DEF Checkout
<1>2. /\ r \in CallType
      /\ r.step = "read"
      /\ r.left = {}
      /\ r.written = {}
  BY NoFilesType DEF At, CallType
<1> HIDE DEF r
<1>3. /\ call' \in [Calls -> CallType]
      /\ call'[c] = r
      /\ \A d \in Calls \ {c} : call'[d] = call[d]
      /\ Resetting(c)'
      /\ \A d \in Calls, f \in Files : Carries(d, f)' => Carries(d, f) /\ d # c
      /\ \A d \in Calls : Resetting(d) => d \in Made
  <2>1. GoesOn(c, r)
    BY <1>1, <1>2 DEF GoesOn
  <2> QED
    BY <2>1, ResetCarries
<1>4. /\ beaten' \in [Calls -> SUBSET Files]
      /\ \A d \in Made \ {c} : beaten'[d] = Files
      /\ \A d \in Calls : beaten[d] \subseteq beaten'[d]
  BY <1>1 DEF Inv, Typed, Beats, Made
<1>5. /\ call[c].contents \in commits
      /\ adrift = Files
      /\ call[c].contents \in Trees
      /\ Resetting(c)
  BY <1>1 DEF Inv, Typed, Shaped, ResetsKnow, Resetting, CallType
<1>6. tree' \in Trees
  BY <1>5, PathFacts DEF Checkout, Inv, Typed, Trees, Contents
<1>7. Typed'
  BY <1>1, <1>3, <1>4, <1>5, <1>6 DEF Inv, Typed
<1>8. Shaped'
  BY <1>1, <1>2, <1>3 DEF Inv, Shaped
<1>9. ResetsKnow'
  <2>1. \A d \in Calls : Resetting(d)' => Resetting(d)
    BY <1>3, <1>5 DEF Resetting
  <2> QED
    BY <1>1, <1>3, <1>4, <1>5, <2>1 DEF Inv, ResetsKnow
<1>10. \A d \in Calls : call[d].step \in {"stage", "staged", "kept"} => d \in Made
  BY DEF Made
<1>11. Arrived' /\ Kept'
  BY <1>2, <1>3, <1>4, <1>10 DEF Inv, Arrived, Kept
<1>12. ResetReads'
  <2>1. \A d \in Calls \ {c} : Resetting(d)' => beaten'[d] = Files
    BY <1>3, <1>4 DEF Resetting
  <2> QED
    BY <1>1, <1>2, <1>3, <2>1 DEF ResetReads, Resetting
<1>13. OnItsWay'
  BY <1>1, <1>5 DEF OnItsWay
<1> QED
  BY <1>7, <1>8, <1>9, <1>11, <1>12, <1>13 DEF Inv

LEMMA ReadHeadKeeps ==
  ASSUME Inv, NEW c \in Calls, NEW unread \in SUBSET Files, ReadHead(c, unread)
  PROVE  Inv'
<1> USE DEF repository
<1> DEFINE contents == [p \in Paths |-> IF p \in unread THEN 0 ELSE head[p]]
           r == At("set", contents, unread, {}, FALSE)
<1>1. /\ call[c].step = "read"
      /\ call' = [call EXCEPT ![c] = r]
      /\ UNCHANGED <<filesMap, repository, records, beaten, adrift>>
  BY DEF ReadHead
<1>2. /\ contents \in Trees
      /\ \A f \in Files \ unread : contents[f] = head[f]
  <2>1. head \in Trees /\ 0 \in Versions
    BY MaxRecordsAssumption, NoFilesType DEF Inv, Typed, Versions
  <2> QED
    BY <2>1, PathFacts DEF Trees, Contents
<1> HIDE DEF contents
<1>3. /\ r \in CallType
      /\ r.step = "set"
      /\ r.left = unread
      /\ r.contents = contents
      /\ r.written = {}
  BY <1>2, PathFacts DEF At, CallType, Trees
<1> HIDE DEF r
<1>4. /\ call' \in [Calls -> CallType]
      /\ call'[c] = r
      /\ \A d \in Calls \ {c} : call'[d] = call[d]
      /\ Resetting(c)'
      /\ \A d \in Calls, f \in Files : Carries(d, f)' => Carries(d, f) /\ d # c
  <2>1. GoesOn(c, r)
    BY <1>1, <1>3 DEF GoesOn
  <2> QED
    BY <2>1, ResetCarries
<1>5. Resetting(c) /\ adrift = Files
  BY <1>1 DEF Inv, ResetsKnow, Resetting
<1>6. Typed'
  BY <1>1, <1>4 DEF Inv, Typed
<1>7. Shaped'
  BY <1>1, <1>2, <1>3, <1>4 DEF Inv, Shaped
<1>8. ResetsKnow'
  <2>1. \A d \in Calls : Resetting(d)' => Resetting(d)
    BY <1>4, <1>5 DEF Resetting
  <2> QED
    BY <1>1, <1>4, <1>5, <2>1 DEF Inv, ResetsKnow
<1>9. Arrived' /\ Kept'
  BY <1>1, <1>3, <1>4 DEF Inv, Arrived, Kept, Leaves, Writes
<1>10. ResetReads'
  BY <1>1, <1>2, <1>3, <1>4 DEF Inv, ResetReads
<1>11. OnItsWay'
  BY <1>1, <1>5 DEF OnItsWay
<1> QED
  BY <1>6, <1>7, <1>8, <1>9, <1>10, <1>11 DEF Inv

LEMMA SetMapKeeps ==
  ASSUME Inv, NEW c \in Calls, SetMap(c)
  PROVE  Inv'
<1> USE DEF repository
<1>1. /\ call[c].step = "set"
      /\ filesMap' = call[c].contents
      /\ call' = [call EXCEPT ![c] = Over]
      /\ adrift' = IF Resets = {c} THEN beaten[c] \cup call[c].left ELSE Files
      /\ UNCHANGED <<tree, index, head, commits, records, beaten>>
  BY DEF SetMap, Synced
<1>2. /\ call' \in [Calls -> CallType]
      /\ call'[c] = Over
      /\ \A d \in Calls \ {c} : call'[d] = call[d]
  BY <1>1, OverIdle, OneMoves
<1>3. /\ call[c].contents \in Trees
      /\ call[c].contents \in Contents
      /\ beaten[c] \in SUBSET Files
      /\ call[c].left \in SUBSET Files
  BY <1>1 DEF Inv, Typed, Shaped, CallType
<1>4. Typed'
  <2>1. adrift' \in SUBSET Files
    BY <1>1, <1>3
  <2> QED
    BY <1>1, <1>2, <1>3, <2>1 DEF Inv, Typed
<1>5. Shaped'
  BY <1>1, <1>2, OverIdle DEF Inv, Shaped
<1>6. \A d \in Calls, f \in Files : Carries(d, f)' => Carries(d, f) /\ d # c
  BY <1>2, OverIdle DEF Carries, Saving
<1>7. \A d \in Calls : Resetting(d)' => Resetting(d) /\ d # c
  BY <1>2, OverIdle DEF Resetting
<1>8. ResetsKnow'
  <2>1. \A d \in Calls : Resetting(d)' => adrift' = Files
    BY <1>1, <1>7 DEF Resets
  <2> QED
    BY <1>1, <1>6, <1>7, <2>1 DEF Inv, ResetsKnow
<1>9. Arrived' /\ ResetReads'
  BY <1>1, <1>2, OverIdle DEF Inv, Arrived, ResetReads, Leaves, Writes
<1>10. Kept'
  BY <1>1, <1>2, OverIdle DEF Inv, Kept
<1>11. OnItsWay'
  <2> SUFFICES ASSUME NEW f \in Files, f \notin adrift'
               PROVE  Way(f)'
    BY DEF OnItsWay
  <2>1. f \notin beaten[c] /\ f \notin call[c].left
    BY <1>1
  <2>2. call[c].contents[f] = head[f] /\ index[f] = head[f]
    BY <1>1, <2>1 DEF Inv, ResetReads
  <2>3. \A d \in Calls : ~Carries(d, f)
    BY <1>1, <2>1 DEF Inv, ResetsKnow, Resetting
  <2>4. PICK v \in Versions : v = head[f]
    BY NoFilesType, PathFacts DEF Inv, Typed, Trees, Contents
  <2>5. Held(filesMap', f) = {v} \ {0}
    BY <1>1, <1>3, <2>2, <2>4, HeldInTree
  <2>6. WayOf(f, v)'
    BY <1>1, <1>6, <2>2, <2>3, <2>4, <2>5 DEF WayOf
  <2> QED
    BY <2>6 DEF Way
<1> QED
  BY <1>4, <1>5, <1>8, <1>9, <1>10, <1>11 DEF Inv

-----------------------------------------------------------------------------
(* The theorems *)

LEMMA NextKeeps ==
  ASSUME Inv, [Next]_vars
  PROVE  Inv'
<1>1. ASSUME NEW ps \in SUBSET Paths \ {{}}, RecordOnly(ps) \/ Delete(ps)
      PROVE  Inv'
  BY <1>1, RecordOnlyKeeps, DeleteKeeps
<1>2. ASSUME NEW c \in Calls, NEW ps \in SUBSET Paths \ {{}},
             NEW message \in BOOLEAN, Save(c, ps, message)
      PROVE  Inv'
  BY <1>2, SaveKeeps
<1>3. ASSUME NEW c \in Calls,
             \/ SaveAll(c) \/ CommitIndex(c) \/ Add(c) \/ Stage(c) \/ Commit(c)
             \/ NothingToCommit(c) \/ ResetNowhere(c) \/ Checkout(c) \/ SetMap(c)
             \/ Fail(c)
      PROVE  Inv'
  BY <1>3, SaveAllKeeps, CommitIndexKeeps, AddKeeps, StageKeeps, CommitKeeps,
     NothingToCommitKeeps, ResetNowhereKeeps, CheckoutKeeps, SetMapKeeps, FailKeeps
<1>4. ASSUME NEW c \in Calls, NEW p \in Paths, Write(c, p)
      PROVE  Inv'
  BY <1>4, WriteKeeps
<1>5. ASSUME NEW c \in Calls, NEW target \in commits, Reset(c, target)
      PROVE  Inv'
  BY <1>5, ResetKeeps
<1>6. ASSUME NEW c \in Calls, NEW unread \in SUBSET Files, ReadHead(c, unread)
      PROVE  Inv'
  BY <1>6, ReadHeadKeeps
<1>7. CASE UNCHANGED vars
  <2>1. UNCHANGED <<filesMap, tree, index, head, commits, records, call, beaten, adrift>>
    BY <1>7 DEF vars, repository
  <2>2. Typed' /\ Shaped' /\ Arrived' /\ Kept' /\ ResetReads'
    BY <2>1 DEF Inv, Typed, Shaped, Arrived, Kept, ResetReads, Leaves, Writes
  <2>3. ResetsKnow'
    BY <2>1 DEF Inv, ResetsKnow, Carries, Saving, Resetting
  <2>4. OnItsWay'
    <3> SUFFICES ASSUME NEW f \in Files, f \notin adrift'
                 PROVE  Way(f)'
      BY DEF OnItsWay
    <3>1. PICK v \in Versions : WayOf(f, v)
      BY <2>1 DEF Inv, OnItsWay, Way
    <3>2. \A d \in Calls : Carries(d, f)' <=> Carries(d, f)
      BY <2>1 DEF Carries, Saving
    <3> QED
      BY <2>1, <3>1, <3>2, WayStays DEF Way
  <2> QED
    BY <2>2, <2>3, <2>4 DEF Inv
<1> QED
  BY <1>1, <1>2, <1>3, <1>4, <1>5, <1>6, <1>7 DEF Next

\* The invariant: what was saved is where it was brought, or on its way.
THEOREM Invariance == Spec => []Inv
<1>1. Init => Inv
  BY InitInv
<1>2. Inv /\ [Next]_vars => Inv'
  BY NextKeeps
<1> QED
  BY <1>1, <1>2, PTL DEF Spec

\* The types hold, git has no file under a path with a leading '/', and HEAD has the
\* files of a commit that was made, or none.
THEOREM TypeCorrect == Spec => []TypeOK
<1>1. Inv => TypeOK
  BY Types DEF Inv
<1> QED
  BY <1>1, Invariance, PTL

\* No save and no commit undoes what another one has committed.
THEOREM CommitsAreKept == Spec => []CommitsKept
<1>1. Inv => CommitsKept
  BY KeptIs DEF Inv
<1> QED
  BY <1>1, Invariance, PTL

\* What was staged waits for the next commit.
THEOREM StagedIsKept == Spec => []StagedKept
<1>1. ASSUME Inv, NEW c \in Calls, call[c].step = "staged",
             NEW f \in FilesOf(Names(call[c].contents)), f \notin beaten[c]
      PROVE  index[f] \in Held(call[c].contents, f)
  <2>1. f \in Files
    BY PathFacts DEF FilesOf, Names
  <2>2. Held(call[c].contents, f) # {}
    BY NamesHeld
  <2>3. ~Leaves(c, f) /\ ~Writes(c, f)
    BY <1>1 DEF Inv, Shaped, Leaves, Writes
  <2> QED
    BY <1>1, <2>1, <2>2, <2>3 DEF Inv, Arrived
<1>2. Inv => StagedKept
  BY <1>1 DEF StagedKept
<1> QED
  BY <1>2, Invariance, PTL

\* Map and HEAD agree on every file outside the situations that set it adrift,
\* whichever path the map has it under.
THEOREM MapAgrees == Spec => []Agree
<1>1. ASSUME Inv, NEW f \in Files \ adrift, \A c \in Calls : ~Carries(c, f)
      PROVE  Held(filesMap, f) = {head[f]} \ {0}
  BY <1>1 DEF Inv, OnItsWay, Way, WayOf, ToCommit
<1>2. Inv => Agree
  BY <1>1 DEF Agree
<1> QED
  BY <1>2, Invariance, PTL
=============================================================================
