-------------------------- MODULE MCGeneratedFiles --------------------------
(* GeneratedFiles on a small instance: two files, each of which may also be  *)
(* given with a leading '/'.                                                 *)
EXTENDS GeneratedFiles, TLC

CONSTANTS a, b, slashA, slashB

WithoutSlash == (a :> a) @@ (slashA :> a) @@ (b :> b) @@ (slashB :> b)

\* Calls are interchangeable, and so are the files, each with its two paths.
Exchange == (a :> b) @@ (b :> a) @@ (slashA :> slashB) @@ (slashB :> slashA)

Interchange == Permutations(Calls) \cup {Exchange}

\* Two files under their paths in git, or one with its slash and without it.
InUse(p) == filesMap[p] # 0 \/ \E c \in Calls : call[c].contents[p] # 0

OneSlashed ==
    \A p \in {slashA, slashB} : InUse(p) =>
        \A q \in Paths : InUse(q) => WithoutSlash[q] = WithoutSlash[p]
=============================================================================
