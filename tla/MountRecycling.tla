---------------------------- MODULE MountRecycling ---------------------------
(***************************************************************************)
(* The removal of a container's mounts (resources/resources.go): the paths *)
(* are reduced to the topmost ones, and those under a configured prefix    *)
(* are removed with everything below them.                                 *)
(*                                                                         *)
(* minify and matchPrefix compare strings, not path elements, so a path is *)
(* a sequence of characters here: 0 is the separator, which sorts before   *)
(* the other characters of the instance.                                   *)
(***************************************************************************)
EXTENDS Naturals, Sequences, SequencesExt

CONSTANTS
    Paths,             \* paths that occur as mounts
    resPathPrefixes,   \* the configured prefixes
    MaxMounts          \* bound: mounts of a container

Slash == 0

VARIABLES
    mounts,    \* the argument of RecycleMounts
    todo,      \* the paths it still has to look at
    removed,   \* the paths it removed
    step, failed

recycleVars == <<mounts, todo, removed, step, failed>>

\* strings.HasPrefix and the order of sort.Strings.
HasPrefix(s, prefix) == Len(prefix) <= Len(s) /\ SubSeq(s, 1, Len(prefix)) = prefix

Less(s, t) ==
    \/ s # t /\ HasPrefix(t, s)
    \/ \E i \in 1 .. Len(s) : i <= Len(t) /\ s[i] < t[i] /\ SubSeq(s, 1, i - 1) = SubSeq(t, 1, i - 1)

matchPrefix(path) == \E prefix \in resPathPrefixes : HasPrefix(path, prefix)

\* One round of minify's loop: curr is the last path kept.
Keep(result, p) == IF HasPrefix(p, result[Len(result)]) THEN result ELSE Append(result, p)

minify(paths) ==
    IF paths = <<>> THEN paths
    ELSE LET sorted == SortSeq(paths, Less) IN FoldLeft(Keep, <<sorted[1]>>, Tail(sorted))

RecycleInit ==
    /\ mounts \in UNION {[1 .. n -> Paths] : n \in 0 .. MaxMounts}
    /\ todo = <<>>
    /\ removed = {}
    /\ step = "minify"
    /\ failed = FALSE

Minify ==
    /\ step = "minify"
    /\ todo' = minify(mounts)
    /\ step' = "remove"
    /\ UNCHANGED <<mounts, removed, failed>>

\* A loop that a path outside the prefixes ends.
RecycleStops ==
    /\ step = "remove"
    /\ todo # <<>>
    /\ \/ /\ ~matchPrefix(todo[1])
          /\ todo' = <<>>
          /\ UNCHANGED <<removed, failed>>
       \/ /\ matchPrefix(todo[1])
          /\ removed' = removed \cup {todo[1]}
          /\ todo' = Tail(todo)
          /\ UNCHANGED failed
    /\ UNCHANGED <<mounts, step>>

\* The loop of RecycleMounts: os.RemoveAll may fail, and the next path is tried.
Recycle ==
    /\ step = "remove"
    /\ todo # <<>>
    /\ \/ /\ ~matchPrefix(todo[1])
          /\ UNCHANGED <<removed, failed>>
       \/ /\ matchPrefix(todo[1])
          /\ removed' = removed \cup {todo[1]}
          /\ UNCHANGED failed
       \/ /\ matchPrefix(todo[1])
          /\ failed' = TRUE
          /\ UNCHANGED removed
    /\ todo' = Tail(todo)
    /\ UNCHANGED <<mounts, step>>

RecycleNext == Minify \/ Recycle
RecycleSpec == RecycleInit /\ [][RecycleNext]_recycleVars

-----------------------------------------------------------------------------
\* p is q or lies below it.
Within(p, q) == p = q \/ HasPrefix(p, Append(q, Slash))

Mounts == {mounts[i] : i \in 1 .. Len(mounts)}

\* No mount's name is the beginning of another's that does not lie below it, such
\* as /a/1 and /a/12; minify takes the latter for a part of the former.
NamesApart == \A p, q \in Mounts : HasPrefix(p, q) => Within(p, q)

\* All mounts are recycled, in whatever order docker lists them and however they
\* are nested: when nothing failed, a mount that is below the configured prefixes
\* with all the mounts around it has been removed, alone or with one of those.
AllRecycled ==
    step = "remove" /\ todo = <<>> /\ ~failed /\ NamesApart =>
        \A p \in Mounts :
            (\A q \in Mounts : Within(p, q) => matchPrefix(q)) => \E q \in removed : Within(p, q)

\* Each tree is removed once: no path of the reduced list lies below another, so
\* that no removal works on what an earlier one has removed.
NoneNested == \A i, j \in 1 .. Len(todo) : i # j => ~Within(todo[i], todo[j])

\* Whatever the order of docker's list, minify keeps neither too few paths nor too many.
RecycledOnce == AllRecycled /\ NoneNested

=============================================================================
