------------------------------ MODULE SearchFile ------------------------------
(* C/search_file: the entries of the current directory are read one after    *)
(* the other until one has the name that is looked for.  A name that is not  *)
(* a file where the process is by now is given to chdir, and the rest of the *)
(* entries is looked up in the directory the process went to.                *)
EXTENDS Naturals, FiniteSets, SequencesExt

CONSTANTS
  Wanted,    \* file_path
  Others,    \* other names of entries
  MaxLinks   \* bound on the symbolic links among the entries

Names == Others \union {Wanted}
Inner == {<<d, n>> : d \in Others, n \in Names}
Paths == {<<n>> : n \in Names} \union Inner
Null == <<"(null)">>
Nothing == <<>>

VARIABLES
  tree,      \* path to "file" or "dir", for what there is
  link,      \* path of a symbolic link to the path it leads to in the end,
             \* Null for one that leads nowhere
  dir,       \* the directory stream: "closed", "open" or "failed"
  entries,   \* what readdir has yet to return
  cwd,       \* the directory the process is in, <<>> at first
  result     \* what was printed: a path, or <<>> for nothing
findVars == <<tree, link, dir, entries, cwd, result>>

Trees == UNION {[P -> {"file", "dir"}] : P \in SUBSET Paths}
IsDir(t, p) == p \in DOMAIN t /\ t[p] = "dir"
\* What is in a directory has the directory there too.
Placed(P, t) == \A p \in P \cap Inner : p[1] # p[2] /\ IsDir(t, <<p[1]>>)
Links(t) ==
  UNION {[P -> DOMAIN t \union {Null}] :
           P \in {P \in SUBSET (Paths \ DOMAIN t) :
                   Cardinality(P) <= MaxLinks /\ Placed(P, t)}}
There == DOMAIN tree \union DOMAIN link
Init ==
  /\ tree \in {t \in Trees : Placed(DOMAIN t, t)}
  /\ link \in Links(tree)
  /\ entries \in SetToSeqs({n \in Names : <<n>> \in There})
  /\ dir = "closed" /\ cwd = <<>> /\ result = Nothing

Opendir ==
  /\ dir = "closed"
  /\ dir' \in {"open", "failed"}
  /\ UNCHANGED <<tree, link, entries, cwd, result>>

Resolve(p) == IF p \in DOMAIN link THEN link[p]
              ELSE IF p \in DOMAIN tree THEN p ELSE Null

\* Mutant: the name behind the current directory, whether it is there or not.
RealpathUnchecked(name) == Append(cwd, name)
Realpath(name) == Resolve(Append(cwd, name))

Reads == dir = "open" /\ result = Nothing /\ entries # <<>>
\* printf is given NULL for a path that leads nowhere.
Found ==
  /\ Reads /\ Head(entries) = Wanted
  /\ result' = Realpath(Wanted)
  /\ entries' = <<>>
  /\ UNCHANGED <<tree, link, dir, cwd>>
\* is_file compares the result of stat, 0 or -1, with whether it is a
\* directory: only a file is one.  chdir may refuse a directory, and nobody
\* asks whether it did.
Enters(p) == IsDir(tree, Resolve(p))
Other ==
  /\ Reads /\ Head(entries) # Wanted
  /\ \/ UNCHANGED cwd
     \/ /\ Enters(Append(cwd, Head(entries)))
        /\ cwd' = Resolve(Append(cwd, Head(entries)))
  /\ entries' = Tail(entries)
  /\ UNCHANGED <<tree, link, dir, result>>
Next == Opendir \/ Found \/ Other
Spec == Init /\ [][Next]_findVars

-----------------------------------------------------------------------------
TypeOK ==
  /\ ToSet(entries) \subseteq Names /\ dir \in {"closed", "open", "failed"}
  /\ cwd = <<>> \/ IsDir(tree, cwd)
  /\ result \in Paths \union {Nothing, Null}

(* However directories and links among the other entries have moved the      *)
(* process: an entry of the first directory with the name is never passed    *)
(* over in silence, a path that is printed leads to something that has the   *)
(* name or to what a link with the name leads to, and where no other entry   *)
(* is a directory it is the path of the entry itself (search_file.c:51-70).  *)
AnswerIsThere ==
  dir = "open" /\ entries = <<>> =>
    /\ <<Wanted>> \in There <=> result # Nothing
    /\ result \notin {Nothing, Null} =>
         /\ result \in DOMAIN tree
         /\ \/ Last(result) = Wanted
            \/ \E p \in DOMAIN link : Last(p) = Wanted /\ link[p] = result
    /\ result # Nothing /\ (\A d \in Others : ~Enters(<<d>>)) =>
         result = Resolve(<<Wanted>>)
================================================================================
