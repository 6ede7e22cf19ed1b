------------------------------- MODULE Handles -------------------------------
(***************************************************************************)
(* Names and objects: the lookups of src/tr/handle.py.  The data model is  *)
(* a tree of exported objects, lists, list items and parameters, some of   *)
(* whose objects are made anew whenever they are accessed.  LookupExports  *)
(* serves the names of one RPC and keeps what it has walked through, so    *)
(* that all parameters of an object come from one instance of it.          *)
(*                                                                         *)
(* A name is the sequence of its parts.  The name of an object ends in a   *)
(* dot: its last part is empty, for which Dot stands.                      *)
(***************************************************************************)
EXTENDS Naturals, Sequences, FiniteSets

CONSTANTS
  AllObjects,  \* the paths that objects, lists and items may have
  Params,      \* the names that parameters may have
  Virtual,     \* the paths of objects that are new at every access
  MaxDepth,    \* bound: parts of a path
  MaxNames     \* bound: names of an RPC

VARIABLES
  tree,     \* the paths of the objects, lists and items that exist
  params,   \* the parameters that exist: <<path of the object, name>>
  cache,    \* path -> the instance walked to; 0: none; 1: the one there is
  made,     \* a number that no instance has yet
  results,  \* the handles and parameters yielded
  failed    \* a KeyError ended the lookup

vars == <<tree, params, cache, made, results, failed>>

Root == <<>>
Dot == "."
Parent(path) == SubSeq(path, 1, Len(path) - 1)

Parts == UNION {{p[i] : i \in DOMAIN p} : p \in AllObjects}

\* What is assumed of the constants.
HandlesAssumption ==
  /\ AllObjects \subseteq Seq(Parts) \ {Root}
  /\ \A p \in AllObjects :
       Len(p) <= MaxDepth /\ \A i \in 1..Len(p) : SubSeq(p, 1, i) \in AllObjects
  /\ Dot \notin Params /\ MaxDepth \in Nat

\* The path of the part of a name before its last dot, and what follows it.
Path(name) == Parent(name)
Param(name) == name[Len(name)]

-----------------------------------------------------------------------------
\* The references that the algorithms are compared with.
Children(path) == {p \in tree : p # Root /\ Parent(p) = path}
Descendants(path) ==
  {p \in tree : Len(p) > Len(path) /\ SubSeq(p, 1, Len(path)) = path}

\* FindExport walks from the root and needs every part but the last.
FindExport(name) == \A i \in 0..(Len(name) - 1) : SubSeq(name, 1, i) \in tree

GetExport(name) ==
  FindExport(name) /\ (name \in tree \/ <<Parent(name), Param(name)>> \in params)

Exported(path) ==
  {path \o <<q[2]>> : q \in {q \in params : q[1] = path}}
    \cup {c \o <<Dot>> : c \in Children(path)}

\* ListExports: an object's parameters, then its objects and, if recursive,
\* what they list.  Names of objects end in a dot.
Listing ==
  LET list[depth \in 0..MaxDepth] ==
        [path \in tree |->
           Exported(path) \cup
             IF depth = 0 THEN {} ELSE UNION {list[depth - 1][c] : c \in Children(path)}]
  IN list

\* Mutation: what the listed objects list is listed, but not what that lists.
ListTwoLevels(path, recursive) == Listing[IF recursive THEN 1 ELSE 0][path]

ListExports(path, recursive) == Listing[IF recursive THEN MaxDepth ELSE 0][path]

-----------------------------------------------------------------------------
\* The longest part of a path that is cached.
CachedPrefix(path) ==
  LET cached == {i \in 0..Len(path) : cache[SubSeq(path, 1, i)] # 0}
  IN CHOOSE i \in cached : \A j \in cached : j <= i

\* Mutation: the walk starts from the root, whatever is cached.
FromTheRoot(path) == 0

\* Where the walk along a path starts.
WalkFrom(path) == CachedPrefix(path)

\* The object at a path: made anew if it, or one above it, is virtual.
Instance(path, i) ==
  IF \E j \in 1..i : SubSeq(path, 1, j) \in Virtual THEN made + i ELSE 1

Init ==
  /\ tree \in {t \cup {Root} : t \in {t \in SUBSET AllObjects :
                                  \A p \in t : Parent(p) \in t \cup {Root}}}
  /\ params \in SUBSET (tree \X Params)
  /\ cache = [p \in AllObjects \cup {Root} |-> IF p = Root THEN 1 ELSE 0]
  /\ made = 1 /\ results = <<>> /\ failed = FALSE

\* The next name of LookupExports.  Sub makes an instance for each part that
\* is walked.  A part that is missing is a KeyError, after the parts before it.
Lookup(name) ==
  LET path == Path(name)
      from == WalkFrom(path)
      found == {i \in from..Len(path) : \A j \in (from + 1)..i : SubSeq(path, 1, j) \in tree}
      to == CHOOSE i \in found : \A j \in found : j <= i
      walked == {SubSeq(path, 1, i) : i \in (from + 1)..to}
      new == [p \in DOMAIN cache |-> IF p \in walked THEN Instance(path, Len(p)) ELSE cache[p]]
  IN /\ ~failed /\ Len(results) < MaxNames
     /\ cache' = new /\ made' = made + Len(path)
     /\ failed' = (to < Len(path))
     /\ results' = IF failed' THEN results
                   ELSE Append(results, [path |-> path, instance |-> new[path], param |-> Param(name)])
     /\ UNCHANGED <<tree, params>>

\* A name that a GetParameterNames has listed, or any other that the ACS
\* sends.
Next ==
  \E p \in AllObjects \cup {Root} : \E last \in Params \cup {Dot} : Lookup(p \o <<last>>)

Spec == Init /\ [][Next]_vars

-----------------------------------------------------------------------------
TypeOK ==
  /\ Root \in tree /\ params \subseteq tree \X Params
  /\ \A i \in DOMAIN results : results[i].path \in tree

\* All parameters of an object that one RPC names are looked up in the same
\* instance of it, in whatever order they are named and whatever objects are
\* named between them: their values fit together.  About LookupExports.
OneInstance ==
  \A i, j \in DOMAIN results :
    results[i].path = results[j].path => results[i].instance = results[j].instance

\* The listing names what exists and nothing else: every name that it gives
\* for an object is found, and every object and parameter below is listed
\* if it is recursive.  About ListExportsEx and FindExport.
ListsWhatIsFound ==
  \A path \in tree :
    /\ \A name \in ListExports(path, TRUE) :
         IF Param(name) = Dot THEN GetExport(Path(name)) ELSE GetExport(name)
    /\ ListExports(path, TRUE) =
         {p \o <<Dot>> : p \in Descendants(path)}
           \cup {q[1] \o <<q[2]>> : q \in {q \in params : q[1] \in Descendants(path) \cup {path}}}
=============================================================================
