---------------------------- MODULE PackageNesting ----------------------------
(***************************************************************************)
(* PureJavaSensor: rule CNE_05400 on the packages that checkJavaRules() has *)
(* collected.  checkVhdlPackage() calls itself for every package that uses  *)
(* the one it was called for; the names it is nested in are on the stack    *)
(* packagesHierarchy.  A package is a file (two files may have taken the    *)
(* same name), with the names of the packages it uses.  The files are       *)
(* numbered in the order in which the HashSet allVhdlPackages gives them.   *)
(***************************************************************************)
EXTENDS Naturals, Sequences

CONSTANTS
    N,          \* number of package files
    Names,      \* package names
    Limits,     \* values of the parameter Limit of CNE_05400
    Relations   \* values of its parameter Relation

Files == 1 .. N

ASSUME FilesAssumption == N \in Nat
ASSUME LimitsAssumption == Limits \subseteq Nat

VARIABLES
    name,       \* the package each file declares
    uses,       \* the packages it uses
    limit, relation,
    pc,         \* "roots", "enter", "loop", "done"
    root,       \* the next file execute() calls checkVhdlPackage() for
    arg,        \* the file and level of the call being made
    calls,      \* the calls that iterate: file, level, next file to look at
    hierarchy,  \* packagesHierarchy
    issues

project == <<name, uses, limit, relation>>
vars == <<project, pc, root, arg, calls, hierarchy, issues>>

-----------------------------------------------------------------------------
Args   == [file : Files, level : Nat]
Frames == [file : Files, level : Nat, next : 1 .. N + 1]
Kinds  == {"Too many nested packages", "Infinite loop"}
Issues == [kind : Kinds, file : Files, chain : Seq(Names)]

TypeOK ==
    /\ name \in [Files -> Names]
    /\ uses \in [Files -> SUBSET Names]
    /\ limit \in Limits
    /\ relation \in Relations
    /\ pc \in {"roots", "enter", "loop", "done"}
    /\ root \in 1 .. N + 1
    /\ pc = "enter" => arg \in Args
    /\ calls \in Seq(Frames)
    /\ hierarchy \in Seq(Names)
    /\ issues \subseteq Issues

\* intParamRelation(): a relation it does not know is taken for "=".
IntParamRelation(relates, value, lim) ==
    CASE relates = "<"  -> value < lim
      [] relates = "<=" -> value <= lim
      [] relates = ">"  -> value > lim
      [] relates = ">=" -> value >= lim
      [] OTHER          -> value = lim

\* A level that the rule accepts.
Related(level) == IntParamRelation(relation, level, limit)

\* File g is a user of package n; a package does not count as its own user.
User(g, n) == name[g] # n /\ n \in uses[g]

InHierarchy(n) == \E k \in DOMAIN hierarchy : hierarchy[k] = n

-----------------------------------------------------------------------------
Init ==
    /\ name \in [Files -> Names]
    /\ uses \in [Files -> SUBSET Names]
    /\ limit \in Limits
    /\ relation \in Relations
    /\ pc = "roots"
    /\ root = 1
    /\ arg = <<>>
    /\ calls = <<>>
    /\ hierarchy = <<>>
    /\ issues = {}

\* execute(): one call with level 0 for every package.
Call ==
    /\ pc = "roots" /\ root <= N
    /\ arg' = [file |-> root, level |-> 0]
    /\ root' = root + 1
    /\ pc' = "enter"
    /\ UNCHANGED <<project, calls, hierarchy, issues>>

AllCalled ==
    /\ pc = "roots" /\ root = N + 1
    /\ pc' = "done"
    /\ UNCHANGED <<project, root, arg, calls, hierarchy, issues>>

\* Mutant: only two packages that use each other are taken for a loop.
EnterAgain_pairs ==
    /\ pc = "enter" /\ InHierarchy(name[arg.file])
    /\ issues' = IF Len(hierarchy) # 2 THEN issues
                 ELSE issues \cup {[kind |-> "Infinite loop", file |-> arg.file,
                                    chain |-> hierarchy]}
    /\ pc' = IF calls = <<>> THEN "roots" ELSE "loop"
    /\ UNCHANGED <<project, root, arg, calls, hierarchy>>

\* The call finds its package in the hierarchy: an issue, and back.
EnterAgain ==
    /\ pc = "enter" /\ InHierarchy(name[arg.file])
    /\ issues' = issues \cup
          {[kind |-> "Infinite loop", file |-> arg.file, chain |-> hierarchy]}
    /\ pc' = IF calls = <<>> THEN "roots" ELSE "loop"
    /\ UNCHANGED <<project, root, arg, calls, hierarchy>>

\* It does not, pushes it, and begins to iterate over the packages.
Enter ==
    /\ pc = "enter" /\ ~InHierarchy(name[arg.file])
    /\ hierarchy' = Append(hierarchy, name[arg.file])
    /\ calls' = Append(calls, [file |-> arg.file, level |-> arg.level, next |-> 1])
    /\ pc' = "loop"
    /\ UNCHANGED <<project, root, arg, issues>>

Top == calls[Len(calls)]

\* The last call goes on to the next package, with this level.
Advanced(level) ==
    [calls EXCEPT ![Len(calls)] = [file |-> Top.file, level |-> level, next |-> Top.next + 1]]

\* The next package does not use this one.
NotNested ==
    /\ pc = "loop" /\ Top.next <= N /\ ~User(Top.next, name[Top.file])
    /\ calls' = Advanced(Top.level)
    /\ UNCHANGED <<project, pc, root, arg, hierarchy, issues>>

\* Mutant: the call is made with the level this one was made with.
Nested_levelKept ==
    /\ pc = "loop" /\ Top.next <= N /\ User(Top.next, name[Top.file])
    /\ calls' = Advanced(Top.level)
    /\ issues' = IF Related(Top.level + 1) THEN issues
                 ELSE issues \cup {[kind  |-> "Too many nested packages",
                                    file  |-> Top.file,
                                    chain |-> Append(hierarchy, name[Top.next])]}
    /\ arg' = [file |-> Top.next, level |-> Top.level]
    /\ pc' = "enter"
    /\ UNCHANGED <<project, root, hierarchy>>

\* Mutant: the level is compared before it is raised.
Nested_comparedFirst ==
    /\ pc = "loop" /\ Top.next <= N /\ User(Top.next, name[Top.file])
    /\ calls' = Advanced(Top.level + 1)
    /\ issues' = IF Related(Top.level) THEN issues
                 ELSE issues \cup {[kind  |-> "Too many nested packages",
                                    file  |-> Top.file,
                                    chain |-> Append(hierarchy, name[Top.next])]}
    /\ arg' = [file |-> Top.next, level |-> Top.level + 1]
    /\ pc' = "enter"
    /\ UNCHANGED <<project, root, hierarchy>>

\* A user is found: the level of this call is raised, for the users after it
\* too, compared with the limit, and passed on.
Nested ==
    /\ pc = "loop" /\ Top.next <= N /\ User(Top.next, name[Top.file])
    /\ calls' = Advanced(Top.level + 1)
    /\ issues' = IF Related(Top.level + 1) THEN issues
                 ELSE issues \cup {[kind  |-> "Too many nested packages",
                                    file  |-> Top.file,
                                    chain |-> Append(hierarchy, name[Top.next])]}
    /\ arg' = [file |-> Top.next, level |-> Top.level + 1]
    /\ pc' = "enter"
    /\ UNCHANGED <<project, root, hierarchy>>

\* No package is left: the call ends.
Return ==
    /\ pc = "loop" /\ Top.next = N + 1
    /\ calls' = SubSeq(calls, 1, Len(calls) - 1)
    /\ hierarchy' = SubSeq(hierarchy, 1, Len(hierarchy) - 1)
    /\ pc' = IF Len(calls) = 1 THEN "roots" ELSE "loop"
    /\ UNCHANGED <<project, root, arg, issues>>

Done == pc = "done" /\ UNCHANGED vars

Next ==
    \/ Call \/ AllCalled
    \/ EnterAgain \/ Enter
    \/ NotNested \/ Nested \/ Return
    \/ Done

Spec == Init /\ [][Next]_vars

-----------------------------------------------------------------------------
(* What the search is for, by definition.                                   *)

\* One package uses the one before it, and none comes twice.
IsChain(c) ==
    /\ \A k \in 1 .. Len(c) - 1 : \E g \in Files : name[g] = c[k + 1] /\ User(g, c[k])
    /\ \A j, k \in 1 .. Len(c) : c[j] = c[k] => j = k

\* The hierarchy is such a chain at any time: it cannot get longer than there
\* are names, which is why the search ends although packages may use each
\* other; and no call leaves anything on it for the next package.
HierarchyIsChain ==
    /\ IsChain(hierarchy)
    /\ pc \in {"roots", "done"} => hierarchy = <<>>

\* The level never falls short of the depth: the level of a call is at least
\* the number of packages it is nested in.
LevelCoversDepth ==
    /\ \A k \in DOMAIN calls : calls[k].level >= k - 1
    /\ pc = "enter" => arg.level >= Len(hierarchy)

\* What makes both inductive: each iterating call is on the hierarchy under
\* the name of its file, and the call being made is for a user of the last.
NestInv ==
    /\ HierarchyIsChain
    /\ LevelCoversDepth
    /\ Len(calls) = Len(hierarchy)
    /\ \A k \in DOMAIN calls : hierarchy[k] = name[calls[k].file]
    /\ pc = "loop" => calls # <<>>
    /\ pc = "enter" /\ hierarchy # <<>> => User(arg.file, hierarchy[Len(hierarchy)])

\* All chains of package names whose first package has a file.
Walks == UNION {[1 .. k -> Names] : k \in Files}

Chains ==
    {c \in Walks :
        IsChain(c) /\ \E f \in Files : name[f] = c[1]}

\* A package is reported as part of a loop if and only if it is: it uses a
\* package that a chain leads to from itself.
LoopsReported ==
    pc = "done" =>
        \A f \in Files :
            (\E i \in issues : i.kind = "Infinite loop" /\ i.file = f)
            <=> \E c \in Chains : c[1] = name[f] /\ User(f, c[Len(c)])

\* No nesting beyond the limit goes unreported: of every package nested too
\* deep, along every chain to it, there is an issue that names this chain.
DeepNestingReported ==
    pc = "done" /\ relation \in {"<", "<="} =>
        \A c \in Chains, g \in Files :
            User(g, c[Len(c)]) /\ ~Related(Len(c)) =>
                \E i \in issues : /\ i.kind = "Too many nested packages"
                                  /\ i.chain = Append(c, name[g])

\* The search finds every loop and every nesting beyond the limit
\* (checkVhdlPackage).
NestingReported == LoopsReported /\ DeepNestingReported

(* Why it does: what a call has to report for a user g of the last package   *)
(* of a chain c, and the calls below it for everything that continues c.     *)
On(n, c) == \E k \in DOMAIN c : c[k] = n

DeepReported(c, g) ==
    relation \in {"<", "<="} /\ ~Related(Len(c)) =>
        \E i \in issues : /\ i.kind = "Too many nested packages"
                          /\ i.chain = Append(c, name[g])

Reported(c, g) ==
    /\ On(name[g], c) =>
          [kind |-> "Infinite loop", file |-> g, chain |-> c] \in issues
    /\ DeepReported(c, g)

AllBelow(c) ==
    \A d \in Walks :
        IsChain(d) /\ Len(c) <= Len(d) /\ (\A j \in 1 .. Len(c) : d[j] = c[j]) =>
            \A h \in Files : User(h, d[Len(d)]) => Reported(d, h)

Searched(c, g) == Reported(c, g) /\ (~On(name[g], c) => AllBelow(Append(c, name[g])))

\* The file whose call the k-th call, or execute() for k = 0, waits for.
Open(k) ==
    IF k < Len(calls) THEN {calls[k + 1].file}
    ELSE IF pc = "enter" THEN {arg.file} ELSE {}

\* An issue on a loop is about one.
LoopsTrue ==
    \A i \in issues : i.kind = "Infinite loop" =>
        /\ IsChain(i.chain)
        /\ On(name[i.file], i.chain)
        /\ User(i.file, i.chain[Len(i.chain)])

\* The chains the calls in progress are for.
Prefixes(c) == {SubSeq(c, 1, k) : k \in DOMAIN c}
Above == Prefixes(hierarchy)

\* Every call that is over has left nothing out: neither those the calls in
\* progress have made, nor those execute() has.
CallsSearched ==
    \A c \in Above, g \in Files :
        g < calls[Len(c)].next /\ g \notin Open(Len(c)) /\ User(g, c[Len(c)]) =>
            Searched(c, g)

RootsSearched ==
    \A f \in Files, n \in Names :
        f < root /\ f \notin Open(0) /\ n = name[f] => AllBelow(<<n>>)

\* The depth of a package is reported before its call is made.
DepthsReported ==
    \A c \in Above, g \in Files : g \in Open(Len(c)) => DeepReported(c, g)

SearchInv ==
    /\ CallsSearched
    /\ RootsSearched
    /\ DepthsReported
    /\ LoopsTrue
    /\ pc = "done" => root = N + 1

IInv == TypeOK /\ NestInv /\ SearchInv
=============================================================================
