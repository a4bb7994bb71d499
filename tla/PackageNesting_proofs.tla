------------------------ MODULE PackageNesting_proofs ------------------------
(***************************************************************************)
(* The search of checkVhdlPackage() for any number of package files, names, *)
(* limits and relations: its state keeps its types, the hierarchy is always *)
(* a chain of different names, and the level never falls short of the depth.*)
(***************************************************************************)
EXTENDS PackageNesting, SequenceTheorems, FiniteSetTheorems, TLAPS

LEMMA InitTypeOK == Init => TypeOK
  BY FilesAssumption DEF Init, TypeOK, Files

(* While a call iterates, it is the last one on the stack.                   *)
LEMMA TopIsFrame ==
  ASSUME TypeOK, NestInv, pc = "loop"
  PROVE  /\ Len(calls) \in Nat \ {0}
         /\ Len(calls) \in 1 .. Len(calls)
         /\ Top \in Frames
<1>1. calls \in Seq(Frames) /\ calls # <<>>
    BY DEF TypeOK, NestInv
<1>2. Len(calls) \in Nat \ {0}
    BY ONLY <1>1, EmptySeq
<1>3. Len(calls) \in 1 .. Len(calls)
    BY <1>2
<1>4. calls[Len(calls)] \in Frames
    BY ONLY <1>1, <1>3, ElementOfSeq
<1>5. QED
    BY <1>2, <1>3, <1>4 DEF Top

(* The last call goes on: only its own frame changes, and keeps its file.    *)
LEMMA AdvancedFrames ==
  ASSUME TypeOK, NestInv, pc = "loop", Top.next <= N, NEW l \in Nat
  PROVE  /\ Advanced(l) \in Seq(Frames)
         /\ Len(Advanced(l)) = Len(calls)
         /\ \A k \in 1 .. Len(calls) :
               /\ Advanced(l)[k].file = calls[k].file
               /\ Advanced(l)[k].level = IF k = Len(calls) THEN l ELSE calls[k].level
               /\ Advanced(l)[k].next = IF k = Len(calls) THEN Top.next + 1 ELSE calls[k].next
         /\ Top.next \in Files /\ Top.file \in Files /\ Top.level \in Nat
<1> DEFINE frame == [file |-> Top.file, level |-> l, next |-> Top.next + 1]
<1>1. Len(calls) \in 1 .. Len(calls) /\ Top \in Frames
    BY TopIsFrame
<1>2. /\ Top.next \in Files /\ Top.file \in Files /\ Top.level \in Nat
      /\ frame \in Frames
    BY <1>1, FilesAssumption DEF Frames, Files
<1>3. calls \in Seq(Frames)
    BY DEF TypeOK
<1>4. Advanced(l) = [calls EXCEPT ![Len(calls)] = frame]
    BY DEF Advanced
<1>5. frame.file = Top.file /\ frame.level = l /\ frame.next = Top.next + 1
    OBVIOUS
<1> HIDE DEF frame
<1>6. /\ Advanced(l) \in Seq(Frames)
      /\ Len(Advanced(l)) = Len(calls)
      /\ \A k \in 1 .. Len(calls) :
            Advanced(l)[k] = IF k = Len(calls) THEN frame ELSE calls[k]
    BY ONLY <1>1, <1>2, <1>3, <1>4, ExceptSeq
<1>7. QED
    BY <1>1, <1>2, <1>5, <1>6 DEF Top

(* The hierarchy is a chain as long as neither it nor the packages change.   *)
LEMMA ChainStays ==
  ASSUME name' = name, uses' = uses, hierarchy' = hierarchy, IsChain(hierarchy)
  PROVE  IsChain(hierarchy)'
  BY DEF IsChain, User

(* Every step keeps the types: the stack of calls and the hierarchy grow by  *)
(* one frame and one name, or lose their last one.                           *)
LEMMA NextTypeOK == TypeOK /\ NestInv /\ [Next]_vars => TypeOK'
<1> SUFFICES ASSUME TypeOK, NestInv, [Next]_vars PROVE TypeOK'
    OBVIOUS
<1> USE FilesAssumption
<1>1. CASE Call
    BY <1>1 DEF Files, Args, Call, TypeOK, project
<1>2. CASE AllCalled
    BY <1>2 DEF AllCalled, TypeOK, project
<1>3. CASE EnterAgain
  <2>1. [kind |-> "Infinite loop", file |-> arg.file, chain |-> hierarchy] \in Issues
      BY <1>3 DEF EnterAgain, TypeOK, Issues, Kinds, Args
  <2>2. issues' \subseteq Issues
      BY <1>3, <2>1 DEF EnterAgain, TypeOK
  <2>3. QED
      BY <1>3, <2>2 DEF EnterAgain, TypeOK, project
<1>4. CASE Enter
  <2>1. [file |-> arg.file, level |-> arg.level, next |-> 1] \in Frames
        /\ name[arg.file] \in Names
      BY <1>4 DEF Enter, TypeOK, Args, Frames
  <2>2. calls' \in Seq(Frames)
      BY <1>4, <2>1, AppendProperties DEF Enter, TypeOK
  <2>3. hierarchy' \in Seq(Names)
      BY <1>4, <2>1, AppendProperties DEF Enter, TypeOK
  <2>4. QED
      BY <1>4, <2>2, <2>3 DEF Enter, TypeOK, project
<1>5. CASE NotNested
  <2>1. pc = "loop" /\ Top.next <= N /\ calls' = Advanced(Top.level)
      BY <1>5 DEF NotNested
  <2>2. Top.level \in Nat
      BY <2>1, TopIsFrame DEF Frames
  <2>3. calls' \in Seq(Frames)
      BY <2>1, <2>2, AdvancedFrames
  <2>4. QED
      BY <1>5, <2>3 DEF NotNested, TypeOK, project
<1>6. CASE Nested
  <2>1. pc = "loop" /\ Top.next <= N /\ calls' = Advanced(Top.level + 1)
      BY <1>6 DEF Nested
  <2>2. Top.level \in Nat /\ Top.level + 1 \in Nat
      BY <2>1, TopIsFrame DEF Frames
  <2>3. calls' \in Seq(Frames) /\ Top.next \in Files /\ Top.file \in Files
      BY <2>1, <2>2, AdvancedFrames
  <2> DEFINE issue == [kind  |-> "Too many nested packages", file |-> Top.file,
                       chain |-> Append(hierarchy, name[Top.next])]
  <2>4. name[Top.next] \in Names
      BY <2>3 DEF TypeOK
  <2>5. Append(hierarchy, name[Top.next]) \in Seq(Names)
      BY <2>4, AppendProperties DEF TypeOK
  <2>6. issue \in Issues
      BY <2>3, <2>5 DEF Issues, Kinds
  <2>7. issues' \subseteq Issues
      BY <1>6, <2>6 DEF Nested, TypeOK
  <2>8. arg' \in Args
      BY <1>6, <2>2, <2>3 DEF Nested, Args
  <2>9. QED
      BY <1>6, <2>3, <2>7, <2>8 DEF Nested, TypeOK, project
<1>7. CASE Return
  <2>1. Len(calls) \in Nat \ {0} /\ Len(hierarchy) = Len(calls)
      BY <1>7, TopIsFrame DEF Return, NestInv
  <2>2. calls' \in Seq(Frames)
      BY <1>7, <2>1, SubSeqProperties DEF Return, TypeOK
  <2>3. hierarchy' \in Seq(Names)
      BY <1>7, <2>1, SubSeqProperties DEF Return, TypeOK
  <2>4. QED
      BY <1>7, <2>2, <2>3 DEF Return, TypeOK, project
<1>8. CASE Done \/ UNCHANGED vars
    BY <1>8 DEF Done, vars, TypeOK, project
<1>9. QED
    BY <1>1, <1>2, <1>3, <1>4, <1>5, <1>6, <1>7, <1>8 DEF Next

-----------------------------------------------------------------------------
(* A chain that is extended by a user of its last package, which is not on   *)
(* it yet, is a chain.                                                       *)
LEMMA ChainExtended ==
  ASSUME NEW c \in Seq(Names), IsChain(c),
         NEW g \in Files, name[g] \in Names,
         \A k \in DOMAIN c : c[k] # name[g],
         c # <<>> => User(g, c[Len(c)])
  PROVE  IsChain(Append(c, name[g]))
<1> DEFINE d == Append(c, name[g])
<1>1. /\ Len(c) \in Nat /\ Len(d) = Len(c) + 1 /\ DOMAIN c = 1 .. Len(c)
      /\ \A k \in 1 .. Len(c) : d[k] = c[k]
      /\ d[Len(c) + 1] = name[g]
    BY AppendProperties, LenProperties
<1> HIDE DEF d
<1>2. ASSUME NEW k \in 1 .. Len(d) - 1
      PROVE  \E h \in Files : name[h] = d[k + 1] /\ User(h, d[k])
  <2>1. CASE k = Len(c)
    <3>1. c # <<>> /\ d[k] = c[Len(c)] /\ d[k + 1] = name[g]
        BY <1>1, <2>1, EmptySeq
    <3>2. QED
        BY <3>1
  <2>2. CASE k # Len(c)
    <3>1. k \in 1 .. Len(c) - 1 /\ k \in 1 .. Len(c) /\ k + 1 \in 1 .. Len(c)
      <4>1. k \in 1 .. Len(c) + 1 - 1 /\ Len(c) \in Nat
          BY <1>1
      <4>2. QED
          BY <2>2, <4>1
    <3>2. d[k] = c[k] /\ d[k + 1] = c[k + 1]
        BY <1>1, <3>1
    <3>3. \E h \in Files : name[h] = c[k + 1] /\ User(h, c[k])
        BY <3>1 DEF IsChain
    <3>4. QED
        BY <3>2, <3>3
  <2>3. QED
      BY <2>1, <2>2
<1>3. ASSUME NEW j \in 1 .. Len(d), NEW k \in 1 .. Len(d), d[j] = d[k]
      PROVE  j = k
    BY <1>1, <1>3 DEF IsChain
<1>4. IsChain(d)
    BY <1>2, <1>3 DEF IsChain
<1>5. QED
    BY <1>4 DEF d

(* A chain without its last package is a chain.                              *)
LEMMA ChainShortened ==
  ASSUME NEW c \in Seq(Names), IsChain(c), Len(c) \in Nat \ {0}
  PROVE  IsChain(SubSeq(c, 1, Len(c) - 1))
<1> DEFINE d == SubSeq(c, 1, Len(c) - 1)
<1>1. \A k \in 1 .. Len(c) - 1 : c[k] \in Names
    BY ElementOfSeq
<1>2. /\ Len(d) = IF 1 <= Len(c) - 1 THEN (Len(c) - 1) - 1 + 1 ELSE 0
      /\ \A k \in 1 .. (Len(c) - 1) - 1 + 1 : d[k] = c[1 + k - 1]
    BY ONLY <1>1, Len(c) - 1 \in Int, 1 \in Int, SubSeqProperties
<1> HIDE DEF d
<1>3. Len(d) = Len(c) - 1
  <2>1. ASSUME NEW n \in Nat \ {0}, NEW l, l = IF 1 <= n - 1 THEN (n - 1) - 1 + 1 ELSE 0
        PROVE  l = n - 1
      BY <2>1
  <2>2. QED
      BY <1>2, <2>1
<1>4. \A k \in 1 .. Len(d) : d[k] = c[k]
    BY <1>2, <1>3
<1>5. ASSUME NEW k \in 1 .. Len(d) - 1
      PROVE  \E g \in Files : name[g] = d[k + 1] /\ User(g, d[k])
  <2>1. k \in 1 .. Len(c) - 1 /\ d[k] = c[k] /\ d[k + 1] = c[k + 1]
      BY <1>3, <1>4
  <2>2. QED
      BY <2>1 DEF IsChain
<1>6. ASSUME NEW j \in 1 .. Len(d), NEW k \in 1 .. Len(d), d[j] = d[k]
      PROVE  j = k
    BY <1>3, <1>4, <1>6 DEF IsChain
<1>7. IsChain(d)
    BY <1>5, <1>6 DEF IsChain
<1>8. QED
    BY <1>7 DEF d

LEMMA InitNestInv == Init => NestInv
<1> SUFFICES ASSUME Init PROVE NestInv
    OBVIOUS
<1>1. Len(<<>>) = 0 /\ DOMAIN calls = {} /\ hierarchy = <<>> /\ calls = <<>>
    BY DEF Init
<1>2. IsChain(hierarchy)
    BY <1>1 DEF IsChain
<1>3. QED
    BY <1>1, <1>2 DEF Init, NestInv, HierarchyIsChain, LevelCoversDepth

(* The inductive step.                                                       *)
LEMMA NextNestInv == TypeOK /\ NestInv /\ [Next]_vars => NestInv'
<1> SUFFICES ASSUME TypeOK, NestInv, [Next]_vars PROVE NestInv'
    OBVIOUS
<1>0. /\ Len(calls) \in Nat /\ DOMAIN calls = 1 .. Len(calls)
      /\ Len(hierarchy) = Len(calls) /\ DOMAIN hierarchy = 1 .. Len(calls)
    BY LenProperties DEF TypeOK, NestInv
<1>1. CASE Call
  <2>1. hierarchy = <<>> /\ Len(hierarchy) = 0 /\ calls = <<>>
      BY <1>1, <1>0, EmptySeq DEF Call, NestInv, HierarchyIsChain, TypeOK
  <2>2. IsChain(hierarchy)'
      BY <1>1, <2>1 DEF Call, IsChain
  <2>3. QED
      BY <1>1, <1>0, <2>1, <2>2
         DEF Call, NestInv, HierarchyIsChain, LevelCoversDepth, project
<1>2. CASE AllCalled
  <2>1. IsChain(hierarchy)'
      BY <1>2, ChainStays DEF AllCalled, project, NestInv, HierarchyIsChain
  <2>2. QED
      BY <1>2, <2>1
         DEF AllCalled, NestInv, HierarchyIsChain, LevelCoversDepth, project
<1>3. CASE EnterAgain
  <2>1. IsChain(hierarchy)'
      BY <1>3, ChainStays DEF EnterAgain, project, NestInv, HierarchyIsChain
  <2>2. PICK k \in DOMAIN hierarchy : hierarchy[k] = name[arg.file]
      BY <1>3 DEF EnterAgain, InHierarchy
  <2>3. Len(calls) # 0
      BY <1>0, <2>2
  <2>4. calls # <<>>
      BY <2>3, EmptySeq
  <2>5. QED
      BY <1>3, <2>1, <2>4
         DEF EnterAgain, NestInv, HierarchyIsChain, LevelCoversDepth, project
<1>4. CASE Enter
  <2> DEFINE frame == [file |-> arg.file, level |-> arg.level, next |-> 1]
  <2>1. arg \in Args /\ frame \in Frames /\ name[arg.file] \in Names
    <3>1. arg \in [file : Files, level : Nat] /\ name \in [Files -> Names]
        BY <1>4 DEF Enter, TypeOK, Args
    <3>2. 1 \in 1 .. N + 1
        BY FilesAssumption
    <3>3. QED
        BY <3>1, <3>2 DEF Args, Frames
  <2>2. /\ hierarchy' = Append(hierarchy, name[arg.file])
        /\ calls' = Append(calls, frame)
        /\ pc' = "loop" /\ name' = name /\ uses' = uses
      BY <1>4 DEF Enter, project
  <2>3. /\ Len(calls') = Len(calls) + 1 /\ DOMAIN calls' = 1 .. Len(calls) + 1
        /\ \A k \in 1 .. Len(calls) : calls'[k] = calls[k]
        /\ calls'[Len(calls) + 1] = frame
      BY <2>1, <2>2, <1>0, AppendProperties, LenProperties DEF TypeOK
  <2>4. /\ Len(hierarchy') = Len(calls) + 1
        /\ \A k \in 1 .. Len(calls) : hierarchy'[k] = hierarchy[k]
        /\ hierarchy'[Len(calls) + 1] = name[arg.file]
      BY <2>1, <2>2, <1>0, AppendProperties, LenProperties DEF TypeOK
  <2>5. IsChain(hierarchy')
    <3>1. \A k \in DOMAIN hierarchy : hierarchy[k] # name[arg.file]
        BY <1>4 DEF Enter, InHierarchy
    <3>2. hierarchy # <<>> => User(arg.file, hierarchy[Len(hierarchy)])
        BY <1>4 DEF Enter, NestInv
    <3>3. hierarchy \in Seq(Names) /\ arg.file \in Files
        BY <2>1 DEF TypeOK, Args
    <3>4. IsChain(hierarchy)
        BY DEF NestInv, HierarchyIsChain
    <3>5. QED
        BY <2>1, <2>2, <3>1, <3>2, <3>3, <3>4, ChainExtended
  <2>6. IsChain(hierarchy)'
      BY <2>2, <2>5 DEF IsChain, User
  <2>7. LevelCoversDepth'
      BY <1>0, <1>4, <2>1, <2>2, <2>3 DEF Enter, NestInv, LevelCoversDepth
  <2>8. \A k \in DOMAIN calls' : hierarchy'[k] = name'[calls'[k].file]
      BY <1>0, <2>2, <2>3, <2>4 DEF NestInv
  <2>9. calls' # <<>>
      BY <1>0, <2>3
  <2>10. QED
      BY <2>2, <2>3, <2>4, <2>6, <2>7, <2>8, <2>9 DEF NestInv, HierarchyIsChain
<1>5. CASE NotNested
  <2>1. pc = "loop" /\ Top.next <= N /\ calls' = Advanced(Top.level)
      BY <1>5 DEF NotNested
  <2>2. Top.level \in Nat /\ Len(calls) \in Nat \ {0}
      BY <2>1, TopIsFrame DEF Frames
  <2>3. /\ Len(calls') = Len(calls) /\ DOMAIN calls' = 1 .. Len(calls)
        /\ \A k \in 1 .. Len(calls) : /\ calls'[k].file = calls[k].file
                                     /\ calls'[k].level = calls[k].level
      BY <2>1, <2>2, AdvancedFrames, LenProperties, ZenonT(30) DEF Top
  <2>4. IsChain(hierarchy)'
      BY <1>5, ChainStays DEF NotNested, project, NestInv, HierarchyIsChain
  <2>5. calls' # <<>>
      BY <2>2, <2>3
  <2>6. LevelCoversDepth'
      BY <1>0, <1>5, <2>3 DEF NotNested, NestInv, LevelCoversDepth
  <2>7. \A k \in DOMAIN calls' : hierarchy'[k] = name'[calls'[k].file]
      BY <1>0, <1>5, <2>3 DEF NotNested, NestInv, project
  <2>8. pc' = "loop" /\ hierarchy' = hierarchy
      BY <1>5 DEF NotNested
  <2>9. QED
      BY <1>0, <2>3, <2>4, <2>5, <2>6, <2>7, <2>8 DEF NestInv, HierarchyIsChain
<1>6. CASE Nested
  <2>1. pc = "loop" /\ Top.next <= N /\ calls' = Advanced(Top.level + 1)
      BY <1>6 DEF Nested
  <2>2. Top.level \in Nat /\ Top.level + 1 \in Nat /\ Len(calls) \in Nat \ {0}
      BY <2>1, TopIsFrame DEF Frames
  <2>3. /\ Len(calls') = Len(calls) /\ DOMAIN calls' = 1 .. Len(calls)
        /\ \A k \in 1 .. Len(calls) :
              /\ calls'[k].file = calls[k].file
              /\ calls'[k].level = IF k = Len(calls) THEN Top.level + 1 ELSE calls[k].level
      BY <2>1, <2>2, AdvancedFrames, LenProperties
  <2>4. IsChain(hierarchy)'
      BY <1>6, ChainStays DEF Nested, project, NestInv, HierarchyIsChain
  <2>5. Top.level >= Len(calls) - 1 /\ hierarchy[Len(hierarchy)] = name[Top.file]
      BY <1>0, <2>2 DEF NestInv, LevelCoversDepth, Top
  <2>6. /\ pc' = "enter" /\ hierarchy' = hierarchy /\ name' = name /\ uses' = uses
        /\ arg' = [file |-> Top.next, level |-> Top.level + 1]
        /\ User(Top.next, name[Top.file])
      BY <1>6 DEF Nested, project
  <2>7. arg'.level >= Len(hierarchy')
      BY <1>0, <2>2, <2>5, <2>6
  <2>8. User(arg.file, hierarchy[Len(hierarchy)])'
      BY <2>5, <2>6 DEF User
  <2>9. \A k \in DOMAIN calls' : calls'[k].level >= k - 1
    <3>1. SUFFICES ASSUME NEW k \in 1 .. Len(calls) PROVE calls'[k].level >= k - 1
        BY <2>3
    <3>2. CASE k = Len(calls)
      <4>1. calls'[k].level = Top.level + 1
          BY <2>3, <3>2
      <4>2. QED
          BY <2>2, <2>5, <3>2, <4>1
    <3>3. CASE k # Len(calls)
        BY <1>0, <2>3, <3>3 DEF NestInv, LevelCoversDepth
    <3>4. QED
        BY <3>2, <3>3
  <2>10. \A k \in DOMAIN calls' : hierarchy'[k] = name'[calls'[k].file]
      BY <1>0, <2>3, <2>6 DEF NestInv
  <2>11. QED
      BY <1>0, <2>3, <2>4, <2>6, <2>7, <2>8, <2>9, <2>10
         DEF NestInv, HierarchyIsChain, LevelCoversDepth
<1>7. CASE Return
  <2>1. Len(calls) \in Nat \ {0}
      BY <1>7, TopIsFrame DEF Return
  <2>2. /\ Len(calls') = Len(calls) - 1 /\ DOMAIN calls' = 1 .. Len(calls) - 1
        /\ \A k \in 1 .. Len(calls) - 1 : calls'[k] = calls[k]
      BY <1>7, <1>0, <2>1, SubSeqProperties, LenProperties DEF Return, TypeOK
  <2>3. /\ Len(hierarchy') = Len(calls) - 1 /\ hierarchy' \in Seq(Names)
        /\ \A k \in 1 .. Len(calls) - 1 : hierarchy'[k] = hierarchy[k]
      BY <1>7, <1>0, <2>1, SubSeqProperties DEF Return, TypeOK
  <2>4. IsChain(hierarchy')
      BY <1>7, <1>0, <2>1, ChainShortened DEF Return, TypeOK, NestInv, HierarchyIsChain
  <2>5. IsChain(hierarchy)'
      BY <1>7, <2>4 DEF Return, project, IsChain, User
  <2>6. ASSUME Len(calls) = 1 PROVE hierarchy' = <<>> /\ pc' = "roots"
    <3>1. Len(hierarchy') = 0
        BY <2>3, <2>6
    <3>2. hierarchy' = <<>>
        BY <2>3, <3>1, EmptySeq
    <3>3. QED
        BY <1>7, <2>6, <3>2 DEF Return
  <2>7. ASSUME Len(calls) # 1 PROVE calls' # <<>> /\ pc' = "loop"
    <3>1. Len(calls') # 0
        BY <2>1, <2>2, <2>7
    <3>2. calls' # <<>>
        BY <3>1, EmptySeq
    <3>3. QED
        BY <1>7, <2>7, <3>2 DEF Return
  <2>8. QED
      BY <1>7, <1>0, <2>2, <2>3, <2>5, <2>6, <2>7
         DEF Return, NestInv, HierarchyIsChain, LevelCoversDepth, project
<1>8. CASE Done \/ UNCHANGED vars
  <2>1. IsChain(hierarchy)'
      BY <1>8, ChainStays DEF Done, vars, project, NestInv, HierarchyIsChain
  <2>2. QED
      BY <1>8, <2>1
         DEF Done, vars, project, NestInv, HierarchyIsChain, LevelCoversDepth, User
<1>9. QED
    BY <1>1, <1>2, <1>3, <1>4, <1>5, <1>6, <1>7, <1>8 DEF Next

-----------------------------------------------------------------------------
(* The prefixes of a sequence, but the empty one.                            *)
LEMMA PrefixIs ==
  ASSUME NEW S, NEW h \in Seq(S)
  PROVE  \A c : c \in Prefixes(h) <=> /\ c \in Seq(S)
                                      /\ Len(c) \in 1 .. Len(h)
                                      /\ \A j \in 1 .. Len(c) : c[j] = h[j]
<1>1. DOMAIN h = 1 .. Len(h) /\ Len(h) \in Nat
    BY LenProperties
<1>2. ASSUME NEW k \in 1 .. Len(h)
      PROVE  /\ SubSeq(h, 1, k) \in Seq(S) /\ Len(SubSeq(h, 1, k)) = k
             /\ \A j \in 1 .. k : SubSeq(h, 1, k)[j] = h[j]
  <2>1. \A j \in 1 .. k : h[j] \in S
      BY <1>1, <1>2, ElementOfSeq
  <2>2. QED
      BY <1>1, <1>2, <2>1, SubSeqProperties
<1>3. ASSUME NEW c \in Prefixes(h)
      PROVE  c \in Seq(S) /\ Len(c) \in 1 .. Len(h) /\ \A j \in 1 .. Len(c) : c[j] = h[j]
  <2>1. PICK k \in 1 .. Len(h) : c = SubSeq(h, 1, k)
      BY <1>1 DEF Prefixes
  <2>2. QED
      BY <1>2, <2>1
<1>4. ASSUME NEW c \in Seq(S), Len(c) \in 1 .. Len(h), \A j \in 1 .. Len(c) : c[j] = h[j]
      PROVE  c \in Prefixes(h)
  <2>1. SubSeq(h, 1, Len(c)) = c
      BY <1>2, <1>4, SeqEqual
  <2>2. QED
      BY <1>1, <1>4, <2>1 DEF Prefixes
<1>5. QED
    BY <1>3, <1>4

(* A chain of a search is a sequence of names, no longer than there are files.*)
LEMMA WalkIsSeq ==
  ASSUME NEW d \in Walks
  PROVE  d \in Seq(Names) /\ Len(d) \in 1 .. N /\ DOMAIN d = 1 .. Len(d)
<1>1. PICK k \in Files : d \in [1 .. k -> Names]
    BY DEF Walks
<1>2. k \in Nat /\ d \in Seq(Names)
    BY <1>1, FilesAssumption, IsASeq DEF Files
<1>3. DOMAIN d = 1 .. Len(d) /\ Len(d) \in Nat /\ DOMAIN d = 1 .. k
    BY <1>1, <1>2, LenProperties
<1>4. Len(d) = k
  <2>1. k >= 1 /\ k \in 1 .. Len(d)
      BY <1>3, FilesAssumption DEF Files
  <2>2. Len(d) \in 1 .. k
      BY <1>3, <2>1
  <2>3. ASSUME NEW x \in Nat, NEW y \in Nat, x \in 1 .. y, y \in 1 .. x PROVE x = y
      BY <2>3
  <2>4. QED
      BY <1>2, <1>3, <2>1, <2>2, <2>3
<1>5. QED
    BY <1>1, <1>2, <1>3, <1>4 DEF Files

(* No step takes an issue back or changes the packages.                      *)
LEMMA IssuesStay == [Next]_vars => UNCHANGED project /\ issues \subseteq issues'
  BY DEF Next, Call, AllCalled, EnterAgain, Enter, NotNested, Nested, Return, Done, vars, project

(* So what has been reported stays reported.                                 *)
LEMMA ReportedStays ==
  ASSUME UNCHANGED project, issues \subseteq issues'
  PROVE  /\ \A g, n : User(g, n)' <=> User(g, n)
         /\ \A c : IsChain(c)' <=> IsChain(c)
         /\ \A c, g : DeepReported(c, g) => DeepReported(c, g)'
         /\ \A c, g : Reported(c, g) => Reported(c, g)'
         /\ \A c : AllBelow(c) => AllBelow(c)'
         /\ \A c, g : Searched(c, g) => Searched(c, g)'
<1>1. name' = name /\ uses' = uses /\ limit' = limit /\ relation' = relation
    BY DEF project
<1>2. \A g, n : User(g, n)' <=> User(g, n)
    BY <1>1 DEF User
<1>3. \A c : IsChain(c)' <=> IsChain(c)
    BY <1>1, <1>2 DEF IsChain
<1>4. \A l : Related(l)' <=> Related(l)
    BY <1>1 DEF Related
<1>5. \A c, g : DeepReported(c, g) => DeepReported(c, g)'
    BY <1>1, <1>4 DEF DeepReported
<1>6. \A c, n : On(n, c)' <=> On(n, c)
    BY DEF On
<1>7. \A c, g : Reported(c, g) => Reported(c, g)'
    BY <1>1, <1>5, <1>6 DEF Reported, On
<1>8. \A c : AllBelow(c) => AllBelow(c)'
    BY <1>2, <1>3, <1>7 DEF AllBelow
<1>9. \A c, g : Searched(c, g) => Searched(c, g)'
    BY <1>1, <1>6, <1>7, <1>8 DEF Searched, On
<1>10. QED
    BY <1>2, <1>3, <1>5, <1>7, <1>8, <1>9

(* The step of the search: what all users of the last package of a chain     *)
(* have found makes up all that continues the chain.                         *)
LEMMA AllUsersSearched ==
  ASSUME NEW c \in Seq(Names), c # <<>>,
         \A g \in Files : User(g, c[Len(c)]) => Searched(c, g)
  PROVE  AllBelow(c)
<1>1. SUFFICES ASSUME NEW d \in Walks, IsChain(d), Len(c) <= Len(d),
                      \A j \in 1 .. Len(c) : d[j] = c[j],
                      NEW h \in Files, User(h, d[Len(d)])
               PROVE  Reported(d, h)
    BY DEF AllBelow
<1>2. /\ d \in Seq(Names) /\ Len(d) \in Nat /\ DOMAIN d = 1 .. Len(d)
      /\ Len(c) \in Nat \ {0} /\ DOMAIN c = 1 .. Len(c)
    BY <1>1, WalkIsSeq, EmptySeq, LenProperties, FilesAssumption
<1>3. CASE Len(d) = Len(c)
  <2>1. d = c
      BY <1>1, <1>2, <1>3, SeqEqual
  <2>2. QED
      BY <1>1, <2>1 DEF Searched
<1>4. CASE Len(d) # Len(c)
  <2>1. Len(c) \in 1 .. Len(d) - 1 /\ Len(c) + 1 <= Len(d)
    <3>1. ASSUME NEW x \in Nat \ {0}, NEW y \in Nat, x <= y, y # x
          PROVE  x \in 1 .. y - 1 /\ x + 1 <= y
        BY <3>1
    <3>2. QED
        BY <1>1, <1>2, <1>4, <3>1
  <2>2. PICK g \in Files : name[g] = d[Len(c) + 1] /\ User(g, d[Len(c)])
      BY <1>1, <2>1 DEF IsChain
  <2>3. Searched(c, g)
      BY <1>1, <1>2, <2>2
  <2>4. ~On(name[g], c)
    <3>1. SUFFICES ASSUME NEW k \in 1 .. Len(c), c[k] = name[g] PROVE FALSE
        BY <1>2 DEF On
    <3>2. d[k] = d[Len(c) + 1] /\ k \in 1 .. Len(d) /\ Len(c) + 1 \in 1 .. Len(d)
        BY <1>1, <1>2, <2>1, <2>2, <3>1
    <3>3. k = Len(c) + 1
        BY <1>1, <3>2 DEF IsChain
    <3>4. QED
        BY <1>2, <3>1, <3>3
  <2>5. name[g] \in Names
      BY <1>2, <2>1, <2>2, ElementOfSeq
  <2> DEFINE e == Append(c, name[g])
  <2>6. Len(e) = Len(c) + 1 /\ \A j \in 1 .. Len(e) : d[j] = e[j]
    <3>1. /\ Len(e) = Len(c) + 1 /\ e[Len(c) + 1] = name[g]
          /\ \A j \in 1 .. Len(c) : e[j] = c[j]
        BY <2>5, AppendProperties
    <3> HIDE DEF e
    <3>2. \A j \in 1 .. Len(e) : j \in 1 .. Len(c) \/ j = Len(c) + 1
        BY <1>2, <3>1
    <3>3. QED
        BY <1>1, <2>2, <3>1, <3>2
  <2>7. AllBelow(e)
      BY <2>3, <2>4 DEF Searched
  <2> HIDE DEF e
  <2>8. Len(e) <= Len(d)
      BY <2>1, <2>6
  <2>9. QED
      BY <1>1, <2>6, <2>7, <2>8 DEF AllBelow
<1>5. QED
    BY <1>3, <1>4

-----------------------------------------------------------------------------
LEMMA InitSearchInv == Init => SearchInv
<1> SUFFICES ASSUME Init PROVE SearchInv
    OBVIOUS
<1>1. /\ Above = {} /\ root = 1 /\ pc = "roots" /\ issues = {}
    BY DEF Init, Above, Prefixes
<1>2. \A f \in Files : ~(f < 1)
    BY FilesAssumption DEF Files
<1>3. QED
    BY <1>1, <1>2 DEF SearchInv, CallsSearched, RootsSearched, DepthsReported, LoopsTrue

(* An issue on a loop is made where the call's package is on the hierarchy.  *)
LEMMA NextLoopsTrue ==
  TypeOK /\ NestInv /\ LoopsTrue /\ [Next]_vars => LoopsTrue'
<1> SUFFICES ASSUME TypeOK, NestInv, LoopsTrue, [Next]_vars PROVE LoopsTrue'
    OBVIOUS
<1>1. /\ \A g, n : User(g, n)' <=> User(g, n)
      /\ \A c : IsChain(c)' <=> IsChain(c)
      /\ name' = name
    BY IssuesStay, ReportedStays DEF project
<1>2. SUFFICES ASSUME NEW i \in issues', i.kind = "Infinite loop"
               PROVE  /\ IsChain(i.chain)
                      /\ On(name[i.file], i.chain)
                      /\ User(i.file, i.chain[Len(i.chain)])
    BY <1>1 DEF LoopsTrue, On
<1>3. CASE i \in issues
    BY <1>2, <1>3 DEF LoopsTrue
<1>4. CASE EnterAgain /\ i \notin issues
  <2>1. i = [kind |-> "Infinite loop", file |-> arg.file, chain |-> hierarchy]
      BY <1>2, <1>4 DEF EnterAgain
  <2>2. i.file = arg.file /\ i.chain = hierarchy
      BY <2>1
  <2>3. pc = "enter" /\ On(name[arg.file], hierarchy)
      BY <1>4 DEF EnterAgain, InHierarchy, On
  <2>4. hierarchy # <<>>
      BY <2>3, LenProperties, EmptySeq DEF On, TypeOK
  <2>5. QED
      BY <2>2, <2>3, <2>4 DEF NestInv, HierarchyIsChain
<1>5. CASE Nested /\ i \notin issues
  <2>1. i = [kind  |-> "Too many nested packages", file |-> Top.file,
             chain |-> Append(hierarchy, name[Top.next])]
      BY <1>2, <1>5 DEF Nested
  <2>2. i.kind = "Too many nested packages"
      BY <2>1
  <2>3. QED
      BY <1>2, <2>2
<1>6. QED
    BY <1>2, <1>3, <1>4, <1>5
       DEF Next, Call, AllCalled, Enter, NotNested, Return, Done, vars

(* A call that begins has left nothing out yet; one that ends has had its    *)
(* users searched, so that its caller has one user more.                     *)
LEMMA NextSearchInv == IInv /\ [Next]_vars => SearchInv'
<1> SUFFICES ASSUME IInv, [Next]_vars PROVE SearchInv'
    OBVIOUS
<1>t. TypeOK /\ NestInv
    BY DEF IInv
<1>s. /\ CallsSearched /\ RootsSearched /\ DepthsReported
      /\ pc = "done" => root = N + 1
    BY DEF IInv, SearchInv
<1>l. LoopsTrue'
    BY NextLoopsTrue DEF IInv, SearchInv
<1>u. UNCHANGED project /\ issues \subseteq issues'
    BY IssuesStay
<1>n. name' = name /\ relation' = relation /\ limit' = limit
    BY <1>u DEF project
<1>m. /\ \A g, n : User(g, n)' <=> User(g, n)
      /\ \A c, g : DeepReported(c, g) => DeepReported(c, g)'
      /\ \A c : AllBelow(c) => AllBelow(c)'
      /\ \A c, g : Searched(c, g) => Searched(c, g)'
    BY <1>u, ReportedStays
<1>f. \A f \in Files : f \in Nat
    BY FilesAssumption DEF Files
<1>q. calls \in Seq(Frames) /\ hierarchy \in Seq(Names)
    BY <1>t DEF TypeOK
<1>0. PICK m \in Nat : m = Len(calls) /\ m = Len(hierarchy)
    BY <1>q, <1>t, LenProperties DEF NestInv
<1>d. DOMAIN calls = 1 .. m /\ DOMAIN hierarchy = 1 .. m
    BY <1>0, <1>q, LenProperties
<1>e. m = 0 <=> hierarchy = <<>>
    BY <1>0, <1>q, EmptySeq
<1>c. m = 0 <=> calls = <<>>
    BY <1>0, <1>q, EmptySeq
<1>p. /\ \A c \in Above : Len(c) \in 1 .. m /\ (Len(c) = m => c = hierarchy)
      /\ \A c \in Above : c \in Seq(Names) /\ \A j \in 1 .. Len(c) : c[j] = hierarchy[j]
  <2>1. \A c \in Above : /\ c \in Seq(Names) /\ Len(c) \in 1 .. m
                         /\ \A j \in 1 .. Len(c) : c[j] = hierarchy[j]
      BY <1>0, <1>q, PrefixIs DEF Above
  <2>2. \A c \in Above : Len(c) = m => c = hierarchy
      BY <1>0, <1>q, <2>1, SeqEqual
  <2>3. QED
      BY <2>1, <2>2
<1>1. CASE Call
  <2>1. /\ hierarchy = <<>> /\ pc = "roots" /\ pc' = "enter"
        /\ hierarchy' = hierarchy /\ calls' = calls
        /\ root' = root + 1 /\ arg' = [file |-> root, level |-> 0] /\ root \in Nat
      BY <1>1, <1>t, FilesAssumption DEF Call, NestInv, HierarchyIsChain, TypeOK
  <2>2. m = 0 /\ Above' = {}
      BY <1>d, <1>e, <2>1 DEF Above, Prefixes
  <2>3. Open(0) = {} /\ Open(0)' = {root}
    <3>1. Len(calls) = 0
        BY <1>0, <2>2
    <3>2. Len(calls') = 0
        BY <2>1, <3>1
    <3>3. ~(0 < 0)
        OBVIOUS
    <3>4. QED
        BY <2>1, <3>1, <3>2, <3>3 DEF Open
  <2>4. RootsSearched'
    <3>1. ASSUME NEW f \in Files, NEW n \in Names, f < root + 1, f # root, n = name[f]
          PROVE  AllBelow(<<n>>)
      <4>1. f < root
          BY <1>f, <2>1, <3>1
      <4>2. QED
          BY <1>s, <2>3, <3>1, <4>1 DEF RootsSearched
    <3>2. QED
        BY <1>m, <1>n, <2>1, <2>3, <3>1 DEF RootsSearched
  <2>5. QED
      BY <1>l, <2>1, <2>2, <2>4 DEF SearchInv, CallsSearched, DepthsReported
<1>2. CASE AllCalled
  <2>1. /\ UNCHANGED <<root, arg, calls, hierarchy>> /\ root = N + 1
        /\ pc = "roots" /\ pc' = "done"
      BY <1>2 DEF AllCalled
  <2>2. hierarchy = <<>>
      BY <1>t, <2>1 DEF NestInv, HierarchyIsChain
  <2>3. m = 0 /\ Above' = {}
      BY <1>d, <1>e, <2>1, <2>2 DEF Above, Prefixes
  <2>4. Open(0)' = Open(0)
      BY <1>0, <2>1, <2>3 DEF Open
  <2>5. RootsSearched'
      BY <1>m, <1>n, <1>s, <2>1, <2>4 DEF RootsSearched
  <2>6. QED
      BY <1>l, <2>1, <2>3, <2>5 DEF SearchInv, CallsSearched, DepthsReported
<1>3. CASE EnterAgain
  <2>1. /\ UNCHANGED <<root, arg, calls, hierarchy>> /\ pc = "enter"
        /\ On(name[arg.file], hierarchy)
        /\ [kind |-> "Infinite loop", file |-> arg.file, chain |-> hierarchy] \in issues'
      BY <1>3 DEF EnterAgain, InHierarchy, On
  <2>2. m # 0 /\ calls # <<>>
    <3>1. PICK k \in 1 .. m : hierarchy[k] = name[arg.file]
        BY <1>d, <2>1 DEF On
    <3>2. m # 0
        BY <3>1
    <3>3. QED
        BY <1>c, <3>2
  <2>3. pc' = "loop" /\ Above' = Above
      BY <1>3, <2>1, <2>2 DEF EnterAgain, Above
  <2>4. /\ \A k \in 0 .. m : k # m => Open(k)' = Open(k)
        /\ Open(m) = {arg.file} /\ Open(m)' = {}
    <3>1. ~(m < m) /\ \A k \in 0 .. m : k # m => k < m
        OBVIOUS
    <3>2. QED
        BY <1>0, <2>1, <2>3, <3>1 DEF Open
  <2>5. ASSUME NEW c \in Above, NEW g \in Files, c = hierarchy, g = arg.file
        PROVE  Searched(c, g)'
    <3>1. DeepReported(c, g)'
        BY <1>0, <1>m, <1>s, <2>4, <2>5 DEF DepthsReported
    <3>2. On(name[g], c) /\ [kind |-> "Infinite loop", file |-> g, chain |-> c] \in issues'
        BY <2>1, <2>5
    <3>3. QED
        BY <1>n, <3>1, <3>2 DEF Searched, Reported, On
  <2>6. ASSUME NEW c \in Above, NEW g \in Files,
               g < calls[Len(c)].next, g \notin Open(Len(c))', User(g, c[Len(c)])
        PROVE  Searched(c, g)'
    <3>1. CASE g \in Open(Len(c))
      <4>1. Len(c) = m
          BY <1>p, <2>4, <2>6, <3>1
      <4>2. c = hierarchy /\ g = arg.file
          BY <1>p, <2>4, <3>1, <4>1
      <4>3. QED
          BY <2>5, <4>2
    <3>2. CASE g \notin Open(Len(c))
        BY <1>m, <1>s, <2>6, <3>2 DEF CallsSearched
    <3>3. QED
        BY <3>1, <3>2
  <2>7. CallsSearched'
      BY <1>m, <2>1, <2>3, <2>6 DEF CallsSearched
  <2>8. RootsSearched'
    <3>1. Open(0)' = Open(0)
        BY <2>2, <2>4
    <3>2. QED
        BY <1>m, <1>n, <1>s, <2>1, <3>1 DEF RootsSearched
  <2>9. DepthsReported'
    <3>1. ASSUME NEW c \in Above, NEW g \in Files, g \in Open(Len(c))'
          PROVE  DeepReported(c, g)'
      <4>1. g \in Open(Len(c))
          BY <1>p, <2>4, <3>1
      <4>2. QED
          BY <1>m, <1>s, <4>1 DEF DepthsReported
    <3>2. QED
        BY <2>3, <3>1 DEF DepthsReported
  <2>10. QED
      BY <1>l, <2>3, <2>7, <2>8, <2>9 DEF SearchInv
<1>4. CASE Enter
  <2> DEFINE frame == [file |-> arg.file, level |-> arg.level, next |-> 1]
  <2>1. /\ hierarchy' = Append(hierarchy, name[arg.file])
        /\ calls' = Append(calls, frame)
        /\ pc = "enter" /\ pc' = "loop" /\ UNCHANGED <<root, arg>>
      BY <1>4 DEF Enter
  <2>2. frame \in Frames /\ name[arg.file] \in Names
    <3>1. arg \in [file : Files, level : Nat] /\ name \in [Files -> Names]
        BY <1>t, <2>1 DEF TypeOK, Args
    <3>2. 1 \in 1 .. N + 1
        BY FilesAssumption
    <3>3. QED
        BY <3>1, <3>2 DEF Frames
  <2>3. frame.file = arg.file /\ frame.next = 1
      OBVIOUS
  <2> HIDE DEF frame
  <2>4. /\ Len(calls') = m + 1
        /\ \A k \in 1 .. m : calls'[k] = calls[k]
        /\ calls'[m + 1].file = arg.file /\ calls'[m + 1].next = 1
    <3>1. /\ Len(calls') = Len(calls) + 1
          /\ \A k \in 1 .. Len(calls) : calls'[k] = calls[k]
          /\ calls'[Len(calls) + 1] = frame
        BY <1>q, <2>1, <2>2, AppendProperties
    <3>2. QED
        BY <1>0, <2>3, <3>1
  <2>5. /\ Len(hierarchy') = m + 1 /\ hierarchy' \in Seq(Names)
        /\ \A k \in 1 .. m : hierarchy'[k] = hierarchy[k]
      BY <1>0, <1>q, <2>1, <2>2, AppendProperties
  <2>6. \A c \in Above' : Len(c) = m + 1 \/ (Len(c) \in 1 .. m /\ c \in Above)
    <3>1. ASSUME NEW c \in Above' PROVE Len(c) = m + 1 \/ (Len(c) \in 1 .. m /\ c \in Above)
      <4>1. /\ c \in Seq(Names) /\ Len(c) \in 1 .. m + 1
            /\ \A j \in 1 .. Len(c) : c[j] = hierarchy'[j]
          BY <2>5, <3>1, PrefixIs DEF Above
      <4>2. CASE Len(c) # m + 1
        <5>1. Len(c) \in 1 .. m
            BY <4>1, <4>2
        <5>2. \A j \in 1 .. Len(c) : c[j] = hierarchy[j]
            BY <2>5, <4>1, <5>1
        <5>3. QED
            BY <1>0, <1>q, <4>1, <5>1, <5>2, PrefixIs DEF Above
      <4>3. QED
          BY <4>2
    <3>2. QED
        BY <3>1
  <2>7. (\A k \in 0 .. m : Open(k)' = Open(k)) /\ Open(m + 1)' = {}
    <3>1. ASSUME NEW k \in 0 .. m PROVE Open(k)' = Open(k)
      <4>1. k < m + 1
          OBVIOUS
      <4>2. Open(k)' = {calls'[k + 1].file}
          BY <2>4, <4>1 DEF Open
      <4>3. CASE k = m
        <5>1. ~(m < m)
            OBVIOUS
        <5>2. QED
            BY <1>0, <2>1, <2>4, <4>2, <4>3, <5>1 DEF Open
      <4>4. CASE k # m
        <5>1. k < m /\ k + 1 \in 1 .. m
            BY <4>4
        <5>2. QED
            BY <1>0, <2>4, <4>2, <5>1 DEF Open
      <4>5. QED
          BY <4>3, <4>4
    <3>2. ~(m + 1 < m + 1)
        OBVIOUS
    <3>3. Open(m + 1)' = {}
        BY <2>1, <2>4, <3>2 DEF Open
    <3>4. QED
        BY <3>1, <3>3
  <2>8. CallsSearched'
    <3>1. ASSUME NEW c \in Above', NEW g \in Files,
                 g < calls'[Len(c)].next, g \notin Open(Len(c))', User(g, c[Len(c)])
          PROVE  Searched(c, g)'
      <4>1. Len(c) # m + 1
        <5>1. ~(g < 1)
            BY FilesAssumption DEF Files
        <5>2. QED
            BY <2>4, <3>1, <5>1
      <4>2. c \in Above /\ Len(c) \in 1 .. m /\ Len(c) \in 0 .. m
          BY <2>6, <4>1
      <4>3. g < calls[Len(c)].next /\ g \notin Open(Len(c))
          BY <2>4, <2>7, <3>1, <4>2
      <4>4. QED
          BY <1>m, <1>s, <3>1, <4>2, <4>3 DEF CallsSearched
    <3>2. QED
        BY <1>m, <3>1 DEF CallsSearched
  <2>9. RootsSearched'
      BY <1>m, <1>n, <1>s, <2>1, <2>7 DEF RootsSearched
  <2>10. DepthsReported'
    <3>1. ASSUME NEW c \in Above', NEW g \in Files, g \in Open(Len(c))'
          PROVE  DeepReported(c, g)'
      <4>1. Len(c) # m + 1
          BY <2>7, <3>1
      <4>2. c \in Above /\ Len(c) \in 0 .. m
          BY <2>6, <4>1
      <4>3. QED
          BY <1>m, <1>s, <2>7, <3>1, <4>2 DEF DepthsReported
    <3>2. QED
        BY <3>1 DEF DepthsReported
  <2>11. QED
      BY <1>l, <2>1, <2>8, <2>9, <2>10 DEF SearchInv
<1>5. CASE NotNested
  <2>1. /\ pc = "loop" /\ pc' = "loop" /\ Top.next <= N /\ calls' = Advanced(Top.level)
        /\ UNCHANGED <<root, arg, hierarchy>> /\ ~User(Top.next, name[Top.file])
      BY <1>5 DEF NotNested
  <2>2. Top.level \in Nat /\ m \in 1 .. m
    <3>1. Top \in Frames /\ m \in 1 .. m
        BY <1>0, <1>t, <2>1, TopIsFrame
    <3>2. QED
        BY <3>1 DEF Frames
  <2>3. /\ Len(calls') = m
        /\ \A k \in 1 .. m :
              /\ calls'[k].file = calls[k].file
              /\ calls'[k].next = IF k = m THEN Top.next + 1 ELSE calls[k].next
        /\ Top.next \in Files
      BY <1>0, <1>t, <2>1, <2>2, AdvancedFrames
  <2>4. (\A k \in 0 .. m : Open(k)' = Open(k)) /\ Above' = Above
    <3>1. \A k \in 0 .. m : k < m => k + 1 \in 1 .. m
        OBVIOUS
    <3>2. QED
        BY <1>0, <2>1, <2>3, <3>1 DEF Open, Above
  <2>5. hierarchy[m] = name[Top.file] /\ Top = calls[m]
      BY <1>0, <1>d, <1>t, <2>2 DEF NestInv, Top
  <2>6. ASSUME NEW c \in Above, NEW g \in Files,
               g < calls'[Len(c)].next, g \notin Open(Len(c))', User(g, c[Len(c)])
        PROVE  Searched(c, g)
    <3>1. Len(c) \in 1 .. m /\ Len(c) \in 0 .. m
        BY <1>p
    <3>2. g < calls[Len(c)].next
      <4>1. CASE Len(c) = m
        <5>1. g < Top.next + 1
            BY <2>3, <2>6, <3>1, <4>1
        <5>2. g # Top.next
            BY <1>p, <2>1, <2>5, <2>6, <4>1
        <5>3. g \in Nat /\ Top.next \in Nat
            BY <1>f, <2>3
        <5>4. g < Top.next
            BY <5>1, <5>2, <5>3
        <5>5. QED
            BY <2>5, <4>1, <5>4
      <4>2. CASE Len(c) # m
          BY <2>3, <2>6, <3>1, <4>2
      <4>3. QED
          BY <4>1, <4>2
    <3>3. QED
        BY <1>s, <2>4, <2>6, <3>1, <3>2 DEF CallsSearched
  <2>7. CallsSearched'
      BY <1>m, <2>4, <2>6 DEF CallsSearched
  <2>8. RootsSearched'
      BY <1>m, <1>n, <1>s, <2>1, <2>4 DEF RootsSearched
  <2>9. DepthsReported'
    <3>1. \A c \in Above : Open(Len(c))' = Open(Len(c))
        BY <1>p, <2>4
    <3>2. QED
        BY <1>m, <1>s, <2>4, <3>1 DEF DepthsReported
  <2>10. QED
      BY <1>l, <2>1, <2>7, <2>8, <2>9 DEF SearchInv
<1>6. CASE Nested
  <2>1. /\ pc = "loop" /\ pc' = "enter" /\ Top.next <= N
        /\ calls' = Advanced(Top.level + 1)
        /\ UNCHANGED <<root, hierarchy>>
        /\ arg' = [file |-> Top.next, level |-> Top.level + 1]
        /\ issues' = IF Related(Top.level + 1) THEN issues
                     ELSE issues \cup {[kind  |-> "Too many nested packages",
                                        file  |-> Top.file,
                                        chain |-> Append(hierarchy, name[Top.next])]}
      BY <1>6 DEF Nested
  <2>2. Top.level \in Nat /\ m \in 1 .. m
    <3>1. Top \in Frames /\ m \in 1 .. m
        BY <1>0, <1>t, <2>1, TopIsFrame
    <3>2. QED
        BY <3>1 DEF Frames
  <2>l. Top.level + 1 \in Nat
      BY <2>2
  <2>3. /\ Len(calls') = m
        /\ \A k \in 1 .. m :
              /\ calls'[k].file = calls[k].file
              /\ calls'[k].next = IF k = m THEN Top.next + 1 ELSE calls[k].next
        /\ Top.next \in Files
    <3>1. /\ Len(calls') = Len(calls)
          /\ \A k \in 1 .. Len(calls) :
                /\ calls'[k].file = calls[k].file
                /\ calls'[k].next = IF k = Len(calls) THEN Top.next + 1 ELSE calls[k].next
          /\ Top.next \in Files
        BY <1>t, <2>1, <2>l, AdvancedFrames
    <3>2. QED
        BY <1>0, <3>1
  <2>4. /\ Open(m) = {} /\ Open(m)' = {Top.next} /\ Above' = Above
        /\ \A k \in 0 .. m : k # m => Open(k)' = Open(k)
    <3>1. ~(m < m) /\ \A k \in 0 .. m : k # m => k < m /\ k + 1 \in 1 .. m
        OBVIOUS
    <3>2. QED
        BY <1>0, <2>1, <2>3, <3>1 DEF Open, Above
  <2>5. Top = calls[m]
      BY <1>0 DEF Top
  <2>6. ASSUME NEW c \in Above, NEW g \in Files,
               g < calls'[Len(c)].next, g \notin Open(Len(c))', User(g, c[Len(c)])
        PROVE  Searched(c, g)
    <3>1. Len(c) \in 1 .. m /\ Len(c) \in 0 .. m
        BY <1>p
    <3>2. g < calls[Len(c)].next /\ g \notin Open(Len(c))
      <4>1. CASE Len(c) = m
        <5>1. g < Top.next + 1 /\ g # Top.next
            BY <2>3, <2>4, <2>6, <3>1, <4>1
        <5>2. g \in Nat /\ Top.next \in Nat
            BY <1>f, <2>3
        <5>3. g < Top.next
            BY <5>1, <5>2
        <5>4. QED
            BY <2>4, <2>5, <4>1, <5>3
      <4>2. CASE Len(c) # m
          BY <2>3, <2>4, <2>6, <3>1, <4>2
      <4>3. QED
          BY <4>1, <4>2
    <3>3. QED
        BY <1>s, <2>6, <3>2 DEF CallsSearched
  <2>7. CallsSearched'
      BY <1>m, <2>4, <2>6 DEF CallsSearched
  <2>8. RootsSearched'
    <3>1. Open(0)' = Open(0)
        BY <2>2, <2>4
    <3>2. QED
        BY <1>m, <1>n, <1>s, <2>1, <3>1 DEF RootsSearched
  <2>9. ASSUME NEW c, NEW g, c = hierarchy, g = Top.next
        PROVE  DeepReported(c, g)'
    <3> DEFINE issue == [kind |-> "Too many nested packages", file |-> Top.file,
                         chain |-> Append(hierarchy, name[Top.next])]
    <3>i. issue.kind = "Too many nested packages" /\ issue.chain = Append(c, name[g])
        BY <2>9
    <3>j. ~Related(Top.level + 1) => issue \in issues'
        BY <2>1
    <3> HIDE DEF issue
    <3>r. Related(Len(c))' <=> Related(m)
        BY <1>0, <1>n, <2>9 DEF Related
    <3>1. SUFFICES ASSUME relation \in {"<", "<="}, ~Related(m)
                   PROVE  ~Related(Top.level + 1)
        BY <1>n, <3>i, <3>j, <3>r DEF DeepReported
    <3>2. Top.level >= m - 1
        BY <1>d, <1>t, <2>2, <2>5 DEF NestInv, LevelCoversDepth
    <3>3. limit \in Nat
        BY <1>t, LimitsAssumption DEF TypeOK
    <3>4. Top.level + 1 >= m
        BY <2>2, <3>2
    <3>5. QED
        BY <2>2, <3>1, <3>3, <3>4 DEF Related, IntParamRelation
  <2>10. DepthsReported'
    <3>1. ASSUME NEW c \in Above, NEW g \in Files, g \in Open(Len(c))'
          PROVE  DeepReported(c, g)'
      <4>1. CASE Len(c) = m
          BY <1>p, <2>4, <2>9, <3>1, <4>1
      <4>2. CASE Len(c) # m
        <5>1. g \in Open(Len(c))
            BY <1>p, <2>4, <3>1, <4>2
        <5>2. QED
            BY <1>m, <1>s, <5>1 DEF DepthsReported
      <4>3. QED
          BY <4>1, <4>2
    <3>2. QED
        BY <2>4, <3>1 DEF DepthsReported
  <2>11. QED
      BY <1>l, <2>1, <2>7, <2>8, <2>10 DEF SearchInv
<1>7. CASE Return
  <2>1. /\ pc = "loop" /\ Top.next = N + 1 /\ UNCHANGED <<root, arg>>
        /\ calls' = SubSeq(calls, 1, m - 1) /\ hierarchy' = SubSeq(hierarchy, 1, m - 1)
        /\ pc' \in {"loop", "roots"}
      BY <1>7, <1>0 DEF Return
  <2>2. m # 0 /\ m \in 1 .. m
      BY <1>0, <1>t, <2>1, TopIsFrame
  <2>3. PICK n \in Nat : m = n + 1 /\ n = m - 1
      BY <2>2
  <2>4. /\ Len(calls') = n /\ Len(hierarchy') = n /\ hierarchy' \in Seq(Names)
        /\ \A k \in 1 .. n : calls'[k] = calls[k]
        /\ \A k \in 1 .. n : hierarchy'[k] = hierarchy[k]
    <3>1. \A k \in 1 .. n : calls[k] \in Frames /\ hierarchy[k] \in Names
      <4>1. \A k \in 1 .. n : k \in 1 .. Len(calls) /\ k \in 1 .. Len(hierarchy)
          BY <1>0, <2>3
      <4>2. QED
          BY <1>q, <4>1, ElementOfSeq
    <3>2. /\ Len(calls') = IF 1 <= n THEN n - 1 + 1 ELSE 0
          /\ \A k \in 1 .. n - 1 + 1 : calls'[k] = calls[1 + k - 1]
        BY <2>1, <2>3, <3>1, SubSeqProperties
    <3>3. /\ hierarchy' \in Seq(Names)
          /\ Len(hierarchy') = IF 1 <= n THEN n - 1 + 1 ELSE 0
          /\ \A k \in 1 .. n - 1 + 1 : hierarchy'[k] = hierarchy[1 + k - 1]
        BY <2>1, <2>3, <3>1, SubSeqProperties
    <3>4. n - 1 + 1 = n /\ (IF 1 <= n THEN n - 1 + 1 ELSE 0) = n /\ \A k \in 1 .. n : 1 + k - 1 = k
        OBVIOUS
    <3>5. QED
        BY <3>2, <3>3, <3>4
  <2>5. \A c \in Above' : Len(c) \in 1 .. n /\ c \in Above
    <3>1. ASSUME NEW c \in Above' PROVE Len(c) \in 1 .. n /\ c \in Above
      <4>1. /\ c \in Seq(Names) /\ Len(c) \in 1 .. n
            /\ \A j \in 1 .. Len(c) : c[j] = hierarchy'[j]
          BY <2>4, <3>1, PrefixIs DEF Above
      <4>2. Len(c) \in 1 .. m /\ \A j \in 1 .. Len(c) : c[j] = hierarchy[j]
          BY <2>3, <2>4, <4>1
      <4>3. QED
          BY <1>0, <1>q, <4>1, <4>2, PrefixIs DEF Above
    <3>2. QED
        BY <3>1
  <2>6. /\ Open(m) = {} /\ Open(n) = {Top.file} /\ Open(n)' = {}
        /\ \A k \in 0 .. n : k # n => Open(k)' = Open(k)
    <3>1. ~(m < m) /\ n < m /\ ~(n < n) /\ n + 1 = m
        BY <2>3
    <3>2. \A k \in 0 .. n : k # n => k < n /\ k < m /\ k + 1 \in 1 .. n
        BY <2>3
    <3>3. QED
        BY <1>0, <2>1, <2>4, <3>1, <3>2 DEF Open, Top
  \* The chain this call was for has been searched to its end ...
  <2>7. hierarchy[m] = name[Top.file] /\ Top.file \in Files /\ Top = calls[m]
      BY <1>0, <1>d, <1>t, <2>1, <2>2, TopIsFrame DEF NestInv, Top, Frames
  <2>8. hierarchy \in Above
      BY <1>0, <1>q, <2>2, PrefixIs DEF Above
  <2>9. AllBelow(hierarchy)
    <3>1. ASSUME NEW g \in Files, User(g, hierarchy[Len(hierarchy)])
          PROVE  Searched(hierarchy, g)
      <4>1. g < N + 1
          BY FilesAssumption DEF Files
      <4>2. QED
          BY <1>0, <1>s, <2>1, <2>6, <2>7, <2>8, <3>1, <4>1 DEF CallsSearched
    <3>2. hierarchy # <<>>
        BY <1>e, <2>2
    <3>3. QED
        BY <1>q, <3>1, <3>2, AllUsersSearched
  \* ... which is what the caller waits for.
  <2>10. ASSUME NEW c \in Above, Len(c) = n PROVE Searched(c, Top.file)
    <3>1. c \in Seq(Names) /\ \A k \in 1 .. n : c[k] = hierarchy[k]
        BY <1>p, <2>10
    <3>2. DOMAIN c = 1 .. n
        BY <2>10, <3>1, LenProperties
    <3>3. DeepReported(c, Top.file)
        BY <1>s, <2>6, <2>7, <2>10 DEF DepthsReported
    <3>4. ~On(name[Top.file], c)
      <4>1. SUFFICES ASSUME NEW k \in 1 .. n, c[k] = name[Top.file] PROVE FALSE
          BY <3>2 DEF On
      <4>2. hierarchy[k] = hierarchy[m] /\ k \in 1 .. m /\ k # m
          BY <2>3, <2>7, <3>1, <4>1
      <4>3. QED
          BY <1>0, <1>t, <2>2, <4>2 DEF NestInv, HierarchyIsChain, IsChain
    <3>5. Append(c, name[Top.file]) = hierarchy
      <4>1. name[Top.file] \in Names
          BY <1>t, <2>7 DEF TypeOK
      <4> DEFINE e == Append(c, name[Top.file])
      <4>2. /\ e \in Seq(Names) /\ Len(e) = n + 1 /\ e[n + 1] = name[Top.file]
            /\ \A k \in 1 .. n : e[k] = c[k]
          BY <2>10, <3>1, <4>1, AppendProperties
      <4> HIDE DEF e
      <4>3. \A k \in 1 .. m : k \in 1 .. n \/ k = m
          BY <2>3
      <4>4. Len(e) = Len(hierarchy) /\ \A k \in 1 .. Len(e) : e[k] = hierarchy[k]
          BY <1>0, <2>3, <2>7, <3>1, <4>2, <4>3
      <4>5. e = hierarchy
          BY <1>q, <4>2, <4>4, SeqEqual
      <4>6. QED
          BY <4>5 DEF e
    <3>6. QED
        BY <2>9, <3>3, <3>4, <3>5 DEF Searched, Reported
  <2>11. CallsSearched'
    <3>1. ASSUME NEW c \in Above', NEW g \in Files,
                 g < calls'[Len(c)].next, g \notin Open(Len(c))', User(g, c[Len(c)])
          PROVE  Searched(c, g)
      <4>1. c \in Above /\ Len(c) \in 1 .. n /\ Len(c) \in 0 .. n
          BY <2>5
      <4>2. g < calls[Len(c)].next
          BY <2>4, <3>1, <4>1
      <4>3. CASE Len(c) = n /\ g = Top.file
          BY <2>10, <4>1, <4>3
      <4>4. CASE ~(Len(c) = n /\ g = Top.file)
        <5>1. g \notin Open(Len(c))
            BY <2>6, <3>1, <4>1, <4>4
        <5>2. QED
            BY <1>s, <3>1, <4>1, <4>2, <5>1 DEF CallsSearched
      <4>5. QED
          BY <4>3, <4>4
    <3>2. QED
        BY <1>m, <3>1 DEF CallsSearched
  <2>12. RootsSearched'
    <3>1. ASSUME NEW f \in Files, NEW x \in Names, f < root, f \notin Open(0)', x = name[f]
          PROVE  AllBelow(<<x>>)
      <4>1. CASE f \in Open(0)
        <5>1. n = 0
            BY <2>6, <3>1, <4>1
        <5>2. f = Top.file /\ m = 1
            BY <2>3, <2>6, <4>1, <5>1
        <5>3. hierarchy = <<x>>
          <6>1. Len(<<x>>) = 1 /\ <<x>>[1] = x /\ <<x>> \in Seq(Names)
              OBVIOUS
          <6>2. Len(hierarchy) = 1 /\ hierarchy[1] = x
              BY <1>0, <2>7, <3>1, <5>2
          <6>3. \A k \in 1 .. 1 : k = 1
              OBVIOUS
          <6>4. Len(hierarchy) = Len(<<x>>) /\ \A k \in 1 .. Len(hierarchy) : hierarchy[k] = <<x>>[k]
              BY <6>1, <6>2, <6>3
          <6>5. QED
              BY <1>q, <6>1, <6>4, SeqEqual
        <5>4. QED
            BY <2>9, <5>3
      <4>2. CASE f \notin Open(0)
          BY <1>s, <3>1, <4>2 DEF RootsSearched
      <4>3. QED
          BY <4>1, <4>2
    <3>2. QED
        BY <1>m, <1>n, <2>1, <3>1 DEF RootsSearched
  <2>13. DepthsReported'
    <3>1. ASSUME NEW c \in Above', NEW g \in Files, g \in Open(Len(c))'
          PROVE  DeepReported(c, g)
      <4>1. c \in Above /\ Len(c) \in 0 .. n
          BY <2>5
      <4>2. g \in Open(Len(c))
          BY <2>6, <3>1, <4>1
      <4>3. QED
          BY <1>s, <4>1, <4>2 DEF DepthsReported
    <3>2. QED
        BY <1>m, <3>1 DEF DepthsReported
  <2>14. QED
      BY <1>l, <2>1, <2>11, <2>12, <2>13 DEF SearchInv
<1>8. CASE Done \/ UNCHANGED vars
  <2>1. UNCHANGED <<pc, root, arg, calls, hierarchy>>
      BY <1>8 DEF Done, vars
  <2>2. (\A k : Open(k)' = Open(k)) /\ Above' = Above
      BY <2>1 DEF Open, Above
  <2>3. CallsSearched' /\ DepthsReported'
      BY <1>m, <1>s, <2>1, <2>2 DEF CallsSearched, DepthsReported
  <2>4. RootsSearched'
      BY <1>m, <1>n, <1>s, <2>1, <2>2 DEF RootsSearched
  <2>5. QED
      BY <1>l, <1>s, <2>1, <2>3, <2>4 DEF SearchInv
<1>9. QED
    BY <1>1, <1>2, <1>3, <1>4, <1>5, <1>6, <1>7, <1>8 DEF Next

LEMMA Inductive == Spec => []IInv
<1>1. Init => IInv
    BY InitTypeOK, InitNestInv, InitSearchInv DEF IInv
<1>2. IInv /\ [Next]_vars => IInv'
    BY NextTypeOK, NextNestInv, NextSearchInv DEF IInv
<1>3. QED
    BY <1>1, <1>2, PTL DEF Spec

(* A chain of packages is no longer than there are files: each of its        *)
(* packages has one, and no two have the same.                               *)
LEMMA ChainBounded ==
  ASSUME NEW c \in Seq(Names), IsChain(c), c # <<>>,
         \E f \in Files : name[f] = c[1]
  PROVE  c \in Walks
<1>1. Len(c) \in Nat \ {0} /\ c \in [1 .. Len(c) -> Names]
    BY EmptySeq, LenProperties
<1>2. \A k \in 1 .. Len(c) : \E f \in Files : name[f] = c[k]
  <2>1. SUFFICES ASSUME NEW k \in 1 .. Len(c) PROVE \E f \in Files : name[f] = c[k]
      OBVIOUS
  <2>2. CASE k = 1
      BY <2>2
  <2>3. CASE k # 1
    <3>1. k - 1 \in 1 .. Len(c) - 1 /\ k - 1 + 1 = k
        BY <1>1, <2>3
    <3>2. \E f \in Files : name[f] = c[k - 1 + 1]
        BY <3>1 DEF IsChain
    <3>3. QED
        BY <3>1, <3>2
  <2>4. QED
      BY <2>2, <2>3
<1> DEFINE file == [k \in 1 .. Len(c) |-> CHOOSE f \in Files : name[f] = c[k]]
<1>3. \A k \in 1 .. Len(c) : file[k] \in Files /\ name[file[k]] = c[k]
    BY <1>2
<1>4. file \in [1 .. Len(c) -> Files]
    BY <1>3
<1> HIDE DEF file
<1>5. ASSUME Len(c) > N PROVE FALSE
  <2>1. /\ IsFiniteSet(Files) /\ IsFiniteSet(1 .. Len(c))
        /\ Cardinality(Files) = N /\ Cardinality(1 .. Len(c)) = Len(c)
    <3>1. IsFiniteSet(1 .. N) /\ Cardinality(1 .. N) = IF 1 > N THEN 0 ELSE N - 1 + 1
        BY FilesAssumption, FS_Interval
    <3>2. /\ IsFiniteSet(1 .. Len(c))
          /\ Cardinality(1 .. Len(c)) = IF 1 > Len(c) THEN 0 ELSE Len(c) - 1 + 1
        BY <1>1, FS_Interval
    <3>3. ASSUME NEW x \in Nat PROVE (IF 1 > x THEN 0 ELSE x - 1 + 1) = x
        OBVIOUS
    <3>4. QED
        BY <1>1, <3>1, <3>2, <3>3, FilesAssumption DEF Files
  <2>2. Cardinality(Files) < Cardinality(1 .. Len(c))
      BY <1>1, <1>5, <2>1, FilesAssumption
  <2>3. PICK j, k \in 1 .. Len(c) : j # k /\ file[j] = file[k]
      BY <1>4, <2>1, <2>2, FS_PigeonHole
  <2>4. c[j] = c[k]
      BY <1>3, <2>3
  <2>5. QED
      BY <2>3, <2>4 DEF IsChain
<1>6. Len(c) \in Files
    BY <1>1, <1>5, FilesAssumption DEF Files
<1>7. QED
    BY <1>1, <1>6 DEF Walks

(* The rest of a chain from one of its packages on is a chain.               *)
LEMMA ChainRest ==
  ASSUME NEW c \in Seq(Names), IsChain(c), NEW j \in 1 .. Len(c)
  PROVE  LET d == SubSeq(c, j, Len(c))
         IN  /\ d \in Seq(Names) /\ IsChain(d) /\ d # <<>>
             /\ d[1] = c[j] /\ d[Len(d)] = c[Len(c)]
<1> DEFINE d == SubSeq(c, j, Len(c))
<1>1. PICK n \in Nat : n = Len(c)
    BY LenProperties
<1>2. j \in 1 .. n /\ n >= j
    BY <1>1
<1>3. \A i \in j .. n : c[i] \in Names
    BY <1>1, <1>2, ElementOfSeq
<1>4. PICK m \in Nat : m = n - j + 1 /\ m >= 1
    BY <1>2
<1>5. d \in Seq(Names) /\ Len(d) = m /\ \A i \in 1 .. m : d[i] = c[j + i - 1]
  <2>1. j \in Int /\ n \in Int /\ j <= n
      BY <1>2
  <2>2. QED
      BY <1>1, <1>3, <1>4, <2>1, SubSeqProperties
<1> HIDE DEF d
<1>6. d # <<>>
  <2>1. Len(d) # 0
      BY <1>4, <1>5
  <2>2. QED
      BY <2>1, EmptySeq
<1>7. d[1] = c[j] /\ d[Len(d)] = c[Len(c)]
  <2>1. 1 \in 1 .. m /\ m \in 1 .. m /\ j + 1 - 1 = j /\ j + m - 1 = n
      BY <1>2, <1>4
  <2>2. QED
      BY <1>1, <1>5, <2>1
<1>8. ASSUME NEW k \in 1 .. m - 1 PROVE \E g \in Files : name[g] = d[k + 1] /\ User(g, d[k])
  <2>1. /\ j + k - 1 \in 1 .. n - 1 /\ j + (k + 1) - 1 = j + k - 1 + 1
        /\ k \in 1 .. m /\ k + 1 \in 1 .. m
      BY <1>2, <1>4
  <2>2. PICK x \in 1 .. n - 1 : x = j + k - 1
      BY <2>1
  <2>3. \E g \in Files : name[g] = c[x + 1] /\ User(g, c[x])
      BY <1>1 DEF IsChain
  <2>4. d[k] = c[x] /\ d[k + 1] = c[x + 1]
      BY <1>5, <2>1, <2>2
  <2>5. QED
      BY <2>3, <2>4
<1>9. ASSUME NEW k \in 1 .. m, NEW l \in 1 .. m, d[k] = d[l] PROVE k = l
  <2>1. j + k - 1 \in 1 .. n /\ j + l - 1 \in 1 .. n
      BY <1>2, <1>4
  <2>2. c[j + k - 1] = c[j + l - 1]
      BY <1>5, <1>9
  <2>3. j + k - 1 = j + l - 1
      BY <1>1, <2>1, <2>2 DEF IsChain
  <2>4. QED
      BY <1>2, <2>3
<1>10. IsChain(d)
    BY <1>5, <1>8, <1>9 DEF IsChain
<1>11. QED
    BY <1>5, <1>6, <1>7, <1>10 DEF d

(* When the search is over, all users of all chains have been reported.      *)
LEMMA AllReported ==
  ASSUME IInv, pc = "done", NEW c \in Chains, NEW g \in Files, User(g, c[Len(c)])
  PROVE  Reported(c, g)
<1>1. c \in Walks /\ IsChain(c)
    BY DEF Chains
<1>2. PICK f \in Files : name[f] = c[1]
    BY DEF Chains
<1>3. c \in Seq(Names) /\ Len(c) \in 1 .. N
    BY <1>1, WalkIsSeq
<1>4. root = N + 1
    BY DEF IInv, SearchInv
<1>5. Open(0) = {}
  <2>1. hierarchy = <<>>
      BY DEF IInv, NestInv, HierarchyIsChain
  <2>2. Len(calls) = 0
      BY <2>1, EmptySeq DEF IInv, TypeOK, NestInv
  <2>3. ~(0 < 0)
      OBVIOUS
  <2>4. QED
      BY <2>2, <2>3 DEF Open
<1>6. c[1] \in Names
    BY <1>2 DEF IInv, TypeOK
<1>7. AllBelow(<<c[1]>>)
  <2>1. f < root
      BY <1>4, FilesAssumption DEF Files
  <2>2. QED
      BY <1>2, <1>5, <1>6, <2>1 DEF IInv, SearchInv, RootsSearched
<1>8. Len(<<c[1]>>) = 1 /\ <<c[1]>>[1] = c[1] /\ \A j \in 1 .. 1 : j = 1
    OBVIOUS
<1>9. Len(<<c[1]>>) <= Len(c) /\ \A j \in 1 .. Len(<<c[1]>>) : c[j] = <<c[1]>>[j]
    BY <1>3, <1>8
<1>10. QED
    BY <1>1, <1>7, <1>9 DEF AllBelow

LEMMA LoopsFound == IInv => LoopsReported
<1> SUFFICES ASSUME IInv, pc = "done", NEW f \in Files
             PROVE  (\E i \in issues : i.kind = "Infinite loop" /\ i.file = f)
                    <=> \E c \in Chains : c[1] = name[f] /\ User(f, c[Len(c)])
    BY DEF LoopsReported
<1>1. ASSUME NEW i \in issues, i.kind = "Infinite loop", i.file = f
      PROVE  \E c \in Chains : c[1] = name[f] /\ User(f, c[Len(c)])
  <2>1. i.chain \in Seq(Names)
      BY DEF IInv, TypeOK, Issues
  <2>2. IsChain(i.chain) /\ On(name[f], i.chain) /\ User(f, i.chain[Len(i.chain)])
      BY <1>1 DEF IInv, SearchInv, LoopsTrue
  <2>3. PICK j \in 1 .. Len(i.chain) : i.chain[j] = name[f]
      BY <2>1, <2>2, LenProperties DEF On
  <2>4. PICK d : /\ d \in Seq(Names) /\ IsChain(d) /\ d # <<>>
                 /\ d[1] = i.chain[j] /\ d[Len(d)] = i.chain[Len(i.chain)]
    <3>1. PICK h \in Seq(Names) : h = i.chain
        BY <2>1
    <3>2. IsChain(h) /\ j \in 1 .. Len(h)
        BY <2>2, <3>1
    <3>3. LET d == SubSeq(h, j, Len(h))
          IN  /\ d \in Seq(Names) /\ IsChain(d) /\ d # <<>>
              /\ d[1] = h[j] /\ d[Len(d)] = h[Len(h)]
        BY <3>2, ChainRest
    <3>4. QED
        BY <3>1, <3>3
  <2>5. d \in Chains
      BY <2>3, <2>4, ChainBounded DEF Chains
  <2>6. QED
      BY <2>2, <2>3, <2>4, <2>5
<1>2. ASSUME NEW c \in Chains, c[1] = name[f], User(f, c[Len(c)])
      PROVE  \E i \in issues : i.kind = "Infinite loop" /\ i.file = f
  <2>1. Reported(c, f)
      BY <1>2, AllReported
  <2>2. On(name[f], c)
    <3>1. 1 \in DOMAIN c
      <4>1. Len(c) \in 1 .. N /\ DOMAIN c = 1 .. Len(c)
          BY WalkIsSeq DEF Chains
      <4>2. QED
          BY <4>1, FilesAssumption
    <3>2. QED
        BY <1>2, <3>1 DEF On
  <2> DEFINE issue == [kind |-> "Infinite loop", file |-> f, chain |-> c]
  <2>3. issue \in issues
      BY <2>1, <2>2 DEF Reported
  <2>4. issue.kind = "Infinite loop" /\ issue.file = f
      OBVIOUS
  <2>5. QED
      BY <2>3, <2>4
<1>3. QED
    BY <1>1, <1>2

LEMMA DepthFound == IInv => DeepNestingReported
<1>1. SUFFICES ASSUME IInv, pc = "done", relation \in {"<", "<="},
                      NEW c \in Chains, NEW g \in Files,
                      User(g, c[Len(c)]), ~Related(Len(c))
               PROVE  \E i \in issues : /\ i.kind = "Too many nested packages"
                                        /\ i.chain = Append(c, name[g])
    BY DEF DeepNestingReported
<1>2. QED
    BY <1>1, AllReported DEF Reported, DeepReported

-----------------------------------------------------------------------------
(* The state of the search keeps its types.                                  *)
THEOREM TypeCorrect == Spec => []TypeOK
<1>1. IInv => TypeOK
    BY DEF IInv
<1>2. QED
    BY <1>1, Inductive, PTL

(* packagesHierarchy is a chain of different packages, each the user of the  *)
(* one before it, and empty between the packages execute() starts from.      *)
THEOREM HierarchyChain == Spec => []HierarchyIsChain
<1>1. IInv => HierarchyIsChain
    BY DEF IInv, NestInv
<1>2. QED
    BY <1>1, Inductive, PTL

(* The level a package is compared with is at least its depth, so that with  *)
(* a relation "<" or "<=" no chain beyond the limit is passed over.          *)
THEOREM LevelAtLeastDepth == Spec => []LevelCoversDepth
<1>1. IInv => LevelCoversDepth
    BY DEF IInv, NestInv
<1>2. QED
    BY <1>1, Inductive, PTL

(* When checkVhdlPackage() has been called for every package, exactly the    *)
(* packages on loops are reported to be on one, and with a relation "<" or   *)
(* "<=" every chain beyond the limit is; for all packages, files and limits. *)
THEOREM SearchReportsAll == Spec => []NestingReported
<1>1. IInv => NestingReported
    BY LoopsFound, DepthFound DEF NestingReported
<1>2. QED
    BY <1>1, Inductive, PTL
=============================================================================
