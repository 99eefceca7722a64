--------------------------- MODULE FdTableProofs ---------------------------
(***************************************************************************)
(* Proofs about FdTable, for every size of the descriptor, file and pipe   *)
(* tables.                                                                 *)
(***************************************************************************)
EXTENDS FdTable, FiniteSetTheorems, SequenceTheorems, TLAPS

PipeKinds == {"PIPE_READ", "PIPE_WRITE"}

(* references counts the descriptors that name the file, whoever has them. *)
Counted == \A f \in FileIds : refs[f] = Cardinality(Naming(Entries, f))

(* fd_close_owner leaves no descriptor of a process that is gone. *)
DeadClosed == \A e \in Entries : fds[e] # None => e[1] \in live

(* An end of a pipe is behind at most one open file: the counts of a pipe   *)
(* never exceed one, and one release takes the end away.                    *)
OneEnd ==
    \A k \in PipeKinds, i \in PipeIds : \A f, g \in FileIds :
        /\ refs[f] > 0 /\ file[f] = PipeEnd(k, i)
        /\ refs[g] > 0 /\ file[g] = PipeEnd(k, i)
        => f = g

(* What is behind the open files, whichever descriptors name them. *)
Behind ==
    /\ PipeEndsMatch
    /\ OneEnd
    /\ NoStaleBytes
    /\ ObjectsMatch

IInv ==
    /\ TypeOK
    /\ Counted
    /\ DeadClosed
    /\ Behind

-----------------------------------------------------------------------------
(* What the steps have in common *)

(* None is no open file, and the bounds are numbers. *)
LEMMA Ranges ==
  /\ None \notin FileIds /\ FileIds \subseteq Nat
  /\ NProcs \in Nat /\ NFds \in Nat /\ PipeSize \in Nat /\ MaxPipes \in Nat
  <1>1. NProcs \in Nat /\ NFds \in Nat /\ PipeSize \in Nat /\ MaxPipes \in Nat
    BY FdAssumption, LifecycleAssumption
  <1>2. FileIds \subseteq Nat
    BY <1>1 DEF FileIds
  <1> QED
    BY <1>1, <1>2 DEF None

(* The contents of open files tell ends of pipes, objects and the rest       *)
(* apart.                                                                    *)
LEMMA Contents ==
  /\ \A k \in PipeKinds, i \in PipeIds :
        PipeEnd(k, i) \in Files /\ PipeEnd(k, i) \notin {NoFile, PlainFile, PtyFile}
  /\ \A k, l \in PipeKinds, i, j \in PipeIds : PipeEnd(k, i) = PipeEnd(l, j) => k = l /\ i = j
  /\ \A o \in Objects : Custom(o) \in Files /\ Custom(o) \notin {NoFile, PlainFile, PtyFile}
  /\ \A o, q \in Objects : Custom(o) = Custom(q) => o = q
  /\ \A k \in PipeKinds, i \in PipeIds, o \in Objects : Custom(o) # PipeEnd(k, i)
  /\ NoFile \in Files /\ PlainFile \in Files /\ PtyFile \in Files
  <1>1. \A k, i : PipeEnd(k, i).kind = k /\ PipeEnd(k, i).pipe = i
    BY DEF PipeEnd
  <1>2. \A o : Custom(o).kind = "CUSTOM" /\ Custom(o).object = o
    BY DEF Custom
  <1>3. NoFile.kind = "NONE" /\ PlainFile.kind = "FILE" /\ PtyFile.kind = "PTY"
    BY DEF NoFile, PlainFile, PtyFile
  <1>4. \A k \in PipeKinds : k \notin {"CUSTOM", "NONE", "FILE", "PTY"}
    BY DEF PipeKinds
  <1>5. \A k \in PipeKinds, i \in PipeIds :
        PipeEnd(k, i) \in Files /\ PipeEnd(k, i) \notin {NoFile, PlainFile, PtyFile}
    BY <1>1, <1>3, <1>4 DEF Files, PipeKinds
  <1>6. \A k, l \in PipeKinds, i, j \in PipeIds : PipeEnd(k, i) = PipeEnd(l, j) => k = l /\ i = j
    BY <1>1
  <1>7. \A o \in Objects : Custom(o) \in Files /\ Custom(o) \notin {NoFile, PlainFile, PtyFile}
    BY <1>2, <1>3 DEF Files
  <1>8. \A o, q \in Objects : Custom(o) = Custom(q) => o = q
    BY <1>2
  <1>9. \A k \in PipeKinds, i \in PipeIds, o \in Objects : Custom(o) # PipeEnd(k, i)
    BY <1>1, <1>2, <1>4
  <1>10. NoFile \in Files /\ PlainFile \in Files /\ PtyFile \in Files
    BY DEF Files
  <1> QED
    BY <1>5, <1>6, <1>7, <1>8, <1>9, <1>10

(* There are finitely many descriptors. *)
LEMMA Finite ==
  ASSUME NEW E \in SUBSET Entries
  PROVE  IsFiniteSet(E) /\ Cardinality(E) \in Nat
  <1>1. IsFiniteSet(Pids) /\ IsFiniteSet(Fds)
    BY Ranges, FS_Interval DEF Pids, Fds
  <1>2. IsFiniteSet(Entries)
    BY <1>1, FS_Product DEF Entries
  <1>3. IsFiniteSet(E)
    BY <1>2, FS_Subset
  <1> QED
    BY <1>3, FS_CardinalityType

(* A descriptor that names a file is counted, so the file is open. *)
LEMMA NamedIsOpen ==
  ASSUME IInv, NEW e \in Entries, fds[e] # None
  PROVE  fds[e] \in FileIds /\ refs[fds[e]] > 0 /\ IsOpen(e)
  <1>1. fds[e] \in FileIds
    BY DEF IInv, TypeOK
  <1> DEFINE N == Naming(Entries, fds[e])
  <1>2. e \in N /\ N \in SUBSET Entries
    BY DEF Naming
  <1>3. refs[fds[e]] = Cardinality(N)
    BY <1>1 DEF IInv, Counted
  <1> HIDE DEF N
  <1>4. IsFiniteSet(N) /\ Cardinality(N) \in Nat
    BY <1>2, Finite
  <1>5. Cardinality(N) # 0
    BY <1>2, <1>4, FS_EmptySet
  <1>6. refs[fds[e]] > 0
    BY <1>3, <1>4, <1>5
  <1> QED
    BY <1>1, <1>6 DEF IsOpen

(* No descriptor names a free file. *)
LEMMA FreeUnnamed ==
  ASSUME IInv, NEW f \in FileIds, refs[f] = 0
  PROVE  Naming(Entries, f) = {}
  <1>1. Naming(Entries, f) \in SUBSET Entries
    BY DEF Naming
  <1> QED
    BY <1>1, Finite, FS_EmptySet DEF IInv, Counted

(* The files behind which things are change in no step that keeps the set   *)
(* of open files and what they are, the pipes and the objects.              *)
LEMMA SameBehind ==
  ASSUME Behind, file' = file, pipe' = pipe, held' = held,
         \A f \in FileIds : refs'[f] > 0 <=> refs[f] > 0
  PROVE  Behind'
  <1>1. \A k \in PipeKinds, i \in PipeIds : EndsOpen(k, i)' <=> EndsOpen(k, i)
    BY DEF EndsOpen
  <1>2. PipeEndsMatch'
    BY <1>1 DEF Behind, PipeEndsMatch, PipeKinds
  <1>3. OneEnd'
    BY DEF Behind, OneEnd
  <1>4. NoStaleBytes'
    BY DEF Behind, NoStaleBytes
  <1>5. ObjectsMatch'
    BY DEF Behind, ObjectsMatch
  <1> QED
    BY <1>2, <1>3, <1>4, <1>5 DEF Behind

-----------------------------------------------------------------------------
(* Opening *)

(* A free file becomes one that is neither an end of a pipe nor an object in *)
(* use.                                                                      *)
LEMMA NewFile ==
  ASSUME IInv, NEW f \in FileIds, refs[f] = 0, NEW n \in Nat, n > 0, NEW content,
         refs' = [refs EXCEPT ![f] = n], file' = [file EXCEPT ![f] = content], pipe' = pipe,
         \/ content \in {PlainFile, PtyFile} /\ held' = held
         \/ \E o \in Objects \ held : content = Custom(o) /\ held' = held \union {o}
  PROVE  Behind'
  <1>1. \A k \in PipeKinds, i \in PipeIds : content # PipeEnd(k, i)
    BY Contents
  <1>2. /\ refs \in [FileIds -> Nat] /\ file \in [FileIds -> Files]
        /\ held \subseteq Objects
    BY DEF IInv, TypeOK
  <1>3. \A g \in FileIds, k \in PipeKinds, i \in PipeIds :
           (refs'[g] > 0 /\ file'[g] = PipeEnd(k, i)) <=> (refs[g] > 0 /\ file[g] = PipeEnd(k, i))
    BY <1>1, <1>2
  <1>4. \A k \in PipeKinds, i \in PipeIds : EndsOpen(k, i)' <=> EndsOpen(k, i)
    BY <1>3 DEF EndsOpen
  <1>5. PipeEndsMatch'
    BY <1>4 DEF IInv, Behind, PipeEndsMatch, PipeKinds
  <1>6. OneEnd'
    BY <1>3 DEF IInv, Behind, OneEnd
  <1>7. NoStaleBytes'
    BY DEF IInv, Behind, NoStaleBytes
  <1>8. ObjectsMatch'
    <2> SUFFICES ASSUME NEW o \in Objects
                 PROVE  LET F == {g \in FileIds : refs'[g] > 0 /\ file'[g] = Custom(o)}
                        IN  /\ o \in held' <=> F # {}
                            /\ \A g, h \in F : g = h
      BY DEF ObjectsMatch
    <2> DEFINE F == {g \in FileIds : refs[g] > 0 /\ file[g] = Custom(o)}
               G == {g \in FileIds : refs'[g] > 0 /\ file'[g] = Custom(o)}
    <2>1. (o \in held <=> F # {}) /\ \A g, h \in F : g = h
      BY DEF IInv, Behind, ObjectsMatch
    <2>2. CASE content = Custom(o)
      <3>1. o \notin held /\ held' = held \union {o}
        BY <2>2, Contents
      <3>2. G = {f}
        BY <1>2, <2>1, <2>2, <3>1
      <3> QED
        BY <3>1, <3>2
    <2>3. CASE content # Custom(o)
      <3>1. o \in held' <=> o \in held
        BY <2>3
      <3>2. G = F
        BY <1>2, <2>3
      <3> QED
        BY <2>1, <3>1, <3>2
    <2> QED
      BY <2>2, <2>3
  <1> QED
    BY <1>5, <1>6, <1>7, <1>8 DEF Behind

(* fd_open, fd_bind_pty and fd_create_custom. *)
LEMMA OpenNewStep ==
  ASSUME IInv, NEW p \in Pids, NEW d \in Fds, NEW f \in FileIds, NEW content,
         OpenNew(p, d, f, content),
         \/ content \in {PlainFile, PtyFile} /\ held' = held
         \/ \E o \in Objects \ held : content = Custom(o) /\ held' = held \union {o}
  PROVE  IInv'
  <1> DEFINE e == <<p, d>>
  <1>1. e \in Entries /\ e[1] = p
    BY DEF Entries
  <1>2. /\ refs[f] = 0 /\ fds[e] = None /\ p \in live
        /\ fds' = [fds EXCEPT ![e] = f] /\ refs' = [refs EXCEPT ![f] = 1]
        /\ file' = [file EXCEPT ![f] = content] /\ pipe' = pipe
        /\ UNCHANGED <<live, incarnation, kinds>>
    BY DEF OpenNew, Lowest, ClosedFds, FreeFiles
  <1> HIDE DEF e
  <1>3. content \in Files /\ held' \in SUBSET Objects
    BY Contents DEF IInv, TypeOK
  <1>4. TypeOK'
    BY <1>1, <1>2, <1>3 DEF IInv, TypeOK, LifecycleTypeOK
  <1>5. Counted'
    <2> SUFFICES ASSUME NEW g \in FileIds
                 PROVE  refs'[g] = Cardinality({x \in Entries : fds'[x] = g})
      BY DEF Counted, Naming
    <2>1. CASE g = f
      <3>1. {x \in Entries : fds'[x] = f} = {e}
        BY <1>1, <1>2, FreeUnnamed DEF IInv, TypeOK, Naming
      <3>2. refs'[f] = 1
        BY <1>2 DEF IInv, TypeOK
      <3> QED
        BY <2>1, <3>1, <3>2, FS_Singleton
    <2>2. CASE g # f
      <3>1. {x \in Entries : fds'[x] = g} = Naming(Entries, g)
        BY <1>1, <1>2, <2>2, Ranges DEF IInv, TypeOK, Naming
      <3>2. refs'[g] = refs[g]
        BY <1>2, <2>2 DEF IInv, TypeOK
      <3> QED
        BY <3>1, <3>2 DEF IInv, Counted
    <2> QED
      BY <2>1, <2>2
  <1>6. DeadClosed'
    BY <1>1, <1>2 DEF IInv, DeadClosed, TypeOK
  <1>7. Behind'
    <2>1. 1 \in Nat /\ 1 > 0
      OBVIOUS
    <2> QED
      BY <1>2, <2>1, NewFile
  <1> QED
    BY <1>4, <1>5, <1>6, <1>7 DEF IInv

(* The three standard descriptors share one terminal. *)
LEMMA BindPtyStdioStep ==
  ASSUME IInv, NEW p \in Pids, NEW f \in FileIds, BindPtyStdio(p, f)
  PROVE  IInv'
  <1> DEFINE a == <<p, 0>>
             b == <<p, 1>>
             c == <<p, 2>>
  <1>1. /\ a \in Entries /\ b \in Entries /\ c \in Entries
        /\ a # b /\ a # c /\ b # c
        /\ a[1] = p /\ b[1] = p /\ c[1] = p
    BY FdAssumption DEF Entries, Fds
  <1>2. /\ refs[f] = 0 /\ fds[a] = None /\ fds[b] = None /\ fds[c] = None /\ p \in live
        /\ refs' = [refs EXCEPT ![f] = 3]
        /\ file' = [file EXCEPT ![f] = PtyFile] /\ pipe' = pipe /\ held' = held
        /\ UNCHANGED <<live, incarnation, kinds>>
    BY DEF BindPtyStdio, Lowest, ClosedFds, FreeFiles, Stdio
  <1>3. fds' = [x \in Entries |-> IF x \in {a, b, c} THEN f ELSE fds[x]]
    <2>1. \A x \in Entries : (x[1] = p /\ x[2] \in Stdio) <=> x \in {a, b, c}
      BY DEF Entries, Stdio
    <2> QED
      BY <2>1 DEF BindPtyStdio
  <1> HIDE DEF a, b, c
  <1>4. TypeOK'
    BY <1>1, <1>2, <1>3, Contents DEF IInv, TypeOK, LifecycleTypeOK
  <1>5. Counted'
    <2> SUFFICES ASSUME NEW g \in FileIds
                 PROVE  refs'[g] = Cardinality({x \in Entries : fds'[x] = g})
      BY DEF Counted, Naming
    <2>1. CASE g = f
      <3>1. {x \in Entries : fds'[x] = f} = ({a} \union {b}) \union {c}
        BY <1>1, <1>2, <1>3, FreeUnnamed DEF Naming
      <3>2. IsFiniteSet({a}) /\ Cardinality({a}) = 1
        BY FS_Singleton
      <3>3. IsFiniteSet({a} \union {b}) /\ Cardinality({a} \union {b}) = 2
        <4>1. b \notin {a}
          BY <1>1
        <4>2. /\ IsFiniteSet({a} \union {b})
              /\ Cardinality({a} \union {b}) = IF b \in {a} THEN Cardinality({a}) ELSE Cardinality({a}) + 1
          BY <3>2, FS_AddElement, Zenon
        <4> QED
          BY <3>2, <4>1, <4>2
      <3>4. Cardinality(({a} \union {b}) \union {c}) = 3
        <4> DEFINE T == {a} \union {b}
        <4>1. c \notin T /\ IsFiniteSet(T) /\ Cardinality(T) = 2
          BY <1>1, <3>3
        <4> HIDE DEF T
        <4>2. Cardinality(T \union {c}) = IF c \in T THEN Cardinality(T) ELSE Cardinality(T) + 1
          BY <4>1, FS_AddElement, Zenon
        <4>3. Cardinality(T \union {c}) = 3
          BY <4>1, <4>2
        <4> QED
          BY <4>3 DEF T
      <3>5. refs'[f] = 3
        BY <1>2 DEF IInv, TypeOK
      <3> QED
        BY <2>1, <3>1, <3>4, <3>5
    <2>2. CASE g # f
      <3>1. {x \in Entries : fds'[x] = g} = Naming(Entries, g)
        BY <1>1, <1>2, <1>3, <2>2, Ranges DEF Naming
      <3>2. refs'[g] = refs[g]
        BY <1>2, <2>2 DEF IInv, TypeOK
      <3> QED
        BY <3>1, <3>2 DEF IInv, Counted
    <2> QED
      BY <2>1, <2>2
  <1>6. DeadClosed'
    BY <1>1, <1>2, <1>3 DEF IInv, DeadClosed
  <1>7. Behind'
    <2>1. 3 \in Nat /\ 3 > 0
      OBVIOUS
    <2> QED
      BY <1>2, <2>1, NewFile
  <1> QED
    BY <1>4, <1>5, <1>6, <1>7 DEF IInv

(* fd_pipe_create *)
LEMMA PipeCreateStep ==
  ASSUME IInv, NEW p \in Pids, NEW rd \in Fds, NEW wd \in Fds, NEW rf \in FileIds,
         NEW wf \in FileIds, NEW i \in PipeIds, PipeCreate(p, rd, wd, rf, wf, i)
  PROVE  IInv'
  <1> DEFINE a == <<p, rd>>
             b == <<p, wd>>
             new == [allocated |-> TRUE, readers |-> 1, writers |-> 1,
                     number |-> pipe[i].number + 1, bytes |-> <<>>]
  <1>1. a \in Entries /\ b \in Entries /\ a[1] = p /\ b[1] = p
    BY DEF Entries
  <1>2. /\ refs[rf] = 0 /\ refs[wf] = 0 /\ rf # wf /\ a # b /\ p \in live
        /\ fds[a] = None /\ fds[b] = None /\ ~pipe[i].allocated
    BY DEF PipeCreate, Lowest, ClosedFds, FreeFiles, FreePipes
  <1>3. /\ fds' = [fds EXCEPT ![a] = rf, ![b] = wf] /\ refs' = [refs EXCEPT ![rf] = 1, ![wf] = 1]
        /\ file' = [file EXCEPT ![rf] = PipeEnd("PIPE_READ", i), ![wf] = PipeEnd("PIPE_WRITE", i)]
        /\ pipe' = [pipe EXCEPT ![i] = new] /\ held' = held
        /\ UNCHANGED <<live, incarnation, kinds>>
    BY DEF PipeCreate
  <1>4. new \in PipeType /\ Len(new.bytes) = 0 /\ new.allocated /\ new.readers = 1 /\ new.writers = 1
    <2>1. pipe[i] \in PipeType /\ pipe[i].number < MaxPipes
      BY DEF PipeCreate, IInv, TypeOK
    <2>2. pipe[i].number + 1 \in 0 .. MaxPipes
      BY <2>1, Ranges DEF PipeType
    <2>3. 1 \in 0 .. 1 /\ <<>> \in Seq(0 .. MaxPipes) /\ Len(<<>>) = 0
      OBVIOUS
    <2> QED
      BY <2>2, <2>3 DEF PipeType
  <1> HIDE DEF a, b, new
  <1>5. TypeOK'
    <2>1. PipeEnd("PIPE_READ", i) \in Files /\ PipeEnd("PIPE_WRITE", i) \in Files
      BY Contents DEF PipeKinds
    <2>2. \A j \in PipeIds : Len(pipe'[j].bytes) <= PipeSize
      <3>1. \A j \in PipeIds : pipe'[j] = IF j = i THEN new ELSE pipe[j]
        BY <1>3 DEF IInv, TypeOK
      <3>2. Len(new.bytes) <= PipeSize
        BY <1>4, Ranges
      <3> QED
        BY <3>1, <3>2 DEF IInv, TypeOK
    <2> QED
      BY <1>1, <1>3, <1>4, <2>1, <2>2 DEF IInv, TypeOK, LifecycleTypeOK
  <1>6. Counted'
    <2> SUFFICES ASSUME NEW g \in FileIds
                 PROVE  refs'[g] = Cardinality({x \in Entries : fds'[x] = g})
      BY DEF Counted, Naming
    <2>0. fds \in [Entries -> FileIds \union {None}] /\ refs \in [FileIds -> Nat]
      BY DEF IInv, TypeOK
    <2>1. CASE g = rf
      <3>1. {x \in Entries : fds'[x] = rf} = {a}
        BY <1>1, <1>2, <1>3, <2>0, FreeUnnamed DEF Naming
      <3> QED
        BY <1>2, <1>3, <2>0, <2>1, <3>1, FS_Singleton
    <2>2. CASE g = wf
      <3>1. {x \in Entries : fds'[x] = wf} = {b}
        BY <1>1, <1>2, <1>3, <2>0, FreeUnnamed DEF Naming
      <3> QED
        BY <1>2, <1>3, <2>0, <2>2, <3>1, FS_Singleton
    <2>3. CASE g # rf /\ g # wf
      <3>1. {x \in Entries : fds'[x] = g} = Naming(Entries, g)
        BY <1>1, <1>2, <1>3, <2>0, <2>3, Ranges DEF Naming
      <3>2. refs'[g] = refs[g]
        BY <1>3, <2>0, <2>3
      <3> QED
        BY <3>1, <3>2 DEF IInv, Counted
    <2> QED
      BY <2>1, <2>2, <2>3
  <1>7. DeadClosed'
    BY <1>1, <1>2, <1>3 DEF IInv, DeadClosed, TypeOK
  <1>8. Behind'
    <2>0. refs \in [FileIds -> Nat] /\ file \in [FileIds -> Files] /\ pipe \in [PipeIds -> PipeType]
      BY DEF IInv, TypeOK
    <2>1. ~EndsOpen("PIPE_READ", i) /\ ~EndsOpen("PIPE_WRITE", i)
      BY <1>2 DEF IInv, Behind, PipeEndsMatch
    <2>2. /\ refs'[rf] = 1 /\ file'[rf] = PipeEnd("PIPE_READ", i)
          /\ refs'[wf] = 1 /\ file'[wf] = PipeEnd("PIPE_WRITE", i)
          /\ \A g \in FileIds \ {rf, wf} : refs'[g] = refs[g] /\ file'[g] = file[g]
      BY <1>2, <1>3, <2>0
    <2>3. \A k \in PipeKinds, j \in PipeIds \ {i} : EndsOpen(k, j)' <=> EndsOpen(k, j)
      BY <1>2, <2>2, Contents DEF EndsOpen, PipeKinds
    <2>4. EndsOpen("PIPE_READ", i)' /\ EndsOpen("PIPE_WRITE", i)'
      BY <2>2 DEF EndsOpen
    <2>5. pipe'[i] = new /\ \A j \in PipeIds \ {i} : pipe'[j] = pipe[j]
      BY <1>3, <2>0
    <2>6. PipeEndsMatch'
      BY <1>4, <2>3, <2>4, <2>5 DEF IInv, Behind, PipeEndsMatch, PipeKinds
    <2>7. OneEnd'
      <3> SUFFICES ASSUME NEW k \in PipeKinds, NEW j \in PipeIds, NEW f \in FileIds, NEW g \in FileIds,
                          refs'[f] > 0, file'[f] = PipeEnd(k, j),
                          refs'[g] > 0, file'[g] = PipeEnd(k, j)
                   PROVE  f = g
        BY DEF OneEnd
      <3>1. CASE j = i
        <4>1. \A h \in FileIds : refs[h] > 0 => file[h] # PipeEnd(k, i)
          BY <2>1 DEF EndsOpen, PipeKinds
        <4>2. PipeEnd("PIPE_READ", i) # PipeEnd("PIPE_WRITE", i)
          BY Contents DEF PipeKinds
        <4> QED
          BY <2>2, <3>1, <4>1, <4>2
      <3>2. CASE j # i
        <4>1. PipeEnd(k, j) # PipeEnd("PIPE_READ", i) /\ PipeEnd(k, j) # PipeEnd("PIPE_WRITE", i)
          BY <3>2, Contents DEF PipeKinds
        <4> QED
          BY <2>2, <4>1 DEF IInv, Behind, OneEnd
      <3> QED
        BY <3>1, <3>2
    <2>8. NoStaleBytes'
      BY <1>4, <2>5 DEF IInv, Behind, NoStaleBytes
    <2>9. ObjectsMatch'
      <3> SUFFICES ASSUME NEW o \in Objects
                   PROVE  LET F == {g \in FileIds : refs'[g] > 0 /\ file'[g] = Custom(o)}
                          IN  /\ o \in held' <=> F # {}
                              /\ \A g, h \in F : g = h
        BY DEF ObjectsMatch
      <3>1. Custom(o) # PipeEnd("PIPE_READ", i) /\ Custom(o) # PipeEnd("PIPE_WRITE", i)
        BY Contents DEF PipeKinds
      <3>2. {g \in FileIds : refs'[g] > 0 /\ file'[g] = Custom(o)}
               = {g \in FileIds : refs[g] > 0 /\ file[g] = Custom(o)}
        BY <1>2, <2>2, <3>1
      <3> QED
        BY <1>3, <3>2 DEF IInv, Behind, ObjectsMatch
    <2> QED
      BY <2>6, <2>7, <2>8, <2>9 DEF Behind
  <1> QED
    BY <1>5, <1>6, <1>7, <1>8 DEF IInv

-----------------------------------------------------------------------------
(* Closing *)

(* What is behind the files that closing releases goes away, once. *)
LEMMA CloseBehind ==
  ASSUME IInv, NEW E \in SUBSET Entries, CloseEffect(E),
         \A f \in FileIds : refs'[f] > 0 <=> refs[f] > 0 /\ f \notin Released(E)
  PROVE  /\ Behind'
         /\ file' \in [FileIds -> Files] /\ held' \in SUBSET Objects
         /\ pipe' \in [PipeIds -> PipeType]
         /\ \A i \in PipeIds : Len(pipe'[i].bytes) <= PipeSize
  <1> DEFINE R == Released(E)
             r(i) == IF Closes(R, "PIPE_READ", i) THEN 0 ELSE pipe[i].readers
             w(i) == IF Closes(R, "PIPE_WRITE", i) THEN 0 ELSE pipe[i].writers
  <1>1. /\ refs \in [FileIds -> Nat] /\ file \in [FileIds -> Files]
        /\ pipe \in [PipeIds -> PipeType] /\ held \subseteq Objects
        /\ \A i \in PipeIds : Len(pipe[i].bytes) <= PipeSize
    BY DEF IInv, TypeOK
  <1>2. /\ file' = [f \in FileIds |-> IF f \in R THEN NoFile ELSE file[f]]
        /\ pipe' = [i \in PipeIds |-> PipeAfter(R, i)]
        /\ held' = {o \in held : \A f \in R : file[f] # Custom(o)}
    BY DEF CloseEffect
  <1>3. R \subseteq FileIds /\ \A f \in R : refs[f] > 0
    BY DEF Released
  <1>4. \A f \in FileIds : refs'[f] > 0 <=> refs[f] > 0 /\ f \notin R
    OBVIOUS
  <1> HIDE DEF R
  <1>5. ASSUME NEW k \in PipeKinds, NEW i \in PipeIds
        PROVE  /\ EndsOpen(k, i)' <=> EndsOpen(k, i) /\ ~Closes(R, k, i)
               /\ Closes(R, k, i) => EndsOpen(k, i)
    <2>1. Closes(R, k, i) => EndsOpen(k, i)
      BY <1>3 DEF Closes, EndsOpen
    <2>2. EndsOpen(k, i)' => EndsOpen(k, i) /\ ~Closes(R, k, i)
      <3> SUFFICES ASSUME NEW f \in FileIds, refs'[f] > 0, file'[f] = PipeEnd(k, i)
                   PROVE  EndsOpen(k, i) /\ ~Closes(R, k, i)
        BY DEF EndsOpen
      <3>1. refs[f] > 0 /\ f \notin R /\ file[f] = PipeEnd(k, i)
        BY <1>2, <1>4
      <3> QED
        BY <1>3, <3>1 DEF EndsOpen, Closes, IInv, Behind, OneEnd
    <2>3. EndsOpen(k, i) /\ ~Closes(R, k, i) => EndsOpen(k, i)'
      BY <1>2, <1>4 DEF EndsOpen, Closes
    <2> QED
      BY <2>1, <2>2, <2>3
  <1>6. ASSUME NEW i \in PipeIds
        PROVE  /\ r(i) = IF EndsOpen("PIPE_READ", i)' THEN 1 ELSE 0
               /\ w(i) = IF EndsOpen("PIPE_WRITE", i)' THEN 1 ELSE 0
    BY <1>5 DEF IInv, Behind, PipeEndsMatch, PipeKinds
  <1>7. ASSUME NEW i \in PipeIds
        PROVE  /\ pipe'[i] \in PipeType /\ pipe'[i].bytes = pipe[i].bytes
               /\ pipe'[i].readers = r(i) /\ pipe'[i].writers = w(i)
               /\ pipe'[i].allocated <=> r(i) = 1 \/ w(i) = 1
               /\ pipe'[i].number = pipe[i].number
    <2>1. r(i) \in 0 .. 1 /\ w(i) \in 0 .. 1 /\ pipe[i] \in PipeType
      BY <1>1, <1>6
    <2>2. pipe'[i] = PipeAfter(R, i)
      BY <1>2
    <2>3. CASE r(i) = pipe[i].readers /\ w(i) = pipe[i].writers
      <3>1. pipe'[i] = pipe[i]
        BY <2>2, <2>3 DEF PipeAfter
      <3>2. pipe[i].allocated <=> pipe[i].readers = 1 \/ pipe[i].writers = 1
        BY DEF IInv, Behind, PipeEndsMatch
      <3> QED
        BY <2>1, <2>3, <3>1, <3>2
    <2>4. CASE ~(r(i) = pipe[i].readers /\ w(i) = pipe[i].writers)
      <3> DEFINE al == r(i) = 1 \/ w(i) = 1
      <3>1. pipe'[i] = [pipe[i] EXCEPT !.readers = r(i), !.writers = w(i), !.allocated = al]
        BY <2>2, <2>4 DEF PipeAfter
      <3>2. al \in BOOLEAN /\ (al <=> r(i) = 1 \/ w(i) = 1)
        OBVIOUS
      <3> HIDE DEF al, r, w
      <3> QED
        BY <2>1, <3>1, <3>2 DEF PipeType
    <2> QED
      BY <2>3, <2>4
  <1> HIDE DEF r, w
  <1>8. PipeEndsMatch'
    BY <1>6, <1>7 DEF PipeEndsMatch
  <1>9. OneEnd'
    <2> SUFFICES ASSUME NEW k \in PipeKinds, NEW i \in PipeIds, NEW f \in FileIds, NEW g \in FileIds,
                        refs'[f] > 0, file'[f] = PipeEnd(k, i),
                        refs'[g] > 0, file'[g] = PipeEnd(k, i)
                 PROVE  f = g
      BY DEF OneEnd
    <2>1. /\ refs[f] > 0 /\ file[f] = PipeEnd(k, i)
          /\ refs[g] > 0 /\ file[g] = PipeEnd(k, i)
      BY <1>2, <1>4
    <2> QED
      BY <2>1 DEF IInv, Behind, OneEnd
  <1>10. NoStaleBytes'
    <2> SUFFICES ASSUME NEW i \in PipeIds, pipe'[i].allocated
                 PROVE  \A k \in 1 .. Len(pipe'[i].bytes) : pipe'[i].bytes[k] = pipe'[i].number
      BY DEF NoStaleBytes
    <2>1. EndsOpen("PIPE_READ", i)' \/ EndsOpen("PIPE_WRITE", i)'
      BY <1>6, <1>7
    <2>2. pipe[i].allocated
      BY <1>5, <2>1 DEF IInv, Behind, PipeEndsMatch, PipeKinds
    <2> QED
      BY <1>7, <2>2 DEF IInv, Behind, NoStaleBytes
  <1>11. ObjectsMatch'
    <2> SUFFICES ASSUME NEW o \in Objects
                 PROVE  LET F == {g \in FileIds : refs'[g] > 0 /\ file'[g] = Custom(o)}
                        IN  /\ o \in held' <=> F # {}
                            /\ \A g, h \in F : g = h
      BY DEF ObjectsMatch
    <2> DEFINE F == {g \in FileIds : refs[g] > 0 /\ file[g] = Custom(o)}
               G == {g \in FileIds : refs'[g] > 0 /\ file'[g] = Custom(o)}
    <2>1. (o \in held <=> F # {}) /\ \A g, h \in F : g = h
      BY DEF IInv, Behind, ObjectsMatch
    <2>2. G = F \ R
      BY <1>2, <1>4, Contents
    <2>3. o \in held' <=> o \in held /\ F \intersect R = {}
      BY <1>2, <1>3
    <2> HIDE DEF F
    <2>4. o \in held' <=> G # {}
      BY <2>1, <2>2, <2>3
    <2> QED
      BY <2>1, <2>2, <2>4
  <1>12. file' \in [FileIds -> Files] /\ held' \in SUBSET Objects
    BY <1>1, <1>2, Contents
  <1>13. pipe' \in [PipeIds -> PipeType] /\ \A i \in PipeIds : Len(pipe'[i].bytes) <= PipeSize
    BY <1>1, <1>2, <1>7
  <1> QED
    BY <1>8, <1>9, <1>10, <1>11, <1>12, <1>13 DEF Behind

(* The counts after descriptors E are closed count those that remain. *)
LEMMA RefsAfterOK ==
  ASSUME IInv, NEW E \in SUBSET Entries, NEW f \in FileIds
  PROVE  /\ RefsAfter(E)[f] = Cardinality(Naming(Entries, f) \ E)
         /\ RefsAfter(E)[f] \in Nat
         /\ RefsAfter(E)[f] > 0 <=> refs[f] > 0 /\ f \notin Released(E)
  <1> DEFINE N == Naming(Entries, f)
             M == Naming(E, f)
  <1>1. N \in SUBSET Entries /\ M \in SUBSET Entries /\ M = N \intersect E /\ N \ E \in SUBSET Entries
    BY DEF Naming
  <1>2. refs[f] = Cardinality(N) /\ RefsAfter(E)[f] = refs[f] - Cardinality(M)
    BY DEF IInv, Counted, RefsAfter
  <1>3. f \in Released(E) <=> refs[f] > 0 /\ refs[f] = Cardinality(M)
    BY DEF Released
  <1> HIDE DEF N, M
  <1>4. IsFiniteSet(N) /\ Cardinality(N) \in Nat /\ Cardinality(M) \in Nat /\ Cardinality(N \ E) \in Nat
    BY <1>1, Finite
  <1>5. Cardinality(N \ E) = Cardinality(N) - Cardinality(M)
    BY <1>1, <1>4, FS_Difference
  <1> QED
    BY <1>2, <1>3, <1>4, <1>5 DEF N

(* fd_close *)
LEMMA CloseStep ==
  ASSUME IInv, NEW p \in Pids, NEW d \in Fds, Close(p, d)
  PROVE  IInv'
  <1> DEFINE e == <<p, d>>
             E == {e}
  <1>1. e \in Entries /\ E \in SUBSET Entries
    BY DEF Entries
  <1>2. /\ fds' = [fds EXCEPT ![e] = None] /\ refs' = RefsAfter(E) /\ CloseEffect(E)
        /\ UNCHANGED <<live, incarnation, kinds>>
    BY DEF Close
  <1> HIDE DEF e
  <1>3. fds \in [Entries -> FileIds \union {None}]
    BY DEF IInv, TypeOK
  <1>4. \A f \in FileIds : /\ refs'[f] = Cardinality(Naming(Entries, f) \ E) /\ refs'[f] \in Nat
                           /\ refs'[f] > 0 <=> refs[f] > 0 /\ f \notin Released(E)
    BY <1>1, <1>2, RefsAfterOK
  <1>5. refs' \in [FileIds -> Nat]
    BY <1>2, <1>4 DEF RefsAfter
  <1>6. /\ Behind'
        /\ file' \in [FileIds -> Files] /\ held' \in SUBSET Objects
        /\ pipe' \in [PipeIds -> PipeType]
        /\ \A i \in PipeIds : Len(pipe'[i].bytes) <= PipeSize
    BY <1>1, <1>2, <1>4, CloseBehind
  <1>7. TypeOK'
    BY <1>1, <1>2, <1>3, <1>5, <1>6 DEF IInv, TypeOK, LifecycleTypeOK
  <1>8. Counted'
    <2> SUFFICES ASSUME NEW f \in FileIds
                 PROVE  refs'[f] = Cardinality({x \in Entries : fds'[x] = f})
      BY DEF Counted, Naming
    <2>1. {x \in Entries : fds'[x] = f} = Naming(Entries, f) \ E
      BY <1>1, <1>2, <1>3, Ranges DEF Naming
    <2> QED
      BY <1>4, <2>1
  <1>9. DeadClosed'
    BY <1>2, <1>3 DEF IInv, DeadClosed
  <1> QED
    BY <1>6, <1>7, <1>8, <1>9 DEF IInv

(* fd_close_owner, for every process that ends in the step. *)
LEMMA ExitStep ==
  ASSUME IInv, NEW S \in SUBSET Pids, Exit(S)
  PROVE  IInv'
  <1> DEFINE E == {e \in Entries : e[1] \in S /\ IsOpen(e)}
  <1>1. E \in SUBSET Entries
    OBVIOUS
  <1>2. /\ fds' = [e \in Entries |-> IF e \in E THEN None ELSE fds[e]]
        /\ refs' = RefsAfter(E) /\ CloseEffect(E)
        /\ live' = live \ S /\ UNCHANGED <<incarnation, kinds>>
    BY DEF Exit, End
  <1>3. fds \in [Entries -> FileIds \union {None}]
    BY DEF IInv, TypeOK
  <1>4. \A e \in Entries : e[1] \in S /\ fds[e] # None => e \in E
    BY NamedIsOpen
  <1> HIDE DEF E
  <1>5. \A f \in FileIds : /\ refs'[f] = Cardinality(Naming(Entries, f) \ E) /\ refs'[f] \in Nat
                           /\ refs'[f] > 0 <=> refs[f] > 0 /\ f \notin Released(E)
    BY <1>1, <1>2, RefsAfterOK
  <1>6. refs' \in [FileIds -> Nat]
    BY <1>2, <1>5 DEF RefsAfter
  <1>7. /\ Behind'
        /\ file' \in [FileIds -> Files] /\ held' \in SUBSET Objects
        /\ pipe' \in [PipeIds -> PipeType]
        /\ \A i \in PipeIds : Len(pipe'[i].bytes) <= PipeSize
    BY <1>1, <1>2, <1>5, CloseBehind
  <1>8. TypeOK'
    BY <1>1, <1>2, <1>3, <1>6, <1>7 DEF IInv, TypeOK, LifecycleTypeOK
  <1>9. Counted'
    <2> SUFFICES ASSUME NEW f \in FileIds
                 PROVE  refs'[f] = Cardinality({x \in Entries : fds'[x] = f})
      BY DEF Counted, Naming
    <2>1. {x \in Entries : fds'[x] = f} = Naming(Entries, f) \ E
      BY <1>1, <1>2, <1>3, Ranges DEF Naming
    <2> QED
      BY <1>5, <2>1
  <1>10. DeadClosed'
    BY <1>2, <1>3, <1>4 DEF IInv, DeadClosed
  <1> QED
    BY <1>7, <1>8, <1>9, <1>10 DEF IInv

-----------------------------------------------------------------------------
(* Sharing *)

(* fd_dup_min *)
LEMMA DupStep ==
  ASSUME IInv, NEW p \in Pids, NEW s \in Fds, NEW min \in Fds, NEW d \in Fds, Dup(p, s, min, d)
  PROVE  IInv'
  <1> DEFINE a == <<p, s>>
             b == <<p, d>>
             h == fds[a]
  <1>1. a \in Entries /\ b \in Entries /\ b[1] = p
    BY DEF Entries
  <1>2. /\ p \in live /\ h # None /\ fds[b] = None
        /\ fds' = [fds EXCEPT ![b] = h] /\ refs' = [refs EXCEPT ![h] = @ + 1]
        /\ UNCHANGED <<file, pipe, held, live, incarnation, kinds>>
    BY DEF Dup, IsOpen, Lowest, ClosedFds
  <1>3. /\ fds \in [Entries -> FileIds \union {None}] /\ refs \in [FileIds -> Nat]
    BY DEF IInv, TypeOK
  <1>4. h \in FileIds /\ refs[h] > 0
    BY <1>1, <1>2, NamedIsOpen
  <1> HIDE DEF b, h
  <1>5. TypeOK'
    BY <1>1, <1>2, <1>3, <1>4 DEF IInv, TypeOK, LifecycleTypeOK
  <1>6. Counted'
    <2> SUFFICES ASSUME NEW g \in FileIds
                 PROVE  refs'[g] = Cardinality({x \in Entries : fds'[x] = g})
      BY DEF Counted, Naming
    <2> DEFINE N == Naming(Entries, g)
    <2>1. refs[g] = Cardinality(N) /\ N \in SUBSET Entries /\ b \notin N
      BY <1>2, Ranges DEF IInv, Counted, Naming
    <2>2. CASE g = h
      <3>1. {x \in Entries : fds'[x] = g} = N \union {b}
        BY <1>1, <1>2, <1>3, <2>2 DEF Naming
      <3>2. refs'[g] = refs[g] + 1
        BY <1>2, <1>3, <2>2
      <3> HIDE DEF N
      <3>3. IsFiniteSet(N)
        BY <2>1, Finite
      <3>4. Cardinality(N \union {b}) = Cardinality(N) + 1
        BY <2>1, <3>3, FS_AddElement
      <3> QED
        BY <2>1, <3>1, <3>2, <3>4
    <2>3. CASE g # h
      <3>1. {x \in Entries : fds'[x] = g} = N
        BY <1>1, <1>2, <1>3, <2>3, Ranges DEF Naming
      <3>2. refs'[g] = refs[g]
        BY <1>2, <1>3, <2>3
      <3> QED
        BY <2>1, <3>1, <3>2
    <2> QED
      BY <2>2, <2>3
  <1>7. DeadClosed'
    BY <1>1, <1>2, <1>3 DEF IInv, DeadClosed
  <1>8. \A f \in FileIds : refs'[f] > 0 <=> refs[f] > 0
    BY <1>2, <1>3, <1>4
  <1>9. Behind'
    BY <1>2, <1>8, SameBehind DEF IInv
  <1> QED
    BY <1>5, <1>6, <1>7, <1>9 DEF IInv

(* fd_dup2, onto a closed or an open target, of the same file or another. *)
LEMMA Dup2Step ==
  ASSUME IInv, NEW p \in Pids, NEW s \in Fds, NEW d \in Fds, Dup2(p, s, d)
  PROVE  IInv'
  <1> DEFINE a == <<p, s>>
             b == <<p, d>>
             h == fds[a]
             E == IF fds[b] = None THEN {} ELSE {b}
  <1>1. a \in Entries /\ b \in Entries /\ b[1] = p /\ E \in SUBSET Entries
    BY DEF Entries
  <1>2. /\ p \in live /\ h # None /\ a # b
        /\ fds' = [fds EXCEPT ![b] = h] /\ refs' = [RefsAfter(E) EXCEPT ![h] = @ + 1]
        /\ CloseEffect(E)
        /\ UNCHANGED <<live, incarnation, kinds>>
    BY DEF Dup2, IsOpen
  <1>3. /\ fds \in [Entries -> FileIds \union {None}] /\ refs \in [FileIds -> Nat]
    BY DEF IInv, TypeOK
  <1>4. h \in FileIds /\ refs[h] > 0
    BY <1>1, <1>2, NamedIsOpen
  <1>5. a \in Naming(Entries, h) \ E
    BY <1>1, <1>2 DEF Naming
  <1>6. E \subseteq {b} /\ (fds[b] # None => b \in E)
    OBVIOUS
  <1> HIDE DEF a, b, h, E
  <1>7. \A f \in FileIds : /\ RefsAfter(E)[f] = Cardinality(Naming(Entries, f) \ E)
                           /\ RefsAfter(E)[f] \in Nat
                           /\ RefsAfter(E)[f] > 0 <=> refs[f] > 0 /\ f \notin Released(E)
    BY <1>1, RefsAfterOK
  <1>8. RefsAfter(E) \in [FileIds -> Nat]
    BY <1>7 DEF RefsAfter
  <1>9. RefsAfter(E)[h] > 0
    <2> DEFINE N == Naming(Entries, h) \ E
    <2>1. N \in SUBSET Entries /\ a \in N
      BY <1>5 DEF Naming
    <2>2. RefsAfter(E)[h] = Cardinality(N)
      BY <1>4, <1>7
    <2> HIDE DEF N
    <2>3. IsFiniteSet(N) /\ Cardinality(N) \in Nat
      BY <2>1, Finite
    <2>4. Cardinality(N) # 0
      BY <2>1, <2>3, FS_EmptySet
    <2> QED
      BY <2>2, <2>3, <2>4
  <1>10. refs' \in [FileIds -> Nat]
    BY <1>2, <1>4, <1>8
  <1>11. \A f \in FileIds : refs'[f] > 0 <=> refs[f] > 0 /\ f \notin Released(E)
    <2> DEFINE Q == RefsAfter(E)
    <2>1. /\ Q \in [FileIds -> Nat] /\ Q[h] > 0 /\ refs' = [Q EXCEPT ![h] = @ + 1]
          /\ \A f \in FileIds : Q[f] > 0 <=> refs[f] > 0 /\ f \notin Released(E)
      BY <1>2, <1>7, <1>8, <1>9
    <2> HIDE DEF Q
    <2>2. \A f \in FileIds : refs'[f] > 0 <=> Q[f] > 0
      BY <1>4, <2>1
    <2> QED
      BY <2>1, <2>2
  <1>12. /\ Behind'
         /\ file' \in [FileIds -> Files] /\ held' \in SUBSET Objects
         /\ pipe' \in [PipeIds -> PipeType]
         /\ \A i \in PipeIds : Len(pipe'[i].bytes) <= PipeSize
    BY <1>1, <1>2, <1>11, CloseBehind
  <1>13. TypeOK'
    BY <1>1, <1>2, <1>3, <1>4, <1>10, <1>12 DEF IInv, TypeOK, LifecycleTypeOK
  <1>14. Counted'
    <2> SUFFICES ASSUME NEW g \in FileIds
                 PROVE  refs'[g] = Cardinality({x \in Entries : fds'[x] = g})
      BY DEF Counted, Naming
    <2> DEFINE N == Naming(Entries, g) \ E
    <2>1. N \in SUBSET Entries /\ b \notin N
      BY <1>6, Ranges DEF Naming
    <2>2. RefsAfter(E)[g] = Cardinality(N)
      BY <1>7
    <2>3. CASE g = h
      <3>1. {x \in Entries : fds'[x] = g} = N \union {b}
        BY <1>1, <1>2, <1>3, <1>6, <2>3 DEF Naming
      <3>2. refs'[g] = RefsAfter(E)[g] + 1
        BY <1>2, <1>8, <2>3
      <3> HIDE DEF N
      <3>3. IsFiniteSet(N)
        BY <2>1, Finite
      <3>4. Cardinality(N \union {b}) = Cardinality(N) + 1
        BY <2>1, <3>3, FS_AddElement
      <3> QED
        BY <2>2, <3>1, <3>2, <3>4
    <2>4. CASE g # h
      <3>1. {x \in Entries : fds'[x] = g} = N
        BY <1>1, <1>2, <1>3, <1>6, <2>4, Ranges DEF Naming
      <3>2. refs'[g] = RefsAfter(E)[g]
        BY <1>2, <1>8, <2>4
      <3> QED
        BY <2>2, <3>1, <3>2
    <2> QED
      BY <2>3, <2>4
  <1>15. DeadClosed'
    BY <1>1, <1>2, <1>3 DEF IInv, DeadClosed
  <1> QED
    BY <1>12, <1>13, <1>14, <1>15 DEF IInv

(* A program the kernel starts finds no descriptor in its slot. *)
LEMMA KernelSpawnStep ==
  ASSUME IInv, NEW p \in Pids, KernelSpawn(p)
  PROVE  IInv'
  <1>1. /\ UNCHANGED <<fds, refs, file, pipe, held, kinds>>
        /\ live' = live \union {p} /\ incarnation' = [incarnation EXCEPT ![p] = @ + 1]
        /\ incarnation[p] < MaxSpawns
    BY DEF KernelSpawn, Begin, fdVars
  <1>2. LifecycleTypeOK'
    BY <1>1, LifecycleAssumption DEF IInv, TypeOK, LifecycleTypeOK
  <1>3. TypeOK'
    BY <1>1, <1>2 DEF IInv, TypeOK
  <1>4. Counted' /\ DeadClosed'
    BY <1>1 DEF IInv, Counted, DeadClosed, Naming
  <1>5. Behind'
    BY <1>1, SameBehind DEF IInv
  <1> QED
    BY <1>3, <1>4, <1>5 DEF IInv

(* The descriptors a child inherits are as many as its parent passes on. *)
LEMMA SameNumber ==
  ASSUME NEW p \in Pids, NEW q \in Pids, NEW D \in SUBSET Fds
  PROVE  Cardinality({<<p, d>> : d \in D}) = Cardinality({<<q, d>> : d \in D})
  <1> DEFINE A == {<<p, d>> : d \in D}
             B == {<<q, d>> : d \in D}
             m == [x \in B |-> <<p, x[2]>>]
  <1>1. B \in SUBSET Entries
    BY DEF Entries
  <1>2. m \in [B -> A]
    OBVIOUS
  <1>3. \A x, y \in B : m[x] = m[y] => x = y
    OBVIOUS
  <1>4. \A z \in A : \E x \in B : m[x] = z
    <2> SUFFICES ASSUME NEW z \in A PROVE \E x \in B : m[x] = z
      OBVIOUS
    <2>1. PICK d \in D : z = <<p, d>>
      OBVIOUS
    <2>2. <<q, d>> \in B /\ m[<<q, d>>] = <<p, d>>
      OBVIOUS
    <2> QED
      BY <2>1, <2>2
  <1> HIDE DEF m, A, B
  <1>5. m \in Bijection(B, A)
    BY <1>2, <1>3, <1>4 DEF Bijection, Injection, Surjection, IsInjective
  <1>6. ExistsBijection(B, A)
    BY <1>5 DEF ExistsBijection
  <1>7. IsFiniteSet(B)
    BY <1>1, Finite
  <1>8. Cardinality(A) = Cardinality(B)
    BY <1>6, <1>7, FS_Bijection
  <1> QED
    BY <1>8 DEF A, B

(* SYS_EXEC: the child counts as one more user of everything it inherits. *)
LEMMA ExecStep ==
  ASSUME IInv, NEW p \in Pids, NEW q \in Pids, Exec(q, p)
  PROVE  IInv'
  <1>1. /\ q \in live /\ p \notin live
        /\ live' = live \union {p} /\ incarnation' = [incarnation EXCEPT ![p] = @ + 1]
        /\ incarnation[p] < MaxSpawns
        /\ fds' = [e \in Entries |-> IF e[1] = p /\ <<q, e[2]>> \in Inherited(q)
                                      THEN fds[<<q, e[2]>>] ELSE fds[e]]
        /\ refs' = [f \in FileIds |-> refs[f] + Cardinality(Naming(Inherited(q), f))]
        /\ UNCHANGED <<file, pipe, held, kinds>>
    BY DEF Exec, Begin, FirstFree
  <1>2. /\ fds \in [Entries -> FileIds \union {None}] /\ refs \in [FileIds -> Nat]
    BY DEF IInv, TypeOK
  <1>3. LifecycleTypeOK'
    BY <1>1, LifecycleAssumption DEF IInv, TypeOK, LifecycleTypeOK
  <1>4. Inherited(q) \in SUBSET Entries /\ \A e \in Inherited(q) : e[1] = q /\ fds[e] # None
    BY DEF Inherited, IsOpen
  <1>5. \A e \in Entries : e[1] = p => fds[e] = None
    BY <1>1 DEF IInv, DeadClosed
  <1>6. \A e \in Entries : e = <<e[1], e[2]>> /\ e[1] \in Pids /\ e[2] \in Fds
    BY DEF Entries
  <1>7. ASSUME NEW f \in FileIds
        PROVE  /\ refs'[f] = Cardinality({x \in Entries : fds'[x] = f})
               /\ refs'[f] \in Nat /\ (refs'[f] > 0 <=> refs[f] > 0)
    <2> DEFINE N == Naming(Entries, f)
               M == Naming(Inherited(q), f)
               D == {d \in Fds : <<q, d>> \in M}
               A == {<<p, d>> : d \in D}
               B == {<<q, d>> : d \in D}
    <2>1. M = B
      <3>1. M \subseteq Entries /\ \A x \in M : x[1] = q
        BY <1>4 DEF Naming
      <3> HIDE DEF M
      <3>2. ASSUME NEW x \in M PROVE x \in B
        <4>1. x = <<q, x[2]>> /\ x[2] \in Fds
          BY <1>6, <3>1
        <4>2. x[2] \in D
          BY <4>1
        <4> QED
          BY <4>1, <4>2
      <3>3. B \subseteq M
        OBVIOUS
      <3> QED
        BY <3>2, <3>3
    <2>2. Cardinality(A) = Cardinality(B)
      BY SameNumber
    <2>3. N \in SUBSET Entries /\ M \in SUBSET N /\ A \in SUBSET Entries
      <3>1. N \in SUBSET Entries /\ M \in SUBSET N
        BY <1>4 DEF Naming
      <3>2. \A d \in Fds : <<p, d>> \in Entries
        BY DEF Entries
      <3>3. D \subseteq Fds
        OBVIOUS
      <3> HIDE DEF D, N, M
      <3>4. A \in SUBSET Entries
        BY <3>2, <3>3
      <3> QED
        BY <3>1, <3>4
    <2>4. N \intersect A = {}
      BY <1>5, Ranges DEF Naming, Entries
    <2>5. {x \in Entries : fds'[x] = f} = N \union A
      <3>1. \A x \in Entries : x \in A <=> x[1] = p /\ <<q, x[2]>> \in M
        <4> SUFFICES ASSUME NEW x \in Entries
                     PROVE  x \in A <=> x[1] = p /\ <<q, x[2]>> \in M
          OBVIOUS
        <4>1. x = <<x[1], x[2]>> /\ x[2] \in Fds
          BY <1>6
        <4> HIDE DEF M
        <4>2. ASSUME x \in A PROVE x[1] = p /\ <<q, x[2]>> \in M
          <5>1. PICK d \in D : x = <<p, d>>
            BY <4>2
          <5> QED
            BY <5>1
        <4>3. ASSUME x[1] = p, <<q, x[2]>> \in M PROVE x \in A
          <5>1. x[2] \in D /\ x = <<p, x[2]>>
            BY <4>1, <4>3
          <5> QED
            BY <5>1
        <4> QED
          BY <4>2, <4>3
      <3>2. \A x \in Entries : x[1] = p => x \notin N
        BY <1>5, Ranges DEF Naming
      <3>3. \A x \in Entries : <<q, x[2]>> \in M <=> <<q, x[2]>> \in Inherited(q) /\ fds[<<q, x[2]>>] = f
        BY DEF Naming
      <3>4. ASSUME NEW x \in Entries PROVE fds'[x] = f <=> x \in N \/ x \in A
        <4>1. CASE x[1] = p /\ <<q, x[2]>> \in Inherited(q)
          BY <1>1, <3>1, <3>2, <3>3, <4>1
        <4>2. CASE ~(x[1] = p /\ <<q, x[2]>> \in Inherited(q))
          <5>1. fds'[x] = fds[x] /\ x \notin A
            BY <1>1, <3>1, <3>3, <4>2
          <5> QED
            BY <5>1 DEF Naming
        <4> QED
          BY <4>1, <4>2
      <3> QED
        BY <2>3, <3>4
    <2>6. refs'[f] = refs[f] + Cardinality(M) /\ refs[f] = Cardinality(N)
      BY <1>1 DEF IInv, Counted
    <2> HIDE DEF N, M, A, B
    <2>7. /\ IsFiniteSet(N) /\ IsFiniteSet(A) /\ Cardinality(N) \in Nat /\ Cardinality(A) \in Nat
          /\ Cardinality(M) <= Cardinality(N)
      BY <2>3, Finite, FS_Subset
    <2>8. Cardinality(N \union A) = Cardinality(N) + Cardinality(A)
      <3>1. Cardinality(N \union A) = Cardinality(N) + Cardinality(A) - Cardinality(N \intersect A)
        BY <2>7, FS_Union
      <3>2. Cardinality(N \intersect A) = 0
        BY <2>4, FS_EmptySet
      <3> QED
        BY <2>7, <3>1, <3>2
    <2>9. Cardinality(M) = Cardinality(A)
      BY <2>1, <2>2
    <2>10. /\ refs'[f] = Cardinality(N) + Cardinality(A) /\ refs[f] = Cardinality(N)
           /\ Cardinality(A) <= Cardinality(N)
      BY <2>6, <2>7, <2>9
    <2>11. refs'[f] \in Nat /\ (refs'[f] > 0 <=> refs[f] > 0)
      BY <2>7, <2>10
    <2> QED
      BY <2>5, <2>8, <2>10, <2>11
  <1>8. fds' \in [Entries -> FileIds \union {None}]
    BY <1>1, <1>2, <1>4
  <1>9. refs' \in [FileIds -> Nat]
    BY <1>1, <1>7
  <1>10. TypeOK'
    BY <1>1, <1>3, <1>8, <1>9 DEF IInv, TypeOK
  <1>11. Counted'
    BY <1>7 DEF Counted, Naming
  <1>12. DeadClosed'
    BY <1>1 DEF IInv, DeadClosed
  <1>13. Behind'
    BY <1>1, <1>7, SameBehind DEF IInv
  <1> QED
    BY <1>10, <1>11, <1>12, <1>13 DEF IInv

-----------------------------------------------------------------------------
(* Transfer *)

(* Bytes join and leave a pipe at its ends, and carry its number. *)
LEMMA TransferStep ==
  ASSUME IInv, NEW p \in Pids, NEW d \in Fds, NEW i \in PipeIds,
         PipeWrite(p, d, i) \/ PipeRead(p, d, i)
  PROVE  IInv'
  <1> DEFINE t == pipe[i]
             c == t.bytes
             n == t.number
  <1>1. /\ t \in PipeType /\ t.allocated /\ c \in Seq(0 .. MaxPipes) /\ n \in 0 .. MaxPipes
        /\ \A k \in 1 .. Len(c) : c[k] = n
        /\ Len(c) <= PipeSize
    BY DEF IInv, TypeOK, PipeType, Behind, NoStaleBytes, PipeWrite, PipeRead
  <1>2. \E b : /\ pipe' = [pipe EXCEPT ![i].bytes = b]
               /\ b \in Seq(0 .. MaxPipes) /\ Len(b) <= PipeSize
               /\ \A k \in 1 .. Len(b) : b[k] = n
    <2>1. CASE PipeWrite(p, d, i)
      <3>1. pipe' = [pipe EXCEPT ![i].bytes = Append(c, n)] /\ Len(c) < PipeSize
        BY <2>1 DEF PipeWrite
      <3> HIDE DEF c, n
      <3>2. /\ Append(c, n) \in Seq(0 .. MaxPipes) /\ Len(Append(c, n)) = Len(c) + 1
            /\ Len(c) \in Nat
            /\ \A k \in 1 .. Len(c) : Append(c, n)[k] = c[k]
            /\ Append(c, n)[Len(c) + 1] = n
        BY <1>1, AppendProperties
      <3>3. \A k \in 1 .. Len(Append(c, n)) : k \in 1 .. Len(c) \/ k = Len(c) + 1
        BY <3>2
      <3>4. \A k \in 1 .. Len(Append(c, n)) : Append(c, n)[k] = n
        BY <1>1, <3>2, <3>3
      <3>5. Len(Append(c, n)) <= PipeSize
        BY <3>1, <3>2, Ranges
      <3> QED
        BY <3>1, <3>2, <3>4, <3>5
    <2>2. CASE PipeRead(p, d, i)
      <3>1. pipe' = [pipe EXCEPT ![i].bytes = Tail(c)] /\ c # <<>>
        BY <2>2 DEF PipeRead
      <3> HIDE DEF c, n
      <3>2. /\ Tail(c) \in Seq(0 .. MaxPipes) /\ Len(Tail(c)) = Len(c) - 1
            /\ Len(c) \in Nat
            /\ \A k \in 1 .. Len(Tail(c)) : Tail(c)[k] = c[k + 1]
        BY <1>1, <3>1, HeadTailProperties
      <3>3. \A k \in 1 .. Len(Tail(c)) : k + 1 \in 1 .. Len(c)
        BY <3>2
      <3>4. \A k \in 1 .. Len(Tail(c)) : Tail(c)[k] = n
        BY <1>1, <3>2, <3>3
      <3>5. Len(Tail(c)) <= PipeSize
        BY <1>1, <3>2, Ranges
      <3> QED
        BY <3>1, <3>2, <3>4, <3>5
    <2> QED
      BY <2>1, <2>2
  <1>3. PICK b : /\ pipe' = [pipe EXCEPT ![i].bytes = b]
                 /\ b \in Seq(0 .. MaxPipes) /\ Len(b) <= PipeSize
                 /\ \A k \in 1 .. Len(b) : b[k] = n
    BY <1>2
  <1>4. UNCHANGED <<fds, refs, file, held, live, incarnation, kinds>>
    BY DEF PipeWrite, PipeRead
  <1>5. pipe \in [PipeIds -> PipeType]
    BY DEF IInv, TypeOK
  <1>6. /\ pipe'[i] = [t EXCEPT !.bytes = b] /\ pipe' \in [PipeIds -> PipeType]
        /\ \A j \in PipeIds \ {i} : pipe'[j] = pipe[j]
    BY <1>3, <1>5 DEF PipeType
  <1>7. /\ pipe'[i].bytes = b /\ pipe'[i].number = t.number /\ pipe'[i].allocated = t.allocated
        /\ pipe'[i].readers = t.readers /\ pipe'[i].writers = t.writers
    BY <1>1, <1>6 DEF PipeType
  <1>8. TypeOK'
    BY <1>3, <1>4, <1>6, <1>7 DEF IInv, TypeOK, LifecycleTypeOK
  <1>9. Counted' /\ DeadClosed'
    BY <1>4 DEF IInv, Counted, DeadClosed, Naming
  <1>10. Behind'
    <2>1. \A k, j : EndsOpen(k, j)' <=> EndsOpen(k, j)
      BY <1>4 DEF EndsOpen
    <2>2. PipeEndsMatch'
      BY <1>6, <1>7, <2>1 DEF IInv, Behind, PipeEndsMatch
    <2>3. NoStaleBytes'
      BY <1>3, <1>6, <1>7 DEF IInv, Behind, NoStaleBytes
    <2>4. OneEnd' /\ ObjectsMatch'
      BY <1>4 DEF IInv, Behind, OneEnd, ObjectsMatch
    <2> QED
      BY <2>2, <2>3, <2>4 DEF Behind
  <1> QED
    BY <1>8, <1>9, <1>10 DEF IInv

-----------------------------------------------------------------------------
(* Theorems *)

(* The empty tables. *)
LEMMA InitIInv == Init => IInv
  <1> SUFFICES ASSUME Init PROVE IInv
    OBVIOUS
  <1> USE DEF Init
  <1>1. TypeOK
    <2>1. [allocated |-> FALSE, readers |-> 0, writers |-> 0, number |-> 0, bytes |-> <<>>] \in PipeType
      BY Ranges DEF PipeType
    <2>2. LifecycleTypeOK
      BY LifecycleAssumption DEF LifecycleInit, LifecycleTypeOK
    <2> QED
      BY <2>1, <2>2, Contents, Ranges DEF TypeOK
  <1>2. Counted
    <2> SUFFICES ASSUME NEW f \in FileIds PROVE refs[f] = Cardinality(Naming(Entries, f))
      BY DEF Counted
    <2>1. Naming(Entries, f) = {}
      BY Ranges DEF Naming
    <2> QED
      BY <2>1, FS_EmptySet
  <1>3. DeadClosed
    BY DEF DeadClosed
  <1>4. Behind
    BY DEF Behind, PipeEndsMatch, EndsOpen, OneEnd, NoStaleBytes, ObjectsMatch
  <1> QED
    BY <1>1, <1>2, <1>3, <1>4 DEF IInv

(* Every step, by whichever process, keeps the invariant. *)
LEMMA StepIInv == IInv /\ [Next]_vars => IInv'
  <1> SUFFICES ASSUME IInv, [Next]_vars PROVE IInv'
    OBVIOUS
  <1>1. CASE UNCHANGED vars
    <2>1. UNCHANGED <<fds, refs, file, pipe, held, live, incarnation, kinds>>
      BY <1>1 DEF vars
    <2>2. TypeOK' /\ Counted' /\ DeadClosed'
      BY <2>1 DEF IInv, TypeOK, LifecycleTypeOK, Counted, DeadClosed, Naming
    <2>3. Behind'
      BY <2>1, SameBehind DEF IInv
    <2> QED
      BY <2>2, <2>3 DEF IInv
  <1>2. ASSUME NEW p \in Pids, Opening(p) PROVE IInv'
    <2>1. CASE \E d \in Fds, f \in FileIds : OpenFile(p, d, f)
      BY <2>1, OpenNewStep DEF OpenFile
    <2>2. CASE \E f \in FileIds : BindPtyStdio(p, f)
      BY <2>2, BindPtyStdioStep
    <2>3. CASE \E f \in FileIds, d \in Fds : BindPty(p, d, f)
      BY <2>3, OpenNewStep DEF BindPty
    <2>4. CASE \E d \in Fds, f \in FileIds, o \in Objects : CreateCustom(p, d, f, o)
      BY <2>4, OpenNewStep DEF CreateCustom
    <2>5. CASE \E rd, wd \in Fds, rf, wf \in FileIds, i \in PipeIds : PipeCreate(p, rd, wd, rf, wf, i)
      BY <2>5, PipeCreateStep
    <2> QED
      BY <1>2, <2>1, <2>2, <2>3, <2>4, <2>5 DEF Opening
  <1>3. ASSUME NEW p \in Pids, Sharing(p) PROVE IInv'
    BY <1>3, DupStep, Dup2Step, CloseStep DEF Sharing
  <1>4. ASSUME NEW p \in Pids, Transfer(p) PROVE IInv'
    BY <1>4, TransferStep DEF Transfer
  <1>5. ASSUME NEW p \in Pids, KernelSpawn(p) PROVE IInv'
    BY <1>5, KernelSpawnStep
  <1>6. ASSUME NEW p \in Pids, NEW q \in Pids, Exec(q, p) PROVE IInv'
    BY <1>6, ExecStep
  <1>7. ASSUME NEW S \in SUBSET Pids, Exit(S) PROVE IInv'
    BY <1>7, ExitStep
  <1> QED
    BY <1>1, <1>2, <1>3, <1>4, <1>5, <1>6, <1>7 DEF Next

(* The inductive invariant holds in every reachable state. *)
THEOREM Invariance == Spec => []IInv
  BY InitIInv, StepIInv, PTL DEF Spec

(* references of an open file is the number of descriptors of living         *)
(* processes that name it: none is lost to dup, dup2, inheritance or the end *)
(* of a process, so a file is released by the close of its last descriptor   *)
(* and never before.                                                         *)
THEOREM ReferencesCount == Spec => []RefsMatch
  <1>1. IInv => RefsMatch
    <2> SUFFICES ASSUME IInv, NEW f \in FileIds PROVE refs[f] = Cardinality(Users(f))
      BY DEF IInv, RefsMatch
    <2>1. Users(f) = Naming(Entries, f)
      BY Ranges DEF Users, Naming, IInv, DeadClosed
    <2> QED
      BY <2>1 DEF IInv, Counted
  <1> QED
    BY <1>1, Invariance, PTL

(* The reader and writer counts of a pipe say which ends are open, and the   *)
(* slot is taken exactly while one is.                                       *)
THEOREM PipeEndsAreCounted == Spec => []PipeEndsMatch
  <1>1. IInv => PipeEndsMatch
    BY DEF IInv, Behind
  <1> QED
    BY <1>1, Invariance, PTL

(* A pipe never delivers a byte of an earlier pipe in its slot. *)
THEOREM BytesAreFresh == Spec => []NoStaleBytes
  <1>1. IInv => NoStaleBytes
    BY DEF IInv, Behind
  <1> QED
    BY <1>1, Invariance, PTL

(* The object behind a descriptor is released with its last descriptor, once.*)
THEOREM ObjectsAreReleased == Spec => []ObjectsMatch
  <1>1. IInv => ObjectsMatch
    BY DEF IInv, Behind
  <1> QED
    BY <1>1, Invariance, PTL

(* Closing descriptors changes the content of no file that another names. *)
LEMMA CloseKeepsOthers ==
  ASSUME IInv, NEW E \in SUBSET Entries, CloseEffect(E), NEW e \in Entries \ E, fds[e] # None
  PROVE  file'[fds[e]] = file[fds[e]]
  <1>1. fds[e] \in FileIds
    BY NamedIsOpen
  <1>2. fds[e] \notin Released(E)
    <2> DEFINE N == Naming(Entries, fds[e]) \ E
    <2>1. N \in SUBSET Entries /\ e \in N
      BY DEF Naming
    <2>2. RefsAfter(E)[fds[e]] = Cardinality(N) /\ refs[fds[e]] > 0
      BY <1>1, RefsAfterOK, NamedIsOpen
    <2> HIDE DEF N
    <2>3. IsFiniteSet(N) /\ Cardinality(N) \in Nat
      BY <2>1, Finite
    <2>4. Cardinality(N) # 0
      BY <2>1, <2>3, FS_EmptySet
    <2>5. RefsAfter(E)[fds[e]] > 0
      BY <2>2, <2>3, <2>4
    <2> QED
      BY <1>1, <2>5, RefsAfterOK
  <1> QED
    BY <1>1, <1>2 DEF CloseEffect

(* The action behind StableDescriptors. *)
Stable == \A e \in Entries : fds[e] # None /\ fds'[e] = fds[e]
             => file'[fds[e]] = file[fds[e]]

(* Only a free file gets a content, and no open descriptor names one. *)
LEMMA OpenStable ==
  ASSUME IInv, \A f \in FileIds : refs[f] > 0 => file'[f] = file[f]
  PROVE  Stable
  <1> SUFFICES ASSUME NEW e \in Entries, fds[e] # None PROVE file'[fds[e]] = file[fds[e]]
    BY DEF Stable
  <1> QED
    BY NamedIsOpen

(* A descriptor that a step leaves in place keeps standing for the same      *)
(* file, pipe end or object, whatever another process opens, shares, closes  *)
(* or leaves behind by ending.                                               *)
THEOREM DescriptorsAreStable == Spec => StableDescriptors
  <1>1. IInv /\ [Next]_vars => [Stable]_vars
    <2> SUFFICES ASSUME IInv, Next PROVE Stable
      BY DEF Stable, vars
    <2>0. file \in [FileIds -> Files]
      BY DEF IInv, TypeOK
    <2>1. ASSUME file' = file PROVE Stable
      BY <2>1 DEF Stable
    <2>2. ASSUME NEW p \in Pids, NEW d \in Fds, NEW f \in FileIds, NEW content,
                 OpenNew(p, d, f, content)
          PROVE  Stable
      <3>1. \A g \in FileIds : refs[g] > 0 => file'[g] = file[g]
        BY <2>0, <2>2 DEF OpenNew, Lowest, FreeFiles
      <3> QED
        BY <3>1, OpenStable
    <2>3. ASSUME NEW p \in Pids, NEW f \in FileIds, BindPtyStdio(p, f) PROVE Stable
      <3>1. \A g \in FileIds : refs[g] > 0 => file'[g] = file[g]
        BY <2>0, <2>3 DEF BindPtyStdio, Lowest, FreeFiles
      <3> QED
        BY <3>1, OpenStable
    <2>4. ASSUME NEW p \in Pids, NEW rd \in Fds, NEW wd \in Fds, NEW rf \in FileIds,
                 NEW wf \in FileIds, NEW i \in PipeIds, PipeCreate(p, rd, wd, rf, wf, i)
          PROVE  Stable
      <3>1. \A g \in FileIds : refs[g] > 0 => file'[g] = file[g]
        BY <2>0, <2>4 DEF PipeCreate, Lowest, FreeFiles
      <3> QED
        BY <3>1, OpenStable
    <2>5. ASSUME NEW E \in SUBSET Entries, CloseEffect(E),
                 \A e \in E : fds[e] # None => fds'[e] # fds[e] \/ file'[fds[e]] = file[fds[e]]
          PROVE  Stable
      BY <2>5, CloseKeepsOthers DEF Stable
    <2>6. ASSUME NEW p \in Pids, NEW d \in Fds, Close(p, d) PROVE Stable
      <3>1. /\ {<<p, d>>} \in SUBSET Entries /\ CloseEffect({<<p, d>>})
            /\ fds' = [fds EXCEPT ![<<p, d>>] = None]
        BY <2>6 DEF Close, Entries
      <3>2. \A e \in {<<p, d>>} : fds[e] # None => fds'[e] # fds[e]
        BY <3>1 DEF IInv, TypeOK
      <3> QED
        BY <2>5, <3>1, <3>2
    <2>7. ASSUME NEW p \in Pids, NEW s \in Fds, NEW d \in Fds, Dup2(p, s, d) PROVE Stable
      <3> DEFINE a == <<p, s>>
                 b == <<p, d>>
                 E == IF fds[b] = None THEN {} ELSE {b}
      <3>1. /\ E \in SUBSET Entries /\ CloseEffect(E) /\ a \in Entries /\ a \notin E
            /\ fds' = [fds EXCEPT ![b] = fds[a]] /\ fds[a] # None
        BY <2>7 DEF Dup2, IsOpen, Entries
      <3>2. file'[fds[a]] = file[fds[a]]
        BY <3>1, CloseKeepsOthers
      <3>3. \A e \in E : e = b /\ e \in Entries
        BY <3>1
      <3> HIDE DEF a, b, E
      <3>4. \A e \in E : fds[e] # None => fds'[e] # fds[e] \/ file'[fds[e]] = file[fds[e]]
        BY <3>1, <3>2, <3>3 DEF IInv, TypeOK
      <3> QED
        BY <2>5, <3>1, <3>4
    <2>8. ASSUME NEW S \in SUBSET Pids, Exit(S) PROVE Stable
      <3> DEFINE E == {e \in Entries : e[1] \in S /\ IsOpen(e)}
      <3>1. /\ E \in SUBSET Entries /\ CloseEffect(E)
            /\ fds' = [e \in Entries |-> IF e \in E THEN None ELSE fds[e]]
        BY <2>8 DEF Exit
      <3> HIDE DEF E
      <3>2. \A e \in E : fds[e] # None => fds'[e] # fds[e]
        BY <3>1
      <3> QED
        BY <2>5, <3>1, <3>2
    <2>9. ASSUME NEW p \in Pids, Opening(p) PROVE Stable
      BY <2>2, <2>3, <2>4, <2>9 DEF Opening, OpenFile, BindPty, CreateCustom
    <2>10. ASSUME NEW p \in Pids, Sharing(p) PROVE Stable
      BY <2>1, <2>6, <2>7, <2>10 DEF Sharing, Dup
    <2>11. ASSUME NEW p \in Pids, Transfer(p) \/ KernelSpawn(p) PROVE Stable
      BY <2>1, <2>11 DEF Transfer, PipeWrite, PipeRead, KernelSpawn, fdVars
    <2>12. ASSUME NEW p \in Pids, NEW q \in Pids, Exec(q, p) PROVE Stable
      BY <2>1, <2>12 DEF Exec
    <2> QED
      BY <2>8, <2>9, <2>10, <2>11, <2>12 DEF Next
  <1>2. [][Stable]_vars <=> StableDescriptors
    BY DEF Stable, StableDescriptors
  <1> QED
    BY <1>1, <1>2, Invariance, PTL DEF Spec
=============================================================================
