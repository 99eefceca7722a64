------------------------------- MODULE Fat32 --------------------------------
(***************************************************************************)
(* The FAT32 file system (src/drivers/system/fat32.c) on a disk that may   *)
(* fail or lose power between any two writes.                              *)
(*                                                                         *)
(* Calls of the file system do not overlap, so a call is the list of the   *)
(* disk writes it is about to make, computed from the disk it finds; the   *)
(* writes then reach the disk one by one.  Each carries the writes the     *)
(* code makes instead of the rest when it fails.  Every read is assumed to *)
(* succeed: what the code makes of a failed one (an unreadable link is the *)
(* end of a chain, fat32.c:305 and 460) is not modelled.  The second copy  *)
(* of the table is written after the first and never read: it is left out, *)
(* and so are bad clusters.  Sizes are counted in clusters, a cluster of   *)
(* data is the number of the call that wrote it and its place in the file. *)
(***************************************************************************)
EXTENDS Integers, FiniteSets, FiniteSetsExt, Sequences, SequencesExt

CONSTANTS MaxCluster,   \* s_max_cluster
          PerCluster,   \* directory entries in a cluster
          Names,        \* names callers use
          Sizes,        \* sizes of files, in clusters
          MaxDirs,      \* the length of repair_dir_queue
          Foreign,      \* the volume holds a directory another system made
          MaxCalls, MaxCrashes, MaxErrors     \* bounds

ASSUME Fat32Assumption == /\ {MaxCluster, PerCluster, MaxDirs} \subseteq Nat /\ MaxCluster > 4 /\ PerCluster > 1
                          /\ Sizes \subseteq Nat /\ Foreign \in BOOLEAN
                          /\ {MaxCalls, MaxCrashes, MaxErrors} \subseteq Nat

VARIABLES disk,      \* [fat, data, info (FSInfo's free count), clean (the bit of FAT[1])]
          mounted,   \* s_ready
          count,     \* s_free_bytes, in clusters
          pending,   \* the writes the current call has still to make
          call,      \* the current or last call
          lapses,    \* history: what has gone wrong so far, of Lapses
          calls, crashes, errors

vars == <<disk, mounted, count, pending, call, lapses, calls, crashes, errors>>

Clusters == 2 .. MaxCluster
Root     == 2
Free     == 0
EOC      == MaxCluster + 1
Total    == Cardinality(Clusters)
Dots     == {"dot", "dotdot"}
\* "torn": an entry was written by a write that was refused and rolled back;
\* "unrepaired": the last repair gave up by itself.
Lapses   == {"torn", "unrepaired"}

Cell(version, part) == [kind |-> "file", version |-> version, part |-> part, entries |-> <<>>]
DirCell(entries)    == [kind |-> "dir", version |-> 0, part |-> 0, entries |-> entries]
Entry(kind, name, first, size) == [kind |-> kind, name |-> name, first |-> first, size |-> size]
End      == Entry("end", "", 0, 0)
EmptyDir == DirCell([i \in 1 .. PerCluster |-> End])

\* A new volume, or one on which another system left an empty directory and a
\* file.  That system's dots begin with a dot (kind "dots") and are skipped.
NewDisk == [fat   |-> [c \in Clusters |-> IF c = Root THEN EOC ELSE Free],
            data  |-> [c \in Clusters |-> IF c = Root THEN EmptyDir ELSE Cell(0, 0)],
            info  |-> Total - 1,
            clean |-> TRUE]
ForeignDisk ==
    LET a == CHOOSE n \in Names : TRUE
        b == CHOOSE n \in Names : n # a
        dots == <<Entry("dots", "dot", 3, 0), Entry("dots", "dotdot", 0, 0)>>
        rest(s) == s \o [i \in 1 .. PerCluster - 2 |-> End]
    IN  [NewDisk EXCEPT
            !.fat[3] = EOC, !.fat[4] = EOC, !.info = Total - 3,
            !.data[Root] = DirCell(rest(<<Entry("dir", a, 3, 0), Entry("file", b, 4, 1)>>)),
            !.data[3] = DirCell(rest(dots)), !.data[4] = Cell(0, 1)]

Call(op, dir, name, new, size) == [op |-> op, dir |-> dir, name |-> name, new |-> new,
                                   size |-> size, repairs |-> FALSE]
Idle == Call("none", Root, "", "", 0)

Init == /\ disk = IF Foreign THEN ForeignDisk ELSE NewDisk
        /\ mounted = FALSE /\ count = 0 /\ pending = <<>> /\ call = Idle
        /\ lapses = {} /\ calls = 0 /\ crashes = 0 /\ errors = 0

-----------------------------------------------------------------------------
(* Writes.                                                                 *)

\* fails: the writes made instead of the rest; ignored: the rest is made anyway.
Write(on, at, to, fails) == [on |-> on, at |-> at, to |-> to, fails |-> fails, ignored |-> FALSE]
SetFat(c, v, fails)  == Write("fat", c, v, fails)
SetData(c, v, fails) == Write("data", c, v, fails)
SetInfo(n)           == [Write("info", 0, n, <<>>) EXCEPT !.ignored = TRUE]
SetClean(b)          == Write("clean", 0, b, <<>>)
FreeEach(cs)  == [i \in 1 .. Len(cs) |-> [SetFat(cs[i], Free, <<>>) EXCEPT !.ignored = TRUE]]
FreeChain(cs) == [i \in 1 .. Len(cs) |-> SetFat(cs[i], Free, <<>>)]
Failing(ws, fails) == [i \in 1 .. Len(ws) |-> [ws[i] EXCEPT !.fails = fails]]

Apply(d, w) == CASE w.on = "fat"   -> [d EXCEPT !.fat[w.at] = w.to]
                 [] w.on \in {"data", "entry"} -> [d EXCEPT !.data[w.at] = w.to]
                 [] w.on = "info"  -> [d EXCEPT !.info = w.to]
                 [] w.on = "clean" -> [d EXCEPT !.clean = w.to]
After(d, ws) == FoldLeft(Apply, d, ws)

-----------------------------------------------------------------------------
(* Reading the disk.                                                       *)

FreeClusters(d) == {c \in Clusters : d.fat[c] = Free}
\* find_free_cluster, n times over
Lowest(d, n) == SubSeq(SetToSortSeq(FreeClusters(d), <), 1, n)

\* fat_next_cluster from a cluster on, at most as often as there are clusters.
Chain(d, first) ==
    FoldLeft(LAMBDA s, i : IF d.fat[Last(s)] \in Clusters THEN Append(s, d.fat[Last(s)]) ELSE s,
             <<first>>, [i \in 1 .. MaxCluster |-> i])

Places(d, dir) == LET cs == Chain(d, dir)
                  IN  FlattenSeq([j \in 1 .. Len(cs) |->
                          [i \in 1 .. Len(d.data[cs[j]].entries) |-> <<cs[j], i>>]])
At(d, place) == d.data[place[1]].entries[place[2]]
\* The places before the end mark.
Used(d, dir) == LET ps   == Places(d, dir)
                    ends == {j \in 1 .. Len(ps) : At(d, ps[j]).kind = "end"}
                IN  IF ends = {} THEN ps ELSE SubSeq(ps, 1, Min(ends) - 1)
\* locate_dir_entry, which has no test for dots
Matching(d, dir, name) == SelectSeq(Used(d, dir), LAMBDA p :
                              At(d, p).kind # "deleted" /\ At(d, p).name = name)
Exists(d, dir, name) == Matching(d, dir, name) # <<>>
Locate(d, dir, name) == Head(Matching(d, dir, name))
\* fat32_list_dir, whose test for the dots does not know those of fat32_make_dir
IsListed(e)    == \/ e.kind = "file" /\ e.first \in Clusters \cup {0}
                  \/ e.kind = "dir" /\ e.first \in Clusters
Listed(d, dir) == SelectSeq(Used(d, dir), LAMBDA p : IsListed(At(d, p)))

-----------------------------------------------------------------------------
(* Calls.                                                                  *)

\* find_free_dir_slot: a place and the writes that make it.  A directory that is
\* full grows by a cluster; none free is no place.
FreePlaces(d, dir) == SelectSeq(Places(d, dir), LAMBDA p : At(d, p).kind \in {"end", "deleted"})
HasPlace(d, dir)   == FreePlaces(d, dir) # <<>> \/ FreeClusters(d) # {}
PlaceIn(d, dir) ==
    IF FreePlaces(d, dir) # <<>> THEN [place |-> Head(FreePlaces(d, dir)), writes |-> <<>>]
    ELSE LET new == Min(FreeClusters(d))
         IN  [place  |-> <<new, 1>>,
              writes |-> <<SetData(new, EmptyDir, <<>>), SetFat(new, EOC, <<>>),
                           SetFat(Last(Chain(d, dir)), new, <<>>)>>]
SetEntry(d, place, entry, fails) ==
    Write("entry", place[1], [d.data[place[1]] EXCEPT !.entries[place[2]] = entry], fails)
\* The write after whose failure the chain the entry names is given back
RollsBack(w) == w.on = "entry" /\ w.fails # <<>>

\* allocate_file_chain: per cluster, its end mark, the link to it and its data.
ChainWrites(cs, version) ==
    FlattenSeq([i \in 1 .. Len(cs) |->
        Failing(<<SetFat(cs[i], EOC, <<>>)>>
                \o (IF i = 1 THEN <<>> ELSE <<SetFat(cs[i - 1], cs[i], <<>>)>>)
                \o <<SetData(cs[i], Cell(version, i), <<>>)>>,
                FreeEach(SubSeq(cs, 1, i)))])

AtLeastOne(n) == IF n = 0 THEN 1 ELSE n
Clamped(n) == IF n > Total THEN Total ELSE n

\* fat32_write_file: copy on write; the entry switches, then the old chain goes.
WriteFile(d, n, dir, name, size, version) ==
    LET exists == Exists(d, dir, name)
        slot == IF exists THEN [place |-> Locate(d, dir, name), writes |-> <<>>] ELSE PlaceIn(d, dir)
        old  == At(d, slot.place)
        d1   == After(d, slot.writes)
        need == AtLeastOne(size)
        had  == Cardinality(FreeClusters(d1))
        new  == Lowest(d1, IF need <= had THEN need ELSE had)
        back == IF exists THEN n + AtLeastOne(old.size) ELSE n
        chain == slot.writes \o ChainWrites(new, version)
    IN  IF ~exists /\ ~HasPlace(d, dir) THEN <<>>
        ELSE IF exists /\ old.kind = "dir" THEN <<>>
        ELSE IF need > had THEN chain \o FreeEach(new)
        ELSE chain
             \o <<SetEntry(d1, slot.place, Entry("file", name, new[1], size), FreeChain(new))>>
             \o (IF exists THEN FreeChain(Chain(d, old.first)) ELSE <<>>)
             \o <<SetInfo(Clamped(IF back > need THEN back - need ELSE 0))>>

\* dir_is_empty reads the directory into the buffer that holds its parent's
\* entries: what is written back is the last cluster read.
BufferAfter(d, place, entry) ==
    LET read == Chain(d, entry.first)
        ends == {j \in 1 .. Len(read) : \E i \in 1 .. PerCluster :
                    d.data[read[j]].entries[i].kind = "end"}
    IN  IF entry.kind = "dir"
          THEN d.data[IF ends = {} THEN Last(read) ELSE read[Min(ends)]]
          ELSE d.data[place[1]]

\* Mutant: the chain is freed before the entry goes.
DeleteChainFirst(d, n, dir, name) ==
    LET place == Locate(d, dir, name)
        entry == At(d, place)
        gone  == Chain(d, entry.first)
        kept  == [d.data[place[1]] EXCEPT !.entries[place[2]].kind = "deleted"]
    IN  IF ~Exists(d, dir, name) THEN <<>>
        ELSE IF entry.kind = "dir" /\ Listed(d, entry.first) # <<>> THEN <<>>
        ELSE FreeChain(gone) \o <<SetData(place[1], kept, <<>>), SetInfo(Clamped(n + Len(gone)))>>

\* fat32_delete_file
DeleteFile(d, n, dir, name) ==
    LET place == Locate(d, dir, name)
        entry == At(d, place)
        gone  == Chain(d, entry.first)
        kept  == [BufferAfter(d, place, entry) EXCEPT !.entries[place[2]].kind = "deleted"]
    IN  IF ~Exists(d, dir, name) THEN <<>>
        ELSE IF entry.kind = "dir" /\ Listed(d, entry.first) # <<>> THEN <<>>
        ELSE <<SetData(place[1], kept, <<>>)>> \o FreeChain(gone) \o <<SetInfo(Clamped(n + Len(gone)))>>

\* Mutant: the new name may be taken.
RenameOverExisting(d, dir, name, new) ==
    IF ~Exists(d, dir, name) THEN <<>>
    ELSE <<SetEntry(d, Locate(d, dir, name), [At(d, Locate(d, dir, name)) EXCEPT !.name = new], <<>>)>>

\* fat32_rename_file
RenameFile(d, dir, name, new) ==
    LET place == Locate(d, dir, name)
    IN  IF ~Exists(d, dir, name) \/ Exists(d, dir, new) THEN <<>>
        ELSE <<SetEntry(d, place, [At(d, place) EXCEPT !.name = new], <<>>)>>

\* fat32_make_dir
MakeDir(d, n, dir, name) ==
    LET new  == Min(FreeClusters(d))
        dots == [i \in 1 .. PerCluster |-> CASE i = 1 -> Entry("dir", "dot", new, 0)
                                             [] i = 2 -> Entry("dir", "dotdot", dir, 0)
                                             [] OTHER -> End]
        undo == FreeEach(<<new>>)
        body == <<SetFat(new, EOC, <<>>), SetData(new, DirCell(dots), undo)>>
        d1   == After(d, body)
        slot == PlaceIn(d1, dir)
    IN  IF Exists(d, dir, name) \/ FreeClusters(d) = {} THEN <<>>
        ELSE IF ~HasPlace(d1, dir) THEN body \o undo
        ELSE body \o Failing(slot.writes, undo)
             \o <<SetEntry(After(d1, slot.writes), slot.place, Entry("dir", name, new, 0), undo)>>
             \o <<SetInfo(IF n >= 1 THEN n - 1 ELSE 0)>>

-----------------------------------------------------------------------------
(* Repair.  Its state: the table as mended so far, the clusters in use, the *)
(* directories found, and the writes.                                      *)

Mend(r, c) == [r EXCEPT !.disk.fat[c] = EOC, !.writes = Append(@, SetFat(c, EOC, <<>>))]
\* A step of repair_mark_chain
MarkCluster(r, i) ==
    LET next == r.disk.fat[r.at]
        seen == [r EXCEPT !.used = @ \cup {r.at}, !.at = 0]
    IN  IF r.at \notin Clusters \/ r.at \in r.used THEN [r EXCEPT !.at = 0]
        ELSE IF next = EOC THEN seen
        ELSE IF next \notin Clusters \/ next \in seen.used THEN Mend(seen, r.at)
        ELSE [seen EXCEPT !.at = next]
MarkChain(r, first) == FoldLeft(MarkCluster, [r EXCEPT !.at = first], [i \in 1 .. MaxCluster |-> i])

\* A directory that the queue has no room for ends the repair.
MarkEntry(r, entry) ==
    LET found == entry.kind = "dir" /\ entry.first \notin r.used
        t == MarkChain(r, entry.first)
    IN  IF r.full \/ entry.first \notin Clusters THEN r
        ELSE IF ~found THEN t
        ELSE IF Len(r.queue) < MaxDirs THEN [t EXCEPT !.queue = Append(@, entry.first)]
        ELSE [t EXCEPT !.full = TRUE]
MarkDir(r, i) ==
    LET ps == Listed(r.disk, r.queue[i])
    IN  IF i > Len(r.queue) THEN r
        ELSE FoldLeft(MarkEntry, r, [j \in 1 .. Len(ps) |-> At(r.disk, ps[j])])
Marked(d) ==
    LET start == [disk |-> d, used |-> {}, at |-> 0, queue |-> <<Root>>, full |-> FALSE,
                  writes |-> <<>>]
    IN  FoldLeft(MarkDir, MarkChain(start, Root), [i \in 1 .. MaxCluster |-> i])

Repaired(done, writes) == [done |-> done, writes |-> writes]

\* Mutant: chains are mended, but what nothing reaches is kept.
RepairKeepsLost(d) ==
    LET marked == Marked(d)
    IN  {Repaired(TRUE, marked.writes \o <<SetInfo(Cardinality(FreeClusters(marked.disk)))>>)}

\* fat32_check_repair: what no entry reaches is freed, and the count is taken,
\* unless there is no memory for the bits of the used clusters or the queue of
\* directories is too short.
Repair(d) ==
    LET marked == Marked(d)
        lost   == {c \in Clusters : marked.disk.fat[c] # Free /\ c \notin marked.used}
        writes == marked.writes \o FreeChain(SetToSortSeq(lost, <))
    IN  {Repaired(FALSE, <<>>),
         IF marked.full THEN Repaired(FALSE, marked.writes)
         ELSE Repaired(TRUE, writes \o <<SetInfo(Cardinality(FreeClusters(After(d, writes))))>>)}
AfterRepair(r) == IF r.done THEN lapses \ {"unrepaired"} ELSE lapses \cup {"unrepaired"}

-----------------------------------------------------------------------------
(* Steps.                                                                  *)

\* The directories a caller can name: those of the tree.
SubDirs(d, dirs) == {At(d, p).first : p \in {q \in UNION {Range(Listed(d, dir)) : dir \in dirs} :
                                       At(d, q).kind = "dir" /\ At(d, q).name \notin Dots}}
Deeper(d, r) == LET new == SubDirs(d, r.new) \ r.all IN [all |-> r.all \cup new, new |-> new]
Dirs(d) == FoldLeft(LAMBDA r, i : Deeper(d, r), [all |-> {Root}, new |-> {Root}],
                    [i \in 1 .. MaxCluster |-> i]).all

Begin(c, writes) ==
    /\ mounted /\ pending = <<>> /\ call.op # "shutdown" /\ calls < MaxCalls
    /\ pending' = writes
    /\ call' = c
    /\ calls' = calls + 1
    /\ UNCHANGED <<disk, mounted, count, crashes, errors>>

CallWrite(dir, name, size) ==
    /\ Begin(Call("write", dir, name, "", size), WriteFile(disk, count, dir, name, size, calls + 1))
    /\ UNCHANGED lapses
CallDelete(dir, name) ==
    /\ Begin(Call("delete", dir, name, "", 0), DeleteFile(disk, count, dir, name))
    /\ UNCHANGED lapses
CallRename(dir, name, new) ==
    /\ Begin(Call("rename", dir, name, new, 0), RenameFile(disk, dir, name, new))
    /\ UNCHANGED lapses
CallMakeDir(dir, name) ==
    /\ Begin(Call("mkdir", dir, name, "", 0), MakeDir(disk, count, dir, name))
    /\ UNCHANGED lapses
\* The fsck command of the terminal
Fsck ==
    \E r \in Repair(disk) :
        /\ Begin([Call("fsck", Root, "", "", 0) EXCEPT !.repairs = r.done], r.writes)
        /\ lapses' = AfterRepair(r)
\* fat32_shutdown_clean, the last thing the system does
Shutdown ==
    /\ Begin(Call("shutdown", Root, "", "", 0), <<SetInfo(count), SetClean(TRUE)>>)
    /\ UNCHANGED lapses

\* The next write of the call, in the order the code makes them.
WriteDone ==
    /\ pending # <<>>
    /\ disk' = Apply(disk, Head(pending))
    /\ count' = IF Head(pending).on = "info" THEN Head(pending).to ELSE count
    /\ pending' = Tail(pending)
    /\ UNCHANGED <<mounted, call, lapses, calls, crashes, errors>>

\* The device refuses the write.  It may be on the disk all the same: a cluster
\* is written in pieces, a link into the first table before the second.
WriteFails ==
    /\ pending # <<>> /\ errors < MaxErrors
    /\ \/ UNCHANGED <<disk, lapses>>
       \/ /\ disk' = Apply(disk, Head(pending))
          /\ lapses' = IF RollsBack(Head(pending)) THEN lapses \cup {"torn"} ELSE lapses
    /\ count' = IF Head(pending).on = "info" THEN Head(pending).to ELSE count
    /\ pending' = IF Head(pending).ignored THEN Tail(pending) ELSE Head(pending).fails
    /\ errors' = errors + 1
    /\ UNCHANGED <<mounted, call, calls, crashes>>

\* The power goes, in the middle of a call or not; or the system is off.
PowerOff ==
    /\ mounted
    /\ \/ call.op = "shutdown" /\ pending = <<>> /\ crashes' = crashes
       \/ crashes < MaxCrashes /\ crashes' = crashes + 1
    /\ mounted' = FALSE /\ pending' = <<>> /\ count' = 0 /\ call' = Idle
    /\ UNCHANGED <<disk, lapses, calls, errors>>

Mounting == Call("mount", Root, "", "", 0)

\* Mutant: the volume is not marked in use.
MountUnmarked ==
    /\ ~mounted /\ mounted' = TRUE
    /\ count' = disk.info
    /\ \/ disk.clean /\ pending' = <<>> /\ call' = Mounting /\ lapses' = lapses
       \/ ~disk.clean /\ \E r \in Repair(disk) :
             /\ pending' = r.writes
             /\ call' = [Mounting EXCEPT !.repairs = r.done]
             /\ lapses' = AfterRepair(r)
    /\ UNCHANGED <<disk, calls, crashes, errors>>

\* fat32_init: the count of FSInfo, a repair if the last session did not end
\* cleanly, whatever comes of it, and the volume marked in use.
Mount ==
    LET use == <<SetClean(FALSE)>>
    IN  /\ ~mounted /\ mounted' = TRUE
        /\ count' = disk.info
        /\ \/ disk.clean /\ pending' = use /\ call' = Mounting /\ lapses' = lapses
           \/ ~disk.clean /\ \E r \in Repair(disk) :
                 /\ pending' = Failing(r.writes, use) \o use
                 /\ call' = [Mounting EXCEPT !.repairs = r.done]
                 /\ lapses' = AfterRepair(r)
        /\ UNCHANGED <<disk, calls, crashes, errors>>

Next ==
    \/ \E dir \in Dirs(disk), name \in Names :
          \/ \E size \in Sizes : CallWrite(dir, name, size)
          \/ CallDelete(dir, name)
          \/ \E new \in Names : CallRename(dir, name, new)
          \/ CallMakeDir(dir, name)
    \/ Fsck \/ Shutdown
    \/ WriteDone \/ WriteFails \/ PowerOff \/ Mount

Spec == Init /\ [][Next]_vars

-----------------------------------------------------------------------------
(* Properties.                                                             *)

EntryTypeOK(e) == /\ e.kind \in {"end", "deleted", "file", "dir", "dots"}
                  /\ e.first \in Clusters \cup {0}
\* Tables, links, entries and pending writes stay within the volume.
TypeOK ==
    /\ disk.fat \in [Clusters -> Clusters \cup {Free, EOC}]
    /\ \A c \in Clusters : \A i \in 1 .. Len(disk.data[c].entries) : EntryTypeOK(disk.data[c].entries[i])
    /\ {disk.info, count} \subseteq 0 .. Total
    /\ \A i \in 1 .. Len(pending) : pending[i].on \in {"fat", "data", "entry"} => pending[i].at \in Clusters
    /\ mounted \in BOOLEAN /\ disk.clean \in BOOLEAN /\ lapses \subseteq Lapses

Entries(d, dir) == {At(d, p) : p \in {q \in Range(Listed(d, dir)) : At(d, q).name \notin Dots}}
AllEntries(d)   == UNION {Entries(d, dir) : dir \in Dirs(d)}
Held(d)         == Range(Chain(d, Root)) \cup UNION {Range(Chain(d, e.first)) : e \in AllEntries(d)}

\* What the volume shows: the names of each directory, with the contents of files.
Contents(d, e) == IF e.kind = "dir" THEN <<>>
                  ELSE LET cs == Chain(d, e.first)
                       IN  [i \in 1 .. Min({e.size, Len(cs)}) |-> d.data[cs[i]]]
Shown(d) == {<<dir, e.name, e.kind, Contents(d, e)>> : <<dir, e>> \in
                UNION {{dir} \X Entries(d, dir) : dir \in Dirs(d)}}

\* At every instant, power failures and refused writes included, if every read
\* succeeds: the chains of the visible entries are allocated to their end, long
\* enough, without a loop and disjoint: no entry points at clusters that were
\* given to another (the comment at fat32.c:818); and nothing is written outside
\* the data area.  The exception is the refused write of a file's or directory's
\* entry that reached the disk: the code then gives back the chain the entry
\* names (fat32.c:881-883, 922-924), and nothing is claimed from there on.
ChainsSound ==
    LET chains == [e \in AllEntries(disk) \cup {Entry("dir", "/", Root, 0)} |-> Chain(disk, e.first)]
        whole  == DOMAIN chains
    IN  "torn" \notin lapses =>
            /\ TypeOK
            /\ \A e \in whole : /\ disk.fat[Last(chains[e])] = EOC
                                /\ IsInjective(chains[e])
                                /\ e.size <= Len(chains[e])
                                /\ \A f \in whole \ {e} : Range(chains[e]) \cap Range(chains[f]) = {}

Without(shown, dir, name) == {t \in shown : ~(t[1] = dir /\ t[2] = name)}
Wanted(c, shown, version) ==
    CASE c.op = "write"  -> Without(shown, c.dir, c.name) \cup
             {<<c.dir, c.name, "file", [i \in 1 .. c.size |-> Cell(version, i)]>>}
      [] c.op = "delete" -> Without(shown, c.dir, c.name)
      [] c.op = "mkdir"  -> shown \cup {<<c.dir, c.name, "dir", <<>>>>}
      [] c.op = "rename" -> Without(Without(shown, c.dir, c.name), c.dir, c.new) \cup
             {<<t[1], c.new, t[3], t[4]>> : t \in {u \in shown : u[1] = c.dir /\ u[2] = c.name}}
      [] OTHER -> shown

\* Whatever is interrupted or refused, if every read succeeds: what the volume
\* shows changes only to what the call asks for, all at once; a replaced file is
\* the old one or the new one, a deletion takes one name, and repair takes none.
\* The exception is that of ChainsSound: the refused write of an entry that
\* reached the disk, after which the entry shows clusters that are free.
CallsAtomic == [][LET before == Shown(disk)
                      after  == Shown(disk')
                  IN  \/ "torn" \in lapses
                      \/ after = before
                      \/ after = Wanted(call, before, calls)]_disk

\* The deletion is committed in the directory (the comment at fat32.c:818): the
\* call removes the name it was given and nothing else.
DeleteRemovesName ==
    [][call.op = "delete" =>
          Shown(disk') \in {Shown(disk), Without(Shown(disk), call.dir, call.name)}]_disk

\* A repair that was neither interrupted nor given up leaves no cluster that
\* nothing reaches, and the count of free clusters is right, in memory and in
\* FSInfo.  It gives up, and mount goes on, for want of memory and at the limit
\* of repair_dir_queue (fat32.c:410, 448).
RepairComplete ==
    mounted /\ pending = <<>> /\ call.repairs /\ errors = 0 =>
        /\ {c \in Clusters : disk.fat[c] # Free} = Held(disk)
        /\ count = Cardinality(FreeClusters(disk))
        /\ disk.info = count

\* The clean mark, on which the next mount skips the repair, is only on disk
\* while no cluster is lost, if the device made no error and the last repair did
\* not give up: never during a call, however the session before it ended.  A
\* repair that gave up is forgotten by fat32_shutdown_clean (fat32.c:266, 494).
CleanMeansWhole ==
    disk.clean /\ errors = 0 /\ "unrepaired" \notin lapses =>
        {c \in Clusters : disk.fat[c] # Free} = Held(disk)
=============================================================================
