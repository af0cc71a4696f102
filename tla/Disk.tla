------------------------------- MODULE Disk -------------------------------
(***************************************************************************)
(* The files of a log directory, with the durability model rudb-io/sim.rs   *)
(* states for every file system the database runs on.  A write is seen at   *)
(* once by every reader and survives the process.  It survives a loss of    *)
(* power once the file is synced, and until then any subset of the writes   *)
(* since the last sync may survive.  A file's name is durable apart from    *)
(* its contents: a create, a rename or a remove is sure once the directory  *)
(* is synced, and until then it may or may not have happened.               *)
(*                                                                          *)
(* A file holds what the log tells apart: the sequence its header names (0  *)
(* when the header does not verify), whether it has its full size, and one  *)
(* block in each slot, a pair of the sequence its checksums are seeded with *)
(* and the block's number.                                                  *)
(***************************************************************************)
EXTENDS Integers, FiniteSets

CONSTANTS MaxFiles,       \* bound: files that exist at a time, sure or not
          SegmentBlocks   \* how many blocks a segment holds

ASSUME DiskAssumption == /\ MaxFiles \in Nat
                         /\ SegmentBlocks \in Nat \ {0}

VARIABLE files

Inodes == 1..MaxFiles
Slots == 1..SegmentBlocks
NoName == <<"none", 0>>
Segment(n) == <<"segment", n>>
Spare(n) == <<"spare", n>>
Empty == <<0, 0>>
Block(sequence, number) == <<sequence, number>>

(* What a file holds, and what of it a loss of power leaves for sure. *)
Blank == [head |-> 0, whole |-> FALSE, slots |-> [k \in Slots |-> Empty]]
NoFile == [name |-> NoName, kept |-> NoName, now |-> Blank, sure |-> Blank]

FileNames == {files[i].name : i \in Inodes} \ {NoName}
At(name) == CHOOSE i \in Inodes : files[i].name = name
Free == CHOOSE i \in Inodes : files[i] = NoFile
HasFree == \E i \in Inodes : files[i] = NoFile

(* A file no name reaches now or after a crash is gone. *)
Swept(fs) == [i \in Inodes |->
                IF fs[i].name = NoName /\ fs[i].kept = NoName THEN NoFile ELSE fs[i]]

-----------------------------------------------------------------------------
(* The operations, each as the files after it. *)

Created(i, name, content) ==
    [files EXCEPT ![i] = [name |-> name, kept |-> NoName, now |-> content, sure |-> Blank]]

Written(fs, i, content) == [fs EXCEPT ![i].now = content]

Synced(fs, i) == [fs EXCEPT ![i].sure = fs[i].now]

(* A rename replaces the file that had the name. *)
Renamed(fs, i, name) ==
    Swept([j \in Inodes |->
             IF j = i THEN [fs[j] EXCEPT !.name = name]
             ELSE IF fs[j].name = name THEN [fs[j] EXCEPT !.name = NoName] ELSE fs[j]])

Removed(fs, gone) ==
    Swept([j \in Inodes |-> IF j \in gone THEN [fs[j] EXCEPT !.name = NoName] ELSE fs[j]])

DirSynced(fs) == Swept([j \in Inodes |-> [fs[j] EXCEPT !.kept = fs[j].name]])

-----------------------------------------------------------------------------
(* What a loss of power may leave.  The writes and the names that are not   *)
(* sure yet survive in any combination.  A header written since the last    *)
(* sync may also be torn, which its checksum shows.  One name has one file: *)
(* a create that survives wins over the remove of the file that had the     *)
(* name before.                                                             *)
LooseNames == {i \in Inodes : files[i].name # files[i].kept}
LooseHeads == {i \in Inodes : files[i].now.head # files[i].sure.head}
LooseSizes == {i \in Inodes : files[i].now.whole # files[i].sure.whole}
LooseSlots == {x \in Inodes \X Slots : files[x[1]].now.slots[x[2]] # files[x[1]].sure.slots[x[2]]}

Left(names, heads, torn, sizes, slots) ==
    [i \in Inodes |->
       LET name == IF i \in names THEN files[i].name ELSE files[i].kept
           from(kept) == IF kept THEN files[i].now ELSE files[i].sure
           content == [head |-> IF i \in torn THEN 0 ELSE from(i \in heads).head,
                       whole |-> from(i \in sizes).whole,
                       slots |-> [k \in Slots |-> from(<<i, k>> \in slots).slots[k]]]
       IN  IF name = NoName THEN NoFile
           ELSE [name |-> name, kept |-> name, now |-> content, sure |-> content]]

OneFileAName(fs) == \A i, j \in Inodes :
                       i # j /\ fs[i].name # NoName => fs[i].name # fs[j].name

PowerLost ==
    {fs \in {Left(n, h, t, w, s) : n \in SUBSET LooseNames, h \in SUBSET LooseHeads,
                                   t \in SUBSET LooseHeads, w \in SUBSET LooseSizes,
                                   s \in SUBSET LooseSlots} : OneFileAName(fs)}

(* The end of the process alone loses no write and no name. *)
ProcessLost == {files}
=============================================================================
