---------------------------- MODULE RegistrySave ----------------------------
(***************************************************************************)
(* save() of the four wrappers, by several processes and threads, on one   *)
(* path.  Python opens the target and writes it; the others write the      *)
(* file <target>.tmp.<pid>, which all threads of a process share, and      *)
(* rename it over the target.                                              *)
(*                                                                         *)
(* A name refers to an inode; an open file keeps its inode through renames *)
(* and unlinks.  Content is a sequence of chunks, each marked with the     *)
(* save that wrote it; Hole is what a write past the end leaves before it. *)
(***************************************************************************)
EXTENDS Integers, Sequences, FiniteSets

CONSTANTS
    Proc, Thread,
    ProcOf,     \* the process of each thread
    Wrappers,   \* the wrappers to look at
    MaxLength,  \* bound on the chunks of a document
    MaxSaves    \* bound on the calls of save

ASSUME FiniteAssumption == IsFiniteSet(Proc) /\ IsFiniteSet(Thread)
ASSUME ProcOfAssumption == ProcOf \in [Thread -> Proc]
ASSUME WrappersAssumption == Wrappers \subseteq {"python", "javascript", "go", "rust"}
ASSUME BoundsAssumption == MaxLength \in Nat \ {0} /\ MaxSaves \in Nat

VARIABLES
    wrapper,
    content,    \* the chunks of each inode
    target,     \* the inode of the target
    tmp,        \* the inode of each process's temporary file, or NoInode
    pc, fd, save,   \* per thread: the place, the open inode, the number of its save
    written,    \* per thread: the chunks it has written
    length,     \* the chunks of the document of each save
    killed, full,   \* history: processes killed, processes that met an I/O error
    shared      \* history: two saves have used one file at a time

thread == <<pc, fd, save, written>>
history == <<killed, full, shared>>
vars == <<wrapper, content, target, tmp, thread, length, history>>

NoInode == 0
Hole    == -1
First   == 0        \* the save that left the file the system starts with
Inode   == 1 .. (1 + Cardinality(Proc) + Cardinality(Thread))
Save    == First .. MaxSaves
MaybeInode == Inode \cup {NoInode}

TypeOK ==
    /\ wrapper \in Wrappers
    /\ content \in [Inode -> Seq(Save \cup {Hole})]
    /\ \A i \in Inode : Len(content[i]) <= MaxLength
    /\ target \in Inode /\ tmp \in [Proc -> MaybeInode]
    /\ pc \in [Thread -> {"idle", "open", "write", "close"}]
    /\ fd \in [Thread -> MaybeInode]
    /\ save \in [Thread -> Save] /\ written \in [Thread -> 0 .. MaxLength]
    /\ length \in Seq(1 .. MaxLength) /\ Len(length) <= MaxSaves
    /\ killed \subseteq Proc /\ full \subseteq Proc
    /\ shared \in BOOLEAN

Init ==
    /\ wrapper \in Wrappers
    /\ content = [i \in Inode |-> IF i = 1 THEN <<First>> ELSE << >>]
    /\ target = 1 /\ tmp = [p \in Proc |-> NoInode]
    /\ pc = [t \in Thread |-> "idle"] /\ fd = [t \in Thread |-> NoInode]
    /\ save = [t \in Thread |-> First] /\ written = [t \in Thread |-> 0]
    /\ length = << >>
    /\ killed = {} /\ full = {} /\ shared = FALSE

-----------------------------------------------------------------------------
(* Files *)

InPlace == wrapper = "python"

Saving(t) == pc[t] # "idle"

(* The path a thread opens: the target itself, or its process's file. *)
Opens(t) == IF InPlace THEN target ELSE tmp[ProcOf[t]]

SameFile(t, u) == InPlace \/ ProcOf[t] = ProcOf[u]

Unused == {i \in Inode : /\ i # target
                         /\ \A p \in Proc : tmp[p] # i
                         /\ \A t \in Thread : fd[t] # i}

(* A chunk written at a position, past the end if need be. *)
WriteAt(chunks, position, chunk) ==
    [k \in 1 .. (IF position > Len(chunks) THEN position ELSE Len(chunks)) |->
        IF k = position THEN chunk ELSE IF k <= Len(chunks) THEN chunks[k] ELSE Hole]

-----------------------------------------------------------------------------
(* save() *)

(* Node runs one synchronous save at a time. *)
Begin(t, n) ==
    /\ pc[t] = "idle" /\ Len(length) < MaxSaves
    /\ wrapper = "javascript" => \A u \in Thread : ProcOf[u] = ProcOf[t] => ~Saving(u)
    /\ pc' = [pc EXCEPT ![t] = "open"]
    /\ length' = Append(length, n)
    /\ save' = [save EXCEPT ![t] = Len(length) + 1]
    /\ written' = [written EXCEPT ![t] = 0]
    /\ shared' = (shared \/ \E u \in Thread \ {t} : Saving(u) /\ SameFile(t, u))
    /\ UNCHANGED <<wrapper, content, target, tmp, fd, killed, full>>

(* Opening truncates what is there and otherwise makes a new file. *)
Open(t) ==
    /\ pc[t] = "open"
    /\ pc' = [pc EXCEPT ![t] = "write"]
    /\ \E i \in Inode :
         /\ IF Opens(t) # NoInode THEN i = Opens(t)
            ELSE i \in Unused /\ \A j \in Unused : i <= j
         /\ fd' = [fd EXCEPT ![t] = i]
         /\ content' = [content EXCEPT ![i] = << >>]
         /\ tmp' = IF InPlace THEN tmp ELSE [tmp EXCEPT ![ProcOf[t]] = i]
    /\ UNCHANGED <<wrapper, target, save, written, length, history>>

(* Mutant: chunks go to the end of the file, whatever it holds. *)
WriteAppending(t) ==
    /\ pc[t] = "write"
    /\ content' = [content EXCEPT ![fd[t]] = Append(content[fd[t]], save[t])]
    /\ written' = [written EXCEPT ![t] = written[t] + 1]
    /\ pc' = [pc EXCEPT ![t] = IF written[t] + 1 = length[save[t]] THEN "close" ELSE "write"]
    /\ UNCHANGED <<wrapper, target, tmp, fd, save, length, history>>

Write(t) ==
    /\ pc[t] = "write"
    /\ content' = [content EXCEPT ![fd[t]] = WriteAt(content[fd[t]], written[t] + 1, save[t])]
    /\ written' = [written EXCEPT ![t] = written[t] + 1]
    /\ pc' = [pc EXCEPT ![t] = IF written[t] + 1 = length[save[t]] THEN "close" ELSE "write"]
    /\ UNCHANGED <<wrapper, target, tmp, fd, save, length, history>>

(* The call returns and its descriptor is closed. *)
Return(t) ==
    /\ pc' = [pc EXCEPT ![t] = "idle"] /\ fd' = [fd EXCEPT ![t] = NoInode]
    /\ UNCHANGED <<wrapper, save, written, length, killed, shared>>

(* A full disk.  Only JavaScript removes its file when the write fails. *)
WriteFails(t) ==
    /\ pc[t] = "write"
    /\ full' = full \cup {ProcOf[t]}
    /\ tmp' = IF wrapper = "javascript" THEN [tmp EXCEPT ![ProcOf[t]] = NoInode] ELSE tmp
    /\ Return(t)
    /\ UNCHANGED <<content, target>>

(* Mutant: the file is renamed before it has been written. *)
RenameEarly(t) ==
    /\ pc[t] \in {"write", "close"} /\ ~InPlace /\ tmp[ProcOf[t]] # NoInode
    /\ target' = tmp[ProcOf[t]]
    /\ tmp' = [tmp EXCEPT ![ProcOf[t]] = NoInode]
    /\ Return(t)
    /\ UNCHANGED <<content, full>>

Rename(t) ==
    /\ pc[t] = "close" /\ ~InPlace /\ tmp[ProcOf[t]] # NoInode
    /\ target' = tmp[ProcOf[t]]
    /\ tmp' = [tmp EXCEPT ![ProcOf[t]] = NoInode]
    /\ Return(t)
    /\ UNCHANGED <<content, full>>

(* Mutant: the file stays after a failed rename. *)
RenameFailsLeaving(t) ==
    /\ pc[t] = "close" /\ ~InPlace
    /\ Return(t)
    /\ UNCHANGED <<content, target, tmp, full>>

(* The rename fails, for want of the file or otherwise; what is left of it *)
(* is removed and the error reported.                                      *)
RenameFails(t) ==
    /\ pc[t] = "close" /\ ~InPlace
    /\ tmp' = [tmp EXCEPT ![ProcOf[t]] = NoInode]
    /\ Return(t)
    /\ UNCHANGED <<content, target, full>>

Close(t) ==
    /\ pc[t] = "close" /\ InPlace
    /\ Return(t)
    /\ UNCHANGED <<content, target, tmp, full>>

(* A process dies in the middle of its saves; another starts with its pid. *)
Kill(p) ==
    /\ \E t \in Thread : ProcOf[t] = p /\ Saving(t)
    /\ killed' = killed \cup {p}
    /\ pc' = [t \in Thread |-> IF ProcOf[t] = p THEN "idle" ELSE pc[t]]
    /\ fd' = [t \in Thread |-> IF ProcOf[t] = p THEN NoInode ELSE fd[t]]
    /\ UNCHANGED <<wrapper, content, target, tmp, save, written, length, full, shared>>

Next ==
    \/ \E t \in Thread : \E n \in 1 .. MaxLength : Begin(t, n)
    \/ \E t \in Thread :
         \/ Open(t) \/ Write(t) \/ WriteFails(t)
         \/ Rename(t) \/ RenameFails(t) \/ Close(t)
    \/ \E p \in Proc : Kill(p)

Spec == Init /\ [][Next]_vars

-----------------------------------------------------------------------------
(* Properties *)

(* The document of a save, entire. *)
Document(s) == [k \in 1 .. (IF s = First THEN 1 ELSE length[s]) |-> s]
Whole(chunks) == \E s \in First .. Len(length) : chunks = Document(s)

(* A loader that opens the target at any moment, after whatever kills and  *)
(* errors, finds one entire document: the saves that write a temporary     *)
(* file are atomic as long as no two threads of a process save at a time.  *)
WholeUnlessShared == ~InPlace /\ ~shared => Whole(content[target])

(* A temporary file outlives its save only where a process was killed or,  *)
(* in Go and Rust, could not write.                                        *)
OrphansExplained ==
    \A p \in Proc :
        tmp[p] # NoInode /\ (\A t \in Thread : ProcOf[t] = p => ~Saving(t))
            => p \in killed \/ (wrapper \in {"go", "rust"} /\ p \in full)
=============================================================================
