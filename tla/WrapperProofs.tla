--------------------------- MODULE WrapperProofs ---------------------------
(***************************************************************************)
(* Theorems about the wrappers: what save() promises, for any number of    *)
(* processes and threads, documents of any length and any number of saves; *)
(* and what queries answer, for files of any records and any length, saved *)
(* again any number of times.                                              *)
(***************************************************************************)
EXTENDS Backtest, RegistrySave, WellFoundedInduction, FiniteSetTheorems, TLAPS

-----------------------------------------------------------------------------
(* save() *)

(* The file the system starts with has an inode. *)
LEMMA InodeFacts == 1 \in Inode /\ NoInode \notin Inode
<1>1. Cardinality(Proc) \in Nat /\ Cardinality(Thread) \in Nat
  BY FiniteAssumption, FS_CardinalityType
<1>. QED BY <1>1 DEF Inode, NoInode

(* A file of n chunks of one save, and what writing the next one makes.    *)
Fill(n, s) == [k \in 1 .. n |-> s]

LEMMA FillFacts ==
  ASSUME NEW n \in Nat, NEW s
  PROVE  Fill(n, s) \in Seq({s}) /\ Len(Fill(n, s)) = n
BY DEF Fill

LEMMA NextChunk ==
  ASSUME NEW n \in Nat, NEW s
  PROVE  WriteAt(Fill(n, s), n + 1, s) = Fill(n + 1, s)
<1>1. Len(Fill(n, s)) = n /\ \A k \in 1 .. n : Fill(n, s)[k] = s
  BY FillFacts DEF Fill
<1>2. WriteAt(Fill(n, s), n + 1, s) =
        [k \in 1 .. n + 1 |->
            IF k = n + 1 THEN s ELSE IF k <= n THEN Fill(n, s)[k] ELSE Hole]
  BY <1>1 DEF WriteAt
<1>. QED BY <1>1, <1>2 DEF Fill

(* A write keeps a file a sequence of chunks within the document's length. *)
LEMMA WriteIsTyped ==
  ASSUME NEW S, NEW chunks \in Seq(S), NEW position \in Nat \ {0}, NEW chunk \in S, Hole \in S
  PROVE  /\ WriteAt(chunks, position, chunk) \in Seq(S)
         /\ \A m \in Nat : position <= m /\ Len(chunks) <= m
                => Len(WriteAt(chunks, position, chunk)) <= m
<1>. DEFINE n == IF position > Len(chunks) THEN position ELSE Len(chunks)
<1>1. n \in Nat
  OBVIOUS
<1>2. \A k \in 1 .. n : (IF k = position THEN chunk ELSE IF k <= Len(chunks) THEN chunks[k] ELSE Hole) \in S
  OBVIOUS
<1>. DEFINE f == [k \in 1 .. n |-> IF k = position THEN chunk
                                   ELSE IF k <= Len(chunks) THEN chunks[k] ELSE Hole]
<1>3. f \in [1 .. n -> S]
  BY <1>2
<1>. HIDE DEF f
<1>4. f \in Seq(S) /\ Len(f) = n
  BY <1>1, <1>3
<1>5. WriteAt(chunks, position, chunk) = f
  BY DEF f, WriteAt
<1>. QED BY <1>4, <1>5

-----------------------------------------------------------------------------
(* Where a save is: its number is taken, and what it has written stays     *)
(* within its document.                                                    *)
Underway ==
    \A t \in Thread :
        /\ Saving(t) => save[t] \in 1 .. Len(length)
        /\ pc[t] \in {"idle", "open"} => fd[t] = NoInode
        /\ pc[t] \in {"write", "close"} => fd[t] # NoInode
        /\ pc[t] = "open" => written[t] = 0
        /\ pc[t] = "write" => written[t] < length[save[t]]
        /\ pc[t] = "close" => written[t] = length[save[t]]

(* Python has no temporary files. *)
NoTmp == InPlace => \A p \in Proc : tmp[p] = NoInode

Typed == TypeOK /\ Underway /\ NoTmp

LEMMA TypedStart == Init => Typed
<1>. SUFFICES ASSUME Init PROVE Typed
  OBVIOUS
<1>1. content \in [Inode -> Seq(Save \cup {Hole})] /\ \A i \in Inode : Len(content[i]) <= MaxLength
  <2>1. First \in Save
    BY BoundsAssumption DEF First, Save
  <2>2. <<First>> \in Seq(Save \cup {Hole}) /\ << >> \in Seq(Save \cup {Hole})
    BY <2>1
  <2>3. Len(<<First>>) = 1 /\ Len(<< >>) = 0
    OBVIOUS
  <2>4. \A i \in Inode : (IF i = 1 THEN <<First>> ELSE << >>) \in Seq(Save \cup {Hole})
    BY <2>2
  <2>5. content \in [Inode -> Seq(Save \cup {Hole})]
    BY <2>4 DEF Init
  <2>6. \A i \in Inode : Len(content[i]) \in {0, 1}
    BY <2>3 DEF Init
  <2>7. \A n \in {0, 1} : n <= MaxLength
    BY BoundsAssumption
  <2>. QED BY <2>5, <2>6, <2>7
<1>2. target \in Inode /\ tmp \in [Proc -> MaybeInode] /\ fd \in [Thread -> MaybeInode]
  BY InodeFacts DEF Init, MaybeInode
<1>3. save \in [Thread -> Save] /\ written \in [Thread -> 0 .. MaxLength]
  BY BoundsAssumption DEF Init, Save, First
<1>4. length \in Seq(1 .. MaxLength) /\ Len(length) <= MaxSaves
  BY BoundsAssumption DEF Init
<1>5. TypeOK
  BY <1>1, <1>2, <1>3, <1>4 DEF Init, TypeOK
<1>. QED BY <1>5 DEF Init, Typed, Underway, NoTmp, Saving

LEMMA TypedStep == Typed /\ [Next]_vars => Typed'
<1>. SUFFICES ASSUME Typed, [Next]_vars PROVE Typed'
  OBVIOUS
<1>. USE DEF Typed
<1>0. /\ MaxLength \in Nat /\ MaxSaves \in Nat /\ Len(length) \in Nat
      /\ \A s \in 1 .. Len(length) : length[s] \in 1 .. MaxLength
  BY BoundsAssumption DEF TypeOK
<1>1. ASSUME NEW t \in Thread, NEW n \in 1 .. MaxLength, Begin(t, n) PROVE Typed'
  <2>1. /\ length' \in Seq(1 .. MaxLength) /\ Len(length') = Len(length) + 1 /\ Len(length') <= MaxSaves
        /\ \A s \in 1 .. Len(length) : length'[s] = length[s]
    BY <1>1, <1>0 DEF Begin, TypeOK
  <2>2. Len(length) + 1 \in Save
    BY <1>1, <1>0 DEF Begin, Save, First
  <2>3. TypeOK'
    BY <1>1, <1>0, <2>1, <2>2 DEF Begin, TypeOK
  <2>4. Underway'
    <3>. SUFFICES ASSUME NEW u \in Thread
                  PROVE  /\ Saving(u)' => save'[u] \in 1 .. Len(length')
                         /\ pc'[u] \in {"idle", "open"} => fd'[u] = NoInode
                         /\ pc'[u] \in {"write", "close"} => fd'[u] # NoInode
                         /\ pc'[u] = "open" => written'[u] = 0
                         /\ pc'[u] = "write" => written'[u] < length'[save'[u]]
                         /\ pc'[u] = "close" => written'[u] = length'[save'[u]]
      BY DEF Underway
    <3>1. CASE u = t
      BY <3>1, <1>1, <1>0, <2>1 DEF Begin, Underway, TypeOK
    <3>2. CASE u # t
      <4>1. pc'[u] = pc[u] /\ save'[u] = save[u] /\ written'[u] = written[u] /\ fd' = fd
        BY <3>2, <1>1 DEF Begin, TypeOK
      <4>. QED BY <4>1, <1>0, <2>1 DEF Underway, Saving
    <3>. QED BY <3>1, <3>2
  <2>5. NoTmp'
    BY <1>1 DEF Begin, NoTmp, InPlace
  <2>. QED BY <2>3, <2>4, <2>5
<1>2. ASSUME NEW t \in Thread, Open(t) PROVE Typed'
  <2>1. PICK i \in Inode :
            /\ fd' = [fd EXCEPT ![t] = i]
            /\ content' = [content EXCEPT ![i] = << >>]
            /\ tmp' = IF InPlace THEN tmp ELSE [tmp EXCEPT ![ProcOf[t]] = i]
    BY <1>2 DEF Open
  <2>2. << >> \in Seq(Save \cup {Hole}) /\ Len(<< >>) = 0
    OBVIOUS
  <2>3. TypeOK'
    <3>1. content' \in [Inode -> Seq(Save \cup {Hole})] /\ \A j \in Inode : Len(content'[j]) <= MaxLength
      BY <2>1, <2>2, <1>0 DEF TypeOK
    <3>2. tmp' \in [Proc -> MaybeInode] /\ fd' \in [Thread -> MaybeInode]
      BY <2>1, ProcOfAssumption DEF TypeOK, MaybeInode
    <3>. QED BY <1>2, <3>1, <3>2 DEF Open, history, TypeOK
  <2>4. Underway'
    <3>1. i # NoInode
      BY InodeFacts
    <3>. QED BY <1>2, <2>1, <3>1, <1>0 DEF Open, history, TypeOK, Underway, Saving
  <2>5. NoTmp'
    BY <1>2, <2>1 DEF Open, NoTmp, InPlace
  <2>. QED BY <2>3, <2>4, <2>5
<1>3. ASSUME NEW t \in Thread, Write(t) PROVE Typed'
  <2>1. /\ fd[t] \in Inode /\ save[t] \in 1 .. Len(length) /\ written[t] \in Nat
        /\ written[t] + 1 \in Nat \ {0} /\ written[t] + 1 <= length[save[t]]
        /\ length[save[t]] \in Nat /\ length[save[t]] <= MaxLength
    BY <1>3, <1>0 DEF Write, TypeOK, Underway, Saving, MaybeInode
  <2>2. save[t] \in Save \cup {Hole} /\ Hole \in Save \cup {Hole}
    BY DEF TypeOK
  <2>. DEFINE c == WriteAt(content[fd[t]], written[t] + 1, save[t])
  <2>3. c \in Seq(Save \cup {Hole}) /\ Len(c) <= MaxLength
    <3>1. content[fd[t]] \in Seq(Save \cup {Hole}) /\ Len(content[fd[t]]) <= MaxLength
      BY <2>1 DEF TypeOK
    <3>2. written[t] + 1 <= MaxLength
      BY <2>1, <1>0
    <3>. QED BY <3>1, <3>2, <2>1, <2>2, <1>0, WriteIsTyped
  <2>4. TypeOK'
    <3>. HIDE DEF c
    <3>1. content' = [content EXCEPT ![fd[t]] = c]
      BY <1>3 DEF Write, c
    <3>2. content' \in [Inode -> Seq(Save \cup {Hole})] /\ \A j \in Inode : Len(content'[j]) <= MaxLength
      BY <3>1, <2>3 DEF TypeOK
    <3>3. written' \in [Thread -> 0 .. MaxLength]
      BY <1>3, <2>1, <1>0 DEF Write, TypeOK
    <3>. QED BY <1>3, <3>2, <3>3 DEF Write, history, TypeOK
  <2>5. Underway'
    BY <1>3, <2>1 DEF Write, history, TypeOK, Underway, Saving
  <2>6. NoTmp'
    BY <1>3 DEF Write, NoTmp, InPlace
  <2>. QED BY <2>4, <2>5, <2>6
\* The call ends with the files as they are.
<1>4. ASSUME NEW t \in Thread, Return(t), UNCHANGED content,
             target' \in Inode, full' \subseteq Proc,
             tmp' = tmp \/ (~InPlace /\ tmp' = [tmp EXCEPT ![ProcOf[t]] = NoInode])
      PROVE  Typed'
  <2>1. tmp' \in [Proc -> MaybeInode]
    BY <1>4, ProcOfAssumption DEF TypeOK, MaybeInode
  <2>2. TypeOK'
    BY <1>4, <2>1 DEF Return, TypeOK, MaybeInode
  <2>3. Underway'
    BY <1>4 DEF Return, TypeOK, Underway, Saving
  <2>4. NoTmp'
    BY <1>4 DEF Return, NoTmp, InPlace
  <2>. QED BY <2>2, <2>3, <2>4
<1>5. ASSUME NEW t \in Thread, WriteFails(t) PROVE Typed'
  <2>1. full' \subseteq Proc
    BY <1>5, ProcOfAssumption DEF WriteFails, TypeOK
  <2>2. tmp' = tmp \/ (~InPlace /\ tmp' = [tmp EXCEPT ![ProcOf[t]] = NoInode])
    BY <1>5 DEF WriteFails, InPlace
  <2>. QED BY <1>4, <1>5, <2>1, <2>2 DEF WriteFails, TypeOK
<1>6. ASSUME NEW t \in Thread, Rename(t) PROVE Typed'
  <2>1. target' \in Inode
    BY <1>6, ProcOfAssumption DEF Rename, TypeOK, MaybeInode
  <2>. QED BY <1>4, <1>6, <2>1 DEF Rename, TypeOK
<1>7. ASSUME NEW t \in Thread, RenameFails(t) PROVE Typed'
  BY <1>4, <1>7 DEF RenameFails, TypeOK
<1>8. ASSUME NEW t \in Thread, Close(t) PROVE Typed'
  BY <1>4, <1>8 DEF Close, TypeOK
<1>9. ASSUME NEW p \in Proc, Kill(p) PROVE Typed'
  <2>1. TypeOK'
    BY <1>9 DEF Kill, TypeOK, MaybeInode
  <2>2. Underway'
    BY <1>9 DEF Kill, TypeOK, Underway, Saving
  <2>3. NoTmp'
    BY <1>9 DEF Kill, NoTmp, InPlace
  <2>. QED BY <2>1, <2>2, <2>3
<1>10. CASE UNCHANGED vars
  <2>1. TypeOK'
    BY <1>10 DEF vars, thread, history, TypeOK
  <2>2. Underway'
    BY <1>10 DEF vars, thread, history, Underway, Saving
  <2>3. NoTmp'
    BY <1>10 DEF vars, NoTmp, InPlace
  <2>. QED BY <2>1, <2>2, <2>3
<1>. QED BY <1>1, <1>2, <1>3, <1>5, <1>6, <1>7, <1>8, <1>9, <1>10 DEF Next

LEMMA TypedAlways == Spec => []Typed
BY TypedStart, TypedStep, PTL DEF Spec

(* Every reachable state of the savers is well typed: no write passes the  *)
(* end of its document, and no rename publishes a file that is not there.  *)
THEOREM SaveTypeCorrect == Spec => []TypeOK
<1>1. Typed => TypeOK
  BY DEF Typed
<1>. QED BY <1>1, TypedAlways, PTL

-----------------------------------------------------------------------------
(* Why a loader finds an entire document.  While no two saves use one file *)
(* at a time, a process saves once at a time, its temporary file is its    *)
(* own and not the target, and holds what that save has written of its     *)
(* document: everything, when it is renamed.                               *)
Alone == ~InPlace /\ ~shared

OwnFile ==
    /\ \A p \in Proc : tmp[p] # target
    /\ \A p, q \in Proc : tmp[p] # NoInode /\ tmp[p] = tmp[q] => p = q

OneSave == \A t, u \in Thread : Saving(t) /\ Saving(u) /\ ProcOf[t] = ProcOf[u] => t = u

Writing(t) ==
    pc[t] \in {"write", "close"} =>
        /\ fd[t] = tmp[ProcOf[t]]
        /\ content[fd[t]] = Fill(written[t], save[t])

Separate == Alone => Whole(content[target]) /\ OwnFile /\ OneSave /\ \A t \in Thread : Writing(t)

LEMMA Separation == Spec => []Separate
<1>1. Init => Separate
  <2>. SUFFICES ASSUME Init PROVE Separate
    OBVIOUS
  <2>1. content[target] = <<First>>
    BY InodeFacts DEF Init
  <2>2. Document(First) = <<First>>
    BY DEF Document
  <2>3. Whole(content[target])
    <3>1. First \in First .. Len(length)
      BY DEF Init, First
    <3>. QED BY <2>1, <2>2, <3>1 DEF Whole
  <2>4. OwnFile /\ OneSave /\ \A t \in Thread : Writing(t)
    BY DEF Init, OwnFile, OneSave, Writing, Saving, NoInode
  <2>. QED BY <2>3, <2>4 DEF Separate
<1>2. Typed /\ Separate /\ [Next]_vars => Separate'
  <2>. SUFFICES ASSUME Typed, Separate, [Next]_vars, Alone' PROVE Separate'
    BY DEF Separate
  <2>. USE DEF Typed
  <2>0. /\ MaxLength \in Nat /\ Len(length) \in Nat
        /\ \A s \in 1 .. Len(length) : length[s] \in 1 .. MaxLength
        /\ \A t \in Thread : ProcOf[t] \in Proc /\ fd[t] \in MaybeInode /\ tmp[ProcOf[t]] \in MaybeInode
    BY BoundsAssumption, ProcOfAssumption DEF TypeOK
  <2>a. ASSUME length' = length, content'[target'] = content[target], Whole(content[target])
        PROVE  Whole(content[target])'
    BY <2>a DEF Whole, Document
  <2>1. ASSUME NEW t \in Thread, NEW n \in 1 .. MaxLength, Begin(t, n) PROVE Separate'
    <3>1. Alone /\ \A u \in Thread \ {t} : Saving(u) => ProcOf[u] # ProcOf[t]
      BY <2>1 DEF Begin, Alone, InPlace, SameFile
    <3>2. Whole(content[target])'
      <4>1. PICK s \in First .. Len(length) : content[target] = Document(s)
        BY <3>1 DEF Separate, Whole
      <4>2. Len(length') = Len(length) + 1 /\ (s # First => length'[s] = length[s])
        BY <2>1, <2>0 DEF Begin, TypeOK, First
      <4>3. Document(s)' = Document(s)
        BY <4>2 DEF Document
      <4>4. s \in First .. Len(length')
        BY <4>2, <2>0 DEF First
      <4>. QED BY <2>1, <4>1, <4>3, <4>4 DEF Begin, Whole
    <3>3. OwnFile' /\ \A u \in Thread : Writing(u)'
      BY <2>1, <3>1 DEF Begin, Separate, OwnFile, Writing, TypeOK
    <3>4. OneSave'
      BY <2>1, <3>1 DEF Begin, Separate, OneSave, Saving, TypeOK
    <3>. QED BY <3>2, <3>3, <3>4 DEF Separate
  <2>2. ASSUME NEW t \in Thread, Open(t) PROVE Separate'
    <3>1. Alone /\ UNCHANGED <<target, length, save, written>> /\ pc' = [pc EXCEPT ![t] = "write"]
          /\ pc[t] = "open"
      BY <2>2 DEF Open, history, Alone, InPlace
    <3>2. PICK i \in Inode :
            /\ IF tmp[ProcOf[t]] # NoInode THEN i = tmp[ProcOf[t]]
               ELSE i \in Unused /\ \A j \in Unused : i <= j
            /\ fd' = [fd EXCEPT ![t] = i]
            /\ content' = [content EXCEPT ![i] = << >>]
            /\ tmp' = [tmp EXCEPT ![ProcOf[t]] = i]
      BY <2>2, <3>1 DEF Open, Opens, Alone
    <3>3. i # NoInode /\ i # target /\ \A p \in Proc : p # ProcOf[t] => tmp[p] # i
      BY <3>1, <3>2, <2>0, InodeFacts DEF Separate, OwnFile, Unused
    <3>4. Whole(content[target])'
      <4>1. content'[target'] = content[target]
        BY <3>1, <3>2, <3>3 DEF TypeOK
      <4>. QED BY <4>1, <3>1, <2>a DEF Separate
    <3>5. OwnFile'
      BY <3>1, <3>2, <3>3 DEF TypeOK, Separate, OwnFile
    <3>6. OneSave'
      BY <3>1 DEF TypeOK, Separate, OneSave, Saving
    <3>7. ASSUME NEW u \in Thread PROVE Writing(u)'
      <4>1. CASE u = t
        <5>1. Fill(written[t], save[t]) = << >>
          BY <3>1 DEF Typed, Underway, Fill
        <5>. QED BY <4>1, <5>1, <3>1, <3>2, <2>0 DEF Writing, TypeOK
      <4>2. CASE u # t
        <5>. SUFFICES ASSUME pc[u] \in {"write", "close"}
                      PROVE  /\ fd'[u] = tmp'[ProcOf[u]]
                             /\ content'[fd'[u]] = Fill(written[u], save[u])
          BY <3>1, <4>2 DEF Writing, TypeOK
        <5>1. ProcOf[u] # ProcOf[t]
          BY <3>1, <4>2 DEF Separate, OneSave, Saving
        <5>2. fd'[u] = fd[u] /\ fd[u] = tmp[ProcOf[u]] /\ fd[u] # i /\ fd[u] \in Inode
          BY <3>1, <3>2, <3>3, <4>2, <5>1, <2>0 DEF Separate, Writing, Underway, TypeOK, MaybeInode
        <5>3. tmp'[ProcOf[u]] = tmp[ProcOf[u]] /\ content'[fd[u]] = content[fd[u]]
          BY <3>2, <5>1, <5>2, <2>0 DEF TypeOK
        <5>. QED BY <3>1, <5>2, <5>3 DEF Separate, Writing
      <4>. QED BY <4>1, <4>2
    <3>. QED BY <3>4, <3>5, <3>6, <3>7 DEF Separate
  <2>3. ASSUME NEW t \in Thread, Write(t) PROVE Separate'
    <3>1. /\ Alone /\ UNCHANGED <<target, tmp, fd, length, save>> /\ pc[t] = "write"
          /\ content' = [content EXCEPT ![fd[t]] = WriteAt(content[fd[t]], written[t] + 1, save[t])]
          /\ written' = [written EXCEPT ![t] = written[t] + 1]
          /\ pc' = [pc EXCEPT ![t] = pc'[t]] /\ pc'[t] \in {"write", "close"}
      BY <2>3 DEF Write, history, Alone, InPlace, TypeOK
    <3>2. /\ fd[t] = tmp[ProcOf[t]] /\ fd[t] \in Inode /\ fd[t] # target
          /\ content[fd[t]] = Fill(written[t], save[t]) /\ written[t] \in Nat
      BY <3>1, <2>0 DEF Separate, Writing, OwnFile, Underway, TypeOK, MaybeInode
    <3>3. content' = [content EXCEPT ![fd[t]] = Fill(written[t] + 1, save[t])]
      BY <3>1, <3>2, NextChunk
    <3>4. Whole(content[target])'
      <4>1. content'[target'] = content[target]
        BY <3>1, <3>2, <3>3 DEF TypeOK
      <4>. QED BY <4>1, <3>1, <2>a DEF Separate
    <3>5. OwnFile' /\ OneSave'
      BY <3>1 DEF TypeOK, Separate, OwnFile, OneSave, Saving
    <3>6. ASSUME NEW u \in Thread PROVE Writing(u)'
      <4>1. CASE u = t
        BY <4>1, <3>1, <3>2, <3>3 DEF Writing, TypeOK
      <4>2. CASE u # t
        <5>. SUFFICES ASSUME pc[u] \in {"write", "close"}
                      PROVE  fd[u] = tmp[ProcOf[u]] /\ content'[fd[u]] = Fill(written[u], save[u])
          BY <3>1, <4>2 DEF Writing, TypeOK
        <5>1. ProcOf[u] # ProcOf[t]
          BY <3>1, <4>2 DEF Separate, OneSave, Saving
        <5>2. fd[u] = tmp[ProcOf[u]] /\ fd[u] # fd[t] /\ fd[u] \in Inode
          BY <3>1, <3>2, <5>1, <2>0 DEF Separate, Writing, OwnFile, Underway, MaybeInode
        <5>. QED BY <3>1, <3>3, <5>2 DEF Separate, Writing, TypeOK
      <4>. QED BY <4>1, <4>2
    <3>. QED BY <3>4, <3>5, <3>6 DEF Separate
  \* The call of t ends, and its process's file stays, goes or becomes the target.
  <2>4. ASSUME NEW t \in Thread, Return(t), UNCHANGED content,
               tmp' = tmp \/ tmp' = [tmp EXCEPT ![ProcOf[t]] = NoInode],
               Saving(t),
               Alone => Whole(content[target])', Alone => OwnFile'
        PROVE  Separate'
    <3>1. Alone /\ UNCHANGED <<length, save, written>>
          /\ pc' = [pc EXCEPT ![t] = "idle"] /\ fd' = [fd EXCEPT ![t] = NoInode]
      BY <2>4 DEF Return, Alone, InPlace
    <3>2. OneSave'
      BY <3>1 DEF TypeOK, Separate, OneSave, Saving
    <3>3. ASSUME NEW u \in Thread PROVE Writing(u)'
      <4>1. CASE u = t
        BY <4>1, <3>1 DEF Writing, TypeOK
      <4>2. CASE u # t
        <5>. SUFFICES ASSUME pc[u] \in {"write", "close"}
                      PROVE  fd[u] = tmp'[ProcOf[u]] /\ content[fd[u]] = Fill(written[u], save[u])
          BY <3>1, <4>2, <2>4 DEF Writing, TypeOK
        <5>1. ProcOf[u] # ProcOf[t]
          BY <3>1, <2>4, <4>2 DEF Separate, OneSave, Saving
        <5>. QED BY <2>4, <3>1, <5>1, <2>0 DEF Separate, Writing, TypeOK
      <4>. QED BY <4>1, <4>2
    <3>. QED BY <2>4, <3>1, <3>2, <3>3 DEF Separate
  <2>5. ASSUME NEW t \in Thread, WriteFails(t) \/ RenameFails(t) \/ Close(t) PROVE Separate'
    <3>1. /\ Return(t) /\ UNCHANGED <<content, target>> /\ Saving(t)
          /\ tmp' = tmp \/ tmp' = [tmp EXCEPT ![ProcOf[t]] = NoInode]
      BY <2>5 DEF WriteFails, RenameFails, Close, Saving
    <3>2. Alone => Whole(content[target])'
      BY <3>1, <2>a DEF Return, Separate
    <3>3. Alone => OwnFile'
      BY <3>1, <2>0, InodeFacts DEF Separate, OwnFile, TypeOK
    <3>. QED BY <2>4, <3>1, <3>2, <3>3
  <2>6. ASSUME NEW t \in Thread, Rename(t) PROVE Separate'
    <3>1. /\ Return(t) /\ UNCHANGED content /\ pc[t] = "close"
          /\ tmp' = [tmp EXCEPT ![ProcOf[t]] = NoInode]
          /\ target' = tmp[ProcOf[t]] /\ tmp[ProcOf[t]] # NoInode
      BY <2>6 DEF Rename
    <3>2. ASSUME Alone PROVE Whole(content[target])'
      <4>1. PICK s \in 1 .. Len(length) : s = save[t]
        BY <3>1 DEF Underway, Saving
      <4>2. content'[target'] = Fill(length[s], s)
        BY <3>1, <3>2, <4>1 DEF Separate, Writing, Underway
      <4>3. Document(s)' = Fill(length[s], s)
        BY <3>1, <4>1 DEF Return, Document, Fill, First
      <4>4. s \in First .. Len(length')
        BY <3>1, <2>0 DEF Return, First
      <4>. QED BY <4>2, <4>3, <4>4 DEF Whole
    <3>3. Alone => OwnFile'
      BY <3>1, <2>0 DEF Separate, OwnFile, TypeOK
    <3>. QED BY <2>4, <3>1, <3>2, <3>3 DEF Saving
  <2>7. ASSUME NEW p \in Proc, Kill(p) PROVE Separate'
    <3>1. Alone /\ UNCHANGED <<content, target, tmp, save, written, length>>
      BY <2>7 DEF Kill, Alone, InPlace
    <3>2. Whole(content[target])'
      BY <3>1, <2>a DEF Separate
    <3>3. OwnFile'
      BY <3>1 DEF Separate, OwnFile
    <3>4. OneSave' /\ \A t \in Thread : Writing(t)'
      BY <2>7, <3>1 DEF Kill, Separate, OneSave, Saving, Writing, TypeOK
    <3>. QED BY <3>2, <3>3, <3>4 DEF Separate
  <2>8. CASE UNCHANGED vars
    <3>1. Alone /\ UNCHANGED <<content, target, tmp, save, written, length, pc, fd>>
      BY <2>8 DEF vars, thread, history, Alone, InPlace
    <3>. QED BY <3>1, <2>a DEF Separate, OwnFile, OneSave, Saving, Writing
  <2>. QED BY <2>1, <2>2, <2>3, <2>5, <2>6, <2>7, <2>8 DEF Next
<1>. QED BY <1>1, <1>2, TypedAlways, PTL DEF Spec

(* Whatever is killed and whatever fails, the target is one entire         *)
(* document, while no two saves use one temporary file at a time.          *)
THEOREM TargetStaysWhole == Spec => []WholeUnlessShared
<1>1. Separate => WholeUnlessShared
  BY DEF Separate, Alone, WholeUnlessShared
<1>. QED BY <1>1, Separation, PTL

-----------------------------------------------------------------------------
(* A temporary file that outlives every save of its process is due to a    *)
(* kill or, in Go and Rust, to a failed write: with threads sharing it too.*)
THEOREM OrphansAreExplained == Spec => []OrphansExplained
<1>1. Init => OrphansExplained
  BY DEF Init, OrphansExplained
<1>2. Typed /\ OrphansExplained /\ [Next]_vars => OrphansExplained'
  <2>. SUFFICES ASSUME Typed, OrphansExplained, [Next]_vars, NEW p \in Proc,
                       tmp'[p] # NoInode, \A t \in Thread : ProcOf[t] = p => ~Saving(t)'
                PROVE  (p \in killed \/ (wrapper \in {"go", "rust"} /\ p \in full))'
    BY DEF OrphansExplained
  <2>. USE DEF Typed
  <2>1. ASSUME NEW t \in Thread, NEW n \in 1 .. MaxLength, Begin(t, n)
        PROVE  (p \in killed \/ (wrapper \in {"go", "rust"} /\ p \in full))'
    BY <2>1 DEF Begin, OrphansExplained, Saving, TypeOK
  <2>2. ASSUME NEW t \in Thread, Open(t)
        PROVE  (p \in killed \/ (wrapper \in {"go", "rust"} /\ p \in full))'
    BY <2>2 DEF Open, history, OrphansExplained, Saving, TypeOK
  <2>3. ASSUME NEW t \in Thread, Write(t)
        PROVE  (p \in killed \/ (wrapper \in {"go", "rust"} /\ p \in full))'
    BY <2>3 DEF Write, history, OrphansExplained, Saving, TypeOK
  <2>4. ASSUME NEW t \in Thread, WriteFails(t)
        PROVE  (p \in killed \/ (wrapper \in {"go", "rust"} /\ p \in full))'
    <3>1. CASE ProcOf[t] = p
      <4>1. wrapper # "javascript" /\ ~InPlace
        BY <2>4, <3>1 DEF WriteFails, TypeOK, NoTmp
      <4>2. wrapper \in {"go", "rust"} /\ wrapper' = wrapper /\ p \in full'
        BY <2>4, <3>1, <4>1, WrappersAssumption DEF WriteFails, Return, TypeOK, InPlace
      <4>. QED BY <4>2
    <3>2. CASE ProcOf[t] # p
      BY <2>4, <3>2 DEF WriteFails, Return, OrphansExplained, Saving, TypeOK
    <3>. QED BY <3>1, <3>2
  <2>5. ASSUME NEW t \in Thread, Rename(t) \/ RenameFails(t)
        PROVE  (p \in killed \/ (wrapper \in {"go", "rust"} /\ p \in full))'
    <3>1. Return(t) /\ tmp' = [tmp EXCEPT ![ProcOf[t]] = NoInode] /\ full' = full
      BY <2>5 DEF Rename, RenameFails
    <3>. QED BY <3>1 DEF Return, OrphansExplained, Saving, TypeOK
  <2>6. ASSUME NEW t \in Thread, Close(t)
        PROVE  (p \in killed \/ (wrapper \in {"go", "rust"} /\ p \in full))'
    BY <2>6 DEF Close, NoTmp
  <2>7. ASSUME NEW q \in Proc, Kill(q)
        PROVE  (p \in killed \/ (wrapper \in {"go", "rust"} /\ p \in full))'
    BY <2>7 DEF Kill, OrphansExplained, Saving, TypeOK
  <2>8. CASE UNCHANGED vars
    BY <2>8 DEF vars, thread, history, OrphansExplained, Saving
  <2>. QED BY <2>1, <2>2, <2>3, <2>4, <2>5, <2>6, <2>7, <2>8 DEF Next
<1>. QED BY <1>1, <1>2, TypedAlways, PTL DEF Spec

-----------------------------------------------------------------------------
(* Loops *)

(* Among numbers there is a least one ... *)
LEMMA LeastNumber ==
    ASSUME NEW T, T \subseteq Nat, T # {}
    PROVE  \E x \in T : \A y \in T : x <= y
<1>1. IsWellFoundedOn(OpToRel(<, Nat), Nat)
    BY NatLessThanWellFounded
<1>2. PICK x \in T : \A y \in T : ~ (<<y, x>> \in OpToRel(<, Nat))
    BY <1>1, WFMin
<1>3. \A y \in T : ~(y < x)
    BY <1>2 DEF OpToRel
<1> QED
    BY <1>3

(* ... which is induction, for a set of them. *)
LEMMA InductiveSetHasAll ==
    ASSUME NEW T, 0 \in T, \A n \in Nat : n \in T => n + 1 \in T
    PROVE  Nat \subseteq T
<1> SUFFICES ASSUME Nat \ T # {} PROVE FALSE
    OBVIOUS
<1>1. PICK x \in Nat \ T : \A y \in Nat \ T : x <= y
    BY LeastNumber
<1>2. x \in Nat /\ x \notin T /\ x # 0
    OBVIOUS
<1>3. x - 1 \in Nat /\ ~(x <= x - 1) /\ (x - 1) + 1 = x
    BY <1>2
<1>4. x - 1 \in T
    BY <1>1, <1>3
<1> QED
    BY <1>2, <1>3, <1>4

(* A loop of n turns over states of S has the sequence of its states. *)
Loop(f, n, start, turn) == [k \in 0 .. n |-> IF k = 0 THEN start ELSE turn[k][f[k - 1]]]

(* The same, state by state. *)
Runs(f, n, S, start, turn) ==
    f \in [0 .. n -> S] /\ f[0] = start /\ \A k \in 1 .. n : f[k] = turn[k][f[k - 1]]

(* Such states exist: a definition by recursion over a list has a value.   *)
LEMMA LoopExists ==
    ASSUME NEW S, NEW n \in Nat, NEW start \in S, NEW turn \in [1 .. n -> [S -> S]]
    PROVE  \E f : Runs(f, n, S, start, turn)
<1> DEFINE T == {m \in Nat : m <= n => \E f \in [0 .. m -> S] : f = Loop(f, m, start, turn)}
<1>1. 0 \in T
  <2> DEFINE f == [k \in 0 .. 0 |-> start]
  <2>1. f \in [0 .. 0 -> S] /\ f = Loop(f, 0, start, turn)
    BY DEF Loop
  <2> QED
    BY <2>1
<1>2. ASSUME NEW m \in Nat, m \in T PROVE m + 1 \in T
  <2> SUFFICES ASSUME m + 1 <= n
               PROVE  \E f \in [0 .. m + 1 -> S] : f = Loop(f, m + 1, start, turn)
    OBVIOUS
  <2>1. PICK f \in [0 .. m -> S] : f = Loop(f, m, start, turn)
    BY <1>2
  <2> DEFINE g == [k \in 0 .. m + 1 |-> IF k = m + 1 THEN turn[m + 1][f[m]] ELSE f[k]]
  <2>2. \A k \in 0 .. m : f[k] = IF k = 0 THEN start ELSE turn[k][f[k - 1]]
    BY <2>1 DEF Loop
  <2>3. turn[m + 1] \in [S -> S] /\ f[m] \in S
    BY <2>1
  <2>4. g \in [0 .. m + 1 -> S] /\ \A k \in 0 .. m : g[k] = f[k]
    BY <2>1, <2>3
  <2>5. \A k \in 0 .. m + 1 : g[k] = IF k = 0 THEN start ELSE turn[k][g[k - 1]]
    <3> TAKE k \in 0 .. m + 1
    <3>1. CASE k = m + 1
        BY <2>4, <3>1
    <3>2. CASE k # m + 1
        BY <2>2, <2>4, <3>2
    <3> QED
        BY <3>1, <3>2
  <2> HIDE DEF g
  <2>6. g = Loop(g, m + 1, start, turn)
    BY <2>4, <2>5 DEF Loop
  <2> QED
    BY <2>4, <2>6
<1>3. n \in T
    BY <1>1, <1>2, InductiveSetHasAll
<1>4. PICK f \in [0 .. n -> S] : f = Loop(f, n, start, turn)
    BY <1>3
<1>5. \A k \in 0 .. n : f[k] = IF k = 0 THEN start ELSE turn[k][f[k - 1]]
    BY <1>4 DEF Loop
<1> QED
    BY <1>4, <1>5 DEF Runs

(* Positions chosen from a file come out as positions chosen. *)
LEMMA InOrderProperties ==
    ASSUME NEW n \in Nat, NEW chosen, chosen \subseteq 1 .. n
    PROVE  InOrder(n, chosen) \in Seq(chosen)
<1> DEFINE With(list, k) == IF k \in chosen THEN Append(list, k) ELSE list
           Rec(f) == [k \in 0 .. n |-> IF k = 0 THEN << >> ELSE With(f[k - 1], k)]
           turn == [k \in 1 .. n |-> [list \in Seq(chosen) |-> With(list, k)]]
           kept == CHOOSE f : f = Rec(f)
<1>0. n \in Nat
    OBVIOUS
<1>1. /\ << >> \in Seq(chosen)
      /\ \A k \in 1 .. n, list \in Seq(chosen) : With(list, k) \in Seq(chosen)
    OBVIOUS
<1>2. InOrder(n, chosen) = kept[n]
    BY DEF InOrder
<1> HIDE DEF With
<1>3. /\ turn \in [1 .. n -> [Seq(chosen) -> Seq(chosen)]]
      /\ \A k \in 1 .. n, list \in Seq(chosen) : turn[k][list] = With(list, k)
    BY <1>1
<1> HIDE DEF turn
<1>4. PICK f : Runs(f, n, Seq(chosen), << >>, turn)
    BY <1>1, <1>3, LoopExists
<1>5. f = Rec(f)
  <2>1. f \in [0 .. n -> Seq(chosen)] /\ f[0] = << >>
        /\ \A k \in 1 .. n : f[k] = turn[k][f[k - 1]]
    BY <1>4 DEF Runs
  <2>2. ASSUME NEW k \in 1 .. n PROVE f[k] = With(f[k - 1], k)
    <3>1. k - 1 \in 0 .. n
        BY <1>0
    <3>2. f[k - 1] \in Seq(chosen)
        BY <2>1, <3>1
    <3> QED
        BY <1>3, <2>1, <3>2
  <2>3. \A k \in 0 .. n : f[k] = IF k = 0 THEN << >> ELSE With(f[k - 1], k)
    <3> TAKE k \in 0 .. n
    <3>1. CASE k = 0
        BY <2>1, <3>1
    <3>2. CASE k # 0
        BY <1>0, <2>2, <3>2
    <3> QED
        BY <3>1, <3>2
  <2>4. f = [k \in 0 .. n |-> f[k]]
    BY <2>1
  <2> QED
    BY <2>3, <2>4
<1>6. kept = Rec(kept)
    BY <1>5
<1> HIDE DEF kept
<1>7. \A k \in 0 .. n : kept[k] = IF k = 0 THEN << >> ELSE With(kept[k - 1], k)
    BY <1>6
<1> DEFINE T == {k \in Nat : k <= n => kept[k] \in Seq(chosen)}
<1>8. 0 \in T
  <2>1. kept[0] = << >>
    BY <1>7
  <2> QED
    BY <1>1, <2>1
<1>9. ASSUME NEW k \in Nat, k \in T PROVE k + 1 \in T
  <2> SUFFICES ASSUME k + 1 <= n PROVE kept[k + 1] \in Seq(chosen)
    OBVIOUS
  <2>1. kept[k] \in Seq(chosen) /\ kept[k + 1] = With(kept[k], k + 1)
    BY <1>7, <1>9
  <2> QED
    BY <1>1, <2>1
<1>10. n \in T
    BY <1>8, <1>9, InductiveSetHasAll
<1> QED
    BY <1>2, <1>10

-----------------------------------------------------------------------------
(* Queries *)

(* The four wrappers load the same well-typed files. *)
LEMMA SameLoads ==
    ASSUME NEW items, WellTyped(items), NEW w \in Wrapper
    PROVE  Loads(w, items) <=> Structured(items)
    BY DEF Wrapper, Loads, PythonLoads, JavaScriptLoads, GoLoads, RustLoads

(* by_isin: only the empty ISIN is indexed by some and not by others. *)
LEMMA SameIsins ==
    ASSUME NEW items, Plain(items), NEW isin, NEW w \in Wrapper, NEW v \in Wrapper
    PROVE  HasIsin(w, items, isin) = HasIsin(v, items, isin)
    BY DEF HasIsin, IndexesIsin, Present, Plain

(* What the fields of a record in a file can hold. *)
LEMMA ItemFields ==
    ASSUME NEW items \in Seq(ItemType), NEW i \in DOMAIN items
    PROVE  /\ items[i] \in ItemType
           /\ items[i].id \in Nat \cup {-1} /\ items[i].isin \in Nat \cup {-1}
           /\ \A field \in DateField : items[i][field] \in Nat \cup {-1}
<1>1. items[i] \in ItemType
    OBVIOUS
<1> QED
    BY <1>1 DEF ItemType, Null, DateField

(* by_action_id: the same, of empty ids. *)
LEMMA SameIds ==
    ASSUME NEW items, Plain(items), NEW id, NEW w \in Wrapper, NEW v \in Wrapper
    PROVE  ByActionId(w, items, id) = ByActionId(v, items, id)
<1>1. \A u \in Wrapper, i \in DOMAIN items : IndexesId(u, items[i].id)
    BY DEF Wrapper, IndexesId, PythonIndexesId, JavaScriptIndexesId, GoIndexesId, RustIndexesId, Plain, Present
<1>2. HasId(w, items, id) = HasId(v, items, id)
    BY <1>1 DEF HasId
<1> QED
    BY <1>2 DEF ByActionId

(* by_date_range selects the same records where no date is empty ... *)
LEMMA SameDated ==
    ASSUME NEW items, Plain(items), NEW field \in DateField, NEW from, NEW to,
           NEW w \in Wrapper, NEW v \in Wrapper
    PROVE  Dated(w, items, field, from, to) = Dated(v, items, field, from, to)
<1>0. \A i \in DOMAIN items : items[i][field] # Empty
    BY DEF Plain, DateField
<1>1. \A u \in Wrapper, i \in DOMAIN items : HasDate(u, items[i][field]) <=> items[i][field] # Null
    BY <1>0 DEF Wrapper, HasDate, PythonHasDate, JavaScriptHasDate, GoHasDate, RustHasDate, Present
<1> QED
    BY <1>1 DEF Dated

(* known_as_of: an empty announcement is known to Go and Rust alone. *)
LEMMA SameKnown ==
    ASSUME NEW items, Plain(items), NEW isin, NEW day,
           NEW w \in Wrapper, NEW v \in Wrapper
    PROVE  KnownAsOf(w, items, isin, day) = KnownAsOf(v, items, isin, day)
<1>1. \A i \in DOMAIN items : Knows(w, items[i].ann, day) <=> Knows(v, items[i].ann, day)
    BY DEF Wrapper, Knows, PythonKnows, JavaScriptKnows, GoKnows, RustKnows, Plain, Present
<1>2. HasIsin(w, items, isin) = HasIsin(v, items, isin)
    BY SameIsins
<1>3. \A i \in HasIsin(w, items, isin) : i \in DOMAIN items
    BY DEF HasIsin
<1>4. {i \in HasIsin(w, items, isin) : Knows(w, items[i].ann, day)}
      = {i \in HasIsin(v, items, isin) : Knows(v, items[i].ann, day)}
    BY <1>1, <1>2, <1>3
<1> QED
    BY <1>4 DEF KnownAsOf

(* adjust_prices differs only in what by_isin gives it. *)
LEMMA SamePrices ==
    ASSUME NEW items, Plain(items), NEW isin, NEW day,
           NEW w \in Wrapper, NEW v \in Wrapper
    PROVE  /\ Adjusted(w, items, isin, day) = Adjusted(v, items, isin, day)
           /\ Applied(w, items, isin, day) = Applied(v, items, isin, day)
<1>1. HasIsin(w, items, isin) = HasIsin(v, items, isin)
    BY SameIsins
<1>2. Applied(w, items, isin, day) = Applied(v, items, isin, day)
    BY <1>1 DEF Applied
<1> QED
    BY <1>1, <1>2 DEF Adjusted

(* ... and where every record has an id, and no two the same, the order by *)
(* date and id is total: Go's sort, though not stable, has no choice.      *)
LEMMA SameOrders ==
    ASSUME NEW items \in Seq(ItemType), Plain(items), Structured(items), NEW field \in DateField,
           NEW selected, selected \subseteq DOMAIN items,
           \A i \in selected : items[i][field] # Null,
           NEW w \in Wrapper, NEW v \in Wrapper
    PROVE  Orders(w, items, field, selected) \subseteq Orders(v, items, field, selected)
<1>1. \A i \in selected : items[i].id \in Nat /\ items[i][field] \in Nat /\ items[i].id # Null
    BY ItemFields DEF Plain, Present, Null
<1>2. \A i, j \in selected : i # j => items[i].id # items[j].id
    BY DEF Plain, Structured
<1>3. \A u \in Wrapper, i, j \in selected :
        Precedes(u, items, field, i, j) <=>
            \/ items[i][field] < items[j][field]
            \/ items[i][field] = items[j][field] /\ items[i].id < items[j].id
    BY <1>1 DEF Precedes, SortId
<1>4. \A u \in Wrapper, i, j \in selected :
        i # j => Precedes(u, items, field, i, j) \/ Precedes(u, items, field, j, i)
    BY <1>1, <1>2, <1>3
<1> SUFFICES ASSUME NEW s \in Orders(w, items, field, selected)
             PROVE  s \in Orders(v, items, field, selected)
    OBVIOUS
<1>5. s \in SetToSeqs(selected)
    BY DEF Orders
<1>6. \A k \in DOMAIN s : s[k] \in selected
    BY <1>5 DEF SetToSeqs
<1>7. \A k, l \in DOMAIN s : k # l => s[k] # s[l]
    BY <1>5 DEF SetToSeqs
<1>8. ASSUME NEW k \in DOMAIN s, NEW l \in DOMAIN s, k < l
      PROVE  /\ ~Precedes(v, items, field, s[l], s[k])
             /\ Precedes(v, items, field, s[k], s[l]) \/ s[k] < s[l] \/ v = "go"
  <2>1. ~Precedes(w, items, field, s[l], s[k])
    BY <1>8 DEF Orders
  <2>2. k # l
    BY <1>5, <1>8 DEF SetToSeqs
  <2>3. s[k] \in selected /\ s[l] \in selected /\ s[k] # s[l]
    BY <1>6, <1>7, <2>2
  <2>4. ~Precedes(v, items, field, s[l], s[k])
    BY <2>1, <2>3, <1>3
  <2> QED
    BY <1>4, <2>3, <2>4
<1> QED
    BY <1>5, <1>8 DEF Orders

(* by_date_range as a whole. *)
LEMMA SameRanges ==
    ASSUME NEW items \in Seq(ItemType), Plain(items), Structured(items), NEW field \in DateField,
           NEW from, NEW to, NEW w \in Wrapper, NEW v \in Wrapper
    PROVE  ByDateRange(w, items, field, from, to) = ByDateRange(v, items, field, from, to)
<1> DEFINE selected == Dated(w, items, field, from, to)
<1>1. selected = Dated(v, items, field, from, to)
    BY SameDated
<1>2. selected \subseteq DOMAIN items /\ \A i \in selected : items[i][field] # Null
  <2>1. \A i \in DOMAIN items : HasDate(w, items[i][field]) => items[i][field] # Null
    BY DEF HasDate, PythonHasDate, JavaScriptHasDate, GoHasDate, RustHasDate, Present
  <2> QED
    BY <2>1 DEF Dated
<1> HIDE DEF selected
<1>3. /\ Orders(w, items, field, selected) \subseteq Orders(v, items, field, selected)
      /\ Orders(v, items, field, selected) \subseteq Orders(w, items, field, selected)
    BY <1>2, SameOrders
<1> QED
    BY <1>1, <1>3 DEF ByDateRange, selected

(* On plain files all four wrappers give all answers alike. *)
LEMMA Agreement ==
    ASSUME NEW items \in Seq(ItemType), Plain(items), Structured(items),
           NEW w \in Wrapper, NEW v \in Wrapper
    PROVE  Answers(w, items) = Answers(v, items)
<1>1. [x \in Isin |-> ByIsin(w, items, x)] = [x \in Isin |-> ByIsin(v, items, x)]
    BY SameIsins DEF ByIsin
<1>2. [x \in Id |-> ByActionId(w, items, x)] = [x \in Id |-> ByActionId(v, items, x)]
    BY SameIds
<1>3. [f \in DateField |-> [from \in Day \cup {Empty} |-> [to \in Day \cup {Empty} |->
           ByDateRange(w, items, f, from, to)]]]
      = [f \in DateField |-> [from \in Day \cup {Empty} |-> [to \in Day \cup {Empty} |->
           ByDateRange(v, items, f, from, to)]]]
    BY SameRanges
<1>4. [x \in Isin |-> [day \in Day |-> KnownAsOf(w, items, x, day)]]
      = [x \in Isin |-> [day \in Day |-> KnownAsOf(v, items, x, day)]]
    BY SameKnown
<1>5. [x \in Isin |-> [day \in Day |-> <<Adjusted(w, items, x, day), Applied(w, items, x, day)>>]]
      = [x \in Isin |-> [day \in Day |-> <<Adjusted(v, items, x, day), Applied(v, items, x, day)>>]]
    BY SamePrices
<1> QED
    BY <1>1, <1>2, <1>3, <1>4, <1>5 DEF Answers


-----------------------------------------------------------------------------
(* Files that are saved again *)

(* Saving changes nothing that a wrapper knows. *)
LEMMA SavesKeep ==
    ASSUME NEW a \in ItemType, NEW w \in Wrapper
    PROVE  /\ Saves(w, a) \in ItemType
           /\ KnownPart(Saves(w, a)) = KnownPart(a)
           /\ Saves(w, a).shape \in {a.shape, "object"}
<1>1. Saves(w, a) \in {PythonSaves(a), JavaScriptSaves(a), GoSaves(a), RustSaves(a)}
    BY DEF Wrapper, Saves
<1>2. \A b \in {PythonSaves(a), JavaScriptSaves(a), GoSaves(a), RustSaves(a)} :
        b \in ItemType /\ KnownPart(b) = KnownPart(a) /\ b.shape \in {a.shape, "object"}
    BY DEF PythonSaves, JavaScriptSaves, GoSaves, RustSaves, ItemType, KnownPart
<1> QED
    BY <1>1, <1>2

(* Records with the same known part agree in all fields but two. *)
LEMMA KnownFields ==
    ASSUME NEW a \in ItemType, NEW b \in ItemType, KnownPart(a) = KnownPart(b)
    PROVE  /\ a.isin = b.isin /\ a.id = b.id /\ a.type = b.type
           /\ a.ann = b.ann /\ a.ex = b.ex
           /\ a.ratio = b.ratio /\ a.amount = b.amount /\ a.impact = b.impact
    BY DEF ItemType, KnownPart

(* What saving leaves of a file: every record in its place, the same in    *)
(* all that the wrappers know, and its dates perhaps repaired.             *)
Resaved(items, before) ==
    /\ Len(items) = Len(before)
    /\ \A i \in DOMAIN items : /\ KnownPart(items[i]) = KnownPart(before[i])
                               /\ items[i].shape \in {before[i].shape, "object"}

(* The inductive invariant of files. *)
FileInv ==
    /\ FilesTyped
    /\ saves = 0 => doc = origin
    /\ Resaved(doc, origin)

(* An empty file has not been saved yet. *)
LEMMA FileInvInit == FileInit => FileInv
    BY ArgumentsAssumption DEF FileInit, FileInv, FilesTyped, Resaved

(* Writing a record and saving the file again keep the invariant. *)
LEMMA FileInvNext == FileInv /\ [FileNext]_fileVars => FileInv'
<1> SUFFICES ASSUME FileInv, [FileNext]_fileVars PROVE FileInv'
    OBVIOUS
<1> USE DEF FileInv, FilesTyped
<1>1. ASSUME NEW a \in Item, Author(a) PROVE FileInv'
  <2>1. a \in ItemType
    BY ItemAssumption
  <2>2. doc = origin /\ doc \in Seq(Item) /\ doc' = Append(doc, a) /\ origin' = doc'
        /\ saves' = saves
    BY <1>1 DEF Author
  <2>3. doc' \in Seq(Item) /\ doc' \in Seq(ItemType) /\ Len(doc') = Len(doc) + 1
    BY <2>1, <2>2
  <2>4. Resaved(doc', origin')
    BY <2>2 DEF Resaved
  <2> QED
    BY <1>1, <2>2, <2>3, <2>4, ArgumentsAssumption DEF Author
<1>2. ASSUME NEW w \in Wrapper, Resave(w) PROVE FileInv'
  <2>1. doc' = [i \in DOMAIN doc |-> Saves(w, doc[i])] /\ origin' = origin /\ saves' = saves + 1
    BY <1>2 DEF Resave
  <2>2. \A i \in DOMAIN doc : doc[i] \in ItemType
    OBVIOUS
  <2>3. \A i \in DOMAIN doc : /\ doc'[i] \in ItemType /\ KnownPart(doc'[i]) = KnownPart(doc[i])
                              /\ doc'[i].shape \in {doc[i].shape, "object"}
    BY <2>1, <2>2, SavesKeep
  <2>4. DOMAIN doc = 1..Len(doc) /\ Len(doc) \in Nat
    OBVIOUS
  <2>5. doc' \in Seq(ItemType) /\ Len(doc') = Len(doc)
    BY <2>1, <2>3, <2>4
  <2>6. Resaved(doc', origin')
    BY <2>1, <2>3, <2>5 DEF Resaved
  <2> QED
    BY <1>2, <2>1, <2>5, <2>6, ArgumentsAssumption DEF Resave
<1>3. CASE UNCHANGED fileVars
    BY <1>3 DEF fileVars, Resaved
<1> QED
    BY <1>1, <1>2, <1>3 DEF FileNext

(* Every reachable file satisfies it. *)
LEMMA FileInvAlways == FileSpec => []FileInv
    BY FileInvInit, FileInvNext, PTL DEF FileSpec

(* The file stays a list of records, as long as its author made it. *)
THEOREM FilesAreTyped == FileSpec => []FilesTyped
<1>1. FileInv => FilesTyped
    BY DEF FileInv
<1> QED
    BY <1>1, FileInvAlways, PTL

(* The contract's "same inputs, same outputs": whatever records a file     *)
(* holds and however long it is, the four wrappers load it alike and, if   *)
(* no id is missing and no string empty, answer every query alike.         *)
THEOREM WrappersAgree == FileSpec => []SameAnswers
<1>1. FileInv => SameAnswers
  <2> SUFFICES ASSUME FileInv, NEW w \in Wrapper, NEW v \in Wrapper
               PROVE  /\ WellTyped(doc) => (Loads(w, doc) <=> Loads(v, doc))
                      /\ Plain(doc) /\ Loads(w, doc) => Answers(w, doc) = Answers(v, doc)
    BY DEF SameAnswers
  <2>1. WellTyped(doc) => (Loads(w, doc) <=> Structured(doc)) /\ (Loads(v, doc) <=> Structured(doc))
    BY SameLoads
  <2>2. doc \in Seq(ItemType)
    BY DEF FileInv, FilesTyped
  <2>3. Plain(doc) => WellTyped(doc)
    BY DEF Plain
  <2> QED
    BY <2>1, <2>2, <2>3, Agreement
<1> QED
    BY <1>1, FileInvAlways, PTL

(* Queries read nothing but the known parts: as long as these are the     *)
(* same, so are the answers.                                               *)
LEMMA SavedAnswers ==
    ASSUME NEW items \in Seq(ItemType), NEW before \in Seq(ItemType), Resaved(items, before),
           NEW w \in Wrapper
    PROVE  Answers(w, items) = Answers(w, before)
<1>1. DOMAIN items = DOMAIN before /\ Len(items) = Len(before)
    BY DEF Resaved
<1>2. \A i \in DOMAIN items :
        /\ items[i].isin = before[i].isin /\ items[i].id = before[i].id
        /\ items[i].type = before[i].type
        /\ items[i].ann = before[i].ann /\ items[i].ex = before[i].ex
        /\ items[i].ratio = before[i].ratio /\ items[i].amount = before[i].amount
        /\ items[i].impact = before[i].impact
    BY <1>1, KnownFields DEF Resaved
<1>3. \A x : HasIsin(w, items, x) = HasIsin(w, before, x)
    BY <1>1, <1>2 DEF HasIsin
<1>4. \A x : HasId(w, items, x) = HasId(w, before, x)
    BY <1>1, <1>2 DEF HasId
<1>5. \A x : ByIsin(w, items, x) = ByIsin(w, before, x)
    BY <1>1, <1>3 DEF ByIsin
<1>6. ASSUME NEW x PROVE ByActionId(w, items, x) = ByActionId(w, before, x)
  <2>1. HasId(w, items, x) = HasId(w, before, x)
    BY <1>4
  <2> QED
    BY <2>1 DEF ByActionId
<1>7. ASSUME NEW x PROVE ByActionType(items, x) = ByActionType(before, x)
  <2>1. {i \in DOMAIN items : items[i].type = x} = {i \in DOMAIN before : before[i].type = x}
    BY <1>1, <1>2
  <2> QED
    BY <1>1, <2>1 DEF ByActionType
<1>8. ASSUME NEW f \in DateField, NEW from, NEW to
      PROVE  ByDateRange(w, items, f, from, to) = ByDateRange(w, before, f, from, to)
  <2>1. \A i \in DOMAIN items : items[i][f] = before[i][f]
    BY <1>2 DEF DateField
  <2>2. Dated(w, items, f, from, to) = Dated(w, before, f, from, to)
    BY <1>1, <2>1 DEF Dated
  <2>3. \A i, j \in DOMAIN items : Precedes(w, items, f, i, j) <=> Precedes(w, before, f, i, j)
    BY <1>2, <2>1 DEF Precedes
  <2> DEFINE selected == Dated(w, before, f, from, to)
  <2>4. selected \subseteq DOMAIN items
    BY <1>1 DEF Dated
  <2> HIDE DEF selected
  <2>5. \A s \in SetToSeqs(selected) : \A k \in DOMAIN s : s[k] \in selected
    BY DEF SetToSeqs
  <2>6. Orders(w, items, f, selected) = Orders(w, before, f, selected)
    <3>1. ASSUME NEW s \in SetToSeqs(selected), NEW k \in DOMAIN s, NEW l \in DOMAIN s
          PROVE  /\ Precedes(w, items, f, s[l], s[k]) <=> Precedes(w, before, f, s[l], s[k])
                 /\ Precedes(w, items, f, s[k], s[l]) <=> Precedes(w, before, f, s[k], s[l])
        BY <2>3, <2>4, <2>5
    <3> QED
        BY <3>1 DEF Orders
  <2> QED
    BY <2>2, <2>6 DEF ByDateRange, selected
<1>9. ASSUME NEW x, NEW day PROVE KnownAsOf(w, items, x, day) = KnownAsOf(w, before, x, day)
  <2>1. \A i \in HasIsin(w, before, x) : items[i].ann = before[i].ann
    BY <1>1, <1>2 DEF HasIsin
  <2>2. {i \in HasIsin(w, items, x) : Knows(w, items[i].ann, day)}
        = {i \in HasIsin(w, before, x) : Knows(w, before[i].ann, day)}
    BY <1>3, <2>1
  <2> QED
    BY <1>1, <2>2 DEF KnownAsOf

<1>10. ASSUME NEW x, NEW day
       PROVE  /\ Adjusted(w, items, x, day) = Adjusted(w, before, x, day)
              /\ Applied(w, items, x, day) = Applied(w, before, x, day)
  <2> DEFINE applied == {i \in HasIsin(w, before, x) : Applies(before[i], day)}
             positions == InOrder(Len(before), applied)
  <2>1. \A i \in HasIsin(w, before, x) : Applies(items[i], day) <=> Applies(before[i], day)
    BY <1>1, <1>2 DEF HasIsin, Applies
  <2>2. {i \in HasIsin(w, items, x) : Applies(items[i], day)} = applied
    BY <1>3, <2>1
  <2>3. Applied(w, items, x, day) = positions /\ Applied(w, before, x, day) = positions
    BY <1>1, <2>2 DEF Applied
  <2>4. applied \subseteq 1 .. Len(before) /\ Len(before) \in Nat
    BY DEF HasIsin
  <2>5. positions \in Seq(applied)
    BY <2>4, InOrderProperties
  <2>6. \A k \in DOMAIN positions : positions[k] \in DOMAIN items
    BY <1>1, <2>4, <2>5
  <2>7. \A i \in DOMAIN items : Effect(items[i]) = Effect(before[i])
    BY <1>2 DEF Effect, Multiplier, Cash
  <2> HIDE DEF positions
  <2>8. Effects(items, positions) = Effects(before, positions)
    BY <2>6, <2>7 DEF Effects
  <2> QED
    BY <1>3, <2>3, <2>8 DEF Adjusted
<1>11. [i \in DOMAIN items |-> KnownPart(items[i])] = [i \in DOMAIN before |-> KnownPart(before[i])]
    BY <1>1 DEF Resaved
<1>12. [x \in SplitTypes \cup CashTypes |-> ByActionType(items, x)]
       = [x \in SplitTypes \cup CashTypes |-> ByActionType(before, x)]
    BY <1>7
<1>13. [f \in DateField |-> [from \in Day \cup {Empty} |-> [to \in Day \cup {Empty} |->
            ByDateRange(w, items, f, from, to)]]]
       = [f \in DateField |-> [from \in Day \cup {Empty} |-> [to \in Day \cup {Empty} |->
            ByDateRange(w, before, f, from, to)]]]
    BY <1>8
<1>14. [x \in Isin |-> [day \in Day |-> KnownAsOf(w, items, x, day)]]
       = [x \in Isin |-> [day \in Day |-> KnownAsOf(w, before, x, day)]]
    BY <1>9
<1>15. [x \in Isin |-> [day \in Day |-> <<Adjusted(w, items, x, day), Applied(w, items, x, day)>>]]
       = [x \in Isin |-> [day \in Day |-> <<Adjusted(w, before, x, day), Applied(w, before, x, day)>>]]
    BY <1>10
<1> QED
    BY <1>5, <1>6, <1>11, <1>12, <1>13, <1>14, <1>15 DEF Answers

(* A file goes round any number of wrappers, in any order, without a       *)
(* change in any answer of any of them.                                    *)
THEOREM SavesKeepAnswers == FileSpec => []AnswersSurviveSaves
<1>1. FileInv => AnswersSurviveSaves
  <2> SUFFICES ASSUME FileInv, NEW w \in Wrapper, Loads(w, origin)
               PROVE  Loads(w, doc) /\ Answers(w, doc) = Answers(w, origin)
    BY DEF AnswersSurviveSaves
  <2>1. doc \in Seq(ItemType) /\ origin \in Seq(ItemType) /\ Resaved(doc, origin)
    BY ItemAssumption DEF FileInv, FilesTyped
  <2>2. DOMAIN doc = DOMAIN origin
    BY <2>1 DEF Resaved
  <2>3. \A i \in DOMAIN doc : /\ doc[i].id = origin[i].id /\ doc[i].isin = origin[i].isin
                              /\ doc[i].shape \in {origin[i].shape, "object"}
    BY <2>1, <2>2, KnownFields DEF Resaved
  <2>4. Structured(origin) => Structured(doc)
    BY <2>2, <2>3 DEF Structured
  <2>5. WellTyped(origin) => WellTyped(doc)
    BY <2>2, <2>3 DEF WellTyped
  <2>6. Loads(w, doc)
    BY <2>4, <2>5 DEF Loads, PythonLoads, JavaScriptLoads, GoLoads, RustLoads
  <2> QED
    BY <2>1, <2>6, SavedAnswers
<1> QED
    BY <1>1, FileInvAlways, PTL

-----------------------------------------------------------------------------
(* The backtest example *)

(* What an action can do to a price: multiply it by a fraction, or take    *)
(* cash off it.                                                            *)
EffectType == [split : BOOLEAN, multiplier : Nat \X Nat, cash : Nat]

(* Every record of a file has an effect on prices. *)
LEMMA EffectTyped ==
    ASSUME NEW a \in ItemType
    PROVE  Effect(a) \in EffectType
<1>1. Multiplier(a) \in Nat \X Nat /\ Cash(a) \in Nat
  <2>1. CASE a.impact = NoPair
    BY <2>1 DEF ItemType, Multiplier, Cash, Null, NoPair
  <2>2. CASE a.impact # NoPair
    BY <2>2 DEF ItemType, Multiplier, Cash, Null, NoPair
  <2> QED
    BY <2>1, <2>2
<1> QED
    BY <1>1 DEF Effect, EffectType

(* A split multiplies ... *)
LEMMA SplitEffect ==
    ASSUME NEW a, a.type \in SplitTypes
    PROVE  Effect(a).split /\ Effect(a).multiplier = Multiplier(a)
    BY DEF Effect

(* ... and anything else subtracts. *)
LEMMA CashEffect ==
    ASSUME NEW a, a.type \notin SplitTypes
    PROVE  ~Effect(a).split /\ Effect(a).cash = Cash(a)
    BY DEF Effect

(* adjust_prices: one action after the other. *)
LEMMA PriceRecursion ==
    ASSUME NEW effects, Len(effects) \in Nat,
           \A k \in 1 .. Len(effects) : effects[k] \in EffectType
    PROVE  \E price : /\ PriceAfter(effects) = price[Len(effects)]
                      /\ price[0] = <<Raw, 1>>
                      /\ \A k \in 1 .. Len(effects) : price[k] = Adjust(price[k - 1], effects[k])
<1> DEFINE n == Len(effects)
           Fraction == Int \X Int
           Rec(f) == [k \in 0 .. n |-> IF k = 0 THEN <<Raw, 1>> ELSE Adjust(f[k - 1], effects[k])]
           turn == [k \in 1 .. n |-> [p \in Fraction |-> Adjust(p, effects[k])]]
           price == CHOOSE f : f = Rec(f)
<1>0. n \in Nat
    OBVIOUS
<1>1. \A k \in 1 .. n, p \in Fraction : Adjust(p, effects[k]) \in Fraction
    BY DEF Adjust, EffectType
<1>2. PriceAfter(effects) = price[n]
    BY DEF PriceAfter
<1>3. /\ turn \in [1 .. n -> [Fraction -> Fraction]]
      /\ \A k \in 1 .. n, p \in Fraction : turn[k][p] = Adjust(p, effects[k])
    BY <1>1
<1> HIDE DEF turn
<1>4. <<Raw, 1>> \in Fraction
    BY ArgumentsAssumption
<1> HIDE DEF Fraction
<1>5. PICK f : Runs(f, n, Fraction, <<Raw, 1>>, turn)
    BY <1>0, <1>3, <1>4, LoopExists
<1>6. f = Rec(f)
  <2>1. f \in [0 .. n -> Fraction] /\ f[0] = <<Raw, 1>>
        /\ \A k \in 1 .. n : f[k] = turn[k][f[k - 1]]
    BY <1>5 DEF Runs
  <2>2. ASSUME NEW k \in 1 .. n PROVE f[k] = Adjust(f[k - 1], effects[k])
    <3>1. k - 1 \in 0 .. n
        BY <1>0
    <3>2. f[k - 1] \in Fraction
        BY <2>1, <3>1
    <3> QED
        BY <1>3, <2>1, <3>2
  <2>3. \A k \in 0 .. n : f[k] = IF k = 0 THEN <<Raw, 1>> ELSE Adjust(f[k - 1], effects[k])
    <3> TAKE k \in 0 .. n
    <3>1. CASE k = 0
        BY <2>1, <3>1
    <3>2. CASE k # 0
        BY <1>0, <2>2, <3>2
    <3> QED
        BY <3>1, <3>2
  <2>4. f = [k \in 0 .. n |-> f[k]]
    BY <2>1
  <2> QED
    BY <2>3, <2>4
<1>7. price = Rec(price)
    BY <1>6
<1> HIDE DEF price
<1>8. \A k \in 0 .. n : price[k] = IF k = 0 THEN <<Raw, 1>> ELSE Adjust(price[k - 1], effects[k])
    BY <1>7
<1> QED
    BY <1>2, <1>8

(* compute_unadjusted_return: the product of the share multipliers. *)
LEMMA MultiplierRecursion ==
    ASSUME NEW items \in Seq(ItemType), NEW inWindow \in Seq(DOMAIN items)
    PROVE  \E net : /\ NetMultiplier(items, inWindow) = net[Len(inWindow)]
                    /\ net[0] = <<1, 1>>
                    /\ \A k \in 1 .. Len(inWindow) :
                         net[k] = Times(net[k - 1], ShareMultiplier(items[inWindow[k]]))
<1> DEFINE n == Len(inWindow)
           Fraction == Nat \X Nat
           Share(k) == ShareMultiplier(items[inWindow[k]])
           Rec(f) == [k \in 0 .. n |-> IF k = 0 THEN <<1, 1>> ELSE Times(f[k - 1], Share(k))]
           turn == [k \in 1 .. n |-> [p \in Fraction |-> Times(p, Share(k))]]
           net == CHOOSE f : f = Rec(f)
<1>0. n \in Nat
    OBVIOUS
<1>1. \A k \in 1 .. n, p \in Fraction : Times(p, Share(k)) \in Fraction
  <2>1. \A a \in ItemType : ShareMultiplier(a) \in Fraction
    BY DEF ItemType, ShareMultiplier, NoPair
  <2>2. \A k \in 1 .. n : items[inWindow[k]] \in ItemType
    OBVIOUS
  <2>3. \A p, q \in Fraction : Times(p, q) \in Fraction
    BY DEF Times
  <2> QED
    BY <2>1, <2>2, <2>3
<1>2. NetMultiplier(items, inWindow) = net[n]
    BY DEF NetMultiplier
<1> HIDE DEF Share
<1>3. /\ turn \in [1 .. n -> [Fraction -> Fraction]]
      /\ \A k \in 1 .. n, p \in Fraction : turn[k][p] = Times(p, Share(k))
    BY <1>1
<1> HIDE DEF turn
<1>4. <<1, 1>> \in Fraction
    OBVIOUS
<1> HIDE DEF Fraction
<1>5. PICK f : Runs(f, n, Fraction, <<1, 1>>, turn)
    BY <1>0, <1>3, <1>4, LoopExists
<1>6. f = Rec(f)
  <2>1. f \in [0 .. n -> Fraction] /\ f[0] = <<1, 1>>
        /\ \A k \in 1 .. n : f[k] = turn[k][f[k - 1]]
    BY <1>5 DEF Runs
  <2>2. ASSUME NEW k \in 1 .. n PROVE f[k] = Times(f[k - 1], Share(k))
    <3>1. k - 1 \in 0 .. n
        BY <1>0
    <3>2. f[k - 1] \in Fraction
        BY <2>1, <3>1
    <3> QED
        BY <1>3, <2>1, <3>2
  <2>3. \A k \in 0 .. n : f[k] = IF k = 0 THEN <<1, 1>> ELSE Times(f[k - 1], Share(k))
    <3> TAKE k \in 0 .. n
    <3>1. CASE k = 0
        BY <2>1, <3>1
    <3>2. CASE k # 0
        BY <1>0, <2>2, <3>2
    <3> QED
        BY <3>1, <3>2
  <2>4. f = [k \in 0 .. n |-> f[k]]
    BY <2>1
  <2> QED
    BY <2>3, <2>4
<1>7. net = Rec(net)
    BY <1>6
<1> HIDE DEF net
<1>8. \A k \in 0 .. n : net[k] = IF k = 0 THEN <<1, 1>> ELSE Times(net[k - 1], Share(k))
    BY <1>7
<1>9. net[0] = <<1, 1>> /\ \A k \in 1 .. n : net[k] = Times(net[k - 1], Share(k))
    BY <1>0, <1>8
<1> QED
    BY <1>2, <1>9 DEF Share

(* compute_price_plus_cash_return: the sum of the amounts. *)
LEMMA CashRecursion ==
    ASSUME NEW items \in Seq(ItemType), NEW inWindow \in Seq(DOMAIN items)
    PROVE  \E cash : /\ CashReceived(items, inWindow) = cash[Len(inWindow)]
                     /\ cash[0] = 0
                     /\ \A k \in 1 .. Len(inWindow) :
                          cash[k] = IF items[inWindow[k]].amount = Null THEN cash[k - 1]
                                    ELSE cash[k - 1] + items[inWindow[k]].amount
<1> DEFINE n == Len(inWindow)
           Plus(c, k) == IF items[inWindow[k]].amount = Null THEN c
                         ELSE c + items[inWindow[k]].amount
           Rec(f) == [k \in 0 .. n |-> IF k = 0 THEN 0 ELSE Plus(f[k - 1], k)]
           turn == [k \in 1 .. n |-> [c \in Nat |-> Plus(c, k)]]
           cash == CHOOSE f : f = Rec(f)
<1>0. n \in Nat
    OBVIOUS
<1>1. \A k \in 1 .. n, c \in Nat : Plus(c, k) \in Nat
  <2>1. \A k \in 1 .. n : items[inWindow[k]] \in ItemType
    OBVIOUS
  <2>2. \A k \in 1 .. n : items[inWindow[k]].amount \in Nat \cup {Null}
    BY <2>1 DEF ItemType
  <2> QED
    BY <2>2
<1>2. CashReceived(items, inWindow) = cash[n]
    BY DEF CashReceived
<1> HIDE DEF Plus
<1>3. /\ turn \in [1 .. n -> [Nat -> Nat]]
      /\ \A k \in 1 .. n, c \in Nat : turn[k][c] = Plus(c, k)
    BY <1>1
<1> HIDE DEF turn
<1>5. PICK f : Runs(f, n, Nat, 0, turn)
    BY <1>0, <1>3, LoopExists
<1>6. f = Rec(f)
  <2>1. f \in [0 .. n -> Nat] /\ f[0] = 0
        /\ \A k \in 1 .. n : f[k] = turn[k][f[k - 1]]
    BY <1>5 DEF Runs
  <2>2. ASSUME NEW k \in 1 .. n PROVE f[k] = Plus(f[k - 1], k)
    <3>1. k - 1 \in 0 .. n
        BY <1>0
    <3>2. f[k - 1] \in Nat
        BY <2>1, <3>1
    <3> QED
        BY <1>3, <2>1, <3>2
  <2>3. \A k \in 0 .. n : f[k] = IF k = 0 THEN 0 ELSE Plus(f[k - 1], k)
    <3> TAKE k \in 0 .. n
    <3>1. CASE k = 0
        BY <2>1, <3>1
    <3>2. CASE k # 0
        BY <1>0, <2>2, <3>2
    <3> QED
        BY <3>1, <3>2
  <2>4. f = [k \in 0 .. n |-> f[k]]
    BY <2>1
  <2> QED
    BY <2>3, <2>4
<1>7. cash = Rec(cash)
    BY <1>6
<1> HIDE DEF cash
<1>8. \A k \in 0 .. n : cash[k] = IF k = 0 THEN 0 ELSE Plus(cash[k - 1], k)
    BY <1>7
<1> QED
    BY <1>2, <1>8 DEF Plus

(* A product that has grown stays grown. *)
LEMMA GrowingProduct ==
    ASSUME NEW p \in Nat, NEW q \in Nat, NEW a \in Nat, NEW b \in Nat,
           p >= q, p > 0, a > b
    PROVE  p * a > q * b /\ p * a > 0
<1>1. p * a >= p * (b + 1)
    BY SMT
<1>2. p * (b + 1) = p * b + p
    BY SMT
<1>3. p * b >= q * b
    BY SMT
<1>4. p * a \in Nat /\ p * b \in Nat /\ q * b \in Nat
    OBVIOUS
<1> QED
    BY <1>1, <1>2, <1>3, <1>4

(* Forward splits: the net multiplier of the window is the inverse of what *)
(* the wrapper does to the first price.                                    *)
LEMMA SplitsCancel ==
    ASSUME NEW items \in Seq(ItemType), NEW inWindow \in Seq(DOMAIN items),
           \A k \in 1 .. Len(inWindow) : Forward(items[inWindow[k]])
    PROVE  \E m \in Nat \X Nat :
             /\ NetMultiplier(items, inWindow) = m
             /\ PriceAfter(Effects(items, inWindow)) = <<Raw * m[2], m[1]>>
             /\ m[1] > m[2] \/ m = <<1, 1>>
<1> DEFINE n == Len(inWindow)
           effects == Effects(items, inWindow)
<1>1. n \in Nat /\ Len(effects) = n /\ DOMAIN inWindow = 1 .. n
    BY DEF Effects
<1>2. ASSUME NEW k \in 1 .. n
      PROVE  /\ effects[k] \in EffectType /\ effects[k].split
             /\ \E a, b \in Nat : /\ a > b /\ effects[k].multiplier = <<b, a>>
                                  /\ ShareMultiplier(items[inWindow[k]]) = <<a, b>>
  <2> DEFINE item == items[inWindow[k]]
  <2>1. item \in ItemType /\ effects[k] = Effect(item) /\ Forward(item)
    BY <1>1 DEF Effects
  <2>2. item.impact \in Nat \X Nat \X Nat /\ item.impact # NoPair
    BY <2>1 DEF ItemType, Forward
  <2>3. Multiplier(item) = <<item.impact[1], item.impact[2]>>
        /\ ShareMultiplier(item) = <<item.impact[2], item.impact[1]>>
    BY <2>2 DEF Multiplier, ShareMultiplier
  <2>4. effects[k].multiplier = Multiplier(item) /\ effects[k].split
    BY <2>1, SplitEffect DEF Forward, SplitTypes
  <2>5. item.impact[1] \in Nat /\ item.impact[2] \in Nat /\ item.impact[2] > item.impact[1]
    BY <2>1, <2>2 DEF Forward
  <2>6. effects[k] \in EffectType
    BY <2>1, EffectTyped
  <2> QED
    BY <2>3, <2>4, <2>5, <2>6
<1> HIDE DEF effects
<1>3. PICK price : /\ PriceAfter(effects) = price[n]
                   /\ price[0] = <<Raw, 1>>
                   /\ \A k \in 1 .. n : price[k] = Adjust(price[k - 1], effects[k])
  <2>1. Len(effects) \in Nat /\ \A k \in 1 .. Len(effects) : effects[k] \in EffectType
    BY <1>1, <1>2
  <2>2. \E price : /\ PriceAfter(effects) = price[Len(effects)]
                  /\ price[0] = <<Raw, 1>>
                  /\ \A k \in 1 .. Len(effects) : price[k] = Adjust(price[k - 1], effects[k])
    BY <2>1, PriceRecursion
  <2> QED
    BY <1>1, <2>2
<1>4. PICK net : /\ NetMultiplier(items, inWindow) = net[n]
                 /\ net[0] = <<1, 1>>
                 /\ \A k \in 1 .. n :
                      net[k] = Times(net[k - 1], ShareMultiplier(items[inWindow[k]]))
    BY MultiplierRecursion
<1> DEFINE Good(k) == \E p, q \in Nat :
                        /\ net[k] = <<p, q>> /\ price[k] = <<Raw * q, p>>
                        /\ p > q \/ (p = 1 /\ q = 1)
           T == {k \in Nat : k <= n => Good(k)}
<1>5. Good(0)
    BY <1>3, <1>4, ArgumentsAssumption
<1>6. ASSUME NEW k \in Nat, k + 1 <= n, Good(k) PROVE Good(k + 1)
  <2>1. PICK p, q \in Nat : /\ net[k] = <<p, q>> /\ price[k] = <<Raw * q, p>>
                            /\ p > q \/ (p = 1 /\ q = 1)
    BY <1>6
  <2>2. k + 1 \in 1 .. n /\ (k + 1) - 1 = k
    BY <1>1, <1>6
  <2>3. PICK a, b \in Nat : /\ a > b /\ effects[k + 1].multiplier = <<b, a>>
                            /\ ShareMultiplier(items[inWindow[k + 1]]) = <<a, b>>
                            /\ effects[k + 1].split
    BY <1>2, <2>2
  <2>4. net[k + 1] = <<p * a, q * b>>
    BY <1>4, <2>1, <2>2, <2>3 DEF Times
  <2>5. price[k + 1] = <<(Raw * q) * b, p * a>>
    <3>1. price[k + 1] = Adjust(<<Raw * q, p>>, effects[k + 1])
        BY <1>3, <2>1, <2>2
    <3>2. Adjust(<<Raw * q, p>>, effects[k + 1])
          = <<(Raw * q) * effects[k + 1].multiplier[1], p * effects[k + 1].multiplier[2]>>
        BY <2>3 DEF Adjust
    <3> QED
        BY <2>3, <3>1, <3>2
  <2>6. (Raw * q) * b = Raw * (q * b)
    BY ArgumentsAssumption, SMT
  <2>7. p * a \in Nat /\ q * b \in Nat /\ p * a > q * b
    <3>1. p >= q /\ p > 0
        BY <2>1
    <3>2. p * a > q * b
        BY <2>3, <3>1, GrowingProduct
    <3>3. p * a \in Nat /\ q * b \in Nat
        BY <2>1, <2>3
    <3> QED
        BY <3>2, <3>3
  <2> QED
    BY <2>4, <2>5, <2>6, <2>7
<1>7. Good(n)
  <2> HIDE DEF Good
  <2>1. 0 \in T /\ \A k \in Nat : k \in T => k + 1 \in T
    BY <1>1, <1>5, <1>6
  <2>2. n \in T
    BY <1>1, <2>1, InductiveSetHasAll
  <2> QED
    BY <1>1, <2>2
<1> QED
    BY <1>3, <1>4, <1>7 DEF effects

(* Dividends: the cash of the window is what the wrapper subtracts. *)
LEMMA CashCancels ==
    ASSUME NEW items \in Seq(ItemType), NEW inWindow \in Seq(DOMAIN items),
           \A k \in 1 .. Len(inWindow) : PlainCash(items[inWindow[k]])
    PROVE  \E c \in Nat : /\ CashReceived(items, inWindow) = c
                          /\ PriceAfter(Effects(items, inWindow)) = <<Raw - c, 1>>
<1> DEFINE n == Len(inWindow)
           effects == Effects(items, inWindow)
<1>1. n \in Nat /\ Len(effects) = n /\ DOMAIN inWindow = 1 .. n
    BY DEF Effects
<1>2. ASSUME NEW k \in 1 .. n
      PROVE  /\ effects[k] \in EffectType /\ ~effects[k].split
             /\ items[inWindow[k]].amount # Null /\ items[inWindow[k]].amount \in Nat
             /\ effects[k].cash = items[inWindow[k]].amount
  <2> DEFINE item == items[inWindow[k]]
  <2>1. item \in ItemType /\ effects[k] = Effect(item) /\ PlainCash(item)
    BY <1>1 DEF Effects
  <2>2. item.amount \in Nat \cup {Null} /\ item.amount # Null /\ Cash(item) = item.amount
    BY <2>1 DEF ItemType, PlainCash
  <2>3. effects[k].cash = Cash(item) /\ ~effects[k].split
    BY <2>1, CashEffect DEF PlainCash, CashTypes, SplitTypes
  <2>4. effects[k] \in EffectType
    BY <2>1, EffectTyped
  <2> QED
    BY <2>2, <2>3, <2>4
<1> HIDE DEF effects
<1>3. PICK price : /\ PriceAfter(effects) = price[n]
                   /\ price[0] = <<Raw, 1>>
                   /\ \A k \in 1 .. n : price[k] = Adjust(price[k - 1], effects[k])
  <2>1. Len(effects) \in Nat /\ \A k \in 1 .. Len(effects) : effects[k] \in EffectType
    BY <1>1, <1>2
  <2>2. \E price : /\ PriceAfter(effects) = price[Len(effects)]
                  /\ price[0] = <<Raw, 1>>
                  /\ \A k \in 1 .. Len(effects) : price[k] = Adjust(price[k - 1], effects[k])
    BY <2>1, PriceRecursion
  <2> QED
    BY <1>1, <2>2
<1>4. PICK cash : /\ CashReceived(items, inWindow) = cash[n]
                  /\ cash[0] = 0
                  /\ \A k \in 1 .. n :
                       cash[k] = IF items[inWindow[k]].amount = Null THEN cash[k - 1]
                                 ELSE cash[k - 1] + items[inWindow[k]].amount
    BY CashRecursion
<1> DEFINE Good(k) == cash[k] \in Nat /\ price[k] = <<Raw - cash[k], 1>>
           T == {k \in Nat : k <= n => Good(k)}
<1>5. Good(0)
    BY <1>3, <1>4, ArgumentsAssumption
<1>6. ASSUME NEW k \in Nat, k + 1 <= n, Good(k) PROVE Good(k + 1)
  <2>1. k + 1 \in 1 .. n /\ (k + 1) - 1 = k
    <3> HIDE DEF Good, n
    <3> QED
        BY <1>1, <1>6
  <2>2. cash[k + 1] = cash[k] + items[inWindow[k + 1]].amount
    BY <1>2, <1>4, <2>1
  <2>3. price[k + 1] = <<(Raw - cash[k]) - items[inWindow[k + 1]].amount * 1, 1>>
    <3>1. price[k + 1] = Adjust(<<Raw - cash[k], 1>>, effects[k + 1])
        BY <1>3, <1>6, <2>1
    <3>2. ~effects[k + 1].split /\ effects[k + 1].cash = items[inWindow[k + 1]].amount
        BY <1>2, <2>1
    <3> QED
        BY <3>1, <3>2 DEF Adjust
  <2>4. items[inWindow[k + 1]].amount \in Nat
    BY <1>2, <2>1
  <2> QED
    BY <1>6, <2>2, <2>3, <2>4, ArgumentsAssumption
<1>7. Good(n)
  <2> HIDE DEF Good
  <2>1. 0 \in T /\ \A k \in Nat : k \in T => k + 1 \in T
    BY <1>1, <1>5, <1>6
  <2>2. n \in T
    BY <1>1, <2>1, InductiveSetHasAll
  <2> QED
    BY <1>1, <2>2
<1> QED
    BY <1>3, <1>4, <1>7 DEF effects

(* Where the window covers every action, its actions of the types of the   *)
(* wrapper are those the wrapper applies, in the same order.               *)
LEMMA WindowIsApplied ==
    ASSUME NEW items \in Seq(ItemType), NEW isin \in Nat \ {Empty}, NEW start \in Nat, NEW end \in Nat,
           Covered(items, isin, start, end),
           NEW types, types \subseteq SplitTypes \cup CashTypes,
           \A i \in HasIsin("python", items, isin) : items[i].type \in types
    PROVE  /\ InWindow(items, isin, types, start, end) = Applied("python", items, isin, start)
           /\ Applied("python", items, isin, start) \in Seq(HasIsin("python", items, isin))
<1> DEFINE own == HasIsin("python", items, isin)
<1>1. own \subseteq DOMAIN items /\ \A i \in own : items[i].isin = isin
    BY DEF HasIsin
<1>2. \A i \in own : /\ Present(items[i].ex) /\ start < items[i].ex /\ items[i].ex <= end
                     /\ \A j \in own : i # j => DedupeKey(items[j]) # DedupeKey(items[i])
    BY <1>1 DEF Covered
<1>3. \A i \in own : items[i].ex \in Nat
    BY <1>1, <1>2, ItemFields DEF Present, Null, DateField
<1> HIDE DEF own
<1>4. Deduped(items, isin) = own
  <2>1. \A i, j \in own : j < i => i # j
    <3>1. own \subseteq Int
        BY <1>1
    <3> QED
        BY <3>1
  <2> QED
    BY <1>2, <2>1 DEF Deduped, own
<1>5. \A i \in own : items[i].type \in types /\ InRange(items[i].ex, start, end)
  <2>1. \A i \in own : InRange(items[i].ex, start, end)
    BY <1>2, <1>3 DEF InRange
  <2>2. \A i \in own : items[i].type \in types
    BY DEF own
  <2> QED
    BY <2>1, <2>2
<1>6. \A i \in own : Applies(items[i], start)
    BY <1>2, <1>5 DEF Applies
<1>7. {i \in Deduped(items, isin) : items[i].type \in types /\ InRange(items[i].ex, start, end)} = own
    BY <1>4, <1>5
<1>8. {i \in own : Applies(items[i], start)} = own
    BY <1>6
<1>9. Applied("python", items, isin, start) = InOrder(Len(items), own)
    BY <1>8 DEF Applied, own
<1>10. InOrder(Len(items), own) \in Seq(own)
  <2>1. own \subseteq 1 .. Len(items) /\ Len(items) \in Nat
    BY <1>1
  <2> QED
    BY <2>1, InOrderProperties
<1> QED
    BY <1>7, <1>9, <1>10 DEF InWindow, own

(* For any raw price, any number of forward splits and any ratios, the     *)
(* example's share multiplier undoes adjust_prices; for any number of      *)
(* dividends its cash makes up for what adjust_prices subtracts.           *)
THEOREM BacktestAgrees == FileSpec => []BacktestUndoesAdjustment
<1>1. FileInv => BacktestUndoesAdjustment
  <2> SUFFICES ASSUME FileInv, NEW x \in Isin \ {Empty}, NEW start \in Day, NEW end \in Day,
                      HasIsin("python", doc, x) # {}, Covered(doc, x, start, end)
      PROVE  LET own   == HasIsin("python", doc, x)
                 first == Adjusted("python", doc, x, start)
                 last  == <<Raw, 1>>
                 seen(types) == InWindow(doc, x, types, start, end)
             IN  /\ (\A i \in own : Forward(doc[i])) =>
                      SamePrice(UnadjustedReturn(first, last, doc, seen(SplitTypes)),
                                PriceReturn(<<Raw, 1>>, last))
                 /\ (\A i \in own : PlainCash(doc[i])) =>
                      SamePrice(PricePlusCashReturn(<<Raw, 1>>, first, doc, seen(CashTypes)),
                                <<1, 1>>)
    BY DEF BacktestUndoesAdjustment
  <2> DEFINE own     == HasIsin("python", doc, x)
             first   == Adjusted("python", doc, x, start)
             last    == <<Raw, 1>>
             applied == Applied("python", doc, x, start)
             seen(types) == InWindow(doc, x, types, start, end)
  <2>1. /\ doc \in Seq(ItemType) /\ x \in Nat \ {Empty} /\ Raw \in Nat
        /\ start \in Nat /\ end \in Nat
    BY ArgumentsAssumption DEF FileInv, FilesTyped
  <2>2. first = PriceAfter(Effects(doc, applied))
    BY DEF Adjusted
  <2>3. own \subseteq DOMAIN doc
    BY DEF HasIsin
  <2>4. ASSUME \A i \in own : Forward(doc[i])
        PROVE  SamePrice(UnadjustedReturn(first, last, doc, seen(SplitTypes)),
                         PriceReturn(<<Raw, 1>>, last))
    <3>1. \A i \in own : doc[i].type \in SplitTypes
        BY <2>4 DEF Forward, SplitTypes
    <3>2. seen(SplitTypes) = applied /\ applied \in Seq(own)
        BY <2>1, <3>1, WindowIsApplied
    <3>3. applied \in Seq(DOMAIN doc) /\ \A k \in 1 .. Len(applied) : Forward(doc[applied[k]])
        BY <2>3, <2>4, <3>2
    <3> HIDE DEF first, applied, seen, own
    <3>4. PICK m \in Nat \X Nat : /\ NetMultiplier(doc, applied) = m
                                  /\ first = <<Raw * m[2], m[1]>>
                                  /\ m[1] > m[2] \/ m = <<1, 1>>
        BY <2>1, <2>2, <3>3, SplitsCancel
    <3>5. CASE m = <<1, 1>>
        BY <2>1, <3>2, <3>4, <3>5 DEF UnadjustedReturn, PriceReturn, Over, SamePrice
    <3>6. CASE m[1] > m[2]
      <4>1. UnadjustedReturn(first, last, doc, applied) = Over(last, Times(first, m))
        BY <3>4, <3>6 DEF UnadjustedReturn
      <4>2. Over(last, Times(first, m)) = <<Raw * (m[1] * m[2]), 1 * ((Raw * m[2]) * m[1])>>
        BY <3>4 DEF Over, Times
      <4>3. PriceReturn(<<Raw, 1>>, last) = <<Raw * 1, 1 * Raw>>
        BY DEF PriceReturn, Over
      <4>4. \A p, q \in Nat : (Raw * (p * q)) * (1 * Raw) = (Raw * 1) * (1 * ((Raw * q) * p))
        BY <2>1, SMT
      <4>5. (Raw * (m[1] * m[2])) * (1 * Raw) = (Raw * 1) * (1 * ((Raw * m[2]) * m[1]))
        BY <3>4, <4>4
      <4> QED
        BY <3>2, <4>1, <4>2, <4>3, <4>5 DEF SamePrice
    <3> QED
        BY <3>4, <3>5, <3>6
  <2>5. ASSUME \A i \in own : PlainCash(doc[i])
        PROVE  SamePrice(PricePlusCashReturn(<<Raw, 1>>, first, doc, seen(CashTypes)), <<1, 1>>)
    <3>1. \A i \in own : doc[i].type \in CashTypes
        BY <2>5 DEF PlainCash
    <3>2. seen(CashTypes) = applied /\ applied \in Seq(own)
        BY <2>1, <3>1, WindowIsApplied
    <3>3. applied \in Seq(DOMAIN doc) /\ \A k \in 1 .. Len(applied) : PlainCash(doc[applied[k]])
        BY <2>3, <2>5, <3>2
    <3> HIDE DEF first, applied, seen, own
    <3>4. PICK c \in Nat : CashReceived(doc, applied) = c /\ first = <<Raw - c, 1>>
        BY <2>1, <2>2, <3>3, CashCancels
    <3> QED
        BY <2>1, <3>2, <3>4 DEF PricePlusCashReturn, Over, SamePrice
  <2> QED
    BY <2>4, <2>5
<1> QED
    BY <1>1, FileInvAlways, PTL
=============================================================================
